-------------------------------- MODULE TaxYear --------------------------------
(***************************************************************************)
(* The quarterly returns of a year (declarations.engine.ts): what models   *)
(* 303, 349 and 130 say is computed from the invoices and expenses there   *)
(* are and from the returns that were filed, while rows come and go and    *)
(* returns are filed, replaced, moved and removed. Money is in cents.      *)
(***************************************************************************)
EXTENDS Integers, FiniteSets, FiniteSetsExt

CONSTANTS
  Rows,      \* [id -> invoice or expense]
  AtFirst,   \* the sets of ids there may be at first
  Quarters,  \* 1..n, n <= 4
  EU,        \* EU_MEMBER_CODES
  Hows,      \* how returns are filed: "boxes" as computed, "bare" the result alone, "typed" in from another program
  Typed,     \* the 130 of the other program
  MaxSteps   \* bound

NotFiled == [filed |-> FALSE, paid |-> 0, next |-> 0, has |-> FALSE, b01 |-> 0, b02 |-> 0, b06 |-> 0, b15 |-> 0, b46 |-> 0]
Models == {"303", "130"}

VARIABLES
  present,   \* ids of the rows: issued and not annulled, or entered
  filed,     \* FiledDeclaration rows
  amended,   \* history: models whose returns were not filed in order, each once, and with their boxes
  steps

tvars == <<present, filed, amended, steps>>

-----------------------------------------------------------------------------
(* Helpers. *)

\* Math.round takes a half up, of a negative number too.
Round(n, d) == (2 * n + d) \div (2 * d)
Larger(a, b)  == IF a > b THEN a ELSE b
Smaller(a, b) == IF a < b THEN a ELSE b
Sum(S, Of(_)) == MapThenSumSet(LAMBDA i : Of(Rows[i]), S)

\* classifyTerritory.
Territory(r) ==
  CASE r.country = "ES" -> IF r.noIva THEN "ES_NO_IVA" ELSE "ES_IVA"
    [] r.country = "XI" -> IF r.nature = "goods" THEN "EU" ELSE "THIRD"
    [] r.country \in EU -> "EU"
    [] OTHER            -> "THIRD"

InQuarter(q) == {i \in present : Rows[i].q = q}
UpTo(q)      == {i \in present : Rows[i].q <= q}
Sales(S)     == {i \in S : Rows[i].side = "sale"}
Buys(S)      == {i \in S : Rows[i].side = "buy"}
Invoiced(S)  == {i \in Buys(S) : Rows[i].kind = "invoice"}
Of(S, t)     == {i \in S : Territory(Rows[i]) = t}
Earlier(m, q) == {p \in Quarters : p < q /\ filed[m][p].filed}
Net(r)  == r.net
Vat(r)  == r.vat
Irpf(r) == r.irpf
Cost(r) == IF r.forIrpf THEN r.net ELSE 0

-----------------------------------------------------------------------------
(* compute303. A domestic sale counts at the three rates only. *)

Charged(q) == {i \in Of(Sales(InQuarter(q)), "ES_IVA") : Rows[i].rate \in {4, 10, 21}}
Outside(q) == LET B == Invoiced(InQuarter(q))
              IN Of(B, "THIRD") \cup {i \in Of(B, "ES_NO_IVA") : Rows[i].nature = "service"}
Inside(q)  == Of(Invoiced(InQuarter(q)), "ES_IVA")
Bought(q)  == Of(Invoiced(InQuarter(q)), "EU")
Delivered(q) == Of(Sales(InQuarter(q)), "EU")

WeighedVat(r) == r.vat * r.pct
WeighedNet(r) == r.net * r.pct
Box10(q) == Sum(Bought(q), Net)
Box59(q) == Sum(Delivered(q), Net)
\* The tax of a reverse charge is that of the sum, rounded once; what is deducted of it is weighed by row.
Box27(q) == Sum(Charged(q), Vat) + Round(Box10(q) * 21, 100) + Round(Sum(Outside(q), Net) * 21, 100)
Box45(q) == Round(Sum(Inside(q), WeighedVat) * 100 + Sum(Outside(q), WeighedNet) * 21, 10000)
            + Round(Sum(Bought(q), WeighedNet) * 21, 10000)
Box46(q) == Box27(q) - Box45(q)

\* The pending balance of the last return filed before, of the same year; a positive result uses it up first.
Prior(q)     == Earlier("303", q)
Box110(q)    == IF Prior(q) = {} THEN 0 ELSE Larger(0, filed["303"][Max(Prior(q))].next)
AppliedAll(q) == Box110(q)
Box78(q)     == IF Box46(q) >= 0 THEN Smaller(Box110(q), Box46(q)) ELSE 0
Box71(q)     == Box46(q) - Box78(q)
Box87(q)     == IF Box46(q) >= 0 THEN Box110(q) - Box78(q) ELSE Box110(q) - Box46(q)

-----------------------------------------------------------------------------
(* build349: the rows with a tax number, by clave. *)

BoughtWithRates(q) == {i \in Of(Buys(InQuarter(q)), "EU") : Rows[i].nif}
BoughtWith(q)      == {i \in Bought(q) : Rows[i].nif}
Acquisitions(q) == Sum(BoughtWith(q), Net)
Deliveries(q)   == Sum({i \in Delivered(q) : Rows[i].nif}, Net)
\* reconcile349vs303.
Mismatch(q) == Acquisitions(q) # Box10(q) \/ Deliveries(q) # Box59(q)

-----------------------------------------------------------------------------
(* compute130. *)

Paid(q)   == Earlier("130", q)
\* A return with its boxes stands for the quarters up to its own, if the lists hold no row before this quarter.
Closed(q) == IF UpTo(q - 1) # {} THEN {} ELSE {p \in Paid(q) : filed["130"][p].has}
Carry(q)  == IF Closed(q) = {} THEN NotFiled ELSE filed["130"][Max(Closed(q))]
Since(q)  == {i \in UpTo(q) : Closed(q) = {} \/ Rows[i].q > Max(Closed(q))}
FiledSum(S, m, F(_)) == MapThenSumSet(LAMBDA p : F(filed[m][p]), S)
Positive(f) == Larger(0, f.paid)
Negative(f) == Larger(0, -f.paid)
Applied(f)  == Larger(0, f.b15)

Box01(q) == Carry(q).b01 + Sum(Sales(Since(q)), Net)
Box02(q) == Carry(q).b02 + Sum(Buys(Since(q)), Cost)
Box06(q) == Carry(q).b06 + Sum(Sales(Since(q)), Irpf)
Box07(q) == Round(20 * Larger(0, Box01(q) - Box02(q)), 100) - FiledSum(Paid(q), "130", Positive) - Box06(q)
\* What earlier returns were negative by and no return has used.
UnusedAll(q) == FiledSum(Paid(q), "130", Negative)
Unused(q)    == Larger(0, FiledSum(Paid(q), "130", Negative) - FiledSum(Paid(q), "130", Applied))
Box15(q) == Smaller(Unused(q), Larger(0, Box07(q)))

-----------------------------------------------------------------------------
(* The archive: create, update and remove of filed declarations. *)

\* buildData: without an explicit figure the result paid is box 71 or box 07, and what is carried box 87.
Return(m, q, how) ==
  IF how = "typed" THEN Typed
  ELSE IF m = "303"
  THEN [NotFiled EXCEPT !.filed = TRUE, !.has = (how = "boxes"), !.paid = Box71(q), !.b46 = Box46(q),
                        !.next = IF how = "boxes" THEN Box87(q) ELSE 0]
  ELSE [NotFiled EXCEPT !.filed = TRUE, !.has = (how = "boxes"), !.paid = Box07(q),
                        !.b01 = IF how = "boxes" THEN Box01(q) ELSE 0, !.b02 = IF how = "boxes" THEN Box02(q) ELSE 0,
                        !.b06 = IF how = "boxes" THEN Box06(q) ELSE 0, !.b15 = IF how = "boxes" THEN Box15(q) ELSE 0]

Step == steps < MaxSteps /\ steps' = steps + 1

\* An upsert by the period.
File(m, q, how) ==
  /\ Step /\ (how = "typed" => m = "130")
  /\ filed' = [filed EXCEPT ![m][q] = Return(m, q, how)]
  /\ amended' = IF how = "bare" \/ \E p \in Quarters : p >= q /\ filed[m][p].filed THEN amended \cup {m} ELSE amended
  /\ UNCHANGED present

\* A return may be moved to a period that has none.
MoveReturn(m, q, to) ==
  /\ Step /\ filed[m][q].filed /\ ~filed[m][to].filed
  /\ filed' = [filed EXCEPT ![m][q] = NotFiled, ![m][to] = filed[m][q]]
  /\ amended' = amended \cup {m}
  /\ UNCHANGED present

RemoveReturn(m, q) ==
  /\ Step /\ filed[m][q].filed
  /\ filed' = [filed EXCEPT ![m][q] = NotFiled] /\ amended' = amended \cup {m}
  /\ UNCHANGED present

\* An invoice is issued or an expense entered; an invoice is annulled or an expense deleted.
Enter(i) == Step /\ i \notin present /\ present' = present \cup {i} /\ UNCHANGED <<filed, amended>>
Leave(i) == Step /\ i \in present /\ present' = present \ {i} /\ UNCHANGED <<filed, amended>>

TInit ==
  /\ present \in AtFirst /\ filed = [m \in Models |-> [q \in Quarters |-> NotFiled]]
  /\ amended = {} /\ steps = 0

TNext ==
  \/ \E m \in Models, q \in Quarters :
       RemoveReturn(m, q) \/ (\E how \in Hows : File(m, q, how)) \/ \E to \in Quarters : MoveReturn(m, q, to)
  \/ \E i \in DOMAIN Rows : Enter(i) \/ Leave(i)

TSpec == TInit /\ [][TNext]_tvars

-----------------------------------------------------------------------------
(* Over the 303 returns of a year no cent of tax is paid twice or lost: what was paid beyond the results of the    *)
(* quarters is what is left to compensate, if the returns were filed in order, with their boxes.                    *)
OffsetConserved ==
  LET F == {q \in Quarters : filed["303"][q].filed}
      Beyond(f) == Larger(0, f.paid) - f.b46
  IN "303" \notin amended /\ F # {} => FiledSum(F, "303", Beyond) = filed["303"][Max(F)].next

\* No negative result of a 130 is used twice, if the returns were filed in order, with their boxes.
NegativesUsedOnce ==
  "130" \notin amended => FiledSum(Quarters, "130", Applied) <= FiledSum(Quarters, "130", Negative)

\* The 349 agrees with the 303 in every quarter whose rows in the Union all have a tax number, a recurring charge
\* without an invoice among them or not.
Reconciled == \A q \in Quarters : Mismatch(q) => \E i \in Bought(q) \cup Delivered(q) : ~Rows[i].nif

\* What the returns promise together.
CarriedOnce == OffsetConserved /\ NegativesUsedOnce

\* "A filed 130 closes everything up to its quarter ... So a mid-year migrant needs no prior rows": the income of
\* the year in box 01 is not less than in the last return that has its boxes, when no row has left the lists.
MigrantKeepsTheYear ==
  \A q \in Quarters, p \in Quarters :
    p < q /\ filed["130"][p].has /\ (\A i \in present : Rows[i].q > p) => Box01(q) >= filed["130"][p].b01
=============================================================================
