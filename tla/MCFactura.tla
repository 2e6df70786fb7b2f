------------------------------ MODULE MCFactura ------------------------------
(***************************************************************************)
(* Small instances of what keeps the books: the chain of the registry      *)
(* (InvoiceChain, extended), the documents attached to expenses and        *)
(* returns (AttachedDocument, extended), the amounts and the PDF of an     *)
(* invoice, the returns of a year, and the check of tax numbers. They      *)
(* share no state; a behaviour is one of the `part`.                       *)
(***************************************************************************)
EXTENDS InvoiceChain, AttachedDocument, Integers, TLC

VARIABLES
  part,
  invoices, documents, renders, spoiled,
  present, filed, amended, steps,
  meant, number

-----------------------------------------------------------------------------
(* What is typed into the form of an invoice. *)
Form(lines, pays) ==
  [lines |-> lines, eur |-> lines, vat |-> 21, irpf |-> None, clientPays |-> pays, currency |-> "EUR", year |-> 2026]
Foreign == [Form(<<333, 5>>, TRUE) EXCEPT !.irpf = 15]
TheForms ==
  {Form(<<n>>, pays) : n \in 1..500, pays \in BOOLEAN} \cup {Form(<<m, n>>, TRUE) : m, n \in 1..9}
  \cup {[Foreign EXCEPT !.vat = v, !.currency = c, !.eur = e] :
          v \in {0, 10, 21}, c \in {"EUR", "USD"}, e \in {<<>>, <<300, 4>>}}

Draft ==
  INSTANCE InvoiceDraft WITH
    Caller <- Req, Forms <- TheForms, Company <- [fixed |-> None, activity |-> "profesional", start |-> 2025],
    MaxNumber <- 2, MaxVersion <- 2

-----------------------------------------------------------------------------
(* Sales and purchases of three quarters: at home with and without a       *)
(* deduction, in the Union with and without a tax number, a recurring one. *)
Booked(side, q, country, nature, net) ==
  [side |-> side, q |-> q, country |-> country, nature |-> nature, net |-> net, vat |-> 0, rate |-> 0, irpf |-> 0,
   noIva |-> FALSE, nif |-> TRUE, kind |-> "invoice", pct |-> 100, forIrpf |-> TRUE]
TheRows == <<
  [Booked("sale", 1, "ES", "service", 1000) EXCEPT !.rate = 21, !.vat = 210, !.irpf = 150],
  [Booked("buy", 1, "DE", "service", 2345) EXCEPT !.pct = 50],
  [Booked("buy", 2, "ES", "goods", 10000) EXCEPT !.vat = 2100, !.forIrpf = FALSE],
  [Booked("sale", 2, "XI", "goods", 5000) EXCEPT !.nif = FALSE],
  [Booked("buy", 2, "DE", "service", 300) EXCEPT !.kind = "recurring"],
  [Booked("sale", 3, "ES", "goods", 15000) EXCEPT !.rate = 21, !.vat = 3150],
  Booked("buy", 3, "ES", "service", 700)>>

Year ==
  INSTANCE TaxYear WITH
    Rows <- TheRows, Quarters <- 1..3, EU <- {"DE"}, Hows <- {"boxes", "bare", "typed"}, MaxSteps <- 3,
    AtFirst <- {{}, 1..7, {1, 7}, {3, 6}, {2, 3, 6}, {1, 2, 4, 5}, {3, 4, 6, 7}, {1, 2, 3, 5, 6}},
    Typed <- [filed |-> TRUE, paid |-> 100, next |-> 0, has |-> TRUE, b01 |-> 9000, b02 |-> 0, b06 |-> 0, b15 |-> 0, b46 |-> 0]

Numbers ==
  INSTANCE TaxNumbers WITH Country <- {"IE", "ES", "PT", "IT", "DE", "FR"}, Digit <- {0, 7}, Key <- {<<10, 11>>}

-----------------------------------------------------------------------------
draftVars    == <<invoices, documents, renders, spoiled>>
yearVars     == <<present, filed, amended, steps>>
numberVars   == <<meant, number>>

\* A part that a behaviour is not of is left out of its states.
NoDraft    == invoices = None /\ documents = None /\ renders = None /\ spoiled = None
NoYear     == present = None /\ filed = None /\ amended = None /\ steps = None
NoNumbers  == meant = None /\ number = None

FacturaInit ==
  /\ part \in {"chain", "draft", "year", "attached", "numbers"}
  /\ Init /\ DInit
  /\ IF part = "draft" THEN Draft!IInit ELSE NoDraft
  /\ IF part = "year" THEN Year!TInit ELSE NoYear
  /\ IF part = "numbers" THEN Numbers!NInit ELSE NoNumbers

FacturaNext ==
  /\ \/ part = "chain" /\ Next
     \/ part = "draft" /\ Draft!INext
     \/ part = "year" /\ Year!TNext
     \/ part = "attached" /\ DNext
     \/ part = "numbers" /\ Numbers!NNext
  /\ UNCHANGED part
  /\ part # "chain" => UNCHANGED vars
  /\ part # "draft" => UNCHANGED draftVars
  /\ part # "year" => UNCHANGED yearVars
  /\ part # "attached" => UNCHANGED dvars
  /\ part # "numbers" => UNCHANGED numberVars

FacturaSpec == FacturaInit /\ [][FacturaNext]_<<part, vars, draftVars, yearVars, dvars, numberVars>>

(* The bound of the chain: after a peril, two rows ever signed. *)
ShortAfterPeril == perils = {} \/ signed <= 2

Symmetry == Permutations(Invoice) \cup Permutations(Req)

-----------------------------------------------------------------------------
(* The amounts of an invoice agree with each other, whatever is typed; between renders its PDF is its own and shows its *)
(* number and its text.                                                                                                 *)
InvoiceSound == part = "draft" => Draft!AmountsAgree /\ Draft!DocumentIsCurrent

(* No cent is carried twice or lost over the returns of a year, and model 349 agrees with model 303. *)
YearAddsUp == part = "year" => Year!CarriedOnce /\ Year!Reconciled

(* One wrong character of a tax number is found, where its check character covers it. *)
MistypedIsFound == part = "numbers" => Numbers!MistypedIsFound
=============================================================================
