----------------------------- MODULE InvoiceDraft -----------------------------
(***************************************************************************)
(* What an invoice says and the PDF that shows it (InvoicesController,     *)
(* InvoicesService, InvoicesRepairCron): the amounts are computed from the *)
(* form; a render loads the row, uploads the document under a key made of  *)
(* the number, writes the key into the row and deletes the one before.     *)
(* Money is in cents.                                                      *)
(***************************************************************************)
EXTENDS Integers, Sequences, FiniteSets, FiniteSetsExt

CONSTANTS
  Invoice, Caller,
  Forms,       \* what may be typed: lines, their EUR amounts, vat, irpf (None: by the profile), clientPays, currency, year
  Company,     \* defaultIrpfRate (or None), activityType, start (or None)
  None,
  MaxNumber, MaxVersion  \* bounds

NoInvoice == [there |-> FALSE, sent |-> FALSE, number |-> 0, version |-> 0, key |-> None]
NoRender  == [of |-> None, row |-> NoInvoice, at |-> "off"]

VARIABLES
  invoices,  \* rows; a number with a PENDING registry comes before sent
  documents, \* [key -> what the PDF shows, or None]
  renders,   \* renderAndStore between two awaits
  spoiled    \* history: invoices whose render failed, met another one or was left out, and those whose key is another's

ivars == <<invoices, documents, renders, spoiled>>

Keys == ({"draft"} \X Invoice) \cup ({"number"} \X (1..MaxNumber))

IInit ==
  /\ invoices = [i \in Invoice |-> NoInvoice] /\ documents = [k \in Keys |-> None]
  /\ renders = [c \in Caller |-> NoRender] /\ spoiled = {}

-----------------------------------------------------------------------------
(* normaliseInvoiceDto. *)

Half(n, d) == (2 * n + d) \div (2 * d)
Total(ns)  == LET f[k \in 0..Len(ns)] == IF k = 0 THEN 0 ELSE f[k - 1] + ns[k] IN f[Len(ns)]

\* computeIrpfRate: the override, the kind of activity, the first three years of a profession.
ProfileRate(year) ==
  IF Company.fixed # None THEN Company.fixed
  ELSE CASE Company.activity = "empresarial"         -> 0
         [] Company.activity = "modulos_empresarial" -> 1
         [] Company.activity = "modulos_agricola"    -> 2
         [] Company.activity = "alquiler"            -> 15
         [] OTHER -> IF Company.start # None /\ year - Company.start <= 2 THEN 7 ELSE 15
IrpfRate(f) == IF f.vat # 21 THEN 0 ELSE IF f.irpf # None THEN f.irpf ELSE ProfileRate(f.year)

\* "The client pays" takes the net out of what is to be paid, for a single line with the general rate.
Backwards(f) == f.clientPays /\ f.vat = 21 /\ Len(f.lines) = 1
NetUncut(f)  == Total(f.lines)
NetOf(f)     == IF Backwards(f) THEN Half(Total(f.lines) * 100, 100 + f.vat - IrpfRate(f)) ELSE Total(f.lines)
Accepted(f)  == f.lines # <<>> /\ (f.currency # "EUR" => f.vat = 0 /\ Len(f.eur) = Len(f.lines))

\* The equivalent in euros: the figures themselves, or what was typed for each line.
NetEur(f) == IF f.currency = "EUR" THEN NetOf(f) ELSE Total(f.eur)

Says(f) ==
  LET net   == NetOf(f)
      vat   == Half(net * f.vat, 100)
      irpf  == Half(net * IrpfRate(f), 100)
  IN [net |-> net, vat |-> vat, irpf |-> irpf, total |-> net + vat,
      toPay  |-> IF Backwards(f) THEN Total(f.lines) ELSE net + vat - irpf,
      lines  |-> IF Backwards(f) THEN <<net>> ELSE f.lines,
      netEur |-> NetEur(f), allEur |-> NetEur(f) + vat]

-----------------------------------------------------------------------------
(* renderAndStore. *)

InHand(i) == \E c \in Caller : renders[c].of = i
Crossing(i) == IF InHand(i) THEN spoiled \cup {i} ELSE spoiled
Load(c, i, row) ==
  /\ renders[c] = NoRender
  /\ renders' = [renders EXCEPT ![c] = [of |-> i, row |-> row, at |-> "upload"]]

KeyByNumber(i, row) == <<"number", Max({row.number, 1})>>
KeyOf(i, row)       == IF row.number = 0 THEN <<"draft", i>> ELSE <<"number", row.number>>
Upload(c) ==
  LET r == renders[c] IN
  /\ r.at = "upload"
  /\ documents' = [documents EXCEPT ![KeyOf(r.of, r.row)] = [of |-> r.of, number |-> r.row.number, version |-> r.row.version]]
  /\ renders' = [renders EXCEPT ![c].at = "key"]
  /\ UNCHANGED <<invoices, spoiled>>

SetKey(c) ==
  LET r == renders[c] IN
  /\ r.at = "key"
  /\ IF invoices[r.of].there
     THEN /\ invoices' = [invoices EXCEPT ![r.of].key = KeyOf(r.of, r.row)]
          /\ renders' = [renders EXCEPT ![c].at = "delete"]
     ELSE renders' = [renders EXCEPT ![c] = NoRender] /\ UNCHANGED invoices
  /\ UNCHANGED <<documents, spoiled>>

\* The key the row had when it was loaded, if it is another one. A refusal is swallowed.
DropBefore(c) ==
  LET r == renders[c]
      k == r.row.key
  IN /\ r.at = "delete" /\ renders' = [renders EXCEPT ![c] = NoRender]
     /\ \/ /\ k \notin {None, KeyOf(r.of, r.row)}
           /\ documents' = [documents EXCEPT ![k] = None]
        \/ UNCHANGED documents
     /\ UNCHANGED <<invoices, spoiled>>

\* Bound: once for an invoice.
Fails(c) ==
  /\ renders[c].at \in {"upload", "key"} /\ renders[c].of \notin spoiled /\ renders' = [renders EXCEPT ![c] = NoRender]
  /\ spoiled' = spoiled \cup {renders[c].of}
  /\ UNCHANGED <<invoices, documents>>

-----------------------------------------------------------------------------
(* The handlers. *)

Write(i, row) == invoices' = [invoices EXCEPT ![i] = row]

\* create and duplicate.
Create(c, i) ==
  LET row == [NoInvoice EXCEPT !.there = TRUE, !.version = 1] IN
  /\ ~invoices[i].there /\ ~InHand(i) /\ i \notin spoiled
  /\ Write(i, row) /\ Load(c, i, row)
  /\ UNCHANGED <<documents, spoiled>>

\* A draft that waits for the answer of the authority is a draft still.
Edit(c, i) ==
  LET row == [invoices[i] EXCEPT !.version = @ + 1] IN
  /\ invoices[i].there /\ ~invoices[i].sent
  /\ \A j \in Invoice : invoices[j].version < MaxVersion  \* bound
  /\ Write(i, row) /\ Load(c, i, row) /\ spoiled' = Crossing(i)
  /\ UNCHANGED documents

Remove(i) ==
  /\ invoices[i].there /\ ~invoices[i].sent /\ ~InHand(i)
  /\ Write(i, NoInvoice)
  /\ UNCHANGED <<documents, renders, spoiled>>

\* The number of a submission, one above the greatest there is.
Allocate(i) ==
  LET n == 1 + Max({invoices[j].number : j \in Invoice} \cup {0}) IN
  /\ invoices[i].there /\ ~invoices[i].sent /\ invoices[i].number = 0 /\ n <= MaxNumber
  /\ \A j \in Invoice : invoices[j].number # 0 => invoices[j].sent
  /\ Write(i, [invoices[i] EXCEPT !.number = n]) /\ spoiled' = Crossing(i)
  /\ UNCHANGED <<documents, renders>>

\* Under its number already, or soon.
Printed(i) ==
  LET n == invoices[i].number IN
  invoices[i].key = <<"number", n>> \/ \E c \in Caller : renders[c].of # None /\ renders[c].row.number = n
\* Rejected, rolled back or cancelled by the operator: another invoice may get the number, and its key.
Release(i) ==
  /\ invoices[i].number # 0 /\ ~invoices[i].sent
  /\ Write(i, [invoices[i] EXCEPT !.number = 0])
  /\ spoiled' = IF Printed(i) THEN Invoice ELSE Crossing(i)
  /\ UNCHANGED <<documents, renders>>

Accept(c, i) ==
  LET row == [invoices[i] EXCEPT !.sent = TRUE] IN
  /\ invoices[i].number # 0 /\ ~invoices[i].sent
  /\ Write(i, row) /\ Load(c, i, row) /\ spoiled' = Crossing(i)
  /\ UNCHANGED documents

\* confirmPending renders nothing.
Confirm(i) ==
  /\ invoices[i].number # 0 /\ ~invoices[i].sent
  /\ Write(i, [invoices[i] EXCEPT !.sent = TRUE])
  /\ spoiled' = IF invoices[i].key = <<"number", invoices[i].number>> THEN spoiled ELSE spoiled \cup {i}
  /\ UNCHANGED <<documents, renders>>

\* The repair and the download render a row that has no key.
Repair(c, i) ==
  /\ invoices[i].there /\ invoices[i].key = None
  /\ Load(c, i, invoices[i]) /\ spoiled' = Crossing(i)
  /\ UNCHANGED <<invoices, documents>>

INext ==
  \/ \E c \in Caller :
       \/ Upload(c) \/ SetKey(c) \/ DropBefore(c) \/ Fails(c)
       \/ \E i \in Invoice : Create(c, i) \/ Edit(c, i) \/ Accept(c, i) \/ Repair(c, i)
  \/ \E i \in Invoice : Remove(i) \/ Allocate(i) \/ Release(i) \/ Confirm(i)

ISpec == IInit /\ [][INext]_ivars

-----------------------------------------------------------------------------
(* The lines of an invoice add up to its net, its parts agree with what is to be paid to a cent, and a total in        *)
(* another currency has its equivalent.                                                                              *)
AmountsAgree ==
  \A f \in {f \in Forms : Accepted(f)} :
    LET s == Says(f) IN
    /\ Total(s.lines) = s.net /\ s.total - s.irpf - s.toPay \in -1..1
    /\ s.vat # 0 => s.allEur = s.netEur + s.vat

\* Between renders the document of an invoice is in the store, is its own and shows its number and its last text,
\* unless a render failed, met another one or was left out, or a number was given back after it had been printed.
DocumentIsCurrent ==
  \A i \in Invoice \ spoiled : invoices[i].there /\ ~InHand(i) =>
    LET row == invoices[i] IN
    /\ row.key # None
    /\ LET d == documents[row.key] IN d # None /\ d.of = i /\ d.version = row.version /\ (row.sent => d.number = row.number)

\* "the user can re-download later via /pdf which regenerates on demand": what a sent invoice offers for download
\* shows its number.
DownloadShowsNumber ==
  \A i \in Invoice : invoices[i].sent /\ ~InHand(i) /\ invoices[i].key # None /\ documents[invoices[i].key] # None =>
    documents[invoices[i].key].number = invoices[i].number
=============================================================================
