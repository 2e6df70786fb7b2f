----------------------------- MODULE InvoiceChain -----------------------------
(***************************************************************************)
(* VeriFactu of one company: invoices, the chain of registry rows that is  *)
(* kept in Postgres, and the records the tax agency (AEAT) holds.          *)
(*                                                                         *)
(* submit and annul create a row (number, huella of the row before) in one *)
(* transaction, POST it outside of any, and write the outcome or take the  *)
(* row back; a transaction that holds pg_advisory_xact_lock for the company*)
(* is open around all that and expires after 60 s.  confirm, cancel, edit  *)
(* and remove are requests of their own that take no lock.                 *)
(*                                                                         *)
(* A huella is the row's place in the order of signing.  One company, one  *)
(* serial year, no offset; the content of an invoice is the number of its  *)
(* last edit.  The reads a request makes under the lock are one step, a    *)
(* transaction is one, the POST is three: sent, decided, finished.         *)
(***************************************************************************)
EXTENDS Naturals, Sequences, FiniteSetsExt

CONSTANTS
  Invoice,     \* invoices of the company, drafts at first
  Req,         \* requests served at the same time
  Calls,       \* the calls the requests make
  Faults,      \* what may go wrong: a subset of AllFaults
  Repeats,     \* AEAT answers a repeated record as it did the first
  MaxStamp,    \* bound: rows ever signed
  MaxEdits,    \* bound: edits of one invoice
  None

AllCalls  == {"submit", "annul", "confirm", "cancel", "edit", "remove"}
AllFaults == {"reject",   \* AEAT refuses a record for its content
              "lost",     \* a request or its answer is lost
              "crash",    \* the process ends
              "slow",     \* the transaction that holds the lock expires
              "error",    \* the final write fails
              "hasty"}    \* a person resolves a row while it is being sent

Stamp  == 1..MaxStamp
Number == 0..MaxStamp

RowRec == [id : Stamp, kind : {"ALTA", "ANULACION"}, of : Invoice, seq : Stamp, prev : 0..MaxStamp,
           num : Number, ed : 0..MaxEdits, st : {"PENDING", "ACCEPTED"}]

ASSUME ChainAssumption ==
  /\ Calls \subseteq AllCalls /\ Faults \subseteq AllFaults /\ Repeats \in BOOLEAN
  /\ MaxStamp \in Nat \ {0} /\ MaxEdits \in Nat
  /\ None \notin Req \cup Invoice \cup AllCalls /\ None \notin RowRec

VARIABLES
  inv,      \* Invoice -> status, number (0: null), edit, annulledAt set
  reg,      \* huella -> the VerifactuRegistry row that has it, or None
  signed,   \* rows signed so far
  aeat,     \* the records AEAT holds, in its order
  lock,     \* the request that holds the company's advisory lock
  req,      \* the requests
  perils    \* history: which of Perils the chain has met

vars == <<inv, reg, signed, aeat, lock, req, perils>>

Perils == {"slow",    \* the lock expired before its request was over
           "annul",   \* a row was signed after a PENDING ANULACION
           "error",   \* the row of an accepted record was taken back
           "hasty",   \* a row was cancelled that AEAT has or is being sent
           "edit",    \* an invoice that has a row was edited
           "remove"}  \* or deleted

InvoiceRec == [st : {"DRAFT", "SENT", "gone"}, num : Number, ed : 0..MaxEdits, ann : BOOLEAN]

(* What is sent: the row's huella, the row before as it is found now, and  *)
(* the invoice as it was read.                                             *)
Envelope == [row : RowRec, link : 0..MaxStamp, ed : 0..MaxEdits]

PC == {"idle", "lock", "look", "register", "send", "sent", "done", "undo", "release", "write"}

ReqRec == [pc : PC, call : AllCalls \cup {None}, of : Invoice \cup {None}, row : RowRec \cup {None},
           link : 0..MaxStamp, ed : 0..MaxEdits, fresh : BOOLEAN,
           answer : {None, "accepted", "rejected", "lost"}]

Idle == [pc |-> "idle", call |-> None, of |-> None, row |-> None, link |-> 0, ed |-> 0,
         fresh |-> FALSE, answer |-> None]

TypeOK ==
  /\ inv \in [Invoice -> InvoiceRec]
  /\ reg \in [Stamp -> RowRec \cup {None}]
  /\ signed \in 0..MaxStamp
  /\ aeat \in Seq(Envelope) /\ Len(aeat) <= MaxStamp
  /\ lock \in Req \cup {None}
  /\ req \in [Req -> ReqRec] /\ perils \subseteq Perils
  /\ \A r \in Req : req[r].pc \in {"send", "sent", "done", "undo", "release"} => req[r].row # None

Init ==
  /\ inv = [i \in Invoice |-> [st |-> "DRAFT", num |-> 0, ed |-> 0, ann |-> FALSE]]
  /\ reg = [s \in Stamp |-> None]
  /\ signed = 0
  /\ aeat = <<>>
  /\ lock = None
  /\ req = [r \in Req |-> Idle]
  /\ perils = {}

Rows        == {reg[s] : s \in {t \in Stamp : reg[t] # None}}
Pending     == {w \in Rows : w.st = "PENDING"}
AltaOf(i)   == {w \in Rows : w.kind = "ALTA" /\ w.of = i}
AnnulOf(i)  == {w \in Rows : w.kind = "ANULACION" /\ w.of = i}

Held == {aeat[k].row.id : k \in DOMAIN aeat}

(* The request is over; the lock goes with its transaction. *)
End(r) ==
  /\ req' = [req EXCEPT ![r] = Idle]
  /\ lock' = IF lock = r THEN None ELSE lock

Meet(p, happens) == perils' = IF happens THEN perils \cup {p} ELSE perils

Go(r, pc) == req' = [req EXCEPT ![r].pc = pc]

-----------------------------------------------------------------------------
(* submit and annul *)

(* What the controller and the service check before the lock.              *)
Start(r) ==
  /\ req[r].pc = "idle"
  /\ \E c \in Calls \cap {"submit", "annul"}, i \in Invoice :
       /\ IF c = "submit" THEN inv[i].st = "DRAFT"
                          ELSE inv[i].st = "SENT" /\ ~inv[i].ann /\ inv[i].num # 0
       /\ "hasty" \in Faults \/ \A q \in Req : req[q].of = i => req[q].call \notin {"confirm", "cancel"}
       /\ req' = [req EXCEPT ![r] = [Idle EXCEPT !.pc = "lock", !.call = c, !.of = i]]
  /\ UNCHANGED <<inv, reg, signed, aeat, lock, perils>>

(* Mutant: no lock, every request goes on at once. *)
NoLock(r) ==
  /\ req[r].pc = "lock"
  /\ Go(r, "look")
  /\ UNCHANGED <<inv, reg, signed, aeat, lock, perils>>

Lock(r) ==
  /\ req[r].pc = "lock" /\ lock = None
  /\ lock' = r
  /\ Go(r, "look")
  /\ UNCHANGED <<inv, reg, signed, aeat, perils>>

(* Mutant: no look at the other rows. *)
NoOther(i) == {}

(* `invoiceId: { not: id }` is an SQL inequality: a row whose invoiceId is *)
(* null, which every ANULACION row is, is not among the others.            *)
OtherPending(i) == {w \in Pending : w.kind = "ALTA" /\ w.of # i}

(* Mutant: a retry forgets the row it found. *)
ResumeBlank(r, w) == req' = [req EXCEPT ![r].pc = "send", ![r].ed = inv[w.of].ed]

Resume(r, w) == req' = [req EXCEPT ![r].pc = "send", ![r].row = w, ![r].ed = inv[w.of].ed]

LookSubmit(r) ==
  LET i == req[r].of
      own == AltaOf(i) \cap Pending IN
  /\ req[r].pc = "look" /\ req[r].call = "submit"
  /\ \/ /\ inv[i].st = "SENT" /\ AltaOf(i) # {}
        /\ End(r)
     \/ /\ ~(inv[i].st = "SENT" /\ AltaOf(i) # {})
        /\ \/ \E w \in own : Resume(r, w) /\ UNCHANGED lock
           \/ own = {} /\ OtherPending(i) # {} /\ End(r)
           \/ own = {} /\ OtherPending(i) = {} /\ Go(r, "register") /\ UNCHANGED lock
  /\ UNCHANGED <<inv, reg, signed, aeat, perils>>

LookAnnul(r) ==
  LET i == req[r].of
      own == AnnulOf(i) \cap Pending IN
  /\ req[r].pc = "look" /\ req[r].call = "annul"
  /\ \/ inv[i].ann /\ End(r)
     \/ /\ ~inv[i].ann
        /\ \/ \E w \in own : Resume(r, w) /\ UNCHANGED lock
           \/ own = {} /\ Pending # {} /\ End(r)
           \/ own = {} /\ Pending = {} /\ Go(r, "register") /\ UNCHANGED lock
  /\ UNCHANGED <<inv, reg, signed, aeat, perils>>

LastSeq == Max({w.seq : w \in Rows} \cup {0})

(* Mutant: the huella of the last ALTA row, ANULACION rows passed over.    *)
LastAltaHuella ==
  LET altas == {w \in Rows : w.kind = "ALTA"} IN
  IF altas = {} THEN 0 ELSE (CHOOSE w \in altas : \A v \in altas : v.seq <= w.seq).id

(* The huella of the row with the greatest number, "" when there is none.  *)
LastHuella == IF Rows = {} THEN 0 ELSE (CHOOSE w \in Rows : w.seq = LastSeq).id

NextNumber == Max({inv[i].num : i \in Invoice}) + 1

(* createInsideTx and createAnulacionInsideTx. *)
NewRow(kind, i, num, ed) ==
  [id |-> signed + 1, kind |-> kind, of |-> i, seq |-> LastSeq + 1, prev |-> LastHuella,
   num |-> num, ed |-> ed, st |-> "PENDING"]

(* An invoice that is gone, or has a row already, ends the transaction.    *)
RegisterSubmit(r) ==
  LET i == req[r].of
      num == IF inv[i].num = 0 THEN NextNumber ELSE inv[i].num
      w == NewRow("ALTA", i, num, inv[i].ed) IN
  /\ req[r].pc = "register" /\ req[r].call = "submit"
  /\ \/ /\ inv[i].st = "gone" \/ AltaOf(i) # {}
        /\ End(r) /\ UNCHANGED <<inv, reg, signed>>
     \/ /\ inv[i].st # "gone" /\ AltaOf(i) = {}
        /\ signed < MaxStamp /\ num <= MaxStamp
        /\ inv' = [inv EXCEPT ![i].num = num]
        /\ reg' = [reg EXCEPT ![w.id] = w]
        /\ signed' = signed + 1
        /\ req' = [req EXCEPT ![r].pc = "send", ![r].row = w, ![r].ed = inv[i].ed,
                              ![r].fresh = (inv[i].num = 0)]
        /\ UNCHANGED lock
  /\ Meet("annul", reg' # reg /\ \E v \in Pending : v.kind = "ANULACION")
  /\ UNCHANGED aeat

RegisterAnnul(r) ==
  LET i == req[r].of
      w == NewRow("ANULACION", i, inv[i].num, inv[i].ed) IN
  /\ req[r].pc = "register" /\ req[r].call = "annul"
  /\ \/ /\ inv[i].st = "gone" \/ AnnulOf(i) # {}
        /\ End(r) /\ UNCHANGED <<reg, signed>>
     \/ /\ inv[i].st # "gone" /\ AnnulOf(i) = {}
        /\ signed < MaxStamp
        /\ reg' = [reg EXCEPT ![w.id] = w]
        /\ signed' = signed + 1
        /\ req' = [req EXCEPT ![r].pc = "send", ![r].row = w, ![r].ed = inv[i].ed]
        /\ UNCHANGED lock
  /\ UNCHANGED <<inv, aeat, perils>>

(* previousChainLink: the row before, by its number, and its invoice's     *)
(* number; without them the request fails and takes its row back.          *)
LinkRows(w) == {v \in Rows : v.seq + 1 = w.seq /\ inv[v.of].num # 0}

Send(r) ==
  LET w == req[r].row IN
  /\ req[r].pc = "send"
  /\ \/ w.seq = 1 /\ w.kind = "ALTA" /\ req' = [req EXCEPT ![r].pc = "sent", ![r].link = 0]
     \/ \E v \in LinkRows(w) : req' = [req EXCEPT ![r].pc = "sent", ![r].link = v.id]
     \/ /\ ~(w.seq = 1 /\ w.kind = "ALTA") /\ LinkRows(w) = {}
        /\ Go(r, "undo")
  /\ UNCHANGED <<inv, reg, signed, aeat, lock, perils>>

(* AEAT knows a record by its kind and the number of the invoice.          *)
Known(w) == {k \in DOMAIN aeat : aeat[k].row.kind = w.kind /\ aeat[k].row.num = w.num}

Answered(r, a) == req' = [req EXCEPT ![r].pc = "done", ![r].answer = a]

(* AEAT takes the record, knows it already, refuses it or never gets it;   *)
(* its answer comes or not.                                                *)
Decide(r) ==
  LET w == req[r].row IN
  /\ req[r].pc = "sent"
  /\ \/ /\ Known(w) = {}
        /\ aeat' = Append(aeat, [row |-> w, link |-> req[r].link, ed |-> req[r].ed])
        /\ \/ Answered(r, "accepted")
           \/ "lost" \in Faults /\ Answered(r, "lost")
     \/ /\ Repeats /\ \E k \in Known(w) : aeat[k].row.id = w.id
        /\ Answered(r, "accepted") /\ UNCHANGED aeat
     \/ /\ Known(w) # {} /\ ~(Repeats /\ \E k \in Known(w) : aeat[k].row.id = w.id)
        /\ Answered(r, "rejected") /\ UNCHANGED aeat
     \/ /\ Known(w) = {} /\ "reject" \in Faults
        /\ Answered(r, "rejected") /\ UNCHANGED aeat
     \/ /\ "lost" \in Faults
        /\ Answered(r, "lost") /\ UNCHANGED aeat
  /\ UNCHANGED <<inv, reg, signed, lock, perils>>

(* Mutant: a lost answer takes the row back. *)
TakeBack(r) == Go(r, "undo") /\ UNCHANGED lock

(* A lost answer leaves the row PENDING. *)
LeavePending(r) == End(r)

(* Mutant: a refused record counts as accepted. *)
AnyAnswer(r) == req[r].answer \in {"accepted", "rejected"}

Accepted(r) == req[r].answer = "accepted"

(* The final transaction needs its two rows. *)
Finish(r) ==
  LET w == req[r].row
      there == reg[w.id] # None /\ inv[w.of].st # "gone" IN
  /\ req[r].pc = "done"
  /\ \/ req[r].answer = "lost" /\ LeavePending(r) /\ UNCHANGED <<inv, reg>>
     \/ /\ Accepted(r) /\ there
        /\ reg' = [reg EXCEPT ![w.id].st = "ACCEPTED"]
        /\ inv' = IF w.kind = "ALTA" THEN [inv EXCEPT ![w.of].st = "SENT"]
                                     ELSE [inv EXCEPT ![w.of].ann = TRUE]
        /\ End(r)
     \/ /\ \/ req[r].answer = "rejected" /\ ~Accepted(r)
           \/ Accepted(r) /\ (~there \/ "error" \in Faults)
        /\ Go(r, "undo") /\ UNCHANGED <<inv, reg, lock>>
  /\ Meet("error", Accepted(r) /\ reg[w.id] # None /\ req'[r].pc = "undo")
  /\ UNCHANGED <<signed, aeat>>

(* rollback: the row, then the number if this very request took it; the    *)
(* loss of the row meanwhile ends it.                                      *)
Undo(r) ==
  LET w == req[r].row IN
  /\ req[r].pc = "undo"
  /\ reg' = [reg EXCEPT ![w.id] = None]
  /\ IF reg[w.id] # None /\ req[r].fresh THEN Go(r, "release") /\ UNCHANGED lock ELSE End(r)
  /\ UNCHANGED <<inv, signed, aeat, perils>>

Release(r) ==
  /\ req[r].pc = "release"
  /\ inv' = IF inv[req[r].of].st = "gone" THEN inv ELSE [inv EXCEPT ![req[r].of].num = 0]
  /\ End(r)
  /\ UNCHANGED <<reg, signed, aeat, perils>>

(* Prisma closes the transaction after 60 s; the request goes on.          *)
LockExpires(r) ==
  /\ "slow" \in Faults /\ lock = r /\ req[r].pc \in {"send", "sent", "done", "undo", "release"}
  /\ lock' = None
  /\ Meet("slow", TRUE)
  /\ UNCHANGED <<inv, reg, signed, aeat, req>>

-----------------------------------------------------------------------------
(* Calls without the lock *)

Shown(i) == \E k \in DOMAIN aeat : aeat[k].row.kind = "ALTA" /\ aeat[k].row.num = inv[i].num

(* A person looks at the AEAT portal, or the controller reads the status.  *)
Open(r) ==
  /\ req[r].pc = "idle"
  /\ \E c \in Calls \ {"submit", "annul"}, i \in Invoice :
       /\ CASE c \in {"confirm", "cancel"} ->
                 /\ AltaOf(i) \cap Pending # {}
                 /\ Shown(i) <=> c = "confirm"
                 /\ "hasty" \in Faults \/ \A q \in Req : req[q].of # i
            [] OTHER -> inv[i].st = "DRAFT"
       /\ req' = [req EXCEPT ![r] = [Idle EXCEPT !.pc = "write", !.call = c, !.of = i]]
  /\ UNCHANGED <<inv, reg, signed, aeat, lock, perils>>

Confirm(r) ==
  LET i == req[r].of IN
  /\ req[r].pc = "write" /\ req[r].call = "confirm"
  /\ \/ \E w \in AltaOf(i) \cap Pending :
          /\ reg' = [reg EXCEPT ![w.id].st = "ACCEPTED"]
          /\ inv' = [inv EXCEPT ![i].st = "SENT"]
     \/ AltaOf(i) \cap Pending = {} /\ UNCHANGED <<inv, reg>>
  /\ End(r)
  /\ UNCHANGED <<signed, aeat, perils>>

Cancel(r) ==
  LET i == req[r].of IN
  /\ req[r].pc = "write" /\ req[r].call = "cancel"
  /\ \/ \E w \in AltaOf(i) \cap Pending :
          /\ reg' = [reg EXCEPT ![w.id] = None]
          /\ inv' = [inv EXCEPT ![i].num = 0]
     \/ AltaOf(i) \cap Pending = {} /\ UNCHANGED <<inv, reg>>
  /\ Meet("hasty", \E w \in AltaOf(i) \cap Pending : w.id \in Held \/ \E q \in Req : req[q].row = w)
  /\ End(r)
  /\ UNCHANGED <<signed, aeat>>

(* The update names the id only, not the status that was read. *)
Edit(r) ==
  LET i == req[r].of IN
  /\ req[r].pc = "write" /\ req[r].call = "edit"
  /\ \/ inv[i].st # "gone" /\ inv[i].ed < MaxEdits /\ inv' = [inv EXCEPT ![i].ed = @ + 1]
     \/ inv[i].st = "gone" /\ UNCHANGED inv
  /\ Meet("edit", AltaOf(i) # {})
  /\ End(r)
  /\ UNCHANGED <<reg, signed, aeat>>

(* The rows of the invoice go with it. *)
Remove(r) ==
  LET i == req[r].of IN
  /\ req[r].pc = "write" /\ req[r].call = "remove"
  /\ inv' = [inv EXCEPT ![i] = [st |-> "gone", num |-> 0, ed |-> 0, ann |-> FALSE]]
  /\ reg' = [s \in Stamp |-> IF reg[s] # None /\ reg[s].of = i THEN None ELSE reg[s]]
  /\ Meet("remove", AltaOf(i) # {})
  /\ End(r)
  /\ UNCHANGED <<signed, aeat>>

(* The process ends: every request and the lock with it. *)
Crash ==
  /\ "crash" \in Faults
  /\ \E r \in Req : req[r].pc # "idle"
  /\ req' = [r \in Req |-> Idle]
  /\ lock' = None
  /\ UNCHANGED <<inv, reg, signed, aeat, perils>>

Submission(r) ==
  \/ Start(r) \/ Lock(r) \/ LookSubmit(r) \/ LookAnnul(r) \/ RegisterSubmit(r) \/ RegisterAnnul(r)
  \/ Send(r) \/ Decide(r) \/ Finish(r) \/ Undo(r) \/ Release(r) \/ LockExpires(r)

Direct(r) == Open(r) \/ Confirm(r) \/ Cancel(r) \/ Edit(r) \/ Remove(r)

Next == Crash \/ \E r \in Req : Submission(r) \/ Direct(r)

Spec == Init /\ [][Next]_vars

-----------------------------------------------------------------------------
(* Properties *)

(* Every record AEAT holds names the record AEAT took just before it:      *)
(* what the lock, the gate and the kept PENDING rows are for.              *)
ChainIntact ==
  \A k \in DOMAIN aeat : aeat[k].link = IF k = 1 THEN 0 ELSE aeat[k - 1].row.id

(* The row of a record AEAT holds is never lost, whatever failed between.  *)
RecordKept == \A s \in Held : reg[s] # None

Calm == perils \subseteq {"edit"}

(* Nothing but the perils breaks the chain: no order of two submits and    *)
(* annulments, refusals, lost answers, crashes, retries, edits of free     *)
(* drafts and a careful person's decisions does.                           *)
ChainBreaksOnlyInPeril == Calm => ChainIntact

(* And nothing but they loses the row of a record AEAT holds. *)
RowLostOnlyInPeril == Calm => RecordKept

(* A row is ACCEPTED only if AEAT holds that very record. *)
AcceptedIsThere == \A s \in Stamp : reg[s] # None /\ reg[s].st = "ACCEPTED" => s \in Held

(* What AEAT gets is what the huella was computed over. *)
EnvelopeHonest ==
  \A k \in DOMAIN aeat : aeat[k].ed = aeat[k].row.ed /\ aeat[k].link = aeat[k].row.prev

(* A retry rebuilds the envelope that was signed, unless its chain met a   *)
(* peril.                                                                  *)
EnvelopeWrongOnlyInPeril == perils = {} => EnvelopeHonest

(* No row is ACCEPTED that AEAT does not hold, also when a person confirms *)
(* it, as long as the chain met no peril but an edit.                      *)
AcceptedWrongOnlyInPeril == Calm => AcceptedIsThere

(* Outside the perils the chain is whole, and the rows of the records the  *)
(* authority holds are kept.                                               *)
ChainSound == ChainBreaksOnlyInPeril /\ RowLostOnlyInPeril

(* Outside the perils what the authority got is what was signed, and a row *)
(* is accepted only if it holds the record.                                *)
AnswersSound == EnvelopeWrongOnlyInPeril /\ AcceptedWrongOnlyInPeril

(* A draft has a number only while a row holds it or a request works on    *)
(* it: AEAT's refusal gives the number back.                               *)
NumberReleased ==
  \A i \in Invoice : inv[i].st = "DRAFT" /\ inv[i].num # 0 =>
    AltaOf(i) # {} \/ \E r \in Req : req[r].of = i

(* A sent invoice is locked. *)
SentLocked ==
  [][\A i \in Invoice : inv[i].st = "SENT" => inv'[i].st = "SENT" /\ inv'[i].ed = inv[i].ed]_vars
=============================================================================
