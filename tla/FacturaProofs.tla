----------------------------- MODULE FacturaProofs -----------------------------
(***************************************************************************)
(* What InvoiceChain guarantees for any number of invoices and requests,   *)
(* any calls and any mix of faults; and what AttachedDocument guarantees   *)
(* for any rows, keys and callers.                                         *)
(***************************************************************************)
EXTENDS InvoiceChain, AttachedDocument, FiniteSetTheorems, FunctionTheorems, WellFoundedInduction, TLAPS

There(s) == reg[s] # None

LEMMA NoneIsNoRow == None \notin RowRec /\ None \notin Req /\ None \notin Invoice /\ None \notin AllCalls
  BY ChainAssumption

-----------------------------------------------------------------------------
(* The greatest of a set of numbers up to a bound. *)
LEMMA MaxIs ==
  ASSUME NEW n \in Nat, NEW S \in SUBSET (0..n), S # {}
  PROVE  Max(S) \in S /\ \A t \in S : Max(S) >= t
<1> DEFINE Above(s) == {t \in S : t > s}
           T        == {Above(s) : s \in S}
           R        == StrictSubsetOrdering(0..n)
<1>1. T \subseteq FiniteSubsetsOf(0..n) /\ T # {}
  <2>1. IsFiniteSet(0..n)
    BY FS_Interval
  <2>2. \A s \in S : Above(s) \in SUBSET (0..n) /\ IsFiniteSet(Above(s))
    BY <2>1, FS_Subset
  <2> QED BY <2>2 DEF FiniteSubsetsOf
<1>2. IsWellFoundedOn(R, FiniteSubsetsOf(0..n))
  BY FS_StrictSubsetOrderingWellFounded
<1>3. PICK A \in T : \A B \in T : ~(<<B, A>> \in R)
  <2> HIDE DEF T, R
  <2> QED BY <1>1, <1>2, WFMin
<1>4. PICK s \in S : A = Above(s)
  BY <1>3
<1>5. \A u \in S : u \in Int
  OBVIOUS
<1>6. ASSUME NEW t \in S, ~(t <= s) PROVE FALSE
  <2>1. s < t
    BY <1>5, <1>6
  <2>2. Above(t) \subseteq Above(s) /\ t \in Above(s) /\ t \notin Above(t)
    <3>1. ASSUME NEW u \in S, u > t PROVE u > s
      BY <1>5, <2>1, <3>1
    <3>2. t > s /\ ~(t > t)
      BY <1>5, <2>1
    <3> HIDE DEF T, R
    <3> QED BY <3>1, <3>2
  <2>3. <<Above(t), Above(s)>> \in R
    BY <2>2 DEF StrictSubsetOrdering
  <2> QED BY <1>3, <1>4, <2>3
<1>7. \E m \in S : \A t \in S : m >= t
  BY <1>5, <1>6
<1> QED BY <1>7 DEF Max

-----------------------------------------------------------------------------
(* The rows of the registry, by their huella. *)
Rooted ==
  \A s \in Stamp : There(s) => reg[s].id = s /\ s <= signed /\ reg[s].seq <= signed

LEMMA RowsAre ==
  ASSUME TypeOK, Rooted
  PROVE  /\ \A w \in Rows : w \in RowRec /\ reg[w.id] = w /\ There(w.id) /\ w.id \in Stamp
         /\ \A s \in Stamp : There(s) => reg[s] \in Rows /\ reg[s] \in RowRec
<1>1. \A s \in Stamp : There(s) => reg[s] \in RowRec
  BY DEF TypeOK, There
<1> QED BY <1>1, NoneIsNoRow DEF Rows, Rooted, There

LEMMA AltaIs ==
  ASSUME TypeOK, Rooted, NEW i \in Invoice
  PROVE  /\ \A w \in AltaOf(i) : /\ w \in RowRec /\ reg[w.id] = w /\ There(w.id) /\ w.id \in Stamp
                                 /\ w.kind = "ALTA" /\ w.of = i
         /\ \A s \in Stamp : There(s) /\ reg[s].kind = "ALTA" /\ reg[s].of = i => reg[s] \in AltaOf(i)
  BY RowsAre DEF AltaOf

LEMMA AnnulIs ==
  ASSUME TypeOK, Rooted, NEW i \in Invoice
  PROVE  /\ \A w \in AnnulOf(i) : /\ w \in RowRec /\ reg[w.id] = w /\ There(w.id) /\ w.id \in Stamp
                                  /\ w.kind = "ANULACION" /\ w.of = i
         /\ \A s \in Stamp : There(s) /\ reg[s].kind = "ANULACION" /\ reg[s].of = i => reg[s] \in AnnulOf(i)
  BY RowsAre DEF AnnulOf

LEMMA PendingIs ==
  ASSUME TypeOK, Rooted
  PROVE  /\ \A w \in Pending : w \in Rows /\ w.st = "PENDING"
         /\ \A s \in Stamp : There(s) /\ reg[s].st = "PENDING" => reg[s] \in Pending
  BY RowsAre DEF Pending

(* The numbers of the rows, and the next one. *)
LEMMA LastSeqIs ==
  ASSUME TypeOK, Rooted
  PROVE  /\ LastSeq \in 0..signed
         /\ \A s \in Stamp : There(s) => reg[s].seq <= LastSeq
         /\ LastSeq # 0 => \E s \in Stamp : There(s) /\ reg[s].seq = LastSeq
<1> DEFINE S == {w.seq : w \in Rows} \cup {0}
<1>1. signed \in Nat
  BY ChainAssumption DEF TypeOK
<1>2. \A w \in Rows : w.seq \in 0..signed
  <2> SUFFICES ASSUME NEW w \in Rows PROVE w.seq \in 0..signed
    OBVIOUS
  <2>1. w \in RowRec /\ reg[w.id] = w /\ There(w.id) /\ w.id \in Stamp
    BY RowsAre
  <2>2. w.seq \in Stamp /\ w.seq <= signed
    BY <2>1 DEF RowRec, Rooted
  <2> QED BY <1>1, <2>2, ChainAssumption DEF Stamp
<1>3. S \in SUBSET (0..signed) /\ S # {}
  BY <1>1, <1>2
<1>4. Max(S) \in S /\ \A t \in S : Max(S) >= t
  <2> HIDE DEF S
  <2> QED BY <1>1, <1>3, MaxIs
<1>5. LastSeq = Max(S)
  BY DEF LastSeq
<1>6. \A s \in Stamp : There(s) => reg[s].seq <= LastSeq
  <2> SUFFICES ASSUME NEW s \in Stamp, There(s) PROVE reg[s].seq <= LastSeq
    OBVIOUS
  <2>1. reg[s].seq \in S /\ S \subseteq Int
    BY <1>3, RowsAre
  <2> QED BY <1>3, <1>4, <1>5, <2>1
<1>7. ASSUME LastSeq # 0 PROVE \E s \in Stamp : There(s) /\ reg[s].seq = LastSeq
  <2>1. PICK w \in Rows : w.seq = LastSeq
    BY <1>4, <1>5, <1>7
  <2> QED BY <2>1, RowsAre
<1> QED BY <1>3, <1>4, <1>5, <1>6, <1>7

LEMMA LastHuellaIs ==
  ASSUME TypeOK, Rooted
  PROVE  /\ LastHuella \in 0..MaxStamp
         /\ (\A s \in Stamp : ~There(s)) => LastHuella = 0
         /\ (\E s \in Stamp : There(s)) => LastHuella \in Stamp /\ There(LastHuella) /\ reg[LastHuella].seq = LastSeq
<1>1. CASE Rows = {}
  BY <1>1, RowsAre, ChainAssumption DEF LastHuella
<1>2. CASE Rows # {}
  <2>1. PICK v \in Rows : TRUE
    BY <1>2
  <2>2. v \in RowRec /\ v.id \in Stamp /\ There(v.id) /\ reg[v.id] = v
    BY RowsAre
  <2>3. v.seq \in Stamp /\ v.seq <= LastSeq
    BY <2>2, LastSeqIs DEF RowRec
  <2>4. LastSeq # 0
    BY <2>3, LastSeqIs, ChainAssumption DEF Stamp
  <2>5. \E w \in Rows : w.seq = LastSeq
    BY <2>4, LastSeqIs, RowsAre
  <2>6. LastHuella = (CHOOSE w \in Rows : w.seq = LastSeq).id
    BY <1>2 DEF LastHuella
  <2>7. PICK w \in Rows : w.seq = LastSeq /\ LastHuella = w.id
    BY <2>5, <2>6
  <2>8. w.id \in Stamp /\ There(w.id) /\ reg[w.id] = w
    BY RowsAre
  <2>9. w.id \in 0..MaxStamp
    BY <2>8, ChainAssumption DEF Stamp
  <2> QED BY <2>2, <2>7, <2>8, <2>9
<1> QED BY <1>1, <1>2

LEMMA NextNumberIs ==
  ASSUME TypeOK, NEW j \in Invoice
  PROVE  NextNumber \in Nat \ {0} /\ \A i \in Invoice : inv[i].num < NextNumber
<1> DEFINE S == {inv[i].num : i \in Invoice}
<1>1. \A i \in Invoice : inv[i].num \in 0..MaxStamp
  BY DEF TypeOK, InvoiceRec, Number
<1>2. S \in SUBSET (0..MaxStamp) /\ S # {} /\ MaxStamp \in Nat
  BY <1>1, ChainAssumption
<1>3. Max(S) \in S /\ \A t \in S : Max(S) >= t
  <2> HIDE DEF S
  <2> QED BY <1>2, MaxIs
<1>4. NextNumber = Max(S) + 1
  BY DEF NextNumber
<1>5. \A i \in Invoice : inv[i].num \in S
  OBVIOUS
<1> HIDE DEF S
<1>6. Max(S) \in 0..MaxStamp
  BY <1>2, <1>3
<1> QED BY <1>1, <1>2, <1>3, <1>4, <1>5, <1>6

-----------------------------------------------------------------------------
(* The rows, the requests and the records AEAT holds are one set of        *)
(* records: a huella is that of one of them, and AEAT has it once.         *)
Same(v, w) ==
  /\ v.id = w.id /\ v.kind = w.kind /\ v.of = w.of /\ v.seq = w.seq
  /\ v.prev = w.prev /\ v.num = w.num /\ v.ed = w.ed

Copies == Rows \cup ({req[r].row : r \in Req} \ {None}) \cup {aeat[k].row : k \in DOMAIN aeat}

OneRecord ==
  /\ \A w \in Copies : w.id <= signed
  /\ \A v, w \in Copies : v.id = w.id => Same(v, w)

Distinct == \A k, l \in DOMAIN aeat : aeat[k].row.id = aeat[l].row.id => k = l

(* An invoice has one row of a kind, and a number is of one invoice. *)
Single ==
  \A s, t \in Stamp :
    There(s) /\ There(t) /\ reg[s].kind = reg[t].kind /\ reg[s].of = reg[t].of => s = t

Numbered == \A i, j \in Invoice : inv[i].num = inv[j].num /\ inv[i].num # 0 => i = j

(* A request that is under way is about an invoice. *)
Aimed == \A r \in Req : req[r].pc # "idle" => req[r].of \in Invoice

Ledger == TypeOK /\ Rooted /\ OneRecord /\ Distinct /\ Single /\ Numbered /\ Aimed

(* AEAT holds no more records than were ever signed. *)
LEMMA AeatIs ==
  ASSUME aeat \in Seq(Envelope)
  PROVE  /\ Len(aeat) \in Nat /\ DOMAIN aeat = 1..Len(aeat)
         /\ \A k \in DOMAIN aeat : aeat[k] \in Envelope /\ aeat[k].row \in RowRec /\ aeat[k].row.id \in Stamp
<1>1. Len(aeat) \in Nat /\ DOMAIN aeat = 1..Len(aeat)
  OBVIOUS
<1>2. \A k \in DOMAIN aeat : aeat[k] \in Envelope
  BY <1>1
<1> QED BY <1>1, <1>2 DEF Envelope, RowRec

LEMMA AeatFits ==
  ASSUME NEW q \in Seq(Envelope), \A k, l \in DOMAIN q : q[k].row.id = q[l].row.id => k = l
  PROVE  Len(q) <= MaxStamp
<1> DEFINE n == Len(q)
           f == [k \in 1..n |-> q[k].row.id]
<1>1. n \in Nat /\ DOMAIN q = 1..n /\ MaxStamp \in Nat
  BY AeatIs, ChainAssumption
<1>2. f \in [1..n -> 1..MaxStamp]
  <2>1. \A k \in 1..n : q[k] \in Envelope
    BY <1>1
  <2> QED BY <2>1 DEF Envelope, RowRec, Stamp
<1>3. \A k, l \in 1..n : f[k] = f[l] => k = l
  BY <1>1
<1> HIDE DEF f, n
<1>4. f \in Injection(1..n, 1..MaxStamp)
  BY <1>2, <1>3 DEF Injection, IsInjective
<1>5. \A m \in Nat : IsFiniteSet(1..m) /\ Cardinality(1..m) = m
  <2> SUFFICES ASSUME NEW m \in Nat PROVE IsFiniteSet(1..m) /\ Cardinality(1..m) = m
    OBVIOUS
  <2>1. IsFiniteSet(1..m) /\ Cardinality(1..m) = IF 1 > m THEN 0 ELSE m - 1 + 1
    BY FS_Interval
  <2> QED BY <2>1
<1>6. Cardinality(1..n) <= Cardinality(1..MaxStamp)
  BY <1>1, <1>4, <1>5, FS_Injection
<1> QED BY <1>1, <1>5, <1>6 DEF n

LEMMA CopiesAre ==
  ASSUME TypeOK
  PROVE  /\ Copies \subseteq RowRec
         /\ \A s \in Stamp : There(s) => reg[s] \in Copies
         /\ \A r \in Req : req[r].row # None => req[r].row \in Copies
         /\ \A k \in DOMAIN aeat : aeat[k].row \in Copies /\ aeat[k] \in Envelope
<1>1. \A s \in Stamp : There(s) => reg[s] \in RowRec
  BY DEF TypeOK, There
<1>2. Rows \subseteq RowRec /\ \A s \in Stamp : There(s) => reg[s] \in Rows
  BY <1>1 DEF Rows, There
<1>3. \A r \in Req : req[r].row \in RowRec \cup {None}
  BY DEF TypeOK, ReqRec
<1>4. \A k \in DOMAIN aeat : aeat[k] \in Envelope /\ aeat[k].row \in RowRec
  <2>1. aeat \in Seq(Envelope)
    BY DEF TypeOK
  <2> QED BY <2>1, AeatIs
<1> QED BY <1>2, <1>3, <1>4 DEF Copies

(* Most steps sign nothing and send nothing: they write outcomes, take     *)
(* rows and numbers back, and hand a row to a request.                     *)
LEMMA LedgerKept ==
  ASSUME Ledger, TypeOK', Aimed', signed' = signed, aeat' = aeat,
         \A s \in Stamp : reg'[s] # None => There(s) /\ Same(reg[s], reg'[s]),
         \A q \in Req : req'[q].row \in {req[q].row, None} \cup Rows,
         \A i \in Invoice : inv'[i].num \in {inv[i].num, 0}
  PROVE  Ledger'
<1>t. TypeOK /\ Rooted /\ Rows \subseteq Copies
  BY DEF Ledger, Copies
<1>1. Rooted'
  BY DEF Ledger, Rooted, There, Same
<1>2. OneRecord'
  <2>1. ASSUME NEW w \in Copies' PROVE \E v \in Copies : Same(v, w)
    <3>1. w \in Copies => Same(w, w)
      BY DEF Same
    <3>2. CASE w \in Rows'
      <4>1. PICK s \in Stamp : reg'[s] # None /\ w = reg'[s]
        BY <3>2 DEF Rows
      <4>2. There(s) /\ Same(reg[s], w)
        BY <4>1
      <4> QED BY <1>t, <4>2, CopiesAre
    <3>3. CASE \E q \in Req : w = req'[q].row /\ w # None
      <4>1. PICK q \in Req : w = req'[q].row /\ w # None
        BY <3>3
      <4>2. w = req[q].row \/ w \in Rows
        BY <4>1
      <4> QED BY <1>t, <3>1, <4>1, <4>2, CopiesAre
    <3>4. CASE \E k \in DOMAIN aeat : w = aeat[k].row
      BY <1>t, <3>1, <3>4, CopiesAre
    <3>5. \/ w \in Rows' \/ \E q \in Req : w = req'[q].row /\ w # None
          \/ \E k \in DOMAIN aeat' : w = aeat'[k].row
      BY <2>1 DEF Copies
    <3> QED BY <3>2, <3>3, <3>4, <3>5
  <2>2. OneRecord
    BY DEF Ledger
  <2>3. \A w \in Copies' : w.id <= signed'
    BY <2>1, <2>2 DEF OneRecord, Same
  <2>4. ASSUME NEW v \in Copies', NEW w \in Copies', v.id = w.id PROVE Same(v, w)
    <3>1. PICK v0 \in Copies : Same(v0, v)
      BY <2>1
    <3>2. PICK w0 \in Copies : Same(w0, w)
      BY <2>1
    <3> QED BY <2>2, <2>4, <3>1, <3>2 DEF OneRecord, Same
  <2> QED BY <2>3, <2>4 DEF OneRecord, Same
<1>3. Distinct'
  BY DEF Ledger, Distinct
<1>4. Single'
  <2> SUFFICES ASSUME NEW s \in Stamp, NEW t \in Stamp, reg'[s] # None, reg'[t] # None,
                      reg'[s].kind = reg'[t].kind, reg'[s].of = reg'[t].of
               PROVE  s = t
    BY DEF Single, There
  <2>1. There(s) /\ There(t) /\ Same(reg[s], reg'[s]) /\ Same(reg[t], reg'[t])
    OBVIOUS
  <2> QED BY <2>1 DEF Ledger, Single, Same
<1>5. Numbered'
  <2> SUFFICES ASSUME NEW i \in Invoice, NEW j \in Invoice, inv'[i].num = inv'[j].num, inv'[i].num # 0
               PROVE  i = j
    BY DEF Numbered
  <2>1. inv[i].num = inv[j].num /\ inv[i].num # 0
    OBVIOUS
  <2> QED BY <2>1 DEF Ledger, Numbered
<1> QED BY <1>1, <1>2, <1>3, <1>4, <1>5 DEF Ledger

-----------------------------------------------------------------------------
(* How a step moves its request: to a record like the one before but for   *)
(* what the step writes.                                                   *)
CarryPC == {"send", "sent", "done", "undo", "release"}

Moves(r, rec) ==
  /\ rec \in ReqRec /\ (rec.pc \in CarryPC => rec.row # None) /\ (rec.pc # "idle" => rec.of \in Invoice)
  /\ req' = [req EXCEPT ![r] = rec]

LEMMA MovesTyped ==
  ASSUME TypeOK, NEW r \in Req, NEW rec, Moves(r, rec)
  PROVE  /\ req' \in [Req -> ReqRec] /\ req'[r] = rec /\ \A q \in Req \ {r} : req'[q] = req[q]
         /\ \A q \in Req : req'[q].pc \in CarryPC => req'[q].row # None
         /\ (Aimed => Aimed')
<1>1. req \in [Req -> ReqRec] /\ \A q \in Req : req[q].pc \in CarryPC => req[q].row # None
  BY DEF TypeOK, CarryPC
<1> QED BY <1>1 DEF Moves, Aimed

LEMMA IdleIs ==
  /\ Idle \in ReqRec /\ Idle.pc = "idle" /\ Idle.call = None /\ Idle.of = None /\ Idle.row = None
  /\ Idle.fresh = FALSE /\ "idle" \notin CarryPC
<1>1. 0 \in 0..MaxStamp /\ 0 \in 0..MaxEdits
  BY ChainAssumption
<1> QED BY <1>1 DEF Idle, ReqRec, PC, CarryPC

LEMMA ReqIs ==
  ASSUME TypeOK, NEW r \in Req
  PROVE  /\ req[r] \in ReqRec /\ req[r].pc \in PC /\ req[r].call \in AllCalls \cup {None}
         /\ req[r].of \in Invoice \cup {None} /\ req[r].row \in RowRec \cup {None}
         /\ req[r].link \in 0..MaxStamp /\ req[r].ed \in 0..MaxEdits /\ req[r].fresh \in BOOLEAN
         /\ (req[r].pc \in CarryPC => req[r].row \in RowRec)
<1>1. req[r] \in ReqRec /\ (req[r].pc \in CarryPC => req[r].row # None)
  BY DEF TypeOK, CarryPC
<1> QED BY <1>1 DEF ReqRec

Ended(r) == Moves(r, Idle) /\ lock' = IF lock = r THEN None ELSE lock

LEMMA EndIs == ASSUME NEW r \in Req, End(r) PROVE Ended(r)
  BY IdleIs DEF End, Ended, Moves

(* The record of a request that only goes on. *)
On(r, pc, rec) ==
  /\ Moves(r, rec) /\ rec.pc = pc
  /\ rec.call = req[r].call /\ rec.of = req[r].of /\ rec.row = req[r].row /\ rec.fresh = req[r].fresh

LEMMA GoIs ==
  ASSUME TypeOK, Aimed, NEW r \in Req, req[r].pc # "idle", NEW pc \in PC, pc \in CarryPC => req[r].row # None, Go(r, pc)
  PROVE  \E rec : On(r, pc, rec)
<1> DEFINE rec == [req[r] EXCEPT !.pc = pc]
<1>1. req[r] \in ReqRec
  BY ReqIs
<1>2. rec \in ReqRec /\ rec.pc = pc /\ rec.call = req[r].call /\ rec.of = req[r].of /\ rec.row = req[r].row
      /\ rec.fresh = req[r].fresh
  BY <1>1 DEF ReqRec
<1> HIDE DEF rec
<1>3. req' = [req EXCEPT ![r] = rec]
  BY DEF Go, rec
<1> QED BY <1>2, <1>3 DEF On, Moves, Aimed

LEMMA StartIs ==
  ASSUME TypeOK, NEW r \in Req, Start(r)
  PROVE  /\ UNCHANGED <<inv, reg, signed, aeat, lock, perils>> /\ req[r].pc = "idle"
         /\ \E rec : /\ Moves(r, rec) /\ rec.pc = "lock" /\ rec.of \in Invoice /\ rec.row = None
                     /\ rec.call \in {"submit", "annul"} /\ rec.fresh = FALSE
                     /\ rec.call = "annul" => inv[rec.of].st = "SENT"
<1>1. PICK c \in Calls \cap {"submit", "annul"}, i \in Invoice :
        /\ c = "annul" => inv[i].st = "SENT"
        /\ req' = [req EXCEPT ![r] = [Idle EXCEPT !.pc = "lock", !.call = c, !.of = i]]
  BY DEF Start
<1> DEFINE rec == [Idle EXCEPT !.pc = "lock", !.call = c, !.of = i]
<1>2. rec \in ReqRec /\ rec.pc = "lock" /\ rec.call = c /\ rec.of = i /\ rec.row = None /\ rec.fresh = FALSE
  <2>1. 0 \in 0..MaxStamp /\ 0 \in 0..MaxEdits
    BY ChainAssumption
  <2> QED BY <2>1 DEF Idle, ReqRec, PC, AllCalls
<1>3. UNCHANGED <<inv, reg, signed, aeat, lock, perils>> /\ req[r].pc = "idle"
  BY DEF Start
<1> HIDE DEF rec
<1>4. Moves(r, rec)
  BY <1>1, <1>2 DEF Moves, rec, CarryPC
<1> QED BY <1>1, <1>2, <1>3, <1>4

LEMMA LockIs ==
  ASSUME TypeOK, Aimed, NEW r \in Req, Lock(r)
  PROVE  /\ UNCHANGED <<inv, reg, signed, aeat, perils>> /\ req[r].pc = "lock" /\ lock = None /\ lock' = r
         /\ \E rec : On(r, "look", rec)
  BY GoIs DEF Lock, PC, CarryPC

(* A retry takes up the row that is pending. *)
Resumed(r, w, rec) ==
  /\ Moves(r, rec) /\ rec.pc = "send" /\ rec.call = req[r].call /\ rec.of = req[r].of /\ rec.row = w
  /\ rec.fresh = req[r].fresh /\ rec.ed = inv[w.of].ed

LEMMA ResumeIs ==
  ASSUME TypeOK, Aimed, NEW r \in Req, req[r].pc # "idle", NEW w \in RowRec, Resume(r, w)
  PROVE  \E rec : Resumed(r, w, rec)
<1> DEFINE rec == [req[r] EXCEPT !.pc = "send", !.row = w, !.ed = inv[w.of].ed]
<1>1. req[r] \in ReqRec /\ inv[w.of].ed \in 0..MaxEdits /\ w # None
  BY ReqIs, NoneIsNoRow DEF RowRec, TypeOK, InvoiceRec
<1>2. /\ rec \in ReqRec /\ rec.pc = "send" /\ rec.call = req[r].call /\ rec.of = req[r].of /\ rec.row = w
      /\ rec.fresh = req[r].fresh /\ rec.ed = inv[w.of].ed
  BY <1>1 DEF ReqRec, PC
<1> HIDE DEF rec
<1>3. req' = [req EXCEPT ![r] = rec]
  BY DEF Resume, rec
<1> QED BY <1>1, <1>2, <1>3 DEF Resumed, Moves, Aimed

(* What a request may find under the lock. *)
Found(r, w) ==
  /\ w \in Pending /\ w.of = req[r].of
  /\ w.kind = IF req[r].call = "submit" THEN "ALTA" ELSE "ANULACION"

LEMMA LookIs ==
  ASSUME TypeOK, Rooted, Aimed, NEW r \in Req, LookSubmit(r) \/ LookAnnul(r)
  PROVE  /\ UNCHANGED <<inv, reg, signed, aeat, perils>> /\ req[r].pc = "look"
         /\ \/ Ended(r)
            \/ \E w \in RowRec : \E rec : Found(r, w) /\ Resumed(r, w, rec) /\ lock' = lock
            \/ /\ \E rec : On(r, "register", rec)
               /\ lock' = lock
               /\ \A w \in Pending : req[r].call = "submit" /\ w.kind = "ANULACION"
<1> DEFINE i == req[r].of
<1>1. UNCHANGED <<inv, reg, signed, aeat, perils>> /\ req[r].pc = "look"
  BY DEF LookSubmit, LookAnnul
<1>2. Go(r, "register") => \E rec : On(r, "register", rec)
  BY <1>1, GoIs DEF PC, CarryPC
<1>3. \A w \in Pending : w \in RowRec /\ w.st = "PENDING" /\ w.kind \in {"ALTA", "ANULACION"}
  BY RowsAre, PendingIs DEF RowRec
<1>4. CASE LookSubmit(r)
  <2>1. req[r].call = "submit"
    BY <1>4 DEF LookSubmit
  <2>2. \/ End(r)
        \/ \E w \in AltaOf(i) \cap Pending : Resume(r, w) /\ UNCHANGED lock
        \/ /\ AltaOf(i) \cap Pending = {} /\ OtherPending(i) = {}
           /\ Go(r, "register") /\ UNCHANGED lock
    BY <1>4 DEF LookSubmit
  <2>3. CASE \E w \in AltaOf(i) \cap Pending : Resume(r, w) /\ UNCHANGED lock
    <3>1. PICK w \in AltaOf(i) \cap Pending : Resume(r, w) /\ UNCHANGED lock
      BY <2>3
    <3>2. Found(r, w) /\ w \in RowRec
      BY <1>3, <2>1 DEF AltaOf, Found
    <3>3. \E rec : Resumed(r, w, rec)
      BY <1>1, <3>1, <3>2, ResumeIs
    <3> QED BY <1>1, <3>1, <3>2, <3>3
  <2>4. CASE AltaOf(i) \cap Pending = {} /\ OtherPending(i) = {}
    <3>1. ASSUME NEW w \in Pending, w.kind = "ALTA" PROVE FALSE
      <4>1. w \in Rows
        BY DEF Pending
      <4> QED BY <2>4, <3>1, <4>1 DEF OtherPending, AltaOf
    <3>2. \A w \in Pending : w.kind = "ANULACION"
      BY <1>3, <3>1
    <3>3. \/ Ended(r) \/ \E w \in AltaOf(i) \cap Pending : Resume(r, w) /\ UNCHANGED lock
          \/ (\E rec : On(r, "register", rec)) /\ lock' = lock
      BY <1>2, <2>2, EndIs
    <3> QED BY <1>1, <2>1, <2>4, <3>2, <3>3
  <2> QED BY <1>1, <2>2, <2>3, <2>4, EndIs
<1>5. CASE LookAnnul(r)
  <2>1. req[r].call = "annul"
    BY <1>5 DEF LookAnnul
  <2>2. \/ End(r)
        \/ \E w \in AnnulOf(i) \cap Pending : Resume(r, w) /\ UNCHANGED lock
        \/ Pending = {} /\ Go(r, "register") /\ UNCHANGED lock
    BY <1>5 DEF LookAnnul
  <2>3. CASE \E w \in AnnulOf(i) \cap Pending : Resume(r, w) /\ UNCHANGED lock
    <3>1. PICK w \in AnnulOf(i) \cap Pending : Resume(r, w) /\ UNCHANGED lock
      BY <2>3
    <3>2. Found(r, w) /\ w \in RowRec
      BY <1>3, <2>1 DEF AnnulOf, Found
    <3>3. \E rec : Resumed(r, w, rec)
      BY <1>1, <3>1, <3>2, ResumeIs
    <3> QED BY <1>1, <3>1, <3>2, <3>3
  <2> QED BY <1>1, <1>2, <2>2, <2>3, EndIs
<1> QED BY <1>4, <1>5

(* A request that registers signs a new row, or finds that it may not. *)
Signs(r, w, rec) ==
  /\ signed < MaxStamp /\ signed' = signed + 1
  /\ w \in RowRec /\ w.id = signed + 1 /\ w.of = req[r].of /\ w.st = "PENDING"
  /\ w.seq = LastSeq + 1 /\ w.prev = LastHuella /\ w.ed = inv[w.of].ed
  /\ w.kind = IF req[r].call = "submit" THEN "ALTA" ELSE "ANULACION"
  /\ reg' = [reg EXCEPT ![w.id] = w]
  /\ Moves(r, rec) /\ rec.pc = "send" /\ rec.row = w /\ rec.ed = w.ed
  /\ rec.call = req[r].call /\ rec.of = req[r].of
  /\ rec.fresh => req[r].call = "submit" \/ req[r].fresh
  /\ UNCHANGED <<aeat, lock>>
  /\ inv[w.of].st # "gone"
  /\ \A s \in Stamp : There(s) => ~(reg[s].kind = w.kind /\ reg[s].of = w.of)
  /\ \/ /\ req[r].call = "submit"
        /\ inv' = [inv EXCEPT ![w.of].num = w.num] /\ w.num # 0
        /\ w.num = inv[w.of].num \/ (inv[w.of].num = 0 /\ w.num = NextNumber)
        /\ perils' = IF \E v \in Pending : v.kind = "ANULACION" THEN perils \cup {"annul"} ELSE perils
     \/ req[r].call = "annul" /\ inv' = inv /\ perils' = perils

LEMMA NewRowIs ==
  ASSUME TypeOK, Rooted, signed < MaxStamp, NEW kind \in {"ALTA", "ANULACION"}, NEW i \in Invoice,
         NEW num \in Number, NEW w, w = NewRow(kind, i, num, inv[i].ed)
  PROVE  /\ w \in RowRec /\ w.id = signed + 1 /\ w.of = i /\ w.st = "PENDING" /\ w.kind = kind /\ w.num = num
         /\ w.seq = LastSeq + 1 /\ w.prev = LastHuella /\ w.ed = inv[i].ed
         /\ w.id \in Stamp /\ ~There(w.id)
<1>1. signed \in Nat /\ MaxStamp \in Nat /\ LastSeq \in 0..signed /\ LastHuella \in 0..MaxStamp
  BY LastSeqIs, LastHuellaIs, ChainAssumption DEF TypeOK
<1>2. inv[i].ed \in 0..MaxEdits
  BY DEF TypeOK, InvoiceRec
<1>3. signed + 1 \in Stamp /\ LastSeq + 1 \in Stamp
  BY <1>1 DEF Stamp
<1>4. ~There(signed + 1)
  BY <1>1, <1>3 DEF Rooted
<1> QED BY <1>1, <1>2, <1>3, <1>4 DEF NewRow, RowRec

Sending(r, w, e, b) == [req[r] EXCEPT !.pc = "send", !.row = w, !.ed = e, !.fresh = b]
Sends(r, w, e, b)   == req' = [req EXCEPT ![r] = Sending(r, w, e, b)]

LEMMA SendsNew ==
  ASSUME TypeOK, Aimed, NEW r \in Req, req[r].pc # "idle", NEW w \in RowRec, NEW e \in 0..MaxEdits, NEW b \in BOOLEAN,
         Sends(r, w, e, b)
  PROVE  \E rec : /\ Moves(r, rec) /\ rec.pc = "send" /\ rec.row = w /\ rec.ed = e /\ rec.fresh = b
                  /\ rec.call = req[r].call /\ rec.of = req[r].of
<1> DEFINE rec == Sending(r, w, e, b)
<1>1. req[r] \in ReqRec /\ w # None /\ req[r].of \in Invoice
  BY ReqIs, NoneIsNoRow DEF Aimed
<1>2. /\ rec \in ReqRec /\ rec.pc = "send" /\ rec.row = w /\ rec.ed = e /\ rec.fresh = b
      /\ rec.call = req[r].call /\ rec.of = req[r].of
  BY <1>1 DEF ReqRec, PC, Sending
<1>3. Moves(r, rec)
  BY <1>1, <1>2 DEF Moves, Sends
<1> HIDE DEF rec
<1> QED BY <1>2, <1>3

LEMMA RegisterIs ==
  ASSUME TypeOK, Rooted, Aimed, NEW r \in Req, RegisterSubmit(r) \/ RegisterAnnul(r)
  PROVE  /\ req[r].pc = "register"
         /\ \/ Ended(r) /\ UNCHANGED <<inv, reg, signed, aeat, perils>>
            \/ \E w \in RowRec : \E rec : Signs(r, w, rec)
<1> DEFINE i == req[r].of
<1>0. req[r].pc = "register" /\ i \in Invoice
  BY DEF RegisterSubmit, RegisterAnnul, Aimed
<1>1. CASE RegisterSubmit(r)
  <2> DEFINE num == IF inv[i].num = 0 THEN NextNumber ELSE inv[i].num
             w   == NewRow("ALTA", i, num, inv[i].ed)
  <2>1. CASE End(r) /\ UNCHANGED <<inv, reg, signed>>
    <3>1. perils' = perils
      BY <1>1, <2>1 DEF RegisterSubmit, Meet
    <3> QED BY <1>0, <1>1, <2>1, <3>1, EndIs DEF RegisterSubmit
  <2>2. CASE /\ inv[i].st # "gone" /\ AltaOf(i) = {}
             /\ signed < MaxStamp /\ num <= MaxStamp
             /\ inv' = [inv EXCEPT ![i].num = num]
             /\ reg' = [reg EXCEPT ![w.id] = w]
             /\ signed' = signed + 1
             /\ req' = [req EXCEPT ![r].pc = "send", ![r].row = w, ![r].ed = inv[i].ed,
                                   ![r].fresh = (inv[i].num = 0)]
             /\ UNCHANGED lock
    <3>1. inv[i].num \in Number /\ inv[i].ed \in 0..MaxEdits
      BY <1>0 DEF TypeOK, InvoiceRec
    <3>2. NextNumber \in Nat \ {0}
      BY <1>0, NextNumberIs
    <3>3. num \in Number /\ num # 0 /\ (num = inv[i].num \/ (inv[i].num = 0 /\ num = NextNumber))
      BY <2>2, <3>1, <3>2, ChainAssumption DEF Number
    <3> HIDE DEF num
    <3>4. /\ w \in RowRec /\ w.id = signed + 1 /\ w.of = i /\ w.st = "PENDING" /\ w.kind = "ALTA" /\ w.num = num
          /\ w.seq = LastSeq + 1 /\ w.prev = LastHuella /\ w.ed = inv[i].ed
          /\ w.id \in Stamp /\ ~There(w.id)
      BY <1>0, <2>2, <3>3, NewRowIs
    <3> HIDE DEF w
    <3>5. PICK rec : /\ Moves(r, rec) /\ rec.pc = "send" /\ rec.row = w /\ rec.ed = inv[i].ed
                     /\ rec.call = req[r].call /\ rec.of = req[r].of
      <4>1. PICK v \in RowRec, e \in 0..MaxEdits, b \in BOOLEAN : v = w /\ e = inv[i].ed /\ b = (inv[i].num = 0)
        BY <3>1, <3>4
      <4>2. Sends(r, v, e, b)
        BY <2>2, <4>1 DEF Sending, Sends
      <4>3. \E rec : /\ Moves(r, rec) /\ rec.pc = "send" /\ rec.row = v /\ rec.ed = e
                     /\ rec.call = req[r].call /\ rec.of = req[r].of
        BY <1>0, <4>2, SendsNew
      <4> QED BY <4>1, <4>3
    <3>6. \A s \in Stamp : There(s) => ~(reg[s].kind = w.kind /\ reg[s].of = w.of)
      BY <1>0, <2>2, <3>4, AltaIs
    <3>7. reg' # reg
      <4>1. reg'[w.id] = w
        BY <2>2, <3>4 DEF TypeOK
      <4> QED BY <3>4, <4>1, NoneIsNoRow DEF There
    <3>8. /\ perils' = IF \E v \in Pending : v.kind = "ANULACION" THEN perils \cup {"annul"} ELSE perils
          /\ req[r].call = "submit" /\ aeat' = aeat
      BY <1>1, <3>7 DEF RegisterSubmit, Meet
    <3>9. Signs(r, w, rec)
      BY <2>2, <3>3, <3>4, <3>5, <3>6, <3>8 DEF Signs
    <3> QED BY <1>0, <3>4, <3>9
  <2> QED BY <1>1, <2>1, <2>2 DEF RegisterSubmit
<1>2. CASE RegisterAnnul(r)
  <2> DEFINE w == NewRow("ANULACION", i, inv[i].num, inv[i].ed)
  <2>1. CASE End(r) /\ UNCHANGED <<reg, signed>>
    BY <1>0, <1>2, <2>1, EndIs DEF RegisterAnnul
  <2>2. CASE /\ inv[i].st # "gone" /\ AnnulOf(i) = {}
             /\ signed < MaxStamp
             /\ reg' = [reg EXCEPT ![w.id] = w]
             /\ signed' = signed + 1
             /\ req' = [req EXCEPT ![r].pc = "send", ![r].row = w, ![r].ed = inv[i].ed]
             /\ UNCHANGED lock
    <3>1. inv[i].num \in Number /\ inv[i].ed \in 0..MaxEdits
      BY <1>0 DEF TypeOK, InvoiceRec
    <3>2. /\ w \in RowRec /\ w.id = signed + 1 /\ w.of = i /\ w.st = "PENDING" /\ w.kind = "ANULACION"
          /\ w.seq = LastSeq + 1 /\ w.prev = LastHuella /\ w.ed = inv[i].ed
      BY <1>0, <2>2, <3>1, NewRowIs
    <3> HIDE DEF w
    <3>3. req[r].fresh \in BOOLEAN
      BY ReqIs
    <3>4. PICK rec : /\ Moves(r, rec) /\ rec.pc = "send" /\ rec.row = w /\ rec.ed = inv[i].ed
                     /\ rec.call = req[r].call /\ rec.of = req[r].of /\ rec.fresh = req[r].fresh
      <4>1. PICK v \in RowRec, e \in 0..MaxEdits, b \in BOOLEAN : v = w /\ e = inv[i].ed /\ b = req[r].fresh
        BY <3>1, <3>2, <3>3
      <4>2. Sending(r, v, e, b) = [req[r] EXCEPT !.pc = "send", !.row = w, !.ed = inv[i].ed]
        BY <4>1, ReqIs DEF Sending, ReqRec
      <4>3. Sends(r, v, e, b)
        BY <2>2, <4>2 DEF Sends
      <4>4. \E rec : /\ Moves(r, rec) /\ rec.pc = "send" /\ rec.row = v /\ rec.ed = e
                     /\ rec.call = req[r].call /\ rec.of = req[r].of /\ rec.fresh = b
        BY <1>0, <4>3, SendsNew
      <4> QED BY <4>1, <4>4
    <3>5. \A s \in Stamp : There(s) => ~(reg[s].kind = w.kind /\ reg[s].of = w.of)
      BY <1>0, <2>2, <3>2, AnnulIs
    <3>6. req[r].call = "annul" /\ UNCHANGED <<inv, aeat, perils>>
      BY <1>2 DEF RegisterAnnul
    <3>7. Signs(r, w, rec)
      BY <2>2, <3>2, <3>4, <3>5, <3>6 DEF Signs
    <3> QED BY <1>0, <3>2, <3>7
  <2> QED BY <1>2, <2>1, <2>2 DEF RegisterAnnul
<1> QED BY <1>1, <1>2

(* What is sent names the row before, unless there is none that can be named. *)
LEMMA SendIs ==
  ASSUME TypeOK, Rooted, Aimed, NEW r \in Req, Send(r)
  PROVE  /\ UNCHANGED <<inv, reg, signed, aeat, lock, perils>> /\ req[r].pc = "send" /\ req[r].row \in RowRec
         /\ \/ \E rec : /\ On(r, "sent", rec) /\ rec.ed = req[r].ed
                        /\ \/ req[r].row.seq = 1 /\ rec.link = 0
                           \/ \E v \in Rows : v.seq + 1 = req[r].row.seq /\ rec.link = v.id
            \/ /\ \E rec : On(r, "undo", rec)
               /\ ~(req[r].row.seq = 1 /\ req[r].row.kind = "ALTA")
               /\ \A v \in Rows : v.seq + 1 = req[r].row.seq => inv[v.of].num = 0
<1> DEFINE w == req[r].row
<1>1. /\ UNCHANGED <<inv, reg, signed, aeat, lock, perils>> /\ req[r].pc = "send" /\ w \in RowRec
      /\ req[r] \in ReqRec /\ req[r].of \in Invoice /\ w # None
  BY ReqIs, NoneIsNoRow DEF Send, CarryPC, Aimed
<1>2. ASSUME NEW l \in 0..MaxStamp, req' = [req EXCEPT ![r].pc = "sent", ![r].link = l]
      PROVE  \E rec : On(r, "sent", rec) /\ rec.ed = req[r].ed /\ rec.link = l
  <2> DEFINE rec == [req[r] EXCEPT !.pc = "sent", !.link = l]
  <2>1. /\ rec \in ReqRec /\ rec.pc = "sent" /\ rec.link = l /\ rec.ed = req[r].ed
        /\ rec.call = req[r].call /\ rec.of = req[r].of /\ rec.row = w /\ rec.fresh = req[r].fresh
    BY <1>1 DEF ReqRec, PC
  <2>2. req' = [req EXCEPT ![r] = rec]
    BY <1>2
  <2> HIDE DEF rec
  <2> QED BY <1>1, <2>1, <2>2 DEF On, Moves
<1>3. CASE w.seq = 1 /\ w.kind = "ALTA" /\ req' = [req EXCEPT ![r].pc = "sent", ![r].link = 0]
  <2>1. 0 \in 0..MaxStamp
    BY ChainAssumption
  <2> QED BY <1>1, <1>2, <1>3, <2>1
<1>4. ASSUME NEW v \in LinkRows(w), req' = [req EXCEPT ![r].pc = "sent", ![r].link = v.id]
      PROVE  \E rec : /\ On(r, "sent", rec) /\ rec.ed = req[r].ed
                      /\ \E u \in Rows : u.seq + 1 = w.seq /\ rec.link = u.id
  <2>1. v \in Rows /\ v.seq + 1 = w.seq
    BY DEF LinkRows
  <2>2. v.id \in 0..MaxStamp
    BY <2>1, RowsAre, ChainAssumption DEF Stamp
  <2> QED BY <1>2, <1>4, <2>1, <2>2
<1>5. CASE ~(w.seq = 1 /\ w.kind = "ALTA") /\ LinkRows(w) = {} /\ Go(r, "undo")
  <2>1. \E rec : On(r, "undo", rec)
    BY <1>1, <1>5, GoIs DEF PC
  <2>2. \A v \in Rows : v.seq + 1 = w.seq => inv[v.of].num = 0
    BY <1>5 DEF LinkRows
  <2> QED BY <1>1, <1>5, <2>1, <2>2
<1> QED BY <1>1, <1>3, <1>4, <1>5 DEF Send

LEMMA AnsweredIs ==
  ASSUME TypeOK, Aimed, NEW r \in Req, req[r].pc = "sent", NEW a \in {"accepted", "rejected", "lost"}, Answered(r, a)
  PROVE  \E rec : On(r, "done", rec) /\ rec.answer = a
<1> DEFINE rec == [req[r] EXCEPT !.pc = "done", !.answer = a]
<1>1. req[r] \in ReqRec /\ req[r].of \in Invoice /\ req[r].row # None
  BY ReqIs, NoneIsNoRow DEF Aimed, CarryPC
<1>2. /\ rec \in ReqRec /\ rec.pc = "done" /\ rec.answer = a
      /\ rec.call = req[r].call /\ rec.of = req[r].of /\ rec.row = req[r].row /\ rec.fresh = req[r].fresh
  BY <1>1 DEF ReqRec, PC
<1>3. req' = [req EXCEPT ![r] = rec]
  BY DEF Answered
<1> HIDE DEF rec
<1> QED BY <1>1, <1>2, <1>3 DEF On, Moves

LEMMA DecideIs ==
  ASSUME TypeOK, Aimed, NEW r \in Req, Decide(r)
  PROVE  /\ UNCHANGED <<inv, reg, signed, lock, perils>> /\ req[r].pc = "sent" /\ req[r].row \in RowRec
         /\ \/ /\ Known(req[r].row) = {}
               /\ aeat' = Append(aeat, [row |-> req[r].row, link |-> req[r].link, ed |-> req[r].ed])
               /\ \E rec : On(r, "done", rec) /\ rec.answer \in {"accepted", "lost"}
            \/ /\ aeat' = aeat
               /\ \E rec : /\ On(r, "done", rec) /\ rec.answer \in {"accepted", "rejected", "lost"}
                           /\ rec.answer = "accepted" => req[r].row.id \in Held
                           /\ rec.answer = "rejected" =>
                                \/ Known(req[r].row) = {}
                                \/ ~(Repeats /\ \E k \in Known(req[r].row) : aeat[k].row.id = req[r].row.id)
<1> DEFINE w == req[r].row
<1>1. UNCHANGED <<inv, reg, signed, lock, perils>> /\ req[r].pc = "sent" /\ w \in RowRec
  BY ReqIs DEF Decide, CarryPC
<1>2. \A a \in {"accepted", "rejected", "lost"} : Answered(r, a) => \E rec : On(r, "done", rec) /\ rec.answer = a
  BY <1>1, AnsweredIs
<1>3. Known(w) \subseteq DOMAIN aeat
  BY DEF Known
<1>4. \/ /\ Known(w) = {}
         /\ aeat' = Append(aeat, [row |-> w, link |-> req[r].link, ed |-> req[r].ed])
         /\ Answered(r, "accepted") \/ Answered(r, "lost")
      \/ (\E k \in Known(w) : aeat[k].row.id = w.id) /\ Answered(r, "accepted") /\ aeat' = aeat
      \/ ~(Repeats /\ \E k \in Known(w) : aeat[k].row.id = w.id) /\ Answered(r, "rejected") /\ aeat' = aeat
      \/ Known(w) = {} /\ Answered(r, "rejected") /\ aeat' = aeat
      \/ Answered(r, "lost") /\ aeat' = aeat
  BY Zenon DEF Decide
<1>5. (\E k \in Known(w) : aeat[k].row.id = w.id) => w.id \in Held
  BY <1>3 DEF Held
<1> QED BY <1>1, <1>2, <1>4, <1>5

LEMMA FinishIs ==
  ASSUME TypeOK, Aimed, NEW r \in Req, Finish(r)
  PROVE  /\ UNCHANGED <<signed, aeat>> /\ req[r].pc = "done" /\ req[r].row \in RowRec
         /\ \/ Ended(r) /\ UNCHANGED <<inv, reg, perils>>
            \/ /\ req[r].answer = "accepted" /\ There(req[r].row.id) /\ Ended(r) /\ perils' = perils
               /\ reg' = [reg EXCEPT ![req[r].row.id].st = "ACCEPTED"]
               /\ IF req[r].row.kind = "ALTA" THEN inv' = [inv EXCEPT ![req[r].row.of].st = "SENT"]
                                              ELSE inv' = [inv EXCEPT ![req[r].row.of].ann = TRUE]
            \/ /\ UNCHANGED <<inv, reg, lock>> /\ \E rec : On(r, "undo", rec)
               /\ \/ req[r].answer = "rejected" /\ perils' = perils
                  \/ perils' = IF There(req[r].row.id) THEN perils \cup {"error"} ELSE perils
<1> DEFINE w == req[r].row
<1>1. UNCHANGED <<signed, aeat>> /\ req[r].pc = "done" /\ w \in RowRec /\ w # None
  BY ReqIs, NoneIsNoRow DEF Finish, CarryPC
<1>2. ASSUME End(r) PROVE Ended(r) /\ req'[r].pc = "idle"
  <2>1. Ended(r)
    BY <1>2, EndIs
  <2> QED BY <2>1, IdleIs, MovesTyped DEF Ended
<1>3. ASSUME Go(r, "undo") PROVE (\E rec : On(r, "undo", rec)) /\ req'[r].pc = "undo"
  <2>1. PICK rec : On(r, "undo", rec)
    BY <1>1, <1>3, GoIs DEF PC
  <2> QED BY <2>1, MovesTyped DEF On
<1>4. perils' = IF Accepted(r) /\ There(w.id) /\ req'[r].pc = "undo" THEN perils \cup {"error"} ELSE perils
  BY DEF Finish, Meet, There
<1>5. Accepted(r) <=> req[r].answer = "accepted"
  BY DEF Accepted
<1>6. CASE req[r].answer = "lost" /\ End(r) /\ UNCHANGED <<inv, reg>>
  BY <1>1, <1>2, <1>4, <1>5, <1>6
<1>7. CASE /\ Accepted(r) /\ There(w.id) /\ End(r)
           /\ reg' = [reg EXCEPT ![w.id].st = "ACCEPTED"]
           /\ inv' = IF w.kind = "ALTA" THEN [inv EXCEPT ![w.of].st = "SENT"]
                                        ELSE [inv EXCEPT ![w.of].ann = TRUE]
  BY <1>1, <1>2, <1>4, <1>5, <1>7
<1>8. CASE /\ (req[r].answer = "rejected" /\ ~Accepted(r)) \/ Accepted(r)
           /\ Go(r, "undo") /\ UNCHANGED <<inv, reg, lock>>
  BY <1>1, <1>3, <1>4, <1>5, <1>8
<1> QED BY <1>6, <1>7, <1>8 DEF Finish, LeavePending, There

LEMMA UndoIs ==
  ASSUME TypeOK, Aimed, NEW r \in Req, Undo(r)
  PROVE  /\ UNCHANGED <<inv, signed, aeat, perils>> /\ req[r].pc = "undo" /\ req[r].row \in RowRec
         /\ reg' = [reg EXCEPT ![req[r].row.id] = None]
         /\ \/ Ended(r)
            \/ req[r].fresh /\ lock' = lock /\ \E rec : On(r, "release", rec)
<1>1. UNCHANGED <<inv, signed, aeat, perils>> /\ req[r].pc = "undo" /\ req[r].row \in RowRec /\ req[r].row # None
  BY ReqIs, NoneIsNoRow DEF Undo, CarryPC
<1>2. Go(r, "release") => \E rec : On(r, "release", rec)
  BY <1>1, GoIs DEF PC
<1> QED BY <1>1, <1>2, EndIs DEF Undo

LEMMA ReleaseIs ==
  ASSUME TypeOK, Aimed, NEW r \in Req, Release(r)
  PROVE  /\ UNCHANGED <<reg, signed, aeat, perils>> /\ req[r].pc = "release" /\ Ended(r)
         /\ inv' = inv \/ inv' = [inv EXCEPT ![req[r].of].num = 0]
  BY EndIs DEF Release

LEMMA ExpiresIs ==
  ASSUME NEW r \in Req, LockExpires(r)
  PROVE  UNCHANGED <<inv, reg, signed, aeat, req>> /\ lock' = None /\ perils' = perils \cup {"slow"}
  BY DEF LockExpires, Meet

(* A confirmation is opened for a pending row whose number AEAT shows. *)
LEMMA OpenIs ==
  ASSUME TypeOK, NEW r \in Req, Open(r)
  PROVE  /\ UNCHANGED <<inv, reg, signed, aeat, lock, perils>> /\ req[r].pc = "idle"
         /\ \E rec : /\ Moves(r, rec) /\ rec.pc = "write" /\ rec.of \in Invoice /\ rec.row = None
                     /\ rec.call \notin {"submit", "annul"} /\ rec.fresh = FALSE
                     /\ rec.call = "confirm" => AltaOf(rec.of) \cap Pending # {} /\ Shown(rec.of)
<1>1. PICK c \in Calls \ {"submit", "annul"}, i \in Invoice :
        /\ CASE c \in {"confirm", "cancel"} ->
                  /\ AltaOf(i) \cap Pending # {}
                  /\ Shown(i) <=> c = "confirm"
                  /\ "hasty" \in Faults \/ \A q \in Req : req[q].of # i
             [] OTHER -> inv[i].st = "DRAFT"
        /\ req' = [req EXCEPT ![r] = [Idle EXCEPT !.pc = "write", !.call = c, !.of = i]]
  BY Zenon DEF Open
<1>2. c = "confirm" => AltaOf(i) \cap Pending # {} /\ Shown(i)
  BY <1>1
<1> DEFINE rec == [Idle EXCEPT !.pc = "write", !.call = c, !.of = i]
<1>3. rec \in ReqRec /\ rec.pc = "write" /\ rec.call = c /\ rec.of = i /\ rec.row = None /\ rec.fresh = FALSE
  <2>1. 0 \in 0..MaxStamp /\ 0 \in 0..MaxEdits /\ c \in AllCalls
    BY ChainAssumption
  <2> QED BY <2>1 DEF Idle, ReqRec, PC
<1>4. UNCHANGED <<inv, reg, signed, aeat, lock, perils>> /\ req[r].pc = "idle"
  BY DEF Open
<1>5. Moves(r, rec)
  <2>1. req' = [req EXCEPT ![r] = rec]
    BY <1>1
  <2> HIDE DEF rec
  <2> QED BY <1>3, <2>1 DEF Moves, CarryPC
<1> HIDE DEF rec
<1> QED BY <1>2, <1>3, <1>4, <1>5

LEMMA ConfirmIs ==
  ASSUME NEW r \in Req, Confirm(r)
  PROVE  /\ UNCHANGED <<signed, aeat, perils>> /\ req[r].pc = "write" /\ req[r].call = "confirm" /\ Ended(r)
         /\ \/ UNCHANGED <<inv, reg>>
            \/ \E w \in AltaOf(req[r].of) \cap Pending :
                 /\ reg' = [reg EXCEPT ![w.id].st = "ACCEPTED"]
                 /\ inv' = [inv EXCEPT ![req[r].of].st = "SENT"]
  BY EndIs DEF Confirm

LEMMA CancelIs ==
  ASSUME NEW r \in Req, Cancel(r)
  PROVE  /\ UNCHANGED <<signed, aeat>> /\ req[r].pc = "write" /\ Ended(r)
         /\ \/ UNCHANGED <<inv, reg, perils>>
            \/ \E w \in AltaOf(req[r].of) \cap Pending :
                 /\ reg' = [reg EXCEPT ![w.id] = None]
                 /\ inv' = [inv EXCEPT ![req[r].of].num = 0]
                 /\ \/ perils' = perils \cup {"hasty"}
                    \/ perils' = perils /\ w.id \notin Held /\ \A q \in Req : req[q].row # w
<1> DEFINE own == AltaOf(req[r].of) \cap Pending
           hasty == \E w \in own : w.id \in Held \/ \E q \in Req : req[q].row = w
<1>1. UNCHANGED <<signed, aeat>> /\ req[r].pc = "write" /\ Ended(r)
  BY EndIs DEF Cancel
<1>2. /\ perils' = IF hasty THEN perils \cup {"hasty"} ELSE perils
      /\ \/ \E w \in own : /\ reg' = [reg EXCEPT ![w.id] = None]
                           /\ inv' = [inv EXCEPT ![req[r].of].num = 0]
         \/ own = {} /\ UNCHANGED <<inv, reg>>
  BY DEF Cancel, Meet
<1> HIDE DEF own
<1>3. CASE own = {} /\ UNCHANGED <<inv, reg>>
  <2>1. ~hasty
    BY <1>3
  <2> QED BY <1>1, <1>2, <1>3, <2>1
<1>4. CASE \E w \in own : /\ reg' = [reg EXCEPT ![w.id] = None]
                          /\ inv' = [inv EXCEPT ![req[r].of].num = 0]
  <2>1. PICK w \in own : /\ reg' = [reg EXCEPT ![w.id] = None]
                         /\ inv' = [inv EXCEPT ![req[r].of].num = 0]
    BY <1>4
  <2>2. perils' = perils \cup {"hasty"} \/ (perils' = perils /\ w.id \notin Held /\ \A q \in Req : req[q].row # w)
    BY <1>2
  <2> QED BY <1>1, <2>1, <2>2 DEF own
<1> QED BY <1>2, <1>3, <1>4

LEMMA EditIs ==
  ASSUME NEW r \in Req, Edit(r)
  PROVE  /\ UNCHANGED <<reg, signed, aeat>> /\ req[r].pc = "write" /\ Ended(r)
         /\ \/ inv' = inv
            \/ inv[req[r].of].ed < MaxEdits /\ inv' = [inv EXCEPT ![req[r].of].ed = @ + 1]
         /\ perils' = IF AltaOf(req[r].of) # {} THEN perils \cup {"edit"} ELSE perils
  BY EndIs DEF Edit, Meet

LEMMA RemoveIs ==
  ASSUME NEW r \in Req, Remove(r)
  PROVE  /\ UNCHANGED <<signed, aeat>> /\ req[r].pc = "write" /\ Ended(r)
         /\ inv' = [inv EXCEPT ![req[r].of] = [st |-> "gone", num |-> 0, ed |-> 0, ann |-> FALSE]]
         /\ reg' = [s \in Stamp |-> IF There(s) /\ reg[s].of = req[r].of THEN None ELSE reg[s]]
         /\ perils' = IF AltaOf(req[r].of) # {} THEN perils \cup {"remove"} ELSE perils
  BY EndIs DEF Remove, Meet, There

-----------------------------------------------------------------------------
(* What a write leaves of the invoices and of the rows. *)
Only(v, i, num, st, ed) ==
  /\ v \in [Invoice -> InvoiceRec] /\ v[i].num = num /\ v[i].st = st /\ v[i].ed = ed
  /\ \A j \in Invoice \ {i} : v[j] = inv[j]

LEMMA OnlyIs ==
  ASSUME TypeOK, NEW i \in Invoice, NEW rec \in InvoiceRec
  PROVE  Only([inv EXCEPT ![i] = rec], i, rec.num, rec.st, rec.ed)
<1>1. inv \in [Invoice -> InvoiceRec]
  BY DEF TypeOK
<1> QED BY <1>1 DEF Only

LEMMA NumIs ==
  ASSUME TypeOK, NEW i \in Invoice, NEW n \in Number
  PROVE  Only([inv EXCEPT ![i].num = n], i, n, inv[i].st, inv[i].ed)
<1> DEFINE rec == [inv[i] EXCEPT !.num = n]
<1>1. inv \in [Invoice -> InvoiceRec] /\ inv[i] \in InvoiceRec
  BY DEF TypeOK
<1>2. rec \in InvoiceRec /\ rec.num = n /\ rec.st = inv[i].st /\ rec.ed = inv[i].ed
  BY <1>1 DEF InvoiceRec
<1>3. [inv EXCEPT ![i].num = n] = [inv EXCEPT ![i] = rec]
  BY <1>1
<1> HIDE DEF rec
<1> QED BY <1>2, <1>3, OnlyIs

LEMMA SentIs ==
  ASSUME TypeOK, NEW i \in Invoice
  PROVE  Only([inv EXCEPT ![i].st = "SENT"], i, inv[i].num, "SENT", inv[i].ed)
<1> DEFINE rec == [inv[i] EXCEPT !.st = "SENT"]
<1>1. inv \in [Invoice -> InvoiceRec] /\ inv[i] \in InvoiceRec
  BY DEF TypeOK
<1>2. rec \in InvoiceRec /\ rec.num = inv[i].num /\ rec.st = "SENT" /\ rec.ed = inv[i].ed
  BY <1>1 DEF InvoiceRec
<1>3. [inv EXCEPT ![i].st = "SENT"] = [inv EXCEPT ![i] = rec]
  BY <1>1
<1> HIDE DEF rec
<1> QED BY <1>2, <1>3, OnlyIs

LEMMA AnnIs ==
  ASSUME TypeOK, NEW i \in Invoice
  PROVE  Only([inv EXCEPT ![i].ann = TRUE], i, inv[i].num, inv[i].st, inv[i].ed)
<1> DEFINE rec == [inv[i] EXCEPT !.ann = TRUE]
<1>1. inv \in [Invoice -> InvoiceRec] /\ inv[i] \in InvoiceRec
  BY DEF TypeOK
<1>2. rec \in InvoiceRec /\ rec.num = inv[i].num /\ rec.st = inv[i].st /\ rec.ed = inv[i].ed
  BY <1>1 DEF InvoiceRec
<1>3. [inv EXCEPT ![i].ann = TRUE] = [inv EXCEPT ![i] = rec]
  BY <1>1
<1> HIDE DEF rec
<1> QED BY <1>2, <1>3, OnlyIs

LEMMA EdIs ==
  ASSUME TypeOK, NEW i \in Invoice, inv[i].ed < MaxEdits
  PROVE  Only([inv EXCEPT ![i].ed = @ + 1], i, inv[i].num, inv[i].st, inv[i].ed + 1)
<1> DEFINE rec == [inv[i] EXCEPT !.ed = @ + 1]
<1>1. inv \in [Invoice -> InvoiceRec] /\ inv[i] \in InvoiceRec
  BY DEF TypeOK
<1>0. inv[i].ed + 1 \in 0..MaxEdits
  BY <1>1, ChainAssumption DEF InvoiceRec
<1>2. rec \in InvoiceRec /\ rec.num = inv[i].num /\ rec.st = inv[i].st /\ rec.ed = inv[i].ed + 1
  BY <1>1, <1>0 DEF InvoiceRec
<1>3. [inv EXCEPT ![i].ed = @ + 1] = [inv EXCEPT ![i] = rec]
  BY <1>1
<1> HIDE DEF rec
<1> QED BY <1>2, <1>3, OnlyIs

LEMMA RegIs ==
  ASSUME TypeOK, NEW s \in Stamp, There(s)
  PROVE  /\ LET g == [reg EXCEPT ![s] = None] IN
            g \in [Stamp -> RowRec \cup {None}] /\ g[s] = None /\ \A t \in Stamp \ {s} : g[t] = reg[t]
         /\ LET g == [reg EXCEPT ![s].st = "ACCEPTED"] IN
            /\ g \in [Stamp -> RowRec \cup {None}] /\ g[s] # None /\ Same(reg[s], g[s]) /\ g[s].st = "ACCEPTED"
            /\ \A t \in Stamp \ {s} : g[t] = reg[t]
<1>1. reg \in [Stamp -> RowRec \cup {None}] /\ reg[s] \in RowRec
  BY DEF TypeOK, There
<1>2. LET g == [reg EXCEPT ![s].st = "ACCEPTED"] IN
      /\ g \in [Stamp -> RowRec \cup {None}] /\ g[s] # None /\ Same(reg[s], g[s]) /\ g[s].st = "ACCEPTED"
      /\ \A t \in Stamp \ {s} : g[t] = reg[t]
  <2> DEFINE rec == [reg[s] EXCEPT !.st = "ACCEPTED"]
  <2>1. rec \in RowRec /\ Same(reg[s], rec) /\ rec.st = "ACCEPTED"
    BY <1>1 DEF RowRec, Same
  <2>2. [reg EXCEPT ![s].st = "ACCEPTED"] = [reg EXCEPT ![s] = rec] /\ rec # None
    BY <1>1, <2>1, NoneIsNoRow
  <2> HIDE DEF rec
  <2> QED BY <1>1, <2>1, <2>2
<1> QED BY <1>1, <1>2

(* The steps that sign nothing and send nothing. *)
Plain(r, rec) ==
  /\ Moves(r, rec) /\ rec.row \in {req[r].row, None} \cup Rows
  /\ inv' \in [Invoice -> InvoiceRec] /\ \A i \in Invoice : inv'[i].num \in {inv[i].num, 0}
  /\ reg' \in [Stamp -> RowRec \cup {None}] /\ \A s \in Stamp : reg'[s] # None => There(s) /\ Same(reg[s], reg'[s])
  /\ UNCHANGED <<signed, aeat>> /\ lock' \in Req \cup {None} /\ perils' \subseteq Perils

LEMMA PlainKeeps ==
  ASSUME Ledger, NEW r \in Req, NEW rec, Plain(r, rec)
  PROVE  Ledger'
<1>1. TypeOK /\ Aimed
  BY DEF Ledger
<1>2. /\ req' \in [Req -> ReqRec] /\ req'[r] = rec /\ \A q \in Req \ {r} : req'[q] = req[q]
      /\ \A q \in Req : req'[q].pc \in CarryPC => req'[q].row # None
      /\ Aimed'
  BY <1>1, MovesTyped DEF Plain
<1>3. TypeOK'
  BY <1>1, <1>2 DEF TypeOK, Plain, CarryPC
<1>4. \A q \in Req : req'[q].row \in {req[q].row, None} \cup Rows
  BY <1>2 DEF Plain
<1> QED BY <1>2, <1>3, <1>4, LedgerKept DEF Plain

LEMMA EndedPlain ==
  ASSUME TypeOK, NEW r \in Req, Ended(r), UNCHANGED <<signed, aeat>>, perils' \subseteq Perils,
         inv' \in [Invoice -> InvoiceRec], \A i \in Invoice : inv'[i].num \in {inv[i].num, 0},
         reg' \in [Stamp -> RowRec \cup {None}],
         \A s \in Stamp : reg'[s] # None => There(s) /\ Same(reg[s], reg'[s])
  PROVE  Plain(r, Idle)
<1>1. lock' \in Req \cup {None}
  BY DEF TypeOK, Ended
<1> QED BY <1>1, IdleIs DEF Plain, Ended

LEMMA OnPlain ==
  ASSUME TypeOK, NEW r \in Req, NEW pc, NEW rec, On(r, pc, rec), UNCHANGED <<signed, aeat, perils>>,
         lock' \in Req \cup {None}, inv' = inv,
         reg' \in [Stamp -> RowRec \cup {None}],
         \A s \in Stamp : reg'[s] # None => There(s) /\ Same(reg[s], reg'[s])
  PROVE  Plain(r, rec)
<1>1. inv \in [Invoice -> InvoiceRec] /\ perils \subseteq Perils
  BY DEF TypeOK
<1> QED BY <1>1 DEF Plain, On

LEMMA SubmissionPlain ==
  ASSUME Ledger, NEW r \in Req,
         \/ Start(r) \/ Lock(r) \/ LookSubmit(r) \/ LookAnnul(r) \/ Send(r) \/ Finish(r) \/ Undo(r) \/ Release(r)
  PROVE  \E rec : Plain(r, rec)
<1>1. /\ TypeOK /\ Rooted /\ Aimed
      /\ inv \in [Invoice -> InvoiceRec] /\ reg \in [Stamp -> RowRec \cup {None}]
      /\ perils \subseteq Perils /\ lock \in Req \cup {None} /\ {"error"} \subseteq Perils
  BY DEF Ledger, TypeOK, Perils
<1>2. \A s \in Stamp : Same(reg[s], reg[s])
  BY DEF Same
<1>3. (Ended(r) /\ UNCHANGED <<inv, reg, signed, aeat, perils>>) => Plain(r, Idle)
  BY <1>1, <1>2, EndedPlain DEF There
<1>4. ASSUME NEW pc, NEW rec, On(r, pc, rec), UNCHANGED <<inv, reg, signed, aeat, perils>>, lock' \in Req \cup {None}
      PROVE  Plain(r, rec)
  BY <1>1, <1>2, <1>4, OnPlain DEF There
<1>5. CASE Start(r)
  <2>1. PICK rec : /\ Moves(r, rec) /\ rec.row = None
    BY <1>1, <1>5, StartIs
  <2> QED BY <1>1, <1>2, <1>5, <2>1, StartIs DEF Plain, There
<1>6. CASE Lock(r)
  BY <1>1, <1>4, <1>6, LockIs
<1>7. CASE LookSubmit(r) \/ LookAnnul(r)
  <2>0. UNCHANGED <<inv, reg, signed, aeat, perils>>
    BY <1>1, <1>7, LookIs
  <2>1. \/ Ended(r)
        \/ \E w \in RowRec : \E rec : Found(r, w) /\ Resumed(r, w, rec) /\ lock' = lock
        \/ lock' = lock /\ \E rec : On(r, "register", rec)
    BY <1>1, <1>7, LookIs
  <2>2. CASE \E w \in RowRec : \E rec : Found(r, w) /\ Resumed(r, w, rec) /\ lock' = lock
    <3>0. PICK w \in RowRec : \E rec : Found(r, w) /\ Resumed(r, w, rec) /\ lock' = lock
      BY <2>2
    <3>1. PICK rec : Found(r, w) /\ Resumed(r, w, rec) /\ lock' = lock
      BY <3>0
    <3>2. rec.row \in Rows /\ Moves(r, rec)
      BY <3>1 DEF Found, Resumed, Pending
    <3> QED BY <1>1, <1>2, <2>0, <3>1, <3>2 DEF Plain, There
  <2> QED BY <1>1, <1>3, <1>4, <2>0, <2>1, <2>2
<1>8. CASE Send(r)
  <2>1. UNCHANGED <<inv, reg, signed, aeat, lock, perils>> /\ \E pc, rec : On(r, pc, rec)
    BY <1>1, <1>8, SendIs
  <2> QED BY <1>1, <1>4, <2>1
<1>9. CASE Finish(r)
  <2> DEFINE w == req[r].row
  <2>1. UNCHANGED <<signed, aeat>> /\ w \in RowRec /\ w.id \in Stamp /\ w.of \in Invoice
    BY <1>1, <1>9, FinishIs DEF RowRec
  <2>2. \/ Ended(r) /\ UNCHANGED <<inv, reg, perils>>
        \/ /\ There(w.id) /\ Ended(r) /\ perils' = perils
           /\ reg' = [reg EXCEPT ![w.id].st = "ACCEPTED"]
           /\ inv' = [inv EXCEPT ![w.of].st = "SENT"] \/ inv' = [inv EXCEPT ![w.of].ann = TRUE]
        \/ /\ UNCHANGED <<inv, reg, lock>> /\ \E rec : On(r, "undo", rec)
           /\ perils' = perils \/ perils' = perils \cup {"error"}
    BY <1>1, <1>9, FinishIs
  <2>3. CASE /\ There(w.id) /\ Ended(r) /\ perils' = perils
             /\ reg' = [reg EXCEPT ![w.id].st = "ACCEPTED"]
             /\ inv' = [inv EXCEPT ![w.of].st = "SENT"] \/ inv' = [inv EXCEPT ![w.of].ann = TRUE]
    <3>1. inv' \in [Invoice -> InvoiceRec] /\ \A i \in Invoice : inv'[i].num \in {inv[i].num, 0}
      <4>1. \E st : Only(inv', w.of, inv[w.of].num, st, inv[w.of].ed)
        BY <1>1, <2>1, <2>3, SentIs, AnnIs
      <4> QED BY <4>1 DEF Only
    <3>2. /\ reg' \in [Stamp -> RowRec \cup {None}]
          /\ \A s \in Stamp : reg'[s] # None => There(s) /\ Same(reg[s], reg'[s])
      BY <1>1, <1>2, <2>1, <2>3, RegIs DEF There
    <3> QED BY <1>1, <2>1, <2>3, <3>1, <3>2, EndedPlain
  <2>4. CASE /\ UNCHANGED <<inv, reg, lock>> /\ \E rec : On(r, "undo", rec)
             /\ perils' = perils \/ perils' = perils \cup {"error"}
    <3>1. PICK rec : On(r, "undo", rec)
      BY <2>4
    <3> QED BY <1>1, <1>2, <2>1, <2>4, <3>1 DEF Plain, On, There
  <2> QED BY <1>3, <2>1, <2>2, <2>3, <2>4
<1>10. CASE Undo(r)
  <2> DEFINE w == req[r].row
  <2>1. /\ UNCHANGED <<inv, signed, aeat, perils>> /\ w \in RowRec /\ w.id \in Stamp
        /\ reg' = [reg EXCEPT ![w.id] = None]
        /\ Ended(r) \/ (lock' = lock /\ \E rec : On(r, "release", rec))
    BY <1>1, <1>10, UndoIs DEF RowRec
  <2>2. /\ reg' \in [Stamp -> RowRec \cup {None}]
        /\ \A s \in Stamp : reg'[s] # None => There(s) /\ Same(reg[s], reg'[s])
    BY <1>1, <1>2, <2>1 DEF There
  <2>3. \A i \in Invoice : inv'[i].num \in {inv[i].num, 0}
    BY <2>1
  <2>4. Ended(r) => Plain(r, Idle)
    BY <1>1, <2>1, <2>2, <2>3, EndedPlain
  <2>5. \A rec : On(r, "release", rec) /\ lock' = lock => Plain(r, rec)
    BY <1>1, <2>1, <2>2, OnPlain
  <2> QED BY <2>1, <2>4, <2>5
<1>11. CASE Release(r)
  <2>1. /\ UNCHANGED <<reg, signed, aeat, perils>> /\ Ended(r) /\ req[r].of \in Invoice
        /\ inv' = inv \/ inv' = [inv EXCEPT ![req[r].of].num = 0]
    BY <1>1, <1>11, ReleaseIs DEF Aimed
  <2>2. 0 \in Number
    BY ChainAssumption DEF Number
  <2>3. CASE inv' = [inv EXCEPT ![req[r].of].num = 0]
    <3>1. Only(inv', req[r].of, 0, inv[req[r].of].st, inv[req[r].of].ed)
      BY <1>1, <2>1, <2>2, <2>3, NumIs
    <3>2. inv' \in [Invoice -> InvoiceRec] /\ \A i \in Invoice : inv'[i].num \in {inv[i].num, 0}
      BY <3>1 DEF Only
    <3> QED BY <1>1, <1>2, <2>1, <3>2, EndedPlain DEF There
  <2> QED BY <1>3, <2>1, <2>3
<1> QED BY <1>5, <1>6, <1>7, <1>8, <1>9, <1>10, <1>11

LEMMA DirectPlain ==
  ASSUME Ledger, NEW r \in Req, Direct(r)
  PROVE  \E rec : Plain(r, rec)
<1>1. /\ TypeOK /\ Rooted /\ Aimed
      /\ inv \in [Invoice -> InvoiceRec] /\ reg \in [Stamp -> RowRec \cup {None}]
      /\ perils \subseteq Perils /\ lock \in Req \cup {None} /\ {"hasty", "edit", "remove"} \subseteq Perils
  BY DEF Ledger, TypeOK, Perils
<1>2. /\ \A s \in Stamp : Same(reg[s], reg[s])
      /\ \A s \in Stamp : reg[s] # None => There(s)
      /\ 0 \in Number
  BY ChainAssumption DEF Same, There, Number
<1>3. CASE Open(r)
  <2>1. PICK rec : /\ Moves(r, rec) /\ rec.row = None
    BY <1>1, <1>3, OpenIs
  <2> QED BY <1>1, <1>2, <1>3, <2>1, OpenIs DEF Plain
<1>4. req[r].pc = "write" => req[r].of \in Invoice
  BY <1>1 DEF Aimed
<1>5. \A w \in AltaOf(req[r].of) \cap Pending : req[r].of \in Invoice => w.id \in Stamp /\ There(w.id)
  BY <1>1, AltaIs
<1>6. CASE Confirm(r)
  <2>1. /\ UNCHANGED <<signed, aeat, perils>> /\ req[r].of \in Invoice /\ Ended(r)
        /\ \/ UNCHANGED <<inv, reg>>
           \/ \E w \in AltaOf(req[r].of) \cap Pending :
                /\ reg' = [reg EXCEPT ![w.id].st = "ACCEPTED"]
                /\ inv' = [inv EXCEPT ![req[r].of].st = "SENT"]
    BY <1>4, <1>6, ConfirmIs
  <2>2. CASE UNCHANGED <<inv, reg>>
    BY <1>1, <1>2, <2>1, <2>2, EndedPlain
  <2>3. ASSUME NEW w \in AltaOf(req[r].of) \cap Pending, reg' = [reg EXCEPT ![w.id].st = "ACCEPTED"],
               inv' = [inv EXCEPT ![req[r].of].st = "SENT"]
        PROVE  Plain(r, Idle)
    <3>1. inv' \in [Invoice -> InvoiceRec] /\ \A i \in Invoice : inv'[i].num \in {inv[i].num, 0}
      <4>1. Only(inv', req[r].of, inv[req[r].of].num, "SENT", inv[req[r].of].ed)
        BY <1>1, <2>1, <2>3, SentIs
      <4> QED BY <4>1 DEF Only
    <3>2. /\ reg' \in [Stamp -> RowRec \cup {None}]
          /\ \A s \in Stamp : reg'[s] # None => There(s) /\ Same(reg[s], reg'[s])
      BY <1>1, <1>2, <1>5, <2>1, <2>3, RegIs
    <3> QED BY <1>1, <2>1, <3>1, <3>2, EndedPlain
  <2> QED BY <2>1, <2>2, <2>3
<1>7. CASE Cancel(r)
  <2>1. /\ UNCHANGED <<signed, aeat>> /\ req[r].of \in Invoice /\ Ended(r)
        /\ \/ UNCHANGED <<inv, reg, perils>>
           \/ \E w \in AltaOf(req[r].of) \cap Pending :
                /\ reg' = [reg EXCEPT ![w.id] = None]
                /\ inv' = [inv EXCEPT ![req[r].of].num = 0]
                /\ perils' = perils \cup {"hasty"} \/ perils' = perils
    BY <1>4, <1>7, CancelIs
  <2>2. CASE UNCHANGED <<inv, reg, perils>>
    BY <1>1, <1>2, <2>1, <2>2, EndedPlain
  <2>3. ASSUME NEW w \in AltaOf(req[r].of) \cap Pending, reg' = [reg EXCEPT ![w.id] = None],
               inv' = [inv EXCEPT ![req[r].of].num = 0], perils' = perils \cup {"hasty"} \/ perils' = perils
        PROVE  Plain(r, Idle)
    <3>1. inv' \in [Invoice -> InvoiceRec] /\ \A i \in Invoice : inv'[i].num \in {inv[i].num, 0}
      <4>1. Only(inv', req[r].of, 0, inv[req[r].of].st, inv[req[r].of].ed)
        BY <1>1, <1>2, <2>1, <2>3, NumIs
      <4> QED BY <4>1 DEF Only
    <3>2. /\ reg' \in [Stamp -> RowRec \cup {None}]
          /\ \A s \in Stamp : reg'[s] # None => There(s) /\ Same(reg[s], reg'[s])
      BY <1>1, <1>2, <1>5, <2>1, <2>3, RegIs
    <3>3. perils' \subseteq Perils
      BY <1>1, <2>3
    <3> QED BY <1>1, <2>1, <3>1, <3>2, <3>3, EndedPlain
  <2> QED BY <2>1, <2>2, <2>3
<1>8. CASE Edit(r)
  <2>1. /\ UNCHANGED <<reg, signed, aeat>> /\ req[r].of \in Invoice /\ Ended(r)
        /\ inv' = inv \/ (inv[req[r].of].ed < MaxEdits /\ inv' = [inv EXCEPT ![req[r].of].ed = @ + 1])
        /\ perils' = perils \/ perils' = perils \cup {"edit"}
    BY <1>4, <1>8, EditIs
  <2>2. inv' \in [Invoice -> InvoiceRec] /\ \A i \in Invoice : inv'[i].num \in {inv[i].num, 0}
    <3>1. CASE inv[req[r].of].ed < MaxEdits /\ inv' = [inv EXCEPT ![req[r].of].ed = @ + 1]
      <4>1. Only(inv', req[r].of, inv[req[r].of].num, inv[req[r].of].st, inv[req[r].of].ed + 1)
        BY <1>1, <2>1, <3>1, EdIs
      <4> QED BY <4>1 DEF Only
    <3> QED BY <1>1, <2>1, <3>1
  <2>3. perils' \subseteq Perils
    BY <1>1, <2>1
  <2> QED BY <1>1, <1>2, <2>1, <2>2, <2>3, EndedPlain
<1>9. CASE Remove(r)
  <2> DEFINE i == req[r].of
             gone == [st |-> "gone", num |-> 0, ed |-> 0, ann |-> FALSE]
  <2>1. /\ UNCHANGED <<signed, aeat>> /\ i \in Invoice /\ Ended(r)
        /\ inv' = [inv EXCEPT ![i] = gone]
        /\ reg' = [s \in Stamp |-> IF There(s) /\ reg[s].of = i THEN None ELSE reg[s]]
        /\ perils' = perils \/ perils' = perils \cup {"remove"}
    BY <1>4, <1>9, RemoveIs
  <2>2. gone \in InvoiceRec /\ gone.num = 0
    BY <1>2, ChainAssumption DEF InvoiceRec
  <2>3. inv' \in [Invoice -> InvoiceRec] /\ \A j \in Invoice : inv'[j].num \in {inv[j].num, 0}
    <3> HIDE DEF gone
    <3> QED BY <1>1, <2>1, <2>2
  <2>4. /\ reg' \in [Stamp -> RowRec \cup {None}]
        /\ \A s \in Stamp : reg'[s] # None => There(s) /\ Same(reg[s], reg'[s])
    BY <1>1, <1>2, <2>1 DEF There
  <2>5. perils' \subseteq Perils
    BY <1>1, <2>1
  <2> QED BY <1>1, <2>1, <2>3, <2>4, <2>5, EndedPlain
<1> QED BY <1>3, <1>6, <1>7, <1>8, <1>9 DEF Direct

(* A new row has a huella and a number nothing had before. *)
LEMMA SignsKeeps ==
  ASSUME Ledger, NEW r \in Req, NEW w \in RowRec, NEW rec, Signs(r, w, rec)
  PROVE  /\ Ledger'
         /\ req'[r] = rec /\ \A q \in Req \ {r} : req'[q] = req[q]
         /\ w.id \in Stamp /\ ~There(w.id) /\ reg'[w.id] = w /\ \A s \in Stamp \ {w.id} : reg'[s] = reg[s]
         /\ \A i \in Invoice : inv'[i].st = inv[i].st /\ inv'[i].ed = inv[i].ed
         /\ \A i \in Invoice \ {w.of} : inv'[i].num = inv[i].num
         /\ req[r].call = "submit" => inv'[w.of].num = w.num /\ w.num # 0
         /\ inv[w.of].num # 0 => inv'[w.of].num = inv[w.of].num
<1>1. /\ TypeOK /\ Rooted /\ OneRecord /\ Distinct /\ Single /\ Numbered /\ Aimed
      /\ reg \in [Stamp -> RowRec \cup {None}] /\ signed \in 0..MaxStamp /\ MaxStamp \in Nat
      /\ aeat \in Seq(Envelope) /\ Len(aeat) <= MaxStamp
      /\ inv \in [Invoice -> InvoiceRec] /\ perils \subseteq Perils /\ lock \in Req \cup {None}
  BY ChainAssumption DEF Ledger, TypeOK
<1>2. /\ w.id \in Stamp /\ w.id = signed + 1 /\ w.of \in Invoice /\ w.seq = LastSeq + 1 /\ w.num \in Number
      /\ LastSeq \in 0..signed /\ w # None /\ signed' = signed + 1 /\ signed < MaxStamp
  BY <1>1, LastSeqIs, NoneIsNoRow DEF Signs, RowRec
<1>3. ~There(w.id) /\ signed' \in 0..MaxStamp
  BY <1>1, <1>2 DEF Rooted
<1>4. /\ req' \in [Req -> ReqRec] /\ req'[r] = rec /\ \A q \in Req \ {r} : req'[q] = req[q]
      /\ \A q \in Req : req'[q].pc \in CarryPC => req'[q].row # None
      /\ Aimed'
  BY <1>1, MovesTyped DEF Signs
<1>5. reg' \in [Stamp -> RowRec \cup {None}] /\ reg'[w.id] = w /\ \A s \in Stamp \ {w.id} : reg'[s] = reg[s]
  BY <1>1, <1>2 DEF Signs
<1>6. \/ req[r].call = "annul" /\ inv' = inv
      \/ /\ req[r].call = "submit" /\ w.num # 0
         /\ Only(inv', w.of, w.num, inv[w.of].st, inv[w.of].ed)
         /\ w.num = inv[w.of].num \/ (inv[w.of].num = 0 /\ w.num = NextNumber)
  <2>1. Only([inv EXCEPT ![w.of].num = w.num], w.of, w.num, inv[w.of].st, inv[w.of].ed)
    BY <1>1, <1>2, NumIs
  <2> QED BY <2>1 DEF Signs
<1>7. inv' \in [Invoice -> InvoiceRec]
  BY <1>1, <1>6 DEF Only
<1>8. perils' \subseteq Perils /\ aeat' = aeat /\ lock' = lock
  BY <1>1 DEF Signs, Perils
<1>9. TypeOK'
  BY <1>1, <1>3, <1>4, <1>5, <1>7, <1>8 DEF TypeOK, CarryPC
<1>10. Rooted'
  <2> SUFFICES ASSUME NEW s \in Stamp, reg'[s] # None
               PROVE  reg'[s].id = s /\ s <= signed' /\ reg'[s].seq <= signed'
    BY DEF Rooted, There
  <2>1. CASE s = w.id
    BY <1>1, <1>2, <1>5, <2>1
  <2>2. CASE s # w.id
    <3>1. There(s) /\ reg'[s] = reg[s] /\ reg[s] \in RowRec /\ s \in Nat
      BY <1>1, <1>5, <2>2 DEF There, Stamp
    <3>2. reg[s].seq \in Nat
      BY <1>1, <3>1 DEF RowRec, Stamp
    <3> QED BY <1>1, <1>2, <3>1, <3>2 DEF Rooted
  <2> QED BY <2>1, <2>2
<1>11. OneRecord'
  <2>1. Copies' \subseteq Copies \cup {w}
    <3>1. \A v \in Rows' : v \in Copies \cup {w}
      <4> SUFFICES ASSUME NEW s \in Stamp, reg'[s] # None PROVE reg'[s] \in Copies \cup {w}
        BY DEF Rows
      <4> QED BY <1>1, <1>5, CopiesAre DEF There
    <3>2. \A q \in Req : req'[q].row # None => req'[q].row \in Copies \cup {w}
      <4>1. req'[r].row = w
        BY <1>4 DEF Signs
      <4> QED BY <1>1, <1>4, <4>1, CopiesAre
    <3>3. \A k \in DOMAIN aeat : aeat'[k].row \in Copies
      BY <1>1, <1>8, CopiesAre
    <3> QED BY <1>8, <3>1, <3>2, <3>3 DEF Copies
  <2>2. \A v \in Copies : v.id <= signed /\ v.id \in Nat
    BY <1>1, CopiesAre DEF OneRecord, RowRec, Stamp
  <2>3. \A v \in Copies : v.id <= signed' /\ v.id # w.id
    BY <1>1, <1>2, <2>2
  <2>4. w.id <= signed' /\ Same(w, w)
    BY <1>1, <1>2 DEF Same
  <2> QED BY <1>1, <2>1, <2>3, <2>4 DEF OneRecord, Same
<1>12. Distinct'
  BY <1>1, <1>8 DEF Distinct
<1>13. Single'
  <2> SUFFICES ASSUME NEW s \in Stamp, NEW t \in Stamp, reg'[s] # None, reg'[t] # None,
                      reg'[s].kind = reg'[t].kind, reg'[s].of = reg'[t].of
               PROVE  s = t
    BY DEF Single, There
  <2>1. \A u \in Stamp : There(u) => ~(reg[u].kind = w.kind /\ reg[u].of = w.of)
    BY DEF Signs
  <2>2. CASE s # w.id /\ t # w.id
    BY <1>1, <1>5, <2>2 DEF Single, There
  <2>3. CASE s = w.id /\ t # w.id
    BY <1>5, <2>1, <2>3 DEF There
  <2>4. CASE s # w.id /\ t = w.id
    BY <1>5, <2>1, <2>4 DEF There
  <2> QED BY <2>2, <2>3, <2>4
<1>14. Numbered'
  <2>1. CASE inv' = inv
    BY <1>1, <2>1 DEF Numbered
  <2>2. CASE Only(inv', w.of, w.num, inv[w.of].st, inv[w.of].ed) /\ w.num = inv[w.of].num
    BY <1>1, <2>2 DEF Numbered, Only
  <2>3. CASE Only(inv', w.of, w.num, inv[w.of].st, inv[w.of].ed) /\ w.num = NextNumber
    <3>1. \A i \in Invoice : inv[i].num < NextNumber /\ inv[i].num \in Nat
      BY <1>1, <1>2, NextNumberIs DEF InvoiceRec, Number
    <3>2. NextNumber \in Nat
      BY <1>1, <1>2, NextNumberIs
    <3>3. \A i \in Invoice : inv[i].num # NextNumber
      BY <3>1, <3>2
    <3> QED BY <1>1, <2>3, <3>3 DEF Numbered, Only
  <2> QED BY <1>6, <2>1, <2>2, <2>3
<1>15. Ledger'
  BY <1>4, <1>9, <1>10, <1>11, <1>12, <1>13, <1>14 DEF Ledger
<1>16. /\ \A i \in Invoice : inv'[i].st = inv[i].st /\ inv'[i].ed = inv[i].ed
       /\ \A i \in Invoice \ {w.of} : inv'[i].num = inv[i].num
       /\ req[r].call = "submit" => inv'[w.of].num = w.num /\ w.num # 0
       /\ inv[w.of].num # 0 => inv'[w.of].num = inv[w.of].num
  BY <1>2, <1>6 DEF Only
<1> QED BY <1>2, <1>3, <1>4, <1>5, <1>15, <1>16

(* What AEAT takes is a record it had not. *)
Takes(r, rec) ==
  /\ req[r].pc = "sent" /\ Known(req[r].row) = {} /\ On(r, "done", rec) /\ rec.answer \in {"accepted", "lost"}
  /\ UNCHANGED <<inv, reg, signed, lock, perils>>
  /\ aeat' = Append(aeat, [row |-> req[r].row, link |-> req[r].link, ed |-> req[r].ed])

LEMMA TakesKeeps ==
  ASSUME Ledger, NEW r \in Req, NEW rec, Takes(r, rec)
  PROVE  /\ Ledger'
         /\ req'[r] = rec /\ \A q \in Req \ {r} : req'[q] = req[q]
         /\ Len(aeat') = Len(aeat) + 1 /\ \A k \in 1..Len(aeat) : aeat'[k] = aeat[k]
         /\ aeat'[Len(aeat) + 1].row = req[r].row /\ aeat'[Len(aeat) + 1].link = req[r].link
         /\ aeat'[Len(aeat) + 1].ed = req[r].ed
         /\ req[r].row.id \notin Held
<1> DEFINE w == req[r].row
           e == [row |-> w, link |-> req[r].link, ed |-> req[r].ed]
<1>1. /\ TypeOK /\ Rooted /\ OneRecord /\ Distinct /\ Single /\ Numbered /\ Aimed
      /\ aeat \in Seq(Envelope)
  BY DEF Ledger, TypeOK
<1>2. w \in RowRec /\ w # None /\ e \in Envelope /\ e.row = w /\ e.link = req[r].link /\ e.ed = req[r].ed
  BY <1>1, ReqIs, NoneIsNoRow DEF Takes, CarryPC, Envelope
<1> HIDE DEF e
<1>3. Len(aeat) \in Nat /\ DOMAIN aeat = 1..Len(aeat)
  BY <1>1
<1>4. /\ aeat' \in Seq(Envelope) /\ Len(aeat') = Len(aeat) + 1 /\ \A k \in 1..Len(aeat) : aeat'[k] = aeat[k]
      /\ aeat'[Len(aeat) + 1] = e /\ DOMAIN aeat' = 1..(Len(aeat) + 1)
  BY <1>1, <1>2, <1>3 DEF Takes, e
<1>5. w \in Copies /\ \A k \in DOMAIN aeat : aeat[k].row \in Copies
  BY <1>1, <1>2, CopiesAre
<1>6. ASSUME NEW k \in DOMAIN aeat, aeat[k].row.id = w.id PROVE FALSE
  <2>1. Same(aeat[k].row, w)
    BY <1>1, <1>5, <1>6 DEF OneRecord
  <2>2. k \in Known(w)
    BY <2>1 DEF Known, Same
  <2> QED BY <2>2 DEF Takes
<1>7. Distinct'
  <2> SUFFICES ASSUME NEW k \in DOMAIN aeat', NEW l \in DOMAIN aeat', aeat'[k].row.id = aeat'[l].row.id PROVE k = l
    BY DEF Distinct
  <2>1. (k \in DOMAIN aeat \/ k = Len(aeat) + 1) /\ (l \in DOMAIN aeat \/ l = Len(aeat) + 1)
    BY <1>3, <1>4
  <2> QED BY <1>1, <1>2, <1>3, <1>4, <1>6, <2>1 DEF Distinct
<1>8. /\ req' \in [Req -> ReqRec] /\ req'[r] = rec /\ \A q \in Req \ {r} : req'[q] = req[q]
      /\ \A q \in Req : req'[q].pc \in CarryPC => req'[q].row # None
      /\ Aimed'
  BY <1>1, MovesTyped DEF Takes, On
<1>9. Len(aeat') <= MaxStamp
  <2>1. PICK q \in Seq(Envelope) : q = aeat'
    BY <1>4
  <2>2. \A k, l \in DOMAIN q : q[k].row.id = q[l].row.id => k = l
    BY <1>7, <2>1 DEF Distinct
  <2> QED BY <2>1, <2>2, AeatFits
<1>10. TypeOK'
  BY <1>1, <1>4, <1>8, <1>9 DEF TypeOK, Takes, CarryPC
<1>11. OneRecord'
  <2>1. Copies' \subseteq Copies
    <3>1. Rows' = Rows
      BY DEF Rows, Takes
    <3>2. rec.row = w
      BY DEF Takes, On
    <3>3. \A q \in Req : req'[q].row # None => req'[q].row \in Copies
      BY <1>1, <1>5, <1>8, <3>2, CopiesAre
    <3>4. \A k \in DOMAIN aeat' : aeat'[k].row \in Copies
      BY <1>2, <1>3, <1>4, <1>5
    <3> QED BY <3>1, <3>3, <3>4 DEF Copies
  <2> QED BY <1>1, <2>1 DEF OneRecord, Same, Takes
<1>12. Rooted' /\ Single' /\ Numbered'
  BY <1>1 DEF Takes, Rooted, Single, Numbered, There
<1>13. Ledger'
  BY <1>7, <1>8, <1>10, <1>11, <1>12 DEF Ledger
<1> QED BY <1>2, <1>4, <1>6, <1>8, <1>13 DEF Held

LEMMA DecideSplit ==
  ASSUME Ledger, NEW r \in Req, Decide(r)
  PROVE  \/ \E rec : Takes(r, rec)
         \/ /\ UNCHANGED <<inv, reg, signed, aeat, lock, perils>> /\ req[r].pc = "sent" /\ req[r].row \in RowRec
            /\ \E rec : /\ On(r, "done", rec) /\ rec.answer \in {"accepted", "rejected", "lost"}
                        /\ rec.answer = "accepted" => req[r].row.id \in Held
                        /\ rec.answer = "rejected" => (Repeats => req[r].row.id \notin Held)
<1>1. TypeOK /\ Aimed /\ OneRecord
  BY DEF Ledger
<1> DEFINE w == req[r].row
<1>2. w \in RowRec /\ w # None
  BY <1>1, DecideIs, NoneIsNoRow
<1>3. ASSUME w.id \in Held PROVE \E k \in Known(w) : aeat[k].row.id = w.id
  <2>1. PICK k \in DOMAIN aeat : aeat[k].row.id = w.id
    BY <1>3 DEF Held
  <2>2. w \in Copies /\ aeat[k].row \in Copies
    BY <1>1, <1>2, CopiesAre
  <2>3. Same(aeat[k].row, w)
    BY <1>1, <2>1, <2>2 DEF OneRecord
  <2> QED BY <2>1, <2>3 DEF Known, Same
<1>4. CASE /\ Known(w) = {}
           /\ aeat' = Append(aeat, [row |-> w, link |-> req[r].link, ed |-> req[r].ed])
           /\ \E rec : On(r, "done", rec) /\ rec.answer \in {"accepted", "lost"}
  BY <1>1, <1>4, DecideIs DEF Takes
<1>5. CASE /\ aeat' = aeat
           /\ \E rec : /\ On(r, "done", rec) /\ rec.answer \in {"accepted", "rejected", "lost"}
                       /\ rec.answer = "accepted" => w.id \in Held
                       /\ rec.answer = "rejected" =>
                            \/ Known(w) = {}
                            \/ ~(Repeats /\ \E k \in Known(w) : aeat[k].row.id = w.id)
  <2>1. UNCHANGED <<inv, reg, signed, aeat, lock, perils>> /\ req[r].pc = "sent"
    BY <1>1, <1>5, DecideIs
  <2> QED BY <1>2, <1>3, <1>5, <2>1
<1> QED BY <1>1, <1>4, <1>5, DecideIs

-----------------------------------------------------------------------------
LEMMA InitLedger == Init => Ledger
<1> SUFFICES ASSUME Init PROVE Ledger
  OBVIOUS
<1>1. /\ 0 \in 0..MaxStamp /\ 0 \in Number /\ 0 \in 0..MaxEdits
      /\ \A s \in Stamp : ~There(s)
      /\ \A r \in Req : req[r] = Idle
      /\ aeat = <<>> /\ DOMAIN aeat = {} /\ Len(aeat) = 0
  BY ChainAssumption DEF Init, There, Number
<1>2. TypeOK
  <2>1. inv \in [Invoice -> InvoiceRec]
    BY <1>1 DEF Init, InvoiceRec
  <2> QED BY <1>1, <2>1, IdleIs, ChainAssumption DEF Init, TypeOK, CarryPC
<1>3. Copies = {}
  BY <1>1, IdleIs DEF Copies, Rows, There
<1> QED BY <1>1, <1>2, <1>3, IdleIs DEF Ledger, Rooted, OneRecord, Distinct, Single, Numbered, Aimed, Init

LEMMA CrashKeeps ==
  ASSUME Ledger, Crash
  PROVE  Ledger' /\ \A q \in Req : req'[q] = Idle
<1>1. /\ TypeOK /\ UNCHANGED <<inv, reg, signed, aeat, perils>> /\ lock' = None
      /\ req' = [q \in Req |-> Idle] /\ \A q \in Req : req'[q] = Idle
  BY DEF Ledger, Crash
<1>2. TypeOK' /\ Aimed'
  BY <1>1, IdleIs DEF TypeOK, Aimed, CarryPC
<1>3. /\ \A s \in Stamp : reg'[s] # None => There(s) /\ Same(reg[s], reg'[s])
      /\ \A q \in Req : req'[q].row = None
      /\ \A i \in Invoice : inv'[i].num = inv[i].num
  BY <1>1, IdleIs DEF There, Same
<1> QED BY <1>1, <1>2, <1>3, LedgerKept

LEMMA ExpiresKeeps ==
  ASSUME Ledger, NEW r \in Req, LockExpires(r)
  PROVE  Ledger'
<1>1. /\ TypeOK /\ Aimed /\ UNCHANGED <<inv, reg, signed, aeat, req>> /\ lock' = None
      /\ perils' = perils \cup {"slow"} /\ {"slow"} \subseteq Perils
  BY ExpiresIs DEF Ledger, Perils
<1>2. TypeOK' /\ Aimed'
  BY <1>1 DEF TypeOK, Aimed
<1>3. /\ \A s \in Stamp : reg'[s] # None => There(s) /\ Same(reg[s], reg'[s])
      /\ \A q \in Req : req'[q].row = req[q].row
      /\ \A i \in Invoice : inv'[i].num = inv[i].num
  BY <1>1 DEF There, Same
<1> QED BY <1>1, <1>2, <1>3, LedgerKept

LEMMA StepLedger == Ledger /\ [Next]_vars => Ledger'
<1> SUFFICES ASSUME Ledger, [Next]_vars PROVE Ledger'
  OBVIOUS
<1>1. CASE UNCHANGED vars
  <2>1. /\ TypeOK' /\ Aimed' /\ UNCHANGED <<signed, aeat, reg, req, inv>>
    BY <1>1 DEF vars, Ledger, TypeOK, Aimed
  <2>2. /\ \A s \in Stamp : reg'[s] # None => There(s) /\ Same(reg[s], reg'[s])
        /\ \A q \in Req : req'[q].row = req[q].row
        /\ \A i \in Invoice : inv'[i].num = inv[i].num
    BY <2>1 DEF There, Same
  <2> QED BY <2>1, <2>2, LedgerKept
<1>2. CASE Crash
  BY <1>2, CrashKeeps
<1>3. ASSUME NEW r \in Req, Submission(r) PROVE Ledger'
  <2>1. CASE \/ Start(r) \/ Lock(r) \/ LookSubmit(r) \/ LookAnnul(r) \/ Send(r) \/ Finish(r) \/ Undo(r) \/ Release(r)
    BY <2>1, SubmissionPlain, PlainKeeps
  <2>2. CASE RegisterSubmit(r) \/ RegisterAnnul(r)
    <3>1. TypeOK /\ Rooted /\ Aimed
      BY DEF Ledger
    <3>2. CASE Ended(r) /\ UNCHANGED <<inv, reg, signed, aeat, perils>>
      <4>1. Plain(r, Idle)
        BY <3>1, <3>2, EndedPlain DEF TypeOK, There, Same
      <4> QED BY <4>1, PlainKeeps
    <3>3. CASE \E w \in RowRec : \E rec : Signs(r, w, rec)
      BY <3>3, SignsKeeps
    <3> QED BY <2>2, <3>1, <3>2, <3>3, RegisterIs
  <2>3. CASE Decide(r)
    <3>1. CASE \E rec : Takes(r, rec)
      BY <3>1, TakesKeeps
    <3>2. CASE UNCHANGED <<inv, reg, signed, aeat, lock, perils>> /\ \E rec : On(r, "done", rec)
      <4>1. PICK rec : On(r, "done", rec)
        BY <3>2
      <4>2. Plain(r, rec)
        BY <3>2, <4>1 DEF Plain, On, Ledger, TypeOK, There, Same
      <4> QED BY <4>2, PlainKeeps
    <3> QED BY <2>3, <3>1, <3>2, DecideSplit
  <2>4. CASE LockExpires(r)
    BY <2>4, ExpiresKeeps
  <2> QED BY <1>3, <2>1, <2>2, <2>3, <2>4 DEF Submission
<1>4. ASSUME NEW r \in Req, Direct(r) PROVE Ledger'
  BY <1>4, DirectPlain, PlainKeeps
<1> QED BY <1>1, <1>2, <1>3, <1>4 DEF Next

LEMMA LedgerHolds == Spec => []Ledger
BY InitLedger, StepLedger, PTL DEF Spec

(* Every request keeps the types, whatever fails: the rows it works on are *)
(* rows, and AEAT never holds more records than huellas were signed.       *)
THEOREM ChainTyped == Spec => []TypeOK
<1>1. Ledger => TypeOK
  BY DEF Ledger
<1> QED BY <1>1, LedgerHolds, PTL

-----------------------------------------------------------------------------
(* Outside the perils.  The rows are numbered without a gap: those AEAT    *)
(* holds in its order, then at most one, PENDING, that it may not hold     *)
(* yet.                                                                    *)
Order ==
  /\ \A k \in DOMAIN aeat : There(aeat[k].row.id) /\ reg[aeat[k].row.id].seq = k
  /\ \A s \in Stamp : There(s) =>
       /\ reg[s].seq \in 1..(Len(aeat) + 1)
       /\ reg[s].seq <= Len(aeat) => aeat[reg[s].seq].row.id = s
       /\ reg[s].seq = Len(aeat) + 1 => reg[s].st = "PENDING"
       /\ reg[s].prev = IF reg[s].seq = 1 THEN 0 ELSE aeat[reg[s].seq - 1].row.id
  /\ \A s, t \in Stamp : There(s) /\ There(t) /\ reg[s].seq = reg[t].seq => s = t
  /\ \A s, t \in Stamp : There(s) /\ There(t) /\ reg[s].st = "PENDING" => reg[t].seq <= reg[s].seq

(* The invoice of a row has its number, and what is annulled was accepted. *)
Books ==
  /\ \A s \in Stamp : There(s) /\ reg[s].kind = "ALTA" =>
       inv[reg[s].of].num = reg[s].num /\ reg[s].num # 0 /\ inv[reg[s].of].st # "gone"
  /\ \A s \in Stamp : There(s) /\ reg[s].kind = "ANULACION" => inv[reg[s].of].st = "SENT"
  /\ \A i \in Invoice : inv[i].st = "SENT" =>
       \E s \in Stamp : There(s) /\ reg[s].kind = "ALTA" /\ reg[s].of = i /\ reg[s].st = "ACCEPTED"

(* The content of a row is the invoice's, and what AEAT got is the row's. *)
Edits  == perils = {} => \A s \in Stamp : There(s) => reg[s].ed = inv[reg[s].of].ed
Honest == perils = {} => \A k \in DOMAIN aeat : aeat[k].ed = aeat[k].row.ed

Carrying == {"send", "sent", "done", "undo"}
Working  == {"look", "register", "release"} \cup Carrying

(* A request at work holds the lock, and the row it carries is the last.   *)
Carries(r) ==
  LET w == req[r].row IN
  /\ There(w.id) /\ w.st = "PENDING" /\ w.of = req[r].of
  /\ w.kind = IF req[r].call = "submit" THEN "ALTA" ELSE "ANULACION"
  /\ \A t \in Stamp : There(t) => reg[t].seq <= w.seq
  /\ req[r].pc = "sent" => req[r].link = w.prev
  /\ req[r].pc = "done" /\ req[r].answer = "accepted" => w.id \in Held
  /\ req[r].pc = "done" /\ req[r].answer = "rejected" => w.id \notin Held
  /\ req[r].pc = "undo" => w.id \notin Held
  /\ perils = {} /\ req[r].pc \in {"send", "sent"} => req[r].ed = w.ed

Works(r) ==
  /\ req[r].pc \in Working => lock = r
  /\ req[r].pc \in Working \cup {"lock"} => req[r].call \in {"submit", "annul"}
  /\ req[r].fresh => req[r].call = "submit"
  /\ req[r].call = "annul" => req[r].pc # "idle" /\ inv[req[r].of].st = "SENT"
  /\ req[r].pc = "register" => \A w \in Pending : req[r].call = "submit" /\ w.kind = "ANULACION"
  /\ req[r].pc \in Carrying => Carries(r)
  /\ req[r].pc = "release" => AltaOf(req[r].of) = {} /\ req[r].call = "submit"
  /\ req[r].pc = "write" /\ req[r].call = "confirm" =>
       \E s \in Stamp : There(s) /\ reg[s].kind = "ALTA" /\ reg[s].of = req[r].of /\ s \in Held

Whole == Order /\ Books /\ ChainIntact /\ Edits /\ Honest /\ \A r \in Req : Works(r)

CalmInv == Ledger /\ (Calm => Whole)

LEMMA HeldIs ==
  ASSUME Ledger, Order
  PROVE  /\ \A s \in Held : s \in Stamp /\ There(s) /\ reg[s].seq <= Len(aeat)
         /\ \A s \in Stamp : There(s) /\ reg[s].seq <= Len(aeat) => s \in Held
         /\ \A s \in Stamp : There(s) /\ reg[s].st = "ACCEPTED" => s \in Held
<1>1. aeat \in Seq(Envelope) /\ DOMAIN aeat = 1..Len(aeat) /\ Len(aeat) \in Nat
  BY DEF Ledger, TypeOK
<1>2. \A k \in DOMAIN aeat : aeat[k].row.id \in Stamp
  BY <1>1, AeatIs
<1>3. \A s \in Held : s \in Stamp /\ There(s) /\ reg[s].seq <= Len(aeat)
  BY <1>1, <1>2 DEF Held, Order
<1>4. ASSUME NEW s \in Stamp, There(s), reg[s].seq <= Len(aeat) PROVE s \in Held
  <2>1. reg[s].seq \in DOMAIN aeat /\ aeat[reg[s].seq].row.id = s
    BY <1>1, <1>4 DEF Order
  <2> QED BY <2>1 DEF Held
<1>5. ASSUME NEW s \in Stamp, There(s), reg[s].st = "ACCEPTED" PROVE s \in Held
  <2>1. reg[s].seq <= Len(aeat)
    BY <1>1, <1>5 DEF Order
  <2> QED BY <1>4, <1>5, <2>1
<1> QED BY <1>3, <1>4, <1>5

(* A step without a peril: the rows of the records AEAT holds stay, a row  *)
(* is ACCEPTED only if AEAT holds its record, and a sent invoice stays so. *)
Calmly ==
  /\ aeat' = aeat /\ perils \subseteq perils'
  /\ \A s \in Stamp : reg'[s] # None =>
       /\ There(s) /\ Same(reg[s], reg'[s])
       /\ reg'[s].st = reg[s].st \/ (reg'[s].st = "ACCEPTED" /\ s \in Held)
  /\ \A s \in Held : reg'[s] # None
  /\ \A i \in Invoice : inv[i].st = "SENT" => inv'[i].st = "SENT"
  /\ \A i \in Invoice : inv'[i].st = "SENT" =>
       \/ inv[i].st = "SENT"
       \/ \E s \in Stamp : reg'[s] # None /\ reg[s].kind = "ALTA" /\ reg[s].of = i /\ reg'[s].st = "ACCEPTED"
  /\ \A s \in Stamp : reg'[s] # None /\ reg[s].kind = "ALTA" =>
       inv'[reg[s].of].num = inv[reg[s].of].num /\ inv'[reg[s].of].st # "gone"
  /\ perils' = {} => \A s \in Stamp : reg'[s] # None => inv'[reg[s].of].ed = inv[reg[s].of].ed

LEMMA CalmlyKeeps ==
  ASSUME Ledger, Order, Books, ChainIntact, Edits, Honest, Calmly
  PROVE  Order' /\ Books' /\ ChainIntact' /\ Edits' /\ Honest'
<1>1. \A s \in Stamp : There(s) => reg[s] \in RowRec
  BY DEF Ledger, TypeOK, There
<1>2. Order'
  <2>1. \A k \in DOMAIN aeat : reg'[aeat[k].row.id] # None /\ reg'[aeat[k].row.id].seq = k
    <3> SUFFICES ASSUME NEW k \in DOMAIN aeat PROVE reg'[aeat[k].row.id] # None /\ reg'[aeat[k].row.id].seq = k
      OBVIOUS
    <3>1. aeat[k].row.id \in Held /\ aeat[k].row.id \in Stamp
      BY HeldIs DEF Held
    <3>2. reg[aeat[k].row.id].seq = k
      BY DEF Order
    <3> QED BY <3>1, <3>2 DEF Calmly, Same
  <2>2. ASSUME NEW s \in Stamp, reg'[s] # None
        PROVE  /\ reg'[s].seq \in 1..(Len(aeat) + 1)
               /\ reg'[s].seq <= Len(aeat) => aeat[reg'[s].seq].row.id = s
               /\ reg'[s].seq = Len(aeat) + 1 => reg'[s].st = "PENDING"
               /\ reg'[s].prev = IF reg'[s].seq = 1 THEN 0 ELSE aeat[reg'[s].seq - 1].row.id
    <3>1. There(s) /\ reg'[s].seq = reg[s].seq /\ reg'[s].prev = reg[s].prev
          /\ (reg'[s].st = reg[s].st \/ (reg'[s].st = "ACCEPTED" /\ s \in Held))
      BY <2>2 DEF Calmly, Same
    <3>2. s \in Held => reg[s].seq <= Len(aeat)
      BY HeldIs
    <3>3. Len(aeat) \in Nat
      BY DEF Ledger, TypeOK
    <3> QED BY <3>1, <3>2, <3>3 DEF Order
  <2>3. \A s, t \in Stamp : reg'[s] # None /\ reg'[t] # None /\ reg'[s].seq = reg'[t].seq => s = t
    BY DEF Calmly, Same, Order
  <2>4. ASSUME NEW s \in Stamp, NEW t \in Stamp, reg'[s] # None, reg'[t] # None, reg'[s].st = "PENDING"
        PROVE  reg'[t].seq <= reg'[s].seq
    <3>1. There(s) /\ There(t) /\ reg[s].st = "PENDING" /\ reg'[s].seq = reg[s].seq /\ reg'[t].seq = reg[t].seq
      BY <2>4 DEF Calmly, Same
    <3> QED BY <3>1 DEF Order
  <2> QED BY <2>1, <2>2, <2>3, <2>4 DEF Order, There, Calmly
<1>3. Books'
  <2>1. ASSUME NEW s \in Stamp, reg'[s] # None, reg'[s].kind = "ALTA"
        PROVE  inv'[reg'[s].of].num = reg'[s].num /\ reg'[s].num # 0 /\ inv'[reg'[s].of].st # "gone"
    BY <2>1 DEF Calmly, Same, Books
  <2>2. ASSUME NEW s \in Stamp, reg'[s] # None, reg'[s].kind = "ANULACION" PROVE inv'[reg'[s].of].st = "SENT"
    <3>1. There(s) /\ reg[s].kind = "ANULACION" /\ reg'[s].of = reg[s].of /\ reg[s].of \in Invoice
      BY <1>1, <2>2 DEF Calmly, Same, RowRec
    <3> QED BY <3>1 DEF Books, Calmly
  <2>3. ASSUME NEW i \in Invoice, inv'[i].st = "SENT"
        PROVE  \E s \in Stamp : reg'[s] # None /\ reg'[s].kind = "ALTA" /\ reg'[s].of = i /\ reg'[s].st = "ACCEPTED"
    <3>1. CASE inv[i].st = "SENT"
      <4>1. PICK s \in Stamp : There(s) /\ reg[s].kind = "ALTA" /\ reg[s].of = i /\ reg[s].st = "ACCEPTED"
        BY <3>1 DEF Books
      <4>2. s \in Held
        BY <4>1, HeldIs
      <4>3. reg'[s] # None /\ Same(reg[s], reg'[s]) /\ reg'[s].st = "ACCEPTED"
        BY <4>1, <4>2 DEF Calmly
      <4> QED BY <4>1, <4>3 DEF Same
    <3>2. CASE inv[i].st # "SENT"
      <4>1. PICK s \in Stamp : reg'[s] # None /\ reg[s].kind = "ALTA" /\ reg[s].of = i /\ reg'[s].st = "ACCEPTED"
        BY <2>3, <3>2 DEF Calmly
      <4>2. Same(reg[s], reg'[s])
        BY <4>1 DEF Calmly
      <4> QED BY <4>1, <4>2 DEF Same
    <3> QED BY <3>1, <3>2
  <2> QED BY <2>1, <2>2, <2>3 DEF Books, There
<1>4. perils' = {} => perils = {}
  BY DEF Calmly
<1>5. ChainIntact' /\ Honest'
  BY <1>4 DEF ChainIntact, Honest, Calmly
<1>6. Edits'
  <2> SUFFICES ASSUME perils' = {}, NEW s \in Stamp, reg'[s] # None PROVE reg'[s].ed = inv'[reg'[s].of].ed
    BY DEF Edits, There
  <2>1. There(s) /\ Same(reg[s], reg'[s]) /\ inv'[reg[s].of].ed = inv[reg[s].of].ed
    BY DEF Calmly
  <2> QED BY <1>4, <2>1 DEF Edits, Same
<1> QED BY <1>2, <1>3, <1>5, <1>6

(* A request that does not take part is left as it was. *)
LEMMA WorksStays ==
  ASSUME Ledger, Order, Calmly, NEW q \in Req, Works(q), req'[q] = req[q],
         req[q].pc \in Working => lock' = lock,
         req[q].pc \in Carrying => reg'[req[q].row.id] # None
  PROVE  Works(q)'
<1> DEFINE w == req[q].row
<1>1. /\ TypeOK /\ \A s \in Stamp : There(s) => reg[s] \in RowRec
      /\ \A s \in Stamp : There(s) => reg[s] \in Rows
  BY DEF Ledger, TypeOK, There, Rows
<1>2. Held' = Held
  BY DEF Calmly, Held
<1>3. \A v \in Rows' : \E u \in Rows : Same(u, v) /\ (v.st = "PENDING" => u.st = "PENDING")
  <2> SUFFICES ASSUME NEW s \in Stamp, reg'[s] # None
               PROVE  \E u \in Rows : Same(u, reg'[s]) /\ (reg'[s].st = "PENDING" => u.st = "PENDING")
    BY DEF Rows
  <2>1. reg[s] \in Rows /\ Same(reg[s], reg'[s]) /\ (reg'[s].st = "PENDING" => reg[s].st = "PENDING")
    BY <1>1 DEF Calmly
  <2> QED BY <2>1
<1>4. req[q].call = "annul" => inv'[req[q].of].st = "SENT"
  <2> SUFFICES ASSUME req[q].call = "annul" PROVE inv'[req[q].of].st = "SENT"
    OBVIOUS
  <2>1. inv[req[q].of].st = "SENT" /\ req[q].of \in Invoice
    BY DEF Works, Ledger, Aimed
  <2> QED BY <2>1 DEF Calmly
<1>5. ASSUME req[q].pc = "register", NEW v \in Pending' PROVE req[q].call = "submit" /\ v.kind = "ANULACION"
  <2>1. v \in Rows' /\ v.st = "PENDING"
    BY <1>5 DEF Pending
  <2>2. PICK u \in Rows : Same(u, v) /\ u.st = "PENDING"
    BY <1>3, <2>1
  <2>3. u \in Pending
    BY <2>2 DEF Pending
  <2> QED BY <1>5, <2>2, <2>3 DEF Works, Same
<1>6. ASSUME req[q].pc = "release" PROVE AltaOf(req[q].of)' = {}
  <2>1. AltaOf(req[q].of) = {}
    BY <1>6 DEF Works
  <2>2. ASSUME NEW v \in Rows', v.kind = "ALTA", v.of = req[q].of PROVE FALSE
    <3>1. PICK u \in Rows : Same(u, v)
      BY <1>3
    <3> QED BY <2>1, <2>2, <3>1 DEF AltaOf, Same
  <2> QED BY <2>2 DEF AltaOf
<1>7. ASSUME req[q].pc \in Carrying PROVE Carries(q)'
  <2>1. Carries(q)
    BY <1>7 DEF Works
  <2>2. \A t \in Stamp : reg'[t] # None => reg'[t].seq <= w.seq
    BY <2>1 DEF Carries, Calmly, Same
  <2>3. perils' = {} => perils = {}
    BY DEF Calmly
  <2> QED BY <1>2, <1>7, <2>1, <2>2, <2>3 DEF Carries, There
<1>8. ASSUME req[q].pc = "write", req[q].call = "confirm"
      PROVE  \E s \in Stamp : reg'[s] # None /\ reg'[s].kind = "ALTA" /\ reg'[s].of = req[q].of /\ s \in Held
  <2>1. PICK s \in Stamp : There(s) /\ reg[s].kind = "ALTA" /\ reg[s].of = req[q].of /\ s \in Held
    BY <1>8 DEF Works
  <2>2. reg'[s] # None /\ Same(reg[s], reg'[s])
    BY <2>1 DEF Calmly
  <2> QED BY <2>1, <2>2 DEF Same
<1>9. req[q].pc \in Working => lock' = q
  BY DEF Works
<1>10. /\ req[q].pc \in Working \cup {"lock"} => req[q].call \in {"submit", "annul"}
       /\ req[q].fresh => req[q].call = "submit"
       /\ req[q].call = "annul" => req[q].pc # "idle"
       /\ req[q].pc = "release" => req[q].call = "submit"
  BY DEF Works
<1> QED BY <1>2, <1>4, <1>5, <1>6, <1>7, <1>8, <1>9, <1>10 DEF Works, There

LEMMA WorksIdle ==
  ASSUME NEW q \in Req, req'[q] = Idle
  PROVE  Works(q)'
<1>1. Idle.pc = "idle" /\ Idle.call = None /\ Idle.fresh = FALSE /\ None # "annul"
  BY IdleIs, NoneIsNoRow DEF AllCalls
<1> QED BY <1>1 DEF Works, Working, Carrying

LEMMA Alone ==
  ASSUME Whole, NEW r \in Req, req[r].pc \in Working \/ lock = None
  PROVE  \A q \in Req \ {r} : req[q].pc \notin Working
  BY NoneIsNoRow DEF Whole, Works

LEMMA CalmStep ==
  ASSUME Ledger, Whole, Calmly, NEW r \in Req, NEW rec, Moves(r, rec), Works(r)',
         \A q \in Req \ {r} : req[q].pc \in Working => lock' = lock,
         \A q \in Req \ {r} : req[q].pc \in Carrying => reg'[req[q].row.id] # None
  PROVE  Whole'
<1>1. \A q \in Req \ {r} : req'[q] = req[q]
  BY MovesTyped DEF Ledger
<1>2. \A q \in Req \ {r} : Works(q)'
  BY <1>1, WorksStays DEF Whole
<1>3. Order' /\ Books' /\ ChainIntact' /\ Edits' /\ Honest'
  BY CalmlyKeeps DEF Whole
<1> QED BY <1>2, <1>3 DEF Whole

LEMMA CalmlyIdle ==
  ASSUME Ledger, Order, Books, UNCHANGED <<inv, reg, aeat, perils>>
  PROVE  Calmly
<1>1. \A s \in Held : There(s)
  BY HeldIs
<1>2. \A s \in Stamp : There(s) => Same(reg[s], reg[s])
  BY DEF Same
<1>3. \A s \in Stamp : There(s) /\ reg[s].kind = "ALTA" => inv[reg[s].of].st # "gone"
  BY DEF Books
<1> QED BY <1>1, <1>2, <1>3 DEF Calmly, There

(* A request that works is alone, so that only it can lose a row. *)
LEMMA CalmOn ==
  ASSUME Ledger, Whole, Calmly, NEW r \in Req, req[r].pc \in Working, NEW rec, Moves(r, rec), Works(r)'
  PROVE  Whole'
<1>1. \A q \in Req \ {r} : req[q].pc \notin Working /\ req[q].pc \notin Carrying
  BY Alone DEF Working
<1> QED BY <1>1, CalmStep

LEMMA CalmEnd ==
  ASSUME Ledger, Whole, Calmly, NEW r \in Req, Ended(r),
         \A q \in Req \ {r} : req[q].pc \in Carrying => reg'[req[q].row.id] # None
  PROVE  Whole'
<1>1. req'[r] = Idle
  BY MovesTyped DEF Ended, Ledger
<1>2. Works(r)'
  BY <1>1, WorksIdle
<1>3. \A q \in Req \ {r} : req[q].pc \in Working => lock' = lock
  BY DEF Whole, Works, Ended
<1> QED BY <1>2, <1>3, CalmStep DEF Ended

LEMMA CalmEndIdle ==
  ASSUME Ledger, Whole, NEW r \in Req, Ended(r), UNCHANGED <<inv, reg, aeat, perils>>
  PROVE  Whole'
<1>1. Calmly
  BY CalmlyIdle DEF Whole
<1>2. \A q \in Req : req[q].pc \in Carrying => reg'[req[q].row.id] # None
  BY DEF Whole, Works, Carries, There
<1> QED BY <1>1, <1>2, CalmEnd

LEMMA CalmStart ==
  ASSUME Ledger, Whole, NEW r \in Req, Start(r)
  PROVE  Whole'
<1>1. TypeOK /\ Aimed /\ Order /\ Books
  BY DEF Ledger, Whole
<1>2. UNCHANGED <<inv, reg, signed, aeat, lock, perils>> /\ req[r].pc = "idle"
  BY <1>1, StartIs
<1>3. PICK rec : /\ Moves(r, rec) /\ rec.pc = "lock" /\ rec.of \in Invoice
                 /\ rec.call \in {"submit", "annul"} /\ rec.fresh = FALSE
                 /\ rec.call = "annul" => inv[rec.of].st = "SENT"
  BY <1>1, StartIs
<1>4. Calmly
  BY <1>1, <1>2, CalmlyIdle
<1>5. req'[r] = rec
  BY <1>1, <1>3, MovesTyped
<1>6. Works(r)'
  BY <1>2, <1>3, <1>5 DEF Works, Working, Carrying
<1>7. \A q \in Req : req[q].pc \in Carrying => reg'[req[q].row.id] # None
  BY <1>2 DEF Whole, Works, Carries, There
<1> QED BY <1>2, <1>3, <1>4, <1>6, <1>7, CalmStep

LEMMA CalmLock ==
  ASSUME Ledger, Whole, NEW r \in Req, Lock(r)
  PROVE  Whole'
<1>1. TypeOK /\ Aimed /\ Order /\ Books /\ Works(r)
  BY DEF Ledger, Whole
<1>2. UNCHANGED <<inv, reg, signed, aeat, perils>> /\ req[r].pc = "lock" /\ lock = None /\ lock' = r
  BY <1>1, LockIs
<1>3. PICK rec : On(r, "look", rec)
  BY <1>1, LockIs
<1>4. Calmly
  BY <1>1, <1>2, CalmlyIdle
<1>5. req'[r] = rec /\ Moves(r, rec)
  BY <1>1, <1>3, MovesTyped DEF On
<1>6. Works(r)'
  BY <1>1, <1>2, <1>3, <1>5 DEF Works, Working, Carrying, On
<1>7. \A q \in Req \ {r} : req[q].pc \notin Working /\ req[q].pc \notin Carrying
  BY <1>2, Alone DEF Working
<1> QED BY <1>4, <1>5, <1>6, <1>7, CalmStep

(* A retry takes up the last row, and the content that was signed. *)
LEMMA CalmLook ==
  ASSUME Ledger, Whole, NEW r \in Req, LookSubmit(r) \/ LookAnnul(r)
  PROVE  Whole'
<1>1. TypeOK /\ Rooted /\ Aimed /\ Order /\ Books /\ Edits /\ Works(r)
  BY DEF Ledger, Whole
<1>2. UNCHANGED <<inv, reg, signed, aeat, perils>> /\ req[r].pc = "look" /\ req[r].pc \in Working
  BY <1>1, LookIs DEF Working
<1>3. Calmly
  BY <1>1, <1>2, CalmlyIdle
<1>4. CASE Ended(r)
  BY <1>2, <1>4, CalmEndIdle
<1>5. ASSUME NEW w \in RowRec, NEW rec, Found(r, w), Resumed(r, w, rec), lock' = lock PROVE Whole'
  <2>1. req'[r] = rec /\ Moves(r, rec)
    BY <1>1, <1>5, MovesTyped DEF Resumed
  <2>2. /\ rec.pc = "send" /\ rec.call = req[r].call /\ rec.of = req[r].of /\ rec.row = w
        /\ rec.fresh = req[r].fresh /\ rec.ed = inv[w.of].ed
    BY <1>5 DEF Resumed
  <2>3. w \in Rows /\ w.st = "PENDING" /\ w.id \in Stamp /\ There(w.id) /\ reg[w.id] = w
    BY <1>1, <1>5, RowsAre, PendingIs DEF Found
  <2>4. /\ \A t \in Stamp : There(t) => reg[t].seq <= w.seq
        /\ perils = {} => inv[w.of].ed = w.ed
    BY <1>1, <2>3 DEF Order, Edits
  <2>5. w.of = req[r].of /\ w.kind = IF req[r].call = "submit" THEN "ALTA" ELSE "ANULACION"
    BY <1>5 DEF Found
  <2>6. Carries(r)'
    BY <1>2, <2>1, <2>2, <2>3, <2>4, <2>5 DEF Carries, There
  <2>7. Works(r)'
    BY <1>1, <1>2, <1>5, <2>1, <2>2, <2>6 DEF Works, Working, Carrying
  <2> QED BY <1>2, <1>3, <2>1, <2>7, CalmOn
<1>6. ASSUME NEW rec, On(r, "register", rec), lock' = lock, \A w \in Pending : req[r].call = "submit" /\ w.kind = "ANULACION"
      PROVE  Whole'
  <2>1. req'[r] = rec /\ Moves(r, rec)
    BY <1>1, <1>6, MovesTyped DEF On
  <2>2. Pending' = Pending
    BY <1>2 DEF Pending, Rows
  <2>3. Works(r)'
    BY <1>1, <1>2, <1>6, <2>1, <2>2 DEF Works, Working, Carrying, On
  <2> QED BY <1>2, <1>3, <2>1, <2>3, CalmOn
<1> QED BY <1>1, <1>4, <1>5, <1>6, LookIs

(* What is sent names the record before; a row that has none is the first. *)
LEMMA CalmSend ==
  ASSUME Ledger, Whole, NEW r \in Req, Send(r)
  PROVE  Whole'
<1> DEFINE w == req[r].row
<1>1. TypeOK /\ Rooted /\ Aimed /\ Order /\ Books /\ Works(r)
  BY DEF Ledger, Whole
<1>2. /\ UNCHANGED <<inv, reg, signed, aeat, lock, perils>> /\ req[r].pc = "send" /\ w \in RowRec
      /\ req[r].pc \in Working /\ req[r].pc \in Carrying
  BY <1>1, SendIs DEF Working, Carrying
<1>3. Calmly
  BY <1>1, <1>2, CalmlyIdle
<1>4. Carries(r)
  BY <1>1, <1>2 DEF Works
<1>5. /\ w.id \in Stamp /\ There(w.id) /\ Same(reg[w.id], w) /\ reg[w.id] \in RowRec
      /\ w.seq \in Nat /\ w.seq \in 1..(Len(aeat) + 1) /\ Len(aeat) \in Nat /\ DOMAIN aeat = 1..Len(aeat)
  <2>1. w.id \in Stamp /\ There(w.id) /\ w \in Copies /\ reg[w.id] \in Copies /\ reg[w.id].id = w.id
    BY <1>1, <1>2, <1>4, CopiesAre, NoneIsNoRow DEF Carries, RowRec, Rooted
  <2>2. Same(reg[w.id], w) /\ reg[w.id] \in RowRec
    BY <2>1, CopiesAre DEF Ledger, OneRecord
  <2>3. w.seq \in 1..(Len(aeat) + 1)
    BY <1>1, <2>1, <2>2 DEF Order, Same
  <2>4. aeat \in Seq(Envelope)
    BY <1>1 DEF TypeOK
  <2> QED BY <2>1, <2>2, <2>3, <2>4
<1>6. w.prev = IF w.seq = 1 THEN 0 ELSE aeat[w.seq - 1].row.id
  BY <1>1, <1>5 DEF Order, Same
<1>7. ASSUME NEW rec, On(r, "sent", rec), rec.ed = req[r].ed, rec.link = w.prev PROVE Whole'
  <2>1. req'[r] = rec /\ Moves(r, rec)
    BY <1>1, <1>7, MovesTyped DEF On
  <2>2. Carries(r)'
    BY <1>2, <1>4, <1>7, <2>1 DEF Carries, There, On
  <2>3. Works(r)'
    BY <1>1, <1>2, <1>7, <2>1, <2>2 DEF Works, Working, Carrying, On
  <2> QED BY <1>2, <1>3, <2>1, <2>3, CalmOn
<1>8. ASSUME NEW v \in Rows, v.seq + 1 = w.seq PROVE v.id = w.prev
  <2>1. v \in RowRec /\ v.id \in Stamp /\ There(v.id) /\ reg[v.id] = v
    BY <1>1, RowsAre
  <2>2. v.seq \in 1..(Len(aeat) + 1) /\ (v.seq <= Len(aeat) => aeat[v.seq].row.id = v.id)
    BY <1>1, <2>1 DEF Order
  <2>3. w.seq # 1 /\ v.seq = w.seq - 1 /\ v.seq <= Len(aeat)
    BY <1>5, <1>8, <2>2
  <2> QED BY <1>6, <2>2, <2>3
<1>9. ASSUME ~(w.seq = 1 /\ w.kind = "ALTA"), \A v \in Rows : v.seq + 1 = w.seq => inv[v.of].num = 0 PROVE FALSE
  <2>1. \A i \in Invoice : inv[i].st = "SENT" =>
          \E s \in Stamp : There(s) /\ reg[s].kind = "ALTA" /\ reg[s].of = i /\ reg[s].num # 0 /\ inv[i].num = reg[s].num
                           /\ reg[s].seq \in Nat
    BY <1>1, <1>5 DEF Books, Order
  <2>2. CASE w.seq = 1
    <3>1. w.kind = "ANULACION" /\ reg[w.id].kind = "ANULACION" /\ reg[w.id].of \in Invoice
      BY <1>2, <1>5, <1>9, <2>2 DEF RowRec, Same
    <3>2. inv[reg[w.id].of].st = "SENT"
      BY <1>1, <1>5, <3>1 DEF Books
    <3>3. PICK s \in Stamp : There(s) /\ reg[s].kind = "ALTA"
      BY <2>1, <3>1, <3>2
    <3>4. reg[s].seq <= 1 /\ reg[s].seq \in 1..(Len(aeat) + 1)
      BY <1>1, <1>4, <2>2, <3>3 DEF Carries, Order
    <3>5. reg[s].seq = reg[w.id].seq
      BY <1>5, <2>2, <3>4 DEF Same
    <3>6. s = w.id
      BY <1>1, <1>5, <3>3, <3>5 DEF Order
    <3> QED BY <3>1, <3>3, <3>6
  <2>3. CASE w.seq # 1
    <3>1. w.seq - 1 \in DOMAIN aeat /\ (w.seq - 1) + 1 = w.seq
      BY <1>5, <2>3
    <3> DEFINE s == aeat[w.seq - 1].row.id
    <3>2. s \in Stamp /\ There(s) /\ reg[s].seq = w.seq - 1
      <4>1. aeat \in Seq(Envelope)
        BY <1>1 DEF TypeOK
      <4> QED BY <1>1, <3>1, <4>1, AeatIs DEF Order
    <3> HIDE DEF s
    <3>3. reg[s] \in Rows /\ reg[s].seq + 1 = w.seq /\ reg[s] \in RowRec
      BY <1>1, <3>1, <3>2, RowsAre
    <3>4. inv[reg[s].of].num = 0
      BY <1>9, <3>3
    <3>5. reg[s].kind \in {"ALTA", "ANULACION"} /\ reg[s].of \in Invoice
      BY <3>3 DEF RowRec
    <3>6. CASE reg[s].kind = "ALTA"
      BY <1>1, <3>2, <3>4, <3>6 DEF Books
    <3>7. CASE reg[s].kind = "ANULACION"
      <4>1. inv[reg[s].of].st = "SENT"
        BY <1>1, <3>2, <3>7 DEF Books
      <4> QED BY <2>1, <3>4, <3>5, <4>1
    <3> QED BY <3>5, <3>6, <3>7
  <2> QED BY <2>2, <2>3
<1>10. \/ \E rec : /\ On(r, "sent", rec) /\ rec.ed = req[r].ed
                   /\ (w.seq = 1 /\ rec.link = 0) \/ \E v \in Rows : v.seq + 1 = w.seq /\ rec.link = v.id
       \/ /\ ~(w.seq = 1 /\ w.kind = "ALTA")
          /\ \A v \in Rows : v.seq + 1 = w.seq => inv[v.of].num = 0
  BY <1>1, SendIs
<1> QED BY <1>6, <1>7, <1>8, <1>9, <1>10

LEMMA CalmAnswer ==
  ASSUME Ledger, Whole, NEW r \in Req, UNCHANGED <<inv, reg, aeat, lock, perils>>, req[r].pc = "sent",
         NEW rec, On(r, "done", rec),
         rec.answer = "accepted" => req[r].row.id \in Held,
         rec.answer = "rejected" => req[r].row.id \notin Held
  PROVE  Whole'
<1>1. TypeOK /\ Order /\ Books /\ Works(r) /\ req[r].pc \in Working /\ Held' = Held
  BY DEF Ledger, Whole, Working, Carrying, Held
<1>2. Calmly
  BY <1>1, CalmlyIdle
<1>3. req'[r] = rec /\ Moves(r, rec)
  BY <1>1, MovesTyped DEF On
<1>4. Carries(r)
  BY <1>1 DEF Works, Carrying
<1>5. Carries(r)'
  BY <1>1, <1>3, <1>4 DEF Carries, There, On
<1>6. Works(r)'
  BY <1>1, <1>3, <1>5 DEF Works, Working, Carrying, On
<1> QED BY <1>1, <1>2, <1>3, <1>6, CalmOn

LEMMA CalmFinish ==
  ASSUME Ledger, Whole, NEW r \in Req, Finish(r), perils' \subseteq {"edit"}
  PROVE  Whole'
<1> DEFINE w == req[r].row
<1>1. TypeOK /\ Rooted /\ Aimed /\ Order /\ Books /\ Works(r)
  BY DEF Ledger, Whole
<1>2. UNCHANGED <<signed, aeat>> /\ req[r].pc = "done" /\ w \in RowRec /\ req[r].pc \in Working /\ req[r].pc \in Carrying
  BY <1>1, FinishIs DEF Working, Carrying
<1>3. Carries(r)
  BY <1>1, <1>2 DEF Works
<1>4. w.id \in Stamp /\ There(w.id) /\ Same(reg[w.id], w) /\ w.of \in Invoice
  <2>1. w.id \in Stamp /\ There(w.id) /\ w \in Copies /\ reg[w.id] \in Copies /\ reg[w.id].id = w.id /\ w.of \in Invoice
    BY <1>1, <1>2, <1>3, CopiesAre, NoneIsNoRow DEF Carries, RowRec, Rooted
  <2> QED BY <2>1 DEF Ledger, OneRecord
<1>5. CASE Ended(r) /\ UNCHANGED <<inv, reg, perils>>
  BY <1>2, <1>5, CalmEndIdle
<1>6. CASE /\ req[r].answer = "accepted" /\ Ended(r) /\ perils' = perils
           /\ reg' = [reg EXCEPT ![w.id].st = "ACCEPTED"]
           /\ IF w.kind = "ALTA" THEN inv' = [inv EXCEPT ![w.of].st = "SENT"]
                                 ELSE inv' = [inv EXCEPT ![w.of].ann = TRUE]
  <2>1. w.id \in Held
    BY <1>2, <1>3, <1>6 DEF Carries
  <2>2. \/ w.kind = "ALTA" /\ Only(inv', w.of, inv[w.of].num, "SENT", inv[w.of].ed)
        \/ Only(inv', w.of, inv[w.of].num, inv[w.of].st, inv[w.of].ed)
    BY <1>1, <1>4, <1>6, SentIs, AnnIs
  <2>3. /\ reg'[w.id] # None /\ Same(reg[w.id], reg'[w.id]) /\ reg'[w.id].st = "ACCEPTED"
        /\ \A t \in Stamp \ {w.id} : reg'[t] = reg[t]
    BY <1>1, <1>4, <1>6, RegIs
  <2>4. \A s \in Held : s \in Stamp /\ There(s)
    BY <1>1, HeldIs
  <2>5. \A s \in Stamp : reg'[s] # None =>
          /\ There(s) /\ Same(reg[s], reg'[s])
          /\ reg'[s].st = reg[s].st \/ (reg'[s].st = "ACCEPTED" /\ s \in Held)
    <3> SUFFICES ASSUME NEW s \in Stamp, reg'[s] # None
                 PROVE  /\ There(s) /\ Same(reg[s], reg'[s])
                        /\ reg'[s].st = reg[s].st \/ (reg'[s].st = "ACCEPTED" /\ s \in Held)
      OBVIOUS
    <3>1. CASE s = w.id
      BY <1>4, <2>1, <2>3, <3>1
    <3>2. CASE s # w.id
      BY <2>3, <3>2 DEF There, Same
    <3> QED BY <3>1, <3>2
  <2>6. \A s \in Held : reg'[s] # None
    BY <2>3, <2>4 DEF There
  <2>7. \A i \in Invoice : inv'[i].num = inv[i].num /\ inv'[i].ed = inv[i].ed
                           /\ (inv'[i].st = inv[i].st \/ (inv'[i].st = "SENT" /\ i = w.of /\ w.kind = "ALTA"))
    BY <1>4, <2>2 DEF Only
  <2>8. \A i \in Invoice : inv'[i].st = "SENT" =>
          \/ inv[i].st = "SENT"
          \/ \E s \in Stamp : reg'[s] # None /\ reg[s].kind = "ALTA" /\ reg[s].of = i /\ reg'[s].st = "ACCEPTED"
    <3> SUFFICES ASSUME NEW i \in Invoice, inv'[i].st = "SENT", inv[i].st # "SENT"
                 PROVE  \E s \in Stamp : reg'[s] # None /\ reg[s].kind = "ALTA" /\ reg[s].of = i /\ reg'[s].st = "ACCEPTED"
      OBVIOUS
    <3>1. i = w.of /\ w.kind = "ALTA"
      BY <2>7
    <3>2. reg[w.id].kind = "ALTA" /\ reg[w.id].of = i
      BY <1>4, <3>1 DEF Same
    <3> QED BY <1>4, <2>3, <3>2
  <2>9. \A s \in Stamp : There(s) => reg[s].of \in Invoice /\ (reg[s].kind = "ALTA" => inv[reg[s].of].st # "gone")
    BY <1>1, RowsAre DEF Books, RowRec
  <2>10. Calmly
    BY <1>2, <1>6, <2>5, <2>6, <2>7, <2>8, <2>9 DEF Calmly
  <2>11. \A q \in Req \ {r} : req[q].pc \notin Carrying
    BY <1>2, Alone DEF Working
  <2> QED BY <1>6, <2>10, <2>11, CalmEnd
<1>7. ASSUME UNCHANGED <<inv, reg, lock>>, NEW rec, On(r, "undo", rec),
             \/ req[r].answer = "rejected" /\ perils' = perils
             \/ perils' = IF There(w.id) THEN perils \cup {"error"} ELSE perils
      PROVE  Whole'
  <2>1. req[r].answer = "rejected" /\ perils' = perils
    BY <1>4, <1>7
  <2>2. Calmly /\ Held' = Held
    BY <1>1, <1>2, <1>7, <2>1, CalmlyIdle DEF Held
  <2>3. req'[r] = rec /\ Moves(r, rec)
    BY <1>1, <1>7, MovesTyped DEF On
  <2>4. Carries(r)'
    BY <1>2, <1>3, <1>7, <2>1, <2>2, <2>3 DEF Carries, There, On
  <2>5. Works(r)'
    BY <1>1, <1>2, <1>7, <2>3, <2>4 DEF Works, Working, Carrying, On
  <2> QED BY <1>2, <2>2, <2>3, <2>5, CalmOn
<1> QED BY <1>1, <1>5, <1>6, <1>7, FinishIs

(* Only a row AEAT does not hold is taken back. *)
LEMMA CalmUndo ==
  ASSUME Ledger, Whole, NEW r \in Req, Undo(r)
  PROVE  Whole'
<1> DEFINE w == req[r].row
<1>1. TypeOK /\ Rooted /\ Aimed /\ Order /\ Books /\ Works(r) /\ Single
  BY DEF Ledger, Whole
<1>2. /\ UNCHANGED <<inv, signed, aeat, perils>> /\ req[r].pc = "undo" /\ w \in RowRec /\ w.id \in Stamp
      /\ reg' = [reg EXCEPT ![w.id] = None] /\ req[r].pc \in Working /\ req[r].pc \in Carrying
  BY <1>1, UndoIs DEF Working, Carrying, RowRec
<1>3. Carries(r) /\ w.id \notin Held
  BY <1>1, <1>2 DEF Works, Carries
<1>4. reg'[w.id] = None /\ \A t \in Stamp \ {w.id} : reg'[t] = reg[t]
  BY <1>1, <1>2 DEF TypeOK
<1>5. Calmly
  <2>1. \A s \in Held : s \in Stamp /\ There(s)
    BY <1>1, HeldIs
  <2>2. \A s \in Stamp : reg'[s] # None => There(s) /\ Same(reg[s], reg'[s]) /\ reg'[s].st = reg[s].st
    BY <1>4 DEF There, Same
  <2>3. \A s \in Held : reg'[s] # None
    BY <1>3, <1>4, <2>1 DEF There
  <2>4. \A s \in Stamp : There(s) /\ reg[s].kind = "ALTA" => inv[reg[s].of].st # "gone"
    BY <1>1 DEF Books
  <2> QED BY <1>2, <2>2, <2>3, <2>4 DEF Calmly
<1>6. CASE Ended(r)
  <2>1. \A q \in Req \ {r} : req[q].pc \notin Carrying
    BY <1>2, Alone DEF Working
  <2> QED BY <1>5, <1>6, <2>1, CalmEnd
<1>7. ASSUME NEW rec, On(r, "release", rec), req[r].fresh, lock' = lock PROVE Whole'
  <2>1. req'[r] = rec /\ Moves(r, rec)
    BY <1>1, <1>7, MovesTyped DEF On
  <2>2. req[r].call = "submit" /\ w.kind = "ALTA" /\ w.of = req[r].of /\ There(w.id)
    BY <1>1, <1>3, <1>7 DEF Works, Carries
  <2>3. reg[w.id].kind = "ALTA" /\ reg[w.id].of = req[r].of
    <3>1. w \in Copies /\ reg[w.id] \in Copies /\ reg[w.id].id = w.id
      BY <1>1, <1>2, <2>2, CopiesAre, NoneIsNoRow DEF Rooted
    <3> QED BY <2>2, <3>1 DEF Ledger, OneRecord, Same
  <2>5. rec.of = req[r].of /\ rec.pc = "release" /\ rec.call = "submit" /\ rec.fresh = req[r].fresh
    BY <1>7, <2>2 DEF On
  <2>6. {v \in Rows' : v.kind = "ALTA" /\ v.of = req[r].of} = {}
    <3>1. \A s \in Stamp : reg'[s] # None /\ reg'[s].kind = "ALTA" => reg'[s].of # req[r].of
      <4> SUFFICES ASSUME NEW s \in Stamp, reg'[s] # None, reg'[s].kind = "ALTA", reg'[s].of = req[r].of PROVE FALSE
        OBVIOUS
      <4>1. s # w.id /\ There(s) /\ reg'[s] = reg[s]
        BY <1>4 DEF There
      <4> QED BY <1>1, <1>2, <2>2, <2>3, <4>1 DEF Single
    <3> QED BY <3>1 DEF Rows
  <2>7. Works(r)'
    BY <1>1, <1>2, <1>7, <2>1, <2>5, <2>6 DEF Works, Working, Carrying, AltaOf
  <2> QED BY <1>2, <1>5, <2>1, <2>7, CalmOn
<1> QED BY <1>1, <1>6, <1>7, UndoIs

LEMMA CalmRelease ==
  ASSUME Ledger, Whole, NEW r \in Req, Release(r)
  PROVE  Whole'
<1> DEFINE i == req[r].of
<1>1. TypeOK /\ Rooted /\ Aimed /\ Order /\ Books /\ Works(r)
  BY DEF Ledger, Whole
<1>2. /\ UNCHANGED <<reg, signed, aeat, perils>> /\ req[r].pc = "release" /\ Ended(r) /\ i \in Invoice
      /\ inv' = inv \/ inv' = [inv EXCEPT ![i].num = 0]
      /\ req[r].pc \in Working
  BY <1>1, ReleaseIs DEF Working, Aimed
<1>3. \A s \in Stamp : There(s) /\ reg[s].kind = "ALTA" => reg[s].of # i
  <2>1. AltaOf(i) = {}
    BY <1>1, <1>2 DEF Works
  <2> QED BY <1>1, <1>2, <2>1, AltaIs
<1>4. CASE inv' = [inv EXCEPT ![i].num = 0]
  <2>1. 0 \in Number
    BY ChainAssumption DEF Number
  <2>2. Only(inv', i, 0, inv[i].st, inv[i].ed)
    BY <1>1, <1>2, <1>4, <2>1, NumIs
  <2>3. /\ \A j \in Invoice : inv'[j].st = inv[j].st /\ inv'[j].ed = inv[j].ed
        /\ \A j \in Invoice \ {i} : inv'[j].num = inv[j].num
    BY <1>2, <2>2 DEF Only
  <2>4. \A s \in Held : There(s)
    BY <1>1, HeldIs
  <2>5. \A s \in Stamp : There(s) => reg[s].of \in Invoice /\ (reg[s].kind = "ALTA" => inv[reg[s].of].st # "gone")
    BY <1>1, RowsAre DEF Books, RowRec
  <2>6. Calmly
    BY <1>2, <1>3, <2>3, <2>4, <2>5 DEF Calmly, There, Same
  <2>7. \A q \in Req \ {r} : req[q].pc \notin Carrying
    BY <1>2, Alone DEF Working
  <2> QED BY <1>2, <2>6, <2>7, CalmEnd
<1>5. CASE inv' = inv
  BY <1>2, <1>5, CalmEndIdle
<1> QED BY <1>2, <1>4, <1>5

(* A confirmation is about a row AEAT holds: the number it shows is of one *)
(* invoice, and the invoice has one row.                                   *)
LEMMA CalmOpen ==
  ASSUME Ledger, Whole, NEW r \in Req, Open(r)
  PROVE  Whole'
<1>1. TypeOK /\ Rooted /\ Aimed /\ Order /\ Books /\ Numbered /\ OneRecord
  BY DEF Ledger, Whole
<1>2. UNCHANGED <<inv, reg, signed, aeat, lock, perils>> /\ req[r].pc = "idle"
  BY <1>1, OpenIs
<1>3. PICK rec : /\ Moves(r, rec) /\ rec.pc = "write" /\ rec.of \in Invoice
                 /\ rec.call \notin {"submit", "annul"} /\ rec.fresh = FALSE
                 /\ rec.call = "confirm" => AltaOf(rec.of) \cap Pending # {} /\ Shown(rec.of)
  BY <1>1, OpenIs
<1>4. Calmly
  BY <1>1, <1>2, CalmlyIdle
<1>5. req'[r] = rec
  BY <1>1, <1>3, MovesTyped
<1>6. ASSUME rec.call = "confirm"
      PROVE  \E s \in Stamp : There(s) /\ reg[s].kind = "ALTA" /\ reg[s].of = rec.of /\ s \in Held
  <2>1. PICK v \in AltaOf(rec.of) : TRUE
    BY <1>3, <1>6
  <2>2. inv[rec.of].num # 0
    BY <1>1, <1>3, AltaIs DEF Books
  <2>3. PICK k \in DOMAIN aeat : aeat[k].row.kind = "ALTA" /\ aeat[k].row.num = inv[rec.of].num
    BY <1>3, <1>6 DEF Shown
  <2> DEFINE s == aeat[k].row.id
  <2>4. s \in Held
    BY DEF Held
  <2>5. s \in Stamp /\ There(s) /\ reg[s] \in RowRec
    BY <1>1, <2>4, HeldIs, RowsAre
  <2>6. Same(reg[s], aeat[k].row)
    <3>1. reg[s] \in Copies /\ aeat[k].row \in Copies /\ reg[s].id = s
      BY <1>1, <2>5, CopiesAre DEF Rooted
    <3> QED BY <1>1, <3>1 DEF OneRecord
  <2>7. reg[s].kind = "ALTA" /\ reg[s].num = inv[rec.of].num
    BY <2>3, <2>6 DEF Same
  <2>8. inv[reg[s].of].num = inv[rec.of].num /\ reg[s].of \in Invoice
    BY <1>1, <2>5, <2>7 DEF Books, RowRec
  <2>9. reg[s].of = rec.of
    BY <1>1, <1>3, <2>2, <2>8 DEF Numbered
  <2> QED BY <2>4, <2>5, <2>7, <2>9
<1>7. Works(r)'
  BY <1>2, <1>3, <1>5, <1>6 DEF Works, Working, Carrying, There, Held
<1>8. \A q \in Req : req[q].pc \in Carrying => reg'[req[q].row.id] # None
  BY <1>2 DEF Whole, Works, Carries, There
<1> QED BY <1>2, <1>3, <1>4, <1>7, <1>8, CalmStep

LEMMA CalmConfirm ==
  ASSUME Ledger, Whole, NEW r \in Req, Confirm(r)
  PROVE  Whole'
<1> DEFINE i == req[r].of
<1>1. TypeOK /\ Rooted /\ Aimed /\ Order /\ Books /\ Works(r) /\ Single
  BY DEF Ledger, Whole
<1>2. /\ UNCHANGED <<signed, aeat, perils>> /\ req[r].pc = "write" /\ req[r].call = "confirm" /\ Ended(r) /\ i \in Invoice
  BY <1>1, ConfirmIs DEF Aimed
<1>3. CASE UNCHANGED <<inv, reg>>
  BY <1>2, <1>3, CalmEndIdle
<1>4. ASSUME NEW w \in AltaOf(i) \cap Pending, reg' = [reg EXCEPT ![w.id].st = "ACCEPTED"],
             inv' = [inv EXCEPT ![i].st = "SENT"]
      PROVE  Whole'
  <2>1. w.id \in Stamp /\ There(w.id) /\ reg[w.id] = w /\ w.kind = "ALTA" /\ w.of = i
    BY <1>1, <1>2, AltaIs
  <2>2. w.id \in Held
    <3>1. PICK s \in Stamp : There(s) /\ reg[s].kind = "ALTA" /\ reg[s].of = i /\ s \in Held
      BY <1>1, <1>2 DEF Works
    <3>2. s = w.id
      BY <1>1, <2>1, <3>1 DEF Single
    <3> QED BY <3>1, <3>2
  <2>3. /\ reg'[w.id] # None /\ Same(reg[w.id], reg'[w.id]) /\ reg'[w.id].st = "ACCEPTED"
        /\ \A t \in Stamp \ {w.id} : reg'[t] = reg[t]
    BY <1>1, <1>4, <2>1, RegIs
  <2>4. Only(inv', i, inv[i].num, "SENT", inv[i].ed)
    BY <1>1, <1>2, <1>4, SentIs
  <2>5. ASSUME NEW s \in Stamp, reg'[s] # None
        PROVE  /\ There(s) /\ Same(reg[s], reg'[s])
               /\ reg'[s].st = reg[s].st \/ (reg'[s].st = "ACCEPTED" /\ s \in Held)
    <3>1. CASE s = w.id
      BY <2>1, <2>2, <2>3, <3>1
    <3>2. CASE s # w.id
      BY <2>3, <2>5, <3>2 DEF There, Same
    <3> QED BY <3>1, <3>2
  <2>6. \A s \in Held : s \in Stamp /\ There(s)
    BY <1>1, HeldIs
  <2>7. \A s \in Stamp : There(s) => reg'[s] # None
    BY <2>3 DEF There
  <2>8. \A j \in Invoice : inv'[j].num = inv[j].num /\ inv'[j].ed = inv[j].ed
                           /\ (inv'[j].st = inv[j].st \/ (inv'[j].st = "SENT" /\ j = i))
    BY <1>2, <2>4 DEF Only
  <2>9. \A j \in Invoice : inv'[j].st = "SENT" =>
          \/ inv[j].st = "SENT"
          \/ \E s \in Stamp : reg'[s] # None /\ reg[s].kind = "ALTA" /\ reg[s].of = j /\ reg'[s].st = "ACCEPTED"
    BY <2>1, <2>3, <2>8
  <2>10. \A s \in Stamp : There(s) => reg[s].of \in Invoice /\ (reg[s].kind = "ALTA" => inv[reg[s].of].st # "gone")
    BY <1>1, RowsAre DEF Books, RowRec
  <2>11. Calmly
    BY <1>2, <2>5, <2>6, <2>7, <2>8, <2>9, <2>10 DEF Calmly
  <2>12. ASSUME NEW q \in Req, req[q].pc \in Carrying PROVE reg'[req[q].row.id] # None
    <3>1. There(req[q].row.id) /\ req[q].row \in RowRec
      BY <1>1, <2>12, ReqIs DEF Whole, Works, Carries, Carrying, CarryPC
    <3>2. req[q].row.id \in Stamp
      BY <3>1 DEF RowRec
    <3> QED BY <2>7, <3>1, <3>2
  <2> QED BY <1>2, <2>11, <2>12, CalmEnd
<1> QED BY <1>2, <1>3, <1>4, ConfirmIs

LEMMA CalmCancel ==
  ASSUME Ledger, Whole, NEW r \in Req, Cancel(r), perils' \subseteq {"edit"}
  PROVE  Whole'
<1> DEFINE i == req[r].of
<1>1. TypeOK /\ Rooted /\ Aimed /\ Order /\ Books /\ Works(r) /\ Single /\ OneRecord
  BY DEF Ledger, Whole
<1>2. UNCHANGED <<signed, aeat>> /\ req[r].pc = "write" /\ Ended(r) /\ i \in Invoice
  BY <1>1, CancelIs DEF Aimed
<1>3. CASE UNCHANGED <<inv, reg, perils>>
  BY <1>2, <1>3, CalmEndIdle
<1>4. ASSUME NEW w \in AltaOf(i) \cap Pending, reg' = [reg EXCEPT ![w.id] = None],
             inv' = [inv EXCEPT ![i].num = 0], perils' = perils, w.id \notin Held, \A q \in Req : req[q].row # w
      PROVE  Whole'
  <2>1. w \in RowRec /\ w.id \in Stamp /\ There(w.id) /\ reg[w.id] = w /\ w.kind = "ALTA" /\ w.of = i /\ w.st = "PENDING"
    BY <1>1, <1>2, AltaIs, PendingIs
  <2>2. reg'[w.id] = None /\ \A t \in Stamp \ {w.id} : reg'[t] = reg[t]
    BY <1>1, <1>4, <2>1, RegIs
  <2>3. 0 \in Number
    BY ChainAssumption DEF Number
  <2>4. Only(inv', i, 0, inv[i].st, inv[i].ed)
    BY <1>1, <1>2, <1>4, <2>3, NumIs
  <2>5. /\ \A j \in Invoice : inv'[j].st = inv[j].st /\ inv'[j].ed = inv[j].ed
        /\ \A j \in Invoice \ {i} : inv'[j].num = inv[j].num
    BY <1>2, <2>4 DEF Only
  <2>6. \A s \in Stamp : reg'[s] # None => There(s) /\ s # w.id /\ Same(reg[s], reg'[s]) /\ reg'[s].st = reg[s].st
    BY <2>2 DEF There, Same
  <2>7. \A s \in Held : s \in Stamp /\ There(s)
    BY <1>1, HeldIs
  <2>8. \A s \in Held : reg'[s] # None
    BY <1>4, <2>2, <2>7 DEF There
  <2>9. \A s \in Stamp : reg'[s] # None /\ reg[s].kind = "ALTA" => reg[s].of # i
    BY <1>1, <2>1, <2>6 DEF Single
  <2>10. \A s \in Stamp : There(s) => reg[s].of \in Invoice /\ (reg[s].kind = "ALTA" => inv[reg[s].of].st # "gone")
    BY <1>1, RowsAre DEF Books, RowRec
  <2>11. Calmly
    BY <1>2, <1>4, <2>5, <2>6, <2>8, <2>9, <2>10 DEF Calmly
  <2>12. ASSUME NEW q \in Req, req[q].pc \in Carrying PROVE reg'[req[q].row.id] # None
    <3> DEFINE v == req[q].row
    <3>1. There(v.id) /\ v \in RowRec /\ v.st = "PENDING" /\ v # None
      BY <1>1, <2>12, ReqIs, NoneIsNoRow DEF Whole, Works, Carries, Carrying, CarryPC
    <3>2. v.id \in Stamp /\ v \in Copies /\ reg[v.id] \in Copies
      BY <1>1, <3>1, CopiesAre DEF RowRec
    <3>3. Same(reg[v.id], v)
      <4>1. reg[v.id].id = v.id
        BY <1>1, <3>1, <3>2 DEF Rooted
      <4> QED BY <1>1, <3>2, <4>1 DEF OneRecord
    <3>4. ASSUME v.id = w.id PROVE FALSE
      <4>1. Same(w, v) /\ w.st = v.st
        BY <2>1, <3>1, <3>3, <3>4
      <4>2. w = v
        BY <2>1, <3>1, <4>1 DEF Same, RowRec
      <4> QED BY <1>4, <4>2
    <3> QED BY <2>2, <3>1, <3>2, <3>4 DEF There
  <2> QED BY <1>2, <2>11, <2>12, CalmEnd
<1>5. \/ UNCHANGED <<inv, reg, perils>>
      \/ \E w \in AltaOf(i) \cap Pending :
           /\ reg' = [reg EXCEPT ![w.id] = None]
           /\ inv' = [inv EXCEPT ![i].num = 0]
           /\ perils' = perils /\ w.id \notin Held /\ \A q \in Req : req[q].row # w
  <2>1. perils' # perils \cup {"hasty"}
    OBVIOUS
  <2> QED BY <2>1, CancelIs
<1> QED BY <1>2, <1>3, <1>4, <1>5

(* The rows of an invoice that has no ALTA row are none. *)
LEMMA NoRows ==
  ASSUME Ledger, Books, NEW i \in Invoice, AltaOf(i) = {}
  PROVE  (\A s \in Stamp : There(s) => reg[s].of # i) /\ inv[i].st # "SENT"
<1>1. TypeOK /\ Rooted /\ \A s \in Stamp : There(s) => reg[s].kind \in {"ALTA", "ANULACION"}
  BY RowsAre DEF Ledger, RowRec
<1>2. \A s \in Stamp : There(s) /\ reg[s].kind = "ALTA" => reg[s].of # i
  BY <1>1, AltaIs
<1> QED BY <1>1, <1>2 DEF Books

LEMMA CalmEdit ==
  ASSUME Ledger, Whole, NEW r \in Req, Edit(r)
  PROVE  Whole'
<1> DEFINE i == req[r].of
<1>1. TypeOK /\ Rooted /\ Aimed /\ Order /\ Books
  BY DEF Ledger, Whole
<1>2. /\ UNCHANGED <<reg, signed, aeat>> /\ req[r].pc = "write" /\ Ended(r) /\ i \in Invoice
      /\ perils' = IF AltaOf(i) # {} THEN perils \cup {"edit"} ELSE perils
  BY <1>1, EditIs DEF Aimed
<1>3. /\ \A j \in Invoice : inv'[j].st = inv[j].st /\ inv'[j].num = inv[j].num
      /\ \A j \in Invoice \ {i} : inv'[j].ed = inv[j].ed
  <2>1. CASE inv[i].ed < MaxEdits /\ inv' = [inv EXCEPT ![i].ed = @ + 1]
    <3>1. Only(inv', i, inv[i].num, inv[i].st, inv[i].ed + 1)
      BY <1>1, <1>2, <2>1, EdIs
    <3> QED BY <3>1 DEF Only
  <2> QED BY <2>1, EditIs
<1>4. ASSUME perils' = {}, NEW s \in Stamp, There(s) PROVE inv'[reg[s].of].ed = inv[reg[s].of].ed
  <2>1. AltaOf(i) = {}
    BY <1>2, <1>4
  <2>2. reg[s].of # i /\ reg[s].of \in Invoice
    BY <1>1, <1>2, <1>4, <2>1, NoRows, RowsAre DEF RowRec
  <2> QED BY <1>3, <2>2
<1>5. \A s \in Held : There(s)
  BY <1>1, HeldIs
<1>6. \A s \in Stamp : There(s) => reg[s].of \in Invoice /\ (reg[s].kind = "ALTA" => inv[reg[s].of].st # "gone")
  BY <1>1, RowsAre DEF Books, RowRec
<1>7. Calmly
  BY <1>2, <1>3, <1>4, <1>5, <1>6 DEF Calmly, There, Same
<1>8. \A q \in Req : req[q].pc \in Carrying => reg'[req[q].row.id] # None
  BY <1>2 DEF Whole, Works, Carries, There
<1> QED BY <1>2, <1>7, <1>8, CalmEnd

LEMMA CalmRemove ==
  ASSUME Ledger, Whole, NEW r \in Req, Remove(r), perils' \subseteq {"edit"}
  PROVE  Whole'
<1> DEFINE i == req[r].of
           gone == [st |-> "gone", num |-> 0, ed |-> 0, ann |-> FALSE]
<1>1. TypeOK /\ Rooted /\ Aimed /\ Order /\ Books
  BY DEF Ledger, Whole
<1>2. /\ UNCHANGED <<signed, aeat>> /\ req[r].pc = "write" /\ Ended(r) /\ i \in Invoice
      /\ inv' = [inv EXCEPT ![i] = gone]
      /\ reg' = [s \in Stamp |-> IF There(s) /\ reg[s].of = i THEN None ELSE reg[s]]
      /\ perils' = IF AltaOf(i) # {} THEN perils \cup {"remove"} ELSE perils
  BY <1>1, RemoveIs DEF Aimed
<1>3. AltaOf(i) = {} /\ perils' = perils
  BY <1>2
<1>4. (\A s \in Stamp : There(s) => reg[s].of # i) /\ inv[i].st # "SENT"
  BY <1>1, <1>2, <1>3, NoRows
<1>5. \A s \in Stamp : reg'[s] = reg[s]
  BY <1>2, <1>4
<1>6. (\A j \in Invoice \ {i} : inv'[j] = inv[j]) /\ inv'[i].st = "gone"
  BY <1>1, <1>2 DEF TypeOK
<1>7. \A s \in Held : s \in Stamp /\ There(s)
  BY <1>1, HeldIs
<1>8. \A s \in Stamp : There(s) => reg[s].of \in Invoice \ {i} /\ (reg[s].kind = "ALTA" => inv[reg[s].of].st # "gone")
  BY <1>1, <1>4, RowsAre DEF Books, RowRec
<1>9. Calmly
  BY <1>2, <1>3, <1>4, <1>5, <1>6, <1>7, <1>8 DEF Calmly, There, Same
<1>10. ASSUME NEW q \in Req, req[q].pc \in Carrying PROVE reg'[req[q].row.id] # None
  <2>1. There(req[q].row.id) /\ req[q].row \in RowRec
    BY <1>1, <1>10, ReqIs DEF Whole, Works, Carries, Carrying, CarryPC
  <2> QED BY <1>5, <2>1 DEF RowRec, There
<1> QED BY <1>2, <1>9, <1>10, CalmEnd

(* A new row is signed when no row is pending: it is the next one. *)
LEMMA CalmSigns ==
  ASSUME Ledger, Whole, NEW r \in Req, req[r].pc = "register", NEW w \in RowRec, NEW rec, Signs(r, w, rec),
         perils' \subseteq {"edit"}
  PROVE  Whole'
<1> DEFINE n == Len(aeat)
<1>1. /\ TypeOK /\ Rooted /\ Aimed /\ Order /\ Books /\ Works(r) /\ req[r].pc \in Working
      /\ aeat \in Seq(Envelope) /\ n \in Nat /\ DOMAIN aeat = 1..n
  BY DEF Ledger, Whole, Working, TypeOK
<1> HIDE DEF n
<1>2. Pending = {} /\ perils' = perils /\ aeat' = aeat /\ lock' = lock
  <2>1. \A v \in Pending : req[r].call = "submit" /\ v.kind = "ANULACION"
    BY <1>1 DEF Works
  <2>2. ASSUME NEW v \in Pending PROVE FALSE
    <3>1. perils' = perils \cup {"annul"}
      BY <2>1 DEF Signs
    <3> QED BY <3>1
  <2> QED BY <2>2 DEF Signs
<1>3. /\ req'[r] = rec /\ \A q \in Req \ {r} : req'[q] = req[q]
      /\ w.id \in Stamp /\ ~There(w.id) /\ reg'[w.id] = w /\ \A s \in Stamp \ {w.id} : reg'[s] = reg[s]
      /\ \A i \in Invoice : inv'[i].st = inv[i].st /\ inv'[i].ed = inv[i].ed
      /\ \A i \in Invoice \ {w.of} : inv'[i].num = inv[i].num
      /\ req[r].call = "submit" => inv'[w.of].num = w.num /\ w.num # 0
      /\ inv[w.of].num # 0 => inv'[w.of].num = inv[w.of].num
  BY SignsKeeps
<1>4. /\ w.of = req[r].of /\ w.of \in Invoice /\ w.st = "PENDING" /\ w.seq = LastSeq + 1 /\ w.prev = LastHuella
      /\ w.ed = inv[w.of].ed /\ inv[w.of].st # "gone" /\ w # None
      /\ w.kind = IF req[r].call = "submit" THEN "ALTA" ELSE "ANULACION"
  BY NoneIsNoRow DEF Signs, RowRec
<1>5. rec.pc = "send" /\ rec.row = w /\ rec.ed = w.ed /\ rec.call = req[r].call /\ rec.of = req[r].of
      /\ (rec.fresh => req[r].call = "submit" \/ req[r].fresh)
  BY DEF Signs
<1>6. \A s \in Stamp : There(s) => /\ reg[s].st = "ACCEPTED" /\ reg[s].seq \in 1..n /\ reg[s].of \in Invoice
                                   /\ reg[s].kind \in {"ALTA", "ANULACION"} /\ aeat[reg[s].seq].row.id = s
  <2> SUFFICES ASSUME NEW s \in Stamp, There(s)
               PROVE  /\ reg[s].st = "ACCEPTED" /\ reg[s].seq \in 1..n /\ reg[s].of \in Invoice
                      /\ reg[s].kind \in {"ALTA", "ANULACION"} /\ aeat[reg[s].seq].row.id = s
    OBVIOUS
  <2>1. reg[s] \in RowRec /\ reg[s].st # "PENDING"
    BY <1>1, <1>2, RowsAre, PendingIs
  <2>2. reg[s].seq \in 1..(n + 1) /\ reg[s].seq # n + 1
    BY <1>1, <2>1 DEF Order, n
  <2>3. reg[s].seq \in 1..n
    BY <1>1, <2>2
  <2> QED BY <1>1, <2>1, <2>3 DEF Order, RowRec, n
<1>7. \A k \in 1..n : aeat[k].row.id \in Stamp /\ There(aeat[k].row.id) /\ reg[aeat[k].row.id].seq = k
  BY <1>1, AeatIs DEF Order
<1>8. LastSeq = n
  <2>1. LastSeq \in Nat /\ \A s \in Stamp : There(s) => reg[s].seq <= LastSeq
    BY <1>1, LastSeqIs DEF TypeOK
  <2>2. LastSeq # 0 => \E s \in Stamp : There(s) /\ reg[s].seq = LastSeq
    BY <1>1, LastSeqIs
  <2>3. LastSeq <= n
    BY <1>1, <1>6, <2>1, <2>2
  <2>4. n # 0 => n <= LastSeq
    BY <1>1, <1>7, <2>1
  <2> QED BY <1>1, <2>1, <2>3, <2>4
<1>9. w.seq = n + 1 /\ w.prev = IF w.seq = 1 THEN 0 ELSE aeat[w.seq - 1].row.id
  <2>1. CASE n = 0
    <3>1. \A s \in Stamp : ~There(s)
      BY <1>6, <2>1
    <3> QED BY <1>1, <1>4, <1>8, <2>1, <3>1, LastHuellaIs
  <2>2. CASE n # 0
    <3>1. \E s \in Stamp : There(s)
      BY <1>1, <1>7, <2>2
    <3>2. LastHuella \in Stamp /\ There(LastHuella) /\ reg[LastHuella].seq = n
      BY <1>1, <1>8, <3>1, LastHuellaIs
    <3>3. aeat[n].row.id = LastHuella
      BY <1>6, <3>2
    <3>4. w.seq = n + 1 /\ w.seq # 1 /\ w.seq - 1 = n
      BY <1>1, <1>4, <1>8, <2>2
    <3> QED BY <1>4, <3>3, <3>4
  <2> QED BY <2>1, <2>2
<1>10. \A s \in Stamp : reg'[s] # None => s = w.id \/ (There(s) /\ reg'[s] = reg[s] /\ s # w.id)
  BY <1>3 DEF There
<1>11. \A s \in Stamp : There(s) => reg'[s] # None /\ reg'[s] = reg[s]
  BY <1>3 DEF There
<1>12. Order'
  <2>1. \A k \in DOMAIN aeat : reg'[aeat[k].row.id] # None /\ reg'[aeat[k].row.id].seq = k
    BY <1>1, <1>7, <1>11
  <2>2. ASSUME NEW s \in Stamp, reg'[s] # None
        PROVE  /\ reg'[s].seq \in 1..(n + 1)
               /\ reg'[s].seq <= n => aeat[reg'[s].seq].row.id = s
               /\ reg'[s].seq = n + 1 => reg'[s].st = "PENDING"
               /\ reg'[s].prev = IF reg'[s].seq = 1 THEN 0 ELSE aeat[reg'[s].seq - 1].row.id
    <3>1. CASE s = w.id
      BY <1>1, <1>3, <1>4, <1>9, <3>1
    <3>2. CASE s # w.id
      <4>1. There(s) /\ reg'[s] = reg[s] /\ reg[s].seq \in 1..n /\ aeat[reg[s].seq].row.id = s
        BY <1>6, <1>10, <2>2, <3>2
      <4>2. reg[s].prev = IF reg[s].seq = 1 THEN 0 ELSE aeat[reg[s].seq - 1].row.id
        BY <1>1, <4>1 DEF Order
      <4> QED BY <1>1, <4>1, <4>2
    <3> QED BY <3>1, <3>2
  <2>3. ASSUME NEW s \in Stamp, NEW t \in Stamp, reg'[s] # None, reg'[t] # None, reg'[s].seq = reg'[t].seq
        PROVE  s = t
    <3>1. CASE s # w.id /\ t # w.id
      BY <1>1, <1>10, <2>3, <3>1 DEF Order
    <3>2. \A u \in Stamp : reg'[u] # None /\ u # w.id => reg'[u].seq \in 1..n
      BY <1>6, <1>10
    <3>3. reg'[w.id].seq \notin 1..n
      BY <1>1, <1>3, <1>9
    <3> QED BY <2>3, <3>1, <3>2, <3>3
  <2>4. ASSUME NEW s \in Stamp, NEW t \in Stamp, reg'[s] # None, reg'[t] # None, reg'[s].st = "PENDING"
        PROVE  reg'[t].seq <= reg'[s].seq
    <3>1. s = w.id
      BY <1>6, <1>10, <2>4
    <3>2. reg'[s].seq = n + 1
      BY <1>3, <1>9, <3>1
    <3>3. reg'[t].seq \in 1..(n + 1)
      BY <2>2, <2>4
    <3> QED BY <1>1, <3>2, <3>3
  <2> QED BY <1>2, <2>1, <2>2, <2>3, <2>4 DEF Order, There, n
<1>13. Books'
  <2>1. ASSUME NEW s \in Stamp, reg'[s] # None, reg'[s].kind = "ALTA"
        PROVE  inv'[reg'[s].of].num = reg'[s].num /\ reg'[s].num # 0 /\ inv'[reg'[s].of].st # "gone"
    <3>1. CASE s = w.id
      BY <1>3, <1>4, <2>1, <3>1
    <3>2. CASE s # w.id
      <4>1. There(s) /\ reg'[s] = reg[s] /\ reg[s].of \in Invoice
        BY <1>6, <1>10, <2>1, <3>2
      <4>2. inv[reg[s].of].num = reg[s].num /\ reg[s].num # 0 /\ inv[reg[s].of].st # "gone"
        BY <1>1, <2>1, <4>1 DEF Books
      <4>3. inv'[reg[s].of].num = inv[reg[s].of].num
        BY <1>3, <4>1, <4>2
      <4> QED BY <1>3, <4>1, <4>2, <4>3
    <3> QED BY <3>1, <3>2
  <2>2. ASSUME NEW s \in Stamp, reg'[s] # None, reg'[s].kind = "ANULACION" PROVE inv'[reg'[s].of].st = "SENT"
    <3>1. CASE s = w.id
      <4>1. req[r].call = "annul"
        BY <1>1, <1>3, <1>4, <2>2, <3>1 DEF Works
      <4>2. inv[w.of].st = "SENT"
        BY <1>1, <1>4, <4>1 DEF Works
      <4> QED BY <1>3, <1>4, <3>1, <4>2
    <3>2. CASE s # w.id
      <4>1. There(s) /\ reg'[s] = reg[s] /\ reg[s].of \in Invoice
        BY <1>6, <1>10, <2>2, <3>2
      <4> QED BY <1>1, <1>3, <2>2, <4>1 DEF Books
    <3> QED BY <3>1, <3>2
  <2>3. ASSUME NEW i \in Invoice, inv'[i].st = "SENT"
        PROVE  \E s \in Stamp : reg'[s] # None /\ reg'[s].kind = "ALTA" /\ reg'[s].of = i /\ reg'[s].st = "ACCEPTED"
    <3>1. PICK s \in Stamp : There(s) /\ reg[s].kind = "ALTA" /\ reg[s].of = i /\ reg[s].st = "ACCEPTED"
      BY <1>1, <1>3, <2>3 DEF Books
    <3> QED BY <1>11, <3>1
  <2> QED BY <2>1, <2>2, <2>3 DEF Books, There
<1>14. ChainIntact' /\ Honest'
  BY <1>2 DEF Whole, ChainIntact, Honest
<1>15. Edits'
  <2> SUFFICES ASSUME perils = {}, NEW s \in Stamp, reg'[s] # None PROVE reg'[s].ed = inv'[reg'[s].of].ed
    BY <1>2 DEF Edits, There
  <2>1. CASE s = w.id
    BY <1>3, <1>4, <2>1
  <2>2. CASE s # w.id
    <3>1. There(s) /\ reg'[s] = reg[s] /\ reg[s].of \in Invoice
      BY <1>6, <1>10, <2>2
    <3> QED BY <1>3, <3>1 DEF Whole, Edits
  <2> QED BY <2>1, <2>2
<1>16. ASSUME NEW q \in Req \ {r} PROVE Works(q)'
  <2>1. req'[q] = req[q] /\ req[q].pc \notin Working /\ Works(q) /\ Held' = Held
    BY <1>1, <1>2, <1>3, Alone DEF Whole, Held
  <2>2. req[q].call = "annul" => inv'[req[q].of].st = "SENT"
    BY <1>1, <1>3, <2>1 DEF Works, Aimed
  <2>3. req[q].pc = "write" /\ req[q].call = "confirm" =>
          \E s \in Stamp : reg'[s] # None /\ reg'[s].kind = "ALTA" /\ reg'[s].of = req[q].of /\ s \in Held
    BY <1>11, <2>1 DEF Works
  <2>4. /\ req[q].pc = "lock" => req[q].call \in {"submit", "annul"}
        /\ req[q].fresh => req[q].call = "submit"
        /\ req[q].call = "annul" => req[q].pc # "idle"
        /\ req[q].pc \notin Carrying \cup {"register", "release"}
    BY <2>1 DEF Works, Working
  <2> QED BY <2>1, <2>2, <2>3, <2>4 DEF Works, There
<1>17. Works(r)'
  <2>1. \A t \in Stamp : reg'[t] # None => reg'[t].seq <= w.seq
    <3> SUFFICES ASSUME NEW t \in Stamp, reg'[t] # None PROVE reg'[t].seq <= w.seq
      OBVIOUS
    <3>1. t = w.id => reg'[t].seq = n + 1
      BY <1>3, <1>9
    <3>2. t # w.id => reg'[t].seq \in 1..n
      BY <1>6, <1>10
    <3> QED BY <1>1, <1>9, <3>1, <3>2
  <2>2. Carries(r)'
    BY <1>3, <1>4, <1>5, <2>1 DEF Carries, There
  <2>3. /\ lock' = r /\ req[r].call \in {"submit", "annul"} /\ (req[r].fresh => req[r].call = "submit")
        /\ req[r].call = "annul" => inv'[req[r].of].st = "SENT"
    BY <1>1, <1>2, <1>3, <1>4 DEF Works
  <2> QED BY <1>3, <1>5, <2>2, <2>3 DEF Works, Working, Carrying
<1> QED BY <1>12, <1>13, <1>14, <1>15, <1>16, <1>17 DEF Whole

(* AEAT takes the record of the last row, after the one it took before. *)
LEMMA CalmTakes ==
  ASSUME Ledger, Whole, NEW r \in Req, NEW rec, Takes(r, rec)
  PROVE  Whole'
<1> DEFINE n == Len(aeat)
           w == req[r].row
<1>1. /\ TypeOK /\ Rooted /\ Aimed /\ Order /\ Books /\ Works(r) /\ OneRecord
      /\ aeat \in Seq(Envelope) /\ n \in Nat /\ DOMAIN aeat = 1..n
      /\ UNCHANGED <<inv, reg, signed, lock, perils>> /\ req[r].pc = "sent" /\ req[r].pc \in Working
  BY DEF Ledger, Whole, Working, Carrying, TypeOK, Takes
<1>2. /\ req'[r] = rec /\ \A q \in Req \ {r} : req'[q] = req[q]
      /\ Len(aeat') = n + 1 /\ \A k \in 1..n : aeat'[k] = aeat[k]
      /\ aeat'[n + 1].row = w /\ aeat'[n + 1].link = req[r].link /\ aeat'[n + 1].ed = req[r].ed
      /\ w.id \notin Held /\ Ledger'
  BY TakesKeeps
<1>3. DOMAIN aeat' = 1..(n + 1)
  BY <1>1, <1>2 DEF Ledger, TypeOK
<1>4. Carries(r) /\ w \in RowRec /\ w.id \in Stamp
  BY <1>1, ReqIs DEF Works, Carrying, CarryPC, RowRec
<1>5. There(w.id) /\ Same(reg[w.id], w)
  <2>1. There(w.id) /\ w \in Copies /\ reg[w.id] \in Copies /\ reg[w.id].id = w.id
    BY <1>1, <1>4, CopiesAre, NoneIsNoRow DEF Carries, Rooted
  <2> QED BY <1>1, <2>1 DEF OneRecord
<1> HIDE DEF n
<1>6. w.seq = n + 1 /\ reg[w.id].seq = n + 1
  <2>1. reg[w.id].seq \in 1..(n + 1) /\ ~(reg[w.id].seq <= n)
    BY <1>1, <1>2, <1>4, <1>5, HeldIs DEF Order, n
  <2>2. reg[w.id].seq = n + 1
    BY <1>1, <2>1
  <2> QED BY <1>5, <2>2 DEF Same
<1>7. w.prev = IF w.seq = 1 THEN 0 ELSE aeat[w.seq - 1].row.id
  BY <1>1, <1>4, <1>5 DEF Order, Same
<1>8. Held \subseteq Held' /\ w.id \in Held'
  BY <1>1, <1>2, <1>3 DEF Held
<1>9. Order'
  <2>1. ASSUME NEW k \in 1..(n + 1) PROVE There(aeat'[k].row.id) /\ reg[aeat'[k].row.id].seq = k
    <3>1. CASE k \in 1..n
      BY <1>1, <1>2, <3>1 DEF Order
    <3>2. CASE k = n + 1
      BY <1>2, <1>5, <1>6, <3>2
    <3> QED BY <1>1, <3>1, <3>2
  <2>2. ASSUME NEW s \in Stamp, There(s)
        PROVE  /\ reg[s].seq \in 1..(n + 1 + 1)
               /\ reg[s].seq <= n + 1 => aeat'[reg[s].seq].row.id = s
               /\ reg[s].seq = n + 1 + 1 => reg[s].st = "PENDING"
               /\ reg[s].prev = IF reg[s].seq = 1 THEN 0 ELSE aeat'[reg[s].seq - 1].row.id
    <3>1. /\ reg[s].seq \in 1..(n + 1)
          /\ reg[s].seq <= n => aeat[reg[s].seq].row.id = s
          /\ reg[s].prev = IF reg[s].seq = 1 THEN 0 ELSE aeat[reg[s].seq - 1].row.id
      BY <1>1, <2>2 DEF Order, n
    <3>2. reg[s].seq = n + 1 => s = w.id
      BY <1>1, <1>4, <1>5, <1>6, <2>2 DEF Order
    <3>3. reg[s].seq <= n + 1 => aeat'[reg[s].seq].row.id = s
      <4>1. CASE reg[s].seq = n + 1
        BY <1>2, <3>2, <4>1
      <4>2. CASE reg[s].seq \in 1..n
        BY <1>1, <1>2, <3>1, <4>2
      <4> QED BY <1>1, <3>1, <4>1, <4>2
    <3>4. reg[s].seq # 1 => aeat'[reg[s].seq - 1] = aeat[reg[s].seq - 1]
      <4>1. reg[s].seq # 1 => reg[s].seq - 1 \in 1..n
        BY <1>1, <3>1
      <4> QED BY <1>2, <4>1
    <3> QED BY <1>1, <3>1, <3>3, <3>4
  <2>3. /\ \A s, t \in Stamp : There(s) /\ There(t) /\ reg[s].seq = reg[t].seq => s = t
        /\ \A s, t \in Stamp : There(s) /\ There(t) /\ reg[s].st = "PENDING" => reg[t].seq <= reg[s].seq
    BY <1>1 DEF Order
  <2> QED BY <1>1, <1>2, <1>3, <2>1, <2>2, <2>3 DEF Order, There
<1>10. Books' /\ Edits'
  BY <1>1 DEF Whole, Books, Edits, There
<1>11. ChainIntact'
  <2> SUFFICES ASSUME NEW k \in 1..(n + 1) PROVE aeat'[k].link = IF k = 1 THEN 0 ELSE aeat'[k - 1].row.id
    BY <1>3 DEF ChainIntact
  <2>1. k # 1 => k - 1 \in 1..n /\ aeat'[k - 1] = aeat[k - 1]
    BY <1>1, <1>2
  <2>2. CASE k \in 1..n
    BY <1>1, <1>2, <2>1, <2>2 DEF Whole, ChainIntact
  <2>3. CASE k = n + 1
    BY <1>1, <1>2, <1>4, <1>6, <1>7, <2>1, <2>3 DEF Carries
  <2> QED BY <1>1, <2>2, <2>3
<1>12. Honest'
  <2> SUFFICES ASSUME perils = {}, NEW k \in 1..(n + 1) PROVE aeat'[k].ed = aeat'[k].row.ed
    BY <1>1, <1>3 DEF Honest
  <2>1. CASE k \in 1..n
    BY <1>1, <1>2, <2>1 DEF Whole, Honest
  <2>2. CASE k = n + 1
    BY <1>1, <1>2, <1>4, <2>2 DEF Carries
  <2> QED BY <1>1, <2>1, <2>2
<1>13. ASSUME NEW q \in Req \ {r} PROVE Works(q)'
  <2>1. req'[q] = req[q] /\ req[q].pc \notin Working /\ Works(q)
    BY <1>1, <1>2, Alone DEF Whole
  <2>2. /\ req[q].pc = "lock" => req[q].call \in {"submit", "annul"}
        /\ req[q].fresh => req[q].call = "submit"
        /\ req[q].call = "annul" => req[q].pc # "idle" /\ inv[req[q].of].st = "SENT"
        /\ req[q].pc \notin Carrying \cup {"register", "release"}
        /\ req[q].pc = "write" /\ req[q].call = "confirm" =>
             \E s \in Stamp : There(s) /\ reg[s].kind = "ALTA" /\ reg[s].of = req[q].of /\ s \in Held'
    BY <1>8, <2>1 DEF Works, Working
  <2> QED BY <1>1, <2>1, <2>2 DEF Works, There
<1>14. Works(r)'
  <2>1. /\ rec.pc = "done" /\ rec.call = req[r].call /\ rec.of = req[r].of /\ rec.row = w /\ rec.fresh = req[r].fresh
        /\ rec.answer \in {"accepted", "lost"}
    BY DEF Takes, On
  <2>2. Carries(r)'
    BY <1>1, <1>2, <1>4, <1>8, <2>1 DEF Carries, There
  <2> QED BY <1>1, <1>2, <2>1, <2>2 DEF Works, Working, Carrying
<1> QED BY <1>9, <1>10, <1>11, <1>12, <1>13, <1>14 DEF Whole

(* A peril once met is not forgotten. *)
LEMMA PerilsStay == ASSUME [Next]_vars PROVE perils \subseteq perils'
<1>1. ASSUME NEW r \in Req, Submission(r) PROVE perils \subseteq perils'
  <2>1. CASE Start(r) \/ Lock(r) \/ LookSubmit(r) \/ LookAnnul(r)
    BY <2>1, Zenon DEF Start, Lock, LookSubmit, LookAnnul
  <2>2. CASE RegisterSubmit(r)
    <3>1. \E happens : Meet("annul", happens)
      BY <2>2, Zenon DEF RegisterSubmit
    <3> QED BY <3>1 DEF Meet
  <2>3. CASE RegisterAnnul(r) \/ Send(r) \/ Decide(r)
    BY <2>3, Zenon DEF RegisterAnnul, Send, Decide
  <2>4. CASE Finish(r)
    <3>1. \E happens : Meet("error", happens)
      BY <2>4, Zenon DEF Finish
    <3> QED BY <3>1 DEF Meet
  <2>5. CASE Undo(r) \/ Release(r) \/ LockExpires(r)
    BY <2>5 DEF Undo, Release, LockExpires, Meet
  <2> QED BY <1>1, <2>1, <2>2, <2>3, <2>4, <2>5 DEF Submission
<1>2. ASSUME NEW r \in Req, Direct(r) PROVE perils \subseteq perils'
  <2>1. CASE Open(r) \/ Confirm(r)
    BY <2>1, Zenon DEF Open, Confirm
  <2>2. CASE Cancel(r) \/ Edit(r) \/ Remove(r)
    <3>1. \E p, happens : Meet(p, happens)
      BY <2>2, Zenon DEF Cancel, Edit, Remove
    <3> QED BY <3>1 DEF Meet
  <2> QED BY <1>2, <2>1, <2>2 DEF Direct
<1>3. CASE Crash
  BY <1>3 DEF Crash
<1>4. CASE UNCHANGED vars
  BY <1>4 DEF vars
<1> QED BY <1>1, <1>2, <1>3, <1>4 DEF Next

LEMMA InitCalm == Init => CalmInv
<1> SUFFICES ASSUME Init PROVE Whole
  BY InitLedger DEF CalmInv
<1>1. /\ \A s \in Stamp : ~There(s)
      /\ \A r \in Req : req[r] = Idle
      /\ \A i \in Invoice : inv[i].st # "SENT"
      /\ aeat = <<>> /\ DOMAIN aeat = {}
  BY DEF Init, There
<1>2. Order /\ Books /\ ChainIntact /\ Edits /\ Honest
  BY <1>1 DEF Order, Books, ChainIntact, Edits, Honest
<1>3. "annul" # None
  BY NoneIsNoRow DEF AllCalls
<1> QED BY <1>1, <1>2, <1>3, IdleIs DEF Whole, Works, Working, Carrying

LEMMA StepWhole ==
  ASSUME Repeats, Ledger, Whole, [Next]_vars, perils' \subseteq {"edit"}
  PROVE  Whole'
<1>1. TypeOK /\ Rooted /\ Aimed
  BY DEF Ledger
<1>2. CASE UNCHANGED vars
  <2>1. Calmly
    BY <1>2, CalmlyIdle DEF vars, Whole
  <2>2. Order' /\ Books' /\ ChainIntact' /\ Edits' /\ Honest'
    BY <2>1, CalmlyKeeps DEF Whole
  <2>3. \A q \in Req : Works(q)'
    <3>1. \A q \in Req : req'[q] = req[q] /\ (req[q].pc \in Carrying => reg'[req[q].row.id] # None)
      BY <1>2 DEF vars, Whole, Works, Carries, There
    <3>2. lock' = lock
      BY <1>2 DEF vars
    <3> QED BY <2>1, <3>1, <3>2, WorksStays DEF Whole
  <2> QED BY <2>2, <2>3 DEF Whole
<1>3. CASE Crash
  <2>1. UNCHANGED <<inv, reg, aeat, perils>>
    BY <1>3 DEF Crash
  <2>2. Order' /\ Books' /\ ChainIntact' /\ Edits' /\ Honest'
    BY <2>1, CalmlyIdle, CalmlyKeeps DEF Whole
  <2>3. \A q \in Req : Works(q)'
    BY <1>3, CrashKeeps, WorksIdle
  <2> QED BY <2>2, <2>3 DEF Whole
<1>4. ASSUME NEW r \in Req, Submission(r) PROVE Whole'
  <2>1. CASE RegisterSubmit(r) \/ RegisterAnnul(r)
    <3>1. req[r].pc = "register"
      BY <1>1, <2>1, RegisterIs
    <3>2. CASE Ended(r) /\ UNCHANGED <<inv, reg, signed, aeat, perils>>
      BY <3>2, CalmEndIdle
    <3>3. CASE \E w \in RowRec : \E rec : Signs(r, w, rec)
      BY <3>1, <3>3, CalmSigns
    <3> QED BY <1>1, <2>1, <3>2, <3>3, RegisterIs
  <2>2. CASE Decide(r)
    <3>1. CASE \E rec : Takes(r, rec)
      BY <3>1, CalmTakes
    <3>2. CASE /\ UNCHANGED <<inv, reg, signed, aeat, lock, perils>> /\ req[r].pc = "sent"
               /\ \E rec : /\ On(r, "done", rec)
                           /\ rec.answer = "accepted" => req[r].row.id \in Held
                           /\ rec.answer = "rejected" => (Repeats => req[r].row.id \notin Held)
      BY <3>2, CalmAnswer
    <3> QED BY <2>2, <3>1, <3>2, DecideSplit
  <2>3. CASE LockExpires(r)
    BY <2>3, ExpiresIs
  <2> QED BY <1>4, <2>1, <2>2, <2>3, CalmStart, CalmLock, CalmLook, CalmSend, CalmFinish, CalmUndo, CalmRelease
          DEF Submission
<1>5. ASSUME NEW r \in Req, Direct(r) PROVE Whole'
  BY <1>5, CalmOpen, CalmConfirm, CalmCancel, CalmEdit, CalmRemove DEF Direct
<1> QED BY <1>2, <1>3, <1>4, <1>5 DEF Next

LEMMA StepCalm == Repeats => (CalmInv /\ [Next]_vars => CalmInv')
<1> SUFFICES ASSUME Repeats, CalmInv, [Next]_vars PROVE CalmInv'
  OBVIOUS
<1>1. Ledger'
  BY StepLedger DEF CalmInv
<1>2. ASSUME perils' \subseteq {"edit"} PROVE Whole'
  <2>1. Calm
    BY <1>2, PerilsStay DEF Calm
  <2> QED BY <1>2, <2>1, StepWhole DEF CalmInv
<1> QED BY <1>1, <1>2 DEF CalmInv, Calm

LEMMA CalmHolds == Repeats => (Spec => []CalmInv)
<1> SUFFICES ASSUME Repeats PROVE Spec => []CalmInv
  OBVIOUS
<1>1. CalmInv /\ [Next]_vars => CalmInv'
  BY StepCalm
<1> QED BY <1>1, InitCalm, PTL DEF Spec

(* As long as no peril but an edit was met, every record AEAT holds names  *)
(* the record it took just before, and its row is kept: whatever order the *)
(* requests come in, and whatever is refused, lost, retried, confirmed or  *)
(* cancelled.  AEAT answers a repeated record as it did the first: a       *)
(* refusal of what it already has takes the row of a held record back.     *)
THEOREM ChainHolds == Repeats => (Spec => []ChainSound)
<1>1. CalmInv => ChainSound
  <2> SUFFICES ASSUME CalmInv, Calm PROVE ChainIntact /\ RecordKept
    BY DEF ChainSound, ChainBreaksOnlyInPeril, RowLostOnlyInPeril
  <2> QED BY HeldIs DEF CalmInv, Whole, RecordKept, There
<1> QED BY <1>1, CalmHolds, PTL

(* What AEAT got is what was signed unless the chain met a peril, and a    *)
(* row is ACCEPTED only if AEAT holds its record, also when a person       *)
(* confirmed it.                                                           *)
THEOREM AnswersHold == Repeats => (Spec => []AnswersSound)
<1>1. CalmInv => AnswersSound
  <2> SUFFICES ASSUME CalmInv, Calm PROVE (perils = {} => EnvelopeHonest) /\ AcceptedIsThere
    BY DEF AnswersSound, EnvelopeWrongOnlyInPeril, AcceptedWrongOnlyInPeril, Calm
  <2>1. TypeOK /\ Rooted /\ OneRecord /\ Order /\ ChainIntact /\ Honest /\ aeat \in Seq(Envelope)
    BY DEF CalmInv, Ledger, Whole, TypeOK
  <2>2. AcceptedIsThere
    BY HeldIs DEF CalmInv, Whole, AcceptedIsThere, There
  <2>3. ASSUME NEW k \in DOMAIN aeat PROVE aeat[k].link = aeat[k].row.prev
    <3> DEFINE s == aeat[k].row.id
    <3>1. There(s) /\ reg[s].seq = k /\ s \in Stamp
      BY <2>1, AeatIs DEF Order
    <3>2. reg[s] \in Copies /\ aeat[k].row \in Copies /\ reg[s].id = s
      BY <2>1, <3>1, CopiesAre DEF Rooted
    <3>3. reg[s].prev = aeat[k].row.prev
      BY <2>1, <3>2 DEF OneRecord, Same
    <3>4. reg[s].prev = IF k = 1 THEN 0 ELSE aeat[k - 1].row.id
      BY <2>1, <3>1 DEF Order
    <3> QED BY <2>1, <3>3, <3>4 DEF ChainIntact
  <2> QED BY <2>1, <2>2, <2>3 DEF EnvelopeHonest, Honest
<1> QED BY <1>1, CalmHolds, PTL

-----------------------------------------------------------------------------
(* Documents *)
CallRec == [op : {"update", "remove"}, row : Row, old : Key \cup {NoKey}, new : Key \cup {NoKey}, at : {"object", "row"}]

AttachedTyped ==
  /\ rows \in [Row -> [there : BOOLEAN, key : Key \cup {NoKey}]]
  /\ asked \in [Caller -> CallRec \cup {NoCall}]
  /\ objects \subseteq Key /\ unsaved \subseteq Key /\ twice \subseteq Key /\ left \subseteq Key /\ torn \subseteq Row

(* Two calls have one row in hand only if that was noted, and so were two  *)
(* rows of one key; what was not saved is in the store and nobody knows it *)
(* but who uploaded it.                                                    *)
OneCall    == \A c, d \in Caller : c # d /\ asked[c].row \in Row /\ asked[d].row = asked[c].row => asked[c].row \in torn
OneName    == \A q, r \in Row : q # r /\ rows[q].key = rows[r].key => rows[r].key \in twice \cup {NoKey}
OwnUploads == \A k \in unsaved : k \in objects /\ ~Named(k) /\ \A c \in Caller : asked[c].old # k

(* What a call knows of the row it has in hand is true, unless the row was *)
(* met by another: the key it read, the object before and after it takes   *)
(* it away.                                                                *)
Knows(a) ==
  /\ \A q \in Row \ {a.row} : rows[q].key = a.old => a.old \in twice \cup {NoKey}
  /\ a.op = "remove" => a.new = NoKey
  /\ a.row \notin torn =>
       /\ rows[a.row].there /\ rows[a.row].key = a.old
       /\ a.at = "object" \/ ~Replaced(a) => a.old \in objects \cup twice \cup {NoKey}
       /\ a.at = "row" /\ Replaced(a) => a.old \notin objects
CallsKnow == \A c \in Caller : asked[c] # NoCall => Knows(asked[c])

AttachedInv == AttachedTyped /\ OneCall /\ OneName /\ OwnUploads /\ CallsKnow /\ DocumentsKept

LEMMA AttachedStarts == DInit => AttachedInv
  BY AttachedAssumption DEF DInit, AttachedInv, AttachedTyped, OneCall, OneName, OwnUploads, CallsKnow, DocumentsKept, DocumentThere,
    NothingForgotten, NoCall, CallRec

LEMMA AtRest == AttachedTyped => \A c \in Caller : asked[c] \in CallRec <=> asked[c] # NoCall
  BY AttachedAssumption DEF AttachedTyped, NoCall, CallRec

LEMMA AttachedUpload ==
  ASSUME AttachedInv, NEW k \in Key, Upload(k)
  PROVE  AttachedInv'
<1> USE AttachedAssumption, AtRest DEF AttachedInv
<1>1. k \notin objects /\ k \notin unsaved /\ k # NoKey /\ (\A r \in Row : rows[r].key # k) /\ \A c \in Caller : asked[c].old # k
  BY DEF Upload, Used, OwnUploads
<1>2. AttachedTyped'
  BY DEF Upload, AttachedTyped
<1>3. OneCall' /\ OneName' /\ OwnUploads'
  BY <1>1 DEF Upload, OneCall, OneName, OwnUploads, Named
<1>4. CallsKnow'
  BY <1>1 DEF Upload, CallsKnow, Knows, Replaced
<1>5. DocumentThere'
  BY DEF Upload, DocumentsKept, DocumentThere, InHand
<1>6. NothingForgotten'
  BY DEF Upload, DocumentsKept, NothingForgotten, Named
<1> QED BY <1>2, <1>3, <1>4, <1>5, <1>6 DEF DocumentsKept

(* A save gives a row another key: whoever else has that key shares it     *)
(* from now on.                                                            *)
LEMMA Saved ==
  ASSUME AttachedInv, NEW r \in Row, NEW k \in Key \cup {NoKey}, Save(r, k)
  PROVE  /\ rows' \in [Row -> [there : BOOLEAN, key : Key \cup {NoKey}]] /\ unsaved' \subseteq Key /\ twice' \subseteq Key
         /\ twice \subseteq twice' /\ unsaved' \subseteq unsaved /\ unsaved \subseteq unsaved' \cup {k} /\ k \notin unsaved'
         /\ rows'[r].there /\ rows'[r].key = k /\ \A q \in Row \ {r} : rows'[q] = rows[q]
         /\ OneName'
         /\ \A q \in Row : rows'[q].key \notin unsaved'
         /\ \A c \in Caller, q \in Row : asked[c] # NoCall /\ q # asked[c].row /\ rows'[q].key = asked[c].old
              => asked[c].old \in twice' \cup {NoKey}
         /\ k \in {NoKey, rows[r].key} \cup unsaved \cup twice'
<1> USE AttachedAssumption, AtRest DEF AttachedInv
<1>1. /\ rows' \in [Row -> [there : BOOLEAN, key : Key \cup {NoKey}]] /\ unsaved' \subseteq Key /\ twice' \subseteq Key
      /\ twice \subseteq twice' /\ unsaved' \subseteq unsaved /\ unsaved \subseteq unsaved' \cup {k} /\ k \notin unsaved'
      /\ rows'[r].there /\ rows'[r].key = k /\ \A q \in Row \ {r} : rows'[q] = rows[q]
  BY DEF Save, AttachedTyped
<1>2. k \in {NoKey, rows[r].key} \cup unsaved \cup twice'
  BY DEF Save
<1>3. ASSUME NEW q \in Row, rows[q].key = k, q # r PROVE k \in twice' \cup {NoKey}
  BY <1>1, <1>2, <1>3 DEF OneName, OwnUploads, Named
<1>4. OneName'
  BY <1>1, <1>3 DEF OneName
<1>5. \A q \in Row : rows'[q].key \notin unsaved'
  BY <1>1 DEF OwnUploads, Named
<1>6. ASSUME NEW c \in Caller, NEW q \in Row, asked[c] # NoCall, q # asked[c].row, rows'[q].key = asked[c].old
      PROVE  asked[c].old \in twice' \cup {NoKey}
  <2>1. asked[c].row \in Row /\ Knows(asked[c])
    BY <1>6 DEF CallsKnow, CallRec
  <2>2. CASE q # r
    BY <1>1, <1>6, <2>1, <2>2 DEF Knows
  <2>3. CASE q = r /\ rows[r].key = k
    BY <1>1, <1>6, <2>1, <2>3 DEF Knows
  <2>4. CASE q = r /\ rows[r].key # k
    BY <1>1, <1>2, <1>6, <2>4 DEF OwnUploads
  <2> QED BY <2>2, <2>3, <2>4
<1> QED BY <1>1, <1>2, <1>4, <1>5, <1>6

LEMMA AttachedCreate ==
  ASSUME AttachedInv, NEW r \in Row, NEW k \in Key \cup {NoKey}, Create(r, k)
  PROVE  AttachedInv'
<1> USE AttachedAssumption, AtRest DEF AttachedInv
<1>1. Save(r, k) /\ UNCHANGED <<objects, asked>> /\ (k = NoKey \/ k \in objects) /\ torn \subseteq torn' /\ left \subseteq left'
  BY DEF Create
<1>2. /\ InHand(r) => r \in torn'
      /\ rows[r].key \in {NoKey, k} \cup left'
      /\ torn' \subseteq Row /\ left' \subseteq Key
  BY DEF Create, AttachedTyped
<1> DEFINE S == /\ rows' \in [Row -> [there : BOOLEAN, key : Key \cup {NoKey}]] /\ unsaved' \subseteq Key /\ twice' \subseteq Key
                /\ twice \subseteq twice' /\ unsaved' \subseteq unsaved /\ unsaved \subseteq unsaved' \cup {k} /\ k \notin unsaved'
                /\ rows'[r].there /\ rows'[r].key = k /\ \A q \in Row \ {r} : rows'[q] = rows[q]
<1>3. /\ S /\ OneName' /\ \A q \in Row : rows'[q].key \notin unsaved'
      /\ \A c \in Caller, q \in Row : asked[c] # NoCall /\ q # asked[c].row /\ rows'[q].key = asked[c].old
           => asked[c].old \in twice' \cup {NoKey}
  BY <1>1, Saved
<1>4. AttachedTyped'
  BY <1>1, <1>2, <1>3 DEF AttachedTyped
<1>5. OneCall' /\ OwnUploads'
  BY <1>1, <1>3 DEF OneCall, OwnUploads, Named
<1>6. CallsKnow'
  <2> SUFFICES ASSUME NEW c \in Caller, asked[c] # NoCall PROVE Knows(asked[c])'
    BY <1>1 DEF CallsKnow
  <2>1. Knows(asked[c]) /\ asked[c].row \in Row /\ (asked[c].row = r => r \in torn')
    BY <1>2 DEF CallsKnow, CallRec, InHand
  <2> QED BY <1>1, <1>3, <2>1 DEF Knows, Replaced
<1>7. DocumentThere'
  BY <1>1, <1>3 DEF DocumentsKept, DocumentThere, InHand
<1>8. NothingForgotten'
  <2> SUFFICES ASSUME torn' = {}, NEW j \in objects
               PROVE  Named(j)' \/ j \in unsaved' \cup left' \cup twice' \/ \E c \in Caller : j \in {asked[c].old, asked[c].new}
    BY <1>1 DEF NothingForgotten
  <2>1. Named(j) \/ j \in unsaved \cup left \cup twice \/ \E c \in Caller : j \in {asked[c].old, asked[c].new}
    BY <1>1 DEF DocumentsKept, NothingForgotten
  <2>2. j # NoKey
    BY DEF AttachedTyped
  <2>3. CASE Named(j)
    BY <1>2, <1>3, <2>2, <2>3 DEF Named
  <2> QED BY <1>1, <1>3, <2>1, <2>3 DEF Named
<1> QED BY <1>3, <1>4, <1>5, <1>6, <1>7, <1>8 DEF DocumentsKept

LEMMA AttachedLook ==
  ASSUME AttachedInv, NEW c \in Caller, NEW r \in Row, NEW op \in {"update", "remove"}, NEW k \in Key \cup {NoKey}, Look(c, r, op, k),
         op = "remove" => k = NoKey
  PROVE  AttachedInv'
<1> USE AttachedAssumption, AtRest DEF AttachedInv
<1> DEFINE a == [op |-> op, row |-> r, old |-> rows[r].key, new |-> k, at |-> "object"]
<1>1. /\ asked[c] = NoCall /\ rows[r].there /\ UNCHANGED <<rows, objects, unsaved, twice, left>>
      /\ asked' = [asked EXCEPT ![c] = a] /\ torn \subseteq torn' /\ (InHand(r) => r \in torn') /\ torn' \subseteq Row
  BY DEF Look, AttachedTyped
<1>2. /\ a \in CallRec /\ a.row = r /\ a.old = rows[r].key /\ a.new = k /\ a.op = op /\ a.at = "object" /\ a # NoCall
  BY DEF AttachedTyped, CallRec, NoCall
<1> HIDE DEF a
<1>3. asked'[c] = a /\ \A d \in Caller \ {c} : asked'[d] = asked[d]
  BY <1>1 DEF AttachedTyped
<1>4. AttachedTyped'
  BY <1>1, <1>2 DEF AttachedTyped
<1>5. OneCall' /\ OneName' /\ OwnUploads'
  BY <1>1, <1>2, <1>3 DEF OneCall, OneName, OwnUploads, Named, InHand
<1>6. CallsKnow'
  <2>1. ASSUME NEW d \in Caller \ {c}, asked[d] # NoCall PROVE Knows(asked[d])'
    <3>1. Knows(asked[d]) /\ asked'[d] = asked[d]
      BY <1>3, <2>1 DEF CallsKnow
    <3> QED BY <1>1, <3>1 DEF Knows, Replaced
  <2>2. r \notin torn' => a.old \in objects \cup twice \cup {NoKey}
    BY <1>1, <1>2 DEF DocumentsKept, DocumentThere
  <2>3. Knows(asked[c])'
    BY <1>1, <1>2, <1>3, <2>2 DEF Knows, Replaced, OneName
  <2> QED BY <1>3, <2>1, <2>3 DEF CallsKnow
<1>7. DocumentThere'
  <2> SUFFICES ASSUME NEW q \in Row PROVE rows[q].key \in objects \cup twice \cup {NoKey} \/ InHand(q)' \/ q \in torn'
    BY <1>1 DEF DocumentThere
  <2>1. InHand(q) => InHand(q)'
    BY <1>1, <1>3 DEF InHand, NoCall
  <2> QED BY <1>1, <2>1 DEF DocumentsKept, DocumentThere
<1>8. NothingForgotten'
  <2> SUFFICES ASSUME torn' = {}, NEW j \in objects
               PROVE  Named(j) \/ j \in unsaved \cup left \cup twice \/ \E d \in Caller : j \in {asked'[d].old, asked'[d].new}
    BY <1>1 DEF NothingForgotten, Named
  <2>1. j # NoKey /\ torn = {}
    BY <1>1 DEF AttachedTyped
  <2> QED BY <1>1, <1>3, <2>1 DEF DocumentsKept, NothingForgotten, NoCall
<1> QED BY <1>4, <1>5, <1>6, <1>7, <1>8 DEF DocumentsKept

LEMMA AttachedDrop ==
  ASSUME AttachedInv, NEW c \in Caller, DropObject(c)
  PROVE  AttachedInv'
<1> USE AttachedAssumption, AtRest DEF AttachedInv
<1> DEFINE a == asked[c]
<1>1. /\ a.at = "object" /\ UNCHANGED <<rows, unsaved, twice, left, torn>>
      /\ objects' = IF Replaced(a) THEN objects \ {a.old} ELSE objects
      /\ asked' = [asked EXCEPT ![c].at = "row"]
  BY DEF DropObject
<1>2. a \in CallRec /\ a # NoCall /\ Knows(a)
  BY <1>1 DEF AttachedTyped, CallsKnow, NoCall
<1> DEFINE b == [a EXCEPT !.at = "row"]
<1>3. /\ b \in CallRec /\ b.row = a.row /\ b.old = a.old /\ b.new = a.new /\ b.op = a.op /\ b.at = "row" /\ b # NoCall
      /\ asked' = [asked EXCEPT ![c] = b]
  BY <1>1, <1>2 DEF CallRec, NoCall
<1> HIDE DEF b
<1>4. asked'[c] = b /\ \A d \in Caller \ {c} : asked'[d] = asked[d]
  BY <1>3 DEF AttachedTyped
<1>5. AttachedTyped'
  BY <1>1, <1>3 DEF AttachedTyped
<1>6. OneCall' /\ OneName' /\ OwnUploads'
  BY <1>1, <1>2, <1>3, <1>4 DEF OneCall, OneName, OwnUploads, Named
<1>7. CallsKnow'
  <2>1. ASSUME NEW d \in Caller \ {c}, asked[d] # NoCall PROVE Knows(asked[d])'
    <3>1. PICK e \in CallRec : e = asked[d] /\ asked'[d] = e /\ Knows(e)
      BY <1>4, <2>1 DEF CallsKnow
    <3>2. e.row \notin torn => a.row # e.row
      BY <1>2, <3>1 DEF OneCall, CallRec
    <3>3. e.row \notin torn /\ e.old = a.old => e.old \in twice \cup {NoKey}
      BY <1>2, <3>1, <3>2 DEF Knows, CallRec
    <3> HIDE DEF a
    <3>4. Knows(e)'
      BY <1>1, <3>1, <3>3 DEF Knows, Replaced
    <3> QED BY <3>1, <3>4
  <2>2. Knows(asked[c])'
    <3> HIDE DEF a
    <3> QED BY <1>1, <1>2, <1>3, <1>4 DEF Knows, Replaced
  <2> QED BY <1>4, <2>1, <2>2 DEF CallsKnow
<1>8. DocumentThere'
  <2> SUFFICES ASSUME NEW r \in Row, rows[r].key # NoKey, ~InHand(r), r \notin torn, rows[r].key \notin twice
               PROVE  rows[r].key \in objects'
    BY <1>1, <1>3, <1>4 DEF DocumentThere, InHand
  <2>1. rows[r].key \in objects /\ r # a.row
    BY DEF DocumentsKept, DocumentThere, InHand
  <2>2. rows[r].key # a.old
    BY <1>2, <2>1 DEF Knows
  <2> QED BY <1>1, <2>1, <2>2
<1>9. NothingForgotten'
  <2> SUFFICES ASSUME torn = {}, NEW j \in objects
               PROVE  Named(j) \/ j \in unsaved \cup left \cup twice \/ \E d \in Caller : j \in {asked'[d].old, asked'[d].new}
    BY <1>1 DEF NothingForgotten, Named
  <2> QED BY <1>3, <1>4 DEF DocumentsKept, NothingForgotten
<1> QED BY <1>5, <1>6, <1>7, <1>8, <1>9 DEF DocumentsKept

LEMMA AttachedWrite ==
  ASSUME AttachedInv, NEW c \in Caller, WriteRow(c)
  PROVE  AttachedInv'
<1> USE AttachedAssumption, AtRest DEF AttachedInv
<1>1. PICK a \in CallRec : a = asked[c] /\ a # NoCall /\ Knows(a) /\ a.at = "row"
  BY DEF WriteRow, AttachedTyped, CallsKnow, NoCall
<1>2. asked' = [asked EXCEPT ![c] = NoCall] /\ UNCHANGED <<objects, left, torn>>
  BY DEF WriteRow
<1>3. asked'[c] = NoCall /\ \A d \in Caller \ {c} : asked'[d] = asked[d]
  BY <1>2 DEF AttachedTyped
<1>4. a.row \in Row /\ a.old \in Key \cup {NoKey} /\ a.new \in Key \cup {NoKey} /\ a.op \in {"update", "remove"}
  BY DEF CallRec
<1>5. NoCall.row = NoKey /\ NoCall.old = NoKey /\ NoCall.new = NoKey
  BY DEF NoCall
<1>6. \A d \in Caller : asked'[d].row \in Row => d # c /\ asked'[d] = asked[d]
  BY <1>3, <1>5
<1>7. \A q \in Row : q # a.row => (InHand(q) => InHand(q)')
  BY <1>1, <1>3 DEF InHand
<1>8. \A d \in Caller \ {c} : asked[d].row = a.row => a.row \in torn
  BY <1>1, <1>4 DEF OneCall
<1>9. CASE ~rows[a.row].there
  <2>1. UNCHANGED <<rows, unsaved, twice>> /\ a.row \in torn
    BY <1>1, <1>9 DEF WriteRow, Knows
  <2>2. AttachedTyped'
    BY <1>2, <2>1 DEF AttachedTyped
  <2>3. OneCall' /\ OneName' /\ OwnUploads'
    BY <1>2, <1>3, <1>5, <1>6, <2>1 DEF OneCall, OneName, OwnUploads, Named, AttachedTyped
  <2>4. CallsKnow'
    BY <1>2, <1>3, <2>1 DEF CallsKnow, Knows, Replaced
  <2>5. DocumentThere'
    BY <1>2, <1>7, <2>1 DEF DocumentsKept, DocumentThere
  <2> QED BY <1>2, <2>1, <2>2, <2>3, <2>4, <2>5 DEF DocumentsKept, NothingForgotten
<1>10. ASSUME NEW k \in Key \cup {NoKey}, NEW there \in BOOLEAN,
              rows' = [rows EXCEPT ![a.row] = [there |-> there, key |-> k]],
              unsaved' = unsaved \ {k}, twice \subseteq twice', twice' \subseteq Key,
              k \in {NoKey, rows[a.row].key} \cup unsaved \cup twice',
              OneName', \A q \in Row : rows'[q].key \notin unsaved',
              \A d \in Caller, q \in Row : asked[d] # NoCall /\ q # asked[d].row /\ rows'[q].key = asked[d].old
                => asked[d].old \in twice' \cup {NoKey},
              a.op = "update" => k = a.new, a.op = "remove" => k = NoKey
       PROVE  AttachedInv'
  <2>1. rows'[a.row].key = k /\ rows'[a.row].there = there /\ \A q \in Row \ {a.row} : rows'[q] = rows[q]
    BY <1>4, <1>10 DEF AttachedTyped
  <2>2. AttachedTyped'
    BY <1>2, <1>4, <1>10 DEF AttachedTyped
  <2>3. OneCall' /\ OneName' /\ OwnUploads'
    BY <1>2, <1>3, <1>5, <1>6, <1>10 DEF OneCall, OwnUploads, Named, AttachedTyped
  <2>4. CallsKnow'
    <3> SUFFICES ASSUME NEW d \in Caller \ {c}, asked[d] # NoCall PROVE Knows(asked[d])'
      BY <1>3 DEF CallsKnow
    <3>1. PICK e \in CallRec : e = asked[d] /\ asked'[d] = e /\ Knows(e) /\ e.row \in Row
      BY <1>3 DEF CallsKnow, CallRec
    <3>2. e.row \notin torn => e.row # a.row
      BY <1>8, <3>1
    <3>3. Knows(e)'
      BY <1>2, <1>10, <2>1, <3>1, <3>2 DEF Knows, Replaced
    <3> QED BY <3>1, <3>3
  <2>5. DocumentThere'
    <3> SUFFICES ASSUME NEW q \in Row, ~InHand(q)', q \notin torn PROVE rows'[q].key \in objects \cup twice' \cup {NoKey}
      BY <1>2 DEF DocumentThere
    <3>1. CASE q # a.row
      BY <1>7, <1>10, <2>1, <3>1 DEF DocumentsKept, DocumentThere
    <3>2. CASE q = a.row /\ k \notin {NoKey, a.old}
      BY <1>1, <1>10, <2>1, <3>2 DEF Knows, OwnUploads
    <3>3. CASE q = a.row /\ k = a.old /\ k # NoKey
      BY <1>1, <1>4, <1>10, <2>1, <3>3 DEF Knows, Replaced
    <3> QED BY <2>1, <3>1, <3>2, <3>3
  <2>6. NothingForgotten'
    <3> SUFFICES ASSUME torn = {}, NEW j \in objects, j # NoKey, ~Named(j)', j \notin unsaved' \cup left \cup twice',
                        \A d \in Caller : j \notin {asked'[d].old, asked'[d].new}
                 PROVE  FALSE
      BY <1>2 DEF NothingForgotten, AttachedTyped
    <3>1. j # k
      BY <1>4, <2>1 DEF Named
    <3>2. j # a.old
      BY <1>1, <1>4, <1>10, <3>1 DEF Knows, Replaced
    <3>3. ~Named(j)
      BY <1>1, <2>1, <3>2 DEF Named, Knows
    <3>4. j \notin {a.old, a.new}
      BY <1>1, <1>4, <1>10, <3>1, <3>2 DEF Knows
    <3>5. \A d \in Caller : j \notin {asked[d].old, asked[d].new}
      BY <1>1, <1>3, <3>4
    <3> QED BY <1>10, <3>1, <3>3, <3>5 DEF DocumentsKept, NothingForgotten
  <2> QED BY <2>2, <2>3, <2>4, <2>5, <2>6 DEF DocumentsKept
<1>11. CASE rows[a.row].there /\ a.op = "update"
  <2>1. Save(a.row, a.new)
    BY <1>1, <1>11 DEF WriteRow
  <2>2. rows' = [rows EXCEPT ![a.row] = [there |-> TRUE, key |-> a.new]] /\ unsaved' = unsaved \ {a.new}
    BY <2>1 DEF Save
  <2>3. /\ twice \subseteq twice' /\ twice' \subseteq Key /\ a.new \in {NoKey, rows[a.row].key} \cup unsaved \cup twice'
        /\ OneName' /\ \A q \in Row : rows'[q].key \notin unsaved'
        /\ \A d \in Caller, q \in Row : asked[d] # NoCall /\ q # asked[d].row /\ rows'[q].key = asked[d].old
             => asked[d].old \in twice' \cup {NoKey}
    BY <1>4, <2>1, Saved
  <2> QED BY <1>4, <1>10, <1>11, <2>2, <2>3
<1>12. CASE rows[a.row].there /\ a.op # "update"
  <2>1. rows' = [rows EXCEPT ![a.row] = [there |-> FALSE, key |-> NoKey]] /\ UNCHANGED <<unsaved, twice>>
    BY <1>1, <1>12 DEF WriteRow
  <2>2. \A q \in Row : rows'[q].key \in {NoKey, rows[q].key} /\ (q # a.row => rows'[q] = rows[q])
    BY <1>4, <2>1 DEF AttachedTyped
  <2>3. NoKey \notin unsaved /\ unsaved = unsaved \ {NoKey} /\ twice \subseteq Key
    BY DEF AttachedTyped
  <2>4. OneName'
    BY <2>1, <2>2 DEF OneName
  <2>5. \A q \in Row : rows'[q].key \notin unsaved'
    BY <2>1, <2>2, <2>3 DEF OwnUploads, Named
  <2>6. \A d \in Caller, q \in Row : asked[d] # NoCall /\ q # asked[d].row /\ rows'[q].key = asked[d].old
          => asked[d].old \in twice' \cup {NoKey}
    BY <2>1, <2>2 DEF CallsKnow, Knows
  <2> QED BY <1>4, <1>10, <1>12, <2>1, <2>3, <2>4, <2>5, <2>6
<1> QED BY <1>9, <1>11, <1>12

LEMMA AttachedCutOff ==
  ASSUME AttachedInv, NEW c \in Caller, CutOff(c)
  PROVE  AttachedInv'
<1> USE AttachedAssumption, AtRest DEF AttachedInv
<1>1. /\ asked' = [asked EXCEPT ![c] = NoCall] /\ UNCHANGED <<rows, objects, unsaved, twice, left>>
      /\ torn' = torn \cup {asked[c].row} /\ asked[c] # NoCall
  BY DEF CutOff
<1>2. asked[c].row \in Row /\ NoCall.row = NoKey /\ NoCall.old = NoKey
  BY <1>1 DEF CallRec, NoCall
<1>3. asked'[c] = NoCall /\ \A d \in Caller \ {c} : asked'[d] = asked[d]
  BY <1>1 DEF AttachedTyped
<1>4. AttachedTyped'
  BY <1>1, <1>2 DEF AttachedTyped
<1>5. OneCall' /\ OneName' /\ OwnUploads'
  BY <1>1, <1>2, <1>3 DEF OneCall, OneName, OwnUploads, Named, AttachedTyped
<1>6. CallsKnow'
  BY <1>1, <1>3 DEF CallsKnow, Knows, Replaced
<1>7. DocumentThere'
  BY <1>1, <1>3 DEF DocumentsKept, DocumentThere, InHand
<1> QED BY <1>1, <1>4, <1>5, <1>6, <1>7 DEF DocumentsKept, NothingForgotten

(***************************************************************************)
(* A document that a row of an expense or a filed return names is in the   *)
(* store, and no object is forgotten there, but for the events the module  *)
(* names: for any rows, keys and callers.                                  *)
(***************************************************************************)
THEOREM DocumentsHold == DSpec => []DocumentsKept
<1>1. ASSUME AttachedInv, [DNext]_dvars PROVE AttachedInv'
  <2> USE <1>1
  <2>1. CASE UNCHANGED dvars
    BY <2>1 DEF dvars, AttachedInv, AttachedTyped, OneCall, OneName, OwnUploads, Named, CallsKnow, Knows, Replaced, DocumentsKept,
      DocumentThere, InHand, NothingForgotten
  <2>2. ASSUME NEW c \in Caller, NEW r \in Row, Look(c, r, "remove", NoKey) PROVE AttachedInv'
    BY <2>2, AttachedLook
  <2>3. ASSUME NEW c \in Caller, NEW r \in Row, NEW k \in Key \cup {NoKey}, Look(c, r, "update", k) PROVE AttachedInv'
    BY <2>3, AttachedLook
  <2> QED BY <2>1, <2>2, <2>3, AttachedUpload, AttachedCreate, AttachedDrop, AttachedWrite, AttachedCutOff DEF DNext
<1>2. AttachedInv => DocumentsKept
  BY DEF AttachedInv
<1> QED BY <1>1, <1>2, AttachedStarts, PTL DEF DSpec
=============================================================================
