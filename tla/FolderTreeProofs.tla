--------------------------- MODULE FolderTreeProofs ---------------------------
(***************************************************************************)
(* What FolderTree guarantees for every tree and any number of calls.      *)
(*                                                                         *)
(* Two moves towards each other are kept apart by the locks on their four  *)
(* rows, although each looks at the tree before it writes: MoveInv says    *)
(* what a move that has looked may still rely on.                          *)
(*                                                                         *)
(* Calls that come one after the other leave a tree a mirror can follow:   *)
(* ToldInv says what such calls leave of the tree and of the mirror, and   *)
(* that what a call has read is still so when it writes.                   *)
(***************************************************************************)
EXTENDS FolderTree, FiniteSetTheorems, WellFoundedInduction, TLAPS

DirRec  == Folder \X Dir \X (Name \cup {None})
FileRec == Entry \X Dir

-----------------------------------------------------------------------------
(* Types *)

LEMMA IdleTyped == Idle \in ReqRec /\ Idle.held = {} /\ Idle.pc = "idle"
  BY DEF Idle, ReqRec, ReqShape, PC, Dir

(* The initial state is typed. *)
LEMMA TypeInit == Init => Typed
  BY TreeAssumption, IdleTyped DEF Init, Typed, Dir

(* A call begins with a typed record and without locks. *)
LEMMA TypeStart ==
  ASSUME Typed, NEW r \in Req, NEW rec \in ReqRec, rec.held = {}, Start(r, rec)
  PROVE  Typed'
  BY DEF Typed, Start, rowv, entv, client

LEMMA RowsTyped == ASSUME Typed, NEW f \in Folder
                   PROVE  par[f] \in Dir /\ name[f] \in Name \cup {None}
  BY DEF Typed

(* What a call begins with: no locks, nothing seen; a move with live rows, *)
(* and a rename with a name.                                               *)
Begins(rec) ==
  /\ rec \in ReqRec /\ rec.held = {}
  /\ rec.pc \notin {"walk", "write"}
  /\ rec.pc = "rename" => rec.name # None
  /\ rec.pc \in {"rename", "lock"} =>
       st[rec.f] = "row" /\ (rec.to # None => st[rec.to] = "row")

LEMMA BeginRecord ==
  ASSUME Typed, NEW r \in Req, Begin(r)
  PROVE  \E rec : Begins(rec) /\ Start(r, rec)
<1> DEFINE P == \E rec : Begins(rec) /\ Start(r, rec)
<1>0. ASSUME NEW rec, rec \in ReqRec, rec.held = {}, rec.pc \notin {"walk", "write", "rename", "lock"},
             Start(r, rec)
      PROVE  P
  BY <1>0 DEF Begins
<1> HIDE DEF P
<1>1. ASSUME NEW p \in Folder, NEW n \in Name, Create(r, p, n) PROVE P
  <2> DEFINE rec == [Idle EXCEPT !.pc = "create", !.to = p, !.name = n]
  <2>1. rec \in ReqRec /\ rec.held = {} /\ rec.pc = "create"
    BY DEF Idle, ReqRec, ReqShape, PC, Dir
  <2>2. Start(r, rec)
    BY <1>1 DEF Create
  <2> HIDE DEF rec
  <2> QED BY <2>1, <2>2, <1>0
<1>2. ASSUME NEW f \in Folder, NEW t \in Dir, NEW n \in Name \cup {None}, Patch(r, f, t, n) PROVE P
  <2> DEFINE pc  == IF n # None THEN "rename" ELSE "lock"
             was == <<par[f], name[f]>>
             rec == [Idle EXCEPT !.pc = pc, !.f = f, !.to = t, !.name = n, !.was = was]
  <2>1. /\ was \in Dir \X (Name \cup {None}) /\ f \in Dir \cup Entry
        /\ n = None => t \in Folder
    BY <1>2, RowsTyped DEF Patch, Dir
  <2>2. pc \in {"rename", "lock"} /\ (pc = "lock" => t \in Folder) /\ (pc = "rename" => n # None)
    BY <2>1
  <2>3. st[f] = "row" /\ (t # None => st[t] = "row") /\ Start(r, rec)
    BY <1>2 DEF Patch, Visible
  <2> HIDE DEF pc, was
  <2>4. rec \in ReqRec /\ rec.held = {} /\ rec.pc = pc /\ rec.f = f /\ rec.to = t /\ rec.name = n
    BY <2>1, <2>2 DEF Idle, ReqRec, ReqShape, PC
  <2> HIDE DEF rec
  <2>5. Begins(rec)
    BY <2>2, <2>3, <2>4 DEF Begins
  <2> QED BY <2>3, <2>5 DEF P
<1>3. ASSUME NEW f \in Folder, Delete(r, f) PROVE P
  <2> DEFINE D   == {<<g, par[g], name[g]>> : g \in Sub(par, f) \cap Rows}
             rec == [Call("delete", f) EXCEPT !.dirs = D]
  <2>1. D \subseteq DirRec
    BY RowsTyped DEF Rows, DirRec
  <2>2. Start(r, rec)
    BY <1>3 DEF Delete
  <2> HIDE DEF D
  <2>3. rec \in ReqRec /\ rec.held = {} /\ rec.pc = "delete"
    BY <2>1 DEF Call, Idle, ReqRec, ReqShape, PC, Dir, DirRec
  <2> HIDE DEF rec
  <2> QED BY <2>2, <2>3, <1>0
<1>4. ASSUME NEW f \in Folder, Restore(r, f) PROVE P
  <2> DEFINE B   == {g \in Sub(par, f) \cap Rows : del[f] = 0 \/ del[g] = 0 \/ del[g] >= del[f]}
             D   == {<<g, par[g], name[g]>> : g \in B}
             E   == {<<e, fold[e]>> : e \in {x \in Files : edel[x] = 0 /\ fold[x] \in B}}
             rec == [Call("restore", f) EXCEPT !.dirs = D, !.files = E]
  <2>1. D \subseteq DirRec
    BY RowsTyped DEF Rows, DirRec
  <2>2. E \subseteq FileRec
    BY DEF Files, Typed, FileRec
  <2>3. Start(r, rec)
    BY <1>4 DEF Restore
  <2> HIDE DEF D, E
  <2>4. rec \in ReqRec /\ rec.held = {} /\ rec.pc = "restore"
    BY <2>1, <2>2 DEF Call, Idle, ReqRec, ReqShape, PC, Dir, DirRec, FileRec
  <2> HIDE DEF rec
  <2> QED BY <2>3, <2>4, <1>0
<1>5. ASSUME NEW cut \in 2..(clock + 1), Purge(r, cut) PROVE P
  <2> DEFINE T   == Sub(par, Root)
             O   == {f \in Rows \cap T : del[f] # 0 /\ del[f] < cut}
             D   == {<<f, par[f], name[f]>> : f \in {f \in O : \A g \in Rows : par[g] = f => del[g] # 0}}
             E   == {<<e, fold[e]>> : e \in {e \in Files : fold[e] \in T /\ edel[e] # 0 /\ edel[e] < cut}}
             rec == [Idle EXCEPT !.pc = "purge", !.dirs = D, !.files = E]
  <2>1. D \subseteq DirRec
    BY RowsTyped DEF Rows, DirRec
  <2>2. E \subseteq FileRec
    BY DEF Files, Typed, FileRec
  <2>3. Start(r, rec)
    BY <1>5 DEF Purge
  <2> HIDE DEF D, E
  <2>4. rec \in ReqRec /\ rec.held = {} /\ rec.pc = "purge"
    BY <2>1, <2>2 DEF Idle, ReqRec, ReqShape, PC, Dir, DirRec, FileRec
  <2> HIDE DEF rec
  <2> QED BY <2>3, <2>4, <1>0
<1>6. ASSUME NEW p \in Folder, Put(r, p) PROVE P
  <2> DEFINE rec == [Idle EXCEPT !.pc = "put", !.to = p]
  <2>1. rec \in ReqRec /\ rec.held = {} /\ rec.pc = "put"
    BY DEF Idle, ReqRec, ReqShape, PC, Dir
  <2>2. Start(r, rec)
    BY <1>6 DEF Put
  <2> HIDE DEF rec
  <2> QED BY <2>1, <2>2, <1>0
<1>7. ASSUME NEW e \in Entry, Drop(r, e) \/ Undrop(r, e) PROVE P
  <2>1. \A c \in {"drop", "undrop"} :
          Call(c, e) \in ReqRec /\ Call(c, e).held = {} /\ Call(c, e).pc = c
    BY DEF Call, Idle, ReqRec, ReqShape, PC, Dir
  <2> QED BY <1>7, <2>1, <1>0 DEF Drop, Undrop
<1>8. ASSUME NEW e \in Entry, NEW t \in Folder, Shift(r, e, t) PROVE P
  <2> DEFINE rec == [Call("shift", e) EXCEPT !.to = t]
  <2>1. rec \in ReqRec /\ rec.held = {} /\ rec.pc = "shift"
    BY DEF Call, Idle, ReqRec, ReqShape, PC, Dir
  <2>2. Start(r, rec)
    BY <1>8 DEF Shift
  <2> HIDE DEF rec
  <2> QED BY <2>1, <2>2, <1>0
<1>9. P
  BY <1>1, <1>2, <1>3, <1>4, <1>5, <1>6, <1>7, <1>8 DEF Begin
<1> QED BY <1>9 DEF P

LEMMA TypeBegin ==
  ASSUME Typed, NEW r \in Req, Begin(r)
  PROVE  Typed'
<1>1. PICK rec : Begins(rec) /\ Start(r, rec)
  BY BeginRecord
<1> QED BY <1>1, TypeStart DEF Begins

(* The mirror stays typed, whatever typed rows it reads. *)
LEMMA HearUpsertTyped ==
  ASSUME Typed, NEW D \in SUBSET DirRec, NEW F, HearUpsert(D, F)
  PROVE  /\ cpar' \in [Folder -> Dir] /\ cname' \in [Folder -> Name \cup {None}]
         /\ cent' \in [Entry -> Dir]
<1>1. PICK K \in Heard(D) :
        /\ cpar' = [f \in Folder |-> IF \E k \in K : k[1] = f
                                     THEN (CHOOSE k \in K : k[1] = f)[2] ELSE cpar[f]]
        /\ cname' = [f \in Folder |-> IF \E k \in K : k[1] = f
                                      THEN (CHOOSE k \in K : k[1] = f)[3] ELSE cname[f]]
        /\ cent' = [e \in Entry |->
                      LET at == {p \in Folder : /\ <<e, p>> \in F
                                                /\ Known(p) \/ \E k \in K : k[1] = p}
                      IN  IF at = {} THEN cent[e] ELSE CHOOSE p \in at : TRUE]
  BY DEF HearUpsert
<1>2. K \subseteq DirRec
  BY DEF Heard
<1>3. ASSUME NEW f \in Folder, \E k \in K : k[1] = f
      PROVE  /\ (CHOOSE k \in K : k[1] = f)[2] \in Dir
             /\ (CHOOSE k \in K : k[1] = f)[3] \in Name \cup {None}
  <2>1. (CHOOSE k \in K : k[1] = f) \in DirRec
    BY <1>2, <1>3
  <2> QED BY <2>1 DEF DirRec
<1>4. ASSUME NEW e \in Entry PROVE cent'[e] \in Dir
  <2> DEFINE at == {p \in Folder : <<e, p>> \in F /\ (Known(p) \/ \E k \in K : k[1] = p)}
  <2>1. CASE at = {}
    BY <1>1, <2>1 DEF Typed
  <2>2. CASE at # {}
    <3>1. (CHOOSE p \in at : TRUE) \in Folder
      BY <2>2
    <3> QED BY <1>1, <2>2, <3>1 DEF Dir
  <2> QED BY <2>1, <2>2
<1> QED BY <1>1, <1>3, <1>4 DEF Typed

LEMMA HearGoneTyped ==
  ASSUME Typed, NEW D, NEW F, HearGone(D, F)
  PROVE  /\ cpar' \in [Folder -> Dir] /\ cname' \in [Folder -> Name \cup {None}]
         /\ cent' \in [Entry -> Dir]
  BY DEF HearGone, Typed, Dir

(* An answered call holds nothing; the other records stay as they are. *)
LEMMA AnswerTyped ==
  ASSUME Typed, NEW r \in Req, Answer(r)
  PROVE  /\ req' \in [Req -> ReqRec]
         /\ \A p, q \in Req : p # q => req'[p].held \cap req'[q].held = {}
  BY IdleTyped DEF Answer, Typed

LEMMA AbortTyped == ASSUME Typed, NEW r \in Req, Abort(r) PROVE Typed'
  BY AnswerTyped DEF Abort, Typed, rowv, entv, client

LEMMA ReqTyped ==
  ASSUME Typed, NEW r \in Req
  PROVE  /\ req[r] \in ReqRec /\ req[r].dirs \in SUBSET DirRec /\ req[r].held \subseteq Folder
         /\ req[r].to \in Dir /\ req[r].name \in Name \cup {None}
         /\ req[r].was[1] \in Dir /\ req[r].was[2] \in Name \cup {None}
         /\ req[r].pc \in {"rename", "lock", "walk", "write", "delete", "restore"} => req[r].f \in Folder
         /\ req[r].pc \in {"drop", "undrop", "shift"} => req[r].f \in Entry
         /\ req[r].pc \in {"create", "lock", "walk", "write", "put", "shift"} => req[r].to \in Folder
  BY DEF Typed, ReqRec, ReqShape, DirRec

(* Only the record of r changes, to a typed one; what it holds more than   *)
(* before, no other call holds.                                            *)
LEMMA StepTyped ==
  ASSUME Typed, NEW r \in Req, NEW rec \in ReqRec, req' = [req EXCEPT ![r] = rec],
         \A q \in Req \ {r} : req[q].held \cap (rec.held \ req[r].held) = {},
         UNCHANGED <<rowv, entv, client, clock, own>>
  PROVE  Typed'
  BY DEF Typed, rowv, entv, client

(* The row locked next is the least of those wanted. *)
LEMMA NextLockIsLeast ==
  ASSUME Typed, NEW r \in Req, Wanted(r) # {}
  PROVE  /\ NextLock(r) \in Wanted(r) /\ NextLock(r) \in Folder /\ Wanted(r) \subseteq Nat
         /\ \A g \in Wanted(r) : NextLock(r) <= g
<1>1. Wanted(r) \subseteq Folder /\ Wanted(r) \subseteq Nat
  BY TreeAssumption DEF Wanted, Rows
<1>2. Wanted(r) \subseteq {req[r].f, req[r].to}
  BY DEF Wanted
<1>3. PICK x \in Wanted(r) : TRUE
  OBVIOUS
<1>4. \E f \in Wanted(r) : \A g \in Wanted(r) : f <= g
  <2>1. CASE \A g \in Wanted(r) : x <= g
    BY <1>3, <2>1
  <2>2. CASE \E g \in Wanted(r) : ~(x <= g)
    <3>1. PICK y \in Wanted(r) : ~(x <= y)
      BY <2>2
    <3>2. x \in Nat /\ y \in Nat /\ y < x
      BY <1>1, <3>1
    <3>3. Wanted(r) = {x, y}
      BY <1>2, <3>1, <3>2
    <3> QED BY <3>1, <3>2, <3>3
  <2> QED BY <2>1, <2>2
<1> QED BY <1>1, <1>4 DEF NextLock

LEMMA LockTyped == ASSUME Typed, NEW r \in Req, LockRow(r) PROVE Typed'
<1>1. CASE Wanted(r) = {}
  <2> DEFINE rec == [req[r] EXCEPT !.pc = "walk"]
  <2>1. rec \in ReqRec /\ rec.held = req[r].held
    BY <1>1, ReqTyped DEF LockRow, ReqRec, ReqShape, PC
  <2>2. req' = [req EXCEPT ![r] = rec]
    BY <1>1 DEF LockRow
  <2> QED BY <2>1, <2>2, StepTyped DEF LockRow
<1>2. CASE Wanted(r) # {}
  <2> DEFINE rec == [req[r] EXCEPT !.held = req[r].held \cup {NextLock(r)}]
  <2>1. rec \in ReqRec /\ rec.held = req[r].held \cup {NextLock(r)}
    BY <1>2, NextLockIsLeast, ReqTyped DEF ReqRec, ReqShape
  <2>2. req' = [req EXCEPT ![r] = rec]
    BY <1>2 DEF LockRow
  <2>3. \A q \in Req \ {r} : req[q].held \cap {NextLock(r)} = {}
    BY <1>2 DEF LockRow, Unlocked
  <2>4. \A q \in Req \ {r} : req[q].held \cap (rec.held \ req[r].held) = {}
    BY <2>1, <2>3
  <2>5. UNCHANGED <<rowv, entv, client, clock, own>>
    BY DEF LockRow
  <2> HIDE DEF rec
  <2> QED BY <2>1, <2>2, <2>4, <2>5, StepTyped
<1> QED BY <1>1, <1>2

LEMMA RenameTyped == ASSUME Typed, NEW r \in Req, RenameRow(r) PROVE Typed'
<1> DEFINE f == req[r].f
           rec == [req[r] EXCEPT !.pc = "lock", !.held = {f}]
<1>r. /\ f \in Folder /\ req[r].name \in Name \cup {None} /\ req[r].was[1] \in Dir
      /\ req[r].to \in Dir /\ req[r] \in ReqRec
  BY ReqTyped DEF RenameRow
<1>1. CASE Abort(r)
  BY <1>1, AbortTyped
<1>2. CASE /\ Unlocked(r, {f}) /\ req[r].to # None /\ req' = [req EXCEPT ![r] = rec]
           /\ UNCHANGED <<rowv, entv, client, clock, own>>
  <2>1. rec \in ReqRec /\ rec.held = {f}
    BY <1>r, <1>2 DEF ReqRec, ReqShape, PC, Dir
  <2>2. \A q \in Req \ {r} : req[q].held \cap (rec.held \ req[r].held) = {}
    BY <1>2, <2>1 DEF Unlocked
  <2> HIDE DEF rec
  <2> QED BY <1>2, <2>1, <2>2, StepTyped
<1>3. CASE /\ name' = [name EXCEPT ![f] = req[r].name] /\ Answer(r)
           /\ HearUpsert({<<f, req[r].was[1], req[r].name>>}, {})
           /\ UNCHANGED <<st, par, del, entv, clock, own>>
  <2>1. {<<f, req[r].was[1], req[r].name>>} \in SUBSET DirRec
    BY <1>r DEF DirRec
  <2> QED BY <1>r, <1>3, <2>1, HearUpsertTyped, AnswerTyped DEF Typed, entv
<1> QED BY <1>1, <1>2, <1>3 DEF RenameRow

LEMMA MoveTyped == ASSUME Typed, NEW r \in Req, MoveWrite(r) PROVE Typed'
<1> DEFINE f == req[r].f
           t == req[r].to
           n == IF req[r].name # None THEN req[r].name ELSE name[f]
<1>r. f \in Folder /\ t \in Folder /\ n \in Name \cup {None} /\ NewName(r) \in Name \cup {None}
  BY ReqTyped, RowsTyped DEF MoveWrite, NewName
<1>1. CASE Abort(r)
  BY <1>1, AbortTyped
<1>2. CASE /\ par' = [par EXCEPT ![f] = t] /\ name' = [name EXCEPT ![f] = n] /\ Answer(r)
           /\ HearUpsert({<<f, t, NewName(r)>>}, {})
           /\ UNCHANGED <<st, del, entv, clock, own>>
  <2>1. {<<f, t, NewName(r)>>} \in SUBSET DirRec
    BY <1>r DEF DirRec, Dir
  <2> QED BY <1>r, <1>2, <2>1, HearUpsertTyped, AnswerTyped DEF Typed, Dir, entv
<1> QED BY <1>1, <1>2 DEF MoveWrite

LEMMA TypeCommit ==
  ASSUME Typed, NEW r \in Req, Commit(r)
  PROVE  Typed'
<1>r. /\ req[r] \in ReqRec /\ req[r].dirs \in SUBSET DirRec
      /\ req[r].to \in Dir /\ req[r].name \in Name \cup {None}
  BY ReqTyped
<1>0. 0 \in 0..MaxClock
  BY TreeAssumption
<1>1. CASE CreateCommit(r)
  <2>1. CASE Abort(r)
    BY <2>1, AbortTyped
  <2>2. CASE ~Abort(r)
    <3>1. Answer(r) /\ UNCHANGED <<del, entv, clock, own>>
      BY <1>1, <2>2 DEF CreateCommit
    <3>2. PICK f \in Folder :
            /\ st' = [st EXCEPT ![f] = "row"] /\ par' = [par EXCEPT ![f] = req[r].to]
            /\ name' = [name EXCEPT ![f] = req[r].name]
            /\ HearUpsert({<<f, req[r].to, req[r].name>>}, {})
      BY <1>1, <2>2 DEF CreateCommit
    <3>3. {<<f, req[r].to, req[r].name>>} \in SUBSET DirRec
      BY <1>r DEF DirRec
    <3> QED BY <1>r, <3>1, <3>2, <3>3, HearUpsertTyped, AnswerTyped DEF Typed, entv
  <2> QED BY <2>1, <2>2
<1>2. CASE RenameRow(r) \/ LockRow(r) \/ MoveWrite(r)
  BY <1>2, RenameTyped, LockTyped, MoveTyped
<1>3. CASE Walk(r)
  <2>1. CASE Abort(r)
    BY <2>1, AbortTyped
  <2>2. CASE ~Abort(r)
    <3> DEFINE rec == [req[r] EXCEPT !.pc = "write"]
    <3>1. rec \in ReqRec /\ rec.held = req[r].held
      BY <1>3, ReqTyped DEF Walk, ReqRec, ReqShape, PC
    <3>2. req' = [req EXCEPT ![r] = rec] /\ UNCHANGED <<rowv, entv, client, clock, own>>
      BY <1>3, <2>2 DEF Walk, Abort
    <3> QED BY <3>1, <3>2, StepTyped
  <2> QED BY <2>1, <2>2
<1>4. CASE Deadlock(r)
  BY <1>4, AbortTyped DEF Deadlock
<1>5. CASE DeleteCommit(r)
  <2>1. PICK t \in Stamps :
          clock' = t /\ del' = [f \in Folder |-> IF f \in Ids(r) \cap Rows THEN t ELSE del[f]]
    BY <1>5 DEF DeleteCommit
  <2>2. t \in 0..MaxClock
    BY TreeAssumption DEF Stamps
  <2>3. /\ own' = own \cup ({req[r].f} \cap Rows) /\ Answer(r) /\ UNCHANGED <<st, par, name, entv>>
        /\ HearGone({req[r].f} \cap Rows, {})
    BY <1>5 DEF DeleteCommit
  <2> QED BY <2>1, <2>2, <2>3, HearGoneTyped, AnswerTyped DEF Typed, entv, Rows
<1>6. CASE RestoreCommit(r)
  <2>1. /\ del' = [f \in Folder |-> IF f \in Ids(r) \cap Rows THEN 0 ELSE del[f]]
        /\ own' = own \ Ids(r) /\ Answer(r) /\ UNCHANGED <<st, par, name, entv, clock>>
        /\ HearUpsert(req[r].dirs, req[r].files)
    BY <1>6 DEF RestoreCommit
  <2>2. /\ cpar' \in [Folder -> Dir] /\ cname' \in [Folder -> Name \cup {None}]
        /\ cent' \in [Entry -> Dir]
    BY <1>r, <2>1, HearUpsertTyped
  <2>3. del' \in [Folder -> 0..MaxClock] /\ own' \subseteq Folder
    BY <1>0, <2>1 DEF Typed
  <2> QED BY <2>1, <2>2, <2>3, AnswerTyped DEF Typed, entv
<1>7. CASE PurgeCommit(r)
  <2>1. PICK gone, files :
        /\ st' = [f \in Folder |-> IF f \in gone THEN "gone" ELSE st[f]]
        /\ par' = [f \in Folder |-> IF f \in gone \/ par[f] \in gone THEN None ELSE par[f]]
        /\ est' = [e \in Entry |-> IF e \in files THEN "gone" ELSE est[e]]
        /\ fold' = [e \in Entry |-> IF e \in files THEN None ELSE fold[e]]
        /\ own' = own \ gone
    BY <1>7 DEF PurgeCommit
  <2>2. HearGone(Ids(r), req[r].files) /\ Answer(r) /\ UNCHANGED <<name, del, edel, clock>>
    BY <1>7 DEF PurgeCommit
  <2> QED BY <2>1, <2>2, HearGoneTyped, AnswerTyped DEF Typed, Dir
<1>8. CASE PutCommit(r)
  <2>1. CASE Abort(r)
    BY <2>1, AbortTyped
  <2>2. CASE ~Abort(r)
    <3>1. Answer(r) /\ UNCHANGED <<rowv, edel, clock, own>>
      BY <1>8, <2>2 DEF PutCommit
    <3>2. PICK e \in Entry :
            /\ est' = [est EXCEPT ![e] = "row"] /\ fold' = [fold EXCEPT ![e] = req[r].to]
            /\ HearUpsert({}, {<<e, req[r].to>>})
      BY <1>8, <2>2 DEF PutCommit
    <3> QED BY <1>r, <3>1, <3>2, HearUpsertTyped, AnswerTyped DEF Typed, rowv
  <2> QED BY <2>1, <2>2
<1>9. CASE DropCommit(r)
  <2>1. CASE Abort(r)
    BY <2>1, AbortTyped
  <2>2. CASE ~Abort(r)
    <3>1. PICK t \in Stamps : clock' = t /\ edel' = [edel EXCEPT ![req[r].f] = t]
      BY <1>9, <2>2 DEF DropCommit
    <3>2. t \in 0..MaxClock
      BY TreeAssumption DEF Stamps
    <3>3. /\ HearGone({}, {<<req[r].f, fold[req[r].f]>>}) /\ Answer(r)
          /\ UNCHANGED <<rowv, est, fold, own>>
      BY <1>9, <2>2 DEF DropCommit
    <3> QED BY <3>1, <3>2, <3>3, HearGoneTyped, AnswerTyped DEF Typed, rowv
  <2> QED BY <2>1, <2>2
<1>10. CASE UndropCommit(r)
  <2>1. CASE Abort(r)
    BY <2>1, AbortTyped
  <2>2. CASE ~Abort(r)
    <3>1. /\ edel' = [edel EXCEPT ![req[r].f] = 0] /\ Answer(r)
          /\ HearUpsert({}, {<<req[r].f, fold[req[r].f]>>})
          /\ UNCHANGED <<rowv, est, fold, clock, own>>
      BY <1>10, <2>2 DEF UndropCommit
    <3>2. /\ cpar' \in [Folder -> Dir] /\ cname' \in [Folder -> Name \cup {None}]
          /\ cent' \in [Entry -> Dir]
      BY <3>1, HearUpsertTyped
    <3>3. edel' \in [Entry -> 0..MaxClock]
      BY <1>0, <3>1 DEF Typed
    <3> QED BY <3>1, <3>2, <3>3, AnswerTyped DEF Typed, rowv
  <2> QED BY <2>1, <2>2
<1>11. CASE ShiftCommit(r)
  <2>1. CASE Abort(r)
    BY <2>1, AbortTyped
  <2>2. CASE ~Abort(r)
    <3>1. /\ fold' = [fold EXCEPT ![req[r].f] = req[r].to] /\ Answer(r)
          /\ HearUpsert({}, {<<req[r].f, req[r].to>>})
          /\ UNCHANGED <<rowv, est, edel, clock, own>>
      BY <1>11, <2>2 DEF ShiftCommit
    <3> QED BY <1>r, <3>1, HearUpsertTyped, AnswerTyped DEF Typed, rowv
  <2> QED BY <2>1, <2>2
<1> QED
  BY <1>1, <1>2, <1>3, <1>4, <1>5, <1>6, <1>7, <1>8, <1>9, <1>10, <1>11 DEF Commit

LEMMA TypeNext == Typed /\ [Next]_vars => Typed'
<1>1. ASSUME Typed, UNCHANGED vars PROVE Typed'
  BY <1>1 DEF Typed, vars
<1> QED BY <1>1, TypeBegin, TypeCommit DEF Next, Step

(* Every variable keeps its type, and no row is ever locked by two         *)
(* transactions, in every tree and for every number of calls.              *)
THEOREM TypeCorrect == Spec => []TypeOK
<1>1. Init => TypeOK
  BY TypeInit DEF Init, TypeOK
<1>2. TypeOK /\ [Next]_vars => TypeOK'
  <2> SUFFICES ASSUME TypeOK, [Next]_vars PROVE TypeOK'
    OBVIOUS
  <2>1. Typed /\ crossed \in BOOLEAN
    BY DEF TypeOK
  <2>2. Typed'
    BY <2>1, TypeNext
  <2>3. crossed' \in BOOLEAN
    BY <2>1 DEF Next, Step, Meets, vars
  <2> QED BY <2>2, <2>3 DEF TypeOK
<1> QED BY <1>1, <1>2, PTL DEF Spec

-----------------------------------------------------------------------------
(* Two moves *)

(* A parent is a row, or was one. *)
ParentMade == \A f \in Folder : par[f] # None => st[par[f]] # "new"

Moving(r) == req[r].pc \in {"rename", "lock", "walk", "write"}

(* What a move is about is a row, or was one: no id is used twice. *)
MoveMade ==
  \A r \in Req : Moving(r) =>
    st[req[r].f] # "new" /\ (req[r].to # None => st[req[r].to] # "new")

(* A move that looks at the tree holds both its rows, those that exist. *)
MoveHolds ==
  \A r \in Req : req[r].pc \in {"walk", "write"} =>
    \A x \in {req[r].f, req[r].to} : st[x] = "row" => x \in req[r].held

(* A move that has looked goes neither into its own folder nor into a      *)
(* child of it; its lock on the target keeps it so until it writes.        *)
MoveLooked ==
  \A r \in Req : req[r].pc = "write" /\ st[req[r].to] = "row" =>
    req[r].to # req[r].f /\ par[req[r].to] # req[r].f

MoveInv == ParentMade /\ MoveMade /\ MoveHolds /\ MoveLooked /\ NoMutualParents

LEMMA MoveInit == Init => MoveInv
<1> SUFFICES ASSUME Init PROVE MoveInv
  OBVIOUS
<1>1. ParentMade
  BY TreeAssumption DEF Init, ParentMade
<1>2. NoMutualParents
  BY TreeAssumption DEF Init, NoMutualParents
<1>3. MoveMade /\ MoveHolds /\ MoveLooked
  BY IdleTyped DEF Init, MoveMade, MoveHolds, MoveLooked, Moving
<1> QED BY <1>1, <1>2, <1>3 DEF MoveInv

(* Above a folder are the folder itself and its parent. *)
LEMMA UpHas ==
  ASSUME Typed, NEW f, NEW t \in Folder, f \notin Up(par, t), f # None
  PROVE  t # f /\ par[t] # f
  BY DEF Up, Parents

(* A call that begins has locked nothing; a move begins with live rows. *)
LEMMA MoveBegin ==
  ASSUME Typed, MoveInv, NEW r \in Req, Begin(r)
  PROVE  MoveInv'
<1>1. PICK rec : Begins(rec) /\ Start(r, rec)
  BY BeginRecord
<1>2. UNCHANGED <<st, par>> /\ req'[r] = rec /\ \A q \in Req \ {r} : req'[q] = req[q]
  BY <1>1 DEF Start, rowv, Typed
<1> QED BY <1>1, <1>2
  DEF Begins, MoveInv, ParentMade, MoveMade, MoveHolds, MoveLooked, NoMutualParents, Moving

(* The answer of a call, and every transaction that leaves the folders     *)
(* where they are.                                                         *)
LEMMA MoveQuiet ==
  ASSUME Typed, MoveInv, NEW r \in Req, Answer(r), UNCHANGED <<st, par>>
  PROVE  MoveInv'
<1>1. req'[r].pc = "idle" /\ \A q \in Req \ {r} : req'[q] = req[q]
  BY IdleTyped DEF Answer, Typed
<1> QED BY <1>1
  DEF MoveInv, ParentMade, MoveMade, MoveHolds, MoveLooked, NoMutualParents, Moving

LEMMA MoveCreate ==
  ASSUME Typed, MoveInv, NEW r \in Req, CreateCommit(r)
  PROVE  MoveInv'
<1> DEFINE p == req[r].to
<1>1. CASE Abort(r)
  BY <1>1, MoveQuiet DEF Abort, rowv
<1>2. CASE ~Abort(r)
  <2>1. p \in Folder /\ st[p] = "row" /\ Answer(r)
    BY <1>2, ReqTyped DEF CreateCommit
  <2>2. PICK f \in Folder :
          st[f] = "new" /\ st' = [st EXCEPT ![f] = "row"] /\ par' = [par EXCEPT ![f] = p]
    BY <1>2 DEF CreateCommit
  <2>3. req'[r].pc = "idle" /\ \A q \in Req \ {r} : req'[q] = req[q]
    BY <2>1, IdleTyped DEF Answer, Typed
  <2>4. /\ \A g \in Folder \ {f} : st'[g] = st[g] /\ par'[g] = par[g]
        /\ st'[f] = "row" /\ par'[f] = p /\ p # f
    BY <2>1, <2>2 DEF Typed
  <2>5. \A g \in Folder : par[g] # f
    BY <2>2, TreeAssumption DEF MoveInv, ParentMade
  <2>6. ParentMade'
    BY <2>1, <2>2, <2>4 DEF MoveInv, ParentMade, Typed, Dir
  <2>7. ASSUME NEW q \in Req, Moving(q)'
        PROVE  /\ q # r /\ req'[q] = req[q] /\ Moving(q) /\ req[q].f \in Folder \ {f}
               /\ req[q].to # None => req[q].to \in Folder \ {f}
    BY <2>2, <2>3, <2>7, ReqTyped DEF Moving, MoveInv, MoveMade, Dir
  <2>8. MoveMade'
    BY <2>4, <2>7 DEF MoveInv, MoveMade
  <2>9. ASSUME NEW q \in Req, req'[q].pc \in {"walk", "write"}
        PROVE  /\ req'[q] = req[q] /\ req[q].f \in Folder \ {f} /\ req[q].to \in Folder \ {f}
    BY <2>7, <2>9, ReqTyped, TreeAssumption DEF Moving
  <2>10. MoveHolds' /\ MoveLooked'
    BY <2>4, <2>9 DEF MoveInv, MoveHolds, MoveLooked
  <2>11. NoMutualParents'
    BY <2>4, <2>5 DEF MoveInv, NoMutualParents
  <2> QED BY <2>6, <2>8, <2>10, <2>11 DEF MoveInv
<1> QED BY <1>1, <1>2

(* A step that takes the locks or looks at the tree.                       *)
LEMMA MoveStep ==
  ASSUME Typed, MoveInv, NEW r \in Req, NEW rec \in ReqRec,
         req' = [req EXCEPT ![r] = rec], UNCHANGED <<st, par>>,
         Moving(r), rec.f = req[r].f, rec.to = req[r].to,
         rec.pc \in {"walk", "write"} =>
           \A x \in {rec.f, rec.to} : st[x] = "row" => x \in rec.held,
         rec.pc = "write" => rec.to # rec.f /\ par[rec.to] # rec.f
  PROVE  MoveInv'
<1>1. req'[r] = rec /\ \A q \in Req \ {r} : req'[q] = req[q]
  BY DEF Typed
<1> QED BY <1>1
  DEF MoveInv, ParentMade, MoveMade, MoveHolds, MoveLooked, NoMutualParents, Moving

LEMMA MoveLocks ==
  ASSUME Typed, MoveInv, NEW r \in Req, RenameRow(r) \/ LockRow(r) \/ Walk(r)
  PROVE  MoveInv'
<1>r. Moving(r) /\ req[r] \in ReqRec /\ req[r].f \in Folder
  BY ReqTyped DEF Moving, RenameRow, LockRow, Walk
<1>1. CASE RenameRow(r)
  <2> DEFINE rec == [req[r] EXCEPT !.pc = "lock", !.held = {req[r].f}]
  <2>1. CASE Answer(r) /\ UNCHANGED <<st, par>>
    BY <2>1, MoveQuiet
  <2>2. CASE req[r].to # None /\ req' = [req EXCEPT ![r] = rec] /\ UNCHANGED <<st, par>>
    <3>1. rec \in ReqRec /\ rec.f = req[r].f /\ rec.to = req[r].to /\ rec.pc = "lock"
      BY <1>r, <2>2, ReqTyped DEF ReqRec, ReqShape, PC, Dir
    <3> HIDE DEF rec
    <3> QED BY <1>r, <2>2, <3>1, MoveStep
  <2> QED BY <1>1, <2>1, <2>2 DEF RenameRow, Abort, rowv
<1>2. CASE LockRow(r) /\ Wanted(r) = {}
  <2> DEFINE rec == [req[r] EXCEPT !.pc = "walk"]
  <2>1. /\ rec \in ReqRec /\ rec.f = req[r].f /\ rec.to = req[r].to /\ rec.pc = "walk"
        /\ rec.held = req[r].held /\ req[r].to \in Folder
    BY <1>r, <1>2, ReqTyped DEF LockRow, ReqRec, ReqShape, PC
  <2>2. req' = [req EXCEPT ![r] = rec] /\ UNCHANGED <<st, par>>
    BY <1>2 DEF LockRow, rowv
  <2>3. \A x \in {rec.f, rec.to} : st[x] = "row" => x \in rec.held
    BY <1>r, <1>2, <2>1 DEF Wanted, Rows
  <2> HIDE DEF rec
  <2> QED BY <1>r, <2>1, <2>2, <2>3, MoveStep
<1>3. CASE LockRow(r) /\ Wanted(r) # {}
  <2> DEFINE rec == [req[r] EXCEPT !.held = req[r].held \cup {NextLock(r)}]
  <2>1. rec \in ReqRec /\ rec.f = req[r].f /\ rec.to = req[r].to /\ rec.pc = "lock"
    BY <1>r, <1>3, NextLockIsLeast, ReqTyped DEF LockRow, ReqRec, ReqShape
  <2>2. req' = [req EXCEPT ![r] = rec] /\ UNCHANGED <<st, par>>
    BY <1>3 DEF LockRow, rowv
  <2> HIDE DEF rec
  <2> QED BY <1>r, <2>1, <2>2, MoveStep
<1>4. CASE Walk(r)
  <2>1. CASE Answer(r) /\ UNCHANGED <<st, par>>
    BY <2>1, MoveQuiet
  <2>2. CASE /\ req[r].f \notin Up(par, req[r].to)
             /\ req' = [req EXCEPT ![r].pc = "write"] /\ UNCHANGED <<st, par>>
    <3> DEFINE rec == [req[r] EXCEPT !.pc = "write"]
    <3>1. /\ rec \in ReqRec /\ rec.f = req[r].f /\ rec.to = req[r].to /\ rec.pc = "write"
          /\ rec.held = req[r].held /\ req[r].to \in Folder
      BY <1>r, <1>4, ReqTyped DEF Walk, ReqRec, ReqShape, PC
    <3>2. req' = [req EXCEPT ![r] = rec]
      BY <2>2
    <3>3. \A x \in {rec.f, rec.to} : st[x] = "row" => x \in rec.held
      BY <1>4, <3>1 DEF Walk, MoveInv, MoveHolds
    <3>4. rec.to # rec.f /\ par[rec.to] # rec.f
      BY <1>r, <2>2, <3>1, UpHas, TreeAssumption
    <3> HIDE DEF rec
    <3> QED BY <1>r, <2>2, <3>1, <3>2, <3>3, <3>4, MoveStep
  <2> QED BY <1>4, <2>1, <2>2 DEF Walk, rowv
<1> QED BY <1>1, <1>2, <1>3, <1>4

(* The write: no other move that has looked can have this folder as its    *)
(* target, for both would hold it.                                         *)
LEMMA MoveWritten ==
  ASSUME Typed, MoveInv, NEW r \in Req, MoveWrite(r)
  PROVE  MoveInv'
<1> DEFINE f == req[r].f
           t == req[r].to
<1>1. CASE Abort(r)
  BY <1>1, MoveQuiet DEF Abort, rowv
<1>2. CASE ~Abort(r)
  <2>1. /\ f \in Folder /\ t \in Folder /\ req[r].pc = "write" /\ st[f] = "row" /\ st[t] = "row"
        /\ par' = [par EXCEPT ![f] = t] /\ st' = st /\ Answer(r)
    BY <1>2, ReqTyped DEF MoveWrite
  <2>2. t # f /\ par[t] # f
    BY <2>1 DEF MoveInv, MoveLooked
  <2>3. par'[f] = t /\ \A g \in Folder \ {f} : par'[g] = par[g]
    BY <2>1 DEF Typed
  <2>4. req'[r].pc = "idle" /\ \A q \in Req \ {r} : req'[q] = req[q]
    BY <2>1, IdleTyped DEF Answer, Typed
  <2>5. NoMutualParents'
    BY <2>2, <2>3 DEF MoveInv, NoMutualParents
  <2>6. ParentMade'
    BY <2>1, <2>3 DEF MoveInv, ParentMade
  <2>7. MoveMade' /\ MoveHolds'
    BY <2>1, <2>4 DEF MoveInv, MoveMade, MoveHolds, Moving
  <2>8. ASSUME NEW q \in Req, req'[q].pc = "write", st'[req'[q].to] = "row"
        PROVE  req'[q].to # req'[q].f /\ par'[req'[q].to] # req'[q].f
    <3>1. q # r /\ req'[q] = req[q] /\ req[q].pc = "write" /\ st[req[q].to] = "row"
      BY <2>1, <2>4, <2>8
    <3>2. req[q].to \in req[q].held /\ f \in req[r].held /\ req[q].to \in Folder
      BY <2>1, <3>1, ReqTyped DEF MoveInv, MoveHolds
    <3>3. req[q].to # f
      BY <3>1, <3>2 DEF Typed
    <3> QED BY <2>3, <3>1, <3>2, <3>3 DEF MoveInv, MoveLooked
  <2>9. MoveLooked'
    BY <2>8 DEF MoveLooked
  <2> QED BY <2>5, <2>6, <2>7, <2>9 DEF MoveInv
<1> QED BY <1>1, <1>2

(* A purge takes parents away and gives none. *)
LEMMA MovePurge ==
  ASSUME Typed, MoveInv, NEW r \in Req, PurgeCommit(r)
  PROVE  MoveInv'
<1>1. PICK gone :
        /\ st' = [f \in Folder |-> IF f \in gone THEN "gone" ELSE st[f]]
        /\ par' = [f \in Folder |-> IF f \in gone \/ par[f] \in gone THEN None ELSE par[f]]
  BY DEF PurgeCommit
<1>2. req'[r].pc = "idle" /\ \A q \in Req \ {r} : req'[q] = req[q]
  BY IdleTyped DEF PurgeCommit, Answer, Typed
<1>3. \A f \in Folder : /\ par'[f] = par[f] \/ par'[f] = None
                        /\ st'[f] = st[f] \/ st'[f] = "gone"
  BY <1>1
<1>4. None \notin Folder
  BY TreeAssumption
<1>5. ASSUME NEW q \in Req, Moving(q)'
      PROVE  /\ req'[q] = req[q] /\ Moving(q) /\ req[q].f \in Folder
             /\ req[q].to # None => req[q].to \in Folder
             /\ req[q].pc \in {"walk", "write"} => req[q].to \in Folder
  BY <1>2, <1>5, ReqTyped DEF Moving, Dir
<1>6. ParentMade'
  BY <1>1, <1>3, <1>4 DEF MoveInv, ParentMade, Typed, Dir
<1>7. NoMutualParents'
  <2>1. \A f \in Folder : par'[f] # None => par'[f] = par[f]
    BY <1>3
  <2>2. ASSUME NEW f \in Folder, NEW g \in Folder, par'[f] = g
        PROVE  par[f] = g
    BY <2>1, <2>2, <1>4
  <2>3. ASSUME NEW f \in Folder, NEW g \in Folder, par'[f] = g, par'[g] = f
        PROVE  FALSE
    <3>1. par[f] = g /\ par[g] = f
      BY <2>2, <2>3
    <3> QED BY <3>1 DEF MoveInv, NoMutualParents
  <2> QED BY <2>3 DEF NoMutualParents
<1>8. MoveMade'
  BY <1>3, <1>5 DEF MoveInv, MoveMade
<1>9. MoveHolds'
  BY <1>3, <1>5 DEF MoveInv, MoveHolds, Moving
<1>10. MoveLooked'
  BY <1>3, <1>4, <1>5 DEF MoveInv, MoveLooked, Moving
<1> QED BY <1>6, <1>7, <1>8, <1>9, <1>10 DEF MoveInv

LEMMA MoveNext == Typed /\ MoveInv /\ [Next]_vars => MoveInv'
<1>1. ASSUME Typed, MoveInv, NEW r \in Req, Commit(r) PROVE MoveInv'
  <2>1. CASE Deadlock(r) \/ DeleteCommit(r) \/ RestoreCommit(r)
    BY <1>1, <2>1, MoveQuiet DEF Deadlock, Abort, DeleteCommit, RestoreCommit, rowv
  <2>2. CASE PutCommit(r) \/ DropCommit(r) \/ UndropCommit(r) \/ ShiftCommit(r)
    BY <1>1, <2>2, MoveQuiet DEF PutCommit, DropCommit, UndropCommit, ShiftCommit, Abort, rowv
  <2> QED BY <1>1, <2>1, <2>2, MoveCreate, MoveLocks, MoveWritten, MovePurge DEF Commit
<1>2. ASSUME MoveInv, UNCHANGED vars PROVE MoveInv'
  BY <1>2 DEF MoveInv, ParentMade, MoveMade, MoveHolds, MoveLooked, NoMutualParents, Moving, vars
<1> QED BY <1>1, <1>2, MoveBegin DEF Next, Step

(* However many moves, renames, deletions and purges run at the same time, *)
(* two folders never become each other's parent: what the lock on the      *)
(* moved folder and its target, and the look at the tree under it, are for.*)
THEOREM MovesApart == Spec => []NoMutualParents
<1>1. Typed /\ MoveInv /\ [Next]_vars => Typed' /\ MoveInv'
  BY TypeNext, MoveNext
<1>2. MoveInv => NoMutualParents
  BY DEF MoveInv
<1> QED BY TypeInit, MoveInit, <1>1, <1>2, PTL DEF Spec
-----------------------------------------------------------------------------
(* A ring of moves *)

(* A plain move that is taking its locks holds only rows below those it    *)
(* still wants.                                                            *)
LocksInOrder ==
  \A r \in Req : req[r].pc = "lock" /\ req[r].name = None =>
    \A x \in req[r].held : \A y \in Wanted(r) : x < y

(* A call that changes the name has one. *)
RenamesNamed == \A r \in Req : req[r].pc = "rename" => req[r].name # None

OrderInv == LocksInOrder /\ RenamesNamed

LEMMA OrderInit == Init => OrderInv
  BY IdleTyped DEF Init, OrderInv, LocksInOrder, RenamesNamed

(* A step of one call that has no lock to order after it; the rows another *)
(* one wants only become fewer, for what a move is about is no new id.     *)
LEMMA OrderKept ==
  ASSUME Typed, MoveInv, OrderInv, NEW r \in Req,
         req'[r].pc = "lock" /\ req'[r].name = None => req'[r].held = {},
         req'[r].pc = "rename" => req'[r].name # None,
         \A q \in Req \ {r} : req'[q] = req[q],
         \A f \in Folder : st'[f] = "row" => st[f] \in {"row", "new"}
  PROVE  OrderInv'
<1>1. RenamesNamed'
  BY DEF OrderInv, RenamesNamed
<1>2. ASSUME NEW q \in Req, req'[q].pc = "lock", req'[q].name = None,
             NEW x \in req'[q].held, NEW y \in Wanted(q)'
      PROVE  x < y
  <2>1. q # r /\ req'[q] = req[q] /\ y \in {req[q].f, req[q].to} /\ y \notin req[q].held
    BY <1>2 DEF Wanted
  <2>2. req[q].f \in Folder /\ req[q].to \in Folder
    BY <1>2, <2>1, ReqTyped
  <2>3. st[req[q].f] # "new" /\ st[req[q].to] # "new"
    BY <1>2, <2>1, <2>2, TreeAssumption DEF MoveInv, MoveMade, Moving
  <2>4. st'[y] = "row" /\ y \in Folder
    BY <1>2 DEF Wanted, Rows
  <2>5. y \in Wanted(q)
    BY <2>1, <2>3, <2>4 DEF Wanted, Rows
  <2> QED BY <1>2, <2>1, <2>5 DEF OrderInv, LocksInOrder
<1> QED BY <1>1, <1>2 DEF OrderInv, LocksInOrder

LEMMA OrderEnds ==
  ASSUME Typed, MoveInv, OrderInv, NEW r \in Req, Answer(r),
         \A f \in Folder : st'[f] = "row" => st[f] \in {"row", "new"}
  PROVE  OrderInv'
<1>1. req'[r].pc = "idle" /\ \A q \in Req \ {r} : req'[q] = req[q]
  BY IdleTyped DEF Answer, Typed
<1> QED BY <1>1, OrderKept

LEMMA OrderLocks ==
  ASSUME Typed, MoveInv, OrderInv, NEW r \in Req, RenameRow(r) \/ LockRow(r) \/ Walk(r)
  PROVE  OrderInv'
<1>r. req[r] \in ReqRec
  BY ReqTyped
<1>a. CASE Answer(r) /\ st' = st
  BY <1>a, OrderEnds
<1>1. CASE RenameRow(r) /\ ~(Answer(r) /\ st' = st)
  <2> DEFINE rec == [req[r] EXCEPT !.pc = "lock", !.held = {req[r].f}]
  <2>1. req' = [req EXCEPT ![r] = rec] /\ st' = st /\ req[r].name # None
    BY <1>1 DEF RenameRow, Abort, rowv, OrderInv, RenamesNamed
  <2>2. rec.pc = "lock" /\ rec.name = req[r].name
    BY <1>r DEF ReqRec, ReqShape
  <2> HIDE DEF rec
  <2>3. req'[r] = rec /\ \A q \in Req \ {r} : req'[q] = req[q]
    BY <2>1 DEF Typed
  <2> QED BY <2>1, <2>2, <2>3, OrderKept
<1>2. CASE LockRow(r) /\ Wanted(r) = {}
  <2>1. req'[r].pc = "walk" /\ st' = st /\ \A q \in Req \ {r} : req'[q] = req[q]
    BY <1>r, <1>2 DEF LockRow, rowv, Typed, ReqRec, ReqShape
  <2> QED BY <2>1, OrderKept
<1>3. CASE LockRow(r) /\ Wanted(r) # {}
  <2> DEFINE n   == NextLock(r)
             rec == [req[r] EXCEPT !.held = req[r].held \cup {n}]
  <2>1. /\ rec.pc = "lock" /\ rec.name = req[r].name /\ rec.f = req[r].f /\ rec.to = req[r].to
        /\ rec.held = req[r].held \cup {n}
    BY <1>r, <1>3 DEF ReqRec, ReqShape, LockRow
  <2>2. req' = [req EXCEPT ![r] = rec] /\ st' = st
    BY <1>3 DEF LockRow, rowv
  <2> HIDE DEF rec
  <2>3. req'[r] = rec /\ \A q \in Req \ {r} : req'[q] = req[q]
    BY <2>2 DEF Typed
  <2>4. \A q \in Req \ {r} : Wanted(q)' = Wanted(q)
    BY <2>2, <2>3 DEF Wanted, Rows
  <2>5. Wanted(r)' = Wanted(r) \ {n}
    BY <2>1, <2>2, <2>3 DEF Wanted, Rows
  <2>6. n \in Wanted(r) /\ Wanted(r) \subseteq Nat /\ \A y \in Wanted(r) : n <= y
    BY <1>3, NextLockIsLeast
  <2>7. \A y \in Wanted(r) \ {n} : n < y
    BY <2>6
  <2>8. LocksInOrder'
    BY <1>3, <2>1, <2>3, <2>4, <2>5, <2>7 DEF OrderInv, LocksInOrder, LockRow
  <2>9. RenamesNamed'
    BY <2>1, <2>3 DEF OrderInv, RenamesNamed
  <2> QED BY <2>8, <2>9 DEF OrderInv
<1>4. CASE Walk(r) /\ ~(Answer(r) /\ st' = st)
  <2>1. req'[r].pc = "write" /\ st' = st /\ \A q \in Req \ {r} : req'[q] = req[q]
    BY <1>r, <1>4 DEF Walk, rowv, Typed, ReqRec, ReqShape
  <2> QED BY <2>1, OrderKept
<1> QED BY <1>a, <1>1, <1>2, <1>3, <1>4

LEMMA OrderNext == Typed /\ MoveInv /\ OrderInv /\ [Next]_vars => OrderInv'
<1>1. ASSUME Typed, MoveInv, OrderInv, NEW r \in Req, Begin(r) PROVE OrderInv'
  <2>1. PICK rec : Begins(rec) /\ Start(r, rec)
    BY <1>1, BeginRecord
  <2>2. st' = st /\ req'[r] = rec /\ \A q \in Req \ {r} : req'[q] = req[q]
    BY <1>1, <2>1 DEF Start, rowv, Typed
  <2> QED BY <1>1, <2>1, <2>2, OrderKept DEF Begins
<1>2. ASSUME Typed, MoveInv, OrderInv, NEW r \in Req, Commit(r) PROVE OrderInv'
  <2>1. CASE RenameRow(r) \/ LockRow(r) \/ Walk(r)
    BY <1>2, <2>1, OrderLocks
  <2>2. CASE Answer(r) /\ st' = st
    BY <1>2, <2>2, OrderEnds
  <2>3. CASE CreateCommit(r) /\ ~Abort(r)
    <3>1. Answer(r)
      BY <2>3 DEF CreateCommit
    <3>2. PICK f \in Folder : st[f] = "new" /\ st' = [st EXCEPT ![f] = "row"]
      BY <2>3 DEF CreateCommit
    <3>3. \A g \in Folder : st'[g] = "row" => st[g] \in {"row", "new"}
      BY <1>2, <3>2 DEF Typed
    <3> QED BY <1>2, <3>1, <3>3, OrderEnds
  <2>4. CASE PurgeCommit(r)
    <3>1. Answer(r) /\ \A g \in Folder : st'[g] = "row" => st[g] \in {"row", "new"}
      BY <2>4 DEF PurgeCommit
    <3> QED BY <1>2, <3>1, OrderEnds
  <2>5. MoveWrite(r) \/ Deadlock(r) \/ DeleteCommit(r) \/ RestoreCommit(r) => Answer(r) /\ st' = st
    BY DEF MoveWrite, Deadlock, Abort, DeleteCommit, RestoreCommit, rowv
  <2>6. PutCommit(r) \/ DropCommit(r) \/ UndropCommit(r) \/ ShiftCommit(r) => Answer(r) /\ st' = st
    BY DEF PutCommit, DropCommit, UndropCommit, ShiftCommit, Abort, rowv
  <2>7. Abort(r) => Answer(r) /\ st' = st
    BY DEF Abort, rowv
  <2> QED BY <1>2, <2>1, <2>2, <2>3, <2>4, <2>5, <2>6, <2>7 DEF Commit
<1>3. ASSUME OrderInv, UNCHANGED vars PROVE OrderInv'
  BY <1>3 DEF OrderInv, LocksInOrder, RenamesNamed, Wanted, Rows, vars
<1> QED BY <1>1, <1>2, <1>3 DEF Next, Step

(* Of the rows that some moves are waiting for, one is above all others.   *)
LEMMA NoRing ==
  ASSUME Typed, OrderInv
  PROVE  PlainMovesNeverWaitInRing
<1> SUFFICES ASSUME NEW S \in SUBSET {r \in Req : req[r].name = None}, S # {},
                    \A r \in S : \E q \in S : WaitsFor(r, q)
             PROVE  FALSE
  BY DEF PlainMovesNeverWaitInRing
<1> DEFINE Above(r) == {q \in S : NextLock(r) < NextLock(q)}
           T        == {Above(r) : r \in S}
           R        == StrictSubsetOrdering(Req)
<1>1. \A r \in S : Wanted(r) # {} /\ NextLock(r) \in Nat /\ req[r].pc = "lock"
  BY NextLockIsLeast DEF WaitsFor
<1>2. T \subseteq FiniteSubsetsOf(Req) /\ T # {}
  <2>1. \A r \in S : Above(r) \in SUBSET Req /\ IsFiniteSet(Above(r))
    BY TreeAssumption, FS_Subset
  <2> QED BY <2>1 DEF FiniteSubsetsOf
<1>3. IsWellFoundedOn(R, FiniteSubsetsOf(Req))
  BY FS_StrictSubsetOrderingWellFounded
<1>4. PICK x \in T : \A y \in T : ~(<<y, x>> \in R)
  <2> HIDE DEF T, R
  <2> QED BY <1>2, <1>3, WFMin
<1>5. PICK r \in S : x = Above(r)
  BY <1>4
<1>6. PICK q \in S : WaitsFor(r, q)
  OBVIOUS
<1>7. NextLock(r) < NextLock(q)
  <2>1. NextLock(r) \in req[q].held /\ NextLock(q) \in Wanted(q)
    BY <1>1, <1>6, NextLockIsLeast DEF WaitsFor
  <2> QED BY <1>1, <2>1 DEF OrderInv, LocksInOrder
<1>8. Above(q) \subseteq Above(r) /\ q \in Above(r) /\ q \notin Above(q)
  BY <1>1, <1>7
<1>9. <<Above(q), Above(r)>> \in R
  BY <1>8 DEF StrictSubsetOrdering
<1> QED BY <1>4, <1>5, <1>9

(* However many plain moves wait for their rows, one of any of them waits  *)
(* for none of the others: why lockFolders takes the rows in the order of  *)
(* their ids.                                                              *)
THEOREM NoRingOfMoves == Spec => []PlainMovesNeverWaitInRing
<1>1. Typed /\ MoveInv /\ OrderInv /\ [Next]_vars => Typed' /\ MoveInv' /\ OrderInv'
  BY TypeNext, MoveNext, OrderNext
<1>2. Typed /\ OrderInv => PlainMovesNeverWaitInRing
  BY NoRing
<1> QED BY TypeInit, MoveInit, OrderInit, <1>1, <1>2, PTL DEF Spec

-----------------------------------------------------------------------------
(* The folders above one *)

N == Cardinality(Folder)

LEMMA NumberOfFolders == N \in Nat
  BY TreeAssumption, FS_CardinalityType DEF N

(* Induction up to a bound: the least number that is missing has a number  *)
(* before it that is missing too.                                          *)
LEMMA UpToN ==
  ASSUME NEW m \in Nat, NEW S, 0 \in S, \A n \in 1..m : n - 1 \in S => n \in S
  PROVE  0..m \subseteq S
<1> SUFFICES ASSUME (0..m) \ S # {} PROVE FALSE
  OBVIOUS
<1> DEFINE T == {0..k : k \in (0..m) \ S}
           R == StrictSubsetOrdering(0..m)
<1>1. T \subseteq FiniteSubsetsOf(0..m) /\ T # {}
  <2>1. IsFiniteSet(0..m)
    BY FS_Interval
  <2>2. \A k \in 0..m : (0..k) \in SUBSET (0..m)
    OBVIOUS
  <2>3. \A k \in 0..m : IsFiniteSet(0..k)
    BY <2>1, <2>2, FS_Subset
  <2> QED BY <2>2, <2>3 DEF FiniteSubsetsOf
<1>2. IsWellFoundedOn(R, FiniteSubsetsOf(0..m))
  BY FS_StrictSubsetOrderingWellFounded
<1>3. PICK x \in T : \A y \in T : ~(<<y, x>> \in R)
  <2> HIDE DEF T, R
  <2> QED BY <1>1, <1>2, WFMin
<1>4. PICK k \in (0..m) \ S : x = 0..k
  BY <1>3
<1>5. k \in 1..m /\ k - 1 \in (0..m) \ S
  BY <1>4
<1>6. 0..(k - 1) \in T /\ <<0..(k - 1), 0..k>> \in R
  <2>1. 0..(k - 1) \subseteq 0..k /\ k \in 0..k /\ k \notin 0..(k - 1) /\ (0..k) \subseteq 0..m
    BY <1>5
  <2>2. 0..(k - 1) # 0..k
    BY <2>1
  <2> QED BY <1>5, <2>1, <2>2 DEF StrictSubsetOrdering
<1> QED BY <1>3, <1>4, <1>6

(* c[n] is f and what is at most n parents above it. *)
Climbs(P, f, m, c) ==
  c = [n \in 0..m |-> IF n = 0 THEN {f} ELSE c[n - 1] \cup Parents(P, c[n - 1])]

LEMMA ClimbExists ==
  ASSUME NEW P, NEW f, NEW m \in Nat
  PROVE  \E c : Climbs(P, f, m, c)
<1> DEFINE S == {k \in 0..m : \E c : Climbs(P, f, k, c)}
<1>1. 0 \in S
  <2>1. Climbs(P, f, 0, [n \in 0..0 |-> {f}])
    BY DEF Climbs
  <2> QED BY <2>1
<1>2. ASSUME NEW k \in 1..m, k - 1 \in S PROVE k \in S
  <2>1. PICK c : Climbs(P, f, k - 1, c)
    BY <1>2
  <2> DEFINE d == [n \in 0..k |-> IF n = k THEN c[k - 1] \cup Parents(P, c[k - 1]) ELSE c[n]]
  <2>2. \A n \in 0..(k - 1) : d[n] = c[n]
    OBVIOUS
  <2>3. \A n \in 0..(k - 1) : c[n] = IF n = 0 THEN {f} ELSE c[n - 1] \cup Parents(P, c[n - 1])
    BY <2>1 DEF Climbs
  <2>4. ASSUME NEW n \in 0..k
        PROVE  d[n] = IF n = 0 THEN {f} ELSE d[n - 1] \cup Parents(P, d[n - 1])
    <3>1. CASE n = k
      <4>1. d[k] = c[k - 1] \cup Parents(P, c[k - 1]) /\ d[k - 1] = c[k - 1] /\ k # 0
        BY <2>2
      <4> HIDE DEF d
      <4> QED BY <3>1, <4>1
    <3>2. CASE n # k /\ n # 0
      <4>1. n \in 0..(k - 1) /\ n - 1 \in 0..(k - 1)
        BY <3>2
      <4>2. d[n] = c[n] /\ d[n - 1] = c[n - 1]
        BY <2>2, <4>1
      <4> HIDE DEF d
      <4> QED BY <2>3, <3>2, <4>1, <4>2
    <3>3. CASE n = 0
      <4>1. d[n] = c[n] /\ n \in 0..(k - 1)
        BY <3>3, <2>2
      <4> HIDE DEF d
      <4> QED BY <2>3, <3>3, <4>1
    <3> QED BY <3>1, <3>2, <3>3
  <2>5. d = [n \in 0..k |-> d[n]]
    OBVIOUS
  <2> HIDE DEF d
  <2>6. Climbs(P, f, k, d)
    BY <2>4, <2>5 DEF Climbs
  <2> QED BY <2>6
<1> HIDE DEF S
<1>3. 0..m \subseteq S
  BY <1>1, <1>2, UpToN
<1>4. m \in S
  BY <1>3
<1> QED BY <1>4 DEF S

(* A climb starts at f and takes one more link at each step. *)
Rises(P, f, m, c) ==
  c[0] = {f} /\ \A n \in 1..m : c[n] = c[n - 1] \cup Parents(P, c[n - 1])

LEMMA ClimbStep ==
  ASSUME NEW P, NEW f, NEW m \in Nat, NEW c, Climbs(P, f, m, c)
  PROVE  Rises(P, f, m, c)
<1> DEFINE body(n) == IF n = 0 THEN {f} ELSE c[n - 1] \cup Parents(P, c[n - 1])
<1>1. c = [n \in 0..m |-> body(n)]
  BY DEF Climbs
<1> HIDE DEF body
<1>2. \A n \in 0..m : c[n] = body(n)
  BY <1>1
<1>3. c[0] = {f}
  <2>1. 0 \in 0..m
    OBVIOUS
  <2>2. body(0) = {f}
    BY DEF body
  <2> QED BY <1>2, <2>1, <2>2
<1>4. \A n \in 1..m : c[n] = c[n - 1] \cup Parents(P, c[n - 1])
  <2>1. \A n \in 1..m : n \in 0..m /\ n # 0
    OBVIOUS
  <2> QED BY <1>2, <2>1 DEF body
<1> QED BY <1>3, <1>4 DEF Rises

(* Up is the set a climb of N steps ends with. *)
LEMMA UpClimbs ==
  ASSUME NEW P, NEW f
  PROVE  \E c : Climbs(P, f, N, c) /\ Up(P, f) = {f} \cup Parents(P, {f}) \cup c[N]
<1> DEFINE c == CHOOSE c : Climbs(P, f, N, c)
<1>1. Climbs(P, f, N, c)
  BY ClimbExists, NumberOfFolders
<1>2. Up(P, f) = {f} \cup Parents(P, {f}) \cup c[N]
  BY DEF Up, Climbs, N
<1> QED BY <1>1, <1>2

(* A climb only grows, and stays among the folders. *)
LEMMA ClimbGrows ==
  ASSUME NEW P \in [Folder -> Dir], NEW f \in Folder, NEW m \in Nat, NEW c, Climbs(P, f, m, c)
  PROVE  \A n \in 0..m : f \in c[n] /\ c[n] \subseteq Folder /\ c[n] \subseteq c[m]
<1>1. c[0] = {f} /\ \A n \in 1..m : c[n] = c[n - 1] \cup Parents(P, c[n - 1])
  <2>1. Rises(P, f, m, c)
    BY ClimbStep
  <2> QED BY <2>1 DEF Rises
<1>2. 0..m \subseteq {n \in 0..m : f \in c[n] /\ c[n] \subseteq Folder}
  <2> DEFINE S == {n \in 0..m : f \in c[n] /\ c[n] \subseteq Folder}
  <2>1. 0 \in S
    BY <1>1
  <2>2. ASSUME NEW n \in 1..m, n - 1 \in S PROVE n \in S
    <3>1. c[n] = c[n - 1] \cup Parents(P, c[n - 1]) /\ f \in c[n - 1] /\ c[n - 1] \subseteq Folder
      BY <1>1, <2>2
    <3>2. Parents(P, c[n - 1]) \subseteq Folder
      BY <3>1 DEF Parents, Dir
    <3> QED BY <3>1, <3>2
  <2> HIDE DEF S
  <2>3. 0..m \subseteq S
    BY <2>1, <2>2, UpToN
  <2> QED BY <2>3 DEF S
<1>3. 0..m \subseteq {k \in 0..m : c[m - k] \subseteq c[m]}
  <2> DEFINE S == {k \in 0..m : c[m - k] \subseteq c[m]}
  <2>1. 0 \in S
    OBVIOUS
  <2>2. ASSUME NEW k \in 1..m, k - 1 \in S PROVE k \in S
    <3>1. c[m - (k - 1)] = c[m - k] \cup Parents(P, c[m - k])
      <4>1. m - (k - 1) \in 1..m /\ (m - (k - 1)) - 1 = m - k
        OBVIOUS
      <4> QED BY <1>1, <4>1
    <3> QED BY <2>2, <3>1
  <2> HIDE DEF S
  <2>3. 0..m \subseteq S
    BY <2>1, <2>2, UpToN
  <2> QED BY <2>3 DEF S
<1>4. ASSUME NEW n \in 0..m PROVE c[n] \subseteq c[m]
  <2>1. m - n \in 0..m /\ m - (m - n) = n
    OBVIOUS
  <2> QED BY <1>3, <2>1
<1> QED BY <1>2, <1>4

LEMMA UpTyped ==
  ASSUME NEW P \in [Folder -> Dir], NEW f \in Folder
  PROVE  Up(P, f) \subseteq Folder /\ f \in Up(P, f) /\ (P[f] # None => P[f] \in Up(P, f))
<1>1. PICK c : Climbs(P, f, N, c) /\ Up(P, f) = {f} \cup Parents(P, {f}) \cup c[N]
  BY UpClimbs
<1>2. c[N] \subseteq Folder
  BY <1>1, ClimbGrows, NumberOfFolders
<1>3. Parents(P, {f}) \subseteq Folder /\ (P[f] # None => P[f] \in Parents(P, {f}))
  BY DEF Parents, Dir
<1> QED BY <1>1, <1>2, <1>3

(* The folders above f are the same ones as long as those of them that     *)
(* have a parent keep it.                                                  *)
LEMMA UpSame ==
  ASSUME NEW P \in [Folder -> Dir], NEW Q \in [Folder -> Dir], NEW f \in Folder,
         \A g \in Up(P, f) : P[g] \in Up(P, f) \cup {None} => Q[g] = P[g]
  PROVE  Up(Q, f) = Up(P, f)
<1>1. PICK c : Climbs(P, f, N, c) /\ Up(P, f) = {f} \cup Parents(P, {f}) \cup c[N]
  BY UpClimbs
<1>2. PICK d : Climbs(Q, f, N, d) /\ Up(Q, f) = {f} \cup Parents(Q, {f}) \cup d[N]
  BY UpClimbs
<1>n. N \in Nat /\ N \in 0..N
  BY NumberOfFolders
<1>3. c[0] = {f} /\ \A n \in 1..N : c[n] = c[n - 1] \cup Parents(P, c[n - 1])
  <2>1. Rises(P, f, N, c)
    BY <1>1, <1>n, ClimbStep
  <2> QED BY <2>1 DEF Rises
<1>4. d[0] = {f} /\ \A n \in 1..N : d[n] = d[n - 1] \cup Parents(Q, d[n - 1])
  <2>1. Rises(Q, f, N, d)
    BY <1>2, <1>n, ClimbStep
  <2> QED BY <2>1 DEF Rises
<1>5. \A n \in 0..N : f \in c[n] /\ c[n] \subseteq Folder /\ c[n] \subseteq c[N]
  BY <1>1, <1>n, ClimbGrows
<1>6. ASSUME NEW S \in SUBSET Up(P, f), Parents(P, S) \subseteq Up(P, f)
      PROVE  Parents(Q, S) = Parents(P, S)
  <2>1. \A g \in S : P[g] \in Up(P, f) \cup {None}
    BY <1>6 DEF Parents
  <2>2. \A g \in S : Q[g] = P[g]
    BY <2>1
  <2> QED BY <2>2 DEF Parents
<1> DEFINE S == {n \in 0..N : d[n] = c[n]}
<1>7. 0 \in S
  <2>1. c[0] = d[0] /\ 0 \in 0..N
    BY <1>3, <1>4, <1>n
  <2> QED BY <2>1
<1>8. ASSUME NEW n \in 1..N, n - 1 \in S PROVE n \in S
  <2>1. n \in 0..N /\ n - 1 \in 0..N
    BY <1>n
  <2>2. c[n - 1] \subseteq Up(P, f) /\ Parents(P, c[n - 1]) \subseteq Up(P, f)
    BY <1>1, <1>3, <1>5, <2>1
  <2>3. Parents(Q, c[n - 1]) = Parents(P, c[n - 1])
    BY <1>6, <2>2
  <2>4. d[n - 1] = c[n - 1]
    BY <1>8
  <2>5. d[n] = d[n - 1] \cup Parents(Q, d[n - 1]) /\ c[n] = c[n - 1] \cup Parents(P, c[n - 1])
    BY <1>3, <1>4
  <2>6. d[n] = c[n]
    BY <2>3, <2>4, <2>5
  <2> QED BY <2>1, <2>6
<1> HIDE DEF S
<1>9. N \in S
  BY <1>7, <1>8, <1>n, UpToN
<1>10. Parents(Q, {f}) = Parents(P, {f})
  BY <1>1, <1>6
<1> QED BY <1>1, <1>2, <1>9, <1>10 DEF S

-----------------------------------------------------------------------------
(* Emptying the trash *)

(* A file that exists lies in a folder, or in one that was deleted. *)
FileHasFolder == \A e \in Entry : est[e] = "row" => fold[e] \in Folder

LEMMA FileInit == Init => FileHasFolder
  BY TreeAssumption DEF Init, FileHasFolder

LEMMA FileNext == Typed /\ FileHasFolder /\ [Next]_vars => FileHasFolder'
<1>1. ASSUME Typed, FileHasFolder, NEW r \in Req, Begin(r) PROVE FileHasFolder'
  <2>1. PICK rec : Start(r, rec)
    BY <1>1, BeginRecord
  <2> QED BY <1>1, <2>1 DEF Start, entv, FileHasFolder
<1>q. ASSUME FileHasFolder, UNCHANGED <<est, fold>> PROVE FileHasFolder'
  BY <1>q DEF FileHasFolder
<1>2. ASSUME Typed, FileHasFolder, NEW r \in Req, Commit(r) PROVE FileHasFolder'
  <2>1. CASE CreateCommit(r) \/ RenameRow(r) \/ LockRow(r) \/ Walk(r) \/ MoveWrite(r) \/ Deadlock(r)
             \/ DeleteCommit(r) \/ RestoreCommit(r) \/ DropCommit(r) \/ UndropCommit(r)
    BY <1>2, <2>1, <1>q
    DEF CreateCommit, RenameRow, LockRow, Walk, MoveWrite, Deadlock, DeleteCommit, RestoreCommit,
        DropCommit, UndropCommit, Abort, entv
  <2>2. CASE PurgeCommit(r)
    <3>1. PICK files : /\ est' = [e \in Entry |-> IF e \in files THEN "gone" ELSE est[e]]
                       /\ fold' = [e \in Entry |-> IF e \in files THEN None ELSE fold[e]]
      BY <2>2 DEF PurgeCommit
    <3> QED BY <1>2, <3>1 DEF FileHasFolder
  <2>3. CASE (PutCommit(r) \/ ShiftCommit(r)) /\ Abort(r)
    BY <1>2, <2>3, <1>q DEF Abort, entv
  <2>4. CASE PutCommit(r) /\ ~Abort(r)
    <3>1. req[r].to \in Folder
      BY <1>2, <2>4, ReqTyped DEF PutCommit
    <3>2. PICK e \in Entry : est' = [est EXCEPT ![e] = "row"] /\ fold' = [fold EXCEPT ![e] = req[r].to]
      BY <2>4 DEF PutCommit
    <3> QED BY <1>2, <3>1, <3>2 DEF FileHasFolder, Typed
  <2>5. CASE ShiftCommit(r) /\ ~Abort(r)
    <3>1. req[r].to \in Folder
      BY <1>2, <2>5, ReqTyped DEF ShiftCommit
    <3>2. est' = est /\ fold' = [fold EXCEPT ![req[r].f] = req[r].to]
      BY <2>5 DEF ShiftCommit
    <3> QED BY <1>2, <3>1, <3>2 DEF FileHasFolder, Typed
  <2> QED BY <1>2, <2>1, <2>2, <2>3, <2>4, <2>5 DEF Commit
<1>3. ASSUME FileHasFolder, UNCHANGED vars PROVE FileHasFolder'
  BY <1>3 DEF FileHasFolder, vars
<1> QED BY <1>1, <1>2, <1>3 DEF Next, Step

(* A purge ends with its transaction, never another way. *)
LEMMA PurgeEnds ==
  ASSUME Typed, [Next]_vars, NEW r \in Req, Purges(r)
  PROVE  PurgeCommit(r)
<1>1. req[r].pc = "purge" /\ req'[r].pc = "idle" /\ req'[r] # req[r]
  BY DEF Purges
<1>2. PICK q \in Req : Begin(q) \/ Commit(q)
  BY <1>1 DEF Next, Step, vars
<1>3. q = r
  <2>1. ASSUME q # r, Begin(q) PROVE FALSE
    <3>1. PICK rec : Start(q, rec)
      BY <2>1, BeginRecord
    <3> QED BY <1>1, <2>1, <3>1 DEF Start, Typed
  <2>2. ASSUME q # r, Commit(q) PROVE FALSE
    <3>1. Answer(q) => req'[r] = req[r]
      BY <2>2 DEF Answer, Typed
    <3>2. ~Answer(q)
      BY <1>1, <3>1
    <3>3. RenameRow(q) \/ LockRow(q) \/ Walk(q)
      BY <2>2, <3>2
      DEF Commit, CreateCommit, MoveWrite, Deadlock, DeleteCommit, RestoreCommit, PurgeCommit,
          PutCommit, DropCommit, UndropCommit, ShiftCommit, Abort
    <3>4. \E rec : req' = [req EXCEPT ![q] = rec]
      BY <3>2, <3>3 DEF RenameRow, LockRow, Walk, Abort
    <3> QED BY <1>1, <2>2, <3>4 DEF Typed
  <2> QED BY <1>2, <2>1, <2>2
<1>4. ~Begin(r)
  BY <1>1
  DEF Begin, Create, Patch, Delete, Restore, Purge, Put, Drop, Undrop, Shift, Free
<1> QED BY <1>1, <1>2, <1>3, <1>4
  DEF Commit, CreateCommit, RenameRow, LockRow, Walk, MoveWrite, Deadlock, WaitsFor, DeleteCommit,
      RestoreCommit, PutCommit, DropCommit, UndropCommit, ShiftCommit

(* The purge takes away only folders of the trash, and no folder above a   *)
(* visible one is in the trash.                                            *)
LEMMA PurgeSpares ==
  ASSUME Typed, FileHasFolder, NEW r \in Req, PurgeCommit(r), par' \in [Folder -> Dir]
  PROVE  /\ \A f \in Folder : Visible(f) => Visible(f)' /\ par'[f] = par[f]
         /\ \A e \in Entry : VisibleFile(e) => VisibleFile(e)' /\ fold'[e] = fold[e]
<1> DEFINE gone  == {f \in Ids(r) \cap Rows : del[f] # 0}
           files == {e \in Files : \/ \E p \in Folder : <<e, p>> \in req[r].files /\ edel[e] # 0
                                   \/ fold[e] \in gone}
<1>1. /\ st' = [f \in Folder |-> IF f \in gone THEN "gone" ELSE st[f]]
      /\ par' = [f \in Folder |-> IF f \in gone \/ par[f] \in gone THEN None ELSE par[f]]
      /\ est' = [e \in Entry |-> IF e \in files THEN "gone" ELSE est[e]]
      /\ fold' = [e \in Entry |-> IF e \in files THEN None ELSE fold[e]]
      /\ del' = del /\ edel' = edel
  BY DEF PurgeCommit
<1>2. \A f \in gone : del[f] # 0
  OBVIOUS
<1>3. \A e \in files : edel[e] # 0 \/ fold[e] \in gone
  OBVIOUS
<1> HIDE DEF gone, files
<1>4. ASSUME NEW f \in Folder, Visible(f)
      PROVE  Visible(f)' /\ par'[f] = par[f] /\ f \notin gone
  <2>1. st[f] = "row" /\ del[f] = 0 /\ Root \in Up(par, f) /\ \A g \in Up(par, f) : del[g] = 0
    BY <1>4 DEF Visible
  <2>2. par \in [Folder -> Dir] /\ None \notin gone
    BY TreeAssumption DEF Typed, gone, Rows
  <2>3. Up(par, f) \subseteq Folder /\ f \in Up(par, f) /\ (par[f] # None => par[f] \in Up(par, f))
    BY <2>2, UpTyped
  <2>4. \A g \in Up(par, f) : g \notin gone /\ g \in Folder
    BY <2>1, <2>3, <1>2
  <2>5. \A g \in Up(par, f) : par[g] \in Up(par, f) \cup {None} => par'[g] = par[g]
    BY <1>1, <2>2, <2>4
  <2>6. Up(par', f) = Up(par, f)
    BY <2>2, <2>5, UpSame
  <2>7. st'[f] = "row" /\ del'[f] = 0 /\ par'[f] = par[f]
    BY <1>1, <2>1, <2>3, <2>4, <2>5
  <2> QED BY <1>1, <2>1, <2>4, <2>3, <2>6, <2>7 DEF Visible
<1>5. ASSUME NEW e \in Entry, VisibleFile(e)
      PROVE  VisibleFile(e)' /\ fold'[e] = fold[e]
  <2>1. est[e] = "row" /\ edel[e] = 0 /\ Visible(fold[e]) /\ fold[e] \in Folder
    BY <1>5 DEF VisibleFile, FileHasFolder
  <2>2. Visible(fold[e])' /\ fold[e] \notin gone
    <3> DEFINE g == fold[e]
    <3>1. g \in Folder /\ Visible(g)
      BY <2>1
    <3>2. g \notin gone
      BY <3>1, <1>4
    <3>3. e \notin files
      BY <1>3, <2>1, <3>2
    <3>4. fold'[e] = g
      BY <1>1, <3>3
    <3> QED BY <3>1, <3>2, <3>4, <1>4
  <2>3. e \notin files
    BY <1>3, <2>1, <2>2
  <2> QED BY <1>1, <2>1, <2>2, <2>3 DEF VisibleFile
<1> QED BY <1>4, <1>5

(* Emptying the trash removes no folder and no file the user can see, and  *)
(* moves none, whatever was restored, moved or created since the list of   *)
(* what to delete was made.                                                *)
THEOREM PurgeSafe == Spec => PurgeSparesTheVisible
<1>1. Typed /\ FileHasFolder /\ [Next]_vars => Typed' /\ FileHasFolder'
  BY TypeNext, FileNext
<1>2. Typed /\ FileHasFolder /\ Typed' /\ [Next]_vars =>
        [\A r \in Req : Purges(r) =>
           /\ \A f \in Folder : Visible(f) => Visible(f)' /\ par'[f] = par[f]
           /\ \A e \in Entry : VisibleFile(e) => VisibleFile(e)' /\ fold'[e] = fold[e]]_vars
  <2> SUFFICES ASSUME Typed, FileHasFolder, Typed', [Next]_vars, NEW r \in Req, Purges(r)
               PROVE  /\ \A f \in Folder : Visible(f) => Visible(f)' /\ par'[f] = par[f]
                      /\ \A e \in Entry : VisibleFile(e) => VisibleFile(e)' /\ fold'[e] = fold[e]
    OBVIOUS
  <2>1. PurgeCommit(r) /\ par' \in [Folder -> Dir]
    BY PurgeEnds DEF Typed
  <2> QED BY <2>1, PurgeSpares
<1> QED BY TypeInit, FileInit, <1>1, <1>2, PTL DEF Spec, PurgeSparesTheVisible

-----------------------------------------------------------------------------
(* What is closed under parents *)

(* Whoever is in a set that is closed under parents stays in it. *)
LEMMA UpLeast ==
  ASSUME NEW P, NEW f, NEW S, f \in S, \A g \in S : P[g] \in S \cup {None}
  PROVE  Up(P, f) \subseteq S
<1>1. PICK c : Climbs(P, f, N, c) /\ Up(P, f) = {f} \cup Parents(P, {f}) \cup c[N]
  BY UpClimbs
<1>2. c[0] = {f} /\ \A n \in 1..N : c[n] = c[n - 1] \cup Parents(P, c[n - 1])
  <2>1. Rises(P, f, N, c)
    BY <1>1, NumberOfFolders, ClimbStep
  <2> QED BY <2>1 DEF Rises
<1>3. \A T \in SUBSET S : Parents(P, T) \subseteq S
  BY DEF Parents
<1> DEFINE R == {n \in 0..N : c[n] \subseteq S}
<1>4. 0 \in R
  BY <1>2, NumberOfFolders
<1>5. ASSUME NEW n \in 1..N, n - 1 \in R PROVE n \in R
  <2>1. c[n - 1] \subseteq S /\ Parents(P, c[n - 1]) \subseteq S /\ n \in 0..N
    BY <1>3, <1>5, NumberOfFolders
  <2> QED BY <1>2, <2>1
<1> HIDE DEF R
<1>6. N \in R
  BY <1>4, <1>5, NumberOfFolders, UpToN
<1>7. Parents(P, {f}) \subseteq S
  BY <1>3
<1> QED BY <1>1, <1>6, <1>7 DEF R

(* A climb that takes no link more at one step takes none afterwards. *)
LEMMA ClimbStops ==
  ASSUME NEW P, NEW f, NEW c, Rises(P, f, N, c), NEW k \in 1..N, c[k] = c[k - 1]
  PROVE  Parents(P, c[N]) \subseteq c[N]
<1> DEFINE m == N - k
           S == {n \in 0..m : c[k + n] = c[k]}
<1>n. N \in Nat /\ m \in Nat
  BY NumberOfFolders
<1>1. 0 \in S
  BY <1>n
<1>2. Parents(P, c[k]) \subseteq c[k]
  <2>1. c[k] = c[k - 1] \cup Parents(P, c[k - 1])
    BY DEF Rises
  <2> QED BY <2>1
<1>3. ASSUME NEW n \in 1..m, n - 1 \in S PROVE n \in S
  <2>1. k + n \in 1..N /\ (k + n) - 1 = k + (n - 1) /\ n \in 0..m
    BY <1>n
  <2>2. c[k + n] = c[(k + n) - 1] \cup Parents(P, c[(k + n) - 1])
    BY <2>1 DEF Rises
  <2>3. c[(k + n) - 1] = c[k]
    BY <1>3, <2>1
  <2> QED BY <1>2, <2>1, <2>2, <2>3
<1>4. m \in S
  <2> HIDE DEF S, m
  <2>1. 0..m \subseteq S
    BY <1>n, <1>1, <1>3, UpToN
  <2> QED BY <1>n, <2>1
<1>5. k + m = N
  BY <1>n
<1> QED BY <1>2, <1>4, <1>5

(* There are not more links than folders: the folders above one are closed *)
(* under parents.                                                          *)
LEMMA UpClosed ==
  ASSUME NEW P \in [Folder -> Dir], NEW f \in Folder, NEW g \in Up(P, f), P[g] # None
  PROVE  P[g] \in Up(P, f)
<1>1. PICK c : Climbs(P, f, N, c) /\ Up(P, f) = {f} \cup Parents(P, {f}) \cup c[N]
  BY UpClimbs
<1>n. N \in Nat /\ 0 \in 0..N /\ N \in 0..N
  BY NumberOfFolders
<1>2. Rises(P, f, N, c)
  BY <1>1, <1>n, ClimbStep
<1>3. \A n \in 0..N : f \in c[n] /\ c[n] \subseteq Folder /\ c[n] \subseteq c[N]
  BY <1>1, <1>n, ClimbGrows
<1>4. Parents(P, c[N]) \subseteq c[N]
  <2> SUFFICES ASSUME ~(Parents(P, c[N]) \subseteq c[N]) PROVE FALSE
    OBVIOUS
  <2>1. \A n \in 1..N : c[n] # c[n - 1]
    BY <1>2, ClimbStops
  <2> DEFINE S == {n \in 0..N : Cardinality(c[n]) >= n + 1}
  <2>2. \A T \in SUBSET Folder : IsFiniteSet(T) /\ Cardinality(T) \in Nat /\ Cardinality(T) <= N
    BY TreeAssumption, FS_Subset, FS_CardinalityType DEF N
  <2>3. 0 \in S
    <3>1. c[0] = {f}
      BY <1>2 DEF Rises
    <3>2. Cardinality({f}) = 1
      BY FS_Singleton
    <3>3. Cardinality(c[0]) >= 0 + 1
      BY <3>1, <3>2
    <3> QED BY <1>n, <3>3
  <2>4. ASSUME NEW n \in 1..N, n - 1 \in S PROVE n \in S
    <3>1. n \in 0..N /\ n - 1 \in 0..N /\ n \in Nat
      BY <1>n
    <3>2. c[n - 1] \subseteq c[n] /\ c[n] # c[n - 1] /\ c[n] \subseteq Folder /\ c[n - 1] \subseteq Folder
      BY <1>2, <1>3, <2>1, <3>1 DEF Rises
    <3>3. Cardinality(c[n - 1]) < Cardinality(c[n])
      BY <3>2, <2>2, FS_Subset
    <3> QED BY <2>2, <2>4, <3>1, <3>2, <3>3
  <2> HIDE DEF S
  <2>5. N \in S
    BY <1>n, <2>3, <2>4, UpToN
  <2>6. Cardinality(c[N]) >= N + 1
    BY <2>5 DEF S
  <2> QED BY <1>n, <1>3, <2>2, <2>6
<1>5. {f} \subseteq c[N]
  BY <1>3, <1>n
<1>6. Parents(P, {f}) \subseteq c[N]
  BY <1>4, <1>5 DEF Parents
<1>7. g \in c[N]
  BY <1>1, <1>5, <1>6
<1> QED BY <1>1, <1>4, <1>7 DEF Parents

LEMMA UpTrans ==
  ASSUME NEW P \in [Folder -> Dir], NEW f \in Folder, NEW g \in Up(P, f)
  PROVE  Up(P, g) \subseteq Up(P, f)
<1> DEFINE S == Up(P, f)
<1>1. g \in S
  OBVIOUS
<1>0. ASSUME NEW h \in S PROVE P[h] \in S \cup {None}
  <2>1. P[h] # None => P[h] \in Up(P, f)
    BY UpClosed
  <2> QED BY <2>1
<1> HIDE DEF S
<1>2. Up(P, g) \subseteq S
  BY <1>0, <1>1, UpLeast
<1> QED BY <1>2 DEF S

LEMMA UpTop ==
  ASSUME NEW P \in [Folder -> Dir], NEW f \in Folder, P[f] = None
  PROVE  Up(P, f) = {f}
<1>1. Up(P, f) \subseteq {f}
  BY UpLeast
<1> QED BY <1>1, UpTyped

(* Whoever is above another one is above its parent. *)
LEMMA UpParent ==
  ASSUME NEW P \in [Folder -> Dir], NEW f \in Folder, NEW g \in Up(P, f), g # f
  PROVE  P[f] # None /\ P[f] \in Folder /\ g \in Up(P, P[f])
<1>1. P[f] # None
  BY UpTop
<1>2. P[f] \in Folder
  BY <1>1 DEF Dir
<1> DEFINE S == {f} \cup Up(P, P[f])
<1>3. \A h \in S : P[h] \in S \cup {None}
  BY <1>1, <1>2, UpTyped, UpClosed
<1>4. Up(P, f) \subseteq S
  <2>1. f \in S
    OBVIOUS
  <2> HIDE DEF S
  <2> QED BY <1>3, <2>1, UpLeast
<1> QED BY <1>1, <1>2, <1>4

(* Nobody is above the parent of a folder that lies under a top. *)
LEMMA UpAcyclic ==
  ASSUME NEW P \in [Folder -> Dir], NEW t \in Folder, P[t] = None, NEW f \in Folder, t \in Up(P, f), P[f] # None
  PROVE  P[f] \in Folder /\ f \notin Up(P, P[f])
<1>1. P[f] \in Folder
  BY DEF Dir
<1> SUFFICES ASSUME f \in Up(P, P[f]) PROVE FALSE
  BY <1>1
<1> DEFINE S == {h \in Folder : f \in Up(P, h)}
<1>2. f \in S
  BY UpTyped
<1>3. ASSUME NEW h \in S PROVE P[h] \in S \cup {None}
  <2>1. CASE h = f
    BY <2>1, <1>1
  <2>2. CASE h # f
    BY <2>2, UpParent
  <2> QED BY <2>1, <2>2
<1>4. Up(P, f) \subseteq S
  <2> HIDE DEF S
  <2> QED BY <1>2, <1>3, UpLeast
<1>5. f \in Up(P, t)
  BY <1>4
<1> QED BY <1>5, UpTop

(* When the parents change, a top is still reached by those that keep a    *)
(* parent among them, if it is by the others.                              *)
LEMMA UpReaches ==
  ASSUME NEW P \in [Folder -> Dir], NEW Q \in [Folder -> Dir], NEW L \in SUBSET Folder, NEW t \in L,
         \A h \in L : t \in Up(P, h),
         \A h \in L : t \in Up(Q, h) \/ (Q[h] = P[h] /\ P[h] \in L)
  PROVE  \A h \in L : t \in Up(Q, h)
<1> SUFFICES ASSUME NEW h \in L, t \notin Up(Q, h) PROVE FALSE
  OBVIOUS
<1> DEFINE B == {g \in L : t \notin Up(Q, g)}
<1>1. ASSUME NEW g \in B PROVE P[g] \in B
  <2>1. g \in Folder /\ Q[g] = P[g] /\ P[g] \in L /\ P[g] \in Folder
    OBVIOUS
  <2>2. P[g] # None
    BY <2>1, TreeAssumption
  <2>3. P[g] \in Up(Q, g)
    BY <2>1, <2>2, UpTyped
  <2>4. Up(Q, P[g]) \subseteq Up(Q, g)
    BY <2>1, <2>3, UpTrans
  <2> QED BY <2>1, <2>4
<1>2. Up(P, h) \subseteq B
  <2>1. h \in B
    OBVIOUS
  <2> HIDE DEF B
  <2> QED BY <1>1, <2>1, UpLeast
<1>3. t \notin Up(Q, t)
  BY <1>2
<1> QED BY <1>3, UpTyped

-----------------------------------------------------------------------------
(* Calls after each other *)

Live        == {f \in Rows : del[f] = 0}
FileLive(e) == est[e] = "row" /\ edel[e] = 0 /\ fold[e] \in Live

(* A row has its parent among the rows, and what lies under a deleted one  *)
(* was deleted with it or later; the live ones lie under the root.  A file *)
(* has its folder among the rows.                                          *)
TreeSound ==
  /\ Root \in Live /\ par[Root] = None
  /\ \A f \in Folder : st[f] # "row" => par[f] = None /\ (st[f] = "new" => del[f] = 0)
  /\ \A f \in Rows : par[f] # None => par[f] \in Rows /\ (del[par[f]] # 0 => del[f] >= del[par[f]])
  /\ \A f \in Live : Root \in Up(par, f)
  /\ \A f \in Folder : del[f] <= clock
  /\ \A e \in Entry : (est[e] = "new" => edel[e] = 0) /\ (est[e] = "row" => fold[e] \in Rows)

(* The mirror has the live folders and files where they are. *)
MirrorSound ==
  /\ \A f \in Folder : cpar[f] = IF f \in Live THEN par[f] ELSE None
  /\ \A f \in Live : cname[f] = name[f]
  /\ \A e \in Entry : cent[e] = IF FileLive(e) THEN fold[e] ELSE None

Below(f) == Sub(par, f) \cap Rows

(* What a call has read is still so. *)
Knows(c) ==
  /\ c.pc \in {"create", "put", "shift"} => c.to \in Live
  /\ c.pc \in {"drop", "shift"} => FileLive(c.f)
  /\ c.pc \in {"rename", "lock", "walk", "write"} =>
       c.f \in Live \ {Root} /\ c.was = <<par[c.f], name[c.f]>> /\ (c.to # None => c.to \in Live)
  /\ c.pc = "write" => c.f \notin Up(par, c.to)
  /\ c.pc = "delete" => c.f \in Live \ {Root} /\ {d[1] : d \in c.dirs} = Below(c.f)
  /\ c.pc = "restore" =>
       /\ c.f \in Rows /\ Root \in Up(par, c.f)
       /\ del[c.f] # 0 /\ par[c.f] # None => del[par[c.f]] = 0
       /\ c.dirs = {<<g, par[g], name[g]>> : g \in Below(c.f)}
       /\ c.files = {<<e, fold[e]>> : e \in {x \in Files : edel[x] = 0 /\ fold[x] \in Below(c.f)}}
  /\ c.pc = "purge" =>
       /\ \A d \in c.dirs : d[1] \in Rows /\ del[d[1]] # 0
       /\ \A x \in c.files : edel[x[1]] # 0

OneByOne == \A r, q \in Req : r # q => req[r].pc = "idle" \/ req[q].pc = "idle"

(* What every call leaves behind, as long as they come one by one. *)
Told == TreeSound /\ (ParentFirst => MirrorSound) /\ OneByOne /\ \A r \in Req : Knows(req[r])

ToldInv == crossed \/ Told

-----------------------------------------------------------------------------
(* What is live, and what is known to the mirror *)

LEMMA Stamped == ASSUME Typed PROVE clock \in Nat /\ \A f \in Folder : del[f] \in Nat
<1>1. MaxClock \in Nat
  BY TreeAssumption
<1>2. 0..MaxClock \subseteq Nat
  BY <1>1
<1> QED BY <1>2 DEF Typed

LEMMA LiveClosed ==
  ASSUME Typed, TreeSound, NEW f \in Live
  PROVE  Up(par, f) \subseteq Live /\ (f # Root => par[f] \in Live)
<1>0. par \in [Folder -> Dir] /\ del \in [Folder -> 0..MaxClock] /\ Live \subseteq Folder
  BY DEF Typed, Live, Rows
<1>1. ASSUME NEW g \in Live, g # Root PROVE par[g] \in Live
  <2>1. Root \in Up(par, g) /\ g \in Rows /\ del[g] = 0 /\ g \in Folder
    BY DEF TreeSound, Live, Rows
  <2>2. par[g] # None /\ par[g] \in Folder
    BY <1>0, <1>1, <2>1, UpParent
  <2>3. par[g] \in Rows /\ (del[par[g]] # 0 => del[g] >= del[par[g]])
    BY <2>1, <2>2 DEF TreeSound
  <2>4. del[par[g]] \in Nat
    BY <2>2, Stamped
  <2> QED BY <2>1, <2>3, <2>4 DEF Live
<1>2. \A g \in Live : par[g] \in Live \cup {None}
  BY <1>1 DEF TreeSound
<1>3. Up(par, f) \subseteq Live
  BY <1>2, UpLeast
<1> QED BY <1>1, <1>3

(* A folder is shown if it is live. *)
LEMMA LiveIsVisible ==
  ASSUME Typed, TreeSound, NEW f \in Folder
  PROVE  Visible(f) <=> f \in Live
<1>1. ASSUME f \in Live PROVE Visible(f)
  <2>1. Up(par, f) \subseteq Live /\ Root \in Up(par, f)
    BY <1>1, LiveClosed DEF TreeSound
  <2> QED BY <1>1, <2>1 DEF Visible, Live, Rows
<1> QED BY <1>1 DEF Visible, Live, Rows

LEMMA LiveFile ==
  ASSUME Typed, TreeSound, NEW e \in Entry
  PROVE  VisibleFile(e) <=> FileLive(e)
<1>1. est[e] = "row" => fold[e] \in Folder
  BY DEF TreeSound, Rows
<1>2. \A f \in Folder : Visible(f) <=> f \in Live
  BY LiveIsVisible
<1> QED BY <1>1, <1>2 DEF VisibleFile, FileLive

LEMMA LiveIsKnown ==
  ASSUME Typed, TreeSound, MirrorSound, NEW f \in Dir
  PROVE  Known(f) <=> f \in Live
<1>1. ASSUME f \in Live, f # Root PROVE par[f] # None
  <2>1. par[f] \in Live /\ Live \subseteq Folder
    BY <1>1, LiveClosed DEF Live, Rows
  <2> QED BY <2>1, TreeAssumption
<1>2. None \notin Live /\ Root \in Live /\ Live \subseteq Folder
  BY TreeAssumption DEF TreeSound, Live, Rows
<1> QED BY <1>1, <1>2 DEF Known, MirrorSound, Dir

LEMMA ToldAgrees ==
  ASSUME Typed, TreeSound
  PROVE  NothingStranded /\ (MirrorSound => ReplicaAgrees)
<1>1. NothingStranded
  BY LiveIsVisible DEF NothingStranded, Live, Rows
<1>2. ASSUME MirrorSound PROVE ReplicaAgrees
  <2>1. \A f \in Folder : (Visible(f) <=> f \in Live) /\ (Known(f) <=> f \in Live)
    BY <1>2, LiveIsVisible, LiveIsKnown DEF Dir
  <2>2. \A e \in Entry : VisibleFile(e) <=> FileLive(e)
    BY LiveFile
  <2> QED BY <1>2, <2>1, <2>2 DEF ReplicaAgrees, MirrorSound
<1> QED BY <1>1, <1>2

(* The mirror climbs as the server does, and from what is deleted nowhere. *)
LEMMA MirrorUp ==
  ASSUME Typed, TreeSound, MirrorSound, NEW f \in Folder
  PROVE  Up(cpar, f) = IF f \in Live THEN Up(par, f) ELSE {f}
<1>0. par \in [Folder -> Dir] /\ cpar \in [Folder -> Dir]
  BY DEF Typed
<1>1. CASE f \in Live
  <2>1. \A g \in Up(par, f) : cpar[g] = par[g]
    BY <1>1, LiveClosed DEF MirrorSound, Live, Rows
  <2> QED BY <1>0, <1>1, <2>1, UpSame
<1>2. CASE f \notin Live
  BY <1>0, <1>2, UpTop DEF MirrorSound
<1> QED BY <1>1, <1>2

(* A row about one folder whose parent is known puts it there. *)
LEMMA HearOne ==
  ASSUME Typed, NEW f \in Folder, NEW p \in Folder, NEW n, Known(p), f \notin Up(cpar, p),
         HearUpsert({<<f, p, n>>}, {})
  PROVE  /\ cpar' = [g \in Folder |-> IF g = f THEN p ELSE cpar[g]]
         /\ cname' = [g \in Folder |-> IF g = f THEN n ELSE cname[g]]
         /\ cent' = cent
<1> DEFINE d == <<f, p, n>>
<1>1. PICK K \in Heard({d}) :
        /\ cpar' = [g \in Folder |-> IF \E k \in K : k[1] = g THEN (CHOOSE k \in K : k[1] = g)[2] ELSE cpar[g]]
        /\ cname' = [g \in Folder |-> IF \E k \in K : k[1] = g THEN (CHOOSE k \in K : k[1] = g)[3] ELSE cname[g]]
        /\ cent' = [e \in Entry |->
                      LET at == {q \in Folder : <<e, q>> \in {} /\ (Known(q) \/ \E k \in K : k[1] = q)}
                      IN  IF at = {} THEN cent[e] ELSE CHOOSE q \in at : TRUE]
  BY DEF HearUpsert
<1>2. K = {d}
  <2>1. Takes(d)
    BY DEF Takes
  <2>2. {x \in {d} : Takes(x)} = {d}
    BY <2>1
  <2> QED BY <1>1, <2>2 DEF Heard
<1>3. \A g \in Folder : (\E k \in K : k[1] = g) <=> g = f
  BY <1>2
<1>4. (CHOOSE k \in K : k[1] = f) = d
  BY <1>2
<1>5. d[2] = p /\ d[3] = n
  OBVIOUS
<1> HIDE DEF d
<1>7. ASSUME NEW g \in Folder
      PROVE  /\ (IF \E k \in K : k[1] = g THEN (CHOOSE k \in K : k[1] = g)[2] ELSE cpar[g]) = IF g = f THEN p ELSE cpar[g]
             /\ (IF \E k \in K : k[1] = g THEN (CHOOSE k \in K : k[1] = g)[3] ELSE cname[g]) = IF g = f THEN n ELSE cname[g]
  <2>1. CASE g = f
    BY <1>3, <1>4, <1>5, <2>1
  <2>2. CASE g # f
    BY <1>3, <2>2
  <2> QED BY <2>1, <2>2
<1>8. /\ cpar' = [g \in Folder |-> IF g = f THEN p ELSE cpar[g]]
      /\ cname' = [g \in Folder |-> IF g = f THEN n ELSE cname[g]]
  BY <1>1, <1>7
<1>6. cent' = cent
  BY <1>1 DEF Typed
<1> QED BY <1>6, <1>8

(* A row about one file puts it into a folder that is known. *)
LEMMA HearFile ==
  ASSUME Typed, NEW e \in Entry, NEW p \in Folder, HearUpsert({}, {<<e, p>>})
  PROVE  cpar' = cpar /\ cname' = cname /\ cent' = IF Known(p) THEN [cent EXCEPT ![e] = p] ELSE cent
<1>1. PICK K \in Heard({}) :
        /\ cpar' = [g \in Folder |-> IF \E k \in K : k[1] = g THEN (CHOOSE k \in K : k[1] = g)[2] ELSE cpar[g]]
        /\ cname' = [g \in Folder |-> IF \E k \in K : k[1] = g THEN (CHOOSE k \in K : k[1] = g)[3] ELSE cname[g]]
        /\ cent' = [x \in Entry |->
                      LET at == {q \in Folder : <<x, q>> \in {<<e, p>>} /\ (Known(q) \/ \E k \in K : k[1] = q)}
                      IN  IF at = {} THEN cent[x] ELSE CHOOSE q \in at : TRUE]
  BY DEF HearUpsert
<1>2. K = {}
  BY <1>1 DEF Heard
<1>3. cpar' = cpar /\ cname' = cname
  BY <1>1, <1>2 DEF Typed
<1>4. ASSUME NEW x \in Entry
      PROVE  cent'[x] = IF x = e /\ Known(p) THEN p ELSE cent[x]
  <2> DEFINE at == {q \in Folder : <<x, q>> \in {<<e, p>>} /\ (Known(q) \/ \E k \in K : k[1] = q)}
  <2>1. at = IF x = e /\ Known(p) THEN {p} ELSE {}
    BY <1>2
  <2>2. cent'[x] = IF at = {} THEN cent[x] ELSE CHOOSE q \in at : TRUE
    BY <1>1
  <2> HIDE DEF at
  <2> QED BY <2>1, <2>2
<1>5. cent' = [x \in Entry |-> cent'[x]]
  BY <1>1
<1> QED BY <1>3, <1>4, <1>5 DEF Typed

-----------------------------------------------------------------------------
(* How it begins *)

LEMMA FirstReach ==
  ASSUME Init, NEW f \in Folder, st[f] = "row"
  PROVE  Root \in Up(par, f)
<1>0. par \in [Folder -> Dir] /\ par = StartPar /\ Folder \subseteq Nat /\ 0..f \subseteq Nat /\ f \in Nat
  BY TreeAssumption DEF Init, Dir
<1>1. \A g \in Folder : st[g] = "row" /\ g # Root => par[g] \in Folder /\ par[g] < g /\ st[par[g]] = "row"
  <2> TAKE g \in Folder
  <2> HAVE st[g] = "row" /\ g # Root
  <2>1. par[g] # None
    BY DEF Init
  <2>2. StartPar[g] \in Folder /\ StartPar[g] < g /\ (StartPar[g] = Root \/ StartPar[StartPar[g]] # None)
    BY <1>0, <2>1, TreeAssumption DEF Dir
  <2> QED BY <1>0, <2>2 DEF Init
<1> DEFINE S == {n \in 0..f : \A g \in Folder : g <= n /\ st[g] = "row" => Root \in Up(par, g)}
<1>2. ASSUME NEW g \in Folder, st[g] = "row", g # Root, Root \in Up(par, par[g]) PROVE Root \in Up(par, g)
  <2>1. par[g] \in Folder /\ par[g] # None
    BY <1>1, <1>2, TreeAssumption
  <2>2. par[g] \in Up(par, g)
    BY <1>0, <2>1, UpTyped
  <2> QED BY <1>0, <1>2, <2>2, UpTrans
<1>3. Root \in Up(par, Root)
  BY <1>0, UpTyped, TreeAssumption
<1>4. 0 \in S
  <2>1. ASSUME NEW g \in Folder, g <= 0, st[g] = "row" PROVE Root \in Up(par, g)
    <3> SUFFICES ASSUME g # Root PROVE FALSE
      BY <1>3
    <3>1. par[g] \in Folder /\ par[g] < g
      BY <1>1, <2>1
    <3>2. par[g] \in Nat /\ g \in Nat
      BY <1>0, <3>1
    <3> QED BY <2>1, <3>1, <3>2
  <2>2. 0 \in 0..f
    BY <1>0
  <2> QED BY <2>1, <2>2
<1>5. ASSUME NEW n \in 1..f, n - 1 \in S PROVE n \in S
  <2>1. ASSUME NEW g \in Folder, g <= n, st[g] = "row" PROVE Root \in Up(par, g)
    <3>1. CASE g = Root
      BY <1>3, <3>1
    <3>2. CASE g # Root
      <4>1. par[g] \in Folder /\ par[g] < g /\ st[par[g]] = "row"
        BY <1>1, <2>1, <3>2
      <4>2. par[g] <= n - 1
        <5>1. par[g] \in Nat /\ g \in Nat
          BY <1>0, <4>1
        <5>2. n \in Nat
          OBVIOUS
        <5> QED BY <2>1, <4>1, <5>1, <5>2
      <4>3. Root \in Up(par, par[g])
        BY <1>5, <4>1, <4>2
      <4> QED BY <1>2, <2>1, <3>2, <4>3
    <3> QED BY <3>1, <3>2
  <2>2. n \in 0..f
    BY <1>0
  <2> QED BY <2>1, <2>2
<1>6. 0..f \subseteq S
  <2>0. f \in Nat
    BY <1>0
  <2> HIDE DEF S
  <2> QED BY <2>0, <1>4, <1>5, UpToN
<1>7. f \in 0..f /\ f <= f
  BY <1>0
<1>8. f \in S
  BY <1>6, <1>7
<1> QED BY <1>7, <1>8

LEMMA ToldInit == Init => ToldInv
<1> SUFFICES ASSUME Init PROVE TreeSound /\ MirrorSound /\ OneByOne /\ \A r \in Req : Knows(req[r])
  BY DEF ToldInv, Told
<1>1. Root \in Folder /\ StartPar[Root] = None /\ None \notin Folder /\ 0 <= 0
  BY TreeAssumption
<1>2. \A f \in Folder : par[f] # None => par[f] \in Folder /\ (par[f] = Root \/ par[par[f]] # None)
  BY TreeAssumption DEF Init
<1>3. \A e \in Entry : fold[e] # None => fold[e] \in Folder /\ (fold[e] = Root \/ par[fold[e]] # None)
  BY TreeAssumption DEF Init
<1>4. \A f \in Folder : f \in Live <=> f \in Rows
  BY DEF Init, Live, Rows
<1>5. \A f \in Folder : f \in Rows <=> f = Root \/ par[f] # None
  BY DEF Init, Rows
<1>6. Rows \subseteq Folder /\ Live \subseteq Folder
  BY DEF Live, Rows
<1>7. TreeSound
  <2>1. \A f \in Live : Root \in Up(par, f)
    BY FirstReach DEF Live, Rows
  <2>2. Root \in Live /\ par[Root] = None
    BY <1>1, <1>4, <1>5 DEF Init
  <2>3. \A f \in Folder : st[f] # "row" => par[f] = None /\ (st[f] = "new" => del[f] = 0)
    BY DEF Init
  <2>4. \A f \in Rows : par[f] # None => par[f] \in Rows /\ (del[par[f]] # 0 => del[f] >= del[par[f]])
    <3> TAKE f \in Rows
    <3>1. par[f] # None => par[f] \in Folder /\ par[f] \in Rows
      BY <1>2, <1>5, <1>6
    <3>2. par[f] # None => del[par[f]] = 0
      BY <3>1 DEF Init
    <3> QED BY <3>1, <3>2
  <2>5. \A f \in Folder : del[f] <= clock
    BY <1>1 DEF Init
  <2>6. \A e \in Entry : (est[e] = "new" => edel[e] = 0) /\ (est[e] = "row" => fold[e] \in Rows)
    BY <1>3, <1>5 DEF Init
  <2> QED BY <2>1, <2>2, <2>3, <2>4, <2>5, <2>6 DEF TreeSound
<1>8. MirrorSound
  <2>1. \A f \in Folder : cpar[f] = IF f \in Live THEN par[f] ELSE None
    BY <1>4, <1>5 DEF Init
  <2>2. \A e \in Entry : cent[e] = IF FileLive(e) THEN fold[e] ELSE None
    BY <1>3, <1>4, <1>5 DEF Init, FileLive
  <2>3. \A f \in Live : cname[f] = name[f]
    BY DEF Init
  <2> QED BY <2>1, <2>2, <2>3 DEF MirrorSound
<1>9. \A r \in Req : req[r].pc = "idle"
  BY IdleTyped DEF Init
<1> QED BY <1>7, <1>8, <1>9 DEF OneByOne, Knows

-----------------------------------------------------------------------------
(* How a call begins and ends *)

LEMMA KnowsQuiet ==
  ASSUME NEW c, Knows(c), UNCHANGED <<rowv, entv>>
  PROVE  Knows(c)'
<1>1. st' = st /\ par' = par /\ name' = name /\ del' = del /\ est' = est /\ fold' = fold /\ edel' = edel
  BY DEF rowv, entv
<1> QED BY <1>1 DEF Knows, Live, Rows, Files, FileLive, Below, Sub

(* The only call under way knows what it did, and something more. *)
LEMMA StepKnows ==
  ASSUME Typed, NEW r \in Req, NEW c, Knows(c), UNCHANGED <<rowv, entv>>,
         \A q \in Req \ {r} : req[q].pc = "idle", req' = [req EXCEPT ![r] = c]
  PROVE  (OneByOne /\ \A q \in Req : Knows(req[q]))'
<1>1. Knows(c)'
  BY KnowsQuiet
<1>2. req'[r] = c /\ \A q \in Req \ {r} : req'[q].pc = "idle"
  BY DEF Typed
<1>3. Knows(req[r])'
  <2>1. PICK d : d = req'[r]
    OBVIOUS
  <2>2. d = c
    BY <1>2, <2>1
  <2> QED BY <1>1, <1>2
<1>4. \A q \in Req \ {r} : Knows(req[q])'
  BY <1>2 DEF Knows
<1> QED BY <1>2, <1>3, <1>4 DEF OneByOne

LEMMA Answered ==
  ASSUME Typed, OneByOne, NEW r \in Req, req[r].pc # "idle", Answer(r)
  PROVE  (OneByOne /\ \A q \in Req : Knows(req[q]))'
<1>1. \A q \in Req : req'[q].pc = "idle"
  BY IdleTyped DEF OneByOne, Answer, Typed
<1> QED BY <1>1 DEF OneByOne, Knows

(* What neither folders nor files are touched by keeps the tree. *)
LEMMA TreeQuiet ==
  ASSUME Typed, TreeSound, UNCHANGED <<st, par, del, est, fold, edel, clock>>
  PROVE  TreeSound'
  BY DEF TreeSound, Live, Rows

LEMMA MirrorQuiet ==
  ASSUME MirrorSound, UNCHANGED <<rowv, entv, client>>
  PROVE  MirrorSound'
<1>1. st' = st /\ par' = par /\ name' = name /\ del' = del /\ est' = est /\ fold' = fold /\ edel' = edel
      /\ cpar' = cpar /\ cname' = cname /\ cent' = cent
  BY DEF rowv, entv, client
<1> QED BY <1>1 DEF MirrorSound, Live, Rows, FileLive

(* What lies under a deleted folder was not deleted before it. *)
LEMMA OlderAbove ==
  ASSUME Typed, TreeSound, NEW f \in Rows, NEW g \in Rows, f \in Up(par, g), del[f] # 0
  PROVE  del[g] >= del[f]
<1> SUFFICES ASSUME ~(del[g] >= del[f]) PROVE FALSE
  OBVIOUS
<1> DEFINE B == {h \in Rows : f \in Up(par, h) /\ ~(del[h] >= del[f])}
<1>0. par \in [Folder -> Dir] /\ Rows \subseteq Folder
  BY DEF Typed, Rows
<1>1. ASSUME NEW h \in B PROVE par[h] \in B
  <2>1. h \in Folder /\ f \in Folder /\ h # f /\ h \in Rows
    BY <1>0, Stamped
  <2>2. par[h] # None /\ par[h] \in Folder /\ f \in Up(par, par[h])
    BY <1>0, <2>1, UpParent
  <2>3. par[h] \in Rows /\ (del[par[h]] # 0 => del[h] >= del[par[h]])
    BY <2>1, <2>2 DEF TreeSound
  <2>4. del[h] \in Nat /\ del[f] \in Nat /\ del[par[h]] \in Nat /\ ~(del[h] >= del[f])
    BY <2>1, <2>2, Stamped
  <2>5. ~(del[par[h]] >= del[f])
    BY <2>3, <2>4
  <2> QED BY <2>2, <2>3, <2>5
<1>2. g \in B
  OBVIOUS
<1> HIDE DEF B
<1>3. Up(par, g) \subseteq B
  BY <1>1, <1>2, UpLeast
<1>4. f \in B /\ f \in Folder
  BY <1>0, <1>3
<1> QED BY <1>4, Stamped DEF B

LEMMA FirstOf ==
  ASSUME NEW B PROVE {d[1] : d \in {<<g, par[g], name[g]>> : g \in B}} = B
<1> DEFINE D == {<<g, par[g], name[g]>> : g \in B}
<1>1. \A d \in D : d[1] \in B
  OBVIOUS
<1>2. \A g \in B : <<g, par[g], name[g]>> \in D /\ <<g, par[g], name[g]>>[1] = g
  OBVIOUS
<1> HIDE DEF D
<1>3. \A g \in B : \E d \in D : d[1] = g
  BY <1>2
<1>4. {d[1] : d \in D} = B
  BY <1>1, <1>3
<1> QED BY <1>4 DEF D

(* A call that begins has read what is so. *)
LEMMA BeginKnows ==
  ASSUME Typed, TreeSound, NEW r \in Req, Begin(r)
  PROVE  \E rec : Knows(rec) /\ Start(r, rec)
<1> DEFINE P == \E rec : Knows(rec) /\ Start(r, rec)
<1>v. \A f \in Folder : Visible(f) <=> f \in Live
  BY LiveIsVisible
<1>w. \A e \in Entry : VisibleFile(e) <=> FileLive(e)
  BY LiveFile
<1>x. Rows \subseteq Folder /\ Live \subseteq Rows /\ par \in [Folder -> Dir] /\ None \notin Folder
  BY TreeAssumption DEF Live, Rows, Typed
<1> HIDE DEF P
<1>1. ASSUME NEW p \in Folder, NEW n \in Name, Create(r, p, n) PROVE P
  <2> DEFINE rec == [Idle EXCEPT !.pc = "create", !.to = p, !.name = n]
  <2>1. rec.pc = "create" /\ rec.to = p /\ p \in Live /\ Start(r, rec)
    BY <1>1, <1>v DEF Create, Idle
  <2> HIDE DEF rec
  <2>2. Knows(rec)
    BY <2>1 DEF Knows
  <2> QED BY <2>1, <2>2 DEF P
<1>2. ASSUME NEW f \in Folder, NEW t \in Dir, NEW n \in Name \cup {None}, Patch(r, f, t, n) PROVE P
  <2> DEFINE pc  == IF n # None THEN "rename" ELSE "lock"
             was == <<par[f], name[f]>>
             rec == [Idle EXCEPT !.pc = pc, !.f = f, !.to = t, !.name = n, !.was = was]
  <2>1. f \in Live \ {Root} /\ (t # None => t \in Live) /\ Start(r, rec)
    BY <1>2, <1>v DEF Patch, Dir
  <2>2. rec.pc = pc /\ rec.f = f /\ rec.to = t /\ rec.was = was
    BY DEF Idle
  <2>3. pc \in {"rename", "lock"}
    OBVIOUS
  <2> HIDE DEF rec, pc
  <2>4. Knows(rec)
    BY <2>1, <2>2, <2>3 DEF Knows
  <2> QED BY <2>1, <2>4 DEF P
<1>3. ASSUME NEW f \in Folder, Delete(r, f) PROVE P
  <2> DEFINE D   == {<<g, par[g], name[g]>> : g \in Below(f)}
             rec == [Call("delete", f) EXCEPT !.dirs = D]
  <2>1. f \in Live \ {Root} /\ Start(r, rec)
    BY <1>3, <1>v DEF Delete, Below
  <2>2. rec.pc = "delete" /\ rec.f = f /\ rec.dirs = D
    BY DEF Call, Idle
  <2>3. {d[1] : d \in D} = Below(f)
    BY FirstOf
  <2> HIDE DEF rec, D
  <2>4. Knows(rec)
    BY <2>1, <2>2, <2>3 DEF Knows
  <2> QED BY <2>1, <2>4 DEF P
<1>4. ASSUME NEW f \in Folder, Restore(r, f) PROVE P
  <2> DEFINE B   == {g \in Sub(par, f) \cap Rows : del[f] = 0 \/ del[g] = 0 \/ del[g] >= del[f]}
             D   == {<<g, par[g], name[g]>> : g \in B}
             E   == {<<e, fold[e]>> : e \in {x \in Files : edel[x] = 0 /\ fold[x] \in B}}
             rec == [Call("restore", f) EXCEPT !.dirs = D, !.files = E]
  <2>1. f \in Rows /\ Root \in Up(par, f) /\ (del[f] # 0 /\ par[f] # None => del[par[f]] = 0) /\ Start(r, rec)
    BY <1>4 DEF Restore, Sub
  <2>2. rec.pc = "restore" /\ rec.f = f /\ rec.dirs = D /\ rec.files = E
    BY DEF Call, Idle
  <2>3. \A g \in Rows : f \in Up(par, g) /\ del[f] # 0 => del[g] >= del[f]
    BY <2>1, OlderAbove
  <2>4. B = Below(f)
    BY <2>3, <1>x DEF Below, Sub
  <2> HIDE DEF rec, B
  <2>5. Knows(rec)
    BY <2>1, <2>2, <2>4 DEF Knows
  <2> QED BY <2>1, <2>5 DEF P
<1>5. ASSUME NEW cut \in 2..(clock + 1), Purge(r, cut) PROVE P
  <2> DEFINE T   == Sub(par, Root)
             O   == {f \in Rows \cap T : del[f] # 0 /\ del[f] < cut}
             D   == {<<f, par[f], name[f]>> : f \in {f \in O : \A g \in Rows : par[g] = f => del[g] # 0}}
             E   == {<<e, fold[e]>> : e \in {e \in Files : fold[e] \in T /\ edel[e] # 0 /\ edel[e] < cut}}
             rec == [Idle EXCEPT !.pc = "purge", !.dirs = D, !.files = E]
  <2>1. Start(r, rec)
    BY <1>5 DEF Purge
  <2>2. rec.pc = "purge" /\ rec.dirs = D /\ rec.files = E
    BY DEF Idle
  <2>3. (\A d \in D : d[1] \in Rows /\ del[d[1]] # 0) /\ \A x \in E : edel[x[1]] # 0
    OBVIOUS
  <2> HIDE DEF rec, D, E
  <2>4. Knows(rec)
    BY <2>2, <2>3 DEF Knows
  <2> QED BY <2>1, <2>4 DEF P
<1>6. ASSUME NEW p \in Folder, Put(r, p) PROVE P
  <2> DEFINE rec == [Idle EXCEPT !.pc = "put", !.to = p]
  <2>1. rec.pc = "put" /\ rec.to = p /\ p \in Live /\ Start(r, rec)
    BY <1>6, <1>v DEF Put, Idle
  <2> HIDE DEF rec
  <2>2. Knows(rec)
    BY <2>1 DEF Knows
  <2> QED BY <2>1, <2>2 DEF P
<1>7. ASSUME NEW e \in Entry, Drop(r, e) PROVE P
  <2> DEFINE rec == Call("drop", e)
  <2>1. rec.pc = "drop" /\ rec.f = e /\ FileLive(e) /\ Start(r, rec)
    BY <1>7, <1>w DEF Drop, Call, Idle
  <2> HIDE DEF rec
  <2>2. Knows(rec)
    BY <2>1 DEF Knows
  <2> QED BY <2>1, <2>2 DEF P
<1>8. ASSUME NEW e \in Entry, Undrop(r, e) PROVE P
  <2> DEFINE rec == Call("undrop", e)
  <2>1. rec.pc = "undrop" /\ Start(r, rec)
    BY <1>8 DEF Undrop, Call, Idle
  <2> HIDE DEF rec
  <2>2. Knows(rec)
    BY <2>1 DEF Knows
  <2> QED BY <2>1, <2>2 DEF P
<1>9. ASSUME NEW e \in Entry, NEW t \in Folder, Shift(r, e, t) PROVE P
  <2> DEFINE rec == [Call("shift", e) EXCEPT !.to = t]
  <2>1. rec.pc = "shift" /\ rec.f = e /\ rec.to = t /\ FileLive(e) /\ t \in Live /\ Start(r, rec)
    BY <1>9, <1>v, <1>w DEF Shift, Call, Idle
  <2> HIDE DEF rec
  <2>2. Knows(rec)
    BY <2>1 DEF Knows
  <2> QED BY <2>1, <2>2 DEF P
<1>a. P
  BY <1>1, <1>2, <1>3, <1>4, <1>5, <1>6, <1>7, <1>8, <1>9 DEF Begin
<1> QED BY <1>a DEF P

LEMMA ToldBegin ==
  ASSUME Typed, Told, NEW r \in Req, Begin(r), ~Meets(r)
  PROVE  Told'
<1>1. PICK rec : Knows(rec) /\ Start(r, rec)
  BY BeginKnows DEF Told
<1>2. UNCHANGED <<rowv, entv, client, clock>> /\ req' = [req EXCEPT ![r] = rec]
  BY <1>1 DEF Start
<1>3. \A q \in Req \ {r} : req[q].pc = "idle"
  BY DEF Meets
<1>4. (OneByOne /\ \A q \in Req : Knows(req[q]))'
  BY <1>1, <1>2, <1>3, StepKnows
<1>5. TreeSound' /\ (MirrorSound => MirrorSound')
  BY <1>2, TreeQuiet, MirrorQuiet DEF Told, rowv, entv
<1> QED BY <1>4, <1>5 DEF Told

LEMMA ToldAbort ==
  ASSUME Typed, Told, NEW r \in Req, req[r].pc # "idle", Abort(r)
  PROVE  Told'
<1>1. (OneByOne /\ \A q \in Req : Knows(req[q]))'
  BY Answered DEF Abort, Told
<1>2. TreeSound' /\ (MirrorSound => MirrorSound')
  BY TreeQuiet, MirrorQuiet DEF Told, Abort, rowv, entv
<1> QED BY <1>1, <1>2 DEF Told

(* The steps of a move that only take locks or look. *)
LEMMA ToldGoesOn ==
  ASSUME Typed, Told, NEW r \in Req, req[r].pc # "idle", NEW c, Knows(c),
         req' = [req EXCEPT ![r] = c], UNCHANGED <<rowv, entv, client, clock>>
  PROVE  Told'
<1>1. \A q \in Req \ {r} : req[q].pc = "idle"
  BY DEF Told, OneByOne
<1>2. (OneByOne /\ \A q \in Req : Knows(req[q]))'
  BY <1>1, StepKnows
<1>3. TreeSound' /\ (MirrorSound => MirrorSound')
  BY TreeQuiet, MirrorQuiet DEF Told, rowv, entv
<1> QED BY <1>2, <1>3 DEF Told

(* The end of a transaction. *)
LEMMA ToldAnswer ==
  ASSUME Typed, Told, NEW r \in Req, req[r].pc # "idle", Answer(r), TreeSound', ParentFirst => MirrorSound'
  PROVE  Told'
<1>1. (OneByOne /\ \A q \in Req : Knows(req[q]))'
  BY Answered DEF Told
<1> QED BY <1>1 DEF Told

LEMMA ToldLocks ==
  ASSUME Typed, Told, NEW r \in Req,
         LockRow(r) \/ Walk(r) \/ (RenameRow(r) /\ req[r].to # None)
  PROVE  Told'
<1>1. Knows(req[r]) /\ req[r] \in ReqRec
  BY ReqTyped DEF Told
<1>2. CASE LockRow(r)
  <2>1. PICK c : req' = [req EXCEPT ![r] = c] /\ c.pc \in {"lock", "walk"} /\ c.f = req[r].f /\ c.to = req[r].to
                   /\ c.was = req[r].was
    <3>1. CASE Wanted(r) = {}
      <4> DEFINE c == [req[r] EXCEPT !.pc = "walk"]
      <4>1. c.pc = "walk" /\ c.f = req[r].f /\ c.to = req[r].to /\ c.was = req[r].was
        BY <1>1 DEF ReqRec, ReqShape
      <4>2. req' = [req EXCEPT ![r] = c]
        BY <1>2, <3>1 DEF LockRow
      <4> HIDE DEF c
      <4> QED BY <4>1, <4>2
    <3>2. CASE Wanted(r) # {}
      <4> DEFINE c == [req[r] EXCEPT !.held = req[r].held \cup {NextLock(r)}]
      <4>1. c.pc = "lock" /\ c.f = req[r].f /\ c.to = req[r].to /\ c.was = req[r].was
        BY <1>1, <1>2 DEF ReqRec, ReqShape, LockRow
      <4>2. req' = [req EXCEPT ![r] = c]
        BY <1>2, <3>2 DEF LockRow
      <4> HIDE DEF c
      <4> QED BY <4>1, <4>2
    <3> QED BY <3>1, <3>2
  <2>2. Knows(c)
    BY <1>1, <1>2, <2>1 DEF LockRow, Knows
  <2>3. UNCHANGED <<rowv, entv, client, clock>> /\ req[r].pc # "idle"
    BY <1>2 DEF LockRow
  <2> QED BY <2>1, <2>2, <2>3, ToldGoesOn
<1>3. CASE Walk(r) /\ req[r].f \in Up(par, req[r].to)
  BY <1>3, ToldAbort DEF Walk, Abort
<1>4. CASE Walk(r) /\ req[r].f \notin Up(par, req[r].to)
  <2> DEFINE c == [req[r] EXCEPT !.pc = "write"]
  <2>1. c.pc = "write" /\ c.f = req[r].f /\ c.to = req[r].to /\ c.was = req[r].was
    BY <1>1 DEF ReqRec, ReqShape
  <2>2. req' = [req EXCEPT ![r] = c] /\ UNCHANGED <<rowv, entv, client, clock>> /\ req[r].pc = "walk"
    BY <1>4 DEF Walk
  <2> HIDE DEF c
  <2>3. Knows(c)
    BY <1>1, <1>4, <2>1, <2>2 DEF Knows
  <2> QED BY <2>2, <2>3, ToldGoesOn
<1>5. CASE RenameRow(r) /\ req[r].to # None /\ Abort(r)
  BY <1>5, ToldAbort DEF RenameRow
<1>6. CASE RenameRow(r) /\ req[r].to # None /\ ~Abort(r)
  <2> DEFINE c == [req[r] EXCEPT !.pc = "lock", !.held = {req[r].f}]
  <2>1. c.pc = "lock" /\ c.f = req[r].f /\ c.to = req[r].to /\ c.was = req[r].was
    BY <1>1 DEF ReqRec, ReqShape
  <2>2. req' = [req EXCEPT ![r] = c] /\ UNCHANGED <<rowv, entv, client, clock>> /\ req[r].pc = "rename"
    BY <1>6 DEF RenameRow
  <2> HIDE DEF c
  <2>3. Knows(c)
    BY <1>1, <2>1, <2>2 DEF Knows
  <2> QED BY <2>2, <2>3, ToldGoesOn
<1> QED BY <1>2, <1>3, <1>4, <1>5, <1>6

(* Live and dead folders, files, and the parents of the live ones. *)
LEMMA TreeFacts ==
  ASSUME Typed, TreeSound
  PROVE  /\ par \in [Folder -> Dir] /\ cpar \in [Folder -> Dir] /\ None \notin Folder
         /\ Rows \subseteq Folder /\ Live \subseteq Rows /\ Root \in Live /\ par[Root] = None
         /\ \A f \in Live : Up(par, f) \subseteq Live /\ Root \in Up(par, f) /\ (f # Root => par[f] \in Live)
  BY TreeAssumption, LiveClosed DEF Typed, Rows, Live, TreeSound

(* A row about a folder under a live one reaches the mirror. *)
LEMMA HearLive ==
  ASSUME Typed, TreeSound, MirrorSound, NEW f \in Folder, NEW p \in Live, NEW n, f \notin Up(par, p),
         HearUpsert({<<f, p, n>>}, {})
  PROVE  /\ cpar' = [g \in Folder |-> IF g = f THEN p ELSE cpar[g]]
         /\ cname' = [g \in Folder |-> IF g = f THEN n ELSE cname[g]]
         /\ cent' = cent
<1>1. p \in Folder /\ p \in Dir
  BY TreeFacts DEF Dir
<1>2. Known(p) /\ Up(cpar, p) = Up(par, p)
  BY <1>1, LiveIsKnown, MirrorUp
<1> QED BY <1>1, <1>2, HearOne

-----------------------------------------------------------------------------
(* What each transaction leaves behind *)

LEMMA ToldCreate ==
  ASSUME Typed, Typed', Told, NEW r \in Req, CreateCommit(r)
  PROVE  Told'
<1> DEFINE p == req[r].to
           n == req[r].name
<1>0. TreeSound /\ p \in Live /\ req[r].pc # "idle"
  BY DEF CreateCommit, Told, Knows
<1>1. CASE Abort(r)
  BY <1>0, <1>1, ToldAbort
<1>2. CASE ~Abort(r)
  <2>1. PICK f \in Folder :
          /\ st[f] = "new" /\ st' = [st EXCEPT ![f] = "row"] /\ par' = [par EXCEPT ![f] = p]
          /\ name' = [name EXCEPT ![f] = n] /\ HearUpsert({<<f, p, n>>}, {})
    BY <1>2 DEF CreateCommit
  <2>2. Answer(r) /\ UNCHANGED <<del, est, fold, edel, clock>>
    BY <1>2 DEF CreateCommit, entv
  <2> HIDE DEF p, n
  <2>t. /\ par \in [Folder -> Dir] /\ par' \in [Folder -> Dir] /\ None \notin Folder
        /\ Rows \subseteq Folder /\ Live \subseteq Rows /\ Root \in Live /\ par[Root] = None
        /\ \A g \in Live : Up(par, g) \subseteq Live /\ Root \in Up(par, g) /\ (g # Root => par[g] \in Live)
    BY <1>0, TreeFacts DEF Typed
  <2>3. /\ f \notin Rows /\ f # p /\ f # Root /\ del[f] = 0
        /\ \A g \in Folder : st'[g] = (IF g = f THEN "row" ELSE st[g]) /\ par'[g] = (IF g = f THEN p ELSE par[g])
                             /\ name'[g] = (IF g = f THEN n ELSE name[g])
    BY <1>0, <2>1, <2>t DEF Typed, TreeSound, Rows
  <2>4. Rows' = Rows \cup {f} /\ Live' = Live \cup {f}
    BY <2>2, <2>3, <2>t DEF Live, Rows
  <2>5. \A g \in Live : Up(par', g) = Up(par, g)
    <3> TAKE g \in Live
    <3>1. \A h \in Up(par, g) : h # f /\ h \in Folder
      BY <2>t, <2>3
    <3>2. \A h \in Up(par, g) : par'[h] = par[h]
      BY <2>3, <3>1
    <3> QED BY <2>t, <3>2, UpSame
  <2>6. Root \in Up(par', f)
    <3>1. p \in Up(par', f)
      BY <2>3, <2>t, <1>0, UpTyped
    <3> QED BY <1>0, <2>t, <2>5, <3>1, UpTrans
  <2>7. TreeSound'
    <3>1. Root \in Live' /\ par'[Root] = None
      BY <2>t, <2>3, <2>4
    <3>2. \A g \in Folder : st'[g] # "row" => par'[g] = None /\ (st'[g] = "new" => del'[g] = 0)
      BY <1>0, <2>2, <2>3 DEF TreeSound
    <3>3. \A g \in Rows' : par'[g] # None => par'[g] \in Rows' /\ (del'[par'[g]] # 0 => del'[g] >= del'[par'[g]])
      <4>1. del[p] = 0 /\ p \in Rows
        BY <1>0 DEF Live
      <4>2. \A g \in Rows : par[g] # None => par[g] \in Rows /\ (del[par[g]] # 0 => del[g] >= del[par[g]])
        BY <1>0 DEF TreeSound
      <4> QED BY <2>2, <2>3, <2>4, <2>t, <4>1, <4>2
    <3>4. \A g \in Live' : Root \in Up(par', g)
      BY <2>4, <2>5, <2>6, <2>t
    <3>5. \A g \in Folder : del'[g] <= clock'
      BY <1>0, <2>2 DEF TreeSound
    <3>6. \A e \in Entry : (est'[e] = "new" => edel'[e] = 0) /\ (est'[e] = "row" => fold'[e] \in Rows')
      BY <1>0, <2>2, <2>4 DEF TreeSound
    <3> QED BY <3>1, <3>2, <3>3, <3>4, <3>5, <3>6 DEF TreeSound
  <2>8. ASSUME MirrorSound PROVE MirrorSound'
    <3>1. f \notin Up(par, p)
      BY <1>0, <2>t, <2>3
    <3>2. /\ cpar' = [g \in Folder |-> IF g = f THEN p ELSE cpar[g]]
          /\ cname' = [g \in Folder |-> IF g = f THEN n ELSE cname[g]]
          /\ cent' = cent
      BY <1>0, <2>1, <2>8, <3>1, HearLive
    <3>3. \A e \in Entry : FileLive(e)' <=> FileLive(e)
      BY <1>0, <2>2, <2>3, <2>4 DEF FileLive, TreeSound
    <3>4. \A g \in Folder : cpar'[g] = IF g \in Live' THEN par'[g] ELSE None
      BY <2>3, <2>4, <2>8, <3>2 DEF MirrorSound
    <3>5. \A g \in Live' : cname'[g] = name'[g]
      BY <2>3, <2>4, <2>8, <2>t, <3>2 DEF MirrorSound
    <3>6. \A e \in Entry : cent'[e] = IF FileLive(e)' THEN fold'[e] ELSE None
      BY <2>2, <2>8, <3>2, <3>3 DEF MirrorSound
    <3> QED BY <3>4, <3>5, <3>6 DEF MirrorSound
  <2> QED BY <1>0, <2>2, <2>7, <2>8, ToldAnswer DEF Told
<1> QED BY <1>1, <1>2

LEMMA ToldRename ==
  ASSUME Typed, Typed', Told, NEW r \in Req, RenameRow(r), req[r].to = None
  PROVE  Told'
<1> DEFINE f == req[r].f
           n == req[r].name
           p == req[r].was[1]
<1>0. TreeSound /\ f \in Live \ {Root} /\ req[r].was = <<par[f], name[f]>> /\ req[r].pc # "idle"
  BY DEF RenameRow, Told, Knows
<1>1. CASE Abort(r)
  BY <1>0, <1>1, ToldAbort
<1>2. CASE ~Abort(r)
  <2>1. /\ name' = [name EXCEPT ![f] = n] /\ HearUpsert({<<f, p, n>>}, {})
        /\ Answer(r) /\ UNCHANGED <<st, par, del, est, fold, edel, clock>>
    BY <1>2 DEF RenameRow, entv
  <2>2. p = par[f]
    BY <1>0
  <2> HIDE DEF f, n, p
  <2>3. TreeSound'
    BY <1>0, <2>1, TreeQuiet
  <2>4. ASSUME MirrorSound PROVE MirrorSound'
    <3>1. f \in Folder /\ p \in Live /\ p # None /\ Root \in Folder
      BY <1>0, <2>2, TreeFacts
    <3>2. f \notin Up(par, p)
      BY <1>0, <2>2, <3>1, TreeFacts, UpAcyclic
    <3>3. /\ cpar' = [g \in Folder |-> IF g = f THEN p ELSE cpar[g]]
          /\ cname' = [g \in Folder |-> IF g = f THEN n ELSE cname[g]]
          /\ cent' = cent
      BY <1>0, <2>1, <2>4, <3>1, <3>2, HearLive
    <3>4. Live' = Live /\ \A e \in Entry : FileLive(e)' <=> FileLive(e)
      BY <2>1 DEF Live, Rows, FileLive
    <3>5. \A g \in Folder : cpar'[g] = IF g \in Live' THEN par'[g] ELSE None
      BY <1>0, <2>1, <2>2, <2>4, <3>3, <3>4 DEF MirrorSound
    <3>6. \A g \in Live' : cname'[g] = name'[g]
      <4>1. \A g \in Folder : name'[g] = IF g = f THEN n ELSE name[g]
        BY <2>1 DEF Typed
      <4>2. Live \subseteq Folder
        BY DEF Live, Rows
      <4> QED BY <2>4, <3>3, <3>4, <4>1, <4>2 DEF MirrorSound
    <3>7. \A e \in Entry : cent'[e] = IF FileLive(e)' THEN fold'[e] ELSE None
      BY <2>1, <2>4, <3>3, <3>4 DEF MirrorSound
    <3> QED BY <3>5, <3>6, <3>7 DEF MirrorSound
  <2> QED BY <1>0, <2>1, <2>3, <2>4, ToldAnswer DEF Told
<1> QED BY <1>1, <1>2

LEMMA ToldMove ==
  ASSUME Typed, Typed', Told, NEW r \in Req, MoveWrite(r)
  PROVE  Told'
<1> DEFINE f == req[r].f
           t == req[r].to
           n == IF req[r].name # None THEN req[r].name ELSE name[f]
<1>0. /\ TreeSound /\ f \in Live \ {Root} /\ req[r].was = <<par[f], name[f]>> /\ req[r].pc # "idle"
      /\ t # None => t \in Live
  BY DEF MoveWrite, Told, Knows
<1>f. t \in Live /\ f \notin Up(par, t)
  <2>1. t \in Folder /\ None \notin Folder
    BY ReqTyped, TreeAssumption DEF MoveWrite
  <2> QED BY <1>0, <2>1 DEF MoveWrite, Told, Knows
<1>1. CASE Abort(r)
  BY <1>0, <1>1, ToldAbort
<1>2. CASE ~Abort(r)
  <2>1. /\ par' = [par EXCEPT ![f] = t] /\ name' = [name EXCEPT ![f] = n]
        /\ HearUpsert({<<f, t, NewName(r)>>}, {})
        /\ Answer(r) /\ UNCHANGED <<st, del, est, fold, edel, clock>>
    BY <1>2 DEF MoveWrite, entv
  <2>2. NewName(r) = n
    BY <1>0 DEF NewName
  <2>h. HearUpsert({<<f, t, n>>}, {})
    BY <2>1, <2>2
  <2> HIDE DEF f, t, n
  <2>t. /\ par \in [Folder -> Dir] /\ par' \in [Folder -> Dir] /\ None \notin Folder
        /\ Rows \subseteq Folder /\ Live \subseteq Rows /\ Root \in Live /\ par[Root] = None
        /\ \A g \in Live : Up(par, g) \subseteq Live /\ Root \in Up(par, g) /\ (g # Root => par[g] \in Live)
    BY <1>0, TreeFacts DEF Typed
  <2>3. /\ \A g \in Folder : par'[g] = (IF g = f THEN t ELSE par[g]) /\ name'[g] = (IF g = f THEN n ELSE name[g])
        /\ f \in Folder /\ f \in Rows /\ t \in Folder /\ t \in Rows /\ f # Root /\ f # t
    BY <1>0, <1>f, <2>1, <2>t, UpTyped DEF Typed
  <2>4. Rows' = Rows /\ Live' = Live
    BY <2>1 DEF Live, Rows
  <2>5. Up(par', t) = Up(par, t)
    <3>1. \A h \in Up(par, t) : h # f /\ h \in Folder
      BY <1>f, <2>t
    <3> QED BY <2>t, <2>3, <3>1, UpSame
  <2>6. \A g \in Live : Root \in Up(par', g)
    <3>1. Root \in Up(par', f)
      <4>1. t \in Up(par', f)
        BY <2>3, <2>t, UpTyped
      <4> QED BY <1>f, <2>t, <2>3, <2>5, <4>1, UpTrans
    <3>2. Root \in Up(par', Root)
      BY <2>t, UpTyped
    <3>3. \A g \in Live : Root \in Up(par', g) \/ (par'[g] = par[g] /\ par[g] \in Live)
      BY <2>3, <2>t, <3>1, <3>2
    <3>5. Live \in SUBSET Folder
      BY <2>t
    <3> QED BY <2>t, <3>3, <3>5, UpReaches
  <2>7. TreeSound'
    <3>1. Root \in Live' /\ par'[Root] = None
      BY <2>t, <2>3, <2>4
    <3>2. \A g \in Folder : st'[g] # "row" => par'[g] = None /\ (st'[g] = "new" => del'[g] = 0)
      BY <1>0, <2>1, <2>3 DEF TreeSound, Rows
    <3>3. \A g \in Rows' : par'[g] # None => par'[g] \in Rows' /\ (del'[par'[g]] # 0 => del'[g] >= del'[par'[g]])
      <4>1. del[t] = 0
        BY <1>f DEF Live
      <4>2. \A g \in Rows : par[g] # None => par[g] \in Rows /\ (del[par[g]] # 0 => del[g] >= del[par[g]])
        BY <1>0 DEF TreeSound
      <4> QED BY <2>1, <2>3, <2>4, <2>t, <4>1, <4>2
    <3>4. \A g \in Live' : Root \in Up(par', g)
      BY <2>4, <2>6
    <3>5. \A g \in Folder : del'[g] <= clock'
      BY <1>0, <2>1 DEF TreeSound
    <3>6. \A e \in Entry : (est'[e] = "new" => edel'[e] = 0) /\ (est'[e] = "row" => fold'[e] \in Rows')
      BY <1>0, <2>1, <2>4 DEF TreeSound
    <3> QED BY <3>1, <3>2, <3>3, <3>4, <3>5, <3>6 DEF TreeSound
  <2>8. ASSUME MirrorSound PROVE MirrorSound'
    <3>1. f \notin Up(par, t)
      BY <1>f
    <3>2. /\ cpar' = [g \in Folder |-> IF g = f THEN t ELSE cpar[g]]
          /\ cname' = [g \in Folder |-> IF g = f THEN n ELSE cname[g]]
          /\ cent' = cent
      BY <1>0, <1>f, <2>h, <2>3, <2>8, <3>1, HearLive
    <3>3. \A e \in Entry : FileLive(e)' <=> FileLive(e)
      BY <2>1, <2>4 DEF FileLive
    <3>4. \A g \in Folder : cpar'[g] = IF g \in Live' THEN par'[g] ELSE None
      BY <1>0, <2>3, <2>4, <2>8, <3>2 DEF MirrorSound
    <3>5. \A g \in Live' : cname'[g] = name'[g]
      BY <2>3, <2>4, <2>8, <2>t, <3>2 DEF MirrorSound
    <3>6. \A e \in Entry : cent'[e] = IF FileLive(e)' THEN fold'[e] ELSE None
      BY <2>1, <2>8, <3>2, <3>3 DEF MirrorSound
    <3> QED BY <3>4, <3>5, <3>6 DEF MirrorSound
  <2> QED BY <1>0, <2>1, <2>7, <2>8, ToldAnswer DEF Told
<1> QED BY <1>1, <1>2

LEMMA StampsRise ==
  ASSUME Typed, NEW t \in Stamps
  PROVE  t \in Nat /\ t # 0 /\ clock <= t
<1>1. clock \in Nat /\ t \in {clock, clock + 1} /\ t \in 1..MaxClock
  BY Stamped DEF Stamps
<1> QED BY <1>1

(* The mirror drops a deleted folder with the live ones under it. *)
LEMMA HearSub ==
  ASSUME Typed, TreeSound, MirrorSound, NEW f \in Folder, NEW g \in Folder
  PROVE  g \in Sub(cpar, f) <=> IF g \in Live THEN f \in Up(par, g) ELSE g = f
  BY MirrorUp DEF Sub

LEMMA ToldDelete ==
  ASSUME Typed, Typed', Told, NEW r \in Req, DeleteCommit(r)
  PROVE  Told'
<1> DEFINE f == req[r].f
           B == Below(f)
<1>0. TreeSound /\ f \in Live \ {Root} /\ Ids(r) = B /\ req[r].pc # "idle"
  BY DEF DeleteCommit, Told, Knows, Ids
<1>t. /\ par \in [Folder -> Dir] /\ None \notin Folder
      /\ Rows \subseteq Folder /\ Live \subseteq Rows /\ Root \in Live /\ par[Root] = None
      /\ \A g \in Live : Up(par, g) \subseteq Live /\ Root \in Up(par, g) /\ (g # Root => par[g] \in Live)
  BY <1>0, TreeFacts
<1>b. B \subseteq Rows /\ \A g \in Folder : g \in B <=> g \in Rows /\ f \in Up(par, g)
  BY DEF Below, Sub
<1>r. {f} \cap Rows = {f} /\ B \cap Rows = B /\ f \in Folder
  BY <1>0, <1>b, <1>t
<1>1. PICK t \in Stamps : clock' = t /\ del' = [g \in Folder |-> IF g \in B THEN t ELSE del[g]]
  BY <1>0, <1>r DEF DeleteCommit
<1>2. HearGone({f}, {}) /\ Answer(r) /\ UNCHANGED <<st, par, name, est, fold, edel>>
  BY <1>r DEF DeleteCommit, entv
<1>3. t \in Nat /\ t # 0 /\ clock <= t /\ clock \in Nat /\ \A g \in Folder : del[g] \in Nat
  BY StampsRise, Stamped
<1> HIDE DEF f, B
<1>4. Rows' = Rows /\ Live' = Live \ B
  BY <1>1, <1>2, <1>3, <1>t DEF Live, Rows
<1>5. Root \notin B
  <2>1. Up(par, Root) = {Root} /\ Root \in Folder
    BY <1>t, UpTop
  <2> QED BY <1>0, <1>b, <2>1
<1>6. \A g \in Rows : par[g] \in B => g \in B
  <2> TAKE g \in Rows
  <2> HAVE par[g] \in B
  <2>1. par[g] \in Folder /\ par[g] # None /\ g \in Folder /\ f \in Up(par, par[g])
    BY <1>b, <1>t
  <2>2. par[g] \in Up(par, g)
    BY <1>t, <2>1, UpTyped
  <2> QED BY <1>b, <1>t, <2>1, <2>2, UpTrans
<1>7. TreeSound'
  <2>1. Root \in Live' /\ par'[Root] = None
    BY <1>2, <1>4, <1>5, <1>t
  <2>2. \A g \in Folder : st'[g] # "row" => par'[g] = None /\ (st'[g] = "new" => del'[g] = 0)
    BY <1>0, <1>1, <1>2, <1>b DEF TreeSound, Rows
  <2>3. \A g \in Rows' : par'[g] # None => par'[g] \in Rows' /\ (del'[par'[g]] # 0 => del'[g] >= del'[par'[g]])
    <3> SUFFICES ASSUME NEW g \in Rows, par[g] # None
                 PROVE  par[g] \in Rows /\ (del'[par[g]] # 0 => del'[g] >= del'[par[g]])
      BY <1>2, <1>4
    <3>1. par[g] \in Rows /\ (del[par[g]] # 0 => del[g] >= del[par[g]]) /\ del[par[g]] <= clock
      BY <1>0, <1>t DEF TreeSound
    <3>2. /\ del'[g] = (IF g \in B THEN t ELSE del[g])
          /\ del'[par[g]] = (IF par[g] \in B THEN t ELSE del[par[g]])
      BY <1>1, <1>t, <3>1
    <3>3. del[g] \in Nat /\ del[par[g]] \in Nat
      BY <1>3, <1>t, <3>1
    <3>4. CASE par[g] \in B
      <4>1. del'[g] = t /\ del'[par[g]] = t
        BY <1>6, <3>2, <3>4
      <4> QED BY <1>3, <3>1, <4>1
    <3>5. CASE par[g] \notin B /\ g \in B
      <4>1. del'[g] = t /\ del'[par[g]] = del[par[g]]
        BY <3>2, <3>5
      <4> QED BY <1>3, <3>1, <3>3, <4>1
    <3>6. CASE par[g] \notin B /\ g \notin B
      BY <3>1, <3>2, <3>6
    <3> QED BY <3>4, <3>5, <3>6
  <2>4. \A g \in Live' : Root \in Up(par', g)
    BY <1>2, <1>4, <1>t
  <2>5. \A g \in Folder : del'[g] <= clock'
    <3> TAKE g \in Folder
    <3>1. del[g] <= clock /\ del[g] \in Nat
      BY <1>0, <1>3 DEF TreeSound
    <3>2. del'[g] = (IF g \in B THEN t ELSE del[g]) /\ clock' = t
      BY <1>1
    <3> QED BY <1>3, <3>1, <3>2
  <2>6. \A e \in Entry : (est'[e] = "new" => edel'[e] = 0) /\ (est'[e] = "row" => fold'[e] \in Rows')
    BY <1>0, <1>2, <1>4 DEF TreeSound
  <2> QED BY <2>1, <2>2, <2>3, <2>4, <2>5, <2>6 DEF TreeSound
<1>8. ASSUME MirrorSound PROVE MirrorSound'
  <2>1. PICK gone : gone = UNION {Sub(cpar, d) : d \in {f}}
    OBVIOUS
  <2>2. gone = Sub(cpar, f)
    BY <2>1
  <2>3. gone \subseteq Folder /\ \A g \in Folder : g \in gone <=> g \in Live /\ g \in B
    <3>1. \A g \in Folder : g \in gone <=> IF g \in Live THEN f \in Up(par, g) ELSE g = f
      BY <1>0, <1>r, <1>8, <2>2, HearSub
    <3>2. gone \subseteq Folder
      BY <2>2 DEF Sub
    <3> QED BY <1>0, <1>b, <1>t, <3>1, <3>2
  <2>4. /\ cpar' = [g \in Folder |-> IF g \in gone THEN None ELSE cpar[g]]
        /\ cname' = [g \in Folder |-> IF g \in gone THEN None ELSE cname[g]]
        /\ cent' = [e \in Entry |-> IF cent[e] \in gone THEN None ELSE cent[e]]
    BY <1>2, <2>1 DEF HearGone
  <2>5. \A e \in Entry : FileLive(e)' <=> FileLive(e) /\ fold[e] \notin B
    BY <1>2, <1>4 DEF FileLive
  <2>6. \A g \in Folder : cpar'[g] = IF g \in Live' THEN par'[g] ELSE None
    BY <1>2, <1>4, <1>8, <2>3, <2>4 DEF MirrorSound
  <2>7. \A g \in Live' : cname'[g] = name'[g]
    BY <1>2, <1>4, <1>8, <1>t, <2>3, <2>4 DEF MirrorSound
  <2>8. \A e \in Entry : cent'[e] = IF FileLive(e)' THEN fold'[e] ELSE None
    <3> TAKE e \in Entry
    <3>1. cent[e] = (IF FileLive(e) THEN fold[e] ELSE None) /\ fold'[e] = fold[e]
      BY <1>2, <1>8 DEF MirrorSound
    <3>2. cent'[e] = (IF cent[e] \in gone THEN None ELSE cent[e])
      BY <2>4
    <3>3. FileLive(e) => fold[e] \in Live /\ fold[e] \in Folder
      BY <1>t DEF FileLive
    <3>4. None \notin gone
      BY <1>t, <2>3
    <3> QED BY <2>3, <2>5, <3>1, <3>2, <3>3, <3>4
  <2> QED BY <2>6, <2>7, <2>8 DEF MirrorSound
<1> QED BY <1>0, <1>2, <1>7, <1>8, ToldAnswer DEF Told

LEMMA ToldPurge ==
  ASSUME Typed, Typed', Told, NEW r \in Req, PurgeCommit(r)
  PROVE  Told'
<1>0. /\ TreeSound /\ req[r].pc # "idle" /\ Ids(r) \subseteq Rows /\ \A g \in Ids(r) : del[g] # 0
      /\ \A e \in Entry : (\E p \in Folder : <<e, p>> \in req[r].files) => edel[e] # 0
  BY DEF PurgeCommit, Told, Knows, Ids
<1>1. PICK gone : gone = Ids(r)
  OBVIOUS
<1>2. PICK files : files = {e \in Files : \/ \E p \in Folder : <<e, p>> \in req[r].files /\ edel[e] # 0
                                          \/ fold[e] \in gone}
  OBVIOUS
<1>3. {f \in Ids(r) \cap Rows : del[f] # 0} = gone
  BY <1>0, <1>1
<1>4. /\ st' = [f \in Folder |-> IF f \in gone THEN "gone" ELSE st[f]]
      /\ par' = [f \in Folder |-> IF f \in gone \/ par[f] \in gone THEN None ELSE par[f]]
      /\ est' = [e \in Entry |-> IF e \in files THEN "gone" ELSE est[e]]
      /\ fold' = [e \in Entry |-> IF e \in files THEN None ELSE fold[e]]
      /\ HearGone(gone, req[r].files) /\ Answer(r) /\ name' = name /\ del' = del /\ edel' = edel /\ clock' = clock
  BY <1>1, <1>2, <1>3 DEF PurgeCommit
<1>t. /\ par \in [Folder -> Dir] /\ par' \in [Folder -> Dir] /\ None \notin Folder
      /\ Rows \subseteq Folder /\ Live \subseteq Rows /\ Root \in Live /\ par[Root] = None
      /\ \A g \in Live : Up(par, g) \subseteq Live /\ Root \in Up(par, g) /\ (g # Root => par[g] \in Live)
  BY <1>0, TreeFacts DEF Typed
<1>5. gone \subseteq Rows /\ (\A g \in gone : del[g] # 0) /\ \A g \in Live : g \notin gone
  BY <1>0, <1>1 DEF Live
<1>6. Rows' = Rows \ gone /\ Live' = Live
  <2>1. \A g \in Folder : st'[g] = "row" <=> st[g] = "row" /\ g \notin gone
    BY <1>4
  <2> QED BY <1>4, <1>5, <2>1 DEF Live, Rows
<1>7. \A g \in Live : par'[g] = par[g] /\ Up(par', g) = Up(par, g)
  <2>1. \A g \in Live : par'[g] = par[g]
    BY <1>4, <1>5, <1>t
  <2>2. \A g \in Live : \A h \in Up(par, g) : par'[h] = par[h]
    BY <1>t, <2>1
  <2> QED BY <1>t, <2>1, <2>2, UpSame
<1>8. \A e \in Entry : est'[e] = (IF e \in files THEN "gone" ELSE est[e])
                       /\ fold'[e] = (IF e \in files THEN None ELSE fold[e])
  BY <1>4
<1>9. TreeSound'
  <2>1. Root \in Live' /\ par'[Root] = None
    BY <1>6, <1>7, <1>t
  <2>2. \A g \in Folder : st'[g] # "row" => par'[g] = None /\ (st'[g] = "new" => del'[g] = 0)
    BY <1>0, <1>4 DEF TreeSound
  <2>3. \A g \in Rows' : par'[g] # None => par'[g] \in Rows' /\ (del'[par'[g]] # 0 => del'[g] >= del'[par'[g]])
    BY <1>0, <1>4, <1>6, <1>t DEF TreeSound
  <2>4. \A g \in Live' : Root \in Up(par', g)
    BY <1>6, <1>7, <1>t
  <2>5. \A g \in Folder : del'[g] <= clock'
    BY <1>0, <1>4 DEF TreeSound
  <2>6. \A e \in Entry : (est'[e] = "new" => edel'[e] = 0) /\ (est'[e] = "row" => fold'[e] \in Rows')
    <3> TAKE e \in Entry
    <3>1. est[e] = "row" /\ e \notin files => fold[e] \in Rows /\ fold[e] \notin gone
      BY <1>0, <1>2 DEF TreeSound, Files
    <3>2. est[e] = "new" => edel[e] = 0
      BY <1>0 DEF TreeSound
    <3> QED BY <1>4, <1>6, <1>8, <3>1, <3>2
  <2> QED BY <2>1, <2>2, <2>3, <2>4, <2>5, <2>6 DEF TreeSound
<1>a. ASSUME MirrorSound PROVE MirrorSound'
  <2>1. PICK out : out = UNION {Sub(cpar, d) : d \in gone}
    OBVIOUS
  <2>2. \A g \in Folder : g \in out <=> g \in gone
    <3>1. \A g \in Folder : g \in out <=> \E d \in gone : g \in Sub(cpar, d)
      BY <2>1
    <3>2. \A g \in Folder : \A d \in gone : g \in Sub(cpar, d) <=> g = d
      <4> TAKE g \in Folder
      <4> TAKE d \in gone
      <4>1. d \in Folder /\ d \notin Live
        BY <1>5, <1>t
      <4>2. g \in Sub(cpar, d) <=> IF g \in Live THEN d \in Up(par, g) ELSE g = d
        BY <1>0, <1>a, <4>1, HearSub
      <4> QED BY <1>t, <4>1, <4>2
    <3> QED BY <3>1, <3>2
  <2>3. out \subseteq Folder
    BY <2>1 DEF Sub
  <2>4. /\ cpar' = [g \in Folder |-> IF g \in out THEN None ELSE cpar[g]]
        /\ cname' = [g \in Folder |-> IF g \in out THEN None ELSE cname[g]]
        /\ cent' = [e \in Entry |-> IF cent[e] \in out \/ \E p \in Folder : <<e, p>> \in req[r].files /\ Known(p)
                                    THEN None ELSE cent[e]]
    BY <1>4, <2>1 DEF HearGone
  <2>5. \A e \in Entry : FileLive(e) => e \notin files /\ fold[e] \in Live
    BY <1>2, <1>5 DEF FileLive
  <2>6. \A e \in Entry : FileLive(e)' <=> FileLive(e)
    <3> TAKE e \in Entry
    <3>1. FileLive(e)' <=> est'[e] = "row" /\ edel'[e] = 0 /\ fold'[e] \in Live'
      BY DEF FileLive
    <3>2. CASE e \in files
      BY <1>8, <2>5, <3>1, <3>2
    <3>3. CASE e \notin files
      BY <1>4, <1>6, <1>8, <3>1, <3>3 DEF FileLive
    <3> QED BY <3>2, <3>3
  <2>7. \A g \in Folder : cpar'[g] = IF g \in Live' THEN par'[g] ELSE None
    BY <1>5, <1>6, <1>7, <1>a, <2>2, <2>4 DEF MirrorSound
  <2>8. \A g \in Live' : cname'[g] = name'[g]
    BY <1>4, <1>5, <1>6, <1>a, <1>t, <2>2, <2>4 DEF MirrorSound
  <2>9. \A e \in Entry : cent'[e] = IF FileLive(e)' THEN fold'[e] ELSE None
    <3> TAKE e \in Entry
    <3>1. cent[e] = (IF FileLive(e) THEN fold[e] ELSE None)
      BY <1>a DEF MirrorSound
    <3>2. CASE ~FileLive(e)
      BY <2>4, <2>6, <3>1, <3>2
    <3>3. CASE FileLive(e)
      <4>1. fold[e] \in Live /\ fold[e] \in Folder /\ fold[e] \notin gone /\ fold'[e] = fold[e]
        BY <1>5, <1>8, <1>t, <2>5, <3>3
      <4>2. ~ \E p \in Folder : <<e, p>> \in req[r].files
        BY <1>0, <3>3 DEF FileLive
      <4> QED BY <2>2, <2>4, <2>6, <3>1, <3>3, <4>1, <4>2
    <3> QED BY <3>2, <3>3
  <2> QED BY <2>7, <2>8, <2>9 DEF MirrorSound
<1> QED BY <1>0, <1>4, <1>9, <1>a, ToldAnswer DEF Told

(* A restore that tells of parents first reaches the mirror with all it    *)
(* brings back, except the root, which the mirror never lost.              *)
LEMMA HearBack ==
  ASSUME Typed, TreeSound, MirrorSound, ParentFirst, NEW f \in Rows, Root \in Up(par, f),
         par[f] # None => par[f] \in Live,
         NEW K \in Heard({<<g, par[g], name[g]>> : g \in Below(f)})
  PROVE  /\ \A k \in K : k \in {<<g, par[g], name[g]>> : g \in Below(f) \ {Root}}
         /\ \A g \in Below(f) \ {Root} : <<g, par[g], name[g]>> \in K
<1> DEFINE Tup(g) == <<g, par[g], name[g]>>
           B == Below(f)
           D == {Tup(g) : g \in B}
           T == {d \in D : Takes(d)}
<1>t. /\ par \in [Folder -> Dir] /\ None \notin Folder
      /\ Rows \subseteq Folder /\ Live \subseteq Rows /\ Root \in Live /\ par[Root] = None
      /\ \A g \in Live : Up(par, g) \subseteq Live /\ Root \in Up(par, g) /\ (g # Root => par[g] \in Live)
  BY TreeFacts
<1>b. \A g : g \in B <=> g \in Rows /\ f \in Up(par, g)
  BY <1>t DEF Below, Sub
<1>k. \A g \in Dir : Known(g) <=> g \in Live
  BY LiveIsKnown
<1>1. /\ T \subseteq K /\ K \subseteq D
      /\ \A d \in D \ T : /\ d \in K => ~Known(d[2]) /\ \E k \in K : k[1] = d[2]
                          /\ ~Known(d[2]) /\ (\E k \in K : k[1] = d[2]) => d \in K
  BY DEF Heard
<1>2. \A g \in B : Tup(g)[1] = g /\ Tup(g)[2] = par[g] /\ Tup(g) \in D
  OBVIOUS
<1>3. \A k \in K : \E g \in B : k = Tup(g) /\ k[1] = g
  BY <1>1, <1>2
<1>4. \A g \in B : g \in Folder /\ par[g] \in Dir /\ Root \in Up(par, g)
  <2> TAKE g \in B
  <2>1. g \in Rows /\ f \in Up(par, g) /\ g \in Folder
    BY <1>b, <1>t
  <2> QED BY <1>t, <2>1, UpTrans
<1> HIDE DEF B
<1>5. Tup(Root) \notin K
  <2>1. SUFFICES ASSUME Tup(Root) \in K PROVE FALSE
    OBVIOUS
  <2>2. Tup(Root) \in D /\ Tup(Root)[2] = None /\ ~Known(None)
    BY <1>1, <1>t, <2>1 DEF Known
  <2>3. Tup(Root) \notin T
    BY <2>2 DEF Takes
  <2>4. \E k \in K : k[1] = None
    BY <1>1, <2>1, <2>2, <2>3
  <2> QED BY <1>3, <1>4, <1>t, <2>4
<1>6. \A k \in K : k \in {Tup(g) : g \in B \ {Root}}
  BY <1>3, <1>5
<1> DEFINE L == {g \in B : g # Root /\ Tup(g) \notin K}
<1>7. ASSUME NEW g \in L PROVE par[g] \in L
  <2>1. g \in B /\ g # Root /\ Tup(g) \in D /\ Tup(g) \notin K /\ Tup(g)[2] = par[g] /\ Tup(g)[1] = g
    BY <1>2
  <2>2. g \in Folder /\ g \in Rows /\ Root \in Folder /\ Root \in Up(par, g) /\ f \in Up(par, g)
    BY <1>4, <1>b, <1>t, <2>1
  <2>3. par[g] # None /\ par[g] \in Folder /\ par[g] \in Dir /\ g \notin Up(par, par[g])
    BY <1>t, <2>1, <2>2, UpParent, UpAcyclic DEF Dir
  <2>4. ~Known(par[g])
    <3> SUFFICES ASSUME Known(par[g]) PROVE FALSE
      OBVIOUS
    <3>1. par[g] \in Live
      BY <1>k, <2>3
    <3>2. Up(cpar, par[g]) = Up(par, par[g])
      BY <2>3, <3>1, MirrorUp
    <3>3. Takes(Tup(g))
      BY <2>1, <2>3, <3>2 DEF Takes
    <3> QED BY <1>1, <2>1, <3>3
  <2>5. par[g] \notin Live
    BY <1>k, <2>3, <2>4
  <2>6. g # f
    BY <2>3, <2>5
  <2>7. f \in Folder /\ f \in Up(par, par[g])
    BY <1>t, <2>2, <2>6, UpParent
  <2>8. par[g] \in Rows
    BY <2>2, <2>3 DEF TreeSound
  <2>9. par[g] \in B /\ par[g] # Root
    BY <1>b, <1>t, <2>5, <2>7, <2>8
  <2>10. Tup(g) \notin T
    BY <2>1, <2>4 DEF Takes
  <2>11. ~ \E k \in K : k[1] = par[g]
    BY <1>1, <2>1, <2>4, <2>10
  <2>12. Tup(par[g]) \notin K
    BY <1>2, <2>9, <2>11
  <2> QED BY <2>9, <2>12
<1>8. L = {}
  <2> SUFFICES ASSUME NEW g \in L PROVE FALSE
    OBVIOUS
  <2>1. Root \in Up(par, g) /\ Root \notin L /\ \A h \in L : par[h] \in L \cup {None}
    BY <1>4, <1>7
  <2> HIDE DEF L
  <2>2. Up(par, g) \subseteq L
    BY <2>1, UpLeast
  <2> QED BY <2>1, <2>2
<1> QED BY <1>6, <1>8 DEF B

LEMMA ToldRestore ==
  ASSUME Typed, Typed', Told, NEW r \in Req, RestoreCommit(r)
  PROVE  Told'
<1> DEFINE f == req[r].f
           B == Below(f)
           D == {<<g, par[g], name[g]>> : g \in Below(f)}
           F == {<<e, fold[e]>> : e \in {x \in Files : edel[x] = 0 /\ fold[x] \in Below(f)}}
<1>0. /\ TreeSound /\ f \in Rows /\ Root \in Up(par, f) /\ (del[f] # 0 /\ par[f] # None => del[par[f]] = 0)
      /\ req[r].dirs = D /\ req[r].files = F /\ req[r].pc # "idle"
  BY DEF RestoreCommit, Told, Knows
<1>t. /\ par \in [Folder -> Dir] /\ None \notin Folder
      /\ Rows \subseteq Folder /\ Live \subseteq Rows /\ Root \in Live /\ par[Root] = None
      /\ \A g \in Live : Up(par, g) \subseteq Live /\ Root \in Up(par, g) /\ (g # Root => par[g] \in Live)
  BY <1>0, TreeFacts
<1>b. B \subseteq Rows /\ (\A g \in Folder : g \in B <=> g \in Rows /\ f \in Up(par, g)) /\ Ids(r) \cap Rows = B
  <2>1. B \subseteq Rows /\ \A g \in Folder : g \in B <=> g \in Rows /\ f \in Up(par, g)
    BY DEF Below, Sub
  <2>2. Ids(r) = B
    BY <1>0, FirstOf DEF Ids
  <2> QED BY <2>1, <2>2
<1>1. /\ del' = [g \in Folder |-> IF g \in B THEN 0 ELSE del[g]] /\ HearUpsert(D, F)
      /\ Answer(r) /\ UNCHANGED <<st, par, name, est, fold, edel, clock>>
  BY <1>0, <1>b DEF RestoreCommit, entv
<1> HIDE DEF f, B, D, F
<1>2. Rows' = Rows /\ Live' = Live \cup B
  BY <1>1, <1>b, <1>t DEF Live, Rows
<1>3. par[f] # None => par[f] \in Live
  <2>1. par[f] # None => par[f] \in Rows /\ (del[par[f]] # 0 => del[f] >= del[par[f]]) /\ par[f] \in Folder
    BY <1>0, <1>t DEF TreeSound
  <2>2. par[f] # None => del[par[f]] \in Nat /\ del[f] \in Nat
    BY <2>1, <1>0, <1>t, Stamped
  <2>3. par[f] # None => del[par[f]] = 0
    BY <1>0, <2>1, <2>2
  <2> QED BY <2>1, <2>3 DEF Live
<1>4. \A g \in Rows : par[g] # None /\ g \in B => par[g] \in Live \cup B
  <2> TAKE g \in Rows
  <2> HAVE par[g] # None /\ g \in B
  <2>1. CASE g = f
    BY <1>3, <2>1
  <2>2. CASE g # f
    <3>1. g \in Folder /\ f \in Up(par, g)
      BY <1>b, <1>t
    <3>2. par[g] \in Folder /\ f \in Up(par, par[g])
      BY <1>t, <2>2, <3>1, UpParent
    <3>3. par[g] \in Rows
      BY <1>0 DEF TreeSound
    <3> QED BY <1>b, <3>2, <3>3
  <2> QED BY <2>1, <2>2
<1>5. TreeSound'
  <2>1. Root \in Live' /\ par'[Root] = None
    BY <1>1, <1>2, <1>t
  <2>2. \A g \in Folder : st'[g] # "row" => par'[g] = None /\ (st'[g] = "new" => del'[g] = 0)
    BY <1>0, <1>1 DEF TreeSound
  <2>3. \A g \in Rows' : par'[g] # None => par'[g] \in Rows' /\ (del'[par'[g]] # 0 => del'[g] >= del'[par'[g]])
    <3> SUFFICES ASSUME NEW g \in Rows, par[g] # None
                 PROVE  par[g] \in Rows /\ (del'[par[g]] # 0 => del'[g] >= del'[par[g]])
      BY <1>1, <1>2
    <3>1. par[g] \in Rows /\ (del[par[g]] # 0 => del[g] >= del[par[g]])
      BY <1>0 DEF TreeSound
    <3>2. /\ del'[g] = (IF g \in B THEN 0 ELSE del[g])
          /\ del'[par[g]] = (IF par[g] \in B THEN 0 ELSE del[par[g]])
      BY <1>1, <1>t, <3>1
    <3>3. g \in B => del'[par[g]] = 0
      BY <1>4, <3>2 DEF Live
    <3> QED BY <3>1, <3>2, <3>3
  <2>4. \A g \in Live' : Root \in Up(par', g)
    <3>1. \A g \in B : Root \in Up(par, g)
      BY <1>0, <1>b, <1>t, UpTrans
    <3> QED BY <1>1, <1>2, <1>t, <3>1
  <2>5. \A g \in Folder : del'[g] <= clock'
    <3> TAKE g \in Folder
    <3>1. del[g] <= clock /\ clock \in Nat
      BY <1>0, Stamped DEF TreeSound
    <3>2. del'[g] = (IF g \in B THEN 0 ELSE del[g]) /\ clock' = clock
      BY <1>1
    <3> QED BY <3>1, <3>2
  <2>6. \A e \in Entry : (est'[e] = "new" => edel'[e] = 0) /\ (est'[e] = "row" => fold'[e] \in Rows')
    BY <1>0, <1>1, <1>2 DEF TreeSound
  <2> QED BY <2>1, <2>2, <2>3, <2>4, <2>5, <2>6 DEF TreeSound
<1>6. ASSUME MirrorSound, ParentFirst PROVE MirrorSound'
  <2>1. PICK K \in Heard(D) :
          /\ cpar' = [g \in Folder |-> IF \E k \in K : k[1] = g THEN (CHOOSE k \in K : k[1] = g)[2] ELSE cpar[g]]
          /\ cname' = [g \in Folder |-> IF \E k \in K : k[1] = g THEN (CHOOSE k \in K : k[1] = g)[3] ELSE cname[g]]
          /\ cent' = [e \in Entry |->
                        LET at == {p \in Folder : <<e, p>> \in F /\ (Known(p) \/ \E k \in K : k[1] = p)}
                        IN  IF at = {} THEN cent[e] ELSE CHOOSE p \in at : TRUE]
    BY <1>1 DEF HearUpsert
  <2>2. /\ \A k \in K : k \in {<<g, par[g], name[g]>> : g \in B \ {Root}}
        /\ \A g \in B \ {Root} : <<g, par[g], name[g]>> \in K
    BY <1>0, <1>3, <1>6, <2>1, HearBack DEF B, D
  <2>t. \A g : <<g, par[g], name[g]>>[1] = g /\ <<g, par[g], name[g]>>[2] = par[g] /\ <<g, par[g], name[g]>>[3] = name[g]
    OBVIOUS
  <2>3. \A g : (\E k \in K : k[1] = g) <=> g \in B \ {Root}
    <3>1. \A k \in K : k[1] \in B \ {Root}
      BY <2>2
    <3>2. ASSUME NEW g \in B \ {Root} PROVE \E k \in K : k[1] = g
      BY <2>2, <2>t
    <3> QED BY <3>1, <3>2
  <2>4. \A g \in B \ {Root} : (CHOOSE k \in K : k[1] = g) = <<g, par[g], name[g]>>
    <3> TAKE g \in B \ {Root}
    <3>1. \A k \in K : k[1] = g => k = <<g, par[g], name[g]>>
      BY <2>2
    <3>2. \E k \in K : k[1] = g
      BY <2>3
    <3> QED BY <3>1, <3>2
  <2>5. \A g \in Folder : /\ cpar'[g] = (IF g \in B \ {Root} THEN par[g] ELSE cpar[g])
                          /\ cname'[g] = (IF g \in B \ {Root} THEN name[g] ELSE cname[g])
    <3> TAKE g \in Folder
    <3>1. CASE g \in B \ {Root}
      <4>1. (CHOOSE k \in K : k[1] = g)[2] = par[g] /\ (CHOOSE k \in K : k[1] = g)[3] = name[g]
        BY <2>4, <2>t, <3>1
      <4> QED BY <2>1, <2>3, <3>1, <4>1
    <3>2. CASE g \notin B \ {Root}
      BY <2>1, <2>3, <3>2
    <3> QED BY <3>1, <3>2
  <2>6. \A g \in Folder : cpar'[g] = IF g \in Live' THEN par'[g] ELSE None
    BY <1>1, <1>2, <1>6, <1>t, <2>5 DEF MirrorSound
  <2>7. \A g \in Live' : cname'[g] = name'[g]
    BY <1>1, <1>2, <1>6, <1>t, <1>b, <2>5 DEF MirrorSound
  <2>8. ASSUME NEW e \in Entry PROVE cent'[e] = IF FileLive(e)' THEN fold'[e] ELSE None
    <3> DEFINE at == {p \in Folder : <<e, p>> \in F /\ (Known(p) \/ \E k \in K : k[1] = p)}
               back == est[e] = "row" /\ edel[e] = 0 /\ fold[e] \in B
    <3>1. \A p : <<e, p>> \in F <=> back /\ p = fold[e]
      BY DEF F, B, Files
    <3>2. Known(Root)
      BY DEF Known
    <3>3. back => at = {fold[e]}
      BY <1>b, <1>t, <2>3, <3>1, <3>2
    <3>4. ~back => at = {}
      BY <3>1
    <3>5. cent'[e] = IF at = {} THEN cent[e] ELSE CHOOSE p \in at : TRUE
      BY <2>1
    <3>6. FileLive(e)' <=> est[e] = "row" /\ edel[e] = 0 /\ fold[e] \in Live \cup B
      BY <1>1, <1>2 DEF FileLive
    <3>7. cent[e] = (IF FileLive(e) THEN fold[e] ELSE None) /\ fold'[e] = fold[e]
      BY <1>1, <1>6 DEF MirrorSound
    <3>8. cent'[e] = IF back THEN fold[e] ELSE cent[e]
      <4> HIDE DEF at, back
      <4> QED BY <3>3, <3>4, <3>5
    <3> QED BY <3>6, <3>7, <3>8 DEF FileLive
  <2> QED BY <2>6, <2>7, <2>8 DEF MirrorSound
<1> QED BY <1>0, <1>1, <1>5, <1>6, ToldAnswer DEF Told

-----------------------------------------------------------------------------
(* Files *)

(* Only the files change, and they keep a row to lie in. *)
LEMMA TreeFiles ==
  ASSUME Typed, TreeSound, UNCHANGED <<st, par, del>>, clock <= clock', clock' \in Nat,
         \A e \in Entry : (est'[e] = "new" => edel'[e] = 0) /\ (est'[e] = "row" => fold'[e] \in Rows)
  PROVE  TreeSound' /\ Live' = Live
<1>1. Rows' = Rows /\ Live' = Live
  BY DEF Live, Rows
<1>2. \A g \in Folder : del'[g] <= clock'
  <2> TAKE g \in Folder
  <2>1. del[g] <= clock /\ del[g] \in Nat /\ clock \in Nat /\ del'[g] = del[g]
    BY Stamped DEF TreeSound
  <2> QED BY <2>1
<1> QED BY <1>1, <1>2 DEF TreeSound

(* The mirror follows the one file that changed. *)
LEMMA MirrorFile ==
  ASSUME MirrorSound, Live' = Live, UNCHANGED <<par, name, cpar, cname>>, NEW e \in Entry,
         \A x \in Entry \ {e} : est'[x] = est[x] /\ edel'[x] = edel[x] /\ fold'[x] = fold[x] /\ cent'[x] = cent[x],
         cent'[e] = IF FileLive(e)' THEN fold'[e] ELSE None
  PROVE  MirrorSound'
<1>1. \A x \in Entry \ {e} : FileLive(x)' <=> FileLive(x)
  BY DEF FileLive
<1>2. \A x \in Entry : cent'[x] = IF FileLive(x)' THEN fold'[x] ELSE None
  BY <1>1 DEF MirrorSound
<1> QED BY <1>2 DEF MirrorSound

LEMMA ToldPut ==
  ASSUME Typed, Typed', Told, NEW r \in Req, PutCommit(r)
  PROVE  Told'
<1> DEFINE p == req[r].to
<1>0. TreeSound /\ p \in Live /\ req[r].pc # "idle" /\ p \in Folder
  BY TreeFacts DEF PutCommit, Told, Knows
<1>1. CASE Abort(r)
  BY <1>0, <1>1, ToldAbort
<1>2. CASE ~Abort(r)
  <2>1. PICK e \in Entry : est[e] = "new" /\ est' = [est EXCEPT ![e] = "row"] /\ fold' = [fold EXCEPT ![e] = p]
                           /\ HearUpsert({}, {<<e, p>>})
    BY <1>2 DEF PutCommit
  <2>2. Answer(r) /\ UNCHANGED <<st, par, name, del, edel, clock>>
    BY <1>2 DEF PutCommit, rowv
  <2> HIDE DEF p
  <2>3. est'[e] = "row" /\ fold'[e] = p /\ edel'[e] = 0
        /\ \A x \in Entry \ {e} : est'[x] = est[x] /\ edel'[x] = edel[x] /\ fold'[x] = fold[x]
    BY <1>0, <2>1, <2>2 DEF Typed, TreeSound
  <2>4. TreeSound' /\ Live' = Live
    <3>1. clock <= clock' /\ clock' \in Nat
      BY <2>2, Stamped
    <3>2. p \in Rows
      BY <1>0 DEF Live
    <3>3. \A x \in Entry : (est'[x] = "new" => edel'[x] = 0) /\ (est'[x] = "row" => fold'[x] \in Rows)
      BY <1>0, <2>3, <3>2 DEF TreeSound
    <3> QED BY <1>0, <2>2, <3>1, <3>3, TreeFiles
  <2>5. ASSUME MirrorSound PROVE MirrorSound'
    <3>1. Known(p)
      BY <1>0, <2>5, LiveIsKnown DEF Dir
    <3>2. cpar' = cpar /\ cname' = cname /\ cent' = [cent EXCEPT ![e] = p]
      BY <1>0, <2>1, <3>1, HearFile
    <3>3. cent'[e] = p /\ \A x \in Entry \ {e} : cent'[x] = cent[x]
      BY <3>2 DEF Typed
    <3>4. FileLive(e)'
      BY <1>0, <2>3, <2>4 DEF FileLive
    <3> QED BY <2>2, <2>3, <2>4, <2>5, <3>2, <3>3, <3>4, MirrorFile
  <2> QED BY <1>0, <2>2, <2>4, <2>5, ToldAnswer DEF Told
<1> QED BY <1>1, <1>2

LEMMA ToldDrop ==
  ASSUME Typed, Typed', Told, NEW r \in Req, DropCommit(r)
  PROVE  Told'
<1>e. PICK e : e = req[r].f
  OBVIOUS
<1>0. TreeSound /\ FileLive(e) /\ req[r].pc # "idle" /\ e \in Entry
  BY <1>e, ReqTyped DEF DropCommit, Told, Knows
<1>1. CASE Abort(r)
  BY <1>0, <1>1, ToldAbort
<1>2. CASE ~Abort(r)
  <2>1. PICK t \in Stamps : clock' = t /\ edel' = [edel EXCEPT ![e] = t]
    BY <1>e, <1>2 DEF DropCommit
  <2>2. HearGone({}, {<<e, fold[e]>>}) /\ Answer(r) /\ UNCHANGED <<st, par, name, del, est, fold>>
    BY <1>e, <1>2 DEF DropCommit, rowv
  <2>s. t \in Nat /\ t # 0 /\ clock <= t
    BY StampsRise
  <2>3. edel'[e] = t /\ \A x \in Entry \ {e} : edel'[x] = edel[x]
    BY <1>0, <2>1 DEF Typed
  <2>4. TreeSound' /\ Live' = Live
    <3>1. \A x \in Entry : (est'[x] = "new" => edel'[x] = 0) /\ (est'[x] = "row" => fold'[x] \in Rows)
      BY <1>0, <2>2, <2>3 DEF TreeSound, FileLive
    <3> QED BY <1>0, <2>1, <2>2, <2>s, <3>1, TreeFiles
  <2>5. ASSUME MirrorSound PROVE MirrorSound'
    <3>1. fold[e] \in Live /\ fold[e] \in Folder
      BY <1>0, TreeFacts DEF FileLive
    <3>2. Known(fold[e])
      BY <1>0, <2>5, <3>1, LiveIsKnown DEF Dir
    <3>3. /\ cpar' = [g \in Folder |-> cpar[g]] /\ cname' = [g \in Folder |-> cname[g]]
          /\ cent' = [x \in Entry |-> IF \E p \in Folder : <<x, p>> \in {<<e, fold[e]>>} /\ Known(p)
                                      THEN None ELSE cent[x]]
      BY <2>2 DEF HearGone
    <3>4. cpar' = cpar /\ cname' = cname
      BY <3>3 DEF Typed
    <3>5. cent'[e] = None /\ \A x \in Entry \ {e} : cent'[x] = cent[x]
      BY <1>0, <3>1, <3>2, <3>3
    <3>6. ~FileLive(e)'
      BY <2>3, <2>s DEF FileLive
    <3> QED BY <1>0, <2>2, <2>3, <2>4, <2>5, <3>4, <3>5, <3>6, MirrorFile
  <2> QED BY <1>0, <2>2, <2>4, <2>5, ToldAnswer DEF Told
<1> QED BY <1>1, <1>2

LEMMA ToldUndrop ==
  ASSUME Typed, Typed', Told, NEW r \in Req, UndropCommit(r)
  PROVE  Told'
<1>e. PICK e : e = req[r].f
  OBVIOUS
<1>0. TreeSound /\ req[r].pc # "idle" /\ e \in Entry
  BY <1>e, ReqTyped DEF UndropCommit, Told
<1>1. CASE Abort(r)
  BY <1>0, <1>1, ToldAbort
<1>2. CASE ~Abort(r)
  <2>1. est[e] = "row" /\ edel' = [edel EXCEPT ![e] = 0]
    BY <1>e, <1>2 DEF UndropCommit
  <2>2. HearUpsert({}, {<<e, fold[e]>>}) /\ Answer(r) /\ UNCHANGED <<st, par, name, del, est, fold, clock>>
    BY <1>e, <1>2 DEF UndropCommit, rowv
  <2>3. edel'[e] = 0 /\ \A x \in Entry \ {e} : edel'[x] = edel[x]
    BY <1>0, <2>1 DEF Typed
  <2>4. TreeSound' /\ Live' = Live
    <3>1. \A x \in Entry : (est'[x] = "new" => edel'[x] = 0) /\ (est'[x] = "row" => fold'[x] \in Rows)
      BY <1>0, <2>2, <2>3 DEF TreeSound
    <3>2. clock <= clock' /\ clock' \in Nat
      BY <2>2, Stamped
    <3> QED BY <1>0, <2>2, <3>1, <3>2, TreeFiles
  <2>5. ASSUME MirrorSound PROVE MirrorSound'
    <3>1. fold[e] \in Folder
      BY <1>0, <2>1 DEF TreeSound, Rows
    <3>2. Known(fold[e]) <=> fold[e] \in Live
      BY <1>0, <2>5, <3>1, LiveIsKnown DEF Dir
    <3>3. cpar' = cpar /\ cname' = cname /\ cent' = IF Known(fold[e]) THEN [cent EXCEPT ![e] = fold[e]] ELSE cent
      BY <1>0, <2>2, <3>1, HearFile
    <3>4. cent'[e] = (IF Known(fold[e]) THEN fold[e] ELSE cent[e]) /\ \A x \in Entry \ {e} : cent'[x] = cent[x]
      BY <1>0, <3>3 DEF Typed
    <3>5. FileLive(e)' <=> fold[e] \in Live
      BY <2>1, <2>2, <2>3, <2>4 DEF FileLive
    <3>6. fold[e] \notin Live => cent[e] = None
      BY <1>0, <2>5 DEF MirrorSound, FileLive
    <3>7. cent'[e] = IF FileLive(e)' THEN fold'[e] ELSE None
      BY <2>2, <3>2, <3>4, <3>5, <3>6
    <3> QED BY <1>0, <2>2, <2>3, <2>4, <2>5, <3>3, <3>4, <3>7, MirrorFile
  <2> QED BY <1>0, <2>2, <2>4, <2>5, ToldAnswer DEF Told
<1> QED BY <1>1, <1>2

LEMMA ToldShift ==
  ASSUME Typed, Typed', Told, NEW r \in Req, ShiftCommit(r)
  PROVE  Told'
<1>e. PICK e : e = req[r].f
  OBVIOUS
<1>p. PICK t : t = req[r].to
  OBVIOUS
<1>0. TreeSound /\ FileLive(e) /\ t \in Live /\ t \in Folder /\ req[r].pc # "idle" /\ e \in Entry
  BY <1>e, <1>p, ReqTyped DEF ShiftCommit, Told, Knows
<1>1. CASE Abort(r)
  BY <1>0, <1>1, ToldAbort
<1>2. CASE ~Abort(r)
  <2>1. fold' = [fold EXCEPT ![e] = t] /\ HearUpsert({}, {<<e, t>>})
        /\ Answer(r) /\ UNCHANGED <<st, par, name, del, est, edel, clock>>
    BY <1>e, <1>p, <1>2 DEF ShiftCommit, rowv
  <2>2. fold'[e] = t /\ \A x \in Entry \ {e} : fold'[x] = fold[x]
    BY <1>0, <2>1 DEF Typed
  <2>3. TreeSound' /\ Live' = Live
    <3>1. t \in Rows
      BY <1>0 DEF Live
    <3>2. \A x \in Entry : (est'[x] = "new" => edel'[x] = 0) /\ (est'[x] = "row" => fold'[x] \in Rows)
      BY <1>0, <2>1, <2>2, <3>1 DEF TreeSound
    <3>3. clock <= clock' /\ clock' \in Nat
      BY <2>1, Stamped
    <3> QED BY <1>0, <2>1, <3>2, <3>3, TreeFiles
  <2>4. ASSUME MirrorSound PROVE MirrorSound'
    <3>1. Known(t)
      BY <1>0, <2>4, LiveIsKnown DEF Dir
    <3>2. cpar' = cpar /\ cname' = cname /\ cent' = [cent EXCEPT ![e] = t]
      BY <1>0, <2>1, <3>1, HearFile
    <3>3. cent'[e] = t /\ \A x \in Entry \ {e} : cent'[x] = cent[x]
      BY <1>0, <3>2 DEF Typed
    <3>4. FileLive(e)'
      BY <1>0, <2>1, <2>2, <2>3 DEF FileLive
    <3> QED BY <1>0, <2>1, <2>2, <2>3, <2>4, <3>2, <3>3, <3>4, MirrorFile
  <2> QED BY <1>0, <2>1, <2>3, <2>4, ToldAnswer DEF Told
<1> QED BY <1>1, <1>2

-----------------------------------------------------------------------------

LEMMA ToldNext == Typed /\ Typed' /\ ToldInv /\ [Next]_vars => ToldInv'
<1> SUFFICES ASSUME Typed, Typed', ToldInv, [Next]_vars PROVE ToldInv'
  OBVIOUS
<1>1. CASE UNCHANGED vars
  <2>1. crossed' = crossed /\ UNCHANGED <<rowv, entv, client>> /\ clock' = clock /\ req' = req
    BY <1>1 DEF vars, rowv, entv, client
  <2>2. ASSUME Told PROVE Told'
    <3>1. TreeSound' /\ (MirrorSound => MirrorSound')
      BY <2>1, <2>2, TreeQuiet, MirrorQuiet DEF Told, rowv, entv
    <3>2. OneByOne'
      BY <2>1, <2>2 DEF Told, OneByOne
    <3>3. \A r \in Req : Knows(req[r])'
      <4> TAKE r \in Req
      <4>1. PICK c : c = req[r]
        OBVIOUS
      <4>2. Knows(c)
        BY <2>2, <4>1 DEF Told
      <4>3. Knows(c)'
        BY <2>1, <4>2, KnowsQuiet
      <4>4. req'[r] = c
        BY <2>1, <4>1
      <4> QED BY <4>3, <4>4
    <3> QED BY <2>2, <3>1, <3>2, <3>3 DEF Told
  <2> QED BY <2>1, <2>2 DEF ToldInv, Told
<1>2. ASSUME NEW r \in Req, Begin(r), crossed' = (crossed \/ Meets(r)) PROVE ToldInv'
  <2>1. CASE crossed \/ Meets(r)
    BY <1>2, <2>1 DEF ToldInv
  <2>2. CASE ~crossed /\ ~Meets(r)
    BY <1>2, <2>2, ToldBegin DEF ToldInv, Told
  <2> QED BY <2>1, <2>2
<1>3. ASSUME NEW r \in Req, Commit(r), UNCHANGED crossed PROVE ToldInv'
  <2>1. CASE crossed
    BY <1>3, <2>1 DEF ToldInv
  <2>2. ASSUME Told PROVE Told'
    <3>1. CASE Deadlock(r)
      BY <2>2, <3>1, ToldAbort DEF Deadlock, WaitsFor
    <3>2. CASE RenameRow(r)
      BY <2>2, <3>2, ToldRename, ToldLocks
    <3>3. CASE CreateCommit(r) \/ LockRow(r) \/ Walk(r) \/ MoveWrite(r)
      BY <2>2, <3>3, ToldCreate, ToldLocks, ToldMove
    <3>4. CASE DeleteCommit(r) \/ RestoreCommit(r) \/ PurgeCommit(r)
      BY <2>2, <3>4, ToldDelete, ToldRestore, ToldPurge
    <3>5. CASE PutCommit(r) \/ DropCommit(r) \/ UndropCommit(r) \/ ShiftCommit(r)
      BY <2>2, <3>5, ToldPut, ToldDrop, ToldUndrop, ToldShift
    <3> QED BY <1>3, <3>1, <3>2, <3>3, <3>4, <3>5 DEF Commit
  <2> QED BY <1>3, <2>1, <2>2 DEF ToldInv, Told
<1> QED BY <1>1, <1>2, <1>3 DEF Next, Step

(* As long as calls come one after the other nothing lives in a deleted    *)
(* folder, and a mirror that has read the journal shows the very folders   *)
(* and files there are, where they are and with their names, provided a    *)
(* restore tells of a folder before those in it.                           *)
THEOREM TreeTold == Spec => []TreeIsTold
<1>1. Typed /\ ToldInv /\ [Next]_vars => Typed' /\ ToldInv'
  BY TypeNext, ToldNext
<1>2. Typed /\ ToldInv => TreeIsTold
  BY ToldAgrees DEF ToldInv, Told, TreeIsTold
<1> QED BY TypeInit, ToldInit, <1>1, <1>2, PTL DEF Spec
=============================================================================
