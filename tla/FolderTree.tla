------------------------------ MODULE FolderTree ------------------------------
(***************************************************************************)
(* The folder tree of one user, its trash and the journal clients follow:  *)
(* FoldersService (create, patch with rename and move, softDelete,         *)
(* restore), the entry calls of FilesService, TrashService.purge and the   *)
(* effect of every ChangeLog row on a mirror that reads it.                *)
(*                                                                         *)
(* A call first reads and checks the tree outside any transaction, then    *)
(* runs its transaction.  The checks are one step; a transaction that only *)
(* writes what it was given is one step, taken when no other transaction   *)
(* holds a row it writes; the transaction of a move is taken apart at its  *)
(* row locks, its walk up the tree and its write.  A call that answers     *)
(* with an error before its transaction leaves no trace and has no step.   *)
(***************************************************************************)
EXTENDS Integers, FiniteSets

CONSTANTS
  Folder,      \* ids of Folder rows; numbers, as the row locks are sorted
  Root,        \* the user's root
  Entry,       \* ids of FileEntry rows, each with a name of its own
  Name,        \* names of folders
  Req,         \* calls served at the same time
  Calls,       \* the handlers in use
  MaxClock,    \* bound on the stamps of deletions
  ParentFirst, \* restore's unordered query returns parents before children
  StartPar,    \* the parent of the folders that exist at first
  StartName,
  StartFold,   \* the folder of the entries that exist at first
  None

ASSUME TreeAssumption ==
  /\ Root \in Folder /\ Folder \subseteq Nat /\ IsFiniteSet(Folder) /\ IsFiniteSet(Req) /\ None \notin Folder \cup Name
  /\ StartPar \in [Folder -> Folder \cup {None}] /\ StartPar[Root] = None
  /\ \A f \in Folder : LET p == StartPar[f] IN
       p # None => p < f /\ (p = Root \/ StartPar[p] # None)
  /\ StartName \in [Folder -> Name \cup {None}] /\ StartFold \in [Entry -> Folder \cup {None}]
  /\ \A e \in Entry : StartFold[e] \in {Root, None} \/ StartPar[StartFold[e]] # None
  /\ MaxClock \in Nat

VARIABLES
  st, par, name, del,   \* Folder rows; del is the stamp of deletedAt, 0 while live
  est, fold, edel,      \* FileEntry rows
  req,                  \* the calls
  clock,                \* the last stamp given
  own,                  \* history: folders deleted by a call that named them
  crossed,              \* history: two calls were under way together
  cpar, cname, cent     \* the view of a mirror that has read the journal so far

rowv   == <<st, par, name, del>>
entv   == <<est, fold, edel>>
client == <<cpar, cname, cent>>
vars   == <<st, par, name, del, est, fold, edel, req, clock, own, crossed, cpar, cname, cent>>

-----------------------------------------------------------------------------
(* The tree *)

Dir      == Folder \cup {None}
Rows     == {f \in Folder : st[f] = "row"}
Files    == {e \in Entry : est[e] = "row"}

(* f and everything above it, following the parents P; the first step is   *)
(* spelled out, no branch is longer than there are folders.                *)
Parents(P, S) == {P[g] : g \in S} \ {None}
Up(P, f) ==
  LET climb[n \in 0..Cardinality(Folder)] ==
        IF n = 0 THEN {f} ELSE LET S == climb[n - 1] IN S \cup Parents(P, S)
  IN  {f} \cup Parents(P, {f}) \cup climb[Cardinality(Folder)]
Sub(P, f) == {g \in Folder : f \in Up(P, g)}

(* folderOwnedBy: live up to the root. *)
Visible(f) ==
  /\ st[f] = "row" /\ del[f] = 0
  /\ LET up == Up(par, f) IN Root \in up /\ \A g \in up : del[g] = 0
VisibleFile(e) == est[e] = "row" /\ edel[e] = 0 /\ Visible(fold[e])

(* The unique index on (parentId, name) counts rows in the trash. *)
Taken(p, n, f) == \E g \in Rows \ {f} : par[g] = p /\ name[g] = n

Idle == [pc |-> "idle", f |-> None, to |-> None, name |-> None, was |-> <<None, None>>,
         held |-> {}, dirs |-> {}, files |-> {}]

PC == {"idle", "create", "rename", "lock", "walk", "write", "delete", "restore", "purge",
       "put", "drop", "undrop", "shift"}

ReqShape == [pc : PC, f : Dir \cup Entry, to : Dir, name : Name \cup {None},
             was : Dir \X (Name \cup {None}), held : SUBSET Folder,
             dirs : SUBSET (Folder \X Dir \X (Name \cup {None})),
             files : SUBSET (Entry \X Dir)]

ReqRec ==
  {q \in ReqShape :
     /\ q.pc \in {"rename", "lock", "walk", "write", "delete", "restore"} => q.f \in Folder
     /\ q.pc \in {"drop", "undrop", "shift"} => q.f \in Entry
     /\ q.pc \in {"create", "lock", "walk", "write", "put", "shift"} => q.to \in Folder}

(* Every variable has its type and no row is locked by two transactions.   *)
Typed ==
  /\ st \in [Folder -> {"new", "row", "gone"}] /\ par \in [Folder -> Dir]
  /\ name \in [Folder -> Name \cup {None}] /\ del \in [Folder -> 0..MaxClock]
  /\ est \in [Entry -> {"new", "row", "gone"}] /\ fold \in [Entry -> Dir]
  /\ edel \in [Entry -> 0..MaxClock]
  /\ req \in [Req -> ReqRec]
  /\ clock \in 0..MaxClock /\ own \subseteq Folder
  /\ cpar \in [Folder -> Dir] /\ cname \in [Folder -> Name \cup {None}] /\ cent \in [Entry -> Dir]
  /\ \A r, q \in Req : r # q => req[r].held \cap req[q].held = {}

TypeOK == Typed /\ crossed \in BOOLEAN

Init ==
  /\ par = StartPar /\ name = StartName /\ del = [f \in Folder |-> 0]
  /\ st = [f \in Folder |-> IF f = Root \/ par[f] # None THEN "row" ELSE "new"]
  /\ fold = StartFold /\ edel = [e \in Entry |-> 0]
  /\ est = [e \in Entry |-> IF fold[e] # None THEN "row" ELSE "new"]
  /\ req = [r \in Req |-> Idle]
  /\ clock = 0 /\ own = {} /\ crossed = FALSE
  /\ cpar = par /\ cname = name /\ cent = fold

-----------------------------------------------------------------------------
(* The mirror: what a journal row does to it.  A row about something whose *)
(* folder it does not know is skipped; a deleted folder goes with all it   *)
(* holds; every other op puts the target where the row says it is.         *)

Known(f) == f = Root \/ (f # None /\ cpar[f] # None)

Takes(d) == Known(d[2]) /\ d[1] \notin Up(cpar, d[2])

(* Which of the folder rows D take effect when they are read in the order  *)
(* they were written in: a child before its parent is skipped.             *)
Heard(D) ==
  LET T == {d \in D : Takes(d)} IN
  {K \in {T \cup L : L \in SUBSET {d \in D \ T : ~Known(d[2])}} :
     \A d \in D \ T : LET Led == ~Known(d[2]) /\ \E k \in K : k[1] = d[2] IN
       /\ d \in K => Led
       /\ ParentFirst /\ Led => d \in K}

HearUpsert(D, F) ==
  \E K \in Heard(D) :
    /\ cpar' = [f \in Folder |-> IF \E k \in K : k[1] = f
                                 THEN (CHOOSE k \in K : k[1] = f)[2] ELSE cpar[f]]
    /\ cname' = [f \in Folder |-> IF \E k \in K : k[1] = f
                                  THEN (CHOOSE k \in K : k[1] = f)[3] ELSE cname[f]]
    /\ cent' = [e \in Entry |->
                  LET at == {p \in Folder : /\ <<e, p>> \in F
                                            /\ Known(p) \/ \E k \in K : k[1] = p}
                  IN  IF at = {} THEN cent[e] ELSE CHOOSE p \in at : TRUE]

HearGone(D, F) ==
  LET gone == UNION {Sub(cpar, d) : d \in D} IN
    /\ cpar' = [f \in Folder |-> IF f \in gone THEN None ELSE cpar[f]]
    /\ cname' = [f \in Folder |-> IF f \in gone THEN None ELSE cname[f]]
    /\ cent' = [e \in Entry |-> IF cent[e] \in gone \/ \E p \in Folder : <<e, p>> \in F /\ Known(p)
                                THEN None ELSE cent[e]]

-----------------------------------------------------------------------------
(* Calls *)

Free(r, c) == c \in Calls /\ req[r].pc = "idle"

Start(r, rec) ==
  /\ req' = [req EXCEPT ![r] = rec]
  /\ UNCHANGED <<rowv, entv, client, clock, own>>

Call(pc, f) == [Idle EXCEPT !.pc = pc, !.f = f]

(* The answer: the call's transaction ends and its locks are released.     *)
Answer(r) == req' = [req EXCEPT ![r] = Idle]

Abort(r) == Answer(r) /\ UNCHANGED <<rowv, entv, client, clock, own>>

(* No other transaction holds a row of S. *)
Unlocked(r, S) == \A q \in Req \ {r} : req[q].held \cap S = {}

(* The stamp of a deletion: the last one when less than restore's second   *)
(* of grace has passed since.                                              *)
Stamps == {clock, clock + 1} \cap 1..MaxClock

(* create, and one segment of ensurePath *)
Create(r, p, n) ==
  /\ Free(r, "create")
  /\ Visible(p) /\ ~Taken(p, n, None)
  /\ Start(r, [Idle EXCEPT !.pc = "create", !.to = p, !.name = n])

CreateCommit(r) ==
  /\ req[r].pc = "create"
  /\ LET p == req[r].to  n == req[r].name IN
     \/ /\ st[p] # "row" \/ Taken(p, n, None)        \* foreign key, unique index
        /\ Abort(r)
     \/ /\ st[p] = "row" /\ ~Taken(p, n, None) /\ Unlocked(r, {p})
        /\ \E f \in Folder :
             /\ st[f] = "new"
             /\ st' = [st EXCEPT ![f] = "row"] /\ par' = [par EXCEPT ![f] = p]
             /\ name' = [name EXCEPT ![f] = n]
             /\ HearUpsert({<<f, p, n>>}, {})
        /\ Answer(r)
        /\ UNCHANGED <<del, entv, clock, own>>

(* patch, move and rename: what may be wrong with the request is checked   *)
(* here, on rows that are free to change until the transaction.            *)
Patch(r, f, t, n) ==
  /\ t # None \/ n # None
  /\ Free(r, IF t = None THEN "rename" ELSE IF n = None THEN "move" ELSE "patch")
  /\ f # Root /\ Visible(f)
  /\ n # None => ~Taken(par[f], n, f)
  /\ t # None => Visible(t) /\ ~Taken(t, IF n # None THEN n ELSE name[f], f)
  /\ Start(r, [Idle EXCEPT !.pc = IF n # None THEN "rename" ELSE "lock",
                           !.f = f, !.to = t, !.name = n, !.was = <<par[f], name[f]>>])

NewName(r) == IF req[r].name # None THEN req[r].name ELSE req[r].was[2]

(* update of the name: the row is locked from here to the commit.  A plain *)
(* rename commits at once; its journal row tells the parent read before.   *)
RenameRow(r) ==
  /\ req[r].pc = "rename"
  /\ LET f == req[r].f  n == req[r].name IN
     \/ /\ st[f] # "row" \/ Taken(par[f], n, f)
        /\ Abort(r)
     \/ /\ st[f] = "row" /\ ~Taken(par[f], n, f) /\ Unlocked(r, {f})
        /\ req[r].to # None
        /\ req' = [req EXCEPT ![r] = [req[r] EXCEPT !.pc = "lock", !.held = {f}]]
        /\ UNCHANGED <<rowv, entv, client, clock, own>>
     \/ /\ st[f] = "row" /\ ~Taken(par[f], n, f) /\ Unlocked(r, {f})
        /\ req[r].to = None
        /\ name' = [name EXCEPT ![f] = n]
        /\ HearUpsert({<<f, req[r].was[1], n>>}, {})
        /\ Answer(r)
        /\ UNCHANGED <<st, par, del, entv, clock, own>>

(* lockFolders: the rows in the order of their ids. *)
Wanted(r) == ({req[r].f, req[r].to} \cap Rows) \ req[r].held
(* Mutant: the moved folder first, then its target. *)
NextLockAsAsked(r) == IF req[r].f \in Wanted(r) THEN req[r].f ELSE req[r].to
NextLock(r) == CHOOSE f \in Wanted(r) : \A g \in Wanted(r) : f <= g

(* Mutant: the locks are not waited for. *)
LockRowBlind(r) ==
  /\ req[r].pc = "lock"
  /\ req' = IF Wanted(r) = {} THEN [req EXCEPT ![r].pc = "walk"]
            ELSE [req EXCEPT ![r].held = req[r].held \cup {NextLock(r)}]
  /\ UNCHANGED <<rowv, entv, client, clock, own>>

(* Mutant: the tree is checked and written without locks. *)
LockRowSkipped(r) ==
  /\ req[r].pc = "lock"
  /\ req' = [req EXCEPT ![r].pc = "walk"]
  /\ UNCHANGED <<rowv, entv, client, clock, own>>

LockRow(r) ==
  /\ req[r].pc = "lock"
  /\ IF Wanted(r) = {}
     THEN req' = [req EXCEPT ![r].pc = "walk"]
     ELSE /\ Unlocked(r, {NextLock(r)})
          /\ req' = [req EXCEPT ![r].held = req[r].held \cup {NextLock(r)}]
  /\ UNCHANGED <<rowv, entv, client, clock, own>>

(* isInSubtree: the folders above the target are read, but not locked.     *)
Walk(r) ==
  /\ req[r].pc = "walk"
  /\ \/ /\ req[r].f \in Up(par, req[r].to)
        /\ Answer(r)
     \/ /\ req[r].f \notin Up(par, req[r].to)
        /\ req' = [req EXCEPT ![r].pc = "write"]
  /\ UNCHANGED <<rowv, entv, client, clock, own>>

(* The parent, the name of a combined patch, and the journal row; a move   *)
(* without a new name tells the name read before the transaction.          *)
MoveWrite(r) ==
  /\ req[r].pc = "write"
  /\ LET f == req[r].f  t == req[r].to
         n == IF req[r].name # None THEN req[r].name ELSE name[f]
         ok == st[f] = "row" /\ st[t] = "row" /\ ~Taken(t, n, f)
     IN
     \/ ~ok /\ Abort(r)
     \/ /\ ok
        /\ par' = [par EXCEPT ![f] = t] /\ name' = [name EXCEPT ![f] = n]
        /\ HearUpsert({<<f, t, NewName(r)>>}, {})
        /\ Answer(r)
        /\ UNCHANGED <<st, del, entv, clock, own>>

(* Two transactions wait for each other's row: Postgres ends one of them.  *)
WaitsFor(r, q) == req[r].pc = "lock" /\ Wanted(r) # {} /\ NextLock(r) \in req[q].held

Deadlock(r) ==
  /\ \E q \in Req \ {r} : WaitsFor(r, q) /\ WaitsFor(q, r)
  /\ Abort(r)

(* softDelete: the whole subtree, folders already in the trash included.   *)
Delete(r, f) ==
  /\ Free(r, "delete") /\ f # Root /\ Visible(f)
  /\ Start(r, [Call("delete", f) EXCEPT !.dirs = {<<g, par[g], name[g]>> : g \in Sub(par, f) \cap Rows}])

Ids(r) == {d[1] : d \in req[r].dirs}

DeleteCommit(r) ==
  /\ req[r].pc = "delete" /\ Unlocked(r, Ids(r))
  /\ \E t \in Stamps :
       /\ clock' = t
       /\ del' = [f \in Folder |-> IF f \in Ids(r) \cap Rows THEN t ELSE del[f]]
  /\ own' = own \cup ({req[r].f} \cap Rows)
  /\ HearGone({req[r].f} \cap Rows, {})
  /\ Answer(r)
  /\ UNCHANGED <<st, par, name, entv>>

(* Mutant: the parent may be in the trash. *)
RestoreAnyway(r, f) ==
  /\ Free(r, "restore") /\ f \in Rows \cap Sub(par, Root)
  /\ LET back == {g \in Sub(par, f) \cap Rows : del[f] = 0 \/ del[g] = 0 \/ del[g] >= del[f]} IN
     Start(r, [Call("restore", f) EXCEPT
                 !.dirs = {<<g, par[g], name[g]>> : g \in back},
                 !.files = {<<e, fold[e]>> : e \in {x \in Files : edel[x] = 0 /\ fold[x] \in back}}])

(* restore: of the subtree, what was deleted with the folder or after it;  *)
(* all of it when the folder is not in the trash.                          *)
Restore(r, f) ==
  /\ Free(r, "restore") /\ f \in Rows \cap Sub(par, Root)
  /\ del[f] # 0 /\ par[f] # None => del[par[f]] = 0
  /\ LET back == {g \in Sub(par, f) \cap Rows : del[f] = 0 \/ del[g] = 0 \/ del[g] >= del[f]} IN
     Start(r, [Call("restore", f) EXCEPT
                 !.dirs = {<<g, par[g], name[g]>> : g \in back},
                 !.files = {<<e, fold[e]>> : e \in {x \in Files : edel[x] = 0 /\ fold[x] \in back}}])

(* Mutant: no journal rows for the files that come back. *)
RestoreCommitMute(r) ==
  /\ req[r].pc = "restore" /\ Unlocked(r, Ids(r))
  /\ del' = [f \in Folder |-> IF f \in Ids(r) \cap Rows THEN 0 ELSE del[f]]
  /\ own' = own \ Ids(r)
  /\ HearUpsert(req[r].dirs, {})
  /\ Answer(r)
  /\ UNCHANGED <<st, par, name, entv, clock>>

RestoreCommit(r) ==
  /\ req[r].pc = "restore" /\ Unlocked(r, Ids(r))
  /\ del' = [f \in Folder |-> IF f \in Ids(r) \cap Rows THEN 0 ELSE del[f]]
  /\ own' = own \ Ids(r)
  /\ HearUpsert(req[r].dirs, req[r].files)
  /\ Answer(r)
  /\ UNCHANGED <<st, par, name, entv, clock>>

(* purge: what the trash held longer than the limit, except folders with a *)
(* live child.  cut is above every stamp when the user empties the trash.  *)
Purge(r, cut) ==
  /\ Free(r, "purge")
  /\ LET tree == Sub(par, Root)
         old  == {f \in Rows \cap tree : del[f] # 0 /\ del[f] < cut}
         dirs == {f \in old : \A g \in Rows : par[g] = f => del[g] # 0}
         files == {e \in Files : fold[e] \in tree /\ edel[e] # 0 /\ edel[e] < cut}
     IN /\ dirs \cup files # {}
        /\ Start(r, [Idle EXCEPT !.pc = "purge",
                                 !.dirs = {<<f, par[f], name[f]>> : f \in dirs},
                                 !.files = {<<e, fold[e]>> : e \in files}])

(* Mutant: what was listed is deleted, in the trash or not. *)
PurgeCommitBlind(r) ==
  /\ req[r].pc = "purge"
  /\ LET gone == Ids(r) \cap Rows
         files == {e \in Files : (\E p \in Folder : <<e, p>> \in req[r].files) \/ fold[e] \in gone}
     IN /\ Unlocked(r, gone \cup {f \in Folder : par[f] \in gone})
        /\ st' = [f \in Folder |-> IF f \in gone THEN "gone" ELSE st[f]]
        /\ par' = [f \in Folder |-> IF f \in gone \/ par[f] \in gone THEN None ELSE par[f]]
        /\ est' = [e \in Entry |-> IF e \in files THEN "gone" ELSE est[e]]
        /\ fold' = [e \in Entry |-> IF e \in files THEN None ELSE fold[e]]
        /\ own' = own \ gone
  /\ HearGone(Ids(r), req[r].files)
  /\ Answer(r)
  /\ UNCHANGED <<name, del, edel, clock>>

(* The transaction deletes only what is still in the trash; its journal    *)
(* rows are about everything that was listed.  Rows of files inside a      *)
(* deleted folder go by cascade, folders inside it lose their parent.      *)
PurgeCommit(r) ==
  /\ req[r].pc = "purge"
  /\ LET gone == {f \in Ids(r) \cap Rows : del[f] # 0}
         files == {e \in Files : \/ \E p \in Folder : <<e, p>> \in req[r].files /\ edel[e] # 0
                                 \/ fold[e] \in gone}
     IN /\ Unlocked(r, gone \cup {f \in Folder : par[f] \in gone})
        /\ st' = [f \in Folder |-> IF f \in gone THEN "gone" ELSE st[f]]
        /\ par' = [f \in Folder |-> IF f \in gone \/ par[f] \in gone THEN None ELSE par[f]]
        /\ est' = [e \in Entry |-> IF e \in files THEN "gone" ELSE est[e]]
        /\ fold' = [e \in Entry |-> IF e \in files THEN None ELSE fold[e]]
        /\ own' = own \ gone
  /\ HearGone(Ids(r), req[r].files)
  /\ Answer(r)
  /\ UNCHANGED <<name, del, edel, clock>>

(* createEntry for a name that is new in the folder *)
Put(r, p) == Free(r, "put") /\ Visible(p) /\ Start(r, [Idle EXCEPT !.pc = "put", !.to = p])

PutCommit(r) ==
  /\ req[r].pc = "put"
  /\ \/ st[req[r].to] # "row" /\ Abort(r)
     \/ /\ st[req[r].to] = "row" /\ Unlocked(r, {req[r].to})
        /\ \E e \in Entry : /\ est[e] = "new"
                            /\ est' = [est EXCEPT ![e] = "row"]
                            /\ fold' = [fold EXCEPT ![e] = req[r].to]
                            /\ HearUpsert({}, {<<e, req[r].to>>})
        /\ Answer(r)
        /\ UNCHANGED <<rowv, edel, clock, own>>

(* FilesService.softDelete *)
Drop(r, e) == Free(r, "drop") /\ VisibleFile(e) /\ Start(r, Call("drop", e))

DropCommit(r) ==
  /\ req[r].pc = "drop"
  /\ LET e == req[r].f IN
     \/ est[e] # "row" /\ Abort(r)
     \/ /\ est[e] = "row"
        /\ \E t \in Stamps : clock' = t /\ edel' = [edel EXCEPT ![e] = t]
        /\ HearGone({}, {<<e, fold[e]>>})
        /\ Answer(r)
        /\ UNCHANGED <<rowv, est, fold, own>>

(* FilesService.restore *)
Undrop(r, e) ==
  /\ Free(r, "undrop")
  /\ est[e] = "row" /\ fold[e] \in Sub(par, Root)
  /\ edel[e] # 0 => del[fold[e]] = 0
  /\ Start(r, Call("undrop", e))

UndropCommit(r) ==
  /\ req[r].pc = "undrop"
  /\ LET e == req[r].f IN
     \/ est[e] # "row" /\ Abort(r)
     \/ /\ est[e] = "row"
        /\ edel' = [edel EXCEPT ![e] = 0]
        /\ HearUpsert({}, {<<e, fold[e]>>})
        /\ Answer(r)
        /\ UNCHANGED <<rowv, est, fold, clock, own>>

(* FilesService.patch with another folder *)
Shift(r, e, t) ==
  /\ Free(r, "shift") /\ VisibleFile(e) /\ Visible(t) /\ t # fold[e]
  /\ Start(r, [Call("shift", e) EXCEPT !.to = t])

ShiftCommit(r) ==
  /\ req[r].pc = "shift"
  /\ LET e == req[r].f  t == req[r].to IN
     \/ (est[e] # "row" \/ st[t] # "row") /\ Abort(r)
     \/ /\ est[e] = "row" /\ st[t] = "row" /\ Unlocked(r, {t})
        /\ fold' = [fold EXCEPT ![e] = t]
        /\ HearUpsert({}, {<<e, t>>})
        /\ Answer(r)
        /\ UNCHANGED <<rowv, est, edel, clock, own>>

Begin(r) ==
  \/ \E p \in Folder, n \in Name : Create(r, p, n)
  \/ \E f \in Folder, t \in Dir, n \in Name \cup {None} : Patch(r, f, t, n)
  \/ \E f \in Folder : Delete(r, f) \/ Restore(r, f)
  \/ \E cut \in 2..(clock + 1) : Purge(r, cut)
  \/ \E p \in Folder : Put(r, p)
  \/ \E e \in Entry : Drop(r, e) \/ Undrop(r, e) \/ \E t \in Folder : Shift(r, e, t)

Commit(r) ==
  \/ CreateCommit(r) \/ RenameRow(r) \/ LockRow(r) \/ Walk(r) \/ MoveWrite(r) \/ Deadlock(r)
  \/ DeleteCommit(r) \/ RestoreCommit(r) \/ PurgeCommit(r)
  \/ PutCommit(r) \/ DropCommit(r) \/ UndropCommit(r) \/ ShiftCommit(r)

Meets(r) == \E q \in Req \ {r} : req[q].pc # "idle"

Step(r) ==
  \/ Begin(r) /\ crossed' = (crossed \/ Meets(r))
  \/ Commit(r) /\ UNCHANGED crossed

Next == \E r \in Req : Step(r)

Spec == Init /\ [][Next]_vars

-----------------------------------------------------------------------------
(* Properties *)

(* Two moves towards each other never make two folders each other's        *)
(* parent: what applyMove's locks and the walk under them are for.         *)
NoMutualParents == \A f, g \in Folder : ~(par[f] = g /\ par[g] = f)

(* No folder lies inside itself.  applyMove's comment says its transaction *)
(* keeps this invariant of the tree.                                       *)
NoCycle == \A f \in Rows : par[f] # None => f \notin Up(par, par[f])

(* No two moves wait for each other's row: why lockFolders sorts the ids.  *)
NoLockCycle == \A r, q \in Req : ~(WaitsFor(r, q) /\ WaitsFor(q, r))

(* Plain moves never do, in a ring of any length: of any of them one waits *)
(* for none of the others. Only a patch that also renames can, which holds *)
(* its row before it takes the two in order.                               *)
PlainMovesNeverWaitInRing ==
  \A S \in SUBSET {r \in Req : req[r].name = None} :
    S # {} => \E r \in S : \A q \in S : ~WaitsFor(r, q)

(* A live folder is in the user's tree: nothing lives below a folder of    *)
(* the trash, as restore's refusal and softDelete's whole subtree mean.    *)
NothingStranded == \A f \in Rows : del[f] = 0 => Visible(f)

(* Every folder but the root keeps a parent: purge spares the folders with *)
(* a live child so that no subtree drops out of the tree for good.         *)
NeverOrphaned == \A f \in Rows \ {Root} : del[f] = 0 => par[f] # None

Purges(r) == req[r].pc = "purge" /\ req'[r].pc = "idle"

(* Emptying the trash removes nothing the user can see, whatever was       *)
(* restored or moved since the list was made.                              *)
PurgeSparesTheVisible ==
  [][\A r \in Req : Purges(r) =>
       /\ \A f \in Folder : Visible(f) => Visible(f)' /\ par'[f] = par[f]
       /\ \A e \in Entry : VisibleFile(e) => VisibleFile(e)' /\ fold'[e] = fold[e]]_vars

(* The journal rows of a purge are about what it deleted: a file restored  *)
(* meanwhile is not announced as deleted.                                  *)
TombstoneOfTheGone ==
  [][\A r \in Req : Purges(r) =>
       \A x \in req[r].files : est'[x[1]] = "gone"]_vars

(* A folder the user deleted by itself comes back only by a restore that   *)
(* names it, not with a folder above it that was deleted later.            *)
OwnDeletionKept ==
  [][\A f \in own : st'[f] = "row" /\ del'[f] = 0 =>
       \E r \in Req : req[r].pc = "restore" /\ req[r].f = f /\ req'[r].pc = "idle"]_vars

(* A mirror that read the whole journal shows the user's tree: the same    *)
(* folders under the same parents and names, and the same files.           *)
ReplicaAgrees ==
  /\ \A f \in Folder : Visible(f) <=> Known(f)
  /\ \A f \in Folder : Visible(f) => cpar[f] = par[f] /\ cname[f] = name[f]
  /\ \A e \in Entry : cent[e] = IF VisibleFile(e) THEN fold[e] ELSE None

(* As long as no two calls were under way together nothing lives in a      *)
(* deleted folder, and a mirror that has read the journal shows the tree,  *)
(* if a restore tells of parents before their children.                    *)
TreeIsTold == crossed \/ (NothingStranded /\ (ParentFirst => ReplicaAgrees))
=============================================================================
