----------------------------- MODULE ChangeJournal -----------------------------
(***************************************************************************)
(* The change journal and a mirror that follows it by cursor.              *)
(*                                                                         *)
(* Server: a transaction changes one file and inserts its ChangeLog row;   *)
(* the row takes the next value of the seq sequence at the insert and      *)
(* becomes visible at the commit.  /sync/changes is three queries that run *)
(* in parallel, /sync/head is one; retention removes old rows.             *)
(* Mirror (MirrorPull.catchUp): without a cursor it takes the head, walks  *)
(* the tree and stores the head as its cursor; with one it asks for pages  *)
(* of the journal, applies their rows and moves the cursor behind them.    *)
(* A version of a file is the seq of the row that announced it, 0 when     *)
(* there is no file.                                                       *)
(***************************************************************************)
EXTENDS Integers, FiniteSets, TLC

CONSTANTS
  Item,      \* files of the tree
  Writer,    \* transactions open at the same time
  MaxSeq,    \* bound on the sequence
  Limit,     \* rows on a page
  Start,     \* the mirror's first cursor: None, or 0 after a pass over an empty tree
  Faults,    \* which of AllFaults happen
  None

AllFaults == {"rollback",     \* a transaction fails after it took its seq
              "delete",       \* files are deleted (not a fault of anything)
              "crash",        \* the mirror's process ends
              "offline",      \* a request fails
              "stop",         \* a page is cut off by the budget or a cancellation
              "cut",          \* a walk of the tree is
              "lost",         \* one file's download fails
              "prune",        \* the journal is pruned between requests
              "pruneInQuery", \* and between the queries of a request
              "pruneAll"}     \* and to its end: nothing changed for 90 days

ASSUME JournalAssumption ==
  /\ MaxSeq \in Nat /\ Limit \in Nat \ {0} /\ Faults \subseteq AllFaults
  /\ None \notin Nat /\ None \notin Item /\ (\A S \in SUBSET (1..MaxSeq) : None # S)
  /\ Start \in {None, 0}

VARIABLES
  next,     \* the next value of the sequence
  rows,     \* committed rows of the journal, by seq
  itemOf,   \* seq -> the file its row is about
  dels,     \* the seqs of delete rows
  val,      \* file -> its committed version
  last,     \* file -> the seq of its last committed change
  tx,       \* open transactions: the seq of their row, None when not open
  old,      \* rows up to this seq are past the retention of the journal
  cur,      \* the mirror's stored cursor
  seen,     \* file -> the version on the mirror
  cl,       \* what the mirror is doing
  missed    \* history: files it passed over and has not brought since

server == <<next, rows, itemOf, dels, val, last, tx, old>>
vars   == <<next, rows, itemOf, dels, val, last, tx, old, cur, seen, cl, missed>>

Seq0 == 0..MaxSeq
SeqN == 1..MaxSeq
Opt(S) == S \cup {None}

(* head: the head before the walk; todo: what is left of the walk;         *)
(* got, min, max: the three queries; rest: the row that tells hasMore;     *)
(* at: the last applied row of the page.                                   *)
Idle == [pc |-> "idle", head |-> None, todo |-> {}, got |-> None, min |-> None,
         max |-> None, rest |-> {}, at |-> None]

(* Every variable has its type; no seq is in two places.                   *)
TypeOK ==
  /\ next \in 1..(MaxSeq + 1) /\ rows \subseteq 1..(next - 1) /\ dels \subseteq SeqN
  /\ itemOf \in [SeqN -> Opt(Item)] /\ val \in [Item -> Seq0] /\ last \in [Item -> Seq0]
  /\ tx \in [Writer -> Opt(1..(next - 1))] /\ old \in Seq0
  /\ cur \in Opt(Seq0) /\ seen \in [Item -> Seq0]
  /\ cl \in [pc : {"idle", "pull", "ask", "apply"}, head : Opt(Seq0), todo : SUBSET Item,
             got : Opt(SUBSET SeqN), min : Opt(Seq0), max : Opt(Seq0),
             rest : SUBSET SeqN, at : Opt(Seq0)]
  /\ missed \subseteq Item
  /\ \A w \in Writer : tx[w] # None => tx[w] \notin rows /\ itemOf[tx[w]] # None
  /\ \A s \in rows : itemOf[s] # None

Init ==
  /\ next = 1 /\ rows = {} /\ itemOf = [s \in SeqN |-> None] /\ dels = {}
  /\ val = [x \in Item |-> 0] /\ last = [x \in Item |-> 0]
  /\ tx = [w \in Writer |-> None] /\ old = 0
  /\ cur = Start /\ seen = [x \in Item |-> 0] /\ cl = Idle
  /\ missed = {}

(* The bounds of an empty journal are 0, which no row has. *)
Least(S)    == IF S = {} THEN 0 ELSE CHOOSE s \in S : \A t \in S : s <= t
Greatest(S) == IF S = {} THEN 0 ELSE CHOOSE s \in S : \A t \in S : s >= t

-----------------------------------------------------------------------------
(* The server *)

(* A mutation updates its file, which locks it, and inserts its row. *)
Record(w, x) ==
  /\ tx[w] = None /\ next <= MaxSeq
  /\ \A v \in Writer : tx[v] # None => itemOf[tx[v]] # x
  /\ tx' = [tx EXCEPT ![w] = next]
  /\ itemOf' = [itemOf EXCEPT ![next] = x]
  /\ \/ dels' = dels
     \/ "delete" \in Faults /\ val[x] # 0 /\ dels' = dels \cup {next}
  /\ next' = next + 1
  /\ UNCHANGED <<rows, val, last, old, cur, seen, cl, missed>>

(* The seq up to which rows have left the server in answers the mirror is  *)
(* still to use: its cursor, the head of its walk, its page.               *)
First(S, n) == {s \in S : Cardinality({t \in S : t < s}) < n}

Served ==
  Greatest(({cur, cl.head, cl.at} \cup IF cl.got = None THEN {} ELSE First(cl.got, Limit)) \ {None})

(* A row may commit behind what has been served. *)
Commit(w) ==
  /\ tx[w] # None
  /\ missed' = IF tx[w] < Served THEN missed \cup {itemOf[tx[w]]} ELSE missed
  /\ rows' = rows \cup {tx[w]}
  /\ val' = [val EXCEPT ![itemOf[tx[w]]] = IF tx[w] \in dels THEN 0 ELSE tx[w]]
  /\ last' = [last EXCEPT ![itemOf[tx[w]]] = tx[w]]
  /\ tx' = [tx EXCEPT ![w] = None]
  /\ UNCHANGED <<next, itemOf, dels, old, cur, seen, cl>>

(* Mutant: the value of the sequence is given back. *)
RollbackGivesBack(w) ==
  /\ "rollback" \in Faults /\ tx[w] # None
  /\ tx' = [tx EXCEPT ![w] = None]
  /\ next' = next - 1
  /\ UNCHANGED <<rows, itemOf, dels, val, last, old, cur, seen, cl, missed>>

(* The value of the sequence is not given back. *)
Rollback(w) ==
  /\ "rollback" \in Faults /\ tx[w] # None
  /\ tx' = [tx EXCEPT ![w] = None]
  /\ UNCHANGED <<next, rows, itemOf, dels, val, last, old, cur, seen, cl, missed>>

(* 90 days later; no transaction and no pass lasts that long. *)
GrowOld ==
  /\ Faults \cap {"prune", "pruneInQuery"} # {}
  /\ cl.pc = "idle" /\ \A w \in Writer : tx[w] = None
  /\ old < IF "pruneAll" \in Faults THEN Greatest(rows) ELSE Greatest(rows) - 1
  /\ old' = old + 1
  /\ UNCHANGED <<next, rows, itemOf, dels, val, last, tx, cur, seen, cl, missed>>

(* pruneChangeLog: the rows past their retention, or its first batches. *)
Prune ==
  /\ "pruneInQuery" \in Faults \/ cl.pc # "ask"
  /\ \E s \in rows : s <= old /\ rows' = {t \in rows : t > s}
  /\ missed' = IF cl.pc = "ask" THEN missed \cup {itemOf[t] : t \in {u \in rows \ rows' : u > cur}} ELSE missed
  /\ UNCHANGED <<next, itemOf, dels, val, last, tx, old, cur, seen, cl>>
-----------------------------------------------------------------------------
(* The mirror: a walk of the tree *)

(* The head is asked for before the walk; without an answer the walk goes  *)
(* on and leaves no cursor.                                                *)
Begin ==
  \E h \in {Greatest(rows)} \cup (IF "offline" \in Faults THEN {None} ELSE {}) :
    cl' = [Idle EXCEPT !.pc = "pull", !.head = h, !.todo = Item]

StartFull ==
  /\ cl.pc = "idle" /\ cur = None /\ Begin
  /\ UNCHANGED <<server, cur, seen, missed>>

(* A file of the listing is brought to its version; what the listing does  *)
(* not show is left as it is.  A failed download is only counted.          *)
PullItem(x) ==
  /\ cl.pc = "pull" /\ x \in cl.todo
  /\ cl' = [cl EXCEPT !.todo = @ \ {x}]
  /\ \/ seen' = [seen EXCEPT ![x] = IF val[x] # 0 THEN val[x] ELSE @]
     \/ "lost" \in Faults /\ seen' = seen
  /\ missed' = IF seen'[x] = val[x] THEN missed \ {x} ELSE missed \cup {x}
  /\ UNCHANGED <<server, cur>>

(* The end of the budget or a cancellation: `stopped`, the rest is left. *)
PullStop ==
  /\ "cut" \in Faults /\ cl.pc = "pull"
  /\ cl' = [cl EXCEPT !.todo = {}]
  /\ missed' = missed \cup cl.todo
  /\ UNCHANGED <<server, cur, seen>>

(* Mutant: the head is asked for after the walk. *)
PullEndHead ==
  /\ cl.pc = "pull" /\ cl.todo = {}
  /\ cur' = Greatest(rows)
  /\ cl' = Idle
  /\ UNCHANGED <<server, seen, missed>>

PullEnd ==
  /\ cl.pc = "pull" /\ cl.todo = {}
  /\ cur' = IF cl.head # None THEN cl.head ELSE cur
  /\ cl' = Idle
  /\ UNCHANGED <<server, seen, missed>>

(* No connection (`fatal`), or the process ends: the cursor stays. *)
Offline ==
  /\ "offline" \in Faults /\ cl.pc # "idle"
  /\ cl' = Idle
  /\ UNCHANGED <<server, cur, seen, missed>>

Crash ==
  /\ "crash" \in Faults /\ cl.pc # "idle"
  /\ cl' = Idle
  /\ UNCHANGED <<server, cur, seen, missed>>

-----------------------------------------------------------------------------
(* The mirror: pages of the journal *)

Ask ==
  /\ cl.pc = "idle" /\ cur # None
  /\ cl' = [Idle EXCEPT !.pc = "ask"]
  /\ UNCHANGED <<server, cur, seen, missed>>

QueryRows ==
  /\ cl.pc = "ask" /\ cl.got = None
  /\ cl' = [cl EXCEPT !.got = First({s \in rows : s > cur}, Limit + 1)]
  /\ UNCHANGED <<server, cur, seen, missed>>

QueryOldest ==
  /\ cl.pc = "ask" /\ cl.min = None
  /\ cl' = [cl EXCEPT !.min = Least(rows)]
  /\ UNCHANGED <<server, cur, seen, missed>>

QueryNewest ==
  /\ cl.pc = "ask" /\ cl.max = None
  /\ cl' = [cl EXCEPT !.max = Greatest(rows)]
  /\ UNCHANGED <<server, cur, seen, missed>>

(* Mutant: without the comparison to the oldest row. *)
resetRequiredNoOldest ==
  \/ cl.min = 0 /\ cur > 0
  \/ cl.max # 0 /\ cur > cl.max

resetRequired ==
  \/ cl.min = 0 /\ cur > 0
  \/ cl.max # 0 /\ cur > cl.max
  \/ cl.min # 0 /\ cur + 1 < cl.min

Answered == cl.pc = "ask" /\ None \notin {cl.got, cl.min, cl.max}

(* A walk; until it is over the old cursor stays. *)
Reset ==
  /\ Answered /\ resetRequired /\ Begin
  /\ UNCHANGED <<server, cur, seen, missed>>

(* The row over the limit only tells that there is more. *)
Page ==
  /\ Answered /\ ~resetRequired
  /\ LET page == First(cl.got, Limit) IN
       cl' = [Idle EXCEPT !.pc = "apply", !.got = page, !.rest = cl.got \ page, !.at = cur]
  /\ UNCHANGED <<server, cur, seen, missed>>

(* Mutant: the row's version is taken without a look at the content. *)
ApplyBlind ==
  /\ cl.pc = "apply" /\ cl.got # {}
  /\ LET s == Least(cl.got) IN
       /\ cl' = [cl EXCEPT !.got = @ \ {s}, !.at = s]
       /\ seen' = [seen EXCEPT ![itemOf[s]] = IF s \in dels THEN 0 ELSE s]
  /\ UNCHANGED <<server, cur, missed>>

(* The next row.  A put downloads the file and checks it against the row's *)
(* content: a version already replaced is refused, the failure counted,    *)
(* and the row passed; its successor's row is still to come.               *)
Apply ==
  /\ cl.pc = "apply" /\ cl.got # {}
  /\ LET s == Least(cl.got)
         x == itemOf[s]
     IN /\ cl' = [cl EXCEPT !.got = @ \ {s}, !.at = s]
        /\ \/ /\ seen' = [seen EXCEPT ![x] = IF s \in dels THEN 0 ELSE IF val[x] = s THEN s ELSE @]
              /\ missed' = IF seen'[x] = val[x] THEN missed \ {x} ELSE missed
           \/ /\ "lost" \in Faults /\ s \notin dels
              /\ missed' = missed \cup {x} /\ UNCHANGED seen
  /\ UNCHANGED <<server, cur>>

(* Mutant: the cursor of a cut page is the last row of the page. *)
ApplyStopAtPage ==
  /\ "stop" \in Faults /\ cl.pc = "apply" /\ cl.got # {}
  /\ cur' = Greatest(cl.got)
  /\ cl' = Idle
  /\ UNCHANGED <<server, seen, missed>>

(* The pass is cut off between two rows: the cursor covers the applied. *)
ApplyStop ==
  /\ "stop" \in Faults /\ cl.pc = "apply" /\ cl.got # {}
  /\ cur' = cl.at
  /\ cl' = Idle
  /\ UNCHANGED <<server, seen, missed>>

(* Mutant: the cursor includes the row that told hasMore. *)
PageEndRest ==
  /\ cl.pc = "apply" /\ cl.got = {}
  /\ cur' = IF cl.rest = {} THEN cl.at ELSE Greatest(cl.rest)
  /\ cl' = IF cl.rest = {} THEN Idle ELSE [Idle EXCEPT !.pc = "ask"]
  /\ UNCHANGED <<server, seen, missed>>

PageEnd ==
  /\ cl.pc = "apply" /\ cl.got = {}
  /\ cur' = cl.at
  /\ cl' = IF cl.rest = {} THEN Idle ELSE [Idle EXCEPT !.pc = "ask"]
  /\ UNCHANGED <<server, seen, missed>>

-----------------------------------------------------------------------------
Mirror ==
  \/ StartFull \/ PullEnd \/ (\E x \in Item : PullItem(x))
  \/ Ask \/ QueryRows \/ QueryOldest \/ QueryNewest \/ Reset \/ Page \/ Apply \/ PageEnd

Next ==
  \/ \E w \in Writer : (\E x \in Item : Record(w, x)) \/ Commit(w) \/ Rollback(w)
  \/ GrowOld \/ Prune
  \/ Mirror \/ PullStop \/ ApplyStop \/ Offline \/ Crash

Spec == Init /\ [][Next]_vars

(* Transactions end; the mirror's timer keeps it going (MirrorLive, the    *)
(* periodic pass) and the server answers each query.                       *)
FairSpec ==
  /\ Spec
  /\ \A w \in Writer : WF_vars(Commit(w))
  /\ WF_vars(StartFull) /\ WF_vars(PullEnd) /\ \A x \in Item : WF_vars(PullItem(x))
  /\ WF_vars(Ask) /\ WF_vars(QueryRows) /\ WF_vars(QueryOldest) /\ WF_vars(QueryNewest)
  /\ WF_vars(Reset) /\ WF_vars(Page) /\ WF_vars(Apply) /\ WF_vars(PageEnd)

(* No file is like another to a mirror or to the journal: for TLC, a state *)
(* and one with the files exchanged are the same.                          *)
FileSymmetry == Permutations(Item)

-----------------------------------------------------------------------------
(* What the cursor covers is on the mirror: every file whose last change   *)
(* is not after the stored cursor has its current version there, or is not *)
(* there when it was deleted.  The journal never shows these rows again,   *)
(* so what is not there is lost (catchUp, /sync/changes).                  *)
CursorCovers ==
  cur # None => \A x \in Item : last[x] <= cur => seen[x] = val[x]

(* It misses a file in no other way than these: a failed download, a walk  *)
(* that is cut off or that meets a deletion, a row that commits behind one *)
(* already served, rows pruned between the queries of one request. No      *)
(* crash, lost answer, cut page, retention or rollback loses one.          *)
CursorCoversAllButMissed ==
  cur # None => \A x \in Item \ missed : last[x] <= cur => seen[x] = val[x]

(* Journal rows older than what a walk has already brought do not take a   *)
(* file back to an older version: applying twice is harmless (catchUp).    *)
MirrorNeverGoesBack == [][\A x \in Item : seen'[x] >= seen[x] \/ seen'[x] = 0]_seen

(* When the changes end, the mirror comes to hold the tree of the server.  *)
CatchesUp == <>[](seen = val)
=============================================================================
