------------------------------ MODULE MailFetch ------------------------------
(***************************************************************************)
(* How the letters of one folder of one account come into the archive      *)
(* (MailSyncService): the scheduled pass (new letters, then a portion of   *)
(* history) and the short fetch raised by the probe, both over one row     *)
(* MailCursor, while the box at the provider goes on living.               *)
(***************************************************************************)
EXTENDS Integers, Sequences, SequencesExt

CONSTANTS
  Incoming,   \* the letters, 1..n, in the order in which they reach the box
  Day,        \* INTERNALDATE of each, in whole days: SEARCH BEFORE knows no more
  Kind,       \* "plain", "draft" or "huge" (over MAIL_MAX_MESSAGE_MB)
  First,      \* how many are in the box when the account is added
  MaxTries,   \* INGEST_MAX_TRIES
  Gap,        \* CATCHUP_GAP
  TailLen,    \* TAIL_ON_CATCHUP
  PerPass,    \* MAIL_BACKFILL_PER_PASS
  Budget,     \* letters a pass may download, for MAIL_PASS_BUDGET_MB
  Orders,     \* orders in which the server answers a FETCH of a list
  Faults,     \* what may go wrong: "ingest", "half", "crash", "stop", "search", "reset", "vanish"
  MaxFaults   \* bound: how often, failures to store a letter apart

ASSUME FetchAssumption ==
  /\ Incoming \subseteq Nat \ {0} /\ Day \in [Incoming -> Nat] /\ 1..First \subseteq Incoming
  /\ {First, MaxTries, TailLen, PerPass} \subseteq Nat /\ PerPass # 0

Last1 == [made |-> FALSE, validity |-> 0, lastUid |-> 0, from |-> 0, done |-> FALSE]
Gone  == 0
Proc  == {"pass", "fresh"}
None  == "none"
Rest  == [at |-> "idle", snap |-> Last1, lastUid |-> 0, todo |-> <<>>, spent |-> 0, oldest |-> 0, bad |-> FALSE]

VARIABLES
  box,        \* the folder: uid -> letter, Gone when its copy went
  validity,   \* its UIDVALIDITY
  came,       \* letters that have reached it so far
  cursor,     \* the MailCursor row
  archive,    \* [Incoming -> the coordinates of its MailMessage row, or <<>>]
  tries,      \* MailIngestFailure.tries
  job,        \* the pass and the short fetch
  freshBusy,  \* who is taking the folder's new letters
  stopping,   \* onModuleDestroy has begun
  faults,
  peril       \* history: what happened that may let a letter slip by

fetchVars == <<box, validity, came, cursor, archive, tries, job, freshBusy, stopping, faults, peril>>

Today    == Max({0} \cup {Day[l] : l \in 1..came})
There(u) == u \in 1..Len(box) /\ box[u] # Gone
Uids     == {u \in 1..Len(box) : box[u] # Gone}
Sorted(S) == [i \in 1..Cardinality(S) |-> CHOOSE u \in S : Cardinality({v \in S : v < u}) = i - 1]
Fault(f) == f \in Faults /\ faults < MaxFaults /\ faults' = faults + 1
Least(a, b) == IF a = 0 \/ b < a THEN b ELSE a
\* noteUnsaved counts in the table; the count given back says whether the letter is given up.
GivenUp(n) == n + 1 >= MaxTries
NoteForgets(n) == n
Note(n)    == IF GivenUp(n) THEN MaxTries ELSE n + 1

FetchInit ==
  /\ box = [u \in 1..First |-> u] /\ came = First /\ validity = 0
  /\ cursor = Last1
  /\ archive = [l \in Incoming |-> <<>>] /\ tries = [l \in Incoming |-> 0]
  /\ job = [p \in Proc |-> Rest]
  /\ freshBusy = None /\ stopping = FALSE /\ faults = 0 /\ peril = {}

-----------------------------------------------------------------------------
(* The box at the provider. *)

Arrive ==
  /\ came + 1 \in Incoming
  /\ came' = came + 1 /\ box' = Append(box, came + 1)
  /\ UNCHANGED <<validity, cursor, archive, tries, job, freshBusy, stopping, faults, peril>>

\* The owner deletes a letter elsewhere, or its copy is purged.
Vanish(u) ==
  /\ There(u) /\ Fault("vanish")
  /\ box' = [box EXCEPT ![u] = Gone]
  /\ UNCHANGED <<validity, came, cursor, archive, tries, job, freshBusy, stopping, peril>>

\* The folder is made anew: other uids, and the open sessions break.
NewValidity ==
  /\ validity = 0 /\ Fault("reset")
  /\ validity' = 1 /\ box' = Sorted(ToSet(box) \ {Gone})
  /\ job' = [p \in Proc |-> Rest] /\ freshBusy' = None
  /\ tries' = [l \in Incoming |-> 0]
  /\ UNCHANGED <<came, cursor, archive, stopping, peril>>

-----------------------------------------------------------------------------
(* Opening the folder. *)

CursorRenamed == IF cursor.made THEN [cursor EXCEPT !.validity = validity] ELSE [Last1 EXCEPT !.made = TRUE, !.from = Today]
CursorFor ==
  IF cursor.made /\ cursor.validity = validity THEN cursor
  ELSE [made |-> TRUE, validity |-> validity, lastUid |-> 0, from |-> Today, done |-> FALSE]

Open(p, at) ==
  /\ job[p].at = "idle" /\ ~stopping
  /\ cursor' = CursorFor
  /\ job' = [job EXCEPT ![p] = [Rest EXCEPT !.at = at, !.snap = CursorFor, !.lastUid = CursorFor.lastUid]]
  /\ UNCHANGED <<box, validity, came, archive, tries, stopping, faults, peril>>

StartPass == Open("pass", "begin") /\ UNCHANGED freshBusy

\* probeNew: the box has more than the cursor; syncFresh takes the folder before it reads the row.
StartFresh ==
  /\ cursor.made /\ Len(box) > cursor.lastUid /\ freshBusy = None
  /\ freshBusy' = "fresh"
  /\ Open("fresh", "list")

\* The pass has read the row already when it asks who takes the new letters.
BeginPass ==
  /\ job["pass"].at = "begin"
  /\ freshBusy' = IF freshBusy = None THEN "pass" ELSE freshBusy
  /\ job' = [job EXCEPT !["pass"].at = IF freshBusy = None THEN "list" ELSE "old"]
  /\ UNCHANGED <<box, validity, came, cursor, archive, tries, stopping, faults, peril>>

-----------------------------------------------------------------------------
(* fetchNew. *)

ListNew(p) ==
  LET j    == job[p]
      jump == Len(box) - j.snap.lastUid > Gap
      base == IF jump THEN Len(box) - Min({TailLen, Len(box)}) ELSE j.snap.lastUid
      news == {u \in Uids : u > base}
      huge == {u \in news : Kind[box[u]] = "huge"}
      kept == {u \in huge : ~GivenUp(tries[box[u]])}
      stop == IF kept = {} THEN Len(box) + 1 ELSE Min(kept)
      over == {u \in huge : u < stop}
      fits == {u \in news : u < stop} \ over
      last == Max({base} \cup over)
  IN /\ j.at = "list"
     /\ tries' = [l \in Incoming |-> IF \E u \in over \cup {stop} : There(u) /\ box[u] = l THEN Note(tries[l]) ELSE tries[l]]
     /\ cursor' = IF jump \/ over # {} THEN [cursor EXCEPT !.lastUid = last] ELSE cursor
     /\ job' = [job EXCEPT ![p].at = "take", ![p].lastUid = last, ![p].todo = Sorted(fits)]
     /\ peril' = peril \cup (IF \E u \in Uids : j.snap.lastUid < u /\ u <= base /\ (cursor.done \/ Day[box[u]] >= cursor.from)
                                 THEN {"jump"} ELSE {})
                       \cup (IF \E u \in fits : u < last THEN {"huge"} ELSE {})
     /\ UNCHANGED <<box, validity, came, archive, freshBusy, stopping, faults>>

Advance(p, u) ==
  IF u > job[p].lastUid THEN [cursor EXCEPT !.lastUid = u] ELSE cursor

\* What does not come out of the stream, and a draft, are passed by without storing.
PassBy(p) ==
  LET j == job[p] IN
  /\ j.at = "take" /\ j.todo # <<>> /\ ~stopping
  /\ LET u == Head(j.todo)
         draft == There(u) /\ Kind[box[u]] = "draft"
     IN /\ ~There(u) \/ draft
        /\ cursor' = IF draft THEN Advance(p, u) ELSE cursor
        /\ job' = [job EXCEPT ![p].todo = Tail(@), ![p].lastUid = IF draft THEN Max({u, @}) ELSE @]
  /\ UNCHANGED <<box, validity, came, archive, tries, freshBusy, stopping, faults, peril>>

\* ingest: bytes, row, attachments. "half": the row is there, an attachment failed, and it throws.
Ingest(l, u, res) ==
  /\ res \in {"ok"} \cup (Faults \cap {"ingest", "half"})
  /\ archive' = IF res = "ingest" THEN archive ELSE [archive EXCEPT ![l] = <<validity, u>>]
  /\ tries' = [tries EXCEPT ![l] = IF res = "ok" THEN 0 ELSE Note(@)]

TakeNew(p) ==
  LET j == job[p] IN
  /\ j.at = "take" /\ j.todo # <<>> /\ ~stopping /\ There(Head(j.todo))
  /\ Kind[box[Head(j.todo)]] # "draft"
  /\ ~(j.spent > 0 /\ j.spent >= Budget)
  /\ \E res \in {"ok", "ingest", "half"} :
       LET l == box[Head(j.todo)] IN
       /\ Ingest(l, Head(j.todo), res)
       /\ job' = [job EXCEPT ![p] = IF res = "ok" \/ GivenUp(tries[l]) THEN [j EXCEPT !.at = "mark"]
                                    ELSE [j EXCEPT !.todo = <<>>]]
  /\ UNCHANGED <<box, validity, came, cursor, freshBusy, stopping, faults, peril>>

\* The cursor follows in a statement of its own.
MarkNew(p) ==
  LET u == Head(job[p].todo) IN
  /\ job[p].at = "mark"
  /\ cursor' = Advance(p, u)
  /\ job' = [job EXCEPT ![p].at = "take", ![p].lastUid = Max({u, @}), ![p].spent = @ + 1, ![p].todo = Tail(@)]
  /\ UNCHANGED <<box, validity, came, archive, tries, freshBusy, stopping, faults, peril>>

\* The list is through, the budget is spent, or the service stops.
DoneNew(p) ==
  LET j == job[p] IN
  /\ j.at = "take" /\ (j.todo = <<>> \/ stopping \/ (j.spent > 0 /\ j.spent >= Budget))
  /\ freshBusy' = None
  /\ job' = [job EXCEPT ![p] = IF p = "fresh" THEN Rest ELSE [j EXCEPT !.at = "old", !.todo = <<>>]]
  /\ UNCHANGED <<box, validity, came, cursor, archive, tries, stopping, faults, peril>>

-----------------------------------------------------------------------------
(* backfill. *)

Known(u) == archive[box[u]] = <<validity, u>>

\* missingInWindow: what is missing of the newest portion of the window that has gaps.
Gaps(found) ==
  LET portion(u) == Cardinality({v \in found : v > u}) \div PerPass
      missing    == {u \in found : ~Known(u)}
  IN {u \in missing : \A v \in missing : portion(u) <= portion(v)}

ListOld ==
  LET j     == job["pass"]
      found == {u \in Uids : Day[box[u]] < j.snap.from}
      gaps  == Gaps(found)
      huge  == {u \in gaps : Kind[box[u]] = "huge"}
      kept  == {Day[box[u]] : u \in {v \in huge : ~GivenUp(tries[box[v]])}}
  IN /\ j.at = "old"
     /\ \/ /\ j.snap.done \/ j.spent >= Budget
           /\ job' = [job EXCEPT !["pass"] = Rest] /\ UNCHANGED <<cursor, tries, faults>>
        \/ /\ ~j.snap.done /\ j.spent < Budget /\ Fault("search")
           /\ job' = [job EXCEPT !["pass"] = Rest] /\ UNCHANGED <<cursor, tries>>
        \/ /\ ~j.snap.done /\ j.spent < Budget /\ gaps = {}
           /\ cursor' = [cursor EXCEPT !.done = TRUE]
           /\ job' = [job EXCEPT !["pass"] = Rest] /\ UNCHANGED <<tries, faults>>
        \/ /\ ~j.snap.done /\ j.spent < Budget /\ gaps # {}
           /\ tries' = [l \in Incoming |-> IF \E u \in huge : box[u] = l THEN Note(tries[l]) ELSE tries[l]]
           /\ \E o \in Orders :
                job' = [job EXCEPT !["pass"] =
                  [j EXCEPT !.at = "takeOld", !.oldest = IF kept = {} THEN 0 ELSE Min(kept), !.bad = huge # {},
                            !.todo = IF o = "rising" THEN Sorted(gaps \ huge) ELSE Reverse(Sorted(gaps \ huge))]]
           /\ UNCHANGED <<cursor, faults>>
     /\ UNCHANGED <<box, validity, came, archive, freshBusy, stopping, peril>>

TakeOld ==
  LET j == job["pass"] IN
  /\ j.at = "takeOld" /\ j.todo # <<>> /\ ~stopping /\ j.spent < Budget
  /\ LET u == Head(j.todo)
         l == box[u]
         next == [j EXCEPT !.todo = Tail(@)]
     IN IF ~There(u) \/ Kind[l] = "draft"
        THEN job' = [job EXCEPT !["pass"] = next] /\ UNCHANGED <<archive, tries>>
        ELSE \E res \in {"ok", "ingest", "half"} :
               /\ Ingest(l, u, res)
               /\ job' = [job EXCEPT !["pass"] =
                    [next EXCEPT !.spent = @ + 1, !.bad = @ \/ res # "ok",
                       !.oldest = IF res # "ok" /\ GivenUp(tries[l]) THEN @ ELSE Least(@, Day[l])]]
  /\ UNCHANGED <<box, validity, came, cursor, freshBusy, stopping, faults, peril>>

\* Some letter came after one of a later day; those that are gone count, for their days moved the border too.
Disordered == \E k, l \in 1..came : k < l /\ Day[k] > Day[l]

\* One day past the oldest letter handled, for SEARCH BEFORE leaves the day itself out.
SaveBorder ==
  LET j == job["pass"] IN
  /\ j.at = "takeOld" /\ (j.todo = <<>> \/ stopping \/ j.spent >= Budget)
  /\ cursor' = IF j.oldest = 0 THEN cursor ELSE [cursor EXCEPT !.from = j.oldest + 1]
  /\ job' = [job EXCEPT !["pass"] = Rest]
  /\ peril' = peril
       \cup (IF j.oldest # 0 /\ (j.bad \/ j.todo # <<>> \/ Disordered) THEN {"border"} ELSE {})
       \cup (IF j.oldest = 0 THEN {"stuck"} ELSE {})
  /\ UNCHANGED <<box, validity, came, archive, tries, freshBusy, stopping, faults>>

-----------------------------------------------------------------------------
(* Faults. *)

\* The session of one path breaks; its finally gives the folder back.
Break(p) ==
  /\ job[p].at # "idle" /\ Fault("crash")
  /\ job' = [job EXCEPT ![p] = Rest]
  /\ freshBusy' = IF freshBusy = p THEN None ELSE freshBusy
  /\ UNCHANGED <<box, validity, came, cursor, archive, tries, stopping, peril>>

Stop ==
  /\ ~stopping /\ Fault("stop") /\ stopping' = TRUE
  /\ UNCHANGED <<box, validity, came, cursor, archive, tries, job, freshBusy, peril>>

\* The next process; what had not ended within SHUTDOWN_WAIT_MS is lost.
Restart ==
  /\ stopping /\ stopping' = FALSE
  /\ job' = [p \in Proc |-> Rest] /\ freshBusy' = None
  /\ UNCHANGED <<box, validity, came, cursor, archive, tries, faults, peril>>

Steps(p) == ListNew(p) \/ PassBy(p) \/ TakeNew(p) \/ MarkNew(p) \/ DoneNew(p)

FetchNext ==
  \/ Arrive \/ NewValidity \/ Stop \/ Restart \/ \E u \in 1..Len(box) : Vanish(u)
  \/ StartPass \/ StartFresh \/ BeginPass \/ ListOld \/ TakeOld \/ SaveBorder
  \/ \E p \in Proc : Steps(p) \/ Break(p)

FetchSpec == FetchInit /\ [][FetchNext]_fetchVars

PassStep == StartPass \/ BeginPass \/ Steps("pass") \/ ListOld \/ TakeOld \/ SaveBorder

\* The timer goes on raising passes, a path that runs takes its steps, and a stopped process comes up again.
FetchFair == FetchSpec /\ WF_fetchVars(PassStep) /\ WF_fetchVars(Steps("fresh")) /\ WF_fetchVars(Restart)

-----------------------------------------------------------------------------
(* Letters that are not stored, not given up, and that neither the cursor nor the window of history will meet again. *)
Slipped ==
  {l \in Incoming :
     /\ Kind[l] # "draft" /\ archive[l] = <<>> /\ tries[l] < MaxTries
     /\ cursor.made /\ cursor.validity = validity
     /\ \E u \in Uids : /\ box[u] = l /\ u <= cursor.lastUid
                        /\ cursor.done \/ Day[l] >= cursor.from
                        /\ \A p \in Proc : u \notin ToSet(job[p].todo)}

\* The main rule of mail-sync.service.ts: neither lastUid nor backfillFrom moves past a letter we do not have.
NothingSlips == Slipped = {}

\* Whatever paths run at once, break or stop, a letter slips by only after one of three events: the cursor
\* jumped to the tail while the history no longer reached what it left, it was stored behind an oversized
\* letter with smaller ones still to take, or the border moved after a portion that was broken, failed or
\* out of order.
SlipsOnlyInPeril == Slipped # {} => peril \cap {"jump", "huge", "border"} # {}

\* In the end every letter that stays in the box is stored or given up, unless one of those events happened or
\* the history stands still at a portion that holds only drafts and letters given up.
AllTaken ==
  peril # {} \/ \A u \in Uids : Kind[box[u]] = "draft" \/ archive[box[u]] # <<>> \/ tries[box[u]] = MaxTries
EveryLetterArrives == []<>AllTaken
=============================================================================
