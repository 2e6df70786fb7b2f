------------------------------ MODULE MailIndex ------------------------------
(***************************************************************************)
(* The pass that fills in the search text of letters stored before there   *)
(* was a search (MailIndexService). A pass takes the newest letters        *)
(* without a mark, reads each from the store and marks it; tries are       *)
(* counted in memory, and a pass without a single success is taken for an  *)
(* outage of the store and forgets them all.                               *)
(*                                                                         *)
(* Letters are numbers, newer ones larger. `Broken` are those no parser    *)
(* gets through.                                                           *)
(***************************************************************************)
EXTENDS Naturals, FiniteSets

CONSTANTS
  Letters, Broken,
  Batch,        \* MAIL_SEARCH_INDEX_BATCH
  MaxTries,     \* MAX_TRIES
  Outages,      \* bound on the outages of the store
  Restarts      \* bound on restarts

VARIABLES
  mark,         \* searchIndexedAt and searchText: "no", "text" or "bare"
  attempts,     \* the tries in memory
  batch,        \* the letters of the running pass still to be read
  ok, failed,   \* whether a letter of the pass was marked, whether one was not
  busy,         \* a pass is running
  up,           \* the store answers
  outages, restarts,
  mixed         \* history: failures of a letter before its last try, in passes where another one was marked

indexVars == <<mark, attempts, batch, ok, failed, busy, up, outages, restarts, mixed>>

Zero == [l \in Letters |-> 0]

XInit ==
  /\ mark = [l \in Letters |-> "no"] /\ attempts = Zero /\ batch = {} /\ ok = FALSE /\ failed = {} /\ busy = FALSE
  /\ up = TRUE /\ outages = 0 /\ restarts = 0 /\ mixed = Zero

Unmarked == {l \in Letters : mark[l] = "no"}
Newest == {l \in Unmarked : Cardinality({m \in Unmarked : m > l}) < Batch}

RunBatch ==
  /\ ~busy /\ Newest # {}
  /\ busy' = TRUE /\ batch' = Newest /\ ok' = FALSE /\ failed' = {}
  /\ UNCHANGED <<mark, attempts, up, outages, restarts, mixed>>

Indexed(l) ==
  /\ mark' = [mark EXCEPT ![l] = "text"] /\ attempts' = [attempts EXCEPT ![l] = 0]
  /\ ok' = TRUE /\ UNCHANGED failed

\* After its last try a letter is marked without a text, and that counts as a success.
FailAttempt(l) ==
  IF attempts[l] + 1 < MaxTries
  THEN attempts' = [attempts EXCEPT ![l] = @ + 1] /\ failed' = failed \cup {l} /\ UNCHANGED <<mark, ok>>
  ELSE mark' = [mark EXCEPT ![l] = "bare"] /\ attempts' = [attempts EXCEPT ![l] = 0] /\ ok' = TRUE /\ UNCHANGED failed

IndexOne(l) ==
  /\ l \in batch /\ batch' = batch \ {l}
  /\ IF up /\ l \notin Broken THEN Indexed(l) ELSE FailAttempt(l)
  /\ UNCHANGED <<busy, up, outages, restarts, mixed>>

\* A pass without a success forgets the tries.
TriesKept  == attempts
TriesAfter == IF ~ok /\ failed # {} THEN Zero ELSE attempts

EndBatch ==
  /\ busy /\ batch = {} /\ busy' = FALSE
  /\ attempts' = TriesAfter
  /\ mixed' = [l \in Letters |-> IF ok /\ l \in failed THEN mixed[l] + 1 ELSE mixed[l]]
  /\ ok' = FALSE /\ failed' = {}
  /\ UNCHANGED <<mark, batch, up, outages, restarts>>

StoreGoes == up /\ outages < Outages /\ up' = FALSE /\ outages' = outages + 1
             /\ UNCHANGED <<mark, attempts, batch, ok, failed, busy, restarts, mixed>>
StoreBack == ~up /\ up' = TRUE /\ UNCHANGED <<mark, attempts, batch, ok, failed, busy, outages, restarts, mixed>>

Restart ==
  /\ restarts < Restarts /\ restarts' = restarts + 1
  /\ attempts' = Zero /\ batch' = {} /\ busy' = FALSE /\ ok' = FALSE /\ failed' = {}
  /\ UNCHANGED <<mark, up, outages, mixed>>

XNext == RunBatch \/ (\E l \in Letters : IndexOne(l)) \/ EndBatch \/ StoreGoes \/ StoreBack \/ Restart

\* The timer comes round, and an outage ends.
XStep == RunBatch \/ EndBatch \/ \E l \in Letters : IndexOne(l)
XSpec == XInit /\ [][XNext]_indexVars /\ WF_indexVars(XStep) /\ WF_indexVars(StoreBack)

-----------------------------------------------------------------------------
(***************************************************************************)
(* An outage buries no letter: a sound letter is left without a text only  *)
(* after it had failed in MaxTries - 1 passes that got through others.     *)
(***************************************************************************)
OutageBuriesNone == \A l \in Letters \ Broken : mark[l] = "bare" => mixed[l] >= MaxTries - 1

\* Broken letters that do not fill a batch do not keep the pass from the others: every sound letter is marked.
SoundMarked == \A l \in Letters \ Broken : mark[l] # "no"
SoundAreMarked == Cardinality(Broken) < Batch => <>SoundMarked

\* A pass does not return to a broken letter for ever (mail-index.service.ts:180).
BrokenAreMarked == <>(\A l \in Broken : mark[l] # "no")
=============================================================================
