--------------------------- MODULE TakeoutStream ---------------------------
(***************************************************************************)
(* scripts/takeout-stream-to-cloudly.mjs: archives streamed from Google    *)
(* into upload sessions of the service, chunk by chunk, with no disk in    *)
(* between. An archive is the sequence 1..Size[u] of its chunks; the last  *)
(* one is shorter unless the archive is Even. What survives a crash of the *)
(* script is its state file, `saved`, written within the step that changes *)
(* it, and what the server has: the sessions and the entries. A request    *)
(* given up by the script may still reach the server: `late`.              *)
(***************************************************************************)
EXTENDS Integers, Sequences, FiniteSets, SequencesExt

CONSTANTS
  Urls,       \* the list of archives, in the order of the file
  Size,       \* their lengths in chunks
  Even,       \* those whose last chunk is a full one
  Id,         \* identities of upload sessions
  Workers,    \* --concurrency
  MaxQueue,   \* MAX_QUEUE: chunks between the producer and the consumer
  Every,      \* a checkpoint every so many parts
  MaxFails,   \* MAX_CONSECUTIVE_FAILS
  Faults, MaxFaults   \* bound: what goes wrong, and how often in all

VARIABLES
  saved,      \* the state file: [done, progress, suspect]
  sessions,   \* Id -> [there, done, parts], parts being the chunks in the order of their numbers
  late,       \* requests <<session, number, chunk>> still under way, unheard
  entry,      \* the content of the entry under the name of each archive
  att,        \* the attempt at each archive
  run,        \* the process: [alive, pending, fails, inRow, cookieDead], pending being places in the list
  allDone,    \* the marker ALL_DONE
  hiccups     \* faults so far

Url == ToSet(Urls)
None == 0
Nothing == <<>>
Whole(u) == [i \in 1..Size[u] |-> i]
NoAttempt == [pc |-> "idle", id |-> None, from |-> 0, part |-> 0, received |-> 0, read |-> 0, queue |-> <<>>,
              held |-> 0, ended |-> FALSE, producer |-> "run", consumer |-> "run", wake |-> "nobody"]
NewRun(done) == [alive |-> TRUE, pending |-> {k \in DOMAIN Urls : Urls[k] \notin done}, fails |-> 0, inRow |-> 0,
                 cookieDead |-> FALSE]

TInit ==
  /\ saved = [done |-> {}, progress |-> [u \in Url |-> None], suspect |-> {}]
  /\ sessions = [i \in Id |-> [there |-> FALSE, done |-> FALSE, parts |-> <<>>]]
  /\ late = {} /\ entry = [u \in Url |-> Nothing]
  /\ att = [u \in Url |-> NoAttempt]
  /\ run = NewRun({}) /\ allDone = FALSE /\ hiccups = 0

Fault(f) == f \in Faults /\ hiccups < MaxFaults /\ hiccups' = hiccups + 1
Fine     == UNCHANGED hiccups

\* Half chunks a sequence of chunks of u amounts to.
Length(u, chunks) == FoldSeq(LAMBDA c, n : n + (IF c = Size[u] /\ u \notin Even THEN 1 ELSE 2), 0, chunks)

Busy    == {u \in Url : att[u].pc # "idle"}
Stopped == run.cookieDead \/ run.inRow >= MaxFails

-----------------------------------------------------------------------------
(* The workers: each takes the next archive of the list, and what fails    *)
(* waits for another run of the script.                                    *)
TakeNext ==
  /\ run.alive /\ ~Stopped /\ Cardinality(Busy) < Workers
  /\ \E k \in run.pending :
       /\ \A l \in run.pending : k <= l
       /\ att' = [att EXCEPT ![Urls[k]] = [NoAttempt EXCEPT !.pc = "resume"]]
       /\ run' = [run EXCEPT !.pending = @ \ {k}]
  /\ Fine /\ UNCHANGED <<saved, sessions, late, entry, allDone>>

\* The request the attempt is sending when it is given up.
Abandoned(u) == IF att[u].consumer = "send" THEN {<<att[u].id, att[u].part, att[u].held>>} ELSE {}

\* An attempt fails: what it has got across stays noted, its session is left alone.
GiveUp(u) ==
  /\ att' = [att EXCEPT ![u] = NoAttempt]
  /\ late' = late \cup Abandoned(u)
  /\ saved' = IF att[u].pc \in {"pipe", "complete"} /\ att[u].received > 0
                THEN [saved EXCEPT !.progress[u] = att[u].id] ELSE saved
  /\ run' = [run EXCEPT !.fails = @ + 1, !.inRow = @ + 1]

(* The next run of the script, which the watchdog or its owner starts.     *)
StartRun ==
  /\ ~run.alive /\ ~allDone
  /\ run' = NewRun(saved.done)
  /\ Fine /\ UNCHANGED <<saved, sessions, late, entry, att, allDone>>

EndRun ==
  /\ run.alive /\ Busy = {} /\ (run.pending = {} \/ Stopped)
  /\ run' = [run EXCEPT !.alive = FALSE]
  /\ allDone' = (run.fails = 0 /\ ~Stopped)
  /\ Fine /\ UNCHANGED <<saved, sessions, late, entry, att>>

Crash ==
  /\ run.alive /\ Fault("crash")
  /\ run' = [run EXCEPT !.alive = FALSE]
  /\ att' = [u \in Url |-> NoAttempt]
  /\ late' = late \cup UNION {Abandoned(u) : u \in Busy}
  /\ UNCHANGED <<saved, sessions, entry, allDone>>

-----------------------------------------------------------------------------
(* Where to go on: what the server has, not what the checkpoint says, and  *)
(* only when it is no more than the archive - a short last chunk counts    *)
(* for a full one here.                                                    *)
Fits(u, parts) == Len(parts) < Size[u] \/ (Len(parts) = Size[u] /\ u \in Even)

Resume(u) ==
  LET i == saved.progress[u]
      goes == i # None /\ sessions[i].there /\ sessions[i].parts # <<>> /\ Fits(u, sessions[i].parts) IN
  /\ att[u].pc = "resume"
  /\ \/ /\ Fine
        /\ att' = [att EXCEPT ![u].pc = "google", ![u].id = IF goes THEN i ELSE None,
                              ![u].from = IF goes THEN Len(sessions[i].parts) ELSE 0]
     \/ /\ i # None /\ Fault("api")
        /\ att' = [att EXCEPT ![u].pc = "google"]
  /\ UNCHANGED <<saved, sessions, late, entry, run, allDone>>

(* Google answers with the rest of the archive, with all of it although a  *)
(* part was asked for - the session is deleted then and the archive starts *)
(* anew -, with the page of a dead cookie, or with an error, which it also *)
(* does when there is no rest.                                             *)
Google(u) ==
  /\ att[u].pc = "google"
  /\ \/ /\ att[u].from < Size[u] /\ Fine
        /\ att' = [att EXCEPT ![u].pc = IF att[u].id = None THEN "init" ELSE "pipe", ![u].part = att[u].from,
                              ![u].received = att[u].from, ![u].read = att[u].from]
        /\ UNCHANGED <<saved, sessions, late, run>>
     \/ /\ att[u].from > 0 /\ Fault("norange")
        /\ sessions' = [sessions EXCEPT ![att[u].id].there = FALSE]
        /\ att' = [att EXCEPT ![u] = [NoAttempt EXCEPT !.pc = "init"]]
        /\ UNCHANGED <<saved, late, run>>
     \/ /\ Fault("cookie")
        /\ att' = [att EXCEPT ![u] = NoAttempt]
        /\ run' = [run EXCEPT !.cookieDead = TRUE]
        /\ UNCHANGED <<saved, sessions, late>>
     \/ /\ IF att[u].from = Size[u] THEN Fine ELSE Fault("google")
        /\ GiveUp(u) /\ UNCHANGED sessions
  /\ UNCHANGED <<entry, allDone>>

\* A session that no attempt and no note of the file refers to, and no request either.
Free(i) == ~sessions[i].there /\ i \notin {att[u].id : u \in Url} \cup {saved.progress[u] : u \in Url} \cup {r[1] : r \in late}

OpenSession(u) ==
  /\ att[u].pc = "init"
  /\ \/ /\ Fine /\ \E i \in Id :
             /\ Free(i) /\ \A j \in Id : Free(j) => i <= j
             /\ sessions' = [sessions EXCEPT ![i] = [there |-> TRUE, done |-> FALSE, parts |-> <<>>]]
             /\ att' = [att EXCEPT ![u].pc = "pipe", ![u].id = i]
        /\ UNCHANGED <<saved, late, run>>
     \/ Fault("api") /\ GiveUp(u) /\ UNCHANGED sessions
  /\ UNCHANGED <<entry, allDone>>

-----------------------------------------------------------------------------
(* The conveyor: a producer that reads chunks and a consumer that sends    *)
(* them. A wait leaves its resolver in the one slot `wake`, and notify     *)
(* empties the slot.                                                       *)
Notified(a) ==
  CASE a.wake = "producer" -> [a EXCEPT !.producer = "run", !.wake = "nobody"]
    [] a.wake = "consumer" -> [a EXCEPT !.consumer = "run", !.wake = "nobody"]
    [] OTHER -> a

\* Every chunk has a buffer of its own.
PushedSameBuffer(q, c) == [i \in 1..(Len(q) + 1) |-> c]
Pushed(q, c) == Append(q, c)

\* A full chunk waits for room; the short one at the end does not, and the end of the stream is noted with it.
Produce(u) ==
  LET a == att[u]
      c == a.read + 1
      short == c = Size[u] /\ u \notin Even IN
  /\ a.pc = "pipe" /\ a.producer = "run" /\ ~a.ended
  /\ att' = [att EXCEPT ![u] =
       CASE a.read = Size[u] -> Notified([a EXCEPT !.ended = TRUE])
         [] short -> Notified([a EXCEPT !.read = c, !.queue = Pushed(@, c), !.ended = TRUE])
         [] ~short /\ Len(a.queue) < MaxQueue -> Notified([a EXCEPT !.read = c, !.queue = Pushed(@, c)])
         [] OTHER -> [a EXCEPT !.producer = "wait", !.wake = "producer"]]
  /\ Fine /\ UNCHANGED <<saved, sessions, late, entry, run, allDone>>

\* The reader throws: the attempt fails while the consumer may be sending.
Cut(u) ==
  /\ att[u].pc = "pipe" /\ att[u].producer = "run" /\ ~att[u].ended
  /\ Fault("cut") /\ GiveUp(u)
  /\ UNCHANGED <<sessions, entry, allDone>>

ShiftedQuietly(a) == [a EXCEPT !.queue = Tail(@), !.held = Head(a.queue), !.part = @ + 1, !.consumer = "send"]
Shifted(a) ==
  Notified([a EXCEPT !.queue = Tail(@), !.held = Head(a.queue), !.part = @ + 1, !.consumer = "send"])

Consume(u) ==
  LET a == att[u] IN
  /\ a.pc = "pipe" /\ a.consumer = "run"
  /\ att' = [att EXCEPT ![u] =
       CASE a.queue # <<>> -> Shifted(a)
         [] a.queue = <<>> /\ a.ended -> [a EXCEPT !.pc = "complete", !.consumer = "over"]
         [] OTHER -> [a EXCEPT !.consumer = "wait", !.wake = "consumer"]]
  /\ Fine /\ UNCHANGED <<saved, sessions, late, entry, run, allDone>>

\* The server takes a part with the number it expects, and answers an earlier one as a duplicate.
Taken(i, n, c) ==
  IF sessions[i].there /\ n = Len(sessions[i].parts) + 1 THEN [sessions EXCEPT ![i].parts = Append(@, c)] ELSE sessions

(* A chunk is sent until it is answered; after ten failures in a row, or   *)
(* when the server does not know the session, the attempt fails.           *)
Put(u) ==
  LET a == att[u] IN
  /\ a.pc = "pipe" /\ a.consumer = "send"
  /\ \/ /\ sessions[a.id].there /\ Fine
        /\ sessions' = Taken(a.id, a.part, a.held)
        /\ att' = [att EXCEPT ![u].consumer = "run", ![u].received = @ + 1]
        /\ saved' = IF a.part % Every = 0 THEN [saved EXCEPT !.progress[u] = a.id] ELSE saved
        /\ UNCHANGED <<late, run>>
     \/ /\ Fault("slow")
        /\ late' = late \cup {<<a.id, a.part, a.held>>}
        /\ UNCHANGED <<sessions, att, saved, run>>
     \/ /\ IF sessions[a.id].there THEN Fault("dead") ELSE Fine
        /\ GiveUp(u) /\ UNCHANGED sessions
  /\ UNCHANGED <<entry, allDone>>

TakeLate ==
  /\ \E r \in late : /\ sessions' = Taken(r[1], r[2], r[3])
                     /\ late' = late \ {r}
  /\ Fine /\ UNCHANGED <<saved, entry, att, run, allDone>>

-----------------------------------------------------------------------------
(* The server puts the file together if it has all its bytes; a file of    *)
(* the same content under the name is as good, and a repeated call gets    *)
(* the same answer. The note of the session goes with the answer.          *)
Complete(u) ==
  LET i == att[u].id
      s == sessions[i]
      whole == Length(u, s.parts) = Length(u, Whole(u))
      good == s.there /\ whole /\ entry[u] \in {Nothing, s.parts} IN
  /\ att[u].pc = "complete"
  /\ \/ /\ good /\ Fine
        /\ att' = [att EXCEPT ![u].pc = "verify"]
        /\ saved' = [saved EXCEPT !.progress[u] = None]
        /\ UNCHANGED <<late, run>>
     \/ /\ IF good THEN Fault("unheard") ELSE Fine
        /\ GiveUp(u)
  /\ entry' = IF good THEN [entry EXCEPT ![u] = s.parts] ELSE entry
  /\ sessions' = [sessions EXCEPT ![i].done = good, ![i].there = s.there /\ whole]
  /\ UNCHANGED allDone

(* The check of the tail of the file only marks the archive as suspect;    *)
(* the archive is done either way.                                         *)
Verify(u) ==
  /\ att[u].pc = "verify"
  /\ \/ Fine /\ saved' = [saved EXCEPT !.done = @ \cup {u}]
     \/ Fault("tail") /\ saved' = [saved EXCEPT !.done = @ \cup {u}, !.suspect = @ \cup {u}]
  /\ att' = [att EXCEPT ![u] = NoAttempt]
  /\ run' = [run EXCEPT !.inRow = 0]
  /\ UNCHANGED <<sessions, late, entry, allDone>>

(* The server sweeps a session nothing has been written to for hours.      *)
SweepSession(i) ==
  /\ sessions[i].there /\ \A u \in Url : att[u].id = i => att[u].pc \notin {"pipe", "complete"}
  /\ sessions' = [sessions EXCEPT ![i].there = FALSE]
  /\ Fine /\ UNCHANGED <<saved, late, entry, att, run, allDone>>

Work(u) ==
  Resume(u) \/ Google(u) \/ OpenSession(u) \/ Produce(u) \/ Cut(u) \/ Consume(u) \/ Put(u) \/ Complete(u) \/ Verify(u)

TNext ==
  \/ TakeNext \/ StartRun \/ EndRun \/ Crash \/ TakeLate
  \/ \E u \in Url : Work(u)
  \/ \E i \in Id : SweepSession(i)

tvars == <<saved, sessions, late, entry, att, run, allDone, hiccups>>

\* The process goes on while it lives, somebody starts it again, and the server sweeps.
Turn == TakeNext \/ StartRun \/ EndRun
Smooth(u) == hiccups' = hiccups /\ Work(u)

TSpec ==
  /\ TInit /\ [][TNext]_tvars
  /\ WF_tvars(Turn)
  /\ \A u \in Url : WF_tvars(Smooth(u))
  /\ \A i \in Id : WF_tvars(SweepSession(i))

-----------------------------------------------------------------------------
(* Whatever was cut, repeated or given up on the way, a file that appears  *)
(* in the cloud is the archive, chunk by chunk; an archive noted as done   *)
(* is there, and ALL_DONE is written only when all are.                    *)
CarriedWhole ==
  /\ \A u \in Url : entry[u] \in {Nothing, Whole(u)}
  /\ \A u \in saved.done : entry[u] = Whole(u)
  /\ allDone => saved.done = Url

(* One slot serves both ends of the conveyor: whoever waits holds it, and  *)
(* waits for what is really not there yet.                                 *)
NobodySleepsInVain ==
  \A u \in Url : LET a == att[u] IN
    /\ a.producer = "wait" => a.wake = "producer" /\ Len(a.queue) >= MaxQueue
    /\ a.consumer = "wait" => a.wake = "consumer" /\ a.queue = <<>> /\ ~a.ended

(* When faults are over, the runs of the script carry everything across.   *)
AllIsCarried == <>allDone
=============================================================================
