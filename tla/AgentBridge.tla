---------------------------- MODULE AgentBridge ----------------------------
(***************************************************************************)
(* projects/: the service between the application and the bridge on the    *)
(* Mac, where the agents work. ProjectsActivityService asks the bridge     *)
(* every few seconds who is working and tells from the difference who has  *)
(* finished; ProjectsService and ProjectsController relay a call or the    *)
(* stream of an agent's answer.                                            *)
(***************************************************************************)
EXTENDS Integers, FiniteSets

CONSTANTS
  Session,    \* conversations
  Call,       \* calls of the application
  MaxAsked, MaxTurns, MaxParallel   \* bounds: questions under way, turns of the agents; MAX_TRANSCRIBE_PARALLEL

VARIABLES
  busy,       \* external: the sessions that work on the Mac
  turns,      \* how often one began or ended a turn
  asked,      \* questions under way: [n, busy], busy being what the bridge has said, or "unheard"
  number,     \* of the last question
  running, finished,
  applied,    \* number of the question whose answer was applied last
  newest,     \* history: what the newest of the answers applied said
  worked,     \* history: sessions some applied answer said were working
  overtaken,  \* history: an answer was applied after that of a later question
  call,       \* call -> [kind, pc, gone, aborted, late, upstream, told]; aborted is the signal of the controller
  transcribing

Unheard == {"unheard"}
NoCall == [kind |-> "none", pc |-> "idle", gone |-> FALSE, aborted |-> FALSE, late |-> FALSE, upstream |-> "none", told |-> "nothing"]

AInit ==
  /\ busy = {} /\ turns = 0 /\ asked = {} /\ number = 0
  /\ running = {} /\ finished = {} /\ applied = 0 /\ newest = {} /\ worked = {} /\ overtaken = FALSE
  /\ call = [c \in Call |-> NoCall] /\ transcribing = 0

polled  == <<asked, number, running, finished, applied, newest, worked, overtaken>>
relayed == <<call, transcribing>>

-----------------------------------------------------------------------------
(* The Mac.                                                                *)
Turn(s) ==
  /\ turns < MaxTurns /\ turns' = turns + 1
  /\ busy' = IF s \in busy THEN busy \ {s} ELSE busy \cup {s}
  /\ UNCHANGED <<polled, relayed>>

(* A question goes out on every tick of the timer, however many are still  *)
(* under way; the bridge answers, and the answer comes when it comes.      *)
Ask ==
  /\ Cardinality(asked) < MaxAsked /\ number < MaxTurns
  /\ number' = number + 1
  /\ asked' = asked \cup {[n |-> number + 1, busy |-> Unheard]}
  /\ UNCHANGED <<busy, turns, running, finished, applied, newest, worked, overtaken, relayed>>

Answer(q) ==
  /\ q.busy = Unheard
  /\ asked' = (asked \ {q}) \cup {[q EXCEPT !.busy = busy]}
  /\ UNCHANGED <<busy, turns, number, running, finished, applied, newest, worked, overtaken, relayed>>

\* Those that worked and do not any more have finished; those that work again have not.
FinishedKept(current) == finished \cup (running \ current)
Finished(current) == (finished \cup (running \ current)) \ current

Apply(q) ==
  /\ q.busy # Unheard
  /\ asked' = asked \ {q}
  /\ finished' = Finished(q.busy) /\ running' = q.busy
  /\ overtaken' = (overtaken \/ q.n < applied)
  /\ applied' = IF q.n > applied THEN q.n ELSE applied
  /\ newest' = IF q.n > applied THEN q.busy ELSE newest
  /\ worked' = worked \cup q.busy
  /\ UNCHANGED <<busy, turns, number, relayed>>

\* The Mac is asleep, the tunnel is down, or the answer is late: the snapshot stays as it is.
Unreached(q) ==
  /\ asked' = asked \ {q}
  /\ UNCHANGED <<busy, turns, number, running, finished, applied, newest, worked, overtaken, relayed>>

\* Half an hour later a finished session is no news; the snapshot drops it when it is looked at.
Forget(s) ==
  /\ s \in finished /\ finished' = finished \ {s} /\ worked' = worked \ {s}
  /\ UNCHANGED <<busy, turns, asked, number, running, applied, newest, overtaken, relayed>>

-----------------------------------------------------------------------------
(* A call: "json" for what is asked and answered, "stream" for an agent's  *)
(* answer, "speech" for the recognition, which takes one of the places.    *)
Begin(c, kind) ==
  /\ call[c].pc = "idle" /\ call[c].told = "nothing"
  /\ IF kind = "speech" /\ transcribing >= MaxParallel
       THEN call' = [call EXCEPT ![c].kind = kind, ![c].told = "stt_busy"] /\ UNCHANGED transcribing
       ELSE /\ call' = [call EXCEPT ![c] = [NoCall EXCEPT !.kind = kind, !.pc = "sent", !.upstream = "open"]]
            /\ transcribing' = transcribing + (IF kind = "speech" THEN 1 ELSE 0)
  /\ UNCHANGED <<busy, turns, polled>>

\* However a call ends, its place is free again.
Over(c, as, up) ==
  /\ call' = [call EXCEPT ![c] = [as EXCEPT !.pc = "idle", !.upstream = up]]
  /\ transcribing' = transcribing - (IF call[c].kind = "speech" THEN 1 ELSE 0)

\* codeFor of what send made of the failure: first whether the client left, then whether the time was up.
CodeAnyAbort(a) == IF a.aborted \/ a.late THEN "cancelled" ELSE "bridge_unavailable"
Code(a) == IF a.aborted THEN "cancelled" ELSE "bridge_unavailable"

Told(a) == [a EXCEPT !.told = Code(a)]

(* The application closes the connection. Only a stream listens, and there *)
(* it depends on the version of Node whether a request that has been read  *)
(* still tells. Until the headers are there the request to the bridge is   *)
(* given up with it; after them send has taken its ear off the signal.     *)
Leave(c) ==
  /\ call[c].pc # "idle" /\ ~call[c].gone
  /\ \E aborted \in {FALSE, call[c].kind = "stream"} :
       LET a == [call[c] EXCEPT !.gone = TRUE, !.aborted = aborted] IN
         IF aborted /\ a.pc = "sent" THEN Over(c, Told(a), "closed")
         ELSE call' = [call EXCEPT ![c] = a] /\ UNCHANGED transcribing
  /\ UNCHANGED <<busy, turns, polled>>

(* The timer of send or of transcribe, which covers the body of the answer *)
(* of the latter only, where what is cut off passes for an empty text.     *)
TimeIsUp(c) ==
  LET a == [call[c] EXCEPT !.late = TRUE] IN
  /\ \/ a.pc = "sent" /\ Over(c, Told(a), "closed")
     \/ a.pc = "body" /\ a.kind = "speech" /\ Over(c, [a EXCEPT !.told = "answer"], "closed")
  /\ UNCHANGED <<busy, turns, polled>>

Unreachable(c) ==
  /\ call[c].pc = "sent"
  /\ Over(c, Told(call[c]), "closed")
  /\ UNCHANGED <<busy, turns, polled>>

\* The bridge answers: with a refusal, whose code goes on as it is, or with the head of what is to come.
Refuse(c) ==
  /\ call[c].pc = "sent"
  /\ Over(c, [call[c] EXCEPT !.told = IF call[c].kind = "speech" THEN "bridge_unavailable" ELSE "busy"], "closed")
  /\ UNCHANGED <<busy, turns, polled>>

Headers(c) ==
  /\ call[c].pc = "sent"
  /\ call' = [call EXCEPT ![c].pc = IF call[c].kind = "stream" THEN "stream" ELSE "body"]
  /\ UNCHANGED <<busy, turns, polled, transcribing>>

Body(c) ==
  /\ call[c].pc = "body"
  /\ \E told \in IF call[c].kind = "speech" THEN {"answer"} ELSE {"answer", "bridge_unavailable", "error"} :
       Over(c, [call[c] EXCEPT !.told = told], "closed")
  /\ UNCHANGED <<busy, turns, polled>>

\* The stream ends, or breaks: then its reason is the last event, if there is anybody to read it.
StreamEnds(c) ==
  /\ call[c].pc = "stream"
  /\ \E told \in {"answer", "error"} :
       Over(c, [call[c] EXCEPT !.told = IF call[c].gone THEN "unread" ELSE told], "closed")
  /\ UNCHANGED <<busy, turns, polled>>

PollNext ==
  \/ Ask \/ \E s \in Session : Turn(s) \/ Forget(s)
  \/ \E q \in asked : Answer(q) \/ Apply(q) \/ Unreached(q)

RelayNext ==
  \E c \in Call :
    \/ \E kind \in {"json", "stream", "speech"} : Begin(c, kind)
    \/ Leave(c) \/ TimeIsUp(c) \/ Unreachable(c) \/ Refuse(c) \/ Headers(c) \/ Body(c) \/ StreamEnds(c)

ANext == PollNext \/ RelayNext

avars == <<busy, turns, polled, relayed>>

-----------------------------------------------------------------------------
(* Unless an answer was overtaken by that of a later question - nothing    *)
(* keeps questions from crossing -, the snapshot is the newest answer, and *)
(* a session that was seen working is either still at it or told finished, *)
(* never both, until the news is half an hour old.                         *)
SnapshotIsSound ==
  ~overtaken => /\ running = newest
                /\ finished \cap running = {}
                /\ worked \subseteq running \cup finished

(* "cancelled" is told only to who left, so that the application hides     *)
(* nobody else's failure; a place of the recognition is held by a call     *)
(* that is under way, and by no other.                                     *)
RelayIsTrue ==
  /\ \A c \in Call : call[c].told = "cancelled" => call[c].gone
  /\ transcribing = Cardinality({c \in Call : call[c].kind = "speech" /\ call[c].pc # "idle"})
  /\ transcribing <= MaxParallel

(* What the comment on ProjectsController.prompt says: with the connection *)
(* of the application that of the agent is broken off.                     *)
AgentIsLeftToo == \A c \in Call : call[c].kind = "stream" /\ call[c].gone => call[c].upstream # "open"
=============================================================================
