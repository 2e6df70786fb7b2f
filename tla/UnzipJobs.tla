------------------------------ MODULE UnzipJobs ------------------------------
(***************************************************************************)
(* Unpacking an archive into the tree (UnzipService): jobs are asked for   *)
(* and cancelled by requests, one worker takes the oldest, goes through    *)
(* the members, saves a cursor now and then, and a new process begins      *)
(* where the cursor is.                                                    *)
(***************************************************************************)
EXTENDS Integers, FiniteSets

CONSTANTS
  Kind,         \* of each member: "new", "held" (its name is another file's), "alike" (and of the same size),
                \* "broken" (does not read) or "sealed" (large, by a method that is not supported)
  Jobs,         \* 1..n: ids in the order of createdAt
  Caller,
  Stride,       \* members between two saved cursors (500)
  MaxRestarts,  \* UNZIP_MAX_RESTARTS
  Troubles,     \* "fail": an await of the pass is refused; "mute": also the write that says so; "crash": the process ends
  MaxTroubles   \* bound

Members == DOMAIN Kind
Count   == Cardinality(Members)
NoJob   == [state |-> "none", cursor |-> 0, restarts |-> 0, skipped |-> 0]
Idle    == [at |-> "idle", job |-> 0, next |-> 1, skipped |-> 0, made |-> {}]
NoAsk   == [at |-> "idle", job |-> 0]
Active  == {"pending", "processing"}
Ended   == {"done", "failed", "cancelled"}

VARIABLES
  jobs,       \* UnzipJob rows
  worker,     \* the pass of this process
  cancelled,  \* ids in memory
  copies,     \* entries made of each member
  queued,     \* members given to the conversion queue
  asks,       \* requests between two awaits
  jobTroubles,
  mute        \* history: jobs whose failure was not written

uvars == <<jobs, worker, cancelled, copies, queued, asks, jobTroubles, mute>>

UInit ==
  /\ jobs = [j \in Jobs |-> NoJob] /\ worker = Idle /\ cancelled = {}
  /\ copies = [m \in Members |-> 0] /\ queued = {}
  /\ asks = [c \in Caller |-> NoAsk] /\ jobTroubles = 0 /\ mute = {}

Mishap(t) == t \in Troubles /\ jobTroubles < MaxTroubles /\ jobTroubles' = jobTroubles + 1

-----------------------------------------------------------------------------
(* start and cancel: each looks, then writes. *)

StartLook(c) ==
  /\ asks[c].at = "idle" /\ \A j \in Jobs : jobs[j].state \notin Active
  /\ asks' = [asks EXCEPT ![c].at = "create"]
  /\ UNCHANGED <<jobs, worker, cancelled, copies, queued, jobTroubles, mute>>

StartMake(c) ==
  /\ asks[c].at = "create"
  /\ \E j \in Jobs :
       /\ jobs[j].state = "none" /\ \A k \in Jobs : k < j => jobs[k].state # "none"
       /\ jobs' = [jobs EXCEPT ![j].state = "pending"]
  /\ asks' = [asks EXCEPT ![c] = NoAsk]
  /\ UNCHANGED <<worker, cancelled, copies, queued, jobTroubles, mute>>

CancelLook(c, j) ==
  /\ asks[c].at = "idle" /\ jobs[j].state \in Active
  /\ IF jobs[j].state = "pending"
     THEN asks' = [asks EXCEPT ![c] = [at |-> "cancel", job |-> j]] /\ UNCHANGED cancelled
     ELSE cancelled' = cancelled \cup {j} /\ UNCHANGED asks
  /\ UNCHANGED <<jobs, worker, copies, queued, jobTroubles, mute>>

\* By id, whatever the job has become.
CancelWrite(c) ==
  /\ asks[c].at = "cancel"
  /\ jobs' = [jobs EXCEPT ![asks[c].job].state = "cancelled"]
  /\ asks' = [asks EXCEPT ![c] = NoAsk]
  /\ UNCHANGED <<worker, cancelled, copies, queued, jobTroubles, mute>>

-----------------------------------------------------------------------------
(* tick and process. *)

ClaimLook ==
  /\ worker.at = "idle"
  /\ \E j \in Jobs :
       /\ jobs[j].state = "pending" /\ \A k \in Jobs : jobs[k].state = "pending" => j <= k
       /\ worker' = [Idle EXCEPT !.at = "claim", !.job = j]
  /\ UNCHANGED <<jobs, cancelled, copies, queued, asks, jobTroubles, mute>>

ClaimWrite ==
  /\ worker.at = "claim"
  /\ jobs' = [jobs EXCEPT ![worker.job].state = "processing"]
  /\ worker' = [worker EXCEPT !.at = "member", !.next = jobs[worker.job].cursor + 1, !.skipped = jobs[worker.job].skipped]
  /\ UNCHANGED <<cancelled, copies, queued, asks, jobTroubles, mute>>

\* The pass is over: the memory of the cancellation goes with it.
Over(state) ==
  /\ jobs' = [jobs EXCEPT ![worker.job].state = state]
  /\ worker' = Idle /\ cancelled' = cancelled \ {worker.job}

CancelSeen ==
  /\ worker.at = "member" /\ worker.next <= Count /\ worker.job \in cancelled
  /\ Over("cancelled")
  /\ UNCHANGED <<copies, queued, asks, jobTroubles, mute>>

\* A living entry of the name with the size of the member counts as the member.
SeenNever(m)  == FALSE
Seen(m) == Kind[m] = "alike" \/ (Kind[m] = "new" /\ copies[m] > 0)

Member ==
  LET m == worker.next IN
  /\ worker.at = "member" /\ m <= Count /\ worker.job \notin cancelled /\ Kind[m] # "sealed"
  /\ IF Kind[m] = "broken" \/ Seen(m)
     THEN worker' = [worker EXCEPT !.at = "save", !.skipped = @ + 1] /\ UNCHANGED copies
     ELSE /\ copies' = [copies EXCEPT ![m] = @ + 1]
          /\ worker' = [worker EXCEPT !.at = "save", !.made = @ \cup {m}]
  /\ UNCHANGED <<jobs, cancelled, queued, asks, jobTroubles, mute>>

\* The cursor is the border of what is done; the counters are written more often. Both may be refused unnoticed.
CursorAhead(m) == m + 1
Cursor(m) == m
Save ==
  /\ worker.at = "save"
  /\ \E counters \in BOOLEAN, border \in {worker.next % Stride = 0, FALSE} :
       jobs' = [jobs EXCEPT ![worker.job].skipped = IF counters \/ border THEN worker.skipped ELSE @,
                            ![worker.job].cursor = IF border THEN Cursor(worker.next) ELSE @]
  /\ worker' = [worker EXCEPT !.at = "member", !.next = @ + 1]
  /\ UNCHANGED <<cancelled, copies, queued, asks, jobTroubles, mute>>

\* After the last member: the queue, the last checkpoint, the end.
Enqueue ==
  /\ worker.at = "member" /\ worker.next > Count
  /\ queued' = queued \cup worker.made
  /\ jobs' = [jobs EXCEPT ![worker.job].cursor = Count, ![worker.job].skipped = worker.skipped]
  /\ worker' = [worker EXCEPT !.at = "end"]
  /\ UNCHANGED <<cancelled, copies, asks, jobTroubles, mute>>

Done ==
  /\ worker.at = "end"
  /\ jobs' = [jobs EXCEPT ![worker.job].state = "done", ![worker.job].restarts = 0]
  /\ worker' = Idle /\ cancelled' = cancelled \ {worker.job}
  /\ UNCHANGED <<copies, queued, asks, jobTroubles, mute>>

\* A large member that is sealed throws past the try, and an environment that refuses does.
Fail ==
  /\ worker.at \in {"member", "end"}
  /\ \/ worker.at = "member" /\ worker.next <= Count /\ Kind[worker.next] = "sealed" /\ UNCHANGED jobTroubles
     \/ Mishap("fail")
  /\ Over("failed")
  /\ UNCHANGED <<copies, queued, asks, mute>>

FailUnwritten ==
  /\ worker.at \in {"member", "end"} /\ Mishap("mute")
  /\ worker' = Idle /\ cancelled' = cancelled \ {worker.job} /\ mute' = mute \cup {worker.job}
  /\ UNCHANGED <<jobs, copies, queued, asks>>

-----------------------------------------------------------------------------
\* onModuleInit: a job that was being processed goes back, unless it has been cut off too often.
RestartsForgotten(job) == [job EXCEPT !.state = "pending"]
Interrupted(job) ==
  IF job.restarts + 1 > MaxRestarts THEN [job EXCEPT !.state = "failed"]
  ELSE [job EXCEPT !.state = "pending", !.restarts = @ + 1]

\* A job may end the process each time; otherwise the process ends a bounded number of times.
Restart ==
  /\ IF worker.at \in {"member", "save", "end"} THEN UNCHANGED jobTroubles ELSE Mishap("crash")
  /\ jobs' = [j \in Jobs |-> IF jobs[j].state = "processing" THEN Interrupted(jobs[j]) ELSE jobs[j]]
  /\ worker' = Idle /\ cancelled' = {} /\ asks' = [c \in Caller |-> NoAsk]
  /\ mute' = {}
  /\ UNCHANGED <<copies, queued>>

WorkerStep == ClaimLook \/ ClaimWrite \/ CancelSeen \/ Member \/ Save \/ Enqueue \/ Done \/ Fail

UNext ==
  \/ WorkerStep \/ FailUnwritten \/ Restart
  \/ \E c \in Caller : StartLook(c) \/ StartMake(c) \/ CancelWrite(c) \/ \E j \in Jobs : CancelLook(c, j)

USpec == UInit /\ [][UNext]_uvars

\* The timer of the worker; jobs may end the process as often as they like.
UFair == WF_uvars(WorkerStep)

-----------------------------------------------------------------------------
(* A job that is done has every member in the tree, but those that do not read and those whose name and size a    *)
(* file there had already: the cursor that a new process begins with is never past what was made.                  *)
DoneIsWhole ==
  \A j \in Jobs : jobs[j].state = "done" => \A m \in Members : copies[m] > 0 \/ Kind[m] \in {"broken", "alike"}

\* However often the archive is unpacked again, by a second job or after a restart, no member comes twice, unless
\* its own name was taken when it first came.
NeverTwice == \A m \in Members : copies[m] > 1 => Kind[m] = "held"

\* A job that cuts the process off each time ends all the same, and so does one that is failed by anything else,
\* unless the failure itself could not be written.
Runs(j) == jobs[j].state \in Active
Ends(j) == jobs[j].state \in Ended \/ j \in mute
JobEnds == \A j \in Jobs : Runs(j) ~> Ends(j)
=============================================================================
