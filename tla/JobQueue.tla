------------------------------ MODULE JobQueue ------------------------------
(***************************************************************************)
(* The conversion queue (QueueService and the QueueController's calls): a  *)
(* Job row per asset without a preview, one worker process that claims     *)
(* rows at its ticks, and the calls that put rows in, retry and clear them *)
(* between any two awaits of a worker.                                     *)
(***************************************************************************)
EXTENDS Integers, FiniteSets

CONSTANTS
  Asset,
  KindOf,         \* "photo", "pdf" or "video" of each asset
  Bad,            \* assets whose content no tool can read
  PhotoParallel, VideoAlongside, KeepOriginals,
  Pages,          \* pages of a PDF
  PagesPerJob,    \* PDF_PAGES_PER_JOB
  MaxAttempts,    \* MAX_ATTEMPTS
  Caller,         \* API requests that may run at once
  Ops,            \* the calls of a run, see Call
  MaxJobs,        \* bound: rows ever created
  MaxFail,        \* bound: transient failures
  MaxRestart      \* bound: restarts

Group == {"photo", "pdf", "video"}

\* A row before it is created stands for no asset in particular, so there has to be one.
ASSUME AssetAssumption == Asset # {}

ASSUME KindAssumption == KindOf \in [Asset -> Group] /\ Bad \subseteq Asset

ASSUME NumberAssumption ==
  /\ PhotoParallel \in Nat \ {0} /\ Pages \in Nat \ {0} /\ PagesPerJob \in Nat \ {0}
  /\ MaxAttempts \in Nat \ {0} /\ MaxJobs \in Nat \ {0} /\ MaxFail \in Nat /\ MaxRestart \in Nat

ASSUME FlagAssumption == VideoAlongside \in BOOLEAN /\ KeepOriginals \in BOOLEAN

\* Rows are numbered in the order of createdAt.
Row == 1..MaxJobs

VARIABLES
  preview,   \* Asset.previewState; "missing" is "impossible" for want of the original
  raw,       \* the original is in S3
  page,      \* pages of a PDF rendered into S3
  inFiles,   \* a live copy lies outside the zone "Photos"
  job,       \* the Job rows: [asset, state, attempts]
  created,   \* number of rows ever created
  aged,      \* rows created longer than VIDEO_STARVE_MS ago
  overdue,   \* rows claimed longer than STUCK_MS ago
  delayed,   \* retryAfter: rows whose pause is not over
  active,    \* the map of running tasks
  work,      \* process(job) of each row: [pc, from, done]
  tick,      \* where the tick is
  free,      \* photo slots it found free
  paused, stopped,
  cut,       \* rows whose child process the shutdown has killed
  call,      \* the API requests: [pc, asset, row, list]
  fails, restarts,
  cutShort,  \* history: documents that clear took the rows of while a task was at work
  doubled    \* history: rows a second retry put back while a task was at them

db   == <<preview, raw, page, inFiles, job, created, aged, overdue>>
mem  == <<delayed, active, work, tick, free, stopped, cut>>
vars == <<preview, raw, page, inFiles, job, created, aged, overdue, delayed, active, work, tick,
          free, paused, stopped, cut, call, fails, restarts, cutShort, doubled>>

-----------------------------------------------------------------------------

RowState  == {"none", "pending", "processing", "failed", "gone"}
WorkPC    == {"idle", "download", "missing", "drop", "convert", "pages", "pdfEnd",
              "original", "delete", "final", "requeue"}
CallPC    == {"idle", "enqueue", "reset", "look", "create", "unset", "last", "again", "retryAll",
              "clear", "clearRows", "list", "insert"}

JobRec  == [asset : Asset, state : RowState, attempts : Nat]
WorkRec == [pc : WorkPC, from : Nat, done : Nat]
CallRec == [pc : CallPC, asset : Asset, row : Row, list : SUBSET Asset]

TypeOK ==
  /\ preview \in [Asset -> {"none", "done", "missing"}]
  /\ raw \in [Asset -> BOOLEAN] /\ inFiles \in [Asset -> BOOLEAN]
  /\ page \in [Asset -> 0..Pages]
  /\ job \in [Row -> JobRec]
  /\ created \in 0..MaxJobs /\ aged \subseteq Row /\ overdue \subseteq Row
  /\ delayed \subseteq Row /\ active \subseteq Row /\ cut \subseteq Row
  /\ work \in [Row -> WorkRec]
  /\ tick \in {"idle", "photo", "pdf", "video"}
  /\ free \in 0..PhotoParallel
  /\ paused \in BOOLEAN /\ stopped \in BOOLEAN
  /\ call \in [Caller -> CallRec]
  /\ fails \in 0..MaxFail /\ restarts \in 0..MaxRestart /\ cutShort \subseteq Asset
  /\ doubled \subseteq Row

NoWork == [pc |-> "idle", from |-> 0, done |-> 0]

Init ==
  LET one == CHOOSE a \in Asset : TRUE IN
  /\ preview = [a \in Asset |-> "none"]
  /\ raw = [a \in Asset |-> TRUE]
  /\ page = [a \in Asset |-> 0]
  /\ inFiles = [a \in Asset |-> FALSE]
  /\ job = [i \in Row |-> [asset |-> one, state |-> "none", attempts |-> 0]]
  /\ created = 0 /\ aged = {} /\ overdue = {} /\ delayed = {} /\ active = {} /\ cut = {}
  /\ work = [i \in Row |-> NoWork]
  /\ tick = "idle" /\ free = 0 /\ paused = FALSE /\ stopped = FALSE
  /\ call = [c \in Caller |-> [pc |-> "idle", asset |-> one, row |-> 1, list |-> {}]]
  /\ fails = 0 /\ restarts = 0 /\ cutShort = {} /\ doubled = {}

-----------------------------------------------------------------------------
(* The table *)

Exists(i)  == job[i].state \in {"pending", "processing", "failed"}
RowsOf(a)  == {i \in Row : Exists(i) /\ job[i].asset = a}
In(state)  == {i \in Row : job[i].state = state}
Pending(g) == {i \in In("pending") : KindOf[job[i].asset] = g}

\* Job_one_pending_per_asset_kind; an asset has one kind.
HasPending(a)  == \E i \in RowsOf(a) : job[i].state = "pending"
UniqueIn(rows) == \A i, j \in rows : job[i].asset = job[j].asset => i = j

\* The rows an update of these to "pending" would leave pending.
Allowed(rows) == UniqueIn(rows \cup In("pending"))

Requeued(rows, keep) ==
  [i \in Row |-> IF i \in rows
                 THEN [job[i] EXCEPT !.state = "pending", !.attempts = IF keep THEN @ ELSE 0]
                 ELSE job[i]]

Dropped(rows) == [i \in Row |-> IF i \in rows THEN [job[i] EXCEPT !.state = "gone"] ELSE job[i]]

Inserted(a) ==
  [job EXCEPT ![created + 1] = [asset |-> a, state |-> "pending", attempts |-> 0]]

(* dedupeJobs keeps one row of an asset: a pending one, else a processing  *)
(* one, else a failed one; among equals the newest.                        *)
Rank(i)      == CASE job[i].state = "pending" -> 0 [] job[i].state = "processing" -> 1 [] OTHER -> 2
Better(i, j) == Rank(i) < Rank(j) \/ (Rank(i) = Rank(j) /\ i > j)
Duplicates   == {j \in Row : Exists(j) /\ \E i \in RowsOf(job[j].asset) : Better(i, j)}

-----------------------------------------------------------------------------
(* tick *)

\* Mutants: the slots in use are not counted; the tasks of every group are.
AllFree(g)    == PhotoParallel
FewerFree(g)  == PhotoParallel - Cardinality(active)

CountActive(g) == Cardinality({i \in active : KindOf[job[i].asset] = g})
FreeSlots(g)   == PhotoParallel - CountActive(g)

TickBegin ==
  /\ ~stopped /\ tick = "idle" /\ ~paused
  /\ tick' = "photo" /\ free' = FreeSlots("photo")
  /\ UNCHANGED <<db, delayed, active, work, stopped, cut, paused, call, fails, restarts, cutShort, doubled>>

Takeable(g) == Pending(g) \ delayed

(* next(group) and the synchronous start of process(job): the oldest row   *)
(* that is not delayed is claimed; active holds it before any await.       *)
Take(g) ==
  \E i \in Takeable(g) :
    /\ \A j \in Takeable(g) : i <= j
    /\ job' = [job EXCEPT ![i].state = "processing", ![i].attempts = job[i].attempts + 1]
    /\ active' = active \cup {i}
    /\ work' = [work EXCEPT ![i] = [NoWork EXCEPT !.pc = "download"]]
    /\ overdue' = overdue \ {i}

TakeNothing(g) == Takeable(g) = {} /\ UNCHANGED <<job, active, work, overdue>>

TickPhoto ==
  /\ tick = "photo"
  /\ \/ free > 0 /\ Take("photo") /\ free' = free - 1 /\ tick' = tick
     \/ (free = 0 \/ Takeable("photo") = {}) /\ tick' = "pdf" /\ UNCHANGED <<job, active, work, overdue, free>>
  /\ UNCHANGED <<preview, raw, page, inFiles, created, aged, delayed, stopped, cut, paused, call,
                 fails, restarts, cutShort, doubled>>

TickPdf ==
  /\ tick = "pdf" /\ tick' = "video"
  /\ IF CountActive("pdf") = 0 THEN Take("pdf") \/ TakeNothing("pdf")
     ELSE UNCHANGED <<job, active, work, overdue>>
  /\ UNCHANGED <<preview, raw, page, inFiles, created, aged, delayed, free, stopped, cut, paused,
                 call, fails, restarts, cutShort, doubled>>

\* Mutant: a video waits until the photos are done, however long.
PhotosFirst == VideoAlongside \/ Pending("photo") = {}

\* The oldest waiting video has waited longer than VIDEO_STARVE_MS.
VideoStarving == \E i \in Pending("video") : i \in aged /\ \A j \in Pending("video") : i <= j

VideoTurn == VideoAlongside \/ Pending("photo") = {} \/ VideoStarving

TickVideo ==
  /\ tick = "video" /\ tick' = "idle"
  /\ IF CountActive("video") = 0 /\ VideoTurn THEN Take("video") \/ TakeNothing("video")
     ELSE UNCHANGED <<job, active, work, overdue>>
  /\ UNCHANGED <<preview, raw, page, inFiles, created, aged, delayed, free, stopped, cut, paused,
                 call, fails, restarts, cutShort, doubled>>

\* Mutants: only the rows of running tasks are looked at; none is looked up in active.
StuckIfActive == {i \in In("processing") : i \in active /\ i \in overdue}
StuckAny      == {i \in In("processing") : i \in overdue}

\* Processing without a running task for longer than STUCK_MS.
Stuck == {i \in In("processing") : i \notin active /\ i \in overdue}

(* reapStuckJobs at the end of a tick, paused or not, when ticking is over *)
(* and the next tick may begin: one statement for all the rows, refused as *)
(* a whole by the unique index.                                            *)
Reap ==
  /\ ~stopped /\ Stuck # {} /\ Allowed(Stuck)
  /\ job' = Requeued(Stuck, TRUE) /\ delayed' = delayed \ Stuck
  /\ UNCHANGED <<preview, raw, page, inFiles, created, aged, overdue, active, work, tick, free, stopped,
                 cut, paused, call, fails, restarts, cutShort, doubled>>

DelayOver(i) ==
  /\ i \in delayed /\ delayed' = delayed \ {i}
  /\ UNCHANGED <<db, active, work, tick, free, stopped, cut, paused, call, fails, restarts, cutShort, doubled>>

Age(i) ==
  /\ \/ i \in Pending("video") \ aged /\ aged' = aged \cup {i} /\ UNCHANGED overdue
     \/ i \in In("processing") \ overdue /\ overdue' = overdue \cup {i} /\ UNCHANGED aged
  /\ UNCHANGED <<preview, raw, page, inFiles, job, created, mem, paused, call, fails, restarts, cutShort, doubled>>

-----------------------------------------------------------------------------
(* process *)

Step(i, pc) == work' = [work EXCEPT ![i].pc = pc]

\* finally: the slot is free again.
Finally(i) ==
  /\ active' = active \ {i}
  /\ work' = [work EXCEPT ![i] = NoWork]

(* A write at the end of a task that the database refuses (the unique      *)
(* index) or fails is swallowed: the row stays as it is.                   *)
Write(i, new) ==
  \/ job' = new /\ UNCHANGED fails /\ (new[i].state = "pending" => Allowed({i}))
  \/ UNCHANGED <<job, fails>> /\ new[i].state = "pending" /\ ~Allowed({i})
  \/ UNCHANGED job /\ fails < MaxFail /\ fails' = fails + 1

Ending(i, state, attempts) ==
  IF Exists(i) THEN [job EXCEPT ![i].state = state, ![i].attempts = attempts] ELSE job

Download(i) ==
  /\ work[i].pc = "download"
  /\ IF raw[job[i].asset]
     THEN \/ KindOf[job[i].asset] # "pdf" /\ Step(i, "convert")
          \/ /\ KindOf[job[i].asset] = "pdf" /\ job[i].asset \notin Bad
             /\ work' = [work EXCEPT ![i].pc = "pages", ![i].from = page[job[i].asset]]
     ELSE Step(i, "missing")
  /\ UNCHANGED <<db, delayed, active, tick, free, stopped, cut, paused, call, fails, restarts, cutShort, doubled>>

(* The original is not there: the asset is marked and the row goes.        *)
MarkMissing(i) ==
  /\ work[i].pc = "missing"
  /\ preview' = [preview EXCEPT ![job[i].asset] = "missing"]
  /\ Step(i, "drop")
  /\ UNCHANGED <<raw, page, inFiles, job, created, aged, overdue, delayed, active, tick, free, stopped,
                 cut, paused, call, fails, restarts, cutShort, doubled>>

Drop(i) ==
  /\ work[i].pc = "drop"
  /\ Write(i, Ending(i, "gone", job[i].attempts))
  /\ Finally(i)
  /\ UNCHANGED <<preview, raw, page, inFiles, created, aged, overdue, delayed, tick, free, stopped, cut,
                 paused, call, restarts, cutShort, doubled>>

PhotoConverts(i) == KindOf[job[i].asset] = "photo" /\ job[i].asset \notin Bad /\ i \notin cut

(* A video whose encoding fails, for whatever reason, keeps its poster and *)
(* counts as done.                                                         *)
VideoConverts(i) == KindOf[job[i].asset] = "video"

Convert(i) ==
  /\ work[i].pc = "convert" /\ (PhotoConverts(i) \/ VideoConverts(i))
  /\ preview' = [preview EXCEPT ![job[i].asset] = "done"]
  /\ Step(i, "original")
  /\ UNCHANGED <<raw, page, inFiles, job, created, aged, overdue, delayed, active, tick, free,
                 stopped, cut, paused, call, fails, restarts, cutShort, doubled>>

(* convertPdf: a page at a time, until the portion is done, the queue is   *)
(* paused or the row is gone.                                              *)
BatchUncut(i) == PagesPerJob   \* Mutant: the last portion is not cut short.

Batch(i) == IF Pages - work[i].from < PagesPerJob THEN Pages - work[i].from ELSE PagesPerJob

RenderPage(i) ==
  LET a == job[i].asset IN
  /\ work[i].pc = "pages" /\ i \notin cut
  /\ \/ /\ work[i].done < Batch(i) /\ ~paused /\ Exists(i)
        /\ page' = [page EXCEPT ![a] = IF work[i].from + work[i].done < @ THEN @
                                       ELSE work[i].from + work[i].done + 1]
        /\ work' = [work EXCEPT ![i].done = work[i].done + 1]
     \/ /\ work[i].done = Batch(i) \/ paused \/ ~Exists(i)
        /\ Step(i, "pdfEnd") /\ UNCHANGED page
  /\ UNCHANGED <<preview, raw, inFiles, job, created, aged, overdue, delayed, active, tick, free, stopped,
                 cut, paused, call, fails, restarts, cutShort, doubled>>

BatchDone(i) == work[i].done = Batch(i)   \* Mutant: the portion is taken for the document.

AllDone(i) == work[i].from + work[i].done = Pages

(* finishPdf as soon as there is a page to show; what is left goes back to *)
(* the queue with the same row.                                            *)
PdfEnd(i) ==
  /\ work[i].pc = "pdfEnd"
  /\ preview' = IF work[i].from + work[i].done > 0 THEN [preview EXCEPT ![job[i].asset] = "done"] ELSE preview
  /\ Step(i, IF AllDone(i) \/ ~Exists(i) THEN "final" ELSE "requeue")
  /\ UNCHANGED <<raw, page, inFiles, job, created, aged, overdue, delayed, active, tick, free, stopped,
                 cut, paused, call, fails, restarts, cutShort, doubled>>

(* The original of a photo or a video goes unless it is to be kept or a    *)
(* copy lives outside "Photos".                                            *)
CountRefs(i) ==
  /\ work[i].pc = "original"
  /\ Step(i, IF KeepOriginals \/ inFiles[job[i].asset] THEN "final" ELSE "delete")
  /\ UNCHANGED <<db, delayed, active, tick, free, stopped, cut, paused, call, fails, restarts, cutShort, doubled>>

DeleteRaw(i) ==
  /\ work[i].pc = "delete"
  /\ raw' = [raw EXCEPT ![job[i].asset] = FALSE]
  /\ Step(i, "final")
  /\ UNCHANGED <<preview, page, inFiles, job, created, aged, overdue, delayed, active, tick, free, stopped,
                 cut, paused, call, fails, restarts, cutShort, doubled>>

Finish(i) ==
  /\ work[i].pc \in {"final", "requeue"}
  /\ delayed' = delayed \ {i}
  /\ Write(i, IF work[i].pc = "final" THEN Ending(i, "gone", job[i].attempts)
              ELSE Ending(i, "pending", 0))
  /\ Finally(i)
  /\ UNCHANGED <<preview, raw, page, inFiles, created, aged, overdue, tick, free, stopped, cut, paused,
                 call, restarts, cutShort, doubled>>

(* A transient error: the row waits for its pause, unless it has had its   *)
(* attempts.                                                               *)
FailTransient(i) ==
  /\ work[i].pc \in {"download", "convert", "pages"}
  /\ fails < MaxFail /\ fails' = fails + 1
  /\ LET again == job[i].attempts < MaxAttempts IN
     /\ delayed' = IF again THEN delayed \cup {i} ELSE delayed \ {i}
     /\ job' = IF ~again THEN Ending(i, "failed", job[i].attempts)
               ELSE IF Allowed({i}) THEN Ending(i, "pending", job[i].attempts) ELSE job
  /\ Finally(i)
  /\ UNCHANGED <<preview, raw, page, inFiles, created, aged, overdue, tick, free, stopped, cut, paused,
                 call, restarts, cutShort, doubled>>

(* A permanent one: content no tool reads, or a process that was killed.   *)
FailForGood(i) ==
  /\ \/ job[i].asset \in Bad /\ KindOf[job[i].asset] # "video"
        /\ work[i].pc = (IF KindOf[job[i].asset] = "pdf" THEN "download" ELSE "convert")
        /\ raw[job[i].asset]
     \/ i \in cut /\ work[i].pc \in {"convert", "pages"}
  /\ delayed' = delayed \ {i}
  /\ job' = Ending(i, "failed", job[i].attempts)
  /\ Finally(i)
  /\ UNCHANGED <<preview, raw, page, inFiles, created, aged, overdue, tick, free, stopped, cut, paused,
                 call, fails, restarts, cutShort, doubled>>

-----------------------------------------------------------------------------
(* The API                                                                 *)

still == <<page, inFiles, aged, overdue, active, work, tick, free, stopped, cut, paused, fails, restarts>>
rest  == <<still, cutShort, doubled>>

Answer(c)    == call' = [call EXCEPT ![c].pc = "idle", ![c].list = {}]
Reach(c, pc) == call' = [call EXCEPT ![c].pc = pc]

(* A call begins; an upload puts the original in place first.              *)
Call(c) ==
  /\ call[c].pc = "idle"
  /\ \E op \in Ops, a \in Asset :
       /\ call' = [call EXCEPT ![c] = [@ EXCEPT !.asset = a, !.pc =
            CASE op \in {"upload", "enqueue"} -> "enqueue" [] op = "retry" -> "unset"
              [] op = "retryErrors" -> "retryAll" [] op = "clear" -> "clear" [] OTHER -> "list"]]
       /\ raw' = IF op = "upload" THEN [raw EXCEPT ![a] = TRUE] ELSE raw
       /\ job' = IF op \in {"retryErrors", "rebuild"} THEN Dropped(Duplicates) ELSE job
  /\ UNCHANGED <<preview, created, delayed, rest>>

(* enqueue: nothing for an asset that is done; one that was marked for     *)
(* want of its original is taken up again.                                 *)
Enqueue(c) ==
  LET p == preview[call[c].asset] IN
  /\ call[c].pc = "enqueue"
  /\ \/ p = "done" /\ Answer(c)
     \/ p = "missing" /\ Reach(c, "reset")
     \/ p = "none" /\ Reach(c, "look")
  /\ UNCHANGED <<preview, raw, job, created, delayed, rest>>

Reset(c) ==
  /\ call[c].pc = "reset"
  /\ preview' = [preview EXCEPT ![call[c].asset] = "none"]
  /\ Reach(c, "look")
  /\ UNCHANGED <<raw, job, created, delayed, rest>>

Look(c) ==
  /\ call[c].pc = "look"
  /\ IF RowsOf(call[c].asset) # {} THEN Answer(c) ELSE Reach(c, "create")
  /\ UNCHANGED <<preview, raw, job, created, delayed, rest>>

(* The unique index turns a second pending row away.                       *)
Create(c) ==
  /\ call[c].pc = "create"
  /\ IF HasPending(call[c].asset) THEN UNCHANGED <<job, created>>
     ELSE /\ created < MaxJobs /\ created' = created + 1
          /\ job' = Inserted(call[c].asset)
  /\ Answer(c)
  /\ UNCHANGED <<preview, raw, delayed, rest>>

(* retryPreview: no original, no retry; else the preview is unset and the  *)
(* last row looked at.                                                     *)
Unset(c) ==
  LET a == call[c].asset IN
  /\ call[c].pc = "unset"
  /\ preview' = [preview EXCEPT ![a] = IF raw[a] THEN "none" ELSE "missing"]
  /\ IF raw[a] THEN Reach(c, "last") ELSE Answer(c)
  /\ UNCHANGED <<raw, job, created, delayed, rest>>

Last(c) ==
  LET rows == RowsOf(call[c].asset) IN
  /\ call[c].pc = "last"
  /\ \/ rows = {} /\ Reach(c, "create")
     \/ \E i \in rows : /\ \A j \in rows : j <= i
                        /\ IF job[i].state = "failed"
                           THEN call' = [call EXCEPT ![c].pc = "again", ![c].row = i]
                           ELSE Answer(c)
  /\ UNCHANGED <<preview, raw, job, created, delayed, rest>>

Again(c) ==
  LET i == call[c].row IN
  /\ call[c].pc = "again"
  /\ delayed' = delayed \ {i}
  /\ job' = IF Exists(i) /\ Allowed({i}) THEN Requeued({i}, FALSE) ELSE job
  /\ doubled' = doubled \cup ({i} \cap active)
  /\ Answer(c)
  /\ UNCHANGED <<preview, raw, created, still, cutShort>>

(* retryErrors: one statement for all the failed rows.                     *)
RetryAll(c) ==
  /\ call[c].pc = "retryAll"
  /\ job' = IF Allowed(In("failed")) THEN Requeued(In("failed"), FALSE) ELSE job
  /\ Answer(c)
  /\ UNCHANGED <<preview, raw, created, delayed, rest>>

(* clear: a PDF whose remainder waits in the queue is not done any more;   *)
(* then every row goes, also of a task that is at work or that put its     *)
(* remainder back in between.                                              *)
ClearUnset(c) ==
  /\ call[c].pc = "clear"
  /\ preview' = [a \in Asset |-> IF preview[a] = "done" /\ KindOf[a] = "pdf" /\ HasPending(a)
                                 THEN "none" ELSE preview[a]]
  /\ call' = [call EXCEPT ![c].pc = "clearRows"]
  /\ UNCHANGED <<raw, job, created, delayed, rest>>

ClearRows(c) ==
  LET rows == {i \in Row : Exists(i)} IN
  /\ call[c].pc = "clearRows"
  /\ job' = Dropped(rows)
  /\ cutShort' = cutShort \cup {job[i].asset : i \in active \cup {j \in rows : preview[job[j].asset] = "done"}}
  /\ Answer(c)
  /\ UNCHANGED <<preview, raw, created, delayed, still, doubled>>

(* rebuild: the assets without a preview and without a row, and then a row *)
(* for each of them (skipDuplicates).                                      *)
List(c) ==
  /\ call[c].pc = "list"
  /\ call' = [call EXCEPT ![c].pc = "insert",
                          ![c].list = {a \in Asset : preview[a] = "none" /\ RowsOf(a) = {}}]
  /\ UNCHANGED <<preview, raw, job, created, delayed, rest>>

Insert(c) ==
  /\ call[c].pc = "insert"
  /\ \/ \E a \in call[c].list :
          /\ IF HasPending(a) THEN UNCHANGED <<job, created>>
             ELSE created < MaxJobs /\ created' = created + 1 /\ job' = Inserted(a)
          /\ call' = [call EXCEPT ![c].list = call[c].list \ {a}]
     \/ call[c].list = {} /\ Answer(c) /\ UNCHANGED <<job, created>>
  /\ UNCHANGED <<preview, raw, delayed, rest>>

Pause ==
  /\ "pause" \in Ops
  /\ paused' = ~paused
  /\ UNCHANGED <<db, mem, call, fails, restarts, cutShort, doubled>>

(* The asset gets a copy outside "Photos", or loses it.                    *)
Copy(a) ==
  /\ "copy" \in Ops
  /\ inFiles' = [inFiles EXCEPT ![a] = ~@]
  /\ UNCHANGED <<preview, raw, page, job, created, aged, overdue, mem, paused, call, fails, restarts, cutShort, doubled>>

-----------------------------------------------------------------------------
(* Shutdown and restart *)

(* onModuleDestroy kills the child processes of the running tasks (not     *)
(* every conversion has one); the process itself lives on until every      *)
(* module has been taken down.                                             *)
Shutdown ==
  /\ ~stopped /\ restarts < MaxRestart
  /\ stopped' = TRUE
  /\ \E some \in SUBSET {i \in active : work[i].pc \in {"convert", "pages"}} : cut' = some
  /\ UNCHANGED <<db, delayed, active, work, tick, free, paused, call, fails, restarts, cutShort, doubled>>

(* The process ends, with a shutdown or without; onModuleInit of the next  *)
(* one drops the duplicates and puts what was processing back.             *)
Restart ==
  /\ restarts < MaxRestart /\ restarts' = restarts + 1
  /\ LET left == Dropped(Duplicates) IN
     job' = [i \in Row |-> IF left[i].state = "processing"
                           THEN [left[i] EXCEPT !.state = "pending"] ELSE left[i]]
  /\ delayed' = {} /\ active' = {} /\ cut' = {} /\ stopped' = FALSE
  /\ work' = [i \in Row |-> NoWork] /\ tick' = "idle" /\ free' = 0
  /\ call' = [c \in Caller |-> [call[c] EXCEPT !.pc = "idle", !.list = {}]]
  /\ UNCHANGED <<preview, raw, page, inFiles, created, aged, overdue, paused, fails, cutShort, doubled>>

-----------------------------------------------------------------------------

Tick == TickBegin \/ TickPhoto \/ TickPdf \/ TickVideo

Process(i) ==
  \/ Download(i) \/ MarkMissing(i) \/ Drop(i) \/ Convert(i)
  \/ RenderPage(i) \/ PdfEnd(i) \/ CountRefs(i) \/ DeleteRaw(i) \/ Finish(i) \/ FailTransient(i) \/ FailForGood(i)

Serve(c) ==
  \/ Enqueue(c) \/ Reset(c) \/ Look(c) \/ Create(c) \/ Unset(c) \/ Last(c) \/ Again(c)
  \/ RetryAll(c) \/ ClearUnset(c) \/ ClearRows(c) \/ List(c) \/ Insert(c)

Next ==
  \/ Tick \/ Reap
  \/ \E i \in Row : Process(i) \/ DelayOver(i) \/ Age(i)
  \/ \E c \in Caller : Call(c) \/ Serve(c)
  \/ Pause \/ (\E a \in Asset : Copy(a)) \/ Shutdown \/ Restart

Spec == Init /\ [][Next]_vars

(* The timers fire and no await lasts forever.                             *)
FairSpec ==
  /\ Spec
  /\ WF_vars(Tick) /\ WF_vars(Reap)
  /\ \A i \in Row : WF_vars(Process(i)) /\ WF_vars(DelayOver(i)) /\ WF_vars(Age(i))
  /\ \A c \in Caller : WF_vars(Serve(c))

-----------------------------------------------------------------------------
(* Properties *)

(* No more tasks of a group run at once than the converter has slots for.  *)
OneAtATime     == CountActive("pdf") <= 1 /\ CountActive("video") <= 1
SlotsRespected == CountActive("photo") <= PhotoParallel /\ OneAtATime

(* A task that runs is known to be running: no row is processed by two     *)
(* tasks, and none that is running waits in the queue.                     *)
RunningIsActive ==
  \A i \in Row : /\ i \in active <=> work[i].pc # "idle"
                 /\ i \in active => job[i].state \in {"processing", "gone"}

(* One PDF and one video at most are at work, and until two retries of one *)
(* failed row cross, a row that runs is known to run, by one task, and the *)
(* photos at work are no more than their slots. When they cross, the       *)
(* second retry puts the row back by its id alone (retryPreview) though a  *)
(* task is at it, and next() does not look at `active`: a second task of a *)
(* photo may follow, and the module does not tell it from the first.       *)
SlotsSound == OneAtATime /\ (doubled = {} => RunningIsActive /\ SlotsRespected)

(* A PDF that shows as done but has pages left is still in the queue:      *)
(* rebuild would not find it.                                              *)
RemainderQueued ==
  \A a \in Asset : KindOf[a] = "pdf" /\ preview[a] = "done" /\ page[a] < Pages => RowsOf(a) # {}

(* Pages of a PDF are lost that way only when clear takes the row from     *)
(* under a task, and by no order of portions, pauses, failures, retries,   *)
(* rebuilds, duplicates and restarts.                                      *)
RemainderLostToClear ==
  \A a \in Asset : KindOf[a] = "pdf" /\ preview[a] = "done" /\ page[a] < Pages
                     => RowsOf(a) # {} \/ a \in cutShort

(* enqueue: the row of an asset is one.                                    *)
OneRowPerAsset == \A a \in Asset : Cardinality(RowsOf(a)) <= 1

(* An asset whose original was uploaded is not left marked as having none  *)
(* with nobody to look again.                                              *)
Quiet == /\ active = {} /\ \A c \in Caller : call[c].pc = "idle"

UploadLooksAgain == Quiet => \A a \in Asset : raw[a] /\ preview[a] = "missing" => RowsOf(a) # {}

(* The original of an asset with a copy outside "Photos" stays.            *)
OriginalKept == [][\A a \in Asset : inFiles[a] /\ raw[a] => raw'[a]]_vars

(* A task the shutdown interrupted returns to the queue.                   *)
InterruptedReturns == \A i \in cut : job[i].state = "processing"

(* Every row leaves the queue, by a preview or as an error, and a video    *)
(* gets its turn though the photos never end.                              *)
Waits(i) == job[i].state = "pending"
Left(i)  == job[i].state \in {"gone", "failed"}
Drains   == \A i \in Row : Waits(i) ~> Left(i)

=============================================================================
