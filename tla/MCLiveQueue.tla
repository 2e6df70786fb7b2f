------------------------------ MODULE MCLiveQueue ------------------------------
(***************************************************************************)
(* What must happen in the end, of the queue of the previews (JobQueue)    *)
(* and of the rows of the content store (ContentStore). They share no      *)
(* state; a behaviour is one of the `part`, and the fairness of each is    *)
(* asked of its own behaviours only.                                       *)
(***************************************************************************)
EXTENDS Integers

CONSTANT None

VARIABLES
  part,
  rows, shaOf, live, trash, nameOf, assetOf, objects, pending, aged, up, gc, fl, straddled, excused,
  preview, raw, page, inFiles, job, created, old, overdue, delayed, active, work, tick, free, halted, ending, killed, call,
  spoilt, starts, cutShort, doubled

\* Two uploads that replace each other, and a sweep; no process ends.
Store ==
  INSTANCE ContentStore WITH
    Sha <- {"s1", "s2"}, Name <- {"n"}, EntryId <- {"e1"}, AssetId <- {"a1", "a2"}, Uploader <- {"u1", "u2"},
    Purger <- {}, Sweeper <- {"w1"}, Flusher <- {}, Policies <- {{"replace", "restoreDeleted"}}

\* A photo that fails and is retried for ever, a video, lost writes and transient failures.
Queue ==
  INSTANCE JobQueue WITH
    aged <- old, paused <- halted, stopped <- ending, cut <- killed, fails <- spoilt, restarts <- starts,
    Asset <- {"p", "v"}, KindOf <- [p |-> "photo", v |-> "video"], Bad <- {"p"},
    PhotoParallel <- 1, VideoAlongside <- FALSE, KeepOriginals <- TRUE, Pages <- 2, PagesPerJob <- 1, MaxAttempts <- 2,
    Caller <- {"c"}, Ops <- {"enqueue", "retryErrors"}, MaxJobs <- 2, MaxFail <- 1, MaxRestart <- 0

-----------------------------------------------------------------------------
storeVars == <<rows, shaOf, live, trash, nameOf, assetOf, objects, pending, aged, up, gc, fl, straddled, excused>>
queueVars == <<preview, raw, page, inFiles, job, created, old, overdue, delayed, active, work, tick, free, halted,
               ending, killed, call, spoilt, starts, cutShort, doubled>>

Init == part \in {"store", "queue"} /\ Store!Init /\ Queue!Init

Next ==
  \/ part = "store" /\ Store!NextUp /\ UNCHANGED <<part, queueVars>>
  \/ part = "queue" /\ Queue!Next /\ UNCHANGED <<part, storeVars>>

FairSpec ==
  /\ Init /\ [][Next]_<<part, storeVars, queueVars>>
  /\ \A u \in {"u1", "u2"} : WF_storeVars(part = "store" /\ Store!UploadStep(u))
  /\ WF_storeVars(part = "store" /\ Store!CollectStep("w1"))
  /\ \A a \in {"a1", "a2"} : WF_storeVars(part = "store" /\ Store!GrowOld(a))
  /\ WF_queueVars(part = "queue" /\ Queue!Tick) /\ WF_queueVars(part = "queue" /\ Queue!Reap)
  /\ \A i \in 1..2 : /\ WF_queueVars(part = "queue" /\ Queue!Process(i))
                    /\ WF_queueVars(part = "queue" /\ Queue!DelayOver(i))
                    /\ WF_queueVars(part = "queue" /\ Queue!Age(i))
  /\ WF_queueVars(part = "queue" /\ Queue!Serve("c"))

-----------------------------------------------------------------------------
\* A row that waits, the k-th of the queue or of the assets of the store.
Owed(k) ==
  \/ part = "queue" /\ Queue!Waits(k)
  \/ part = "store" /\ Store!Orphan(<<"a1", "a2">>[k])

Settled(k) ==
  \/ part = "queue" /\ Queue!Left(k)
  \/ part = "store" /\ ~Store!Orphan(<<"a1", "a2">>[k])

\* Every row leaves the queue by a preview or as an error, a video's too though the photos never end; a row of the store
\* that no entry references goes or is referenced again.
RowsSettle == \A k \in 1..2 : Owed(k) ~> Settled(k)
=============================================================================
