------------------------------- MODULE MCLiveWork -------------------------------
(***************************************************************************)
(* What must happen in the end, of the other parts that promise it: an     *)
(* upload, the loops of the mail, the unpacking of archives and the script *)
(* that carries archives over. They share no state; a behaviour is one of  *)
(* the `part`, and the fairness of each part is asked of its own           *)
(* behaviours only.                                                        *)
(***************************************************************************)
EXTENDS Integers, Sequences

CONSTANT NoObj

VARIABLES
  part,
  conf, row, multipart, tmp, store, lives, cur, entry, req, stale, sweeping, fails, crashes, acked, ackedParts, wrote, refused,
  box, validity, came, cursor, archive, tries, path, freshBusy, stopping, faults, peril,
  enabled, status, pass, client, taking, loop, watcher, freshClient, failures, paused, retry, stopped, troubles, toggles, cut,
  jobs, worker, cancelled, copies, queued, asks, jobTroubles, mute,
  mark, attempts, batch, ok, failed, busy, answers, outages, restarts, mixed,
  saved, sessions, late, arrived, att, run, allDone, hiccups

\* Direct uploads that report their part sizes, as the clients do, of a client that keeps trying.
Upload ==
  INSTANCE UploadSession WITH
    Req <- {"r1", "r2"}, Last <- 2, LiveObj <- {"l1", "l2"}, MaxFail <- 1, MaxCrash <- 0,
    Confs <- {[direct |-> TRUE, declared |-> TRUE, sized |-> TRUE, expect |-> "any", replace |-> rep] : rep \in BOOLEAN}

\* A letter of the history and one that comes, with failures to store them.
Fetch ==
  INSTANCE MailFetch WITH
    job <- path, Incoming <- 1..2, Day <- <<1, 2>>, Kind <- <<"plain", "plain">>, First <- 1,
    MaxTries <- 2, Gap <- 2, TailLen <- 1, PerPass <- 2, Budget <- 2, Orders <- {"falling"}, Faults <- {"ingest"}, MaxFaults <- 0

Passes ==
  INSTANCE MailPasses WITH
    Hangs <- {"imap", "store"}, Failures <- 1, Delays <- 2, MaxTroubles <- 1, MaxToggles <- 1

\* Two jobs that may end the process each time.
Unzip ==
  INSTANCE UnzipJobs WITH
    Kind <- <<"new", "broken">>, Jobs <- {1, 2}, Caller <- {"c"}, Stride <- 1, MaxRestarts <- 1,
    Troubles <- {"fail", "mute", "crash"}, MaxTroubles <- 1

\* Four letters of which one does not read, two outages and a restart.
Index ==
  INSTANCE MailIndex WITH
    up <- answers, Letters <- 1..4, Broken <- {3}, Batch <- 2, MaxTries <- 3, Outages <- 2, Restarts <- 1

\* Two archives, and everything that may go wrong, once.
Takeout ==
  INSTANCE TakeoutStream WITH
    entry <- arrived, Urls <- <<"a", "b">>, Size <- [a |-> 3, b |-> 2], Even <- {"b"}, Id <- {1, 2, 3}, Workers <- 1, MaxQueue <- 1,
    Every <- 2, MaxFails <- 2, MaxFaults <- 1,
    Faults <- {"api", "google", "norange", "cookie", "cut", "slow", "dead", "unheard", "tail", "crash"}

-----------------------------------------------------------------------------
uploadVars  == <<conf, row, multipart, tmp, store, lives, cur, entry, req, stale, sweeping, fails, crashes, acked,
                 ackedParts, wrote, refused>>
fetchVars   == <<box, validity, came, cursor, archive, tries, path, freshBusy, stopping, faults, peril>>
passesVars  == <<enabled, status, pass, client, taking, loop, watcher, freshClient, failures, paused, retry,
                 stopped, troubles, toggles, cut>>
unzipVars   == <<jobs, worker, cancelled, copies, queued, asks, jobTroubles, mute>>
indexVars   == <<mark, attempts, batch, ok, failed, busy, answers, outages, restarts, mixed>>
takeoutVars == <<saved, sessions, late, arrived, att, run, allDone, hiccups>>

Init ==
  /\ part \in {"upload", "fetch", "passes", "unzip", "index", "takeout"}
  /\ Upload!Init /\ (part = "upload" \/ (conf.replace /\ cur = "l1"))
  /\ Fetch!FetchInit /\ Passes!MInit /\ Unzip!UInit /\ Index!XInit /\ Takeout!TInit

OthersStay ==
  /\ UNCHANGED part
  /\ part # "upload" => UNCHANGED uploadVars
  /\ part # "fetch" => UNCHANGED fetchVars
  /\ part # "passes" => UNCHANGED passesVars
  /\ part # "unzip" => UNCHANGED unzipVars
  /\ part # "index" => UNCHANGED indexVars
  /\ part # "takeout" => UNCHANGED takeoutVars

Next ==
  /\ \/ part = "upload" /\ Upload!NextAlone
     \/ part = "fetch" /\ Fetch!FetchNext
     \/ part = "passes" /\ Passes!MNext
     \/ part = "unzip" /\ Unzip!UNext
     \/ part = "index" /\ Index!XNext
     \/ part = "takeout" /\ Takeout!TNext
  /\ OthersStay

FairSpec ==
  /\ Init
  /\ [][Next]_<<part, uploadVars, fetchVars, passesVars, unzipVars, indexVars, takeoutVars>>
  /\ \A r \in {"r1", "r2"} : WF_uploadVars(part = "upload" /\ Upload!Handle(r)) /\ WF_uploadVars(part = "upload" /\ Upload!Ask(r))
  /\ WF_fetchVars(part = "fetch" /\ Fetch!PassStep) /\ WF_fetchVars(part = "fetch" /\ Fetch!Steps("fresh"))
  /\ WF_passesVars(part = "passes" /\ Passes!PassOff) /\ WF_passesVars(part = "passes" /\ Passes!PassOn)
  /\ WF_passesVars(part = "passes" /\ Passes!PassSkipped) /\ WF_passesVars(part = "passes" /\ Passes!Abort)
  /\ \A p \in {"cur", "old", "older"} : WF_passesVars(part = "passes" /\ Passes!PassStep(p))
  /\ WF_passesVars(part = "passes" /\ Passes!LoopStep) /\ WF_passesVars(part = "passes" /\ Passes!PauseOver)
  /\ WF_passesVars(part = "passes" /\ stopped /\ Passes!NextProcess)
  /\ WF_unzipVars(part = "unzip" /\ Unzip!WorkerStep)
  /\ WF_indexVars(part = "index" /\ Index!XStep) /\ WF_indexVars(part = "index" /\ Index!StoreBack)
  /\ WF_takeoutVars(part = "takeout" /\ Takeout!Turn)
  /\ \A u \in {"a", "b"} : WF_takeoutVars(part = "takeout" /\ Takeout!Smooth(u))
  /\ \A i \in 1..3 : WF_takeoutVars(part = "takeout" /\ Takeout!SweepSession(i))

-----------------------------------------------------------------------------
\* What each part owes, and what it owes it with: an upload of a client that keeps trying is accepted; every letter that
\* stays in the box is stored or given up, unless one of the events of SlipsOnlyInPeril happened; the status of an account
\* does not stay "syncing"; a job of an archive ends; every letter that reads gets its text; the script carries all over.
Owed ==
  \/ part \in {"upload", "fetch", "index", "takeout"}
  \/ part = "passes" /\ status = "syncing" /\ enabled
  \/ part = "unzip" /\ \E j \in {1, 2} : Unzip!Runs(j)

Done ==
  \/ part = "upload" /\ acked
  \/ part = "fetch" /\ Fetch!AllTaken
  \/ part = "index" /\ Index!SoundMarked
  \/ part = "takeout" /\ allDone
  \/ part = "passes" /\ (status # "syncing" \/ ~enabled)
  \/ part = "unzip" /\ \A j \in {1, 2} : Unzip!Runs(j) => Unzip!Ends(j)

WorkEnds == Owed ~> Done

\* New letters of a folder are taken again and again, and an account turned off for good is left with no connection.
MailLetsGo ==
  /\ (part = "passes" /\ taking # "none") ~> (part = "passes" /\ Passes!FolderIsFree)
  /\ <>[](part = "passes" /\ Passes!Off) => <>[](Passes!Left)
=============================================================================
