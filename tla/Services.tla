------------------------------ MODULE Services ------------------------------
(***************************************************************************)
(* Services that share no state with each other, side by side: the passes  *)
(* over a mailbox, the index of its letters, unpacking, sessions and       *)
(* system folders, the script of the archives, the sweeps of the bucket,   *)
(* the icons and the agents. A behaviour is one of the `part`.             *)
(***************************************************************************)
EXTENDS Integers, Sequences, FiniteSets

CONSTANTS
  Hangs, Failures, Delays, MaxTroubles, MaxToggles,                      \* MailPasses
  Letters, Broken, Batch, MaxTries, Outages, Restarts,                   \* MailIndex
  Kind, Jobs, OddKind, OddJobs, Caller, Stride, MaxRestarts, Mishaps, MaxMishaps,  \* UnzipJobs, two archives
  Device, Logins, MaxSessions,                                           \* Sessions
  Asker, MaxFolders, MaxEnds,                                            \* SystemFolders
  Urls, Size, Even, Id, Workers, MaxQueue, Every, MaxFails, Faults, MaxFaults,     \* TakeoutStream
  Sha, Zones, Zombies, Strangers, MaxUploads, MaxSweeps,                 \* BucketSweep
  Proc, Site, Links, MaxConcurrent, MaxGets, MaxHiccups, MaxDays,        \* FaviconCache
  Session, Call, MaxAsked, MaxTurns, MaxParallel                         \* AgentBridge

\* The limits are numbers, and so are sessions and the ids of upload sessions. The members of an
\* archive are of the kinds ZipReader tells apart; an archive of Takeout has a length; a content
\* belongs to some zones, and an object of somebody else has a kind, a key and an age.
ASSUME ServicesAssumption ==
  /\ {MaxTries, MaxSessions, MaxConcurrent, MaxParallel} \subseteq Nat
  /\ Logins \subseteq Nat \ {0}
  /\ {Kind, OddKind} \subseteq Seq({"new", "held", "alike", "broken", "sealed"})
  /\ MaxQueue \in Nat \ {0} /\ Id \subseteq Nat \ {0} /\ \A k \in DOMAIN Urls : Size[Urls[k]] \in Nat
  /\ Zones \in [Sha -> SUBSET {"photos", "files"}]
  /\ \A o \in Strangers : o \in [kind : {o.kind}, sha : {o.sha}, old : {o.old}]

VARIABLES
  part,
  enabled, status, pass, client, taking, loop, watcher, freshClient, failures, paused, retry,
  stopped, troubles, toggles, cut,
  mark, attempts, batch, ok, failed, indexing, up, outages, restarts, mixed,
  jobs, worker, cancelled, copies, queued, asks, jobTroubles, mute,
  sessions, cookie, login, made, ended, overtaken,
  seed, folders, owner, need, ends, crossed,
  saved, parcels, late, entry, att, run, allDone, hiccups,
  bucket, row, zones, meta, upload, uploads, sweep, sweeps, purge, raced, zoned, collected, purged,
  cache, active, waiting, proc, cleaned, gets, misses, days,
  busy, turns, asked, number, running, finished, applied, newest, worked, passed, call, transcribing

Passes   == INSTANCE MailPasses
Index    == INSTANCE MailIndex WITH busy <- indexing
UnzipOf(kinds, ids) ==
  INSTANCE UnzipJobs WITH Kind <- kinds, Jobs <- ids, Troubles <- Mishaps, MaxTroubles <- MaxMishaps
Sess     == INSTANCE Sessions
Sys      == INSTANCE SystemFolders WITH Caller <- Asker
Takeout  == INSTANCE TakeoutStream WITH sessions <- parcels
Sweeps   == INSTANCE BucketSweep WITH crossed <- zoned
Icons    == INSTANCE FaviconCache WITH hiccups <- misses
Agents   == INSTANCE AgentBridge WITH overtaken <- passed

passesVars  == <<enabled, status, pass, client, taking, loop, watcher, freshClient, failures, paused, retry,
                 stopped, troubles, toggles, cut>>
indexVars   == <<mark, attempts, batch, ok, failed, indexing, up, outages, restarts, mixed>>
unzipVars   == <<jobs, worker, cancelled, copies, queued, asks, jobTroubles, mute>>
sessVars    == <<sessions, cookie, login, made, ended, overtaken>>
sysVars     == <<seed, folders, owner, need, ends, crossed>>
takeoutVars == <<saved, parcels, late, entry, att, run, allDone, hiccups>>
sweepVars   == <<bucket, row, zones, meta, upload, uploads, sweep, sweeps, purge, raced, zoned, collected, purged>>
iconVars    == <<cache, active, waiting, proc, cleaned, gets, misses, days>>
agentVars   == <<busy, turns, asked, number, running, finished, applied, newest, worked, passed, call, transcribing>>

\* A part that a behaviour is not of is left out of its states.
NoPasses ==
  /\ enabled = "away" /\ status = "away" /\ pass = "away" /\ client = "away" /\ taking = "away"
  /\ loop = "away" /\ watcher = "away" /\ freshClient = "away" /\ failures = "away" /\ paused = "away"
  /\ retry = "away" /\ stopped = "away" /\ troubles = "away" /\ toggles = "away" /\ cut = "away"
NoIndex ==
  /\ mark = "away" /\ attempts = "away" /\ batch = "away" /\ ok = "away" /\ failed = "away" /\ indexing = "away"
  /\ up = "away" /\ outages = "away" /\ restarts = "away" /\ mixed = "away"
NoUnzip ==
  /\ jobs = "away" /\ worker = "away" /\ cancelled = "away" /\ copies = "away" /\ queued = "away"
  /\ asks = "away" /\ jobTroubles = "away" /\ mute = "away"
NoSessions ==
  /\ sessions = "away" /\ cookie = "away" /\ login = "away" /\ made = "away" /\ ended = "away" /\ overtaken = "away"
NoFolders ==
  /\ seed = "away" /\ folders = "away" /\ owner = "away" /\ need = "away" /\ ends = "away" /\ crossed = "away"
NoTakeout ==
  /\ saved = "away" /\ parcels = "away" /\ late = "away" /\ entry = "away" /\ att = "away" /\ run = "away"
  /\ allDone = "away" /\ hiccups = "away"
NoSweeps ==
  /\ bucket = "away" /\ row = "away" /\ zones = "away" /\ meta = "away" /\ upload = "away" /\ uploads = "away"
  /\ sweep = "away" /\ sweeps = "away" /\ purge = "away" /\ raced = "away" /\ zoned = "away"
  /\ collected = "away" /\ purged = "away"
NoIcons ==
  /\ cache = "away" /\ active = "away" /\ waiting = "away" /\ proc = "away" /\ cleaned = "away"
  /\ gets = "away" /\ misses = "away" /\ days = "away"
NoAgents ==
  /\ busy = "away" /\ turns = "away" /\ asked = "away" /\ number = "away" /\ running = "away"
  /\ finished = "away" /\ applied = "away" /\ newest = "away" /\ worked = "away" /\ passed = "away"
  /\ call = "away" /\ transcribing = "away"

Init ==
  /\ part \in {"passes", "index", "unzip", "odd", "sessions", "folders", "takeout", "sweeps", "icons", "polls", "relay"}
  /\ IF part = "passes" THEN Passes!MInit ELSE NoPasses
  /\ IF part = "index" THEN Index!XInit ELSE NoIndex
  /\ CASE part = "unzip" -> UnzipOf(Kind, Jobs)!UInit
       [] part = "odd"   -> UnzipOf(OddKind, OddJobs)!UInit
       [] OTHER          -> NoUnzip
  /\ IF part = "sessions" THEN Sess!SInit ELSE NoSessions
  /\ IF part = "folders" THEN Sys!FInit ELSE NoFolders
  /\ IF part = "takeout" THEN Takeout!TInit ELSE NoTakeout
  /\ IF part = "sweeps" THEN Sweeps!BInit ELSE NoSweeps
  /\ IF part = "icons" THEN Icons!FInit ELSE NoIcons
  /\ IF part \in {"polls", "relay"} THEN Agents!AInit ELSE NoAgents

Next ==
  /\ \/ part = "passes" /\ Passes!MNext
     \/ part = "index" /\ Index!XNext
     \/ part = "unzip" /\ UnzipOf(Kind, Jobs)!UNext
     \/ part = "odd" /\ UnzipOf(OddKind, OddJobs)!UNext
     \/ part = "sessions" /\ Sess!SNext
     \/ part = "folders" /\ Sys!FNext
     \/ part = "takeout" /\ Takeout!TNext
     \/ part = "sweeps" /\ Sweeps!BNext
     \/ part = "icons" /\ Icons!FNext
     \/ part = "polls" /\ Agents!PollNext
     \/ part = "relay" /\ Agents!RelayNext
  /\ UNCHANGED part
  /\ part # "passes" => UNCHANGED passesVars
  /\ part # "index" => UNCHANGED indexVars
  /\ part \notin {"unzip", "odd"} => UNCHANGED unzipVars
  /\ part # "sessions" => UNCHANGED sessVars
  /\ part # "folders" => UNCHANGED sysVars
  /\ part # "takeout" => UNCHANGED takeoutVars
  /\ part # "sweeps" => UNCHANGED sweepVars
  /\ part # "icons" => UNCHANGED iconVars
  /\ part \notin {"polls", "relay"} => UNCHANGED agentVars

vars ==
  <<part, passesVars, indexVars, unzipVars, sessVars, sysVars, takeoutVars, sweepVars, iconVars, agentVars>>

Spec == Init /\ [][Next]_vars

-----------------------------------------------------------------------------
\* One path at a time takes the new letters of a folder, the given-up pass included.
OneTakesNew == part = "passes" => Passes!OneTakesNew

\* An outage of the text search buries no letter.
OutageBuriesNone == part = "index" => Index!OutageBuriesNone

\* A job that is done has all its members in the tree, and no member of an archive comes twice.
UnzipSound ==
  /\ part = "unzip" => UnzipOf(Kind, Jobs)!DoneIsWhole /\ UnzipOf(Kind, Jobs)!NeverTwice
  /\ part = "odd" => UnzipOf(OddKind, OddJobs)!DoneIsWhole /\ UnzipOf(OddKind, OddJobs)!NeverTwice

\* No more sessions than the cap between logins, and a login that was answered stays good; of the system folders there
\* is one of each kind in use, the one the owner's row names is living, and no file vanishes in a hidden one.
AccountSound ==
  /\ part = "sessions" => Sess!CapKept /\ Sess!LoginStays
  /\ part = "folders" => Sys!OneOfEach /\ Sys!NamedIsLiving /\ Sys!FilesStayInSight

\* What the script of the archives carries over arrives whole, and neither end of its conveyor sleeps in vain.
CarrySound == part = "takeout" => Takeout!CarriedWhole /\ Takeout!NobodySleepsInVain

\* The sweep of the bucket and the purge of the photos spare what is in use.
BucketSound == part = "sweeps" => Sweeps!SweepSparesRows /\ Sweeps!PurgeSparesOthers

\* The slots of the fetches of icons are counted right; the snapshot of who works is the newest answer; a call to an
\* agent is told what happened to it, and its place becomes free.
CallsSound ==
  /\ part = "icons" => Icons!SlotsAreCounted
  /\ part \in {"polls", "relay"} => Agents!SnapshotIsSound /\ Agents!RelayIsTrue
=============================================================================
