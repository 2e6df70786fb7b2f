---------------------------- MODULE BucketSweep ----------------------------
(***************************************************************************)
(* The two scripts that clean up behind the service's back while it goes   *)
(* on working: deploy/scripts/sweep-orphans.mjs, which deletes from the    *)
(* bucket what no Asset row refers to, and deploy/scripts/purge-media.mjs, *)
(* which empties the zone of photos and leaves the rows and the objects.   *)
(*                                                                         *)
(* An object of the bucket is [kind, sha, old]; old means older than the   *)
(* age below which the sweep leaves an object alone.                       *)
(***************************************************************************)
EXTENDS Integers, FiniteSets

CONSTANTS
  Sha,        \* contents
  Zones,      \* what the tree starts with: Zones[s] is the set of zones of the entries of s
  Zombies,    \* contents whose objects lie in the bucket with no row
  Strangers,  \* objects that are not the service's own: dumps, another instance's, unknown keys
  MaxUploads, MaxSweeps   \* bounds

VARIABLES
  bucket,     \* the objects
  row,        \* contents with an Asset row
  zones,      \* zones[s]: the zones of the entries of s
  meta,       \* contents whose EXIF and preview state are kept
  upload,     \* content -> how far an upload of it is: "none", "placed", "rowed"
  uploads,    \* how many there have been
  sweep,      \* the sweep: [pc, known, list], list being the objects it is about to delete
  sweeps,     \* how many there have been
  purge,      \* the purge: [pc, seen, only]
  raced,      \* history: contents an upload took over an old object of while a sweep was about to delete it
  crossed,    \* history: contents that came into another zone while a purge had them for photos only
  collected,  \* history: contents whose rows the service collected
  purged      \* history: contents the purge took the entries of

Own(k, s, age) == [kind |-> k, sha |-> s, old |-> age]
Originals == {o \in bucket : o.kind = "files"}

BInit ==
  /\ bucket = [kind : {"files", "view"}, sha : {s \in Sha : Zones[s] # {}} \cup Zombies, old : {TRUE}] \cup Strangers
  /\ row = {s \in Sha : Zones[s] # {}} /\ meta = row
  /\ zones = Zones
  /\ upload = [s \in Sha |-> "none"] /\ uploads = 0
  /\ sweep = [pc |-> "off", known |-> {}, list |-> {}] /\ sweeps = 0
  /\ purge = [pc |-> "off", seen |-> {}, only |-> {}]
  /\ raced = {} /\ crossed = {} /\ collected = {} /\ purged = {}

-----------------------------------------------------------------------------
(* The service goes on: an upload puts the original in its place unless    *)
(* one is there already, however old, then makes the row, then the entry   *)
(* and what is known of a photo (captureAny).                              *)
Place(s) ==
  /\ upload[s] = "none" /\ uploads < MaxUploads
  /\ uploads' = uploads + 1
  /\ upload' = [upload EXCEPT ![s] = "placed"]
  /\ bucket' = IF s \in row \/ \E o \in Originals : o.sha = s THEN bucket ELSE bucket \cup {Own("files", s, FALSE)}
  /\ UNCHANGED <<row, zones, meta, sweep, sweeps, purge, raced, crossed, collected, purged>>

MakeRow(s) ==
  /\ upload[s] = "placed"
  /\ upload' = [upload EXCEPT ![s] = "rowed"]
  /\ row' = row \cup {s}
  /\ raced' = IF s \notin row /\ sweep.pc = "delete" /\ \E o \in sweep.list : o.sha = s /\ o.old THEN raced \cup {s} ELSE raced
  /\ UNCHANGED <<bucket, zones, meta, uploads, sweep, sweeps, purge, crossed, collected, purged>>

MakeEntry(s, z) ==
  /\ upload[s] = "rowed" /\ s \in row
  /\ upload' = [upload EXCEPT ![s] = "none"]
  /\ zones' = [zones EXCEPT ![s] = @ \cup {z}] /\ meta' = meta \cup {s}
  /\ crossed' = IF s \in purge.only /\ z # "photos" THEN crossed \cup {s} ELSE crossed
  /\ UNCHANGED <<bucket, row, uploads, sweep, sweeps, purge, raced, collected, purged>>

\* TrashService.sweepOrphanAssets with files.gcOrphanAssets: a row nothing refers to goes, and its objects with it.
CollectRow(s) ==
  /\ s \in row /\ zones[s] = {} /\ upload[s] = "none"
  /\ row' = row \ {s} /\ meta' = meta \ {s}
  /\ bucket' = {o \in bucket : o.sha # s}
  /\ collected' = collected \cup {s}
  /\ UNCHANGED <<zones, upload, uploads, sweep, sweeps, purge, raced, crossed, purged>>

\* A day goes by; neither an upload nor a sweep takes that long.
Day ==
  /\ sweep.pc = "off" /\ \A s \in Sha : upload[s] = "none"
  /\ \E o \in bucket : ~o.old
  /\ bucket' = {[o EXCEPT !.old = TRUE] : o \in bucket}
  /\ UNCHANGED <<row, zones, meta, upload, uploads, sweep, sweeps, purge, raced, crossed, collected, purged>>

-----------------------------------------------------------------------------
(* sweep-orphans: the rows are read, then the bucket is listed page by     *)
(* page, then the rows of what would go are read again. With no row at all *)
(* it takes the database for a wrong one and stops.                        *)
ReadKnown ==
  /\ sweep.pc = "off" /\ sweeps < MaxSweeps /\ row # {}
  /\ sweep' = [pc |-> "list", known |-> row, list |-> {}]
  /\ sweeps' = sweeps + 1
  /\ UNCHANGED <<bucket, row, zones, meta, upload, uploads, purge, raced, crossed, collected, purged>>

OrphanAnyAge(o) == o.kind \in {"files", "view"} /\ o.sha \notin sweep.known
Orphan(o) ==
  \/ o.kind = "tmp" /\ o.old
  \/ o.kind \in {"files", "view"} /\ o.old /\ o.sha \notin sweep.known

ListBucket ==
  /\ sweep.pc = "list"
  /\ sweep' = [sweep EXCEPT !.pc = "recheck", !.list = {o \in bucket : Orphan(o)}]
  /\ UNCHANGED <<bucket, row, zones, meta, upload, uploads, sweeps, purge, raced, crossed, collected, purged>>

AppearedNone(o) == FALSE
Appeared(o) == o.kind # "tmp" /\ o.sha \in row

Recheck ==
  /\ sweep.pc = "recheck"
  /\ sweep' = [sweep EXCEPT !.pc = "delete", !.list = {o \in @ : ~Appeared(o)}]
  /\ UNCHANGED <<bucket, row, zones, meta, upload, uploads, sweeps, purge, raced, crossed, collected, purged>>

\* A batch goes; the keys S3 could not delete stay in the bucket and are only told of.
DeleteBatch ==
  /\ sweep.pc = "delete"
  /\ IF sweep.list = {}
       THEN sweep' = [sweep EXCEPT !.pc = "off"] /\ UNCHANGED <<bucket, raced>>
       ELSE \E batch \in SUBSET sweep.list \ {{}} :
              /\ sweep' = [sweep EXCEPT !.list = @ \ batch]
              /\ raced' = raced \cup {o.sha : o \in {b \in batch : b.old /\ b.kind = "files" /\ upload[b.sha] = "placed"}}
              /\ \E refused \in {{}, batch} : bucket' = bucket \ {o \in bucket : \E b \in batch \ refused :
                                                                   b.kind = o.kind /\ b.sha = o.sha}
  /\ UNCHANGED <<row, zones, meta, upload, uploads, sweeps, purge, crossed, collected, purged>>

-----------------------------------------------------------------------------
(* purge-media: which contents have no entry but photos is found out       *)
(* before the transaction that removes the entries and forgets what was    *)
(* known of those contents.                                                *)
LookPurge ==
  /\ purge.pc = "off"
  /\ LET seen == {s \in Sha : "photos" \in zones[s]} IN
       purge' = [pc |-> "commit", seen |-> seen, only |-> {s \in seen : zones[s] = {"photos"}}]
  /\ UNCHANGED <<bucket, row, zones, meta, upload, uploads, sweep, sweeps, raced, crossed, collected, purged>>

ForgottenSeen(p) == p.seen
Forgotten(p) == p.only

CommitPurge ==
  /\ purge.pc = "commit"
  /\ zones' = [s \in Sha |-> zones[s] \ {"photos"}]
  /\ meta' = meta \ Forgotten(purge)
  /\ purged' = purged \cup {s \in Sha : "photos" \in zones[s]}
  /\ purge' = [pc |-> "done", seen |-> {}, only |-> {}]
  /\ UNCHANGED <<bucket, row, upload, uploads, sweep, sweeps, raced, crossed, collected>>

BNext ==
  \/ \E s \in Sha : Place(s) \/ MakeRow(s) \/ CollectRow(s) \/ \E z \in {"photos", "files"} : MakeEntry(s, z)
  \/ Day \/ ReadKnown \/ ListBucket \/ Recheck \/ DeleteBatch \/ LookPurge \/ CommitPurge

bvars == <<bucket, row, zones, meta, upload, uploads, sweep, sweeps, purge, raced, crossed, collected, purged>>

BSpec == BInit /\ [][BNext]_bvars

-----------------------------------------------------------------------------
(* The sweep takes the original of a content with a row only when an old   *)
(* object of a forgotten content was taken over by a new upload whose row  *)
(* came after the last look; the age it waits for does not cover that      *)
(* (uploads.service copies nothing when the object is there).              *)
SweepSparesRows == \A s \in row \ raced : \E o \in Originals : o.sha = s

(* What is still seen in another zone keeps what is known of it, and the   *)
(* photos' own originals stay - until the service's own collection of rows *)
(* without entries comes by, an hour later.                                *)
PurgeSparesOthers ==
  /\ \A s \in Sha \ crossed : "files" \in zones[s] => s \in meta
  /\ \A s \in purged \ (collected \cup raced) : \E o \in Originals : o.sha = s

(* What the head of purge-media.mjs says of the photos' originals.         *)
OriginalsStay == \A s \in purged \ raced : \E o \in Originals : o.sha = s
=============================================================================
