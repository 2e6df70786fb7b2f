---------------------------- MODULE ContentStore ----------------------------
(***************************************************************************)
(* The content-addressed store of the server: Asset rows in Postgres,      *)
(* objects files/<sha> in S3, the tree entries that reference the rows,    *)
(* and the collectors that remove what nothing references any more.        *)
(*                                                                         *)
(* Three kinds of process interleave between their awaits:                 *)
(*   - uploaders: the tail of UploadsService.complete, DavService.put and  *)
(*     the unzip importer (find the asset, place the object, create the    *)
(*     row, write the entry, collect the content the entry had before);    *)
(*   - collectors: TrashService.purge and sweepOrphanAssets, which delete  *)
(*     rows and put their objects on the in-memory deletion list;          *)
(*   - flushers: FilesService.flushOrphanObjects, called by a timer and by *)
(*     RetentionService, which deletes the listed objects from S3.         *)
(* One database statement, one transaction or one S3 request is one step.  *)
(***************************************************************************)
EXTENDS Naturals

CONSTANTS
  Sha,        \* contents, named by their SHA-256
  Name,       \* names in the one folder the model looks at
  EntryId,    \* ids of FileEntry rows; never reused
  AssetId,    \* ids of Asset rows; never reused
  Uploader,   \* requests that store a content under a name
  Purger,     \* TrashService.purge calls (a user's request or retention)
  Sweeper,    \* sweepOrphanAssets passes (retention's timer)
  Flusher,    \* flushOrphanObjects passes
  Policies,   \* sets of CreateEntryOptions flags the callers pass
  None

ASSUME NoneAssumption == None \notin Sha \cup Name \cup EntryId \cup AssetId

ASSUME PoliciesAssumption == Policies \subseteq SUBSET {"replace", "restoreDeleted"}

ASSUME RolesAssumption == Purger \cap Sweeper = {}

Collector == Purger \cup Sweeper

VARIABLES
  rows,       \* Asset rows present
  shaOf,      \* AssetId -> its sha256, None while the id is unused
  live,       \* entries with deletedAt = null
  trash,      \* entries with deletedAt set
  nameOf,     \* EntryId -> name, None while the id is unused
  assetOf,    \* EntryId -> the Asset row it references
  objects,    \* shas whose object files/<sha> is in the bucket
  pending,    \* pendingObjectDeletion: "none", "wait" (grace), "due"
  aged,       \* rows created more than ORPHAN_MIN_AGE_MS ago
  up, gc, fl, \* the processes
  straddled,  \* history: shas whose upload crossed a flusher's last window
  excused     \* history: objects the code leaves to sweep-orphans.mjs

db    == <<rows, shaOf, live, trash, nameOf, assetOf>>
ghost == <<straddled, excused>>
vars  == <<rows, shaOf, live, trash, nameOf, assetOf, objects, pending, aged,
           up, gc, fl, straddled, excused>>

-----------------------------------------------------------------------------
(* State functions *)

Entries       == live \cup trash
RowsOf(s)     == {a \in rows : shaOf[a] = s}
Referenced(a) == \E e \in Entries : assetOf[e] = a
EntriesAt(n)  == {e \in Entries : nameOf[e] = n}

IdleUpload  == [pc |-> "idle", sha |-> None, name |-> None, opts |-> {},
                asset |-> None, created |-> FALSE, seen |-> None, was |-> "none",
                prev |-> None]
IdleCollect == [pc |-> "idle", ids |-> {}, assets |-> {}]
IdleFlush   == [pc |-> "idle", due |-> {}, absent |-> {}]

UploadPC  == {"idle", "find", "place", "ensure", "read", "commit", "gc"}
CollectPC == {"idle", "tx", "find", "delete"}
FlushPC   == {"idle", "pause", "delete"}

(* A busy upload has its content, and past the lookup its asset. *)
UploadRec ==
  {r \in [pc : UploadPC, sha : Sha \cup {None}, name : Name \cup {None},
          opts : Policies \cup {{}}, asset : AssetId \cup {None}, created : BOOLEAN,
          seen : EntryId \cup {None}, was : {"none", "live", "trash"}, prev : AssetId \cup {None}] :
     /\ r.pc # "idle" => r.sha \in Sha
     /\ r.pc \in {"read", "commit", "gc"} => r.asset # None
     /\ r.created => r.pc \in {"read", "commit", "gc"}}

CollectRec == [pc : CollectPC, ids : SUBSET EntryId, assets : SUBSET AssetId]

FlushRec == [pc : FlushPC, due : SUBSET Sha, absent : SUBSET Sha]

TypeOK ==
  /\ rows \subseteq AssetId
  /\ shaOf \in [AssetId -> Sha \cup {None}]
  /\ live \subseteq EntryId
  /\ trash \subseteq EntryId
  /\ nameOf \in [EntryId -> Name \cup {None}]
  /\ assetOf \in [EntryId -> AssetId \cup {None}]
  /\ \A e \in Entries : assetOf[e] \in AssetId
  /\ objects \subseteq Sha
  /\ pending \in [Sha -> {"none", "wait", "due"}]
  /\ aged \subseteq AssetId
  /\ up \in [Uploader -> UploadRec]
  /\ gc \in [Collector -> CollectRec]
  /\ fl \in [Flusher -> FlushRec]
  /\ straddled \subseteq Sha
  /\ excused \subseteq Sha

Init ==
  /\ rows = {} /\ shaOf = [a \in AssetId |-> None]
  /\ live = {} /\ trash = {}
  /\ nameOf = [e \in EntryId |-> None]
  /\ assetOf = [e \in EntryId |-> None]
  /\ objects = {} /\ pending = [s \in Sha |-> "none"] /\ aged = {}
  /\ up = [u \in Uploader |-> IdleUpload]
  /\ gc = [c \in Collector |-> IdleCollect]
  /\ fl = [f \in Flusher |-> IdleFlush]
  /\ straddled = {} /\ excused = {}

-----------------------------------------------------------------------------
(* Uploaders *)

(* The bytes are in a temporary object and their hash is known. *)
Begin(u) ==
  /\ up[u].pc = "idle"
  /\ \E s \in Sha, n \in Name, o \in Policies :
       up' = [up EXCEPT ![u] = [IdleUpload EXCEPT !.pc = "find", !.sha = s,
                                                  !.name = n, !.opts = o]]
  /\ UNCHANGED <<db, objects, pending, aged, gc, fl, ghost>>

(* Mutant: the asset that was found is not kept. *)
FindAssetForgets(u) ==
  /\ up[u].pc = "find"
  /\ up' = [up EXCEPT ![u].pc = IF RowsOf(up[u].sha) # {} THEN "read" ELSE "place"]
  /\ UNCHANGED <<db, objects, pending, aged, gc, fl, ghost>>

(* asset.findUnique: a known content goes straight to the entry. *)
FindAsset(u) ==
  /\ up[u].pc = "find"
  /\ \/ \E a \in RowsOf(up[u].sha) :
          up' = [up EXCEPT ![u] = [@ EXCEPT !.pc = "read", !.asset = a]]
     \/ /\ RowsOf(up[u].sha) = {}
        /\ up' = [up EXCEPT ![u].pc = "place"]
  /\ UNCHANGED <<db, objects, pending, aged, gc, fl, ghost>>

(* HEAD files/<sha>, and the server-side copy when it is not there: either *)
(* way the object exists when the step ends.                               *)
PlaceObject(u) ==
  /\ up[u].pc = "place"
  /\ objects' = objects \cup {up[u].sha}
  /\ up' = [up EXCEPT ![u].pc = "ensure"]
  /\ UNCHANGED <<db, pending, aged, gc, fl, ghost>>

(* Between its second check and its delete a flusher no longer looks at    *)
(* the table: s is in the window of one that is there.                     *)
InLastWindow(s) == \E f \in Flusher : fl[f].pc = "delete" /\ s \in fl[f].due \cap fl[f].absent

(* FilesService.ensureAsset: the row of this content, created when there   *)
(* is none; losing the race on the unique sha256 returns the winner's row. *)
EnsureAsset(u) ==
  LET s == up[u].sha IN
  /\ up[u].pc = "ensure"
  /\ \/ \E a \in RowsOf(s) :
          /\ up' = [up EXCEPT ![u] = [@ EXCEPT !.pc = "read", !.asset = a]]
          /\ UNCHANGED <<rows, shaOf, straddled>>
     \/ /\ RowsOf(s) = {}
        /\ \E a \in AssetId :
             /\ shaOf[a] = None
             /\ rows' = rows \cup {a}
             /\ shaOf' = [shaOf EXCEPT ![a] = s]
             /\ up' = [up EXCEPT ![u] = [@ EXCEPT !.pc = "read", !.asset = a, !.created = TRUE]]
        /\ straddled' = IF InLastWindow(s) THEN straddled \cup {s} ELSE straddled
  /\ UNCHANGED <<live, trash, nameOf, assetOf, objects, pending, aged, gc, fl, excused>>

(* createEntry reads the entry with this name before its transaction.      *)
ReadEntry(u) ==
  /\ up[u].pc = "read"
  /\ \/ \E e \in EntriesAt(up[u].name) :
          up' = [up EXCEPT ![u] = [@ EXCEPT !.pc = "commit", !.seen = e, !.prev = assetOf[e],
                                     !.was = IF e \in trash THEN "trash" ELSE "live"]]
     \/ /\ EntriesAt(up[u].name) = {}
        /\ up' = [up EXCEPT ![u].pc = "commit"]
  /\ UNCHANGED <<db, objects, pending, aged, gc, fl, ghost>>

(* The flag that lets it take the entry it read, as it was when read: the  *)
(* transaction does not read it again.                                     *)
MayTake(u) == IF up[u].was = "trash" THEN "restoreDeleted" \in up[u].opts
                                     ELSE "replace" \in up[u].opts

CanUpdate(u) == up[u].seen \in Entries /\ up[u].asset \in rows /\ MayTake(u)
CanCreate(u) == up[u].seen = None /\ up[u].asset \in rows /\ EntriesAt(up[u].name) = {}

(* The transaction of createEntry on a name it found taken: same entry id, *)
(* new content, out of the trash. Then the old content is a GC candidate.  *)
UpdateEntry(u) ==
  /\ up[u].pc = "commit" /\ CanUpdate(u)
  /\ live' = live \cup {up[u].seen}
  /\ trash' = trash \ {up[u].seen}
  /\ assetOf' = [assetOf EXCEPT ![up[u].seen] = up[u].asset]
  /\ up' = [up EXCEPT ![u] = IF @.prev # @.asset
                             THEN [@ EXCEPT !.pc = "gc"] ELSE IdleUpload]
  /\ UNCHANGED <<rows, shaOf, nameOf, objects, pending, aged, gc, fl, ghost>>

(* The same transaction on a free name. *)
CreateEntry(u) ==
  /\ up[u].pc = "commit" /\ CanCreate(u)
  /\ \E e \in EntryId :
       /\ nameOf[e] = None
       /\ live' = live \cup {e}
       /\ nameOf' = [nameOf EXCEPT ![e] = up[u].name]
       /\ assetOf' = [assetOf EXCEPT ![e] = up[u].asset]
  /\ up' = [up EXCEPT ![u] = IdleUpload]
  /\ UNCHANGED <<rows, shaOf, trash, objects, pending, aged, gc, fl, ghost>>

(* 409 (name taken, in the trash, created concurrently), or the foreign    *)
(* key or the id is gone: the transaction rolls back.                      *)
RejectEntry(u) ==
  /\ up[u].pc = "commit" /\ ~CanUpdate(u) /\ ~CanCreate(u)
  /\ up' = [up EXCEPT ![u] = IdleUpload]
  /\ UNCHANGED <<db, objects, pending, aged, gc, fl, ghost>>

(* scheduleObjectDeletion for each sha of S: a fresh grace period.         *)
Schedule(S) == [s \in Sha |-> IF s \in S THEN "wait" ELSE pending[s]]

(* gcOrphanAsset on the content the entry had when it was read.            *)
CollectPrevious(u) ==
  LET a == up[u].prev IN
  /\ up[u].pc = "gc"
  /\ IF a \in rows /\ ~Referenced(a)
     THEN rows' = rows \ {a} /\ pending' = Schedule({shaOf[a]})
     ELSE UNCHANGED <<rows, pending>>
  /\ up' = [up EXCEPT ![u] = IdleUpload]
  /\ UNCHANGED <<shaOf, live, trash, nameOf, assetOf, objects, aged, gc, fl, ghost>>

-----------------------------------------------------------------------------
(* The trash and the collectors *)

SoftDelete(e) ==
  /\ e \in live
  /\ live' = live \ {e} /\ trash' = trash \cup {e}
  /\ UNCHANGED <<rows, shaOf, nameOf, assetOf, objects, pending, aged, up, gc, fl, ghost>>

Restore(e) ==
  /\ e \in trash
  /\ live' = live \cup {e} /\ trash' = trash \ {e}
  /\ UNCHANGED <<rows, shaOf, nameOf, assetOf, objects, pending, aged, up, gc, fl, ghost>>

(* purge lists the trashed entries past the cutoff outside its transaction. *)
PurgeList(c) ==
  /\ c \in Purger /\ gc[c].pc = "idle"
  /\ \E S \in SUBSET trash \ {{}} :
       gc' = [gc EXCEPT ![c] = [pc |-> "tx", ids |-> S, assets |-> {assetOf[e] : e \in S}]]
  /\ UNCHANGED <<db, objects, pending, aged, up, fl, ghost>>

(* Its transaction deletes those of them that are still in the trash.      *)
PurgeCommit(c) ==
  /\ gc[c].pc = "tx"
  /\ trash' = trash \ gc[c].ids
  /\ gc' = [gc EXCEPT ![c] = [@ EXCEPT !.pc = "find", !.ids = {}]]
  /\ UNCHANGED <<rows, shaOf, live, nameOf, assetOf, objects, pending, aged, up, fl, ghost>>

(* Mutants: without the age condition, and with its comparison turned round. *)
SweepListAnyAge(c) ==
  LET old == {a \in rows : ~Referenced(a)} IN
  /\ c \in Sweeper /\ gc[c].pc = "idle" /\ old # {}
  /\ gc' = [gc EXCEPT ![c] = [pc |-> "find", ids |-> {}, assets |-> old]]
  /\ UNCHANGED <<db, objects, pending, aged, up, fl, ghost>>

SweepListYounger(c) ==
  LET young == {a \in rows \ aged : ~Referenced(a)} IN
  /\ c \in Sweeper /\ gc[c].pc = "idle" /\ young # {}
  /\ gc' = [gc EXCEPT ![c] = [pc |-> "find", ids |-> {}, assets |-> young]]
  /\ UNCHANGED <<db, objects, pending, aged, up, fl, ghost>>

(* sweepOrphanAssets: unreferenced rows older than an hour.                *)
SweepList(c) ==
  LET old == {a \in rows \cap aged : ~Referenced(a)} IN
  /\ c \in Sweeper /\ gc[c].pc = "idle" /\ old # {}
  /\ gc' = [gc EXCEPT ![c] = [pc |-> "find", ids |-> {}, assets |-> old]]
  /\ UNCHANGED <<db, objects, pending, aged, up, fl, ghost>>

(* gcOrphanAssets: findMany of the candidates nothing references ...       *)
CollectFind(c) ==
  LET found == {a \in gc[c].assets \cap rows : ~Referenced(a)} IN
  /\ gc[c].pc = "find"
  /\ gc' = [gc EXCEPT ![c] = IF found = {} THEN IdleCollect
                             ELSE [@ EXCEPT !.pc = "delete", !.assets = found]]
  /\ UNCHANGED <<db, objects, pending, aged, up, fl, ghost>>

(* ... deleteMany under the same condition, and, when it deleted any, the  *)
(* objects of all that were found go on the list.                          *)
CollectDelete(c) ==
  LET found == gc[c].assets
      dead  == {a \in found \cap rows : ~Referenced(a)} IN
  /\ gc[c].pc = "delete"
  /\ rows' = rows \ dead
  /\ pending' = IF dead = {} THEN pending ELSE Schedule({shaOf[a] : a \in found})
  /\ gc' = [gc EXCEPT ![c] = IdleCollect]
  /\ UNCHANGED <<shaOf, live, trash, nameOf, assetOf, objects, aged, up, fl, ghost>>

(* An hour passes for a row; the request that created it does not last     *)
(* that long.                                                              *)
GrowOld(a) ==
  /\ a \in rows \ aged
  /\ \A u \in Uploader : up[u].created => up[u].asset # a
  /\ aged' = aged \cup {a}
  /\ UNCHANGED <<db, objects, pending, up, gc, fl, ghost>>

-----------------------------------------------------------------------------
(* Flushers *)

(* OBJECT_GC_GRACE_MS passes. *)
GraceOver(s) ==
  /\ pending[s] = "wait"
  /\ pending' = [pending EXCEPT ![s] = "due"]
  /\ UNCHANGED <<db, objects, aged, up, gc, fl, ghost>>

(* absentShas: those of S that have no row.                                *)
absentShas(S) == {s \in S : RowsOf(s) = {}}

(* Takes what is due and checks the table a first time, then pauses.       *)
FlushStart(f) ==
  LET due == {s \in Sha : pending[s] = "due"} IN
  /\ fl[f].pc = "idle" /\ due # {}
  /\ fl' = [fl EXCEPT ![f] = [pc |-> "pause", due |-> due, absent |-> absentShas(due)]]
  /\ UNCHANGED <<db, objects, pending, aged, up, gc, ghost>>

(* Mutant: the pause, and no second look at the table after it. *)
FlushNoRecheck(f) ==
  /\ fl[f].pc = "pause"
  /\ fl' = [fl EXCEPT ![f].pc = "delete"]
  /\ UNCHANGED <<db, objects, pending, aged, up, gc, ghost>>

(* After OBJECT_GC_RECHECK_MS, the second check.                           *)
FlushRecheck(f) ==
  /\ fl[f].pc = "pause"
  /\ fl' = [fl EXCEPT ![f] = [@ EXCEPT !.pc = "delete", !.absent = absentShas(fl[f].absent)]]
  /\ UNCHANGED <<db, objects, pending, aged, up, gc, ghost>>

(* One round of the loop: the sha leaves the list whatever happens; its    *)
(* object goes if both checks found no row and S3 confirms.                *)
FlushItem(f, s) ==
  /\ fl[f].pc = "delete" /\ s \in fl[f].due
  /\ pending' = [pending EXCEPT ![s] = "none"]
  /\ fl' = [fl EXCEPT ![f] = IF fl[f].due = {s} THEN IdleFlush
                               ELSE [fl[f] EXCEPT !.due = @ \ {s}]]
  /\ \/ /\ s \notin fl[f].absent
        /\ UNCHANGED <<objects, straddled, excused>>
     \/ /\ s \in fl[f].absent
        /\ objects' = objects \ {s}
        /\ straddled' = IF \E u \in Uploader : up[u].pc = "ensure" /\ up[u].sha = s
                        THEN straddled \cup {s} ELSE straddled
        /\ UNCHANGED excused
     \/ /\ s \in fl[f].absent            \* S3 did not confirm
        /\ excused' = excused \cup {s}
        /\ UNCHANGED <<objects, straddled>>
  /\ UNCHANGED <<db, aged, up, gc>>

(* The process restarts: the list and every request in flight are lost.    *)
Crash ==
  /\ excused' = excused \cup {s \in Sha : pending[s] # "none"}
                        \cup {up[u].sha : u \in {v \in Uploader : up[v].pc = "ensure"}}
  /\ pending' = [s \in Sha |-> "none"]
  /\ up' = [u \in Uploader |-> IdleUpload]
  /\ gc' = [c \in Collector |-> IdleCollect]
  /\ fl' = [f \in Flusher |-> IdleFlush]
  /\ UNCHANGED <<db, objects, aged, straddled>>

-----------------------------------------------------------------------------

UploadStep(u) ==
  \/ FindAsset(u) \/ PlaceObject(u) \/ EnsureAsset(u) \/ ReadEntry(u)
  \/ UpdateEntry(u) \/ CreateEntry(u) \/ RejectEntry(u) \/ CollectPrevious(u)

CollectStep(c) ==
  \/ PurgeCommit(c) \/ SweepList(c) \/ CollectFind(c) \/ CollectDelete(c)

FlushStep(f) == FlushStart(f) \/ FlushRecheck(f) \/ \E s \in Sha : FlushItem(f, s)

Next ==
  \/ \E u \in Uploader : Begin(u) \/ UploadStep(u)
  \/ \E e \in EntryId : SoftDelete(e) \/ Restore(e)
  \/ \E c \in Collector : PurgeList(c) \/ CollectStep(c)
  \/ \E a \in AssetId : GrowOld(a)
  \/ \E s \in Sha : GraceOver(s)
  \/ \E f \in Flusher : FlushStep(f)
  \/ Crash

Spec == Init /\ [][Next]_vars

(* No restarts, and the passes that timers start keep running: what        *)
(* liveness is asked of.                                                   *)
NextUp ==
  \/ \E u \in Uploader : Begin(u) \/ UploadStep(u)
  \/ \E e \in EntryId : SoftDelete(e) \/ Restore(e)
  \/ \E c \in Collector : PurgeList(c) \/ CollectStep(c)
  \/ \E a \in AssetId : GrowOld(a)
  \/ \E s \in Sha : GraceOver(s)
  \/ \E f \in Flusher : FlushStep(f)

FairSpec ==
  /\ Init /\ [][NextUp]_vars
  /\ \A u \in Uploader : WF_vars(UploadStep(u))
  /\ \A c \in Collector : WF_vars(CollectStep(c))
  /\ \A a \in AssetId : WF_vars(GrowOld(a))

-----------------------------------------------------------------------------
(* Properties *)

(* A live file's object is in the bucket. The comment of          *)
(* scheduleObjectDeletion says the grace period covers the upload's window. *)
LiveFileHasBytes == \A e \in live : shaOf[assetOf[e]] \in objects

(* What the code does guarantee: bytes of a referenced row are lost only   *)
(* to an upload of the same content that crossed a flusher's window        *)
(* between its second check and its delete; no order of purges, sweeps,    *)
(* overwrites, restores and restarts loses them in another way.            *)
BytesLostOnlyInLastWindow ==
  \A e \in live \cup trash : shaOf[assetOf[e]] \in objects \cup straddled

(* An object without a row is on the deletion list, or in the hands of an  *)
(* upload, or was left to the manual script by a restart or by S3: the     *)
(* comment of scheduleObjectDeletion names no other way to be left over.   *)
OrphanTracked ==
  \A s \in objects : \/ RowsOf(s) # {}
                     \/ pending[s] # "none"
                     \/ s \in excused
                     \/ \E u \in Uploader : up[u].pc = "ensure" /\ up[u].sha = s

(* sweepOrphanAssets never takes the row of the upload that just created   *)
(* it for garbage, however the passes interleave with it.                  *)
SweepSparesUploads ==
  \A c \in Sweeper, u \in Uploader : up[u].created => up[u].asset \notin gc[c].assets

(* A row no entry references does not stay for ever: it goes or is         *)
(* referenced again, also when the overwrite that orphaned it collected    *)
(* another row, the one it had read before the entry changed.              *)
Orphan(a) == a \in rows /\ ~Referenced(a)
OrphanRowCollected == \A a \in AssetId : Orphan(a) ~> ~Orphan(a)

=============================================================================
