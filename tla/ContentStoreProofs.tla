------------------------- MODULE ContentStoreProofs -------------------------
(***************************************************************************)
(* What ContentStore guarantees for every number of contents, uploads,     *)
(* purges, sweeps and flushes, proved from an inductive invariant.         *)
(***************************************************************************)
EXTENDS ContentStore, TLAPS

(* The foreign key: an entry's asset row is there, and has a content.      *)
EntryRowExists == \A e \in live \cup trash : assetOf[e] \in rows

RowHasContent == \A a \in rows : shaOf[a] \in Sha

(* A row's bytes are in the bucket, or lost to the window. *)
RowHasBytes == \A a \in rows : shaOf[a] \in objects \cup straddled

(* Between HEAD and ensureAsset the upload relies on bytes it saw. *)
UploadHasBytes ==
  \A u \in Uploader : up[u].pc = "ensure" => up[u].sha \in objects \cup straddled

(* What a flusher is about to delete has no row, or the window is to blame. *)
WindowInv ==
  \A f \in Flusher : fl[f].pc = "delete" =>
    \A s \in fl[f].due \cap fl[f].absent :
       (\A a \in rows : shaOf[a] # s) \/ s \in straddled

BytesInv ==
  /\ EntryRowExists /\ RowHasContent 
  /\ RowHasBytes /\ UploadHasBytes /\ WindowInv

(* A row some upload created is young, and sweeps look at old rows only.   *)
SweepInv ==
  /\ \A a \in aged : shaOf[a] # None
  /\ \A u \in Uploader : up[u].created => up[u].asset \notin aged
  /\ \A c \in Sweeper : gc[c].assets \subseteq aged

-----------------------------------------------------------------------------
(* The initial state is typed. *)
LEMMA TypeInit == Init => TypeOK
  BY DEF Init, TypeOK, IdleUpload, IdleCollect, IdleFlush, UploadPC, CollectPC, FlushPC,
         UploadRec, CollectRec, FlushRec, Entries

(* An upload's step leaves a typed state. *)
LEMMA TypeUpload ==
  ASSUME TypeOK, NEW u \in Uploader, Begin(u) \/ UploadStep(u)
  PROVE  TypeOK'
<1>u. up[u] \in UploadRec
  BY DEF TypeOK
<1>i. IdleUpload \in UploadRec
  BY DEF IdleUpload, UploadRec, UploadPC
<1>1. CASE Begin(u)
  <2>1. PICK s \in Sha, n \in Name, o \in Policies :
          up' = [up EXCEPT ![u] = [IdleUpload EXCEPT !.pc = "find", !.sha = s,
                                                     !.name = n, !.opts = o]]
    BY <1>1 DEF Begin
  <2>2. [IdleUpload EXCEPT !.pc = "find", !.sha = s, !.name = n, !.opts = o] \in UploadRec
    BY DEF IdleUpload, UploadRec, UploadPC
  <2> QED BY <1>1, <2>1, <2>2 DEF Begin, TypeOK, Entries, db, ghost
<1>2. CASE FindAsset(u)
  <2>1. ASSUME NEW a \in RowsOf(up[u].sha),
               up' = [up EXCEPT ![u] = [@ EXCEPT !.pc = "read", !.asset = a]]
        PROVE  TypeOK'
    <3>1. [up[u] EXCEPT !.pc = "read", !.asset = a] \in UploadRec
      BY <1>u, <1>2, NoneAssumption DEF FindAsset, RowsOf, TypeOK, UploadRec, UploadPC
    <3>2. up' = [up EXCEPT ![u] = [up[u] EXCEPT !.pc = "read", !.asset = a]]
      BY <2>1 DEF TypeOK
    <3> QED BY <1>2, <3>1, <3>2 DEF FindAsset, TypeOK, Entries, db, ghost
  <2>2. ASSUME up' = [up EXCEPT ![u].pc = "place"] PROVE TypeOK'
    <3>1. [up[u] EXCEPT !.pc = "place"] \in UploadRec
      BY <1>u, <1>2 DEF FindAsset, UploadRec, UploadPC
    <3> QED BY <1>2, <2>2, <3>1 DEF FindAsset, TypeOK, Entries, db, ghost
  <2> QED BY <1>2, <2>1, <2>2 DEF FindAsset
<1>3. CASE PlaceObject(u)
  <2>1. [up[u] EXCEPT !.pc = "ensure"] \in UploadRec
    BY <1>u, <1>3 DEF PlaceObject, UploadRec, UploadPC
  <2>2. up[u].sha \in Sha
    BY <1>u, <1>3 DEF PlaceObject, UploadRec
  <2> QED BY <1>3, <2>1, <2>2 DEF PlaceObject, TypeOK, Entries, db, ghost
<1>4. CASE EnsureAsset(u)
  <2>1. ASSUME NEW a \in AssetId, up' = [up EXCEPT ![u] = [@ EXCEPT !.pc = "read", !.asset = a]]
        PROVE  up'[u] \in UploadRec /\ up' = [up EXCEPT ![u] = up'[u]]
    BY <1>u, <1>4, <2>1, NoneAssumption DEF EnsureAsset, TypeOK, UploadRec, UploadPC
  <2>2. ASSUME NEW a \in AssetId,
               up' = [up EXCEPT ![u] = [@ EXCEPT !.pc = "read", !.asset = a, !.created = TRUE]]
        PROVE  up'[u] \in UploadRec /\ up' = [up EXCEPT ![u] = up'[u]]
    BY <1>u, <1>4, <2>2, NoneAssumption DEF EnsureAsset, TypeOK, UploadRec, UploadPC
  <2>3. up'[u] \in UploadRec /\ up' = [up EXCEPT ![u] = up'[u]]
    BY <1>4, <2>1, <2>2 DEF EnsureAsset, RowsOf, TypeOK
  <2>4. /\ rows' \subseteq AssetId
        /\ shaOf' \in [AssetId -> Sha \cup {None}]
        /\ straddled' \subseteq Sha
    <3>1. up[u].sha \in Sha
      BY <1>u, <1>4 DEF EnsureAsset, UploadRec
    <3> QED BY <1>4, <3>1 DEF EnsureAsset, TypeOK
  <2> QED BY <1>4, <2>3, <2>4 DEF EnsureAsset, TypeOK, Entries
<1>5. CASE ReadEntry(u)
  <2>1. ASSUME NEW e \in EntriesAt(up[u].name),
               up' = [up EXCEPT ![u] = [@ EXCEPT !.pc = "commit", !.seen = e, !.prev = assetOf[e],
                                          !.was = IF e \in trash THEN "trash" ELSE "live"]]
        PROVE  TypeOK'
    <3> DEFINE r == [up[u] EXCEPT !.pc = "commit", !.seen = e, !.prev = assetOf[e],
                           !.was = IF e \in trash THEN "trash" ELSE "live"]
    <3>1. e \in EntryId /\ assetOf[e] \in AssetId \cup {None}
      BY <2>1 DEF EntriesAt, Entries, TypeOK
    <3>2. r \in UploadRec
      BY <1>u, <1>5, <3>1 DEF ReadEntry, UploadRec, UploadPC
    <3>3. up' = [up EXCEPT ![u] = r]
      BY <2>1 DEF TypeOK
    <3> QED BY <1>5, <3>2, <3>3 DEF ReadEntry, TypeOK, Entries, db, ghost
  <2>2. ASSUME up' = [up EXCEPT ![u].pc = "commit"] PROVE TypeOK'
    <3>1. [up[u] EXCEPT !.pc = "commit"] \in UploadRec
      BY <1>u, <1>5 DEF ReadEntry, UploadRec, UploadPC
    <3> QED BY <1>5, <2>2, <3>1 DEF ReadEntry, TypeOK, Entries, db, ghost
  <2> QED BY <1>5, <2>1, <2>2 DEF ReadEntry
<1>6. CASE UpdateEntry(u)
  <2>1. [up[u] EXCEPT !.pc = "gc"] \in UploadRec
    BY <1>u, <1>6 DEF UpdateEntry, UploadRec, UploadPC
  <2>2. PICK r : r \in UploadRec /\ up' = [up EXCEPT ![u] = r]
    BY <1>6, <1>i, <2>1 DEF UpdateEntry
  <2>3. up[u].seen \in EntryId /\ up[u].asset \in AssetId
    BY <1>6 DEF UpdateEntry, CanUpdate, Entries, TypeOK
  <2>4. live' \subseteq EntryId /\ trash' \subseteq EntryId
        /\ assetOf' \in [EntryId -> AssetId \cup {None}]
        /\ \A e \in live' \cup trash' : assetOf'[e] \in AssetId
    BY <1>6, <2>3 DEF UpdateEntry, CanUpdate, TypeOK, Entries
  <2> QED BY <1>6, <2>2, <2>4 DEF UpdateEntry, TypeOK, Entries, ghost
<1>7. CASE CreateEntry(u)
  <2>1. up[u].asset \in AssetId /\ up[u].name \in Name \cup {None}
    BY <1>7, <1>u DEF CreateEntry, CanCreate, TypeOK, UploadRec
  <2>2. live' \subseteq EntryId /\ assetOf' \in [EntryId -> AssetId \cup {None}]
        /\ nameOf' \in [EntryId -> Name \cup {None}]
        /\ \A e \in live' \cup trash' : assetOf'[e] \in AssetId
    BY <1>7, <2>1 DEF CreateEntry, TypeOK, Entries
  <2> QED BY <1>7, <1>i, <2>2 DEF CreateEntry, TypeOK, Entries, ghost
<1>8. CASE RejectEntry(u)
  BY <1>8, <1>i DEF RejectEntry, TypeOK, Entries, db, ghost
<1>9. CASE CollectPrevious(u)
  <2>1. rows' \subseteq AssetId /\ pending' \in [Sha -> {"none", "wait", "due"}]
    BY <1>9 DEF CollectPrevious, Schedule, TypeOK
  <2> QED BY <1>9, <1>i, <2>1 DEF CollectPrevious, TypeOK, Entries, ghost
<1> QED BY <1>1, <1>2, <1>3, <1>4, <1>5, <1>6, <1>7, <1>8, <1>9 DEF UploadStep

(* So does a collector's. *)
LEMMA TypeCollect ==
  ASSUME TypeOK, NEW c \in Collector, PurgeList(c) \/ CollectStep(c)
  PROVE  TypeOK'
<1>c. gc[c] \in CollectRec
  BY DEF TypeOK
<1>i. IdleCollect \in CollectRec
  BY DEF IdleCollect, CollectRec, CollectPC
<1>1. CASE PurgeList(c)
  <2>1. PICK S \in SUBSET trash :
          gc' = [gc EXCEPT ![c] = [pc |-> "tx", ids |-> S, assets |-> {assetOf[e] : e \in S}]]
    BY <1>1 DEF PurgeList
  <2>2. \A e \in S : assetOf[e] \in AssetId
    BY DEF TypeOK, Entries
  <2>3. [pc |-> "tx", ids |-> S, assets |-> {assetOf[e] : e \in S}] \in CollectRec
    BY <2>2 DEF TypeOK, CollectRec, CollectPC
  <2> QED BY <1>1, <2>1, <2>3 DEF PurgeList, TypeOK, Entries, db, ghost
<1>2. CASE PurgeCommit(c)
  <2>1. [gc[c] EXCEPT !.pc = "find", !.ids = {}] \in CollectRec
    BY <1>c DEF CollectRec, CollectPC
  <2>2. gc' = [gc EXCEPT ![c] = [gc[c] EXCEPT !.pc = "find", !.ids = {}]]
    BY <1>2 DEF PurgeCommit, TypeOK
  <2> QED BY <1>2, <2>1, <2>2 DEF PurgeCommit, TypeOK, Entries, ghost
<1>3. CASE SweepList(c)
  <2>1. PICK S \in SUBSET rows :
          gc' = [gc EXCEPT ![c] = [pc |-> "find", ids |-> {}, assets |-> S]]
    BY <1>3 DEF SweepList
  <2>2. [pc |-> "find", ids |-> {}, assets |-> S] \in CollectRec
    BY DEF CollectRec, CollectPC, TypeOK
  <2> QED BY <1>3, <2>1, <2>2 DEF SweepList, TypeOK, Entries, db, ghost
<1>4. CASE CollectFind(c)
  <2>1. PICK S \in SUBSET gc[c].assets :
          gc' = [gc EXCEPT ![c] = IF S = {} THEN IdleCollect
                                  ELSE [@ EXCEPT !.pc = "delete", !.assets = S]]
    BY <1>4 DEF CollectFind
  <2>2. [gc[c] EXCEPT !.pc = "delete", !.assets = S] \in CollectRec
    BY <1>c DEF CollectRec, CollectPC
  <2> QED BY <1>4, <1>i, <2>1, <2>2 DEF CollectFind, TypeOK, Entries, db, ghost
<1>5. CASE CollectDelete(c)
  <2>1. rows' \subseteq AssetId /\ pending' \in [Sha -> {"none", "wait", "due"}]
    BY <1>5 DEF CollectDelete, Schedule, TypeOK
  <2> QED BY <1>5, <1>i, <2>1 DEF CollectDelete, TypeOK, Entries, ghost
<1> QED BY <1>1, <1>2, <1>3, <1>4, <1>5 DEF CollectStep

(* And a flusher's. *)
LEMMA TypeFlush ==
  ASSUME TypeOK, NEW f \in Flusher, FlushStep(f)
  PROVE  TypeOK'
<1>f. fl[f] \in FlushRec
  BY DEF TypeOK
<1>1. CASE FlushStart(f)
  <2>1. PICK D \in SUBSET Sha :
          fl' = [fl EXCEPT ![f] = [pc |-> "pause", due |-> D, absent |-> absentShas(D)]]
    BY <1>1 DEF FlushStart
  <2>2. [pc |-> "pause", due |-> D, absent |-> absentShas(D)] \in FlushRec
    BY DEF FlushRec, FlushPC, absentShas
  <2> QED BY <1>1, <2>1, <2>2 DEF FlushStart, TypeOK, Entries, db, ghost
<1>2. CASE FlushRecheck(f)
  <2>1. [fl[f] EXCEPT !.pc = "delete", !.absent = absentShas(fl[f].absent)] \in FlushRec
    BY <1>f DEF FlushRec, FlushPC, absentShas
  <2>2. fl' = [fl EXCEPT ![f] = [fl[f] EXCEPT !.pc = "delete", !.absent = absentShas(fl[f].absent)]]
    BY <1>2 DEF FlushRecheck, TypeOK
  <2> QED BY <1>2, <2>1, <2>2 DEF FlushRecheck, TypeOK, Entries, db, ghost
<1>3. ASSUME NEW s \in Sha, FlushItem(f, s) PROVE TypeOK'
  <2>1. IdleFlush \in FlushRec /\ [fl[f] EXCEPT !.due = @ \ {s}] \in FlushRec
    BY <1>f DEF FlushRec, FlushPC, IdleFlush
  <2>2. PICK r \in {IdleFlush, [fl[f] EXCEPT !.due = @ \ {s}]} : fl' = [fl EXCEPT ![f] = r]
    BY <1>3 DEF FlushItem
  <2> QED BY <1>3, <2>1, <2>2 DEF FlushItem, TypeOK, Entries, db
<1> QED BY <1>1, <1>2, <1>3 DEF FlushStep

(* Every step leaves a typed state. *)
LEMMA TypeNext == TypeOK /\ [Next]_vars => TypeOK'
<1> SUFFICES ASSUME TypeOK, [Next]_vars PROVE TypeOK'
  OBVIOUS
<1>1. ASSUME NEW u \in Uploader, Begin(u) \/ UploadStep(u) PROVE TypeOK'
  BY <1>1, TypeUpload
<1>2. ASSUME NEW e \in EntryId, SoftDelete(e) \/ Restore(e) PROVE TypeOK'
  BY <1>2 DEF SoftDelete, Restore, TypeOK, Entries, ghost
<1>3. ASSUME NEW c \in Collector, PurgeList(c) \/ CollectStep(c) PROVE TypeOK'
  BY <1>3, TypeCollect
<1>4. ASSUME NEW a \in AssetId, GrowOld(a) PROVE TypeOK'
  BY <1>4 DEF GrowOld, TypeOK, Entries, db, ghost
<1>5. ASSUME NEW s \in Sha, GraceOver(s) PROVE TypeOK'
  BY <1>5 DEF GraceOver, TypeOK, Entries, db, ghost
<1>6. ASSUME NEW f \in Flusher, FlushStep(f) PROVE TypeOK'
  BY <1>6, TypeFlush
<1>7. CASE Crash
  <2>1. IdleUpload \in UploadRec /\ IdleCollect \in CollectRec /\ IdleFlush \in FlushRec
    BY DEF IdleUpload, IdleCollect, IdleFlush, UploadPC, CollectPC, FlushPC,
           UploadRec, CollectRec, FlushRec
  <2>2. \A v \in Uploader : up[v].pc = "ensure" => up[v].sha \in Sha
    BY DEF TypeOK, UploadRec
  <2>3. excused' \subseteq Sha
    BY <1>7, <2>2 DEF Crash, TypeOK
  <2> QED BY <1>7, <2>1, <2>3 DEF Crash, TypeOK, Entries, db
<1>8. CASE UNCHANGED vars
  BY <1>8 DEF vars, TypeOK, Entries
<1> QED BY <1>1, <1>2, <1>3, <1>4, <1>5, <1>6, <1>7, <1>8 DEF Next

(* Every reachable state is typed, and an upload past the lookup has its   *)
(* asset (TypeOK, the type invariant of the runs).                         *)
THEOREM TypeCorrect == Spec => []TypeOK
<1> QED BY TypeInit, TypeNext, PTL DEF Spec

-----------------------------------------------------------------------------
(* What the three steps that fill in fields of the upload leave of it.     *)
LEMMA FindAssetUp ==
  ASSUME TypeOK, NEW u \in Uploader, FindAsset(u)
  PROVE  \E r : /\ up' = [up EXCEPT ![u] = r] /\ r.pc \in {"read", "place"} /\ ~r.created
<1>0. up[u] \in UploadRec
  BY DEF TypeOK
<1>1. ASSUME NEW a \in RowsOf(up[u].sha),
             up' = [up EXCEPT ![u] = [@ EXCEPT !.pc = "read", !.asset = a]]
      PROVE  \E r : /\ up' = [up EXCEPT ![u] = r] /\ r.pc \in {"read", "place"} /\ ~r.created
  <2> DEFINE r == [up[u] EXCEPT !.pc = "read", !.asset = a]
  <2>1. r.pc = "read" /\ ~r.created
    BY <1>0 DEF FindAsset, UploadRec
  <2> QED BY <1>1, <2>1
<1>2. ASSUME up' = [up EXCEPT ![u].pc = "place"]
      PROVE  \E r : /\ up' = [up EXCEPT ![u] = r] /\ r.pc \in {"read", "place"} /\ ~r.created
  <2> DEFINE r == [up[u] EXCEPT !.pc = "place"]
  <2>1. r.pc = "place" /\ ~r.created
    BY <1>0 DEF FindAsset, UploadRec
  <2> QED BY <1>2, <2>1
<1> QED BY <1>1, <1>2 DEF FindAsset

(* ... the read before createEntry's transaction ... *)
LEMMA ReadEntryUp ==
  ASSUME TypeOK, NEW u \in Uploader, ReadEntry(u)
  PROVE  \E r : /\ up' = [up EXCEPT ![u] = r] /\ r.pc = "commit"
                /\ r.asset = up[u].asset /\ (r.created => up[u].created)
<1>0. up[u] \in UploadRec
  BY DEF TypeOK
<1> DEFINE P(r) == r.pc = "commit" /\ r.asset = up[u].asset /\ (r.created => up[u].created)
<1>1. ASSUME NEW e \in EntriesAt(up[u].name),
             up' = [up EXCEPT ![u] = [@ EXCEPT !.pc = "commit", !.seen = e, !.prev = assetOf[e],
                                        !.was = IF e \in trash THEN "trash" ELSE "live"]]
      PROVE  \E r : up' = [up EXCEPT ![u] = r] /\ P(r)
  <2> DEFINE r == [up[u] EXCEPT !.pc = "commit", !.seen = e, !.prev = assetOf[e],
                                !.was = IF e \in trash THEN "trash" ELSE "live"]
  <2>1. P(r)
    BY <1>0 DEF UploadRec
  <2> QED BY <1>1, <2>1
<1>2. ASSUME up' = [up EXCEPT ![u].pc = "commit"]
      PROVE  \E r : up' = [up EXCEPT ![u] = r] /\ P(r)
  <2>1. P([up[u] EXCEPT !.pc = "commit"])
    BY <1>0 DEF UploadRec
  <2> QED BY <1>2, <2>1
<1> QED BY <1>1, <1>2 DEF ReadEntry

(* ... and the creation of the row. *)
LEMMA EnsureAssetUp ==
  ASSUME TypeOK, NEW u \in Uploader, EnsureAsset(u)
  PROVE  \E r : /\ up' = [up EXCEPT ![u] = r]
                /\ \/ ~r.created /\ UNCHANGED shaOf
                   \/ \E a \in AssetId : /\ r.asset = a /\ shaOf[a] = None
                                         /\ shaOf' = [shaOf EXCEPT ![a] = up[u].sha]
<1>0. up[u] \in UploadRec
  BY DEF TypeOK
<1> DEFINE P(r) == \/ ~r.created /\ UNCHANGED shaOf
                   \/ \E a \in AssetId : /\ r.asset = a /\ shaOf[a] = None
                                         /\ shaOf' = [shaOf EXCEPT ![a] = up[u].sha]
<1>1. ASSUME NEW a \in RowsOf(up[u].sha), UNCHANGED shaOf,
             up' = [up EXCEPT ![u] = [@ EXCEPT !.pc = "read", !.asset = a]]
      PROVE  \E r : up' = [up EXCEPT ![u] = r] /\ P(r)
  <2>1. ~[up[u] EXCEPT !.pc = "read", !.asset = a].created
    BY <1>0 DEF EnsureAsset, UploadRec
  <2> QED BY <1>1, <2>1
<1>2. ASSUME NEW a \in AssetId, shaOf[a] = None, shaOf' = [shaOf EXCEPT ![a] = up[u].sha],
             up' = [up EXCEPT ![u] = [@ EXCEPT !.pc = "read", !.asset = a, !.created = TRUE]]
      PROVE  \E r : up' = [up EXCEPT ![u] = r] /\ P(r)
  <2>1. [up[u] EXCEPT !.pc = "read", !.asset = a, !.created = TRUE].asset = a
    BY <1>0 DEF UploadRec
  <2> QED BY <1>2, <2>1
<1> QED BY <1>1, <1>2 DEF EnsureAsset, RowsOf

-----------------------------------------------------------------------------
(* The bytes invariant holds initially. *)
LEMMA BytesInit == Init => BytesInv
  BY DEF Init, BytesInv, EntryRowExists, RowHasContent, RowHasBytes, UploadHasBytes,
         WindowInv, IdleUpload, IdleFlush

(* A step that touches neither rows nor objects nor windows and adds no    *)
(* entry keeps it.                                                         *)
LEMMA BytesKept ==
  ASSUME BytesInv, UNCHANGED <<rows, shaOf, live, trash, assetOf, objects, fl, straddled>>,
         \A v \in Uploader : up'[v].pc = "ensure" => up[v].pc = "ensure" /\ up'[v].sha = up[v].sha
  PROVE  BytesInv'
  BY DEF BytesInv, EntryRowExists, RowHasContent, RowHasBytes, UploadHasBytes, WindowInv

(* A step that only removes rows no entry references keeps it. *)
LEMMA BytesCollected ==
  ASSUME BytesInv, NEW D \in SUBSET rows, rows' = rows \ D,
         \A e \in live \cup trash : assetOf[e] \notin D,
         UNCHANGED <<shaOf, live, trash, assetOf, objects, fl, straddled>>,
         \A v \in Uploader : up'[v].pc = "ensure" => up[v].pc = "ensure" /\ up'[v].sha = up[v].sha
  PROVE  BytesInv'
  BY DEF BytesInv, EntryRowExists, RowHasContent, RowHasBytes, UploadHasBytes, WindowInv

(* A step that points entries at rows that are there keeps it. *)
LEMMA BytesWritten ==
  ASSUME BytesInv, UNCHANGED <<rows, shaOf, objects, fl, straddled>>,
         \A e \in live' \cup trash' : assetOf'[e] \in rows,
         \A v \in Uploader : up'[v].pc = "ensure" => up[v].pc = "ensure" /\ up'[v].sha = up[v].sha
  PROVE  BytesInv'
  BY DEF BytesInv, EntryRowExists, RowHasContent, RowHasBytes, UploadHasBytes, WindowInv

(* An upload's step keeps the bytes invariant. *)
LEMMA BytesUpload ==
  ASSUME TypeOK, BytesInv, NEW u \in Uploader, Begin(u) \/ UploadStep(u)
  PROVE  BytesInv'
<1> USE DEF TypeOK
<1>1. CASE Begin(u)
  BY <1>1, BytesKept DEF Begin, db, ghost, IdleUpload
<1>2. CASE FindAsset(u)
  <2>1. \A v \in Uploader : up'[v].pc = "ensure" => up[v].pc = "ensure" /\ up'[v].sha = up[v].sha
    BY <1>2, FindAssetUp
  <2> QED BY <1>2, <2>1, BytesKept DEF FindAsset, db, ghost
<1>3. CASE PlaceObject(u)
  BY <1>3 DEF PlaceObject, db, ghost, BytesInv, EntryRowExists, RowHasContent, RowHasBytes,
              UploadHasBytes, WindowInv
<1>4. CASE EnsureAsset(u)
  <2>1. ASSUME NEW a \in RowsOf(up[u].sha), up' = [up EXCEPT ![u] = [@ EXCEPT !.pc = "read", !.asset = a]],
               UNCHANGED <<rows, shaOf, straddled>>
        PROVE  BytesInv'
    <3>1. \A v \in Uploader : up'[v].pc = "ensure" => up[v].pc = "ensure" /\ up'[v].sha = up[v].sha
      BY <2>1
    <3> QED BY <1>4, <2>1, <3>1, BytesKept DEF EnsureAsset
  <2>2. ASSUME NEW a \in AssetId, shaOf[a] = None, RowsOf(up[u].sha) = {},
               rows' = rows \cup {a}, shaOf' = [shaOf EXCEPT ![a] = up[u].sha],
               up' = [up EXCEPT ![u] = [@ EXCEPT !.pc = "read", !.asset = a, !.created = TRUE]],
               straddled' = IF InLastWindow(up[u].sha) THEN straddled \cup {up[u].sha}
                                                      ELSE straddled
        PROVE  BytesInv'
    <3>1. a \notin rows /\ up[u].sha \in Sha
      BY <1>4, <2>2, NoneAssumption DEF EnsureAsset, BytesInv, RowHasContent, UploadRec
    <3>2. up[u].sha \in objects \cup straddled /\ straddled \subseteq straddled'
      BY <1>4, <2>2 DEF EnsureAsset, BytesInv, UploadHasBytes
    <3>3. UNCHANGED <<live, trash, assetOf, objects, fl>>
      BY <1>4 DEF EnsureAsset
    <3>4. EntryRowExists' /\ RowHasContent' /\ RowHasBytes'
      BY <2>2, <3>1, <3>2, <3>3 DEF BytesInv, EntryRowExists, RowHasContent, RowHasBytes
    <3>5. UploadHasBytes'
      BY <2>2, <3>2, <3>3 DEF BytesInv, UploadHasBytes
    <3>6. WindowInv'
      BY <2>2, <3>1, <3>2, <3>3 DEF BytesInv, WindowInv, InLastWindow
    <3> QED BY <3>4, <3>5, <3>6 DEF BytesInv
  <2> QED BY <1>4, <2>1, <2>2 DEF EnsureAsset
<1>5. CASE ReadEntry(u)
  <2>1. \A v \in Uploader : up'[v].pc = "ensure" => up[v].pc = "ensure" /\ up'[v].sha = up[v].sha
    BY <1>5, ReadEntryUp
  <2> QED BY <1>5, <2>1, BytesKept DEF ReadEntry, db, ghost
<1>6. CASE UpdateEntry(u)
  <2>1. \A e \in live' \cup trash' : assetOf'[e] \in rows
    BY <1>6 DEF UpdateEntry, CanUpdate, Entries, BytesInv, EntryRowExists
  <2> QED BY <1>6, <2>1, BytesWritten DEF UpdateEntry, ghost, IdleUpload
<1>7. CASE CreateEntry(u)
  <2>1. \A e \in live' \cup trash' : assetOf'[e] \in rows
    BY <1>7 DEF CreateEntry, CanCreate, BytesInv, EntryRowExists
  <2> QED BY <1>7, <2>1, BytesWritten DEF CreateEntry, ghost, IdleUpload
<1>8. CASE RejectEntry(u)
  BY <1>8, BytesKept DEF RejectEntry, db, ghost, IdleUpload
<1>9. CASE CollectPrevious(u)
  <2>1. \A v \in Uploader : up'[v].pc = "ensure" => up[v].pc = "ensure" /\ up'[v].sha = up[v].sha
    BY <1>9 DEF CollectPrevious, IdleUpload
  <2>2. CASE up[u].prev \in rows /\ ~Referenced(up[u].prev)
    <3> DEFINE D == {up[u].prev}
    <3>1. D \in SUBSET rows /\ rows' = rows \ D /\ \A e \in live \cup trash : assetOf[e] \notin D
      BY <1>9, <2>2 DEF CollectPrevious, Referenced, Entries
    <3>2. UNCHANGED <<shaOf, live, trash, assetOf, objects, fl, straddled>>
      BY <1>9 DEF CollectPrevious, ghost
    <3> HIDE DEF D
    <3> QED BY <2>1, <3>1, <3>2, BytesCollected
  <2>3. CASE ~(up[u].prev \in rows /\ ~Referenced(up[u].prev))
    BY <1>9, <2>1, <2>3, BytesKept DEF CollectPrevious, ghost
  <2> QED BY <2>2, <2>3
<1> QED BY <1>1, <1>2, <1>3, <1>4, <1>5, <1>6, <1>7, <1>8, <1>9 DEF UploadStep

(* A collector's step keeps it: the row goes only while nothing references it. *)
LEMMA BytesCollect ==
  ASSUME TypeOK, BytesInv, NEW c \in Collector, PurgeList(c) \/ CollectStep(c)
  PROVE  BytesInv'
<1>1. CASE PurgeList(c) \/ SweepList(c) \/ CollectFind(c)
  BY <1>1, BytesKept DEF PurgeList, SweepList, CollectFind, db, ghost
<1>2. CASE PurgeCommit(c)
  BY <1>2, BytesWritten DEF PurgeCommit, ghost, BytesInv, EntryRowExists
<1>3. CASE CollectDelete(c)
  <2> DEFINE D == {a \in gc[c].assets \cap rows : ~Referenced(a)}
  <2>1. D \in SUBSET rows /\ \A e \in live \cup trash : assetOf[e] \notin D
    BY DEF Referenced, Entries
  <2>2. rows' = rows \ D
    BY <1>3 DEF CollectDelete
  <2> QED BY <1>3, <2>1, <2>2, BytesCollected DEF CollectDelete, ghost
<1> QED BY <1>1, <1>2, <1>3 DEF CollectStep

(* A flusher's step keeps it: what it deletes has no row, or is straddled. *)
LEMMA BytesFlush ==
  ASSUME TypeOK, BytesInv, NEW f \in Flusher, FlushStep(f)
  PROVE  BytesInv'
<1> USE DEF TypeOK
<1>1. CASE FlushStart(f)
  BY <1>1 DEF FlushStart, db, ghost, BytesInv, EntryRowExists, RowHasContent, RowHasBytes,
              UploadHasBytes, WindowInv
<1>2. CASE FlushRecheck(f)
  <2>1. WindowInv'
    BY <1>2 DEF FlushRecheck, db, ghost, absentShas, RowsOf, BytesInv, WindowInv
  <2> QED BY <1>2, <2>1 DEF FlushRecheck, db, ghost, BytesInv, EntryRowExists, RowHasContent,
                            RowHasBytes, UploadHasBytes
<1>3. ASSUME NEW s \in Sha, FlushItem(f, s) PROVE BytesInv'
  <2>1. UNCHANGED <<rows, shaOf, live, trash, assetOf, up>> /\ straddled \subseteq straddled'
    BY <1>3 DEF FlushItem, db
  <2>2. objects' = objects \/ (objects' = objects \ {s} /\ s \in fl[f].absent)
    BY <1>3 DEF FlushItem
  <2>3. EntryRowExists' /\ RowHasContent'
    BY <2>1 DEF BytesInv, EntryRowExists, RowHasContent
  <2>4. RowHasBytes'
    BY <1>3, <2>1, <2>2 DEF FlushItem, BytesInv, RowHasBytes, WindowInv
  <2>5. UploadHasBytes'
    BY <1>3, <2>1, <2>2 DEF FlushItem, BytesInv, UploadHasBytes
  <2>6. ASSUME NEW g \in Flusher, fl'[g].pc = "delete"
        PROVE  fl[g].pc = "delete" /\ fl'[g].due \subseteq fl[g].due /\ fl'[g].absent = fl[g].absent
    BY <1>3, <2>6 DEF FlushItem, IdleFlush
  <2>7. WindowInv'
    BY <2>1, <2>6 DEF BytesInv, WindowInv
  <2> QED BY <2>3, <2>4, <2>5, <2>7 DEF BytesInv
<1> QED BY <1>1, <1>2, <1>3 DEF FlushStep

(* Every step keeps the bytes invariant. *)
LEMMA BytesNext == TypeOK /\ BytesInv /\ [Next]_vars => BytesInv'
<1> SUFFICES ASSUME TypeOK, BytesInv, [Next]_vars PROVE BytesInv'
  OBVIOUS
<1>1. ASSUME NEW u \in Uploader, Begin(u) \/ UploadStep(u) PROVE BytesInv'
  BY <1>1, BytesUpload
<1>2. ASSUME NEW e \in EntryId, SoftDelete(e) \/ Restore(e) PROVE BytesInv'
  BY <1>2, BytesWritten DEF SoftDelete, Restore, ghost, BytesInv, EntryRowExists
<1>3. ASSUME NEW c \in Collector, PurgeList(c) \/ CollectStep(c) PROVE BytesInv'
  BY <1>3, BytesCollect
<1>4. ASSUME NEW a \in AssetId, GrowOld(a) PROVE BytesInv'
  BY <1>4, BytesKept DEF GrowOld, db, ghost
<1>5. ASSUME NEW s \in Sha, GraceOver(s) PROVE BytesInv'
  BY <1>5, BytesKept DEF GraceOver, db, ghost
<1>6. ASSUME NEW f \in Flusher, FlushStep(f) PROVE BytesInv'
  BY <1>6, BytesFlush
<1>7. CASE Crash
  BY <1>7 DEF Crash, db, IdleUpload, IdleFlush, BytesInv, EntryRowExists, RowHasContent,
              RowHasBytes, UploadHasBytes, WindowInv
<1>8. CASE UNCHANGED vars
  BY <1>8, BytesKept DEF vars
<1> QED BY <1>1, <1>2, <1>3, <1>4, <1>5, <1>6, <1>7, <1>8 DEF Next

(* Bytes of an entry, live or in the trash, are lost only to an upload of  *)
(* the same content that crossed a flusher's last window.                  *)
THEOREM BytesSafe == Spec => []BytesLostOnlyInLastWindow
<1>1. BytesInv => BytesLostOnlyInLastWindow
  BY DEF BytesInv, EntryRowExists, RowHasBytes, BytesLostOnlyInLastWindow
<1> QED BY <1>1, TypeInit, TypeNext, BytesInit, BytesNext, PTL DEF Spec

(* An entry's asset row is always there: no order of purges, sweeps,       *)
(* overwrites and uploads removes a row that is still referenced.          *)
THEOREM ForeignKey == Spec => []EntryRowExists
<1>1. BytesInv => EntryRowExists
  BY DEF BytesInv
<1> QED BY <1>1, TypeInit, TypeNext, BytesInit, BytesNext, PTL DEF Spec

-----------------------------------------------------------------------------
(* The sweep invariant holds initially. *)
LEMMA SweepInit == Init => SweepInv
  BY DEF Init, SweepInv, IdleUpload, IdleCollect, Collector

(* Every step keeps the sweep invariant. *)
LEMMA SweepNext == TypeOK /\ RowHasContent /\ SweepInv /\ [Next]_vars => SweepInv'
<1> SUFFICES ASSUME TypeOK, RowHasContent, SweepInv, [Next]_vars PROVE SweepInv'
  OBVIOUS
<1> USE DEF TypeOK
<1>1. ASSUME NEW u \in Uploader, Begin(u) \/ UploadStep(u) PROVE SweepInv'
  <2>1. CASE Begin(u) \/ PlaceObject(u) \/ ReadEntry(u) \/ UpdateEntry(u) \/ CreateEntry(u)
             \/ RejectEntry(u) \/ CollectPrevious(u)
    <3>1. \A v \in Uploader : up'[v].created => up[v].created /\ up'[v].asset = up[v].asset
      <4>1. CASE Begin(u)
        BY <4>1 DEF Begin, IdleUpload
      <4>2. CASE PlaceObject(u)
        BY <4>2 DEF PlaceObject, UploadRec
      <4>3. CASE ReadEntry(u)
        BY <4>3, ReadEntryUp
      <4>4. CASE UpdateEntry(u)
        BY <4>4 DEF UpdateEntry, UploadRec, IdleUpload
      <4>5. CASE CreateEntry(u) \/ RejectEntry(u) \/ CollectPrevious(u)
        BY <4>5 DEF CreateEntry, RejectEntry, CollectPrevious, IdleUpload
      <4> QED BY <2>1, <4>1, <4>2, <4>3, <4>4, <4>5
    <3>2. UNCHANGED <<shaOf, aged, gc>>
      BY <2>1 DEF Begin, PlaceObject, ReadEntry, UpdateEntry, CreateEntry, RejectEntry,
                  CollectPrevious, db
    <3> QED BY <3>1, <3>2 DEF SweepInv
  <2>2. CASE FindAsset(u)
    <3>2. \A v \in Uploader : up'[v].created => up[v].created /\ up'[v].asset = up[v].asset
      BY <2>2, FindAssetUp
    <3> QED BY <2>2, <3>2 DEF FindAsset, SweepInv, db
  <2>3. CASE EnsureAsset(u)
    <3>1. up[u].sha \in Sha
      BY <2>3 DEF EnsureAsset, UploadRec
    <3>2. PICK r : /\ up' = [up EXCEPT ![u] = r]
                   /\ \/ ~r.created /\ UNCHANGED shaOf
                      \/ \E a \in AssetId : /\ r.asset = a /\ shaOf[a] = None
                                            /\ shaOf' = [shaOf EXCEPT ![a] = up[u].sha]
      BY <2>3, EnsureAssetUp
    <3>3. \A b \in aged : shaOf'[b] # None
      BY <3>1, <3>2, NoneAssumption DEF SweepInv
    <3>4. \A v \in Uploader \ {u} : up'[v] = up[v]
      BY <3>2
    <3>5. up'[u].created => up'[u].asset \notin aged
      BY <3>2 DEF SweepInv
    <3> QED BY <2>3, <3>3, <3>4, <3>5 DEF EnsureAsset, SweepInv
  <2> QED BY <1>1, <2>1, <2>2, <2>3 DEF UploadStep
<1>2. ASSUME NEW e \in EntryId, SoftDelete(e) \/ Restore(e) PROVE SweepInv'
  BY <1>2 DEF SoftDelete, Restore, SweepInv
<1>3. ASSUME NEW c \in Collector, PurgeList(c) \/ CollectStep(c) PROVE SweepInv'
  <2>1. UNCHANGED <<shaOf, aged, up>>
    BY <1>3 DEF PurgeList, CollectStep, PurgeCommit, SweepList, CollectFind, CollectDelete, db
  <2>2. \A d \in Sweeper : gc'[d].assets \subseteq gc[d].assets \cup aged
    <3>1. CASE PurgeList(c)
      BY <3>1, RolesAssumption DEF PurgeList
    <3>2. CASE PurgeCommit(c)
      BY <3>2 DEF PurgeCommit, Collector, CollectRec
    <3>3. CASE SweepList(c)
      BY <3>3 DEF SweepList, Collector
    <3>4. CASE CollectFind(c)
      BY <3>4 DEF CollectFind, Collector, IdleCollect, CollectRec
    <3>5. CASE CollectDelete(c)
      BY <3>5 DEF CollectDelete, Collector, IdleCollect
    <3> QED BY <1>3, <3>1, <3>2, <3>3, <3>4, <3>5 DEF CollectStep
  <2> QED BY <2>1, <2>2 DEF SweepInv
<1>4. ASSUME NEW a \in AssetId, GrowOld(a) PROVE SweepInv'
  BY <1>4, NoneAssumption DEF GrowOld, SweepInv, RowHasContent, db
<1>5. ASSUME NEW s \in Sha, GraceOver(s) PROVE SweepInv'
  BY <1>5 DEF GraceOver, SweepInv, db
<1>6. ASSUME NEW f \in Flusher, FlushStep(f) PROVE SweepInv'
  BY <1>6 DEF FlushStep, FlushStart, FlushRecheck, FlushItem, SweepInv, db
<1>7. CASE Crash
  BY <1>7 DEF Crash, SweepInv, db, IdleUpload, IdleCollect, Collector
<1>8. CASE UNCHANGED vars
  BY <1>8 DEF vars, SweepInv
<1> QED BY <1>1, <1>2, <1>3, <1>4, <1>5, <1>6, <1>7, <1>8 DEF Next

(* sweepOrphanAssets never has the row an upload just created among its    *)
(* candidates, whatever else interleaves.                                  *)
THEOREM SweepSafe == Spec => []SweepSparesUploads
<1>1. BytesInv => RowHasContent
  BY DEF BytesInv
<1>2. SweepInv => SweepSparesUploads
  BY DEF SweepInv, SweepSparesUploads
<1> QED BY <1>1, <1>2, TypeInit, TypeNext, BytesInit, BytesNext, SweepInit, SweepNext, PTL DEF Spec

=============================================================================
