--------------------------- MODULE UploadSession ---------------------------
(***************************************************************************)
(* One upload session of UploadsService: the parts registered in the       *)
(* database, the multipart upload and the temporary object in S3, the      *)
(* in-memory LiveSession with the incremental hash, and the requests of    *)
(* one client (retries included) that interleave at every await.           *)
(*                                                                         *)
(* A content is the sequence of the numbers of the parts it is made of, so *)
(* a hash is that sequence too and two hashes are equal when the contents  *)
(* are. The client's file is <<1, ..., Last>>. <<0>> and <<-1>> stand for  *)
(* the version the client replaces and for another device's version, <<>>  *)
(* for no object, no hash, no entry.                                       *)
(***************************************************************************)
EXTENDS Integers, Sequences, FiniteSets

CONSTANTS
  Req,        \* requests that may be in flight at once
  Last,       \* number of parts of the file
  LiveObj,    \* identities of LiveSession objects
  NoObj,
  Confs,      \* what init may have recorded, see Conf
  MaxFail,    \* bound: transient failures of S3 and of the database
  MaxCrash    \* bound: restarts of the service

ASSUME LastAssumption == Last \in Nat \ {0}

ASSUME BoundsAssumption == MaxFail \in Nat /\ MaxCrash \in Nat

(* init's decisions: direct or relay, sha256 declared or not, part sizes   *)
(* reported or not, the precondition expectedSha256, the replace flag.     *)
Conf == [direct : BOOLEAN, declared : BOOLEAN, sized : BOOLEAN,
         expect : {"any", "old"}, replace : BOOLEAN]

ASSUME ConfsAssumption == Confs \subseteq Conf

Nothing == <<>>
Old     == <<0>>
Other   == <<-1>>
Full    == [i \in 1..Last |-> i]
Prefix(k) == [i \in 1..k |-> i]

VARIABLES
  conf,       \* this session's row of init
  row,        \* the UploadSession row: [there, parts, done]
  multipart,  \* "open", "done" or "aborted"
  tmp,        \* content of the object at uploadKey
  store,      \* files/<sha>: set of <<sha, content>>
  lives,      \* LiveSession objects
  cur,        \* the one the map holds for this session
  entry,      \* content of the live entry under (folder, name)
  req,        \* the requests in flight
  stale,      \* nothing has touched the row for STALE_MS
  sweeping,   \* sweepStale has the row on its list
  fails, crashes,
  acked,      \* history: a complete answered success
  ackedParts, \* history: parts whose acceptance was answered
  wrote,      \* history: the entry was written by this session
  refused     \* history: a complete answered failure while the tree had its file

s3   == <<multipart, tmp, store>>
mem  == <<lives, cur>>
hist == <<acked, ackedParts, wrote, refused>>
vars == <<conf, row, multipart, tmp, store, lives, cur, entry, req, stale, sweeping,
          fails, crashes, acked, ackedParts, wrote, refused>>

-----------------------------------------------------------------------------

FreshLive == [hash |-> Nothing, valid |-> TRUE, digested |-> FALSE, sha |-> Nothing,
              finalized |-> FALSE]
Idle      == [pc |-> "idle", n |-> 0, obj |-> NoObj, parts |-> {}, sha |-> Nothing]

ReqPC == {"idle", "upload", "save", "assemble", "check", "hash", "place", "finish",
          "drop", "mark"}

\* Contents and hashes: no longer than what the retried chunks can add up to.
Content == UNION {[1..k -> -1..Last] : k \in 0..(Last + MaxFail + 2)}

TypeOK ==
  /\ conf \in Confs
  /\ row.parts \subseteq 1..Last /\ row.there \in BOOLEAN /\ row.done \in BOOLEAN
  /\ multipart \in {"open", "done", "aborted"}
  /\ tmp \in Content /\ entry \in Content
  /\ \A p \in store : p[1] \in Content /\ p[2] \in Content
  /\ \A o \in LiveObj : lives[o].hash \in Content /\ lives[o].sha \in Content
  /\ cur \in LiveObj \cup {NoObj}
  /\ \A r \in Req : /\ req[r].pc \in ReqPC /\ req[r].n \in 0..Last
                    /\ req[r].obj \in LiveObj \cup {NoObj}
                    /\ req[r].parts \subseteq 1..Last /\ req[r].sha \in Content
                    /\ req[r].pc \in {"upload", "save"} => req[r].n # 0
                    /\ req[r].pc \in {"place", "finish"} => req[r].sha # Nothing
  /\ ackedParts \subseteq 1..Last

Init ==
  /\ conf \in Confs
  /\ row = [there |-> TRUE, parts |-> {}, done |-> FALSE]
  /\ multipart = "open" /\ tmp = Nothing /\ store = {}
  /\ lives = [o \in LiveObj |-> FreshLive]
  /\ cur \in LiveObj
  /\ entry = IF conf.expect = "old" THEN Old ELSE Nothing
  /\ req = [r \in Req |-> Idle]
  /\ stale = FALSE /\ sweeping = FALSE /\ fails = 0 /\ crashes = 0
  /\ acked = FALSE /\ ackedParts = {} /\ wrote = FALSE /\ refused = FALSE

Answer(r) == req' = [req EXCEPT ![r] = Idle]
Go(r, pc) == req' = [req EXCEPT ![r].pc = pc]

(* A complete that answers failure for good: a refusal the client sees.    *)
Refuse(r) ==
  /\ Answer(r)
  /\ refused' = (refused \/ (wrote /\ entry = Full))
  /\ UNCHANGED <<acked, ackedParts, wrote>>

(* A request fails half-way on S3 or the database; the client will retry.  *)
Fail(r) ==
  /\ fails < MaxFail
  /\ fails' = fails + 1
  /\ Answer(r)

-----------------------------------------------------------------------------
(* putChunk (relay): the chunk goes through the server, strictly in order. *)

(* The row and the map are read; a session the map has lost goes on with a *)
(* LiveSession whose hash is not valid (resumeRelay). A chunk before the   *)
(* expected one is answered as a duplicate, one after it is refused.       *)
StartChunk(r) ==
  /\ req[r].pc = "idle" /\ ~conf.direct
  /\ row.there /\ ~row.done /\ Cardinality(row.parts) < Last
  /\ \E o \in LiveObj :
       /\ \/ o = cur /\ UNCHANGED mem
          \/ /\ cur = NoObj /\ \A q \in Req : req[q].obj # o
             /\ cur' = o
             /\ lives' = [lives EXCEPT ![o] = [FreshLive EXCEPT !.valid = FALSE]]
       /\ req' = [req EXCEPT ![r] = [Idle EXCEPT !.pc = "upload", !.obj = o, !.parts = row.parts,
                                                 !.n = Cardinality(row.parts) + 1]]
  /\ UNCHANGED <<conf, row, s3, entry, stale, sweeping, fails, crashes, hist>>

(* S3 takes the part, and the hash is fed as soon as it has.               *)
UploadChunk(r) ==
  LET o == req[r].obj
      takes == multipart = "open" /\ ~lives[o].digested IN
  /\ req[r].pc = "upload"
  /\ \/ /\ takes
        /\ lives' = [lives EXCEPT ![o].hash = Append(@, req[r].n)]
        /\ Go(r, "save")
        /\ UNCHANGED fails
     \/ ~takes /\ Answer(r) /\ UNCHANGED <<lives, fails>>
     \/ Fail(r) /\ UNCHANGED lives
  /\ UNCHANGED <<conf, row, s3, cur, entry, stale, sweeping, crashes, hist>>

(* registerPart: the client has put the part into S3 itself and names its  *)
(* ETag, in any order, several at once. A relay session that goes on this  *)
(* way does so in order, and its incremental hash is no longer whole.      *)
RegisterPart(r, n) ==
  /\ req[r].pc = "idle" /\ row.there /\ ~row.done
  /\ multipart = "open" /\ n \notin row.parts
  /\ conf.direct \/ n = Cardinality(row.parts) + 1
  /\ lives' = IF ~conf.direct /\ cur # NoObj THEN [lives EXCEPT ![cur].valid = FALSE] ELSE lives
  /\ req' = [req EXCEPT ![r] = [Idle EXCEPT !.pc = "save", !.n = n, !.parts = row.parts]]
  /\ UNCHANGED <<conf, row, s3, cur, entry, stale, sweeping, fails, crashes, hist>>

(* Mutant: the row is not locked; the write goes over the parts that were  *)
(* read when the request began.                                            *)
SavedUnlocked(r) == req[r].parts \cup {req[r].n}

(* Mutant: parts are counted from zero, as the sizes array is.             *)
SavedFromZero(r) == row.parts \cup {req[r].n - 1}

(* savePart reads the parts again under SELECT ... FOR UPDATE.             *)
Saved(r) == row.parts \cup {req[r].n}

SavePart(r) ==
  /\ req[r].pc = "save"
  /\ \/ /\ row.there
        /\ row' = [row EXCEPT !.parts = Saved(r)]
        /\ stale' = FALSE
        /\ ackedParts' = ackedParts \cup {req[r].n}
        /\ Answer(r)
        /\ UNCHANGED fails
     \/ ~row.there /\ Answer(r) /\ UNCHANGED <<row, stale, ackedParts, fails>>
     \/ Fail(r) /\ UNCHANGED <<row, stale, ackedParts>>
  /\ UNCHANGED <<conf, s3, mem, entry, sweeping, crashes, acked, wrote, refused>>

-----------------------------------------------------------------------------
(* complete *)

(* cleanup: abort the multipart, delete the temporary object, forget both. *)
Cleanup ==
  /\ multipart' = IF multipart = "open" THEN "aborted" ELSE multipart
  /\ tmp' = Nothing
  /\ cur' = NoObj
  /\ row' = [row EXCEPT !.there = FALSE]

(* The parts must be 1..k; with reported sizes they must cover the file.   *)
PartsCover == \E k \in 1..Last : row.parts = 1..k /\ (conf.sized => k = Last)

(* A finished session answers what it answered before.                     *)
Replay(r) ==
  /\ req[r].pc = "idle" /\ row.there /\ row.done
  /\ acked' = TRUE
  /\ UNCHANGED <<conf, row, s3, mem, entry, req, stale, sweeping, fails, crashes,
                 ackedParts, wrote, refused>>

StartComplete(r) ==
  /\ req[r].pc = "idle" /\ row.there /\ ~row.done /\ PartsCover
  /\ req' = [req EXCEPT ![r] = [Idle EXCEPT !.pc = "assemble", !.obj = cur, !.parts = row.parts]]
  /\ UNCHANGED <<conf, row, s3, mem, entry, stale, sweeping, fails, crashes, hist>>

Finalized(r) == req[r].obj # NoObj /\ lives[req[r].obj].finalized

(* What S3 makes of the parts the request has read. *)
Join(r) ==
  /\ multipart = "open"
  /\ multipart' = "done"
  /\ tmp' = Prefix(Cardinality(req[r].parts))

(* completeMultipartUpload, unless this process has done it before; when   *)
(* S3 says no, or its answer is lost, the temporary object decides.        *)
Assemble(r) ==
  /\ req[r].pc = "assemble"
  /\ \/ /\ Finalized(r)
        /\ Go(r, "check") /\ UNCHANGED <<multipart, tmp, lives, fails, refused>>
     \/ /\ ~Finalized(r) /\ Join(r)
        /\ lives' = IF req[r].obj = NoObj THEN lives
                    ELSE [lives EXCEPT ![req[r].obj].finalized = TRUE]
        /\ Go(r, "check") /\ UNCHANGED <<fails, refused>>
     \/ /\ ~Finalized(r) /\ multipart # "open" /\ tmp # Nothing
        /\ Go(r, "check") /\ UNCHANGED <<multipart, tmp, lives, fails, refused>>
     \/ /\ ~Finalized(r) /\ multipart # "open" /\ tmp = Nothing
        /\ Refuse(r) /\ UNCHANGED <<multipart, tmp, lives, fails>>
     \/ /\ ~Finalized(r) /\ Join(r)                       \* the answer is lost
        /\ fails < MaxFail /\ fails' = fails + 1
        /\ Go(r, "check") /\ UNCHANGED <<lives, refused>>
     \/ /\ ~Finalized(r) /\ tmp = Nothing                 \* S3 has failed
        /\ Fail(r) /\ UNCHANGED <<multipart, tmp, lives, refused>>
  /\ UNCHANGED <<conf, row, store, cur, entry, stale, sweeping, crashes, acked, ackedParts, wrote>>

(* Mutant: the entry is taken for ours whatever its content.               *)
AnyEntryIsOurs == conf.declared /\ entry # Nothing

(* Mutant: the earlier call's entry is not looked for.                     *)
NoReplayFinish == FALSE

(* replayFinish: the entry has the declared content. *)
EntryIsOurs == conf.declared /\ entry = Full

(* Mutant: the object is taken as it is. *)
AnyObject(r) == tmp # Nothing

WholeObject(r) == Len(tmp) = Last

(* HEAD of the temporary object and its size. Without it the earlier call  *)
(* may have got to the end; otherwise the session is given up.             *)
Check(r) ==
  /\ req[r].pc = "check"
  /\ \/ /\ WholeObject(r)
        /\ Go(r, "hash")
        /\ UNCHANGED <<multipart, tmp, cur, row, fails, acked, refused>>
     \/ /\ tmp = Nothing /\ EntryIsOurs
        /\ row' = [row EXCEPT !.done = TRUE] /\ cur' = NoObj /\ acked' = TRUE
        /\ Answer(r) /\ UNCHANGED <<multipart, tmp, fails, refused>>
     \/ /\ ~WholeObject(r) /\ (tmp = Nothing => ~EntryIsOurs)
        /\ Cleanup
        /\ Answer(r) /\ refused' = (refused \/ (wrote /\ entry = Full))
        /\ UNCHANGED <<fails, acked>>
  /\ UNCHANGED <<conf, store, lives, entry, stale, sweeping, crashes, ackedParts, wrote>>

(* The incremental hash counts for a relay that went through this process  *)
(* from the start; it is digested even when the cached value is there.     *)
Incremental(r) == ~conf.direct /\ req[r].obj # NoObj /\ lives[req[r].obj].valid

(* The cached hash, else the incremental one. *)
KnownSha(r) ==
  IF req[r].obj = NoObj THEN Nothing
  ELSE LET l == lives[req[r].obj] IN
       IF l.sha # Nothing THEN l.sha ELSE IF Incremental(r) THEN l.hash ELSE Nothing

(* Mutant: the incremental hash is believed though the client declares     *)
(* another one.                                                            *)
BelievesKnown(r) == KnownSha(r) # Nothing

(* A known hash is used unless the client claims another one. *)
Trusts(r) == KnownSha(r) # Nothing /\ (conf.declared => KnownSha(r) = Full)

DigestAgain(r) == Incremental(r) /\ lives[req[r].obj].digested

(* sha256: digested, or computed from the object in S3.                    *)
Hash(r) ==
  LET o == req[r].obj IN
  /\ req[r].pc = "hash"
  /\ lives' = IF o = NoObj THEN lives
              ELSE [lives EXCEPT ![o].digested = @ \/ Incremental(r), ![o].sha = KnownSha(r)]
  /\ \/ /\ DigestAgain(r)
        /\ Refuse(r) /\ UNCHANGED <<multipart, tmp, cur, row>>
     \/ /\ ~DigestAgain(r) /\ Trusts(r)
        /\ req' = [req EXCEPT ![r].pc = "place", ![r].sha = KnownSha(r)]
        /\ UNCHANGED <<multipart, tmp, cur, row, hist>>
     \/ /\ ~DigestAgain(r) /\ ~Trusts(r) /\ tmp = Nothing
        /\ Answer(r) /\ UNCHANGED <<multipart, tmp, cur, row, hist>>
     \/ /\ ~DigestAgain(r) /\ ~Trusts(r) /\ tmp # Nothing
        /\ req' = [req EXCEPT ![r].pc = "place", ![r].sha = tmp]
        /\ UNCHANGED <<multipart, tmp, cur, row, hist>>
  /\ UNCHANGED <<conf, store, entry, stale, sweeping, fails, crashes>>

(* The object under its content-addressed key: copied unless it is there.  *)
Place(r) ==
  LET there == \E p \in store : p[1] = req[r].sha IN
  /\ req[r].pc = "place"
  /\ \/ there /\ Go(r, "finish") /\ UNCHANGED store
     \/ /\ ~there /\ tmp # Nothing
        /\ store' = store \cup {<<req[r].sha, tmp>>}
        /\ Go(r, "finish")
     \/ ~there /\ tmp = Nothing /\ Answer(r) /\ UNCHANGED store
  /\ UNCHANGED <<conf, row, multipart, tmp, mem, entry, stale, sweeping, fails, crashes, hist>>

(* createEntry's decision under the session's precondition and flag.       *)
VersionOk == conf.expect = "any" \/ entry = Old
Writes(r) == VersionOk /\ (entry # Nothing => conf.replace)

(* finish: a name conflict is a success when the entry has this content    *)
(* already and no version was named; otherwise 409.                        *)
Finish(r) ==
  LET same == conf.expect = "any" /\ entry = req[r].sha IN
  /\ req[r].pc = "finish"
  /\ \/ /\ Writes(r)
        /\ entry' = req[r].sha /\ wrote' = TRUE
        /\ Go(r, "drop") /\ UNCHANGED <<fails, acked, ackedParts, refused>>
     \/ ~Writes(r) /\ same /\ Go(r, "drop") /\ UNCHANGED <<entry, fails, hist>>
     \/ ~Writes(r) /\ ~same /\ Refuse(r) /\ UNCHANGED <<entry, fails>>
     \/ Fail(r) /\ UNCHANGED <<entry, hist>>
  /\ UNCHANGED <<conf, row, s3, mem, stale, sweeping, crashes>>

(* The temporary object goes only now; a failure to delete it is ignored.  *)
Drop(r) ==
  /\ req[r].pc = "drop"
  /\ Go(r, "mark")
  /\ \/ tmp' = Nothing /\ UNCHANGED fails
     \/ fails < MaxFail /\ fails' = fails + 1 /\ UNCHANGED tmp
  /\ UNCHANGED <<conf, row, multipart, store, mem, entry, stale, sweeping, crashes, hist>>

(* completedAt and the result, for the next retry; then the answer.        *)
Mark(r) ==
  /\ req[r].pc = "mark"
  /\ \/ /\ row.there
        /\ row' = [row EXCEPT !.done = TRUE]
        /\ cur' = NoObj /\ stale' = FALSE /\ acked' = TRUE
        /\ Answer(r) /\ UNCHANGED fails
     \/ ~row.there /\ Answer(r) /\ UNCHANGED <<row, cur, stale, acked, fails>>
     \/ Fail(r) /\ UNCHANGED <<row, cur, stale, acked>>
  /\ UNCHANGED <<conf, s3, lives, entry, sweeping, crashes, ackedParts, wrote, refused>>

-----------------------------------------------------------------------------
(* abort, the sweep of stale sessions, and the rest of the world           *)

Abort ==
  /\ row.there
  /\ Cleanup
  /\ UNCHANGED <<conf, store, lives, entry, req, stale, sweeping, fails, crashes, hist>>

(* Hours pass without a request (an hour, after completion).               *)
GrowStale ==
  /\ row.there /\ ~stale /\ \A r \in Req : req[r].pc = "idle"
  /\ stale' = TRUE
  /\ UNCHANGED <<conf, row, s3, mem, entry, req, sweeping, fails, crashes, hist>>

(* sweepStale lists the stale rows and then clears them one by one. *)
SweepList ==
  /\ row.there /\ stale /\ ~sweeping
  /\ sweeping' = TRUE
  /\ UNCHANGED <<conf, row, s3, mem, entry, req, stale, fails, crashes, hist>>

(* Mutant: the row goes, the multipart upload and the object stay in S3.   *)
SweepCleanRowOnly ==
  /\ sweeping /\ sweeping' = FALSE
  /\ row' = [row EXCEPT !.there = FALSE] /\ cur' = NoObj
  /\ UNCHANGED <<conf, s3, lives, entry, req, stale, fails, crashes, hist>>

SweepClean ==
  /\ sweeping /\ sweeping' = FALSE
  /\ Cleanup
  /\ UNCHANGED <<conf, store, lives, entry, req, stale, fails, crashes, hist>>

(* Another device writes the same name. *)
OtherWrite ==
  /\ entry' = Other /\ entry # Other
  /\ UNCHANGED <<conf, row, s3, mem, req, stale, sweeping, fails, crashes, hist>>

(* The service restarts: memory and requests are gone, S3 and the database *)
(* are as they were.                                                       *)
Crash ==
  /\ crashes < MaxCrash
  /\ crashes' = crashes + 1
  /\ lives' = [o \in LiveObj |-> FreshLive] /\ cur' = NoObj
  /\ req' = [r \in Req |-> Idle] /\ sweeping' = FALSE
  /\ UNCHANGED <<conf, row, s3, entry, stale, fails, hist>>

-----------------------------------------------------------------------------

Handle(r) ==
  \/ UploadChunk(r) \/ SavePart(r) \/ Assemble(r) \/ Check(r) \/ Hash(r)
  \/ Place(r) \/ Finish(r) \/ Drop(r) \/ Mark(r)

Ask(r) == \/ StartChunk(r) \/ StartComplete(r) \/ Replay(r)
          \/ \E n \in 1..Last : RegisterPart(r, n)

Next ==
  \/ \E r \in Req : Ask(r) \/ Handle(r)
  \/ Abort \/ GrowStale \/ SweepList \/ SweepClean \/ OtherWrite \/ Crash

Spec == Init /\ [][Next]_vars

(* A client alone with the service, that never gives up; the failures and  *)
(* the restarts end.                                                       *)
NextAlone == Crash \/ \E r \in Req : Ask(r) \/ Handle(r)

FairSpec ==
  /\ Init /\ [][NextAlone]_vars
  /\ \A r \in Req : WF_vars(Handle(r)) /\ WF_vars(Ask(r))

-----------------------------------------------------------------------------
(* Properties *)

(* What lies under files/<sha> has that sha: the header of the service     *)
(* says a wrong key would poison the dedup of the whole storage.           *)
StoreHonest == \A p \in store : p[1] = p[2]

(* Only a whole file enters the tree, and success is answered only when    *)
(* this session's content has been written or was there under the name.    *)
OnlyWholeFile == entry \in {Nothing, Old, Other, Full}

SuccessIsTrue == acked => wrote \/ \E p \in store : p[2] = Full

(* What a complete has answered and what the store holds are true.         *)
AnswersTrue == SuccessIsTrue /\ StoreHonest

(* A part whose acceptance was answered stays with the session, however    *)
(* many registrations run at once (a part of a video was lost so once).    *)
AcceptedPartsStay == ackedParts \subseteq row.parts

(* complete may be repeated: it does not refuse a file it has written and  *)
(* that is still there.                                                    *)
CompleteRepeatable == ~refused

(* A version this session has written itself is not another's version:     *)
(* createEntry does not answer stale_version to the retry of its writer.   *)
OwnWriteNotStale ==
  \A r \in Req : req[r].pc = "finish" /\ wrote /\ entry = req[r].sha => VersionOk

(* The digest of the incremental hash is not asked for twice: a complete   *)
(* that has failed half-way may be repeated.                               *)
DigestOnce == \A r \in Req : req[r].pc = "hash" => ~DigestAgain(r)

(* A session that is gone leaves nothing in S3. *)
NothingLeft ==
  ~row.there /\ (\A r \in Req : req[r].pc = "idle") => tmp = Nothing /\ multipart # "open"

(* A client that keeps trying gets its file accepted. *)
EventuallyAcked == <>acked

=============================================================================
