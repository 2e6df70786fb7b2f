------------------------------ MODULE FilesProofs ------------------------------
(***************************************************************************)
(* What an upload session guarantees for any number of requests at once,   *)
(* parts, failures and restarts; and, for any clients, ids, folders, names, *)
(* contents and styles of call, that the calls of NamedFiles, each a read  *)
(* and a transaction, implement the calls of VersionedFiles, each of which *)
(* takes effect at one moment.                                             *)
(*                                                                         *)
(* Every check of the upload reads something that another request may      *)
(* change before it is used: the size of the temporary object, the hash,   *)
(* the row. The invariant says why what was read still holds: the object   *)
(* is made once, and after that it can only go.                            *)
(*                                                                         *)
(* And for archives of any members that they are read as they are, and for *)
(* shots and whoever looks at them that their date is kept (Readings).     *)
(***************************************************************************)
EXTENDS UploadSession, NamedFiles, Readings, SequenceTheorems, FiniteSetTheorems, WellFoundedInduction, TLAPS


Hash0   == Seq(Int)
ReqRec  == [pc : ReqPC, n : 0..Last, obj : LiveObj \cup {NoObj}, parts : SUBSET (1..Last), sha : Hash0]
LiveRec == [hash : Hash0, valid : BOOLEAN, digested : BOOLEAN, sha : Hash0, finalized : BOOLEAN]
RowRec  == [there : BOOLEAN, parts : SUBSET (1..Last), done : BOOLEAN]

Typed ==
  /\ conf \in Conf /\ row \in RowRec /\ multipart \in {"open", "done", "aborted"}
  /\ tmp \in Hash0 /\ lives \in [LiveObj -> LiveRec] /\ cur \in LiveObj \cup {NoObj}
  /\ req \in [Req -> ReqRec]
  /\ \A r \in Req : /\ req[r].pc = "upload" => req[r].obj \in LiveObj
                    /\ req[r].pc \in {"upload", "save"} => req[r].n # 0

-----------------------------------------------------------------------------
(* Contents *)

LEMMA PrefixIs ==
  ASSUME NEW k \in Nat
  PROVE  Prefix(k) \in Hash0 /\ Len(Prefix(k)) = k
<1>1. Prefix(k) \in [1..k -> Int]
  BY DEF Prefix
<1>2. Prefix(k) \in Hash0
  BY <1>1, SeqDef DEF Hash0
<1>3. Len(Prefix(k)) \in Nat /\ DOMAIN Prefix(k) = 1..Len(Prefix(k))
  BY <1>2, LenProperties DEF Hash0
<1>4. \A i \in Int : i \in 1..k <=> i \in 1..Len(Prefix(k))
  BY <1>1, <1>3
<1>5. ASSUME NEW m \in Nat, \A i \in Int : i \in 1..k <=> i \in 1..m PROVE m = k
  <2>1. (k \in 1..k <=> k \in 1..m) /\ (m \in 1..k <=> m \in 1..m)
    BY <1>5
  <2> QED BY <2>1
<1> QED BY <1>2, <1>3, <1>4, <1>5

LEMMA ContentsDiffer ==
  /\ Full = Prefix(Last) /\ Full \in Hash0 /\ Nothing \in Hash0
  /\ Full # Nothing /\ Full # Old /\ Full # Other /\ Len(Nothing) = 0
<1>1. Full = Prefix(Last)
  BY DEF Full, Prefix
<1>2. Last \in Nat /\ Last # 0
  BY LastAssumption
<1>3. Full \in Hash0 /\ Len(Full) = Last
  BY <1>1, <1>2, PrefixIs
<1>4. Nothing \in Hash0 /\ Len(Nothing) = 0
  BY EmptySeq DEF Nothing, Hash0
<1>5. Full[1] = 1
  BY <1>2 DEF Full
<1> QED BY <1>1, <1>2, <1>3, <1>4, <1>5 DEF Old, Other

(* Parts are counted. *)
LEMMA PartsCounted ==
  ASSUME NEW P \in SUBSET (1..Last)
  PROVE  Cardinality(P) \in Nat /\ Prefix(Cardinality(P)) \in Hash0
<1>1. IsFiniteSet(1..Last)
  BY LastAssumption, FS_Interval
<1>2. IsFiniteSet(P)
  BY <1>1, FS_Subset
<1> QED BY <1>2, FS_CardinalityType, PrefixIs

-----------------------------------------------------------------------------
(* Types *)

LEMMA IdleTyped == Idle \in ReqRec /\ Idle.pc = "idle" /\ Idle.sha = Nothing /\ Idle.parts = {}
  BY ContentsDiffer, LastAssumption DEF Idle, ReqRec, ReqPC

LEMMA FreshTyped ==
  /\ FreshLive \in LiveRec /\ FreshLive.sha = Nothing /\ FreshLive.finalized = FALSE
  /\ [FreshLive EXCEPT !.valid = FALSE] \in LiveRec
  /\ [FreshLive EXCEPT !.valid = FALSE].sha = Nothing
  /\ [FreshLive EXCEPT !.valid = FALSE].finalized = FALSE
  BY ContentsDiffer DEF FreshLive, LiveRec

LEMMA AnswerMakes ==
  ASSUME Typed, NEW r \in Req, Answer(r)
  PROVE  /\ req' \in [Req -> ReqRec] /\ req'[r] = Idle /\ req'[r].pc = "idle"
         /\ \A s \in Req \ {r} : req'[s] = req[s]
  BY IdleTyped DEF Typed, Answer

LEMMA GoMakes ==
  ASSUME Typed, NEW r \in Req, NEW p \in ReqPC, Go(r, p)
  PROVE  /\ req' \in [Req -> ReqRec] /\ req'[r] = [req[r] EXCEPT !.pc = p]
         /\ req'[r].pc = p /\ req'[r].sha = req[r].sha /\ req'[r].n = req[r].n /\ req'[r].obj = req[r].obj
         /\ \A s \in Req \ {r} : req'[s] = req[s]
<1> DEFINE q == [req[r] EXCEPT !.pc = p]
<1>1. q \in ReqRec /\ q.pc = p /\ q.sha = req[r].sha /\ q.n = req[r].n /\ q.obj = req[r].obj
  BY DEF Typed, ReqRec
<1>2. req' = [req EXCEPT ![r] = q]
  BY DEF Go
<1> HIDE DEF q
<1>3. req' \in [Req -> ReqRec] /\ req'[r] = q /\ \A s \in Req \ {r} : req'[s] = req[s]
  BY <1>1, <1>2 DEF Typed
<1> QED BY <1>1, <1>3 DEF q

(* The requests keep their shape if the one that moves keeps it. *)
ReqShape(q) == /\ q.pc = "upload" => q.obj \in LiveObj
               /\ q.pc \in {"upload", "save"} => q.n # 0

LEMMA TypedInit == Init => Typed
<1> SUFFICES ASSUME Init PROVE Typed
  OBVIOUS
<1>1. conf \in Conf
  BY ConfsAssumption DEF Init
<1>2. row \in RowRec
  BY DEF Init, RowRec
<1>3. tmp \in Hash0 /\ lives \in [LiveObj -> LiveRec] /\ req \in [Req -> ReqRec]
  BY ContentsDiffer, IdleTyped, FreshTyped DEF Init
<1>4. \A r \in Req : req[r].pc = "idle"
  BY IdleTyped DEF Init
<1> QED BY <1>1, <1>2, <1>3, <1>4 DEF Init, Typed

(* What a request that moves leaves of the types. *)
LEMMA TypedBy ==
  ASSUME Typed, UNCHANGED conf, row' \in RowRec, multipart' \in {"open", "done", "aborted"},
         tmp' \in Hash0, lives' \in [LiveObj -> LiveRec], cur' \in LiveObj \cup {NoObj},
         req' \in [Req -> ReqRec], NEW r \in Req, ReqShape(req'[r]),
         \A s \in Req \ {r} : req'[s] = req[s]
  PROVE  Typed'
  BY DEF Typed, ReqShape

LEMMA TypedStarts ==
  ASSUME Typed, NEW r \in Req,
         StartChunk(r) \/ StartComplete(r) \/ Replay(r) \/ \E n \in 1..Last : RegisterPart(r, n)
  PROVE  Typed'
<1>t. /\ row \in RowRec /\ multipart \in {"open", "done", "aborted"} /\ tmp \in Hash0
      /\ lives \in [LiveObj -> LiveRec] /\ cur \in LiveObj \cup {NoObj} /\ req \in [Req -> ReqRec]
      /\ row.parts \in SUBSET (1..Last) /\ Last \in Nat /\ Last # 0
  BY LastAssumption DEF Typed, RowRec
<1>1. CASE StartChunk(r)
  <2>1. PICK o \in LiveObj :
          /\ \/ o = cur /\ UNCHANGED mem
             \/ /\ cur' = o
                /\ lives' = [lives EXCEPT ![o] = [FreshLive EXCEPT !.valid = FALSE]]
          /\ req' = [req EXCEPT ![r] = [Idle EXCEPT !.pc = "upload", !.obj = o, !.parts = row.parts,
                                                    !.n = Cardinality(row.parts) + 1]]
    BY <1>1 DEF StartChunk
  <2> DEFINE q == [Idle EXCEPT !.pc = "upload", !.obj = o, !.parts = row.parts,
                               !.n = Cardinality(row.parts) + 1]
  <2>2. Cardinality(row.parts) + 1 \in 0..Last /\ Cardinality(row.parts) + 1 # 0
    <3>1. Cardinality(row.parts) < Last
      BY <1>1 DEF StartChunk
    <3>2. Cardinality(row.parts) \in Nat
      BY <1>t, PartsCounted
    <3> QED BY <1>t, <3>1, <3>2
  <2>3. q \in ReqRec /\ q.obj = o /\ q.n # 0
    <3> DEFINE m == Cardinality(row.parts) + 1
    <3>1. m \in 0..Last /\ m # 0
      BY <2>2
    <3> HIDE DEF m
    <3>2. q = [Idle EXCEPT !.pc = "upload", !.obj = o, !.parts = row.parts, !.n = m]
      BY DEF m
    <3> HIDE DEF q
    <3> QED BY <1>t, <3>1, <3>2, IdleTyped DEF ReqRec, ReqPC
  <2>r. req' = [req EXCEPT ![r] = q]
    BY <2>1
  <2> HIDE DEF q
  <2>4. req' \in [Req -> ReqRec] /\ req'[r] = q /\ \A s \in Req \ {r} : req'[s] = req[s]
    BY <1>t, <2>3, <2>r
  <2>5. lives' \in [LiveObj -> LiveRec] /\ cur' \in LiveObj
    BY <1>t, <2>1, FreshTyped DEF mem
  <2> QED BY <1>t, <1>1, <2>3, <2>4, <2>5, TypedBy DEF StartChunk, s3, ReqShape
<1>2. CASE StartComplete(r)
  <2> DEFINE q == [Idle EXCEPT !.pc = "assemble", !.obj = cur, !.parts = row.parts]
  <2>1. q \in ReqRec /\ q.pc = "assemble"
    BY <1>t, IdleTyped DEF ReqRec, ReqPC
  <2> HIDE DEF q
  <2>2. req' \in [Req -> ReqRec] /\ req'[r] = q /\ \A s \in Req \ {r} : req'[s] = req[s]
    BY <1>t, <1>2, <2>1 DEF StartComplete, q
  <2> QED BY <1>t, <1>2, <2>1, <2>2, TypedBy DEF StartComplete, s3, mem, ReqShape
<1>3. CASE Replay(r)
  BY <1>t, <1>3 DEF Replay, Typed, s3, mem
<1>4. ASSUME NEW n \in 1..Last, RegisterPart(r, n) PROVE Typed'
  <2> DEFINE q == [Idle EXCEPT !.pc = "save", !.n = n, !.parts = row.parts]
  <2>1. q \in ReqRec /\ q.pc = "save" /\ q.n # 0
    <3>1. n \in 0..Last /\ n # 0
      BY <1>t
    <3> QED BY <1>t, <3>1, IdleTyped DEF ReqRec, ReqPC
  <2> HIDE DEF q
  <2>2. req' \in [Req -> ReqRec] /\ req'[r] = q /\ \A s \in Req \ {r} : req'[s] = req[s]
    BY <1>t, <1>4, <2>1 DEF RegisterPart, q
  <2>3. lives' \in [LiveObj -> LiveRec]
    <3>1. lives' = lives \/ lives' = [lives EXCEPT ![cur].valid = FALSE]
      BY <1>4 DEF RegisterPart
    <3> QED BY <1>t, <3>1 DEF LiveRec
  <2> QED BY <1>t, <1>4, <2>1, <2>2, <2>3, TypedBy DEF RegisterPart, s3, ReqShape
<1> QED BY <1>1, <1>2, <1>3, <1>4

LEMMA TypedHandles ==
  ASSUME Typed, NEW r \in Req, Handle(r)
  PROVE  Typed'
<1>t. /\ row \in RowRec /\ multipart \in {"open", "done", "aborted"} /\ tmp \in Hash0 /\ Nothing \in Hash0
      /\ lives \in [LiveObj -> LiveRec] /\ cur \in LiveObj \cup {NoObj} /\ req \in [Req -> ReqRec]
      /\ req[r] \in ReqRec
  BY ContentsDiffer DEF Typed
<1>f. UNCHANGED conf
  BY DEF Handle, UploadChunk, SavePart, Assemble, Check, Hash, Place, Finish, Drop, Mark
<1>a. Answer(r) => /\ req' \in [Req -> ReqRec] /\ ReqShape(req'[r]) /\ \A s \in Req \ {r} : req'[s] = req[s]
  BY AnswerMakes DEF ReqShape
<1>g. ASSUME NEW p \in ReqPC, Go(r, p), p # "upload", p = "save" => req[r].n # 0
      PROVE  /\ req' \in [Req -> ReqRec] /\ ReqShape(req'[r]) /\ \A s \in Req \ {r} : req'[s] = req[s]
  BY <1>g, GoMakes DEF ReqShape
<1> DEFINE ReqOk == /\ req' \in [Req -> ReqRec] /\ ReqShape(req'[r])
                    /\ \A s \in Req \ {r} : req'[s] = req[s]
<1>1. CASE UploadChunk(r)
  <2>1. req[r].obj \in LiveObj /\ req[r].n # 0 /\ UNCHANGED <<row, s3, cur>>
    BY <1>1 DEF UploadChunk, Typed
  <2>2. /\ lives' = lives \/ lives' = [lives EXCEPT ![req[r].obj].hash = Append(@, req[r].n)]
        /\ Answer(r) \/ Go(r, "save")
    BY <1>1 DEF UploadChunk, Fail
  <2>3. lives' \in [LiveObj -> LiveRec]
    <3>1. lives[req[r].obj].hash \in Hash0 /\ req[r].n \in Int
      BY <1>t, <2>1, LastAssumption DEF LiveRec, ReqRec
    <3>2. Append(lives[req[r].obj].hash, req[r].n) \in Hash0
      BY <3>1, AppendProperties DEF Hash0
    <3> QED BY <1>t, <2>1, <2>2, <3>2 DEF LiveRec
  <2>4. ReqOk
    BY <1>a, <1>g, <2>1, <2>2 DEF ReqPC
  <2> QED BY <1>t, <1>f, <2>1, <2>3, <2>4, TypedBy DEF s3
<1>2. CASE SavePart(r)
  <2>1. Answer(r) /\ UNCHANGED <<s3, mem>> /\ (row' = row \/ row' = [row EXCEPT !.parts = row.parts \cup {req[r].n}])
    BY <1>2 DEF SavePart, Fail, Saved
  <2>2. row' \in RowRec
    <3>1. req[r].n \in 1..Last
      BY <1>t, <1>2, LastAssumption DEF SavePart, Typed, ReqRec
    <3> QED BY <1>t, <2>1, <3>1 DEF RowRec
  <2> QED BY <1>t, <1>f, <1>a, <2>1, <2>2, TypedBy DEF s3, mem
<1>3. CASE Assemble(r)
  <2>1. /\ Answer(r) \/ Go(r, "check")
        /\ (UNCHANGED <<multipart, tmp>>) \/ Join(r)
        /\ \/ UNCHANGED lives
           \/ req[r].obj # NoObj /\ lives' = [lives EXCEPT ![req[r].obj].finalized = TRUE]
        /\ UNCHANGED <<row, cur>>
    BY <1>3 DEF Assemble, Refuse, Fail
  <2>2. multipart' \in {"open", "done", "aborted"} /\ tmp' \in Hash0
    BY <1>t, <2>1, PartsCounted DEF Join, ReqRec
  <2>3. lives' \in [LiveObj -> LiveRec]
    <3> SUFFICES ASSUME req[r].obj # NoObj, lives' = [lives EXCEPT ![req[r].obj].finalized = TRUE]
                 PROVE  lives' \in [LiveObj -> LiveRec]
      BY <1>t, <2>1
    <3> DEFINE l == [lives[req[r].obj] EXCEPT !.finalized = TRUE]
    <3>1. l \in LiveRec
      BY <1>t DEF LiveRec, ReqRec
    <3>2. lives' = [lives EXCEPT ![req[r].obj] = l]
      OBVIOUS
    <3> HIDE DEF l
    <3> QED BY <1>t, <3>1, <3>2
  <2>4. ReqOk
    BY <1>a, <1>g, <2>1 DEF ReqPC
  <2> QED BY <1>t, <1>f, <2>1, <2>2, <2>3, <2>4, TypedBy
<1>4. CASE Check(r)
  <2>1. /\ Answer(r) \/ Go(r, "hash")
        /\ \/ UNCHANGED <<multipart, tmp, cur, row>>
           \/ row' = [row EXCEPT !.done = TRUE] /\ cur' = NoObj /\ UNCHANGED <<multipart, tmp>>
           \/ Cleanup
        /\ UNCHANGED lives
    BY <1>4 DEF Check
  <2>2. multipart' \in {"open", "done", "aborted"} /\ tmp' \in Hash0 /\ cur' \in LiveObj \cup {NoObj} /\ row' \in RowRec
    BY <1>t, <2>1 DEF Cleanup, RowRec
  <2>3. ReqOk
    BY <1>a, <1>g, <2>1 DEF ReqPC
  <2> QED BY <1>t, <1>f, <2>1, <2>2, <2>3, TypedBy
<1>5. CASE Hash(r)
  <2>1. /\ \/ Answer(r)
           \/ req' = [req EXCEPT ![r].pc = "place", ![r].sha = KnownSha(r)]
           \/ req' = [req EXCEPT ![r].pc = "place", ![r].sha = tmp]
        /\ lives' = IF req[r].obj = NoObj THEN lives
                    ELSE [lives EXCEPT ![req[r].obj].digested = @ \/ Incremental(r), ![req[r].obj].sha = KnownSha(r)]
        /\ UNCHANGED <<row, multipart, tmp, cur>>
    BY <1>5 DEF Hash, Refuse
  <2>2. KnownSha(r) \in Hash0
    BY <1>t DEF KnownSha, ReqRec, LiveRec
  <2>3. lives' \in [LiveObj -> LiveRec]
    <3>1. CASE req[r].obj = NoObj
      BY <1>t, <2>1, <3>1
    <3>2. CASE req[r].obj # NoObj
      <4> DEFINE o == req[r].obj
                 d == lives[o].digested \/ Incremental(r)
                 l == [lives[o] EXCEPT !.digested = d, !.sha = KnownSha(r)]
      <4>1. o \in LiveObj /\ d \in BOOLEAN
        BY <1>t, <3>2 DEF ReqRec, Incremental
      <4>2. l \in LiveRec
        <5> HIDE DEF d
        <5> QED BY <1>t, <2>2, <4>1 DEF LiveRec
      <4>3. lives' = [lives EXCEPT ![o] = l]
        BY <2>1, <3>2
      <4> HIDE DEF l
      <4> QED BY <1>t, <4>1, <4>2, <4>3
    <3> QED BY <3>1, <3>2
  <2>4. ReqOk
    <3>1. ASSUME NEW h \in Hash0, req' = [req EXCEPT ![r].pc = "place", ![r].sha = h] PROVE ReqOk
      <4> DEFINE q == [req[r] EXCEPT !.pc = "place", !.sha = h]
      <4>1. q \in ReqRec /\ q.pc = "place"
        BY <1>t DEF ReqRec, ReqPC
      <4>2. req' = [req EXCEPT ![r] = q]
        BY <3>1
      <4> HIDE DEF q
      <4> QED BY <1>t, <4>1, <4>2 DEF ReqShape
    <3> QED BY <1>t, <1>a, <2>1, <2>2, <3>1
  <2> QED BY <1>t, <1>f, <2>1, <2>3, <2>4, TypedBy
<1>6. CASE Place(r) \/ Finish(r)
  <2>1. (Answer(r) \/ Go(r, "finish") \/ Go(r, "drop")) /\ UNCHANGED <<row, multipart, tmp, mem>>
    BY <1>6 DEF Place, Finish, Refuse, Fail, s3
  <2>2. ReqOk
    BY <1>a, <1>g, <2>1 DEF ReqPC
  <2> QED BY <1>t, <1>f, <2>1, <2>2, TypedBy DEF mem
<1>7. CASE Drop(r)
  <2>1. Go(r, "mark") /\ UNCHANGED <<row, multipart, mem>> /\ tmp' \in {tmp, Nothing}
    BY <1>7 DEF Drop
  <2>2. ReqOk
    BY <1>g, <2>1 DEF ReqPC
  <2> QED BY <1>t, <1>f, <2>1, <2>2, TypedBy DEF mem
<1>8. CASE Mark(r)
  <2>1. /\ Answer(r) /\ UNCHANGED <<s3, lives>> /\ cur' \in {cur, NoObj}
        /\ row' = row \/ row' = [row EXCEPT !.done = TRUE]
    BY <1>8 DEF Mark, Fail
  <2>2. row' \in RowRec
    BY <1>t, <2>1 DEF RowRec
  <2> QED BY <1>t, <1>f, <1>a, <2>1, <2>2, TypedBy DEF s3
<1> QED BY <1>1, <1>2, <1>3, <1>4, <1>5, <1>6, <1>7, <1>8 DEF Handle

LEMMA TypedWorld ==
  ASSUME Typed, Abort \/ GrowStale \/ SweepList \/ SweepClean \/ OtherWrite \/ Crash
  PROVE  Typed'
<1>t. row \in RowRec /\ multipart \in {"open", "done", "aborted"} /\ tmp \in Hash0 /\ Nothing \in Hash0
  BY ContentsDiffer DEF Typed
<1>1. CASE Abort \/ SweepClean
  <2>1. Cleanup /\ UNCHANGED <<conf, lives, req>>
    BY <1>1 DEF Abort, SweepClean
  <2>2. row' \in RowRec
    BY <1>t, <2>1 DEF Cleanup, RowRec
  <2> QED BY <1>t, <2>1, <2>2 DEF Cleanup, Typed
<1>2. CASE GrowStale \/ SweepList \/ OtherWrite
  BY <1>2 DEF GrowStale, SweepList, OtherWrite, Typed, s3, mem
<1>3. CASE Crash
  <2>1. /\ lives' = [o \in LiveObj |-> FreshLive] /\ cur' = NoObj /\ req' = [r \in Req |-> Idle]
        /\ UNCHANGED <<conf, row, multipart, tmp>>
    BY <1>3 DEF Crash, s3
  <2>2. lives' \in [LiveObj -> LiveRec] /\ req' \in [Req -> ReqRec] /\ \A r \in Req : req'[r].pc = "idle"
    BY <2>1, FreshTyped, IdleTyped
  <2> QED BY <1>t, <2>1, <2>2 DEF Typed
<1> QED BY <1>1, <1>2, <1>3

LEMMA TypedStep == Typed /\ [Next]_vars => Typed'
<1> SUFFICES ASSUME Typed, [Next]_vars PROVE Typed'
  OBVIOUS
<1>1. CASE UNCHANGED vars
  BY <1>1 DEF vars, Typed
<1>2. ASSUME NEW r \in Req, Ask(r) PROVE Typed'
  BY <1>2, TypedStarts DEF Ask
<1>3. ASSUME NEW r \in Req, Handle(r) PROVE Typed'
  BY <1>3, TypedHandles
<1> QED BY <1>1, <1>2, <1>3, TypedWorld DEF Next

-----------------------------------------------------------------------------
(* Parts that were accepted *)

(* Every part whose acceptance was answered is in the row, though requests *)
(* read the row and write it in two steps: savePart reads it again under   *)
(* the lock and only adds to it.                                           *)
THEOREM PartsStay == Spec => []AcceptedPartsStay
<1>1. Init => AcceptedPartsStay
  BY DEF Init, AcceptedPartsStay
<1>2. Typed /\ AcceptedPartsStay /\ [Next]_vars => AcceptedPartsStay'
  <2> SUFFICES ASSUME Typed, AcceptedPartsStay, [Next]_vars PROVE ackedParts' \subseteq row'.parts
    BY DEF AcceptedPartsStay
  <2>t. row \in RowRec /\ ackedParts \subseteq row.parts
    BY DEF Typed, AcceptedPartsStay
  <2>1. ASSUME NEW r \in Req, SavePart(r) PROVE ackedParts' \subseteq row'.parts
    <3>1. \/ UNCHANGED <<row, ackedParts>>
          \/ /\ row' = [row EXCEPT !.parts = row.parts \cup {req[r].n}]
             /\ ackedParts' = ackedParts \cup {req[r].n}
      BY <2>1 DEF SavePart, Saved
    <3> QED BY <2>t, <3>1 DEF RowRec
  <2>2. row'.parts = row.parts /\ UNCHANGED ackedParts => ackedParts' \subseteq row'.parts
    BY <2>t
  <2>3. ASSUME NEW r \in Req, Ask(r) PROVE row'.parts = row.parts /\ UNCHANGED ackedParts
    BY <2>3 DEF Ask, StartChunk, StartComplete, Replay, RegisterPart, hist
  <2>4. ASSUME NEW r \in Req, Handle(r), ~SavePart(r) PROVE row'.parts = row.parts /\ UNCHANGED ackedParts
    <3>1. /\ UNCHANGED ackedParts
          /\ row' = row \/ row' = [row EXCEPT !.done = TRUE] \/ row' = [row EXCEPT !.there = FALSE]
      BY <2>4 DEF Handle, UploadChunk, Assemble, Check, Hash, Place, Finish, Drop, Mark, Cleanup, Refuse, hist
    <3> QED BY <2>t, <3>1 DEF RowRec
  <2>5. Abort \/ GrowStale \/ SweepList \/ SweepClean \/ OtherWrite \/ Crash \/ UNCHANGED vars
          => row'.parts = row.parts /\ UNCHANGED ackedParts
    BY <2>t DEF Abort, GrowStale, SweepList, SweepClean, OtherWrite, Crash, vars, Cleanup, hist, RowRec
  <2> QED BY <2>1, <2>2, <2>3, <2>4, <2>5 DEF Next
<1> QED BY <1>1, <1>2, TypedInit, TypedStep, PTL DEF Spec

-----------------------------------------------------------------------------
(* The temporary object *)

(* The object is made once, by whoever joins the parts; after that it can  *)
(* only go. So what a request has seen of it holds as long as there is one. *)
MadeOnce ==
  /\ tmp # Nothing => multipart = "done" /\ \E k \in Nat : tmp = Prefix(k)
  /\ ~row.there => tmp = Nothing /\ multipart # "open"
  /\ \A o \in LiveObj : lives[o].finalized => multipart # "open"
  /\ \A r \in Req : /\ req[r].pc \in {"check", "hash", "place"} => multipart # "open"
                    /\ req[r].pc \in {"hash", "place"} => tmp \in {Nothing, Full}

LEMMA MadeInit == Init => MadeOnce
<1> SUFFICES ASSUME Init PROVE MadeOnce
  OBVIOUS
<1>1. \A r \in Req : req[r].pc = "idle"
  BY IdleTyped DEF Init
<1>2. \A o \in LiveObj : lives[o].finalized = FALSE
  BY FreshTyped DEF Init
<1>3. tmp = Nothing /\ row.there
  BY DEF Init
<1> QED BY <1>1, <1>2, <1>3 DEF MadeOnce

LEMMA MadeKept ==
  ASSUME MadeOnce, NEW r \in Req,
         tmp' \in {tmp, Nothing}, multipart # "open" => multipart' # "open",
         tmp' # Nothing => multipart' = multipart,
         row'.there = row.there \/ (tmp' = Nothing /\ multipart' # "open"),
         \A o \in LiveObj : lives'[o].finalized => lives[o].finalized \/ multipart' # "open",
         \A s \in Req \ {r} : req'[s] = req[s],
         req'[r].pc \in {"check", "hash", "place"} => multipart' # "open",
         req'[r].pc \in {"hash", "place"} => tmp' \in {Nothing, Full}
  PROVE  MadeOnce'
<1>1. tmp' # Nothing => multipart' = "done" /\ \E k \in Nat : tmp' = Prefix(k)
  BY DEF MadeOnce
<1>2. ~row'.there => tmp' = Nothing /\ multipart' # "open"
  BY DEF MadeOnce
<1>3. \A o \in LiveObj : lives'[o].finalized => multipart' # "open"
  BY DEF MadeOnce
<1>4. ASSUME NEW s \in Req
      PROVE  /\ req'[s].pc \in {"check", "hash", "place"} => multipart' # "open"
             /\ req'[s].pc \in {"hash", "place"} => tmp' \in {Nothing, Full}
  BY DEF MadeOnce
<1>5. Nothing' = Nothing /\ Full' = Full /\ \A k : Prefix(k)' = Prefix(k)
  BY DEF Nothing, Full, Prefix
<1> QED BY <1>1, <1>2, <1>3, <1>4 DEF MadeOnce

(* A request that begins is not yet at the object; a LiveSession it makes  *)
(* knows nothing of it.                                                    *)
StartsOnly(r) ==
  /\ \A s \in Req \ {r} : req'[s] = req[s]
  /\ req'[r] = req[r] \/ req'[r].pc \in {"upload", "assemble", "save"}
  /\ \A o \in LiveObj : /\ lives'[o].finalized => lives[o].finalized
                        /\ lives'[o].sha \in {lives[o].sha, Nothing}

LEMMA StartMakes ==
  ASSUME Typed, NEW r \in Req, Ask(r)
  PROVE  StartsOnly(r) /\ UNCHANGED <<row, multipart, tmp, conf, store, entry, wrote>>
<1>t. req \in [Req -> ReqRec] /\ lives \in [LiveObj -> LiveRec] /\ Idle \in ReqRec
  BY IdleTyped DEF Typed
<1>u. UNCHANGED <<row, multipart, tmp, conf, store, entry, wrote>>
  <2>1. StartChunk(r) => UNCHANGED <<row, multipart, tmp, conf, store, entry, wrote>>
    BY Zenon DEF StartChunk, s3, hist
  <2>3. StartComplete(r) \/ Replay(r) => UNCHANGED <<row, multipart, tmp, conf, store, entry, wrote>>
    BY Zenon DEF StartComplete, Replay, s3, hist
  <2>2. ASSUME NEW n \in 1..Last, RegisterPart(r, n)
        PROVE  UNCHANGED <<row, multipart, tmp, conf, store, entry, wrote>>
    BY <2>2 DEF RegisterPart, s3, hist
  <2> QED BY <2>1, <2>2, <2>3 DEF Ask
<1>1. CASE StartChunk(r)
  <2>1. PICK o \in LiveObj :
          /\ \/ o = cur /\ UNCHANGED mem
             \/ /\ cur' = o
                /\ lives' = [lives EXCEPT ![o] = [FreshLive EXCEPT !.valid = FALSE]]
          /\ req' = [req EXCEPT ![r] = [Idle EXCEPT !.pc = "upload", !.obj = o, !.parts = row.parts,
                                                    !.n = Cardinality(row.parts) + 1]]
    BY <1>1, Zenon DEF StartChunk
  <2> DEFINE q == [Idle EXCEPT !.pc = "upload", !.obj = o, !.parts = row.parts,
                               !.n = Cardinality(row.parts) + 1]
  <2>2. q.pc = "upload"
    BY <1>t DEF ReqRec
  <2>3. req' = [req EXCEPT ![r] = q]
    BY <2>1
  <2> HIDE DEF q
  <2>4. req'[r] = q /\ \A s \in Req \ {r} : req'[s] = req[s]
    BY <1>t, <2>3
  <2>5. \A p \in LiveObj : /\ lives'[p].finalized => lives[p].finalized
                          /\ lives'[p].sha \in {lives[p].sha, Nothing}
    BY <1>t, <2>1, FreshTyped DEF mem
  <2> QED BY <1>u, <2>2, <2>4, <2>5 DEF StartsOnly
<1>2. CASE StartComplete(r)
  <2> DEFINE q == [Idle EXCEPT !.pc = "assemble", !.obj = cur, !.parts = row.parts]
  <2>1. q.pc = "assemble" /\ req' = [req EXCEPT ![r] = q]
    BY <1>t, <1>2 DEF ReqRec, StartComplete
  <2> HIDE DEF q
  <2>2. req'[r] = q /\ \A s \in Req \ {r} : req'[s] = req[s]
    BY <1>t, <2>1
  <2> QED BY <1>u, <1>2, <2>1, <2>2 DEF StartComplete, mem, StartsOnly
<1>3. CASE Replay(r)
  BY <1>u, <1>3 DEF Replay, mem, StartsOnly
<1>4. ASSUME NEW n \in 1..Last, RegisterPart(r, n) PROVE StartsOnly(r)
  <2> DEFINE q == [Idle EXCEPT !.pc = "save", !.n = n, !.parts = row.parts]
  <2>1. q.pc = "save" /\ req' = [req EXCEPT ![r] = q]
    BY <1>t, <1>4 DEF ReqRec, RegisterPart
  <2> HIDE DEF q
  <2>2. req'[r] = q /\ \A s \in Req \ {r} : req'[s] = req[s]
    BY <1>t, <2>1
  <2>3. \A p \in LiveObj : /\ lives'[p].finalized => lives[p].finalized
                          /\ lives'[p].sha \in {lives[p].sha, Nothing}
    BY <1>t, <1>4 DEF RegisterPart, LiveRec
  <2> QED BY <2>1, <2>2, <2>3 DEF StartsOnly
<1> QED BY <1>u, <1>1, <1>2, <1>3, <1>4 DEF Ask

LEMMA MadeStarts ==
  ASSUME Typed, MadeOnce, NEW r \in Req, Ask(r)
  PROVE  MadeOnce'
<1>1. StartsOnly(r) /\ UNCHANGED <<row, multipart, tmp>>
  BY StartMakes
<1>2. req'[r].pc \in {"check", "hash", "place"} => req'[r] = req[r]
  BY <1>1 DEF StartsOnly
<1> QED BY <1>1, <1>2, MadeKept DEF MadeOnce, StartsOnly

LEMMA MadeHandles ==
  ASSUME Typed, MadeOnce, NEW r \in Req, Handle(r)
  PROVE  MadeOnce'
<1>t. /\ req \in [Req -> ReqRec] /\ lives \in [LiveObj -> LiveRec] /\ row \in RowRec /\ req[r] \in ReqRec
      /\ multipart \in {"open", "done", "aborted"}
  BY DEF Typed
<1>a. Answer(r) => req'[r].pc = "idle" /\ \A s \in Req \ {r} : req'[s] = req[s]
  BY AnswerMakes
<1>g. ASSUME NEW p \in ReqPC, Go(r, p) PROVE req'[r].pc = p /\ \A s \in Req \ {r} : req'[s] = req[s]
  BY <1>g, GoMakes
<1>p. {"save", "check", "hash", "place", "finish", "drop", "mark"} \subseteq ReqPC
  BY DEF ReqPC
<1>1. CASE UploadChunk(r)
  <2>1. /\ UNCHANGED <<row, multipart, tmp>> /\ (Answer(r) \/ Go(r, "save"))
        /\ lives' = lives \/ lives' = [lives EXCEPT ![req[r].obj].hash = Append(@, req[r].n)]
    BY <1>1 DEF UploadChunk, Fail, s3
  <2>2. \A p \in LiveObj : lives'[p].finalized => lives[p].finalized
    BY <1>t, <2>1 DEF LiveRec
  <2> QED BY <1>a, <1>g, <1>p, <2>1, <2>2, MadeKept DEF MadeOnce
<1>2. CASE SavePart(r)
  <2>1. /\ Answer(r) /\ UNCHANGED <<multipart, tmp, lives>>
        /\ row' = row \/ row' = [row EXCEPT !.parts = row.parts \cup {req[r].n}]
    BY <1>2 DEF SavePart, Fail, Saved, s3, mem
  <2>2. row'.there = row.there
    BY <1>t, <2>1 DEF RowRec
  <2> QED BY <1>a, <2>1, <2>2, MadeKept DEF MadeOnce
<1>3. CASE Assemble(r) /\ UNCHANGED <<multipart, tmp>>
  <2>1. /\ Answer(r) \/ (Go(r, "check") /\ multipart # "open")
        /\ UNCHANGED <<row, lives>>
    <3>1. Finalized(r) => multipart # "open"
      BY <1>t DEF Finalized, MadeOnce, ReqRec
    <3>2. Join(r) => FALSE
      BY <1>3 DEF Join
    <3> QED BY <1>3, <3>1, <3>2 DEF Assemble, Refuse, Fail
  <2> QED BY <1>3, <1>a, <1>g, <1>p, <2>1, MadeKept DEF MadeOnce
<1>4. CASE Assemble(r) /\ Join(r)
  <2>1. /\ multipart = "open" /\ multipart' = "done" /\ tmp' = Prefix(Cardinality(req[r].parts))
        /\ UNCHANGED row
    BY <1>4 DEF Assemble, Join
  <2>g. Go(r, "check")
    BY <1>4, <2>1 DEF Assemble
  <2>2. row'.there /\ Cardinality(req[r].parts) \in Nat
    BY <1>t, <2>1, PartsCounted DEF MadeOnce, ReqRec
  <2>3. \A s \in Req : req[s].pc \notin {"check", "hash", "place"}
    BY <2>1 DEF MadeOnce
  <2>4. \A s \in Req : req'[s].pc \notin {"hash", "place"}
    BY <1>g, <1>p, <2>g, <2>3
  <2> QED BY <2>1, <2>2, <2>4 DEF MadeOnce, Prefix
<1>5. CASE Check(r)
  <2>0. multipart # "open"
    BY <1>5 DEF Check, MadeOnce
  <2>1. \/ Go(r, "hash") /\ WholeObject(r) /\ UNCHANGED <<multipart, tmp, row>>
        \/ Answer(r) /\ row' = [row EXCEPT !.done = TRUE] /\ UNCHANGED <<multipart, tmp>>
        \/ Answer(r) /\ Cleanup
    BY <1>5 DEF Check
  <2>2. UNCHANGED lives
    BY <1>5 DEF Check
  <2>3. CASE Go(r, "hash") /\ WholeObject(r) /\ UNCHANGED <<multipart, tmp, row>>
    <3>1. tmp \in {Nothing, Full}
      <4>1. ASSUME NEW k \in Nat, tmp = Prefix(k) PROVE tmp = Full
        BY <2>3, <4>1, PrefixIs, ContentsDiffer DEF WholeObject
      <4> QED BY <4>1 DEF MadeOnce
    <3> QED BY <1>g, <1>p, <2>0, <2>2, <2>3, <3>1, MadeKept DEF Full, Nothing
  <2>4. CASE Answer(r) /\ row' = [row EXCEPT !.done = TRUE] /\ UNCHANGED <<multipart, tmp>>
    <3>1. row'.there = row.there
      BY <1>t, <2>4 DEF RowRec
    <3> QED BY <1>a, <2>2, <2>4, <3>1, MadeKept
  <2>5. CASE Answer(r) /\ Cleanup
    BY <1>a, <2>0, <2>2, <2>5, MadeKept DEF Cleanup
  <2> QED BY <2>1, <2>3, <2>4, <2>5
<1>6. CASE Hash(r)
  <2>0. multipart # "open" /\ tmp \in {Nothing, Full}
    BY <1>6 DEF Hash, MadeOnce
  <2>1. /\ UNCHANGED <<row, multipart, tmp>>
        /\ lives' = IF req[r].obj = NoObj THEN lives
                    ELSE [lives EXCEPT ![req[r].obj].digested = @ \/ Incremental(r), ![req[r].obj].sha = KnownSha(r)]
        /\ \/ Answer(r) \/ \E h : req' = [req EXCEPT ![r].pc = "place", ![r].sha = h]
    BY <1>6 DEF Hash, Refuse
  <2>2. \A p \in LiveObj : lives'[p].finalized = lives[p].finalized
    BY <1>t, <2>1 DEF LiveRec
  <2>3. \A s \in Req \ {r} : req'[s] = req[s]
    BY <1>t, <1>a, <2>1
  <2> QED BY <2>0, <2>1, <2>2, <2>3, MadeKept DEF Full, Nothing
<1>7. CASE Place(r) \/ Finish(r)
  <2>1. (Answer(r) \/ Go(r, "finish") \/ Go(r, "drop")) /\ UNCHANGED <<row, multipart, tmp, lives>>
    BY <1>7 DEF Place, Finish, Refuse, Fail, s3, mem
  <2> QED BY <1>a, <1>g, <1>p, <2>1, MadeKept
<1>8. CASE Drop(r)
  <2>1. Go(r, "mark") /\ UNCHANGED <<row, multipart, lives>> /\ tmp' \in {tmp, Nothing}
    BY <1>8 DEF Drop, mem
  <2> QED BY <1>g, <1>p, <2>1, MadeKept
<1>9. CASE Mark(r)
  <2>1. /\ Answer(r) /\ UNCHANGED <<multipart, tmp, lives>>
        /\ row' = row \/ row' = [row EXCEPT !.done = TRUE]
    BY <1>9 DEF Mark, Fail, s3
  <2>2. row'.there = row.there
    BY <1>t, <2>1 DEF RowRec
  <2> QED BY <1>a, <2>1, <2>2, MadeKept
<1>10. Assemble(r) => UNCHANGED <<multipart, tmp>> \/ Join(r)
  BY DEF Assemble, Refuse, Fail
<1> QED BY <1>1, <1>2, <1>3, <1>4, <1>5, <1>6, <1>7, <1>8, <1>9, <1>10 DEF Handle

LEMMA MadeWorld ==
  ASSUME Typed, MadeOnce, Abort \/ GrowStale \/ SweepList \/ SweepClean \/ OtherWrite \/ Crash
  PROVE  MadeOnce'
<1>1. CASE Abort \/ SweepClean
  <2>1. Cleanup /\ UNCHANGED <<lives, req>>
    BY <1>1 DEF Abort, SweepClean
  <2>2. tmp' = Nothing /\ multipart' # "open" /\ Nothing' = Nothing /\ Full' = Full
    BY <2>1 DEF Cleanup, Nothing, Full
  <2> QED BY <2>1, <2>2 DEF MadeOnce
<1>2. CASE GrowStale \/ SweepList \/ OtherWrite
  BY <1>2 DEF GrowStale, SweepList, OtherWrite, MadeOnce, s3, mem, Nothing, Full, Prefix
<1>3. CASE Crash
  <2>1. /\ lives' = [o \in LiveObj |-> FreshLive] /\ req' = [r \in Req |-> Idle]
        /\ UNCHANGED <<row, multipart, tmp>>
    BY <1>3 DEF Crash, s3
  <2>2. /\ \A o \in LiveObj : lives'[o].finalized = FALSE
        /\ \A r \in Req : req'[r].pc = "idle"
    BY <2>1, FreshTyped, IdleTyped
  <2> QED BY <2>1, <2>2 DEF MadeOnce, Nothing, Full, Prefix
<1> QED BY <1>1, <1>2, <1>3

LEMMA MadeStep == Typed /\ MadeOnce /\ [Next]_vars => MadeOnce'
<1> SUFFICES ASSUME Typed, MadeOnce, [Next]_vars PROVE MadeOnce'
  OBVIOUS
<1>1. CASE UNCHANGED vars
  BY <1>1 DEF vars, MadeOnce, Nothing, Full, Prefix
<1>2. ASSUME NEW r \in Req, Ask(r) PROVE MadeOnce'
  BY <1>2, MadeStarts
<1>3. ASSUME NEW r \in Req, Handle(r) PROVE MadeOnce'
  BY <1>3, MadeHandles
<1> QED BY <1>1, <1>2, <1>3, MadeWorld DEF Next

(* A session that is gone leaves neither a multipart upload nor a          *)
(* temporary object, though a complete may be under way when it is aborted *)
(* or swept: the object cannot be made after the cleanup.                  *)
THEOREM NothingStays == Spec => []NothingLeft
<1>1. MadeOnce => NothingLeft
  BY DEF MadeOnce, NothingLeft
<1> QED BY <1>1, TypedInit, TypedStep, MadeInit, MadeStep, PTL DEF Spec

-----------------------------------------------------------------------------
(* What enters the tree and the store *)

(* The content is hashed by S3's copy of it, or the client has said what   *)
(* it is to be: not a relay that names no hash, whose incremental hash is  *)
(* fed twice by a chunk that is sent twice at once.                        *)
Sure == conf.direct \/ conf.declared

(* A direct upload has no incremental hash to take for the content's. *)
NoneCached == conf.direct => \A o \in LiveObj : lives[o].sha = Nothing

(* What goes on to the store and the tree is the whole file; who is past   *)
(* the tree has written it there.                                          *)
WholeInv ==
  /\ NoneCached
  /\ Sure =>
       /\ \A r \in Req : /\ req[r].pc \in {"place", "finish"} => req[r].sha = Full
                         /\ req[r].pc \in {"drop", "mark"} => wrote
       /\ OnlyWholeFile /\ StoreHonest
       /\ (row.done \/ acked \/ entry = Full => wrote)

LEMMA WholeInit == Init => WholeInv
<1> SUFFICES ASSUME Init PROVE WholeInv
  OBVIOUS
<1>1. /\ \A r \in Req : req[r].pc = "idle"
      /\ \A o \in LiveObj : lives[o].sha = Nothing
  BY IdleTyped, FreshTyped DEF Init
<1>2. entry \in {Nothing, Old} /\ entry # Full /\ store = {} /\ row.done = FALSE /\ acked = FALSE
  BY ContentsDiffer DEF Init
<1> QED BY <1>1, <1>2 DEF WholeInv, NoneCached, OnlyWholeFile, StoreHonest

LEMMA WholeKept ==
  ASSUME WholeInv, NEW r \in Req, UNCHANGED conf,
         NoneCached',
         \A s \in Req \ {r} : req'[s] = req[s],
         Sure => /\ req'[r].pc \in {"place", "finish"} => req'[r].sha = Full
                 /\ req'[r].pc \in {"drop", "mark"} => wrote'
                 /\ entry' = entry \/ entry' \in {Nothing, Old, Other, Full}
                 /\ \A p \in store' : p \in store \/ p[1] = p[2]
                 /\ (row'.done \/ acked' \/ entry' = Full => row.done \/ acked \/ entry = Full \/ wrote'),
         wrote => wrote'
  PROVE  WholeInv'
<1> SUFFICES ASSUME Sure'
             PROVE /\ \A s \in Req : /\ req'[s].pc \in {"place", "finish"} => req'[s].sha = Full'
                                     /\ req'[s].pc \in {"drop", "mark"} => wrote'
                   /\ OnlyWholeFile' /\ StoreHonest'
                   /\ (row'.done \/ acked' \/ entry' = Full' => wrote')
  BY DEF WholeInv
<1>1. Sure /\ Full' = Full /\ Nothing' = Nothing /\ Old' = Old /\ Other' = Other
  BY DEF Sure, Full, Nothing, Old, Other
<1>2. ASSUME NEW s \in Req
      PROVE  /\ req'[s].pc \in {"place", "finish"} => req'[s].sha = Full
             /\ req'[s].pc \in {"drop", "mark"} => wrote'
  BY <1>1 DEF WholeInv
<1>3. OnlyWholeFile'
  BY <1>1 DEF WholeInv, OnlyWholeFile
<1>4. StoreHonest'
  BY <1>1 DEF WholeInv, StoreHonest
<1>5. row'.done \/ acked' \/ entry' = Full => wrote'
  BY <1>1 DEF WholeInv
<1> QED BY <1>1, <1>2, <1>3, <1>4, <1>5

LEMMA WholeHandles ==
  ASSUME Typed, MadeOnce, WholeInv, NEW r \in Req, Handle(r)
  PROVE  WholeInv'
<1>t. /\ req \in [Req -> ReqRec] /\ lives \in [LiveObj -> LiveRec] /\ row \in RowRec /\ req[r] \in ReqRec
  BY DEF Typed
<1>f. UNCHANGED conf
  BY DEF Handle, UploadChunk, SavePart, Assemble, Check, Hash, Place, Finish, Drop, Mark
<1>a. Answer(r) => req'[r].pc = "idle" /\ \A s \in Req \ {r} : req'[s] = req[s]
  BY AnswerMakes
<1>g. ASSUME NEW p \in ReqPC, Go(r, p)
      PROVE  req'[r].pc = p /\ req'[r].sha = req[r].sha /\ \A s \in Req \ {r} : req'[s] = req[s]
  BY <1>g, GoMakes
<1>p. {"save", "check", "hash", "place", "finish", "drop", "mark"} \subseteq ReqPC
  BY DEF ReqPC
<1>n. (\A o \in LiveObj : lives'[o].sha = lives[o].sha) => NoneCached'
  BY <1>f DEF WholeInv, NoneCached, Nothing
<1>w. Sure => /\ req[r].pc \in {"place", "finish"} => req[r].sha = Full
              /\ req[r].pc \in {"drop", "mark"} => wrote
              /\ (row.done \/ acked \/ entry = Full => wrote)
  BY DEF WholeInv
<1>1. CASE UploadChunk(r) \/ SavePart(r) \/ Assemble(r)
  <2>1. /\ Answer(r) \/ Go(r, "save") \/ Go(r, "check")
        /\ UNCHANGED <<store, entry, wrote, acked>>
    BY <1>1 DEF UploadChunk, SavePart, Assemble, Fail, Refuse, s3, hist
  <2>2. \/ lives' = lives
        \/ \E h : lives' = [lives EXCEPT ![req[r].obj].hash = h]
        \/ lives' = [lives EXCEPT ![req[r].obj].finalized = TRUE]
    BY <1>1 DEF UploadChunk, SavePart, Assemble, mem
  <2>3. \A o \in LiveObj : lives'[o].sha = lives[o].sha
    <3>1. CASE lives' = lives
      BY <3>1
    <3>2. CASE \E h : lives' = [lives EXCEPT ![req[r].obj].hash = h]
      <4>1. PICK h : lives' = [lives EXCEPT ![req[r].obj].hash = h]
        BY <3>2
      <4> QED BY <1>t, <4>1 DEF LiveRec
    <3>3. CASE lives' = [lives EXCEPT ![req[r].obj].finalized = TRUE]
      BY <1>t, <3>3 DEF LiveRec
    <3> QED BY <2>2, <3>1, <3>2, <3>3
  <2>4. row' = row \/ row' = [row EXCEPT !.parts = row.parts \cup {req[r].n}]
    BY <1>1 DEF UploadChunk, SavePart, Assemble, Saved
  <2>5. row'.done = row.done
    BY <1>t, <2>4 DEF RowRec
  <2> QED BY <1>a, <1>g, <1>p, <1>f, <1>n, <2>1, <2>3, <2>5, WholeKept
<1>2. CASE Check(r)
  <2>1. /\ Answer(r) \/ Go(r, "hash")
        /\ UNCHANGED <<store, lives, entry, wrote>>
        /\ \/ UNCHANGED <<row, acked>>
           \/ row' = [row EXCEPT !.done = TRUE] /\ EntryIsOurs
           \/ row' = [row EXCEPT !.there = FALSE] /\ UNCHANGED acked
    BY <1>2 DEF Check, Cleanup
  <2>2. row'.done \/ acked' => row.done \/ acked \/ entry = Full
    BY <1>t, <2>1 DEF EntryIsOurs, RowRec
  <2> QED BY <1>a, <1>g, <1>p, <1>f, <1>n, <2>1, <2>2, WholeKept
<1>3. CASE Hash(r)
  <2>1. /\ UNCHANGED <<row, store, entry, wrote, acked>>
        /\ lives' = IF req[r].obj = NoObj THEN lives
                    ELSE [lives EXCEPT ![req[r].obj].digested = @ \/ Incremental(r), ![req[r].obj].sha = KnownSha(r)]
        /\ \/ Answer(r)
           \/ Trusts(r) /\ req' = [req EXCEPT ![r].pc = "place", ![r].sha = KnownSha(r)]
           \/ tmp # Nothing /\ req' = [req EXCEPT ![r].pc = "place", ![r].sha = tmp]
    BY <1>3 DEF Hash, Refuse, hist
  <2>2. conf.direct => KnownSha(r) = Nothing
    BY <1>t DEF WholeInv, NoneCached, KnownSha, Incremental, ReqRec
  <2>3. NoneCached'
    <3> SUFFICES ASSUME conf.direct, NEW o \in LiveObj PROVE lives'[o].sha = Nothing
      BY <1>f DEF NoneCached, Nothing
    <3>1. lives[o].sha = Nothing
      BY DEF WholeInv, NoneCached
    <3>2. lives'[o].sha \in {lives[o].sha, KnownSha(r)}
      BY <1>t, <2>1 DEF LiveRec
    <3> QED BY <2>2, <3>1, <3>2
  <2>4. tmp # Nothing => tmp = Full
    BY <1>3 DEF Hash, MadeOnce
  <2>5. Sure /\ Trusts(r) => KnownSha(r) = Full
    BY <2>2 DEF Sure, Trusts
  <2>6. ASSUME NEW h, req' = [req EXCEPT ![r].pc = "place", ![r].sha = h]
        PROVE  req'[r].pc = "place" /\ req'[r].sha = h /\ \A s \in Req \ {r} : req'[s] = req[s]
    BY <1>t, <2>6 DEF ReqRec
  <2>7. /\ \A s \in Req \ {r} : req'[s] = req[s]
        /\ req'[r].pc \in {"idle", "place"}
        /\ Sure => (req'[r].pc = "place" => req'[r].sha = Full)
    BY <1>a, <2>1, <2>4, <2>5, <2>6
  <2> QED BY <1>f, <2>1, <2>3, <2>7, WholeKept
<1>4. CASE Place(r)
  <2>1. /\ Answer(r) \/ Go(r, "finish")
        /\ store' = store \/ (tmp # Nothing /\ store' = store \cup {<<req[r].sha, tmp>>})
        /\ UNCHANGED <<row, lives, entry, wrote, acked>> /\ req[r].pc = "place"
    BY <1>4 DEF Place, mem, hist
  <2>2. Sure => \A p \in store' : p \in store \/ p[1] = p[2]
    BY <1>w, <2>1 DEF MadeOnce
  <2> QED BY <1>a, <1>g, <1>p, <1>f, <1>n, <1>w, <2>1, <2>2, WholeKept
<1>5. CASE Finish(r)
  <2>1. /\ req[r].pc = "finish" /\ UNCHANGED <<row, store, lives, acked>>
        /\ \/ Answer(r) /\ UNCHANGED <<entry, wrote>>
           \/ Go(r, "drop") /\ entry' = req[r].sha /\ wrote' = TRUE
           \/ Go(r, "drop") /\ entry = req[r].sha /\ UNCHANGED <<entry, wrote>>
    BY <1>5 DEF Finish, Fail, Refuse, s3, mem, hist
  <2> QED BY <1>a, <1>g, <1>p, <1>f, <1>n, <1>w, <2>1, WholeKept
<1>6. CASE Drop(r)
  <2>1. Go(r, "mark") /\ req[r].pc = "drop" /\ UNCHANGED <<row, store, lives, entry, wrote, acked>>
    BY <1>6 DEF Drop, mem, hist
  <2> QED BY <1>g, <1>p, <1>f, <1>n, <1>w, <2>1, WholeKept
<1>7. CASE Mark(r)
  <2>1. Answer(r) /\ req[r].pc = "mark" /\ UNCHANGED <<store, lives, entry, wrote>>
    BY <1>7 DEF Mark, Fail, s3
  <2> QED BY <1>a, <1>f, <1>n, <1>w, <2>1, WholeKept
<1> QED BY <1>1, <1>2, <1>3, <1>4, <1>5, <1>6, <1>7 DEF Handle

LEMMA WholeWorld ==
  ASSUME Typed, WholeInv, Abort \/ GrowStale \/ SweepList \/ SweepClean \/ OtherWrite \/ Crash
  PROVE  WholeInv'
<1>1. /\ UNCHANGED <<conf, store, acked, wrote>> /\ row'.done = row.done
      /\ entry' \in {entry, Other}
  BY DEF Abort, GrowStale, SweepList, SweepClean, OtherWrite, Crash, Cleanup, s3, hist, Typed, RowRec
<1>2. /\ req' = req \/ \A r \in Req : req'[r].pc = "idle"
      /\ lives' = lives \/ \A o \in LiveObj : lives'[o].sha = Nothing
  BY IdleTyped, FreshTyped DEF Abort, GrowStale, SweepList, SweepClean, OtherWrite, Crash, mem
<1>3. Full' = Full /\ Nothing' = Nothing /\ Old' = Old /\ Other' = Other /\ Other # Full
  BY ContentsDiffer DEF Full, Nothing, Old, Other
<1>4. NoneCached'
  BY <1>1, <1>2, <1>3 DEF WholeInv, NoneCached
<1>5. Sure' => Sure
  BY <1>1 DEF Sure
<1> QED BY <1>1, <1>2, <1>3, <1>4, <1>5 DEF WholeInv, OnlyWholeFile, StoreHonest

LEMMA WholeStep == Typed /\ MadeOnce /\ WholeInv /\ [Next]_vars => WholeInv'
<1> SUFFICES ASSUME Typed, MadeOnce, WholeInv, [Next]_vars PROVE WholeInv'
  OBVIOUS
<1>1. CASE UNCHANGED vars
  BY <1>1 DEF vars, WholeInv, NoneCached, Sure, OnlyWholeFile, StoreHonest, Full, Nothing, Old, Other
<1>2. ASSUME NEW r \in Req, Ask(r) PROVE WholeInv'
  <2>1. StartsOnly(r) /\ UNCHANGED <<row, conf, store, entry, wrote>>
    BY <1>2, StartMakes
  <2>2. acked' => acked \/ row.done
    <3>1. ASSUME NEW n \in 1..Last, RegisterPart(r, n) PROVE acked' = acked
      BY <3>1 DEF RegisterPart, hist
    <3>2. StartChunk(r) \/ StartComplete(r) => acked' = acked
      BY Zenon DEF StartChunk, StartComplete, hist
    <3>3. Replay(r) => row.done
      BY DEF Replay
    <3> QED BY <1>2, <3>1, <3>2, <3>3 DEF Ask
  <2>3. NoneCached'
    BY <2>1 DEF WholeInv, NoneCached, StartsOnly, Nothing
  <2>4. req'[r].pc \in {"place", "finish", "drop", "mark"} => req'[r] = req[r]
    BY <2>1 DEF StartsOnly
  <2>5. Sure => /\ req[r].pc \in {"place", "finish"} => req[r].sha = Full
                /\ req[r].pc \in {"drop", "mark"} => wrote
    BY DEF WholeInv
  <2> QED BY <2>1, <2>2, <2>3, <2>4, <2>5, WholeKept DEF StartsOnly
<1>3. ASSUME NEW r \in Req, Handle(r) PROVE WholeInv'
  BY <1>3, WholeHandles
<1> QED BY <1>1, <1>2, <1>3, WholeWorld DEF Next

(* Only the whole file of the client, or what was there before and what    *)
(* another device wrote, is ever under the name, whatever requests,        *)
(* retries, aborts, sweeps and restarts fall between the joining of the    *)
(* parts, its check, its hash and its entry.                               *)
THEOREM WholeFiles == Spec => [](Sure => OnlyWholeFile)
<1>1. WholeInv => (Sure => OnlyWholeFile)
  BY DEF WholeInv
<1> QED BY <1>1, TypedInit, TypedStep, MadeInit, MadeStep, WholeInit, WholeStep, PTL DEF Spec

(* A complete that answered success has written the file, and what the     *)
(* store holds under a hash has that hash.                                 *)
THEOREM AnswersHold == Spec => [](Sure => AnswersTrue)
<1>1. WholeInv => (Sure => AnswersTrue)
  BY DEF WholeInv, AnswersTrue, SuccessIsTrue
<1> QED BY <1>1, TypedInit, TypedStep, MadeInit, MadeStep, WholeInit, WholeStep, PTL DEF Spec

-----------------------------------------------------------------------------
(* The calls that name a file.                                             *)


Op == {"none", "put", "place", "bin", "back", "copy"}

(* What a call knows between its read and its transaction: the row it read *)
(* allowed what it asks, and its place lies in a folder.                   *)
Known(call) ==
  /\ call.ask.op \in Op
  /\ call.ask.op = "none" => call.ask = None
  /\ call.ask.op = "put" =>
       /\ call.ask.at \in Spot /\ call.ask.has \in Bytes
       /\ call.saw = 0 => call.ask.expect = "any"
       /\ call.saw # 0 =>
            /\ call.saw \in Ids /\ call.row \in Row /\ call.row.at = call.ask.at
            /\ \/ call.row.state = "live" /\ call.ask.replace /\ call.ask.expect \in {"any", call.row.has}
               \/ call.row.state = "bin" /\ call.ask.revive
  /\ call.ask.op \notin {"none", "put"} => call.saw \in Ids /\ call.row \in Row /\ call.ask.id = call.saw
  /\ call.ask.op \in {"place", "copy"} => call.ask.at \in Spot
  /\ call.ask.op \in {"place", "bin", "copy"} => call.row.state = "live"
  /\ call.ask.op = "back" => call.row.state \in {"live", "bin"}
  /\ call.ask.op = "place" /\ call.dav => ZoneOf[call.row.at[1]] = "files" /\ ZoneOf[call.ask.at[1]] = "files"

NamedTyped ==
  /\ entries \in [Id -> Row] /\ doubtful \subseteq Ids
  /\ DOMAIN calls = Client /\ DOMAIN told = Id
  /\ calls = [c \in Client |-> calls[c]] /\ told = [i \in Id |-> told[i]]
  /\ crossed \in [Client -> BOOLEAN]
  /\ clip.mode = "copy" => clip.id \in Ids

Inv ==
  /\ NamedTyped
  /\ \A c \in Client : Known(calls[c])
  /\ \A c \in Client : calls[c].ask.op # "none" => ~crossed[c]
  /\ EntriesAreTold

LEMMA NoCallKnown == Known(NoCall) /\ NoCall.ask = None /\ None.op = "none" /\ NoCall.saw = 0
  BY DEF Known, NoCall, None, Op

LEMMA InitInv == NInit => Inv
<1> SUFFICES ASSUME NInit PROVE Inv
  OBVIOUS
<1>1. NamedTyped
  BY NamedAssumption DEF NamedTyped, NInit, NoClip
<1>2. ASSUME NEW c \in Client PROVE Known(calls[c]) /\ calls[c].ask.op = "none"
  BY NoCallKnown DEF NInit
<1>3. EntriesAreTold
  BY NamedAssumption DEF EntriesAreTold, NInit, Ids
<1> QED BY <1>1, <1>2, <1>3 DEF Inv

-----------------------------------------------------------------------------
(* A step that only begins a call. *)
Begins(c) ==
  /\ calls[c].ask = None
  /\ \E call : Known(call) /\ call.ask.op # "none" /\ Begin(c, call)

LEMMA LookPutBegins ==
  ASSUME Inv, NEW c \in Client, NEW p \in Spot, NEW has \in Bytes, NEW s \in Styles,
         LookPut(c, p, has, s)
  PROVE  Begins(c)
<1>t. entries \in [Id -> Row] /\ Ids \subseteq Id /\ 0 \notin Ids
  BY DEF Inv, NamedTyped, Ids
<1>r. calls[c].ask = None
  BY DEF LookPut, Ready
<1>1. CASE /\ Holders(p) = {} /\ s.expect = "any"
           /\ Begin(c, [NoCall EXCEPT !.ask = [None EXCEPT !.op = "put", !.at = p, !.has = has]])
  <2> DEFINE call == [NoCall EXCEPT !.ask = [None EXCEPT !.op = "put", !.at = p, !.has = has]]
  <2>1. Known(call) /\ call.ask.op # "none"
    BY DEF Known, NoCall, None, Op
  <2> HIDE DEF call
  <2>2. Begin(c, call)
    BY <1>1 DEF call
  <2> QED BY <1>r, <2>1, <2>2 DEF Begins
<1>2. ASSUME NEW i \in Holders(p),
             IF Live(i) THEN s.replace /\ Expects(s, i) ELSE s.revive,
             Begin(c, [NoCall EXCEPT !.saw = i, !.row = entries[i],
                         !.ask = [None EXCEPT !.op = "put", !.at = p, !.has = has, !.expect = s.expect,
                                              !.replace = s.replace, !.revive = s.revive]])
      PROVE  Begins(c)
  <2> DEFINE ask  == [None EXCEPT !.op = "put", !.at = p, !.has = has, !.expect = s.expect,
                                  !.replace = s.replace, !.revive = s.revive]
             call == [NoCall EXCEPT !.saw = i, !.row = entries[i], !.ask = ask]
  <2>1. i \in Ids /\ entries[i] \in Row /\ entries[i].at = p /\ There(i)
    BY <1>t DEF Holders
  <2>2. \/ entries[i].state = "live" /\ s.replace /\ s.expect \in {"any", entries[i].has}
        \/ entries[i].state = "bin" /\ s.revive
    BY <1>2, <2>1 DEF There, Live, Expects
  <2>3. /\ ask.op = "put" /\ ask.at = p /\ ask.has = has /\ ask.expect = s.expect
        /\ ask.replace = s.replace /\ ask.revive = s.revive
    BY DEF None
  <2> HIDE DEF ask
  <2>4. call.ask = ask /\ call.saw = i /\ call.row = entries[i]
    BY DEF NoCall
  <2>5. Begin(c, call)
    BY <1>2 DEF ask
  <2> HIDE DEF call
  <2>6. Known(call) /\ call.ask.op # "none"
    BY <1>t, <2>1, <2>2, <2>3, <2>4 DEF Known, Op
  <2> QED BY <1>r, <2>5, <2>6 DEF Begins
<1> QED BY <1>1, <1>2 DEF LookPut

LEMMA LookPlaceBegins ==
  ASSUME Inv, NEW c \in Client, NEW i \in Ids, NEW p \in Spot, NEW how \in Hows,
         LookPlace(c, i, p, how)
  PROVE  Begins(c)
<1> DEFINE ask  == [None EXCEPT !.op = "place", !.id = i, !.at = p]
           call == [NoCall EXCEPT !.ask = ask, !.saw = i, !.row = entries[i], !.paste = how.paste, !.dav = how.dav]
<1>1. i \in Ids /\ entries[i] \in Row /\ i # 0
  BY DEF Inv, NamedTyped, Ids
<1>2. ask.op = "place" /\ ask.id = i /\ ask.at = p
  BY DEF None
<1>3. Begin(c, call) /\ calls[c].ask = None /\ Live(i)
  BY DEF LookPlace, Ready
<1>4. how.dav => ZoneOf[entries[i].at[1]] = "files" /\ ZoneOf[p[1]] = "files"
  BY DEF LookPlace
<1> HIDE DEF ask
<1>5. call.ask = ask /\ call.saw = i /\ call.row = entries[i] /\ call.dav = how.dav
  BY DEF NoCall
<1> HIDE DEF call
<1>6. Known(call) /\ call.ask.op # "none"
  BY <1>1, <1>2, <1>3, <1>4, <1>5 DEF Known, Op, Live
<1> QED BY <1>3, <1>6 DEF Begins

LEMMA LookStateBegins ==
  ASSUME Inv, NEW c \in Client, NEW i \in Ids, NEW op \in {"bin", "back"}, LookState(c, i, op)
  PROVE  Begins(c)
<1> DEFINE ask  == [None EXCEPT !.op = op, !.id = i]
           call == [NoCall EXCEPT !.ask = ask, !.saw = i, !.row = entries[i]]
<1>1. i \in Ids /\ entries[i] \in Row
  BY DEF Inv, NamedTyped, Ids
<1>2. ask.op = op /\ ask.id = i
  BY DEF None
<1>3. Begin(c, call) /\ calls[c].ask = None /\ (Live(i) \/ (op = "back" /\ There(i)))
  BY DEF LookState, Ready
<1> HIDE DEF ask
<1>5. call.ask = ask /\ call.saw = i /\ call.row = entries[i]
  BY DEF NoCall
<1> HIDE DEF call
<1>6. Known(call) /\ call.ask.op # "none"
  BY <1>1, <1>2, <1>3, <1>5 DEF Known, Op, Live, There
<1> QED BY <1>3, <1>6 DEF Begins

LEMMA LookCopyBegins ==
  ASSUME Inv, NEW c \in Client, NEW folder \in Folder, LookCopy(c, folder)
  PROVE  Begins(c)
<1> DEFINE i     == clip.id
           names == <<entries[i].at[2]>> \o CopyNames
<1>1. /\ i \in Ids /\ entries[i] \in Row /\ calls[c].ask = None /\ Live(i)
  BY DEF LookCopy, Ready, Inv, NamedTyped, Ids
<1>2. names \in Seq(Name)
  <2>1. entries[i].at[2] \in Name
    BY <1>1 DEF Row, Spot
  <2> QED BY <2>1, NamedAssumption
<1>3. PICK k \in DOMAIN names :
        Begin(c, [NoCall EXCEPT !.ask = [None EXCEPT !.op = "copy", !.id = i, !.at = <<folder, names[k]>>],
                                !.saw = i, !.row = entries[i]])
  BY DEF LookCopy
<1>4. <<folder, names[k]>> \in Spot
  BY <1>2 DEF Spot
<1> DEFINE ask  == [None EXCEPT !.op = "copy", !.id = i, !.at = <<folder, names[k]>>]
           call == [NoCall EXCEPT !.ask = ask, !.saw = i, !.row = entries[i]]
<1>5. ask.op = "copy" /\ ask.id = i /\ ask.at \in Spot
  BY <1>4 DEF None
<1> HIDE DEF ask
<1>6. call.ask = ask /\ call.saw = i /\ call.row = entries[i]
  BY DEF NoCall
<1>7. Begin(c, call)
  BY <1>3 DEF ask
<1> HIDE DEF call
<1>8. Known(call) /\ call.ask.op # "none"
  BY <1>1, <1>5, <1>6 DEF Known, Op, Live
<1> QED BY <1>1, <1>7, <1>8 DEF Begins

LEMMA BeginKeeps ==
  ASSUME Inv, NEW c \in Client, Begins(c)
  PROVE  Inv'
<1>1. PICK call : Known(call) /\ call.ask.op # "none" /\ Begin(c, call)
  BY DEF Begins
<1>2. /\ calls' = [calls EXCEPT ![c] = call] /\ crossed' = [crossed EXCEPT ![c] = FALSE]
      /\ UNCHANGED <<entries, told, clip, doubtful>>
  BY <1>1 DEF Begin
<1>3. NamedTyped'
  BY <1>2 DEF Inv, NamedTyped
<1>4. ASSUME NEW d \in Client PROVE Known(calls'[d]) /\ (calls'[d].ask.op # "none" => ~crossed'[d])
  BY <1>1, <1>2 DEF Inv, NamedTyped
<1>5. EntriesAreTold'
  BY <1>2 DEF Inv, EntriesAreTold, There, Event
<1> QED BY <1>3, <1>4, <1>5 DEF Inv, Known

-----------------------------------------------------------------------------
(* What a transaction leaves. Late is the condition of Commit.             *)
Late(c) == calls[c].saw # 0 /\ entries[calls[c].saw] # calls[c].row

LEMMA RefusedKeeps ==
  ASSUME Inv, NEW c \in Client, Refused(c)
  PROVE  Inv'
<1>1. calls' = [calls EXCEPT ![c] = NoCall] /\ UNCHANGED <<entries, told, clip, crossed, doubtful>>
  BY DEF Refused, End
<1>2. NamedTyped'
  BY <1>1 DEF Inv, NamedTyped
<1>3. ASSUME NEW d \in Client PROVE Known(calls'[d]) /\ (calls'[d].ask.op # "none" => ~crossed'[d])
  BY <1>1, NoCallKnown DEF Inv, NamedTyped
<1>4. EntriesAreTold'
  BY <1>1 DEF Inv, EntriesAreTold, There, Event
<1> QED BY <1>2, <1>3, <1>4 DEF Inv, Known

(* A row and its event that agree, or an entry that is doubtful from now. *)
LEMMA CommitKeeps ==
  ASSUME Inv, NEW c \in Client, NEW i \in Ids, NEW line \in Row, NEW event, Commit(c, i, line, event),
         clip' \in {clip, NoClip},
         ~Late(c) /\ i \notin doubtful => event = Event(line) /\ line.zone = ZoneOf[line.at[1]]
  PROVE  Inv'
<1>1. /\ calls' = [calls EXCEPT ![c] = NoCall]
      /\ entries' = [entries EXCEPT ![i] = line] /\ told' = [told EXCEPT ![i] = event]
      /\ crossed' = [crossed EXCEPT ![c] = Late(c)]
      /\ doubtful' = IF Late(c) THEN doubtful \cup {i} ELSE doubtful
  BY DEF Commit, End, Late
<1>2. NamedTyped'
  <2>1. entries' \in [Id -> Row] /\ doubtful' \subseteq Ids
    BY <1>1 DEF Inv, NamedTyped, Ids
  <2>2. clip'.mode = "copy" => clip'.id \in Ids
    BY DEF Inv, NamedTyped, NoClip
  <2>3. Late(c) \in BOOLEAN
    BY DEF Late
  <2> QED BY <1>1, <2>1, <2>2, <2>3 DEF Inv, NamedTyped
<1>3. ASSUME NEW d \in Client PROVE Known(calls'[d]) /\ (calls'[d].ask.op # "none" => ~crossed'[d])
  BY <1>1, NoCallKnown DEF Inv, NamedTyped
<1>4. ASSUME NEW j \in Ids \ doubtful', entries'[j].state \in {"live", "bin"}
      PROVE  told'[j] = Event(entries'[j]) /\ entries'[j].zone = ZoneOf[entries'[j].at[1]]
  <2>t. entries \in [Id -> Row] /\ DOMAIN told = Id /\ Ids \subseteq Id
    BY DEF Inv, NamedTyped, Ids
  <2>1. CASE j = i
    <3>1. entries'[j] = line /\ told'[j] = event
      BY <1>1, <2>1, <2>t
    <3>2. ~Late(c) /\ i \notin doubtful
      BY <1>1, <1>4, <2>1
    <3> QED BY <3>1, <3>2
  <2>2. CASE j # i
    <3>1. entries'[j] = entries[j] /\ told'[j] = told[j]
      BY <1>1, <2>2, <2>t
    <3>2. j \notin doubtful
      BY <1>1, <1>4
    <3> QED BY <1>4, <3>1, <3>2 DEF Inv, EntriesAreTold, There
  <2> QED BY <2>1, <2>2
<1>5. EntriesAreTold'
  BY <1>4 DEF EntriesAreTold, There, Event
<1> QED BY <1>2, <1>3, <1>5 DEF Inv, Known

-----------------------------------------------------------------------------
(* The same steps, seen as those of VersionedFiles. *)
LEMMA SameHolders == ASSUME NEW p PROVE Atomic!Holders(p) = Holders(p)
  BY DEF Atomic!Holders, Holders, There, Rows

LEMMA NoWishIsNone == Atomic!NoWish = None
  BY DEF Atomic!NoWish, None

LEMMA Written ==
  ASSUME Inv, NEW i \in Ids, NEW line \in Row, entries' = [entries EXCEPT ![i] = line]
  PROVE  Rows' = [Rows EXCEPT ![i] = [state |-> line.state, at |-> line.at, has |-> line.has]]
<1>1. entries \in [Id -> Row] /\ Ids \subseteq Id
  BY DEF Inv, NamedTyped, Ids
<1> QED BY <1>1 DEF Rows

LEMMA BeginIsAsk ==
  ASSUME Inv, NEW c \in Client, Begins(c)
  PROVE  Atomic!Ask(c)
<1>1. PICK call : Known(call) /\ call.ask.op # "none" /\ Begin(c, call)
  BY DEF Begins
<1>2. /\ calls' = [calls EXCEPT ![c] = call] /\ crossed' = [crossed EXCEPT ![c] = FALSE] /\ entries' = entries
  BY <1>1 DEF Begin
<1>3. Asked' = [Asked EXCEPT ![c] = call.ask] /\ Rows' = Rows /\ Asked[c] = None
  BY <1>2 DEF Asked, Rows, Inv, NamedTyped, Begins
<1>4. call.ask # None
  BY <1>1, NoCallKnown
<1>5. Asked'[c] = call.ask
  BY <1>3 DEF Asked
<1> QED BY <1>2, <1>3, <1>4, <1>5, NoWishIsNone DEF Atomic!Ask

LEMMA RefusedIsRefuse ==
  ASSUME Inv, NEW c \in Client, calls[c].ask.op # "none", Refused(c)
  PROVE  Atomic!Refuse(c)
<1>1. calls' = [calls EXCEPT ![c] = NoCall] /\ UNCHANGED <<entries, crossed>>
  BY DEF Refused, End
<1>2. Asked' = [Asked EXCEPT ![c] = None] /\ Rows' = Rows /\ Asked[c] # None
  BY <1>1, NoCallKnown DEF Asked, Rows, Inv, NamedTyped
<1> QED BY <1>1, <1>2, NoWishIsNone DEF Atomic!Refuse

(* A transaction that is not late has the effect that was asked for. *)
LEMMA CommitIsDo ==
  ASSUME Inv, NEW c \in Client, NEW i \in Ids, NEW line \in Row, NEW event,
         calls[c].ask.op # "none", Commit(c, i, line, event),
         ~Late(c) => Atomic!Effect(calls[c].ask)
  PROVE  Atomic!Do(c)
<1>1. calls' = [calls EXCEPT ![c] = NoCall] /\ crossed' = [crossed EXCEPT ![c] = Late(c)]
  BY DEF Commit, End, Late
<1>2. Asked' = [Asked EXCEPT ![c] = None] /\ Asked[c] # None /\ Asked[c] = calls[c].ask
  BY <1>1, NoCallKnown DEF Asked, Inv, NamedTyped
<1>3. CASE Late(c)
  <2>1. crossed' = [crossed EXCEPT ![c] = TRUE]
    BY <1>1, <1>3
  <2> QED BY <1>2, <2>1, NoWishIsNone DEF Atomic!Do
<1>4. CASE ~Late(c)
  <2>1. crossed' = crossed
    <3>1. crossed \in [Client -> BOOLEAN] /\ ~crossed[c]
      BY DEF Inv, NamedTyped
    <3>2. Late(c) = FALSE
      BY <1>4 DEF Late
    <3>3. crossed' = [crossed EXCEPT ![c] = FALSE]
      BY <1>1, <3>2
    <3> QED BY <3>1, <3>3
  <2> QED BY <1>2, <1>4, <2>1, NoWishIsNone DEF Atomic!Do
<1> QED BY <1>3, <1>4

(* What a call saw is still there when it is not late. *)
LEMMA SeenIsThere ==
  ASSUME NEW c \in Client, ~Late(c), calls[c].saw # 0
  PROVE  entries[calls[c].saw] = calls[c].row
  BY DEF Late

-----------------------------------------------------------------------------
(* Each transaction keeps the invariant and is a step of VersionedFiles.   *)
AtOnce == Inv' /\ (Atomic!ANext \/ UNCHANGED Atomic!avars)

LEMMA RefusedAtOnce ==
  ASSUME Inv, NEW c \in Client, calls[c].ask.op # "none", Refused(c)
  PROVE  AtOnce
  BY RefusedKeeps, RefusedIsRefuse DEF AtOnce, Atomic!ANext

LEMMA CommitAtOnce ==
  ASSUME Inv, NEW c \in Client, NEW i \in Ids, NEW line \in Row, NEW event,
         calls[c].ask.op # "none", Commit(c, i, line, event), clip' \in {clip, NoClip},
         ~Late(c) => Atomic!Effect(calls[c].ask),
         ~Late(c) /\ i \notin doubtful => event = Event(line) /\ line.zone = ZoneOf[line.at[1]]
  PROVE  AtOnce
  BY CommitKeeps, CommitIsDo DEF AtOnce, Atomic!ANext

(* An insert finds no row under the name: a put that saw none, or a copy. *)
LEMMA InsertAtOnce ==
  ASSUME Inv, NEW c \in Client, NEW p \in Spot, NEW has \in Bytes, Insert(c, p, has),
         calls[c].ask.op # "none",
         \A i \in Ids : /\ Holders(p) = {} /\ entries[i].state = "none" /\ ~Late(c)
                        /\ Rows' = [Rows EXCEPT ![i] = [state |-> "live", at |-> p, has |-> has]]
                        => Atomic!Effect(calls[c].ask)
  PROVE  AtOnce
<1>1. CASE Holders(p) # {}
  BY <1>1, RefusedAtOnce DEF Insert
<1>2. CASE Holders(p) = {}
  <2> DEFINE line == [state |-> "live", at |-> p, has |-> has, zone |-> ZoneOf[p[1]]]
  <2>1. PICK i \in Ids : /\ entries[i].state = "none"
                         /\ Commit(c, i, line, Event(line)) /\ UNCHANGED clip
    BY <1>2 DEF Insert
  <2>2. line \in Row
    BY DEF Row, Spot, Zone
  <2>3. line.state = "live" /\ line.at = p /\ line.has = has /\ line.zone = ZoneOf[line.at[1]]
    OBVIOUS
  <2> HIDE DEF line
  <2>4. Rows' = [Rows EXCEPT ![i] = [state |-> "live", at |-> p, has |-> has]]
    <3>1. entries' = [entries EXCEPT ![i] = line]
      BY <2>1 DEF Commit
    <3> QED BY <2>2, <2>3, <3>1, Written
  <2>5. ~Late(c) => Atomic!Effect(calls[c].ask)
    BY <1>2, <2>1, <2>4
  <2> QED BY <2>1, <2>2, <2>3, <2>5, CommitAtOnce
<1> QED BY <1>1, <1>2

LEMMA PutAtOnce ==
  ASSUME Inv, NEW c \in Client, CommitPut(c)
  PROVE  AtOnce
<1> DEFINE i == calls[c].saw
           w == calls[c].ask
<1>1. Known(calls[c]) /\ w.op = "put" /\ w.at \in Spot /\ w.has \in Bytes
  BY DEF CommitPut, Inv, Known
<1>2. CASE i = 0
  <2>1. w.expect = "any"
    BY <1>1, <1>2 DEF Known
  <2>2. Insert(c, w.at, w.has)
    BY <1>2 DEF CommitPut
  <2>3. ASSUME NEW j \in Ids, Holders(w.at) = {}, entries[j].state = "none",
               Rows' = [Rows EXCEPT ![j] = [state |-> "live", at |-> w.at, has |-> w.has]]
        PROVE  Atomic!Effect(w)
    <3>1. Rows[j].state = "none"
      BY <2>3 DEF Rows
    <3>2. Atomic!Put(w)
      BY <2>1, <2>3, <3>1, SameHolders DEF Atomic!Put, Atomic!Fresh
    <3> QED BY <1>1, <3>2 DEF Atomic!Effect
  <2> QED BY <1>1, <2>2, <2>3, InsertAtOnce
<1>3. CASE i # 0 /\ ~There(i)
  <2>1. Refused(c)
    BY <1>3 DEF CommitPut
  <2> QED BY <1>1, <2>1, RefusedAtOnce
<1>4. CASE i # 0 /\ There(i)
  <2> DEFINE line   == [entries[i] EXCEPT !.state = "live", !.has = w.has, !.zone = ZoneOf[w.at[1]]]
             event == [live |-> TRUE, at |-> w.at, has |-> w.has]
  <2>1. Commit(c, i, line, event) /\ UNCHANGED clip
    BY <1>4 DEF CommitPut
  <2>2. /\ i \in Ids /\ entries[i] \in Row /\ calls[c].row.at = w.at
        /\ \/ calls[c].row.state = "live" /\ w.replace /\ w.expect \in {"any", calls[c].row.has}
           \/ calls[c].row.state = "bin" /\ w.revive
    BY <1>1, <1>4 DEF Known, Inv, NamedTyped, Ids
  <2>3. ZoneOf[w.at[1]] \in Zone
    BY <1>1 DEF Spot, Zone
  <2>4. line \in Row /\ line.state = "live" /\ line.at = entries[i].at /\ line.has = w.has /\ line.zone = ZoneOf[w.at[1]]
    BY <1>1, <2>2, <2>3 DEF Row
  <2> HIDE DEF line
  <2>5. Rows' = [Rows EXCEPT ![i] = [state |-> "live", at |-> entries[i].at, has |-> w.has]]
    <3>1. entries' = [entries EXCEPT ![i] = line]
      BY <2>1 DEF Commit
    <3>2. Rows' = [Rows EXCEPT ![i] = [state |-> line.state, at |-> line.at, has |-> line.has]]
      BY <2>2, <2>4, <3>1, Written
    <3> QED BY <2>4, <3>2
  <2>6. ASSUME ~Late(c) PROVE Atomic!Effect(w) /\ event = Event(line) /\ line.zone = ZoneOf[line.at[1]]
    <3>1. entries[i] = calls[c].row
      BY <1>4, <2>6, SeenIsThere
    <3>2. i \in Atomic!Holders(w.at)
      BY <1>4, <2>2, <3>1, SameHolders DEF Holders
    <3>3. Rows[i].state = entries[i].state /\ Rows[i].has = entries[i].has
      BY <2>2 DEF Rows
    <3>4. Atomic!Put(w)
      BY <2>2, <2>5, <3>1, <3>2, <3>3 DEF Atomic!Put
    <3>5. event = Event(line)
      BY <2>2, <2>4, <3>1 DEF Event
    <3> QED BY <1>1, <2>2, <2>4, <3>1, <3>4, <3>5 DEF Atomic!Effect
  <2> QED BY <1>1, <2>1, <2>2, <2>4, <2>6, CommitAtOnce
<1> QED BY <1>2, <1>3, <1>4

LEMMA PlaceAtOnce ==
  ASSUME Inv, NEW c \in Client, CommitPlace(c)
  PROVE  AtOnce
<1> DEFINE call == calls[c]
           i    == call.saw
           w    == call.ask
           line  == entries[i]
           at   == IF call.dav THEN w.at
                   ELSE [k \in 1..2 |-> IF w.at[k] = call.row.at[k] THEN line.at[k] ELSE w.at[k]]
           next == [line EXCEPT !.at = at, !.zone = ZoneOfPlace(line, call)]
           event == IF call.dav THEN Event(next) ELSE [live |-> TRUE, at |-> at, has |-> call.row.has]
<1>1. /\ w.op = "place" /\ w.id = i /\ i \in Ids /\ i # 0 /\ w.at \in Spot
      /\ call.row \in Row /\ call.row.state = "live" /\ line \in Row
  BY DEF CommitPlace, Inv, NamedTyped, Known, Ids
<1>2. CASE ~There(i) \/ ~(Holders(at) \subseteq {i})
  <2>1. Refused(c)
    BY <1>2 DEF CommitPlace
  <2> QED BY <1>1, <2>1, RefusedAtOnce
<1>3. CASE There(i) /\ Holders(at) \subseteq {i}
  <2>1. Commit(c, i, next, event) /\ clip' \in {clip, NoClip}
    BY <1>3 DEF CommitPlace
  <2>2. at \in Spot
    <3>1. w.at = <<w.at[1], w.at[2]>> /\ w.at[1] \in Folder /\ w.at[2] \in Name
      BY <1>1 DEF Spot
    <3>2. line.at[1] \in Folder /\ line.at[2] \in Name
      BY <1>1 DEF Row, Spot
    <3>3. CASE call.dav
      BY <1>1, <3>3
    <3>4. CASE ~call.dav
      <4>1. at = <<IF w.at[1] = call.row.at[1] THEN line.at[1] ELSE w.at[1],
                   IF w.at[2] = call.row.at[2] THEN line.at[2] ELSE w.at[2]>>
        BY <3>4
      <4> QED BY <3>1, <3>2, <4>1 DEF Spot
    <3> QED BY <3>3, <3>4
  <2>3. ZoneOfPlace(line, call) \in Zone
    <3>1. w.at[1] \in Folder /\ line.zone \in Zone
      BY <1>1 DEF Spot, Row
    <3>2. ZoneOf[w.at[1]] \in Zone
      BY <3>1 DEF Zone
    <3> QED BY <3>1, <3>2 DEF ZoneOfPlace
  <2>4. ~Late(c) => call.row = line /\ at = w.at
    <3> SUFFICES ASSUME ~Late(c) PROVE call.row = line /\ at = w.at
      OBVIOUS
    <3>1. call.row = line
      BY <1>1, SeenIsThere
    <3>2. w.at = <<w.at[1], w.at[2]>>
      BY <1>1 DEF Spot
    <3>3. ~call.dav => at = [k \in 1..2 |-> w.at[k]]
      BY <3>1
    <3>4. ~call.dav => at = <<w.at[1], w.at[2]>>
      BY <3>3
    <3> QED BY <3>1, <3>2, <3>4
  <2> HIDE DEF at
  <2>5. next \in Row /\ next.state = line.state /\ next.at = at /\ next.has = line.has /\ next.zone = ZoneOfPlace(line, call)
    BY <1>1, <2>2, <2>3 DEF Row
  <2> HIDE DEF next
  <2>6. Rows' = [Rows EXCEPT ![i] = [state |-> line.state, at |-> at, has |-> line.has]]
    <3>1. entries' = [entries EXCEPT ![i] = next]
      BY <2>1 DEF Commit
    <3>2. Rows' = [Rows EXCEPT ![i] = [state |-> next.state, at |-> next.at, has |-> next.has]]
      BY <1>1, <2>5, <3>1, Written
    <3> QED BY <2>5, <3>2
  <2>7. ASSUME ~Late(c) PROVE Atomic!Effect(w)
    <3>1. Rows[i] = [state |-> line.state, at |-> line.at, has |-> line.has]
      BY <1>1 DEF Rows
    <3>2. Rows' = [Rows EXCEPT ![i].at = w.at]
      <4>1. [Rows[i] EXCEPT !.at = w.at] = [state |-> line.state, at |-> w.at, has |-> line.has]
        BY <3>1
      <4>2. Rows' = [Rows EXCEPT ![i] = [Rows[i] EXCEPT !.at = w.at]]
        BY <2>4, <2>6, <2>7, <4>1
      <4> QED BY <4>2
    <3>3. Atomic!Holders(w.at) \subseteq {i} /\ Rows[i].state = "live"
      BY <1>1, <1>3, <2>4, <2>7, <3>1, SameHolders
    <3> QED BY <1>1, <3>2, <3>3 DEF Atomic!Effect, Atomic!Place
  <2>8. ASSUME ~Late(c), i \notin doubtful PROVE event = Event(next) /\ next.zone = ZoneOf[next.at[1]]
    <3>1. line.zone = ZoneOf[line.at[1]]
      BY <1>1, <1>3, <2>8 DEF Inv, EntriesAreTold
    <3>2. call.dav => ZoneOf[line.at[1]] = "files" /\ ZoneOf[w.at[1]] = "files"
      BY <1>1, <2>4, <2>8 DEF Inv, Known
    <3>3. next.zone = ZoneOf[next.at[1]]
      BY <2>4, <2>5, <2>8, <3>1, <3>2 DEF ZoneOfPlace
    <3>4. event = Event(next)
      BY <1>1, <2>4, <2>5, <2>8 DEF Event
    <3> QED BY <3>3, <3>4
  <2> QED BY <1>1, <2>1, <2>5, <2>7, <2>8, CommitAtOnce
<1> QED BY <1>2, <1>3

LEMMA StateAtOnce ==
  ASSUME Inv, NEW c \in Client, CommitState(c)
  PROVE  AtOnce
<1> DEFINE call == calls[c]
           i    == call.saw
           w    == call.ask
           line  == entries[i]
           next == [line EXCEPT !.state = IF w.op = "bin" THEN "bin" ELSE "live"]
<1>1. /\ w.op \in {"bin", "back"} /\ w.id = i /\ i \in Ids /\ i # 0 /\ line \in Row
      /\ w.op = "bin" => call.row.state = "live"
  BY DEF CommitState, Inv, NamedTyped, Known, Ids
<1>2. CASE ~There(i)
  <2>1. Refused(c)
    BY <1>2 DEF CommitState
  <2> QED BY <1>1, <2>1, RefusedAtOnce
<1>3. CASE There(i)
  <2>1. Commit(c, i, next, Event(next)) /\ clip' \in {clip, NoClip}
    BY <1>3 DEF CommitState
  <2>2. /\ next \in Row /\ next.at = line.at /\ next.has = line.has /\ next.zone = line.zone
        /\ next.state = IF w.op = "bin" THEN "bin" ELSE "live"
    BY <1>1 DEF Row
  <2> HIDE DEF next
  <2>3. Rows' = [Rows EXCEPT ![i] = [state |-> next.state, at |-> line.at, has |-> line.has]]
    <3>1. entries' = [entries EXCEPT ![i] = next]
      BY <2>1 DEF Commit
    <3>2. Rows' = [Rows EXCEPT ![i] = [state |-> next.state, at |-> next.at, has |-> next.has]]
      BY <1>1, <2>2, <3>1, Written
    <3> QED BY <2>2, <3>2
  <2>4. ASSUME ~Late(c) PROVE Atomic!Effect(w)
    <3>1. Rows[i] = [state |-> line.state, at |-> line.at, has |-> line.has]
      BY <1>1 DEF Rows
    <3>2. [Rows[i] EXCEPT !.state = next.state] = [state |-> next.state, at |-> line.at, has |-> line.has]
      BY <3>1
    <3>3. Rows' = [Rows EXCEPT ![i].state = next.state]
      <4>1. Rows' = [Rows EXCEPT ![i] = [Rows[i] EXCEPT !.state = next.state]]
        BY <2>3, <3>2
      <4> QED BY <4>1
    <3>4. call.row = line
      BY <1>1, <2>4, SeenIsThere
    <3>5. CASE w.op = "bin"
      <4>1. Atomic!Bin(w)
        BY <1>1, <2>2, <3>1, <3>3, <3>4, <3>5 DEF Atomic!Bin
      <4> QED BY <3>5, <4>1 DEF Atomic!Effect
    <3>6. CASE w.op = "back"
      <4>1. Atomic!Back(w)
        BY <1>1, <1>3, <2>2, <3>1, <3>3, <3>6 DEF Atomic!Back, There
      <4> QED BY <3>6, <4>1 DEF Atomic!Effect
    <3> QED BY <1>1, <3>5, <3>6
  <2>5. i \notin doubtful => next.zone = ZoneOf[next.at[1]]
    BY <1>1, <1>3, <2>2 DEF Inv, EntriesAreTold
  <2> QED BY <1>1, <2>1, <2>2, <2>4, <2>5, CommitAtOnce
<1> QED BY <1>2, <1>3

LEMMA CopyAtOnce ==
  ASSUME Inv, NEW c \in Client, CommitCopy(c)
  PROVE  AtOnce
<1> DEFINE call == calls[c]
           i    == call.saw
           w    == call.ask
<1>1. /\ w.op = "copy" /\ w.id = i /\ i \in Ids /\ i # 0 /\ w.at \in Spot
      /\ call.row \in Row /\ call.row.state = "live" /\ Insert(c, w.at, call.row.has)
  BY DEF CommitCopy, Inv, NamedTyped, Known, Ids
<1>2. call.row.has \in Bytes
  BY <1>1 DEF Row
<1>3. ASSUME NEW j \in Ids, Holders(w.at) = {}, entries[j].state = "none", ~Late(c),
             Rows' = [Rows EXCEPT ![j] = [state |-> "live", at |-> w.at, has |-> call.row.has]]
      PROVE  Atomic!Effect(w)
  <2>1. entries[i] = call.row
    BY <1>1, <1>3, SeenIsThere
  <2>2. Rows[j].state = "none" /\ Rows[i] = [state |-> "live", at |-> call.row.at, has |-> call.row.has]
    BY <1>1, <1>3, <2>1 DEF Rows
  <2>3. [Rows[i] EXCEPT !.at = w.at] = [state |-> "live", at |-> w.at, has |-> call.row.has]
    BY <2>2
  <2>4. Atomic!Copy(w)
    BY <1>1, <1>3, <2>2, <2>3, SameHolders DEF Atomic!Copy, Atomic!Fresh
  <2> QED BY <1>1, <2>4 DEF Atomic!Effect
<1> QED BY <1>1, <1>2, <1>3, InsertAtOnce

LEMMA PurgeAtOnce ==
  ASSUME Inv, NEW i \in Ids, Purge(i)
  PROVE  AtOnce
<1> DEFINE gone == [entries[i] EXCEPT !.state = "gone"]
<1>1. /\ entries \in [Id -> Row] /\ entries[i] \in Row /\ Ids \subseteq Id
      /\ entries[i].state = "bin" /\ UNCHANGED <<calls, clip, crossed, doubtful>>
      /\ told' = [told EXCEPT ![i].live = FALSE]
  BY DEF Purge, Inv, NamedTyped, Ids
<1>2. gone \in Row /\ gone.state = "gone" /\ gone.at = entries[i].at /\ gone.has = entries[i].has
  BY <1>1 DEF Row
<1>3. entries' = [entries EXCEPT ![i] = gone]
  BY DEF Purge
<1> HIDE DEF gone
<1>4. NamedTyped'
  BY <1>1, <1>2, <1>3 DEF Inv, NamedTyped
<1>5. EntriesAreTold'
  <2> SUFFICES ASSUME NEW j \in Ids \ doubtful, entries'[j].state \in {"live", "bin"}
               PROVE  told'[j] = Event(entries'[j]) /\ entries'[j].zone = ZoneOf[entries'[j].at[1]]
    BY <1>1 DEF EntriesAreTold, There, Event
  <2>1. j # i /\ entries'[j] = entries[j] /\ told'[j] = told[j]
    BY <1>1, <1>2, <1>3 DEF Inv, NamedTyped
  <2> QED BY <2>1 DEF Inv, EntriesAreTold, There
<1>6. Inv'
  BY <1>1, <1>4, <1>5 DEF Inv, Known
<1>7. Atomic!Empty(i)
  <2>1. Rows' = [Rows EXCEPT ![i] = [state |-> gone.state, at |-> gone.at, has |-> gone.has]]
    BY <1>2, <1>3, Written
  <2>2. Rows[i] = [state |-> "bin", at |-> entries[i].at, has |-> entries[i].has]
    BY <1>1 DEF Rows
  <2>3. [Rows[i] EXCEPT !.state = "gone"] = [state |-> "gone", at |-> entries[i].at, has |-> entries[i].has]
    BY <2>2
  <2>4. Rows' = [Rows EXCEPT ![i].state = "gone"]
    <3>1. Rows' = [Rows EXCEPT ![i] = [Rows[i] EXCEPT !.state = "gone"]]
      BY <1>2, <2>1, <2>3
    <3> QED BY <3>1
  <2> QED BY <1>1, <2>2, <2>4 DEF Atomic!Empty, Asked
<1> QED BY <1>6, <1>7 DEF AtOnce, Atomic!ANext

LEMMA ClipAtOnce ==
  ASSUME Inv, NEW i \in Ids, NEW mode, SetClip(i, mode)
  PROVE  AtOnce
<1>1. clip' = [id |-> i, mode |-> mode] /\ UNCHANGED <<entries, calls, told, crossed, doubtful>>
  BY DEF SetClip
<1>2. Inv'
  <2>1. NamedTyped'
    BY <1>1 DEF Inv, NamedTyped
  <2>2. EntriesAreTold'
    BY <1>1 DEF Inv, EntriesAreTold, There, Event
  <2> QED BY <1>1, <2>1, <2>2 DEF Inv, Known
<1>3. UNCHANGED Atomic!avars
  BY <1>1 DEF Atomic!avars, Rows, Asked
<1> QED BY <1>2, <1>3 DEF AtOnce

LEMMA BeginAtOnce ==
  ASSUME Inv, NEW c \in Client, Begins(c)
  PROVE  AtOnce
  BY BeginKeeps, BeginIsAsk DEF AtOnce, Atomic!ANext

LEMMA StepAtOnce == Inv /\ [NNext]_nvars => AtOnce
<1> SUFFICES ASSUME Inv, [NNext]_nvars PROVE AtOnce
  OBVIOUS
<1>1. CASE UNCHANGED nvars
  <2>1. UNCHANGED Atomic!avars
    BY <1>1 DEF nvars, Atomic!avars, Rows, Asked
  <2>2. Inv'
    <3>1. NamedTyped'
      BY <1>1 DEF nvars, Inv, NamedTyped
    <3>2. EntriesAreTold'
      BY <1>1 DEF nvars, Inv, EntriesAreTold, There, Event
    <3> QED BY <1>1, <3>1, <3>2 DEF nvars, Inv, Known
  <2> QED BY <2>1, <2>2 DEF AtOnce
<1>2. ASSUME NEW c \in Client, CommitPut(c) \/ CommitPlace(c) \/ CommitState(c) \/ CommitCopy(c)
      PROVE  AtOnce
  BY <1>2, PutAtOnce, PlaceAtOnce, StateAtOnce, CopyAtOnce
<1>3. ASSUME NEW c \in Client, NEW p \in Spot, NEW has \in Bytes, NEW s \in Styles, LookPut(c, p, has, s)
      PROVE  AtOnce
  BY <1>3, LookPutBegins, BeginAtOnce
<1>4. ASSUME NEW c \in Client, NEW i \in Ids, NEW p \in Spot, NEW how \in Hows, LookPlace(c, i, p, how)
      PROVE  AtOnce
  BY <1>4, LookPlaceBegins, BeginAtOnce
<1>5. ASSUME NEW c \in Client, NEW i \in Ids, NEW op \in {"bin", "back"}, LookState(c, i, op)
      PROVE  AtOnce
  BY <1>5, LookStateBegins, BeginAtOnce
<1>6. ASSUME NEW c \in Client, NEW f \in Folder, LookCopy(c, f)
      PROVE  AtOnce
  BY <1>6, LookCopyBegins, BeginAtOnce
<1>7. ASSUME NEW i \in Ids, Purge(i) \/ \E mode \in {"cut", "copy"} : SetClip(i, mode)
      PROVE  AtOnce
  BY <1>7, PurgeAtOnce, ClipAtOnce
<1> QED BY <1>1, <1>2, <1>3, <1>4, <1>5, <1>6, <1>7 DEF NNext

(* The calls on files, each of which reads an entry and writes it in a     *)
(* later transaction while others do the same, implement calls that take   *)
(* effect at one moment, a late one excepted; and the journal's last word  *)
(* on an entry no late call has written is what the entry is, its zone     *)
(* that of its folder.                                                     *)
THEOREM CallsTakeEffectAtOnce == NSpec => CallsAreAtomic
<1>1. NInit => Inv /\ Atomic!AInit
  <2>1. NInit => Asked = [c \in Client |-> Atomic!NoWish] /\ crossed = [c \in Client |-> FALSE]
    BY NoCallKnown, NoWishIsNone DEF NInit, Asked
  <2> QED BY <2>1, InitInv DEF Atomic!AInit
<1>2. Inv /\ [NNext]_nvars => Inv' /\ [Atomic!ANext]_(Atomic!avars) /\ EntriesAreTold'
  BY StepAtOnce DEF AtOnce, Inv
<1> QED BY <1>1, <1>2, PTL DEF NSpec, CallsAreAtomic, Implements, Atomic!ASpec

-----------------------------------------------------------------------------
(* The date of a shot.                                                     *)

Found == {"nothing", "some", "size", "date"}
ALook == [job : {"none", "photos", "files", "archive", "worker", "page"},
          pc : {"idle", "check", "row", "head", "deep", "whole", "ensure", "look", "fill", "exists", "local", "useful"},
          keep : BOOLEAN, stale : BOOLEAN]
AMeta == [there : BOOLEAN, date : {"none", "now", "sidecar", "tag"}, raw : {"none", "some", "size", "date"}]

\* What a caller has in hand is what the row has or had: who keeps the date has seen that of the tags.
LookOK(r, m, c) ==
  /\ r.pc \in {"look", "fill"} => m.there
  /\ r.pc = "fill" /\ r.keep => m.raw = "date" \/ c
  /\ r.pc = "fill" /\ ~r.keep /\ ~r.stale => m.raw # "date"

DatesInv ==
  /\ shot \in Shots /\ meta \in AMeta /\ job \in [Looker -> ALook]
  /\ given \in {"none", "now", "sidecar"} /\ raced \in BOOLEAN /\ cut \in BOOLEAN
  /\ meta.raw # "none" => meta.there
  /\ ~meta.there => meta.date = "none" /\ given = "none"
  /\ meta.raw = "date" => meta.date # "none"
  /\ \A p \in Looker : LookOK(job[p], meta, cut)
  /\ meta.raw = "date" /\ ~raced => meta.date = "tag"
  /\ meta.raw # "date" /\ ~cut /\ given # "none" => meta.date = given

LEMMA DatesTrue == DatesInv => Dates!DatesSound
BY DEF DatesInv, LookOK, Dates!DatesSound

LEMMA DatesFirst == Dates!MInit => DatesInv
<1> SUFFICES ASSUME Dates!MInit PROVE DatesInv
  OBVIOUS
<1>1. meta = [there |-> FALSE, date |-> "none", raw |-> "none"] /\ meta \in AMeta
  BY DEF Dates!MInit, AMeta
<1>2. job \in [Looker -> ALook] /\ \A p \in Looker : job[p].pc = "idle"
  BY DEF Dates!MInit, Dates!NoProc, ALook
<1>3. shot \in Shots /\ given = "none" /\ raced = FALSE /\ cut = FALSE
  BY DEF Dates!MInit
<1> QED BY <1>1, <1>2, <1>3 DEF DatesInv, LookOK

LEMMA Yields == ASSUME NEW s \in Shots, NEW i \in 1..3 PROVE s.at[i] \in Found
<1>1. s.at \in Seq(Found) /\ Len(s.at) = 3
  BY ReadingsAssumption DEF Found
<1> QED BY <1>1

\* A caller goes on, and the others stay where they are.
LEMMA DatesGo ==
  ASSUME DatesInv, NEW p \in Looker, NEW pc, NEW n, n = Dates!Go(p, pc),
         pc \in {"end", "check", "row", "head", "deep", "whole", "ensure", "look", "exists", "local", "useful"}
  PROVE  /\ n \in [Looker -> ALook]
         /\ \A q \in Looker : n[q].pc \in {"look", "fill"} => (n[q] = job[q] \/ (q = p /\ n[q].pc = pc))
<1>1. job \in [Looker -> ALook]
  BY DEF DatesInv
<1>2. CASE pc = "end"
  BY <1>1, <1>2 DEF Dates!Go, Dates!NoProc, ALook
<1>3. CASE pc # "end"
  <2>1. n = [job EXCEPT ![p] = [job[p] EXCEPT !.pc = pc]]
    BY <1>3 DEF Dates!Go
  <2>2. [job[p] EXCEPT !.pc = pc] \in ALook /\ [job[p] EXCEPT !.pc = pc].pc = pc
    BY <1>1, <1>3 DEF ALook
  <2> QED BY <1>1, <2>1, <2>2
<1> QED BY <1>2, <1>3

\* A caller that goes on without a change of the row.
LEMMA DatesQuiet ==
  ASSUME DatesInv, NEW p \in Looker, NEW pc, job' = Dates!Go(p, pc), UNCHANGED <<shot, meta, given, raced, cut>>,
         pc \in {"end", "check", "row", "head", "deep", "whole", "ensure", "look", "exists", "local", "useful"},
         pc = "look" => meta.there
  PROVE  DatesInv'
<1>1. /\ job' \in [Looker -> ALook]
      /\ \A q \in Looker : job'[q].pc \in {"look", "fill"} => (job'[q] = job[q] \/ (q = p /\ job'[q].pc = pc))
  BY DatesGo
<1>2. \A q \in Looker : LookOK(job'[q], meta, cut)
  <2> SUFFICES ASSUME NEW q \in Looker PROVE LookOK(job'[q], meta, cut)
    OBVIOUS
  <2>1. CASE job'[q].pc \notin {"look", "fill"}
    BY <2>1 DEF LookOK
  <2>2. CASE job'[q] = job[q]
    BY <2>2 DEF DatesInv
  <2>3. CASE job'[q].pc = "look" /\ meta.there
    BY <2>3 DEF LookOK
  <2>4. job'[q].pc = pc => job'[q].pc = "look" \/ job'[q].pc \notin {"look", "fill"}
    OBVIOUS
  <2> QED BY <1>1, <2>1, <2>2, <2>3, <2>4
<1> QED BY <1>1, <1>2 DEF DatesInv

\* A parse writes what it found.
LEMMA DatesStored ==
  ASSUME DatesInv, NEW found \in Found, NEW n \in [Looker -> ALook], Dates!Stored(found, n), UNCHANGED <<shot, given, raced>>,
         \A q \in Looker : n[q].pc \in {"look", "fill"} => (n[q] = job[q] \/ (n[q].pc = "look" /\ (meta.there \/ found # "nothing")))
  PROVE  DatesInv'
<1>1. meta \in AMeta /\ cut \in BOOLEAN
  BY DEF DatesInv
<1>2. /\ found = "nothing" => meta' = meta /\ cut' = cut
      /\ found # "nothing" => meta'.there /\ meta'.raw = found /\ meta' \in AMeta
      /\ found = "date" => meta'.date = "tag" /\ cut' = cut
      /\ found \in {"some", "size"} => meta'.date = meta.date /\ cut' = (cut \/ meta.raw = "date")
  BY <1>1 DEF Dates!Stored, AMeta, Found
<1>3. \A q \in Looker : /\ job'[q] \in ALook /\ job'[q].pc = n[q].pc /\ job'[q].keep = n[q].keep
                        /\ n[q].pc = "fill" /\ found = "date" => job'[q].stale
                        /\ ~(n[q].pc = "fill" /\ found = "date") => job'[q] = n[q]
  BY DEF Dates!Stored, ALook
<1>4. job' \in [Looker -> ALook]
  BY <1>3 DEF Dates!Stored
<1>5. \A q \in Looker : LookOK(job'[q], meta', cut')
  <2> SUFFICES ASSUME NEW q \in Looker PROVE LookOK(job'[q], meta', cut')
    OBVIOUS
  <2>1. LookOK(job[q], meta, cut)
    BY DEF DatesInv
  <2>2. CASE n[q].pc \notin {"look", "fill"}
    BY <1>3, <2>2 DEF LookOK
  <2>3. CASE n[q] = job[q] /\ found = "nothing"
    BY <1>2, <1>3, <2>1, <2>3 DEF LookOK
  <2>4. CASE n[q] = job[q] /\ found = "date"
    BY <1>2, <1>3, <2>1, <2>4 DEF LookOK
  <2>5. CASE n[q] = job[q] /\ found \in {"some", "size"}
    BY <1>2, <1>3, <2>1, <2>5 DEF LookOK
  <2>6. CASE n[q].pc = "look" /\ (meta.there \/ found # "nothing")
    BY <1>2, <1>3, <2>6 DEF LookOK
  <2> QED BY <2>2, <2>3, <2>4, <2>5, <2>6 DEF Found
<1>6. /\ meta'.raw # "none" => meta'.there
      /\ ~meta'.there => meta'.date = "none" /\ given = "none"
      /\ meta'.raw = "date" => meta'.date # "none"
      /\ meta'.raw = "date" /\ ~raced => meta'.date = "tag"
      /\ meta'.raw # "date" /\ ~cut' /\ given # "none" => meta'.date = given
  <2>1. CASE found = "nothing"
    BY <1>2, <2>1 DEF DatesInv
  <2>2. CASE found = "date"
    BY <1>2, <2>2
  <2>3. CASE found \in {"some", "size"}
    <3>1. meta'.there /\ meta'.raw # "date" /\ meta'.date = meta.date
      BY <1>2, <2>3
    <3>2. ~cut' => ~cut /\ meta.raw # "date"
      BY <1>2, <2>3
    <3> QED BY <3>1, <3>2 DEF DatesInv
  <2> QED BY <2>1, <2>2, <2>3 DEF Found
<1>7. cut' \in BOOLEAN /\ meta' \in AMeta
  BY <1>1, <1>2 DEF Found
<1> QED BY <1>4, <1>5, <1>6, <1>7 DEF DatesInv

LEMMA DatesParse ==
  ASSUME DatesInv, NEW p \in Looker, NEW i \in 1..3, NEW pc, NEW other,
         \/ Dates!Stored(shot.at[i], Dates!Go(p, pc)) /\ UNCHANGED misses
         \/ Dates!Fails /\ job' = Dates!Go(p, other) /\ UNCHANGED <<meta, cut>>,
         UNCHANGED <<shot, bg, jobs, given, raced>>,
         {pc, other} \subseteq {"end", "check", "row", "head", "deep", "whole", "ensure", "look", "exists", "local", "useful"},
         pc = "look" => shot.at[i] # "nothing", other # "look"
  PROVE  DatesInv'
<1>1. shot.at[i] \in Found
  BY Yields DEF DatesInv
<1>2. CASE Dates!Stored(shot.at[i], Dates!Go(p, pc))
  <2> DEFINE n == Dates!Go(p, pc)
  <2>1. /\ n \in [Looker -> ALook]
        /\ \A q \in Looker : n[q].pc \in {"look", "fill"} => (n[q] = job[q] \/ (q = p /\ n[q].pc = pc))
    <3> HIDE DEF n
    <3>1. n = Dates!Go(p, pc)
      BY DEF n
    <3> QED BY <3>1, DatesGo
  <2> HIDE DEF n
  <2>2. \A q \in Looker : n[q].pc \in {"look", "fill"} => (n[q] = job[q] \/ (n[q].pc = "look" /\ (meta.there \/ shot.at[i] # "nothing")))
    BY <2>1
  <2>3. Dates!Stored(shot.at[i], n)
    BY <1>2 DEF n
  <2> QED BY <1>1, <2>1, <2>2, <2>3, DatesStored
<1>3. CASE job' = Dates!Go(p, other) /\ UNCHANGED <<meta, cut>>
  BY <1>3, DatesQuiet
<1> QED BY <1>2, <1>3

\* A row is made where there was none.
LEMMA DatesRow ==
  ASSUME DatesInv, NEW p \in Looker, NEW date, meta' = Dates!Ensured(date), job' = Dates!Go(p, Dates!After(p)),
         UNCHANGED <<shot, raced, cut>>,
         \/ date = "none" /\ given' = given
         \/ date = "now" /\ given' = IF meta.there THEN given ELSE "now"
  PROVE  DatesInv'
<1>1. Dates!After(p) \in {"look", "end"}
  BY DEF Dates!After
<1>2. /\ job' \in [Looker -> ALook]
      /\ \A q \in Looker : job'[q].pc \in {"look", "fill"} => (job'[q] = job[q] \/ (q = p /\ job'[q].pc = Dates!After(p)))
  <2> DEFINE pc == Dates!After(p)
  <2>1. pc \in {"end", "look"} /\ job' = Dates!Go(p, pc)
    BY <1>1
  <2> HIDE DEF pc
  <2>2. /\ job' \in [Looker -> ALook]
        /\ \A q \in Looker : job'[q].pc \in {"look", "fill"} => (job'[q] = job[q] \/ (q = p /\ job'[q].pc = pc))
    BY <2>1, DatesGo
  <2> QED BY <2>2 DEF pc
<1>3. meta \in AMeta /\ given \in {"none", "now", "sidecar"}
  BY DEF DatesInv
<1>4. /\ meta' \in AMeta /\ meta'.there
      /\ meta.there => meta' = meta /\ given' = given
      /\ ~meta.there => meta'.raw = "none" /\ meta'.date = date
  BY <1>3 DEF Dates!Ensured, AMeta
<1>5. \A q \in Looker : LookOK(job'[q], meta', cut)
  <2> SUFFICES ASSUME NEW q \in Looker PROVE LookOK(job'[q], meta', cut)
    OBVIOUS
  <2>1. LookOK(job[q], meta, cut) /\ (meta.raw # "none" => meta.there)
    BY DEF DatesInv
  <2>2. CASE job'[q].pc \notin {"look", "fill"}
    BY <2>2 DEF LookOK
  <2>3. CASE job'[q] = job[q]
    BY <1>4, <2>1, <2>3 DEF LookOK
  <2>4. CASE job'[q].pc = "look"
    BY <1>4, <2>4 DEF LookOK
  <2> QED BY <1>1, <1>2, <2>2, <2>3, <2>4
<1>6. CASE meta.there
  BY <1>2, <1>4, <1>5, <1>6 DEF DatesInv
<1>7. CASE ~meta.there
  <2>1. given = "none" /\ given' \in {"none", "now"} /\ (given' # "none" => given' = date)
    BY <1>7 DEF DatesInv
  <2> QED BY <1>2, <1>4, <1>5, <1>7, <2>1 DEF DatesInv
<1> QED BY <1>6, <1>7

\* A date is given from outside.
LEMMA DatesFill == ASSUME DatesInv, NEW p \in Looker, Dates!Fill(p) PROVE DatesInv'
<1> DEFINE date == IF job[p].job = "photos" THEN "now" ELSE "sidecar"
<1>1. /\ meta \in AMeta /\ job \in [Looker -> ALook] /\ job[p] \in ALook /\ raced \in BOOLEAN
      /\ LookOK(job[p], meta, cut) /\ job[p].pc = "fill" /\ meta.there
  BY DEF DatesInv, Dates!Fill, LookOK
<1>2. /\ job' \in [Looker -> ALook]
      /\ \A q \in Looker : job'[q].pc = "idle" \/ job'[q] = job[q]
  BY <1>1 DEF Dates!Fill, Dates!NoProc, ALook
<1>3. /\ job[p].keep => meta' = meta
      /\ ~job[p].keep => meta'.date = date
      /\ meta' \in AMeta /\ meta'.there /\ meta'.raw = meta.raw
      /\ raced' = (raced \/ (job[p].stale /\ ~job[p].keep))
      /\ given' = date /\ date \in {"now", "sidecar"} /\ UNCHANGED <<shot, cut>>
  BY <1>1 DEF Dates!Fill, AMeta
<1> HIDE DEF date
<1>4. \A q \in Looker : LookOK(job'[q], meta', cut)
  <2> SUFFICES ASSUME NEW q \in Looker PROVE LookOK(job'[q], meta', cut)
    OBVIOUS
  <2>1. LookOK(job[q], meta, cut)
    BY DEF DatesInv
  <2> QED BY <1>2, <1>3, <2>1 DEF LookOK
<1>5. /\ meta'.raw = "date" => meta'.date # "none"
      /\ meta'.raw = "date" /\ ~raced' => meta'.date = "tag"
  <2>1. CASE job[p].keep
    BY <1>1, <1>3, <2>1 DEF DatesInv
  <2>2. CASE ~job[p].keep
    BY <1>1, <1>3, <2>2 DEF LookOK
  <2> QED BY <2>1, <2>2
<1>6. meta'.raw # "date" /\ ~cut => meta'.date = given'
  BY <1>1, <1>3 DEF LookOK
<1>7. raced' \in BOOLEAN
  BY <1>1, <1>3 DEF ALook
<1> QED BY <1>2, <1>3, <1>4, <1>5, <1>6, <1>7 DEF DatesInv

LEMMA DatesStep == ASSUME DatesInv, [Dates!MNext]_datesVars PROVE DatesInv'
<1>1. CASE UNCHANGED datesVars
  BY <1>1 DEF datesVars, DatesInv
<1>2. ASSUME NEW p \in Looker, NEW task \in {"photos", "files", "archive", "worker", "page"}, Dates!Begin(p, task) PROVE DatesInv'
  <2>1. job \in [Looker -> ALook]
    BY DEF DatesInv
  <2>2. \E r \in ALook : r.pc \notin {"look", "fill"} /\ job' = [job EXCEPT ![p] = r]
    BY <1>2 DEF Dates!Begin, Dates!NoProc, ALook
  <2>3. job' \in [Looker -> ALook] /\ \A q \in Looker : job'[q].pc \notin {"look", "fill"} \/ job'[q] = job[q]
    BY <2>1, <2>2
  <2>4. UNCHANGED <<shot, meta, given, raced, cut>>
    BY <1>2 DEF Dates!Begin
  <2> QED BY <2>3, <2>4 DEF DatesInv, LookOK
<1>3. ASSUME NEW p \in Looker, Dates!Check(p) PROVE DatesInv'
  <2> DEFINE pc == IF Dates!HasComplete THEN Dates!After(p) ELSE IF shot.video THEN "row" ELSE "head"
  <2>1. pc \in {"look", "end", "row", "head"} /\ (pc = "look" => meta.there)
    BY DEF Dates!After, Dates!HasComplete, DatesInv
  <2>2. job' = Dates!Go(p, pc) /\ UNCHANGED <<shot, meta, given, raced, cut>>
    BY <1>3 DEF Dates!Check
  <2> HIDE DEF pc
  <2> QED BY <2>1, <2>2, DatesQuiet
<1>4. ASSUME NEW p \in Looker, Dates!VideoRow(p) PROVE DatesInv'
  BY <1>4, DatesRow DEF Dates!VideoRow
<1>5. ASSUME NEW p \in Looker, Dates!Head(p) PROVE DatesInv'
  <2> DEFINE more == IF shot.sharp THEN "deep" ELSE "ensure"
             pc == IF shot.at[1] \in {"size", "date"} THEN Dates!After(p) ELSE more
  <2>1. pc \in {"look", "end", "deep", "ensure"} /\ (pc = "look" => shot.at[1] # "nothing") /\ more \in {"deep", "ensure"}
    BY DEF Dates!After
  <2>2. /\ \/ Dates!Stored(shot.at[1], Dates!Go(p, pc)) /\ UNCHANGED misses
           \/ Dates!Fails /\ job' = Dates!Go(p, more) /\ UNCHANGED <<meta, cut>>
        /\ UNCHANGED <<shot, bg, jobs, given, raced>>
    BY <1>5 DEF Dates!Head
  <2> HIDE DEF pc, more
  <2> QED BY <2>1, <2>2, DatesParse
<1>6. ASSUME NEW p \in Looker, Dates!Deep(p) PROVE DatesInv'
  <2> DEFINE other == Dates!AfterDetail(p)
             pc == IF shot.at[2] \in {"size", "date"} THEN other ELSE "whole"
  <2>1. {pc, other} \subseteq {"end", "ensure", "whole"}
    BY DEF Dates!AfterDetail
  <2>2. /\ \/ Dates!Stored(shot.at[2], Dates!Go(p, pc)) /\ UNCHANGED misses
           \/ Dates!Fails /\ job' = Dates!Go(p, other) /\ UNCHANGED <<meta, cut>>
        /\ UNCHANGED <<shot, bg, jobs, given, raced>>
    BY <1>6 DEF Dates!Deep
  <2> HIDE DEF pc, other
  <2> QED BY <2>1, <2>2, DatesParse
<1>7. ASSUME NEW p \in Looker, Dates!Whole(p) PROVE DatesInv'
  <2> DEFINE other == Dates!AfterDetail(p)
  <2>1. other \in {"end", "ensure"}
    BY DEF Dates!AfterDetail
  <2>2. /\ \/ Dates!Stored(shot.at[3], Dates!Go(p, other)) /\ UNCHANGED misses
           \/ Dates!Fails /\ job' = Dates!Go(p, other) /\ UNCHANGED <<meta, cut>>
        /\ UNCHANGED <<shot, bg, jobs, given, raced>>
    BY <1>7 DEF Dates!Whole
  <2> HIDE DEF other
  <2> QED BY <2>1, <2>2, DatesParse
<1>8. ASSUME NEW p \in Looker, Dates!EnsureRow(p) PROVE DatesInv'
  BY <1>8, DatesRow DEF Dates!EnsureRow
<1>9. ASSUME NEW p \in Looker, Dates!Look(p) PROVE DatesInv'
  <2>1. job \in [Looker -> ALook] /\ meta \in AMeta /\ job[p].pc = "look" /\ meta.there
    BY <1>9 DEF DatesInv, LookOK, Dates!Look
  <2>2. PICK k \in BOOLEAN : k = Dates!Keeps
    BY DEF Dates!Keeps
  <2>3. job' = [job EXCEPT ![p] = [job[p] EXCEPT !.pc = "fill", !.keep = k]] /\ UNCHANGED <<shot, meta, given, raced, cut>>
    BY <1>9, <2>2 DEF Dates!Look
  <2>4. /\ job' \in [Looker -> ALook] /\ \A q \in Looker \ {p} : job'[q] = job[q]
        /\ job'[p].pc = "fill" /\ job'[p].keep = k
    BY <2>1, <2>3 DEF ALook
  <2>5. (k => meta.raw = "date") /\ (~k => meta.raw # "date")
    BY <2>2 DEF Dates!Keeps, DatesInv
  <2>6. LookOK(job'[p], meta, cut)
    BY <2>1, <2>4, <2>5 DEF LookOK
  <2>7. \A q \in Looker : LookOK(job'[q], meta, cut)
    BY <2>4, <2>6 DEF DatesInv
  <2> QED BY <2>3, <2>4, <2>7 DEF DatesInv
<1>10. ASSUME NEW p \in Looker, Dates!Exists(p) PROVE DatesInv'
  <2> DEFINE pc == IF IF shot.video THEN Dates!HasComplete ELSE meta.there \/ ~shot.sharp THEN "end" ELSE "local"
  <2>1. pc \in {"end", "local"}
    OBVIOUS
  <2>2. job' = Dates!Go(p, pc) /\ UNCHANGED <<shot, meta, given, raced, cut>>
    BY <1>10 DEF Dates!Exists
  <2> HIDE DEF pc
  <2> QED BY <2>1, <2>2, DatesQuiet
<1>11. ASSUME NEW p \in Looker, Dates!Local(p) PROVE DatesInv'
  BY <1>11, DatesParse DEF Dates!Local
<1>12. ASSUME NEW p \in Looker, Dates!Useful(p) PROVE DatesInv'
  <2> DEFINE pc == CASE Dates!HasUseful \/ ~(shot.video \/ shot.sharp) -> "end" [] shot.video -> "local" [] OTHER -> "deep"
  <2>1. pc \in {"end", "local", "deep"}
    OBVIOUS
  <2>2. job' = Dates!Go(p, pc) /\ UNCHANGED <<shot, meta, given, raced, cut>>
    BY <1>12 DEF Dates!Useful
  <2> HIDE DEF pc
  <2> QED BY <2>1, <2>2, DatesQuiet
<1>13. CASE Dates!Background
  <2>1. shot.at[3] \in Found /\ job \in [Looker -> ALook]
    BY Yields DEF DatesInv
  <2>2. UNCHANGED <<shot, given, raced>>
    BY <1>13 DEF Dates!Background
  <2>3. CASE Dates!Stored(shot.at[3], job)
    BY <2>1, <2>2, <2>3, DatesStored
  <2>4. CASE UNCHANGED <<meta, cut, job>>
    BY <2>2, <2>4 DEF DatesInv
  <2> QED BY <1>13, <2>3, <2>4 DEF Dates!Background
<1> QED BY <1>1, <1>2, <1>3, <1>4, <1>5, <1>6, <1>7, <1>8, <1>9, <1>10, <1>11, <1>12, <1>13, DatesFill DEF Dates!MNext

-----------------------------------------------------------------------------
(* Sequences of sequences, one after the other.                            *)

\* What holds of 0, and of the next number whenever of one, holds up to m: a least number that is missing would have one
\* before it that is missing too.
LEMMA UpTo ==
  ASSUME NEW m \in Nat, NEW S, 0 \in S, \A n \in 1..m : n - 1 \in S => n \in S
  PROVE  0..m \subseteq S
<1> SUFFICES ASSUME (0..m) \ S # {} PROVE FALSE
  OBVIOUS
<1> DEFINE T == {0..k : k \in (0..m) \ S}
           R == StrictSubsetOrdering(0..m)
<1>1. T \subseteq FiniteSubsetsOf(0..m) /\ T # {}
  <2>1. IsFiniteSet(0..m)
    BY FS_Interval
  <2>2. \A k \in 0..m : (0..k) \in SUBSET (0..m)
    OBVIOUS
  <2>3. \A k \in 0..m : IsFiniteSet(0..k)
    BY <2>1, <2>2, FS_Subset
  <2> QED BY <2>2, <2>3 DEF FiniteSubsetsOf
<1>2. IsWellFoundedOn(R, FiniteSubsetsOf(0..m))
  BY FS_StrictSubsetOrderingWellFounded
<1>3. PICK x \in T : \A y \in T : ~(<<y, x>> \in R)
  <2> HIDE DEF T, R
  <2> QED BY <1>1, <1>2, WFMin
<1>4. PICK k \in (0..m) \ S : x = 0..k
  BY <1>3
<1>5. k \in 1..m /\ k - 1 \in (0..m) \ S
  BY <1>4
<1>6. 0..(k - 1) \in T /\ <<0..(k - 1), 0..k>> \in R
  <2>1. 0..(k - 1) \subseteq 0..k /\ k \in 0..k /\ k \notin 0..(k - 1) /\ (0..k) \subseteq 0..m
    BY <1>5
  <2>2. 0..(k - 1) # 0..k
    BY <2>1
  <2> QED BY <1>5, <2>1, <2>2 DEF StrictSubsetOrdering
<1> QED BY <1>3, <1>4, <1>6

\* c[n] is the first n of s one after the other.
Joins(s, c) == c = [n \in 1..Len(s) |-> IF n = 1 THEN s[n] ELSE c[n - 1] \o s[n]]

LEMMA JoinsUnfold ==
  ASSUME NEW s, NEW c, Joins(s, c), NEW n \in 1..Len(s)
  PROVE  c[n] = IF n = 1 THEN s[n] ELSE c[n - 1] \o s[n]
<1> DEFINE body(i) == IF i = 1 THEN s[i] ELSE c[i - 1] \o s[i]
<1>1. c = [i \in 1..Len(s) |-> body(i)]
  BY DEF Joins
<1> HIDE DEF body
<1>2. c[n] = body(n)
  BY <1>1
<1> QED BY <1>2 DEF body

LEMMA JoinsFold ==
  ASSUME NEW s, NEW c, c = [n \in 1..Len(s) |-> c[n]],
         \A n \in 1..Len(s) : c[n] = IF n = 1 THEN s[n] ELSE c[n - 1] \o s[n]
  PROVE  Joins(s, c)
<1> DEFINE body(i) == IF i = 1 THEN s[i] ELSE c[i - 1] \o s[i]
<1>1. \A n \in 1..Len(s) : c[n] = body(n)
  OBVIOUS
<1> HIDE DEF body
<1>2. c = [i \in 1..Len(s) |-> body(i)]
  BY <1>1
<1> QED BY <1>2 DEF body, Joins

\* The first n of a sequence.
Firsts(g, n) == [i \in 1..n |-> g[i]]

LEMMA JoinsExists ==
  ASSUME NEW g, NEW m \in Nat
  PROVE  \E c : Joins(Firsts(g, m), c)
<1> DEFINE S == {k \in 0..m : \E c : Joins(Firsts(g, k), c)}
<1>0. \A k \in 0..m : Len(Firsts(g, k)) = k /\ \A i \in 1..k : Firsts(g, k)[i] = g[i]
  BY DEF Firsts
<1>1. 0 \in S
  <2>1. Joins(Firsts(g, 0), [n \in 1..0 |-> n])
    <3> DEFINE c == [n \in 1..0 |-> n]
    <3>1. Len(Firsts(g, 0)) = 0 /\ 1..0 = {}
      BY <1>0
    <3>2. c = [n \in 1..Len(Firsts(g, 0)) |-> c[n]]
      BY <3>1
    <3> HIDE DEF c
    <3>3. Joins(Firsts(g, 0), c)
      BY <3>1, <3>2, JoinsFold
    <3> QED BY <3>3 DEF c
  <2> QED BY <2>1
<1>2. ASSUME NEW k \in 1..m, k - 1 \in S PROVE k \in S
  <2>1. PICK c : Joins(Firsts(g, k - 1), c)
    BY <1>2
  <2> DEFINE d == [n \in 1..k |-> IF n = k THEN (IF k = 1 THEN g[k] ELSE c[k - 1] \o g[k]) ELSE c[n]]
  <2>2. k - 1 \in 0..m /\ k \in 0..m
    OBVIOUS
  <2>3. Len(Firsts(g, k)) = k /\ Len(Firsts(g, k - 1)) = k - 1
    BY <1>0, <2>2
  <2>4. /\ \A n \in 1..k : Firsts(g, k)[n] = g[n]
        /\ \A n \in 1..(k - 1) : Firsts(g, k - 1)[n] = g[n]
    BY <1>0, <2>2
  <2>5. \A n \in 1..(k - 1) : d[n] = c[n]
    OBVIOUS
  <2>6. d[k] = IF k = 1 THEN g[k] ELSE c[k - 1] \o g[k]
    OBVIOUS
  <2>7. d = [n \in 1..k |-> d[n]]
    OBVIOUS
  <2> HIDE DEF d
  <2>8. ASSUME NEW n \in 1..k PROVE d[n] = IF n = 1 THEN g[n] ELSE d[n - 1] \o g[n]
    <3>1. CASE n = k /\ k = 1
      BY <2>6, <3>1
    <3>2. CASE n = k /\ k # 1
      <4>1. k - 1 \in 1..(k - 1)
        BY <3>2
      <4>2. d[k - 1] = c[k - 1]
        BY <4>1, <2>5
      <4> QED BY <2>6, <3>2, <4>2
    <3>3. CASE n # k
      <4>1. n \in 1..(k - 1)
        BY <3>3
      <4>2. c[n] = IF n = 1 THEN Firsts(g, k - 1)[n] ELSE c[n - 1] \o Firsts(g, k - 1)[n]
        BY <2>1, <2>3, <4>1, JoinsUnfold
      <4>3. Firsts(g, k - 1)[n] = g[n] /\ d[n] = c[n]
        BY <2>4, <2>5, <4>1
      <4>4. n # 1 => d[n - 1] = c[n - 1]
        <5>1. n # 1 => n - 1 \in 1..(k - 1)
          BY <4>1
        <5> QED BY <2>5, <5>1
      <4> QED BY <4>2, <4>3, <4>4
    <3> QED BY <3>1, <3>2, <3>3
  <2>9. Joins(Firsts(g, k), d)
    <3>1. \A n \in 1..Len(Firsts(g, k)) : d[n] = IF n = 1 THEN Firsts(g, k)[n] ELSE d[n - 1] \o Firsts(g, k)[n]
      BY <2>3, <2>4, <2>8
    <3>2. d = [n \in 1..Len(Firsts(g, k)) |-> d[n]]
      BY <2>3, <2>7
    <3> QED BY <3>1, <3>2, JoinsFold
  <2> QED BY <2>9
<1> HIDE DEF S
<1>3. 0..m \subseteq S
  BY <1>1, <1>2, UpTo
<1>4. m \in S
  BY <1>3
<1> QED BY <1>4 DEF S

\* The first n of g, one after the other.
Flat(g, n) == Zip!FlattenSeq(Firsts(g, n))

LEMMA FlatJoins ==
  ASSUME NEW g, NEW m \in Nat \ {0}
  PROVE  \E c : Joins(Firsts(g, m), c) /\ Flat(g, m) = c[m]
<1> DEFINE c == CHOOSE c : Joins(Firsts(g, m), c)
<1>1. Joins(Firsts(g, m), c)
  BY JoinsExists
<1>2. Len(Firsts(g, m)) = m
  BY DEF Firsts
<1>3. Flat(g, m) = c[m]
  BY <1>2 DEF Flat, Zip!FlattenSeq, Joins
<1> QED BY <1>1, <1>3

LEMMA JoinsAgree ==
  ASSUME NEW g, NEW m \in Nat, NEW n \in 0..m, NEW c, NEW d, Joins(Firsts(g, m), c), Joins(Firsts(g, n), d)
  PROVE  \A i \in 1..n : c[i] = d[i]
<1> DEFINE S == {i \in 0..n : i = 0 \/ c[i] = d[i]}
<1>1. Len(Firsts(g, m)) = m /\ Len(Firsts(g, n)) = n
  BY DEF Firsts
<1>2. \A i \in 1..n : i \in 1..m /\ Firsts(g, m)[i] = g[i] /\ Firsts(g, n)[i] = g[i]
  BY DEF Firsts
<1>3. \A i \in 1..n : /\ c[i] = IF i = 1 THEN g[i] ELSE c[i - 1] \o g[i]
                      /\ d[i] = IF i = 1 THEN g[i] ELSE d[i - 1] \o g[i]
  <2> SUFFICES ASSUME NEW i \in 1..n
               PROVE  /\ c[i] = IF i = 1 THEN g[i] ELSE c[i - 1] \o g[i]
                      /\ d[i] = IF i = 1 THEN g[i] ELSE d[i - 1] \o g[i]
    OBVIOUS
  <2>1. c[i] = IF i = 1 THEN Firsts(g, m)[i] ELSE c[i - 1] \o Firsts(g, m)[i]
    BY <1>1, <1>2, JoinsUnfold
  <2>2. d[i] = IF i = 1 THEN Firsts(g, n)[i] ELSE d[i - 1] \o Firsts(g, n)[i]
    BY <1>1, <1>2, JoinsUnfold
  <2> QED BY <1>2, <2>1, <2>2
<1>4. 0 \in S
  OBVIOUS
<1>5. ASSUME NEW i \in 1..n, i - 1 \in S PROVE i \in S
  <2>1. CASE i = 1
    BY <1>3, <2>1
  <2>2. CASE i # 1
    <3>1. c[i - 1] = d[i - 1]
      BY <1>5, <2>2
    <3> QED BY <1>3, <2>2, <3>1
  <2> QED BY <2>1, <2>2
<1> HIDE DEF S
<1>6. 0..n \subseteq S
  BY <1>4, <1>5, UpTo
<1>7. \A i \in 1..n : i \in S
  BY <1>6
<1> QED BY <1>7 DEF S

\* One more is put at the end.
LEMMA FlatStep ==
  ASSUME NEW X, NEW g, NEW n \in Nat \ {0}, \A i \in 1..n : g[i] \in Seq(X)
  PROVE  Flat(g, n) = Flat(g, n - 1) \o g[n]
<1>1. PICK c : Joins(Firsts(g, n), c) /\ Flat(g, n) = c[n]
  BY FlatJoins
<1>2. Len(Firsts(g, n)) = n /\ Firsts(g, n)[n] = g[n] /\ n \in 1..n
  BY DEF Firsts
<1>3. c[n] = IF n = 1 THEN g[n] ELSE c[n - 1] \o g[n]
  BY <1>1, <1>2, JoinsUnfold
<1>4. CASE n = 1
  <2>1. Flat(g, 0) = <<>>
    BY DEF Flat, Firsts, Zip!FlattenSeq
  <2>2. <<>> \o g[1] = g[1]
    BY <1>4, ConcatEmptySeq
  <2> QED BY <1>1, <1>3, <1>4, <2>1, <2>2
<1>5. CASE n # 1
  <2>1. n - 1 \in Nat \ {0} /\ n - 1 \in 0..n /\ n - 1 \in 1..(n - 1)
    BY <1>5
  <2>2. PICK d : Joins(Firsts(g, n - 1), d) /\ Flat(g, n - 1) = d[n - 1]
    BY <2>1, FlatJoins
  <2>3. c[n - 1] = d[n - 1]
    BY <1>1, <2>1, <2>2, JoinsAgree
  <2> QED BY <1>1, <1>3, <1>5, <2>2, <2>3
<1> QED BY <1>4, <1>5

\* Two sequences, one after the other.
LEMMA TwoJoined ==
  ASSUME NEW X, NEW s \in Seq(X), NEW t \in Seq(X)
  PROVE  /\ s \o t \in Seq(X) /\ Len(s \o t) = Len(s) + Len(t) /\ Len(s) \in Nat /\ Len(t) \in Nat
         /\ \A i \in 1..Len(s) : (s \o t)[i] = s[i]
         /\ \A i \in 1..Len(t) : (s \o t)[Len(s) + i] = t[i]
<1> DEFINE u == s \o t
<1>1. Len(s) \in Nat /\ Len(t) \in Nat
  BY LenProperties
<1>2. /\ u \in Seq(X) /\ Len(u) = Len(s) + Len(t)
      /\ \A i \in 1..(Len(s) + Len(t)) : u[i] = IF i <= Len(s) THEN s[i] ELSE t[i - Len(s)]
  BY ConcatProperties
<1> HIDE DEF u
<1>3. ASSUME NEW i \in 1..Len(t) PROVE u[Len(s) + i] = t[i]
  <2>1. Len(s) + i \in 1..(Len(s) + Len(t)) /\ ~(Len(s) + i <= Len(s)) /\ (Len(s) + i) - Len(s) = i
    BY <1>1
  <2> QED BY <1>2, <2>1
<1>4. ASSUME NEW i \in 1..Len(s) PROVE u[i] = s[i]
  <2>1. i \in 1..(Len(s) + Len(t)) /\ i <= Len(s)
    BY <1>1
  <2> QED BY <1>2, <2>1
<1> QED BY <1>1, <1>2, <1>3, <1>4 DEF u

\* The parts of g up to n, wherever they lie.
Placed(X, g, n) ==
  /\ Flat(g, 0) = <<>>
  /\ \A k \in 0..n : Flat(g, k) \in Seq(X)
  /\ \A m \in 1..n : Len(Flat(g, m)) = Len(Flat(g, m - 1)) + Len(g[m])
  /\ \A k \in 0..n : \A m \in 1..k : /\ Len(Flat(g, m)) <= Len(Flat(g, k))
                                     /\ \A i \in 1..Len(g[m]) : Flat(g, k)[Len(Flat(g, m - 1)) + i] = g[m][i]

\* Every part lies where the parts before it end.
LEMMA FlatPlace ==
  ASSUME NEW X, NEW g, NEW n \in Nat, \A i \in 1..n : g[i] \in Seq(X)
  PROVE  Placed(X, g, n)
<1> DEFINE Right(k) == /\ Flat(g, k) \in Seq(X)
                       /\ k > 0 => Len(Flat(g, k)) = Len(Flat(g, k - 1)) + Len(g[k])
                       /\ \A m \in 1..k : /\ Len(Flat(g, m)) <= Len(Flat(g, k))
                                          /\ \A i \in 1..Len(g[m]) : Flat(g, k)[Len(Flat(g, m - 1)) + i] = g[m][i]
           S == {k \in 0..n : Flat(g, k) \in Seq(X) /\ \A j \in 0..k : Right(j)}
<1>1. Flat(g, 0) = <<>>
  BY DEF Flat, Firsts, Zip!FlattenSeq
<1>2. 0 \in S
  <2>1. Flat(g, 0) \in Seq(X)
    BY <1>1, EmptySeq
  <2>2. Right(0)
    BY <2>1
  <2>3. \A j \in 0..0 : j = 0
    OBVIOUS
  <2> HIDE DEF Right
  <2> QED BY <2>1, <2>2, <2>3
<1>3. ASSUME NEW k \in 1..n, k - 1 \in S PROVE k \in S
  <2>1. Flat(g, k - 1) \in Seq(X) /\ \A j \in 0..(k - 1) : Right(j)
    BY <1>3
  <2>2. g[k] \in Seq(X) /\ Flat(g, k - 1) \in Seq(X)
    BY <2>1
  <2>a. k \in Nat \ {0} /\ \A i \in 1..k : g[i] \in Seq(X)
    OBVIOUS
  <2>3. Flat(g, k) = Flat(g, k - 1) \o g[k]
    BY <2>a, FlatStep
  <2>4. /\ Flat(g, k) \in Seq(X)
        /\ Len(Flat(g, k)) = Len(Flat(g, k - 1)) + Len(g[k]) /\ Len(Flat(g, k - 1)) \in Nat /\ Len(g[k]) \in Nat
        /\ \A i \in 1..Len(Flat(g, k - 1)) : Flat(g, k)[i] = Flat(g, k - 1)[i]
        /\ \A i \in 1..Len(g[k]) : Flat(g, k)[Len(Flat(g, k - 1)) + i] = g[k][i]
    BY <2>2, <2>3, TwoJoined
  <2>6. ASSUME NEW m \in 1..k
        PROVE  /\ Len(Flat(g, m)) <= Len(Flat(g, k))
               /\ \A i \in 1..Len(g[m]) : Flat(g, k)[Len(Flat(g, m - 1)) + i] = g[m][i]
    <3>1. CASE m = k
      <4>1. Len(Flat(g, k)) <= Len(Flat(g, k))
        BY <2>4
      <4>2. \A i \in 1..Len(g[k]) : Flat(g, k)[Len(Flat(g, k - 1)) + i] = g[k][i]
        BY <2>4
      <4> QED BY <3>1, <4>1, <4>2
    <3>2. CASE m # k
      <4>1. m \in 1..(k - 1) /\ k - 1 \in 0..(k - 1) /\ m \in 1..n /\ m \in 0..(k - 1) /\ m > 0 /\ m - 1 \in 0..(k - 1)
        BY <3>2
      <4>2. /\ Len(Flat(g, m)) <= Len(Flat(g, k - 1))
            /\ \A i \in 1..Len(g[m]) : Flat(g, k - 1)[Len(Flat(g, m - 1)) + i] = g[m][i]
        BY <2>1, <4>1
      <4>3. /\ Flat(g, m) \in Seq(X) /\ Flat(g, m - 1) \in Seq(X) /\ g[m] \in Seq(X)
            /\ Len(Flat(g, m)) = Len(Flat(g, m - 1)) + Len(g[m])
        BY <2>1, <4>1
      <4> DEFINE a == Len(Flat(g, m - 1))
                 b == Len(g[m])
                 e == Len(Flat(g, k - 1))
                 f == Len(g[k])
      <4>4. a \in Nat /\ b \in Nat /\ e \in Nat /\ f \in Nat /\ a + b <= e /\ Len(Flat(g, m)) = a + b /\ Len(Flat(g, k)) = e + f
        BY <2>4, <4>2, <4>3, LenProperties
      <4>5. /\ \A i \in 1..b : Flat(g, k - 1)[a + i] = g[m][i]
            /\ \A i \in 1..e : Flat(g, k)[i] = Flat(g, k - 1)[i]
        BY <2>4, <4>2
      <4> HIDE DEF a, b, e, f
      <4>6. \A i \in 1..b : a + i \in 1..e
        BY <4>4
      <4>7. \A i \in 1..b : Flat(g, k)[a + i] = g[m][i]
        BY <4>5, <4>6
      <4>8. Len(Flat(g, m)) <= Len(Flat(g, k))
        BY <4>4
      <4> QED BY <4>7, <4>8 DEF a, b
    <3> QED BY <3>1, <3>2
  <2>7. Right(k)
    BY <2>4, <2>6
  <2>8. \A j \in 0..k : j = k \/ j \in 0..(k - 1)
    OBVIOUS
  <2> HIDE DEF Right
  <2>9. \A j \in 0..k : Right(j)
    BY <2>1, <2>7, <2>8
  <2> QED BY <2>4, <2>9
<1> HIDE DEF S
<1>4. 0..n \subseteq S
  BY <1>2, <1>3, UpTo
<1>5. \A k \in 0..n : Right(k)
  <2>1. \A k \in 0..n : k \in S /\ k \in 0..k
    BY <1>4
  <2> HIDE DEF Right
  <2> QED BY <2>1 DEF S
<1>6. \A m \in 1..n : m \in 0..n /\ m > 0
  OBVIOUS
<1> QED BY <1>1, <1>5, <1>6 DEF Placed

-----------------------------------------------------------------------------
(* An archive in the bucket.                                               *)

Kinds == {"local", "name", "pad", "data", "central", "extra", "comment", "end"}
Cell == Kinds \X Nat \X Nat

LEMMA CellsAre ==
  ASSUME NEW kind \in Kinds, NEW m \in Nat, NEW n \in Nat
  PROVE  /\ Zip!Cells(kind, m, n) \in Seq(Cell) /\ Len(Zip!Cells(kind, m, n)) = n
         /\ \A i \in 1..n : Zip!Cells(kind, m, n)[i] = <<kind, m, i>>
<1>1. \A i \in 1..n : <<kind, m, i>> \in Cell
  BY DEF Cell
<1> DEFINE s == [i \in 1..n |-> <<kind, m, i>>]
<1>2. s \in [1..n -> Cell] /\ \A i \in 1..n : s[i] = <<kind, m, i>>
  BY <1>1
<1>3. s \in Seq(Cell) /\ Len(s) = n
  BY <1>2, SeqDef
<1>4. Zip!Cells(kind, m, n) = s
  BY DEF Zip!Cells
<1> HIDE DEF s
<1> QED BY <1>2, <1>3, <1>4

\* Four sequences, one after the other.
FourParts(X, s, t, u, v) ==
  LET w == s \o t \o u \o v IN
    /\ w \in Seq(X) /\ Len(w) = Len(s) + Len(t) + Len(u) + Len(v)
    /\ \A i \in 1..Len(s) : w[i] = s[i]
    /\ \A i \in 1..Len(t) : w[Len(s) + i] = t[i]
    /\ \A i \in 1..Len(u) : w[Len(s) + Len(t) + i] = u[i]
    /\ \A i \in 1..Len(v) : w[Len(s) + Len(t) + Len(u) + i] = v[i]

LEMMA FourJoined ==
  ASSUME NEW X, NEW s \in Seq(X), NEW t \in Seq(X), NEW u \in Seq(X), NEW v \in Seq(X)
  PROVE  FourParts(X, s, t, u, v)
<1> DEFINE st == s \o t
           stu == st \o u
           w == stu \o v
           a == Len(s)
           b == Len(t)
           c == Len(u)
           d == Len(v)
<1>1. /\ st \in Seq(X) /\ Len(st) = a + b /\ a \in Nat /\ b \in Nat
      /\ (\A i \in 1..a : st[i] = s[i]) /\ (\A i \in 1..b : st[a + i] = t[i])
  BY TwoJoined
<1>2. /\ stu \in Seq(X) /\ Len(stu) = Len(st) + c /\ c \in Nat
      /\ (\A i \in 1..Len(st) : stu[i] = st[i]) /\ (\A i \in 1..c : stu[Len(st) + i] = u[i])
  <2>1. st \in Seq(X)
    BY <1>1
  <2> HIDE DEF st
  <2> QED BY <2>1, TwoJoined
<1>3. /\ w \in Seq(X) /\ Len(w) = Len(stu) + d /\ d \in Nat
      /\ (\A i \in 1..Len(stu) : w[i] = stu[i]) /\ (\A i \in 1..d : w[Len(stu) + i] = v[i])
  <2>1. stu \in Seq(X)
    BY <1>2
  <2> HIDE DEF stu
  <2> QED BY <2>1, TwoJoined
<1> HIDE DEF st, stu, w, a, b, c, d
<1>4. Len(st) = a + b /\ Len(stu) = a + b + c /\ Len(w) = a + b + c + d
  BY <1>1, <1>2, <1>3
<1>5. /\ \A i \in 1..a : i \in 1..Len(st) /\ i \in 1..Len(stu)
      /\ \A i \in 1..b : a + i \in 1..Len(st) /\ a + i \in 1..Len(stu)
      /\ \A i \in 1..c : Len(st) + i \in 1..Len(stu)
  BY <1>1, <1>2, <1>3, <1>4
<1>6. /\ \A i \in 1..a : w[i] = s[i]
      /\ \A i \in 1..b : w[a + i] = t[i]
      /\ \A i \in 1..c : w[Len(st) + i] = u[i]
      /\ \A i \in 1..d : w[Len(stu) + i] = v[i]
  BY <1>1, <1>2, <1>3, <1>5
<1>7. /\ \A i \in 1..c : w[a + b + i] = u[i]
      /\ \A i \in 1..d : w[a + b + c + i] = v[i]
  BY <1>4, <1>6
<1> QED BY <1>1, <1>2, <1>3, <1>4, <1>6, <1>7 DEF FourParts, a, b, c, d, w, stu, st

LEMMA ZipCardinality == \A S : Zip!Cardinality(S) = Cardinality(S)
BY DEF Zip!Cardinality, Cardinality

LEMMA MembersAre ==
  ASSUME archive \in Archives
  PROVE  /\ Len(archive) \in Nat
         /\ \A m \in 1..Len(archive) :
              /\ m \in Nat
              /\ Zip!Member(m).name \in Nat /\ Zip!Member(m).extra \in Nat /\ Zip!Member(m).comment \in Nat /\ Zip!Member(m).data \in Nat
              /\ Zip!Member(m).stubs \subseteq {"size", "packed", "offset"} /\ IsFiniteSet(Zip!Member(m).stubs)
              /\ Zip!Cardinality(Zip!Member(m).stubs) \in Nat
<1> DEFINE M == [name : Nat, extra : Nat, comment : Nat, data : Nat, stubs : SUBSET {"size", "packed", "offset"}]
<1>1. archive \in Seq(M)
  BY ReadingsAssumption
<1> HIDE DEF M
<1>2. Len(archive) \in Nat /\ \A m \in 1..Len(archive) : archive[m] \in M
  BY <1>1, LenProperties, ElementOfSeq
<1>3. \A m \in 1..Len(archive) : IsFiniteSet(Zip!Member(m).stubs) /\ Zip!Member(m).stubs \subseteq {"size", "packed", "offset"}
  <2>1. IsFiniteSet({"size", "packed", "offset"})
    <3>1. IsFiniteSet({"size"}) /\ IsFiniteSet({"packed", "offset"})
      <4>1. IsFiniteSet({"packed"}) /\ IsFiniteSet({"offset"}) /\ IsFiniteSet({"size"})
        BY FS_Singleton
      <4>2. {"packed", "offset"} = {"packed"} \cup {"offset"}
        OBVIOUS
      <4> QED BY <4>1, <4>2, FS_Union
    <3>2. {"size", "packed", "offset"} = {"size"} \cup {"packed", "offset"}
      OBVIOUS
    <3> QED BY <3>1, <3>2, FS_Union
  <2>2. \A m \in 1..Len(archive) : Zip!Member(m).stubs \subseteq {"size", "packed", "offset"}
    BY <1>2 DEF M, Zip!Member
  <2> QED BY <2>1, <2>2, FS_Subset
<1>4. \A m \in 1..Len(archive) : Zip!Cardinality(Zip!Member(m).stubs) \in Nat
  BY <1>3, FS_CardinalityType, ZipCardinality
<1>5. \A m \in 1..Len(archive) :
        m \in Nat /\ Zip!Member(m).name \in Nat /\ Zip!Member(m).extra \in Nat /\ Zip!Member(m).comment \in Nat /\ Zip!Member(m).data \in Nat
  BY <1>2 DEF M, Zip!Member
<1> QED BY <1>2, <1>3, <1>4, <1>5

\* The parts of a member.
LEMMA LocalIs ==
  ASSUME archive \in Archives, NEW m \in 1..Len(archive)
  PROVE  LET p == Zip!LocalPart(m)
             n == Zip!Member(m).name
             x == Zip!Member(m).extra
             d == Zip!Member(m).data IN
           /\ p \in Seq(Cell) /\ Len(p) = HeadLen + n + x + d
           /\ \A i \in 1..HeadLen : p[i] = <<"local", m, i>>
           /\ \A i \in 1..d : p[HeadLen + n + x + i] = <<"data", m, i>>
<1> DEFINE p == Zip!LocalPart(m)
           n == Zip!Member(m).name
           x == Zip!Member(m).extra
           d == Zip!Member(m).data
<1>1. m \in Nat /\ n \in Nat /\ x \in Nat /\ d \in Nat /\ HeadLen \in Nat
  BY MembersAre, ReadingsAssumption
<1>2. p = Zip!Cells("local", m, HeadLen) \o Zip!Cells("name", m, n) \o Zip!Cells("pad", m, x) \o Zip!Cells("data", m, d)
  BY DEF Zip!LocalPart
<1> HIDE DEF p, n, x, d
<1>3. /\ Zip!Cells("local", m, HeadLen) \in Seq(Cell) /\ Len(Zip!Cells("local", m, HeadLen)) = HeadLen
      /\ \A i \in 1..HeadLen : Zip!Cells("local", m, HeadLen)[i] = <<"local", m, i>>
  BY <1>1, CellsAre DEF Kinds
<1>4. Zip!Cells("name", m, n) \in Seq(Cell) /\ Len(Zip!Cells("name", m, n)) = n
  BY <1>1, CellsAre DEF Kinds
<1>5. Zip!Cells("pad", m, x) \in Seq(Cell) /\ Len(Zip!Cells("pad", m, x)) = x
  BY <1>1, CellsAre DEF Kinds
<1>6. /\ Zip!Cells("data", m, d) \in Seq(Cell) /\ Len(Zip!Cells("data", m, d)) = d
      /\ \A i \in 1..d : Zip!Cells("data", m, d)[i] = <<"data", m, i>>
  BY <1>1, CellsAre DEF Kinds
<1>7. /\ p \in Seq(Cell) /\ Len(p) = HeadLen + n + x + d
      /\ \A i \in 1..HeadLen : p[i] = Zip!Cells("local", m, HeadLen)[i]
      /\ \A i \in 1..d : p[HeadLen + n + x + i] = Zip!Cells("data", m, d)[i]
  <2> DEFINE A == Zip!Cells("local", m, HeadLen)
             B == Zip!Cells("name", m, n)
             C == Zip!Cells("pad", m, x)
             D == Zip!Cells("data", m, d)
  <2>1. p = A \o B \o C \o D /\ Len(A) = HeadLen /\ Len(B) = n /\ Len(C) = x /\ Len(D) = d
    BY <1>2, <1>3, <1>4, <1>5, <1>6
  <2>2. A \in Seq(Cell) /\ B \in Seq(Cell) /\ C \in Seq(Cell) /\ D \in Seq(Cell)
    BY <1>3, <1>4, <1>5, <1>6
  <2> HIDE DEF A, B, C, D
  <2>3. /\ p \in Seq(Cell) /\ Len(p) = Len(A) + Len(B) + Len(C) + Len(D)
        /\ \A i \in 1..Len(A) : p[i] = A[i]
        /\ \A i \in 1..Len(D) : p[Len(A) + Len(B) + Len(C) + i] = D[i]
    <3>0. FourParts(Cell, A, B, C, D)
      BY <2>2, FourJoined
    <3>1. LET q == A \o B \o C \o D IN
          /\ q \in Seq(Cell) /\ Len(q) = Len(A) + Len(B) + Len(C) + Len(D)
          /\ \A i \in 1..Len(A) : q[i] = A[i]
          /\ \A i \in 1..Len(B) : q[Len(A) + i] = B[i]
          /\ \A i \in 1..Len(C) : q[Len(A) + Len(B) + i] = C[i]
          /\ \A i \in 1..Len(D) : q[Len(A) + Len(B) + Len(C) + i] = D[i]
      BY <3>0 DEF FourParts
    <3> QED BY <2>1, <3>1
  <2>4. /\ p \in Seq(Cell) /\ Len(p) = HeadLen + n + x + d
        /\ \A i \in 1..HeadLen : p[i] = A[i]
        /\ \A i \in 1..d : p[HeadLen + n + x + i] = D[i]
    BY <2>1, <2>3
  <2> QED BY <2>4 DEF A, D
<1>8. /\ \A i \in 1..HeadLen : p[i] = <<"local", m, i>>
      /\ \A i \in 1..d : p[HeadLen + n + x + i] = <<"data", m, i>>
  BY <1>3, <1>6, <1>7
<1> QED BY <1>7, <1>8 DEF p, n, x, d

LEMMA CentralIs ==
  ASSUME archive \in Archives, NEW m \in 1..Len(archive)
  PROVE  LET p == Zip!CentralPart(m)
             n == Zip!Member(m).name
             x == Zip!Cardinality(Zip!Member(m).stubs)
             c == Zip!Member(m).comment IN
           /\ p \in Seq(Cell) /\ Len(p) = HeadLen + n + x + c
           /\ \A i \in 1..HeadLen : p[i] = <<"central", m, i>>
           /\ \A i \in 1..n : p[HeadLen + i] = <<"name", m, i>>
           /\ \A i \in 1..x : p[HeadLen + n + i] = <<"extra", m, i>>
<1> DEFINE p == Zip!CentralPart(m)
           n == Zip!Member(m).name
           x == Zip!Cardinality(Zip!Member(m).stubs)
           c == Zip!Member(m).comment
<1>1. m \in Nat /\ n \in Nat /\ x \in Nat /\ c \in Nat /\ HeadLen \in Nat
  BY MembersAre, ReadingsAssumption
<1>2. p = Zip!Cells("central", m, HeadLen) \o Zip!Cells("name", m, n) \o Zip!Cells("extra", m, x) \o Zip!Cells("comment", m, c)
  BY DEF Zip!CentralPart
<1> HIDE DEF p, n, x, c
<1>3. /\ Zip!Cells("central", m, HeadLen) \in Seq(Cell) /\ Len(Zip!Cells("central", m, HeadLen)) = HeadLen
      /\ \A i \in 1..HeadLen : Zip!Cells("central", m, HeadLen)[i] = <<"central", m, i>>
  BY <1>1, CellsAre DEF Kinds
<1>4. /\ Zip!Cells("name", m, n) \in Seq(Cell) /\ Len(Zip!Cells("name", m, n)) = n
      /\ \A i \in 1..n : Zip!Cells("name", m, n)[i] = <<"name", m, i>>
  BY <1>1, CellsAre DEF Kinds
<1>5. /\ Zip!Cells("extra", m, x) \in Seq(Cell) /\ Len(Zip!Cells("extra", m, x)) = x
      /\ \A i \in 1..x : Zip!Cells("extra", m, x)[i] = <<"extra", m, i>>
  BY <1>1, CellsAre DEF Kinds
<1>6. Zip!Cells("comment", m, c) \in Seq(Cell) /\ Len(Zip!Cells("comment", m, c)) = c
  BY <1>1, CellsAre DEF Kinds
<1>7. /\ p \in Seq(Cell) /\ Len(p) = HeadLen + n + x + c
      /\ \A i \in 1..HeadLen : p[i] = Zip!Cells("central", m, HeadLen)[i]
      /\ \A i \in 1..n : p[HeadLen + i] = Zip!Cells("name", m, n)[i]
      /\ \A i \in 1..x : p[HeadLen + n + i] = Zip!Cells("extra", m, x)[i]
  <2> DEFINE A == Zip!Cells("central", m, HeadLen)
             B == Zip!Cells("name", m, n)
             C == Zip!Cells("extra", m, x)
             D == Zip!Cells("comment", m, c)
  <2>1. p = A \o B \o C \o D /\ Len(A) = HeadLen /\ Len(B) = n /\ Len(C) = x /\ Len(D) = c
    BY <1>2, <1>3, <1>4, <1>5, <1>6
  <2>2. A \in Seq(Cell) /\ B \in Seq(Cell) /\ C \in Seq(Cell) /\ D \in Seq(Cell)
    BY <1>3, <1>4, <1>5, <1>6
  <2> HIDE DEF A, B, C, D
  <2>3. /\ p \in Seq(Cell) /\ Len(p) = Len(A) + Len(B) + Len(C) + Len(D)
        /\ \A i \in 1..Len(A) : p[i] = A[i]
        /\ \A i \in 1..Len(B) : p[Len(A) + i] = B[i]
        /\ \A i \in 1..Len(C) : p[Len(A) + Len(B) + i] = C[i]
    <3>0. FourParts(Cell, A, B, C, D)
      BY <2>2, FourJoined
    <3>1. LET q == A \o B \o C \o D IN
          /\ q \in Seq(Cell) /\ Len(q) = Len(A) + Len(B) + Len(C) + Len(D)
          /\ \A i \in 1..Len(A) : q[i] = A[i]
          /\ \A i \in 1..Len(B) : q[Len(A) + i] = B[i]
          /\ \A i \in 1..Len(C) : q[Len(A) + Len(B) + i] = C[i]
          /\ \A i \in 1..Len(D) : q[Len(A) + Len(B) + Len(C) + i] = D[i]
      BY <3>0 DEF FourParts
    <3> QED BY <2>1, <3>1
  <2>4. /\ p \in Seq(Cell) /\ Len(p) = HeadLen + n + x + c
        /\ \A i \in 1..HeadLen : p[i] = A[i]
        /\ \A i \in 1..n : p[HeadLen + i] = B[i]
        /\ \A i \in 1..x : p[HeadLen + n + i] = C[i]
    BY <2>1, <2>3
  <2> QED BY <2>4 DEF A, B, C
<1>8. /\ \A i \in 1..HeadLen : p[i] = <<"central", m, i>>
      /\ \A i \in 1..n : p[HeadLen + i] = <<"name", m, i>>
      /\ \A i \in 1..x : p[HeadLen + n + i] = <<"extra", m, i>>
  BY <1>3, <1>4, <1>5, <1>7
<1> QED BY <1>7, <1>8 DEF p, n, x, c

-----------------------------------------------------------------------------
(* Where everything lies in the archive.                                   *)

CentralsTo(n) == Zip!FlattenSeq([m \in 1..n |-> Zip!CentralPart(m)])

\* n cells of a kind lie at pos.
Lies(pos, kind, m, n) == pos + n <= Len(Zip!File) /\ \A i \in 1..n : Zip!File[pos + i] = <<kind, m, i>>

\* A part that lies at pos, and cells in it.
LEMMA LiesIn ==
  ASSUME NEW p, NEW pos \in Nat, NEW l \in Nat, NEW off \in Nat, NEW n \in Nat, NEW kind, NEW m,
         pos + l <= Len(Zip!File), Len(Zip!File) \in Nat, off + n <= l,
         \A i \in 1..l : Zip!File[pos + i] = p[i],
         \A i \in 1..n : p[off + i] = <<kind, m, i>>
  PROVE  Lies(pos + off, kind, m, n)
<1>1. (pos + off) + n <= Len(Zip!File)
  OBVIOUS
<1>2. ASSUME NEW i \in 1..n PROVE Zip!File[(pos + off) + i] = <<kind, m, i>>
  <2>1. off + i \in 1..l /\ pos + (off + i) = (pos + off) + i
    OBVIOUS
  <2> QED BY <2>1
<1> QED BY <1>1, <1>2 DEF Lies

LEMMA LocalsPlaced ==
  ASSUME archive \in Archives
  PROVE  LET N == Len(archive) IN
         /\ \A k \in 0..N : Zip!LocalsTo(k) \in Seq(Cell) /\ Len(Zip!LocalsTo(k)) \in Nat
         /\ \A m \in 1..N : /\ Len(Zip!LocalsTo(m)) = Len(Zip!LocalsTo(m - 1)) + Len(Zip!LocalPart(m))
                            /\ Len(Zip!LocalsTo(m)) <= Len(Zip!LocalsTo(N))
                            /\ \A i \in 1..Len(Zip!LocalPart(m)) :
                                 Zip!LocalsTo(N)[Len(Zip!LocalsTo(m - 1)) + i] = Zip!LocalPart(m)[i]
<1> DEFINE N == Len(archive)
           g == [i \in 1..N |-> Zip!LocalPart(i)]
<1>1. N \in Nat
  BY MembersAre
<1>2. \A i \in 1..N : g[i] = Zip!LocalPart(i) /\ Zip!LocalPart(i) \in Seq(Cell)
  BY LocalIs
<1>3. ASSUME NEW k \in 0..N PROVE Zip!LocalsTo(k) = Flat(g, k)
  <2>1. \A i \in 1..k : i \in 1..N
    BY <1>1
  <2>2. \A i \in 1..k : g[i] = Zip!LocalPart(i)
    BY <1>2, <2>1
  <2> HIDE DEF g
  <2>3. [i \in 1..k |-> Zip!LocalPart(i)] = [i \in 1..k |-> g[i]]
    BY <2>2
  <2>4. Flat(g, k) = Zip!FlattenSeq([i \in 1..k |-> g[i]])
    BY DEF Flat, Firsts
  <2>5. Zip!LocalsTo(k) = Zip!FlattenSeq([i \in 1..k |-> Zip!LocalPart(i)])
    BY DEF Zip!LocalsTo
  <2> QED BY <2>3, <2>4, <2>5
<1> HIDE DEF g, N
<1>4. Placed(Cell, g, N)
  <2>1. \A i \in 1..N : g[i] \in Seq(Cell)
    BY <1>2
  <2> QED BY <1>1, <2>1, FlatPlace
<1>5. \A k \in 0..N : Zip!LocalsTo(k) \in Seq(Cell) /\ Len(Zip!LocalsTo(k)) \in Nat
  <2>1. \A k \in 0..N : Zip!LocalsTo(k) \in Seq(Cell)
    BY <1>3, <1>4 DEF Placed
  <2> QED BY <2>1, LenProperties
<1>6. ASSUME NEW m \in 1..N
      PROVE  /\ Len(Zip!LocalsTo(m)) = Len(Zip!LocalsTo(m - 1)) + Len(Zip!LocalPart(m))
             /\ Len(Zip!LocalsTo(m)) <= Len(Zip!LocalsTo(N))
             /\ \A i \in 1..Len(Zip!LocalPart(m)) : Zip!LocalsTo(N)[Len(Zip!LocalsTo(m - 1)) + i] = Zip!LocalPart(m)[i]
  <2>1. m \in 0..N /\ m - 1 \in 0..N /\ N \in 0..N
    BY <1>1
  <2>2. Zip!LocalsTo(m) = Flat(g, m) /\ Zip!LocalsTo(m - 1) = Flat(g, m - 1) /\ Zip!LocalsTo(N) = Flat(g, N) /\ g[m] = Zip!LocalPart(m)
    BY <1>2, <1>3, <2>1
  <2>3. /\ Len(Flat(g, m)) = Len(Flat(g, m - 1)) + Len(g[m])
        /\ Len(Flat(g, m)) <= Len(Flat(g, N))
        /\ \A i \in 1..Len(g[m]) : Flat(g, N)[Len(Flat(g, m - 1)) + i] = g[m][i]
    BY <1>4, <2>1 DEF Placed
  <2> QED BY <2>2, <2>3
<1> QED BY <1>5, <1>6 DEF N

LEMMA CentralsPlaced ==
  ASSUME archive \in Archives
  PROVE  LET N == Len(archive) IN
         /\ CentralsTo(0) = <<>>
         /\ \A k \in 0..N : CentralsTo(k) \in Seq(Cell) /\ Len(CentralsTo(k)) \in Nat
         /\ \A m \in 1..N : /\ Len(CentralsTo(m)) = Len(CentralsTo(m - 1)) + Len(Zip!CentralPart(m))
                            /\ Len(CentralsTo(m)) <= Len(CentralsTo(N))
                            /\ \A i \in 1..Len(Zip!CentralPart(m)) :
                                 CentralsTo(N)[Len(CentralsTo(m - 1)) + i] = Zip!CentralPart(m)[i]
<1> DEFINE N == Len(archive)
           g == [i \in 1..N |-> Zip!CentralPart(i)]
<1>1. N \in Nat
  BY MembersAre
<1>2. \A i \in 1..N : g[i] = Zip!CentralPart(i) /\ Zip!CentralPart(i) \in Seq(Cell)
  BY CentralIs
<1>3. ASSUME NEW k \in 0..N PROVE CentralsTo(k) = Flat(g, k)
  <2>1. \A i \in 1..k : i \in 1..N
    BY <1>1
  <2>2. \A i \in 1..k : g[i] = Zip!CentralPart(i)
    BY <1>2, <2>1
  <2> HIDE DEF g
  <2>3. [i \in 1..k |-> Zip!CentralPart(i)] = [i \in 1..k |-> g[i]]
    BY <2>2
  <2>4. Flat(g, k) = Zip!FlattenSeq([i \in 1..k |-> g[i]])
    BY DEF Flat, Firsts
  <2>5. CentralsTo(k) = Zip!FlattenSeq([i \in 1..k |-> Zip!CentralPart(i)])
    BY DEF CentralsTo
  <2> QED BY <2>3, <2>4, <2>5
<1> HIDE DEF g, N
<1>4. Placed(Cell, g, N)
  <2>1. \A i \in 1..N : g[i] \in Seq(Cell)
    BY <1>2
  <2> QED BY <1>1, <2>1, FlatPlace
<1>5. \A k \in 0..N : CentralsTo(k) \in Seq(Cell) /\ Len(CentralsTo(k)) \in Nat
  <2>1. \A k \in 0..N : CentralsTo(k) \in Seq(Cell)
    BY <1>3, <1>4 DEF Placed
  <2> QED BY <2>1, LenProperties
<1>6. ASSUME NEW m \in 1..N
      PROVE  /\ Len(CentralsTo(m)) = Len(CentralsTo(m - 1)) + Len(Zip!CentralPart(m))
             /\ Len(CentralsTo(m)) <= Len(CentralsTo(N))
             /\ \A i \in 1..Len(Zip!CentralPart(m)) : CentralsTo(N)[Len(CentralsTo(m - 1)) + i] = Zip!CentralPart(m)[i]
  <2>1. m \in 0..N /\ m - 1 \in 0..N /\ N \in 0..N
    BY <1>1
  <2>2. CentralsTo(m) = Flat(g, m) /\ CentralsTo(m - 1) = Flat(g, m - 1) /\ CentralsTo(N) = Flat(g, N) /\ g[m] = Zip!CentralPart(m)
    BY <1>2, <1>3, <2>1
  <2>3. /\ Len(Flat(g, m)) = Len(Flat(g, m - 1)) + Len(g[m])
        /\ Len(Flat(g, m)) <= Len(Flat(g, N))
        /\ \A i \in 1..Len(g[m]) : Flat(g, N)[Len(Flat(g, m - 1)) + i] = g[m][i]
    BY <1>4, <2>1 DEF Placed
  <2> QED BY <2>2, <2>3
<1>7. CentralsTo(0) = <<>>
  <2>1. 0 \in 0..N
    BY <1>1
  <2> QED BY <1>3, <1>4, <2>1 DEF Placed
<1> QED BY <1>5, <1>6, <1>7 DEF N

\* The file: the members, the directory, the end.
LEMMA FileIs ==
  ASSUME archive \in Archives
  PROVE  LET N == Len(archive) IN
         /\ Zip!File \in Seq(Cell) /\ Len(Zip!File) \in Nat /\ Zip!DirStart \in Nat /\ Zip!DirEnd \in Nat
         /\ Zip!DirStart = Len(Zip!LocalsTo(N)) /\ Zip!DirEnd = Zip!DirStart + Len(CentralsTo(N))
         /\ Len(Zip!File) = Zip!DirEnd + HeadLen
         /\ \A i \in 1..Zip!DirStart : Zip!File[i] = Zip!LocalsTo(N)[i]
         /\ \A i \in 1..Len(CentralsTo(N)) : Zip!File[Zip!DirStart + i] = CentralsTo(N)[i]
<1> DEFINE N == Len(archive)
           A == Zip!LocalsTo(N)
           B == CentralsTo(N)
           E == Zip!Cells("end", 0, HeadLen)
           AB == A \o B
<1>1. N \in 0..N /\ HeadLen \in Nat
  BY MembersAre, ReadingsAssumption
<1>2. A \in Seq(Cell) /\ Len(A) \in Nat
  BY <1>1, LocalsPlaced
<1>3. B \in Seq(Cell) /\ Len(B) \in Nat
  BY <1>1, CentralsPlaced
<1>4. E \in Seq(Cell) /\ Len(E) = HeadLen
  BY <1>1, CellsAre DEF Kinds
<1>5. Zip!File = AB \o E /\ Zip!DirStart = Len(A) /\ Zip!DirEnd = Len(Zip!File) - HeadLen
  BY DEF Zip!File, Zip!DirStart, Zip!DirEnd, CentralsTo
<1> HIDE DEF A, B, E
<1>6. /\ AB \in Seq(Cell) /\ Len(AB) = Len(A) + Len(B)
      /\ \A i \in 1..Len(A) : AB[i] = A[i]
      /\ \A i \in 1..Len(B) : AB[Len(A) + i] = B[i]
  BY <1>2, <1>3, TwoJoined
<1> HIDE DEF AB
<1>7. /\ Zip!File \in Seq(Cell) /\ Len(Zip!File) = Len(AB) + Len(E)
      /\ \A i \in 1..Len(AB) : Zip!File[i] = AB[i]
  <2>1. /\ AB \o E \in Seq(Cell) /\ Len(AB \o E) = Len(AB) + Len(E)
        /\ \A i \in 1..Len(AB) : (AB \o E)[i] = AB[i]
    <3>1. AB \in Seq(Cell) /\ E \in Seq(Cell)
      BY <1>4, <1>6
    <3> QED BY <3>1, TwoJoined
  <2> QED BY <1>5, <2>1
<1> DEFINE a == Len(A)
           b == Len(B)
<1>8. a \in Nat /\ b \in Nat /\ Len(AB) = a + b /\ Len(Zip!File) = a + b + HeadLen
  BY <1>2, <1>3, <1>4, <1>6, <1>7
<1>9. Zip!DirStart = a /\ Zip!DirEnd = a + b /\ Len(Zip!File) \in Nat
  <2> HIDE DEF a, b
  <2> QED BY <1>1, <1>5, <1>8 DEF a
<1>10. \A i \in 1..a : Zip!File[i] = A[i]
  <2>1. \A i \in 1..a : i \in 1..Len(AB) /\ AB[i] = A[i]
    <3> HIDE DEF a, b
    <3> QED BY <1>6, <1>8 DEF a
  <2> QED BY <1>7, <2>1
<1>11. \A i \in 1..b : Zip!File[a + i] = B[i]
  <2>1. \A i \in 1..b : a + i \in 1..Len(AB) /\ AB[a + i] = B[i]
    <3>1. \A i \in 1..b : AB[a + i] = B[i]
      BY <1>6
    <3> HIDE DEF a, b
    <3> QED BY <1>8, <3>1
  <2> QED BY <1>7, <2>1
<1> HIDE DEF a, b
<1>12. Zip!DirStart = a /\ Zip!DirEnd = a + b /\ Len(Zip!File) = Zip!DirEnd + HeadLen /\ Len(Zip!File) \in Nat
       /\ Zip!DirStart \in Nat /\ Zip!DirEnd \in Nat
  BY <1>8, <1>9
<1> QED BY <1>7, <1>10, <1>11, <1>12 DEF a, b, A, B, N

\* A member lies in the file.
LEMMA MemberLies ==
  ASSUME archive \in Archives, NEW m \in 1..Len(archive)
  PROVE  LET n == Zip!Member(m).name
             x == Zip!Member(m).extra
             at == Len(Zip!LocalsTo(m - 1)) IN
         /\ at \in Nat
         /\ Lies(at, "local", m, HeadLen)
         /\ Lies(at + (HeadLen + n + x), "data", m, Zip!Member(m).data)
<1> DEFINE n == Zip!Member(m).name
           x == Zip!Member(m).extra
           d == Zip!Member(m).data
           at == Len(Zip!LocalsTo(m - 1))
           p == Zip!LocalPart(m)
           l == Len(p)
           off == HeadLen + n + x
<1>1. /\ n \in Nat /\ x \in Nat /\ d \in Nat /\ HeadLen \in Nat /\ Len(archive) \in Nat /\ m - 1 \in 0..Len(archive)
      /\ m \in 0..Len(archive) /\ Len(archive) \in 0..Len(archive)
  BY MembersAre, ReadingsAssumption
<1>2. /\ l = HeadLen + n + x + d
      /\ \A i \in 1..HeadLen : p[i] = <<"local", m, i>>
      /\ \A i \in 1..d : p[off + i] = <<"data", m, i>>
  BY LocalIs
<1>3. /\ at \in Nat /\ Len(Zip!LocalsTo(m)) \in Nat
      /\ Len(Zip!LocalsTo(m)) = at + l /\ Len(Zip!LocalsTo(m)) <= Len(Zip!LocalsTo(Len(archive)))
      /\ \A i \in 1..l : Zip!LocalsTo(Len(archive))[at + i] = p[i]
  BY <1>1, LocalsPlaced
<1>4. /\ Len(Zip!File) \in Nat /\ Zip!DirStart \in Nat /\ Zip!DirEnd \in Nat /\ Zip!DirStart = Len(Zip!LocalsTo(Len(archive)))
      /\ \A i \in 1..Zip!DirStart : Zip!File[i] = Zip!LocalsTo(Len(archive))[i]
  BY FileIs
<1>5. Zip!DirStart <= Len(Zip!File)
  <2>1. Zip!DirEnd = Zip!DirStart + Len(CentralsTo(Len(archive))) /\ Len(Zip!File) = Zip!DirEnd + HeadLen
    BY FileIs
  <2>2. Len(CentralsTo(Len(archive))) \in Nat
    BY <1>1, CentralsPlaced
  <2> QED BY <1>1, <1>4, <2>1, <2>2
<1> HIDE DEF n, x, d, at, p
<1>6. l \in Nat /\ off \in Nat /\ off + d <= l /\ 0 + HeadLen <= l
  BY <1>1, <1>2
<1> HIDE DEF l, off
<1>7. at + l <= Len(Zip!File) /\ \A i \in 1..l : at + i \in 1..Zip!DirStart
  BY <1>3, <1>4, <1>5, <1>6
<1>8. \A i \in 1..l : Zip!File[at + i] = p[i]
  BY <1>3, <1>4, <1>7
<1>9. Lies(at + off, "data", m, d)
  BY <1>1, <1>2, <1>3, <1>4, <1>6, <1>7, <1>8, LiesIn
<1>10. Lies(at + 0, "local", m, HeadLen)
  <2>1. \A i \in 1..HeadLen : p[0 + i] = <<"local", m, i>>
    BY <1>2
  <2> QED BY <1>1, <2>1, <1>3, <1>4, <1>6, <1>7, <1>8, LiesIn
<1>11. at + 0 = at
  BY <1>3
<1> QED BY <1>3, <1>9, <1>10, <1>11 DEF at, off, n, x, d

\* A record of the directory lies in the file.
LEMMA RecordLies ==
  ASSUME archive \in Archives, NEW m \in 1..Len(archive)
  PROVE  LET n == Zip!Member(m).name
             x == Zip!Cardinality(Zip!Member(m).stubs)
             at == Zip!DirStart + Len(CentralsTo(m - 1))
             l == Len(Zip!CentralPart(m)) IN
         /\ at \in Nat /\ l \in Nat /\ HeadLen + n + x <= l
         /\ Zip!DirStart + Len(CentralsTo(m)) = at + l /\ at + l <= Zip!DirEnd
         /\ Lies(at, "central", m, HeadLen)
         /\ Lies(at + HeadLen, "name", m, n)
         /\ Lies(at + (HeadLen + n), "extra", m, x)
<1> DEFINE n == Zip!Member(m).name
           x == Zip!Cardinality(Zip!Member(m).stubs)
           c == Zip!Member(m).comment
           at == Zip!DirStart + Len(CentralsTo(m - 1))
           p == Zip!CentralPart(m)
           l == Len(p)
           N == Len(archive)
           before == Len(CentralsTo(m - 1))
<1>1. /\ n \in Nat /\ x \in Nat /\ c \in Nat /\ HeadLen \in Nat /\ N \in Nat /\ m - 1 \in 0..N
      /\ m \in 0..N /\ N \in 0..N
  BY MembersAre, ReadingsAssumption
<1>2. /\ l = HeadLen + n + x + c
      /\ \A i \in 1..HeadLen : p[i] = <<"central", m, i>>
      /\ \A i \in 1..n : p[HeadLen + i] = <<"name", m, i>>
      /\ \A i \in 1..x : p[(HeadLen + n) + i] = <<"extra", m, i>>
  BY CentralIs
<1>3. /\ before \in Nat /\ Len(CentralsTo(m)) \in Nat /\ Len(CentralsTo(N)) \in Nat
      /\ Len(CentralsTo(m)) = before + l /\ Len(CentralsTo(m)) <= Len(CentralsTo(N))
      /\ \A i \in 1..l : CentralsTo(N)[before + i] = p[i]
  BY <1>1, CentralsPlaced
<1>4. /\ Len(Zip!File) \in Nat /\ Zip!DirStart \in Nat /\ Zip!DirEnd \in Nat
      /\ Zip!DirEnd = Zip!DirStart + Len(CentralsTo(N)) /\ Len(Zip!File) = Zip!DirEnd + HeadLen
      /\ \A i \in 1..Len(CentralsTo(N)) : Zip!File[Zip!DirStart + i] = CentralsTo(N)[i]
  BY FileIs
<1>5. at = Zip!DirStart + before
  OBVIOUS
<1> HIDE DEF n, x, c, at, p, before, N
<1>6. l \in Nat /\ HeadLen + n + x <= l /\ 0 + HeadLen <= l /\ HeadLen + n <= l
  BY <1>1, <1>2
<1> HIDE DEF l
<1>7. /\ at \in Nat /\ at + l <= Len(Zip!File) /\ at + l <= Zip!DirEnd /\ Zip!DirStart + Len(CentralsTo(m)) = at + l
      /\ \A i \in 1..l : before + i \in 1..Len(CentralsTo(N)) /\ Zip!DirStart + (before + i) = at + i
  BY <1>1, <1>3, <1>4, <1>5, <1>6
<1>8. \A i \in 1..l : Zip!File[at + i] = p[i]
  BY <1>3, <1>4, <1>7
<1>9. Lies(at + 0, "central", m, HeadLen)
  <2>1. \A i \in 1..HeadLen : p[0 + i] = <<"central", m, i>>
    BY <1>2
  <2> QED BY <1>1, <2>1, <1>4, <1>6, <1>7, <1>8, LiesIn
<1>10. Lies(at + HeadLen, "name", m, n)
  BY <1>1, <1>2, <1>4, <1>6, <1>7, <1>8, LiesIn
<1>11. Lies(at + (HeadLen + n), "extra", m, x)
  <2>1. HeadLen + n \in Nat /\ (HeadLen + n) + x <= l
    BY <1>1, <1>6
  <2> QED BY <1>1, <2>1, <1>2, <1>4, <1>6, <1>7, <1>8, LiesIn
<1>12. at + 0 = at
  BY <1>7
<1> QED BY <1>6, <1>7, <1>9, <1>10, <1>11, <1>12 DEF at, n, x, l, p

-----------------------------------------------------------------------------
(* Windows on the file.                                                    *)

Window == [start : Nat, len : Nat]
Inside(w) == w \in Window /\ w.start + w.len <= Len(Zip!File)

\* A window that was made to hold n cells at pos holds them.
LEMMA Ensures ==
  ASSUME archive \in Archives, blockSize \in Nat, NEW w, Inside(w), NEW pos \in Nat, NEW need \in Nat,
         pos + need <= Len(Zip!File)
  PROVE  LET e == Zip!Ensured(w, pos, need) IN Inside(e) /\ e.start <= pos /\ pos + need <= e.start + e.len
<1> DEFINE e == Zip!Ensured(w, pos, need)
<1>1. Len(Zip!File) \in Nat
  BY FileIs
<1>2. CASE Zip!Holds(w, pos, need)
  BY <1>2 DEF Zip!Ensured, Zip!Holds, Inside, Window
<1>3. CASE ~Zip!Holds(w, pos, need)
  <2> DEFINE want == IF need > blockSize THEN need ELSE blockSize
             len == IF pos + want > Len(Zip!File) THEN Len(Zip!File) - pos ELSE want
  <2>1. e = [start |-> pos, len |-> len]
    BY <1>3 DEF Zip!Ensured, Zip!WindowAt
  <2>2. len \in Nat /\ pos + len <= Len(Zip!File) /\ need <= len
    BY <1>1
  <2> HIDE DEF len
  <2>3. e \in Window /\ e.start = pos /\ e.len = len
    BY <2>1, <2>2 DEF Window
  <2> HIDE DEF e
  <2> QED BY <2>2, <2>3 DEF Inside, e
<1> QED BY <1>2, <1>3

\* The n cells of the file at a place.
Gives(s, n, at) == s \in Seq(Cell) /\ Len(s) = n /\ \A i \in 1..n : s[i] = Zip!File[at + i]

\* What a window gives is what lies in the file.
LEMMA WithinIs ==
  ASSUME archive \in Archives, NEW w, Inside(w), NEW off \in Int, NEW n \in Nat, NEW at \in Nat, w.start + off = at,
         at + n <= w.start + w.len, \A i \in 1..n : Zip!File[at + i] \in Cell
  PROVE  Gives(Zip!Within(w, off, n), n, at)
<1>1. w.start \in Nat /\ w.len \in Nat
  BY DEF Inside, Window
<1>2. ~(off + n > w.len) /\ w.start + off + 1 = at + 1 /\ w.start + off + n = at + n
  BY <1>1
<1>3. Zip!Within(w, off, n) = SubSeq(Zip!File, at + 1, at + n)
  BY <1>2 DEF Zip!Within
<1> DEFINE s == SubSeq(Zip!File, at + 1, at + n)
<1>4. at + 1 \in Int /\ at + n \in Int /\ \A i \in (at + 1)..(at + n) : Zip!File[i] \in Cell
  <2>1. ASSUME NEW i \in (at + 1)..(at + n) PROVE Zip!File[i] \in Cell
    <3>1. i - at \in 1..n /\ at + (i - at) = i
      OBVIOUS
    <3>2. Zip!File[at + (i - at)] \in Cell
      BY <3>1
    <3> QED BY <3>1, <3>2
  <2> QED BY <2>1
<1>5. /\ s \in Seq(Cell)
      /\ Len(s) = IF at + 1 <= at + n THEN (at + n) - (at + 1) + 1 ELSE 0
      /\ \A i \in 1..((at + n) - (at + 1) + 1) : s[i] = Zip!File[(at + 1) + i - 1]
  BY <1>4, SubSeqProperties
<1> HIDE DEF s
<1>6. Len(s) = n
  BY <1>5
<1>7. ASSUME NEW i \in 1..n PROVE s[i] = Zip!File[at + i]
  <2>1. i \in 1..((at + n) - (at + 1) + 1) /\ (at + 1) + i - 1 = at + i
    OBVIOUS
  <2> QED BY <1>5, <2>1
<1> QED BY <1>3, <1>5, <1>6, <1>7 DEF s, Gives

LEMMA ReadsOut ==
  ASSUME archive \in Archives, NEW w, Inside(w), NEW off \in Int, NEW n \in Nat, NEW at \in Nat, w.start + off = at,
         at + n <= w.start + w.len, NEW kind \in Kinds, NEW m \in Nat, Lies(at, kind, m, n)
  PROVE  Zip!Within(w, off, n) = Zip!Cells(kind, m, n)
<1> DEFINE s == Zip!Within(w, off, n)
           c == Zip!Cells(kind, m, n)
<1>1. \A i \in 1..n : Zip!File[at + i] = <<kind, m, i>> /\ <<kind, m, i>> \in Cell
  BY DEF Lies, Cell
<1>2. s \in Seq(Cell) /\ Len(s) = n /\ \A i \in 1..n : s[i] = Zip!File[at + i]
  <2>1. \A i \in 1..n : Zip!File[at + i] \in Cell
    BY <1>1
  <2>2. Gives(Zip!Within(w, off, n), n, at)
    BY <2>1, WithinIs
  <2> QED BY <2>2 DEF Gives
<1>3. c \in Seq(Cell) /\ Len(c) = n /\ \A i \in 1..n : c[i] = <<kind, m, i>>
  BY CellsAre
<1> HIDE DEF s, c
<1>4. Len(s) = Len(c) /\ \A i \in 1..Len(s) : s[i] = c[i]
  BY <1>1, <1>2, <1>3
<1>5. s = c
  BY <1>2, <1>3, <1>4, SeqEqual
<1> QED BY <1>5 DEF s, c

-----------------------------------------------------------------------------
(* What is true of a reading of an archive.                                *)

EntryOf(k) ==
  [name   |-> Zip!Cells("name", k, Zip!Member(k).name),
   fields |-> [f \in {"size", "packed", "offset"} |->
                 IF f \in Zip!Member(k).stubs THEN <<"extra", k, Zip!Cardinality(Zip!StubsBefore(k, f)) + 1>> ELSE <<"fixed", k, f>>]]
Entries == {EntryOf(k) : k \in 1..Len(archive)}

\* The directory is read up to a record, each of those before it as it is.
RecordOK(r) ==
  /\ r \in [pc : {"head", "listed"}, pos : Nat, block : Window, out : Seq(Entries)]
  /\ Inside(r.block)
  /\ Len(r.out) \in 0..Len(archive)
  /\ r.pos = Zip!DirStart + Len(CentralsTo(Len(r.out)))
  /\ \A k \in 1..Len(r.out) : r.out[k] = EntryOf(k)
  /\ r.pc = "listed" => Len(r.out) = Len(archive)

\* A member is read from where its data starts.
MemberOK(r) ==
  /\ r \in [pc : {"none", "data"}, k : Nat, start : Nat, read : Nat, got : Seq(Cell), cache : Window]
  /\ Inside(r.cache)
  /\ r.pc = "data" =>
       /\ r.k \in 1..Len(archive)
       /\ r.start = Len(Zip!LocalsTo(r.k - 1)) + (HeadLen + Zip!Member(r.k).name + Zip!Member(r.k).extra)
       /\ r.read <= Zip!Member(r.k).data
       /\ r.got = Zip!Cells("data", r.k, r.read)

ZipInv ==
  /\ archive \in Archives /\ blockSize \in Nat /\ wrong = FALSE
  /\ RecordOK(record)
  /\ MemberOK(member)

LEMMA ZipTrue == ASSUME ZipInv PROVE Zip!ReadsTrue
<1>1. ~wrong /\ record.pc # "broken" /\ (record.pc = "listed" => Len(record.out) = Len(archive))
  BY DEF ZipInv, RecordOK
<1>2. \A i \in 1..3 : Zip!Fields[i] \in {"size", "packed", "offset"}
  BY DEF Zip!Fields
<1>3. ASSUME NEW k \in 1..Len(record.out), NEW i \in 1..3
      PROVE  /\ record.out[k].name = Zip!Cells("name", k, Zip!Member(k).name)
             /\ record.out[k].fields[Zip!Fields[i]] =
                  IF Zip!Fields[i] \in Zip!Member(k).stubs THEN <<"extra", k, Zip!Cardinality(Zip!StubsBefore(k, Zip!Fields[i])) + 1>>
                                                           ELSE <<"fixed", k, Zip!Fields[i]>>
  <2>1. record.out[k] = EntryOf(k)
    BY DEF ZipInv, RecordOK
  <2> DEFINE f == Zip!Fields[i]
  <2>2. f \in {"size", "packed", "offset"}
    BY <1>2
  <2> HIDE DEF f
  <2>3. /\ EntryOf(k).name = Zip!Cells("name", k, Zip!Member(k).name)
        /\ EntryOf(k).fields[f] = IF f \in Zip!Member(k).stubs THEN <<"extra", k, Zip!Cardinality(Zip!StubsBefore(k, f)) + 1>>
                                                               ELSE <<"fixed", k, f>>
    BY <2>2 DEF EntryOf
  <2> QED BY <2>1, <2>3 DEF f
<1>4. \A k \in 1..Len(record.out) : record.out[k].name = Zip!Cells("name", k, Zip!Member(k).name)
  <2>1. 1 \in 1..3
    OBVIOUS
  <2> QED BY <1>3, <2>1
<1>5. \A k \in 1..Len(record.out) : \A i \in 1..3 : LET f == Zip!Fields[i] IN
        record.out[k].fields[f] = IF f \in Zip!Member(k).stubs THEN <<"extra", k, Zip!Cardinality(Zip!StubsBefore(k, f)) + 1>>
                                                                ELSE <<"fixed", k, f>>
  BY <1>3
<1> QED BY ONLY <1>1, <1>4, <1>5 DEF Zip!ReadsTrue

LEMMA ZipFirst == ASSUME Zip!ZInit PROVE ZipInv
<1>1. archive \in Archives /\ blockSize \in Nat /\ wrong = FALSE
  BY ReadingsAssumption DEF Zip!ZInit
<1>2. Len(Zip!File) \in Nat /\ Zip!DirStart \in Nat /\ Len(archive) \in Nat
  BY <1>1, FileIs, MembersAre
<1>3. Zip!NoWindow \in Window /\ Inside(Zip!NoWindow)
  BY <1>2 DEF Zip!NoWindow, Window, Inside
<1>4. record = [pc |-> "head", pos |-> Zip!DirStart, block |-> Zip!NoWindow, out |-> <<>>]
  BY DEF Zip!ZInit
<1>5. <<>> \in Seq(Entries) /\ Len(<<>>) = 0
  BY EmptySeq
<1>6. RecordOK(record)
  <2>1. record \in [pc : {"head", "listed"}, pos : Nat, block : Window, out : Seq(Entries)]
    BY <1>2, <1>3, <1>4, <1>5
  <2>2. record.pc = "head" /\ record.pos = Zip!DirStart /\ record.block = Zip!NoWindow /\ record.out = <<>> /\ Len(record.out) = 0
    BY <1>4
  <2>3. Len(CentralsTo(0)) = 0
    BY <1>1, CentralsPlaced
  <2>4. record.pos = Zip!DirStart + Len(CentralsTo(Len(record.out)))
    BY <1>2, <2>2, <2>3
  <2>5. Inside(record.block) /\ Len(record.out) \in 0..Len(archive) /\ \A k \in 1..Len(record.out) : record.out[k] = EntryOf(k)
    BY <1>2, <1>3, <2>2
  <2> QED BY <2>1, <2>2, <2>4, <2>5 DEF RecordOK
<1>7. MemberOK(member)
  <2>1. member = [pc |-> "none", k |-> 0, start |-> 0, read |-> 0, got |-> <<>>, cache |-> Zip!NoWindow]
    BY DEF Zip!ZInit
  <2>2. <<>> \in Seq(Cell)
    BY EmptySeq
  <2> QED BY <1>3, <2>1, <2>2 DEF MemberOK
<1> QED BY <1>1, <1>6, <1>7 DEF ZipInv

\* The stubs that stand before a field do not make up all of them.
LEMMA StubBefore ==
  ASSUME archive \in Archives, NEW k \in 1..Len(archive), NEW f \in Zip!Member(k).stubs
  PROVE  Zip!Cardinality(Zip!StubsBefore(k, f)) + 1 \in 1..Zip!Cardinality(Zip!Member(k).stubs)
<1> DEFINE S == Zip!Member(k).stubs
           T == Zip!StubsBefore(k, f)
<1>1. S \subseteq {"size", "packed", "offset"} /\ Zip!Cardinality(S) \in Nat
  BY MembersAre
<1>2. T \subseteq S \ {f}
  <2>1. \A g \in T : g \in S /\ \E i, j \in 1..3 : i < j /\ Zip!Fields[i] = g /\ Zip!Fields[j] = f
    BY DEF Zip!StubsBefore
  <2>2. \A i, j \in 1..3 : i < j => Zip!Fields[i] # Zip!Fields[j]
    <3>1. Zip!Fields[1] = "size" /\ Zip!Fields[2] = "packed" /\ Zip!Fields[3] = "offset"
      BY DEF Zip!Fields
    <3>2. \A i, j \in 1..3 : i < j => (i = 1 /\ j = 2) \/ (i = 1 /\ j = 3) \/ (i = 2 /\ j = 3)
      OBVIOUS
    <3> QED BY <3>1, <3>2
  <2> HIDE DEF S, T
  <2> QED BY <2>1, <2>2
<1> HIDE DEF S, T
<1>3. IsFiniteSet(S)
  BY MembersAre DEF S
<1>4. IsFiniteSet(S \ {f}) /\ Cardinality(S \ {f}) = Cardinality(S) - 1
  BY <1>3, FS_RemoveElement DEF S
<1>5. IsFiniteSet(T) /\ Cardinality(T) <= Cardinality(S \ {f}) /\ Cardinality(T) \in Nat
  BY <1>2, <1>4, FS_Subset, FS_CardinalityType
<1>6. Cardinality(T) + 1 \in 1..Cardinality(S)
  <2>1. Cardinality(S) \in Nat
    BY <1>3, FS_CardinalityType
  <2> QED BY <1>4, <1>5, <2>1
<1> QED BY <1>6, ZipCardinality DEF S, T

\* A record is read whole, or the directory has no more.
LEMMA RecordRead ==
  ASSUME ZipInv, Zip!ReadRecord
  PROVE  RecordOK(record')
<1> DEFINE N == Len(archive)
           k == Len(record.out) + 1
           at == record.pos
           need == Len(Zip!CentralPart(k))
           w1 == Zip!Ensured(record.block, record.pos, HeadLen)
           head == Zip!Within(w1, record.pos - w1.start, HeadLen)
           w2 == Zip!Ensured(w1, record.pos, need)
           off == record.pos - w2.start
           n == Zip!Member(k).name
           x == Zip!Cardinality(Zip!Member(k).stubs)
           name == Zip!Within(w2, off + HeadLen, n)
           extra == Zip!Within(w2, off + HeadLen + n, x)
<1>1. archive \in Archives /\ blockSize \in Nat /\ RecordOK(record)
  BY DEF ZipInv
<1>2. /\ record \in [pc : {"head", "listed"}, pos : Nat, block : Window, out : Seq(Entries)]
      /\ Inside(record.block) /\ at = Zip!DirStart + Len(CentralsTo(Len(record.out)))
      /\ Len(record.out) \in 0..N
  BY <1>1 DEF RecordOK
<1>3. record.pc = "head" /\ Len(record.out) < N
  BY DEF Zip!ReadRecord
<1>4. HeadLen \in Nat \ {0} /\ N \in Nat
  BY <1>1, MembersAre, ReadingsAssumption
<1>5. k \in 1..N /\ k - 1 = Len(record.out) /\ k \in Nat
  BY <1>2, <1>3, <1>4
<1> HIDE DEF k
<1>6. /\ at \in Nat /\ need \in Nat /\ HeadLen + n + x <= need
      /\ Zip!DirStart + Len(CentralsTo(k)) = at + need /\ at + need <= Zip!DirEnd
      /\ Lies(at, "central", k, HeadLen)
      /\ Lies(at + HeadLen, "name", k, n)
      /\ Lies(at + (HeadLen + n), "extra", k, x)
  BY <1>1, <1>2, <1>5, RecordLies
<1>7. n \in Nat /\ x \in Nat
  BY <1>1, <1>5, MembersAre
<1>8. Len(Zip!File) \in Nat /\ Zip!DirEnd \in Nat /\ Len(Zip!File) = Zip!DirEnd + HeadLen
  BY <1>1, FileIs
<1> HIDE DEF at, need, n, x
<1>9. at + HeadLen <= Len(Zip!File) /\ at + need <= Len(Zip!File) /\ HeadLen <= need
  BY <1>4, <1>6, <1>7, <1>8
<1>10. Inside(w1) /\ w1.start <= at /\ at + HeadLen <= w1.start + w1.len
  <2>1. HeadLen \in Nat
    BY <1>4
  <2> QED BY <1>1, <1>2, <1>6, <1>9, <2>1, Ensures DEF at
<1> HIDE DEF w1
<1>11. Inside(w2) /\ w2.start <= at /\ at + need <= w2.start + w2.len
  BY <1>1, <1>6, <1>9, <1>10, Ensures DEF at
<1> HIDE DEF w2
<1>12. w1.start \in Nat /\ w1.len \in Nat /\ w2.start \in Nat /\ w2.len \in Nat
  BY <1>10, <1>11 DEF Inside, Window
<1>13. head = Zip!Cells("central", k, HeadLen)
  <2>1. at - w1.start \in Int /\ w1.start + (at - w1.start) = at /\ HeadLen \in Nat /\ "central" \in Kinds
    BY <1>4, <1>6, <1>12 DEF Kinds
  <2>2. Zip!Within(w1, at - w1.start, HeadLen) = Zip!Cells("central", k, HeadLen)
    BY <1>1, <1>5, <1>6, <1>10, <2>1, ReadsOut
  <2> QED BY <2>2 DEF at
<1>14. name = Zip!Cells("name", k, n)
  <2>1. off = at - w2.start
    BY DEF at
  <2>2. /\ off + HeadLen \in Int /\ w2.start + (off + HeadLen) = at + HeadLen /\ at + HeadLen \in Nat /\ "name" \in Kinds
        /\ (at + HeadLen) + n <= w2.start + w2.len
    BY <1>4, <1>6, <1>7, <1>11, <1>12, <2>1 DEF Kinds
  <2> HIDE DEF off
  <2> QED BY <1>1, <1>5, <1>6, <1>7, <1>11, <2>2, ReadsOut
<1>15. extra = Zip!Cells("extra", k, x)
  <2>1. off = at - w2.start
    BY DEF at
  <2>2. /\ off + HeadLen + n \in Int /\ w2.start + (off + HeadLen + n) = at + (HeadLen + n)
        /\ at + (HeadLen + n) \in Nat /\ "extra" \in Kinds
        /\ (at + (HeadLen + n)) + x <= w2.start + w2.len
    BY <1>4, <1>6, <1>7, <1>11, <1>12, <2>1 DEF Kinds
  <2> HIDE DEF off
  <2> QED BY <1>1, <1>5, <1>6, <1>7, <1>11, <2>2, ReadsOut
<1>16. Len(head) = HeadLen /\ head[1][2] = k
  <2>1. /\ Len(Zip!Cells("central", k, HeadLen)) = HeadLen /\ Zip!Cells("central", k, HeadLen)[1] = <<"central", k, 1>>
    <3>1. 1 \in 1..HeadLen /\ HeadLen \in Nat /\ "central" \in Kinds
      BY <1>4 DEF Kinds
    <3> QED BY <1>5, <3>1, CellsAre
  <2>2. <<"central", k, 1>>[2] = k
    OBVIOUS
  <2> HIDE DEF head
  <2> QED BY <1>13, <2>1, <2>2
<1>17. record' = [record EXCEPT !.block = w2, !.pos = @ + need,
                                !.out = Append(@, [name |-> name, fields |-> [f \in Zip!ToSet(Zip!Fields) |-> Zip!Field(k, f, extra)]])]
  <2>1. record' = LET m == head[1][2]
                      nd == Len(Zip!CentralPart(m))
                      v2 == Zip!Ensured(w1, record.pos, nd)
                      o == record.pos - v2.start
                      nm == Zip!Within(v2, o + HeadLen, Zip!Member(m).name)
                      ex == Zip!Within(v2, o + HeadLen + Zip!Member(m).name, Zip!Cardinality(Zip!Member(m).stubs)) IN
                  IF Len(head) # HeadLen \/ head # Zip!Cells("central", m, HeadLen)
                    THEN [record EXCEPT !.pc = "broken"]
                    ELSE [record EXCEPT !.block = v2, !.pos = @ + nd,
                            !.out = Append(@, [name |-> nm, fields |-> [f \in Zip!ToSet(Zip!Fields) |-> Zip!Field(m, f, ex)]])]
    BY DEF Zip!ReadRecord, w1
  <2> HIDE DEF head
  <2> QED BY <1>13, <1>16, <2>1 DEF need, w2, n, x
<1>18. [name |-> name, fields |-> [f \in Zip!ToSet(Zip!Fields) |-> Zip!Field(k, f, extra)]] = EntryOf(k)
  <2>1. Zip!ToSet(Zip!Fields) = {"size", "packed", "offset"}
    BY DEF Zip!ToSet, Zip!Fields
  <2>2. ASSUME NEW f \in {"size", "packed", "offset"}
        PROVE  Zip!Field(k, f, extra) = IF f \in Zip!Member(k).stubs THEN <<"extra", k, Zip!Cardinality(Zip!StubsBefore(k, f)) + 1>>
                                                                    ELSE <<"fixed", k, f>>
    <3>1. CASE f \notin Zip!Member(k).stubs
      BY <3>1 DEF Zip!Field
    <3>2. CASE f \in Zip!Member(k).stubs
      <4> DEFINE j == Zip!Cardinality(Zip!StubsBefore(k, f)) + 1
      <4>1. j \in 1..x
        BY <1>1, <1>5, <3>2, StubBefore DEF x
      <4>2. Zip!Field(k, f, extra) = extra[j]
        BY <3>2 DEF Zip!Field
      <4> HIDE DEF j, extra
      <4>3. extra[j] = <<"extra", k, j>>
        <5>1. "extra" \in Kinds
          BY DEF Kinds
        <5>2. \A i \in 1..x : Zip!Cells("extra", k, x)[i] = <<"extra", k, i>>
          BY <1>5, <1>7, <5>1, CellsAre
        <5> QED BY <1>15, <4>1, <5>2
      <4> QED BY <3>2, <4>2, <4>3 DEF j
    <3> QED BY <3>1, <3>2
  <2> HIDE DEF name, extra
  <2>3. [f \in Zip!ToSet(Zip!Fields) |-> Zip!Field(k, f, extra)] =
          [f \in {"size", "packed", "offset"} |->
             IF f \in Zip!Member(k).stubs THEN <<"extra", k, Zip!Cardinality(Zip!StubsBefore(k, f)) + 1>> ELSE <<"fixed", k, f>>]
    BY <2>1, <2>2
  <2>4. name = Zip!Cells("name", k, Zip!Member(k).name)
    BY <1>14 DEF n
  <2> QED BY <2>3, <2>4 DEF EntryOf
<1> HIDE DEF name, extra
<1>19. record' = [record EXCEPT !.block = w2, !.pos = @ + need, !.out = Append(@, EntryOf(k))]
  BY <1>17, <1>18
<1>20. /\ record'.pc = "head" /\ record'.block = w2 /\ record'.pos = at + need /\ record'.out = Append(record.out, EntryOf(k))
       /\ record' = [pc |-> record'.pc, pos |-> record'.pos, block |-> record'.block, out |-> record'.out]
  <2> HIDE DEF EntryOf
  <2> QED BY <1>2, <1>3, <1>19 DEF at
<1> DEFINE m == Len(record.out)
           next == record'.out
<1>21. /\ next \in Seq(Entries) /\ Len(next) = m + 1
       /\ \A i \in 1..m : next[i] = record.out[i]
       /\ next[m + 1] = EntryOf(k)
  <2>1. record.out \in Seq(Entries) /\ EntryOf(k) \in Entries /\ m \in Nat
    BY <1>2, <1>5, LenProperties DEF Entries
  <2>2. next = Append(record.out, EntryOf(k))
    BY <1>20
  <2> HIDE DEF next
  <2> QED BY <2>1, <2>2, AppendProperties
<1>22. k = m + 1 /\ m \in Nat
  BY <1>2 DEF k
<1> HIDE DEF m, next
<1>23. Len(next) \in 0..N /\ \A i \in 1..Len(next) : next[i] = EntryOf(i)
  <2>1. \A i \in 1..m : record.out[i] = EntryOf(i)
    BY <1>1 DEF RecordOK, m
  <2>2. \A i \in 1..Len(next) : i \in 1..m \/ i = m + 1
    BY <1>21, <1>22
  <2> QED BY <1>5, <1>21, <1>22, <2>1, <2>2
<1>24. record' \in [pc : {"head", "listed"}, pos : Nat, block : Window, out : Seq(Entries)]
  <2>1. record'.pos \in Nat /\ record'.block \in Window /\ record'.out \in Seq(Entries) /\ record'.pc \in {"head", "listed"}
    BY <1>6, <1>11, <1>20, <1>21 DEF Inside, next
  <2> QED BY <1>20, <2>1
<1>25. record'.pos = Zip!DirStart + Len(CentralsTo(Len(record'.out)))
  <2>1. Len(record'.out) = k
    BY <1>21, <1>22 DEF next
  <2> QED BY <1>6, <1>20, <2>1
<1>26. Inside(record'.block) /\ record'.pc # "listed"
  BY <1>11, <1>20
<1> QED BY <1>23, <1>24, <1>25, <1>26 DEF RecordOK, next, N

LEMMA ListRead ==
  ASSUME ZipInv, Zip!ListEnds
  PROVE  RecordOK(record')
<1> DEFINE m == Len(record.out)
           N == Len(archive)
<1>1. archive \in Archives /\ RecordOK(record) /\ N \in Nat /\ HeadLen \in Nat \ {0}
  BY MembersAre, ReadingsAssumption DEF ZipInv
<1>2. /\ record \in [pc : {"head", "listed"}, pos : Nat, block : Window, out : Seq(Entries)]
      /\ Inside(record.block) /\ m \in 0..N
      /\ record.pos = Zip!DirStart + Len(CentralsTo(m))
      /\ \A k \in 1..m : record.out[k] = EntryOf(k)
  BY <1>1 DEF RecordOK
<1>3. record' = [record EXCEPT !.pc = "listed"] /\ (record.pos >= Zip!DirEnd \/ m = N)
  BY DEF Zip!ListEnds
<1>4. m = N
  <2> SUFFICES ASSUME m # N PROVE FALSE
    OBVIOUS
  <2> DEFINE k == m + 1
             n == Zip!Member(k).name
             x == Zip!Cardinality(Zip!Member(k).stubs)
             l == Len(Zip!CentralPart(k))
  <2>1. k \in 1..N /\ k - 1 = m
    BY <1>1, <1>2
  <2> HIDE DEF k
  <2>2. record.pos \in Nat /\ l \in Nat /\ HeadLen + n + x <= l /\ record.pos + l <= Zip!DirEnd
    BY <1>1, <1>2, <2>1, RecordLies
  <2>3. n \in Nat /\ x \in Nat
    BY <1>1, <2>1, MembersAre
  <2>4. Zip!DirEnd \in Nat
    BY <1>1, FileIs
  <2>5. record.pos >= Zip!DirEnd
    BY <1>3
  <2> HIDE DEF n, x, l, m, N
  <2> QED BY <1>1, <2>2, <2>3, <2>4, <2>5
<1>5. /\ record'.pc = "listed" /\ record'.pos = record.pos /\ record'.block = record.block /\ record'.out = record.out
      /\ record' \in [pc : {"head", "listed"}, pos : Nat, block : Window, out : Seq(Entries)]
  BY <1>2, <1>3
<1> QED BY <1>2, <1>4, <1>5 DEF RecordOK

\* A member that was opened: its header was found.
LEMMA MemberOpened ==
  ASSUME ZipInv, NEW k \in 1..Len(archive), Zip!OpenMember(k)
  PROVE  MemberOK(member') /\ wrong' = FALSE
<1> DEFINE at == Zip!Truth(k, "offset")
           w == Zip!Ensured(member.cache, at, HeadLen)
           head == Zip!Within(w, at - w.start, HeadLen)
<1>1. archive \in Archives /\ blockSize \in Nat /\ MemberOK(member) /\ wrong = FALSE /\ HeadLen \in Nat /\ k \in Nat
  BY MembersAre, ReadingsAssumption DEF ZipInv
<1>2. at = Len(Zip!LocalsTo(k - 1))
  BY DEF Zip!Truth
<1> HIDE DEF at
<1>3. at \in Nat /\ Lies(at, "local", k, HeadLen)
  BY <1>1, <1>2, MemberLies
<1>4. at + HeadLen <= Len(Zip!File) /\ Inside(member.cache)
  BY <1>1, <1>3 DEF Lies, MemberOK
<1>5. Inside(w) /\ w.start <= at /\ at + HeadLen <= w.start + w.len
  BY <1>1, <1>3, <1>4, Ensures
<1> HIDE DEF w
<1>6. head = Zip!Cells("local", k, HeadLen)
  <2>1. at - w.start \in Int /\ w.start + (at - w.start) = at /\ "local" \in Kinds
    BY <1>3, <1>5 DEF Inside, Window, Kinds
  <2> QED BY <1>1, <1>3, <1>5, <2>1, ReadsOut
<1>7. /\ member' = [pc |-> "data", k |-> k, start |-> at + HeadLen + Zip!Member(k).name + Zip!Member(k).extra,
                    read |-> 0, got |-> <<>>, cache |-> w]
      /\ wrong' = wrong
  BY <1>6 DEF Zip!OpenMember, w, at
<1> DEFINE n == Zip!Member(k).name
           x == Zip!Member(k).extra
           start == at + HeadLen + n + x
<1>8. n \in Nat /\ x \in Nat /\ Zip!Member(k).data \in Nat
  BY <1>1, MembersAre
<1>9. start \in Nat /\ start = at + (HeadLen + n + x)
  <2> HIDE DEF n, x
  <2> QED BY <1>1, <1>3, <1>8
<1>10. Zip!Cells("data", k, 0) = <<>>
  <2>1. 0 \in Nat /\ "data" \in Kinds
    BY DEF Kinds
  <2>2. Zip!Cells("data", k, 0) \in Seq(Cell) /\ Len(Zip!Cells("data", k, 0)) = 0
    BY <1>1, <2>1, CellsAre
  <2> QED BY <2>2, EmptySeq
<1> HIDE DEF start
<1>11. /\ member'.pc = "data" /\ member'.k = k /\ member'.start = start /\ member'.read = 0 /\ member'.got = <<>> /\ member'.cache = w
       /\ member' = [pc |-> "data", k |-> k, start |-> start, read |-> 0, got |-> <<>>, cache |-> w]
  BY <1>7 DEF start
<1>12. member' \in [pc : {"none", "data"}, k : Nat, start : Nat, read : Nat, got : Seq(Cell), cache : Window]
  <2>1. <<>> \in Seq(Cell) /\ w \in Window
    BY <1>5, EmptySeq DEF Inside
  <2> QED BY <1>1, <1>9, <1>11, <2>1
<1>13. member'.start = Len(Zip!LocalsTo(member'.k - 1)) + (HeadLen + Zip!Member(member'.k).name + Zip!Member(member'.k).extra)
  BY <1>2, <1>9, <1>11
<1>14. member'.read <= Zip!Member(member'.k).data /\ member'.got = Zip!Cells("data", member'.k, member'.read)
  BY <1>8, <1>10, <1>11
<1> QED BY <1>1, <1>5, <1>7, <1>11, <1>12, <1>13, <1>14 DEF MemberOK

\* A piece of a member goes on where the last one ended.
LEMMA PieceRead ==
  ASSUME ZipInv, Zip!ReadPiece
  PROVE  MemberOK(member')
<1> DEFINE k == member.k
           d == Zip!Member(k).data
           left == d - member.read
           len == IF left < ReadChunk THEN left ELSE ReadChunk
           pos == member.start + member.read
           w == Zip!Ensured(member.cache, pos, len)
           piece == Zip!Within(w, pos - w.start, len)
           start == member.start
           read == member.read
           got == member.got
<1>1. archive \in Archives /\ blockSize \in Nat /\ MemberOK(member) /\ HeadLen \in Nat /\ ReadChunk \in Nat
  BY ReadingsAssumption DEF ZipInv
<1>2. /\ member.pc = "data" /\ left > 0
      /\ member' = [member EXCEPT !.cache = w, !.read = @ + len, !.got = @ \o piece]
  BY DEF Zip!ReadPiece
<1>3. /\ member \in [pc : {"none", "data"}, k : Nat, start : Nat, read : Nat, got : Seq(Cell), cache : Window]
      /\ Inside(member.cache) /\ k \in 1..Len(archive)
      /\ start = Len(Zip!LocalsTo(k - 1)) + (HeadLen + Zip!Member(k).name + Zip!Member(k).extra)
      /\ read <= d /\ got = Zip!Cells("data", k, read)
  BY <1>1, <1>2 DEF MemberOK
<1>4. d \in Nat /\ read \in Nat /\ start \in Nat /\ k \in Nat
  BY <1>1, <1>3, MembersAre
<1>5. Lies(start, "data", k, d)
  BY <1>1, <1>3, MemberLies
<1>6. len \in Nat /\ read + len <= d /\ pos \in Nat /\ pos = start + read
  <2>1. left > 0 /\ left = d - read /\ pos = start + read
    BY <1>2
  <2>2. len = IF left < ReadChunk THEN left ELSE ReadChunk
    OBVIOUS
  <2> HIDE DEF len, left, d, read, start, pos
  <2>3. left \in Nat /\ read + left = d
    BY <1>4, <2>1
  <2>4. len \in Nat /\ len <= left
    BY <1>1, <2>2, <2>3
  <2> QED BY <1>4, <2>1, <2>3, <2>4
<1> HIDE DEF k, d, left, len, start, read, got
<1>7. start + d <= Len(Zip!File) /\ Len(Zip!File) \in Nat /\ \A i \in 1..d : Zip!File[start + i] = <<"data", k, i>>
  BY <1>1, <1>5, FileIs DEF Lies
<1>8. pos + len <= Len(Zip!File) /\ pos \in Nat
  BY <1>4, <1>6, <1>7
<1> HIDE DEF pos
<1>9. Inside(w) /\ w.start <= pos /\ pos + len <= w.start + w.len
  BY <1>1, <1>3, <1>6, <1>8, Ensures
<1> HIDE DEF w
<1>10. \A i \in 1..len : Zip!File[pos + i] = <<"data", k, read + i>> /\ <<"data", k, read + i>> \in Cell
  <2>1. \A i \in 1..len : read + i \in 1..d /\ start + (read + i) = pos + i /\ read + i \in Nat
    BY <1>4, <1>6
  <2>2. "data" \in Kinds
    BY DEF Kinds
  <2> QED BY <1>4, <1>7, <2>1, <2>2 DEF Cell
<1>11. Gives(piece, len, pos)
  <2>1. pos - w.start \in Int /\ w.start + (pos - w.start) = pos
    BY <1>8, <1>9 DEF Inside, Window
  <2>2. \A i \in 1..len : Zip!File[pos + i] \in Cell
    BY <1>10
  <2> QED BY <1>1, <1>6, <1>8, <1>9, <2>1, <2>2, WithinIs
<1>12. piece \in Seq(Cell) /\ Len(piece) = len /\ \A i \in 1..len : piece[i] = <<"data", k, read + i>>
  BY <1>10, <1>11 DEF Gives
<1> HIDE DEF piece
<1>13. got \in Seq(Cell) /\ Len(got) = read /\ \A i \in 1..read : got[i] = <<"data", k, i>>
  <2>1. "data" \in Kinds
    BY DEF Kinds
  <2>2. got = Zip!Cells("data", k, read)
    BY <1>3
  <2> QED BY <1>4, <2>1, <2>2, CellsAre
<1>14. got \o piece = Zip!Cells("data", k, read + len)
  <2> DEFINE s == got \o piece
             c == Zip!Cells("data", k, read + len)
  <2>1. /\ s \in Seq(Cell) /\ Len(s) = Len(got) + Len(piece)
        /\ \A i \in 1..Len(got) : s[i] = got[i]
        /\ \A i \in 1..Len(piece) : s[Len(got) + i] = piece[i]
    <3>1. got \in Seq(Cell) /\ piece \in Seq(Cell)
      BY <1>12, <1>13
    <3> QED BY <3>1, TwoJoined
  <2>2. c \in Seq(Cell) /\ Len(c) = read + len /\ \A i \in 1..(read + len) : c[i] = <<"data", k, i>>
    <3>1. read + len \in Nat /\ "data" \in Kinds
      BY <1>4, <1>6 DEF Kinds
    <3> QED BY <1>4, <3>1, CellsAre
  <2> HIDE DEF s, c
  <2>3. Len(s) = Len(c)
    BY <1>12, <1>13, <2>1, <2>2
  <2>4. ASSUME NEW i \in 1..Len(s) PROVE s[i] = c[i]
    <3>1. i \in 1..(read + len)
      BY <1>12, <1>13, <2>1
    <3>2. CASE i <= read
      <4>1. i \in 1..read
        BY <1>4, <3>1, <3>2
      <4> QED BY <1>13, <2>1, <2>2, <3>1, <4>1
    <3>3. CASE ~(i <= read)
      <4>1. i - read \in 1..len /\ read + (i - read) = i
        BY <1>4, <1>6, <3>1, <3>3
      <4>2. s[read + (i - read)] = <<"data", k, read + (i - read)>>
        BY <1>12, <1>13, <2>1, <4>1
      <4> QED BY <2>2, <3>1, <4>1, <4>2
    <3> QED BY <3>2, <3>3
  <2>5. s = c
    BY <2>1, <2>2, <2>3, <2>4, SeqEqual
  <2> QED BY <2>5 DEF s, c
<1>15. /\ member'.pc = "data" /\ member'.k = k /\ member'.start = start /\ member'.cache = w
       /\ member'.read = read + len /\ member'.got = got \o piece
       /\ member' = [pc |-> "data", k |-> k, start |-> start, read |-> read + len, got |-> got \o piece, cache |-> w]
  BY <1>2, <1>3 DEF k, start, read, got
<1>16. member' \in [pc : {"none", "data"}, k : Nat, start : Nat, read : Nat, got : Seq(Cell), cache : Window]
  <2>1. got \o piece \in Seq(Cell)
    <3>1. got \in Seq(Cell) /\ piece \in Seq(Cell)
      BY <1>12, <1>13
    <3> QED BY <3>1, TwoJoined
  <2>2. w \in Window /\ read + len \in Nat
    BY <1>4, <1>6, <1>9 DEF Inside
  <2> QED BY <1>4, <1>15, <2>1, <2>2
<1>17. member'.start = Len(Zip!LocalsTo(member'.k - 1)) + (HeadLen + Zip!Member(member'.k).name + Zip!Member(member'.k).extra)
  BY <1>3, <1>15
<1>18. member'.read <= Zip!Member(member'.k).data /\ member'.got = Zip!Cells("data", member'.k, member'.read)
  BY <1>6, <1>14, <1>15 DEF d
<1> QED BY <1>3, <1>9, <1>15, <1>16, <1>17, <1>18 DEF MemberOK

LEMMA MemberRead ==
  ASSUME ZipInv, Zip!MemberEnds
  PROVE  MemberOK(member') /\ wrong' = FALSE
<1>1. MemberOK(member) /\ wrong = FALSE
  BY DEF ZipInv
<1>2. /\ member.pc = "data" /\ member.read = Zip!Member(member.k).data
      /\ wrong' = (wrong \/ member.got # Zip!Cells("data", member.k, Zip!Member(member.k).data))
      /\ member' = [member EXCEPT !.pc = "none", !.got = <<>>]
  BY DEF Zip!MemberEnds
<1>3. member.got = Zip!Cells("data", member.k, member.read)
  BY <1>1, <1>2 DEF MemberOK
<1>4. <<>> \in Seq(Cell)
  BY EmptySeq
<1>5. /\ member' \in [pc : {"none", "data"}, k : Nat, start : Nat, read : Nat, got : Seq(Cell), cache : Window]
      /\ member'.pc = "none" /\ member'.cache = member.cache
  BY <1>1, <1>2, <1>4 DEF MemberOK
<1>6. wrong' = FALSE
  BY <1>1, <1>2, <1>3
<1> QED BY <1>1, <1>5, <1>6 DEF MemberOK

\* As long as the archive is the same, so is what lies in it.
LEMMA ZipSame ==
  ASSUME archive' = archive
  PROVE  /\ Zip!File' = Zip!File /\ Zip!DirStart' = Zip!DirStart
         /\ \A k : /\ Zip!LocalsTo(k)' = Zip!LocalsTo(k) /\ CentralsTo(k)' = CentralsTo(k)
                   /\ Zip!Member(k)' = Zip!Member(k) /\ EntryOf(k)' = EntryOf(k)
<1>1. \A k : Zip!Member(k)' = Zip!Member(k)
  BY DEF Zip!Member
<1>2. \A k : Zip!LocalPart(k)' = Zip!LocalPart(k) /\ Zip!CentralPart(k)' = Zip!CentralPart(k)
  BY <1>1 DEF Zip!LocalPart, Zip!CentralPart
<1>3. \A k : Zip!LocalsTo(k)' = Zip!LocalsTo(k)
  <2> SUFFICES ASSUME NEW k PROVE Zip!LocalsTo(k)' = Zip!LocalsTo(k)
    OBVIOUS
  <2>1. [i \in 1..k |-> Zip!LocalPart(i)'] = [i \in 1..k |-> Zip!LocalPart(i)]
    BY <1>2
  <2>2. Zip!LocalsTo(k)' = Zip!FlattenSeq([i \in 1..k |-> Zip!LocalPart(i)'])
    BY DEF Zip!LocalsTo
  <2>3. Zip!LocalsTo(k) = Zip!FlattenSeq([i \in 1..k |-> Zip!LocalPart(i)])
    BY DEF Zip!LocalsTo
  <2> QED BY <2>1, <2>2, <2>3
<1>4. \A k : CentralsTo(k)' = CentralsTo(k)
  <2> SUFFICES ASSUME NEW k PROVE CentralsTo(k)' = CentralsTo(k)
    OBVIOUS
  <2>1. [i \in 1..k |-> Zip!CentralPart(i)'] = [i \in 1..k |-> Zip!CentralPart(i)]
    BY <1>2
  <2>2. CentralsTo(k)' = Zip!FlattenSeq([i \in 1..k |-> Zip!CentralPart(i)'])
    BY DEF CentralsTo
  <2>3. CentralsTo(k) = Zip!FlattenSeq([i \in 1..k |-> Zip!CentralPart(i)])
    BY DEF CentralsTo
  <2> QED BY <2>1, <2>2, <2>3
<1>6. PICK n : n = Len(archive)
  OBVIOUS
<1>7. Zip!File = Zip!LocalsTo(n) \o CentralsTo(n) \o Zip!Cells("end", 0, HeadLen) /\ Zip!DirStart = Len(Zip!LocalsTo(n))
  BY <1>6 DEF Zip!File, Zip!DirStart, CentralsTo
<1>8. Zip!File' = Zip!LocalsTo(n)' \o CentralsTo(n)' \o Zip!Cells("end", 0, HeadLen) /\ Zip!DirStart' = Len(Zip!LocalsTo(n)')
  <2>1. Len(archive') = n
    BY <1>6
  <2> QED BY <2>1 DEF Zip!File, Zip!DirStart, CentralsTo
<1>9. \A k : EntryOf(k)' = EntryOf(k)
  <2> SUFFICES ASSUME NEW k PROVE EntryOf(k)' = EntryOf(k)
    OBVIOUS
  <2>1. \A f : Zip!StubsBefore(k, f)' = Zip!StubsBefore(k, f)
    BY <1>1 DEF Zip!StubsBefore
  <2> DEFINE now(f) == IF f \in Zip!Member(k).stubs THEN <<"extra", k, Zip!Cardinality(Zip!StubsBefore(k, f)) + 1>> ELSE <<"fixed", k, f>>
             then(f) == IF f \in Zip!Member(k)'.stubs THEN <<"extra", k, Zip!Cardinality(Zip!StubsBefore(k, f)') + 1>> ELSE <<"fixed", k, f>>
  <2>2. \A f : then(f) = now(f)
    BY <1>1, <2>1
  <2>3. EntryOf(k) = [name |-> Zip!Cells("name", k, Zip!Member(k).name), fields |-> [f \in {"size", "packed", "offset"} |-> now(f)]]
    BY DEF EntryOf
  <2>4. EntryOf(k)' = [name |-> Zip!Cells("name", k, Zip!Member(k)'.name), fields |-> [f \in {"size", "packed", "offset"} |-> then(f)]]
    BY DEF EntryOf
  <2> HIDE DEF now, then
  <2>5. [f \in {"size", "packed", "offset"} |-> then(f)] = [f \in {"size", "packed", "offset"} |-> now(f)]
    BY <2>2
  <2> QED BY <1>1, <2>3, <2>4, <2>5
<1> QED BY <1>1, <1>3, <1>4, <1>7, <1>8, <1>9

LEMMA RecordSame ==
  ASSUME archive' = archive, NEW r, RecordOK(r)
  PROVE  RecordOK(r)'
<1>1. /\ Zip!File' = Zip!File /\ Zip!DirStart' = Zip!DirStart
      /\ \A k : CentralsTo(k)' = CentralsTo(k) /\ EntryOf(k)' = EntryOf(k)
  BY ZipSame
<1>2. Entries' = Entries
  BY <1>1 DEF Entries
<1> QED BY <1>1, <1>2 DEF RecordOK, Inside

LEMMA MemberSame ==
  ASSUME archive' = archive, NEW r, MemberOK(r)
  PROVE  MemberOK(r)'
<1>1. /\ Zip!File' = Zip!File
      /\ \A k : Zip!LocalsTo(k)' = Zip!LocalsTo(k) /\ Zip!Member(k)' = Zip!Member(k)
  BY ZipSame
<1> QED BY <1>1 DEF MemberOK, Inside

LEMMA ZipStep ==
  ASSUME ZipInv, [Zip!ZNext]_zipVars
  PROVE  ZipInv'
<1>1. archive' = archive /\ blockSize' = blockSize
  BY DEF zipVars, Zip!ZNext, Zip!ReadRecord, Zip!ListEnds, Zip!OpenMember, Zip!ReadPiece, Zip!MemberEnds
<1>2. RecordOK(record') /\ MemberOK(member') /\ wrong' = FALSE
  <2>0. RecordOK(record) /\ MemberOK(member) /\ wrong = FALSE
    BY DEF ZipInv
  <2>1. CASE Zip!ReadRecord
    <3>1. member' = member /\ wrong' = wrong
      BY <2>1 DEF Zip!ReadRecord
    <3> QED BY <2>0, <2>1, <3>1, RecordRead
  <2>2. CASE Zip!ListEnds
    <3>1. member' = member /\ wrong' = wrong
      BY <2>2 DEF Zip!ListEnds
    <3> QED BY <2>0, <2>2, <3>1, ListRead
  <2>3. CASE \E k \in 1..Len(archive) : Zip!OpenMember(k)
    <3>1. record' = record
      BY <2>3 DEF Zip!OpenMember
    <3> QED BY <2>0, <2>3, <3>1, MemberOpened
  <2>4. CASE Zip!ReadPiece
    <3>1. record' = record /\ wrong' = wrong
      BY <2>4 DEF Zip!ReadPiece
    <3> QED BY <2>0, <2>4, <3>1, PieceRead
  <2>5. CASE Zip!MemberEnds
    <3>1. record' = record
      BY <2>5 DEF Zip!MemberEnds
    <3> QED BY <2>0, <2>5, <3>1, MemberRead
  <2>6. CASE UNCHANGED zipVars
    BY <2>0, <2>6 DEF zipVars
  <2> QED BY <2>1, <2>2, <2>3, <2>4, <2>5, <2>6 DEF Zip!ZNext
<1>3. PICK r : r = record'
  OBVIOUS
<1>4. PICK m : m = member'
  OBVIOUS
<1>5. RecordOK(r)' /\ MemberOK(m)'
  BY <1>1, <1>2, <1>3, <1>4, RecordSame, MemberSame
<1>6. RecordOK(record)' /\ MemberOK(member)'
  BY <1>3, <1>4, <1>5
<1> QED BY <1>1, <1>2, <1>6 DEF ZipInv

-----------------------------------------------------------------------------
(* Both, side by side.                                                     *)

ReadingsInv ==
  /\ part \in {"zip", "dates"}
  /\ part = "zip" => ZipInv
  /\ part = "dates" => DatesInv

(* Whatever the windows and the pieces an archive is read by, the directory *)
(* gives every record with its own name and fields, and a member comes out *)
(* whole; and whoever looks for the date of a shot, in whatever order, the *)
(* date kept is the one its tags have, or else the one given last.         *)
THEOREM ReadingsHold == RSpec => []ReadingsTrue
<1>1. part \in {"zip", "dates"} /\ RInit => ReadingsInv
  BY ZipFirst, DatesFirst DEF RInit, ReadingsInv
<1>2. ReadingsInv /\ [RNext]_readVars => ReadingsInv'
  <2> SUFFICES ASSUME ReadingsInv, [RNext]_readVars PROVE ReadingsInv'
    OBVIOUS
  <2>1. part' = part
    BY DEF RNext, readVars
  <2>2. CASE part = "zip"
    <3>1. [Zip!ZNext]_zipVars
      BY <2>2 DEF RNext, readVars
    <3>2. ZipInv
      BY <2>2 DEF ReadingsInv
    <3>3. ZipInv'
      BY <3>1, <3>2, ZipStep
    <3> QED BY <2>1, <2>2, <3>3 DEF ReadingsInv
  <2>3. CASE part = "dates"
    <3>1. [Dates!MNext]_datesVars
      BY <2>3 DEF RNext, readVars
    <3>2. DatesInv
      BY <2>3 DEF ReadingsInv
    <3>3. DatesInv'
      BY <3>1, <3>2, DatesStep
    <3> QED BY <2>1, <2>3, <3>3 DEF ReadingsInv
  <2> QED BY <2>2, <2>3 DEF ReadingsInv
<1>3. ReadingsInv => ReadingsTrue
  BY ZipTrue, DatesTrue DEF ReadingsInv, ReadingsTrue
<1> QED BY <1>1, <1>2, <1>3, PTL DEF RSpec
==============================================================================
