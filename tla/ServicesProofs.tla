--------------------------- MODULE ServicesProofs ---------------------------
(***************************************************************************)
(* Proofs about the services that stand side by side.                      *)
(***************************************************************************)
EXTENDS Services, FiniteSetTheorems, WellFoundedInduction, TLAPS

-----------------------------------------------------------------------------
(* The passes over a mailbox.                                              *)

At      == {"off", "begin", "connect", "folder", "new", "old", "error", "finish", "end"}
APass   == [at : At, attempt : Int, own : BOOLEAN, hung : {"no"} \cup Hangs]
Watched == {"off", "sleep", "connect", "probe", "fresh", "hung"}

\* The claim of the folder is the short fetch's as long as that runs, and a pass that takes new letters has it.
PassesInv ==
  /\ pass \in [Passes!Pass -> APass]
  /\ loop \in [at : Watched, broken : Int]
  /\ loop.at = "fresh" => taking = "fresh"
  /\ Passes!OneTakesNew

\* "cur" is no old pass, and none of them is the short fetch.
LEMMA PassNames == "cur" \in Passes!Pass /\ "cur" \notin Passes!Old /\ "fresh" \notin Passes!Pass /\ "none" \notin Passes!Pass /\ Passes!Old \subseteq Passes!Pass
BY DEF Passes!Pass, Passes!Old

\* It holds at first.
LEMMA PassesFirst == Passes!MInit => PassesInv
BY DEF Passes!MInit, PassesInv, Passes!Pass0, Passes!NoPass, Passes!NoLoop, APass, At, Watched, Passes!OneTakesNew

\* The connection that is closed only changes who owns it.
LEMMA OrphanedKeeps ==
  ASSUME NEW ps \in [Passes!Pass -> APass]
  PROVE  /\ Passes!Orphaned(ps) \in [Passes!Pass -> APass]
         /\ \A p \in Passes!Pass : Passes!Orphaned(ps)[p].at = ps[p].at
BY DEF Passes!Orphaned, APass

\* One pass moves on at `p`, and the claim goes with it.
LEMMA PassMoves ==
  ASSUME PassesInv, NEW p \in Passes!Pass, NEW q \in APass, pass' = [pass EXCEPT ![p] = q],
         q.at = "new" => taking' = p, \A o \in Passes!Pass \ {p} : taking = o => taking' = o,
         loop' = loop, loop.at = "fresh" => taking' = "fresh"
  PROVE  PassesInv'
BY DEF PassesInv, Passes!OneTakesNew

\* And every step keeps it.
LEMMA PassesStep ==
  ASSUME PassesInv, [Passes!MNext]_Passes!mvars
  PROVE  PassesInv'
<1> USE DEF Passes!owner, Passes!conns, Passes!pause
<1>0. CASE UNCHANGED Passes!mvars
  BY <1>0 DEF Passes!mvars, PassesInv, Passes!OneTakesNew
<1>e. \A l : loop.at # "fresh" => (Passes!Ensured).at # "fresh"
  BY DEF Passes!Ensured, Passes!NoLoop
<1>f. Passes!Ensured \in [at : Watched, broken : Int] /\ ((Passes!Ensured).at = "fresh" => loop.at = "fresh")
  BY DEF PassesInv, Passes!Ensured, Passes!NoLoop, Watched
<1>1. ASSUME Passes!PassOff PROVE PassesInv'
  BY <1>1, OrphanedKeeps DEF Passes!PassOff, PassesInv, Passes!OneTakesNew
<1>2. ASSUME Passes!PassOn PROVE PassesInv'
  <2>1. [pass["cur"] EXCEPT !.at = "begin"] \in APass
    BY PassNames DEF PassesInv, APass, At
  <2> QED BY <1>2, <2>1, <1>f, PassNames DEF Passes!PassOn, PassesInv, Passes!OneTakesNew
<1>3. ASSUME Passes!PassSkipped PROVE PassesInv'
  BY <1>3, <1>f DEF Passes!PassSkipped, PassesInv, Passes!OneTakesNew
<1>4. ASSUME Passes!Abort PROVE PassesInv'
  <2>1. PICK o \in Passes!Old : /\ pass[o].at = "off"
                                /\ pass' = Passes!Orphaned([pass EXCEPT !["cur"] = Passes!NoPass, ![o] = pass["cur"]])
                                /\ taking' = IF taking = "cur" THEN o ELSE taking
    BY <1>4 DEF Passes!Abort
  <2> DEFINE ps == [pass EXCEPT !["cur"] = Passes!NoPass, ![o] = pass["cur"]]
  <2>2. Passes!NoPass \in APass
    BY DEF Passes!NoPass, APass, At
  <2>3. ps \in [Passes!Pass -> APass]
    BY <2>2, PassNames DEF PassesInv
  <2>4. \A p \in Passes!Pass : pass'[p].at = ps[p].at
    BY <2>1, <2>3, OrphanedKeeps
  <2>5. pass' \in [Passes!Pass -> APass]
    BY <2>1, <2>3, OrphanedKeeps
  <2>6. Passes!OneTakesNew'
    <3> SUFFICES ASSUME NEW p \in Passes!Pass, ps[p].at = "new" PROVE taking' = p
      BY <2>4 DEF Passes!OneTakesNew
    <3>1. p # "cur"
      BY PassNames DEF Passes!NoPass, PassesInv
    <3>2. CASE p = o
      BY <3>1, <3>2, <2>1, PassNames DEF PassesInv, Passes!OneTakesNew
    <3>3. CASE p # o
      BY <3>1, <3>3, <2>1, PassNames DEF PassesInv, Passes!OneTakesNew
    <3> QED BY <3>2, <3>3
  <2> QED BY <1>4, <2>1, <2>5, <2>6, <1>f, PassNames DEF Passes!Abort, PassesInv
<1>5. ASSUME NEW p \in Passes!Pass, Passes!PassStep(p) PROVE PassesInv'
  <2> USE DEF Passes!At
  <2>a. pass[p] \in APass
    BY DEF PassesInv
  <2>b. \A a \in At : [pass[p] EXCEPT !.at = a] \in APass
    BY <2>a DEF APass
  <2>c. \A a \in At : [pass[p] EXCEPT !.at = a].at = a
    BY <2>a DEF APass
  <2>k. \A o \in Passes!Pass : pass[o].at = "new" => taking = o
    BY DEF PassesInv, Passes!OneTakesNew
  <2>m. ASSUME NEW a \in At, pass' = [pass EXCEPT ![p] = [pass[p] EXCEPT !.at = a]], a = "new" => taking' = p,
               loop' = loop, loop.at = "fresh" => taking' = "fresh",
               \A o \in Passes!Pass \ {p} : taking = o => taking' = o
        PROVE  PassesInv'
    BY <2>m, <2>b, <2>c, PassMoves
  <2>f. loop.at = "fresh" => taking = "fresh"
    BY DEF PassesInv
  <2>1. ASSUME Passes!Begin(p) PROVE PassesInv'
    <3>1. PICK a \in At \ {"new"} : pass' = [pass EXCEPT ![p] = [pass[p] EXCEPT !.at = a]]
      BY <2>1 DEF Passes!Begin, At
    <3> QED BY <2>1, <3>1, <2>m, <2>f DEF Passes!Begin
  <2>2. ASSUME Passes!Connect(p) PROVE PassesInv'
    <3>1. [[pass[p] EXCEPT !.at = "folder"] EXCEPT !.own = TRUE] \in APass /\ [[pass[p] EXCEPT !.at = "folder"] EXCEPT !.own = TRUE].at = "folder"
      BY <2>a DEF APass, At
    <3>2. [pass[p] EXCEPT !.at = "error"] \in APass /\ [pass[p] EXCEPT !.at = "error"].at = "error"
      BY <2>b, <2>c DEF At
    <3>3. \E q \in APass : q.at # "new" /\ pass' = [pass EXCEPT ![p] = q]
      BY <2>2, <3>1, <3>2 DEF Passes!Connect, PassesInv
    <3> QED BY <2>2, <3>3, PassMoves DEF Passes!Connect, PassesInv
  <2>3. ASSUME Passes!Folder(p) PROVE PassesInv'
    <3>1. CASE taking' = taking
      <4>1. \/ pass' = [pass EXCEPT ![p].at = "finish"] \/ pass' = [pass EXCEPT ![p].at = "error"]
            \/ pass' = [pass EXCEPT ![p].at = "old"]
            \/ pass' = [pass EXCEPT ![p].at = "new"] /\ taking' = p
        BY <2>3 DEF Passes!Folder, Passes!Taken
      <4>2. loop' = loop
        BY <2>3 DEF Passes!Folder
      <4>3. \E a \in At : pass' = [pass EXCEPT ![p].at = a] /\ (a = "new" => taking' = p)
        BY <4>1 DEF At
      <4> QED BY <3>1, <4>2, <4>3, <2>m, <2>f
    <3>2. CASE taking' # taking
      <4>1. taking = "none" /\ taking' = p /\ pass' = [pass EXCEPT ![p] = [pass[p] EXCEPT !.at = "new"]]
        BY <2>3, <3>2 DEF Passes!Folder, Passes!Taken
      <4>2. loop' = loop /\ "new" \in At
        BY <2>3 DEF Passes!Folder, At
      <4> QED BY <4>1, <4>2, <2>m, <2>f, PassNames
    <3> QED BY <3>1, <3>2
  <2>4. ASSUME Passes!Fetch(p) PROVE PassesInv'
    <3>1. \E q \in APass : q.at # "new" /\ pass' = [pass EXCEPT ![p] = q]
      <4>1. [[pass[p] EXCEPT !.at = "error"] EXCEPT !.hung = "no"] \in APass /\ [[pass[p] EXCEPT !.at = "error"] EXCEPT !.hung = "no"].at = "error"
        BY <2>a DEF APass, At
      <4>2. \A a \in At \ {"new"} : [pass[p] EXCEPT !.at = a] \in APass /\ [pass[p] EXCEPT !.at = a].at # "new"
        BY <2>b, <2>c
      <4>3. CASE pass' = [pass EXCEPT ![p].at = "error", ![p].hung = "no"]
        BY <4>1, <4>3 DEF PassesInv
      <4>4. CASE \E a \in At \ {"new"} : pass' = [pass EXCEPT ![p].at = a]
        BY <4>2, <4>4
      <4> QED BY <2>4, <4>3, <4>4 DEF Passes!Fetch, At
    <3>2. taking' = IF taking = p THEN "none" ELSE taking
      BY <2>4 DEF Passes!Fetch, Passes!Released
    <3>3. loop' = loop
      BY <2>4 DEF Passes!Fetch
    <3>4. PICK q \in APass : q.at # "new" /\ pass' = [pass EXCEPT ![p] = q]
      BY <3>1
    <3> QED BY <3>2, <3>3, <3>4, <2>f, PassMoves, PassNames
  <2>5. ASSUME Passes!Error(p) PROVE PassesInv'
    <3> DEFINE a == IF pass[p].attempt = 1 THEN "connect" ELSE "finish"
               q == [[pass[p] EXCEPT !.attempt = 2] EXCEPT !.at = a]
               ps == [pass EXCEPT ![p] = q]
    <3>1. q \in APass /\ q.at # "new"
      <4>1. a \in At /\ a # "new"
        BY DEF At
      <4>2. [pass[p] EXCEPT !.attempt = 2] \in APass
        BY <2>a DEF APass
      <4> QED BY <4>1, <4>2 DEF APass
    <3>2. ps \in [Passes!Pass -> APass]
      BY <3>1 DEF PassesInv
    <3>3. pass' = Passes!Orphaned(ps)
      BY <2>5 DEF Passes!Error, PassesInv
    <3>4. pass' \in [Passes!Pass -> APass] /\ \A o \in Passes!Pass : pass'[o].at = ps[o].at
      BY <3>2, <3>3, OrphanedKeeps
    <3>5. \A o \in Passes!Pass : ps[o].at = "new" => pass[o].at = "new"
      BY <3>1 DEF PassesInv
    <3> HIDE DEF ps
    <3> QED BY <2>5, <3>4, <3>5, <2>k DEF Passes!Error, PassesInv, Passes!OneTakesNew
  <2>6. ASSUME Passes!Finish(p) PROVE PassesInv'
    <3>1. pass' = [pass EXCEPT ![p].at = "end"] /\ loop' = loop /\ taking' = taking /\ "end" \in At
      BY <2>6 DEF Passes!Finish, At
    <3> QED BY <3>1, <2>m, <2>f
  <2>7. ASSUME Passes!End(p) PROVE PassesInv'
    <3>1. Passes!NoPass \in APass /\ (Passes!NoPass).at # "new"
      BY DEF Passes!NoPass, APass, At
    <3> QED BY <2>7, <3>1, PassMoves DEF Passes!End, PassesInv
  <2> QED BY <1>5, <2>1, <2>2, <2>3, <2>4, <2>5, <2>6, <2>7 DEF Passes!PassStep
<1>6. ASSUME NEW p \in Passes!Pass, Passes!Hang(p) PROVE PassesInv'
  <2>1. PICK h \in Hangs : pass' = [pass EXCEPT ![p] = [pass[p] EXCEPT !.hung = h]]
    BY <1>6 DEF Passes!Hang
  <2>2. [pass[p] EXCEPT !.hung = h] \in APass /\ [pass[p] EXCEPT !.hung = h].at = pass[p].at
    BY DEF PassesInv, APass
  <2> QED BY <1>6, <2>1, <2>2, PassMoves DEF Passes!Hang, PassesInv, Passes!OneTakesNew
<1>7. ASSUME Passes!LoopStep \/ Passes!HangFresh \/ Passes!Rearm \/ Passes!PauseOver PROVE PassesInv'
  <2>1. CASE Passes!Wake
    BY <2>1 DEF Passes!Wake, PassesInv, Passes!OneTakesNew, Passes!NoLoop, Watched
  <2>2. CASE Passes!OpenWatch
    BY <2>2 DEF Passes!OpenWatch, PassesInv, Passes!OneTakesNew, Watched
  <2>3. CASE Passes!ProbeFails
    BY <2>3 DEF Passes!ProbeFails, PassesInv, Passes!OneTakesNew, Passes!NoLoop, Watched
  <2>4. CASE Passes!Probe
    BY <2>4, PassNames DEF Passes!Probe, PassesInv, Passes!OneTakesNew, Watched
  <2>5. CASE Passes!HangFresh
    BY <2>5 DEF Passes!HangFresh, PassesInv, Passes!OneTakesNew, Watched
  <2>6. CASE Passes!Fresh
    BY <2>6, PassNames DEF Passes!Fresh, PassesInv, Passes!OneTakesNew, Watched
  <2>7. CASE Passes!Rearm
    BY <2>7, <1>f DEF Passes!Rearm, PassesInv, Passes!OneTakesNew
  <2>8. CASE Passes!PauseOver
    BY <2>8 DEF Passes!PauseOver, PassesInv, Passes!OneTakesNew
  <2> QED BY <1>7, <2>1, <2>2, <2>3, <2>4, <2>5, <2>6, <2>7, <2>8 DEF Passes!LoopStep
<1>8. ASSUME Passes!Toggle \/ Passes!Destroy PROVE PassesInv'
  BY <1>8 DEF Passes!Toggle, Passes!Destroy, PassesInv, Passes!OneTakesNew
<1>9. ASSUME Passes!Lost PROVE PassesInv'
  BY <1>9, OrphanedKeeps DEF Passes!Lost, PassesInv, Passes!OneTakesNew
<1>10. ASSUME Passes!NextProcess PROVE PassesInv'
  BY <1>10 DEF Passes!NextProcess, PassesInv, Passes!OneTakesNew, Passes!Pass0, Passes!NoPass, Passes!NoLoop, APass, At, Watched
<1> QED BY <1>0, <1>1, <1>2, <1>3, <1>4, <1>5, <1>6, <1>7, <1>8, <1>9, <1>10 DEF Passes!MNext

\* A behaviour is of one part, and only that part moves.
LEMMA PartsStep ==
  ASSUME [Next]_vars
  PROVE  /\ part' = part
         /\ part = "passes" => [Passes!MNext]_Passes!mvars
         /\ part = "index" => [Index!XNext]_Index!indexVars
         /\ part = "unzip" => [UnzipOf(Kind, Jobs)!UNext]_unzipVars
         /\ part = "odd" => [UnzipOf(OddKind, OddJobs)!UNext]_unzipVars
         /\ part = "sessions" => [Sess!SNext]_Sess!svars
         /\ part = "folders" => [Sys!FNext]_Sys!fvars
         /\ part = "takeout" => [Takeout!TNext]_Takeout!tvars
         /\ part = "sweeps" => [Sweeps!BNext]_Sweeps!bvars
         /\ part = "icons" => [Icons!FNext]_Icons!fvars
         /\ part \in {"polls", "relay"} => [Agents!ANext]_Agents!avars
<1>1. CASE Next
  BY <1>1 DEF Next, Agents!ANext
<1>2. CASE UNCHANGED vars
  BY <1>2 DEF vars, passesVars, indexVars, unzipVars, sessVars, sysVars, takeoutVars, sweepVars, iconVars, agentVars,
     Passes!mvars, Passes!conns, Passes!pause, Passes!owner, Index!indexVars, Sess!svars,
     Sys!fvars, Takeout!tvars, Sweeps!bvars, Icons!fvars, Agents!avars, Agents!polled, Agents!relayed
<1> QED BY <1>1, <1>2

\* Whatever hangs, is given up, broken off or restarted, one path at a time takes the new letters of a folder.
THEOREM OneTakesNewHolds == Spec => []OneTakesNew
<1> DEFINE Inv == part = "passes" => PassesInv
<1>1. Init => Inv
  BY PassesFirst DEF Init
<1>2. Inv /\ [Next]_vars => Inv'
  BY PassesStep, PartsStep
<1>3. Inv => OneTakesNew
  BY DEF PassesInv, OneTakesNew
<1> HIDE DEF Inv
<1> QED BY <1>1, <1>2, <1>3, PTL DEF Spec

-----------------------------------------------------------------------------
(* The icons.                                                              *)

Stages   == {"idle", "ask", "wait", "fetch", "write"}
ARequest == [pc : Stages, d : {(Icons!NoProc).d} \cup Icons!Domain, icon : BOOLEAN]
Fetching(pr) == {p \in Proc : pr[p].pc = "fetch"}
Waits(pr)    == {p \in Proc : pr[p].pc = "wait"}
Listed(w)    == {w[i] : i \in 1..Len(w)}

\* Who waits stands in the queue once, and nobody else does; the counter has who fetches.
IconsInv ==
  /\ proc \in [Proc -> ARequest]
  /\ waiting \in Seq(Proc)
  /\ \A i, j \in 1..Len(waiting) : waiting[i] = waiting[j] => i = j
  /\ Listed(waiting) = Waits(proc)
  /\ IsFiniteSet(Fetching(proc)) /\ active = Cardinality(Fetching(proc)) /\ active <= MaxConcurrent
  /\ waiting # <<>> => active = MaxConcurrent

\* It says what SlotsAreCounted says.
LEMMA IconsCounted == IconsInv => Icons!SlotsAreCounted
<1>1. \A S : Icons!Cardinality(S) = Cardinality(S)
  BY DEF Icons!Cardinality, Cardinality
<1>2. Icons!ToSet(waiting) = {waiting[i] : i \in DOMAIN waiting}
  BY DEF Icons!ToSet
<1>3. ASSUME IconsInv PROVE DOMAIN waiting = 1..Len(waiting)
  BY <1>3 DEF IconsInv
<1> QED BY <1>1, <1>2, <1>3 DEF IconsInv, Icons!SlotsAreCounted, Icons!Holders, Fetching, Waits, Listed

LEMMA IconsFirst == Icons!FInit => IconsInv
<1> SUFFICES ASSUME Icons!FInit PROVE IconsInv
  OBVIOUS
<1>1. Icons!NoProc \in ARequest /\ (Icons!NoProc).pc = "idle"
  BY DEF Icons!NoProc, ARequest, Stages
<1>2. proc \in [Proc -> ARequest] /\ \A p \in Proc : proc[p].pc = "idle"
  BY <1>1 DEF Icons!FInit
<1>3. Fetching(proc) = {} /\ Waits(proc) = {}
  BY <1>2 DEF Fetching, Waits
<1>4. waiting = <<>> /\ active = 0
  BY DEF Icons!FInit
<1>5. waiting \in Seq(Proc) /\ Len(waiting) = 0
  BY <1>4
<1>6. Listed(waiting) = {}
  BY <1>5 DEF Listed
<1> QED BY <1>2, <1>3, <1>4, <1>5, <1>6, FS_EmptySet, ServicesAssumption DEF IconsInv

\* A request that neither waits nor fetches goes on to neither.
LEMMA IconsAside ==
  ASSUME IconsInv, NEW p \in Proc, NEW q \in ARequest, proc' = [proc EXCEPT ![p] = q],
         proc[p].pc \notin {"wait", "fetch"}, q.pc \notin {"wait", "fetch"}, active' = active, waiting' = waiting
  PROVE  IconsInv'
<1>1. Fetching(proc') = Fetching(proc) /\ Waits(proc') = Waits(proc) /\ proc' \in [Proc -> ARequest]
  BY DEF IconsInv, Fetching, Waits
<1> QED BY <1>1 DEF IconsInv

\* Another one at the end of the queue.
LEMMA Queued ==
  ASSUME NEW w \in Seq(Proc), NEW p \in Proc \ Listed(w), \A i, j \in 1..Len(w) : w[i] = w[j] => i = j
  PROVE  /\ Append(w, p) \in Seq(Proc) /\ Append(w, p) # <<>>
         /\ Listed(Append(w, p)) = Listed(w) \cup {p}
         /\ \A i, j \in 1..Len(Append(w, p)) : Append(w, p)[i] = Append(w, p)[j] => i = j
<1> DEFINE n == Len(w)
<1>1. n \in Nat /\ Len(Append(w, p)) = n + 1
  OBVIOUS
<1>2. \A i \in 1..(n + 1) : Append(w, p)[i] = IF i = n + 1 THEN p ELSE w[i]
  OBVIOUS
<1>3. \A i \in 1..n : w[i] # p
  BY DEF Listed
<1>4. Append(w, p) \in Seq(Proc) /\ Append(w, p) # <<>>
  OBVIOUS
<1>5. \A i \in 1..(n + 1) : i = n + 1 \/ i \in 1..n
  BY <1>1
<1>6. n + 1 \in 1..(n + 1) /\ \A i \in 1..n : i \in 1..(n + 1) /\ i # n + 1
  BY <1>1
<1>7. Listed(Append(w, p)) = Listed(w) \cup {p}
  BY <1>1, <1>2, <1>5, <1>6 DEF Listed
<1>8. \A i, j \in 1..(n + 1) : Append(w, p)[i] = Append(w, p)[j] => i = j
  BY <1>2, <1>3, <1>5
<1> QED BY <1>1, <1>4, <1>7, <1>8

\* The first of the queue leaves it.
LEMMA Dequeued ==
  ASSUME NEW w \in Seq(Proc), w # <<>>, \A i, j \in 1..Len(w) : w[i] = w[j] => i = j
  PROVE  /\ Tail(w) \in Seq(Proc) /\ Head(w) \in Listed(w)
         /\ Listed(Tail(w)) = Listed(w) \ {Head(w)}
         /\ \A i, j \in 1..Len(Tail(w)) : Tail(w)[i] = Tail(w)[j] => i = j
<1> DEFINE n == Len(w)
<1>1. n \in Nat /\ n > 0 /\ Len(Tail(w)) = n - 1 /\ Head(w) = w[1] /\ Tail(w) \in Seq(Proc)
  OBVIOUS
<1>2. \A i \in 1..(n - 1) : Tail(w)[i] = w[i + 1]
  OBVIOUS
<1>3. \A i \in 1..(n - 1) : i + 1 \in 1..n /\ i + 1 # 1
  BY <1>1
<1>4. 1 \in 1..n /\ \A i \in 1..n : i # 1 => i - 1 \in 1..(n - 1) /\ (i - 1) + 1 = i
  BY <1>1
<1>5. Listed(Tail(w)) = {w[i + 1] : i \in 1..(n - 1)}
  BY <1>1, <1>2 DEF Listed
<1>6. Listed(Tail(w)) \subseteq Listed(w) \ {Head(w)}
  <2> SUFFICES ASSUME NEW i \in 1..(n - 1) PROVE w[i + 1] \in Listed(w) \ {w[1]}
    BY <1>1, <1>5
  <2> QED BY <1>3, <1>4 DEF Listed
<1>7. Listed(w) \ {Head(w)} \subseteq Listed(Tail(w))
  <2> SUFFICES ASSUME NEW i \in 1..n, i # 1 PROVE w[i] \in Listed(Tail(w))
    BY <1>1 DEF Listed
  <2> QED BY <1>4, <1>5
<1>8. \A i, j \in 1..(n - 1) : Tail(w)[i] = Tail(w)[j] => i = j
  <2> SUFFICES ASSUME NEW i \in 1..(n - 1), NEW j \in 1..(n - 1), w[i + 1] = w[j + 1] PROVE i = j
    BY <1>2
  <2>1. i + 1 = j + 1
    BY <1>3
  <2> QED BY <2>1
<1> QED BY <1>1, <1>4, <1>6, <1>7, <1>8 DEF Listed

LEMMA IconsAcquire == ASSUME IconsInv, NEW p \in Proc, Icons!Acquire(p) PROVE IconsInv'
<1>0. proc[p] \in ARequest /\ proc[p].pc = "ask" /\ active \in Nat
  BY FS_CardinalityType DEF IconsInv, Icons!Acquire
<1>1. CASE active < MaxConcurrent
  <2>1. active' = active + 1 /\ proc' = [proc EXCEPT ![p].pc = "fetch"] /\ waiting' = waiting
    BY <1>1 DEF Icons!Acquire
  <2>2. [proc[p] EXCEPT !.pc = "fetch"] \in ARequest /\ [proc[p] EXCEPT !.pc = "fetch"].pc = "fetch"
    BY <1>0 DEF ARequest, Stages
  <2>3. proc' \in [Proc -> ARequest] /\ Fetching(proc') = Fetching(proc) \cup {p} /\ p \notin Fetching(proc)
    BY <1>0, <2>1, <2>2 DEF IconsInv, Fetching
  <2>4. Waits(proc') = Waits(proc)
    BY <1>0, <2>1, <2>2 DEF IconsInv, Waits
  <2>5. IsFiniteSet(Fetching(proc')) /\ active' = Cardinality(Fetching(proc'))
    <3>1. IsFiniteSet(Fetching(proc)) /\ active = Cardinality(Fetching(proc))
      BY DEF IconsInv
    <3>2. IsFiniteSet(Fetching(proc) \cup {p}) /\ Cardinality(Fetching(proc) \cup {p}) = Cardinality(Fetching(proc)) + 1
      BY <2>3, <3>1, FS_AddElement
    <3> QED BY <2>1, <2>3, <3>1, <3>2
  <2>6. waiting = <<>> /\ active + 1 <= MaxConcurrent
    BY <1>0, <1>1, ServicesAssumption DEF IconsInv
  <2> QED BY <2>1, <2>3, <2>4, <2>5, <2>6 DEF IconsInv
<1>2. CASE ~(active < MaxConcurrent)
  <2>1. active' = active /\ proc' = [proc EXCEPT ![p].pc = "wait"] /\ waiting' = Append(waiting, p)
    BY <1>2 DEF Icons!Acquire
  <2>2. [proc[p] EXCEPT !.pc = "wait"] \in ARequest /\ [proc[p] EXCEPT !.pc = "wait"].pc = "wait"
    BY <1>0 DEF ARequest, Stages
  <2>3. proc' \in [Proc -> ARequest] /\ Waits(proc') = Waits(proc) \cup {p} /\ p \notin Waits(proc)
    BY <1>0, <2>1, <2>2 DEF IconsInv, Waits
  <2>4. Fetching(proc') = Fetching(proc)
    BY <1>0, <2>1, <2>2 DEF IconsInv, Fetching
  <2>5. active = MaxConcurrent
    BY <1>0, <1>2, ServicesAssumption DEF IconsInv
  <2>6. waiting \in Seq(Proc) /\ p \in Proc \ Listed(waiting) /\ \A i, j \in 1..Len(waiting) : waiting[i] = waiting[j] => i = j
    BY <2>3 DEF IconsInv
  <2>7. /\ waiting' \in Seq(Proc) /\ Listed(waiting') = Listed(waiting) \cup {p}
        /\ \A i, j \in 1..Len(waiting') : waiting'[i] = waiting'[j] => i = j
    BY <2>1, <2>6, Queued
  <2> QED BY <2>1, <2>3, <2>4, <2>5, <2>7 DEF IconsInv
<1> QED BY <1>1, <1>2

LEMMA IconsFetch == ASSUME IconsInv, NEW p \in Proc, Icons!Fetch(p) PROVE IconsInv'
<1>0. proc[p] \in ARequest /\ proc[p].pc = "fetch" /\ active \in Nat
  BY FS_CardinalityType DEF IconsInv, Icons!Fetch
<1>1. PICK b \in BOOLEAN :
        proc' = LET done == [proc EXCEPT ![p].pc = "write", ![p].icon = b] IN
                  IF waiting = <<>> THEN done ELSE [done EXCEPT ![Head(waiting)].pc = "fetch"]
  BY DEF Icons!Fetch, Icons!Found
<1> DEFINE q == [[proc[p] EXCEPT !.pc = "write"] EXCEPT !.icon = b]
           done == [proc EXCEPT ![p] = q]
<1>2. q \in ARequest /\ q.pc = "write"
  BY <1>0 DEF ARequest, Stages
<1>3. done = [proc EXCEPT ![p].pc = "write", ![p].icon = b]
  BY DEF IconsInv
<1>4. done \in [Proc -> ARequest] /\ Fetching(done) = Fetching(proc) \ {p} /\ Waits(done) = Waits(proc) /\ p \in Fetching(proc)
  BY <1>0, <1>2 DEF IconsInv, Fetching, Waits
<1>5. IsFiniteSet(Fetching(proc) \ {p}) /\ Cardinality(Fetching(proc) \ {p}) = active - 1 /\ active > 0
  <2>1. IsFiniteSet(Fetching(proc)) /\ active = Cardinality(Fetching(proc))
    BY DEF IconsInv
  <2>2. Fetching(proc) # {}
    BY <1>4
  <2> QED BY <1>0, <1>4, <2>1, <2>2, FS_RemoveElement, FS_EmptySet
<1> HIDE DEF done, q
<1>6. CASE waiting = <<>>
  <2>1. proc' = done /\ active' = active - 1 /\ waiting' = waiting
    BY <1>1, <1>3, <1>5, <1>6 DEF Icons!Fetch, Icons!Released
  <2>2. active - 1 <= MaxConcurrent
    BY <1>0, ServicesAssumption DEF IconsInv
  <2>3. waiting' \in Seq(Proc) /\ Listed(waiting') = Waits(proc')
    BY <1>4, <2>1 DEF IconsInv
  <2>4. proc' \in [Proc -> ARequest] /\ IsFiniteSet(Fetching(proc')) /\ active' = Cardinality(Fetching(proc')) /\ active' <= MaxConcurrent
    BY <1>4, <1>5, <2>1, <2>2
  <2>5. \A i, j \in 1..Len(waiting') : waiting'[i] = waiting'[j] => i = j
    BY <2>1 DEF IconsInv
  <2> QED BY <1>6, <2>1, <2>3, <2>4, <2>5 DEF IconsInv
<1>7. CASE waiting # <<>>
  <2> DEFINE h == Head(waiting)
  <2>1. proc' = [done EXCEPT ![h].pc = "fetch"] /\ active' = active /\ waiting' = Tail(waiting)
    BY <1>1, <1>3, <1>7 DEF Icons!Fetch, Icons!Released
  <2>2. waiting \in Seq(Proc) /\ \A i, j \in 1..Len(waiting) : waiting[i] = waiting[j] => i = j
    BY DEF IconsInv
  <2>3. /\ Tail(waiting) \in Seq(Proc) /\ h \in Listed(waiting)
        /\ Listed(Tail(waiting)) = Listed(waiting) \ {h}
        /\ \A i, j \in 1..Len(Tail(waiting)) : Tail(waiting)[i] = Tail(waiting)[j] => i = j
    BY <1>7, <2>2, Dequeued
  <2> HIDE DEF h
  <2>4. h \in Waits(done)
    BY <2>3, <1>4 DEF IconsInv
  <2>5. h \in Proc /\ done[h] \in ARequest /\ done[h].pc = "wait"
    BY <2>4, <1>4 DEF Waits
  <2>6. [done[h] EXCEPT !.pc = "fetch"] \in ARequest /\ [done[h] EXCEPT !.pc = "fetch"].pc = "fetch"
    BY <2>5 DEF ARequest, Stages
  <2>7. /\ proc' \in [Proc -> ARequest] /\ Waits(proc') = Waits(done) \ {h}
        /\ Fetching(proc') = Fetching(done) \cup {h} /\ h \notin Fetching(done)
    BY <1>4, <2>1, <2>5, <2>6 DEF Fetching, Waits
  <2>8. IsFiniteSet(Fetching(proc')) /\ Cardinality(Fetching(proc')) = (active - 1) + 1
    BY <1>4, <1>5, <2>7, FS_AddElement
  <2>9. active = MaxConcurrent /\ Listed(waiting) = Waits(done)
    BY <1>4, <1>7 DEF IconsInv
  <2>10. IsFiniteSet(Fetching(proc')) /\ active' = Cardinality(Fetching(proc')) /\ active' <= MaxConcurrent /\ active' = MaxConcurrent
    BY <1>0, <2>1, <2>8, <2>9
  <2>11. waiting' \in Seq(Proc) /\ Listed(waiting') = Waits(proc') /\ proc' \in [Proc -> ARequest]
    BY <2>1, <2>3, <2>7, <2>9
  <2>12. \A i, j \in 1..Len(waiting') : waiting'[i] = waiting'[j] => i = j
    BY <2>1, <2>3
  <2> QED BY <2>10, <2>11, <2>12 DEF IconsInv
<1> QED BY <1>6, <1>7

LEMMA IconsStep == ASSUME IconsInv, [Icons!FNext]_Icons!fvars PROVE IconsInv'
<1>1. CASE UNCHANGED Icons!fvars
  BY <1>1 DEF Icons!fvars, IconsInv, Fetching, Waits, Listed
<1>2. CASE Icons!Later
  BY <1>2 DEF Icons!Later, IconsInv
<1>3. ASSUME NEW p \in Proc, Icons!Acquire(p) \/ Icons!Fetch(p) PROVE IconsInv'
  BY <1>3, IconsAcquire, IconsFetch
<1>4. ASSUME NEW p \in Proc, Icons!Write(p) PROVE IconsInv'
  <2>1. Icons!NoProc \in ARequest /\ (Icons!NoProc).pc = "idle"
    BY DEF Icons!NoProc, ARequest, Stages
  <2> QED BY <1>4, <2>1, IconsAside DEF Icons!Write
<1>5. ASSUME NEW p \in Proc, NEW d \in Icons!Domain, Icons!Get(p, d) PROVE IconsInv'
  <2>1. CASE proc' = proc
    BY <1>5, <2>1 DEF Icons!Get, IconsInv
  <2>2. CASE proc' # proc
    <3> DEFINE q == [pc |-> "ask", d |-> d, icon |-> FALSE]
    <3>1. q \in ARequest /\ q.pc = "ask"
      BY DEF ARequest, Stages
    <3>2. proc' = [proc EXCEPT ![p] = q] /\ active' = active /\ waiting' = waiting /\ proc[p].pc = "idle"
      BY <1>5, <2>2 DEF Icons!Get
    <3> QED BY <3>1, <3>2, IconsAside
  <2> QED BY <2>1, <2>2
<1> QED BY <1>1, <1>2, <1>3, <1>4, <1>5 DEF Icons!FNext

-----------------------------------------------------------------------------
(* The agents.                                                             *)

Question == [n : Nat, busy : (SUBSET Session) \cup {Agents!Unheard}]

\* A question's number is its own, none above the last and none the one whose answer was applied last.
PollsInv ==
  /\ busy \subseteq Session /\ asked \subseteq Question
  /\ number \in Nat /\ applied \in Nat /\ applied <= number
  /\ \A q \in asked : q.n \in 1..number /\ q.n # applied
  /\ \A q, r \in asked : q.n = r.n => q = r
  /\ Agents!SnapshotIsSound

Kinds   == {"none", "json", "stream", "speech"}
Answers == {"nothing", "answer", "unread", "error", "busy", "stt_busy", "bridge_unavailable", "cancelled"}
ACall   == [kind : Kinds, pc : {"idle", "sent", "body", "stream"}, gone : BOOLEAN, aborted : BOOLEAN, late : BOOLEAN,
            upstream : {"none", "open", "closed"}, told : Answers]
Speaks(k) == {c \in Call : k[c].kind = "speech" /\ k[c].pc # "idle"}

\* The signal of the controller is given only when the client has left.
HonestCall(k) == (k.told = "cancelled" => k.gone) /\ (k.aborted => k.gone)

RelayInv ==
  /\ call \in [Call -> ACall]
  /\ \A c \in Call : HonestCall(call[c])
  /\ IsFiniteSet(Speaks(call)) /\ transcribing = Cardinality(Speaks(call)) /\ transcribing <= MaxParallel

LEMMA PollsFirst == Agents!AInit => PollsInv
BY DEF Agents!AInit, PollsInv, Agents!SnapshotIsSound

LEMMA PollsStep == ASSUME PollsInv, [Agents!ANext]_Agents!avars PROVE PollsInv'
<1> USE DEF Agents!polled, Agents!relayed
<1>1. CASE UNCHANGED Agents!avars
  BY <1>1 DEF Agents!avars, PollsInv, Agents!SnapshotIsSound
<1>2. CASE UNCHANGED <<busy, Agents!polled>>
  BY <1>2 DEF PollsInv, Agents!SnapshotIsSound
<1>3. CASE Agents!RelayNext
  <2>1. PICK c \in Call : \/ \E kind \in {"json", "stream", "speech"} : Agents!Begin(c, kind)
                          \/ Agents!Leave(c) \/ Agents!TimeIsUp(c) \/ Agents!Unreachable(c) \/ Agents!Refuse(c)
                          \/ Agents!Headers(c) \/ Agents!Body(c) \/ Agents!StreamEnds(c)
    BY <1>3 DEF Agents!RelayNext
  <2> QED BY <2>1, <1>2 DEF Agents!Begin, Agents!Leave, Agents!TimeIsUp, Agents!Unreachable, Agents!Refuse, Agents!Headers,
            Agents!Body, Agents!StreamEnds
<1>4. CASE Agents!Ask
  <2> DEFINE q == [n |-> number + 1, busy |-> Agents!Unheard]
  <2>1. q \in Question /\ q.n = number + 1
    BY DEF PollsInv, Question
  <2>2. asked' = asked \cup {q} /\ number' = number + 1
    BY <1>4 DEF Agents!Ask
  <2> HIDE DEF q
  <2>3. \A r \in asked' : r \in Question /\ r.n \in 1..number' /\ r.n # applied
    BY <2>1, <2>2 DEF PollsInv
  <2>4. \A r, s \in asked' : r.n = s.n => r = s
    BY <2>1, <2>2 DEF PollsInv
  <2>5. Agents!SnapshotIsSound'
    BY <1>4 DEF PollsInv, Agents!SnapshotIsSound, Agents!Ask
  <2> QED BY <1>4, <2>2, <2>3, <2>4, <2>5 DEF PollsInv, Agents!Ask
<1>5. ASSUME NEW s \in Session, Agents!Turn(s) \/ Agents!Forget(s) PROVE PollsInv'
  BY <1>5 DEF Agents!Turn, Agents!Forget, PollsInv, Agents!SnapshotIsSound
<1>6. ASSUME NEW q \in asked, Agents!Answer(q) PROVE PollsInv'
  <2> DEFINE r == [q EXCEPT !.busy = busy]
  <2>1. q \in Question /\ r \in Question /\ r.n = q.n
    BY DEF PollsInv, Question
  <2>2. asked' = (asked \ {q}) \cup {r}
    BY <1>6 DEF Agents!Answer
  <2> HIDE DEF r
  <2>3. \A t \in asked' : t \in Question /\ t.n \in 1..number /\ t.n # applied
    BY <2>1, <2>2 DEF PollsInv
  <2>4. \A t, u \in asked' : t.n = u.n => t = u
    BY <2>1, <2>2 DEF PollsInv
  <2>5. Agents!SnapshotIsSound'
    BY <1>6 DEF PollsInv, Agents!SnapshotIsSound, Agents!Answer
  <2> QED BY <1>6, <2>3, <2>4, <2>5 DEF PollsInv, Agents!Answer
<1>7. ASSUME NEW q \in asked, Agents!Apply(q) PROVE PollsInv'
  <2>1. q \in Question /\ q.busy # Agents!Unheard /\ q.n \in Nat /\ q.n <= number /\ q.n # applied
    BY <1>7 DEF PollsInv, Question, Agents!Apply
  <2>2. applied' \in Nat /\ applied' <= number /\ (q.n < applied \/ applied' = q.n)
    BY <1>7, <2>1 DEF PollsInv, Agents!Apply
  <2>3. asked' = asked \ {q} /\ number' = number
    BY <1>7 DEF Agents!Apply
  <2>4. \A t \in asked' : t.n # applied'
    BY <1>7, <2>1, <2>3 DEF PollsInv, Agents!Apply
  <2>5. Agents!SnapshotIsSound'
    <3> SUFFICES ASSUME ~passed' PROVE running' = newest' /\ finished' \cap running' = {} /\ worked' \subseteq running' \cup finished'
      BY DEF Agents!SnapshotIsSound
    <3>1. ~passed /\ q.n > applied
      <4>1. ~passed /\ ~(q.n < applied)
        BY <1>7 DEF Agents!Apply
      <4> QED BY <4>1, <2>1 DEF PollsInv
    <3>2. running' = q.busy /\ newest' = q.busy /\ worked' = worked \cup q.busy /\ finished' = (finished \cup (running \ q.busy)) \ q.busy
      BY <1>7, <3>1 DEF Agents!Apply, Agents!Finished
    <3>3. worked \subseteq running \cup finished
      BY <3>1 DEF PollsInv, Agents!SnapshotIsSound
    <3> QED BY <3>2, <3>3
  <2> QED BY <1>7, <2>2, <2>3, <2>4, <2>5 DEF PollsInv, Agents!Apply
<1>8. ASSUME NEW q \in asked, Agents!Unreached(q) PROVE PollsInv'
  BY <1>8 DEF Agents!Unreached, PollsInv, Agents!SnapshotIsSound
<1> QED BY <1>1, <1>3, <1>4, <1>5, <1>6, <1>7, <1>8 DEF Agents!ANext, Agents!PollNext

LEMMA RelayFirst == Agents!AInit => RelayInv
<1> SUFFICES ASSUME Agents!AInit PROVE RelayInv
  OBVIOUS
<1>1. Agents!NoCall \in ACall /\ (Agents!NoCall).pc = "idle" /\ HonestCall(Agents!NoCall)
  BY DEF Agents!NoCall, ACall, Kinds, Answers, HonestCall
<1>2. call = [c \in Call |-> Agents!NoCall] /\ transcribing = 0
  BY DEF Agents!AInit
<1>3. Speaks(call) = {}
  BY <1>1, <1>2 DEF Speaks
<1>4. IsFiniteSet(Speaks(call)) /\ Cardinality(Speaks(call)) = 0
  BY <1>3, FS_EmptySet
<1>5. 0 <= MaxParallel
  BY ServicesAssumption
<1>6. call \in [Call -> ACall] /\ \A c \in Call : HonestCall(call[c])
  BY <1>1, <1>2
<1> QED BY <1>2, <1>4, <1>5, <1>6 DEF RelayInv

\* A call that keeps its kind and stays under way keeps its place.
LEMMA RelayGoesOn ==
  ASSUME RelayInv, NEW c \in Call, NEW k \in ACall, call' = [call EXCEPT ![c] = k], HonestCall(k),
         k.kind = call[c].kind \/ (k.kind # "speech" /\ call[c].kind # "speech") \/ (k.pc = "idle" /\ call[c].pc = "idle"),
         (k.pc = "idle") = (call[c].pc = "idle"), transcribing' = transcribing
  PROVE  RelayInv'
<1>1. call' \in [Call -> ACall] /\ \A d \in Call : HonestCall(call'[d])
  BY DEF RelayInv
<1>2. Speaks(call') = Speaks(call)
  BY DEF RelayInv, Speaks
<1> QED BY <1>1, <1>2 DEF RelayInv

\* A call that is over gives its place back.
LEMMA RelayOver ==
  ASSUME RelayInv, NEW c \in Call, NEW k \in ACall, HonestCall(k), call[c].pc # "idle", NEW end \in {"none", "open", "closed"},
         Agents!Over(c, k, end)
  PROVE  RelayInv'
<1> DEFINE o == [[k EXCEPT !.pc = "idle"] EXCEPT !.upstream = end]
<1>1. o \in ACall /\ o.pc = "idle" /\ HonestCall(o)
  BY DEF ACall, HonestCall
<1>2. call' = [call EXCEPT ![c] = o] /\ transcribing' = transcribing - (IF call[c].kind = "speech" THEN 1 ELSE 0)
  BY DEF Agents!Over
<1> HIDE DEF o
<1>3. call' \in [Call -> ACall] /\ \A d \in Call : HonestCall(call'[d])
  BY <1>1, <1>2 DEF RelayInv
<1>4. Speaks(call') = Speaks(call) \ {c} /\ (c \in Speaks(call)) = (call[c].kind = "speech")
  BY <1>1, <1>2 DEF RelayInv, Speaks
<1>5. IsFiniteSet(Speaks(call)) /\ transcribing = Cardinality(Speaks(call)) /\ transcribing \in Nat /\ transcribing <= MaxParallel
  BY FS_CardinalityType DEF RelayInv
<1>6. IsFiniteSet(Speaks(call')) /\ Cardinality(Speaks(call')) = transcribing'
  <2>1. /\ IsFiniteSet(Speaks(call) \ {c})
        /\ Cardinality(Speaks(call) \ {c}) = Cardinality(Speaks(call)) - (IF c \in Speaks(call) THEN 1 ELSE 0)
    BY <1>5, FS_RemoveElement, FS_CardinalityType
  <2> QED BY <2>1, <1>2, <1>4, <1>5
<1>7. transcribing' <= MaxParallel
  BY <1>2, <1>5, ServicesAssumption
<1> QED BY <1>3, <1>6, <1>7 DEF RelayInv

\* A call that begins takes a place if it is one of speech, and there is one.
LEMMA RelayBegin ==
  ASSUME RelayInv, NEW c \in Call, NEW kind \in {"json", "stream", "speech"}, Agents!Begin(c, kind)
  PROVE  RelayInv'
<1>0. call[c] \in ACall /\ HonestCall(call[c]) /\ call[c].pc = "idle"
  BY DEF RelayInv, Agents!Begin
<1>1. CASE kind = "speech" /\ transcribing >= MaxParallel
  <2> DEFINE k == [[call[c] EXCEPT !.kind = kind] EXCEPT !.told = "stt_busy"]
  <2>1. k \in ACall /\ HonestCall(k) /\ k.pc = "idle"
    BY <1>0 DEF ACall, Kinds, Answers, HonestCall
  <2>2. call' = [call EXCEPT ![c] = k] /\ transcribing' = transcribing
    BY <1>1 DEF Agents!Begin, RelayInv
  <2> HIDE DEF k
  <2> QED BY <1>0, <2>1, <2>2, RelayGoesOn
<1>2. CASE ~(kind = "speech" /\ transcribing >= MaxParallel)
  <2> DEFINE k == [[[Agents!NoCall EXCEPT !.kind = kind] EXCEPT !.pc = "sent"] EXCEPT !.upstream = "open"]
  <2>1. k \in ACall /\ HonestCall(k) /\ k.pc = "sent" /\ k.kind = kind
    BY DEF Agents!NoCall, ACall, Kinds, Answers, HonestCall
  <2>2. call' = [call EXCEPT ![c] = k] /\ transcribing' = transcribing + (IF kind = "speech" THEN 1 ELSE 0)
    BY <1>2 DEF Agents!Begin, Agents!NoCall
  <2> HIDE DEF k
  <2>3. call' \in [Call -> ACall] /\ \A d \in Call : HonestCall(call'[d])
    BY <2>1, <2>2 DEF RelayInv
  <2>4. IsFiniteSet(Speaks(call)) /\ transcribing = Cardinality(Speaks(call)) /\ transcribing \in Nat /\ transcribing <= MaxParallel
    BY FS_CardinalityType DEF RelayInv
  <2>5. c \notin Speaks(call)
    BY <1>0 DEF Speaks
  <2>6. CASE kind = "speech"
    <3>1. Speaks(call') = Speaks(call) \cup {c}
      BY <2>1, <2>2, <2>6 DEF RelayInv, Speaks
    <3>2. IsFiniteSet(Speaks(call) \cup {c}) /\ Cardinality(Speaks(call) \cup {c}) = Cardinality(Speaks(call)) + 1
      BY <2>4, <2>5, FS_AddElement
    <3>3. transcribing + 1 <= MaxParallel
      BY <1>2, <2>4, <2>6, ServicesAssumption
    <3> QED BY <2>2, <2>3, <2>4, <2>6, <3>1, <3>2, <3>3 DEF RelayInv
  <2>7. CASE kind # "speech"
    <3>1. Speaks(call') = Speaks(call)
      BY <1>0, <2>1, <2>2, <2>7 DEF RelayInv, Speaks
    <3>2. transcribing' = transcribing
      BY <2>2, <2>4, <2>7
    <3> QED BY <2>3, <2>4, <3>1, <3>2 DEF RelayInv
  <2> QED BY <2>6, <2>7
<1> QED BY <1>1, <1>2

LEMMA RelayStep == ASSUME RelayInv, [Agents!ANext]_Agents!avars PROVE RelayInv'
<1> USE DEF Agents!polled, Agents!relayed
<1>1. CASE UNCHANGED <<call, transcribing>>
  BY <1>1 DEF RelayInv
<1>2. CASE Agents!PollNext
  BY <1>1, <1>2 DEF Agents!PollNext, Agents!Ask, Agents!Turn, Agents!Forget, Agents!Answer, Agents!Apply, Agents!Unreached
<1>3. ASSUME NEW c \in Call, Agents!Leave(c) \/ Agents!TimeIsUp(c) \/ Agents!Unreachable(c) \/ Agents!Refuse(c)
                             \/ Agents!Headers(c) \/ Agents!Body(c) \/ Agents!StreamEnds(c)
      PROVE  RelayInv'
  <2> DEFINE a == call[c]
  <2>0. a \in ACall /\ HonestCall(a)
    BY DEF RelayInv
  <2>t. ASSUME NEW t \in Answers, NEW k \in ACall, HonestCall(k), t = "cancelled" => k.gone
        PROVE  [k EXCEPT !.told = t] \in ACall /\ HonestCall([k EXCEPT !.told = t])
    BY <2>t DEF ACall, HonestCall
  <2>c. ASSUME NEW k \in ACall, HonestCall(k)
        PROVE  Agents!Told(k) \in ACall /\ HonestCall(Agents!Told(k))
    <3>1. Agents!Code(k) \in Answers /\ (Agents!Code(k) = "cancelled" => k.gone)
      BY <2>c DEF Agents!Code, Answers, HonestCall
    <3> QED BY <2>c, <2>t, <3>1 DEF Agents!Told
  <2>l. ASSUME Agents!Leave(c) PROVE RelayInv'
    <3>1. PICK b \in BOOLEAN :
            LET k == [a EXCEPT !.gone = TRUE, !.aborted = b] IN
              IF b /\ k.pc = "sent" THEN Agents!Over(c, Agents!Told(k), "closed")
              ELSE call' = [call EXCEPT ![c] = k] /\ UNCHANGED transcribing
      BY <2>l DEF Agents!Leave
    <3> DEFINE k == [[a EXCEPT !.gone = TRUE] EXCEPT !.aborted = b]
    <3>2. k \in ACall /\ HonestCall(k) /\ k.pc = a.pc /\ k.kind = a.kind /\ a.pc # "idle"
      BY <2>0, <2>l DEF ACall, HonestCall, Agents!Leave
    <3>3. k = [a EXCEPT !.gone = TRUE, !.aborted = b]
      OBVIOUS
    <3>4. Agents!Over(c, Agents!Told(k), "closed") \/ (call' = [call EXCEPT ![c] = k] /\ transcribing' = transcribing)
      BY <3>1, <3>3
    <3> HIDE DEF k
    <3> QED BY <2>c, <3>2, <3>4, RelayOver, RelayGoesOn
  <2>i. ASSUME Agents!TimeIsUp(c) PROVE RelayInv'
    <3> DEFINE k == [a EXCEPT !.late = TRUE]
    <3>1. k \in ACall /\ HonestCall(k) /\ k.pc = a.pc
      BY <2>0 DEF ACall, HonestCall
    <3>2. [k EXCEPT !.told = "answer"] \in ACall /\ HonestCall([k EXCEPT !.told = "answer"])
      BY <2>t, <3>1 DEF Answers
    <3>3. a.pc # "idle" /\ (Agents!Over(c, Agents!Told(k), "closed") \/ Agents!Over(c, [k EXCEPT !.told = "answer"], "closed"))
      BY <2>i, <3>1 DEF Agents!TimeIsUp
    <3> HIDE DEF k
    <3> QED BY <2>c, <3>1, <3>2, <3>3, RelayOver
  <2>u. ASSUME Agents!Unreachable(c) PROVE RelayInv'
    BY <2>0, <2>c, <2>u, RelayOver DEF Agents!Unreachable
  <2>o. ASSUME NEW t \in Answers \ {"cancelled"}, a.pc # "idle", Agents!Over(c, [a EXCEPT !.told = t], "closed")
        PROVE  RelayInv'
    BY <2>0, <2>t, <2>o, RelayOver
  <2>r. ASSUME Agents!Refuse(c) PROVE RelayInv'
    <3>1. PICK t \in Answers \ {"cancelled"} : Agents!Over(c, [a EXCEPT !.told = t], "closed")
      BY <2>r DEF Agents!Refuse, Answers
    <3> QED BY <2>r, <2>o, <3>1 DEF Agents!Refuse
  <2>h. ASSUME Agents!Headers(c) PROVE RelayInv'
    <3>1. PICK pc \in {"stream", "body"} : call' = [call EXCEPT ![c] = [a EXCEPT !.pc = pc]]
      BY <2>h DEF Agents!Headers
    <3> DEFINE k == [a EXCEPT !.pc = pc]
    <3>2. k \in ACall /\ HonestCall(k) /\ k.pc # "idle" /\ k.kind = a.kind
      BY <2>0 DEF ACall, HonestCall
    <3> HIDE DEF k
    <3>3. a.pc # "idle" /\ transcribing' = transcribing
      BY <2>h DEF Agents!Headers
    <3> QED BY <3>1, <3>2, <3>3, RelayGoesOn DEF k
  <2>b. ASSUME Agents!Body(c) PROVE RelayInv'
    <3>1. PICK t \in Answers \ {"cancelled"} : Agents!Over(c, [a EXCEPT !.told = t], "closed")
      BY <2>b DEF Agents!Body, Answers
    <3> QED BY <2>b, <2>o, <3>1 DEF Agents!Body
  <2>s. ASSUME Agents!StreamEnds(c) PROVE RelayInv'
    <3>1. PICK t \in Answers \ {"cancelled"} : Agents!Over(c, [a EXCEPT !.told = t], "closed")
      BY <2>s DEF Agents!StreamEnds, Answers
    <3> QED BY <2>s, <2>o, <3>1 DEF Agents!StreamEnds
  <2> QED BY <1>3, <2>l, <2>i, <2>u, <2>r, <2>h, <2>b, <2>s
<1>4. CASE UNCHANGED Agents!avars
  BY <1>1, <1>4 DEF Agents!avars
<1> QED BY <1>2, <1>3, <1>4, RelayBegin DEF Agents!ANext, Agents!RelayNext

\* It says what RelayIsTrue says.
LEMMA RelayTrue == RelayInv => Agents!RelayIsTrue
<1>1. \A S : Agents!Cardinality(S) = Cardinality(S)
  BY DEF Agents!Cardinality, Cardinality
<1> QED BY <1>1 DEF RelayInv, Agents!RelayIsTrue, Speaks, HonestCall

\* The slots of the fetches of icons are counted; the snapshot is the newest answer that came in order, and the calls of
\* the application are told the truth, whatever crosses, breaks off or is late.
THEOREM CallsHold == Spec => []CallsSound
<1> DEFINE Inv == (part = "icons" => IconsInv) /\ (part \in {"polls", "relay"} => PollsInv /\ RelayInv)
<1>1. Init => Inv
  BY IconsFirst, PollsFirst, RelayFirst DEF Init
<1>2. Inv /\ [Next]_vars => Inv'
  BY IconsStep, PollsStep, RelayStep, PartsStep
<1>3. Inv => CallsSound
  BY IconsCounted, RelayTrue DEF CallsSound, PollsInv
<1> HIDE DEF Inv
<1> QED BY <1>1, <1>2, <1>3, PTL DEF Spec

-----------------------------------------------------------------------------
(* The index of the letters.                                               *)

\* A try in memory was made in a pass that got through others, or in the one under way.
IndexInv ==
  /\ mark \in [Letters -> {"no", "text", "bare"}]
  /\ attempts \in [Letters -> Int] /\ mixed \in [Letters -> Int]
  /\ batch \subseteq Letters /\ failed \subseteq Letters /\ batch \cap failed = {}
  /\ ~indexing => batch = {} /\ failed = {}
  /\ \A l \in Letters : 0 <= mixed[l] /\ attempts[l] <= mixed[l] + (IF l \in failed THEN 1 ELSE 0)
  /\ \A l \in Letters : mark[l] = "bare" => mixed[l] >= MaxTries - 1

LEMMA IndexFirst == Index!XInit => IndexInv
BY DEF Index!XInit, IndexInv, Index!Zero

LEMMA IndexStep == ASSUME IndexInv, [Index!XNext]_Index!indexVars PROVE IndexInv'
<1>1. CASE UNCHANGED Index!indexVars
  BY <1>1 DEF Index!indexVars, IndexInv
<1>2. CASE Index!RunBatch
  <2>1. Index!Newest \subseteq Letters
    BY DEF Index!Newest, Index!Unmarked
  <2> QED BY <1>2, <2>1 DEF Index!RunBatch, IndexInv
<1>3. ASSUME NEW l \in Letters, Index!IndexOne(l) PROVE IndexInv'
  <2>0. l \in batch /\ l \notin failed /\ batch' = batch \ {l} /\ mixed' = mixed /\ indexing' = indexing /\ indexing
    BY <1>3 DEF Index!IndexOne, IndexInv
  <2>1. CASE Index!Indexed(l)
    BY <2>0, <2>1 DEF Index!Indexed, IndexInv
  <2>2. CASE Index!FailAttempt(l)
    <3>1. CASE attempts[l] + 1 < MaxTries
      BY <2>0, <2>2, <3>1 DEF Index!FailAttempt, IndexInv
    <3>2. CASE ~(attempts[l] + 1 < MaxTries)
      <4>1. mark' = [mark EXCEPT ![l] = "bare"] /\ attempts' = [attempts EXCEPT ![l] = 0] /\ failed' = failed
        BY <2>2, <3>2 DEF Index!FailAttempt
      <4>2. attempts[l] \in Int /\ mixed[l] \in Int /\ attempts[l] <= mixed[l]
        BY <2>0 DEF IndexInv
      <4>3. mixed[l] >= MaxTries - 1
        BY <3>2, <4>2, ServicesAssumption
      <4> QED BY <2>0, <4>1, <4>3 DEF IndexInv
    <3> QED BY <3>1, <3>2
  <2> QED BY <1>3, <2>1, <2>2 DEF Index!IndexOne
<1>4. CASE Index!EndBatch
  <2>0. mark' = mark /\ batch' = {} /\ failed' = {} /\ mixed' = [l \in Letters |-> IF ok /\ l \in failed THEN mixed[l] + 1 ELSE mixed[l]]
    BY <1>4 DEF Index!EndBatch
  <2>1. mixed' \in [Letters -> Int] /\ \A l \in Letters : mixed'[l] >= mixed[l] /\ (ok /\ l \in failed => mixed'[l] = mixed[l] + 1)
    BY <2>0 DEF IndexInv
  <2>2. attempts' \in [Letters -> Int] /\ \A l \in Letters : attempts'[l] <= mixed'[l]
    <3>1. CASE ~ok /\ failed # {}
      <4>1. attempts' = [l \in Letters |-> 0]
        BY <1>4, <3>1 DEF Index!EndBatch, Index!TriesAfter, Index!Zero
      <4> QED BY <4>1, <2>1 DEF IndexInv
    <3>2. CASE ~(~ok /\ failed # {})
      <4>1. attempts' = attempts
        BY <1>4, <3>2 DEF Index!EndBatch, Index!TriesAfter
      <4> QED BY <4>1, <3>2, <2>1 DEF IndexInv
    <3> QED BY <3>1, <3>2
  <2>3. \A l \in Letters : 0 <= mixed'[l] /\ (mark[l] = "bare" => mixed'[l] >= MaxTries - 1)
    BY <2>1, ServicesAssumption DEF IndexInv
  <2> QED BY <2>0, <2>1, <2>2, <2>3 DEF IndexInv
<1>5. CASE Index!StoreGoes \/ Index!StoreBack
  BY <1>5 DEF Index!StoreGoes, Index!StoreBack, IndexInv
<1>6. CASE Index!Restart
  BY <1>6 DEF Index!Restart, IndexInv, Index!Zero
<1> QED BY <1>1, <1>2, <1>3, <1>4, <1>5, <1>6 DEF Index!XNext

\* Whenever the store goes away and comes back, and the process with it, a sound letter is left without its text only
\* after as many failures beside letters that were read as the code counts.
THEOREM OutageHolds == Spec => []OutageBuriesNone
<1> DEFINE Inv == part = "index" => IndexInv
<1>1. Init => Inv
  BY IndexFirst DEF Init
<1>2. Inv /\ [Next]_vars => Inv'
  BY IndexStep, PartsStep
<1>3. Inv => OutageBuriesNone
  BY DEF IndexInv, OutageBuriesNone, Index!OutageBuriesNone
<1> HIDE DEF Inv
<1> QED BY <1>1, <1>2, <1>3, PTL DEF Spec

-----------------------------------------------------------------------------
(* The sessions.                                                           *)

\* A finite set of numbers has a smallest and a largest one.
LEMMA FirstAndLast ==
  ASSUME NEW S, IsFiniteSet(S), S \subseteq Int, S # {}
  PROVE  /\ \E m \in S : \A t \in S : m <= t
         /\ \E m \in S : \A t \in S : t <= m
<1> DEFINE R == StrictSubsetOrdering(S)
<1>1. IsWellFoundedOn(R, FiniteSubsetsOf(S))
  BY FS_StrictSubsetOrderingWellFounded
<1>2. \A t \in S : t \in Int
  OBVIOUS
<1>3. \E m \in S : \A t \in S : m <= t
  <2> DEFINE Below(s) == {t \in S : t < s}
             T        == {Below(s) : s \in S}
  <2>1. T \subseteq FiniteSubsetsOf(S) /\ T # {}
    <3>1. \A s \in S : Below(s) \in SUBSET S /\ IsFiniteSet(Below(s))
      BY FS_Subset
    <3> QED BY <3>1 DEF FiniteSubsetsOf
  <2>2. PICK A \in T : \A B \in T : ~(<<B, A>> \in R)
    <3> HIDE DEF T, R
    <3> QED BY <1>1, <2>1, WFMin
  <2>3. PICK s \in S : A = Below(s)
    BY <2>2
  <2>4. ASSUME NEW t \in S, ~(s <= t) PROVE FALSE
    <3>1. t < s
      BY <1>2, <2>4
    <3>2. \A u \in S : u < t => u < s
      BY <1>2, <3>1
    <3>3. Below(t) \subseteq Below(s) /\ t \in Below(s) /\ t \notin Below(t)
      <4>1. ~(t < t)
        BY <1>2
      <4> QED BY <3>1, <3>2, <4>1
    <3>4. <<Below(t), Below(s)>> \in R
      BY <3>3 DEF StrictSubsetOrdering
    <3> QED BY <2>2, <2>3, <3>4
  <2> QED BY <2>4
<1>4. \E m \in S : \A t \in S : t <= m
  <2> DEFINE Above(s) == {t \in S : t > s}
             T        == {Above(s) : s \in S}
  <2>1. T \subseteq FiniteSubsetsOf(S) /\ T # {}
    <3>1. \A s \in S : Above(s) \in SUBSET S /\ IsFiniteSet(Above(s))
      BY FS_Subset
    <3> QED BY <3>1 DEF FiniteSubsetsOf
  <2>2. PICK A \in T : \A B \in T : ~(<<B, A>> \in R)
    <3> HIDE DEF T, R
    <3> QED BY <1>1, <2>1, WFMin
  <2>3. PICK s \in S : A = Above(s)
    BY <2>2
  <2>4. ASSUME NEW t \in S, ~(t <= s) PROVE FALSE
    <3>1. t > s
      BY <1>2, <2>4
    <3>2. \A u \in S : u > t => u > s
      BY <1>2, <3>1
    <3>3. Above(t) \subseteq Above(s) /\ t \in Above(s) /\ t \notin Above(t)
      <4>1. ~(t > t)
        BY <1>2
      <4> QED BY <3>1, <3>2, <4>1
    <3>4. <<Above(t), Above(s)>> \in R
      BY <3>3 DEF StrictSubsetOrdering
    <3> QED BY <2>2, <2>3, <3>4
  <2> QED BY <2>4
<1> QED BY <1>3, <1>4

Newer(S, i) == {j \in S : j > i}

LEMMA SessCardinality == \A S : Sess!Cardinality(S) = Cardinality(S)
BY DEF Sess!Cardinality, Cardinality

\* The newest sessions are no more than the cap, and all there are when they are fewer; the others have as many newer ones.
LEMMA NewestAreFew ==
  ASSUME NEW S, IsFiniteSet(S), S \subseteq Int
  PROVE  /\ Sess!Newest(S) \subseteq S /\ IsFiniteSet(Sess!Newest(S))
         /\ Cardinality(Sess!Newest(S)) \in Nat /\ Cardinality(Sess!Newest(S)) <= MaxSessions
         /\ Cardinality(Sess!Newest(S)) < MaxSessions => Sess!Newest(S) = S
         /\ \A i \in S \ Sess!Newest(S) : Cardinality(Newer(S, i)) >= MaxSessions
<1> DEFINE N == Sess!Newest(S)
<1>1. N = {i \in S : Cardinality(Newer(S, i)) < MaxSessions}
  BY SessCardinality DEF Sess!Newest, Newer
<1>2. \A i \in S : IsFiniteSet(Newer(S, i)) /\ Cardinality(Newer(S, i)) \in Nat
  BY FS_Subset, FS_CardinalityType DEF Newer
<1>3. N \subseteq S /\ IsFiniteSet(N) /\ Cardinality(N) \in Nat
  BY <1>1, FS_Subset, FS_CardinalityType
<1>4. MaxSessions \in Nat
  BY ServicesAssumption
<1>5. \A i \in S \ N : Cardinality(Newer(S, i)) >= MaxSessions
  BY <1>1, <1>2, <1>4
<1> HIDE DEF N
<1>6. Cardinality(N) <= MaxSessions
  <2>1. CASE N = {}
    BY <1>4, <2>1, FS_EmptySet
  <2>2. CASE N # {}
    <3>1. PICK m \in N : \A t \in N : m <= t
      BY <1>3, <2>2, FirstAndLast
    <3>2. N \ {m} \subseteq Newer(S, m)
      BY <1>3, <3>1 DEF Newer
    <3>3. Cardinality(Newer(S, m)) < MaxSessions /\ m \in S
      BY <1>1, <3>1
    <3>4. Cardinality(N \ {m}) <= Cardinality(Newer(S, m))
      BY <1>2, <3>2, <3>3, FS_Subset
    <3>5. Cardinality(N \ {m}) = Cardinality(N) - 1
      BY <1>3, <3>1, FS_RemoveElement
    <3> QED BY <1>2, <1>3, <1>4, <3>3, <3>4, <3>5
  <2> QED BY <2>1, <2>2
<1>7. ASSUME Cardinality(N) < MaxSessions, N # S PROVE FALSE
  <2>1. S \ N # {} /\ IsFiniteSet(S \ N) /\ S \ N \subseteq Int
    <3>1. S \ N \in SUBSET S
      OBVIOUS
    <3> QED BY <1>3, <1>7, <3>1, FS_Subset
  <2>2. PICK m \in S \ N : \A t \in S \ N : t <= m
    BY <2>1, FirstAndLast
  <2>3. Newer(S, m) \subseteq N
    <3>1. \A j \in S : j > m => ~(j <= m)
      BY <2>2
    <3> QED BY <2>2, <3>1 DEF Newer
  <2>4. Cardinality(Newer(S, m)) <= Cardinality(N)
    BY <1>3, <2>3, FS_Subset
  <2> QED BY <1>2, <1>3, <1>4, <1>5, <1>7, <2>2, <2>4
<1> QED BY <1>3, <1>5, <1>6, <1>7 DEF N

ALogin == [at : {"off", "find", "drop"}, id : Logins \cup {0}, keep : SUBSET Logins]

\* A session that was made is there, ended, made between the statements of a login, or has as many newer ones as the cap.
Accounted(i) == i \in sessions \cup ended \cup overtaken \/ Cardinality(Newer(made, i)) >= MaxSessions

SessInv ==
  /\ made \subseteq Logins /\ IsFiniteSet(made) /\ sessions \subseteq made
  /\ login \in [Device -> ALogin] /\ cookie \in [Device -> Logins \cup {0}]
  /\ \A i \in made : Accounted(i)
  /\ \A d \in Device : cookie[d] \in made \cup {0} /\ (login[d].at # "off" => login[d].id \in made)
  /\ \A d \in Device : login[d].at = "drop" =>
       /\ IsFiniteSet(login[d].keep) /\ Cardinality(login[d].keep) <= MaxSessions
       /\ \A i \in sessions : i \in login[d].keep \cup overtaken \/ Cardinality(Newer(made, i)) >= MaxSessions
  /\ (\A d \in Device : login[d].at = "off") => Cardinality(sessions) <= MaxSessions

LEMMA SessTrue == SessInv => Sess!CapKept /\ Sess!LoginStays
<1>1. ASSUME SessInv, NEW d \in Device, cookie[d] # 0 PROVE Accounted(cookie[d])
  BY <1>1 DEF SessInv
<1> QED BY <1>1, SessCardinality DEF SessInv, Sess!CapKept, Sess!LoginStays, Accounted, Newer

LEMMA SessFirst == Sess!SInit => SessInv
BY FS_EmptySet, ServicesAssumption DEF Sess!SInit, SessInv, Sess!Off, ALogin

\* Newer sessions only become more.
LEMMA NewerGrow ==
  ASSUME NEW S, NEW T, IsFiniteSet(T), S \subseteq T
  PROVE  \A i : /\ Cardinality(Newer(S, i)) \in Nat /\ Cardinality(Newer(T, i)) \in Nat
                /\ Cardinality(Newer(S, i)) <= Cardinality(Newer(T, i))
<1> SUFFICES ASSUME NEW i
             PROVE  /\ Cardinality(Newer(S, i)) \in Nat /\ Cardinality(Newer(T, i)) \in Nat
                    /\ Cardinality(Newer(S, i)) <= Cardinality(Newer(T, i))
  OBVIOUS
<1>1. Newer(T, i) \subseteq T /\ Newer(S, i) \subseteq Newer(T, i)
  BY DEF Newer
<1>2. IsFiniteSet(Newer(T, i))
  BY <1>1, FS_Subset
<1> QED BY <1>1, <1>2, FS_Subset, FS_CardinalityType

LEMMA SessLogin == ASSUME SessInv, NEW d \in Device, Sess!Login(d) PROVE SessInv'
<1>1. PICK i \in Logins :
        /\ \A j \in Logins : (j < i) = (j \in made)
        /\ made' = made \cup {i} /\ sessions' = sessions \cup {i}
        /\ login' = [login EXCEPT ![d] = [at |-> "find", id |-> i, keep |-> {}]]
        /\ overtaken' = IF \E e \in Device : login[e].at = "drop" THEN overtaken \cup {i} ELSE overtaken
  BY DEF Sess!Login
<1>2. cookie' = cookie /\ ended' = ended
  BY DEF Sess!Login
<1>3. IsFiniteSet(made') /\ made \subseteq made' /\ made' \subseteq Logins /\ sessions' \subseteq made'
  BY <1>1, FS_AddElement DEF SessInv
<1>4. \A j : Cardinality(Newer(made, j)) >= MaxSessions => Cardinality(Newer(made', j)) >= MaxSessions
  <2>1. \A j : /\ Cardinality(Newer(made, j)) \in Nat /\ Cardinality(Newer(made', j)) \in Nat
               /\ Cardinality(Newer(made, j)) <= Cardinality(Newer(made', j))
    BY <1>3, NewerGrow
  <2>2. MaxSessions \in Nat
    BY ServicesAssumption
  <2> QED BY <2>1, <2>2
<1> DEFINE n == [at |-> "find", id |-> i, keep |-> {}]
<1>5. n \in ALogin /\ n.at = "find" /\ n.id = i
  BY DEF ALogin
<1> HIDE DEF n
<1>6. login' \in [Device -> ALogin] /\ login'[d] = n /\ \A e \in Device \ {d} : login'[e] = login[e]
  BY <1>1, <1>5 DEF SessInv, n
<1>7. \A j \in made' : Accounted(j)'
  BY <1>1, <1>2, <1>4 DEF SessInv, Accounted
<1>8. \A e \in Device : cookie'[e] \in made' \cup {0} /\ (login'[e].at # "off" => login'[e].id \in made')
  BY <1>1, <1>2, <1>5, <1>6 DEF SessInv
<1>9. ASSUME NEW e \in Device, login'[e].at = "drop"
      PROVE  /\ IsFiniteSet(login'[e].keep) /\ Cardinality(login'[e].keep) <= MaxSessions
             /\ \A j \in sessions' : j \in login'[e].keep \cup overtaken' \/ Cardinality(Newer(made', j)) >= MaxSessions
  <2>1. e # d /\ login'[e] = login[e]
    BY <1>5, <1>6, <1>9
  <2>2. overtaken' = overtaken \cup {i}
    BY <1>1, <1>9, <2>1
  <2> QED BY <1>1, <1>4, <1>9, <2>1, <2>2 DEF SessInv
<1>10. ~(\A e \in Device : login'[e].at = "off")
  BY <1>5, <1>6
<1>11. cookie' \in [Device -> Logins \cup {0}]
  BY <1>2 DEF SessInv
<1> QED BY <1>3, <1>6, <1>7, <1>8, <1>9, <1>10, <1>11 DEF SessInv

LEMMA SessFindKept == ASSUME SessInv, NEW d \in Device, Sess!FindKept(d) PROVE SessInv'
<1>1. sessions' = sessions /\ made' = made /\ ended' = ended /\ overtaken' = overtaken /\ login[d].at = "find"
  BY DEF Sess!FindKept
<1>2. sessions \subseteq Int /\ IsFiniteSet(sessions)
  <2>1. sessions \subseteq made /\ made \subseteq Logins /\ IsFiniteSet(made)
    BY DEF SessInv
  <2>2. Logins \subseteq Int
    BY ServicesAssumption
  <2> QED BY <2>1, <2>2, FS_Subset
<1> DEFINE N == Sess!Newest(sessions)
<1>3. /\ N \subseteq sessions /\ IsFiniteSet(N)
      /\ Cardinality(N) \in Nat /\ Cardinality(N) <= MaxSessions
      /\ Cardinality(N) < MaxSessions => N = sessions
      /\ \A i \in sessions \ N : Cardinality(Newer(sessions, i)) >= MaxSessions
  BY <1>2, NewestAreFew
<1>4. \A i \in made : Accounted(i)'
  BY <1>1 DEF SessInv, Accounted
<1>5. CASE Cardinality(N) < MaxSessions
  <2>1. cookie' = [cookie EXCEPT ![d] = login[d].id] /\ login' = [login EXCEPT ![d] = Sess!Off]
    BY <1>5, SessCardinality DEF Sess!FindKept, Sess!Kept
  <2>2. Sess!Off \in ALogin /\ (Sess!Off).at = "off"
    BY DEF Sess!Off, ALogin
  <2>3. /\ login' \in [Device -> ALogin] /\ cookie' \in [Device -> Logins \cup {0}]
        /\ \A e \in Device : cookie'[e] \in made \cup {0} /\ (login'[e].at # "off" => login'[e] = login[e])
    <3>1. login[d].id \in made /\ made \subseteq Logins
      BY <1>1 DEF SessInv
    <3>2. login' \in [Device -> ALogin] /\ \A e \in Device : login'[e].at # "off" => login'[e] = login[e]
      BY <2>1, <2>2 DEF SessInv
    <3>3. cookie' \in [Device -> Logins \cup {0}] /\ \A e \in Device : cookie'[e] \in made \cup {0}
      BY <2>1, <3>1 DEF SessInv
    <3> QED BY <3>2, <3>3
  <2>4. Cardinality(sessions) <= MaxSessions
    BY <1>3, <1>5
  <2>5. \A e \in Device : login'[e].at = "drop" => login'[e] = login[e]
    BY <2>3
  <2> QED BY <1>1, <1>4, <2>3, <2>4, <2>5 DEF SessInv
<1>6. CASE ~(Cardinality(N) < MaxSessions)
  <2> DEFINE n == [[login[d] EXCEPT !.at = "drop"] EXCEPT !.keep = N]
  <2>1. cookie' = cookie /\ login' = [login EXCEPT ![d] = n]
    BY <1>6, SessCardinality DEF Sess!FindKept, Sess!Kept, SessInv
  <2>2. n \in ALogin /\ n.at = "drop" /\ n.id = login[d].id /\ n.keep = N
    BY <1>3 DEF SessInv, ALogin
  <2> HIDE DEF n
  <2>3. login' \in [Device -> ALogin] /\ login'[d] = n /\ \A e \in Device \ {d} : login'[e] = login[e]
    BY <2>1, <2>2 DEF SessInv
  <2>4. \A i \in sessions : i \in N \/ Cardinality(Newer(made, i)) >= MaxSessions
    <3>1. \A i : Cardinality(Newer(sessions, i)) \in Nat /\ Cardinality(Newer(made, i)) \in Nat /\ Cardinality(Newer(sessions, i)) <= Cardinality(Newer(made, i))
      BY NewerGrow DEF SessInv
    <3>2. MaxSessions \in Nat
      BY ServicesAssumption
    <3> QED BY <1>3, <3>1, <3>2
  <2>5. \A e \in Device : cookie'[e] \in made \cup {0} /\ (login'[e].at # "off" => login'[e].id \in made)
    BY <1>1, <2>1, <2>2, <2>3 DEF SessInv
  <2>6. ASSUME NEW e \in Device, login'[e].at = "drop"
        PROVE  /\ IsFiniteSet(login'[e].keep) /\ Cardinality(login'[e].keep) <= MaxSessions
               /\ \A j \in sessions : j \in login'[e].keep \cup overtaken \/ Cardinality(Newer(made, j)) >= MaxSessions
    <3>1. CASE e = d
      BY <1>3, <2>2, <2>3, <2>4, <3>1
    <3>2. CASE e # d
      BY <2>3, <2>6, <3>2 DEF SessInv
    <3> QED BY <3>1, <3>2
  <2>7. ~(\A e \in Device : login'[e].at = "off") /\ cookie' \in [Device -> Logins \cup {0}]
    BY <2>1, <2>2, <2>3 DEF SessInv
  <2> QED BY <1>1, <1>4, <2>3, <2>5, <2>6, <2>7 DEF SessInv
<1> QED BY <1>5, <1>6

LEMMA SessDropOthers == ASSUME SessInv, NEW d \in Device, Sess!DropOthers(d) PROVE SessInv'
<1> DEFINE K == login[d].keep
<1>1. /\ made' = made /\ ended' = ended /\ overtaken' = overtaken /\ login[d].at = "drop" /\ sessions' = sessions \cap K
      /\ cookie' = [cookie EXCEPT ![d] = login[d].id] /\ login' = [login EXCEPT ![d] = Sess!Off]
  BY DEF Sess!DropOthers
<1>2. /\ IsFiniteSet(K) /\ Cardinality(K) <= MaxSessions
      /\ \A i \in sessions : i \in K \cup overtaken \/ Cardinality(Newer(made, i)) >= MaxSessions
  BY <1>1 DEF SessInv
<1> HIDE DEF K
<1>3. Sess!Off \in ALogin /\ (Sess!Off).at = "off"
  BY DEF Sess!Off, ALogin
<1>4. /\ login' \in [Device -> ALogin] /\ cookie' \in [Device -> Logins \cup {0}]
      /\ \A e \in Device : cookie'[e] \in made \cup {0} /\ (login'[e].at # "off" => login'[e] = login[e])
  <2>1. login[d].id \in made /\ made \subseteq Logins
    BY <1>1 DEF SessInv
  <2>2. login' \in [Device -> ALogin] /\ \A e \in Device : login'[e].at # "off" => login'[e] = login[e]
    BY <1>1, <1>3 DEF SessInv
  <2>3. cookie' \in [Device -> Logins \cup {0}] /\ \A e \in Device : cookie'[e] \in made \cup {0}
    BY <1>1, <2>1 DEF SessInv
  <2> QED BY <2>2, <2>3
<1>5. \A i \in made : Accounted(i)'
  BY <1>1, <1>2 DEF SessInv, Accounted
<1>6. Cardinality(sessions') <= MaxSessions
  <2>1. sessions' \subseteq K
    BY <1>1
  <2>2. Cardinality(sessions') <= Cardinality(K) /\ Cardinality(sessions') \in Nat /\ Cardinality(K) \in Nat
    BY <1>2, <2>1, FS_Subset, FS_CardinalityType
  <2> QED BY <1>2, <2>2, ServicesAssumption
<1>7. sessions' \subseteq sessions
  BY <1>1
<1>8. \A e \in Device : login'[e].at = "drop" => login'[e] = login[e]
  BY <1>4
<1> QED BY <1>1, <1>4, <1>5, <1>6, <1>7, <1>8 DEF SessInv

LEMMA SessEnd == ASSUME SessInv, NEW S, Sess!End(S) PROVE SessInv'
<1>1. /\ sessions' = sessions \ S /\ ended' = ended \cup (S \cap sessions)
      /\ cookie' = cookie /\ login' = login /\ made' = made /\ overtaken' = overtaken
  BY DEF Sess!End
<1>2. \A i \in made : Accounted(i)'
  BY <1>1 DEF SessInv, Accounted
<1>3. IsFiniteSet(sessions) /\ sessions' \subseteq sessions
  BY <1>1, FS_Subset DEF SessInv
<1>4. Cardinality(sessions') <= Cardinality(sessions) /\ Cardinality(sessions') \in Nat /\ Cardinality(sessions) \in Nat
  BY <1>3, FS_Subset, FS_CardinalityType
<1>5. (\A d \in Device : login[d].at = "off") => Cardinality(sessions') <= MaxSessions
  BY <1>4, ServicesAssumption DEF SessInv
<1> QED BY <1>1, <1>2, <1>3, <1>5 DEF SessInv

LEMMA SessStep == ASSUME SessInv, [Sess!SNext]_Sess!svars PROVE SessInv'
<1>1. CASE UNCHANGED Sess!svars
  BY <1>1 DEF Sess!svars, SessInv, Accounted
<1>2. CASE Sess!Expire
  BY <1>2, SessEnd DEF Sess!Expire
<1>3. ASSUME NEW d \in Device, Sess!Logout(d) \/ Sess!EndOthers(d) \/ \E i \in Logins : Sess!EndOne(d, i) PROVE SessInv'
  BY <1>3, SessEnd DEF Sess!Logout, Sess!EndOthers, Sess!EndOne
<1> QED BY <1>1, <1>2, <1>3, SessLogin, SessFindKept, SessDropOthers DEF Sess!SNext

-----------------------------------------------------------------------------
(* The system folders.                                                     *)

Owned    == Sys!Use \cup {"root"}
Called(u) == IF u = "photo" THEN {"photo"} ELSE {"mail", "second"}
AFolder  == [parent : Nat, name : {"root", "photo", "mail", "second"}, zone : {"files", "photo", "mail"},
             live : BOOLEAN, used : BOOLEAN, own : BOOLEAN]
ANeed    == [use : Sys!Use, at : {"off", "root", "link", "find", "adopt", "make", "set"}, root : Nat, folder : Nat,
             beside : BOOLEAN, empty : BOOLEAN]

\* A folder in a system zone has one of the zone's names.
RowsOK(fs) == fs \in Seq(AFolder) /\ \A i \in 1..Len(fs), u \in Sys!Use : fs[i].zone = u => fs[i].name \in Called(u)
OwnerOK(ow, fs) == ow \in [Owned -> Nat] /\ \A u \in Sys!Use : ow[u] <= Len(fs)
\* The folder that a call is about to take over is a namesake, for mail one found empty; the one it is about to enter is of its zone.
CallOK(n, fs) ==
  /\ n \in ANeed
  /\ n.at \in {"adopt", "set"} => n.folder \in 1..Len(fs)
  /\ n.at = "adopt" => fs[n.folder].name = n.use /\ (n.use = "mail" => n.empty)
  /\ n.at = "set" => fs[n.folder].zone = n.use
NeedOK(nd, fs) == nd \in [Asker -> ANeed] /\ \A c \in Asker : CallOK(nd[c], fs)
\* What is named is living, only what is named is used, and none of the owner's files is in the zone of mail.
TreeOK(fs, ow) ==
  /\ \A u \in Sys!Use : ow[u] # 0 => fs[ow[u]].live /\ fs[ow[u]].zone = u
  /\ \A i \in 1..Len(fs) : fs[i].used => \E u \in Sys!Use : ow[u] = i
  /\ \A i \in 1..Len(fs) : ~(fs[i].own /\ fs[i].zone = "mail")
\* The seeding goes on alone.
SeedOK(sd, fs, ow, nd) ==
  /\ Len(fs) = (IF sd <= 1 THEN 0 ELSE sd - 1) /\ \A u \in Owned : ow[u] = 0
  /\ sd = 3 => fs[2].live /\ fs[2].zone = "photo"
  /\ \A c \in Asker : nd[c].at = "off"

SysInv ==
  /\ seed \in 0..4 /\ RowsOK(folders) /\ OwnerOK(owner, folders) /\ NeedOK(need, folders)
  /\ ~crossed => TreeOK(folders, owner)
  /\ seed < 4 => ~crossed /\ SeedOK(seed, folders, owner, need)

LEMMA SysTrue == SysInv => Sys!OneOfEach /\ Sys!NamedIsLiving /\ Sys!FilesStayInSight
<1> SUFFICES ASSUME SysInv PROVE Sys!OneOfEach /\ Sys!NamedIsLiving /\ Sys!FilesStayInSight
  OBVIOUS
<1>1. CASE crossed
  BY <1>1 DEF Sys!OneOfEach, Sys!NamedIsLiving, Sys!FilesStayInSight
<1>2. CASE ~crossed
  <2>1. TreeOK(folders, owner) /\ OwnerOK(owner, folders)
    BY <1>2 DEF SysInv
  <2>2. ASSUME NEW u \in Sys!Use, NEW i \in Sys!Ids, Sys!Living(i, u), folders[i].used PROVE owner[u] = i
    <3>1. PICK v \in Sys!Use : owner[v] = i
      BY <2>1, <2>2 DEF TreeOK, Sys!Ids
    <3>2. owner[v] # 0
      BY <2>2, <3>1 DEF Sys!Living
    <3> QED BY <2>1, <2>2, <3>1, <3>2 DEF TreeOK, Sys!Living
  <2>3. Sys!OneOfEach
    BY <2>2 DEF Sys!OneOfEach
  <2>4. Sys!NamedIsLiving
    BY <2>1 DEF Sys!NamedIsLiving, Sys!Living, TreeOK
  <2>5. Sys!FilesStayInSight
    BY <2>1 DEF Sys!FilesStayInSight, TreeOK, Sys!Ids
  <2> QED BY <2>3, <2>4, <2>5
<1> QED BY <1>1, <1>2

LEMMA FreeCalls == ASSUME NEW fs PROVE NeedOK(Sys!Free, fs) /\ \A c \in Asker : (Sys!Free)[c].at = "off"
BY DEF NeedOK, CallOK, Sys!Free, ANeed, Sys!Use

LEMMA SysFirst == Sys!FInit => SysInv
<1> SUFFICES ASSUME Sys!FInit PROVE SysInv
  OBVIOUS
<1>1. seed = 0 /\ folders = <<>> /\ owner = [u \in Owned |-> 0] /\ need = Sys!Free /\ crossed = FALSE
  BY DEF Sys!FInit, Owned
<1>2. folders \in Seq(AFolder) /\ Len(folders) = 0
  BY <1>1
<1>3. RowsOK(folders)
  BY <1>2 DEF RowsOK
<1>4. OwnerOK(owner, folders) /\ TreeOK(folders, owner)
  BY <1>1, <1>2 DEF OwnerOK, TreeOK, Owned
<1> QED BY <1>1, <1>2, <1>3, <1>4, FreeCalls DEF SysInv, SeedOK, Owned

\* Another folder.
LEMMA SysAdded ==
  ASSUME SysInv, NEW r \in AFolder, ~r.used, ~r.own, \A u \in Sys!Use : r.zone = u => r.name \in Called(u)
  PROVE  LET fs == Append(folders, r) IN
           /\ RowsOK(fs) /\ OwnerOK(owner, fs) /\ NeedOK(need, fs) /\ (TreeOK(folders, owner) => TreeOK(fs, owner))
           /\ Len(fs) = Len(folders) + 1 /\ fs[Len(folders) + 1] = r /\ Len(folders) \in Nat
           /\ \A i \in 1..Len(folders) : fs[i] = folders[i]
<1> DEFINE fs == Append(folders, r)
           n  == Len(folders)
<1>1. folders \in Seq(AFolder) /\ n \in Nat
  BY DEF SysInv, RowsOK
<1>2. fs \in Seq(AFolder) /\ Len(fs) = n + 1 /\ fs[n + 1] = r /\ \A i \in 1..n : fs[i] = folders[i]
  BY <1>1
<1>3. \A i \in 1..(n + 1) : i \in 1..n \/ i = n + 1
  BY <1>1
<1>4. \A i \in 1..n : i \in 1..(n + 1)
  BY <1>1
<1> HIDE DEF fs
<1>5. RowsOK(fs)
  BY <1>2, <1>3 DEF SysInv, RowsOK
<1>6. OwnerOK(owner, fs)
  <2>1. owner \in [Owned -> Nat] /\ \A u \in Sys!Use : owner[u] <= n
    BY DEF SysInv, OwnerOK
  <2>2. \A u \in Sys!Use : owner[u] \in Nat
    BY <2>1 DEF Owned
  <2>3. \A u \in Sys!Use : owner[u] <= n + 1
    BY <1>1, <2>1, <2>2
  <2> QED BY <1>2, <2>1, <2>3 DEF OwnerOK
<1>7. NeedOK(need, fs)
  BY <1>2, <1>4 DEF SysInv, NeedOK, CallOK
<1>8. ASSUME TreeOK(folders, owner) PROVE TreeOK(fs, owner)
  <2>1. \A u \in Sys!Use : owner[u] # 0 => owner[u] \in 1..n
    BY <1>1 DEF SysInv, OwnerOK, Owned
  <2>2. \A u \in Sys!Use : owner[u] # 0 => fs[owner[u]].live /\ fs[owner[u]].zone = u
    BY <1>2, <1>8, <2>1 DEF TreeOK
  <2>3. \A i \in 1..(n + 1) : fs[i].used => \E u \in Sys!Use : owner[u] = i
    BY <1>2, <1>3, <1>8 DEF TreeOK
  <2>4. \A i \in 1..(n + 1) : ~(fs[i].own /\ fs[i].zone = "mail")
    BY <1>2, <1>3, <1>8 DEF TreeOK
  <2> QED BY <1>2, <2>2, <2>3, <2>4 DEF TreeOK
<1> QED BY <1>1, <1>2, <1>5, <1>6, <1>7, <1>8 DEF fs

\* One call moves on.
LEMMA CallMoves ==
  ASSUME NEW nd, NEW fs, NeedOK(nd, fs), NEW c \in Asker, NEW n, CallOK(n, fs)
  PROVE  NeedOK([nd EXCEPT ![c] = n], fs)
BY DEF NeedOK, CallOK

\* A call that moves on to a step before the choice of its folder.
LEMMA CallEarly ==
  ASSUME NEW fs, NEW n \in ANeed, n.at \notin {"adopt", "set"}
  PROVE  CallOK(n, fs)
BY DEF CallOK

LEMMA SysSeed == ASSUME SysInv, Sys!Seed PROVE SysInv'
<1>1. seed < 4 /\ seed \in 0..3 /\ seed' = seed + 1 /\ need' = need /\ crossed' = crossed /\ ~crossed
  BY DEF Sys!Seed, SysInv
<1>2. SeedOK(seed, folders, owner, need) /\ TreeOK(folders, owner)
  BY <1>1 DEF SysInv
<1>3. CASE seed = 0
  <2>1. folders' = folders /\ owner' = owner
    BY <1>3 DEF Sys!Seed
  <2>2. SeedOK(1, folders, owner, need)
    BY <1>2, <1>3 DEF SeedOK
  <2> QED BY <1>1, <1>2, <1>3, <2>1, <2>2 DEF SysInv
<1>4. ASSUME NEW r \in AFolder, ~r.used, ~r.own, \A u \in Sys!Use : r.zone = u => r.name \in Called(u),
             seed \in {1, 2}, folders' = Append(folders, r), owner' = owner, seed = 2 => r.live /\ r.zone = "photo"
      PROVE  SysInv'
  <2>1. /\ RowsOK(folders') /\ OwnerOK(owner, folders') /\ NeedOK(need, folders') /\ TreeOK(folders', owner)
        /\ Len(folders') = Len(folders) + 1 /\ folders'[Len(folders) + 1] = r
    BY <1>2, <1>4, SysAdded
  <2>2. Len(folders) = seed - 1
    BY <1>2, <1>4 DEF SeedOK
  <2>3. SeedOK(seed + 1, folders', owner, need)
    <3>1. CASE seed = 1
      BY <1>2, <2>1, <2>2, <3>1 DEF SeedOK
    <3>2. CASE seed = 2
      BY <1>2, <1>4, <2>1, <2>2, <3>2 DEF SeedOK
    <3> QED BY <1>4, <3>1, <3>2
  <2>4. seed + 1 \in 0..4
    BY <1>1
  <2> QED BY <1>1, <1>4, <2>1, <2>3, <2>4 DEF SysInv
<1>5. CASE seed = 1
  <2>1. Sys!Row(0, "root", "files") \in AFolder
    BY DEF Sys!Row, AFolder
  <2> QED BY <1>4, <1>5, <2>1 DEF Sys!Seed, Sys!Add, Sys!Row, Sys!Use
<1>6. CASE seed = 2
  <2>1. Sys!Row(1, "photo", "photo") \in AFolder
    BY DEF Sys!Row, AFolder
  <2> QED BY <1>4, <1>6, <2>1 DEF Sys!Seed, Sys!Add, Sys!Row, Sys!Use, Called
<1>7. CASE seed = 3
  <2>1. folders' = folders /\ owner' = [owner EXCEPT !.root = 1, !.photo = 2]
    BY <1>7 DEF Sys!Seed
  <2>2. Len(folders) = 2 /\ folders[2].live /\ folders[2].zone = "photo" /\ \A u \in Owned : owner[u] = 0
    BY <1>2, <1>7 DEF SeedOK
  <2>3. owner \in [Owned -> Nat]
    BY DEF SysInv, OwnerOK
  <2>4. owner' \in [Owned -> Nat] /\ owner'["root"] = 1 /\ owner'["photo"] = 2 /\ owner'["mail"] = 0
    BY <2>1, <2>2, <2>3 DEF Owned, Sys!Use
  <2>5. OwnerOK(owner', folders)
    BY <2>2, <2>4 DEF OwnerOK, Owned, Sys!Use
  <2>6. TreeOK(folders, owner')
    <3>1. \A i \in 1..Len(folders) : ~folders[i].used
      <4>1. \A i \in 1..Len(folders), u \in Sys!Use : owner[u] # i
        BY <2>2 DEF Owned
      <4> QED BY <1>2, <4>1 DEF TreeOK
    <3> QED BY <1>2, <2>2, <2>4, <3>1 DEF TreeOK, Sys!Use
  <2> QED BY <1>1, <1>7, <2>1, <2>5, <2>6 DEF SysInv
<1> QED BY <1>1, <1>3, <1>5, <1>6, <1>7

LEMMA SysEndProcess == ASSUME SysInv, Sys!EndProcess PROVE SysInv'
<1>1. /\ seed' = (IF seed = 0 THEN 0 ELSE 4) /\ need' = Sys!Free /\ folders' = folders /\ owner' = owner
      /\ crossed' = (crossed \/ seed \in 1..3)
  BY DEF Sys!EndProcess
<1>2. NeedOK(need', folders')
  BY <1>1, FreeCalls
<1>3. seed' < 4 => ~crossed' /\ SeedOK(seed', folders', owner', need')
  <2> SUFFICES ASSUME seed' < 4 PROVE ~crossed' /\ SeedOK(seed', folders', owner', need')
    OBVIOUS
  <2>1. seed = 0 /\ seed' = 0
    BY <1>1
  <2>2. ~crossed /\ SeedOK(seed, folders, owner, need)
    BY <2>1 DEF SysInv
  <2>3. SeedOK(0, folders, owner, Sys!Free)
    BY <2>1, <2>2, FreeCalls DEF SeedOK
  <2>4. ~(0 \in 1..3)
    OBVIOUS
  <2>5. ~crossed'
    BY <1>1, <2>1, <2>2, <2>4
  <2> QED BY <1>1, <2>1, <2>3, <2>5
<1>4. ~crossed' => TreeOK(folders', owner')
  BY <1>1 DEF SysInv
<1> QED BY <1>1, <1>2, <1>3, <1>4 DEF SysInv

\* What a step may do to the folders once requests are served: what is asked of it is asked only without a crossing.
LEMMA SysServed ==
  ASSUME SysInv, seed = 4, seed' = 4, RowsOK(folders'), OwnerOK(owner', folders'), NeedOK(need', folders'),
         crossed => crossed', ~crossed' => TreeOK(folders', owner')
  PROVE  SysInv'
BY DEF SysInv

\* Before requests are served nobody calls.
LEMMA Served == ASSUME SysInv, NEW c \in Asker, need[c].at # "off" PROVE seed = 4
BY DEF SysInv, SeedOK

LEMMA SysBegin == ASSUME SysInv, NEW c \in Asker, NEW u \in Sys!Use, Sys!Begin(c, u) PROVE SysInv'
<1> DEFINE n == [[(Sys!Free)[c] EXCEPT !.use = u] EXCEPT !.at = "root"]
<1>1. n \in ANeed /\ n.at = "root"
  BY DEF Sys!Free, ANeed, Sys!Use
<1>2. need' = [need EXCEPT ![c] = n] /\ folders' = folders /\ owner' = owner /\ crossed' = crossed /\ seed' = seed /\ seed = 4
  BY DEF Sys!Begin, Sys!Free
<1> HIDE DEF n
<1>3. NeedOK(need', folders')
  BY <1>1, <1>2, CallMoves, CallEarly DEF SysInv
<1> QED BY <1>2, <1>3, SysServed DEF SysInv

LEMMA SysRoot == ASSUME SysInv, NEW c \in Asker, Sys!Root(c) PROVE SysInv'
<1>0. seed = 4 /\ seed' = 4 /\ owner' = owner /\ crossed' = crossed /\ need[c] \in ANeed
  BY Served DEF Sys!Root, SysInv, NeedOK
<1>1. CASE owner.root # 0
  <2> DEFINE n == [[need[c] EXCEPT !.at = "find"] EXCEPT !.root = owner.root]
  <2>1. need' = [need EXCEPT ![c] = n] /\ folders' = folders
    BY <1>1 DEF Sys!Root, SysInv, NeedOK
  <2>2. n \in ANeed /\ n.at = "find"
    BY <1>0 DEF ANeed, SysInv, OwnerOK, Owned
  <2> HIDE DEF n
  <2>3. NeedOK(need', folders')
    BY <2>1, <2>2, CallMoves, CallEarly DEF SysInv
  <2> QED BY <1>0, <2>1, <2>3, SysServed DEF SysInv
<1>2. CASE ~(owner.root # 0)
  <2> DEFINE r == Sys!Row(0, "root", "files")
             n == [[need[c] EXCEPT !.at = "link"] EXCEPT !.root = Sys!New]
  <2>1. need' = [need EXCEPT ![c] = n] /\ folders' = Append(folders, r)
    BY <1>2 DEF Sys!Root, Sys!Add, SysInv, NeedOK
  <2>2. r \in AFolder /\ ~r.used /\ ~r.own /\ \A u \in Sys!Use : r.zone = u => r.name \in Called(u)
    BY DEF Sys!Row, AFolder, Sys!Use
  <2> HIDE DEF r
  <2>3. /\ RowsOK(folders') /\ OwnerOK(owner, folders') /\ NeedOK(need, folders') /\ (TreeOK(folders, owner) => TreeOK(folders', owner))
        /\ Len(folders) \in Nat
    BY <2>1, <2>2, SysAdded
  <2>4. n \in ANeed /\ n.at = "link"
    <3>1. Sys!New \in Nat
      BY <2>3 DEF Sys!New
    <3> QED BY <1>0, <3>1 DEF ANeed
  <2> HIDE DEF n
  <2>5. NeedOK(need', folders')
    BY <2>1, <2>3, <2>4, CallMoves, CallEarly
  <2> QED BY <1>0, <2>3, <2>5, SysServed DEF SysInv
<1> QED BY <1>1, <1>2

LEMMA SysLinkRoot == ASSUME SysInv, NEW c \in Asker, Sys!LinkRoot(c) PROVE SysInv'
<1>0. seed = 4 /\ seed' = 4 /\ folders' = folders /\ crossed' = (crossed \/ owner.root # 0) /\ need[c] \in ANeed
  BY Served DEF Sys!LinkRoot, SysInv, NeedOK
<1> DEFINE n == [need[c] EXCEPT !.at = "find"]
<1>1. need' = [need EXCEPT ![c] = n] /\ owner' = [owner EXCEPT !.root = need[c].root]
  BY DEF Sys!LinkRoot, Sys!Step
<1>2. n \in ANeed /\ n.at = "find"
  BY <1>0 DEF ANeed
<1> HIDE DEF n
<1>3. NeedOK(need', folders')
  BY <1>0, <1>1, <1>2, CallMoves, CallEarly DEF SysInv
<1>4. need[c].root \in Nat /\ "root" \notin Sys!Use /\ "root" \in Owned /\ Sys!Use \subseteq Owned
  BY <1>0 DEF ANeed, Sys!Use, Owned
<1>5. owner' \in [Owned -> Nat] /\ \A u \in Sys!Use : owner'[u] = owner[u]
  BY <1>1, <1>4 DEF SysInv, OwnerOK
<1>6. OwnerOK(owner', folders')
  BY <1>0, <1>5 DEF SysInv, OwnerOK
<1>7. TreeOK(folders, owner) => TreeOK(folders', owner')
  BY <1>0, <1>5 DEF TreeOK
<1> QED BY <1>0, <1>3, <1>6, <1>7, SysServed DEF SysInv

LEMMA SysFind == ASSUME SysInv, NEW c \in Asker, Sys!Find(c) PROVE SysInv'
<1>0. /\ seed = 4 /\ seed' = 4 /\ folders' = folders /\ owner' = owner /\ crossed' = crossed
      /\ need[c] \in ANeed
  <2>1. need[c].at = "find" /\ seed' = seed /\ folders' = folders /\ owner' = owner /\ crossed' = crossed
    BY Zenon DEF Sys!Find
  <2>2. seed = 4
    BY <2>1, Served
  <2>3. need[c] \in ANeed
    BY DEF SysInv, NeedOK
  <2> QED BY <2>1, <2>2, <2>3
<1>1. \E n \in ANeed : CallOK(n, folders) /\ need' = [need EXCEPT ![c] = n]
  <2>1. ASSUME NEW i \in Sys!Ids, folders[i].name = need[c].use, Sys!TakesEmpty(need[c].use, i),
               need' = [need EXCEPT ![c].at = "adopt", ![c].folder = i, ![c].empty = Sys!Empty(i)]
        PROVE  \E n \in ANeed : CallOK(n, folders) /\ need' = [need EXCEPT ![c] = n]
    <3> DEFINE n == [[[need[c] EXCEPT !.at = "adopt"] EXCEPT !.folder = i] EXCEPT !.empty = Sys!Empty(i)]
    <3>1. Sys!Empty(i) \in BOOLEAN /\ i \in 1..Len(folders) /\ i \in Nat
      BY DEF Sys!Empty, Sys!Ids
    <3>2. n \in ANeed /\ n.at = "adopt" /\ n.folder = i /\ n.empty = Sys!Empty(i) /\ n.use = need[c].use
      BY <1>0, <3>1 DEF ANeed
    <3>3. need' = [need EXCEPT ![c] = n]
      BY <2>1 DEF SysInv, NeedOK
    <3>4. CallOK(n, folders)
      BY <2>1, <3>1, <3>2 DEF CallOK, Sys!TakesEmpty
    <3> QED BY <3>2, <3>3, <3>4
  <2>2. ASSUME NEW b \in BOOLEAN, need' = [need EXCEPT ![c].at = "make", ![c].beside = b]
        PROVE  \E n \in ANeed : CallOK(n, folders) /\ need' = [need EXCEPT ![c] = n]
    <3> DEFINE n == [[need[c] EXCEPT !.at = "make"] EXCEPT !.beside = b]
    <3>1. n \in ANeed /\ n.at = "make"
      BY <1>0 DEF ANeed
    <3>2. need' = [need EXCEPT ![c] = n]
      BY <2>2 DEF SysInv, NeedOK
    <3> QED BY <3>1, <3>2, CallEarly
  <2>3. \/ \E i \in Sys!Ids : /\ folders[i].name = need[c].use /\ Sys!TakesEmpty(need[c].use, i)
                              /\ need' = [need EXCEPT ![c].at = "adopt", ![c].folder = i, ![c].empty = Sys!Empty(i)]
        \/ \E b \in BOOLEAN : need' = [need EXCEPT ![c].at = "make", ![c].beside = b]
    <3>1. \A S : (S # {}) \in BOOLEAN
      OBVIOUS
    <3> QED BY <3>1, Zenon DEF Sys!Find
  <2> QED BY <2>1, <2>2, <2>3, Zenon
<1>2. NeedOK(need', folders')
  <2>1. PICK n \in ANeed : CallOK(n, folders) /\ need' = [need EXCEPT ![c] = n]
    BY <1>1
  <2>2. NeedOK(need, folders)
    BY DEF SysInv
  <2>3. NeedOK([need EXCEPT ![c] = n], folders)
    BY <2>1, <2>2, CallMoves
  <2> QED BY <1>0, <2>1, <2>3
<1> QED BY <1>0, <1>2, SysServed DEF SysInv

LEMMA SysAdopt == ASSUME SysInv, NEW c \in Asker, Sys!Adopt(c) PROVE SysInv'
<1> DEFINE k == need[c]
           i == k.folder
           r == [[folders[i] EXCEPT !.zone = k.use] EXCEPT !.live = TRUE]
           n == [k EXCEPT !.at = "set"]
<1>0. /\ seed = 4 /\ seed' = 4 /\ owner' = owner /\ crossed' = (crossed \/ (k.empty /\ folders[i].own))
      /\ k \in ANeed /\ CallOK(k, folders) /\ k.at = "adopt" /\ k.use \in Sys!Use
  BY Served DEF Sys!Adopt, SysInv, NeedOK, ANeed
<1>1. i \in 1..Len(folders) /\ folders[i].name = k.use /\ (k.use = "mail" => k.empty)
  BY <1>0 DEF CallOK
<1>2. folders \in Seq(AFolder) /\ folders[i] \in AFolder /\ Len(folders) \in Nat
  BY <1>1 DEF SysInv, RowsOK
<1>3. r \in AFolder /\ r.zone = k.use /\ r.live /\ r.name = folders[i].name /\ r.used = folders[i].used /\ r.own = folders[i].own
  BY <1>0, <1>2 DEF AFolder, Sys!Use
<1>4. need' = [need EXCEPT ![c] = n] /\ folders' = [folders EXCEPT ![i] = r]
  <2>1. need' = [need EXCEPT ![c] = n]
    BY DEF Sys!Adopt, Sys!Step
  <2>2. folders' = [folders EXCEPT ![i] = r]
    BY <1>1, <1>2 DEF Sys!Adopt
  <2> QED BY <2>1, <2>2
<1> HIDE DEF r
<1>5. /\ folders' \in Seq(AFolder) /\ Len(folders') = Len(folders) /\ folders'[i] = r
      /\ \A j \in 1..Len(folders) : j # i => folders'[j] = folders[j]
  BY <1>1, <1>2, <1>3, <1>4
<1>6. \A u \in Sys!Use : u # k.use => k.use \notin Called(u)
  BY <1>0 DEF Sys!Use, Called
<1>7. \A u \in Sys!Use : folders[i].zone = u => u = k.use
  BY <1>1, <1>6 DEF SysInv, RowsOK
<1>8. k.use \in Called(k.use)
  BY <1>0 DEF Sys!Use, Called
<1>9. RowsOK(folders')
  BY <1>1, <1>3, <1>5, <1>8 DEF RowsOK, SysInv
<1>10. n \in ANeed /\ n.at = "set" /\ n.folder = i /\ n.use = k.use
  BY <1>0 DEF ANeed
<1> HIDE DEF n
<1>11. CallOK(n, folders')
  BY <1>1, <1>3, <1>5, <1>10 DEF CallOK
<1>12. NeedOK(need, folders')
  <2>1. ASSUME NEW d \in Asker PROVE CallOK(need[d], folders')
    <3>1. CallOK(need[d], folders) /\ need[d] \in ANeed
      BY DEF SysInv, NeedOK
    <3>2. CASE need[d].at = "adopt"
      BY <1>3, <1>5, <3>1, <3>2 DEF CallOK
    <3>3. CASE need[d].at = "set"
      <4>1. need[d].folder \in 1..Len(folders) /\ folders[need[d].folder].zone = need[d].use /\ need[d].use \in Sys!Use
        BY <3>1, <3>3 DEF CallOK, ANeed
      <4>2. folders'[need[d].folder].zone = need[d].use
        BY <1>3, <1>5, <1>7, <4>1
      <4> QED BY <1>5, <3>1, <3>3, <4>1, <4>2 DEF CallOK
    <3>4. CASE need[d].at \notin {"adopt", "set"}
      BY <3>1, <3>4, CallEarly
    <3> QED BY <3>2, <3>3, <3>4
  <2> QED BY <2>1 DEF SysInv, NeedOK
<1>13. NeedOK(need', folders')
  BY <1>4, <1>11, <1>12, CallMoves
<1>14. OwnerOK(owner', folders')
  BY <1>0, <1>5 DEF SysInv, OwnerOK
<1>15. ~crossed' => TreeOK(folders', owner')
  <2> SUFFICES ASSUME ~crossed' PROVE TreeOK(folders', owner')
    OBVIOUS
  <2>1. ~crossed /\ ~(k.empty /\ folders[i].own) /\ TreeOK(folders, owner)
    BY <1>0 DEF SysInv
  <2>2. ASSUME NEW u \in Sys!Use, owner[u] # 0 PROVE folders'[owner[u]].live /\ folders'[owner[u]].zone = u
    <3>1. owner[u] \in 1..Len(folders)
      BY <1>2, <2>2 DEF SysInv, OwnerOK, Owned
    <3>2. folders[owner[u]].live /\ folders[owner[u]].zone = u
      BY <2>1, <2>2 DEF TreeOK
    <3>3. CASE owner[u] = i
      BY <1>3, <1>5, <1>7, <3>2, <3>3
    <3>4. CASE owner[u] # i
      BY <1>5, <3>1, <3>2, <3>4
    <3> QED BY <3>3, <3>4
  <2>3. \A j \in 1..Len(folders) : folders'[j].used = folders[j].used
    BY <1>3, <1>5
  <2>4. ASSUME NEW j \in 1..Len(folders) PROVE ~(folders'[j].own /\ folders'[j].zone = "mail")
    <3>1. CASE j = i
      BY <1>1, <1>3, <1>5, <2>1, <3>1
    <3>2. CASE j # i
      BY <1>5, <2>1, <3>2 DEF TreeOK
    <3> QED BY <3>1, <3>2
  <2> QED BY <1>0, <1>5, <2>1, <2>2, <2>3, <2>4 DEF TreeOK
<1> QED BY <1>0, <1>9, <1>13, <1>14, <1>15, SysServed

LEMMA SysMake == ASSUME SysInv, NEW c \in Asker, Sys!Make(c) PROVE SysInv'
<1> DEFINE k == need[c]
<1>0. seed = 4 /\ seed' = 4 /\ owner' = owner /\ crossed' = crossed /\ k \in ANeed /\ k.use \in Sys!Use
  BY Served DEF Sys!Make, SysInv, NeedOK, ANeed
<1>1. CASE need' = [need EXCEPT ![c] = (Sys!Free)[c]] /\ folders' = folders
  <2>1. CallOK((Sys!Free)[c], folders)
    BY FreeCalls DEF NeedOK
  <2>2. NeedOK(need', folders')
    BY <1>1, <2>1, CallMoves DEF SysInv
  <2> QED BY <1>0, <1>1, <2>2, SysServed DEF SysInv
<1>2. ASSUME NEW name \in {k.use, "second"}, name = "second" => k.use = "mail", Sys!Add(k.root, name, k.use),
             need' = [need EXCEPT ![c].at = "set", ![c].folder = Sys!New]
      PROVE  SysInv'
  <2> DEFINE r == Sys!Row(k.root, name, k.use)
             n == [[k EXCEPT !.at = "set"] EXCEPT !.folder = Sys!New]
  <2>1. need' = [need EXCEPT ![c] = n] /\ folders' = Append(folders, r)
    BY <1>2 DEF Sys!Add, SysInv, NeedOK
  <2>2. name \in Called(k.use) /\ name \in {"photo", "mail", "second"} /\ k.use \in {"photo", "mail"} /\ k.root \in Nat
    BY <1>0, <1>2 DEF Called, Sys!Use, ANeed
  <2>3. r \in AFolder /\ ~r.used /\ ~r.own /\ r.zone = k.use /\ \A u \in Sys!Use : r.zone = u => r.name \in Called(u)
    BY <2>2 DEF Sys!Row, AFolder
  <2> HIDE DEF r
  <2>4. /\ RowsOK(folders') /\ OwnerOK(owner, folders') /\ NeedOK(need, folders') /\ (TreeOK(folders, owner) => TreeOK(folders', owner))
        /\ Len(folders) \in Nat /\ Len(folders') = Len(folders) + 1 /\ folders'[Len(folders) + 1] = r
    BY <2>1, <2>3, SysAdded
  <2>5. Sys!New \in Nat /\ Sys!New = Len(folders) + 1 /\ Sys!New \in 1..Len(folders')
    BY <2>4 DEF Sys!New
  <2>6. n \in ANeed /\ n.at = "set" /\ n.folder = Sys!New /\ n.use = k.use
    BY <1>0, <2>5 DEF ANeed
  <2> HIDE DEF n
  <2>7. CallOK(n, folders')
    BY <2>3, <2>4, <2>5, <2>6 DEF CallOK
  <2>8. NeedOK(need', folders')
    BY <2>1, <2>4, <2>7, CallMoves
  <2> QED BY <1>0, <2>4, <2>8, SysServed DEF SysInv
<1>3. PICK name \in {k.use, "second"} :
        /\ IF name = "second" THEN k.use = "mail" /\ Sys!Taken(k.root, "mail") ELSE ~k.beside
        /\ IF Sys!Taken(k.root, name) THEN need' = [need EXCEPT ![c] = (Sys!Free)[c]] /\ folders' = folders
           ELSE Sys!Add(k.root, name, k.use) /\ need' = [need EXCEPT ![c].at = "set", ![c].folder = Sys!New]
  BY DEF Sys!Make
<1> QED BY <1>1, <1>2, <1>3

LEMMA SysSet == ASSUME SysInv, NEW c \in Asker, Sys!Set(c) PROVE SysInv'
<1> DEFINE k == need[c]
           i == k.folder
           r == [folders[i] EXCEPT !.used = TRUE]
<1>0. /\ seed = 4 /\ seed' = 4 /\ k \in ANeed /\ CallOK(k, folders) /\ k.at = "set" /\ k.use \in Sys!Use
      /\ crossed' = (crossed \/ ~folders[i].live \/ (Sys!Living(owner[k.use], k.use) /\ owner[k.use] # i))
      /\ owner' = [owner EXCEPT ![k.use] = i]
  BY Served DEF Sys!Set, SysInv, NeedOK, ANeed
<1>1. i \in 1..Len(folders) /\ folders[i].zone = k.use
  BY <1>0 DEF CallOK
<1>2. folders \in Seq(AFolder) /\ folders[i] \in AFolder /\ Len(folders) \in Nat
  BY <1>1 DEF SysInv, RowsOK
<1>3. r \in AFolder /\ r.zone = k.use /\ r.live = folders[i].live /\ r.name = folders[i].name /\ r.used /\ r.own = folders[i].own
  BY <1>1, <1>2 DEF AFolder
<1>4. need' = [need EXCEPT ![c] = (Sys!Free)[c]] /\ folders' = [folders EXCEPT ![i] = r]
  BY <1>1, <1>2 DEF Sys!Set
<1> HIDE DEF r
<1>5. /\ folders' \in Seq(AFolder) /\ Len(folders') = Len(folders) /\ folders'[i] = r
      /\ \A j \in 1..Len(folders) : j # i => folders'[j] = folders[j]
  BY <1>1, <1>2, <1>3, <1>4
<1>6. \A j \in 1..Len(folders) : /\ folders'[j].zone = folders[j].zone /\ folders'[j].name = folders[j].name
                                 /\ folders'[j].own = folders[j].own /\ folders'[j].live = folders[j].live
  BY <1>1, <1>3, <1>5
<1>7. RowsOK(folders')
  BY <1>5, <1>6 DEF SysInv, RowsOK
<1>8. NeedOK(need', folders')
  <2>1. NeedOK(need, folders')
    BY <1>5, <1>6 DEF SysInv, NeedOK, CallOK
  <2>2. CallOK((Sys!Free)[c], folders')
    BY FreeCalls DEF NeedOK
  <2> QED BY <1>4, <2>1, <2>2, CallMoves
<1>9. owner' \in [Owned -> Nat] /\ owner'[k.use] = i /\ \A u \in Owned : u # k.use => owner'[u] = owner[u]
  BY <1>0, <1>1 DEF SysInv, OwnerOK, Owned
<1>10. OwnerOK(owner', folders')
  BY <1>1, <1>2, <1>5, <1>9 DEF SysInv, OwnerOK, Owned
<1>11. ~crossed' => TreeOK(folders', owner')
  <2> SUFFICES ASSUME ~crossed' PROVE TreeOK(folders', owner')
    OBVIOUS
  <2>1. /\ ~crossed /\ folders[i].live /\ (Sys!Living(owner[k.use], k.use) => owner[k.use] = i) /\ TreeOK(folders, owner)
    BY <1>0 DEF SysInv
  <2>2. owner[k.use] \in {0, i}
    BY <1>0, <2>1 DEF TreeOK, Sys!Living
  <2>3. ASSUME NEW u \in Sys!Use, owner'[u] # 0 PROVE folders'[owner'[u]].live /\ folders'[owner'[u]].zone = u
    <3>1. CASE u = k.use
      BY <1>1, <1>6, <1>9, <2>1, <3>1
    <3>2. CASE u # k.use
      <4>1. owner'[u] = owner[u] /\ owner[u] \in 1..Len(folders)
        BY <1>2, <1>9, <2>3, <3>2 DEF SysInv, OwnerOK, Owned
      <4> QED BY <1>6, <2>1, <2>3, <4>1 DEF TreeOK
    <3> QED BY <3>1, <3>2
  <2>4. ASSUME NEW j \in 1..Len(folders), folders'[j].used PROVE \E u \in Sys!Use : owner'[u] = j
    <3>1. CASE j = i
      BY <1>0, <1>9, <3>1
    <3>2. CASE j # i
      <4>1. PICK u \in Sys!Use : owner[u] = j
        BY <1>5, <2>1, <2>4, <3>2 DEF TreeOK
      <4>2. j # 0
        OBVIOUS
      <4>3. u # k.use /\ u \in Owned
        BY <2>2, <3>2, <4>1, <4>2 DEF Owned
      <4> QED BY <1>9, <4>1, <4>3
    <3> QED BY <3>1, <3>2
  <2>5. \A j \in 1..Len(folders) : ~(folders'[j].own /\ folders'[j].zone = "mail")
    BY <1>6, <2>1 DEF TreeOK
  <2> QED BY <1>5, <2>3, <2>4, <2>5 DEF TreeOK
<1> QED BY <1>0, <1>7, <1>8, <1>10, <1>11, SysServed

LEMMA SysOwnFolder == ASSUME SysInv, NEW u \in Sys!Use, Sys!OwnFolder(u) PROVE SysInv'
<1> DEFINE r == Sys!Row(owner.root, u, "files")
<1>1. seed = 4 /\ seed' = 4 /\ owner' = owner /\ crossed' = crossed /\ need' = need /\ folders' = Append(folders, r)
  BY DEF Sys!OwnFolder, Sys!Add
<1>2. owner.root \in Nat
  BY DEF SysInv, OwnerOK, Owned
<1>3. r \in AFolder /\ ~r.used /\ ~r.own /\ \A v \in Sys!Use : r.zone = v => r.name \in Called(v)
  BY <1>2 DEF Sys!Row, AFolder, Sys!Use
<1> HIDE DEF r
<1>4. RowsOK(folders') /\ OwnerOK(owner, folders') /\ NeedOK(need, folders') /\ (TreeOK(folders, owner) => TreeOK(folders', owner))
  BY <1>1, <1>3, SysAdded
<1> QED BY <1>1, <1>4, SysServed DEF SysInv

\* A folder whose place and name stay.
LEMMA SysChanged ==
  ASSUME SysInv, seed = 4, seed' = 4, owner' = owner, crossed' = crossed, need' = need,
         NEW i \in 1..Len(folders), NEW r \in AFolder, folders' = [folders EXCEPT ![i] = r],
         r.zone = folders[i].zone, r.name = folders[i].name,
         r.live = folders[i].live \/ \A u \in Sys!Use : owner[u] # i, r.used => folders[i].used,
         r.own => folders[i].own \/ folders[i].zone = "files"
  PROVE  SysInv'
<1>1. folders \in Seq(AFolder) /\ folders[i] \in AFolder /\ Len(folders) \in Nat
  BY DEF SysInv, RowsOK
<1>2. /\ folders' \in Seq(AFolder) /\ Len(folders') = Len(folders) /\ folders'[i] = r
      /\ \A j \in 1..Len(folders) : j # i => folders'[j] = folders[j]
  BY <1>1
<1>3. \A j \in 1..Len(folders) : folders'[j].zone = folders[j].zone /\ folders'[j].name = folders[j].name
  BY <1>2
<1>4. RowsOK(folders')
  BY <1>2, <1>3 DEF SysInv, RowsOK
<1>5. NeedOK(need', folders')
  BY <1>2, <1>3 DEF SysInv, NeedOK, CallOK
<1>6. OwnerOK(owner', folders')
  BY <1>2 DEF SysInv, OwnerOK
<1>7. ~crossed' => TreeOK(folders', owner')
  <2> SUFFICES ASSUME ~crossed' PROVE TreeOK(folders', owner')
    OBVIOUS
  <2>1. TreeOK(folders, owner)
    BY DEF SysInv
  <2>2. ASSUME NEW u \in Sys!Use, owner[u] # 0 PROVE folders'[owner[u]].live /\ folders'[owner[u]].zone = u
    <3>1. owner[u] \in 1..Len(folders) /\ folders[owner[u]].live /\ folders[owner[u]].zone = u
      BY <1>1, <2>1, <2>2 DEF SysInv, OwnerOK, Owned, TreeOK
    <3> QED BY <1>2, <1>3, <3>1
  <2>3. \A j \in 1..Len(folders) : folders'[j].used => folders[j].used
    BY <1>2
  <2>4. \A j \in 1..Len(folders) : ~(folders'[j].own /\ folders'[j].zone = "mail")
    <3>1. ~(r.own /\ r.zone = "mail")
      BY <2>1 DEF TreeOK
    <3> QED BY <1>2, <2>1, <3>1 DEF TreeOK
  <2> QED BY <1>2, <2>1, <2>2, <2>3, <2>4 DEF TreeOK
<1> QED BY <1>4, <1>5, <1>6, <1>7, SysServed

LEMMA SysOwnFile == ASSUME SysInv, NEW i \in Sys!Ids, Sys!OwnFile(i) PROVE SysInv'
<1> DEFINE r == [folders[i] EXCEPT !.own = TRUE]
<1>1. i \in 1..Len(folders) /\ folders[i] \in AFolder
  BY DEF Sys!Ids, SysInv, RowsOK
<1>2. /\ r \in AFolder /\ r.zone = folders[i].zone /\ r.name = folders[i].name /\ r.live = folders[i].live
      /\ r.used = folders[i].used
  BY <1>1 DEF AFolder
<1>3. folders' = [folders EXCEPT ![i] = r] /\ folders[i].zone = "files" /\ seed = 4
      /\ seed' = 4 /\ owner' = owner /\ crossed' = crossed /\ need' = need
  BY <1>1 DEF Sys!OwnFile
<1> QED BY <1>1, <1>2, <1>3, SysChanged

LEMMA SysDelete == ASSUME SysInv, NEW i \in Sys!Ids, Sys!Delete(i) PROVE SysInv'
<1> DEFINE r == [[[folders[i] EXCEPT !.live = FALSE] EXCEPT !.used = FALSE] EXCEPT !.own = FALSE]
<1>1. i \in 1..Len(folders) /\ folders[i] \in AFolder /\ folders \in Seq(AFolder)
  BY DEF Sys!Ids, SysInv, RowsOK
<1>2. r \in AFolder /\ r.zone = folders[i].zone /\ r.name = folders[i].name /\ ~r.used /\ ~r.own
  BY <1>1 DEF AFolder
<1>3. folders' = [folders EXCEPT ![i] = r]
  BY <1>1 DEF Sys!Delete
<1>4. seed = 4 /\ seed' = 4 /\ owner' = owner /\ crossed' = crossed /\ need' = need /\ Sys!Deletable(i)
  BY DEF Sys!Delete
<1>5. \A u \in Sys!Use : owner[u] # i
  BY <1>4 DEF Sys!Deletable, SysInv, OwnerOK, Owned
<1> HIDE DEF r
<1> QED BY <1>1, <1>2, <1>3, <1>4, <1>5, SysChanged

LEMMA SysStep == ASSUME SysInv, [Sys!FNext]_Sys!fvars PROVE SysInv'
<1>1. CASE UNCHANGED Sys!fvars
  BY <1>1 DEF Sys!fvars, SysInv
<1> QED BY <1>1, SysSeed, SysEndProcess, SysBegin, SysRoot, SysLinkRoot, SysFind, SysAdopt, SysMake, SysSet, SysOwnFolder,
           SysOwnFile, SysDelete DEF Sys!FNext

\* The sessions stay within the cap and a login's cookie stays good; the system folders are there once, living and seen.
THEOREM AccountHolds == Spec => []AccountSound
<1> DEFINE Inv == (part = "sessions" => SessInv) /\ (part = "folders" => SysInv)
<1>1. Init => Inv
  BY SessFirst, SysFirst DEF Init
<1>2. Inv /\ [Next]_vars => Inv'
  BY SessStep, SysStep, PartsStep
<1>3. Inv => AccountSound
  BY SessTrue, SysTrue DEF AccountSound
<1> HIDE DEF Inv
<1> QED BY <1>1, <1>2, <1>3, PTL DEF Spec

-----------------------------------------------------------------------------
(* The sweeps of the bucket.                                               *)

Object(o) == o \in [kind : {o.kind}, sha : {o.sha}, old : {o.old}]
Original(b, s) == \E o \in b : o.kind = "files" /\ o.sha = s
Needed(s) == s \in row \/ upload[s] = "placed"

BucketInv ==
  /\ row \subseteq Sha /\ upload \in [Sha -> {"none", "placed", "rowed"}]
  /\ zones \in [Sha -> SUBSET {"photos", "files"}]
  /\ sweep = [pc |-> sweep.pc, known |-> sweep.known, list |-> sweep.list]
  /\ \A o \in bucket : Object(o)
  \* What has a row or will have one has its original, unless the sweep was overtaken there.
  /\ \A s \in Sha : Needed(s) => s \in raced \/ Original(bucket, s)
  \* What the sweep is about to delete is old, and at the last look it had no row.
  /\ sweep.pc \in {"recheck", "delete"} => \A o \in sweep.list : o.old
  /\ sweep.pc = "delete" => \A o \in sweep.list : o.kind = "files" /\ o.sha \in row => o.sha \in raced
  \* What is in the tree has a row; what the purge took had one.
  /\ \A s \in Sha : upload[s] = "rowed" \/ zones[s] # {} => s \in row
  /\ purged \subseteq row \cup collected
  \* What is seen outside the photos is known of, and not among what the purge forgets.
  /\ \A s \in Sha \ zoned : "files" \in zones[s] => s \in meta /\ s \notin purge.only

LEMMA BucketTrue == BucketInv => Sweeps!SweepSparesRows /\ Sweeps!PurgeSparesOthers
<1> SUFFICES ASSUME BucketInv PROVE Sweeps!SweepSparesRows /\ Sweeps!PurgeSparesOthers
  OBVIOUS
<1>1. \A s \in row \ raced : \E o \in Sweeps!Originals : o.sha = s
  BY DEF BucketInv, Needed, Original, Sweeps!Originals
<1>2. \A s \in purged \ (collected \cup raced) : s \in row \ raced
  BY DEF BucketInv
<1>3. \A s \in Sha \ zoned : "files" \in zones[s] => s \in meta
  BY DEF BucketInv
<1> QED BY <1>1, <1>2, <1>3 DEF Sweeps!SweepSparesRows, Sweeps!PurgeSparesOthers

LEMMA BucketFirst == Sweeps!BInit => BucketInv
<1> SUFFICES ASSUME Sweeps!BInit PROVE BucketInv
  OBVIOUS
<1>1. \A o \in bucket : Object(o)
  BY ServicesAssumption DEF Sweeps!BInit, Sweeps!Own, Object
<1>2. ASSUME NEW s \in Sha, Zones[s] # {} PROVE [kind |-> "files", sha |-> s, old |-> TRUE] \in bucket
  BY <1>2 DEF Sweeps!BInit
<1>3. \A s \in Sha : Zones[s] # {} => Original(bucket, s)
  BY <1>2 DEF Original
<1>4. \A s \in Sha : "files" \in Zones[s] => Zones[s] # {}
  OBVIOUS
<1>5. /\ row = {s \in Sha : Zones[s] # {}} /\ meta = row /\ zones = Zones /\ upload = [s \in Sha |-> "none"]
      /\ sweep = [pc |-> "off", known |-> {}, list |-> {}] /\ purge.only = {} /\ purged = {}
  BY DEF Sweeps!BInit
<1>6. zones \in [Sha -> SUBSET {"photos", "files"}]
  BY <1>5, ServicesAssumption
<1> QED BY <1>1, <1>3, <1>4, <1>5, <1>6 DEF BucketInv, Needed

LEMMA BucketPlace == ASSUME BucketInv, NEW s \in Sha, Sweeps!Place(s) PROVE BucketInv'
<1>1. /\ upload' = [upload EXCEPT ![s] = "placed"]
      /\ bucket' = (IF s \in row \/ \E o \in Sweeps!Originals : o.sha = s THEN bucket ELSE bucket \cup {Sweeps!Own("files", s, FALSE)})
      /\ UNCHANGED <<row, zones, meta, sweep, sweeps, purge, raced, zoned, collected, purged>>
  BY DEF Sweeps!Place
<1>2. bucket \subseteq bucket' /\ \A o \in bucket' : Object(o)
  BY <1>1 DEF BucketInv, Object, Sweeps!Own
<1>3. Original(bucket', s) \/ s \in raced
  <2>1. CASE s \in row
    BY <1>2, <2>1 DEF BucketInv, Needed, Original
  <2>2. CASE \E o \in Sweeps!Originals : o.sha = s
    BY <1>2, <2>2 DEF Sweeps!Originals, Original
  <2>3. CASE ~(s \in row \/ \E o \in Sweeps!Originals : o.sha = s)
    <3>1. Sweeps!Own("files", s, FALSE) \in bucket'
      BY <1>1, <2>3
    <3>2. Sweeps!Own("files", s, FALSE).kind = "files" /\ Sweeps!Own("files", s, FALSE).sha = s
      BY DEF Sweeps!Own
    <3> QED BY <3>1, <3>2 DEF Original
  <2> QED BY <2>1, <2>2, <2>3
<1>4. upload' \in [Sha -> {"none", "placed", "rowed"}] /\ \A t \in Sha : t = s \/ upload'[t] = upload[t]
  BY <1>1 DEF BucketInv
<1>5. upload'[s] = "placed"
  BY <1>1 DEF BucketInv
<1>6. \A t \in Sha : Needed(t)' => t \in raced' \/ Original(bucket', t)
  BY <1>1, <1>2, <1>3, <1>4 DEF BucketInv, Needed, Original
<1> QED BY <1>1, <1>2, <1>4, <1>5, <1>6 DEF BucketInv

LEMMA BucketMakeRow == ASSUME BucketInv, NEW s \in Sha, Sweeps!MakeRow(s) PROVE BucketInv'
<1>1. /\ upload[s] = "placed" /\ upload' = [upload EXCEPT ![s] = "rowed"] /\ row' = row \cup {s}
      /\ UNCHANGED <<bucket, zones, meta, uploads, sweep, sweeps, purge, zoned, collected, purged>>
      /\ raced' = (IF s \notin row /\ sweep.pc = "delete" /\ \E o \in sweep.list : o.sha = s /\ o.old THEN raced \cup {s} ELSE raced)
  BY DEF Sweeps!MakeRow
<1>2. upload' \in [Sha -> {"none", "placed", "rowed"}] /\ \A t \in Sha : t = s \/ upload'[t] = upload[t]
  BY <1>1 DEF BucketInv
<1>3. upload'[s] = "rowed" /\ raced \subseteq raced'
  BY <1>1 DEF BucketInv
<1>4. \A t \in Sha : Needed(t)' => t \in raced' \/ Original(bucket', t)
  BY <1>1, <1>2, <1>3 DEF BucketInv, Needed
<1>5. sweep.pc = "delete" => \A o \in sweep.list : o.kind = "files" /\ o.sha \in row' => o.sha \in raced'
  BY <1>1, <1>3 DEF BucketInv
<1> QED BY <1>1, <1>2, <1>3, <1>4, <1>5 DEF BucketInv

LEMMA BucketMakeEntry == ASSUME BucketInv, NEW s \in Sha, NEW z \in {"photos", "files"}, Sweeps!MakeEntry(s, z) PROVE BucketInv'
<1>1. /\ s \in row /\ upload' = [upload EXCEPT ![s] = "none"]
      /\ zones' = [zones EXCEPT ![s] = zones[s] \cup {z}] /\ meta' = meta \cup {s}
      /\ zoned' = (IF s \in purge.only /\ z # "photos" THEN zoned \cup {s} ELSE zoned)
      /\ UNCHANGED <<bucket, row, uploads, sweep, sweeps, purge, raced, collected, purged>>
  BY DEF Sweeps!MakeEntry
<1>2. upload' \in [Sha -> {"none", "placed", "rowed"}] /\ upload'[s] = "none" /\ \A t \in Sha : t = s \/ upload'[t] = upload[t]
  BY <1>1 DEF BucketInv
<1>3. zones' \in [Sha -> SUBSET {"photos", "files"}] /\ zones'[s] = zones[s] \cup {z} /\ \A t \in Sha : t = s \/ zones'[t] = zones[t]
  BY <1>1 DEF BucketInv
<1>4. \A t \in Sha : Needed(t)' => t \in raced' \/ Original(bucket', t)
  BY <1>1, <1>2 DEF BucketInv, Needed
<1>5. \A t \in Sha : upload'[t] = "rowed" \/ zones'[t] # {} => t \in row'
  BY <1>1, <1>2, <1>3 DEF BucketInv
<1>6. ASSUME NEW t \in Sha \ zoned', "files" \in zones'[t] PROVE t \in meta' /\ t \notin purge'.only
  <2>1. t \notin zoned /\ zoned \subseteq zoned'
    BY <1>1
  <2>2. CASE t # s
    BY <1>1, <1>3, <1>6, <2>1, <2>2 DEF BucketInv
  <2>3. CASE t = s /\ z = "photos"
    BY <1>1, <1>3, <1>6, <2>1, <2>3 DEF BucketInv
  <2>4. CASE t = s /\ z # "photos"
    BY <1>1, <2>4
  <2> QED BY <2>2, <2>3, <2>4
<1> QED BY <1>1, <1>2, <1>3, <1>4, <1>5, <1>6 DEF BucketInv

LEMMA BucketCollect == ASSUME BucketInv, NEW s \in Sha, Sweeps!CollectRow(s) PROVE BucketInv'
<1>1. /\ s \in row /\ zones[s] = {} /\ upload[s] = "none" /\ row' = row \ {s} /\ meta' = meta \ {s}
      /\ bucket' = {o \in bucket : o.sha # s} /\ collected' = collected \cup {s}
      /\ UNCHANGED <<zones, upload, uploads, sweep, sweeps, purge, raced, zoned, purged>>
  BY DEF Sweeps!CollectRow
<1>2. \A t \in Sha : Needed(t)' => t # s /\ Needed(t)
  BY <1>1 DEF Needed
<1>3. \A t \in Sha : t # s /\ Original(bucket, t) => Original(bucket', t)
  BY <1>1 DEF Original
<1>4. \A t \in Sha : Needed(t)' => t \in raced' \/ Original(bucket', t)
  BY <1>1, <1>2, <1>3 DEF BucketInv
<1>5. \A t \in Sha : upload'[t] = "rowed" \/ zones'[t] # {} => t \in row'
  BY <1>1 DEF BucketInv
<1>6. \A t \in Sha \ zoned' : "files" \in zones'[t] => t \in meta' /\ t \notin purge'.only
  BY <1>1 DEF BucketInv
<1>7. /\ row' \subseteq Sha /\ purged' \subseteq row' \cup collected' /\ \A o \in bucket' : Object(o)
      /\ sweep.pc = "delete" => \A o \in sweep.list : o.kind = "files" /\ o.sha \in row' => o.sha \in raced'
  BY <1>1 DEF BucketInv
<1> QED BY <1>1, <1>4, <1>5, <1>6, <1>7 DEF BucketInv

LEMMA BucketDay == ASSUME BucketInv, Sweeps!Day PROVE BucketInv'
<1>1. /\ bucket' = {[o EXCEPT !.old = TRUE] : o \in bucket}
      /\ UNCHANGED <<row, zones, meta, upload, uploads, sweep, sweeps, purge, raced, zoned, collected, purged>>
  BY DEF Sweeps!Day
<1>2. ASSUME NEW o \in bucket PROVE LET p == [o EXCEPT !.old = TRUE] IN Object(p) /\ p.kind = o.kind /\ p.sha = o.sha
  <2>1. o \in [kind : {o.kind}, sha : {o.sha}, old : {o.old}]
    BY DEF BucketInv, Object
  <2> QED BY <2>1 DEF Object
<1>3. \A o \in bucket' : Object(o)
  BY <1>1, <1>2
<1>4. \A s \in Sha : Original(bucket, s) => Original(bucket', s)
  BY <1>1, <1>2 DEF Original
<1>5. \A s \in Sha : Needed(s)' => s \in raced' \/ Original(bucket', s)
  BY <1>1, <1>4 DEF BucketInv, Needed
<1> QED BY <1>1, <1>3, <1>5 DEF BucketInv

\* The sweep looks.
LEMMA BucketLooks == ASSUME BucketInv, Sweeps!ReadKnown \/ Sweeps!ListBucket \/ Sweeps!Recheck PROVE BucketInv'
<1>1. UNCHANGED <<bucket, row, zones, meta, upload, raced, zoned, collected, purged, purge>>
  BY DEF Sweeps!ReadKnown, Sweeps!ListBucket, Sweeps!Recheck
<1>2. \A s \in Sha : Needed(s)' => s \in raced' \/ Original(bucket', s)
  BY <1>1 DEF BucketInv, Needed
<1>3. CASE Sweeps!ReadKnown
  <2>1. sweep' = [pc |-> "list", known |-> row, list |-> {}]
    BY <1>3 DEF Sweeps!ReadKnown
  <2> QED BY <1>1, <1>2, <2>1 DEF BucketInv
<1>4. CASE Sweeps!ListBucket
  <2>1. sweep' = [pc |-> "recheck", known |-> sweep.known, list |-> {o \in bucket : Sweeps!Orphan(o)}]
    BY <1>4 DEF Sweeps!ListBucket, BucketInv
  <2>2. \A o \in sweep'.list : o.old
    BY <2>1 DEF Sweeps!Orphan
  <2> QED BY <1>1, <1>2, <2>1, <2>2 DEF BucketInv
<1>5. CASE Sweeps!Recheck
  <2>1. /\ sweep.pc = "recheck"
        /\ sweep' = [pc |-> "delete", known |-> sweep.known, list |-> {o \in sweep.list : ~Sweeps!Appeared(o)}]
    BY <1>5 DEF Sweeps!Recheck, BucketInv
  <2>2. \A o \in sweep'.list : o.old
    BY <2>1 DEF BucketInv
  <2>3. \A o \in sweep'.list : o.kind = "files" => o.sha \notin row
    BY <2>1 DEF Sweeps!Appeared
  <2> QED BY <1>1, <1>2, <2>1, <2>2, <2>3 DEF BucketInv
<1> QED BY <1>3, <1>4, <1>5

LEMMA BucketDelete == ASSUME BucketInv, Sweeps!DeleteBatch PROVE BucketInv'
<1>1. sweep.pc = "delete" /\ UNCHANGED <<row, zones, meta, upload, uploads, sweeps, purge, zoned, collected, purged>>
  BY DEF Sweeps!DeleteBatch
<1>2. CASE sweep.list = {}
  <2>1. sweep' = [pc |-> "off", known |-> sweep.known, list |-> sweep.list] /\ bucket' = bucket /\ raced' = raced
    BY <1>2 DEF Sweeps!DeleteBatch, BucketInv
  <2>2. \A s \in Sha : Needed(s)' => s \in raced' \/ Original(bucket', s)
    BY <1>1, <2>1 DEF BucketInv, Needed
  <2> QED BY <1>1, <2>1, <2>2 DEF BucketInv
<1>3. CASE sweep.list # {}
  <2>1. PICK gone \in SUBSET sweep.list \ {{}} :
          /\ sweep' = [sweep EXCEPT !.list = sweep.list \ gone]
          /\ raced' = raced \cup {o.sha : o \in {b \in gone : b.old /\ b.kind = "files" /\ upload[b.sha] = "placed"}}
          /\ \E refused \in {{}, gone} : bucket' = bucket \ {o \in bucket : \E b \in gone \ refused :
                                                               b.kind = o.kind /\ b.sha = o.sha}
    BY <1>3 DEF Sweeps!DeleteBatch
  <2>2. sweep' = [pc |-> "delete", known |-> sweep.known, list |-> sweep.list \ gone]
    BY <1>1, <2>1 DEF BucketInv
  <2>3. raced \subseteq raced' /\ bucket' \subseteq bucket
    BY <2>1
  <2>4. \A b \in gone : b \in sweep.list /\ b.old
    BY <1>1 DEF BucketInv
  <2>5. ASSUME NEW s \in Sha, Needed(s), s \notin raced' PROVE Original(bucket', s)
    <3>1. PICK o \in bucket : o.kind = "files" /\ o.sha = s
      BY <2>3, <2>5 DEF BucketInv, Original
    <3>2. ASSUME NEW b \in gone, b.kind = "files", b.sha = s PROVE FALSE
      <4>1. b.old /\ b \in sweep.list
        BY <2>4
      <4>2. CASE s \in row
        BY <1>1, <2>3, <2>5, <3>2, <4>1, <4>2 DEF BucketInv
      <4>3. CASE upload[s] = "placed"
        BY <2>1, <2>5, <3>2, <4>1, <4>3
      <4> QED BY <2>5, <4>2, <4>3 DEF Needed
    <3>3. o \in bucket'
      BY <2>1, <3>1, <3>2
    <3> QED BY <3>1, <3>3 DEF Original
  <2>6. \A s \in Sha : Needed(s)' => s \in raced' \/ Original(bucket', s)
    BY <1>1, <2>5 DEF Needed
  <2>7. \A o \in sweep'.list : o.old /\ (o.kind = "files" /\ o.sha \in row' => o.sha \in raced')
    BY <1>1, <2>2, <2>3 DEF BucketInv
  <2>8. \A o \in bucket' : Object(o)
    BY <2>3 DEF BucketInv
  <2> QED BY <1>1, <2>2, <2>6, <2>7, <2>8 DEF BucketInv
<1> QED BY <1>2, <1>3

\* The purge of the photos.
LEMMA BucketPurges == ASSUME BucketInv, Sweeps!LookPurge \/ Sweeps!CommitPurge PROVE BucketInv'
<1>1. UNCHANGED <<bucket, row, upload, uploads, sweep, sweeps, raced, zoned, collected>>
  BY DEF Sweeps!LookPurge, Sweeps!CommitPurge
<1>2. \A s \in Sha : Needed(s)' => s \in raced' \/ Original(bucket', s)
  BY <1>1 DEF BucketInv, Needed
<1>3. CASE Sweeps!LookPurge
  <2>1. /\ \A s \in Sha : s \in purge'.only => zones[s] = {"photos"}
        /\ zones' = zones /\ meta' = meta /\ purged' = purged
    BY <1>3 DEF Sweeps!LookPurge
  <2>2. \A s \in Sha \ zoned' : "files" \in zones'[s] => s \in meta' /\ s \notin purge'.only
    BY <1>1, <2>1 DEF BucketInv
  <2> QED BY <1>1, <1>2, <2>1, <2>2 DEF BucketInv
<1>4. CASE Sweeps!CommitPurge
  <2>1. /\ zones' = [s \in Sha |-> zones[s] \ {"photos"}] /\ meta' = meta \ purge.only
        /\ purged' = purged \cup {s \in Sha : "photos" \in zones[s]} /\ purge'.only = {}
    BY <1>4 DEF Sweeps!CommitPurge, Sweeps!Forgotten
  <2>2. zones' \in [Sha -> SUBSET {"photos", "files"}] /\ \A s \in Sha : zones'[s] \subseteq zones[s]
    BY <2>1 DEF BucketInv
  <2>3. \A s \in Sha : upload'[s] = "rowed" \/ zones'[s] # {} => s \in row'
    BY <1>1, <2>2 DEF BucketInv
  <2>4. purged' \subseteq row' \cup collected'
    BY <1>1, <2>1 DEF BucketInv
  <2>5. \A s \in Sha \ zoned' : "files" \in zones'[s] => s \in meta' /\ s \notin purge'.only
    BY <1>1, <2>1, <2>2 DEF BucketInv
  <2> QED BY <1>1, <1>2, <2>2, <2>3, <2>4, <2>5 DEF BucketInv
<1> QED BY <1>3, <1>4

LEMMA BucketStep == ASSUME BucketInv, [Sweeps!BNext]_Sweeps!bvars PROVE BucketInv'
<1>1. CASE UNCHANGED Sweeps!bvars
  BY <1>1 DEF Sweeps!bvars, BucketInv, Needed
<1> QED BY <1>1, BucketPlace, BucketMakeRow, BucketMakeEntry, BucketCollect, BucketDay, BucketLooks, BucketDelete, BucketPurges
        DEF Sweeps!BNext

\* The sweep spares what has a row, and the purge what is seen elsewhere and the originals of the photos.
THEOREM BucketHolds == Spec => []BucketSound
<1> DEFINE Inv == part = "sweeps" => BucketInv
<1>1. Init => Inv
  BY BucketFirst DEF Init
<1>2. Inv /\ [Next]_vars => Inv'
  BY BucketStep, PartsStep
<1>3. Inv => BucketSound
  BY BucketTrue DEF BucketSound
<1> HIDE DEF Inv
<1> QED BY <1>1, <1>2, <1>3, PTL DEF Spec

-----------------------------------------------------------------------------
(* Unpacking an archive of the kinds K by jobs of the ids J.               *)

KindNames == {"new", "held", "alike", "broken", "sealed"}
AJob     == [state : {"none", "pending", "processing", "done", "failed", "cancelled"}, cursor : Nat, restarts : Nat, skipped : Nat]
AnyJob   == {0} \cup Jobs \cup OddJobs
AWorker  == [at : {"idle", "claim", "member", "save", "end"}, job : AnyJob, next : Nat, skipped : Nat, made : SUBSET Nat]
AnAsk    == [at : {"idle", "create", "cancel"}, job : AnyJob]
Handled(K, m)  == copies[m] > 0 \/ K[m] \in {"broken", "alike"}
HandledTo(K, i) == \A m \in 1..Len(K) : m <= i => Handled(K, m)
WorkerOK(K, J, w) ==
  /\ w \in AWorker /\ (w.at # "idle" => w.job \in J)
  /\ w.at = "member" => HandledTo(K, w.next - 1)
  /\ w.at = "save" => HandledTo(K, w.next)
  /\ w.at = "end" => HandledTo(K, Len(K))
\* What the cursor of a job has passed is handled, and so is everything when it is done.
JobOK(K, r) == r \in AJob /\ HandledTo(K, r.cursor) /\ (r.state = "done" => HandledTo(K, Len(K)))

UnzipInv(K, J) ==
  /\ jobs \in [J -> AJob] /\ \A j \in J : JobOK(K, jobs[j])
  /\ WorkerOK(K, J, worker)
  /\ copies \in [1..Len(K) -> Nat] /\ \A m \in 1..Len(K) : copies[m] > 1 => K[m] = "held"
  /\ asks \in [Caller -> AnAsk] /\ \A c \in Caller : asks[c].at = "cancel" => asks[c].job \in J

Archive(K, J) == K \in Seq(KindNames) /\ J \subseteq AnyJob

LEMMA TwoArchives == Archive(Kind, Jobs) /\ Archive(OddKind, OddJobs)
BY ServicesAssumption DEF Archive, KindNames, AnyJob

LEMMA ArchiveCount ==
  ASSUME NEW K, NEW J, Archive(K, J)
  PROVE  UnzipOf(K, J)!Members = 1..Len(K) /\ UnzipOf(K, J)!Count = Len(K) /\ Len(K) \in Nat
<1>1. DOMAIN K = 1..Len(K) /\ Len(K) \in Nat
  BY DEF Archive
<1>2. Cardinality(1..Len(K)) = Len(K)
  <2> DEFINE n == Len(K)
  <2>1. n \in Nat /\ n \in Int /\ 1 \in Int
    BY <1>1
  <2> HIDE DEF n
  <2>2. Cardinality(1..n) = IF 1 > n THEN 0 ELSE n - 1 + 1
    BY <2>1, FS_Interval
  <2>3. Cardinality(1..n) = n
    BY <2>1, <2>2
  <2> QED BY <2>3 DEF n
<1> QED BY <1>1, <1>2 DEF UnzipOf!Members, UnzipOf!Count, UnzipOf!Cardinality, Cardinality

LEMMA UnzipTrue ==
  ASSUME NEW K, NEW J, Archive(K, J), UnzipInv(K, J)
  PROVE  UnzipOf(K, J)!DoneIsWhole /\ UnzipOf(K, J)!NeverTwice
BY ArchiveCount DEF UnzipInv, JobOK, HandledTo, Handled, UnzipOf!DoneIsWhole, UnzipOf!NeverTwice

LEMMA UnzipFirst ==
  ASSUME NEW K, NEW J, Archive(K, J), UnzipOf(K, J)!UInit
  PROVE  UnzipInv(K, J)
<1>1. UnzipOf(K, J)!Idle \in AWorker /\ UnzipOf(K, J)!NoJob \in AJob /\ UnzipOf(K, J)!NoAsk \in AnAsk
  BY DEF UnzipOf!Idle, UnzipOf!NoJob, UnzipOf!NoAsk, AWorker, AJob, AnAsk, AnyJob
<1> QED BY <1>1, ArchiveCount DEF UnzipOf!UInit, UnzipInv, JobOK, WorkerOK, HandledTo, UnzipOf!Idle, UnzipOf!NoJob, UnzipOf!NoAsk

\* Only the rows and the requests.
LEMMA UnzipRow ==
  ASSUME NEW K, NEW J, UnzipInv(K, J), NEW j \in J, NEW r, JobOK(K, r), NEW w, WorkerOK(K, J, w),
         jobs' = [jobs EXCEPT ![j] = r], worker' = w, copies' = copies, asks' = asks
  PROVE  UnzipInv(K, J)'
<1>1. jobs' \in [J -> AJob] /\ \A i \in J : JobOK(K, jobs'[i])
  BY DEF UnzipInv, JobOK
<1>2. \A i \in J : JobOK(K, jobs[i])'
  BY <1>1 DEF JobOK, HandledTo, Handled
<1>3. WorkerOK(K, J, worker)'
  BY DEF WorkerOK, HandledTo, Handled
<1> QED BY <1>1, <1>2, <1>3 DEF UnzipInv

LEMMA UnzipAsk ==
  ASSUME NEW K, NEW J, UnzipInv(K, J), NEW c \in Caller, NEW q \in AnAsk, q.at = "cancel" => q.job \in J,
         jobs' = jobs, worker' = worker, copies' = copies, asks' = [asks EXCEPT ![c] = q]
  PROVE  UnzipInv(K, J)'
<1>1. asks' \in [Caller -> AnAsk] /\ \A d \in Caller : asks'[d].at = "cancel" => asks'[d].job \in J
  BY DEF UnzipInv
<1>2. (\A i \in J : JobOK(K, jobs[i])') /\ WorkerOK(K, J, worker)'
  BY DEF UnzipInv, WorkerOK, JobOK, HandledTo, Handled
<1> QED BY <1>1, <1>2 DEF UnzipInv

LEMMA UnzipAsks ==
  ASSUME NEW K, NEW J, Archive(K, J), UnzipInv(K, J), NEW c \in Caller,
         UnzipOf(K, J)!StartLook(c) \/ UnzipOf(K, J)!StartMake(c) \/ UnzipOf(K, J)!CancelWrite(c)
           \/ \E j \in J : UnzipOf(K, J)!CancelLook(c, j)
  PROVE  UnzipInv(K, J)'
<1>0. /\ UnzipOf(K, J)!NoAsk \in AnAsk /\ (UnzipOf(K, J)!NoAsk).at = "idle" /\ asks[c] \in AnAsk
      /\ (asks[c].at = "cancel" => asks[c].job \in J)
  BY DEF UnzipOf!NoAsk, AnAsk, UnzipInv, AnyJob
<1>1. CASE UnzipOf(K, J)!StartLook(c)
  <2> DEFINE q == [asks[c] EXCEPT !.at = "create"]
  <2>1. q \in AnAsk /\ q.at = "create"
    BY <1>0 DEF AnAsk
  <2>2. asks' = [asks EXCEPT ![c] = q] /\ UNCHANGED <<jobs, worker, cancelled, copies, queued, jobTroubles, mute>>
    BY <1>1 DEF UnzipOf!StartLook
  <2> HIDE DEF q
  <2> QED BY <2>1, <2>2, UnzipAsk
<1>2. CASE UnzipOf(K, J)!StartMake(c) \/ UnzipOf(K, J)!CancelWrite(c)
  <2>1. PICK j \in J, st \in {"pending", "cancelled"} : jobs' = [jobs EXCEPT ![j].state = st]
    BY <1>0, <1>2 DEF UnzipOf!StartMake, UnzipOf!CancelWrite
  <2>2. asks' = [asks EXCEPT ![c] = UnzipOf(K, J)!NoAsk] /\ worker' = worker /\ copies' = copies
    BY <1>2 DEF UnzipOf!StartMake, UnzipOf!CancelWrite
  <2> DEFINE r == [jobs[j] EXCEPT !.state = st]
  <2>3. jobs[j] \in AJob /\ JobOK(K, jobs[j])
    BY DEF UnzipInv
  <2>4. r \in AJob /\ r.state # "done" /\ r.cursor = jobs[j].cursor
    BY <2>3 DEF AJob
  <2>5. jobs' = [jobs EXCEPT ![j] = r]
    BY <2>1
  <2> HIDE DEF r
  <2>6. JobOK(K, r)
    BY <2>3, <2>4 DEF JobOK
  <2>7. jobs' \in [J -> AJob] /\ \A i \in J : JobOK(K, jobs'[i])
    BY <2>4, <2>5, <2>6 DEF UnzipInv
  <2>8. (\A i \in J : JobOK(K, jobs[i])') /\ WorkerOK(K, J, worker)'
    BY <2>2, <2>7 DEF UnzipInv, WorkerOK, JobOK, HandledTo, Handled
  <2>9. asks' \in [Caller -> AnAsk] /\ \A d \in Caller : asks'[d].at = "cancel" => asks'[d].job \in J
    BY <1>0, <2>2 DEF UnzipInv
  <2> QED BY <2>2, <2>7, <2>8, <2>9 DEF UnzipInv
<1>3. ASSUME NEW j \in J, UnzipOf(K, J)!CancelLook(c, j) PROVE UnzipInv(K, J)'
  <2>1. jobs' = jobs /\ worker' = worker /\ copies' = copies
    BY <1>3 DEF UnzipOf!CancelLook
  <2>2. PICK q \in AnAsk : (q.at = "cancel" => q.job \in J) /\ asks' = [asks EXCEPT ![c] = q]
    <3>1. CASE jobs[j].state = "pending"
      <4>1. [at |-> "cancel", job |-> j] \in AnAsk
        BY DEF AnAsk, Archive
      <4> QED BY <1>3, <3>1, <4>1 DEF UnzipOf!CancelLook
    <3>2. CASE jobs[j].state # "pending"
      <4>1. asks' = [asks EXCEPT ![c] = asks[c]]
        BY <1>3, <3>2 DEF UnzipOf!CancelLook, UnzipInv
      <4> QED BY <1>0, <4>1
    <3> QED BY <3>1, <3>2
  <2> QED BY <2>1, <2>2, UnzipAsk
<1> QED BY <1>1, <1>2, <1>3

\* The pass is over.
LEMMA UnzipOver ==
  ASSUME NEW K, NEW J, Archive(K, J), UnzipInv(K, J), worker.at # "idle", NEW r, JobOK(K, r),
         jobs' = [jobs EXCEPT ![worker.job] = r], worker' = UnzipOf(K, J)!Idle, copies' = copies, asks' = asks
  PROVE  UnzipInv(K, J)'
<1>1. WorkerOK(K, J, UnzipOf(K, J)!Idle)
  BY DEF UnzipOf!Idle, WorkerOK, AWorker, AnyJob
<1>2. worker.job \in J
  BY DEF UnzipInv, WorkerOK
<1> QED BY <1>1, <1>2, UnzipRow

LEMMA UnzipPass ==
  ASSUME NEW K, NEW J, Archive(K, J), UnzipInv(K, J),
         UnzipOf(K, J)!ClaimLook \/ UnzipOf(K, J)!ClaimWrite \/ UnzipOf(K, J)!CancelSeen \/ UnzipOf(K, J)!Save
           \/ UnzipOf(K, J)!Enqueue \/ UnzipOf(K, J)!Done \/ UnzipOf(K, J)!Fail \/ UnzipOf(K, J)!FailUnwritten
  PROVE  UnzipInv(K, J)'
<1>0. /\ copies' = copies /\ asks' = asks /\ WorkerOK(K, J, worker) /\ worker \in AWorker /\ jobs \in [J -> AJob]
      /\ (worker.at # "idle" => worker.job \in J /\ jobs[worker.job] \in AJob /\ JobOK(K, jobs[worker.job]))
  <2>1. copies' = copies /\ asks' = asks
    BY Zenon DEF UnzipOf!ClaimLook, UnzipOf!ClaimWrite, UnzipOf!CancelSeen, UnzipOf!Save, UnzipOf!Enqueue,
       UnzipOf!Done, UnzipOf!Fail, UnzipOf!FailUnwritten
  <2> QED BY <2>1 DEF UnzipInv, WorkerOK
<1> DEFINE k == worker.job
<1>1. CASE UnzipOf(K, J)!ClaimLook
  <2>1. PICK j \in J : worker' = [[UnzipOf(K, J)!Idle EXCEPT !.at = "claim"] EXCEPT !.job = j]
    BY <1>1, Zenon DEF UnzipOf!ClaimLook
  <2>2. worker' \in AWorker /\ worker'.at = "claim" /\ worker'.job = j
    BY <2>1 DEF UnzipOf!Idle, AWorker, Archive
  <2>3. WorkerOK(K, J, worker')
    BY <2>2 DEF WorkerOK
  <2>4. jobs' = jobs
    BY <1>1, Zenon DEF UnzipOf!ClaimLook
  <2>5. jobs' = [jobs EXCEPT ![j] = jobs[j]] /\ JobOK(K, jobs[j])
    BY <2>4 DEF UnzipInv
  <2> QED BY <1>0, <2>3, <2>5, UnzipRow
<1>2. CASE UnzipOf(K, J)!ClaimWrite
  <2> DEFINE r == [jobs[k] EXCEPT !.state = "processing"]
             w == [[[worker EXCEPT !.at = "member"] EXCEPT !.next = jobs[k].cursor + 1] EXCEPT !.skipped = jobs[k].skipped]
  <2>1. worker.at # "idle" /\ jobs' = [jobs EXCEPT ![k] = r] /\ worker' = w
    BY <1>2 DEF UnzipOf!ClaimWrite
  <2>2. JobOK(K, r)
    BY <1>0, <2>1 DEF JobOK, AJob
  <2>3. jobs[k].cursor \in Nat /\ jobs[k].skipped \in Nat
    BY <1>0, <2>1 DEF AJob
  <2>4. w \in AWorker /\ w.at = "member" /\ w.next = jobs[k].cursor + 1 /\ w.job = k
    <3>1. PICK x \in Nat, y \in Nat : x = jobs[k].cursor + 1 /\ y = jobs[k].skipped
      BY <2>3
    <3>2. w = [[[worker EXCEPT !.at = "member"] EXCEPT !.next = x] EXCEPT !.skipped = y]
      BY <3>1
    <3> HIDE DEF w
    <3>3. w \in AWorker /\ w.at = "member" /\ w.next = x /\ w.job = k
      BY <1>0, <3>2 DEF AWorker
    <3> QED BY <3>1, <3>3
  <2> HIDE DEF r, w
  <2>5. w.next - 1 = jobs[k].cursor
    BY <2>3, <2>4
  <2>6. WorkerOK(K, J, w)
    BY <1>0, <2>1, <2>4, <2>5 DEF WorkerOK, JobOK
  <2> QED BY <1>0, <2>1, <2>2, <2>6, UnzipRow
<1>3. CASE UnzipOf(K, J)!CancelSeen \/ UnzipOf(K, J)!Fail
  <2>1. PICK st \in {"cancelled", "failed"} : jobs' = [jobs EXCEPT ![k].state = st]
    BY <1>3 DEF UnzipOf!CancelSeen, UnzipOf!Fail, UnzipOf!Over
  <2> DEFINE r == [jobs[k] EXCEPT !.state = st]
  <2>2. worker.at # "idle" /\ worker' = UnzipOf(K, J)!Idle /\ jobs' = [jobs EXCEPT ![k] = r]
    BY <1>3, <2>1 DEF UnzipOf!CancelSeen, UnzipOf!Fail, UnzipOf!Over
  <2>3. JobOK(K, r)
    BY <1>0, <2>2 DEF JobOK, AJob
  <2> HIDE DEF r
  <2> QED BY <1>0, <2>2, <2>3, UnzipOver
<1>4. CASE UnzipOf(K, J)!FailUnwritten
  <2>1. worker.at # "idle" /\ worker' = UnzipOf(K, J)!Idle /\ jobs' = jobs
    BY <1>4 DEF UnzipOf!FailUnwritten
  <2>2. jobs' = [jobs EXCEPT ![k] = jobs[k]]
    BY <1>0, <2>1
  <2> QED BY <1>0, <2>1, <2>2, UnzipOver
<1>5. CASE UnzipOf(K, J)!Save
  <2>1. PICK counters \in BOOLEAN, border \in BOOLEAN :
          jobs' = [jobs EXCEPT ![k].skipped = IF counters \/ border THEN worker.skipped ELSE @,
                               ![k].cursor = IF border THEN UnzipOf(K, J)!Cursor(worker.next) ELSE @]
    BY <1>5 DEF UnzipOf!Save
  <2> DEFINE r == [[jobs[k] EXCEPT !.skipped = IF counters \/ border THEN worker.skipped ELSE @] EXCEPT
                     !.cursor = IF border THEN UnzipOf(K, J)!Cursor(worker.next) ELSE @]
             w == [[worker EXCEPT !.at = "member"] EXCEPT !.next = worker.next + 1]
  <2>2. worker.at = "save" /\ worker' = w /\ k \in J
    BY <1>0, <1>5 DEF UnzipOf!Save
  <2>3. jobs' = [jobs EXCEPT ![k] = r]
    BY <1>0, <2>1, <2>2
  <2>4. worker.next \in Nat /\ worker.skipped \in Nat /\ jobs[k] \in AJob /\ JobOK(K, jobs[k]) /\ HandledTo(K, worker.next)
    BY <1>0, <2>2 DEF AWorker, WorkerOK
  <2>5. r \in AJob /\ r.state = jobs[k].state /\ r.cursor \in {jobs[k].cursor, worker.next}
    BY <2>4 DEF AJob, UnzipOf!Cursor
  <2>6. w \in AWorker /\ w.at = "member" /\ w.next = worker.next + 1 /\ w.job = k
    <3>1. PICK x \in Nat : x = worker.next + 1
      BY <2>4
    <3>2. w = [[worker EXCEPT !.at = "member"] EXCEPT !.next = x]
      BY <3>1
    <3> HIDE DEF w
    <3>3. w \in AWorker /\ w.at = "member" /\ w.next = x /\ w.job = k
      BY <1>0, <3>2 DEF AWorker
    <3> QED BY <3>1, <3>3
  <2> HIDE DEF r, w
  <2>7. JobOK(K, r)
    BY <2>4, <2>5 DEF JobOK
  <2>8. w.next - 1 = worker.next
    BY <2>4, <2>6
  <2>9. WorkerOK(K, J, w)
    BY <2>2, <2>4, <2>6, <2>8 DEF WorkerOK
  <2> QED BY <1>0, <2>2, <2>3, <2>7, <2>9, UnzipRow
<1>6. CASE UnzipOf(K, J)!Enqueue
  <2> DEFINE n == Len(K)
             r == [[jobs[k] EXCEPT !.cursor = n] EXCEPT !.skipped = worker.skipped]
             w == [worker EXCEPT !.at = "end"]
  <2>1. n \in Nat /\ UnzipOf(K, J)!Count = n
    BY ArchiveCount
  <2>2. worker.at = "member" /\ worker.next > n /\ worker' = w
    BY <1>6, <2>1 DEF UnzipOf!Enqueue
  <2>3. jobs' = [jobs EXCEPT ![k].cursor = n, ![k].skipped = worker.skipped]
    BY <1>6, <2>1 DEF UnzipOf!Enqueue
  <2>4. jobs' = [jobs EXCEPT ![k] = r]
    BY <1>0, <2>2, <2>3
  <2>5. worker.next \in Nat /\ worker.skipped \in Nat /\ jobs[k] \in AJob /\ JobOK(K, jobs[k]) /\ HandledTo(K, worker.next - 1)
    BY <1>0, <2>2 DEF AWorker, WorkerOK
  <2>6. HandledTo(K, n)
    BY <2>1, <2>2, <2>5 DEF HandledTo
  <2>7. r \in AJob /\ r.cursor = n
    BY <2>1, <2>5 DEF AJob
  <2>8. w \in AWorker /\ w.at = "end" /\ w.job = k
    BY <1>0 DEF AWorker
  <2> HIDE DEF r, w
  <2>9. JobOK(K, r) /\ WorkerOK(K, J, w)
    BY <1>0, <2>2, <2>6, <2>7, <2>8 DEF JobOK, WorkerOK
  <2> QED BY <1>0, <2>2, <2>4, <2>9, UnzipRow
<1>7. CASE UnzipOf(K, J)!Done
  <2> DEFINE r == [[jobs[k] EXCEPT !.state = "done"] EXCEPT !.restarts = 0]
  <2>1. worker.at = "end" /\ worker' = UnzipOf(K, J)!Idle
    BY <1>7 DEF UnzipOf!Done
  <2>2. jobs' = [jobs EXCEPT ![k] = r]
    BY <1>0, <1>7, <2>1 DEF UnzipOf!Done
  <2>3. HandledTo(K, Len(K)) /\ JobOK(K, jobs[k])
    BY <1>0, <2>1 DEF WorkerOK
  <2>4. r \in AJob /\ r.cursor = jobs[k].cursor
    BY <1>0, <2>1 DEF AJob
  <2> HIDE DEF r
  <2>5. JobOK(K, r)
    BY <2>3, <2>4 DEF JobOK
  <2> QED BY <1>0, <2>1, <2>2, <2>5, UnzipOver
<1> QED BY <1>1, <1>2, <1>3, <1>4, <1>5, <1>6, <1>7

LEMMA UnzipMember ==
  ASSUME NEW K, NEW J, Archive(K, J), UnzipInv(K, J), UnzipOf(K, J)!Member
  PROVE  UnzipInv(K, J)'
<1> PICK m : m = worker.next
  OBVIOUS
<1>0. /\ worker.at = "member" /\ m = worker.next /\ m <= Len(K) /\ m \in Nat /\ worker \in AWorker /\ WorkerOK(K, J, worker) /\ K[m] # "sealed"
      /\ jobs' = jobs /\ asks' = asks
  BY ArchiveCount DEF UnzipOf!Member, UnzipInv, WorkerOK, AWorker
<1>1. \E w \in AWorker : w.at = "save" /\ w.job = worker.job /\ w.next = m /\ worker' = w
  <2>1. worker.skipped \in Nat
    BY <1>0 DEF AWorker
  <2>2. worker.skipped + 1 \in Nat
    BY <2>1
  <2>3. CASE worker' = [[worker EXCEPT !.at = "save"] EXCEPT !.skipped = worker.skipped + 1]
    <3>1. PICK y \in Nat : y = worker.skipped + 1
      BY <2>2
    <3>2. worker' = [[worker EXCEPT !.at = "save"] EXCEPT !.skipped = y]
      BY <2>3, <3>1
    <3>3. worker' \in AWorker /\ worker'.at = "save" /\ worker'.job = worker.job /\ worker'.next = m
      BY <1>0, <3>2 DEF AWorker
    <3> QED BY <3>3
  <2>4. CASE worker' = [[worker EXCEPT !.at = "save"] EXCEPT !.made = worker.made \cup {m}]
    <3>1. worker' \in AWorker /\ worker'.at = "save" /\ worker'.job = worker.job /\ worker'.next = m
      BY <1>0, <2>4 DEF AWorker
    <3> QED BY <3>1
  <2> QED BY <2>3, <2>4 DEF UnzipOf!Member
<1>2. copies' \in [1..Len(K) -> Nat] /\ \A i \in 1..Len(K) : copies'[i] >= copies[i] /\ (i # m => copies'[i] = copies[i])
  BY <1>0 DEF UnzipOf!Member, UnzipInv
<1>3. ASSUME m \in 1..Len(K) PROVE Handled(K, m)' /\ (copies'[m] > 1 => K[m] = "held")
  <2>1. K[m] \in KindNames
    BY <1>3 DEF Archive
  <2>2. CASE K[m] = "broken" \/ UnzipOf(K, J)!Seen(m)
    <3>1. copies' = copies
      BY <2>2 DEF UnzipOf!Member
    <3>2. K[m] \in {"broken", "alike"} \/ copies[m] > 0
      BY <2>2 DEF UnzipOf!Seen
    <3>3. Handled(K, m)'
      BY <3>1, <3>2 DEF Handled
    <3>4. copies[m] > 1 => K[m] = "held"
      BY <1>3 DEF UnzipInv
    <3> QED BY <3>1, <3>3, <3>4
  <2>3. CASE ~(K[m] = "broken" \/ UnzipOf(K, J)!Seen(m))
    <3>1. copies'[m] = copies[m] + 1 /\ copies[m] \in Nat
      BY <1>3, <2>3 DEF UnzipOf!Member, UnzipInv
    <3>2. K[m] = "held" \/ copies[m] = 0
      BY <1>0, <2>1, <2>3, <3>1 DEF KindNames, UnzipOf!Seen
    <3>3. copies'[m] > 0 /\ (copies'[m] > 1 => copies[m] # 0)
      BY <3>1
    <3>4. Handled(K, m)'
      BY <3>3 DEF Handled
    <3> QED BY <3>2, <3>3, <3>4
  <2> QED BY <2>2, <2>3
<1>4. \A i \in 1..Len(K) : Handled(K, i) => Handled(K, i)'
  BY <1>2 DEF Handled, UnzipInv
<1>5. HandledTo(K, m - 1)
  BY <1>0 DEF WorkerOK
<1>6. HandledTo(K, m)'
  BY <1>0, <1>1, <1>3, <1>4, <1>5 DEF HandledTo
<1>7. \A i \in 1..Len(K) : copies'[i] > 1 => K[i] = "held"
  BY <1>2, <1>3 DEF UnzipInv
<1>8. \A j \in J : JobOK(K, jobs[j])'
  BY <1>0, <1>4 DEF UnzipInv, JobOK, HandledTo
<1>9. WorkerOK(K, J, worker)'
  BY <1>0, <1>1, <1>6 DEF WorkerOK
<1> QED BY <1>0, <1>2, <1>7, <1>8, <1>9 DEF UnzipInv

LEMMA UnzipRestart ==
  ASSUME NEW K, NEW J, Archive(K, J), UnzipInv(K, J), UnzipOf(K, J)!Restart
  PROVE  UnzipInv(K, J)'
<1>1. /\ jobs' = [j \in J |-> IF jobs[j].state = "processing" THEN UnzipOf(K, J)!Interrupted(jobs[j]) ELSE jobs[j]]
      /\ worker' = UnzipOf(K, J)!Idle /\ copies' = copies /\ asks' = [c \in Caller |-> UnzipOf(K, J)!NoAsk]
  BY DEF UnzipOf!Restart
<1>2. ASSUME NEW j \in J PROVE jobs'[j] \in AJob /\ jobs'[j].cursor = jobs[j].cursor /\ (jobs'[j].state = "done" => jobs[j].state = "done")
  <2> DEFINE r == jobs[j]
  <2>1. r \in AJob
    BY DEF UnzipInv
  <2>2. CASE r.state # "processing"
    BY <1>1, <2>1, <2>2
  <2>3. CASE r.state = "processing"
    <3>1. jobs'[j] = UnzipOf(K, J)!Interrupted(r)
      BY <1>1, <2>3
    <3> HIDE DEF r
    <3>2. \/ jobs'[j] = [r EXCEPT !.state = "failed"]
          \/ jobs'[j] = [[r EXCEPT !.state = "pending"] EXCEPT !.restarts = r.restarts + 1]
      BY <3>1 DEF UnzipOf!Interrupted
    <3>3. r.restarts \in Nat
      BY <2>1 DEF AJob
    <3>4. r.restarts + 1 \in Nat
      BY <3>3
    <3>5. jobs'[j] \in AJob /\ jobs'[j].cursor = r.cursor /\ jobs'[j].state # "done"
      <4>1. CASE jobs'[j] = [r EXCEPT !.state = "failed"]
        BY <2>1, <4>1 DEF AJob
      <4>3. CASE jobs'[j] = [[r EXCEPT !.state = "pending"] EXCEPT !.restarts = r.restarts + 1]
        <5>1. PICK y \in Nat : y = r.restarts + 1
          BY <3>4
        <5>2. jobs'[j] = [[r EXCEPT !.state = "pending"] EXCEPT !.restarts = y]
          BY <4>3, <5>1
        <5> QED BY <2>1, <5>2 DEF AJob
      <4> QED BY <3>2, <4>1, <4>3
    <3> QED BY <3>5 DEF r
  <2> QED BY <2>2, <2>3
<1>3. \A j \in J : JobOK(K, jobs[j])'
  BY <1>1, <1>2 DEF UnzipInv, JobOK, HandledTo, Handled
<1>4. WorkerOK(K, J, worker)'
  BY <1>1 DEF UnzipOf!Idle, WorkerOK, AWorker, AnyJob
<1>5. asks' \in [Caller -> AnAsk] /\ \A c \in Caller : asks'[c].at # "cancel"
  BY <1>1 DEF UnzipOf!NoAsk, AnAsk, AnyJob
<1>6. jobs' \in [J -> AJob]
  BY <1>1, <1>2
<1> QED BY <1>1, <1>3, <1>4, <1>5, <1>6 DEF UnzipInv

LEMMA UnzipStep ==
  ASSUME NEW K, NEW J, Archive(K, J), UnzipInv(K, J), [UnzipOf(K, J)!UNext]_unzipVars
  PROVE  UnzipInv(K, J)'
<1>1. CASE UNCHANGED unzipVars
  BY <1>1 DEF unzipVars, UnzipInv, JobOK, WorkerOK, HandledTo, Handled
<1> QED BY <1>1, UnzipAsks, UnzipPass, UnzipMember, UnzipRestart DEF UnzipOf!UNext, UnzipOf!WorkerStep

\* A job that is done has every member in the tree, and no member comes twice.
THEOREM UnzipHolds == Spec => []UnzipSound
<1> DEFINE Inv == (part = "unzip" => UnzipInv(Kind, Jobs)) /\ (part = "odd" => UnzipInv(OddKind, OddJobs))
<1>1. Init => Inv
  BY UnzipFirst, TwoArchives DEF Init
<1>2. Inv /\ [Next]_vars => Inv'
  BY UnzipStep, PartsStep, TwoArchives
<1>3. Inv => UnzipSound
  BY UnzipTrue, TwoArchives DEF UnzipSound
<1> HIDE DEF Inv
<1> QED BY <1>1, <1>2, <1>3, PTL DEF Spec

-----------------------------------------------------------------------------
(* The script that carries archives over.                                  *)

Archives == {Urls[k] : k \in DOMAIN Urls}
ASaved   == [done : SUBSET Archives, progress : [Archives -> Id \cup {0}], suspect : SUBSET Archives]
ASession == [there : BOOLEAN, done : BOOLEAN, parts : Seq(Nat)]
AnAttempt == [pc : {"idle", "resume", "google", "init", "pipe", "complete", "verify"}, id : Id \cup {0}, from : Nat, part : Nat,
              received : Nat, read : Nat, queue : Seq(Nat), held : Nat, ended : BOOLEAN, producer : {"run", "wait"},
              consumer : {"run", "send", "wait", "over"}, wake : {"nobody", "producer", "consumer"}]
ARun == [alive : BOOLEAN, pending : SUBSET DOMAIN Urls, fails : Nat, inRow : Nat, cookieDead : BOOLEAN]

\* Nothing is under way between the ends of the conveyor.
Quiet(a) == /\ a.queue = <<>> /\ ~a.ended /\ a.producer = "run" /\ a.consumer = "run" /\ a.wake = "nobody"
            /\ a.part = a.read /\ a.received = a.read
\* The queue holds the chunks from the one behind the last one taken to the last one read.
Between(u, a) ==
  /\ Len(a.queue) = a.read - a.part /\ \A k \in 1..Len(a.queue) : a.queue[k] = a.part + k
  /\ a.part <= a.read /\ a.read <= Size[u] /\ (a.ended => a.read = Size[u])
  /\ a.consumer \in {"run", "wait"} => a.part = a.received
  /\ a.consumer = "send" => a.part = a.received + 1 /\ a.held = a.part
  /\ a.consumer # "over"
\* Who waits holds the slot, and waits for what is not there.
Slot(a) ==
  /\ a.producer = "wait" <=> a.wake = "producer"
  /\ a.consumer = "wait" <=> a.wake = "consumer"
  /\ a.producer = "wait" => Len(a.queue) >= MaxQueue /\ ~a.ended
  /\ a.consumer = "wait" => a.queue = <<>> /\ ~a.ended

\* What the attempt a at the archive u has got across is in its session; e is the entry of u.
AttemptOK(u, a, S, e) ==
  /\ a \in AnAttempt
  /\ a.pc \in {"idle", "resume", "google", "init"} => Quiet(a)
  /\ a.pc \in {"idle", "resume", "init"} => a.id = 0 /\ a.read = 0
  /\ a.pc \in {"idle", "resume"} => a.from = 0
  /\ a.pc = "google" => IF a.id = 0 THEN a.from = 0 ELSE a.from <= Len(S[a.id].parts)
  /\ a.pc \in {"pipe", "complete"} => a.id # 0 /\ a.received <= Len(S[a.id].parts)
  /\ a.pc = "pipe" => Between(u, a) /\ Slot(a)
  /\ a.pc = "complete" => a.received = Size[u]
  /\ a.pc = "verify" => e = Takeout!Whole(u)
  /\ a.pc \in {"complete", "verify"} => a.producer = "run" /\ a.consumer = "over"

SessionsOK(S) == S \in [Id -> ASession] /\ \A i \in Id : \A k \in 1..Len(S[i].parts) : S[i].parts[k] = k
LateOK(L) == \A r \in L : r \in Id \X Nat \X Nat /\ r[2] = r[3]
\* The parcels an archive refers to are its own, and have no more of it than there is.
Refs(u) == {att[u].id, saved.progress[u]} \ {0}
Fitting(u, i) == Len(parcels[i].parts) <= Size[u] /\ \A r \in late : r[1] = i => r[2] <= Size[u]
RefsOK(u) == \A i \in Refs(u) : Fitting(u, i) /\ \A v \in Archives : i \in Refs(v) => v = u
Counted(u) == u \in saved.done \/ att[u].pc # "idle" \/ \E k \in run.pending : Urls[k] = u

CarryCore ==
  /\ saved \in ASaved /\ SessionsOK(parcels) /\ LateOK(late)
  /\ att \in [Archives -> AnAttempt] /\ entry \in [Archives -> Seq(Nat)]
  /\ \A u \in Archives : AttemptOK(u, att[u], parcels, entry[u]) /\ RefsOK(u)
CarryInv ==
  /\ CarryCore /\ run \in ARun
  /\ \A u \in Archives : entry[u] \in {<<>>, Takeout!Whole(u)} /\ (u \in saved.done => entry[u] = Takeout!Whole(u))
  /\ allDone => saved.done = Archives
  /\ run.alive /\ run.fails = 0 /\ ~run.cookieDead => \A u \in Archives : Counted(u)

LEMMA CarryNames ==
  /\ Takeout!Url = Archives /\ \A u \in Archives : Size[u] \in Nat
  /\ Takeout!None = 0 /\ Takeout!Nothing = <<>> /\ \A u \in Archives : Takeout!Whole(u) \in Seq(Nat)
<1>1. Takeout!Url = Archives
  BY DEF Takeout!Url, Takeout!ToSet, Archives
<1>2. \A u \in Archives : Size[u] \in Nat
  BY ServicesAssumption DEF Archives
<1>3. \A n \in Nat : [i \in 1..n |-> i] \in Seq(Nat)
  OBVIOUS
<1> QED BY <1>1, <1>2, <1>3 DEF Takeout!None, Takeout!Nothing, Takeout!Whole

LEMMA CarryTrue == CarryInv => Takeout!CarriedWhole /\ Takeout!NobodySleepsInVain
<1> SUFFICES ASSUME CarryInv PROVE Takeout!CarriedWhole /\ Takeout!NobodySleepsInVain
  OBVIOUS
<1>1. Takeout!CarriedWhole
  BY CarryNames DEF CarryInv, CarryCore, Takeout!CarriedWhole, ASaved
<1>2. ASSUME NEW u \in Archives
      PROVE  /\ att[u].producer = "wait" => att[u].wake = "producer" /\ Len(att[u].queue) >= MaxQueue
             /\ att[u].consumer = "wait" => att[u].wake = "consumer" /\ att[u].queue = <<>> /\ ~att[u].ended
  <2> DEFINE a == att[u]
  <2>1. AttemptOK(u, a, parcels, entry[u])
    BY DEF CarryInv, CarryCore
  <2> HIDE DEF a
  <2>2. a.pc = "pipe" => Slot(a)
    BY <2>1 DEF AttemptOK
  <2>3. a.pc # "pipe" => a.producer = "run" /\ a.consumer \in {"run", "over"}
    BY <2>1 DEF AttemptOK, Quiet, AnAttempt
  <2>4. /\ a.producer = "wait" => a.wake = "producer" /\ Len(a.queue) >= MaxQueue
        /\ a.consumer = "wait" => a.wake = "consumer" /\ a.queue = <<>> /\ ~a.ended
    BY <2>2, <2>3 DEF Slot
  <2> QED BY <2>4 DEF a
<1>3. Takeout!NobodySleepsInVain
  BY <1>2, CarryNames DEF Takeout!NobodySleepsInVain
<1> QED BY <1>1, <1>3

\* An attempt that has not begun.
LEMMA NoAttemptIsFresh ==
  LET a == Takeout!NoAttempt IN a \in AnAttempt /\ Quiet(a) /\ a.id = 0 /\ a.read = 0 /\ a.from = 0 /\ a.pc = "idle"
<1> DEFINE a == Takeout!NoAttempt
<1>1. a \in AnAttempt
  BY DEF AnAttempt, Takeout!NoAttempt, Takeout!None
<1>2. Quiet(a)
  BY DEF Takeout!NoAttempt, Quiet
<1>3. a.id = 0 /\ a.read = 0 /\ a.from = 0 /\ a.pc = "idle"
  BY DEF Takeout!NoAttempt, Takeout!None
<1> QED BY <1>1, <1>2, <1>3

LEMMA FreshAttempt ==
  ASSUME NEW u, NEW S, NEW e, NEW pc \in {"resume", "init"}, NEW a, a = [Takeout!NoAttempt EXCEPT !.pc = pc]
  PROVE  AttemptOK(u, a, S, e) /\ a.id = 0 /\ a.pc = pc
<1> DEFINE b == Takeout!NoAttempt
<1>1. b \in AnAttempt /\ Quiet(b) /\ b.id = 0 /\ b.read = 0 /\ b.from = 0
  BY NoAttemptIsFresh
<1>2. a = [b EXCEPT !.pc = pc]
  OBVIOUS
<1> HIDE DEF b
<1>3. a \in AnAttempt /\ Quiet(a) /\ a.id = 0 /\ a.read = 0 /\ a.from = 0 /\ a.pc = pc
  BY <1>1, <1>2 DEF AnAttempt, Quiet
<1> QED BY <1>3 DEF AttemptOK

LEMMA IdleAttempt ==
  ASSUME NEW u, NEW S, NEW e
  PROVE  AttemptOK(u, Takeout!NoAttempt, S, e) /\ (Takeout!NoAttempt).id = 0 /\ (Takeout!NoAttempt).pc = "idle"
BY NoAttemptIsFresh DEF AttemptOK

LEMMA NewRunCounts ==
  ASSUME NEW done
  PROVE  /\ Takeout!NewRun(done) \in ARun /\ \A u \in Archives : u \in done \/ \E k \in Takeout!NewRun(done).pending : Urls[k] = u
BY DEF Takeout!NewRun, ARun, Archives

LEMMA CarryFirst == Takeout!TInit => CarryInv
<1> SUFFICES ASSUME Takeout!TInit PROVE CarryInv
  OBVIOUS
<1>1. /\ saved = [done |-> {}, progress |-> [u \in Archives |-> 0], suspect |-> {}]
      /\ parcels = [i \in Id |-> [there |-> FALSE, done |-> FALSE, parts |-> <<>>]]
      /\ late = {} /\ entry = [u \in Archives |-> <<>>] /\ att = [u \in Archives |-> Takeout!NoAttempt]
      /\ run = Takeout!NewRun({}) /\ allDone = FALSE
  <2>1. Takeout!Url = Archives /\ Takeout!None = 0 /\ Takeout!Nothing = <<>>
    BY CarryNames
  <2> QED BY <2>1, Zenon DEF Takeout!TInit
<1>2. saved \in ASaved /\ saved.done = {}
  BY <1>1 DEF ASaved
<1>3. SessionsOK(parcels)
  <2>1. <<>> \in Seq(Nat) /\ Len(<<>>) = 0
    OBVIOUS
  <2>2. \A i \in Id : parcels[i] \in ASession /\ parcels[i].parts = <<>>
    BY <1>1 DEF ASession
  <2> QED BY <1>1, <2>1, <2>2 DEF SessionsOK
<1>4. \A u \in Archives : AttemptOK(u, att[u], parcels, entry[u]) /\ att[u].id = 0
  BY <1>1, IdleAttempt
<1>5. att \in [Archives -> AnAttempt]
  BY <1>1, <1>4 DEF AttemptOK
<1>6. \A u \in Archives : Refs(u) = {}
  BY <1>1, <1>4 DEF Refs
<1>7. \A u \in Archives : Counted(u)
  BY <1>1, NewRunCounts DEF Counted
<1>8. run \in ARun
  BY <1>1, NewRunCounts
<1>9. entry \in [Archives -> Seq(Nat)] /\ LateOK(late) /\ ~allDone /\ \A u \in Archives : entry[u] = <<>>
  BY <1>1 DEF LateOK
<1>10. \A u \in Archives : RefsOK(u)
  BY <1>6 DEF RefsOK
<1> QED BY <1>2, <1>3, <1>4, <1>5, <1>7, <1>8, <1>9, <1>10 DEF CarryInv, CarryCore

\* A session that has got more does an attempt no harm.
LEMMA AttemptStays ==
  ASSUME NEW v, NEW S, NEW T, NEW e, NEW b, AttemptOK(v, b, S, e),
         b.id # 0 => /\ Len(S[b.id].parts) \in Nat /\ Len(T[b.id].parts) \in Nat
                     /\ Len(S[b.id].parts) <= Len(T[b.id].parts)
  PROVE  AttemptOK(v, b, T, e)
<1>1. b.from \in Nat /\ b.received \in Nat
  BY DEF AttemptOK, AnAttempt
<1>2. b.id # 0 => /\ b.from <= Len(S[b.id].parts) => b.from <= Len(T[b.id].parts)
                  /\ b.received <= Len(S[b.id].parts) => b.received <= Len(T[b.id].parts)
  <2> SUFFICES ASSUME b.id # 0
               PROVE  /\ b.from <= Len(S[b.id].parts) => b.from <= Len(T[b.id].parts)
                      /\ b.received <= Len(S[b.id].parts) => b.received <= Len(T[b.id].parts)
    OBVIOUS
  <2>1. PICK x \in Nat, y \in Nat : x = Len(S[b.id].parts) /\ y = Len(T[b.id].parts) /\ x <= y
    OBVIOUS
  <2>2. PICK f \in Nat, r \in Nat : f = b.from /\ r = b.received
    BY <1>1
  <2>3. (f <= x => f <= y) /\ (r <= x => r <= y)
    BY <2>1
  <2> QED BY <2>1, <2>2, <2>3
<1> QED BY <1>2 DEF AttemptOK

\* One attempt moves on.
LEMMA CoreMoves ==
  ASSUME CarryCore, NEW u \in Archives, NEW a, att' = [att EXCEPT ![u] = a], AttemptOK(u, a, parcels', entry'[u]),
         saved' \in ASaved, \A v \in Archives \ {u} : saved'.progress[v] = saved.progress[v] /\ entry'[v] = entry[v],
         \A i \in Refs(u)' : i \in Refs(u) \/ \A v \in Archives : i \notin Refs(v),
         SessionsOK(parcels'), LateOK(late'), entry' \in [Archives -> Seq(Nat)],
         \A v \in Archives : \A i \in Refs(v) : Len(parcels[i].parts) <= Len(parcels'[i].parts),
         \A v \in Archives : \A i \in Refs(v)' : Fitting(v, i)'
  PROVE  CarryCore'
<1>1. att' \in [Archives -> AnAttempt] /\ att'[u] = a /\ \A v \in Archives \ {u} : att'[v] = att[v]
  BY DEF CarryCore, AttemptOK
<1>2. \A v \in Archives \ {u} : Refs(v)' = Refs(v)
  BY <1>1 DEF Refs
<1>3. ASSUME NEW v \in Archives PROVE RefsOK(v)'
  <2> SUFFICES ASSUME NEW i \in Refs(v)', NEW w \in Archives, i \in Refs(w)' PROVE w = v
    BY DEF RefsOK
  <2>1. \A x, y \in Archives : i \in Refs(x) /\ i \in Refs(y) => x = y
    BY DEF CarryCore, RefsOK
  <2>2. CASE v = u
    BY <1>2, <2>1, <2>2
  <2>3. CASE w = u
    BY <1>2, <2>1, <2>3
  <2>4. CASE v # u /\ w # u
    BY <1>2, <2>1, <2>4
  <2> QED BY <2>2, <2>3, <2>4
<1>4. ASSUME NEW v \in Archives PROVE AttemptOK(v, att'[v], parcels', entry'[v])
  <2>1. CASE v = u
    BY <1>1, <2>1
  <2>2. CASE v # u
    <3> DEFINE b == att[v]
    <3>1. att'[v] = b /\ entry'[v] = entry[v] /\ AttemptOK(v, b, parcels, entry[v]) /\ b \in AnAttempt
      BY <1>1, <2>2 DEF CarryCore
    <3>2. b.id # 0 => Len(parcels[b.id].parts) <= Len(parcels'[b.id].parts)
      BY DEF Refs
    <3>3. \A i \in Id : Len(parcels[i].parts) \in Nat /\ Len(parcels'[i].parts) \in Nat
      BY DEF CarryCore, SessionsOK, ASession
    <3>4. b.id # 0 => b.id \in Id
      BY <3>1 DEF AnAttempt
    <3> HIDE DEF b
    <3> QED BY <3>1, <3>2, <3>3, <3>4, AttemptStays
  <2> QED BY <2>1, <2>2
<1> QED BY <1>1, <1>3, <1>4 DEF CarryCore

\* An attempt moves on by itself.
LEMMA CoreSame ==
  ASSUME CarryCore, NEW u \in Archives, NEW a, att' = [att EXCEPT ![u] = a], AttemptOK(u, a, parcels, entry[u]),
         a.id \in Refs(u) \cup {0}, saved' = saved, parcels' = parcels, late' = late, entry' = entry
  PROVE  CarryCore'
<1>1. att'[u] = a /\ \A v \in Archives \ {u} : att'[v] = att[v]
  BY DEF CarryCore
<1>2. \A v \in Archives : Refs(v)' \subseteq Refs(v)
  BY <1>1 DEF Refs
<1>3. \A v \in Archives : \A i \in Refs(v)' : Fitting(v, i)'
  BY <1>2 DEF CarryCore, RefsOK, Fitting
<1>4. \A v \in Archives : \A i \in Refs(v) : Len(parcels[i].parts) <= Len(parcels'[i].parts)
  <2>1. \A v \in Archives : Refs(v) \subseteq Id
    BY DEF CarryCore, Refs, ASaved, AnAttempt
  <2>2. \A i \in Id : Len(parcels[i].parts) \in Nat
    BY DEF CarryCore, SessionsOK, ASession
  <2> QED BY <2>1, <2>2
<1>5. saved' \in ASaved /\ SessionsOK(parcels') /\ LateOK(late') /\ entry' \in [Archives -> Seq(Nat)] /\ AttemptOK(u, a, parcels', entry'[u])
  BY DEF CarryCore
<1> QED BY <1>2, <1>3, <1>4, <1>5, CoreMoves

\* What is in the cloud and noted as done stays.
LEMMA CarryGoesOn ==
  ASSUME CarryInv, CarryCore', run' \in ARun, saved'.done = saved.done, allDone' = allDone,
         \A v \in Archives : entry'[v] = entry[v] \/ entry'[v] = Takeout!Whole(v),
         run'.alive /\ run'.fails = 0 /\ ~run'.cookieDead =>
           /\ run.alive /\ run.fails = 0 /\ ~run.cookieDead /\ run'.pending = run.pending
           /\ \A v \in Archives : att'[v].pc = "idle" => att[v].pc = "idle"
  PROVE  CarryInv'
<1>1. ASSUME run'.alive /\ run'.fails = 0 /\ ~run'.cookieDead, NEW v \in Archives PROVE Counted(v)'
  BY <1>1 DEF CarryInv, Counted
<1>2. ASSUME NEW v \in Archives
      PROVE  entry'[v] \in {<<>>, Takeout!Whole(v)}' /\ (v \in saved'.done => entry'[v] = Takeout!Whole(v)')
  BY DEF CarryInv, Takeout!Whole
<1>3. allDone' => saved'.done = Archives
  BY DEF CarryInv
<1> QED BY <1>1, <1>2, <1>3 DEF CarryInv

\* An attempt goes on by itself.
LEMMA CarrySame ==
  ASSUME CarryInv, NEW u \in Archives, NEW a, att' = [att EXCEPT ![u] = a], AttemptOK(u, a, parcels, entry[u]),
         a.id \in Refs(u) \cup {0}, a.pc # "idle", saved' = saved, parcels' = parcels, late' = late, entry' = entry,
         run' = run, allDone' = allDone
  PROVE  CarryInv'
<1>1. CarryCore'
  BY CoreSame DEF CarryInv
<1>2. \A v \in Archives : att'[v].pc = "idle" => att[v].pc = "idle"
  BY DEF CarryInv, CarryCore
<1>3. run' \in ARun /\ saved'.done = saved.done /\ \A v \in Archives : entry'[v] = entry[v]
  BY DEF CarryInv
<1> QED BY <1>1, <1>2, <1>3, CarryGoesOn

\* What an attempt at u is, and what its session has.
LEMMA AttemptFacts ==
  ASSUME CarryInv, NEW u \in Archives
  PROVE  /\ att[u] \in AnAttempt /\ AttemptOK(u, att[u], parcels, entry[u]) /\ Size[u] \in Nat
         /\ att[u].id \in Refs(u) \cup {0} /\ saved.progress[u] \in Refs(u) \cup {0} /\ Refs(u) \subseteq Id
         /\ \A i \in Refs(u) : /\ Len(parcels[i].parts) \in Nat /\ Len(parcels[i].parts) <= Size[u]
                               /\ parcels[i] \in ASession
                               /\ \A v \in Archives \ {u} : i \notin Refs(v)
<1>1. att[u] \in AnAttempt /\ AttemptOK(u, att[u], parcels, entry[u]) /\ RefsOK(u) /\ saved \in ASaved /\ SessionsOK(parcels)
  BY DEF CarryInv, CarryCore
<1>2. att[u].id \in Id \cup {0} /\ saved.progress[u] \in Id \cup {0}
  BY <1>1 DEF AnAttempt, ASaved
<1>3. att[u].id \in Refs(u) \cup {0} /\ saved.progress[u] \in Refs(u) \cup {0} /\ Refs(u) \subseteq Id
  BY <1>2 DEF Refs
<1>4. ASSUME NEW i \in Refs(u)
      PROVE  /\ Len(parcels[i].parts) \in Nat /\ Len(parcels[i].parts) <= Size[u] /\ parcels[i] \in ASession
             /\ \A v \in Archives \ {u} : i \notin Refs(v)
  <2>1. parcels[i] \in ASession
    BY <1>1, <1>3 DEF SessionsOK
  <2>2. Len(parcels[i].parts) \in Nat
    BY <2>1 DEF ASession
  <2>3. Len(parcels[i].parts) <= Size[u] /\ \A v \in Archives \ {u} : i \notin Refs(v)
    BY <1>1 DEF RefsOK, Fitting
  <2> QED BY <2>1, <2>2, <2>3
<1> QED BY <1>1, <1>3, <1>4, CarryNames

\* Whoever waited is awake, and the slot is empty.
LEMMA NotifiedIs ==
  ASSUME NEW a \in AnAttempt, a.producer = "wait" <=> a.wake = "producer", a.consumer = "wait" <=> a.wake = "consumer",
         NEW b, b = Takeout!Notified(a)
  PROVE  /\ b \in AnAttempt /\ b.pc = a.pc /\ b.id = a.id /\ b.from = a.from /\ b.part = a.part /\ b.received = a.received
         /\ b.read = a.read /\ b.queue = a.queue /\ b.held = a.held /\ b.ended = a.ended
         /\ b.wake = "nobody" /\ b.producer = "run" /\ b.consumer = IF a.consumer = "wait" THEN "run" ELSE a.consumer
<1>1. CASE a.wake = "producer"
  <2>1. b = [[a EXCEPT !.producer = "run"] EXCEPT !.wake = "nobody"]
    BY <1>1 DEF Takeout!Notified
  <2> QED BY <1>1, <2>1 DEF AnAttempt
<1>2. CASE a.wake = "consumer"
  <2>1. b = [[a EXCEPT !.consumer = "run"] EXCEPT !.wake = "nobody"]
    BY <1>2 DEF Takeout!Notified
  <2> QED BY <1>2, <2>1 DEF AnAttempt
<1>3. CASE a.wake = "nobody"
  <2>1. b = a
    BY <1>3 DEF Takeout!Notified
  <2> QED BY <1>3, <2>1 DEF AnAttempt
<1> QED BY <1>1, <1>2, <1>3 DEF AnAttempt

LEMMA Appended ==
  ASSUME NEW s \in Seq(Nat), NEW y \in Nat
  PROVE  /\ Append(s, y) \in Seq(Nat) /\ Len(Append(s, y)) = Len(s) + 1 /\ Append(s, y)[Len(s) + 1] = y
         /\ \A k \in 1..Len(s) : Append(s, y)[k] = s[k]
OBVIOUS

\* The producer has read one more chunk.
LEMMA ReadOne ==
  ASSUME NEW u \in Archives, Size[u] \in Nat, NEW a \in AnAttempt, Between(u, a), NEW x \in Nat, x = a.read + 1, x <= Size[u],
         NEW b \in AnAttempt, b.read = x, b.queue = Append(a.queue, x), b.part = a.part,
         b.received = a.received, b.held = a.held, b.ended => x = Size[u],
         b.consumer = IF a.consumer = "wait" THEN "run" ELSE a.consumer
  PROVE  Between(u, b)
<1>1. a.queue \in Seq(Nat) /\ a.read \in Nat /\ a.part \in Nat /\ Len(a.queue) \in Nat
  BY DEF AnAttempt
<1>2. Len(b.queue) = Len(a.queue) + 1 /\ b.queue[Len(a.queue) + 1] = x /\ \A k \in 1..Len(a.queue) : b.queue[k] = a.queue[k]
  <2>1. PICK q \in Seq(Nat) : q = a.queue
    BY <1>1
  <2>2. b.queue = Append(q, x)
    BY <2>1
  <2> QED BY <2>1, <2>2, Appended
<1>3. Len(b.queue) = b.read - b.part
  BY <1>1, <1>2 DEF Between
<1>4. \A k \in 1..Len(b.queue) : b.queue[k] = b.part + k
  BY <1>1, <1>2 DEF Between
<1>5. b.part <= b.read /\ b.read <= Size[u] /\ (b.ended => b.read = Size[u])
  BY <1>1 DEF Between
<1>6. /\ b.consumer \in {"run", "wait"} => b.part = b.received
      /\ b.consumer = "send" => b.part = b.received + 1 /\ b.held = b.part
      /\ b.consumer # "over"
  BY DEF Between
<1> QED BY <1>3, <1>4, <1>5, <1>6 DEF Between

\* The conveyor of an attempt has moved, and nothing but the conveyor.
LEMMA ConveyorMoves ==
  ASSUME NEW u, NEW S, NEW e, NEW a, AttemptOK(u, a, S, e), a.pc = "pipe", NEW b \in AnAttempt, b.pc = "pipe", b.id = a.id,
         b.received = a.received, Between(u, b), Slot(b)
  PROVE  AttemptOK(u, b, S, e)
BY DEF AttemptOK

\* The producer has read one more chunk and has told so.
Ahead(u, a, c) ==
  /\ a.pc = "pipe" /\ a.producer = "run" /\ a.read # Size[u]
  /\ c \in AnAttempt /\ c.pc = a.pc /\ c.id = a.id /\ c.received = a.received /\ c.part = a.part /\ c.held = a.held
  /\ c.read = a.read + 1 /\ c.queue = Append(a.queue, c.read) /\ (c.ended => c.read = Size[u])
  /\ c.producer = a.producer /\ c.consumer = a.consumer /\ c.wake = a.wake

LEMMA ReadAndNotify ==
  ASSUME NEW u \in Archives, Size[u] \in Nat, NEW S, NEW e, NEW a, AttemptOK(u, a, S, e), NEW c, Ahead(u, a, c),
         NEW b, b = Takeout!Notified(c)
  PROVE  AttemptOK(u, b, S, e) /\ b.id = a.id /\ b.pc = "pipe"
<1> PICK x : x = c.read
  OBVIOUS
<1>0. a.pc = "pipe" /\ c \in AnAttempt /\ c.producer = a.producer /\ c.consumer = a.consumer /\ c.wake = a.wake
      /\ c.pc = a.pc /\ c.id = a.id /\ c.received = a.received /\ c.part = a.part /\ c.held = a.held /\ c.queue = Append(a.queue, x)
      /\ (c.ended => x = Size[u]) /\ x = c.read
  BY DEF Ahead
<1>6. a.read # Size[u] /\ x = a.read + 1
  BY DEF Ahead
<1>1. a \in AnAttempt /\ Between(u, a) /\ Slot(a)
  BY <1>0 DEF AttemptOK
<1>2. /\ b \in AnAttempt /\ b.pc = "pipe" /\ b.id = a.id /\ b.received = a.received /\ b.read = x /\ b.queue = Append(a.queue, x)
      /\ b.part = a.part /\ b.held = a.held /\ b.wake = "nobody" /\ b.producer = "run" /\ (b.ended => x = Size[u])
      /\ b.consumer = IF a.consumer = "wait" THEN "run" ELSE a.consumer
  BY <1>0, <1>1, NotifiedIs DEF Slot
<1>5. x \in Nat /\ x <= Size[u]
  <2>1. PICK r \in Nat : r = a.read /\ r <= Size[u]
    BY <1>1 DEF AnAttempt, Between
  <2> QED BY <1>6, <2>1
<1>3. Between(u, b)
  BY <1>1, <1>2, <1>5, <1>6, ReadOne
<1>4. Slot(b)
  BY <1>2 DEF Slot
<1>7. b \in AnAttempt /\ b.pc = "pipe" /\ b.id = a.id /\ b.received = a.received /\ a.pc = "pipe"
  BY <1>0, <1>2
<1> QED BY <1>3, <1>4, <1>7, ConveyorMoves

LEMMA CarryProduce == ASSUME CarryInv, NEW u \in Archives, Takeout!Produce(u) PROVE CarryInv'
<1> DEFINE a == att[u]
<1>0. /\ a \in AnAttempt /\ AttemptOK(u, a, parcels, entry[u]) /\ Size[u] \in Nat /\ a.id \in Refs(u) \cup {0}
      /\ a.pc = "pipe" /\ a.producer = "run" /\ ~a.ended /\ MaxQueue \in Nat \ {0}
  BY AttemptFacts, ServicesAssumption DEF Takeout!Produce
<1>1. saved' = saved /\ parcels' = parcels /\ late' = late /\ entry' = entry /\ run' = run /\ allDone' = allDone
  BY DEF Takeout!Produce
<1>2. PICK x : x = a.read + 1
  OBVIOUS
<1> DEFINE t1 == Takeout!Notified([a EXCEPT !.ended = TRUE])
           t2 == Takeout!Notified([[[a EXCEPT !.read = x] EXCEPT !.queue = Append(a.queue, x)] EXCEPT !.ended = TRUE])
           t3 == Takeout!Notified([[a EXCEPT !.read = x] EXCEPT !.queue = Append(a.queue, x)])
           t4 == [[a EXCEPT !.producer = "wait"] EXCEPT !.wake = "producer"]
<1>3. \/ a.read = Size[u] /\ att' = [att EXCEPT ![u] = t1]
      \/ a.read # Size[u] /\ x = Size[u] /\ att' = [att EXCEPT ![u] = t2]
      \/ a.read # Size[u] /\ att' = [att EXCEPT ![u] = t3]
      \/ a.read # Size[u] /\ ~(Len(a.queue) < MaxQueue) /\ att' = [att EXCEPT ![u] = t4]
  <2>1. att' = [att EXCEPT ![u] =
                 CASE a.read = Size[u] -> t1
                   [] x = Size[u] /\ u \notin Even -> t2
                   [] ~(x = Size[u] /\ u \notin Even) /\ Len(a.queue) < MaxQueue -> t3
                   [] OTHER -> t4]
    BY <1>2 DEF Takeout!Produce, Takeout!Pushed
  <2>2. x # a.read
    BY <1>0, <1>2 DEF AnAttempt
  <2> HIDE DEF t1, t2, t3, t4
  <2>3. CASE a.read = Size[u]
    <3>1. x # Size[u]
      BY <2>2, <2>3
    <3>2. att' = [att EXCEPT ![u] = CASE TRUE -> t1 [] FALSE -> t2 [] FALSE /\ Len(a.queue) < MaxQueue -> t3 [] OTHER -> t4]
      BY <2>1, <2>3, <3>1
    <3> QED BY <2>3, <3>2
  <2>4. CASE a.read # Size[u] /\ x = Size[u] /\ u \notin Even
    BY <2>1, <2>4
  <2>5. CASE a.read # Size[u] /\ ~(x = Size[u] /\ u \notin Even) /\ Len(a.queue) < MaxQueue
    BY <2>1, <2>5
  <2>6. CASE a.read # Size[u] /\ ~(x = Size[u] /\ u \notin Even) /\ ~(Len(a.queue) < MaxQueue)
    BY <2>1, <2>6
  <2> QED BY <2>3, <2>4, <2>5, <2>6
<1> HIDE DEF a
<1>4. Between(u, a) /\ Slot(a)
  BY <1>0 DEF AttemptOK
<1>5. a.read \in Nat /\ a.part \in Nat /\ a.queue \in Seq(Nat) /\ a.read <= Size[u] /\ x \in Nat
  BY <1>0, <1>2, <1>4 DEF AnAttempt, Between
<1>6. \E b : att' = [att EXCEPT ![u] = b] /\ AttemptOK(u, b, parcels, entry[u]) /\ b.id = a.id /\ b.pc = "pipe"
  <2>1. CASE a.read = Size[u] /\ att' = [att EXCEPT ![u] = t1]
    <3> DEFINE c == [a EXCEPT !.ended = TRUE]
               b == Takeout!Notified(c)
    <3>1. c \in AnAttempt /\ c.pc = "pipe" /\ c.id = a.id /\ c.received = a.received /\ c.read = a.read /\ c.queue = a.queue
          /\ c.part = a.part /\ c.held = a.held /\ c.producer = a.producer /\ c.consumer = a.consumer /\ c.wake = a.wake
      BY <1>0 DEF AnAttempt
    <3>2. att' = [att EXCEPT ![u] = b]
      BY <2>1
    <3> HIDE DEF c
    <3>3. /\ b \in AnAttempt /\ b.pc = "pipe" /\ b.id = a.id /\ b.received = a.received /\ b.read = a.read /\ b.queue = a.queue
          /\ b.part = a.part /\ b.held = a.held /\ b.wake = "nobody" /\ b.producer = "run"
          /\ b.consumer = IF a.consumer = "wait" THEN "run" ELSE a.consumer
      BY <1>4, <3>1, NotifiedIs DEF Slot
    <3> HIDE DEF b
    <3>4. Between(u, b)
      BY <1>4, <2>1, <3>3 DEF Between
    <3>5. Slot(b)
      BY <3>3 DEF Slot
    <3> QED BY <1>0, <3>2, <3>3, <3>4, <3>5, ConveyorMoves
  <2>2. CASE /\ a.read # Size[u]
             /\ \/ x = Size[u] /\ att' = [att EXCEPT ![u] = t2]
                \/ att' = [att EXCEPT ![u] = t3]
    <3>1. PICK q \in Seq(Nat) : q = Append(a.queue, x)
      BY <1>5, Appended
    <3> DEFINE c2 == [[[a EXCEPT !.read = x] EXCEPT !.queue = q] EXCEPT !.ended = TRUE]
               c3 == [[a EXCEPT !.read = x] EXCEPT !.queue = q]
    <3>2. /\ c2 \in AnAttempt /\ c2.pc = "pipe" /\ c2.id = a.id /\ c2.received = a.received /\ c2.read = x /\ c2.queue = q
          /\ c2.part = a.part /\ c2.held = a.held /\ c2.producer = a.producer /\ c2.consumer = a.consumer /\ c2.wake = a.wake
      BY <1>0, <1>5 DEF AnAttempt
    <3>3. /\ c3 \in AnAttempt /\ c3.pc = "pipe" /\ c3.id = a.id /\ c3.received = a.received /\ c3.read = x /\ c3.queue = q
          /\ c3.part = a.part /\ c3.held = a.held /\ c3.producer = a.producer /\ c3.consumer = a.consumer /\ c3.wake = a.wake
          /\ ~c3.ended
      BY <1>0, <1>5 DEF AnAttempt
    <3>4. t2 = Takeout!Notified(c2) /\ t3 = Takeout!Notified(c3)
      BY <3>1
    <3>5. x <= Size[u]
      BY <1>0, <1>2, <1>5, <2>2
    <3> HIDE DEF c2, c3, t2, t3
    <3>6. CASE x = Size[u] /\ att' = [att EXCEPT ![u] = t2]
      <4>0. Ahead(u, a, c2)
        BY <1>0, <1>2, <2>2, <3>1, <3>2, <3>6 DEF Ahead
      <4>1. AttemptOK(u, t2, parcels, entry[u]) /\ t2.id = a.id /\ t2.pc = "pipe"
        BY <1>0, <3>2, <3>4, <4>0, ReadAndNotify
      <4> QED BY <3>6, <4>1
    <3>7. CASE att' = [att EXCEPT ![u] = t3]
      <4>0. Ahead(u, a, c3)
        BY <1>0, <1>2, <2>2, <3>1, <3>3 DEF Ahead
      <4>1. AttemptOK(u, t3, parcels, entry[u]) /\ t3.id = a.id /\ t3.pc = "pipe"
        BY <1>0, <3>3, <3>4, <4>0, ReadAndNotify
      <4> QED BY <3>7, <4>1
    <3> QED BY <2>2, <3>6, <3>7
  <2>3. CASE a.read # Size[u] /\ ~(Len(a.queue) < MaxQueue) /\ att' = [att EXCEPT ![u] = t4]
    <3> DEFINE b == [[a EXCEPT !.producer = "wait"] EXCEPT !.wake = "producer"]
    <3>1. att' = [att EXCEPT ![u] = b]
      BY <2>3
    <3>2. /\ b \in AnAttempt /\ b.pc = "pipe" /\ b.id = a.id /\ b.received = a.received /\ b.read = a.read /\ b.queue = a.queue
          /\ b.part = a.part /\ b.held = a.held /\ b.wake = "producer" /\ b.producer = "wait" /\ b.ended = a.ended
          /\ b.consumer = a.consumer
      BY <1>0 DEF AnAttempt
    <3> HIDE DEF b
    <3>3. Between(u, b)
      BY <1>4, <3>2 DEF Between
    <3>4. PICK n \in Nat : n = Len(a.queue)
      BY <1>5
    <3>5. n >= MaxQueue /\ n # 0
      BY <1>0, <2>3, <3>4
    <3>6. a.queue # <<>>
      BY <3>4, <3>5
    <3>7. Slot(b)
      BY <1>0, <1>4, <3>2, <3>4, <3>5, <3>6 DEF Slot
    <3> QED BY <1>0, <3>1, <3>2, <3>3, <3>7, ConveyorMoves
  <2> QED BY <1>3, <2>1, <2>2, <2>3
<1>7. PICK b : att' = [att EXCEPT ![u] = b] /\ AttemptOK(u, b, parcels, entry[u]) /\ b.id = a.id /\ b.pc = "pipe"
  BY <1>6
<1> QED BY <1>0, <1>1, <1>7, CarrySame

LEMMA Tailed ==
  ASSUME NEW s \in Seq(Nat), s # <<>>
  PROVE  /\ Tail(s) \in Seq(Nat) /\ Len(Tail(s)) = Len(s) - 1 /\ Len(s) >= 1 /\ Head(s) \in Nat /\ Head(s) = s[1]
         /\ \A k \in 1..Len(Tail(s)) : Tail(s)[k] = s[k + 1]
OBVIOUS

\* The consumer has taken the chunk at the head.
LEMMA ShiftOne ==
  ASSUME NEW u \in Archives, Size[u] \in Nat, NEW a \in AnAttempt, Between(u, a), a.consumer = "run", a.queue # <<>>,
         NEW x \in Nat, x = a.part + 1, NEW b \in AnAttempt, b.queue = Tail(a.queue), b.held = Head(a.queue), b.part = x,
         b.read = a.read, b.received = a.received, b.ended = a.ended, b.consumer = "send"
  PROVE  Between(u, b)
<1>0. PICK q \in Seq(Nat), r \in Nat, p \in Nat : q = a.queue /\ r = a.read /\ p = a.part /\ q # <<>>
  BY DEF AnAttempt
<1>1. Len(q) = r - p /\ (\A k \in 1..Len(q) : q[k] = p + k) /\ p <= r /\ r <= Size[u] /\ (a.ended => r = Size[u]) /\ p = a.received
  BY <1>0 DEF Between
<1>2. Len(q) \in Nat /\ Len(q) >= 1 /\ q[1] = x /\ x = p + 1
  BY <1>0, <1>1, Tailed
<1>3. Len(Tail(q)) = r - x /\ x <= r
  <2>1. PICK m \in Nat : m = Len(q) /\ m >= 1 /\ m = r - p
    BY <1>1, <1>2
  <2>2. Len(Tail(q)) = m - 1
    BY <1>0, <2>1, Tailed
  <2>3. x = p + 1 /\ r \in Nat /\ p \in Nat
    BY <1>0, <1>2
  <2>4. m = r - p /\ m >= 1
    BY <2>1
  <2>5. m - 1 = r - x
    BY <2>3, <2>4
  <2>6. x <= r
    BY <2>3, <2>4
  <2> QED BY <2>2, <2>5, <2>6
<1>4. ASSUME NEW k \in 1..Len(Tail(q)) PROVE Tail(q)[k] = x + k
  <2>1. Tail(q)[k] = q[k + 1]
    BY <1>0, Tailed
  <2>2. k + 1 \in 1..Len(q) /\ k \in Nat
    BY <1>0, <1>2, Tailed
  <2>3. q[k + 1] = p + (k + 1)
    BY <1>1, <2>2
  <2> QED BY <1>0, <1>2, <2>1, <2>2, <2>3
<1>5. b.held = x
  BY <1>0, <1>2, Tailed
<1>6. b.queue = Tail(q) /\ b.read = r
  BY <1>0
<1>7. Len(b.queue) = b.read - b.part /\ (\A k \in 1..Len(b.queue) : b.queue[k] = b.part + k)
  BY <1>3, <1>4, <1>6
<1>8. b.part <= b.read /\ b.read <= Size[u] /\ (b.ended => b.read = Size[u])
  BY <1>1, <1>3, <1>6
<1>9. b.part = b.received + 1 /\ b.held = b.part
  BY <1>1, <1>2, <1>5
<1> QED BY <1>7, <1>8, <1>9 DEF Between

Behind(a, c) ==
  /\ a.pc = "pipe" /\ a.consumer = "run" /\ a.queue # <<>>
  /\ c \in AnAttempt /\ c.pc = a.pc /\ c.id = a.id /\ c.received = a.received /\ c.read = a.read /\ c.ended = a.ended
  /\ c.part = a.part + 1 /\ c.queue = Tail(a.queue) /\ c.held = Head(a.queue)
  /\ c.producer = a.producer /\ c.consumer = "send" /\ c.wake = a.wake

LEMMA ShiftAndNotify ==
  ASSUME NEW u \in Archives, Size[u] \in Nat, NEW S, NEW e, NEW a, AttemptOK(u, a, S, e), NEW c, Behind(a, c),
         NEW b, b = Takeout!Notified(c)
  PROVE  AttemptOK(u, b, S, e) /\ b.id = a.id /\ b.pc = "pipe"
<1> PICK x : x = c.part
  OBVIOUS
<1>0. a.pc = "pipe" /\ a.consumer = "run" /\ a.queue # <<>>
      /\ c \in AnAttempt /\ c.producer = a.producer /\ c.consumer = "send" /\ c.wake = a.wake
      /\ c.pc = a.pc /\ c.id = a.id /\ c.received = a.received /\ c.read = a.read /\ c.held = Head(a.queue) /\ c.queue = Tail(a.queue)
      /\ c.ended = a.ended /\ x = c.part
  BY DEF Behind
<1>1. x = a.part + 1
  BY DEF Behind
<1>2. a \in AnAttempt /\ Between(u, a) /\ Slot(a)
  BY <1>0 DEF AttemptOK
<1>3. /\ b \in AnAttempt /\ b.pc = "pipe" /\ b.id = a.id /\ b.received = a.received /\ b.read = a.read /\ b.queue = Tail(a.queue)
      /\ b.part = x /\ b.held = Head(a.queue) /\ b.wake = "nobody" /\ b.producer = "run" /\ b.ended = a.ended /\ b.consumer = "send"
  BY <1>0, <1>2, NotifiedIs DEF Slot
<1>4. x \in Nat
  BY <1>0 DEF AnAttempt
<1>5. Between(u, b)
  BY <1>0, <1>1, <1>2, <1>3, <1>4, ShiftOne
<1>6. Slot(b)
  BY <1>3 DEF Slot
<1>7. b \in AnAttempt /\ b.pc = "pipe" /\ b.id = a.id /\ b.received = a.received /\ a.pc = "pipe"
  BY <1>0, <1>3
<1> QED BY <1>5, <1>6, <1>7, ConveyorMoves

LEMMA CarryConsume == ASSUME CarryInv, NEW u \in Archives, Takeout!Consume(u) PROVE CarryInv'
<1> DEFINE a == att[u]
<1>0. /\ a \in AnAttempt /\ AttemptOK(u, a, parcels, entry[u]) /\ Size[u] \in Nat /\ a.id \in Refs(u) \cup {0}
      /\ a.pc = "pipe" /\ a.consumer = "run" /\ MaxQueue \in Nat \ {0}
  BY AttemptFacts, ServicesAssumption DEF Takeout!Consume
<1>1. saved' = saved /\ parcels' = parcels /\ late' = late /\ entry' = entry /\ run' = run /\ allDone' = allDone
  BY DEF Takeout!Consume
<1>2. PICK x : x = a.part + 1
  OBVIOUS
<1> DEFINE c1 == [[[[a EXCEPT !.queue = Tail(a.queue)] EXCEPT !.held = Head(a.queue)] EXCEPT !.part = x] EXCEPT !.consumer = "send"]
           t1 == Takeout!Notified(c1)
           t2 == [[a EXCEPT !.pc = "complete"] EXCEPT !.consumer = "over"]
           t3 == [[a EXCEPT !.consumer = "wait"] EXCEPT !.wake = "consumer"]
<1>3. \/ a.queue # <<>> /\ att' = [att EXCEPT ![u] = t1]
      \/ a.queue = <<>> /\ a.ended /\ att' = [att EXCEPT ![u] = t2]
      \/ a.queue = <<>> /\ ~a.ended /\ att' = [att EXCEPT ![u] = t3]
  <2>1. att' = [att EXCEPT ![u] =
                 CASE a.queue # <<>> -> t1
                   [] a.queue = <<>> /\ a.ended -> t2
                   [] OTHER -> t3]
    BY <1>2 DEF Takeout!Consume, Takeout!Shifted
  <2> HIDE DEF t1, t2, t3
  <2>2. CASE a.queue # <<>>
    BY <2>1, <2>2
  <2>3. CASE a.queue = <<>> /\ a.ended
    BY <2>1, <2>3
  <2>4. CASE a.queue = <<>> /\ ~a.ended
    BY <2>1, <2>4
  <2> QED BY <2>2, <2>3, <2>4
<1> HIDE DEF a
<1>4. Between(u, a) /\ Slot(a) /\ a.id # 0 /\ a.received <= Len(parcels[a.id].parts)
  BY <1>0 DEF AttemptOK
<1>5. a.queue \in Seq(Nat) /\ a.part \in Nat /\ a.read \in Nat /\ x \in Nat
  BY <1>0, <1>2 DEF AnAttempt
<1>6. \E b : att' = [att EXCEPT ![u] = b] /\ AttemptOK(u, b, parcels, entry[u]) /\ b.id = a.id /\ b.pc # "idle"
  <2>1. CASE a.queue # <<>> /\ att' = [att EXCEPT ![u] = t1]
    <3>1. PICK q \in Seq(Nat), h \in Nat : q = Tail(a.queue) /\ h = Head(a.queue)
      BY <1>5, <2>1, Tailed
    <3>2. c1 = [[[[a EXCEPT !.queue = q] EXCEPT !.held = h] EXCEPT !.part = x] EXCEPT !.consumer = "send"]
      BY <3>1
    <3> HIDE DEF c1
    <3>3. c1 \in AnAttempt /\ c1.pc = a.pc /\ c1.id = a.id /\ c1.received = a.received /\ c1.read = a.read /\ c1.ended = a.ended
          /\ c1.part = x /\ c1.queue = q /\ c1.held = h /\ c1.producer = a.producer /\ c1.consumer = "send" /\ c1.wake = a.wake
      BY <1>0, <1>5, <3>2 DEF AnAttempt
    <3>4. Behind(a, c1)
      BY <1>0, <1>2, <2>1, <3>1, <3>3 DEF Behind
    <3>5. t1 = Takeout!Notified(c1)
      OBVIOUS
    <3> HIDE DEF t1
    <3>6. AttemptOK(u, t1, parcels, entry[u]) /\ t1.id = a.id /\ t1.pc = "pipe"
      BY <1>0, <3>4, <3>5, ShiftAndNotify
    <3> QED BY <2>1, <3>6
  <2>2. CASE a.queue = <<>> /\ a.ended /\ att' = [att EXCEPT ![u] = t2]
    <3>1. t2 \in AnAttempt /\ t2.pc = "complete" /\ t2.consumer = "over" /\ t2.id = a.id /\ t2.received = a.received
          /\ t2.producer = a.producer
      BY <1>0 DEF AnAttempt
    <3>2. a.received = Size[u]
      <4>1. PICK q \in Seq(Nat), r \in Nat, p \in Nat : q = a.queue /\ r = a.read /\ p = a.part
        BY <1>5
      <4>2. Len(q) = 0 /\ Len(q) = r - p /\ p = a.received /\ r = Size[u]
        BY <1>0, <1>4, <2>2, <4>1 DEF Between
      <4> QED BY <4>1, <4>2
    <3>3. a.producer = "run"
      BY <1>0, <1>4, <2>2 DEF Slot, AnAttempt
    <3> HIDE DEF t2
    <3>4. AttemptOK(u, t2, parcels, entry[u])
      BY <1>4, <3>1, <3>2, <3>3 DEF AttemptOK
    <3> QED BY <2>2, <3>1, <3>4
  <2>3. CASE a.queue = <<>> /\ ~a.ended /\ att' = [att EXCEPT ![u] = t3]
    <3>1. /\ t3 \in AnAttempt /\ t3.pc = "pipe" /\ t3.id = a.id /\ t3.received = a.received /\ t3.read = a.read /\ t3.queue = a.queue
          /\ t3.part = a.part /\ t3.held = a.held /\ t3.wake = "consumer" /\ t3.producer = a.producer /\ t3.ended = a.ended
          /\ t3.consumer = "wait"
      BY <1>0 DEF AnAttempt
    <3> HIDE DEF t3
    <3>2. a.producer = "run"
      <4>1. Len(a.queue) = 0
        BY <2>3
      <4>2. ~(Len(a.queue) >= MaxQueue)
        BY <1>0, <4>1
      <4> QED BY <1>0, <1>4, <4>2 DEF Slot, AnAttempt
    <3>3. Between(u, t3)
      BY <1>0, <1>4, <3>1 DEF Between
    <3>4. Slot(t3)
      BY <2>3, <3>1, <3>2 DEF Slot
    <3>5. t3.pc # "idle"
      BY <3>1
    <3> QED BY <1>0, <2>3, <3>1, <3>3, <3>4, <3>5, ConveyorMoves
  <2> QED BY <1>3, <2>1, <2>2, <2>3
<1>7. PICK b : att' = [att EXCEPT ![u] = b] /\ AttemptOK(u, b, parcels, entry[u]) /\ b.id = a.id /\ b.pc # "idle"
  BY <1>6
<1> QED BY <1>0, <1>1, <1>7, CarrySame

\* An attempt moves on, no session loses or gets a chunk, and no other attempt is concerned.
LEMMA CoreKeeps ==
  ASSUME CarryCore, NEW u \in Archives, NEW a, att' = [att EXCEPT ![u] = a], AttemptOK(u, a, parcels', entry'[u]),
         a.id \in Refs(u) \cup {0}, saved' \in ASaved, saved'.progress[u] \in Refs(u) \cup {0},
         \A v \in Archives \ {u} : saved'.progress[v] = saved.progress[v] /\ entry'[v] = entry[v],
         parcels' \in [Id -> ASession], \A i \in Id : parcels'[i].parts = parcels[i].parts,
         entry' \in [Archives -> Seq(Nat)], LateOK(late'),
         \A r \in late' : r \in late \/ (r[1] \in Refs(u) /\ r[2] <= Size[u])
  PROVE  CarryCore'
<1>1. att'[u] = a /\ \A v \in Archives \ {u} : att'[v] = att[v]
  BY DEF CarryCore
<1>2. \A v \in Archives : Refs(v)' \subseteq Refs(v) /\ Refs(v) \subseteq Id
  BY <1>1 DEF Refs, CarryCore, ASaved, AnAttempt
<1>3. \A i \in Id : parcels'[i].parts = parcels[i].parts /\ Len(parcels[i].parts) \in Nat
  BY DEF CarryCore, SessionsOK, ASession
<1>4. SessionsOK(parcels')
  <2>1. \A i \in Id : \A k \in 1..Len(parcels[i].parts) : parcels[i].parts[k] = k
    BY DEF CarryCore, SessionsOK
  <2> QED BY <2>1, <1>3 DEF SessionsOK
<1>5. ASSUME NEW v \in Archives, NEW i \in Refs(v)' PROVE Fitting(v, i)'
  <2>1. i \in Refs(v) /\ i \in Id /\ Fitting(v, i) /\ \A w \in Archives : i \in Refs(w) => w = v
    BY <1>2 DEF CarryCore, RefsOK
  <2>2. Len(parcels'[i].parts) <= Size[v]
    BY <1>3, <2>1 DEF Fitting
  <2>3. ASSUME NEW r \in late', r[1] = i PROVE r[2] <= Size[v]
    <3>1. CASE r \in late
      BY <2>1, <2>3, <3>1 DEF Fitting
    <3>2. CASE r[1] \in Refs(u) /\ r[2] <= Size[u]
      <4>1. u = v
        BY <2>1, <2>3, <3>2
      <4> QED BY <3>2, <4>1
    <3> QED BY <3>1, <3>2
  <2> QED BY <2>2, <2>3 DEF Fitting
<1>6. \A v \in Archives : \A i \in Refs(v) : Len(parcels[i].parts) <= Len(parcels'[i].parts)
  BY <1>2, <1>3
<1>7. \A i \in Refs(u)' : i \in Refs(u)
  BY <1>2
<1> QED BY <1>4, <1>5, <1>6, <1>7, CoreMoves

\* The request of an attempt that is given up is one for its own session.
LEMMA AbandonedIs ==
  ASSUME CarryCore, NEW u \in Archives, NEW r \in Takeout!Abandoned(u), Size[u] \in Nat
  PROVE  r \in Id \X Nat \X Nat /\ r[2] = r[3] /\ r[1] \in Refs(u) /\ r[2] <= Size[u]
<1> DEFINE a == att[u]
<1>1. a \in AnAttempt /\ AttemptOK(u, a, parcels, entry[u]) /\ (a.id # 0 => a.id \in Refs(u))
  BY DEF CarryCore, Refs
<1>2. a.consumer = "send" /\ r = <<a.id, a.part, a.held>>
  BY DEF Takeout!Abandoned
<1> HIDE DEF a
<1>3. a.pc = "pipe"
  BY <1>1, <1>2 DEF AttemptOK, Quiet, AnAttempt
<1>4. a.id # 0 /\ Between(u, a)
  BY <1>1, <1>3 DEF AttemptOK
<1>5. a.held = a.part /\ a.part \in Nat /\ a.id \in Id
  BY <1>1, <1>2, <1>4 DEF Between, AnAttempt
<1>6. a.part <= Size[u]
  <2>1. PICK p \in Nat, q \in Nat : p = a.part /\ q = a.read
    BY <1>1 DEF AnAttempt
  <2>2. p <= q /\ q <= Size[u]
    BY <1>4, <2>1 DEF Between
  <2> QED BY <2>1, <2>2
<1> QED BY <1>1, <1>2, <1>4, <1>5, <1>6

\* An attempt is given up.
LEMMA GaveUp ==
  ASSUME CarryInv, NEW u \in Archives, Takeout!GiveUp(u), parcels' \in [Id -> ASession],
         \A i \in Id : parcels'[i].parts = parcels[i].parts,
         entry' \in [Archives -> Seq(Nat)], \A v \in Archives \ {u} : entry'[v] = entry[v],
         entry'[u] = entry[u] \/ entry'[u] = Takeout!Whole(u), allDone' = allDone
  PROVE  CarryInv'
<1>0. CarryCore /\ Size[u] \in Nat /\ att[u].id \in Refs(u) \cup {0} /\ saved.progress[u] \in Refs(u) \cup {0} /\ saved \in ASaved
      /\ run \in ARun /\ Refs(u) \subseteq Id
  BY AttemptFacts DEF CarryInv, CarryCore
<1>1. att' = [att EXCEPT ![u] = Takeout!NoAttempt]
  BY DEF Takeout!GiveUp
<1>2. AttemptOK(u, Takeout!NoAttempt, parcels', entry'[u]) /\ (Takeout!NoAttempt).id = 0
  BY IdleAttempt
<1>3. saved' \in ASaved /\ saved'.done = saved.done /\ saved'.progress[u] \in Refs(u) \cup {0}
      /\ \A v \in Archives \ {u} : saved'.progress[v] = saved.progress[v]
  <2>1. CASE saved' = saved
    BY <1>0, <2>1
  <2>2. CASE saved' = [saved EXCEPT !.progress[u] = att[u].id]
    BY <1>0, <2>2 DEF ASaved
  <2> QED BY <2>1, <2>2 DEF Takeout!GiveUp
<1>4. \A r \in late' : r \in late \/ r \in Takeout!Abandoned(u)
  BY DEF Takeout!GiveUp
<1>5. LateOK(late') /\ \A r \in late' : r \in late \/ (r[1] \in Refs(u) /\ r[2] <= Size[u])
  BY <1>0, <1>4, AbandonedIs DEF CarryCore, LateOK
<1>6. CarryCore'
  BY <1>0, <1>1, <1>2, <1>3, <1>5, CoreKeeps
<1>7. run' \in ARun /\ run'.fails # 0
  <2>1. PICK f \in Nat, n \in Nat : f = run.fails + 1 /\ n = run.inRow + 1 /\ f # 0
    BY <1>0 DEF ARun
  <2>2. run' = [[run EXCEPT !.fails = f] EXCEPT !.inRow = n]
    BY <2>1 DEF Takeout!GiveUp
  <2>3. run' \in ARun /\ run'.fails = f
    BY <1>0, <2>2 DEF ARun
  <2> QED BY <2>1, <2>3
<1> QED BY <1>3, <1>6, <1>7, CarryGoesOn

LEMMA CarryResume == ASSUME CarryInv, NEW u \in Archives, Takeout!Resume(u) PROVE CarryInv'
<1> DEFINE a == att[u]
           i == saved.progress[u]
<1>0. /\ a \in AnAttempt /\ AttemptOK(u, a, parcels, entry[u]) /\ Size[u] \in Nat
      /\ a.pc = "resume" /\ i \in Refs(u) \cup {0} /\ Refs(u) \subseteq Id
      /\ \A j \in Refs(u) : Len(parcels[j].parts) \in Nat
  BY AttemptFacts DEF Takeout!Resume
<1>1. saved' = saved /\ parcels' = parcels /\ late' = late /\ entry' = entry /\ run' = run /\ allDone' = allDone
  BY DEF Takeout!Resume
<1> DEFINE goes == i # 0 /\ parcels[i].there /\ parcels[i].parts # <<>> /\ Takeout!Fits(u, parcels[i].parts)
           b1 == [a EXCEPT !.pc = "google"]
           b2 == [[[a EXCEPT !.pc = "google"] EXCEPT !.id = 0] EXCEPT !.from = 0]
           b3 == [[[a EXCEPT !.pc = "google"] EXCEPT !.id = i] EXCEPT !.from = Len(parcels[i].parts)]
<1>2. att' = [att EXCEPT ![u] = b1] \/ att' = [att EXCEPT ![u] = b2] \/ (i # 0 /\ att' = [att EXCEPT ![u] = b3])
  <2>1. \/ att' = [att EXCEPT ![u].pc = "google"]
        \/ att' = [att EXCEPT ![u].pc = "google", ![u].id = IF goes THEN i ELSE 0, ![u].from = IF goes THEN Len(parcels[i].parts) ELSE 0]
    BY CarryNames DEF Takeout!Resume
  <2>2. CASE att' = [att EXCEPT ![u].pc = "google"]
    BY <2>2
  <2>3. CASE goes /\ att' = [att EXCEPT ![u].pc = "google", ![u].id = IF goes THEN i ELSE 0, ![u].from = IF goes THEN Len(parcels[i].parts) ELSE 0]
    <3>1. i # 0
      BY <2>3
    <3> HIDE DEF goes
    <3>2. att' = [att EXCEPT ![u] = b3]
      BY <2>3
    <3> QED BY <3>1, <3>2
  <2>4. CASE ~goes /\ att' = [att EXCEPT ![u].pc = "google", ![u].id = IF goes THEN i ELSE 0, ![u].from = IF goes THEN Len(parcels[i].parts) ELSE 0]
    <3> HIDE DEF goes
    <3>2. att' = [att EXCEPT ![u] = b2]
      BY <2>4
    <3> QED BY <3>2
  <2> QED BY <2>1, <2>2, <2>3, <2>4
<1> HIDE DEF a
<1>3. Quiet(a) /\ a.id = 0 /\ a.from = 0
  BY <1>0 DEF AttemptOK
<1>4. \E b : /\ att' = [att EXCEPT ![u] = b] /\ b \in AnAttempt /\ Quiet(b) /\ b.pc = "google" /\ b.id \in {0, i}
             /\ IF b.id = 0 THEN b.from = 0 ELSE b.from = Len(parcels[b.id].parts)
  <2>1. CASE att' = [att EXCEPT ![u] = b1]
    <3>1. b1 \in AnAttempt /\ Quiet(b1) /\ b1.pc = "google" /\ b1.id = 0 /\ b1.from = 0
      BY <1>0, <1>3 DEF AnAttempt, Quiet
    <3> HIDE DEF b1
    <3> QED BY <2>1, <3>1
  <2>2. CASE att' = [att EXCEPT ![u] = b2]
    <3>1. b2 \in AnAttempt /\ Quiet(b2) /\ b2.pc = "google" /\ b2.id = 0 /\ b2.from = 0
      BY <1>0, <1>3 DEF AnAttempt, Quiet
    <3> HIDE DEF b2
    <3> QED BY <2>2, <3>1
  <2>3. CASE i # 0 /\ att' = [att EXCEPT ![u] = b3]
    <3>1. PICK n \in Nat : n = Len(parcels[i].parts)
      BY <1>0, <2>3
    <3>2. i \in Id /\ b3 = [[[a EXCEPT !.pc = "google"] EXCEPT !.id = i] EXCEPT !.from = n]
      BY <1>0, <2>3, <3>1
    <3> HIDE DEF b3, i
    <3>3. b3 \in AnAttempt /\ Quiet(b3) /\ b3.pc = "google" /\ b3.id = i /\ b3.from = n
      BY <1>0, <1>3, <3>2 DEF AnAttempt, Quiet
    <3> QED BY <2>3, <3>1, <3>3
  <2> QED BY <1>2, <2>1, <2>2, <2>3
<1>5. PICK b : /\ att' = [att EXCEPT ![u] = b] /\ b \in AnAttempt /\ Quiet(b) /\ b.pc = "google" /\ b.id \in {0, i}
               /\ IF b.id = 0 THEN b.from = 0 ELSE b.from = Len(parcels[b.id].parts)
  BY <1>4
<1>6. b.id # 0 => b.from <= Len(parcels[b.id].parts)
  BY <1>0, <1>5
<1>7. AttemptOK(u, b, parcels, entry[u])
  BY <1>5, <1>6 DEF AttemptOK
<1>8. b.id \in Refs(u) \cup {0} /\ b.pc # "idle"
  BY <1>0, <1>5
<1> QED BY <1>1, <1>5, <1>7, <1>8, CarrySame

LEMMA CarryGoogle == ASSUME CarryInv, NEW u \in Archives, Takeout!Google(u) PROVE CarryInv'
<1> DEFINE a == att[u]
<1>0. /\ a \in AnAttempt /\ AttemptOK(u, a, parcels, entry[u]) /\ Size[u] \in Nat /\ a.pc = "google"
      /\ a.id \in Refs(u) \cup {0} /\ Refs(u) \subseteq Id /\ parcels \in [Id -> ASession] /\ CarryCore
      /\ saved \in ASaved /\ saved.progress[u] \in Refs(u) \cup {0} /\ entry \in [Archives -> Seq(Nat)] /\ LateOK(late) /\ run \in ARun
  BY AttemptFacts DEF Takeout!Google, CarryInv, CarryCore, SessionsOK
<1>1. entry' = entry /\ allDone' = allDone
  BY DEF Takeout!Google
<1>2. Quiet(a) /\ (a.id = 0 => a.from = 0) /\ (a.id # 0 => a.from <= Len(parcels[a.id].parts))
  BY <1>0 DEF AttemptOK
<1>3. CASE /\ a.from < Size[u] /\ UNCHANGED <<saved, parcels, late, run>>
           /\ att' = [att EXCEPT ![u].pc = IF a.id = 0 THEN "init" ELSE "pipe", ![u].part = a.from,
                                 ![u].received = a.from, ![u].read = a.from]
  <2>1. PICK f \in Nat, pc \in {"init", "pipe"} : f = a.from /\ f <= Size[u] /\ (pc = "init" <=> a.id = 0)
    <3>1. a.from \in Nat
      BY <1>0 DEF AnAttempt
    <3>2. a.from <= Size[u]
      BY <1>0, <1>3, <3>1
    <3> QED BY <3>1, <3>2
  <2> DEFINE b == [[[[a EXCEPT !.pc = pc] EXCEPT !.part = f] EXCEPT !.received = f] EXCEPT !.read = f]
  <2>2. att' = [att EXCEPT ![u] = b]
    BY <1>3, <2>1
  <2> HIDE DEF a
  <2>3. b \in AnAttempt /\ Quiet(b) /\ b.pc = pc /\ b.id = a.id /\ b.part = f /\ b.read = f /\ b.received = f
    BY <1>0, <1>2 DEF AnAttempt, Quiet
  <2> HIDE DEF b
  <2>4. pc = "pipe" => b.received <= Len(parcels[b.id].parts) /\ b.id # 0
    BY <1>2, <2>1, <2>3
  <2>5. pc = "init" => b.id = 0 /\ b.read = 0
    BY <1>2, <2>1, <2>3
  <2>6. Between(u, b)
    <3>1. Len(b.queue) = 0 /\ b.read - b.part = 0 /\ b.queue = <<>>
      BY <2>3 DEF Quiet
    <3> QED BY <2>1, <2>3, <3>1 DEF Between, Quiet
  <2>7. Slot(b)
    BY <2>3 DEF Slot, Quiet
  <2>8. AttemptOK(u, b, parcels, entry[u])
    BY <2>3, <2>4, <2>5, <2>6, <2>7 DEF AttemptOK
  <2>9. b.id \in Refs(u) \cup {0} /\ b.pc # "idle"
    BY <1>0, <2>3
  <2> QED BY <1>1, <1>3, <2>2, <2>8, <2>9, CarrySame
<1>4. CASE /\ a.from > 0 /\ parcels' = [parcels EXCEPT ![a.id].there = FALSE] /\ UNCHANGED <<saved, late, run>>
           /\ att' = [att EXCEPT ![u] = [Takeout!NoAttempt EXCEPT !.pc = "init"]]
  <2>1. parcels' \in [Id -> ASession] /\ \A i \in Id : parcels'[i].parts = parcels[i].parts
    BY <1>0, <1>4 DEF ASession
  <2>2. PICK b : b = [Takeout!NoAttempt EXCEPT !.pc = "init"]
    OBVIOUS
  <2>3. AttemptOK(u, b, parcels', entry'[u]) /\ b.id = 0 /\ b.pc = "init"
    BY <2>2, FreshAttempt
  <2>4. att' = [att EXCEPT ![u] = b]
    BY <1>4, <2>2
  <2>5. CarryCore'
    BY <1>0, <1>1, <1>4, <2>1, <2>3, <2>4, CoreKeeps
  <2>6. \A v \in Archives : att'[v].pc = "idle" => att[v].pc = "idle"
    BY <1>0, <2>3, <2>4 DEF CarryCore
  <2> QED BY <1>0, <1>1, <1>4, <2>5, <2>6, CarryGoesOn
<1>5. CASE /\ att' = [att EXCEPT ![u] = Takeout!NoAttempt] /\ run' = [run EXCEPT !.cookieDead = TRUE]
           /\ UNCHANGED <<saved, parcels, late>>
  <2>1. AttemptOK(u, Takeout!NoAttempt, parcels', entry'[u]) /\ (Takeout!NoAttempt).id = 0
    BY IdleAttempt
  <2>2. run' \in ARun /\ run'.cookieDead
    BY <1>0, <1>5 DEF ARun
  <2>3. CarryCore'
    BY <1>0, <1>1, <1>5, <2>1, CoreKeeps
  <2> QED BY <1>0, <1>1, <1>5, <2>2, <2>3, CarryGoesOn
<1>6. CASE Takeout!GiveUp(u) /\ parcels' = parcels
  BY <1>0, <1>1, <1>6, GaveUp
<1> QED BY <1>3, <1>4, <1>5, <1>6, CarryNames DEF Takeout!Google

LEMMA CarryCut == ASSUME CarryInv, NEW u \in Archives, Takeout!Cut(u) PROVE CarryInv'
<1>1. Takeout!GiveUp(u) /\ parcels' = parcels /\ entry' = entry /\ allDone' = allDone
  BY DEF Takeout!Cut
<1>2. parcels \in [Id -> ASession] /\ entry \in [Archives -> Seq(Nat)]
  BY DEF CarryInv, CarryCore, SessionsOK
<1> QED BY <1>1, <1>2, GaveUp

LEMMA CarryOpen == ASSUME CarryInv, NEW u \in Archives, Takeout!OpenSession(u) PROVE CarryInv'
<1> DEFINE a == att[u]
<1>0. /\ a \in AnAttempt /\ AttemptOK(u, a, parcels, entry[u]) /\ Size[u] \in Nat /\ a.pc = "init"
      /\ parcels \in [Id -> ASession] /\ CarryCore /\ SessionsOK(parcels)
      /\ saved \in ASaved /\ entry \in [Archives -> Seq(Nat)] /\ LateOK(late) /\ run \in ARun /\ 0 \notin Id
  BY AttemptFacts, ServicesAssumption DEF Takeout!OpenSession, CarryInv, CarryCore, SessionsOK
<1>1. entry' = entry /\ allDone' = allDone
  BY DEF Takeout!OpenSession
<1>2. CASE Takeout!GiveUp(u) /\ parcels' = parcels
  BY <1>0, <1>1, <1>2, GaveUp
<1>3. ASSUME NEW i \in Id, Takeout!Free(i), UNCHANGED <<saved, late, run>>,
             parcels' = [parcels EXCEPT ![i] = [there |-> TRUE, done |-> FALSE, parts |-> <<>>]],
             att' = [att EXCEPT ![u].pc = "pipe", ![u].id = i]
      PROVE  CarryInv'
  <2> DEFINE b == [[a EXCEPT !.pc = "pipe"] EXCEPT !.id = i]
             n == [there |-> TRUE, done |-> FALSE, parts |-> <<>>]
  <2>1. att' = [att EXCEPT ![u] = b] /\ Quiet(a) /\ a.read = 0
    BY <1>0, <1>3 DEF AttemptOK
  <2>2. (\A v \in Archives : i \notin Refs(v)) /\ \A r \in late : r[1] # i
    BY <1>3, CarryNames DEF Takeout!Free, Refs
  <2>3. n \in ASession /\ n.parts = <<>> /\ Len(n.parts) = 0 /\ parcels' = [parcels EXCEPT ![i] = n]
    BY <1>3 DEF ASession
  <2> HIDE DEF n
  <2>4. parcels' \in [Id -> ASession] /\ parcels'[i].parts = <<>> /\ Len(parcels'[i].parts) = 0 /\ \A j \in Id \ {i} : parcels'[j] = parcels[j]
    BY <1>0, <2>3
  <2>5. SessionsOK(parcels')
    <3>1. ASSUME NEW j \in Id, NEW k \in 1..Len(parcels'[j].parts) PROVE parcels'[j].parts[k] = k
      <4>1. j # i
        BY <2>4, <3>1
      <4> QED BY <1>0, <2>4, <3>1, <4>1 DEF SessionsOK
    <3> QED BY <2>4, <3>1 DEF SessionsOK
  <2> HIDE DEF a
  <2>6. b \in AnAttempt /\ Quiet(b) /\ b.pc = "pipe" /\ b.id = i /\ b.read = 0
    BY <1>0, <2>1 DEF AnAttempt, Quiet
  <2> HIDE DEF b
  <2>7. b.received = 0 /\ b.part = 0 /\ b.queue = <<>> /\ Len(b.queue) = 0 /\ ~b.ended /\ b.consumer = "run"
    BY <2>6 DEF Quiet
  <2>8. Between(u, b)
    BY <1>0, <2>6, <2>7 DEF Between
  <2>9. Slot(b)
    BY <2>6 DEF Slot, Quiet
  <2>10. b.received <= Len(parcels'[b.id].parts) /\ b.id # 0
    BY <1>0, <2>4, <2>6, <2>7
  <2>11. AttemptOK(u, b, parcels', entry'[u])
    BY <2>6, <2>8, <2>9, <2>10 DEF AttemptOK
  <2>12. att'[u] = b /\ \A v \in Archives \ {u} : att'[v] = att[v]
    BY <1>0, <2>1 DEF CarryCore
  <2>13. \A v \in Archives : \A j \in Refs(v)' : j \in Refs(v) \/ (v = u /\ j = i)
    BY <1>3, <2>6, <2>12 DEF Refs
  <2>14. \A v \in Archives : \A j \in Refs(v) : j \in Id \ {i} /\ parcels'[j] = parcels[j] /\ Len(parcels[j].parts) <= Len(parcels'[j].parts)
    <3>1. \A v \in Archives : \A j \in Refs(v) : j \in Id \ {i} /\ Len(parcels[j].parts) \in Nat
      BY <2>2, AttemptFacts
    <3> QED BY <2>4, <3>1
  <2>15. ASSUME NEW v \in Archives, NEW j \in Refs(v)' PROVE Fitting(v, j)'
    <3>1. CASE j \in Refs(v)
      <4>1. Fitting(v, j)
        BY <1>0, <3>1 DEF CarryCore, RefsOK
      <4> QED BY <1>3, <2>14, <3>1, <4>1 DEF Fitting
    <3>2. CASE v = u /\ j = i
      BY <1>0, <1>3, <2>2, <2>4, <3>2 DEF Fitting
    <3> QED BY <2>13, <3>1, <3>2
  <2>16. \A j \in Refs(u)' : j \in Refs(u) \/ \A v \in Archives : j \notin Refs(v)
    BY <2>2, <2>13
  <2>17. \A v \in Archives : \A j \in Refs(v) : Len(parcels[j].parts) <= Len(parcels'[j].parts)
    BY <2>14
  <2>18. saved' \in ASaved /\ LateOK(late') /\ entry' \in [Archives -> Seq(Nat)]
         /\ \A v \in Archives \ {u} : saved'.progress[v] = saved.progress[v] /\ entry'[v] = entry[v]
    BY <1>0, <1>1, <1>3
  <2>19. CarryCore'
    BY <1>0, <2>1, <2>5, <2>11, <2>15, <2>16, <2>17, <2>18, CoreMoves
  <2>20. \A v \in Archives : att'[v].pc = "idle" => att[v].pc = "idle"
    BY <2>6, <2>12
  <2> QED BY <1>0, <1>1, <1>3, <2>19, <2>20, CarryGoesOn
<1> QED BY <1>2, <1>3 DEF Takeout!OpenSession

LEMMA CarryComplete == ASSUME CarryInv, NEW u \in Archives, Takeout!Complete(u) PROVE CarryInv'
<1> DEFINE a == att[u]
           i == a.id
           p == parcels[i].parts
           good == parcels[i].there /\ Takeout!Length(u, p) = Takeout!Length(u, Takeout!Whole(u)) /\ entry[u] \in {<<>>, p}
           kept == parcels[i].there /\ Takeout!Length(u, p) = Takeout!Length(u, Takeout!Whole(u))
<1>0. /\ a \in AnAttempt /\ AttemptOK(u, a, parcels, entry[u]) /\ Size[u] \in Nat /\ a.pc = "complete"
      /\ a.id \in Refs(u) \cup {0} /\ Refs(u) \subseteq Id /\ parcels \in [Id -> ASession] /\ CarryCore /\ SessionsOK(parcels)
      /\ saved \in ASaved /\ entry \in [Archives -> Seq(Nat)] /\ LateOK(late) /\ run \in ARun
  BY AttemptFacts DEF Takeout!Complete, CarryInv, CarryCore, SessionsOK
<1>1. i \in Refs(u) /\ i \in Id /\ a.received <= Len(p) /\ a.received = Size[u] /\ a.producer = "run" /\ a.consumer = "over"
  BY <1>0 DEF AttemptOK
<1>2. p \in Seq(Nat) /\ Len(p) = Size[u] /\ parcels[i].there \in BOOLEAN
  <2>1. p \in Seq(Nat) /\ Len(p) \in Nat /\ Len(p) <= Size[u] /\ parcels[i] \in ASession
    BY <1>1, AttemptFacts DEF ASession
  <2>2. PICK m \in Nat : m = Len(p)
    BY <2>1
  <2>3. m <= Size[u] /\ Size[u] <= m
    BY <1>1, <2>1, <2>2
  <2>4. m = Size[u]
    BY <1>0, <2>3
  <2> QED BY <2>1, <2>2, <2>4 DEF ASession
<1>3. p = Takeout!Whole(u)
  <2>1. \A k \in 1..Len(p) : p[k] = k
    BY <1>0, <1>1 DEF SessionsOK
  <2>2. PICK s \in Seq(Nat) : s = p /\ Len(s) = Size[u] /\ \A k \in 1..Size[u] : s[k] = k
    BY <1>2, <2>1
  <2>3. s = [k \in 1..Size[u] |-> k]
    <3> HIDE DEF p
    <3>1. s \in [1..Size[u] -> Nat]
      BY <2>2
    <3> QED BY <2>2, <3>1
  <2> QED BY <2>2, <2>3 DEF Takeout!Whole
<1>4. parcels' = [parcels EXCEPT ![i].done = good, ![i].there = kept]
  BY CarryNames DEF Takeout!Complete
<1>5. entry' = (IF good THEN [entry EXCEPT ![u] = p] ELSE entry) /\ allDone' = allDone
  BY CarryNames DEF Takeout!Complete
<1>6. \/ good /\ att' = [att EXCEPT ![u].pc = "verify"] /\ saved' = [saved EXCEPT !.progress[u] = 0] /\ UNCHANGED <<late, run>>
      \/ Takeout!GiveUp(u)
  BY CarryNames DEF Takeout!Complete
<1>7. good \in BOOLEAN /\ kept \in BOOLEAN
  BY <1>2
<1> HIDE DEF good, kept
<1>8. parcels' \in [Id -> ASession] /\ \A j \in Id : parcels'[j].parts = parcels[j].parts
  <2> HIDE DEF i
  <2> DEFINE n == [[parcels[i] EXCEPT !.done = good] EXCEPT !.there = kept]
  <2>1. parcels' = [parcels EXCEPT ![i] = n]
    BY <1>4
  <2>2. n \in ASession /\ n.parts = parcels[i].parts
    BY <1>0, <1>1, <1>7 DEF ASession
  <2> HIDE DEF n
  <2> QED BY <1>0, <1>1, <2>1, <2>2
<1> HIDE DEF p, i
<1>9. /\ entry' \in [Archives -> Seq(Nat)] /\ \A v \in Archives \ {u} : entry'[v] = entry[v]
      /\ entry'[u] = entry[u] \/ entry'[u] = Takeout!Whole(u)
      /\ good => entry'[u] = Takeout!Whole(u)
  <2>1. CASE good
    BY <1>0, <1>2, <1>3, <1>5, <2>1
  <2>2. CASE ~good
    BY <1>0, <1>5, <2>2
  <2> QED BY <2>1, <2>2
<1>10. CASE Takeout!GiveUp(u)
  BY <1>5, <1>8, <1>9, <1>10, GaveUp
<1>11. CASE good /\ att' = [att EXCEPT ![u].pc = "verify"] /\ saved' = [saved EXCEPT !.progress[u] = 0] /\ UNCHANGED <<late, run>>
  <2> DEFINE b == [a EXCEPT !.pc = "verify"]
  <2>1. att' = [att EXCEPT ![u] = b]
    BY <1>11
  <2> HIDE DEF a
  <2>2. b \in AnAttempt /\ b.pc = "verify" /\ b.producer = "run" /\ b.consumer = "over" /\ b.id = a.id
    BY <1>0, <1>1 DEF AnAttempt
  <2> HIDE DEF b
  <2>3. AttemptOK(u, b, parcels', entry'[u])
    BY <1>9, <1>11, <2>2 DEF AttemptOK
  <2>4. saved' \in ASaved /\ saved'.done = saved.done /\ saved'.progress[u] = 0
        /\ \A v \in Archives \ {u} : saved'.progress[v] = saved.progress[v]
    BY <1>0, <1>11 DEF ASaved
  <2>5. b.id \in Refs(u) \cup {0}
    BY <1>0, <2>2
  <2>51. /\ \A v \in Archives \ {u} : saved'.progress[v] = saved.progress[v] /\ entry'[v] = entry[v]
         /\ saved'.progress[u] \in Refs(u) \cup {0} /\ LateOK(late')
         /\ \A r \in late' : r \in late \/ (r[1] \in Refs(u) /\ r[2] <= Size[u])
    BY <1>0, <1>9, <1>11, <2>4
  <2>6. CarryCore'
    BY <1>0, <1>8, <1>9, <2>1, <2>3, <2>4, <2>5, <2>51, CoreKeeps
  <2>7. \A v \in Archives : att'[v].pc = "idle" => att[v].pc = "idle"
    BY <1>0, <2>1, <2>2 DEF CarryCore
  <2>8. \A v \in Archives : entry'[v] = entry[v] \/ entry'[v] = Takeout!Whole(v)
    BY <1>9
  <2> QED BY <1>0, <1>5, <1>11, <2>4, <2>6, <2>7, <2>8, CarryGoesOn
<1> QED BY <1>6, <1>10, <1>11

\* What a part does to its session.
LEMMA TakenIs ==
  ASSUME SessionsOK(parcels), NEW i \in Id, NEW n \in Nat, parcels' = Takeout!Taken(i, n, n)
  PROVE  /\ SessionsOK(parcels') /\ \A j \in Id \ {i} : parcels'[j] = parcels[j]
         /\ Len(parcels[i].parts) \in Nat /\ Len(parcels'[i].parts) \in Nat /\ Len(parcels[i].parts) <= Len(parcels'[i].parts)
         /\ Len(parcels'[i].parts) = Len(parcels[i].parts) \/ Len(parcels'[i].parts) = n
         /\ parcels[i].there /\ n <= Len(parcels[i].parts) + 1 => n <= Len(parcels'[i].parts)
<1>0. parcels \in [Id -> ASession] /\ \A j \in Id : \A k \in 1..Len(parcels[j].parts) : parcels[j].parts[k] = k
  BY DEF SessionsOK
<1>1. PICK s \in Seq(Nat) : s = parcels[i].parts
  BY <1>0 DEF ASession
<1>2. CASE parcels[i].there /\ n = Len(s) + 1
  <2>1. PICK q \in Seq(Nat) : q = Append(s, n)
    BY <1>1, Appended
  <2>2. Len(q) = Len(s) + 1 /\ q[Len(s) + 1] = n /\ \A k \in 1..Len(s) : q[k] = s[k]
    BY <2>1, Appended
  <2> DEFINE r == [parcels[i] EXCEPT !.parts = q]
  <2>3. parcels' = [parcels EXCEPT ![i] = r]
    BY <1>1, <1>2, <2>1 DEF Takeout!Taken
  <2>4. r \in ASession /\ r.parts = q
    BY <1>0 DEF ASession
  <2> HIDE DEF r
  <2>5. ASSUME NEW k \in 1..Len(q) PROVE q[k] = k
    <3>1. PICK m \in Nat : m = Len(s)
      BY <1>1
    <3>2. n = m + 1 /\ k \in 1..(m + 1)
      BY <1>2, <2>2, <3>1
    <3>3. CASE k = m + 1
      BY <2>2, <3>1, <3>2, <3>3
    <3>4. CASE k # m + 1
      <4>1. k \in 1..m
        BY <3>1, <3>2, <3>4
      <4>2. q[k] = s[k] /\ s[k] = k
        BY <1>0, <1>1, <2>2, <3>1, <4>1
      <4> QED BY <4>2
    <3> QED BY <3>3, <3>4
  <2>6. parcels' \in [Id -> ASession] /\ parcels'[i].parts = q /\ \A j \in Id \ {i} : parcels'[j] = parcels[j]
    BY <1>0, <2>3, <2>4
  <2>7. SessionsOK(parcels')
    BY <1>0, <2>5, <2>6 DEF SessionsOK
  <2>8. Len(q) = n /\ Len(s) \in Nat /\ Len(s) <= n
    BY <1>1, <1>2, <2>2
  <2> QED BY <1>1, <2>6, <2>7, <2>8
<1>3. CASE ~(parcels[i].there /\ n = Len(s) + 1)
  <2>1. parcels' = parcels
    BY <1>1, <1>3 DEF Takeout!Taken
  <2>2. SessionsOK(parcels')
    BY <2>1
  <2>3. PICK m \in Nat : m = Len(s)
    BY <1>1
  <2>4. parcels[i].there /\ n <= m + 1 => n <= m
    BY <1>3, <2>3
  <2>5. m <= m
    BY <2>3
  <2> QED BY <1>1, <2>1, <2>2, <2>3, <2>4, <2>5
<1> QED BY <1>2, <1>3

\* A chunk has come to a session, or a session has gone.
LEMMA CoreRests ==
  ASSUME CarryCore, att' = att, saved' = saved, entry' = entry, late' \subseteq late, SessionsOK(parcels'),
         \A i \in Id : Len(parcels[i].parts) <= Len(parcels'[i].parts),
         \A v \in Archives : \A i \in Refs(v) : Len(parcels'[i].parts) <= Size[v]
  PROVE  CarryCore'
<1>1. \A v \in Archives : Refs(v)' = Refs(v)
  BY DEF Refs
<1>2. \A v \in Archives : RefsOK(v)'
  BY <1>1 DEF RefsOK, Fitting, CarryCore
<1>3. ASSUME NEW v \in Archives PROVE AttemptOK(v, att[v], parcels', entry[v])
  <2> DEFINE b == att[v]
  <2>1. AttemptOK(v, b, parcels, entry[v]) /\ (b.id # 0 => b.id \in Id)
    BY DEF CarryCore, AnAttempt
  <2>2. \A i \in Id : Len(parcels[i].parts) \in Nat /\ Len(parcels'[i].parts) \in Nat
    BY DEF CarryCore, SessionsOK, ASession
  <2> HIDE DEF b
  <2>3. AttemptOK(v, b, parcels', entry[v])
    BY <2>1, <2>2, AttemptStays
  <2> QED BY <2>3 DEF b
<1>4. LateOK(late')
  BY DEF CarryCore, LateOK
<1> QED BY <1>2, <1>3, <1>4 DEF CarryCore

LEMMA CarryLate == ASSUME CarryInv, Takeout!TakeLate PROVE CarryInv'
<1>0. CarryCore /\ LateOK(late) /\ SessionsOK(parcels)
  BY DEF CarryInv, CarryCore
<1>1. PICK r \in late : parcels' = Takeout!Taken(r[1], r[2], r[3]) /\ late' = late \ {r}
  BY DEF Takeout!TakeLate
<1>2. saved' = saved /\ entry' = entry /\ att' = att /\ run' = run /\ allDone' = allDone
  BY DEF Takeout!TakeLate
<1>3. PICK i \in Id, n \in Nat : i = r[1] /\ n = r[2] /\ parcels' = Takeout!Taken(i, n, n)
  BY <1>0, <1>1 DEF LateOK
<1>4. /\ SessionsOK(parcels') /\ \A j \in Id \ {i} : parcels'[j] = parcels[j]
      /\ Len(parcels[i].parts) <= Len(parcels'[i].parts)
      /\ Len(parcels'[i].parts) = Len(parcels[i].parts) \/ Len(parcels'[i].parts) = n
  BY <1>0, <1>3, TakenIs
<1>5. ASSUME NEW v \in Archives, NEW j \in Refs(v) PROVE Len(parcels'[j].parts) <= Size[v] /\ j \in Id
  <2>1. Fitting(v, j) /\ j \in Id
    BY <1>0, AttemptFacts DEF CarryCore, RefsOK
  <2>2. CASE j = i
    BY <1>1, <1>3, <1>4, <2>1, <2>2 DEF Fitting
  <2>3. CASE j # i
    BY <1>4, <2>1, <2>3 DEF Fitting
  <2> QED BY <2>1, <2>2, <2>3
<1>6. \A j \in Id : Len(parcels[j].parts) <= Len(parcels'[j].parts)
  <2>1. \A j \in Id : Len(parcels[j].parts) \in Nat
    BY <1>0 DEF SessionsOK, ASession
  <2> QED BY <1>4, <2>1
<1>7. CarryCore'
  BY <1>0, <1>1, <1>2, <1>4, <1>5, <1>6, CoreRests
<1>8. run' \in ARun
  BY <1>2 DEF CarryInv
<1> QED BY <1>2, <1>7, <1>8, CarryGoesOn

LEMMA CarrySweep == ASSUME CarryInv, NEW i \in Id, Takeout!SweepSession(i) PROVE CarryInv'
<1>0. CarryCore /\ SessionsOK(parcels)
  BY DEF CarryInv, CarryCore
<1>1. parcels' = [parcels EXCEPT ![i].there = FALSE]
  BY DEF Takeout!SweepSession
<1>2. saved' = saved /\ entry' = entry /\ att' = att /\ run' = run /\ allDone' = allDone /\ late' = late
  BY DEF Takeout!SweepSession
<1>3. parcels' \in [Id -> ASession] /\ \A j \in Id : parcels'[j].parts = parcels[j].parts /\ Len(parcels[j].parts) \in Nat
  <2>1. parcels \in [Id -> ASession]
    BY <1>0 DEF SessionsOK
  <2>2. parcels' \in [Id -> ASession] /\ \A j \in Id : parcels'[j].parts = parcels[j].parts
    BY <1>1, <2>1 DEF ASession
  <2>3. \A j \in Id : Len(parcels[j].parts) \in Nat
    BY <2>1 DEF ASession
  <2> QED BY <2>2, <2>3
<1>4. SessionsOK(parcels')
  BY <1>0, <1>3 DEF SessionsOK
<1>5. \A v \in Archives : \A j \in Refs(v) : Len(parcels'[j].parts) <= Size[v]
  BY <1>3, AttemptFacts
<1>6. \A j \in Id : Len(parcels[j].parts) <= Len(parcels'[j].parts)
  BY <1>3
<1>7. CarryCore'
  BY <1>0, <1>2, <1>4, <1>5, <1>6, CoreRests
<1>8. run' \in ARun
  BY <1>2 DEF CarryInv
<1> QED BY <1>2, <1>7, <1>8, CarryGoesOn

LEMMA CarryPut == ASSUME CarryInv, NEW u \in Archives, Takeout!Put(u) PROVE CarryInv'
<1> DEFINE a == att[u]
<1>0. /\ a \in AnAttempt /\ AttemptOK(u, a, parcels, entry[u]) /\ Size[u] \in Nat /\ a.pc = "pipe" /\ a.consumer = "send"
      /\ parcels \in [Id -> ASession] /\ CarryCore /\ SessionsOK(parcels)
      /\ saved \in ASaved /\ entry \in [Archives -> Seq(Nat)] /\ LateOK(late) /\ run \in ARun /\ Refs(u) \subseteq Id
      /\ a.id \in Refs(u) \cup {0} /\ saved.progress[u] \in Refs(u) \cup {0}
  BY AttemptFacts DEF Takeout!Put, CarryInv, CarryCore, SessionsOK
<1>1. entry' = entry /\ allDone' = allDone
  BY DEF Takeout!Put
<1>2. Between(u, a) /\ Slot(a) /\ a.id # 0 /\ a.received <= Len(parcels[a.id].parts) /\ a.id \in Refs(u) /\ a.id \in Id
  BY <1>0 DEF AttemptOK
<1>3. PICK n \in Nat, r \in Nat, d \in Nat :
        n = a.part /\ n = a.held /\ r = a.received /\ n = r + 1 /\ d = a.read /\ n <= d /\ d <= Size[u]
  BY <1>0, <1>2 DEF Between, AnAttempt
<1>4. n <= Size[u]
  <2>1. n <= d /\ d <= Size[u]
    BY <1>3
  <2>2. Size[u] \in Nat
    BY <1>0
  <2> QED BY <2>1, <2>2
<1>5. CASE Takeout!GiveUp(u) /\ parcels' = parcels
  BY <1>0, <1>1, <1>5, GaveUp
<1>6. CASE late' = late \cup {<<a.id, a.part, a.held>>} /\ UNCHANGED <<parcels, att, saved, run>>
  <2>1. att' = [att EXCEPT ![u] = a]
    BY <1>0, <1>6 DEF CarryCore
  <2>2. late' = late \cup {<<a.id, n, n>>}
    BY <1>3, <1>6
  <2>3. LateOK(late') /\ \A q \in late' : q \in late \/ (q[1] \in Refs(u) /\ q[2] <= Size[u])
    BY <1>0, <1>2, <1>4, <2>2 DEF LateOK
  <2>4. /\ AttemptOK(u, a, parcels', entry'[u]) /\ saved' \in ASaved /\ saved'.progress[u] \in Refs(u) \cup {0}
        /\ \A v \in Archives \ {u} : saved'.progress[v] = saved.progress[v] /\ entry'[v] = entry[v]
        /\ parcels' \in [Id -> ASession] /\ (\A i \in Id : parcels'[i].parts = parcels[i].parts)
        /\ entry' \in [Archives -> Seq(Nat)] /\ run' \in ARun
    BY <1>0, <1>1, <1>6
  <2>5. CarryCore'
    BY <1>0, <2>1, <2>3, <2>4, CoreKeeps
  <2> QED BY <1>1, <1>6, <2>4, <2>5, CarryGoesOn
<1>7. CASE /\ parcels[a.id].there /\ parcels' = Takeout!Taken(a.id, a.part, a.held) /\ UNCHANGED <<late, run>>
           /\ att' = [att EXCEPT ![u].consumer = "run", ![u].received = @ + 1]
           /\ saved' \in {saved, [saved EXCEPT !.progress[u] = a.id]}
  <2> DEFINE b == [[a EXCEPT !.consumer = "run"] EXCEPT !.received = n]
             i == a.id
  <2>1. att' = [att EXCEPT ![u] = b]
    <3>1. att' = [att EXCEPT ![u] = [[a EXCEPT !.consumer = "run"] EXCEPT !.received = a.received + 1]]
      BY <1>7
    <3> QED BY <1>3, <3>1
  <2>2. parcels' = Takeout!Taken(i, n, n) /\ parcels[i].there
    BY <1>3, <1>7
  <2>3. saved' \in ASaved /\ saved'.done = saved.done /\ saved'.progress[u] \in Refs(u) \cup {0}
        /\ \A v \in Archives \ {u} : saved'.progress[v] = saved.progress[v]
    <3>1. CASE saved' = saved
      BY <1>0, <3>1
    <3>2. CASE saved' = [saved EXCEPT !.progress[u] = a.id]
      BY <1>0, <1>2, <3>2 DEF ASaved
    <3> QED BY <1>7, <3>1, <3>2
  <2> HIDE DEF a
  <2>4. b \in AnAttempt /\ b.pc = "pipe" /\ b.id = i /\ b.received = n /\ b.part = a.part /\ b.read = a.read /\ b.queue = a.queue
        /\ b.ended = a.ended /\ b.producer = a.producer /\ b.consumer = "run" /\ b.wake = a.wake
    BY <1>0 DEF AnAttempt
  <2> HIDE DEF b, i
  <2>5. i \in Id /\ i \in Refs(u) /\ i # 0
    BY <1>2 DEF i
  <2>6. /\ SessionsOK(parcels') /\ \A j \in Id \ {i} : parcels'[j] = parcels[j]
        /\ Len(parcels[i].parts) \in Nat /\ Len(parcels'[i].parts) \in Nat /\ Len(parcels[i].parts) <= Len(parcels'[i].parts)
        /\ Len(parcels'[i].parts) = Len(parcels[i].parts) \/ Len(parcels'[i].parts) = n
        /\ parcels[i].there /\ n <= Len(parcels[i].parts) + 1 => n <= Len(parcels'[i].parts)
    BY <1>0, <2>2, <2>5, TakenIs
  <2>7. n <= Len(parcels'[i].parts)
    <3>1. PICK m \in Nat : m = Len(parcels[i].parts)
      BY <2>6
    <3>2. r <= m
      BY <1>2, <1>3, <3>1 DEF i
    <3>3. n <= m + 1
      BY <1>3, <3>1, <3>2
    <3> QED BY <2>2, <2>6, <3>1, <3>3
  <2>8. Between(u, b)
    BY <1>2, <1>3, <2>4 DEF Between
  <2>9. Slot(b)
    BY <1>0, <1>2, <2>4 DEF Slot
  <2>10. AttemptOK(u, b, parcels', entry'[u])
    BY <2>4, <2>5, <2>7, <2>8, <2>9 DEF AttemptOK
  <2>11. att'[u] = b /\ \A v \in Archives \ {u} : att'[v] = att[v]
    BY <1>0, <2>1 DEF CarryCore
  <2>12. \A v \in Archives : Refs(v)' \subseteq Refs(v)
    <3>1. Refs(u)' \subseteq Refs(u)
      BY <2>3, <2>4, <2>5, <2>11 DEF Refs
    <3>2. \A v \in Archives \ {u} : Refs(v)' = Refs(v)
      BY <2>3, <2>11 DEF Refs
    <3> QED BY <3>1, <3>2
  <2>13. ASSUME NEW v \in Archives, NEW j \in Refs(v)' PROVE Fitting(v, j)'
    <3>1. j \in Refs(v) /\ Fitting(v, j) /\ j \in Id /\ (j = i => v = u)
      BY <1>0, <2>5, <2>12, AttemptFacts DEF CarryCore, RefsOK
    <3>2. Len(parcels'[j].parts) <= Size[v]
      <4>1. CASE j = i
        BY <1>4, <2>6, <3>1, <4>1 DEF Fitting
      <4>2. CASE j # i
        BY <2>6, <3>1, <4>2 DEF Fitting
      <4> QED BY <4>1, <4>2
    <3> QED BY <1>7, <3>1, <3>2 DEF Fitting
  <2>14. \A v \in Archives : \A j \in Refs(v) : Len(parcels[j].parts) <= Len(parcels'[j].parts)
    <3>1. \A v \in Archives : \A j \in Refs(v) : j \in Id /\ Len(parcels[j].parts) \in Nat
      BY AttemptFacts
    <3> QED BY <2>6, <3>1
  <2>15. \A j \in Refs(u)' : j \in Refs(u)
    BY <2>12
  <2>16. LateOK(late') /\ entry' \in [Archives -> Seq(Nat)] /\ run' \in ARun
         /\ \A v \in Archives \ {u} : saved'.progress[v] = saved.progress[v] /\ entry'[v] = entry[v]
    BY <1>0, <1>1, <1>7, <2>3
  <2>17. CarryCore'
    BY <1>0, <2>1, <2>3, <2>6, <2>10, <2>13, <2>14, <2>15, <2>16, CoreMoves
  <2>18. \A v \in Archives : att'[v].pc = "idle" => att[v].pc = "idle"
    BY <2>4, <2>11
  <2> QED BY <1>1, <1>7, <2>3, <2>16, <2>17, <2>18, CarryGoesOn
<1> QED BY <1>5, <1>6, <1>7 DEF Takeout!Put

LEMMA CarryVerify == ASSUME CarryInv, NEW u \in Archives, Takeout!Verify(u) PROVE CarryInv'
<1>0. /\ CarryCore /\ saved \in ASaved /\ run \in ARun /\ entry \in [Archives -> Seq(Nat)] /\ LateOK(late)
      /\ parcels \in [Id -> ASession] /\ saved.progress[u] \in Refs(u) \cup {0} /\ entry[u] = Takeout!Whole(u)
  BY AttemptFacts DEF CarryInv, CarryCore, SessionsOK, AttemptOK, Takeout!Verify
<1>1. /\ parcels' = parcels /\ late' = late /\ entry' = entry /\ allDone' = allDone
      /\ att' = [att EXCEPT ![u] = Takeout!NoAttempt] /\ run' = [run EXCEPT !.inRow = 0]
  BY DEF Takeout!Verify
<1>3. saved' \in ASaved /\ saved'.done = saved.done \cup {u} /\ saved'.progress = saved.progress
  <2>1. CASE saved' = [saved EXCEPT !.done = @ \cup {u}]
    BY <1>0, <2>1 DEF ASaved
  <2>2. CASE saved' = [saved EXCEPT !.done = @ \cup {u}, !.suspect = @ \cup {u}]
    <3>1. saved' = [[saved EXCEPT !.done = saved.done \cup {u}] EXCEPT !.suspect = saved.suspect \cup {u}]
      BY <1>0, <2>2 DEF ASaved
    <3> QED BY <1>0, <3>1 DEF ASaved
  <2> QED BY <2>1, <2>2 DEF Takeout!Verify
<1>4. AttemptOK(u, Takeout!NoAttempt, parcels', entry'[u]) /\ (Takeout!NoAttempt).id = 0
  BY IdleAttempt
<1>5. CarryCore'
  BY <1>0, <1>1, <1>3, <1>4, CoreKeeps
<1>6. run' \in ARun /\ run'.alive = run.alive /\ run'.fails = run.fails /\ run'.cookieDead = run.cookieDead /\ run'.pending = run.pending
  BY <1>0, <1>1 DEF ARun
<1>7. \A v \in Archives \ {u} : att'[v] = att[v]
  BY <1>1, <1>0 DEF CarryCore
<1>8. ASSUME NEW v \in Archives, Counted(v) PROVE Counted(v)'
  BY <1>3, <1>6, <1>7, <1>8 DEF Counted
<1>9. ASSUME NEW v \in Archives
      PROVE  entry'[v] \in {<<>>, Takeout!Whole(v)}' /\ (v \in saved'.done => entry'[v] = Takeout!Whole(v)')
  BY <1>0, <1>1, <1>3 DEF CarryInv, Takeout!Whole
<1>10. allDone' => saved'.done = Archives
  BY <1>1, <1>3 DEF CarryInv
<1>11. run'.alive /\ run'.fails = 0 /\ ~run'.cookieDead => \A v \in Archives : Counted(v)'
  BY <1>6, <1>8 DEF CarryInv
<1> QED BY <1>5, <1>6, <1>9, <1>10, <1>11 DEF CarryInv

LEMMA CarryTake == ASSUME CarryInv, Takeout!TakeNext PROVE CarryInv'
<1>1. PICK k \in run.pending : /\ att' = [att EXCEPT ![Urls[k]] = [Takeout!NoAttempt EXCEPT !.pc = "resume"]]
                               /\ run' = [run EXCEPT !.pending = @ \ {k}]
  BY DEF Takeout!TakeNext
<1>2. saved' = saved /\ parcels' = parcels /\ late' = late /\ entry' = entry /\ allDone' = allDone /\ run \in ARun /\ k \in DOMAIN Urls
  BY DEF Takeout!TakeNext, CarryInv, ARun
<1> DEFINE u == Urls[k]
<1>3. u \in Archives
  BY <1>2 DEF Archives
<1> HIDE DEF u
<1>4. PICK b : b = [Takeout!NoAttempt EXCEPT !.pc = "resume"]
  OBVIOUS
<1>5. AttemptOK(u, b, parcels, entry[u]) /\ b.id = 0 /\ b.pc = "resume"
  BY <1>4, FreshAttempt
<1>6. att' = [att EXCEPT ![u] = b]
  BY <1>1, <1>4 DEF u
<1>7. CarryCore'
  BY <1>2, <1>3, <1>5, <1>6, CoreSame DEF CarryInv
<1>8. run' \in ARun /\ run'.alive = run.alive /\ run'.fails = run.fails /\ run'.cookieDead = run.cookieDead
      /\ run'.pending = run.pending \ {k}
  BY <1>1, <1>2 DEF ARun
<1>9. att'[u] = b /\ \A v \in Archives \ {u} : att'[v] = att[v]
  BY <1>3, <1>6 DEF CarryInv, CarryCore
<1>10. ASSUME NEW v \in Archives, Counted(v) PROVE Counted(v)'
  <2>1. CASE v = u
    BY <1>5, <1>9, <2>1 DEF Counted
  <2>2. CASE v # u
    <3>1. \A l \in run.pending : Urls[l] = v => l \in run'.pending
      BY <1>8, <2>2 DEF u
    <3> QED BY <1>2, <1>9, <1>10, <2>2, <3>1 DEF Counted
  <2> QED BY <2>1, <2>2
<1>11. run'.alive /\ run'.fails = 0 /\ ~run'.cookieDead => \A v \in Archives : Counted(v)'
  BY <1>8, <1>10 DEF CarryInv
<1>12. ASSUME NEW v \in Archives
       PROVE  entry'[v] \in {<<>>, Takeout!Whole(v)}' /\ (v \in saved'.done => entry'[v] = Takeout!Whole(v)')
  BY <1>2 DEF CarryInv, Takeout!Whole
<1>13. allDone' => saved'.done = Archives
  BY <1>2 DEF CarryInv
<1> QED BY <1>7, <1>8, <1>11, <1>12, <1>13 DEF CarryInv

\* The core does not look at the run.
LEMMA CoreStays ==
  ASSUME CarryCore, UNCHANGED <<saved, parcels, late, entry, att>>
  PROVE  CarryCore'
<1>1. \A u \in Archives : Refs(u)' = Refs(u)
  BY DEF Refs
<1>2. \A u \in Archives : RefsOK(u)'
  BY <1>1 DEF CarryCore, RefsOK, Fitting
<1> QED BY <1>2 DEF CarryCore

LEMMA CarryStart == ASSUME CarryInv, Takeout!StartRun PROVE CarryInv'
<1>1. UNCHANGED <<saved, parcels, late, entry, att, allDone>> /\ run' = Takeout!NewRun(saved.done)
  BY DEF Takeout!StartRun
<1>2. CarryCore'
  BY <1>1, CoreStays DEF CarryInv
<1>3. run' \in ARun /\ \A u \in Archives : Counted(u)'
  BY <1>1, NewRunCounts DEF Counted
<1>4. ASSUME NEW v \in Archives
      PROVE  entry'[v] \in {<<>>, Takeout!Whole(v)}' /\ (v \in saved'.done => entry'[v] = Takeout!Whole(v)')
  BY <1>1 DEF CarryInv, Takeout!Whole
<1>5. allDone' => saved'.done = Archives
  BY <1>1 DEF CarryInv
<1> QED BY <1>2, <1>3, <1>4, <1>5 DEF CarryInv

LEMMA CarryEnd == ASSUME CarryInv, Takeout!EndRun PROVE CarryInv'
<1>1. UNCHANGED <<saved, parcels, late, entry, att>> /\ run' = [run EXCEPT !.alive = FALSE] /\ run \in ARun
  BY DEF Takeout!EndRun, CarryInv
<1>2. CarryCore'
  BY <1>1, CoreStays DEF CarryInv
<1>3. run' \in ARun /\ ~run'.alive
  BY <1>1 DEF ARun
<1>4. ASSUME NEW v \in Archives
      PROVE  entry'[v] \in {<<>>, Takeout!Whole(v)}' /\ (v \in saved'.done => entry'[v] = Takeout!Whole(v)')
  BY <1>1 DEF CarryInv, Takeout!Whole
<1>5. ASSUME allDone' PROVE saved'.done = Archives
  <2>1. run.alive /\ run.fails = 0 /\ ~run.cookieDead /\ run.pending = {}
    BY <1>5 DEF Takeout!EndRun, Takeout!Stopped
  <2>2. \A u \in Archives : att[u].pc = "idle"
    BY CarryNames DEF Takeout!EndRun, Takeout!Busy
  <2>3. \A u \in Archives : u \in saved.done
    BY <2>1, <2>2 DEF CarryInv, Counted
  <2>4. saved.done \subseteq Archives
    BY DEF CarryInv, CarryCore, ASaved
  <2> QED BY <1>1, <2>3, <2>4
<1> QED BY <1>2, <1>3, <1>4, <1>5 DEF CarryInv

LEMMA CarryCrash == ASSUME CarryInv, Takeout!Crash PROVE CarryInv'
<1>0. CarryCore /\ LateOK(late) /\ SessionsOK(parcels) /\ run \in ARun
  BY DEF CarryInv, CarryCore
<1>1. /\ saved' = saved /\ parcels' = parcels /\ entry' = entry /\ allDone' = allDone /\ run' = [run EXCEPT !.alive = FALSE]
      /\ att' = [u \in Archives |-> Takeout!NoAttempt]
      /\ \A r \in late' : r \in late \/ \E u \in Archives : r \in Takeout!Abandoned(u)
  BY CarryNames DEF Takeout!Crash, Takeout!Busy
<1>2. \A u \in Archives : AttemptOK(u, att'[u], parcels', entry'[u]) /\ att'[u].id = 0
  BY <1>1, IdleAttempt
<1>3. att' \in [Archives -> AnAttempt]
  BY <1>1, <1>2 DEF AttemptOK
<1>4. ASSUME NEW r \in late', r \notin late
      PROVE  r \in Id \X Nat \X Nat /\ r[2] = r[3] /\ \E u \in Archives : r[1] \in Refs(u) /\ r[2] <= Size[u]
  BY <1>0, <1>1, <1>4, AbandonedIs, CarryNames
<1>5. LateOK(late')
  BY <1>0, <1>4 DEF LateOK
<1>6. \A v \in Archives : Refs(v)' \subseteq Refs(v)
  BY <1>1, <1>2 DEF Refs
<1>7. ASSUME NEW v \in Archives, NEW i \in Refs(v)' PROVE Fitting(v, i)'
  <2>1. i \in Refs(v) /\ Fitting(v, i) /\ \A w \in Archives : i \in Refs(w) => w = v
    BY <1>0, <1>6 DEF CarryCore, RefsOK
  <2>2. ASSUME NEW r \in late', r[1] = i PROVE r[2] <= Size[v]
    <3>1. CASE r \in late
      BY <2>1, <2>2, <3>1 DEF Fitting
    <3>2. CASE r \notin late
      BY <1>4, <2>1, <2>2, <3>2
    <3> QED BY <3>1, <3>2
  <2> QED BY <1>1, <2>1, <2>2 DEF Fitting
<1>8. \A v \in Archives : RefsOK(v)'
  BY <1>0, <1>6, <1>7 DEF CarryCore, RefsOK
<1>9. CarryCore'
  BY <1>0, <1>1, <1>2, <1>3, <1>5, <1>8 DEF CarryCore
<1>10. run' \in ARun /\ ~run'.alive
  BY <1>0, <1>1 DEF ARun
<1> QED BY <1>1, <1>9, <1>10, CarryGoesOn

LEMMA CarryStep == ASSUME CarryInv, [Takeout!TNext]_Takeout!tvars PROVE CarryInv'
<1>1. CASE UNCHANGED Takeout!tvars
  <2>1. UNCHANGED <<saved, parcels, late, entry, att, run, allDone>>
    BY <1>1 DEF Takeout!tvars
  <2>2. CarryCore' /\ run' \in ARun
    BY <2>1, CoreStays DEF CarryInv
  <2> QED BY <2>1, <2>2, CarryGoesOn
<1>2. CASE \E u \in Archives : Takeout!Work(u)
  BY <1>2, CarryResume, CarryGoogle, CarryOpen, CarryProduce, CarryCut, CarryConsume, CarryPut, CarryComplete, CarryVerify
     DEF Takeout!Work
<1> QED BY <1>1, <1>2, CarryTake, CarryStart, CarryEnd, CarryCrash, CarryLate, CarrySweep, CarryNames DEF Takeout!TNext

\* What the script has carried across is the archive, ALL_DONE is written when all are there, and nobody sleeps in vain.
THEOREM CarryHolds == Spec => []CarrySound
<1> DEFINE Inv == part = "takeout" => CarryInv
<1>1. Init => Inv
  BY CarryFirst DEF Init
<1>2. Inv /\ [Next]_vars => Inv'
  BY CarryStep, PartsStep
<1>3. Inv => CarrySound
  BY CarryTrue DEF CarrySound
<1> HIDE DEF Inv
<1> QED BY <1>1, <1>2, <1>3, PTL DEF Spec
=============================================================================
