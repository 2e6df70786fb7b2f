------------------------------ MODULE DavTree ------------------------------
(***************************************************************************)
(* dav/: the tree of files as WebDAV clients (Finder, rclone) see it, by   *)
(* path. A call finds by the path what it is about, then changes that by   *)
(* id; folders and files have names of their own, so that one path may     *)
(* lead to a file and to a folder.                                         *)
(***************************************************************************)
EXTENDS Integers, Sequences, FiniteSets, SequencesExt

CONSTANTS
  Client, Writers,   \* those that call, and those whose token may write
  Dir, File,         \* ids of folders and of files
  Root, System,      \* the root; a folder that is protected and not shown (photos; mail)
  Name, SystemName, Content,
  Start,             \* folders and files there are at first
  MaxCalls, MaxFaults   \* bounds: calls, and steps of the store that fail

VARIABLES
  dir,        \* folder -> [state, parent, name], state "none", "live" or "bin"
  file,       \* file -> [state, dir, name, has]
  proc,       \* client -> the call under way
  tmp,        \* objects under files/tmp/
  left,       \* history: those that a failure of the store left there
  calls, faults

Arg  == UNION {[1..n -> Name] : n \in 1..2} \cup {<<SystemName>>} \cup {<<SystemName, n>> : n \in Name}
Path == Arg \cup [1..3 -> Name]
Nobody == "none"
NoCall == [op |-> "none", pc |-> "idle", src |-> <<>>, dst |-> <<>>, has |-> Nobody,
           at |-> Root, id |-> Nobody, ids |-> {}, alone |-> TRUE]

DInit ==
  /\ \E t \in Start : dir = t.dir /\ file = t.file
  /\ proc = [c \in Client |-> NoCall] /\ tmp = 0 /\ left = 0 /\ calls = 0 /\ faults = 0

-----------------------------------------------------------------------------
(* What a path leads to.                                                   *)
Child(d, n) ==
  LET found == {e \in Dir : dir[e].state = "live" /\ dir[e].parent = d /\ dir[e].name = n} IN
    IF found = {} \/ found = {System} THEN Nobody ELSE CHOOSE e \in found : TRUE

DirOf(p) ==
  LET way[n \in 0..Len(p)] == IF n = 0 THEN Root ELSE Child(way[n - 1], p[n]) IN way[Len(p)]
FilesAt(p) == {f \in File : file[f].state = "live" /\ file[f].dir = DirOf(Front(p)) /\ file[f].name = Last(p)}
DirAt(p)   == {e \in Dir : dir[e].state = "live" /\ DirOf(Front(p)) # Nobody /\ dir[e].parent = DirOf(Front(p)) /\ dir[e].name = Last(p)}

\* Whoever has a name in a folder, in the bin or not: the database lets no other have it.
HasDir(d, n)  == {e \in Dir : dir[e].state # "none" /\ dir[e].parent = d /\ dir[e].name = n}
HasFile(d, n) == {f \in File : file[f].state # "none" /\ file[f].dir = d /\ file[f].name = n}

\* What is shown at every path: what GET reads there, and whether it is a folder.
View == [p \in Path |-> {file[f].has : f \in FilesAt(p)} \cup (IF DirOf(p) = Nobody THEN {} ELSE {"folder"})]

\* The folders below a folder, level by level, those in the bin included.
Within(S) == S \cup {e \in Dir : dir[e].parent \in S}
Subtree(d) == Within(Within(Within({d})))

-----------------------------------------------------------------------------
Ends(c)      == [proc EXCEPT ![c] = NoCall]
Changed(c)   == [e \in Client |-> IF e = c THEN NoCall ELSE [proc[e] EXCEPT !.alone = FALSE]]
Goes(c, new) == [proc EXCEPT ![c] = new]
Asks(c)      == proc[c].pc = "idle" /\ c \in Writers /\ calls < MaxCalls /\ calls' = calls + 1

\* Where a move puts things: the folder of the destination, not that of the source.
TargetOfSource(c) == IF proc[c].id \in File THEN file[proc[c].id].dir ELSE dir[proc[c].id].parent
Target(c) == proc[c].at

AskMkcol(c, p) ==
  LET d == DirOf(Front(p)) IN
  /\ Asks(c)
  /\ d # Nobody /\ HasDir(d, Last(p)) = {}
  /\ proc' = Goes(c, [NoCall EXCEPT !.op = "mkcol", !.pc = "commit", !.src = p, !.at = d])
  /\ UNCHANGED <<dir, file, tmp, left, faults>>

AskDelete(c, p) ==
  /\ Asks(c)
  /\ \/ \E f \in FilesAt(p) :
          proc' = Goes(c, [NoCall EXCEPT !.op = "delete", !.pc = "commit", !.src = p, !.id = f])
     \/ FilesAt(p) = {} /\ \E d \in DirAt(p) \ {Root, System} :
          proc' = Goes(c, [NoCall EXCEPT !.op = "delete", !.pc = "commit", !.src = p, !.id = d, !.ids = Subtree(d)])
  /\ UNCHANGED <<dir, file, tmp, left, faults>>

AskMove(c, p, q) ==
  LET at == DirOf(Front(q))
      new == [NoCall EXCEPT !.op = "move", !.pc = "commit", !.src = p, !.dst = q, !.at = at] IN
  /\ Asks(c) /\ at # Nobody
  /\ \/ \E f \in FilesAt(p) : HasFile(at, Last(q)) \subseteq {f} /\ proc' = Goes(c, [new EXCEPT !.id = f])
     \/ FilesAt(p) = {} /\ \E d \in DirAt(p) \ {Root, System} :
          /\ HasDir(at, Last(q)) \subseteq {d} /\ at \notin Subtree(d)
          /\ proc' = Goes(c, [new EXCEPT !.id = d])
  /\ UNCHANGED <<dir, file, tmp, left, faults>>

AskPut(c, p, has) ==
  LET d == DirOf(Front(p)) IN
  /\ Asks(c) /\ d # Nobody
  /\ proc' = Goes(c, [NoCall EXCEPT !.op = "put", !.pc = "upload", !.src = p, !.at = d, !.has = has])
  /\ UNCHANGED <<dir, file, tmp, left, faults>>

-----------------------------------------------------------------------------
(* PUT: the bytes go to a temporary object, from there to their place      *)
(* unless the content is known already, and the entry is made as every     *)
(* other one; the name of a file in the bin brings that file back.         *)
Fails == faults < MaxFaults /\ faults' = faults + 1

CutLeft(c) == UNCHANGED tmp
Cut(c) == tmp' = tmp - 1

Upload(c) ==
  /\ proc[c].pc = "upload"
  /\ tmp' = tmp + 1 /\ proc' = [proc EXCEPT ![c].pc = "asset"]
  /\ UNCHANGED <<dir, file, left, calls, faults>>

\* The client goes away or the store gives up in the middle: the object is deleted, if that works.
UploadFails(c) ==
  /\ proc[c].pc = "asset" /\ Fails
  /\ Cut(c) /\ UNCHANGED left
  /\ proc' = Ends(c)
  /\ UNCHANGED <<dir, file, calls>>

\* What fails from here on leaves the temporary object where it is.
Asset(c) ==
  /\ proc[c].pc = "asset"
  /\ \/ tmp' = tmp - 1 /\ proc' = [proc EXCEPT ![c].pc = "read"] /\ UNCHANGED <<left, faults>>
     \/ Fails /\ left' = left + 1 /\ UNCHANGED tmp
        /\ \/ proc' = [proc EXCEPT ![c].pc = "read"]
           \/ proc' = Ends(c)
  /\ UNCHANGED <<dir, file, calls>>

Read(c) ==
  LET here == HasFile(proc[c].at, Last(proc[c].src)) IN
  /\ proc[c].pc = "read"
  /\ proc' = IF dir[proc[c].at].state # "live" THEN Ends(c)
             ELSE [proc EXCEPT ![c].pc = "commit", ![c].id = IF here = {} THEN Nobody ELSE CHOOSE f \in here : TRUE]
  /\ UNCHANGED <<dir, file, tmp, left, calls, faults>>

-----------------------------------------------------------------------------
(* The transactions; one that meets a name taken meanwhile fails as a      *)
(* whole.                                                                  *)
Refuse(c) == proc' = Ends(c) /\ UNCHANGED <<dir, file>>

Commit(c) ==
  LET a == proc[c]
      n == Last(IF a.op = "move" THEN a.dst ELSE a.src)
      free(S) == CHOOSE x \in S : TRUE
      dirs  == {d \in Dir : dir[d].state = "none"}
      files == {f \in File : file[f].state = "none"} IN
  /\ a.pc = "commit"
  /\ CASE a.op = "mkcol" ->
            IF HasDir(a.at, n) # {} \/ dirs = {} THEN Refuse(c)
            ELSE dir' = [dir EXCEPT ![free(dirs)] = [state |-> "live", parent |-> a.at, name |-> n]]
                 /\ proc' = Changed(c) /\ UNCHANGED file
       [] a.op = "put" /\ a.id # Nobody ->
            file' = [file EXCEPT ![a.id].state = "live", ![a.id].has = a.has] /\ proc' = Changed(c) /\ UNCHANGED dir
       [] a.op = "put" /\ a.id = Nobody ->
            IF HasFile(a.at, n) # {} \/ files = {} THEN Refuse(c)
            ELSE file' = [file EXCEPT ![free(files)] = [state |-> "live", dir |-> a.at, name |-> n, has |-> a.has]]
                 /\ proc' = Changed(c) /\ UNCHANGED dir
       [] a.op = "delete" /\ a.id \in File ->
            file' = [file EXCEPT ![a.id].state = "bin"] /\ proc' = Changed(c) /\ UNCHANGED dir
       [] a.op = "delete" /\ a.id \in Dir ->
            dir' = [d \in Dir |-> IF d \in a.ids THEN [dir[d] EXCEPT !.state = "bin"] ELSE dir[d]]
            /\ proc' = Changed(c) /\ UNCHANGED file
       [] a.op = "move" /\ a.id \in File ->
            IF HasFile(Target(c), n) \ {a.id} # {} THEN Refuse(c)
            ELSE file' = [file EXCEPT ![a.id].dir = Target(c), ![a.id].name = n] /\ proc' = Changed(c) /\ UNCHANGED dir
       [] a.op = "move" /\ a.id \in Dir ->
            IF HasDir(Target(c), n) \ {a.id} # {} THEN Refuse(c)
            ELSE dir' = [dir EXCEPT ![a.id].parent = Target(c), ![a.id].name = n] /\ proc' = Changed(c) /\ UNCHANGED file
  /\ UNCHANGED <<tmp, left, calls, faults>>

DNext ==
  \E c \in Client :
    \/ \E p \in Arg : AskMkcol(c, p) \/ AskDelete(c, p)
    \/ \E p, q \in Arg : AskMove(c, p, q)
    \/ \E p \in Arg, has \in Content : AskPut(c, p, has)
    \/ Upload(c) \/ UploadFails(c) \/ Asset(c) \/ Read(c) \/ Commit(c)

dvars == <<dir, file, proc, tmp, left, calls, faults>>

-----------------------------------------------------------------------------
(* What the paths show after a call that nobody came between, from what    *)
(* they showed before it: what is named, and nothing else, has changed.    *)
Under(p, q) == IsPrefix(p, q)
Moved(p, q, r) == p \o SubSeq(r, Len(q) + 1, Len(r))

Expected(a, was, isFile) ==
  LET s == a.src  d == a.dst IN
  [r \in Path |->
     CASE a.op = "put"    -> IF r = s THEN (was[r] \ Content) \cup {a.has} ELSE was[r]
       [] a.op = "mkcol"  -> IF r = s THEN was[r] \cup {"folder"} ELSE was[r]
       [] a.op = "delete" -> IF isFile THEN (IF r = s THEN was[r] \ Content ELSE was[r])
                             ELSE IF r = s THEN was[r] \ {"folder"} ELSE IF Under(s, r) THEN {} ELSE was[r]
       [] a.op = "move"   ->
            IF s = d THEN was[r]
            ELSE IF isFile THEN (IF r = d THEN (was[r] \ Content) \cup (was[s] \cap Content) ELSE IF r = s THEN was[r] \ Content ELSE was[r])
            ELSE IF r = d THEN was[r] \cup {"folder"}
            ELSE IF Under(d, r) THEN (IF Moved(s, d, r) \in Path THEN was[Moved(s, d, r)] ELSE View'[r])
            ELSE IF r = s THEN was[r] \ {"folder"} ELSE IF Under(s, r) THEN {} ELSE was[r]]

(* Every call that was carried out, and met with no other, did to the tree *)
(* as the client sees it what WebDAV says of its method - and so to the    *)
(* folders it does not see nothing at all.                                 *)
EachCallDoesItsOwn ==
  [][\A c \in Client :
       proc[c].pc = "commit" /\ proc'[c].pc = "idle" /\ proc[c].alone /\ <<dir, file>>' # <<dir, file>>
         => /\ View' = Expected(proc[c], View, proc[c].op = "put" \/ proc[c].id \in File)
            /\ dir'[System] = dir[System]]_<<dir, file, proc>>

(* Nothing is left under files/tmp/ by an upload, the one that was cut off *)
(* included, but where the store itself failed.                            *)
TmpIsCleared == tmp = left + Cardinality({c \in Client : proc[c].pc = "asset"})
=============================================================================
