----------------------------- MODULE MCFolderTree -----------------------------
(* Small instances of FolderTree for TLC.  0 is the root.                  *)
EXTENDS FolderTree, TLC

CONSTANTS a, b, e1, e2

(* 1 and 2 in the root, 3 in 1; 4, where there is one, in 2. *)
MCPar  == [f \in Folder |-> CASE f = 0 -> None [] f \in {1, 2} -> 0 [] f = 3 -> 1 [] f = 4 -> 2]
MCName == [f \in Folder |-> CASE f = 0 -> None [] f \in {1, 3} -> a [] f \in {2, 4} -> b]

(* A chain 0 / 1 / 2 and an unused id 3. *)
ChainPar  == [f \in Folder |-> CASE f = 0 -> None [] f \in {1, 2} -> f - 1 [] f = 3 -> None]
ChainName == [f \in Folder |-> CASE f \in {0, 3} -> None [] f = 1 -> a [] f = 2 -> b]

(* The first entry in folder 2, the others not created yet. *)
MCFold == [e \in Entry |-> IF e = e1 THEN 2 ELSE None]

Symmetry == Permutations(Req)

(***************************************************************************)
(* A behaviour is one of calls after each other, or of calls at once.      *)
(***************************************************************************)
VARIABLE alone

Busy == {r \in Req : req[r].pc # "idle"}

TreeInit == Init /\ alone \in BOOLEAN
TreeNext == (\E r \in IF alone /\ Busy # {} THEN Busy ELSE Req : Step(r)) /\ UNCHANGED alone
TreeSpec == TreeInit /\ [][TreeNext]_<<vars, alone>>

(* The bound of calls at once: renames, patches and moves, moves and the   *)
(* trash, a new folder and the trash, or a new file and the trash, and one *)
(* stamp.  Two calls that both give a name come only while the names are   *)
(* as they were at first, a move of a file only when nothing is renamed.   *)
Doing(calls) == \E r \in Req : req[r].pc \in calls
NoNewFolder == Rows \ {Root} \subseteq {f \in Folder : StartName[f] # None} /\ ~Doing({"create"})
NoNewFile   == (\A e \in Entry : StartFold[e] = None => fold[e] = None) /\ ~Doing({"put"})
FilesStay   == (\A e \in Entry : StartFold[e] # None => fold[e] \in {StartFold[e], None}) /\ ~Doing({"shift"})
Patches     == \E r \in Req : req[r].name # None /\ req[r].to # None /\ req[r].pc # "create"
NamesOrTrash ==
  \/ /\ clock = 0 /\ NoNewFolder /\ NoNewFile
     /\ ~Doing({"delete", "restore", "drop", "undrop"})
     /\ FilesStay \/ (name = StartName /\ \A r \in Req : req[r].name = None)
     /\ name = StartName \/ ~\A r \in Req : req[r].name # None
  \/ /\ name = StartName /\ NoNewFolder /\ NoNewFile /\ FilesStay
     /\ \A r \in Req : req[r].name = None
  \/ /\ NoNewFolder \/ NoNewFile
     /\ \A f \in Folder : StartPar[f] # None => par[f] \in {StartPar[f], None} /\ name[f] = StartName[f]
     /\ FilesStay /\ ~Doing({"rename", "lock", "walk", "write", "drop", "undrop"})

(* Calls after each other may do anything; a second stamp and a file in    *)
(* another folder come only while the names are as they were at first, a   *)
(* new file and a patch of both the name and the place only before a       *)
(* deletion.                                                               *)
Bound ==
  IF ~alone THEN NamesOrTrash /\ clock <= 1
  ELSE \/ /\ NoNewFile
          /\ name = StartName \/ (clock < 2 /\ FilesStay)
          /\ clock = 0 \/ ~Patches
       \/ clock = 0 /\ name = StartName

(* No step reads the mirror or the history, and of calls at once no        *)
(* property does either: the run need not tell states apart by them.       *)
ServerView == <<rowv, entv, req, clock, alone, IF alone THEN client ELSE <<>>>>
=============================================================================
