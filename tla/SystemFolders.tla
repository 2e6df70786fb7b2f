----------------------------- MODULE SystemFolders -----------------------------
(***************************************************************************)
(* The owner's root and the system folders of photographs and mail         *)
(* (AuthService): seeded when the table of users is empty, looked for and  *)
(* made again by whoever needs one, while the owner makes and deletes      *)
(* folders of the same names.                                              *)
(***************************************************************************)
EXTENDS Integers, Sequences

CONSTANTS
  Caller,
  MaxFolders,  \* bound
  MaxEnds      \* bound: times the process ends or the owner deletes a folder

Use == {"photo", "mail"}
Free == [c \in Caller |-> [use |-> "photo", at |-> "off", root |-> 0, folder |-> 0, beside |-> FALSE, empty |-> FALSE]]

VARIABLES
  seed,       \* statements of onModuleInit done, 4 when requests are served
  folders,    \* rows: parent, name, zone, live; used: a system folder's file is in it; own: a file of the owner's
  owner,      \* the ids in the User row
  need,       \* calls of photoFolderId and mailFolderId
  ends,
  crossed     \* history: the seeding was cut off, or a call entered an id that others replaced or deleted

fvars == <<seed, folders, owner, need, ends, crossed>>

Row(parent, name, zone) == [parent |-> parent, name |-> name, zone |-> zone, live |-> TRUE, used |-> FALSE, own |-> FALSE]
Ids == 1..Len(folders)
Empty(i) == ~folders[i].used /\ ~folders[i].own
New == Len(folders) + 1
Living(i, zone) == i # 0 /\ folders[i].live /\ folders[i].zone = zone
Taken(parent, name) == \E i \in Ids : folders[i].parent = parent /\ folders[i].name = name

FInit ==
  /\ seed = 0 /\ folders = <<>> /\ owner = [u \in Use \cup {"root"} |-> 0]
  /\ need = Free /\ ends = 0 /\ crossed = FALSE

Add(parent, name, zone) == New <= MaxFolders /\ folders' = Append(folders, Row(parent, name, zone))

-----------------------------------------------------------------------------
(* onModuleInit: the user, its root, its photographs, the link; not one transaction. *)

Seed ==
  /\ seed < 4 /\ seed' = seed + 1
  /\ CASE seed = 0 -> UNCHANGED <<folders, owner>>
       [] seed = 1 -> Add(0, "root", "files") /\ UNCHANGED owner
       [] seed = 2 -> Add(1, "photo", "photo") /\ UNCHANGED owner
       [] seed = 3 -> owner' = [owner EXCEPT !.root = 1, !.photo = 2] /\ UNCHANGED folders
  /\ UNCHANGED <<need, ends, crossed>>

\* With a user in the table the next process seeds nothing.
EndProcess ==
  /\ ends < MaxEnds /\ ends' = ends + 1
  /\ seed' = IF seed = 0 THEN 0 ELSE 4
  /\ crossed' = (crossed \/ seed \in 1..3)
  /\ need' = Free
  /\ UNCHANGED <<folders, owner>>

-----------------------------------------------------------------------------
(* photoFolderId and mailFolderId. *)

Step(c, at) == need' = [need EXCEPT ![c].at = at]

Begin(c, u) ==
  /\ seed = 4 /\ need[c].at = "off"
  /\ ~Living(owner[u], u)
  /\ need' = [need EXCEPT ![c] = [Free[c] EXCEPT !.use = u, !.at = "root"]]
  /\ UNCHANGED <<seed, folders, owner, ends, crossed>>

\* rootFolderId: the living root of the owner, or a new one.
Root(c) ==
  /\ need[c].at = "root"
  /\ IF owner.root # 0
     THEN need' = [need EXCEPT ![c].at = "find", ![c].root = owner.root] /\ UNCHANGED folders
     ELSE Add(0, "root", "files") /\ need' = [need EXCEPT ![c].at = "link", ![c].root = New]
  /\ UNCHANGED <<seed, owner, ends, crossed>>

LinkRoot(c) ==
  /\ need[c].at = "link" /\ Step(c, "find")
  /\ owner' = [owner EXCEPT !.root = need[c].root]
  /\ crossed' = (crossed \/ owner.root # 0)
  /\ UNCHANGED <<seed, folders, ends>>

\* A namesake is taken over, from the trash too; for mail only an empty one.
TakesAny(u, i)   == TRUE
TakesEmpty(u, i) == u = "photo" \/ Empty(i)
Find(c) ==
  LET n == need[c]
      namesakes == {i \in Ids : folders[i].parent = n.root /\ folders[i].name = n.use}
  IN /\ n.at = "find"
     /\ \/ \E i \in namesakes :
             /\ TakesEmpty(n.use, i)
             /\ need' = [need EXCEPT ![c].at = "adopt", ![c].folder = i, ![c].empty = Empty(i)]
        \/ /\ \A i \in namesakes : ~TakesEmpty(n.use, i)
           /\ need' = [need EXCEPT ![c].at = "make", ![c].beside = namesakes # {}]
     /\ UNCHANGED <<seed, folders, owner, ends, crossed>>

Adopt(c) ==
  LET n == need[c] IN
  /\ n.at = "adopt" /\ Step(c, "set")
  /\ folders' = [folders EXCEPT ![n.folder].zone = n.use, ![n.folder].live = TRUE]
  /\ crossed' = (crossed \/ (n.empty /\ folders[n.folder].own))
  /\ UNCHANGED <<seed, owner, ends>>

\* freeChildFolderName, then the row; the index refuses a name that was taken since.
Make(c) ==
  LET n == need[c] IN
  /\ n.at = "make"
  /\ \E name \in {n.use, "second"} :
       /\ IF name = "second" THEN n.use = "mail" /\ Taken(n.root, "mail") ELSE ~n.beside
       /\ IF Taken(n.root, name) THEN need' = [need EXCEPT ![c] = Free[c]] /\ UNCHANGED folders
          ELSE Add(n.root, name, n.use) /\ need' = [need EXCEPT ![c].at = "set", ![c].folder = New]
  /\ UNCHANGED <<seed, owner, ends, crossed>>

\* The id in the user's row, whatever it has become; the caller then puts something there.
Set(c) ==
  LET n == need[c] IN
  /\ n.at = "set"
  /\ owner' = [owner EXCEPT ![n.use] = n.folder]
  /\ folders' = [folders EXCEPT ![n.folder].used = TRUE]
  /\ crossed' = (crossed \/ ~folders[n.folder].live \/ (Living(owner[n.use], n.use) /\ owner[n.use] # n.folder))
  /\ need' = [need EXCEPT ![c] = Free[c]]
  /\ UNCHANGED <<seed, ends>>

-----------------------------------------------------------------------------
(* The owner's own folders. *)

OwnFolder(name) ==
  /\ seed = 4 /\ owner.root # 0 /\ ~Taken(owner.root, name) /\ Add(owner.root, name, "files")
  /\ UNCHANGED <<seed, owner, need, ends, crossed>>

OwnFile(i) ==
  /\ seed = 4 /\ folders[i].parent # 0 /\ folders[i].live /\ folders[i].zone = "files"
  /\ folders' = [folders EXCEPT ![i].own = TRUE]
  /\ UNCHANGED <<seed, owner, need, ends, crossed>>

\* protectedFolderIds: the root and the living folders the owner's row names cannot be deleted.
Unprotected(i) == TRUE
Deletable(i) == \A u \in DOMAIN owner : owner[u] # i
Delete(i) ==
  /\ seed = 4 /\ folders[i].live /\ folders[i].parent # 0 /\ Deletable(i) /\ ends < MaxEnds
  /\ folders' = [folders EXCEPT ![i].live = FALSE, ![i].used = FALSE, ![i].own = FALSE] /\ ends' = ends + 1
  /\ UNCHANGED <<seed, owner, need, crossed>>

FNext ==
  \/ Seed \/ EndProcess
  \/ \E c \in Caller : Root(c) \/ LinkRoot(c) \/ Find(c) \/ Adopt(c) \/ Make(c) \/ Set(c) \/ \E u \in Use : Begin(c, u)
  \/ \E u \in Use : OwnFolder(u)
  \/ \E i \in Ids : OwnFile(i) \/ Delete(i)

FSpec == FInit /\ [][FNext]_fvars

-----------------------------------------------------------------------------
(* A kind of system folder has one living folder that is in use, unless the seeding was cut off or two calls made    *)
(* the folder at once.                                                                                                *)
OneOfEach ==
  \A u \in Use : (\E i, j \in Ids : i # j /\ Living(i, u) /\ Living(j, u) /\ folders[i].used /\ folders[j].used) => crossed

\* What the owner's row names is not in the trash, unless it was deleted between the choice of the folder and its
\* entry in the row.
NamedIsLiving ==
  \A u \in Use : owner[u] # 0 => Living(owner[u], u) \/ crossed

\* The files of the owner do not vanish in the hidden zone of mail, unless one was put into a namesake that had been
\* found empty.
FilesStayInSight ==
  \A i \in Ids : folders[i].own /\ folders[i].zone = "mail" => crossed
=============================================================================
