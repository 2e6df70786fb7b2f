------------------------------- MODULE MCFiles -------------------------------
(***************************************************************************)
(* Small instances of what carries a user's files: one upload, the calls   *)
(* that put files under names, what is read out of files (UploadSession,   *)
(* NamedFiles and Readings, extended) and WebDAV. They share no state; a   *)
(* behaviour is one of the `part`.                                         *)
(***************************************************************************)
EXTENDS UploadSession, NamedFiles, Readings, TLC

VARIABLES dir, file, proc, davTmp, left, davCalls, faults

-----------------------------------------------------------------------------
(* Direct uploads of every kind without a named version, and the relay of a client that names its hash, as the mirror does. *)
Session(direct, declared, sized) ==
  [direct |-> direct, declared |-> declared, sized |-> sized, expect |-> "any", replace |-> TRUE]
SafeConfs == {[Session(TRUE, d, z) EXCEPT !.replace = rep] : d, z, rep \in BOOLEAN} \cup {Session(FALSE, TRUE, TRUE)}

\* Two folders of two zones, one of them the photos'; a file and one in the trash, in the folder beside the photos.
Zones == [f |-> "files", p |-> "photos"]
Names == <<"m">>
AllStyles ==
  {[expect |-> "any", replace |-> FALSE, revive |-> FALSE],
   [expect |-> "any", replace |-> TRUE, revive |-> TRUE],
   [expect |-> "a", replace |-> TRUE, revive |-> FALSE]}
Filed(state, n, has) == [state |-> state, at |-> <<"f", n>>, has |-> has, zone |-> "files"]
FileRows ==
  [i \in 0..3 |-> CASE i = 1 -> Filed("live", "n", "a") [] i = 2 -> Filed("bin", "m", "a") [] OTHER -> Filed("none", "n", "a")]

\* A root, the folder of the photos, and up to two folders and two files.
D(s, p, n)    == [state |-> s, parent |-> p, name |-> n]
F(s, d, n, h) == [state |-> s, dir |-> d, name |-> n, has |-> h]
NoD == D("none", "none", "none")
NoF == F("none", "R", "none", "none")
DavTrees == {
  [dir |-> [R |-> D("live", "none", "none"), P |-> D("live", "R", "p"), d1 |-> NoD, d2 |-> NoD],
   file |-> [f1 |-> NoF, f2 |-> NoF]],
  [dir |-> [R |-> D("live", "none", "none"), P |-> D("live", "R", "p"), d1 |-> D("live", "R", "a"), d2 |-> D("live", "d1", "b")],
   file |-> [f1 |-> F("live", "d1", "a", "x"), f2 |-> F("bin", "R", "b", "x")]],
  [dir |-> [R |-> D("live", "none", "none"), P |-> D("live", "R", "p"), d1 |-> D("live", "R", "a"), d2 |-> NoD],
   file |-> [f1 |-> F("live", "P", "a", "x"), f2 |-> NoF]]}
Dav ==
  INSTANCE DavTree WITH
    tmp <- davTmp, calls <- davCalls, Start <- DavTrees, Client <- {1, 2}, Writers <- {1, 2},
    Dir <- {"R", "P", "d1", "d2"}, File <- {"f1", "f2"}, Root <- "R", System <- "P",
    Name <- {"a", "b"}, SystemName <- "p", Content <- {"x", "y"}, MaxCalls <- 2, MaxFaults <- 1

\* Members whose headers have extra fields, comments and stubs; windows around the lengths of the headers.
Stored(n, extra, comment, data, stubs) == [name |-> n, extra |-> extra, comment |-> comment, data |-> data, stubs |-> stubs]
ZipArchives ==
  {<<Stored(1, 0, 0, 3, {}), Stored(3, 1, 2, 0, {}), Stored(2, 0, 1, 5, {"packed", "offset"})>>,
   <<Stored(2, 0, 3, 1, {"size", "offset"}), Stored(1, 2, 0, 4, {"size", "packed", "offset"})>>}

\* Images that sharp knows and one it does not, videos, with and without a date in their tags.
Shot(video, sharp, at) == [video |-> video, sharp |-> sharp, at |-> at]
AllShots ==
  {Shot(FALSE, TRUE, <<"date", "date", "date">>), Shot(FALSE, TRUE, <<"some", "nothing", "date">>),
   Shot(FALSE, FALSE, <<"some", "some", "some">>), Shot(FALSE, TRUE, <<"nothing", "nothing", "nothing">>),
   Shot(FALSE, TRUE, <<"nothing", "size", "size">>), Shot(TRUE, TRUE, <<"date", "date", "date">>),
   Shot(TRUE, TRUE, <<"size", "size", "size">>)}

-----------------------------------------------------------------------------
davVars == <<dir, file, proc, davTmp, left, davCalls, faults>>

\* A part that a behaviour is not of stays as it is at first where a step property reads it.
FilesInit ==
  /\ part \in {"upload", "names", "dav", "zip", "dates"}
  /\ Init /\ (part = "upload" \/ conf = Session(FALSE, TRUE, TRUE))
  /\ NInit
  /\ Dav!DInit /\ (part = "dav" \/ dir.d1 = NoD)
  /\ RInit

FilesNext ==
  /\ \/ part = "upload" /\ Next
     \/ part = "names" /\ NNext
     \/ part = "dav" /\ Dav!DNext
     \/ part \in {"zip", "dates"} /\ RNext
  /\ UNCHANGED part
  /\ part # "upload" => UNCHANGED vars
  /\ part # "names" => UNCHANGED nvars
  /\ part # "dav" => UNCHANGED davVars
  /\ part \notin {"zip", "dates"} => UNCHANGED <<zipVars, datesVars>>

FilesSpec == FilesInit /\ [][FilesNext]_<<vars, nvars, davVars, readVars>>

Symmetry == Permutations(Req) \cup Permutations(LiveObj)

-----------------------------------------------------------------------------
(* Every call of WebDAV does to the tree what its answer says, and leaves no temporary object. *)
DavDoesItsOwn == Dav!EachCallDoesItsOwn /\ [](part = "dav" => Dav!TmpIsCleared)
=============================================================================
