------------------------------ MODULE Readings ------------------------------
(***************************************************************************)
(* What is read out of a user's files, side by side: the members of a ZIP  *)
(* archive in the bucket (ZipReader) and the date of a shot (MediaDates).  *)
(* They share no state; a behaviour is one of the `part`.                  *)
(***************************************************************************)
EXTENDS Integers, Sequences

CONSTANTS
  Archives, Blocks, HeadLen, ReadChunk,   \* ZipReader
  Shots, Looker, MaxJobs, MaxFaults       \* MediaDates

\* A member has a name, an extra field, a comment and data of some length, and stubs for the numbers that may be stubs; a
\* header has a fixed part. What a parse of a file yields is of the four kinds.
ASSUME ReadingsAssumption ==
  /\ Archives \subseteq Seq([name : Nat, extra : Nat, comment : Nat, data : Nat, stubs : SUBSET {"size", "packed", "offset"}])
  /\ Blocks \subseteq Nat /\ HeadLen \in Nat \ {0} /\ ReadChunk \in Nat
  /\ Shots \subseteq [video : BOOLEAN, sharp : BOOLEAN, at : Seq({"nothing", "some", "size", "date"})]
  /\ \A s \in Shots : Len(s.at) = 3

VARIABLES
  part,
  archive, blockSize, record, member, wrong,
  shot, meta, job, bg, jobs, misses, given, raced, cut

Zip   == INSTANCE ZipReader WITH dir <- record
Dates == INSTANCE MediaDates WITH file <- shot, row <- meta, proc <- job, faults <- misses, Files <- Shots, Proc <- Looker

zipVars   == <<archive, blockSize, record, member, wrong>>
datesVars == <<shot, meta, job, bg, jobs, misses, given, raced, cut>>

\* A part that a behaviour is not of is left out of its states.
NoZip == archive = "away" /\ blockSize = "away" /\ record = "away" /\ member = "away" /\ wrong = "away"
NoDates ==
  /\ shot = "away" /\ meta = "away" /\ job = "away" /\ bg = "away" /\ jobs = "away" /\ misses = "away"
  /\ given = "away" /\ raced = "away" /\ cut = "away"

RInit ==
  /\ IF part = "zip" THEN Zip!ZInit ELSE NoZip
  /\ IF part = "dates" THEN Dates!MInit ELSE NoDates

RNext ==
  /\ \/ part = "zip" /\ Zip!ZNext /\ UNCHANGED datesVars
     \/ part = "dates" /\ Dates!MNext /\ UNCHANGED zipVars
  /\ UNCHANGED part

readVars == <<part, zipVars, datesVars>>
RSpec == part \in {"zip", "dates"} /\ RInit /\ [][RNext]_readVars

(* The reader of an archive gives the members that are in it, whatever its window; the date of a photo is the one its    *)
(* tags have, or else the one that was given last.                                                                       *)
ReadingsTrue ==
  /\ part = "zip" => Zip!ReadsTrue
  /\ part = "dates" => Dates!DatesSound
=============================================================================
