------------------------------ MODULE MCServices ------------------------------
(***************************************************************************)
(* Small instances of the services.                                        *)
(***************************************************************************)
EXTENDS Services

\* The text search: four letters of which one does not read.
FourLetters == 1..4

\* Unpacking: three members, the second one under a name that is taken; and what else an archive may hold.
Members    == <<"new", "held", "new">>
OddMembers == <<"new", "broken", "alike", "sealed">>

FourLogins == 1..4

\* The script: two archives, of four chunks and of two full ones, and everything that may go wrong.
Archives == <<"a", "b">>
Chunks   == [a |-> 4, b |-> 2]

\* The bucket: a photo, a photo that is a file too, and a forgotten content; a dump and a young temporary object beside them.
Entries   == [a |-> {"photos"}, b |-> {"photos", "files"}, c |-> {}]
NotOurs   == {[kind |-> "db", sha |-> "none", old |-> TRUE], [kind |-> "tmp", sha |-> "none", old |-> FALSE]}

\* An icon at its usual place, one behind a link, one only Google has.
Places == [x |-> {"direct"}, y |-> {"link"}, z |-> {"google"}]
=============================================================================
