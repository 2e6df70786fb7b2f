----------------------------- MODULE MCJobQueue -----------------------------
(* A small instance of JobQueue for TLC.                                   *)
EXTENDS JobQueue, TLC

CONSTANTS p1, d1   \* a photo and a document

Kinds == [a \in Asset |-> IF a = d1 THEN "pdf" ELSE "photo"]

(* The bound of the safety run: at most one kind of trouble in a behaviour *)
(* at a time, and none while there are rows of two assets.                 *)
Troubles == {t \in {"failure", "restart", "pause", "copy", "overdue"} :
               CASE t = "failure" -> fails > 0
                 [] t = "restart" -> restarts > 0 \/ stopped
                 [] t = "pause"   -> paused
                 [] t = "copy"    -> \E a \in Asset : inFiles[a]
                 [] t = "overdue" -> overdue # {} /\ fails = 0}
AssetsSeen == {job[i].asset : i \in 1..created}
OneTrouble == Cardinality(Troubles) + Cardinality(AssetsSeen) <= 2
=============================================================================
