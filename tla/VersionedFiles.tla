---------------------------- MODULE VersionedFiles ----------------------------
(***************************************************************************)
(* What the file calls promise: each of them takes effect at one moment,   *)
(* and a content is replaced only where the one who asked expected it. A   *)
(* call whose entry another one changed under its hands is overtaken, and  *)
(* of that one nothing is promised.                                        *)
(***************************************************************************)
EXTENDS Integers

CONSTANTS Client, Id

VARIABLES
  rows,       \* [Id -> what has the id: state "none", "live", "bin" or "gone", place and content]
  wish,       \* the call of each client
  overtaken   \* clients whose last call was overtaken

avars == <<rows, wish, overtaken>>

NoWish == [op |-> "none", id |-> 0, at |-> <<>>, has |-> "", expect |-> "any", replace |-> FALSE, revive |-> FALSE]
Holders(p) == {i \in Id : rows[i].state \in {"live", "bin"} /\ rows[i].at = p}
Fresh(i)   == rows[i].state = "none"

Put(w) ==
  \/ \E i \in Holders(w.at) :
       /\ \/ rows[i].state = "live" /\ w.replace /\ w.expect \in {"any", rows[i].has}
          \/ rows[i].state = "bin" /\ w.revive
       /\ rows' = [rows EXCEPT ![i] = [state |-> "live", at |-> w.at, has |-> w.has]]
  \/ /\ Holders(w.at) = {} /\ w.expect = "any"
     /\ \E i \in Id : Fresh(i) /\ rows' = [rows EXCEPT ![i] = [state |-> "live", at |-> w.at, has |-> w.has]]

Place(w) ==
  /\ rows[w.id].state = "live" /\ Holders(w.at) \subseteq {w.id}
  /\ rows' = [rows EXCEPT ![w.id].at = w.at]

Bin(w)  == rows[w.id].state = "live" /\ rows' = [rows EXCEPT ![w.id].state = "bin"]
Back(w) == rows[w.id].state \in {"live", "bin"} /\ rows' = [rows EXCEPT ![w.id].state = "live"]

Copy(w) ==
  /\ rows[w.id].state = "live" /\ Holders(w.at) = {}
  /\ \E i \in Id : Fresh(i) /\ rows' = [rows EXCEPT ![i] = [rows[w.id] EXCEPT !.at = w.at]]

Effect(w) ==
  \/ w.op = "put" /\ Put(w)
  \/ w.op = "place" /\ Place(w)
  \/ w.op = "bin" /\ Bin(w)
  \/ w.op = "back" /\ Back(w)
  \/ w.op = "copy" /\ Copy(w)

Ask(c) ==
  /\ wish[c] = NoWish /\ wish'[c] # NoWish /\ wish' = [wish EXCEPT ![c] = wish'[c]]
  /\ overtaken' = [overtaken EXCEPT ![c] = FALSE]
  /\ UNCHANGED rows

Do(c) ==
  /\ wish[c] # NoWish /\ wish' = [wish EXCEPT ![c] = NoWish]
  /\ \/ Effect(wish[c]) /\ UNCHANGED overtaken
     \/ overtaken' = [overtaken EXCEPT ![c] = TRUE]

Refuse(c) ==
  /\ wish[c] # NoWish /\ wish' = [wish EXCEPT ![c] = NoWish]
  /\ UNCHANGED <<rows, overtaken>>

Empty(i) == rows[i].state = "bin" /\ rows' = [rows EXCEPT ![i].state = "gone"] /\ UNCHANGED <<wish, overtaken>>

AInit == wish = [c \in Client |-> NoWish] /\ overtaken = [c \in Client |-> FALSE]
ANext == (\E c \in Client : Ask(c) \/ Do(c) \/ Refuse(c)) \/ \E i \in Id : Empty(i)

ASpec == AInit /\ [][ANext]_avars
=============================================================================
