--------------------------- MODULE AttachedDocument ---------------------------
(***************************************************************************)
(* The documents of expenses and filed returns (ExpensesController,        *)
(* FiledDeclarationsController): the file is put into the store first, a   *)
(* save then names its key in a row; a change of the row or its deletion   *)
(* takes the old object away before the row is written.                    *)
(***************************************************************************)

CONSTANTS
  Row,       \* rows of Expense, or periods of FiledDeclaration
  Key,       \* keys the uploads are given
  Caller,
  Periods,   \* rows that a create meets again: the upsert of a return
  NoKey      \* null

ASSUME AttachedAssumption == NoKey \notin Key \cup Row

NoCall == [op |-> "none", row |-> NoKey, old |-> NoKey, new |-> NoKey, at |-> "idle"]

VARIABLES
  rows,      \* [Row -> what is there and its fileS3Key]
  objects,
  asked,     \* an update or a removal between two awaits
  unsaved,   \* history: keys an upload returned that no save has named
  twice,     \* history: keys that two saves named
  left,      \* history: keys an upsert wrote over
  torn       \* history: rows whose call was cut off, and rows that two calls had in hand

dvars == <<rows, objects, asked, unsaved, twice, left, torn>>

DInit ==
  /\ rows = [r \in Row |-> [there |-> FALSE, key |-> NoKey]] /\ objects = {}
  /\ asked = [c \in Caller |-> NoCall]
  /\ unsaved = {} /\ twice = {} /\ left = {} /\ torn = {}

Used == objects \cup twice \cup left \cup {rows[r].key : r \in Row} \cup {asked[c].old : c \in Caller} \cup {asked[c].new : c \in Caller}

\* A new key each time.
Upload(k) ==
  /\ k \notin Used
  /\ objects' = objects \cup {k} /\ unsaved' = unsaved \cup {k}
  /\ UNCHANGED <<rows, asked, twice, left, torn>>

Named(k) == \E r \in Row : rows[r].key = k
Save(r, k) ==
  /\ rows' = [rows EXCEPT ![r] = [there |-> TRUE, key |-> k]]
  /\ unsaved' = unsaved \ {k}
  /\ twice' = IF k \in {NoKey, rows[r].key} \cup unsaved THEN twice ELSE twice \cup {k}
InHand(r) == \E c \in Caller : asked[c].row = r

\* create: an answer that is late is asked for again with the same key.
Create(r, k) ==
  /\ k = NoKey \/ k \in objects
  /\ r \in Periods \/ ~rows[r].there
  /\ Save(r, k)
  /\ left' = IF rows[r].key \in {NoKey, k} THEN left ELSE left \cup {rows[r].key}
  /\ torn' = IF InHand(r) THEN torn \cup {r} ELSE torn
  /\ UNCHANGED <<objects, asked>>

Look(c, r, op, k) ==
  /\ asked[c] = NoCall /\ rows[r].there
  /\ k \in {NoKey, rows[r].key} \cup unsaved
  /\ asked' = [asked EXCEPT ![c] = [op |-> op, row |-> r, old |-> rows[r].key, new |-> k, at |-> "object"]]
  /\ torn' = IF InHand(r) THEN torn \cup {r} ELSE torn
  /\ UNCHANGED <<rows, objects, unsaved, twice, left>>

KeptObject(a) == FALSE
Replaced(a)   == a.op = "remove" \/ a.old # a.new
DropObject(c) ==
  LET a == asked[c] IN
  /\ a.at = "object"
  /\ objects' = IF Replaced(a) THEN objects \ {a.old} ELSE objects
  /\ asked' = [asked EXCEPT ![c].at = "row"]
  /\ UNCHANGED <<rows, unsaved, twice, left, torn>>

WriteRow(c) ==
  LET a == asked[c] IN
  /\ a.at = "row" /\ asked' = [asked EXCEPT ![c] = NoCall]
  /\ IF ~rows[a.row].there THEN UNCHANGED <<rows, unsaved, twice>>
     ELSE IF a.op = "update" THEN Save(a.row, a.new)
     ELSE rows' = [rows EXCEPT ![a.row] = [there |-> FALSE, key |-> NoKey]] /\ UNCHANGED <<unsaved, twice>>
  /\ UNCHANGED <<objects, left, torn>>

\* The store or the database refuses, or the process ends.
CutOff(c) ==
  /\ asked[c] # NoCall /\ asked' = [asked EXCEPT ![c] = NoCall]
  /\ torn' = torn \cup {asked[c].row}
  /\ UNCHANGED <<rows, objects, unsaved, twice, left>>

DNext ==
  \/ \E k \in Key : Upload(k)
  \/ \E r \in Row, k \in Key \cup {NoKey} : Create(r, k)
  \/ \E c \in Caller :
       \/ DropObject(c) \/ WriteRow(c) \/ CutOff(c)
       \/ \E r \in Row, k \in Key \cup {NoKey} : Look(c, r, "update", k)
       \/ \E r \in Row : Look(c, r, "remove", NoKey)

DSpec == DInit /\ [][DNext]_dvars

-----------------------------------------------------------------------------
(* The document of a row is in the store, unless a call has the row in hand, was cut off, or met another one, or two *)
(* saves named the key: the removal of the one takes the document of the other.                                      *)
DocumentThere ==
  \A r \in Row : rows[r].key = NoKey \/ rows[r].key \in objects \/ InHand(r) \/ r \in torn \/ rows[r].key \in twice

\* An object that no row names was never saved, was written over by an upsert, or belonged to a row of a call that was
\* cut off or met another one.
NothingForgotten ==
  torn = {} => \A k \in objects : Named(k) \/ k \in unsaved \cup left \cup twice \/ \E c \in Caller : k \in {asked[c].old, asked[c].new}

(* Neither is a document lost that a row names, nor an object forgotten. *)
DocumentsKept == DocumentThere /\ NothingForgotten
=============================================================================
