------------------------------ MODULE MailPurge ------------------------------
(***************************************************************************)
(* The removal of the provider's copies (MailPurgeService) against the     *)
(* rows that ingest goes on writing (MailIngestService): the immediate     *)
(* purge of what was just stored and the scheduled one run at once, each   *)
(* over a connection of its own, while letters move between the folders.   *)
(***************************************************************************)
EXTENDS Integers, Sequences, SequencesExt

CONSTANTS
  Letter,
  Source,     \* the folders of the preset, "in" and "trash" among them: the trash is read like the others
  Mid,        \* the Message-ID of each: the sender writes it, two letters may share one
  Gmail,      \* the account deletes by a move to the trash
  PerRun,     \* SWEEP_PER_RUN
  MaxPurge,   \* MAX_TRIES
  MaxUid,     \* bound: copies a folder ever holds
  Mishaps,    \* "move", "refuse", "lose", "half", "crash", "renew"
  MaxMishaps  \* bound: of all but "half"

ASSUME PurgeAssumption ==
  /\ {"in", "trash"} \subseteq Source /\ "nobody" \notin Letter
  /\ PerRun \in Nat /\ MaxPurge \in Nat /\ MaxUid \in Nat

Purge  == {"fresh", "sweep"}
Nobody == "nobody"
NoRow  == [stored |-> FALSE, folder |-> "in", uid |-> 0, validity |-> 0, marked |-> FALSE, tries |-> 0, whole |-> TRUE]
Off    == [at |-> "off", folder |-> "in", held |-> {}, was |-> [l \in Letter |-> 0], valid |-> 0]

VARIABLES
  copies,     \* [Source -> the letters by uid]
  renewed,    \* UIDVALIDITY of "in"
  row,        \* the MailMessage of each letter
  order,      \* the rows by createdAt
  bytes,      \* letters whose raw object is whole in S3
  work,       \* the two purges
  mishaps,
  lost,       \* history: letters a purge removed for good that were not whole in the archive then
  raced       \* history: letters whose row moved or whose object went while a purge held them, and letters
              \* removed in the place of another with the same Message-ID

pvars == <<copies, renewed, row, order, bytes, work, mishaps, lost, raced>>

Validity(f) == IF f = "in" THEN renewed ELSE 0
At(f, u) == IF u \in 1..Len(copies[f]) THEN copies[f][u] ELSE Nobody
Copies(l) == {c \in Source \X (1..MaxUid) : At(c[1], c[2]) = l}
Without(s, S) == [u \in DOMAIN s |-> IF s[u] \in S THEN Nobody ELSE s[u]]
Mishap(m) == m \in Mishaps /\ mishaps < MaxMishaps /\ mishaps' = mishaps + 1

PurgeInit ==
  /\ copies = [f \in Source |-> <<>>] /\ renewed = 0
  /\ row = [l \in Letter |-> NoRow] /\ order = <<>> /\ bytes = {}
  /\ work = [p \in Purge |-> Off]
  /\ mishaps = 0 /\ lost = {} /\ raced = {}

-----------------------------------------------------------------------------
(* The provider's side. *)

Deliver(l, f) ==
  /\ Copies(l) = {} /\ ~row[l].stored /\ l \notin lost /\ f # "trash" /\ Len(copies[f]) < MaxUid
  /\ copies' = [copies EXCEPT ![f] = Append(@, l)]
  /\ UNCHANGED <<renewed, row, order, bytes, work, mishaps, lost, raced>>

\* The owner drags a letter into another folder: spam that is none, or into the trash.
Move(l, f, g) ==
  /\ l \in ToSet(copies[f]) /\ f # g /\ Len(copies[g]) < MaxUid /\ Mishap("move")
  /\ copies' = [copies EXCEPT ![f] = Without(@, {l}), ![g] = Append(@, l)]
  /\ UNCHANGED <<renewed, row, order, bytes, work, lost, raced>>

Renew ==
  /\ renewed = 0 /\ Mishap("renew") /\ renewed' = 1
  /\ copies' = [copies EXCEPT !["in"] = SetToSeq(ToSet(@) \ {Nobody})]
  /\ UNCHANGED <<row, order, bytes, work, lost, raced>>

-----------------------------------------------------------------------------
(* MailIngestService.ingest of the letter at a coordinate. *)

Here(l, f, u) == row[l].folder = f /\ row[l].uid = u /\ row[l].validity = Validity(f)

\* The row follows the letter and counts as not purged again.
MovedMarked(r, f, u) == [r EXCEPT !.folder = f, !.uid = u, !.validity = Validity(f), !.whole = TRUE]
Moved(r, f, u) ==
  [r EXCEPT !.folder = f, !.uid = u, !.validity = Validity(f), !.marked = FALSE, !.tries = 0, !.whole = TRUE]

\* Bytes first, then the row, then the attachments; a failure among them leaves the row.
StoreNew(l, f, u) ==
  /\ ~row[l].stored
  /\ bytes' = bytes \cup {l} /\ order' = Append(order, l)
  /\ \E whole \in {TRUE} \cup (IF "half" \in Mishaps THEN {FALSE} ELSE {}) :
       row' = [row EXCEPT ![l] = [NoRow EXCEPT !.stored = TRUE, !.folder = f, !.uid = u,
                                               !.validity = Validity(f), !.whole = whole]]
  /\ UNCHANGED raced

\* The letter met at other coordinates, or again at its own.
Follow(l, f, u) ==
  /\ row[l].stored /\ (~Here(l, f, u) \/ ~row[l].whole)
  /\ row' = [row EXCEPT ![l] = IF Here(l, f, u) THEN [@ EXCEPT !.whole = TRUE] ELSE Moved(@, f, u)]
  /\ raced' = IF ~Here(l, f, u) /\ \E p \in Purge : l \in work[p].held THEN raced \cup {l} ELSE raced
  /\ UNCHANGED <<bytes, order>>

IngestAt(f, u) ==
  /\ At(f, u) # Nobody
  /\ LET l == At(f, u) IN StoreNew(l, f, u) \/ Follow(l, f, u)
  /\ UNCHANGED <<copies, renewed, work, mishaps, lost>>

\* The raw object goes wrong in the bucket.
Lose(l) ==
  /\ l \in bytes /\ Mishap("lose") /\ bytes' = bytes \ {l}
  /\ raced' = IF \E p \in Purge : l \in work[p].held THEN raced \cup {l} ELSE raced
  /\ UNCHANGED <<copies, renewed, row, order, work, lost>>

-----------------------------------------------------------------------------
(* purgeAccount, one folder of its candidates at a time. *)

Candidate(l) == row[l].stored /\ ~row[l].marked /\ row[l].tries < MaxPurge

\* scheduledCandidates: the oldest rows, PerRun at most; candidatesByIds: what was just stored.
Earlier(i) == {j \in 1..(i - 1) : Candidate(order[j])}
Chosen(p) ==
  {l \in Letter : Candidate(l) /\ (p = "sweep" => \E i \in DOMAIN order : order[i] = l /\ Cardinality(Earlier(i)) < PerRun)}

Failed(S, rows) == [l \in Letter |-> IF l \in S THEN [rows[l] EXCEPT !.tries = Min({@ + 1, MaxPurge})] ELSE rows[l]]
Marked(S, rows) == [l \in Letter |-> IF l \in S THEN [rows[l] EXCEPT !.marked = TRUE] ELSE rows[l]]
\* repairMessage puts the missing parts back from the raw bytes.
Repaired(S, rows) == [l \in Letter |-> IF l \in S THEN [rows[l] EXCEPT !.whole = TRUE] ELSE rows[l]]

\* verifyStored: the hash of the object is the hash in the row.
SoundByRow(S) == S
Sound(S) == S \cap bytes

\* A group keeps the coordinates it was read with. Letters of a UIDVALIDITY that is gone are left alone, and
\* their tries are not counted; the others are verified against S3.
Select(p) ==
  /\ work[p].at = "off"
  /\ \E f \in Source :
       LET group  == {l \in Chosen(p) : row[l].folder = f}
           usable == {l \in group : row[l].validity = Validity(f)}
           sound  == Sound(usable)
       IN /\ usable # {}
          /\ row' = Failed(usable \ sound, Repaired(sound, row))
          /\ work' = IF sound = {} THEN work
                     ELSE [work EXCEPT ![p] = [at |-> "match", folder |-> f, held |-> sound, valid |-> Validity(f),
                                               was |-> [l \in Letter |-> IF l \in sound THEN row[l].uid ELSE 0]]]
  /\ UNCHANGED <<copies, renewed, order, bytes, mishaps, lost, raced>>

\* By the coordinates the candidate had: the letter itself, another one, or none any more.
Match(p) ==
  LET w    == work[p]
      seen(l) == At(w.folder, w.was[l])
      gone == {l \in w.held : seen(l) = Nobody}
      same == {l \in w.held \ gone : Mid[seen(l)] = Mid[l]}
  IN /\ w.at = "match" /\ Validity(w.folder) = w.valid
     /\ row' = Failed((w.held \ gone) \ same, Marked(gone, row))
     /\ work' = [work EXCEPT ![p] = IF same = {} THEN Off ELSE [w EXCEPT !.at = "remove", !.held = same]]
     /\ UNCHANGED <<copies, renewed, order, bytes, mishaps, lost, raced>>

\* removeFromFolder acts by uid: a move to the trash at Gmail, deletion elsewhere and in the trash itself.
RemoveCopies(p) ==
  LET w == work[p]
      hit == {At(w.folder, w.was[l]) : l \in w.held} \ {Nobody}
  IN /\ w.at = "remove" /\ Validity(w.folder) = w.valid
     /\ IF Gmail /\ w.folder # "trash"
        THEN /\ Len(copies["trash"]) + Cardinality(hit) <= MaxUid
             /\ copies' = [copies EXCEPT ![w.folder] = Without(@, hit), !["trash"] = @ \o SetToSeq(hit)]
             /\ UNCHANGED lost
        ELSE copies' = [copies EXCEPT ![w.folder] = Without(@, hit)] /\ lost' = lost \cup (hit \ bytes)
     /\ raced' = raced \cup (hit \ w.held)
     /\ work' = [work EXCEPT ![p].at = "mark"]
     /\ UNCHANGED <<renewed, row, order, bytes, mishaps>>

\* The server refuses, or its session is over because the folder was made anew.
Refuse(p) ==
  LET w == work[p] IN
  /\ \/ w.at = "remove" /\ Mishap("refuse")
     \/ w.at \in {"match", "remove"} /\ Validity(w.folder) # w.valid /\ UNCHANGED mishaps
  /\ row' = Failed(w.held, row)
  /\ work' = [work EXCEPT ![p] = Off]
  /\ UNCHANGED <<copies, renewed, order, bytes, lost, raced>>

\* The mark is written by id, whatever the row says by now.
Mark(p) ==
  LET w == work[p] IN
  /\ w.at = "mark"
  /\ row' = Marked(w.held, row)
  /\ work' = [work EXCEPT ![p] = [w EXCEPT !.at = "trash", !.was = Off.was]]
  /\ UNCHANGED <<copies, renewed, order, bytes, mishaps, lost, raced>>

\* sweepTrash goes by the Message-ID alone.
SweepTrash(p) ==
  LET w == work[p]
      hit == {l \in ToSet(copies["trash"]) \ {Nobody} : \E h \in w.held : Mid[h] = Mid[l]}
  IN /\ w.at = "trash"
     /\ \/ /\ copies' = [copies EXCEPT !["trash"] = Without(@, hit)] /\ lost' = lost \cup (hit \ bytes)
           /\ raced' = raced \cup (hit \ w.held) /\ UNCHANGED mishaps
        \/ Mishap("refuse") /\ UNCHANGED <<copies, lost, raced>>
     /\ work' = [work EXCEPT ![p] = Off]
     /\ UNCHANGED <<renewed, row, order, bytes>>

CrashPurge ==
  /\ Mishap("crash") /\ \E p \in Purge : work[p].at # "off"
  /\ work' = [p \in Purge |-> Off]
  /\ UNCHANGED <<copies, renewed, row, order, bytes, lost, raced>>

PurgeStep(p) == Select(p) \/ Match(p) \/ RemoveCopies(p) \/ Refuse(p) \/ Mark(p) \/ SweepTrash(p)

PurgeNext ==
  \/ Renew \/ CrashPurge \/ \E p \in Purge : PurgeStep(p)
  \/ \E l \in Letter : Lose(l) \/ \E f, g \in Source : Deliver(l, f) \/ Move(l, f, g)
  \/ \E f \in Source, u \in 1..MaxUid : IngestAt(f, u)

PurgeSpec == PurgeInit /\ [][PurgeNext]_pvars

-----------------------------------------------------------------------------
(* What a purge removes for good lies whole in the archive, unless its object went after the check or it was taken  *)
(* for another letter with the same Message-ID.                                                                       *)
RemovedIsArchived == lost \subseteq raced

\* A row marked as purged has no copy at the coordinates it holds, unless it moved while a purge held it.
MarkIsTrue ==
  \A l \in Letter : row[l].marked /\ row[l].validity = Validity(row[l].folder) /\ At(row[l].folder, row[l].uid) = l
                      => l \in raced

\* What a purge removed at the provider lies whole in the archive, and a row marked as purged has no copy there.
PurgeSound == RemovedIsArchived /\ MarkIsTrue
=============================================================================
