------------------------------ MODULE NamedFiles ------------------------------
(***************************************************************************)
(* The calls that put files under a name (FilesService, DavService,        *)
(* ClipboardService): each reads the entry first and writes it in a        *)
(* transaction of its own later, together with the event of the journal.   *)
(***************************************************************************)
EXTENDS Integers, Sequences

CONSTANTS
  Client, Id, Bytes,
  Folder, ZoneOf,   \* [Folder -> zone]
  Name, CopyNames,  \* the names withSuffix makes, in order
  Styles,           \* what the callers of createEntry pass: expect, replace, revive
  Existing,         \* [Id -> row] before the first call
  MaxCalls          \* bound

None   == [op |-> "none", id |-> 0, at |-> <<>>, has |-> "", expect |-> "any", replace |-> FALSE, revive |-> FALSE]
NoCall == [ask |-> None, saw |-> 0, row |-> Existing[0], paste |-> FALSE, dav |-> FALSE]
NoClip == [id |-> 0, mode |-> "none"]

Spot == Folder \X Name
Zone  == {ZoneOf[f] : f \in Folder}
Row   == [state : {"none", "live", "bin", "gone"}, at : Spot, has : Bytes, zone : Zone]

\* Id 0 stands for no row; the rows there are before the first call lie in folders and have the zone of theirs.
ASSUME NamedAssumption ==
  /\ 0 \in Id /\ Id \subseteq Int /\ CopyNames \in Seq(Name) /\ DOMAIN ZoneOf = Folder
  /\ Existing \in [Id -> Row]
  /\ \A i \in Id : Existing[i].zone = ZoneOf[Existing[i].at[1]]

VARIABLES
  entries,    \* FileEntry rows: state, at (folder and name), has, zone
  calls,      \* between the read and the transaction: the request, the row it read
  told,       \* the last event of the journal about each entry
  clip,       \* the clipboard in the User row
  crossed,    \* history: the last call of a client committed on a row that had changed since it was read
  doubtful,   \* history: entries such a call wrote
  callsMade

nvars == <<entries, calls, told, clip, crossed, doubtful, callsMade>>

Ids == Id \ {0}
There(i)   == entries[i].state \in {"live", "bin"}
Live(i)    == entries[i].state = "live"
Holders(p) == {i \in Ids : There(i) /\ entries[i].at = p}
Event(row) == [live |-> row.state = "live", at |-> row.at, has |-> row.has]

NInit ==
  /\ entries = Existing /\ told = [i \in Id |-> Event(Existing[i])]
  /\ calls = [c \in Client |-> NoCall] /\ clip = NoClip
  /\ crossed = [c \in Client |-> FALSE] /\ doubtful = {} /\ callsMade = 0

Ready(c) == calls[c].ask = None /\ callsMade < MaxCalls /\ callsMade' = callsMade + 1
Begin(c, call) ==
  /\ calls' = [calls EXCEPT ![c] = call] /\ crossed' = [crossed EXCEPT ![c] = FALSE]
  /\ UNCHANGED <<entries, told, clip, doubtful>>

-----------------------------------------------------------------------------
(* createEntry: the row of the name is read, and what it forbids is refused, before the transaction. *)

ExpectsAny(s, i) == TRUE
Expects(s, i)    == s.expect \in {"any", entries[i].has}
LookPut(c, p, has, s) ==
  /\ Ready(c)
  /\ \/ Holders(p) = {} /\ s.expect = "any"
        /\ Begin(c, [NoCall EXCEPT !.ask = [None EXCEPT !.op = "put", !.at = p, !.has = has]])
     \/ \E i \in Holders(p) :
          /\ IF Live(i) THEN s.replace /\ Expects(s, i) ELSE s.revive
          /\ Begin(c, [NoCall EXCEPT !.saw = i, !.row = entries[i],
                         !.ask = [None EXCEPT !.op = "put", !.at = p, !.has = has, !.expect = s.expect,
                                              !.replace = s.replace, !.revive = s.revive]])

End(c) == calls' = [calls EXCEPT ![c] = NoCall]
\* The transaction: a row and its event, or nothing.
Commit(c, i, row, event) ==
  LET late == calls[c].saw # 0 /\ entries[calls[c].saw] # calls[c].row IN
  /\ End(c)
  /\ entries' = [entries EXCEPT ![i] = row] /\ told' = [told EXCEPT ![i] = event]
  /\ crossed' = [crossed EXCEPT ![c] = late]
  /\ doubtful' = IF late THEN doubtful \cup {i} ELSE doubtful
  /\ UNCHANGED callsMade
Refused(c) == End(c) /\ UNCHANGED <<entries, told, clip, crossed, doubtful, callsMade>>

\* The unique index refuses a name that was taken since.
Insert(c, p, has) ==
  IF Holders(p) # {} THEN Refused(c)
  ELSE \E i \in Ids :
         LET row == [state |-> "live", at |-> p, has |-> has, zone |-> ZoneOf[p[1]]] IN
         /\ entries[i].state = "none" /\ \A j \in Ids : j < i => entries[j].state # "none"
         /\ Commit(c, i, row, Event(row)) /\ UNCHANGED clip

\* The row is written by its id, wherever it is by now; the event names the place that was asked for.
CommitPut(c) ==
  LET call == calls[c]
      i    == call.saw
  IN /\ call.ask.op = "put"
     /\ IF i = 0 THEN Insert(c, call.ask.at, call.ask.has)
        ELSE IF ~There(i) THEN Refused(c)
        ELSE /\ UNCHANGED clip
             /\ Commit(c, i, [entries[i] EXCEPT !.state = "live", !.has = call.ask.has, !.zone = ZoneOf[call.ask.at[1]]],
                       [live |-> TRUE, at |-> call.ask.at, has |-> call.ask.has])

-----------------------------------------------------------------------------
(* patch, the MOVE of WebDAV, and the paste of what was cut. *)

LookPlace(c, i, p, how) ==
  /\ Ready(c) /\ Live(i) /\ entries[i].at # p /\ Holders(p) \subseteq {i}
  /\ how.dav => ZoneOf[entries[i].at[1]] = "files" /\ ZoneOf[p[1]] = "files"
  /\ how.paste => clip = [id |-> i, mode |-> "cut"] /\ p[2] = entries[i].at[2]
  /\ Begin(c, [NoCall EXCEPT !.ask = [None EXCEPT !.op = "place", !.id = i, !.at = p], !.saw = i, !.row = entries[i],
                             !.paste = how.paste, !.dav = how.dav])

\* patch writes the fields that were to change and tells of the content it read; MOVE writes both names and tells
\* of the row. The paste then empties the clipboard, whatever is in it.
ZoneAsRead(row, call)  == row.zone
ZoneOfPlace(row, call) == IF call.dav \/ call.ask.at[1] = call.row.at[1] THEN row.zone ELSE ZoneOf[call.ask.at[1]]
CommitPlace(c) ==
  LET call == calls[c]
      row  == entries[call.saw]
      at   == IF call.dav THEN call.ask.at
              ELSE [k \in 1..2 |-> IF call.ask.at[k] = call.row.at[k] THEN row.at[k] ELSE call.ask.at[k]]
      next == [row EXCEPT !.at = at, !.zone = ZoneOfPlace(row, call)]
  IN /\ call.ask.op = "place"
     /\ IF ~There(call.saw) \/ ~(Holders(at) \subseteq {call.saw}) THEN Refused(c)
        ELSE /\ clip' = IF call.paste THEN NoClip ELSE clip
             /\ Commit(c, call.saw, next,
                       IF call.dav THEN Event(next) ELSE [live |-> TRUE, at |-> at, has |-> call.row.has])

-----------------------------------------------------------------------------
(* softDelete and the DELETE of WebDAV; restore; the purge of the trash. *)

LookState(c, i, op) ==
  /\ Ready(c) /\ (Live(i) \/ (op = "back" /\ There(i)))
  /\ Begin(c, [NoCall EXCEPT !.ask = [None EXCEPT !.op = op, !.id = i], !.saw = i, !.row = entries[i]])

CommitState(c) ==
  LET i    == calls[c].saw
      next == [entries[i] EXCEPT !.state = IF calls[c].ask.op = "bin" THEN "bin" ELSE "live"]
  IN /\ calls[c].ask.op \in {"bin", "back"}
     /\ IF ~There(i) THEN Refused(c) ELSE Commit(c, i, next, Event(next)) /\ UNCHANGED clip

Purge(i) ==
  /\ entries[i].state = "bin" /\ entries' = [entries EXCEPT ![i].state = "gone"]
  /\ told' = [told EXCEPT ![i].live = FALSE]
  /\ UNCHANGED <<calls, clip, crossed, doubtful, callsMade>>

-----------------------------------------------------------------------------
(* The clipboard. *)

SetClip(i, mode) ==
  /\ Live(i) /\ clip' = [id |-> i, mode |-> mode]
  /\ UNCHANGED <<entries, calls, told, crossed, doubtful, callsMade>>

\* copyFile: the first name that no entry has; one in the trash ends the search.
LookCopy(c, folder) ==
  LET i     == clip.id
      names == <<entries[i].at[2]>> \o CopyNames
  IN /\ Ready(c) /\ clip.mode = "copy" /\ Live(i)
     /\ \E k \in DOMAIN names :
          /\ Holders(<<folder, names[k]>>) = {}
          /\ \A j \in 1..(k - 1) : \A h \in Holders(<<folder, names[j]>>) : Live(h)
          /\ \A j \in 1..(k - 1) : Holders(<<folder, names[j]>>) # {}
          /\ Begin(c, [NoCall EXCEPT !.ask = [None EXCEPT !.op = "copy", !.id = i, !.at = <<folder, names[k]>>],
                                     !.saw = i, !.row = entries[i]])

CommitCopy(c) == calls[c].ask.op = "copy" /\ Insert(c, calls[c].ask.at, calls[c].row.has)

-----------------------------------------------------------------------------
Hows  == {[dav |-> d, paste |-> p] : d, p \in BOOLEAN} \ {[dav |-> TRUE, paste |-> TRUE]}

NNext ==
  \/ \E c \in Client :
       \/ CommitPut(c) \/ CommitPlace(c) \/ CommitState(c) \/ CommitCopy(c)
       \/ \E p \in Spot, has \in Bytes, s \in Styles : LookPut(c, p, has, s)
       \/ \E i \in Ids, p \in Spot, how \in Hows : LookPlace(c, i, p, how)
       \/ \E i \in Ids, op \in {"bin", "back"} : LookState(c, i, op)
       \/ \E f \in Folder : LookCopy(c, f)
  \/ \E i \in Ids : Purge(i) \/ \E mode \in {"cut", "copy"} : SetClip(i, mode)

NSpec == NInit /\ [][NNext]_nvars

-----------------------------------------------------------------------------
Rows  == [i \in Ids |-> [state |-> entries[i].state, at |-> entries[i].at, has |-> entries[i].has]]
Asked == [c \in Client |-> calls[c].ask]
Atomic == INSTANCE VersionedFiles WITH Id <- Ids, rows <- Rows, wish <- Asked, overtaken <- crossed

\* Every call takes effect at one moment and replaces only what was expected, unless another call changed its entry
\* between the read and the transaction.
Implements == Atomic!ASpec

\* What the journal told last of an entry is what the entry is, and its zone is that of its folder, unless an
\* overtaken call wrote it.
EntriesAreTold ==
  \A i \in Ids \ doubtful : There(i) => told[i] = Event(entries[i]) /\ entries[i].zone = ZoneOf[entries[i].at[1]]

\* The two together: the calls on files implement calls that take effect at one moment, and the journal tells what the
\* entries are.
CallsAreAtomic == Implements /\ [][EntriesAreTold']_nvars
=============================================================================
