----------------------------- MODULE ZipReader -----------------------------
(***************************************************************************)
(* unzip/s3-zip.ts: a ZIP archive read in the bucket by ranges, through a  *)
(* window on the central directory and another one on the members. A file  *)
(* is a sequence of cells, each of which knows what it is part of: the     *)
(* fixed part of a header, a name, an extra field, a comment, the data of  *)
(* a member. What a read returns is compared with what lies in the archive.*)
(***************************************************************************)
EXTENDS Integers, Sequences, FiniteSets, SequencesExt

CONSTANTS
  Archives,   \* archives: sequences of members [name, extra, comment, data, stubs], all lengths in cells but the last
  Blocks,     \* window sizes
  HeadLen,    \* cells of the fixed part of a header
  ReadChunk   \* READ_CHUNK: the most that is read of a member at once

VARIABLES
  archive, blockSize,
  dir,        \* the reading of the directory: [pc, pos, block, out]
  member,     \* the reading of a member: [pc, k, start, read, got, cache]
  wrong       \* history: a read that went wrong

Cells(kind, m, n) == [i \in 1..n |-> <<kind, m, i>>]
Member(m) == archive[m]

\* The fields that may be stubs, in the order of the extra field: the two sizes and the offset.
Fields == <<"size", "packed", "offset">>

LocalPart(m) == Cells("local", m, HeadLen) \o Cells("name", m, Member(m).name) \o Cells("pad", m, Member(m).extra)
                  \o Cells("data", m, Member(m).data)
CentralPart(m) == Cells("central", m, HeadLen) \o Cells("name", m, Member(m).name)
                  \o Cells("extra", m, Cardinality(Member(m).stubs)) \o Cells("comment", m, Member(m).comment)
LocalsTo(m) == FlattenSeq([i \in 1..m |-> LocalPart(i)])
File     == LocalsTo(Len(archive)) \o FlattenSeq([m \in 1..Len(archive) |-> CentralPart(m)]) \o Cells("end", 0, HeadLen)
DirStart == Len(LocalsTo(Len(archive)))
DirEnd   == Len(File) - HeadLen

\* What the archive really holds.
Truth(m, f) == CASE f = "size" -> 10 + Member(m).data [] f = "packed" -> Member(m).data [] f = "offset" -> Len(LocalsTo(m - 1))

-----------------------------------------------------------------------------
\* A window [start, len] on the file; NoWindow holds nothing.
NoWindow == [start |-> 0, len |-> 0]
WindowAt(pos, need) ==
  LET want == IF need > blockSize THEN need ELSE blockSize IN
    [start |-> pos, len |-> IF pos + want > Len(File) THEN Len(File) - pos ELSE want]

Holds(w, pos, need) == w.len > 0 /\ pos >= w.start /\ pos + need <= w.start + w.len
Ensured(w, pos, need) == IF Holds(w, pos, need) THEN w ELSE WindowAt(pos, need)

\* The n cells at an offset of a window, fewer when the window ends before.
Within(w, off, n) == SubSeq(File, w.start + off + 1, IF off + n > w.len THEN w.start + w.len ELSE w.start + off + n)

ZInit ==
  /\ archive \in Archives /\ blockSize \in Blocks
  /\ dir = [pc |-> "head", pos |-> DirStart, block |-> NoWindow, out |-> <<>>]
  /\ member = [pc |-> "none", k |-> 0, start |-> 0, read |-> 0, got |-> <<>>, cache |-> NoWindow]
  /\ wrong = FALSE

(* A record of the directory: its fixed part, then with the lengths read   *)
(* there the whole of it, which may move the window, then its offset in    *)
(* the window once more.                                                   *)
\* The value of a field: of the fixed part, or of the extra field, where the stubs stand in the order of Fields.
StubsBefore(m, f) == {g \in Member(m).stubs : \E i, j \in 1..3 : i < j /\ Fields[i] = g /\ Fields[j] = f}
FieldFirst(m, f, extra) == IF f \notin Member(m).stubs THEN <<"fixed", m, f>> ELSE extra[1]
Field(m, f, extra) == IF f \notin Member(m).stubs THEN <<"fixed", m, f>> ELSE extra[Cardinality(StubsBefore(m, f)) + 1]

ReadRecord ==
  LET w1   == Ensured(dir.block, dir.pos, HeadLen)
      head == Within(w1, dir.pos - w1.start, HeadLen)
      m    == head[1][2]
      need == Len(CentralPart(m))
      w2   == Ensured(w1, dir.pos, need)
      off  == dir.pos - w2.start
      name == Within(w2, off + HeadLen, Member(m).name)
      extra == Within(w2, off + HeadLen + Member(m).name, Cardinality(Member(m).stubs)) IN
  /\ dir.pc = "head" /\ dir.pos < DirEnd /\ Len(dir.out) < Len(archive)
  /\ IF Len(head) # HeadLen \/ head # Cells("central", m, HeadLen)
       THEN dir' = [dir EXCEPT !.pc = "broken"]
       ELSE dir' = [dir EXCEPT !.block = w2, !.pos = @ + need,
                               !.out = Append(@, [name |-> name, fields |-> [f \in ToSet(Fields) |-> Field(m, f, extra)]])]
  /\ UNCHANGED <<archive, blockSize, member, wrong>>

ListEnds ==
  /\ dir.pc = "head" /\ (dir.pos >= DirEnd \/ Len(dir.out) = Len(archive))
  /\ dir' = [dir EXCEPT !.pc = "listed"]
  /\ UNCHANGED <<archive, blockSize, member, wrong>>

-----------------------------------------------------------------------------
(* A member: the local header gives the place of the data, which is read   *)
(* in pieces through the same cache, whatever was read before.             *)
OpenMember(k) ==
  LET at == Truth(k, "offset")
      w  == Ensured(member.cache, at, HeadLen)
      head == Within(w, at - w.start, HeadLen) IN
  /\ dir.pc = "listed" /\ member.pc = "none"
  /\ IF head # Cells("local", k, HeadLen)
       THEN wrong' = TRUE /\ member' = [member EXCEPT !.pc = "failed"]
       ELSE /\ member' = [pc |-> "data", k |-> k, start |-> at + HeadLen + Member(k).name + Member(k).extra,
                          read |-> 0, got |-> <<>>, cache |-> w]
            /\ UNCHANGED wrong
  /\ UNCHANGED <<archive, blockSize, dir>>

ReadPiece ==
  LET left == Member(member.k).data - member.read
      len  == IF left < ReadChunk THEN left ELSE ReadChunk
      pos  == member.start + member.read
      w    == Ensured(member.cache, pos, len) IN
  /\ member.pc = "data" /\ left > 0
  /\ member' = [member EXCEPT !.cache = w, !.read = @ + len, !.got = @ \o Within(w, pos - w.start, len)]
  /\ UNCHANGED <<archive, blockSize, dir, wrong>>

MemberEnds ==
  /\ member.pc = "data" /\ member.read = Member(member.k).data
  /\ wrong' = (wrong \/ member.got # Cells("data", member.k, Member(member.k).data))
  /\ member' = [member EXCEPT !.pc = "none", !.got = <<>>]
  /\ UNCHANGED <<archive, blockSize, dir>>

ZNext == ReadRecord \/ ListEnds \/ (\E k \in 1..Len(archive) : OpenMember(k)) \/ ReadPiece \/ MemberEnds

zvars == <<archive, blockSize, dir, member, wrong>>

-----------------------------------------------------------------------------
(* Wherever the windows end, the directory is read to the last record with *)
(* every name and field of its own, and every member comes out whole.      *)
ReadsTrue ==
  /\ ~wrong /\ dir.pc # "broken"
  /\ \A k \in 1..Len(dir.out) :
       /\ dir.out[k].name = Cells("name", k, Member(k).name)
       /\ \A i \in 1..3 : LET f == Fields[i] IN
            dir.out[k].fields[f] = IF f \in Member(k).stubs THEN <<"extra", k, Cardinality(StubsBefore(k, f)) + 1>>
                                                            ELSE <<"fixed", k, f>>
  /\ dir.pc = "listed" => Len(dir.out) = Len(archive)
=============================================================================
