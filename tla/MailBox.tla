------------------------------- MODULE MailBox -------------------------------
(***************************************************************************)
(* The archive of letters itself (MailIngestService, MailSendService and   *)
(* the removals of MailFeedService). A letter comes by IMAP, from our own  *)
(* Postfix or as the copy of one we sent: it is looked for among the rows, *)
(* its bytes go to the store, then there is a row, then a file for each    *)
(* part. The owner bins letters, brings them back and removes them for     *)
(* good. Every request to the database or to the store is a step, and the  *)
(* services take no lock.                                                  *)
(*                                                                         *)
(* A letter stands for its bytes, the part of a letter for its own; a      *)
(* Message-ID is the sender's word, so two letters may carry the same.     *)
(***************************************************************************)
EXTENDS Naturals, Sequences, FiniteSets

CONSTANT
  Accounts     \* by name: what an account is offered and keeps, and what happens to it

\* `copies` are what may be offered, records [letter, place]; `ours` the letters we send ourselves; of a letter `mid` is
\* the Message-ID, `size` the length, `parts` its parts, records [file, bytes]; `gmail`: X-GM-MSGID is known; `kept` are
\* bytes a file of the owner's tree refers to. The rest are bounds: ingests at once, rows ever made, mishaps ("fail" of
\* the store or the parser, "crash"), calls of the owner.
ASSUME BoxAssumption ==
  \A n \in DOMAIN Accounts : LET a == Accounts[n] IN
    /\ {c.letter : c \in a.copies} \cup a.ours \subseteq DOMAIN a.mid
    /\ \A l, m \in DOMAIN a.mid : a.mid[l] # m       \* a hash of the Message-ID is no UID
    /\ a.maxRows \in Nat

VARIABLES
  account,     \* the account a behaviour is of: it never changes
  rows,        \* MailMessage with its MailAttachments: row number -> record
  made,        \* the rows ever made
  files,       \* the entries of the hidden folder: records [name, bytes]
  assets,      \* bytes that have an Asset row
  objects,     \* bytes in S3
  ingests,     \* the ingest each worker is in
  purge,       \* the hardDelete under way
  sent,        \* our letters SMTP has taken
  mailTroubles,\* mishaps so far
  calls,       \* the owner's calls so far
  answered,    \* history: letters whose ingest came to an end
  removed,     \* history: letters the owner removed for good
  overlapped,  \* history: letters two ingests were at together
  stepped      \* history: bytes a purge and an ingest were at together

boxVars == <<account, rows, made, files, assets, objects, ingests, purge, sent, mailTroubles, calls, answered, removed, overlapped, stepped>>

Account   == Accounts[account]
Copy      == Account.copies
Ours      == Account.ours
MessageId == Account.mid
Size      == Account.size
Parts     == Account.parts
AtGmail   == Account.gmail
Worker    == Account.workers

NoMessage == 0
Local == {"local", "local:sent"}    \* not an IMAP folder: our server, our own copy

\* What a letter is found by again: the UID at a place, or a hash of the Message-ID.
Coordinate(c) == IF c.place \in Local THEN <<c.place, MessageId[c.letter]>> ELSE <<c.place, c.letter>>
Forked(c)     == <<c.place, c.letter>>
StrongId(c)   == IF AtGmail /\ c.place \notin Local THEN {c.letter} ELSE {}

Idle == [pc |-> "idle"]
Quiet == [stage |-> "none"]

BInit ==
  /\ account \in DOMAIN Accounts
  /\ rows = <<>> /\ made = 0 /\ files = {} /\ assets = Account.kept /\ objects = Account.kept
  /\ ingests = [w \in Worker |-> Idle] /\ purge = Quiet /\ sent = {} /\ mailTroubles = 0 /\ calls = 0
  /\ answered = {} /\ removed = {} /\ overlapped = {} /\ stepped = {}

Archived == DOMAIN rows
Linked == UNION {{rows[r].parts[i] : i \in DOMAIN rows[r].parts} : r \in Archived}

-----------------------------------------------------------------------------
(***************************************************************************)
(* Looking for the letter (findExisting, looksLikeSameLetter, ingest).     *)
(***************************************************************************)
Strong(c) == {r \in Archived : rows[r].at = Coordinate(c) \/ rows[r].gm \cap StrongId(c) # {}}
SameNameNever(c) == {}
SameName(c) == {r \in Archived : MessageId[rows[r].letter] = MessageId[c.letter]}

LooksSameByName(r, c) == TRUE
LooksSame(r, c) == rows[r].at[1] = "local:sent" \/ Size[rows[r].letter] = Size[c.letter]
AnyOf(S) == IF S = {} THEN {NoMessage} ELSE S

Begin(w, c, at) == [pc |-> "put", copy |-> c, letter |-> c.letter, at |-> at, row |-> NoMessage, part |-> 0, todo |-> {}, name |-> <<>>]

Meets(w, c, r) ==
  [Begin(w, c, Coordinate(c)) EXCEPT
     !.pc = "meet", !.row = r, !.letter = rows[r].letter,
     \* what is decided by what was read: whether to move the row and whether parts are missing
     !.name = IF c.place \notin Local /\ rows[r].at # Coordinate(c) THEN <<"moved">> ELSE <<>>,
     !.part = IF Cardinality(DOMAIN rows[r].parts) < Len(Parts[c.letter]) THEN 1 ELSE 0]

Offer(w, c) ==
  /\ ingests[w].pc = "idle"
  /\ \E found \in AnyOf(Strong(c)) :
       LET clash == found # NoMessage /\ c.place \in Local /\ Size[rows[found].letter] # Size[c.letter]
       IN \E twin \in AnyOf(SameName(c) \ {found}) :
            LET match == IF found # NoMessage /\ ~clash THEN found
                         ELSE IF twin # NoMessage /\ LooksSame(twin, c) THEN twin ELSE NoMessage
            IN /\ ingests' = [ingests EXCEPT ![w] =
                    IF match = NoMessage THEN Begin(w, c, IF clash THEN Forked(c) ELSE Coordinate(c))
                    ELSE IF rows[match].binned THEN Idle       \* 'trashed'
                    ELSE Meets(w, c, match)]
               /\ answered' = IF match # NoMessage /\ rows[match].binned THEN answered \cup {c.letter} ELSE answered
  /\ overlapped' = IF \E v \in Worker \ {w} : ingests[v].pc # "idle" /\ MessageId[ingests[v].letter] = MessageId[c.letter]
                   THEN overlapped \cup {c.letter} ELSE overlapped
  /\ UNCHANGED <<rows, made, files, assets, objects, purge, mailTroubles, calls, removed, stepped>>

\* A pass fetches a letter: one of ours only when it has been sent.
Fetched(w) ==
  \E c \in Copy : c.place \notin Local /\ (c.letter \in Ours => c.letter \in sent) /\ Offer(w, c) /\ UNCHANGED sent

\* Postfix hands a letter in, any number of times.
IngestInbound(w) == \E c \in Copy : c.place = "local" /\ Offer(w, c) /\ UNCHANGED sent

\* A letter is sent once: SMTP first, then the copy, whose failure undoes nothing.
Send(w) ==
  \E c \in Copy : c.place = "local:sent" /\ c.letter \in Ours \ sent /\ sent' = sent \cup {c.letter} /\ Offer(w, c)

Ends(w) == ingests' = [ingests EXCEPT ![w] = Idle]
Answers(w) == Ends(w) /\ answered' = answered \cup {ingests[w].copy.letter}

\* The row that was met takes the new coordinates; parts that are missing are made up for from the stored bytes.
Meet(w) ==
  LET me == ingests[w]
      moved == me.name = <<"moved">>
      free == \A r \in Archived \ {me.row} : rows[r].at # me.at /\ rows[r].gm \cap StrongId(me.copy) = {}
  IN /\ me.pc = "meet"
     /\ IF moved /\ (me.row \notin Archived \/ ~free) THEN Ends(w) /\ UNCHANGED <<rows, answered>>
        ELSE /\ rows' = IF moved THEN [rows EXCEPT ![me.row].at = me.at, ![me.row].gm = @ \cup StrongId(me.copy)] ELSE rows
             /\ IF me.part = 0 THEN Answers(w)
                ELSE /\ IF me.letter \in objects THEN ingests' = [ingests EXCEPT ![w].pc = "parts"] ELSE Ends(w)
                     /\ UNCHANGED answered
     /\ UNCHANGED <<made, files, assets, objects, purge, sent, mailTroubles, calls, removed, overlapped, stepped>>

-----------------------------------------------------------------------------
(***************************************************************************)
(* Bytes first, then the row, then the parts (ingest, storeAttachments).   *)
(***************************************************************************)
Bytes(w) == IF ingests[w].part = 0 THEN ingests[w].letter ELSE Parts[ingests[w].letter][ingests[w].part].bytes

\* Put only what the store does not show.
Put(w) ==
  /\ ingests[w].pc = "put"
  /\ objects' = objects \cup {Bytes(w)}
  /\ stepped' = IF purge.stage = "objects" /\ Bytes(w) \in purge.bytes THEN stepped \cup {Bytes(w)} ELSE stepped
  /\ ingests' = [ingests EXCEPT ![w].pc = "asset"]
  /\ UNCHANGED <<rows, made, files, assets, purge, sent, mailTroubles, calls, answered, removed, overlapped>>

EnsureAsset(w) ==
  /\ ingests[w].pc = "asset"
  /\ assets' = assets \cup {Bytes(w)}
  /\ ingests' = [ingests EXCEPT ![w].pc = IF ingests[w].part = 0 THEN "row" ELSE "file"]
  /\ UNCHANGED <<rows, made, files, objects, purge, sent, mailTroubles, calls, answered, removed, overlapped, stepped>>

CreateRow(w) ==
  LET me == ingests[w]
      ok == /\ me.letter \in assets
            /\ \A r \in Archived : rows[r].at # me.at /\ rows[r].gm \cap StrongId(me.copy) = {}
  IN /\ me.pc = "row" /\ made < Account.maxRows
     /\ IF ~ok THEN Ends(w) /\ UNCHANGED <<rows, made>>
        ELSE /\ made' = made + 1
             /\ rows' = [r \in Archived \cup {made + 1} |-> IF r \in Archived THEN rows[r] ELSE
                          [letter |-> me.letter, at |-> me.at, gm |-> StrongId(me.copy), binned |-> FALSE, parts |-> <<>>]]
             /\ ingests' = [ingests EXCEPT ![w].pc = "parts", ![w].row = made + 1]
     /\ UNCHANGED <<files, assets, objects, purge, sent, mailTroubles, calls, answered, removed, overlapped, stepped>>

\* The parts the row does not have yet, one after another.
NextPart(w, todo) ==
  IF todo = {} THEN Ends(w)
  ELSE \E p \in todo :
         /\ \A q \in todo : p <= q
         /\ ingests' = [ingests EXCEPT ![w].pc = "put", ![w].part = p, ![w].todo = todo \ {p}, ![w].name = <<>>]

StoreAttachments(w) ==
  LET me == ingests[w]
      had == IF me.row \in Archived THEN DOMAIN rows[me.row].parts ELSE {}
      todo == (1..Len(Parts[me.letter])) \ had
  IN /\ me.pc = "parts"
     /\ NextPart(w, todo)
     /\ answered' = IF todo = {} THEN answered \cup {me.copy.letter} ELSE answered
     /\ UNCHANGED <<rows, made, files, assets, objects, purge, sent, mailTroubles, calls, removed, overlapped, stepped>>

\* The file of a part: one of the two names without a letter is taken over, else the first free name is used.
Plain(me) == <<"plain", Parts[me.letter][me.part].file>>
Tailed(me) == <<"tailed", IF AtGmail THEN <<me.letter>> ELSE me.at, me.part>>
Names(me) == <<Plain(me), Tailed(me), <<"again", Tailed(me)>>>>
Orphans(me) == {f \in files : f.name \in {Plain(me), Tailed(me)} /\ f.name \notin Linked}

ResolveEntry(w) ==
  LET me == ingests[w]
      free == {i \in 1..3 : \A f \in files : f.name # Names(me)[i]}
  IN /\ me.pc = "file"
     /\ IF Orphans(me) # {} THEN \E f \in Orphans(me) : ingests' = [ingests EXCEPT ![w].pc = "link", ![w].name = f.name] /\ UNCHANGED files
        ELSE IF free = {} THEN NextPart(w, me.todo) /\ UNCHANGED files
        ELSE IF Bytes(w) \notin assets THEN Ends(w) /\ UNCHANGED files
        ELSE \E i \in free :
               /\ \A j \in free : i <= j
               /\ files' = files \cup {[name |-> Names(me)[i], bytes |-> Bytes(w)]}
               /\ ingests' = [ingests EXCEPT ![w].pc = "link", ![w].name = Names(me)[i]]
     /\ UNCHANGED <<rows, made, assets, objects, purge, sent, mailTroubles, calls, answered, removed, overlapped, stepped>>

\* A part has one file, and a file one part.
LinkPart(w) ==
  LET me == ingests[w]
      ok == /\ me.row \in Archived /\ me.part \notin DOMAIN rows[me.row].parts
            /\ me.name \notin Linked /\ \E f \in files : f.name = me.name
  IN /\ me.pc = "link"
     /\ IF ok
        THEN /\ rows' = [rows EXCEPT ![me.row].parts =
                          [i \in DOMAIN @ \cup {me.part} |-> IF i = me.part THEN me.name ELSE @[i]]]
             /\ NextPart(w, me.todo)
             /\ answered' = IF me.todo = {} THEN answered \cup {me.copy.letter} ELSE answered
        ELSE Ends(w) /\ UNCHANGED <<rows, answered>>
     /\ UNCHANGED <<made, files, assets, objects, purge, sent, mailTroubles, calls, removed, overlapped, stepped>>

-----------------------------------------------------------------------------
(***************************************************************************)
(* The owner: the bin, the way back, and the removal for good, which reads *)
(* the letters, deletes the rows, then the assets nothing refers to, then  *)
(* their objects (deleteMessage, restoreMessage, hardDelete).              *)
(***************************************************************************)
Call == calls < Account.maxCalls /\ calls' = calls + 1

Bin(r) ==
  /\ r \in Archived /\ ~rows[r].binned
  /\ rows' = [rows EXCEPT ![r].binned = TRUE]
  /\ Call
  /\ UNCHANGED <<made, files, assets, objects, ingests, purge, sent, mailTroubles, answered, removed, overlapped, stepped>>

RestoreMessage(r) ==
  /\ r \in Archived /\ rows[r].binned
  /\ rows' = [rows EXCEPT ![r].binned = FALSE]
  /\ Call
  /\ UNCHANGED <<made, files, assets, objects, ingests, purge, sent, mailTroubles, answered, removed, overlapped, stepped>>

FilesOf(S) == {f \in files : \E r \in S : \E i \in DOMAIN rows[r].parts : rows[r].parts[i] = f.name}

PurgeReads ==
  /\ purge.stage = "none"
  /\ \E S \in (SUBSET {r \in Archived : rows[r].binned}) \ {{}} :
       purge' = [stage |-> "rows", ids |-> S, names |-> {f.name : f \in FilesOf(S)},
                 bytes |-> {rows[r].letter : r \in S} \cup {f.bytes : f \in FilesOf(S)}]
  /\ Call
  /\ UNCHANGED <<rows, made, files, assets, objects, ingests, sent, mailTroubles, answered, removed, overlapped, stepped>>

PurgeRows ==
  /\ purge.stage = "rows"
  /\ rows' = [r \in Archived \ purge.ids |-> rows[r]]
  /\ files' = {f \in files : f.name \notin purge.names}
  /\ removed' = removed \cup {rows[r].letter : r \in purge.ids \cap Archived}
  /\ purge' = [purge EXCEPT !.stage = "assets"]
  /\ UNCHANGED <<made, assets, objects, ingests, sent, mailTroubles, calls, answered, overlapped, stepped>>

Referred == Account.kept \cup {rows[r].letter : r \in Archived} \cup {f.bytes : f \in files}
DeletableAll(S) == S \ Account.kept
Deletable(S) == S \ Referred

PurgeAssets ==
  /\ purge.stage = "assets"
  /\ assets' = assets \ Deletable(purge.bytes)
  /\ purge' = [purge EXCEPT !.stage = "objects", !.bytes = Deletable(@) \cap assets]
  /\ stepped' = stepped \cup (purge.bytes \cap {Bytes(w) : w \in {v \in Worker : ingests[v].pc \in {"asset", "row", "file", "link"}}})
  /\ UNCHANGED <<rows, made, files, objects, ingests, sent, mailTroubles, calls, answered, removed, overlapped>>

\* The store may refuse: the objects stay for the sweep.
PurgeObjects ==
  /\ purge.stage = "objects"
  /\ objects' \in {objects, objects \ purge.bytes}
  /\ purge' = Quiet
  /\ UNCHANGED <<rows, made, files, assets, ingests, sent, mailTroubles, calls, answered, removed, overlapped, stepped>>

Trouble ==
  /\ mailTroubles < Account.maxTroubles /\ mailTroubles' = mailTroubles + 1
  /\ \/ "fail" \in Account.troubles /\ purge' = purge /\ \E w \in Worker : ingests[w].pc # "idle" /\ Ends(w)
     \/ "crash" \in Account.troubles /\ ingests' = [w \in Worker |-> Idle] /\ purge' = Quiet
  /\ UNCHANGED <<rows, made, files, assets, objects, sent, calls, answered, removed, overlapped, stepped>>

BNext ==
  /\ \/ \E w \in Worker :
          Fetched(w) \/ IngestInbound(w) \/ Send(w) \/ Meet(w) \/ Put(w) \/ EnsureAsset(w) \/ CreateRow(w)
          \/ StoreAttachments(w) \/ ResolveEntry(w) \/ LinkPart(w)
     \/ \E r \in 1..Account.maxRows : Bin(r) \/ RestoreMessage(r)
     \/ PurgeReads \/ PurgeRows \/ PurgeAssets \/ PurgeObjects \/ Trouble
  /\ UNCHANGED account

BSpec == BInit /\ [][BNext]_boxVars

-----------------------------------------------------------------------------
(***************************************************************************)
(* No letter is swallowed by another one that carries its Message-ID: a    *)
(* letter an ingest answered for has a row of its own, unless the owner    *)
(* removed it or the Message-ID is that of a letter we sent (the code      *)
(* takes whatever carries that for the provider's copy).                   *)
(***************************************************************************)
NoneSwallowed ==
  \A l \in answered \ removed :
    (\E r \in Archived : rows[r].letter = l) \/ \E o \in Ours \ {l} : MessageId[o] = MessageId[l]

\* A letter of its own Message-ID has two rows only if two ingests were at that Message-ID together.
OneRow ==
  \A r, q \in Archived :
    r # q /\ rows[r].letter = rows[q].letter
      => rows[r].letter \in overlapped \/ \E l \in DOMAIN MessageId : l # rows[r].letter /\ MessageId[l] = MessageId[rows[r].letter]

(***************************************************************************)
(* The bytes of every letter and of every file in the archive are in the   *)
(* store, unless a purge deleted them while an ingest that had seen them   *)
(* there was making its row.                                               *)
(***************************************************************************)
BytesThere == Referred \subseteq objects \cup stepped

\* No letter is swallowed, none has two rows, and no bytes are missing, but where the three say so.
BoxSound == NoneSwallowed /\ OneRow /\ BytesThere

\* A part of a letter shows that part (mail-ingest.service.ts:673, "это наш осиротевший файл").
PartIsItsOwn ==
  \A r \in Archived : \A i \in DOMAIN rows[r].parts :
    \A f \in files : f.name = rows[r].parts[i] => f.bytes = Parts[rows[r].letter][i].bytes

(***************************************************************************)
(* A letter the owner brought back stays: the removal takes only what lies *)
(* in the bin (mail-feed.service.ts:588).                                  *)
(***************************************************************************)
RestoredStays == [][\A r \in Archived : r \notin DOMAIN rows' => rows[r].binned]_boxVars
=============================================================================
