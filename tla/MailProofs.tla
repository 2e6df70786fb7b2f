------------------------------ MODULE MailProofs ------------------------------
(***************************************************************************)
(* What MailPurge, MailFetch and MailBox guarantee for any letters,        *)
(* folders, tries, portions, ingests at once and mishaps.                  *)
(*                                                                         *)
(* A purge deletes by the coordinates a row had when the purge chose it.   *)
(* The invariant Inv says what is still true of a letter it holds while    *)
(* other paths write the row, the bucket loses objects and the folder is   *)
(* made anew: HeldSound, unless the letter is among the `raced`.           *)
(*                                                                         *)
(* Fetching moves two marks, the cursor of new letters and the border of   *)
(* the history.  FetchInv says of every letter at or below the cursor that *)
(* it is handled or still ahead of the history (UpTo), of a list of new    *)
(* letters that all before the one in hand are, or come earlier in the     *)
(* list (NewSound), and of a portion of history that what is missing and   *)
(* not in hand is older than all that is (OldSound): until one of the      *)
(* events of `peril` happens.                                              *)
(*                                                                         *)
(* BoxInv says what an ingest knows of its letter and its row between its  *)
(* steps, who may be about to make a row, and what still has its bytes.    *)
(***************************************************************************)
EXTENDS MailPurge, MailFetch, MailBox, FiniteSetTheorems, WellFoundedInduction, TLAPS

Line    == Letter \cup {Nobody}
RowRec  == [stored : BOOLEAN, folder : Source, uid : Nat, validity : 0..1, marked : BOOLEAN, tries : Int, whole : BOOLEAN]
WorkRec == [at : {"off", "match", "remove", "mark", "trash"}, folder : Source, held : SUBSET Letter,
            was : [Letter -> Nat], valid : 0..1]

Typed ==
  /\ copies \in [Source -> Seq(Line)] /\ renewed \in 0..1
  /\ row \in [Letter -> RowRec] /\ order \in Seq(Letter) /\ bytes \subseteq Letter
  /\ work \in [Purge -> WorkRec] /\ lost \subseteq Letter /\ raced \subseteq Letter

\* The coordinates of a row are those of this UIDVALIDITY.
Current(l) == row[l].validity = Validity(row[l].folder)

\* A row lies where its folder has had a letter; once it is marked its own is there no more.
RowSound(l) ==
  /\ row[l].validity <= renewed
  /\ row[l].marked => row[l].stored
  /\ row[l].stored /\ Current(l) => row[l].uid \in 1..Len(copies[row[l].folder])
  /\ row[l].marked /\ Current(l) /\ l \notin raced => copies[row[l].folder][row[l].uid] # l

\* A letter a purge holds is stored and in S3, its row is where the purge read it, and after the removal nothing is there.
HeldSound(p, l) ==
  /\ row[l].stored /\ l \in bytes \cup raced
  /\ l \notin raced =>
       /\ row[l].folder = work[p].folder /\ row[l].validity = work[p].valid
       /\ work[p].at # "trash" => row[l].uid = work[p].was[l]
       /\ work[p].at = "mark" /\ work[p].valid = Validity(work[p].folder)
            => copies[work[p].folder][work[p].was[l]] = Nobody

Inv ==
  /\ Typed /\ RemovedIsArchived
  /\ \A l \in Letter : RowSound(l)
  /\ \A p \in Purge : \A l \in work[p].held : HeldSound(p, l)

-----------------------------------------------------------------------------
(* Sequences of letters *)

LEMMA NobodyIsNoLetter == Nobody \notin Letter
  BY PurgeAssumption DEF Nobody

LEMMA ElementsFinite ==
  ASSUME NEW s \in Seq(Line)
  PROVE  IsFiniteSet(ToSet(s))
<1> DEFINE f == [i \in 1..Len(s) |-> s[i]]
<1>1. f \in Surjection(1..Len(s), ToSet(s))
  BY DEF Surjection, ToSet
<1>2. IsFiniteSet(1..Len(s))
  BY FS_Interval
<1> QED BY <1>1, <1>2, FS_Surjection

LEMMA ListIs ==
  ASSUME NEW S \in SUBSET Line, IsFiniteSet(S)
  PROVE  SetToSeq(S) \in Seq(Line)
<1>1. Cardinality(S) \in Nat /\ ExistsBijection(1..Cardinality(S), S)
  BY FS_CardinalityType
<1>2. \E f \in [1..Cardinality(S) -> S] : IsInjective(f)
  BY <1>1 DEF ExistsBijection, Bijection, Injection, IsInjective
<1>3. SetToSeq(S) \in [1..Cardinality(S) -> S]
  BY <1>2 DEF SetToSeq
<1> QED BY <1>1, <1>3

LEMMA WithoutIs ==
  ASSUME NEW s \in Seq(Line), NEW S
  PROVE  /\ Without(s, S) \in Seq(Line) /\ Len(Without(s, S)) = Len(s)
         /\ \A u \in 1..Len(s) : Without(s, S)[u] = IF s[u] \in S THEN Nobody ELSE s[u]
<1>1. /\ DOMAIN Without(s, S) = 1..Len(s)
      /\ \A u \in 1..Len(s) : Without(s, S)[u] = IF s[u] \in S THEN Nobody ELSE s[u]
  BY DEF Without
<1>2. Without(s, S) = [u \in 1..Len(s) |-> Without(s, S)[u]]
  BY DEF Without
<1>3. Without(s, S) \in [1..Len(s) -> Line]
  BY <1>1, <1>2 DEF Line
<1>4. Without(s, S) \in Seq(Line)
  BY <1>3
<1> QED BY <1>1, <1>3, <1>4

-----------------------------------------------------------------------------
(* What a step that does not touch a letter leaves true of it *)

\* The folders only get longer, and what goes leaves its place empty.
Grows ==
  /\ copies' \in [Source -> Seq(Line)]
  /\ \A f \in Source : /\ Len(copies'[f]) >= Len(copies[f])
                       /\ \A u \in 1..Len(copies[f]) : copies'[f][u] \in {copies[f][u], Nobody}

Alike(a, b) == a.stored = b.stored /\ a.folder = b.folder /\ a.uid = b.uid /\ a.validity = b.validity

LEMMA SameGrows == Typed /\ UNCHANGED copies => Grows
  BY DEF Typed, Grows

LEMMA RowStays ==
  ASSUME Inv, NEW l \in Letter, Alike(row'[l], row[l]), row'[l].marked = row[l].marked, renewed' = renewed, Grows,
         raced \subseteq raced'
  PROVE  RowSound(l)'
<1>1. RowSound(l) /\ row[l] \in RowRec /\ Current(l)' = Current(l)
  BY DEF Inv, Typed, Current, Validity, Alike
<1>2. row[l].folder \in Source /\ row[l].uid \in Nat
  BY <1>1 DEF RowRec
<1>3. CASE row[l].stored /\ Current(l)
  <2>1. row[l].uid \in 1..Len(copies[row[l].folder])
    BY <1>1, <1>3 DEF RowSound
  <2>2. /\ row[l].uid \in 1..Len(copies'[row[l].folder])
        /\ copies'[row[l].folder][row[l].uid] \in {copies[row[l].folder][row[l].uid], Nobody}
    BY <1>2, <2>1 DEF Grows, Inv, Typed
  <2> QED BY <1>1, <1>3, <2>1, <2>2, NobodyIsNoLetter DEF RowSound, Alike
<1>4. CASE ~(row[l].stored /\ Current(l))
  BY <1>1, <1>4 DEF RowSound, Alike
<1> QED BY <1>3, <1>4

LEMMA HeldStays ==
  ASSUME Inv, NEW p \in Purge, NEW l \in work[p].held, work'[p] = work[p], Alike(row'[l], row[l]), renewed' = renewed,
         Grows, raced \subseteq raced', l \in bytes' \cup raced'
  PROVE  HeldSound(p, l)'
<1>1. /\ HeldSound(p, l) /\ l \in Letter /\ RowSound(l) /\ row[l] \in RowRec
      /\ work[p] \in WorkRec /\ Validity(work[p].folder)' = Validity(work[p].folder)
  BY DEF Inv, Typed, Validity, WorkRec
<1>2. work[p].folder \in Source /\ work[p].was[l] \in Nat
  BY <1>1 DEF WorkRec
<1>3. ASSUME l \notin raced', work[p].at = "mark", work[p].valid = Validity(work[p].folder)
      PROVE  copies'[work[p].folder][work[p].was[l]] = Nobody
  <2>1. /\ row[l].folder = work[p].folder /\ row[l].validity = work[p].valid /\ row[l].uid = work[p].was[l]
        /\ copies[work[p].folder][work[p].was[l]] = Nobody /\ row[l].stored
    BY <1>1, <1>3 DEF HeldSound
  <2>2. work[p].was[l] \in 1..Len(copies[work[p].folder])
    BY <1>1, <1>3, <2>1 DEF RowSound, Current
  <2> QED BY <1>2, <2>1, <2>2 DEF Grows
<1> QED BY <1>1, <1>3 DEF HeldSound, Alike

(* Steps that leave held, bytes and purges as they are. *)
LEMMA CopiesKeep ==
  ASSUME Inv, Grows, UNCHANGED <<renewed, row, order, bytes, work, lost, raced>>
  PROVE  Inv'
<1>1. Typed' /\ RemovedIsArchived'
  BY DEF Inv, Typed, Grows, RemovedIsArchived
<1>2. ASSUME NEW l \in Letter PROVE RowSound(l)'
  BY <1>2, RowStays DEF Alike
<1>3. ASSUME NEW p \in Purge, NEW l \in work[p].held PROVE HeldSound(p, l)'
  <2>1. l \in bytes \cup raced
    BY DEF Inv, HeldSound
  <2> QED BY <2>1, HeldStays DEF Alike
<1> QED BY <1>1, <1>2, <1>3 DEF Inv

-----------------------------------------------------------------------------
(* The provider's side *)

LEMMA DeliverKeeps ==
  ASSUME Inv, NEW l \in Letter, NEW f \in Source, Deliver(l, f)
  PROVE  Inv'
<1>1. Grows
  <2>1. copies' = [copies EXCEPT ![f] = Append(@, l)] /\ copies \in [Source -> Seq(Line)] /\ l \in Line
    BY DEF Deliver, Inv, Typed, Line
  <2>2. ASSUME NEW g \in Source
        PROVE  /\ copies'[g] \in Seq(Line) /\ Len(copies'[g]) >= Len(copies[g])
               /\ \A u \in 1..Len(copies[g]) : copies'[g][u] = copies[g][u]
    BY <2>1
  <2> QED BY <2>1, <2>2 DEF Grows
<1> QED BY <1>1, CopiesKeep DEF Deliver

LEMMA MoveKeeps ==
  ASSUME Inv, NEW l \in Letter, NEW f \in Source, NEW g \in Source, Move(l, f, g)
  PROVE  Inv'
<1>1. Grows
  <2>1. /\ copies' = [copies EXCEPT ![f] = Without(@, {l}), ![g] = Append(@, l)] /\ f # g
        /\ copies \in [Source -> Seq(Line)] /\ l \in Line
    BY DEF Move, Inv, Typed, Line
  <2>2. ASSUME NEW h \in Source
        PROVE  /\ copies'[h] \in Seq(Line) /\ Len(copies'[h]) >= Len(copies[h])
               /\ \A u \in 1..Len(copies[h]) : copies'[h][u] \in {copies[h][u], Nobody}
    <3>0. copies[h] \in Seq(Line) /\ l \in Line
      BY <2>1
    <3>1. CASE h = f
      <4>1. copies'[h] = Without(copies[h], {l})
        BY <2>1, <3>1
      <4> QED BY <3>0, <4>1, WithoutIs
    <3>2. CASE h = g
      <4>1. copies'[h] = Append(copies[h], l)
        BY <2>1, <3>2
      <4> QED BY <3>0, <4>1
    <3>3. CASE h \notin {f, g}
      <4>1. copies'[h] = copies[h]
        BY <2>1, <3>3
      <4> QED BY <3>0, <4>1
    <3> QED BY <3>1, <3>2, <3>3
  <2>3. copies' \in [Source -> Seq(Line)]
    BY <2>1, <2>2
  <2> QED BY <2>2, <2>3 DEF Grows
<1> QED BY <1>1, CopiesKeep DEF Move, Mishap

(* With another UIDVALIDITY no row of the folder has coordinates, and no purge of it goes on. *)
LEMMA RenewKeeps ==
  ASSUME Inv, Renew
  PROVE  Inv'
<1>1. /\ renewed = 0 /\ renewed' = 1 /\ UNCHANGED <<row, order, bytes, work, lost, raced>>
      /\ copies' = [copies EXCEPT !["in"] = SetToSeq(ToSet(@) \ {Nobody})]
      /\ copies \in [Source -> Seq(Line)] /\ "in" \in Source
  BY PurgeAssumption DEF Renew, Inv, Typed
<1>2. copies' \in [Source -> Seq(Line)]
  <2> DEFINE S == ToSet(copies["in"]) \ {Nobody}
  <2>1. copies["in"] \in Seq(Line)
    BY <1>1
  <2>2. IsFiniteSet(S) /\ S \in SUBSET Line
    <3>1. IsFiniteSet(ToSet(copies["in"]))
      BY <2>1, ElementsFinite
    <3>2. ToSet(copies["in"]) \subseteq Line
      BY <2>1 DEF ToSet
    <3> QED BY <3>1, <3>2, FS_Subset
  <2>3. SetToSeq(S) \in Seq(Line)
    BY <2>2, ListIs
  <2> QED BY <1>1, <2>3
<1>3. Typed' /\ RemovedIsArchived'
  BY <1>1, <1>2 DEF Inv, Typed, RemovedIsArchived
<1>4. \A f \in Source \ {"in"} : copies'[f] = copies[f]
  BY <1>1
<1>5. ASSUME NEW l \in Letter PROVE RowSound(l)'
  <2>1. row[l] \in RowRec /\ RowSound(l) /\ row[l].validity = 0 /\ row[l].folder \in Source
    BY <1>1 DEF Inv, Typed, RowSound, RowRec
  <2>2. CASE row[l].folder = "in"
    BY <1>1, <2>1, <2>2 DEF RowSound, Current, Validity
  <2>3. CASE row[l].folder # "in"
    <3>1. Current(l) /\ Current(l)' /\ copies'[row[l].folder] = copies[row[l].folder]
      BY <1>1, <1>4, <2>1, <2>3 DEF Current, Validity
    <3> QED BY <1>1, <2>1, <3>1 DEF RowSound
  <2> QED BY <2>2, <2>3
<1>6. ASSUME NEW p \in Purge, NEW l \in work[p].held PROVE HeldSound(p, l)'
  <2>1. HeldSound(p, l) /\ l \in Letter /\ row[l] \in RowRec /\ RowSound(l)
    BY DEF Inv, Typed, WorkRec
  <2>2. CASE l \in raced
    BY <1>1, <2>1, <2>2 DEF HeldSound
  <2>3. CASE l \notin raced
    <3>1. row[l].folder = work[p].folder /\ work[p].valid = 0 /\ work[p].folder \in Source
      BY <1>1, <2>1, <2>3 DEF HeldSound, RowSound, RowRec
    <3>2. CASE work[p].folder = "in"
      BY <1>1, <2>1, <3>1, <3>2 DEF HeldSound, Validity
    <3>3. CASE work[p].folder # "in"
      <4>1. copies'[work[p].folder] = copies[work[p].folder]
        BY <1>4, <3>1, <3>3
      <4> QED BY <1>1, <2>1, <3>1, <3>3, <4>1 DEF HeldSound, Validity
    <3> QED BY <3>2, <3>3
  <2> QED BY <2>2, <2>3
<1> QED BY <1>1, <1>3, <1>5, <1>6 DEF Inv

-----------------------------------------------------------------------------
(* The archive's side *)

LEMMA StoreKeeps ==
  ASSUME Inv, NEW f \in Source, NEW u \in 1..MaxUid, At(f, u) # Nobody, StoreNew(At(f, u), f, u),
         UNCHANGED <<copies, renewed, work, lost>>
  PROVE  Inv'
<1> DEFINE l == At(f, u)
<1>1. /\ u \in 1..Len(copies[f]) /\ l = copies[f][u] /\ l \in Letter /\ u \in Nat
      /\ Validity(f) \in 0..1 /\ Validity(f) <= renewed
  BY NobodyIsNoLetter DEF At, Inv, Typed, Line, Validity
<1> HIDE DEF l
<1>2. PICK whole \in BOOLEAN :
        row' = [row EXCEPT ![l] = [NoRow EXCEPT !.stored = TRUE, !.folder = f, !.uid = u,
                                                !.validity = Validity(f), !.whole = whole]]
  BY DEF StoreNew, l
<1> DEFINE new == [NoRow EXCEPT !.stored = TRUE, !.folder = f, !.uid = u, !.validity = Validity(f), !.whole = whole]
<1>3. /\ new \in RowRec /\ new.stored /\ ~new.marked /\ new.folder = f /\ new.uid = u /\ new.validity = Validity(f)
  <2>1. NoRow \in RowRec /\ ~NoRow.marked
    BY PurgeAssumption DEF NoRow, RowRec
  <2>2. new \in RowRec
    BY <1>1, <2>1 DEF RowRec
  <2>3. new.stored /\ new.marked = NoRow.marked /\ new.folder = f /\ new.uid = u /\ new.validity = Validity(f)
    BY <1>1, <2>1 DEF RowRec
  <2> QED BY <2>1, <2>2, <2>3
<1> HIDE DEF new
<1>4. row' = [row EXCEPT ![l] = new]
  BY <1>2 DEF new
<1>5. ~row[l].stored /\ bytes' = bytes \cup {l} /\ order' = Append(order, l) /\ raced' = raced
  BY DEF StoreNew, l
<1>6. Typed' /\ RemovedIsArchived'
  BY <1>1, <1>3, <1>4, <1>5 DEF Inv, Typed, RemovedIsArchived
<1>7. ASSUME NEW k \in Letter PROVE RowSound(k)'
  <2>1. CASE k = l
    <3>1. row'[k] = new
      BY <1>1, <1>4, <2>1 DEF Inv, Typed
    <3> QED BY <1>1, <1>3, <3>1 DEF RowSound, Current
  <2>2. CASE k # l
    <3>1. row'[k] = row[k]
      BY <1>4, <2>2 DEF Inv, Typed
    <3>2. Grows
      BY SameGrows DEF Inv
    <3> QED BY <1>5, <3>1, <3>2, RowStays DEF Alike
  <2> QED BY <2>1, <2>2
<1>8. ASSUME NEW p \in Purge, NEW k \in work[p].held PROVE HeldSound(p, k)'
  <2>1. HeldSound(p, k) /\ k \in Letter
    BY DEF Inv, Typed, WorkRec
  <2>2. k # l
    BY <1>5, <2>1 DEF HeldSound
  <2>3. row'[k] = row[k]
    BY <1>4, <2>1, <2>2 DEF Inv, Typed
  <2>4. Grows
    BY SameGrows DEF Inv
  <2>5. k \in bytes' \cup raced'
    BY <1>5, <2>1 DEF HeldSound
  <2> QED BY <1>5, <2>3, <2>4, <2>5, HeldStays DEF Alike
<1> QED BY <1>6, <1>7, <1>8 DEF Inv

LEMMA FollowKeeps ==
  ASSUME Inv, NEW f \in Source, NEW u \in 1..MaxUid, At(f, u) # Nobody, Follow(At(f, u), f, u),
         UNCHANGED <<copies, renewed, work, lost>>
  PROVE  Inv'
<1> DEFINE l == At(f, u)
<1>1. /\ u \in 1..Len(copies[f]) /\ l = copies[f][u] /\ l \in Letter /\ u \in Nat
      /\ Validity(f) \in 0..1 /\ Validity(f) <= renewed
  BY NobodyIsNoLetter DEF At, Inv, Typed, Line, Validity
<1>2. /\ row[l].stored /\ UNCHANGED <<bytes, order>>
      /\ row' = [row EXCEPT ![l] = IF Here(l, f, u) THEN [@ EXCEPT !.whole = TRUE] ELSE Moved(@, f, u)]
      /\ raced' = IF ~Here(l, f, u) /\ \E p \in Purge : l \in work[p].held THEN raced \cup {l} ELSE raced
  BY DEF Follow
<1> HIDE DEF l
<1> DEFINE new == IF Here(l, f, u) THEN [row[l] EXCEPT !.whole = TRUE] ELSE Moved(row[l], f, u)
<1>3. row[l] \in RowRec
  BY <1>1 DEF Inv, Typed
<1>4. /\ new \in RowRec /\ new.stored /\ new.folder = f /\ new.uid = u /\ new.validity = Validity(f)
      /\ ~Here(l, f, u) => ~new.marked
      /\ Here(l, f, u) => Alike(new, row[l]) /\ new.marked = row[l].marked
  <2>1. CASE Here(l, f, u)
    <3>1. new = [row[l] EXCEPT !.whole = TRUE]
      BY <2>1
    <3>2. new \in RowRec /\ Alike(new, row[l]) /\ new.marked = row[l].marked
      BY <1>3, <3>1 DEF RowRec, Alike
    <3> HIDE DEF new
    <3> QED BY <1>2, <2>1, <3>2 DEF Here, Alike
  <2>2. CASE ~Here(l, f, u)
    <3>1. new = [row[l] EXCEPT !.folder = f, !.uid = u, !.validity = Validity(f), !.marked = FALSE, !.tries = 0,
                               !.whole = TRUE]
      BY <2>2 DEF Moved
    <3> HIDE DEF new
    <3>2. new \in RowRec
      <4>1. f \in Source /\ u \in Nat /\ Validity(f) \in 0..1 /\ 0 \in Int
        BY <1>1
      <4> QED BY <1>3, <3>1, <4>1 DEF RowRec
    <3>3. new.stored = row[l].stored /\ new.folder = f /\ new.uid = u /\ new.validity = Validity(f) /\ ~new.marked
      BY <1>3, <3>1 DEF RowRec
    <3> QED BY <1>2, <2>2, <3>2, <3>3
  <2> QED BY <2>1, <2>2
<1> HIDE DEF new
<1>5. row' = [row EXCEPT ![l] = new]
  BY <1>1, <1>2 DEF new, Inv, Typed
<1>6. Grows /\ raced \subseteq raced' /\ raced' \subseteq Letter
  BY <1>1, <1>2, SameGrows DEF Inv, Typed
<1>7. Typed' /\ RemovedIsArchived'
  BY <1>1, <1>2, <1>4, <1>5, <1>6 DEF Inv, Typed, RemovedIsArchived
<1>8. \A k \in Letter : row'[k] = IF k = l THEN new ELSE row[k]
  BY <1>5 DEF Inv, Typed
<1>9. ASSUME NEW k \in Letter PROVE RowSound(k)'
  <2>1. CASE k = l /\ ~Here(l, f, u)
    BY <1>1, <1>4, <1>8, <2>1 DEF RowSound, Current
  <2>2. CASE k # l \/ Here(l, f, u)
    <3>1. Alike(row'[k], row[k]) /\ row'[k].marked = row[k].marked
      BY <1>4, <1>8, <2>2 DEF Alike
    <3> QED BY <1>6, <3>1, RowStays
  <2> QED BY <2>1, <2>2
<1>10. ASSUME NEW p \in Purge, NEW k \in work[p].held PROVE HeldSound(p, k)'
  <2>1. HeldSound(p, k) /\ k \in Letter /\ k \in bytes' \cup raced'
    BY <1>2, <1>6 DEF Inv, Typed, WorkRec, HeldSound
  <2>2. CASE k = l /\ ~Here(l, f, u)
    BY <1>2, <1>4, <1>8, <2>1, <2>2 DEF HeldSound
  <2>3. CASE k # l \/ Here(l, f, u)
    <3>1. Alike(row'[k], row[k])
      BY <1>4, <1>8, <2>1, <2>3 DEF Alike
    <3> QED BY <1>6, <2>1, <3>1, HeldStays
  <2> QED BY <2>2, <2>3
<1> QED BY <1>7, <1>9, <1>10 DEF Inv

LEMMA LoseKeeps ==
  ASSUME Inv, NEW l \in Letter, Lose(l)
  PROVE  Inv'
<1>1. /\ UNCHANGED <<copies, renewed, row, order, work, lost>> /\ bytes' = bytes \ {l}
      /\ raced \subseteq raced' /\ raced' \subseteq Letter
      /\ \A p \in Purge : l \in work[p].held => l \in raced'
  BY DEF Lose, Inv, Typed
<1>2. Grows
  BY <1>1, SameGrows DEF Inv
<1>3. Typed' /\ RemovedIsArchived'
  BY <1>1 DEF Inv, Typed, RemovedIsArchived
<1>4. ASSUME NEW k \in Letter PROVE RowSound(k)'
  BY <1>1, <1>2, RowStays DEF Alike
<1>5. ASSUME NEW p \in Purge, NEW k \in work[p].held PROVE HeldSound(p, k)'
  <2>1. k \in bytes' \cup raced'
    BY <1>1 DEF Inv, HeldSound
  <2> QED BY <1>1, <1>2, <2>1, HeldStays DEF Alike
<1> QED BY <1>1, <1>3, <1>4, <1>5 DEF Inv

-----------------------------------------------------------------------------
(* The held a purge writes *)

LEMMA LesserIs ==
  ASSUME NEW a \in Int, NEW b \in Int
  PROVE  Min({a, b}) \in Int
<1>1. \E x \in {a, b} : \A y \in {a, b} : x =< y
  OBVIOUS
<1> QED BY <1>1 DEF Min

LEMMA FailedIs ==
  ASSUME NEW held \in [Letter -> RowRec], NEW S
  PROVE  /\ Failed(S, held) \in [Letter -> RowRec]
         /\ \A l \in Letter : Alike(Failed(S, held)[l], held[l]) /\ Failed(S, held)[l].marked = held[l].marked
<1>1. ASSUME NEW l \in Letter
      PROVE  /\ Failed(S, held)[l] \in RowRec
             /\ Alike(Failed(S, held)[l], held[l]) /\ Failed(S, held)[l].marked = held[l].marked
  <2> DEFINE n == Min({held[l].tries + 1, MaxPurge})
  <2>1. held[l] \in RowRec /\ held[l].tries \in Int
    BY DEF RowRec
  <2>2. n \in Int
    BY <2>1, LesserIs, PurgeAssumption
  <2> HIDE DEF n
  <2>3. Failed(S, held)[l] = IF l \in S THEN [held[l] EXCEPT !.tries = n] ELSE held[l]
    BY DEF Failed, n
  <2>4. CASE l \in S
    BY <2>1, <2>2, <2>3, <2>4 DEF RowRec, Alike
  <2>5. CASE l \notin S
    BY <2>1, <2>3, <2>5 DEF Alike
  <2> QED BY <2>4, <2>5
<1>2. Failed(S, held) = [l \in Letter |-> Failed(S, held)[l]]
  BY DEF Failed
<1> QED BY <1>1, <1>2

LEMMA MarkedIs ==
  ASSUME NEW held \in [Letter -> RowRec], NEW S
  PROVE  /\ Marked(S, held) \in [Letter -> RowRec]
         /\ \A l \in Letter : /\ Alike(Marked(S, held)[l], held[l])
                              /\ l \notin S => Marked(S, held)[l].marked = held[l].marked
<1>1. ASSUME NEW l \in Letter
      PROVE  /\ Marked(S, held)[l] \in RowRec /\ Alike(Marked(S, held)[l], held[l])
             /\ l \notin S => Marked(S, held)[l].marked = held[l].marked
  <2>1. held[l] \in RowRec
    OBVIOUS
  <2>2. Marked(S, held)[l] = IF l \in S THEN [held[l] EXCEPT !.marked = TRUE] ELSE held[l]
    BY DEF Marked
  <2>3. CASE l \in S
    BY <2>1, <2>2, <2>3 DEF RowRec, Alike
  <2>4. CASE l \notin S
    BY <2>1, <2>2, <2>4 DEF Alike
  <2> QED BY <2>3, <2>4
<1>2. Marked(S, held) = [l \in Letter |-> Marked(S, held)[l]]
  BY DEF Marked
<1> QED BY <1>1, <1>2

LEMMA RepairedIs ==
  ASSUME NEW held \in [Letter -> RowRec], NEW S
  PROVE  /\ Repaired(S, held) \in [Letter -> RowRec]
         /\ \A l \in Letter : Alike(Repaired(S, held)[l], held[l]) /\ Repaired(S, held)[l].marked = held[l].marked
<1>1. ASSUME NEW l \in Letter
      PROVE  /\ Repaired(S, held)[l] \in RowRec
             /\ Alike(Repaired(S, held)[l], held[l]) /\ Repaired(S, held)[l].marked = held[l].marked
  <2>1. held[l] \in RowRec
    OBVIOUS
  <2>2. Repaired(S, held)[l] = IF l \in S THEN [held[l] EXCEPT !.whole = TRUE] ELSE held[l]
    BY DEF Repaired
  <2>3. CASE l \in S
    BY <2>1, <2>2, <2>3 DEF RowRec, Alike
  <2>4. CASE l \notin S
    BY <2>1, <2>2, <2>4 DEF Alike
  <2> QED BY <2>3, <2>4
<1>2. Repaired(S, held) = [l \in Letter |-> Repaired(S, held)[l]]
  BY DEF Repaired
<1> QED BY <1>1, <1>2

-----------------------------------------------------------------------------
(* The purges *)

\* A step of a purge: it has become w, what it newly marks may be marked, the others keep what is true of theirs.
Done(p, w) ==
  /\ Grows /\ UNCHANGED <<renewed, order, bytes>>
  /\ work' = [work EXCEPT ![p] = w] /\ w \in WorkRec
  /\ row' \in [Letter -> RowRec] /\ \A l \in Letter : Alike(row'[l], row[l])
  /\ lost' \subseteq raced' /\ raced \subseteq raced' /\ raced' \subseteq Letter

LEMMA DoneKeeps ==
  ASSUME Inv, NEW p \in Purge, NEW w, Done(p, w),
         \A l \in Letter : row'[l].marked = row[l].marked \/ RowSound(l)',
         \A l \in w.held : HeldSound(p, l)'
  PROVE  Inv'
<1>1. Typed' /\ RemovedIsArchived'
  BY DEF Done, Inv, Typed, Grows, RemovedIsArchived
<1>2. ASSUME NEW l \in Letter PROVE RowSound(l)'
  BY RowStays DEF Done
<1>3. ASSUME NEW q \in Purge, NEW l \in work'[q].held PROVE HeldSound(q, l)'
  <2>1. CASE q = p
    BY <2>1 DEF Done, Inv, Typed
  <2>2. CASE q # p
    <3>1. work'[q] = work[q] /\ l \in work[q].held
      BY <2>2 DEF Done, Inv, Typed
    <3>2. HeldSound(q, l) /\ l \in Letter
      BY <3>1 DEF Inv, Typed, WorkRec
    <3>3. l \in bytes' \cup raced'
      BY <3>2 DEF Done, HeldSound
    <3> QED BY <3>1, <3>2, <3>3, HeldStays DEF Done
  <2> QED BY <2>1, <2>2
<1> QED BY <1>1, <1>2, <1>3 DEF Inv

LEMMA OffIs == Off \in WorkRec /\ Off.held = {}
  BY PurgeAssumption DEF Off, WorkRec

LEMMA PurgeIs ==
  ASSUME Inv, NEW p \in Purge
  PROVE  /\ work[p] \in WorkRec /\ work[p].held \subseteq Letter /\ work[p].folder \in Source
         /\ work[p].was \in [Letter -> Nat] /\ row \in [Letter -> RowRec]
         /\ copies \in [Source -> Seq(Line)] /\ lost \subseteq raced /\ raced \subseteq Letter
         /\ \A l \in work[p].held : HeldSound(p, l) /\ RowSound(l)
  BY DEF Inv, Typed, WorkRec, RemovedIsArchived

(* What is chosen lies at the coordinates it was read with, and its bytes are in S3. *)
LEMMA SelectKeeps ==
  ASSUME Inv, NEW p \in Purge, Select(p)
  PROVE  Inv'
<1>1. PICK f \in Source :
        LET group  == {l \in Chosen(p) : row[l].folder = f}
            usable == {l \in group : row[l].validity = Validity(f)}
            sound  == Sound(usable)
        IN /\ usable # {}
           /\ row' = Failed(usable \ sound, Repaired(sound, row))
           /\ work' = IF sound = {} THEN work
                      ELSE [work EXCEPT ![p] = [at |-> "match", folder |-> f, held |-> sound, valid |-> Validity(f),
                                                was |-> [l \in Letter |-> IF l \in sound THEN row[l].uid ELSE 0]]]
  BY DEF Select
<1> DEFINE usable == {l \in {k \in Chosen(p) : row[k].folder = f} : row[l].validity = Validity(f)}
           sound  == Sound(usable)
           was    == [l \in Letter |-> IF l \in sound THEN row[l].uid ELSE 0]
           w      == IF sound = {} THEN work[p]
                     ELSE [at |-> "match", folder |-> f, held |-> sound, valid |-> Validity(f), was |-> was]
<1>2. \A l \in sound : l \in Letter /\ l \in bytes /\ row[l].stored /\ row[l].folder = f /\ row[l].validity = Validity(f)
  BY DEF Sound, Chosen, Candidate
<1>3. row' = Failed(usable \ sound, Repaired(sound, row))
  BY <1>1
<1>4. work' = [work EXCEPT ![p] = w]
  BY <1>1, PurgeIs DEF Inv, Typed
<1>5. UNCHANGED <<copies, renewed, order, bytes, mishaps, lost, raced>>
  BY DEF Select
<1>6. was \in [Letter -> Nat]
  <2>1. \A l \in Letter : row[l].uid \in Nat
    BY PurgeIs DEF RowRec
  <2> QED BY <2>1
<1> HIDE DEF was, usable
<1>7. w \in WorkRec
  <2>1. Validity(f) \in 0..1
    BY DEF Inv, Typed, Validity
  <2>2. [at |-> "match", folder |-> f, held |-> sound, valid |-> Validity(f), was |-> was] \in WorkRec
    BY <1>2, <1>6, <2>1 DEF WorkRec
  <2> QED BY <2>2, PurgeIs
<1>8. row' \in [Letter -> RowRec] /\ \A l \in Letter : Alike(row'[l], row[l]) /\ row'[l].marked = row[l].marked
  <2>1. row \in [Letter -> RowRec]
    BY PurgeIs
  <2>2. /\ Repaired(sound, row) \in [Letter -> RowRec]
        /\ \A l \in Letter : Alike(Repaired(sound, row)[l], row[l]) /\ Repaired(sound, row)[l].marked = row[l].marked
    BY <2>1, RepairedIs
  <2>3. /\ row' \in [Letter -> RowRec]
        /\ \A l \in Letter : /\ Alike(row'[l], Repaired(sound, row)[l])
                             /\ row'[l].marked = Repaired(sound, row)[l].marked
    BY <1>3, <2>2, FailedIs
  <2> QED BY <2>2, <2>3 DEF Alike
<1>9. Done(p, w)
  BY <1>4, <1>5, <1>7, <1>8, PurgeIs, SameGrows DEF Done, Inv
<1>10. ASSUME NEW l \in w.held PROVE HeldSound(p, l)'
  <2>1. CASE sound = {}
    <3>1. w = work[p] /\ work'[p] = work[p]
      BY <1>4, <2>1 DEF Inv, Typed
    <3>2. HeldSound(p, l) /\ l \in Letter
      BY <1>10, <3>1, PurgeIs
    <3>3. l \in bytes' \cup raced'
      BY <1>5, <3>2 DEF HeldSound
    <3> QED BY <1>8, <1>9, <1>10, <3>1, <3>2, <3>3, HeldStays DEF Done
  <2>2. CASE sound # {}
    <3>1. /\ w = [at |-> "match", folder |-> f, held |-> sound, valid |-> Validity(f), was |-> was]
          /\ work'[p] = w
      BY <1>4, <2>2 DEF Inv, Typed
    <3>2. l \in sound /\ l \in Letter
      BY <1>2, <1>10, <3>1
    <3>3. w.was[l] = row[l].uid /\ w.folder = f /\ w.valid = Validity(f) /\ w.at = "match"
      BY <3>1, <3>2 DEF was
    <3> QED BY <1>2, <1>5, <1>8, <3>1, <3>2, <3>3 DEF HeldSound, Alike
  <2> QED BY <2>1, <2>2
<1> QED BY <1>8, <1>9, <1>10, DoneKeeps

(* A letter that is gone from its coordinates is marked: it is not there. *)
LEMMA MatchKeeps ==
  ASSUME Inv, NEW p \in Purge, Match(p)
  PROVE  Inv'
<1> DEFINE w       == work[p]
           seen(l) == At(w.folder, w.was[l])
           gone    == {l \in w.held : seen(l) = Nobody}
           same    == {l \in w.held \ gone : Mid[seen(l)] = Mid[l]}
           next    == IF same = {} THEN Off ELSE [w EXCEPT !.at = "remove", !.held = same]
<1>1. /\ w.at = "match" /\ Validity(w.folder) = w.valid
      /\ row' = Failed((w.held \ gone) \ same, Marked(gone, row))
      /\ work' = [work EXCEPT ![p] = next]
      /\ UNCHANGED <<copies, renewed, order, bytes, mishaps, lost, raced>>
  BY DEF Match
<1>2. same \subseteq w.held /\ gone \subseteq w.held
  OBVIOUS
<1>3. \A l \in gone : At(w.folder, w.was[l]) = Nobody
  OBVIOUS
<1> HIDE DEF same, gone
<1>4. next \in WorkRec /\ next.held \subseteq same
  <2>1. w \in WorkRec /\ same \in SUBSET Letter
    BY <1>2, PurgeIs
  <2>2. /\ [w EXCEPT !.at = "remove", !.held = same] \in WorkRec
        /\ [w EXCEPT !.at = "remove", !.held = same].held = same
    BY <2>1 DEF WorkRec
  <2> QED BY <2>2, OffIs
<1>5. /\ row' \in [Letter -> RowRec] /\ \A l \in Letter : Alike(row'[l], row[l])
      /\ \A l \in Letter \ gone : row'[l].marked = row[l].marked
  <2>1. /\ Marked(gone, row) \in [Letter -> RowRec]
        /\ \A l \in Letter : /\ Alike(Marked(gone, row)[l], row[l])
                             /\ l \notin gone => Marked(gone, row)[l].marked = row[l].marked
    BY MarkedIs, PurgeIs
  <2>2. /\ row' \in [Letter -> RowRec]
        /\ \A l \in Letter : Alike(row'[l], Marked(gone, row)[l]) /\ row'[l].marked = Marked(gone, row)[l].marked
    BY <1>1, <2>1, FailedIs
  <2> QED BY <2>1, <2>2 DEF Alike
<1>6. Done(p, next)
  BY <1>1, <1>4, <1>5, PurgeIs, SameGrows DEF Done, Inv
<1>7. ASSUME NEW l \in gone PROVE RowSound(l)'
  <2>1. HeldSound(p, l) /\ RowSound(l) /\ l \in Letter /\ row[l] \in RowRec
    BY <1>2, PurgeIs
  <2>2. Alike(row'[l], row[l]) /\ Current(l)' = Current(l)
    BY <1>1, <1>5, <2>1 DEF Alike, Current, Validity
  <2>3. ASSUME l \notin raced, Current(l) PROVE copies[row[l].folder][row[l].uid] # l
    <3>1. row[l].folder = w.folder /\ row[l].uid = w.was[l] /\ row[l].stored
      BY <1>1, <2>1, <2>3 DEF HeldSound
    <3>2. row[l].uid \in 1..Len(copies[row[l].folder])
      BY <2>1, <2>3, <3>1 DEF RowSound
    <3>3. At(row[l].folder, row[l].uid) = Nobody
      BY <1>3, <3>1
    <3> QED BY <2>1, <3>2, <3>3, NobodyIsNoLetter DEF At
  <2> QED BY <1>1, <2>1, <2>2, <2>3 DEF RowSound, HeldSound, Alike
<1>8. ASSUME NEW l \in next.held PROVE HeldSound(p, l)'
  <2>1. l \in same /\ l \in Letter /\ HeldSound(p, l)
    BY <1>2, <1>4, PurgeIs
  <2>2. next = [w EXCEPT !.at = "remove", !.held = same] /\ w \in WorkRec
    BY <2>1, PurgeIs
  <2>3. next.at = "remove" /\ next.folder = w.folder /\ next.valid = w.valid /\ next.was = w.was
    BY <2>2 DEF WorkRec
  <2>4. work'[p] = next
    BY <1>1 DEF Inv, Typed
  <2>5. Alike(row'[l], row[l])
    BY <1>5, <2>1
  <2> HIDE DEF next
  <2> QED BY <1>1, <2>1, <2>3, <2>4, <2>5 DEF HeldSound, Alike
<1>9. \A l \in Letter : row'[l].marked = row[l].marked \/ RowSound(l)'
  BY <1>5, <1>7
<1> HIDE DEF next
<1> QED BY <1>6, <1>8, <1>9, DoneKeeps

(* The removal empties the coordinates of what was found there; another letter in their place is `raced`. *)
LEMMA RemoveKeeps ==
  ASSUME Inv, NEW p \in Purge, RemoveCopies(p)
  PROVE  Inv'
<1> DEFINE w    == work[p]
           hit  == {At(w.folder, w.was[l]) : l \in w.held} \ {Nobody}
           next == [w EXCEPT !.at = "mark"]
<1>1. /\ w.at = "remove" /\ Validity(w.folder) = w.valid
      /\ raced' = raced \cup (hit \ w.held) /\ work' = [work EXCEPT ![p] = next]
      /\ UNCHANGED <<renewed, row, order, bytes, mishaps>>
  BY DEF RemoveCopies
<1>2. \/ /\ w.folder # "trash" /\ lost' = lost
         /\ copies' = [copies EXCEPT ![w.folder] = Without(@, hit), !["trash"] = @ \o SetToSeq(hit)]
      \/ /\ lost' = lost \cup (hit \ bytes)
         /\ copies' = [copies EXCEPT ![w.folder] = Without(@, hit)]
  BY DEF RemoveCopies
<1>3. \A l \in w.held : At(w.folder, w.was[l]) = Nobody \/ At(w.folder, w.was[l]) \in hit
  OBVIOUS
<1>4. hit \subseteq Letter /\ hit \subseteq ToSet(copies[w.folder])
  BY PurgeIs DEF At, Line, ToSet
<1> HIDE DEF hit
<1>5. /\ copies' \in [Source -> Seq(Line)]
      /\ Len(copies'[w.folder]) = Len(copies[w.folder])
      /\ \A u \in 1..Len(copies[w.folder]) :
           copies'[w.folder][u] = IF copies[w.folder][u] \in hit THEN Nobody ELSE copies[w.folder][u]
      /\ \A f \in Source \ {w.folder} : /\ Len(copies'[f]) >= Len(copies[f])
                                        /\ \A u \in 1..Len(copies[f]) : copies'[f][u] = copies[f][u]
  <2>1. copies \in [Source -> Seq(Line)] /\ w.folder \in Source /\ copies[w.folder] \in Seq(Line) /\ "trash" \in Source
    BY PurgeIs, PurgeAssumption
  <2>2. /\ Without(copies[w.folder], hit) \in Seq(Line)
        /\ Len(Without(copies[w.folder], hit)) = Len(copies[w.folder])
        /\ \A u \in 1..Len(copies[w.folder]) :
             Without(copies[w.folder], hit)[u] = IF copies[w.folder][u] \in hit THEN Nobody ELSE copies[w.folder][u]
    BY <2>1, WithoutIs
  <2>3. CASE copies' = [copies EXCEPT ![w.folder] = Without(@, hit)]
    <3>1. copies'[w.folder] = Without(copies[w.folder], hit) /\ \A f \in Source \ {w.folder} : copies'[f] = copies[f]
      BY <2>1, <2>3
    <3>2. copies' \in [Source -> Seq(Line)]
      BY <2>1, <2>2, <2>3
    <3>3. \A f \in Source : Len(copies[f]) \in Nat
      BY <2>1
    <3> QED BY <2>2, <3>1, <3>2, <3>3
  <2>4. CASE /\ w.folder # "trash"
             /\ copies' = [copies EXCEPT ![w.folder] = Without(@, hit), !["trash"] = @ \o SetToSeq(hit)]
    <3> DEFINE t == copies["trash"] \o SetToSeq(hit)
    <3>1. SetToSeq(hit) \in Seq(Line) /\ copies["trash"] \in Seq(Line)
      <4>1. IsFiniteSet(hit)
        BY <1>4, <2>1, ElementsFinite, FS_Subset
      <4> QED BY <1>4, <2>1, <4>1, ListIs DEF Line
    <3>2. /\ t \in Seq(Line) /\ Len(t) >= Len(copies["trash"])
          /\ \A u \in 1..Len(copies["trash"]) : t[u] = copies["trash"][u]
      BY <3>1
    <3>3. /\ copies'[w.folder] = Without(copies[w.folder], hit) /\ copies'["trash"] = t
          /\ \A f \in Source \ {w.folder, "trash"} : copies'[f] = copies[f]
      BY <2>1, <2>4
    <3>4. copies' \in [Source -> Seq(Line)]
      <4> DEFINE a == Without(copies[w.folder], hit)
      <4>1. copies' = [[copies EXCEPT ![w.folder] = a] EXCEPT !["trash"] = t]
        BY <2>1, <2>4
      <4>2. a \in Seq(Line) /\ t \in Seq(Line)
        BY <2>2, <3>2
      <4> HIDE DEF a, t
      <4>3. [copies EXCEPT ![w.folder] = a] \in [Source -> Seq(Line)]
        BY <2>1, <4>2
      <4> QED BY <4>1, <4>2, <4>3
    <3> HIDE DEF t
    <3>5. \A f \in Source : Len(copies[f]) \in Nat
      BY <2>1
    <3>6. ASSUME NEW f \in Source \ {w.folder}
          PROVE  Len(copies'[f]) >= Len(copies[f]) /\ \A u \in 1..Len(copies[f]) : copies'[f][u] = copies[f][u]
      <4>1. CASE f = "trash"
        BY <3>2, <3>3, <4>1
      <4>2. CASE f # "trash"
        BY <3>3, <3>5, <4>2
      <4> QED BY <4>1, <4>2
    <3> QED BY <2>2, <3>3, <3>4, <3>6
  <2> QED BY <1>2, <2>3, <2>4
<1>6. Grows
  <2>1. \A f \in Source : Len(copies[f]) \in Nat
    BY PurgeIs
  <2> QED BY <1>5, <2>1 DEF Grows
<1>7. next \in WorkRec /\ next.held = w.held /\ next.at = "mark" /\ next.folder = w.folder /\ next.valid = w.valid
      /\ next.was = w.was
  BY PurgeIs DEF WorkRec
<1> HIDE DEF next
<1>8. lost' \subseteq raced'
  <2>1. \A l \in hit \ bytes : l \in raced'
    BY <1>1, PurgeIs DEF HeldSound
  <2>2. lost' \subseteq lost \cup (hit \ bytes)
    BY <1>2
  <2> QED BY <1>1, <2>1, <2>2, PurgeIs
<1>9. Done(p, next)
  <2>1. row' \in [Letter -> RowRec] /\ \A l \in Letter : Alike(row'[l], row[l])
    BY <1>1, PurgeIs DEF Alike
  <2>2. raced \subseteq raced' /\ raced' \subseteq Letter
    BY <1>1, <1>4, PurgeIs
  <2> QED BY <1>1, <1>6, <1>7, <1>8, <2>1, <2>2 DEF Done
<1>10. ASSUME NEW l \in next.held PROVE HeldSound(p, l)'
  <2>1. l \in w.held /\ HeldSound(p, l) /\ RowSound(l) /\ l \in Letter
    BY <1>7, <1>10, PurgeIs
  <2>2. work'[p] = next /\ row'[l] = row[l] /\ raced \subseteq raced' /\ bytes' = bytes
    BY <1>1 DEF Inv, Typed
  <2>3. ASSUME l \notin raced PROVE copies'[w.folder][w.was[l]] = Nobody
    <3>1. row[l].folder = w.folder /\ row[l].validity = w.valid /\ row[l].uid = w.was[l] /\ row[l].stored
      BY <1>1, <2>1, <2>3 DEF HeldSound
    <3>2. w.was[l] \in 1..Len(copies[w.folder])
      BY <1>1, <2>1, <3>1 DEF RowSound, Current
    <3>3. copies[w.folder][w.was[l]] \in hit \cup {Nobody}
      BY <1>3, <2>1, <3>2 DEF At
    <3> QED BY <1>5, <3>2, <3>3
  <2> QED BY <1>1, <1>7, <2>1, <2>2, <2>3 DEF HeldSound
<1>11. \A l \in Letter : row'[l].marked = row[l].marked
  BY <1>1
<1> QED BY <1>9, <1>10, <1>11, DoneKeeps

(* A step after which the purge holds nothing, and no row is marked. *)
LEMMA OverKeeps ==
  ASSUME Inv, NEW p \in Purge, Done(p, Off), \A l \in Letter : row'[l].marked = row[l].marked
  PROVE  Inv'
BY DoneKeeps, OffIs

LEMMA RefuseKeeps ==
  ASSUME Inv, NEW p \in Purge, Refuse(p)
  PROVE  Inv'
<1>1. /\ row' = Failed(work[p].held, row) /\ work' = [work EXCEPT ![p] = Off]
      /\ UNCHANGED <<copies, renewed, order, bytes, lost, raced>>
  BY DEF Refuse
<1>2. row' \in [Letter -> RowRec] /\ \A l \in Letter : Alike(row'[l], row[l]) /\ row'[l].marked = row[l].marked
  BY <1>1, FailedIs, PurgeIs
<1>3. Done(p, Off)
  BY <1>1, <1>2, PurgeIs, OffIs, SameGrows DEF Done, Inv
<1> QED BY <1>2, <1>3, OverKeeps

(* The mark: nothing is at the coordinates any more, unless the row has moved. *)
LEMMA MarkKeeps ==
  ASSUME Inv, NEW p \in Purge, Mark(p)
  PROVE  Inv'
<1> DEFINE w    == work[p]
           next == [w EXCEPT !.at = "trash", !.was = Off.was]
<1>1. /\ w.at = "mark" /\ row' = Marked(w.held, row) /\ work' = [work EXCEPT ![p] = next]
      /\ UNCHANGED <<copies, renewed, order, bytes, mishaps, lost, raced>>
  BY DEF Mark
<1>2. next \in WorkRec /\ next.held = w.held /\ next.at = "trash" /\ next.folder = w.folder /\ next.valid = w.valid
  <2>1. w \in WorkRec /\ Off.was \in [Letter -> Nat]
    BY PurgeIs DEF Off
  <2> QED BY <2>1 DEF WorkRec
<1> HIDE DEF next
<1>3. /\ row' \in [Letter -> RowRec]
      /\ \A l \in Letter : Alike(row'[l], row[l]) /\ (l \notin w.held => row'[l].marked = row[l].marked)
  BY <1>1, MarkedIs, PurgeIs
<1>4. Done(p, next)
  BY <1>1, <1>2, <1>3, PurgeIs, SameGrows DEF Done, Inv
<1>5. ASSUME NEW l \in w.held PROVE RowSound(l)'
  <2>1. HeldSound(p, l) /\ RowSound(l) /\ l \in Letter /\ Alike(row'[l], row[l])
    BY <1>3, PurgeIs
  <2>2. Current(l)' = Current(l)
    BY <1>1, <2>1 DEF Alike, Current, Validity
  <2>3. ASSUME l \notin raced, Current(l) PROVE copies[row[l].folder][row[l].uid] # l
    BY <1>1, <2>1, <2>3, NobodyIsNoLetter DEF HeldSound, Current
  <2> QED BY <1>1, <2>1, <2>2, <2>3 DEF RowSound, HeldSound, Alike
<1>6. ASSUME NEW l \in next.held PROVE HeldSound(p, l)'
  <2>1. HeldSound(p, l) /\ l \in Letter /\ Alike(row'[l], row[l])
    BY <1>2, <1>3, <1>6, PurgeIs
  <2>2. work'[p] = next
    BY <1>1 DEF Inv, Typed
  <2> QED BY <1>1, <1>2, <2>1, <2>2 DEF HeldSound, Alike
<1>7. \A l \in Letter : row'[l].marked = row[l].marked \/ RowSound(l)'
  BY <1>3, <1>5
<1> QED BY <1>4, <1>6, <1>7, DoneKeeps

(* The trash is swept by the Message-ID alone: what is not held by this purge is `raced`. *)
LEMMA SweepTrashKeeps ==
  ASSUME Inv, NEW p \in Purge, SweepTrash(p)
  PROVE  Inv'
<1> DEFINE w   == work[p]
           hit == {l \in ToSet(copies["trash"]) \ {Nobody} : \E h \in w.held : Mid[h] = Mid[l]}
<1>1. work' = [work EXCEPT ![p] = Off] /\ UNCHANGED <<renewed, row, order, bytes>>
  BY DEF SweepTrash
<1>2. \/ /\ copies' = [copies EXCEPT !["trash"] = Without(@, hit)] /\ lost' = lost \cup (hit \ bytes)
         /\ raced' = raced \cup (hit \ w.held)
      \/ UNCHANGED <<copies, lost, raced>>
  BY DEF SweepTrash
<1>3. hit \subseteq Letter
  BY PurgeIs, PurgeAssumption DEF ToSet, Line
<1> HIDE DEF hit
<1>4. Grows
  <2>1. CASE copies' = [copies EXCEPT !["trash"] = Without(@, hit)]
    <3>1. copies \in [Source -> Seq(Line)] /\ "trash" \in Source
      BY PurgeIs, PurgeAssumption
    <3>2. /\ Without(copies["trash"], hit) \in Seq(Line) /\ Len(Without(copies["trash"], hit)) = Len(copies["trash"])
          /\ \A u \in 1..Len(copies["trash"]) : Without(copies["trash"], hit)[u] \in {copies["trash"][u], Nobody}
      BY <3>1, WithoutIs
    <3>3. copies'["trash"] = Without(copies["trash"], hit) /\ \A f \in Source \ {"trash"} : copies'[f] = copies[f]
      BY <2>1, <3>1
    <3>4. copies' \in [Source -> Seq(Line)] /\ \A f \in Source : Len(copies[f]) \in Nat
      BY <2>1, <3>1, <3>2
    <3>5. ASSUME NEW f \in Source
          PROVE  Len(copies'[f]) >= Len(copies[f]) /\ \A u \in 1..Len(copies[f]) : copies'[f][u] \in {copies[f][u], Nobody}
      <4>1. CASE f = "trash"
        BY <4>1, <3>2, <3>3, <3>4
      <4>2. CASE f # "trash"
        <5>1. copies'[f] = copies[f] /\ Len(copies[f]) \in Nat
          BY <4>2, <3>3, <3>4
        <5> QED BY <5>1
      <4> QED BY <4>1, <4>2
    <3> QED BY <3>4, <3>5 DEF Grows
  <2>2. CASE UNCHANGED copies
    BY <2>2, SameGrows DEF Inv
  <2> QED BY <1>2, <2>1, <2>2
<1>5. lost' \subseteq raced' /\ raced \subseteq raced' /\ raced' \subseteq Letter
  <2>1. CASE UNCHANGED <<copies, lost, raced>>
    BY <2>1, PurgeIs
  <2>2. CASE lost' = lost \cup (hit \ bytes) /\ raced' = raced \cup (hit \ w.held)
    <3>1. \A l \in hit \ bytes : l \in raced'
      BY <2>2, PurgeIs DEF HeldSound
    <3> QED BY <1>3, <2>2, <3>1, PurgeIs
  <2> QED BY <1>2, <2>1, <2>2
<1>6. Done(p, Off)
  <2>1. row' \in [Letter -> RowRec] /\ \A l \in Letter : Alike(row'[l], row[l])
    BY <1>1, PurgeIs DEF Alike
  <2> QED BY <1>1, <1>4, <1>5, <2>1, OffIs DEF Done
<1>7. \A l \in Letter : row'[l].marked = row[l].marked
  BY <1>1
<1> QED BY <1>6, <1>7, OverKeeps

LEMMA CrashKeeps ==
  ASSUME Inv, CrashPurge
  PROVE  Inv'
<1>1. work' = [p \in Purge |-> Off] /\ UNCHANGED <<copies, renewed, row, order, bytes, lost, raced>>
  BY DEF CrashPurge
<1>2. Typed' /\ RemovedIsArchived'
  BY <1>1, OffIs DEF Inv, Typed, RemovedIsArchived
<1>3. ASSUME NEW l \in Letter PROVE RowSound(l)'
  <2>1. Grows
    BY <1>1, SameGrows DEF Inv
  <2> QED BY <1>1, <2>1, RowStays DEF Alike
<1>4. \A p \in Purge : work'[p].held = {}
  BY <1>1, OffIs
<1> QED BY <1>1, <1>2, <1>3, <1>4 DEF Inv

-----------------------------------------------------------------------------
LEMMA InitHolds == PurgeInit => Inv
<1> SUFFICES ASSUME PurgeInit PROVE Inv
  OBVIOUS
<1>1. NoRow \in RowRec /\ NoRow.validity = 0 /\ ~NoRow.stored /\ ~NoRow.marked
  BY PurgeAssumption DEF NoRow, RowRec
<1>2. Typed
  BY <1>1, OffIs DEF PurgeInit, Typed
<1>3. ASSUME NEW l \in Letter PROVE RowSound(l)
  <2>1. row[l] = NoRow /\ renewed = 0
    BY DEF PurgeInit
  <2> QED BY <1>1, <2>1 DEF RowSound
<1>4. \A p \in Purge : work[p].held = {}
  BY OffIs DEF PurgeInit
<1>5. RemovedIsArchived
  BY DEF PurgeInit, RemovedIsArchived
<1> QED BY <1>2, <1>3, <1>4, <1>5 DEF Inv

LEMMA NextKeeps == Inv /\ [PurgeNext]_pvars => Inv'
<1> SUFFICES ASSUME Inv, [PurgeNext]_pvars PROVE Inv'
  OBVIOUS
<1>1. CASE UNCHANGED pvars
  BY <1>1, CopiesKeep, SameGrows DEF pvars, Inv
<1>2. CASE Renew \/ CrashPurge
  BY <1>2, RenewKeeps, CrashKeeps
<1>3. ASSUME NEW p \in Purge, PurgeStep(p) PROVE Inv'
  BY <1>3, SelectKeeps, MatchKeeps, RemoveKeeps, RefuseKeeps, MarkKeeps, SweepTrashKeeps DEF PurgeStep
<1>4. ASSUME NEW l \in Letter, Lose(l) \/ \E f, g \in Source : Deliver(l, f) \/ Move(l, f, g) PROVE Inv'
  BY <1>4, LoseKeeps, DeliverKeeps, MoveKeeps
<1>5. ASSUME NEW f \in Source, NEW u \in 1..MaxUid, IngestAt(f, u) PROVE Inv'
  BY <1>5, StoreKeeps, FollowKeeps DEF IngestAt
<1> QED BY <1>1, <1>2, <1>3, <1>4, <1>5 DEF PurgeNext

(* Whatever moves, fails, is renewed or crashes between the choice of a    *)
(* letter, the look at the provider, the removal and the mark: what was    *)
(* removed for good lies whole in the archive, and a row marked as purged  *)
(* has no copy at its coordinates, but for the letters that were `raced`.  *)
THEOREM PurgeHolds == PurgeSpec => []PurgeSound
<1>1. Inv => PurgeSound
  <2> SUFFICES ASSUME Inv PROVE PurgeSound
    OBVIOUS
  <2>1. ASSUME NEW l \in Letter, row[l].marked, row[l].validity = Validity(row[l].folder),
               At(row[l].folder, row[l].uid) = l
        PROVE  l \in raced
    <3>1. RowSound(l) /\ Current(l) /\ row[l].stored
      BY <2>1 DEF Inv, RowSound, Current
    <3>2. At(row[l].folder, row[l].uid) = copies[row[l].folder][row[l].uid]
      BY <3>1 DEF RowSound, At
    <3> QED BY <2>1, <3>1, <3>2 DEF RowSound
  <2> QED BY <2>1 DEF Inv, PurgeSound, MarkIsTrue
<1> QED BY <1>1, InitHolds, NextKeeps, PTL DEF PurgeSpec

-----------------------------------------------------------------------------
(* Fetching: the greatest, the least and the order of a finite set of numbers *)

LEMMA GreatestIs ==
  ASSUME NEW S \in SUBSET Int, IsFiniteSet(S), S # {}
  PROVE  Max(S) \in S /\ \A t \in S : t <= Max(S)
<1> DEFINE Above(s) == {t \in S : t > s}
           T        == {Above(s) : s \in S}
           R        == StrictSubsetOrdering(S)
<1>1. T \subseteq FiniteSubsetsOf(S) /\ T # {}
  <2>1. \A s \in S : Above(s) \in SUBSET S /\ IsFiniteSet(Above(s))
    BY FS_Subset
  <2> QED BY <2>1 DEF FiniteSubsetsOf
<1>2. IsWellFoundedOn(R, FiniteSubsetsOf(S))
  BY FS_StrictSubsetOrderingWellFounded
<1>3. PICK A \in T : \A B \in T : ~(<<B, A>> \in R)
  <2> HIDE DEF T, R
  <2> QED BY <1>1, <1>2, WFMin
<1>4. PICK s \in S : A = Above(s)
  BY <1>3
<1>5. ASSUME NEW t \in S, ~(t <= s) PROVE FALSE
  <2>1. s < t /\ \A u \in S : u \in Int
    BY <1>5
  <2>2. Above(t) \subseteq Above(s) /\ t \in Above(s) /\ t \notin Above(t)
    <3>1. ASSUME NEW u \in S, u > t PROVE u > s
      BY <2>1, <3>1
    <3>2. t > s /\ ~(t > t)
      BY <2>1
    <3> HIDE DEF T, R
    <3> QED BY <3>1, <3>2
  <2>3. <<Above(t), Above(s)>> \in R
    BY <2>2 DEF StrictSubsetOrdering
  <2> QED BY <1>3, <1>4, <2>3
<1>6. \E m \in S : \A t \in S : m >= t
  BY <1>5
<1>7. Max(S) \in S /\ \A t \in S : Max(S) >= t
  <2> HIDE DEF T, R
  <2> QED BY <1>6 DEF Max
<1> QED BY <1>7

LEMMA SmallestIs ==
  ASSUME NEW S \in SUBSET Int, IsFiniteSet(S), S # {}
  PROVE  Min(S) \in S /\ \A t \in S : Min(S) <= t
<1> DEFINE Below(s) == {t \in S : t < s}
           T        == {Below(s) : s \in S}
           R        == StrictSubsetOrdering(S)
<1>1. T \subseteq FiniteSubsetsOf(S) /\ T # {}
  <2>1. \A s \in S : Below(s) \in SUBSET S /\ IsFiniteSet(Below(s))
    BY FS_Subset
  <2> QED BY <2>1 DEF FiniteSubsetsOf
<1>2. IsWellFoundedOn(R, FiniteSubsetsOf(S))
  BY FS_StrictSubsetOrderingWellFounded
<1>3. PICK A \in T : \A B \in T : ~(<<B, A>> \in R)
  <2> HIDE DEF T, R
  <2> QED BY <1>1, <1>2, WFMin
<1>4. PICK s \in S : A = Below(s)
  BY <1>3
<1>5. ASSUME NEW t \in S, ~(s <= t) PROVE FALSE
  <2>1. t < s /\ \A u \in S : u \in Int
    BY <1>5
  <2>2. Below(t) \subseteq Below(s) /\ t \in Below(s) /\ t \notin Below(t)
    <3>1. ASSUME NEW u \in S, u < t PROVE u < s
      BY <2>1, <3>1
    <3>2. t < s /\ ~(t < t)
      BY <2>1
    <3> HIDE DEF T, R
    <3> QED BY <3>1, <3>2
  <2>3. <<Below(t), Below(s)>> \in R
    BY <2>2 DEF StrictSubsetOrdering
  <2> QED BY <1>3, <1>4, <2>3
<1>6. \E m \in S : \A t \in S : m <= t
  BY <1>5
<1>7. Min(S) \in S /\ \A t \in S : Min(S) <= t
  <2> HIDE DEF T, R
  <2> QED BY <1>6 DEF Min
<1> QED BY <1>7

\* Sorted lists the members of a set of numbers, each once and the lesser first.
Lists(s, S) ==
  /\ s \in Seq(S) /\ Len(s) = Cardinality(S)
  /\ \A u \in S : \E i \in 1..Len(s) : s[i] = u
  /\ \A i, k \in 1..Len(s) : i < k => s[i] < s[k]

LEMMA SortedLists ==
  ASSUME NEW S \in SUBSET Int, IsFiniteSet(S)
  PROVE  Lists(Sorted(S), S)
<1> DEFINE n       == Cardinality(S)
           rank(u) == Cardinality({v \in S : v < u})
           f       == [u \in S |-> rank(u)]
<1>0. n \in Nat
  BY FS_CardinalityType
<1>1. \A u \in S : IsFiniteSet({v \in S : v < u}) /\ rank(u) \in Nat
  BY FS_Subset, FS_CardinalityType
<1>2. ASSUME NEW u \in S, NEW w \in S, u < w PROVE rank(u) < rank(w)
  <2> DEFINE A == {v \in S : v < u}
             B == {v \in S : v < w}
  <2>1. A \subseteq B /\ u \in B /\ u \notin A
    <3>1. ASSUME NEW v \in S, v < u PROVE v < w
      <4>1. v \in Int /\ u \in Int /\ w \in Int
        OBVIOUS
      <4> QED BY <1>2, <3>1, <4>1
    <3>2. ~(u < u)
      <4>1. u \in Int
        OBVIOUS
      <4> QED BY <4>1
    <3> QED BY <1>2, <3>1, <3>2
  <2>2. IsFiniteSet(B) /\ Cardinality(A) \in Nat /\ Cardinality(B) \in Nat
    BY <1>1
  <2> HIDE DEF A, B
  <2>3. Cardinality(A) <= Cardinality(B) /\ (Cardinality(B) = Cardinality(A) => B = A)
    BY <2>1, <2>2, FS_Subset
  <2>4. Cardinality(A) < Cardinality(B)
    BY <2>1, <2>2, <2>3
  <2> QED BY <2>4 DEF A, B
<1>3. ASSUME NEW u \in S PROVE rank(u) \in 0..(n - 1)
  <2> DEFINE A == {v \in S : v < u}
  <2>1. u \notin A /\ A \subseteq S
    <3>1. u \in Int
      OBVIOUS
    <3> QED BY <3>1
  <2>2. Cardinality(A) \in Nat
    BY <1>1
  <2> HIDE DEF A
  <2>3. Cardinality(A) <= n /\ (n = Cardinality(A) => S = A)
    BY <2>1, FS_Subset
  <2>4. Cardinality(A) \in 0..(n - 1)
    BY <1>0, <2>1, <2>2, <2>3
  <2> QED BY <2>4 DEF A
<1> HIDE DEF rank
<1>4. ASSUME NEW u \in S, NEW w \in S, rank(u) = rank(w) PROVE u = w
  <2>1. u \in Int /\ w \in Int /\ rank(u) \in Nat /\ rank(w) \in Nat
    BY <1>1 DEF rank
  <2> QED BY <1>2, <1>4, <2>1
<1>5. f \in Injection(S, 0..(n - 1))
  BY <1>3, <1>4 DEF Injection, IsInjective
<1>6. IsFiniteSet(0..(n - 1)) /\ Cardinality(0..(n - 1)) = n
  <2>1. 0 \in Int /\ n - 1 \in Int
    BY <1>0
  <2>2. IsFiniteSet(0..(n - 1)) /\ Cardinality(0..(n - 1)) = IF 0 > n - 1 THEN 0 ELSE n - 1 - 0 + 1
    BY <2>1, FS_Interval
  <2> QED BY <1>0, <2>2
<1>7. f \in Surjection(S, 0..(n - 1))
  <2> HIDE DEF f, n
  <2>1. n = Cardinality(0..(n - 1)) <=> f \in Surjection(S, 0..(n - 1))
    BY <1>5, <1>6, FS_Injection DEF n
  <2> QED BY <1>6, <2>1
<1>8. ASSUME NEW i \in 1..n
      PROVE  Sorted(S)[i] \in S /\ rank(Sorted(S)[i]) = i - 1
  <2>1. i - 1 \in 0..(n - 1)
    BY <1>0
  <2>2. \E u \in S : rank(u) = i - 1
    <3>1. \E u \in S : f[u] = i - 1
      <4> HIDE DEF f, n
      <4> QED BY <1>7, <2>1 DEF Surjection
    <3> QED BY <3>1
  <2>3. Sorted(S)[i] = CHOOSE u \in S : rank(u) = i - 1
    BY DEF Sorted, rank
  <2> QED BY <2>2, <2>3
<1>9. DOMAIN Sorted(S) = 1..n /\ Sorted(S) = [i \in DOMAIN Sorted(S) |-> Sorted(S)[i]]
  <2> DEFINE c(i) == CHOOSE u \in S : rank(u) = i - 1
  <2>1. Sorted(S) = [i \in 1..n |-> c(i)]
    BY DEF Sorted, rank
  <2> HIDE DEF c
  <2> QED BY <2>1
<1>10. Sorted(S) \in Seq(S) /\ Len(Sorted(S)) = n
  <2> HIDE DEF n
  <2>1. Sorted(S) \in [1..n -> S]
    BY <1>8, <1>9
  <2> QED BY <1>0, <2>1
<1>11. ASSUME NEW u \in S PROVE \E i \in 1..n : Sorted(S)[i] = u
  <2>1. rank(u) + 1 \in 1..n /\ (rank(u) + 1) - 1 = rank(u)
    BY <1>0, <1>3
  <2>2. Sorted(S)[rank(u) + 1] \in S /\ rank(Sorted(S)[rank(u) + 1]) = rank(u)
    BY <1>8, <2>1
  <2> QED BY <1>4, <2>1, <2>2
<1>12. ASSUME NEW i \in 1..n, NEW k \in 1..n, i < k PROVE Sorted(S)[i] < Sorted(S)[k]
  <2> DEFINE a == Sorted(S)[i]
             b == Sorted(S)[k]
  <2>1. a \in S /\ b \in S /\ rank(a) = i - 1 /\ rank(b) = k - 1
    BY <1>8
  <2> HIDE DEF a, b
  <2>2. a \in Int /\ b \in Int /\ i \in Int /\ k \in Int
    BY <1>0, <2>1
  <2>3. ~(b < a) /\ a # b
    <3>1. b < a => rank(b) < rank(a)
      BY <1>2, <2>1
    <3> QED BY <1>12, <2>1, <2>2, <3>1
  <2>4. a < b
    BY <2>2, <2>3
  <2> QED BY <2>4 DEF a, b
<1> HIDE DEF n
<1>13. Sorted(S) \in Seq(S) /\ Len(Sorted(S)) = n /\ n = Cardinality(S)
  BY <1>10 DEF n
<1>14. /\ \A u \in S : \E i \in 1..n : Sorted(S)[i] = u
       /\ \A i, k \in 1..n : i < k => Sorted(S)[i] < Sorted(S)[k]
  BY <1>11, <1>12
<1> QED BY <1>13, <1>14 DEF Lists

-----------------------------------------------------------------------------
(* What holds of the fetching while none of the three events has happened *)

CursorRec == [made : BOOLEAN, validity : 0..1, lastUid : Nat, from : Nat, done : BOOLEAN]
JobRec ==
  [at : {"idle", "begin", "list", "take", "mark", "old", "takeOld"}, snap : CursorRec, lastUid : Nat, todo : Seq(Nat),
   spent : Nat, oldest : Nat, bad : BOOLEAN]
Place == {<<>>} \cup ((0..1) \X Nat)

FetchTyped ==
  /\ came \in Nat /\ 1..came \subseteq Incoming /\ box \in Seq(Incoming \cup {Gone}) /\ validity \in 0..1
  /\ cursor \in CursorRec /\ archive \in [Incoming -> Place] /\ tries \in [Incoming -> 0..MaxTries]
  /\ job \in [Proc -> JobRec]

\* The row is of this UIDVALIDITY.
Read == cursor.made /\ cursor.validity = validity

\* Nothing is to be done about the letter at this uid any more, or the history will meet it.
Handled(u) == Kind[box[u]] = "draft" \/ archive[box[u]] # <<>> \/ tries[box[u]] >= MaxTries
Ahead(u)   == ~cursor.done /\ Day[box[u]] < cursor.from
Settled(u) == Handled(u) \/ Ahead(u)
UpTo(n)    == \A u \in Uids : u <= n => Settled(u)

\* The uids follow the order in which the letters came.
InOrder == \A u \in Uids : box[u] \in 1..came /\ \A v \in Uids : u < v => box[u] < box[v]

\* A path works on the folder as it is.
Fits(j) ==
  /\ j.snap.lastUid <= Len(box) /\ \A i \in 1..Len(j.todo) : j.todo[i] \in 1..Len(box)
  /\ (j.at # "idle" => Read) /\ (j.at = "mark" => j.todo # <<>>)

\* What the pass has read of the history is what the row says.
ReadAll(j) == j.at # "idle" => j.snap.from = cursor.from /\ j.snap.done = cursor.done

\* New letters: all before the one in hand are settled, or come before it in the list.
Before(s, i, v) == \E k \in 1..(i - 1) : s[k] = v
NewSound(j) ==
  /\ j.at \in {"begin", "list"} => UpTo(j.snap.lastUid)
  /\ j.at \in {"take", "mark"} =>
       \A i \in 1..Len(j.todo) : \A v \in Uids : v < j.todo[i] => Settled(v) \/ Before(j.todo, i, v)
  /\ j.at = "mark" => (There(j.todo[1]) => Settled(j.todo[1]))

\* The history: a letter of the window is handled, or in hand, or older than all that are and were in hand.
InHand(j, u) == \E i \in 1..Len(j.todo) : j.todo[i] = u
Older(j, u)  == (\A i \in 1..Len(j.todo) : u < j.todo[i]) /\ (j.oldest # 0 => Day[box[u]] <= j.oldest)
OldSound(j) ==
  j.at = "takeOld" =>
    /\ ~j.snap.done
    /\ j.oldest # 0 => j.oldest < cursor.from
    /\ \A i \in 1..Len(j.todo) : There(j.todo[i]) => Day[box[j.todo[i]]] < cursor.from
    /\ ~j.bad /\ ~Disordered =>
         \A u \in Uids : Day[box[u]] < cursor.from => Handled(u) \/ InHand(j, u) \/ Older(j, u)

\* The border of the history was once the day of a letter.
DayCame == Read /\ cursor.from # 0 => \E k \in 1..came : Day[k] >= cursor.from

Unharmed == peril \cap {"jump", "huge", "border"} = {}

FetchInv ==
  /\ FetchTyped /\ InOrder /\ DayCame
  /\ cursor.validity <= validity /\ (Read => cursor.lastUid <= Len(box))
  /\ \A p \in Proc : Fits(job[p])
  /\ ReadAll(job["pass"]) /\ OldSound(job["pass"])
  /\ Unharmed => (Read => UpTo(cursor.lastUid)) /\ \A p \in Proc : NewSound(job[p])

LEMMA FetchInvIsEnough == FetchInv => SlipsOnlyInPeril
<1> SUFFICES ASSUME FetchInv, Slipped # {}, Unharmed PROVE FALSE
  BY DEF SlipsOnlyInPeril, Unharmed
<1>1. PICK l \in Incoming : /\ Kind[l] # "draft" /\ archive[l] = <<>> /\ tries[l] < MaxTries /\ Read
                            /\ \E u \in Uids : box[u] = l /\ u <= cursor.lastUid /\ (cursor.done \/ Day[l] >= cursor.from)
  BY DEF Slipped, Read
<1>2. PICK u \in Uids : box[u] = l /\ u <= cursor.lastUid /\ (cursor.done \/ Day[l] >= cursor.from)
  BY <1>1
<1>3. Settled(u)
  BY <1>1, <1>2 DEF FetchInv, UpTo
<1>4. tries[l] \in Nat /\ MaxTries \in Nat /\ Day[l] \in Nat /\ cursor.from \in Nat
  BY <1>1, FetchAssumption DEF FetchInv, FetchTyped, CursorRec
<1> QED BY <1>1, <1>2, <1>3, <1>4 DEF Settled, Handled, Ahead

LEMMA NumbersIs ==
  /\ First \in Nat /\ MaxTries \in Nat /\ TailLen \in Nat /\ PerPass \in Nat /\ PerPass >= 1
  /\ 0 \notin Incoming /\ Incoming \subseteq Nat
  /\ \A l \in Incoming : Day[l] \in Nat
  BY FetchAssumption

LEMMA UidsAre ==
  ASSUME FetchTyped
  PROVE  /\ \A u : There(u) <=> u \in Uids
         /\ \A u \in Uids : u \in 1..Len(box) /\ u \in Nat /\ box[u] \in Incoming /\ box[u] # Gone
         /\ Len(box) \in Nat /\ IsFiniteSet(Uids) /\ Uids \subseteq 1..Len(box)
<1>1. Len(box) \in Nat /\ box \in [1..Len(box) -> Incoming \cup {Gone}]
  BY DEF FetchTyped
<1>2. IsFiniteSet(1..Len(box)) /\ Uids \subseteq 1..Len(box)
  BY <1>1, FS_Interval DEF Uids
<1>3. IsFiniteSet(Uids)
  BY <1>2, FS_Subset
<1> QED BY <1>1, <1>2, <1>3 DEF Uids, There

-----------------------------------------------------------------------------
(* What a step of one path leaves as it was *)

Kept ==
  \A u \in 1..Len(box) : There(u)' => There(u) /\ box'[u] = box[u] /\ (Handled(u) => Handled(u)')
Stays ==
  /\ Len(box') = Len(box) /\ came' = came /\ validity' = validity /\ Kept
  /\ cursor'.made = cursor.made /\ cursor'.validity = cursor.validity /\ cursor'.from <= cursor.from
  /\ peril \subseteq peril'
WindowKept == Unharmed' => \A u \in Uids : There(u)' /\ Ahead(u) => Settled(u)'
SameWindow == cursor'.from = cursor.from /\ cursor'.done = cursor.done

LEMMA ThereIs == \A u : (There(u) <=> u \in Uids) /\ (There(u)' <=> u \in Uids')
  BY DEF There, Uids

LEMMA SettledStays ==
  ASSUME FetchTyped, FetchTyped', Stays, WindowKept
  PROVE  /\ Read' <=> Read
         /\ \A u \in Uids' : u \in Uids /\ box'[u] = box[u] /\ (Handled(u) => Handled(u)')
         /\ Unharmed' => Unharmed /\ \A u \in Uids' : Settled(u) => Settled(u)'
<1>1. Read' <=> Read
  BY DEF Stays, Read
<1>2. ASSUME NEW u \in Uids' PROVE u \in Uids /\ box'[u] = box[u] /\ (Handled(u) => Handled(u)') /\ There(u)'
  <2>1. u \in 1..Len(box) /\ There(u)'
    BY <1>2 DEF Stays, Uids, There
  <2> QED BY <2>1, UidsAre DEF Stays, Kept
<1>3. Unharmed' => Unharmed
  BY DEF Stays, Unharmed
<1>4. ASSUME Unharmed', NEW u \in Uids', Settled(u) PROVE Settled(u)'
  <2>1. CASE Handled(u)
    BY <1>2, <2>1 DEF Settled
  <2>2. CASE Ahead(u)
    BY <1>2, <1>4, <2>2 DEF WindowKept
  <2> QED BY <1>4, <2>1, <2>2 DEF Settled
<1> QED BY <1>1, <1>2, <1>3, <1>4

LEMMA SameWindowKeeps ==
  ASSUME FetchTyped, FetchTyped', SameWindow, Kept
  PROVE  WindowKept
<1> SUFFICES ASSUME NEW u \in Uids, There(u)', Ahead(u) PROVE Settled(u)'
  BY DEF WindowKept
<1>1. box'[u] = box[u]
  BY UidsAre DEF Kept
<1> QED BY <1>1 DEF Settled, Ahead, SameWindow

LEMMA NewSoundStays ==
  ASSUME FetchTyped, FetchTyped', Stays, WindowKept, Unharmed', NEW j \in JobRec, NewSound(j)
  PROVE  NewSound(j)'
<1>1. /\ \A u \in Uids' : u \in Uids /\ (Settled(u) => Settled(u)')
      /\ \A u : There(u)' => u \in Uids'
      /\ \A u : u \in Uids => There(u)
  BY SettledStays, ThereIs
<1>2. ASSUME j.at \in {"begin", "list"} PROVE UpTo(j.snap.lastUid)'
  <2>1. UpTo(j.snap.lastUid)
    BY <1>2 DEF NewSound
  <2> QED BY <1>1, <2>1 DEF UpTo
<1>3. ASSUME j.at \in {"take", "mark"}, NEW i \in 1..Len(j.todo), NEW v \in Uids', v < j.todo[i]
      PROVE  Settled(v)' \/ Before(j.todo, i, v)
  <2>1. Settled(v) \/ Before(j.todo, i, v)
    BY <1>1, <1>3 DEF NewSound
  <2> QED BY <1>1, <2>1
<1>4. ASSUME j.at = "mark" PROVE There(j.todo[1])' => Settled(j.todo[1])'
  BY <1>1, <1>4 DEF NewSound
<1> QED BY <1>2, <1>3, <1>4 DEF NewSound, Before

LEMMA OldSoundStays ==
  ASSUME FetchTyped, FetchTyped', Stays, WindowKept, SameWindow, NEW j \in JobRec, OldSound(j)
  PROVE  OldSound(j)'
<1>1. /\ \A u \in Uids' : u \in Uids /\ box'[u] = box[u] /\ (Handled(u) => Handled(u)')
      /\ \A u : There(u)' => u \in Uids'
      /\ \A u : u \in Uids => There(u)
  BY SettledStays, ThereIs
<1>2. cursor'.from = cursor.from /\ (Disordered' <=> Disordered)
  BY DEF SameWindow, Stays, Disordered
<1> SUFFICES ASSUME j.at = "takeOld"
             PROVE  /\ ~j.snap.done
                    /\ j.oldest # 0 => j.oldest < cursor'.from
                    /\ \A i \in 1..Len(j.todo) : There(j.todo[i])' => Day[box'[j.todo[i]]] < cursor'.from
                    /\ ~j.bad /\ ~Disordered' =>
                         \A u \in Uids' : Day[box'[u]] < cursor'.from => Handled(u)' \/ InHand(j, u) \/ Older(j, u)'
  BY DEF OldSound, InHand
<1>3. \A i \in 1..Len(j.todo) : There(j.todo[i])' => Day[box'[j.todo[i]]] < cursor'.from
  BY <1>1, <1>2 DEF OldSound
<1>4. ASSUME ~j.bad, ~Disordered', NEW u \in Uids', Day[box'[u]] < cursor'.from
      PROVE  Handled(u)' \/ InHand(j, u) \/ Older(j, u)'
  <2>1. Handled(u) \/ InHand(j, u) \/ Older(j, u)
    BY <1>1, <1>2, <1>4 DEF OldSound
  <2>2. Older(j, u) => Older(j, u)'
    BY <1>1 DEF Older
  <2> QED BY <1>1, <2>1, <2>2
<1> QED BY <1>2, <1>3, <1>4 DEF OldSound

LEMMA StepKeeps ==
  ASSUME FetchInv, FetchTyped', Stays, WindowKept, NEW p \in Proc, NEW j \in JobRec, j = job'[p],
         \A q \in Proc : q # p => job'[q] = job[q],
         p # "pass" => SameWindow,
         Read => cursor'.lastUid <= Len(box),
         Fits(j)', p = "pass" => ReadAll(j)' /\ OldSound(j)',
         Unharmed' => (Read => UpTo(cursor.lastUid)') /\ NewSound(j)'
  PROVE  FetchInv'
<1>0. FetchTyped /\ "pass" \in Proc
  BY DEF FetchInv, Proc
<1>1. /\ Read' <=> Read
      /\ \A u \in Uids' : u \in Uids /\ box'[u] = box[u]
      /\ Unharmed' => Unharmed
  BY <1>0, SettledStays
<1>2. InOrder'
  <2>1. InOrder /\ came' = came
    BY DEF FetchInv, Stays
  <2> QED BY <1>1, <2>1 DEF InOrder
<1>3. DayCame'
  <2>1. cursor'.from \in Nat /\ cursor.from \in Nat /\ cursor'.from <= cursor.from /\ came' = came
    BY <1>0 DEF Stays, FetchTyped, CursorRec
  <2> SUFFICES ASSUME Read, cursor'.from # 0 PROVE \E k \in 1..came : Day[k] >= cursor'.from
    BY <1>1, <2>1 DEF DayCame
  <2>2. PICK k \in 1..came : Day[k] >= cursor.from
    BY <2>1 DEF FetchInv, DayCame
  <2>3. Day[k] \in Nat
    BY <1>0, NumbersIs DEF FetchTyped
  <2> QED BY <2>1, <2>2, <2>3
<1>4. cursor'.validity <= validity' /\ (Read' => cursor'.lastUid <= Len(box'))
  BY <1>1 DEF Stays, FetchInv
<1>5. ASSUME NEW q \in Proc PROVE Fits(job[q])'
  <2>1. CASE q = p
    BY <2>1 DEF Fits, Read
  <2>2. CASE q # p
    <3>1. Fits(job[q]) /\ job'[q] = job[q] /\ Len(box') = Len(box)
      BY <2>2 DEF FetchInv, Stays
    <3> QED BY <1>1, <3>1 DEF Fits
  <2> QED BY <2>1, <2>2
<1>6. ReadAll(job["pass"])' /\ OldSound(job["pass"])'
  <2>1. CASE p = "pass"
    BY <2>1 DEF ReadAll, OldSound, InHand, Older
  <2>2. CASE p # "pass"
    <3>1. PICK k \in JobRec : k = job["pass"]
      BY <1>0 DEF FetchTyped
    <3>2. job'["pass"] = k /\ SameWindow /\ ReadAll(k) /\ OldSound(k)
      BY <1>0, <2>2, <3>1 DEF FetchInv
    <3>3. OldSound(k)'
      BY <1>0, <3>2, OldSoundStays
    <3>4. ReadAll(k)'
      BY <3>2 DEF ReadAll, SameWindow
    <3> QED BY <3>2, <3>3, <3>4 DEF ReadAll, OldSound, InHand, Older
  <2> QED BY <2>1, <2>2
<1>7. ASSUME Unharmed', NEW q \in Proc PROVE NewSound(job[q])'
  <2>1. CASE q = p
    BY <1>7, <2>1 DEF NewSound, Before
  <2>2. CASE q # p
    <3>1. PICK k \in JobRec : k = job[q]
      BY <1>0 DEF FetchTyped
    <3>2. NewSound(k) /\ job'[q] = k
      BY <1>1, <1>7, <2>2, <3>1 DEF FetchInv
    <3>3. NewSound(k)'
      BY <1>0, <1>7, <3>2, NewSoundStays
    <3> QED BY <3>2, <3>3 DEF NewSound, Before
  <2> QED BY <2>1, <2>2
<1>8. Unharmed' => (Read' => UpTo(cursor.lastUid)')
  BY <1>1
<1> QED BY <1>2, <1>3, <1>4, <1>5, <1>6, <1>7, <1>8 DEF FetchInv

-----------------------------------------------------------------------------
(* Steps that only move the cursor *)

LEMMA RestIs == Rest \in JobRec /\ Rest.at = "idle" /\ Rest.todo = <<>> /\ Rest.snap.lastUid = 0
  BY DEF Rest, JobRec, Last1, CursorRec

LEMMA RestSound ==
  ASSUME FetchTyped
  PROVE  Fits(Rest) /\ ReadAll(Rest) /\ OldSound(Rest) /\ NewSound(Rest)
<1>1. Len(box) \in Nat /\ Len(Rest.todo) = 0
  BY RestIs, UidsAre
<1> QED BY <1>1, RestIs DEF Fits, ReadAll, OldSound, NewSound

LEMMA JobIs ==
  ASSUME FetchTyped, NEW p \in Proc, NEW j \in JobRec, job' = [job EXCEPT ![p] = j]
  PROVE  /\ job' \in [Proc -> JobRec] /\ job'[p] = j
         /\ \A q \in Proc : q # p => job'[q] = job[q]
<1>1. job \in [Proc -> JobRec]
  BY DEF FetchTyped
<1> QED BY <1>1

LEMMA QuietKeeps ==
  ASSUME FetchInv, UNCHANGED <<box, validity, came, archive, tries, peril>>,
         NEW n \in Nat, cursor' = [cursor EXCEPT !.lastUid = n],
         Read => n <= Len(box), Unharmed /\ Read => UpTo(n),
         NEW p \in Proc, NEW j \in JobRec, job' = [job EXCEPT ![p] = j],
         Fits(j), p = "pass" => ReadAll(j) /\ OldSound(j), Unharmed => NewSound(j)
  PROVE  FetchInv'
<1>0. FetchTyped /\ cursor \in CursorRec
  BY DEF FetchInv, FetchTyped
<1>1. cursor' \in CursorRec /\ cursor'.made = cursor.made /\ cursor'.validity = cursor.validity
      /\ cursor'.from = cursor.from /\ cursor'.done = cursor.done /\ cursor'.lastUid = n
  BY <1>0 DEF CursorRec
<1>2. job' \in [Proc -> JobRec] /\ job'[p] = j /\ \A q \in Proc : q # p => job'[q] = job[q]
  BY <1>0, JobIs
<1>3. FetchTyped'
  BY <1>0, <1>1, <1>2 DEF FetchTyped
<1>4. Stays /\ SameWindow
  <2>1. cursor.from \in Nat
    BY <1>0 DEF CursorRec
  <2> QED BY <1>1, <2>1 DEF Stays, Kept, SameWindow, There, Handled
<1>5. WindowKept
  BY <1>0, <1>3, <1>4, SameWindowKeeps DEF Stays
<1>6. Read' <=> Read
  BY <1>1 DEF Read
<1>7. \A u : Settled(u)' <=> Settled(u)
  BY <1>1 DEF Settled, Handled, Ahead
<1>8. Uids' = Uids /\ (Unharmed' <=> Unharmed) /\ \A u : There(u)' <=> There(u)
  BY DEF Uids, Unharmed, There
<1>9. Read => cursor'.lastUid <= Len(box)
  BY <1>1
<1>10. Fits(j)'
  BY <1>6 DEF Fits
<1>11. ASSUME p = "pass" PROVE ReadAll(j)' /\ OldSound(j)'
  <2>1. \A u : Handled(u)' <=> Handled(u)
    BY DEF Handled
  <2> QED BY <1>1, <1>8, <1>11, <2>1 DEF ReadAll, OldSound, Disordered, InHand, Older
<1>12. ASSUME Unharmed' PROVE (Read => UpTo(cursor.lastUid)') /\ NewSound(j)'
  <2>1. (Read => UpTo(n)) /\ NewSound(j)
    BY <1>8, <1>12
  <2> QED BY <1>1, <1>7, <1>8, <2>1 DEF UpTo, NewSound, Before
<1> QED BY <1>2, <1>3, <1>4, <1>5, <1>9, <1>10, <1>11, <1>12, StepKeeps

\* A path that ends or breaks holds nothing any more.
LEMMA RestKeeps ==
  ASSUME FetchInv, UNCHANGED <<box, validity, came, cursor, archive, tries, peril>>,
         NEW p \in Proc, job' = [job EXCEPT ![p] = Rest]
  PROVE  FetchInv'
<1>1. FetchTyped /\ cursor.lastUid \in Nat /\ cursor = [cursor EXCEPT !.lastUid = cursor.lastUid]
  BY DEF FetchInv, FetchTyped, CursorRec
<1>2. PICK n \in Nat : n = cursor.lastUid
  BY <1>1
<1>3. (Read => n <= Len(box)) /\ (Unharmed /\ Read => UpTo(n))
  BY <1>2 DEF FetchInv
<1>4. cursor' = [cursor EXCEPT !.lastUid = n]
  BY <1>1, <1>2
<1> QED BY <1>1, <1>3, <1>4, RestIs, RestSound, QuietKeeps

LEMMA BreakKeeps ==
  ASSUME FetchInv, NEW p \in Proc, Break(p)
  PROVE  FetchInv'
BY RestKeeps DEF Break

LEMMA BeginPassKeeps ==
  ASSUME FetchInv, BeginPass
  PROVE  FetchInv'
<1> DEFINE at == IF freshBusy = None THEN "list" ELSE "old"
           j  == [job["pass"] EXCEPT !.at = at]
<1>0. FetchTyped /\ "pass" \in Proc /\ job["pass"] \in JobRec
  BY DEF FetchInv, FetchTyped, Proc
<1>1. PICK n \in Nat : n = cursor.lastUid /\ cursor = [cursor EXCEPT !.lastUid = n]
  BY <1>0 DEF FetchTyped, CursorRec
<1>2. j \in JobRec /\ j.at = at /\ j.snap = job["pass"].snap /\ j.todo = job["pass"].todo
  BY <1>0 DEF JobRec
<1>3. job' = [job EXCEPT !["pass"] = j]
  BY <1>0 DEF BeginPass
<1>4. /\ Fits(job["pass"]) /\ ReadAll(job["pass"]) /\ (Unharmed => NewSound(job["pass"]))
      /\ job["pass"].at = "begin"
  BY <1>0 DEF FetchInv, BeginPass
<1>5. UNCHANGED <<box, validity, came, cursor, archive, tries, peril>>
  BY DEF BeginPass
<1>6. at \in {"list", "old"}
  OBVIOUS
<1> HIDE DEF j, at
<1>7. Fits(j) /\ ReadAll(j) /\ OldSound(j)
  BY <1>2, <1>4, <1>6 DEF Fits, ReadAll, OldSound
<1>8. Unharmed => NewSound(j)
  BY <1>2, <1>4, <1>6 DEF NewSound
<1>9. (Read => n <= Len(box)) /\ (Unharmed /\ Read => UpTo(n))
  BY <1>1 DEF FetchInv
<1>10. cursor' = [cursor EXCEPT !.lastUid = n]
  BY <1>1, <1>5
<1> QED BY <1>0, <1>2, <1>3, <1>5, <1>7, <1>8, <1>9, <1>10, QuietKeeps

LEMMA DoneNewKeeps ==
  ASSUME FetchInv, NEW p \in Proc, DoneNew(p)
  PROVE  FetchInv'
<1>1. CASE p = "fresh"
  BY <1>1, RestKeeps DEF DoneNew
<1>2. CASE p # "fresh"
  <2> DEFINE j  == [job[p] EXCEPT !.at = "old", !.todo = <<>>]
  <2>0. FetchTyped /\ p = "pass" /\ job[p] \in JobRec
    BY <1>2 DEF FetchInv, FetchTyped, Proc
  <2>1. PICK n \in Nat : n = cursor.lastUid /\ cursor = [cursor EXCEPT !.lastUid = n]
    BY <2>0 DEF FetchTyped, CursorRec
  <2>2. j \in JobRec /\ j.at = "old" /\ j.snap = job[p].snap /\ j.todo = <<>> /\ Len(j.todo) = 0
    <3>1. <<>> \in Seq(Nat) /\ Len(<<>>) = 0
      OBVIOUS
    <3> QED BY <2>0, <3>1 DEF JobRec
  <2>3. job' = [job EXCEPT ![p] = j]
    <3>1. job' = [job EXCEPT ![p] = IF p = "fresh" THEN Rest ELSE j]
      BY DEF DoneNew
    <3> HIDE DEF j
    <3> QED BY <1>2, <3>1
  <2>4. Fits(job[p]) /\ ReadAll(job[p]) /\ job[p].at = "take"
    BY <2>0 DEF FetchInv, DoneNew
  <2>5. UNCHANGED <<box, validity, came, cursor, archive, tries, peril>>
    BY DEF DoneNew
  <2> HIDE DEF j
  <2>6. Fits(j) /\ ReadAll(j) /\ OldSound(j) /\ NewSound(j)
    BY <2>2, <2>4 DEF Fits, ReadAll, OldSound, NewSound
  <2>7. (Read => n <= Len(box)) /\ (Unharmed /\ Read => UpTo(n))
    BY <2>1 DEF FetchInv
  <2>8. cursor' = [cursor EXCEPT !.lastUid = n]
    BY <2>1, <2>5
  <2>9. Unharmed => NewSound(j)
    BY <2>6
  <2>10. p = "pass" => ReadAll(j) /\ OldSound(j)
    BY <2>6
  <2> QED BY <2>2, <2>3, <2>5, <2>6, <2>7, <2>8, <2>9, <2>10, QuietKeeps
<1> QED BY <1>1, <1>2

-----------------------------------------------------------------------------
(* New letters: taking the first of the list off it *)

LEMMA GreaterIs ==
  ASSUME NEW a \in Nat, NEW b \in Nat
  PROVE  Max({a, b}) \in Nat
<1>1. \E x \in {a, b} : \A y \in {a, b} : x >= y
  OBVIOUS
<1> QED BY <1>1 DEF Max

LEMMA PoppedIs ==
  ASSUME NEW s \in Seq(Nat), s # <<>>
  PROVE  /\ Head(s) = s[1] /\ s[1] \in Nat /\ 1 \in 1..Len(s) /\ Len(s) \in Nat
         /\ Tail(s) \in Seq(Nat) /\ Len(Tail(s)) = Len(s) - 1
         /\ \A i \in 1..Len(Tail(s)) : i + 1 \in 1..Len(s) /\ Tail(s)[i] = s[i + 1]
<1>1. Len(s) \in Nat /\ Len(s) > 0 /\ s \in [1..Len(s) -> Nat]
  OBVIOUS
<1>2. Tail(s) \in Seq(Nat) /\ Len(Tail(s)) = Len(s) - 1 /\ \A i \in 1..(Len(s) - 1) : Tail(s)[i] = s[i + 1]
  BY <1>1
<1> QED BY <1>1, <1>2

LEMMA PoppedFits ==
  ASSUME NEW j \in JobRec, j.todo # <<>>, Fits(j), NEW k \in JobRec, k.snap = j.snap, k.todo = Tail(j.todo),
         j.at # "idle", k.at # "mark"
  PROVE  Fits(k)
<1>1. j.todo \in Seq(Nat)
  BY DEF JobRec
<1> QED BY <1>1, PoppedIs DEF Fits

LEMMA PoppedSound ==
  ASSUME FetchTyped, NEW j \in JobRec, j.todo # <<>>, j.at \in {"take", "mark"}, NewSound(j),
         There(j.todo[1]) => Settled(j.todo[1]),
         NEW k \in JobRec, k.todo = Tail(j.todo), k.at = "take"
  PROVE  NewSound(k) /\ UpTo(j.todo[1])
<1> DEFINE s == j.todo
<1>1. s \in Seq(Nat) /\ s # <<>>
  BY DEF JobRec
<1>2. \A i \in 1..Len(s) : \A v \in Uids : v < s[i] => Settled(v) \/ Before(s, i, v)
  BY DEF NewSound
<1>3. \A v \in Uids : v = s[1] => Settled(v)
  BY ThereIs
<1>4. k.todo = Tail(s)
  OBVIOUS
<1> HIDE DEF s
<1>5. ASSUME NEW i \in 1..Len(Tail(s)), NEW v \in Uids, v < Tail(s)[i]
      PROVE  Settled(v) \/ Before(Tail(s), i, v)
  <2>1. i + 1 \in 1..Len(s) /\ Tail(s)[i] = s[i + 1] /\ i \in Nat /\ i <= Len(Tail(s)) /\ Len(Tail(s)) \in Nat
    BY <1>1, PoppedIs
  <2>2. Settled(v) \/ Before(s, i + 1, v)
    BY <1>2, <1>5, <2>1
  <2>3. ASSUME NEW m \in 1..((i + 1) - 1), s[m] = v PROVE Settled(v) \/ Before(Tail(s), i, v)
    <3>1. CASE m = 1
      BY <1>3, <2>3, <3>1
    <3>2. CASE m # 1
      <4>1. m - 1 \in 1..(i - 1) /\ m - 1 \in 1..Len(Tail(s)) /\ (m - 1) + 1 = m
        BY <2>1, <3>2
      <4>2. Tail(s)[m - 1] = s[(m - 1) + 1]
        BY <1>1, <4>1, PoppedIs
      <4> QED BY <2>3, <4>1, <4>2 DEF Before
    <3> QED BY <3>1, <3>2
  <2> QED BY <2>2, <2>3 DEF Before
<1>6. NewSound(k)
  BY <1>4, <1>5 DEF NewSound
<1>7. ASSUME NEW v \in Uids, v <= s[1] PROVE Settled(v)
  <2>1. 1 \in 1..Len(s) /\ v \in Nat /\ s[1] \in Nat
    BY <1>1, PoppedIs, UidsAre
  <2>2. CASE v < s[1]
    <3>1. Settled(v) \/ Before(s, 1, v)
      BY <1>2, <2>1, <2>2
    <3> QED BY <3>1 DEF Before
  <2>3. CASE v = s[1]
    BY <1>3, <2>3
  <2> QED BY <1>7, <2>1, <2>2, <2>3
<1> QED BY <1>6, <1>7 DEF UpTo, s

\* The cursor follows the first of the list, and the list loses it.
LEMMA PopKeeps ==
  ASSUME FetchInv, UNCHANGED <<box, validity, came, archive, tries, peril>>,
         NEW p \in Proc, job[p].todo # <<>>, job[p].at \in {"take", "mark"},
         cursor' = cursor \/ (cursor' = [cursor EXCEPT !.lastUid = job[p].todo[1]]),
         Unharmed => (There(job[p].todo[1]) => Settled(job[p].todo[1])),
         NEW k \in JobRec, job' = [job EXCEPT ![p] = k],
         k.snap = job[p].snap, k.todo = Tail(job[p].todo), k.at = "take"
  PROVE  FetchInv'
<1>1. PICK j \in JobRec : j = job[p]
  BY DEF FetchInv, FetchTyped
<1>2. FetchTyped /\ Fits(j) /\ (p = "pass" => ReadAll(j)) /\ (Unharmed => NewSound(j)) /\ j.at # "idle"
  BY <1>1 DEF FetchInv
<1>3. Fits(k) /\ (p = "pass" => ReadAll(k) /\ OldSound(k))
  <2>1. Fits(k)
    BY <1>1, <1>2, PoppedFits
  <2> QED BY <1>1, <1>2, <2>1 DEF ReadAll, OldSound
<1>4. Unharmed => NewSound(k) /\ UpTo(j.todo[1])
  BY <1>1, <1>2, PoppedSound
<1>5. j.todo[1] \in Nat /\ j.todo[1] <= Len(box)
  <2>1. j.todo \in Seq(Nat) /\ j.todo # <<>>
    BY <1>1 DEF JobRec
  <2>2. 1 \in 1..Len(j.todo)
    BY <2>1, PoppedIs
  <2>3. j.todo[1] \in 1..Len(box) /\ Len(box) \in Nat
    BY <1>2, <2>2, UidsAre DEF Fits
  <2> QED BY <2>3
<1>6. CASE cursor' = [cursor EXCEPT !.lastUid = job[p].todo[1]]
  BY <1>1, <1>3, <1>4, <1>5, <1>6, QuietKeeps
<1>7. CASE cursor' = cursor
  <2>1. PICK n \in Nat : n = cursor.lastUid /\ cursor = [cursor EXCEPT !.lastUid = n]
    BY <1>2 DEF FetchTyped, CursorRec
  <2>2. (Read => n <= Len(box)) /\ (Unharmed /\ Read => UpTo(n))
    BY <2>1 DEF FetchInv
  <2>3. cursor' = [cursor EXCEPT !.lastUid = n]
    BY <1>7, <2>1
  <2> QED BY <1>3, <1>4, <2>2, <2>3, QuietKeeps
<1> QED BY <1>6, <1>7

LEMMA PassByKeeps ==
  ASSUME FetchInv, NEW p \in Proc, PassBy(p)
  PROVE  FetchInv'
<1> DEFINE u     == Head(job[p].todo)
           draft == There(u) /\ Kind[box[u]] = "draft"
           n     == IF draft THEN Max({u, job[p].lastUid}) ELSE job[p].lastUid
           k     == [job[p] EXCEPT !.todo = Tail(@), !.lastUid = n]
<1>0. FetchTyped /\ job[p] \in JobRec /\ job[p].todo \in Seq(Nat) /\ job[p].lastUid \in Nat
  BY DEF FetchInv, FetchTyped, JobRec
<1>1. job[p].at = "take" /\ job[p].todo # <<>> /\ UNCHANGED <<box, validity, came, archive, tries, peril>>
  BY DEF PassBy
<1>2. /\ ~There(u) \/ draft
      /\ cursor' = IF draft THEN Advance(p, u) ELSE cursor
      /\ job' = [job EXCEPT ![p].todo = Tail(@), ![p].lastUid = IF draft THEN Max({u, @}) ELSE @]
  BY DEF PassBy
<1>3. u = job[p].todo[1] /\ u \in Nat /\ Tail(job[p].todo) \in Seq(Nat)
  BY <1>0, <1>1, PoppedIs
<1>4. n \in Nat
  BY <1>0, <1>3, GreaterIs
<1>5. draft => Settled(u)
  BY DEF Settled, Handled
<1>6. job' = [job EXCEPT ![p] = k]
  BY <1>0, <1>2 DEF FetchTyped
<1> HIDE DEF n, draft, u
<1>7. k \in JobRec /\ k.snap = job[p].snap /\ k.todo = Tail(job[p].todo) /\ k.at = "take"
  BY <1>0, <1>1, <1>3, <1>4 DEF JobRec
<1>8. cursor' = cursor \/ (cursor' = [cursor EXCEPT !.lastUid = job[p].todo[1]])
  BY <1>2, <1>3 DEF Advance
<1> HIDE DEF k
<1> QED BY <1>1, <1>2, <1>3, <1>5, <1>6, <1>7, <1>8, PopKeeps

LEMMA MarkNewKeeps ==
  ASSUME FetchInv, NEW p \in Proc, MarkNew(p)
  PROVE  FetchInv'
<1> DEFINE u == Head(job[p].todo)
           n == Max({u, job[p].lastUid})
           k == [job[p] EXCEPT !.at = "take", !.lastUid = n, !.spent = @ + 1, !.todo = Tail(@)]
<1>0. FetchTyped /\ job[p] \in JobRec /\ job[p].todo \in Seq(Nat) /\ job[p].lastUid \in Nat /\ job[p].spent \in Nat
  BY DEF FetchInv, FetchTyped, JobRec
<1>1. job[p].at = "mark" /\ UNCHANGED <<box, validity, came, archive, tries, peril>>
  BY DEF MarkNew
<1>2. /\ cursor' = Advance(p, u)
      /\ job' = [job EXCEPT ![p].at = "take", ![p].lastUid = Max({u, @}), ![p].spent = @ + 1, ![p].todo = Tail(@)]
  BY DEF MarkNew
<1>3. job[p].todo # <<>> /\ (Unharmed => (There(job[p].todo[1]) => Settled(job[p].todo[1])))
  BY <1>1 DEF FetchInv, Fits, NewSound
<1>4. u = job[p].todo[1] /\ u \in Nat /\ Tail(job[p].todo) \in Seq(Nat)
  BY <1>0, <1>3, PoppedIs
<1>5. n \in Nat
  BY <1>0, <1>4, GreaterIs
<1>6. job' = [job EXCEPT ![p] = k]
  BY <1>0, <1>2 DEF FetchTyped
<1> HIDE DEF n, u
<1>7. k \in JobRec /\ k.snap = job[p].snap /\ k.todo = Tail(job[p].todo) /\ k.at = "take"
  <2>1. PICK j \in JobRec : j = job[p]
    BY <1>0
  <2>2. k = [j EXCEPT !.at = "take", !.lastUid = n, !.spent = j.spent + 1, !.todo = Tail(j.todo)]
    BY <2>1
  <2>3. j.spent + 1 \in Nat /\ Tail(j.todo) \in Seq(Nat)
    BY <1>0, <1>4, <2>1
  <2>4. [j EXCEPT !.lastUid = n, !.spent = j.spent + 1] \in JobRec
    BY <1>5, <2>3 DEF JobRec
  <2>5. k \in JobRec
    BY <2>2, <2>3, <2>4 DEF JobRec
  <2>6. k.snap = j.snap /\ k.todo = Tail(j.todo) /\ k.at = "take"
    BY <2>2 DEF JobRec
  <2> QED BY <2>1, <2>5, <2>6
<1>8. cursor' = cursor \/ (cursor' = [cursor EXCEPT !.lastUid = job[p].todo[1]])
  BY <1>2, <1>4 DEF Advance
<1> HIDE DEF k
<1> QED BY <1>1, <1>3, <1>6, <1>7, <1>8, PopKeeps

-----------------------------------------------------------------------------
(* Storing a letter, or failing to *)

LEMMA NoteIs ==
  ASSUME NEW n \in 0..MaxTries
  PROVE  /\ Note(n) \in 0..MaxTries /\ Note(n) >= n /\ (GivenUp(n) => Note(n) = MaxTries)
BY NumbersIs DEF Note, GivenUp

LEMMA IngestKeeps ==
  ASSUME FetchTyped, NEW u \in Uids, NEW res, Ingest(box[u], u, res), UNCHANGED <<box, validity, came>>
  PROVE  /\ archive' \in [Incoming -> Place] /\ tries' \in [Incoming -> 0..MaxTries] /\ Kept
         /\ res = "ok" \/ GivenUp(tries[box[u]]) => Handled(u)'
<1> DEFINE l == box[u]
           n == IF res = "ok" THEN 0 ELSE Note(tries[l])
<1>1. l \in Incoming /\ u \in Nat /\ validity \in 0..1 /\ tries[l] \in 0..MaxTries
  BY UidsAre DEF FetchTyped
<1>2. n \in 0..MaxTries /\ (res # "ok" => n >= tries[l] /\ (GivenUp(tries[l]) => n = MaxTries))
  BY <1>1, NoteIs, NumbersIs
<1>3. tries' = [tries EXCEPT ![l] = n]
  BY DEF Ingest
<1>4. archive' = archive \/ archive' = [archive EXCEPT ![l] = <<validity, u>>]
  BY DEF Ingest
<1>5. res = "ok" => archive' = [archive EXCEPT ![l] = <<validity, u>>]
  BY DEF Ingest
<1> HIDE DEF l, n
<1>6. <<validity, u>> \in Place /\ <<validity, u>> # <<>>
  BY <1>1 DEF Place
<1>7. archive' \in [Incoming -> Place] /\ tries' \in [Incoming -> 0..MaxTries]
  BY <1>1, <1>2, <1>3, <1>4, <1>6 DEF FetchTyped
<1>8. ASSUME NEW m \in Incoming
      PROVE  /\ archive[m] # <<>> => archive'[m] # <<>>
             /\ tries[m] >= MaxTries => archive'[m] # <<>> \/ tries'[m] >= MaxTries
  <2>1. archive[m] # <<>> => archive'[m] # <<>>
    BY <1>4, <1>6 DEF FetchTyped
  <2>2. CASE m = l
    <3>1. res = "ok" => archive'[m] # <<>>
      BY <1>1, <1>5, <1>6, <2>2 DEF FetchTyped
    <3>2. tries'[m] = n /\ tries[m] = tries[l] /\ n \in Int /\ tries[l] \in Int /\ MaxTries \in Int
      BY <1>1, <1>2, <1>3, <2>2, NumbersIs DEF FetchTyped
    <3>3. res # "ok" => n >= tries[l]
      BY <1>2
    <3> QED BY <2>1, <3>1, <3>2, <3>3
  <2>3. CASE m # l
    BY <1>3, <2>1, <2>3 DEF FetchTyped
  <2> QED BY <2>2, <2>3
<1>9. Kept
  <2> SUFFICES ASSUME NEW v \in 1..Len(box), There(v)'
               PROVE  There(v) /\ box'[v] = box[v] /\ (Handled(v) => Handled(v)')
    BY DEF Kept
  <2>1. There(v) /\ box'[v] = box[v] /\ box[v] \in Incoming
    <3>1. There(v)
      BY DEF There
    <3> QED BY <3>1, UidsAre
  <2> QED BY <1>8, <2>1 DEF Handled
<1>10. ASSUME res = "ok" \/ GivenUp(tries[l]) PROVE Handled(u)'
  <2>1. box'[u] = l
    BY DEF l
  <2>2. CASE res = "ok"
    <3>1. archive'[l] # <<>>
      BY <1>1, <1>5, <1>6, <2>2 DEF FetchTyped
    <3> QED BY <2>1, <3>1 DEF Handled
  <2>3. CASE res # "ok"
    <3>1. tries'[l] = n /\ n = MaxTries /\ n >= MaxTries
      BY <1>1, <1>2, <1>3, <1>10, <2>3, NumbersIs DEF FetchTyped
    <3> QED BY <2>1, <3>1 DEF Handled
  <2> QED BY <2>2, <2>3
<1> QED BY <1>7, <1>9, <1>10 DEF l

LEMMA SameCursorStays ==
  ASSUME FetchTyped, UNCHANGED <<box, validity, came, cursor, peril>>, Kept
  PROVE  Stays /\ SameWindow
<1>1. cursor.from \in Nat
  BY DEF FetchTyped, CursorRec
<1> QED BY <1>1 DEF Stays, SameWindow

LEMMA TakeNewKeeps ==
  ASSUME FetchInv, NEW p \in Proc, TakeNew(p)
  PROVE  FetchInv'
<1>1. PICK j \in JobRec : j = job[p]
  BY DEF FetchInv, FetchTyped
<1>2. /\ j.at = "take" /\ j.todo # <<>> /\ There(Head(j.todo))
      /\ UNCHANGED <<box, validity, came, cursor, peril>>
      /\ \E res \in {"ok", "ingest", "half"} :
           /\ Ingest(box[Head(j.todo)], Head(j.todo), res)
           /\ job' = [job EXCEPT ![p] = IF res = "ok" \/ GivenUp(tries[box[Head(j.todo)]]) THEN [j EXCEPT !.at = "mark"]
                                        ELSE [j EXCEPT !.todo = <<>>]]
  BY <1>1 DEF TakeNew
<1>3. PICK u \in Uids : u = Head(j.todo)
  BY <1>2, ThereIs
<1>4. PICK res \in {"ok", "ingest", "half"} :
        /\ Ingest(box[u], u, res)
        /\ job' = [job EXCEPT ![p] = IF res = "ok" \/ GivenUp(tries[box[u]]) THEN [j EXCEPT !.at = "mark"]
                                     ELSE [j EXCEPT !.todo = <<>>]]
  BY <1>2, <1>3
<1>5. PICK k : k = IF res = "ok" \/ GivenUp(tries[box[u]]) THEN [j EXCEPT !.at = "mark"] ELSE [j EXCEPT !.todo = <<>>]
  OBVIOUS
<1>6. /\ k \in JobRec /\ k.snap = j.snap
      /\ \/ k.at = "mark" /\ k.todo = j.todo /\ (res = "ok" \/ GivenUp(tries[box[u]]))
         \/ k.at = "take" /\ k.todo = <<>>
  <2>1. <<>> \in Seq(Nat)
    OBVIOUS
  <2>2. CASE res = "ok" \/ GivenUp(tries[box[u]])
    <3>1. k = [j EXCEPT !.at = "mark"]
      BY <1>5, <2>2
    <3> QED BY <2>2, <3>1 DEF JobRec
  <2>3. CASE ~(res = "ok" \/ GivenUp(tries[box[u]]))
    <3>1. k = [j EXCEPT !.todo = <<>>]
      BY <1>5, <2>3
    <3> QED BY <1>2, <2>1, <3>1 DEF JobRec
  <2> QED BY <2>2, <2>3
<1>7. FetchTyped /\ Fits(j) /\ (p = "pass" => ReadAll(j)) /\ (Unharmed => NewSound(j))
  BY <1>1 DEF FetchInv
<1>8. /\ archive' \in [Incoming -> Place] /\ tries' \in [Incoming -> 0..MaxTries] /\ Kept
      /\ res = "ok" \/ GivenUp(tries[box[u]]) => Handled(u)'
  BY <1>2, <1>4, <1>7, IngestKeeps
<1>9. job' \in [Proc -> JobRec] /\ job'[p] = k /\ \A q \in Proc : q # p => job'[q] = job[q]
  BY <1>4, <1>5, <1>6, <1>7, JobIs
<1>10. FetchTyped'
  BY <1>2, <1>7, <1>8, <1>9 DEF FetchTyped
<1>11. Stays /\ SameWindow
  BY <1>2, <1>7, <1>8, SameCursorStays
<1>12. WindowKept
  BY <1>7, <1>8, <1>10, <1>11, SameWindowKeeps
<1>13. Fits(k)'
  <2>1. Read' = Read
    BY <1>2 DEF Read
  <2>2. Len(<<>>) = 0
    OBVIOUS
  <2> QED BY <1>2, <1>6, <1>7, <2>1, <2>2 DEF Fits
<1>14. ReadAll(j) => ReadAll(k)' /\ OldSound(k)'
  BY <1>2, <1>6 DEF ReadAll, OldSound
<1>15. ASSUME Unharmed' PROVE (Read => UpTo(cursor.lastUid)') /\ NewSound(k)'
  <2>1. Unharmed /\ \A v \in Uids' : v \in Uids /\ (Settled(v) => Settled(v)')
    BY <1>7, <1>10, <1>11, <1>12, <1>15, SettledStays
  <2>2. Read => UpTo(cursor.lastUid)
    BY <2>1 DEF FetchInv
  <2>3. Read => UpTo(cursor.lastUid)'
    BY <1>2, <2>1, <2>2 DEF UpTo
  <2>4. NewSound(j)'
    BY <1>7, <1>10, <1>11, <1>12, <1>15, <2>1, NewSoundStays
  <2>5. CASE k.at = "mark" /\ k.todo = j.todo /\ (res = "ok" \/ GivenUp(tries[box[u]]))
    <3>1. u = j.todo[1]
      <4>1. j.todo \in Seq(Nat)
        BY DEF JobRec
      <4> QED BY <1>2, <1>3, <4>1, PoppedIs
    <3>2. Settled(k.todo[1])'
      BY <1>8, <2>5, <3>1 DEF Settled
    <3> QED BY <1>2, <2>3, <2>4, <2>5, <3>2 DEF NewSound
  <2>6. CASE k.at = "take" /\ k.todo = <<>>
    <3>1. Len(<<>>) = 0
      OBVIOUS
    <3> QED BY <2>3, <2>6, <3>1 DEF NewSound
  <2> QED BY <1>6, <2>5, <2>6
<1>16. Read => cursor'.lastUid <= Len(box)
  BY <1>2 DEF FetchInv
<1> QED BY <1>6, <1>7, <1>9, <1>10, <1>11, <1>12, <1>13, <1>14, <1>15, <1>16, StepKeeps

-----------------------------------------------------------------------------
(* The history: taking the first of the portion off it *)

LEMMA OldPopped ==
  ASSUME FetchTyped, FetchTyped', InOrder, Stays, WindowKept, SameWindow,
         NEW j \in JobRec, NEW k \in JobRec, OldSound(j), j.at = "takeOld", j.todo # <<>>,
         k.snap = j.snap, k.todo = Tail(j.todo), k.at = "takeOld",
         k.oldest = j.oldest \/ (There(j.todo[1]) /\ k.oldest = Day[box[j.todo[1]]]),
         ~k.bad => ~j.bad /\ (There(j.todo[1])' => Handled(j.todo[1])')
  PROVE  OldSound(k)'
<1> DEFINE u == j.todo[1]
           t == Tail(j.todo)
<1>1. /\ \A v \in Uids' : v \in Uids /\ box'[v] = box[v] /\ (Handled(v) => Handled(v)')
      /\ \A v : There(v)' => v \in Uids'
      /\ \A v : There(v) <=> v \in Uids
  BY SettledStays, ThereIs
<1>2. cursor'.from = cursor.from /\ (Disordered' <=> Disordered) /\ cursor.from \in Nat
  BY DEF SameWindow, Stays, Disordered, FetchTyped, CursorRec
<1>3. /\ 1 \in 1..Len(j.todo) /\ u \in Nat
      /\ \A i \in 1..Len(t) : i + 1 \in 1..Len(j.todo) /\ t[i] = j.todo[i + 1]
      /\ Len(t) = Len(j.todo) - 1 /\ Len(j.todo) \in Nat
  <2>1. j.todo \in Seq(Nat)
    BY DEF JobRec
  <2> QED BY <2>1, PoppedIs
<1>4. /\ ~j.snap.done
      /\ j.oldest # 0 => j.oldest < cursor.from
      /\ \A i \in 1..Len(j.todo) : There(j.todo[i]) => Day[box[j.todo[i]]] < cursor.from
  BY DEF OldSound
<1>5. k.oldest # 0 => k.oldest < cursor.from
  <2>1. CASE k.oldest = j.oldest
    BY <1>4, <2>1
  <2>2. CASE There(u) /\ k.oldest = Day[box[u]]
    BY <1>3, <1>4, <2>2
  <2> QED BY <2>1, <2>2
<1>6. ASSUME NEW i \in 1..Len(t), There(t[i])' PROVE Day[box'[t[i]]] < cursor.from
  BY <1>1, <1>3, <1>4, <1>6
<1>7. ASSUME ~k.bad, ~Disordered', NEW v \in Uids', Day[box'[v]] < cursor'.from
      PROVE  Handled(v)' \/ InHand(k, v) \/ Older(k, v)'
  <2>1. v \in Uids /\ box'[v] = box[v] /\ v \in Nat
    BY <1>1, <1>7, UidsAre
  <2>2. Handled(v) \/ InHand(j, v) \/ Older(j, v)
    BY <1>2, <1>7, <2>1 DEF OldSound
  <2>3. CASE Handled(v)
    BY <1>1, <1>7, <2>3
  <2>4. CASE InHand(j, v)
    <3>1. PICK i \in 1..Len(j.todo) : j.todo[i] = v
      BY <2>4 DEF InHand
    <3>2. CASE i = 1
      BY <1>7, <3>1, <3>2, ThereIs
    <3>3. CASE i # 1
      <4>1. i - 1 \in 1..Len(t) /\ (i - 1) + 1 = i
        BY <1>3, <3>1, <3>3
      <4>2. t[i - 1] = v
        BY <1>3, <3>1, <4>1
      <4> QED BY <4>1, <4>2 DEF InHand
    <3> QED BY <3>2, <3>3
  <2>5. CASE Older(j, v)
    <3>1. \A i \in 1..Len(j.todo) : v < j.todo[i]
      BY <2>5 DEF Older
    <3>2. \A i \in 1..Len(t) : v < t[i]
      BY <1>3, <3>1
    <3>3. ASSUME k.oldest # 0 PROVE Day[box'[v]] <= k.oldest
      <4>1. CASE k.oldest = j.oldest
        BY <2>1, <2>5, <3>3, <4>1 DEF Older
      <4>2. CASE There(u) /\ k.oldest = Day[box[u]]
        <5>1. u \in Uids /\ v < u
          BY <1>1, <1>3, <3>1, <4>2
        <5>2. box[v] < box[u] /\ box[v] \in 1..came /\ box[u] \in 1..came
          BY <2>1, <5>1 DEF InOrder
        <5>3. ~(Day[box[v]] > Day[box[u]])
          BY <1>2, <1>7, <5>2 DEF Disordered
        <5>4. Day[box[v]] \in Nat /\ Day[box[u]] \in Nat
          BY <2>1, <5>1, UidsAre, NumbersIs
        <5> QED BY <2>1, <4>2, <5>3, <5>4
      <4> QED BY <4>1, <4>2
    <3> QED BY <3>2, <3>3 DEF Older
  <2> QED BY <2>2, <2>3, <2>4, <2>5
<1>8. k.todo = t
  OBVIOUS
<1> HIDE DEF t
<1> QED BY <1>2, <1>4, <1>5, <1>6, <1>7, <1>8 DEF OldSound, InHand

LEMMA TakeOldStep ==
  ASSUME FetchInv, UNCHANGED <<box, validity, came, cursor, peril>>,
         archive' \in [Incoming -> Place], tries' \in [Incoming -> 0..MaxTries], Kept,
         NEW j \in JobRec, j = job["pass"], NEW k \in JobRec, job' = [job EXCEPT !["pass"] = k],
         j.at = "takeOld", j.todo # <<>>,
         k.snap = j.snap, k.todo = Tail(j.todo), k.at = "takeOld",
         k.oldest = j.oldest \/ (There(j.todo[1]) /\ k.oldest = Day[box[j.todo[1]]]),
         ~k.bad => ~j.bad /\ (There(j.todo[1])' => Handled(j.todo[1])')
  PROVE  FetchInv'
<1>0. "pass" \in Proc
  BY DEF Proc
<1>1. FetchTyped /\ InOrder /\ Fits(j) /\ ReadAll(j) /\ OldSound(j)
  BY <1>0 DEF FetchInv
<1>2. job' \in [Proc -> JobRec] /\ job'["pass"] = k /\ \A q \in Proc : q # "pass" => job'[q] = job[q]
  BY <1>0, <1>1, JobIs
<1>3. FetchTyped'
  BY <1>1, <1>2 DEF FetchTyped
<1>4. Stays /\ SameWindow
  BY <1>1, SameCursorStays
<1>5. WindowKept
  BY <1>1, <1>3, <1>4, SameWindowKeeps
<1>6. OldSound(k)'
  BY <1>1, <1>3, <1>4, <1>5, OldPopped
<1>7. Fits(k)'
  <2>1. Fits(k)
    BY <1>1, PoppedFits
  <2> QED BY <2>1 DEF Fits, Read
<1>8. ReadAll(k)'
  BY <1>1 DEF ReadAll
<1>9. ASSUME Unharmed' PROVE (Read => UpTo(cursor.lastUid)') /\ NewSound(k)'
  <2>1. Unharmed /\ \A v \in Uids' : v \in Uids /\ (Settled(v) => Settled(v)')
    BY <1>1, <1>3, <1>4, <1>5, <1>9, SettledStays
  <2>2. Read => UpTo(cursor.lastUid)
    BY <2>1 DEF FetchInv
  <2>3. Read => UpTo(cursor.lastUid)'
    BY <2>1, <2>2 DEF UpTo
  <2> QED BY <2>3 DEF NewSound
<1>10. Read => cursor'.lastUid <= Len(box)
  BY DEF FetchInv
<1> QED BY <1>0, <1>2, <1>3, <1>4, <1>5, <1>6, <1>7, <1>8, <1>9, <1>10, StepKeeps

LEMMA TakeOldKeeps ==
  ASSUME FetchInv, TakeOld
  PROVE  FetchInv'
<1>0. "pass" \in Proc /\ FetchTyped
  BY DEF FetchInv, Proc
<1>1. PICK j \in JobRec : j = job["pass"]
  BY <1>0 DEF FetchTyped
<1> DEFINE u    == Head(j.todo)
           l    == box[u]
           next == [j EXCEPT !.todo = Tail(@)]
<1>2. /\ j.at = "takeOld" /\ j.todo # <<>> /\ UNCHANGED <<box, validity, came, cursor, peril>>
      /\ IF ~There(u) \/ Kind[l] = "draft"
         THEN job' = [job EXCEPT !["pass"] = next] /\ UNCHANGED <<archive, tries>>
         ELSE \E res \in {"ok", "ingest", "half"} :
                /\ Ingest(l, u, res)
                /\ job' = [job EXCEPT !["pass"] =
                     [next EXCEPT !.spent = @ + 1, !.bad = @ \/ res # "ok",
                        !.oldest = IF res # "ok" /\ GivenUp(tries[l]) THEN @ ELSE Least(@, Day[l])]]
  BY <1>1 DEF TakeOld
<1>3. u = j.todo[1] /\ Tail(j.todo) \in Seq(Nat)
  <2>1. j.todo \in Seq(Nat)
    BY DEF JobRec
  <2> QED BY <1>2, <2>1, PoppedIs
<1>4. next \in JobRec /\ next.snap = j.snap /\ next.todo = Tail(j.todo) /\ next.at = "takeOld" /\ next.oldest = j.oldest
      /\ next.bad = j.bad /\ next.spent \in Nat /\ next.oldest \in Nat /\ next.bad \in BOOLEAN
  BY <1>2, <1>3 DEF JobRec
<1> HIDE DEF next
<1>5. CASE ~There(u) \/ Kind[l] = "draft"
  <2>1. job' = [job EXCEPT !["pass"] = next] /\ UNCHANGED <<archive, tries>>
    BY <1>2, <1>5
  <2>2. Kept
    BY <1>2, <2>1 DEF Kept, There, Handled
  <2>3. There(j.todo[1])' => Handled(j.todo[1])'
    BY <1>2, <1>3, <1>5, <2>1 DEF There, Handled
  <2>4. archive' \in [Incoming -> Place] /\ tries' \in [Incoming -> 0..MaxTries]
    BY <1>0, <2>1 DEF FetchTyped
  <2> QED BY <1>1, <1>2, <1>4, <2>1, <2>2, <2>3, <2>4, TakeOldStep
<1>6. CASE There(u) /\ Kind[l] # "draft"
  <2>1. PICK res \in {"ok", "ingest", "half"} :
          /\ Ingest(l, u, res)
          /\ job' = [job EXCEPT !["pass"] =
               [next EXCEPT !.spent = @ + 1, !.bad = @ \/ res # "ok",
                  !.oldest = IF res # "ok" /\ GivenUp(tries[l]) THEN @ ELSE Least(@, Day[l])]]
    BY <1>2, <1>6
  <2>2. u \in Uids /\ Day[l] \in Nat
    BY <1>0, <1>6, ThereIs, UidsAre, NumbersIs
  <2>3. /\ archive' \in [Incoming -> Place] /\ tries' \in [Incoming -> 0..MaxTries] /\ Kept
        /\ res = "ok" \/ GivenUp(tries[l]) => Handled(u)'
    BY <1>0, <1>2, <2>1, <2>2, IngestKeeps
  <2> DEFINE o == IF res # "ok" /\ GivenUp(tries[l]) THEN next.oldest ELSE Least(next.oldest, Day[l])
             b == next.bad \/ res # "ok"
             k == [next EXCEPT !.spent = @ + 1, !.bad = b, !.oldest = o]
  <2>4. (o = next.oldest \/ o = Day[l]) /\ o \in Nat
    BY <1>4, <2>2 DEF Least
  <2>5. job' = [job EXCEPT !["pass"] = k]
    BY <2>1
  <2>6. b \in BOOLEAN /\ (~b => ~j.bad /\ res = "ok")
    BY <1>4
  <2> HIDE DEF o, b
  <2>7. k \in JobRec /\ k.snap = next.snap /\ k.todo = next.todo /\ k.at = next.at /\ k.oldest = o /\ k.bad = b
    <3>1. PICK i \in JobRec : i = next
      BY <1>4
    <3>2. i.spent + 1 \in Nat
      BY DEF JobRec
    <3>3. k = [i EXCEPT !.spent = i.spent + 1, !.bad = b, !.oldest = o]
      BY <3>1
    <3>4. [i EXCEPT !.spent = i.spent + 1] \in JobRec
      BY <3>2 DEF JobRec
    <3>5. [i EXCEPT !.spent = i.spent + 1, !.bad = b] \in JobRec
      BY <2>6, <3>4 DEF JobRec
    <3>6. k \in JobRec
      BY <2>4, <3>3, <3>5 DEF JobRec
    <3>7. k.snap = i.snap /\ k.todo = i.todo /\ k.at = i.at /\ k.oldest = o /\ k.bad = b
      BY <3>3 DEF JobRec
    <3> QED BY <3>1, <3>6, <3>7
  <2> HIDE DEF k
  <2>8. k.oldest = j.oldest \/ (There(j.todo[1]) /\ k.oldest = Day[box[j.todo[1]]])
    BY <1>3, <1>4, <1>6, <2>4, <2>7
  <2>9. ~k.bad => ~j.bad /\ (There(j.todo[1])' => Handled(j.todo[1])')
    BY <1>3, <2>3, <2>6, <2>7
  <2>10. k.snap = j.snap /\ k.todo = Tail(j.todo) /\ k.at = "takeOld"
    BY <1>4, <2>7
  <2> QED BY <1>1, <1>2, <2>3, <2>5, <2>7, <2>8, <2>9, <2>10, TakeOldStep
<1> QED BY <1>5, <1>6

-----------------------------------------------------------------------------
(* The box, and opening it *)

LEMMA VanishKeeps ==
  ASSUME FetchInv, NEW u \in 1..Len(box), Vanish(u)
  PROVE  FetchInv'
<1>0. "pass" \in Proc /\ FetchTyped
  BY DEF FetchInv, Proc
<1>1. PICK j \in JobRec : j = job["pass"]
  BY <1>0 DEF FetchTyped
<1>2. /\ box' = [box EXCEPT ![u] = Gone]
      /\ UNCHANGED <<validity, came, cursor, archive, tries, job, peril>>
  BY DEF Vanish
<1>3. Len(box') = Len(box) /\ box' \in Seq(Incoming \cup {Gone}) /\ \A v \in 1..Len(box) : box'[v] = IF v = u THEN Gone ELSE box[v]
  BY <1>0, <1>2 DEF FetchTyped
<1>4. FetchTyped'
  BY <1>0, <1>2, <1>3 DEF FetchTyped
<1>5. Kept
  BY <1>2, <1>3 DEF Kept, There, Handled
<1>6. Stays /\ SameWindow
  <2>1. cursor.from \in Nat
    BY <1>0 DEF FetchTyped, CursorRec
  <2> QED BY <1>2, <1>3, <1>5, <2>1 DEF Stays, SameWindow
<1>7. WindowKept
  BY <1>0, <1>4, <1>5, <1>6, SameWindowKeeps
<1>8. Fits(j) /\ ReadAll(j) /\ OldSound(j) /\ (Read => cursor.lastUid <= Len(box))
  BY <1>0, <1>1 DEF FetchInv
<1>9. Fits(j)' /\ ReadAll(j)'
  BY <1>2, <1>3, <1>8 DEF Fits, ReadAll, Read
<1>10. OldSound(j)'
  BY <1>0, <1>4, <1>6, <1>7, <1>8, OldSoundStays
<1>11. ASSUME Unharmed' PROVE (Read => UpTo(cursor.lastUid)') /\ NewSound(j)'
  <2>1. Unharmed /\ \A v \in Uids' : v \in Uids /\ (Settled(v) => Settled(v)')
    BY <1>0, <1>4, <1>6, <1>7, <1>11, SettledStays
  <2>2. (Read => UpTo(cursor.lastUid)) /\ NewSound(j)
    BY <1>0, <1>1, <2>1 DEF FetchInv
  <2>3. NewSound(j)'
    BY <1>0, <1>4, <1>6, <1>7, <1>11, <2>2, NewSoundStays
  <2> QED BY <1>2, <2>1, <2>2, <2>3 DEF UpTo
<1> QED BY <1>0, <1>1, <1>2, <1>4, <1>6, <1>7, <1>8, <1>9, <1>10, <1>11, StepKeeps

LEMMA ArriveKeeps ==
  ASSUME FetchInv, Arrive
  PROVE  FetchInv'
<1> DEFINE n == Len(box) + 1
<1>0. FetchTyped /\ InOrder /\ n \in Nat /\ Len(box) \in Nat /\ "pass" \in Proc
  BY UidsAre DEF FetchInv, Proc
<1>1. /\ came + 1 \in Incoming /\ came' = came + 1 /\ box' = Append(box, came + 1) /\ came \in Nat /\ came + 1 # Gone
      /\ UNCHANGED <<validity, cursor, archive, tries, job, peril>>
  BY <1>0, NumbersIs DEF Arrive, FetchTyped, Gone
<1>2. /\ Len(box') = n /\ box' \in Seq(Incoming \cup {Gone})
      /\ \A u \in 1..n : box'[u] = IF u = n THEN came + 1 ELSE box[u]
  BY <1>0, <1>1 DEF FetchTyped
<1>3. FetchTyped'
  <2>1. 1..came' \subseteq Incoming
    BY <1>0, <1>1 DEF FetchTyped
  <2> QED BY <1>0, <1>1, <1>2, <2>1 DEF FetchTyped
<1>4. ASSUME NEW u \in Uids'
      PROVE  /\ u \in Nat
             /\ \/ u \in Uids /\ u < n /\ box'[u] = box[u] /\ box[u] \in 1..came
                \/ u = n /\ box'[u] = came + 1
  <2>1. u \in 1..n /\ box'[u] # Gone
    BY <1>2, <1>4 DEF Uids
  <2>2. CASE u = n
    BY <1>2, <2>1, <2>2
  <2>3. CASE u # n
    <3>1. u \in 1..Len(box) /\ box'[u] = box[u] /\ u < n
      BY <1>0, <1>2, <2>1, <2>3
    <3>2. u \in Uids
      BY <2>1, <3>1 DEF Uids
    <3> QED BY <1>0, <3>1, <3>2 DEF InOrder
  <2> QED BY <2>2, <2>3
<1> HIDE DEF n
<1>15. 1..came \subseteq 1..came' /\ came + 1 \in 1..came' /\ \A x \in 1..came : x < came + 1
  BY <1>1
<1>5. InOrder'
  <2>1. ASSUME NEW u \in Uids' PROVE box'[u] \in 1..came'
    BY <1>4, <1>15, <2>1
  <2>2. ASSUME NEW u \in Uids', NEW v \in Uids', u < v PROVE box'[u] < box'[v]
    <3>1. u \in Uids /\ u < n /\ box'[u] = box[u] /\ box[u] \in 1..came
      BY <1>0, <1>4, <2>2
    <3>2. CASE v = n /\ box'[v] = came + 1
      BY <1>15, <3>1, <3>2
    <3>3. CASE v \in Uids /\ box'[v] = box[v]
      BY <1>0, <2>2, <3>1, <3>3 DEF InOrder
    <3> QED BY <1>4, <3>2, <3>3
  <2> QED BY <2>1, <2>2 DEF InOrder
<1>6. \A u \in Uids' : u <= Len(box) => u \in Uids /\ box'[u] = box[u]
  BY <1>0, <1>4 DEF n
<1>7. Read' = Read /\ Unharmed' = Unharmed /\ (Disordered => Disordered')
  <2>1. 1..came \subseteq 1..came'
    BY <1>1
  <2> QED BY <1>1, <2>1 DEF Read, Unharmed, Disordered
<1>8. DayCame'
  <2>1. 1..came \subseteq 1..came'
    BY <1>1
  <2> QED BY <1>1, <1>7, <2>1 DEF FetchInv, DayCame
<1>9. cursor'.validity <= validity' /\ (Read' => cursor'.lastUid <= Len(box'))
  <2>1. cursor.lastUid \in Nat
    BY <1>0 DEF FetchTyped, CursorRec
  <2> QED BY <1>0, <1>1, <1>2, <1>7, <2>1 DEF FetchInv, n
<1>10. ASSUME NEW p \in Proc PROVE Fits(job[p])'
  <2>1. Fits(job[p]) /\ job[p].snap.lastUid \in Nat
    BY <1>0 DEF FetchInv, FetchTyped, JobRec, CursorRec
  <2>2. 1..Len(box) \subseteq 1..Len(box') /\ Len(box) <= Len(box')
    BY <1>0, <1>2 DEF n
  <2> QED BY <1>0, <1>1, <1>2, <1>7, <2>1, <2>2 DEF Fits, n
<1>11. ReadAll(job["pass"])'
  BY <1>1 DEF FetchInv, ReadAll
<1>12. \A u \in Uids' : u <= Len(box) => (Settled(u) => Settled(u)') /\ (Handled(u) => Handled(u)') /\ (There(u)' => There(u))
  BY <1>1, <1>6, ThereIs DEF Settled, Handled, Ahead
<1>13. OldSound(job["pass"])'
  <2>1. PICK j \in JobRec : j = job["pass"]
    BY <1>0 DEF FetchTyped
  <2>2. OldSound(j) /\ Fits(j) /\ j = job'["pass"]
    BY <1>0, <1>1, <2>1 DEF FetchInv
  <2> SUFFICES ASSUME j.at = "takeOld"
               PROVE  /\ \A i \in 1..Len(j.todo) : There(j.todo[i])' => Day[box'[j.todo[i]]] < cursor'.from
                      /\ ~j.bad /\ ~Disordered' =>
                           \A u \in Uids' : Day[box'[u]] < cursor'.from => Handled(u)' \/ InHand(j, u) \/ Older(j, u)'
    BY <1>1, <2>2 DEF OldSound, InHand, Older
  <2>3. ASSUME NEW i \in 1..Len(j.todo), There(j.todo[i])' PROVE Day[box'[j.todo[i]]] < cursor'.from
    <3>1. j.todo[i] \in 1..Len(box) /\ j.todo[i] \in Uids'
      BY <2>2, <2>3, ThereIs DEF Fits
    <3>2. j.todo[i] <= Len(box)
      BY <1>0, <3>1
    <3>3. j.todo[i] \in Uids /\ box'[j.todo[i]] = box[j.todo[i]] /\ There(j.todo[i])
      BY <1>6, <3>1, <3>2, ThereIs
    <3> QED BY <1>1, <2>2, <3>3 DEF OldSound
  <2>4. ASSUME ~j.bad, ~Disordered', NEW u \in Uids', Day[box'[u]] < cursor'.from
        PROVE  Handled(u)' \/ InHand(j, u) \/ Older(j, u)'
    <3>1. CASE u = n /\ box'[u] = came + 1
      <4>1. Day[came + 1] \in Nat /\ cursor.from \in Nat
        BY <1>0, <1>1, NumbersIs DEF FetchTyped, CursorRec
      <4>6. cursor'.from = cursor.from /\ Day[came + 1] < cursor.from
        BY <1>1, <2>4, <3>1
      <4>2. Read /\ cursor.from # 0
        BY <2>2, <4>1, <4>6 DEF Fits
      <4>3. PICK k \in 1..came : Day[k] >= cursor.from
        BY <4>2 DEF FetchInv, DayCame
      <4>7. Day[k] \in Nat
        BY <1>0, NumbersIs DEF FetchTyped
      <4>4. Day[k] > Day[came + 1] /\ k < came + 1 /\ k \in 1..came' /\ came + 1 \in 1..came'
        BY <1>15, <4>1, <4>3, <4>6, <4>7
      <4>5. Disordered'
        BY <4>4 DEF Disordered
      <4> QED BY <2>4, <4>5
    <3>2. CASE u \in Uids /\ u < n /\ box'[u] = box[u]
      <4>1. Handled(u) \/ InHand(j, u) \/ Older(j, u)
        BY <1>1, <1>7, <2>2, <2>4, <3>2 DEF OldSound
      <4>2. u <= Len(box)
        BY <1>0, <1>4, <3>2 DEF n
      <4>3. Older(j, u) => Older(j, u)'
        BY <3>2 DEF Older
      <4> QED BY <1>12, <2>4, <4>1, <4>2, <4>3
    <3> QED BY <1>4, <2>4, <3>1, <3>2
  <2> QED BY <2>3, <2>4
<1>14. ASSUME Unharmed' PROVE (Read' => UpTo(cursor.lastUid)') /\ \A p \in Proc : NewSound(job[p])'
  <2>1. Unharmed /\ (Read => UpTo(cursor.lastUid) /\ cursor.lastUid <= Len(box))
    BY <1>7, <1>14 DEF FetchInv
  <2>2. ASSUME NEW m \in Nat, m <= Len(box), UpTo(m) PROVE UpTo(m)'
    <3> SUFFICES ASSUME NEW u \in Uids', u <= m PROVE Settled(u)'
      BY DEF UpTo
    <3>1. u <= Len(box) /\ u \in Nat
      BY <1>0, <1>4, <2>2
    <3>2. Settled(u)
      BY <1>6, <2>2, <3>1 DEF UpTo
    <3> QED BY <1>12, <3>1, <3>2
  <2>3. Read' => UpTo(cursor.lastUid)'
    <3>1. PICK m \in Nat : m = cursor.lastUid
      BY <1>0 DEF FetchTyped, CursorRec
    <3>2. Read => UpTo(m)'
      BY <2>1, <2>2, <3>1
    <3> QED BY <1>1, <1>7, <3>1, <3>2 DEF UpTo
  <2>4. ASSUME NEW p \in Proc PROVE NewSound(job[p])'
    <3>1. PICK j \in JobRec : j = job[p]
      BY <1>0 DEF FetchTyped
    <3>2. NewSound(j) /\ Fits(j) /\ job'[p] = j
      BY <1>1, <2>1, <3>1 DEF FetchInv
    <3>3. j.at \in {"begin", "list"} => UpTo(j.snap.lastUid)'
      <4>1. j.snap.lastUid \in Nat
        BY DEF JobRec, CursorRec
      <4>2. PICK m \in Nat : m = j.snap.lastUid
        BY <4>1
      <4>3. j.at \in {"begin", "list"} => UpTo(m)'
        BY <2>2, <3>2, <4>2 DEF NewSound, Fits
      <4> QED BY <4>2, <4>3
    <3>4. ASSUME j.at \in {"take", "mark"}, NEW i \in 1..Len(j.todo), NEW v \in Uids', v < j.todo[i]
          PROVE  Settled(v)' \/ Before(j.todo, i, v)
      <4>1. v \in Nat /\ j.todo[i] \in 1..Len(box)
        BY <1>4, <3>2, <3>4 DEF Fits
      <4>2. v <= Len(box)
        BY <1>0, <3>4, <4>1
      <4>3. Settled(v) \/ Before(j.todo, i, v)
        BY <1>6, <3>2, <3>4, <4>2 DEF NewSound
      <4> QED BY <1>12, <3>4, <4>2, <4>3
    <3>5. ASSUME j.at = "mark", There(j.todo[1])' PROVE Settled(j.todo[1])'
      <4>1. j.todo \in Seq(Nat) /\ j.todo # <<>>
        BY <3>2, <3>5 DEF JobRec, Fits
      <4>2. j.todo[1] \in 1..Len(box)
        BY <3>2, <4>1, PoppedIs DEF Fits
      <4>3. j.todo[1] <= Len(box) /\ j.todo[1] \in Uids'
        BY <1>0, <3>5, <4>2, ThereIs
      <4>4. Settled(j.todo[1])
        BY <1>12, <3>2, <3>5, <4>3 DEF NewSound
      <4> QED BY <1>12, <4>3, <4>4
    <3> QED BY <3>2, <3>3, <3>4, <3>5 DEF NewSound, Before
  <2> QED BY <2>3, <2>4
<1> QED BY <1>3, <1>5, <1>8, <1>9, <1>10, <1>11, <1>13, <1>14 DEF FetchInv

LEMMA LettersFinite ==
  ASSUME FetchTyped
  PROVE  /\ IsFiniteSet(ToSet(box) \ {Gone}) /\ ToSet(box) \ {Gone} \subseteq Incoming
         /\ \A l \in ToSet(box) \ {Gone} : \E u \in Uids : box[u] = l
<1>1. Len(box) \in Nat /\ box \in [1..Len(box) -> Incoming \cup {Gone}]
  BY DEF FetchTyped
<1>2. ToSet(box) = {box[i] : i \in 1..Len(box)}
  BY <1>1 DEF ToSet
<1>3. [i \in 1..Len(box) |-> box[i]] \in Surjection(1..Len(box), ToSet(box))
  BY <1>2 DEF Surjection
<1>4. IsFiniteSet(1..Len(box))
  BY <1>1, FS_Interval
<1>5. IsFiniteSet(ToSet(box))
  BY <1>3, <1>4, FS_Surjection
<1>6. IsFiniteSet(ToSet(box) \ {Gone})
  BY <1>5, FS_Subset
<1> QED BY <1>1, <1>2, <1>6 DEF Uids

\* Every session starts anew, and the row is of a folder that is gone.
LEMMA NewValidityKeeps ==
  ASSUME FetchInv, NewValidity
  PROVE  FetchInv'
<1> DEFINE S == ToSet(box) \ {Gone}
<1>0. FetchTyped /\ InOrder /\ came \in Nat
  BY DEF FetchInv, FetchTyped
<1>1. /\ validity = 0 /\ validity' = 1 /\ box' = Sorted(S) /\ job' = [p \in Proc |-> Rest]
      /\ tries' = [l \in Incoming |-> 0] /\ UNCHANGED <<came, cursor, archive, peril>>
  BY DEF NewValidity
<1>2. IsFiniteSet(S) /\ S \subseteq Incoming /\ S \subseteq 1..came
  <2>1. S \subseteq 1..came
    BY <1>0, LettersFinite DEF InOrder
  <2> QED BY <1>0, <2>1, LettersFinite
<1> HIDE DEF S
<1>3. Lists(box', S)
  <2>1. S \in SUBSET Int
    BY <1>2
  <2> QED BY <1>1, <1>2, <2>1, SortedLists
<1>4. box' \in Seq(S) /\ Len(box') \in Nat /\ \A u \in 1..Len(box') : box'[u] \in S
  BY <1>3 DEF Lists
<1>5. FetchTyped'
  <2>1. box' \in Seq(Incoming \cup {Gone})
    <3>2. box' \in [1..Len(box') -> S]
      BY <1>4
    <3>1. box' \in [1..Len(box') -> Incoming \cup {Gone}]
      BY <1>2, <3>2
    <3> QED BY <1>4, <3>1
  <2>2. tries' \in [Incoming -> 0..MaxTries]
    BY <1>1, NumbersIs
  <2>3. job' \in [Proc -> JobRec]
    BY <1>1, RestIs
  <2> QED BY <1>0, <1>1, <2>1, <2>2, <2>3 DEF FetchTyped
<1>6. InOrder'
  <2>1. \A u \in Uids' : u \in 1..Len(box')
    BY DEF Uids
  <2>2. \A u, v \in 1..Len(box') : u < v => box'[u] < box'[v]
    BY <1>3 DEF Lists
  <2> QED BY <1>1, <1>2, <1>4, <2>1, <2>2 DEF InOrder
<1>7. ~Read' /\ cursor'.validity <= validity'
  <2>1. cursor.validity \in 0..1 /\ cursor.validity <= 0
    BY <1>0, <1>1 DEF FetchInv, FetchTyped, CursorRec
  <2> QED BY <1>1, <2>1 DEF Read
<1>8. DayCame'
  BY <1>7 DEF DayCame
<1>9. ASSUME NEW p \in Proc PROVE Fits(job[p])' /\ ReadAll(job[p])' /\ OldSound(job[p])' /\ NewSound(job[p])'
  <2>1. job'[p] = Rest /\ Len(Rest.todo) = 0
    BY <1>1, RestIs
  <2> QED BY <1>4, <2>1, RestIs DEF Fits, ReadAll, OldSound, NewSound
<1> QED BY <1>5, <1>6, <1>7, <1>8, <1>9 DEF FetchInv, Proc

-----------------------------------------------------------------------------
(* Opening the folder *)

LEMMA TodayIs ==
  ASSUME FetchTyped
  PROVE  Today \in Nat /\ (Today # 0 => \E k \in 1..came : Day[k] >= Today)
<1> DEFINE S == {0} \cup {Day[l] : l \in 1..came}
<1>1. came \in Nat /\ \A l \in 1..came : Day[l] \in Nat
  BY NumbersIs DEF FetchTyped
<1>2. IsFiniteSet(S) /\ S \subseteq Nat
  <2>1. [l \in 1..came |-> Day[l]] \in Surjection(1..came, {Day[l] : l \in 1..came})
    BY DEF Surjection
  <2>2. IsFiniteSet(1..came)
    BY <1>1, FS_Interval
  <2>3. IsFiniteSet({Day[l] : l \in 1..came})
    BY <2>1, <2>2, FS_Surjection
  <2>4. IsFiniteSet({Day[l] : l \in 1..came} \cup {0})
    BY <2>3, FS_AddElement
  <2>5. S = {Day[l] : l \in 1..came} \cup {0}
    OBVIOUS
  <2>6. S \subseteq Nat
    BY <1>1
  <2> QED BY <2>4, <2>5, <2>6
<1>3. Today \in S
  <2>1. S # {} /\ Today = Max(S)
    BY DEF Today
  <2>2. S \in SUBSET Int
    BY <1>2
  <2> HIDE DEF S
  <2> QED BY <1>2, <2>1, <2>2, GreatestIs
<1> QED BY <1>1, <1>2, <1>3

LEMMA CursorForIs ==
  ASSUME FetchTyped
  PROVE  /\ CursorFor \in CursorRec /\ CursorFor.made /\ CursorFor.validity = validity
         /\ Read => CursorFor = cursor
         /\ ~Read => CursorFor.lastUid = 0 /\ CursorFor.from = Today /\ ~CursorFor.done
<1>1. cursor \in CursorRec /\ validity \in 0..1 /\ Today \in Nat
  BY TodayIs DEF FetchTyped
<1>2. CASE Read
  BY <1>1, <1>2 DEF CursorFor, Read
<1>3. CASE ~Read
  <2>1. CursorFor = [made |-> TRUE, validity |-> validity, lastUid |-> 0, from |-> Today, done |-> FALSE]
    BY <1>3 DEF CursorFor, Read
  <2> QED BY <1>1, <1>3, <2>1 DEF CursorRec
<1> QED BY <1>2, <1>3

LEMMA OpenKeeps ==
  ASSUME FetchInv, NEW p \in Proc, NEW at \in {"begin", "list"}, Open(p, at)
  PROVE  FetchInv'
<1>0. FetchTyped /\ InOrder /\ Len(box) \in Nat
  BY UidsAre DEF FetchInv
<1>2. PICK c \in CursorRec : c = CursorFor /\ c.lastUid \in Nat
  BY <1>0, CursorForIs DEF CursorRec
<1>3. PICK j \in JobRec : j = [Rest EXCEPT !.at = at, !.snap = c, !.lastUid = c.lastUid] /\ j.at = at /\ j.snap = c /\ j.todo = <<>>
  <2>1. PICK r \in JobRec : r = Rest /\ r.todo = <<>>
    BY RestIs
  <2>2. [r EXCEPT !.at = at, !.snap = c] \in JobRec
    BY DEF JobRec
  <2>3. [r EXCEPT !.at = at, !.snap = c, !.lastUid = c.lastUid] \in JobRec
    BY <1>2, <2>2 DEF JobRec
  <2>4. PICK k \in JobRec : k = [r EXCEPT !.at = at, !.snap = c, !.lastUid = c.lastUid]
    BY <2>3
  <2>5. k.at = at /\ k.snap = c /\ k.todo = <<>>
    BY <2>1, <2>4 DEF JobRec
  <2> QED BY <2>1, <2>4, <2>5
<1>1. /\ job[p].at = "idle" /\ cursor' = c /\ job' = [job EXCEPT ![p] = j]
      /\ UNCHANGED <<box, validity, came, archive, tries, peril>>
  BY <1>2, <1>3 DEF Open
<1>7. Len(j.todo) = 0
  BY <1>3
<1>4. job' \in [Proc -> JobRec] /\ job'[p] = j /\ \A q \in Proc : q # p => job'[q] = job[q]
  BY <1>0, <1>1, <1>3, JobIs
<1>5. CASE Read
  <2>1. c = cursor
    BY <1>0, <1>2, <1>5, CursorForIs
  <2>2. PICK n \in Nat : n = cursor.lastUid /\ cursor = [cursor EXCEPT !.lastUid = n]
    BY <1>0 DEF FetchTyped, CursorRec
  <2>3. n <= Len(box) /\ (Unharmed => UpTo(n))
    BY <1>5, <2>2 DEF FetchInv
  <2>4. Fits(j) /\ ReadAll(j) /\ OldSound(j)
    BY <1>0, <1>3, <1>5, <1>7, <2>1, <2>2, <2>3 DEF Fits, ReadAll, OldSound
  <2>5. Unharmed => NewSound(j)
    BY <1>3, <2>1, <2>2, <2>3 DEF NewSound
  <2>6. cursor' = [cursor EXCEPT !.lastUid = n]
    BY <1>1, <2>1, <2>2
  <2> QED BY <1>1, <1>3, <2>3, <2>4, <2>5, <2>6, QuietKeeps
<1>6. CASE ~Read
  <2>1. /\ cursor'.lastUid = 0 /\ cursor'.from = Today /\ ~cursor'.done /\ Read' /\ cursor'.validity = validity
        /\ cursor' \in CursorRec
    BY <1>0, <1>1, <1>2, <1>6, CursorForIs DEF Read
  <2>2. FetchTyped'
    BY <1>0, <1>1, <1>4, <2>1 DEF FetchTyped
  <2>3. InOrder'
    BY <1>0, <1>1 DEF InOrder, Uids
  <2>4. DayCame'
    BY <1>0, <1>1, <2>1, TodayIs DEF DayCame
  <2>5. cursor'.validity <= validity' /\ (Read' => cursor'.lastUid <= Len(box'))
    BY <1>0, <1>1, <2>1, <2>2 DEF FetchTyped
  <2>6. ASSUME NEW q \in Proc, q # p PROVE job'[q].at = "idle" /\ Fits(job[q])'
    <3>1. Fits(job[q]) /\ job'[q] = job[q] /\ job'[q].at = "idle"
      BY <1>4, <1>6, <2>6 DEF FetchInv, Fits
    <3> QED BY <1>1, <3>1 DEF Fits
  <2>7. Fits(j)' /\ ReadAll(j)' /\ OldSound(j)'
    BY <1>0, <1>1, <1>3, <1>7, <2>1 DEF Fits, ReadAll, OldSound
  <2>8. UpTo(0)'
    <3>1. \A u \in Uids' : u \in Nat /\ u # 0
      BY <1>0, <1>1, UidsAre DEF Uids
    <3> QED BY <3>1 DEF UpTo
  <2>9. UpTo(cursor.lastUid)' /\ NewSound(j)'
    BY <1>1, <1>3, <2>1, <2>8 DEF NewSound, UpTo
  <2>10. ASSUME NEW q \in Proc PROVE Fits(job[q])' /\ ReadAll(job[q])' /\ OldSound(job[q])' /\ NewSound(job[q])'
    <3>1. CASE q = p
      BY <1>4, <2>7, <2>9, <3>1 DEF Fits, ReadAll, OldSound, NewSound, Before, InHand, Older
    <3>2. CASE q # p
      BY <2>6, <3>2 DEF ReadAll, OldSound, NewSound
    <3> QED BY <3>1, <3>2
  <2> QED BY <2>2, <2>3, <2>4, <2>5, <2>9, <2>10 DEF FetchInv, Proc
<1> QED BY <1>5, <1>6

LEMMA StartKeeps ==
  ASSUME FetchInv, StartPass \/ StartFresh
  PROVE  FetchInv'
BY OpenKeeps DEF StartPass, StartFresh, Proc

-----------------------------------------------------------------------------
(* New letters: the list *)

\* What the list takes up: a border below which nothing is to be done, and all above it that come before the first
\* letter to be tried again.
ListNewChoice(base, stop, over, fits, last) ==
  /\ base \in 0..Len(box) /\ over \subseteq Uids /\ fits \subseteq Uids /\ last \in {base} \cup over
  /\ \A u \in {base} \cup over : u <= last
  /\ fits = {u \in Uids : base < u /\ u < stop} \ over
  /\ \A u \in over : base < u /\ u < stop /\ GivenUp(tries[box[u]])

ListNewDoes(p, base, stop, over, fits, last) ==
  /\ ListNewChoice(base, stop, over, fits, last) /\ stop \in Nat
  /\ base # job[p].snap.lastUid => Len(box) - job[p].snap.lastUid > Gap
  /\ tries' = [l \in Incoming |-> IF \E u \in over \cup {stop} : There(u) /\ box[u] = l THEN Note(tries[l]) ELSE tries[l]]
  /\ cursor' = cursor \/ cursor' = [cursor EXCEPT !.lastUid = last]
  /\ job' = [job EXCEPT ![p].at = "take", ![p].lastUid = last, ![p].todo = Sorted(fits)]
  /\ peril \subseteq peril'
  /\ (\E u \in Uids : job[p].snap.lastUid < u /\ u <= base /\ (cursor.done \/ Day[box[u]] >= cursor.from)) => "jump" \in peril'
  /\ (\E u \in fits : u < last) => "huge" \in peril'

LEMMA ListNewIs ==
  ASSUME FetchInv, NEW p \in Proc, ListNew(p)
  PROVE  \E base, stop, over, fits, last : ListNewDoes(p, base, stop, over, fits, last)
<1> DEFINE j    == job[p]
           jump == Len(box) - j.snap.lastUid > Gap
           base == IF jump THEN Len(box) - Min({TailLen, Len(box)}) ELSE j.snap.lastUid
           news == {u \in Uids : u > base}
           huge == {u \in news : Kind[box[u]] = "huge"}
           kept == {u \in huge : ~GivenUp(tries[box[u]])}
           stop == IF kept = {} THEN Len(box) + 1 ELSE Min(kept)
           over == {u \in huge : u < stop}
           fits == {u \in news : u < stop} \ over
           last == Max({base} \cup over)
<1>1. /\ tries' = [l \in Incoming |-> IF \E u \in over \cup {stop} : There(u) /\ box[u] = l THEN Note(tries[l]) ELSE tries[l]]
      /\ cursor' = IF jump \/ over # {} THEN [cursor EXCEPT !.lastUid = last] ELSE cursor
      /\ job' = [job EXCEPT ![p].at = "take", ![p].lastUid = last, ![p].todo = Sorted(fits)]
      /\ peril' = peril \cup (IF \E u \in Uids : j.snap.lastUid < u /\ u <= base /\ (cursor.done \/ Day[box[u]] >= cursor.from)
                                  THEN {"jump"} ELSE {})
                        \cup (IF \E u \in fits : u < last THEN {"huge"} ELSE {})
  BY ZenonT(60) DEF ListNew
<1>2. /\ FetchTyped /\ Len(box) \in Nat /\ j.snap.lastUid \in Nat /\ j.snap.lastUid <= Len(box)
      /\ IsFiniteSet(Uids) /\ Uids \subseteq 1..Len(box)
  <2>1. FetchTyped /\ Fits(j)
    BY DEF FetchInv
  <2>2. j.snap.lastUid \in Nat
    BY <2>1 DEF FetchTyped, JobRec, CursorRec
  <2> QED BY <2>1, <2>2, UidsAre DEF Fits
<1>3. base \in 0..Len(box)
  <2>1. Min({TailLen, Len(box)}) \in 0..Len(box)
    <3>1. TailLen \in Nat /\ Len(box) \in Nat
      BY <1>2, NumbersIs
    <3>2. \E x \in {TailLen, Len(box)} : \A y \in {TailLen, Len(box)} : x <= y
      BY <3>1
    <3>3. Min({TailLen, Len(box)}) \in {TailLen, Len(box)} /\ \A y \in {TailLen, Len(box)} : Min({TailLen, Len(box)}) <= y
      BY <3>2 DEF Min
    <3> QED BY <3>1, <3>3
  <2> QED BY <1>2, <2>1
<1>4. /\ stop \in Nat /\ \A u \in kept : stop <= u
  <2>1. kept \subseteq Uids /\ kept \in SUBSET Int /\ IsFiniteSet(kept) /\ kept \subseteq 1..Len(box)
    <3>1. kept \subseteq Uids
      OBVIOUS
    <3> HIDE DEF kept
    <3>2. IsFiniteSet(kept)
      BY <1>2, <3>1, FS_Subset
    <3>3. kept \subseteq 1..Len(box)
      BY <1>2, <3>1
    <3>4. 1..Len(box) \subseteq Int
      BY <1>2
    <3> QED BY <3>1, <3>2, <3>3, <3>4
  <2>2. CASE kept = {}
    <3>1. stop = Len(box) + 1
      BY <2>2
    <3> HIDE DEF kept, stop
    <3> QED BY <1>2, <2>2, <3>1
  <2>3. CASE kept # {}
    <3>1. stop = Min(kept)
      BY <2>3
    <3> HIDE DEF kept, stop
    <3>2. Min(kept) \in kept /\ \A t \in kept : Min(kept) <= t
      BY <2>1, <2>3, SmallestIs
    <3>3. Min(kept) \in 1..Len(box)
      BY <2>1, <3>2
    <3> QED BY <3>1, <3>2, <3>3
  <2> QED BY <2>2, <2>3
<1>5. last \in {base} \cup over /\ \A u \in {base} \cup over : u <= last
  <2>1. over \subseteq Uids
    OBVIOUS
  <2> HIDE DEF over, base
  <2>2. IsFiniteSet(over) /\ over \cup {base} = {base} \cup over
    BY <1>2, <2>1, FS_Subset
  <2>3. IsFiniteSet({base} \cup over)
    BY <2>2, FS_AddElement
  <2>4. {base} \cup over \in SUBSET Int /\ {base} \cup over # {}
    BY <1>2, <1>3, <2>1
  <2> QED BY <2>3, <2>4, GreatestIs
<1>6. over \subseteq Uids /\ fits \subseteq Uids
  OBVIOUS
<1>7. fits = {u \in Uids : base < u /\ u < stop} \ over
  <2>1. \A u \in Uids : u > base <=> base < u
    BY <1>2, <1>3
  <2> HIDE DEF over, base, stop
  <2> QED BY <2>1
<1>8. \A u \in over : base < u /\ u < stop /\ GivenUp(tries[box[u]])
  <2> SUFFICES ASSUME NEW u \in over PROVE base < u /\ u < stop /\ GivenUp(tries[box[u]])
    OBVIOUS
  <2>1. u \in huge /\ u < stop /\ u \in Uids /\ u > base
    OBVIOUS
  <2>2. ~(stop <= u) /\ base < u
    <3> HIDE DEF over, base, stop, huge
    <3> QED BY <1>2, <1>3, <1>4, <2>1
  <2> HIDE DEF stop, over, base
  <2> QED BY <1>4, <2>1, <2>2
<1>9. base # j.snap.lastUid => jump
  OBVIOUS
<1>10. cursor' = cursor \/ cursor' = [cursor EXCEPT !.lastUid = last]
  BY <1>1
<1> HIDE DEF base, stop, over, fits, last
<1>11. ListNewChoice(base, stop, over, fits, last)
  BY <1>3, <1>5, <1>6, <1>7, <1>8 DEF ListNewChoice
<1>12. /\ peril \subseteq peril'
       /\ (\E u \in Uids : j.snap.lastUid < u /\ u <= base /\ (cursor.done \/ Day[box[u]] >= cursor.from)) => "jump" \in peril'
       /\ (\E u \in fits : u < last) => "huge" \in peril'
  BY <1>1
<1>13. ListNewDoes(p, base, stop, over, fits, last)
  BY <1>1, <1>4, <1>9, <1>10, <1>11, <1>12 DEF ListNewDoes
<1> QED BY <1>13

LEMMA ListNewUpTo ==
  ASSUME FetchTyped, NEW j \in JobRec, UpTo(j.snap.lastUid), NEW base, NEW stop \in Nat, NEW over, NEW fits, NEW last,
         ListNewChoice(base, stop, over, fits, last),
         ~\E u \in Uids : j.snap.lastUid < u /\ u <= base /\ (cursor.done \/ Day[box[u]] >= cursor.from),
         ~\E u \in fits : u < last,
         NEW u \in Uids, u <= last
  PROVE  Settled(u) \/ u \in over
<1>1. base \in Nat /\ last \in Nat /\ u \in Nat /\ j.snap.lastUid \in Nat
  <2>1. Len(box) \in Nat /\ Uids \subseteq 1..Len(box) /\ base \in 0..Len(box) /\ over \subseteq Uids /\ last \in {base} \cup over
    BY UidsAre DEF ListNewChoice
  <2>2. j.snap.lastUid \in Nat
    BY DEF JobRec, CursorRec
  <2>3. base \in Nat /\ over \subseteq Nat /\ u \in Nat
    BY <2>1
  <2>4. last \in Nat
    BY <2>1, <2>3
  <2> QED BY <2>2, <2>3, <2>4
<1>2. CASE u <= j.snap.lastUid
  BY <1>2 DEF UpTo
<1>3. CASE j.snap.lastUid < u /\ u <= base
  <2>1. Day[box[u]] \in Nat /\ cursor.from \in Nat
    BY UidsAre, NumbersIs DEF FetchTyped, CursorRec
  <2> QED BY <1>3, <2>1 DEF Settled, Ahead
<1>4. CASE base < u
  <2>1. last \in over
    BY <1>1, <1>4 DEF ListNewChoice
  <2>2. last < stop /\ fits = {v \in Uids : base < v /\ v < stop} \ over
    BY <2>1 DEF ListNewChoice
  <2>3. u < stop
    BY <1>1, <2>2
  <2>4. u \in over \/ u \in fits
    BY <1>4, <2>2, <2>3
  <2>5. u \in fits => u = last
    BY <1>1
  <2> QED BY <2>1, <2>4, <2>5
<1> QED BY <1>1, <1>2, <1>3, <1>4

LEMMA ListNewSound ==
  ASSUME FetchTyped, NEW j \in JobRec, NEW base, NEW stop \in Nat, NEW over, NEW fits, NEW last,
         ListNewChoice(base, stop, over, fits, last), NEW s, Lists(s, fits),
         NEW i \in 1..Len(s), NEW v \in Uids, v < s[i], ~(v <= last)
  PROVE  Before(s, i, v)
<1>1. Uids \subseteq Nat /\ Len(box) \in Nat /\ Uids \subseteq 1..Len(box)
  BY UidsAre
<1>2. /\ base \in 0..Len(box) /\ over \subseteq Uids /\ fits \subseteq Uids /\ last \in {base} \cup over
      /\ \A u \in {base} \cup over : u <= last
      /\ fits = {u \in Uids : base < u /\ u < stop} \ over
  BY DEF ListNewChoice
<1>3. /\ s \in Seq(fits) /\ Len(s) \in Nat
      /\ \A u \in fits : \E m \in 1..Len(s) : s[m] = u
      /\ \A m, n \in 1..Len(s) : m < n => s[m] < s[n]
  BY DEF Lists
<1>4. s[i] \in fits /\ s[i] \in Nat /\ v \in Nat /\ base \in Nat /\ last \in Nat
  <2>1. s[i] \in fits
    BY <1>3
  <2>2. base \in Nat /\ over \subseteq Nat
    BY <1>1, <1>2
  <2>3. last \in Nat
    BY <1>2, <2>2
  <2>4. s[i] \in Nat /\ v \in Nat
    BY <1>1, <1>2, <2>1
  <2> QED BY <2>1, <2>2, <2>3, <2>4
<1>5. v \in fits
  <2>1. v > last /\ base <= last
    BY <1>2, <1>4
  <2>2. base < v /\ v < s[i] /\ s[i] < stop
    BY <1>2, <1>4, <2>1
  <2>3. v < stop
    BY <1>4, <2>2
  <2>4. v \notin over
    BY <1>2
  <2> QED BY <1>2, <2>2, <2>3, <2>4
<1>6. PICK m \in 1..Len(s) : s[m] = v
  BY <1>3, <1>5
<1>7. ~(i < m) /\ i # m
  <2>1. i < m => s[i] < v
    BY <1>3, <1>6
  <2>2. v < s[i] /\ v \in Nat /\ s[i] \in Nat
    BY <1>4
  <2> QED BY <1>6, <2>1, <2>2
<1>8. m \in 1..(i - 1)
  BY <1>3, <1>7
<1> QED BY <1>6, <1>8 DEF Before

LEMMA ListNewKeeps ==
  ASSUME FetchInv, NEW p \in Proc, ListNew(p)
  PROVE  FetchInv'
<1>0. FetchTyped /\ Len(box) \in Nat /\ IsFiniteSet(Uids) /\ Uids \subseteq 1..Len(box)
  BY UidsAre DEF FetchInv
<1>1. PICK j \in JobRec : j = job[p]
  BY <1>0 DEF FetchTyped
<1>20. job[p].at = "list" /\ UNCHANGED <<box, validity, came, archive>>
  BY ZenonT(60) DEF ListNew
<1>2. /\ Fits(j) /\ (p = "pass" => ReadAll(j)) /\ (Unharmed => NewSound(j)) /\ j.at = "list"
      /\ UNCHANGED <<box, validity, came, archive>>
  BY <1>1, <1>20 DEF FetchInv
<1>21. PICK base, stop, over, fits, last : ListNewDoes(p, base, stop, over, fits, last)
  BY ListNewIs
<1>3. /\ ListNewChoice(base, stop, over, fits, last) /\ stop \in Nat
      /\ base # job[p].snap.lastUid => Len(box) - job[p].snap.lastUid > Gap
      /\ tries' = [l \in Incoming |-> IF \E u \in over \cup {stop} : There(u) /\ box[u] = l THEN Note(tries[l]) ELSE tries[l]]
      /\ cursor' = cursor \/ cursor' = [cursor EXCEPT !.lastUid = last]
      /\ job' = [job EXCEPT ![p].at = "take", ![p].lastUid = last, ![p].todo = Sorted(fits)]
      /\ peril \subseteq peril'
      /\ (\E u \in Uids : job[p].snap.lastUid < u /\ u <= base /\ (cursor.done \/ Day[box[u]] >= cursor.from)) => "jump" \in peril'
      /\ (\E u \in fits : u < last) => "huge" \in peril'
  BY <1>21 DEF ListNewDoes
<1>4. last \in Nat /\ last <= Len(box)
  <2>1. base \in 0..Len(box) /\ over \subseteq 1..Len(box) /\ last \in {base} \cup over
    BY <1>0, <1>3 DEF ListNewChoice
  <2>2. last \in 0..Len(box)
    BY <1>0, <2>1
  <2> QED BY <1>0, <2>2
<1>19. last \in Nat /\ last <= Len(box) /\ stop \in Nat
  BY <1>3, <1>4
<1>5. Lists(Sorted(fits), fits) /\ Sorted(fits) \in Seq(Nat) /\ \A i \in 1..Len(Sorted(fits)) : Sorted(fits)[i] \in Uids
  <2>1. fits \subseteq Uids
    BY <1>3 DEF ListNewChoice
  <2>2. fits \in SUBSET Int /\ IsFiniteSet(fits) /\ fits \subseteq Nat
    <3>1. 1..Len(box) \subseteq Nat
      BY <1>0
    <3>2. fits \subseteq Nat /\ fits \subseteq Int
      BY <1>0, <2>1, <3>1
    <3>3. IsFiniteSet(fits)
      BY <1>0, <2>1, FS_Subset
    <3> QED BY <3>2, <3>3
  <2>3. Lists(Sorted(fits), fits)
    BY <2>2, SortedLists
  <2>4. Sorted(fits) \in Seq(fits)
    BY <2>3 DEF Lists
  <2> HIDE DEF Sorted
  <2>6. PICK s : s = Sorted(fits)
    OBVIOUS
  <2>7. s \in Seq(fits)
    BY <2>4, <2>6
  <2>8. s \in [1..Len(s) -> fits] /\ Len(s) \in Nat
    BY <2>7
  <2>9. s \in [1..Len(s) -> Nat]
    BY <2>2, <2>8
  <2>5. s \in Seq(Nat) /\ \A i \in 1..Len(s) : s[i] \in fits
    BY <2>8, <2>9
  <2> QED BY <2>1, <2>3, <2>5, <2>6
<1>6. PICK s \in Seq(Nat) : s = Sorted(fits) /\ Lists(s, fits) /\ \A i \in 1..Len(s) : s[i] \in Uids
  BY <1>5
<1>7. PICK k \in JobRec : job' = [job EXCEPT ![p] = k] /\ k.snap = j.snap /\ k.at = "take" /\ k.todo = s
  <2>1. [j EXCEPT !.at = "take", !.lastUid = last] \in JobRec
    BY <1>4 DEF JobRec
  <2>2. [j EXCEPT !.at = "take", !.lastUid = last, !.todo = s] \in JobRec
    BY <1>6, <2>1 DEF JobRec
  <2>3. PICK k \in JobRec : k = [j EXCEPT !.at = "take", !.lastUid = last, !.todo = s]
    BY <2>2
  <2>4. k.snap = j.snap /\ k.at = "take" /\ k.todo = s
    BY <2>3 DEF JobRec
  <2>5. job' = [job EXCEPT ![p].at = "take", ![p].lastUid = last, ![p].todo = s]
    BY <1>3, <1>6
  <2>6. job' = [job EXCEPT ![p] = [job[p] EXCEPT !.at = "take", !.lastUid = last, !.todo = s]]
    BY <1>0, <2>5 DEF FetchTyped
  <2>7. job' = [job EXCEPT ![p] = k]
    BY <1>1, <2>3, <2>6
  <2> QED BY <2>4, <2>7
<1>8. job' \in [Proc -> JobRec] /\ job'[p] = k /\ \A q \in Proc : q # p => job'[q] = job[q]
  BY <1>0, <1>7, JobIs
<1>9. /\ cursor' \in CursorRec /\ cursor'.made = cursor.made /\ cursor'.validity = cursor.validity
      /\ cursor'.from = cursor.from /\ cursor'.done = cursor.done /\ (cursor'.lastUid = cursor.lastUid \/ cursor'.lastUid = last)
  <2>1. cursor \in CursorRec
    BY <1>0 DEF FetchTyped
  <2> QED BY <1>3, <1>4, <2>1 DEF CursorRec
<1>10. ASSUME NEW l \in Incoming
       PROVE  /\ tries'[l] \in 0..MaxTries /\ (tries[l] >= MaxTries => tries'[l] >= MaxTries)
              /\ \A u \in over : There(u) /\ box[u] = l => tries'[l] >= MaxTries
  <2>1. tries[l] \in 0..MaxTries /\ MaxTries \in Nat
    BY <1>0, NumbersIs DEF FetchTyped
  <2>2. Note(tries[l]) \in 0..MaxTries /\ Note(tries[l]) >= tries[l] /\ (GivenUp(tries[l]) => Note(tries[l]) = MaxTries)
    BY <2>1, NoteIs
  <2>3. tries'[l] = IF \E u \in over \cup {stop} : There(u) /\ box[u] = l THEN Note(tries[l]) ELSE tries[l]
    BY <1>3, <1>10
  <2>4. ASSUME NEW u \in over, There(u), box[u] = l PROVE tries'[l] >= MaxTries
    <3>1. GivenUp(tries[l])
      BY <1>3, <2>4 DEF ListNewChoice
    <3>2. tries'[l] = MaxTries
      BY <2>2, <2>3, <2>4, <3>1
    <3> QED BY <2>1, <3>2
  <2> QED BY <2>1, <2>2, <2>3, <2>4
<1>11. FetchTyped'
  <2>1. tries' = [l \in Incoming |-> tries'[l]]
    BY <1>3
  <2>2. tries' \in [Incoming -> 0..MaxTries]
    BY <1>10, <2>1
  <2> QED BY <1>0, <1>2, <1>8, <1>9, <2>2 DEF FetchTyped
<1>12. Kept
  <2>1. ASSUME NEW u \in 1..Len(box), There(u)' PROVE There(u) /\ box'[u] = box[u] /\ (Handled(u) => Handled(u)')
    <3>1. There(u) /\ box'[u] = box[u]
      BY <1>2, <2>1 DEF There
    <3>2. box[u] \in Incoming
      BY <1>0, <3>1, UidsAre
    <3> QED BY <1>2, <1>10, <3>1, <3>2 DEF Handled
  <2> QED BY <2>1 DEF Kept
<1>13. Stays /\ SameWindow
  <2>1. cursor.from \in Nat
    BY <1>0 DEF FetchTyped, CursorRec
  <2> QED BY <1>2, <1>3, <1>9, <1>12, <2>1 DEF Stays, SameWindow
<1>14. WindowKept
  BY <1>0, <1>11, <1>12, <1>13, SameWindowKeeps
<1>15. Read => cursor'.lastUid <= Len(box)
  BY <1>4, <1>9 DEF FetchInv
<1>16. Fits(k)'
  <2>1. Read' = Read
    BY <1>2, <1>9 DEF Read
  <2> QED BY <1>0, <1>2, <1>6, <1>7, <2>1 DEF Fits
<1>17. p = "pass" => ReadAll(k)' /\ OldSound(k)'
  BY <1>2, <1>7, <1>9 DEF ReadAll, OldSound
<1>18. ASSUME Unharmed' PROVE (Read => UpTo(cursor.lastUid)') /\ NewSound(k)'
  <2>1. Unharmed /\ \A v \in Uids' : v \in Uids /\ (Settled(v) => Settled(v)')
    BY <1>0, <1>11, <1>13, <1>14, <1>18, SettledStays
  <2>2. UpTo(j.snap.lastUid)
    BY <1>2, <2>1 DEF NewSound
  <2>3. /\ ~\E u \in Uids : j.snap.lastUid < u /\ u <= base /\ (cursor.done \/ Day[box[u]] >= cursor.from)
        /\ ~\E u \in fits : u < last
    <3>1. "jump" \notin peril' /\ "huge" \notin peril'
      BY <1>18 DEF Unharmed
    <3> QED BY <1>1, <1>3, <3>1
  <2>4. ASSUME NEW u \in Uids', u <= last PROVE Settled(u)'
    <3>1. Settled(u) \/ u \in over
      BY <1>0, <1>3, <2>1, <2>2, <2>3, <2>4, ListNewUpTo
    <3>2. CASE u \in over
      <4>1. u \in Uids /\ There(u) /\ box[u] \in Incoming /\ box'[u] = box[u]
        BY <1>0, <1>2, <2>1, <2>4, UidsAre
      <4>2. tries'[box[u]] >= MaxTries
        BY <1>10, <3>2, <4>1
      <4> QED BY <4>1, <4>2 DEF Settled, Handled
    <3> QED BY <2>1, <2>4, <3>1, <3>2
  <2>5. Read => UpTo(cursor.lastUid)'
    <3>1. Read => UpTo(cursor.lastUid)
      BY <2>1 DEF FetchInv
    <3> QED BY <1>9, <2>1, <2>4, <3>1 DEF UpTo
  <2>6. ASSUME NEW i \in 1..Len(s), NEW v \in Uids', v < s[i] PROVE Settled(v)' \/ Before(s, i, v)
    <3>1. v \in Uids
      BY <2>1, <2>6
    <3>2. CASE v <= last
      BY <2>4, <2>6, <3>2
    <3>3. CASE ~(v <= last)
      BY <1>0, <1>3, <1>6, <2>6, <3>1, <3>3, ListNewSound
    <3> QED BY <3>2, <3>3
  <2>7. NewSound(k)'
    BY <1>7, <2>6 DEF NewSound, Before
  <2> QED BY <2>5, <2>7
<1> QED BY <1>0, <1>8, <1>11, <1>13, <1>14, <1>15, <1>16, <1>17, <1>18, StepKeeps

-----------------------------------------------------------------------------
(* The history: choosing the portion *)

LEMMA QuotientGrows ==
  ASSUME NEW a \in Nat, NEW b \in Nat, NEW n \in Nat, n >= 1, a <= b
  PROVE  a \div n \in Nat /\ a \div n <= b \div n
<1>1. PICK q, r : q = a \div n /\ r = a % n
  OBVIOUS
<1>2. PICK s, t : s = b \div n /\ t = b % n
  OBVIOUS
<1>3. q \in Nat /\ r \in 0..(n - 1) /\ a = n * q + r
  BY <1>1
<1>4. s \in Nat /\ t \in 0..(n - 1) /\ b = n * s + t
  BY <1>2
<1>5. ASSUME s < q PROVE FALSE
  <2>1. PICK d \in Nat : q = s + 1 + d
    <3>1. q - s - 1 \in Nat /\ q = s + 1 + (q - s - 1)
      BY <1>3, <1>4, <1>5
    <3> QED BY <3>1
  <2>2. n * q = n * s + n + n * d
    BY <1>4, <2>1
  <2>3. n * d \in Nat /\ n * s \in Nat
    BY <1>4
  <2>4. n * q >= n * s + n
    BY <1>3, <1>4, <2>2, <2>3
  <2>5. n * q \in Nat
    BY <1>3
  <2> QED BY <1>3, <1>4, <2>3, <2>4, <2>5
<1> QED BY <1>1, <1>2, <1>3, <1>4, <1>5

\* What is missing and not in the portion is older than all of it.
LEMMA GapsIs ==
  ASSUME FetchTyped, NEW found \in SUBSET Uids
  PROVE  /\ Gaps(found) \subseteq found
         /\ \A u \in found : \/ Known(u) \/ u \in Gaps(found)
                             \/ Gaps(found) # {} /\ \A g \in Gaps(found) : u < g
<1> DEFINE above(u)   == {v \in found : v > u}
           portion(u) == Cardinality(above(u)) \div PerPass
           missing    == {u \in found : ~Known(u)}
           G          == {u \in missing : \A v \in missing : portion(u) <= portion(v)}
<1>1. Gaps(found) = G
  BY ZenonT(60) DEF Gaps
<1>2. /\ IsFiniteSet(found) /\ found \subseteq Nat /\ PerPass \in Nat /\ PerPass >= 1
  <2>1. Uids \subseteq Nat /\ IsFiniteSet(Uids)
    BY UidsAre
  <2>2. IsFiniteSet(found)
    BY <2>1, FS_Subset
  <2> QED BY <2>1, <2>2, NumbersIs
<1>3. \A u \in found : IsFiniteSet(above(u)) /\ Cardinality(above(u)) \in Nat
  <2> SUFFICES ASSUME NEW u \in found PROVE IsFiniteSet(above(u)) /\ Cardinality(above(u)) \in Nat
    OBVIOUS
  <2>1. above(u) \subseteq found
    OBVIOUS
  <2> HIDE DEF above
  <2> QED BY <1>2, <2>1, FS_Subset, FS_CardinalityType
<1>4. \A u \in found : portion(u) \in Nat
  <2> HIDE DEF above
  <2>1. \A a \in Nat : a \div PerPass \in Nat
    BY <1>2, QuotientGrows
  <2> QED BY <1>3, <2>1
<1>5. ASSUME NEW u \in found, NEW g \in found, ~(u < g) PROVE portion(u) <= portion(g)
  <2>1. above(u) \subseteq above(g)
    <3>1. ASSUME NEW v \in found, v > u PROVE v > g
      <4>1. v \in Nat /\ u \in Nat /\ g \in Nat
        BY <1>2
      <4> QED BY <1>5, <3>1, <4>1
    <3> QED BY <3>1
  <2> HIDE DEF above
  <2>2. Cardinality(above(u)) <= Cardinality(above(g))
    BY <1>3, <2>1, FS_Subset
  <2> QED BY <1>2, <1>3, <2>2, QuotientGrows
<1>6. ASSUME missing # {} PROVE G # {}
  <2> DEFINE P == {portion(v) : v \in missing}
  <2>1. [v \in missing |-> portion(v)] \in Surjection(missing, P)
    <3> HIDE DEF portion, missing
    <3> QED BY DEF Surjection
  <2>2. IsFiniteSet(missing)
    <3>1. missing \subseteq found
      OBVIOUS
    <3> HIDE DEF missing
    <3> QED BY <1>2, <3>1, FS_Subset
  <2>3. IsFiniteSet(P)
    <3> HIDE DEF missing, P
    <3> QED BY <2>1, <2>2, FS_Surjection
  <2>4. P \in SUBSET Int /\ P # {}
    <3>1. \A v \in missing : portion(v) \in Int
      BY <1>4
    <3> HIDE DEF portion, missing
    <3> QED BY <1>6, <3>1
  <2>5. Min(P) \in P /\ \A t \in P : Min(P) <= t
    <3> HIDE DEF P
    <3> QED BY <2>3, <2>4, SmallestIs
  <2> HIDE DEF portion, missing
  <2>6. PICK m \in missing : \A v \in missing : portion(m) <= portion(v)
    BY <2>5
  <2> QED BY <2>6
<1>7. ASSUME NEW u \in found, ~Known(u), u \notin G PROVE G # {} /\ \A g \in G : u < g
  <2>1. u \in missing
    BY <1>7
  <2>2. PICK v \in missing : ~(portion(u) <= portion(v))
    BY <1>7, <2>1
  <2>3. ASSUME NEW g \in G, ~(u < g) PROVE FALSE
    <3>1. g \in found /\ v \in found /\ portion(g) <= portion(v)
      OBVIOUS
    <3>2. portion(u) <= portion(g)
      BY <1>5, <2>3, <3>1
    <3>3. portion(u) \in Nat /\ portion(g) \in Nat /\ portion(v) \in Nat
      BY <1>4, <3>1
    <3> HIDE DEF portion
    <3> QED BY <2>2, <3>1, <3>2, <3>3
  <2> QED BY <1>6, <2>1, <2>3
<1>8. G \subseteq found
  OBVIOUS
<1> HIDE DEF G
<1> QED BY <1>1, <1>7, <1>8

LEMMA OrderedIs ==
  ASSUME NEW S \in SUBSET Nat, IsFiniteSet(S), NEW s, s = Sorted(S) \/ s = Reverse(Sorted(S))
  PROVE  /\ s \in Seq(Nat) /\ \A i \in 1..Len(s) : s[i] \in S
         /\ \A u \in S : \E i \in 1..Len(s) : s[i] = u
<1>1. S \in SUBSET Int
  OBVIOUS
<1>2. Lists(Sorted(S), S)
  BY <1>1, SortedLists
<1> HIDE DEF Sorted
<1>3. PICK t : t = Sorted(S)
  OBVIOUS
<1>4. t \in Seq(S) /\ \A u \in S : \E i \in 1..Len(t) : t[i] = u
  BY <1>2, <1>3 DEF Lists
<1>5. t \in [1..Len(t) -> S] /\ Len(t) \in Nat
  BY <1>4
<1>6. CASE s = t
  <2>1. t \in [1..Len(t) -> Nat]
    BY <1>5
  <2> QED BY <1>4, <1>5, <1>6, <2>1
<1>7. CASE s = Reverse(t)
  <2>1. s = [i \in 1..Len(t) |-> t[(Len(t) - i) + 1]]
    BY <1>7 DEF Reverse
  <2>2. \A i \in 1..Len(t) : (Len(t) - i) + 1 \in 1..Len(t) /\ (Len(t) - ((Len(t) - i) + 1)) + 1 = i
    BY <1>5
  <2>3. s \in [1..Len(t) -> S] /\ \A i \in 1..Len(t) : s[i] = t[(Len(t) - i) + 1]
    BY <1>5, <2>1, <2>2
  <2>4. s \in [1..Len(t) -> Nat]
    BY <2>3
  <2>5. s \in Seq(Nat) /\ Len(s) = Len(t)
    BY <1>5, <2>4
  <2>6. \A i \in 1..Len(t) : s[(Len(t) - i) + 1] = t[i]
    BY <2>2, <2>3
  <2> QED BY <1>4, <2>2, <2>3, <2>5, <2>6
<1> QED BY <1>3, <1>6, <1>7

\* The window has no gaps: the history is whole, and what the row says of it moves.
LEMMA WholeKeeps ==
  ASSUME FetchInv, UNCHANGED <<box, validity, came, archive, tries, peril>>,
         NEW j \in JobRec, j = job["pass"], j.at = "old",
         Gaps({u \in Uids : Day[box[u]] < j.snap.from}) = {},
         cursor' = [cursor EXCEPT !.done = TRUE], job' = [job EXCEPT !["pass"] = Rest]
  PROVE  FetchInv'
<1>0. "pass" \in Proc /\ FetchTyped /\ ReadAll(j) /\ cursor \in CursorRec
  BY DEF Proc, FetchInv, FetchTyped
<1>1. ASSUME NEW u \in Uids, Day[box[u]] < cursor.from PROVE Handled(u)
  <2>1. u \in {v \in Uids : Day[box[v]] < j.snap.from}
    BY <1>0, <1>1 DEF ReadAll
  <2>2. Known(u)
    BY <1>0, <2>1, GapsIs
  <2> QED BY <2>2 DEF Known, Handled
<1>2. /\ cursor' \in CursorRec /\ cursor'.made = cursor.made /\ cursor'.validity = cursor.validity
      /\ cursor'.lastUid = cursor.lastUid /\ cursor'.from = cursor.from /\ cursor.from \in Nat
  BY <1>0 DEF CursorRec
<1>3. job' \in [Proc -> JobRec] /\ job'["pass"] = Rest /\ \A q \in Proc : q # "pass" => job'[q] = job[q]
  BY <1>0, RestIs, JobIs
<1>4. FetchTyped'
  BY <1>0, <1>2, <1>3 DEF FetchTyped
<1>5. Stays
  BY <1>2 DEF Stays, Kept, There, Handled
<1>6. WindowKept
  BY <1>1 DEF WindowKept, Ahead, Settled, Handled
<1>7. Read => cursor'.lastUid <= Len(box)
  BY <1>2 DEF FetchInv
<1>8. Fits(Rest)' /\ ReadAll(Rest)' /\ OldSound(Rest)' /\ NewSound(Rest)'
  <2>1. Rest.at = "idle" /\ Len(Rest.todo) = 0 /\ Rest.snap.lastUid = 0 /\ Len(box) \in Nat
    BY <1>0, RestIs, UidsAre
  <2> QED BY <2>1 DEF Fits, ReadAll, OldSound, NewSound
<1>9. ASSUME Unharmed' PROVE Read => UpTo(cursor.lastUid)'
  <2>1. Unharmed /\ \A v \in Uids' : v \in Uids /\ (Settled(v) => Settled(v)')
    BY <1>0, <1>4, <1>5, <1>6, <1>9, SettledStays
  <2>2. Read => UpTo(cursor.lastUid)
    BY <2>1 DEF FetchInv
  <2> QED BY <1>2, <2>1, <2>2 DEF UpTo
<1>10. PICK r \in JobRec : r = Rest
  BY RestIs
<1>11. Fits(r)' /\ ReadAll(r)' /\ OldSound(r)' /\ NewSound(r)' /\ r = job'["pass"]
  BY <1>3, <1>8, <1>10
<1> QED BY <1>0, <1>3, <1>4, <1>5, <1>6, <1>7, <1>9, <1>11, StepKeeps

\* A portion is taken up: of the letters of the window that are missing, those in hand are the newest.
TakesUp(k, G, huge) ==
  /\ k.oldest = 0 \/ \E u \in huge : k.oldest = Day[box[u]]
  /\ ~k.bad => huge = {} /\ k.oldest = 0
  /\ \A i \in 1..Len(k.todo) : k.todo[i] \in G \ huge
  /\ \A u \in G \ huge : \E i \in 1..Len(k.todo) : k.todo[i] = u

LEMMA PortionKeeps ==
  ASSUME FetchInv, UNCHANGED <<box, validity, came, cursor, archive, peril>>,
         NEW j \in JobRec, j = job["pass"], j.at = "old", ~j.snap.done,
         NEW G, G = Gaps({u \in Uids : Day[box[u]] < j.snap.from}),
         NEW huge \in SUBSET G, NEW S, tries' = [l \in Incoming |-> IF l \in S THEN Note(tries[l]) ELSE tries[l]],
         NEW k \in JobRec, job' = [job EXCEPT !["pass"] = k], k.snap = j.snap, k.at = "takeOld", TakesUp(k, G, huge)
  PROVE  FetchInv'
<1>0. "pass" \in Proc /\ FetchTyped /\ ReadAll(j) /\ Fits(j) /\ cursor \in CursorRec
  BY DEF Proc, FetchInv, FetchTyped
<1>14. /\ k.oldest = 0 \/ \E u \in huge : k.oldest = Day[box[u]]
       /\ ~k.bad => huge = {} /\ k.oldest = 0
       /\ \A i \in 1..Len(k.todo) : k.todo[i] \in G \ huge
       /\ \A u \in G \ huge : \E i \in 1..Len(k.todo) : k.todo[i] = u
  BY DEF TakesUp
<1>1. /\ G \subseteq Uids /\ \A u \in G : Day[box[u]] < cursor.from
      /\ \A u \in Uids : Day[box[u]] < cursor.from => Handled(u) \/ u \in G \/ \A g \in G : u < g
  <2> DEFINE found == {u \in Uids : Day[box[u]] < j.snap.from}
  <2>1. cursor.from = j.snap.from /\ G = Gaps(found)
    BY <1>0 DEF ReadAll
  <2>2. \A u \in Uids : u \in found <=> Day[box[u]] < cursor.from
    BY <2>1
  <2>3. found \in SUBSET Uids
    OBVIOUS
  <2> HIDE DEF found
  <2>4. /\ G \subseteq found
        /\ \A u \in found : Known(u) \/ u \in G \/ \A g \in G : u < g
    BY <1>0, <2>1, <2>3, GapsIs
  <2>5. \A u \in Uids : Known(u) => Handled(u)
    BY DEF Known, Handled
  <2> QED BY <2>2, <2>3, <2>4, <2>5
<1>2. job' \in [Proc -> JobRec] /\ job'["pass"] = k /\ \A q \in Proc : q # "pass" => job'[q] = job[q]
  BY <1>0, JobIs
<1>3. ASSUME NEW l \in Incoming PROVE tries'[l] \in 0..MaxTries /\ (tries[l] >= MaxTries => tries'[l] >= MaxTries)
  <2>1. tries[l] \in 0..MaxTries /\ MaxTries \in Nat
    BY <1>0, NumbersIs DEF FetchTyped
  <2>2. Note(tries[l]) \in 0..MaxTries /\ Note(tries[l]) >= tries[l]
    BY <2>1, NoteIs
  <2>3. tries'[l] = Note(tries[l]) \/ tries'[l] = tries[l]
    BY <1>3
  <2> QED BY <2>1, <2>2, <2>3
<1>4. FetchTyped'
  <2>1. tries' = [l \in Incoming |-> tries'[l]]
    OBVIOUS
  <2>2. tries' \in [Incoming -> 0..MaxTries]
    BY <1>3, <2>1
  <2> QED BY <1>0, <1>2, <2>2 DEF FetchTyped
<1>5. Kept
  <2>1. ASSUME NEW u \in 1..Len(box), There(u)' PROVE There(u) /\ box'[u] = box[u] /\ (Handled(u) => Handled(u)')
    <3>1. There(u) /\ box'[u] = box[u]
      BY <2>1 DEF There
    <3>2. box[u] \in Incoming
      BY <1>0, <3>1, UidsAre
    <3> QED BY <1>3, <3>1, <3>2 DEF Handled
  <2> QED BY <2>1 DEF Kept
<1>6. Stays /\ SameWindow
  BY <1>0, <1>5, SameCursorStays
<1>7. WindowKept
  BY <1>0, <1>4, <1>5, <1>6, SameWindowKeeps
<1>8. Read => cursor'.lastUid <= Len(box)
  BY DEF FetchInv
<1>9. Fits(k)'
  <2>1. \A i \in 1..Len(k.todo) : k.todo[i] \in 1..Len(box)
    BY <1>0, <1>1, <1>14, UidsAre
  <2> QED BY <1>0, <2>1 DEF Fits, Read
<1>10. ReadAll(k)'
  BY <1>0 DEF ReadAll
<1>11. /\ \A v \in Uids' : v \in Uids /\ box'[v] = box[v] /\ (Handled(v) => Handled(v)')
       /\ Unharmed' => Unharmed /\ \A v \in Uids' : Settled(v) => Settled(v)'
  BY <1>0, <1>4, <1>6, <1>7, SettledStays
<1>12. OldSound(k)'
  <2>1. k.oldest # 0 => k.oldest < cursor'.from
    BY <1>1, <1>14
  <2>2. \A i \in 1..Len(k.todo) : There(k.todo[i])' => Day[box'[k.todo[i]]] < cursor'.from
    BY <1>1, <1>14
  <2>3. ASSUME ~k.bad, NEW u \in Uids', Day[box'[u]] < cursor'.from
        PROVE  Handled(u)' \/ InHand(k, u) \/ Older(k, u)'
    <3>1. u \in Uids /\ (Handled(u) => Handled(u)') /\ (Handled(u) \/ u \in G \/ \A g \in G : u < g)
      BY <1>1, <1>11, <2>3
    <3>2. u \in G => InHand(k, u)
      BY <1>14, <2>3 DEF InHand
    <3>3. (\A g \in G : u < g) => Older(k, u)'
      BY <1>14, <2>3 DEF Older
    <3> QED BY <3>1, <3>2, <3>3
  <2> QED BY <2>1, <2>2, <2>3 DEF OldSound, InHand
<1>13. ASSUME Unharmed' PROVE (Read => UpTo(cursor.lastUid)') /\ NewSound(k)'
  <2>1. Read => UpTo(cursor.lastUid)
    BY <1>11, <1>13 DEF FetchInv
  <2>2. Read => UpTo(cursor.lastUid)'
    BY <1>11, <1>13, <2>1 DEF UpTo
  <2> QED BY <2>2 DEF NewSound
<1> QED BY <1>0, <1>2, <1>4, <1>6, <1>7, <1>8, <1>9, <1>10, <1>12, <1>13, StepKeeps

LEMMA ListOldKeeps ==
  ASSUME FetchInv, ListOld
  PROVE  FetchInv'
<1> DEFINE j     == job["pass"]
           found == {u \in Uids : Day[box[u]] < j.snap.from}
           gaps  == Gaps(found)
           huge  == {u \in gaps : Kind[box[u]] = "huge"}
           kept  == {Day[box[u]] : u \in {v \in huge : ~GivenUp(tries[box[v]])}}
           old   == IF kept = {} THEN 0 ELSE Min(kept)
           seen  == huge # {}
           rest(o) == IF o = "rising" THEN Sorted(gaps \ huge) ELSE Reverse(Sorted(gaps \ huge))
<1>0. "pass" \in Proc /\ FetchTyped /\ j \in JobRec
  BY DEF Proc, FetchInv, FetchTyped
<1>1. j.at = "old" /\ UNCHANGED <<box, validity, came, archive, peril>>
  BY ZenonT(60) DEF ListOld
<1>2. \/ job' = [job EXCEPT !["pass"] = Rest] /\ UNCHANGED <<cursor, tries>>
      \/ /\ gaps = {} /\ cursor' = [cursor EXCEPT !.done = TRUE]
         /\ job' = [job EXCEPT !["pass"] = Rest] /\ UNCHANGED tries
      \/ /\ ~j.snap.done /\ UNCHANGED cursor
         /\ tries' = [l \in Incoming |-> IF \E u \in huge : box[u] = l THEN Note(tries[l]) ELSE tries[l]]
         /\ \E o \in Orders : job' = [job EXCEPT !["pass"] = [j EXCEPT !.at = "takeOld", !.oldest = old, !.bad = seen, !.todo = rest(o)]]
  BY ZenonT(60) DEF ListOld
<1>3. gaps \subseteq Uids /\ huge \subseteq gaps /\ IsFiniteSet(gaps \ huge) /\ gaps \ huge \in SUBSET Nat
  <2>1. found \in SUBSET Uids
    OBVIOUS
  <2>2. gaps \subseteq found
    <3> HIDE DEF found
    <3> QED BY <1>0, <2>1, GapsIs
  <2>3. huge \subseteq gaps
    OBVIOUS
  <2>4. IsFiniteSet(Uids) /\ Uids \subseteq Nat
    BY <1>0, UidsAre
  <2> HIDE DEF found, gaps, huge
  <2>5. gaps \ huge \subseteq Uids
    BY <2>1, <2>2
  <2>6. IsFiniteSet(gaps \ huge)
    BY <2>4, <2>5, FS_Subset
  <2> QED BY <2>1, <2>2, <2>3, <2>4, <2>5, <2>6
<1>4. (old = 0 \/ \E u \in huge : old = Day[box[u]]) /\ (huge = {} => old = 0) /\ old \in Nat
  <2>1. kept \subseteq {Day[box[u]] : u \in huge} /\ (huge = {} => kept = {})
    OBVIOUS
  <2>2. IsFiniteSet(huge) /\ \A u \in huge : Day[box[u]] \in Nat
    <3>1. IsFiniteSet(Uids) /\ \A u \in Uids : Day[box[u]] \in Nat
      BY <1>0, UidsAre, NumbersIs
    <3> HIDE DEF gaps, huge
    <3>2. huge \subseteq Uids
      BY <1>3
    <3> QED BY <3>1, <3>2, FS_Subset
  <2> HIDE DEF huge, kept
  <2>3. IsFiniteSet({Day[box[u]] : u \in huge})
    <3> DEFINE D == {Day[box[u]] : u \in huge}
    <3>1. [u \in huge |-> Day[box[u]]] \in Surjection(huge, D)
      BY DEF Surjection
    <3> HIDE DEF D
    <3>2. IsFiniteSet(D)
      BY <2>2, <3>1, FS_Surjection
    <3> QED BY <3>2 DEF D
  <2>4. IsFiniteSet(kept) /\ kept \in SUBSET Int
    <3>1. IsFiniteSet(kept)
      BY <2>1, <2>3, FS_Subset
    <3> QED BY <2>1, <2>2, <3>1
  <2>5. CASE kept = {}
    BY <2>5
  <2>6. CASE kept # {}
    <3>1. old = Min(kept) /\ Min(kept) \in kept
      BY <2>4, <2>6, SmallestIs
    <3> QED BY <2>1, <2>2, <2>6, <3>1
  <2> QED BY <2>5, <2>6
<1>8. seen \in BOOLEAN /\ (seen <=> huge # {})
  OBVIOUS
<1> HIDE DEF found, gaps, huge, kept, old, seen, rest
<1>5. CASE job' = [job EXCEPT !["pass"] = Rest] /\ UNCHANGED <<cursor, tries>>
  BY <1>0, <1>1, <1>5, RestKeeps
<1>6. CASE /\ gaps = {} /\ cursor' = [cursor EXCEPT !.done = TRUE]
           /\ job' = [job EXCEPT !["pass"] = Rest] /\ UNCHANGED tries
  <2>1. PICK i \in JobRec : i = job["pass"]
    BY <1>0
  <2>2. i.at = "old" /\ Gaps({u \in Uids : Day[box[u]] < i.snap.from}) = {}
    BY <1>1, <1>6, <2>1 DEF gaps, found
  <2> QED BY <1>1, <1>6, <2>1, <2>2, WholeKeeps
<1>7. CASE /\ ~j.snap.done /\ UNCHANGED cursor
           /\ tries' = [l \in Incoming |-> IF \E u \in huge : box[u] = l THEN Note(tries[l]) ELSE tries[l]]
           /\ \E o \in Orders : job' = [job EXCEPT !["pass"] = [j EXCEPT !.at = "takeOld", !.oldest = old, !.bad = seen, !.todo = rest(o)]]
  <2>1. PICK i \in JobRec : i = job["pass"]
    BY <1>0
  <2>2. PICK G : G = gaps
    OBVIOUS
  <2>3. PICK H \in SUBSET G : H = huge
    BY <1>3, <2>2
  <2>4. PICK o \in Orders : job' = [job EXCEPT !["pass"] = [j EXCEPT !.at = "takeOld", !.oldest = old, !.bad = seen, !.todo = rest(o)]]
    BY ZenonT(60), <1>7
  <2>5. PICK s : s = rest(o)
    OBVIOUS
  <2>6. s = Sorted(G \ H) \/ s = Reverse(Sorted(G \ H))
    BY <2>2, <2>3, <2>5 DEF rest
  <2>7. /\ s \in Seq(Nat) /\ \A m \in 1..Len(s) : s[m] \in G \ H
        /\ \A u \in G \ H : \E m \in 1..Len(s) : s[m] = u
    <3>1. IsFiniteSet(G \ H) /\ G \ H \in SUBSET Nat
      BY <1>3, <2>2, <2>3
    <3> QED BY <2>6, <3>1, OrderedIs
  <2>8. PICK k \in JobRec : /\ k = [i EXCEPT !.at = "takeOld", !.oldest = old, !.bad = seen, !.todo = s]
                            /\ k.snap = i.snap /\ k.at = "takeOld" /\ k.oldest = old /\ k.bad = seen /\ k.todo = s
    <3>1. PICK b \in BOOLEAN : b = seen
      BY <1>8
    <3>2. PICK n \in Nat : n = old
      BY <1>4
    <3>3. [i EXCEPT !.at = "takeOld", !.oldest = n] \in JobRec
      BY DEF JobRec
    <3>4. [i EXCEPT !.at = "takeOld", !.oldest = n, !.bad = b] \in JobRec
      BY <3>3 DEF JobRec
    <3>5. [i EXCEPT !.at = "takeOld", !.oldest = n, !.bad = b, !.todo = s] \in JobRec
      BY <2>7, <3>4 DEF JobRec
    <3>6. PICK k \in JobRec : k = [i EXCEPT !.at = "takeOld", !.oldest = n, !.bad = b, !.todo = s]
      BY <3>5
    <3>7. k.snap = i.snap /\ k.at = "takeOld" /\ k.oldest = n /\ k.bad = b /\ k.todo = s
      BY <3>6 DEF JobRec
    <3> QED BY <3>1, <3>2, <3>6, <3>7
  <2>9. job' = [job EXCEPT !["pass"] = k]
    BY <2>1, <2>4, <2>5, <2>8
  <2>10. G = Gaps({u \in Uids : Day[box[u]] < i.snap.from})
    BY <2>1, <2>2 DEF gaps, found
  <2>11. TakesUp(k, G, H)
    BY <1>4, <1>8, <2>3, <2>7, <2>8 DEF TakesUp
  <2>13. PICK S : S = {l \in Incoming : \E u \in H : box[u] = l}
    OBVIOUS
  <2>12. tries' = [l \in Incoming |-> IF l \in S THEN Note(tries[l]) ELSE tries[l]]
    BY <1>7, <2>3, <2>13
  <2>14. i.at = "old" /\ ~i.snap.done /\ UNCHANGED <<box, validity, came, cursor, archive, peril>>
    BY <1>1, <1>7, <2>1
  <2>15. k.snap = i.snap /\ k.at = "takeOld" /\ k.todo = s
    BY <2>8
  <2> QED BY <2>1, <2>9, <2>10, <2>11, <2>12, <2>14, <2>15, PortionKeeps
<1> QED BY ZenonT(60), <1>2, <1>5, <1>6, <1>7

-----------------------------------------------------------------------------
(* The history: the border *)

LEMMA SaveBorderKeeps ==
  ASSUME FetchInv, SaveBorder
  PROVE  FetchInv'
<1>0. "pass" \in Proc /\ FetchTyped /\ cursor \in CursorRec
  BY DEF Proc, FetchInv, FetchTyped
<1>1. PICK j \in JobRec : j = job["pass"]
  BY <1>0 DEF FetchTyped
<1>2. /\ j.at = "takeOld" /\ job' = [job EXCEPT !["pass"] = Rest]
      /\ cursor' = IF j.oldest = 0 THEN cursor ELSE [cursor EXCEPT !.from = j.oldest + 1]
      /\ j.oldest # 0 /\ (j.bad \/ j.todo # <<>> \/ Disordered) => "border" \in peril'
      /\ peril \subseteq peril' /\ UNCHANGED <<box, validity, came, archive, tries>>
  BY <1>1 DEF SaveBorder
<1>3. CASE j.oldest = 0
  <2>1. FetchInv /\ FetchTyped' /\ Stays /\ SameWindow
    <3>1. job' \in [Proc -> JobRec]
      BY <1>0, <1>2, RestIs, JobIs
    <3>2. cursor' = cursor /\ cursor.from \in Nat
      BY <1>0, <1>2, <1>3 DEF CursorRec
    <3>3. FetchTyped'
      BY <1>0, <1>2, <3>1, <3>2 DEF FetchTyped
    <3>4. Kept
      BY <1>2 DEF Kept, There, Handled
    <3>5. SameWindow /\ cursor'.from <= cursor.from
      BY <3>2 DEF SameWindow
    <3>6. Stays
      BY <1>2, <3>2, <3>4, <3>5 DEF Stays
    <3> QED BY <3>3, <3>5, <3>6
  <2>2. cursor' = cursor
    BY <1>2, <1>3
  <2>3. WindowKept
    BY <1>0, <2>1, SameWindowKeeps DEF Stays
  <2>4. PICK r \in JobRec : r = Rest
    BY RestIs
  <2>5. r = job'["pass"] /\ \A q \in Proc : q # "pass" => job'[q] = job[q]
    BY <1>0, <1>2, <2>4, JobIs
  <2>6. Fits(r)' /\ ReadAll(r)' /\ OldSound(r)' /\ NewSound(r)'
    <3>1. r.at = "idle" /\ Len(r.todo) = 0 /\ r.snap.lastUid = 0 /\ Len(box) \in Nat
      BY <1>0, <2>4, RestIs, UidsAre
    <3> QED BY <1>2, <3>1 DEF Fits, ReadAll, OldSound, NewSound
  <2>7. ASSUME Unharmed' PROVE Read => UpTo(cursor.lastUid)'
    <3>1. Unharmed /\ \A v \in Uids' : v \in Uids /\ (Settled(v) => Settled(v)')
      BY <1>0, <2>1, <2>3, <2>7, SettledStays
    <3>2. Read => UpTo(cursor.lastUid)
      BY <3>1 DEF FetchInv
    <3> QED BY <2>2, <3>1, <3>2 DEF UpTo
  <2>8. Read => cursor'.lastUid <= Len(box)
    BY <2>2 DEF FetchInv
  <2> QED BY <1>0, <2>1, <2>3, <2>5, <2>6, <2>7, <2>8, StepKeeps
<1>4. CASE j.oldest # 0
  <2>1. ReadAll(j) /\ OldSound(j)
    BY <1>0, <1>1 DEF FetchInv
  <2>2. j.oldest \in Nat /\ j.oldest < cursor.from /\ cursor.from \in Nat /\ ~j.snap.done /\ cursor.done = j.snap.done
    BY <1>0, <1>2, <1>4, <2>1 DEF OldSound, ReadAll, JobRec, CursorRec
  <2>3. /\ cursor' \in CursorRec /\ cursor'.made = cursor.made /\ cursor'.validity = cursor.validity
        /\ cursor'.lastUid = cursor.lastUid /\ cursor'.done = cursor.done
        /\ cursor'.from = j.oldest + 1 /\ cursor'.from <= cursor.from
    <3>1. PICK n \in Nat : n = j.oldest + 1
      BY <2>2
    <3>2. cursor' = [cursor EXCEPT !.from = n]
      BY <1>2, <1>4, <3>1
    <3>3. n <= cursor.from
      BY <2>2, <3>1
    <3> QED BY <1>0, <3>1, <3>2, <3>3 DEF CursorRec
  <2>4. PICK r \in JobRec : r = Rest
    BY RestIs
  <2>5. job' \in [Proc -> JobRec] /\ r = job'["pass"] /\ \A q \in Proc : q # "pass" => job'[q] = job[q]
    BY <1>0, <1>2, <2>4, JobIs
  <2>6. FetchTyped'
    BY <1>0, <1>2, <2>3, <2>5 DEF FetchTyped
  <2>7. Stays
    BY <1>2, <2>3 DEF Stays, Kept, There, Handled
  <2>8. WindowKept
    <3> SUFFICES ASSUME Unharmed', NEW u \in Uids, Ahead(u) PROVE Settled(u)'
      BY DEF WindowKept
    <3>1. ~j.bad /\ j.todo = <<>> /\ ~Disordered
      <4>1. "border" \notin peril'
        BY DEF Unharmed
      <4> QED BY <1>2, <1>4, <4>1
    <3>2. Day[box[u]] < cursor.from /\ Day[box[u]] \in Nat
      BY <1>0, UidsAre, NumbersIs DEF Ahead
    <3>3. Handled(u) \/ InHand(j, u) \/ Older(j, u)
      BY <1>2, <2>1, <3>1, <3>2 DEF OldSound
    <3>4. ~InHand(j, u)
      BY <3>1 DEF InHand
    <3>5. Handled(u) => Handled(u)'
      BY <1>2 DEF Handled
    <3>6. ASSUME Older(j, u) PROVE Ahead(u)'
      <4>1. Day[box[u]] <= j.oldest
        BY <1>4, <3>6 DEF Older
      <4>2. Day[box[u]] < j.oldest + 1
        BY <2>2, <3>2, <4>1
      <4> QED BY <1>2, <2>2, <2>3, <4>2 DEF Ahead
    <3> QED BY <3>3, <3>4, <3>5, <3>6 DEF Settled
  <2>9. Fits(r)' /\ ReadAll(r)' /\ OldSound(r)' /\ NewSound(r)'
    <3>1. r.at = "idle" /\ Len(r.todo) = 0 /\ r.snap.lastUid = 0 /\ Len(box) \in Nat
      BY <1>0, <2>4, RestIs, UidsAre
    <3> QED BY <1>2, <3>1 DEF Fits, ReadAll, OldSound, NewSound
  <2>10. ASSUME Unharmed' PROVE Read => UpTo(cursor.lastUid)'
    <3>1. Unharmed /\ \A v \in Uids' : v \in Uids /\ (Settled(v) => Settled(v)')
      BY <1>0, <2>6, <2>7, <2>8, <2>10, SettledStays
    <3>2. Read => UpTo(cursor.lastUid)
      BY <3>1 DEF FetchInv
    <3> QED BY <2>3, <3>1, <3>2 DEF UpTo
  <2>11. Read => cursor'.lastUid <= Len(box)
    BY <2>3 DEF FetchInv
  <2> QED BY <1>0, <2>5, <2>6, <2>7, <2>8, <2>9, <2>10, <2>11, StepKeeps
<1> QED BY <1>3, <1>4

-----------------------------------------------------------------------------
(* Stopping, starting again, and the theorem *)

LEMMA RestartKeeps ==
  ASSUME FetchInv, Restart
  PROVE  FetchInv'
<1>0. FetchTyped
  BY DEF FetchInv
<1>1. job' = [p \in Proc |-> Rest] /\ UNCHANGED <<box, validity, came, cursor, archive, tries, peril>>
  BY DEF Restart
<1>2. ASSUME NEW p \in Proc PROVE Fits(job[p])' /\ ReadAll(job[p])' /\ OldSound(job[p])' /\ NewSound(job[p])'
  <2>1. job'[p] = Rest /\ Rest.at = "idle" /\ Len(Rest.todo) = 0 /\ Rest.snap.lastUid = 0 /\ Len(box) \in Nat
    BY <1>0, <1>1, RestIs, UidsAre
  <2> QED BY <1>1, <2>1 DEF Fits, ReadAll, OldSound, NewSound
<1>3. FetchTyped'
  <2>1. job' \in [Proc -> JobRec]
    BY <1>1, RestIs
  <2> QED BY <1>0, <1>1, <2>1 DEF FetchTyped
<1>4. InOrder' /\ DayCame' /\ cursor'.validity <= validity' /\ (Read' => cursor'.lastUid <= Len(box'))
  BY <1>1 DEF FetchInv, InOrder, DayCame, Read, Uids
<1>5. Unharmed' => (Read' => UpTo(cursor.lastUid)')
  BY <1>1 DEF FetchInv, Unharmed, Read, UpTo, Settled, Handled, Ahead, Uids
<1> QED BY <1>2, <1>3, <1>4, <1>5 DEF FetchInv, Proc

LEMMA UnmovedKeeps ==
  ASSUME FetchInv, UNCHANGED <<box, validity, came, cursor, archive, tries, job, peril>>
  PROVE  FetchInv'
<1>1. FetchTyped' /\ InOrder' /\ DayCame' /\ cursor'.validity <= validity' /\ (Read' => cursor'.lastUid <= Len(box'))
  BY DEF FetchInv, FetchTyped, InOrder, DayCame, Read, Uids
<1>2. \A p \in Proc : Fits(job[p])'
  BY DEF FetchInv, Fits, Read
<1>3. ReadAll(job["pass"])' /\ OldSound(job["pass"])'
  BY DEF FetchInv, ReadAll, OldSound, There, Uids, Handled, InHand, Older, Disordered
<1>4. Unharmed' => (Read' => UpTo(cursor.lastUid)') /\ \A p \in Proc : NewSound(job[p])'
  BY DEF FetchInv, Unharmed, Read, UpTo, Settled, Handled, Ahead, Uids, NewSound, There, Before
<1> QED BY <1>1, <1>2, <1>3, <1>4 DEF FetchInv

LEMMA FetchStarts == FetchInit => FetchInv
<1> SUFFICES ASSUME FetchInit PROVE FetchInv
  OBVIOUS
<1>1. /\ box = [u \in 1..First |-> u] /\ came = First /\ validity = 0 /\ cursor = Last1
      /\ archive = [l \in Incoming |-> <<>>] /\ tries = [l \in Incoming |-> 0] /\ job = [p \in Proc |-> Rest]
  BY DEF FetchInit
<1>2. First \in Nat /\ MaxTries \in Nat /\ 1..First \subseteq Incoming
  BY NumbersIs, FetchAssumption
<1>3. box \in Seq(Incoming \cup {Gone}) /\ Len(box) = First
  <2>1. box \in [1..First -> Incoming \cup {Gone}]
    BY <1>1, <1>2
  <2> QED BY <1>1, <1>2, <2>1
<1>4. FetchTyped
  <2>1. cursor \in CursorRec
    BY <1>1 DEF Last1, CursorRec
  <2>2. archive \in [Incoming -> Place] /\ tries \in [Incoming -> 0..MaxTries] /\ job \in [Proc -> JobRec]
    BY <1>1, <1>2, RestIs DEF Place
  <2> QED BY <1>1, <1>2, <1>3, <2>1, <2>2 DEF FetchTyped
<1>5. ~Read /\ cursor.validity <= validity
  BY <1>1 DEF Read, Last1
<1>6. InOrder
  <2>1. \A u \in Uids : u \in 1..First /\ box[u] = u
    BY <1>1, <1>3 DEF Uids
  <2> QED BY <1>1, <2>1 DEF InOrder
<1>7. ASSUME NEW p \in Proc PROVE Fits(job[p]) /\ ReadAll(job[p]) /\ OldSound(job[p]) /\ NewSound(job[p])
  <2>1. job[p] = Rest
    BY <1>1
  <2> QED BY <1>4, <2>1, RestSound
<1> QED BY <1>4, <1>5, <1>6, <1>7 DEF FetchInv, DayCame, Proc

LEMMA FetchNextKeeps == FetchInv /\ [FetchNext]_fetchVars => FetchInv'
<1> SUFFICES ASSUME FetchInv, [FetchNext]_fetchVars PROVE FetchInv'
  OBVIOUS
<1>1. CASE Arrive
  BY <1>1, ArriveKeeps
<1>2. CASE NewValidity
  BY <1>2, NewValidityKeeps
<1>3. CASE Stop \/ UNCHANGED fetchVars
  BY <1>3, UnmovedKeeps DEF Stop, fetchVars
<1>4. CASE Restart
  BY <1>4, RestartKeeps
<1>5. CASE \E u \in 1..Len(box) : Vanish(u)
  BY <1>5, VanishKeeps
<1>6. CASE StartPass \/ StartFresh
  BY <1>6, StartKeeps
<1>7. CASE BeginPass
  BY <1>7, BeginPassKeeps
<1>8. CASE ListOld
  BY <1>8, ListOldKeeps
<1>9. CASE TakeOld
  BY <1>9, TakeOldKeeps
<1>10. CASE SaveBorder
  BY <1>10, SaveBorderKeeps
<1>11. ASSUME NEW p \in Proc, Steps(p) \/ Break(p) PROVE FetchInv'
  BY <1>11, ListNewKeeps, PassByKeeps, TakeNewKeeps, MarkNewKeeps, DoneNewKeeps, BreakKeeps DEF Steps
<1> QED BY <1>1, <1>2, <1>3, <1>4, <1>5, <1>6, <1>7, <1>8, <1>9, <1>10, <1>11 DEF FetchNext

\* Whatever paths run at once, break or stop, no letter that neither the cursor nor the history will meet again is
\* left out of the archive, unless the cursor jumped over it, it was stored behind an oversized letter, or the border
\* moved after a portion that was broken, failed or out of order (fetchNew, backfill).
THEOREM FetchSlipsOnlyInPeril == FetchSpec => []SlipsOnlyInPeril
<1>1. FetchSpec => []FetchInv
  BY FetchStarts, FetchNextKeeps, PTL DEF FetchSpec
<1> QED BY <1>1, FetchInvIsEnough, PTL

-----------------------------------------------------------------------------
(***************************************************************************)
(* The archive. A row may stand for a letter that is not its own only when *)
(* its own is one we sent and both carry one Message-ID.                   *)
(***************************************************************************)
Messages == DOMAIN MessageId
Bears(m, l) == MessageId[l] = MessageId[m] /\ (l = m \/ m \in Ours)
Placed(at, m) ==
  /\ at[2] = MessageId[m] \/ (at[2] \in Messages /\ Bears(m, at[2]))
  /\ at[1] = "local:sent" => m \in Ours

\* What the code takes for granted: letters of one Message-ID and one length are the same.
Measured == \A n \in DOMAIN Accounts : LET a == Accounts[n] IN
              \A l, m \in DOMAIN a.mid : a.mid[l] = a.mid[m] /\ a.size[l] = a.size[m] => l = m

AMessage(r) ==
  /\ DOMAIN rows[r] = {"letter", "at", "gm", "binned", "parts"}
  /\ r \in Nat /\ r # 0 /\ r <= made
  /\ rows[r].letter \in Messages /\ Placed(rows[r].at, rows[r].letter)
  /\ \A x \in rows[r].gm : x \in Messages /\ Bears(rows[r].letter, x)

AnIngest(i) ==
  /\ DOMAIN i = {"pc", "copy", "letter", "at", "row", "part", "todo", "name"}
  /\ i.pc \in {"meet", "put", "asset", "row", "parts", "file", "link"}
  /\ i.copy \in Copy /\ i.letter \in Messages /\ i.copy.letter \in Messages
  /\ Bears(i.letter, i.copy.letter) /\ Placed(i.at, i.letter)
  /\ i.row = 0 => i.pc \in {"put", "asset", "row"} /\ i.part = 0 /\ i.letter = i.copy.letter
  /\ i.row # 0 => i.pc # "row" /\ (i.pc \in {"put", "asset", "file", "link"} => i.part # 0)
  /\ 0 \notin i.todo

\* The row an ingest is at is the letter's, unless the owner removed it.
Sits(i) ==
  i.row # 0 => /\ i.row \in Nat /\ i.row <= made
               /\ IF i.row \in Archived THEN rows[i.row].letter = i.letter ELSE i.letter \in removed

BoxTyped ==
  /\ account \in DOMAIN Accounts /\ made \in Nat /\ DOMAIN ingests = Worker
  /\ \A r \in Archived : AMessage(r)
  /\ \A w \in Worker : ingests[w] = Idle \/ (AnIngest(ingests[w]) /\ Sits(ingests[w]))

Spoken(l) == l \in removed \/ (\E r \in Archived : rows[r].letter = l) \/ \E o \in Ours \ {l} : MessageId[o] = MessageId[l]
Answered == \A l \in answered : Spoken(l)

\* A letter whose Message-ID no other letter carries has one row, or is about to, unless two ingests were at it.
Solo(l)  == l \in Messages /\ \A m \in Messages : MessageId[m] = MessageId[l] => m = l
Alone(l) == Solo(l) /\ l \notin overlapped
One ==
  /\ \A r, q \in Archived : r # q /\ rows[r].letter = rows[q].letter => ~Alone(rows[r].letter)
  /\ \A v, w \in Worker : v # w /\ ingests[v] # Idle /\ ingests[w] # Idle /\ ingests[v].letter = ingests[w].letter
       => ~Alone(ingests[w].letter)
  /\ \A w \in Worker : ingests[w] # Idle /\ ingests[w].row = 0 /\ Alone(ingests[w].letter)
       => \A r \in Archived : rows[r].letter # ingests[w].letter

\* An asset has its object; what a purge is about to delete has no asset, and nobody is about to make one.
Stored ==
  /\ Referred \subseteq assets /\ assets \subseteq objects \cup stepped
  /\ \A w \in Worker : ingests[w].pc = "asset" => Bytes(w) \in objects \cup stepped
  /\ purge = Quiet \/ DOMAIN purge = {"stage", "ids", "names", "bytes"}
  /\ purge.stage = "objects" =>
       \A b \in purge.bytes \ stepped : b \notin assets /\ \A w \in Worker : ingests[w].pc = "asset" => Bytes(w) # b

BoxInv == BoxTyped /\ Answered /\ One /\ Stored

LEMMA BoxStarts == BInit => BoxInv
<1> SUFFICES ASSUME BInit PROVE BoxInv
  OBVIOUS
<1>1. Archived = {} /\ made = 0 /\ files = {}
  BY DEF BInit, Archived
<1>2. BoxTyped
  <2>1. account \in DOMAIN Accounts /\ DOMAIN ingests = Worker /\ \A w \in Worker : ingests[w] = Idle
    BY DEF BInit
  <2> QED BY <1>1, <2>1 DEF BoxTyped
<1>3. Answered /\ One
  BY <1>1 DEF BInit, Answered, One
<1>4. Stored
  BY <1>1 DEF BInit, Stored, Referred, Idle, Quiet
<1> QED BY <1>2, <1>3, <1>4 DEF BoxInv

LEMMA TheAccount ==
  ASSUME account \in DOMAIN Accounts
  PROVE  /\ \A c \in Copy : c.letter \in Messages
         /\ Ours \subseteq Messages
         /\ \A l, m \in Messages : MessageId[l] # m
         /\ Measured => \A l, m \in Messages : MessageId[l] = MessageId[m] /\ Size[l] = Size[m] => l = m
  BY BoxAssumption DEF BoxAssumption, Copy, Ours, Messages, MessageId, Size, Account, Measured

LEMMA SameAccount ==
  ASSUME account' = account
  PROVE  /\ Account' = Account /\ Copy' = Copy /\ Ours' = Ours /\ MessageId' = MessageId /\ Messages' = Messages /\ Size' = Size
         /\ Parts' = Parts /\ AtGmail' = AtGmail /\ Worker' = Worker
         /\ \A m, l : Bears(m, l)' = Bears(m, l) /\ Placed(l, m)' = Placed(l, m) /\ AnIngest(m)' = AnIngest(m)
         /\ \A l : Solo(l)' = Solo(l)
  BY DEF Account, Copy, Ours, MessageId, Messages, Size, Parts, AtGmail, Worker, Bears, Placed, AnIngest, Solo

(* What a step leaves alone: the letters of the rows. *)
LettersStay == Archived' = Archived /\ (\A r \in Archived : rows'[r].letter = rows[r].letter) /\ made' = made /\ removed' = removed

(* One ingest turns into another; the others stay.                         *)
Turns(w, n) == DOMAIN ingests' = Worker /\ ingests'[w] = n /\ \A v \in Worker \ {w} : ingests'[v] = ingests[v]

(* An ingest that goes on is at the letter and the row it was at.          *)
GoesOn(i, n) == i # Idle /\ n # Idle /\ n.letter = i.letter /\ n.row = i.row

LEMMA NotIdle ==
  ASSUME BoxTyped, NEW w \in Worker
  PROVE  (ingests[w].pc = "idle" <=> ingests[w] = Idle) /\ (ingests[w] # Idle => AnIngest(ingests[w]) /\ Sits(ingests[w]))
BY DEF BoxTyped, Idle, AnIngest

LEMMA OneOnward ==
  ASSUME BoxInv, account' = account, LettersStay, overlapped' = overlapped, NEW w \in Worker, NEW n,
         Turns(w, n), n = Idle \/ GoesOn(ingests[w], n)
  PROVE  One'
<1>1. ingests'[w] = n /\ (\A v \in Worker \ {w} : ingests'[v] = ingests[v])
  BY DEF Turns
<1>2. \A v \in Worker : ingests'[v] # Idle => ingests[v] # Idle /\ ingests'[v].letter = ingests[v].letter /\ ingests'[v].row = ingests[v].row
  BY <1>1 DEF GoesOn
<1>3. Archived' = Archived /\ Worker' = Worker /\ (\A r \in Archived : rows'[r].letter = rows[r].letter) /\ \A l : Alone(l)' = Alone(l)
  BY SameAccount DEF LettersStay, Alone
<1> QED BY <1>2, <1>3 DEF One, BoxInv

LEMMA AnsweredOnward ==
  ASSUME BoxInv, account' = account, LettersStay, NEW S, answered' \subseteq answered \cup S, \A l \in S : Spoken(l)
  PROVE  Answered'
<1>1. \A l : Spoken(l) => Spoken(l)'
  BY SameAccount DEF LettersStay, Spoken
<1> QED BY <1>1 DEF Answered, BoxInv

(* An ingest may answer for the letter it came with once it is at a row.   *)
LEMMA MayAnswer ==
  ASSUME BoxInv, NEW w \in Worker, ingests[w] # Idle, ingests[w].row # 0
  PROVE  Spoken(ingests[w].copy.letter)
<1>1. AnIngest(ingests[w]) /\ Sits(ingests[w])
  BY NotIdle DEF BoxInv
<1> QED BY <1>1 DEF AnIngest, Sits, Bears, Spoken

LEMMA StoredOnward ==
  ASSUME BoxInv, account' = account, Archived' = Archived, \A r \in Archived : rows'[r].letter = rows[r].letter,
         UNCHANGED <<files, assets, objects, purge, stepped>>, NEW w \in Worker, NEW n, Turns(w, n),
         n.pc # "asset"
  PROVE  Stored'
<1>1. ingests'[w] = n /\ (\A v \in Worker \ {w} : ingests'[v] = ingests[v]) /\ Worker' = Worker
  BY SameAccount DEF Turns
<1>2. Referred' = Referred
  BY SameAccount DEF Referred
<1>3. \A v \in Worker : ingests'[v].pc = "asset" => ingests[v].pc = "asset" /\ Bytes(v)' = Bytes(v)
  BY <1>1, SameAccount DEF Bytes
<1> QED BY <1>1, <1>2, <1>3 DEF Stored, BoxInv

LEMMA TypedOnward ==
  ASSUME BoxInv, account' = account, LettersStay, NEW w \in Worker, NEW n, Turns(w, n),
         n = Idle \/ (GoesOn(ingests[w], n) /\ AnIngest(n)), \A r \in Archived : AMessage(r)'
  PROVE  BoxTyped'
<1>1. ingests'[w] = n /\ (\A v \in Worker \ {w} : ingests'[v] = ingests[v]) /\ DOMAIN ingests' = Worker
  BY DEF Turns
<1>2. Worker' = Worker /\ Archived' = Archived /\ account' \in DOMAIN Accounts /\ made' \in Nat
  BY SameAccount DEF BoxInv, BoxTyped, LettersStay
<1>3. \A i : Sits(i) => Sits(i)'
  BY DEF Sits, LettersStay
<1>4. \A v \in Worker : ingests[v] = Idle \/ (AnIngest(ingests[v]) /\ Sits(ingests[v]))
  BY DEF BoxInv, BoxTyped
<1>5. \A i : AnIngest(i)' = AnIngest(i)
  BY SameAccount
<1>6. n # Idle => Sits(n)
  BY <1>4 DEF GoesOn, Sits
<1>7. \A v \in Worker : ingests'[v] = Idle \/ (AnIngest(ingests[v])' /\ Sits(ingests[v])')
  <2> SUFFICES ASSUME NEW v \in Worker, ingests'[v] # Idle PROVE AnIngest(ingests[v])' /\ Sits(ingests[v])'
    OBVIOUS
  <2>1. PICK m : m = ingests'[v]
    OBVIOUS
  <2>2. AnIngest(m) /\ Sits(m)
    BY <1>1, <1>4, <1>6, <2>1
  <2>3. AnIngest(m)' /\ Sits(m)'
    BY <1>3, <1>5, <2>2
  <2> QED BY <2>1, <2>3
<1> QED BY <1>1, <1>2, <1>7 DEF BoxTyped

(* A row keeps its letter while its place, its bin or its parts change.    *)
LEMMA RowsStay ==
  ASSUME BoxInv, account' = account, made' = made, rows' = rows
  PROVE  \A r \in Archived : AMessage(r)'
<1>1. SUFFICES ASSUME NEW r \in Archived PROVE AMessage(r)'
  OBVIOUS
<1>2. AMessage(r)
  BY DEF BoxInv, BoxTyped
<1> QED BY <1>2, SameAccount DEF AMessage

-----------------------------------------------------------------------------
(* The steps of an ingest *)
LEMMA Ended ==
  ASSUME BoxInv, NEW w \in Worker, Ends(w)
  PROVE  Turns(w, Idle)
BY DEF BoxInv, BoxTyped, Ends, Turns

LEMMA Passed ==
  ASSUME BoxInv, NEW w \in Worker, NEW p \in {"parts", "asset", "file", "link", "row"}, ingests[w] # Idle,
         ingests' = [ingests EXCEPT ![w].pc = p] \/ \E x : ingests' = [ingests EXCEPT ![w].pc = p, ![w].name = x],
         ingests[w].row = 0 => p \in {"asset", "row"}, ingests[w].row # 0 => p # "row", ingests[w].pc # "parts" \/ p = "parts",
         ingests[w].pc = "meet" => p = "parts"
  PROVE  \E n : Turns(w, n) /\ GoesOn(ingests[w], n) /\ AnIngest(n) /\ n.pc = p /\ n.part = ingests[w].part
<1>1. AnIngest(ingests[w]) /\ DOMAIN ingests = Worker
  BY NotIdle DEF BoxInv, BoxTyped
<1> DEFINE i == ingests[w]
           n == ingests'[w]
<1>2. /\ DOMAIN n = DOMAIN i /\ n.pc = p /\ n.copy = i.copy /\ n.letter = i.letter /\ n.at = i.at /\ n.row = i.row
      /\ n.part = i.part /\ n.todo = i.todo
  BY <1>1 DEF AnIngest
<1>3. DOMAIN ingests' = Worker /\ \A v \in Worker \ {w} : ingests'[v] = ingests[v]
  BY <1>1
<1> HIDE DEF i, n
<1>4. AnIngest(i) /\ i.pc # "idle"
  BY <1>1 DEF i, AnIngest
<1>5. AnIngest(n) /\ n # Idle
  BY <1>2, <1>4 DEF AnIngest, Idle, i
<1>6. Turns(w, n)
  BY <1>3 DEF Turns, n
<1> QED BY <1>2, <1>5, <1>6 DEF GoesOn, i

LEMMA ToNextPart ==
  ASSUME BoxInv, NEW w \in Worker, NEW todo, 0 \notin todo, NextPart(w, todo), ingests[w] # Idle, ingests[w].row # 0
  PROVE  \E n : Turns(w, n) /\ (n = Idle \/ (GoesOn(ingests[w], n) /\ AnIngest(n))) /\ n.pc \in {"idle", "put"}
<1>1. CASE todo = {}
  <2>1. Turns(w, Idle) /\ Idle.pc = "idle"
    BY <1>1, Ended DEF NextPart, Idle
  <2> QED BY <2>1
<1>2. CASE todo # {}
  <2>1. AnIngest(ingests[w]) /\ DOMAIN ingests = Worker
    BY NotIdle DEF BoxInv, BoxTyped
  <2>2. PICK p \in todo : ingests' = [ingests EXCEPT ![w].pc = "put", ![w].part = p, ![w].todo = todo \ {p}, ![w].name = <<>>]
    BY <1>2 DEF NextPart
  <2> DEFINE i == ingests[w]
             n == ingests'[w]
  <2>3. /\ DOMAIN n = DOMAIN i /\ n.pc = "put" /\ n.copy = i.copy /\ n.letter = i.letter /\ n.at = i.at /\ n.row = i.row
        /\ n.part = p /\ n.todo = todo \ {p}
    BY <2>1, <2>2 DEF AnIngest
  <2>4. DOMAIN ingests' = Worker /\ \A v \in Worker \ {w} : ingests'[v] = ingests[v]
    BY <2>1, <2>2
  <2> HIDE DEF i, n
  <2>5. AnIngest(i) /\ i.row # 0 /\ p # 0 /\ 0 \notin todo \ {p}
    BY <2>1 DEF i
  <2>6. AnIngest(n) /\ n # Idle
    BY <2>3, <2>5 DEF AnIngest, Idle
  <2>7. Turns(w, n)
    BY <2>4 DEF Turns, n
  <2> QED BY <2>3, <2>6, <2>7 DEF GoesOn, i
<1> QED BY <1>1, <1>2

(* An ingest turns, no row changes its letter, nothing becomes of the      *)
(* bytes: the invariant stays.                                             *)
LEMMA Onward ==
  ASSUME BoxInv, account' = account, LettersStay, UNCHANGED <<overlapped, files, assets, objects, purge, stepped>>,
         NEW w \in Worker, NEW n, Turns(w, n), n = Idle \/ (GoesOn(ingests[w], n) /\ AnIngest(n)), n.pc # "asset",
         \A r \in Archived : AMessage(r)',
         answered' = answered \/ (ingests[w] # Idle /\ ingests[w].row # 0 /\ answered' = answered \cup {ingests[w].copy.letter})
  PROVE  BoxInv'
<1>1. BoxTyped' /\ One'
  BY TypedOnward, OneOnward
<1>3. Answered'
  <2>1. CASE answered' = answered
    <3>1. PICK S : S = {}
      OBVIOUS
    <3>2. answered' \subseteq answered \cup S /\ \A l \in S : Spoken(l)
      BY <2>1, <3>1
    <3> QED BY <3>2, AnsweredOnward
  <2>2. CASE answered' # answered
    <3>1. PICK S : S = {ingests[w].copy.letter}
      OBVIOUS
    <3>2. answered' \subseteq answered \cup S /\ \A l \in S : Spoken(l)
      BY <2>2, <3>1, MayAnswer
    <3> QED BY <3>2, AnsweredOnward
  <2> QED BY <2>1, <2>2
<1>2. Stored'
  BY StoredOnward DEF LettersStay
<1> QED BY <1>1, <1>2, <1>3 DEF BoxInv

LEMMA MeetStep ==
  ASSUME BoxInv, account' = account, NEW w \in Worker, Meet(w)
  PROVE  BoxInv'
<1> DEFINE me    == ingests[w]
           moved == me.name = <<"moved">>
<1>1. /\ me.pc = "meet" /\ UNCHANGED <<made, files, assets, objects, purge, removed, overlapped, stepped>>
  BY DEF Meet
<1>2. me # Idle /\ AnIngest(me) /\ Sits(me) /\ me.row # 0 /\ Idle.pc = "idle"
  BY <1>1, NotIdle DEF BoxInv, AnIngest, Idle
<1>4. LettersStay /\ \A r \in Archived : AMessage(r)'
  <2>1. CASE rows' = rows
    BY <1>1, <2>1, RowsStay DEF LettersStay, Archived
  <2>2. CASE rows' # rows
    <3>1. /\ me.row \in Archived
          /\ rows' = [rows EXCEPT ![me.row].at = me.at, ![me.row].gm = @ \cup StrongId(me.copy)]
      BY <2>2 DEF Meet
    <3>2. \A r \in Archived : AMessage(r)
      BY DEF BoxInv, BoxTyped
    <3>3. /\ DOMAIN rows'[me.row] = DOMAIN rows[me.row] /\ rows'[me.row].letter = rows[me.row].letter
          /\ rows'[me.row].at = me.at /\ rows'[me.row].gm = rows[me.row].gm \cup StrongId(me.copy)
          /\ Archived' = Archived /\ \A r \in Archived \ {me.row} : rows'[r] = rows[r]
      BY <3>1, <3>2 DEF AMessage, Archived
    <3>4. rows[me.row].letter = me.letter
      BY <1>2, <3>1 DEF Sits
    <3>5. \A k \in Archived : k = me.row => AMessage(k)'
      <4>1. \A x \in rows'[me.row].gm : x \in Messages /\ Bears(me.letter, x)
        BY <1>2, <3>1, <3>2, <3>3, <3>4 DEF AMessage, AnIngest, StrongId
      <4>2. Placed(rows'[me.row].at, me.letter) /\ me.letter \in Messages
        BY <1>2, <3>3 DEF AnIngest
      <4> HIDE DEF me
      <4>3. SUFFICES ASSUME NEW k \in Archived, k = me.row PROVE AMessage(k)'
        OBVIOUS
      <4>4. rows'[k].letter = me.letter /\ DOMAIN rows'[k] = {"letter", "at", "gm", "binned", "parts"} /\ k \in Nat /\ k # 0 /\ k <= made
        BY <3>2, <3>3, <3>4, <4>3 DEF AMessage
      <4>5. Placed(rows'[k].at, rows'[k].letter) /\ rows'[k].letter \in Messages
        BY <4>2, <4>3, <4>4
      <4>6. \A x \in rows'[k].gm : x \in Messages /\ Bears(rows'[k].letter, x)
        BY <4>1, <4>3, <4>4
      <4>7. Placed(rows[k].at, rows[k].letter)' /\ (rows[k].letter \in Messages)'
            /\ (\A x \in rows[k].gm : x \in Messages /\ Bears(rows[k].letter, x))'
        BY <4>5, <4>6, SameAccount
      <4>8. AMessage(k)'
        BY <1>1, <4>4, <4>7 DEF AMessage
      <4> QED BY <4>8
    <3>6. \A r \in Archived \ {me.row} : AMessage(r)'
      BY <1>1, <3>2, <3>3, SameAccount DEF AMessage
    <3> QED BY <1>1, <3>3, <3>5, <3>6 DEF LettersStay
  <2> QED BY <2>1, <2>2
<1>5. CASE Ends(w) /\ (answered' = answered \/ answered' = answered \cup {me.copy.letter})
  <2>1. Turns(w, Idle) /\ Idle.pc # "asset"
    BY <1>2, <1>5, Ended
  <2> HIDE DEF Idle
  <2> QED BY <1>1, <1>2, <1>4, <1>5, <2>1, Onward
<1>6. CASE ingests' = [ingests EXCEPT ![w].pc = "parts"] /\ answered' = answered
  <2>1. PICK n : Turns(w, n) /\ GoesOn(me, n) /\ AnIngest(n) /\ n.pc = "parts"
    BY <1>1, <1>2, <1>6, Passed
  <2> QED BY <1>1, <1>4, <1>6, <2>1, Onward
<1>7. (Ends(w) /\ answered' = answered) \/ (Ends(w) /\ answered' = answered \cup {me.copy.letter})
      \/ (ingests' = [ingests EXCEPT ![w].pc = "parts"] /\ answered' = answered)
  BY DEF Meet, Answers
<1> QED BY <1>5, <1>6, <1>7

LEMMA RowsUnmoved ==
  ASSUME BoxInv, account' = account, UNCHANGED <<rows, made, removed>>
  PROVE  LettersStay /\ \A r \in Archived : AMessage(r)'
BY RowsStay DEF LettersStay, Archived

\* What an ingest stores is the letter's or a part's, whatever it does next.
LEMMA SameBytes ==
  ASSUME account' = account, NEW w \in Worker, ingests'[w].letter = ingests[w].letter, ingests'[w].part = ingests[w].part
  PROVE  Bytes(w)' = Bytes(w)
BY SameAccount DEF Bytes

LEMMA PutStep ==
  ASSUME BoxInv, account' = account, NEW w \in Worker, Put(w)
  PROVE  BoxInv'
<1>1. /\ ingests[w].pc = "put" /\ UNCHANGED <<rows, made, files, assets, purge, answered, removed, overlapped>>
      /\ objects' = objects \cup {Bytes(w)} /\ ingests' = [ingests EXCEPT ![w].pc = "asset"]
      /\ stepped \subseteq stepped' /\ (purge.stage = "objects" /\ Bytes(w) \in purge.bytes => Bytes(w) \in stepped')
  BY DEF Put
<1>2. ingests[w] # Idle /\ AnIngest(ingests[w])
  BY <1>1, NotIdle DEF BoxInv, Idle
<1>3. PICK n : Turns(w, n) /\ GoesOn(ingests[w], n) /\ AnIngest(n) /\ n.pc = "asset" /\ n.part = ingests[w].part
  BY <1>1, <1>2, Passed DEF AnIngest
<1>4. LettersStay /\ \A r \in Archived : AMessage(r)'
  BY <1>1, RowsUnmoved
<1>5. BoxTyped' /\ One'
  BY <1>1, <1>3, <1>4, TypedOnward, OneOnward
<1>6. Answered'
  BY <1>1, SameAccount DEF BoxInv, Answered, Spoken, Archived
<1>7. Stored'
  <2>1. ingests'[w] = n /\ (\A v \in Worker \ {w} : ingests'[v] = ingests[v]) /\ Worker' = Worker
    BY <1>3, SameAccount DEF Turns
  <2>2. Referred' = Referred
    BY <1>1, SameAccount DEF Referred, Archived
  <2>3. \A v \in Worker : ingests'[v].pc = "asset" => Bytes(v)' = Bytes(v) /\ (v = w \/ ingests[v].pc = "asset")
    BY <1>3, <2>1, SameBytes DEF GoesOn
  <2> QED BY <1>1, <2>1, <2>2, <2>3 DEF Stored, BoxInv
<1> QED BY <1>5, <1>6, <1>7 DEF BoxInv

LEMMA EnsureAssetStep ==
  ASSUME BoxInv, account' = account, NEW w \in Worker, EnsureAsset(w)
  PROVE  BoxInv'
<1>0. PICK p : p = IF ingests[w].part = 0 THEN "row" ELSE "file"
  OBVIOUS
<1>1. /\ ingests[w].pc = "asset" /\ UNCHANGED <<rows, made, files, objects, purge, answered, removed, overlapped, stepped>>
      /\ assets' = assets \cup {Bytes(w)} /\ ingests' = [ingests EXCEPT ![w].pc = p]
  BY <1>0 DEF EnsureAsset
<1>2. ingests[w] # Idle /\ AnIngest(ingests[w])
  BY <1>1, NotIdle DEF BoxInv, Idle
<1>3. p \in {"row", "file"} /\ (ingests[w].row = 0 => p = "row") /\ (ingests[w].row # 0 => p = "file")
  BY <1>0, <1>1, <1>2 DEF AnIngest
<1>4. PICK n : Turns(w, n) /\ GoesOn(ingests[w], n) /\ AnIngest(n) /\ n.pc = p
  <2>1. p \in {"parts", "asset", "file", "link", "row"} /\ (ingests[w].row = 0 => p \in {"asset", "row"}) /\ (ingests[w].row # 0 => p # "row")
        /\ ingests[w].pc # "parts" /\ ingests[w].pc # "meet" /\ ingests' = [ingests EXCEPT ![w].pc = p] /\ ingests[w] # Idle
    BY <1>1, <1>2, <1>3
  <2> QED BY <2>1, Passed
<1>5. LettersStay /\ \A r \in Archived : AMessage(r)'
  BY <1>1, RowsUnmoved
<1>6. BoxTyped' /\ One'
  BY <1>1, <1>4, <1>5, TypedOnward, OneOnward
<1>7. Answered'
  BY <1>1, SameAccount DEF BoxInv, Answered, Spoken, Archived
<1>8. Stored'
  <2>1. ingests'[w] = n /\ (\A v \in Worker \ {w} : ingests'[v] = ingests[v]) /\ Worker' = Worker /\ n.pc # "asset"
    BY <1>3, <1>4, SameAccount DEF Turns
  <2>2. Referred' = Referred
    BY <1>1, SameAccount DEF Referred, Archived
  <2>3. \A v \in Worker : ingests'[v].pc = "asset" => Bytes(v)' = Bytes(v) /\ ingests[v].pc = "asset"
    BY <2>1, SameBytes
  <2> QED BY <1>1, <2>1, <2>2, <2>3 DEF Stored, BoxInv
<1> QED BY <1>6, <1>7, <1>8 DEF BoxInv

LEMMA StoreAttachmentsStep ==
  ASSUME BoxInv, account' = account, NEW w \in Worker, StoreAttachments(w)
  PROVE  BoxInv'
<1>1. /\ ingests[w].pc = "parts"
      /\ UNCHANGED <<rows, made, files, assets, objects, purge, removed, overlapped, stepped>>
      /\ answered' = answered \/ answered' = answered \cup {ingests[w].copy.letter}
  BY DEF StoreAttachments
<1>2. PICK todo : 0 \notin todo /\ NextPart(w, todo)
  BY DEF StoreAttachments
<1>3. ingests[w] # Idle /\ AnIngest(ingests[w]) /\ ingests[w].row # 0
  BY <1>1, NotIdle DEF BoxInv, Idle, AnIngest
<1>4. PICK n : Turns(w, n) /\ (n = Idle \/ (GoesOn(ingests[w], n) /\ AnIngest(n))) /\ n.pc \in {"idle", "put"}
  BY <1>2, <1>3, ToNextPart
<1> QED BY <1>1, <1>3, <1>4, RowsUnmoved, Onward

LEMMA ResolveEntryStep ==
  ASSUME BoxInv, account' = account, NEW w \in Worker, ResolveEntry(w)
  PROVE  BoxInv'
<1> DEFINE me == ingests[w]
<1>1. me.pc = "file" /\ UNCHANGED <<rows, made, assets, objects, purge, answered, removed, overlapped, stepped>>
  BY DEF ResolveEntry
<1>2. me # Idle /\ AnIngest(me) /\ me.row # 0 /\ 0 \notin me.todo
  BY <1>1, NotIdle DEF BoxInv, Idle, AnIngest
<1>3. LettersStay /\ \A r \in Archived : AMessage(r)'
  BY <1>1, RowsUnmoved
<1>4. CASE NextPart(w, me.todo) /\ UNCHANGED files
  <2>1. PICK n : Turns(w, n) /\ (n = Idle \/ (GoesOn(me, n) /\ AnIngest(n))) /\ n.pc \in {"idle", "put"}
    BY <1>2, <1>4, ToNextPart
  <2> QED BY <1>1, <1>3, <1>4, <2>1, Onward
<1>5. CASE Ends(w) /\ UNCHANGED files
  <2>1. Turns(w, Idle) /\ Idle.pc # "asset"
    BY <1>5, Ended DEF Idle
  <2> HIDE DEF Idle
  <2> QED BY <1>1, <1>3, <1>5, <2>1, Onward
<1>6. ASSUME NEW x, ingests' = [ingests EXCEPT ![w].pc = "link", ![w].name = x],
             files' = files \/ \E y : files' = files \cup {[name |-> y, bytes |-> Bytes(w)]} /\ Bytes(w) \in assets
      PROVE  BoxInv'
  <2>1. PICK n : Turns(w, n) /\ GoesOn(me, n) /\ AnIngest(n) /\ n.pc = "link"
    BY <1>1, <1>2, <1>6, Passed
  <2>2. BoxTyped' /\ One'
    BY <1>1, <1>3, <2>1, TypedOnward, OneOnward
  <2>3. Answered'
    BY <1>1, SameAccount DEF BoxInv, Answered, Spoken, Archived
  <2>4. Stored'
    <3>1. ingests'[w] = n /\ (\A v \in Worker \ {w} : ingests'[v] = ingests[v]) /\ Worker' = Worker
      BY <2>1, SameAccount DEF Turns
    <3>2. Referred' \subseteq Referred \cup assets
      BY <1>1, <1>6, SameAccount DEF Referred, Archived
    <3>3. \A v \in Worker : ingests'[v].pc = "asset" => Bytes(v)' = Bytes(v) /\ ingests[v].pc = "asset"
      BY <2>1, <3>1, SameBytes
    <3> QED BY <1>1, <3>1, <3>2, <3>3 DEF Stored, BoxInv
  <2> QED BY <2>2, <2>3, <2>4 DEF BoxInv
<1> QED BY <1>4, <1>5, <1>6 DEF ResolveEntry

LEMMA LinkPartStep ==
  ASSUME BoxInv, account' = account, NEW w \in Worker, LinkPart(w)
  PROVE  BoxInv'
<1> DEFINE me == ingests[w]
<1>1. me.pc = "link" /\ UNCHANGED <<made, files, assets, objects, purge, removed, overlapped, stepped>>
  BY DEF LinkPart
<1>2. me # Idle /\ AnIngest(me) /\ me.row # 0 /\ 0 \notin me.todo
  BY <1>1, NotIdle DEF BoxInv, Idle, AnIngest
<1>3. CASE Ends(w) /\ UNCHANGED <<rows, answered>>
  <2>1. Turns(w, Idle) /\ Idle.pc # "asset"
    BY <1>3, Ended DEF Idle
  <2> HIDE DEF Idle
  <2> QED BY <1>1, <1>3, <2>1, RowsUnmoved, Onward
<1>4. ASSUME me.row \in Archived, NEW f, rows' = [rows EXCEPT ![me.row].parts = f], NextPart(w, me.todo),
             answered' = answered \/ answered' = answered \cup {me.copy.letter}
      PROVE  BoxInv'
  <2>1. PICK n : Turns(w, n) /\ (n = Idle \/ (GoesOn(me, n) /\ AnIngest(n))) /\ n.pc \in {"idle", "put"}
    BY <1>2, <1>4, ToNextPart
  <2>2. \A r \in Archived : AMessage(r)
    BY DEF BoxInv, BoxTyped
  <2>3. Archived' = Archived /\ \A r \in Archived :
          /\ DOMAIN rows'[r] = DOMAIN rows[r] /\ rows'[r].letter = rows[r].letter /\ rows'[r].at = rows[r].at
          /\ rows'[r].gm = rows[r].gm
    BY <1>4, <2>2 DEF AMessage, Archived
  <2>4. \A r \in Archived : AMessage(r)'
    BY <1>1, <2>2, <2>3, SameAccount DEF AMessage
  <2>5. LettersStay
    BY <1>1, <2>3 DEF LettersStay
  <2> QED BY <1>1, <1>2, <1>4, <2>1, <2>4, <2>5, Onward
<1> QED BY <1>3, <1>4 DEF LinkPart

LEMMA CreateRowStep ==
  ASSUME BoxInv, account' = account, NEW w \in Worker, CreateRow(w)
  PROVE  BoxInv'
<1>1. PICK me : me = ingests[w]
  OBVIOUS
<1>2. me.pc = "row" /\ UNCHANGED <<files, assets, objects, purge, removed, overlapped, stepped, answered>>
  BY <1>1 DEF CreateRow
<1>3. me # Idle /\ AnIngest(me) /\ me.row = 0 /\ me.letter = me.copy.letter
  BY <1>1, <1>2, NotIdle DEF BoxInv, Idle, AnIngest
<1>4. CASE Ends(w) /\ UNCHANGED <<rows, made>>
  <2>1. Turns(w, Idle) /\ Idle.pc # "asset"
    BY <1>4, Ended DEF Idle
  <2> HIDE DEF Idle
  <2> QED BY <1>2, <1>4, <2>1, RowsUnmoved, Onward
<1>5. CASE ~(Ends(w) /\ UNCHANGED <<rows, made>>)
  <2>1. PICK q : q = made + 1
    OBVIOUS
  <2>2. /\ me.letter \in assets /\ made' = q
        /\ rows' = [r \in Archived \cup {q} |-> IF r \in Archived THEN rows[r] ELSE
                      [letter |-> me.letter, at |-> me.at, gm |-> StrongId(me.copy), binned |-> FALSE, parts |-> <<>>]]
        /\ ingests' = [ingests EXCEPT ![w].pc = "parts", ![w].row = q]
    BY <1>1, <1>5, <2>1 DEF CreateRow
  <2>3. q \in Nat /\ q # 0 /\ q > made /\ made \in Nat /\ DOMAIN ingests = Worker
    BY <2>1 DEF BoxInv, BoxTyped
  <2>4. \A r \in Archived : AMessage(r) /\ r # q
    BY <2>3 DEF BoxInv, BoxTyped, AMessage
  <2>5. /\ Archived' = Archived \cup {q} /\ \A r \in Archived : rows'[r] = rows[r]
        /\ rows'[q] = [letter |-> me.letter, at |-> me.at, gm |-> StrongId(me.copy), binned |-> FALSE, parts |-> <<>>]
    BY <2>2, <2>4 DEF Archived
  <2>6. PICK n : n = ingests'[w]
    OBVIOUS
  <2>7. /\ DOMAIN n = DOMAIN me /\ n.pc = "parts" /\ n.copy = me.copy /\ n.letter = me.letter /\ n.at = me.at /\ n.row = q
        /\ n.part = me.part /\ n.todo = me.todo
    BY <1>1, <1>3, <2>2, <2>3, <2>6 DEF AnIngest
  <2>8. n # Idle /\ AnIngest(n)
    BY <1>3, <2>3, <2>7 DEF AnIngest, Idle
  <2>9. ingests'[w] = n /\ DOMAIN ingests' = Worker /\ (\A v \in Worker \ {w} : ingests'[v] = ingests[v]) /\ Worker' = Worker
    BY <2>2, <2>3, <2>6, SameAccount
  <2>10. \A r \in Archived : AMessage(r)'
    <3> SUFFICES ASSUME NEW r \in Archived PROVE AMessage(r)'
      OBVIOUS
    <3>1. r <= made'
      BY <2>2, <2>3, <2>4 DEF AMessage
    <3> QED BY <2>4, <2>5, <3>1, SameAccount DEF AMessage
  <2>11. AMessage(q)'
    <3>1. /\ DOMAIN rows'[q] = {"letter", "at", "gm", "binned", "parts"} /\ rows'[q].letter = me.letter /\ rows'[q].at = me.at
          /\ rows'[q].gm = StrongId(me.copy)
      BY <2>5
    <3>2. me.letter \in Messages /\ Placed(me.at, me.letter) /\ \A x \in StrongId(me.copy) : x \in Messages /\ Bears(me.letter, x)
      BY <1>3 DEF AnIngest, StrongId
    <3>3. Placed(rows[q].at, rows[q].letter)' /\ (rows[q].letter \in Messages)'
          /\ (\A x \in rows[q].gm : x \in Messages /\ Bears(rows[q].letter, x))'
      BY <3>1, <3>2, SameAccount
    <3>4. q \in Nat /\ q # 0 /\ q <= made'
      BY <2>2, <2>3
    <3> QED BY <3>1, <3>3, <3>4 DEF AMessage
  <2>12. \A i : Sits(i) => Sits(i)'
    <3> SUFFICES ASSUME NEW i, Sits(i), i.row # 0 PROVE Sits(i)'
      BY DEF Sits
    <3>1. i.row \in Nat /\ i.row <= made /\ i.row # q /\ i.row <= made'
      BY <2>2, <2>3 DEF Sits
    <3> QED BY <1>2, <2>5, <3>1 DEF Sits
  <2>13. Sits(n)'
    BY <2>2, <2>3, <2>5, <2>7 DEF Sits
  <2>14. BoxTyped'
    <3>1. \A v \in Worker : ingests'[v] = Idle \/ (AnIngest(ingests[v])' /\ Sits(ingests[v])')
      <4> SUFFICES ASSUME NEW v \in Worker, ingests'[v] # Idle PROVE AnIngest(ingests[v])' /\ Sits(ingests[v])'
        OBVIOUS
      <4>1. PICK m : m = ingests'[v]
        OBVIOUS
      <4>2. AnIngest(m) /\ Sits(m)'
        BY <2>8, <2>9, <2>12, <2>13, <4>1 DEF BoxInv, BoxTyped
      <4> QED BY <4>1, <4>2, SameAccount
    <3>2. account' \in DOMAIN Accounts /\ made' \in Nat
      BY <2>2, <2>3 DEF BoxInv, BoxTyped
    <3> QED BY <2>5, <2>9, <2>10, <2>11, <3>1, <3>2 DEF BoxTyped
  <2>15. Answered'
    <3>1. \A l : Spoken(l) => Spoken(l)'
      BY <1>2, <2>5, SameAccount DEF Spoken
    <3> QED BY <1>2, <3>1 DEF Answered, BoxInv
  <2>16. One'
    <3>1. \A l : Alone(l)' = Alone(l)
      BY <1>2, SameAccount DEF Alone
    <3>2. Alone(me.letter) => \A r \in Archived : rows[r].letter # me.letter
      BY <1>1, <1>3 DEF BoxInv, One
    <3>3. \A v \in Worker \ {w} : ingests[v] # Idle /\ ingests[v].letter = me.letter => ~Alone(me.letter)
      BY <1>1, <1>3 DEF BoxInv, One
    <3>4. rows'[q].letter = me.letter
      BY <2>5
    <3>5. \A r, k \in Archived' : r # k /\ rows'[r].letter = rows'[k].letter => ~Alone(rows'[r].letter)
      BY <2>5, <3>2, <3>4 DEF BoxInv, One
    <3>6. \A v, u \in Worker : v # u /\ ingests'[v] # Idle /\ ingests'[u] # Idle /\ ingests'[v].letter = ingests'[u].letter
            => ~Alone(ingests'[u].letter)
      BY <1>1, <1>3, <2>7, <2>9 DEF BoxInv, One
    <3>7. \A v \in Worker : ingests'[v] # Idle /\ ingests'[v].row = 0 /\ Alone(ingests'[v].letter)
            => \A r \in Archived' : rows'[r].letter # ingests'[v].letter
      BY <2>3, <2>5, <2>7, <2>9, <3>3, <3>4 DEF BoxInv, One
    <3> QED BY <2>9, <3>1, <3>5, <3>6, <3>7 DEF One
  <2>17. Stored'
    <3>0. rows'[q].letter = me.letter
      BY <2>5
    <3>1. Referred' \subseteq assets
      <4>1. Referred' \subseteq Referred \cup {me.letter}
        BY <1>2, <2>5, <3>0, SameAccount DEF Referred
      <4> QED BY <2>2, <4>1 DEF Stored, BoxInv
    <3>2. \A v \in Worker : ingests'[v].pc = "asset" => Bytes(v)' = Bytes(v) /\ ingests[v].pc = "asset"
      BY <2>7, <2>9, SameBytes
    <3> QED BY <1>2, <2>9, <3>1, <3>2 DEF Stored, BoxInv
  <2> QED BY <2>14, <2>15, <2>16, <2>17 DEF BoxInv
<1> QED BY <1>4, <1>5

-----------------------------------------------------------------------------
(* A letter is offered *)
LEMMA StrongBears ==
  ASSUME BoxTyped, NEW c \in Copy, NEW r \in Strong(c)
  PROVE  /\ r \in Archived /\ MessageId[rows[r].letter] = MessageId[c.letter]
         /\ c.place \notin Local => Bears(rows[r].letter, c.letter)
<1>1. r \in Archived /\ AMessage(r) /\ c.letter \in Messages /\ \A l, m \in Messages : MessageId[l] # m
  BY TheAccount DEF Strong, BoxTyped
<1>2. CASE rows[r].gm \cap StrongId(c) # {}
  <2>1. c.letter \in rows[r].gm
    BY <1>2 DEF StrongId
  <2> QED BY <1>1, <2>1 DEF AMessage, Bears
<1>3. CASE rows[r].at = Coordinate(c) /\ c.place \in Local
  <2>1. rows[r].at[2] = MessageId[c.letter]
    BY <1>3 DEF Coordinate
  <2> QED BY <1>1, <1>3, <2>1 DEF AMessage, Placed
<1>4. CASE rows[r].at = Coordinate(c) /\ c.place \notin Local
  <2>1. rows[r].at[2] = c.letter
    BY <1>4 DEF Coordinate
  <2> QED BY <1>1, <2>1 DEF AMessage, Placed, Bears
<1> QED BY <1>2, <1>3, <1>4 DEF Strong

LEMMA OfferedStep ==
  ASSUME BoxInv, account' = account, NEW w \in Worker, NEW n, Turns(w, n), NEW l \in Messages, ingests[w] = Idle,
         UNCHANGED <<rows, made, files, assets, objects, purge, removed, stepped>>, overlapped \subseteq overlapped',
         (\E v \in Worker \ {w} : ingests[v] # Idle /\ MessageId[ingests[v].letter] = MessageId[l]) => l \in overlapped',
         n = Idle \/ (AnIngest(n) /\ Sits(n) /\ n.pc # "asset" /\ MessageId[n.letter] = MessageId[l]),
         n # Idle /\ n.row = 0 /\ Solo(n.letter) => \A r \in Archived : rows[r].letter # n.letter,
         answered' = answered \/ (answered' = answered \cup {l} /\ \E r \in Archived : Bears(rows[r].letter, l))
  PROVE  BoxInv'
<1>1. ingests'[w] = n /\ (\A v \in Worker \ {w} : ingests'[v] = ingests[v]) /\ DOMAIN ingests' = Worker /\ Worker' = Worker
  BY SameAccount DEF Turns
<1>2. Archived' = Archived /\ \A r \in Archived : AMessage(r)'
  BY RowsStay DEF Archived
<1>3. BoxTyped'
  <2>1. \A v \in Worker : ingests'[v] = Idle \/ (AnIngest(ingests[v])' /\ Sits(ingests[v])')
    <3> SUFFICES ASSUME NEW v \in Worker, ingests'[v] # Idle PROVE AnIngest(ingests[v])' /\ Sits(ingests[v])'
      OBVIOUS
    <3>1. PICK m : m = ingests'[v]
      OBVIOUS
    <3>2. AnIngest(m) /\ Sits(m)
      BY <1>1, <3>1 DEF BoxInv, BoxTyped
    <3>3. AnIngest(m)' /\ Sits(m)'
      BY <1>2, <3>2, SameAccount DEF Sits
    <3> QED BY <3>1, <3>3
  <2> QED BY <1>1, <1>2, <2>1 DEF BoxTyped, BoxInv
<1>4. Answered'
  <2>1. \A x : Spoken(x) => Spoken(x)'
    BY <1>2, SameAccount DEF Spoken
  <2>2. (\E r \in Archived : Bears(rows[r].letter, l)) => Spoken(l)
    BY DEF Bears, Spoken
  <2> QED BY <2>1, <2>2 DEF Answered, BoxInv
<1>5. One'
  <2>1. \A x : Alone(x)' => Alone(x)
    BY SameAccount DEF Alone
  <2>2. \A r, q \in Archived : r # q /\ rows'[r].letter = rows'[q].letter => ~Alone(rows[r].letter)'
    BY <2>1 DEF BoxInv, One
  <2>3. ASSUME NEW v \in Worker \ {w}, n # Idle, ingests[v] # Idle, ingests[v].letter = n.letter, NEW x, x = n.letter
        PROVE  ~Alone(x)'
    <3>1. MessageId[ingests[v].letter] = MessageId[l] /\ l \in overlapped'
      BY <2>3
    <3>2. Solo(x) => l = x
      BY <2>3, <3>1 DEF Solo
    <3> QED BY <3>1, <3>2, SameAccount DEF Alone
  <2>4. \A v, u \in Worker : v # u /\ ingests'[v] # Idle /\ ingests'[u] # Idle /\ ingests'[v].letter = ingests'[u].letter
          => ~Alone(ingests[u].letter)'
    <3> SUFFICES ASSUME NEW v \in Worker, NEW u \in Worker, v # u, ingests'[v] # Idle, ingests'[u] # Idle,
                        ingests'[v].letter = ingests'[u].letter
                 PROVE  ~Alone(ingests[u].letter)'
      OBVIOUS
    <3>1. PICK x : x = ingests'[u].letter
      OBVIOUS
    <3>2. ~Alone(x)'
      BY <1>1, <2>1, <2>3, <3>1 DEF BoxInv, One
    <3> QED BY <3>1, <3>2
  <2>5. \A v \in Worker : ingests'[v] # Idle /\ ingests'[v].row = 0 /\ Alone(ingests[v].letter)'
          => \A r \in Archived : rows'[r].letter # ingests'[v].letter
    <3> SUFFICES ASSUME NEW v \in Worker, ingests'[v] # Idle, ingests'[v].row = 0, Alone(ingests[v].letter)'
                 PROVE  \A r \in Archived : rows[r].letter # ingests'[v].letter
      OBVIOUS
    <3>1. PICK x : x = ingests'[v].letter
      OBVIOUS
    <3>2. Alone(x)' /\ Alone(x) /\ Solo(x)
      BY <2>1, <3>1 DEF Alone
    <3> QED BY <1>1, <3>1, <3>2 DEF BoxInv, One
  <2> QED BY <1>1, <1>2, <2>2, <2>4, <2>5 DEF One
<1>6. Stored'
  <2>1. n.pc # "asset"
    BY DEF Idle
  <2> QED BY <1>2, <2>1, StoredOnward
<1> QED BY <1>3, <1>4, <1>5, <1>6 DEF BoxInv

LEMMA OfferStep ==
  ASSUME BoxInv, Measured, account' = account, NEW w \in Worker, NEW c \in Copy, Offer(w, c),
         c.place = "local:sent" => c.letter \in Ours
  PROVE  BoxInv'
<1> DEFINE Clash(f) == f # NoMessage /\ c.place \in Local /\ Size[rows[f].letter] # Size[c.letter]
           Found(f, t) == IF f # NoMessage /\ ~Clash(f) THEN f ELSE IF t # NoMessage /\ LooksSame(t, c) THEN t ELSE NoMessage
<1>found. PICK found \in AnyOf(Strong(c)) : \E twin \in AnyOf(SameName(c) \ {found}) :
        /\ ingests' = [ingests EXCEPT ![w] =
              IF Found(found, twin) = NoMessage THEN Begin(w, c, IF Clash(found) THEN Forked(c) ELSE Coordinate(c))
              ELSE IF rows[Found(found, twin)].binned THEN Idle ELSE Meets(w, c, Found(found, twin))]
        /\ answered' = IF Found(found, twin) # NoMessage /\ rows[Found(found, twin)].binned
                       THEN answered \cup {c.letter} ELSE answered
  BY DEF Offer
<1>twin. PICK twin \in AnyOf(SameName(c) \ {found}) :
        /\ ingests' = [ingests EXCEPT ![w] =
              IF Found(found, twin) = NoMessage THEN Begin(w, c, IF Clash(found) THEN Forked(c) ELSE Coordinate(c))
              ELSE IF rows[Found(found, twin)].binned THEN Idle ELSE Meets(w, c, Found(found, twin))]
        /\ answered' = IF Found(found, twin) # NoMessage /\ rows[Found(found, twin)].binned
                       THEN answered \cup {c.letter} ELSE answered
  BY <1>found
<1>clash. PICK clash : clash = Clash(found)
  OBVIOUS
<1>match. PICK match : match = Found(found, twin)
  OBVIOUS
<1>1. /\ clash = (found # NoMessage /\ c.place \in Local /\ Size[rows[found].letter] # Size[c.letter])
      /\ match = (IF found # NoMessage /\ ~clash THEN found
                  ELSE IF twin # NoMessage /\ LooksSame(twin, c) THEN twin ELSE NoMessage)
      /\ ingests' = [ingests EXCEPT ![w] =
            IF match = NoMessage THEN Begin(w, c, IF clash THEN Forked(c) ELSE Coordinate(c))
            ELSE IF rows[match].binned THEN Idle ELSE Meets(w, c, match)]
      /\ answered' = IF match # NoMessage /\ rows[match].binned THEN answered \cup {c.letter} ELSE answered
  BY <1>twin, <1>clash, <1>match
<1> HIDE DEF Clash, Found
<1>2. /\ ingests[w] = Idle /\ UNCHANGED <<rows, made, files, assets, objects, purge, removed, stepped>>
      /\ overlapped \subseteq overlapped'
      /\ (\E v \in Worker \ {w} : ingests[v] # Idle /\ MessageId[ingests[v].letter] = MessageId[c.letter]) => c.letter \in overlapped'
  BY NotIdle DEF Offer, BoxInv
<1>3. BoxTyped /\ c.letter \in Messages /\ DOMAIN ingests = Worker /\ \A r \in Archived : AMessage(r) /\ r # NoMessage
  BY TheAccount DEF BoxInv, BoxTyped, AMessage, NoMessage
<1>4. \A l, m \in Messages : MessageId[l] = MessageId[m] /\ Size[l] = Size[m] => l = m
  BY <1>3, TheAccount DEF BoxTyped
<1>5. /\ found # NoMessage => found \in Strong(c)
      /\ twin # NoMessage => twin \in SameName(c)
      /\ found = NoMessage => Strong(c) = {}
      /\ twin = NoMessage => SameName(c) \subseteq {found}
  BY <1>3 DEF AnyOf, Strong, SameName
<1>6. match # NoMessage => match \in Archived /\ Bears(rows[match].letter, c.letter)
  <2>1. CASE found # NoMessage /\ ~clash
    <3>1. found \in Archived /\ MessageId[rows[found].letter] = MessageId[c.letter]
          /\ (c.place \notin Local => Bears(rows[found].letter, c.letter)) /\ rows[found].letter \in Messages
      BY <1>3, <1>5, <2>1, StrongBears DEF AMessage
    <3>2. c.place \in Local => rows[found].letter = c.letter
      BY <1>1, <1>3, <1>4, <2>1, <3>1
    <3> QED BY <1>1, <2>1, <3>1, <3>2 DEF Bears
  <2>2. CASE ~(found # NoMessage /\ ~clash) /\ twin # NoMessage /\ LooksSame(twin, c)
    <3>1. twin \in Archived /\ AMessage(twin) /\ MessageId[rows[twin].letter] = MessageId[c.letter]
      BY <1>3, <1>5, <2>2 DEF SameName
    <3>2. rows[twin].letter \in Ours \/ rows[twin].letter = c.letter
      BY <1>3, <1>4, <2>2, <3>1 DEF LooksSame, AMessage, Placed
    <3> QED BY <1>1, <2>2, <3>1, <3>2 DEF Bears
  <2> QED BY <1>1, <2>1, <2>2
<1>7. ASSUME match = NoMessage, Solo(c.letter), NEW r \in Archived PROVE rows[r].letter # c.letter
  <2> SUFFICES ASSUME rows[r].letter = c.letter PROVE FALSE
    OBVIOUS
  <2>1. found = NoMessage
    <3> SUFFICES ASSUME found # NoMessage PROVE FALSE
      OBVIOUS
    <3>1. MessageId[rows[found].letter] = MessageId[c.letter] /\ rows[found].letter \in Messages
      BY <1>3, <1>5, StrongBears DEF AMessage
    <3>2. rows[found].letter = c.letter
      BY <1>7, <3>1 DEF Solo
    <3>3. found \in Archived
      BY <1>5 DEF Strong
    <3> QED BY <1>1, <1>3, <1>7, <3>2, <3>3
  <2>2. r \in SameName(c) /\ r # found
    BY <1>3, <2>1 DEF SameName
  <2>3. twin # NoMessage /\ twin \in SameName(c)
    BY <1>5, <2>2
  <2>4. twin \in Archived /\ rows[twin].letter = c.letter
    BY <1>3, <1>7, <2>3 DEF SameName, Solo, AMessage
  <2>5. LooksSame(twin, c)
    BY <2>4 DEF LooksSame
  <2> QED BY <1>1, <1>3, <1>7, <2>1, <2>3, <2>4, <2>5
<1>8. \A m : Bears(m, c.letter) => Placed(Coordinate(c), m)
  BY <1>3 DEF Coordinate, Placed, Bears, Local
<1>9. Placed(Forked(c), c.letter) /\ Bears(c.letter, c.letter)
  BY <1>3 DEF Forked, Placed, Bears
<1>10. PICK n : n = ingests'[w]
  OBVIOUS
<1>11. n = (IF match = NoMessage THEN Begin(w, c, IF clash THEN Forked(c) ELSE Coordinate(c))
            ELSE IF rows[match].binned THEN Idle ELSE Meets(w, c, match))
  BY <1>1, <1>3, <1>10
<1>12. Turns(w, n)
  BY <1>1, <1>3, <1>10 DEF Turns
<1>13. CASE match = NoMessage
  <2>1. PICK at : at = (IF clash THEN Forked(c) ELSE Coordinate(c)) /\ n = Begin(w, c, at)
    BY <1>11, <1>13
  <2>2. Placed(at, c.letter)
    BY <1>8, <1>9, <2>1
  <2>3. n.letter = c.letter /\ n.copy = c /\ n.row = 0 /\ AnIngest(n) /\ n # Idle /\ n.pc = "put"
    BY <1>3, <1>9, <2>1, <2>2 DEF Begin, AnIngest, NoMessage, Idle
  <2>4. Sits(n)
    BY <2>3 DEF Sits
  <2>5. Solo(n.letter) => \A r \in Archived : rows[r].letter # n.letter
    BY <1>7, <1>13, <2>3
  <2>6. answered' = answered
    BY <1>1, <1>13
  <2> QED BY <2>3, <2>4, <2>5, <2>6, <1>2, <1>12, <1>3, OfferedStep
<1>14. CASE match # NoMessage /\ rows[match].binned
  <2>1. n = Idle
    BY <1>11, <1>14
  <2> QED BY <2>1, <1>1, <1>2, <1>3, <1>6, <1>12, <1>14, OfferedStep
<1>15. CASE match # NoMessage /\ ~rows[match].binned
  <2>1. n = Meets(w, c, match) /\ answered' = answered
    BY <1>1, <1>11, <1>15
  <2>2. /\ DOMAIN n = {"pc", "copy", "letter", "at", "row", "part", "todo", "name"} /\ n.pc = "meet" /\ n.copy = c
        /\ n.letter = rows[match].letter /\ n.at = Coordinate(c) /\ n.row = match /\ n.todo = {}
    BY <2>1 DEF Meets, Begin
  <2>3. AMessage(match) /\ match # 0 /\ match \in Archived
    BY <1>3, <1>6, <1>15 DEF NoMessage
  <2>4. AnIngest(n) /\ n # Idle
    BY <1>3, <1>6, <1>8, <1>15, <2>2, <2>3 DEF AnIngest, AMessage, Idle
  <2>5. Sits(n)
    BY <2>2, <2>3 DEF Sits, AMessage
  <2>6. MessageId[n.letter] = MessageId[c.letter]
    BY <1>6, <1>15, <2>2 DEF Bears
  <2> QED BY <2>1, <2>2, <2>3, <2>4, <2>5, <2>6, <1>2, <1>3, <1>12, OfferedStep
<1> QED BY <1>13, <1>14, <1>15

-----------------------------------------------------------------------------
(* The owner, and the removal for good *)
LEMMA BinnedOrBack ==
  ASSUME BoxInv, account' = account, NEW k \in Archived, NEW b, rows' = [rows EXCEPT ![k].binned = b],
         UNCHANGED <<made, files, assets, objects, ingests, purge, answered, removed, overlapped, stepped>>
  PROVE  BoxInv'
<1>1. \A r \in Archived : AMessage(r)
  BY DEF BoxInv, BoxTyped
<1>2. Archived' = Archived /\ \A r \in Archived :
        DOMAIN rows'[r] = DOMAIN rows[r] /\ rows'[r].letter = rows[r].letter /\ rows'[r].at = rows[r].at /\ rows'[r].gm = rows[r].gm
  BY <1>1 DEF AMessage, Archived
<1>3. \A r \in Archived : AMessage(r)'
  BY <1>1, <1>2, SameAccount DEF AMessage
<1>4. \A i : Sits(i)' = Sits(i) /\ Spoken(i)' = Spoken(i) /\ Alone(i)' = Alone(i)
  BY <1>2, SameAccount DEF Sits, Spoken, Alone
<1>5. BoxTyped'
  <2>1. \A v \in Worker : ingests[v] = Idle \/ (AnIngest(ingests[v])' /\ Sits(ingests[v])')
    BY <1>4, SameAccount DEF BoxInv, BoxTyped
  <2> QED BY <1>2, <1>3, <2>1, SameAccount DEF BoxInv, BoxTyped
<1>6. Answered' /\ One'
  BY <1>2, <1>4, SameAccount DEF Answered, One, BoxInv
<1>7. Stored'
  <2>1. Referred' = Referred
    BY <1>2, SameAccount DEF Referred
  <2>2. \A v \in Worker : Bytes(v)' = Bytes(v)
    BY SameAccount DEF Bytes
  <2> QED BY <2>1, <2>2, SameAccount DEF Stored, BoxInv
<1> QED BY <1>5, <1>6, <1>7 DEF BoxInv

(* What a purge does to the bytes leaves all else of the invariant alone.  *)
LEMMA RowsAlone ==
  ASSUME BoxInv, account' = account, UNCHANGED <<rows, made, ingests, answered, removed, overlapped>>
  PROVE  /\ BoxTyped' /\ Answered' /\ One' /\ Worker' = Worker /\ Archived' = Archived /\ \A w \in Worker : Bytes(w)' = Bytes(w)
<1>1. Archived' = Archived /\ Worker' = Worker /\ \A r \in Archived : AMessage(r)'
  BY RowsStay, SameAccount DEF Archived
<1>2. \A i : Sits(i)' = Sits(i) /\ Spoken(i)' = Spoken(i) /\ Alone(i)' = Alone(i)
  BY <1>1, SameAccount DEF Sits, Spoken, Alone
<1>3. BoxTyped'
  <2>1. \A v \in Worker : ingests[v] = Idle \/ (AnIngest(ingests[v])' /\ Sits(ingests[v])')
    BY <1>2, SameAccount DEF BoxInv, BoxTyped
  <2> QED BY <1>1, <2>1 DEF BoxInv, BoxTyped
<1>4. Answered' /\ One'
  BY <1>1, <1>2 DEF Answered, One, BoxInv
<1>5. \A w \in Worker : Bytes(w)' = Bytes(w)
  BY SameAccount DEF Bytes
<1> QED BY <1>1, <1>3, <1>4, <1>5

LEMMA PurgeReadsStep == ASSUME BoxInv, account' = account, PurgeReads PROVE BoxInv'
<1>1. UNCHANGED <<rows, made, files, assets, objects, ingests, answered, removed, overlapped, stepped>>
  BY DEF PurgeReads
<1>2. DOMAIN purge' = {"stage", "ids", "names", "bytes"} /\ purge'.stage = "rows"
  BY DEF PurgeReads
<1>3. Referred' = Referred
  BY <1>1, SameAccount DEF Referred, Archived
<1> QED BY <1>1, <1>2, <1>3, RowsAlone DEF BoxInv, Stored

LEMMA PurgeAssetsStep == ASSUME BoxInv, account' = account, PurgeAssets PROVE BoxInv'
<1>1. /\ UNCHANGED <<rows, made, files, objects, ingests, answered, removed, overlapped>>
      /\ assets' = assets \ Deletable(purge.bytes) /\ purge.stage = "assets" /\ stepped \subseteq stepped'
  BY DEF PurgeAssets
<1>2. DOMAIN purge = {"stage", "ids", "names", "bytes"}
  BY <1>1 DEF BoxInv, Stored, Quiet
<1>3. DOMAIN purge' = {"stage", "ids", "names", "bytes"} /\ purge'.stage = "objects" /\ purge'.bytes = Deletable(purge.bytes) \cap assets
  BY <1>2 DEF PurgeAssets
<1>4. Referred' = Referred /\ Referred \subseteq assets'
  BY <1>1, SameAccount DEF Referred, Archived, Deletable, BoxInv, Stored
<1>5. \A w \in Worker : ingests[w].pc = "asset" /\ Bytes(w) \in purge.bytes => Bytes(w) \in stepped'
  BY DEF PurgeAssets
<1>6. Deletable(purge.bytes) \subseteq purge.bytes
  BY DEF Deletable
<1> QED BY <1>1, <1>3, <1>4, <1>5, <1>6, RowsAlone DEF BoxInv, Stored

LEMMA PurgeObjectsStep == ASSUME BoxInv, account' = account, PurgeObjects PROVE BoxInv'
<1>1. /\ UNCHANGED <<rows, made, files, assets, ingests, answered, removed, overlapped, stepped>>
      /\ purge.stage = "objects" /\ objects \ purge.bytes \subseteq objects' /\ purge' = Quiet
  BY DEF PurgeObjects
<1>2. Referred' = Referred /\ Quiet.stage = "none"
  BY <1>1, SameAccount DEF Referred, Archived, Quiet
<1> QED BY <1>1, <1>2, RowsAlone DEF BoxInv, Stored

LEMMA PurgeRowsStep == ASSUME BoxInv, account' = account, PurgeRows PROVE BoxInv'
<1>1. /\ UNCHANGED <<made, assets, objects, ingests, answered, overlapped, stepped>>
      /\ rows' = [r \in Archived \ purge.ids |-> rows[r]] /\ files' \subseteq files
      /\ removed' = removed \cup {rows[r].letter : r \in purge.ids \cap Archived} /\ purge.stage = "rows"
  BY DEF PurgeRows
<1>2. DOMAIN purge' = {"stage", "ids", "names", "bytes"} /\ purge'.stage = "assets"
  BY <1>1 DEF PurgeRows, BoxInv, Stored, Quiet
<1>3. /\ Archived' = Archived \ purge.ids /\ (\A r \in Archived' : rows'[r] = rows[r])
      /\ \A r \in Archived \ Archived' : rows[r].letter \in removed'
  BY <1>1 DEF Archived
<1>4. \A r \in Archived' : AMessage(r)'
  BY <1>1, <1>3, SameAccount DEF AMessage, BoxInv, BoxTyped
<1>5. \A i : Sits(i) => Sits(i)'
  BY <1>1, <1>3 DEF Sits
<1>6. BoxTyped'
  <2>1. \A v \in Worker : ingests[v] = Idle \/ (AnIngest(ingests[v])' /\ Sits(ingests[v])')
    BY <1>1, <1>5, SameAccount DEF BoxInv, BoxTyped
  <2> QED BY <1>1, <1>4, <2>1, SameAccount DEF BoxInv, BoxTyped
<1>7. Answered'
  <2>1. \A l : Spoken(l) => Spoken(l)'
    BY <1>1, <1>3, SameAccount DEF Spoken
  <2> QED BY <1>1, <2>1 DEF Answered, BoxInv
<1>8. One'
  <2>1. \A l : Alone(l)' = Alone(l)
    BY <1>1, SameAccount DEF Alone
  <2> QED BY <1>1, <1>3, <2>1, SameAccount DEF One, BoxInv
<1>9. Stored'
  <2>1. Referred' \subseteq Referred
    BY <1>1, <1>3, SameAccount DEF Referred
  <2>2. \A v \in Worker : Bytes(v)' = Bytes(v)
    BY <1>1, SameAccount DEF Bytes
  <2> QED BY <1>1, <1>2, <2>1, <2>2, SameAccount DEF Stored, BoxInv
<1> QED BY <1>6, <1>7, <1>8, <1>9 DEF BoxInv

LEMMA TroubleStep == ASSUME BoxInv, account' = account, Trouble PROVE BoxInv'
<1>1. UNCHANGED <<rows, made, files, assets, objects, answered, removed, overlapped, stepped>>
  BY DEF Trouble
<1>2. ASSUME purge' = purge, NEW w \in Worker, Ends(w) PROVE BoxInv'
  <2>1. Turns(w, Idle) /\ Idle.pc # "asset"
    BY <1>2, Ended DEF Idle
  <2> HIDE DEF Idle
  <2> QED BY <1>1, <1>2, <2>1, RowsUnmoved, Onward
<1>3. CASE ingests' = [w \in Worker |-> Idle] /\ purge' = Quiet
  <2>1. (\A w \in Worker : ingests'[w] = Idle) /\ DOMAIN ingests' = Worker /\ Worker' = Worker /\ Archived' = Archived
    BY <1>1, <1>3, SameAccount DEF Archived
  <2>2. BoxTyped'
    BY <1>1, <2>1, RowsStay DEF BoxInv, BoxTyped
  <2>3. Answered'
    BY <1>1, SameAccount DEF BoxInv, Answered, Spoken, Archived
  <2>4. One'
    <3>1. \A l : Alone(l)' = Alone(l)
      BY <1>1, SameAccount DEF Alone
    <3> QED BY <1>1, <2>1, <3>1 DEF One, BoxInv
  <2>5. Stored'
    <3>1. Referred' = Referred /\ Quiet.stage = "none" /\ Idle.pc = "idle"
      BY <1>1, SameAccount DEF Referred, Archived, Quiet, Idle
    <3> QED BY <1>1, <1>3, <2>1, <3>1 DEF Stored, BoxInv
  <2> QED BY <2>2, <2>3, <2>4, <2>5 DEF BoxInv
<1> QED BY <1>2, <1>3 DEF Trouble

LEMMA BoxStep == Measured => (BoxInv /\ [BNext]_boxVars => BoxInv')
<1> SUFFICES ASSUME Measured, BoxInv, [BNext]_boxVars PROVE BoxInv'
  OBVIOUS
<1>1. account' = account
  BY DEF BNext, boxVars
<1>2. CASE UNCHANGED boxVars
  <2>1. UNCHANGED <<rows, made, files, assets, objects, ingests, purge, answered, removed, overlapped, stepped>>
    BY <1>2 DEF boxVars
  <2>2. Referred' = Referred
    BY <2>1, <1>1, SameAccount DEF Referred, Archived
  <2> QED BY <1>1, <2>1, <2>2, RowsAlone DEF BoxInv, Stored
<1>3. ASSUME NEW w \in Worker, Fetched(w) \/ IngestInbound(w) \/ Send(w) PROVE BoxInv'
  <2>1. PICK c \in Copy : Offer(w, c) /\ (c.place = "local:sent" => c.letter \in Ours)
    BY <1>3 DEF Fetched, IngestInbound, Send, Local
  <2> QED BY <1>1, <2>1, OfferStep
<1>4. ASSUME NEW w \in Worker, Meet(w) \/ Put(w) \/ EnsureAsset(w) \/ CreateRow(w) \/ StoreAttachments(w) \/ ResolveEntry(w) \/ LinkPart(w)
      PROVE  BoxInv'
  BY <1>1, <1>4, MeetStep, PutStep, EnsureAssetStep, CreateRowStep, StoreAttachmentsStep, ResolveEntryStep, LinkPartStep
<1>5. ASSUME NEW r, Bin(r) \/ RestoreMessage(r) PROVE BoxInv'
  <2>1. /\ r \in Archived /\ UNCHANGED <<made, files, assets, objects, ingests, purge, answered, removed, overlapped, stepped>>
        /\ \E b : rows' = [rows EXCEPT ![r].binned = b]
    BY <1>5 DEF Bin, RestoreMessage
  <2> QED BY <1>1, <2>1, BinnedOrBack
<1>6. CASE PurgeReads \/ PurgeRows \/ PurgeAssets \/ PurgeObjects \/ Trouble
  BY <1>1, <1>6, PurgeReadsStep, PurgeRowsStep, PurgeAssetsStep, PurgeObjectsStep, TroubleStep
<1> QED BY <1>2, <1>3, <1>4, <1>5, <1>6 DEF BNext

LEMMA BoxInvSound == BoxInv => BoxSound
<1> SUFFICES ASSUME BoxInv PROVE BoxSound
  OBVIOUS
<1>1. NoneSwallowed
  BY DEF BoxInv, Answered, Spoken, NoneSwallowed
<1>2. OneRow
  <2> SUFFICES ASSUME NEW r \in Archived, NEW q \in Archived, r # q, rows[r].letter = rows[q].letter, rows[r].letter \notin overlapped
               PROVE  \E l \in Messages : l # rows[r].letter /\ MessageId[l] = MessageId[rows[r].letter]
    BY DEF OneRow, Messages
  <2>1. ~Solo(rows[r].letter) /\ rows[r].letter \in Messages
    BY DEF BoxInv, One, Alone, BoxTyped, AMessage
  <2> QED BY <2>1 DEF Solo
<1>3. BytesThere
  BY DEF BoxInv, Stored, BytesThere
<1> QED BY <1>1, <1>2, <1>3 DEF BoxSound

(***************************************************************************)
(* No letter of the archive is swallowed by another one, none has two      *)
(* rows, and no bytes that it refers to are missing, but where BoxSound    *)
(* says so: for any letters, parts, ingests at once, purges and mishaps,   *)
(* if letters of one Message-ID and one length are the same, which is what *)
(* looksLikeSameLetter decides by.                                         *)
(***************************************************************************)
THEOREM BoxHolds == Measured => (BSpec => []BoxSound)
<1> SUFFICES ASSUME Measured PROVE BSpec => []BoxSound
  OBVIOUS
<1>1. BoxInv /\ [BNext]_boxVars => BoxInv'
  BY BoxStep
<1> QED BY <1>1, BoxStarts, BoxInvSound, PTL DEF BSpec
=============================================================================
