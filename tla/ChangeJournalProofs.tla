-------------------------- MODULE ChangeJournalProofs --------------------------
(***************************************************************************)
(* What ChangeJournal guarantees for any number of files and transactions, *)
(* any size of a page and any mix of faults.                               *)
(*                                                                         *)
(* A mirror reads rows in an order in which they were not committed, while *)
(* the journal loses its old end.  MirrorInv says, for each thing it may   *)
(* be doing, what it holds already and what is still to come to it.        *)
(***************************************************************************)
EXTENDS ChangeJournal, FiniteSetTheorems, WellFoundedInduction, TLAPS

ClRec == [pc : {"idle", "pull", "ask", "apply"}, head : Opt(Seq0), todo : SUBSET Item,
          got : Opt(SUBSET SeqN), min : Opt(Seq0), max : Opt(Seq0),
          rest : SUBSET SeqN, at : Opt(Seq0)]

-----------------------------------------------------------------------------
(* The least, the greatest and the first of a set of numbers *)

LEMMA GreatestIs ==
  ASSUME NEW S \in SUBSET Seq0
  PROVE  /\ Greatest(S) \in Seq0 /\ (S = {} => Greatest(S) = 0)
         /\ S # {} => Greatest(S) \in S
         /\ \A t \in S : t <= Greatest(S)
<1>1. CASE S = {}
  BY <1>1, JournalAssumption DEF Greatest, Seq0
<1>2. CASE S # {}
  <2> DEFINE Above(s) == {t \in S : t > s}
             T        == {Above(s) : s \in S}
             R        == StrictSubsetOrdering(Seq0)
  <2>1. T \subseteq FiniteSubsetsOf(Seq0) /\ T # {}
    <3>1. IsFiniteSet(Seq0)
      BY JournalAssumption, FS_Interval DEF Seq0
    <3>2. \A s \in S : Above(s) \in SUBSET Seq0 /\ IsFiniteSet(Above(s))
      BY <3>1, FS_Subset
    <3> QED BY <1>2, <3>2 DEF FiniteSubsetsOf
  <2>2. IsWellFoundedOn(R, FiniteSubsetsOf(Seq0))
    BY FS_StrictSubsetOrderingWellFounded
  <2>3. PICK A \in T : \A B \in T : ~(<<B, A>> \in R)
    <3> HIDE DEF T, R
    <3> QED BY <2>1, <2>2, WFMin
  <2>4. PICK s \in S : A = Above(s)
    BY <2>3
  <2>5. S \subseteq Nat
    BY JournalAssumption DEF Seq0
  <2>6. ASSUME NEW t \in S, ~(t <= s) PROVE FALSE
    <3>0. s < t /\ \A u \in S : u \in Int
      BY <2>5, <2>6
    <3>1. Above(t) \subseteq Above(s) /\ t \in Above(s) /\ t \notin Above(t)
      <4>1. ASSUME NEW u \in S, u > t PROVE u > s
        BY <3>0, <4>1
      <4> QED BY <3>0, <4>1
    <3>2. <<Above(t), Above(s)>> \in R
      BY <3>1 DEF StrictSubsetOrdering
    <3> QED BY <2>3, <2>4, <3>2
  <2>7. \E m \in S : \A t \in S : m >= t
    BY <2>4, <2>5, <2>6
  <2>8. Greatest(S) = CHOOSE m \in S : \A t \in S : m >= t
    BY <1>2 DEF Greatest
  <2> QED BY <1>2, <2>5, <2>7, <2>8
<1> QED BY <1>1, <1>2

LEMMA LeastIs ==
  ASSUME NEW S \in SUBSET Seq0
  PROVE  /\ Least(S) \in Seq0 /\ (S = {} => Least(S) = 0)
         /\ S # {} => Least(S) \in S
         /\ \A t \in S : Least(S) <= t
<1>1. CASE S = {}
  BY <1>1, JournalAssumption DEF Least, Seq0
<1>2. CASE S # {}
  <2> DEFINE Below(s) == {t \in S : t < s}
             T        == {Below(s) : s \in S}
             R        == StrictSubsetOrdering(Seq0)
  <2>1. T \subseteq FiniteSubsetsOf(Seq0) /\ T # {}
    <3>1. IsFiniteSet(Seq0)
      BY JournalAssumption, FS_Interval DEF Seq0
    <3>2. \A s \in S : Below(s) \in SUBSET Seq0 /\ IsFiniteSet(Below(s))
      BY <3>1, FS_Subset
    <3> QED BY <1>2, <3>2 DEF FiniteSubsetsOf
  <2>2. IsWellFoundedOn(R, FiniteSubsetsOf(Seq0))
    BY FS_StrictSubsetOrderingWellFounded
  <2>3. PICK A \in T : \A B \in T : ~(<<B, A>> \in R)
    <3> HIDE DEF T, R
    <3> QED BY <2>1, <2>2, WFMin
  <2>4. PICK s \in S : A = Below(s)
    BY <2>3
  <2>5. S \subseteq Nat
    BY JournalAssumption DEF Seq0
  <2>6. ASSUME NEW t \in S, ~(s <= t) PROVE FALSE
    <3>0. t < s /\ \A u \in S : u \in Int
      BY <2>5, <2>6
    <3>1. Below(t) \subseteq Below(s) /\ t \in Below(s) /\ t \notin Below(t)
      <4>1. ASSUME NEW u \in S, u < t PROVE u < s
        BY <3>0, <4>1
      <4> QED BY <3>0, <4>1
    <3>2. <<Below(t), Below(s)>> \in R
      BY <3>1 DEF StrictSubsetOrdering
    <3> QED BY <2>3, <2>4, <3>2
  <2>7. \E m \in S : \A t \in S : m <= t
    BY <2>4, <2>5, <2>6
  <2>8. Least(S) = CHOOSE m \in S : \A t \in S : m <= t
    BY <1>2 DEF Least
  <2> QED BY <1>2, <2>5, <2>7, <2>8
<1> QED BY <1>1, <1>2

LEMMA SeqsInNat == Seq0 \subseteq Nat /\ SeqN \subseteq Seq0 /\ 0 \in Seq0 /\ None \notin Seq0
  BY JournalAssumption DEF Seq0, SeqN

(* What comes before one of the first rows is one of them too. *)
LEMMA FirstClosed ==
  ASSUME NEW S \in SUBSET SeqN, NEW n \in Nat
  PROVE  /\ First(S, n) \subseteq S
         /\ \A s \in First(S, n) : \A t \in S : t <= s => t \in First(S, n)
<1> SUFFICES ASSUME NEW s \in First(S, n), NEW t \in S, t <= s PROVE t \in First(S, n)
  BY DEF First
<1> DEFINE B(u) == {v \in S : v < u}
<1>1. IsFiniteSet(S)
  <2>1. IsFiniteSet(SeqN)
    BY JournalAssumption, FS_Interval DEF SeqN
  <2> QED BY <2>1, FS_Subset
<1>2. s \in S /\ Cardinality(B(s)) < n
  BY DEF First
<1>3. B(t) \subseteq B(s)
  <2>1. \A u \in S : u \in Int
    BY SeqsInNat
  <2>2. ASSUME NEW u \in S, u < t PROVE u < s
    BY <1>2, <2>1, <2>2
  <2> QED BY <2>2
<1>4. IsFiniteSet(B(s)) /\ IsFiniteSet(B(t))
  BY <1>1, FS_Subset
<1>5. Cardinality(B(t)) <= Cardinality(B(s)) /\ Cardinality(B(t)) \in Nat /\ Cardinality(B(s)) \in Nat
  BY <1>3, <1>4, FS_Subset, FS_CardinalityType
<1>6. Cardinality(B(t)) < n
  BY <1>2, <1>5
<1> QED BY <1>6 DEF First

(* Of the first n rows, and of any of them, the first n are all of them. *)
LEMMA FirstOfFew ==
  ASSUME NEW S \in SUBSET SeqN, NEW n \in Nat, NEW T \in SUBSET First(S, n)
  PROVE  First(T, n) = T
<1> SUFFICES ASSUME NEW s \in T PROVE s \in First(T, n)
  BY DEF First
<1> DEFINE B == {v \in S : v < s}
           C == {v \in T : v < s}
<1>1. IsFiniteSet(S)
  <2>1. IsFiniteSet(SeqN)
    BY JournalAssumption, FS_Interval DEF SeqN
  <2> QED BY <2>1, FS_Subset
<1>2. T \subseteq S /\ Cardinality(B) < n
  BY DEF First
<1>3. C \subseteq B /\ IsFiniteSet(B)
  BY <1>1, <1>2, FS_Subset
<1>4. IsFiniteSet(C)
  BY <1>3, FS_Subset
<1>5. Cardinality(C) <= Cardinality(B) /\ Cardinality(C) \in Nat /\ Cardinality(B) \in Nat
  BY <1>3, <1>4, FS_Subset, FS_CardinalityType
<1>6. Cardinality(C) < n
  BY <1>2, <1>5
<1> QED BY <1>6 DEF First

-----------------------------------------------------------------------------
(* Types *)

(* A file is changed by one transaction at a time. *)
Locks ==
  \A v, w \in Writer : v # w /\ tx[v] # None /\ tx[w] # None => itemOf[tx[v]] # itemOf[tx[w]]

(* The rows the mirror has been given are about files. *)
GotTyped == cl.got # None => \A s \in cl.got : s \in SeqN /\ s < next /\ itemOf[s] \in Item

TypeInv == TypeOK /\ Locks /\ GotTyped

LEMMA IdleTyped == Idle \in ClRec /\ Idle.pc = "idle" /\ Idle.head = None /\ Idle.got = None /\ Idle.at = None
                   /\ Idle.min = None /\ Idle.max = None /\ Idle.todo = {} /\ Idle.rest = {}
  BY DEF Idle, ClRec, Opt

LEMMA ClTyped == ASSUME TypeOK
                 PROVE  /\ cl \in ClRec /\ cl.head \in Opt(Seq0) /\ cl.todo \subseteq Item
                        /\ cl.got \in Opt(SUBSET SeqN) /\ cl.at \in Opt(Seq0) /\ cl.min \in Opt(Seq0)
                        /\ cl.max \in Opt(Seq0) /\ cl.rest \subseteq SeqN
  BY DEF TypeOK, ClRec

(* A sequence number is a number from 1 on. *)
LEMMA NextTyped ==
  ASSUME TypeOK
  PROVE  /\ next \in Nat /\ next >= 1 /\ next <= MaxSeq + 1 /\ MaxSeq \in Nat
         /\ rows \subseteq SeqN /\ rows \subseteq Seq0
         /\ \A s \in rows : s \in Nat /\ s >= 1 /\ s < next /\ itemOf[s] \in Item
         /\ \A w \in Writer : tx[w] # None => /\ tx[w] \in SeqN /\ tx[w] < next /\ tx[w] \notin rows
                                              /\ itemOf[tx[w]] \in Item
<1>1. next \in 1..(MaxSeq + 1) /\ rows \subseteq 1..(next - 1) /\ MaxSeq \in Nat
  BY JournalAssumption DEF TypeOK
<1>2. \A s \in 1..(next - 1) : s \in SeqN /\ s \in Seq0 /\ s \in Nat /\ s >= 1 /\ s < next
  BY <1>1 DEF SeqN, Seq0
<1>3. \A s \in SeqN : itemOf[s] # None => itemOf[s] \in Item
  BY DEF TypeOK, Opt
<1>4. \A w \in Writer : tx[w] # None => tx[w] \in 1..(next - 1) /\ tx[w] \notin rows /\ itemOf[tx[w]] # None
  BY DEF TypeOK, Opt
<1>5. \A s \in rows : itemOf[s] # None
  BY DEF TypeOK
<1> QED BY <1>1, <1>2, <1>3, <1>4, <1>5

LEMMA TypeInit == Init => TypeInv
<1> SUFFICES ASSUME Init PROVE TypeInv
  OBVIOUS
<1>1. MaxSeq \in Nat /\ 0 \in Seq0
  BY SeqsInNat, JournalAssumption
<1>2. next \in 1..(MaxSeq + 1) /\ cur \in Opt(Seq0)
  BY <1>1, JournalAssumption DEF Init, Opt
<1>3. cl \in ClRec /\ cl.got = None
  BY IdleTyped DEF Init
<1>4. TypeOK
  BY <1>1, <1>2, <1>3 DEF Init, TypeOK, Opt, ClRec
<1> QED BY <1>3, <1>4 DEF Init, TypeInv, Locks, GotTyped

(* A step of the mirror does nothing to the server. *)
LEMMA TypeMirror ==
  ASSUME TypeInv, UNCHANGED server, cl' \in ClRec, cur' \in Opt(Seq0),
         seen' \in [Item -> Seq0], missed' \subseteq Item, GotTyped'
  PROVE  TypeInv'
  BY DEF TypeInv, TypeOK, Locks, server, ClRec

LEMMA TypeRecord ==
  ASSUME TypeInv, NEW w \in Writer, NEW x \in Item, Record(w, x)
  PROVE  TypeInv'
<1>t. TypeOK
  BY DEF TypeInv
<1>0. next \in SeqN /\ next \in Nat /\ MaxSeq \in Nat /\ next' = next + 1 /\ None \notin Item /\ None \notin Nat
  BY <1>t, NextTyped, JournalAssumption DEF Record, SeqN
<1>1. /\ tx' = [tx EXCEPT ![w] = next] /\ itemOf' = [itemOf EXCEPT ![next] = x]
      /\ dels' \subseteq dels \cup {next} /\ rows' = rows /\ cl' = cl
      /\ UNCHANGED <<val, last, old, cur, seen, missed>>
  BY DEF Record
<1>2. next' \in 1..(MaxSeq + 1) /\ 1..(next - 1) \subseteq 1..(next' - 1) /\ next \in 1..(next' - 1)
  BY <1>0 DEF SeqN
<1>3. \A s \in SeqN : s < next => itemOf'[s] = itemOf[s]
  BY <1>0, <1>1 DEF TypeInv, TypeOK
<1>4. itemOf'[next] = x /\ itemOf' \in [SeqN -> Opt(Item)]
  BY <1>0, <1>1 DEF TypeInv, TypeOK, Opt
<1>5. tx' \in [Writer -> Opt(1..(next' - 1))]
  BY <1>1, <1>2 DEF TypeInv, TypeOK, Opt
<1>6. \A v \in Writer \ {w} : tx'[v] = tx[v]
  BY <1>1 DEF TypeInv, TypeOK
<1>7. tx'[w] = next
  BY <1>1 DEF TypeInv, TypeOK
<1>8. \A v \in Writer \ {w} : tx[v] # None => itemOf'[tx[v]] = itemOf[tx[v]] /\ itemOf[tx[v]] # x
  BY <1>t, <1>3, NextTyped DEF Record
<1>9. \A s \in rows : itemOf'[s] = itemOf[s] /\ s # next
  BY <1>t, <1>0, <1>3, NextTyped
<1>10. \A v \in Writer : tx'[v] # None => tx'[v] \notin rows' /\ itemOf'[tx'[v]] # None
  BY <1>t, <1>0, <1>1, <1>4, <1>6, <1>7, <1>8, <1>9, NextTyped
<1>11. TypeOK'
  <2>1. dels' \subseteq SeqN
    BY <1>0, <1>1 DEF TypeInv, TypeOK
  <2>2. \A s \in rows' : itemOf'[s] # None
    BY <1>t, <1>0, <1>1, <1>9, NextTyped
  <2>3. rows' \subseteq 1..(next' - 1)
    BY <1>t, <1>1, <1>2 DEF TypeOK
  <2> QED BY <1>t, <1>1, <1>2, <1>4, <1>5, <1>10, <2>1, <2>2, <2>3 DEF TypeOK
<1>12. Locks'
  BY <1>0, <1>4, <1>6, <1>7, <1>8 DEF TypeInv, Locks
<1>13. GotTyped'
  BY <1>0, <1>1, <1>3, SeqsInNat DEF TypeInv, GotTyped
<1> QED BY <1>11, <1>12, <1>13 DEF TypeInv

LEMMA TypeCommit ==
  ASSUME TypeInv, NEW w \in Writer, Commit(w)
  PROVE  TypeInv'
<1>t. TypeOK
  BY DEF TypeInv
<1> DEFINE s == tx[w]
<1>1. /\ s # None /\ s \in SeqN /\ s \in 1..(next - 1) /\ itemOf[s] \in Item /\ s \in Seq0 /\ 0 \in Seq0
  BY <1>t, NextTyped, SeqsInNat DEF Commit, TypeOK, Opt
<1>2. /\ rows' = rows \cup {s} /\ tx' = [tx EXCEPT ![w] = None]
      /\ val' = [val EXCEPT ![itemOf[s]] = IF s \in dels THEN 0 ELSE s]
      /\ last' = [last EXCEPT ![itemOf[s]] = s]
      /\ missed' \subseteq missed \cup {itemOf[s]}
      /\ UNCHANGED <<next, itemOf, dels, old, cur, seen, cl>>
  BY DEF Commit
<1>3. tx' \in [Writer -> Opt(1..(next - 1))] /\ tx'[w] = None /\ \A v \in Writer \ {w} : tx'[v] = tx[v]
  BY <1>t, <1>2 DEF TypeOK, Opt
<1>4. \A v \in Writer \ {w} : tx[v] # None => tx[v] # s
  BY <1>1 DEF TypeInv, Locks
<1>5. val' \in [Item -> Seq0] /\ last' \in [Item -> Seq0] /\ missed' \subseteq Item
  <2>1. (IF s \in dels THEN 0 ELSE s) \in Seq0
    BY <1>1
  <2> QED BY <1>t, <1>1, <1>2, <2>1 DEF TypeOK
<1>6. \A v \in Writer : tx'[v] # None => tx'[v] \notin rows' /\ itemOf'[tx'[v]] # None
  BY <1>t, <1>2, <1>3, <1>4 DEF TypeOK
<1>7. rows' \subseteq 1..(next - 1) /\ \A t \in rows' : itemOf[t] # None
  BY <1>t, <1>1, <1>2, JournalAssumption DEF TypeOK
<1>8. TypeOK'
  BY <1>t, <1>2, <1>3, <1>5, <1>6, <1>7 DEF TypeOK
<1>9. Locks' /\ GotTyped'
  BY <1>2, <1>3 DEF TypeInv, Locks, GotTyped
<1> QED BY <1>8, <1>9 DEF TypeInv

LEMMA TypeServer ==
  ASSUME TypeInv, (\E w \in Writer : Rollback(w)) \/ GrowOld \/ Prune
  PROVE  TypeInv'
<1>t. TypeOK
  BY DEF TypeInv
<1>1. ASSUME NEW w \in Writer, Rollback(w) PROVE TypeInv'
  <2>1. tx' = [tx EXCEPT ![w] = None] /\ UNCHANGED <<next, rows, itemOf, dels, val, last, old, cur, seen, cl, missed>>
    BY <1>1 DEF Rollback
  <2>2. tx' \in [Writer -> Opt(1..(next - 1))] /\ tx'[w] = None /\ \A v \in Writer \ {w} : tx'[v] = tx[v]
    BY <1>t, <2>1 DEF TypeOK, Opt
  <2> QED BY <1>t, <2>1, <2>2 DEF TypeInv, TypeOK, Locks, GotTyped
<1>2. CASE GrowOld
  <2>1. old' \in Seq0
    <3>1. Greatest(rows) \in Seq0 /\ Greatest(rows) \in Nat /\ old \in Seq0 /\ MaxSeq \in Nat
      BY <1>t, NextTyped, GreatestIs, SeqsInNat, JournalAssumption DEF TypeOK
    <3>2. old < Greatest(rows) /\ old' = old + 1
      BY <1>2, <3>1 DEF GrowOld, Seq0
    <3> QED BY <3>1, <3>2 DEF Seq0
  <2> QED BY <1>t, <1>2, <2>1 DEF GrowOld, TypeInv, TypeOK, Locks, GotTyped
<1>3. CASE Prune
  <2>1. rows' \subseteq rows /\ UNCHANGED <<next, itemOf, dels, val, last, tx, old, cur, seen, cl>>
    BY <1>3 DEF Prune
  <2>2. missed' \subseteq Item
    <3>1. \A t \in rows : itemOf[t] \in Item
      BY <1>t, NextTyped
    <3> QED BY <1>t, <1>3, <3>1 DEF Prune, TypeOK
  <2> QED BY <1>t, <2>1, <2>2 DEF TypeInv, TypeOK, Locks, GotTyped
<1> QED BY <1>1, <1>2, <1>3

(* What each step of the mirror makes of its record. *)
LEMMA BeginMakes ==
  ASSUME TypeOK, Begin
  PROVE  /\ cl' \in ClRec /\ cl'.pc = "pull" /\ cl'.head \in {Greatest(rows), None} /\ cl'.todo = Item
         /\ cl'.got = None /\ cl'.at = None
<1>1. PICK h \in {Greatest(rows), None} : cl' = [Idle EXCEPT !.pc = "pull", !.head = h, !.todo = Item]
  BY DEF Begin
<1>2. h \in Opt(Seq0)
  BY NextTyped, GreatestIs DEF Opt
<1> QED BY <1>1, <1>2, IdleTyped DEF ClRec

LEMMA TypeWalk ==
  ASSUME TypeInv, StartFull \/ PullEnd \/ PullStop \/ Offline \/ Crash \/ Reset \/ \E x \in Item : PullItem(x)
  PROVE  TypeInv'
<1>t. /\ TypeOK /\ cl \in ClRec /\ cur \in Opt(Seq0) /\ seen \in [Item -> Seq0] /\ missed \subseteq Item
      /\ val \in [Item -> Seq0] /\ cl.head \in Opt(Seq0) /\ cl.todo \subseteq Item
  BY ClTyped DEF TypeInv, TypeOK
<1>i. Idle \in ClRec /\ Idle.got = None
  BY IdleTyped
<1>1. CASE StartFull \/ Reset
  <2>1. Begin /\ UNCHANGED <<server, cur, seen, missed>>
    BY <1>1 DEF StartFull, Reset
  <2>2. cl' \in ClRec /\ cl'.got = None
    BY <1>t, <2>1, BeginMakes
  <2> QED BY <1>t, <2>1, <2>2, TypeMirror DEF GotTyped
<1>2. CASE PullEnd \/ Offline \/ Crash
  <2>1. cl' = Idle /\ cur' \in Opt(Seq0) /\ UNCHANGED <<server, seen, missed>>
    BY <1>2, <1>t DEF PullEnd, Offline, Crash
  <2> QED BY <1>t, <1>i, <2>1, TypeMirror DEF GotTyped
<1>3. CASE PullStop
  <2>1. cl' = [cl EXCEPT !.todo = {}] /\ missed' = missed \cup cl.todo /\ UNCHANGED <<server, cur, seen>>
    BY <1>3 DEF PullStop
  <2>2. cl' \in ClRec /\ cl'.got = cl.got
    BY <1>t, <2>1 DEF ClRec
  <2>3. GotTyped'
    BY <2>1, <2>2 DEF TypeInv, GotTyped, server
  <2> QED BY <1>t, <2>1, <2>2, <2>3, TypeMirror
<1>4. ASSUME NEW x \in Item, PullItem(x) PROVE TypeInv'
  <2>1. /\ cl' = [cl EXCEPT !.todo = cl.todo \ {x}] /\ missed' \subseteq missed \cup {x}
        /\ seen' = seen \/ seen' = [seen EXCEPT ![x] = IF val[x] # 0 THEN val[x] ELSE seen[x]]
        /\ UNCHANGED <<server, cur>>
    BY <1>4 DEF PullItem
  <2>2. cl' \in ClRec /\ cl'.got = cl.got
    BY <1>t, <2>1 DEF ClRec
  <2>3. seen' \in [Item -> Seq0]
    <3>1. (IF val[x] # 0 THEN val[x] ELSE seen[x]) \in Seq0
      BY <1>t
    <3> QED BY <1>t, <2>1, <3>1
  <2>4. GotTyped'
    BY <2>1, <2>2 DEF TypeInv, GotTyped, server
  <2> QED BY <1>t, <2>1, <2>2, <2>3, <2>4, TypeMirror
<1> QED BY <1>1, <1>2, <1>3, <1>4

LEMMA TypeQuery ==
  ASSUME TypeInv, Ask \/ QueryRows \/ QueryOldest \/ QueryNewest \/ Page
  PROVE  TypeInv'
<1>t. /\ TypeOK /\ cl \in ClRec /\ cur \in Opt(Seq0) /\ seen \in [Item -> Seq0] /\ missed \subseteq Item
      /\ rows \subseteq SeqN /\ rows \subseteq Seq0
  BY NextTyped, ClTyped DEF TypeInv, TypeOK
<1>i. Idle \in ClRec /\ Idle.got = None
  BY IdleTyped
<1>u. UNCHANGED <<server, cur, seen, missed>>
  BY DEF Ask, QueryRows, QueryOldest, QueryNewest, Page
<1>1. CASE Ask
  <2>1. cl' \in ClRec /\ cl'.got = None
    BY <1>1, <1>i DEF Ask, ClRec
  <2> QED BY <1>t, <1>u, <2>1, TypeMirror DEF GotTyped
<1>2. CASE QueryRows
  <2> DEFINE G == First({s \in rows : s > cur}, Limit + 1)
  <2>1. G \subseteq rows /\ cl' = [cl EXCEPT !.got = G]
    BY <1>2 DEF QueryRows, First
  <2> HIDE DEF G
  <2>2. cl' \in ClRec /\ cl'.got = G
    BY <1>t, <2>1 DEF ClRec, Opt
  <2>3. GotTyped'
    BY <1>t, <1>u, <2>1, <2>2, NextTyped DEF GotTyped, server
  <2> QED BY <1>t, <1>u, <2>2, <2>3, TypeMirror
<1>3. CASE QueryOldest \/ QueryNewest
  <2>1. Least(rows) \in Opt(Seq0) /\ Greatest(rows) \in Opt(Seq0)
    BY <1>t, LeastIs, GreatestIs DEF Opt
  <2>2. cl' \in ClRec /\ cl'.got = cl.got
    BY <1>t, <1>3, <2>1 DEF QueryOldest, QueryNewest, ClRec
  <2>3. GotTyped'
    BY <1>u, <2>2 DEF TypeInv, GotTyped, server
  <2> QED BY <1>t, <1>u, <2>2, <2>3, TypeMirror
<1>4. CASE Page
  <2> DEFINE G == First(cl.got, Limit)
  <2>1. cl.got # None /\ cl.got \subseteq SeqN
    BY <1>4, <1>t, ClTyped DEF Page, Answered, Opt
  <2>2. /\ G \subseteq cl.got
        /\ cl' = [Idle EXCEPT !.pc = "apply", !.got = G, !.rest = cl.got \ G, !.at = cur]
    BY <1>4 DEF Page, First
  <2> HIDE DEF G
  <2>3. cl' \in ClRec /\ cl'.got = G
    BY <1>i, <1>t, <2>1, <2>2 DEF ClRec, Opt
  <2>4. GotTyped'
    BY <1>u, <2>1, <2>2, <2>3 DEF TypeInv, GotTyped, server
  <2> QED BY <1>t, <1>u, <2>3, <2>4, TypeMirror
<1> QED BY <1>1, <1>2, <1>3, <1>4

LEMMA TypeApply ==
  ASSUME TypeInv, Apply \/ ApplyStop \/ PageEnd, cl.got # None
  PROVE  TypeInv'
<1>t. /\ TypeOK /\ cl \in ClRec /\ cur \in Opt(Seq0) /\ seen \in [Item -> Seq0] /\ missed \subseteq Item
      /\ cl.at \in Opt(Seq0) /\ 0 \in Seq0
  BY ClTyped, SeqsInNat DEF TypeInv, TypeOK
<1>i. Idle \in ClRec /\ Idle.got = None
  BY IdleTyped
<1>1. CASE ApplyStop \/ PageEnd
  <2>1. cl' \in ClRec /\ cl'.got = None
    BY <1>1, <1>i DEF ApplyStop, PageEnd, ClRec
  <2> QED BY <1>t, <1>1, <2>1, TypeMirror DEF GotTyped, ApplyStop, PageEnd
<1>2. CASE Apply
  <2> DEFINE s == Least(cl.got)
  <2>1. cl.got \subseteq SeqN /\ cl.got \subseteq Seq0 /\ cl.got # {}
    BY <1>2, <1>t, ClTyped, SeqsInNat DEF Apply, Opt
  <2>2. s \in cl.got /\ s \in Seq0 /\ itemOf[s] \in Item
    BY <2>1, LeastIs DEF TypeInv, GotTyped
  <2>3. /\ cl' = [cl EXCEPT !.got = cl.got \ {s}, !.at = s] /\ UNCHANGED <<server, cur>>
        /\ \/ seen' = [seen EXCEPT ![itemOf[s]] = IF s \in dels THEN 0 ELSE IF val[itemOf[s]] = s THEN s
                                                                            ELSE seen[itemOf[s]]]
           \/ seen' = seen
        /\ missed' \subseteq missed \cup {itemOf[s]}
    BY <1>2 DEF Apply
  <2> HIDE DEF s
  <2>4. cl' \in ClRec /\ cl'.got = cl.got \ {s}
    BY <1>t, <2>1, <2>2, <2>3 DEF ClRec, Opt
  <2>5. seen' \in [Item -> Seq0]
    <3>1. (IF s \in dels THEN 0 ELSE IF val[itemOf[s]] = s THEN s ELSE seen[itemOf[s]]) \in Seq0
      BY <1>t, <2>2
    <3> QED BY <1>t, <2>3, <3>1
  <2>6. GotTyped'
    BY <2>3, <2>4 DEF TypeInv, GotTyped, server
  <2> QED BY <1>t, <2>2, <2>3, <2>4, <2>5, <2>6, TypeMirror
<1> QED BY <1>1, <1>2

-----------------------------------------------------------------------------
(* The server *)

(* s was given out, and its transaction has ended. *)
Spent(s) == s \in Nat /\ s < next /\ \A w \in Writer : tx[w] # s

(* A file's last change is the greatest of its rows, those that retention  *)
(* has taken away included; an open transaction is younger than it and     *)
(* than all that may be taken away.                                        *)
Versions ==
  /\ \A w \in Writer : tx[w] # None => tx[w] > old /\ tx[w] > last[itemOf[tx[w]]]
  /\ \A s \in rows : s <= last[itemOf[s]]
  /\ \A x \in Item : Spent(last[x]) /\ (last[x] # 0 => itemOf[last[x]] = x)
  /\ \A x \in Item : val[x] = IF last[x] \in dels THEN 0 ELSE last[x]
  /\ \A s \in dels : s < next
  /\ old < next

(* What retention has taken is older than all that is left of the journal. *)
Pruned == \A x \in Item : last[x] \notin rows => last[x] <= old /\ \A t \in rows : last[x] < t

(* Something is left, if something changed within the retention. *)
Youngest == "pruneAll" \notin Faults => old = 0 \/ \E t \in rows : t > old

ServerInv == Versions /\ Pruned /\ Youngest

LEMMA ServerInit == Init => ServerInv
<1> SUFFICES ASSUME Init PROVE ServerInv
  OBVIOUS
<1>1. 0 # None /\ \A x \in Item : last[x] = 0 /\ val[x] = 0
  BY JournalAssumption DEF Init
<1> QED BY <1>1 DEF Init, ServerInv, Versions, Pruned, Youngest, Spent

LEMMA NumbersTyped ==
  ASSUME TypeOK
  PROVE  /\ next \in Nat /\ old \in Nat
         /\ \A x \in Item : last[x] \in Nat /\ val[x] \in Nat /\ seen[x] \in Nat
         /\ \A w \in Writer : tx[w] # None => tx[w] \in Nat
         /\ None \notin Nat /\ None \notin Item
  BY NextTyped, SeqsInNat, JournalAssumption DEF TypeOK

LEMMA ServerRecord ==
  ASSUME TypeInv, ServerInv, NEW w \in Writer, NEW x \in Item, Record(w, x)
  PROVE  ServerInv'
<1>t. TypeOK /\ next \in Nat /\ next \in SeqN
  BY NextTyped DEF TypeInv, Record, SeqN
<1>1. /\ tx' = [tx EXCEPT ![w] = next] /\ itemOf' = [itemOf EXCEPT ![next] = x]
      /\ dels' \subseteq dels \cup {next} /\ (dels' = dels \/ dels' = dels \cup {next})
      /\ next' = next + 1 /\ UNCHANGED <<rows, val, last, old>>
  BY DEF Record
<1>2. tx'[w] = next /\ \A v \in Writer \ {w} : tx'[v] = tx[v]
  BY <1>1, <1>t DEF TypeOK
<1>3. itemOf'[next] = x /\ \A s \in SeqN : s # next => itemOf'[s] = itemOf[s]
  BY <1>1, <1>t DEF TypeOK
<1>4. \A y \in Item : last[y] \in Nat /\ last[y] < next /\ Spent(last[y])'
  <2> SUFFICES ASSUME NEW y \in Item PROVE last[y] \in Nat /\ last[y] < next /\ Spent(last[y])'
    OBVIOUS
  <2>1. Spent(last[y])
    BY DEF ServerInv, Versions
  <2> QED BY <1>t, <1>1, <1>2, <2>1 DEF Spent
<1>5. \A v \in Writer : tx'[v] # None => tx'[v] > old' /\ tx'[v] > last'[itemOf'[tx'[v]]]
  <2>1. ASSUME NEW v \in Writer \ {w}, tx[v] # None PROVE tx[v] > old /\ tx[v] > last[itemOf'[tx[v]]]
    <3>1. tx[v] \in SeqN /\ tx[v] < next
      BY <1>t, <2>1, NextTyped
    <3>2. itemOf'[tx[v]] = itemOf[tx[v]]
      BY <1>t, <1>3, <3>1
    <3> QED BY <2>1, <3>2 DEF ServerInv, Versions
  <2>2. next > old /\ next > last[x]
    BY <1>t, <1>4, NumbersTyped DEF ServerInv, Versions
  <2> QED BY <1>1, <1>2, <1>3, <2>1, <2>2
<1>6. \A s \in rows' : s <= last'[itemOf'[s]]
  <2>1. \A s \in rows : s \in SeqN /\ s # next
    BY <1>t, NextTyped
  <2> QED BY <1>1, <1>3, <2>1 DEF ServerInv, Versions
<1>7. \A y \in Item : last'[y] # 0 => itemOf'[last'[y]] = y
  <2> SUFFICES ASSUME NEW y \in Item, last[y] # 0 PROVE itemOf'[last[y]] = y
    BY <1>1
  <2>1. last[y] \in SeqN /\ last[y] # next
    BY <1>t, <1>4, JournalAssumption DEF SeqN
  <2> QED BY <1>3, <2>1 DEF ServerInv, Versions
<1>8. \A y \in Item : val'[y] = IF last'[y] \in dels' THEN 0 ELSE last'[y]
  <2> SUFFICES ASSUME NEW y \in Item PROVE val[y] = IF last[y] \in dels' THEN 0 ELSE last[y]
    BY <1>1
  <2>1. last[y] \in dels' <=> last[y] \in dels
    BY <1>t, <1>1, <1>4
  <2> QED BY <2>1 DEF ServerInv, Versions
<1>9. (\A s \in dels' : s < next') /\ old' < next'
  <2>1. \A s \in dels : s \in Nat
    BY <1>t, SeqsInNat DEF TypeOK
  <2>2. \A s \in dels : s < next
    BY DEF ServerInv, Versions
  <2>3. old < next /\ old \in Nat
    BY <1>t, NumbersTyped DEF ServerInv, Versions
  <2> QED BY <1>t, <1>1, <2>1, <2>2, <2>3
<1>10. Versions'
  BY <1>1, <1>4, <1>5, <1>6, <1>7, <1>8, <1>9 DEF Versions
<1> QED BY <1>1, <1>10 DEF ServerInv, Pruned, Youngest

LEMMA ServerCommit ==
  ASSUME TypeInv, ServerInv, NEW w \in Writer, Commit(w)
  PROVE  ServerInv'
<1> DEFINE s == tx[w]
           x == itemOf[s]
<1>t. TypeOK /\ next \in Nat /\ old \in Nat /\ None \notin Nat
  BY NumbersTyped DEF TypeInv
<1>1. s # None /\ s \in Nat /\ s >= 1 /\ s < next /\ x \in Item /\ s > old /\ s > last[x] /\ last[x] \in Nat
  <2>1. s # None
    BY DEF Commit
  <2>2. s \in SeqN /\ s < next /\ x \in Item
    BY <1>t, <2>1, NextTyped
  <2>3. s \in Nat /\ s >= 1
    BY <2>2, JournalAssumption DEF SeqN
  <2>4. s > old /\ s > last[x] /\ last[x] \in Nat
    BY <1>t, <2>1, <2>2, NumbersTyped DEF ServerInv, Versions
  <2> QED BY <2>1, <2>2, <2>3, <2>4
<1>2. /\ rows' = rows \cup {s} /\ tx' = [tx EXCEPT ![w] = None]
      /\ val' = [val EXCEPT ![x] = IF s \in dels THEN 0 ELSE s] /\ last' = [last EXCEPT ![x] = s]
      /\ UNCHANGED <<next, itemOf, dels, old>>
  BY DEF Commit
<1> HIDE DEF s
<1>3. tx'[w] = None /\ \A v \in Writer \ {w} : tx'[v] = tx[v]
  BY <1>t, <1>2 DEF TypeOK
<1>4. /\ last'[x] = s /\ val'[x] = IF s \in dels THEN 0 ELSE s
      /\ \A y \in Item \ {x} : last'[y] = last[y] /\ val'[y] = val[y]
  BY <1>t, <1>1, <1>2 DEF TypeOK
<1>5. \A v \in Writer \ {w} : tx[v] # None => tx[v] # s /\ itemOf[tx[v]] \in Item \ {x}
  BY <1>t, <1>1, NextTyped DEF TypeInv, Locks, s
<1>6. \A v \in Writer : tx'[v] # None => tx'[v] > old' /\ tx'[v] > last'[itemOf'[tx'[v]]]
  BY <1>2, <1>3, <1>4, <1>5 DEF ServerInv, Versions
<1>7. \A t \in rows' : t <= last'[itemOf'[t]]
  <2> SUFFICES ASSUME NEW t \in rows' PROVE t <= last'[itemOf[t]]
    BY <1>2
  <2>1. CASE t = s
    BY <1>1, <1>4, <2>1
  <2>2. CASE t \in rows
    <3>1. t <= last[itemOf[t]] /\ itemOf[t] \in Item /\ t \in Nat
      BY <1>t, <2>2, NextTyped DEF ServerInv, Versions
    <3> QED BY <1>1, <1>4, <3>1
  <2> QED BY <1>2, <2>1, <2>2
<1>8. \A y \in Item : Spent(last[y])' /\ (last'[y] # 0 => itemOf'[last'[y]] = y)
  <2> SUFFICES ASSUME NEW y \in Item PROVE Spent(last[y])' /\ (last'[y] # 0 => itemOf'[last'[y]] = y)
    OBVIOUS
  <2>1. CASE y = x
    <3>1. \A v \in Writer : tx'[v] # s
      BY <1>1, <1>3, <1>5, <1>t
    <3> QED BY <1>1, <1>2, <1>4, <2>1, <3>1 DEF Spent
  <2>2. CASE y # x
    <3>1. Spent(last[y]) /\ (last[y] # 0 => itemOf[last[y]] = y) /\ last'[y] = last[y]
      BY <1>4, <2>2 DEF ServerInv, Versions
    <3> QED BY <1>t, <1>2, <1>3, <3>1 DEF Spent
  <2> QED BY <2>1, <2>2
<1>9. \A y \in Item : val'[y] = IF last'[y] \in dels' THEN 0 ELSE last'[y]
  BY <1>2, <1>4 DEF ServerInv, Versions
<1>10. Versions'
  BY <1>2, <1>6, <1>7, <1>8, <1>9 DEF ServerInv, Versions
<1>11. Pruned'
  <2> SUFFICES ASSUME NEW y \in Item, last'[y] \notin rows'
               PROVE  last'[y] <= old' /\ \A t \in rows' : last'[y] < t
    BY DEF Pruned
  <2>1. y # x /\ last'[y] = last[y] /\ last[y] \notin rows
    BY <1>2, <1>4
  <2>2. last[y] <= old /\ \A t \in rows : last[y] < t
    BY <2>1 DEF ServerInv, Pruned
  <2>3. last[y] \in Nat
    BY <1>t, NumbersTyped
  <2>4. last[y] < s
    BY <1>1, <1>t, <2>2, <2>3
  <2> QED BY <1>2, <2>1, <2>2, <2>4
<1>12. Youngest'
  BY <1>2 DEF ServerInv, Youngest
<1> QED BY <1>10, <1>11, <1>12 DEF ServerInv

LEMMA ServerAging ==
  ASSUME TypeInv, ServerInv, (\E w \in Writer : Rollback(w)) \/ GrowOld \/ Prune
  PROVE  ServerInv'
<1>t. /\ TypeOK /\ next \in Nat /\ old \in Nat /\ \A x \in Item : last[x] \in Nat
      /\ \A t \in rows : t \in Nat /\ t < next
  BY NumbersTyped, NextTyped DEF TypeInv
<1>1. ASSUME NEW w \in Writer, Rollback(w) PROVE ServerInv'
  <2>1. tx' = [tx EXCEPT ![w] = None] /\ UNCHANGED <<next, rows, itemOf, dels, val, last, old>>
    BY <1>1 DEF Rollback
  <2>2. tx'[w] = None /\ \A v \in Writer \ {w} : tx'[v] = tx[v]
    BY <1>t, <2>1 DEF TypeOK
  <2>3. \A x \in Item : Spent(last[x])'
    <3> SUFFICES ASSUME NEW x \in Item PROVE Spent(last[x])'
      OBVIOUS
    <3>1. Spent(last[x]) /\ last[x] # None
      BY <1>t, JournalAssumption DEF ServerInv, Versions
    <3> QED BY <2>1, <2>2, <3>1 DEF Spent
  <2>4. Versions'
    BY <2>1, <2>2, <2>3 DEF ServerInv, Versions
  <2> QED BY <2>1, <2>4 DEF ServerInv, Pruned, Youngest
<1>2. CASE GrowOld
  <2>1. /\ \A w \in Writer : tx[w] = None
        /\ old < IF "pruneAll" \in Faults THEN Greatest(rows) ELSE Greatest(rows) - 1
        /\ old' = old + 1 /\ UNCHANGED <<next, rows, itemOf, dels, val, last, tx>>
    BY <1>2 DEF GrowOld
  <2>2. Greatest(rows) \in Nat /\ (rows = {} => Greatest(rows) = 0) /\ (rows # {} => Greatest(rows) \in rows)
    BY <1>t, NextTyped, GreatestIs, SeqsInNat
  <2>3. rows # {} /\ Greatest(rows) \in rows /\ Greatest(rows) < next /\ old < Greatest(rows)
    BY <1>t, <2>1, <2>2
  <2>4. old' \in Nat /\ old' < next /\ old < old'
    BY <1>t, <2>1, <2>2, <2>3
  <2>5. \A x \in Item : Spent(last[x])'
    BY <2>1 DEF ServerInv, Versions, Spent
  <2>6. Versions'
    BY <2>1, <2>4, <2>5 DEF ServerInv, Versions
  <2>7. Pruned'
    BY <1>t, <2>1, <2>4 DEF ServerInv, Pruned
  <2>8. Youngest'
    BY <1>t, <2>1, <2>2, <2>3 DEF Youngest
  <2> QED BY <2>6, <2>7, <2>8 DEF ServerInv
<1>3. CASE Prune
  <2>1. PICK s \in rows : s <= old /\ rows' = {t \in rows : t > s}
    BY <1>3 DEF Prune
  <2>2. UNCHANGED <<next, itemOf, dels, val, last, tx, old>>
    BY <1>3 DEF Prune
  <2>3. \A x \in Item : Spent(last[x])'
    BY <2>2 DEF ServerInv, Versions, Spent
  <2>4. Versions'
    BY <2>1, <2>2, <2>3 DEF ServerInv, Versions
  <2>5. Pruned'
    <3> SUFFICES ASSUME NEW x \in Item, last[x] \notin rows'
                 PROVE  last[x] <= old /\ \A t \in rows' : last[x] < t
      BY <2>2 DEF Pruned
    <3>1. CASE last[x] \notin rows
      BY <2>1, <3>1 DEF ServerInv, Pruned
    <3>2. CASE last[x] \in rows
      BY <1>t, <2>1, <3>2
    <3> QED BY <3>1, <3>2
  <2>6. Youngest'
    BY <1>t, <2>1, <2>2 DEF ServerInv, Youngest
  <2> QED BY <2>4, <2>5, <2>6 DEF ServerInv
<1> QED BY <1>1, <1>2, <1>3

LEMMA ServerRests == ASSUME ServerInv, UNCHANGED server PROVE ServerInv'
<1>1. UNCHANGED <<next, rows, itemOf, dels, val, last, tx, old>>
  BY DEF server
<1>2. \A x \in Item : Spent(last[x])'
  BY <1>1 DEF ServerInv, Versions, Spent
<1> QED BY <1>1, <1>2 DEF ServerInv, Versions, Pruned, Youngest

-----------------------------------------------------------------------------
(* What the mirror has in its hands *)

(* The numbers the mirror works with were given out and are settled, and   *)
(* each thing it does has its own of them.                                 *)
Shape ==
  /\ cl.pc = "idle" => cl = Idle
  /\ cl.pc = "pull" => cl.got = None /\ cl.at = None
  /\ cl.pc = "ask" => cl.head = None /\ cl.at = None /\ cur # None
  /\ cl.pc = "apply" => cl.head = None /\ cl.at # None /\ cl.got # None /\ cur # None
  /\ \A s \in {cur, cl.head, cl.at} : s # None => Spent(s)
  /\ cl.got # None => \A s \in cl.got : Spent(s) /\ s > cur /\ s <= last[itemOf[s]]

LEMMA ShapeInit == Init => Shape
  BY IdleTyped, JournalAssumption DEF Init, Shape, Spent

(* A number that is settled stays so, whatever the server does. *)
LEMMA SpentStays ==
  ASSUME TypeInv, NEW s, Spent(s),
         \/ \E w \in Writer : (\E x \in Item : Record(w, x)) \/ Commit(w) \/ Rollback(w)
         \/ GrowOld \/ Prune \/ UNCHANGED server
  PROVE  Spent(s)'
<1>t. TypeOK /\ next \in Nat /\ s # None
  BY NumbersTyped DEF TypeInv, Spent
<1>1. CASE GrowOld \/ Prune \/ UNCHANGED server
  BY <1>1 DEF GrowOld, Prune, server, Spent
<1>2. ASSUME NEW w \in Writer, Commit(w) \/ Rollback(w) PROVE Spent(s)'
  <2>1. tx' = [tx EXCEPT ![w] = None] /\ next' = next
    BY <1>2 DEF Commit, Rollback
  <2>2. \A v \in Writer : tx'[v] \in {tx[v], None}
    BY <1>t, <2>1 DEF TypeOK
  <2> QED BY <1>t, <2>1, <2>2 DEF Spent
<1>3. ASSUME NEW w \in Writer, NEW x \in Item, Record(w, x) PROVE Spent(s)'
  <2>1. tx' = [tx EXCEPT ![w] = next] /\ next' = next + 1
    BY <1>3 DEF Record
  <2>2. \A v \in Writer : tx'[v] \in {tx[v], next}
    BY <1>t, <2>1 DEF TypeOK
  <2> QED BY <1>t, <2>1, <2>2 DEF Spent
<1> QED BY <1>1, <1>2, <1>3

(* Nor does a row the mirror was given become younger than its file. *)
LEMMA ShapeServer ==
  ASSUME TypeInv, ServerInv, Shape,
         \/ \E w \in Writer : (\E x \in Item : Record(w, x)) \/ Commit(w) \/ Rollback(w)
         \/ GrowOld \/ Prune
  PROVE  Shape'
<1>t. TypeOK /\ next \in Nat /\ \A x \in Item : last[x] \in Nat
  BY NumbersTyped DEF TypeInv
<1>1. cl' = cl /\ cur' = cur
  BY DEF Record, Commit, Rollback, GrowOld, Prune
<1>2. \A s : Spent(s) => Spent(s)'
  BY SpentStays
<1>3. ASSUME cl.got # None, NEW s \in cl.got PROVE s <= last'[itemOf'[s]]
  <2>0. s \in SeqN /\ s < next /\ s \in Nat /\ itemOf[s] \in Item /\ s <= last[itemOf[s]]
    BY <1>3, SeqsInNat DEF TypeInv, GotTyped, Shape
  <2>1. CASE UNCHANGED <<itemOf, last>>
    BY <2>0, <2>1
  <2>2. ASSUME NEW w \in Writer, NEW x \in Item, Record(w, x) PROVE s <= last'[itemOf'[s]]
    <3>1. itemOf' = [itemOf EXCEPT ![next] = x] /\ last' = last /\ s # next
      BY <1>t, <2>0, <2>2 DEF Record
    <3>2. itemOf'[s] = itemOf[s]
      BY <1>t, <2>0, <3>1 DEF TypeOK
    <3> QED BY <2>0, <3>1, <3>2
  <2>3. ASSUME NEW w \in Writer, Commit(w) PROVE s <= last'[itemOf'[s]]
    <3>1. last' = [last EXCEPT ![itemOf[tx[w]]] = tx[w]] /\ itemOf' = itemOf /\ tx[w] # None
      BY <2>3 DEF Commit
    <3>2. tx[w] > last[itemOf[tx[w]]] /\ itemOf[tx[w]] \in Item /\ tx[w] \in Nat
      BY <1>t, <3>1, NextTyped, NumbersTyped DEF ServerInv, Versions
    <3>3. last'[itemOf[s]] = IF itemOf[s] = itemOf[tx[w]] THEN tx[w] ELSE last[itemOf[s]]
      BY <1>t, <2>0, <3>1, <3>2 DEF TypeOK
    <3> QED BY <1>t, <2>0, <3>1, <3>2, <3>3
  <2>4. (\E w \in Writer : Rollback(w)) \/ GrowOld \/ Prune => UNCHANGED <<itemOf, last>>
    BY DEF Rollback, GrowOld, Prune
  <2> QED BY <2>1, <2>2, <2>3, <2>4
<1> QED BY <1>1, <1>2, <1>3 DEF Shape

LEMMA RowSpent ==
  ASSUME TypeInv
  PROVE  /\ Spent(0) /\ Spent(Greatest(rows)) /\ \A s \in rows : Spent(s)
         /\ Greatest(rows) \in Nat /\ \A t \in rows : t <= Greatest(rows)
<1>t. /\ TypeOK /\ next \in Nat /\ next >= 1 /\ rows \subseteq Seq0
      /\ \A w \in Writer : tx[w] # None => tx[w] \in SeqN /\ tx[w] \notin rows
      /\ \A s \in rows : s \in Nat /\ s < next
  BY NextTyped DEF TypeInv
<1>1. None \notin Nat /\ \A s \in SeqN : s # 0
  BY JournalAssumption DEF SeqN
<1>2. Spent(0) /\ \A s \in rows : Spent(s)
  BY <1>t, <1>1 DEF Spent
<1> QED BY <1>t, <1>2, GreatestIs, SeqsInNat

LEMMA ShapeWalk ==
  ASSUME TypeInv, ServerInv, Shape,
         StartFull \/ PullEnd \/ PullStop \/ Offline \/ Crash \/ Reset \/ \E x \in Item : PullItem(x)
  PROVE  Shape'
<1>t. TypeOK /\ cl \in ClRec
  BY ClTyped DEF TypeInv
<1>i. Idle.pc = "idle" /\ Idle.head = None /\ Idle.got = None /\ Idle.at = None
  BY IdleTyped
<1>u. UNCHANGED server
  BY DEF StartFull, PullEnd, PullStop, Offline, Crash, Reset, PullItem
<1>s. \A s : Spent(s) => Spent(s)'
  BY <1>u DEF Spent, server
<1>1. CASE StartFull \/ Reset
  <2>1. Begin /\ cur' = cur
    BY <1>1 DEF StartFull, Reset
  <2>2. cl'.pc = "pull" /\ cl'.head \in {Greatest(rows), None} /\ cl'.got = None /\ cl'.at = None
    BY <1>t, <2>1, BeginMakes
  <2> QED BY <1>s, <2>1, <2>2, RowSpent DEF Shape
<1>2. CASE PullEnd \/ Offline \/ Crash
  <2>1. cl' = Idle /\ cur' \in {cur, cl.head}
    BY <1>2 DEF PullEnd, Offline, Crash
  <2> QED BY <1>s, <1>i, <2>1 DEF Shape
<1>3. CASE PullStop \/ \E x \in Item : PullItem(x)
  <2>1. cl.pc = "pull" /\ cur' = cur /\ \E T : cl' = [cl EXCEPT !.todo = T]
    BY <1>3 DEF PullStop, PullItem
  <2>2. cl'.pc = "pull" /\ cl'.head = cl.head /\ cl'.got = cl.got /\ cl'.at = cl.at
    BY <1>t, <2>1 DEF ClRec
  <2> QED BY <1>s, <2>1, <2>2 DEF Shape
<1> QED BY <1>1, <1>2, <1>3

LEMMA ShapeAnswers ==
  ASSUME TypeInv, ServerInv, Shape,
         Ask \/ QueryRows \/ QueryOldest \/ QueryNewest \/ Page \/ Apply \/ ApplyStop \/ PageEnd
  PROVE  Shape'
<1>t. TypeOK /\ cl \in ClRec /\ rows \subseteq SeqN /\ rows \subseteq Seq0
  BY ClTyped, NextTyped DEF TypeInv
<1>i. Idle \in ClRec /\ Idle.pc = "idle" /\ Idle.head = None /\ Idle.got = None /\ Idle.at = None
  BY IdleTyped
<1>u. UNCHANGED server
  BY DEF Ask, QueryRows, QueryOldest, QueryNewest, Page, Apply, ApplyStop, PageEnd
<1>s. itemOf' = itemOf /\ last' = last /\ \A s : Spent(s) => Spent(s)'
  BY <1>u DEF Spent, server
<1>1. CASE Ask
  <2>1. cl' = [Idle EXCEPT !.pc = "ask"] /\ cur' = cur /\ cur # None
    BY <1>1 DEF Ask
  <2>2. cl'.pc = "ask" /\ cl'.head = None /\ cl'.got = None /\ cl'.at = None
    BY <1>i, <2>1 DEF ClRec
  <2> QED BY <1>s, <2>1, <2>2 DEF Shape
<1>2. CASE QueryRows
  <2> DEFINE G == First({s \in rows : s > cur}, Limit + 1)
  <2>1. G \subseteq {s \in rows : s > cur} /\ cl' = [cl EXCEPT !.got = G] /\ cur' = cur /\ cl.pc = "ask"
    BY <1>2 DEF QueryRows, First
  <2> HIDE DEF G
  <2>2. cl'.pc = "ask" /\ cl'.head = cl.head /\ cl'.got = G /\ cl'.at = cl.at
    BY <1>t, <2>1 DEF ClRec
  <2>3. \A s \in G : Spent(s) /\ s > cur /\ s <= last[itemOf[s]]
    BY <2>1, RowSpent DEF ServerInv, Versions
  <2> QED BY <1>s, <2>1, <2>2, <2>3 DEF Shape
<1>3. CASE QueryOldest \/ QueryNewest
  <2>1. cl'.pc = "ask" /\ cl.pc = "ask" /\ cl'.head = cl.head /\ cl'.got = cl.got /\ cl'.at = cl.at /\ cur' = cur
    BY <1>t, <1>3 DEF QueryOldest, QueryNewest, ClRec
  <2> QED BY <1>s, <2>1 DEF Shape
<1>4. CASE Page
  <2> DEFINE G == First(cl.got, Limit)
  <2>1. /\ G \subseteq cl.got /\ cl.got # None /\ cl.pc = "ask" /\ cur' = cur
        /\ cl' = [Idle EXCEPT !.pc = "apply", !.got = G, !.rest = cl.got \ G, !.at = cur]
    BY <1>4 DEF Page, First, Answered
  <2>n. G # None
    BY <1>t, <2>1, ClTyped, JournalAssumption DEF Opt, SeqN
  <2> HIDE DEF G
  <2>2. cl'.pc = "apply" /\ cl'.head = None /\ cl'.got = G /\ cl'.at = cur
    BY <1>i, <2>1 DEF ClRec
  <2> QED BY <1>s, <2>1, <2>n, <2>2 DEF Shape
<1>5. CASE Apply
  <2> DEFINE s == Least(cl.got)
  <2>1. cl.pc = "apply" /\ cl' = [cl EXCEPT !.got = cl.got \ {s}, !.at = s] /\ cur' = cur /\ cl.got # {}
    BY <1>5 DEF Apply
  <2>2. s \in cl.got /\ cl.got \subseteq SeqN /\ s \in Seq0 /\ s # None
    BY <1>t, <2>1, ClTyped, LeastIs, SeqsInNat DEF Shape, Opt
  <2> HIDE DEF s
  <2>3. cl'.pc = "apply" /\ cl'.head = cl.head /\ cl'.got = cl.got \ {s} /\ cl'.at = s
    BY <1>t, <2>1 DEF ClRec
  <2>4. cl.got \ {s} # None
    BY <2>2, JournalAssumption DEF SeqN
  <2>5. Spent(s) /\ cl.head = None /\ cur # None /\ cl.got # None
    BY <2>1, <2>2 DEF Shape
  <2> QED BY <1>s, <2>1, <2>2, <2>3, <2>4, <2>5 DEF Shape
<1>6. CASE ApplyStop \/ PageEnd
  <2>1. cl.pc = "apply" /\ cur' = cl.at /\ cl' \in {Idle, [Idle EXCEPT !.pc = "ask"]}
    BY <1>6 DEF ApplyStop, PageEnd
  <2>2. cl'.pc \in {"idle", "ask"} /\ (cl'.pc = "idle" => cl' = Idle) /\ cl'.head = None /\ cl'.got = None /\ cl'.at = None
    BY <1>i, <2>1 DEF ClRec
  <2> QED BY <1>s, <2>1, <2>2 DEF Shape
<1> QED BY <1>1, <1>2, <1>3, <1>4, <1>5, <1>6

-----------------------------------------------------------------------------
(* Types, numbers and the mirror's records together *)

Grounds == TypeInv /\ ServerInv /\ Shape

ServerStep ==
  \/ \E w \in Writer : (\E x \in Item : Record(w, x)) \/ Commit(w) \/ Rollback(w)
  \/ GrowOld \/ Prune

WalkStep ==
  StartFull \/ PullEnd \/ PullStop \/ Offline \/ Crash \/ Reset \/ \E x \in Item : PullItem(x)

AnswerStep ==
  Ask \/ QueryRows \/ QueryOldest \/ QueryNewest \/ Page \/ Apply \/ ApplyStop \/ PageEnd

LEMMA StepKinds == Next => ServerStep \/ WalkStep \/ AnswerStep
  BY DEF Next, Mirror, ServerStep, WalkStep, AnswerStep

LEMMA MirrorSteps == WalkStep \/ AnswerStep => UNCHANGED server
  BY DEF WalkStep, AnswerStep, StartFull, PullEnd, PullStop, Offline, Crash, Reset, PullItem,
         Ask, QueryRows, QueryOldest, QueryNewest, Page, Apply, ApplyStop, PageEnd

LEMMA GroundsInit == Init => Grounds
  BY TypeInit, ServerInit, ShapeInit DEF Grounds

LEMMA GroundsStep == Grounds /\ [Next]_vars => Grounds'
<1> SUFFICES ASSUME Grounds, [Next]_vars PROVE Grounds'
  OBVIOUS
<1>g. TypeInv /\ ServerInv /\ Shape
  BY DEF Grounds
<1>1. CASE UNCHANGED vars
  <2>1. UNCHANGED server /\ UNCHANGED <<itemOf, last>>
    BY <1>1 DEF vars, server
  <2>2. ServerInv'
    BY <1>g, <2>1, ServerRests
  <2>3. TypeInv'
    BY <1>1, <1>g DEF vars, TypeInv, TypeOK, Locks, GotTyped
  <2>4. \A s : Spent(s) => Spent(s)'
    BY <1>1 DEF vars, Spent
  <2>5. Shape'
    BY <1>1, <1>g, <2>1, <2>4 DEF vars, Shape
  <2> QED BY <2>2, <2>3, <2>5 DEF Grounds
<1>2. CASE ServerStep
  <2>1. Shape'
    BY <1>g, <1>2, ShapeServer DEF ServerStep
  <2>2. TypeInv'
    BY <1>g, <1>2, TypeRecord, TypeCommit, TypeServer DEF ServerStep
  <2>3. ServerInv'
    BY <1>g, <1>2, ServerRecord, ServerCommit, ServerAging DEF ServerStep
  <2> QED BY <2>1, <2>2, <2>3 DEF Grounds
<1>3. CASE WalkStep
  <2>1. Shape'
    BY <1>g, <1>3, ShapeWalk DEF WalkStep
  <2>2. TypeInv'
    BY <1>g, <1>3, TypeWalk DEF WalkStep
  <2>3. ServerInv'
    BY <1>g, <1>3, MirrorSteps, ServerRests
  <2> QED BY <2>1, <2>2, <2>3 DEF Grounds
<1>4. CASE AnswerStep
  <2>1. Shape'
    BY <1>g, <1>4, ShapeAnswers DEF AnswerStep
  <2>2. TypeInv'
    <3>1. Apply \/ ApplyStop \/ PageEnd => cl.got # None
      BY <1>g DEF Apply, ApplyStop, PageEnd, Shape
    <3>2. \/ Ask \/ QueryRows \/ QueryOldest \/ QueryNewest \/ Page
          \/ Apply \/ ApplyStop \/ PageEnd
      BY <1>4 DEF AnswerStep
    <3> QED BY <1>g, <3>1, <3>2, TypeQuery, TypeApply
  <2>3. ServerInv'
    BY <1>g, <1>4, MirrorSteps, ServerRests
  <2> QED BY <2>1, <2>2, <2>3 DEF Grounds
<1> QED BY <1>1, <1>2, <1>3, <1>4, StepKinds

(* Every reachable state of the journal and its mirror is well typed, for  *)
(* any number of files, transactions and rows on a page: no number is in   *)
(* the journal and in an open transaction at once.                         *)
THEOREM JournalTyped == Spec => []TypeOK
<1>1. Grounds => TypeOK
  BY DEF Grounds, TypeInv
<1> QED BY <1>1, GroundsInit, GroundsStep, PTL DEF Spec

-----------------------------------------------------------------------------
(* The mirror does not go back *)

(* It holds no version that is not yet committed. *)
Back == \A x \in Item : seen[x] <= last[x]

Forward == \A x \in Item : seen'[x] >= seen[x] \/ seen'[x] = 0

(* What a step writes over a version is the file's present one, or nothing. *)
LEMMA SeenStep ==
  ASSUME Grounds, [Next]_vars, NEW x \in Item
  PROVE  seen'[x] \in {seen[x], val[x], 0}
<1>t. TypeOK /\ TypeInv /\ Shape
  BY DEF Grounds, TypeInv
<1>1. CASE UNCHANGED seen
  BY <1>1
<1>2. ASSUME NEW y \in Item, PullItem(y) PROVE seen'[x] \in {seen[x], val[x], 0}
  <2>1. seen' = seen \/ seen' = [seen EXCEPT ![y] = IF val[y] # 0 THEN val[y] ELSE seen[y]]
    BY <1>2 DEF PullItem
  <2> QED BY <1>t, <2>1 DEF TypeOK
<1>3. CASE Apply
  <2> DEFINE s == Least(cl.got)
  <2>1. \/ seen' = seen
        \/ seen' = [seen EXCEPT ![itemOf[s]] = IF s \in dels THEN 0 ELSE IF val[itemOf[s]] = s THEN s
                                                                        ELSE seen[itemOf[s]]]
    BY <1>3 DEF Apply
  <2> HIDE DEF s
  <2> QED BY <1>t, <2>1 DEF TypeOK
<1>4. \/ UNCHANGED seen \/ (\E y \in Item : PullItem(y)) \/ Apply
  <2>1. ServerStep => UNCHANGED seen
    BY DEF ServerStep, Record, Commit, Rollback, GrowOld, Prune
  <2>2. WalkStep => UNCHANGED seen \/ \E y \in Item : PullItem(y)
    BY DEF WalkStep, StartFull, PullEnd, PullStop, Offline, Crash, Reset
  <2>3. AnswerStep => UNCHANGED seen \/ Apply
    BY DEF AnswerStep, Ask, QueryRows, QueryOldest, QueryNewest, Page, ApplyStop, PageEnd
  <2>4. UNCHANGED vars => UNCHANGED seen
    BY DEF vars
  <2> QED BY <2>1, <2>2, <2>3, <2>4, StepKinds
<1> QED BY <1>1, <1>2, <1>3, <1>4

(* Nor does the last change of a file go back on the server. *)
LEMMA LastGrows ==
  ASSUME Grounds, [Next]_vars, NEW x \in Item
  PROVE  last'[x] >= last[x]
<1>t. TypeOK /\ last[x] \in Nat /\ ServerInv
  BY NumbersTyped DEF Grounds, TypeInv
<1>1. ASSUME NEW w \in Writer, Commit(w) PROVE last'[x] >= last[x]
  <2>1. tx[w] # None /\ last' = [last EXCEPT ![itemOf[tx[w]]] = tx[w]]
    BY <1>1 DEF Commit
  <2>2. itemOf[tx[w]] \in Item /\ tx[w] > last[itemOf[tx[w]]] /\ tx[w] \in Nat
    BY <1>t, <2>1, NextTyped, NumbersTyped DEF ServerInv, Versions
  <2> QED BY <1>t, <2>1, <2>2 DEF TypeOK
<1>2. ServerStep => UNCHANGED last \/ \E w \in Writer : Commit(w)
  BY DEF ServerStep, Record, Rollback, GrowOld, Prune
<1>3. WalkStep \/ AnswerStep \/ UNCHANGED vars => UNCHANGED last
  BY MirrorSteps DEF server, vars
<1>4. UNCHANGED last => last'[x] >= last[x]
  BY <1>t
<1> QED BY <1>1, <1>2, <1>3, <1>4, StepKinds

LEMMA BackStep == Grounds /\ Back /\ [Next]_vars => Back' /\ Forward
<1> SUFFICES ASSUME Grounds, Back, [Next]_vars, NEW x \in Item
             PROVE  seen'[x] <= last'[x] /\ (seen'[x] >= seen[x] \/ seen'[x] = 0)
  BY DEF Back, Forward
<1>1. /\ seen[x] \in Nat /\ last[x] \in Nat /\ val[x] \in {0, last[x]} /\ seen[x] <= last[x]
      /\ last'[x] \in Nat
  <2>1. TypeOK /\ Grounds'
    BY GroundsStep DEF Grounds, TypeInv
  <2>2. last'[x] \in Nat
    BY <2>1, SeqsInNat DEF Grounds, TypeInv, TypeOK
  <2> QED BY <2>1, <2>2, NumbersTyped DEF Back, Grounds, ServerInv, Versions
<1>2. seen'[x] \in {seen[x], val[x], 0}
  BY SeenStep
<1>3. last'[x] >= last[x]
  BY LastGrows
<1> QED BY <1>1, <1>2, <1>3

(* A file on the mirror is never taken back to an older version, though a  *)
(* walk brings versions whose rows, and older ones, are still to be        *)
(* applied.                                                                *)
THEOREM NeverBack == Spec => MirrorNeverGoesBack
<1>1. Init => Back
  BY SeqsInNat DEF Init, Back
<1>2. Grounds /\ Back /\ [Next]_vars => [Forward]_seen
  BY BackStep
<1>3. Grounds /\ Back /\ [Next]_vars => Back'
  BY BackStep
<1>4. [][Forward]_seen => MirrorNeverGoesBack
  BY DEF Forward, MirrorNeverGoesBack
<1> QED BY <1>1, <1>2, <1>3, <1>4, GroundsInit, GroundsStep, PTL DEF Spec

-----------------------------------------------------------------------------
(* What the mirror holds and what is still to come to it *)

(* Up to n the mirror has what the server has, save what it was told it    *)
(* missed and what is in S.                                                *)
Covered(n, S) == \A x \in Item \ (missed \cup S) : last[x] <= n => seen[x] = val[x]

(* Of the rows G behind n, none is the last of x, though later ones are    *)
(* there.                                                                  *)
Passed(x, n, G) == n < last[x] /\ last[x] \notin G /\ \E g \in G : last[x] <= g

(* If x is as it should be, no row of G will change it.                    *)
Brought(x, G) == seen[x] = val[x] /\ val[x] # 0 => \A g \in G : itemOf[g] # x

(* The page an answer is going to become. *)
Coming == First(cl.got, Limit)

CursorInv == cur # None => Covered(cur, {})

WalkInv == cl.pc = "pull" /\ cl.head # None => Covered(cl.head, cl.todo)

PageInv ==
  cl.pc = "apply" =>
    /\ Covered(cl.at, {}) /\ Coming = cl.got /\ \A g \in cl.got : g > cl.at
    /\ \A x \in Item : Passed(x, cl.at, cl.got) =>
         (x \in missed \/ (seen[x] = 0 /\ val[x] = 0)) /\ Brought(x, cl.got)

(* An answer whose oldest row is behind a file that is not in the journal  *)
(* any more asks for a walk.                                               *)
OldestInv ==
  cl.pc = "ask" /\ cl.min # None =>
    \A x \in Item \ missed : last[x] \notin rows /\ last[x] > cur => cl.min # 0 /\ cur + 1 < cl.min

RowsInv ==
  cl.pc = "ask" /\ cl.got # None =>
    \A x \in Item : Passed(x, cur, Coming) => (x \in missed \/ last[x] \notin rows) /\ Brought(x, Coming)

Holds == CursorInv /\ WalkInv /\ PageInv /\ OldestInv /\ RowsInv

LEMMA HoldsInit == Init => Holds
  BY IdleTyped DEF Init, Holds, CursorInv, WalkInv, PageInv, OldestInv, RowsInv, Covered

(* What left the server is not after Served. *)
LEMMA ServedBounds ==
  ASSUME Grounds
  PROVE  /\ Served \in Nat
         /\ cur # None => cur <= Served
         /\ cl.head # None => cl.head <= Served
         /\ cl.at # None => cl.at <= Served
         /\ cl.got # None => \A g \in Coming : g <= Served /\ g \in cl.got /\ g \in Nat
<1> DEFINE F == IF cl.got = None THEN {} ELSE Coming
           S == ({cur, cl.head, cl.at} \cup F) \ {None}
<1>1. TypeOK
  BY DEF Grounds, TypeInv
<1>2. cl.got # None => cl.got \subseteq SeqN
  BY <1>1, ClTyped DEF Opt
<1>3. F \subseteq Seq0 /\ (cl.got # None => F = Coming /\ F \subseteq cl.got)
  BY <1>2, SeqsInNat DEF Coming, First
<1>4. {cur, cl.head, cl.at} \subseteq Opt(Seq0)
  BY <1>1, ClTyped DEF TypeOK
<1>5. S \subseteq Seq0
  BY <1>3, <1>4 DEF Opt
<1>6. Served = Greatest(S)
  BY DEF Served, Coming
<1> HIDE DEF F
<1>7. \A g \in F : g \in S /\ g \in Nat
  BY <1>3, SeqsInNat
<1>8. \A n \in {cur, cl.head, cl.at} : n # None => n \in S
  OBVIOUS
<1> HIDE DEF S
<1>9. Served \in Nat /\ \A n \in S : n <= Served
  BY <1>5, <1>6, GreatestIs, SeqsInNat
<1> QED BY <1>3, <1>7, <1>8, <1>9

(* The numbers these properties compare. *)
LEMMA HeldTyped ==
  ASSUME Grounds
  PROVE  /\ \A x \in Item : last[x] \in Nat /\ val[x] \in {0, last[x]} /\ seen[x] \in Nat /\ Spent(last[x])
         /\ cur # None => cur \in Nat /\ Spent(cur)
         /\ cl.head # None => cl.head \in Nat /\ Spent(cl.head)
         /\ cl.at # None => cl.at \in Nat /\ Spent(cl.at)
         /\ cl.got # None => \A g \in cl.got : g \in Nat /\ Spent(g) /\ g \in SeqN /\ itemOf[g] \in Item
         /\ \A t \in rows : t \in Nat /\ t >= 1
<1>1. TypeOK
  BY DEF Grounds, TypeInv
<1>2. /\ \A x \in Item : last[x] \in Nat /\ seen[x] \in Nat
      /\ \A t \in rows : t \in Nat /\ t >= 1
  BY <1>1, NumbersTyped, NextTyped
<1>3. \A x \in Item : val[x] \in {0, last[x]} /\ Spent(last[x])
  BY DEF Grounds, ServerInv, Versions
<1>4. /\ \A s : Spent(s) => s \in Nat
      /\ \A s \in {cur, cl.head, cl.at} : s # None => Spent(s)
      /\ cl.got # None => \A g \in cl.got : Spent(g)
  BY DEF Spent, Grounds, Shape
<1>5. cl.got # None => \A g \in cl.got : g \in SeqN /\ itemOf[g] \in Item
  BY DEF Grounds, TypeInv, GotTyped
<1> QED BY <1>2, <1>3, <1>4, <1>5

-----------------------------------------------------------------------------
(* What the server does meanwhile *)

(* A change of x that is committed behind what was served is counted as    *)
(* missed; any other is ahead of all of it.                                *)
LEMMA HoldsCommit ==
  ASSUME Grounds, Back, Holds, NEW w \in Writer, Commit(w)
  PROVE  Holds'
<1> DEFINE s == tx[w]
           x == itemOf[s]
<1>t. TypeOK /\ ServerInv /\ Shape /\ TypeInv
  BY DEF Grounds, TypeInv
<1>1. s # None /\ s \in Nat /\ s >= 1 /\ s \in SeqN /\ x \in Item /\ s > last[x]
  <2>1. s # None
    BY DEF Commit
  <2>2. s \in SeqN /\ x \in Item /\ s \in Nat
    BY <1>t, <2>1, NextTyped, NumbersTyped
  <2>3. s >= 1
    BY <2>2, JournalAssumption DEF SeqN
  <2> QED BY <1>t, <2>1, <2>2, <2>3 DEF ServerInv, Versions
<1>2. /\ missed' = IF s < Served THEN missed \cup {x} ELSE missed
      /\ rows' = rows \cup {s}
      /\ val' = [val EXCEPT ![x] = IF s \in dels THEN 0 ELSE s] /\ last' = [last EXCEPT ![x] = s]
      /\ UNCHANGED <<itemOf, cur, seen, cl>>
  BY DEF Commit
<1>3. /\ last'[x] = s /\ val'[x] \in {0, s}
      /\ \A y \in Item \ {x} : last'[y] = last[y] /\ val'[y] = val[y]
  BY <1>t, <1>1, <1>2 DEF TypeOK
<1>4. \A n : Spent(n) => n # s
  BY DEF Spent
<1> HIDE DEF s, x
<1>5. missed \subseteq missed' /\ missed' \subseteq missed \cup {x} /\ (s < Served => x \in missed')
  BY <1>2
<1>6. Served \in Nat
  BY ServedBounds
<1>7. \A y \in Item : last[y] \in Nat /\ seen[y] \in Nat /\ last[y] # s /\ seen[y] <= last[y]
  BY <1>4, HeldTyped DEF Back
<1>8. ASSUME NEW n \in Nat, n <= Served, n # s, NEW S, Covered(n, S)
      PROVE  \A y \in Item \ (missed' \cup S) : last'[y] <= n => seen'[y] = val'[y]
  <2> SUFFICES ASSUME NEW y \in Item \ (missed' \cup S), last'[y] <= n PROVE seen'[y] = val'[y]
    OBVIOUS
  <2>1. y # x
    BY <1>1, <1>2, <1>3, <1>5, <1>6, <1>8
  <2> QED BY <1>2, <1>3, <1>5, <1>8, <2>1 DEF Covered
<1>9. CursorInv'
  <2> SUFFICES ASSUME cur # None PROVE Covered(cur, {})'
    BY <1>2 DEF CursorInv
  <2>1. cur \in Nat /\ cur <= Served /\ cur # s /\ Covered(cur, {})
    BY <1>4, ServedBounds, HeldTyped DEF Holds, CursorInv
  <2>2. \A y \in Item \ (missed' \cup {}) : last'[y] <= cur => seen'[y] = val'[y]
    BY <1>8, <2>1
  <2> QED BY <1>2, <2>2 DEF Covered
<1>10. WalkInv'
  <2> SUFFICES ASSUME cl.pc = "pull", cl.head # None PROVE Covered(cl.head, cl.todo)'
    BY <1>2 DEF WalkInv
  <2>1. cl.head \in Nat /\ cl.head <= Served /\ cl.head # s /\ Covered(cl.head, cl.todo)
    BY <1>4, ServedBounds, HeldTyped DEF Holds, WalkInv
  <2>2. \A y \in Item \ (missed' \cup cl.todo) : last'[y] <= cl.head => seen'[y] = val'[y]
    BY <1>8, <2>1
  <2> QED BY <1>2, <2>2 DEF Covered
<1>11. ASSUME cl.got # None PROVE \A g \in Coming : s <= g => x \in missed'
  <2> SUFFICES ASSUME NEW g \in Coming, s <= g PROVE x \in missed'
    OBVIOUS
  <2>1. g <= Served /\ g \in Nat /\ g # s
    BY <1>4, <1>11, ServedBounds, HeldTyped
  <2> QED BY <1>1, <1>5, <1>6, <2>1
<1>12. ~(seen'[x] = val'[x] /\ val'[x] # 0)
  BY <1>1, <1>2, <1>3, <1>7
<1>13. Coming' = Coming
  BY <1>2 DEF Coming
<1>14. ASSUME NEW y \in Item \ {x}
       PROVE  /\ last'[y] = last[y] /\ val'[y] = val[y] /\ seen'[y] = seen[y]
              /\ y \in missed' <=> y \in missed
              /\ last'[y] \in rows' <=> last[y] \in rows
  BY <1>2, <1>3, <1>5, <1>7
<1>15. PageInv'
  <2> SUFFICES ASSUME cl.pc = "apply"
               PROVE  /\ Covered(cl.at, {})' /\ (\A g \in cl'.got : g > cl'.at) /\ Coming' = cl'.got
                      /\ \A y \in Item : Passed(y, cl.at, cl.got)' =>
                           (y \in missed' \/ (seen'[y] = 0 /\ val'[y] = 0)) /\ Brought(y, cl.got)'
    BY <1>2 DEF PageInv
  <2>1. /\ Covered(cl.at, {}) /\ Coming = cl.got /\ \A g \in cl.got : g > cl.at
        /\ \A y \in Item : Passed(y, cl.at, cl.got) =>
             (y \in missed \/ (seen[y] = 0 /\ val[y] = 0)) /\ Brought(y, cl.got)
    BY DEF Holds, PageInv
  <2>2. cl.at \in Nat /\ cl.at <= Served /\ cl.at # s /\ cl.got # None
    BY <1>t, <1>4, ServedBounds, HeldTyped DEF Shape
  <2>3. \A y \in Item \ (missed' \cup {}) : last'[y] <= cl.at => seen'[y] = val'[y]
    BY <1>8, <2>1, <2>2
  <2>4. Covered(cl.at, {})'
    BY <1>2, <2>3 DEF Covered
  <2>5. ASSUME NEW y \in Item, Passed(y, cl.at, cl.got)'
        PROVE  (y \in missed' \/ (seen'[y] = 0 /\ val'[y] = 0)) /\ Brought(y, cl.got)'
    <3>1. CASE y = x
      <4>1. \E g \in cl.got : s <= g
        BY <1>2, <1>3, <2>5, <3>1 DEF Passed
      <4>2. x \in missed'
        BY <1>11, <2>1, <2>2, <4>1
      <4> QED BY <1>12, <3>1, <4>2 DEF Brought
    <3>2. CASE y # x
      <4>1. Passed(y, cl.at, cl.got)
        BY <1>2, <1>14, <2>5, <3>2 DEF Passed
      <4> QED BY <1>2, <1>14, <2>1, <3>2, <4>1 DEF Brought
    <3> QED BY <3>1, <3>2
  <2> QED BY <1>2, <1>13, <2>1, <2>4, <2>5
<1>16. OldestInv'
  <2> SUFFICES ASSUME cl.pc = "ask", cl.min # None,
                      NEW y \in Item \ missed', last'[y] \notin rows', last'[y] > cur
               PROVE  cl.min # 0 /\ cur + 1 < cl.min
    BY <1>2 DEF OldestInv
  <2>1. y # x
    BY <1>2, <1>3
  <2> QED BY <1>14, <2>1 DEF Holds, OldestInv
<1>17. RowsInv'
  <2> SUFFICES ASSUME cl.pc = "ask", cl.got # None, NEW y \in Item, Passed(y, cur, Coming)'
               PROVE  (y \in missed' \/ last'[y] \notin rows') /\ Brought(y, Coming)'
    BY <1>2 DEF RowsInv
  <2>1. CASE y = x
    <3>1. \E g \in Coming : s <= g
      BY <1>3, <1>13, <2>1 DEF Passed
    <3>2. x \in missed'
      BY <1>11, <3>1
    <3> QED BY <1>12, <2>1, <3>2 DEF Brought
  <2>2. CASE y # x
    <3>1. Passed(y, cur, Coming)
      BY <1>2, <1>13, <1>14, <2>2 DEF Passed
    <3>2. (y \in missed \/ last[y] \notin rows) /\ Brought(y, Coming)
      BY <3>1 DEF Holds, RowsInv
    <3> QED BY <1>2, <1>13, <1>14, <2>2, <3>2 DEF Brought
  <2> QED BY <2>1, <2>2
<1> QED BY <1>9, <1>10, <1>15, <1>16, <1>17 DEF Holds

(* No new row is about a file of the page; the rows that retention takes   *)
(* from under an answer are counted.                                       *)
LEMMA HoldsServer ==
  ASSUME Grounds, Holds,
         (\E w \in Writer : (\E x \in Item : Record(w, x)) \/ Rollback(w)) \/ GrowOld \/ Prune
  PROVE  Holds'
<1>t. TypeOK /\ ServerInv /\ Shape /\ TypeInv /\ next \in Nat
  BY NumbersTyped DEF Grounds, TypeInv
<1>1. UNCHANGED <<val, last, cur, seen, cl>> /\ rows' \subseteq rows /\ missed \subseteq missed' /\ Coming' = Coming
  BY DEF Record, Rollback, GrowOld, Prune, Coming
<1>2. cl.got # None => \A g \in cl.got : itemOf'[g] = itemOf[g]
  <2> SUFFICES ASSUME cl.got # None, NEW g \in cl.got PROVE itemOf'[g] = itemOf[g]
    OBVIOUS
  <2>1. ASSUME NEW w \in Writer, NEW x \in Item, Record(w, x) PROVE itemOf'[g] = itemOf[g]
    <3>1. itemOf' = [itemOf EXCEPT ![next] = x] /\ g \in SeqN /\ g # next
      BY <1>t, <2>1, HeldTyped DEF Record, Spent
    <3> QED BY <1>t, <3>1 DEF TypeOK
  <2>2. (\E w \in Writer : Rollback(w)) \/ GrowOld \/ Prune => itemOf' = itemOf
    BY DEF Rollback, GrowOld, Prune
  <2> QED BY <2>1, <2>2
<1>3. cl.got # None => Coming \subseteq cl.got
  BY DEF Coming, First
<1>4. CursorInv' /\ WalkInv'
  BY <1>1 DEF Holds, CursorInv, WalkInv, Covered
<1>5. PageInv'
  <2> SUFFICES ASSUME cl.pc = "apply"
               PROVE  /\ Covered(cl.at, {})' /\ (\A g \in cl'.got : g > cl'.at) /\ Coming' = cl'.got
                      /\ \A y \in Item : Passed(y, cl.at, cl.got)' =>
                           (y \in missed' \/ (seen'[y] = 0 /\ val'[y] = 0)) /\ Brought(y, cl.got)'
    BY <1>1 DEF PageInv
  <2>1. /\ Covered(cl.at, {}) /\ Coming = cl.got /\ \A g \in cl.got : g > cl.at
        /\ \A y \in Item : Passed(y, cl.at, cl.got) =>
             (y \in missed \/ (seen[y] = 0 /\ val[y] = 0)) /\ Brought(y, cl.got)
    BY DEF Holds, PageInv
  <2>2. cl.got # None
    BY <1>t DEF Shape
  <2>3. Covered(cl.at, {})'
    BY <1>1, <2>1 DEF Covered
  <2>4. ASSUME NEW y \in Item, Passed(y, cl.at, cl.got)'
        PROVE  (y \in missed' \/ (seen'[y] = 0 /\ val'[y] = 0)) /\ Brought(y, cl.got)'
    <3>1. Passed(y, cl.at, cl.got)
      BY <1>1, <2>4 DEF Passed
    <3> QED BY <1>1, <1>2, <2>1, <2>2, <3>1 DEF Brought
  <2> QED BY <1>1, <2>1, <2>3, <2>4
<1>6. OldestInv'
  <2> SUFFICES ASSUME cl.pc = "ask", cl.min # None,
                      NEW y \in Item \ missed', last[y] \notin rows', last[y] > cur
               PROVE  cl.min # 0 /\ cur + 1 < cl.min
    BY <1>1 DEF OldestInv
  <2>1. ASSUME last[y] \in rows PROVE FALSE
    <3>1. Prune
      BY <2>1 DEF Record, Rollback, GrowOld
    <3>2. itemOf[last[y]] \in missed'
      BY <2>1, <3>1 DEF Prune
    <3>3. last[y] # 0
      BY <2>1, HeldTyped
    <3> QED BY <1>t, <3>2, <3>3 DEF ServerInv, Versions
  <2> QED BY <1>1, <2>1 DEF Holds, OldestInv
<1>7. RowsInv'
  <2> SUFFICES ASSUME cl.pc = "ask", cl.got # None, NEW y \in Item, Passed(y, cur, Coming)'
               PROVE  (y \in missed' \/ last'[y] \notin rows') /\ Brought(y, Coming)'
    BY <1>1 DEF RowsInv
  <2>1. Passed(y, cur, Coming)
    BY <1>1 DEF Passed
  <2>2. (y \in missed \/ last[y] \notin rows) /\ Brought(y, Coming)
    BY <2>1 DEF Holds, RowsInv
  <2> QED BY <1>1, <1>2, <1>3, <2>2 DEF Brought
<1> QED BY <1>4, <1>5, <1>6, <1>7 DEF Holds

-----------------------------------------------------------------------------
(* What the mirror does *)

LEMMA HoldsWalk ==
  ASSUME Grounds, Holds, WalkStep
  PROVE  Holds'
<1>t. TypeOK /\ cl \in ClRec /\ ServerInv /\ Shape /\ TypeInv
  BY ClTyped DEF Grounds, TypeInv
<1>i. Idle.pc = "idle"
  BY IdleTyped
<1>u. /\ UNCHANGED <<next, rows, itemOf, dels, val, last, tx, old>>
  BY MirrorSteps DEF server
<1>1. CASE StartFull \/ Reset
  <2>1. Begin /\ UNCHANGED <<cur, seen, missed>>
    BY <1>1 DEF StartFull, Reset
  <2>2. cl'.pc = "pull" /\ cl'.todo = Item
    BY <1>t, <2>1, BeginMakes
  <2> QED BY <1>u, <2>1, <2>2
          DEF Holds, CursorInv, WalkInv, PageInv, OldestInv, RowsInv, Covered
<1>2. CASE Offline \/ Crash
  <2>1. cl' = Idle /\ UNCHANGED <<cur, seen, missed>>
    BY <1>2 DEF Offline, Crash
  <2> QED BY <1>u, <1>i, <2>1
          DEF Holds, CursorInv, WalkInv, PageInv, OldestInv, RowsInv, Covered
<1>3. CASE PullEnd
  <2>1. /\ cl' = Idle /\ UNCHANGED <<seen, missed>> /\ cl.pc = "pull" /\ cl.todo = {}
        /\ cur' = IF cl.head # None THEN cl.head ELSE cur
    BY <1>3 DEF PullEnd
  <2>2. cl.head # None => Covered(cl.head, {})
    BY <2>1 DEF Holds, WalkInv
  <2>3. CursorInv'
    BY <1>u, <2>1, <2>2 DEF Holds, CursorInv, Covered
  <2> QED BY <1>i, <2>1, <2>3 DEF Holds, WalkInv, PageInv, OldestInv, RowsInv
<1>4. CASE PullStop
  <2>1. /\ cl' = [cl EXCEPT !.todo = {}] /\ missed' = missed \cup cl.todo /\ UNCHANGED <<cur, seen>>
        /\ cl.pc = "pull"
    BY <1>4 DEF PullStop
  <2>2. cl'.pc = "pull" /\ cl'.todo = {} /\ cl'.head = cl.head
    BY <1>t, <2>1 DEF ClRec
  <2>3. CursorInv'
    BY <1>u, <2>1 DEF Holds, CursorInv, Covered
  <2>4. WalkInv'
    <3> SUFFICES ASSUME cl.head # None PROVE Covered(cl.head, cl.todo)'
      BY <2>2 DEF WalkInv
    <3>1. Covered(cl.head, cl.todo)
      BY <2>1 DEF Holds, WalkInv
    <3> QED BY <1>u, <2>1, <2>2, <3>1 DEF Covered
  <2> QED BY <2>2, <2>3, <2>4 DEF Holds, PageInv, OldestInv, RowsInv
<1>5. ASSUME NEW x \in Item, PullItem(x) PROVE Holds'
  <2>1. /\ cl' = [cl EXCEPT !.todo = cl.todo \ {x}] /\ cur' = cur /\ cl.pc = "pull" /\ x \in cl.todo
        /\ missed' = IF seen'[x] = val[x] THEN missed \ {x} ELSE missed \cup {x}
        /\ seen' = seen \/ seen' = [seen EXCEPT ![x] = IF val[x] # 0 THEN val[x] ELSE seen[x]]
    BY <1>5 DEF PullItem
  <2>2. cl'.pc = "pull" /\ cl'.todo = cl.todo \ {x} /\ cl'.head = cl.head
    BY <1>t, <2>1 DEF ClRec
  <2>3. \A y \in Item \ {x} : seen'[y] = seen[y] /\ (y \in missed' <=> y \in missed)
    BY <1>t, <2>1 DEF TypeOK
  <2>4. x \in missed' \/ seen'[x] = val[x]
    BY <2>1
  <2>5. CursorInv'
    <3> SUFFICES ASSUME cur # None, NEW y \in Item \ missed', last[y] <= cur PROVE seen'[y] = val[y]
      BY <1>u, <2>1 DEF CursorInv, Covered
    <3> QED BY <2>3, <2>4 DEF Holds, CursorInv, Covered
  <2>6. WalkInv'
    <3> SUFFICES ASSUME cl.head # None, NEW y \in Item \ (missed' \cup (cl.todo \ {x})), last[y] <= cl.head
                 PROVE  seen'[y] = val[y]
      BY <1>u, <2>2 DEF WalkInv, Covered
    <3> QED BY <2>1, <2>3, <2>4 DEF Holds, WalkInv, Covered
  <2> QED BY <2>2, <2>5, <2>6 DEF Holds, PageInv, OldestInv, RowsInv
<1> QED BY <1>1, <1>2, <1>3, <1>4, <1>5 DEF WalkStep

(* A query that asks for something else leaves the rest of the answer.     *)
LEMMA HoldsAsk ==
  ASSUME Grounds, Holds, Ask \/ QueryNewest \/ ApplyStop \/ PageEnd
  PROVE  Holds'
<1>t. TypeOK /\ cl \in ClRec /\ Shape
  BY ClTyped DEF Grounds, TypeInv
<1>i. Idle \in ClRec /\ Idle.pc = "idle" /\ Idle.got = None /\ Idle.min = None
  BY IdleTyped
<1>u. UNCHANGED <<next, rows, itemOf, dels, val, last, tx, old, seen, missed>>
  BY DEF Ask, QueryNewest, ApplyStop, PageEnd, server
<1>1. CASE Ask
  <2>1. cl'.pc = "ask" /\ cl'.got = None /\ cl'.min = None /\ cur' = cur
    BY <1>1, <1>i DEF Ask, ClRec
  <2> QED BY <1>u, <2>1 DEF Holds, CursorInv, WalkInv, PageInv, OldestInv, RowsInv, Covered
<1>2. CASE QueryNewest
  <2>1. cl'.pc = "ask" /\ cl.pc = "ask" /\ cl'.got = cl.got /\ cl'.min = cl.min /\ cur' = cur
    BY <1>t, <1>2 DEF QueryNewest, ClRec
  <2>2. Coming' = Coming
    BY <2>1 DEF Coming
  <2>3. RowsInv'
    BY <1>u, <2>1, <2>2 DEF Holds, RowsInv, Passed, Brought
  <2> QED BY <1>u, <2>1, <2>3 DEF Holds, CursorInv, WalkInv, PageInv, OldestInv, Covered
<1>3. CASE ApplyStop \/ PageEnd
  <2>1. cl.pc = "apply" /\ cur' = cl.at /\ cl' \in {Idle, [Idle EXCEPT !.pc = "ask"]}
    BY <1>3 DEF ApplyStop, PageEnd
  <2>2. cl'.pc \in {"idle", "ask"} /\ cl'.got = None /\ cl'.min = None
    BY <1>i, <2>1 DEF ClRec
  <2>3. Covered(cl.at, {})
    BY <2>1 DEF Holds, PageInv
  <2>4. CursorInv'
    BY <1>u, <2>1, <2>3 DEF CursorInv, Covered
  <2> QED BY <2>2, <2>4 DEF Holds, WalkInv, PageInv, OldestInv, RowsInv
<1> QED BY <1>1, <1>2, <1>3

(* The rows of an answer are all there are behind the cursor, up to the    *)
(* last of them: a file they pass over has left the journal, and what is   *)
(* still in the journal is younger than its last change.                   *)
LEMMA HoldsRows ==
  ASSUME Grounds, Holds, QueryRows
  PROVE  Holds'
<1> DEFINE S == {s \in rows : s > cur}
           G == First(S, Limit + 1)
           P == First(G, Limit)
<1>t. TypeOK /\ cl \in ClRec /\ ServerInv /\ Shape /\ rows \subseteq SeqN /\ Limit \in Nat /\ Limit + 1 \in Nat
  BY ClTyped, NextTyped, JournalAssumption DEF Grounds, TypeInv
<1>1. cl.pc = "ask" /\ cl' = [cl EXCEPT !.got = G] /\ UNCHANGED <<server, cur, seen, missed>>
  BY DEF QueryRows
<1>2. /\ S \in SUBSET SeqN /\ G \subseteq S /\ G \in SUBSET SeqN /\ P \subseteq G
      /\ \A s \in G : \A t \in S : t <= s => t \in G
      /\ \A s \in P : \A t \in G : t <= s => t \in P
  <2>1. S \in SUBSET SeqN
    BY <1>t
  <2>2. G \subseteq S /\ \A s \in G : \A t \in S : t <= s => t \in G
    BY <1>t, <2>1, FirstClosed
  <2>3. G \in SUBSET SeqN
    BY <2>1, <2>2
  <2>4. P \subseteq G /\ \A s \in P : \A t \in G : t <= s => t \in P
    <3> HIDE DEF G
    <3> QED BY <1>t, <2>3, FirstClosed
  <2> QED BY <2>1, <2>2, <2>3, <2>4
<1>3. G \subseteq rows
  BY <1>2
<1> HIDE DEF G
<1>4. cl'.pc = "ask" /\ cl'.got = G /\ cl'.min = cl.min /\ Coming' = P
  BY <1>t, <1>1 DEF ClRec, Coming
<1> HIDE DEF P
<1>u. UNCHANGED <<next, rows, itemOf, dels, val, last, tx, old>>
  BY <1>1 DEF server
<1>5. RowsInv'
  <2> SUFFICES ASSUME NEW x \in Item, cur < last[x], last[x] \notin P, NEW p \in P, last[x] <= p
               PROVE  last[x] \notin rows /\ \A g \in P : itemOf[g] # x
    BY <1>1, <1>4, <1>u DEF RowsInv, Passed, Brought
  <2>1. last[x] \notin rows
    <3> SUFFICES ASSUME last[x] \in rows PROVE FALSE
      OBVIOUS
    <3>1. last[x] \in S
      <4>1. cur \in Nat /\ last[x] \in Nat
        BY <1>1, <1>t, HeldTyped DEF Shape
      <4> QED BY <4>1
    <3>2. last[x] \in G
      BY <1>2, <3>1
    <3> QED BY <1>2, <3>2
  <2>2. \A t \in rows : last[x] < t /\ t \in Nat /\ last[x] \in Nat
    BY <1>t, <2>1, HeldTyped DEF ServerInv, Pruned
  <2>3. \A t \in rows : t <= last[itemOf[t]]
    BY <1>t DEF ServerInv, Versions
  <2>4. \A t \in rows : itemOf[t] # x
    BY <2>2, <2>3
  <2> QED BY <1>2, <1>3, <2>1, <2>4
<1>6. OldestInv' /\ CursorInv' /\ WalkInv' /\ PageInv'
  BY <1>1, <1>4, <1>u DEF Holds, CursorInv, WalkInv, PageInv, OldestInv, Covered
<1> QED BY <1>5, <1>6 DEF Holds

(* A file that has left the journal behind the cursor is older than the    *)
(* oldest row, and there is one, or nothing was ever taken away.           *)
LEMMA HoldsOldest ==
  ASSUME Grounds, Holds, "pruneAll" \notin Faults, QueryOldest
  PROVE  Holds'
<1>t. TypeOK /\ cl \in ClRec /\ ServerInv /\ Shape /\ rows \subseteq Seq0 /\ old \in Nat
  BY ClTyped, NextTyped, NumbersTyped DEF Grounds, TypeInv
<1>1. cl.pc = "ask" /\ cl' = [cl EXCEPT !.min = Least(rows)] /\ UNCHANGED <<server, cur, seen, missed>>
  BY DEF QueryOldest
<1>2. cl'.pc = "ask" /\ cl'.got = cl.got /\ cl'.min = Least(rows)
  BY <1>t, <1>1 DEF ClRec
<1>u. UNCHANGED <<next, rows, itemOf, dels, val, last, tx, old>>
  BY <1>1 DEF server
<1>3. Coming' = Coming
  BY <1>2 DEF Coming
<1>4. OldestInv'
  <2> SUFFICES ASSUME NEW x \in Item, last[x] \notin rows, last[x] > cur
               PROVE  Least(rows) # 0 /\ cur + 1 < Least(rows)
    BY <1>1, <1>2, <1>u DEF OldestInv
  <2>1. cur \in Nat /\ last[x] \in Nat
    BY <1>1, <1>t, HeldTyped DEF Shape
  <2>2. last[x] <= old /\ \A t \in rows : last[x] < t
    BY <1>t DEF ServerInv, Pruned
  <2>3. rows # {}
    BY <1>t, <2>1, <2>2 DEF ServerInv, Youngest
  <2>4. Least(rows) \in rows /\ Least(rows) \in Nat
    BY <1>t, <2>3, LeastIs, SeqsInNat
  <2> QED BY <2>1, <2>2, <2>4
<1>5. RowsInv'
  BY <1>1, <1>2, <1>3, <1>u DEF Holds, RowsInv, Passed, Brought
<1>6. CursorInv' /\ WalkInv' /\ PageInv'
  BY <1>1, <1>2, <1>u DEF Holds, CursorInv, WalkInv, PageInv, Covered
<1> QED BY <1>4, <1>5, <1>6 DEF Holds

(* A page is taken only from an answer that asks for no walk.              *)
LEMMA HoldsPage ==
  ASSUME Grounds, Holds, Page
  PROVE  Holds'
<1>t. TypeOK /\ cl \in ClRec /\ Shape
  BY ClTyped DEF Grounds, TypeInv
<1>i. Idle \in ClRec
  BY IdleTyped
<1>1. /\ cl.pc = "ask" /\ cl.got # None /\ cl.min # None /\ ~resetRequired
      /\ cl' = [Idle EXCEPT !.pc = "apply", !.got = Coming, !.rest = cl.got \ Coming, !.at = cur]
      /\ UNCHANGED <<server, cur, seen, missed>>
  BY DEF Page, Answered, Coming
<1>2. cl'.pc = "apply" /\ cl'.got = Coming /\ cl'.at = cur
  BY <1>i, <1>1 DEF ClRec
<1>3. cl.got \in SUBSET SeqN /\ Limit \in Nat /\ Coming \in SUBSET Coming
  BY <1>t, <1>1, ClTyped, JournalAssumption DEF Opt
<1>4. Coming' = Coming
  BY <1>2, <1>3, FirstOfFew DEF Coming
<1>u. UNCHANGED <<next, rows, itemOf, dels, val, last, tx, old>>
  BY <1>1 DEF server
<1>5. cur # None /\ Covered(cur, {}) /\ \A g \in Coming : g > cur
  BY <1>t, <1>1 DEF Shape, Holds, CursorInv, Coming, First
<1>6. ASSUME NEW x \in Item, Passed(x, cur, Coming)
      PROVE  x \in missed /\ Brought(x, Coming)
  <2>1. (x \in missed \/ last[x] \notin rows) /\ Brought(x, Coming)
    BY <1>1, <1>6 DEF Holds, RowsInv
  <2>2. ASSUME x \notin missed PROVE FALSE
    <3>1. last[x] \notin rows /\ last[x] > cur
      <4>1. last[x] \in Nat /\ cur \in Nat
        BY <1>5, HeldTyped
      <4> QED BY <1>6, <2>1, <2>2, <4>1 DEF Passed
    <3>2. cl.min # 0 /\ cur + 1 < cl.min
      BY <1>1, <2>2, <3>1 DEF Holds, OldestInv
    <3> QED BY <1>1, <3>2 DEF resetRequired
  <2> QED BY <2>1, <2>2
<1>7. PageInv'
  BY <1>1, <1>2, <1>4, <1>5, <1>6, <1>u DEF PageInv, Covered, Passed, Brought
<1>8. CursorInv' /\ WalkInv' /\ OldestInv' /\ RowsInv'
  BY <1>1, <1>2, <1>u DEF Holds, CursorInv, WalkInv, OldestInv, RowsInv, Covered
<1> QED BY <1>7, <1>8 DEF Holds

(* A row that is applied settles its own file, if it is the file's last;   *)
(* the files between it and the row before it were passed over.            *)
LEMMA HoldsApply ==
  ASSUME Grounds, Holds, Apply
  PROVE  Holds'
<1> DEFINE s == Least(cl.got)
           x == itemOf[s]
           R == cl.got \ {s}
<1>t. TypeOK /\ cl \in ClRec /\ ServerInv /\ Shape
  BY ClTyped DEF Grounds, TypeInv
<1>1. /\ cl.pc = "apply" /\ cl.got # {} /\ UNCHANGED <<server, cur>>
      /\ cl' = [cl EXCEPT !.got = R, !.at = s]
  BY DEF Apply
<1>2. \/ /\ seen' = [seen EXCEPT ![x] = IF s \in dels THEN 0 ELSE IF val[x] = s THEN s ELSE seen[x]]
         /\ missed' = IF seen'[x] = val[x] THEN missed \ {x} ELSE missed
      \/ missed' = missed \cup {x} /\ UNCHANGED seen
  BY DEF Apply
<1>u. UNCHANGED <<next, rows, itemOf, dels, val, last, tx, old>>
  BY <1>1 DEF server
<1>3. cl.got # None /\ cl.got \in SUBSET SeqN /\ cl.got \in SUBSET Seq0 /\ cl.at # None /\ cur # None
  BY <1>t, <1>1, ClTyped, SeqsInNat DEF Shape, Opt
<1>4. s \in cl.got /\ \A g \in cl.got : s <= g
  BY <1>1, <1>3, LeastIs
<1>5. /\ s \in Nat /\ s # 0 /\ x \in Item /\ cl.at \in Nat /\ cur \in Nat /\ cur < s /\ s <= last[x]
      /\ \A g \in cl.got : g \in Nat
      /\ \A y \in Item : last[y] \in Nat /\ val[y] \in {0, last[y]} /\ seen[y] \in Nat
  <2>1. cur < s /\ s <= last[x]
    BY <1>3, <1>4 DEF Grounds, Shape
  <2>2. s # 0
    BY <1>3, <1>4, JournalAssumption DEF SeqN
  <2> QED BY <1>3, <1>4, <2>1, <2>2, HeldTyped
<1>6. /\ val[x] = IF last[x] \in dels THEN 0 ELSE last[x]
      /\ \A y \in Item : last[y] # 0 => itemOf[last[y]] = y
  BY <1>5 DEF Grounds, ServerInv, Versions
<1>7. /\ Covered(cl.at, {}) /\ Coming = cl.got /\ \A g \in cl.got : g > cl.at
      /\ \A y \in Item : Passed(y, cl.at, cl.got) =>
           (y \in missed \/ (seen[y] = 0 /\ val[y] = 0)) /\ Brought(y, cl.got)
  BY <1>1 DEF Holds, PageInv
<1> HIDE DEF s, R, x
<1>8. cl'.pc = "apply" /\ cl'.got = R /\ cl'.at = s
  BY <1>t, <1>1 DEF ClRec
<1>9. \A y \in Item \ {x} : seen'[y] = seen[y] /\ (y \in missed' <=> y \in missed)
  BY <1>t, <1>2, <1>5 DEF TypeOK
<1>10. \/ /\ seen'[x] = IF s \in dels THEN 0 ELSE IF val[x] = s THEN s ELSE seen[x]
          /\ x \in missed' => x \in missed /\ seen'[x] # val[x]
          /\ x \notin missed' => x \notin missed \/ seen'[x] = val[x]
       \/ x \in missed' /\ seen'[x] = seen[x]
  BY <1>t, <1>2, <1>5 DEF TypeOK
<1>11. last[x] = s => x \in missed' \/ seen'[x] = val[x]
  BY <1>5, <1>6, <1>10
<1>12. Coming' = R
  <2>1. Limit \in Nat /\ R \in SUBSET First(cl.got, Limit)
    BY <1>7, JournalAssumption DEF Coming, R
  <2>2. First(R, Limit) = R
    BY <1>3, <2>1, FirstOfFew
  <2> QED BY <1>8, <2>2 DEF Coming
<1>13. \A g \in R : g > s /\ g \in cl.got
  BY <1>4, <1>5 DEF R
<1>14. \A y \in Item \ missed' : last[y] <= s => seen'[y] = val[y]
  <2> SUFFICES ASSUME NEW y \in Item \ missed', last[y] <= s PROVE seen'[y] = val[y]
    OBVIOUS
  <2>1. CASE y = x
    BY <1>5, <1>11, <2>1
  <2>2. CASE y # x /\ last[y] <= cl.at
    BY <1>7, <1>9, <2>2 DEF Covered
  <2>3. CASE y # x /\ last[y] > cl.at
    <3>1. last[y] \notin cl.got
      <4> SUFFICES ASSUME last[y] \in cl.got PROVE FALSE
        OBVIOUS
      <4>1. last[y] = s
        BY <1>4, <1>5
      <4>2. itemOf[s] = y
        BY <1>5, <1>6, <4>1
      <4> QED BY <2>3, <4>2 DEF x
    <3>2. Passed(y, cl.at, cl.got)
      BY <1>4, <2>3, <3>1 DEF Passed
    <3> QED BY <1>7, <1>9, <2>3, <3>2
  <2> QED BY <1>5, <2>1, <2>2, <2>3
<1>15. ASSUME NEW y \in Item, s < last[y], last[y] \notin R, NEW r \in R, last[y] <= r
       PROVE  /\ y \in missed' \/ (seen'[y] = 0 /\ val[y] = 0)
              /\ seen'[y] = val[y] /\ val[y] # 0 => \A g \in R : itemOf[g] # y
  <2>1. Passed(y, cl.at, cl.got)
    <3>1. s \in Nat /\ last[y] # s /\ cl.at < s /\ last[y] \in Nat
      BY <1>4, <1>5, <1>7, <1>15
    <3>2. last[y] \notin cl.got
      BY <1>15, <3>1 DEF R
    <3> QED BY <1>5, <1>13, <1>15, <3>1, <3>2 DEF Passed
  <2>2. (y \in missed \/ (seen[y] = 0 /\ val[y] = 0)) /\ Brought(y, cl.got)
    BY <1>7, <2>1
  <2>3. CASE y # x
    BY <1>9, <1>13, <2>2, <2>3 DEF Brought
  <2>4. CASE y = x
    <3>1. ~(seen[x] = val[x] /\ val[x] # 0)
      BY <1>4, <2>2, <2>4 DEF Brought, x
    <3>2. val[x] # s
      BY <1>5, <1>15, <2>4
    <3>3. seen'[x] \in {0, seen[x]}
      BY <1>10, <3>2
    <3> QED BY <1>10, <2>2, <2>4, <3>1, <3>2, <3>3
  <2> QED BY <2>3, <2>4
<1>16. PageInv'
  <2>1. \A y \in Item : Passed(y, cl.at, cl.got)' =>
           (y \in missed' \/ (seen'[y] = 0 /\ val'[y] = 0)) /\ Brought(y, cl.got)'
    BY <1>8, <1>15, <1>u DEF Passed, Brought
  <2>2. Covered(cl.at, {})'
    BY <1>8, <1>14, <1>u DEF Covered
  <2> QED BY <1>8, <1>12, <1>13, <2>1, <2>2 DEF PageInv
<1>17. CursorInv'
  <2> SUFFICES ASSUME NEW y \in Item \ missed', last[y] <= cur PROVE seen'[y] = val[y]
    BY <1>1, <1>u DEF CursorInv, Covered
  <2>1. y # x
    BY <1>5
  <2> QED BY <1>3, <1>9, <2>1 DEF Holds, CursorInv, Covered
<1> QED BY <1>8, <1>16, <1>17 DEF Holds, WalkInv, OldestInv, RowsInv

LEMMA HoldsStep ==
  Grounds /\ Back /\ Holds /\ "pruneAll" \notin Faults /\ [Next]_vars => Holds'
<1> SUFFICES ASSUME Grounds, Back, Holds, "pruneAll" \notin Faults, [Next]_vars PROVE Holds'
  OBVIOUS
<1>1. CASE UNCHANGED vars
  BY <1>1 DEF vars, Holds, CursorInv, WalkInv, PageInv, OldestInv, RowsInv, Covered, Passed, Brought, Coming
<1>2. CASE ServerStep
  BY <1>2, HoldsCommit, HoldsServer DEF ServerStep
<1>3. CASE WalkStep
  BY <1>3, HoldsWalk
<1>4. CASE AnswerStep
  BY <1>4, HoldsAsk, HoldsRows, HoldsOldest, HoldsPage, HoldsApply DEF AnswerStep
<1> QED BY <1>1, <1>2, <1>3, <1>4, StepKinds

(* Every file whose last change is not after the stored cursor has its     *)
(* present version on the mirror, or is counted as missed: no crash, lost  *)
(* answer, cut page, rollback or retention loses a file behind the cursor, *)
(* for any number of files, transactions and rows on a page, as long as    *)
(* something changes within every 90 days.                                 *)
THEOREM CursorSafe ==
  ASSUME "pruneAll" \notin Faults
  PROVE  Spec => []CursorCoversAllButMissed
<1>1. Init => Back
  BY SeqsInNat DEF Init, Back
<1>2. Grounds /\ Back /\ [Next]_vars => Back'
  BY BackStep
<1>3. Grounds /\ Back /\ Holds /\ [Next]_vars => Holds'
  BY HoldsStep
<1>4. Holds => CursorCoversAllButMissed
  BY DEF Holds, CursorInv, Covered, CursorCoversAllButMissed
<1> QED BY <1>1, <1>2, <1>3, <1>4, HoldsInit, GroundsInit, GroundsStep, PTL DEF Spec
=============================================================================
