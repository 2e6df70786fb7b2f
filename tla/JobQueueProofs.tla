---------------------------- MODULE JobQueueProofs ----------------------------
(***************************************************************************)
(* What JobQueue guarantees for any number of assets, rows and callers.    *)
(*                                                                         *)
(* QueueInv relates the rows of the table, which every call may change, to *)
(* the map of the running tasks and to the slots a tick has counted;       *)
(* PdfInv says what a task of a document still owes while it runs.         *)
(***************************************************************************)
EXTENDS JobQueue, FiniteSetTheorems, WellFoundedInduction, TLAPS

Tasks(g) == {i \in active : KindOf[job[i].asset] = g}

\* A task is in the map from its first step to its last; rows not yet created are blank.
Known ==
  /\ active \subseteq 1..created
  /\ \A i \in Row : i \in active <=> work[i].pc # "idle"
  /\ \A i \in Row : i > created => job[i].state = "none"

\* Nobody but a second retry puts back the row of a running task.
Claimed == doubled = {} => \A i \in active : job[i].state \in {"processing", "gone"}

\* What a tick has yet to start still fits.
Slots ==
  /\ CountActive("photo") <= PhotoParallel
  /\ tick = "photo" => CountActive("photo") + free <= PhotoParallel
  /\ CountActive("pdf") <= 1 /\ CountActive("video") <= 1

PortionFits ==
  \A i \in Row : /\ work[i].pc = "download" => work[i].done = 0
                 /\ work[i].pc = "pages" => work[i].from <= Pages /\ work[i].done <= Batch(i)

QueueInv == TypeOK /\ Known /\ Claimed /\ Slots /\ PortionFits

\* A document somebody will still look at, or that clear took the rows of.
Accounted(a) == RowsOf(a) # {} \/ a \in cutShort

PdfTask(i) ==
  LET a == job[i].asset IN
  /\ work[i].pc \in {"download", "missing", "drop", "pages", "pdfEnd", "final", "requeue"}
  /\ work[i].pc \in {"pages", "pdfEnd", "final", "requeue"} => work[i].from + work[i].done <= page[a]
  /\ work[i].pc = "drop" => preview[a] # "done"
  /\ work[i].pc = "final" => AllDone(i) \/ ~Exists(i)
  /\ ~Exists(i) => Accounted(a)

PdfInv == RemainderLostToClear /\ \A i \in Tasks("pdf") : PdfTask(i)

-----------------------------------------------------------------------------
(* The operators on the rows *)

LEMMA NoWorkTyped == NoWork \in WorkRec /\ NoWork.pc = "idle"
  BY DEF NoWork, WorkRec, WorkPC

LEMMA RowTyped ==
  ASSUME TypeOK, NEW i \in Row
  PROVE  /\ job[i].asset \in Asset /\ job[i].state \in RowState /\ job[i].attempts \in Nat
         /\ KindOf[job[i].asset] \in Group
  BY KindAssumption DEF TypeOK, JobRec

\* What a statement over rows may do: the asset of a row stays, the other rows stay.
OnlyRows(new, rows) ==
  /\ new \in [Row -> JobRec]
  /\ \A i \in Row : new[i].asset = job[i].asset /\ (i \notin rows => new[i] = job[i])

LEMMA RequeuedRows ==
  ASSUME TypeOK, NEW rows \in SUBSET Row, NEW keep \in BOOLEAN
  PROVE  /\ OnlyRows(Requeued(rows, keep), rows)
         /\ \A i \in rows : Requeued(rows, keep)[i].state = "pending"
  BY DEF OnlyRows, Requeued, TypeOK, JobRec, RowState

LEMMA DroppedRows ==
  ASSUME TypeOK, NEW rows \in SUBSET Row
  PROVE  OnlyRows(Dropped(rows), rows) /\ \A i \in rows : Dropped(rows)[i].state = "gone"
  BY DEF OnlyRows, Dropped, TypeOK, JobRec, RowState

LEMMA EndingRow ==
  ASSUME TypeOK, NEW i \in Row, NEW state \in RowState, NEW attempts \in Nat
  PROVE  /\ OnlyRows(Ending(i, state, attempts), {i})
         /\ Exists(i) => Ending(i, state, attempts)[i].state = state
         /\ ~Exists(i) => Ending(i, state, attempts) = job
  BY DEF OnlyRows, Ending, TypeOK, JobRec

LEMMA InsertedRow ==
  ASSUME TypeOK, NEW a \in Asset, created < MaxJobs
  PROVE  /\ created + 1 \in Row /\ Inserted(a) \in [Row -> JobRec]
         /\ \A i \in Row \ {created + 1} : Inserted(a)[i] = job[i]
         /\ Inserted(a)[created + 1] = [asset |-> a, state |-> "pending", attempts |-> 0]
<1>1. created + 1 \in Row
  BY NumberAssumption DEF TypeOK, Row
<1> QED BY <1>1 DEF Inserted, TypeOK, JobRec, RowState

-----------------------------------------------------------------------------
(* The tasks of a group and their number *)

LEMMA TasksFinite ==
  ASSUME TypeOK, NEW g
  PROVE  IsFiniteSet(Tasks(g)) /\ CountActive(g) = Cardinality(Tasks(g)) /\ CountActive(g) \in Nat
<1>1. IsFiniteSet(Row)
  BY NumberAssumption, FS_Interval DEF Row
<1>2. Tasks(g) \in SUBSET Row
  BY DEF TypeOK, Tasks
<1> QED BY <1>1, <1>2, FS_Subset, FS_CardinalityType DEF CountActive, Tasks

LEMMA CountShrinks ==
  ASSUME TypeOK, NEW g, Tasks(g)' \subseteq Tasks(g)
  PROVE  CountActive(g)' <= CountActive(g) /\ CountActive(g)' \in Nat
<1>1. IsFiniteSet(Tasks(g)') /\ Cardinality(Tasks(g)') <= Cardinality(Tasks(g))
  BY TasksFinite, FS_Subset
<1>2. CountActive(g)' = Cardinality(Tasks(g)')
  BY DEF CountActive, Tasks
<1> QED BY <1>1, <1>2, TasksFinite, FS_CardinalityType

LEMMA CountGrows ==
  ASSUME TypeOK, NEW g, NEW i, Tasks(g)' \subseteq Tasks(g) \cup {i}
  PROVE  CountActive(g)' <= CountActive(g) + 1 /\ CountActive(g)' \in Nat
<1> DEFINE T == Tasks(g)
<1>0. IsFiniteSet(T) /\ CountActive(g) = Cardinality(T) /\ Cardinality(T) \in Nat
  BY TasksFinite
<1> HIDE DEF T
<1>1. /\ IsFiniteSet(T \cup {i})
      /\ Cardinality(T \cup {i}) <= Cardinality(T) + 1
      /\ Cardinality(T \cup {i}) \in Nat
  <2>1. /\ IsFiniteSet(T \cup {i})
        /\ Cardinality(T \cup {i}) = IF i \in T THEN Cardinality(T) ELSE Cardinality(T) + 1
    BY <1>0, FS_AddElement
  <2>2. Cardinality(T \cup {i}) \in Nat
    BY <2>1, FS_CardinalityType
  <2> QED BY <1>0, <2>1, <2>2
<1>2. IsFiniteSet(Tasks(g)') /\ Cardinality(Tasks(g)') <= Cardinality(T \cup {i})
  BY <1>1, FS_Subset DEF T
<1>3. CountActive(g)' = Cardinality(Tasks(g)')
  BY DEF CountActive, Tasks
<1> QED BY <1>0, <1>1, <1>2, <1>3, FS_CardinalityType

\* A count of at most one is one task.
LEMMA OneTask ==
  ASSUME TypeOK, NEW g, CountActive(g) <= 1
  PROVE  \A i, j \in Tasks(g) : i = j
<1>1. CountActive(g) = 0 \/ CountActive(g) = 1
  BY TasksFinite
<1> QED BY <1>1, TasksFinite, FS_EmptySet, FS_Singleton

LEMMA NoTask ==
  ASSUME TypeOK, NEW g, CountActive(g) = 0
  PROVE  Tasks(g) = {}
  BY TasksFinite, FS_EmptySet

-----------------------------------------------------------------------------
(* The three shapes of a step: a statement over the table, a step of a     *)
(* task, the end of a task.                                                *)

AssetsKept == \A i \in Row : i <= created => job'[i].asset = job[i].asset

LEMMA SlotsKept ==
  ASSUME TypeOK, Known, Slots, AssetsKept, active' \subseteq active,
         tick' = "photo" => tick = "photo" /\ free' = free
  PROVE  Slots'
<1>1. \A g : Tasks(g)' \subseteq Tasks(g)
  <2>1. \A i \in active' : i \in Row /\ i \in active /\ i <= created
    BY DEF Known, TypeOK, Row
  <2> QED BY <2>1 DEF AssetsKept, Tasks
<1>2. \A g : CountActive(g)' <= CountActive(g) /\ CountActive(g)' \in Nat /\ CountActive(g) \in Nat
  BY <1>1, CountShrinks, TasksFinite
<1>3. (tick = "photo" /\ free' = free) => free' \in Nat /\ free \in Nat
  BY NumberAssumption DEF TypeOK
<1>4. (CountActive("photo") <= PhotoParallel)' /\ (CountActive("pdf") <= 1)' /\ (CountActive("video") <= 1)'
  BY <1>2, NumberAssumption DEF Slots
<1>5. ASSUME tick' = "photo" PROVE CountActive("photo")' + free' <= PhotoParallel
  BY <1>2, <1>3, <1>5, NumberAssumption DEF Slots
<1> QED BY <1>4, <1>5 DEF Slots

\* Statements over rows leave the map of the tasks alone.
LEMMA TableStep ==
  ASSUME QueueInv, UNCHANGED <<active, work, tick, free>>,
         job' \in [Row -> JobRec], AssetsKept, created' >= created, created' \in 0..MaxJobs,
         \A i \in Row : i > created' => job'[i].state = "none",
         doubled' = {} => /\ doubled = {}
                          /\ \A i \in active : job[i].state \in {"processing", "gone"}
                                                 => job'[i].state \in {"processing", "gone"}
  PROVE  (Known /\ Claimed /\ Slots /\ PortionFits)'
<1>1. Slots'
  BY SlotsKept DEF QueueInv
<1>2. Known'
  BY DEF QueueInv, Known, TypeOK, Row
<1>3. Claimed'
  BY DEF QueueInv, Claimed
<1>4. PortionFits'
  BY DEF QueueInv, PortionFits, Batch
<1> QED BY <1>1, <1>2, <1>3, <1>4

\* Between its start and its end a task touches no row.
LEMMA TaskStep ==
  ASSUME QueueInv, UNCHANGED <<active, job, created, tick, free, doubled>>, NEW i \in Row,
         NEW rec \in WorkRec, work[i].pc # "idle", rec.pc \notin {"idle", "download"}, work' = [work EXCEPT ![i] = rec],
         rec.pc = "pages" => rec.from <= Pages /\ rec.done <= (IF Pages - rec.from < PagesPerJob
                                                               THEN Pages - rec.from ELSE PagesPerJob)
  PROVE  (Known /\ Claimed /\ Slots /\ PortionFits)'
<1>1. Slots'
  BY SlotsKept DEF QueueInv, AssetsKept
<1>2. work'[i] = rec /\ \A j \in Row \ {i} : work'[j] = work[j]
  BY DEF QueueInv, TypeOK
<1>3. Known'
  BY <1>2 DEF QueueInv, Known
<1>4. Claimed'
  BY DEF QueueInv, Claimed
<1>5. PortionFits'
  BY <1>2 DEF QueueInv, PortionFits, Batch
<1> QED BY <1>1, <1>3, <1>4, <1>5

\* The row of a task is written last, and its slot given back.
LEMMA TaskEnds ==
  ASSUME QueueInv, UNCHANGED <<created, tick, free, doubled>>, NEW i \in Row, work[i].pc # "idle",
         Finally(i), OnlyRows(job', {i})
  PROVE  (Known /\ Claimed /\ Slots /\ PortionFits)'
<1>0. /\ active' = active \ {i} /\ work'[i] = NoWork
      /\ \A j \in Row \ {i} : work'[j] = work[j] /\ job'[j] = job[j]
  BY DEF Finally, OnlyRows, QueueInv, TypeOK
<1>1. Slots'
  BY <1>0, SlotsKept DEF QueueInv, AssetsKept, OnlyRows
<1>2. i \in active /\ i <= created
  BY DEF QueueInv, Known, TypeOK
<1>3. Known'
  <2>1. active' \subseteq 1..created'
    BY <1>0 DEF QueueInv, Known
  <2>2. \A j \in Row : j \in active' <=> work'[j].pc # "idle"
    BY <1>0, NoWorkTyped DEF QueueInv, Known
  <2>3. \A j \in Row : j > created' => job'[j].state = "none"
    BY <1>0, <1>2 DEF QueueInv, Known, TypeOK, Row
  <2> QED BY <2>1, <2>2, <2>3 DEF Known
<1>4. Claimed'
  BY <1>0 DEF QueueInv, Claimed, TypeOK
<1>5. PortionFits'
  BY <1>0, NoWorkTyped DEF QueueInv, PortionFits, Batch
<1> QED BY <1>1, <1>3, <1>4, <1>5

-----------------------------------------------------------------------------
(* A tick *)

\* A row that is taken was pending: it joins the tasks of its group, and no other group gains one.
LEMMA Taken ==
  ASSUME QueueInv, NEW g \in Group, Take(g), UNCHANGED <<created, doubled>>
  PROVE  /\ job' \in [Row -> JobRec] /\ work' \in [Row -> WorkRec]
         /\ active' \subseteq Row /\ overdue' \subseteq Row
         /\ (Known /\ Claimed /\ PortionFits)'
         /\ CountActive(g)' <= CountActive(g) + 1 /\ CountActive(g)' \in Nat
         /\ \A h : h # g => CountActive(h)' <= CountActive(h) /\ CountActive(h)' \in Nat
<1> DEFINE rec == [NoWork EXCEPT !.pc = "download"]
<1>1. PICK i \in Takeable(g) :
        /\ job' = [job EXCEPT ![i].state = "processing", ![i].attempts = job[i].attempts + 1]
        /\ active' = active \cup {i} /\ work' = [work EXCEPT ![i] = rec] /\ overdue' = overdue \ {i}
  BY DEF Take
<1>2. i \in Row /\ job[i].state = "pending" /\ KindOf[job[i].asset] = g
  BY DEF Takeable, Pending, In
<1>3. /\ job' \in [Row -> JobRec] /\ job'[i].state = "processing"
      /\ \A j \in Row : job'[j].asset = job[j].asset /\ (j # i => job'[j] = job[j])
  BY <1>1, <1>2 DEF QueueInv, TypeOK, JobRec, RowState
<1>4. rec \in WorkRec /\ rec.pc = "download" /\ rec.done = 0
  BY DEF NoWork, WorkRec, WorkPC
<1> HIDE DEF rec
<1>5. /\ work' \in [Row -> WorkRec] /\ work'[i] = rec
      /\ \A j \in Row \ {i} : work'[j] = work[j]
  BY <1>1, <1>2, <1>4 DEF QueueInv, TypeOK
<1>6. i <= created /\ i \in 1..created
  BY <1>2 DEF QueueInv, Known, TypeOK, Row
<1>7. Known'
  <2>1. active' \subseteq 1..created'
    BY <1>1, <1>6 DEF QueueInv, Known
  <2>2. \A j \in Row : j \in active' <=> work'[j].pc # "idle"
    BY <1>1, <1>4, <1>5 DEF QueueInv, Known
  <2>3. \A j \in Row : j > created' => job'[j].state = "none"
    BY <1>3, <1>6 DEF QueueInv, Known, TypeOK, Row
  <2> QED BY <2>1, <2>2, <2>3 DEF Known
<1>8. Claimed'
  BY <1>1, <1>3 DEF QueueInv, Claimed, TypeOK
<1>9. PortionFits'
  BY <1>4, <1>5 DEF QueueInv, PortionFits, Batch
<1>10. Tasks(g)' \subseteq Tasks(g) \cup {i}
  BY <1>1, <1>3 DEF Tasks, QueueInv, TypeOK
<1>11. \A h : h # g => Tasks(h)' \subseteq Tasks(h)
  BY <1>1, <1>2, <1>3 DEF Tasks, QueueInv, TypeOK
<1>12. \A h : h # g => CountActive(h)' <= CountActive(h) /\ CountActive(h)' \in Nat
  BY <1>11, CountShrinks DEF QueueInv
<1>13. CountActive(g)' <= CountActive(g) + 1 /\ CountActive(g)' \in Nat
  BY <1>10, CountGrows DEF QueueInv
<1> QED BY <1>1, <1>2, <1>3, <1>5, <1>7, <1>8, <1>9, <1>12, <1>13 DEF QueueInv, TypeOK

\* A slot that was free is taken, or the only one of a group without a task.
LEMMA SlotTaken ==
  ASSUME QueueInv, NEW g \in Group, Take(g), UNCHANGED <<created, doubled>>,
         g = "photo" => tick = "photo" /\ free > 0 /\ free' = free - 1,
         g # "photo" => CountActive(g) = 0 /\ tick' # "photo"
  PROVE  Slots'
<1>1. \A h : /\ CountActive(h) \in Nat /\ CountActive(h)' \in Nat
             /\ h # g => CountActive(h)' <= CountActive(h)
  BY Taken, TasksFinite DEF QueueInv
<1>2. CountActive(g)' <= CountActive(g) + 1
  BY Taken
<1>3. PhotoParallel \in Nat /\ free \in Nat
  BY NumberAssumption DEF QueueInv, TypeOK
<1>4. CASE g = "photo"
  <2>1. CountActive("photo")' + free' <= PhotoParallel /\ CountActive("photo")' <= PhotoParallel
    BY <1>1, <1>2, <1>3, <1>4 DEF QueueInv, Slots
  <2>2. CountActive("pdf")' <= 1 /\ CountActive("video")' <= 1
    BY <1>1, <1>4 DEF QueueInv, Slots
  <2> QED BY <2>1, <2>2 DEF Slots
<1>5. CASE g # "photo"
  <2>1. CountActive("photo")' <= PhotoParallel
    BY <1>1, <1>3, <1>5 DEF QueueInv, Slots
  <2>2. CountActive(g)' <= 1
    BY <1>1, <1>2, <1>5
  <2>3. \A h \in {"pdf", "video"} : CountActive(h)' <= 1
    BY <1>1, <2>2 DEF QueueInv, Slots
  <2> QED BY <1>5, <2>1, <2>3 DEF Slots
<1> QED BY <1>4, <1>5

\* A tick that takes nothing of a group goes on to the next.
LEMMA TickGoesOn ==
  ASSUME QueueInv, UNCHANGED <<job, active, work, created, doubled>>, tick' # "photo"
  PROVE  (Known /\ Claimed /\ Slots /\ PortionFits)'
  BY SlotsKept DEF QueueInv, AssetsKept, Known, Claimed, PortionFits, Batch

LEMMA QueueTick == ASSUME QueueInv, Tick PROVE QueueInv'
<1>0. PhotoParallel \in Nat \ {0} /\ free \in 0..PhotoParallel
  BY NumberAssumption DEF QueueInv, TypeOK
<1>1. CASE TickBegin
  <2>1. (Known /\ Claimed /\ PortionFits)'
    BY <1>1 DEF TickBegin, db, QueueInv, Known, Claimed, PortionFits, Batch
  <2>2. free' \in 0..PhotoParallel /\ CountActive("photo") + free' <= PhotoParallel
    BY <1>0, <1>1, TasksFinite DEF TickBegin, FreeSlots, QueueInv, Slots
  <2>3. \A g : CountActive(g)' = CountActive(g)
    BY <1>1 DEF TickBegin, db, CountActive
  <2>4. Slots'
    BY <2>2, <2>3 DEF QueueInv, Slots
  <2>5. TypeOK'
    BY <1>1, <2>2 DEF TickBegin, db, QueueInv, TypeOK
  <2> QED BY <2>1, <2>4, <2>5 DEF QueueInv
<1>2. CASE TickPhoto
  <2>1. CASE free > 0 /\ Take("photo") /\ free' = free - 1 /\ tick' = tick
    <3>1. Slots'
      BY <1>2, <2>1, SlotTaken DEF TickPhoto, Group
    <3>2. /\ job' \in [Row -> JobRec] /\ work' \in [Row -> WorkRec]
          /\ active' \subseteq Row /\ overdue' \subseteq Row /\ (Known /\ Claimed /\ PortionFits)'
      BY <1>2, <2>1, Taken DEF TickPhoto, Group
    <3>3. TypeOK'
      BY <1>0, <1>2, <2>1, <3>2 DEF TickPhoto, QueueInv, TypeOK
    <3> QED BY <3>1, <3>2, <3>3 DEF QueueInv
  <2>2. CASE tick' = "pdf" /\ UNCHANGED <<job, active, work, overdue, free>>
    <3>1. TypeOK'
      BY <1>2, <2>2 DEF TickPhoto, QueueInv, TypeOK
    <3> QED BY <1>2, <2>2, <3>1, TickGoesOn DEF TickPhoto, QueueInv
  <2> QED BY <1>2, <2>1, <2>2 DEF TickPhoto
<1>3. ASSUME NEW g \in {"pdf", "video"}, tick' = (IF g = "pdf" THEN "video" ELSE "idle"),
             UNCHANGED <<preview, raw, page, inFiles, created, aged, delayed, free, stopped, cut, paused,
                         call, fails, restarts, cutShort, doubled>>,
             \/ CountActive(g) = 0 /\ Take(g)
             \/ UNCHANGED <<job, active, work, overdue>>
      PROVE  QueueInv'
  <2>0. tick' \in {"idle", "video"}
    BY <1>3
  <2>1. CASE CountActive(g) = 0 /\ Take(g)
    <3>1. Slots'
      BY <1>3, <2>0, <2>1, SlotTaken DEF Group
    <3>2. /\ job' \in [Row -> JobRec] /\ work' \in [Row -> WorkRec]
          /\ active' \subseteq Row /\ overdue' \subseteq Row /\ (Known /\ Claimed /\ PortionFits)'
      BY <1>3, <2>1, Taken DEF Group
    <3>3. TypeOK'
      BY <1>3, <2>0, <3>2 DEF QueueInv, TypeOK
    <3> QED BY <3>1, <3>2, <3>3 DEF QueueInv
  <2>2. CASE UNCHANGED <<job, active, work, overdue>>
    <3>1. TypeOK'
      BY <1>3, <2>0, <2>2 DEF QueueInv, TypeOK
    <3> QED BY <1>3, <2>0, <2>2, <3>1, TickGoesOn DEF QueueInv
  <2> QED BY <1>3, <2>1, <2>2
<1>4. CASE TickPdf
  BY <1>3, <1>4 DEF TickPdf, TakeNothing
<1>5. CASE TickVideo
  BY <1>3, <1>5 DEF TickVideo, TakeNothing
<1> QED BY <1>1, <1>2, <1>4, <1>5 DEF Tick

-----------------------------------------------------------------------------
(* The timers between the ticks *)

\* No row that is put back is the row of a running task, or it is counted as doubled.
LEMMA RowsPutBack ==
  ASSUME QueueInv, NEW rows \in SUBSET Row, OnlyRows(job', rows), \A i \in rows : Exists(i),
         UNCHANGED <<active, work, created, tick, free>>,
         doubled' = {} => doubled = {} /\ \A i \in rows \cap active : job'[i].state = "gone"
  PROVE  (Known /\ Claimed /\ Slots /\ PortionFits)' /\ job' \in [Row -> JobRec]
<1>1. job' \in [Row -> JobRec] /\ AssetsKept
  BY DEF OnlyRows, AssetsKept
<1>2. \A i \in Row : i > created => job'[i].state = "none"
  BY DEF OnlyRows, Exists, QueueInv, Known
<1>3. doubled' = {} => /\ doubled = {}
                       /\ \A i \in active : job[i].state \in {"processing", "gone"}
                                              => job'[i].state \in {"processing", "gone"}
  BY DEF OnlyRows, QueueInv, TypeOK
<1>4. created' >= created /\ created' \in 0..MaxJobs
  BY NumberAssumption DEF QueueInv, TypeOK
<1> QED BY <1>1, <1>2, <1>3, <1>4, TableStep

LEMMA QueueTimer ==
  ASSUME QueueInv, Reap \/ \E i \in Row : DelayOver(i) \/ Age(i)
  PROVE  QueueInv'
<1>1. CASE Reap
  <2>1. Stuck \in SUBSET Row /\ Stuck \cap active = {} /\ \A i \in Stuck : Exists(i)
    BY DEF Stuck, In, Exists
  <2>2. OnlyRows(job', Stuck)
    BY <1>1, <2>1, RequeuedRows DEF Reap, QueueInv
  <2>3. (Known /\ Claimed /\ Slots /\ PortionFits)' /\ job' \in [Row -> JobRec]
    BY <1>1, <2>1, <2>2, RowsPutBack DEF Reap
  <2>4. TypeOK'
    BY <1>1, <2>3 DEF Reap, QueueInv, TypeOK
  <2> QED BY <2>3, <2>4 DEF QueueInv
<1>2. ASSUME NEW i \in Row, DelayOver(i) PROVE QueueInv'
  <2>1. TypeOK'
    BY <1>2 DEF DelayOver, db, QueueInv, TypeOK
  <2> QED BY <1>2, <2>1 DEF DelayOver, db, QueueInv, Known, Claimed, Slots, CountActive, PortionFits, Batch
<1>3. ASSUME NEW i \in Row, Age(i) PROVE QueueInv'
  <2>1. TypeOK'
    BY <1>3 DEF Age, mem, QueueInv, TypeOK
  <2> QED BY <1>3, <2>1 DEF Age, mem, QueueInv, Known, Claimed, Slots, CountActive, PortionFits, Batch
<1> QED BY <1>1, <1>2, <1>3

-----------------------------------------------------------------------------
(* The tasks *)

LEMMA WriteRow ==
  ASSUME QueueInv, NEW i \in Row, NEW new, OnlyRows(new, {i}), Write(i, new)
  PROVE  OnlyRows(job', {i}) /\ fails' \in 0..MaxFail
  BY NumberAssumption DEF Write, OnlyRows, QueueInv, TypeOK

\* A step of a task that only moves its pc.
LEMMA TaskMoves ==
  ASSUME QueueInv, NEW i \in Row, NEW pc \in WorkPC \ {"idle", "download", "pages"}, work[i].pc # "idle", Step(i, pc),
         UNCHANGED <<active, job, created, tick, free, doubled>>
  PROVE  (Known /\ Claimed /\ Slots /\ PortionFits)' /\ work' \in [Row -> WorkRec]
<1> DEFINE rec == [work[i] EXCEPT !.pc = pc]
<1>1. rec \in WorkRec /\ rec.pc = pc
  BY DEF QueueInv, TypeOK, WorkRec
<1>2. work' = [work EXCEPT ![i] = rec]
  BY DEF Step
<1> HIDE DEF rec
<1> QED BY <1>1, <1>2, TaskStep DEF QueueInv, TypeOK

LEMMA QueueProcess == ASSUME QueueInv, NEW i \in Row, Process(i) PROVE QueueInv'
<1>0. /\ work[i] \in WorkRec /\ job[i].asset \in Asset /\ job[i].attempts \in Nat
      /\ page[job[i].asset] \in 0..Pages /\ Pages \in Nat /\ PagesPerJob \in Nat \ {0}
  BY RowTyped, NumberAssumption DEF QueueInv, TypeOK
<1>1. CASE Download(i)
  <2>1. CASE Step(i, "missing") \/ Step(i, "convert")
    <3>1. (Known /\ Claimed /\ Slots /\ PortionFits)' /\ work' \in [Row -> WorkRec]
      BY <1>1, <2>1, TaskMoves DEF Download, db, WorkPC
    <3>2. TypeOK'
      BY <1>1, <3>1 DEF Download, db, QueueInv, TypeOK
    <3> QED BY <3>1, <3>2 DEF QueueInv
  <2>2. CASE work' = [work EXCEPT ![i].pc = "pages", ![i].from = page[job[i].asset]]
    <3> DEFINE rec == [work[i] EXCEPT !.pc = "pages", !.from = page[job[i].asset]]
    <3>1. /\ rec \in WorkRec /\ rec.pc = "pages" /\ rec.from <= Pages /\ rec.done = 0
          /\ rec.from \in Nat
      <4>1. work[i].pc = "download" /\ work[i].done = 0
        BY <1>1 DEF Download, QueueInv, PortionFits
      <4>2. rec.pc = "pages" /\ rec.from = page[job[i].asset] /\ rec.done = 0
        BY <1>0, <4>1 DEF WorkRec
      <4>3. rec \in WorkRec
        <5>1. page[job[i].asset] \in Nat
          BY <1>0
        <5> QED BY <1>0, <5>1 DEF WorkRec, WorkPC
      <4> QED BY <1>0, <4>2, <4>3
    <3>2. work' = [work EXCEPT ![i] = rec]
      BY <2>2
    <3> HIDE DEF rec
    <3>3. rec.done <= (IF Pages - rec.from < PagesPerJob THEN Pages - rec.from ELSE PagesPerJob)
      BY <1>0, <3>1
    <3>4. (Known /\ Claimed /\ Slots /\ PortionFits)'
      BY <1>1, <3>1, <3>2, <3>3, TaskStep DEF Download, db
    <3>5. TypeOK'
      BY <1>1, <3>1, <3>2 DEF Download, db, QueueInv, TypeOK
    <3> QED BY <3>4, <3>5 DEF QueueInv
  <2> QED BY <1>1, <2>1, <2>2 DEF Download
<1>2. CASE MarkMissing(i) \/ Convert(i) \/ CountRefs(i) \/ DeleteRaw(i)
  <2>1. (Known /\ Claimed /\ Slots /\ PortionFits)' /\ work' \in [Row -> WorkRec]
    BY <1>2, TaskMoves DEF MarkMissing, Convert, CountRefs, DeleteRaw, db, WorkPC
  <2>2. preview' \in [Asset -> {"none", "done", "missing"}] /\ raw' \in [Asset -> BOOLEAN]
    BY <1>0, <1>2 DEF MarkMissing, Convert, CountRefs, DeleteRaw, db, QueueInv, TypeOK
  <2>3. TypeOK'
    BY <1>2, <2>1, <2>2 DEF MarkMissing, Convert, CountRefs, DeleteRaw, db, QueueInv, TypeOK
  <2> QED BY <2>1, <2>3 DEF QueueInv
<1>3. CASE PdfEnd(i)
  <2> DEFINE pc == IF AllDone(i) \/ ~Exists(i) THEN "final" ELSE "requeue"
  <2>1. pc \in WorkPC \ {"idle", "download", "pages"} /\ Step(i, pc)
    BY <1>3 DEF PdfEnd, WorkPC
  <2>2. (Known /\ Claimed /\ Slots /\ PortionFits)' /\ work' \in [Row -> WorkRec]
    BY <1>3, <2>1, TaskMoves DEF PdfEnd
  <2>3. preview' \in [Asset -> {"none", "done", "missing"}]
    BY <1>0, <1>3 DEF PdfEnd, QueueInv, TypeOK
  <2>4. TypeOK'
    BY <1>3, <2>2, <2>3 DEF PdfEnd, QueueInv, TypeOK
  <2> QED BY <2>2, <2>4 DEF QueueInv
<1>4. CASE RenderPage(i)
  <2>1. CASE /\ work[i].done < Batch(i)
             /\ page' = [page EXCEPT ![job[i].asset] = IF work[i].from + work[i].done < @ THEN @
                                                       ELSE work[i].from + work[i].done + 1]
             /\ work' = [work EXCEPT ![i].done = work[i].done + 1]
    <3> DEFINE rec == [work[i] EXCEPT !.done = work[i].done + 1]
    <3>1. /\ rec \in WorkRec /\ rec.pc = "pages" /\ rec.from = work[i].from /\ rec.done = work[i].done + 1
          /\ rec.from \in Nat /\ work[i].done \in Nat /\ work[i].pc = "pages" /\ rec.from <= Pages
      BY <1>0, <1>4 DEF RenderPage, WorkRec, QueueInv, PortionFits
    <3>2. work' = [work EXCEPT ![i] = rec]
      BY <2>1
    <3> HIDE DEF rec
    <3>3. rec.done <= (IF Pages - rec.from < PagesPerJob THEN Pages - rec.from ELSE PagesPerJob)
      BY <1>0, <2>1, <3>1 DEF Batch
    <3>4. (Known /\ Claimed /\ Slots /\ PortionFits)'
      BY <1>4, <3>1, <3>2, <3>3, TaskStep DEF RenderPage
    <3>5. work[i].from + work[i].done + 1 \in 0..Pages
      BY <1>0, <3>1, <3>3
    <3>6. page' \in [Asset -> 0..Pages]
      BY <1>0, <2>1, <3>5 DEF QueueInv, TypeOK
    <3>7. TypeOK'
      BY <1>4, <3>1, <3>2, <3>6 DEF RenderPage, QueueInv, TypeOK
    <3> QED BY <3>4, <3>7 DEF QueueInv
  <2>2. CASE Step(i, "pdfEnd") /\ UNCHANGED page
    <3>1. (Known /\ Claimed /\ Slots /\ PortionFits)' /\ work' \in [Row -> WorkRec]
      BY <1>4, <2>2, TaskMoves DEF RenderPage, WorkPC
    <3>2. TypeOK'
      BY <1>4, <2>2, <3>1 DEF RenderPage, QueueInv, TypeOK
    <3> QED BY <3>1, <3>2 DEF QueueInv
  <2> QED BY <1>4, <2>1, <2>2 DEF RenderPage
<1>5. CASE Drop(i) \/ Finish(i) \/ FailTransient(i) \/ FailForGood(i)
  <2>1. OnlyRows(job', {i}) /\ fails' \in 0..MaxFail
    <3>1. \A state \in {"gone", "pending", "failed"}, n \in {0, job[i].attempts} :
            OnlyRows(Ending(i, state, n), {i})
      <4>1. TypeOK /\ {"gone", "pending", "failed"} \subseteq RowState /\ {0, job[i].attempts} \subseteq Nat
        BY <1>0 DEF QueueInv, RowState
      <4> QED BY <4>1, EndingRow
    <3>2. OnlyRows(job, {i}) /\ fails \in 0..MaxFail /\ MaxFail \in Nat
      BY NumberAssumption DEF OnlyRows, QueueInv, TypeOK
    <3>3. CASE Drop(i)
      BY <3>1, <3>3, WriteRow DEF Drop
    <3>4. CASE Finish(i)
      BY <3>1, <3>4, WriteRow DEF Finish
    <3>5. CASE FailTransient(i)
      BY <3>1, <3>2, <3>5 DEF FailTransient
    <3>6. CASE FailForGood(i)
      BY <3>1, <3>2, <3>6 DEF FailForGood
    <3> QED BY <1>5, <3>3, <3>4, <3>5, <3>6
  <2>2. /\ Finally(i) /\ UNCHANGED <<created, tick, free, doubled>> /\ work[i].pc # "idle"
        /\ delayed' \subseteq delayed \cup {i}
    BY <1>5 DEF Drop, Finish, FailTransient, FailForGood
  <2>3. (Known /\ Claimed /\ Slots /\ PortionFits)'
    BY <2>1, <2>2, TaskEnds
  <2>4. active' \subseteq Row /\ work' \in [Row -> WorkRec] /\ job' \in [Row -> JobRec] /\ delayed' \subseteq Row
    BY <2>1, <2>2, NoWorkTyped DEF Finally, OnlyRows, QueueInv, TypeOK
  <2>5. UNCHANGED <<preview, raw, page, inFiles, aged, overdue, stopped, cut, paused, call, restarts, cutShort>>
    BY <1>5 DEF Drop, Finish, FailTransient, FailForGood
  <2>6. TypeOK'
    BY <2>1, <2>2, <2>4, <2>5 DEF QueueInv, TypeOK
  <2> QED BY <2>3, <2>6 DEF QueueInv
<1> QED BY <1>1, <1>2, <1>3, <1>4, <1>5 DEF Process

-----------------------------------------------------------------------------
(* The API *)

LEMMA CallTyped ==
  ASSUME TypeOK, NEW c \in Caller
  PROVE  /\ call[c] \in CallRec
         /\ \A rec \in CallRec : call' = [call EXCEPT ![c] = rec] => call' \in [Caller -> CallRec]
         /\ Answer(c) => call' \in [Caller -> CallRec]
         /\ \A pc \in CallPC : Reach(c, pc) => call' \in [Caller -> CallRec]
<1>1. call[c] \in CallRec /\ \A rec \in CallRec : [call EXCEPT ![c] = rec] \in [Caller -> CallRec]
  BY DEF TypeOK
<1>2. ASSUME Answer(c) PROVE call' \in [Caller -> CallRec]
  <2> DEFINE rec == [call[c] EXCEPT !.pc = "idle", !.list = {}]
  <2>1. call' = [call EXCEPT ![c] = rec]
    BY <1>2 DEF Answer
  <2>2. rec \in CallRec
    BY <1>1 DEF CallRec, CallPC
  <2> QED BY <1>1, <2>1, <2>2
<1>3. ASSUME NEW pc \in CallPC, Reach(c, pc) PROVE call' \in [Caller -> CallRec]
  <2> DEFINE rec == [call[c] EXCEPT !.pc = pc]
  <2>1. call' = [call EXCEPT ![c] = rec]
    BY <1>3 DEF Reach
  <2>2. rec \in CallRec
    BY <1>1 DEF CallRec, CallPC
  <2> QED BY <1>1, <2>1, <2>2
<1> QED BY <1>1, <1>2, <1>3

LEMMA InsertedFresh ==
  ASSUME QueueInv, NEW a \in Asset, created < MaxJobs, created' = created + 1, job' = Inserted(a),
         UNCHANGED <<active, work, tick, free, doubled>>
  PROVE  (Known /\ Claimed /\ Slots /\ PortionFits)' /\ job' \in [Row -> JobRec] /\ created' \in 0..MaxJobs
<1>1. /\ created + 1 \in Row /\ job' \in [Row -> JobRec]
      /\ \A i \in Row \ {created + 1} : job'[i] = job[i]
  BY InsertedRow DEF QueueInv
<1>2. created' \in 0..MaxJobs /\ created' >= created
  BY NumberAssumption DEF QueueInv, TypeOK
<1>3. AssetsKept /\ \A i \in Row : i > created' => job'[i].state = "none"
  BY <1>1 DEF AssetsKept, QueueInv, Known, TypeOK, Row
<1>4. \A i \in active : job'[i] = job[i]
  BY <1>1 DEF QueueInv, Known, TypeOK
<1> QED BY <1>1, <1>2, <1>3, <1>4, TableStep

\* Nothing of the queue but the calls changes.
LEMMA QueueUntouched ==
  ASSUME QueueInv, UNCHANGED <<job, created, active, work, tick, free, doubled>>
  PROVE  (Known /\ Claimed /\ Slots /\ PortionFits)'
  BY DEF QueueInv, Known, Claimed, Slots, CountActive, PortionFits, Batch

LEMMA DuplicatesExist == Duplicates \in SUBSET Row /\ \A i \in Duplicates : Exists(i)
  BY DEF Duplicates

LEMMA QueueCall == ASSUME QueueInv, NEW c \in Caller, Call(c) PROVE QueueInv'
<1>1. PICK op \in Ops, a \in Asset :
       /\ call' = [call EXCEPT ![c] = [@ EXCEPT !.asset = a, !.pc =
            CASE op \in {"upload", "enqueue"} -> "enqueue" [] op = "retry" -> "unset"
              [] op = "retryErrors" -> "retryAll" [] op = "clear" -> "clear" [] OTHER -> "list"]]
       /\ raw' = IF op = "upload" THEN [raw EXCEPT ![a] = TRUE] ELSE raw
       /\ job' = IF op \in {"retryErrors", "rebuild"} THEN Dropped(Duplicates) ELSE job
  BY DEF Call
<1>2. call' \in [Caller -> CallRec] /\ raw' \in [Asset -> BOOLEAN]
  <2> DEFINE pc  == CASE op \in {"upload", "enqueue"} -> "enqueue" [] op = "retry" -> "unset"
                      [] op = "retryErrors" -> "retryAll" [] op = "clear" -> "clear" [] OTHER -> "list"
             rec == [call[c] EXCEPT !.asset = a, !.pc = pc]
  <2>1. pc \in CallPC
    BY DEF CallPC
  <2>2. call[c] \in CallRec
    BY CallTyped DEF QueueInv
  <2> HIDE DEF pc
  <2>3. rec \in CallRec
    BY <2>1, <2>2 DEF CallRec
  <2>4. call' = [call EXCEPT ![c] = rec]
    BY <1>1 DEF pc
  <2>5. call' \in [Caller -> CallRec]
    BY <2>3, <2>4, CallTyped DEF QueueInv
  <2> QED BY <1>1, <2>5 DEF QueueInv, TypeOK
<1>3. (Known /\ Claimed /\ Slots /\ PortionFits)' /\ job' \in [Row -> JobRec]
  <2>1. CASE job' = Dropped(Duplicates)
    <3>1. OnlyRows(job', Duplicates) /\ \A i \in Duplicates : job'[i].state = "gone"
      BY <2>1, DuplicatesExist, DroppedRows DEF QueueInv
    <3> QED BY <3>1, DuplicatesExist, RowsPutBack DEF Call, rest, still
  <2>2. CASE job' = job
    BY <2>2, QueueUntouched DEF Call, rest, still, QueueInv, TypeOK
  <2> QED BY <1>1, <2>1, <2>2
<1>4. TypeOK'
  BY <1>2, <1>3 DEF Call, rest, still, QueueInv, TypeOK
<1> QED BY <1>3, <1>4 DEF QueueInv

LEMMA QueueServe == ASSUME QueueInv, NEW c \in Caller, Serve(c) PROVE QueueInv'
<1>0. call[c] \in CallRec /\ call[c].asset \in Asset /\ call[c].row \in Row /\ call[c].list \subseteq Asset
  BY CallTyped DEF QueueInv, CallRec
<1>1. CASE Enqueue(c) \/ Reset(c) \/ Look(c) \/ Unset(c) \/ Last(c) \/ ClearUnset(c) \/ List(c)
  <2>1. (Known /\ Claimed /\ Slots /\ PortionFits)'
    BY <1>1, QueueUntouched DEF Enqueue, Reset, Look, Unset, Last, ClearUnset, List, rest, still
  <2>2. preview' \in [Asset -> {"none", "done", "missing"}]
    BY <1>0, <1>1 DEF Enqueue, Reset, Look, Unset, Last, ClearUnset, List, QueueInv, TypeOK
  <2>3. call' \in [Caller -> CallRec]
    <3>1. \A pc \in {"reset", "look", "create", "last"} :
            Reach(c, pc) => call' \in [Caller -> CallRec]
      BY CallTyped DEF QueueInv, CallPC
    <3>2. Answer(c) => call' \in [Caller -> CallRec]
      BY CallTyped DEF QueueInv
    <3>3. CASE Enqueue(c) \/ Reset(c) \/ Look(c) \/ Unset(c)
      BY <3>1, <3>2, <3>3 DEF Enqueue, Reset, Look, Unset
    <3>4. CASE Last(c)
      <4>1. CASE \E i \in Row : call' = [call EXCEPT ![c].pc = "again", ![c].row = i]
        <5>1. PICK i \in Row : call' = [call EXCEPT ![c].pc = "again", ![c].row = i]
          BY <4>1
        <5> DEFINE rec == [call[c] EXCEPT !.pc = "again", !.row = i]
        <5>2. rec \in CallRec /\ call' = [call EXCEPT ![c] = rec]
          BY <1>0, <5>1 DEF CallRec, CallPC
        <5> QED BY <5>2, CallTyped DEF QueueInv
      <4> QED BY <3>1, <3>2, <3>4, <4>1 DEF Last, RowsOf
    <3>5. CASE ClearUnset(c)
      <4>1. Reach(c, "clearRows")
        BY <3>5 DEF ClearUnset, Reach
      <4> QED BY <4>1, CallTyped DEF QueueInv, CallPC
    <3>6. CASE List(c)
      <4> DEFINE list == {a \in Asset : preview[a] = "none" /\ RowsOf(a) = {}}
                 rec  == [call[c] EXCEPT !.pc = "insert", !.list = list]
      <4>1. list \subseteq Asset /\ call' = [call EXCEPT ![c] = rec]
        BY <3>6 DEF List
      <4> HIDE DEF list
      <4>2. rec \in CallRec
        BY <1>0, <4>1 DEF CallRec, CallPC
      <4> QED BY <4>1, <4>2, CallTyped DEF QueueInv
    <3> QED BY <1>1, <3>3, <3>4, <3>5, <3>6
  <2>4. TypeOK'
    BY <1>1, <2>2, <2>3
       DEF Enqueue, Reset, Look, Unset, Last, ClearUnset, List, rest, still, QueueInv, TypeOK
  <2> QED BY <2>1, <2>4 DEF QueueInv
<1>2. CASE Create(c) \/ Insert(c)
  <2>1. \/ UNCHANGED <<job, created>>
        \/ \E a \in Asset : created < MaxJobs /\ created' = created + 1 /\ job' = Inserted(a)
    BY <1>0, <1>2 DEF Create, Insert
  <2>2. UNCHANGED <<preview, raw, delayed, rest>>
    BY <1>2 DEF Create, Insert
  <2>3. /\ (Known /\ Claimed /\ Slots /\ PortionFits)'
        /\ job' \in [Row -> JobRec] /\ created' \in 0..MaxJobs
    <3>1. CASE UNCHANGED <<job, created>>
      BY <2>2, <3>1, QueueUntouched DEF rest, still, QueueInv, TypeOK
    <3> QED BY <2>1, <2>2, <3>1, InsertedFresh DEF rest, still
  <2>4. call' \in [Caller -> CallRec]
    <3>1. Answer(c) => call' \in [Caller -> CallRec]
      BY CallTyped DEF QueueInv
    <3>2. ASSUME NEW a, call' = [call EXCEPT ![c].list = call[c].list \ {a}]
          PROVE  call' \in [Caller -> CallRec]
      BY <1>0, <3>2 DEF QueueInv, TypeOK, CallRec
    <3> QED BY <1>2, <3>1, <3>2 DEF Create, Insert
  <2>5. TypeOK'
    BY <2>2, <2>3, <2>4 DEF rest, still, QueueInv, TypeOK
  <2> QED BY <2>3, <2>5 DEF QueueInv
<1>3. CASE Again(c)
  <2> DEFINE i == call[c].row
  <2>1. UNCHANGED <<active, work, created, tick, free>>
    BY <1>3 DEF Again, still
  <2>2. /\ (Known /\ Claimed /\ Slots /\ PortionFits)' /\ job' \in [Row -> JobRec]
    <3>1. CASE Exists(i) /\ Allowed({i})
      <4>1. {i} \in SUBSET Row /\ \A j \in {i} : Exists(j)
        BY <1>0, <3>1
      <4>2. OnlyRows(job', {i})
        BY <1>3, <3>1, <4>1, RequeuedRows DEF Again, QueueInv
      <4>3. doubled' = {} => doubled = {} /\ {i} \cap active = {}
        BY <1>3 DEF Again
      <4> QED BY <2>1, <4>1, <4>2, <4>3, RowsPutBack
    <3>2. CASE ~(Exists(i) /\ Allowed({i}))
      <4>1. job' = job
        BY <1>3, <3>2 DEF Again
      <4>2. doubled' = {} => doubled = {}
        BY <1>3 DEF Again
      <4> QED BY <2>1, <4>1, <4>2 DEF QueueInv, TypeOK, Known, Claimed, Slots, CountActive, PortionFits, Batch
    <3> QED BY <3>1, <3>2
  <2>3. call' \in [Caller -> CallRec] /\ doubled' \subseteq Row
    BY <1>0, <1>3, CallTyped DEF Again, QueueInv, TypeOK
  <2>4. TypeOK'
    BY <1>3, <2>2, <2>3 DEF Again, still, QueueInv, TypeOK
  <2> QED BY <2>2, <2>4 DEF QueueInv
<1>4. CASE RetryAll(c)
  <2>1. In("failed") \in SUBSET Row /\ (\A i \in In("failed") : Exists(i)) /\ call' \in [Caller -> CallRec]
    BY <1>4, CallTyped DEF In, Exists, RetryAll, QueueInv
  <2>2. UNCHANGED <<active, work, created, tick, free, doubled>>
    BY <1>4 DEF RetryAll, rest, still
  <2>3. (Known /\ Claimed /\ Slots /\ PortionFits)' /\ job' \in [Row -> JobRec]
    <3>1. CASE job' = Requeued(In("failed"), FALSE)
      <4>1. OnlyRows(job', In("failed"))
        BY <2>1, <3>1, RequeuedRows DEF QueueInv
      <4>2. doubled = {} => In("failed") \cap active = {}
        BY DEF In, QueueInv, Claimed
      <4> QED BY <2>1, <2>2, <4>1, <4>2, RowsPutBack
    <3>2. CASE job' = job
      BY <2>2, <3>2, QueueUntouched DEF QueueInv, TypeOK
    <3> QED BY <1>4, <3>1, <3>2 DEF RetryAll
  <2>4. TypeOK'
    BY <1>4, <2>1, <2>3 DEF RetryAll, rest, still, QueueInv, TypeOK
  <2> QED BY <2>3, <2>4 DEF QueueInv
<1>5. CASE ClearRows(c)
  <2> DEFINE rows == {i \in Row : Exists(i)}
  <2>1. OnlyRows(job', rows) /\ \A i \in rows : job'[i].state = "gone"
    BY <1>5, DroppedRows DEF ClearRows, QueueInv
  <2>2. (Known /\ Claimed /\ Slots /\ PortionFits)' /\ job' \in [Row -> JobRec]
    BY <1>5, <2>1, RowsPutBack DEF ClearRows, still
  <2>3. cutShort' \subseteq Asset
    BY <1>5 DEF ClearRows, QueueInv, TypeOK, JobRec
  <2>4. call' \in [Caller -> CallRec]
    BY <1>5, CallTyped DEF ClearRows, QueueInv
  <2>5. TypeOK'
    BY <1>5, <2>2, <2>3, <2>4 DEF ClearRows, still, QueueInv, TypeOK
  <2> QED BY <2>2, <2>5 DEF QueueInv
<1> QED BY <1>1, <1>2, <1>3, <1>4, <1>5 DEF Serve

-----------------------------------------------------------------------------
(* Pauses, copies, shutdown and restart *)

LEMMA QueueRestart == ASSUME QueueInv, Restart PROVE QueueInv'
<1>1. /\ Dropped(Duplicates) \in [Row -> JobRec]
      /\ \A i \in Row : i > created => Dropped(Duplicates)[i].state = "none"
  BY DuplicatesExist, DroppedRows DEF QueueInv, OnlyRows, Known, Exists
<1>2. /\ job' \in [Row -> JobRec]
      /\ \A i \in Row : i > created => job'[i].state = "none"
  BY <1>1 DEF Restart, JobRec, RowState
<1>3. call' \in [Caller -> CallRec]
  BY DEF Restart, QueueInv, TypeOK, CallRec, CallPC
<1>4. /\ active' = {} /\ tick' = "idle" /\ work' = [i \in Row |-> NoWork] /\ created' = created
      /\ free' = 0 /\ delayed' = {} /\ cut' = {} /\ stopped' = FALSE /\ restarts' = restarts + 1
      /\ restarts < MaxRestart
      /\ UNCHANGED <<preview, raw, page, inFiles, aged, overdue, paused, fails, cutShort, doubled>>
  BY DEF Restart
<1>5. TypeOK'
  <2>1. restarts' \in 0..MaxRestart /\ 0 \in 0..PhotoParallel
    BY <1>4, NumberAssumption DEF QueueInv, TypeOK
  <2>2. work' \in [Row -> WorkRec]
    BY <1>4, NoWorkTyped
  <2> QED BY <1>2, <1>3, <1>4, <2>1, <2>2 DEF QueueInv, TypeOK
<1>6. Known' /\ Claimed' /\ PortionFits'
  BY <1>2, <1>4, NoWorkTyped DEF Known, Claimed, PortionFits
<1>7. Slots'
  <2>1. \A g : CountActive(g)' = 0
    BY <1>4, FS_EmptySet DEF CountActive
  <2> QED BY <1>4, <2>1, NumberAssumption DEF Slots
<1> QED BY <1>5, <1>6, <1>7 DEF QueueInv

LEMMA QueueRest ==
  ASSUME QueueInv, Pause \/ (\E a \in Asset : Copy(a)) \/ Shutdown \/ UNCHANGED vars
  PROVE  QueueInv'
<1>1. (Known /\ Claimed /\ Slots /\ PortionFits)'
  BY QueueUntouched DEF Pause, Copy, Shutdown, db, mem, vars
<1>2. TypeOK'
  <2>1. CASE Pause
    BY <2>1 DEF Pause, db, mem, QueueInv, TypeOK
  <2>2. CASE \E a \in Asset : Copy(a)
    BY <2>2 DEF Copy, mem, QueueInv, TypeOK
  <2>3. CASE Shutdown
    BY <2>3 DEF Shutdown, db, QueueInv, TypeOK
  <2>4. CASE UNCHANGED vars
    BY <2>4 DEF vars, QueueInv, TypeOK
  <2> QED BY <2>1, <2>2, <2>3, <2>4
<1> QED BY <1>1, <1>2 DEF QueueInv

LEMMA QueueInit == Init => QueueInv
<1> SUFFICES ASSUME Init PROVE QueueInv
  OBVIOUS
<1> DEFINE one == CHOOSE a \in Asset : TRUE
<1>1. one \in Asset
  BY AssetAssumption
<1>2. TypeOK
  <2>1. [asset |-> one, state |-> "none", attempts |-> 0] \in JobRec
    BY <1>1 DEF JobRec, RowState
  <2>2. [pc |-> "idle", asset |-> one, row |-> 1, list |-> {}] \in CallRec
    BY <1>1, NumberAssumption DEF CallRec, CallPC, Row
  <2>3. /\ job = [i \in Row |-> [asset |-> one, state |-> "none", attempts |-> 0]]
        /\ call = [c \in Caller |-> [pc |-> "idle", asset |-> one, row |-> 1, list |-> {}]]
        /\ work = [i \in Row |-> NoWork]
    BY DEF Init
  <2> HIDE DEF one
  <2>4. job \in [Row -> JobRec] /\ call \in [Caller -> CallRec] /\ work \in [Row -> WorkRec]
    BY <2>1, <2>2, <2>3, NoWorkTyped
  <2>5. 0 \in 0..Pages /\ 0 \in 0..MaxJobs /\ 0 \in 0..PhotoParallel /\ 0 \in 0..MaxFail /\ 0 \in 0..MaxRestart
    BY NumberAssumption
  <2> QED BY <2>4, <2>5 DEF Init, TypeOK
<1>3. Known /\ Claimed /\ PortionFits
  BY NoWorkTyped DEF Init, Known, Claimed, PortionFits
<1>4. Slots
  <2>1. \A g : CountActive(g) = 0
    BY FS_EmptySet DEF Init, CountActive
  <2> QED BY <2>1, NumberAssumption DEF Slots, Init
<1> QED BY <1>2, <1>3, <1>4 DEF QueueInv

LEMMA QueueNext == QueueInv /\ [Next]_vars => QueueInv'
  BY QueueTick, QueueTimer, QueueProcess, QueueCall, QueueServe, QueueRestart, QueueRest DEF Next

(* The state stays typed. *)
THEOREM QueueTyped == Spec => []TypeOK
<1>1. QueueInv => TypeOK
  BY DEF QueueInv
<1> QED BY QueueInit, QueueNext, <1>1, PTL DEF Spec

(* Whatever calls and restarts come between the awaits of the worker, one  *)
(* PDF and one video at most are at work; and until two retries of one row *)
(* cross, the photos at work are no more than their slots and every row at *)
(* work is in the map, claimed.                                            *)
THEOREM SlotsHold == Spec => []SlotsSound
<1>1. QueueInv => SlotsSound
  BY DEF QueueInv, SlotsSound, OneAtATime, SlotsRespected, RunningIsActive, Known, Claimed, Slots
<1> QED BY QueueInit, QueueNext, <1>1, PTL DEF Spec

-----------------------------------------------------------------------------
(* The pages of a document *)

\* dedupeJobs leaves every asset with rows a row: of those none is better than, there is one.
LEMMA DedupeKeeps ==
  ASSUME TypeOK, NEW a \in Asset, RowsOf(a) # {}
  PROVE  \E i \in RowsOf(a) : i \notin Duplicates
<1> DEFINE Below(j) == {i \in RowsOf(a) : Better(i, j)}
           S        == {Below(j) : j \in RowsOf(a)}
           R        == StrictSubsetOrdering(Row)
<1>1. \A i \in RowsOf(a) : i \in Int /\ Rank(i) \in {0, 1, 2} /\ job[i].asset = a
  BY NumberAssumption DEF RowsOf, Row, Rank
<1>2. S \subseteq FiniteSubsetsOf(Row) /\ S # {}
  <2>1. IsFiniteSet(Row)
    BY NumberAssumption, FS_Interval DEF Row
  <2>2. \A j \in RowsOf(a) : Below(j) \in SUBSET Row /\ IsFiniteSet(Below(j))
    BY <2>1, FS_Subset DEF RowsOf
  <2> QED BY <2>2 DEF FiniteSubsetsOf
<1>3. IsWellFoundedOn(R, FiniteSubsetsOf(Row))
  BY FS_StrictSubsetOrderingWellFounded
<1>4. PICK x \in S : \A y \in S : ~(<<y, x>> \in R)
  <2> HIDE DEF S, R
  <2> QED BY <1>2, <1>3, WFMin
<1>5. PICK i \in RowsOf(a) : x = Below(i)
  BY <1>4
<1>6. ASSUME NEW k \in RowsOf(a), Better(k, i) PROVE FALSE
  <2>1. Below(k) \subseteq Below(i)
    BY <1>1, <1>6 DEF Better
  <2>2. k \in Below(i) /\ k \notin Below(k)
    BY <1>1, <1>6 DEF Better
  <2>3. <<Below(k), Below(i)>> \in R
    BY <2>1, <2>2 DEF StrictSubsetOrdering, RowsOf
  <2> QED BY <1>4, <1>5, <2>3
<1> QED BY <1>1, <1>5, <1>6 DEF Duplicates

LEMMA PdfTyped ==
  ASSUME QueueInv
  PROVE  /\ \A i \in Tasks("pdf") : i \in Row /\ i \in active /\ job[i].asset \in Asset
                                    /\ KindOf[job[i].asset] = "pdf"
         /\ \A i, j \in Tasks("pdf") : i = j
<1>1. TypeOK /\ CountActive("pdf") <= 1
  BY DEF QueueInv, Slots
<1>2. \A i, j \in Tasks("pdf") : i = j
  BY <1>1, OneTask
<1>3. \A i \in Tasks("pdf") : i \in Row /\ i \in active /\ KindOf[job[i].asset] = "pdf"
  BY <1>1 DEF Tasks, TypeOK
<1> QED BY <1>1, <1>2, <1>3, RowTyped

\* Everything but the tasks: a preview is unset at most, and a document loses its last row only to clear.
LEMMA PdfKept ==
  ASSUME QueueInv, PdfInv, UNCHANGED <<page, work, active>>,
         \A a \in Asset : preview'[a] = "done" => preview[a] = "done",
         \A i \in active : job'[i].asset = job[i].asset /\ (Exists(i)' => Exists(i)),
         \A a \in Asset : Accounted(a) => Accounted(a)',
         \A i \in active : Exists(i) /\ ~Exists(i)' => Accounted(job[i].asset)'
  PROVE  PdfInv'
<1>1. RemainderLostToClear'
  BY DEF PdfInv, RemainderLostToClear, Accounted
<1>2. Tasks("pdf")' \subseteq Tasks("pdf")
  BY DEF Tasks
<1>3. ASSUME NEW i \in Tasks("pdf")' PROVE PdfTask(i)'
  <2>1. i \in Tasks("pdf") /\ i \in active /\ job[i].asset \in Asset /\ job'[i].asset = job[i].asset /\ PdfTask(i)
    BY <1>2, PdfTyped DEF PdfInv
  <2> QED BY <2>1 DEF PdfTask, AllDone
<1> QED BY <1>1, <1>3 DEF PdfInv

\* Rows that stay, with their assets, go on to account for them.
LEMMA AccountedKept ==
  ASSUME cutShort \subseteq cutShort', \A i \in Row : Exists(i) => Exists(i)' /\ job'[i].asset = job[i].asset
  PROVE  \A a : Accounted(a) => Accounted(a)'
  BY DEF Accounted, RowsOf

\* A statement that puts rows back or leaves them.
LEMMA PdfPutBack ==
  ASSUME QueueInv, PdfInv, UNCHANGED <<page, work, active>>, cutShort \subseteq cutShort',
         \A a \in Asset : preview'[a] = "done" => preview[a] = "done",
         NEW rows \in SUBSET Row, OnlyRows(job', rows), \A i \in rows : Exists(i) /\ Exists(i)'
  PROVE  PdfInv'
<1>1. \A i \in Row : job'[i].asset = job[i].asset /\ (Exists(i)' <=> Exists(i))
  BY DEF OnlyRows, Exists
<1>2. \A a : Accounted(a) => Accounted(a)'
  BY <1>1, AccountedKept
<1> QED BY <1>1, <1>2, PdfKept DEF QueueInv, TypeOK

LEMMA PdfUntouched ==
  ASSUME QueueInv, PdfInv, UNCHANGED <<page, work, active, job, cutShort>>,
         \A a \in Asset : preview'[a] = "done" => preview[a] = "done"
  PROVE  PdfInv'
<1>1. OnlyRows(job', {})
  BY DEF OnlyRows, QueueInv, TypeOK
<1> QED BY <1>1, PdfPutBack

\* A task starts: a document's is then the only one.
LEMMA PdfTaken ==
  ASSUME QueueInv, PdfInv, NEW g \in Group, Take(g), g = "pdf" => CountActive(g) = 0,
         UNCHANGED <<preview, page, cutShort>>
  PROVE  PdfInv'
<1>1. PICK i \in Takeable(g) :
        /\ job' = [job EXCEPT ![i].state = "processing", ![i].attempts = job[i].attempts + 1]
        /\ active' = active \cup {i} /\ work' = [work EXCEPT ![i] = [NoWork EXCEPT !.pc = "download"]]
  BY DEF Take
<1>2. i \in Row /\ job[i].state = "pending" /\ KindOf[job[i].asset] = g
  BY DEF Takeable, Pending, In
<1>3. /\ job'[i].state = "processing" /\ work'[i].pc = "download"
      /\ \A j \in Row : job'[j].asset = job[j].asset /\ (j # i => job'[j] = job[j] /\ work'[j] = work[j])
  BY <1>1, <1>2 DEF QueueInv, TypeOK, JobRec, NoWork
<1>4. \A j \in Row : job'[j].asset = job[j].asset /\ (Exists(j)' <=> Exists(j))
  BY <1>2, <1>3 DEF Exists
<1>5. \A a : Accounted(a) => Accounted(a)'
  BY <1>4, AccountedKept
<1>6. RemainderLostToClear'
  BY <1>5 DEF PdfInv, RemainderLostToClear, Accounted
<1>7. ASSUME NEW j \in Tasks("pdf")' PROVE PdfTask(j)'
  <2>1. j \in Row /\ KindOf[job[j].asset] = "pdf" /\ (j = i \/ j \in Tasks("pdf"))
    BY <1>1, <1>2, <1>4 DEF Tasks, QueueInv, TypeOK
  <2>2. CASE j = i
    BY <1>3, <1>4, <2>2 DEF PdfTask, Exists
  <2>3. CASE j # i
    <3>1. j \in Tasks("pdf") /\ PdfTask(j)
      BY <2>1, <2>3 DEF PdfInv
    <3> QED BY <1>3, <1>4, <1>5, <2>1, <2>3, <3>1 DEF PdfTask, AllDone
  <2> QED BY <2>2, <2>3
<1> QED BY <1>6, <1>7 DEF PdfInv

\* The task of a photo or a video touches no document.
LEMMA PdfOther ==
  ASSUME QueueInv, PdfInv, NEW i \in Row, job[i].asset \in Asset, KindOf[job[i].asset] # "pdf",
         OnlyRows(job', {i}), active' \subseteq active, \A j \in Row \ {i} : work'[j] = work[j],
         \A a \in Asset \ {job[i].asset} : preview'[a] = preview[a] /\ page'[a] = page[a],
         cutShort' = cutShort
  PROVE  PdfInv'
<1>1. ASSUME NEW a \in Asset, KindOf[a] = "pdf"
      PROVE  RowsOf(a)' = RowsOf(a) /\ preview'[a] = preview[a] /\ page'[a] = page[a]
  BY <1>1 DEF RowsOf, Exists, OnlyRows
<1>2. RemainderLostToClear'
  BY <1>1 DEF PdfInv, RemainderLostToClear
<1>3. ASSUME NEW j \in Tasks("pdf")' PROVE PdfTask(j)'
  <2>1. job'[j].asset = job[j].asset /\ j \in Tasks("pdf")
    BY DEF Tasks, OnlyRows, QueueInv, TypeOK
  <2>2. /\ j \in Row /\ j # i /\ job[j].asset \in Asset /\ KindOf[job[j].asset] = "pdf" /\ PdfTask(j)
        /\ job'[j] = job[j] /\ work'[j] = work[j]
    BY <2>1, PdfTyped DEF PdfInv, OnlyRows
  <2> QED BY <1>1, <2>1, <2>2 DEF PdfTask, AllDone, Exists, Accounted
<1> QED BY <1>2, <1>3 DEF PdfInv

\* A step of the only task of a document; no row changes.
LEMMA PdfStep ==
  ASSUME QueueInv, PdfInv, NEW i \in Tasks("pdf"), UNCHANGED <<job, active, cutShort>>,
         RemainderLostToClear', PdfTask(i)'
  PROVE  PdfInv'
<1>1. Tasks("pdf")' = Tasks("pdf")
  BY DEF Tasks
<1> QED BY <1>1, PdfTyped DEF PdfInv

\* The end of the only task of a document: its row stays, or nothing of the document is owed.
LEMMA PdfEnds ==
  ASSUME QueueInv, PdfInv, NEW i \in Tasks("pdf"), UNCHANGED <<preview, page, cutShort>>,
         active' = active \ {i}, OnlyRows(job', {i}),
         \/ Exists(i) => Exists(i)'
         \/ preview[job[i].asset] # "done"
         \/ page[job[i].asset] >= Pages
  PROVE  PdfInv'
<1>0. i \in Row /\ job[i].asset \in Asset
  BY PdfTyped
<1>1. Tasks("pdf")' = {}
  BY PdfTyped DEF Tasks, OnlyRows, QueueInv, TypeOK
<1>2. ASSUME NEW a \in Asset, KindOf[a] = "pdf", preview[a] = "done", page[a] < Pages, RowsOf(a) # {},
             a # job[i].asset \/ (Exists(i) => Exists(i)')
      PROVE  RowsOf(a)' # {}
  BY <1>0, <1>2 DEF RowsOf, Exists, OnlyRows
<1>3. page[job[i].asset] \in Nat /\ Pages \in Nat
  BY <1>0, NumberAssumption DEF QueueInv, TypeOK
<1>4. RemainderLostToClear'
  BY <1>2, <1>3 DEF PdfInv, RemainderLostToClear
<1> QED BY <1>1, <1>4 DEF PdfInv

LEMMA PdfProcess == ASSUME QueueInv, PdfInv, NEW i \in Row, Process(i) PROVE PdfInv'
<1> DEFINE a == job[i].asset
<1>0. /\ a \in Asset /\ i \in active /\ work[i] \in WorkRec
      /\ Pages \in Nat /\ \A b \in Asset : page[b] \in 0..Pages
  BY RowTyped, NumberAssumption
     DEF QueueInv, TypeOK, Known, Process, Download, MarkMissing, Drop, Convert, RenderPage, PdfEnd, CountRefs,
         DeleteRaw, Finish, FailTransient, FailForGood
<1>1. OnlyRows(job', {i}) /\ (active' = active \/ active' = active \ {i}) /\ cutShort' = cutShort
      /\ \A j \in Row \ {i} : work'[j] = work[j]
  <2>1. CASE Drop(i) \/ Finish(i) \/ FailTransient(i) \/ FailForGood(i)
    <3>1. \A state \in {"gone", "pending", "failed"}, n \in {0, job[i].attempts} :
            OnlyRows(Ending(i, state, n), {i})
      <4>1. TypeOK /\ {"gone", "pending", "failed"} \subseteq RowState /\ {0, job[i].attempts} \subseteq Nat
        BY RowTyped DEF QueueInv, RowState
      <4> QED BY <4>1, EndingRow
    <3>2. OnlyRows(job, {i})
      BY DEF OnlyRows, QueueInv, TypeOK
    <3>3. OnlyRows(job', {i})
      BY <2>1, <3>1, <3>2, WriteRow DEF Drop, Finish, FailTransient, FailForGood
    <3> QED BY <2>1, <3>3 DEF Drop, Finish, FailTransient, FailForGood, Finally, QueueInv, TypeOK
  <2>2. CASE Download(i) \/ MarkMissing(i) \/ Convert(i) \/ RenderPage(i) \/ PdfEnd(i) \/ CountRefs(i) \/ DeleteRaw(i)
    <3>1. UNCHANGED <<job, active, cutShort>>
      BY <2>2 DEF Download, MarkMissing, Convert, RenderPage, PdfEnd, CountRefs, DeleteRaw, db
    <3>2. \A j \in Row \ {i} : work'[j] = work[j]
      BY <2>2 DEF Download, MarkMissing, Convert, RenderPage, PdfEnd, CountRefs, DeleteRaw, Step, QueueInv, TypeOK
    <3> QED BY <3>1, <3>2 DEF OnlyRows, QueueInv, TypeOK
  <2> QED BY <2>1, <2>2 DEF Process
<1>2. CASE KindOf[a] # "pdf"
  <2>1. \A b \in Asset \ {a} : preview'[b] = preview[b] /\ page'[b] = page[b]
    BY DEF Process, Download, MarkMissing, Drop, Convert, RenderPage, PdfEnd, CountRefs, DeleteRaw, Finish,
           FailTransient, FailForGood, db, QueueInv, TypeOK
  <2> QED BY <1>0, <1>1, <1>2, <2>1, PdfOther
<1>3. CASE KindOf[a] = "pdf"
  <2>0. i \in Tasks("pdf") /\ PdfTask(i) /\ work[i].pc \notin {"convert", "original", "delete"}
    BY <1>0, <1>3 DEF Tasks, PdfInv, PdfTask
  <2>1. CASE Download(i)
    <3>1. /\ work'[i].pc = "missing" \/ (work'[i].pc = "pages" /\ work'[i].from = page[a])
          /\ work'[i].done = 0 /\ UNCHANGED <<preview, page, job, active, cutShort>>
      BY <1>0, <1>3, <2>1 DEF Download, Step, db, QueueInv, TypeOK, PortionFits, WorkRec
    <3>2. RemainderLostToClear'
      BY <3>1 DEF PdfInv, RemainderLostToClear, RowsOf, Exists
    <3>3. PdfTask(i)'
      BY <1>0, <2>0, <3>1 DEF PdfTask, Exists, Accounted, RowsOf
    <3> QED BY <2>0, <3>1, <3>2, <3>3, PdfStep
  <2>2. CASE MarkMissing(i)
    <3>1. /\ work'[i].pc = "drop" /\ UNCHANGED <<page, job, active, cutShort>>
          /\ preview'[a] = "missing" /\ \A b \in Asset : b # a => preview'[b] = preview[b]
      BY <1>0, <2>2 DEF MarkMissing, Step, QueueInv, TypeOK
    <3>2. RemainderLostToClear'
      BY <3>1 DEF PdfInv, RemainderLostToClear, RowsOf, Exists
    <3>3. PdfTask(i)'
      BY <2>0, <3>1 DEF PdfTask, Exists, Accounted, RowsOf
    <3> QED BY <2>0, <3>1, <3>2, <3>3, PdfStep
  <2>3. CASE RenderPage(i)
    <3>1. /\ work'[i].from = work[i].from /\ work[i].pc = "pages"
          /\ UNCHANGED <<preview, job, active, cutShort>>
      BY <1>0, <2>3 DEF RenderPage, Step, QueueInv, TypeOK, WorkRec
    <3>2. \/ /\ work'[i].pc = "pages" /\ work'[i].done = work[i].done + 1
             /\ page'[a] = IF work[i].from + work[i].done < page[a] THEN page[a] ELSE work[i].from + work[i].done + 1
          \/ work'[i].pc = "pdfEnd" /\ work'[i].done = work[i].done /\ page'[a] = page[a]
      BY <1>0, <2>3 DEF RenderPage, Step, QueueInv, TypeOK, WorkRec
    <3>3. \A b \in Asset : b # a => page'[b] = page[b]
      BY <1>0, <2>3 DEF RenderPage, QueueInv, TypeOK
    <3>4. work[i].from \in Nat /\ work[i].done \in Nat /\ work[i].from + work[i].done <= page[a]
      BY <1>0, <2>0, <3>1 DEF WorkRec, PdfTask
    <3>5. page'[a] >= page[a] /\ page'[a] \in Nat /\ work'[i].from + work'[i].done <= page'[a]
      BY <1>0, <3>1, <3>2, <3>4
    <3>6. RemainderLostToClear'
      BY <1>0, <3>1, <3>3, <3>5 DEF PdfInv, RemainderLostToClear, RowsOf, Exists
    <3>7. PdfTask(i)'
      BY <2>0, <3>1, <3>2, <3>5 DEF PdfTask, Exists, Accounted, RowsOf
    <3> QED BY <2>0, <3>1, <3>6, <3>7, PdfStep
  <2>4. CASE PdfEnd(i)
    <3>1. /\ work'[i].from = work[i].from /\ work'[i].done = work[i].done /\ work[i].pc = "pdfEnd"
          /\ work'[i].pc = (IF AllDone(i) \/ ~Exists(i) THEN "final" ELSE "requeue")
          /\ UNCHANGED <<page, job, active, cutShort>>
          /\ \A b \in Asset : b # a => preview'[b] = preview[b]
      BY <1>0, <2>4 DEF PdfEnd, Step, QueueInv, TypeOK, WorkRec
    <3>2. Accounted(a)
      BY <1>0, <2>0 DEF PdfTask, Accounted, RowsOf
    <3>3. RemainderLostToClear'
      BY <3>1, <3>2 DEF PdfInv, RemainderLostToClear, Accounted, RowsOf, Exists
    <3>4. PdfTask(i)'
      BY <2>0, <3>1 DEF PdfTask, Exists, Accounted, RowsOf, AllDone
    <3> QED BY <2>0, <3>1, <3>3, <3>4, PdfStep
  <2>5. CASE Drop(i)
    <3>1. preview[a] # "done" /\ active' = active \ {i} /\ UNCHANGED <<preview, page, cutShort>>
      BY <2>0, <2>5 DEF Drop, Finally, PdfTask
    <3> QED BY <1>1, <2>0, <3>1, PdfEnds
  <2>6. CASE Finish(i)
    <3>1. active' = active \ {i} /\ UNCHANGED <<preview, page, cutShort>>
      BY <2>6 DEF Finish, Finally
    <3>2. CASE work[i].pc = "final"
      <4>1. CASE Exists(i)
        <5>1. work[i].from + work[i].done = Pages /\ work[i].from + work[i].done <= page[a]
          BY <2>0, <3>2, <4>1 DEF PdfTask, AllDone
        <5>2. page[a] >= Pages
          BY <1>0, <5>1
        <5> QED BY <1>1, <2>0, <3>1, <5>2, PdfEnds
      <4> QED BY <1>1, <2>0, <3>1, <4>1, PdfEnds
    <3>3. CASE work[i].pc = "requeue"
      <4>1. Exists(i) => Exists(i)'
        <5>1. Exists(i) => Ending(i, "pending", 0)[i].state = "pending"
          BY EndingRow DEF QueueInv, RowState
        <5> QED BY <2>6, <3>3, <5>1 DEF Finish, Write, Exists
      <4> QED BY <1>1, <2>0, <3>1, <4>1, PdfEnds
    <3> QED BY <2>6, <3>2, <3>3 DEF Finish
  <2>7. CASE FailTransient(i) \/ FailForGood(i)
    <3>1. active' = active \ {i} /\ UNCHANGED <<preview, page, cutShort>>
      BY <2>7 DEF FailTransient, FailForGood, Finally
    <3>2. Exists(i) => Exists(i)'
      <4>1. \A state \in {"pending", "failed"} :
              Exists(i) => Ending(i, state, job[i].attempts)[i].state = state
        <5>1. TypeOK /\ {"pending", "failed"} \subseteq RowState /\ job[i].attempts \in Nat
          BY RowTyped DEF QueueInv, RowState
        <5> QED BY <5>1, EndingRow
      <4> QED BY <2>7, <4>1 DEF FailTransient, FailForGood, Exists
    <3> QED BY <1>1, <2>0, <3>1, <3>2, PdfEnds
  <2>8. ~Convert(i) /\ ~CountRefs(i) /\ ~DeleteRaw(i)
    BY <2>0 DEF Convert, CountRefs, DeleteRaw
  <2> QED BY <2>1, <2>2, <2>3, <2>4, <2>5, <2>6, <2>7, <2>8 DEF Process
<1> QED BY <1>2, <1>3

LEMMA PdfTick ==
  ASSUME QueueInv, PdfInv, Tick \/ Reap \/ \E i \in Row : DelayOver(i) \/ Age(i)
  PROVE  PdfInv'
<1>1. CASE TickBegin
  BY <1>1, PdfUntouched DEF TickBegin, db
<1>2. ASSUME NEW g \in Group, g = "pdf" => CountActive(g) = 0, Take(g) \/ UNCHANGED <<job, active, work>>,
             UNCHANGED <<preview, page, cutShort>>
      PROVE  PdfInv'
  BY <1>2, PdfTaken, PdfUntouched
<1>3. CASE TickPhoto
  BY <1>2, <1>3 DEF TickPhoto, Group
<1>4. CASE TickPdf
  BY <1>2, <1>4 DEF TickPdf, TakeNothing, Group
<1>5. CASE TickVideo
  BY <1>2, <1>5 DEF TickVideo, TakeNothing, Group
<1>6. CASE Reap
  <2>1. Stuck \in SUBSET Row /\ \A i \in Stuck : Exists(i)
    BY DEF Stuck, In, Exists
  <2>2. OnlyRows(job', Stuck) /\ \A i \in Stuck : job'[i].state = "pending"
    BY <1>6, <2>1, RequeuedRows DEF Reap, QueueInv
  <2>3. \A i \in Stuck : Exists(i)'
    BY <2>2 DEF Exists
  <2> QED BY <1>6, <2>1, <2>2, <2>3, PdfPutBack DEF Reap
<1>7. CASE \E i \in Row : DelayOver(i) \/ Age(i)
  BY <1>7, PdfUntouched DEF DelayOver, Age, db, mem
<1> QED BY <1>1, <1>3, <1>4, <1>5, <1>6, <1>7 DEF Tick

\* Duplicates go, and a document whose rows are among them keeps one.
LEMMA PdfDeduped ==
  ASSUME QueueInv, NEW a \in Asset, Accounted(a), cutShort' = cutShort,
         \A i \in Row : job'[i].asset = job[i].asset /\ (Exists(i) /\ i \notin Duplicates => Exists(i)')
  PROVE  Accounted(a)'
<1>1. CASE RowsOf(a) # {}
  <2>1. PICK i \in RowsOf(a) : i \notin Duplicates
    BY <1>1, DedupeKeeps DEF QueueInv
  <2> QED BY <2>1 DEF Accounted, RowsOf
<1> QED BY <1>1 DEF Accounted

LEMMA PdfCall == ASSUME QueueInv, PdfInv, NEW c \in Caller, Call(c) PROVE PdfInv'
<1>1. UNCHANGED <<preview, page, work, active, cutShort>> /\ (job' = job \/ job' = Dropped(Duplicates))
  BY DEF Call, rest, still
<1>2. CASE job' = job
  BY <1>1, <1>2, PdfUntouched
<1>3. CASE job' = Dropped(Duplicates)
  <2>1. OnlyRows(job', Duplicates) /\ \A i \in Duplicates : job'[i].state = "gone"
    BY <1>3, DuplicatesExist, DroppedRows DEF QueueInv
  <2>2. \A i \in Row : job'[i].asset = job[i].asset /\ (Exists(i) /\ i \notin Duplicates => Exists(i)')
    BY <2>1 DEF OnlyRows, Exists
  <2>3. \A a \in Asset : Accounted(a) => Accounted(a)'
    BY <1>1, <2>2, PdfDeduped
  <2>4. ASSUME NEW i \in active, Exists(i) PROVE Accounted(job[i].asset)'
    <3>1. i \in Row /\ job[i].asset \in Asset
      BY RowTyped DEF QueueInv, TypeOK
    <3>2. Accounted(job[i].asset)
      BY <2>4, <3>1 DEF Accounted, RowsOf
    <3> QED BY <2>2, <2>3, <3>1, <3>2
  <2>5. \A i \in active : job'[i].asset = job[i].asset /\ (Exists(i)' => Exists(i))
    BY <2>1 DEF OnlyRows, Exists, QueueInv, TypeOK
  <2> QED BY <1>1, <2>3, <2>4, <2>5, PdfKept
<1> QED BY <1>1, <1>2, <1>3

LEMMA PdfServe == ASSUME QueueInv, PdfInv, NEW c \in Caller, Serve(c) PROVE PdfInv'
<1>0. call[c].asset \in Asset /\ call[c].row \in Row
  BY CallTyped DEF QueueInv, CallRec
<1>1. CASE Enqueue(c) \/ Reset(c) \/ Look(c) \/ Unset(c) \/ Last(c) \/ ClearUnset(c) \/ List(c)
  <2>1. UNCHANGED <<page, work, active, job, cutShort>>
    BY <1>1 DEF Enqueue, Reset, Look, Unset, Last, ClearUnset, List, rest, still
  <2>2. \A a \in Asset : preview'[a] = "done" => preview[a] = "done"
    BY <1>0, <1>1 DEF Enqueue, Reset, Look, Unset, Last, ClearUnset, List, QueueInv, TypeOK
  <2> QED BY <2>1, <2>2, PdfUntouched
<1>2. CASE Create(c) \/ Insert(c)
  <2>1. UNCHANGED <<preview, page, work, active, cutShort>>
    BY <1>2 DEF Create, Insert, rest, still
  <2>2. CASE job' = job
    BY <2>1, <2>2, PdfUntouched
  <2>3. CASE \E a \in Asset : created < MaxJobs /\ job' = Inserted(a)
    <3>1. PICK a \in Asset : created < MaxJobs /\ job' = Inserted(a)
      BY <2>3
    <3>2. created + 1 \in Row /\ \A i \in Row \ {created + 1} : job'[i] = job[i]
      BY <3>1, InsertedRow DEF QueueInv
    <3>3. ~Exists(created + 1) /\ created + 1 \notin active
      BY <3>2 DEF QueueInv, Known, TypeOK, Exists
    <3>4. \A i \in Row : Exists(i) => Exists(i)' /\ job'[i].asset = job[i].asset
      BY <3>2, <3>3 DEF Exists
    <3>5. \A i \in active : job'[i] = job[i]
      BY <3>2, <3>3 DEF QueueInv, TypeOK
    <3>6. \A b : Accounted(b) => Accounted(b)'
      BY <2>1, <3>4, AccountedKept
    <3>7. \A i \in active : job'[i].asset = job[i].asset /\ (Exists(i)' <=> Exists(i))
      BY <3>5 DEF Exists
    <3> QED BY <2>1, <3>6, <3>7, PdfKept
  <2>4. call[c].list \subseteq Asset
    BY CallTyped DEF QueueInv, CallRec
  <2> QED BY <1>0, <1>2, <2>2, <2>3, <2>4 DEF Create, Insert
<1>3. CASE Again(c) \/ RetryAll(c)
  <2>1. UNCHANGED <<preview, page, work, active, cutShort>>
    BY <1>3 DEF Again, RetryAll, rest, still
  <2>2. \/ job' = job
        \/ \E rows \in SUBSET Row : job' = Requeued(rows, FALSE) /\ \A i \in rows : Exists(i)
    <3>1. In("failed") \in SUBSET Row /\ \A i \in In("failed") : Exists(i)
      BY DEF In, Exists
    <3>2. {call[c].row} \in SUBSET Row
      BY <1>0
    <3> QED BY <1>3, <3>1, <3>2 DEF Again, RetryAll
  <2>3. CASE job' = job
    BY <2>1, <2>3, PdfUntouched
  <2>4. ASSUME NEW rows \in SUBSET Row, job' = Requeued(rows, FALSE), \A i \in rows : Exists(i)
        PROVE  PdfInv'
    <3>1. OnlyRows(job', rows) /\ \A i \in rows : job'[i].state = "pending"
      BY <2>4, RequeuedRows DEF QueueInv
    <3>2. \A i \in rows : Exists(i)'
      BY <3>1 DEF Exists
    <3> QED BY <2>1, <2>4, <3>1, <3>2, PdfPutBack
  <2> QED BY <2>2, <2>3, <2>4
<1>4. CASE ClearRows(c)
  <2> DEFINE rows == {i \in Row : Exists(i)}
  <2>1. OnlyRows(job', rows) /\ \A i \in rows : job'[i].state = "gone"
    BY <1>4, DroppedRows DEF ClearRows, QueueInv
  <2>2. cutShort' = cutShort \cup {job[i].asset : i \in active \cup {j \in rows : preview[job[j].asset] = "done"}}
    BY <1>4 DEF ClearRows
  <2>3. RemainderLostToClear'
    <3>1. UNCHANGED <<preview, page>>
      BY <1>4 DEF ClearRows, still
    <3>2. \A a \in Asset : preview[a] = "done" /\ RowsOf(a) # {} => a \in cutShort'
      BY <2>2 DEF RowsOf
    <3> QED BY <2>2, <3>1, <3>2 DEF PdfInv, RemainderLostToClear
  <2>4. ASSUME NEW i \in Tasks("pdf")' PROVE PdfTask(i)'
    <3>1. i \in Tasks("pdf") /\ job'[i].asset = job[i].asset /\ job[i].asset \in cutShort'
      BY <1>4, <2>1, <2>2 DEF Tasks, OnlyRows, ClearRows, still, QueueInv, TypeOK
    <3>2. PdfTask(i) /\ i \in Row
      BY <3>1, PdfTyped DEF PdfInv
    <3>3. ~Exists(i)'
      BY <2>1, <3>2 DEF OnlyRows, Exists
    <3> QED BY <1>4, <3>1, <3>2, <3>3 DEF PdfTask, Accounted, AllDone, ClearRows, still
  <2> QED BY <2>3, <2>4 DEF PdfInv
<1> QED BY <1>1, <1>2, <1>3, <1>4 DEF Serve

LEMMA PdfRestart == ASSUME QueueInv, PdfInv, Restart PROVE PdfInv'
<1>1. /\ OnlyRows(Dropped(Duplicates), Duplicates)
      /\ \A i \in Row \ Duplicates : Dropped(Duplicates)[i] = job[i]
  BY DuplicatesExist, DroppedRows DEF QueueInv, OnlyRows
<1>2. \A i \in Row : /\ job'[i].asset = job[i].asset
                     /\ Exists(i) /\ i \notin Duplicates => Exists(i)'
  BY <1>1 DEF Restart, Exists, OnlyRows, JobRec
<1>3. active' = {} /\ UNCHANGED <<preview, page, cutShort>>
  BY DEF Restart
<1>4. \A a \in Asset : Accounted(a) => Accounted(a)'
  BY <1>2, <1>3, PdfDeduped
<1>5. RemainderLostToClear'
  BY <1>3, <1>4 DEF PdfInv, RemainderLostToClear, Accounted
<1> QED BY <1>3, <1>5 DEF PdfInv, Tasks

LEMMA PdfInit == Init => PdfInv
  BY DEF Init, PdfInv, RemainderLostToClear, Tasks

LEMMA PdfNext == QueueInv /\ PdfInv /\ [Next]_vars => PdfInv'
<1>1. ASSUME QueueInv, PdfInv, Pause \/ (\E a \in Asset : Copy(a)) \/ Shutdown \/ UNCHANGED vars
      PROVE  PdfInv'
  BY <1>1, PdfUntouched DEF Pause, Copy, Shutdown, db, mem, vars
<1> QED BY <1>1, PdfTick, PdfProcess, PdfCall, PdfServe, PdfRestart DEF Next

(* However the portions of a document, the pauses, failures, retries,      *)
(* rebuilds, duplicates and restarts follow each other, a document that    *)
(* shows as done and has pages left has a row in the queue, unless clear   *)
(* took its rows while a task was at it or its remainder waited.           *)
THEOREM RemainderKept == Spec => []RemainderLostToClear
<1>1. PdfInv => RemainderLostToClear
  BY DEF PdfInv
<1> QED BY QueueInit, QueueNext, PdfInit, PdfNext, <1>1, PTL DEF Spec
=============================================================================
