--------------------------- MODULE AgentTeams_proofs ---------------------------
(***************************************************************************)
(* Proofs about AgentTeams and the tasks of RuntimeTasks, for any members, *)
(* plans, descriptions and limits.  The store of the tasks and its workers *)
(* come first: what one step of theirs is, the operation that ends a task, *)
(* and the inductive invariant.  The team and the calls come after.        *)
(***************************************************************************)
EXTENDS AgentTeams, NatRecursion

USE DEF NotBegun

-----------------------------------------------------------------------------
(* The inductive invariant of the tasks. *)

\* A retry comes after what it retries, so that there are no more attempts than
\* tasks.
Attempts == \A i \in DOMAIN tasks : tasks[i].attempt <= i

\* Nothing has happened to an id that was not given out.
Fresh ==
  \A i \in Id : i >= nextId =>
    worker[i] = "idle" /\ notes[i] = <<>> /\ i \notin asked

\* How the work ended is known when the worker marks it, and it is cancelled only
\* when somebody asked.
Ending ==
  \A i \in Id :
    /\ worker[i] \in {"killing", "stopping"} => i \in asked
    /\ worker[i] \in {"exited", "answered"} =>
         outcome[i] \in Finished /\ (outcome[i] = "cancelled" => i \in asked)

\* An end is announced when it is marked, and the task has the status announced.
Announced ==
  \A i \in Own :
    /\ Unmarked(i) => notes[i] = <<>>
    /\ ~Unmarked(i) /\ ~over => notes[i] # <<>>
    /\ ~Unmarked(i) /\ i \in DOMAIN tasks =>
         /\ notes[i] # <<>>
         /\ tasks[i].status \in Finished
         /\ tasks[i].status = notes[i][Len(notes[i])]

TInv ==
  /\ TasksTypeOK /\ StoppableWhileAlive /\ KeepsFewFinished
  /\ Attempts /\ Fresh /\ Ending /\ Announced

-----------------------------------------------------------------------------
(* The operations of the store. *)

\* Every nonempty set of tasks has one whose text sorts last.
LEMMA LastByText ==
  ASSUME NEW T \in SUBSET (1 .. 99), T # {}
  PROVE  \E i \in T : \A j \in T : TextOrder(j) <= TextOrder(i)
<1> DEFINE D == {k \in Nat : \E i \in T : TextOrder(i) + k = 1000}
<1>1. ASSUME NEW i \in T
      PROVE  \E k \in D : \E o \in 1 .. 991 : TextOrder(i) = o /\ o + k = 1000
  <2>1. i \in 1 .. 99  OBVIOUS
  <2>2. PICK o \in 1 .. 991 : TextOrder(i) = o
    <3>1. CASE i < 10
      <4>1. 100 * i \in 1 .. 991  BY <2>1, <3>1
      <4>2. QED BY <3>1, <4>1 DEF TextOrder
    <3>2. CASE ~(i < 10)
      <4>1. 10 * i + 1 \in 1 .. 991  BY <2>1, <3>2
      <4>2. QED BY <3>2, <4>1 DEF TextOrder
    <3>3. QED BY <3>1, <3>2
  <2>3. PICK k \in Nat : o + k = 1000
    <3>1. 1000 - o \in Nat /\ o + (1000 - o) = 1000  OBVIOUS
    <3>2. QED BY <3>1
  <2>4. k \in D  BY <2>2, <2>3
  <2> HIDE DEF D
  <2>5. QED BY <2>2, <2>3, <2>4
<1>2. D \in SUBSET Nat /\ D # {}
  <2>1. D \in SUBSET Nat  OBVIOUS
  <2>2. PICK i \in T : TRUE  OBVIOUS
  <2> HIDE DEF D
  <2>3. QED BY <1>1, <2>1, <2>2
<1>3. PICK n \in D : \A m \in D : n <= m
  <2> HIDE DEF D
  <2>1. QED BY <1>2, Least
<1>4. PICK i \in T : TextOrder(i) + n = 1000  BY <1>3
<1> HIDE DEF D
<1>5. ASSUME NEW j \in T PROVE TextOrder(j) <= TextOrder(i)
  <2>1. PICK k \in D : \E o \in 1 .. 991 : TextOrder(j) = o /\ o + k = 1000
    BY <1>1
  <2>2. PICK o \in 1 .. 991 : TextOrder(j) = o /\ o + k = 1000  BY <2>1
  <2>3. PICK p \in 1 .. 991 : TextOrder(i) = p
    <3>1. \E l \in D : \E q \in 1 .. 991 : TextOrder(i) = q /\ q + l = 1000  BY <1>1
    <3>2. QED BY <3>1
  <2>4. n <= k /\ n \in Nat /\ k \in Nat /\ p + n = 1000  BY <1>2, <1>3, <1>4, <2>1, <2>3
  <2>5. o <= p  BY <2>2, <2>4
  <2>6. QED BY <2>2, <2>3, <2>5
<1>6. QED BY <1>5

LEMMA TasksAreNumbered ==
  ASSUME TasksTypeOK, NEW i \in DOMAIN tasks
  PROVE  i \in Id /\ i \in 1 .. 99 /\ i < nextId
<1>1. i \in 1 .. nextId - 1 /\ nextId \in 1 .. MaxTasks + 1  BY DEF TasksTypeOK
<1>2. MaxTasks \in 1 .. 99  BY LimitsAssumption
<1>3. QED BY <1>1, <1>2 DEF Id

LEMMA RetryParentTyped ==
  ASSUME TasksTypeOK, NEW kind, NEW description
  PROVE  RetryParent(kind, description) \in DOMAIN tasks \cup {None}
<1> DEFINE failed == {i \in DOMAIN tasks :
                   /\ tasks[i].kind = kind
                   /\ tasks[i].description = description
                   /\ tasks[i].status \in {"failed", "cancelled"}}
<1>1. failed \in SUBSET (1 .. 99)
  BY TasksAreNumbered
<1>2. failed \subseteq DOMAIN tasks  OBVIOUS
<1>3. RetryParent(kind, description) =
        IF failed = {} THEN None
        ELSE CHOOSE i \in failed : \A j \in failed : TextOrder(j) <= TextOrder(i)
  BY DEF RetryParent
<1> HIDE DEF failed
<1>4. CASE failed = {}  BY <1>3, <1>4
<1>5. CASE failed # {}
  <2>1. \E i \in failed : \A j \in failed : TextOrder(j) <= TextOrder(i)
    BY <1>1, <1>5, LastByText
  <2>2. RetryParent(kind, description) \in failed  BY <1>3, <1>5, <2>1
  <2>3. QED BY <2>2, <1>2
<1>6. QED BY <1>4, <1>5

LEMMA NewTaskTyped ==
  ASSUME TInv, nextId <= MaxTasks, NEW kind \in Kinds, NEW description \in Description,
         NEW status \in Live
  PROVE  /\ NewTask(kind, description, status) \in TaskRecord
         /\ NewTask(kind, description, status).retryOf < nextId
         /\ NewTask(kind, description, status).attempt <= nextId
         /\ NewTask(kind, description, status).status = status
<1> DEFINE parent == RetryParent(kind, description)
<1>1. parent \in DOMAIN tasks \cup {None}  BY RetryParentTyped DEF TInv
<1>2. nextId \in 1 .. MaxTasks  BY LimitsAssumption DEF TInv, TasksTypeOK
<1>3. NewTask(kind, description, status) =
        [kind |-> kind, description |-> description, status |-> status,
         attempt |-> Attempt(parent), retryOf |-> parent]
  BY DEF NewTask
<1> HIDE DEF parent
<1>4. parent \in 0 .. nextId - 1  BY <1>1, <1>2 DEF TInv, TasksTypeOK, None
<1>5. Attempt(parent) \in 1 .. nextId
  <2>1. CASE parent = None  BY <1>2, <2>1 DEF Attempt
  <2>2. CASE parent # None
    <3>1. parent \in DOMAIN tasks  BY <1>1, <2>2
    <3>2. tasks[parent].attempt \in 1 .. MaxTasks /\ tasks[parent].attempt <= parent
      BY <3>1 DEF TInv, TasksTypeOK, TaskRecord, Attempts
    <3>3. QED BY <1>2, <1>4, <2>2, <3>2, LimitsAssumption DEF Attempt
  <2>3. QED BY <2>1, <2>2
<1>6. [kind |-> kind, description |-> description, status |-> status,
       attempt |-> Attempt(parent), retryOf |-> parent] \in TaskRecord
  <2>1. Attempt(parent) \in 1 .. MaxTasks /\ parent \in 0 .. MaxTasks
    BY <1>2, <1>4, <1>5, LimitsAssumption
  <2>2. QED BY <2>1 DEF TaskRecord
<1>7. QED BY <1>2, <1>3, <1>4, <1>5, <1>6

LEMMA EndedFinite ==
  ASSUME NEW store, DOMAIN store \subseteq Id
  PROVE  IsFiniteSet(Ended(store)) /\ Cardinality(Ended(store)) \in Nat
<1>1. IsFiniteSet(Id)  BY FS_Interval, LimitsAssumption DEF Id
<1>2. Ended(store) \in SUBSET Id  BY DEF Ended
<1>3. QED BY <1>1, <1>2, FS_Subset, FS_CardinalityType

\* What the end of a task leaves: the tasks that were not pruned, of which the
\* ended one has its status, and no more finished ones than the limit.
LEMMA MarkLeaves ==
  ASSUME TasksTypeOK, NEW id \in Id, NEW status \in Finished, Mark(id, status)
  PROVE  /\ DOMAIN tasks' \subseteq DOMAIN tasks
         /\ \A i \in DOMAIN tasks :
              i # id /\ tasks[i].status \in Live => i \in DOMAIN tasks'
         /\ \A i \in DOMAIN tasks' :
              tasks'[i] = IF i = id THEN [tasks[i] EXCEPT !.status = status] ELSE tasks[i]
         /\ controls' \subseteq controls \ {id}
         /\ \A i \in controls :
              i # id /\ (i \in DOMAIN tasks => tasks[i].status \in Live) => i \in controls'
         /\ writers' = writers \ {id}
         /\ notes' = IF id \in DOMAIN tasks THEN [notes EXCEPT ![id] = Append(@, status)]
                     ELSE notes
         /\ KeepsFewFinished'
<1> DEFINE marked == IF id \in DOMAIN tasks THEN [tasks EXCEPT ![id].status = status]
                     ELSE tasks
<1>1. PICK R \in Surplus(marked) :
        /\ tasks' = [i \in DOMAIN marked \ R |-> marked[i]]
        /\ controls' = controls \ ({id} \union R)
        /\ writers' = writers \ {id}
        /\ notes' = IF id \in DOMAIN tasks
                    THEN [notes EXCEPT ![id] = Append(@, status)] ELSE notes
  BY DEF Mark
<1>2. /\ DOMAIN marked = DOMAIN tasks
      /\ \A i \in DOMAIN tasks :
           marked[i] = IF i = id THEN [tasks[i] EXCEPT !.status = status] ELSE tasks[i]
  OBVIOUS
<1>3. \A i \in DOMAIN tasks : i # id => marked[i] = tasks[i]  BY <1>2
<1>4. DOMAIN tasks \subseteq Id  BY TasksAreNumbered
<1> HIDE DEF marked
<1>5. R \subseteq Ended(marked)  BY <1>1 DEF Surplus
<1>6. \A i \in DOMAIN tasks : i # id /\ tasks[i].status \in Live => i \notin R
  BY <1>3, <1>5 DEF Ended, Live, Finished
<1>7. KeepsFewFinished'
  <2>1. Ended(tasks') = Ended(marked) \ R  BY <1>1, <1>2, <1>5 DEF Ended
  <2>2. IsFiniteSet(Ended(marked)) /\ Cardinality(Ended(marked)) \in Nat
    BY <1>2, <1>4, EndedFinite
  <2>3. Cardinality(Ended(marked) \ R) = Cardinality(Ended(marked)) - Cardinality(R)
    <3>1. Ended(marked) \cap R = R  BY <1>5
    <3>2. QED BY <2>2, <3>1, FS_Difference
  <2>4. Cardinality(R) = IF Cardinality(Ended(marked)) > MaxFinished
                         THEN Cardinality(Ended(marked)) - MaxFinished ELSE 0
    BY <1>1 DEF Surplus
  <2>5. Cardinality(Ended(tasks')) <= MaxFinished
    BY <2>1, <2>2, <2>3, <2>4, LimitsAssumption
  <2>6. QED BY <2>5 DEF KeepsFewFinished, Ended
<1>8. /\ DOMAIN tasks' = DOMAIN tasks \ R
      /\ \A i \in DOMAIN tasks' :
           tasks'[i] = IF i = id THEN [tasks[i] EXCEPT !.status = status] ELSE tasks[i]
  BY <1>1, <1>2
<1>9. \A i \in controls :
        i # id /\ (i \in DOMAIN tasks => tasks[i].status \in Live) => i \in controls'
  <2>1. R \subseteq DOMAIN tasks  BY <1>2, <1>5 DEF Ended
  <2>2. QED BY <1>1, <1>6, <2>1
<1>10. QED BY <1>1, <1>6, <1>7, <1>8, <1>9

-----------------------------------------------------------------------------
(* The steps of the store and of the workers keep the invariant. *)

\* What ends a task: a worker's mark, or the result for an item of the queue.
LEMMA MarkKeeps ==
  ASSUME TInv, ~over, NEW id \in Id, NEW status \in Finished, Mark(id, status), id < nextId,
         UNCHANGED <<nextId, asked, items, over>>,
         worker' \in [Id -> Stages], outcome' \in [Id -> Outcomes],
         \A i \in Id : i # id => worker'[i] = worker[i] /\ outcome'[i] = outcome[i],
         \/ worker'[id] \in {"idle", "gone", "reporting"}
         \/ id \in items /\ worker'[id] = worker[id] /\ outcome'[id] = outcome[id],
         worker'[id] = "idle" <=> worker[id] = "idle",
         id \in Own => Unmarked(id)
  PROVE  TInv'
<1> USE DEF TInv
<1>1. /\ DOMAIN tasks' \subseteq DOMAIN tasks
      /\ \A i \in DOMAIN tasks :
           i # id /\ tasks[i].status \in Live => i \in DOMAIN tasks'
      /\ \A i \in DOMAIN tasks' :
           tasks'[i] = IF i = id THEN [tasks[i] EXCEPT !.status = status] ELSE tasks[i]
      /\ controls' \subseteq controls \ {id}
      /\ \A i \in controls :
           i # id /\ (i \in DOMAIN tasks => tasks[i].status \in Live) => i \in controls'
      /\ writers' = writers \ {id}
      /\ notes' = IF id \in DOMAIN tasks THEN [notes EXCEPT ![id] = Append(@, status)]
                  ELSE notes
      /\ KeepsFewFinished'
  BY MarkLeaves
<1>2. DOMAIN notes = Id /\ \A i \in Id : notes[i] \in Seq(Finished)
  BY DEF TasksTypeOK
<1>3. TasksTypeOK'
  <2>1. \A i \in DOMAIN tasks' : tasks'[i] \in TaskRecord /\ tasks'[i].retryOf < i
    <3> TAKE i \in DOMAIN tasks'
    <3>1. tasks[i] \in TaskRecord /\ tasks[i].retryOf < i  BY <1>1 DEF TasksTypeOK
    <3>2. [tasks[i] EXCEPT !.status = status] \in TaskRecord
      BY <3>1 DEF TaskRecord
    <3>3. [tasks[i] EXCEPT !.status = status].retryOf < i  BY <3>1 DEF TaskRecord
    <3>4. QED BY <1>1, <3>1, <3>2, <3>3
  <2>2. DOMAIN notes' = Id /\ \A i \in Id : notes'[i] \in Seq(Finished)
    BY <1>1, <1>2
  <2>3. QED BY <1>1, <2>1, <2>2 DEF TasksTypeOK
<1>4. Attempts'
  <2> SUFFICES ASSUME NEW i \in DOMAIN tasks' PROVE tasks'[i].attempt <= i
    BY DEF Attempts
  <2>1. tasks[i] \in TaskRecord /\ tasks[i].attempt <= i  BY <1>1 DEF TasksTypeOK, Attempts
  <2>2. [tasks[i] EXCEPT !.status = status].attempt = tasks[i].attempt  BY <2>1 DEF TaskRecord
  <2>3. QED BY <1>1, <2>1, <2>2
<1>5. \A i \in Id : i # id => notes'[i] = notes[i]  BY <1>1, <1>2
<1>6. Fresh'
  <2> SUFFICES ASSUME NEW i \in Id, i >= nextId
               PROVE  worker'[i] = "idle" /\ notes'[i] = <<>> /\ i \notin asked'
    BY DEF Fresh
  <2>1. i # id  BY DEF Id, TasksTypeOK
  <2>2. QED BY <2>1, <1>5 DEF Fresh
<1>7. Ending'
  <2> SUFFICES ASSUME NEW i \in Id
               PROVE  /\ worker'[i] \in {"killing", "stopping"} => i \in asked'
                      /\ worker'[i] \in {"exited", "answered"} =>
                           outcome'[i] \in Finished /\ (outcome'[i] = "cancelled" => i \in asked')
    BY DEF Ending
  <2>1. CASE i = id  BY <2>1 DEF Ending
  <2>2. CASE i # id  BY <2>2 DEF Ending
  <2>3. QED BY <2>1, <2>2
<1>8. Own' = Own  BY DEF Own
<1>9. \A i \in Own : i # id => (Unmarked(i)' <=> Unmarked(i))  BY DEF Own, Unmarked
<1>10. id \in Own => ~Unmarked(id)'  BY DEF Unmarked, Own
<1>11. StoppableWhileAlive'
  <2> SUFFICES ASSUME NEW i \in Own'
               PROVE  /\ Unmarked(i)' =>
                           /\ i \in DOMAIN tasks' /\ i \in controls'
                           /\ tasks'[i].status =
                                IF worker'[i] \in NotBegun THEN "pending" ELSE "running"
                      /\ ~Unmarked(i)' /\ ~over' => i \notin controls' /\ i \notin writers'
    BY DEF StoppableWhileAlive
  <2>1. i \in Own /\ i \in Id  BY <1>8 DEF Own
  <2>2. CASE i = id  BY <1>1, <1>10, <2>1, <2>2
  <2>3. CASE i # id
    <3>1. Unmarked(i) => /\ i \in DOMAIN tasks /\ i \in controls
                         /\ tasks[i].status =
                              IF worker[i] \in NotBegun THEN "pending" ELSE "running"
      BY <2>1 DEF StoppableWhileAlive
    <3>2. Unmarked(i) => i \in DOMAIN tasks' /\ i \in controls' /\ tasks'[i] = tasks[i]
      BY <1>1, <2>3, <3>1 DEF Live
    <3>3. ~Unmarked(i) => i \notin controls' /\ i \notin writers'
      BY <1>1, <2>1 DEF StoppableWhileAlive
    <3>4. QED BY <1>9, <2>1, <2>3, <3>1, <3>2, <3>3
  <2>4. QED BY <2>2, <2>3
<1>12. Announced'
  <2> SUFFICES ASSUME NEW i \in Own'
               PROVE  /\ Unmarked(i)' => notes'[i] = <<>>
                      /\ ~Unmarked(i)' /\ ~over' => notes'[i] # <<>>
                      /\ ~Unmarked(i)' /\ i \in DOMAIN tasks' =>
                           /\ notes'[i] # <<>>
                           /\ tasks'[i].status \in Finished
                           /\ tasks'[i].status = notes'[i][Len(notes'[i])]
    BY DEF Announced
  <2>1. i \in Own /\ i \in Id  BY <1>8 DEF Own
  <2>2. CASE i = id
    <3>1. Unmarked(id)  BY <2>1, <2>2 DEF Own
    <3>2. id \in DOMAIN tasks /\ notes[id] = <<>>
      BY <2>1, <2>2, <3>1 DEF StoppableWhileAlive, Announced
    <3>3. notes'[id] = <<status>>  BY <1>1, <1>2, <3>2
    <3>4. id \in DOMAIN tasks' => tasks'[id].status = status
      BY <1>1, <3>2 DEF TasksTypeOK, TaskRecord
    <3>5. QED BY <1>10, <2>1, <2>2, <3>3, <3>4
  <2>3. CASE i # id
    <3>1. /\ Unmarked(i) => notes[i] = <<>>
          /\ ~Unmarked(i) /\ ~over => notes[i] # <<>>
          /\ ~Unmarked(i) /\ i \in DOMAIN tasks =>
               /\ notes[i] # <<>>
               /\ tasks[i].status \in Finished
               /\ tasks[i].status = notes[i][Len(notes[i])]
      BY <2>1 DEF Announced
    <3>2. i \in DOMAIN tasks' => i \in DOMAIN tasks /\ tasks'[i] = tasks[i]  BY <1>1, <2>3
    <3>3. notes'[i] = notes[i]  BY <1>5, <2>1, <2>3
    <3>4. QED BY <1>9, <2>1, <2>3, <3>1, <3>2, <3>3
  <2>4. QED BY <2>2, <2>3
<1>13. QED BY <1>1, <1>3, <1>4, <1>6, <1>7, <1>11, <1>12

LEMMA CreateKeeps ==
  ASSUME TInv, ~over, NEW kind \in Kinds, NEW description \in Description, NEW status \in Live,
         Create(kind, description, status),
         UNCHANGED <<asked, writers, notes, outcome, items, over>>,
         worker' \in [Id -> Stages],
         \A i \in Id : i # nextId => worker'[i] = worker[i],
         \/ worker'[nextId] = "idle"
         \/ worker'[nextId] \in NotBegun /\ status = "pending"
  PROVE  TInv'
<1> USE DEF TInv
<1> DEFINE new == NewTask(kind, description, status)
<1>1. /\ new \in TaskRecord /\ new.retryOf < nextId /\ new.attempt <= nextId
      /\ new.status = status
  BY NewTaskTyped DEF Create
<1>2. /\ nextId <= MaxTasks /\ nextId' = nextId + 1
      /\ controls' = controls \union {nextId}
      /\ tasks' = [i \in DOMAIN tasks \union {nextId} |-> IF i = nextId THEN new ELSE tasks[i]]
  BY DEF Create
<1> HIDE DEF new
<1>3. nextId \in Id /\ nextId \in Nat /\ nextId \notin DOMAIN tasks
  BY <1>2, LimitsAssumption, TasksAreNumbered DEF TasksTypeOK, Id
<1>4. \A i \in DOMAIN tasks : i # nextId /\ tasks'[i] = tasks[i]  BY <1>2, <1>3
<1>5. tasks'[nextId] = new /\ DOMAIN tasks' = DOMAIN tasks \union {nextId}  BY <1>2
<1>6. worker[nextId] = "idle" /\ notes[nextId] = <<>>  BY <1>3 DEF Fresh
<1>7. TasksTypeOK'
  <2>1. \A i \in DOMAIN tasks' : tasks'[i] \in TaskRecord /\ tasks'[i].retryOf < i
    BY <1>1, <1>4, <1>5 DEF TasksTypeOK
  <2>2. nextId' \in 1 .. MaxTasks + 1 /\ DOMAIN tasks' \subseteq 1 .. nextId' - 1
    <3>1. \A i \in DOMAIN tasks : i \in 1 .. nextId  BY TasksAreNumbered, <1>3
    <3>2. QED BY <3>1, <1>2, <1>3, <1>5, LimitsAssumption DEF Id
  <2>3. controls' \subseteq Id  BY <1>2, <1>3 DEF TasksTypeOK
  <2>4. QED BY <2>1, <2>2, <2>3 DEF TasksTypeOK
<1>8. Attempts'  BY <1>1, <1>4, <1>5 DEF Attempts
<1>9. Fresh'  BY <1>2, <1>3 DEF Fresh, Id
<1>10. Ending'  BY <1>6 DEF Ending
<1>11. KeepsFewFinished'
  <2>1. Ended(tasks') = Ended(tasks)  BY <1>1, <1>3, <1>4, <1>5 DEF Ended, Live, Finished
  <2>2. QED BY <2>1 DEF KeepsFewFinished, Ended
<1>12. \A i \in Id : i # nextId => (Unmarked(i)' <=> Unmarked(i)) /\ (i \in Own' <=> i \in Own)
  BY DEF Unmarked, Own
<1>13. \A i \in Id : i = nextId /\ i \in Own' =>
         Unmarked(i)' /\ worker'[i] \in NotBegun /\ status = "pending"
  BY DEF Unmarked, Own
<1>14. Own \subseteq Id /\ Own' \subseteq Id  BY DEF Own
<1>15. StoppableWhileAlive'
  <2> SUFFICES ASSUME NEW i \in Own'
               PROVE  /\ Unmarked(i)' =>
                           /\ i \in DOMAIN tasks' /\ i \in controls'
                           /\ tasks'[i].status =
                                IF worker'[i] \in NotBegun THEN "pending" ELSE "running"
                      /\ ~Unmarked(i)' /\ ~over' => i \notin controls' /\ i \notin writers'
    BY DEF StoppableWhileAlive
  <2>1. CASE i = nextId  BY <2>1, <1>1, <1>2, <1>5, <1>13, <1>14
  <2>2. CASE i # nextId
    <3>1. i \in Own /\ i \in Id  BY <2>2, <1>12, <1>14
    <3>2. Unmarked(i) => /\ i \in DOMAIN tasks /\ i \in controls
                         /\ tasks[i].status =
                              IF worker[i] \in NotBegun THEN "pending" ELSE "running"
      BY <3>1 DEF StoppableWhileAlive
    <3>3. ~Unmarked(i) => i \notin controls /\ i \notin writers
      BY <3>1 DEF StoppableWhileAlive
    <3>4. QED BY <1>2, <1>4, <1>5, <1>12, <2>2, <3>1, <3>2, <3>3
  <2>3. QED BY <2>1, <2>2
<1>16. Announced'
  <2> SUFFICES ASSUME NEW i \in Own'
               PROVE  /\ Unmarked(i)' => notes'[i] = <<>>
                      /\ ~Unmarked(i)' /\ ~over' => notes'[i] # <<>>
                      /\ ~Unmarked(i)' /\ i \in DOMAIN tasks' =>
                           /\ notes'[i] # <<>>
                           /\ tasks'[i].status \in Finished
                           /\ tasks'[i].status = notes'[i][Len(notes'[i])]
    BY DEF Announced
  <2>1. CASE i = nextId  BY <2>1, <1>6, <1>13, <1>14
  <2>2. CASE i # nextId
    <3>1. i \in Own /\ i \in Id  BY <2>2, <1>12, <1>14
    <3>2. /\ Unmarked(i) => notes[i] = <<>>
          /\ ~Unmarked(i) /\ ~over => notes[i] # <<>>
          /\ ~Unmarked(i) /\ i \in DOMAIN tasks =>
               /\ notes[i] # <<>>
               /\ tasks[i].status \in Finished
               /\ tasks[i].status = notes[i][Len(notes[i])]
      BY <3>1 DEF Announced
    <3>3. QED BY <1>4, <1>5, <1>12, <2>2, <3>1, <3>2
  <2>3. QED BY <2>1, <2>2
<1>17. QED BY <1>7, <1>8, <1>9, <1>10, <1>11, <1>15, <1>16

\* The steps of a worker that leave the store as it is, and a wish to stop it.
LEMMA WorkKeeps ==
  ASSUME TInv, ~over, NEW id \in Id,
         UNCHANGED <<tasks, nextId, controls, notes, items, over>>,
         asked \subseteq asked', asked' \subseteq asked \cup {id},
         id \in asked' => id < nextId,
         writers' \subseteq writers \cup {id}, id \in writers' => Unmarked(id)' \/ id \in writers,
         worker' \in [Id -> Stages], outcome' \in [Id -> Outcomes],
         \A i \in Id : i # id => worker'[i] = worker[i] /\ outcome'[i] = outcome[i],
         \/ worker'[id] = worker[id]
         \/ /\ worker[id] \in NotBegun
            /\ worker'[id] \in NotBegun
         \/ /\ worker[id] \notin {"idle"} \cup NotBegun
            /\ worker'[id] \notin {"idle"} \cup NotBegun
            /\ Unmarked(id)' <=> Unmarked(id),
         worker'[id] \in {"killing", "stopping"} => id \in asked',
         worker'[id] \in {"exited", "answered"} =>
           outcome'[id] \in Finished /\ (outcome'[id] = "cancelled" => id \in asked')
  PROVE  TInv'
<1> USE DEF TInv
<1>1. TasksTypeOK'  BY DEF TasksTypeOK
<1>2. Attempts'  BY DEF Attempts
<1>3. Fresh'  BY DEF Fresh, TasksTypeOK, Id
<1>4. Ending'  BY DEF Ending
<1>5. KeepsFewFinished'  BY DEF KeepsFewFinished, Ended
<1>6. \A i \in Id : /\ Unmarked(i)' <=> Unmarked(i)
                    /\ worker'[i] = "idle" <=> worker[i] = "idle"
                    /\ worker'[i] \in NotBegun <=> worker[i] \in NotBegun
  <2> TAKE i \in Id
  <2>1. CASE worker'[i] = worker[i]  BY <2>1 DEF Unmarked
  <2>2. CASE worker'[i] # worker[i]
    <3>1. i = id  BY <2>2
    <3>2. QED BY <2>2, <3>1 DEF Unmarked
  <2>3. QED BY <2>1, <2>2
<1>7. Own' = Own /\ Own \subseteq Id  BY <1>6 DEF Own
<1>8. StoppableWhileAlive'
  <2>1. \A i \in Own' : Unmarked(i)' =>
              /\ i \in DOMAIN tasks' /\ i \in controls'
              /\ tasks'[i].status =
                   IF worker'[i] \in NotBegun THEN "pending" ELSE "running"
    BY <1>6, <1>7 DEF StoppableWhileAlive
  <2>2. \A i \in Own' : ~Unmarked(i)' /\ ~over' => i \notin controls' /\ i \notin writers'
    BY <1>6, <1>7 DEF StoppableWhileAlive
  <2>3. QED BY <2>1, <2>2 DEF StoppableWhileAlive
<1>9. Announced'  BY <1>6, <1>7 DEF Announced
<1>10. QED BY <1>1, <1>2, <1>3, <1>4, <1>5, <1>8, <1>9

\* A worker starts.  When an item named its task, the task may have ended before,
\* or may be gone.
LEMMA StartsKeeps ==
  ASSUME TInv, NEW id \in Id, Starts(id)
  PROVE  TInv'
<1> USE DEF TInv
<1>1. /\ ~over /\ worker[id] \in {"forked", "called"}
      /\ worker' = [worker EXCEPT ![id] = IF worker[id] = "forked" THEN "opening" ELSE "engine"]
      /\ UNCHANGED <<nextId, controls, asked, writers, notes, outcome, items, over>>
  BY DEF Starts, At, Goes
<1>2. worker \in [Id -> Stages]  BY DEF TasksTypeOK
<1>3. /\ worker' \in [Id -> Stages] /\ worker'[id] \in {"opening", "engine"}
      /\ \A i \in Id : i # id => worker'[i] = worker[i]
  BY <1>1, <1>2 DEF Stages, ShellStages, AgentStages
<1>4. id \in Own => id \in DOMAIN tasks
  BY <1>1 DEF Unmarked, StoppableWhileAlive
<1>5. tasks' = IF id \in DOMAIN tasks THEN [tasks EXCEPT ![id].status = "running"] ELSE tasks
  BY DEF Starts, MarkRunning
<1>6. /\ DOMAIN tasks' = DOMAIN tasks
      /\ \A i \in DOMAIN tasks :
           tasks'[i] = IF i = id THEN [tasks[i] EXCEPT !.status = "running"] ELSE tasks[i]
  BY <1>5
<1>7. ASSUME NEW i \in DOMAIN tasks
      PROVE  /\ tasks'[i] \in TaskRecord /\ tasks'[i].retryOf = tasks[i].retryOf
             /\ tasks'[i].attempt = tasks[i].attempt
             /\ tasks'[i].status = IF i = id THEN "running" ELSE tasks[i].status
  <2>1. tasks[i] \in TaskRecord  BY DEF TasksTypeOK
  <2>2. QED BY <1>6, <2>1 DEF TaskRecord, Live
<1>8. TasksTypeOK'
  <2>1. \A i \in DOMAIN tasks' : tasks'[i] \in TaskRecord /\ tasks'[i].retryOf < i
    BY <1>6, <1>7 DEF TasksTypeOK
  <2>2. QED BY <1>1, <1>3, <1>6, <2>1 DEF TasksTypeOK
<1>9. Attempts'  BY <1>6, <1>7 DEF Attempts
<1>10. Fresh'  BY <1>1, <1>3 DEF Fresh
<1>11. Ending'  BY <1>1, <1>3 DEF Ending
<1>12. KeepsFewFinished'
  <2>1. Ended(tasks') \subseteq Ended(tasks)  BY <1>6, <1>7 DEF Ended, Finished
  <2>2. IsFiniteSet(Ended(tasks)) /\ Cardinality(Ended(tasks)) \in Nat
    BY TasksAreNumbered, EndedFinite
  <2>3. /\ Cardinality(Ended(tasks')) \in Nat
        /\ Cardinality(Ended(tasks')) <= Cardinality(Ended(tasks))
    BY <2>1, <2>2, FS_Subset, FS_CardinalityType
  <2>4. QED BY <2>2, <2>3, LimitsAssumption DEF KeepsFewFinished, Ended
<1>13. /\ Own' = Own /\ Own \subseteq Id
       /\ \A i \in Id : Unmarked(i)' <=> Unmarked(i)
  BY <1>1, <1>3 DEF Own, Unmarked
<1>14. StoppableWhileAlive'
  <2>1. \A i \in Own' : Unmarked(i)' =>
              /\ i \in DOMAIN tasks' /\ i \in controls'
              /\ tasks'[i].status =
                   IF worker'[i] \in NotBegun THEN "pending" ELSE "running"
    BY <1>1, <1>3, <1>6, <1>7, <1>13 DEF StoppableWhileAlive
  <2>2. \A i \in Own' : ~Unmarked(i)' /\ ~over' => i \notin controls' /\ i \notin writers'
    BY <1>1, <1>13 DEF StoppableWhileAlive
  <2>3. QED BY <2>1, <2>2 DEF StoppableWhileAlive
<1>15. Announced'
  <2>1. \A i \in Own : ~Unmarked(i) => i # id  BY <1>1 DEF Unmarked
  <2>2. QED BY <1>1, <1>6, <1>7, <1>13, <2>1 DEF Announced
<1>16. QED BY <1>8, <1>9, <1>10, <1>11, <1>12, <1>14, <1>15

LEMMA TurnEndsKeeps ==
  ASSUME TInv, TurnEnds
  PROVE  TInv'
<1> USE DEF TInv
<1>1. /\ over' = TRUE /\ tasks' = <<>> /\ controls' = {} /\ writers' = {}
      /\ worker' = [i \in Id |-> IF worker[i] = "idle" THEN "idle" ELSE "gone"]
      /\ outcome' = [i \in Id |-> "none"]
      /\ UNCHANGED <<nextId, asked, notes, items>>
  BY DEF TurnEnds
<1>2. DOMAIN tasks' = {}  BY <1>1
<1>3. TasksTypeOK'
  <2>1. worker' \in [Id -> Stages] /\ outcome' \in [Id -> Outcomes]
    BY <1>1 DEF Stages, Outcomes
  <2>2. over' \in BOOLEAN  BY <1>1
  <2>3. QED BY <1>1, <1>2, <2>1, <2>2 DEF TasksTypeOK
<1>4. Attempts'  BY <1>2 DEF Attempts
<1>5. Fresh'  BY <1>1 DEF Fresh
<1>6. Ending'  BY <1>1 DEF Ending
<1>7. KeepsFewFinished'
  <2>1. Ended(tasks') = {}  BY <1>2 DEF Ended
  <2>2. Cardinality({}) = 0 /\ 0 <= MaxFinished  BY FS_EmptySet, LimitsAssumption
  <2>3. Cardinality(Ended(tasks')) <= MaxFinished  BY <2>1, <2>2
  <2>4. QED BY <2>3 DEF KeepsFewFinished, Ended
<1>8. \A i \in Id : ~Unmarked(i)'  BY <1>1 DEF Unmarked
<1>9. StoppableWhileAlive'  BY <1>1, <1>8 DEF StoppableWhileAlive, Own
<1>10. Announced'  BY <1>1, <1>2, <1>8 DEF Announced, Own
<1>11. QED BY <1>3, <1>4, <1>5, <1>6, <1>7, <1>9, <1>10

-----------------------------------------------------------------------------
(* Every step of the tasks. *)

TaskNext ==
  \/ \E kind \in {"shell", "agent"}, d \in Description : Launch(kind, d)
  \/ \E d \in Description : RemoteStarts(d)
  \/ \E i \in Id, status \in {"completed", "failed"} : RemoteResult(i, status)
  \/ \E i \in Id : Stop(i)
  \/ TurnEnds
  \/ \E i \in Id : Spawned(i) \/ Proceeds(i) \/ CommandStops(i) \/ Reports(i)
  \/ \E i \in Id, status \in {"completed", "failed"} : WorkEnds(i, status)

\* What AgentTeams does to the tasks is one of these.
LEMMA NextIsTaskNext ==
  ASSUME [Next]_vars
  PROVE  TaskNext \/ UNCHANGED taskVars
<1>1. Members \subseteq Description /\ Commands \subseteq Description
  BY PlanAssumption
<1>2. CASE UNCHANGED vars  BY <1>2 DEF vars
<1>3. CASE Begin
  BY <1>3 DEF Begin, TeamCreate, TeamDelete, Agent, Coordinate, TeamRunReady
<1>4. ASSUME NEW m \in Members, Starting(m) PROVE TaskNext \/ UNCHANGED taskVars
  BY <1>1, <1>4 DEF Starting, RunMember, SpawnMember, LaunchFails, TaskNext
<1>5. CASE (\E m \in Members, ok \in BOOLEAN : ForegroundEnds(m, ok)) \/ BatchJoins \/ CallTimesOut
  BY <1>5 DEF ForegroundEnds, BatchJoins, CallTimesOut
<1>6. CASE Others  BY <1>1, <1>6, PlanAssumption DEF Others, TaskNext
<1>7. CASE Over  BY <1>7 DEF Over, TaskNext
<1>8. ASSUME NEW i \in Id, Work(i) \/ Waits(i) \/ TellsTeam(i)
      PROVE  TaskNext \/ UNCHANGED taskVars
  BY <1>8, PlanAssumption DEF Work, Waits, TellsTeam, TaskNext
<1>9. QED BY <1>2, <1>3, <1>4, <1>5, <1>6, <1>7, <1>8 DEF Next

\* Where a worker is, put together.
LEMMA StagesAre ==
  /\ {"idle", "gone", "forked", "opening", "executing", "killing", "exited", "created",
      "called", "engine", "stopping", "answered", "reporting"} \subseteq Stages
  /\ {"none", "completed", "failed", "cancelled"} = Outcomes
  BY DEF Stages, ShellStages, AgentStages, Outcomes, Finished

LEMMA TasksTyped ==
  ASSUME TInv
  PROVE  /\ worker \in [Id -> Stages] /\ outcome \in [Id -> Outcomes]
         /\ nextId \in Nat /\ DOMAIN tasks \subseteq Id
         /\ \A i \in Id : worker[i] # "idle" => i < nextId
<1>1. /\ worker \in [Id -> Stages] /\ outcome \in [Id -> Outcomes] /\ nextId \in Nat
  BY DEF TInv, TasksTypeOK
<1>2. DOMAIN tasks \subseteq Id  BY TasksAreNumbered DEF TInv
<1>3. \A i \in Id : worker[i] # "idle" => i < nextId  BY <1>1 DEF TInv, Fresh, Id
<1>4. QED BY <1>1, <1>2, <1>3

LEMMA TaskNextKeeps ==
  ASSUME TInv, TaskNext
  PROVE  TInv'
<1>1. /\ worker \in [Id -> Stages] /\ outcome \in [Id -> Outcomes]
      /\ nextId \in Nat /\ DOMAIN tasks \subseteq Id
      /\ \A i \in Id : worker[i] # "idle" => i < nextId
  BY TasksTyped
<1>2. ASSUME NEW kind \in {"shell", "agent"}, NEW d \in Description, Launch(kind, d)
      PROVE  TInv'
  <2>1. nextId \in Id  BY <1>1, <1>2 DEF Launch, Create, Id, TInv, TasksTypeOK
  <2>2. worker' = [worker EXCEPT ![nextId] = IF kind = "shell" THEN "forked" ELSE "created"]
    BY <1>2 DEF Launch
  <2>3. /\ worker' \in [Id -> Stages] /\ worker'[nextId] \in NotBegun
        /\ \A i \in Id : i # nextId => worker'[i] = worker[i]
    BY <1>1, <2>1, <2>2, StagesAre
  <2>4. QED BY <1>2, <2>3, CreateKeeps DEF Launch, Kinds, Live
<1>3. ASSUME NEW d \in Description, RemoteStarts(d) PROVE TInv'
  <2>1. nextId \in Id  BY <1>1, <1>3 DEF RemoteStarts, Create, Id, TInv, TasksTypeOK
  <2>2. worker' = worker /\ worker[nextId] = "idle"
    BY <1>1, <1>3, <2>1 DEF RemoteStarts
  <2>3. QED BY <1>1, <1>3, <2>2, CreateKeeps DEF RemoteStarts, Kinds, Live
<1>4. ASSUME NEW i \in Id, NEW status \in {"completed", "failed"}, RemoteResult(i, status)
      PROVE  TInv'
  <2>1. i < nextId  BY <1>4, TasksAreNumbered DEF RemoteResult, TInv
  <2>2. i \notin Own  BY <1>4 DEF RemoteResult, Own
  <2>3. QED BY <1>1, <1>4, <2>1, <2>2, MarkKeeps DEF RemoteResult, Finished
<1>5. ASSUME NEW i \in Id, Stop(i) PROVE TInv'
  <2>1. i < nextId  BY <1>5, TasksAreNumbered DEF Stop, TInv
  <2>2. worker[i] \in {"killing", "stopping"} => i \in asked  BY DEF TInv, Ending
  <2>3. worker[i] \in {"exited", "answered"} =>
          outcome[i] \in Finished /\ (outcome[i] = "cancelled" => i \in asked)
    BY DEF TInv, Ending
  <2>4. QED BY <1>1, <1>5, <2>1, <2>2, <2>3, WorkKeeps DEF Stop
<1>6. CASE TurnEnds  BY <1>6, TurnEndsKeeps
<1>7. ASSUME NEW i \in Id, Starts(i) PROVE TInv'  BY <1>7, StartsKeeps
<1>8. ASSUME NEW i \in Id, ShellFailsToStart(i) PROVE TInv'
  <2>1. /\ worker[i] = "opening" /\ worker' = [worker EXCEPT ![i] = "gone"]
        /\ ~over /\ Mark(i, "failed") /\ UNCHANGED <<nextId, asked, outcome, items, over>>
    BY <1>8 DEF ShellFailsToStart, At, Goes
  <2>2. worker' \in [Id -> Stages] /\ worker'[i] = "gone"
    BY <1>1, <2>1, StagesAre
  <2>3. Unmarked(i)  BY <2>1 DEF Unmarked
  <2>4. QED BY <1>1, <2>1, <2>2, <2>3, MarkKeeps DEF Finished
<1>9. ASSUME NEW i \in Id, NEW from \in Stages, NEW to \in Stages,
             At(i, from), Goes(i, to),
             UNCHANGED <<tasks, nextId, controls, asked, notes, items, over>>,
             writers' \subseteq writers \cup {i},
             from \notin {"idle"} \cup NotBegun, to \notin {"idle"} \cup NotBegun,
             from \in {"reporting", "gone"} <=> to \in {"reporting", "gone"},
             i \in writers' /\ i \notin writers => to \notin {"reporting", "gone"},
             to \in {"killing", "stopping"} => i \in asked,
             outcome' \in [Id -> Outcomes], \A j \in Id : j # i => outcome'[j] = outcome[j],
             to \in {"exited", "answered"} =>
               outcome'[i] \in Finished /\ (outcome'[i] = "cancelled" => i \in asked)
      PROVE  TInv'
  <2>1. ~over /\ worker[i] = from /\ worker' = [worker EXCEPT ![i] = to]
    BY <1>9 DEF At, Goes
  <2>2. /\ worker' \in [Id -> Stages] /\ worker'[i] = to
        /\ \A j \in Id : j # i => worker'[j] = worker[j]
    BY <1>1, <2>1
  <2>3. Unmarked(i)' <=> Unmarked(i)  BY <1>9, <2>1, <2>2 DEF Unmarked
  <2>4. i \in writers' => Unmarked(i)' \/ i \in writers  BY <1>9, <2>2 DEF Unmarked
  <2>5. i < nextId  BY <1>1, <1>9, <2>1
  <2>6. QED BY <1>9, <2>1, <2>2, <2>3, <2>4, <2>5, WorkKeeps
<1>10. ASSUME NEW i \in Id, ShellRuns(i) PROVE TInv'
  BY <1>1, <1>9, <1>10, StagesAre DEF ShellRuns
<1>11. ASSUME NEW i \in Id, SeesStop(i) PROVE TInv'
  BY <1>1, <1>9, <1>11, StagesAre DEF SeesStop
<1>12. ASSUME NEW i \in Id, CommandStops(i) \/ AgentStops(i) PROVE TInv'
  <2>1. worker[i] \in {"killing", "stopping"} /\ i \in asked
    BY <1>12 DEF CommandStops, AgentStops, At, TInv, Ending
  <2>2. ASSUME NEW status \in {"cancelled", "failed"}, outcome' = [outcome EXCEPT ![i] = status]
        PROVE  /\ outcome' \in [Id -> Outcomes] /\ outcome'[i] \in Finished
               /\ \A j \in Id : j # i => outcome'[j] = outcome[j]
    BY <1>1, <2>2, StagesAre DEF Finished
  <2>3. QED BY <1>9, <1>12, <2>1, <2>2, StagesAre DEF CommandStops, AgentStops
<1>13. ASSUME NEW i \in Id, MarksEnd(i) PROVE TInv'
  <2>1. worker[i] \in {"exited", "answered"} /\ ~over  BY <1>13 DEF MarksEnd, At
  <2>2. outcome[i] \in Finished  BY <2>1 DEF TInv, Ending
  <2>3. /\ worker' \in [Id -> Stages] /\ worker'[i] \in {"gone", "reporting"}
        /\ \A j \in Id : j # i => worker'[j] = worker[j]
    BY <1>1, <1>13, StagesAre DEF MarksEnd, Goes
  <2>4. outcome' \in [Id -> Outcomes] /\ \A j \in Id : j # i => outcome'[j] = outcome[j]
    BY <1>1, <1>13, StagesAre DEF MarksEnd
  <2>5. Unmarked(i) /\ i < nextId  BY <1>1, <2>1 DEF Unmarked
  <2>6. QED BY <1>13, <2>1, <2>2, <2>3, <2>4, <2>5, MarkKeeps DEF MarksEnd
<1>14. ASSUME NEW i \in Id, Reports(i) PROVE TInv'
  <2>1. outcome' \in [Id -> Outcomes] /\ \A j \in Id : j # i => outcome'[j] = outcome[j]
    BY <1>1, <1>14, StagesAre DEF Reports
  <2>2. QED BY <1>9, <1>14, <2>1, StagesAre DEF Reports
<1>15. ASSUME NEW i \in Id, NEW status \in {"completed", "failed"}, WorkEnds(i, status)
       PROVE  TInv'
  <2>1. /\ outcome' \in [Id -> Outcomes] /\ outcome'[i] = status
        /\ \A j \in Id : j # i => outcome'[j] = outcome[j]
    BY <1>1, <1>15, StagesAre DEF WorkEnds
  <2>2. QED BY <1>9, <1>15, <2>1, StagesAre DEF WorkEnds, Finished
<1>16. ASSUME NEW i \in Id, Spawned(i) PROVE TInv'
  <2>1. worker[i] = "created" /\ worker' = [worker EXCEPT ![i] = "called"]
    BY <1>16 DEF Spawned, At, Goes
  <2>2. /\ worker' \in [Id -> Stages] /\ worker'[i] = "called"
        /\ \A j \in Id : j # i => worker'[j] = worker[j]
    BY <1>1, <2>1, StagesAre
  <2>3. i < nextId  BY <1>1, <2>1
  <2>4. QED BY <1>1, <1>16, <2>1, <2>2, <2>3, WorkKeeps DEF Spawned, At
<1>17. QED
  BY <1>2, <1>3, <1>4, <1>5, <1>6, <1>7, <1>8, <1>10, <1>11, <1>12, <1>13, <1>14, <1>15, <1>16
  DEF TaskNext, Proceeds

LEMMA TInvInitially == TeamInit => TInv
<1> SUFFICES ASSUME TeamInit PROVE TInv  OBVIOUS
<1>1. /\ tasks = <<>> /\ nextId = 1 /\ controls = {} /\ asked = {} /\ writers = {}
      /\ notes = [i \in Id |-> <<>>] /\ worker = [i \in Id |-> "idle"]
      /\ outcome = [i \in Id |-> "none"] /\ items \in Queues /\ over = FALSE
  BY DEF TeamInit, Init
<1>2. DOMAIN tasks = {}  BY <1>1
<1>3. TasksTypeOK
  <2>1. worker \in [Id -> Stages] /\ outcome \in [Id -> Outcomes]  BY <1>1, StagesAre
  <2>2. notes \in [Id -> Seq(Finished)]  BY <1>1, EmptySeq
  <2>3. over \in BOOLEAN  BY <1>1
  <2>4. nextId \in 1 .. MaxTasks + 1  BY <1>1, LimitsAssumption
  <2>5. items \subseteq Id  BY <1>1, LimitsAssumption DEF Id
  <2>6. QED BY <1>1, <1>2, <2>1, <2>2, <2>3, <2>4, <2>5 DEF TasksTypeOK
<1>4. Own = {}  BY <1>1 DEF Own
<1>5. KeepsFewFinished
  <2>1. Ended(tasks) = {}  BY <1>2 DEF Ended
  <2>2. QED BY <2>1, FS_EmptySet, LimitsAssumption DEF KeepsFewFinished
<1>6. QED BY <1>1, <1>2, <1>3, <1>4, <1>5
          DEF TInv, StoppableWhileAlive, Attempts, Fresh, Ending, Announced

LEMMA TInvKept == TInv /\ [Next]_vars => TInv'
<1> SUFFICES ASSUME TInv, [Next]_vars PROVE TInv'  OBVIOUS
<1>1. CASE TaskNext  BY <1>1, TaskNextKeeps
<1>2. CASE UNCHANGED taskVars
  <2> USE <1>2 DEF taskVars
  <2>1. TasksTypeOK' /\ Attempts' /\ Fresh' /\ Ending'
    BY DEF TInv, TasksTypeOK, Attempts, Fresh, Ending
  <2>2. KeepsFewFinished'  BY DEF TInv, KeepsFewFinished, Ended
  <2>3. StoppableWhileAlive' /\ Announced'
    BY DEF TInv, StoppableWhileAlive, Announced, Own, Unmarked
  <2>4. QED BY <2>1, <2>2, <2>3 DEF TInv
<1>3. QED BY <1>1, <1>2, NextIsTaskNext

LEMMA TInvHolds == Spec => []TInv
BY TInvInitially, TInvKept, PTL DEF Spec

\* While a command or a sub-agent works, its task is in the store, live and with a
\* control, however many other tasks end and are pruned, if no item of an earlier
\* turn names its id.
THEOREM WorkersCanBeStopped == Spec => []StoppableWhileAlive
<1>1. TInv => StoppableWhileAlive  BY DEF TInv
<1>2. QED BY <1>1, TInvHolds, PTL

\* The store keeps no more finished tasks than its limit, whichever it drops.
THEOREM FewFinishedAreKept == Spec => []KeepsFewFinished
<1>1. TInv => KeepsFewFinished  BY DEF TInv
<1>2. QED BY <1>1, TInvHolds, PTL

-----------------------------------------------------------------------------
(* The tasks keep their promise. *)

Lives == [i \in Id |-> Life(i)]
Told == [i \in Id |-> IF i \in Own THEN Len(notes[i]) ELSE 0]

\* The life of a task and how often its end was told, by where its worker is.
Form(i) ==
  IF i \notin Own THEN "absent"
  ELSE IF Unmarked(i)
       THEN IF worker[i] \in NotBegun THEN "pending" ELSE "running"
       ELSE notes[i][Len(notes[i])]

LivesHaveForm ==
  \A i \in Id : Life(i) = Form(i) /\ (i \in Own /\ Unmarked(i) => notes[i] = <<>>)

LEMMA LifeForm == TInv /\ ~over => LivesHaveForm
<1> SUFFICES ASSUME TInv, ~over, NEW i \in Id
             PROVE  Life(i) = Form(i) /\ (i \in Own /\ Unmarked(i) => notes[i] = <<>>)
  BY DEF LivesHaveForm
<1>1. CASE i \notin Own  BY <1>1 DEF Life, Form
<1>2. CASE i \in Own /\ Unmarked(i)
  <2>1. /\ i \in DOMAIN tasks
        /\ tasks[i].status = IF worker[i] \in NotBegun THEN "pending" ELSE "running"
    BY <1>2 DEF TInv, StoppableWhileAlive
  <2>2. notes[i] = <<>>  BY <1>2 DEF TInv, Announced
  <2>3. QED BY <1>2, <2>1, <2>2 DEF Life, Form
<1>3. CASE i \in Own /\ ~Unmarked(i)
  <2>1. /\ notes[i] # <<>>
        /\ i \in DOMAIN tasks => tasks[i].status = notes[i][Len(notes[i])]
    BY <1>3 DEF TInv, Announced
  <2>2. QED BY <1>3, <2>1 DEF Life, Form
<1>4. QED BY <1>1, <1>2, <1>3

LEMMA LifeFormNext == TInv' /\ ~over' => LivesHaveForm'
BY LifeForm, PTL

\* A step that changes nothing that the promise speaks of.
LEMMA PromiseStutters ==
  ASSUME TInv, TInv', ~over, ~over', asked' \cap Own' = asked \cap Own, UNCHANGED items,
         \A i \in Id \ items :
           /\ worker[i] = "idle" <=> worker'[i] = "idle"
           /\ Unmarked(i) <=> Unmarked(i)'
           /\ worker[i] \in NotBegun <=>
                worker'[i] \in NotBegun
           /\ i \in Own => notes'[i] = notes[i]
  PROVE  UNCHANGED Promise!vars
<1>1. \A i \in Id : i \in Own' <=> i \in Own  BY DEF Own
<1>2. \A i \in Own : i \in Id \ items  BY DEF Own
<1>3. \A i \in Id : Life(i)' = Life(i)
  <2> TAKE i \in Id
  <2>1. Life(i) = Form(i)  BY LifeForm DEF LivesHaveForm
  <2>2. Life(i)' = Form(i)'  BY LifeFormNext DEF LivesHaveForm
  <2>3. Form(i)' = Form(i)  BY <1>1, <1>2 DEF Form
  <2>4. QED BY <2>1, <2>2, <2>3
<1>4. QED BY <1>1, <1>2, <1>3 DEF Promise!vars

\* A step that concerns one task, if any.
OthersAsBefore(id) ==
  /\ items' = items
  /\ \A i \in Id : i # id =>
       /\ worker'[i] = worker[i]
       /\ i \in Own => notes'[i] = notes[i]

\* A task that an item of an earlier turn names is not of the promise.
LEMMA NamedStutters ==
  ASSUME TInv, TInv', ~over, ~over', NEW id \in Id, id \in items, OthersAsBefore(id),
         UNCHANGED asked
  PROVE  UNCHANGED Promise!vars
<1>1. UNCHANGED items /\ \A i \in Id \ items : i # id  BY DEF OthersAsBefore
<1>2. \A i \in Id \ items : worker'[i] = worker[i] /\ (i \in Own => notes'[i] = notes[i])
  BY <1>1 DEF OthersAsBefore
<1>3. \A i \in Id \ items : Unmarked(i) <=> Unmarked(i)'  BY <1>2 DEF Unmarked
<1>4. asked' \cap Own' = asked \cap Own  BY <1>1, <1>2 DEF Own
<1>5. QED BY <1>1, <1>2, <1>3, <1>4, PromiseStutters

LEMMA PromiseMoves ==
  ASSUME TInv, TInv', ~over, ~over', NEW id \in Id, OthersAsBefore(id)
  PROVE  /\ Life(id) = Form(id)
         /\ Lives' = [Lives EXCEPT ![id] = Form(id)']
         /\ \A i \in Id : i # id => (i \in Own' <=> i \in Own)
         /\ Told' = [Told EXCEPT ![id] = Told'[id]]
<1>1. \A i \in Id : i # id => Life(i)' = Life(i)
  <2> SUFFICES ASSUME NEW i \in Id, i # id PROVE Life(i)' = Life(i)  OBVIOUS
  <2>1. Life(i) = Form(i)  BY LifeForm DEF LivesHaveForm
  <2>2. Life(i)' = Form(i)'  BY LifeFormNext DEF LivesHaveForm
  <2>3. Form(i)' = Form(i)  BY DEF Form, Own, Unmarked, OthersAsBefore
  <2>4. QED BY <2>1, <2>2, <2>3
<1>2. Life(id) = Form(id)  BY LifeForm DEF LivesHaveForm
<1>3. Life(id)' = Form(id)'  BY LifeFormNext DEF LivesHaveForm
<1>4. Lives' = [Lives EXCEPT ![id] = Form(id)']  BY <1>1, <1>3 DEF Lives
<1>5. \A i \in Id : i # id => (i \in Own' <=> i \in Own)  BY DEF Own, OthersAsBefore
<1>6. Told' = [Told EXCEPT ![id] = Told'[id]]  BY <1>5 DEF Told, OthersAsBefore
<1>7. QED BY <1>2, <1>4, <1>5, <1>6

\* A task of the turn's own begins.
LEMMA LaunchBegins ==
  ASSUME TInv, TInv', ~over, ~over', NEW id \in Id, OthersAsBefore(id),
         id = nextId, id \notin items, worker'[id] \in NotBegun,
         UNCHANGED <<asked, notes>>
  PROVE  Promise!Begin(id)
<1>1. worker[id] = "idle" /\ notes[id] = <<>> /\ id \notin asked
  BY DEF TInv, Fresh, TasksTypeOK
<1>2. /\ Life(id) = "absent" /\ Form(id)' = "pending"
      /\ Lives' = [Lives EXCEPT ![id] = "pending"]
  BY <1>1, PromiseMoves DEF Form, Own, Unmarked, OthersAsBefore
<1>3. Told' = Told
  <2>1. Told[id] = 0 /\ Told'[id] = 0  BY <1>1 DEF Told, Own
  <2>2. Told' = [Told EXCEPT ![id] = Told'[id]]  BY PromiseMoves
  <2>3. QED BY <2>1, <2>2 DEF Told
<1>4. asked' \cap Own' = asked \cap Own
  <2>1. \A i \in Id : i # id => (i \in Own' <=> i \in Own)  BY PromiseMoves
  <2>2. QED BY <1>1, <2>1 DEF Own
<1>5. Lives[id] = "absent"  BY <1>2 DEF Lives
<1>6. QED BY <1>2, <1>3, <1>4, <1>5 DEF Promise!Begin, Lives, Told

\* The worker of a task marks its end.
LEMMA MarkEnds ==
  ASSUME TInv, TInv', ~over, ~over', NEW id \in Id, NEW status \in Finished,
         OthersAsBefore(id), Mark(id, status), UNCHANGED asked,
         id \notin items, Unmarked(id), worker[id] \notin NotBegun,
         worker'[id] \in {"gone", "reporting"},
         status = "cancelled" => id \in asked
  PROVE  Promise!End(id, status)
<1>1. id \in Own /\ id \in Own'  BY DEF Own, Unmarked, OthersAsBefore
<1>2. id \in DOMAIN tasks /\ notes[id] = <<>>
  BY <1>1 DEF TInv, StoppableWhileAlive, Announced
<1>3. notes'[id] = <<status>>
  <2>1. notes' = [notes EXCEPT ![id] = Append(@, status)]
    BY <1>2, MarkLeaves DEF TInv
  <2>2. notes \in [Id -> Seq(Finished)]  BY DEF TInv, TasksTypeOK
  <2>3. QED BY <1>2, <2>1, <2>2
<1>4. Form(id) = "running" /\ Form(id)' = status
  <2>1. ~Unmarked(id)'  BY DEF Unmarked
  <2>2. Len(<<status>>) = 1 /\ <<status>>[1] = status  OBVIOUS
  <2>3. QED BY <1>1, <1>3, <2>1, <2>2 DEF Form
<1>5. Lives[id] = "running" /\ Lives' = [Lives EXCEPT ![id] = status]
  BY <1>4, PromiseMoves DEF Lives
<1>6. Told' = [Told EXCEPT ![id] = @ + 1]
  <2>1. Told[id] = 0 /\ Told'[id] = 1
    <3>1. Len(<<>>) = 0 /\ Len(<<status>>) = 1  OBVIOUS
    <3>2. QED BY <1>1, <1>2, <1>3, <3>1 DEF Told
  <2>2. Told' = [Told EXCEPT ![id] = Told'[id]]  BY PromiseMoves
  <2>3. QED BY <2>1, <2>2
<1>7. asked' \cap Own' = asked \cap Own
  <2>1. \A i \in Id : i # id => (i \in Own' <=> i \in Own)  BY PromiseMoves
  <2>2. QED BY <1>1, <2>1 DEF Own
<1>8. QED BY <1>1, <1>5, <1>6, <1>7 DEF Promise!End, Lives, Told

\* A worker starts.
LEMMA StartsRuns ==
  ASSUME TInv, TInv', ~over, ~over', NEW id \in Id, id \notin items, Starts(id)
  PROVE  Promise!Run(id)
<1>1. /\ worker[id] \in {"forked", "called"} /\ worker'[id] \in {"opening", "engine"}
      /\ UNCHANGED <<asked, notes, items>>
      /\ \A i \in Id : i # id => worker'[i] = worker[i]
  BY TasksTyped DEF Starts, At, Goes
<1>2. OthersAsBefore(id)  BY <1>1 DEF OthersAsBefore
<1>3. id \in Own /\ id \in Own' /\ Form(id) = "pending" /\ Form(id)' = "running"
  BY <1>1 DEF Form, Own, Unmarked
<1>4. Lives[id] = "pending" /\ Lives' = [Lives EXCEPT ![id] = "running"]
  BY <1>2, <1>3, PromiseMoves DEF Lives
<1>5. \A i \in Id : i \in Own' <=> i \in Own  BY <1>2, <1>3, PromiseMoves
<1>6. Told' = Told /\ asked' \cap Own' = asked \cap Own  BY <1>1, <1>5 DEF Told, Own
<1>7. QED BY <1>4, <1>6 DEF Promise!Run, Lives, Told

\* What is still live is lost with its turn.
LEMMA TurnEndsLoses ==
  ASSUME TInv, TurnEnds
  PROVE  Promise!Lose
<1>1. /\ ~over /\ tasks' = <<>> /\ UNCHANGED <<asked, notes, items>>
      /\ worker' = [i \in Id |-> IF worker[i] = "idle" THEN "idle" ELSE "gone"]
  BY DEF TurnEnds
<1>2. DOMAIN tasks' = {}  BY <1>1
<1>3. \A i \in Id : i \in Own' <=> i \in Own  BY <1>1 DEF Own
<1>4. ASSUME NEW i \in Id
      PROVE  Life(i)' = IF Life(i) \in {"pending", "running"} THEN "lost" ELSE Life(i)
  <2>1. Life(i) = Form(i) /\ (i \in Own /\ Unmarked(i) => notes[i] = <<>>)
    BY <1>1, LifeForm DEF LivesHaveForm
  <2>2. CASE i \notin Own  BY <1>3, <2>1, <2>2 DEF Life
  <2>3. CASE i \in Own /\ Unmarked(i)
    <3>1. Life(i)' = "lost"  BY <1>1, <1>2, <1>3, <2>1, <2>3 DEF Life
    <3>2. Life(i) \in {"pending", "running"}  BY <2>1, <2>3 DEF Form
    <3>3. QED BY <3>1, <3>2
  <2>4. CASE i \in Own /\ ~Unmarked(i)
    <3>1. notes[i] # <<>>  BY <1>1, <2>4 DEF TInv, Announced
    <3>2. Life(i)' = notes[i][Len(notes[i])]  BY <1>1, <1>2, <1>3, <2>4, <3>1 DEF Life
    <3>3. Life(i) = notes[i][Len(notes[i])]  BY <2>1, <2>4 DEF Form
    <3>4. notes[i][Len(notes[i])] \in Finished
      <4>1. notes[i] \in Seq(Finished)  BY DEF TInv, TasksTypeOK
      <4>2. QED BY <3>1, <4>1
    <3>5. QED BY <3>2, <3>3, <3>4 DEF Finished
  <2>5. QED BY <2>2, <2>3, <2>4
<1>5. Lives' = [i \in Id |-> IF Lives[i] \in Promise!Live THEN "lost" ELSE Lives[i]]
  BY <1>4 DEF Lives, Promise!Live
<1>6. Told' = Told /\ asked' \cap Own' = asked \cap Own  BY <1>1, <1>3 DEF Told, Own
<1>7. QED BY <1>5, <1>6 DEF Promise!Lose, Lives, Told

\* A step of a worker between its start and its mark, or after it.
LEMMA WorkStutters ==
  ASSUME TInv, TInv', ~over, ~over', NEW id \in Id, UNCHANGED <<asked, notes, items>>,
         \A i \in Id : i # id => worker'[i] = worker[i],
         worker[id] \notin {"idle"} \cup NotBegun,
         worker'[id] \notin {"idle"} \cup NotBegun,
         worker[id] \in {"reporting", "gone"} <=> worker'[id] \in {"reporting", "gone"}
  PROVE  UNCHANGED Promise!vars
<1>1. \A i \in Id :
        /\ worker[i] = "idle" <=> worker'[i] = "idle"
        /\ Unmarked(i) <=> Unmarked(i)'
        /\ worker[i] \in NotBegun <=> worker'[i] \in NotBegun
  BY DEF Unmarked
<1>2. asked' \cap Own' = asked \cap Own  BY <1>1 DEF Own
<1>3. QED BY <1>1, <1>2, PromiseStutters

\* Somebody wants a task stopped; a remote task is not of the promise.
LEMMA StopAsks ==
  ASSUME TInv, TInv', ~over, ~over', NEW id \in Id, Stop(id)
  PROVE  Promise!Ask(id) \/ UNCHANGED Promise!vars
<1>1. /\ id \in DOMAIN tasks /\ tasks[id].status \in Live
      /\ asked' = asked \union {id} /\ UNCHANGED <<tasks, worker, notes, items>>
  BY DEF Stop
<1>2. UNCHANGED Lives /\ UNCHANGED Told /\ UNCHANGED Own
  BY <1>1 DEF Lives, Life, Told, Own
<1>3. CASE id \in Own
  <2>1. Life(id) \in {"pending", "running"}  BY <1>1, <1>3 DEF Life, Live
  <2>2. asked' \cap Own' = (asked \cap Own) \cup {id}  BY <1>1, <1>2, <1>3
  <2>3. QED BY <1>2, <2>1, <2>2 DEF Promise!Ask, Promise!Live, Lives, Told
<1>4. CASE id \notin Own
  <2>1. asked' \cap Own' = asked \cap Own  BY <1>1, <1>2, <1>4
  <2>2. QED BY <1>2, <2>1 DEF Promise!vars, Lives, Told
<1>5. QED BY <1>3, <1>4

LEMMA TaskStepKeepsPromise ==
  ASSUME TInv, TInv', TaskNext
  PROVE  [Promise!Next]_(Promise!vars)
<1>1. /\ worker \in [Id -> Stages] /\ outcome \in [Id -> Outcomes]
      /\ nextId \in Nat /\ DOMAIN tasks \subseteq Id
      /\ \A i \in Id : worker[i] # "idle" => i < nextId
  BY TasksTyped
<1>2. ASSUME NEW kind \in {"shell", "agent"}, NEW d \in Description, Launch(kind, d)
      PROVE  [Promise!Next]_(Promise!vars)
  <2>1. nextId \in Id  BY <1>1, <1>2 DEF Launch, Create, Id, TInv, TasksTypeOK
  <2>2. PICK id \in Id : id = nextId  BY <2>1
  <2>3. /\ worker' = [worker EXCEPT ![id] = IF kind = "shell" THEN "forked" ELSE "created"]
        /\ UNCHANGED <<asked, notes, items, over>> /\ ~over
    BY <1>2, <2>2 DEF Launch
  <2>4. /\ worker'[id] \in NotBegun
        /\ \A i \in Id : i # id => worker'[i] = worker[i]
    BY <1>1, <2>3
  <2>5. OthersAsBefore(id)  BY <2>3, <2>4 DEF OthersAsBefore
  <2>6. CASE id \in items  BY <2>3, <2>5, <2>6, NamedStutters
  <2>7. CASE id \notin items
    <3>1. Promise!Begin(id)  BY <2>2, <2>3, <2>4, <2>5, <2>7, LaunchBegins
    <3>2. QED BY <3>1 DEF Promise!Next
  <2>8. QED BY <2>6, <2>7
<1>3. ASSUME NEW d \in Description, RemoteStarts(d) PROVE UNCHANGED Promise!vars
  BY <1>3, PromiseStutters DEF RemoteStarts, Own, Unmarked
<1>4. ASSUME NEW i \in Id, NEW status \in {"completed", "failed"}, RemoteResult(i, status)
      PROVE  UNCHANGED Promise!vars
  <2>1. /\ ~over /\ (i \in items \/ worker[i] = "idle")
        /\ Mark(i, status) /\ UNCHANGED <<asked, worker, items, over>>
    BY <1>4 DEF RemoteResult
  <2>2. \A j \in Id : j \in Own => notes'[j] = notes[j]
    <3>1. notes' = IF i \in DOMAIN tasks THEN [notes EXCEPT ![i] = Append(@, status)] ELSE notes
      BY <2>1, MarkLeaves DEF TInv, Finished
    <3>2. i \notin Own  BY <2>1 DEF Own
    <3>3. DOMAIN notes = Id  BY DEF TInv, TasksTypeOK
    <3>4. QED BY <3>1, <3>2, <3>3
  <2>3. QED BY <2>1, <2>2, PromiseStutters DEF Own, Unmarked
<1>5. ASSUME NEW i \in Id, Stop(i) PROVE [Promise!Next]_(Promise!vars)
  <2>1. Promise!Ask(i) \/ UNCHANGED Promise!vars  BY <1>5, StopAsks DEF Stop
  <2>2. QED BY <2>1 DEF Promise!Next
<1>6. CASE TurnEnds
  <2>1. Promise!Lose  BY <1>6, TurnEndsLoses
  <2>2. QED BY <2>1 DEF Promise!Next
<1>7. ASSUME NEW i \in Id, Starts(i) PROVE [Promise!Next]_(Promise!vars)
  <2>1. ~over /\ ~over' /\ UNCHANGED <<asked, notes, items>>  BY <1>7 DEF Starts, At
  <2>2. \A j \in Id : j # i => worker'[j] = worker[j]  BY <1>1, <1>7 DEF Starts, Goes
  <2>3. OthersAsBefore(i)  BY <2>1, <2>2 DEF OthersAsBefore
  <2>4. CASE i \in items  BY <2>1, <2>3, <2>4, NamedStutters
  <2>5. CASE i \notin items
    <3>1. Promise!Run(i)  BY <1>7, <2>1, <2>5, StartsRuns
    <3>2. QED BY <3>1 DEF Promise!Next
  <2>6. QED BY <2>4, <2>5
<1>8. ASSUME NEW i \in Id, ShellFailsToStart(i) PROVE [Promise!Next]_(Promise!vars)
  <2>1. /\ worker[i] = "opening" /\ worker' = [worker EXCEPT ![i] = "gone"]
        /\ ~over /\ ~over' /\ Mark(i, "failed") /\ UNCHANGED <<asked, items>>
    BY <1>8 DEF ShellFailsToStart, At, Goes
  <2>2. worker'[i] = "gone" /\ \A j \in Id : j # i => worker'[j] = worker[j]  BY <1>1, <2>1
  <2>3. \A j \in Id : j # i => notes'[j] = notes[j]
    <3>1. notes' = IF i \in DOMAIN tasks THEN [notes EXCEPT ![i] = Append(@, "failed")] ELSE notes
      BY <2>1, MarkLeaves DEF TInv, Finished
    <3>2. DOMAIN notes = Id  BY DEF TInv, TasksTypeOK
    <3>3. QED BY <3>1, <3>2
  <2>4. OthersAsBefore(i)  BY <2>1, <2>2, <2>3 DEF OthersAsBefore
  <2>5. CASE i \in items  BY <2>1, <2>4, <2>5, NamedStutters
  <2>6. CASE i \notin items
    <3>1. Promise!End(i, "failed")
      BY <2>1, <2>2, <2>4, <2>6, MarkEnds DEF Unmarked, Finished
    <3>2. QED BY <3>1 DEF Promise!Next
  <2>7. QED BY <2>5, <2>6
<1>9. ASSUME NEW i \in Id, MarksEnd(i) PROVE [Promise!Next]_(Promise!vars)
  <2>1. /\ worker[i] \in {"exited", "answered"} /\ ~over /\ ~over'
        /\ Mark(i, outcome[i]) /\ UNCHANGED <<asked, items>>
    BY <1>9 DEF MarksEnd, At
  <2>2. /\ worker'[i] \in {"gone", "reporting"}
        /\ \A j \in Id : j # i => worker'[j] = worker[j]
    BY <1>1, <1>9 DEF MarksEnd, Goes
  <2>3. outcome[i] \in Finished /\ (outcome[i] = "cancelled" => i \in asked)
    BY <2>1 DEF TInv, Ending
  <2>4. PICK status \in Finished : status = outcome[i]  BY <2>3
  <2>5. Mark(i, status)  BY <2>1, <2>4
  <2>6. \A j \in Id : j # i => notes'[j] = notes[j]
    <3>1. notes' = IF i \in DOMAIN tasks THEN [notes EXCEPT ![i] = Append(@, status)] ELSE notes
      BY <2>5, MarkLeaves DEF TInv
    <3>2. DOMAIN notes = Id  BY DEF TInv, TasksTypeOK
    <3>3. QED BY <3>1, <3>2
  <2>7. OthersAsBefore(i)  BY <2>1, <2>2, <2>6 DEF OthersAsBefore
  <2>8. CASE i \in items  BY <2>1, <2>7, <2>8, NamedStutters
  <2>9. CASE i \notin items
    <3>1. Promise!End(i, status)
      BY <2>1, <2>2, <2>3, <2>4, <2>5, <2>7, <2>9, MarkEnds DEF Unmarked
    <3>2. QED BY <3>1 DEF Promise!Next, Finished
  <2>10. QED BY <2>8, <2>9
<1>10. ASSUME NEW i \in Id, NEW from \in Stages, NEW to \in Stages,
              At(i, from), Goes(i, to), UNCHANGED <<asked, notes, items, over>>,
              from \notin {"idle"} \cup NotBegun, to \notin {"idle"} \cup NotBegun,
              from \in {"reporting", "gone"} <=> to \in {"reporting", "gone"}
       PROVE  UNCHANGED Promise!vars
  <2>1. ~over /\ ~over' /\ worker[i] = from /\ worker' = [worker EXCEPT ![i] = to]
    BY <1>10 DEF At, Goes
  <2>2. worker'[i] = to /\ \A j \in Id : j # i => worker'[j] = worker[j]  BY <1>1, <2>1
  <2>3. QED BY <1>10, <2>1, <2>2, WorkStutters
<1>11. ASSUME NEW i \in Id,
              ShellRuns(i) \/ SeesStop(i) \/ CommandStops(i) \/ AgentStops(i) \/ Reports(i)
       PROVE  UNCHANGED Promise!vars
  BY <1>10, <1>11, StagesAre DEF ShellRuns, SeesStop, CommandStops, AgentStops, Reports
<1>12. ASSUME NEW i \in Id, NEW status \in {"completed", "failed"}, WorkEnds(i, status)
       PROVE  UNCHANGED Promise!vars
  BY <1>10, <1>12, StagesAre DEF WorkEnds
<1>13. ASSUME NEW i \in Id, Spawned(i) PROVE UNCHANGED Promise!vars
  <2>1. /\ worker[i] = "created" /\ worker' = [worker EXCEPT ![i] = "called"]
        /\ ~over /\ ~over' /\ UNCHANGED <<asked, notes, items>>
    BY <1>13 DEF Spawned, At, Goes
  <2>2. worker'[i] = "called" /\ \A j \in Id : j # i => worker'[j] = worker[j]  BY <1>1, <2>1
  <2>3. \A j \in Id : /\ worker[j] = "idle" <=> worker'[j] = "idle"
                      /\ Unmarked(j) <=> Unmarked(j)'
                      /\ worker[j] \in NotBegun <=>
                           worker'[j] \in NotBegun
    BY <2>1, <2>2 DEF Unmarked
  <2>4. asked' \cap Own' = asked \cap Own  BY <2>1, <2>3 DEF Own
  <2>5. QED BY <2>1, <2>3, <2>4, PromiseStutters
<1>14. QED
  BY <1>2, <1>3, <1>4, <1>5, <1>6, <1>7, <1>8, <1>9, <1>11, <1>12, <1>13 DEF TaskNext, Proceeds

\* The background of a turn implements its promise: a task is pending before it
\* runs, ends once and is announced once, with the status it ended with, and is
\* cancelled only when somebody asked for it, if no item of an earlier turn names
\* its id.
THEOREM TasksKeepPromise == Spec => KeepsPromise
<1>1. TeamInit => Promise!Init
  <2> SUFFICES ASSUME TeamInit PROVE Promise!Init  OBVIOUS
  <2>1. worker = [i \in Id |-> "idle"] /\ asked = {}  BY DEF TeamInit, Init
  <2>2. Own = {}  BY <2>1 DEF Own
  <2>3. QED BY <2>1, <2>2 DEF Promise!Init, Life
<1>2. TInv /\ TInv' /\ [Next]_vars => [Promise!Next]_(Promise!vars)
  <2> SUFFICES ASSUME TInv, TInv', [Next]_vars PROVE [Promise!Next]_(Promise!vars)  OBVIOUS
  <2>1. CASE TaskNext  BY <2>1, TaskStepKeepsPromise
  <2>2. CASE UNCHANGED taskVars
    BY <2>2 DEF taskVars, Promise!vars, Life, Own
  <2>3. QED BY <2>1, <2>2, NextIsTaskNext
<1>3. QED BY <1>1, <1>2, TInvHolds, PTL DEF Spec, KeepsPromise, Promise!Spec

-----------------------------------------------------------------------------
(* The phases of coordinate. *)

\* The recursion that places workstreams has its solution.
LEMMA PlacedSteps ==
  /\ Placed[0] = {}
  /\ \A n \in Nat : Placed[n + 1] = {m \in Members : DependsOn[m] \subseteq Placed[n]}
<1> DEFINE Body(F) == [n \in Nat |->
                         IF n = 0 THEN {}
                         ELSE {m \in Members : DependsOn[m] \subseteq F[n - 1]}]
<1> DEFINE X == SUBSET Members
<1> DEFINE h == [p \in Nat \X X |-> {m \in Members : DependsOn[m] \subseteq p[2]}]
<1>1. PICK f \in [Nat -> X] : f[0] = {} /\ \A n \in Nat : f[n + 1] = h[<<n, f[n]>>]
  <2>1. {} \in X /\ h \in StepFunctions(X)  BY DEF StepFunctions
  <2> HIDE DEF h, X
  <2>2. \E f : Recursive(f, X, {}, h)  BY <2>1, Recursion
  <2>3. QED BY <2>2 DEF Recursive
<1>2. ASSUME NEW n \in Nat
      PROVE  f[n + 1] = {m \in Members : DependsOn[m] \subseteq f[n]}
  <2>1. <<n, f[n]>> \in Nat \X X  BY <1>1
  <2>2. h[<<n, f[n]>>] = {m \in Members : DependsOn[m] \subseteq f[n]}  BY <2>1
  <2> HIDE DEF h, X
  <2>3. QED BY <1>1, <2>2
<1>3. f = Body(f)
  <2>1. ASSUME NEW n \in Nat, n # 0
        PROVE  f[n] = {m \in Members : DependsOn[m] \subseteq f[n - 1]}
    <3>1. n - 1 \in Nat /\ (n - 1) + 1 = n  BY <2>1
    <3> HIDE DEF h, X
    <3>2. f[(n - 1) + 1] = {m \in Members : DependsOn[m] \subseteq f[n - 1]}  BY <3>1, <1>2
    <3>3. QED BY <3>1, <3>2
  <2>2. f[0] = {} /\ f = [n \in Nat |-> f[n]]  BY <1>1
  <2> HIDE DEF h, X
  <2>3. QED BY <2>1, <2>2
<1> HIDE DEF h, X
<1>4. Placed = CHOOSE F : F = Body(F)  BY DEF Placed
<1>5. Placed = Body(Placed)
  <2> HIDE DEF Body
  <2>1. QED BY <1>3, <1>4
<1>6. Placed[0] = {}
  <2>1. Body(Placed)[0] = {}  OBVIOUS
  <2> HIDE DEF Body
  <2>2. QED BY <1>5, <2>1
<1>7. ASSUME NEW n \in Nat
      PROVE  Placed[n + 1] = {m \in Members : DependsOn[m] \subseteq Placed[n]}
  <2>1. n + 1 \in Nat /\ n + 1 # 0 /\ (n + 1) - 1 = n  OBVIOUS
  <2>2. Body(Placed)[n + 1] = {m \in Members : DependsOn[m] \subseteq Placed[(n + 1) - 1]}
    BY <2>1
  <2> HIDE DEF Body
  <2>3. QED BY <1>5, <2>1, <2>2
<1>8. QED BY <1>6, <1>7

\* A workstream that is placed stays so.
LEMMA PlacedGrows ==
  \A n \in Nat : Placed[n] \subseteq Placed[n + 1]
<1> DEFINE S == {n \in Nat : Placed[n] \subseteq Placed[n + 1]}
<1>1. 0 \in S  BY PlacedSteps
<1>2. ASSUME NEW n \in Nat, n \in S PROVE n + 1 \in S
  <2>1. /\ Placed[n + 1] = {m \in Members : DependsOn[m] \subseteq Placed[n]}
        /\ Placed[(n + 1) + 1] = {m \in Members : DependsOn[m] \subseteq Placed[n + 1]}
    BY PlacedSteps
  <2>2. Placed[n] \subseteq Placed[n + 1]  BY <1>2
  <2>3. QED BY <2>1, <2>2
<1> HIDE DEF S
<1>3. \A n \in Nat : n \in S  BY <1>1, <1>2, Induction
<1>4. QED BY <1>3 DEF S

Named == {Workstreams[i] : i \in DOMAIN Workstreams}

LEMMA PhaseElements ==
  ASSUME NEW n \in Nat \ {0}
  PROVE  /\ Phase(n) \in Seq(Members)
         /\ \A x : (\E j \in 1 .. Len(Phase(n)) : Phase(n)[j] = x) <=>
                     x \in Named /\ x \in Placed[n] /\ x \notin Placed[n - 1]
<1>1. Workstreams \in Seq(Members)  BY PlanAssumption
<1>2. Phase(n) \in Seq(Members)  BY <1>1, SelectKeeps DEF Phase
<1> DEFINE W == Placed[n] \ Placed[n - 1]
<1>3. Phase(n) = SelectIn(Workstreams, W)  BY DEF Phase
<1>4. \A x : x \in W <=> x \in Placed[n] /\ x \notin Placed[n - 1]  OBVIOUS
<1> HIDE DEF W
<1>5. ASSUME NEW x
      PROVE  (\E j \in 1 .. Len(Phase(n)) : Phase(n)[j] = x) <=>
               x \in W /\ \E i \in 1 .. Len(Workstreams) : Workstreams[i] = x
  BY <1>1, <1>3, SelectElements
<1>6. DOMAIN Workstreams = 1 .. Len(Workstreams)  BY <1>1
<1>7. QED BY <1>2, <1>4, <1>5, <1>6 DEF Named

\* The chunks of a phase follow each other without a gap.
LEMMA Multiples ==
  ASSUME NEW k \in Nat \ {0}
  PROVE  \E lo, hi \in Nat :
           /\ lo = (k - 1) * MaxParallel /\ hi = k * MaxParallel
           /\ hi = lo + MaxParallel
           /\ (k = 1 => lo = 0)
<1>1. MaxParallel \in Nat \ {0}  BY PlanAssumption
<1>2. PICK M \in Nat \ {0} : M = MaxParallel  BY <1>1
<1>3. PICK j \in Nat : j = k - 1  OBVIOUS
<1>4. j * M \in Nat /\ k * M \in Nat /\ k * M = j * M + M  BY <1>3
<1>5. k = 1 => j * M = 0  BY <1>3
<1>6. QED BY <1>2, <1>3, <1>4, <1>5

LEMMA ChunkElements ==
  ASSUME NEW n \in Nat \ {0}, NEW k \in Nat \ {0}
  PROVE  /\ Chunk(n, k) \subseteq Named \cap Members
         /\ Chunk(n, k) \subseteq Placed[n] \ Placed[n - 1]
         /\ \A i \in 1 .. Len(Phase(n)) :
              (k - 1) * MaxParallel < i /\ i <= k * MaxParallel => Phase(n)[i] \in Chunk(n, k)
<1>1. PICK lo \in Nat, hi \in Nat :
        lo = (k - 1) * MaxParallel /\ hi = k * MaxParallel /\ hi = lo + MaxParallel
  BY Multiples
<1>2. Phase(n) \in Seq(Members)  BY PhaseElements
<1>3. PICK len \in Nat : len = Len(Phase(n))  BY <1>2
<1> DEFINE last == IF hi < len THEN hi ELSE len
<1>4. Chunk(n, k) = {Phase(n)[i] : i \in lo + 1 .. last}  BY <1>1, <1>3 DEF Chunk
<1>5. \A i \in lo + 1 .. last : i \in 1 .. len  OBVIOUS
<1>6. \A i \in 1 .. len : lo < i /\ i <= hi => i \in lo + 1 .. last  OBVIOUS
<1> HIDE DEF last
<1>7. ASSUME NEW x \in Chunk(n, k)
      PROVE  x \in Named /\ x \in Members /\ x \in Placed[n] /\ x \notin Placed[n - 1]
  <2>1. PICK i \in lo + 1 .. last : x = Phase(n)[i]  BY <1>4
  <2>2. i \in 1 .. Len(Phase(n))  BY <2>1, <1>3, <1>5
  <2>3. QED BY <1>2, <2>1, <2>2, PhaseElements
<1>8. QED BY <1>1, <1>3, <1>4, <1>6, <1>7

\* Without a chunk after this one, the phase has been through.
LEMMA LastChunk ==
  ASSUME NEW n \in Nat \ {0}, NEW k \in Nat \ {0}, Chunk(n, k + 1) = {},
         NEW i \in 1 .. Len(Phase(n))
  PROVE  i <= k * MaxParallel
<1>1. k + 1 \in Nat \ {0} /\ (k + 1) - 1 = k  OBVIOUS
<1>2. PICK lo \in Nat, hi \in Nat :
        lo = k * MaxParallel /\ hi = (k + 1) * MaxParallel /\ hi = lo + MaxParallel
  BY <1>1, Multiples
<1>3. Phase(n) \in Seq(Members)  BY PhaseElements
<1>4. PICK len \in Nat : len = Len(Phase(n))  BY <1>3
<1>5. MaxParallel \in Nat \ {0}  BY PlanAssumption
<1>6. SUFFICES ASSUME lo < i PROVE FALSE  BY <1>2, <1>4
<1>7. lo + 1 \in 1 .. len /\ lo < lo + 1 /\ lo + 1 <= hi  BY <1>2, <1>4, <1>5, <1>6
<1>8. Phase(n)[lo + 1] \in Chunk(n, k + 1)
  <2>1. (k + 1 - 1) * MaxParallel = lo  BY <1>1, <1>2
  <2>2. QED BY <1>1, <1>2, <1>4, <1>7, <2>1, ChunkElements
<1>9. QED BY <1>8

-----------------------------------------------------------------------------
(* The team and the calls: their types, and how far coordinate is. *)

Calls ==
  [tool : {"none", "agent", "coordinate", "team_run_ready"}, bg : SUBSET Members,
   phase : Nat, chunk : Nat, batch : SUBSET Members]

TeamTyped ==
  /\ DOMAIN team \subseteq Members
  /\ \A m \in DOMAIN team : team[m] \in Statuses
  /\ call \in Calls
  /\ stream \in [Members -> Streams]
  /\ owner \in [Id -> Members \union {Nobody}]

\* What a worker has to report is known.
Reportable == \A i \in Id : worker[i] = "reporting" => outcome[i] \in Finished

\* A workstream that has returned.
Through(m) == stream[m] \in {"failed", IF m \in call.bg THEN "launched" ELSE "done"}

\* Where the call may be with a workstream that has not returned.
Under(m) ==
  IF m \in call.bg THEN {"starting", "announcing"} ELSE {"starting", "foreground"}

\* Only those of the batch are neither waiting nor through, those of the earlier
\* phases are through, and those of the chunks begun do not wait.
Progress ==
  call.tool = "coordinate" =>
    /\ call.phase # 0 /\ call.chunk # 0
    /\ \A m \in Members :
         \/ stream[m] = "waiting"
         \/ Through(m)
         \/ m \in call.batch /\ stream[m] \in Under(m)
    /\ \A m \in Members : stream[m] # "waiting" => m \in Placed[call.phase]
    /\ \A m \in Named \cap Placed[call.phase - 1] : Through(m)
    /\ \A i \in 1 .. Len(Phase(call.phase)) :
         i <= call.chunk * MaxParallel => stream[Phase(call.phase)[i]] # "waiting"

TeamInv == TeamTyped /\ Reportable /\ Progress

LEMMA NamedMembers == Named \subseteq Members
BY PlanAssumption DEF Named

\* A member of the batch goes on, or returns.
LEMMA StreamGoesOn ==
  ASSUME TeamTyped, Progress, UNCHANGED call, NEW m \in Members, NEW s \in Streams,
         stream[m] \in {"starting", "announcing", "foreground"},
         stream' = [stream EXCEPT ![m] = s],
         \/ s = "failed"
         \/ m \in call.bg /\ s \in {"announcing", "launched"}
         \/ m \notin call.bg /\ s \in {"foreground", "done"}
  PROVE  Progress'
<1> SUFFICES ASSUME call.tool = "coordinate" PROVE Progress'  BY DEF Progress
<1>1. /\ call.phase # 0 /\ call.chunk # 0
      /\ \A x \in Members :
           \/ stream[x] = "waiting"
           \/ Through(x)
           \/ x \in call.batch /\ stream[x] \in Under(x)
      /\ \A x \in Members : stream[x] # "waiting" => x \in Placed[call.phase]
      /\ \A x \in Named \cap Placed[call.phase - 1] : Through(x)
      /\ \A i \in 1 .. Len(Phase(call.phase)) :
           i <= call.chunk * MaxParallel => stream[Phase(call.phase)[i]] # "waiting"
  BY DEF Progress
<1>2. stream'[m] = s /\ \A x \in Members : x # m => stream'[x] = stream[x]
  BY DEF TeamTyped
<1>3. m \in call.batch /\ ~Through(m)  BY <1>1 DEF Through
<1>4. \A x \in Members : Through(x) => Through(x)'
  BY <1>2, <1>3 DEF Through
<1>5. \A x \in Members :
        \/ stream'[x] = "waiting"
        \/ Through(x)'
        \/ x \in call.batch /\ stream'[x] \in Under(x)
  BY <1>1, <1>2, <1>3, <1>4 DEF Through, Under
<1>6. \A x : stream[x] # "waiting" => stream'[x] # "waiting"
  BY <1>2 DEF TeamTyped
<1>7. \A x \in Members : stream'[x] # "waiting" => x \in Placed[call.phase]
  BY <1>1, <1>2
<1>8. \A x \in Named \cap Placed[call.phase - 1] : Through(x)'
  BY <1>1, <1>4, NamedMembers
<1>9. QED BY <1>1, <1>5, <1>6, <1>7, <1>8 DEF Progress, Under

\* The first batch of coordinate.
LEMMA CoordinateBegins ==
  ASSUME NEW bg \in SUBSET Named, Coordinate(bg)
  PROVE  Progress'
<1>1. /\ call' = [tool |-> "coordinate", bg |-> bg, phase |-> 1, chunk |-> 1,
                  batch |-> Chunk(1, 1)]
      /\ stream' = [m \in Members |-> IF m \in Chunk(1, 1) THEN "starting" ELSE "waiting"]
  BY DEF Coordinate, Begins
<1>2. /\ call'.phase = 1 /\ call'.chunk = 1 /\ call'.batch = Chunk(1, 1)  BY <1>1
<1>3. /\ Chunk(1, 1) \subseteq Members
      /\ Chunk(1, 1) \subseteq Placed[1]
      /\ \A i \in 1 .. Len(Phase(1)) : i <= 1 * MaxParallel => Phase(1)[i] \in Chunk(1, 1)
  <2>1. (1 - 1) * MaxParallel = 0  BY PlanAssumption
  <2>2. QED BY <2>1, ChunkElements
<1>4. Placed[1 - 1] = {}
  <2>1. 1 - 1 = 0  OBVIOUS
  <2>2. QED BY <2>1, PlacedSteps
<1>5. \A i \in 1 .. Len(Phase(1)) : i <= 1 * MaxParallel => stream'[Phase(1)[i]] # "waiting"
  BY <1>1, <1>3
<1>6. \A m \in Members : stream'[m] # "waiting" => m \in Chunk(1, 1) /\ stream'[m] = "starting"
  BY <1>1
<1>7. QED BY <1>2, <1>3, <1>4, <1>5, <1>6 DEF Progress, Under

\* The batch after one that has returned.
LEMMA BatchFollows ==
  ASSUME TeamTyped, Progress, call.tool = "coordinate",
         \A m \in call.batch : Returned(m),
         NEW next, next = Following(call), call' = next,
         stream' = [m \in Members |-> IF m \in next.batch THEN "starting" ELSE stream[m]]
  PROVE  Progress' /\ call' \in Calls
<1>1. PICK n \in Nat \ {0} : n = call.phase  BY DEF TeamTyped, Calls, Progress
<1>2. PICK k \in Nat \ {0} : k = call.chunk  BY DEF TeamTyped, Calls, Progress
<1>3. /\ \A x \in Members : stream[x] # "waiting" => x \in Placed[n]
      /\ \A x \in Named \cap Placed[n - 1] : Through(x)
      /\ \A i \in 1 .. Len(Phase(n)) :
           i <= k * MaxParallel => stream[Phase(n)[i]] # "waiting"
  BY <1>1, <1>2 DEF Progress
<1>4. \A x \in Members : stream[x] # "waiting" => Through(x)
  BY DEF Progress, Returned, Under
<1> DEFINE more == Chunk(n, k + 1) # {}
<1> DEFINE p == IF more THEN n ELSE n + 1
<1> DEFINE c == IF more THEN k + 1 ELSE 1
<1>5. /\ next = [call EXCEPT !.phase = p, !.chunk = c, !.batch = Chunk(p, c)]
      /\ p \in Nat \ {0} /\ c \in Nat \ {0}
  BY <1>1, <1>2 DEF Following
<1>6. /\ Chunk(p, c) \subseteq Named \cap Members
      /\ Chunk(p, c) \subseteq Placed[p] \ Placed[p - 1]
      /\ \A i \in 1 .. Len(Phase(p)) :
           (c - 1) * MaxParallel < i /\ i <= c * MaxParallel => Phase(p)[i] \in Chunk(p, c)
  <2> HIDE DEF p, c
  <2>1. QED BY <1>5, ChunkElements
<1>7. Placed[n] \subseteq Placed[p]  BY PlacedGrows
<1>8. \A x \in Named \cap Placed[p - 1] : Through(x)
  <2>1. CASE more  BY <2>1, <1>3
  <2>2. CASE ~more
    <3>1. p - 1 = n  BY <2>2
    <3>2. ASSUME NEW x \in Named, x \in Placed[n], x \notin Placed[n - 1] PROVE Through(x)
      <4>1. PICK i \in 1 .. Len(Phase(n)) : Phase(n)[i] = x  BY <3>2, PhaseElements
      <4>2. i <= k * MaxParallel  BY <2>2, LastChunk
      <4>3. QED BY <1>3, <1>4, <4>1, <4>2, NamedMembers
    <3>3. QED BY <1>3, <3>1, <3>2
  <2>3. QED BY <2>1, <2>2
<1>9. \A i \in 1 .. Len(Phase(p)) :
        i <= c * MaxParallel => Phase(p)[i] \in Chunk(p, c) \/ stream[Phase(p)[i]] # "waiting"
  <2> SUFFICES ASSUME NEW i \in 1 .. Len(Phase(p)), i <= c * MaxParallel
               PROVE  Phase(p)[i] \in Chunk(p, c) \/ stream[Phase(p)[i]] # "waiting"
    OBVIOUS
  <2>1. PICK lo \in Nat : lo = (c - 1) * MaxParallel
    <3> HIDE DEF c
    <3>1. QED BY <1>5, Multiples
  <2>2. PICK j \in Nat : j = i
    <3>1. Phase(p) \in Seq(Members)
      <4> HIDE DEF p
      <4>1. QED BY <1>5, PhaseElements
    <3>2. Len(Phase(p)) \in Nat  BY <3>1
    <3>3. QED BY <3>2
  <2>3. CASE lo < j  BY <1>6, <2>1, <2>2, <2>3
  <2>4. CASE j <= lo
    <3>1. CASE more
      <4>1. p = n /\ c - 1 = k  BY <3>1
      <4>2. i <= k * MaxParallel  BY <2>1, <2>2, <2>4, <4>1
      <4>3. QED BY <1>3, <4>1, <4>2
    <3>2. CASE ~more
      <4>1. c - 1 = 0 /\ 0 * MaxParallel = 0  BY <3>2, PlanAssumption
      <4>2. j \in Nat /\ j # 0
        <5>1. i # 0  OBVIOUS
        <5>2. QED BY <5>1, <2>2
      <4>3. QED BY <2>1, <2>4, <4>1, <4>2
    <3>3. QED BY <3>1, <3>2
  <2>5. QED BY <2>3, <2>4
<1> HIDE DEF p, c, more
<1>10. /\ call' \in Calls /\ call'.phase = p /\ call'.chunk = c /\ call'.batch = Chunk(p, c)
       /\ call'.bg = call.bg /\ call'.tool = "coordinate"
  BY <1>5, <1>6 DEF TeamTyped, Calls
<1>11. \A m \in Members :
         stream'[m] = IF m \in Chunk(p, c) THEN "starting" ELSE stream[m]
  BY <1>10
<1>12. \A x \in Members : x \notin Chunk(p, c) => (Through(x)' <=> Through(x))
  BY <1>10, <1>11 DEF Through
<1>13. QED
  <2>1. \A x \in Members :
          \/ stream'[x] = "waiting"
          \/ Through(x)'
          \/ x \in Chunk(p, c) /\ stream'[x] = "starting"
    BY <1>4, <1>11, <1>12
  <2>2. \A x \in Members : stream'[x] # "waiting" => x \in Placed[p]
    BY <1>3, <1>6, <1>7, <1>11
  <2>3. \A x \in Named \cap Placed[p - 1] : Through(x)'
    BY <1>6, <1>8, <1>12, NamedMembers
  <2>4. \A i \in 1 .. Len(Phase(p)) :
          i <= c * MaxParallel => stream'[Phase(p)[i]] # "waiting"
    <3>1. \A i \in 1 .. Len(Phase(p)) : Phase(p)[i] \in Members
      <4>1. Phase(p) \in Seq(Members)  BY <1>5, PhaseElements
      <4>2. QED BY <4>1
    <3>2. QED BY <1>9, <1>11, <3>1
  <2>5. QED BY <1>5, <1>10, <2>1, <2>2, <2>3, <2>4 DEF Progress, Under

LEMMA ReportableKept ==
  ASSUME TInv, TaskNext, Reportable
  PROVE  Reportable'
<1>1. worker \in [Id -> Stages] /\ outcome \in [Id -> Outcomes]  BY TasksTyped
<1>2. SUFFICES ASSUME NEW j \in Id, worker'[j] = "reporting" PROVE outcome'[j] \in Finished
  BY DEF Reportable
<1>3. CASE worker[j] = "reporting" /\ outcome'[j] = outcome[j]  BY <1>3 DEF Reportable
<1>4. ASSUME NEW kind \in {"shell", "agent"}, NEW d \in Description, Launch(kind, d)
      PROVE  outcome'[j] \in Finished
  <2>1. worker[j] = "reporting" /\ outcome' = outcome  BY <1>1, <1>2, <1>4 DEF Launch
  <2>2. QED BY <1>3, <2>1
<1>5. CASE \/ \E d \in Description : RemoteStarts(d)
           \/ \E i \in Id, status \in {"completed", "failed"} : RemoteResult(i, status)
           \/ \E i \in Id : Stop(i)
  <2>1. worker' = worker /\ outcome' = outcome  BY <1>5 DEF RemoteStarts, RemoteResult, Stop
  <2>2. QED BY <1>2, <1>3, <2>1
<1>6. CASE TurnEnds
  <2>1. worker'[j] # "reporting"  BY <1>6 DEF TurnEnds
  <2>2. QED BY <1>2, <2>1
<1>7. ASSUME NEW i \in Id, MarksEnd(i) PROVE outcome'[j] \in Finished
  <2>1. CASE worker[i] = "exited" /\ worker' = [worker EXCEPT ![i] = "gone"]
             /\ outcome' = [outcome EXCEPT ![i] = "none"]
    <3>1. j # i  BY <1>1, <1>2, <2>1
    <3>2. worker[j] = "reporting" /\ outcome'[j] = outcome[j]  BY <1>1, <1>2, <2>1, <3>1
    <3>3. QED BY <1>3, <3>2
  <2>2. CASE worker[i] = "answered" /\ worker' = [worker EXCEPT ![i] = "reporting"]
             /\ outcome' = outcome
    <3>1. CASE j = i  BY <2>2, <3>1 DEF TInv, Ending
    <3>2. CASE j # i  BY <1>1, <1>2, <1>3, <2>2, <3>2
    <3>3. QED BY <3>1, <3>2
  <2>3. QED BY <1>7, <2>1, <2>2 DEF MarksEnd, At, Goes
<1>8. ASSUME NEW i \in Id, NEW to \in Stages \ {"reporting"}, Goes(i, to),
             \A x \in Id : x # i => outcome'[x] = outcome[x]
      PROVE  outcome'[j] \in Finished
  <2>1. worker' = [worker EXCEPT ![i] = to]  BY <1>8 DEF Goes
  <2>2. j # i  BY <1>1, <1>2, <1>8, <2>1
  <2>3. worker[j] = "reporting" /\ outcome'[j] = outcome[j]  BY <1>1, <1>2, <1>8, <2>1, <2>2
  <2>4. QED BY <1>3, <2>3
<1>9. ASSUME NEW i \in Id,
             \/ Spawned(i) \/ Starts(i) \/ ShellFailsToStart(i)
             \/ ShellRuns(i) \/ SeesStop(i)
      PROVE  outcome'[j] \in Finished
  BY <1>8, <1>9, StagesAre DEF Spawned, Starts, ShellFailsToStart, ShellRuns, SeesStop
<1>10. ASSUME NEW i \in Id, NEW status, outcome' = [outcome EXCEPT ![i] = status]
       PROVE  \A x \in Id : x # i => outcome'[x] = outcome[x]
  BY <1>1, <1>10
<1>11. ASSUME NEW i \in Id, CommandStops(i) \/ AgentStops(i) \/ Reports(i)
       PROVE  outcome'[j] \in Finished
  <2>1. \A x \in Id : x # i => outcome'[x] = outcome[x]
    BY <1>10, <1>11 DEF CommandStops, AgentStops, Reports
  <2>2. QED BY <1>8, <1>11, <2>1, StagesAre DEF CommandStops, AgentStops, Reports
<1>12. ASSUME NEW i \in Id, NEW status \in {"completed", "failed"}, WorkEnds(i, status)
       PROVE  outcome'[j] \in Finished
  <2>1. \A x \in Id : x # i => outcome'[x] = outcome[x]  BY <1>10, <1>12 DEF WorkEnds
  <2>2. QED BY <1>8, <1>12, <2>1, StagesAre DEF WorkEnds
<1>13. QED
  BY <1>4, <1>5, <1>6, <1>7, <1>9, <1>11, <1>12 DEF TaskNext, Proceeds

\* A step of one member of the batch.
LEMMA StreamStep ==
  ASSUME TeamTyped, Progress, UNCHANGED call, NEW m \in Members, NEW s \in Streams,
         stream[m] \in {"starting", "announcing", "foreground"},
         stream' = [stream EXCEPT ![m] = s],
         \/ s = "failed"
         \/ m \in call.bg /\ s \in {"announcing", "launched"}
         \/ m \notin call.bg /\ s \in {"foreground", "done"},
         DOMAIN team' \subseteq Members, \A x \in DOMAIN team' : team'[x] \in Statuses,
         owner' \in [Id -> Members \union {Nobody}]
  PROVE  TeamTyped' /\ Progress'
<1>1. Progress'  BY StreamGoesOn
<1>2. stream' \in [Members -> Streams]  BY DEF TeamTyped
<1>3. QED BY <1>1, <1>2 DEF TeamTyped

LEMMA TeamUpdated ==
  ASSUME TeamTyped, NEW m, NEW status \in Statuses
  PROVE  /\ DOMAIN Updated(team, m, status) \subseteq Members
         /\ \A x \in DOMAIN Updated(team, m, status) : Updated(team, m, status)[x] \in Statuses
BY DEF TeamTyped, Updated

\* A call that is not of coordinate, or that ends.
LEMMA CallStep ==
  ASSUME DOMAIN team' \subseteq Members, \A x \in DOMAIN team' : team'[x] \in Statuses,
         owner' \in [Id -> Members \union {Nobody}], TeamTyped,
         call' \in Calls, call'.tool # "coordinate",
         stream' \in [Members -> Streams]
  PROVE  TeamTyped' /\ Progress'
BY DEF TeamTyped, Progress

LEMMA EndsCallTyped ==
  ASSUME EndsCall
  PROVE  call' \in Calls /\ call'.tool # "coordinate" /\ stream' \in [Members -> Streams]
BY DEF EndsCall, NoCall, Calls, Streams

LEMMA JoinedTyped ==
  ASSUME TeamTyped, \A m \in call.batch : Returned(m), NEW t, DOMAIN t \subseteq Members,
         \A m \in DOMAIN t : t[m] \in Statuses
  PROVE  DOMAIN Joined(t) \subseteq Members /\ \A m \in DOMAIN Joined(t) : Joined(t)[m] \in Statuses
<1>1. DOMAIN Joined(t) = DOMAIN t  BY DEF Joined
<1>2. ASSUME NEW m \in DOMAIN t PROVE Joined(t)[m] \in Statuses
  <2>1. CASE m \notin call.batch  BY <2>1 DEF Joined
  <2>2. CASE m \in call.batch
    <3>1. stream[m] \in {"launched", "done", "failed"}  BY <2>2 DEF Returned
    <3>2. {"running", "completed", "failed"} \subseteq Statuses  BY DEF Statuses, Finished
    <3>3. QED BY <2>2, <3>1, <3>2 DEF Joined
  <2>3. QED BY <2>1, <2>2
<1>3. QED BY <1>1, <1>2

LEMMA TeamNextKeeps ==
  ASSUME TInv, TeamInv, Next
  PROVE  TeamTyped' /\ Progress'
<1> USE DEF TeamInv
<1>1. /\ DOMAIN team \subseteq Members /\ \A m \in DOMAIN team : team[m] \in Statuses
      /\ call \in Calls /\ stream \in [Members -> Streams]
      /\ owner \in [Id -> Members \union {Nobody}]
  BY DEF TeamTyped
<1>2. /\ {"planned", "running", "completed", "failed"} \subseteq Statuses
      /\ Finished \subseteq Statuses
      /\ {"waiting", "starting", "announcing", "foreground", "launched", "done", "failed"}
           \subseteq Streams
  BY DEF Statuses, Finished, Streams
<1>3. CASE UNCHANGED teamVars
  BY <1>1, <1>3 DEF teamVars, TeamTyped, Progress, Through, Under
<1>4. CASE TeamCreate \/ TeamDelete
  <2>1. UNCHANGED <<call, stream, owner>>  BY <1>4 DEF TeamCreate, TeamDelete
  <2>2. DOMAIN team' \subseteq Members /\ \A m \in DOMAIN team' : team'[m] \in Statuses
    BY <1>2, <1>4 DEF TeamCreate, TeamDelete, Ensured, NoTeam
  <2>3. QED BY <1>1, <2>1, <2>2 DEF TeamTyped, Progress, Through, Under
<1>5. ASSUME NEW m \in Members, NEW bg \in BOOLEAN, Agent(m, bg) PROVE TeamTyped' /\ Progress'
  <2>1. /\ call' = [tool |-> "agent", bg |-> IF bg THEN {m} ELSE {}, phase |-> 0, chunk |-> 0,
                    batch |-> {m}]
        /\ stream' = [x \in Members |-> IF x \in {m} THEN "starting" ELSE "waiting"]
        /\ UNCHANGED <<team, owner>>
    BY <1>5 DEF Agent, Begins
  <2>2. call' \in Calls /\ call'.tool # "coordinate"  BY <2>1 DEF Calls
  <2>3. stream' \in [Members -> Streams]  BY <1>2, <2>1
  <2>4. QED BY <1>1, <2>1, <2>2, <2>3, CallStep
<1>6. ASSUME NEW bg \in SUBSET Named, Coordinate(bg) PROVE TeamTyped' /\ Progress'
  <2>1. Progress'  BY <1>6, CoordinateBegins
  <2>2. /\ call' = [tool |-> "coordinate", bg |-> bg, phase |-> 1, chunk |-> 1,
                    batch |-> Chunk(1, 1)]
        /\ stream' = [x \in Members |-> IF x \in Chunk(1, 1) THEN "starting" ELSE "waiting"]
        /\ team' = [x \in Named |-> "running"]
        /\ UNCHANGED owner
    BY <1>6 DEF Coordinate, Begins, Ensured, Named
  <2>3. Chunk(1, 1) \subseteq Members  BY ChunkElements
  <2>4. call' \in Calls  BY <2>2, <2>3, NamedMembers DEF Calls
  <2>5. stream' \in [Members -> Streams]  BY <1>2, <2>2
  <2>6. QED BY <1>1, <1>2, <2>1, <2>2, <2>4, <2>5, NamedMembers DEF TeamTyped
<1>7. ASSUME NEW ms \in SUBSET ReadyMembers, NEW bg \in SUBSET ms, TeamRunReady(ms, bg)
      PROVE  TeamTyped' /\ Progress'
  <2>1. /\ call' = [tool |-> "team_run_ready", bg |-> bg, phase |-> 0, chunk |-> 0,
                    batch |-> ms]
        /\ stream' = [x \in Members |-> IF x \in ms THEN "starting" ELSE "waiting"]
        /\ team' = [x \in DOMAIN team |-> IF x \in ms THEN "running" ELSE team[x]]
        /\ UNCHANGED owner
    BY <1>7 DEF TeamRunReady, Begins
  <2>2. ms \subseteq Members  BY <1>1 DEF ReadyMembers
  <2>3. call' \in Calls /\ call'.tool # "coordinate"  BY <2>1, <2>2 DEF Calls
  <2>4. stream' \in [Members -> Streams]  BY <1>2, <2>1
  <2>5. DOMAIN team' \subseteq Members /\ \A m \in DOMAIN team' : team'[m] \in Statuses
    BY <1>1, <1>2, <2>1
  <2>6. QED BY <1>1, <2>1, <2>3, <2>4, <2>5, CallStep
<1>8. ASSUME NEW m \in Members, RunMember(m) PROVE TeamTyped' /\ Progress'
  <2>1. UNCHANGED <<team, call>> /\ stream[m] = "starting"  BY <1>8 DEF RunMember
  <2>2. CASE m \in call.bg
    <3>1. /\ owner' = [owner EXCEPT ![nextId] = m]
          /\ stream' = [stream EXCEPT ![m] = "announcing"]
      BY <1>8, <2>2 DEF RunMember
    <3>2. owner' \in [Id -> Members \union {Nobody}]  BY <1>1, <3>1
    <3>3. QED BY <1>1, <1>2, <2>1, <2>2, <3>1, <3>2, StreamStep
  <2>3. CASE m \notin call.bg
    <3>1. stream' = [stream EXCEPT ![m] = "foreground"] /\ UNCHANGED owner
      BY <1>8, <2>3 DEF RunMember
    <3>2. QED BY <1>1, <1>2, <2>1, <2>3, <3>1, StreamStep
  <2>4. QED BY <2>2, <2>3
<1>9. ASSUME NEW m \in Members, LaunchFails(m) PROVE TeamTyped' /\ Progress'
  BY <1>1, <1>2, <1>9, StreamStep DEF LaunchFails
<1>10. ASSUME NEW m \in Members, NEW ok \in BOOLEAN, ForegroundEnds(m, ok)
       PROVE  TeamTyped' /\ Progress'
  <2>1. /\ stream[m] = "foreground" /\ UNCHANGED <<call, owner>>
        /\ stream' = [stream EXCEPT ![m] = IF ok THEN "done" ELSE "failed"]
        /\ team' = IF ok THEN Updated(team, m, "completed") ELSE team
    BY <1>10 DEF ForegroundEnds
  <2>2. DOMAIN team' \subseteq Members /\ \A x \in DOMAIN team' : team'[x] \in Statuses
    BY <1>1, <1>2, <2>1, TeamUpdated
  <2>3. CASE ok
    <3>1. CASE call.tool = "coordinate"
      <4>1. m \notin call.bg
        <5>1. ~Through(m)  BY <2>1 DEF Through
        <5>2. stream[m] \in Under(m)  BY <2>1, <3>1, <5>1 DEF Progress
        <5>3. QED BY <2>1, <5>2 DEF Under
      <4>2. QED BY <1>1, <1>2, <2>1, <2>2, <2>3, <4>1, StreamStep
    <3>2. CASE call.tool # "coordinate"
      <4>1. stream' \in [Members -> Streams]  BY <1>1, <1>2, <2>1
      <4>2. QED BY <1>1, <2>1, <2>2, <3>2, <4>1, CallStep
    <3>3. QED BY <3>1, <3>2
  <2>4. CASE ~ok  BY <1>1, <1>2, <2>1, <2>2, <2>4, StreamStep
  <2>5. QED BY <2>3, <2>4
<1>11. CASE BatchJoins
  <2>1. (\A m \in call.batch : Returned(m)) /\ UNCHANGED owner  BY <1>11 DEF BatchJoins
  <2>2. DOMAIN team' \subseteq Members /\ \A m \in DOMAIN team' : team'[m] \in Statuses
    <3>1. DOMAIN NewTeam \subseteq Members /\ \A m \in DOMAIN NewTeam : NewTeam[m] \in Statuses
      BY <1>1, <1>2 DEF NewTeam, Calls
    <3>2. \/ team' = Joined(NewTeam) \/ team' = Joined(team) \/ team' = team
      BY <1>11 DEF BatchJoins
    <3>3. QED BY <1>1, <2>1, <3>1, <3>2, JoinedTyped
  <2>3. CASE EndsCall  BY <1>1, <2>1, <2>2, <2>3, CallStep, EndsCallTyped
  <2>4. CASE /\ call.tool = "coordinate" /\ call' = Following(call)
             /\ stream' = [m \in Members |->
                             IF m \in Following(call).batch THEN "starting" ELSE stream[m]]
    <3>1. PICK next : next = Following(call)  OBVIOUS
    <3>2. Progress' /\ call' \in Calls  BY <2>1, <2>4, <3>1, BatchFollows
    <3>3. stream' \in [Members -> Streams]  BY <1>1, <1>2, <2>4
    <3>4. QED BY <1>1, <2>1, <2>2, <3>2, <3>3 DEF TeamTyped
  <2>5. QED BY <1>11, <2>3, <2>4 DEF BatchJoins
<1>12. CASE CallTimesOut
  <2>1. team' = team /\ EndsCall /\ owner' = Orphaned  BY <1>12 DEF CallTimesOut
  <2>2. owner' \in [Id -> Members \union {Nobody}]  BY <1>1, <2>1 DEF Orphaned
  <2>3. QED BY <1>1, <2>1, <2>2, CallStep, EndsCallTyped
<1>13. CASE Over
  <2>1. team' = NoTeam /\ EndsCall /\ owner' = [i \in Id |-> Nobody]  BY <1>13 DEF Over
  <2>2. QED BY <2>1, EndsCallTyped DEF TeamTyped, Progress, NoTeam
<1>14. ASSUME NEW i \in Id, TellsTeam(i) PROVE TeamTyped' /\ Progress'
  <2>1. /\ worker[i] = "reporting" /\ UNCHANGED <<call, stream>>
        /\ team' = IF owner[i] = Nobody THEN team ELSE Updated(team, owner[i], outcome[i])
        /\ owner' = [owner EXCEPT ![i] = Nobody]
    BY <1>14 DEF TellsTeam, Reports, At
  <2>2. outcome[i] \in Statuses  BY <1>2, <2>1 DEF Reportable
  <2>3. DOMAIN team' \subseteq Members /\ \A x \in DOMAIN team' : team'[x] \in Statuses
    BY <1>1, <2>1, <2>2, TeamUpdated
  <2>4. owner' \in [Id -> Members \union {Nobody}]  BY <1>1, <2>1
  <2>5. QED BY <1>1, <2>1, <2>3, <2>4 DEF TeamTyped, Progress, Through, Under
<1>15. (\E i \in Id : Work(i) \/ Waits(i)) \/ Others => UNCHANGED teamVars
  BY DEF Work, Waits, Others
<1>16. Begin => TeamTyped' /\ Progress'
  BY <1>4, <1>5, <1>6, <1>7, PlanAssumption DEF Begin, Named
<1>17. ASSUME NEW m \in Members, SpawnMember(m) PROVE TeamTyped' /\ Progress'
  <2>1. /\ stream[m] = "announcing" /\ UNCHANGED <<team, call, owner>>
        /\ stream' = [stream EXCEPT ![m] = "launched"]
    BY <1>17 DEF SpawnMember
  <2>2. CASE call.tool = "coordinate"
    <3>1. ~Through(m)  BY <2>1 DEF Through
    <3>2. stream[m] \in Under(m)  BY <2>1, <2>2, <3>1 DEF Progress
    <3>3. m \in call.bg  BY <2>1, <3>2 DEF Under
    <3>4. QED BY <1>1, <1>2, <2>1, <3>3, StreamStep
  <2>3. CASE call.tool # "coordinate"
    <3>1. stream' \in [Members -> Streams]  BY <1>1, <1>2, <2>1
    <3>2. QED BY <1>1, <2>1, <2>3, <3>1, CallStep
  <2>4. QED BY <2>2, <2>3
<1>18. QED
  BY <1>3, <1>8, <1>9, <1>10, <1>11, <1>12, <1>13, <1>14, <1>15, <1>16, <1>17 DEF Next, Starting

LEMMA TeamInvHolds == Spec => []TeamInv
<1>1. TeamInit => TeamInv
  <2> SUFFICES ASSUME TeamInit PROVE TeamInv  OBVIOUS
  <2>1. /\ team = NoTeam /\ call = NoCall /\ stream = [m \in Members |-> "waiting"]
        /\ owner = [i \in Id |-> Nobody] /\ worker = [i \in Id |-> "idle"]
    BY DEF TeamInit, Init
  <2>2. call \in Calls /\ call.tool = "none"  BY <2>1 DEF NoCall, Calls
  <2>3. DOMAIN team = {}  BY <2>1 DEF NoTeam
  <2>4. QED BY <2>1, <2>2, <2>3 DEF TeamInv, TeamTyped, Reportable, Progress, Streams
<1>2. TInv /\ TeamInv /\ [Next]_vars => TeamInv'
  <2> SUFFICES ASSUME TInv, TeamInv, [Next]_vars PROVE TeamInv'  OBVIOUS
  <2>1. Reportable'
    <3>1. CASE TaskNext  BY <3>1, ReportableKept DEF TeamInv
    <3>2. CASE UNCHANGED taskVars  BY <3>2 DEF taskVars, TeamInv, Reportable
    <3>3. QED BY <3>1, <3>2, NextIsTaskNext
  <2>2. CASE Next  BY <2>1, <2>2, TeamNextKeeps DEF TeamInv
  <2>3. CASE UNCHANGED vars
    BY <2>1, <2>3 DEF vars, teamVars, TeamInv, TeamTyped, Progress, Through, Under
  <2>4. QED BY <2>2, <2>3
<1>3. QED BY <1>1, <1>2, TInvHolds, PTL DEF Spec

\* The types of all the variables, for any plan and any limits.
THEOREM TeamTypesHold == Spec => []TypeOK
<1>1. TInv /\ TeamInv => TypeOK
  BY DEF TInv, TeamInv, TeamTyped, TypeOK, Calls
<1>2. QED BY <1>1, TInvHolds, TeamInvHolds, PTL

\* coordinate begins a workstream only when the calls for all it depends on have
\* returned: the phases respect the dependencies, whatever the plan and the size of
\* a chunk.
THEOREM DependenciesComeFirst == Spec => []DependenciesReturn
<1>1. TeamInv => DependenciesReturn
  <2> SUFFICES ASSUME TeamInv, call.tool = "coordinate",
                      NEW m \in Members, stream[m] # "waiting", NEW d \in DependsOn[m]
               PROVE  Through(d)
    BY DEF DependenciesReturn, Through
  <2>1. PICK n \in Nat : call.phase = n + 1
    <3>1. call.phase \in Nat \ {0}  BY DEF TeamInv, TeamTyped, Calls, Progress
    <3>2. call.phase - 1 \in Nat /\ call.phase = (call.phase - 1) + 1  BY <3>1
    <3>3. QED BY <3>2
  <2>2. m \in Placed[n + 1]  BY <2>1 DEF TeamInv, Progress
  <2>3. d \in Placed[n]  BY <2>2, PlacedSteps
  <2>4. d \in Named  BY PlanAssumption DEF Named
  <2>5. call.phase - 1 = n  BY <2>1
  <2>6. QED BY <2>3, <2>4, <2>5 DEF TeamInv, Progress
<1>2. QED BY <1>1, TeamInvHolds, PTL

=============================================================================
