-------------------------- MODULE MacroEngineProofs --------------------------
(***************************************************************************)
(* For any macros, keys, buttons and delays: the tasks in the heap, the    *)
(* count of those that run, and who brings up what is held (MacroEngine).  *)
(***************************************************************************)
EXTENDS MacroEngine, SequenceLemmas

QEntry == [task : Task, in : Nat]

TasksOf(q) == { q[i].task : i \in 1..Len(q) }

-----------------------------------------------------------------------------
(***************************************************************************)
(* The heap.                                                               *)
(***************************************************************************)
\* What heappush returns holds the entries there were and the new one, in order.
LEMMA PushedFacts ==
  ASSUME NEW q \in Seq(QEntry), Sorted(q), NEW e \in QEntry,
         NEW r \in Pushed(q, e)
  PROVE  /\ r \in Seq(QEntry) /\ Len(r) = Len(q) + 1
         /\ Sorted(r)
         /\ TasksOf(r) = TasksOf(q) \cup {e.task}
<1>1. PICK i \in 1..(Len(q) + 1) :
        /\ r = InsertAt(q, i, e)
        /\ \A j \in 1..(i - 1) : q[j].in <= e.in
        /\ \A j \in i..Len(q) : q[j].in > e.in
  BY DEF Pushed
<1>2. /\ r \in Seq(QEntry) /\ Len(r) = Len(q) + 1
      /\ r[i] = e
      /\ \A j \in 1..(i - 1) : r[j] = q[j]
      /\ \A j \in i..Len(q) : r[j + 1] = q[j]
  BY <1>1, InsertFacts
<1>3. /\ \A j \in 1..Len(q) : q[j].in \in Nat
      /\ Len(q) \in Nat /\ i \in Nat /\ e.in \in Nat
  <2>1. \A x \in QEntry : x.in \in Nat
    BY DEF QEntry
  <2>2. QED
    BY <2>1
<1>4. Sorted(r)
  <2>1. SUFFICES ASSUME NEW j \in 1..Len(r), NEW k \in 1..Len(r), j <= k
                 PROVE  r[j].in <= r[k].in
    BY DEF Sorted
  <2>2. CASE k < i
    <3>1. /\ j \in 1..(i - 1) /\ k \in 1..(i - 1)
          /\ j \in 1..Len(q) /\ k \in 1..Len(q)
      BY <1>3, <2>1, <2>2
    <3>2. r[j] = q[j] /\ r[k] = q[k]
      BY <1>2, <3>1
    <3>3. QED
      BY <2>1, <3>1, <3>2 DEF Sorted
  <2>3. CASE k = i
    <3>1. CASE j = i
      BY <1>2, <1>3, <2>3, <3>1
    <3>2. CASE j # i
      <4>1. j \in 1..(i - 1)
        BY <1>3, <2>1, <2>3, <3>2
      <4>2. r[j] = q[j] /\ q[j].in <= e.in /\ r[k] = e
        BY <1>1, <1>2, <2>3, <4>1
      <4>3. QED
        BY <4>2
    <3>3. QED
      BY <3>1, <3>2
  <2>4. CASE k > i /\ j < i
    <3>1. /\ k - 1 \in i..Len(q) /\ k - 1 \in 1..Len(q) /\ (k - 1) + 1 = k
          /\ j \in 1..(i - 1) /\ j \in 1..Len(q) /\ j <= k - 1
      BY <1>2, <1>3, <2>1, <2>4
    <3>2. r[(k - 1) + 1] = q[k - 1] /\ r[j] = q[j]
      BY <1>2, <3>1
    <3>3. QED
      BY <3>1, <3>2 DEF Sorted
  <2>5. CASE k > i /\ j = i
    <3>1. k - 1 \in i..Len(q) /\ k - 1 \in 1..Len(q) /\ (k - 1) + 1 = k
      BY <1>2, <1>3, <2>5
    <3>2. r[(k - 1) + 1] = q[k - 1] /\ r[j] = e /\ q[k - 1].in > e.in
      BY <1>1, <1>2, <2>5, <3>1
    <3>3. QED
      BY <1>3, <3>1, <3>2
  <2>6. CASE k > i /\ j > i
    <3>1. r[k] = q[k - 1] /\ r[j] = q[j - 1] /\ k - 1 \in 1..Len(q)
          /\ j - 1 \in 1..Len(q) /\ j - 1 <= k - 1
      <4>1. k - 1 \in i..Len(q) /\ j - 1 \in i..Len(q) /\ j - 1 <= k - 1
            /\ (k - 1) + 1 = k /\ (j - 1) + 1 = j /\ i >= 1
        BY <1>2, <1>3, <2>1, <2>6
      <4>2. r[(k - 1) + 1] = q[k - 1] /\ r[(j - 1) + 1] = q[j - 1]
        BY <1>2, <4>1
      <4>3. QED
        BY <1>3, <4>1, <4>2
    <3>2. QED
      BY <3>1 DEF Sorted
  <2>7. QED
    BY <2>2, <2>3, <2>4, <2>5, <2>6, <1>2, <1>3
<1>5. TasksOf(r) = TasksOf(q) \cup {e.task}
  <2>1. ASSUME NEW j \in 1..Len(r)
        PROVE  r[j].task \in TasksOf(q) \cup {e.task}
    <3>1. \/ r[j] = e
          \/ r[j] = q[j] /\ j \in 1..Len(q)
          \/ r[j] = q[j - 1] /\ j - 1 \in 1..Len(q)
      <4>1. j \in Nat /\ 1 <= j /\ j <= Len(q) + 1
        BY <1>2, <1>3
      <4>2. CASE j < i
        BY <1>2, <1>3, <4>1, <4>2
      <4>3. CASE j >= i
        BY <1>2, <1>3, <4>1, <4>3
      <4>4. QED
        BY <1>3, <4>1, <4>2, <4>3
    <3>2. QED
      BY <3>1 DEF TasksOf
  <2>2. e.task \in TasksOf(r)
    BY <1>2, <1>3 DEF TasksOf
  <2>3. ASSUME NEW j \in 1..Len(q)
        PROVE  q[j].task \in TasksOf(r)
    <3>1. \/ r[j] = q[j] /\ j \in 1..Len(r)
          \/ r[j + 1] = q[j] /\ j + 1 \in 1..Len(r)
      BY <1>2, <1>3
    <3>2. QED
      BY <3>1 DEF TasksOf
  <2>4. QED
    BY <2>1, <2>2, <2>3 DEF TasksOf
<1>6. QED
  BY <1>2, <1>4, <1>5

\* Taking the first entry.
LEMMA PoppedFacts ==
  ASSUME NEW q \in Seq(QEntry), q # <<>>, Sorted(q)
  PROVE  /\ Head(q).task \in Task
         /\ Tail(q) \in Seq(QEntry) /\ Sorted(Tail(q))
         /\ Len(q) = Len(Tail(q)) + 1
         /\ TasksOf(q) = TasksOf(Tail(q)) \cup {Head(q).task}
<1>1. /\ Head(q) = q[1] /\ q[1] \in QEntry /\ Tail(q) \in Seq(QEntry)
      /\ Len(q) = Len(Tail(q)) + 1 /\ Len(q) \in Nat
      /\ \A i \in 1..Len(Tail(q)) : Tail(q)[i] = q[i + 1]
  BY HeadTailProperties
<1>2. Sorted(Tail(q))
  BY <1>1 DEF Sorted
<1>3. TasksOf(q) = TasksOf(Tail(q)) \cup {Head(q).task}
  <2>1. ASSUME NEW i \in 1..Len(q)
        PROVE  q[i].task \in TasksOf(Tail(q)) \cup {Head(q).task}
    <3>1. \/ i = 1
          \/ i - 1 \in 1..Len(Tail(q)) /\ Tail(q)[i - 1] = q[i]
      <4>1. i \in Nat /\ 1 <= i /\ i <= Len(Tail(q)) + 1 /\ Len(Tail(q)) \in Nat
        BY <1>1
      <4>2. CASE i # 1
        <5>1. i - 1 \in 1..Len(Tail(q))
          BY <4>1, <4>2
        <5>2. Tail(q)[i - 1] = q[(i - 1) + 1]
          BY <1>1, <5>1
        <5>3. QED
          BY <4>1, <5>1, <5>2
      <4>3. QED
        BY <4>2
    <3>2. QED
      BY <1>1, <3>1 DEF TasksOf
  <2>2. ASSUME NEW i \in 1..Len(Tail(q))
        PROVE  Tail(q)[i].task \in TasksOf(q)
    <3>1. i + 1 \in 1..Len(q) /\ Tail(q)[i] = q[i + 1]
      BY <1>1
    <3>2. QED
      BY <3>1 DEF TasksOf
  <2>3. Head(q).task \in TasksOf(q)
    BY <1>1 DEF TasksOf
  <2>4. QED
    BY <1>1, <2>1, <2>2, <2>3 DEF TasksOf
<1>4. QED
  BY <1>1, <1>2, <1>3 DEF QEntry

-----------------------------------------------------------------------------
(***************************************************************************)
(* Operations.                                                             *)
(***************************************************************************)
LEMMA OpFacts ==
  ASSUME NEW task \in Task, ~AtEnd(task)
  PROVE  /\ task.macro \in Macro /\ task.at \in DOMAIN Ops[task.macro]
         /\ NextOp(task) = Ops[task.macro][task.at]
         /\ NextOp(task) \in Operation
         /\ Advanced(task) \in Task
         /\ Advanced(task).macro = task.macro
         /\ Advanced(task).at = task.at + 1
<1>1. /\ task \in [macro : Macro, at : Nat \ {0}]
      /\ task.at <= Len(Ops[task.macro])
  BY DEF Task, AtEnd
<1>2. Ops[task.macro] \in Seq(Operation) /\ Len(Ops[task.macro]) \in Nat
  BY <1>1, OpsAssumption
<1>3. task.at \in 1..Len(Ops[task.macro])
  BY <1>1, <1>2
<1>4. task.at \in DOMAIN Ops[task.macro] /\ Ops[task.macro][task.at] \in Operation
  BY <1>2, <1>3
<1>5. Advanced(task) = [macro |-> task.macro, at |-> task.at + 1]
  BY <1>1 DEF Advanced
<1>6. Advanced(task) \in Task
  BY <1>1, <1>2, <1>5 DEF Task
<1>7. QED
  BY <1>1, <1>4, <1>5, <1>6 DEF NextOp

LEMMA NewTaskFacts ==
  ASSUME NEW m \in Macro
  PROVE  NewTask(m) \in Task
<1>1. Len(Ops[m]) \in Nat
  BY OpsAssumption
<1>2. QED
  BY <1>1 DEF NewTask, Task

LEMMA PerformFacts ==
  ASSUME NEW op \in Operation, Perform(op),
         pressed \subseteq Keys, buttons \subseteq Buttons
  PROVE  pressed' \subseteq Keys /\ buttons' \subseteq Buttons
  BY DEF Perform, PressedBy, ButtonsBy, Operation

-----------------------------------------------------------------------------
(***************************************************************************)
(* A task is advanced, or breaks.                                          *)
(***************************************************************************)
Steps(task, rest, live) == Advance(task, rest, live) \/ Break(task, rest, live)

LEMMA StepTypes ==
  ASSUME TypeOK, NEW task \in Task,
         NEW rest \in Seq(QEntry), Sorted(rest),
         NEW live, live = Len(rest) + Len(lost) + 1,
         Steps(task, rest, live)
  PROVE  /\ queue' \in Seq(QEntry) /\ Sorted(queue')
         /\ pressed' \subseteq Keys /\ buttons' \subseteq Buttons
         /\ running' \in Nat /\ completed' \in Nat /\ failed' \in Nat
         /\ lost' \in Seq(Task)
         /\ running' = Len(queue') + Len(lost')
<1>1. /\ pressed \subseteq Keys /\ buttons \subseteq Buttons
      /\ completed \in Nat /\ failed \in Nat /\ lost \in Seq(Task)
      /\ Len(lost) \in Nat /\ Len(rest) \in Nat
  BY DEF TypeOK
<1>2. CASE Finish(task, rest, live)
  BY <1>1, <1>2 DEF Finish
<1>3. CASE Abort(task, rest, live)
  BY <1>1, <1>3 DEF Abort
<1>4. CASE Yield(task, rest, live)
  <2>1. PICK ticks \in NextOp(task).delays :
          queue' \in Pushed(rest, Entry(Advanced(task), ticks))
    BY <1>4 DEF Yield
  <2>2. NextOp(task) \in Operation /\ Advanced(task) \in Task
    BY <1>4, OpFacts DEF Yield
  <2>3. ticks \in Nat
    BY <2>1, <2>2 DEF Operation
  <2>4. Entry(Advanced(task), ticks) \in QEntry
    BY <2>2, <2>3 DEF Entry, QEntry
  <2>5. queue' \in Seq(QEntry) /\ Sorted(queue') /\ Len(queue') = Len(rest) + 1
    BY <2>1, <2>4, PushedFacts
  <2>6. pressed' \subseteq Keys /\ buttons' \subseteq Buttons
    BY <1>1, <1>4, <2>2, PerformFacts DEF Yield
  <2>7. QED
    BY <1>1, <1>4, <2>5, <2>6 DEF Yield
<1>5. CASE Break(task, rest, live)
  <2>1. NextOp(task) \in Operation /\ Advanced(task) \in Task
    BY <1>5, OpFacts DEF Break
  <2>2. pressed' \subseteq Keys /\ buttons' \subseteq Buttons
    BY <1>1, <1>5, <2>1, PerformFacts DEF Break
  <2>3. lost' \in Seq(Task) /\ Len(lost') = Len(lost) + 1
    BY <1>1, <1>5, <2>1 DEF Break
  <2>4. QED
    BY <1>1, <1>5, <2>2, <2>3 DEF Break
<1>6. QED
  BY <1>2, <1>3, <1>4, <1>5 DEF Steps, Advance

-----------------------------------------------------------------------------
(***************************************************************************)
(* Types, and the number of tasks that run.                                *)
(***************************************************************************)
Counted == TypeOK /\ RunningIsLive

LEMMA InitCounted == Init => Counted
<1>1. <<>> \in Seq(QEntry) /\ <<>> \in Seq(Task) /\ Len(<<>>) = 0
  OBVIOUS
<1>2. QED
  BY <1>1 DEF Init, Counted, TypeOK, RunningIsLive, QEntry, Sorted

\* Time passes for every entry.
LEMMA TickFacts ==
  ASSUME Counted, Tick
  PROVE  /\ queue' \in Seq(QEntry) /\ Sorted(queue') /\ Len(queue') = Len(queue)
         /\ TasksOf(queue') = TasksOf(queue)
<1> DEFINE later(e) == [e EXCEPT !.in = IF @ = 0 THEN 0 ELSE @ - 1]
<1>1. queue \in Seq(QEntry) /\ Sorted(queue) /\ Len(queue) \in Nat
      /\ DOMAIN queue = 1..Len(queue)
  BY DEF Counted, TypeOK, QEntry
<1>2. queue' = [i \in 1..Len(queue) |-> later(queue[i])]
  BY <1>1 DEF Tick
<1>3. \A e \in QEntry : /\ later(e) \in QEntry /\ later(e).task = e.task
                        /\ e.in \in Nat
                        /\ later(e).in = IF e.in = 0 THEN 0 ELSE e.in - 1
  BY DEF QEntry
<1> HIDE DEF later
<1>4. queue' \in Seq(QEntry) /\ Len(queue') = Len(queue)
  <2>1. \A i \in 1..Len(queue) : queue[i] \in QEntry
    BY <1>1
  <2>2. queue' \in [1..Len(queue) -> QEntry]
    BY <1>2, <1>3, <2>1
  <2>3. QED
    BY <1>1, <2>2
<1>5. \A i \in 1..Len(queue) : /\ queue[i].in \in Nat
                               /\ queue'[i].task = queue[i].task
                               /\ queue'[i].in = IF queue[i].in = 0 THEN 0
                                                ELSE queue[i].in - 1
  BY <1>1, <1>2, <1>3
<1>6. Sorted(queue')
  <2> SUFFICES ASSUME NEW i \in 1..Len(queue), NEW j \in 1..Len(queue), i <= j
               PROVE  queue'[i].in <= queue'[j].in
    BY <1>4 DEF Sorted
  <2>1. queue[i].in <= queue[j].in
    BY <1>1 DEF Sorted
  <2>2. /\ queue[i].in \in Nat /\ queue[j].in \in Nat
        /\ queue'[i].in = IF queue[i].in = 0 THEN 0 ELSE queue[i].in - 1
        /\ queue'[j].in = IF queue[j].in = 0 THEN 0 ELSE queue[j].in - 1
    BY <1>5
  <2>3. QED
    BY <2>1, <2>2
<1>7. TasksOf(queue') = TasksOf(queue)
  BY <1>4, <1>5 DEF TasksOf
<1>8. QED
  BY <1>4, <1>6, <1>7

LEMMA NextCounted == Counted /\ [Next]_vars => Counted'
<1> SUFFICES ASSUME Counted, [Next]_vars
             PROVE  Counted'
  OBVIOUS
<1> USE DEF Counted
<1>1. /\ queue \in Seq(QEntry) /\ Sorted(queue) /\ Len(queue) \in Nat
      /\ lost \in Seq(Task) /\ Len(lost) \in Nat
  BY DEF TypeOK, QEntry
\* What Start, StartBreaks and RunDue have in common.
<1>2. ASSUME NEW task \in Task, NEW rest \in Seq(QEntry), Sorted(rest),
             NEW live, live = Len(rest) + Len(lost) + 1,
             Steps(task, rest, live), phase' \in {"select", "due"}
      PROVE  Counted'
  BY <1>2, StepTypes DEF TypeOK, RunningIsLive, QEntry
<1>3. ASSUME NEW m \in Macro, Start(m) \/ StartBreaks(m)
      PROVE  Counted'
  <2>1. phase = "select" /\ phase' = "select"
    BY <1>3 DEF Start, StartBreaks, MayStart
  <2>2. Steps(NewTask(m), queue, running + 1)
    BY <1>3 DEF Start, StartBreaks, Steps
  <2>3. running + 1 = Len(queue) + Len(lost) + 1
    BY <1>1, <2>1 DEF RunningIsLive
  <2>4. QED
    BY <1>1, <1>2, <2>1, <2>2, <2>3, NewTaskFacts
<1>4. ASSUME RunDue PROVE Counted'
  <2>1. phase # "down" /\ queue # <<>> /\ phase' \in {"select", "due"}
        /\ Steps(Head(queue).task, Tail(queue), running)
    BY <1>4 DEF RunDue, IsDue, Steps
  <2>2. /\ Head(queue).task \in Task
        /\ Tail(queue) \in Seq(QEntry) /\ Sorted(Tail(queue))
        /\ Len(queue) = Len(Tail(queue)) + 1
    BY <1>1, <2>1, PoppedFacts
  <2>3. running = Len(Tail(queue)) + Len(lost) + 1
    BY <1>1, <2>1, <2>2 DEF RunningIsLive
  <2>4. QED
    BY <1>2, <2>1, <2>2, <2>3
<1>5. ASSUME Shutdown PROVE Counted'
  <2>1. <<>> \in Seq(QEntry) /\ Sorted(<<>>)
    BY DEF Sorted
  <2>2. QED
    BY <1>5, <2>1 DEF Shutdown, counters, TypeOK, RunningIsLive, QEntry
<1>6. ASSUME ReleaseAll PROVE Counted'
  BY <1>6 DEF ReleaseAll, counters, TypeOK, RunningIsLive
<1>7. ASSUME Tick PROVE Counted'
  BY <1>7, TickFacts DEF Tick, counters, TypeOK, RunningIsLive, QEntry
<1>8. ASSUME UNCHANGED vars PROVE Counted'
  BY <1>8 DEF vars, TypeOK, RunningIsLive
<1>9. QED
  BY <1>3, <1>4, <1>5, <1>6, <1>7, <1>8 DEF Next

(***************************************************************************)
(* The heap is sorted, and every variable keeps its type.                  *)
(***************************************************************************)
THEOREM TypeCorrect == Spec => []TypeOK
<1>1. Counted => TypeOK
  BY DEF Counted
<1>2. QED
  BY <1>1, InitCounted, NextCounted, PTL DEF Spec

(***************************************************************************)
(* `running' is what is in the heap and what an error took out of it.      *)
(***************************************************************************)
THEOREM CountCorrect == Spec => []RunningIsLive
<1>1. Counted => RunningIsLive
  BY DEF Counted
<1>2. QED
  BY <1>1, InitCounted, NextCounted, PTL DEF Spec

-----------------------------------------------------------------------------
(***************************************************************************)
(* Who brings up what is held.  An operation that leaves the future of a   *)
(* task brings up itself what it was to bring up.                          *)
(***************************************************************************)
LEMMA UpFromHere ==
  ASSUME NEW m \in Macro, NEW i \in DOMAIN Ops[m]
  PROVE  /\ KeysUpFrom(m, i) \subseteq KeysUp(Ops[m][i]) \cup KeysUpFrom(m, i + 1)
         /\ ButtonsUpFrom(m, i) \subseteq
              ButtonsUp(Ops[m][i]) \cup ButtonsUpFrom(m, i + 1)
<1>1. \A j \in DOMAIN Ops[m] : j >= i => j = i \/ j >= i + 1
  BY OpsAssumption
<1>2. QED
  BY <1>1 DEF KeysUpFrom, ButtonsUpFrom

LEMMA UpFromEnd ==
  ASSUME NEW task \in Task, AtEnd(task)
  PROVE  /\ KeysUpFrom(task.macro, task.at) = {}
         /\ ButtonsUpFrom(task.macro, task.at) = {}
<1>1. /\ Ops[task.macro] \in Seq(Operation) /\ task.at \in Nat
      /\ task.at > Len(Ops[task.macro])
  BY OpsAssumption DEF Task, AtEnd
<1>2. { j \in DOMAIN Ops[task.macro] : j >= task.at } = {}
  BY <1>1
<1>3. QED
  BY <1>2 DEF KeysUpFrom, ButtonsUpFrom

KeyOwned(key, tasks) ==
  \/ \E task \in tasks : key \in KeysUpFrom(task.macro, task.at)
  \/ \E m \in Macro : key \in KeysLeft(m)

ButtonOwned(button, tasks) ==
  \/ \E task \in tasks : button \in ButtonsUpFrom(task.macro, task.at)
  \/ \E m \in Macro : button \in ButtonsLeft(m)

LostTasks == { lost[i] : i \in 1..Len(lost) }

LEMMA HeldIsOwnedMeans ==
  ASSUME Counted
  PROVE  HeldIsOwned <=>
           /\ \A key \in pressed : KeyOwned(key, TasksOf(queue) \cup LostTasks)
           /\ \A button \in buttons :
                ButtonOwned(button, TasksOf(queue) \cup LostTasks)
<1>1. DOMAIN queue = 1..Len(queue) /\ DOMAIN lost = 1..Len(lost)
  BY DEF Counted, TypeOK
<1>2. Pending = TasksOf(queue) \cup LostTasks
  BY <1>1 DEF Pending, TasksOf, LostTasks
<1>3. QED
  BY <1>2 DEF HeldIsOwned, KeysAreOwned, ButtonsAreOwned, KeyOwned, ButtonOwned

\* A task that has done an operation owns what it owned before and is still
\* down, and what it has pressed.
LEMMA PerformOwns ==
  ASSUME NEW task \in Task, ~AtEnd(task), NextOp(task).do # "raise",
         Perform(NextOp(task)), NEW others,
         pressed \subseteq Keys, buttons \subseteq Buttons,
         \A key \in pressed : KeyOwned(key, others \cup {task}),
         \A button \in buttons : ButtonOwned(button, others \cup {task})
  PROVE  /\ \A key \in pressed' : KeyOwned(key, others \cup {Advanced(task)})
         /\ \A button \in buttons' :
              ButtonOwned(button, others \cup {Advanced(task)})
<1> DEFINE m == task.macro
           i == task.at
           op == Ops[m][i]
<1>1. /\ m \in Macro /\ i \in DOMAIN Ops[m] /\ op = NextOp(task)
      /\ op \in Operation
      /\ Advanced(task).macro = m /\ Advanced(task).at = i + 1
  BY OpFacts
<1>2. /\ KeysUpFrom(m, i) \subseteq KeysUp(op) \cup KeysUpFrom(m, i + 1)
      /\ ButtonsUpFrom(m, i) \subseteq ButtonsUp(op) \cup ButtonsUpFrom(m, i + 1)
  BY <1>1, UpFromHere
<1> HIDE DEF m, i
<1>3. ASSUME NEW key \in pressed'
      PROVE  KeyOwned(key, others \cup {Advanced(task)})
  <2>1. CASE op.do = "press" /\ key \in op.what
    <3>1. key \in KeysUpFrom(m, i + 1) \/ key \in KeysLeft(m)
      BY <1>1, <2>1 DEF KeysLeft
    <3>2. QED
      BY <1>1, <3>1 DEF KeyOwned
  <2>2. CASE ~(op.do = "press" /\ key \in op.what)
    <3>1. key \in pressed /\ key \notin KeysUp(op)
      BY <1>1, <1>3, <2>2 DEF Perform, PressedBy, KeysUp
    <3>2. KeyOwned(key, others \cup {task})
      BY <3>1
    <3>3. QED
      BY <1>1, <1>2, <3>1, <3>2 DEF KeyOwned, m, i
  <2>3. QED
    BY <2>1, <2>2
<1>4. ASSUME NEW button \in buttons'
      PROVE  ButtonOwned(button, others \cup {Advanced(task)})
  <2>1. CASE op.do = "down" /\ button \in op.what
    <3>1. button \in ButtonsUpFrom(m, i + 1) \/ button \in ButtonsLeft(m)
      BY <1>1, <2>1 DEF ButtonsLeft
    <3>2. QED
      BY <1>1, <3>1 DEF ButtonOwned
  <2>2. CASE ~(op.do = "down" /\ button \in op.what)
    <3>1. button \in buttons /\ button \notin ButtonsUp(op)
      BY <1>1, <1>4, <2>2 DEF Perform, ButtonsBy, ButtonsUp
    <3>2. ButtonOwned(button, others \cup {task})
      BY <3>1
    <3>3. QED
      BY <1>1, <1>2, <3>1, <3>2 DEF ButtonOwned, m, i
  <2>3. QED
    BY <2>1, <2>2
<1>5. QED
  BY <1>3, <1>4

\* Everything that is down after a task was advanced or broken has an owner.
LEMMA StepOwns ==
  ASSUME Counted, NEW task \in Task,
         NEW rest \in Seq(QEntry), Sorted(rest), NEW live,
         Steps(task, rest, live),
         \A key \in pressed :
           KeyOwned(key, TasksOf(rest) \cup LostTasks \cup {task}),
         \A button \in buttons :
           ButtonOwned(button, TasksOf(rest) \cup LostTasks \cup {task})
  PROVE  /\ \A key \in pressed' : KeyOwned(key, TasksOf(queue') \cup LostTasks')
         /\ \A button \in buttons' :
              ButtonOwned(button, TasksOf(queue') \cup LostTasks')
<1>1. /\ pressed \subseteq Keys /\ buttons \subseteq Buttons /\ lost \in Seq(Task)
      /\ Len(lost) \in Nat
  BY DEF Counted, TypeOK
<1>2. CASE Finish(task, rest, live)
  <2>1. /\ queue' = rest /\ pressed' = pressed /\ buttons' = buttons
        /\ LostTasks' = LostTasks /\ AtEnd(task)
    BY <1>2 DEF Finish, LostTasks
  <2>2. /\ KeysUpFrom(task.macro, task.at) = {}
        /\ ButtonsUpFrom(task.macro, task.at) = {}
    BY <2>1, UpFromEnd
  <2>3. QED
    BY <2>1, <2>2 DEF KeyOwned, ButtonOwned
<1>3. CASE Abort(task, rest, live)
  BY <1>3 DEF Abort
<1>4. CASE Yield(task, rest, live)
  <2>1. /\ ~AtEnd(task) /\ NextOp(task).do # "raise" /\ Perform(NextOp(task))
        /\ LostTasks' = LostTasks
    BY <1>4 DEF Yield, LostTasks
  <2>2. TasksOf(queue') = TasksOf(rest) \cup {Advanced(task)}
    <3>1. PICK ticks \in NextOp(task).delays :
            queue' \in Pushed(rest, Entry(Advanced(task), ticks))
      BY <1>4 DEF Yield
    <3>2. NextOp(task) \in Operation /\ Advanced(task) \in Task
      BY <2>1, OpFacts
    <3>3. ticks \in Nat
      BY <3>1, <3>2 DEF Operation
    <3>4. /\ Entry(Advanced(task), ticks) \in QEntry
          /\ Entry(Advanced(task), ticks).task = Advanced(task)
      BY <3>2, <3>3 DEF Entry, QEntry
    <3>5. QED
      BY <3>1, <3>4, PushedFacts
  <2>3. /\ \A key \in pressed' :
             KeyOwned(key, TasksOf(rest) \cup LostTasks \cup {Advanced(task)})
        /\ \A button \in buttons' :
             ButtonOwned(button, TasksOf(rest) \cup LostTasks \cup {Advanced(task)})
    BY <1>1, <2>1, PerformOwns
  <2>4. QED
    BY <2>1, <2>2, <2>3 DEF KeyOwned, ButtonOwned
<1>5. CASE Break(task, rest, live)
  <2>1. /\ ~AtEnd(task) /\ NextOp(task).do # "raise" /\ Perform(NextOp(task))
        /\ queue' = rest /\ lost' = Append(lost, Advanced(task))
    BY <1>5 DEF Break
  <2>2. Advanced(task) \in Task
    BY <2>1, OpFacts
  <2>3. LostTasks \cup {Advanced(task)} \subseteq LostTasks'
    <3>1. /\ Len(lost') = Len(lost) + 1 /\ lost'[Len(lost) + 1] = Advanced(task)
          /\ \A i \in 1..Len(lost) : lost'[i] = lost[i]
      BY <1>1, <2>1, <2>2, AppendProperties
    <3>2. QED
      BY <1>1, <3>1 DEF LostTasks
  <2>4. /\ \A key \in pressed' :
             KeyOwned(key, TasksOf(rest) \cup LostTasks \cup {Advanced(task)})
        /\ \A button \in buttons' :
             ButtonOwned(button, TasksOf(rest) \cup LostTasks \cup {Advanced(task)})
    BY <1>1, <2>1, PerformOwns
  <2>5. QED
    BY <2>1, <2>3, <2>4 DEF KeyOwned, ButtonOwned
<1>6. QED
  BY <1>2, <1>3, <1>4, <1>5 DEF Steps, Advance

LEMMA InitOwned == Init => HeldIsOwned
  BY DEF Init, HeldIsOwned, KeysAreOwned, ButtonsAreOwned

LEMMA NextOwned ==
  ASSUME Counted, Counted', HeldIsOwned, [Next]_vars
  PROVE  HeldIsOwned'
<1> DEFINE Owned == /\ \A key \in pressed :
                         KeyOwned(key, TasksOf(queue) \cup LostTasks)
                    /\ \A button \in buttons :
                         ButtonOwned(button, TasksOf(queue) \cup LostTasks)
<1>1. Owned
  BY HeldIsOwnedMeans
<1>2. Owned' => HeldIsOwned'
  <2>1. DOMAIN queue' = 1..Len(queue') /\ DOMAIN lost' = 1..Len(lost')
    BY DEF Counted, TypeOK
  <2>2. Pending' = TasksOf(queue)' \cup LostTasks'
    BY <2>1 DEF Pending, TasksOf, LostTasks
  <2>3. QED
    BY <2>2 DEF HeldIsOwned, KeysAreOwned, ButtonsAreOwned, KeyOwned, ButtonOwned
<1>3. /\ queue \in Seq(QEntry) /\ Sorted(queue)
  BY DEF Counted, TypeOK, QEntry
<1>4. ASSUME NEW m \in Macro, Start(m) \/ StartBreaks(m)
      PROVE  Owned'
  <2>1. Steps(NewTask(m), queue, running + 1) /\ NewTask(m) \in Task
    BY <1>4, NewTaskFacts DEF Start, StartBreaks, Steps
  <2>2. /\ \A key \in pressed :
             KeyOwned(key, TasksOf(queue) \cup LostTasks \cup {NewTask(m)})
        /\ \A button \in buttons :
             ButtonOwned(button, TasksOf(queue) \cup LostTasks \cup {NewTask(m)})
    BY <1>1 DEF KeyOwned, ButtonOwned
  <2>3. QED
    BY <1>3, <2>1, <2>2, StepOwns
<1>5. ASSUME RunDue PROVE Owned'
  <2>1. queue # <<>> /\ Steps(Head(queue).task, Tail(queue), running)
    BY <1>5 DEF RunDue, IsDue, Steps
  <2>2. /\ Head(queue).task \in Task
        /\ Tail(queue) \in Seq(QEntry) /\ Sorted(Tail(queue))
        /\ TasksOf(queue) = TasksOf(Tail(queue)) \cup {Head(queue).task}
    BY <1>3, <2>1, PoppedFacts
  <2>3. /\ \A key \in pressed :
             KeyOwned(key,
               TasksOf(Tail(queue)) \cup LostTasks \cup {Head(queue).task})
        /\ \A button \in buttons :
             ButtonOwned(button,
               TasksOf(Tail(queue)) \cup LostTasks \cup {Head(queue).task})
    BY <1>1, <2>2 DEF KeyOwned, ButtonOwned
  <2>4. QED
    BY <2>1, <2>2, <2>3, StepOwns
<1>6. ASSUME Shutdown \/ ReleaseAll PROVE Owned'
  BY <1>6 DEF Shutdown, ReleaseAll
<1>7. ASSUME Tick PROVE Owned'
  <2>1. TasksOf(queue') = TasksOf(queue)
    BY <1>7, TickFacts
  <2>2. QED
    BY <1>1, <1>7, <2>1 DEF Tick, LostTasks
<1>8. ASSUME UNCHANGED vars PROVE Owned'
  BY <1>1, <1>8 DEF vars, TasksOf, LostTasks
<1>9. QED
  <2> HIDE DEF Owned
  <2>1. QED
    BY <1>2, <1>4, <1>5, <1>6, <1>7, <1>8 DEF Next

(***************************************************************************)
(* Whatever macros run at the same time: a key or button that is down has  *)
(* a task that will bring it up, or was left down on purpose.              *)
(***************************************************************************)
THEOREM HeldCorrect == Spec => []HeldIsOwned
<1>1. Init => Counted /\ HeldIsOwned
  BY InitCounted, InitOwned
<1>2. Counted /\ HeldIsOwned /\ [Next]_vars => (Counted /\ HeldIsOwned)'
  BY NextCounted, NextOwned
<1>3. QED
  BY <1>1, <1>2, PTL DEF Spec

=============================================================================
