---------------------------- MODULE MacroEngine ----------------------------
(***************************************************************************)
(* The macro engine (src/hid_bridge/macros.py).  A task is one run of a    *)
(* macro, a generator that performs one operation each time it is advanced *)
(* and yields the delay until the next (MacroSteps says which operations). *)
(* Tasks run concurrently from one heap of deadlines, and all of them      *)
(* press into one set of keys and one set of buttons, which the bridge     *)
(* merges with those of the sources (Keyboard, Mouse).                     *)
(*                                                                         *)
(* Time is a countdown: an entry of the queue holds the ticks that are     *)
(* left until its deadline, and 0 once it is due.  The queue is the heap   *)
(* in the order in which it is emptied: by deadline, then by age.          *)
(***************************************************************************)
EXTENDS Naturals, Sequences, SequencesExt

CONSTANTS
  Macro,      \* macros, and the steps a control request may bring
  Ops,        \* the operations of each
  Keys,       \* usages
  Buttons,    \* mouse buttons
  MaxStarts,  \* bound: tasks ever started
  Faults      \* may a write to a device raise an unexpected errno?

Operation ==
  [do : {"press", "release"}, what : SUBSET Keys, delays : SUBSET Nat]
    \cup [do : {"down", "up"}, what : SUBSET Buttons, delays : SUBSET Nat]
    \cup [do : {"release_all", "wait", "mouse_move", "mouse_to", "mouse_wheel",
                "raise"},
          what : {{}}, delays : SUBSET Nat]

ASSUME OpsAssumption == Ops \in [Macro -> Seq(Operation)]
ASSUME BoundsAssumption == MaxStarts \in Nat
ASSUME FaultsAssumption == Faults \in BOOLEAN

VARIABLES
  queue,      \* MacroEngine._queue
  pressed,    \* MacroEngine.pressed
  buttons,    \* MacroEngine.buttons
  running, completed, failed,  \* the counters that `status' shows
  phase,      \* "select", "due" within run_due, "down" after shutdown()
  lost        \* history: the tasks an error took out of the queue

held == <<pressed, buttons>>
counters == <<running, completed, failed>>
vars == <<queue, pressed, buttons, running, completed, failed, phase, lost>>

-----------------------------------------------------------------------------
(***************************************************************************)
(* The heap.                                                               *)
(***************************************************************************)
NewTask(m) == [macro |-> m, at |-> 1]

Entry(task, ticks) == [task |-> task, in |-> ticks]

\* Mutant of Pushed: a list instead of a heap.
PushedLast(q, entry) == { Append(q, entry) }

\* heappush: behind the entries with the same deadline.  A set, since the place
\* is found by what is around it; there is one.
Pushed(q, entry) ==
  { InsertAt(q, i, entry) : i \in
      { i \in 1..(Len(q) + 1) :
          /\ \A j \in 1..(i - 1) : q[j].in <= entry.in
          /\ \A j \in i..Len(q) : q[j].in > entry.in } }

IsDue(q) == q # <<>> /\ Head(q).in = 0

NextOp(task) == Ops[task.macro][task.at]

AtEnd(task) == task.at > Len(Ops[task.macro])

Advanced(task) == [task EXCEPT !.at = @ + 1]

-----------------------------------------------------------------------------
(***************************************************************************)
(* _advance: `rest' is the queue without the task, `live' the number of    *)
(* tasks with it.                                                          *)
(***************************************************************************)
PressedBy(op) ==
  CASE op.do = "press"       -> pressed \cup op.what
    [] op.do = "release"     -> pressed \ op.what
    [] op.do = "release_all" -> {}
    [] OTHER                 -> pressed

ButtonsBy(op) ==
  CASE op.do = "down"        -> buttons \cup op.what
    [] op.do = "up"          -> buttons \ op.what
    [] op.do = "release_all" -> {}
    [] OTHER                 -> buttons

Perform(op) == pressed' = PressedBy(op) /\ buttons' = ButtonsBy(op)

\* StopIteration
Finish(task, rest, live) ==
  /\ AtEnd(task)
  /\ queue' = rest
  /\ running' = live - 1
  /\ completed' = completed + 1
  /\ UNCHANGED <<pressed, buttons, failed, lost>>

\* Mutant of Abort: a macro that fails leaves its keys down.
AbortKeepsKeys(task, rest, live) ==
  /\ ~AtEnd(task) /\ NextOp(task).do = "raise"
  /\ queue' = rest
  /\ running' = live - 1
  /\ failed' = failed + 1
  /\ UNCHANGED <<pressed, buttons, completed, lost>>

\* Mutant of Abort: a macro that fails goes on counting as running.
AbortUncounted(task, rest, live) ==
  /\ ~AtEnd(task) /\ NextOp(task).do = "raise"
  /\ queue' = rest
  /\ running' = live
  /\ failed' = failed + 1
  /\ pressed' = {} /\ buttons' = {}
  /\ UNCHANGED <<completed, lost>>

\* MacroError: what all macros hold is released.
Abort(task, rest, live) ==
  /\ ~AtEnd(task) /\ NextOp(task).do = "raise"
  /\ queue' = rest
  /\ running' = live - 1
  /\ failed' = failed + 1
  /\ pressed' = {} /\ buttons' = {}
  /\ UNCHANGED <<completed, lost>>

\* Mutant of Yield: the task is put back where it was.
YieldAgain(task, rest, live) ==
  /\ ~AtEnd(task) /\ NextOp(task).do # "raise"
  /\ Perform(NextOp(task))
  /\ \E ticks \in NextOp(task).delays :
       queue' \in Pushed(rest, Entry(task, ticks))
  /\ running' = live
  /\ UNCHANGED <<completed, failed, lost>>

Yield(task, rest, live) ==
  /\ ~AtEnd(task) /\ NextOp(task).do # "raise"
  /\ Perform(NextOp(task))
  /\ \E ticks \in NextOp(task).delays :
       queue' \in Pushed(rest, Entry(Advanced(task), ticks))
  /\ running' = live
  /\ UNCHANGED <<completed, failed, lost>>

Advance(task, rest, live) ==
  Finish(task, rest, live) \/ Abort(task, rest, live) \/ Yield(task, rest, live)

\* The step is done, but telling the bridge raised OSError: the generator is
\* dead, and nothing puts the task back or counts it down.
Break(task, rest, live) ==
  /\ ~AtEnd(task) /\ NextOp(task).do \notin {"raise", "wait"}
  /\ Perform(NextOp(task))
  /\ queue' = rest
  /\ running' = live
  /\ lost' = Append(lost, Advanced(task))
  /\ UNCHANGED <<completed, failed>>

-----------------------------------------------------------------------------
Init ==
  /\ queue = <<>>
  /\ pressed = {} /\ buttons = {}
  /\ running = 0 /\ completed = 0 /\ failed = 0
  /\ phase = "select"
  /\ lost = <<>>

MayStart == phase = "select" /\ running + completed + failed < MaxStarts

\* start and start_steps, for a control request or a bound key: the first
\* operation is done at once.
Start(m) ==
  /\ MayStart
  /\ Advance(NewTask(m), queue, running + 1)
  /\ UNCHANGED phase

\* The same, but the first operation raises: an error reply to the client.
StartBreaks(m) ==
  /\ Faults /\ MayStart
  /\ Break(NewTask(m), queue, running + 1)
  /\ UNCHANGED phase

\* One iteration of the loop in run_due.
RunDue ==
  /\ phase # "down" /\ IsDue(queue)
  /\ Advance(Head(queue).task, Tail(queue), running)
  /\ phase' = IF IsDue(queue') THEN "due" ELSE "select"

\* A signal, or an error in run_due or in a macro that a bound key started, ends
\* the loop: shutdown() clears what the macros hold.
Shutdown ==
  /\ phase = "select" \/ (phase = "due" /\ Faults)
  /\ phase' = "down"
  /\ queue' = <<>>
  /\ pressed' = {} /\ buttons' = {}
  /\ UNCHANGED <<counters, lost>>

\* handle_control of "release_all".
ReleaseAll ==
  /\ phase = "select"
  /\ pressed' = {} /\ buttons' = {}
  /\ UNCHANGED <<queue, counters, phase, lost>>

\* Time passes.  The loop may come late.
Tick ==
  /\ phase = "select"
  /\ queue' = [i \in DOMAIN queue |->
                [queue[i] EXCEPT !.in = IF @ = 0 THEN 0 ELSE @ - 1]]
  /\ UNCHANGED <<pressed, buttons, counters, phase, lost>>

Next ==
  \/ \E m \in Macro : Start(m) \/ StartBreaks(m)
  \/ RunDue \/ Shutdown \/ ReleaseAll \/ Tick

Spec == Init /\ [][Next]_vars

\* The loop wakes up for the first deadline, and time passes.
Fairness == WF_vars(RunDue) /\ WF_vars(Tick)

FairSpec == Spec /\ Fairness

-----------------------------------------------------------------------------
(***************************************************************************)
(* Properties.                                                             *)
(***************************************************************************)
Task == { task \in [macro : Macro, at : Nat \ {0}] :
            task.at <= Len(Ops[task.macro]) + 1 }

Sorted(q) == \A i, j \in 1..Len(q) : i <= j => q[i].in <= q[j].in

\* Types; the queue is sorted by deadline, as next_deadline and run_due take
\* it to be; every task in it has an operation or its end still ahead; after
\* shutdown() nothing is left.
TypeOK ==
  /\ queue \in Seq([task : Task, in : Nat])
  /\ Sorted(queue)
  /\ pressed \subseteq Keys /\ buttons \subseteq Buttons
  /\ running \in Nat /\ completed \in Nat /\ failed \in Nat
  /\ phase \in {"select", "due", "down"}
  /\ phase = "down" => queue = <<>>
  /\ lost \in Seq(Task)

\* `running' is the number of tasks that can still be advanced, and of those
\* that an error took out of the queue: those are counted for ever.
RunningIsLive == phase # "down" => running = Len(queue) + Len(lost)

\* The keys and the buttons an operation leaves up.
KeysUp(op) ==
  CASE op.do = "release"                 -> op.what
    [] op.do \in {"release_all", "raise"} -> Keys
    [] OTHER                             -> {}

ButtonsUp(op) ==
  CASE op.do = "up"                      -> op.what
    [] op.do \in {"release_all", "raise"} -> Buttons
    [] OTHER                             -> {}

\* What the operations of macro m from number i on bring up.
KeysUpFrom(m, i) ==
  UNION { KeysUp(Ops[m][j]) : j \in { j \in DOMAIN Ops[m] : j >= i } }

ButtonsUpFrom(m, i) ==
  UNION { ButtonsUp(Ops[m][j]) : j \in { j \in DOMAIN Ops[m] : j >= i } }

\* What macro m means to leave down: `press' and `mouse down' without a
\* release after it.
KeysLeft(m) ==
  UNION { Ops[m][i].what \ KeysUpFrom(m, i + 1) :
          i \in { i \in DOMAIN Ops[m] : Ops[m][i].do = "press" } }

ButtonsLeft(m) ==
  UNION { Ops[m][i].what \ ButtonsUpFrom(m, i + 1) :
          i \in { i \in DOMAIN Ops[m] : Ops[m][i].do = "down" } }

Pending == { queue[i].task : i \in DOMAIN queue }
             \cup { lost[i] : i \in DOMAIN lost }

KeysAreOwned ==
  \A key \in pressed :
    \/ \E task \in Pending : key \in KeysUpFrom(task.macro, task.at)
    \/ \E m \in Macro : key \in KeysLeft(m)

ButtonsAreOwned ==
  \A button \in buttons :
    \/ \E task \in Pending : button \in ButtonsUpFrom(task.macro, task.at)
    \/ \E m \in Macro : button \in ButtonsLeft(m)

\* A key or button that is down has a task that will bring it up, had one that
\* an error took away, or a macro left it down on purpose: whatever macros run
\* at the same time and release what others hold.
HeldIsOwned == KeysAreOwned /\ ButtonsAreOwned

\* Every task comes to its end, also those that wait, nest, or start with no
\* delay: in the end the queue stays empty.
AllEnd == <>[](queue = <<>>)

=============================================================================
