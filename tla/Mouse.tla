------------------------------- MODULE Mouse -------------------------------
(***************************************************************************)
(* The mouse path of the bridge (src/hid_bridge/bridge.py): the buttons    *)
(* that sources and macros hold down, the queue of button states and the   *)
(* motion counters the host has not been given yet, /dev/hidg1, and the    *)
(* host.                                                                   *)
(*                                                                         *)
(* As in Keyboard, a handler is an action, followed by one step for each   *)
(* iteration of the loop in _pump_mouse; `calls' is what it has left.      *)
(*                                                                         *)
(* The keyboard of the same gadget appears as far as the mouse can tell:   *)
(* kbdAway is kbd.host_disabled, since only /dev/hidg0 is ever read, and   *)
(* KeyboardRefused and KeyboardSent are what its writes do to the mouse.   *)
(***************************************************************************)
EXTENDS Reports, Hidg, Sequences, SequencesExt

CONSTANTS
  Sources,       \* evdev sources
  Buttons,       \* button bits a source can press
  MacroButtons,  \* button bits a macro can press
  ButtonCount,   \* cfg.mouse.buttons: the bits the report has room for
  Relative,      \* is cfg.mouse.mode "relative"?
  Axes,          \* the counters: dx, dy and wheel; absolute: only wheel
  Moves,         \* what one frame adds to a counter
  Positions,     \* absolute positions
  Centre,        \* the one the bridge starts from
  Chunk,         \* what a report holds of a counter (127)
  Limit,         \* MOTION_LIMIT
  Saturate,      \* MOTION_SATURATE
  QueueMax,      \* TRANSITION_QUEUE
  Shared,        \* is the keyboard in use as well?
  FastReset, Rebuild, Faults   \* as in Keyboard

ASSUME ButtonsAssumption ==
  Buttons \subseteq Nat /\ MacroButtons \subseteq Nat /\ ButtonCount \in Nat
ASSUME MovesAssumption == Moves \subseteq Int /\ 0 \in Moves
ASSUME PositionsAssumption == {0, Centre} \subseteq Positions
ASSUME LimitsAssumption ==
  /\ Chunk \in Nat \ {0} /\ Limit \in Nat \ {0} /\ Saturate \in 0..Limit
  /\ QueueMax \in Nat \ {0}
ASSUME NoneAssumption ==
  /\ \A pressed \in SUBSET (Buttons \cup MacroButtons) : pressed # None
  /\ None \notin [ buttons : SUBSET Nat, motion : [Axes -> Int], pos : Positions ]
ASSUME FlagsAssumption ==
  /\ Relative \in BOOLEAN /\ Shared \in BOOLEAN
  /\ FastReset \in BOOLEAN /\ Faults \in BOOLEAN
  /\ Rebuild \subseteq {"same", "other"}

VARIABLES
  buttons,       \* Source.buttons, {} for a source that is not attached
  macroButtons,  \* MacroEngine.buttons
  btnQueue,      \* Bridge._btn_queue
  motion,        \* Bridge._mouse_dx, _mouse_dy and _mouse_wheel
  pos,           \* Bridge.abs_pos
  lastButtons,   \* Bridge._mouse_last_buttons
  dirty,         \* Bridge._mouse_dirty
  blocked,       \* _motion_blocked_since: "no" (None), "fresh", or "stale"
                 \* (longer than STALL_GAP ago)
  mouse,         \* Bridge.mouse
  kbdAway,       \* Bridge.kbd.host_disabled
  fn, bus,       \* the kernel's f_hid function and the state of the UDC
  host,          \* the buttons and the position the host has of this mouse
  calls, mode    \* as in Keyboard

inputVars == <<buttons, macroButtons>>
pendingVars == <<btnQueue, motion, pos, lastButtons, dirty, blocked>>
bridgeVars == <<inputVars, pendingVars, mouse, kbdAway, calls, mode>>
vars == <<bridgeVars, fn, bus, host>>

-----------------------------------------------------------------------------
(***************************************************************************)
(* Reports and what is pending.                                            *)
(***************************************************************************)
Still == [a \in Axes |-> 0]

\* relative_mouse_reports()[0] and absolute_mouse_report: the mask leaves the
\* bits the descriptor has, and a relative report has no position.
MouseReport(pressed, moved, place) ==
  [ buttons |-> { b \in pressed : b < ButtonCount },
    motion  |-> moved,
    pos     |-> IF Relative THEN 0 ELSE place ]

\* HidgDevice.idle_report: all zeros.
MouseIdleReport == MouseReport({}, Still, 0)

AllButtons(held, macro) == macro \cup UNION { held[s] : s \in Sources }

Current == AllButtons(buttons, macroButtons)

ClampAll(counters, limit) ==
  [a \in Axes |-> Clamp(counters[a], -limit, limit)]

MotionPending(counters) == counters # Still

ButtonTail == IF btnQueue = <<>> THEN lastButtons ELSE Last(btnQueue)

\* Mutant: a state is queued only while there is room.
NoteButtonsRefuses(pressed) ==
  IF pressed = ButtonTail \/ Len(btnQueue) = QueueMax THEN btnQueue
  ELSE Append(btnQueue, pressed)

\* Mutant: only the newest state is kept, as for motion.
NoteButtonsLatest(pressed) ==
  IF pressed = ButtonTail THEN btnQueue ELSE <<pressed>>

\* Mutant: a queue without a bound.
NoteButtonsUnbounded(pressed) ==
  IF pressed = ButtonTail THEN btnQueue ELSE Append(btnQueue, pressed)

\* _note_buttons, with deque(maxlen = QueueMax).append.
NoteButtons(pressed) ==
  IF pressed = ButtonTail          THEN btnQueue
  ELSE IF Len(btnQueue) < QueueMax THEN Append(btnQueue, pressed)
  ELSE Append(Tail(btnQueue), pressed)

\* _emit_mouse_motion and _emit_mouse_absolute up to the call of _pump_mouse,
\* with `rest' after it.
Emit(pressed, moved, place, rest) ==
  /\ btnQueue' = NoteButtons(pressed)
  /\ motion' = ClampAll([a \in Axes |-> motion[a] + moved[a]], Limit)
  /\ pos' = place
  /\ dirty' = TRUE
  /\ calls' = <<"pump">> \o rest
  /\ UNCHANGED <<lastButtons, blocked, mouse, kbdAway, mode>>

\* Where a frame may put an absolute pointer; rel_to_abs_gain is part of it.
Places == IF Relative THEN {pos} ELSE Positions

-----------------------------------------------------------------------------
(***************************************************************************)
(* Handlers.                                                               *)
(***************************************************************************)
Idling == mode = "running" /\ calls = <<>>

\* run() up to the loop, under any state of the bus.
Init ==
  /\ buttons = [s \in Sources |-> {}] /\ macroButtons = {}
  /\ btnQueue = <<>> /\ motion = Still /\ pos = Centre
  /\ lastButtons = None /\ dirty = FALSE /\ blocked = "no"
  /\ kbdAway = FALSE
  /\ bus \in BusState
  /\ LET opened == Open(NewDevice, FunctionPrimed(FunctionBuilt("same"), MouseIdleReport),
                        MouseIdleReport)
     IN  mouse = opened.dev /\ fn = opened.fun
  /\ host = [buttons |-> {}, pos |-> 0]
  /\ calls = <<>> /\ mode = "running"

\* _process and _flush_source_mouse: a frame with buttons, motion, or both.
Frame(s, held, moved, place) ==
  /\ Idling
  /\ buttons' = [buttons EXCEPT ![s] = held]
  /\ Emit(AllButtons(buttons', macroButtons), moved, place, <<>>)
  /\ UNCHANGED <<macroButtons, fn, bus, host>>

\* _remove_source of a source that held buttons; without, nothing is sent.
RemoveSource(s) ==
  /\ buttons[s] # {}
  /\ Frame(s, {}, Still, pos)

\* macro_buttons_changed, macro_mouse_move and macro_mouse_to, from the loop
\* or from a request.
MacroMouse(held, moved, place, rest) ==
  /\ Idling
  /\ macroButtons' = held
  /\ Emit(AllButtons(buttons, macroButtons'), moved, place, rest)
  /\ UNCHANGED <<buttons, fn, bus, host>>

\* handle_control of "release_all": what the macros hold, then the sources.
ReleaseAll ==
  MacroMouse({}, Still, pos, <<"clear", "reply">>)

ClearSources ==
  /\ calls # <<>> /\ Head(calls) = "clear"
  /\ buttons' = [s \in Sources |-> {}]
  /\ Emit(AllButtons(buttons', macroButtons), Still, pos, Tail(calls))
  /\ UNCHANGED <<macroButtons, fn, bus, host>>

\* select() found /dev/hidg1 writable; it is asked while something is pending.
OnWritable ==
  /\ Idling
  /\ dirty /\ mouse.backoff = "none"
  /\ Writable(mouse, fn, bus)
  /\ calls' = <<"pollout">>
  /\ UNCHANGED <<inputVars, pendingVars, mouse, kbdAway, fn, bus, host, mode>>

\* Mutant: the mouse looks at its own device only, which is never read.
WasAwayByMouse(d) == d.disabled /\ bus = "configured"

\* The host is back, as far as either device can tell.
WasAway(d) == (kbdAway \/ d.disabled) /\ bus = "configured"

\* _poll_host_state, after every rescan of the sources.
PollHostState ==
  /\ Idling
  /\ LET checked == Revalidate(mouse, fn, MouseIdleReport)
         dev == HostStateChanged(checked.dev, bus)
         back == WasAway(checked.dev)
     IN  /\ fn' = checked.fun
         /\ mouse' = IF back THEN [dev EXCEPT !.last = None] ELSE dev
         /\ dirty' = (dirty \/ back)
  /\ kbdAway' = (kbdAway /\ bus # "configured")
  /\ calls' = <<"pump">>
  /\ UNCHANGED <<inputVars, btnQueue, motion, pos, lastButtons, blocked, bus, host,
                 mode>>

\* Time passes: backoff_until is reached, STALL_GAP is over.
BackoffExpires ==
  /\ mouse.backoff = "waiting"
  /\ mouse' = [mouse EXCEPT !.backoff = "due"]
  /\ UNCHANGED <<inputVars, pendingVars, kbdAway, fn, bus, host, calls, mode>>

Stall ==
  /\ blocked = "fresh"
  /\ blocked' = "stale"
  /\ UNCHANGED <<inputVars, btnQueue, motion, pos, lastButtons, dirty, mouse, kbdAway,
                 fn, bus, host, calls, mode>>

\* _service_backoff: still asleep, or try again.
ServiceBackoff ==
  /\ Idling
  /\ dirty /\ mouse.backoff = "due"
  /\ IF bus = "suspended"
     THEN mouse' = ExtendBackoff(mouse) /\ calls' = <<>>
     ELSE mouse' = [mouse EXCEPT !.backoff = "none"] /\ calls' = <<"pump">>
  /\ UNCHANGED <<inputVars, pendingVars, kbdAway, fn, bus, host, mode>>

-----------------------------------------------------------------------------
(***************************************************************************)
(* _pump_mouse: one iteration of its loop.                                 *)
(***************************************************************************)
Pumping == calls # <<>> /\ Head(calls) \in {"pump", "pollout"}

FromPollout == Head(calls) = "pollout"

\* A handler that has only its reply to the control client left is done.
Remaining(rest) == IF rest = <<"reply">> THEN <<>> ELSE rest

Return == calls' = Remaining(Tail(calls))

\* The buttons the host is known to have.
Known == IF mouse.last = None THEN None ELSE lastButtons

\* Nothing held and nothing to move: say nothing, as a mouse does.
Silent ==
  Known = None /\ btnQueue = <<>> /\ ~MotionPending(motion) /\ Current = {}

\* _saturate_motion, for a host that has stopped collecting.
Counters == IF blocked = "stale" THEN ClampAll(motion, Saturate) ELSE motion

NextButtons ==
  IF btnQueue # <<>>    THEN Head(btnQueue)
  ELSE IF Known # None THEN Known
  ELSE Current

Slice == ClampAll(Counters, Chunk)

NextReport == MouseReport(NextButtons, Slice, pos)

\* Mutant: GET_REPORT answers what was sent, motion included.
MovingReport == NextReport

\* What GET_REPORT answers: the buttons with zero motion.
StillReport == MouseReport(NextButtons, Still, pos)

\* Mutant: an absolute mouse forgets that its position changed.
MustSendButtons == btnQueue # <<>> \/ MotionPending(Slice) \/ Known = None

MustSend ==
  \/ btnQueue # <<>> \/ MotionPending(Slice)
  \/ IF Relative THEN Known = None ELSE NextReport # mouse.last

Trying == Pumping /\ mouse.backoff # "waiting" /\ ~Silent /\ MustSend

Outcome == WriteOutcome(mouse, fn, bus, NextReport, TRUE)

Written(outcome) ==
  WriteReport(mouse, fn, NextReport, StillReport, MouseIdleReport, outcome)

PumpReturns ==
  /\ Pumping /\ mouse.backoff = "waiting"
  /\ Return
  /\ UNCHANGED <<inputVars, pendingVars, mouse, kbdAway, fn, bus, host, mode>>

PumpIsSilent ==
  /\ Pumping /\ mouse.backoff # "waiting" /\ Silent
  /\ lastButtons' = {} /\ dirty' = FALSE
  /\ Return
  /\ UNCHANGED <<inputVars, btnQueue, motion, pos, blocked, mouse, kbdAway, fn, bus,
                 host, mode>>

PumpIsDone ==
  /\ Pumping /\ mouse.backoff # "waiting" /\ ~Silent /\ ~MustSend
  /\ lastButtons' = Known /\ motion' = Counters /\ dirty' = FALSE
  /\ Return
  /\ UNCHANGED <<inputVars, btnQueue, pos, blocked, mouse, kbdAway, fn, bus, host, mode>>

\* Mutant: what a report carries is not taken off the counters.
Unspent(counters, slice) == counters

Spent(counters, slice) == [a \in Axes |-> counters[a] - slice[a]]

\* Mutant: only motion keeps the sink dirty.
StillMoving(queued, counters) == MotionPending(counters)

StillDirty(queued, counters) == queued # <<>> \/ MotionPending(counters)

PumpDelivers ==
  /\ Trying /\ Accepted(Outcome)
  /\ mouse' = Written(Outcome).dev /\ fn' = Written(Outcome).fun
  /\ btnQueue' = IF btnQueue = <<>> THEN btnQueue ELSE Tail(btnQueue)
  /\ lastButtons' = NextButtons
  /\ motion' = Spent(Counters, Slice)
  /\ blocked' = "no"
  /\ dirty' = StillDirty(btnQueue', motion')
  /\ IF dirty' THEN calls' = calls ELSE Return
  /\ UNCHANGED <<inputVars, pos, kbdAway, bus, host, mode>>

DropMotion == motion' = Still /\ blocked' = "no"

KeepMotion ==
  /\ motion' = Counters
  /\ blocked' = IF MotionPending(Counters) /\ blocked = "no" THEN "fresh" ELSE blocked

\* _on_write_deferred for the mouse.
OnWriteDeferred(d) ==
  IF d.disconnected \/ d.disabled THEN mouse' = d /\ DropMotion
  ELSE IF FromPollout THEN mouse' = EnterBackoff(d) /\ DropMotion
  ELSE mouse' = d /\ KeepMotion

PumpDefers ==
  /\ Trying /\ ~Accepted(Outcome)
  /\ fn' = Written(Outcome).fun
  /\ OnWriteDeferred(Written(Outcome).dev)
  /\ lastButtons' = Known
  /\ Return
  /\ UNCHANGED <<inputVars, btnQueue, pos, dirty, kbdAway, bus, host, mode>>

-----------------------------------------------------------------------------
(***************************************************************************)
(* shutdown().                                                             *)
(***************************************************************************)
Shutdown(d) ==
  /\ buttons' = [s \in Sources |-> {}] /\ macroButtons' = {}
  /\ btnQueue' = <<>>
  /\ DropMotion
  /\ calls' = <<>>
  /\ IF Current # {}
     THEN mode' = "releasing" /\ mouse' = d
     ELSE mode' = "down" /\ mouse' = Close(d)
  /\ UNCHANGED <<pos, lastButtons, dirty, kbdAway>>

\* A signal: the loop ends once the running handler is done.
Stop ==
  /\ Idling
  /\ Shutdown(mouse)
  /\ UNCHANGED <<fn, bus, host>>

\* os.write raises: a control request reports it to its client, anything else
\* ends the process.
PumpFaults ==
  /\ Faults
  /\ Trying /\ Attempted(Outcome)
  /\ fn' = Written("busy").fun
  /\ IF Last(calls) = "reply"
     THEN /\ mouse' = Written("busy").dev
          /\ calls' = <<>>
          /\ lastButtons' = Known /\ motion' = Counters
          /\ UNCHANGED <<inputVars, btnQueue, pos, dirty, blocked, kbdAway, mode>>
     ELSE Shutdown(Written("busy").dev)
  /\ UNCHANGED <<bus, host>>

ReleaseReport == MouseReport({}, Still, pos)

ReleaseOutcome == WriteOutcome(mouse, fn, bus, ReleaseReport, TRUE)

\* A refused release is tried again, unless the host is known to be gone.
MayRetry(d) == ReleaseOutcome = "busy" /\ ~(d.disconnected \/ d.disabled)

\* One attempt of write_report_blocking; after a refused one the time may be
\* up.  Whatever it raises is caught by shutdown().
Released(outcome) ==
  WriteReport(mouse, fn, ReleaseReport, ReleaseReport, MouseIdleReport, outcome)

ReleaseWrite ==
  /\ mode = "releasing"
  /\ LET written == Released(ReleaseOutcome)
     IN  /\ fn' = written.fun
         /\ mode' \in IF ReleaseOutcome = "sent"    THEN {"down"}
                      ELSE IF MayRetry(written.dev) THEN {"releasing", "gaveup"}
                      ELSE {"gaveup"}
         /\ mouse' = IF mode' = "releasing" THEN written.dev ELSE Close(written.dev)
  /\ UNCHANGED <<inputVars, pendingVars, kbdAway, bus, host, calls>>

ReleaseFaults ==
  /\ Faults
  /\ mode = "releasing" /\ Attempted(ReleaseOutcome)
  /\ fn' = Released("busy").fun
  /\ mouse' = Close(Released("busy").dev)
  /\ mode' = "gaveup"
  /\ UNCHANGED <<inputVars, pendingVars, kbdAway, bus, host, calls>>

\* The keyboard's release comes first, and one `except' covers both.
ReleaseSkipped ==
  /\ Shared /\ Faults
  /\ mode = "releasing"
  /\ mode' = "gaveup"
  /\ mouse' = Close(mouse)
  /\ UNCHANGED <<inputVars, pendingVars, kbdAway, fn, bus, host, calls>>

-----------------------------------------------------------------------------
(***************************************************************************)
(* The keyboard of the same gadget.                                        *)
(***************************************************************************)
\* _handle_leds: its read tells that the host de-configured us.
KeyboardReads ==
  /\ Idling
  /\ ~kbdAway /\ (fn.off \/ fn.node = "gone")
  /\ kbdAway' = TRUE
  /\ UNCHANGED <<inputVars, pendingVars, mouse, fn, bus, host, calls, mode>>

\* Its write was accepted: the host is back, says kbd.host_disabled.
KeyboardSent ==
  /\ Idling /\ Shared
  /\ kbdAway /\ bus = "configured"
  /\ kbdAway' = FALSE
  /\ UNCHANGED <<inputVars, pendingVars, mouse, fn, bus, host, calls, mode>>

\* Its write was refused on a POLLOUT: _on_write_deferred drops the motion.
KeyboardRefused ==
  /\ Idling /\ Shared
  /\ MotionPending(motion) /\ bus # "away"
  /\ DropMotion
  /\ UNCHANGED <<inputVars, btnQueue, pos, lastButtons, dirty, mouse, kbdAway, fn, bus,
                 host, calls, mode>>

-----------------------------------------------------------------------------
(***************************************************************************)
(* The host and the gadget (external).                                     *)
(***************************************************************************)
\* The host polls the interrupt endpoint.
Collect ==
  /\ bus = "configured" /\ fn.inflight # None
  /\ host' = [buttons |-> fn.inflight.buttons, pos |-> fn.inflight.pos]
  /\ fn' = [fn EXCEPT !.inflight = None]
  /\ UNCHANGED <<bridgeVars, bus>>

\* Unplugged, reset or switched off: the host forgets the mouse.
Deconfigure ==
  /\ bus # "away"
  /\ bus' = "away"
  /\ host' = [host EXCEPT !.buttons = {}]
  /\ fn' = FunctionDisabled(fn)
  /\ UNCHANGED bridgeVars

Configure ==
  /\ bus = "away" /\ fn.node # "gone"
  /\ FastReset \/ kbdAway \/ ~fn.off \/ mode # "running"
  /\ bus' = "configured"
  /\ fn' = FunctionEnabled(fn)
  /\ UNCHANGED <<bridgeVars, host>>

Suspend ==
  /\ bus = "configured"
  /\ bus' = "suspended"
  /\ UNCHANGED <<bridgeVars, fn, host>>

Resume ==
  /\ bus = "suspended"
  /\ bus' = "configured"
  /\ UNCHANGED <<bridgeVars, fn, host>>

\* `gadget down' and `gadget up' while the bridge runs.  The node is back as soon
\* as the gadget is bound; its answer to GET_REPORT is set later, if at all.
GadgetDown ==
  /\ Rebuild # {} /\ fn.node # "gone"
  /\ bus' = "away"
  /\ host' = [host EXCEPT !.buttons = {}]
  /\ fn' = FunctionRemoved
  /\ mouse' = DeviceOrphaned(mouse)
  /\ UNCHANGED <<inputVars, pendingVars, kbdAway, calls, mode>>

GadgetUp ==
  /\ fn.node = "gone"
  /\ \E node \in Rebuild : fn' = FunctionBuilt(node)
  /\ UNCHANGED <<bridgeVars, bus, host>>

GadgetPrimes ==
  /\ fn.node # "gone" /\ fn.priming = "due"
  /\ fn' = FunctionPrimed(fn, MouseIdleReport)
  /\ UNCHANGED <<bridgeVars, bus, host>>

-----------------------------------------------------------------------------
Input ==
  \/ \E s \in Sources, held \in SUBSET Buttons, moved \in [Axes -> Moves] :
       \E place \in Places : Frame(s, held, moved, place)
  \/ \E s \in Sources : RemoveSource(s)
  \/ \E held \in SUBSET MacroButtons, moved \in [Axes -> Moves] :
       \E place \in Places, rest \in {<<>>, <<"reply">>} :
         MacroMouse(held, moved, place, rest)
  \/ ReleaseAll

Handler == OnWritable \/ PollHostState \/ ServiceBackoff

Pump == PumpReturns \/ PumpIsSilent \/ PumpIsDone \/ PumpDelivers \/ PumpDefers

Ending == Stop \/ PumpFaults \/ ReleaseWrite \/ ReleaseFaults \/ ReleaseSkipped

Keyboard == KeyboardReads \/ KeyboardSent \/ KeyboardRefused

Environment ==
  \/ Collect \/ Deconfigure \/ Configure \/ Suspend \/ Resume
  \/ GadgetDown \/ GadgetUp \/ GadgetPrimes

Next ==
  \/ Input \/ ClearSources \/ Handler \/ Pump \/ Ending
  \/ BackoffExpires \/ Stall \/ Keyboard \/ Environment

Spec == Init /\ [][Next]_vars

\* As in Keyboard.
Fairness ==
  /\ WF_vars(Pump)
  /\ WF_vars(ClearSources)
  /\ SF_vars(OnWritable)
  /\ SF_vars(PollHostState)
  /\ SF_vars(ServiceBackoff)
  /\ SF_vars(fn.node # "gone" /\ KeyboardReads)
  /\ WF_vars(BackoffExpires)
  /\ WF_vars(Collect)

FairSpec == Spec /\ Fairness

-----------------------------------------------------------------------------
(***************************************************************************)
(* Properties.                                                             *)
(***************************************************************************)
Pressed == SUBSET (Buttons \cup MacroButtons)

\* A relative report has no position.
Report ==
  [ buttons : Pressed, motion : [Axes -> -Chunk..Chunk],
    pos : IF Relative THEN {0} ELSE Positions ]

TypeOK ==
  /\ buttons \in [Sources -> SUBSET Buttons]
  /\ macroButtons \in SUBSET MacroButtons
  /\ btnQueue \in Seq(Pressed) /\ Len(btnQueue) <= QueueMax
  /\ motion \in [Axes -> -Limit..Limit]
  /\ pos \in Positions
  /\ lastButtons \in Pressed \cup {None}
  /\ dirty \in BOOLEAN
  /\ blocked \in {"no", "fresh", "stale"}
  /\ mouse \in Device(Report)
  /\ kbdAway \in BOOLEAN
  /\ fn \in Function(Report)
  /\ bus \in BusState
  /\ host \in [buttons : Pressed, pos : Positions]
  /\ calls \in Seq({"pump", "pollout", "clear", "reply"})
  /\ mode \in {"running", "releasing", "down", "gaveup"}

Shown(pressed) == { b \in pressed : b < ButtonCount }

\* What the host holds once it has collected what the kernel has for it.
HostNext == IF fn.inflight # None THEN fn.inflight.buttons ELSE host.buttons

\* The newest button state accepted for the host is the merged state of all
\* sources and macros (_note_buttons compares with the tail).
ButtonTailIsCurrent == mode = "running" => ButtonTail \in {Current, None}

\* Nothing sticks (README.md:129): with no button state queued, the host
\* holds the merged state, or nothing.
NoStuckButton ==
  mode = "running" /\ btnQueue = <<>> => HostNext \in {Shown(Current), {}}

\* Pending state is never forgotten: select() and the backoff timer look at
\* _mouse_dirty only.
PendingIsDirty == Idling /\ (btnQueue # <<>> \/ MotionPending(motion)) => dirty

\* GET_REPORT(Input) is never answered with motion (the `still' report of
\* _pump_mouse; an absolute position may still be 0,0 there, the idle report's).
\* The bridge knows the answer, unless `gadget up' primed a node the bridge had
\* opened before it (gadget.py:297), until it publishes another report.
AnswerIsStill ==
  /\ fn.answer # None => fn.answer.motion = Still
  /\ mouse.fd = "live" =>
       \/ mouse.cached = fn.answer
       \/ fn.priming = "last" /\ fn.answer = MouseIdleReport

\* Motion the host has not had yet: still counted, or in flight.
Owed(a) == motion[a] + (IF fn.inflight = None THEN 0 ELSE fn.inflight.motion[a])

\* What a step puts in flight.
Taken(a) ==
  IF fn'.inflight \in {None, fn.inflight} THEN 0 ELSE fn'.inflight.motion[a]

\* Between nothing and a value, in its direction.
Within(part, value) ==
  (0 <= part /\ part <= value) \/ (value <= part /\ part <= 0)

\* What is left to send and what was put in flight are no more than there was,
\* in its direction.
SentOnce ==
  \A a \in Axes :
    /\ Within(Taken(a), motion[a])
    /\ Within(motion'[a] + Taken(a), motion[a])

\* What is sent is taken off the counters, whatever is refused, retried or
\* saturated: only new input can add to the motion.
MotionNotRepeated == [][SentOnce \/ Input]_vars

\* The button states on their way to the host, oldest first: what is in flight,
\* unless it is about motion only, and what is queued.
ShownAll(queue) == [i \in 1..Len(queue) |-> Shown(queue[i])]

Ahead ==
  IF fn.inflight = None \/ fn.inflight.buttons = host.buttons THEN <<>>
  ELSE <<fn.inflight.buttons>>

Backlog == Ahead \o ShownAll(btnQueue)

\* The states of the buttons reach the host in order: a click is not merged into
\* one report, and none is skipped but those a full queue gives up, those the host
\* was not there for, and those shutdown() clears.  A button the report has no room
\* for (_note_buttons queues it like the others) tells the host nothing new.
Power ==
  IF mode = "running" THEN "on" ELSE IF mode = "releasing" THEN mode ELSE "off"

Channel ==
  INSTANCE StateChannel WITH
    State    <- { Shown(pressed) : pressed \in Pressed },
    Idle     <- {},
    Capacity <- QueueMax + 1,
    Repeats  <- \E b \in Buttons \cup MacroButtons : b >= ButtonCount,
    backlog  <- Backlog,
    seen     <- host.buttons,
    up       <- bus # "away",
    power    <- Power,
    aware    <- lastButtons # None /\ HostNext = Shown(lastButtons)

ButtonsInOrder == Channel!Spec

\* An absolute mouse that believes it is done has told its last position.
PositionIsTold ==
  Idling /\ ~dirty /\ mouse.last # None => mouse.last.pos = MouseReport({}, Still, pos).pos

(***************************************************************************)
(* The inductive invariant behind these.  As in Keyboard, a host that      *)
(* cannot be reached holds nothing.  What the host holds is less certain   *)
(* than there: _poll_host_state forgets last_report, but not the buttons   *)
(* sent last, also when a report has been sent since the host came back.   *)
(***************************************************************************)
Untouched == fn.inflight = None /\ host.buttons = {}

AwayIsUntouched == bus = "away" => Untouched
OffIsAway == fn.off => bus = "away"
OthersAreUntouched == mode = "running" /\ mouse.fd # "live" => Untouched
NodeIsOpened == mode = "running" /\ fn.node # "same" => mouse.fd # "live"

\* shutdown() is not entered with a handler half way.
OnlyRunningCalls == calls # <<>> => mode = "running"

\* A report that was sent had buttons.
LastHasButtons == mode = "running" /\ mouse.last # None => lastButtons # None

\* The host holds the buttons that were sent last.  When that is forgotten,
\* they are the current ones, or others are queued.
HostIsKnown ==
  mode = "running" =>
    \/ HostNext = {}
    \/ mouse.last # None /\ HostNext = Shown(lastButtons)
    \/ mouse.last = None /\ (btnQueue = <<>> => HostNext = Shown(Current))

\* PendingIsDirty and PositionIsTold, also while a handler runs.
DirtyWhilePending ==
  mode = "running" /\ (btnQueue # <<>> \/ MotionPending(motion)) => dirty
ToldUnlessDirty ==
  mode = "running" /\ ~dirty /\ mouse.last # None
    => mouse.last.pos = MouseReport({}, Still, pos).pos

IInv ==
  /\ TypeOK
  /\ OnlyRunningCalls
  /\ AwayIsUntouched
  /\ OffIsAway
  /\ OthersAreUntouched
  /\ NodeIsOpened
  /\ ButtonTailIsCurrent
  /\ LastHasButtons
  /\ HostIsKnown
  /\ DirtyWhilePending
  /\ ToldUnlessDirty

\* What the steps of the channel rest on, beside IInv: a gadget that is torn
\* down has no host, and shutdown() clears the queue.
GoneIsAway == fn.node = "gone" => bus = "away"
EndedIsEmpty == mode # "running" => btnQueue = <<>>

ChannelInv == IInv /\ GoneIsAway /\ EndedIsEmpty

\* A host that stays configured ends up with the buttons as they are and
\* stay, whatever was in flight, deferred or lost before.
ButtonsArrive ==
  \A pressed \in Pressed :
    <>[](mode = "running" /\ bus = "configured" /\ Current = pressed)
      => <>[](host.buttons = Shown(pressed))

\* ... and no motion stays owed to it for ever, with nothing to trigger its report:
\* it is collected, or given up (_drop_motion, _saturate_motion; MotionIsSplit is about
\* that loss).
MotionSettles ==
  <>[](mode = "running" /\ bus = "configured") /\ <>[][~Input]_vars
    => <>[](\A a \in Axes : Owed(a) = 0)

=============================================================================
