------------------------------ MODULE Keyboard ------------------------------
(***************************************************************************)
(* The keyboard path of the bridge (src/hid_bridge/bridge.py): what the    *)
(* sources and the macros hold down, the queue of states the host has not  *)
(* been given yet, /dev/hidg0, and the host at the other end of the cable. *)
(*                                                                         *)
(* The bridge is one thread around select().  A handler runs to its end    *)
(* before the next one starts, but it makes system calls on the way, and   *)
(* the host acts between two of them: it collects a report, suspends the   *)
(* bus, de-configures the gadget.  So a handler is an action that changes  *)
(* the bridge's own state, followed by one step for each write of the      *)
(* loop in _pump_keyboard.  `calls' is what the handler has left to do.    *)
(*                                                                         *)
(* One life of the process: it starts with a host that holds no key of     *)
(* this keyboard, and it ends with shutdown().                             *)
(***************************************************************************)
EXTENDS Reports, Hidg, Sequences, SequencesExt

CONSTANTS
  Sources,      \* evdev sources
  Usages,       \* usages a source can press
  MacroUsages,  \* usages a macro can press
  QueueMax,     \* TRANSITION_QUEUE
  FastReset,    \* may the host reconfigure the gadget before the bridge has
                \* read that it was de-configured?
  Rebuild,      \* device numbers a rebuilt gadget may get: none if the
                \* gadget is never torn down under the bridge
  Faults        \* may a write fail with an errno the code does not expect?

ASSUME UsagesAssumption == Usages \subseteq Usage /\ MacroUsages \subseteq Usage
ASSUME QueueMaxAssumption == QueueMax \in Nat \ {0}
ASSUME FlagsAssumption == FastReset \in BOOLEAN /\ Faults \in BOOLEAN
ASSUME RebuildAssumption == Rebuild \subseteq {"same", "other"}
ASSUME NoneAssumption == None \notin KeyReport

VARIABLES
  pressed,       \* Source.pressed, {} for a source that is not attached
  macroPressed,  \* MacroEngine.pressed
  queue,         \* Bridge._kbd_queue
  kbd,           \* Bridge.kbd
  fn,            \* the kernel's f_hid function
  bus,           \* the state of the UDC
  host,          \* the report the host has of this keyboard
  calls,         \* what the running handler has left to do
  mode           \* "running", in shutdown() ("releasing"), ended with the
                 \* release accepted or not needed ("down"), or not ("gaveup")

bridgeVars == <<pressed, macroPressed, queue, kbd, calls, mode>>
vars == <<pressed, macroPressed, queue, kbd, fn, bus, host, calls, mode>>

-----------------------------------------------------------------------------
(***************************************************************************)
(* The merged state and the queue.                                         *)
(***************************************************************************)
AllUsages(held, macro) == macro \cup UNION { held[s] : s \in Sources }

Current == KeyboardReport(AllUsages(pressed, macroPressed))

\* Mutants of Push: a queue without a bound, and one that refuses the newest.
PushUnbounded(q, report) == Append(q, report)
PushRefuses(q, report) == IF Len(q) < QueueMax THEN Append(q, report) ELSE q

\* deque(maxlen = QueueMax).append: the oldest state makes room.
Push(q, report) ==
  IF Len(q) < QueueMax THEN Append(q, report) ELSE Append(Tail(q), report)

TailState(q, d) == IF q = <<>> THEN d.last ELSE Last(q)

\* Nothing is known of the host and nothing is held: nothing to say.
Silent(q, d, report) ==
  TailState(q, d) = None /\ report = KeyboardIdleReport

\* Mutants of FlushedQueue: compare with the state sent last, and keep only
\* the latest state.
FlushedQueueByLast(q, d, report) ==
  IF Silent(q, d, report) \/ report = d.last THEN q ELSE Push(q, report)
FlushedQueueLatest(q, d, report) ==
  IF Silent(q, d, report) \/ report = TailState(q, d) THEN q ELSE <<report>>

FlushedQueue(q, d, report) ==
  IF Silent(q, d, report) \/ report = TailState(q, d) THEN q
  ELSE Push(q, report)

FlushedDevice(q, d, report) ==
  IF Silent(q, d, report) THEN [d EXCEPT !.last = KeyboardIdleReport] ELSE d

FlushCalls(q, d, report) ==
  IF Silent(q, d, report) THEN <<>> ELSE <<"pump">>

\* A handler that has only its reply to the control client left is done.
Remaining(rest) == IF rest = <<"reply">> THEN <<>> ELSE rest

\* _flush_keyboard up to its call of _pump_keyboard, with `rest' after it.
Flush(d, report, rest) ==
  /\ queue' = FlushedQueue(queue, d, report)
  /\ kbd' = FlushedDevice(queue, d, report)
  /\ calls' = Remaining(FlushCalls(queue, d, report) \o rest)

-----------------------------------------------------------------------------
(***************************************************************************)
(* Handlers.  They start when no other handler runs.                       *)
(***************************************************************************)
Idling == mode = "running" /\ calls = <<>>

\* run() up to the loop, under any state of the bus.
Init ==
  /\ pressed = [s \in Sources |-> {}]
  /\ macroPressed = {}
  /\ queue = <<>>
  /\ bus \in BusState
  /\ LET opened == Open(NewDevice, FunctionPrimed(FunctionBuilt("same"), KeyboardIdleReport),
                        KeyboardIdleReport)
     IN  kbd = opened.dev /\ fn = opened.fun
  /\ host = KeyboardIdleReport
  /\ calls = <<>>
  /\ mode = "running"

\* _process: one SYN_REPORT frame of a source that changes its keys.
Process(s, held) ==
  /\ Idling
  /\ pressed' = [pressed EXCEPT ![s] = held]
  /\ Flush(kbd, KeyboardReport(AllUsages(pressed', macroPressed)), <<>>)
  /\ UNCHANGED <<macroPressed, fn, bus, host, mode>>

\* _remove_source of a source that held keys; without, nothing is sent.
RemoveSource(s) ==
  /\ Idling
  /\ pressed[s] # {}
  /\ pressed' = [pressed EXCEPT ![s] = {}]
  /\ Flush(kbd, KeyboardReport(AllUsages(pressed', macroPressed)), <<>>)
  /\ UNCHANGED <<macroPressed, fn, bus, host, mode>>

\* MacroEngine.press, release and release_all, from the loop or a request.
MacroKeys(held, rest) ==
  /\ Idling
  /\ macroPressed' = held
  /\ Flush(kbd, KeyboardReport(AllUsages(pressed, macroPressed')), rest)
  /\ UNCHANGED <<pressed, fn, bus, host, mode>>

\* handle_control of "release_all": first what the macros hold ...
ReleaseAll ==
  MacroKeys({}, <<"clear", "reply">>)

\* ... then what the sources hold.
ClearSources ==
  /\ calls # <<>> /\ Head(calls) = "clear"
  /\ pressed' = [s \in Sources |-> {}]
  /\ Flush(kbd, KeyboardReport(AllUsages(pressed', macroPressed)), Tail(calls))
  /\ UNCHANGED <<macroPressed, fn, bus, host, mode>>

\* select() found /dev/hidg0 writable; it is asked while states are queued.
OnWritable ==
  /\ Idling
  /\ queue # <<>> /\ kbd.backoff = "none"
  /\ Writable(kbd, fn, bus)
  /\ calls' = <<"pollout">>
  /\ UNCHANGED <<pressed, macroPressed, queue, kbd, fn, bus, host, mode>>

\* _handle_leds: the read that tells that the host de-configured us.
ReadOutputReport ==
  /\ Idling
  /\ DisableSignal(kbd, fn)
  /\ kbd' = ReadDisabled(kbd)
  /\ UNCHANGED <<pressed, macroPressed, queue, fn, bus, host, calls, mode>>

\* Mutant: a host that comes back is taken for the host that left.
ResyncNever(d) == FALSE

\* The host is back: its state is unknown, so the current one is sent.
Resync(d) == d.disabled /\ bus = "configured"

\* _poll_host_state, after every rescan of the sources.
PollHostState ==
  /\ Idling
  /\ LET checked == Revalidate(kbd, fn, KeyboardIdleReport)
         dev == HostStateChanged(checked.dev, bus)
     IN  /\ fn' = checked.fun
         /\ IF Resync(checked.dev)
            THEN Flush([dev EXCEPT !.last = None], Current, <<"pump">>)
            ELSE /\ kbd' = dev
                 /\ calls' = <<"pump">>
                 /\ UNCHANGED queue
  /\ UNCHANGED <<pressed, macroPressed, bus, host, mode>>

\* Time passes: backoff_until is reached.
BackoffExpires ==
  /\ kbd.backoff = "waiting"
  /\ kbd' = [kbd EXCEPT !.backoff = "due"]
  /\ UNCHANGED <<pressed, macroPressed, queue, fn, bus, host, calls, mode>>

\* _service_backoff: still asleep, or try again.
ServiceBackoff ==
  /\ Idling
  /\ queue # <<>> /\ kbd.backoff = "due"
  /\ IF bus = "suspended"
     THEN kbd' = ExtendBackoff(kbd) /\ calls' = <<>>
     ELSE kbd' = [kbd EXCEPT !.backoff = "none"] /\ calls' = <<"pump">>
  /\ UNCHANGED <<pressed, macroPressed, queue, fn, bus, host, mode>>

-----------------------------------------------------------------------------
(***************************************************************************)
(* _pump_keyboard: one iteration of its loop.                              *)
(***************************************************************************)
Pumping == calls # <<>> /\ Head(calls) \in {"pump", "pollout"}

FromPollout == Head(calls) = "pollout"

MustStop(q, d) == q = <<>> \/ d.backoff = "waiting"

Return == calls' = Remaining(Tail(calls))

Outcome == WriteOutcome(kbd, fn, bus, Head(queue), FALSE)

Written(report, outcome) ==
  WriteReport(kbd, fn, report, report, KeyboardIdleReport, outcome)

\* _on_write_deferred for the keyboard.
OnWriteDeferred(d, fromPollout) ==
  IF ~(d.disconnected \/ d.disabled) /\ fromPollout THEN EnterBackoff(d) ELSE d

PumpReturns ==
  /\ Pumping /\ MustStop(queue, kbd)
  /\ Return
  /\ UNCHANGED <<pressed, macroPressed, queue, kbd, fn, bus, host, mode>>

PumpDelivers ==
  /\ Pumping /\ ~MustStop(queue, kbd)
  /\ Accepted(Outcome)
  /\ LET written == Written(Head(queue), Outcome)
     IN  kbd' = written.dev /\ fn' = written.fun
  /\ queue' = Tail(queue)
  /\ UNCHANGED <<pressed, macroPressed, bus, host, calls, mode>>

PumpDefers ==
  /\ Pumping /\ ~MustStop(queue, kbd)
  /\ ~Accepted(Outcome)
  /\ LET written == Written(Head(queue), Outcome)
     IN  kbd' = OnWriteDeferred(written.dev, FromPollout) /\ fn' = written.fun
  /\ Return
  /\ UNCHANGED <<pressed, macroPressed, queue, bus, host, mode>>

-----------------------------------------------------------------------------
(***************************************************************************)
(* shutdown(), after a signal or an exception that left the loop.          *)
(***************************************************************************)
Shutdown(d) ==
  /\ pressed' = [s \in Sources |-> {}]
  /\ macroPressed' = {}
  /\ queue' = <<>>
  /\ calls' = <<>>
  /\ IF AllUsages(pressed, macroPressed) # {}
     THEN mode' = "releasing" /\ kbd' = d
     ELSE mode' = "down" /\ kbd' = Close(d)

\* A signal: the loop ends once the running handler is done.
Stop ==
  /\ Idling
  /\ Shutdown(kbd)
  /\ UNCHANGED <<fn, bus, host>>

\* os.write raises: a control request reports it to its client, anything
\* else ends the process.
PumpFaults ==
  /\ Faults
  /\ Pumping /\ ~MustStop(queue, kbd)
  /\ Attempted(Outcome)
  /\ LET written == Written(Head(queue), "busy")
     IN  /\ fn' = written.fun
         /\ IF Last(calls) = "reply"
            THEN /\ kbd' = written.dev
                 /\ calls' = <<>>
                 /\ UNCHANGED <<pressed, macroPressed, queue, mode>>
            ELSE Shutdown(written.dev)
  /\ UNCHANGED <<bus, host>>

ReleaseOutcome == WriteOutcome(kbd, fn, bus, KeyboardIdleReport, TRUE)

\* A refused release is tried again, unless the host is known to be gone.
MayRetry(d) ==
  ReleaseOutcome = "busy" /\ ~(d.disconnected \/ d.disabled)

\* One attempt of write_report_blocking; after a refused one the time may be
\* up.  Whatever it raises is caught by shutdown().
ReleaseWrite ==
  /\ mode = "releasing"
  /\ LET written == Written(KeyboardIdleReport, ReleaseOutcome)
     IN  /\ fn' = written.fun
         /\ mode' \in IF ReleaseOutcome = "sent"   THEN {"down"}
                      ELSE IF MayRetry(written.dev) THEN {"releasing", "gaveup"}
                      ELSE {"gaveup"}
         /\ kbd' = IF mode' = "releasing" THEN written.dev ELSE Close(written.dev)
  /\ UNCHANGED <<pressed, macroPressed, queue, bus, host, calls>>

ReleaseFaults ==
  /\ Faults
  /\ mode = "releasing" /\ Attempted(ReleaseOutcome)
  /\ LET written == Written(KeyboardIdleReport, "busy")
     IN  fn' = written.fun /\ kbd' = Close(written.dev)
  /\ mode' = "gaveup"
  /\ UNCHANGED <<pressed, macroPressed, queue, bus, host, calls>>

-----------------------------------------------------------------------------
(***************************************************************************)
(* The host and the gadget (external).                                     *)
(***************************************************************************)
\* The host polls the interrupt endpoint.
Collect ==
  /\ bus = "configured" /\ fn.inflight # None
  /\ host' = fn.inflight
  /\ fn' = [fn EXCEPT !.inflight = None]
  /\ UNCHANGED <<bridgeVars, bus>>

\* Unplugged, reset or switched off: the host forgets the keyboard.
Deconfigure ==
  /\ bus # "away"
  /\ bus' = "away"
  /\ host' = KeyboardIdleReport
  /\ fn' = FunctionDisabled(fn)
  /\ UNCHANGED bridgeVars

Configure ==
  /\ bus = "away" /\ fn.node # "gone"
  /\ FastReset \/ ~DisableSignal(kbd, fn)
  /\ bus' = "configured"
  /\ fn' = FunctionEnabled(fn)
  /\ UNCHANGED <<bridgeVars, host>>

Suspend ==
  /\ bus = "configured"
  /\ bus' = "suspended"
  /\ UNCHANGED <<bridgeVars, fn, host>>

Resume ==
  /\ bus = "suspended"
  /\ bus' = "configured"
  /\ UNCHANGED <<bridgeVars, fn, host>>

\* `gadget down' and `gadget up' while the bridge runs.  The node is back as soon
\* as the gadget is bound; its answer to GET_REPORT is set later, if at all.
GadgetDown ==
  /\ Rebuild # {} /\ fn.node # "gone"
  /\ bus' = "away"
  /\ host' = KeyboardIdleReport
  /\ fn' = FunctionRemoved
  /\ kbd' = DeviceOrphaned(kbd)
  /\ UNCHANGED <<pressed, macroPressed, queue, calls, mode>>

GadgetUp ==
  /\ fn.node = "gone"
  /\ \E node \in Rebuild : fn' = FunctionBuilt(node)
  /\ UNCHANGED <<bridgeVars, bus, host>>

GadgetPrimes ==
  /\ fn.node # "gone" /\ fn.priming = "due"
  /\ fn' = FunctionPrimed(fn, KeyboardIdleReport)
  /\ UNCHANGED <<bridgeVars, bus, host>>

-----------------------------------------------------------------------------
Input ==
  \/ \E s \in Sources, held \in SUBSET Usages : Process(s, held)
  \/ \E s \in Sources : RemoveSource(s)
  \/ \E held \in SUBSET MacroUsages, rest \in {<<>>, <<"reply">>} :
       MacroKeys(held, rest)
  \/ ReleaseAll

Handler == OnWritable \/ ReadOutputReport \/ PollHostState \/ ServiceBackoff

Pump == PumpReturns \/ PumpDelivers \/ PumpDefers

Ending == Stop \/ PumpFaults \/ ReleaseWrite \/ ReleaseFaults

Environment ==
  \/ Collect \/ Deconfigure \/ Configure \/ Suspend \/ Resume
  \/ GadgetDown \/ GadgetUp \/ GadgetPrimes

Next ==
  Input \/ ClearSources \/ Handler \/ Pump \/ Ending \/ BackoffExpires \/ Environment

Spec == Init /\ [][Next]_vars

(***************************************************************************)
(* Fairness.  A handler that has started goes on.  select() is level       *)
(* triggered and every iteration of the loop serves every ready fd, the    *)
(* rescan timer and the backoff timer, however often other handlers run in *)
(* between: strong fairness.  A host that stays configured polls.          *)
(***************************************************************************)
Fairness ==
  /\ WF_vars(Pump)
  /\ WF_vars(ClearSources)
  /\ SF_vars(OnWritable)
  /\ SF_vars(PollHostState)
  /\ SF_vars(ServiceBackoff)
  /\ SF_vars(ReadOutputReport)
  /\ WF_vars(BackoffExpires)
  /\ WF_vars(Collect)

FairSpec == Spec /\ Fairness

-----------------------------------------------------------------------------
(***************************************************************************)
(* Properties.                                                             *)
(***************************************************************************)
\* The reports the merged state can have.
Report == { KeyboardReport(u) : u \in SUBSET (Usages \cup MacroUsages) }

TypeOK ==
  /\ pressed \in [Sources -> SUBSET Usages]
  /\ macroPressed \in SUBSET MacroUsages
  /\ queue \in Seq(Report) /\ Len(queue) <= QueueMax
  /\ kbd \in Device(Report)
  /\ fn \in Function(Report)
  /\ bus \in BusState
  /\ host \in Report
  /\ calls \in Seq({"pump", "pollout", "clear", "reply"})
  /\ mode \in {"running", "releasing", "down", "gaveup"}

\* What the host holds once it has collected what the kernel has for it.
HostNext == IF fn.inflight # None THEN fn.inflight ELSE host

\* The newest state the bridge has accepted for the host is the merged state
\* of all sources and macros, whatever was coalesced, dropped from a full
\* queue or lost on the way (_flush_keyboard compares with the tail).
TailIsCurrent ==
  mode = "running" => TailState(queue, kbd) \in {Current, None}

\* The bridge never forgets a key the host still holds: while it does not
\* know the host's state, the host holds nothing; otherwise the host holds
\* what the bridge believes, or nothing (last_report in hidg.py).
HostIsKnown ==
  mode = "running" => HostNext \in {kbd.last, KeyboardIdleReport}

\* "No key can stick" (README.md:129): once the queue is empty the host holds
\* the merged state, or nothing.
NoStuckKey ==
  mode = "running" /\ queue = <<>> => HostNext \in {Current, KeyboardIdleReport}

(***************************************************************************)
(* The inductive invariant behind these: a host that cannot be reached     *)
(* holds nothing.                                                          *)
(***************************************************************************)
Untouched == fn.inflight = None /\ host = KeyboardIdleReport

AwayIsUntouched == bus = "away" => Untouched
OffIsAway == fn.off => bus = "away"

\* The function the bridge has no live fd for has not been written to, and
\* the bridge's fd is live only while the node is the one it opened.
OthersAreUntouched == mode = "running" /\ kbd.fd # "live" => Untouched
NodeIsOpened == mode = "running" /\ fn.node # "same" => kbd.fd # "live"

\* host_disabled is cleared by the next report that is sent.
DisabledIsIdle ==
  mode = "running" /\ kbd.disabled => HostNext = KeyboardIdleReport

\* shutdown() is not entered with a handler half way.
OnlyRunningCalls == calls # <<>> => mode = "running"

IInv ==
  /\ TypeOK
  /\ OnlyRunningCalls
  /\ TailIsCurrent
  /\ HostIsKnown
  /\ AwayIsUntouched
  /\ OffIsAway
  /\ OthersAreUntouched
  /\ NodeIsOpened
  /\ DisabledIsIdle

\* The bridge skips the GET_REPORT ioctl only when the kernel has that answer
\* already (cache_get_report), also after the node was recreated -- but when
\* `gadget up' primes a node the bridge has opened before it (gadget.py:297).  Then
\* the kernel answers idle, until the bridge publishes another report.
CacheCoherent ==
  kbd.fd = "live" =>
    \/ kbd.cached = fn.answer
    \/ fn.priming = "last" /\ fn.answer = KeyboardIdleReport

\* The states on their way to the host, oldest first.
Backlog == (IF fn.inflight = None THEN <<>> ELSE <<fn.inflight>>) \o queue

\* The states of the keyboard reach the host in order, none is invented, and
\* none is skipped but those a full queue gives up, repetitions, those the host
\* was not there for, and those shutdown() clears.
Power ==
  IF mode = "running" THEN "on" ELSE IF mode = "releasing" THEN mode ELSE "off"

Channel ==
  INSTANCE StateChannel WITH
    State    <- Report,
    Idle     <- KeyboardIdleReport,
    Capacity <- QueueMax + 1,
    Repeats  <- FALSE,
    backlog  <- Backlog,
    seen     <- host,
    up       <- bus # "away",
    power    <- Power,
    aware    <- HostNext = kbd.last

InOrder == Channel!Spec

(***************************************************************************)
(* What the steps of the channel rest on, beside IInv.                     *)
(***************************************************************************)
\* What the kernel has for the host is what was sent last, or the bridge does
\* not know.
InflightIsLast ==
  mode = "running" /\ fn.inflight # None => kbd.last \in {fn.inflight, None}

\* A gadget that is torn down has no host; shutdown() clears the queue.
GoneIsAway == fn.node = "gone" => bus = "away"
EndedIsEmpty == mode # "running" => queue = <<>>

ChannelInv ==
  /\ IInv
  /\ InflightIsLast
  /\ GoneIsAway
  /\ EndedIsEmpty

\* A host that stays configured ends up with the state the keys are in and
\* stay in, whatever was in flight, deferred, refused or lost before.
StateArrives ==
  \A report \in Report :
    <>[](mode = "running" /\ bus = "configured" /\ Current = report)
      => <>[](host = report)

=============================================================================
