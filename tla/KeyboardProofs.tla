--------------------------- MODULE KeyboardProofs ---------------------------
(***************************************************************************)
(* For any sources, usages, slots, queue length and gadget: the invariants *)
(* of Keyboard, and that it implements StateChannel.                       *)
(***************************************************************************)
EXTENDS Keyboard, HidgProofs, FiniteSetTheorems, SequenceLemmas

Call == {"pump", "pollout", "clear", "reply"}

Outcomes == {"noopen", "same", "lost", "busy", "sent"}

-----------------------------------------------------------------------------
(***************************************************************************)
(* Reports and the queue.                                                  *)
(***************************************************************************)
LEMMA IdleIsReport == KeyboardIdleReport \in Report
<1>1. KeyboardReport({}) = KeyboardIdleReport
  <2> DEFINE keys == { u \in {} : ~IsModifier(u) /\ u \in 4..MaxUsage }
  <2>1. keys = {} /\ { u \in {} : IsModifier(u) } = {}
    OBVIOUS
  <2>2. ~(Cardinality(keys) > Slots)
    BY <2>1, FS_EmptySet, SlotsAssumption
  <2>3. KeyboardReport({}) =
          [ mods |-> { u \in {} : IsModifier(u) },
            keys |-> IF Cardinality(keys) > Slots THEN {ErrorRollOver} ELSE keys ]
    BY DEF KeyboardReport
  <2> HIDE DEF keys
  <2>4. QED
    BY <2>1, <2>2, <2>3 DEF KeyboardIdleReport
<1>2. QED
  BY <1>1 DEF Report

LEMMA ReportIsKeyReport ==
  ASSUME NEW u \in SUBSET Usage
  PROVE  KeyboardReport(u) \in KeyReport
<1>1. ErrorRollOver \in Usage
  BY DEF ErrorRollOver, Usage
<1>2. QED
  BY <1>1 DEF KeyboardReport, KeyReport

LEMMA NoneIsNoReport == None \notin Report
<1>1. SUBSET (Usages \cup MacroUsages) \subseteq SUBSET Usage
  BY UsagesAssumption
<1>2. Report \subseteq KeyReport
  BY <1>1, ReportIsKeyReport DEF Report
<1>3. QED
  BY <1>2, NoneAssumption

LEMMA MergedIsReport ==
  ASSUME NEW held \in [Sources -> SUBSET Usages], NEW macro \in SUBSET MacroUsages
  PROVE  KeyboardReport(AllUsages(held, macro)) \in Report
<1>1. AllUsages(held, macro) \subseteq Usages \cup MacroUsages
  BY DEF AllUsages
<1>2. QED
  BY <1>1 DEF Report

LEMMA PushFacts ==
  ASSUME NEW S, NEW q \in Seq(S), NEW r \in S, Len(q) <= QueueMax
  PROVE  /\ Push(q, r) \in Seq(S)
         /\ Len(Push(q, r)) <= QueueMax
         /\ Push(q, r) # <<>>
         /\ Last(Push(q, r)) = r
<1>1. CASE Len(q) < QueueMax
  BY <1>1, QueueMaxAssumption DEF Push, Last
<1>2. CASE ~(Len(q) < QueueMax)
  <2>1. q # <<>> /\ Len(q) = QueueMax
    BY <1>2, QueueMaxAssumption
  <2>2. Tail(q) \in Seq(S) /\ Len(Tail(q)) = Len(q) - 1
    BY <2>1
  <2>3. QED
    BY <1>2, <2>1, <2>2, QueueMaxAssumption DEF Push, Last
<1>3. QED
  BY <1>1, <1>2

\* Taking the oldest state leaves the newest one where it is.
LEMMA TailFacts ==
  ASSUME NEW S, NEW q \in Seq(S), q # <<>>, Len(q) <= QueueMax
  PROVE  /\ Head(q) \in S
         /\ Tail(q) \in Seq(S) /\ Len(Tail(q)) <= QueueMax
         /\ Tail(q) # <<>> => Last(Tail(q)) = Last(q)
         /\ Tail(q) = <<>> => Head(q) = Last(q)
<1>1. Tail(q) \in Seq(S) /\ Len(Tail(q)) = Len(q) - 1
  OBVIOUS
<1>2. Len(q) \in Nat \ {0} /\ QueueMax \in Nat
  BY QueueMaxAssumption
<1>3. ASSUME Tail(q) # <<>> PROVE Last(Tail(q)) = Last(q)
  <2>1. Len(q) > 1
    BY <1>1, <1>2, <1>3
  <2>2. Tail(q)[Len(q) - 1] = q[Len(q)]
    BY <1>1, <2>1
  <2>3. QED
    BY <1>1, <2>2 DEF Last
<1>4. ASSUME Tail(q) = <<>> PROVE Head(q) = Last(q)
  <2>1. Len(Tail(q)) = 0
    BY <1>4, EmptySeq
  <2>2. Len(q) = 1
    <3>1. Len(q) - 1 = 0
      BY <1>1, <2>1
    <3>2. Len(q) \in Nat
      OBVIOUS
    <3>3. QED
      BY <3>1, <3>2
  <2>3. QED
    BY <2>2 DEF Last
<1>5. QED
  BY <1>1, <1>2, <1>3, <1>4

LEMMA CallsFacts ==
  ASSUME NEW c \in Seq(Call), c # <<>>
  PROVE  Remaining(Tail(c)) \in Seq(Call)
<1>1. Tail(c) \in Seq(Call) /\ <<>> \in Seq(Call)
  OBVIOUS
<1>2. QED
  BY <1>1 DEF Remaining

-----------------------------------------------------------------------------
(***************************************************************************)
(* After a flush the newest state is the one that was flushed, and the     *)
(* device differs only in what it takes for granted of a silent host.      *)
(***************************************************************************)
LEMMA FlushFacts ==
  ASSUME TypeOK,
         NEW d \in Device(Report), NEW report \in Report, NEW rest \in Seq(Call),
         Flush(d, report, rest)
  PROVE  /\ queue' \in Seq(Report) /\ Len(queue') <= QueueMax
         /\ kbd' \in Device(Report)
         /\ calls' \in Seq(Call)
         /\ TailState(queue', kbd') = report
         /\ kbd'.fd = d.fd /\ kbd'.disabled = d.disabled
         /\ kbd'.last # d.last => d.last = None /\ kbd'.last = KeyboardIdleReport
<1>1. queue \in Seq(Report) /\ Len(queue) <= QueueMax
  BY DEF TypeOK
<1>2. FlushCalls(queue, d, report) \o rest \in Seq(Call)
  <2>1. "pump" \in Call
    BY DEF Call
  <2>2. FlushCalls(queue, d, report) \in Seq(Call)
    BY <2>1 DEF FlushCalls
  <2>3. QED
    BY <2>2
<1>3. calls' \in Seq(Call)
  BY <1>2 DEF Flush, Remaining
<1>4. CASE Silent(queue, d, report)
  <2>1. queue = <<>> /\ d.last = None /\ report = KeyboardIdleReport
    <3>1. ASSUME queue # <<>> PROVE FALSE
      <4>1. Last(queue) \in Report
        BY <1>1, <3>1 DEF Last
      <4>2. QED
        BY <1>4, <3>1, <4>1, NoneIsNoReport DEF Silent, TailState
    <3>2. QED
      BY <1>4, <3>1 DEF Silent, TailState
  <2>2. queue' = queue /\ kbd' = [d EXCEPT !.last = KeyboardIdleReport]
    BY <1>4 DEF Flush, FlushedQueue, FlushedDevice
  <2>3. QED
    BY <1>1, <1>3, <2>1, <2>2, IdleIsReport DEF Device, TailState
<1>5. CASE ~Silent(queue, d, report) /\ report = TailState(queue, d)
  <2>1. queue' = queue /\ kbd' = d
    BY <1>5 DEF Flush, FlushedQueue, FlushedDevice
  <2>2. QED
    BY <1>1, <1>3, <1>5, <2>1
<1>6. CASE ~Silent(queue, d, report) /\ report # TailState(queue, d)
  <2>1. queue' = Push(queue, report) /\ kbd' = d
    BY <1>6 DEF Flush, FlushedQueue, FlushedDevice
  <2>2. QED
    BY <1>1, <1>3, <2>1, PushFacts DEF TailState
<1>7. QED
  BY <1>4, <1>5, <1>6

\* A handler that changes what is held and flushes.
LEMMA FlushPreserves ==
  ASSUME IInv, mode = "running",
         pressed' \in [Sources -> SUBSET Usages],
         macroPressed' \in SUBSET MacroUsages,
         NEW rest \in Seq(Call),
         Flush(kbd, KeyboardReport(AllUsages(pressed', macroPressed')), rest),
         UNCHANGED <<fn, bus, host, mode>>
  PROVE  IInv'
<1> DEFINE report == KeyboardReport(AllUsages(pressed', macroPressed'))
<1>1. report \in Report
  BY MergedIsReport
<1>2. kbd \in Device(Report) /\ TypeOK
  BY DEF IInv, TypeOK
<1>3. Current' = report
  BY DEF Current
<1> HIDE DEF report
<1>4. /\ queue' \in Seq(Report) /\ Len(queue') <= QueueMax
      /\ kbd' \in Device(Report)
      /\ calls' \in Seq(Call)
      /\ TailState(queue', kbd') = report
      /\ kbd'.fd = kbd.fd /\ kbd'.disabled = kbd.disabled
      /\ kbd'.last # kbd.last => kbd.last = None /\ kbd'.last = KeyboardIdleReport
  BY <1>1, <1>2, FlushFacts DEF report
<1>5. TypeOK'
  BY <1>2, <1>4 DEF TypeOK, Call
<1>6. TailIsCurrent'
  BY <1>3, <1>4 DEF TailIsCurrent
<1>7. HostIsKnown'
  <2>1. HostNext \in Report
    BY <1>2 DEF TypeOK, HostNext, Function
  <2>2. HostNext' = HostNext
    BY DEF HostNext
  <2>3. QED
    BY <1>4, <2>1, <2>2, NoneIsNoReport DEF HostIsKnown, IInv
<1>8. QED
  BY <1>4, <1>5, <1>6, <1>7
     DEF IInv, OnlyRunningCalls, AwayIsUntouched, OffIsAway, OthersAreUntouched, NodeIsOpened,
         DisabledIsIdle, Untouched, HostNext
-----------------------------------------------------------------------------
(***************************************************************************)
(* One attempt to write the oldest state, whoever asks for it.             *)
(***************************************************************************)
LEMMA WriteKeepsHost ==
  ASSUME IInv, mode = "running", NEW report \in Report, NEW force \in BOOLEAN
  PROVE  LET out == WriteOutcome(kbd, fn, bus, report, force)
             w == Written(report, out)
         IN
         /\ out \in Outcomes
         /\ w.dev \in Device(Report) /\ w.fun \in Function(Report)
         /\ w.fun.off = fn.off
         /\ w.fun.node # "same" => w.dev.fd # "live"
         /\ w.dev.fd # "live" => out # "sent" /\ kbd.fd # "live"
         /\ w.dev.disabled => out # "sent" /\ kbd.disabled
         /\ out = "sent" => /\ bus # "away"
                           /\ w.dev.last = report /\ w.fun.inflight = report
         /\ out # "sent" => w.fun.inflight = fn.inflight
         /\ out = "same" => report = kbd.last
         /\ out \in {"same", "busy"} => w.dev.last = kbd.last
         /\ out \in {"noopen", "lost"} => w.dev.last = None /\ Untouched
  <1> DEFINE out == WriteOutcome(kbd, fn, bus, report, force)
             w == Written(report, out)
  <1>1. kbd \in Device(Report) /\ fn \in Function(Report)
    BY DEF IInv, TypeOK
  <1>2. /\ out \in Outcomes
        /\ out = "noopen" => kbd.fd = "closed"
        /\ out # "noopen" /\ kbd.fd = "closed" => fn.node # "gone"
        /\ out = "lost" => kbd.fd = "stale" \/ bus = "away"
        /\ out = "same" => report = kbd.last
        /\ out = "sent" => kbd.fd # "stale" /\ bus # "away"
    BY <1>1, OutcomeFacts DEF Outcomes
  <1> HIDE DEF out
  <1>3. /\ w.dev \in Device(Report) /\ w.fun \in Function(Report)
        /\ w.fun.off = fn.off
        /\ out # "noopen" /\ kbd.fd = "closed"
             => w.dev.fd = "live" /\ w.fun.node = "same"
        /\ out = "noopen" \/ kbd.fd # "closed"
             => w.dev.fd = kbd.fd /\ w.fun.node = fn.node
        /\ out \in {"noopen", "lost"} => w.dev.last = None
        /\ out = "sent" => w.dev.last = report
        /\ out \in {"same", "busy"} => w.dev.last = kbd.last
        /\ out = "sent" => ~w.dev.disabled /\ w.fun.inflight = report
        /\ out # "sent" => /\ w.dev.disabled = kbd.disabled
                          /\ w.fun.inflight = fn.inflight
    <2>1. out \in {"noopen", "same", "lost", "busy", "sent"}
      BY <1>2 DEF Outcomes
    <2>2. KeyboardIdleReport \in Report
      BY IdleIsReport
    <2>3. Writes(Report, kbd, fn, report, out, w)
      BY <1>1, <2>1, <2>2, WriteFacts DEF Written
    <2>4. QED
      BY <2>3 DEF Writes
  <1> HIDE DEF w
  <1>4. out \in {"noopen", "lost"} => Untouched
    BY <1>2 DEF IInv, AwayIsUntouched, OthersAreUntouched
  <1>5. /\ w.fun.node # "same" => w.dev.fd # "live"
        /\ w.dev.fd # "live" => out # "sent" /\ kbd.fd # "live"
    BY <1>1, <1>2, <1>3 DEF IInv, NodeIsOpened, Device
  <1>6. QED
    BY <1>2, <1>3, <1>4, <1>5 DEF w, out

-----------------------------------------------------------------------------
(***************************************************************************)
(* The invariant, action by action.                                        *)
(***************************************************************************)
LEMMA InitInvariant == Init => IInv
<1> SUFFICES ASSUME Init PROVE IInv
  OBVIOUS
<1> DEFINE f0 == FunctionPrimed(FunctionBuilt("same"), KeyboardIdleReport)
           o == Open(NewDevice, f0, KeyboardIdleReport)
<1>1. NewDevice \in Device(Report) /\ NewDevice.last = None
      /\ NewDevice.fd = "closed" /\ NewDevice.disabled = FALSE
  BY DEF NewDevice, Device
<1>2. f0 \in Function(Report) /\ f0.inflight = None /\ ~f0.off
  BY IdleIsReport DEF FunctionBuilt, FunctionPrimed, Function
<1> HIDE DEF f0
<1>3. /\ o.dev \in Device(Report) /\ o.fun \in Function(Report)
      /\ o.dev.fd = "live" /\ o.dev.last = None /\ o.dev.disabled = FALSE
      /\ o.fun.inflight = None /\ o.fun.node = "same" /\ ~o.fun.off
  BY <1>1, <1>2, OpenFacts, IdleIsReport
<1>4. kbd = o.dev /\ fn = o.fun
  BY DEF Init, f0
<1> HIDE DEF o
<1>5. TypeOK
  BY <1>3, <1>4, IdleIsReport, QueueMaxAssumption DEF Init, TypeOK
<1>6. QED
  BY <1>3, <1>4, <1>5
     DEF Init, IInv, OnlyRunningCalls, TailIsCurrent, TailState, HostIsKnown, HostNext,
         AwayIsUntouched, OffIsAway, OthersAreUntouched, NodeIsOpened, DisabledIsIdle,
         Untouched

\* Outside of the loop only the types and the absent host matter.
LEMMA EndedInvariant ==
  ASSUME TypeOK', AwayIsUntouched', OffIsAway',
         mode' # "running", calls' = <<>>
  PROVE  IInv'
  BY DEF IInv, OnlyRunningCalls, TailIsCurrent, HostIsKnown, OthersAreUntouched,
         NodeIsOpened, DisabledIsIdle

LEMMA PumpInvariant ==
  ASSUME IInv, mode = "running", PumpDelivers \/ PumpDefers
  PROVE  IInv'
<1> DEFINE r == Head(queue)
           w == Written(r, Outcome)
<1>1. /\ queue \in Seq(Report) /\ Len(queue) <= QueueMax /\ queue # <<>>
      /\ calls \in Seq(Call) /\ calls # <<>>
  BY DEF IInv, TypeOK, PumpDelivers, PumpDefers, MustStop, Pumping, Call
<1>2. /\ r \in Report
      /\ Tail(queue) \in Seq(Report) /\ Len(Tail(queue)) <= QueueMax
      /\ Tail(queue) # <<>> => Last(Tail(queue)) = Last(queue)
      /\ Tail(queue) = <<>> => r = Last(queue)
  BY <1>1, TailFacts
<1>3. /\ Outcome \in Outcomes
      /\ w.dev \in Device(Report) /\ w.fun \in Function(Report)
      /\ w.fun.off = fn.off
      /\ w.fun.node # "same" => w.dev.fd # "live"
      /\ w.dev.fd # "live" => Outcome # "sent" /\ kbd.fd # "live"
      /\ w.dev.disabled => Outcome # "sent" /\ kbd.disabled
      /\ Outcome = "sent" => /\ bus # "away"
                             /\ w.dev.last = r /\ w.fun.inflight = r
      /\ Outcome # "sent" => w.fun.inflight = fn.inflight
      /\ Outcome = "same" => r = kbd.last
      /\ Outcome \in {"same", "busy"} => w.dev.last = kbd.last
      /\ Outcome \in {"noopen", "lost"} => w.dev.last = None /\ Untouched
  BY <1>2, WriteKeepsHost DEF Outcome
<1> HIDE DEF r, w
<1>4. UNCHANGED <<pressed, macroPressed, bus, host, mode>> /\ Current' = Current
  BY DEF PumpDelivers, PumpDefers, Current
<1>5. fn' = w.fun
  BY DEF PumpDelivers, PumpDefers, w, r
<1>6. /\ kbd' \in Device(Report) /\ kbd'.fd = w.dev.fd
      /\ kbd'.last = w.dev.last /\ kbd'.disabled = w.dev.disabled
  BY <1>3 DEF PumpDelivers, PumpDefers, w, r, OnWriteDeferred, EnterBackoff, Device
<1>7. /\ queue' \in Seq(Report) /\ Len(queue') <= QueueMax
      /\ TailState(queue', kbd') \in {TailState(queue, kbd), None}
  <2>1. CASE PumpDelivers
    <3>1. queue' = Tail(queue) /\ Outcome \in {"sent", "same"}
      BY <2>1 DEF PumpDelivers, Accepted
    <3>2. kbd'.last = r
      BY <1>3, <1>6, <3>1
    <3>3. QED
      BY <1>1, <1>2, <3>1, <3>2 DEF TailState
  <2>2. CASE PumpDefers
    BY <1>1, <2>2 DEF PumpDefers, TailState
  <2>3. QED
    BY <2>1, <2>2
<1>8. calls' \in Seq(Call)
  BY <1>1, CallsFacts DEF PumpDelivers, PumpDefers, Return
<1>9. TypeOK'
  BY <1>3, <1>4, <1>5, <1>6, <1>7, <1>8 DEF IInv, TypeOK, Call
<1>10. TailIsCurrent'
  BY <1>4, <1>7 DEF IInv, TailIsCurrent
<1>11. HostIsKnown'
  <2>1. CASE Outcome = "sent"
    BY <1>2, <1>3, <1>5, <1>6, <2>1, NoneIsNoReport DEF HostIsKnown, HostNext
  <2>2. CASE Outcome \in {"same", "busy"}
    BY <1>3, <1>4, <1>5, <1>6, <2>2 DEF IInv, HostIsKnown, HostNext
  <2>3. CASE Outcome \in {"noopen", "lost"}
    BY <1>3, <1>4, <1>5, <1>6, <2>3 DEF HostIsKnown, HostNext, Untouched
  <2>4. QED
    BY <1>3, <2>1, <2>2, <2>3 DEF Outcomes
<1>12. /\ AwayIsUntouched' /\ OffIsAway' /\ OthersAreUntouched'
       /\ NodeIsOpened' /\ DisabledIsIdle'
  BY <1>3, <1>4, <1>5, <1>6
     DEF IInv, OnlyRunningCalls, AwayIsUntouched, OffIsAway, OthersAreUntouched, NodeIsOpened, DisabledIsIdle,
         Untouched, HostNext
<1>13. QED
  BY <1>4, <1>9, <1>10, <1>11, <1>12 DEF IInv, OnlyRunningCalls
LEMMA PollInvariant ==
  ASSUME IInv, PollHostState
  PROVE  IInv'
<1> DEFINE v == Revalidate(kbd, fn, KeyboardIdleReport)
           dev == HostStateChanged(v.dev, bus)
<1>1. /\ kbd \in Device(Report) /\ fn \in Function(Report) /\ TypeOK
      /\ mode = "running"
  BY DEF IInv, TypeOK, PollHostState, Idling
<1>2. Revalidates(Report, kbd, fn, v)
  BY <1>1, RevalidateFacts, IdleIsReport
<1>3. v.dev \in Device(Report) /\ v.fun \in Function(Report)
  BY <1>2 DEF Revalidates
<1>4. v.dev.last = kbd.last \/ (v.dev.last = None /\ Untouched)
  BY <1>1, <1>2 DEF Revalidates, IInv, NodeIsOpened, OthersAreUntouched
<1>5. /\ v.dev.fd # "live" => kbd.fd # "live"
      /\ v.fun.node # "same" => v.dev.fd # "live"
  BY <1>1, <1>2 DEF Revalidates, IInv, NodeIsOpened
<1>6. /\ v.fun.inflight = fn.inflight /\ v.fun.off = fn.off
      /\ v.dev.disabled = kbd.disabled
  BY <1>2 DEF Revalidates
<1> HIDE DEF v
<1>7. /\ dev \in Device(Report)
      /\ dev.fd = v.dev.fd /\ dev.last = v.dev.last
      /\ dev.disabled => v.dev.disabled
  BY <1>3 DEF HostStateChanged, Device
<1> HIDE DEF dev
<1>8. /\ fn' = v.fun
      /\ UNCHANGED <<pressed, macroPressed, bus, host, mode>>
      /\ Current' = Current
  BY DEF PollHostState, v, Current
<1>9. "pump" \in Call /\ <<"pump">> \in Seq(Call)
  BY DEF Call
<1>10. HostNext \in Report
  BY <1>1 DEF TypeOK, HostNext, Function
<1>11. CASE Resync(v.dev)
  <2> DEFINE fresh == [dev EXCEPT !.last = None]
  <2>1. fresh \in Device(Report) /\ fresh.last = None
        /\ fresh.fd = dev.fd /\ fresh.disabled = dev.disabled
    BY <1>7 DEF Device
  <2>2. Flush(fresh, Current, <<"pump">>)
    BY <1>11 DEF PollHostState, v, dev
  <2> HIDE DEF fresh
  <2>3. Current \in Report
    BY <1>1, MergedIsReport DEF Current, TypeOK
  <2>4. /\ queue' \in Seq(Report) /\ Len(queue') <= QueueMax
        /\ kbd' \in Device(Report)
        /\ calls' \in Seq(Call)
        /\ TailState(queue', kbd') = Current
        /\ kbd'.fd = dev.fd /\ kbd'.disabled = dev.disabled
        /\ kbd'.last \in {None, KeyboardIdleReport}
    BY <1>1, <1>9, <2>1, <2>2, <2>3, FlushFacts
  <2>5. HostNext = KeyboardIdleReport
    BY <1>1, <1>6, <1>11 DEF Resync, IInv, DisabledIsIdle
  <2>6. HostNext' = KeyboardIdleReport
    BY <1>6, <1>8, <2>5 DEF HostNext
  <2>7. TypeOK'
    BY <1>1, <1>3, <1>8, <2>4 DEF TypeOK, Call
  <2>8. QED
    BY <1>1, <1>5, <1>6, <1>7, <1>8, <2>4, <2>6, <2>7
       DEF IInv, OnlyRunningCalls, TailIsCurrent, HostIsKnown, AwayIsUntouched, OffIsAway,
           OthersAreUntouched, NodeIsOpened, DisabledIsIdle, Untouched
<1>12. CASE ~Resync(v.dev)
  <2>1. kbd' = dev /\ calls' = <<"pump">> /\ queue' = queue
    BY <1>12 DEF PollHostState, v, dev
  <2>2. HostNext' = HostNext
    BY <1>6, <1>8 DEF HostNext
  <2>3. TypeOK'
    BY <1>1, <1>3, <1>7, <1>8, <1>9, <2>1 DEF TypeOK, Call
  <2>4. TailIsCurrent'
    BY <1>1, <1>4, <1>7, <1>8, <2>1 DEF IInv, TailIsCurrent, TailState
  <2>5. HostIsKnown'
    BY <1>1, <1>4, <1>7, <1>8, <2>1, <2>2 DEF IInv, HostIsKnown, HostNext, Untouched
  <2>6. QED
    BY <1>1, <1>5, <1>6, <1>7, <1>8, <2>1, <2>2, <2>3, <2>4, <2>5
       DEF IInv, OnlyRunningCalls, AwayIsUntouched, OffIsAway, OthersAreUntouched, NodeIsOpened,
           DisabledIsIdle, Untouched
<1>13. QED
  BY <1>11, <1>12

LEMMA EndingInvariant ==
  ASSUME IInv, Ending
  PROVE  IInv'
<1>1. /\ kbd \in Device(Report) /\ fn \in Function(Report) /\ TypeOK
      /\ KeyboardIdleReport \in Report
  BY IdleIsReport DEF IInv, TypeOK
<1>2. ASSUME NEW d \in Device(Report)
      PROVE  Close(d) \in Device(Report)
  BY DEF Close, Device
<1>3. ASSUME NEW d \in Device(Report), Shutdown(d)
      PROVE  /\ pressed' \in [Sources -> SUBSET Usages]
             /\ macroPressed' \in SUBSET MacroUsages
             /\ queue' \in Seq(Report) /\ Len(queue') <= QueueMax
             /\ kbd' \in Device(Report)
             /\ calls' \in Seq(Call)
             /\ mode' \in {"releasing", "down"} /\ calls' = <<>>
  BY <1>2, <1>3, QueueMaxAssumption DEF Shutdown
<1>4. CASE Stop
  <2>1. TypeOK'
    BY <1>1, <1>3, <1>4 DEF Stop, TypeOK, Call
  <2>2. AwayIsUntouched' /\ OffIsAway'
    BY <1>4 DEF Stop, IInv, AwayIsUntouched, OffIsAway, Untouched
  <2>3. mode' # "running" /\ calls' = <<>>
    BY <1>1, <1>3, <1>4 DEF Stop
  <2>4. QED
    BY <2>1, <2>2, <2>3, EndedInvariant
<1>5. CASE PumpFaults
  <2> DEFINE r == Head(queue)
             w == Written(r, "busy")
  <2>1. r \in Report
    BY <1>1, <1>5, TailFacts DEF PumpFaults, MustStop, TypeOK
  <2>2. Writes(Report, kbd, fn, r, "busy", w)
    BY <1>1, <2>1, WriteFacts DEF Written
  <2>3. /\ w.dev \in Device(Report) /\ w.fun \in Function(Report)
        /\ w.fun.inflight = fn.inflight /\ w.fun.off = fn.off
        /\ w.dev.last = kbd.last /\ w.dev.disabled = kbd.disabled
        /\ kbd.fd = "closed" => w.dev.fd = "live" /\ w.fun.node = "same"
        /\ kbd.fd # "closed" => w.dev.fd = kbd.fd /\ w.fun.node = fn.node
    BY <2>2 DEF Writes
  <2> HIDE DEF w
  <2>4. fn' = w.fun /\ UNCHANGED <<bus, host>>
    BY <1>5 DEF PumpFaults, w, r
  <2>5. AwayIsUntouched' /\ OffIsAway'
    BY <2>3, <2>4 DEF IInv, OnlyRunningCalls, AwayIsUntouched, OffIsAway, Untouched
  <2>6. CASE Last(calls) = "reply"
    <3>1. /\ kbd' = w.dev /\ calls' = <<>>
          /\ UNCHANGED <<pressed, macroPressed, queue, mode>>
      BY <1>5, <2>6 DEF PumpFaults, w, r
    <3>2. TypeOK'
      BY <1>1, <2>3, <2>4, <3>1 DEF TypeOK
    <3>3. TailIsCurrent' /\ HostIsKnown'
      BY <2>3, <2>4, <3>1
         DEF IInv, TailIsCurrent, TailState, Current, HostIsKnown, HostNext
    <3>4. OthersAreUntouched' /\ NodeIsOpened' /\ DisabledIsIdle'
      BY <1>1, <2>3, <2>4, <3>1
         DEF IInv, OthersAreUntouched, NodeIsOpened, DisabledIsIdle, Untouched,
             HostNext
    <3>5. QED
      BY <2>5, <3>1, <3>2, <3>3, <3>4 DEF IInv, OnlyRunningCalls
  <2>7. CASE Last(calls) # "reply"
    <3>1. Shutdown(w.dev)
      BY <1>5, <2>7 DEF PumpFaults, w, r
    <3>2. TypeOK' /\ mode' # "running" /\ calls' = <<>>
      BY <1>1, <1>3, <2>3, <2>4, <3>1 DEF TypeOK, Call
    <3>3. QED
      BY <2>5, <3>2, EndedInvariant
  <2>8. QED
    BY <2>6, <2>7
<1>6. CASE ReleaseWrite
  <2> DEFINE out == ReleaseOutcome
             w == Written(KeyboardIdleReport, out)
  <2>1. /\ out \in Outcomes
        /\ out = "sent" => bus # "away"
    BY <1>1, OutcomeFacts DEF ReleaseOutcome, Outcomes
  <2>2. Writes(Report, kbd, fn, KeyboardIdleReport, out, w)
    BY <1>1, <2>1, WriteFacts DEF Written, Outcomes
  <2>3. /\ w.dev \in Device(Report) /\ w.fun \in Function(Report)
        /\ w.fun.off = fn.off
        /\ out # "sent" => w.fun.inflight = fn.inflight
    BY <2>2 DEF Writes
  <2>4. /\ fn' = w.fun
        /\ mode' \in {"down", "releasing", "gaveup"} /\ mode = "releasing"
        /\ kbd' = w.dev \/ kbd' = Close(w.dev)
        /\ UNCHANGED <<pressed, macroPressed, queue, bus, host, calls>>
    BY <1>6 DEF ReleaseWrite
  <2> HIDE DEF w
  <2>5. TypeOK'
    BY <1>1, <1>2, <2>3, <2>4 DEF TypeOK
  <2>6. AwayIsUntouched' /\ OffIsAway'
    BY <2>1, <2>3, <2>4 DEF IInv, OnlyRunningCalls, AwayIsUntouched, OffIsAway, Untouched
  <2>7. QED
    BY <1>6, <2>4, <2>5, <2>6, EndedInvariant DEF ReleaseWrite, IInv, OnlyRunningCalls
<1>7. CASE ReleaseFaults
  <2> DEFINE w == Written(KeyboardIdleReport, "busy")
  <2>1. Writes(Report, kbd, fn, KeyboardIdleReport, "busy", w)
    BY <1>1, WriteFacts DEF Written
  <2>2. /\ w.dev \in Device(Report) /\ w.fun \in Function(Report)
        /\ w.fun.off = fn.off /\ w.fun.inflight = fn.inflight
    BY <2>1 DEF Writes
  <2>3. /\ fn' = w.fun /\ kbd' = Close(w.dev)
        /\ mode' = "gaveup" /\ mode = "releasing"
        /\ UNCHANGED <<pressed, macroPressed, queue, bus, host, calls>>
    BY <1>7 DEF ReleaseFaults
  <2> HIDE DEF w
  <2>4. TypeOK'
    BY <1>1, <1>2, <2>2, <2>3 DEF TypeOK
  <2>5. AwayIsUntouched' /\ OffIsAway'
    BY <2>2, <2>3 DEF IInv, AwayIsUntouched, OffIsAway, Untouched
  <2>6. QED
    BY <2>3, <2>4, <2>5, EndedInvariant DEF IInv, OnlyRunningCalls
<1>8. QED
  BY <1>4, <1>5, <1>6, <1>7 DEF Ending

LEMMA HostInvariant ==
  ASSUME IInv, Environment
  PROVE  IInv'
<1>1. kbd \in Device(Report) /\ fn \in Function(Report) /\ TypeOK
  BY DEF IInv, TypeOK
<1>2. Current' = Current /\ TailState(queue', kbd') = TailState(queue, kbd)
  BY <1>1 DEF Environment, Collect, Deconfigure, Configure, Suspend, Resume, GadgetDown,
              GadgetUp, GadgetPrimes, bridgeVars, Current, TailState, DeviceOrphaned, Device
<1>3. TypeOK'
  <2>1. kbd' \in Device(Report)
    BY <1>1 DEF Environment, Collect, Deconfigure, Configure, Suspend, Resume, GadgetDown,
                GadgetUp, GadgetPrimes, bridgeVars, DeviceOrphaned, Device
  <2>2. fn' \in Function(Report)
    <3>1. CASE Collect \/ Deconfigure \/ Configure \/ Suspend \/ Resume
      BY <1>1, <3>1
         DEF Collect, Deconfigure, Configure, Suspend, Resume, Function,
             FunctionDisabled, FunctionEnabled
    <3>2. CASE GadgetDown
      BY <1>1, <3>2 DEF GadgetDown, Function, FunctionRemoved
    <3>3. CASE GadgetUp
      <4>1. PICK node \in Rebuild : fn' = FunctionBuilt(node)
        BY <3>3 DEF GadgetUp
      <4>2. node \in {"same", "other", "gone"}
        BY RebuildAssumption
      <4>3. FunctionBuilt(node) \in Function(Report)
        BY <4>2 DEF Function, FunctionBuilt
      <4>4. QED
        BY <4>1, <4>3
    <3>4. CASE GadgetPrimes
      BY <1>1, <3>4, IdleIsReport DEF GadgetPrimes, Function, FunctionPrimed
    <3>5. QED
      BY <3>1, <3>2, <3>3, <3>4 DEF Environment
  <2>3. bus' \in BusState /\ host' \in Report
    BY <1>1, IdleIsReport
       DEF TypeOK, Environment, Collect, Deconfigure, Configure, Suspend, Resume,
           GadgetDown, GadgetUp, GadgetPrimes, BusState, Function
  <2>4. UNCHANGED <<pressed, macroPressed, queue, calls, mode>>
    BY DEF Environment, Collect, Deconfigure, Configure, Suspend, Resume, GadgetDown,
           GadgetUp, GadgetPrimes, bridgeVars
  <2>5. QED
    BY <1>1, <2>1, <2>2, <2>3, <2>4 DEF TypeOK
<1>4. TailIsCurrent'
  <2>1. mode' = mode
    BY DEF Environment, Collect, Deconfigure, Configure, Suspend, Resume, GadgetDown,
           GadgetUp, GadgetPrimes, bridgeVars
  <2>2. QED
    BY <1>2, <2>1 DEF IInv, TailIsCurrent
<1>5. CASE Collect
  BY <1>1, <1>3, <1>4, <1>5
     DEF Collect, bridgeVars, IInv, OnlyRunningCalls, HostIsKnown, HostNext, AwayIsUntouched,
         OffIsAway, OthersAreUntouched, NodeIsOpened, DisabledIsIdle, Untouched, Function
<1>6. CASE Deconfigure \/ GadgetDown
  <2>1. /\ fn'.inflight = None /\ host' = KeyboardIdleReport
        /\ bus' = "away" /\ calls' = calls /\ mode' = mode /\ kbd'.last = kbd.last
        /\ fn'.node # "same" => fn.node # "same" \/ kbd'.fd # "live"
        /\ kbd.fd # "live" => kbd'.fd # "live"
    <3>1. CASE Deconfigure
      BY <1>1, <3>1 DEF Deconfigure, bridgeVars, FunctionDisabled, Function
    <3>2. CASE GadgetDown
      <4>1. fn'.inflight = None
        BY <3>2, RemovedFacts DEF GadgetDown
      <4>2. kbd'.last = kbd.last /\ kbd'.fd # "live"
        BY <1>1, <3>2 DEF GadgetDown, DeviceOrphaned, Device
      <4>3. QED
        BY <3>2, <4>1, <4>2 DEF GadgetDown
    <3>3. QED
      BY <1>6, <3>1, <3>2
  <2>2. QED
    BY <1>3, <1>4, <2>1
       DEF IInv, OnlyRunningCalls, HostIsKnown, HostNext, AwayIsUntouched, OffIsAway,
           OthersAreUntouched, NodeIsOpened, DisabledIsIdle, Untouched
<1>7. CASE Configure \/ Suspend \/ Resume
  <2>1. /\ fn'.inflight = fn.inflight /\ fn'.node = fn.node
        /\ bus' # "away" /\ ~fn'.off
        /\ UNCHANGED <<bridgeVars, host>>
    BY <1>1, <1>7
       DEF Configure, Suspend, Resume, FunctionEnabled, Function, IInv, OffIsAway
  <2>2. QED
    BY <1>3, <1>4, <2>1
       DEF bridgeVars, IInv, OnlyRunningCalls, HostIsKnown, HostNext, AwayIsUntouched,
           OffIsAway, OthersAreUntouched, NodeIsOpened, DisabledIsIdle, Untouched
<1>8. CASE GadgetUp
  <2>1. /\ fn.node = "gone" /\ fn'.inflight = None /\ ~fn'.off
        /\ UNCHANGED <<bridgeVars, bus, host>>
    BY <1>8 DEF GadgetUp, FunctionBuilt
  <2>2. mode = "running" => Untouched /\ kbd.fd # "live"
    BY <2>1 DEF IInv, NodeIsOpened, OthersAreUntouched
  <2>3. QED
    BY <1>3, <1>4, <2>1, <2>2
       DEF bridgeVars, IInv, OnlyRunningCalls, HostIsKnown, HostNext, AwayIsUntouched,
           OffIsAway, OthersAreUntouched, NodeIsOpened, DisabledIsIdle, Untouched
<1>9. CASE GadgetPrimes
  <2>1. /\ fn'.inflight = fn.inflight /\ fn'.off = fn.off /\ fn'.node = fn.node
        /\ UNCHANGED <<bridgeVars, bus, host>>
    BY <1>1, <1>9 DEF GadgetPrimes, FunctionPrimed, Function
  <2>2. QED
    BY <1>3, <1>4, <2>1
       DEF bridgeVars, IInv, OnlyRunningCalls, HostIsKnown, HostNext, AwayIsUntouched,
           OffIsAway, OthersAreUntouched, NodeIsOpened, DisabledIsIdle, Untouched
<1>10. QED
  BY <1>5, <1>6, <1>7, <1>8, <1>9 DEF Environment

\* The steps that change the bridge's flags only.
LEMMA QuietInvariant ==
  ASSUME IInv,
         OnWritable \/ ReadOutputReport \/ ServiceBackoff \/ BackoffExpires
           \/ PumpReturns \/ UNCHANGED vars
  PROVE  IInv'
<1>1. kbd \in Device(Report) /\ fn \in Function(Report) /\ TypeOK
  BY DEF IInv, TypeOK
<1>2. UNCHANGED <<pressed, macroPressed, queue, fn, bus, host, mode>>
      /\ Current' = Current
  BY DEF OnWritable, ReadOutputReport, ServiceBackoff, BackoffExpires, PumpReturns, vars,
         Current
<1>3. /\ kbd' \in Device(Report) /\ kbd'.fd = kbd.fd
      /\ \/ kbd'.last = kbd.last /\ kbd'.disabled = kbd.disabled
         \/ kbd'.last = None /\ (mode = "running" => Untouched)
  <2>1. CASE ReadOutputReport
    <3>1. mode = "running" => Untouched
      BY <2>1 DEF ReadOutputReport, DisableSignal, IInv, OffIsAway, AwayIsUntouched,
                  OthersAreUntouched
    <3>2. QED
      BY <1>1, <2>1, <3>1 DEF ReadOutputReport, ReadDisabled, Device
  <2>2. CASE ~ReadOutputReport
    BY <1>1, <2>2
       DEF OnWritable, ServiceBackoff, BackoffExpires, PumpReturns, vars, Device,
           ExtendBackoff
  <2>3. QED
    BY <2>1, <2>2
<1>4. calls' \in Seq(Call)
  <2>1. calls \in Seq(Call) /\ {<<>>, <<"pump">>, <<"pollout">>} \subseteq Seq(Call)
    <3>1. "pump" \in Call /\ "pollout" \in Call
      BY DEF Call
    <3>2. QED
      BY <1>1, <3>1 DEF TypeOK, Call
  <2>2. CASE PumpReturns
    BY <2>1, <2>2, CallsFacts DEF PumpReturns, Pumping, Return
  <2>3. CASE ~PumpReturns
    BY <2>1, <2>3
       DEF OnWritable, ReadOutputReport, ServiceBackoff, BackoffExpires, vars
  <2>4. QED
    BY <2>2, <2>3
<1>5. TypeOK'
  BY <1>1, <1>2, <1>3, <1>4 DEF TypeOK, Call
<1>6. TailIsCurrent'
  BY <1>2, <1>3 DEF IInv, TailIsCurrent, TailState
<1>7. HostIsKnown' /\ DisabledIsIdle'
  BY <1>2, <1>3 DEF IInv, HostIsKnown, HostNext, DisabledIsIdle, Untouched
<1>8. OnlyRunningCalls'
  BY DEF OnWritable, ReadOutputReport, ServiceBackoff, BackoffExpires, PumpReturns,
         Pumping, Idling, vars, IInv, OnlyRunningCalls
<1>9. AwayIsUntouched' /\ OffIsAway' /\ OthersAreUntouched' /\ NodeIsOpened'
  BY <1>2, <1>3
     DEF IInv, OnlyRunningCalls, AwayIsUntouched, OffIsAway, OthersAreUntouched, NodeIsOpened, Untouched
<1>10. QED
  BY <1>5, <1>6, <1>7, <1>8, <1>9 DEF IInv

LEMMA InputInvariant ==
  ASSUME IInv, Input \/ ClearSources
  PROVE  IInv'
<1>1. /\ pressed \in [Sources -> SUBSET Usages] /\ macroPressed \in SUBSET MacroUsages
      /\ calls \in Seq(Call)
  BY DEF IInv, TypeOK, Call
<1>2. /\ <<>> \in Seq(Call) /\ <<"reply">> \in Seq(Call)
      /\ <<"clear", "reply">> \in Seq(Call)
  <2>1. "reply" \in Call /\ "clear" \in Call
    BY DEF Call
  <2>2. QED
    BY <2>1
<1>3. ASSUME NEW s \in Sources, NEW held \in SUBSET Usages, Process(s, held)
      PROVE  IInv'
  BY <1>1, <1>2, <1>3, FlushPreserves DEF Process, Idling
<1>4. ASSUME NEW s \in Sources, RemoveSource(s)
      PROVE  IInv'
  BY <1>1, <1>2, <1>4, FlushPreserves DEF RemoveSource, Idling
<1>5. ASSUME NEW held \in SUBSET MacroUsages, NEW rest \in Seq(Call),
             MacroKeys(held, rest)
      PROVE  IInv'
  BY <1>1, <1>5, FlushPreserves DEF MacroKeys, Idling
<1>6. CASE ReleaseAll
  BY <1>2, <1>5, <1>6 DEF ReleaseAll
<1>7. CASE ClearSources
  <2>1. Tail(calls) \in Seq(Call)
    BY <1>1, <1>7 DEF ClearSources
  <2>2. QED
    BY <1>1, <1>7, <2>1, FlushPreserves DEF ClearSources, IInv, OnlyRunningCalls
<1>8. QED
  BY <1>2, <1>3, <1>4, <1>5, <1>6, <1>7 DEF Input

-----------------------------------------------------------------------------
(***************************************************************************)
(* The theorems.                                                           *)
(***************************************************************************)
THEOREM Inductive == IInv /\ [Next]_vars => IInv'
<1> SUFFICES ASSUME IInv, [Next]_vars PROVE IInv'
  OBVIOUS
<1>1. CASE Input \/ ClearSources
  BY <1>1, InputInvariant
<1>2. CASE OnWritable \/ ReadOutputReport \/ ServiceBackoff \/ BackoffExpires
             \/ PumpReturns \/ UNCHANGED vars
  BY <1>2, QuietInvariant
<1>3. CASE PollHostState
  BY <1>3, PollInvariant
<1>4. CASE PumpDelivers \/ PumpDefers
  <2>1. mode = "running"
    BY <1>4 DEF PumpDelivers, PumpDefers, Pumping, IInv, OnlyRunningCalls
  <2>2. QED
    BY <1>4, <2>1, PumpInvariant
<1>5. CASE Ending
  BY <1>5, EndingInvariant DEF Ending
<1>6. CASE Environment
  BY <1>6, HostInvariant
<1>7. QED
  BY <1>1, <1>2, <1>3, <1>4, <1>5, <1>6 DEF Next, Handler, Pump

THEOREM Invariance == Spec => []IInv
  BY InitInvariant, Inductive, PTL DEF Spec

(***************************************************************************)
(* Every variable keeps its type: the queue, in particular, its bound.     *)
(***************************************************************************)
THEOREM TypeCorrect == Spec => []TypeOK
<1>1. IInv => TypeOK
  BY DEF IInv
<1>2. QED
  BY <1>1, Invariance, PTL

(***************************************************************************)
(* What _flush_keyboard last accepted for the host is the merged state.    *)
(***************************************************************************)
THEOREM TailCorrect == Spec => []TailIsCurrent
<1>1. IInv => TailIsCurrent
  BY DEF IInv
<1>2. QED
  BY <1>1, Invariance, PTL

(***************************************************************************)
(* The bridge never forgets a key that the host still holds.               *)
(***************************************************************************)
THEOREM HostCorrect == Spec => []HostIsKnown
<1>1. IInv => HostIsKnown
  BY DEF IInv
<1>2. QED
  BY <1>1, Invariance, PTL

(***************************************************************************)
(* No key can stick: with nothing queued, the host holds the merged state, *)
(* which the tail of the empty queue is, or nothing.                       *)
(***************************************************************************)
THEOREM NoKeySticks == Spec => []NoStuckKey
<1>1. ASSUME IInv PROVE NoStuckKey
  <2>1. SUFFICES ASSUME mode = "running", queue = <<>>
                 PROVE  HostNext \in {Current, KeyboardIdleReport}
    BY DEF NoStuckKey
  <2>2. kbd.last \in {Current, None}
    BY <1>1, <2>1 DEF IInv, TailIsCurrent, TailState
  <2>3. HostNext \in {kbd.last, KeyboardIdleReport}
    BY <1>1, <2>1 DEF IInv, HostIsKnown
  <2>4. HostNext \in Report
    BY <1>1 DEF IInv, TypeOK, HostNext, Function
  <2>5. QED
    BY <2>2, <2>3, <2>4, NoneIsNoReport
<1>2. QED
  BY <1>1, Invariance, PTL

-----------------------------------------------------------------------------
(***************************************************************************)
(* The GET_REPORT cache, in every mode.                                    *)
(***************************************************************************)
LEMMA FlushCoheres ==
  ASSUME NEW d \in Device(Report), NEW f, NEW report, NEW rest,
         Flush(d, report, rest), Coheres(d, f, KeyboardIdleReport)
  PROVE  Coheres(kbd', f, KeyboardIdleReport)
<1>1. kbd'.fd = d.fd /\ kbd'.cached = d.cached
  BY DEF Flush, FlushedDevice, Device
<1>2. QED
  BY <1>1 DEF Coheres

LEMMA WrittenCoheres ==
  ASSUME TypeOK, Coheres(kbd, fn, KeyboardIdleReport),
         NEW report \in Report, NEW out \in Outcomes,
         NEW w, w = Written(report, out)
  PROVE  w.dev \in Device(Report) /\ Coheres(w.dev, w.fun, KeyboardIdleReport)
<1>1. kbd \in Device(Report) /\ fn \in Function(Report)
  BY DEF TypeOK
<1>2. KeyboardIdleReport \in Report /\ None \notin Report
  BY IdleIsReport, NoneIsNoReport
<1>3. out \in {"noopen", "same", "lost", "busy", "sent"}
  BY DEF Outcomes
<1>4. w = WriteReport(kbd, fn, report, report, KeyboardIdleReport, out)
  BY DEF Written
<1>5. Writes(Report, kbd, fn, report, out, w)
  BY <1>1, <1>2, <1>3, <1>4, WriteFacts
<1>6. QED
  BY <1>1, <1>2, <1>3, <1>4, <1>5, WriteCoheres DEF Writes

LEMMA NextCoheres ==
  TypeOK /\ Coheres(kbd, fn, KeyboardIdleReport) /\ [Next]_vars
    => Coheres(kbd, fn, KeyboardIdleReport)'
<1> SUFFICES ASSUME TypeOK, Coheres(kbd, fn, KeyboardIdleReport), [Next]_vars
             PROVE  Coheres(kbd', fn', KeyboardIdleReport)
  OBVIOUS
<1>1. kbd \in Device(Report) /\ fn \in Function(Report)
  BY DEF TypeOK
<1>2. CASE Input \/ ClearSources
  BY <1>1, <1>2, FlushCoheres
     DEF Input, Process, RemoveSource, ReleaseAll, MacroKeys, ClearSources
<1>3. CASE OnWritable \/ ReadOutputReport \/ ServiceBackoff \/ BackoffExpires
             \/ PumpReturns \/ UNCHANGED vars
  <2>1. fn' = fn /\ kbd'.fd = kbd.fd /\ kbd'.cached = kbd.cached
    BY <1>1, <1>3
       DEF OnWritable, ReadOutputReport, ReadDisabled, ServiceBackoff, ExtendBackoff,
           BackoffExpires, PumpReturns, vars, Device
  <2>2. QED
    BY <2>1 DEF Coheres
<1>4. CASE PollHostState
  <2> DEFINE v == Revalidate(kbd, fn, KeyboardIdleReport)
             dev == HostStateChanged(v.dev, bus)
  <2>1. Revalidates(Report, kbd, fn, v)
    BY <1>1, IdleIsReport, RevalidateFacts
  <2>2. v.dev \in Device(Report) /\ Coheres(v.dev, v.fun, KeyboardIdleReport)
    BY <1>1, <2>1, IdleIsReport, NoneIsNoReport, RevalidateCoheres DEF Revalidates
  <2>3. /\ fn' = v.fun
        /\ \/ Flush([dev EXCEPT !.last = None], Current, <<"pump">>)
           \/ kbd' = dev
    BY <1>4 DEF PollHostState
  <2> HIDE DEF v
  <2>4. /\ dev \in Device(Report) /\ dev.fd = v.dev.fd /\ dev.cached = v.dev.cached
        /\ [dev EXCEPT !.last = None] \in Device(Report)
        /\ [dev EXCEPT !.last = None].fd = v.dev.fd
        /\ [dev EXCEPT !.last = None].cached = v.dev.cached
    BY <2>2 DEF HostStateChanged, Device
  <2> HIDE DEF dev
  <2>5. /\ Coheres(dev, fn', KeyboardIdleReport)
        /\ Coheres([dev EXCEPT !.last = None], fn', KeyboardIdleReport)
    BY <2>2, <2>3, <2>4 DEF Coheres
  <2>6. QED
    BY <2>3, <2>4, <2>5, FlushCoheres
<1>5. CASE PumpDelivers \/ PumpDefers \/ PumpFaults
  <2> DEFINE report == Head(queue)
  <2>1. report \in Report
    BY <1>5 DEF TypeOK, PumpDelivers, PumpDefers, PumpFaults, MustStop
  <2>2. Outcome \in Outcomes /\ "busy" \in Outcomes
    BY <1>1, OutcomeFacts DEF Outcome, Outcomes
  <2>3. PICK out \in Outcomes :
          /\ fn' = Written(report, out).fun
          /\ kbd' \in {Written(report, out).dev, Close(Written(report, out).dev),
                       EnterBackoff(Written(report, out).dev)}
    BY <1>5, <2>2 DEF PumpDelivers, PumpDefers, PumpFaults, OnWriteDeferred, Shutdown
  <2> DEFINE w == Written(report, out)
  <2>4. w.dev \in Device(Report) /\ Coheres(w.dev, w.fun, KeyboardIdleReport)
    BY <2>1, WrittenCoheres
  <2> HIDE DEF w, report
  <2>5. /\ kbd'.fd \in {w.dev.fd, "closed"}
        /\ kbd'.cached = w.dev.cached /\ fn' = w.fun
    BY <2>3, <2>4 DEF w, Close, EnterBackoff, Device
  <2>6. QED
    BY <2>4, <2>5 DEF Coheres
<1>6. CASE Stop
  BY <1>1, <1>6 DEF Stop, Shutdown, Close, Coheres, Device
<1>7. CASE ReleaseWrite \/ ReleaseFaults
  <2>1. ReleaseOutcome \in Outcomes /\ "busy" \in Outcomes
    BY <1>1, OutcomeFacts DEF ReleaseOutcome, Outcomes
  <2>2. PICK out \in Outcomes :
          /\ fn' = Written(KeyboardIdleReport, out).fun
          /\ kbd' \in {Written(KeyboardIdleReport, out).dev,
                       Close(Written(KeyboardIdleReport, out).dev)}
    BY <1>7, <2>1 DEF ReleaseWrite, ReleaseFaults
  <2> DEFINE w == Written(KeyboardIdleReport, out)
  <2>3. w.dev \in Device(Report) /\ Coheres(w.dev, w.fun, KeyboardIdleReport)
    BY IdleIsReport, WrittenCoheres
  <2>4. fn' = w.fun /\ kbd' \in {w.dev, Close(w.dev)}
    BY <2>2
  <2> HIDE DEF w
  <2>5. QED
    BY <2>3, <2>4 DEF Close, Coheres, Device
<1>8. CASE Environment
  <2>1. CASE Collect \/ Deconfigure \/ Configure \/ Suspend \/ Resume
    BY <1>1, <2>1
       DEF Collect, Deconfigure, Configure, Suspend, Resume, bridgeVars, Coheres,
           FunctionDisabled, FunctionEnabled, Function
  <2>2. CASE GadgetDown
    BY <1>1, <2>2 DEF GadgetDown, DeviceOrphaned, Coheres, Device
  <2>3. CASE GadgetUp
    BY <1>1, <2>3 DEF GadgetUp, bridgeVars, Coheres
  <2>4. CASE GadgetPrimes
    BY <1>1, <2>4 DEF GadgetPrimes, FunctionPrimed, bridgeVars, Coheres, Function
  <2>5. QED
    BY <1>8, <2>1, <2>2, <2>3, <2>4 DEF Environment
<1>9. QED
  BY <1>2, <1>3, <1>4, <1>5, <1>6, <1>7, <1>8 DEF Next, Handler, Pump, Ending

(***************************************************************************)
(* The ioctl is left out only when the kernel has that answer already,     *)
(* also on a node that was recreated and in shutdown(): or when `gadget    *)
(* up' primed a node the bridge had opened before, and the kernel answers  *)
(* idle until the bridge has another report to publish.                    *)
(***************************************************************************)
THEOREM CacheCorrect == Spec => []CacheCoherent
<1>1. ASSUME Init PROVE Coheres(kbd, fn, KeyboardIdleReport)
  <2> DEFINE f0 == FunctionPrimed(FunctionBuilt("same"), KeyboardIdleReport)
  <2>1. NewDevice \in Device(Report) /\ Coheres(NewDevice, f0, KeyboardIdleReport)
    BY DEF NewDevice, Device, Coheres
  <2>2. f0 \in Function(Report)
    BY IdleIsReport DEF FunctionBuilt, FunctionPrimed, Function
  <2>3. kbd = Open(NewDevice, f0, KeyboardIdleReport).dev
        /\ fn = Open(NewDevice, f0, KeyboardIdleReport).fun
    BY <1>1 DEF Init
  <2> HIDE DEF f0
  <2>4. QED
    BY <2>1, <2>2, <2>3, IdleIsReport, NoneIsNoReport, OpenCoheres
<1>2. Coheres(kbd, fn, KeyboardIdleReport) => CacheCoherent
  BY DEF Coheres, CacheCoherent
<1>3. QED
  BY <1>1, <1>2, NextCoheres, TypeCorrect, PTL DEF Spec

-----------------------------------------------------------------------------
(***************************************************************************)
(* Keyboard implements StateChannel: every step of the bridge, the gadget  *)
(* and the host is a step of the channel or leaves it as it is.            *)
(*                                                                         *)
(* The backlog: what the kernel has for the host, followed by the queue.   *)
(***************************************************************************)
Waiting(x, q) == (IF x = None THEN <<>> ELSE <<x>>) \o q

LEMMA NothingWaiting ==
  ASSUME NEW q \in Seq(Report)
  PROVE  Waiting(None, q) = q
<1>1. Waiting(None, q) = <<>> \o q
  BY DEF Waiting
<1>2. QED
  BY <1>1, ConcatEmptySeq

LEMMA WaitingFacts ==
  ASSUME NEW x \in Report, NEW q \in Seq(Report)
  PROVE  /\ Waiting(x, q) \in Seq(Report) /\ Waiting(x, q) # <<>>
         /\ Len(Waiting(x, q)) = Len(q) + 1
         /\ Waiting(x, q)[1] = x /\ \A i \in 1..Len(q) : Waiting(x, q)[i + 1] = q[i]
         /\ Head(Waiting(x, q)) = x /\ Tail(Waiting(x, q)) = q
         /\ q = <<>> => Last(Waiting(x, q)) = x
         /\ q # <<>> => Last(Waiting(x, q)) = Last(q)
<1> DEFINE c == Waiting(x, q)
<1>1. c = <<x>> \o q
  BY NoneIsNoReport DEF Waiting
<1> HIDE DEF c
<1>2. /\ c \in Seq(Report) /\ Len(c) = Len(q) + 1
      /\ c[1] = x /\ \A i \in 1..Len(q) : c[i + 1] = q[i]
  BY <1>1, OneConcat
<1>3. /\ c # <<>> /\ Head(c) = x /\ Tail(c) = q
      /\ q = <<>> => Last(c) = x
      /\ q # <<>> => Last(c) = Last(q)
  <2>1. ASSUME NEW w \in Seq(Report), Len(w) = Len(q) + 1,
               \A i \in 1..Len(q) : w[i + 1] = q[i]
        PROVE  /\ w # <<>> /\ Head(w) = w[1] /\ Tail(w) = q
               /\ q = <<>> => Last(w) = w[1]
               /\ q # <<>> => Last(w) = Last(q)
    BY <2>1, OneAhead
  <2>2. QED
    BY <1>2, <2>1, Zenon
<1>4. QED
  BY <1>2, <1>3 DEF c

\* A state queued behind the others is at the end of the backlog.
LEMMA WaitingAppend ==
  ASSUME NEW x \in Report \cup {None}, NEW q \in Seq(Report), NEW r \in Report
  PROVE  Waiting(x, Append(q, r)) = Append(Waiting(x, q), r)
<1>1. (IF x = None THEN <<>> ELSE <<x>>) \in Seq(Report)
  OBVIOUS
<1>2. QED
  BY <1>1, ConcatAppend DEF Waiting

\* Without the oldest state of the queue, the backlog is without the first or
\* the second of its own.
LEMMA WaitingRemoval ==
  ASSUME NEW x \in Report \cup {None}, NEW q \in Seq(Report), q # <<>>,
         NEW b, b = Waiting(x, q)
  PROVE  /\ Tail(q) \in Seq(Report)
         /\ x = None => Waiting(x, Tail(q)) = RemoveAt(b, 1)
         /\ x # None => Waiting(x, Tail(q)) = RemoveAt(b, 2)
<1>1. Tail(q) \in Seq(Report)
  OBVIOUS
<1>2. ASSUME x = None PROVE Waiting(x, Tail(q)) = RemoveAt(b, 1)
  <2>1. b = q /\ Waiting(x, Tail(q)) = Tail(q)
    BY <1>1, <1>2, NothingWaiting
  <2>2. QED
    BY <2>1, FirstRemoved
<1>3. ASSUME x # None PROVE Waiting(x, Tail(q)) = RemoveAt(b, 2)
  <2> DEFINE f == <<x>>
  <2>1. f \in Seq(Report) /\ Len(f) = 1
    BY <1>3
  <2>2. b = f \o q /\ Waiting(x, Tail(q)) = f \o Tail(q)
    BY <1>3 DEF Waiting
  <2> HIDE DEF f
  <2>3. f \o Tail(q) = RemoveAt(f \o q, Len(f) + 1)
    BY <2>1, ConcatRemoval
  <2>4. Len(f) + 1 = 2
    BY <2>1
  <2>5. QED
    BY <2>2, <2>3, <2>4, Zenon
<1>4. QED
  BY <1>1, <1>2, <1>3

-----------------------------------------------------------------------------
(***************************************************************************)
(* The steps of the host.                                                  *)
(***************************************************************************)
\* The channel reads its sequences with the same operators.
LEMMA SameLast == ASSUME NEW q PROVE Channel!Last(q) = Last(q)
BY DEF Channel!Last, Last

LEMMA SameRemoveAt ==
  ASSUME NEW q, NEW i PROVE Channel!RemoveAt(q, i) = RemoveAt(q, i)
BY DEF Channel!RemoveAt, RemoveAt

\* The two backlogs of a step.
LEMMA BacklogFacts ==
  ASSUME TypeOK
  PROVE  /\ fn.inflight \in Report \cup {None} /\ queue \in Seq(Report)
         /\ kbd \in Device(Report) /\ fn \in Function(Report)
         /\ Backlog = Waiting(fn.inflight, queue)
         /\ Backlog' = Waiting(fn'.inflight, queue')
         /\ Backlog \in Seq(Report)
<1>1. fn.inflight \in Report \cup {None} /\ queue \in Seq(Report)
  BY DEF TypeOK, Function
<1>2. /\ Backlog = Waiting(fn.inflight, queue)
      /\ Backlog' = Waiting(fn'.inflight, queue')
  BY DEF Backlog, Waiting
<1>3. Waiting(fn.inflight, queue) \in Seq(Report)
  <2>1. CASE fn.inflight = None
    BY <1>1, <2>1, NothingWaiting
  <2>2. CASE fn.inflight # None
    BY <1>1, <2>2, WaitingFacts
  <2>3. QED
    BY <2>1, <2>2
<1>4. QED
  BY <1>1, <1>2, <1>3 DEF TypeOK

\* A step that changes nothing the channel knows.
LEMMA Stutters ==
  ASSUME fn'.inflight = fn.inflight, UNCHANGED <<queue, host, bus, mode>>
  PROVE  UNCHANGED Channel!vars
  BY DEF Backlog, Power, Channel!vars

LEMMA HostRefines ==
  ASSUME ChannelInv, Environment
  PROVE  [Channel!Next]_(Channel!vars)
<1>1. /\ Backlog = Waiting(fn.inflight, queue) /\ Backlog' = Waiting(fn'.inflight, queue')
      /\ fn.inflight \in Report \cup {None} /\ queue \in Seq(Report)
      /\ fn \in Function(Report)
  BY BacklogFacts DEF ChannelInv, IInv
<1>2. CASE Collect
  <2>1. /\ fn'.inflight = None /\ fn.inflight # None /\ queue' = queue
        /\ bus' = bus /\ bus # "away" /\ host' = fn.inflight /\ mode' = mode
    BY <1>1, <1>2 DEF Collect, bridgeVars, Function
  <2>2. Backlog # <<>> /\ Head(Backlog) = fn.inflight /\ Tail(Backlog) = queue
    BY <1>1, <2>1, WaitingFacts
  <2>3. Backlog' = queue
    BY <1>1, <2>1, NothingWaiting
  <2>4. Channel!Deliver
    BY <2>1, <2>2, <2>3 DEF Channel!Deliver, Power
  <2>5. QED
    BY <2>4 DEF Channel!Next
<1>3. CASE Deconfigure \/ GadgetDown
  <2>1. /\ fn'.inflight = None /\ queue' = queue /\ mode' = mode
        /\ bus' = "away" /\ host' = KeyboardIdleReport
    <3>1. CASE Deconfigure
      BY <1>1, <3>1 DEF Deconfigure, bridgeVars, FunctionDisabled, Function
    <3>2. CASE GadgetDown
      BY <3>2, RemovedFacts DEF GadgetDown
    <3>3. QED
      BY <1>3, <3>1, <3>2
  <2>2. Backlog' = Backlog \/ (Backlog # <<>> /\ Backlog' = Tail(Backlog))
    <3>1. Backlog' = queue
      BY <1>1, <2>1, NothingWaiting
    <3>2. CASE fn.inflight = None
      BY <1>1, <3>1, <3>2, NothingWaiting
    <3>3. CASE fn.inflight # None
      BY <1>1, <3>1, <3>3, WaitingFacts
    <3>4. QED
      BY <3>2, <3>3
  <2>3. Channel!Disconnect
    BY <2>1, <2>2 DEF Channel!Disconnect, Power
  <2>4. QED
    BY <2>3 DEF Channel!Next
<1>4. CASE Configure
  <2>1. /\ fn'.inflight = fn.inflight /\ UNCHANGED <<queue, host, mode>>
        /\ bus = "away" /\ bus' = "configured"
    BY <1>1, <1>4 DEF Configure, bridgeVars, FunctionEnabled, Function
  <2>2. Backlog' = Backlog
    BY <1>1, <2>1
  <2>3. Channel!Connect
    BY <2>1, <2>2 DEF Channel!Connect, Power
  <2>4. QED
    BY <2>3 DEF Channel!Next
<1>5. CASE Suspend \/ Resume
  <2>1. /\ UNCHANGED <<fn, queue, host, mode>>
        /\ bus # "away" /\ bus' # "away"
    BY <1>5 DEF Suspend, Resume, bridgeVars
  <2>2. UNCHANGED Channel!vars
    BY <2>1 DEF Backlog, Power, Channel!vars
  <2>3. QED
    BY <2>2
<1>6. CASE GadgetUp
  <2>1. /\ fn'.inflight = None /\ fn.node = "gone"
        /\ UNCHANGED <<queue, host, bus, mode>>
    BY <1>6 DEF GadgetUp, bridgeVars, FunctionBuilt
  <2>2. fn.inflight = None
    BY <2>1 DEF ChannelInv, GoneIsAway, IInv, AwayIsUntouched, Untouched
  <2>3. QED
    BY <2>1, <2>2, Stutters
<1>7. CASE GadgetPrimes
  <2>1. fn'.inflight = fn.inflight /\ UNCHANGED <<queue, host, bus, mode>>
    BY <1>1, <1>7 DEF GadgetPrimes, bridgeVars, FunctionPrimed, Function
  <2>2. QED
    BY <2>1, Stutters
<1>8. QED
  BY <1>2, <1>3, <1>4, <1>5, <1>6, <1>7 DEF Environment

-----------------------------------------------------------------------------
(***************************************************************************)
(* The steps of the bridge.                                                *)
(***************************************************************************)
\* The course the host is on: what it has, and the backlog.
LEMMA CourseFacts ==
  ASSUME TypeOK
  PROVE  /\ Channel!Course[1] = host
         /\ \A i \in 1..Len(Backlog) : Channel!Course[i + 1] = Backlog[i]
         /\ queue = <<>> => Last(Channel!Course) = HostNext
         /\ queue # <<>> => Last(Channel!Course) = Last(queue)
<1>1. /\ Backlog = Waiting(fn.inflight, queue) /\ Backlog \in Seq(Report)
      /\ fn.inflight \in Report \cup {None} /\ queue \in Seq(Report)
  BY BacklogFacts
<1>2. host \in Report
  BY DEF TypeOK
<1>3. Channel!Course = Waiting(host, Backlog)
  BY <1>2, NoneIsNoReport DEF Channel!Course, Waiting
<1>4. /\ Channel!Course[1] = host
      /\ \A i \in 1..Len(Backlog) : Channel!Course[i + 1] = Backlog[i]
      /\ Backlog = <<>> => Last(Channel!Course) = host
      /\ Backlog # <<>> => Last(Channel!Course) = Last(Backlog)
  BY <1>1, <1>2, <1>3, WaitingFacts
<1>5. CASE fn.inflight = None
  <2>1. Backlog = queue
    BY <1>1, <1>5, NothingWaiting
  <2>2. QED
    BY <1>4, <1>5, <2>1 DEF HostNext
<1>6. CASE fn.inflight # None
  <2>1. /\ Backlog # <<>>
        /\ queue = <<>> => Last(Backlog) = fn.inflight
        /\ queue # <<>> => Last(Backlog) = Last(queue)
    BY <1>1, <1>6, WaitingFacts
  <2>2. QED
    BY <1>4, <1>6, <2>1 DEF HostNext
<1>7. QED
  BY <1>5, <1>6

\* A state that is queued tells the host something new, if the host is known;
\* the queue gives up its oldest state for it when it is full.
LEMMA FlushRefines ==
  ASSUME ChannelInv, NEW d \in Device(Report), NEW report \in Report, NEW rest,
         Flush(d, report, rest),
         fn'.inflight = fn.inflight, UNCHANGED <<host, bus, mode>>, mode = "running",
         \/ d.last = kbd.last
         \/ d.last = None /\ HostNext = KeyboardIdleReport
  PROVE  [Channel!Next]_(Channel!vars)
<1>1. /\ Backlog = Waiting(fn.inflight, queue) /\ Backlog' = Waiting(fn'.inflight, queue')
      /\ fn.inflight \in Report \cup {None} /\ queue \in Seq(Report)
      /\ Backlog \in Seq(Report) /\ TypeOK /\ Len(queue) <= QueueMax
  BY BacklogFacts DEF ChannelInv, IInv, TypeOK
<1>2. CASE queue' = queue
  BY <1>2, Stutters
<1>3. CASE queue' # queue
  <2>1. /\ queue' = Push(queue, report)
        /\ ~Silent(queue, d, report) /\ report # TailState(queue, d)
    BY <1>3 DEF Flush, FlushedQueue
  <2>2. HostNext = kbd.last => report # Last(Channel!Course)
    <3>1. CASE queue # <<>>
      BY <1>1, <2>1, <3>1, CourseFacts DEF TailState
    <3>2. CASE queue = <<>>
      <4>1. ASSUME HostNext = kbd.last, report = HostNext PROVE FALSE
        <5>1. TailState(queue, d) = d.last
          BY <3>2 DEF TailState
        <5>2. d.last = None /\ report = KeyboardIdleReport
          BY <2>1, <4>1, <5>1
        <5>3. QED
          BY <2>1, <5>1, <5>2 DEF Silent
      <4>2. QED
        BY <1>1, <3>2, <4>1, CourseFacts
    <3>3. QED
      BY <3>1, <3>2
  <2>3. CASE Len(queue) < QueueMax
    <3>1. Backlog' = Append(Backlog, report)
      <4>1. queue' = Append(queue, report)
        BY <2>1, <2>3 DEF Push
      <4>2. Backlog' = Waiting(fn.inflight, Append(queue, report))
        BY <1>1, <4>1
      <4>3. QED
        BY <1>1, <4>2, WaitingAppend
    <3>2. Len(Backlog) < QueueMax + 1
      <4>1. Len(Backlog) \in {Len(queue), Len(queue) + 1}
        BY <1>1, NothingWaiting, WaitingFacts
      <4>2. QED
        BY <1>1, <2>3, <4>1, QueueMaxAssumption
    <3>3. Channel!Offer(report)
      BY <2>2, <3>1, <3>2, SameLast DEF Channel!Offer, Power
    <3>4. QED
      BY <3>3 DEF Channel!Next
  <2>4. CASE ~(Len(queue) < QueueMax)
    <3>1. Len(queue) = QueueMax /\ queue # <<>> /\ Len(queue) \in Nat \ {0}
      BY <1>1, <2>4, QueueMaxAssumption
    <3>2. Tail(queue) \in Seq(Report)
      BY <1>1, <3>1
    <3>3. Backlog' = Append(Waiting(fn.inflight, Tail(queue)), report)
      <4>1. queue' = Append(Tail(queue), report)
        BY <2>1, <2>4 DEF Push
      <4>2. Backlog' = Waiting(fn.inflight, Append(Tail(queue), report))
        BY <1>1, <4>1
      <4>3. QED
        BY <1>1, <3>2, <4>2, WaitingAppend
    <3>4. \E i \in {1, 2} :
            /\ Len(Backlog) >= (QueueMax + 1) - 2 + i /\ i <= Len(Backlog)
            /\ Backlog' = Append(RemoveAt(Backlog, i), report)
      <4>1. CASE fn.inflight = None
        <5>1. Waiting(fn.inflight, Tail(queue)) = RemoveAt(Backlog, 1)
          BY <1>1, <3>1, <4>1, WaitingRemoval
        <5>2. Backlog = queue
          BY <1>1, <4>1, NothingWaiting
        <5>3. Len(Backlog) >= (QueueMax + 1) - 2 + 1 /\ 1 <= Len(Backlog)
          BY <3>1, <5>2
        <5>4. QED
          BY <3>3, <5>1, <5>3
      <4>2. CASE fn.inflight # None
        <5>1. Waiting(fn.inflight, Tail(queue)) = RemoveAt(Backlog, 2)
          BY <1>1, <3>1, <4>2, WaitingRemoval
        <5>2. Len(Backlog) = Len(queue) + 1
          BY <1>1, <4>2, WaitingFacts
        <5>3. Len(Backlog) >= (QueueMax + 1) - 2 + 2 /\ 2 <= Len(Backlog)
          BY <3>1, <5>2
        <5>4. QED
          BY <3>3, <5>1, <5>3
      <4>3. QED
        BY <4>1, <4>2
    <3>5. UNCHANGED <<host, bus # "away", mode>>
      OBVIOUS
    <3>6. Channel!Offer(report)
      BY <2>2, <3>4, <3>5, SameLast, SameRemoveAt DEF Channel!Offer, Power
    <3>7. QED
      BY <3>6 DEF Channel!Next
  <2>5. QED
    BY <2>3, <2>4
<1>4. QED
  BY <1>2, <1>3

LEMMA InputRefines ==
  ASSUME ChannelInv, Input \/ ClearSources
  PROVE  [Channel!Next]_(Channel!vars)
<1>1. /\ pressed \in [Sources -> SUBSET Usages] /\ macroPressed \in SUBSET MacroUsages
      /\ kbd \in Device(Report)
  BY DEF ChannelInv, IInv, TypeOK
<1>2. PICK rest : /\ Flush(kbd, KeyboardReport(AllUsages(pressed', macroPressed')), rest)
                  /\ pressed' \in [Sources -> SUBSET Usages]
                  /\ macroPressed' \in SUBSET MacroUsages
                  /\ UNCHANGED <<fn, bus, host, mode>> /\ mode = "running"
  <2>1. ASSUME NEW s \in Sources, NEW held \in SUBSET Usages, Process(s, held)
        PROVE  /\ Flush(kbd, KeyboardReport(AllUsages(pressed', macroPressed')), <<>>)
               /\ pressed' \in [Sources -> SUBSET Usages]
               /\ macroPressed' \in SUBSET MacroUsages
               /\ UNCHANGED <<fn, bus, host, mode>> /\ mode = "running"
    BY <1>1, <2>1 DEF Process, Idling
  <2>2. ASSUME NEW s \in Sources, RemoveSource(s)
        PROVE  /\ Flush(kbd, KeyboardReport(AllUsages(pressed', macroPressed')), <<>>)
               /\ pressed' \in [Sources -> SUBSET Usages]
               /\ macroPressed' \in SUBSET MacroUsages
               /\ UNCHANGED <<fn, bus, host, mode>> /\ mode = "running"
    BY <1>1, <2>2 DEF RemoveSource, Idling
  <2>3. ASSUME NEW held \in SUBSET MacroUsages, NEW rest, MacroKeys(held, rest)
        PROVE  /\ Flush(kbd, KeyboardReport(AllUsages(pressed', macroPressed')), rest)
               /\ pressed' \in [Sources -> SUBSET Usages]
               /\ macroPressed' \in SUBSET MacroUsages
               /\ UNCHANGED <<fn, bus, host, mode>> /\ mode = "running"
    BY <1>1, <2>3 DEF MacroKeys, Idling
  <2>4. CASE ClearSources
    BY <1>1, <2>4 DEF ClearSources, ChannelInv, IInv, OnlyRunningCalls
  <2>5. QED
    BY <2>1, <2>2, <2>3, <2>4 DEF Input, ReleaseAll
<1>3. KeyboardReport(AllUsages(pressed', macroPressed')) \in Report
  BY <1>2, MergedIsReport
<1>4. QED
  BY <1>1, <1>2, <1>3, FlushRefines

LEMMA QuietRefines ==
  ASSUME OnWritable \/ ReadOutputReport \/ ServiceBackoff \/ BackoffExpires
           \/ PumpReturns \/ UNCHANGED vars
  PROVE  [Channel!Next]_(Channel!vars)
<1>1. UNCHANGED <<fn, queue, host, bus, mode>>
  BY DEF OnWritable, ReadOutputReport, ServiceBackoff, BackoffExpires, PumpReturns, vars
<1>2. QED
  BY <1>1, Stutters

\* A host that is back holds nothing, and is offered the current state.
LEMMA PollRefines ==
  ASSUME ChannelInv, PollHostState
  PROVE  [Channel!Next]_(Channel!vars)
<1> DEFINE v == Revalidate(kbd, fn, KeyboardIdleReport)
           dev == HostStateChanged(v.dev, bus)
           fresh == [dev EXCEPT !.last = None]
<1>1. /\ kbd \in Device(Report) /\ fn \in Function(Report) /\ TypeOK /\ IInv
      /\ mode = "running"
  BY DEF ChannelInv, IInv, TypeOK, PollHostState, Idling
<1>2. /\ v.dev \in Device(Report) /\ v.dev.disabled = kbd.disabled
      /\ v.fun.inflight = fn.inflight
  BY <1>1, RevalidateFacts, IdleIsReport DEF Revalidates
<1>3. fn' = v.fun /\ UNCHANGED <<bus, host, mode>>
  BY DEF PollHostState
<1>4. CASE Resync(v.dev)
  <2>1. Flush(fresh, Current, <<"pump">>)
    BY <1>4 DEF PollHostState
  <2> HIDE DEF v
  <2>2. fresh \in Device(Report) /\ fresh.last = None
    BY <1>2 DEF HostStateChanged, Device
  <2> HIDE DEF fresh
  <2>3. HostNext = KeyboardIdleReport
    BY <1>1, <1>2, <1>4 DEF Resync, IInv, DisabledIsIdle
  <2>4. Current \in Report
    BY <1>1, MergedIsReport DEF Current, TypeOK
  <2>5. QED
    BY <1>1, <1>2, <1>3, <2>1, <2>2, <2>3, <2>4, FlushRefines
<1>5. CASE ~Resync(v.dev)
  <2>1. queue' = queue
    BY <1>5 DEF PollHostState
  <2>2. QED
    BY <1>2, <1>3, <2>1, Stutters
<1>6. QED
  BY <1>4, <1>5

\* usb_f_hid takes a report only while it has none.
LEMMA SentFacts ==
  ASSUME NEW d, NEW f, NEW b, NEW report, NEW force
  PROVE  WriteOutcome(d, f, b, report, force) = "sent" => f.inflight = None
BY DEF WriteOutcome

\* The state that is handed over stays where it is in the backlog.
LEMMA WaitingWhole ==
  ASSUME NEW q \in Seq(Report), q # <<>>
  PROVE  Waiting(Head(q), Tail(q)) = q
<1>1. Head(q) \in Report
  BY EmptySeq
<1>2. q = <<Head(q)>> \o Tail(q)
  BY ConcatSimplifications
<1>3. QED
  BY <1>1, <1>2, NoneIsNoReport DEF Waiting

\* The oldest state goes to the kernel, is left out as a repetition of what the
\* host is going to have, or stays.
LEMMA PumpRefines ==
  ASSUME ChannelInv, PumpDelivers \/ PumpDefers
  PROVE  [Channel!Next]_(Channel!vars)
<1> DEFINE r == Head(queue)
           w == Written(r, Outcome)
<1>1. /\ Backlog = Waiting(fn.inflight, queue) /\ Backlog' = Waiting(fn'.inflight, queue')
      /\ fn.inflight \in Report \cup {None} /\ queue \in Seq(Report)
      /\ Backlog \in Seq(Report) /\ TypeOK /\ IInv
  BY BacklogFacts DEF ChannelInv, IInv
<1>2. /\ queue # <<>> /\ mode = "running" /\ UNCHANGED <<host, bus, mode>>
      /\ fn' = w.fun
  BY <1>1 DEF PumpDelivers, PumpDefers, MustStop, Pumping, IInv, OnlyRunningCalls
<1>3. r \in Report /\ r = queue[1] /\ Len(queue) \in Nat \ {0}
  <2>1. Len(queue) \in Nat /\ Len(queue) # 0
    BY <1>1, <1>2, EmptySeq
  <2>2. QED
    BY <1>1, <2>1
<1>4. /\ Outcome \in Outcomes
      /\ Outcome = "sent" => w.fun.inflight = r
      /\ Outcome # "sent" => w.fun.inflight = fn.inflight
      /\ Outcome = "same" => r = kbd.last
  BY <1>1, <1>2, <1>3, WriteKeepsHost DEF Outcome
<1>5. Outcome = "sent" => fn.inflight = None
  BY SentFacts DEF Outcome
<1> HIDE DEF w
<1>6. CASE PumpDefers
  <2>1. Outcome # "sent" /\ queue' = queue
    BY <1>6 DEF PumpDefers, Accepted
  <2>2. QED
    BY <1>2, <1>4, <2>1, Stutters
<1>7. CASE PumpDelivers /\ Outcome = "sent"
  <2>1. queue' = Tail(queue)
    BY <1>7 DEF PumpDelivers
  <2>2. Backlog = queue
    BY <1>1, <1>5, <1>7, NothingWaiting
  <2>3. Backlog' = Waiting(Head(queue), Tail(queue))
    BY <1>1, <1>2, <1>4, <1>7, <2>1
  <2>4. Backlog' = Backlog
    BY <1>1, <1>2, <2>2, <2>3, WaitingWhole
  <2>5. UNCHANGED Channel!vars
    BY <1>2, <2>4 DEF Channel!vars, Power
  <2>6. QED
    BY <2>5
<1>8. CASE PumpDelivers /\ Outcome = "same"
  <2>1. queue' = Tail(queue) /\ r = kbd.last
    BY <1>4, <1>8 DEF PumpDelivers
  <2>2. Backlog' = Waiting(fn.inflight, Tail(queue))
    BY <1>1, <1>2, <1>4, <1>8, <2>1
  <2>3. /\ Channel!Course[1] = host
        /\ \A i \in 1..Len(Backlog) : Channel!Course[i + 1] = Backlog[i]
    BY <1>1, CourseFacts
  <2>4. UNCHANGED <<host, bus # "away", Power>>
    BY <1>2 DEF Power
  <2>5. CASE fn.inflight = None
    <3>1. Backlog = queue /\ Backlog # <<>>
      BY <1>1, <1>2, <2>5, NothingWaiting
    <3>2. Backlog' = RemoveAt(Backlog, 1)
      BY <1>1, <1>2, <2>2, <2>5, WaitingRemoval
    <3>3. Backlog' = Tail(Backlog)
      BY <1>1, <3>1, <3>2, FirstRemoved
    <3>4. CASE HostNext = kbd.last
      <4>1. Channel!Course[1] = Backlog[1]
        BY <1>3, <2>1, <2>3, <2>5, <3>1, <3>4 DEF HostNext
      <4>2. 1 \in 1..Len(Backlog)
        BY <1>3, <3>1
      <4>3. Channel!LeaveOut
        BY <2>4, <3>2, <4>1, <4>2, SameRemoveAt DEF Channel!LeaveOut
      <4>4. QED
        BY <4>3 DEF Channel!Next
    <3>5. CASE HostNext # kbd.last
      <4>1. Channel!Lose
        BY <2>4, <3>1, <3>3, <3>5 DEF Channel!Lose
      <4>2. QED
        BY <4>1 DEF Channel!Next
    <3>6. QED
      BY <3>4, <3>5
  <2>6. CASE fn.inflight # None
    <3>1. fn.inflight = r
      BY <1>2, <1>3, <2>1, <2>6, NoneIsNoReport DEF ChannelInv, InflightIsLast
    <3>2. /\ Len(Backlog) = Len(queue) + 1
          /\ Backlog[1] = r /\ Backlog[2] = r
      <4>1. /\ Len(Backlog) = Len(queue) + 1 /\ Backlog[1] = fn.inflight
            /\ \A i \in 1..Len(queue) : Backlog[i + 1] = queue[i]
        <5>1. /\ fn.inflight \in Report /\ queue \in Seq(Report)
              /\ Backlog = Waiting(fn.inflight, queue)
          BY <1>1, <2>6
        <5>2. QED
          BY <5>1, WaitingFacts
      <4>2. 1 \in 1..Len(queue) /\ 1 + 1 = 2
        BY <1>3
      <4>3. QED
        BY <1>3, <3>1, <4>1, <4>2
    <3>3. 1 \in 1..Len(Backlog) /\ 2 \in 1..Len(Backlog) /\ 1 + 1 = 2
      BY <1>3, <3>2
    <3>4. Channel!Course[2] = Backlog[2]
      BY <2>3, <3>2, <3>3
    <3>5. Backlog' = RemoveAt(Backlog, 2)
      BY <1>1, <1>2, <2>2, <2>6, WaitingRemoval
    <3>6. Channel!LeaveOut
      BY <2>4, <3>3, <3>4, <3>5, SameRemoveAt DEF Channel!LeaveOut
    <3>7. QED
      BY <3>6 DEF Channel!Next
  <2>7. QED
    BY <2>5, <2>6
<1>9. QED
  BY <1>6, <1>7, <1>8 DEF PumpDelivers, Accepted

\* The queue is cleared, and what the kernel has is still handed over.
LEMMA ClearedRefines ==
  ASSUME ChannelInv, queue' = <<>>, fn'.inflight = fn.inflight, UNCHANGED <<host, bus>>,
         mode = "running", mode' \in {"releasing", "down"}
  PROVE  [Channel!Next]_(Channel!vars)
<1>1. /\ Backlog = Waiting(fn.inflight, queue) /\ Backlog' = Waiting(fn.inflight, <<>>)
      /\ fn.inflight \in Report \cup {None} /\ queue \in Seq(Report)
      /\ Backlog \in Seq(Report) /\ <<>> \in Seq(Report)
  BY BacklogFacts DEF ChannelInv, IInv
<1>2. UNCHANGED <<host, bus # "away">>
  OBVIOUS
<1>3. \E n \in {0, 1} : n <= Len(Backlog) /\ Backlog' = SubSeq(Backlog, 1, n)
  <2>1. CASE fn.inflight = None
    <3>1. Backlog' = <<>>
      BY <1>1, <2>1, NothingWaiting
    <3>2. SubSeq(Backlog, 1, 0) = <<>> /\ 0 <= Len(Backlog)
      BY <1>1, SubSeqEmpty
    <3>3. QED
      BY <3>1, <3>2
  <2>2. CASE fn.inflight # None
    <3> DEFINE x == fn.inflight
               b == Backlog
               c == Waiting(x, <<>>)
               t == SubSeq(b, 1, 1)
    <3>1. x \in Report /\ Len(<<>>) = 0 /\ Len(queue) \in Nat
      BY <1>1, <2>2
    <3>2. b \in Seq(Report) /\ Len(b) = Len(queue) + 1 /\ b[1] = x
      BY <1>1, <3>1, WaitingFacts
    <3>3. c \in Seq(Report) /\ Len(c) = 1 /\ c[1] = x
      <4>1. x \in Report /\ <<>> \in Seq(Report)
        BY <1>1, <3>1
      <4>2. /\ c \in Seq(Report) /\ Len(c) = Len(<<>>) + 1 /\ c[1] = x
        BY <4>1, WaitingFacts
      <4>3. QED
        BY <3>1, <4>2
    <3> HIDE DEF x, b, c
    <3>4. t \in Seq(Report) /\ Len(t) = 1 /\ t[1] = b[1]
      <4>1. 1 <= Len(b) /\ 1 \in 1..(1 - 1 + 1) /\ 1 + 1 - 1 = 1 /\ b[1] \in Report
        BY <3>1, <3>2
      <4>2. \A i \in 1..1 : b[i] \in Report
        BY <4>1
      <4>3. /\ t \in Seq(Report)
            /\ Len(t) = IF 1 <= 1 THEN 1 - 1 + 1 ELSE 0
            /\ \A i \in 1..(1 - 1 + 1) : t[i] = b[1 + i - 1]
        BY <3>2, <4>2, SubSeqProperties
      <4>4. QED
        BY <4>1, <4>3
    <3> HIDE DEF t
    <3>5. c = t
      BY <3>2, <3>3, <3>4, SeqEqual
    <3>6. 1 <= Len(b)
      BY <3>1, <3>2
    <3>7. QED
      BY <1>1, <3>5, <3>6 DEF x, b, c, t
  <2>3. QED
    BY <2>1, <2>2
<1>4. Channel!SwitchOff
  BY <1>2, <1>3 DEF Channel!SwitchOff, Power
<1>5. QED
  BY <1>4 DEF Channel!Next

\* shutdown() ends without it.
LEMMA GivingUpRefines ==
  ASSUME fn'.inflight = fn.inflight, UNCHANGED <<queue, host, bus>>,
         mode = "releasing", mode' = "gaveup"
  PROVE  [Channel!Next]_(Channel!vars)
<1>1. UNCHANGED <<Backlog, host, bus # "away">>
  BY DEF Backlog
<1>2. Power = "releasing" /\ Power' = "off"
  BY DEF Power
<1>3. Channel!GiveUp
  BY <1>1, <1>2 DEF Channel!GiveUp
<1>4. QED
  BY <1>3 DEF Channel!Next

\* shutdown() says that nothing is held, once, and nothing after it.
LEMMA EndingRefines ==
  ASSUME ChannelInv, Ending
  PROVE  [Channel!Next]_(Channel!vars)
<1>1. /\ Backlog = Waiting(fn.inflight, queue) /\ Backlog' = Waiting(fn'.inflight, queue')
      /\ fn.inflight \in Report \cup {None} /\ queue \in Seq(Report)
      /\ kbd \in Device(Report) /\ fn \in Function(Report)
      /\ KeyboardIdleReport \in Report /\ TypeOK
  BY BacklogFacts, IdleIsReport DEF ChannelInv, IInv
<1>2. CASE Stop
  BY <1>2, ClearedRefines DEF Stop, Shutdown, Idling
<1>3. CASE PumpFaults
  <2> DEFINE r == Head(queue)
             w == Written(r, "busy")
  <2>1. r \in Report
    BY <1>1, <1>3, TailFacts DEF PumpFaults, MustStop, TypeOK
  <2>2. Writes(Report, kbd, fn, r, "busy", w)
    BY <1>1, <2>1, WriteFacts DEF Written
  <2>3. w.fun.inflight = fn.inflight
    BY <2>2 DEF Writes
  <2>4. /\ fn' = w.fun /\ UNCHANGED <<host, bus>> /\ mode = "running"
        /\ \/ UNCHANGED <<queue, mode>>
           \/ queue' = <<>> /\ mode' \in {"releasing", "down"}
    BY <1>3 DEF PumpFaults, Pumping, Shutdown, ChannelInv, IInv, OnlyRunningCalls
  <2> HIDE DEF w
  <2>5. QED
    BY <2>3, <2>4, Stutters, ClearedRefines
<1>4. CASE ReleaseWrite
  <2> DEFINE out == ReleaseOutcome
             w == Written(KeyboardIdleReport, out)
  <2>1. out \in Outcomes /\ (out = "sent" => fn.inflight = None)
    <3>1. out \in Outcomes
      BY <1>1, OutcomeFacts DEF ReleaseOutcome, Outcomes
    <3>2. out = "sent" => fn.inflight = None
      BY SentFacts DEF ReleaseOutcome
    <3>3. QED
      BY <3>1, <3>2
  <2>2. Writes(Report, kbd, fn, KeyboardIdleReport, out, w)
    BY <1>1, <2>1, WriteFacts DEF Written, Outcomes
  <2>3. /\ out = "sent" => w.fun.inflight = KeyboardIdleReport
        /\ out # "sent" => w.fun.inflight = fn.inflight
    BY <2>2 DEF Writes
  <2>4. fn' = w.fun /\ mode = "releasing" /\ UNCHANGED <<queue, bus, host>>
    BY <1>4 DEF ReleaseWrite
  <2> HIDE DEF w, out
  <2>5. CASE out = "sent"
    <3>1. queue = <<>> /\ queue' = <<>>
      BY <2>4 DEF ChannelInv, EndedIsEmpty
    <3>2. Backlog = <<>>
      BY <1>1, <2>1, <2>5, <3>1, NothingWaiting
    <3>3. Backlog' = Waiting(KeyboardIdleReport, <<>>)
      BY <1>1, <2>3, <2>4, <2>5, <3>1
    <3>4. Backlog' = <<KeyboardIdleReport>>
      <4>1. <<KeyboardIdleReport>> \in Seq(Report)
        BY <1>1
      <4>2. Backlog' = <<KeyboardIdleReport>> \o <<>>
        BY <1>1, <3>3, NoneIsNoReport DEF Waiting
      <4>3. QED
        BY <4>1, <4>2, ConcatEmptySeq
    <3>5. mode' = "down"
      BY <1>4, <2>5 DEF ReleaseWrite, out
    <3>6. Channel!Release
      BY <2>4, <3>2, <3>4, <3>5 DEF Channel!Release, Power
    <3>7. QED
      BY <3>6 DEF Channel!Next
  <2>6. CASE out # "sent"
    <3>1. mode' \in {"releasing", "gaveup"}
      BY <1>4, <2>6 DEF ReleaseWrite, out
    <3>2. fn'.inflight = fn.inflight
      BY <2>3, <2>4, <2>6
    <3>3. QED
      BY <2>4, <3>1, <3>2, Stutters, GivingUpRefines
  <2>7. QED
    BY <2>5, <2>6
<1>5. CASE ReleaseFaults
  <2> DEFINE w == Written(KeyboardIdleReport, "busy")
  <2>1. Writes(Report, kbd, fn, KeyboardIdleReport, "busy", w)
    BY <1>1, WriteFacts DEF Written
  <2>2. w.fun.inflight = fn.inflight
    BY <2>1 DEF Writes
  <2>3. /\ fn' = w.fun /\ UNCHANGED <<queue, bus, host>>
        /\ mode = "releasing" /\ mode' = "gaveup"
    BY <1>5 DEF ReleaseFaults
  <2> HIDE DEF w
  <2>4. QED
    BY <2>2, <2>3, GivingUpRefines
<1>6. QED
  BY <1>2, <1>3, <1>4, <1>5 DEF Ending

-----------------------------------------------------------------------------
(***************************************************************************)
(* ChannelInv, action by action.                                           *)
(***************************************************************************)
LEMMA FlushedLast ==
  ASSUME TypeOK, NEW d \in Device(Report), NEW report, NEW rest, Flush(d, report, rest)
  PROVE  kbd'.last = d.last \/ (d.last = None /\ kbd'.last = KeyboardIdleReport)
<1>1. CASE Silent(queue, d, report)
  <2>1. queue = <<>>
    <3>1. ASSUME queue # <<>> PROVE FALSE
      <4>1. Last(queue) \in Report
        BY <3>1 DEF TypeOK, Last
      <4>2. QED
        BY <1>1, <3>1, <4>1, NoneIsNoReport DEF Silent, TailState
    <3>2. QED
      BY <3>1
  <2>2. d.last = None
    BY <1>1, <2>1 DEF Silent, TailState
  <2>3. kbd'.last = KeyboardIdleReport
    BY <1>1 DEF Flush, FlushedDevice, Device
  <2>4. QED
    BY <2>2, <2>3
<1>2. CASE ~Silent(queue, d, report)
  BY <1>2 DEF Flush, FlushedDevice
<1>3. QED
  BY <1>1, <1>2

\* A write never makes the node go away.
LEMMA WrittenNode ==
  ASSUME TypeOK, NEW report \in Report, NEW out \in Outcomes
  PROVE  Written(report, out).fun.node \in {"same", fn.node}
<1>1. Writes(Report, kbd, fn, report, out, Written(report, out))
  BY IdleIsReport, WriteFacts DEF TypeOK, Written, Outcomes
<1>2. kbd.fd = "closed" \/ kbd.fd # "closed"
  OBVIOUS
<1>3. QED
  BY <1>1, <1>2 DEF Writes

\* In a step that keeps what is in flight the bridge keeps what it sent last, or
\* forgets it, or takes for granted that the host holds nothing, if so.
LEMMA LastInvariant ==
  ASSUME ChannelInv, mode' = "running" => mode = "running",
         fn'.inflight \in {fn.inflight, None},
         \/ kbd'.last \in {kbd.last, None}
         \/ kbd'.last = KeyboardIdleReport
              /\ HostNext \in {KeyboardIdleReport, None}
  PROVE  InflightIsLast'
<1> SUFFICES ASSUME mode' = "running", fn'.inflight # None
             PROVE  kbd'.last \in {fn'.inflight, None}
  BY DEF InflightIsLast
<1>1. fn'.inflight = fn.inflight /\ mode = "running"
  OBVIOUS
<1>2. CASE kbd'.last \in {kbd.last, None}
  BY <1>1, <1>2 DEF ChannelInv, InflightIsLast
<1>3. CASE kbd'.last = KeyboardIdleReport /\ HostNext \in {KeyboardIdleReport, None}
  BY <1>1, <1>3 DEF HostNext
<1>4. QED
  BY <1>2, <1>3

LEMMA InputChannel ==
  ASSUME ChannelInv, Input \/ ClearSources
  PROVE  InflightIsLast' /\ GoneIsAway' /\ EndedIsEmpty'
<1>1. /\ kbd \in Device(Report) /\ TypeOK /\ mode = "running"
      /\ mode' = mode /\ fn' = fn /\ bus' = bus
      /\ \E report, rest : Flush(kbd, report, rest)
  BY DEF ChannelInv, IInv, TypeOK, OnlyRunningCalls, Input, Process, RemoveSource,
         ReleaseAll, MacroKeys, ClearSources, Idling
<1>2. kbd'.last = kbd.last \/ (kbd.last = None /\ kbd'.last = KeyboardIdleReport)
  BY <1>1, FlushedLast
<1>3. HostNext \in {kbd.last, KeyboardIdleReport}
  BY <1>1 DEF ChannelInv, IInv, HostIsKnown
<1>4. InflightIsLast'
  BY <1>1, <1>2, <1>3, LastInvariant
<1>5. QED
  BY <1>1, <1>4 DEF ChannelInv, GoneIsAway, EndedIsEmpty

LEMMA QuietChannel ==
  ASSUME ChannelInv,
         OnWritable \/ ReadOutputReport \/ ServiceBackoff \/ BackoffExpires
           \/ PumpReturns \/ UNCHANGED vars
  PROVE  InflightIsLast' /\ GoneIsAway' /\ EndedIsEmpty'
<1>1. kbd \in Device(Report)
  BY DEF ChannelInv, IInv, TypeOK
<1>2. UNCHANGED <<fn, bus, queue, mode>>
  BY DEF OnWritable, ReadOutputReport, ServiceBackoff, BackoffExpires, PumpReturns, vars
<1>3. kbd'.last \in {kbd.last, None}
  BY <1>1 DEF OnWritable, ReadOutputReport, ServiceBackoff, BackoffExpires, PumpReturns,
              vars, ReadDisabled, ExtendBackoff, Device
<1>4. InflightIsLast'
  BY <1>2, <1>3, LastInvariant
<1>5. QED
  BY <1>2, <1>4 DEF ChannelInv, GoneIsAway, EndedIsEmpty

LEMMA PollChannel ==
  ASSUME ChannelInv, PollHostState
  PROVE  InflightIsLast' /\ GoneIsAway' /\ EndedIsEmpty'
<1> DEFINE v == Revalidate(kbd, fn, KeyboardIdleReport)
           dev == HostStateChanged(v.dev, bus)
           fresh == [dev EXCEPT !.last = None]
<1>1. /\ kbd \in Device(Report) /\ fn \in Function(Report) /\ TypeOK /\ IInv
      /\ mode = "running" /\ mode' = mode /\ bus' = bus
  BY DEF ChannelInv, IInv, TypeOK, PollHostState, Idling
<1>2. Revalidates(Report, kbd, fn, v)
  BY <1>1, RevalidateFacts, IdleIsReport
<1>3. /\ v.dev \in Device(Report) /\ v.dev.disabled = kbd.disabled
      /\ v.fun.inflight = fn.inflight
      /\ v.dev.last \in {kbd.last, None}
      /\ v.fun.node = "gone" => fn.node = "gone"
  BY <1>2 DEF Revalidates
<1>4. /\ fn' = v.fun
      /\ \/ Resync(v.dev) /\ Flush(fresh, Current, <<"pump">>)
         \/ kbd' = dev
  BY DEF PollHostState
<1> HIDE DEF v
<1>5. dev \in Device(Report) /\ dev.last = v.dev.last
  BY <1>3 DEF HostStateChanged, Device
<1> HIDE DEF dev
<1>6. fresh \in Device(Report) /\ fresh.last = None
  BY <1>5 DEF Device
<1> HIDE DEF fresh
<1>7. \/ kbd'.last \in {kbd.last, None}
      \/ kbd'.last = KeyboardIdleReport /\ HostNext \in {KeyboardIdleReport, None}
  <2>1. CASE Resync(v.dev) /\ Flush(fresh, Current, <<"pump">>)
    <3>1. HostNext = KeyboardIdleReport
      BY <1>1, <1>3, <2>1 DEF Resync, IInv, DisabledIsIdle
    <3>2. kbd'.last \in {None, KeyboardIdleReport}
      BY <1>1, <1>6, <2>1, FlushedLast
    <3>3. QED
      BY <3>1, <3>2
  <2>2. CASE kbd' = dev
    BY <1>3, <1>5, <2>2
  <2>3. QED
    BY <1>4, <2>1, <2>2
<1>8. InflightIsLast'
  BY <1>1, <1>3, <1>4, <1>7, LastInvariant
<1>9. QED
  BY <1>1, <1>3, <1>4, <1>8 DEF ChannelInv, GoneIsAway, EndedIsEmpty

LEMMA PumpChannel ==
  ASSUME ChannelInv, PumpDelivers \/ PumpDefers
  PROVE  InflightIsLast' /\ GoneIsAway' /\ EndedIsEmpty'
<1> DEFINE r == Head(queue)
           w == Written(r, Outcome)
<1>1. /\ queue \in Seq(Report) /\ queue # <<>> /\ TypeOK /\ IInv
      /\ mode = "running" /\ mode' = mode /\ bus' = bus
  BY DEF ChannelInv, IInv, TypeOK, OnlyRunningCalls, PumpDelivers, PumpDefers, MustStop,
         Pumping
<1>2. r \in Report
  BY <1>1, EmptySeq
<1>3. /\ Outcome \in Outcomes /\ w.dev \in Device(Report)
      /\ Outcome = "sent" => w.dev.last = r /\ w.fun.inflight = r
      /\ Outcome # "sent" => w.fun.inflight = fn.inflight
      /\ Outcome \in {"same", "busy"} => w.dev.last = kbd.last
      /\ Outcome \in {"noopen", "lost"} => w.dev.last = None
  BY <1>1, <1>2, WriteKeepsHost DEF Outcome
<1>4. w.fun.node \in {"same", fn.node}
  BY <1>1, <1>2, <1>3, WrittenNode
<1>5. fn' = w.fun /\ kbd' \in {w.dev, EnterBackoff(w.dev)}
  BY DEF PumpDelivers, PumpDefers, OnWriteDeferred
<1> HIDE DEF w, r
<1>6. kbd'.last = w.dev.last
  BY <1>3, <1>5 DEF EnterBackoff, Device
<1>7. InflightIsLast'
  <2>1. CASE Outcome = "sent"
    BY <1>3, <1>5, <1>6, <2>1 DEF InflightIsLast
  <2>2. CASE Outcome # "sent"
    <3>1. kbd'.last \in {kbd.last, None} /\ fn'.inflight = fn.inflight
      BY <1>3, <1>5, <1>6, <2>2 DEF Outcomes
    <3>2. QED
      BY <1>1, <3>1, LastInvariant
  <2>3. QED
    BY <2>1, <2>2
<1>8. QED
  BY <1>1, <1>4, <1>5, <1>7 DEF ChannelInv, GoneIsAway, EndedIsEmpty

LEMMA EndingChannel ==
  ASSUME ChannelInv, Ending
  PROVE  InflightIsLast' /\ GoneIsAway' /\ EndedIsEmpty'
<1>1. /\ kbd \in Device(Report) /\ fn \in Function(Report) /\ TypeOK /\ IInv
      /\ KeyboardIdleReport \in Report
  BY IdleIsReport DEF ChannelInv, IInv, TypeOK
<1>2. CASE Stop
  BY <1>2 DEF Stop, Shutdown, ChannelInv, InflightIsLast, GoneIsAway, EndedIsEmpty
<1>3. CASE PumpFaults
  <2> DEFINE r == Head(queue)
             w == Written(r, "busy")
  <2>1. r \in Report /\ "busy" \in Outcomes
    BY <1>1, <1>3, TailFacts DEF PumpFaults, MustStop, TypeOK, Outcomes
  <2>2. Writes(Report, kbd, fn, r, "busy", w)
    BY <1>1, <2>1, WriteFacts DEF Written
  <2>3. w.fun.inflight = fn.inflight /\ w.dev.last = kbd.last
    BY <2>2 DEF Writes
  <2>4. w.fun.node \in {"same", fn.node}
    BY <1>1, <2>1, WrittenNode
  <2>5. mode = "running"
    BY <1>1, <1>3 DEF PumpFaults, Pumping, IInv, OnlyRunningCalls
  <2>6. /\ fn' = w.fun /\ bus' = bus
        /\ \/ kbd' = w.dev /\ mode' = mode
           \/ queue' = <<>> /\ mode' # "running"
    BY <1>3 DEF PumpFaults, Shutdown
  <2> HIDE DEF w, r
  <2>7. InflightIsLast'
    BY <2>3, <2>5, <2>6, LastInvariant DEF InflightIsLast
  <2>8. QED
    BY <2>4, <2>5, <2>6, <2>7 DEF ChannelInv, GoneIsAway, EndedIsEmpty
<1>4. CASE ReleaseWrite
  <2> DEFINE out == ReleaseOutcome
             w == Written(KeyboardIdleReport, out)
  <2>1. out \in Outcomes
    BY <1>1, OutcomeFacts DEF ReleaseOutcome, Outcomes
  <2>2. w.fun.node \in {"same", fn.node}
    BY <1>1, <2>1, WrittenNode
  <2>3. /\ fn' = w.fun /\ mode = "releasing" /\ mode' # "running"
        /\ UNCHANGED <<queue, bus>>
    BY <1>4 DEF ReleaseWrite
  <2> HIDE DEF w
  <2>4. QED
    BY <2>2, <2>3 DEF ChannelInv, InflightIsLast, GoneIsAway, EndedIsEmpty
<1>5. CASE ReleaseFaults
  <2> DEFINE w == Written(KeyboardIdleReport, "busy")
  <2>1. w.fun.node \in {"same", fn.node}
    BY <1>1, WrittenNode DEF Outcomes
  <2>2. /\ fn' = w.fun /\ mode = "releasing" /\ mode' # "running"
        /\ UNCHANGED <<queue, bus>>
    BY <1>5 DEF ReleaseFaults
  <2> HIDE DEF w
  <2>3. QED
    BY <2>1, <2>2 DEF ChannelInv, InflightIsLast, GoneIsAway, EndedIsEmpty
<1>6. QED
  BY <1>2, <1>3, <1>4, <1>5 DEF Ending

LEMMA HostChannel ==
  ASSUME ChannelInv, Environment
  PROVE  InflightIsLast' /\ GoneIsAway' /\ EndedIsEmpty'
<1>1. kbd \in Device(Report) /\ fn \in Function(Report)
  BY DEF ChannelInv, IInv, TypeOK
<1>2. /\ kbd'.last = kbd.last /\ UNCHANGED <<queue, mode>>
      /\ fn'.inflight \in {fn.inflight, None}
  <2>1. UNCHANGED <<queue, mode>>
    BY DEF Environment, Collect, Deconfigure, Configure, Suspend, Resume, GadgetDown,
           GadgetUp, GadgetPrimes, bridgeVars
  <2>2. kbd'.last = kbd.last
    BY <1>1 DEF Environment, Collect, Deconfigure, Configure, Suspend, Resume, GadgetDown,
                GadgetUp, GadgetPrimes, bridgeVars, DeviceOrphaned, Device
  <2>3. CASE Collect \/ Deconfigure
    BY <1>1, <2>1, <2>2, <2>3 DEF Collect, Deconfigure, FunctionDisabled, Function
  <2>4. CASE Configure \/ Suspend \/ Resume
    BY <1>1, <2>1, <2>2, <2>4 DEF Configure, Suspend, Resume, FunctionEnabled, Function
  <2>5. CASE GadgetDown \/ GadgetUp
    BY <2>1, <2>2, <2>5, RemovedFacts, BuiltFacts DEF GadgetDown, GadgetUp
  <2>6. CASE GadgetPrimes
    BY <1>1, <2>1, <2>2, <2>6 DEF GadgetPrimes, FunctionPrimed, Function
  <2>7. QED
    BY <2>3, <2>4, <2>5, <2>6 DEF Environment
<1>3. fn'.node = "gone" => bus' = "away"
  <2>1. CASE Collect \/ Suspend \/ Resume \/ Configure
    BY <1>1, <2>1 DEF Collect, Suspend, Resume, Configure, FunctionEnabled, Function,
                      ChannelInv, GoneIsAway
  <2>2. CASE Deconfigure \/ GadgetDown
    BY <2>2 DEF Deconfigure, GadgetDown
  <2>3. CASE GadgetUp
    BY <2>3, RebuildAssumption DEF GadgetUp, FunctionBuilt
  <2>4. CASE GadgetPrimes
    BY <1>1, <2>4 DEF GadgetPrimes, FunctionPrimed, Function, ChannelInv, GoneIsAway
  <2>5. QED
    BY <2>1, <2>2, <2>3, <2>4 DEF Environment
<1>4. InflightIsLast'
  BY <1>2, LastInvariant
<1>5. QED
  BY <1>2, <1>3, <1>4 DEF ChannelInv, GoneIsAway, EndedIsEmpty

-----------------------------------------------------------------------------
(***************************************************************************)
(* The theorems.                                                           *)
(***************************************************************************)
THEOREM ChannelStep ==
  ChannelInv /\ [Next]_vars => ChannelInv' /\ [Channel!Next]_(Channel!vars)
<1> SUFFICES ASSUME ChannelInv, [Next]_vars
             PROVE  ChannelInv' /\ [Channel!Next]_(Channel!vars)
  OBVIOUS
<1>1. IInv'
  BY Inductive DEF ChannelInv
<1>2. CASE Input \/ ClearSources
  BY <1>1, <1>2, InputRefines, InputChannel DEF ChannelInv
<1>3. CASE OnWritable \/ ReadOutputReport \/ ServiceBackoff \/ BackoffExpires
             \/ PumpReturns \/ UNCHANGED vars
  BY <1>1, <1>3, QuietRefines, QuietChannel DEF ChannelInv
<1>4. CASE PollHostState
  BY <1>1, <1>4, PollRefines, PollChannel DEF ChannelInv
<1>5. CASE PumpDelivers \/ PumpDefers
  BY <1>1, <1>5, PumpRefines, PumpChannel DEF ChannelInv
<1>6. CASE Ending
  BY <1>1, <1>6, EndingRefines, EndingChannel DEF ChannelInv
<1>7. CASE Environment
  BY <1>1, <1>7, HostRefines, HostChannel DEF ChannelInv
<1>8. QED
  BY <1>2, <1>3, <1>4, <1>5, <1>6, <1>7 DEF Next, Handler, Pump

LEMMA ChannelInit == Init => ChannelInv /\ Channel!Init
<1> SUFFICES ASSUME Init PROVE ChannelInv /\ Channel!Init
  OBVIOUS
<1> DEFINE f0 == FunctionPrimed(FunctionBuilt("same"), KeyboardIdleReport)
           o == Open(NewDevice, f0, KeyboardIdleReport)
<1>1. NewDevice \in Device(Report) /\ NewDevice.fd = "closed"
  BY DEF NewDevice, Device
<1>2. f0 \in Function(Report) /\ f0.inflight = None
  BY IdleIsReport DEF FunctionBuilt, FunctionPrimed, Function
<1> HIDE DEF f0
<1>3. o.fun.inflight = None /\ o.fun.node = "same"
  BY <1>1, <1>2, OpenFacts, IdleIsReport
<1>4. fn = o.fun
  BY DEF Init, f0
<1> HIDE DEF o
<1>5. fn.inflight = None /\ queue = <<>> /\ fn.node = "same"
      /\ host = KeyboardIdleReport /\ mode = "running"
  BY <1>3, <1>4 DEF Init
<1>6. IInv
  BY InitInvariant
<1>7. Backlog = <<>>
  <2>1. queue \in Seq(Report) /\ Backlog = Waiting(None, queue)
    BY <1>5, <1>6, BacklogFacts DEF IInv
  <2>2. QED
    BY <1>5, <2>1, NothingWaiting
<1>8. QED
  BY <1>5, <1>6, <1>7
     DEF ChannelInv, InflightIsLast, GoneIsAway, EndedIsEmpty, Power, Channel!Init

(***************************************************************************)
(* The keyboard's states reach the host in order, none is invented, and    *)
(* none is skipped but those a full queue gives up, repetitions, those the *)
(* host was not there for, and those shutdown() clears, which happens once *)
(* and at the end (_flush_keyboard, _pump_keyboard and shutdown(), with    *)
(* usb_f_hid at the other end).                                            *)
(***************************************************************************)
THEOREM ImplementsChannel == Spec => InOrder
  BY ChannelInit, ChannelStep, PTL DEF Spec, InOrder, Channel!Spec

=============================================================================
