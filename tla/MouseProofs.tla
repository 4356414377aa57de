---------------------------- MODULE MouseProofs ----------------------------
(***************************************************************************)
(* For any sources, buttons, axes, limits, queue length and gadget, for a  *)
(* relative and for an absolute mouse: the invariants of Mouse, and what a *)
(* step may do to the motion that is owed to the host.                     *)
(***************************************************************************)
EXTENDS Mouse, HidgProofs, SequenceLemmas

Call == {"pump", "pollout", "clear", "reply"}

Outcomes == {"noopen", "same", "lost", "busy", "sent"}

-----------------------------------------------------------------------------
(***************************************************************************)
(* Reports.                                                                *)
(***************************************************************************)
LEMMA NoneIsNoReport == None \notin Report
<1>1. Pressed \subseteq SUBSET Nat
  BY ButtonsAssumption DEF Pressed
<1>2. -Chunk..Chunk \subseteq Int
  BY LimitsAssumption
<1>3. (IF Relative THEN {0} ELSE Positions) \subseteq Positions
  BY PositionsAssumption
<1>4. Report \subseteq [ buttons : SUBSET Nat, motion : [Axes -> Int], pos : Positions ]
  BY <1>1, <1>2, <1>3 DEF Report
<1>5. QED
  BY <1>4, NoneAssumption

LEMMA NoneIsNoButtons == None \notin Pressed
  BY NoneAssumption DEF Pressed

\* The mask only takes buttons away, and the rest is passed on.
LEMMA ReportFacts ==
  ASSUME NEW pressed \in Pressed, NEW moved \in [Axes -> -Chunk..Chunk],
         NEW place \in Positions,
         NEW r, r = MouseReport(pressed, moved, place)
  PROVE  /\ r \in Report
         /\ r.buttons = Shown(pressed) /\ r.motion = moved
         /\ r.pos = MouseReport({}, Still, place).pos
<1>1. r = [ buttons |-> Shown(pressed), motion |-> moved,
            pos |-> IF Relative THEN 0 ELSE place ]
  BY DEF MouseReport, Shown
<1>2. Shown(pressed) \in Pressed
  BY DEF Shown, Pressed
<1>3. (IF Relative THEN 0 ELSE place) \in (IF Relative THEN {0} ELSE Positions)
  OBVIOUS
<1>4. r \in Report
  BY <1>1, <1>2, <1>3 DEF Report
<1>5. MouseReport({}, Still, place).pos = IF Relative THEN 0 ELSE place
  BY DEF MouseReport
<1>6. QED
  BY <1>1, <1>4, <1>5

LEMMA StillIsZero == Still \in [Axes -> -Chunk..Chunk] /\ Still \in [Axes -> -Limit..Limit]
  BY LimitsAssumption DEF Still

LEMMA IdleIsReport ==
  /\ MouseIdleReport \in Report /\ MouseIdleReport.motion = Still
<1>1. {} \in Pressed /\ 0 \in Positions
  BY PositionsAssumption DEF Pressed
<1>2. QED
  BY <1>1, StillIsZero, ReportFacts DEF MouseIdleReport

LEMMA MergedIsPressed ==
  ASSUME NEW held \in [Sources -> SUBSET Buttons], NEW macro \in SUBSET MacroButtons
  PROVE  AllButtons(held, macro) \in Pressed
  BY DEF AllButtons, Pressed

-----------------------------------------------------------------------------
(***************************************************************************)
(* Counters.                                                               *)
(***************************************************************************)
\* A clamped value is a part of it, and so is what is left; nothing is left
\* out only where there is nothing.
LEMMA ClampFacts ==
  ASSUME NEW v \in Int, NEW limit \in Nat,
         NEW k, k = Clamp(v, -limit, limit)
  PROVE  /\ k \in -limit..limit
         /\ Within(k, v) /\ Within(v - k, v)
         /\ v = 0 => k = 0
         /\ k = 0 /\ limit # 0 => v = 0
         /\ \A m \in Nat : v \in -m..m => k \in -m..m /\ v - k \in -m..m
  BY DEF Clamp, Within

LEMMA ClampAllFacts ==
  ASSUME NEW m \in Nat, NEW counters \in [Axes -> -m..m], NEW limit \in Nat,
         NEW k, k = ClampAll(counters, limit)
  PROVE  /\ k \in [Axes -> -limit..limit] /\ k \in [Axes -> -m..m]
         /\ \A a \in Axes : /\ Within(k[a], counters[a])
                            /\ Within(counters[a] - k[a], counters[a])
         /\ counters = Still => k = Still
         /\ k = Still /\ limit # 0 => counters = Still
         /\ Spent(counters, k) \in [Axes -> -m..m]
<1>1. k = [a \in Axes |-> Clamp(counters[a], -limit, limit)]
  BY DEF ClampAll
<1>2. \A a \in Axes : counters[a] \in Int /\ counters[a] \in -m..m
  OBVIOUS
<1>3. \A a \in Axes :
        /\ k[a] \in -limit..limit /\ k[a] \in -m..m
        /\ Within(k[a], counters[a]) /\ Within(counters[a] - k[a], counters[a])
        /\ counters[a] = 0 => k[a] = 0
        /\ k[a] = 0 /\ limit # 0 => counters[a] = 0
        /\ counters[a] - k[a] \in -m..m
  BY <1>1, <1>2, ClampFacts
<1>4. counters = Still => k = Still
  BY <1>1, <1>3 DEF Still
<1>5. k = Still /\ limit # 0 => counters = Still
  BY <1>1, <1>3 DEF Still
<1>6. Spent(counters, k) \in [Axes -> -m..m]
  BY <1>3 DEF Spent
<1>7. QED
  BY <1>1, <1>3, <1>4, <1>5, <1>6

-----------------------------------------------------------------------------
(***************************************************************************)
(* The queue of button states.                                             *)
(***************************************************************************)
\* The state that was noted is the newest one, and nothing is noted twice.
LEMMA NoteFacts ==
  ASSUME TypeOK, NEW now \in Pressed,
         NEW q, q = NoteButtons(now)
  PROVE  /\ q \in Seq(Pressed) /\ Len(q) <= QueueMax
         /\ q # <<>> => Last(q) = now
         /\ q = <<>> => btnQueue = <<>> /\ lastButtons = now
<1>1. /\ btnQueue \in Seq(Pressed) /\ Len(btnQueue) <= QueueMax
      /\ Len(btnQueue) \in Nat /\ QueueMax \in Nat \ {0}
  BY LimitsAssumption DEF TypeOK
<1>2. CASE now = ButtonTail
  <2>1. q = btnQueue
    BY <1>2 DEF NoteButtons
  <2>2. q # <<>> => Last(q) = now
    BY <1>2, <2>1 DEF ButtonTail
  <2>3. q = <<>> => lastButtons = now
    BY <1>2, <2>1 DEF ButtonTail
  <2>4. QED
    BY <1>1, <2>1, <2>2, <2>3
<1>3. CASE now # ButtonTail /\ Len(btnQueue) < QueueMax
  <2>1. q = Append(btnQueue, now)
    BY <1>3 DEF NoteButtons
  <2>2. QED
    BY <1>1, <1>3, <2>1 DEF Last
<1>4. CASE now # ButtonTail /\ ~(Len(btnQueue) < QueueMax)
  <2>1. q = Append(Tail(btnQueue), now)
    BY <1>4 DEF NoteButtons
  <2>2. btnQueue # <<>> /\ Len(btnQueue) = QueueMax
    BY <1>1, <1>4
  <2>3. Tail(btnQueue) \in Seq(Pressed) /\ Len(Tail(btnQueue)) = Len(btnQueue) - 1
    BY <1>1, <2>2
  <2>4. QED
    BY <1>1, <2>1, <2>2, <2>3 DEF Last
<1>5. QED
  BY <1>2, <1>3, <1>4

\* Taking the oldest state leaves the newest one where it is.
LEMMA TailFacts ==
  ASSUME NEW S, NEW q \in Seq(S), q # <<>>
  PROVE  /\ Head(q) \in S
         /\ Tail(q) \in Seq(S) /\ Len(Tail(q)) <= Len(q)
         /\ Tail(q) # <<>> => Last(Tail(q)) = Last(q)
         /\ Tail(q) = <<>> => Head(q) = Last(q)
<1>1. Tail(q) \in Seq(S) /\ Len(Tail(q)) = Len(q) - 1
  OBVIOUS
<1>2. Len(q) \in Nat \ {0}
  OBVIOUS
<1>3. ASSUME Tail(q) # <<>> PROVE Last(Tail(q)) = Last(q)
  <2>1. Len(q) > 1
    BY <1>1, <1>2, <1>3
  <2>2. Tail(q)[Len(q) - 1] = q[Len(q)]
    BY <1>1, <2>1
  <2>3. QED
    BY <1>1, <2>2 DEF Last
<1>4. ASSUME Tail(q) = <<>> PROVE Head(q) = Last(q)
  <2>1. Len(Tail(q)) = 0
    BY <1>4, EmptySeq
  <2>2. Len(q) = 1
    <3>1. Len(q) - 1 = 0
      BY <1>1, <2>1
    <3>2. QED
      BY <1>2, <3>1
  <2>3. QED
    BY <2>2 DEF Last
<1>5. QED
  BY <1>1, <1>2, <1>3, <1>4

LEMMA CallsFacts ==
  ASSUME NEW c \in Seq(Call), c # <<>>
  PROVE  Tail(c) \in Seq(Call) /\ Remaining(Tail(c)) \in Seq(Call)
<1>1. Tail(c) \in Seq(Call) /\ <<>> \in Seq(Call)
  OBVIOUS
<1>2. QED
  BY <1>1 DEF Remaining

-----------------------------------------------------------------------------
(***************************************************************************)
(* One attempt to write a report, whoever asks for it.                     *)
(***************************************************************************)
\* A mouse report is written whatever was sent last.
Forced(report, out) == out = WriteOutcome(mouse, fn, bus, report, TRUE)

LEMMA WriteKeepsHost ==
  ASSUME IInv, mode = "running", NEW report \in Report, NEW answer \in Report,
         NEW out, Forced(report, out),
         NEW w, w = WriteReport(mouse, fn, report, answer, MouseIdleReport, out)
  PROVE  /\ out \in Outcomes \ {"same"}
         /\ w.dev \in Device(Report) /\ w.fun \in Function(Report)
         /\ w.fun.off = fn.off
         /\ w.fun.node # "same" => w.dev.fd # "live"
         /\ w.dev.fd # "live" => out # "sent" /\ mouse.fd # "live"
         /\ out = "sent" => /\ bus # "away" /\ fn.inflight = None
                           /\ w.dev.last = report /\ w.fun.inflight = report
         /\ out # "sent" => w.fun.inflight = fn.inflight
         /\ out = "busy" => w.dev.last = mouse.last
         /\ out \in {"noopen", "lost"} => w.dev.last = None /\ Untouched
<1>1. mouse \in Device(Report) /\ fn \in Function(Report)
  BY DEF IInv, TypeOK
<1>2. /\ out \in Outcomes \ {"same"}
      /\ out = "noopen" => mouse.fd = "closed"
      /\ out # "noopen" /\ mouse.fd = "closed" => fn.node # "gone"
      /\ out = "lost" => mouse.fd = "stale" \/ bus = "away"
      /\ out = "sent" => mouse.fd # "stale" /\ bus # "away"
      /\ out = "sent" => fn.inflight = None
  <2>1. Open(mouse, fn, report).dev.fd =
          (IF mouse.fd = "closed" THEN "live" ELSE mouse.fd)
    BY <1>1 DEF Open, CacheGetReport, Device
  <2>2. QED
    BY <2>1 DEF Forced, WriteOutcome, CanOpen, Outcomes
<1>4. Writes(Report, mouse, fn, report, out, w)
  BY <1>1, <1>2, IdleIsReport, WriteFacts DEF Outcomes
<1>5. out \in {"noopen", "lost"} => Untouched
  BY <1>2 DEF IInv, AwayIsUntouched, OthersAreUntouched
<1>6. /\ w.fun.node # "same" => w.dev.fd # "live"
      /\ w.dev.fd # "live" => out # "sent" /\ mouse.fd # "live"
  BY <1>1, <1>2, <1>4 DEF IInv, NodeIsOpened, Device, Writes, Outcomes
<1>7. QED
  BY <1>2, <1>4, <1>5, <1>6 DEF Writes

-----------------------------------------------------------------------------
(***************************************************************************)
(* The invariant, action by action.                                        *)
(***************************************************************************)
LEMMA InitInvariant == Init => IInv
<1> SUFFICES ASSUME Init PROVE IInv
  OBVIOUS
<1> DEFINE f0 == FunctionPrimed(FunctionBuilt("same"), MouseIdleReport)
           o == Open(NewDevice, f0, MouseIdleReport)
<1>1. NewDevice \in Device(Report) /\ NewDevice.last = None
      /\ NewDevice.fd = "closed"
  BY DEF NewDevice, Device
<1>2. f0 \in Function(Report) /\ f0.inflight = None /\ ~f0.off
  BY IdleIsReport DEF FunctionBuilt, FunctionPrimed, Function
<1> HIDE DEF f0
<1>3. /\ o.dev \in Device(Report) /\ o.fun \in Function(Report)
      /\ o.dev.fd = "live" /\ o.dev.last = None
      /\ o.fun.inflight = None /\ o.fun.node = "same" /\ ~o.fun.off
  BY <1>1, <1>2, OpenFacts, IdleIsReport
<1>4. mouse = o.dev /\ fn = o.fun
  BY DEF Init, f0
<1> HIDE DEF o
<1>5. TypeOK
  <2>1. {} \in Pressed /\ {0, Centre} \subseteq Positions /\ 0 <= QueueMax
    BY PositionsAssumption, LimitsAssumption DEF Pressed
  <2>2. /\ btnQueue \in Seq(Pressed) /\ Len(btnQueue) <= QueueMax
        /\ calls \in Seq({"pump", "pollout", "clear", "reply"})
    BY <2>1 DEF Init
  <2>3. /\ buttons \in [Sources -> SUBSET Buttons] /\ macroButtons \in SUBSET MacroButtons
        /\ motion \in [Axes -> -Limit..Limit] /\ pos \in Positions
        /\ host \in [buttons : Pressed, pos : Positions]
    BY <2>1, StillIsZero DEF Init
  <2>4. QED
    BY <1>3, <1>4, <2>2, <2>3 DEF Init, TypeOK
<1>6. QED
  BY <1>3, <1>4, <1>5
     DEF Init, IInv, OnlyRunningCalls, AwayIsUntouched, OffIsAway, OthersAreUntouched,
         NodeIsOpened, ButtonTailIsCurrent, ButtonTail, LastHasButtons, HostIsKnown,
         HostNext, DirtyWhilePending, MotionPending, ToldUnlessDirty, Untouched

\* A handler that changes what is held, moves, and hands over to the pump.
LEMMA EmitPreserves ==
  ASSUME IInv, mode = "running",
         buttons' \in [Sources -> SUBSET Buttons],
         macroButtons' \in SUBSET MacroButtons,
         NEW moved \in [Axes -> Moves], NEW place \in Positions,
         NEW rest \in Seq(Call),
         Emit(AllButtons(buttons', macroButtons'), moved, place, rest),
         UNCHANGED <<fn, bus, host>>
  PROVE  IInv'
<1> DEFINE now == AllButtons(buttons', macroButtons')
<1>1. now \in Pressed /\ Current' = now
  BY MergedIsPressed DEF Current
<1> HIDE DEF now
<1>2. TypeOK
  BY DEF IInv
<1>3. /\ btnQueue' = NoteButtons(now)
      /\ motion' = ClampAll([a \in Axes |-> motion[a] + moved[a]], Limit)
      /\ pos' = place /\ dirty' = TRUE
      /\ calls' = <<"pump">> \o rest
      /\ UNCHANGED <<lastButtons, blocked, mouse, kbdAway, mode>>
  BY DEF Emit, now
<1>4. /\ btnQueue' \in Seq(Pressed) /\ Len(btnQueue') <= QueueMax
      /\ btnQueue' # <<>> => Last(btnQueue') = now
      /\ btnQueue' = <<>> => btnQueue = <<>> /\ lastButtons = now
  BY <1>1, <1>2, <1>3, NoteFacts
<1>5. motion' \in [Axes -> -Limit..Limit]
  <2>1. motion \in [Axes -> -Limit..Limit] /\ Limit \in Nat /\ Moves \subseteq Int
    BY <1>2, LimitsAssumption, MovesAssumption DEF TypeOK
  <2>2. \A a \in Axes : motion[a] + moved[a] \in Int
    <3>1. ASSUME NEW a \in Axes
          PROVE  motion[a] \in Int /\ moved[a] \in Int
      <4>1. motion[a] \in -Limit..Limit /\ moved[a] \in Moves
        BY <2>1
      <4>2. motion[a] \in Int
        BY <4>1
      <4>3. moved[a] \in Int
        BY <4>1, MovesAssumption
      <4>4. QED
        BY <4>2, <4>3
    <3>2. QED
      BY <3>1
  <2>3. \A a \in Axes : Clamp(motion[a] + moved[a], -Limit, Limit) \in -Limit..Limit
    BY <2>1, <2>2, ClampFacts
  <2>4. QED
    BY <1>3, <2>3 DEF ClampAll
<1>6. calls' \in Seq(Call)
  <2>1. "pump" \in Call
    BY DEF Call
  <2>2. QED
    BY <1>3, <2>1
<1>7. TypeOK'
  BY <1>2, <1>3, <1>4, <1>5, <1>6 DEF TypeOK, Call
<1>8. ButtonTailIsCurrent'
  BY <1>1, <1>3, <1>4 DEF ButtonTailIsCurrent, ButtonTail
<1>9. HostIsKnown'
  <2>1. HostNext' = HostNext
    BY DEF HostNext
  <2>2. ASSUME btnQueue' = <<>> PROVE btnQueue = <<>> /\ now = Current
    <3>1. btnQueue = <<>> /\ lastButtons = now /\ ButtonTail \in {Current, None}
      BY <1>4, <2>2 DEF IInv, ButtonTailIsCurrent
    <3>2. QED
      BY <1>1, <3>1, NoneIsNoButtons DEF ButtonTail
  <2>3. QED
    BY <1>1, <1>3, <2>1, <2>2 DEF HostIsKnown, IInv
<1>10. QED
  BY <1>3, <1>7, <1>8, <1>9
     DEF IInv, OnlyRunningCalls, AwayIsUntouched, OffIsAway, OthersAreUntouched,
         NodeIsOpened, LastHasButtons, DirtyWhilePending, ToldUnlessDirty, Untouched

LEMMA InputInvariant ==
  ASSUME IInv, Input \/ ClearSources
  PROVE  IInv'
<1>1. /\ buttons \in [Sources -> SUBSET Buttons] /\ macroButtons \in SUBSET MacroButtons
      /\ calls \in Seq(Call) /\ pos \in Positions
  BY DEF IInv, TypeOK, Call
<1>2. /\ <<>> \in Seq(Call) /\ <<"reply">> \in Seq(Call)
      /\ <<"clear", "reply">> \in Seq(Call)
  <2>1. "reply" \in Call /\ "clear" \in Call
    BY DEF Call
  <2>2. QED
    BY <2>1
<1>3. Still \in [Axes -> Moves]
  BY MovesAssumption DEF Still
<1>4. Places \subseteq Positions
  BY <1>1 DEF Places
<1>5. ASSUME NEW s \in Sources, NEW held \in SUBSET Buttons,
             NEW moved \in [Axes -> Moves], NEW place \in Positions,
             Frame(s, held, moved, place)
      PROVE  IInv'
  BY <1>1, <1>2, <1>5, EmitPreserves DEF Frame, Idling
<1>6. ASSUME NEW s \in Sources, RemoveSource(s)
      PROVE  IInv'
  BY <1>1, <1>3, <1>5, <1>6 DEF RemoveSource
<1>7. ASSUME NEW held \in SUBSET MacroButtons, NEW moved \in [Axes -> Moves],
             NEW place \in Positions, NEW rest \in Seq(Call),
             MacroMouse(held, moved, place, rest)
      PROVE  IInv'
  BY <1>1, <1>7, EmitPreserves DEF MacroMouse, Idling
<1>8. CASE ReleaseAll
  BY <1>1, <1>2, <1>3, <1>7, <1>8 DEF ReleaseAll
<1>9. CASE ClearSources
  <2>1. Tail(calls) \in Seq(Call)
    BY <1>1, <1>9 DEF ClearSources
  <2>2. QED
    BY <1>1, <1>3, <1>9, <2>1, EmitPreserves DEF ClearSources, IInv, OnlyRunningCalls
<1>10. QED
  BY <1>2, <1>4, <1>5, <1>6, <1>7, <1>8, <1>9 DEF Input

-----------------------------------------------------------------------------
(***************************************************************************)
(* _pump_mouse.                                                            *)
(***************************************************************************)
\* What an iteration has to send, and what it leaves.
LEMMA CounterFacts ==
  ASSUME TypeOK
  PROVE  /\ Counters \in [Axes -> -Limit..Limit]
         /\ Slice \in [Axes -> -Chunk..Chunk]
         /\ Spent(Counters, Slice) \in [Axes -> -Limit..Limit]
         /\ \A a \in Axes : /\ Within(Counters[a], motion[a])
                            /\ Within(Slice[a], Counters[a])
         /\ motion = Still => Counters = Still
         /\ Slice = Still => Counters = Still
<1>1. /\ motion \in [Axes -> -Limit..Limit]
      /\ Limit \in Nat /\ Saturate \in Nat /\ Chunk \in Nat \ {0}
  BY LimitsAssumption DEF TypeOK
<1>2. /\ Counters \in [Axes -> -Limit..Limit]
      /\ \A a \in Axes : Within(Counters[a], motion[a])
      /\ motion = Still => Counters = Still
  <2>1. CASE blocked = "stale"
    BY <1>1, <2>1, ClampAllFacts DEF Counters
  <2>2. CASE blocked # "stale"
    <3>1. Counters = motion
      BY <2>2 DEF Counters
    <3>2. \A a \in Axes : motion[a] \in Int
      BY <1>1
    <3>3. QED
      BY <1>1, <3>1, <3>2 DEF Within
  <2>3. QED
    BY <2>1, <2>2
<1>3. /\ Slice \in [Axes -> -Chunk..Chunk]
      /\ \A a \in Axes : Within(Slice[a], Counters[a])
      /\ Slice = Still => Counters = Still
      /\ Spent(Counters, Slice) \in [Axes -> -Limit..Limit]
  BY <1>1, <1>2, ClampAllFacts DEF Slice
<1>4. QED
  BY <1>2, <1>3

LEMMA NextFacts ==
  ASSUME TypeOK
  PROVE  /\ Known \in Pressed \cup {None}
         /\ mouse.last # None => Known = lastButtons
         /\ mouse.last = None => Known = None
         /\ NextButtons \in Pressed
         /\ NextReport \in Report /\ StillReport \in Report
         /\ NextReport.buttons = Shown(NextButtons)
         /\ NextReport.motion = Slice /\ StillReport.motion = Still
         /\ NextReport.pos = MouseReport({}, Still, pos).pos
<1>1. /\ Known \in Pressed \cup {None}
      /\ mouse.last # None => Known = lastButtons
      /\ mouse.last = None => Known = None
  BY DEF TypeOK, Known
<1>2. Current \in Pressed
  BY MergedIsPressed DEF TypeOK, Current
<1>3. btnQueue # <<>> => Head(btnQueue) \in Pressed
  BY DEF TypeOK
<1>4. NextButtons \in Pressed
  BY <1>1, <1>2, <1>3 DEF NextButtons
<1>5. pos \in Positions
  BY DEF TypeOK
<1>6. Slice \in [Axes -> -Chunk..Chunk]
  BY CounterFacts
<1>7. QED
  BY <1>1, <1>4, <1>5, <1>6, StillIsZero, ReportFacts DEF NextReport, StillReport

\* One attempt of the pump.
LEMMA AttemptFacts ==
  ASSUME IInv, mode = "running"
  PROVE  LET w == Written(Outcome) IN
         /\ Outcome \in Outcomes \ {"same"}
         /\ w.dev \in Device(Report) /\ w.fun \in Function(Report)
         /\ w.fun.off = fn.off
         /\ w.fun.node # "same" => w.dev.fd # "live"
         /\ w.dev.fd # "live" => Outcome # "sent" /\ mouse.fd # "live"
         /\ Outcome = "sent" => /\ bus # "away" /\ fn.inflight = None
                               /\ w.dev.last = NextReport
                               /\ w.fun.inflight = NextReport
         /\ Outcome # "sent" => w.fun.inflight = fn.inflight
         /\ Outcome = "busy" => w.dev.last = mouse.last
         /\ Outcome \in {"noopen", "lost"} => w.dev.last = None /\ Untouched
<1>1. Forced(NextReport, Outcome)
  BY DEF Forced, Outcome
<1>2. NextReport \in Report /\ StillReport \in Report
  BY NextFacts DEF IInv
<1> DEFINE w == Written(Outcome)
<1>3. w = WriteReport(mouse, fn, NextReport, StillReport, MouseIdleReport, Outcome)
  BY DEF Written
<1> HIDE DEF w
<1>4. QED
  BY <1>1, <1>2, <1>3, WriteKeepsHost DEF w

LEMMA DeliversInvariant ==
  ASSUME IInv, PumpDelivers
  PROVE  IInv'
<1> DEFINE w == Written(Outcome)
<1>1. TypeOK /\ mode = "running" /\ calls # <<>>
  BY DEF IInv, OnlyRunningCalls, PumpDelivers, Trying, Pumping
<1>2. Outcome = "sent"
  BY <1>1, AttemptFacts DEF PumpDelivers, Accepted
<1>3. /\ w.dev \in Device(Report) /\ w.fun \in Function(Report)
      /\ w.fun.off = fn.off
      /\ w.fun.node # "same" => w.dev.fd # "live"
      /\ w.dev.fd = "live"
      /\ bus # "away"
      /\ w.dev.last = NextReport /\ w.fun.inflight = NextReport
  BY <1>1, <1>2, AttemptFacts
<1> HIDE DEF w
<1>4. /\ mouse' = w.dev /\ fn' = w.fun
      /\ btnQueue' = IF btnQueue = <<>> THEN btnQueue ELSE Tail(btnQueue)
      /\ lastButtons' = NextButtons
      /\ motion' = Spent(Counters, Slice)
      /\ blocked' = "no"
      /\ dirty' = StillDirty(btnQueue', motion')
      /\ calls' = calls \/ calls' = Remaining(Tail(calls))
      /\ UNCHANGED <<inputVars, pos, kbdAway, bus, host, mode>>
  BY DEF PumpDelivers, w, Return
<1>5. /\ NextButtons \in Pressed /\ NextReport \in Report
      /\ NextReport.buttons = Shown(NextButtons)
      /\ NextReport.pos = MouseReport({}, Still, pos).pos
      /\ Known \in {None, lastButtons}
  BY <1>1, NextFacts DEF Known
<1>6. Current' = Current
  BY <1>4 DEF Current, inputVars
<1>7. /\ btnQueue' \in Seq(Pressed) /\ Len(btnQueue') <= QueueMax
      /\ btnQueue' # <<>> => btnQueue # <<>> /\ Last(btnQueue') = Last(btnQueue)
      /\ btnQueue' = <<>> /\ btnQueue # <<>> => Head(btnQueue) = Last(btnQueue)
  <2>1. btnQueue \in Seq(Pressed) /\ Len(btnQueue) <= QueueMax /\ QueueMax \in Nat
    BY <1>1, LimitsAssumption DEF TypeOK
  <2>2. CASE btnQueue = <<>>
    BY <1>4, <2>1, <2>2
  <2>3. CASE btnQueue # <<>>
    <3>1. btnQueue' = Tail(btnQueue)
      BY <1>4, <2>3
    <3>2. /\ Tail(btnQueue) \in Seq(Pressed) /\ Len(Tail(btnQueue)) <= Len(btnQueue)
          /\ Tail(btnQueue) # <<>> => Last(Tail(btnQueue)) = Last(btnQueue)
          /\ Tail(btnQueue) = <<>> => Head(btnQueue) = Last(btnQueue)
      BY <2>1, <2>3, TailFacts
    <3>3. Len(btnQueue) \in Nat /\ Len(Tail(btnQueue)) \in Nat
      BY <2>1, <3>2
    <3>4. QED
      BY <2>1, <2>3, <3>1, <3>2, <3>3
  <2>4. QED
    BY <2>2, <2>3
<1>8. motion' \in [Axes -> -Limit..Limit]
  BY <1>1, <1>4, CounterFacts
<1>9. dirty' \in BOOLEAN
  BY <1>4 DEF StillDirty
<1>10. calls' \in Seq(Call)
  BY <1>1, <1>4, CallsFacts DEF TypeOK, Call
<1>11. TypeOK'
  BY <1>1, <1>3, <1>4, <1>5, <1>7, <1>8, <1>9, <1>10 DEF TypeOK, Call, inputVars
<1>12. ButtonTailIsCurrent'
  <2>1. ButtonTail \in {Current, None}
    BY <1>1 DEF IInv, ButtonTailIsCurrent
  <2>2. CASE btnQueue' # <<>>
    BY <1>6, <1>7, <2>1, <2>2 DEF ButtonTailIsCurrent, ButtonTail
  <2>3. CASE btnQueue' = <<>>
    <3>1. NextButtons \in {Current, None}
      BY <1>5, <1>7, <2>1, <2>3 DEF NextButtons, ButtonTail
    <3>2. QED
      BY <1>4, <1>6, <2>3, <3>1 DEF ButtonTailIsCurrent, ButtonTail
  <2>4. QED
    BY <2>2, <2>3
<1>13. LastHasButtons'
  BY <1>4, <1>5, NoneIsNoButtons DEF LastHasButtons
<1>14. HostIsKnown'
  <2>1. NextReport # None
    BY <1>5, NoneIsNoReport
  <2>2. HostNext' = Shown(lastButtons') /\ mouse'.last # None
    BY <1>3, <1>4, <1>5, <2>1 DEF HostNext
  <2>3. Shown(lastButtons)' = Shown(lastButtons')
    BY DEF Shown
  <2>4. QED
    BY <2>2, <2>3 DEF HostIsKnown
<1>15. DirtyWhilePending'
  BY <1>4 DEF DirtyWhilePending, StillDirty
<1>16. ToldUnlessDirty'
  <2>1. MouseReport({}, Still, pos)' = MouseReport({}, Still, pos)
    BY <1>4 DEF MouseReport, Still
  <2>2. QED
    BY <1>3, <1>4, <1>5, <2>1 DEF ToldUnlessDirty
<1>17. QED
  BY <1>1, <1>3, <1>4, <1>11, <1>12, <1>13, <1>14, <1>15, <1>16
     DEF IInv, OnlyRunningCalls, AwayIsUntouched, OffIsAway, OthersAreUntouched,
         NodeIsOpened

LEMMA DefersInvariant ==
  ASSUME IInv, PumpDefers
  PROVE  IInv'
<1> DEFINE w == Written(Outcome)
<1>1. TypeOK /\ mode = "running" /\ calls # <<>>
  BY DEF IInv, OnlyRunningCalls, PumpDefers, Trying, Pumping
<1>2. Outcome # "sent"
  BY DEF PumpDefers, Accepted
<1>3. /\ w.dev \in Device(Report) /\ w.fun \in Function(Report)
      /\ w.fun.off = fn.off /\ w.fun.inflight = fn.inflight
      /\ w.fun.node # "same" => w.dev.fd # "live"
      /\ w.dev.fd # "live" => mouse.fd # "live"
      /\ w.dev.last = mouse.last \/ (w.dev.last = None /\ Untouched)
  BY <1>1, <1>2, AttemptFacts DEF Outcomes
<1> HIDE DEF w
<1>4. /\ fn' = w.fun /\ lastButtons' = Known
      /\ OnWriteDeferred(w.dev)
      /\ calls' = Remaining(Tail(calls))
      /\ UNCHANGED <<inputVars, btnQueue, pos, dirty, kbdAway, bus, host, mode>>
  BY DEF PumpDefers, w, Return
<1>5. /\ mouse' \in Device(Report)
      /\ mouse'.fd = w.dev.fd /\ mouse'.last = w.dev.last
  BY <1>3, <1>4 DEF OnWriteDeferred, EnterBackoff, Device
<1>6. motion' \in {Still, Counters} /\ blocked' \in {"no", "fresh", "stale"}
  BY <1>1, <1>4 DEF OnWriteDeferred, DropMotion, KeepMotion, TypeOK
<1>7. motion' \in [Axes -> -Limit..Limit] /\ (motion = Still => motion' = Still)
  BY <1>1, <1>6, CounterFacts, StillIsZero
<1>8. /\ Known \in Pressed \cup {None} /\ Known \in {None, lastButtons}
      /\ mouse.last # None => Known = lastButtons
  BY <1>1, NextFacts DEF Known
<1>9. calls' \in Seq(Call)
  BY <1>1, <1>4, CallsFacts DEF TypeOK, Call
<1>10. TypeOK'
  BY <1>1, <1>3, <1>4, <1>5, <1>6, <1>7, <1>8, <1>9 DEF TypeOK, Call, inputVars
<1>11. Current' = Current
  BY <1>4 DEF Current, inputVars
<1>12. ButtonTailIsCurrent'
  BY <1>1, <1>4, <1>8, <1>11 DEF IInv, ButtonTailIsCurrent, ButtonTail
<1>13. LastHasButtons'
  BY <1>1, <1>3, <1>4, <1>5, <1>8 DEF IInv, LastHasButtons
<1>14. HostIsKnown'
  <2>1. HostNext' = HostNext
    BY <1>3, <1>4 DEF HostNext
  <2>2. CASE w.dev.last = mouse.last
    BY <1>1, <1>4, <1>5, <1>8, <1>11, <2>1, <2>2 DEF IInv, HostIsKnown, Shown
  <2>3. CASE w.dev.last = None /\ Untouched
    BY <2>1, <2>3 DEF HostIsKnown, HostNext, Untouched
  <2>4. QED
    BY <1>3, <2>2, <2>3
<1>15. DirtyWhilePending'
  BY <1>1, <1>4, <1>7 DEF IInv, DirtyWhilePending, MotionPending, Still
<1>16. ToldUnlessDirty'
  <2>1. MouseReport({}, Still, pos)' = MouseReport({}, Still, pos)
    BY <1>4 DEF MouseReport, Still
  <2>2. QED
    BY <1>1, <1>3, <1>4, <1>5, <2>1 DEF IInv, ToldUnlessDirty
<1>17. QED
  BY <1>1, <1>3, <1>4, <1>5, <1>10, <1>12, <1>13, <1>14, <1>15, <1>16
     DEF IInv, OnlyRunningCalls, AwayIsUntouched, OffIsAway, OthersAreUntouched,
         NodeIsOpened, Untouched

\* Nothing to say, and nothing left to say.
LEMMA DoneInvariant ==
  ASSUME IInv, PumpIsSilent \/ PumpIsDone
  PROVE  IInv'
<1>1. TypeOK /\ mode = "running" /\ calls # <<>>
  BY DEF IInv, OnlyRunningCalls, PumpIsSilent, PumpIsDone, Pumping
<1>2. /\ dirty' = FALSE /\ calls' = Remaining(Tail(calls))
      /\ UNCHANGED <<inputVars, btnQueue, pos, blocked, mouse, kbdAway, fn, bus, host, mode>>
  BY DEF PumpIsSilent, PumpIsDone, Return
<1>3. Current' = Current /\ HostNext' = HostNext
  BY <1>2 DEF Current, HostNext, inputVars
<1>4. calls' \in Seq(Call)
  BY <1>1, <1>2, CallsFacts DEF TypeOK, Call
<1>5. /\ NextReport \in Report
      /\ NextReport.pos = MouseReport({}, Still, pos).pos
      /\ Known \in Pressed \cup {None}
      /\ mouse.last # None => Known = lastButtons
      /\ mouse.last = None => Known = None
  BY <1>1, NextFacts
<1>6. MouseReport({}, Still, pos)' = MouseReport({}, Still, pos)
  BY <1>2 DEF MouseReport, Still
<1>7. CASE PumpIsSilent
  <2>1. /\ Known = None /\ btnQueue = <<>> /\ motion = Still /\ Current = {}
        /\ lastButtons' = {} /\ motion' = motion
    BY <1>7 DEF PumpIsSilent, Silent, MotionPending
  <2>2. mouse.last = None
    BY <1>1, <1>5, <2>1 DEF IInv, LastHasButtons
  <2>3. {} \in Pressed /\ Shown({}) = {}
    BY DEF Pressed, Shown
  <2>4. TypeOK'
    BY <1>1, <1>2, <1>4, <2>1, <2>3 DEF TypeOK, Call, inputVars
  <2>5. ButtonTailIsCurrent' /\ LastHasButtons'
    BY <1>2, <1>3, <2>1, <2>2 DEF ButtonTailIsCurrent, ButtonTail, LastHasButtons
  <2>6. HostIsKnown'
    BY <1>1, <1>2, <1>3, <2>1, <2>2, <2>3 DEF IInv, HostIsKnown
  <2>7. DirtyWhilePending' /\ ToldUnlessDirty'
    BY <1>2, <2>1, <2>2 DEF DirtyWhilePending, MotionPending, Still, ToldUnlessDirty
  <2>8. QED
    BY <1>1, <1>2, <2>4, <2>5, <2>6, <2>7
       DEF IInv, OnlyRunningCalls, AwayIsUntouched, OffIsAway, OthersAreUntouched,
           NodeIsOpened, Untouched
<1>8. CASE PumpIsDone
  <2>1. lastButtons' = Known /\ motion' = Counters /\ ~MustSend
    BY <1>8 DEF PumpIsDone
  <2>2. btnQueue = <<>> /\ Slice = Still
    BY <2>1 DEF MustSend, MotionPending
  <2>3. /\ Relative => Known # None
        /\ ~Relative => NextReport = mouse.last
    BY <2>1 DEF MustSend
  <2>4. mouse.last # None /\ lastButtons' = lastButtons
    BY <1>5, <2>1, <2>3, NoneIsNoReport
  <2>5. motion' = Still /\ motion' \in [Axes -> -Limit..Limit]
    BY <1>1, <2>1, <2>2, CounterFacts
  <2>6. TypeOK'
    BY <1>1, <1>2, <1>4, <2>4, <2>5 DEF TypeOK, Call, inputVars
  <2>7. ButtonTailIsCurrent' /\ LastHasButtons'
    BY <1>1, <1>2, <1>3, <2>4
       DEF IInv, ButtonTailIsCurrent, ButtonTail, LastHasButtons
  <2>8. HostIsKnown'
    BY <1>1, <1>2, <1>3, <2>4 DEF IInv, HostIsKnown, Shown
  <2>9. DirtyWhilePending'
    BY <1>2, <2>2, <2>5 DEF DirtyWhilePending, MotionPending, Still
  <2>10. ToldUnlessDirty'
    <3>1. mouse.last.pos = MouseReport({}, Still, pos).pos
      <4>1. CASE Relative
        <5>1. mouse.last \in Report
          BY <1>1, <2>4 DEF TypeOK, Device
        <5>2. mouse.last.pos \in {0}
          BY <4>1, <5>1 DEF Report
        <5>3. QED
          BY <4>1, <5>2 DEF MouseReport
      <4>2. CASE ~Relative
        BY <1>5, <2>3, <4>2
      <4>3. QED
        BY <4>1, <4>2
    <3>2. QED
      BY <1>2, <1>6, <3>1 DEF ToldUnlessDirty
  <2>11. QED
    BY <1>1, <1>2, <2>6, <2>7, <2>8, <2>9, <2>10
       DEF IInv, OnlyRunningCalls, AwayIsUntouched, OffIsAway, OthersAreUntouched,
           NodeIsOpened, Untouched
<1>9. QED
  BY <1>7, <1>8

-----------------------------------------------------------------------------
(***************************************************************************)
(* The other handlers.                                                     *)
(***************************************************************************)
\* The steps that change flags, or drop the motion.
LEMMA QuietInvariant ==
  ASSUME IInv,
         OnWritable \/ ServiceBackoff \/ BackoffExpires \/ Stall \/ PumpReturns
           \/ Keyboard \/ UNCHANGED vars
  PROVE  IInv'
<1>1. mouse \in Device(Report) /\ TypeOK
  BY DEF IInv, TypeOK
<1>2. UNCHANGED <<inputVars, btnQueue, pos, lastButtons, dirty, fn, bus, host, mode>>
  BY DEF OnWritable, ServiceBackoff, BackoffExpires, Stall, PumpReturns, Keyboard,
         KeyboardReads, KeyboardSent, KeyboardRefused, vars, bridgeVars, inputVars,
         pendingVars
<1>3. mouse' \in Device(Report) /\ mouse'.fd = mouse.fd /\ mouse'.last = mouse.last
  BY <1>1 DEF OnWritable, ServiceBackoff, BackoffExpires, Stall, PumpReturns, Keyboard,
              KeyboardReads, KeyboardSent, KeyboardRefused, vars, bridgeVars,
              ExtendBackoff, Device
<1>4. motion' \in {motion, Still}
  BY DEF OnWritable, ServiceBackoff, BackoffExpires, Stall, PumpReturns, Keyboard,
         KeyboardReads, KeyboardSent, KeyboardRefused, vars, bridgeVars, pendingVars,
         DropMotion
<1>5. blocked' \in {"no", "fresh", "stale"} /\ kbdAway' \in BOOLEAN
  BY <1>1
     DEF OnWritable, ServiceBackoff, BackoffExpires, Stall, PumpReturns, Keyboard,
         KeyboardReads, KeyboardSent, KeyboardRefused, vars, bridgeVars, pendingVars,
         DropMotion, TypeOK
<1>6. calls' \in Seq(Call) /\ (calls' # <<>> => mode = "running")
  <2>1. calls \in Seq(Call) /\ {<<>>, <<"pump">>, <<"pollout">>} \subseteq Seq(Call)
    <3>1. "pump" \in Call /\ "pollout" \in Call
      BY DEF Call
    <3>2. QED
      BY <1>1, <3>1 DEF TypeOK, Call
  <2>2. CASE PumpReturns
    BY <2>1, <2>2, CallsFacts DEF PumpReturns, Pumping, Return, IInv, OnlyRunningCalls
  <2>3. CASE ~PumpReturns
    BY <2>1, <2>3
       DEF OnWritable, ServiceBackoff, BackoffExpires, Stall, Keyboard, KeyboardReads,
           KeyboardSent, KeyboardRefused, vars, bridgeVars, Idling, IInv,
           OnlyRunningCalls
  <2>4. QED
    BY <2>2, <2>3
<1>7. motion' \in [Axes -> -Limit..Limit]
  BY <1>1, <1>4, StillIsZero DEF TypeOK
<1>8. TypeOK'
  BY <1>1, <1>2, <1>3, <1>5, <1>6, <1>7 DEF TypeOK, Call, inputVars
<1>9. Current' = Current /\ HostNext' = HostNext /\ (Untouched <=> Untouched')
  BY <1>2 DEF Current, HostNext, inputVars, Untouched
<1>10. ButtonTailIsCurrent' /\ LastHasButtons'
  BY <1>2, <1>3, <1>9 DEF IInv, ButtonTailIsCurrent, ButtonTail, LastHasButtons
<1>11. HostIsKnown'
  BY <1>2, <1>3, <1>9 DEF IInv, HostIsKnown, Shown
<1>12. DirtyWhilePending'
  BY <1>2, <1>4 DEF IInv, DirtyWhilePending, MotionPending, Still
<1>13. ToldUnlessDirty'
  BY <1>2, <1>3 DEF IInv, ToldUnlessDirty, MouseReport, Still
<1>14. QED
  BY <1>2, <1>3, <1>6, <1>8, <1>9, <1>10, <1>11, <1>12, <1>13
     DEF IInv, OnlyRunningCalls, AwayIsUntouched, OffIsAway, OthersAreUntouched,
         NodeIsOpened

LEMMA PollInvariant ==
  ASSUME IInv, PollHostState
  PROVE  IInv'
<1> DEFINE v == Revalidate(mouse, fn, MouseIdleReport)
           dev == HostStateChanged(v.dev, bus)
           back == WasAway(v.dev)
<1>1. /\ mouse \in Device(Report) /\ fn \in Function(Report) /\ TypeOK
      /\ mode = "running"
  BY DEF IInv, TypeOK, PollHostState, Idling
<1>2. Revalidates(Report, mouse, fn, v)
  BY <1>1, RevalidateFacts, IdleIsReport
<1>3. v.dev \in Device(Report) /\ v.fun \in Function(Report)
  BY <1>2 DEF Revalidates
<1>4. v.dev.last = mouse.last \/ (v.dev.last = None /\ Untouched)
  BY <1>1, <1>2 DEF Revalidates, IInv, NodeIsOpened, OthersAreUntouched
<1>5. /\ v.dev.fd # "live" => mouse.fd # "live"
      /\ v.fun.node # "same" => v.dev.fd # "live"
  BY <1>1, <1>2 DEF Revalidates, IInv, NodeIsOpened
<1>6. v.fun.inflight = fn.inflight /\ v.fun.off = fn.off
  BY <1>2 DEF Revalidates
<1> HIDE DEF v
<1>7. dev \in Device(Report) /\ dev.fd = v.dev.fd /\ dev.last = v.dev.last
  BY <1>3 DEF HostStateChanged, Device
<1> HIDE DEF dev
<1>8. back \in BOOLEAN
  BY DEF WasAway
<1> HIDE DEF back
<1>9. /\ fn' = v.fun
      /\ mouse' = IF back THEN [dev EXCEPT !.last = None] ELSE dev
      /\ dirty' = (dirty \/ back)
      /\ kbdAway' = (kbdAway /\ bus # "configured")
      /\ calls' = <<"pump">>
      /\ UNCHANGED <<inputVars, btnQueue, motion, pos, lastButtons, blocked, bus, host,
                     mode>>
  BY DEF PollHostState, v, dev, back
<1>10. /\ mouse' \in Device(Report) /\ mouse'.fd = v.dev.fd
       /\ mouse'.last \in {None, v.dev.last}
  BY <1>7, <1>9 DEF Device
<1>11. calls' \in Seq(Call)
  <2>1. "pump" \in Call
    BY DEF Call
  <2>2. QED
    BY <1>9, <2>1
<1>12. dirty' \in BOOLEAN /\ (dirty => dirty')
  BY <1>1, <1>8, <1>9 DEF TypeOK
<1>13. TypeOK'
  <2>1. kbdAway' \in BOOLEAN
    BY <1>9
  <2>2. QED
    BY <1>1, <1>3, <1>9, <1>10, <1>11, <1>12, <2>1 DEF TypeOK, Call, inputVars
<1>14. Current' = Current /\ HostNext' = HostNext /\ (Untouched <=> Untouched')
  BY <1>6, <1>9 DEF Current, HostNext, inputVars, Untouched
<1>15. ButtonTailIsCurrent'
  BY <1>9, <1>14 DEF IInv, ButtonTailIsCurrent, ButtonTail
<1>16. LastHasButtons'
  BY <1>1, <1>4, <1>9, <1>10 DEF IInv, LastHasButtons
<1>17. HostIsKnown'
  <2>1. CASE Untouched
    BY <1>14, <2>1 DEF HostIsKnown, HostNext, Untouched
  <2>2. CASE ~Untouched /\ mouse'.last # None
    BY <1>1, <1>4, <1>9, <1>10, <1>14, <2>2 DEF IInv, HostIsKnown, Shown
  <2>3. CASE ~Untouched /\ mouse'.last = None /\ mouse.last = None
    BY <1>1, <1>9, <1>14, <2>3 DEF IInv, HostIsKnown, Shown
  <2>4. CASE ~Untouched /\ mouse'.last = None /\ mouse.last # None
    <3>1. HostNext = {} \/ HostNext = Shown(lastButtons)
      BY <1>1, <2>4 DEF IInv, HostIsKnown
    <3>2. btnQueue = <<>> => lastButtons = Current
      BY <1>1, <2>4 DEF IInv, ButtonTailIsCurrent, ButtonTail, LastHasButtons
    <3>3. Shown(Current)' = Shown(Current)
      BY <1>14 DEF Shown
    <3>4. QED
      BY <1>9, <1>14, <2>4, <3>1, <3>2, <3>3 DEF HostIsKnown
  <2>5. QED
    BY <2>1, <2>2, <2>3, <2>4
<1>18. DirtyWhilePending'
  BY <1>1, <1>9, <1>12 DEF IInv, DirtyWhilePending, MotionPending, Still
<1>19. ToldUnlessDirty'
  <2>1. MouseReport({}, Still, pos)' = MouseReport({}, Still, pos)
    BY <1>9 DEF MouseReport, Still
  <2>2. QED
    BY <1>1, <1>4, <1>9, <1>10, <1>12, <2>1 DEF IInv, ToldUnlessDirty
<1>20. QED
  BY <1>1, <1>5, <1>6, <1>9, <1>10, <1>13, <1>14, <1>15, <1>16, <1>17, <1>18, <1>19
     DEF IInv, OnlyRunningCalls, AwayIsUntouched, OffIsAway, OthersAreUntouched,
         NodeIsOpened

\* Outside of the loop only the types and the absent host matter.
LEMMA EndedInvariant ==
  ASSUME TypeOK', AwayIsUntouched', OffIsAway',
         mode' # "running", calls' = <<>>
  PROVE  IInv'
  BY DEF IInv, OnlyRunningCalls, OthersAreUntouched, NodeIsOpened, ButtonTailIsCurrent,
         LastHasButtons, HostIsKnown, DirtyWhilePending, ToldUnlessDirty

LEMMA ReleaseFacts == pos \in Positions => ReleaseReport \in Report
<1>1. {} \in Pressed
  BY DEF Pressed
<1>2. QED
  BY <1>1, StillIsZero, ReportFacts DEF ReleaseReport

LEMMA EndingInvariant ==
  ASSUME IInv, Ending
  PROVE  IInv'
<1>1. /\ mouse \in Device(Report) /\ fn \in Function(Report) /\ TypeOK
      /\ MouseIdleReport \in Report
  BY IdleIsReport DEF IInv, TypeOK
<1>2. ASSUME NEW d \in Device(Report)
      PROVE  Close(d) \in Device(Report)
  BY DEF Close, Device
<1>3. ASSUME NEW d \in Device(Report), Shutdown(d), bus' = bus,
             fn' \in Function(Report), host' = host
      PROVE  TypeOK' /\ mode' # "running" /\ calls' = <<>>
  <2>1. /\ buttons' \in [Sources -> SUBSET Buttons]
        /\ macroButtons' \in SUBSET MacroButtons
        /\ btnQueue' = <<>> /\ motion' = Still /\ blocked' = "no" /\ calls' = <<>>
        /\ mode' \in {"releasing", "down"} /\ mouse' \in {d, Close(d)}
        /\ UNCHANGED <<pos, lastButtons, dirty, kbdAway>>
    BY <1>3 DEF Shutdown, DropMotion
  <2>2. btnQueue' \in Seq(Pressed) /\ Len(btnQueue') <= QueueMax
    BY <2>1, LimitsAssumption
  <2>3. calls' \in Seq(Call)
    BY <2>1
  <2>4. mouse' \in Device(Report)
    BY <1>2, <2>1
  <2>5. motion' \in [Axes -> -Limit..Limit]
    BY <2>1, StillIsZero
  <2>6. TypeOK'
    BY <1>1, <1>3, <2>1, <2>2, <2>3, <2>4, <2>5 DEF TypeOK, Call
  <2>7. QED
    BY <2>1, <2>6
<1>4. CASE Stop
  <2>1. TypeOK' /\ mode' # "running" /\ calls' = <<>>
    BY <1>1, <1>3, <1>4 DEF Stop
  <2>2. AwayIsUntouched' /\ OffIsAway'
    BY <1>4 DEF Stop, IInv, AwayIsUntouched, OffIsAway, Untouched
  <2>3. QED
    BY <2>1, <2>2, EndedInvariant
<1>5. CASE PumpFaults
  <2> DEFINE w == Written("busy")
  <2>1. mode = "running"
    BY <1>5 DEF PumpFaults, Trying, Pumping, IInv, OnlyRunningCalls
  <2>2. Writes(Report, mouse, fn, NextReport, "busy", w)
    BY <1>1, NextFacts, WriteFacts DEF Written
  <2>3. /\ w.dev \in Device(Report) /\ w.fun \in Function(Report)
        /\ w.fun.inflight = fn.inflight /\ w.fun.off = fn.off
        /\ w.dev.last = mouse.last
        /\ mouse.fd = "closed" => w.dev.fd = "live" /\ w.fun.node = "same"
        /\ mouse.fd # "closed" => w.dev.fd = mouse.fd /\ w.fun.node = fn.node
    BY <2>2 DEF Writes
  <2> HIDE DEF w
  <2>4. fn' = w.fun /\ UNCHANGED <<bus, host>>
    BY <1>5 DEF PumpFaults, w
  <2>5. AwayIsUntouched' /\ OffIsAway'
    BY <2>3, <2>4 DEF IInv, AwayIsUntouched, OffIsAway, Untouched
  <2>6. CASE Last(calls) = "reply"
    <3>1. /\ mouse' = w.dev /\ calls' = <<>>
          /\ lastButtons' = Known /\ motion' = Counters
          /\ UNCHANGED <<inputVars, btnQueue, pos, dirty, blocked, kbdAway, mode>>
      BY <1>5, <2>6 DEF PumpFaults, w
    <3>2. /\ Known \in Pressed \cup {None} /\ Known \in {None, lastButtons}
          /\ mouse.last # None => Known = lastButtons
      BY <1>1, NextFacts DEF Known
    <3>3. /\ motion' \in [Axes -> -Limit..Limit]
          /\ motion = Still => motion' = Still
      BY <1>1, <3>1, CounterFacts
    <3>4. TypeOK'
      BY <1>1, <2>3, <2>4, <3>1, <3>2, <3>3 DEF TypeOK, inputVars
    <3>5. Current' = Current /\ HostNext' = HostNext
      BY <2>3, <2>4, <3>1 DEF Current, HostNext, inputVars
    <3>6. ButtonTailIsCurrent' /\ LastHasButtons'
      BY <2>3, <3>1, <3>2, <3>5
         DEF IInv, ButtonTailIsCurrent, ButtonTail, LastHasButtons
    <3>7. HostIsKnown'
      BY <2>1, <2>3, <3>1, <3>2, <3>5 DEF IInv, HostIsKnown, Shown
    <3>8. DirtyWhilePending'
      BY <3>1, <3>3 DEF IInv, DirtyWhilePending, MotionPending, Still
    <3>9. ToldUnlessDirty'
      BY <2>3, <3>1 DEF IInv, ToldUnlessDirty, MouseReport, Still
    <3>10. OthersAreUntouched' /\ NodeIsOpened'
      BY <1>1, <2>3, <2>4, <3>1
         DEF IInv, OthersAreUntouched, NodeIsOpened, Untouched
    <3>11. QED
      BY <2>1, <2>5, <3>1, <3>4, <3>6, <3>7, <3>8, <3>9, <3>10 DEF IInv, OnlyRunningCalls
  <2>7. CASE Last(calls) # "reply"
    <3>1. Shutdown(w.dev)
      BY <1>5, <2>7 DEF PumpFaults, w
    <3>2. TypeOK' /\ mode' # "running" /\ calls' = <<>>
      BY <1>3, <2>3, <2>4, <3>1
    <3>3. QED
      BY <2>5, <3>2, EndedInvariant
  <2>8. QED
    BY <2>6, <2>7
<1>6. CASE ReleaseWrite
  <2> DEFINE out == ReleaseOutcome
             w == Released(out)
  <2>1. out \in Outcomes /\ (out = "sent" => bus # "away")
    BY DEF ReleaseOutcome, WriteOutcome, Outcomes
  <2>2. ReleaseReport \in Report
    BY <1>1, ReleaseFacts DEF TypeOK
  <2>3. Writes(Report, mouse, fn, ReleaseReport, out, w)
    BY <1>1, <2>1, <2>2, WriteFacts DEF Outcomes, Released
  <2>4. /\ w.dev \in Device(Report) /\ w.fun \in Function(Report)
        /\ w.fun.off = fn.off
        /\ out # "sent" => w.fun.inflight = fn.inflight
    BY <2>3 DEF Writes
  <2>5. /\ fn' = w.fun
        /\ mode' \in {"down", "releasing", "gaveup"} /\ mode = "releasing"
        /\ mouse' = w.dev \/ mouse' = Close(w.dev)
        /\ UNCHANGED <<inputVars, pendingVars, kbdAway, bus, host, calls>>
    BY <1>6 DEF ReleaseWrite
  <2> HIDE DEF w, out
  <2>6. TypeOK'
    BY <1>1, <1>2, <2>4, <2>5 DEF TypeOK, inputVars, pendingVars
  <2>7. AwayIsUntouched' /\ OffIsAway'
    BY <2>1, <2>4, <2>5 DEF IInv, AwayIsUntouched, OffIsAway, Untouched
  <2>8. calls' = <<>>
    BY <2>5 DEF IInv, OnlyRunningCalls
  <2>9. QED
    BY <2>5, <2>6, <2>7, <2>8, EndedInvariant
<1>7. CASE ReleaseSkipped
  <2>1. TypeOK'
    BY <1>1, <1>2, <1>7 DEF ReleaseSkipped, TypeOK, inputVars, pendingVars
  <2>2. AwayIsUntouched' /\ OffIsAway'
    BY <1>7 DEF ReleaseSkipped, IInv, AwayIsUntouched, OffIsAway, Untouched
  <2>3. QED
    BY <1>7, <2>1, <2>2, EndedInvariant DEF ReleaseSkipped, IInv, OnlyRunningCalls
<1>8. CASE ReleaseFaults
  <2> DEFINE w == Released("busy")
  <2>1. ReleaseReport \in Report
    BY <1>1, ReleaseFacts DEF TypeOK
  <2>2. Writes(Report, mouse, fn, ReleaseReport, "busy", w)
    BY <1>1, <2>1, WriteFacts DEF Released
  <2>3. /\ w.dev \in Device(Report) /\ w.fun \in Function(Report)
        /\ w.fun.off = fn.off /\ w.fun.inflight = fn.inflight
    BY <2>2 DEF Writes
  <2>4. /\ fn' = w.fun /\ mouse' = Close(w.dev)
        /\ mode' = "gaveup" /\ mode = "releasing"
        /\ UNCHANGED <<inputVars, pendingVars, kbdAway, bus, host, calls>>
    BY <1>8 DEF ReleaseFaults
  <2> HIDE DEF w
  <2>5. TypeOK'
    BY <1>1, <1>2, <2>3, <2>4 DEF TypeOK, inputVars, pendingVars
  <2>6. AwayIsUntouched' /\ OffIsAway'
    BY <2>3, <2>4 DEF IInv, AwayIsUntouched, OffIsAway, Untouched
  <2>7. QED
    BY <2>4, <2>5, <2>6, EndedInvariant DEF IInv, OnlyRunningCalls
<1>9. QED
  BY <1>4, <1>5, <1>6, <1>7, <1>8 DEF Ending

\* The buttons of a report with room for them.
LEMMA HostNextFacts == TypeOK => HostNext \in Pressed
<1> SUFFICES ASSUME TypeOK PROVE HostNext \in Pressed
  OBVIOUS
<1>1. CASE fn.inflight # None
  <2>1. fn.inflight \in Report
    BY <1>1 DEF TypeOK, Function
  <2>2. fn.inflight.buttons \in Pressed
    BY <2>1 DEF Report
  <2>3. QED
    BY <1>1, <2>2 DEF HostNext
<1>2. CASE fn.inflight = None
  BY <1>2 DEF HostNext, TypeOK
<1>3. QED
  BY <1>1, <1>2

LEMMA HostInvariant ==
  ASSUME IInv, Environment
  PROVE  IInv'
<1>1. mouse \in Device(Report) /\ fn \in Function(Report) /\ TypeOK
  BY DEF IInv, TypeOK
<1>2. UNCHANGED <<inputVars, pendingVars, kbdAway, calls, mode>>
  BY DEF Environment, Collect, Deconfigure, Configure, Suspend, Resume, GadgetDown,
         GadgetUp, GadgetPrimes, bridgeVars
<1>3. /\ mouse' \in Device(Report) /\ mouse'.last = mouse.last
      /\ mouse.fd # "live" => mouse'.fd # "live"
  BY <1>1 DEF Environment, Collect, Deconfigure, Configure, Suspend, Resume, GadgetDown,
              GadgetUp, GadgetPrimes, bridgeVars, DeviceOrphaned, Device
<1>4. fn' \in Function(Report)
  <2>1. CASE Collect \/ Deconfigure \/ Configure \/ Suspend \/ Resume
    BY <1>1, <2>1
       DEF Collect, Deconfigure, Configure, Suspend, Resume, Function,
           FunctionDisabled, FunctionEnabled
  <2>2. CASE GadgetDown
    BY <1>1, <2>2 DEF GadgetDown, Function, FunctionRemoved
  <2>3. CASE GadgetUp
    <3>1. PICK node \in Rebuild : fn' = FunctionBuilt(node)
      BY <2>3 DEF GadgetUp
    <3>2. node \in {"same", "other", "gone"}
      BY FlagsAssumption
    <3>3. FunctionBuilt(node) \in Function(Report)
      BY <3>2 DEF Function, FunctionBuilt
    <3>4. QED
      BY <3>1, <3>3
  <2>4. CASE GadgetPrimes
    BY <1>1, <2>4, IdleIsReport DEF GadgetPrimes, Function, FunctionPrimed
  <2>5. QED
    BY <2>1, <2>2, <2>3, <2>4 DEF Environment
<1>5. host' \in [buttons : Pressed, pos : Positions]
  <2>1. CASE Collect
    <3>1. fn.inflight \in Report
      BY <1>1, <2>1 DEF Collect, Function
    <3>2. fn.inflight.buttons \in Pressed /\ fn.inflight.pos \in Positions
      BY <3>1, PositionsAssumption DEF Report
    <3>3. QED
      BY <2>1, <3>2 DEF Collect
  <2>2. CASE ~Collect
    <3>1. {} \in Pressed
      BY DEF Pressed
    <3>2. QED
      BY <1>1, <2>2, <3>1
         DEF TypeOK, Environment, Deconfigure, Configure, Suspend, Resume, GadgetDown,
             GadgetUp, GadgetPrimes
  <2>3. QED
    BY <2>1, <2>2
<1>6. bus' \in BusState
  BY <1>1 DEF TypeOK, Environment, Collect, Deconfigure, Configure, Suspend, Resume,
              GadgetDown, GadgetUp, GadgetPrimes, BusState
<1>7. TypeOK'
  BY <1>1, <1>2, <1>3, <1>4, <1>5, <1>6 DEF TypeOK, inputVars, pendingVars
<1>8. /\ ButtonTailIsCurrent' /\ LastHasButtons' /\ DirtyWhilePending'
      /\ ToldUnlessDirty' /\ OnlyRunningCalls'
  BY <1>2, <1>3
     DEF IInv, ButtonTailIsCurrent, ButtonTail, LastHasButtons, DirtyWhilePending,
         MotionPending, Still, ToldUnlessDirty, MouseReport, OnlyRunningCalls, Current,
         inputVars, pendingVars
<1>9. Shown(Current)' = Shown(Current) /\ Shown(lastButtons)' = Shown(lastButtons)
  BY <1>2 DEF Shown, Current, inputVars, pendingVars
<1>10. ASSUME HostNext' \in {HostNext, {}}
       PROVE  HostIsKnown'
  BY <1>2, <1>3, <1>9, <1>10 DEF IInv, HostIsKnown, pendingVars
<1>11. CASE Collect
  <2>1. /\ fn'.inflight = None /\ fn'.node = fn.node /\ fn'.off = fn.off
        /\ host'.buttons = fn.inflight.buttons /\ fn.inflight # None
        /\ bus = "configured" /\ UNCHANGED <<bridgeVars, bus>>
    BY <1>1, <1>11 DEF Collect, Function
  <2>2. HostNext' = HostNext
    BY <2>1 DEF HostNext
  <2>3. QED
    BY <1>2, <1>7, <1>8, <1>10, <2>1, <2>2
       DEF bridgeVars, IInv, AwayIsUntouched, OffIsAway, OthersAreUntouched,
           NodeIsOpened, Untouched
<1>12. CASE Deconfigure \/ GadgetDown
  <2>1. /\ fn'.inflight = None /\ host'.buttons = {} /\ bus' = "away"
        /\ fn'.node # "same" => fn.node # "same" \/ mouse'.fd # "live"
    <3>1. CASE Deconfigure
      BY <1>1, <3>1 DEF Deconfigure, bridgeVars, FunctionDisabled, Function, TypeOK
    <3>2. CASE GadgetDown
      <4>1. fn'.inflight = None
        BY <3>2, RemovedFacts DEF GadgetDown
      <4>2. mouse'.fd # "live"
        BY <1>1, <3>2 DEF GadgetDown, DeviceOrphaned, Device
      <4>3. QED
        BY <1>1, <3>2, <4>1, <4>2 DEF GadgetDown, TypeOK
    <3>3. QED
      BY <1>12, <3>1, <3>2
  <2>2. HostNext' = {}
    BY <2>1 DEF HostNext
  <2>3. QED
    BY <1>2, <1>3, <1>7, <1>8, <1>10, <2>1, <2>2
       DEF IInv, AwayIsUntouched, OffIsAway, OthersAreUntouched, NodeIsOpened, Untouched
<1>13. CASE Configure \/ Suspend \/ Resume
  <2>1. /\ fn'.inflight = fn.inflight /\ fn'.node = fn.node
        /\ bus' # "away" /\ ~fn'.off
        /\ UNCHANGED <<bridgeVars, host>>
    BY <1>1, <1>13
       DEF Configure, Suspend, Resume, FunctionEnabled, Function, IInv, OffIsAway
  <2>2. HostNext' = HostNext
    BY <2>1 DEF HostNext
  <2>3. QED
    BY <1>7, <1>8, <1>10, <2>1, <2>2
       DEF bridgeVars, IInv, AwayIsUntouched, OffIsAway, OthersAreUntouched,
           NodeIsOpened, Untouched
<1>14. CASE GadgetUp
  <2>1. /\ fn.node = "gone" /\ fn'.inflight = None /\ ~fn'.off
        /\ UNCHANGED <<bridgeVars, bus, host>>
    BY <1>14 DEF GadgetUp, FunctionBuilt
  <2>2. mode = "running" => Untouched /\ mouse.fd # "live"
    BY <2>1 DEF IInv, NodeIsOpened, OthersAreUntouched
  <2>3. HostIsKnown'
    BY <1>2, <2>1, <2>2 DEF HostIsKnown, HostNext, Untouched
  <2>4. QED
    BY <1>7, <1>8, <2>1, <2>2, <2>3
       DEF bridgeVars, IInv, AwayIsUntouched, OffIsAway, OthersAreUntouched,
           NodeIsOpened, Untouched
<1>15. CASE GadgetPrimes
  <2>1. /\ fn'.inflight = fn.inflight /\ fn'.off = fn.off /\ fn'.node = fn.node
        /\ UNCHANGED <<bridgeVars, bus, host>>
    BY <1>1, <1>15 DEF GadgetPrimes, FunctionPrimed, Function
  <2>2. HostNext' = HostNext
    BY <2>1 DEF HostNext
  <2>3. QED
    BY <1>7, <1>8, <1>10, <2>1, <2>2
       DEF bridgeVars, IInv, AwayIsUntouched, OffIsAway, OthersAreUntouched,
           NodeIsOpened, Untouched
<1>16. QED
  BY <1>11, <1>12, <1>13, <1>14, <1>15 DEF Environment

-----------------------------------------------------------------------------
(***************************************************************************)
(* The theorems.                                                           *)
(***************************************************************************)
THEOREM Inductive == IInv /\ [Next]_vars => IInv'
<1> SUFFICES ASSUME IInv, [Next]_vars PROVE IInv'
  OBVIOUS
<1>1. CASE Input \/ ClearSources
  BY <1>1, InputInvariant
<1>2. CASE OnWritable \/ ServiceBackoff \/ BackoffExpires \/ Stall \/ PumpReturns
             \/ Keyboard \/ UNCHANGED vars
  BY <1>2, QuietInvariant
<1>3. CASE PollHostState
  BY <1>3, PollInvariant
<1>4. CASE PumpDelivers \/ PumpDefers \/ PumpIsSilent \/ PumpIsDone
  BY <1>4, DeliversInvariant, DefersInvariant, DoneInvariant
<1>5. CASE Ending
  BY <1>5, EndingInvariant
<1>6. CASE Environment
  BY <1>6, HostInvariant
<1>7. QED
  BY <1>1, <1>2, <1>3, <1>4, <1>5, <1>6 DEF Next, Handler, Pump

THEOREM Invariance == Spec => []IInv
  BY InitInvariant, Inductive, PTL DEF Spec

(***************************************************************************)
(* Every variable keeps its type: the queue and the counters, in           *)
(* particular, their bounds, and a report in flight the room it has for    *)
(* motion.                                                                 *)
(***************************************************************************)
THEOREM TypeCorrect == Spec => []TypeOK
<1>1. IInv => TypeOK
  BY DEF IInv
<1>2. QED
  BY <1>1, Invariance, PTL

(***************************************************************************)
(* What _note_buttons last accepted for the host is the merged state.      *)
(***************************************************************************)
THEOREM ButtonTailCorrect == Spec => []ButtonTailIsCurrent
<1>1. IInv => ButtonTailIsCurrent
  BY DEF IInv
<1>2. QED
  BY <1>1, Invariance, PTL

(***************************************************************************)
(* Once the queue is empty, the host holds what the sources hold, or       *)
(* nothing: whatever was refused, lost, dropped or sent before.            *)
(***************************************************************************)
THEOREM NoButtonSticks == Spec => []NoStuckButton
<1>1. IInv => NoStuckButton
  <2> SUFFICES ASSUME IInv, mode = "running", btnQueue = <<>>
               PROVE  HostNext \in {Shown(Current), {}}
    BY DEF NoStuckButton
  <2>1. lastButtons \in {Current, None}
    BY DEF IInv, ButtonTailIsCurrent, ButtonTail
  <2>2. mouse.last # None => lastButtons # None
    BY DEF IInv, LastHasButtons
  <2>3. QED
    BY <2>1, <2>2 DEF IInv, HostIsKnown
<1>2. QED
  BY <1>1, Invariance, PTL

(***************************************************************************)
(* A button state or motion that waits keeps the mouse dirty, so that      *)
(* select() and the backoff timer look after it.                           *)
(***************************************************************************)
THEOREM PendingStaysDirty == Spec => []PendingIsDirty
<1>1. IInv => PendingIsDirty
  BY DEF IInv, PendingIsDirty, DirtyWhilePending, Idling
<1>2. QED
  BY <1>1, Invariance, PTL

(***************************************************************************)
(* The last position is not forgotten when the mouse is believed done.     *)
(***************************************************************************)
THEOREM PositionTold == Spec => []PositionIsTold
<1>1. IInv => PositionIsTold
  BY DEF IInv, PositionIsTold, ToldUnlessDirty, Idling
<1>2. QED
  BY <1>1, Invariance, PTL

-----------------------------------------------------------------------------
(***************************************************************************)
(* GET_REPORT, in every mode.                                              *)
(***************************************************************************)
AnswerKnown(d, f) ==
  /\ Coheres(d, f, MouseIdleReport)
  /\ f.answer # None => f.answer.motion = Still

LEMMA WriteAnswersStill ==
  ASSUME TypeOK, AnswerKnown(mouse, fn),
         NEW report \in Report, NEW answer \in Report, answer.motion = Still,
         NEW out \in Outcomes,
         NEW w, w = WriteReport(mouse, fn, report, answer, MouseIdleReport, out)
  PROVE  w.dev \in Device(Report) /\ AnswerKnown(w.dev, w.fun)
<1>1. mouse \in Device(Report) /\ fn \in Function(Report)
  BY DEF TypeOK
<1>2. /\ MouseIdleReport \in Report /\ MouseIdleReport.motion = Still
      /\ None \notin Report
  BY IdleIsReport, NoneIsNoReport
<1>3. out \in {"noopen", "same", "lost", "busy", "sent"}
  BY DEF Outcomes
<1>4. Writes(Report, mouse, fn, report, out, w)
  BY <1>1, <1>2, <1>3, WriteFacts
<1>5. Coheres(w.dev, w.fun, MouseIdleReport)
  BY <1>1, <1>2, <1>3, WriteCoheres DEF AnswerKnown
<1>6. w.fun.answer \in {fn.answer, MouseIdleReport, answer}
  BY <1>1, <1>2, <1>3, WriteAnswers
<1>7. fn.answer # None => fn.answer.motion = Still
  BY DEF AnswerKnown
<1>8. QED
  BY <1>2, <1>4, <1>5, <1>6, <1>7 DEF Writes, AnswerKnown

\* A step that leaves the fd, the cache and the answer alone, or closes the fd.
LEMMA AnswerKept ==
  ASSUME NEW d, NEW f, AnswerKnown(d, f), NEW e, NEW g,
         \/ e.fd # "live"
         \/ /\ e.fd = d.fd /\ e.cached = d.cached
            /\ g.node = f.node /\ g.priming = f.priming,
         g.answer = f.answer
  PROVE  AnswerKnown(e, g)
  BY DEF AnswerKnown, Coheres

LEMMA NextAnswers ==
  TypeOK /\ AnswerKnown(mouse, fn) /\ [Next]_vars => AnswerKnown(mouse, fn)'
<1> SUFFICES ASSUME TypeOK, AnswerKnown(mouse, fn), [Next]_vars
             PROVE  AnswerKnown(mouse', fn')
  BY DEF AnswerKnown, Coheres, Still
<1>1. mouse \in Device(Report) /\ fn \in Function(Report)
  BY DEF TypeOK
<1>2. CASE Input \/ ClearSources
  BY <1>2, AnswerKept
     DEF Input, Frame, RemoveSource, MacroMouse, ReleaseAll, ClearSources, Emit
<1>3. CASE OnWritable \/ ServiceBackoff \/ BackoffExpires \/ Stall \/ Keyboard
             \/ PumpReturns \/ PumpIsSilent \/ PumpIsDone \/ UNCHANGED vars
  <2>1. fn' = fn /\ mouse'.fd = mouse.fd /\ mouse'.cached = mouse.cached
    BY <1>1, <1>3
       DEF OnWritable, ServiceBackoff, ExtendBackoff, BackoffExpires, Stall, Keyboard,
           KeyboardReads, KeyboardSent, KeyboardRefused, PumpReturns, PumpIsSilent,
           PumpIsDone, vars, bridgeVars, Device
  <2>2. QED
    BY <2>1, AnswerKept
<1>4. CASE PollHostState
  <2> DEFINE v == Revalidate(mouse, fn, MouseIdleReport)
             dev == HostStateChanged(v.dev, bus)
  <2>1. Revalidates(Report, mouse, fn, v)
    BY <1>1, IdleIsReport, RevalidateFacts
  <2>2. v.dev \in Device(Report) /\ Coheres(v.dev, v.fun, MouseIdleReport)
    BY <1>1, <2>1, IdleIsReport, NoneIsNoReport, RevalidateCoheres
       DEF Revalidates, AnswerKnown
  <2>3. v.fun.answer \in {fn.answer, MouseIdleReport}
    BY <1>1, IdleIsReport, RevalidateAnswers
  <2>4. fn' = v.fun /\ mouse' \in {dev, [dev EXCEPT !.last = None]}
    BY <1>4 DEF PollHostState
  <2> HIDE DEF v
  <2>5. AnswerKnown(v.dev, v.fun)
    BY <2>2, <2>3, IdleIsReport DEF AnswerKnown
  <2>6. dev \in Device(Report) /\ dev.fd = v.dev.fd /\ dev.cached = v.dev.cached
    BY <2>2 DEF HostStateChanged, Device
  <2> HIDE DEF dev
  <2>7. mouse'.fd = v.dev.fd /\ mouse'.cached = v.dev.cached
    BY <2>4, <2>6 DEF Device
  <2>8. QED
    BY <2>4, <2>5, <2>7, AnswerKept
<1>5. CASE PumpDelivers \/ PumpDefers \/ PumpFaults
  <2>1. /\ NextReport \in Report /\ StillReport \in Report
        /\ StillReport.motion = Still
    BY NextFacts
  <2>2. Outcome \in Outcomes /\ "busy" \in Outcomes
    BY DEF Outcome, WriteOutcome, Outcomes
  <2>3. PICK out \in Outcomes :
          /\ fn' = Written(out).fun
          /\ mouse' \in {Written(out).dev, Close(Written(out).dev),
                         EnterBackoff(Written(out).dev)}
    BY <1>5, <2>2 DEF PumpDelivers, PumpDefers, PumpFaults, OnWriteDeferred, Shutdown
  <2> DEFINE w == Written(out)
  <2>4. w.dev \in Device(Report) /\ AnswerKnown(w.dev, w.fun)
    BY <2>1, WriteAnswersStill DEF Written
  <2> HIDE DEF w
  <2>5. /\ fn' = w.fun
        /\ mouse'.fd = "closed" \/ (mouse'.fd = w.dev.fd /\ mouse'.cached = w.dev.cached)
    BY <2>3, <2>4 DEF w, Close, EnterBackoff, Device
  <2>6. QED
    BY <2>4, <2>5, AnswerKept
<1>6. CASE Stop \/ ReleaseSkipped
  <2>1. fn' = fn /\ mouse' \in {mouse, Close(mouse)}
    BY <1>6 DEF Stop, Shutdown, ReleaseSkipped
  <2>2. mouse'.fd = "closed" \/ mouse' = mouse
    BY <1>1, <2>1 DEF Close, Device
  <2>3. QED
    BY <2>1, <2>2, AnswerKept
<1>7. CASE ReleaseWrite \/ ReleaseFaults
  <2>1. ReleaseOutcome \in Outcomes /\ "busy" \in Outcomes
    BY DEF ReleaseOutcome, WriteOutcome, Outcomes
  <2>2. PICK out \in Outcomes :
          fn' = Released(out).fun /\ mouse' \in {Released(out).dev, Close(Released(out).dev)}
    BY <1>7, <2>1 DEF ReleaseWrite, ReleaseFaults
  <2> DEFINE w == Released(out)
  <2>3. w.dev \in Device(Report) /\ AnswerKnown(w.dev, w.fun)
    <3>1. ReleaseReport \in Report /\ ReleaseReport.motion = Still
      BY ReleaseFacts DEF TypeOK, ReleaseReport, MouseReport
    <3>2. QED
      BY <3>1, WriteAnswersStill DEF Released
  <2>4. fn' = w.fun /\ mouse' \in {w.dev, Close(w.dev)}
    BY <2>2
  <2> HIDE DEF w
  <2>5. mouse'.fd = "closed" \/ mouse' = w.dev
    BY <2>3, <2>4 DEF Close, Device
  <2>6. QED
    BY <2>3, <2>4, <2>5, AnswerKept
<1>8. CASE Environment
  <2>1. CASE Collect \/ Deconfigure \/ Configure \/ Suspend \/ Resume
    <3>1. /\ mouse' = mouse /\ fn'.answer = fn.answer
          /\ fn'.node = fn.node /\ fn'.priming = fn.priming
      BY <1>1, <2>1
         DEF Collect, Deconfigure, Configure, Suspend, Resume, bridgeVars,
             FunctionDisabled, FunctionEnabled, Function
    <3>2. QED
      BY <3>1, AnswerKept
  <2>2. CASE GadgetDown
    <3>1. fn'.answer = None
      BY <2>2, RemovedFacts DEF GadgetDown
    <3>2. mouse'.fd # "live"
      BY <1>1, <2>2 DEF GadgetDown, DeviceOrphaned, Device
    <3>3. QED
      BY <3>1, <3>2 DEF AnswerKnown, Coheres
  <2>3. CASE GadgetUp
    <3>1. mouse' = mouse /\ mouse.fd # "live"
      BY <2>3 DEF GadgetUp, bridgeVars, AnswerKnown, Coheres
    <3>2. fn'.answer = None
      BY <2>3, BuiltFacts DEF GadgetUp
    <3>3. QED
      BY <3>1, <3>2 DEF AnswerKnown, Coheres
  <2>4. CASE GadgetPrimes
    <3>1. /\ mouse' = mouse /\ fn'.answer = MouseIdleReport
          /\ fn'.node = fn.node /\ fn'.priming = "last"
      BY <1>1, <2>4 DEF GadgetPrimes, FunctionPrimed, bridgeVars, Function
    <3>2. QED
      BY <3>1, IdleIsReport DEF AnswerKnown, Coheres
  <2>5. QED
    BY <1>8, <2>1, <2>2, <2>3, <2>4 DEF Environment
<1>9. QED
  BY <1>2, <1>3, <1>4, <1>5, <1>6, <1>7, <1>8 DEF Next, Handler, Pump, Ending

(***************************************************************************)
(* A host that asks for the report never gets motion again, also on a node *)
(* that was recreated and in shutdown(); a position it may get, and that   *)
(* of the idle report is 0,0.  The bridge knows the answer, unless `gadget *)
(* up' primed a node after the bridge had opened it.                       *)
(***************************************************************************)
THEOREM AnswerStaysStill == Spec => []AnswerIsStill
<1>1. ASSUME Init PROVE AnswerKnown(mouse, fn)
  <2> DEFINE f0 == FunctionPrimed(FunctionBuilt("same"), MouseIdleReport)
             o == Open(NewDevice, f0, MouseIdleReport)
  <2>1. NewDevice \in Device(Report) /\ Coheres(NewDevice, f0, MouseIdleReport)
    BY DEF NewDevice, Device, Coheres
  <2>2. f0 \in Function(Report) /\ f0.answer = MouseIdleReport
    BY IdleIsReport DEF FunctionBuilt, FunctionPrimed, Function
  <2>3. mouse = o.dev /\ fn = o.fun
    BY <1>1 DEF Init
  <2> HIDE DEF f0
  <2>4. Coheres(o.dev, o.fun, MouseIdleReport)
    BY <2>1, <2>2, IdleIsReport, NoneIsNoReport, OpenCoheres
  <2>5. o.fun.answer \in {f0.answer, MouseIdleReport}
    BY <2>1, <2>2, IdleIsReport, OpenAnswers
  <2> HIDE DEF o
  <2>6. QED
    BY <2>2, <2>3, <2>4, <2>5, IdleIsReport DEF AnswerKnown
<1>2. AnswerKnown(mouse, fn) => AnswerIsStill
  BY DEF AnswerKnown, Coheres, AnswerIsStill
<1>3. QED
  BY <1>1, <1>2, NextAnswers, TypeCorrect, PTL DEF Spec

-----------------------------------------------------------------------------
(***************************************************************************)
(* Motion.                                                                 *)
(***************************************************************************)
LEMMA WithinFacts ==
  ASSUME NEW v \in Int
  PROVE  /\ Within(0, v) /\ Within(v, v)
         /\ \A x, y \in Int : Within(x, y) /\ Within(y, v) => Within(x, v)
  BY DEF Within

\* What a step that sends nothing may do to the counters.
LEMMA NothingTaken ==
  ASSUME TypeOK, fn'.inflight \in {None, fn.inflight},
         motion' \in {motion, Still, Counters}
  PROVE  SentOnce
<1> SUFFICES ASSUME NEW a \in Axes
             PROVE  Within(Taken(a), motion[a]) /\ Within(motion'[a] + Taken(a), motion[a])
  BY DEF SentOnce
<1>1. motion[a] \in -Limit..Limit /\ Counters[a] \in -Limit..Limit
  BY CounterFacts DEF TypeOK
<1>2. motion[a] \in Int /\ Counters[a] \in Int
  BY <1>1
<1>3. Taken(a) = 0
  BY DEF Taken
<1>4. motion'[a] \in {motion[a], 0, Counters[a]}
  BY DEF Still
<1>5. motion'[a] + 0 \in {motion[a], 0, Counters[a]}
  BY <1>2, <1>4
<1>6. Within(Counters[a], motion[a])
  BY CounterFacts
<1>7. QED
  BY <1>2, <1>3, <1>5, <1>6, WithinFacts

(***************************************************************************)
(* What is sent is taken off the counters, in every mode: no step but new  *)
(* input can make the motion in flight and the motion left more than there *)
(* was, or turn it round.                                                  *)
(***************************************************************************)
THEOREM MotionSentOnce == Spec => MotionNotRepeated
<1>1. ASSUME IInv, Next, ~Input PROVE SentOnce
  <2>1. /\ mouse \in Device(Report) /\ fn \in Function(Report) /\ TypeOK
        /\ motion \in [Axes -> -Limit..Limit] /\ Limit \in Nat
    BY <1>1, LimitsAssumption DEF IInv, TypeOK
  <2>2. CASE ClearSources
    <3>1. fn' = fn /\ Emit(AllButtons(buttons', macroButtons), Still, pos, Tail(calls))
      BY <2>2 DEF ClearSources
    <3>2. motion' = ClampAll([a \in Axes |-> motion[a] + Still[a]], Limit)
      BY <3>1 DEF Emit
    <3>3. ASSUME NEW a \in Axes
          PROVE  Within(Taken(a), motion[a]) /\ Within(motion'[a] + Taken(a), motion[a])
      <4>1. motion[a] \in -Limit..Limit
        BY <2>1
      <4>2. motion[a] \in Int /\ motion[a] + 0 = motion[a]
        BY <4>1
      <4>3. motion'[a] = Clamp(motion[a] + 0, -Limit, Limit)
        BY <3>2 DEF ClampAll, Still
      <4>4. motion'[a] \in -Limit..Limit /\ Within(motion'[a], motion[a])
        BY <2>1, <4>2, <4>3, ClampFacts
      <4>5. motion'[a] + 0 = motion'[a]
        BY <4>4
      <4>6. Taken(a) = 0
        BY <3>1 DEF Taken
      <4>7. QED
        BY <4>2, <4>4, <4>5, <4>6, WithinFacts
    <3>4. QED
      BY <3>3 DEF SentOnce
  <2>3. CASE PumpDelivers
    <3>1. mode = "running" /\ Outcome = "sent"
      BY <1>1, <2>1, <2>3, AttemptFacts
         DEF IInv, OnlyRunningCalls, PumpDelivers, Trying, Pumping, Accepted
    <3>2. Written(Outcome).fun.inflight = NextReport /\ fn.inflight = None
      BY <1>1, <3>1, AttemptFacts
    <3>3. /\ fn'.inflight = NextReport /\ fn.inflight = None
          /\ motion' = Spent(Counters, Slice)
      BY <2>3, <3>2 DEF PumpDelivers
    <3>4. NextReport \in Report /\ NextReport.motion = Slice
      BY <2>1, NextFacts
    <3>5. NextReport # None
      BY <3>4, NoneIsNoReport
    <3>6. ASSUME NEW a \in Axes
          PROVE  Within(Taken(a), motion[a]) /\ Within(motion'[a] + Taken(a), motion[a])
      <4>1. Taken(a) = Slice[a]
        BY <3>3, <3>4, <3>5 DEF Taken
      <4>2. /\ Counters[a] \in -Limit..Limit /\ Slice[a] \in -Chunk..Chunk
            /\ motion[a] \in -Limit..Limit
        BY <2>1, CounterFacts
      <4>3. Counters[a] \in Int /\ motion[a] \in Int
        BY <4>2
      <4>4. Slice[a] \in Int
        BY <4>2, LimitsAssumption
      <4>5. motion'[a] = Counters[a] - Slice[a]
        BY <3>3 DEF Spent
      <4>6. motion'[a] + Taken(a) = Counters[a]
        BY <4>1, <4>3, <4>4, <4>5
      <4>7. Within(Counters[a], motion[a]) /\ Within(Slice[a], Counters[a])
        BY <2>1, CounterFacts
      <4>8. QED
        BY <4>1, <4>3, <4>4, <4>6, <4>7, WithinFacts
    <3>7. QED
      BY <3>6 DEF SentOnce
  <2>4. CASE PumpDefers
    <3>1. mode = "running" /\ Outcome # "sent"
      BY <1>1, <2>4 DEF IInv, OnlyRunningCalls, PumpDefers, Trying, Pumping, Accepted
    <3>2. Written(Outcome).fun.inflight = fn.inflight
      BY <1>1, <3>1, AttemptFacts
    <3>3. fn'.inflight = fn.inflight /\ motion' \in {Still, Counters}
      BY <2>4, <3>2 DEF PumpDefers, OnWriteDeferred, DropMotion, KeepMotion
    <3>4. QED
      BY <2>1, <3>3, NothingTaken
  <2>5. CASE PumpFaults
    <3>1. Writes(Report, mouse, fn, NextReport, "busy", Written("busy"))
      BY <2>1, IdleIsReport, NextFacts, WriteFacts DEF Written
    <3>2. Written("busy").fun.inflight = fn.inflight
      BY <3>1 DEF Writes
    <3>3. fn'.inflight = fn.inflight /\ motion' \in {Still, Counters}
      BY <2>5, <3>2 DEF PumpFaults, Shutdown, DropMotion
    <3>4. QED
      BY <2>1, <3>3, NothingTaken
  <2>6. CASE ReleaseWrite \/ ReleaseFaults
    <3>1. ReleaseOutcome \in Outcomes /\ "busy" \in Outcomes
      BY DEF ReleaseOutcome, WriteOutcome, Outcomes
    <3>2. ReleaseReport \in Report /\ ReleaseReport.motion = Still
      BY <2>1, ReleaseFacts DEF TypeOK, ReleaseReport, MouseReport
    <3>3. PICK out \in Outcomes : fn' = Released(out).fun
      BY <2>6, <3>1 DEF ReleaseWrite, ReleaseFaults
    <3> DEFINE w == Released(out)
    <3>4. w.fun.inflight \in {fn.inflight, ReleaseReport}
      <4>1. Writes(Report, mouse, fn, ReleaseReport, out, w)
        BY <2>1, <3>2, IdleIsReport, WriteFacts DEF Outcomes, Released
      <4>2. QED
        BY <4>1 DEF Writes
    <3>5. fn' = w.fun /\ motion' = motion
      BY <2>6, <3>3 DEF ReleaseWrite, ReleaseFaults, pendingVars
    <3> HIDE DEF w
    <3>6. \A a \in Axes : Taken(a) = 0
      BY <3>2, <3>4, <3>5 DEF Taken, Still
    <3>7. ASSUME NEW a \in Axes
          PROVE  Within(Taken(a), motion[a]) /\ Within(motion'[a] + Taken(a), motion[a])
      <4>1. motion[a] \in -Limit..Limit
        BY <2>1
      <4>2. motion[a] \in Int /\ motion[a] + 0 = motion[a]
        BY <4>1
      <4>3. QED
        BY <3>5, <3>6, <4>2, WithinFacts
    <3>8. QED
      BY <3>7 DEF SentOnce
  <2>7. CASE PumpIsSilent \/ PumpIsDone
    <3>1. fn' = fn /\ motion' \in {motion, Counters}
      BY <2>7 DEF PumpIsSilent, PumpIsDone
    <3>2. QED
      BY <2>1, <3>1, NothingTaken
  <2>8. CASE OnWritable \/ ServiceBackoff \/ BackoffExpires \/ Stall \/ Keyboard
               \/ PumpReturns \/ Stop \/ ReleaseSkipped
    <3>1. fn' = fn /\ motion' \in {motion, Still}
      BY <2>8
         DEF OnWritable, ServiceBackoff, BackoffExpires, Stall, Keyboard, KeyboardReads,
             KeyboardSent, KeyboardRefused, PumpReturns, Stop, Shutdown, ReleaseSkipped,
             DropMotion, bridgeVars, pendingVars
    <3>2. QED
      BY <2>1, <3>1, NothingTaken
  <2>9. CASE PollHostState
    <3>1. Revalidates(Report, mouse, fn, Revalidate(mouse, fn, MouseIdleReport))
      BY <2>1, IdleIsReport, RevalidateFacts
    <3>2. fn'.inflight = fn.inflight /\ motion' = motion
      BY <2>9, <3>1 DEF PollHostState, Revalidates
    <3>3. QED
      BY <2>1, <3>2, NothingTaken
  <2>10. CASE Environment
    <3>1. motion' = motion
      BY <2>10
         DEF Environment, Collect, Deconfigure, Configure, Suspend, Resume, GadgetDown,
             GadgetUp, GadgetPrimes, bridgeVars, pendingVars
    <3>2. fn'.inflight \in {None, fn.inflight}
      <4>1. CASE Collect \/ Deconfigure \/ Configure \/ Suspend \/ Resume
        BY <2>1, <4>1
           DEF Collect, Deconfigure, Configure, Suspend, Resume,
               FunctionDisabled, FunctionEnabled, Function
      <4>2. CASE GadgetDown \/ GadgetUp
        BY <4>2, RemovedFacts, BuiltFacts DEF GadgetDown, GadgetUp
      <4>3. CASE GadgetPrimes
        BY <2>1, <4>3 DEF GadgetPrimes, FunctionPrimed, Function
      <4>4. QED
        BY <2>10, <4>1, <4>2, <4>3 DEF Environment
    <3>3. QED
      BY <2>1, <3>1, <3>2, NothingTaken
  <2>11. QED
    BY <1>1, <2>2, <2>3, <2>4, <2>5, <2>6, <2>7, <2>8, <2>9, <2>10
       DEF Next, Handler, Pump, Ending
<1>2. IInv /\ [Next]_vars => [SentOnce \/ Input]_vars
  BY <1>1
<1>3. QED
  BY <1>2, Invariance, PTL DEF Spec, MotionNotRepeated

-----------------------------------------------------------------------------
(***************************************************************************)
(* The refinement of StateChannel: the states that are on their way.       *)
(***************************************************************************)
LEMMA ShownFacts ==
  ASSUME NEW pressed \in Pressed
  PROVE  /\ Shown(pressed) \in Pressed
         /\ (\A b \in Buttons \cup MacroButtons : ~(b >= ButtonCount))
              => Shown(pressed) = pressed
<1>1. pressed \subseteq Nat /\ ButtonCount \in Nat
  BY ButtonsAssumption DEF Pressed
<1>2. Shown(pressed) \in Pressed
  BY DEF Pressed, Shown
<1>3. ASSUME \A b \in Buttons \cup MacroButtons : ~(b >= ButtonCount)
      PROVE  Shown(pressed) = pressed
  <2>1. \A b \in pressed : b < ButtonCount
    BY <1>1, <1>3 DEF Pressed
  <2>2. QED
    BY <2>1 DEF Shown
<1>4. QED
  BY <1>2, <1>3

LEMMA ShownAllFacts ==
  ASSUME NEW q \in Seq(Pressed), NEW s, s = ShownAll(q)
  PROVE  /\ s \in Seq(Pressed) /\ Len(s) = Len(q)
         /\ \A i \in 1..Len(q) : s[i] = Shown(q[i])
<1>1. Len(q) \in Nat /\ \A i \in 1..Len(q) : Shown(q[i]) \in Pressed
  BY ShownFacts
<1>2. s = [i \in 1..Len(q) |-> Shown(q[i])]
  BY DEF ShownAll
<1>3. QED
  BY <1>1, <1>2

LEMMA ShownAllNone == ShownAll(<<>>) = <<>>
<1>1. <<>> \in Seq(Pressed) /\ Len(<<>>) = 0
  OBVIOUS
<1>2. ASSUME NEW s, s = ShownAll(<<>>) PROVE s = <<>>
  <2>1. s \in Seq(Pressed) /\ Len(s) = Len(<<>>)
    BY <1>1, <1>2, ShownAllFacts
  <2>2. QED
    BY <1>1, <2>1, EmptySeq
<1>3. QED
  BY <1>2

LEMMA ShownAllAppend ==
  ASSUME NEW q \in Seq(Pressed), NEW pressed \in Pressed
  PROVE  ShownAll(Append(q, pressed)) = Append(ShownAll(q), Shown(pressed))
<1>1. Append(q, pressed) \in Seq(Pressed) /\ Len(Append(q, pressed)) = Len(q) + 1
      /\ Append(q, pressed)[Len(q) + 1] = pressed
      /\ \A i \in 1..Len(q) : Append(q, pressed)[i] = q[i]
      /\ Len(q) \in Nat
  BY AppendProperties
<1>2. ASSUME NEW r, r = Append(q, pressed), NEW s, s = ShownAll(r),
             NEW t, t = ShownAll(q), NEW u, u = Append(t, Shown(pressed))
      PROVE  s = u
  <2>1. /\ r \in Seq(Pressed) /\ Len(r) = Len(q) + 1 /\ r[Len(q) + 1] = pressed
        /\ \A i \in 1..Len(q) : r[i] = q[i]
    BY <1>1, <1>2
  <2>2. /\ s \in Seq(Pressed) /\ Len(s) = Len(r)
        /\ \A i \in 1..Len(r) : s[i] = Shown(r[i])
    BY <1>2, <2>1, ShownAllFacts
  <2>3. /\ t \in Seq(Pressed) /\ Len(t) = Len(q)
        /\ \A i \in 1..Len(q) : t[i] = Shown(q[i])
    BY <1>2, ShownAllFacts
  <2>4. /\ u \in Seq(Pressed) /\ Len(u) = Len(t) + 1 /\ u[Len(t) + 1] = Shown(pressed)
        /\ \A i \in 1..Len(t) : u[i] = t[i]
    <3>1. t \in Seq(Pressed) /\ Shown(pressed) \in Pressed /\ u = Append(t, Shown(pressed))
      BY <1>2, <2>3, ShownFacts
    <3>2. QED
      BY <3>1, AppendProperties
  <2>5. ASSUME NEW i \in 1..Len(s) PROVE s[i] = u[i]
    <3>1. CASE i = Len(q) + 1
      BY <1>1, <2>1, <2>2, <2>3, <2>4, <3>1
    <3>2. CASE i # Len(q) + 1
      <4>1. i \in 1..Len(q) /\ i \in 1..Len(r) /\ i \in 1..Len(t)
        BY <1>1, <2>1, <2>2, <2>3, <3>2
      <4>2. s[i] = Shown(r[i]) /\ r[i] = q[i] /\ t[i] = Shown(q[i]) /\ u[i] = t[i]
        BY <2>1, <2>2, <2>3, <2>4, <4>1
      <4>3. QED
        BY <4>2
    <3>3. QED
      BY <3>1, <3>2
  <2>6. Len(s) = Len(u)
    BY <2>1, <2>2, <2>3, <2>4
  <2>7. QED
    BY <2>2, <2>4, <2>5, <2>6, SeqEqual
<1>3. QED
  BY <1>2

LEMMA ShownAllTail ==
  ASSUME NEW q \in Seq(Pressed), q # <<>>
  PROVE  /\ ShownAll(q) # <<>>
         /\ Head(ShownAll(q)) = Shown(Head(q))
         /\ Tail(ShownAll(q)) = ShownAll(Tail(q))
         /\ Last(ShownAll(q)) = Shown(Last(q))
<1>1. Len(q) \in Nat /\ Len(q) # 0 /\ 1 \in 1..Len(q) /\ Len(q) \in 1..Len(q)
  <2>1. Len(q) \in Nat /\ Len(q) # 0
    BY EmptySeq
  <2>2. QED
    BY <2>1
<1>2. ASSUME NEW s, s = ShownAll(q), NEW t, t = Tail(q), NEW u, u = ShownAll(t),
             NEW v, v = Tail(s)
      PROVE  /\ s # <<>> /\ Head(s) = Shown(Head(q))
             /\ v = u /\ Last(s) = Shown(Last(q))
  <2>1. /\ s \in Seq(Pressed) /\ Len(s) = Len(q)
        /\ \A i \in 1..Len(q) : s[i] = Shown(q[i])
    BY <1>2, ShownAllFacts
  <2>2. /\ t \in Seq(Pressed) /\ Len(t) = Len(q) - 1
        /\ \A i \in 1..(Len(q) - 1) : t[i] = q[i + 1]
    BY <1>1, <1>2, HeadTailProperties
  <2>3. /\ u \in Seq(Pressed) /\ Len(u) = Len(t)
        /\ \A i \in 1..Len(t) : u[i] = Shown(t[i])
    <3>1. t \in Seq(Pressed) /\ u = ShownAll(t)
      BY <1>2, <2>2
    <3>2. QED
      BY <3>1, ShownAllFacts
  <2>4. s # <<>>
    BY <1>1, <2>1
  <2>5. Head(s) = Shown(Head(q)) /\ Last(s) = Shown(Last(q))
    <3>1. Head(s) = s[1] /\ Head(q) = q[1]
      BY <1>1, <2>1, <2>4
    <3>2. Last(s) = s[Len(q)] /\ Last(q) = q[Len(q)]
      BY <2>1 DEF Last
    <3>3. s[1] = Shown(q[1]) /\ s[Len(q)] = Shown(q[Len(q)])
      BY <1>1, <2>1
    <3>4. QED
      BY <3>1, <3>2, <3>3
  <2>6. /\ v \in Seq(Pressed) /\ Len(v) = Len(s) - 1
        /\ \A i \in 1..(Len(s) - 1) : v[i] = s[i + 1]
    BY <1>2, <2>1, <2>4, HeadTailProperties
  <2>7. ASSUME NEW i \in 1..Len(v) PROVE v[i] = u[i]
    <3>1. i \in 1..(Len(q) - 1) /\ i \in 1..Len(t) /\ i + 1 \in 1..Len(q)
      BY <1>1, <2>1, <2>2, <2>6
    <3>2. v[i] = s[i + 1] /\ s[i + 1] = Shown(q[i + 1]) /\ t[i] = q[i + 1]
          /\ u[i] = Shown(t[i])
      BY <2>1, <2>2, <2>3, <2>6, <3>1
    <3>3. QED
      BY <3>2
  <2>8. Len(v) = Len(u)
    BY <2>1, <2>2, <2>3, <2>6
  <2>9. v = u
    BY <2>3, <2>6, <2>7, <2>8, SeqEqual
  <2>10. QED
    BY <2>4, <2>5, <2>9
<1>3. QED
  BY <1>2

\* What is in flight, if it is news about the buttons.
LEMMA AheadFacts ==
  ASSUME TypeOK
  PROVE  /\ Ahead \in Seq(Pressed) /\ host.buttons \in Pressed /\ HostNext \in Pressed
         /\ \/ /\ Ahead = <<>> /\ HostNext = host.buttons
            \/ /\ Ahead = <<HostNext>> /\ HostNext # host.buttons
               /\ fn.inflight # None
<1>1. host.buttons \in Pressed /\ HostNext \in Pressed
  BY HostNextFacts DEF TypeOK
<1>2. <<>> \in Seq(Pressed) /\ <<HostNext>> \in Seq(Pressed)
  BY <1>1
<1>3. QED
  BY <1>1, <1>2 DEF Ahead, HostNext

\* The two backlogs of a step.
LEMMA BacklogFacts ==
  ASSUME TypeOK
  PROVE  /\ Backlog = Ahead \o ShownAll(btnQueue)
         /\ Backlog' = Ahead' \o ShownAll(btnQueue')
         /\ ShownAll(btnQueue) \in Seq(Pressed) /\ Backlog \in Seq(Pressed)
         /\ Len(Backlog) = Len(Ahead) + Len(btnQueue)
         /\ btnQueue = <<>> => Backlog = Ahead
         /\ Ahead = <<>> => Backlog = ShownAll(btnQueue)
         /\ btnQueue' = <<>> => Backlog' = Ahead'
<1>1. Backlog = Ahead \o ShownAll(btnQueue) /\ Backlog' = Ahead' \o ShownAll(btnQueue')
  BY DEF Backlog, ShownAll, Shown
<1>2. /\ Ahead \in Seq(Pressed) /\ btnQueue \in Seq(Pressed)
  BY AheadFacts DEF TypeOK
<1>3. ShownAll(btnQueue) \in Seq(Pressed) /\ Len(ShownAll(btnQueue)) = Len(btnQueue)
  BY <1>2, ShownAllFacts
<1>4. ASSUME NEW f \in Seq(Pressed), NEW t \in Seq(Pressed), NEW b, b = f \o t
      PROVE  /\ b \in Seq(Pressed) /\ Len(b) = Len(f) + Len(t)
             /\ f = <<>> => b = t
  <2>1. b \in Seq(Pressed) /\ Len(b) = Len(f) + Len(t)
    BY <1>4, ConcatFacts
  <2>2. f = <<>> => b = t
    BY <1>4, ConcatEmptySeq
  <2>3. QED
    BY <2>1, <2>2
<1>5. Backlog \in Seq(Pressed) /\ Len(Backlog) = Len(Ahead) + Len(btnQueue)
  BY <1>1, <1>2, <1>3, <1>4
<1>6. Ahead = <<>> => Backlog = ShownAll(btnQueue)
  BY <1>1, <1>2, <1>3, <1>4
<1>7. btnQueue = <<>> => Backlog = Ahead
  <2>1. btnQueue = <<>> => Backlog = Ahead \o <<>>
    BY <1>1, ShownAllNone
  <2>2. Ahead \o <<>> = Ahead
    BY <1>2, ConcatEmptySeq
  <2>3. QED
    BY <2>1, <2>2
<1>8. btnQueue' = <<>> => Backlog' = Ahead'
  <2>1. btnQueue' = <<>> => Backlog' = Ahead' \o <<>>
    BY <1>1, ShownAllNone
  <2>2. Ahead' \in {<<>>, <<fn'.inflight.buttons>>}
    BY DEF Ahead
  <2>3. Ahead' \o <<>> = Ahead'
    BY <2>2
  <2>4. QED
    BY <2>1, <2>3
<1>9. QED
  BY <1>1, <1>3, <1>5, <1>6, <1>7, <1>8

\* The channel reads its sequences with the same operators.
LEMMA SameLast == ASSUME NEW q PROVE Channel!Last(q) = Last(q)
  BY DEF Channel!Last, Last

LEMMA SameRemoveAt ==
  ASSUME NEW q, NEW i PROVE Channel!RemoveAt(q, i) = RemoveAt(q, i)
  BY DEF Channel!RemoveAt, RemoveAt

\* The course the host is on: what it has, and the backlog.
LEMMA CourseFacts ==
  ASSUME TypeOK
  PROVE  /\ Channel!Course[1] = host.buttons
         /\ \A i \in 1..Len(Backlog) : Channel!Course[i + 1] = Backlog[i]
         /\ btnQueue = <<>> => Last(Channel!Course) = HostNext
         /\ btnQueue # <<>> => Last(Channel!Course) = Shown(Last(btnQueue))
<1> DEFINE h == host.buttons
           c == Channel!Course
<1>1. /\ h \in Pressed /\ Backlog \in Seq(Pressed) /\ c = <<h>> \o Backlog
      /\ Ahead \in Seq(Pressed) /\ btnQueue \in Seq(Pressed)
  BY AheadFacts, BacklogFacts DEF Channel!Course, TypeOK
<1> HIDE DEF h, c
<1>2. /\ c \in Seq(Pressed) /\ Len(c) = Len(Backlog) + 1
      /\ c[1] = h /\ \A i \in 1..Len(Backlog) : c[i + 1] = Backlog[i]
  BY <1>1, OneConcat
<1>3. /\ Backlog = <<>> => Last(c) = h
      /\ Backlog # <<>> => Last(c) = Last(Backlog)
  BY <1>1, <1>2, OneAhead
<1>4. ASSUME btnQueue = <<>> PROVE Last(c) = HostNext
  <2>1. Backlog = Ahead
    BY <1>4, BacklogFacts
  <2>2. CASE Ahead = <<>>
    BY <1>3, <2>1, <2>2, AheadFacts DEF h
  <2>3. CASE Ahead # <<>>
    <3>1. Ahead = <<HostNext>>
      BY <2>3, AheadFacts
    <3>2. Last(Ahead) = HostNext
      BY <3>1 DEF Last
    <3>3. QED
      BY <1>3, <2>1, <2>3, <3>2
  <2>4. QED
    BY <2>2, <2>3
<1>5. ASSUME btnQueue # <<>> PROVE Last(c) = Shown(Last(btnQueue))
  <2>1. ShownAll(btnQueue) # <<>> /\ Last(ShownAll(btnQueue)) = Shown(Last(btnQueue))
    BY <1>1, <1>5, ShownAllTail
  <2>2. Backlog # <<>> /\ Last(Backlog) = Last(ShownAll(btnQueue))
    <3>1. CASE Ahead = <<>>
      BY <2>1, <3>1, BacklogFacts
    <3>2. CASE Ahead # <<>>
      <4>1. /\ Backlog = <<HostNext>> \o ShownAll(btnQueue)
            /\ HostNext \in Pressed /\ ShownAll(btnQueue) \in Seq(Pressed)
        BY <3>2, AheadFacts, BacklogFacts
      <4>2. ASSUME NEW t \in Seq(Pressed), t # <<>>, NEW b, b = <<HostNext>> \o t
            PROVE  b # <<>> /\ Last(b) = Last(t)
        <5>1. /\ b \in Seq(Pressed) /\ Len(b) = Len(t) + 1
              /\ \A i \in 1..Len(t) : b[i + 1] = t[i]
          BY <4>1, <4>2, OneConcat
        <5>2. QED
          BY <4>2, <5>1, OneAhead
      <4>3. QED
        BY <2>1, <4>1, <4>2
    <3>3. QED
      BY <3>1, <3>2
  <2>3. QED
    BY <1>3, <2>1, <2>2
<1>6. QED
  BY <1>2, <1>4, <1>5 DEF h, c

\* A step that changes nothing the channel knows.
LEMMA Stutters ==
  ASSUME fn'.inflight = fn.inflight, UNCHANGED <<btnQueue, host, bus, mode>>
  PROVE  UNCHANGED Channel!vars
  BY DEF Backlog, Ahead, ShownAll, Shown, Power, Channel!vars

-----------------------------------------------------------------------------
(***************************************************************************)
(* The steps of the channel: the bridge's.                                 *)
(***************************************************************************)
\* A state that is queued tells a host that is known something new; a full queue
\* gives up its oldest state for it.
LEMMA NoteRefines ==
  ASSUME TypeOK, NEW now \in Pressed, btnQueue' = NoteButtons(now),
         UNCHANGED <<fn, host, bus, mode>>, mode = "running"
  PROVE  [Channel!Next]_(Channel!vars)
<1>1. /\ btnQueue \in Seq(Pressed) /\ Len(btnQueue) \in Nat /\ Len(btnQueue) <= QueueMax
      /\ QueueMax \in Nat \ {0} /\ lastButtons \in Pressed \cup {None}
      /\ Ahead \in Seq(Pressed) /\ Len(Ahead) \in {0, 1} /\ Ahead' = Ahead
      /\ Shown(now) \in Pressed
  <2>1. Ahead = <<>> \/ Ahead = <<HostNext>>
    BY AheadFacts
  <2>2. Len(Ahead) \in {0, 1}
    BY <2>1
  <2>3. Ahead' = Ahead
    BY DEF Ahead
  <2>4. /\ btnQueue \in Seq(Pressed) /\ Len(btnQueue) <= QueueMax
        /\ lastButtons \in Pressed \cup {None}
    BY DEF TypeOK
  <2>5. Ahead \in Seq(Pressed) /\ Shown(now) \in Pressed /\ QueueMax \in Nat \ {0}
    BY AheadFacts, ShownFacts, LimitsAssumption
  <2>6. QED
    BY <2>2, <2>3, <2>4, <2>5
<1>2. /\ Backlog = Ahead \o ShownAll(btnQueue)
      /\ Backlog' = Ahead \o ShownAll(btnQueue')
      /\ Backlog \in Seq(Pressed) /\ ShownAll(btnQueue) \in Seq(Pressed)
      /\ Len(Backlog) = Len(Ahead) + Len(btnQueue)
  BY <1>1, BacklogFacts
<1>3. CASE now = ButtonTail
  <2>1. btnQueue' = btnQueue
    BY <1>3 DEF NoteButtons
  <2>2. QED
    BY <2>1, Stutters
<1>4. CASE now # ButtonTail
  <2>1. lastButtons # None /\ HostNext = Shown(lastButtons)
          /\ ~(\E b \in Buttons \cup MacroButtons : b >= ButtonCount)
          => Shown(now) # Last(Channel!Course)
    <3> SUFFICES ASSUME lastButtons # None, HostNext = Shown(lastButtons),
                        ~(\E b \in Buttons \cup MacroButtons : b >= ButtonCount)
                 PROVE  Shown(now) # Last(Channel!Course)
      OBVIOUS
    <3>1. \A pressed \in Pressed : Shown(pressed) = pressed
      BY ShownFacts
    <3>2. CASE btnQueue = <<>>
      <4>1. Last(Channel!Course) = Shown(lastButtons)
        BY <3>2, CourseFacts
      <4>2. Shown(lastButtons) = lastButtons /\ lastButtons # now
        BY <1>1, <1>4, <3>1, <3>2 DEF ButtonTail
      <4>3. QED
        BY <3>1, <4>1, <4>2
    <3>3. CASE btnQueue # <<>>
      <4>1. Last(Channel!Course) = Shown(Last(btnQueue)) /\ Last(btnQueue) \in Pressed
        BY <1>1, <3>3, CourseFacts, TailFacts DEF Last
      <4>2. Last(btnQueue) # now
        BY <1>4, <3>3 DEF ButtonTail
      <4>3. QED
        BY <3>1, <4>1, <4>2
    <3>4. QED
      BY <3>2, <3>3
  <2>2. Shown(now) \in { Shown(pressed) : pressed \in Pressed }
    OBVIOUS
  <2>3. UNCHANGED <<host.buttons, bus # "away", Power>> /\ Power = "on"
    BY DEF Power
  <2>4. CASE Len(btnQueue) < QueueMax
    <3>1. btnQueue' = Append(btnQueue, now)
      BY <1>4, <2>4 DEF NoteButtons
    <3>2. ShownAll(btnQueue') = Append(ShownAll(btnQueue), Shown(now))
      BY <1>1, <3>1, ShownAllAppend
    <3>3. Backlog' = Append(Backlog, Shown(now))
      <4>1. Ahead \o Append(ShownAll(btnQueue), Shown(now))
              = Append(Ahead \o ShownAll(btnQueue), Shown(now))
        BY <1>1, <1>2, ConcatAppend
      <4>2. QED
        BY <1>2, <3>2, <4>1
    <3>4. Len(Backlog) < QueueMax + 1
      <4>1. ASSUME NEW n \in {0, 1}, NEW k \in Nat, NEW m \in Nat, k < m, NEW l, l = n + k
            PROVE  l < m + 1
        BY <4>1
      <4>2. Len(Ahead) \in {0, 1} /\ Len(btnQueue) \in Nat /\ QueueMax \in Nat
        BY <1>1
      <4>3. QED
        BY <1>2, <2>4, <4>1, <4>2, Zenon
    <3>5. Channel!Offer(Shown(now))
      BY <2>1, <2>3, <3>3, <3>4, SameLast DEF Channel!Offer
    <3>6. QED
      BY <2>2, <3>5 DEF Channel!Next
  <2>5. CASE ~(Len(btnQueue) < QueueMax)
    <3>1. btnQueue # <<>> /\ Len(btnQueue) = QueueMax
      BY <1>1, <2>5
    <3>2. Tail(btnQueue) \in Seq(Pressed)
      BY <1>1, <3>1
    <3>3. btnQueue' = Append(Tail(btnQueue), now)
      BY <1>4, <2>5 DEF NoteButtons
    <3>4. /\ ShownAll(btnQueue) # <<>>
          /\ ShownAll(btnQueue') = Append(Tail(ShownAll(btnQueue)), Shown(now))
      <4>1. ShownAll(btnQueue') = Append(ShownAll(Tail(btnQueue)), Shown(now))
        BY <3>2, <3>3, ShownAllAppend
      <4>2. /\ ShownAll(btnQueue) # <<>>
            /\ Tail(ShownAll(btnQueue)) = ShownAll(Tail(btnQueue))
        BY <1>1, <3>1, ShownAllTail
      <4>3. QED
        BY <4>1, <4>2
    <3>5. Backlog' = Append(RemoveAt(Backlog, Len(Ahead) + 1), Shown(now))
      <4>1. ASSUME NEW t \in Seq(Pressed), t # <<>>
            PROVE  Ahead \o Append(Tail(t), Shown(now))
                     = Append(RemoveAt(Ahead \o t, Len(Ahead) + 1), Shown(now))
        <5>1. Tail(t) \in Seq(Pressed)
          BY <4>1
        <5>2. Ahead \o Append(Tail(t), Shown(now)) = Append(Ahead \o Tail(t), Shown(now))
          BY <1>1, <5>1, ConcatAppend
        <5>3. Ahead \o Tail(t) = RemoveAt(Ahead \o t, Len(Ahead) + 1)
          BY <1>1, <4>1, ConcatRemoval
        <5>4. QED
          BY <5>2, <5>3
      <4>2. QED
        BY <1>2, <3>4, <4>1, Zenon
    <3>6. \E i \in {1, 2} :
            /\ Len(Backlog) >= (QueueMax + 1) - 2 + i /\ i <= Len(Backlog)
            /\ Backlog' = Append(RemoveAt(Backlog, i), Shown(now))
      <4>1. /\ Len(Ahead) + 1 \in {1, 2}
            /\ Len(Backlog) >= (QueueMax + 1) - 2 + (Len(Ahead) + 1)
            /\ Len(Ahead) + 1 <= Len(Backlog)
        <5>1. /\ Len(Ahead) \in {0, 1} /\ QueueMax \in Nat \ {0}
              /\ Len(Backlog) = Len(Ahead) + QueueMax
          BY <1>1, <1>2, <3>1
        <5>2. ASSUME NEW n \in {0, 1}, NEW m \in Nat \ {0}, NEW l, l = n + m
              PROVE  n + 1 \in {1, 2} /\ l >= (m + 1) - 2 + (n + 1) /\ n + 1 <= l
          BY <5>2
        <5>3. QED
          BY <5>1, <5>2, Zenon
      <4>2. QED
        BY <3>5, <4>1, Zenon
    <3>7. Channel!Offer(Shown(now))
      BY <2>1, <2>3, <3>6, SameLast, SameRemoveAt DEF Channel!Offer
    <3>8. QED
      BY <2>2, <3>7 DEF Channel!Next
  <2>6. QED
    BY <2>4, <2>5
<1>5. QED
  BY <1>3, <1>4

LEMMA InputRefines ==
  ASSUME ChannelInv, Input \/ ClearSources
  PROVE  [Channel!Next]_(Channel!vars) /\ GoneIsAway' /\ EndedIsEmpty'
<1>1. /\ buttons \in [Sources -> SUBSET Buttons] /\ macroButtons \in SUBSET MacroButtons
      /\ TypeOK
  BY DEF ChannelInv, IInv, TypeOK
<1> DEFINE Emits == /\ btnQueue' = NoteButtons(AllButtons(buttons', macroButtons'))
                    /\ buttons' \in [Sources -> SUBSET Buttons]
                    /\ macroButtons' \in SUBSET MacroButtons
                    /\ UNCHANGED <<fn, bus, host, mode>>
<1>2. Emits /\ mode = "running"
  <2>1. ASSUME NEW s \in Sources, NEW held \in SUBSET Buttons, NEW moved, NEW place,
               Frame(s, held, moved, place)
        PROVE  Emits /\ mode = "running"
    BY <1>1, <2>1 DEF Frame, Emit, Idling
  <2>2. ASSUME NEW s \in Sources, RemoveSource(s)
        PROVE  Emits /\ mode = "running"
    BY <2>1, <2>2 DEF RemoveSource
  <2>3. ASSUME NEW held \in SUBSET MacroButtons, NEW moved, NEW place, NEW rest,
               MacroMouse(held, moved, place, rest)
        PROVE  Emits /\ mode = "running"
    BY <1>1, <2>3 DEF MacroMouse, Emit, Idling
  <2>4. CASE ReleaseAll
    BY <2>3, <2>4 DEF ReleaseAll
  <2>5. CASE ClearSources
    BY <1>1, <2>5 DEF ClearSources, Emit, ChannelInv, IInv, OnlyRunningCalls
  <2>6. QED
    BY <2>1, <2>2, <2>3, <2>4, <2>5 DEF Input
<1>3. [Channel!Next]_(Channel!vars)
  BY <1>1, <1>2, MergedIsPressed, NoteRefines
<1>4. QED
  BY <1>2, <1>3 DEF ChannelInv, GoneIsAway, EndedIsEmpty

\* usb_f_hid has nothing in flight when it takes a report, so what was waiting in
\* front of the queue has been collected.
LEMMA DeliversRefines ==
  ASSUME ChannelInv, PumpDelivers
  PROVE  [Channel!Next]_(Channel!vars)
<1> DEFINE s == ShownAll(btnQueue)
           b == Shown(NextButtons)
<1>1. /\ TypeOK /\ IInv /\ mode = "running" /\ btnQueue \in Seq(Pressed)
      /\ UNCHANGED <<host, bus, mode>>
  BY DEF ChannelInv, IInv, TypeOK, OnlyRunningCalls, PumpDelivers, Trying, Pumping
<1>2. /\ Outcome = "sent" /\ fn.inflight = None /\ fn'.inflight = NextReport
  <2>1. Outcome = "sent"
    BY <1>1, AttemptFacts DEF PumpDelivers, Accepted
  <2>2. QED
    BY <1>1, <2>1, AttemptFacts DEF PumpDelivers
<1>3. /\ NextReport \in Report /\ NextReport # None /\ NextReport.buttons = b
      /\ NextButtons \in Pressed /\ b \in Pressed
  BY <1>1, NextFacts, ShownFacts, NoneIsNoReport
<1>4. Ahead = <<>> /\ HostNext = host.buttons
  BY <1>2 DEF Ahead, HostNext
<1>5. /\ b = host.buttons => Ahead' = <<>>
      /\ b # host.buttons => Ahead' = <<b>>
  BY <1>1, <1>2, <1>3 DEF Ahead
<1>6. Backlog = s /\ s \in Seq(Pressed) /\ Backlog' = Ahead' \o ShownAll(btnQueue')
  BY <1>1, <1>4, BacklogFacts
<1>7. UNCHANGED <<host.buttons, bus # "away", Power>> /\ Power = "on"
  BY <1>1 DEF Power
<1> HIDE DEF b
<1>8. CASE btnQueue = <<>>
  <2>1. btnQueue' = <<>>
    BY <1>8 DEF PumpDelivers
  <2>2. Backlog = <<>> /\ Backlog' = Ahead'
    BY <1>1, <1>4, <1>8, <2>1, BacklogFacts
  <2>3. CASE b = host.buttons
    BY <1>5, <1>7, <2>2, <2>3 DEF Channel!vars
  <2>4. CASE b # host.buttons
    <3>1. Backlog' = Append(Backlog, b)
      BY <1>5, <2>2, <2>4
    <3>2. b # Last(Channel!Course)
      BY <1>1, <1>4, <1>8, <2>4, CourseFacts
    <3>3. Len(Backlog) < QueueMax + 1
      BY <2>2, LimitsAssumption
    <3>4. Channel!Offer(b)
      BY <1>7, <3>1, <3>2, <3>3, SameLast DEF Channel!Offer
    <3>5. b \in { Shown(pressed) : pressed \in Pressed }
      BY <1>3 DEF b
    <3>6. QED
      BY <3>4, <3>5 DEF Channel!Next
  <2>5. QED
    BY <2>3, <2>4
<1>9. CASE btnQueue # <<>>
  <2>1. btnQueue' = Tail(btnQueue) /\ b = Shown(Head(btnQueue))
    BY <1>9 DEF PumpDelivers, NextButtons, b
  <2>2. s # <<>> /\ Head(s) = b /\ Tail(s) = ShownAll(btnQueue') /\ Tail(s) \in Seq(Pressed)
    <3>1. s # <<>> /\ Head(s) = b /\ Tail(s) = ShownAll(btnQueue')
      BY <1>1, <1>9, <2>1, ShownAllTail
    <3>2. QED
      BY <1>6, <3>1
  <2> HIDE DEF s
  <2>3. Backlog' = Ahead' \o Tail(s)
    BY <1>6, <2>2
  <2>4. CASE b = host.buttons
    <3>1. Backlog' = Tail(s)
      <4>1. <<>> \o Tail(s) = Tail(s)
        BY <2>2, ConcatEmptySeq
      <4>2. QED
        BY <1>5, <2>3, <2>4, <4>1
    <3>2. Backlog' = RemoveAt(Backlog, 1)
      BY <1>6, <2>2, <3>1, FirstRemoved
    <3>3. 1 \in 1..Len(Backlog) /\ Backlog[1] = b
      <4>1. Len(s) \in Nat /\ Len(s) # 0 /\ s[1] = Head(s)
        BY <1>6, <2>2, EmptySeq
      <4>2. QED
        BY <1>6, <2>2, <4>1
    <3>4. Channel!Course[1] = host.buttons
      BY <1>1, CourseFacts
    <3>5. Channel!LeaveOut
      BY <1>7, <2>4, <3>2, <3>3, <3>4, SameRemoveAt DEF Channel!LeaveOut
    <3>6. QED
      BY <3>5 DEF Channel!Next
  <2>5. CASE b # host.buttons
    <3>1. Backlog' = <<Head(s)>> \o Tail(s)
      BY <1>5, <2>2, <2>3, <2>5
    <3>2. Backlog' = Backlog
      BY <1>6, <2>2, <3>1, HeadBack
    <3>3. QED
      BY <1>7, <3>2 DEF Channel!vars
  <2>6. QED
    BY <2>4, <2>5
<1>10. QED
  BY <1>8, <1>9

\* The queue is cleared, and what the kernel has is still handed over.
LEMMA ClearedRefines ==
  ASSUME ChannelInv, btnQueue' = <<>>, fn'.inflight = fn.inflight, UNCHANGED <<host, bus>>,
         mode = "running", mode' \in {"releasing", "down"}
  PROVE  [Channel!Next]_(Channel!vars)
<1>1. TypeOK
  BY DEF ChannelInv, IInv
<1>2. /\ Backlog = Ahead \o ShownAll(btnQueue) /\ Backlog' = Ahead
      /\ Ahead \in Seq(Pressed) /\ ShownAll(btnQueue) \in Seq(Pressed)
      /\ Len(Backlog) = Len(Ahead) + Len(btnQueue)
  <2>1. Ahead' = Ahead
    BY DEF Ahead
  <2>2. QED
    BY <1>1, <2>1, AheadFacts, BacklogFacts
<1>3. SubSeq(Backlog, 1, Len(Ahead)) = Ahead
  BY <1>2, ConcatPrefix
<1>4. Len(Ahead) \in {0, 1} /\ Len(Ahead) <= Len(Backlog)
  <2>1. Ahead = <<>> \/ Ahead = <<HostNext>>
    BY <1>1, AheadFacts
  <2>2. Len(Ahead) \in {0, 1}
    BY <2>1
  <2>3. Len(btnQueue) \in Nat
    BY <1>1 DEF TypeOK
  <2>4. QED
    BY <1>2, <2>2, <2>3
<1>5. \E n \in {0, 1} : n <= Len(Backlog) /\ Backlog' = SubSeq(Backlog, 1, n)
  BY <1>2, <1>3, <1>4, Zenon
<1>6. UNCHANGED <<host.buttons, bus # "away">>
  OBVIOUS
<1>7. Channel!SwitchOff
  BY <1>5, <1>6 DEF Channel!SwitchOff, Power
<1>8. QED
  BY <1>7 DEF Channel!Next

\* shutdown() ends, and tells the channel nothing more.
LEMMA GivingUpRefines ==
  ASSUME UNCHANGED <<Backlog, host, bus>>, mode = "releasing", mode' \in {"down", "gaveup"}
  PROVE  [Channel!Next]_(Channel!vars)
<1>1. Power = "releasing" /\ Power' = "off"
  BY DEF Power
<1>2. Channel!GiveUp
  BY <1>1 DEF Channel!GiveUp
<1>3. QED
  BY <1>2 DEF Channel!Next

\* A write never makes the node go away.
LEMMA WrittenNode ==
  ASSUME TypeOK, NEW report \in Report, NEW answer \in Report, NEW out \in Outcomes,
         NEW w, w = WriteReport(mouse, fn, report, answer, MouseIdleReport, out)
  PROVE  w.fun.node \in {"same", fn.node}
<1>1. Writes(Report, mouse, fn, report, out, w)
  BY IdleIsReport, WriteFacts DEF TypeOK, Outcomes
<1>2. mouse.fd = "closed" \/ mouse.fd # "closed"
  OBVIOUS
<1>3. QED
  BY <1>1, <1>2 DEF Writes

LEMMA PumpRefines ==
  ASSUME ChannelInv, PumpDelivers \/ PumpDefers \/ PumpIsSilent \/ PumpIsDone
  PROVE  [Channel!Next]_(Channel!vars) /\ GoneIsAway' /\ EndedIsEmpty'
<1>1. /\ TypeOK /\ IInv /\ mode = "running" /\ mode' = mode /\ UNCHANGED <<host, bus>>
  BY DEF ChannelInv, IInv, OnlyRunningCalls, PumpDelivers, PumpDefers, PumpIsSilent,
         PumpIsDone, Trying, Pumping
<1>2. EndedIsEmpty'
  BY <1>1 DEF EndedIsEmpty
<1>3. CASE PumpIsSilent \/ PumpIsDone
  <2>1. UNCHANGED <<fn, btnQueue, host, bus>>
    BY <1>3 DEF PumpIsSilent, PumpIsDone
  <2>2. QED
    BY <1>1, <1>2, <2>1, Stutters DEF ChannelInv, GoneIsAway
<1>4. CASE PumpDelivers \/ PumpDefers
  <2> DEFINE w == Written(Outcome)
  <2>1. fn' = w.fun
    BY <1>4 DEF PumpDelivers, PumpDefers
  <2>2. Outcome \in Outcomes /\ (Outcome # "sent" => w.fun.inflight = fn.inflight)
    BY <1>1, AttemptFacts
  <2>3. w.fun.node \in {"same", fn.node}
    BY <1>1, <2>2, NextFacts, WrittenNode DEF Written
  <2> HIDE DEF w
  <2>4. GoneIsAway'
    BY <1>1, <2>1, <2>3 DEF ChannelInv, GoneIsAway
  <2>5. CASE PumpDelivers
    BY <1>2, <2>4, <2>5, DeliversRefines
  <2>6. CASE PumpDefers
    <3>1. btnQueue' = btnQueue /\ Outcome # "sent"
      BY <2>6 DEF PumpDefers, Accepted
    <3>2. QED
      BY <1>1, <1>2, <2>1, <2>2, <2>4, <3>1, Stutters
  <2>7. QED
    BY <1>4, <2>5, <2>6
<1>5. QED
  BY <1>3, <1>4

LEMMA QuietRefines ==
  ASSUME ChannelInv,
         OnWritable \/ ServiceBackoff \/ BackoffExpires \/ Stall \/ PumpReturns
           \/ Keyboard \/ UNCHANGED vars
  PROVE  [Channel!Next]_(Channel!vars) /\ GoneIsAway' /\ EndedIsEmpty'
<1>1. UNCHANGED <<fn, btnQueue, host, bus, mode>>
  BY DEF OnWritable, ServiceBackoff, BackoffExpires, Stall, PumpReturns, Keyboard,
         KeyboardReads, KeyboardSent, KeyboardRefused, vars, bridgeVars, pendingVars
<1>2. QED
  BY <1>1, Stutters DEF ChannelInv, GoneIsAway, EndedIsEmpty

LEMMA PollRefines ==
  ASSUME ChannelInv, PollHostState
  PROVE  [Channel!Next]_(Channel!vars) /\ GoneIsAway' /\ EndedIsEmpty'
<1> DEFINE v == Revalidate(mouse, fn, MouseIdleReport)
<1>1. fn' = v.fun /\ UNCHANGED <<btnQueue, bus, host, mode>>
  BY DEF PollHostState
<1>2. Revalidates(Report, mouse, fn, v)
  BY RevalidateFacts, IdleIsReport DEF ChannelInv, IInv, TypeOK
<1> HIDE DEF v
<1>3. v.fun.inflight = fn.inflight /\ (v.fun.node = "gone" => fn.node = "gone")
  BY <1>2 DEF Revalidates
<1>4. QED
  BY <1>1, <1>3, Stutters DEF ChannelInv, GoneIsAway, EndedIsEmpty

\* shutdown() says that nothing is held, once, and nothing after it.
LEMMA EndingRefines ==
  ASSUME ChannelInv, Ending
  PROVE  [Channel!Next]_(Channel!vars) /\ GoneIsAway' /\ EndedIsEmpty'
<1>1. /\ mouse \in Device(Report) /\ fn \in Function(Report) /\ TypeOK
      /\ MouseIdleReport \in Report /\ pos \in Positions
  BY IdleIsReport DEF ChannelInv, IInv, TypeOK
<1>2. CASE Stop
  BY <1>2, ClearedRefines
     DEF Stop, Shutdown, Idling, ChannelInv, GoneIsAway, EndedIsEmpty
<1>3. CASE PumpFaults
  <2> DEFINE w == Written("busy")
  <2>1. mode = "running"
    BY <1>3 DEF PumpFaults, Trying, Pumping, ChannelInv, IInv, OnlyRunningCalls
  <2>2. "busy" \in Outcomes
    BY DEF Outcomes
  <2>3. w.fun.inflight = fn.inflight
    <3>1. Writes(Report, mouse, fn, NextReport, "busy", w)
      BY <1>1, NextFacts, WriteFacts DEF Written
    <3>2. QED
      BY <3>1 DEF Writes
  <2>4. w.fun.node \in {"same", fn.node}
    BY <1>1, <2>2, NextFacts, WrittenNode DEF Written
  <2>5. /\ fn' = w.fun /\ UNCHANGED <<host, bus>>
        /\ \/ btnQueue' = <<>> /\ mode' \in {"releasing", "down"}
           \/ btnQueue' = btnQueue /\ mode' = mode
    BY <1>3 DEF PumpFaults, Shutdown
  <2> HIDE DEF w
  <2>6. [Channel!Next]_(Channel!vars)
    BY <2>1, <2>3, <2>5, Stutters, ClearedRefines
  <2>7. GoneIsAway' /\ EndedIsEmpty'
    BY <2>1, <2>4, <2>5 DEF ChannelInv, GoneIsAway, EndedIsEmpty
  <2>8. QED
    BY <2>6, <2>7
<1>4. CASE ReleaseWrite
  <2> DEFINE out == ReleaseOutcome
             w == Released(out)
  <2>1. out \in Outcomes /\ (out = "sent" => fn.inflight = None)
    BY DEF ReleaseOutcome, WriteOutcome, Outcomes
  <2>2. /\ ReleaseReport \in Report /\ ReleaseReport # None
        /\ ReleaseReport.buttons = {}
    <3>1. ReleaseReport \in Report
      BY <1>1, ReleaseFacts
    <3>2. ReleaseReport.buttons = {}
      BY DEF ReleaseReport, MouseReport
    <3>3. QED
      BY <3>1, <3>2, NoneIsNoReport
  <2>3. /\ out = "sent" => w.fun.inflight = ReleaseReport
        /\ out # "sent" => w.fun.inflight = fn.inflight
    <3>1. Writes(Report, mouse, fn, ReleaseReport, out, w)
      BY <1>1, <2>1, <2>2, WriteFacts DEF Outcomes, Released
    <3>2. QED
      BY <3>1 DEF Writes
  <2>4. w.fun.node \in {"same", fn.node}
    BY <1>1, <2>1, <2>2, WrittenNode DEF Released
  <2>5. fn' = w.fun /\ mode = "releasing" /\ UNCHANGED <<btnQueue, bus, host>>
    BY <1>4 DEF ReleaseWrite, pendingVars
  <2> HIDE DEF w, out
  <2>6. btnQueue = <<>> /\ btnQueue' = <<>>
    BY <2>5 DEF ChannelInv, EndedIsEmpty
  <2>7. GoneIsAway' /\ EndedIsEmpty'
    BY <2>4, <2>5, <2>6 DEF ChannelInv, GoneIsAway, EndedIsEmpty
  <2>8. CASE out = "sent"
    <3>1. Backlog = <<>>
      BY <1>1, <2>1, <2>6, <2>8, BacklogFacts DEF Ahead
    <3>2. Backlog' = <<>> \/ Backlog' = <<{}>>
      <4>1. Backlog' = Ahead'
        BY <1>1, <2>6, BacklogFacts
      <4>2. fn'.inflight.buttons = {}
        BY <2>2, <2>3, <2>5, <2>8
      <4>3. QED
        BY <4>1, <4>2 DEF Ahead
    <3>3. mode' = "down"
      BY <1>4, <2>8 DEF ReleaseWrite, out
    <3>4. CASE Backlog' = <<>>
      BY <2>5, <2>7, <3>1, <3>3, <3>4, GivingUpRefines
    <3>5. CASE Backlog' = <<{}>>
      <4>1. Channel!Release
        BY <2>5, <3>1, <3>3, <3>5 DEF Channel!Release, Power
      <4>2. QED
        BY <2>7, <4>1 DEF Channel!Next
    <3>6. QED
      BY <3>2, <3>4, <3>5
  <2>9. CASE out # "sent"
    <3>1. mode' \in {"releasing", "gaveup"}
      BY <1>4, <2>9 DEF ReleaseWrite, out
    <3>2. fn'.inflight = fn.inflight
      BY <2>3, <2>5, <2>9
    <3>3. UNCHANGED <<Backlog, host, bus>>
      BY <2>5, <2>6, <3>2 DEF Backlog, Ahead, ShownAll, Shown
    <3>4. QED
      BY <2>5, <2>6, <2>7, <3>1, <3>2, <3>3, Stutters, GivingUpRefines
  <2>10. QED
    BY <2>8, <2>9
<1>5. CASE ReleaseFaults
  <2> DEFINE w == Released("busy")
  <2>1. ReleaseReport \in Report /\ "busy" \in Outcomes
    BY <1>1, ReleaseFacts DEF Outcomes
  <2>2. w.fun.inflight = fn.inflight
    <3>1. Writes(Report, mouse, fn, ReleaseReport, "busy", w)
      BY <1>1, <2>1, WriteFacts DEF Released
    <3>2. QED
      BY <3>1 DEF Writes
  <2>3. w.fun.node \in {"same", fn.node}
    BY <1>1, <2>1, WrittenNode DEF Released
  <2>4. /\ fn' = w.fun /\ UNCHANGED <<btnQueue, bus, host>>
        /\ mode = "releasing" /\ mode' = "gaveup"
    BY <1>5 DEF ReleaseFaults, pendingVars
  <2> HIDE DEF w
  <2>5. UNCHANGED <<Backlog, host, bus>>
    BY <2>2, <2>4 DEF Backlog, Ahead, ShownAll, Shown
  <2>6. GoneIsAway' /\ EndedIsEmpty'
    BY <2>3, <2>4 DEF ChannelInv, GoneIsAway, EndedIsEmpty
  <2>7. QED
    BY <2>4, <2>5, <2>6, GivingUpRefines
<1>6. CASE ReleaseSkipped
  <2>1. /\ UNCHANGED <<fn, btnQueue, host, bus>>
        /\ mode = "releasing" /\ mode' = "gaveup"
    BY <1>6 DEF ReleaseSkipped, pendingVars
  <2>2. UNCHANGED <<Backlog, host, bus>>
    BY <2>1 DEF Backlog, Ahead, ShownAll, Shown
  <2>3. QED
    BY <2>1, <2>2, GivingUpRefines DEF ChannelInv, GoneIsAway, EndedIsEmpty
<1>7. QED
  BY <1>2, <1>3, <1>4, <1>5, <1>6 DEF Ending

-----------------------------------------------------------------------------
(***************************************************************************)
(* The steps of the channel: the host's.                                   *)
(***************************************************************************)
\* What is in flight about motion only is nothing to the channel.
LEMMA CollectRefines ==
  ASSUME ChannelInv, Collect
  PROVE  [Channel!Next]_(Channel!vars)
<1> DEFINE s == ShownAll(btnQueue)
<1>1. /\ TypeOK /\ fn \in Function(Report)
      /\ bus # "away" /\ bus' = bus /\ btnQueue' = btnQueue /\ fn.inflight # None
      /\ Power' = Power
  BY DEF ChannelInv, IInv, TypeOK, Collect, bridgeVars, pendingVars, Power
<1>2. fn'.inflight = None /\ host'.buttons = fn.inflight.buttons
  BY <1>1 DEF Collect, Function
<1>3. Ahead' = <<>>
  BY <1>2 DEF Ahead
<1>4. /\ Backlog = Ahead \o s /\ s \in Seq(Pressed)
      /\ Ahead = <<>> => Backlog = s
  BY <1>1, BacklogFacts
<1>5. Backlog' = s
  <2>1. Backlog' = Ahead' \o ShownAll(btnQueue')
    BY <1>1, BacklogFacts
  <2>2. Backlog' = <<>> \o s
    BY <1>1, <1>3, <2>1
  <2>3. QED
    BY <1>4, <2>2, ConcatEmptySeq
<1> HIDE DEF s
<1>6. CASE fn.inflight.buttons = host.buttons
  <2>1. Ahead = <<>>
    BY <1>6 DEF Ahead
  <2>2. UNCHANGED Channel!vars
    BY <1>1, <1>2, <1>4, <1>5, <1>6, <2>1 DEF Channel!vars
  <2>3. QED
    BY <2>2
<1>7. CASE fn.inflight.buttons # host.buttons
  <2> DEFINE x == fn.inflight.buttons
  <2>1. Ahead = <<x>>
    BY <1>1, <1>7 DEF Ahead
  <2>2. x \in Pressed
    BY <1>1 DEF Function, Report
  <2>3. Backlog # <<>> /\ Head(Backlog) = x /\ Tail(Backlog) = s
    <3>1. ASSUME NEW y \in Pressed, NEW t \in Seq(Pressed), NEW b, b = <<y>> \o t
          PROVE  b # <<>> /\ Head(b) = y /\ Tail(b) = t
      <4>1. /\ b \in Seq(Pressed) /\ Len(b) = Len(t) + 1
            /\ b[1] = y /\ \A i \in 1..Len(t) : b[i + 1] = t[i]
        BY <3>1, OneConcat
      <4>2. QED
        BY <4>1, OneAhead
    <3>2. Backlog = <<x>> \o s
      BY <1>4, <2>1
    <3>3. QED
      BY <1>4, <2>2, <3>1, <3>2
  <2>4. Channel!Deliver
    BY <1>1, <1>2, <1>5, <2>3 DEF Channel!Deliver
  <2>5. QED
    BY <2>4 DEF Channel!Next
<1>8. QED
  BY <1>6, <1>7

LEMMA HostRefines ==
  ASSUME ChannelInv, Environment
  PROVE  [Channel!Next]_(Channel!vars) /\ GoneIsAway' /\ EndedIsEmpty'
<1>1. TypeOK /\ fn \in Function(Report) /\ host \in [buttons : Pressed, pos : Positions]
  BY DEF ChannelInv, IInv, TypeOK
<1>2. btnQueue' = btnQueue /\ mode' = mode
  BY DEF Environment, Collect, Deconfigure, Configure, Suspend, Resume, GadgetDown,
         GadgetUp, GadgetPrimes, bridgeVars, pendingVars
<1>3. EndedIsEmpty' /\ Power' = Power
  BY <1>2 DEF ChannelInv, EndedIsEmpty, Power
<1>4. CASE Collect
  <2>1. GoneIsAway'
    BY <1>1, <1>4 DEF Collect, Function, ChannelInv, GoneIsAway
  <2>2. QED
    BY <1>3, <1>4, <2>1, CollectRefines
<1>5. CASE Deconfigure \/ GadgetDown
  <2>1. fn'.inflight = None /\ bus' = "away" /\ host'.buttons = {}
    <3>1. CASE Deconfigure
      BY <1>1, <3>1 DEF Deconfigure, FunctionDisabled, Function
    <3>2. CASE GadgetDown
      BY <1>1, <3>2, RemovedFacts DEF GadgetDown
    <3>3. QED
      BY <1>5, <3>1, <3>2
  <2>2. Backlog' = Backlog \/ (Backlog # <<>> /\ Backlog' = Tail(Backlog))
    <3> DEFINE s == ShownAll(btnQueue)
    <3>1. Backlog' = s /\ s \in Seq(Pressed)
      <4>1. /\ Backlog' = Ahead' \o ShownAll(btnQueue') /\ s \in Seq(Pressed)
        BY <1>1, BacklogFacts
      <4>2. Ahead' = <<>>
        BY <2>1 DEF Ahead
      <4>3. Backlog' = <<>> \o s
        BY <1>2, <4>1, <4>2
      <4>4. QED
        BY <4>1, <4>3, ConcatEmptySeq
    <3>2. CASE Ahead = <<>>
      BY <1>1, <3>1, <3>2, BacklogFacts
    <3>3. CASE Ahead # <<>>
      <4>1. Backlog = <<HostNext>> \o s /\ HostNext \in Pressed
        BY <1>1, <3>3, AheadFacts, BacklogFacts
      <4> HIDE DEF s
      <4>2. ASSUME NEW y \in Pressed, NEW t \in Seq(Pressed), NEW b, b = <<y>> \o t
            PROVE  b # <<>> /\ Tail(b) = t
        <5>1. /\ b \in Seq(Pressed) /\ Len(b) = Len(t) + 1
              /\ \A i \in 1..Len(t) : b[i + 1] = t[i]
          BY <4>2, OneConcat
        <5>2. QED
          BY <5>1, OneAhead
      <4>3. QED
        BY <3>1, <4>1, <4>2
    <3>4. QED
      BY <3>2, <3>3
  <2>3. Channel!Disconnect
    BY <1>3, <2>1, <2>2 DEF Channel!Disconnect
  <2>4. QED
    BY <1>3, <2>1, <2>3 DEF Channel!Next, GoneIsAway
<1>6. CASE Configure
  <2>1. /\ fn'.inflight = fn.inflight /\ fn'.node = fn.node /\ fn.node # "gone"
        /\ host' = host /\ bus = "away" /\ bus' = "configured"
    BY <1>1, <1>6 DEF Configure, FunctionEnabled, Function
  <2>2. Backlog' = Backlog
    BY <1>2, <2>1 DEF Backlog, Ahead, ShownAll, Shown
  <2>3. Channel!Connect
    BY <1>3, <2>1, <2>2 DEF Channel!Connect
  <2>4. QED
    BY <1>3, <2>1, <2>3 DEF Channel!Next, GoneIsAway
<1>7. CASE Suspend \/ Resume
  <2>1. UNCHANGED <<fn, host>> /\ bus # "away" /\ bus' # "away"
    BY <1>7 DEF Suspend, Resume
  <2>2. UNCHANGED Channel!vars
    BY <1>2, <1>3, <2>1 DEF Backlog, Ahead, ShownAll, Shown, Channel!vars
  <2>3. GoneIsAway'
    BY <2>1 DEF ChannelInv, GoneIsAway
  <2>4. QED
    BY <1>3, <2>2, <2>3
<1>8. CASE GadgetUp
  <2>1. /\ fn'.inflight = None /\ fn'.node \in Rebuild /\ fn.node = "gone"
        /\ UNCHANGED <<host, bus>>
    BY <1>8 DEF GadgetUp, bridgeVars, FunctionBuilt
  <2>2. bus = "away" /\ fn.inflight = None
    BY <2>1 DEF ChannelInv, GoneIsAway, IInv, AwayIsUntouched, Untouched
  <2>3. QED
    BY <1>2, <1>3, <2>1, <2>2, Stutters DEF GoneIsAway
<1>9. CASE GadgetPrimes
  <2>1. /\ fn'.inflight = fn.inflight /\ fn'.node = fn.node
        /\ UNCHANGED <<host, bus>>
    BY <1>1, <1>9 DEF GadgetPrimes, FunctionPrimed, Function
  <2>2. QED
    BY <1>2, <1>3, <2>1, Stutters DEF ChannelInv, GoneIsAway
<1>10. QED
  BY <1>4, <1>5, <1>6, <1>7, <1>8, <1>9 DEF Environment

-----------------------------------------------------------------------------
LEMMA ChannelStep ==
  ChannelInv /\ [Next]_vars => ChannelInv' /\ [Channel!Next]_(Channel!vars)
<1> SUFFICES ASSUME ChannelInv, [Next]_vars
             PROVE  ChannelInv' /\ [Channel!Next]_(Channel!vars)
  OBVIOUS
<1>1. IInv'
  BY Inductive DEF ChannelInv
<1>2. [Channel!Next]_(Channel!vars) /\ GoneIsAway' /\ EndedIsEmpty'
  <2>1. CASE Input \/ ClearSources
    BY <2>1, InputRefines
  <2>2. CASE PumpDelivers \/ PumpDefers \/ PumpIsSilent \/ PumpIsDone
    BY <2>2, PumpRefines
  <2>3. CASE OnWritable \/ ServiceBackoff \/ BackoffExpires \/ Stall \/ PumpReturns
               \/ Keyboard \/ UNCHANGED vars
    BY <2>3, QuietRefines
  <2>4. CASE PollHostState
    BY <2>4, PollRefines
  <2>5. CASE Ending
    BY <2>5, EndingRefines
  <2>6. CASE Environment
    BY <2>6, HostRefines
  <2>7. QED
    BY <2>1, <2>2, <2>3, <2>4, <2>5, <2>6 DEF Next, Handler, Pump
<1>3. QED
  BY <1>1, <1>2 DEF ChannelInv

LEMMA ChannelInit == Init => ChannelInv /\ Channel!Init
<1> SUFFICES ASSUME Init PROVE ChannelInv /\ Channel!Init
  OBVIOUS
<1> DEFINE f0 == FunctionPrimed(FunctionBuilt("same"), MouseIdleReport)
           o == Open(NewDevice, f0, MouseIdleReport)
<1>1. NewDevice \in Device(Report) /\ NewDevice.fd = "closed"
  BY DEF NewDevice, Device
<1>2. f0 \in Function(Report) /\ f0.inflight = None
  BY IdleIsReport DEF FunctionBuilt, FunctionPrimed, Function
<1> HIDE DEF f0
<1>3. o.fun.inflight = None /\ o.fun.node = "same"
  BY <1>1, <1>2, OpenFacts, IdleIsReport
<1>4. fn = o.fun
  BY DEF Init, f0
<1> HIDE DEF o
<1>5. fn.inflight = None /\ btnQueue = <<>> /\ fn.node = "same"
      /\ host.buttons = {} /\ mode = "running"
  BY <1>3, <1>4 DEF Init
<1>6. IInv
  BY InitInvariant
<1>7. Backlog = <<>>
  BY <1>5, <1>6, BacklogFacts DEF IInv, Ahead
<1>8. QED
  BY <1>5, <1>6, <1>7 DEF ChannelInv, GoneIsAway, EndedIsEmpty, Power, Channel!Init

(***************************************************************************)
(* The states of the buttons reach the host in order, none is invented,    *)
(* and none is skipped but those a full queue gives up, repetitions, those *)
(* the host was not there for, and those shutdown() clears, which happens  *)
(* once and at the end (_note_buttons, _pump_mouse and shutdown(), with    *)
(* usb_f_hid at the other end).                                            *)
(***************************************************************************)
THEOREM ImplementsChannel == Spec => ButtonsInOrder
  BY ChannelInit, ChannelStep, PTL DEF Spec, ButtonsInOrder, Channel!Spec

=============================================================================
