--------------------------- MODULE MacroRunsProofs ---------------------------
(***************************************************************************)
(* For all macros that parse_step accepts: what their steps are made into  *)
(* are operations that the engine takes, what those leave held is what the *)
(* macros press without a release, and they raise just where the macros    *)
(* nest too deep (MacroRuns).                                              *)
(***************************************************************************)
EXTENDS MacroRuns, MacroEngineProofs

\* The operations that bring key x down, and those that bring it up.
KeyDown(x) == { op \in Operation : op.do = "press" /\ x \in op.what }
KeyUp(x) == { op \in Operation : x \in KeysUp(op) }

ButtonDown(x) == { op \in Operation : op.do = "down" /\ x \in op.what }
ButtonUp(x) == { op \in Operation : x \in ButtonsUp(op) }

\* Some operation of ops raises MacroError.
Raising == { op \in Operation : op.do = "raise" }
Raises(ops) == Stands(ops, Raising, {})

\* ops brings up whatever it brings down, and raises nothing.
Clear(ops) ==
  /\ ~Raises(ops)
  /\ \A x \in Keys : ~Stands(ops, KeyDown(x), KeyUp(x))
  /\ \A x \in Buttons : ~Stands(ops, ButtonDown(x), ButtonUp(x))

\* ops leaves down what some macro means to leave down.
Meant(ops) ==
  /\ \A x \in Keys : Stands(ops, KeyDown(x), KeyUp(x)) => x \in PressedForGood
  /\ \A x \in Buttons : Stands(ops, ButtonDown(x), ButtonUp(x)) => x \in DownForGood

-----------------------------------------------------------------------------
(***************************************************************************)
(* The operations of one step.                                             *)
(***************************************************************************)
LEMMA KeyOps ==
  ASSUME NEW d \in {"press", "release"}, NEW keys \in SUBSET Keys,
         NEW ticks \in SUBSET Nat
  PROVE  \E op \in Operation :
           op = Op(d, keys, ticks) /\ op.do = d /\ op.what = keys
<1>1. PICK op : op = [do |-> d, what |-> keys, delays |-> ticks]
  OBVIOUS
<1>2. op \in Operation /\ op.do = d /\ op.what = keys
  BY <1>1 DEF Operation
<1>3. QED
  BY <1>1, <1>2 DEF Op

LEMMA ButtonOps ==
  ASSUME NEW d \in {"down", "up"}, NEW bs \in SUBSET Buttons,
         NEW ticks \in SUBSET Nat
  PROVE  \E op \in Operation :
           op = Op(d, bs, ticks) /\ op.do = d /\ op.what = bs
<1>1. PICK op : op = [do |-> d, what |-> bs, delays |-> ticks]
  OBVIOUS
<1>2. op \in Operation /\ op.do = d /\ op.what = bs
  BY <1>1 DEF Operation
<1>3. QED
  BY <1>1, <1>2 DEF Op

LEMMA OtherOps ==
  ASSUME NEW d \in {"release_all", "wait", "mouse_move", "mouse_to",
                    "mouse_wheel", "raise"},
         NEW ticks \in SUBSET Nat
  PROVE  \E op \in Operation :
           op = Op(d, {}, ticks) /\ op.do = d /\ op.what = {}
<1>1. PICK op : op = [do |-> d, what |-> {}, delays |-> ticks]
  OBVIOUS
<1>2. op \in Operation /\ op.do = d /\ op.what = {}
  BY <1>1 DEF Operation
<1>3. QED
  BY <1>1, <1>2 DEF Op

\* A press that its release follows, alone or with a modifier around it.
LEMMA TapFacts ==
  ASSUME NEW keys \in SUBSET Keys
  PROVE  TapOps(keys) \in Seq(Operation) /\ Clear(TapOps(keys))
<1> DEFINE mods == keys \cap Modifiers
           plain == keys \ Modifiers
<1>1. mods \in SUBSET Keys /\ plain \in SUBSET Keys
  OBVIOUS
<1>2. Lead \in SUBSET Nat /\ Tap \in SUBSET Nat /\ Gap \in SUBSET Nat
  BY DelaysAssumption
<1>3. TapOps(keys) =
        IF mods # {} /\ plain # {}
        THEN <<Op("press", mods, Lead), Op("press", plain, Tap),
               Op("release", plain, Lead), Op("release", mods, Gap)>>
        ELSE <<Op("press", keys, Tap), Op("release", keys, Gap)>>
  BY DEF TapOps
<1> HIDE DEF mods, plain
<1>4. CASE mods # {} /\ plain # {}
  <2>1. PICK a \in Operation, b \in Operation, c \in Operation, d \in Operation :
          /\ a = Op("press", mods, Lead) /\ b = Op("press", plain, Tap)
          /\ c = Op("release", plain, Lead) /\ d = Op("release", mods, Gap)
          /\ a.do = "press" /\ b.do = "press" /\ c.do = "release" /\ d.do = "release"
          /\ a.what = mods /\ b.what = plain /\ c.what = plain /\ d.what = mods
    BY <1>1, <1>2, KeyOps
  <2>2. PICK s : s = <<a, b, c, d>>
    OBVIOUS
  <2>3. TapOps(keys) = s
    BY <1>3, <1>4, <2>1, <2>2
  <2>4. /\ s \in Seq(Operation) /\ Len(s) = 4
        /\ s[1] = a /\ s[2] = b /\ s[3] = c /\ s[4] = d
    BY <2>2
  <2>5. ASSUME NEW x \in Keys, Stands(s, KeyDown(x), KeyUp(x))
        PROVE  FALSE
    <3>1. PICK i \in 1..4 : s[i] \in KeyDown(x) /\ \A j \in (i + 1)..4 : s[j] \notin KeyUp(x)
      BY <2>4, <2>5 DEF Stands
    <3>2. c \notin KeyDown(x) /\ d \notin KeyDown(x)
      BY <2>1 DEF KeyDown
    <3>3. CASE i = 1
      <4>1. x \in mods /\ d \notin KeyUp(x)
        BY <2>4, <2>1, <3>1, <3>3 DEF KeyDown
      <4>2. QED
        BY <2>1, <4>1 DEF KeyUp, KeysUp
    <3>4. CASE i = 2
      <4>1. x \in plain /\ c \notin KeyUp(x)
        BY <2>4, <2>1, <3>1, <3>4 DEF KeyDown
      <4>2. QED
        BY <2>1, <4>1 DEF KeyUp, KeysUp
    <3>5. QED
      BY <2>4, <3>1, <3>2, <3>3, <3>4
  <2>6. ASSUME NEW x \in Buttons, Stands(s, ButtonDown(x), ButtonUp(x))
        PROVE  FALSE
    BY <2>4, <2>1, <2>6 DEF Stands, ButtonDown
  <2>7. ~Raises(s)
    BY <2>1, <2>4 DEF Raises, Stands, Raising
  <2>8. QED
    BY <2>3, <2>4, <2>5, <2>6, <2>7 DEF Clear
<1>5. CASE ~(mods # {} /\ plain # {})
  <2>1. PICK a \in Operation, b \in Operation :
          /\ a = Op("press", keys, Tap) /\ b = Op("release", keys, Gap)
          /\ a.do = "press" /\ b.do = "release" /\ a.what = keys /\ b.what = keys
    BY <1>2, KeyOps
  <2>2. PICK s : s = <<a, b>>
    OBVIOUS
  <2>3. TapOps(keys) = s
    BY <1>3, <1>5, <2>1, <2>2
  <2>4. s \in Seq(Operation) /\ Len(s) = 2 /\ s[1] = a /\ s[2] = b
    BY <2>2
  <2>5. ASSUME NEW x \in Keys, Stands(s, KeyDown(x), KeyUp(x))
        PROVE  FALSE
    <3>1. PICK i \in 1..2 : s[i] \in KeyDown(x) /\ \A j \in (i + 1)..2 : s[j] \notin KeyUp(x)
      BY <2>4, <2>5 DEF Stands
    <3>2. i = 1
      BY <2>4, <2>1, <3>1 DEF KeyDown
    <3>3. x \in keys /\ b \notin KeyUp(x)
      BY <2>4, <2>1, <3>1, <3>2 DEF KeyDown
    <3>4. QED
      BY <2>1, <3>3 DEF KeyUp, KeysUp
  <2>6. ASSUME NEW x \in Buttons, Stands(s, ButtonDown(x), ButtonUp(x))
        PROVE  FALSE
    BY <2>4, <2>1, <2>6 DEF Stands, ButtonDown
  <2>7. ~Raises(s)
    BY <2>1, <2>4 DEF Raises, Stands, Raising
  <2>8. QED
    BY <2>3, <2>4, <2>5, <2>6, <2>7 DEF Clear
<1>6. QED
  BY <1>4, <1>5

\* Pieces that bring up what they bring down do so one after the other.
LEMMA FlattenClear ==
  ASSUME NEW seqs \in Seq(Seq(Operation)),
         \A i \in 1..Len(seqs) : Clear(seqs[i])
  PROVE  FlattenSeq(seqs) \in Seq(Operation) /\ Clear(FlattenSeq(seqs))
<1>1. ASSUME NEW x \in Keys, Stands(FlattenSeq(seqs), KeyDown(x), KeyUp(x))
      PROVE  FALSE
  <2>1. \E i \in 1..Len(seqs) : Stands(seqs[i], KeyDown(x), KeyUp(x))
    BY <1>1, FlattenStands
  <2>2. QED
    BY <2>1 DEF Clear
<1>2. ASSUME NEW x \in Buttons, Stands(FlattenSeq(seqs), ButtonDown(x), ButtonUp(x))
      PROVE  FALSE
  <2>1. \E i \in 1..Len(seqs) : Stands(seqs[i], ButtonDown(x), ButtonUp(x))
    BY <1>2, FlattenStands
  <2>2. QED
    BY <2>1 DEF Clear
<1>3. ASSUME Raises(FlattenSeq(seqs))
      PROVE  FALSE
  <2>1. \E i \in 1..Len(seqs) : Stands(seqs[i], Raising, {})
    BY <1>3, FlattenStands DEF Raises
  <2>2. QED
    BY <2>1 DEF Clear, Raises
<1>4. FlattenSeq(seqs) \in Seq(Operation)
  BY FlattenType
<1>5. QED
  BY <1>1, <1>2, <1>3, <1>4 DEF Clear

\* A click lets the button go, however often it is repeated.
LEMMA ClickFacts ==
  ASSUME NEW click, click.button \in SUBSET Buttons, click.count \in Nat
  PROVE  ClickOps(click) \in Seq(Operation) /\ Clear(ClickOps(click))
<1>1. Tap \in SUBSET Nat /\ Gap \in SUBSET Nat
  BY DelaysAssumption
<1>2. PICK a \in Operation, b \in Operation :
        /\ a = Op("down", click.button, Tap) /\ b = Op("up", click.button, Gap)
        /\ a.do = "down" /\ b.do = "up"
        /\ a.what = click.button /\ b.what = click.button
  BY <1>1, ButtonOps
<1>3. PICK s : s = <<a, b>>
  OBVIOUS
<1>4. s \in Seq(Operation) /\ Len(s) = 2 /\ s[1] = a /\ s[2] = b
  BY <1>3
<1>5. Clear(s)
  <2>1. ASSUME NEW x \in Buttons, Stands(s, ButtonDown(x), ButtonUp(x))
        PROVE  FALSE
    <3>1. PICK i \in 1..2 :
            s[i] \in ButtonDown(x) /\ \A j \in (i + 1)..2 : s[j] \notin ButtonUp(x)
      BY <1>4, <2>1 DEF Stands
    <3>2. i = 1
      BY <1>2, <1>4, <3>1 DEF ButtonDown
    <3>3. x \in click.button /\ b \notin ButtonUp(x)
      BY <1>2, <1>4, <3>1, <3>2 DEF ButtonDown
    <3>4. QED
      BY <1>2, <3>3 DEF ButtonUp, ButtonsUp
  <2>2. ASSUME NEW x \in Keys, Stands(s, KeyDown(x), KeyUp(x))
        PROVE  FALSE
    BY <1>2, <1>4, <2>2 DEF Stands, KeyDown
  <2>3. ~Raises(s)
    BY <1>2, <1>4 DEF Raises, Stands, Raising
  <2>4. QED
    BY <2>1, <2>2, <2>3 DEF Clear
<1>6. PICK seqs : seqs = [i \in 1..click.count |-> s]
  OBVIOUS
<1>7. ClickOps(click) = FlattenSeq(seqs)
  BY <1>2, <1>3, <1>6 DEF ClickOps
<1>8. /\ seqs \in Seq(Seq(Operation)) /\ Len(seqs) = click.count
      /\ \A i \in 1..Len(seqs) : seqs[i] = s
  BY <1>4, <1>6
<1>9. QED
  BY <1>5, <1>7, <1>8, FlattenClear

\* Typed text ends with everything up.
LEMMA TypeFacts ==
  ASSUME NEW text \in Seq(SUBSET Keys)
  PROVE  TypeOps(text) \in Seq(Operation) /\ Clear(TypeOps(text))
<1>1. PICK seqs : seqs = [i \in DOMAIN text |->
                           IF text[i] = {} THEN <<>> ELSE TapOps(text[i])]
  OBVIOUS
<1>2. TypeOps(text) = FlattenSeq(seqs)
  BY <1>1 DEF TypeOps
<1>3. /\ <<>> \in Seq(Operation) /\ Clear(<<>>)
  BY DEF Clear, Raises, Stands
<1>4. /\ DOMAIN text = 1..Len(text) /\ Len(text) \in Nat
      /\ \A i \in 1..Len(text) : text[i] \in SUBSET Keys
  OBVIOUS
<1>5. \A i \in 1..Len(text) : seqs[i] \in Seq(Operation) /\ Clear(seqs[i])
  BY <1>1, <1>3, <1>4, TapFacts
<1>6. seqs \in Seq(Seq(Operation)) /\ Len(seqs) = Len(text)
  BY <1>1, <1>4, <1>5
<1>7. QED
  BY <1>2, <1>5, <1>6, FlattenClear

\* A step leaves down what a `press' or `mouse down' names, and nothing else, and
\* only nesting raises.
LEMMA StepFacts ==
  ASSUME NEW step, IsStep(step), step.kind # "macro"
  PROVE  /\ StepOps(step) \in Seq(Operation)
         /\ ~Raises(StepOps(step))
         /\ \A x \in Keys : Stands(StepOps(step), KeyDown(x), KeyUp(x)) =>
                              step.kind = "press" /\ x \in step.arg
         /\ \A x \in Buttons : Stands(StepOps(step), ButtonDown(x), ButtonUp(x)) =>
                                 step.kind = "down" /\ x \in step.arg
<1>1. CASE step.kind = "tap"
  <2>1. StepOps(step) = TapOps(step.arg) /\ step.arg \in SUBSET Keys
    BY <1>1 DEF StepOps, IsStep
  <2>2. QED
    BY <2>1, TapFacts DEF Clear
<1>2. CASE step.kind = "type"
  <2>1. StepOps(step) = TypeOps(step.arg) /\ step.arg \in Seq(SUBSET Keys)
    BY <1>2 DEF StepOps, IsStep
  <2>2. QED
    BY <2>1, TypeFacts DEF Clear
<1>3. CASE step.kind = "mouse_click"
  <2>1. /\ StepOps(step) = ClickOps(step.arg)
        /\ step.arg.button \in SUBSET Buttons /\ step.arg.count \in Nat
    BY <1>3 DEF StepOps, IsStep
  <2>2. QED
    BY <2>1, ClickFacts DEF Clear
<1>4. CASE step.kind = "wait"
  <2>1. StepOps(step) = <<Op("wait", {}, {step.arg})>> /\ {step.arg} \in SUBSET Nat
    BY <1>4 DEF StepOps, IsStep
  <2>2. PICK op \in Operation : op = Op("wait", {}, {step.arg}) /\ op.do = "wait"
    BY <2>1, OtherOps
  <2>3. PICK s : s = <<op>>
    OBVIOUS
  <2>4. s \in Seq(Operation) /\ Len(s) = 1 /\ s[1] = op /\ StepOps(step) = s
    BY <2>1, <2>2, <2>3
  <2>5. /\ \A x \in Keys : Stands(s, KeyDown(x), KeyUp(x)) => op \in KeyDown(x)
        /\ \A x \in Buttons : Stands(s, ButtonDown(x), ButtonUp(x)) => op \in ButtonDown(x)
    BY <2>4 DEF Stands
  <2>6. ~Raises(s)
    BY <2>2, <2>4 DEF Raises, Stands, Raising
  <2>7. QED
    BY <2>2, <2>4, <2>5, <2>6 DEF KeyDown, ButtonDown
<1>5. CASE step.kind \notin {"tap", "type", "mouse_click", "wait"}
  <2>1. PICK op \in Operation :
          op = Op(step.kind, step.arg, Gap) /\ op.do = step.kind /\ op.what = step.arg
    <3>1. Gap \in SUBSET Nat
      BY DelaysAssumption
    <3>2. CASE step.kind \in {"press", "release"}
      <4>1. step.arg \in SUBSET Keys
        BY <3>2 DEF IsStep
      <4>2. QED
        BY <3>1, <3>2, <4>1, KeyOps
    <3>3. CASE step.kind \in {"down", "up"}
      <4>1. step.arg \in SUBSET Buttons
        BY <3>3 DEF IsStep
      <4>2. QED
        BY <3>1, <3>3, <4>1, ButtonOps
    <3>4. CASE step.kind \in {"release_all", "mouse_move", "mouse_to", "mouse_wheel"}
      <4>1. step.arg = {}
        BY <3>4 DEF IsStep
      <4>2. QED
        BY <3>1, <3>4, <4>1, OtherOps
    <3>5. QED
      BY <1>5, <3>2, <3>3, <3>4 DEF IsStep
  <2>2. StepOps(step) = <<op>> /\ op.do # "raise"
    BY <1>5, <2>1 DEF StepOps, IsStep
  <2>3. PICK s : s = <<op>>
    OBVIOUS
  <2>4. s \in Seq(Operation) /\ Len(s) = 1 /\ s[1] = op /\ StepOps(step) = s
    BY <2>2, <2>3
  <2>5. /\ \A x \in Keys : Stands(s, KeyDown(x), KeyUp(x)) => op \in KeyDown(x)
        /\ \A x \in Buttons : Stands(s, ButtonDown(x), ButtonUp(x)) => op \in ButtonDown(x)
    BY <2>4 DEF Stands
  <2>6. ~Raises(s)
    BY <2>2, <2>4 DEF Raises, Stands, Raising
  <2>7. QED
    BY <2>1, <2>4, <2>5, <2>6 DEF KeyDown, ButtonDown
<1>6. QED
  BY <1>1, <1>2, <1>3, <1>4, <1>5

\* A `release', `mouse up' or `release all' brings up what it names, or all.
LEMMA ReleaseFacts ==
  ASSUME NEW step, IsStep(step)
  PROVE  /\ \A x \in Keys :
              (step.kind = "release" /\ x \in step.arg) \/ step.kind = "release_all" =>
                \E k \in 1..Len(StepOps(step)) : StepOps(step)[k] \in KeyUp(x)
         /\ \A x \in Buttons :
              (step.kind = "up" /\ x \in step.arg) \/ step.kind = "release_all" =>
                \E k \in 1..Len(StepOps(step)) : StepOps(step)[k] \in ButtonUp(x)
<1>1. Gap \in SUBSET Nat
  BY DelaysAssumption
<1>2. ASSUME step.kind \in {"release", "up", "release_all"},
             NEW op \in Operation, op = Op(step.kind, step.arg, Gap)
      PROVE  /\ 1 \in 1..Len(StepOps(step)) /\ StepOps(step)[1] = op
  <2>1. StepOps(step) = <<op>>
    BY <1>2 DEF StepOps
  <2>2. QED
    BY <2>1
<1>3. CASE step.kind = "release"
  <2>1. step.arg \in SUBSET Keys
    BY <1>3 DEF IsStep
  <2>2. PICK op \in Operation :
          op = Op(step.kind, step.arg, Gap) /\ op.do = "release" /\ op.what = step.arg
    BY <1>1, <1>3, <2>1, KeyOps
  <2>3. 1 \in 1..Len(StepOps(step)) /\ StepOps(step)[1] = op
    BY <1>2, <1>3, <2>2
  <2>4. \A x \in step.arg : op \in KeyUp(x)
    BY <2>2 DEF KeyUp, KeysUp
  <2>5. QED
    BY <1>3, <2>3, <2>4
<1>4. CASE step.kind = "up"
  <2>1. step.arg \in SUBSET Buttons
    BY <1>4 DEF IsStep
  <2>2. PICK op \in Operation :
          op = Op(step.kind, step.arg, Gap) /\ op.do = "up" /\ op.what = step.arg
    BY <1>1, <1>4, <2>1, ButtonOps
  <2>3. 1 \in 1..Len(StepOps(step)) /\ StepOps(step)[1] = op
    BY <1>2, <1>4, <2>2
  <2>4. \A x \in step.arg : op \in ButtonUp(x)
    BY <2>2 DEF ButtonUp, ButtonsUp
  <2>5. QED
    BY <1>4, <2>3, <2>4
<1>5. CASE step.kind = "release_all"
  <2>1. step.arg = {}
    BY <1>5 DEF IsStep
  <2>2. PICK op \in Operation :
          op = Op(step.kind, step.arg, Gap) /\ op.do = "release_all"
    BY <1>1, <1>5, <2>1, OtherOps
  <2>3. 1 \in 1..Len(StepOps(step)) /\ StepOps(step)[1] = op
    BY <1>2, <1>5, <2>2
  <2>4. /\ \A x \in Keys : op \in KeyUp(x)
        /\ \A x \in Buttons : op \in ButtonUp(x)
    BY <2>2 DEF KeyUp, KeysUp, ButtonUp, ButtonsUp
  <2>5. QED
    BY <1>5, <2>3, <2>4
<1>6. QED
  BY <1>3, <1>4, <1>5

-----------------------------------------------------------------------------
(***************************************************************************)
(* The operations of a macro.                                              *)
(***************************************************************************)
LEMMA MacroFacts ==
  ASSUME NEW m \in DOMAIN Macros
  PROVE  /\ DOMAIN Macros[m] = 1..Len(Macros[m]) /\ Len(Macros[m]) \in Nat
         /\ \A i \in 1..Len(Macros[m]) : IsStep(Macros[m][i])
<1>1. Macros[m] \in Seq(ToSet(Macros[m])) /\ \A i \in DOMAIN Macros[m] : IsStep(Macros[m][i])
  BY MacrosAssumption
<1>2. DOMAIN Macros[m] = 1..Len(Macros[m]) /\ Len(Macros[m]) \in Nat
  BY <1>1
<1>3. QED
  BY <1>1, <1>2

\* A key that a step presses, and none after it releases, is one that is
\* pressed for good; and so for the buttons.
LEMMA HoldFacts ==
  ASSUME NEW m \in DOMAIN Macros, NEW i \in 1..Len(Macros[m])
  PROVE  /\ \A x \in Macros[m][i].arg :
              /\ Macros[m][i].kind = "press"
              /\ \A j \in (i + 1)..Len(Macros[m]) :
                   /\ Macros[m][j].kind # "release_all"
                   /\ ~(Macros[m][j].kind = "release" /\ x \in Macros[m][j].arg)
              => x \in PressedForGood
         /\ \A x \in Macros[m][i].arg :
              /\ Macros[m][i].kind = "down"
              /\ \A j \in (i + 1)..Len(Macros[m]) :
                   /\ Macros[m][j].kind # "release_all"
                   /\ ~(Macros[m][j].kind = "up" /\ x \in Macros[m][j].arg)
              => x \in DownForGood
<1>1. /\ DOMAIN Macros[m] = 1..Len(Macros[m]) /\ Len(Macros[m]) \in Nat
  BY MacroFacts
<1>2. ASSUME NEW kind, NEW up, NEW x \in Macros[m][i].arg,
             Macros[m][i].kind = kind,
             \A j \in (i + 1)..Len(Macros[m]) :
               /\ Macros[m][j].kind # "release_all"
               /\ ~(Macros[m][j].kind = up /\ x \in Macros[m][j].arg)
      PROVE  /\ i \in HoldSteps(m, kind)
             /\ x \in Macros[m][i].arg \
                       UNION { Macros[m][j].arg : j \in Releases(m, i, up) }
  <2>1. \A j \in DOMAIN Macros[m] : j > i => j \in (i + 1)..Len(Macros[m])
    BY <1>1
  <2>2. i \in HoldSteps(m, kind)
    BY <1>1, <1>2, <2>1 DEF HoldSteps
  <2>3. \A j \in Releases(m, i, up) : x \notin Macros[m][j].arg
    BY <1>2, <2>1 DEF Releases
  <2>4. QED
    BY <2>2, <2>3
<1>3. ASSUME NEW x \in Macros[m][i].arg,
             Macros[m][i].kind = "press",
             \A j \in (i + 1)..Len(Macros[m]) :
               /\ Macros[m][j].kind # "release_all"
               /\ ~(Macros[m][j].kind = "release" /\ x \in Macros[m][j].arg)
      PROVE  x \in PressedForGood
  <2>1. /\ i \in HoldSteps(m, "press")
        /\ x \in Macros[m][i].arg \
                  UNION { Macros[m][j].arg : j \in Releases(m, i, "release") }
    BY <1>2, <1>3
  <2>2. QED
    BY <2>1 DEF PressedForGood
<1>4. ASSUME NEW x \in Macros[m][i].arg,
             Macros[m][i].kind = "down",
             \A j \in (i + 1)..Len(Macros[m]) :
               /\ Macros[m][j].kind # "release_all"
               /\ ~(Macros[m][j].kind = "up" /\ x \in Macros[m][j].arg)
      PROVE  x \in DownForGood
  <2>1. /\ i \in HoldSteps(m, "down")
        /\ x \in Macros[m][i].arg \
                  UNION { Macros[m][j].arg : j \in Releases(m, i, "up") }
    BY <1>2, <1>4
  <2>2. QED
    BY <2>1 DEF DownForGood
<1>5. QED
  BY <1>3, <1>4

\* What one step, nested macros included, leaves down.
LEMMA PieceFacts ==
  ASSUME NEW step, IsStep(step), NEW depth \in 0..MaxDepth, NEW deeper,
         depth < MaxDepth =>
           \A n \in DOMAIN Macros : deeper[n] \in Seq(Operation) /\ Meant(deeper[n])
  PROVE  /\ Piece(step, depth, deeper) \in Seq(Operation)
         /\ \A x \in Keys :
              Stands(Piece(step, depth, deeper), KeyDown(x), KeyUp(x)) =>
                x \in PressedForGood \/ (step.kind = "press" /\ x \in step.arg)
         /\ \A x \in Buttons :
              Stands(Piece(step, depth, deeper), ButtonDown(x), ButtonUp(x)) =>
                x \in DownForGood \/ (step.kind = "down" /\ x \in step.arg)
<1>1. CASE step.kind # "macro"
  <2>1. Piece(step, depth, deeper) = StepOps(step)
    BY <1>1 DEF Piece
  <2>2. QED
    BY <1>1, <2>1, StepFacts
<1>2. CASE step.kind = "macro" /\ depth >= MaxDepth
  <2>1. PICK op \in Operation : op = Raise /\ op.do = "raise"
    BY OtherOps DEF Raise
  <2>2. PICK s : s = <<op>>
    OBVIOUS
  <2>3. s \in Seq(Operation) /\ Len(s) = 1 /\ s[1] = op
    BY <2>2
  <2>4. Piece(step, depth, deeper) = s
    BY <1>2, <2>1, <2>2 DEF Piece
  <2>5. /\ \A x \in Keys : Stands(s, KeyDown(x), KeyUp(x)) => op \in KeyDown(x)
        /\ \A x \in Buttons : Stands(s, ButtonDown(x), ButtonUp(x)) => op \in ButtonDown(x)
    BY <2>3 DEF Stands
  <2>6. QED
    BY <2>1, <2>3, <2>4, <2>5 DEF KeyDown, ButtonDown
<1>3. CASE step.kind = "macro" /\ ~(depth >= MaxDepth)
  <2>1. depth < MaxDepth
    BY <1>3, DepthAssumption
  <2>2. Piece(step, depth, deeper) = deeper[step.arg] /\ step.arg \in DOMAIN Macros
    BY <1>3 DEF Piece, IsStep
  <2>3. Piece(step, depth, deeper) \in Seq(Operation) /\ Meant(Piece(step, depth, deeper))
    BY <2>1, <2>2
  <2>4. QED
    BY <2>3 DEF Meant
<1>4. QED
  BY <1>1, <1>2, <1>3

\* A macro leaves down what is meant to be, when those it nests do.
LEMMA LevelFacts ==
  ASSUME NEW m \in DOMAIN Macros, NEW depth \in 0..MaxDepth, NEW deeper,
         depth < MaxDepth =>
           \A n \in DOMAIN Macros : deeper[n] \in Seq(Operation) /\ Meant(deeper[n])
  PROVE  MacroOps(m, depth, deeper) \in Seq(Operation) /\ Meant(MacroOps(m, depth, deeper))
<1>1. PICK steps : steps = Macros[m]
  OBVIOUS
<1>2. /\ DOMAIN steps = 1..Len(steps) /\ Len(steps) \in Nat
      /\ \A i \in 1..Len(steps) : IsStep(steps[i])
  BY <1>1, MacroFacts
<1>3. PICK seqs : seqs = [i \in 1..Len(steps) |-> Piece(steps[i], depth, deeper)]
  OBVIOUS
<1>4. MacroOps(m, depth, deeper) = FlattenSeq(seqs)
  BY <1>1, <1>2, <1>3 DEF MacroOps
<1>5. \A i \in 1..Len(steps) :
        /\ seqs[i] \in Seq(Operation)
        /\ \A x \in Keys :
             Stands(seqs[i], KeyDown(x), KeyUp(x)) =>
               x \in PressedForGood \/ (steps[i].kind = "press" /\ x \in steps[i].arg)
        /\ \A x \in Buttons :
             Stands(seqs[i], ButtonDown(x), ButtonUp(x)) =>
               x \in DownForGood \/ (steps[i].kind = "down" /\ x \in steps[i].arg)
  <2>1. ASSUME NEW i \in 1..Len(steps)
        PROVE  /\ Piece(steps[i], depth, deeper) \in Seq(Operation)
               /\ \A x \in Keys :
                    Stands(Piece(steps[i], depth, deeper), KeyDown(x), KeyUp(x)) =>
                      x \in PressedForGood \/ (steps[i].kind = "press" /\ x \in steps[i].arg)
               /\ \A x \in Buttons :
                    Stands(Piece(steps[i], depth, deeper), ButtonDown(x), ButtonUp(x)) =>
                      x \in DownForGood \/ (steps[i].kind = "down" /\ x \in steps[i].arg)
    <3>1. IsStep(steps[i])
      BY <1>2
    <3>2. QED
      BY <3>1, PieceFacts
  <2>2. \A i \in 1..Len(steps) : seqs[i] = Piece(steps[i], depth, deeper)
    BY <1>3
  <2>3. QED
    BY <2>1, <2>2, Zenon
<1>6. seqs \in Seq(Seq(Operation)) /\ Len(seqs) = Len(steps)
  BY <1>2, <1>3, <1>5
<1>7. /\ \A i \in 1..Len(steps) : steps[i].kind # "macro" => seqs[i] = StepOps(steps[i])
  BY <1>3 DEF Piece
<1>8. ASSUME NEW x \in Keys, Stands(FlattenSeq(seqs), KeyDown(x), KeyUp(x))
      PROVE  x \in PressedForGood
  <2>1. PICK i \in 1..Len(steps) :
          /\ Stands(seqs[i], KeyDown(x), KeyUp(x))
          /\ \A j \in (i + 1)..Len(steps) :
               \A k \in 1..Len(seqs[j]) : seqs[j][k] \notin KeyUp(x)
    BY <1>6, <1>8, FlattenStands
  <2>2. CASE steps[i].kind = "press" /\ x \in steps[i].arg
    <3>1. ASSUME NEW j \in (i + 1)..Len(steps)
          PROVE  /\ steps[j].kind # "release_all"
                 /\ ~(steps[j].kind = "release" /\ x \in steps[j].arg)
      <4>1. j \in 1..Len(steps)
        BY <1>2
      <4>2. IsStep(steps[j]) /\ (steps[j].kind # "macro" => seqs[j] = StepOps(steps[j]))
        BY <1>2, <1>7, <4>1
      <4>3. (steps[j].kind = "release" /\ x \in steps[j].arg) \/ steps[j].kind = "release_all" =>
              \E k \in 1..Len(StepOps(steps[j])) : StepOps(steps[j])[k] \in KeyUp(x)
        BY <4>2, ReleaseFacts
      <4>4. QED
        BY <2>1, <4>2, <4>3
    <3>2. QED
      BY <1>1, <2>2, <3>1, HoldFacts
  <2>3. QED
    BY <1>5, <2>1, <2>2
<1>9. ASSUME NEW x \in Buttons, Stands(FlattenSeq(seqs), ButtonDown(x), ButtonUp(x))
      PROVE  x \in DownForGood
  <2>1. PICK i \in 1..Len(steps) :
          /\ Stands(seqs[i], ButtonDown(x), ButtonUp(x))
          /\ \A j \in (i + 1)..Len(steps) :
               \A k \in 1..Len(seqs[j]) : seqs[j][k] \notin ButtonUp(x)
    BY <1>6, <1>9, FlattenStands
  <2>2. CASE steps[i].kind = "down" /\ x \in steps[i].arg
    <3>1. ASSUME NEW j \in (i + 1)..Len(steps)
          PROVE  /\ steps[j].kind # "release_all"
                 /\ ~(steps[j].kind = "up" /\ x \in steps[j].arg)
      <4>1. j \in 1..Len(steps)
        BY <1>2
      <4>2. IsStep(steps[j]) /\ (steps[j].kind # "macro" => seqs[j] = StepOps(steps[j]))
        BY <1>2, <1>7, <4>1
      <4>3. (steps[j].kind = "up" /\ x \in steps[j].arg) \/ steps[j].kind = "release_all" =>
              \E k \in 1..Len(StepOps(steps[j])) : StepOps(steps[j])[k] \in ButtonUp(x)
        BY <4>2, ReleaseFacts
      <4>4. QED
        BY <2>1, <4>2, <4>3
    <3>2. QED
      BY <1>1, <2>2, <3>1, HoldFacts
  <2>3. QED
    BY <1>5, <2>1, <2>2
<1>10. FlattenSeq(seqs) \in Seq(Operation)
  BY <1>6, FlattenType
<1>11. QED
  BY <1>4, <1>8, <1>9, <1>10 DEF Meant

-----------------------------------------------------------------------------
(***************************************************************************)
(* Nesting.                                                                *)
(***************************************************************************)
\* At the depth where nesting is refused the macros below do not matter.
LEMMA DeepestFacts ==
  ASSUME NEW m \in DOMAIN Macros, NEW f, NEW g
  PROVE  MacroOps(m, MaxDepth, f) = MacroOps(m, MaxDepth, g)
<1>1. \A i : Piece(Macros[m][i], MaxDepth, f) = Piece(Macros[m][i], MaxDepth, g)
  BY DepthAssumption DEF Piece
<1>2. [i \in DOMAIN Macros[m] |-> Piece(Macros[m][i], MaxDepth, f)] =
      [i \in DOMAIN Macros[m] |-> Piece(Macros[m][i], MaxDepth, g)]
  BY <1>1
<1>3. QED
  BY <1>2, Zenon DEF MacroOps

\* The recursion has a solution, built from the deepest level up.
LEMMA InlinedExists ==
  \E f : f = [depth \in 0..MaxDepth |->
               [m \in DOMAIN Macros |-> MacroOps(m, depth, f[depth + 1])]]
<1> DEFINE Is(f, low) ==
             f = [depth \in low..MaxDepth |->
                   [m \in DOMAIN Macros |-> MacroOps(m, depth, f[depth + 1])]]
           T == { n \in Nat : n <= MaxDepth => \E f : Is(f, MaxDepth - n) }
<1>1. MaxDepth \in Nat
  BY DepthAssumption
<1>2. 0 \in T
  <2> DEFINE g == [depth \in MaxDepth..MaxDepth |->
                    [m \in DOMAIN Macros |-> MacroOps(m, depth, <<>>)]]
  <2>1. ASSUME NEW depth \in MaxDepth..MaxDepth
        PROVE  [m \in DOMAIN Macros |-> MacroOps(m, depth, <<>>)] =
               [m \in DOMAIN Macros |-> MacroOps(m, depth, g[depth + 1])]
    <3>1. depth = MaxDepth
      BY <1>1
    <3> HIDE DEF g
    <3>2. \A m \in DOMAIN Macros :
            MacroOps(m, depth, <<>>) = MacroOps(m, depth, g[depth + 1])
      BY <3>1, DeepestFacts
    <3>3. QED
      BY <3>2
  <2>2. Is(g, MaxDepth)
    BY <2>1
  <2>3. MaxDepth - 0 = MaxDepth
    BY <1>1
  <2> HIDE DEF Is, g
  <2>4. \E f : Is(f, MaxDepth)
    BY <2>2, Zenon
  <2>5. QED
    BY <2>3, <2>4
<1>3. ASSUME NEW n \in Nat, n \in T
      PROVE  n + 1 \in T
  <2>1. SUFFICES ASSUME n + 1 <= MaxDepth PROVE \E f : Is(f, MaxDepth - (n + 1))
    OBVIOUS
  <2>2. PICK f : Is(f, MaxDepth - n)
    BY <1>1, <1>3, <2>1
  <2>3. PICK low \in Nat : low = MaxDepth - (n + 1) /\ low + 1 = MaxDepth - n
    BY <1>1, <2>1
  <2>4. f = [depth \in (low + 1)..MaxDepth |->
              [m \in DOMAIN Macros |-> MacroOps(m, depth, f[depth + 1])]]
    BY <2>2, <2>3
  <2> DEFINE g == [depth \in low..MaxDepth |->
                    [m \in DOMAIN Macros |-> MacroOps(m, depth, f[depth + 1])]]
  <2>5. ASSUME NEW depth \in low..MaxDepth
        PROVE  [m \in DOMAIN Macros |-> MacroOps(m, depth, f[depth + 1])] =
               [m \in DOMAIN Macros |-> MacroOps(m, depth, g[depth + 1])]
    <3>1. CASE depth = MaxDepth
      <4> HIDE DEF g
      <4>1. \A m \in DOMAIN Macros :
              MacroOps(m, depth, f[depth + 1]) = MacroOps(m, depth, g[depth + 1])
        BY <3>1, DeepestFacts
      <4>2. QED
        BY <4>1
    <3>2. CASE depth # MaxDepth
      <4>1. depth + 1 \in (low + 1)..MaxDepth /\ depth + 1 \in low..MaxDepth
        BY <1>1, <3>2
      <4>2. f[depth + 1] = g[depth + 1]
        BY <2>4, <4>1
      <4>3. QED
        BY <4>2
    <3>3. QED
      BY <3>1, <3>2
  <2>6. Is(g, low)
    BY <2>5
  <2> HIDE DEF Is, g
  <2>7. \E h : Is(h, low)
    BY <2>6, Zenon
  <2>8. QED
    BY <2>3, <2>7
<1> HIDE DEF T
<1>4. MaxDepth \in T
  BY <1>1, <1>2, <1>3, SetInduction
<1>5. \E f : Is(f, MaxDepth - MaxDepth)
  BY <1>1, <1>4 DEF T
<1>6. MaxDepth - MaxDepth = 0
  BY <1>1
<1>7. QED
  BY <1>5, <1>6

LEMMA InlinedDef ==
  ASSUME NEW depth \in 0..MaxDepth
  PROVE  Inlined[depth] =
           [m \in DOMAIN Macros |-> MacroOps(m, depth, Inlined[depth + 1])]
<1>1. Inlined = [d \in 0..MaxDepth |->
                  [m \in DOMAIN Macros |-> MacroOps(m, d, Inlined[d + 1])]]
  BY InlinedExists DEF Inlined
<1>2. QED
  BY <1>1

\* At every depth, from the deepest up.
LEMMA InlinedFacts ==
  ASSUME NEW depth \in 0..MaxDepth, NEW m \in DOMAIN Macros
  PROVE  Inlined[depth][m] \in Seq(Operation) /\ Meant(Inlined[depth][m])
<1> DEFINE Good(d) == \A n \in DOMAIN Macros :
                        Inlined[d][n] \in Seq(Operation) /\ Meant(Inlined[d][n])
           T == { n \in Nat : n <= MaxDepth => Good(MaxDepth - n) }
<1>1. MaxDepth \in Nat
  BY DepthAssumption
<1>2. ASSUME NEW d \in 0..MaxDepth, d < MaxDepth => Good(d + 1)
      PROVE  Good(d)
  <2>1. ASSUME NEW n \in DOMAIN Macros
        PROVE  Inlined[d][n] \in Seq(Operation) /\ Meant(Inlined[d][n])
    <3>1. Inlined[d][n] = MacroOps(n, d, Inlined[d + 1])
      BY InlinedDef
    <3>2. /\ MacroOps(n, d, Inlined[d + 1]) \in Seq(Operation)
          /\ Meant(MacroOps(n, d, Inlined[d + 1]))
      BY <1>2, LevelFacts
    <3>3. QED
      BY <3>1, <3>2
  <2>2. QED
    BY <2>1
<1> HIDE DEF Good
<1>3. 0 \in T
  <2>1. Good(MaxDepth)
    BY <1>1, <1>2
  <2>2. MaxDepth - 0 = MaxDepth
    BY <1>1
  <2>3. QED
    BY <2>1, <2>2
<1>4. ASSUME NEW n \in Nat, n \in T
      PROVE  n + 1 \in T
  <2>1. SUFFICES ASSUME n + 1 <= MaxDepth PROVE Good(MaxDepth - (n + 1))
    OBVIOUS
  <2>2. PICK d \in 0..MaxDepth : d = MaxDepth - (n + 1) /\ d + 1 = MaxDepth - n
    BY <1>1, <2>1
  <2>3. Good(d + 1)
    BY <1>1, <1>4, <2>1, <2>2
  <2>4. Good(d)
    BY <1>2, <2>3
  <2>5. QED
    BY <2>2, <2>4
<1> HIDE DEF T
<1>5. \A n \in Nat : n \in T
  BY <1>3, <1>4, SetInduction
<1>6. MaxDepth - depth \in Nat /\ MaxDepth - depth <= MaxDepth
      /\ MaxDepth - (MaxDepth - depth) = depth
  BY <1>1
<1>7. Good(depth)
  BY <1>5, <1>6 DEF T
<1>8. QED
  BY <1>7 DEF Good

-----------------------------------------------------------------------------
(***************************************************************************)
(* The limit of nesting.                                                   *)
(***************************************************************************)
LEMMA RaisesFacts ==
  ASSUME NEW ops \in Seq(Operation)
  PROVE  Raises(ops) <=> \E i \in 1..Len(ops) : ops[i].do = "raise"
BY \A i \in 1..Len(ops) : ops[i] \in Operation DEF Raises, Stands, Raising

\* A macro raises where it nests one, at the limit or one that raises.
LEMMA LevelRaises ==
  ASSUME NEW m \in DOMAIN Macros, NEW depth \in 0..MaxDepth, NEW deeper,
         depth < MaxDepth =>
           \A n \in DOMAIN Macros : deeper[n] \in Seq(Operation) /\ Meant(deeper[n])
  PROVE  Raises(MacroOps(m, depth, deeper)) <=>
           \E n \in DOMAIN Macros :
             Nests(m, n) /\ (depth = MaxDepth \/ Raises(deeper[n]))
<1>1. PICK steps : steps = Macros[m]
  OBVIOUS
<1>2. /\ DOMAIN steps = 1..Len(steps) /\ Len(steps) \in Nat
      /\ \A i \in 1..Len(steps) : IsStep(steps[i])
  BY <1>1, MacroFacts
<1>3. PICK seqs : seqs = [i \in 1..Len(steps) |-> Piece(steps[i], depth, deeper)]
  OBVIOUS
<1>4. MacroOps(m, depth, deeper) = FlattenSeq(seqs)
  BY <1>1, <1>2, <1>3 DEF MacroOps
<1>5. depth <= MaxDepth /\ (depth >= MaxDepth <=> depth = MaxDepth)
  BY DepthAssumption
<1>6. \A i \in 1..Len(steps) :
        /\ seqs[i] \in Seq(Operation)
        /\ Raises(seqs[i]) <=>
             /\ steps[i].kind = "macro"
             /\ depth = MaxDepth \/ Raises(deeper[steps[i].arg])
  <2>1. SUFFICES ASSUME NEW i \in 1..Len(steps)
                 PROVE  /\ seqs[i] \in Seq(Operation)
                        /\ Raises(seqs[i]) <=>
                             /\ steps[i].kind = "macro"
                             /\ depth = MaxDepth \/ Raises(deeper[steps[i].arg])
    OBVIOUS
  <2>2. PICK step : step = steps[i]
    OBVIOUS
  <2>3. IsStep(step) /\ seqs[i] = Piece(step, depth, deeper)
    BY <1>2, <1>3, <2>2
  <2>4. Piece(step, depth, deeper) \in Seq(Operation)
    BY <2>3, PieceFacts
  <2>5. CASE step.kind # "macro"
    <3>1. Piece(step, depth, deeper) = StepOps(step) /\ ~Raises(StepOps(step))
      BY <2>3, <2>5, StepFacts DEF Piece
    <3>2. QED
      BY <2>2, <2>3, <2>4, <2>5, <3>1
  <2>6. CASE step.kind = "macro" /\ depth = MaxDepth
    <3>1. PICK op \in Operation : op = Raise /\ op.do = "raise"
      BY OtherOps DEF Raise
    <3>2. PICK s : s = <<op>>
      OBVIOUS
    <3>3. s \in Seq(Operation) /\ Len(s) = 1 /\ s[1] = op
      BY <3>2
    <3>4. Piece(step, depth, deeper) = s
      BY <1>5, <2>6, <3>1, <3>2 DEF Piece
    <3>5. Raises(s)
      BY <3>1, <3>3, RaisesFacts
    <3>6. QED
      BY <2>2, <2>3, <2>4, <2>6, <3>4, <3>5
  <2>7. CASE step.kind = "macro" /\ depth # MaxDepth
    <3>1. Piece(step, depth, deeper) = deeper[step.arg]
      BY <1>5, <2>7 DEF Piece
    <3>2. QED
      BY <2>2, <2>3, <2>4, <2>7, <3>1
  <2>8. QED
    BY <2>5, <2>6, <2>7
<1>7. seqs \in Seq(Seq(Operation)) /\ Len(seqs) = Len(steps)
  BY <1>2, <1>3, <1>6
<1>8. ASSUME Raises(FlattenSeq(seqs))
      PROVE  \E n \in DOMAIN Macros :
               Nests(m, n) /\ (depth = MaxDepth \/ Raises(deeper[n]))
  <2>1. PICK i \in 1..Len(steps) : Raises(seqs[i])
    BY <1>7, <1>8, FlattenStands DEF Raises
  <2>2. steps[i].kind = "macro" /\ (depth = MaxDepth \/ Raises(deeper[steps[i].arg]))
    BY <1>6, <2>1
  <2>3. steps[i].arg \in DOMAIN Macros /\ Nests(m, steps[i].arg)
    BY <1>1, <1>2, <2>2 DEF IsStep, Nests
  <2>4. QED
    BY <2>2, <2>3
<1>9. ASSUME NEW n \in DOMAIN Macros, Nests(m, n),
             depth = MaxDepth \/ Raises(deeper[n])
      PROVE  Raises(FlattenSeq(seqs))
  <2>1. PICK i \in 1..Len(steps) : steps[i].kind = "macro" /\ steps[i].arg = n
    BY <1>1, <1>2, <1>9 DEF Nests
  <2>2. seqs[i] \in Seq(Operation) /\ Raises(seqs[i])
    BY <1>6, <1>9, <2>1
  <2>3. PICK k \in 1..Len(seqs[i]) : seqs[i][k].do = "raise"
    BY <2>2, RaisesFacts
  <2>4. i \in 1..Len(seqs)
    BY <1>7
  <2>5. PICK j \in 1..Len(FlattenSeq(seqs)) : FlattenSeq(seqs)[j] = seqs[i][k]
    BY <1>7, <2>4, FlattenHolds
  <2>6. FlattenSeq(seqs) \in Seq(Operation)
    BY <1>7, FlattenType
  <2>7. QED
    BY <2>3, <2>5, <2>6, RaisesFacts
<1>10. QED
  BY <1>4, <1>8, <1>9

\* A chain of n + 1 macros below m is a macro that m nests and one of n below it.
LEMMA ChainFacts ==
  ASSUME NEW m \in DOMAIN Macros, NEW n \in Nat
  PROVE  /\ NestsDeep(m, 0)
         /\ NestsDeep(m, n + 1) <=>
              \E k \in DOMAIN Macros : Nests(m, k) /\ NestsDeep(k, n)
<1>1. NestsDeep(m, 0)
  <2>1. PICK c : c = [i \in 0..0 |-> m]
    OBVIOUS
  <2>2. c \in [0..0 -> DOMAIN Macros] /\ c[0] = m
    BY <2>1
  <2>3. QED
    BY <2>2 DEF NestsDeep
<1>2. ASSUME NestsDeep(m, n + 1)
      PROVE  \E k \in DOMAIN Macros : Nests(m, k) /\ NestsDeep(k, n)
  <2>1. PICK c \in [0..(n + 1) -> DOMAIN Macros] :
          c[0] = m /\ \A i \in 0..((n + 1) - 1) : Nests(c[i], c[i + 1])
    BY <1>2 DEF NestsDeep
  <2>2. c[1] \in DOMAIN Macros /\ Nests(m, c[1])
    <3>1. 0 \in 0..((n + 1) - 1) /\ 0 + 1 = 1 /\ 1 \in 0..(n + 1)
      OBVIOUS
    <3>2. QED
      BY <2>1, <3>1
  <2>3. PICK d : d = [i \in 0..n |-> c[i + 1]]
    OBVIOUS
  <2>4. d \in [0..n -> DOMAIN Macros] /\ d[0] = c[1]
    BY <2>1, <2>3
  <2>5. ASSUME NEW i \in 0..(n - 1)
        PROVE  Nests(d[i], d[i + 1])
    <3>1. i + 1 \in 0..((n + 1) - 1) /\ i \in 0..n /\ i + 1 \in 0..n
      OBVIOUS
    <3>2. d[i] = c[i + 1] /\ d[i + 1] = c[(i + 1) + 1]
      BY <2>3, <3>1
    <3>3. QED
      BY <2>1, <3>1, <3>2
  <2>6. NestsDeep(c[1], n)
    BY <2>4, <2>5 DEF NestsDeep
  <2>7. QED
    BY <2>2, <2>6
<1>3. ASSUME NEW k \in DOMAIN Macros, Nests(m, k), NestsDeep(k, n)
      PROVE  NestsDeep(m, n + 1)
  <2>1. PICK d \in [0..n -> DOMAIN Macros] :
          d[0] = k /\ \A i \in 0..(n - 1) : Nests(d[i], d[i + 1])
    BY <1>3 DEF NestsDeep
  <2>2. PICK c : c = [i \in 0..(n + 1) |-> IF i = 0 THEN m ELSE d[i - 1]]
    OBVIOUS
  <2>3. c \in [0..(n + 1) -> DOMAIN Macros] /\ c[0] = m
    <3>1. \A i \in 0..(n + 1) : i # 0 => d[i - 1] \in DOMAIN Macros
      BY <2>1
    <3>2. QED
      BY <2>2, <3>1
  <2>4. ASSUME NEW i \in 0..((n + 1) - 1)
        PROVE  Nests(c[i], c[i + 1])
    <3>1. i + 1 \in 0..(n + 1) /\ i + 1 # 0 /\ (i + 1) - 1 = i /\ i \in 0..(n + 1)
      OBVIOUS
    <3>2. c[i + 1] = d[i]
      BY <2>2, <3>1
    <3>3. CASE i = 0
      BY <1>3, <2>1, <2>3, <3>2, <3>3
    <3>4. CASE i # 0
      <4>1. i - 1 \in 0..(n - 1) /\ (i - 1) + 1 = i
        BY <3>4
      <4>2. c[i] = d[i - 1]
        BY <2>2, <3>1, <3>4
      <4>3. QED
        BY <2>1, <3>2, <4>1, <4>2
    <3>5. QED
      BY <3>3, <3>4
  <2>5. QED
    BY <2>3, <2>4 DEF NestsDeep
<1>4. QED
  BY <1>1, <1>2, <1>3

\* With n levels left a macro raises if it nests more than n deep.
LEMMA RaiseIsDeep ==
  ASSUME NEW m \in DOMAIN Macros
  PROVE  Raises(Inlined[0][m]) <=> m \in TooDeep
<1> DEFINE Fits(n, d) == \A k \in DOMAIN Macros :
                           Raises(Inlined[d][k]) <=> NestsDeep(k, n + 1)
           T == { n \in Nat : n <= MaxDepth => Fits(n, MaxDepth - n) }
<1>1. MaxDepth \in Nat
  BY DepthAssumption
<1>2. ASSUME NEW d \in 0..MaxDepth, NEW k \in DOMAIN Macros
      PROVE  Raises(Inlined[d][k]) <=>
               \E j \in DOMAIN Macros :
                 Nests(k, j) /\ (d = MaxDepth \/ Raises(Inlined[d + 1][j]))
  <2>1. Inlined[d][k] = MacroOps(k, d, Inlined[d + 1])
    BY InlinedDef
  <2>2. d < MaxDepth =>
          \A j \in DOMAIN Macros : Inlined[d + 1][j] \in Seq(Operation) /\ Meant(Inlined[d + 1][j])
    <3>1. d < MaxDepth => d + 1 \in 0..MaxDepth
      BY <1>1
    <3>2. QED
      BY <3>1, InlinedFacts
  <2>3. Raises(MacroOps(k, d, Inlined[d + 1])) <=>
          \E j \in DOMAIN Macros :
            Nests(k, j) /\ (d = MaxDepth \/ Raises(Inlined[d + 1][j]))
    BY <2>2, LevelRaises
  <2>4. QED
    BY <2>1, <2>3
<1>3. 0 \in T
  <2>1. ASSUME NEW k \in DOMAIN Macros
        PROVE  Raises(Inlined[MaxDepth][k]) <=> NestsDeep(k, 0 + 1)
    <3>1. MaxDepth \in 0..MaxDepth
      BY <1>1
    <3>2. Raises(Inlined[MaxDepth][k]) <=> \E j \in DOMAIN Macros : Nests(k, j)
      BY <1>2, <3>1
    <3>3. NestsDeep(k, 0 + 1) <=> \E j \in DOMAIN Macros : Nests(k, j) /\ NestsDeep(j, 0)
      BY ChainFacts
    <3>4. \A j \in DOMAIN Macros : NestsDeep(j, 0)
      BY ChainFacts
    <3>5. QED
      BY <3>2, <3>3, <3>4
  <2>2. MaxDepth - 0 = MaxDepth
    BY <1>1
  <2>3. QED
    BY <2>1, <2>2
<1>4. ASSUME NEW n \in Nat, n \in T
      PROVE  n + 1 \in T
  <2>1. SUFFICES ASSUME n + 1 <= MaxDepth PROVE Fits(n + 1, MaxDepth - (n + 1))
    OBVIOUS
  <2>2. PICK d \in 0..MaxDepth :
          d = MaxDepth - (n + 1) /\ d + 1 = MaxDepth - n /\ d # MaxDepth
    BY <1>1, <2>1
  <2>3. \A j \in DOMAIN Macros : Raises(Inlined[d + 1][j]) <=> NestsDeep(j, n + 1)
    BY <1>1, <1>4, <2>1, <2>2
  <2>4. ASSUME NEW k \in DOMAIN Macros
        PROVE  Raises(Inlined[d][k]) <=> NestsDeep(k, (n + 1) + 1)
    <3>1. Raises(Inlined[d][k]) <=>
            \E j \in DOMAIN Macros : Nests(k, j) /\ Raises(Inlined[d + 1][j])
      BY <1>2, <2>2
    <3>2. n + 1 \in Nat
      OBVIOUS
    <3>3. NestsDeep(k, (n + 1) + 1) <=>
            \E j \in DOMAIN Macros : Nests(k, j) /\ NestsDeep(j, n + 1)
      BY <3>2, ChainFacts
    <3>4. QED
      BY <2>3, <3>1, <3>3
  <2>5. QED
    BY <2>2, <2>4
<1> HIDE DEF T
<1>5. MaxDepth \in T
  BY <1>1, <1>3, <1>4, SetInduction
<1>6. Fits(MaxDepth, MaxDepth - MaxDepth)
  BY <1>1, <1>5 DEF T
<1>7. MaxDepth - MaxDepth = 0
  BY <1>1
<1>8. QED
  BY <1>6, <1>7 DEF TooDeep

-----------------------------------------------------------------------------
\* What compile and the generators make of the steps that parse_step accepts
\* are operations as the engine assumes them.
THEOREM CompiledIsTyped == Compiled \in [DOMAIN Macros -> Seq(Operation)]
<1>1. 0 \in 0..MaxDepth
  BY DepthAssumption
<1>2. Inlined[0] = [m \in DOMAIN Macros |-> MacroOps(m, 0, Inlined[0 + 1])]
  BY <1>1, InlinedDef
<1>3. \A m \in DOMAIN Macros : Inlined[0][m] \in Seq(Operation)
  BY <1>1, InlinedFacts
<1>4. QED
  BY <1>2, <1>3 DEF Compiled

\* A key that the operations of a macro leave down, nested macros included, is
\* one that some list of steps presses and does not release.
LEMMA LeftIsMeant ==
  ASSUME NEW m \in Macro
  PROVE  /\ \A x \in Keys : x \in KeysLeft(m) => x \in PressedForGood
         /\ \A x \in Buttons : x \in ButtonsLeft(m) => x \in DownForGood
<1>1. PICK ops : ops = Ops[m]
  OBVIOUS
<1>2. ops \in Seq(Operation) /\ Meant(ops)
  <2>1. 0 \in 0..MaxDepth
    BY DepthAssumption
  <2>2. m \in DOMAIN Macros /\ ops = Inlined[0][m]
    BY <1>1, CompiledAssumption DEF Compiled
  <2>3. QED
    BY <2>1, <2>2, InlinedFacts
<1>3. /\ DOMAIN ops = 1..Len(ops) /\ Len(ops) \in Nat
      /\ \A i \in 1..Len(ops) : ops[i] \in Operation
  BY <1>2
<1>4. ASSUME NEW x \in Keys, x \in KeysLeft(m)
      PROVE  x \in PressedForGood
  <2>1. PICK i \in 1..Len(ops) :
          ops[i].do = "press" /\ x \in ops[i].what /\ x \notin KeysUpFrom(m, i + 1)
    BY <1>1, <1>3, <1>4 DEF KeysLeft
  <2>2. ASSUME NEW j \in (i + 1)..Len(ops)
        PROVE  ops[j] \notin KeyUp(x)
    <3>1. j \in DOMAIN ops /\ j >= i + 1
      BY <1>3
    <3>2. x \notin KeysUp(ops[j])
      BY <1>1, <2>1, <3>1 DEF KeysUpFrom
    <3>3. QED
      BY <3>2 DEF KeyUp
  <2>3. ops[i] \in KeyDown(x)
    BY <1>3, <2>1 DEF KeyDown
  <2>4. Stands(ops, KeyDown(x), KeyUp(x))
    BY <2>2, <2>3 DEF Stands
  <2>5. QED
    BY <1>2, <2>4 DEF Meant
<1>5. ASSUME NEW x \in Buttons, x \in ButtonsLeft(m)
      PROVE  x \in DownForGood
  <2>1. PICK i \in 1..Len(ops) :
          ops[i].do = "down" /\ x \in ops[i].what /\ x \notin ButtonsUpFrom(m, i + 1)
    BY <1>1, <1>3, <1>5 DEF ButtonsLeft
  <2>2. ASSUME NEW j \in (i + 1)..Len(ops)
        PROVE  ops[j] \notin ButtonUp(x)
    <3>1. j \in DOMAIN ops /\ j >= i + 1
      BY <1>3
    <3>2. x \notin ButtonsUp(ops[j])
      BY <1>1, <2>1, <3>1 DEF ButtonsUpFrom
    <3>3. QED
      BY <3>2 DEF ButtonUp
  <2>3. ops[i] \in ButtonDown(x)
    BY <1>3, <2>1 DEF ButtonDown
  <2>4. Stands(ops, ButtonDown(x), ButtonUp(x))
    BY <2>2, <2>3 DEF Stands
  <2>5. QED
    BY <1>2, <2>4 DEF Meant
<1>6. QED
  BY <1>4, <1>5

\* With no task left nothing is held but what a `press' or `mouse down' without
\* a release left down: whatever the macros, however deep they nest, and however
\* their runs overlap, break off or are released from outside.
THEOREM NothingStuckCorrect == Spec => []NothingStuck
<1>1. TypeOK /\ HeldIsOwned => NothingStuck
  <2>1. SUFFICES ASSUME TypeOK, HeldIsOwned, queue = <<>>, lost = <<>>
                 PROVE  pressed \subseteq PressedForGood /\ buttons \subseteq DownForGood
    BY DEF NothingStuck
  <2>2. Pending = {}
    BY <2>1 DEF Pending
  <2>3. pressed \subseteq Keys /\ buttons \subseteq Buttons
    BY <2>1 DEF TypeOK
  <2>4. ASSUME NEW x \in pressed
        PROVE  x \in PressedForGood
    <3>1. \E m \in Macro : x \in KeysLeft(m)
      BY <2>1, <2>2 DEF HeldIsOwned, KeysAreOwned
    <3>2. QED
      BY <2>3, <3>1, LeftIsMeant
  <2>5. ASSUME NEW x \in buttons
        PROVE  x \in DownForGood
    <3>1. \E m \in Macro : x \in ButtonsLeft(m)
      BY <2>1, <2>2 DEF HeldIsOwned, ButtonsAreOwned
    <3>2. QED
      BY <2>3, <3>1, LeftIsMeant
  <2>6. QED
    BY <2>4, <2>5
<1>2. QED
  BY <1>1, TypeCorrect, HeldCorrect, PTL

-----------------------------------------------------------------------------
(***************************************************************************)
(* The limit of the depth.                                                 *)
(***************************************************************************)
\* The operations of task before the next do not raise.
NotRaised(task) ==
  \A j \in 1..(task.at - 1) : Ops[task.macro][j].do # "raise"

\* A task that is waiting has met no `raise' yet.
NothingRaised == \A task \in TasksOf(queue) : NotRaised(task)

LEMMA DeepMeans ==
  ASSUME NEW m \in Macro
  PROVE  m \in TooDeep <=> \E i \in 1..Len(Ops[m]) : Ops[m][i].do = "raise"
<1>1. m \in DOMAIN Macros /\ Ops[m] = Inlined[0][m]
  BY CompiledAssumption DEF Compiled
<1>2. Raises(Ops[m]) <=> m \in TooDeep
  BY <1>1, RaiseIsDeep
<1>3. Ops[m] \in Seq(Operation)
  BY OpsAssumption
<1>4. QED
  BY <1>2, <1>3, RaisesFacts

\* What has been advanced goes on without having raised, and a task fails or
\* completes as its macro nests.
LEMMA StepKeepsLimit ==
  ASSUME Counted, NEW task \in Task, NotRaised(task),
         NEW rest \in Seq(QEntry), Sorted(rest), NEW live,
         \A other \in TasksOf(rest) : NotRaised(other),
         Steps(task, rest, live)
  PROVE  /\ NothingRaised'
         /\ failed' # failed => task.macro \in TooDeep
         /\ completed' # completed => task.macro \notin TooDeep
<1>1. /\ task.macro \in Macro /\ task.at \in Nat \ {0}
      /\ task.at <= Len(Ops[task.macro]) + 1
      /\ Len(Ops[task.macro]) \in Nat
  BY OpsAssumption DEF Task
<1>2. CASE Finish(task, rest, live)
  <2>1. task.at - 1 = Len(Ops[task.macro])
    BY <1>1, <1>2 DEF Finish, AtEnd
  <2>2. \A j \in 1..Len(Ops[task.macro]) : Ops[task.macro][j].do # "raise"
    BY <2>1 DEF NotRaised
  <2>3. task.macro \notin TooDeep
    BY <1>1, <2>2, DeepMeans
  <2>4. queue' = rest /\ failed' = failed
    BY <1>2 DEF Finish
  <2>5. NothingRaised'
    BY <2>4 DEF NothingRaised, NotRaised
  <2>6. QED
    BY <2>3, <2>4, <2>5
<1>3. CASE Abort(task, rest, live)
  <2>1. /\ task.at \in 1..Len(Ops[task.macro])
        /\ Ops[task.macro][task.at].do = "raise"
    BY <1>1, <1>3 DEF Abort, AtEnd, NextOp
  <2>2. task.macro \in TooDeep
    BY <1>1, <2>1, DeepMeans
  <2>3. queue' = rest /\ completed' = completed
    BY <1>3 DEF Abort
  <2>4. NothingRaised'
    BY <2>3 DEF NothingRaised, NotRaised
  <2>5. QED
    BY <2>2, <2>3, <2>4
<1>4. CASE Yield(task, rest, live)
  <2>1. /\ ~AtEnd(task) /\ NextOp(task).do # "raise"
        /\ completed' = completed /\ failed' = failed
    BY <1>4 DEF Yield
  <2>2. PICK ticks \in NextOp(task).delays :
          queue' \in Pushed(rest, Entry(Advanced(task), ticks))
    BY <1>4 DEF Yield
  <2>3. /\ NextOp(task) \in Operation /\ Advanced(task) \in Task
        /\ NextOp(task) = Ops[task.macro][task.at]
        /\ Advanced(task).macro = task.macro
        /\ Advanced(task).at = task.at + 1
    BY <2>1, OpFacts
  <2>4. ticks \in Nat
    BY <2>2, <2>3 DEF Operation
  <2>5. /\ Entry(Advanced(task), ticks) \in QEntry
        /\ Entry(Advanced(task), ticks).task = Advanced(task)
    BY <2>3, <2>4 DEF Entry, QEntry
  <2>6. TasksOf(queue') = TasksOf(rest) \cup {Advanced(task)}
    BY <2>2, <2>5, PushedFacts
  <2>7. NotRaised(Advanced(task))
    <3>1. SUFFICES ASSUME NEW j \in 1..task.at
                   PROVE  Ops[task.macro][j].do # "raise"
      BY <1>1, <2>3 DEF NotRaised
    <3>2. j = task.at \/ j \in 1..(task.at - 1)
      BY <1>1
    <3>3. QED
      BY <2>1, <2>3, <3>2 DEF NotRaised
  <2>8. NothingRaised'
    BY <2>6, <2>7 DEF NothingRaised, NotRaised
  <2>9. QED
    BY <2>1, <2>8
<1>5. CASE Break(task, rest, live)
  <2>1. queue' = rest /\ completed' = completed /\ failed' = failed
    BY <1>5 DEF Break
  <2>2. NothingRaised'
    BY <2>1 DEF NothingRaised, NotRaised
  <2>3. QED
    BY <2>1, <2>2
<1>6. QED
  BY <1>2, <1>3, <1>4, <1>5 DEF Steps, Advance

\* A task that starts has no operation behind it.
LEMMA StartKeepsLimit ==
  ASSUME Counted, NothingRaised, NEW m \in Macro, Start(m) \/ StartBreaks(m)
  PROVE  /\ NothingRaised'
         /\ failed' # failed => m \in TooDeep
         /\ completed' # completed => m \notin TooDeep
<1>1. queue \in Seq(QEntry) /\ Sorted(queue)
  BY DEF Counted, TypeOK, QEntry
<1>2. Steps(NewTask(m), queue, running + 1) /\ NewTask(m) \in Task
  BY NewTaskFacts DEF Start, StartBreaks, Steps
<1>3. NewTask(m).macro = m /\ NotRaised(NewTask(m))
  BY DEF NewTask, NotRaised
<1>4. \A other \in TasksOf(queue) : NotRaised(other)
  BY DEF NothingRaised
<1>5. PICK task \in Task : task = NewTask(m)
  BY <1>2
<1>6. PICK live : live = running + 1
  OBVIOUS
<1>7. Steps(task, queue, live) /\ task.macro = m /\ NotRaised(task)
  BY <1>2, <1>3, <1>5, <1>6
<1>8. QED
  BY <1>1, <1>4, <1>7, StepKeepsLimit

LEMMA RunDueKeepsLimit ==
  ASSUME Counted, NothingRaised, RunDue
  PROVE  /\ NothingRaised'
         /\ failed' # failed => Head(queue).task.macro \in TooDeep
         /\ completed' # completed => Head(queue).task.macro \notin TooDeep
<1>1. queue \in Seq(QEntry) /\ Sorted(queue)
  BY DEF Counted, TypeOK, QEntry
<1>2. queue # <<>> /\ Steps(Head(queue).task, Tail(queue), running)
  BY DEF RunDue, IsDue, Steps
<1>3. /\ Head(queue).task \in Task
      /\ Tail(queue) \in Seq(QEntry) /\ Sorted(Tail(queue))
      /\ TasksOf(queue) = TasksOf(Tail(queue)) \cup {Head(queue).task}
  BY <1>1, <1>2, PoppedFacts
<1>4. PICK task \in Task : task = Head(queue).task
  BY <1>3
<1>5. PICK rest \in Seq(QEntry) : rest = Tail(queue)
  BY <1>3
<1>6. /\ Steps(task, rest, running) /\ Sorted(rest)
      /\ TasksOf(queue) = TasksOf(rest) \cup {task}
  BY <1>2, <1>3, <1>4, <1>5
<1>7. NotRaised(task) /\ \A other \in TasksOf(rest) : NotRaised(other)
  BY <1>6 DEF NothingRaised
<1>8. /\ NothingRaised'
      /\ failed' # failed => task.macro \in TooDeep
      /\ completed' # completed => task.macro \notin TooDeep
  BY <1>6, <1>7, StepKeepsLimit
<1>9. QED
  BY <1>4, <1>8

LEMMA NextNothingRaised ==
  ASSUME Counted, NothingRaised, [Next]_vars
  PROVE  NothingRaised'
<1>1. ASSUME NEW m \in Macro, Start(m) \/ StartBreaks(m)
      PROVE  NothingRaised'
  BY <1>1, StartKeepsLimit
<1>2. CASE RunDue
  BY <1>2, RunDueKeepsLimit
<1>3. CASE Shutdown
  BY <1>3 DEF Shutdown, NothingRaised, TasksOf
<1>4. CASE ReleaseAll \/ UNCHANGED vars
  BY <1>4 DEF ReleaseAll, vars, NothingRaised, NotRaised, TasksOf
<1>5. CASE Tick
  <2>1. TasksOf(queue') = TasksOf(queue)
    BY <1>5, TickFacts
  <2>2. QED
    BY <2>1 DEF NothingRaised, NotRaised
<1>6. QED
  BY <1>1, <1>2, <1>3, <1>4, <1>5 DEF Next

\* A run of a macro fails if and only if the macro nests deeper than MaxDepth: for
\* any macros that parse_step accepts, also those that nest themselves, and for
\* any number of them that run at the same time.
THEOREM LimitKept == Spec => LimitIsKept
<1>1. Init => Counted /\ NothingRaised
  BY InitCounted DEF Init, NothingRaised, TasksOf
<1>2. Counted /\ NothingRaised /\ [Next]_vars => (Counted /\ NothingRaised)'
  BY NextCounted, NextNothingRaised
<1>3. Counted /\ NothingRaised /\ [Next]_vars =>
        [\A m \in Macro :
           /\ failed' # failed /\ Advances(m) => m \in TooDeep
           /\ completed' # completed /\ Advances(m) => m \notin TooDeep]_vars
  <2>1. SUFFICES ASSUME Counted, NothingRaised, NEW m \in Macro, Advances(m)
                 PROVE  /\ failed' # failed => m \in TooDeep
                        /\ completed' # completed => m \notin TooDeep
    OBVIOUS
  <2>2. CASE Start(m)
    BY <2>1, <2>2, StartKeepsLimit
  <2>3. CASE RunDue /\ Head(queue).task.macro = m
    BY <2>1, <2>3, RunDueKeepsLimit
  <2>4. QED
    BY <2>1, <2>2, <2>3 DEF Advances
<1>4. QED
  BY <1>1, <1>2, <1>3, PTL DEF Spec, LimitIsKept

=============================================================================
