----------------------------- MODULE MacroSteps -----------------------------
(***************************************************************************)
(* What a macro does (src/hid_bridge/macros.py): its steps as operations,  *)
(* each with the delay that the generator yields after it.  MacroEngine    *)
(* takes the operations of each macro as a constant; MacroRuns gives it    *)
(* the ones made here.                                                     *)
(***************************************************************************)
EXTENDS Naturals, Sequences, SequencesExt

CONSTANTS
  Macros,     \* the steps of each macro: what parse_step makes of its lines
  Modifiers,  \* the keys that are modifiers
  Lead,       \* ticks of a modifier's lead, with every jitter
  Tap,        \* ticks a tap is held
  Gap,        \* ticks after a step
  MaxDepth    \* MAX_DEPTH

ASSUME DelaysAssumption ==
  Lead \subseteq Nat /\ Tap \subseteq Nat /\ Gap \subseteq Nat
ASSUME DepthAssumption == MaxDepth \in Nat

Op(do, what, delays) == [do |-> do, what |-> what, delays |-> delays]

\* Mutant of TapOps: the modifiers stay down.
TapOpsSticky(keys) ==
  LET mods == keys \cap Modifiers
      plain == keys \ Modifiers
  IN  <<Op("press", mods, Lead), Op("press", plain, Tap),
        Op("release", plain, Gap)>>

\* _tap and the gap after it: modifiers go down before the key and come up
\* after it.
TapOps(keys) ==
  LET mods == keys \cap Modifiers
      plain == keys \ Modifiers
  IN  IF mods # {} /\ plain # {}
      THEN <<Op("press", mods, Lead), Op("press", plain, Tap),
             Op("release", plain, Lead), Op("release", mods, Gap)>>
      ELSE <<Op("press", keys, Tap), Op("release", keys, Gap)>>

ClickOps(click) ==
  FlattenSeq([i \in 1..click.count |->
    <<Op("down", click.button, Tap), Op("up", click.button, Gap)>>])

\* A character the layout does not have is skipped: {} in the text.
TypeOps(text) ==
  FlattenSeq([i \in DOMAIN text |->
    IF text[i] = {} THEN <<>> ELSE TapOps(text[i])])

\* The operations of a step other than a nested macro.
StepOps(step) ==
  CASE step.kind = "tap"         -> TapOps(step.arg)
    [] step.kind = "type"        -> TypeOps(step.arg)
    [] step.kind = "mouse_click" -> ClickOps(step.arg)
    [] step.kind = "wait"        -> <<Op("wait", {}, {step.arg})>>
    [] OTHER                     -> <<Op(step.kind, step.arg, Gap)>>

Raise == Op("raise", {}, {})

\* Mutant of Piece: the limit is one too low.
PieceTooEarly(step, depth, deeper) ==
  IF step.kind # "macro"        THEN StepOps(step)
  ELSE IF depth + 1 >= MaxDepth THEN <<Raise>>
  ELSE deeper[step.arg]

\* A nested macro runs inline, with a task of its own one level deeper:
\* `deeper' has the operations of the macros there.
Piece(step, depth, deeper) ==
  IF step.kind # "macro"    THEN StepOps(step)
  ELSE IF depth >= MaxDepth THEN <<Raise>>
  ELSE deeper[step.arg]

MacroOps(m, depth, deeper) ==
  FlattenSeq([i \in DOMAIN Macros[m] |-> Piece(Macros[m][i], depth, deeper)])

Inlined[depth \in 0..MaxDepth] ==
  [m \in DOMAIN Macros |-> MacroOps(m, depth, Inlined[depth + 1])]

\* compile, and the generators made of it.
Compiled == Inlined[0]

=============================================================================
