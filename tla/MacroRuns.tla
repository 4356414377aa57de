------------------------------ MODULE MacroRuns ------------------------------
(***************************************************************************)
(* The engine (MacroEngine) running the operations that are made of the    *)
(* steps of macros (MacroSteps): what it leaves held at the host when all  *)
(* its tasks have ended, and which of them fail.                           *)
(***************************************************************************)
EXTENDS MacroEngine, MacroSteps

\* What parse_step lets a step be.  `validate' has it parse every step of every
\* macro of the configuration, and a control request has it parse its own.
IsStep(step) ==
  /\ step.kind \in {"tap", "press", "release", "release_all", "type", "wait",
                    "mouse_move", "mouse_to", "mouse_wheel", "mouse_click",
                    "down", "up", "macro"}
  /\ step.kind \in {"tap", "press", "release"} =>
       step.arg \in SUBSET Keys \ {{}}
  /\ step.kind = "type" => step.arg \in Seq(SUBSET Keys)
  /\ step.kind = "wait" => step.arg \in Nat
  /\ step.kind = "mouse_click" =>
       /\ \E button \in Buttons : step.arg.button = {button}
       /\ step.arg.count \in Nat \ {0}
  /\ step.kind \in {"down", "up"} => \E button \in Buttons : step.arg = {button}
  /\ step.kind = "macro" => step.arg \in DOMAIN Macros
  /\ step.kind \in {"release_all", "mouse_move", "mouse_to", "mouse_wheel"} =>
       step.arg = {}

ASSUME MacrosAssumption ==
  \A m \in DOMAIN Macros :
    /\ Macros[m] \in Seq(ToSet(Macros[m]))
    /\ \A i \in DOMAIN Macros[m] : IsStep(Macros[m][i])

ASSUME CompiledAssumption == Macro = DOMAIN Macros /\ Ops = Compiled

-----------------------------------------------------------------------------
\* The steps of macro m that hold something with no `release all' after them,
\* and those after step i that release it.
HoldSteps(m, kind) ==
  { i \in DOMAIN Macros[m] :
      /\ Macros[m][i].kind = kind
      /\ \A j \in DOMAIN Macros[m] : j > i => Macros[m][j].kind # "release_all" }

Releases(m, i, kind) ==
  { j \in DOMAIN Macros[m] : j > i /\ Macros[m][j].kind = kind }

\* The keys that some list of steps presses and never releases again, and the
\* buttons.
PressedForGood ==
  UNION { UNION { Macros[m][i].arg \
                    UNION { Macros[m][j].arg : j \in Releases(m, i, "release") } :
                  i \in HoldSteps(m, "press") } : m \in DOMAIN Macros }

DownForGood ==
  UNION { UNION { Macros[m][i].arg \
                    UNION { Macros[m][j].arg : j \in Releases(m, i, "up") } :
                  i \in HoldSteps(m, "down") } : m \in DOMAIN Macros }

\* With no task left nothing is held but what a `press' or `mouse down' without
\* a release left down, or what a task held that an error took out of the queue:
\* taps, clicks and typed text end with everything up, also when they overlap.
NothingStuck ==
  queue = <<>> /\ lost = <<>> =>
    pressed \subseteq PressedForGood /\ buttons \subseteq DownForGood

-----------------------------------------------------------------------------
Nests(m, n) ==
  \E i \in DOMAIN Macros[m] :
    Macros[m][i].kind = "macro" /\ Macros[m][i].arg = n

\* A chain of macros of which each nests the next, from m to the n-th after it.
NestsDeep(m, n) ==
  \E c \in [0..n -> DOMAIN Macros] :
    c[0] = m /\ \A i \in 0..(n - 1) : Nests(c[i], c[i + 1])

TooDeep == { m \in DOMAIN Macros : NestsDeep(m, MaxDepth + 1) }

\* The task that this step advances is one of macro m.
Advances(m) == Start(m) \/ (RunDue /\ Head(queue).task.macro = m)

\* A macro that nests at most MaxDepth macros deep never fails, and one that nests
\* deeper, itself perhaps, never completes: whatever comes before the nesting,
\* and whatever else runs.
LimitIsKept ==
  [][\A m \in Macro :
       /\ failed' # failed /\ Advances(m) => m \in TooDeep
       /\ completed' # completed /\ Advances(m) => m \notin TooDeep]_vars

=============================================================================
