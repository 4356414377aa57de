--------------------------- MODULE MCMacroEngine ---------------------------
(***************************************************************************)
(* A small instance of MacroRuns for TLC (MacroEngine.cfg): the engine     *)
(* with what parse_step makes of                                           *)
(*   chord = ["ctrl+x"]                                                    *)
(*   hold  = ["press ctrl", "wait 1", "tap x", "release ctrl"]             *)
(*   loop  = ["press x", "macro loop"]                                     *)
(*   drag  = ["mouse down left", "type Xe'", "release all"]                *)
(*   outer = ["macro click", "press alt"]                                  *)
(*   top   = ["macro outer"]                                               *)
(*   click = ["mouse click left 2"]                                        *)
(* where X needs ctrl, and the layout has no e'.                           *)
(***************************************************************************)
EXTENDS MacroRuns

Step(kind, arg) == [kind |-> kind, arg |-> arg]

MCMacros ==
  [chord |-> <<Step("tap", {"ctrl", "x"})>>,
   hold  |-> <<Step("press", {"ctrl"}), Step("wait", 1), Step("tap", {"x"}),
               Step("release", {"ctrl"})>>,
   loop  |-> <<Step("press", {"x"}), Step("macro", "loop")>>,
   drag  |-> <<Step("down", {"left"}), Step("type", <<{"ctrl", "x"}, {}>>),
               Step("release_all", {})>>,
   outer |-> <<Step("macro", "click"), Step("press", {"alt"})>>,
   top   |-> <<Step("macro", "outer")>>,
   click |-> <<Step("mouse_click", [button |-> {"left"}, count |-> 2])>>]

MCMacro == DOMAIN Macros

MCOps == Compiled

=============================================================================
