--------------------------- MODULE MCInputSources ---------------------------
(***************************************************************************)
(* Small instances of InputSources for TLC: a keyboard, a macro pad, and a *)
(* device that is neither keyboard nor mouse, on the same nodes.           *)
(***************************************************************************)
EXTENDS InputSources

CONSTANTS kbd, pad, box

MCCodesOf == kbd :> {"a", "left"} @@ pad :> {"a", "f13"} @@ box :> {}

MCRule ==
  [d \in {kbd, pad, box} |->
    [role     |-> IF d = pad THEN "macro" ELSE "passthrough",
     unbound  |-> "passthrough",
     bindings |-> IF d = pad THEN {"f13"} ELSE {}]]

=============================================================================
