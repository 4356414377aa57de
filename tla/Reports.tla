------------------------------ MODULE Reports ------------------------------
(***************************************************************************)
(* HID input reports of the bridge: src/hid_bridge/reports.py.             *)
(*                                                                         *)
(* A boot keyboard report is a modifier byte and an array of key slots.    *)
(* The host reads both as sets (the order of the slots means nothing), so  *)
(* a report is a record of two sets of usages.                             *)
(***************************************************************************)
EXTENDS Integers, FiniteSets

CONSTANTS
  Slots,      \* key slots of a report (6 in the code)
  MaxUsage    \* last array usage of the active descriptor (0x65 or 0xFF)

ASSUME SlotsAssumption == Slots \in Nat \ {0}
ASSUME MaxUsageAssumption == MaxUsage \in Nat \ (0..3)

Usage == 0..255

\* is_modifier
IsModifier(usage) == usage \in 224..231

ErrorRollOver == 1

KeyboardReport(usages) ==
  LET keys == { u \in usages : ~IsModifier(u) /\ u \in 4..MaxUsage }
  IN  [ mods |-> { u \in usages : IsModifier(u) },
        keys |-> IF Cardinality(keys) > Slots THEN {ErrorRollOver} ELSE keys ]

KeyboardIdleReport == [ mods |-> {}, keys |-> {} ]

KeyReport == [ mods : SUBSET Usage, keys : SUBSET Usage ]

(***************************************************************************)
(* Clamping, used for every motion counter.                                *)
(***************************************************************************)
Clamp(value, low, high) ==
  IF value < low THEN low ELSE IF value > high THEN high ELSE value

=============================================================================
