----------------------------- MODULE MCKeyboard -----------------------------
(***************************************************************************)
(* Small instances of Keyboard for TLC (the constants are in the .cfg      *)
(* files), and what the documentation says of the keyboard path that the   *)
(* code does not do.  With one key slot, the plain keys 4 and 5 together   *)
(* are a roll-over.                                                        *)
(***************************************************************************)
EXTENDS Keyboard

\* bridge.py:715: shutdown() waits for the host to release what was held, so
\* that a restart never leaves a key down; it is done when that is accepted.
ReleasedAtStop == mode = "down" => HostNext = KeyboardIdleReport

=============================================================================
