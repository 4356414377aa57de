------------------------------ MODULE MCMouse ------------------------------
(***************************************************************************)
(* Small instances of Mouse for TLC (the constants are in the .cfg files), *)
(* and what the documentation says of the mouse path that the code does    *)
(* not do.                                                                 *)
(***************************************************************************)
EXTENDS Mouse

\* Backwards, and more than a report holds (MouseSafety; the others go forwards).
Backwards == {-2, 0}

\* docs/macros.md:22 and README.md:119: motion beyond what a report holds is
\* delivered in further reports, one per host poll.  It is given up for a
\* host that is away, asleep, or has stopped collecting.
MotionIsSplit ==
  [][PumpDefers /\ blocked # "stale" /\ motion' # motion => bus # "configured"]_vars

\* bridge.py:238: the mouse keeps silent when there is nothing to move: the
\* pointer is where it started, or where the host has it.
StillWhenSilent ==
  [][PumpIsSilent /\ dirty => pos \in {Centre, host.pos}]_vars

=============================================================================
