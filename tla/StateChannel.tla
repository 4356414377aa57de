---------------------------- MODULE StateChannel ----------------------------
(***************************************************************************)
(* What a keyboard, or the buttons of a mouse, promise the host, without   *)
(* queue, device or kernel: the states they go through reach the host one  *)
(* at a time and in order.  The backlog is bounded and gives up its oldest *)
(* states.  A state that would tell the host nothing new may be left out.  *)
(* A host that goes away forgets the device; one that comes back at once   *)
(* may find a device that has not noticed, and does not know what the host *)
(* has.  The device is switched off once, and for good; until then nothing *)
(* takes back a state but those three: a backlog that is full, a host that *)
(* is away, and a host the device is mistaken about.                       *)
(*                                                                         *)
(* Keyboard!InOrder and Mouse!ButtonsInOrder are this specification.       *)
(***************************************************************************)
EXTENDS Naturals, Sequences, SequencesExt

CONSTANTS
  State,     \* what the device may say
  Idle,      \* nothing is held; a member of State
  Capacity,  \* the length of the backlog, at least 1
  Repeats    \* may a host be told what it is about to know?

VARIABLES
  backlog,  \* states on their way to the host, oldest first
  seen,     \* the state the host has
  up,       \* is the host there?
  power,    \* "on", switched off with a last word to say ("releasing"), "off"
  aware     \* does the device know what the host has?

\* Not `aware': whether the device is mistaken is not the channel's choice.
vars == <<backlog, seen, up, power>>

\* What the host has, followed by what it is going to have.
Course == <<seen>> \o backlog

Init ==
  /\ backlog = <<>>
  /\ seen = Idle
  /\ up \in BOOLEAN
  /\ power = "on"

\* A new state.  A host that is there, and known, is not told again what it is
\* about to know.  A full backlog gives up its oldest state, or the one after it when
\* the oldest can no longer be taken back.
Offer(s) ==
  /\ power = "on"
  /\ up /\ aware /\ ~Repeats => s # Last(Course)
  /\ \/ /\ Len(backlog) < Capacity
        /\ backlog' = Append(backlog, s)
     \/ \E i \in {1, 2} :
          /\ Len(backlog) >= Capacity - 2 + i /\ i <= Len(backlog)
          /\ backlog' = Append(RemoveAt(backlog, i), s)
  /\ UNCHANGED <<seen, up, power>>

Deliver ==
  /\ up /\ backlog # <<>>
  /\ seen' = Head(backlog)
  /\ backlog' = Tail(backlog)
  /\ UNCHANGED <<up, power>>

\* A state equal to the one before it.
LeaveOut ==
  /\ \E i \in 1..Len(backlog) :
       Course[i] = backlog[i] /\ backlog' = RemoveAt(backlog, i)
  /\ UNCHANGED <<seen, up, power>>

\* Without a host, or mistaken about it, a state may be lost.
Lose ==
  /\ ~(up /\ aware) /\ backlog # <<>>
  /\ backlog' = Tail(backlog)
  /\ UNCHANGED <<seen, up, power>>

\* The host goes away, and the state being handed over is lost with it.
Disconnect ==
  /\ up' = FALSE
  /\ seen' = Idle
  /\ backlog' = backlog \/ (backlog # <<>> /\ backlog' = Tail(backlog))
  /\ UNCHANGED power

Connect ==
  /\ ~up /\ up'
  /\ UNCHANGED <<backlog, seen, power>>

\* The device is switched off: only what is being handed over remains.
SwitchOff ==
  /\ power = "on" /\ power' \in {"releasing", "off"}
  /\ \E n \in {0, 1} : n <= Len(backlog) /\ backlog' = SubSeq(backlog, 1, n)
  /\ UNCHANGED <<seen, up>>

\* The last thing it says is that nothing is held, needed or not ...
Release ==
  /\ power = "releasing" /\ power' = "off"
  /\ backlog = <<>>
  /\ backlog' = <<Idle>>
  /\ UNCHANGED <<seen, up>>

\* ... unless the host will not take it in time, or has nothing to learn from it.
GiveUp ==
  /\ power = "releasing" /\ power' = "off"
  /\ UNCHANGED <<backlog, seen, up>>

Next ==
  \/ \E s \in State : Offer(s)
  \/ Deliver \/ LeaveOut \/ Lose \/ Disconnect \/ Connect
  \/ SwitchOff \/ Release \/ GiveUp

Spec == Init /\ [][Next]_vars

=============================================================================
