---------------------------- MODULE InputSources ----------------------------
(***************************************************************************)
(* The input sources (src/hid_bridge/bridge.py, linux_input.py): nodes in  *)
(* /dev/input that come and go, the rescan that attaches them, the events  *)
(* the kernel buffers for each attached one, SYN_DROPPED, and the lock     *)
(* LEDs.  What the sources hold is merged and told to the two paths        *)
(* (Keyboard, Mouse); `told' is what they were told last.                  *)
(*                                                                         *)
(* A frame is one EV_KEY event and its SYN_REPORT.  _process reads all     *)
(* frames there are into a batch and goes through it; only users, the      *)
(* kernel and the host move in between.                                    *)
(***************************************************************************)
EXTENDS Naturals, Sequences, SequencesExt

CONSTANTS
  None,        \* no device, no source
  Paths,       \* /dev/input/eventN
  Devices,     \* what may be plugged in
  Codes,       \* keys and buttons
  Buttons,     \* the codes from BTN_MOUSE on
  CodesOf,     \* the codes a device has
  Rule,        \* the rule of the configuration that matches a device
  Pointers,    \* devices that are a mouse, keyboards or not
  PipeMax,     \* frames the kernel buffers for a reader
  OpenFails    \* may opening a node fail?

Role == {"passthrough", "macro", "ignore"}

ASSUME CodesAssumption ==
  Buttons \subseteq Codes /\ CodesOf \in [Devices -> SUBSET Codes]
ASSUME RuleAssumption ==
  Rule \in [Devices -> [role     : Role,
                        unbound  : {"drop", "passthrough"},
                        bindings : SUBSET Codes]]
ASSUME PointersAssumption == Pointers \subseteq Devices
ASSUME PipeMaxAssumption == PipeMax \in Nat \ {0}
ASSUME OpenFailsAssumption == OpenFails \in BOOLEAN
ASSUME NoneAssumption ==
  /\ None \notin Devices \cup Paths
  /\ None \notin [dev : Devices, live : BOOLEAN]

VARIABLES
  node,      \* the device at a path
  held,      \* the codes that are down on a device
  lit,       \* are the lock LEDs of a device on?
  source,    \* Bridge.by_path: the source of a path, and whether its device
             \* is still there
  pressed,   \* Source.pressed and Source.buttons
  pipe,      \* the frames the kernel has buffered for a source
  ignored,   \* Bridge.ignored: "no", "yes", or "stale": a verdict on a
             \* device that has left the path
  retry,     \* is the path in Bridge.retry_after, and the time not come?
  judging,   \* the device a rescan has opened at a path and is to ignore
  told,      \* the merged codes the two paths were told last
  leds,      \* Bridge.leds: did the host switch them on?
  reading,   \* the path whose events _process goes through, or None
  batch,     \* the rest of those events
  misjudged, \* history: paths whose device came after the rescan had opened
             \* the one before it, and before it asked for the inode
  moved,     \* history: codes that moved between the read that returned
             \* SYN_DROPPED and the ioctl that answers it
  unsure     \* history: codes of a source that were down when it was attached,
             \* or that release_all made the bridge forget, or for which an
             \* event older than the ioctl was applied after it

nodes == <<node, held, lit>>
scan == <<ignored, retry, judging, misjudged>>
reader == <<reading, batch, moved>>
vars == <<node, held, lit, source, pressed, pipe, ignored, retry, judging,
          misjudged, told, leds, reading, batch, moved, unsure>>

-----------------------------------------------------------------------------
(***************************************************************************)
(* Devices and their rules.                                                *)
(***************************************************************************)
\* InputDevice.is_keyboard: any ordinary key will do.
IsKeyboard(d) == CodesOf[d] \ Buttons # {}

IsMouse(d) == d \in Pointers

Usable(d) == Rule[d].role # "ignore" /\ (IsKeyboard(d) \/ IsMouse(d))

DropsUnbound(d) == Rule[d].role = "macro" /\ Rule[d].unbound = "drop"

Bound(d) == IF Rule[d].role = "macro" THEN Rule[d].bindings ELSE {}

\* The codes _process takes from a device into its source.
Forwarded(d) == IF DropsUnbound(d) THEN {} ELSE Codes \ Bound(d)

\* Mutant of Rebuilt: the bindings are forgotten.
RebuiltBound(d, down) == IF DropsUnbound(d) THEN {} ELSE down

\* What _resync_source takes from the kernel's state of a device.
Rebuilt(d, down) ==
  IF DropsUnbound(d) THEN {} ELSE down \ Rule[d].bindings

SourceOf(d) == [dev |-> d, live |-> TRUE]

Attached(p) == source[p] # None

Live(p) == Attached(p) /\ source[p].live

-----------------------------------------------------------------------------
(***************************************************************************)
(* What the paths are told.  _flush_keyboard merges the keys, and a mouse  *)
(* report the buttons.                                                     *)
(***************************************************************************)
Merged(down) == UNION { down[p] : p \in Paths }

KeysTold(down) == (told \cap Buttons) \cup (Merged(down) \ Buttons)

ButtonsTold(down) == (told \ Buttons) \cup (Merged(down) \cap Buttons)

-----------------------------------------------------------------------------
Init ==
  /\ node = [p \in Paths |-> None]
  /\ held = [d \in Devices |-> {}]
  /\ lit = [d \in Devices |-> FALSE]
  /\ source = [p \in Paths |-> None]
  /\ pressed = [p \in Paths |-> {}]
  /\ pipe = [p \in Paths |-> <<>>]
  /\ ignored = [p \in Paths |-> "no"]
  /\ retry = [p \in Paths |-> FALSE]
  /\ judging = [p \in Paths |-> None] /\ misjudged = {}
  /\ told = {}
  /\ leds = FALSE
  /\ reading = None /\ batch = <<>> /\ moved = {}
  /\ unsure = [p \in Paths |-> {}]

Idling == reading = None /\ \A p \in Paths : judging[p] = None

-----------------------------------------------------------------------------
(***************************************************************************)
(* _rescan.                                                                *)
(***************************************************************************)
\* Mutant of Verdict: a verdict lasts as long as the path is there.
VerdictOnPath(p) == IF node[p] = None THEN "no" ELSE ignored[p]

\* A verdict is on an inode, not on a path.
Verdict(p) == IF ignored[p] = "stale" THEN "no" ELSE ignored[p]

Waiting(p) == retry[p] /\ node[p] # None

Candidates ==
  { p \in Paths : /\ node[p] # None /\ ~Attached(p)
                  /\ Verdict(p) = "no" /\ ~Waiting(p) }

\* Mutant of LitAt: a keyboard keeps its own LEDs until the host changes them.
LitAtNever(paths) == lit

\* _apply_leds to the devices at some paths.
LitAt(paths) ==
  [d \in Devices |-> IF IsKeyboard(d) /\ \E p \in paths : node[p] = d
                     THEN leds ELSE lit[d]]

\* The nodes that open are attached, or about to be ignored, the others tried
\* again.  A source starts with nothing pressed, whatever is held.
Rescan(failing) ==
  LET opened == Candidates \ failing
      new == { p \in opened : Usable(node[p]) }
  IN  /\ Idling
      /\ failing \subseteq Candidates
      /\ source' = [p \in Paths |->
                     IF p \in new THEN SourceOf(node[p]) ELSE source[p]]
      /\ unsure' = [p \in Paths |->
                     IF p \in new THEN held[node[p]] ELSE unsure[p]]
      /\ lit' = LitAt(new)
      /\ judging' = [p \in Paths |-> IF p \in opened \ new THEN node[p] ELSE None]
      /\ ignored' = [p \in Paths |-> Verdict(p)]
      /\ retry' = [p \in Paths |-> p \in failing \/ Waiting(p)]
      /\ UNCHANGED <<node, held, pressed, pipe, told, leds, reader, misjudged>>

\* _inode: the verdict is on whatever is at the path by now; on nothing, if no
\* node is there.
Judge(p) ==
  /\ judging[p] # None
  /\ ignored' = [ignored EXCEPT ![p] = IF node[p] = None THEN "stale" ELSE "yes"]
  /\ misjudged' = IF node[p] \in {None, judging[p]} THEN misjudged
                  ELSE misjudged \cup {p}
  /\ judging' = [judging EXCEPT ![p] = None]
  /\ UNCHANGED <<nodes, source, pressed, pipe, retry, told, leds, reader, unsure>>

RetryExpires(p) ==
  /\ retry[p]
  /\ retry' = [retry EXCEPT ![p] = FALSE]
  /\ UNCHANGED <<nodes, source, pressed, pipe, ignored, judging, misjudged, told,
                 leds, reader, unsure>>

-----------------------------------------------------------------------------
(***************************************************************************)
(* _process.                                                               *)
(***************************************************************************)
Dropped == [dropped |-> TRUE]

Frame(c, down) == [code |-> c, down |-> down]

\* Mutant of ToldWithout: the keys of a source that vanished stay merged.
ToldWithoutFlush(had, down) == told

\* What is told when a source that had some codes down is removed.
ToldWithout(had, down) ==
  (IF had \ Buttons = {} THEN told \ Buttons ELSE Merged(down) \ Buttons)
    \cup (IF had \cap Buttons = {} THEN told \cap Buttons
          ELSE Merged(down) \cap Buttons)

\* Mutant of RemoveSource: only a source that holds something is removed.
RemoveSourceHolding(p) ==
  /\ Idling
  /\ Attached(p) /\ ~Live(p) /\ pressed[p] # {}
  /\ source' = [source EXCEPT ![p] = None]
  /\ pressed' = [pressed EXCEPT ![p] = {}]
  /\ told' = ToldWithout(pressed[p], pressed')
  /\ pipe' = [pipe EXCEPT ![p] = <<>>]
  /\ unsure' = [unsure EXCEPT ![p] = {}]
  /\ UNCHANGED <<nodes, scan, leds, reader>>

\* Mutant of RemoveSource: what the source held stays with its path.
RemoveSourceKeeping(p) ==
  /\ Idling
  /\ Attached(p) /\ ~Live(p)
  /\ source' = [source EXCEPT ![p] = None]
  /\ pipe' = [pipe EXCEPT ![p] = <<>>]
  /\ unsure' = [unsure EXCEPT ![p] = {}]
  /\ UNCHANGED <<nodes, pressed, scan, told, leds, reader>>

\* The read fails: _remove_source.
RemoveSource(p) ==
  /\ Idling
  /\ Attached(p) /\ ~Live(p)
  /\ source' = [source EXCEPT ![p] = None]
  /\ pressed' = [pressed EXCEPT ![p] = {}]
  /\ told' = ToldWithout(pressed[p], pressed')
  /\ pipe' = [pipe EXCEPT ![p] = <<>>]
  /\ unsure' = [unsure EXCEPT ![p] = {}]
  /\ UNCHANGED <<nodes, scan, leds, reader>>

\* read_events drains what the kernel has.
ReadEvents(p) ==
  /\ Idling
  /\ Live(p) /\ pipe[p] # <<>>
  /\ reading' = p
  /\ batch' = pipe[p]
  /\ pipe' = [pipe EXCEPT ![p] = <<>>]
  /\ UNCHANGED <<nodes, source, pressed, scan, told, leds, moved, unsure>>

NextEvent ==
  /\ batch' = Tail(batch)
  /\ reading' = IF batch' = <<>> THEN None ELSE reading
  /\ moved' = IF batch' = <<>> THEN {} ELSE moved

PressedAfter(down, event) ==
  IF event.code \notin Forwarded(source[reading].dev) THEN down
  ELSE IF event.down THEN down \cup {event.code} ELSE down \ {event.code}

\* An EV_KEY event and the SYN_REPORT after it.  A bound key starts its macro
\* and goes no further.
Apply ==
  LET event == Head(batch)
  IN  /\ reading # None /\ event # Dropped
      /\ pressed' = [pressed EXCEPT ![reading] = PressedAfter(@, event)]
      /\ told' = IF event.code \notin Forwarded(source[reading].dev) THEN told
                 ELSE IF event.code \in Buttons THEN ButtonsTold(pressed')
                 ELSE KeysTold(pressed')
      /\ unsure' = [unsure EXCEPT ![reading] =
                     (@ \ {event.code}) \cup (moved \cap {event.code})]
      /\ NextEvent
      /\ UNCHANGED <<nodes, source, pipe, scan, leds>>

\* EVIOCGKEY: what is down now; nothing once the device has left.
ActiveKeys(p) == IF Live(p) THEN held[source[p].dev] ELSE {}

\* Mutant of Resynced: the kernel's state is added to what was pressed.
ResyncedAdding(p) == pressed[p] \cup Rebuilt(source[p].dev, ActiveKeys(p))

Resynced(p) == Rebuilt(source[p].dev, ActiveKeys(p))

\* EVIOCGKEY also takes the key events that the kernel still has out of its
\* buffer, which SYN_DROPPED heads or is not in.
Flushed(q) == IF q # <<>> /\ Head(q) = Dropped THEN <<Dropped>> ELSE <<>>

\* _resync_source.  The events in the batch are older than the ioctl's answer.
Resync ==
  /\ reading # None /\ Head(batch) = Dropped
  /\ pressed' = [pressed EXCEPT ![reading] = Resynced(reading)]
  /\ told' = Merged(pressed')
  /\ pipe' = [pipe EXCEPT ![reading] = Flushed(@)]
  /\ unsure' = [unsure EXCEPT ![reading] = {}]
  /\ NextEvent
  /\ UNCHANGED <<nodes, source, scan, leds>>

\* handle_control of "release_all".
ReleaseAll ==
  /\ Idling
  /\ pressed' = [p \in Paths |-> {}]
  /\ told' = {}
  /\ unsure' = [p \in Paths |-> unsure[p] \cup pressed[p]]
  /\ UNCHANGED <<nodes, source, pipe, scan, leds, reader>>

\* _handle_leds: the host switched the LEDs.
HandleLeds ==
  /\ Idling
  /\ leds' = ~leds
  /\ lit' = [d \in Devices |->
              IF IsKeyboard(d) /\ \E p \in Paths : source[p] = SourceOf(d)
              THEN leds' ELSE lit[d]]
  /\ UNCHANGED <<node, held, source, pressed, pipe, scan, told, reader, unsure>>

-----------------------------------------------------------------------------
(***************************************************************************)
(* Users and the kernel (external).                                        *)
(***************************************************************************)
Plug(d, p) ==
  /\ node[p] = None /\ \A q \in Paths : node[q] # d
  /\ node' = [node EXCEPT ![p] = d]
  /\ UNCHANGED <<held, lit, source, pressed, pipe, scan, told, leds, reader,
                 unsure>>

\* The verdict on the device, if there was one, is on an inode that is gone.
Unplug(p) ==
  LET d == node[p]
  IN  /\ d # None
      /\ node' = [node EXCEPT ![p] = None]
      /\ held' = [held EXCEPT ![d] = {}]
      /\ lit' = [lit EXCEPT ![d] = FALSE]
      /\ source' = IF Attached(p) THEN [source EXCEPT ![p].live = FALSE]
                   ELSE source
      /\ ignored' = [ignored EXCEPT ![p] = IF @ = "no" THEN "no" ELSE "stale"]
      /\ misjudged' = misjudged \ {p}
      /\ UNCHANGED <<pressed, pipe, retry, judging, told, leds, reader, unsure>>

\* A buffer that overflows is emptied, but for the newest frame.
Buffered(q, frame) ==
  IF Len(q) < PipeMax THEN Append(q, frame) ELSE <<Dropped, frame>>

\* _process is about to go through the events at path p, to SYN_DROPPED first.
Outdated(p) == reading = p /\ Head(batch) = Dropped

\* A key or button goes down or comes up.
Move(p, c) ==
  LET d == node[p]
      down == c \notin held[d]
  IN  /\ d # None /\ c \in CodesOf[d]
      /\ held' = [held EXCEPT ![d] = IF down THEN @ \cup {c} ELSE @ \ {c}]
      /\ pipe' = IF Live(p)
                 THEN [pipe EXCEPT ![p] = Buffered(@, Frame(c, down))]
                 ELSE pipe
      /\ moved' = IF Outdated(p) THEN moved \cup {c} ELSE moved
      /\ UNCHANGED <<node, lit, source, pressed, scan, told, leds, reading,
                     batch, unsure>>

-----------------------------------------------------------------------------
Scan ==
  \E failing \in IF OpenFails THEN SUBSET Candidates ELSE {{}} : Rescan(failing)

Reading == Apply \/ Resync

Environment ==
  \/ \E d \in Devices, p \in Paths : Plug(d, p)
  \/ \E p \in Paths : Unplug(p)
  \/ \E p \in Paths, c \in Codes : Move(p, c)

Next ==
  \/ Scan
  \/ \E p \in Paths : Judge(p) \/ RetryExpires(p) \/ RemoveSource(p) \/ ReadEvents(p)
  \/ Reading \/ ReleaseAll \/ HandleLeds
  \/ Environment

Spec == Init /\ [][Next]_vars

(***************************************************************************)
(* Fairness.  A handler goes on: a batch is gone through, and a rescan     *)
(* comes to its end.  select() serves every ready fd (strong fairness,     *)
(* since other handlers run in between), and the rescan comes back.  A     *)
(* node that is tried again and again opens at some time.                  *)
(***************************************************************************)
Fairness ==
  /\ WF_vars(Reading)
  /\ SF_vars(Scan)
  /\ \A p \in Paths :
       /\ WF_vars(Judge(p))
       /\ SF_vars(ReadEvents(p))
       /\ SF_vars(RemoveSource(p))
       /\ WF_vars(RetryExpires(p))
       /\ SF_vars(Scan /\ Attached(p)')

FairSpec == Spec /\ Fairness

-----------------------------------------------------------------------------
(***************************************************************************)
(* Properties.                                                             *)
(***************************************************************************)
Event == [code : Codes, down : BOOLEAN] \cup {Dropped}

\* Types; what the bridge keeps for a path is empty without a source.
TypeOK ==
  /\ node \in [Paths -> Devices \cup {None}]
  /\ held \in [Devices -> SUBSET Codes]
  /\ lit \in [Devices -> BOOLEAN]
  /\ source \in [Paths -> [dev : Devices, live : BOOLEAN] \cup {None}]
  /\ pressed \in [Paths -> SUBSET Codes]
  /\ pipe \in [Paths -> Seq(Event)]
  /\ ignored \in [Paths -> {"no", "yes", "stale"}]
  /\ retry \in [Paths -> BOOLEAN]
  /\ judging \in [Paths -> Devices \cup {None}]
  /\ misjudged \subseteq Paths
  /\ told \subseteq Codes
  /\ leds \in BOOLEAN
  /\ reading \in Paths \cup {None}
  /\ batch \in Seq(Event)
  /\ moved \subseteq Codes
  /\ unsure \in [Paths -> SUBSET Codes]
  /\ \A p \in Paths : ~Attached(p) => pressed[p] = {} /\ pipe[p] = <<>>
  /\ reading # None => Attached(reading) /\ batch # <<>>

\* docs/troubleshooting.md:86, _resync_source: once a source's events are read,
\* the bridge holds what its device holds down, whatever the kernel dropped and
\* _resync_source rebuilt: but for what was down when it was attached, what
\* release_all made it forget, and keys that moved while a SYN_DROPPED was
\* being answered.  It is not so where a rule without the role macro has
\* bindings.
CaughtUp ==
  \A p \in Paths :
    Live(p) /\ pipe[p] = <<>> /\ reading # p =>
      LET d == source[p].dev
      IN  pressed[p] \ unsure[p] = (held[d] \cap Forwarded(d)) \ unsure[p]

(***************************************************************************)
(* The inductive invariant behind CaughtUp.                                *)
(***************************************************************************)
\* The codes that _process takes from a device and _resync_source skips as
\* bound, which it does whatever the role of the rule.
Mislaid(d) == Forwarded(d) \cap Rule[d].bindings

\* A configuration that says what its bindings are for.
OnlyMacrosBind ==
  \A d \in Devices : Rule[d].role # "macro" => Rule[d].bindings = {}

\* A live source is of the device at its path, and a device is at one path.
OneNode == \A p, q \in Paths : node[p] = node[q] /\ node[p] # None => p = q
LiveIsThere == \A p \in Paths : Live(p) => node[p] = source[p].dev

\* SYN_DROPPED is never behind a frame.
DroppedFirst(q) == \A i \in 1..Len(q) : q[i] = Dropped => i = 1

\* The frames of a code, and events that say nothing of it.
Says(q, c) == { i \in 1..Len(q) : q[i] # Dropped /\ q[i].code = c }
Quiet(q, c) == Says(q, c) = {} /\ \A i \in 1..Len(q) : q[i] # Dropped

\* The last frame of a code says whether it is down.
Agrees(q, c, down) ==
  \A i \in Says(q, c) :
    (\A j \in Says(q, c) : j <= i) => (q[i].down <=> c \in down)

PipeAgrees(p, c) == Agrees(pipe[p], c, held[source[p].dev])

\* Nothing newer is in the kernel's buffer, or a resync is going to empty it.
BatchAgrees(p, c) ==
  /\ reading = p /\ c \notin moved
  /\ Head(batch) = Dropped \/ Quiet(pipe[p], c)
  => Agrees(batch, c, held[source[p].dev])

SourceAgrees(p, c) ==
  /\ Quiet(pipe[p], c) /\ (reading = p => Quiet(batch, c))
  /\ c \notin unsure[p] \cup Mislaid(source[p].dev)
  => (c \in pressed[p] <=> c \in held[source[p].dev] \cap Forwarded(source[p].dev))

\* The three together; what must hold of the rest.
Sound(p) ==
  \A c \in Codes : PipeAgrees(p, c) /\ BatchAgrees(p, c) /\ SourceAgrees(p, c)

Ordered ==
  /\ \A p \in Paths : DroppedFirst(pipe[p])
  /\ reading # None => DroppedFirst(batch)
  /\ reading = None => moved = {}

CaughtInv ==
  OneNode /\ LiveIsThere /\ Ordered /\ \A p \in Paths : Live(p) => Sound(p)

\* docs/macros.md: bound keys never reach the PC, and of a device whose
\* unbound keys are dropped none does: by its events or by a resync.
BoundKeysStay ==
  \A p \in Paths : Attached(p) => pressed[p] \subseteq Forwarded(source[p].dev)

\* Between two handlers the paths have been told what the sources hold: no
\* change of a source is left without a flush.
ToldIsMerged == reading = None => told = Merged(pressed)

\* docs/pikvm.md:63: every keyboard that is attached shows the LEDs the host
\* set last, also one that was attached later or came back.
LedsShown ==
  \A p \in Paths :
    Live(p) /\ IsKeyboard(source[p].dev) => lit[source[p].dev] = leds

\* A source whose device has left is removed, and with it what it held.
GoneIsForgotten ==
  \A p \in Paths : Attached(p) /\ ~Live(p) ~> ~Attached(p)

\* A device that stays plugged in is attached, whatever was at its path before:
\* an ignored device, a dead source, a node that would not open.  Not one that
\* came between the moment a rescan opened a device it ignores there and the
\* moment it asks the path for the inode (bridge.py:347, bridge.py:355): it gets
\* the verdict on the other one until it is unplugged.
PluggedIsAttached ==
  \A p \in Paths, d \in Devices :
    Usable(d) => (<>[](node[p] = d) => <>[](source[p] = SourceOf(d) \/ p \in misjudged))

=============================================================================
