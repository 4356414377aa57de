------------------------- MODULE InputSourcesProofs -------------------------
(***************************************************************************)
(* For any paths, devices, codes and rules, and any kernel buffer: the     *)
(* invariants of InputSources.                                             *)
(***************************************************************************)
EXTENDS InputSources, SequenceTheorems, TLAPS

SourceSet == [dev : Devices, live : BOOLEAN]

-----------------------------------------------------------------------------
(***************************************************************************)
(* Devices, sources and frames.                                            *)
(***************************************************************************)
LEMMA SourceFacts ==
  /\ \A d \in Devices : /\ SourceOf(d) \in SourceSet /\ SourceOf(d) # None
                        /\ SourceOf(d).dev = d /\ SourceOf(d).live
  /\ \A s \in SourceSet : /\ s # None /\ s.dev \in Devices
                          /\ s.live => s = SourceOf(s.dev)
                          /\ [s EXCEPT !.live = FALSE] \in SourceSet
                          /\ [s EXCEPT !.live = FALSE].dev = s.dev
                          /\ ~[s EXCEPT !.live = FALSE].live
<1>1. ASSUME NEW d \in Devices
      PROVE  /\ SourceOf(d) \in SourceSet /\ SourceOf(d).dev = d
             /\ SourceOf(d).live
  BY DEF SourceOf, SourceSet
<1>2. \A s \in SourceSet : s # None
  BY NoneAssumption DEF SourceSet
<1>3. ASSUME NEW s \in SourceSet
      PROVE  /\ s.dev \in Devices
             /\ s.live => s = SourceOf(s.dev)
             /\ [s EXCEPT !.live = FALSE] \in SourceSet
             /\ [s EXCEPT !.live = FALSE].dev = s.dev
             /\ ~[s EXCEPT !.live = FALSE].live
  <2>1. s = [dev |-> s.dev, live |-> s.live] /\ s.dev \in Devices
        /\ s.live \in BOOLEAN
    BY DEF SourceSet
  <2>2. s.live => s = SourceOf(s.dev)
    BY <2>1 DEF SourceOf
  <2>3. [s EXCEPT !.live = FALSE] \in SourceSet
    BY DEF SourceSet
  <2>4. [s EXCEPT !.live = FALSE].dev = s.dev /\ ~[s EXCEPT !.live = FALSE].live
    BY DEF SourceSet
  <2>5. QED
    BY <2>1, <2>2, <2>3, <2>4
<1>4. QED
  BY <1>1, <1>2, <1>3

LEMMA RuleFacts ==
  ASSUME NEW d \in Devices, NEW down \in SUBSET Codes
  PROVE  /\ Forwarded(d) \subseteq Codes
         /\ Rebuilt(d, down) \subseteq Codes
         /\ Rebuilt(d, down) \subseteq Forwarded(d)
  BY DEF Forwarded, Rebuilt, Bound

LEMMA EventFacts ==
  ASSUME NEW q \in Seq(Event)
  PROVE  /\ q # <<>> => Head(q) \in Event /\ Tail(q) \in Seq(Event)
         /\ Flushed(q) \in Seq(Event)
         /\ \A c \in Codes, down \in BOOLEAN :
              Buffered(q, Frame(c, down)) \in Seq(Event)
<1>1. Dropped \in Event /\ \A c \in Codes, down \in BOOLEAN : Frame(c, down) \in Event
  BY DEF Event, Frame
<1>2. q # <<>> => Head(q) \in Event /\ Tail(q) \in Seq(Event)
  OBVIOUS
<1>3. <<>> \in Seq(Event) /\ <<Dropped>> \in Seq(Event)
  BY <1>1
<1>4. Flushed(q) \in Seq(Event)
  BY <1>3 DEF Flushed
<1>5. ASSUME NEW c \in Codes, NEW down \in BOOLEAN
      PROVE  Buffered(q, Frame(c, down)) \in Seq(Event)
  <2> DEFINE frame == Frame(c, down)
  <2>1. frame \in Event
    BY <1>1
  <2> HIDE DEF frame
  <2>2. Append(q, frame) \in Seq(Event) /\ <<Dropped, frame>> \in Seq(Event)
    BY <1>1, <2>1
  <2>3. Buffered(q, frame) \in Seq(Event)
    BY <2>2 DEF Buffered
  <2>4. QED
    BY <2>3 DEF frame
<1>6. QED
  BY <1>2, <1>4, <1>5

\* An event that is not SYN_DROPPED is a frame.
LEMMA FrameFacts ==
  ASSUME NEW event \in Event, event # Dropped
  PROVE  event.code \in Codes /\ event.down \in BOOLEAN
  BY DEF Event

LEMMA MergedFacts ==
  ASSUME NEW down \in [Paths -> SUBSET Codes]
  PROVE  Merged(down) \subseteq Codes
  BY DEF Merged

-----------------------------------------------------------------------------
(***************************************************************************)
(* Types.                                                                  *)
(***************************************************************************)
LEMMA InitTyped == Init => TypeOK
<1>1. <<>> \in Seq(Event)
  OBVIOUS
<1>2. QED
  BY <1>1 DEF Init, TypeOK, Attached

LEMMA NextEventTyped ==
  ASSUME TypeOK, reading # None, NextEvent, source' = source
  PROVE  /\ batch' \in Seq(Event) /\ reading' \in Paths \cup {None}
         /\ moved' \subseteq Codes
         /\ reading' # None => Attached(reading)' /\ batch' # <<>>
  BY EventFacts DEF TypeOK, NextEvent, Attached

LEMMA RescanTyped ==
  ASSUME TypeOK, NEW failing, Rescan(failing)
  PROVE  TypeOK'
<1> DEFINE new == { p \in Candidates \ failing : Usable(node[p]) }
<1>1. \A p \in new : p \in Paths /\ node[p] \in Devices /\ ~Attached(p)
  BY DEF TypeOK, Candidates
<1>2. source' = [p \in Paths |-> IF p \in new THEN SourceOf(node[p]) ELSE source[p]]
  BY DEF Rescan
<1>3. unsure' = [p \in Paths |-> IF p \in new THEN held[node[p]] ELSE unsure[p]]
  BY DEF Rescan
<1>4. lit' = LitAt(new)
  BY DEF Rescan
<1> HIDE DEF new
<1>5. source' \in [Paths -> SourceSet \cup {None}]
  BY <1>1, <1>2, SourceFacts DEF TypeOK, SourceSet
<1>6. unsure' \in [Paths -> SUBSET Codes]
  BY <1>1, <1>3 DEF TypeOK
<1>7. lit' \in [Devices -> BOOLEAN]
  BY <1>4 DEF TypeOK, LitAt
<1>8. \A p \in Paths : ~Attached(p)' => ~Attached(p)
  BY <1>1, <1>2 DEF Attached
<1>9. reading' = None
  BY DEF Rescan, Idling, reader
<1>10. /\ ignored' \in [Paths -> {"no", "yes", "stale"}]
       /\ retry' \in [Paths -> BOOLEAN]
  BY Zenon DEF TypeOK, Rescan, Verdict, Waiting
<1>11. UNCHANGED <<node, held, pressed, pipe, told, leds, batch, moved, misjudged>>
  BY DEF Rescan, reader
<1>12. judging' \in [Paths -> Devices \cup {None}]
  <2>1. \A p \in Candidates : node[p] \in Devices
    BY DEF TypeOK, Candidates
  <2>2. QED
    BY <2>1 DEF Rescan
<1>13. QED
  BY <1>5, <1>6, <1>7, <1>8, <1>9, <1>10, <1>11, <1>12 DEF TypeOK, SourceSet

LEMMA JudgeTyped ==
  ASSUME TypeOK, NEW p \in Paths, Judge(p)
  PROVE  TypeOK'
<1>1. /\ ignored' \in [Paths -> {"no", "yes", "stale"}]
      /\ judging' \in [Paths -> Devices \cup {None}]
      /\ misjudged' \subseteq Paths
  BY DEF TypeOK, Judge
<1>2. UNCHANGED <<node, held, lit, source, pressed, pipe, retry, told, leds,
                  reading, batch, moved, unsure>>
  BY DEF Judge, nodes, reader
<1>3. QED
  BY <1>1, <1>2 DEF TypeOK, Attached

LEMMA RemoveSourceTyped ==
  ASSUME TypeOK, NEW p \in Paths, RemoveSource(p)
  PROVE  TypeOK'
<1>1. pressed' = [pressed EXCEPT ![p] = {}] /\ told' = ToldWithout(pressed[p], pressed')
      /\ pressed' \in [Paths -> SUBSET Codes]
  BY DEF TypeOK, RemoveSource
<1>2. told' \subseteq Codes
  BY <1>1, MergedFacts DEF TypeOK, ToldWithout
<1>3. /\ source' = [source EXCEPT ![p] = None] /\ pipe' = [pipe EXCEPT ![p] = <<>>]
      /\ unsure' = [unsure EXCEPT ![p] = {}] /\ reading' = None
  BY DEF RemoveSource, Idling, reader
<1>4. UNCHANGED <<node, held, lit, ignored, retry, judging, misjudged, leds,
                  batch, moved>>
  BY DEF RemoveSource, nodes, scan, reader
<1>5. <<>> \in Seq(Event)
  OBVIOUS
<1>6. QED
  BY <1>1, <1>2, <1>3, <1>4, <1>5 DEF TypeOK, Attached

LEMMA ReadEventsTyped ==
  ASSUME TypeOK, NEW p \in Paths, ReadEvents(p)
  PROVE  TypeOK'
<1>1. <<>> \in Seq(Event)
  OBVIOUS
<1>2. QED
  BY <1>1 DEF TypeOK, ReadEvents, Live, Attached, nodes, scan

LEMMA ApplyTyped ==
  ASSUME TypeOK, Apply
  PROVE  TypeOK'
<1> DEFINE event == Head(batch)
<1>1. reading \in Paths /\ Attached(reading) /\ batch # <<>> /\ event # Dropped
  BY DEF TypeOK, Apply
<1>2. event \in Event
  BY <1>1, EventFacts DEF TypeOK
<1>3. event.code \in Codes
  BY <1>1, <1>2, FrameFacts
<1>4. PressedAfter(pressed[reading], event) \subseteq Codes
  BY <1>1, <1>3 DEF TypeOK, PressedAfter
<1>5. pressed' = [pressed EXCEPT ![reading] = PressedAfter(@, event)]
  BY DEF Apply
<1>6. pressed' \in [Paths -> SUBSET Codes]
  BY <1>1, <1>4, <1>5 DEF TypeOK
<1>7. told' \in {told, ButtonsTold(pressed'), KeysTold(pressed')}
  BY DEF Apply
<1>8. told' \subseteq Codes
  BY <1>6, <1>7, MergedFacts DEF TypeOK, ButtonsTold, KeysTold
<1>9. unsure' \in [Paths -> SUBSET Codes]
  BY <1>1, <1>3 DEF TypeOK, Apply
<1>10. /\ UNCHANGED <<node, held, lit, source, pipe, ignored, retry, judging,
                       misjudged, leds>>
       /\ NextEvent
  BY DEF Apply, nodes, scan
<1>11. /\ batch' \in Seq(Event) /\ reading' \in Paths \cup {None}
       /\ moved' \subseteq Codes
       /\ reading' # None => Attached(reading)' /\ batch' # <<>>
  BY <1>1, <1>10, NextEventTyped, NoneAssumption
<1>12. \A p \in Paths : ~Attached(p)' => pressed'[p] = {} /\ pipe'[p] = <<>>
  BY <1>1, <1>5, <1>10 DEF TypeOK, Attached
<1>13. QED
  BY <1>6, <1>8, <1>9, <1>10, <1>11, <1>12 DEF TypeOK

LEMMA ResyncTyped ==
  ASSUME TypeOK, Resync
  PROVE  TypeOK'
<1>1. reading \in Paths /\ Attached(reading) /\ source[reading].dev \in Devices
  BY DEF TypeOK, Resync, Attached
<1>2. ActiveKeys(reading) \in SUBSET Codes
  BY <1>1 DEF TypeOK, ActiveKeys
<1>3. Resynced(reading) \subseteq Codes
  BY <1>1, <1>2, RuleFacts DEF Resynced
<1>4. pressed' = [pressed EXCEPT ![reading] = Resynced(reading)]
  BY DEF Resync
<1>5. pressed' \in [Paths -> SUBSET Codes]
  BY <1>1, <1>3, <1>4 DEF TypeOK
<1>6. told' \subseteq Codes
  BY <1>5, MergedFacts DEF Resync
<1>7. pipe' = [pipe EXCEPT ![reading] = Flushed(@)] /\ pipe[reading] \in Seq(Event)
  BY <1>1 DEF TypeOK, Resync
<1>8. Flushed(pipe[reading]) \in Seq(Event)
  BY <1>7, EventFacts
<1>9. pipe' \in [Paths -> Seq(Event)]
  BY <1>1, <1>7, <1>8 DEF TypeOK
<1>10. unsure' \in [Paths -> SUBSET Codes]
  BY <1>1 DEF TypeOK, Resync
<1>11. /\ UNCHANGED <<node, held, lit, source, ignored, retry, judging, misjudged,
                       leds>>
       /\ NextEvent
  BY DEF Resync, nodes, scan
<1>12. /\ batch' \in Seq(Event) /\ reading' \in Paths \cup {None}
       /\ moved' \subseteq Codes
       /\ reading' # None => Attached(reading)' /\ batch' # <<>>
  BY <1>1, <1>11, NextEventTyped, NoneAssumption
<1>13. \A p \in Paths : ~Attached(p)' => pressed'[p] = {} /\ pipe'[p] = <<>>
  BY <1>1, <1>4, <1>7, <1>11 DEF TypeOK, Attached
<1>14. QED
  BY <1>5, <1>6, <1>9, <1>10, <1>11, <1>12, <1>13 DEF TypeOK

LEMMA ReleaseAllTyped ==
  ASSUME TypeOK, ReleaseAll
  PROVE  TypeOK'
  BY DEF TypeOK, ReleaseAll, Attached, nodes, scan, reader

LEMMA HandleLedsTyped ==
  ASSUME TypeOK, HandleLeds
  PROVE  TypeOK'
<1>1. lit' \in [Devices -> BOOLEAN] /\ leds' \in BOOLEAN
  BY DEF TypeOK, HandleLeds
<1>2. QED
  BY <1>1 DEF TypeOK, HandleLeds, Attached, scan, reader

LEMMA PlugTyped ==
  ASSUME TypeOK, NEW d \in Devices, NEW p \in Paths, Plug(d, p)
  PROVE  TypeOK'
  BY DEF TypeOK, Plug, Attached, scan, reader

LEMMA UnplugTyped ==
  ASSUME TypeOK, NEW p \in Paths, Unplug(p)
  PROVE  TypeOK'
<1>1. node[p] \in Devices
  BY DEF TypeOK, Unplug
<1>2. source' \in [Paths -> SourceSet \cup {None}]
      /\ \A q \in Paths : Attached(q)' <=> Attached(q)
  <2>1. CASE Attached(p)
    <3>1. source[p] \in SourceSet
      BY <2>1 DEF TypeOK, Attached, SourceSet
    <3>2. source' = [source EXCEPT ![p] = [source[p] EXCEPT !.live = FALSE]]
      BY <2>1, <3>1 DEF Unplug, SourceSet
    <3>3. [source[p] EXCEPT !.live = FALSE] \in SourceSet
          /\ [source[p] EXCEPT !.live = FALSE] # None
      BY <3>1, SourceFacts
    <3>4. QED
      BY <2>1, <3>2, <3>3 DEF TypeOK, Attached, SourceSet
  <2>2. CASE ~Attached(p)
    BY <2>2 DEF TypeOK, Unplug, Attached, SourceSet
  <2>3. QED
    BY <2>1, <2>2
<1>3. /\ node' = [node EXCEPT ![p] = None]
      /\ held' = [held EXCEPT ![node[p]] = {}]
      /\ lit' = [lit EXCEPT ![node[p]] = FALSE]
  BY DEF Unplug
<1>4. ignored' \in [Paths -> {"no", "yes", "stale"}] /\ misjudged' \subseteq Paths
  BY DEF TypeOK, Unplug
<1>5. UNCHANGED <<pressed, pipe, retry, judging, told, leds, reading, batch, moved,
                  unsure>>
  BY DEF Unplug, reader
<1>6. QED
  BY <1>1, <1>2, <1>3, <1>4, <1>5 DEF TypeOK, SourceSet

LEMMA MoveTyped ==
  ASSUME TypeOK, NEW p \in Paths, NEW c \in Codes, Move(p, c)
  PROVE  TypeOK'
<1> DEFINE d == node[p]
           down == c \notin held[d]
<1>1. d \in Devices /\ down \in BOOLEAN
  BY DEF TypeOK, Move
<1>2. held' \in [Devices -> SUBSET Codes]
  BY <1>1 DEF TypeOK, Move
<1>3. Buffered(pipe[p], Frame(c, down)) \in Seq(Event)
  BY <1>1, EventFacts DEF TypeOK
<1>4. /\ pipe' \in [Paths -> Seq(Event)]
      /\ \A q \in Paths : ~Attached(q) => pipe'[q] = pipe[q]
  <2>1. pipe' = IF Live(p)
                THEN [pipe EXCEPT ![p] = Buffered(pipe[p], Frame(c, down))]
                ELSE pipe
    BY DEF Move
  <2> HIDE DEF down
  <2>2. QED
    BY <1>3, <2>1 DEF TypeOK, Live
<1>5. moved' \subseteq Codes
  BY DEF TypeOK, Move
<1>6. UNCHANGED <<node, lit, source, pressed, ignored, retry, judging, misjudged,
                  told, leds, reading, batch, unsure>>
  BY DEF Move, scan
<1>7. QED
  BY <1>2, <1>4, <1>5, <1>6 DEF TypeOK, Attached

LEMMA NextTyped == TypeOK /\ [Next]_vars => TypeOK'
<1> SUFFICES ASSUME TypeOK, [Next]_vars
             PROVE  TypeOK'
  OBVIOUS
<1>1. CASE Scan
  BY <1>1, RescanTyped DEF Scan
<1>2. ASSUME NEW p \in Paths, RetryExpires(p)
      PROVE  TypeOK'
  BY <1>2 DEF TypeOK, RetryExpires, Attached, nodes, reader
<1>3. ASSUME NEW p \in Paths, RemoveSource(p) \/ ReadEvents(p)
      PROVE  TypeOK'
  BY <1>3, RemoveSourceTyped, ReadEventsTyped
<1>9. ASSUME NEW p \in Paths, Judge(p)
      PROVE  TypeOK'
  BY <1>9, JudgeTyped
<1>4. CASE Reading
  BY <1>4, ApplyTyped, ResyncTyped DEF Reading
<1>5. CASE ReleaseAll \/ HandleLeds
  BY <1>5, ReleaseAllTyped, HandleLedsTyped
<1>6. CASE Environment
  BY <1>6, PlugTyped, UnplugTyped, MoveTyped DEF Environment
<1>7. CASE UNCHANGED vars
  BY <1>7 DEF TypeOK, Attached, vars, nodes, scan, reader
<1>8. QED
  BY <1>1, <1>2, <1>3, <1>4, <1>5, <1>6, <1>7, <1>9 DEF Next

\* Every variable keeps its type, and nothing is kept for a path without a
\* source.
THEOREM TypeCorrect == Spec => []TypeOK
<1>1. QED
  BY InitTyped, NextTyped, PTL DEF Spec

-----------------------------------------------------------------------------
(***************************************************************************)
(* Bound keys.                                                             *)
(***************************************************************************)
LEMMA NextBound == TypeOK /\ BoundKeysStay /\ [Next]_vars => BoundKeysStay'
<1> SUFFICES ASSUME TypeOK, BoundKeysStay, [Next]_vars
             PROVE  BoundKeysStay'
  OBVIOUS
\* An action that leaves what is pressed alone, and the devices of sources.
<1>1. ASSUME pressed' = pressed,
             \A p \in Paths : Attached(p)' =>
                \/ Attached(p) /\ source'[p].dev = source[p].dev
                \/ pressed[p] = {}
      PROVE  BoundKeysStay'
  BY <1>1 DEF BoundKeysStay
<1>2. CASE Scan
  <2>1. PICK failing : Rescan(failing)
    BY <1>2 DEF Scan
  <2> DEFINE new == { p \in Candidates \ failing : Usable(node[p]) }
  <2>2. \A p \in new : pressed[p] = {}
    BY DEF TypeOK, Candidates
  <2>3. /\ pressed' = pressed
        /\ source' = [p \in Paths |->
                       IF p \in new THEN SourceOf(node[p]) ELSE source[p]]
    BY <2>1 DEF Rescan
  <2> HIDE DEF new
  <2>4. QED
    BY <1>1, <2>2, <2>3 DEF Attached
<1>3. ASSUME NEW p \in Paths, RemoveSource(p)
      PROVE  BoundKeysStay'
  BY <1>3 DEF TypeOK, RemoveSource, BoundKeysStay, Attached
<1>4. CASE Apply
  <2> DEFINE event == Head(batch)
             d == source[reading].dev
  <2>1. reading \in Paths /\ Attached(reading)
    BY <1>4 DEF TypeOK, Apply
  <2>2. pressed[reading] \subseteq Forwarded(d)
    BY <2>1 DEF BoundKeysStay
  <2>3. PressedAfter(pressed[reading], event) \subseteq Forwarded(d)
    BY <2>2 DEF PressedAfter
  <2>4. /\ pressed' = [pressed EXCEPT ![reading] = PressedAfter(@, event)]
        /\ source' = source
    BY <1>4 DEF Apply
  <2> HIDE DEF event
  <2>5. QED
    BY <2>1, <2>3, <2>4 DEF TypeOK, BoundKeysStay, Attached
<1>5. CASE Resync
  <2> DEFINE d == source[reading].dev
  <2>1. reading \in Paths /\ Attached(reading) /\ d \in Devices
    BY <1>5 DEF TypeOK, Resync, Attached
  <2>2. ActiveKeys(reading) \in SUBSET Codes
    BY <2>1 DEF TypeOK, ActiveKeys
  <2>3. Resynced(reading) \subseteq Forwarded(d)
    BY <2>1, <2>2, RuleFacts DEF Resynced
  <2>4. /\ pressed' = [pressed EXCEPT ![reading] = Resynced(reading)]
        /\ source' = source
    BY <1>5 DEF Resync
  <2>5. QED
    BY <2>1, <2>3, <2>4 DEF TypeOK, BoundKeysStay, Attached
<1>6. CASE ReleaseAll
  BY <1>6 DEF ReleaseAll, BoundKeysStay
<1>7. ASSUME NEW p \in Paths, Unplug(p)
      PROVE  BoundKeysStay'
  <2>1. pressed' = pressed
        /\ \/ Attached(p) /\ source' = [source EXCEPT ![p].live = FALSE]
           \/ source' = source
    BY <1>7 DEF Unplug
  <2>2. Attached(p) => source[p] \in SourceSet
    BY DEF TypeOK, Attached, SourceSet
  <2>3. Attached(p) => [source[p] EXCEPT !.live = FALSE].dev = source[p].dev
    BY <2>2, SourceFacts
  <2>4. \A q \in Paths : Attached(q)' =>
           Attached(q) /\ source'[q].dev = source[q].dev
    <3>1. CASE source' = source
      BY <3>1 DEF Attached
    <3>2. CASE Attached(p) /\ source' = [source EXCEPT ![p].live = FALSE]
      <4>1. source' = [source EXCEPT ![p] = [source[p] EXCEPT !.live = FALSE]]
        BY <2>2, <3>2 DEF SourceSet
      <4>2. \A q \in Paths : /\ q = p => source'[q] = [source[p] EXCEPT !.live = FALSE]
                             /\ q # p => source'[q] = source[q]
        BY <4>1 DEF TypeOK
      <4>3. QED
        BY <2>3, <3>2, <4>2 DEF Attached
    <3>3. QED
      BY <2>1, <3>1, <3>2
  <2>5. QED
    BY <1>1, <2>1, <2>4
<1>8. ASSUME NEW p \in Paths, Judge(p) \/ RetryExpires(p) \/ ReadEvents(p)
      PROVE  BoundKeysStay'
  BY <1>1, <1>8 DEF Judge, RetryExpires, ReadEvents, Attached
<1>9. CASE HandleLeds \/ UNCHANGED vars
  BY <1>1, <1>9 DEF HandleLeds, Attached, vars
<1>10. ASSUME NEW p \in Paths, (\E d \in Devices : Plug(d, p)) \/ (\E c \in Codes : Move(p, c))
       PROVE  BoundKeysStay'
  BY <1>1, <1>10 DEF Plug, Move, Attached
<1>11. QED
  BY <1>2, <1>3, <1>4, <1>5, <1>6, <1>7, <1>8, <1>9, <1>10
  DEF Next, Reading, Environment

\* Bound keys, and the keys of a device whose unbound keys are dropped, never
\* reach the host, for any configuration.
THEOREM BoundCorrect == Spec => []BoundKeysStay
<1>1. Init => BoundKeysStay
  BY DEF Init, BoundKeysStay, Attached
<1>2. QED
  BY <1>1, TypeCorrect, NextBound, PTL DEF Spec

-----------------------------------------------------------------------------
(***************************************************************************)
(* What the paths are told: at every step, not only between handlers.      *)
(***************************************************************************)
ToldAlways == told = Merged(pressed)

\* One source changes; the others keep what they hold.
LEMMA MergedChanges ==
  ASSUME NEW old \in [Paths -> SUBSET Codes], NEW new \in [Paths -> SUBSET Codes],
         NEW S, \A p \in Paths : old[p] \cap S = new[p] \cap S
  PROVE  Merged(old) \cap S = Merged(new) \cap S
  BY DEF Merged

LEMMA NextTold == TypeOK /\ ToldAlways /\ [Next]_vars => ToldAlways'
<1> SUFFICES ASSUME TypeOK, TypeOK', ToldAlways, [Next]_vars
             PROVE  ToldAlways'
  BY NextTyped
<1>1. pressed \in [Paths -> SUBSET Codes] /\ pressed' \in [Paths -> SUBSET Codes]
  BY DEF TypeOK
<1>2. Merged(pressed) \subseteq Codes /\ Merged(pressed') \subseteq Codes
  BY <1>1, MergedFacts
<1> DEFINE Keys == Codes \ Buttons
<1>3. ASSUME NEW p \in Paths, RemoveSource(p)
      PROVE  ToldAlways'
  <2>1. pressed' = [pressed EXCEPT ![p] = {}] /\ told' = ToldWithout(pressed[p], pressed')
    BY <1>3 DEF RemoveSource
  <2>2. pressed[p] \ Buttons = {} =>
          Merged(pressed) \cap Keys = Merged(pressed') \cap Keys
    <3> SUFFICES ASSUME pressed[p] \ Buttons = {}
                 PROVE  Merged(pressed) \cap Keys = Merged(pressed') \cap Keys
      OBVIOUS
    <3>1. \A q \in Paths : pressed[q] \cap Keys = pressed'[q] \cap Keys
      BY <1>1, <2>1
    <3> HIDE DEF Keys
    <3>2. QED
      BY <1>1, <3>1, MergedChanges
  <2>3. pressed[p] \cap Buttons = {} =>
          Merged(pressed) \cap Buttons = Merged(pressed') \cap Buttons
    <3> SUFFICES ASSUME pressed[p] \cap Buttons = {}
                 PROVE  \A q \in Paths : pressed[q] \cap Buttons = pressed'[q] \cap Buttons
      BY <1>1, MergedChanges
    <3>1. QED
      BY <1>1, <2>1
  <2>4. QED
    BY <1>2, <2>1, <2>2, <2>3 DEF ToldAlways, ToldWithout
<1>4. CASE Apply
  <2> DEFINE event == Head(batch)
  <2>1. /\ reading \in Paths /\ batch # <<>> /\ event # Dropped
        /\ event \in Event
    BY <1>4, EventFacts DEF TypeOK, Apply
  <2>2. event.code \in Codes
    BY <2>1, FrameFacts
  <2>3. /\ pressed' = [pressed EXCEPT ![reading] = PressedAfter(@, event)]
        /\ told' = IF event.code \notin Forwarded(source[reading].dev) THEN told
                   ELSE IF event.code \in Buttons THEN ButtonsTold(pressed')
                   ELSE KeysTold(pressed')
    BY <1>4 DEF Apply
  <2> HIDE DEF event
  <2>4. \A q \in Paths : pressed'[q] \ {event.code} = pressed[q] \ {event.code}
    BY <1>1, <2>3 DEF PressedAfter
  <2>5. CASE event.code \notin Forwarded(source[reading].dev)
    BY <1>1, <2>1, <2>3, <2>5 DEF ToldAlways, PressedAfter
  <2>6. CASE event.code \in Buttons /\ event.code \in Forwarded(source[reading].dev)
    <3>1. \A q \in Paths : pressed[q] \cap Keys
                             = pressed'[q] \cap Keys
      BY <2>4, <2>6
    <3>2. Merged(pressed) \cap Keys = Merged(pressed') \cap Keys
      <4> HIDE DEF Keys
      <4>1. QED
        BY <1>1, <3>1, MergedChanges
    <3>3. told' = (told \ Buttons) \cup (Merged(pressed') \cap Buttons)
      BY <2>3, <2>6 DEF ButtonsTold
    <3>4. QED
      BY <1>2, <3>2, <3>3 DEF ToldAlways
  <2>7. CASE event.code \notin Buttons /\ event.code \in Forwarded(source[reading].dev)
    <3>1. \A q \in Paths : pressed[q] \cap Buttons = pressed'[q] \cap Buttons
      BY <2>4, <2>7
    <3>2. Merged(pressed) \cap Buttons = Merged(pressed') \cap Buttons
      BY <1>1, <3>1, MergedChanges
    <3>3. told' = (told \cap Buttons) \cup (Merged(pressed') \ Buttons)
      BY <2>3, <2>7 DEF KeysTold
    <3>4. QED
      BY <1>2, <3>2, <3>3 DEF ToldAlways
  <2>8. QED
    BY <2>5, <2>6, <2>7
<1>5. CASE Resync
  BY <1>5 DEF Resync, ToldAlways
<1>6. CASE ReleaseAll
  BY <1>6 DEF ReleaseAll, ToldAlways, Merged
<1>7. CASE told' = told /\ pressed' = pressed
  BY <1>7 DEF ToldAlways
<1>8. CASE Scan \/ Environment \/ HandleLeds \/ UNCHANGED vars
  BY <1>7, <1>8 DEF Scan, Rescan, Environment, Plug, Unplug, Move, HandleLeds, vars
<1>9. ASSUME NEW p \in Paths, Judge(p) \/ RetryExpires(p) \/ ReadEvents(p)
      PROVE  ToldAlways'
  BY <1>7, <1>9 DEF Judge, RetryExpires, ReadEvents
<1>10. QED
  BY <1>3, <1>4, <1>5, <1>6, <1>8, <1>9 DEF Next, Reading

\* No change of a source is left without a flush, whatever comes and goes.
THEOREM ToldCorrect == Spec => []ToldIsMerged
<1>1. Init => ToldAlways
  BY DEF Init, ToldAlways, Merged
<1>2. ToldAlways => ToldIsMerged
  BY DEF ToldAlways, ToldIsMerged
<1>3. QED
  BY <1>1, <1>2, TypeCorrect, NextTold, PTL DEF Spec

-----------------------------------------------------------------------------
(***************************************************************************)
(* The LEDs.  A live source is of the device at its path, and a device is  *)
(* at one path.                                                            *)
(***************************************************************************)
LedsInv == OneNode /\ LiveIsThere /\ LedsShown

\* A source that is still live after a device was unplugged is of another one.
LEMMA UnplugElsewhere ==
  ASSUME TypeOK, OneNode, LiveIsThere, NEW p \in Paths, Unplug(p),
         NEW q \in Paths, Live(q)'
  PROVE  /\ Live(q) /\ q # p /\ source'[q] = source[q] /\ node'[q] = node[q]
         /\ source[q].dev \in Devices /\ source[q].dev # node[p]
<1> DEFINE d == node[p]
<1>1. /\ d \in Devices
      /\ node' = [node EXCEPT ![p] = None]
      /\ source' = IF Attached(p) THEN [source EXCEPT ![p].live = FALSE]
                   ELSE source
  BY DEF TypeOK, Unplug
<1>2. \A s \in Paths : Attached(s) => source[s] \in SourceSet
  BY DEF TypeOK, Attached, SourceSet
<1>3. ~Live(p)'
  <2>1. CASE Attached(p)
    <3>1. source' = [source EXCEPT ![p] = [source[p] EXCEPT !.live = FALSE]]
      BY <1>1, <1>2, <2>1 DEF SourceSet
    <3>2. source'[p] = [source[p] EXCEPT !.live = FALSE]
      BY <3>1 DEF TypeOK
    <3>3. QED
      BY <1>2, <2>1, <3>2, SourceFacts DEF Live
  <2>2. CASE ~Attached(p)
    BY <1>1, <2>2 DEF Live, Attached
  <2>3. QED
    BY <2>1, <2>2
<1>4. q # p
  BY <1>3
<1>5. source'[q] = source[q] /\ node'[q] = node[q]
  BY <1>1, <1>4 DEF TypeOK
<1>6. Live(q)
  BY <1>5 DEF Live, Attached
<1>7. source[q].dev \in Devices /\ node[q] = source[q].dev
  BY <1>2, <1>6, SourceFacts DEF LiveIsThere, Live
<1>8. source[q].dev # d
  BY <1>1, <1>4, <1>7, NoneAssumption DEF OneNode
<1>9. QED
  BY <1>4, <1>5, <1>6, <1>7, <1>8

LEMMA NextLeds == TypeOK /\ LedsInv /\ [Next]_vars => LedsInv'
<1> SUFFICES ASSUME TypeOK, LedsInv, [Next]_vars
             PROVE  LedsInv'
  OBVIOUS
<1>1. \A p \in Paths : Attached(p) => source[p] \in SourceSet
  BY DEF TypeOK, Attached, SourceSet
<1>2. None \notin Devices
  BY NoneAssumption
<1>3. CASE UNCHANGED <<node, source, lit, leds>>
  BY <1>3 DEF LedsInv, OneNode, LiveIsThere, LedsShown, Live, Attached
<1>4. CASE Scan
  <2>1. PICK failing : Rescan(failing)
    BY <1>4 DEF Scan
  <2> DEFINE new == { p \in Candidates \ failing : Usable(node[p]) }
  <2>2. \A p \in new : p \in Paths /\ node[p] \in Devices
    BY DEF TypeOK, Candidates
  <2>3. /\ source' = [p \in Paths |->
                       IF p \in new THEN SourceOf(node[p]) ELSE source[p]]
        /\ lit' = LitAt(new) /\ node' = node /\ leds' = leds
    BY <2>1 DEF Rescan
  <2> HIDE DEF new
  <2>4. ASSUME NEW p \in Paths, Live(p)'
        PROVE  /\ node'[p] = source'[p].dev
               /\ IsKeyboard(source'[p].dev) => lit'[source'[p].dev] = leds'
    <3>1. CASE p \in new
      <4>1. source'[p].dev = node[p] /\ node[p] \in Devices
        BY <2>2, <2>3, <3>1, SourceFacts
      <4>2. QED
        BY <2>3, <3>1, <4>1 DEF LitAt
    <3>2. CASE p \notin new
      <4>1. source'[p] = source[p] /\ Live(p)
        BY <2>3, <2>4, <3>2 DEF Live, Attached
      <4>2. /\ node[p] = source[p].dev /\ source[p].dev \in Devices
            /\ IsKeyboard(source[p].dev) => lit[source[p].dev] = leds
        BY <1>1, <4>1, SourceFacts DEF LedsInv, LiveIsThere, LedsShown, Live
      <4>3. QED
        BY <2>3, <4>1, <4>2 DEF LitAt
    <3>3. QED
      BY <3>1, <3>2
  <2>5. QED
    BY <2>3, <2>4 DEF LedsInv, OneNode, LiveIsThere, LedsShown
<1>5. ASSUME NEW p \in Paths, RemoveSource(p)
      PROVE  LedsInv'
  BY <1>5 DEF RemoveSource, nodes, TypeOK, LedsInv, OneNode, LiveIsThere,
              LedsShown, Live, Attached
<1>6. CASE HandleLeds
  <2>1. /\ UNCHANGED <<node, source>>
        /\ lit' = [d \in Devices |->
                    IF IsKeyboard(d) /\ \E p \in Paths : source[p] = SourceOf(d)
                    THEN leds' ELSE lit[d]]
    BY <1>6 DEF HandleLeds
  <2>2. ASSUME NEW p \in Paths, Live(p), IsKeyboard(source[p].dev)
        PROVE  lit'[source[p].dev] = leds'
    <3>1. source[p].dev \in Devices /\ source[p] = SourceOf(source[p].dev)
      BY <1>1, <2>2, SourceFacts DEF Live
    <3>2. QED
      BY <2>1, <2>2, <3>1
  <2>3. QED
    BY <2>1, <2>2 DEF LedsInv, OneNode, LiveIsThere, LedsShown, Live, Attached
<1>7. ASSUME NEW d \in Devices, NEW p \in Paths, Plug(d, p)
      PROVE  LedsInv'
  <2>1. /\ node[p] = None /\ \A q \in Paths : node[q] # d
        /\ node' = [node EXCEPT ![p] = d] /\ UNCHANGED <<source, lit, leds>>
    BY <1>7 DEF Plug
  <2>2. OneNode'
    BY <2>1 DEF TypeOK, LedsInv, OneNode
  <2>3. ASSUME NEW q \in Paths, Live(q)
        PROVE  q # p
    <3>1. source[q].dev \in Devices
      BY <1>1, <2>3, SourceFacts DEF Live
    <3>2. node[q] = source[q].dev
      BY <2>3 DEF LedsInv, LiveIsThere
    <3>3. QED
      BY <1>2, <2>1, <3>1, <3>2
  <2>4. LiveIsThere' /\ LedsShown'
    BY <2>1, <2>3 DEF TypeOK, LedsInv, LiveIsThere, LedsShown, Live, Attached
  <2>5. QED
    BY <2>2, <2>4 DEF LedsInv
<1>8. ASSUME NEW p \in Paths, Unplug(p)
      PROVE  LedsInv'
  <2> DEFINE d == node[p]
  <2>1. /\ d \in Devices
        /\ node' = [node EXCEPT ![p] = None]
        /\ lit' = [lit EXCEPT ![d] = FALSE] /\ leds' = leds
        /\ source' = IF Attached(p) THEN [source EXCEPT ![p].live = FALSE]
                     ELSE source
    BY <1>8 DEF TypeOK, Unplug
  <2>2. OneNode'
    BY <2>1 DEF TypeOK, LedsInv, OneNode
  <2>3. ASSUME NEW q \in Paths, Live(q)'
        PROVE  /\ Live(q) /\ q # p /\ source'[q] = source[q] /\ node'[q] = node[q]
               /\ source[q].dev \in Devices /\ source[q].dev # d
    BY <1>8, <2>3, UnplugElsewhere DEF LedsInv
  <2>4. LiveIsThere'
    BY <2>3 DEF LedsInv, LiveIsThere
  <2>5. LedsShown'
    <3> SUFFICES ASSUME NEW q \in Paths, Live(q)', IsKeyboard(source'[q].dev)
                 PROVE  lit'[source'[q].dev] = leds'
      BY DEF LedsShown
    <3>1. lit[source[q].dev] = leds
      BY <2>3 DEF LedsInv, LedsShown
    <3>2. QED
      BY <2>1, <2>3, <3>1 DEF TypeOK
  <2>6. QED
    BY <2>2, <2>4, <2>5 DEF LedsInv
<1>9. ASSUME NEW p \in Paths,
             \/ Judge(p) \/ RetryExpires(p) \/ ReadEvents(p)
             \/ \E c \in Codes : Move(p, c)
      PROVE  LedsInv'
  BY <1>3, <1>9 DEF Judge, RetryExpires, ReadEvents, Move, nodes
<1>10. CASE Reading \/ ReleaseAll \/ UNCHANGED vars
  BY <1>3, <1>10 DEF Reading, Apply, Resync, ReleaseAll, vars, nodes
<1>11. QED
  BY <1>4, <1>5, <1>6, <1>7, <1>8, <1>9, <1>10 DEF Next, Environment

\* Every keyboard that is attached shows the LEDs the host set last, however
\* many there are and whenever they came.
THEOREM LedsCorrect == Spec => []LedsShown
<1>1. Init => LedsInv
  BY NoneAssumption DEF Init, LedsInv, OneNode, LiveIsThere, LedsShown, Live, Attached
<1>2. LedsInv => LedsShown
  BY DEF LedsInv
<1>3. QED
  BY <1>1, <1>2, TypeCorrect, NextLeds, PTL DEF Spec

-----------------------------------------------------------------------------
(***************************************************************************)
(* What the events that are still to be gone through say of a code.        *)
(***************************************************************************)
LEMMA FrameIsNotDropped ==
  ASSUME NEW c \in Codes, NEW down \in BOOLEAN
  PROVE  /\ Frame(c, down) # Dropped /\ Frame(c, down) \in Event
         /\ Frame(c, down).code = c /\ Frame(c, down).down = down
<1>1. DOMAIN Frame(c, down) = {"code", "down"} /\ DOMAIN Dropped = {"dropped"}
  BY DEF Frame, Dropped
<1>2. "code" \notin {"dropped"}
  OBVIOUS
<1>3. Frame(c, down) # Dropped
  BY <1>1, <1>2
<1>4. QED
  BY <1>3 DEF Frame, Event

\* Only the code itself matters.
LEMMA AgreesSame ==
  ASSUME NEW q, NEW c, NEW old, NEW new, c \in old <=> c \in new
  PROVE  Agrees(q, c, old) => Agrees(q, c, new)
BY DEF Agrees

LEMMA EmptyFacts ==
  ASSUME NEW c, NEW down
  PROVE  DroppedFirst(<<>>) /\ Quiet(<<>>, c) /\ Agrees(<<>>, c, down)
BY DEF DroppedFirst, Quiet, Says, Agrees

\* SYN_DROPPED says nothing of any code.
LEMMA DroppedFacts ==
  ASSUME NEW c, NEW down
  PROVE  /\ DroppedFirst(<<Dropped>>) /\ ~Quiet(<<Dropped>>, c)
         /\ Agrees(<<Dropped>>, c, down)
<1> DEFINE q == <<Dropped>>
<1>1. Len(q) = 1 /\ q[1] = Dropped
  OBVIOUS
<1> HIDE DEF q
<1>2. DroppedFirst(q) /\ ~Quiet(q, c) /\ Agrees(q, c, down)
  BY <1>1 DEF DroppedFirst, Quiet, Says, Agrees
<1>3. QED
  BY <1>2 DEF q

\* What the kernel buffers of a move is the last that is said of its code, and
\* of no other.
LEMMA BufferedFacts ==
  ASSUME NEW q \in Seq(Event), DroppedFirst(q), NEW c \in Codes, NEW down,
         NEW f \in Event, f # Dropped, f.code = c, f.down <=> c \in down,
         NEW r, r = Buffered(q, f)
  PROVE  /\ DroppedFirst(r) /\ ~Quiet(r, c) /\ Agrees(r, c, down)
         /\ \A e \in Codes \ {c} : /\ Quiet(r, e) => Quiet(q, e)
                                   /\ Agrees(q, e, down) => Agrees(r, e, down)
<1>1. CASE Len(q) < PipeMax
  <2>1. r = Append(q, f)
    BY <1>1 DEF Buffered
  <2>2. /\ Len(r) = Len(q) + 1 /\ r[Len(q) + 1] = f /\ Len(q) \in Nat
        /\ \A i \in 1..Len(q) : r[i] = q[i]
    BY <2>1
  <2>3. DroppedFirst(r)
    BY <2>2 DEF DroppedFirst
  <2>4. Says(r, c) = Says(q, c) \cup {Len(q) + 1}
    BY <2>2 DEF Says
  <2>5. \A e \in Codes \ {c} : Says(r, e) = Says(q, e)
    BY <2>2 DEF Says
  <2>6. ~Quiet(r, c)
    BY <2>4 DEF Quiet
  <2>7. Agrees(r, c, down)
    <3>1. ASSUME NEW i \in Says(r, c), \A j \in Says(r, c) : j <= i
          PROVE  r[i].down <=> c \in down
      <4>1. i \in 1..(Len(q) + 1) /\ Len(q) + 1 <= i
        BY <2>2, <2>4, <3>1 DEF Says
      <4>2. i = Len(q) + 1
        BY <2>2, <4>1
      <4>3. QED
        BY <2>2, <4>2
    <3>2. QED
      BY <3>1 DEF Agrees
  <2>8. ASSUME NEW e \in Codes \ {c}
        PROVE  /\ Quiet(r, e) => Quiet(q, e)
               /\ Agrees(q, e, down) => Agrees(r, e, down)
    <3>1. Quiet(r, e) => Quiet(q, e)
      BY <2>2, <2>5 DEF Quiet
    <3>2. \A i \in Says(q, e) : r[i] = q[i]
      BY <2>2 DEF Says
    <3>3. Agrees(q, e, down) => Agrees(r, e, down)
      BY <2>5, <3>2 DEF Agrees
    <3>4. QED
      BY <3>1, <3>3
  <2>9. QED
    BY <2>3, <2>6, <2>7, <2>8
<1>2. CASE ~(Len(q) < PipeMax)
  <2>1. r = <<Dropped, f>>
    BY <1>2 DEF Buffered
  <2>2. Len(r) = 2 /\ r[1] = Dropped /\ r[2] = f
    BY <2>1
  <2>3. \A e : Says(r, e) = IF e = c THEN {2} ELSE {}
    BY <2>2 DEF Says
  <2>4. DroppedFirst(r)
    BY <2>2 DEF DroppedFirst
  <2>5. \A e : ~Quiet(r, e)
    BY <2>2 DEF Quiet
  <2>6. Agrees(r, c, down)
    BY <2>2, <2>3 DEF Agrees
  <2>7. \A e \in Codes \ {c} : Agrees(r, e, down)
    BY <2>3 DEF Agrees
  <2>8. QED
    BY <2>4, <2>5, <2>6, <2>7
<1>3. QED
  BY <1>1, <1>2

\* The next event is gone through.
LEMMA NextEventFacts ==
  ASSUME NEW q \in Seq(Event), q # <<>>, DroppedFirst(q), NEW r, r = Tail(q)
  PROVE  /\ r \in Seq(Event) /\ DroppedFirst(r)
         /\ \A i \in 1..Len(r) : r[i] # Dropped
         /\ \A c \in Codes : \A down :
              /\ Agrees(q, c, down) => Agrees(r, c, down)
              /\ Head(q) # Dropped /\ Head(q).code # c /\ Quiet(r, c) => Quiet(q, c)
              /\ /\ Head(q) # Dropped /\ Head(q).code = c
                 /\ Quiet(r, c) /\ Agrees(q, c, down)
                 => (Head(q).down <=> c \in down)
<1>1. /\ r \in Seq(Event) /\ Len(r) = Len(q) - 1 /\ Len(q) \in Nat \ {0}
      /\ \A i \in 1..Len(r) : r[i] = q[i + 1]
      /\ Head(q) = q[1]
  <2>1. Len(q) \in Nat /\ Len(q) # 0
    BY EmptySeq
  <2>2. QED
    BY <2>1, HeadTailProperties
<1>2. \A i \in 1..Len(r) : i + 1 \in 1..Len(q) /\ i + 1 # 1
  BY <1>1
<1>3. \A i \in 1..Len(r) : r[i] # Dropped
  BY <1>1, <1>2 DEF DroppedFirst
<1>4. DroppedFirst(r)
  BY <1>3 DEF DroppedFirst
<1>5. ASSUME NEW c \in Codes, NEW i \in 1..Len(r)
      PROVE  i \in Says(r, c) <=> i + 1 \in Says(q, c)
  BY <1>1, <1>2, <1>3 DEF Says
<1>6. ASSUME NEW c \in Codes, NEW j \in Says(q, c), j # 1
      PROVE  j - 1 \in 1..Len(r) /\ j - 1 \in Says(r, c) /\ j \in 1..Len(q)
  <2>1. j \in 1..Len(q)
    BY DEF Says
  <2>2. j - 1 \in 1..Len(r) /\ (j - 1) + 1 = j
    BY <1>1, <1>6, <2>1
  <2>3. QED
    BY <1>5, <2>1, <2>2
<1>7. ASSUME NEW c \in Codes, NEW down, Agrees(q, c, down)
      PROVE  Agrees(r, c, down)
  <2> SUFFICES ASSUME NEW i \in Says(r, c), \A j \in Says(r, c) : j <= i
               PROVE  r[i].down <=> c \in down
    BY DEF Agrees
  <2>1. i \in 1..Len(r) /\ i + 1 \in Says(q, c) /\ r[i] = q[i + 1]
    BY <1>1, <1>5 DEF Says
  <2>2. ASSUME NEW j \in Says(q, c) PROVE j <= i + 1
    <3>1. CASE j = 1
      BY <2>1, <3>1
    <3>2. CASE j # 1
      <4>1. j - 1 <= i /\ j \in 1..Len(q)
        BY <1>6, <3>2
      <4>2. QED
        BY <2>1, <4>1
    <3>3. QED
      BY <3>1, <3>2
  <2>3. q[i + 1].down <=> c \in down
    BY <1>7, <2>1, <2>2 DEF Agrees
  <2>4. QED
    BY <2>1, <2>3
<1>8. ASSUME NEW c \in Codes, Head(q) # Dropped, Head(q).code # c, Quiet(r, c)
      PROVE  Quiet(q, c)
  <2>1. ASSUME NEW j \in Says(q, c) PROVE FALSE
    <3>1. j # 1
      BY <1>1, <1>8 DEF Says
    <3>2. QED
      BY <1>6, <1>8, <3>1 DEF Quiet
  <2>2. ASSUME NEW j \in 1..Len(q) PROVE q[j] # Dropped
    BY <1>1, <1>8 DEF DroppedFirst
  <2>3. QED
    BY <2>1, <2>2 DEF Quiet
<1>9. ASSUME NEW c \in Codes, NEW down, Head(q) # Dropped, Head(q).code = c,
             Quiet(r, c), Agrees(q, c, down)
      PROVE  Head(q).down <=> c \in down
  <2>1. 1 \in Says(q, c)
    BY <1>1, <1>9 DEF Says
  <2>2. ASSUME NEW j \in Says(q, c) PROVE j <= 1
    BY <1>6, <1>9 DEF Quiet
  <2>3. QED
    BY <1>1, <1>9, <2>1, <2>2 DEF Agrees
<1>10. QED
  BY <1>1, <1>3, <1>4, <1>7, <1>8, <1>9

-----------------------------------------------------------------------------
(***************************************************************************)
(* CaughtInv, action by action.                                            *)
(***************************************************************************)
\* Nothing that bears on a path changes.
LEMMA SoundStays ==
  ASSUME NEW p \in Paths, Sound(p), source'[p] = source[p], pipe'[p] = pipe[p],
         pressed'[p] = pressed[p], unsure[p] \subseteq unsure'[p],
         held'[source[p].dev] = held[source[p].dev],
         (UNCHANGED reader) \/ (reading # p /\ reading' # p)
  PROVE  Sound(p)'
<1> SUFFICES ASSUME NEW c \in Codes
             PROVE  PipeAgrees(p, c)' /\ BatchAgrees(p, c)' /\ SourceAgrees(p, c)'
  BY DEF Sound
<1>1. PipeAgrees(p, c) /\ BatchAgrees(p, c) /\ SourceAgrees(p, c)
  BY DEF Sound
<1>2. PipeAgrees(p, c)'
  BY <1>1 DEF PipeAgrees
<1>3. BatchAgrees(p, c)'
  BY <1>1 DEF BatchAgrees, reader
<1>4. SourceAgrees(p, c)'
  BY <1>1 DEF SourceAgrees, reader
<1>5. QED
  BY <1>2, <1>3, <1>4

LEMMA RescanSound ==
  ASSUME TypeOK, CaughtInv, NEW failing, Rescan(failing)
  PROVE  Ordered' /\ \A p \in Paths : Live(p)' => Sound(p)'
<1> DEFINE new == { p \in Candidates \ failing : Usable(node[p]) }
<1>1. \A p \in new : node[p] \in Devices /\ ~Attached(p)
  BY DEF TypeOK, Candidates
<1>2. /\ source' = [p \in Paths |-> IF p \in new THEN SourceOf(node[p]) ELSE source[p]]
      /\ unsure' = [p \in Paths |-> IF p \in new THEN held[node[p]] ELSE unsure[p]]
      /\ UNCHANGED <<held, pipe, pressed, reading, batch, moved>>
      /\ reading = None
  BY DEF Rescan, reader, Idling
<1> HIDE DEF new
<1>3. Ordered'
  BY <1>2 DEF CaughtInv, Ordered
<1>4. ASSUME NEW p \in Paths, Live(p)', p \in new
      PROVE  Sound(p)'
  <2> SUFFICES ASSUME NEW c \in Codes
               PROVE  PipeAgrees(p, c)' /\ BatchAgrees(p, c)' /\ SourceAgrees(p, c)'
    BY DEF Sound
  <2>1. pipe'[p] = <<>> /\ pressed'[p] = {}
    BY <1>1, <1>2, <1>4 DEF TypeOK
  <2>2. source'[p].dev = node[p] /\ unsure'[p] = held'[source'[p].dev]
    BY <1>1, <1>2, <1>4, SourceFacts
  <2>3. PipeAgrees(p, c)'
    BY <2>1, EmptyFacts DEF PipeAgrees
  <2>4. BatchAgrees(p, c)'
    BY <1>2, NoneAssumption DEF BatchAgrees
  <2>5. SourceAgrees(p, c)'
    BY <2>1, <2>2 DEF SourceAgrees
  <2>6. QED
    BY <2>3, <2>4, <2>5
<1>5. ASSUME NEW p \in Paths, Live(p)', p \notin new
      PROVE  Sound(p)'
  <2>1. source'[p] = source[p] /\ unsure'[p] = unsure[p] /\ Live(p)
    BY <1>2, <1>5 DEF Live, Attached
  <2>2. Sound(p)
    BY <2>1 DEF CaughtInv
  <2>3. UNCHANGED reader
    BY <1>2 DEF reader
  <2>4. QED
    BY <1>2, <2>1, <2>2, <2>3, SoundStays
<1>6. QED
  BY <1>3, <1>4, <1>5

LEMMA RemoveSourceSound ==
  ASSUME TypeOK, CaughtInv, NEW p \in Paths, RemoveSource(p)
  PROVE  Ordered' /\ \A q \in Paths : Live(q)' => Sound(q)'
<1>1. /\ source' = [source EXCEPT ![p] = None]
      /\ pressed' = [pressed EXCEPT ![p] = {}]
      /\ pipe' = [pipe EXCEPT ![p] = <<>>]
      /\ unsure' = [unsure EXCEPT ![p] = {}]
      /\ UNCHANGED reader /\ held' = held
  BY DEF RemoveSource, nodes
<1>2. Ordered'
  BY <1>1, EmptyFacts DEF TypeOK, CaughtInv, Ordered, reader
<1>3. ASSUME NEW q \in Paths, Live(q)'
      PROVE  Sound(q)'
  <2>1. q # p
    BY <1>1, <1>3 DEF TypeOK, Live, Attached
  <2>2. /\ source'[q] = source[q] /\ pipe'[q] = pipe[q]
        /\ pressed'[q] = pressed[q] /\ unsure'[q] = unsure[q]
    BY <1>1, <2>1 DEF TypeOK
  <2>3. Sound(q)
    BY <1>3, <2>2 DEF CaughtInv, Live, Attached
  <2>4. QED
    BY <1>1, <2>2, <2>3, SoundStays
<1>4. QED
  BY <1>2, <1>3

LEMMA ReadEventsSound ==
  ASSUME TypeOK, CaughtInv, NEW p \in Paths, ReadEvents(p)
  PROVE  Ordered' /\ \A q \in Paths : Live(q)' => Sound(q)'
<1>1. /\ reading = None /\ reading' = p /\ batch' = pipe[p]
      /\ pipe' = [pipe EXCEPT ![p] = <<>>]
      /\ UNCHANGED <<held, source, pressed, moved, unsure>>
      /\ Live(p) /\ moved = {}
  BY DEF ReadEvents, Idling, nodes, CaughtInv, Ordered
<1>2. p # None /\ pipe'[p] = <<>> /\ \A q \in Paths : q # p => pipe'[q] = pipe[q]
  BY <1>1, NoneAssumption DEF TypeOK
<1>3. Ordered'
  BY <1>1, <1>2, EmptyFacts DEF CaughtInv, Ordered
<1>4. ASSUME NEW q \in Paths, Live(q)', q # p
      PROVE  Sound(q)'
  <2>1. Sound(q)
    BY <1>1, <1>4 DEF CaughtInv, Live, Attached
  <2>2. reading # q /\ reading' # q
    BY <1>1, <1>4, NoneAssumption
  <2>3. QED
    BY <1>1, <1>2, <1>4, <2>1, <2>2, SoundStays
<1>5. Sound(p)'
  <2> SUFFICES ASSUME NEW c \in Codes
               PROVE  PipeAgrees(p, c)' /\ BatchAgrees(p, c)' /\ SourceAgrees(p, c)'
    BY DEF Sound
  <2>1. PipeAgrees(p, c) /\ SourceAgrees(p, c)
    BY <1>1 DEF CaughtInv, Sound
  <2>2. PipeAgrees(p, c)'
    BY <1>2, EmptyFacts DEF PipeAgrees
  <2>3. BatchAgrees(p, c)'
    BY <1>1, <2>1 DEF BatchAgrees, PipeAgrees
  <2>4. SourceAgrees(p, c)'
    BY <1>1, <1>2, <2>1 DEF SourceAgrees
  <2>5. QED
    BY <2>2, <2>3, <2>4
<1>6. QED
  BY <1>3, <1>4, <1>5

LEMMA ReleaseAllSound ==
  ASSUME TypeOK, CaughtInv, ReleaseAll
  PROVE  Ordered' /\ \A p \in Paths : Live(p)' => Sound(p)'
<1>1. /\ pressed' = [p \in Paths |-> {}]
      /\ unsure' = [p \in Paths |-> unsure[p] \cup pressed[p]]
      /\ UNCHANGED <<held, source, pipe, reading, batch, moved>>
  BY DEF ReleaseAll, nodes, reader
<1>2. Ordered'
  BY <1>1 DEF CaughtInv, Ordered
<1>3. ASSUME NEW p \in Paths, Live(p)', NEW c \in Codes
      PROVE  PipeAgrees(p, c)' /\ BatchAgrees(p, c)' /\ SourceAgrees(p, c)'
  <2>1. PipeAgrees(p, c) /\ BatchAgrees(p, c) /\ SourceAgrees(p, c)
    BY <1>1, <1>3 DEF CaughtInv, Sound, Live, Attached
  <2>2. PipeAgrees(p, c)' /\ BatchAgrees(p, c)'
    BY <1>1, <2>1 DEF PipeAgrees, BatchAgrees
  <2>3. SourceAgrees(p, c)'
    BY <1>1, <2>1 DEF SourceAgrees
  <2>4. QED
    BY <2>2, <2>3
<1>4. QED
  BY <1>2, <1>3 DEF Sound

\* The paths whose events are not gone through, in Apply and Resync.
LEMMA ReadingSound ==
  ASSUME TypeOK, CaughtInv, Reading
  PROVE  /\ reading \in Paths /\ batch \in Seq(Event) /\ batch # <<>>
         /\ batch' = Tail(batch) /\ reading' \in {reading, None}
         /\ reading' = None => moved' = {} /\ batch' = <<>>
         /\ reading' # None => moved' = moved /\ batch' # <<>>
         /\ DroppedFirst(batch') /\ UNCHANGED <<node, held, source>>
         /\ \A q \in Paths \ {reading} : Live(q)' => Sound(q)'
<1>1. /\ reading # None /\ NextEvent
      /\ UNCHANGED <<node, held, source>>
      /\ \A q \in Paths \ {reading} :
            pressed'[q] = pressed[q] /\ pipe'[q] = pipe[q] /\ unsure'[q] = unsure[q]
  BY DEF TypeOK, Reading, Apply, Resync, nodes
<1>2. /\ reading \in Paths /\ batch \in Seq(Event) /\ batch # <<>>
      /\ DroppedFirst(batch)
  BY <1>1 DEF TypeOK, CaughtInv, Ordered
<1>3. /\ batch' = Tail(batch) /\ reading' \in {reading, None}
      /\ reading' = None => moved' = {} /\ batch' = <<>>
      /\ reading' # None => moved' = moved /\ batch' # <<>>
  BY <1>1 DEF NextEvent
<1>4. DroppedFirst(batch')
  BY <1>2, <1>3, NextEventFacts
<1>5. ASSUME NEW q \in Paths \ {reading}, Live(q)'
      PROVE  Sound(q)'
  <2>1. Sound(q)
    BY <1>1, <1>5 DEF CaughtInv, Live, Attached
  <2>2. reading # q /\ reading' # q
    BY <1>3, NoneAssumption
  <2>3. QED
    BY <1>1, <2>1, <2>2, SoundStays
<1>6. QED
  BY <1>1, <1>2, <1>3, <1>4, <1>5

LEMMA ApplySound ==
  ASSUME TypeOK, BoundKeysStay, CaughtInv, Apply,
         NEW p \in Paths, reading = p
  PROVE  Ordered' /\ \A q \in Paths : Live(q)' => Sound(q)'
<1> DEFINE d == source[p].dev
           event == Head(batch)
<1>1. /\ p \in Paths /\ batch \in Seq(Event) /\ batch # <<>>
      /\ batch' = Tail(batch) /\ reading' \in {p, None}
      /\ reading' = None => moved' = {} /\ batch' = <<>>
      /\ reading' # None => moved' = moved /\ batch' # <<>>
      /\ DroppedFirst(batch') /\ UNCHANGED <<node, held, source>>
      /\ \A q \in Paths \ {p} : Live(q)' => Sound(q)'
  BY ReadingSound DEF Reading
<1>2. /\ event # Dropped /\ pipe' = pipe
      /\ pressed' = [pressed EXCEPT ![p] = PressedAfter(@, event)]
      /\ unsure' = [unsure EXCEPT ![p] =
                     (@ \ {event.code}) \cup (moved \cap {event.code})]
  BY DEF Apply
<1>3. pressed'[p] = PressedAfter(pressed[p], event)
      /\ unsure'[p] = (unsure[p] \ {event.code}) \cup (moved \cap {event.code})
  BY <1>1, <1>2 DEF TypeOK
<1>4. Ordered'
  BY <1>1, <1>2 DEF CaughtInv, Ordered
<1>5. DroppedFirst(batch) /\ p # None
  BY <1>1, NoneAssumption DEF CaughtInv, Ordered
<1>6. /\ batch' \in Seq(Event) /\ \A i \in 1..Len(batch') : batch'[i] # Dropped
      /\ \A c \in Codes : \A down :
           /\ Agrees(batch, c, down) => Agrees(batch', c, down)
           /\ event.code # c /\ Quiet(batch', c) => Quiet(batch, c)
           /\ event.code = c /\ Quiet(batch', c) /\ Agrees(batch, c, down)
              => (event.down <=> c \in down)
  BY <1>1, <1>2, <1>5, NextEventFacts
<1>7. batch' # <<>> => Head(batch') # Dropped
  <2>1. batch' # <<>> => Len(batch') \in Nat /\ Len(batch') # 0 /\ Head(batch') = batch'[1]
    BY <1>6, EmptySeq, HeadTailProperties
  <2>2. QED
    BY <1>6, <2>1
<1>8. ASSUME Live(p)', NEW c \in Codes
      PROVE  PipeAgrees(p, c)' /\ BatchAgrees(p, c)' /\ SourceAgrees(p, c)'
  <2>1. PipeAgrees(p, c) /\ BatchAgrees(p, c) /\ SourceAgrees(p, c) /\ Live(p)
    BY <1>1, <1>8 DEF CaughtInv, Sound, Live, Attached
  <2>2. PipeAgrees(p, c)'
    BY <1>1, <1>2, <2>1 DEF PipeAgrees
  <2>3. BatchAgrees(p, c)'
    <3> SUFFICES ASSUME reading' = p, c \notin moved', Quiet(pipe'[p], c)
                 PROVE  Agrees(batch', c, held'[source'[p].dev])
      BY <1>1, <1>5, <1>7 DEF BatchAgrees
    <3>1. Agrees(batch, c, held[d])
      BY <1>1, <1>2, <1>5, <2>1 DEF BatchAgrees
    <3>2. QED
      BY <1>1, <1>6, <3>1
  <2>4. SourceAgrees(p, c)'
    <3> SUFFICES ASSUME Quiet(pipe[p], c), reading' = p => Quiet(batch', c),
                        c \notin unsure'[p], c \notin Mislaid(d)
                 PROVE  c \in pressed'[p] <=> c \in held[d] \cap Forwarded(d)
      BY <1>1, <1>2 DEF SourceAgrees
    <3>1. Quiet(batch', c)
      BY <1>1, <1>5, EmptyFacts
    <3>2. CASE event.code # c
      <4>1. Quiet(batch, c)
        BY <1>6, <3>1, <3>2
      <4>2. c \notin unsure[p] /\ (c \in pressed'[p] <=> c \in pressed[p])
        BY <1>3, <3>2 DEF PressedAfter
      <4>3. QED
        BY <2>1, <4>1, <4>2 DEF SourceAgrees
    <3>3. CASE event.code = c
      <4>1. c \notin moved
        BY <1>3, <3>3
      <4>2. Agrees(batch, c, held[d])
        BY <2>1, <4>1 DEF BatchAgrees
      <4>3. event.down <=> c \in held[d]
        BY <1>6, <3>1, <3>3, <4>2
      <4>4. pressed[p] \subseteq Forwarded(d)
        BY <1>1, <2>1 DEF BoundKeysStay, Live
      <4>5. QED
        BY <1>3, <3>3, <4>3, <4>4 DEF PressedAfter
    <3>4. QED
      BY <3>2, <3>3
  <2>5. QED
    BY <2>2, <2>3, <2>4
<1>9. QED
  BY <1>1, <1>4, <1>8 DEF Sound

LEMMA ResyncSound ==
  ASSUME TypeOK, CaughtInv, Resync,
         NEW p \in Paths, reading = p
  PROVE  Ordered' /\ \A q \in Paths : Live(q)' => Sound(q)'
<1> DEFINE d == source[p].dev
<1>1. /\ p \in Paths /\ batch \in Seq(Event) /\ batch # <<>>
      /\ batch' = Tail(batch) /\ reading' \in {p, None}
      /\ reading' = None => moved' = {} /\ batch' = <<>>
      /\ reading' # None => moved' = moved /\ batch' # <<>>
      /\ DroppedFirst(batch') /\ UNCHANGED <<node, held, source>>
      /\ \A q \in Paths \ {p} : Live(q)' => Sound(q)'
  BY ReadingSound DEF Reading
<1>2. /\ Head(batch) = Dropped
      /\ pressed' = [pressed EXCEPT ![p] = Resynced(p)]
      /\ pipe' = [pipe EXCEPT ![p] = Flushed(@)]
      /\ unsure' = [unsure EXCEPT ![p] = {}]
  BY DEF Resync
<1>3. /\ pressed'[p] = Resynced(p) /\ pipe'[p] \in {<<>>, <<Dropped>>}
      /\ \A q \in Paths \ {p} : pipe'[q] = pipe[q]
  BY <1>1, <1>2 DEF TypeOK, Flushed
<1>4. DroppedFirst(batch) /\ p # None /\ DroppedFirst(pipe'[p])
  BY <1>1, <1>3, NoneAssumption, EmptyFacts, DroppedFacts DEF CaughtInv, Ordered
<1>5. Ordered'
  BY <1>1, <1>3, <1>4 DEF CaughtInv, Ordered
<1>6. ASSUME Live(p)', NEW c \in Codes
      PROVE  PipeAgrees(p, c)' /\ BatchAgrees(p, c)' /\ SourceAgrees(p, c)'
  <2>1. BatchAgrees(p, c) /\ Live(p)
    BY <1>1, <1>6 DEF CaughtInv, Sound, Live, Attached
  <2>2. PipeAgrees(p, c)'
    BY <1>3, EmptyFacts, DroppedFacts DEF PipeAgrees
  <2>3. BatchAgrees(p, c)'
    <3> SUFFICES ASSUME reading' = p, c \notin moved'
                 PROVE  Agrees(batch', c, held[d])
      BY <1>1 DEF BatchAgrees
    <3>1. Agrees(batch, c, held[d])
      BY <1>1, <1>2, <1>4, <2>1 DEF BatchAgrees
    <3>2. QED
      BY <1>1, <1>4, <3>1, NextEventFacts
  <2>4. SourceAgrees(p, c)'
    <3> SUFFICES ASSUME c \notin Mislaid(d)
                 PROVE  c \in pressed'[p] <=> c \in held[d] \cap Forwarded(d)
      BY <1>1 DEF SourceAgrees
    <3>1. pressed'[p] = Rebuilt(d, held[d])
      BY <1>3, <2>1 DEF Resynced, ActiveKeys
    <3>2. QED
      BY <3>1 DEF Rebuilt, Forwarded, Bound, Mislaid
  <2>5. QED
    BY <2>2, <2>3, <2>4
<1>7. QED
  BY <1>1, <1>5, <1>6 DEF Sound

LEMMA UnplugSound ==
  ASSUME TypeOK, CaughtInv, NEW p \in Paths, Unplug(p)
  PROVE  Ordered' /\ \A q \in Paths : Live(q)' => Sound(q)'
<1>1. /\ held' = [held EXCEPT ![node[p]] = {}]
      /\ UNCHANGED <<pressed, pipe, unsure>> /\ UNCHANGED reader
  BY DEF Unplug
<1>2. Ordered'
  BY <1>1 DEF CaughtInv, Ordered, reader
<1>3. ASSUME NEW q \in Paths, Live(q)'
      PROVE  Sound(q)'
  <2>1. /\ Live(q) /\ source'[q] = source[q]
        /\ source[q].dev \in Devices /\ source[q].dev # node[p]
    BY <1>3, UnplugElsewhere DEF CaughtInv
  <2>2. held'[source[q].dev] = held[source[q].dev]
    BY <1>1, <2>1 DEF TypeOK
  <2>3. Sound(q)
    BY <2>1 DEF CaughtInv
  <2>4. QED
    BY <1>1, <2>1, <2>2, <2>3, SoundStays
<1>4. QED
  BY <1>2, <1>3

\* A key of the source at path p moves.
LEMMA MoveSoundHere ==
  ASSUME TypeOK, CaughtInv, NEW p \in Paths, NEW c \in Codes, Move(p, c), Live(p),
         NEW d, d = source[p].dev
  PROVE  DroppedFirst(pipe'[p]) /\ Sound(p)'
<1>1. node[p] = d /\ d \in Devices
  BY SourceFacts DEF TypeOK, CaughtInv, LiveIsThere, Live, Attached, SourceSet
<1>2. /\ held' = [held EXCEPT ![d] = IF c \notin held[d] THEN @ \cup {c} ELSE @ \ {c}]
      /\ pipe' = [pipe EXCEPT ![p] = Buffered(@, Frame(c, c \notin held[d]))]
      /\ moved' = IF Outdated(p) THEN moved \cup {c} ELSE moved
      /\ UNCHANGED <<source, pressed, reading, batch, unsure>>
  BY <1>1 DEF Move
<1>3. /\ c \in held'[d] <=> c \notin held[d]
      /\ \A e \in Codes \ {c} : e \in held[d] <=> e \in held'[d]
  BY <1>1, <1>2 DEF TypeOK
<1> DEFINE f == Frame(c, c \notin held[d])
<1>4. /\ f \in Event /\ f # Dropped /\ f.code = c /\ (f.down <=> c \in held'[d])
      /\ pipe'[p] = Buffered(pipe[p], f)
  <2> DEFINE b == c \notin held[d]
  <2>1. b \in BOOLEAN
    OBVIOUS
  <2>2. pipe' = [pipe EXCEPT ![p] = Buffered(@, Frame(c, b))]
    BY <1>2
  <2>3. b <=> c \in held'[d]
    BY <1>3
  <2> HIDE DEF b
  <2>4. Frame(c, b) \in Event /\ Frame(c, b) # Dropped /\ Frame(c, b).code = c
        /\ Frame(c, b).down = b
    BY <2>1, FrameIsNotDropped
  <2>5. pipe'[p] = Buffered(pipe[p], Frame(c, b))
    BY <2>2 DEF TypeOK
  <2>6. f = Frame(c, b)
    BY DEF b
  <2> HIDE DEF f
  <2>7. QED
    BY <2>3, <2>4, <2>5, <2>6
<1> HIDE DEF f
<1>5. pipe[p] \in Seq(Event) /\ DroppedFirst(pipe[p])
  BY DEF TypeOK, CaughtInv, Ordered
<1>6. /\ DroppedFirst(pipe'[p]) /\ ~Quiet(pipe'[p], c) /\ Agrees(pipe'[p], c, held'[d])
      /\ \A e \in Codes \ {c} :
            /\ Quiet(pipe'[p], e) => Quiet(pipe[p], e)
            /\ Agrees(pipe[p], e, held'[d]) => Agrees(pipe'[p], e, held'[d])
  <2> DEFINE q == pipe[p]
             r == pipe'[p]
             down == held'[d]
  <2>1. /\ q \in Seq(Event) /\ DroppedFirst(q)
        /\ f \in Event /\ f # Dropped /\ f.code = c /\ (f.down <=> c \in down)
        /\ r = Buffered(q, f)
    BY <1>4, <1>5
  <2> HIDE DEF q, r, down
  <2>2. /\ DroppedFirst(r) /\ ~Quiet(r, c) /\ Agrees(r, c, down)
        /\ \A e \in Codes \ {c} : /\ Quiet(r, e) => Quiet(q, e)
                                  /\ Agrees(q, e, down) => Agrees(r, e, down)
    BY <2>1, BufferedFacts
  <2>3. QED
    BY <2>2 DEF q, r, down
<1>7. PipeAgrees(p, c)' /\ BatchAgrees(p, c)' /\ SourceAgrees(p, c)'
  <2>1. PipeAgrees(p, c)'
    BY <1>2, <1>6 DEF PipeAgrees
  <2>2. BatchAgrees(p, c)'
    BY <1>2, <1>6 DEF BatchAgrees, Outdated
  <2>3. SourceAgrees(p, c)'
    BY <1>6 DEF SourceAgrees
  <2>4. QED
    BY <2>1, <2>2, <2>3
<1>8. ASSUME NEW e \in Codes \ {c}
      PROVE  PipeAgrees(p, e)' /\ BatchAgrees(p, e)' /\ SourceAgrees(p, e)'
  <2>1. PipeAgrees(p, e) /\ BatchAgrees(p, e) /\ SourceAgrees(p, e)
    BY DEF CaughtInv, Sound
  <2>2. \A q : Agrees(q, e, held[d]) => Agrees(q, e, held'[d])
    BY <1>3, AgreesSame
  <2>3. PipeAgrees(p, e)'
    BY <1>2, <1>6, <2>1, <2>2 DEF PipeAgrees
  <2>4. BatchAgrees(p, e)'
    BY <1>2, <1>6, <2>1, <2>2 DEF BatchAgrees
  <2>5. SourceAgrees(p, e)'
    BY <1>2, <1>3, <1>6, <2>1 DEF SourceAgrees
  <2>6. QED
    BY <2>3, <2>4, <2>5
<1>9. QED
  BY <1>6, <1>7, <1>8 DEF Sound

LEMMA MoveSound ==
  ASSUME TypeOK, CaughtInv, NEW p \in Paths, NEW c \in Codes, Move(p, c)
  PROVE  Ordered' /\ \A q \in Paths : Live(q)' => Sound(q)'
<1> DEFINE d == node[p]
<1>1. /\ d \in Devices
      /\ held' = [held EXCEPT ![d] = IF c \notin held[d] THEN @ \cup {c} ELSE @ \ {c}]
      /\ ~Live(p) => pipe' = pipe
      /\ \A q \in Paths : q # p => pipe'[q] = pipe[q]
      /\ reading # p => moved' = moved
      /\ UNCHANGED <<source, pressed, reading, batch, unsure>>
  BY DEF TypeOK, Move, Outdated
<1>2. \A q \in Paths : Live(q)' <=> Live(q)
  BY <1>1 DEF Live, Attached
<1>3. Live(p) => DroppedFirst(pipe'[p]) /\ Sound(p)'
  BY MoveSoundHere
<1>4. Ordered'
  <2>1. \A q \in Paths : DroppedFirst(pipe'[q])
    BY <1>1, <1>3 DEF CaughtInv, Ordered
  <2>2. reading = None => reading # p
    BY NoneAssumption
  <2>3. QED
    BY <1>1, <2>1, <2>2 DEF CaughtInv, Ordered
<1>5. ASSUME NEW q \in Paths, Live(q), q # p
      PROVE  Sound(q)'
  <2>1. source[q].dev = node[q] /\ node[q] # d
    BY <1>1, <1>5, NoneAssumption DEF CaughtInv, LiveIsThere, OneNode
  <2>2. held'[source[q].dev] = held[source[q].dev]
    <3>1. source[q].dev \in Devices
      BY <1>5, SourceFacts DEF TypeOK, Live, Attached, SourceSet
    <3>2. QED
      BY <1>1, <2>1, <3>1 DEF TypeOK
  <2>3. (UNCHANGED reader) \/ (reading # q /\ reading' # q)
    BY <1>1, <1>5 DEF reader
  <2>4. Sound(q)
    BY <1>5 DEF CaughtInv
  <2>5. QED
    BY <1>1, <1>5, <2>2, <2>3, <2>4, SoundStays
<1>6. QED
  BY <1>2, <1>3, <1>4, <1>5

LEMMA NextCaught ==
  TypeOK /\ BoundKeysStay /\ LedsInv /\ CaughtInv /\ [Next]_vars => CaughtInv'
<1> SUFFICES ASSUME TypeOK, BoundKeysStay, LedsInv, CaughtInv, [Next]_vars
             PROVE  CaughtInv'
  OBVIOUS
<1> DEFINE SoundNext == Ordered' /\ \A p \in Paths : Live(p)' => Sound(p)'
<1>1. OneNode' /\ LiveIsThere'
  BY NextLeds DEF LedsInv
<1>2. SUFFICES SoundNext
  BY <1>1 DEF CaughtInv
<1>3. ASSUME UNCHANGED <<held, source, pressed, pipe, unsure>>, UNCHANGED reader
      PROVE  SoundNext
  <2>1. Ordered'
    BY <1>3 DEF CaughtInv, Ordered, reader
  <2>2. ASSUME NEW p \in Paths, Live(p)'
        PROVE  Sound(p)'
    <3>1. Sound(p)
      BY <1>3, <2>2 DEF CaughtInv, Live, Attached
    <3>2. QED
      BY <1>3, <3>1, SoundStays
  <2>3. QED
    BY <2>1, <2>2
<1>4. CASE Scan
  BY <1>4, RescanSound DEF Scan
<1>5. ASSUME NEW p \in Paths, Judge(p) \/ RetryExpires(p)
      PROVE  SoundNext
  BY <1>3, <1>5 DEF Judge, RetryExpires, nodes
<1>6. ASSUME NEW p \in Paths, RemoveSource(p) \/ ReadEvents(p)
      PROVE  SoundNext
  BY <1>6, RemoveSourceSound, ReadEventsSound
<1>7. CASE Reading
  <2>1. reading \in Paths
    BY <1>7 DEF TypeOK, Reading, Apply, Resync
  <2>2. QED
    BY <1>7, <2>1, ApplySound, ResyncSound DEF Reading
<1>8. CASE ReleaseAll
  BY <1>8, ReleaseAllSound
<1>9. CASE HandleLeds \/ UNCHANGED vars
  BY <1>3, <1>9 DEF HandleLeds, vars, reader
<1>10. ASSUME NEW d \in Devices, NEW p \in Paths, Plug(d, p)
       PROVE  SoundNext
  BY <1>3, <1>10 DEF Plug
<1>11. CASE Environment
  BY <1>10, <1>11, UnplugSound, MoveSound DEF Environment
<1>12. QED
  BY <1>4, <1>5, <1>6, <1>7, <1>8, <1>9, <1>11 DEF Next

LEMMA InitCaught == Init => CaughtInv
<1> SUFFICES ASSUME Init
             PROVE  CaughtInv
  OBVIOUS
<1>1. \A p \in Paths : ~Live(p) /\ node[p] = None /\ DroppedFirst(pipe[p])
  BY EmptyFacts DEF Init, Live, Attached
<1>2. reading = None /\ moved = {}
  BY DEF Init
<1>3. QED
  BY <1>1, <1>2 DEF CaughtInv, OneNode, LiveIsThere, Ordered

\* What CaughtUp says, of the codes that _process and _resync_source agree on.
CaughtUpElsewhere ==
  \A p \in Paths :
    Live(p) /\ pipe[p] = <<>> /\ reading # p =>
      LET d == source[p].dev
      IN  \A c \in Codes \ (unsure[p] \cup Mislaid(d)) :
             c \in pressed[p] <=> c \in held[d] \cap Forwarded(d)

LEMMA CaughtElsewhere == TypeOK /\ CaughtInv => CaughtUpElsewhere
<1> SUFFICES ASSUME TypeOK, CaughtInv, NEW p \in Paths,
                    Live(p), pipe[p] = <<>>, reading # p,
                    NEW c \in Codes \ (unsure[p] \cup Mislaid(source[p].dev))
             PROVE  c \in pressed[p] <=>
                      c \in held[source[p].dev] \cap Forwarded(source[p].dev)
  BY DEF CaughtUpElsewhere
<1>1. SourceAgrees(p, c)
  BY DEF CaughtInv, Sound
<1>2. Quiet(pipe[p], c)
  BY EmptyFacts
<1>3. QED
  BY <1>1, <1>2 DEF SourceAgrees

\* Where only macro keyboards have bindings, the two agree on every code.
LEMMA NothingMislaid ==
  ASSUME OnlyMacrosBind, NEW d \in Devices
  PROVE  Mislaid(d) = {}
BY DEF OnlyMacrosBind, Mislaid, Forwarded, Bound

LEMMA CaughtEverywhere == OnlyMacrosBind /\ TypeOK /\ CaughtInv => CaughtUp
<1> SUFFICES ASSUME OnlyMacrosBind, TypeOK, CaughtInv, NEW p \in Paths,
                    Live(p), pipe[p] = <<>>, reading # p
             PROVE  pressed[p] \ unsure[p]
                      = (held[source[p].dev] \cap Forwarded(source[p].dev)) \ unsure[p]
  BY DEF CaughtUp
<1>1. source[p].dev \in Devices
  BY SourceFacts DEF TypeOK, Live, Attached, SourceSet
<1>2. pressed[p] \subseteq Codes /\ held[source[p].dev] \subseteq Codes
  BY <1>1 DEF TypeOK
<1>3. \A c \in Codes \ unsure[p] :
        c \in pressed[p] <=> c \in held[source[p].dev] \cap Forwarded(source[p].dev)
  BY <1>1, NothingMislaid, CaughtElsewhere DEF CaughtUpElsewhere
<1>4. QED
  BY <1>2, <1>3

LEMMA CaughtAlways == Spec => [](TypeOK /\ CaughtInv)
<1>1. Init => TypeOK /\ BoundKeysStay /\ LedsInv /\ CaughtInv
  BY InitTyped, InitCaught, NoneAssumption
  DEF Init, BoundKeysStay, LedsInv, CaughtInv, LedsShown, Live, Attached
<1>2. TypeOK /\ BoundKeysStay /\ LedsInv /\ CaughtInv /\ [Next]_vars
        => TypeOK' /\ BoundKeysStay' /\ LedsInv' /\ CaughtInv'
  BY NextTyped, NextBound, NextLeds, NextCaught
<1>3. QED
  BY <1>1, <1>2, PTL DEF Spec

\* For any devices and any configuration, and with SYN_DROPPED at any time: what
\* the bridge holds of a source that has been read is what its device holds, of
\* the codes that are neither in `unsure' (down when the source was attached,
\* forgotten by release_all, or moved while a SYN_DROPPED was being answered)
\* nor such that _resync_source takes them for bound and _process does not.
THEOREM CaughtUpToBindings == Spec => []CaughtUpElsewhere
<1>1. QED
  BY CaughtAlways, CaughtElsewhere, PTL

\* Where only macro keyboards have bindings, the second exception is empty: it is
\* CaughtUp itself, which has the first.
THEOREM CaughtUpCorrect ==
  ASSUME OnlyMacrosBind
  PROVE  Spec => []CaughtUp
<1>1. TypeOK /\ CaughtInv => CaughtUp
  BY CaughtEverywhere
<1>2. QED
  BY <1>1, CaughtAlways, PTL

=============================================================================
