---------------------------- MODULE GadgetProofs ----------------------------
(***************************************************************************)
(* For any configurations, refusals and number of kills: the invariants of *)
(* Gadget.                                                                 *)
(***************************************************************************)
EXTENDS Gadget, SequenceLemmas

-----------------------------------------------------------------------------
(***************************************************************************)
(* The plans, call by call.                                                *)
(***************************************************************************)
LEMMA DownCallsFacts ==
  /\ DownCalls \in Seq(Call) /\ Len(DownCalls) = 9
  /\ DownCalls[1] = Just("unbind")
  /\ DownCalls[2] = Do("unlink", "kbd") /\ DownCalls[3] = Do("unlink", "mouse")
  /\ DownCalls[4] = Do("remove", "config")
  /\ DownCalls[5] = Do("remove", "kbd") /\ DownCalls[6] = Do("remove", "mouse")
  /\ DownCalls[7] = Do("remove", "strings") /\ DownCalls[8] = Do("remove", "gadget")
  /\ DownCalls[9] = Just("forget")
<1>1. DownCalls \in Seq(Call)
  <2>1. /\ Just("unbind") \in Call /\ Just("forget") \in Call
        /\ \A f \in Function : Do("unlink", f) \in Call
        /\ \A d \in Dir : Do("remove", d) \in Call
    BY DEF Call, Just, Do, Dir
  <2>2. /\ "kbd" \in Function /\ "mouse" \in Function
        /\ {"config", "kbd", "mouse", "strings", "gadget"} \subseteq Dir
    BY DEF Function, Dir
  <2>3. QED
    BY <2>1, <2>2 DEF DownCalls
<1>2. QED
  BY <1>1 DEF DownCalls

LEMMA BuildCallsFacts ==
  /\ BuildCalls \in Seq(Call) /\ Len(BuildCalls) = 16
  /\ BuildCalls[1] = Do("make", "strings") /\ BuildCalls[2] = Do("make", "config")
  /\ BuildCalls[3] = Do("make", "kbd") /\ BuildCalls[4] = Do("make", "mouse")
  /\ BuildCalls[5] = Do("describe", "gadget") /\ BuildCalls[6] = Do("describe", "strings")
  /\ BuildCalls[7] = Do("describe", "config")
  /\ BuildCalls[8] = Do("describe", "kbd") /\ BuildCalls[9] = Do("describe", "mouse")
  /\ BuildCalls[10] = Do("link", "kbd") /\ BuildCalls[11] = Do("link", "mouse")
  /\ BuildCalls[12] = Just("bind") /\ BuildCalls[13] = Just("resolve")
  /\ BuildCalls[14] = Do("prime", "kbd") /\ BuildCalls[15] = Do("prime", "mouse")
  /\ BuildCalls[16] = Just("save")
<1>1. BuildCalls \in Seq(Call)
  <2>1. /\ Just("bind") \in Call /\ Just("resolve") \in Call /\ Just("save") \in Call
        /\ \A d \in Dir : /\ Do("make", d) \in Call /\ Do("describe", d) \in Call
                          /\ Do("link", d) \in Call /\ Do("prime", d) \in Call
    BY DEF Call, Just, Do
  <2>2. {"config", "kbd", "mouse", "strings", "gadget"} \subseteq Dir
    BY DEF Function, Dir
  <2>3. QED
    BY <2>1, <2>2 DEF BuildCalls
<1>2. QED
  BY <1>1 DEF BuildCalls

LEMMA RebuildCallsFacts ==
  /\ RebuildCalls \in Seq(Call) /\ Len(RebuildCalls) = 25
  /\ \A i \in 1..9 : RebuildCalls[i] = DownCalls[i]
  /\ \A i \in 10..25 : RebuildCalls[i] = BuildCalls[i - 9]
<1>1. /\ DownCalls \in Seq(Call) /\ Len(DownCalls) = 9
      /\ BuildCalls \in Seq(Call) /\ Len(BuildCalls) = 16
  BY DownCallsFacts, BuildCallsFacts
<1> DEFINE d == DownCalls
           b == BuildCalls
<1> HIDE DEF d, b
<1>2. /\ d \o b \in Seq(Call) /\ Len(d \o b) = Len(d) + Len(b)
      /\ \A i \in 1..(Len(d) + Len(b)) : (d \o b)[i] =
           IF i <= Len(d) THEN d[i] ELSE b[i - Len(d)]
  <2>1. d \in Seq(Call) /\ b \in Seq(Call)
    BY <1>1 DEF d, b
  <2>2. QED
    BY <2>1, ConcatProperties
<1>3. Len(d) = 9 /\ Len(d) + Len(b) = 25
  BY <1>1 DEF d, b
<1>4. /\ RebuildCalls \in Seq(Call) /\ Len(RebuildCalls) = 25
      /\ \A i \in 1..25 : RebuildCalls[i] =
           IF i <= 9 THEN DownCalls[i] ELSE BuildCalls[i - 9]
  <2>1. RebuildCalls = d \o b
    BY DEF RebuildCalls, d, b
  <2>2. \A i \in 1..25 : (d \o b)[i] = IF i <= 9 THEN d[i] ELSE b[i - 9]
    BY <1>2, <1>3
  <2>3. QED
    BY <1>2, <1>3, <2>1, <2>2 DEF d, b
<1>5. ASSUME NEW i \in 1..9 PROVE i \in 1..25 /\ i <= 9
  OBVIOUS
<1>6. ASSUME NEW i \in 10..25 PROVE i \in 1..25 /\ ~(i <= 9)
  OBVIOUS
<1>7. QED
  BY <1>4, <1>5, <1>6

-----------------------------------------------------------------------------
(***************************************************************************)
(* A command follows its plan.                                             *)
(***************************************************************************)
\* The call at hand, and what the rest is the end of.
LEMMA EndsFacts ==
  ASSUME calls \in Seq(Call), Left > 0, NEW plan \in Seq(Call), Ends(plan)
  PROVE  /\ Left \in 1..Len(plan)
         /\ Head(calls) = plan[Len(plan) - Left + 1]
         /\ calls' = Tail(calls) => Left' = Left - 1 /\ Ends(plan)'
<1>1. Left \in Nat /\ Len(plan) \in Nat /\ Left <= Len(plan)
  BY DEF Left, Ends
<1>2. Head(calls) = calls[1] /\ calls[1] = plan[Len(plan) - Left + 1]
  BY <1>1 DEF Left, Ends
<1>3. ASSUME calls' = Tail(calls)
      PROVE  Left' = Left - 1 /\ Ends(plan)'
  <2>1. Len(Tail(calls)) = Left - 1
    BY <1>1 DEF Left
  <2>2. Left' = Left - 1
    BY <1>3, <2>1 DEF Left
  <2>3. ASSUME NEW i \in 1..Left'
        PROVE  calls'[i] = plan[Len(plan) - Left' + i]
    <3>1. i + 1 \in 1..Left /\ Tail(calls)[i] = calls[i + 1]
      BY <1>1, <2>1, <2>2 DEF Left
    <3>2. calls[i + 1] = plan[Len(plan) - Left + (i + 1)]
      BY <3>1 DEF Ends
    <3>3. Len(plan) - Left + (i + 1) = Len(plan) - Left' + i
      BY <1>1, <2>2
    <3>4. QED
      BY <1>3, <3>1, <3>2, <3>3
  <2>4. QED
    BY <1>1, <2>2, <2>3 DEF Ends
<1>4. QED
  BY <1>1, <1>2, <1>3

LEMMA RebuildHead ==
  ASSUME calls \in Seq(Call), Rebuilding
  PROVE  /\ Left \in 1..25
         /\ Calling("unbind") => Left = 25
         /\ Calling("unlink") => \/ Left = 24 /\ On = "kbd"
                                 \/ Left = 23 /\ On = "mouse"
         /\ Calling("remove") => \/ Left = 22 /\ On = "config"
                                 \/ Left = 21 /\ On = "kbd"
                                 \/ Left = 20 /\ On = "mouse"
                                 \/ Left = 19 /\ On = "strings"
                                 \/ Left = 18 /\ On = "gadget"
         /\ Calling("forget") => Left = 17
         /\ Calling("make") => \/ Left = 16 /\ On = "strings"
                               \/ Left = 15 /\ On = "config"
                               \/ Left = 14 /\ On = "kbd"
                               \/ Left = 13 /\ On = "mouse"
         /\ Calling("describe") => \/ Left = 12 /\ On = "gadget"
                                   \/ Left = 11 /\ On = "strings"
                                   \/ Left = 10 /\ On = "config"
                                   \/ Left = 9 /\ On = "kbd"
                                   \/ Left = 8 /\ On = "mouse"
         /\ Calling("link") => \/ Left = 7 /\ On = "kbd"
                               \/ Left = 6 /\ On = "mouse"
         /\ Calling("bind") => Left = 5
         /\ Calling("resolve") => Left = 4
         /\ Calling("prime") => \/ Left = 3 /\ On = "kbd"
                                \/ Left = 2 /\ On = "mouse"
         /\ Calling("save") => Left = 1
<1>1. Left \in 1..25 /\ Head(calls) = RebuildCalls[26 - Left]
  <2>1. /\ RebuildCalls \in Seq(Call) /\ Len(RebuildCalls) = 25
        /\ Left > 0 /\ Ends(RebuildCalls)
    BY RebuildCallsFacts DEF Rebuilding
  <2>2. Left \in 1..25 /\ Head(calls) = RebuildCalls[25 - Left + 1]
    BY <2>1, EndsFacts
  <2>3. QED
    BY <2>2
<1>2. CASE Left \in 17..25
  <2>1. 26 - Left \in 1..9
    BY <1>2
  <2>2. Head(calls) = DownCalls[26 - Left]
    BY <1>1, <2>1, RebuildCallsFacts
  <2>3. QED
    BY <1>2, <2>2, DownCallsFacts DEF Calling, On, Do, Just, Dir, Function
<1>3. CASE Left \in 1..16
  <2>1. 26 - Left \in 10..25 /\ (26 - Left) - 9 = 17 - Left
    BY <1>3
  <2>2. Head(calls) = BuildCalls[17 - Left]
    BY <1>1, <2>1, RebuildCallsFacts
  <2>3. CASE Left \in 13..16
    <3>1. \/ Left = 16 /\ Head(calls) = Do("make", "strings")
          \/ Left = 15 /\ Head(calls) = Do("make", "config")
          \/ Left = 14 /\ Head(calls) = Do("make", "kbd")
          \/ Left = 13 /\ Head(calls) = Do("make", "mouse")
      BY <2>2, <2>3, BuildCallsFacts
    <3>2. QED
      BY <1>1, <3>1 DEF Calling, On, Do
  <2>4. CASE Left \in 8..12
    <3>1. \/ Left = 12 /\ Head(calls) = Do("describe", "gadget")
          \/ Left = 11 /\ Head(calls) = Do("describe", "strings")
          \/ Left = 10 /\ Head(calls) = Do("describe", "config")
          \/ Left = 9 /\ Head(calls) = Do("describe", "kbd")
          \/ Left = 8 /\ Head(calls) = Do("describe", "mouse")
      BY <2>2, <2>4, BuildCallsFacts
    <3>2. QED
      BY <1>1, <3>1 DEF Calling, On, Do
  <2>5. CASE Left \in 4..7
    <3>1. \/ Left = 7 /\ Head(calls) = Do("link", "kbd")
          \/ Left = 6 /\ Head(calls) = Do("link", "mouse")
          \/ Left = 5 /\ Head(calls) = Just("bind")
          \/ Left = 4 /\ Head(calls) = Just("resolve")
      BY <2>2, <2>5, BuildCallsFacts
    <3>2. QED
      BY <1>1, <3>1 DEF Calling, On, Do, Just
  <2>6. CASE Left \in 1..3
    <3>1. \/ Left = 3 /\ Head(calls) = Do("prime", "kbd")
          \/ Left = 2 /\ Head(calls) = Do("prime", "mouse")
          \/ Left = 1 /\ Head(calls) = Just("save")
      BY <2>2, <2>6, BuildCallsFacts
    <3>2. QED
      BY <1>1, <3>1 DEF Calling, On, Do, Just
  <2>7. QED
    BY <1>3, <2>3, <2>4, <2>5, <2>6
<1>4. QED
  BY <1>1, <1>2, <1>3

LEMMA DownHead ==
  ASSUME calls \in Seq(Call), TakingDown
  PROVE  /\ Left \in 1..9
         /\ Calling("unbind") => Left = 9
         /\ Calling("unlink") => \/ Left = 8 /\ On = "kbd"
                                 \/ Left = 7 /\ On = "mouse"
         /\ Calling("remove") => \/ Left = 6 /\ On = "config"
                                 \/ Left = 5 /\ On = "kbd"
                                 \/ Left = 4 /\ On = "mouse"
                                 \/ Left = 3 /\ On = "strings"
                                 \/ Left = 2 /\ On = "gadget"
         /\ Calling("forget") => Left = 1
         /\ \A what \in {"make", "describe", "link", "bind", "resolve", "prime", "save"} :
              ~Calling(what)
<1>1. Left \in 1..9 /\ Head(calls) = DownCalls[10 - Left]
  <2>1. /\ DownCalls \in Seq(Call) /\ Len(DownCalls) = 9
        /\ Left > 0 /\ Ends(DownCalls)
    BY DownCallsFacts DEF TakingDown
  <2>2. Left \in 1..9 /\ Head(calls) = DownCalls[9 - Left + 1]
    BY <2>1, EndsFacts
  <2>3. QED
    BY <2>2
<1>2. QED
  BY <1>1, DownCallsFacts DEF Calling, On, Do, Just

LEMMA RefreshHead ==
  ASSUME Refreshing
  PROVE  /\ Left = 2 /\ ~Rebuilding /\ Calling("resolve")
         /\ \A what : what # "resolve" => ~Calling(what)
         /\ Tail(calls) = <<Just("save")>>
<1>1. calls = <<Just("resolve"), Just("save")>>
  BY DEF Refreshing
<1>2. /\ Left = 2 /\ Head(calls) = Just("resolve") /\ Tail(calls) = <<Just("save")>>
      /\ calls # <<>>
  BY <1>1 DEF Left
<1>3. Head(calls).do = "resolve"
  BY <1>2 DEF Just
<1>4. calls \in Seq(Call)
  <2>1. Just("resolve") \in Call /\ Just("save") \in Call
    BY DEF Just, Call
  <2>2. QED
    BY <1>1, <2>1
<1>5. ~Rebuilding
  BY <1>2, <1>3, <1>4, RebuildHead DEF Calling
<1>6. QED
  BY <1>2, <1>3, <1>5 DEF Calling

\* Who makes which call.
LEMMA Callers ==
  ASSUME IInv, NEW what, Calling(what)
  PROVE  /\ calls \in Seq(Call) /\ calls # <<>> /\ Left > 0
         /\ Rebuilding \/ Refreshing \/ TakingDown
         /\ Refreshing => what = "resolve"
         /\ TakingDown => what \in {"unbind", "unlink", "remove", "forget"}
         /\ Rebuilding => command = "up"
         /\ TakingDown => command = "down"
         /\ Rebuilding \/ TakingDown => ~Refreshing
<1>1. calls \in Seq(Call) /\ calls # <<>>
  BY DEF IInv, TypeOK, Calling
<1>2. Left > 0
  BY <1>1 DEF Left
<1>3. Rebuilding \/ Refreshing \/ TakingDown
  BY <1>1 DEF IInv, CallsFollow
<1>4. Refreshing => what = "resolve"
  BY RefreshHead
<1>5. ASSUME TakingDown PROVE what \in {"unbind", "unlink", "remove", "forget"}
  <2>1. /\ Left \in 1..9 /\ Head(calls) = DownCalls[10 - Left]
    <3>1. /\ DownCalls \in Seq(Call) /\ Len(DownCalls) = 9 /\ Ends(DownCalls)
      BY <1>5, DownCallsFacts DEF TakingDown
    <3>2. Left \in 1..9 /\ Head(calls) = DownCalls[9 - Left + 1]
      BY <1>1, <1>2, <3>1, EndsFacts
    <3>3. QED
      BY <3>2
  <2>2. QED
    BY <2>1, DownCallsFacts DEF Calling, Do, Just
<1>6. QED
  BY <1>1, <1>2, <1>3, <1>4, <1>5, RefreshHead DEF Rebuilding, TakingDown, Refreshing

\* What the next call finds.
LEMMA ProceedFacts ==
  ASSUME IInv, calls # <<>>, Proceed
  PROVE  /\ calls' \in Seq(Call) /\ UNCHANGED <<using, command>>
         /\ Left \in Nat /\ Left > 0 /\ Left' = Left - 1
         /\ calls' = <<>> <=> Left' = 0
         /\ result' = IF Left' = 0 THEN "done" ELSE "running"
         /\ Rebuilding => (Rebuilding' <=> Left' > 0)
         /\ Refreshing => Left = 2 /\ Rebuilding'
         /\ TakingDown => (TakingDown' <=> Left' > 0)
         /\ Rebuilding' => Rebuilding \/ Refreshing
         /\ TakingDown' => TakingDown
         /\ ~Refreshing' /\ CallsFollow'
<1>1. calls \in Seq(Call) /\ (result = "running")
  BY DEF IInv, TypeOK
<1>2. /\ calls' = Tail(calls) /\ UNCHANGED <<using, command>>
      /\ result' = IF calls' = <<>> THEN "done" ELSE "running"
  BY <1>1 DEF Proceed, Ended
<1>3. /\ calls' \in Seq(Call) /\ Left \in Nat /\ Left > 0 /\ Left' = Left - 1
      /\ calls' = <<>> <=> Left' = 0
  <2>1. calls' \in Seq(Call) /\ Len(calls') = Len(calls) - 1
    BY <1>1, <1>2
  <2>2. Len(calls) \in Nat /\ Len(calls) > 0
    BY <1>1
  <2>3. calls' = <<>> <=> Len(calls') = 0
    BY <2>1, EmptySeq
  <2>4. QED
    BY <2>1, <2>2, <2>3 DEF Left
<1>4. Rebuilding => (Rebuilding' <=> Left' > 0)
  <2>1. ASSUME Rebuilding PROVE Ends(RebuildCalls)'
    <3>1. RebuildCalls \in Seq(Call) /\ Ends(RebuildCalls)
      BY <2>1, RebuildCallsFacts DEF Rebuilding
    <3>2. QED
      BY <1>1, <1>2, <1>3, <3>1, EndsFacts
  <2>2. QED
    BY <1>2, <2>1 DEF Rebuilding
<1>5. TakingDown => (TakingDown' <=> Left' > 0)
  <2>1. ASSUME TakingDown PROVE Ends(DownCalls)'
    <3>1. DownCalls \in Seq(Call) /\ Ends(DownCalls)
      BY <2>1, DownCallsFacts DEF TakingDown
    <3>2. QED
      BY <1>1, <1>2, <1>3, <3>1, EndsFacts
  <2>2. QED
    BY <1>2, <2>1 DEF TakingDown
<1>6. Refreshing => Left = 2 /\ Rebuilding'
  <2>1. SUFFICES ASSUME Refreshing PROVE Left = 2 /\ Rebuilding'
    OBVIOUS
  <2>2. Left = 2 /\ calls' = <<Just("save")>>
    BY <1>2, <2>1, RefreshHead
  <2>3. Left' = 1 /\ calls'[1] = Just("save")
    BY <1>3, <2>2
  <2>4. RebuildCalls[25] = Just("save") /\ Len(RebuildCalls) = 25
    <3>1. RebuildCalls[25] = BuildCalls[25 - 9]
      BY RebuildCallsFacts
    <3>2. QED
      BY <3>1, RebuildCallsFacts, BuildCallsFacts
  <2>5. Ends(RebuildCalls)'
    BY <2>3, <2>4 DEF Ends
  <2>6. QED
    BY <1>2, <2>1, <2>2, <2>3, <2>5 DEF Rebuilding, Refreshing
<1>7. Rebuilding \/ Refreshing \/ TakingDown
  BY DEF IInv, CallsFollow
<1>8. /\ Rebuilding' => Rebuilding \/ Refreshing
      /\ TakingDown' => TakingDown
  BY <1>2, <1>7 DEF Rebuilding, Refreshing, TakingDown
<1>9. ~Refreshing'
  <2>1. SUFFICES ASSUME Refreshing' PROVE FALSE
    OBVIOUS
  <2>2. calls' = <<Just("resolve"), Just("save")>> /\ command' = "up"
    BY <2>1 DEF Refreshing
  <2>3. Left' = 2 /\ Head(calls').do = "resolve"
    BY <2>2 DEF Left, Just
  <2>4. Rebuilding
    BY <1>2, <1>3, <1>6, <1>7, <2>2, <2>3 DEF TakingDown
  <2>5. Rebuilding'
    BY <1>4, <2>3, <2>4
  <2>6. RebuildCalls[24] = Do("prime", "mouse") /\ Len(RebuildCalls) = 25
    <3>1. RebuildCalls[24] = BuildCalls[24 - 9]
      BY RebuildCallsFacts
    <3>2. QED
      BY <3>1, RebuildCallsFacts, BuildCallsFacts
  <2>7. calls'[1] = RebuildCalls[25 - 2 + 1]
    BY <2>3, <2>5, <2>6 DEF Rebuilding, Ends
  <2>8. calls'[1].do = "prime"
    BY <2>6, <2>7 DEF Do
  <2>9. QED
    BY <2>2, <2>8 DEF Just
<1>10. CallsFollow'
  BY <1>3, <1>4, <1>5, <1>6, <1>7 DEF CallsFollow
<1>11. QED
  BY <1>1, <1>2, <1>3, <1>4, <1>5, <1>6, <1>8, <1>9, <1>10

\* A step of up() that is not the last one, and a step of down().
LEMMA RebuildStep ==
  ASSUME IInv, Rebuilding, Left > 1, Proceed
  PROVE  /\ Rebuilding' /\ Left \in 2..25 /\ Left' = Left - 1
         /\ command = "up" /\ calls' \in Seq(Call) /\ UNCHANGED <<using, command>>
         /\ calls' # <<>> /\ result' = "running"
         /\ CallsFollow' /\ RemovalFollows' /\ BoundIsReady'
         /\ RefreshingIsBound' /\ DoneIsBound' /\ StateIsCurrent'
<1>1. calls \in Seq(Call) /\ calls # <<>> /\ command = "up"
  BY DEF IInv, TypeOK, Rebuilding, Left
<1>2. Left \in 2..25
  BY <1>1, RebuildHead
<1>3. /\ Rebuilding' /\ Left' = Left - 1
      /\ calls' \in Seq(Call) /\ UNCHANGED <<using, command>>
      /\ calls' # <<>> /\ result' = "running" /\ CallsFollow' /\ ~Refreshing'
  BY <1>1, <1>2, ProceedFacts
<1>4. QED
  BY <1>1, <1>2, <1>3
     DEF RemovalFollows, TakingDown, BoundIsReady, RefreshingIsBound, DoneIsBound,
         StateIsCurrent

LEMMA DownStep ==
  ASSUME IInv, TakingDown, Proceed
  PROVE  /\ Left \in 1..9 /\ Left' = Left - 1
         /\ command = "down" /\ calls' \in Seq(Call) /\ UNCHANGED <<using, command>>
         /\ calls' = <<>> <=> Left' = 0
         /\ result' = IF Left' = 0 THEN "done" ELSE "running"
         /\ CallsFollow' /\ LinksFollow' /\ DirsFollow' /\ DescriptionFollows'
         /\ BlanksFollow' /\ BindingFollows' /\ RefreshingIsBound' /\ DoneIsBound'
         /\ ~Rebuilding
<1>1. calls \in Seq(Call) /\ calls # <<>> /\ command = "down"
  BY DEF IInv, TypeOK, TakingDown, Left
<1>2. Left \in 1..9
  BY <1>1, DownHead
<1>3. /\ Left' = Left - 1
      /\ calls' \in Seq(Call) /\ UNCHANGED <<using, command>>
      /\ calls' = <<>> <=> Left' = 0
      /\ result' = IF Left' = 0 THEN "done" ELSE "running"
      /\ CallsFollow' /\ ~Refreshing'
  BY <1>1, <1>2, ProceedFacts
<1>4. ~Rebuilding' /\ ~Rebuilding
  BY <1>1, <1>3 DEF Rebuilding
<1>5. QED
  BY <1>1, <1>2, <1>3, <1>4
     DEF LinksFollow, DirsFollow, DescriptionFollows, BlanksFollow, BindingFollows,
         RefreshingIsBound, DoneIsBound

\* What was found in a directory, while nothing is described or removed.
LEMMA BlankFacts ==
  ASSUME IInv, dirs \subseteq dirs', UNCHANGED <<described, outlived>>
  PROVE  /\ AbsentIsBlank'
         /\ Rebuilding /\ Left \in (1..25) \ (18..22) /\ Left' = Left - 1 => BlanksFollow'
         /\ Left' \in 1..7 => BlanksFollow'
<1>1. AbsentIsBlank'
  BY DEF IInv, AbsentIsBlank
<1>2. ASSUME Rebuilding, Left \in (1..25) \ (18..22), Left' = Left - 1
      PROVE  BlanksFollow'
  <2>1. ASSUME NEW d PROVE Blank(d) => Blank(d)'
    BY DEF Blank
  <2>2. BlanksFollow
    BY DEF IInv
  <2>3. QED
    BY <1>2, <2>1, <2>2 DEF BlanksFollow
<1>3. ASSUME Left' \in 1..7 PROVE BlanksFollow'
  BY <1>3 DEF BlanksFollow
<1>4. QED
  BY <1>1, <1>2, <1>3

-----------------------------------------------------------------------------
(***************************************************************************)
(* The links: none, one, or the keyboard and then the mouse.               *)
(***************************************************************************)
LEMMA Links ==
  /\ <<>> \in Seq(Function) /\ <<"kbd">> \in Seq(Function)
  /\ <<"mouse">> \in Seq(Function) /\ <<"kbd", "mouse">> \in Seq(Function)
  /\ Append(<<>>, "kbd") = <<"kbd">>
  /\ Append(<<"kbd">>, "mouse") = <<"kbd", "mouse">>
<1>1. "kbd" \in Function /\ "mouse" \in Function
  BY DEF Function
<1>2. <<"kbd">> \in Seq(Function) /\ <<"mouse">> \in Seq(Function)
  BY <1>1
<1>3. <<"kbd", "mouse">> \in Seq(Function)
  BY <1>1
<1>4. Append(<<>>, "kbd") = <<"kbd">>
  <2>1. /\ Append(<<>>, "kbd") \in Seq(Function) /\ Len(Append(<<>>, "kbd")) = 1
        /\ Append(<<>>, "kbd")[1] = "kbd"
    <3>1. <<>> \in Seq(Function) /\ Len(<<>>) = 0
      OBVIOUS
    <3>2. QED
      BY <1>1, <3>1, AppendProperties
  <2>2. Len(<<"kbd">>) = 1 /\ <<"kbd">>[1] = "kbd"
    OBVIOUS
  <2>3. QED
    BY <1>2, <2>1, <2>2, SeqEqual
<1>5. Append(<<"kbd">>, "mouse") = <<"kbd", "mouse">>
  <2> DEFINE q == <<"kbd">>
             r == Append(q, "mouse")
             both == <<"kbd", "mouse">>
  <2>1. q \in Seq(Function) /\ Len(q) = 1 /\ q[1] = "kbd"
    BY <1>2
  <2>2. /\ both \in Seq(Function) /\ Len(both) = 2
        /\ both[1] = "kbd" /\ both[2] = "mouse"
    BY <1>3
  <2> HIDE DEF q, both
  <2>3. r \in Seq(Function) /\ Len(r) = 2 /\ r[1] = "kbd" /\ r[2] = "mouse"
    BY <1>1, <2>1, AppendProperties
  <2> HIDE DEF r
  <2>4. r = both
    BY <2>2, <2>3, SeqEqual
  <2>5. QED
    BY <2>4 DEF r, q, both
<1>6. <<>> \in Seq(Function)
  OBVIOUS
<1>7. QED
  BY <1>2, <1>3, <1>4, <1>5, <1>6

\* The functions they hold, ...
LEMMA LinksRange ==
  /\ Range(<<>>) = {} /\ Range(<<"kbd">>) = {"kbd"} /\ Range(<<"mouse">>) = {"mouse"}
  /\ Range(<<"kbd", "mouse">>) = {"kbd", "mouse"}
  BY DEF Range

\* ... and what is left without one of them.
LEMMA LinksRemoval ==
  /\ RemoveAt(<<"kbd">>, 1) = <<>> /\ RemoveAt(<<"mouse">>, 1) = <<>>
  /\ RemoveAt(<<"kbd", "mouse">>, 1) = <<"mouse">>
  /\ RemoveAt(<<"kbd", "mouse">>, 2) = <<"kbd">>
<1>1. ASSUME NEW f \in Function PROVE RemoveAt(<<f>>, 1) = <<>>
  <2>1. <<f>> \in Seq(Function) /\ Len(<<f>>) = 1 /\ 1 \in 1..1
    OBVIOUS
  <2>2. RemoveAt(<<f>>, 1) \in Seq(Function) /\ Len(RemoveAt(<<f>>, 1)) = 1 - 1
    BY <2>1, RemoveAtFacts
  <2>3. QED
    BY <2>2, EmptySeq
<1>2. ASSUME NEW i \in {1, 2}, NEW f, f = IF i = 1 THEN "mouse" ELSE "kbd"
      PROVE  RemoveAt(<<"kbd", "mouse">>, i) = <<f>>
  <2> DEFINE q == <<"kbd", "mouse">>
             r == RemoveAt(q, i)
  <2>1. q \in Seq(Function) /\ Len(q) = 2 /\ i \in 1..2 /\ q[1] = "kbd" /\ q[2] = "mouse"
    BY Links
  <2> HIDE DEF q
  <2>2. /\ r \in Seq(Function) /\ Len(r) = 2 - 1
        /\ \A j \in 1..(i - 1) : r[j] = q[j]
        /\ \A j \in i..(2 - 1) : r[j] = q[j + 1]
    <3> HIDE DEF r
    <3>1. r = RemoveAt(q, i)
      BY DEF r
    <3>2. i \in 1..Len(q)
      BY <2>1
    <3>3. q \in Seq(Function)
      BY <2>1
    <3>4. /\ r \in Seq(Function) /\ Len(r) = Len(q) - 1
          /\ \A j \in 1..(i - 1) : r[j] = q[j]
          /\ \A j \in i..(Len(q) - 1) : r[j] = q[j + 1]
      BY <3>1, <3>2, <3>3, RemoveAtFacts
    <3>5. QED
      BY <2>1, <3>4
  <2>3. Len(r) = 1 /\ r[1] = f
    BY <1>2, <2>1, <2>2
  <2>4. <<f>> \in Seq(Function) /\ Len(<<f>>) = 1 /\ <<f>>[1] = f
    BY <1>2 DEF Function
  <2> HIDE DEF r
  <2>5. r = <<f>>
    BY <2>2, <2>3, <2>4, SeqEqual
  <2>6. QED
    BY <2>5 DEF r, q
<1>3. QED
  BY <1>1, <1>2 DEF Function

-----------------------------------------------------------------------------
(***************************************************************************)
(* The invariant, action by action: up().                                  *)
(***************************************************************************)
LEMMA MakeInvariant ==
  ASSUME IInv, Make
  PROVE  IInv'
<1>1. Rebuilding /\ Proceed /\ TypeOK
  BY Callers DEF Make, IInv
<1>2. /\ Left \in 13..16 /\ On \in Dir
      /\ \/ Left = 16 /\ On = "strings"
         \/ Left = 15 /\ On = "config"
         \/ Left = 14 /\ On = "kbd"
         \/ Left = 13 /\ On = "mouse"
  BY <1>1, RebuildHead DEF Make, TypeOK, Dir, Function
<1>3. /\ Rebuilding' /\ Left' = Left - 1
      /\ command = "up" /\ calls' \in Seq(Call) /\ UNCHANGED <<using, command>>
      /\ calls' # <<>> /\ result' = "running"
      /\ CallsFollow' /\ RemovalFollows' /\ BoundIsReady'
      /\ RefreshingIsBound' /\ DoneIsBound' /\ StateIsCurrent'
  BY <1>1, <1>2, RebuildStep
<1>4. /\ dirs' = dirs \cup {"gadget", On}
      /\ UNCHANGED <<described, links, bound, primed, state, udc, refused, outlived, stuck,
                     warned, kills>>
  BY DEF Make, history
<1>5. links = <<>> /\ ~bound /\ (kills = 0 => ~state \/ stuck)
  BY <1>1, <1>2 DEF IInv, LinksFollow, BindingFollows
<1>6. TypeOK'
  BY <1>1, <1>2, <1>3, <1>4 DEF TypeOK, Dir
<1>7. TreeIsSound'
  BY <1>4, <1>5 DEF IInv, TreeIsSound
<1>8. LinksFollow'
  BY <1>2, <1>3, <1>4, <1>5, <1>7 DEF LinksFollow, Range
<1>9. DirsFollow'
  BY <1>1, <1>2, <1>3, <1>4 DEF IInv, DirsFollow
<1>10. DescriptionFollows'
  BY <1>2, <1>3 DEF DescriptionFollows
<1>11. BindingFollows' /\ BoundIsWhole'
  BY <1>2, <1>3, <1>4, <1>5 DEF BindingFollows, BoundIsWhole
<1>12. AbsentIsBlank' /\ BlanksFollow'
  <2>1. dirs \subseteq dirs' /\ Left \in (1..25) \ (18..22)
    BY <1>2, <1>4
  <2>2. QED
    BY <1>1, <1>3, <1>4, <2>1, BlankFacts
<1>13. QED
  BY <1>3, <1>6, <1>7, <1>8, <1>9, <1>10, <1>11, <1>12 DEF IInv

\* A directory that has just been described.
LEMMA DescribedFacts ==
  ASSUME TypeOK, NEW d \in dirs, Blank(d),
         NEW kept \in {{}, described[d]}, kept # {} => d # "config",
         described' = [described EXCEPT ![d] = kept \cup {using}],
         UNCHANGED <<dirs, outlived, using>>
  PROVE  /\ described' \in [Dir -> SUBSET Configs] /\ Tells(d, using)'
         /\ \A e \in Dir \ {d} : described'[e] = described[e]
<1>1. /\ described \in [Dir -> SUBSET Configs] /\ d \in Dir /\ using \in Configs
  BY DEF TypeOK
<1>2. /\ described' \in [Dir -> SUBSET Configs]
      /\ described'[d] = kept \cup {using}
      /\ \A e \in Dir \ {d} : described'[e] = described[e]
  BY <1>1
<1>3. d \notin outlived \/ d = "config" => kept = {}
  BY DEF Blank
<1>4. Tells(d, using)'
  BY <1>2, <1>3 DEF Tells
<1>5. QED
  BY <1>2, <1>4

LEMMA DescribeInvariant ==
  ASSUME IInv, Describe
  PROVE  IInv'
<1>1. Rebuilding /\ Proceed /\ TypeOK
  BY Callers DEF Describe, IInv
<1>2. PICK d \in Dir :
        /\ d = On /\ ~(d = "strings" /\ using \in Stringless)
        /\ \/ Left = 12 /\ d = "gadget"
           \/ Left = 11 /\ d = "strings"
           \/ Left = 10 /\ d = "config"
           \/ Left = 9 /\ d = "kbd"
           \/ Left = 8 /\ d = "mouse"
  BY <1>1, RebuildHead DEF Describe, TypeOK, Dir, Function
<1>3. /\ Rebuilding' /\ Left' = Left - 1
      /\ command = "up" /\ calls' \in Seq(Call) /\ UNCHANGED <<using, command>>
      /\ calls' # <<>> /\ result' = "running"
      /\ CallsFollow' /\ RemovalFollows' /\ BoundIsReady'
      /\ RefreshingIsBound' /\ DoneIsBound' /\ StateIsCurrent'
  BY <1>1, <1>2, RebuildStep
<1>4. d \in dirs /\ Blank(d)
  BY <1>1, <1>2 DEF IInv, DirsFollow, BlanksFollow
<1>5. /\ described' \in [Dir -> SUBSET Configs] /\ Tells(d, using)'
      /\ \A e \in Dir \ {d} : described'[e] = described[e]
      /\ UNCHANGED <<dirs, links, bound, primed, state, udc, refused, outlived, stuck,
                     warned, kills>>
  <2>1. PICK kept \in {{}, described[d]} :
          /\ kept # {} => d # "config"
          /\ described' = [described EXCEPT ![d] = kept \cup {using}]
    BY <1>2 DEF Describe, MaySkip
  <2>2. UNCHANGED <<dirs, links, bound, primed, state, udc, refused, outlived, stuck,
                    warned, kills>>
    BY DEF Describe, history
  <2>3. QED
    BY <1>1, <1>2, <1>3, <1>4, <2>1, <2>2, DescribedFacts
<1>6. links = <<>> /\ ~bound /\ (kills = 0 => ~state \/ stuck)
  BY <1>1, <1>2 DEF IInv, LinksFollow, BindingFollows
<1>7. TypeOK' /\ TreeIsSound' /\ LinksFollow'
  <2>1. TypeOK'
    BY <1>1, <1>3, <1>5 DEF TypeOK
  <2>2. TreeIsSound'
    BY <1>5 DEF IInv, TreeIsSound
  <2>3. LinksFollow'
    BY <1>2, <1>3, <1>5, <1>6, LinksRange DEF LinksFollow
  <2>4. QED
    BY <2>1, <2>2, <2>3
<1>8. DirsFollow'
  BY <1>1, <1>2, <1>3, <1>5 DEF IInv, DirsFollow
<1>9. DescriptionFollows'
  <2>1. ASSUME NEW e \in Dir \ {d} PROVE Tells(e, using) => Tells(e, using)'
    BY <1>3, <1>5 DEF Tells
  <2>2. {"gadget", "strings", "config", "kbd", "mouse"} \subseteq Dir
    BY DEF Dir, Function
  <2>3. QED
    BY <1>1, <1>2, <1>3, <1>5, <2>1, <2>2 DEF IInv, DescriptionFollows
<1>10. AbsentIsBlank' /\ BlanksFollow'
  <2>1. AbsentIsBlank'
    BY <1>4, <1>5 DEF IInv, AbsentIsBlank
  <2>2. ASSUME NEW e \in Dir \ {d} PROVE Blank(e) => Blank(e)'
    BY <1>5 DEF Blank
  <2>3. {"gadget", "strings", "config", "kbd", "mouse"} \subseteq Dir
    BY DEF Dir, Function
  <2>4. BlanksFollow
    BY DEF IInv
  <2>5. Left' \in 12..17 => Blank("gadget")'
    BY <1>1, <1>2, <1>3, <2>2, <2>3, <2>4 DEF BlanksFollow
  <2>6. Left' \in 11..18 => Blank("strings")'
    BY <1>1, <1>2, <1>3, <2>2, <2>3, <2>4 DEF BlanksFollow
  <2>7. Left' \in 10..21 => Blank("config")'
    BY <1>1, <1>2, <1>3, <2>2, <2>3, <2>4 DEF BlanksFollow
  <2>8. Left' \in 9..20 => Blank("kbd")'
    BY <1>1, <1>2, <1>3, <2>2, <2>3, <2>4 DEF BlanksFollow
  <2>9. Left' \in 8..19 => Blank("mouse")'
    BY <1>1, <1>2, <1>3, <2>2, <2>3, <2>4 DEF BlanksFollow
  <2>10. QED
    BY <2>1, <2>5, <2>6, <2>7, <2>8, <2>9 DEF BlanksFollow
<1>11. BindingFollows' /\ BoundIsWhole'
  BY <1>2, <1>3, <1>5, <1>6 DEF BindingFollows, BoundIsWhole
<1>12. QED
  BY <1>3, <1>7, <1>8, <1>9, <1>10, <1>11 DEF IInv

LEMMA DropStringsInvariant ==
  ASSUME IInv, DropStrings
  PROVE  IInv'
<1>1. Rebuilding /\ Proceed /\ TypeOK
  BY Callers DEF DropStrings, IInv
<1>2. Left = 11 /\ using \in Stringless
  BY <1>1, RebuildHead DEF DropStrings, TypeOK
<1>3. /\ Rebuilding' /\ Left' = 10
      /\ command = "up" /\ calls' \in Seq(Call) /\ UNCHANGED <<using, command>>
      /\ calls' # <<>> /\ result' = "running"
      /\ CallsFollow' /\ RemovalFollows' /\ BoundIsReady'
      /\ RefreshingIsBound' /\ DoneIsBound' /\ StateIsCurrent'
  BY <1>1, <1>2, RebuildStep
<1>4. /\ dirs' = dirs \ {"strings"} /\ outlived' = outlived \ {"strings"}
      /\ described' = [described EXCEPT !["strings"] = {}]
      /\ UNCHANGED <<links, bound, primed, state, udc, refused, stuck, warned, kills>>
  BY DEF DropStrings
<1>5. links = <<>> /\ ~bound /\ (kills = 0 => ~state \/ stuck) /\ "gadget" \in dirs
  BY <1>1, <1>2 DEF IInv, LinksFollow, BindingFollows, DirsFollow
<1>6. /\ described' \in [Dir -> SUBSET Configs] /\ described'["strings"] = {}
      /\ \A d \in Dir \ {"strings"} : described'[d] = described[d]
  BY <1>1, <1>4 DEF TypeOK, Dir
<1>7. TypeOK' /\ TreeIsSound' /\ LinksFollow'
  <2>1. TypeOK'
    BY <1>1, <1>3, <1>4, <1>6 DEF TypeOK
  <2>2. TreeIsSound'
    BY <1>4, <1>5, LinksRange DEF TreeIsSound
  <2>3. LinksFollow'
    BY <1>3, <1>4, <1>5, LinksRange DEF LinksFollow
  <2>4. QED
    BY <2>1, <2>2, <2>3
<1>8. DirsFollow' /\ DescriptionFollows'
  <2>1. DirsFollow'
    BY <1>1, <1>2, <1>3, <1>4 DEF IInv, DirsFollow
  <2>2. Tells("gadget", using)
    BY <1>1, <1>2 DEF IInv, DescriptionFollows
  <2>3. Tells("gadget", using)'
    BY <1>3, <1>4, <1>6, <2>2 DEF Tells, Dir
  <2>4. DescriptionFollows'
    BY <1>2, <1>3, <1>4, <2>3 DEF DescriptionFollows
  <2>5. QED
    BY <2>1, <2>4
<1>9. AbsentIsBlank' /\ BlanksFollow'
  <2>1. AbsentIsBlank'
    BY <1>4, <1>6 DEF IInv, AbsentIsBlank
  <2>2. ASSUME NEW d \in Dir \ {"strings"} PROVE Blank(d) => Blank(d)'
    BY <1>4, <1>6 DEF Blank
  <2>3. {"config", "kbd", "mouse"} \subseteq Dir \ {"strings"}
    BY DEF Dir, Function
  <2>4. BlanksFollow'
    BY <1>1, <1>2, <1>3, <2>2, <2>3 DEF IInv, BlanksFollow
  <2>5. QED
    BY <2>1, <2>4
<1>10. BindingFollows' /\ BoundIsWhole'
  BY <1>3, <1>4, <1>5 DEF BindingFollows, BoundIsWhole
<1>11. QED
  BY <1>3, <1>7, <1>8, <1>9, <1>10 DEF IInv

LEMMA LinkInvariant ==
  ASSUME IInv, Link
  PROVE  IInv'
<1>1. Rebuilding /\ Proceed /\ TypeOK
  BY Callers DEF Link, IInv
<1>2. \/ Left = 7 /\ On = "kbd"
      \/ Left = 6 /\ On = "mouse"
  BY <1>1, RebuildHead DEF Link, TypeOK
<1>3. /\ Rebuilding' /\ Left' = Left - 1
      /\ command = "up" /\ calls' \in Seq(Call) /\ UNCHANGED <<using, command>>
      /\ calls' # <<>> /\ result' = "running"
      /\ CallsFollow' /\ RemovalFollows' /\ BoundIsReady'
      /\ RefreshingIsBound' /\ DoneIsBound' /\ StateIsCurrent'
  BY <1>1, <1>2, RebuildStep
<1>4. /\ links' = Append(links, On)
      /\ UNCHANGED <<dirs, described, bound, primed, state, udc, refused, outlived, stuck,
                     warned, kills>>
  BY DEF Link, history
<1>5. /\ ~bound /\ (kills = 0 => ~state \/ stuck)
      /\ {"gadget", "config", "kbd", "mouse"} \subseteq dirs
  BY <1>1, <1>2 DEF IInv, DirsFollow, BindingFollows
<1>6. \/ Left = 7 /\ links' = <<"kbd">>
      \/ Left = 6 /\ links' = <<"kbd", "mouse">>
  <2>1. \/ Left = 7 /\ links = <<>> /\ links' = Append(links, "kbd")
        \/ Left = 6 /\ links = <<"kbd">> /\ links' = Append(links, "mouse")
    BY <1>1, <1>2, <1>4 DEF IInv, LinksFollow
  <2>2. QED
    BY <2>1, Links
<1>7. TypeOK'
  <2>1. links' \in Seq(Function)
    BY <1>6, Links
  <2>2. QED
    BY <1>1, <1>3, <1>4, <2>1 DEF TypeOK
<1>8. TreeIsSound'
  <2>1. Function \ dirs = {}
    BY <1>5 DEF Function
  <2>2. QED
    BY <1>4, <1>5, <1>6, <2>1 DEF TreeIsSound
<1>9. LinksFollow'
  BY <1>3, <1>6 DEF LinksFollow
<1>10. DirsFollow' /\ DescriptionFollows'
  <2>1. DirsFollow'
    BY <1>1, <1>2, <1>3, <1>4 DEF IInv, DirsFollow
  <2>2. ASSUME NEW d PROVE Tells(d, using) => Tells(d, using)'
    BY <1>3, <1>4 DEF Tells
  <2>3. DescriptionFollows'
    BY <1>1, <1>2, <1>3, <1>4, <2>2 DEF IInv, DescriptionFollows
  <2>4. QED
    BY <2>1, <2>3
<1>11. BindingFollows' /\ BoundIsWhole'
  BY <1>2, <1>3, <1>4, <1>5 DEF BindingFollows, BoundIsWhole
<1>12. AbsentIsBlank' /\ BlanksFollow'
  <2>1. dirs \subseteq dirs' /\ Left \in (1..25) \ (18..22)
    BY <1>2, <1>4
  <2>2. QED
    BY <1>1, <1>3, <1>4, <2>1, BlankFacts
<1>13. QED
  BY <1>3, <1>7, <1>8, <1>9, <1>10, <1>11, <1>12 DEF IInv

LEMMA BindInvariant ==
  ASSUME IInv, Bind
  PROVE  IInv'
<1>1. Rebuilding /\ Proceed /\ TypeOK
  BY Callers DEF Bind, IInv
<1>2. Left = 5
  BY <1>1, RebuildHead DEF Bind, TypeOK
<1>3. /\ Rebuilding' /\ Left' = 4
      /\ command = "up" /\ calls' \in Seq(Call) /\ UNCHANGED <<using, command>>
      /\ calls' # <<>> /\ result' = "running"
      /\ CallsFollow' /\ RemovalFollows' /\ BoundIsReady'
      /\ RefreshingIsBound' /\ DoneIsBound' /\ StateIsCurrent'
  BY <1>1, <1>2, RebuildStep
<1>4. /\ bound' = TRUE /\ primed' = {} /\ warned' = FALSE
      /\ UNCHANGED <<dirs, described, links, state, udc, refused, outlived, stuck, kills>>
  BY DEF Bind
<1>5. /\ links = <<"kbd", "mouse">> /\ using \in Configs
      /\ {"gadget", "config", "kbd", "mouse"} \subseteq dirs
      /\ Tells("gadget", using) /\ Tells("config", using)
      /\ Tells("kbd", using) /\ Tells("mouse", using)
      /\ IF using \in Stringless THEN "strings" \notin dirs ELSE Tells("strings", using)
  BY <1>1, <1>2 DEF IInv, LinksFollow, DirsFollow, DescriptionFollows, TypeOK
<1>6. TypeOK'
  BY <1>1, <1>3, <1>4 DEF TypeOK
<1>7. BoundIsWhole'
  <2>1. Whole(using)
    BY <1>5 DEF Whole, Dir, Function
  <2>2. Whole(using)'
    BY <1>3, <1>4, <2>1 DEF Whole, Tells
  <2>3. QED
    BY <1>3, <1>5, <2>2 DEF BoundIsWhole
<1>8. /\ TreeIsSound' /\ LinksFollow' /\ DirsFollow' /\ DescriptionFollows'
      /\ BindingFollows'
  BY <1>1, <1>2, <1>3, <1>4, <1>5
     DEF IInv, TreeIsSound, LinksFollow, DirsFollow, DescriptionFollows, BindingFollows
<1>9. AbsentIsBlank' /\ BlanksFollow'
  BY <1>1, <1>2, <1>3, <1>4, BlankFacts
<1>10. QED
  BY <1>3, <1>6, <1>7, <1>8, <1>9 DEF IInv

\* What is left of up() once the gadget is bound leaves the tree alone.
LEMMA BoundStep ==
  ASSUME IInv, Rebuilding, Left \in 1..4,
         Proceed, UNCHANGED <<dirs, described, links, bound, outlived>>
  PROVE  /\ bound /\ TreeIsSound' /\ BoundIsWhole'
         /\ LinksFollow' /\ DirsFollow' /\ DescriptionFollows'
         /\ AbsentIsBlank' /\ BlanksFollow'
         /\ CallsFollow' /\ RemovalFollows' /\ RefreshingIsBound' /\ DoneIsBound'
         /\ StateIsCurrent' /\ UNCHANGED <<using, command>>
         /\ calls' \in Seq(Call) /\ Left' = Left - 1
         /\ calls' = <<>> <=> Left' = 0
         /\ result' = IF Left' = 0 THEN "done" ELSE "running"
         /\ Rebuilding' <=> Left' > 0
<1>1. bound /\ calls # <<>> /\ command = "up"
  <2>1. bound
    BY DEF IInv, BindingFollows
  <2>2. calls # <<>>
    BY DEF Left
  <2>3. QED
    BY <2>1, <2>2 DEF Rebuilding
<1>2. /\ calls' \in Seq(Call) /\ UNCHANGED <<using, command>>
      /\ Left' = Left - 1
      /\ calls' = <<>> <=> Left' = 0
      /\ result' = IF Left' = 0 THEN "done" ELSE "running"
      /\ Rebuilding' <=> Left' > 0
      /\ ~Refreshing' /\ CallsFollow'
  BY <1>1, ProceedFacts
<1>3. TreeIsSound' /\ BoundIsWhole'
  BY DEF IInv, TreeIsSound, BoundIsWhole, Whole, Tells
<1>4. LinksFollow' /\ DirsFollow' /\ DescriptionFollows' /\ AbsentIsBlank' /\ BlanksFollow'
  <2>1. AbsentIsBlank' /\ BlanksFollow'
    BY <1>2, BlankFacts
  <2>2. QED
    BY <1>2, <2>1 DEF IInv, LinksFollow, DirsFollow, DescriptionFollows
<1>5. RemovalFollows' /\ RefreshingIsBound' /\ DoneIsBound' /\ StateIsCurrent'
  BY <1>1, <1>2
     DEF RemovalFollows, TakingDown, RefreshingIsBound, DoneIsBound, StateIsCurrent
<1>6. QED
  BY <1>1, <1>2, <1>3, <1>4, <1>5

LEMMA PrimeInvariant ==
  ASSUME IInv, Prime
  PROVE  IInv'
<1>1. Rebuilding /\ Proceed /\ TypeOK
  BY Callers DEF Prime, IInv
<1>2. \/ Left = 3 /\ On = "kbd"
      \/ Left = 2 /\ On = "mouse"
  BY <1>1, RebuildHead DEF Prime, TypeOK
<1>3. UNCHANGED <<dirs, described, links, bound, state, udc, refused, outlived, stuck, kills>>
  BY DEF Prime
<1>4. /\ bound /\ TreeIsSound' /\ BoundIsWhole'
      /\ LinksFollow' /\ DirsFollow' /\ DescriptionFollows'
      /\ AbsentIsBlank' /\ BlanksFollow'
      /\ CallsFollow' /\ RemovalFollows' /\ RefreshingIsBound' /\ DoneIsBound'
      /\ StateIsCurrent' /\ UNCHANGED <<using, command>>
      /\ calls' \in Seq(Call) /\ Left' = Left - 1
      /\ calls' # <<>> /\ result' = "running" /\ Rebuilding'
  BY <1>1, <1>2, <1>3, BoundStep
<1>5. \/ primed' = primed \cup {On} /\ warned' = warned
      \/ warned' = TRUE /\ primed' = primed
  BY DEF Prime
<1>6. TypeOK'
  BY <1>1, <1>2, <1>3, <1>4, <1>5 DEF TypeOK, Function
<1>7. BindingFollows'
  BY <1>1, <1>2, <1>3, <1>4, <1>5 DEF IInv, BindingFollows
<1>8. BoundIsReady'
  BY <1>4 DEF BoundIsReady
<1>9. QED
  BY <1>4, <1>6, <1>7, <1>8 DEF IInv

LEMMA SaveInvariant ==
  ASSUME IInv, Save
  PROVE  IInv'
<1>1. Rebuilding /\ Proceed /\ TypeOK
  BY Callers DEF Save, IInv
<1>2. Left = 1
  BY <1>1, RebuildHead DEF Save, TypeOK
<1>3. UNCHANGED <<dirs, described, links, bound, primed, udc, refused, outlived, kills>>
  BY DEF Save, tree
<1>4. /\ bound /\ TreeIsSound' /\ BoundIsWhole'
      /\ LinksFollow' /\ DirsFollow' /\ DescriptionFollows'
      /\ AbsentIsBlank' /\ BlanksFollow'
      /\ CallsFollow' /\ RemovalFollows' /\ RefreshingIsBound' /\ DoneIsBound'
      /\ StateIsCurrent' /\ UNCHANGED <<using, command>>
      /\ calls' \in Seq(Call) /\ calls' = <<>> /\ result' = "done" /\ ~Rebuilding'
  BY <1>1, <1>2, <1>3, BoundStep
<1>5. \/ state' = TRUE /\ stuck' = FALSE /\ warned' = warned
      \/ warned' = TRUE /\ state' = state /\ stuck' = stuck
  BY DEF Save
<1>6. TypeOK'
  BY <1>1, <1>3, <1>4, <1>5 DEF TypeOK
<1>7. BindingFollows'
  BY <1>4 DEF BindingFollows
<1>8. BoundIsReady'
  <2>1. kills = 0 /\ ~warned => primed = Function
    <3>1. kills = 0 /\ ~warned => "kbd" \in primed /\ "mouse" \in primed
      BY <1>1, <1>2 DEF IInv, BindingFollows
    <3>2. QED
      BY <1>1, <3>1 DEF TypeOK, Function
  <2>2. QED
    BY <1>3, <1>5, <2>1 DEF BoundIsReady
<1>9. QED
  BY <1>4, <1>6, <1>7, <1>8 DEF IInv

LEMMA ResolveInvariant ==
  ASSUME IInv, Resolve
  PROVE  IInv'
<1>1. Proceed /\ TypeOK /\ calls # <<>>
      /\ UNCHANGED <<dirs, described, links, bound, primed, state, udc, refused, outlived,
                     stuck, warned, kills>>
  BY DEF Resolve, IInv, Calling, tree, history
<1>2. CASE Rebuilding
  <2>1. Left = 4
    BY <1>1, <1>2, RebuildHead DEF Resolve, TypeOK
  <2>2. /\ bound /\ TreeIsSound' /\ BoundIsWhole'
        /\ LinksFollow' /\ DirsFollow' /\ DescriptionFollows'
        /\ AbsentIsBlank' /\ BlanksFollow'
        /\ CallsFollow' /\ RemovalFollows' /\ RefreshingIsBound' /\ DoneIsBound'
        /\ StateIsCurrent' /\ UNCHANGED <<using, command>>
        /\ calls' \in Seq(Call) /\ Left' = 3
        /\ calls' # <<>> /\ result' = "running" /\ Rebuilding'
    BY <1>1, <1>2, <2>1, BoundStep
  <2>3. TypeOK' /\ BindingFollows' /\ BoundIsReady'
    BY <1>1, <2>2 DEF TypeOK, BindingFollows, BoundIsReady
  <2>4. QED
    BY <2>2, <2>3 DEF IInv
<1>3. CASE Refreshing
  <2>1. bound /\ command = "up"
    BY <1>3 DEF IInv, RefreshingIsBound, Refreshing
  <2>2. ~Rebuilding /\ Left = 2
    BY <1>3, RefreshHead
  <2>3. kills = 0 /\ ~warned => primed = Function
    BY <2>1, <2>2 DEF IInv, BoundIsReady
  <2>4. /\ Rebuilding' /\ Left' = 1 /\ UNCHANGED <<using, command>>
        /\ calls' \in Seq(Call) /\ calls' # <<>> /\ result' = "running"
        /\ CallsFollow' /\ ~Refreshing'
    BY <1>1, <1>3, <2>2, ProceedFacts
  <2>5. PICK c \in Configs : Whole(c)
    BY <2>1 DEF IInv, BoundIsWhole
  <2>6. Whole(c)'
    BY <1>1, <2>5 DEF Whole, Tells
  <2>7. TypeOK' /\ TreeIsSound' /\ BoundIsWhole'
    BY <1>1, <2>4, <2>5, <2>6 DEF TypeOK, IInv, TreeIsSound, BoundIsWhole
  <2>8. /\ LinksFollow' /\ DirsFollow' /\ DescriptionFollows'
        /\ AbsentIsBlank' /\ BlanksFollow'
    <3>1. AbsentIsBlank' /\ BlanksFollow'
      BY <1>1, <2>4, BlankFacts
    <3>2. QED
      BY <1>1, <2>4, <2>5, <3>1
         DEF Whole, Tells, LinksFollow, DirsFollow, DescriptionFollows, Dir, Function
  <2>9. BindingFollows' /\ BoundIsReady'
    BY <1>1, <2>1, <2>3, <2>4 DEF BindingFollows, BoundIsReady, Function
  <2>10. RemovalFollows' /\ RefreshingIsBound' /\ DoneIsBound' /\ StateIsCurrent'
    BY <2>1, <2>4 DEF RemovalFollows, TakingDown, RefreshingIsBound, DoneIsBound,
                      StateIsCurrent
  <2>11. QED
    BY <2>4, <2>7, <2>8, <2>9, <2>10 DEF IInv
<1>4. QED
  BY <1>2, <1>3, Callers DEF Resolve

-----------------------------------------------------------------------------
(***************************************************************************)
(* The invariant, action by action: down(), of a command of its own or of  *)
(* an up() that finds ruins.                                               *)
(***************************************************************************)
\* The calls of down() at the head of up() find nothing bound.
LEMMA RuinsStep ==
  ASSUME IInv, Rebuilding, Left \in 17..25, Proceed
  PROVE  /\ ~bound /\ (kills = 0 => ~state \/ stuck)
         /\ Rebuilding' /\ Left' = Left - 1
         /\ calls' \in Seq(Call) /\ UNCHANGED <<using, command>>
         /\ calls' # <<>> /\ result' = "running"
         /\ CallsFollow' /\ RemovalFollows' /\ BoundIsReady'
         /\ RefreshingIsBound' /\ DoneIsBound' /\ StateIsCurrent'
         /\ DescriptionFollows' /\ DirsFollow'
<1>1. ~bound /\ (kills = 0 => ~state \/ stuck)
  BY DEF IInv, BindingFollows
<1>2. /\ Rebuilding' /\ Left' = Left - 1
      /\ calls' \in Seq(Call) /\ UNCHANGED <<using, command>>
      /\ calls' # <<>> /\ result' = "running"
      /\ CallsFollow' /\ RemovalFollows' /\ BoundIsReady'
      /\ RefreshingIsBound' /\ DoneIsBound' /\ StateIsCurrent'
  BY RebuildStep
<1>3. DescriptionFollows' /\ DirsFollow'
  BY <1>2 DEF DescriptionFollows, DirsFollow
<1>4. QED
  BY <1>1, <1>2, <1>3

LEMMA UnbindInvariant ==
  ASSUME IInv, Unbind
  PROVE  IInv'
<1>1. /\ Proceed /\ TypeOK /\ TreeIsSound /\ BoundIsWhole /\ calls \in Seq(Call)
      /\ UNCHANGED <<dirs, described, links, bound, primed, state, udc, refused, outlived,
                     stuck, warned, kills>>
  BY DEF Unbind, IInv, TypeOK, tree, history
<1>2. TreeIsSound' /\ BoundIsWhole' /\ AbsentIsBlank'
  BY <1>1, BlankFacts DEF TreeIsSound, BoundIsWhole, Whole, Tells
<1>3. CASE Rebuilding
  <2>1. Left = 25
    BY <1>1, <1>3, RebuildHead DEF Unbind
  <2>2. /\ ~bound /\ (kills = 0 => ~state \/ stuck)
        /\ Rebuilding' /\ Left' = 24
        /\ calls' \in Seq(Call) /\ UNCHANGED <<using, command>>
        /\ calls' # <<>> /\ result' = "running"
        /\ CallsFollow' /\ RemovalFollows' /\ BoundIsReady'
        /\ RefreshingIsBound' /\ DoneIsBound' /\ StateIsCurrent'
        /\ DescriptionFollows' /\ DirsFollow'
    BY <1>1, <1>3, <2>1, RuinsStep
  <2>3. TypeOK' /\ LinksFollow' /\ BlanksFollow' /\ BindingFollows'
    BY <1>1, <1>3, <2>1, <2>2, BlankFacts DEF TypeOK, LinksFollow, BindingFollows
  <2>4. QED
    BY <1>2, <2>2, <2>3 DEF IInv
<1>4. CASE TakingDown
  <2>1. Left = 9
    BY <1>1, <1>4, DownHead DEF Unbind
  <2>2. /\ Left' = 8 /\ calls' \in Seq(Call) /\ UNCHANGED <<using, command>>
        /\ calls' # <<>> /\ result' = "running"
        /\ CallsFollow' /\ LinksFollow' /\ DirsFollow' /\ DescriptionFollows'
        /\ BlanksFollow' /\ BindingFollows' /\ RefreshingIsBound' /\ DoneIsBound'
        /\ ~Rebuilding
    BY <1>1, <1>4, <2>1, DownStep
  <2>3. TypeOK' /\ RemovalFollows' /\ StateIsCurrent'
    BY <1>1, <2>2 DEF TypeOK, RemovalFollows, StateIsCurrent
  <2>4. BoundIsReady'
    BY <1>1, <2>2 DEF IInv, BoundIsReady
  <2>5. QED
    BY <1>2, <2>2, <2>3, <2>4 DEF IInv
<1>5. QED
  BY <1>3, <1>4, Callers DEF Unbind

\* What an unlink leaves.
LEMMA UnlinkFacts ==
  ASSUME IInv, Unlink
  PROVE  /\ links' \in {<<>>, <<"kbd">>, <<"mouse">>, <<"kbd", "mouse">>}
         /\ Range(links') \subseteq Range(links) /\ On \notin Range(links')
         /\ links' # <<>> => links # <<>>
         /\ bound' => bound /\ UNCHANGED <<links, primed>>
         /\ bound' \in BOOLEAN /\ primed' \subseteq Function
<1>1. /\ links \in {<<>>, <<"kbd">>, <<"mouse">>, <<"kbd", "mouse">>}
      /\ bound \in BOOLEAN /\ primed \subseteq Function
  BY DEF IInv, TreeIsSound, TypeOK
<1>2. CASE On \notin Range(links) /\ UNCHANGED <<links, bound, primed>>
  BY <1>1, <1>2
<1>3. ASSUME NEW i \in DOMAIN links, links[i] = On, links' = RemoveAt(links, i),
             bound' = FALSE, primed' = {}
      PROVE  /\ links' \in {<<>>, <<"kbd">>, <<"mouse">>, <<"kbd", "mouse">>}
             /\ Range(links') \subseteq Range(links) /\ On \notin Range(links')
             /\ links' # <<>> => links # <<>>
  <2>1. CASE links = <<"kbd">> \/ links = <<"mouse">>
    <3>1. i = 1
      BY <2>1
    <3>2. links' = <<>>
      BY <1>3, <2>1, <3>1, LinksRemoval
    <3>3. QED
      BY <3>2, LinksRange
  <2>2. CASE links = <<"kbd", "mouse">>
    <3>1. \/ i = 1 /\ On = "kbd"
          \/ i = 2 /\ On = "mouse"
      BY <1>3, <2>2
    <3>2. \/ On = "kbd" /\ links' = <<"mouse">>
          \/ On = "mouse" /\ links' = <<"kbd">>
      BY <1>3, <2>2, <3>1, LinksRemoval
    <3>3. links # <<>>
      BY <2>2
    <3>4. QED
      BY <2>2, <3>2, <3>3, LinksRange
  <2>3. links # <<>>
    BY <1>3
  <2>4. QED
    BY <1>1, <2>1, <2>2, <2>3
<1>4. QED
  BY <1>2, <1>3 DEF Unlink

LEMMA UnlinkInvariant ==
  ASSUME IInv, Unlink
  PROVE  IInv'
<1>1. /\ Proceed /\ TypeOK /\ TreeIsSound /\ BoundIsWhole /\ calls \in Seq(Call)
      /\ UNCHANGED <<dirs, described, state, udc, refused, outlived, stuck, warned, kills>>
  BY DEF Unlink, IInv, TypeOK, history
<1>2. /\ links' \in {<<>>, <<"kbd">>, <<"mouse">>, <<"kbd", "mouse">>}
      /\ Range(links') \subseteq Range(links) /\ On \notin Range(links')
      /\ links' # <<>> => links # <<>>
      /\ bound' => bound /\ UNCHANGED <<links, primed>>
      /\ bound' \in BOOLEAN /\ primed' \subseteq Function
  BY UnlinkFacts
<1>3. TreeIsSound' /\ links' \in Seq(Function) /\ AbsentIsBlank'
  <2>1. links' \in Seq(Function)
    BY <1>2, Links
  <2>2. AbsentIsBlank'
    BY <1>1, BlankFacts
  <2>3. QED
    BY <1>1, <1>2, <2>1, <2>2 DEF TreeIsSound
<1>4. CASE Rebuilding
  <2>1. \/ Left = 24 /\ On = "kbd"
        \/ Left = 23 /\ On = "mouse"
    BY <1>1, <1>4, RebuildHead DEF Unlink
  <2>2. /\ ~bound /\ (kills = 0 => ~state \/ stuck)
        /\ Rebuilding' /\ Left' = Left - 1
        /\ calls' \in Seq(Call) /\ UNCHANGED <<using, command>>
        /\ calls' # <<>> /\ result' = "running"
        /\ CallsFollow' /\ RemovalFollows' /\ BoundIsReady'
        /\ RefreshingIsBound' /\ DoneIsBound' /\ StateIsCurrent'
        /\ DescriptionFollows' /\ DirsFollow'
    BY <1>1, <1>4, <2>1, RuinsStep
  <2>3. ~bound' /\ BoundIsWhole'
    BY <1>2, <2>2 DEF BoundIsWhole
  <2>4. TypeOK' /\ BindingFollows'
    BY <1>1, <1>2, <1>3, <2>1, <2>2, <2>3 DEF TypeOK, BindingFollows
  <2>5. LinksFollow'
    <3>1. "kbd" \notin Range(links')
      BY <1>2, <1>4, <2>1 DEF IInv, LinksFollow
    <3>2. Left' = 22 => links' = <<>>
      BY <1>2, <2>1, <2>2, <3>1, LinksRange
    <3>3. QED
      BY <2>1, <2>2, <3>1, <3>2 DEF LinksFollow
  <2>6. BlanksFollow'
    BY <1>1, <1>4, <2>1, <2>2, BlankFacts
  <2>7. QED
    BY <1>3, <2>2, <2>3, <2>4, <2>5, <2>6 DEF IInv
<1>5. CASE TakingDown
  <2>1. \/ Left = 8 /\ On = "kbd"
        \/ Left = 7 /\ On = "mouse"
    BY <1>1, <1>5, DownHead DEF Unlink
  <2>2. /\ Left' = Left - 1 /\ calls' \in Seq(Call) /\ UNCHANGED <<using, command>>
        /\ calls' # <<>> /\ result' = "running"
        /\ CallsFollow' /\ LinksFollow' /\ DirsFollow' /\ DescriptionFollows'
        /\ BlanksFollow' /\ BindingFollows' /\ RefreshingIsBound' /\ DoneIsBound'
        /\ ~Rebuilding
    BY <1>1, <1>5, <2>1, DownStep
  <2>3. ~bound' /\ "kbd" \notin Range(links')
    <3>1. "kbd" \notin Range(links')
      BY <1>2, <1>5, <2>1 DEF IInv, RemovalFollows
    <3>2. ASSUME bound' PROVE FALSE
      <4>1. links = <<"kbd", "mouse">>
        BY <1>1, <1>2, <3>2 DEF BoundIsWhole, Whole
      <4>2. QED
        BY <1>2, <3>1, <3>2, <4>1, LinksRange
    <3>3. QED
      BY <3>1, <3>2
  <2>4. Left' = 6 => links' = <<>>
    BY <1>2, <2>1, <2>2, <2>3, LinksRange
  <2>5. TypeOK' /\ BoundIsReady' /\ StateIsCurrent' /\ BoundIsWhole'
    BY <1>1, <1>2, <1>3, <2>2, <2>3
       DEF TypeOK, BoundIsReady, StateIsCurrent, BoundIsWhole
  <2>6. RemovalFollows'
    BY <2>1, <2>2, <2>3, <2>4 DEF RemovalFollows
  <2>7. QED
    BY <1>3, <2>2, <2>5, <2>6 DEF IInv
<1>6. QED
  BY <1>4, <1>5, Callers DEF Unlink

\* What a rmdir leaves.
LEMMA RemoveDirFacts ==
  ASSUME IInv, RemoveDir, On \in Dir, links = <<>>
  PROVE  /\ dirs' \subseteq dirs /\ described' \in [Dir -> SUBSET Configs]
         /\ refused \subseteq refused' /\ refused' \subseteq Dir /\ outlived' \subseteq Dir
         /\ AbsentIsBlank' /\ \A d \in Dir : d = On \/ Blank(d) => Blank(d)'
         /\ dirs' # {} => "gadget" \in dirs'
         /\ On \in dirs' => \/ On \in refused'
                            \/ On = "gadget" /\ dirs' # {"gadget"}
<1>1. /\ dirs \subseteq Dir /\ described \in [Dir -> SUBSET Configs]
      /\ refused \subseteq Dir /\ outlived \subseteq Dir
      /\ dirs # {} => "gadget" \in dirs
      /\ outlived \subseteq dirs /\ \A d \in Dir \ dirs : described[d] = {}
  BY DEF IInv, TypeOK, TreeIsSound, AbsentIsBlank
<1>2. InUse(On) => On = "gadget" /\ dirs # {"gadget"}
  BY LinksRange DEF InUse
<1>3. PICK e \in Dir : e = On
  OBVIOUS
<1>4. CASE /\ e \in dirs /\ ~InUse(e)
           /\ dirs' = dirs \ {e}
           /\ described' = [described EXCEPT ![e] = {}]
           /\ outlived' = outlived \ {e}
           /\ UNCHANGED refused
  <2>1. e = "gadget" => dirs = {"gadget"}
    BY <1>4 DEF InUse
  <2>2. /\ described' \in [Dir -> SUBSET Configs] /\ described'[e] = {}
        /\ \A d \in Dir \ {e} : described'[d] = described[d]
    BY <1>1, <1>4
  <2>3. AbsentIsBlank'
    BY <1>1, <1>4, <2>2 DEF AbsentIsBlank
  <2>4. ASSUME NEW d \in Dir PROVE d = e \/ Blank(d) => Blank(d)'
    BY <1>4, <2>2 DEF Blank
  <2>5. QED
    BY <1>1, <1>3, <1>4, <2>1, <2>2, <2>3, <2>4
<1>5. CASE /\ e \notin dirs
           /\ UNCHANGED <<dirs, described, refused, outlived>>
  <2>1. AbsentIsBlank'
    BY <1>1, <1>5 DEF AbsentIsBlank
  <2>2. ASSUME NEW d \in Dir PROVE d = e \/ Blank(d) => Blank(d)'
    BY <1>1, <1>5 DEF Blank
  <2>3. QED
    BY <1>1, <1>3, <1>5, <2>1, <2>2
<1>6. CASE /\ e \in dirs
           /\ \/ InUse(e) /\ UNCHANGED refused
              \/ refused' = refused \cup {e}
           /\ outlived' = outlived \cup {e}
           /\ UNCHANGED <<dirs, described>>
  <2>1. AbsentIsBlank'
    BY <1>1, <1>6 DEF AbsentIsBlank
  <2>2. ASSUME NEW d \in Dir PROVE d = e \/ Blank(d) => Blank(d)'
    BY <1>6 DEF Blank
  <2>3. QED
    BY <1>1, <1>2, <1>3, <1>6, <2>1, <2>2
<1>7. QED
  BY <1>3, <1>4, <1>5, <1>6 DEF RemoveDir

LEMMA RemoveDirInvariant ==
  ASSUME IInv, RemoveDir
  PROVE  IInv'
<1>1. /\ Proceed /\ TypeOK /\ TreeIsSound /\ calls \in Seq(Call)
      /\ UNCHANGED <<links, bound, primed, state, udc, stuck, warned, kills>>
  BY DEF RemoveDir, IInv, TypeOK
<1>2. CASE Rebuilding
  <2>1. /\ \/ Left = 22 /\ On = "config"
           \/ Left = 21 /\ On = "kbd"
           \/ Left = 20 /\ On = "mouse"
           \/ Left = 19 /\ On = "strings"
           \/ Left = 18 /\ On = "gadget"
        /\ On \in Dir
    BY <1>1, <1>2, RebuildHead DEF RemoveDir, Dir, Function
  <2>2. /\ ~bound /\ (kills = 0 => ~state \/ stuck)
        /\ Rebuilding' /\ Left' = Left - 1
        /\ calls' \in Seq(Call) /\ UNCHANGED <<using, command>>
        /\ calls' # <<>> /\ result' = "running"
        /\ CallsFollow' /\ RemovalFollows' /\ BoundIsReady'
        /\ RefreshingIsBound' /\ DoneIsBound' /\ StateIsCurrent'
        /\ DescriptionFollows' /\ DirsFollow'
    BY <1>1, <1>2, <2>1, RuinsStep
  <2>3. links = <<>>
    BY <1>2, <2>1 DEF IInv, LinksFollow
  <2>4. /\ dirs' \subseteq dirs /\ described' \in [Dir -> SUBSET Configs]
        /\ refused' \subseteq Dir /\ outlived' \subseteq Dir
        /\ AbsentIsBlank' /\ \A d \in Dir : d = On \/ Blank(d) => Blank(d)'
        /\ dirs' # {} => "gadget" \in dirs'
    BY <2>1, <2>3, RemoveDirFacts
  <2>5. TypeOK'
    BY <1>1, <2>2, <2>4 DEF TypeOK
  <2>6. TreeIsSound' /\ BoundIsWhole' /\ BindingFollows'
    BY <1>1, <2>1, <2>2, <2>3, <2>4, LinksRange
       DEF TreeIsSound, BoundIsWhole, BindingFollows
  <2>7. LinksFollow'
    BY <1>1, <2>1, <2>2, <2>3, LinksRange DEF LinksFollow
  <2>8. BlanksFollow'
    <3>1. BlanksFollow /\ {"gadget", "strings", "config", "kbd", "mouse"} \subseteq Dir
      BY DEF IInv, Dir, Function
    <3>2. QED
      BY <1>2, <2>1, <2>2, <2>4, <3>1 DEF BlanksFollow
  <2>9. QED
    BY <2>2, <2>4, <2>5, <2>6, <2>7, <2>8 DEF IInv
<1>3. CASE TakingDown
  <2>1. /\ \/ Left = 6 /\ On = "config"
           \/ Left = 5 /\ On = "kbd"
           \/ Left = 4 /\ On = "mouse"
           \/ Left = 3 /\ On = "strings"
           \/ Left = 2 /\ On = "gadget"
        /\ On \in Dir
    BY <1>1, <1>3, DownHead DEF RemoveDir, Dir, Function
  <2>2. /\ Left' = Left - 1 /\ calls' \in Seq(Call) /\ UNCHANGED <<using, command>>
        /\ calls' # <<>> /\ result' = "running"
        /\ CallsFollow' /\ LinksFollow' /\ DirsFollow' /\ DescriptionFollows'
        /\ BlanksFollow' /\ BindingFollows' /\ RefreshingIsBound' /\ DoneIsBound'
        /\ ~Rebuilding
    BY <1>1, <1>3, <2>1, DownStep
  <2>3. /\ ~bound /\ links = <<>>
        /\ Left <= 5 /\ "config" \in dirs => "config" \in refused
        /\ Left <= 4 /\ "kbd" \in dirs => "kbd" \in refused
        /\ Left <= 3 /\ "mouse" \in dirs => "mouse" \in refused
        /\ Left <= 2 /\ "strings" \in dirs => "strings" \in refused
    BY <1>3, <2>1 DEF IInv, RemovalFollows
  <2>4. /\ dirs' \subseteq dirs /\ described' \in [Dir -> SUBSET Configs]
        /\ refused \subseteq refused' /\ refused' \subseteq Dir /\ outlived' \subseteq Dir
        /\ AbsentIsBlank'
        /\ dirs' # {} => "gadget" \in dirs'
        /\ On \in dirs' => \/ On \in refused'
                           \/ On = "gadget" /\ dirs' # {"gadget"}
    BY <2>1, <2>3, RemoveDirFacts
  <2>5. TypeOK'
    BY <1>1, <2>2, <2>4 DEF TypeOK
  <2>6. TreeIsSound' /\ BoundIsWhole' /\ BoundIsReady' /\ StateIsCurrent'
    BY <1>1, <2>2, <2>3, <2>4, LinksRange
       DEF TreeIsSound, BoundIsWhole, BoundIsReady, StateIsCurrent
  <2>7. RemovalFollows'
    <3>1. ~bound' /\ links' = <<>> /\ "kbd" \notin Range(links')
      BY <1>1, <2>3, LinksRange
    <3>2. /\ Left' <= 5 /\ "config" \in dirs' => "config" \in refused'
          /\ Left' <= 4 /\ "kbd" \in dirs' => "kbd" \in refused'
          /\ Left' <= 3 /\ "mouse" \in dirs' => "mouse" \in refused'
          /\ Left' <= 2 /\ "strings" \in dirs' => "strings" \in refused'
      BY <2>1, <2>2, <2>3, <2>4
    <3>3. Left' <= 1 /\ "gadget" \in dirs' => refused' # {}
      <4>1. SUFFICES ASSUME Left' <= 1, "gadget" \in dirs' PROVE refused' # {}
        OBVIOUS
      <4>2. Left = 2 /\ On = "gadget"
        BY <2>1, <2>2, <4>1
      <4>3. CASE On \in refused'
        BY <4>3
      <4>4. CASE dirs' # {"gadget"}
        <5>1. PICK d \in dirs' : d # "gadget"
          BY <4>1, <4>4
        <5>2. d \in {"config", "kbd", "mouse", "strings"}
          BY <1>1, <2>4, <5>1 DEF TypeOK, Dir, Function
        <5>3. d \in refused'
          BY <2>2, <3>2, <4>2, <5>2
        <5>4. QED
          BY <5>3
      <4>5. QED
        BY <2>4, <4>1, <4>2, <4>3, <4>4
    <3>4. QED
      BY <3>1, <3>2, <3>3 DEF RemovalFollows
  <2>8. QED
    BY <2>2, <2>4, <2>5, <2>6, <2>7 DEF IInv
<1>4. QED
  BY <1>2, <1>3, Callers DEF RemoveDir

LEMMA ForgetInvariant ==
  ASSUME IInv, Forget
  PROVE  IInv'
<1>1. /\ Proceed /\ TypeOK /\ TreeIsSound /\ BoundIsWhole /\ calls \in Seq(Call)
      /\ state' \in BOOLEAN /\ stuck' \in BOOLEAN /\ (~state' \/ stuck')
      /\ UNCHANGED <<dirs, described, links, bound, primed, udc, refused, outlived, warned,
                     kills>>
  BY DEF Forget, IInv, TypeOK, tree
<1>2. TreeIsSound' /\ BoundIsWhole' /\ AbsentIsBlank'
  BY <1>1, BlankFacts DEF TreeIsSound, BoundIsWhole, Whole, Tells
<1>3. CASE Rebuilding
  <2>1. Left = 17
    BY <1>1, <1>3, RebuildHead DEF Forget
  <2>2. /\ ~bound /\ (kills = 0 => ~state \/ stuck)
        /\ Rebuilding' /\ Left' = 16
        /\ calls' \in Seq(Call) /\ UNCHANGED <<using, command>>
        /\ calls' # <<>> /\ result' = "running"
        /\ CallsFollow' /\ RemovalFollows' /\ BoundIsReady'
        /\ RefreshingIsBound' /\ DoneIsBound' /\ StateIsCurrent'
        /\ DescriptionFollows' /\ DirsFollow'
    BY <1>1, <1>3, <2>1, RuinsStep
  <2>3. links = <<>>
    BY <1>3, <2>1 DEF IInv, LinksFollow
  <2>4. TypeOK'
    BY <1>1, <2>2 DEF TypeOK
  <2>5. LinksFollow' /\ BindingFollows'
    BY <1>1, <2>2, <2>3, LinksRange DEF LinksFollow, BindingFollows
  <2>6. BlanksFollow'
    BY <1>1, <1>3, <2>1, <2>2, BlankFacts
  <2>7. QED
    BY <1>2, <2>2, <2>4, <2>5, <2>6 DEF IInv
<1>4. CASE TakingDown
  <2>1. Left = 1
    BY <1>1, <1>4, DownHead DEF Forget
  <2>2. /\ Left' = 0 /\ calls' \in Seq(Call) /\ UNCHANGED <<using, command>>
        /\ calls' = <<>> /\ result' = "done"
        /\ CallsFollow' /\ LinksFollow' /\ DirsFollow' /\ DescriptionFollows'
        /\ BlanksFollow' /\ BindingFollows' /\ RefreshingIsBound' /\ DoneIsBound'
        /\ ~Rebuilding
    BY <1>1, <1>4, <2>1, DownStep
  <2>3. /\ ~bound /\ "kbd" \notin Range(links) /\ links = <<>>
        /\ "config" \in dirs => "config" \in refused
        /\ "kbd" \in dirs => "kbd" \in refused
        /\ "mouse" \in dirs => "mouse" \in refused
        /\ "strings" \in dirs => "strings" \in refused
        /\ "gadget" \in dirs => refused # {}
    BY <1>4, <2>1 DEF IInv, RemovalFollows
  <2>4. RemovalFollows'
    BY <1>1, <2>3 DEF RemovalFollows
  <2>5. TypeOK'
    BY <1>1, <2>2 DEF TypeOK
  <2>6. BoundIsReady' /\ StateIsCurrent'
    BY <1>1, <2>2, <2>3 DEF BoundIsReady, StateIsCurrent
  <2>7. QED
    BY <1>2, <2>2, <2>4, <2>5, <2>6 DEF IInv
<1>5. QED
  BY <1>3, <1>4, Callers DEF Forget

-----------------------------------------------------------------------------
(***************************************************************************)
(* The invariant, action by action: commands that fail, and the rest.      *)
(***************************************************************************)
\* A command that fails with the gadget bound, or its state file behind, was
\* killed.  It may leave a directory half described.
LEMMA FailedInvariant ==
  ASSUME IInv, calls # <<>>, Ended("failed"),
         UNCHANGED <<dirs, links, bound, primed, state, udc, refused, outlived, stuck,
                     warned>>,
         described' \in [Dir -> SUBSET Configs],
         \A d \in Dir \ dirs : described'[d] = described[d],
         bound => UNCHANGED described,
         kills' \in 0..MaxKills,
         kills' = 0 => kills = 0 /\ ~bound /\ (~state \/ stuck)
  PROVE  IInv'
<1>1. /\ TypeOK /\ TreeIsSound /\ BoundIsWhole
      /\ calls' = <<>> /\ result' = "failed" /\ UNCHANGED <<using, command>>
  BY DEF IInv, Ended
<1>2. Left' = 0
  BY <1>1 DEF Left
<1>3. ~Rebuilding' /\ ~Refreshing' /\ ~TakingDown'
  <2>1. calls' # <<Just("resolve"), Just("save")>>
    BY <1>1
  <2>2. QED
    BY <1>2, <2>1 DEF Rebuilding, Refreshing, TakingDown
<1>4. TypeOK'
  <2>1. calls' \in Seq(Call)
    BY <1>1
  <2>2. QED
    BY <1>1, <2>1 DEF TypeOK
<1>5. TreeIsSound' /\ BoundIsWhole' /\ AbsentIsBlank'
  <2>1. BoundIsWhole'
    BY <1>1 DEF BoundIsWhole, Whole, Tells
  <2>2. QED
    BY <1>1, <2>1 DEF IInv, TreeIsSound, AbsentIsBlank
<1>6. /\ CallsFollow' /\ LinksFollow' /\ DirsFollow' /\ DescriptionFollows'
      /\ BlanksFollow' /\ BindingFollows' /\ RefreshingIsBound'
  BY <1>1, <1>3
     DEF CallsFollow, LinksFollow, DirsFollow, DescriptionFollows, BlanksFollow,
         BindingFollows, RefreshingIsBound
<1>7. RemovalFollows' /\ DoneIsBound'
  BY <1>1, <1>3 DEF RemovalFollows, DoneIsBound
<1>8. BoundIsReady' /\ StateIsCurrent'
  BY <1>1, <1>3 DEF BoundIsReady, StateIsCurrent
<1>9. QED
  BY <1>4, <1>5, <1>6, <1>7, <1>8 DEF IInv

LEMMA RefusedInvariant ==
  ASSUME IInv, Refused
  PROVE  IInv'
<1>1. /\ Ended("failed") /\ TypeOK
      /\ UNCHANGED <<dirs, described, links, bound, primed, state, udc, refused, outlived,
                     stuck, warned, kills>>
      /\ Calling("bind") \/ Calling("describe") \/ Calling("link")
  BY DEF Refused, IInv, tree, history
<1>2. Rebuilding /\ calls # <<>> /\ calls \in Seq(Call)
  BY <1>1, Callers
<1>3. Left \in 5..12
  BY <1>1, <1>2, RebuildHead
<1>4. ~bound /\ (kills = 0 => ~state \/ stuck)
  BY <1>2, <1>3 DEF IInv, BindingFollows
<1>5. /\ kills' \in 0..MaxKills /\ (kills' = 0 => kills = 0 /\ ~bound /\ (~state \/ stuck))
      /\ described' \in [Dir -> SUBSET Configs]
  BY <1>1, <1>4 DEF TypeOK
<1>6. QED
  BY <1>1, <1>2, <1>5, FailedInvariant

LEMMA KillInvariant ==
  ASSUME IInv, Kill
  PROVE  IInv'
<1>1. /\ calls # <<>> /\ Ended("failed") /\ kills < MaxKills /\ kills' = kills + 1
      /\ UNCHANGED <<dirs, links, bound, primed, state, udc, refused, outlived, stuck,
                     warned>>
      /\ kills \in 0..MaxKills /\ described \in [Dir -> SUBSET Configs]
      /\ using \in Configs /\ calls \in Seq(Call)
  BY DEF Kill, IInv, TypeOK
<1>2. kills' \in 0..MaxKills /\ kills' # 0
  BY <1>1, BoundsAssumption
<1>3. CASE UNCHANGED described
  BY <1>1, <1>2, <1>3, FailedInvariant
<1>4. CASE /\ Calling("describe")
           /\ described' = [described EXCEPT ![On] = @ \cup {using}]
  <2>1. Rebuilding
    BY <1>4, Callers
  <2>2. PICK d : /\ d = On
                 /\ \/ Left = 12 /\ d = "gadget"
                    \/ Left = 11 /\ d = "strings"
                    \/ Left = 10 /\ d = "config"
                    \/ Left = 9 /\ d = "kbd"
                    \/ Left = 8 /\ d = "mouse"
    BY <1>1, <1>4, <2>1, RebuildHead
  <2>3. d \in dirs /\ ~bound
    BY <2>1, <2>2 DEF IInv, DirsFollow, BindingFollows
  <2>4. described' = [described EXCEPT ![d] = @ \cup {using}]
    BY <1>4, <2>2
  <2>5. /\ described' \in [Dir -> SUBSET Configs]
        /\ \A e \in Dir \ dirs : described'[e] = described[e]
    BY <1>1, <2>3, <2>4
  <2>6. QED
    BY <1>1, <1>2, <2>3, <2>5, FailedInvariant
<1>5. QED
  BY <1>3, <1>4 DEF Kill

LEMMA UdcChangesInvariant ==
  ASSUME IInv, \/ UdcChanges
               \/ UNCHANGED vars
  PROVE  IInv'
<1>1. /\ UNCHANGED <<dirs, described, links, bound, primed, state, using, command, result,
                     calls, refused, outlived, stuck, warned, kills>>
      /\ udc' \in {"free", "busy", "absent"}
  BY DEF UdcChanges, vars, tree, process, history, IInv, TypeOK
<1>2. /\ Left' = Left /\ Rebuilding' = Rebuilding /\ Refreshing' = Refreshing
      /\ TakingDown' = TakingDown
  BY <1>1 DEF Left, Rebuilding, Refreshing, TakingDown, Ends
<1>3. TypeOK' /\ TreeIsSound' /\ BoundIsWhole' /\ StateIsCurrent'
  BY <1>1 DEF IInv, TypeOK, TreeIsSound, BoundIsWhole, Whole, Tells, StateIsCurrent
<1>4. CallsFollow' /\ LinksFollow' /\ DirsFollow'
  BY <1>1, <1>2 DEF IInv, CallsFollow, LinksFollow, DirsFollow
<1>5. DescriptionFollows' /\ AbsentIsBlank' /\ BlanksFollow' /\ BindingFollows'
  BY <1>1, <1>2
     DEF IInv, DescriptionFollows, Tells, AbsentIsBlank, BlanksFollow, Blank,
         BindingFollows
<1>6. RemovalFollows' /\ BoundIsReady' /\ RefreshingIsBound' /\ DoneIsBound'
  BY <1>1, <1>2 DEF IInv, RemovalFollows, BoundIsReady, RefreshingIsBound, DoneIsBound
<1>7. QED
  BY <1>3, <1>4, <1>5, <1>6 DEF IInv

\* What every command finds, and leaves.
LEMMA StartedFacts ==
  ASSUME IInv, calls = <<>>, NEW what \in {"up", "down"}, NEW todo \in Seq(Call),
         Started(what, todo)
  PROVE  /\ TypeOK' /\ TreeIsSound' /\ BoundIsWhole' /\ StateIsCurrent' /\ AbsentIsBlank'
         /\ command' = what /\ calls' = todo /\ Left' = Len(todo)
         /\ UNCHANGED <<dirs, described, links, bound, primed, state, udc, outlived, stuck,
                       warned, kills>>
         /\ ~Rebuilding
         /\ kills = 0 /\ state => bound \/ stuck
         /\ kills = 0 /\ bound /\ ~warned => primed = Function /\ state
<1>1. /\ TypeOK /\ TreeIsSound /\ BoundIsWhole /\ StateIsCurrent
      /\ command' = what /\ calls' = todo /\ using' \in Configs /\ refused' = {}
      /\ result' = IF todo = <<>> THEN "done" ELSE "running"
      /\ UNCHANGED <<dirs, described, links, bound, primed, state, udc, outlived, stuck,
                     warned, kills>>
  BY DEF IInv, Started, tree
<1>2. ~Rebuilding
  BY DEF Rebuilding, Left
<1>3. TypeOK'
  <2>1. result' \in {"none", "running", "done", "failed"} /\ refused' \subseteq Dir
    BY <1>1
  <2>2. calls' # <<>> <=> result' = "running"
    BY <1>1
  <2>3. command' \in {"none", "up", "down"} /\ calls' \in Seq(Call)
    BY <1>1
  <2>4. QED
    BY <1>1, <2>1, <2>2, <2>3 DEF TypeOK
<1>4. TreeIsSound' /\ BoundIsWhole' /\ StateIsCurrent' /\ AbsentIsBlank'
  <2>1. AbsentIsBlank'
    BY <1>1, BlankFacts
  <2>2. QED
    BY <1>1, <2>1 DEF TreeIsSound, BoundIsWhole, Whole, Tells, StateIsCurrent
<1>5. /\ kills = 0 /\ state => bound \/ stuck
      /\ kills = 0 /\ bound /\ ~warned => primed = Function /\ state
  BY <1>2 DEF IInv, StateIsCurrent, BoundIsReady
<1>6. Left' = Len(todo)
  BY <1>1 DEF Left
<1>7. QED
  BY <1>1, <1>2, <1>3, <1>4, <1>5, <1>6

\* A plan ends itself.
LEMMA EndsItself ==
  ASSUME NEW plan \in Seq(Call), calls' = plan
  PROVE  Ends(plan)'
<1>1. Left' = Len(plan) /\ Len(plan) \in Nat
  BY DEF Left
<1>2. \A i \in 1..Len(plan) : Len(plan) - Len(plan) + i = i
  BY <1>1
<1>3. QED
  BY <1>1, <1>2 DEF Ends

\* An up() on a gadget that is bound, ...
LEMMA RefreshInvariant ==
  ASSUME IInv, calls = <<>>, bound,
         Started("up", <<Just("resolve"), Just("save")>>)
  PROVE  IInv'
<1> DEFINE todo == <<Just("resolve"), Just("save")>>
<1>1. /\ todo \in Seq(Call) /\ Len(todo) = 2
      /\ todo[1].do = "resolve" /\ todo # <<>>
  <2>1. Just("resolve") \in Call /\ Just("save") \in Call
    BY DEF Just, Call
  <2>2. Just("resolve").do = "resolve"
    BY DEF Just
  <2>3. QED
    BY <2>1, <2>2
<1>2. calls' = todo => Refreshing' \/ command' # "up"
  BY DEF Refreshing
<1> HIDE DEF todo
<1>3. Started("up", todo)
  BY DEF todo
<1>4. /\ TypeOK' /\ TreeIsSound' /\ BoundIsWhole' /\ StateIsCurrent' /\ AbsentIsBlank'
      /\ command' = "up" /\ calls' = todo /\ Left' = 2
      /\ UNCHANGED <<dirs, described, links, bound, primed, state, udc, outlived, stuck,
                     warned, kills>>
      /\ kills = 0 /\ bound /\ ~warned => primed = Function /\ state
  BY <1>1, <1>3, StartedFacts
<1>5. ~Rebuilding'
  <2>1. RebuildCalls[24] = Do("prime", "mouse") /\ Len(RebuildCalls) = 25
    <3>1. RebuildCalls[24] = BuildCalls[24 - 9]
      BY RebuildCallsFacts
    <3>2. QED
      BY <3>1, RebuildCallsFacts, BuildCallsFacts
  <2>2. ASSUME Rebuilding' PROVE FALSE
    <3>1. todo[1] = RebuildCalls[25 - 2 + 1]
      BY <1>4, <2>1, <2>2 DEF Rebuilding, Ends
    <3>2. todo[1].do = "prime"
      BY <2>1, <3>1 DEF Do
    <3>3. QED
      BY <1>1, <3>2
  <2>3. QED
    BY <2>2
<1>6. /\ CallsFollow' /\ LinksFollow' /\ DirsFollow' /\ DescriptionFollows'
      /\ BlanksFollow' /\ BindingFollows'
  BY <1>2, <1>4, <1>5
     DEF CallsFollow, LinksFollow, DirsFollow, DescriptionFollows, BlanksFollow,
         BindingFollows
<1>7. RemovalFollows' /\ BoundIsReady' /\ RefreshingIsBound' /\ DoneIsBound'
  BY <1>4 DEF RemovalFollows, TakingDown, BoundIsReady, RefreshingIsBound, DoneIsBound
<1>8. QED
  BY <1>4, <1>6, <1>7 DEF IInv

\* ... on the ruins of one, or on nothing.
LEMMA BuildInvariant ==
  ASSUME IInv, calls = <<>>, ~bound,
         NEW todo \in Seq(Call), Started("up", todo),
         \/ todo = RebuildCalls
         \/ todo = BuildCalls /\ "gadget" \notin dirs
  PROVE  IInv'
<1>1. /\ TypeOK' /\ TreeIsSound' /\ BoundIsWhole' /\ StateIsCurrent' /\ AbsentIsBlank'
      /\ command' = "up" /\ calls' = todo /\ Left' = Len(todo)
      /\ UNCHANGED <<dirs, described, links, bound, primed, state, udc, outlived, stuck,
                     warned, kills>>
      /\ kills = 0 => ~state \/ stuck
  BY StartedFacts
<1>2. \/ Left' = 25 /\ Ends(RebuildCalls)'
      \/ Left' = 16 /\ Ends(RebuildCalls)' /\ links = <<>> /\ dirs = {}
  <2>1. CASE todo = RebuildCalls
    <3>1. Left' = 25
      BY <1>1, <2>1, RebuildCallsFacts
    <3>2. Ends(RebuildCalls)'
      BY <1>1, <2>1, RebuildCallsFacts, EndsItself
    <3>3. QED
      BY <3>1, <3>2
  <2>2. CASE todo = BuildCalls /\ "gadget" \notin dirs
    <3>1. Left' = 16 /\ Len(RebuildCalls) = 25
      BY <1>1, <2>2, BuildCallsFacts, RebuildCallsFacts
    <3>2. ASSUME NEW i \in 1..16
          PROVE  calls'[i] = RebuildCalls[25 - 16 + i]
      <4>1. 25 - 16 + i \in 10..25 /\ (25 - 16 + i) - 9 = i
        OBVIOUS
      <4>2. RebuildCalls[25 - 16 + i] = BuildCalls[i]
        BY <4>1, RebuildCallsFacts
      <4>3. QED
        BY <1>1, <2>2, <4>2
    <3>3. Ends(RebuildCalls)'
      BY <3>1, <3>2 DEF Ends
    <3>4. links = <<>> /\ dirs = {}
      BY <2>2 DEF IInv, TreeIsSound
    <3>5. QED
      BY <3>1, <3>3, <3>4
  <2>3. QED
    BY <2>1, <2>2
<1>3. Rebuilding' /\ Left' \in {16, 25} /\ (Left' = 16 => links = <<>> /\ dirs = {})
  <2>1. Left' \in {16, 25} /\ (Left' = 16 => links = <<>> /\ dirs = {})
    BY <1>2
  <2>2. Ends(RebuildCalls)' /\ Left' > 0
    BY <1>2, <2>1
  <2>3. QED
    BY <1>1, <2>1, <2>2 DEF Rebuilding
<1>4. CallsFollow' /\ DirsFollow' /\ DescriptionFollows'
  BY <1>3 DEF CallsFollow, DirsFollow, DescriptionFollows
<1>5. LinksFollow' /\ BindingFollows' /\ BlanksFollow'
  <2>1. ~bound' /\ (kills' = 0 => ~state' \/ stuck')
    BY <1>1
  <2>2. Left' = 16 => links' = <<>> /\ "kbd" \notin Range(links')
    BY <1>1, <1>3, LinksRange
  <2>3. BlanksFollow'
    <3>1. Left' = 16 => \A d \in Dir : Blank(d)'
      BY <1>1, <1>3 DEF AbsentIsBlank, Blank
    <3>2. {"gadget", "strings", "config", "kbd", "mouse"} \subseteq Dir
      BY DEF Dir, Function
    <3>3. QED
      BY <1>3, <3>1, <3>2 DEF BlanksFollow
  <2>4. QED
    BY <1>3, <2>1, <2>2, <2>3 DEF LinksFollow, BindingFollows
<1>6. Left' # 2 /\ ~Refreshing' /\ result' # "done"
  <2>1. Left' # 2 /\ Left' # 0
    BY <1>3
  <2>2. calls' # <<Just("resolve"), Just("save")>> /\ calls' # <<>>
    BY <2>1 DEF Left
  <2>3. QED
    BY <1>1, <2>1, <2>2 DEF Refreshing, TypeOK
<1>7. RemovalFollows' /\ BoundIsReady' /\ RefreshingIsBound' /\ DoneIsBound'
  BY <1>1, <1>3, <1>6
     DEF RemovalFollows, TakingDown, BoundIsReady, RefreshingIsBound, DoneIsBound
<1>8. QED
  BY <1>1, <1>4, <1>5, <1>7 DEF IInv

LEMMA UpInvariant ==
  ASSUME IInv, calls = <<>>, Started("up", UpCalls)
  PROVE  IInv'
<1>1. CASE bound
  <2>1. UpCalls = <<Just("resolve"), Just("save")>>
    BY <1>1 DEF UpCalls
  <2>2. QED
    BY <1>1, <2>1, RefreshInvariant
<1>2. CASE ~bound /\ "gadget" \in dirs
  <2>1. UpCalls = RebuildCalls
    BY <1>2 DEF UpCalls, RebuildCalls
  <2>2. QED
    BY <1>2, <2>1, RebuildCallsFacts, BuildInvariant
<1>3. CASE ~bound /\ "gadget" \notin dirs
  <2>1. UpCalls = BuildCalls
    BY <1>3 DEF UpCalls
  <2>2. QED
    BY <1>3, <2>1, BuildCallsFacts, BuildInvariant
<1>4. QED
  BY <1>1, <1>2, <1>3

\* A down() where there is a gadget, and where there is none.
LEMMA DownInvariant ==
  ASSUME IInv, Down
  PROVE  IInv'
<1> DEFINE todo == IF "gadget" \in dirs THEN DownCalls ELSE <<>>
<1>1. calls = <<>> /\ Started("down", todo)
  BY DEF Down
<1>2. /\ todo \in Seq(Call)
      /\ \/ todo = DownCalls /\ Len(todo) = 9
         \/ todo = <<>> /\ Len(todo) = 0 /\ "gadget" \notin dirs
  <2>1. <<>> \in Seq(Call) /\ Len(<<>>) = 0
    OBVIOUS
  <2>2. QED
    BY <2>1, DownCallsFacts
<1> HIDE DEF todo
<1>3. /\ TypeOK' /\ TreeIsSound' /\ BoundIsWhole' /\ StateIsCurrent' /\ AbsentIsBlank'
      /\ command' = "down" /\ calls' = todo /\ Left' = Len(todo)
      /\ UNCHANGED <<dirs, described, links, bound, primed, state, udc, outlived, stuck,
                     warned, kills>>
      /\ kills = 0 /\ bound /\ ~warned => primed = Function /\ state
  BY <1>1, <1>2, StartedFacts
<1>4. ~Rebuilding' /\ ~Refreshing'
  BY <1>3 DEF Rebuilding, Refreshing
<1>5. CallsFollow'
  <2>1. CASE todo = DownCalls
    <3>1. Ends(DownCalls)'
      BY <1>3, <2>1, DownCallsFacts, EndsItself
    <3>2. Left' = 9
      BY <1>2, <1>3, <2>1, DownCallsFacts
    <3>3. QED
      BY <1>3, <3>1, <3>2 DEF CallsFollow, TakingDown
  <2>2. CASE todo = <<>>
    BY <1>3, <2>2 DEF CallsFollow
  <2>3. QED
    BY <1>2, <2>1, <2>2
<1>6. RemovalFollows'
  <2>1. CASE Left' = 9
    BY <2>1 DEF RemovalFollows
  <2>2. CASE "gadget" \notin dirs
    <3>1. dirs = {} /\ links = <<>>
      BY <2>2 DEF IInv, TreeIsSound
    <3>2. ~bound
      BY <3>1 DEF IInv, BoundIsWhole, Whole
    <3>3. QED
      BY <1>3, <3>1, <3>2, LinksRange DEF RemovalFollows
  <2>3. QED
    BY <1>2, <1>3, <2>1, <2>2
<1>7. /\ LinksFollow' /\ DirsFollow' /\ DescriptionFollows' /\ BlanksFollow'
      /\ BindingFollows' /\ BoundIsReady' /\ RefreshingIsBound' /\ DoneIsBound'
  BY <1>3, <1>4
     DEF LinksFollow, DirsFollow, DescriptionFollows, BlanksFollow, BindingFollows,
         BoundIsReady, RefreshingIsBound, DoneIsBound
<1>8. QED
  BY <1>3, <1>5, <1>6, <1>7 DEF IInv

\* Nothing is there at first, and after a reboot.
LEMMA NothingThere ==
  ASSUME dirs' = {}, described' = [d \in Dir |-> {}], links' = <<>>,
         bound' = FALSE, primed' = {}, state' = FALSE,
         udc' \in {"free", "busy", "absent"}, using' \in Configs,
         command' = "none", result' = "none", calls' = <<>>,
         refused' = {}, outlived' = {}, stuck' = FALSE, warned' = FALSE,
         kills' \in 0..MaxKills
  PROVE  IInv'
<1>1. ~Rebuilding' /\ ~Refreshing' /\ ~TakingDown'
  BY DEF Rebuilding, Refreshing, TakingDown
<1>2. TypeOK'
  <2>1. links' \in Seq(Function) /\ calls' \in Seq(Call)
    OBVIOUS
  <2>2. described' \in [Dir -> SUBSET Configs]
    OBVIOUS
  <2>3. QED
    BY <2>1, <2>2 DEF TypeOK
<1>3. TreeIsSound' /\ BoundIsWhole' /\ StateIsCurrent' /\ AbsentIsBlank'
  BY LinksRange DEF TreeIsSound, BoundIsWhole, StateIsCurrent, AbsentIsBlank
<1>4. /\ CallsFollow' /\ LinksFollow' /\ DirsFollow' /\ DescriptionFollows'
      /\ BlanksFollow' /\ BindingFollows' /\ RemovalFollows' /\ BoundIsReady'
      /\ RefreshingIsBound' /\ DoneIsBound'
  BY <1>1
     DEF CallsFollow, LinksFollow, DirsFollow, DescriptionFollows, BlanksFollow,
         BindingFollows, RemovalFollows, BoundIsReady, RefreshingIsBound, DoneIsBound
<1>5. QED
  BY <1>2, <1>3, <1>4 DEF IInv

LEMMA InitInvariant ==
  ASSUME Init
  PROVE  IInv
<1>1. ~Rebuilding /\ ~Refreshing /\ ~TakingDown
  BY DEF Init, Rebuilding, Refreshing, TakingDown
<1>2. TypeOK
  <2>1. links \in Seq(Function) /\ calls \in Seq(Call)
    BY DEF Init
  <2>2. described \in [Dir -> SUBSET Configs]
    BY DEF Init
  <2>3. kills \in 0..MaxKills
    BY BoundsAssumption DEF Init
  <2>4. QED
    BY <2>1, <2>2, <2>3 DEF Init, TypeOK
<1>3. TreeIsSound /\ BoundIsWhole /\ StateIsCurrent /\ AbsentIsBlank
  BY LinksRange DEF Init, TreeIsSound, BoundIsWhole, StateIsCurrent, AbsentIsBlank
<1>4. /\ CallsFollow /\ LinksFollow /\ DirsFollow /\ DescriptionFollows
      /\ BlanksFollow /\ BindingFollows /\ RemovalFollows /\ BoundIsReady
      /\ RefreshingIsBound /\ DoneIsBound
  BY <1>1
     DEF Init, CallsFollow, LinksFollow, DirsFollow, DescriptionFollows, BlanksFollow,
         BindingFollows, RemovalFollows, BoundIsReady, RefreshingIsBound, DoneIsBound
<1>5. QED
  BY <1>2, <1>3, <1>4 DEF IInv

LEMMA RebootInvariant ==
  ASSUME IInv, Reboot
  PROVE  IInv'
<1>1. kills \in 0..MaxKills /\ udc \in {"free", "busy", "absent"} /\ using \in Configs
  BY DEF IInv, TypeOK
<1>2. kills' \in 0..MaxKills
  BY <1>1, BoundsAssumption DEF Reboot
<1>3. QED
  BY <1>1, <1>2, NothingThere DEF Reboot

\* The steps of a command.
LEMMA StepInvariant ==
  ASSUME IInv, Step
  PROVE  IInv'
<1>1. CASE Make \/ Describe \/ DropStrings \/ Link \/ Bind
  BY <1>1, MakeInvariant, DescribeInvariant, DropStringsInvariant, LinkInvariant,
     BindInvariant
<1>2. CASE Refused \/ Resolve \/ Prime \/ Save
  BY <1>2, RefusedInvariant, ResolveInvariant, PrimeInvariant, SaveInvariant
<1>3. CASE Unbind \/ Unlink \/ RemoveDir \/ Forget
  BY <1>3, UnbindInvariant, UnlinkInvariant, RemoveDirInvariant, ForgetInvariant
<1>4. QED
  BY <1>1, <1>2, <1>3 DEF Step

\* Whatever happens, the invariant goes on holding: every command, every call
\* of it and every way it ends (gadget.py: up, down, resolve_devices).
THEOREM Inductive == IInv /\ [Next]_vars => IInv'
<1> SUFFICES ASSUME IInv, [Next]_vars PROVE IInv'
  OBVIOUS
<1>1. CASE Up \/ Run
  BY <1>1, UpInvariant DEF Up, Run
<1>2. CASE Down
  BY <1>2, DownInvariant
<1>3. CASE Step
  BY <1>3, StepInvariant
<1>4. CASE Kill \/ Reboot
  BY <1>4, KillInvariant, RebootInvariant
<1>5. CASE UdcChanges \/ UNCHANGED vars
  BY <1>5, UdcChangesInvariant
<1>6. QED
  BY <1>1, <1>2, <1>3, <1>4, <1>5 DEF Next

\* The invariant holds whatever commands are given, killed and repeated.
THEOREM Invariance == Spec => []IInv
<1>1. Init => IInv
  BY InitInvariant
<1>2. QED
  BY <1>1, Inductive, PTL DEF Spec

-----------------------------------------------------------------------------
(***************************************************************************)
(* What follows from it.                                                   *)
(***************************************************************************)
\* The variables keep their types, and a command runs while it has calls left.
THEOREM TypeCorrect == Spec => []TypeOK
<1>1. IInv => TypeOK
  BY DEF IInv
<1>2. QED
  BY <1>1, Invariance, PTL

\* For any configurations, and whatever was killed or refused before, the host
\* never sees half a device: a gadget that is bound has the keyboard and the
\* mouse, in the order that resolve_devices counts on, and describes them by one
\* configuration.  Only in a directory that rmdir did not remove may values of
\* an older one be left beside it, where the new one leaves a string empty or an
\* optional attribute is not written (gadget.py: up, _write_optional).
THEOREM HostSeesWhole == Spec => []BoundIsWhole
<1>1. IInv => BoundIsWhole
  BY DEF IInv
<1>2. QED
  BY <1>1, Invariance, PTL

\* Between commands there is no state file without a gadget, unless a command
\* was killed or the file could not be removed (gadget.py: _write_state, down).
THEOREM StateStaysCurrent == Spec => []StateIsCurrent
<1>1. IInv => StateIsCurrent
  BY DEF IInv
<1>2. QED
  BY <1>1, Invariance, PTL

\* An `up' that ends well leaves the gadget bound, and what it has not warned
\* of is primed and saved (gadget.py: up).
THEOREM UpDelivers == Spec => []UpMeansReady
<1>1. ASSUME IInv PROVE UpMeansReady
  <2>1. SUFFICES ASSUME command = "up", result = "done"
                 PROVE  bound /\ (kills = 0 /\ ~warned => primed = Function /\ state)
    BY DEF UpMeansReady
  <2>2. bound
    BY <1>1, <2>1 DEF IInv, DoneIsBound
  <2>3. ~Rebuilding
    BY <1>1, <2>1 DEF IInv, TypeOK, Rebuilding, Left
  <2>4. QED
    BY <1>1, <2>2, <2>3 DEF IInv, BoundIsReady
<1>2. QED
  BY <1>1, Invariance, PTL

\* A `down' that ends well leaves nothing of the gadget but directories the
\* kernel refused to remove, and what these are in (gadget.py: down).
THEOREM DownClears == Spec => []DownLeavesNothing
<1>1. ASSUME IInv PROVE DownLeavesNothing
  <2>1. SUFFICES ASSUME command = "down", result = "done"
                 PROVE  /\ ~bound /\ links = <<>>
                        /\ dirs \subseteq refused \cup (IF refused = {} THEN {} ELSE {"gadget"})
    BY DEF DownLeavesNothing
  <2>2. Left = 0
    BY <1>1, <2>1 DEF IInv, TypeOK, Left
  <2>3. /\ ~bound /\ links = <<>>
        /\ "config" \in dirs => "config" \in refused
        /\ "kbd" \in dirs => "kbd" \in refused
        /\ "mouse" \in dirs => "mouse" \in refused
        /\ "strings" \in dirs => "strings" \in refused
        /\ "gadget" \in dirs => refused # {}
    BY <1>1, <2>1, <2>2 DEF IInv, RemovalFollows
  <2>4. dirs \subseteq {"config", "kbd", "mouse", "strings", "gadget"}
    BY <1>1 DEF IInv, TypeOK, Dir, Function
  <2>5. QED
    BY <2>3, <2>4
<1>2. QED
  BY <1>1, Invariance, PTL

-----------------------------------------------------------------------------
\* What UpNeverUnplugs says of a step.
UnplugsByDown == bound /\ ~bound' => command = "down" \/ command' = "none"

\* No `up', and no `run', ever takes a gadget that is bound away from the host:
\* the calls of down() that up() makes find nothing bound (gadget.py: up).
THEOREM NothingElseUnplugs == Spec => UpNeverUnplugs
<1>1. ASSUME IInv, [Next]_vars PROVE [UnplugsByDown]_vars
  <2>1. SUFFICES ASSUME bound, ~bound' PROVE command = "down" \/ command' = "none"
    BY DEF UnplugsByDown
  <2>2. CASE Unlink
    <3>1. Rebuilding \/ TakingDown
      BY <1>1, <2>2, Callers DEF Unlink
    <3>2. ~Rebuilding
      <4>1. ASSUME Rebuilding PROVE FALSE
        <5>1. Left \in 23..24
          BY <1>1, <2>2, <4>1, RebuildHead DEF Unlink, IInv, TypeOK
        <5>2. QED
          BY <1>1, <2>1, <4>1, <5>1 DEF IInv, BindingFollows
      <4>2. QED
        BY <4>1
    <3>3. QED
      BY <3>1, <3>2 DEF TakingDown
  <2>3. CASE Reboot
    BY <2>3 DEF Reboot
  <2>4. CASE Up \/ Run \/ Down
    BY <2>1, <2>4 DEF Up, Run, Down, Started, tree
  <2>5. CASE Make \/ Describe \/ DropStrings \/ Link \/ Bind \/ Prime \/ RemoveDir
    BY <2>1, <2>5 DEF Make, Describe, DropStrings, Link, Bind, Prime, RemoveDir
  <2>6. CASE Refused \/ Resolve \/ Save \/ Unbind \/ Forget \/ Kill
    BY <2>1, <2>6 DEF Refused, Resolve, Save, Unbind, Forget, Kill, tree
  <2>7. CASE UdcChanges \/ UNCHANGED vars
    BY <2>1, <2>7 DEF UdcChanges, vars, tree
  <2>8. QED
    BY <1>1, <2>2, <2>3, <2>4, <2>5, <2>6, <2>7 DEF Next, Step
<1>2. QED
  BY <1>1, Invariance, PTL DEF Spec, UpNeverUnplugs, UnplugsByDown

=============================================================================
