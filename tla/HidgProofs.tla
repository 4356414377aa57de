----------------------------- MODULE HidgProofs -----------------------------
(***************************************************************************)
(* What the operators of Hidg return, for any set of reports: used by the  *)
(* proofs about the modules that hold a device and a function.             *)
(***************************************************************************)
EXTENDS Hidg, TLAPS

(***************************************************************************)
(* Answering GET_REPORT changes no more than the cache and the answer      *)
(* (HidgDevice.cache_get_report).                                          *)
(***************************************************************************)
LEMMA CacheFacts ==
  ASSUME NEW R, NEW d \in Device(R), NEW f \in Function(R), NEW report \in R
  PROVE  LET c == CacheGetReport(d, f, report) IN
         /\ c.dev \in Device(R) /\ c.fun \in Function(R)
         /\ c.dev.fd = d.fd
         /\ c.dev.last = d.last /\ c.dev.disabled = d.disabled
         /\ c.fun.inflight = f.inflight /\ c.fun.off = f.off
         /\ c.fun.node = f.node
  BY DEF CacheGetReport, Answering, Device, Function

(***************************************************************************)
(* Opening the node changes no more than the fd, the cache, the answer and *)
(* the device number (HidgDevice.open).                                    *)
(***************************************************************************)
LEMMA OpenFacts ==
  ASSUME NEW R, NEW d \in Device(R), NEW f \in Function(R), NEW idle \in R
  PROVE  LET o == Open(d, f, idle) IN
         /\ o.dev \in Device(R) /\ o.fun \in Function(R)
         /\ o.dev.fd = (IF d.fd = "closed" THEN "live" ELSE d.fd)
         /\ o.dev.last = d.last /\ o.dev.disabled = d.disabled
         /\ o.fun.inflight = f.inflight /\ o.fun.off = f.off
         /\ o.fun.node = (IF d.fd = "closed" THEN "same" ELSE f.node)
<1>1. CASE d.fd = "closed"
  <2> DEFINE dev == [d EXCEPT !.fd = "live", !.cached = None]
             fun == [f EXCEPT !.node = "same"]
  <2>1. /\ dev \in Device(R) /\ dev.fd = "live" /\ dev.last = d.last
        /\ dev.disabled = d.disabled
    BY DEF Device
  <2>2. /\ fun \in Function(R) /\ fun.node = "same" /\ fun.off = f.off
        /\ fun.inflight = f.inflight
    BY DEF Function
  <2>3. Open(d, f, idle) = CacheGetReport(dev, fun, idle)
    BY <1>1 DEF Open
  <2> HIDE DEF dev, fun
  <2>4. QED
    BY <1>1, <2>1, <2>2, <2>3, CacheFacts
<1>2. CASE d.fd # "closed"
  BY <1>2 DEF Open
<1>3. QED
  BY <1>1, <1>2

(***************************************************************************)
(* A node that has changed is found out: last_report is forgotten, and the *)
(* fd is live afterwards unless the node is gone (HidgDevice.revalidate).  *)
(***************************************************************************)
Revalidates(R, d, f, v) ==
  /\ v.dev \in Device(R) /\ v.fun \in Function(R)
  /\ d.fd = "closed" \/ f.node = "same" => v.dev = d /\ v.fun = f
  /\ d.fd # "closed" /\ f.node # "same"
       => /\ v.dev.last = None
          /\ v.dev.fd = (IF f.node = "gone" THEN "closed" ELSE "live")
          /\ v.fun.node = (IF f.node = "gone" THEN "gone" ELSE "same")
  /\ v.dev.disabled = d.disabled
  /\ v.fun.inflight = f.inflight /\ v.fun.off = f.off

LEMMA RevalidateFacts ==
  ASSUME NEW R, NEW d \in Device(R), NEW f \in Function(R), NEW idle \in R
  PROVE  Revalidates(R, d, f, Revalidate(d, f, idle))
<1> DEFINE lost == [d EXCEPT !.fd = "closed", !.last = None, !.disconnected = TRUE]
<1>1. /\ lost \in Device(R) /\ lost.fd = "closed" /\ lost.last = None
      /\ lost.disabled = d.disabled
  BY DEF Device
<1>2. f.node \in {"gone", "same", "other"}
  BY DEF Function
<1> HIDE DEF lost
<1>3. LET o == Open(lost, f, idle) IN
      /\ o.dev \in Device(R) /\ o.fun \in Function(R)
      /\ o.dev.fd = "live" /\ o.dev.last = None /\ o.dev.disabled = d.disabled
      /\ o.fun.inflight = f.inflight /\ o.fun.off = f.off
      /\ o.fun.node = "same"
  BY <1>1, OpenFacts
<1>4. Revalidate(d, f, idle) =
        IF d.fd = "closed" \/ f.node = "same" THEN [dev |-> d, fun |-> f]
        ELSE IF CanOpen(lost, f) THEN Open(lost, f, idle)
        ELSE [dev |-> lost, fun |-> f]
  BY DEF Revalidate, lost
<1>5. CanOpen(lost, f) <=> f.node # "gone"
  BY <1>1 DEF CanOpen
<1>6. QED
  BY <1>1, <1>2, <1>3, <1>4, <1>5 DEF Revalidates

LEMMA NoteDisconnectFacts ==
  ASSUME NEW R, NEW d \in Device(R)
  PROVE  LET n == NoteDisconnect(d) IN
         /\ n \in Device(R)
         /\ n.fd = d.fd /\ n.last = None /\ n.disabled = d.disabled
  BY DEF NoteDisconnect, Device

(***************************************************************************)
(* What each outcome of a write changes (HidgDevice.write_report).         *)
(***************************************************************************)
Writes(R, d, f, report, outcome, w) ==
  /\ w.dev \in Device(R) /\ w.fun \in Function(R)
  /\ w.fun.off = f.off
  /\ outcome # "noopen" /\ d.fd = "closed"
       => w.dev.fd = "live" /\ w.fun.node = "same"
  /\ outcome = "noopen" \/ d.fd # "closed"
       => w.dev.fd = d.fd /\ w.fun.node = f.node
  /\ outcome \in {"noopen", "lost"} => w.dev.last = None
  /\ outcome = "sent" => w.dev.last = report
  /\ outcome \in {"same", "busy"} => w.dev.last = d.last
  /\ outcome = "sent" => ~w.dev.disabled /\ w.fun.inflight = report
  /\ outcome # "sent" => /\ w.dev.disabled = d.disabled
                        /\ w.fun.inflight = f.inflight

\* write_report does just that.
LEMMA WriteFacts ==
  ASSUME NEW R, NEW d \in Device(R), NEW f \in Function(R), NEW idle \in R,
         NEW report \in R, NEW answer \in R,
         NEW outcome \in {"noopen", "same", "lost", "busy", "sent"}
  PROVE  Writes(R, d, f, report, outcome,
                WriteReport(d, f, report, answer, idle, outcome))
<1> DEFINE o == Open(d, f, idle)
           c == CacheGetReport(o.dev, o.fun, answer)
<1>1. /\ o.dev \in Device(R) /\ o.fun \in Function(R)
      /\ o.dev.fd = (IF d.fd = "closed" THEN "live" ELSE d.fd)
      /\ o.dev.last = d.last /\ o.dev.disabled = d.disabled
      /\ o.fun.inflight = f.inflight /\ o.fun.off = f.off
      /\ o.fun.node = (IF d.fd = "closed" THEN "same" ELSE f.node)
  BY OpenFacts
<1> HIDE DEF o
<1>2. /\ c.dev \in Device(R) /\ c.fun \in Function(R)
      /\ c.dev.fd = o.dev.fd
      /\ c.dev.last = o.dev.last /\ c.dev.disabled = o.dev.disabled
      /\ c.fun.inflight = o.fun.inflight /\ c.fun.off = o.fun.off
      /\ c.fun.node = o.fun.node
  BY <1>1, CacheFacts
<1>3. c = [dev |-> c.dev, fun |-> c.fun]
  BY DEF CacheGetReport
<1> HIDE DEF c
<1>4. WriteReport(d, f, report, answer, idle, outcome) =
        CASE outcome = "noopen" -> [dev |-> NoteDisconnect(d), fun |-> f]
          [] outcome = "lost"   -> [c EXCEPT !.dev = NoteDisconnect(@)]
          [] outcome = "sent"   ->
               [ dev |-> [c.dev EXCEPT !.last = report, !.backoff = "none",
                            !.disconnected = FALSE, !.disabled = FALSE],
                 fun |-> [c.fun EXCEPT !.inflight = report] ]
          [] OTHER              -> c
  BY DEF WriteReport, o, c
<1> DEFINE w == WriteReport(d, f, report, answer, idle, outcome)
<1> HIDE DEF w
<1>5. CASE outcome = "noopen"
  <2>1. w = [dev |-> NoteDisconnect(d), fun |-> f]
    BY <1>4, <1>5 DEF w
  <2>2. QED
    BY <1>5, <2>1, NoteDisconnectFacts DEF w, Writes
<1>6. CASE outcome = "lost"
  <2>1. w = [dev |-> NoteDisconnect(c.dev), fun |-> c.fun]
    BY <1>3, <1>4, <1>6 DEF w
  <2>2. QED
    BY <1>1, <1>2, <1>6, <2>1, NoteDisconnectFacts DEF w, Writes
<1>7. CASE outcome = "sent"
  <2> DEFINE dev == [c.dev EXCEPT !.last = report, !.backoff = "none",
                       !.disconnected = FALSE, !.disabled = FALSE]
             fun == [c.fun EXCEPT !.inflight = report]
  <2>1. w = [dev |-> dev, fun |-> fun]
    BY <1>4, <1>7 DEF w
  <2>2. /\ dev \in Device(R) /\ dev.fd = c.dev.fd
        /\ dev.last = report /\ dev.disabled = FALSE
    BY <1>2 DEF Device
  <2>3. /\ fun \in Function(R) /\ fun.node = c.fun.node
        /\ fun.inflight = report /\ fun.off = c.fun.off
    BY <1>2 DEF Function
  <2> HIDE DEF dev, fun
  <2>4. w.dev = dev /\ w.fun = fun
    BY <2>1
  <2>5. QED
    BY <1>1, <1>2, <1>7, <2>2, <2>3, <2>4 DEF w, Writes
<1>8. CASE outcome \in {"same", "busy"}
  BY <1>1, <1>2, <1>4, <1>8 DEF Writes
<1>9. QED
  BY <1>5, <1>6, <1>7, <1>8

\* A write is lost, or not even tried, only where no host can be.
LEMMA OutcomeFacts ==
  ASSUME NEW R, NEW d \in Device(R), NEW f \in Function(R), NEW bus, NEW report,
         NEW force \in BOOLEAN
  PROVE  LET out == WriteOutcome(d, f, bus, report, force) IN
         /\ out \in {"noopen", "same", "lost", "busy", "sent"}
         /\ out = "noopen" => d.fd = "closed"
         /\ out # "noopen" /\ d.fd = "closed" => f.node # "gone"
         /\ out = "lost" => d.fd = "stale" \/ bus = "away"
         /\ out = "same" => report = d.last
         /\ out = "sent" => d.fd # "stale" /\ bus # "away"
<1>1. Open(d, f, report).dev.fd = (IF d.fd = "closed" THEN "live" ELSE d.fd)
  BY DEF Open, CacheGetReport, Device
<1>2. QED
  BY <1>1 DEF WriteOutcome, CanOpen

(***************************************************************************)
(* The bridge knows the kernel's GET_REPORT answer: an fd that is live is  *)
(* open on the node that is there, and the cache is what it answers -- or  *)
(* the node was primed with the idle report after the bridge had opened it.*)
(***************************************************************************)
Coheres(d, f, idle) ==
  d.fd = "live" =>
    /\ f.node = "same"
    /\ \/ d.cached = f.answer
       \/ f.priming = "last" /\ f.answer = idle

LEMMA CacheCoheres ==
  ASSUME NEW R, NEW d \in Device(R), NEW f \in Function(R), NEW report \in R,
         NEW idle, NEW c, c = CacheGetReport(d, f, report), Coheres(d, f, idle)
  PROVE  Coheres(c.dev, c.fun, idle)
<1>1. CASE d.fd = "live"
  <2>1. c.dev = [d EXCEPT !.cached = report]
    BY <1>1 DEF CacheGetReport
  <2>2. c.dev.cached = report
    BY <2>1 DEF Device
  <2>3. CASE report # d.cached
    BY <1>1, <2>2, <2>3 DEF CacheGetReport, Answering, Coheres, Function
  <2>4. CASE report = d.cached
    BY <1>1, <2>2, <2>4 DEF CacheGetReport, Coheres
  <2>5. QED
    BY <2>3, <2>4
<1>2. CASE d.fd # "live"
  BY <1>2, CacheFacts DEF Coheres
<1>3. QED
  BY <1>1, <1>2

LEMMA OpenCoheres ==
  ASSUME NEW R, None \notin R,
         NEW d \in Device(R), NEW f \in Function(R), NEW idle \in R,
         NEW o, o = Open(d, f, idle), Coheres(d, f, idle)
  PROVE  Coheres(o.dev, o.fun, idle)
<1>1. CASE d.fd = "closed"
  BY <1>1 DEF Open, CacheGetReport, Answering, Coheres, Device, Function
<1>2. CASE d.fd # "closed"
  BY <1>2 DEF Open
<1>3. QED
  BY <1>1, <1>2

LEMMA RevalidateCoheres ==
  ASSUME NEW R, None \notin R,
         NEW d \in Device(R), NEW f \in Function(R), NEW idle \in R,
         NEW v, v = Revalidate(d, f, idle), Coheres(d, f, idle)
  PROVE  Coheres(v.dev, v.fun, idle)
<1> DEFINE lost == [d EXCEPT !.fd = "closed", !.last = None, !.disconnected = TRUE]
<1>1. lost \in Device(R) /\ lost.fd = "closed"
  BY DEF Device
<1>2. v \in {[dev |-> d, fun |-> f], Open(lost, f, idle), [dev |-> lost, fun |-> f]}
  BY DEF Revalidate
<1> HIDE DEF lost
<1>3. Coheres(lost, f, idle)
  BY <1>1 DEF Coheres
<1>4. CASE v = Open(lost, f, idle)
  BY <1>1, <1>3, <1>4, OpenCoheres
<1>5. CASE v \in {[dev |-> d, fun |-> f], [dev |-> lost, fun |-> f]}
  BY <1>3, <1>5
<1>6. QED
  BY <1>2, <1>4, <1>5

LEMMA WriteCoheres ==
  ASSUME NEW R, None \notin R,
         NEW d \in Device(R), NEW f \in Function(R), NEW idle \in R,
         NEW report \in R, NEW answer \in R,
         NEW outcome \in {"noopen", "same", "lost", "busy", "sent"},
         NEW w, w = WriteReport(d, f, report, answer, idle, outcome), Coheres(d, f, idle)
  PROVE  Coheres(w.dev, w.fun, idle)
<1> DEFINE o == Open(d, f, idle)
           c == CacheGetReport(o.dev, o.fun, answer)
<1>1. o.dev \in Device(R) /\ o.fun \in Function(R) /\ Coheres(o.dev, o.fun, idle)
  BY OpenFacts, OpenCoheres
<1> HIDE DEF o
<1>2. c.dev \in Device(R) /\ c.fun \in Function(R) /\ Coheres(c.dev, c.fun, idle)
  BY <1>1, CacheFacts, CacheCoheres
<1>3. c = [dev |-> c.dev, fun |-> c.fun]
  BY DEF CacheGetReport
<1> HIDE DEF c
<1>4. w = CASE outcome = "noopen" -> [dev |-> NoteDisconnect(d), fun |-> f]
            [] outcome = "lost"   -> [c EXCEPT !.dev = NoteDisconnect(@)]
            [] outcome = "sent"   ->
                 [ dev |-> [c.dev EXCEPT !.last = report, !.backoff = "none",
                              !.disconnected = FALSE, !.disabled = FALSE],
                   fun |-> [c.fun EXCEPT !.inflight = report] ]
            [] OTHER              -> c
  BY DEF WriteReport, o, c
\* None of the four touches what c left of the fd, the cache, the node, the answer.
<1>5. CASE outcome = "noopen"
  <2>1. w.dev = NoteDisconnect(d) /\ w.fun = f
    BY <1>4, <1>5
  <2>2. w.dev.fd = d.fd /\ w.dev.cached = d.cached
    BY <2>1 DEF NoteDisconnect, Device
  <2>3. QED
    BY <2>1, <2>2 DEF Coheres
<1>6. CASE outcome = "lost"
  <2>1. w.dev = NoteDisconnect(c.dev) /\ w.fun = c.fun
    BY <1>3, <1>4, <1>6
  <2>2. w.dev.fd = c.dev.fd /\ w.dev.cached = c.dev.cached
    BY <1>2, <2>1 DEF NoteDisconnect, Device
  <2>3. QED
    BY <1>2, <2>1, <2>2 DEF Coheres
<1>7. CASE outcome = "sent"
  <2>1. /\ w.dev = [c.dev EXCEPT !.last = report, !.backoff = "none",
                       !.disconnected = FALSE, !.disabled = FALSE]
        /\ w.fun = [c.fun EXCEPT !.inflight = report]
    BY <1>4, <1>7
  <2>2. w.dev.fd = c.dev.fd /\ w.dev.cached = c.dev.cached
    BY <1>2, <2>1 DEF Device
  <2>3. /\ w.fun.node = c.fun.node /\ w.fun.answer = c.fun.answer
        /\ w.fun.priming = c.fun.priming
    BY <1>2, <2>1 DEF Function
  <2>4. QED
    BY <1>2, <2>2, <2>3 DEF Coheres
<1>8. CASE outcome \in {"same", "busy"}
  BY <1>2, <1>4, <1>8
<1>9. QED
  BY <1>5, <1>6, <1>7, <1>8

(***************************************************************************)
(* A function that `gadget down' has removed, and one `gadget up' built.   *)
(***************************************************************************)
LEMMA RemovedFacts ==
  /\ FunctionRemoved.node = "gone" /\ FunctionRemoved.inflight = None
  /\ FunctionRemoved.answer = None /\ ~FunctionRemoved.off
BY DEF FunctionRemoved

LEMMA BuiltFacts ==
  ASSUME NEW node
  PROVE  /\ FunctionBuilt(node).node = node /\ FunctionBuilt(node).inflight = None
         /\ FunctionBuilt(node).answer = None /\ ~FunctionBuilt(node).off
BY DEF FunctionBuilt

(***************************************************************************)
(* The kernel answers what it was told to, or the idle report of a node    *)
(* that has been opened.                                                   *)
(***************************************************************************)
LEMMA OpenAnswers ==
  ASSUME NEW R, NEW d \in Device(R), NEW f \in Function(R), NEW idle \in R
  PROVE  Open(d, f, idle).fun.answer \in {f.answer, idle}
BY DEF Open, CacheGetReport, Answering, Device, Function

LEMMA CacheAnswers ==
  ASSUME NEW R, NEW d \in Device(R), NEW f \in Function(R), NEW report \in R
  PROVE  CacheGetReport(d, f, report).fun.answer \in {f.answer, report}
BY DEF CacheGetReport, Answering, Function

LEMMA RevalidateAnswers ==
  ASSUME NEW R, NEW d \in Device(R), NEW f \in Function(R), NEW idle \in R
  PROVE  Revalidate(d, f, idle).fun.answer \in {f.answer, idle}
<1> DEFINE lost == [d EXCEPT !.fd = "closed", !.last = None, !.disconnected = TRUE]
           v == Revalidate(d, f, idle)
<1>1. lost \in Device(R)
  BY DEF Device
<1>2. v \in {[dev |-> d, fun |-> f], Open(lost, f, idle), [dev |-> lost, fun |-> f]}
  BY DEF Revalidate
<1> HIDE DEF lost, v
<1>3. Open(lost, f, idle).fun.answer \in {f.answer, idle}
  BY <1>1, OpenAnswers
<1>4. v.fun.answer \in {f.answer, idle}
  BY <1>2, <1>3
<1>5. QED
  BY <1>4 DEF v

LEMMA WriteAnswers ==
  ASSUME NEW R, NEW d \in Device(R), NEW f \in Function(R), NEW idle \in R,
         NEW report \in R, NEW answer \in R,
         NEW outcome \in {"noopen", "same", "lost", "busy", "sent"},
         NEW w, w = WriteReport(d, f, report, answer, idle, outcome)
  PROVE  w.fun.answer \in {f.answer, idle, answer}
<1> DEFINE o == Open(d, f, idle)
           c == CacheGetReport(o.dev, o.fun, answer)
<1>1. o.dev \in Device(R) /\ o.fun \in Function(R) /\ o.fun.answer \in {f.answer, idle}
  BY OpenFacts, OpenAnswers
<1> HIDE DEF o
<1>2. c.fun \in Function(R) /\ c.fun.answer \in {o.fun.answer, answer}
  BY <1>1, CacheFacts, CacheAnswers
<1>3. c = [dev |-> c.dev, fun |-> c.fun]
  BY DEF CacheGetReport
<1> HIDE DEF c
<1>4. w \in { [dev |-> NoteDisconnect(d), fun |-> f],
              [c EXCEPT !.dev = NoteDisconnect(@)],
              [ dev |-> [c.dev EXCEPT !.last = report, !.backoff = "none",
                           !.disconnected = FALSE, !.disabled = FALSE],
                fun |-> [c.fun EXCEPT !.inflight = report] ],
              c }
  BY DEF WriteReport, o, c
<1>5. w.fun \in {f, c.fun, [c.fun EXCEPT !.inflight = report]}
  BY <1>3, <1>4
<1>6. [c.fun EXCEPT !.inflight = report].answer = c.fun.answer
  BY <1>2 DEF Function
<1>7. QED
  BY <1>1, <1>2, <1>5, <1>6

=============================================================================
