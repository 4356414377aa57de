-------------------------------- MODULE Hidg --------------------------------
(***************************************************************************)
(* One /dev/hidgN: the bridge's end of it (class HidgDevice of             *)
(* src/hid_bridge/hidg.py) and the kernel's end (usb_f_hid), as values and *)
(* the operators that change them.  The modules Keyboard and Mouse keep    *)
(* one of each in their variables.                                         *)
(*                                                                         *)
(* A device is the bridge's record:                                        *)
(*   fd            "closed", "live" (open on the function that exists) or  *)
(*                 "stale" (open on a function that has been removed)      *)
(*   last          last_report: the report last accepted by the kernel     *)
(*   disconnected  a write or a read said that the host is gone            *)
(*   disabled      host_disabled: the host de-configured the function      *)
(*   backoff       backoff_until: "none" (0.0), "waiting" (in the future)  *)
(*                 or "due" (in the past)                                  *)
(*   cached        _cached_get_report                                      *)
(*                                                                         *)
(* A function is the kernel's record:                                      *)
(*   node      the node at the path: "gone", or with a device number that  *)
(*             is the "same" as the one the bridge remembers, or "other"   *)
(*   inflight  the one IN request usb_f_hid keeps                          *)
(*   answer    what GET_REPORT(Input) is answered on the control endpoint  *)
(*             at once, None before it has been told anything              *)
(*   priming   what `gadget up' has still to do for a function it built:   *)
(*             its answer is "due"; or it was the "last" to set it         *)
(*   off       de-configured: reads of its fd fail, and poll() says so     *)
(*                                                                         *)
(* Counters, log flags and report lengths are left out.  The kernel has    *)
(* the GET_REPORT ioctl (6.10 or newer), so _get_report_supported is TRUE. *)
(***************************************************************************)
EXTENDS Naturals

CONSTANT None       \* no report

BusState == {"configured", "suspended", "away"}

Device(Report) ==
  [ fd           : {"closed", "live", "stale"},
    last         : Report \cup {None},
    disconnected : BOOLEAN,
    disabled     : BOOLEAN,
    backoff      : {"none", "waiting", "due"},
    cached       : Report \cup {None} ]

Function(Report) ==
  [ node     : {"gone", "same", "other"},
    inflight : Report \cup {None},
    answer   : Report \cup {None},
    priming  : {"none", "due", "last"},
    off      : BOOLEAN ]

(***************************************************************************)
(* What a call does is a pair of records: the bridge's and the kernel's.   *)
(***************************************************************************)
\* HidgDevice.__init__
NewDevice ==
  [ fd |-> "closed", last |-> None, disconnected |-> FALSE,
    disabled |-> FALSE, backoff |-> "none", cached |-> None ]

\* The GET_REPORT ioctl, by the bridge.
Answering(f, report) ==
  [f EXCEPT !.answer = report, !.priming = IF @ = "last" THEN "none" ELSE @]

\* cache_get_report: the ioctl on a live fd replaces the kernel's answer.
CacheGetReport(d, f, report) ==
  [ dev |-> IF d.fd = "closed" THEN d ELSE [d EXCEPT !.cached = report],
    fun |-> IF report # d.cached /\ d.fd = "live" THEN Answering(f, report) ELSE f ]

\* Mutant: a node that is opened again is taken to answer as the last one did.
OpenKeepsCache(d, f, idle) ==
  IF d.fd # "closed" THEN [dev |-> d, fun |-> f]
  ELSE LET opened == [d EXCEPT !.fd = "live"]
           found == [f EXCEPT !.node = "same"]
       IN  IF d.cached # None THEN [dev |-> opened, fun |-> found]
           ELSE CacheGetReport(opened, found, idle)

\* open(); only when the node is there.
Open(d, f, idle) ==
  IF d.fd # "closed" THEN [dev |-> d, fun |-> f]
  ELSE CacheGetReport([d EXCEPT !.fd = "live", !.cached = None],
                      [f EXCEPT !.node = "same"], idle)

CanOpen(d, f) == d.fd # "closed" \/ f.node # "gone"

\* revalidate(): compare the device number of the path with the one opened.
Revalidate(d, f, idle) ==
  IF d.fd = "closed" \/ f.node = "same"
  THEN [dev |-> d, fun |-> f]
  ELSE LET lost == [d EXCEPT !.fd = "closed", !.last = None,
                             !.disconnected = TRUE]
       IN  IF CanOpen(lost, f) THEN Open(lost, f, idle)
           ELSE [dev |-> lost, fun |-> f]

Close(d) == [d EXCEPT !.fd = "closed"]

NoteDisconnect(d) == [d EXCEPT !.disconnected = TRUE, !.last = None]

(***************************************************************************)
(* write_report: one attempt, which never blocks.  The kernel's side of it *)
(* is f_hidg_write: refused for good when the host is away or the function *)
(* is gone, refused for now while a request is in flight or the bus is     *)
(* suspended.                                                              *)
(***************************************************************************)
WriteOutcome(d, f, bus, report, force) ==
  LET opened == Open(d, f, report).dev
  IN  IF ~CanOpen(d, f)                                   THEN "noopen"
      ELSE IF ~force /\ report = d.last                   THEN "same"
      ELSE IF opened.fd = "stale" \/ bus = "away"         THEN "lost"
      ELSE IF bus = "suspended" \/ f.inflight # None      THEN "busy"
      ELSE "sent"

Accepted(outcome) == outcome \in {"sent", "same"}
Attempted(outcome) == outcome \in {"sent", "busy", "lost"}

\* Mutant: a refused report is remembered as if it had been sent.
WriteReportRemembersAll(d, f, report, answer, idle, outcome) ==
  LET opened == Open(d, f, idle)
      cached == CacheGetReport(opened.dev, opened.fun, answer)
      accepted == [cached.dev EXCEPT !.last = report]
  IN  CASE outcome = "noopen" -> [dev |-> NoteDisconnect(d), fun |-> f]
        [] outcome = "lost"   -> [cached EXCEPT !.dev = NoteDisconnect(@)]
        [] outcome = "sent"   ->
             [dev |-> accepted, fun |-> [cached.fun EXCEPT !.inflight = report]]
        [] OTHER              -> [cached EXCEPT !.dev = accepted]

\* The records after write_report(report, get_report = answer).
WriteReport(d, f, report, answer, idle, outcome) ==
  LET opened == Open(d, f, idle)
      cached == CacheGetReport(opened.dev, opened.fun, answer)
  IN  CASE outcome = "noopen" -> [dev |-> NoteDisconnect(d), fun |-> f]
        [] outcome = "lost"   -> [cached EXCEPT !.dev = NoteDisconnect(@)]
        [] outcome = "sent"   ->
             [ dev |-> [cached.dev EXCEPT !.last = report, !.backoff = "none",
                          !.disconnected = FALSE, !.disabled = FALSE],
               fun |-> [cached.fun EXCEPT !.inflight = report] ]
        [] OTHER              -> cached

(***************************************************************************)
(* Reads of the LED output reports tell the bridge that the host is gone.  *)
(* A stale fd may report it too.                                           *)
(***************************************************************************)
DisableSignal(d, f) ==
  d.fd # "closed" /\ ~d.disabled /\ (d.fd = "stale" \/ f.off)

ReadDisabled(d) ==
  [d EXCEPT !.disabled = TRUE, !.disconnected = TRUE, !.last = None]

HostStateChanged(d, bus) ==
  IF bus = "configured" THEN [d EXCEPT !.disabled = FALSE] ELSE d

(***************************************************************************)
(* POLLOUT: no request in flight, and the function is configured.          *)
(***************************************************************************)
Writable(d, f, bus) == d.fd = "live" /\ f.inflight = None /\ bus # "away"

EnterBackoff(d) == [d EXCEPT !.backoff = "waiting"]
ExtendBackoff(d) == [d EXCEPT !.backoff = "waiting"]

(***************************************************************************)
(* The kernel's and the host's moves.                                      *)
(***************************************************************************)
\* The UDC is bound, so the node is there; _prime_get_report comes later.
FunctionBuilt(node) ==
  [ node |-> node, inflight |-> None, answer |-> None, priming |-> "due",
    off |-> FALSE ]

\* _prime_get_report: an fd of its own on the node, and the same ioctl.
FunctionPrimed(f, idle) == [f EXCEPT !.answer = idle, !.priming = "last"]

\* Nothing is left of it.
FunctionRemoved ==
  [ node |-> "gone", inflight |-> None, answer |-> None, priming |-> "none",
    off |-> FALSE ]

FunctionDisabled(f) == [f EXCEPT !.inflight = None, !.off = TRUE]

FunctionEnabled(f) == [f EXCEPT !.off = FALSE]

DeviceOrphaned(d) ==
  IF d.fd = "live" THEN [d EXCEPT !.fd = "stale"] ELSE d

=============================================================================
