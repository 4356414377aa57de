------------------------------- MODULE Gadget -------------------------------
(***************************************************************************)
(* The life of the USB gadget (src/hid_bridge/gadget.py): the configfs     *)
(* tree that `gadget up' builds and binds and `gadget down' takes apart,   *)
(* one system call after the other, with the process killed or refused in  *)
(* between, and the state file that `run' finds the devices in.            *)
(*                                                                         *)
(* One command runs at a time, as systemd orders the units.  `calls' is    *)
(* what it has left to do.  The attributes of a directory are one call; a  *)
(* directory that is new has none.  Which of them a configuration leaves   *)
(* out or the kernel refuses is any choice of those the code lets pass.    *)
(***************************************************************************)
EXTENDS Naturals, Sequences, SequencesExt

CONSTANTS
  Configs,     \* configurations the file may hold
  Stringless,  \* those with manufacturer, product and serial all empty
  MaxKills,    \* bound: commands killed or failed by a system call
  Stubborn,    \* directories whose rmdir may fail
  Refusals     \* may priming and the state file fail, too?

ASSUME ConfigsAssumption == Stringless \subseteq Configs
ASSUME BoundsAssumption == MaxKills \in Nat /\ Refusals \in BOOLEAN

VARIABLES
  dirs,       \* the directories there are
  described,  \* the configurations a directory has attributes of
  links,      \* the functions linked into configs/c.1, in order
  bound,      \* has the gadget a UDC?  Then /dev/hidg* are there.
  primed,     \* functions that answer GET_REPORT from their cache
  state,      \* is there a state file?
  udc,        \* the controller: "free", "busy" with another gadget, "absent"
  using,      \* the configuration the last command has read
  command,    \* the last command: "none", "up" or "down"
  result,     \* of that command: "none", "running", "done" or "failed"
  calls,      \* what it has left to do
  refused,    \* history: directories rmdir failed on in the last command
  outlived,   \* history: directories that are there in spite of their rmdir
  stuck,      \* history: could the state file not be removed?
  warned,     \* history: has the gadget been left unprimed or unsaved?
  kills       \* history: how many commands were killed

tree == <<dirs, described, links, bound, primed>>
process == <<using, command, result, calls>>
history == <<refused, outlived, stuck, warned, kills>>
vars == <<tree, state, udc, process, history>>

-----------------------------------------------------------------------------
(***************************************************************************)
(* The tree and the calls on it.                                           *)
(***************************************************************************)
Function == {"kbd", "mouse"}

Dir == {"gadget", "strings", "config"} \cup Function

Call == [do : {"make", "describe", "link", "prime", "unlink", "remove"}, on : Dir]
          \cup [do : {"bind", "resolve", "save", "unbind", "forget"}]

Do(what, on) == [do |-> what, on |-> on]
Just(what) == [do |-> what]

\* Mutants of DownCalls: the state file is left, and one directory.
DownCallsState ==
  <<Just("unbind"), Do("unlink", "kbd"), Do("unlink", "mouse"),
    Do("remove", "config"), Do("remove", "kbd"), Do("remove", "mouse"),
    Do("remove", "strings"), Do("remove", "gadget")>>
DownCallsStrings ==
  <<Just("unbind"), Do("unlink", "kbd"), Do("unlink", "mouse"),
    Do("remove", "config"), Do("remove", "kbd"), Do("remove", "mouse"),
    Do("remove", "gadget"), Just("forget")>>

\* down()
DownCalls ==
  <<Just("unbind"), Do("unlink", "kbd"), Do("unlink", "mouse"),
    Do("remove", "config"), Do("remove", "kbd"), Do("remove", "mouse"),
    Do("remove", "strings"), Do("remove", "gadget"), Just("forget")>>

\* Mutant of BuildCalls: the mouse is linked when the gadget is bound already.
BuildCallsEarly ==
  <<Do("make", "strings"), Do("make", "config"),
    Do("make", "kbd"), Do("make", "mouse"),
    Do("describe", "gadget"), Do("describe", "strings"),
    Do("describe", "config"), Do("describe", "kbd"), Do("describe", "mouse"),
    Do("link", "kbd"), Just("bind"), Do("link", "mouse"), Just("resolve"),
    Do("prime", "kbd"), Do("prime", "mouse"), Just("save")>>

\* Mutant of BuildCalls: the mouse is not primed.
BuildCallsUnprimed ==
  <<Do("make", "strings"), Do("make", "config"),
    Do("make", "kbd"), Do("make", "mouse"),
    Do("describe", "gadget"), Do("describe", "strings"),
    Do("describe", "config"), Do("describe", "kbd"), Do("describe", "mouse"),
    Do("link", "kbd"), Do("link", "mouse"), Just("bind"), Just("resolve"),
    Do("prime", "kbd"), Just("save")>>

\* What up() does once there is no gadget.
BuildCalls ==
  <<Do("make", "strings"), Do("make", "config"),
    Do("make", "kbd"), Do("make", "mouse"),
    Do("describe", "gadget"), Do("describe", "strings"),
    Do("describe", "config"), Do("describe", "kbd"), Do("describe", "mouse"),
    Do("link", "kbd"), Do("link", "mouse"), Just("bind"), Just("resolve"),
    Do("prime", "kbd"), Do("prime", "mouse"), Just("save")>>

\* Mutants of UpCalls: a gadget that is bound is rebuilt, and one that is not
\* is built over what is there.
UpCallsRebuilds ==
  IF "gadget" \in dirs THEN DownCalls \o BuildCalls ELSE BuildCalls
UpCallsOver ==
  IF bound THEN <<Just("resolve"), Just("save")>> ELSE BuildCalls

\* up(): a gadget that is bound is left alone, the ruins of one are cleared.
UpCalls ==
  CASE bound                        -> <<Just("resolve"), Just("save")>>
    [] ~bound /\ "gadget" \in dirs  -> DownCalls \o BuildCalls
    [] OTHER                        -> BuildCalls

-----------------------------------------------------------------------------
Init ==
  /\ dirs = {} /\ described = [d \in Dir |-> {}] /\ links = <<>>
  /\ bound = FALSE /\ primed = {}
  /\ state = FALSE
  /\ udc \in {"free", "busy", "absent"}
  /\ using \in Configs
  /\ command = "none" /\ result = "none" /\ calls = <<>>
  /\ refused = {} /\ outlived = {} /\ stuck = FALSE /\ warned = FALSE /\ kills = 0

(***************************************************************************)
(* Commands.  Each reads the configuration anew.                           *)
(***************************************************************************)
Started(what, todo) ==
  /\ command' = what
  /\ calls' = todo
  /\ result' = IF todo = <<>> THEN "done" ELSE "running"
  /\ using' \in Configs
  /\ refused' = {}
  /\ UNCHANGED <<tree, state, udc, outlived, stuck, warned, kills>>

\* `gadget up'
Up == calls = <<>> /\ Started("up", UpCalls)

\* `gadget down'
Down ==
  /\ calls = <<>>
  /\ Started("down", IF "gadget" \in dirs THEN DownCalls ELSE <<>>)

\* `run --auto-gadget' builds the gadget if neither the state file nor the
\* kernel has its devices; other than that, `run' changes nothing here.
Run ==
  /\ calls = <<>>
  /\ ~(state /\ bound) /\ ~("gadget" \in dirs /\ bound)
  /\ Started("up", UpCalls)

\* Mutant of Ended: the exit status is lost.
EndedSilently(outcome) ==
  calls' = <<>> /\ UNCHANGED <<using, command, result>>

Ended(outcome) ==
  calls' = <<>> /\ result' = outcome /\ UNCHANGED <<using, command>>

\* The call at hand is done.
Proceed ==
  IF Tail(calls) = <<>> THEN Ended("done")
  ELSE calls' = Tail(calls) /\ UNCHANGED <<using, command, result>>

Calling(what) == calls # <<>> /\ Head(calls).do = what

On == Head(calls).on

-----------------------------------------------------------------------------
(***************************************************************************)
(* The calls of up().                                                      *)
(***************************************************************************)
\* makedirs(exist_ok = True), which makes the gadget's directory, too.
Make ==
  /\ Calling("make")
  /\ dirs' = dirs \cup {"gadget", On}
  /\ Proceed
  /\ UNCHANGED <<described, links, bound, primed, state, udc, history>>

\* A string that is empty is not written, and _write_optional only warns when an
\* attribute is missing or refused; configs/c.1 has neither.
MaySkip == On # "config"

\* The kernel refuses the attributes of a function that is linked.
Describe ==
  /\ Calling("describe") /\ \A i \in DOMAIN links : links[i] # On
  /\ ~(On = "strings" /\ using \in Stringless)
  /\ \E kept \in {{}, described[On]} :
       /\ kept # {} => MaySkip
       /\ described' = [described EXCEPT ![On] = kept \cup {using}]
  /\ Proceed
  /\ UNCHANGED <<dirs, links, bound, primed, state, udc, history>>

\* With all three strings empty there is to be no strings directory.
DropStrings ==
  /\ Calling("describe") /\ On = "strings" /\ using \in Stringless
  /\ dirs' = dirs \ {"strings"}
  /\ described' = [described EXCEPT !["strings"] = {}]
  /\ outlived' = outlived \ {"strings"}
  /\ Proceed
  /\ UNCHANGED <<links, bound, primed, state, udc, refused, stuck, warned, kills>>

Link ==
  /\ Calling("link") /\ \A i \in DOMAIN links : links[i] # On
  /\ links' = Append(links, On)
  /\ Proceed
  /\ UNCHANGED <<dirs, described, bound, primed, state, udc, history>>

\* pick_udc and the write to UDC, and the kernel's part of it.
Bind ==
  /\ Calling("bind") /\ udc = "free" /\ links # <<>>
  /\ bound' = TRUE
  /\ primed' = {}
  /\ warned' = FALSE
  /\ Proceed
  /\ UNCHANGED <<dirs, described, links, state, udc, refused, outlived, stuck, kills>>

\* No UDC, or EBUSY: GadgetError.  A link that is there, attributes of a
\* function in use: OSError.
Refused ==
  /\ \/ Calling("bind") /\ udc # "free"
     \/ /\ Calling("describe") \/ Calling("link")
        /\ \E i \in DOMAIN links : links[i] = On
  /\ Ended("failed")
  /\ UNCHANGED <<tree, state, udc, history>>

\* resolve_devices: the nodes of a bound gadget.
Resolve ==
  /\ Calling("resolve") /\ bound
  /\ Proceed
  /\ UNCHANGED <<tree, state, udc, history>>

\* _prime_get_report for one function; it may fail with a warning.
Prime ==
  /\ Calling("prime")
  /\ \/ primed' = primed \cup {On} /\ UNCHANGED warned
     \/ Refusals /\ warned' = TRUE /\ UNCHANGED primed
  /\ Proceed
  /\ UNCHANGED <<dirs, described, links, bound, state, udc, refused, outlived, stuck,
                 kills>>

\* _write_state, in the same way.
Save ==
  /\ Calling("save")
  /\ \/ state' = TRUE /\ stuck' = FALSE /\ UNCHANGED warned
     \/ Refusals /\ warned' = TRUE /\ UNCHANGED <<state, stuck>>
  /\ Proceed
  /\ UNCHANGED <<tree, udc, refused, outlived, kills>>

-----------------------------------------------------------------------------
(***************************************************************************)
(* The calls of down().                                                    *)
(***************************************************************************)
\* _write(UDC, ""): Python writes nothing at all, and the gadget stays bound.
Unbind ==
  /\ Calling("unbind")
  /\ Proceed
  /\ UNCHANGED <<tree, state, udc, history>>

\* The kernel unbinds a gadget that loses a function.
Unlink ==
  /\ Calling("unlink")
  /\ \/ \E i \in DOMAIN links :
          links[i] = On /\ links' = RemoveAt(links, i) /\ bound' = FALSE /\ primed' = {}
     \/ On \notin Range(links) /\ UNCHANGED <<links, bound, primed>>
  /\ Proceed
  /\ UNCHANGED <<dirs, described, state, udc, history>>

\* What the kernel wants gone before a directory.
InUse(d) ==
  \/ d = "config" /\ links # <<>>
  \/ d \in Range(links)
  \/ d = "gadget" /\ dirs # {"gadget"}

\* rmdir, if the directory is there; a failure is only logged.
RemoveDir ==
  /\ Calling("remove")
  /\ \/ /\ On \in dirs /\ ~InUse(On)
        /\ dirs' = dirs \ {On}
        /\ described' = [described EXCEPT ![On] = {}]
        /\ outlived' = outlived \ {On}
        /\ UNCHANGED refused
     \/ /\ On \notin dirs
        /\ UNCHANGED <<dirs, described, refused, outlived>>
     \/ /\ On \in dirs
        /\ \/ InUse(On) /\ UNCHANGED refused
           \/ On \in Stubborn /\ refused' = refused \cup {On}
        /\ outlived' = outlived \cup {On}
        /\ UNCHANGED <<dirs, described>>
  /\ Proceed
  /\ UNCHANGED <<links, bound, primed, state, udc, stuck, warned, kills>>

\* A state file that cannot be removed is left, without a word.
Forget ==
  /\ Calling("forget")
  /\ \/ state' = FALSE /\ stuck' = FALSE
     \/ Refusals /\ state /\ stuck' = TRUE /\ UNCHANGED state
  /\ Proceed
  /\ UNCHANGED <<tree, udc, refused, outlived, warned, kills>>

-----------------------------------------------------------------------------
(***************************************************************************)
(* What happens to a command and to the machine.                           *)
(***************************************************************************)
\* Killed, or a system call fails that no line above lets fail.  Some attributes
\* of a directory may be written then, and others not.
Kill ==
  /\ calls # <<>> /\ kills < MaxKills
  /\ \/ UNCHANGED described
     \/ /\ Calling("describe") /\ ~(On = "strings" /\ using \in Stringless)
        /\ \A i \in DOMAIN links : links[i] # On
        /\ described' = [described EXCEPT ![On] = @ \cup {using}]
  /\ Ended("failed")
  /\ kills' = kills + 1
  /\ UNCHANGED <<dirs, links, bound, primed, state, udc, refused, outlived, stuck,
                 warned>>

\* configfs and /run are gone.
Reboot ==
  /\ command # "none" /\ kills < MaxKills
  /\ dirs' = {} /\ described' = [d \in Dir |-> {}] /\ links' = <<>>
  /\ bound' = FALSE /\ primed' = {}
  /\ state' = FALSE
  /\ command' = "none" /\ result' = "none" /\ calls' = <<>>
  /\ refused' = {} /\ outlived' = {} /\ stuck' = FALSE /\ warned' = FALSE
  /\ kills' = kills + 1
  /\ UNCHANGED <<udc, using>>

\* Another gadget takes the controller or leaves it; a driver is loaded.
UdcChanges ==
  /\ ~bound
  /\ udc' \in {"free", "busy", "absent"} \ {udc}
  /\ UNCHANGED <<tree, state, process, history>>

-----------------------------------------------------------------------------
Step ==
  \/ Make \/ Describe \/ DropStrings \/ Link \/ Bind \/ Refused \/ Resolve \/ Prime \/ Save
  \/ Unbind \/ Unlink \/ RemoveDir \/ Forget

Next == Up \/ Down \/ Run \/ Step \/ Kill \/ Reboot \/ UdcChanges

Spec == Init /\ [][Next]_vars

\* A command goes on.  Nothing starts one: hid-gadget.service runs `up' once, and
\* is not restarted when it fails.
Fairness == WF_vars(Step)

FairSpec == Spec /\ Fairness

-----------------------------------------------------------------------------
(***************************************************************************)
(* Properties.                                                             *)
(***************************************************************************)
\* Types; a command that runs has something left, and one that ended has an
\* outcome.
TypeOK ==
  /\ dirs \subseteq Dir
  /\ described \in [Dir -> SUBSET Configs]
  /\ links \in Seq(Function)
  /\ bound \in BOOLEAN /\ primed \subseteq Function /\ state \in BOOLEAN
  /\ udc \in {"free", "busy", "absent"}
  /\ using \in Configs
  /\ command \in {"none", "up", "down"}
  /\ result \in {"none", "running", "done", "failed"}
  /\ calls \in Seq(Call)
  /\ refused \subseteq Dir /\ outlived \subseteq Dir
  /\ stuck \in BOOLEAN /\ warned \in BOOLEAN /\ kills \in 0..MaxKills
  /\ calls # <<>> <=> result = "running"

\* What a directory tells the host is of the configuration c, and nothing else,
\* unless it is one that should have been removed.
Tells(d, c) ==
  /\ d \in dirs /\ c \in described[d]
  /\ d \notin outlived \/ d = "config" => described[d] = {c}

\* Both functions, and every descriptor of the configuration c.
Whole(c) ==
  /\ links = <<"kbd", "mouse">>
  /\ \A d \in Dir \ {"strings"} : Tells(d, c)
  /\ IF c \in Stringless THEN "strings" \notin dirs ELSE Tells("strings", c)

\* The host never sees half a device: whatever was killed, refused or left over
\* before, a bound gadget has the keyboard and then the mouse, and describes them
\* by one configuration.  Values of an older one can be left only in a directory
\* that rmdir did not remove, where the new one leaves a string empty, or an
\* optional attribute is not written (gadget.py:238, gadget.py:62).
BoundIsWhole == bound => \E c \in Configs : Whole(c)

\* docs/troubleshooting.md:108: `up' on a bound gadget changes nothing; the
\* host loses its keyboard by `down' and by a reboot only.
UpNeverUnplugs ==
  [][bound /\ ~bound' => command = "down" \/ command' = "none"]_vars

\* An `up' that succeeded leaves a gadget that is bound; without a warning and
\* without a command that was killed, also one that answers GET_REPORT and has
\* its state file.
UpMeansReady ==
  command = "up" /\ result = "done" =>
    /\ bound
    /\ kills = 0 /\ ~warned => primed = Function /\ state

\* A `down' that ended leaves nothing but the directories the kernel refused
\* to remove.
DownLeavesNothing ==
  command = "down" /\ result = "done" =>
    /\ ~bound /\ links = <<>>
    /\ dirs \subseteq refused \cup (IF refused = {} THEN {} ELSE {"gadget"})

\* Between two commands there is no state file without a gadget that is bound,
\* but for one that a killed command left, or one that down() could not remove
\* (gadget.py:343).
StateIsCurrent ==
  calls = <<>> /\ kills = 0 /\ state => bound \/ stuck

(***************************************************************************)
(* The inductive invariant behind these.  It follows a command by the      *)
(* number of calls left: of down(), 9 unbinds, 8 and 7 unlink, 6 to 2      *)
(* remove a directory, 1 forgets the state file.  Of up(), 25 to 17 are    *)
(* those of down(), where there are ruins; 16 to 13 make a directory, 12   *)
(* to 8 describe one, 7 and 6 link, 5 binds, 3 and 2 prime, 1 saves.       *)
(***************************************************************************)
Left == Len(calls)

RebuildCalls == DownCalls \o BuildCalls

\* The calls left are the last ones of a plan.
Ends(plan) ==
  /\ Left <= Len(plan)
  /\ \A i \in 1..Left : calls[i] = plan[Len(plan) - Left + i]

Rebuilding == command = "up" /\ Left > 0 /\ Ends(RebuildCalls)
Refreshing == command = "up" /\ calls = <<Just("resolve"), Just("save")>>
TakingDown == command = "down" /\ Left > 0 /\ Ends(DownCalls)

CallsFollow == calls # <<>> => Rebuilding \/ Refreshing \/ TakingDown

\* What configfs sees to: what is linked is there, and so is what it is in.
TreeIsSound ==
  /\ dirs # {} => "gadget" \in dirs
  /\ links \in {<<>>, <<"kbd">>, <<"mouse">>, <<"kbd", "mouse">>}
  /\ links # <<>> => "config" \in dirs
  /\ \A f \in Function \ dirs : f \notin Range(links)

\* up() has linked what it has come to, ...
LinksFollow ==
  Rebuilding =>
    /\ Left <= 23 /\ Left >= 7 => "kbd" \notin Range(links)
    /\ Left <= 22 /\ Left >= 7 => links = <<>>
    /\ Left = 6 => links = <<"kbd">>
    /\ Left <= 5 => links = <<"kbd", "mouse">>

\* ... has made ...
DirsFollow ==
  Rebuilding =>
    /\ Left <= 15 => "gadget" \in dirs
    /\ Left <= 15 /\ Left >= 11 => "strings" \in dirs
    /\ Left <= 14 => "config" \in dirs
    /\ Left <= 13 => "kbd" \in dirs
    /\ Left <= 12 => "mouse" \in dirs

\* ... and described it, ...
DescriptionFollows ==
  Rebuilding /\ Left >= 5 =>
    /\ Left <= 11 => Tells("gadget", using)
    /\ Left <= 10 => IF using \in Stringless THEN "strings" \notin dirs
                     ELSE Tells("strings", using)
    /\ Left <= 9 => Tells("config", using)
    /\ Left <= 8 => Tells("kbd", using)
    /\ Left <= 7 => Tells("mouse", using)

\* ... having found nothing in a directory but in one that was not removed, ...
Blank(d) == d \in outlived \/ described[d] = {}

AbsentIsBlank ==
  /\ outlived \subseteq dirs
  /\ \A d \in Dir \ dirs : described[d] = {}

BlanksFollow ==
  Rebuilding =>
    /\ Left \in 12..17 => Blank("gadget")
    /\ Left \in 11..18 => Blank("strings")
    /\ Left \in 10..21 => Blank("config")
    /\ Left \in 9..20 => Blank("kbd")
    /\ Left \in 8..19 => Blank("mouse")

\* ... all of it before it binds; what it primes is primed.
BindingFollows ==
  Rebuilding =>
    /\ bound <=> Left <= 4
    /\ Left >= 5 /\ kills = 0 => ~state \/ stuck
    /\ Left <= 2 /\ kills = 0 /\ ~warned => "kbd" \in primed
    /\ Left <= 1 /\ kills = 0 /\ ~warned => "mouse" \in primed

\* down() leaves what the kernel refused, and what is needed for it.
RemovalFollows ==
  TakingDown \/ (command = "down" /\ result = "done") =>
    /\ Left <= 7 => ~bound /\ "kbd" \notin Range(links)
    /\ Left <= 6 => links = <<>>
    /\ Left <= 5 /\ "config" \in dirs => "config" \in refused
    /\ Left <= 4 /\ "kbd" \in dirs => "kbd" \in refused
    /\ Left <= 3 /\ "mouse" \in dirs => "mouse" \in refused
    /\ Left <= 2 /\ "strings" \in dirs => "strings" \in refused
    /\ Left <= 1 /\ "gadget" \in dirs => refused # {}

\* A gadget that is bound has been primed and saved before, unless up() is
\* about to do that, a warning was given or a command was killed.
BoundIsReady ==
  bound /\ ~Rebuilding /\ kills = 0 /\ ~warned => primed = Function /\ state

\* up() refreshes what is bound, and leaves it so.
RefreshingIsBound == Refreshing => bound
DoneIsBound == command = "up" /\ result = "done" => bound

IInv ==
  /\ TypeOK
  /\ CallsFollow
  /\ TreeIsSound
  /\ LinksFollow
  /\ DirsFollow
  /\ DescriptionFollows
  /\ AbsentIsBlank
  /\ BlanksFollow
  /\ BindingFollows
  /\ RemovalFollows
  /\ BoundIsWhole
  /\ BoundIsReady
  /\ RefreshingIsBound
  /\ DoneIsBound
  /\ StateIsCurrent

\* Whatever earlier commands left over, one `up' is enough: it ends with a gadget
\* that is bound, unless it is killed or another gadget has the controller.
ComesUp ==
  \A n \in 0..MaxKills :
    (command = "up" /\ result = "running" /\ kills = n)
      ~> (bound \/ udc # "free" \/ kills > n)

=============================================================================
