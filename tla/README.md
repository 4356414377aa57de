# Specifications of the HID bridge

TLA+ models of `src/hid_bridge/`, the TLC configurations that check them on
small instances, and TLAPS proofs of what they promise for every instance.

## The system

The bridge runs on a Raspberry Pi CM5 between input devices (a PiKVM's USB
keyboard and mouse, macro pads) and a host PC, to which it is a USB keyboard
and mouse built with `libcomposite` and `usb_f_hid`.  One process, one thread,
one `select()` loop.  Everything below shares the state of one `Bridge` object.

| part | code | state | operations | talks to |
|---|---|---|---|---|
| keyboard path | `bridge.py` `_flush_keyboard`, `_pump_keyboard` | `Source.pressed`, `macro.pressed`, `_kbd_queue` | merge, queue, pump on input, on POLLOUT, on the rescan and backoff timers; resync | keyboard device |
| mouse path | `bridge.py` `_emit_mouse_*`, `_pump_mouse` | `Source.buttons`, `macro.buttons`, `_btn_queue`, `_mouse_dx/dy/wheel`, `abs_pos`, `_mouse_last_buttons`, `_mouse_dirty`, `_motion_blocked_since` | queue, accumulate, saturate, drop, pump; relative and absolute | mouse device; `kbd.host_disabled`; the keyboard's refused writes |
| HID device | `hidg.py` | `fd`, `_rdev`, `last_report`, `disconnected`, `host_disabled`, `backoff_until`, the GET_REPORT cache | open, revalidate, write once, write until a deadline, read, back off | `/dev/hidgN`, sysfs |
| reports | `reports.py` | none | state to bytes | |
| macro engine | `macros.py` | `pressed`, `buttons`, a heap of deadlines, tasks | start, run due steps, press, release, release_all | both paths, by callback |
| input sources | `bridge.py` `_rescan`, `_process`, `linux_input.py` | `sources`, `by_path`, `ignored`, `retry_after`; per source what is held | attach, grab, frames, SYN_DROPPED, detach | both paths, macro engine |
| host LEDs | `_handle_leds`, `_apply_leds` | `leds` | forward to every keyboard | keyboard device, sources |
| control socket | `control.py`, `handle_control` | none between requests | status, macros, release_all | the whole bridge |
| gadget lifecycle | `gadget.py` | configfs tree, state file | up, down, prime GET_REPORT | the kernel; the bridge sees nodes come and go |
| start and stop | `run`, `shutdown`, `__main__.py`, `systemd/` | `stop` | signals, release what is held | both devices |
| tables, configuration | `keymap.py`, `descriptors.py`, `config.py` | none | lookups, validation | |

### What is hard about it

* The host acts between any two system calls of a handler: it collects a
  report, suspends the bus, de-configures and re-configures the gadget.
  `usb_f_hid` holds one report in flight; the next write is refused until the
  host has collected it, and a suspended bus is refused the same way.
* What the host holds is known only from what was accepted.  A host that
  re-enumerates has forgotten it, and the only news of that is a failing read
  on the keyboard's device, or a failing write.
* The node can be recreated under the bridge, with the same device number or
  another one; `gadget up` primes GET_REPORT some time after the node is there.
* Transitions queue up while the host does not collect; the queue is bounded
  and gives up its oldest entry.
* Retry timers, POLLOUT and the periodic rescan all lead to the same pump.
* Macros that run at the same time press into one set of keys, and an exception
  may end one of them between a press and its release.
* `eventN` numbers are reused, the kernel drops events when the loop is late,
  and what `EVIOCGKEY` answers is newer than the events already read.
* The configfs tree is built and taken apart by some twenty system calls; a
  command may be killed between two of them, and the next one starts from there.

`PROJECT.json` lists each hazard at its line with the properties that cover it.

### What makes each part correct

* keyboard: the queue's end is the merged state; the bridge never forgets a
  key the host holds; states arrive in order; the last state arrives.
* mouse: the same for buttons; no motion is sent twice, and none stays pending
  for ever; a position is told; pending work keeps the sink dirty.
* device: `last_report` is true or the host holds nothing; the cached answer
  is the kernel's, unless `gadget up` has just replaced it.
* macros: whatever is held has a task that will release it, or was left down
  on purpose; every macro ends.
* sources: what is merged is what the attached devices hold, and bound keys are
  not in it; a device that left is forgotten, one that stays is attached; every
  attached keyboard shows the host's LEDs.
* gadget: a bound gadget is whole; whatever is left over, one `up` builds it
  again, and never unplugs the host; `down` leaves nothing.

## Modules

| module | models |
|---|---|
| `Reports` | `keyboard_report`: a report is two sets of usages, with the roll-over and the descriptor's maximum; `clamp` |
| `Hidg` | one `/dev/hidgN` as two records, the bridge's (`HidgDevice`) and the kernel's (`f_hid`), and operators for every method.  `WriteOutcome` is what the kernel answers to a write, `WriteReport` what the method makes of it |
| `Keyboard` | the keyboard path with one of each record and the host |
| `StateChannel` | abstract: what a keyboard, or the buttons of a mouse, promise, without queue, device or kernel.  A latch, `power`, says when the device is switched off: only then, and once, may it drop its backlog and say that nothing is held |
| `Mouse` | the mouse path, both modes |
| `MacroSteps` | what a macro's steps do, as a sequence of operations with delays: taps with modifiers, clicks, typed text, nesting |
| `MacroEngine` | tasks, the heap of deadlines, `run_due`, errors, for any operations |
| `MacroRuns` | the engine running what `MacroSteps` makes of steps that `parse_step` accepts |
| `InputSources` | nodes that come and go, `_rescan`, `_process`, `SYN_DROPPED` and `_resync_source`, what is merged, the LEDs |
| `Gadget` | `gadget up` and `gadget down` one system call at a time, the state file |
| `MCKeyboard`, `MCMouse`, `MCMacroEngine`, `MCInputSources` | TLC instances, and claims of the documentation that fail |
| `HidgProofs`, `KeyboardProofs`, `MouseProofs`, `MacroEngineProofs`, `MacroRunsProofs`, `InputSourcesProofs`, `GadgetProofs` | TLAPS proofs of the module they are named after |
| `SequenceLemmas` | induction over numbers; what inserting, removing, joining and flattening does to sequences |

`Keyboard` and `Mouse` use `Reports` and `Hidg`, and both implement
`StateChannel`, `Mouse` with its buttons.  `MacroRuns` joins `MacroEngine` and `MacroSteps`.
`MacroEngine` and `InputSources` end where `Keyboard` and `Mouse` begin: their
`pressed` is what `Frame`, `Process` and `MacroKeys` there choose freely.
`Gadget` ends at the nodes, which `GadgetDown` takes away, `GadgetUp` (the bind)
brings back and `GadgetPrimes` primes in the models of the paths.

### How the code maps to actions

A handler of the loop runs to its end before the next starts, but makes system
calls on the way.  So a handler is one action up to its first write
(`Process`, `RemoveSource`, `MacroKeys`, `ReleaseAll`, `PollHostState`,
`OnWritable`, `ServiceBackoff`, `ReadOutputReport`; `Frame` and `MacroMouse` for
the mouse), and each iteration of the pump's loop is a further action
(`PumpDelivers`, `PumpDefers`, `PumpReturns`, ...).  The variable `calls` is what
the running handler has left: a pump, a pump from POLLOUT, the second half of
`release_all` (`ClearSources`), the reply to a client.  Only the host, the
kernel and the clock move while it is not empty.

`last = None` is `last_report is None`, `fd = "stale"` an fd that is open on a
removed function, `node` the node at the path compared with `_rdev`.  `backoff`
is `backoff_until`: `"none"` (0.0), `"waiting"`, `"due"`; `blocked` is
`_motion_blocked_since` in the same way.  `PumpFaults` is an errno that
`write_report` raises: inside a control request it becomes an error reply,
elsewhere it ends the loop and `shutdown()` runs.  `Deconfigure`, `Configure`,
`Suspend`, `Resume`, `Collect`, `GadgetDown`, `GadgetUp` and `GadgetPrimes` are
the host, the kernel and the `gadget` command.  A host that is reset forgets what
is held.  A function that was built answers nothing (`answer` is `None`) before
somebody told it to: the bridge, or `_prime_get_report`, which comes after the
bind and so before or after the bridge has opened the node (`priming`).

`Shutdown` is the part of `shutdown()` up to its write; `ReleaseWrite` is one
attempt of `write_report_blocking`, `ReleaseFaults` one that raises, which
`shutdown()` catches.

Keyboard and Mouse are separate models.  What they exchange is in `Mouse`:
`kbdAway` is `kbd.host_disabled`, the flag both paths resynchronise by;
`KeyboardSent` clears it, `KeyboardReads` sets it, and `KeyboardRefused` is
`_on_write_deferred(kbd, from_pollout=True)`, which drops the mouse's motion.

**Macro engine.**  A task is a macro and the number of its next operation; an
operation is what the generator does between two `yield`s, with the set of delays
it may yield (`tap_delay`, `gap_delay` with their jitter).  `Start` is `start` or
`start_steps` with the first `_advance`, `RunDue` one iteration of the loop in
`run_due`, and `Finish`, `Abort`, `Yield` the three ways out of `_advance`.  The
queue is the heap in the order in which it is emptied, with ticks left instead of
deadlines.  `Break` is an `OSError` that comes out of the callback: it leaves
`_advance` by none of the three.  From a request it ends as an error reply
(`StartBreaks`), in `run_due` it ends the loop.  An operation presses a set of
usages: `press` is a set union in the code too, not a count.

**Input sources.**  `Rescan` is `_rescan`: verdicts on inodes that are
gone are dropped, nodes are tried, attached or ignored, and LEDs applied.  A
device that is to be ignored is opened and identified first, and the inode the
verdict is about is asked for later, by path (`_inode`): that is `Judge`, and the
node may have changed hands in between (`judging`).
`ReadEvents` drains the kernel's buffer into a batch and `Apply` or `Resync` goes
through it one event at a time, while devices and users go on.  A frame is one
key event and its `SYN_REPORT`.  `told` is what the two paths have been told
last.  `source[p].live` is whether the open fd still has a device;
`ignored = "stale"` is a verdict on an inode that is gone.

**Gadget.**  `calls` is what the command has left to do; `Up`, `Down` and `Run`
choose it, one action per call does it, `Kill` cuts it off anywhere, and leaves a
directory half described if that is what the command was at.  `described` is the
set of configurations a directory has attributes of: `Describe` leaves the older
ones where a string is empty or `_write_optional` may do without (`MaySkip`), and
`DropStrings` is the `rmdir` of a configuration without strings.  `Forget` and
`RemoveDir` go on when their call fails, as the code does.
`resolve_devices`, which waits for nodes that are there, does not fail.

### What was abstracted

Counters, logs, the order of usages in a report (the host reads a set), time
(a timer is an action that may happen), the value of the LEDs, scaling of
absolute pointers (any position), `rel_to_abs_gain`.  The kernel has the
GET_REPORT ioctl (6.10).  One life of the process is modelled: it starts with a
host that holds none of its keys.  In Keyboard and Mouse a frame names the new
state of a source's keys, one `SYN_REPORT` at a time; what `SYN_DROPPED` leaves is
such a state.  In MacroEngine the labels of tasks, the parsing of a step's text and
the motion of a step; in InputSources the grab, motion, key repeat and the codes
that have no usage; in Gadget the values of attributes, of which only the
configuration they come from matters, and which attributes of a directory are
optional: any of them may keep an older value, but in `configs/c.1`, where all
are written.

## Runs

| run | shows |
|---|---|
| `keyboard_safety` | `TypeOK`, `TailIsCurrent` (the end of the queue is the merged state), `HostIsKnown` (the host holds what the bridge believes, or nothing), `NoStuckKey` (with an empty queue it holds the merged state, or nothing), `CacheCoherent` (the cached answer is the kernel's, unless `gadget up` replaced it), under all interference at once; `InOrder`: refinement of `StateChannel`, also when the host is reset faster than the bridge sees it: a running bridge takes no state back but for a full queue or a host that is absent or was missed |
| `keyboard_arrives` | `StateArrives` under fairness, gadget not rebuilt |
| `mouse_safety` | the same for buttons; `PendingIsDirty`; `AnswerIsStill` (GET_REPORT is never answered with motion); `MotionNotRepeated` (but for new input no step sends more than was pending, and what it sends is taken off); `ButtonsInOrder`: refinement of `StateChannel` |
| `mouse_absolute` | `NoStuckButton`, `PositionIsTold` in absolute mode |
| `mouse_arrives` | `ButtonsArrive`, and `MotionSettles` (no motion stays pending: the host gets it or it is given up; the loss is what `mouse_split` is about), under fairness, also after a rebuild |
| `macros` | `RunningIsLive` (`running` counts the tasks there are), `HeldIsOwned` (whatever is down has a task that brings it up, had one an error took away, or was left down on purpose), `NothingStuck` (with no task left only what a `press` or `mouse down` without a release left is down), `LimitIsKept` (a run fails if its macro nests deeper than `MAX_DEPTH`, and only then: `docs/macros.md:27`), `AllEnd` |
| `sources` | `CaughtUp` (events read, the bridge holds what the device holds; here only rules with the role macro have bindings), `BoundKeysStay`, `ToldIsMerged` (no change without a flush), `LedsShown`, `GoneIsForgotten`, `PluggedIsAttached` (but for a device that took the place of an ignored one while a rescan was looking at it) |
| `gadget` | `BoundIsWhole` (the host never sees half a device, nor two configurations but for what directories that `rmdir` left keep), `UpNeverUnplugs`, `UpMeansReady`, `DownLeavesNothing`, `StateIsCurrent`, `ComesUp` (one `up` is enough whatever was left over, unless it is killed or the controller is not free) |

Four runs show that something the repository says does not hold:

* `keyboard_rebuilt`: a key held while the gadget is rebuilt is never told to
  the host.  `_poll_host_state` queues the current state only if
  `host_disabled` was set; a reopened node only clears `last_report`.  The mouse
  does not have this (`mouse_arrives` allows rebuilds), since `_pump_mouse`
  looks at `last_report` itself.
* `keyboard_stop`: a key is released, the release is still queued, the process
  gets a signal: nothing is held, so `shutdown()` sends nothing, clears the
  queue, and the host keeps the key down.
* `mouse_split`: `_pump_mouse` from POLLOUT sends the first 127 counts, loops,
  and is refused since they are in flight.  It takes this for a suspended bus,
  backs off and drops the rest.
* `mouse_position`: after the first rescan `_mouse_last_buttons` is 0 and
  `last_report` still `None`, so an absolute pointer that moves takes the silent
  branch until a button or the wheel changes.

Seen while modelling, without a run of their own: two queued key states have
the same spurious backoff as `mouse_split`, without loss; a device that is still
marked disconnected is refused on a suspended bus without any backoff, so
`select()` returns at once, again and again; after a reset with nothing held
GET_REPORT answers the keys of before; a rescan that finds the node gone closes
the fd, and only the next write opens the recreated one; a node rebuilt with the
same device number is never reopened; an accepted key report clears
`host_disabled` before the rescan looks at it, and a held mouse button is then
not told to a new host (with `Shared = TRUE` `ButtonsArrive` fails; `mouse_arrives`
has a mouse alone); `_note_buttons`
makes the first event without motion send a report of zeros.

A bridge that runs while the gadget is rebuilt may open the node between the
bind (`gadget.py:289`) and the priming (`gadget.py:297`), and publish an answer
that `_prime_get_report` then replaces by the idle report.  The bridge takes the
kernel to have the other one, so it does not repeat it: GET_REPORT says that
nothing is held until the bridge publishes a report that differs from its last.
`CacheCoherent` and `AnswerIsStill` except this case and no other.

In the macros: an `OSError` in a step leaves the task counted as running for
good and its keys down until `release_all` (`lost` in `HeldIsOwned` and
`RunningIsLive`).

In the sources:

* `_resync_source` asks for the keys when `_process` reaches `SYN_DROPPED`, after
  the whole batch was read.  Events of the batch that follow are older than the
  answer, and the ioctl takes the newer key events out of the kernel's buffer.  A
  key that comes up in between can stay down at the host until it is pressed
  again; `README.md:129` ("no key can stick") and the docstring at
  `bridge.py:283` do not say so.  `CaughtUp` excepts exactly these codes
  (`moved`, `unsure`).
* `_resync_source` skips the codes in `src.bindings` whatever the role
  (`bridge.py:290`), `_process` looks at the bindings under the role macro only
  (`bridge.py:439`), and `config.py:235` accepts bindings under any role.  So with
  a passthrough rule that has bindings a `SYN_DROPPED` releases a bound key at the
  host while it is held down (`Mislaid`).  The run has no such rule, the proofs
  are for any.
* keys held while a source is attached are not read, and `release_all` forgets
  keys that are still held; both are `unsure` until they move.

* `_rescan` opens and identifies a device (`bridge.py:347`) and asks for the inode
  of its path later (`bridge.py:355`, `bridge.py:360`).  When the device is to be
  ignored, and another one takes its place in between, the verdict is recorded
  under the inode of the newcomer, which is not looked at again, although the
  comment at `bridge.py:330` says that it "must be re-evaluated, not inherit the old
  verdict".  `PluggedIsAttached` excepts it (`misjudged`).

In the gadget:

* `_write(UDC, "")` in `down()` writes no byte, so it makes no `write(2)`; the
  kernel unbinds the gadget when the first function is unlinked.
* an `up` killed after it has bound leaves a gadget that the next `up` finds
  bound and does not prime; a `down` killed after the last `rmdir` leaves the
  state file, since the next one finds no gadget and returns at once.
  `UpMeansReady` and `StateIsCurrent` hold without kills only.
* an `unlink` of the state file that fails is passed over (`gadget.py:345`) and
  `down` ends as if done; the next one finds no gadget, and leaves the file, too.
  `StateIsCurrent` excepts it (`stuck`).
* a directory that `rmdir` did not remove keeps its attributes.  The next `up`
  does not write a string that is empty (`gadget.py:239`), nor an optional
  attribute that is refused (`gadget.py:69`), so the value of the older
  configuration stays, and the host sees both.  `Tells` has it (`outlived`).
* nothing repeats an `up` that failed: `hid-gadget.service` is `Type=oneshot`
  without `Restart=`, and `hid-bridge.service` runs without `--auto-gadget`.  So
  `ComesUp` is about one `up`.
* `up` on a bound gadget rewrites the state file from the configuration of now,
  though `docs/troubleshooting.md:108` says that it changes nothing.
* nothing keeps two commands from running at once; `Gadget` runs one at a time,
  as the units are ordered.

### Bounds

One source and one or two macro keys: the merge is a union, and two holders of
the same key (source and macro) are enough for one to release what the other
holds.  Two plain usages with one slot make a roll-over.  A queue of two (one
in the larger mouse instances) overflows while a third state is in flight and a
fourth is held.  Motion: 2 per frame with 1 per report and a limit of 2 makes
a motion that needs two reports, saturation and clamping; it goes backwards in
`mouse_safety`, where the sign could matter, and forwards in the others, and the
theorem `MotionSentOnce` is about motions of both signs.  `relative` has one of its
equal counters.  Absolute: two or three positions and a wheel that holds one
count.  `Rebuild` lists the device numbers a rebuilt node may get; without it
the gadget stays.  `FastReset = TRUE` lets the host come back before the bridge
has read that it had left: the liveness runs exclude that, since a reset nobody
saw cannot be answered.  These state spaces are finite without any further bound.

Macros: seven macros with every kind of step but motion, one of which nests just as
deep as the limit allows and one itself, for ever; three tasks (`MaxStarts`), since two that overlap and a third that
starts when one has ended is what it takes to release what another one holds;
`MaxDepth` 2 instead of 8.  Sources:
three kinds of device (a keyboard with a button, a macro pad, one that is ignored)
on one node, so that each can follow each; for several nodes at once all its invariants
are proved.  A buffer of two overflows with the third event.  Gadget: two
configurations, one of them without strings, and two kills, so that an `up`, which
is killed, is repaired by another one, which is killed too.  Two directories
(`Stubborn`) may refuse to go: that of a function, in which optional attributes are
left, and `strings`, whose values may be left empty; priming, the state file and
its removal may fail (`Refusals`).

### Fairness

A started handler goes on (weak fairness of `Pump`, `ClearSources`).  `select()`
is level triggered, every iteration serves every ready fd, and the rescan and
the backoff timer are looked at in each iteration, however often other handlers
run in between: strong fairness of `OnWritable`, `ReadOutputReport`,
`PollHostState`, `ServiceBackoff`.  Time passes (`BackoffExpires`).  A host that
stays configured polls its interrupt endpoint (`Collect`).  Nothing is assumed
of input, suspend, resume, resets, faults and the release at shutdown.

Macros: the loop wakes up for the first deadline (`RunDue`) and time passes
(`Tick`).  Sources: a batch is gone through (`Reading`); a ready fd is served and
the rescan comes back however often other handlers run (strong fairness of
`ReadEvents`, `RemoveSource`, `Scan`); a retry entry expires; a node tried again
and again opens at some time; a verdict that was begun is recorded (`Judge`).  Gadget: a
command goes on (`Step`); nothing is assumed to start one.

## Proofs

`HidgProofs` states what the methods of a device do to the two records, as one
predicate per method (`Revalidates`, `Writes`).  `KeyboardProofs` proves for any
number of sources, any set of usages, slots and queue length, with or without
fast resets, rebuilds and faults:

* `TypeCorrect`, `TailCorrect`, `HostCorrect`, `NoKeySticks`, `CacheCorrect`:
  `Spec => []P` for `TypeOK`, `TailIsCurrent`, `HostIsKnown`, `NoStuckKey`,
  `CacheCoherent`.

The last is proved with `Coheres`: an fd that is live is open on the node that
is there, and its cache is what that node answers, or the node was primed after it
was opened and answers the idle report, in every mode.  The others
follow from one inductive invariant, `IInv`.  `HostIsKnown` is not inductive:
a resync sets `last` to `None`, which is safe only if the host holds nothing
then.  So `IInv` adds who could have left the host with a key: a host that is
away, a function the bridge has no live fd for, and a host after a disable
signal hold nothing (`AwayIsUntouched`, `OthersAreUntouched`, `DisabledIsIdle`),
the fd is live only on the node it opened (`NodeIsOpened`), a disabled function
is that of a host that is away (`OffIsAway`), and no handler is left half way
when the process stops (`OnlyRunningCalls`).  `NoStuckKey` follows from the tail
and the host: with an empty queue the tail is `last`.  The proof has one lemma
for each group of actions, and `FlushPreserves` for the flush they share.

The assumptions are those on the constants: usages are bytes, the queue has
room for one state, `None` is not a report.

`MacroEngineProofs` proves, for any macros, operations, delays and number of
starts, with or without faults, `TypeCorrect` (which says that the queue stays
sorted), `CountCorrect` (`RunningIsLive`) and `HeldCorrect` (`HeldIsOwned`).
`PushedFacts` says that inserting behind the last entry that is not later keeps the
heap's order and every task; `StepTypes` and `StepOwns` say what advancing a task
does, whichever way out of `_advance` it takes; the actions follow.  What
`HeldIsOwned` needs beyond types is that an operation that presses a key either has
its release ahead in the same task or leaves it for good.

`MacroRunsProofs` is about the operations that the steps become, for any macros,
nested in any way, and any limit.  It assumes of a macro what `parse_step` lets
through (`MacrosAssumption`): `config.validate` parses every step of every macro
(`config.py:242`), and a control request its own (`bridge.py:543`).

* `CompiledIsTyped`: they are operations as `MacroEngine` assumes them
  (`OpsAssumption`), so the theorems above are about every configuration.
* `NothingStuckCorrect`, `Spec => []NothingStuck`: what is held with no task left
  is, by `HeldCorrect`, what the operations of some macro leave down
  (`KeysLeft`); `LeftIsMeant` says that some list of steps, perhaps a nested
  one, then presses that key and does not release it.
* `LimitKept`, `Spec => LimitIsKept`: `Inlined[0][m]` has a `raise` just if a
  chain of nested macros that starts with `m` is longer than `MaxDepth`
  (`RaiseIsDeep`).  A task that is waiting has met no `raise` yet
  (`NothingRaised`, the inductive invariant), so one that completes has met
  none at all.

All three need induction over data: over the steps of a macro, which
`FlattenSeq` joins, and over the depth, from the deepest level up.  The induction
theorems of the library take a predicate as a parameter, which no installed prover
instantiates; `SetInduction` takes the set of the numbers that have the property
instead, and follows from `WFMin`, that a non-empty set of numbers has a
smallest.  With it `FlattenDef` gives `FlattenSeq` its two equations,
`FlattenStands` says when an operation of a joined sequence is followed by none
that undoes it, and `InlinedDef` and `InlinedFacts` say that the recursive function
`Inlined` exists and what it has at each depth.

`InputSourcesProofs` proves, for any paths, devices, rules and kernel buffer:
`TypeCorrect`, `BoundCorrect` (`BoundKeysStay`), `ToldCorrect` (`ToldIsMerged`) and
`LedsCorrect` (`LedsShown`).  What is told is the merge after every event, not
only between handlers (`ToldAlways`): `_remove_source` may leave out a flush when
the source held no key, since then the merge of keys is the same without it
(`MergedChanges`).  The LEDs need that an open fd with a device is at the node the
device is at (`LiveIsThere`) and that a device has one node (`OneNode`).

`CaughtUpToBindings` and `CaughtUpCorrect` are about what a `SYN_DROPPED` leaves.
Where the kernel's buffer or the batch has a frame of a code, the last one says
whether it is down; where neither has one, the source's set does (`PipeAgrees`,
`BatchAgrees`, `SourceAgrees` in `CaughtInv`).  The argument stands on
`SYN_DROPPED` being the first of what is left in a buffer (`Ordered`): whatever
follows it was there when `_resync_source` asked, or moved since (`moved`).
`CaughtUpCorrect` has the hypothesis that only macro rules have bindings, without
which `CaughtUp` is false; `CaughtUpToBindings` has no
hypothesis and excepts the codes that the two functions disagree on (`Mislaid`)
as well.  Both except those in `unsure`, as `CaughtUp` itself does: codes that were
down when the source was attached, that `release_all` made the bridge forget, or
that moved while a `SYN_DROPPED` was answered.

`MouseProofs` proves, in both modes, for any sources, buttons, axes, positions,
motions of either sign, limits, queue length, fast resets, rebuilds and faults:
`TypeCorrect`, `ButtonTailCorrect`, `NoButtonSticks`, `PendingStaysDirty`,
`PositionTold`, `AnswerStaysStill` and `MotionSentOnce`.  The invariant has the
shape of the keyboard's, but its `HostIsKnown` must say less: the mouse forgets
`last_report` at a resync and keeps `_mouse_last_buttons`, so when the report is
forgotten the host holds nothing, or the buttons as they are now, or others are
queued.  `DirtyWhilePending` and `ToldUnlessDirty` are `PendingIsDirty` and
`PositionIsTold` while a handler still runs.  `AnswerIsStill` goes with the cache
(`AnswerKnown`, in `HidgProofs`): the answer the kernel has is the one the bridge
set, or the idle report it was primed with, and neither has motion.  That says
nothing of an absolute position, which is 0,0 in the idle report.

`GadgetProofs` proves `TypeCorrect`, `HostSeesWhole` (`BoundIsWhole`), `UpDelivers`
(`UpMeansReady`), `DownClears` (`DownLeavesNothing`), `StateStaysCurrent`
(`StateIsCurrent`) and `NothingElseUnplugs` (`UpNeverUnplugs`), for any
configurations and any number of kills.  The invariant follows a command by the
number of calls it has left: those left are the last ones of a plan
(`CallsFollow`), and for each point of the plan `LinksFollow`, `DirsFollow`,
`DescriptionFollows` and `BindingFollows` say what `up` has done by then, and
`RemovalFollows` what `down` has.  `up` on ruins first takes them down, so both
halves are needed for one command.  `TreeIsSound` is what configfs enforces, and
with it no killed command leaves a tree from which the plan would go wrong.  That
a bound gadget mixes no configurations but in directories `rmdir` left
(`outlived`) needs to know of each directory, from its `rmdir` to the call that
describes it, that nothing is in it or that it was left (`AbsentIsBlank`,
`BlanksFollow`).

`KeyboardProofs` ends with `ImplementsChannel`, `Spec => InOrder`: every step of
the bridge, the kernel or the host is a step of `StateChannel` or leaves the
channel's variables as they are.  The backlog of the channel is the report in
flight followed by the queue.  An accepted write moves the head of the queue
into flight and changes nothing in the channel; a collect is its `Deliver`; a full
queue gives up the second entry of a backlog with one in flight, the first
of one without; `Shutdown` switches the channel off.  Beside `IInv` the steps rest on three facts (`ChannelInv`): what
is in flight is the last report sent, unless that was forgotten
(`InflightIsLast`); a gadget that is torn down has no host (`GoneIsAway`); and a
process that ended has an empty queue (`EndedIsEmpty`).  `SequenceLemmas` has what
this and the heap of macros need of sequences.

`MouseProofs` ends with the same for the buttons, its own `ImplementsChannel`,
`Spec => ButtonsInOrder`, in both modes.  Two things differ from the keyboard.  A
report of a mouse may be about motion only: what is in flight counts as a state
on its way only if its buttons are not those the host has (`Ahead`).  So a report
that repeats the buttons is no step of the channel, and a queued state that
repeats them is left out when it is accepted.  And `_note_buttons` compares what
is held, not what a report shows: a button the report has no room for queues a
state that looks like the one before, which the channel admits if there are such
buttons at all (`Repeats`, `FALSE` for the keyboard).  The steps rest on
`GoneIsAway` and `EndedIsEmpty` beside `IInv`; nothing like `InflightIsLast` is
needed, since a mouse report is written whatever was sent last.

### What the proofs showed

* An earlier `MotionNotRepeated`, that what is owed to the host only shrinks, is
  false when what is pending and what is in flight have opposite signs: the pair
  cancels until one is collected.  It now says of each axis that what is sent
  lies between zero and what was pending, and that no more than the rest stays
  pending.
* `CaughtUp` could not be proved for every configuration: the case the proof was
  left with was a bound code of a passthrough device, which the code forgets after
  a `SYN_DROPPED` (see *Seen while modelling*).

### What is only model-checked

The liveness properties (`StateArrives`, `ButtonsArrive`, `MotionSettles`,
`AllEnd`, `GoneIsForgotten`, `PluggedIsAttached`, `ComesUp`): the prover has no
rules for fairness and `ENABLED`.  Every invariant and every action property that a
passing run checks is a theorem as well.

## Plan

1. `Bridge`: both paths on one gadget instead of the interface in `Mouse`; one
   `shutdown()` for both; restart of a process that was killed.

## Not modelled

Byte layouts, descriptors, key tables and the configuration file, which keep no
state; the command line but for what it starts; the delay a slow client of the
control socket costs, which needs a clock; the kernel patches, installer and
tools.
