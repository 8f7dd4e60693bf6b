# Zen OS in TLA+

A specification of the parts of Zen OS whose behaviour over time is hard to test:
the Wayland compositor (`src/compositor`) with its window management, input
routing, screen lock, keybindings, bus, start and end, the session manager around it
(`src/session`), and the tool that tests it in virtual machines (`tools/zen-test`).
The modules are checked with TLC on small instances. Every invariant and every action
property of the passing runs, and the refinement of the focus policy, is also proved with
TLAPS, for every number of windows, keyboards, requests, keys, characters, ticks, bus
calls, file entries, login attempts, outputs and commands.

Paths below are relative to the repository; `xdg.c`, `input.c`, `lock.c`,
`keybinds.c`, `dbus.c` and `main.c` are in `src/compositor/src`, `session.c` in
`src/session/src`, the `.rs` files in
`tools/zen-test/src`.

## The system and its parts

| Part | State it keeps | Operations | What makes it correct |
|---|---|---|---|
| Window management, `xdg.c` | MRU list of toplevels, focused toplevel, drag grab; through wlroots: surface states, activation, stacking | new, map, unmap, destroy, focus, move, maximize, fullscreen, titles | focus is on the window used last; stacking, activation and keyboard focus follow it; nothing points at a freed window |
| Input, `input.c` | keyboards, capabilities; through the seat: keyboard and pointer focus | devices come and go, keys, modifiers, motion, buttons | keys go where they should, and only there |
| Screen lock, `lock.c` | locked flag, lock buffer, password, error flag, idle timer | activate (key, timer, logind), key on the lock screen, unlock, init, destroy | locked exactly while shown; only the secret unlocks; an idle session locks |
| Keybindings, `keybinds.c` | list of bindings | load, look up, execute | bound keys are consumed and do what they say |
| Life of the compositor, `main.c` | all of the above, outputs | create, run, destroy, outputs | every order of start-up and shutdown is safe |
| Layer shell, wallpaper, Cairo buffers (`layer.c`, `wallpaper.c`, `cairo_buffer.c`) | surfaces, scene nodes, buffers | create, map, unmap, destroy, render | every node and buffer is released once, in an order that leaves nothing dangling |
| D-Bus service, `dbus.c` | bus, slots | dispatch, method handlers | every call is answered once, in order; signals arrive |
| Session manager, `session.c` | attempts, terminal echo, PAM handle, logind session, child process | log in, create a session, start the compositor, wait, terminate | no desktop without a login; whatever was opened is closed |
| XWayland, `xwayland.c` | X11 windows | | nothing calls `zen_xwayland_init` |
| `zen-test` (`tools/zen-test`) | VM state file, QEMU process, gate results | create, boot, stop, destroy, run gates, talk to the guest agent | a verdict belongs to the run it is reported for |
| Shell, daemons, OOBE, installer, shared library | none (stubs, plain records) | | |

The compositor is one thread around a `wl_event_loop`. Handlers are atomic, but
clients, devices, timers and the bus decide their order, so the hard behaviours
are orders of handlers: windows that are unmapped or destroyed in the middle of a
drag or a focus change, keyboards unplugged between two focus changes, keys
pressed before and released after the screen is locked, timers that fire while
the screen is locked. `PROJECT.json` lists these hazards at their lines.

`zen-test` is a sequence of one-shot commands around state that outlives them: the
directory of the machine, its pid file, QEMU, its serial log and the port of the
guest agent. Its hard behaviours are a command that is interrupted, a timeout that
races a late answer, and files that belong to an earlier boot. It meets the
compositor in one place, the boot signal.

`zen-session` and the compositor are two processes: the first waits for the second,
and either may be killed at any point. What `logind`, the terminal and `systemd` keep
outlives both.

Components interact through `struct ZenCompositor`: `input.c` focuses windows by
calling `zen_xdg_focus_toplevel`, reads `locked` and calls the lock screen or the
keybindings; `keybinds.c` calls `zen_lock_activate`; the lock screen hangs its
buffer into the overlay tree that `main.c` made, and registers for a signal on the
bus that `dbus.c` joined.

## Modules

| Module | Models | State and actions |
|---|---|---|
| `WlList` | `wl_list` and the children of a scene tree | a list is the sequence of its entries |
| `FocusPolicy` | nothing in particular: the promise about focus | visible windows, their order of use, the focus; Show, Use, Hide |
| `Desktop` | `xdg.c`, devices and pointer of `input.c` | variables named after the fields they stand for, one action per handler, named after it; `zen_xdg_focus_toplevel` is an operator that the handlers call |
| `WindowState` | the maximize and fullscreen handlers of `xdg.c`, drags of such windows | extends `Desktop`; for one watched window the state that is current, the one scheduled, the configures on their way, and its place; what its client asked for and whether it waited for answers |
| `ScreenLock` | `lock.c` | the static variables of the file; keys, timer, logind signal, shutdown |
| `Keybinds` | `keybinds.c` | the list of bindings; the entries of `keybinds.json` as far as the parser can tell them apart, taken one at a time |
| `Bus` | `dbus.c` | the bus that was joined, messages on the socket, messages that sd-bus put aside, replies; one operator per method handler |
| `Services` | `lock.c`, `keybinds.c` and `dbus.c` on one event loop | extends the three modules above: the order of their initialisation, then keys, ticks and dispatches in any order |
| `Compositor` | `handle_keyboard_key` and the event loop | instances of `Desktop` and `ScreenLock` side by side; the key handler routes to lock screen, keybinding or client; what clients receive is recorded |
| `Startup` | `main.c`, with the `zen_*_init` and `zen_*_destroy` of all modules | the objects that exist, known by the field that holds them; one action for a step of creation and of destruction, driven by tables in the order of the code; outputs and their wallpapers, buffers with their parts, windows, panels and keyboards; the boot signal |
| `Session` | `session.c`, `zenos-session@.service` | extends `Startup`, which is its child process: attempts to log in, echo, PAM handle, logind session; kills, and restarts by systemd |
| `GuestAgent` | `agent.rs`, `guest-agent/zen-test-agent` and the serial port between them | requests, the connection that waits, what the port holds, the request the agent executes, replies; numbers that the code does not compare tell which request a reply answers |
| `GateRunner` | `vm/lifecycle.rs`, `gate/runner.rs`, the commands of `main.rs` | `GuestAgent` with the machine's files, pid file, QEMU processes and serial log; zen-test as steps between awaits; timeouts, interruption, a machine destroyed from another terminal |
| `MCDesktop`, `MCScreenLock`, `MCCompositor` | | constants for TLC |
| `WlListProofs`, `DesktopProofs`, `WindowProofs`, `ScreenLockProofs`, `ServicesProofs`, `CompositorProofs`, `SessionProofs`, `GateProofs` | | theorems; each of the last seven about the module it is named after, `SessionProofs` also about `Startup` |

Definitions named `Fault...` are plausible mistakes in the definition that follows
them (a missing reset, a dropped guard). No specification uses them; put in place
of that definition, each makes TLC report one property as violated
(`PROJECT.json`, `mutants`).

What is abstracted:

- A surface is identified with its toplevel. Coordinates become the set `over` of
  mapped windows whose extents contain the cursor; motion and geometry changes
  choose it freely. A dragged window keeps its place relative to the cursor.
- wlroots is modelled from its use: a surface is `initialized` after its initial
  commit, must be so before it is mapped, and is unmapped before its toplevel is
  destroyed; the seat forgets destroyed surfaces and keyboards.
- The key symbols of one key are one symbol. Characters of the password are model
  values, PAM accepts one `Secret` and may fail for its own reasons.
- Time advances in ticks; a timer that is due fires some time later.
- `WindowState` follows one window. A size is the output's or the client's own, a
  place the output's, one that a drag led to from there, or an earlier one. wlroots
  sends what is scheduled when the loop is idle, takes an acknowledgement for all
  earlier configures, forgets a window's states at unmap, and fails an assertion when a
  configure is scheduled before the initial commit. That a committed surface can be
  mapped assumes that it gets its initial configure: `handle_toplevel_commit` sends none.
- sd-bus is modelled from its use: a blocking call puts aside other messages that it
  reads, `sd_bus_process` takes those first, and they do not make the socket readable.
  The bus's own signals to the compositor are left out; one of them would wake the
  dispatcher once more. A file without usable entries is the empty one; an entry is one
  of the shapes that the parser tells apart.
- In the passing run of `Services` the bus of the user carries a `Lock` signal, so that
  `lock_signal_cb` and all that follows it is checked; `lock_signal` puts logind where
  it is.
- In `Session` input may end at any prompt, PAM says yes or no, and what a killed
  process held in memory is gone while terminal and logind stay as they are. A prompt
  restores the terminal that it found and saved (`old_term`): after a kill at a prompt that
  is one without echo. A compositor whose windows are freed too early at shutdown goes on
  or dies of it.
- Out-of-memory in the lock screen is a bounded number of failures; in
  `handle_new_xdg_toplevel` and `handle_new_input` it leaves nothing behind.
- In `Startup` an object is a name, one for all windows, all panels or all keyboards.
  The listeners for new outputs, layer surfaces and locks are linked by creation and
  removed by nothing; when the backend or the display goes with one of them linked, the
  process fails an assertion of wlroots 0.19, or goes on if that was built without. The
  background rectangle (`main.c:341`) goes with the scene. `wl_display_terminate` is called nowhere; the loop may end
  all the same, when the display is terminated from outside.
- In `GateRunner` polls that find nothing are not steps, deadlines may pass at any
  time, pids are not reused, and the removal of a directory does not fail. The serial
  log is a set of patterns, an exit code is the expected one or not. A write of the
  agent to its port waits for a connected host, as the guest's driver does; a request
  is in QEMU's socket until the agent has opened the port.
- Actions of keybindings other than locking start processes or ask a client to
  close a window, and change no state of these modules.

## What is checked

| Run | Instance | Result |
|---|---|---|
| `desktop` | 3 windows, 2 keyboards, hot-plugging, 3 requests of one window | twelve properties hold: one list entry per window, focus on the first mapped window of the MRU list, stacking order = MRU order, no dangling pointers, exactly the focused window activated, no window activated or deactivated before its initial commit, keyboard focus parts from window focus only while no keyboard is on the seat, a client that waits for answers gets the state it asked for, a maximized or fullscreen window fills its output unless it left the other state or was dragged, and `Desktop` implements `FocusPolicy` |
| `keyboard_hotplug` | 2 windows, 1 keyboard | violated: a window focused while no keyboard is attached gets no keys when one is plugged in |
| `screen_lock` | password of 1, field of 2, timeout of 1 tick, 1 failure, every file of up to 2 of 6 entries, up to 2 calls of 7 | ten properties hold: locked exactly while shown, no leftovers, the field is what was typed, only the secret unlocks, an unlocked session has an armed timer and is eventually locked; a default keeps the keys that no good entry asks for, and good entries get the keys that no default or earlier entry has; calls are neither lost, answered twice nor overtaken, and are answered in the end unless they were put aside during start-up |
| `lock_signal` | same, logind on the system bus | violated: the Lock signal is not heard |
| `idle_reset` | same | violated: key activity does not reset the idle timer |
| `file_heeded` | files of up to 2 entries | violated: an entry with the keys of a default never runs, and in the same file an entry whose modifiers are no list gets those of the next |
| `compositor` | 2 windows, 1 keyboard plugged in at any time, 2 keys, 2 bindings | keys on the lock screen stay there, the unlocking key included; a client is wrong about a held key only if the lock screen or a keybinding took its last event |
| `locked_clients` | same | violated: a window is above the lock screen (only the background rectangle is below it), and in the same behaviour its client receives input |
| `session` | 2 outputs announced twice, 2 failures, 2 attempts, 1 restart | wherever creation fails and at every step of shutdown, each object still has what it needs, but for four sets of listeners once the destruction has begun (for new outputs, layer surfaces and locks, and of open windows); everything is released by a destruction that comes to its end, but for the first three of those and wallpaper buffers; the boot signal comes from a compositor whose creation succeeded; a compositor runs only after a login; echo and logind session are given back but for the named accidents; a login ends in a desktop or an exit |
| `startup_claims` | `Startup` alone, 2 outputs, 1 failure | violated: in one life of the compositor an output that the backend announces while it starts never gets a wallpaper, the boot signal is sent without a socket, the backend and the display are destroyed with listeners linked (which wlroots asserts against), and the buffer of a wallpaper is left at the end |
| `gate_runner` | a gate with setup, test and asserted command, 2 probes, 2 commands, 1 failure | no machine is lost or started twice; a gate that reports leaves nothing behind; log entries are of this boot; a reply is mistaken for another only after a request was given up; every command ends |
| `gate_verdict` | a gate with one asserted command | violated: a gate passes on a late reply to an earlier request |

The seven violations are disagreements between documents or comments and the code;
`PROJECT.json` quotes both sides under `findings`. Where the repository makes several
claims about one part, the property (`FileIsHeeded`, `LockScreenSeparates`,
`SomeClaimKept`) says that one of them is kept: a behaviour that violates it refutes each.

Bounds. Three windows give a focus transfer a choice, with an unmapped window at
the head of the MRU list; two keyboards let one be removed while the other is
active. Three requests of a window that is alone let it be maximized, enter fullscreen
and leave one of the two; with a second window there is one request, for the
interplay with focus; two configures may be on their way, so that answers overlap.
The field is one character longer than the password, so that text is too
long, is cut and edited back. One failure can hit the creation of the timer, any
activation, the bus or the loading of the file. Two entries are enough for two with the
same keys, for a good one before a bad one and for one that reads the modifiers of the
next; entries and calls share a budget of two, since they do not interact.  In `compositor` two keys are enough for one to be held across a
lock while another unlocks. `desktop` uses the symmetry of windows; its
properties are safety properties and the windows are interchangeable.
In `session` two failures let an optional part (the bus, the idle timer) be missing
when a later step fails, or a session be lost that a restart then finds; two
announcements let both outputs be there or one come again; two attempts (three in the
code) are a failure that is forgiven and one that is not. In `gate_runner` the first command may be a gate
that is interrupted anywhere, so that the second finds the machine in every state;
two probes allow one that times out before one that is answered. `desktop`, `screen_lock`,
`session` and the runs of `GateRunner` switch off the deadlock check because an assertion
of wlroots ends the compositor, the lock screen ends with `zen_lock_destroy`, zen-session
with its process, and no more commands are given.

Fairness is assumed in five modules. In `ScreenLock` time passes (`WF(Tick)`), and the event
loop, which always returns to its sources, runs a callback that is due
(`WF(idle_timeout_cb)`); nothing is assumed of the user or the bus. `Services` adds that
creation goes on and that the loop gets around to a socket that is readable
(`WF(DispatchStep)`); nothing is assumed of peers or logind. `Session` adds that zen-session
goes on where it waits for nobody and that systemd restarts it; nothing is assumed of the
user at the prompts or of the end of the loop. In `Startup`
main() goes on with creation, the start of the loop and destruction (`WF` of each),
none of which waits for anything; nothing is assumed of the end of the loop or of
outputs. In `GateRunner` zen-test takes its next step (`WF(ZenTest)`), since each of
its waits has a deadline; nothing is assumed of QEMU, the guest or the agent. The
spawn of QEMU, a blocking call that no timeout covers, is taken to return.

## What is proved

The assumptions are those that the modules declare with `ASSUME`, and TLC evaluates all
of them. `NULL` is no window or keyboard, the two trees of the compositor are no windows,
the keyboards present at start are keyboards. The password limit and the timeout are
positive, characters are no control keys, and the timer's special values are no numbers.
Calls on the bus are of the methods in `compositor_vtable`, and file entries are of the
shapes that the parser tells apart. `Compositor` takes the same assumptions for its two
components and has one keyboard that stays, as its module says. The rest concerns bounds
of the environment, all of them arbitrary numbers: failures, announcements, attempts,
restarts, commands, calls, entries. The request bound of `WindowState` is given for every
number of windows and does not grow with it (`RequestsAssumption`), and windows are
finitely many; only `WindowTypeCorrect` uses that.

`WlListProofs` derives the facts about lists that the rest rests on: which entries
a list has after insertion, removal and a move to the front, that entries stay
distinct, in which order the others remain, and that the first entry among a set
exists and is unique. `IsList` says that a sequence has distinct entries.

`DesktopProofs` proves that `DesktopInv` is inductive. None of the properties is
inductive alone. Focus transfer on unmap finds the right window only if the
focused one was first among the mapped windows before; raising it keeps stacking
and MRU order equal only if the scene is exactly the list followed by the two
trees, each entry once; `handle_toplevel_destroy` does not test whether the next
window is mapped and is right only because the focused window always is, so that a
window being destroyed, unmapped by then, is never the focused one. The theorems
about single properties, and the two action properties, follow from `DesktopInv`.
`KeyboardAttached` has a smaller invariant of its own.

`Refinement`, in the same module, says that `Desktop` implements `FocusPolicy`, with the
mapped windows as the visible ones and MRU order restricted to them as order of use: a map
is a Show, a click a Use, an unmap a Hide, and every other handler leaves all three
alone.

`ScreenLockProofs` proves `LockInv`: the properties of the lock screen together with
`TimerStates` (the timer is off only in a session that is locked or in which an
allocation failed). `UnlockedIsTimed` needs it because only an unlock arms the timer
again.

`WindowProofs` first shows that every behaviour of `WindowState` is one of `Desktop`
(`DesktopKept`): a request or an acknowledgement moves at most the edges of the watched
window. Everything above therefore holds with maximized and fullscreen windows as well.
`WindowInv` then relates three
copies of a window's state: unless a configure is still to be sent, the last one on its
way, or the committed state when none is, equals what is scheduled; what is scheduled
fills the output and agrees with what the client asked for, unless it was misled.
Neither `FillsItsOutput` nor `PatientClientServed` is inductive, because both speak only
of moments when nothing is on its way. A request before the initial commit needs one
fact more: nothing is scheduled for such a surface. `WindowTypeCorrect` adds `BoundInv`:
a configure that is still to be sent counts as one on its way, a window that is not listed
has made no request, and only the handler of a new window makes the list longer.

`ServicesProofs` carries the screen lock over to `Services`: a step there is one of
`ScreenLock`, leaves its variables alone, or records the failure of another service, and
`LockInv` survives all three (`LockAmongServices`, `UnlockAmongServices`). For
`CallsInOrder` the messages that sd-bus put aside and those on the socket are one sequence,
in which calls are numbered without gaps after the last reply, with a signal anywhere
among them; `BusInv` adds that nothing waits before a bus is joined and how many messages there are at most. For `FileTakesEffect` the invariant `KeybindInv`
says that the list is the five defaults followed by what was made of a prefix of the file,
all of it accepted, and why the load ended where it did. The step from there to the
property is about searches in two lists, that of the code and that of the reference
definition: both begin with the defaults, so that a default is found in its place (which is also why
the file cannot override it: the property leaves keys that both name to the run
`file_heeded`), and without a failure, or an entry whose modifiers are no list, the two lists are equal.

`CompositorProofs` shows that the composition is both of its parts: every step is one of
`Desktop` or leaves it alone (`DesktopInCompositor`), and likewise for `ScreenLock`, whose
shutdown never comes while the loop runs (`LockInCompositor`). The proof modules of the
two are instantiated there, so that their invariants hold in the composition
(`DesktopHolds`, `LockHolds`) without a second proof. The lemmas named `...Names` and
`DesktopHelpers` say that the definitions of `D` and `L`, which `Compositor` uses, are
those of the instantiated proof modules. `ClientKeysAccountedFor` is inductive as it
stands, and `LockedKeysStay` follows from the guards of a single step.

`SessionProofs` proves the properties of zen-session and of the compositor inside it.
`LoginInv`: there is a PAM handle only while PAM asks, and from the login on somebody is
admitted and the attempts are forgotten. `EchoRestored` rests on `EchoInv`, which
adds that the terminal saved at a prompt echoes, and on the fact that no accident is
forgotten (`MishapsStay`). `LogindInv`: a logind session that exists is still
to be terminated, under the name that was read, or an accident is recorded. For these the
compositor may take any step.

The compositor has `StartupInv`, which gives for each step the objects that may exist:
`MadeAt` is the step of `zen_compositor_create` without which an object is missing,
`ReleasedAt` the step of `zen_compositor_destroy` that releases it. That everything is
released, and nothing before what needs it, are then two facts about these numbers
(`ReleasedSometime`, `ReleasedInOrder`); the first leaves the three
listeners that nothing removes (`NeverRemoved`) and the wallpaper buffers, the second
excepts these listeners and those of windows (`Forsaken`), in the destruction only; the
properties name the same exceptions, and `startup_claims` shows what comes
of them. `ChildInv` ties the compositor to
zen-session: outside the child's life there is nothing of it but those leftovers.

`GateProofs` proves four properties of zen-test. `VmInv`: a QEMU that lives is the one of
the pid file, its configuration is there, and the log has nothing that was not printed
since the boot. It is kept because `vm_boot` starts no QEMU while the one of the pid file
lives, so that a second cannot hide the first. `NothingLeftBehind` follows since a gate
reports only through `vm_destroy`, and `VmInv` says that this finds all there is to remove. For
`MixupOnlyAfterTimeout`, `ChannelInv` says that until a request is given up there is at
most one thing under way, the request that waits, in exactly one of port, agent and reply
queue: `agent.rs` compares no ids and needs none as long as that holds. `ConnectedInv`
adds that nobody is connected between two commands.

Only model-checked: the four liveness properties `IdleSessionLocks`, `CallsAnswered`,
`LoginIsAnswered` and `EveryCommandEnds` (liveness under fairness is out of reach of this
prover), and the seven violations.

## Not modelled

- XWayland (`xwayland.c`): nothing in the repository calls `zen_xwayland_init`, so none
  of its states can be reached. It should be modelled next to `Desktop`, with the focus
  it takes and gives back, when it is put to use.
- Drawing (lock screen, wallpaper, Cairo), logging, argument parsing, the shell scripts:
  no behaviour over time. Constructors and destructors of the shared library: plain
  records. Shell, daemons, OOBE and installer: stubs.
- `handle_new_lock` (`lock.c:397`) acknowledges a protocol lock and changes no state.
- Children started by `LaunchApp` and by keybindings are never waited for; processes are
  not part of these modules.
- `zenos-session@.service` requires `zenos-compositor.service`, which starts a compositor
  of its own; the model has the one that zen-session starts.

Divergences that were met and that no run is spent on: `docs/ROADMAP.md:428` puts overlay
surfaces above windows, while `layer.c` puts them in a tree below every window;
`tests/unit/compositor/test_xdg.c:429` says that a maximized window has the size of its
output, while leaving fullscreen gives the size up also when the window is still maximized
(`xdg.c:393`; `FillsItsOutput` excuses it); `main()` of
zen-session returns 0 whatever became of the compositor, so that `Restart=on-failure` does
not restart a session that crashed.

## Theorems worth proving next

- `ChannelInv` says what the channel is while no request is given up; an abstract
  specification of request and reply, with the channel shown to implement it up to the
  first timeout, would say the same as a refinement.
- `Session`: that a compositor which exits leaves the terminal and logind to zen-session,
  as an action property.
