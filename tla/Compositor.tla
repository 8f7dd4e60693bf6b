----------------------------- MODULE Compositor -----------------------------
(***************************************************************************)
(* The compositor's event loop: the desktop and the screen lock side by    *)
(* side, joined by the key handler of src/compositor/src/input.c, which    *)
(* routes every key to the lock screen, to a keybinding or to the client   *)
(* with keyboard focus.  What clients receive is recorded.                 *)
(*                                                                         *)
(* Definitions named Fault... are plausible mistakes in the definition     *)
(* that follows them; no specification uses them.                          *)
(***************************************************************************)
EXTENDS Naturals, Sequences, SequencesExt

CONSTANTS
    Toplevel, Keyboard, BootKeyboards, HotUnplug, NULL,         \* of Desktop
    Char, PassMax, Secret, HavePam, IdleTicks, MaxFailures, Off, NoTimer,
                                                                \* of ScreenLock
    Key,        \* keys of the keyboard, named by what they mean to the lock screen
    Modifiers,  \* the modifiers that may be active
    Bindings    \* compositor->keybindings: a list of <<modifiers, key, action>>

VARIABLES
    toplevels, focused, grabbed, keyboards, initialized, mapped, enabled,
    activated, scene, seatKeyboard, kbFocus, kbCap, ptrFocus, over, button,
                                                                \* of Desktop
    running, locked, lock_buffer, show_error, password, timer, failures, typed,
    idleFor,                                                    \* of ScreenLock
    down,         \* keys held on the keyboard (wlr_keyboard->keycodes)
    clientDown,   \* keys that the client with keyboard focus takes to be held
    intercepted,  \* keys whose last event went to no client on purpose
    sent          \* the input that clients received in the last step

D == INSTANCE Desktop
L == INSTANCE ScreenLock

(* What the two components assume of their constants. *)
ASSUME NullAssumption == NULL \notin Toplevel \cup Keyboard
ASSUME TreeAssumption == {D!OverlayTree, D!WallpaperTree} \cap Toplevel = {}
ASSUME KeyboardAssumption == BootKeyboards \subseteq Keyboard /\ HotUnplug \in BOOLEAN
ASSUME CharAssumption == Char \cap L!Control = {}
ASSUME PassMaxAssumption == PassMax \in Nat \ {0}
ASSUME SecretAssumption == Secret \in Seq(Char) /\ HavePam \in BOOLEAN
ASSUME TimerAssumption == /\ IdleTicks \in Nat \ {0}
                          /\ Off \notin Nat /\ NoTimer \notin Nat /\ Off # NoTimer
ASSUME FailureAssumption == MaxFailures \in Nat

ASSUME KeyAssumption == Key \subseteq Char \cup L!Control
ASSUME BindingsAssumption ==
    Bindings \in Seq(Modifiers \X Key \X {"lock_screen", "close_window"})
(* One keyboard that stays: down is what it reports. *)
ASSUME OneKeyboardAssumption == ~HotUnplug /\ \A k, l \in Keyboard : k = l

desktopVars == <<toplevels, focused, grabbed, keyboards, initialized, mapped, enabled,
                 activated, scene, seatKeyboard, kbFocus, kbCap, ptrFocus, over, button>>
lockVars    == <<locked, lock_buffer, show_error, password, typed>>
timeVars    == <<running, timer, failures, idleFor>>
keyVars     == <<down, clientDown, intercepted>>
vars        == <<desktopVars, lockVars, timeVars, keyVars, sent>>

TypeOK ==
    /\ D!TypeOK
    /\ L!TypeOK
    /\ down \subseteq Key
    /\ clientDown \subseteq Key
    /\ intercepted \subseteq Key
    /\ sent \subseteq {"key", "modifiers", "enter", "pointer"}

Init ==
    /\ D!Init
    /\ L!Init
    /\ down = {} /\ clientDown = {} /\ intercepted = {}
    /\ sent = {}

-----------------------------------------------------------------------------
(* handle_keyboard_key.                                                    *)

(* The keyboard has recorded the key before the compositor hears of it. *)
DownAfter(key, pressed) == IF pressed THEN down \cup {key} ELSE down \ {key}

(* wlr_seat_keyboard_notify_key: to the client with keyboard focus. *)
wlr_seat_keyboard_notify_key(key, pressed) ==
    /\ clientDown' = IF kbFocus = NULL THEN {}
                     ELSE IF pressed THEN clientDown \cup {key}
                     ELSE clientDown \ {key}
    /\ intercepted' = intercepted \ {key}
    /\ sent' = IF kbFocus = NULL THEN {} ELSE {"key"}

Intercept(key) ==
    /\ intercepted' = intercepted \cup {key}
    /\ sent' = {}
    /\ UNCHANGED clientDown

FaultAskedAgain(key, pressed) ==
    IF locked' THEN Intercept(key) ELSE wlr_seat_keyboard_notify_key(key, pressed)

(* What is left of a key event that the lock screen saw: the handler       *)
(* returns, even if the key unlocked the session.                          *)
AfterLockScreen(key, pressed) == Intercept(key)

(* zen_keybinds_handle_key: the first binding with exactly these modifiers *)
(* and this key, 0 if there is none.                                       *)
BindingOf(mods, key) ==
    SelectInSeq(Bindings, LAMBDA b : b[1] = mods /\ b[2] = key)

(* execute_action: locking is the one action that changes this state. *)
execute_action(action) ==
    IF action = "lock_screen" THEN L!zen_lock_activate ELSE UNCHANGED <<lockVars, failures>>

handle_keyboard_key(key, mods, pressed) ==
    /\ keyboards # {}
    /\ pressed <=> key \notin down
    /\ down' = DownAfter(key, pressed)
    /\ idleFor' = 0
    /\ \/ /\ locked
          /\ L!zen_lock_handle_key(key, pressed)
          /\ AfterLockScreen(key, pressed)
       \/ /\ ~locked
          /\ pressed /\ BindingOf(mods, key) # 0
          /\ execute_action(Bindings[BindingOf(mods, key)][3])
          /\ Intercept(key)
          /\ UNCHANGED timer
       \/ /\ ~locked
          /\ ~pressed \/ BindingOf(mods, key) = 0
          /\ wlr_seat_keyboard_notify_key(key, pressed)
          /\ UNCHANGED <<lockVars, timer, failures>>
    /\ UNCHANGED <<desktopVars, running>>

-----------------------------------------------------------------------------
(* The other handlers, none of which asks whether the screen is locked.    *)

FaultDevicesAsKeys ==
    IF kbFocus' = kbFocus THEN clientDown ELSE IF kbFocus' = NULL THEN {} ELSE keyboards

FaultNoKeysOnEnter ==
    IF kbFocus' = kbFocus THEN clientDown ELSE {}

(* A client that gains keyboard focus is told which keys are held; one     *)
(* that loses it forgets them.                                             *)
ClientDownAfterFocus ==
    IF kbFocus' = kbFocus THEN clientDown ELSE IF kbFocus' = NULL THEN {} ELSE down

EnterEvent == IF kbFocus' \in {kbFocus, NULL} THEN {} ELSE {"enter"}

(* A step of the desktop in which the seat sends the given events. *)
Deliver(events) ==
    /\ clientDown' = ClientDownAfterFocus
    /\ sent' = events \cup EnterEvent
    /\ UNCHANGED <<lockVars, timeVars, down, intercepted>>

(* Clients and new devices. *)
ClientStep ==
    /\ \/ \E t \in Toplevel : \/ D!handle_new_xdg_toplevel(t)
                              \/ D!InitialCommit(t)
                              \/ D!handle_toplevel_map(t)
                              \/ D!handle_toplevel_unmap(t)
                              \/ D!handle_toplevel_destroy(t)
                              \/ D!handle_toplevel_request_move(t)
                              \/ D!GeometryChange(t)
       \/ \E k \in Keyboard : D!handle_new_input_keyboard(k)
       \/ D!handle_new_input_other
    /\ Deliver({})

(* The seat passes modifiers on to the client with keyboard focus. *)
ModifiersStep ==
    /\ \E k \in Keyboard : D!handle_keyboard_modifiers(k)
    /\ Deliver(IF kbFocus = NULL THEN {} ELSE {"modifiers"})

(* Motion, presses and releases reach the client with pointer focus, which *)
(* motion may change; a window that is being dragged receives no motion.   *)
PointerStep ==
    \/ /\ D!zen_input_process_cursor_motion
       /\ Deliver(IF grabbed # NULL \/ ptrFocus' = NULL THEN {} ELSE {"pointer"})
    \/ /\ D!ButtonPress \/ D!ButtonRelease
       /\ Deliver(IF ptrFocus = NULL THEN {} ELSE {"pointer"})

(* The lock screen's own events. *)
LockStep ==
    /\ L!lock_signal_cb \/ L!idle_timeout_cb \/ L!Tick
    /\ sent' = {}
    /\ UNCHANGED <<desktopVars, keyVars>>

Next ==
    \/ \E key \in Key, mods \in Modifiers, pressed \in BOOLEAN :
            handle_keyboard_key(key, mods, pressed)
    \/ ClientStep
    \/ ModifiersStep
    \/ PointerStep
    \/ LockStep

Spec == Init /\ [][Next]_vars

-----------------------------------------------------------------------------
(* Properties.                                                             *)

(* A client's idea of which keys are held is right for every key but those *)
(* whose last event the lock screen or a keybinding took (input.c:84,      *)
(* input.c:97), whatever focus changes come between.                       *)
ClientKeysAccountedFor ==
    kbFocus # NULL => (clientDown \ down) \cup (down \ clientDown) \subseteq intercepted

(* A key that is pressed or released on the lock screen reaches no client, *)
(* the one that unlocks the session included: the keys that a client takes *)
(* to be held change only when keyboard focus moves (input.c:80).          *)
LockedKeysStay ==
    [][locked => "key" \notin sent' /\ (kbFocus' = kbFocus => clientDown' = clientDown)]_vars

(* No client receives input ("While locked: all input is captured by lock  *)
(* screen, no client receives events", docs/ROADMAP.md:479).               *)
InputCaptured == sent' = {}

(* The lock screen covers every window ("Super+L activates the lock        *)
(* screen, blanking all outputs", docs/ROADMAP.md:481).                    *)
LockScreenOnTop == \A t \in mapped : D!Before(scene, D!OverlayTree, t)

(* While the session is locked, clients are cut off from input or at least *)
(* out of sight (input.c:202, lock.c:444).  The documents claim both, so   *)
(* that a behaviour that violates this refutes each claim.                 *)
LockScreenSeparates == [][locked => InputCaptured \/ LockScreenOnTop]_vars
=============================================================================
