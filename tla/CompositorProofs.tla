-------------------------- MODULE CompositorProofs --------------------------
(***************************************************************************)
(* Proofs about Compositor, for any number of windows, any keys and any    *)
(* keybindings: side by side, joined by the key handler, the desktop and   *)
(* the screen lock each do what they do alone, and the client with         *)
(* keyboard focus hears of every key but the intercepted ones.             *)
(***************************************************************************)
EXTENDS Compositor, TLAPS

(* Every step is a key, a step of the desktop that keeps the lock screen,  *)
(* or a step of the lock screen that keeps the desktop.                    *)
LEMMA StepCases ==
    ASSUME [Next]_vars
    PROVE  \/ \E key \in Key, mods \in Modifiers, pressed \in BOOLEAN :
                  handle_keyboard_key(key, mods, pressed)
           \/ \E events \in {{}, {"modifiers"}, {"pointer"}} : Deliver(events)
           \/ LockStep
           \/ UNCHANGED vars
BY DEF Next, ClientStep, ModifiersStep, PointerStep

-----------------------------------------------------------------------------
(* Keys that clients take to be held.                                      *)

(* No step makes the client with keyboard focus wrong about a key whose    *)
(* events it was sent.                                                     *)
LEMMA KeysAccountedStep ==
    ClientKeysAccountedFor /\ [Next]_vars => ClientKeysAccountedFor'
<1> SUFFICES ASSUME ClientKeysAccountedFor, [Next]_vars PROVE ClientKeysAccountedFor'
  OBVIOUS
<1>1. ASSUME NEW key \in Key, NEW mods \in Modifiers, NEW pressed \in BOOLEAN,
             handle_keyboard_key(key, mods, pressed)
      PROVE  ClientKeysAccountedFor'
  <2>1. kbFocus' = kbFocus /\ down' = IF pressed THEN down \cup {key} ELSE down \ {key}
    BY <1>1 DEF handle_keyboard_key, desktopVars, DownAfter
  <2>2. CASE Intercept(key)
    BY <2>1, <2>2 DEF Intercept, ClientKeysAccountedFor
  <2>3. CASE wlr_seat_keyboard_notify_key(key, pressed)
    BY <2>1, <2>3 DEF wlr_seat_keyboard_notify_key, ClientKeysAccountedFor
  <2>4. QED
    BY <1>1, <2>2, <2>3 DEF handle_keyboard_key, AfterLockScreen
<1>2. ASSUME NEW events, Deliver(events) PROVE ClientKeysAccountedFor'
  BY <1>2 DEF Deliver, ClientDownAfterFocus, ClientKeysAccountedFor
<1>3. CASE LockStep
  BY <1>3 DEF LockStep, desktopVars, keyVars, ClientKeysAccountedFor
<1>4. CASE UNCHANGED vars
  BY <1>4 DEF vars, desktopVars, keyVars, ClientKeysAccountedFor
<1>5. QED
  BY <1>1, <1>2, <1>3, <1>4, StepCases

(* Whatever focus changes, keybindings and lock screens come between, the  *)
(* client with keyboard focus is wrong only about keys whose last event    *)
(* was intercepted (handle_keyboard_key, zen_xdg_focus_toplevel).          *)
THEOREM KeysAccounted == Spec => []ClientKeysAccountedFor
<1>1. Init => ClientKeysAccountedFor
  BY DEF Init, D!Init, ClientKeysAccountedFor
<1>2. QED
  BY <1>1, KeysAccountedStep, PTL DEF Spec

(* A key on the lock screen reaches no client, not even the key that       *)
(* unlocks the session (handle_keyboard_key).                              *)
THEOREM KeysStayOnLockScreen == Spec => LockedKeysStay
<1>1. [Next]_vars => [locked => /\ "key" \notin sent'
                                /\ kbFocus' = kbFocus => clientDown' = clientDown]_vars
  <2> SUFFICES ASSUME Next, locked, ~UNCHANGED vars
               PROVE  "key" \notin sent' /\ (kbFocus' = kbFocus => clientDown' = clientDown)
    OBVIOUS
  <2>1. ASSUME NEW key \in Key, NEW mods \in Modifiers, NEW pressed \in BOOLEAN,
               handle_keyboard_key(key, mods, pressed)
        PROVE  sent' = {} /\ clientDown' = clientDown
    BY <2>1 DEF handle_keyboard_key, AfterLockScreen, Intercept
  <2>2. ASSUME NEW events \in {{}, {"modifiers"}, {"pointer"}}, Deliver(events)
        PROVE  "key" \notin sent' /\ (kbFocus' = kbFocus => clientDown' = clientDown)
    BY <2>2 DEF Deliver, ClientDownAfterFocus, EnterEvent
  <2>3. CASE LockStep
    BY <2>3 DEF LockStep, keyVars
  <2>4. QED
    BY <2>1, <2>2, <2>3, StepCases
<1>2. QED
  BY <1>1, PTL DEF Spec, LockedKeysStay

-----------------------------------------------------------------------------
(* The components.                                                         *)

(* The handlers of the desktop are the only ones that touch it. *)
LEMMA StepOfDesktop == [Next]_vars => [D!Next]_(D!vars)
<1> SUFFICES ASSUME [Next]_vars PROVE [D!Next]_(D!vars)
  OBVIOUS
<1>1. ASSUME UNCHANGED desktopVars PROVE UNCHANGED D!vars
  BY <1>1 DEF desktopVars, D!vars, D!xdgVars, D!surfVars, D!kbdVars, D!ptrVars
<1>2. CASE \E key \in Key, mods \in Modifiers, pressed \in BOOLEAN :
               handle_keyboard_key(key, mods, pressed)
  BY <1>1, <1>2 DEF handle_keyboard_key
<1>3. CASE ClientStep
  BY <1>3 DEF ClientStep, D!Next
<1>4. CASE ModifiersStep
  BY <1>4 DEF ModifiersStep, D!Next
<1>5. CASE PointerStep
  BY <1>5 DEF PointerStep, D!Next
<1>6. CASE LockStep
  BY <1>1, <1>6 DEF LockStep
<1>7. CASE UNCHANGED vars
  BY <1>1, <1>7 DEF vars
<1>8. QED
  BY <1>2, <1>3, <1>4, <1>5, <1>6, <1>7 DEF Next

(* Next to the lock screen the desktop behaves as it does alone: no        *)
(* handler of input.c changes windows, focus or stacking but those that    *)
(* Desktop describes.                                                      *)
THEOREM DesktopInCompositor == Spec => D!Spec
<1>1. Init => D!Init
  BY DEF Init
<1>2. QED
  BY <1>1, StepOfDesktop, PTL DEF Spec, D!Spec

(* The lock screen is not taken down while the event loop runs. *)
Runs == running = TRUE

(* Every step of the composition is one of the lock screen, or leaves it   *)
(* alone.                                                                  *)
LEMMA StepOfLock == Runs /\ [Next]_vars => [L!Next]_(L!vars) /\ Runs'
<1> SUFFICES ASSUME Runs, [Next]_vars PROVE [L!Next]_(L!vars) /\ Runs'
  OBVIOUS
<1>1. ASSUME UNCHANGED <<lockVars, timeVars>> PROVE UNCHANGED L!vars /\ Runs'
  BY <1>1 DEF lockVars, timeVars, L!vars, L!lockVars, Runs
<1>2. ASSUME NEW key \in Key, NEW mods \in Modifiers, NEW pressed \in BOOLEAN,
             handle_keyboard_key(key, mods, pressed)
      PROVE  L!Next /\ Runs'
  <2>1. running' = running /\ idleFor' = 0 /\ Runs' /\ key \in Char \cup L!Control
    BY <1>2, KeyAssumption DEF handle_keyboard_key, Runs
  <2>2. CASE L!zen_lock_handle_key(key, pressed)
    <3>1. L!LockedKey(key, pressed)
      BY <2>1, <2>2 DEF L!LockedKey, Runs
    <3>2. QED
      BY <2>1, <3>1 DEF L!Next
  <2>3. CASE ~locked /\ L!zen_lock_activate /\ UNCHANGED timer
    BY <2>1, <2>3 DEF L!Next, L!LockKeybinding, Runs
  <2>4. CASE ~locked /\ UNCHANGED <<lockVars, failures>> /\ UNCHANGED timer
    BY <2>1, <2>4 DEF L!Next, L!UnlockedKey, L!lockVars, lockVars, Runs
  <2>5. QED
    BY <1>2, <2>2, <2>3, <2>4 DEF handle_keyboard_key, execute_action, lockVars
<1>3. CASE LockStep
  BY <1>3 DEF LockStep, L!Next, Runs, L!lock_signal_cb, L!idle_timeout_cb, L!Tick
<1>4. CASE \E events \in {{}, {"modifiers"}, {"pointer"}} : Deliver(events)
  BY <1>1, <1>4 DEF Deliver
<1>5. CASE UNCHANGED vars
  BY <1>1, <1>5 DEF vars
<1>6. QED
  BY <1>2, <1>3, <1>4, <1>5, StepCases

(* Next to the desktop the lock screen behaves as it does alone: windows,  *)
(* focus and the pointer neither lock nor unlock the session, and a key    *)
(* does only what zen_lock_handle_key or a keybinding makes of it.         *)
THEOREM LockInCompositor == Spec => L!Init /\ [][L!Next]_(L!vars)
<1>1. Init => L!Init /\ Runs
  BY DEF Init, L!Init, Runs
<1>2. QED
  BY <1>1, StepOfLock, PTL DEF Spec

-----------------------------------------------------------------------------
(* What is proved of the components, in the composition.                   *)

DP == INSTANCE DesktopProofs
LP == INSTANCE ScreenLockProofs

(* The lock screen of the composition is the one that was proved about. *)
LEMMA LockNames ==
    /\ L!Init <=> LP!Init
    /\ [L!Next]_(L!vars) <=> [LP!Next]_(LP!vars)
    /\ L!TypeOK <=> LP!TypeOK
<1>1. L!Init <=> LP!Init
  BY DEF L!Init, LP!Init
<1>2. L!TypeOK <=> LP!TypeOK
  BY DEF L!TypeOK, LP!TypeOK
<1>3. L!zen_lock_activate <=> LP!zen_lock_activate
  BY DEF L!zen_lock_activate, LP!zen_lock_activate, L!lockVars, LP!lockVars
<1>4. \A k, p : L!zen_lock_handle_key(k, p) <=> LP!zen_lock_handle_key(k, p)
  <2>1. L!zen_lock_deactivate <=> LP!zen_lock_deactivate
    BY DEF L!zen_lock_deactivate, LP!zen_lock_deactivate
  <2>2. L!pam_authenticate_password = LP!pam_authenticate_password
    BY DEF L!pam_authenticate_password, LP!pam_authenticate_password
  <2>3. \A x, y, e : L!SetText(x, y, e) <=> LP!SetText(x, y, e)
    BY DEF L!SetText, LP!SetText
  <2>4. L!Overlong <=> LP!Overlong
    BY DEF L!Overlong, LP!Overlong
  <2>5. \A s : L!Front(s) = LP!Front(s)
    BY DEF L!Front, LP!Front
  <2>6. L!HandleBackSpace <=> LP!HandleBackSpace
    BY <2>3, <2>4, <2>5 DEF L!HandleBackSpace, LP!HandleBackSpace, L!lockVars, LP!lockVars
  <2>7. L!HandleReturn <=> LP!HandleReturn
    BY <2>1, <2>2, <2>3 DEF L!HandleReturn, LP!HandleReturn
  <2>8. \A c : L!HandleChar(c) <=> LP!HandleChar(c)
    BY <2>3, <2>4 DEF L!HandleChar, LP!HandleChar, L!lockVars, LP!lockVars
  <2>9. QED
    BY <2>3, <2>6, <2>7, <2>8
       DEF L!zen_lock_handle_key, LP!zen_lock_handle_key, L!lockVars, LP!lockVars
<1>5. QED
  BY <1>1, <1>2, <1>3, <1>4 DEF L!Next, LP!Next, L!vars, LP!vars, L!lockVars, LP!lockVars,
     L!LockedKey, LP!LockedKey, L!UnlockedKey, LP!UnlockedKey,
     L!LockKeybinding, LP!LockKeybinding, L!lock_signal_cb, LP!lock_signal_cb,
     L!idle_timeout_cb, LP!idle_timeout_cb, L!Tick, LP!Tick,
     L!zen_lock_destroy, LP!zen_lock_destroy, L!Control, LP!Control

(* Its invariant holds at first, under the assumptions of the composition. *)
LEMMA LockInvInit == LP!Init => LP!LockInv
BY LP!InitLockInv, CharAssumption, PassMaxAssumption, SecretAssumption, TimerAssumption,
   FailureAssumption DEF L!Control, LP!Control

(* Its steps keep the invariant. *)
LEMMA LockInvStep == LP!LockInv /\ [LP!Next]_(LP!vars) => LP!LockInv'
BY LP!NextLockInv, CharAssumption, PassMaxAssumption, SecretAssumption, TimerAssumption,
   FailureAssumption DEF L!Control, LP!Control

(* The same for the desktop, helper by helper and handler by handler. *)
LEMMA DesktopHelpers ==
    /\ D!Live = DP!Live
    /\ \A s, x : D!wl_list_insert(s, x) = DP!wl_list_insert(s, x)
    /\ \A s, x : D!wl_list_remove(s, x) = DP!wl_list_remove(s, x)
    /\ \A S : D!NextInMru(S) = DP!NextInMru(S)
    /\ \A S : D!ToplevelAt(S) = DP!ToplevelAt(S)
    /\ \A x : D!MruAfterFocus(x) = DP!MruAfterFocus(x)
    /\ \A x : D!SceneAfterFocus(x) = DP!SceneAfterFocus(x)
    /\ \A x : D!ActivatedAfterFocus(x) = DP!ActivatedAfterFocus(x)
    /\ \A x : D!KbFocusAfterFocus(x) = DP!KbFocusAfterFocus(x)
    /\ \A x : D!zen_xdg_focus_toplevel(x) <=> DP!zen_xdg_focus_toplevel(x)
<1>1. D!Live = DP!Live
  BY DEF D!Live, DP!Live, D!ToSet, DP!ToSet
<1>2. \A s, x : D!wl_list_insert(s, x) = DP!wl_list_insert(s, x)
  BY DEF D!wl_list_insert, DP!wl_list_insert, D!Cons, DP!Cons
<1>3. \A s, x : D!wl_list_remove(s, x) = DP!wl_list_remove(s, x)
  BY DEF D!wl_list_remove, DP!wl_list_remove, D!RemoveAt, DP!RemoveAt, D!Position, DP!Position
<1>4. \A s, S : D!First(s, S) = DP!First(s, S)
  BY DEF D!First, DP!First, D!ToSet, DP!ToSet, D!Before, DP!Before
<1>5. \A s, x : D!MoveToFront(s, x) = DP!MoveToFront(s, x)
  BY <1>2, <1>3 DEF D!MoveToFront, DP!MoveToFront
<1>6. /\ \A S : D!NextInMru(S) = DP!NextInMru(S)
      /\ \A S : D!ToplevelAt(S) = DP!ToplevelAt(S)
  BY <1>4 DEF D!NextInMru, DP!NextInMru, D!ToplevelAt, DP!ToplevelAt
<1>7. /\ \A x : D!MruAfterFocus(x) = DP!MruAfterFocus(x)
      /\ \A x : D!SceneAfterFocus(x) = DP!SceneAfterFocus(x)
  BY <1>5 DEF D!MruAfterFocus, DP!MruAfterFocus, D!SceneAfterFocus, DP!SceneAfterFocus
<1>8. /\ \A x : D!ActivatedAfterFocus(x) = DP!ActivatedAfterFocus(x)
      /\ \A x : D!KbFocusAfterFocus(x) = DP!KbFocusAfterFocus(x)
  BY DEF D!ActivatedAfterFocus, DP!ActivatedAfterFocus, D!KbFocusAfterFocus,
         DP!KbFocusAfterFocus
<1>9. \A x : D!zen_xdg_focus_toplevel(x) <=> DP!zen_xdg_focus_toplevel(x)
  BY <1>7, <1>8 DEF D!zen_xdg_focus_toplevel, DP!zen_xdg_focus_toplevel
<1>10. QED
  BY <1>1, <1>2, <1>3, <1>6, <1>7, <1>8, <1>9

(* Hence the desktop of the composition is the one that was proved about. *)
LEMMA DesktopNames ==
    /\ D!Init <=> DP!Init
    /\ [D!Next]_(D!vars) <=> [DP!Next]_(DP!vars)
    /\ D!TypeOK <=> DP!TypeOK
<1> USE DEF D!xdgVars, DP!xdgVars, D!surfVars, DP!surfVars, D!kbdVars, DP!kbdVars,
            D!ptrVars, DP!ptrVars
<1>1. /\ D!OverlayTree = DP!OverlayTree
      /\ D!WallpaperTree = DP!WallpaperTree
  BY DEF D!OverlayTree, DP!OverlayTree, D!WallpaperTree, DP!WallpaperTree
<1>2. D!Init <=> DP!Init
  BY <1>1 DEF D!Init, DP!Init
<1>3. D!TypeOK <=> DP!TypeOK
  BY <1>1 DEF D!TypeOK, DP!TypeOK
<1>4. \A t : D!handle_new_xdg_toplevel(t) <=> DP!handle_new_xdg_toplevel(t)
  BY DesktopHelpers DEF D!handle_new_xdg_toplevel, DP!handle_new_xdg_toplevel
<1>5. \A t : D!InitialCommit(t) <=> DP!InitialCommit(t)
  BY DesktopHelpers DEF D!InitialCommit, DP!InitialCommit
<1>6. \A t : D!handle_toplevel_map(t) <=> DP!handle_toplevel_map(t)
  BY DesktopHelpers DEF D!handle_toplevel_map, DP!handle_toplevel_map
<1>7. \A t : D!handle_toplevel_unmap(t) <=> DP!handle_toplevel_unmap(t)
  BY DesktopHelpers DEF D!handle_toplevel_unmap, DP!handle_toplevel_unmap
<1>8. \A t : D!handle_toplevel_destroy(t) <=> DP!handle_toplevel_destroy(t)
  BY DesktopHelpers DEF D!handle_toplevel_destroy, DP!handle_toplevel_destroy
<1>9. \A t : /\ D!handle_toplevel_request_move(t) <=> DP!handle_toplevel_request_move(t)
             /\ D!GeometryChange(t) <=> DP!GeometryChange(t)
  BY DEF D!handle_toplevel_request_move, DP!handle_toplevel_request_move,
         D!GeometryChange, DP!GeometryChange
<1>10. \A k : /\ D!handle_new_input_keyboard(k) <=> DP!handle_new_input_keyboard(k)
              /\ D!handle_keyboard_modifiers(k) <=> DP!handle_keyboard_modifiers(k)
              /\ D!handle_keyboard_destroy(k) <=> DP!handle_keyboard_destroy(k)
  BY DEF D!handle_new_input_keyboard, DP!handle_new_input_keyboard,
         D!handle_keyboard_modifiers, DP!handle_keyboard_modifiers,
         D!handle_keyboard_destroy, DP!handle_keyboard_destroy
<1>11. D!handle_new_input_other <=> DP!handle_new_input_other
  BY DEF D!handle_new_input_other, DP!handle_new_input_other
<1>12. D!zen_input_process_cursor_motion <=> DP!zen_input_process_cursor_motion
  BY DesktopHelpers DEF D!zen_input_process_cursor_motion, DP!zen_input_process_cursor_motion
<1>13. (D!ButtonPress <=> DP!ButtonPress) /\ (D!ButtonRelease <=> DP!ButtonRelease)
  BY DesktopHelpers DEF D!ButtonPress, DP!ButtonPress, D!ButtonRelease, DP!ButtonRelease
<1>14. D!Next <=> DP!Next
  BY <1>4, <1>5, <1>6, <1>7, <1>8, <1>9, <1>10, <1>11, <1>12, <1>13 DEF D!Next, DP!Next
<1>15. UNCHANGED D!vars <=> UNCHANGED DP!vars
  BY DEF D!vars, DP!vars
<1>16. QED
  BY <1>2, <1>3, <1>14, <1>15

(* The invariant of the desktop holds at first. *)
LEMMA DesktopInvInit == DP!Init => DP!DesktopInv
BY DP!InitInv, NullAssumption, TreeAssumption, KeyboardAssumption
   DEF D!OverlayTree, D!WallpaperTree, DP!OverlayTree, DP!WallpaperTree

(* The steps of the desktop keep it. *)
LEMMA DesktopInvStep == DP!DesktopInv /\ [DP!Next]_(DP!vars) => DP!DesktopInv'
BY DP!NextInv, NullAssumption, TreeAssumption, KeyboardAssumption
   DEF D!OverlayTree, D!WallpaperTree, DP!OverlayTree, DP!WallpaperTree

(* The invariants of both components, among each other's steps. *)
LEMMA ComponentInvariants == Spec => [](DP!DesktopInv /\ LP!LockInv)
<1>1. Init => DP!DesktopInv /\ LP!LockInv /\ Runs
  BY DesktopNames, LockNames, DesktopInvInit, LockInvInit DEF Init, L!Init, Runs
<1>2. DP!DesktopInv /\ [Next]_vars => DP!DesktopInv'
  BY StepOfDesktop, DesktopNames, DesktopInvStep
<1>3. LP!LockInv /\ Runs /\ [Next]_vars => LP!LockInv' /\ Runs'
  BY StepOfLock, LockNames, LockInvStep
<1>4. QED
  BY <1>1, <1>2, <1>3, PTL DEF Spec

(* Whatever the lock screen does meanwhile, focus is on the most recently  *)
(* used window that is mapped, stacking and MRU order agree and no pointer *)
(* dangles (zen_xdg_focus_toplevel, handle_toplevel_destroy).              *)
THEOREM DesktopHolds ==
    Spec => [](D!SurfaceStates /\ D!FocusIsFirstMapped /\ D!StackFollowsMru
                 /\ D!NoDanglingPointer /\ D!OnlyFocusedActivated)
<1>1. DP!DesktopInv => D!SurfaceStates /\ D!FocusIsFirstMapped /\ D!StackFollowsMru
                         /\ D!NoDanglingPointer /\ D!OnlyFocusedActivated
  BY DesktopHelpers
     DEF DP!DesktopInv, D!SurfaceStates, DP!SurfaceStates, D!IsInjective, DP!IsInjective,
         D!FocusIsFirstMapped, DP!FocusIsFirstMapped, D!StackFollowsMru, DP!StackFollowsMru,
         D!OverlayTree, DP!OverlayTree, D!WallpaperTree, DP!WallpaperTree,
         D!NoDanglingPointer, DP!NoDanglingPointer,
         D!OnlyFocusedActivated, DP!OnlyFocusedActivated
<1>2. QED
  BY <1>1, ComponentInvariants, PTL

(* Whatever windows and devices do meanwhile, the lock screen is there     *)
(* while the session is locked, and the password field holds what was      *)
(* typed, and nothing once it is unlocked (zen_lock_activate,              *)
(* zen_lock_handle_key).                                                   *)
THEOREM LockHolds == Spec => [](L!LockedIffShown /\ L!NoLeftovers /\ L!FieldIsTyped)
<1>1. LP!LockInv => L!LockedIffShown /\ L!NoLeftovers /\ L!FieldIsTyped
  BY DEF LP!LockInv, L!LockedIffShown, LP!LockedIffShown, L!NoLeftovers, LP!NoLeftovers,
         L!FieldIsTyped, LP!FieldIsTyped, L!Overlong, LP!Overlong
<1>2. QED
  BY <1>1, ComponentInvariants, PTL

(* The sets of keys, and what was sent. *)
KeyTypes ==
    /\ down \subseteq Key /\ clientDown \subseteq Key /\ intercepted \subseteq Key
    /\ sent \subseteq {"key", "modifiers", "enter", "pointer"}

(* Every step keeps them. *)
LEMMA KeyTypesStep == KeyTypes /\ [Next]_vars => KeyTypes'
<1> SUFFICES ASSUME KeyTypes, [Next]_vars PROVE KeyTypes'
  OBVIOUS
<1>1. ASSUME NEW key \in Key, NEW mods \in Modifiers, NEW pressed \in BOOLEAN,
             handle_keyboard_key(key, mods, pressed)
      PROVE  KeyTypes'
  <2>1. down' \subseteq Key
    BY <1>1 DEF handle_keyboard_key, DownAfter, KeyTypes
  <2>2. Intercept(key) \/ wlr_seat_keyboard_notify_key(key, pressed)
    BY <1>1 DEF handle_keyboard_key, AfterLockScreen
  <2>3. QED
    BY <2>1, <2>2 DEF Intercept, wlr_seat_keyboard_notify_key, KeyTypes
<1>2. ASSUME NEW events \in {{}, {"modifiers"}, {"pointer"}}, Deliver(events)
      PROVE  KeyTypes'
  BY <1>2 DEF Deliver, ClientDownAfterFocus, EnterEvent, KeyTypes
<1>3. CASE LockStep
  BY <1>3 DEF LockStep, keyVars, KeyTypes
<1>4. CASE UNCHANGED vars
  BY <1>4 DEF vars, keyVars, KeyTypes
<1>5. QED
  BY <1>1, <1>2, <1>3, <1>4, StepCases

(* The state of both components and of the key handler keeps its types. *)
THEOREM CompositorTypeCorrect == Spec => []TypeOK
<1>1. Init => KeyTypes
  BY DEF Init, KeyTypes
<1>2. KeyTypes /\ DP!DesktopInv /\ LP!LockInv => TypeOK
  <2>1. DP!DesktopInv => D!TypeOK
    BY DesktopNames DEF DP!DesktopInv
  <2>2. LP!LockInv => L!TypeOK
    BY LockNames DEF LP!LockInv
  <2>3. QED
    BY <2>1, <2>2 DEF KeyTypes, TypeOK
<1>3. QED
  BY <1>1, <1>2, KeyTypesStep, ComponentInvariants, PTL DEF Spec
=============================================================================
