--------------------------- MODULE SessionProofs ---------------------------
(***************************************************************************)
(* Proofs that zen-session starts a desktop only after a login, gives the  *)
(* terminal its echo back, and leaves a logind session behind only after   *)
(* one of the named accidents, for every number of attempts, restarts and  *)
(* failures, and whatever the compositor does; and that the compositor,    *)
(* wherever its creation fails, holds what its objects need and releases   *)
(* everything in the end, but for the listeners and buffers that its       *)
(* destruction forgets.                                                    *)
(***************************************************************************)
EXTENDS Session, SequenceTheorems, TLAPS

(* A PAM handle exists only while PAM asks for a password, and from the    *)
(* login on the attempts are forgotten.                                    *)
LoginInv ==
    /\ pamh => at = "pam_prompt"
    /\ at \in Run => admitted /\ attempt = 0

Accident == {"fork", "reply", "loginctl", "killed"}

(* A logind session is still to be terminated, under the name that is      *)
(* known, or something went wrong.                                         *)
LogindInv ==
    logind => \/ at \in {"fork", "wait", "terminate"} /\ session_id = "real"
              \/ \E m \in Accident : m \in mishaps

-----------------------------------------------------------------------------
(* A failed attempt leads to the next one or out of zen-session. *)
LEMMA FailedAttemptLeads ==
    ASSUME FailedAttempt
    PROVE  at' \in {"username", "exited"}
BY DEF FailedAttempt, Again

(* No accident is forgotten. *)
LEMMA MishapsStay ==
    ASSUME [SessionNext]_allVars
    PROVE  \A m \in mishaps : m \in mishaps'
<1>1. CASE CompositorStep
  BY <1>1 DEF CompositorStep, sessionVars
<1>2. CASE UNCHANGED allVars
  BY <1>2 DEF allVars, sessionVars
<1>3. CASE ReadUsername \/ ReadPassword \/ pam_authenticate \/ pam_start
  BY <1>3 DEF ReadUsername, ReadPassword, pam_authenticate, pam_start
<1>4. CASE sd_bus_open_system \/ CreateSession \/ ForkCompositor
  BY <1>4 DEF sd_bus_open_system, CreateSession, ForkCompositor
<1>5. CASE waitpid \/ TerminateSession \/ zen_session_destroy \/ Restart
  BY <1>5 DEF waitpid, TerminateSession, zen_session_destroy, Restart
<1>6. CASE CompositorKilled \/ SessionKilled
  BY <1>6 DEF CompositorKilled, SessionKilled
<1> QED
  BY <1>1, <1>2, <1>3, <1>4, <1>5, <1>6 DEF SessionNext, Proceed

-----------------------------------------------------------------------------
(* zen-session starts without a PAM handle and before any login. *)
LEMMA LoginInvInit == SessionInit => LoginInv
BY DEF SessionInit, LoginInv, FirstStep, Run

(* Every attempt closes its PAM handle, and only a login leads past them. *)
LEMMA LoginInvNext ==
    ASSUME LoginInv, [SessionNext]_allVars
    PROVE  LoginInv'
<1> USE DEF LoginInv, Run
<1>1. CASE ReadUsername
  BY <1>1, FailedAttemptLeads DEF ReadUsername
<1>2. CASE ReadPassword
  BY <1>2 DEF ReadPassword
<1>3. CASE pam_start
  BY <1>3, FailedAttemptLeads DEF pam_start
<1>4. CASE pam_authenticate
  BY <1>4, FailedAttemptLeads DEF pam_authenticate
<1>5. CASE sd_bus_open_system
  BY <1>5 DEF sd_bus_open_system, login
<1>6. CASE CreateSession
  BY <1>6 DEF CreateSession, login
<1>7. CASE ForkCompositor
  BY <1>7 DEF ForkCompositor, login
<1>8. CASE waitpid
  BY <1>8 DEF waitpid, login
<1>9. CASE TerminateSession
  BY <1>9 DEF TerminateSession, login
<1>10. CASE zen_session_destroy
  BY <1>10 DEF zen_session_destroy, login
<1>11. CASE Restart
  BY <1>11 DEF Restart, FirstStep
<1>12. CASE CompositorStep
  BY <1>12 DEF CompositorStep, sessionVars, login
<1>13. CASE CompositorKilled
  BY <1>13 DEF CompositorKilled, login
<1>14. CASE SessionKilled
  BY <1>14 DEF SessionKilled
<1>15. CASE UNCHANGED allVars
  BY <1>15 DEF allVars, sessionVars, login
<1> QED
  BY <1>1, <1>2, <1>3, <1>4, <1>5, <1>6, <1>7, <1>8, <1>9, <1>10, <1>11, <1>12, <1>13,
     <1>14, <1>15
  DEF SessionNext, Proceed

(* There is a compositor only after somebody was authenticated within the  *)
(* attempts of this run of zen_session_init.                               *)
THEOREM LoginCorrect == SessionSpec => []DesktopOnlyAfterLogin
<1>1. LoginInv => DesktopOnlyAfterLogin
  BY DEF LoginInv, DesktopOnlyAfterLogin, Run
<1> QED
  BY <1>1, LoginInvInit, LoginInvNext, PTL DEF SessionSpec

-----------------------------------------------------------------------------
(* What a prompt has saved is an echo, unless there was a kill before. *)
EchoInv == EchoRestored /\ (~old_term => "killed" \in mishaps)

(* Every step that leaves a prompt restores the echo, unless it is a kill. *)
LEMMA EchoNext ==
    ASSUME EchoInv, [SessionNext]_allVars
    PROVE  EchoInv'
<1> USE DEF EchoInv, EchoRestored
<1>0. "killed" \in mishaps => "killed" \in mishaps'
  BY MishapsStay
<1>1. CASE ReadUsername
  <2>1. ~echo => "killed" \in mishaps'
    BY <1>0, <1>1 DEF ReadUsername
  <2>2. CASE at' = "password" /\ HideTyping
    <3>1. (echo' = echo \/ echo' = FALSE) /\ old_term' = echo
      BY <2>2, Zenon DEF HideTyping
    <3> QED
      BY <2>1, <2>2, <3>1, Zenon
  <2>3. CASE UNCHANGED <<echo, old_term>>
    BY <1>0, <2>1, <2>3, Zenon
  <2> QED
    BY <1>1, <2>2, <2>3 DEF ReadUsername
<1>2. CASE ReadPassword
  BY <1>0, <1>2 DEF ReadPassword
<1>3. CASE pam_start
  <2>1. ~echo => "killed" \in mishaps'
    BY <1>0, <1>3 DEF pam_start
  <2>2. CASE at' = "pam_prompt" /\ HideTyping
    <3>1. (echo' = echo \/ echo' = FALSE) /\ old_term' = echo
      BY <2>2, Zenon DEF HideTyping
    <3> QED
      BY <2>1, <2>2, <3>1, Zenon
  <2>3. CASE UNCHANGED <<echo, old_term>>
    BY <1>0, <2>1, <2>3, Zenon
  <2> QED
    BY <1>3, <2>2, <2>3 DEF pam_start
<1>4. CASE pam_authenticate
  BY <1>0, <1>4 DEF pam_authenticate, pam_conv_fn
<1>5. CASE sd_bus_open_system \/ CreateSession \/ ForkCompositor
  BY <1>0, <1>5 DEF sd_bus_open_system, CreateSession, ForkCompositor, login
<1>6. CASE waitpid \/ TerminateSession \/ zen_session_destroy
  BY <1>0, <1>6 DEF waitpid, TerminateSession, zen_session_destroy, login
<1>7. CASE Restart
  BY <1>0, <1>7 DEF Restart
<1>8. CASE CompositorStep \/ CompositorKilled
  BY <1>0, <1>8 DEF CompositorStep, CompositorKilled, sessionVars, login
<1>9. CASE SessionKilled
  BY <1>9 DEF SessionKilled
<1>10. CASE UNCHANGED allVars
  BY <1>10 DEF allVars, sessionVars, login
<1> QED
  BY <1>1, <1>2, <1>3, <1>4, <1>5, <1>6, <1>7, <1>8, <1>9, <1>10 DEF SessionNext, Proceed

(* Every way out of the two prompts, of zen_session_init and of            *)
(* pam_conv_fn, shows again what is typed, as long as nothing was killed.  *)
THEOREM EchoCorrect == SessionSpec => []EchoRestored
<1>1. SessionInit => EchoInv
  BY DEF SessionInit, EchoInv, EchoRestored
<1>2. EchoInv => EchoRestored
  BY DEF EchoInv
<1> QED
  BY <1>1, <1>2, EchoNext, PTL DEF SessionSpec

-----------------------------------------------------------------------------
(* A session that was created is terminated, or an accident is recorded. *)
LEMMA LogindInvNext ==
    ASSUME LogindInv, [SessionNext]_allVars
    PROVE  LogindInv'
<1> DEFINE Past == \E m \in Accident : m \in mishaps
<1>0. Past => Past'
  BY MishapsStay DEF Accident
<1> USE DEF LogindInv
<1>1. CASE ReadUsername \/ ReadPassword \/ pam_start \/ pam_authenticate
  BY <1>0, <1>1 DEF ReadUsername, ReadPassword, pam_start, pam_authenticate
<1>2. CASE sd_bus_open_system
  BY <1>0, <1>2 DEF sd_bus_open_system
<1>3. CASE CreateSession
  BY <1>0, <1>3 DEF CreateSession, Accident
<1>4. CASE ForkCompositor
  BY <1>0, <1>4 DEF ForkCompositor, Accident
<1>5. CASE waitpid
  BY <1>0, <1>5 DEF waitpid
<1>6. CASE TerminateSession
  BY <1>0, <1>6 DEF TerminateSession, Accident
<1>7. CASE zen_session_destroy \/ Restart
  BY <1>0, <1>7 DEF zen_session_destroy, Restart
<1>8. CASE CompositorStep \/ CompositorKilled
  BY <1>0, <1>8 DEF CompositorStep, CompositorKilled, sessionVars
<1>9. CASE SessionKilled
  BY <1>9 DEF SessionKilled, Accident
<1>10. CASE UNCHANGED allVars
  BY <1>10 DEF allVars, sessionVars
<1> QED
  BY <1>1, <1>2, <1>3, <1>4, <1>5, <1>6, <1>7, <1>8, <1>9, <1>10 DEF SessionNext, Proceed

(* Whatever becomes of the compositor, and after any number of restarts,   *)
(* zen_session_run leaves a logind session behind only if it could not     *)
(* fork, read its name or run loginctl, or was killed.                     *)
THEOREM SessionGivenBack == SessionSpec => []SessionReleased
<1>1. SessionInit => LogindInv
  BY DEF SessionInit, LogindInv
<1>2. LogindInv => SessionReleased
  BY DEF LogindInv, SessionReleased, Accident
<1> QED
  BY <1>1, <1>2, LogindInvNext, PTL DEF SessionSpec

-----------------------------------------------------------------------------
(* The compositor.                                                         *)

(* What it is made of. *)
Objects ==
    {"wl_display", "backend", "renderer", "wlr_comp", "allocator", "scene", "output_layout",
     "scene_layout", "xdg_shell", "new_xdg_toplevel", "seat", "cursor", "cursor_listeners",
     "xcursor_mgr", "new_input", "shell_overlay_tree", "wallpaper_state", "wallpaper_tree",
     "keybindings", "layer_shell", "new_layer_surface", "new_lock", "new_output", "socket",
     "bus", "dbus_slot", "dbus_event_source", "lock_mgr",
     "idle_timer", "lock_signal_slot", "shell", "xdg_toplevel", "ZenToplevel",
     "toplevel_listeners", "layer_surface", "ZenLayerSurface", "layer_listeners",
     "wlr_keyboard", "ZenKeyboard", "keyboard_listeners", "overlay_surface", "overlay_cr",
     "overlay_pango", "overlay_wlr_buf", "overlay_scene_buffer", "lock_surface", "lock_cr",
     "lock_pango", "lock_wlr_buf", "lock_scene_buffer", "wallpaper_wbuf"}

(* The step of zen_compositor_create that makes an object or fails, 20 for *)
(* one without which it may succeed.                                       *)
MadeAt(o) ==
    CASE o = "wl_display"              -> 1
      [] o = "backend"                 -> 2
      [] o = "renderer"                -> 3
      [] o = "wlr_comp"                -> 4
      [] o = "allocator"               -> 5
      [] o = "scene"                   -> 6
      [] o = "output_layout"           -> 7
      [] o = "scene_layout"            -> 8
      [] o = "new_output"              -> 9
      [] o \in zen_xdg_init            -> 11
      [] o \in zen_input_init          -> 12
      [] o = "shell_overlay_tree"      -> 13
      [] o \in zen_wallpaper_init      -> 14
      [] o \in zen_keybinds_init       -> 15
      [] o \in zen_layer_init          -> 16
      [] o \in {"lock_mgr", "new_lock"} -> 18
      [] o = "shell"                   -> 19
      [] OTHER                         -> 20

(* The step of zen_compositor_destroy that releases an object, 26 for     *)
(* the listeners and buffers that none does.                               *)
ReleasedAt(o) ==
    CASE o = "overlay_scene_buffer"    -> 1
      [] o = "overlay_wlr_buf"         -> 2
      [] o = "overlay_pango"           -> 3
      [] o = "overlay_cr"              -> 4
      [] o = "overlay_surface"         -> 5
      [] o = "shell"                   -> 6
      [] o = "idle_timer"              -> 7
      [] o = "lock_signal_slot"        -> 8
      [] o = "lock_scene_buffer"       -> 9
      [] o = "lock_wlr_buf"            -> 10
      [] o = "lock_pango"              -> 11
      [] o = "lock_cr"                 -> 12
      [] o = "lock_surface"            -> 13
      [] o \in zen_dbus_destroy        -> 14
      [] o \in zen_layer_destroy       -> 15
      [] o \in zen_keybinds_destroy    -> 16
      [] o \in zen_wallpaper_destroy   -> 17
      [] o \in zen_input_destroy       -> 18
      [] o \in zen_xdg_destroy         -> 19
      [] o \in {"xdg_toplevel", "toplevel_listeners", "layer_surface"} -> 20
      [] o \in {"scene", "scene_layout", "shell_overlay_tree", "wallpaper_tree"} -> 21
      [] o = "allocator"               -> 22
      [] o = "renderer"                -> 23
      [] o \in {"backend", "wlr_keyboard"} -> 24
      [] o \in {"wl_display", "wlr_comp", "output_layout", "xdg_shell", "seat", "layer_shell",
                "lock_mgr", "socket"}  -> 25
      [] OTHER                         -> 26

(* All that may be left of a compositor. *)
Kept == /\ have \subseteq NeverRemoved \cup {"wallpaper_wbuf"}
        /\ papers = <<>> /\ outputs = {}

(* The compositor: how far the creation or the destruction has come says   *)
(* what is there.                                                          *)
StartupInv ==
    /\ phase \in {"create", "created", "run", "destroy", "exited", "crashed"}
    /\ step \in 1 .. 25
    /\ have \subseteq Objects
    /\ phase = "create" =>
         step <= 19 /\ \A o \in Objects : MadeAt(o) < step => o \in have
    /\ phase \in {"created", "run"} => \A o \in Objects : MadeAt(o) <= 19 => o \in have
    /\ phase = "destroy" => \A o \in have : step <= ReleasedAt(o)
    /\ phase \in {"exited", "crashed"} => Kept
    /\ DependenciesOutlive

-----------------------------------------------------------------------------
(* The steps of zen_compositor_destroy, one by one. *)
LEMMA DestroyTable ==
    /\ Len(DestroySteps) = 25
    /\ \A i \in 1 .. 25 : DestroySteps[i] =
         << "overlay_scene_buffer", "overlay_wlr_buf", "overlay_pango", "overlay_cr",
            "overlay_surface", "shell", "idle_timer", "lock_signal_slot",
            "lock_scene_buffer", "lock_wlr_buf", "lock_pango", "lock_cr", "lock_surface",
            "zen_dbus_destroy", "zen_layer_destroy", "zen_keybinds_destroy",
            "zen_wallpaper_destroy", "zen_input_destroy", "zen_xdg_destroy",
            "wl_display_destroy_clients", "scene", "allocator", "renderer", "backend",
            "wl_display" >>[i]
BY DEF DestroySteps, zen_cairo_buffer_destroy, overlay, lock

(* The parts of the two buffers. *)
LEMMA BufferParts ==
    /\ ToSet(overlay) = {"overlay_surface", "overlay_cr", "overlay_pango",
                         "overlay_wlr_buf", "overlay_scene_buffer"}
    /\ ToSet(lock) = {"lock_surface", "lock_cr", "lock_pango", "lock_wlr_buf",
                      "lock_scene_buffer"}
BY DEF ToSet, overlay, lock

(* The steps of zen_compositor_create. *)
LEMMA StepNames ==
    /\ Len(Steps) = 19
    /\ ToSet(Steps) = {"wl_display", "backend", "renderer", "wlr_comp", "allocator", "scene",
            "output_layout", "scene_layout", "new_output", "wlr_backend_start", "zen_xdg_init",
            "zen_input_init", "shell_overlay_tree", "zen_wallpaper_init",
            "zen_keybinds_init", "zen_layer_init", "zen_dbus_init", "zen_lock_init",
            "zen_shell_init"}
BY DEF ToSet, Steps

(* Every object that is released is released by one step. *)
LEMMA ReleasedAtStep ==
    \A i \in 1 .. 25 : \A o : o \in Releases(DestroySteps[i]) <=> ReleasedAt(o) = i
BY DestroyTable DEF Releases, ReleasedAt, zen_dbus_destroy, zen_layer_destroy,
  zen_keybinds_destroy, zen_wallpaper_destroy, zen_input_destroy, zen_xdg_destroy

(* What an object needs is not released before it, unless it is one of the *)
(* forsaken listeners.                                                     *)
LEMMA ReleasedInOrder ==
    \A o : o \notin Forsaken => \A n \in Needs(o) : ReleasedAt(o) <= ReleasedAt(n)
BY DEF Forsaken, NeverRemoved, Needs, ReleasedAt, overlay, lock, zen_dbus_destroy, zen_layer_destroy,
  zen_keybinds_destroy, zen_wallpaper_destroy, zen_input_destroy, zen_xdg_destroy

(* Only three listeners and the buffers of wallpapers are never released. *)
LEMMA ReleasedSometime ==
    \A o : /\ ReleasedAt(o) \in 1 .. 26
           /\ o \in Objects /\ ReleasedAt(o) = 26 =>
                  o \in NeverRemoved \cup {"wallpaper_wbuf"}
BY DEF NeverRemoved, ReleasedAt, Objects, zen_dbus_destroy, zen_layer_destroy,
  zen_keybinds_destroy, zen_wallpaper_destroy, zen_input_destroy, zen_xdg_destroy

(* A step creates objects. *)
LEMMA CreatesObjects == \A s \in ToSet(Steps) : Creates(s) \subseteq Objects
BY StepNames DEF Objects, Creates, zen_xdg_init, zen_input_init, zen_wallpaper_init,
  zen_keybinds_init, zen_layer_init, zen_dbus_init, zen_lock_init

(* A step that succeeds makes what it cannot succeed without. *)
LEMMA MadeByStep ==
    \A i \in 1 .. 19 : \A o :
      MadeAt(o) = i => i # 17 /\ o \in Creates(Steps[i]) \ Optional(Steps[i])
BY DEF MadeAt, Steps, Creates, Optional, zen_xdg_init, zen_input_init, zen_wallpaper_init,
  zen_keybinds_init, zen_layer_init, zen_dbus_init, zen_lock_init

(* A number for every object. *)
LEMMA MadeSometime == \A o : MadeAt(o) \in 1 .. 20
BY DEF MadeAt

(* What must be made is an object. *)
LEMMA MadeAtObject == \A o : MadeAt(o) < 20 => o \in Objects
BY DEF MadeAt, Objects, zen_xdg_init, zen_input_init, zen_wallpaper_init,
         zen_keybinds_init, zen_layer_init

(* What a step creates needs only what earlier steps have made, what the   *)
(* step makes itself, or what is there.                                    *)
LEMMA CreatedInOrder ==
    \A i \in 1 .. 19 : \A o \in Creates(Steps[i]) : \A n \in Needs(o) :
      n \in have \/ MadeAt(n) < i \/ n \in Creates(Steps[i]) \ Optional(Steps[i])
BY DEF MadeAt, Steps, Creates, Optional, Needs, overlay, lock, zen_xdg_init, zen_input_init,
  zen_wallpaper_init, zen_keybinds_init, zen_layer_init, zen_dbus_init, zen_lock_init

(* So does what a step leaves behind when it fails. *)
LEMMA LeftBehindInOrder ==
    ASSUME NEW i \in 1 .. 19, NEW left \in LeftBehind(Steps[i])
    PROVE  /\ Steps[i] = "zen_dbus_init" => i = 17 /\ left = {}
           /\ left \subseteq {"seat", "shell"}
           /\ \A o \in left : \A n \in Needs(o) : MadeAt(n) < i
<1>1. \/ left = {}
      \/ left = {"seat"} /\ Steps[i] = "zen_input_init"
      \/ left = {"shell"} /\ Steps[i] = "zen_shell_init"
  BY DEF LeftBehind
<1>2. /\ Steps[i] = "zen_dbus_init" => i = 17
      /\ Steps[i] = "zen_input_init" => i = 12
  BY DEF Steps
<1>3. \A o \in left : o = "seat" \/ o = "shell"
  BY <1>1
<1>4. \A o, n : o \in {"seat", "shell"} /\ n \in Needs(o) => o = "seat" /\ MadeAt(n) < 12
  BY DEF Needs, MadeAt, overlay, lock, zen_xdg_init, zen_input_init, zen_wallpaper_init,
         zen_keybinds_init, zen_layer_init
<1> QED
  BY <1>1, <1>2, <1>3, <1>4

(* A compositor that has not begun. *)
LEMMA BlankInv ==
    ASSUME phase' = "create", step' = 1, have' = {}, papers' = <<>>, outputs' = {}
    PROVE  StartupInv'
<1>1. DependenciesOutlive'
  BY DEF DependenciesOutlive
<1> QED
  BY <1>1, MadeSometime DEF StartupInv, Kept

(* A compositor whose process is gone. *)
LEMMA EmptyCompositor ==
    ASSUME step \in 1 .. 25, ProcessGone,
           phase' \in {"exited", "crashed"} \/ (phase' = "create" /\ step' = 1)
    PROVE  StartupInv'
<1>1. DependenciesOutlive'
  BY DEF DependenciesOutlive, ProcessGone
<1> QED
  BY <1>1, MadeSometime DEF StartupInv, Kept, ProcessGone

(* The destruction may begin at any time. *)
LEMMA BeginDestroyStep ==
    ASSUME StartupInv, BeginDestroy,
           have' \subseteq Objects, papers' = papers, outputs' = outputs, have \subseteq have',
           \A o \in have' \ have : Needs(o) \subseteq have'
    PROVE  StartupInv'
<1>1. DependenciesOutlive'
  BY DEF StartupInv, DependenciesOutlive, BeginDestroy
<1> QED
  BY <1>1, ReleasedSometime DEF StartupInv, BeginDestroy, Kept

(* One step of zen_compositor_create, however it ends. *)
LEMMA CreateStepInv ==
    ASSUME StartupInv, CreateStep
    PROVE  StartupInv'
<1> DEFINE s == Steps[step]
<1>1. /\ phase = "create" /\ step \in 1 .. 19 /\ UNCHANGED <<outputs, papers>>
      /\ \A o \in Objects : MadeAt(o) < step => o \in have
      /\ s \in ToSet(Steps) /\ Creates(s) \subseteq Objects
  <2>1. /\ phase = "create" /\ step \in 1 .. 19 /\ UNCHANGED <<outputs, papers>>
        /\ \A o \in Objects : MadeAt(o) < step => o \in have
    BY DEF CreateStep, StartupInv
  <2>2. s \in ToSet(Steps)
    BY <2>1, StepNames DEF ToSet
  <2> QED
    BY <2>1, <2>2, CreatesObjects
<1>2. ASSUME NEW lost \in SUBSET Optional(s), have' = have \cup (Creates(s) \ lost), NextStep
      PROVE  StartupInv'
  <2>1. /\ have' \subseteq Objects /\ have \subseteq have'
        /\ Creates(s) \ Optional(s) \subseteq have'
    BY <1>1, <1>2 DEF StartupInv
  <2>2. \A o \in Objects : MadeAt(o) <= step => o \in have'
    BY <1>1, <2>1, MadeByStep DEF MadeAt
  <2>3. \A o \in have' : Needs(o) \subseteq have'
    <3>1. \A o \in have : Needs(o) \subseteq have
      BY <1>1 DEF StartupInv, DependenciesOutlive
    <3>2. ASSUME NEW o \in Creates(s), NEW n \in Needs(o)
          PROVE  n \in have'
      <4>1. n \in have \/ MadeAt(n) < step \/ n \in Creates(s) \ Optional(s)
        BY <1>1, CreatedInOrder
      <4> QED
        BY <1>1, <2>1, <4>1, MadeAtObject, MadeSometime
    <3> QED
      BY <1>2, <2>1, <3>1, <3>2
  <2>4. DependenciesOutlive'
    BY <1>1, <2>1, <2>3 DEF DependenciesOutlive, StartupInv
  <2>5. \/ phase' = "create" /\ step' = step + 1 /\ step < 19
        \/ phase' = "created" /\ step' = step /\ step = 19
    BY <1>1, <1>2, StepNames DEF NextStep
  <2> QED
    BY <1>1, <2>1, <2>2, <2>4, <2>5, MadeSometime DEF StartupInv
<1>3. ASSUME NEW left \in LeftBehind(s), have' = have \cup left
      PROVE  /\ have' \subseteq Objects
             /\ \A o \in have' \ have : Needs(o) \subseteq have'
  <2>1. left \subseteq Objects /\ \A o \in left : \A n \in Needs(o) : MadeAt(n) < step
    BY <1>1, <1>3, LeftBehindInOrder DEF Objects
  <2> QED
    BY <1>1, <1>3, <2>1, MadeAtObject, MadeSometime DEF StartupInv
<1>4. ASSUME s = "zen_dbus_init", have' = have, NextStep
      PROVE  StartupInv'
  <2>1. step = 17 /\ phase' = "create" /\ step' = 18
    BY <1>1, <1>4, StepNames DEF NextStep, Steps
  <2>2. \A o \in Objects : MadeAt(o) < 18 => o \in have
    BY <1>1, <2>1, MadeByStep, MadeSometime
  <2>3. DependenciesOutlive'
    BY <1>1, <1>4, <2>1 DEF DependenciesOutlive, StartupInv
  <2> QED
    BY <1>1, <1>4, <2>1, <2>2, <2>3 DEF StartupInv
<1>5. CASE have' = have \cup Creates(s) /\ NextStep
  <2>1. have' = have \cup (Creates(s) \ {})
    BY <1>5
  <2>2. {} \in SUBSET Optional(s) /\ NextStep
    BY <1>5
  <2> HIDE DEF s
  <2> QED
    BY <1>2, <2>1, <2>2
<1>6. CASE \E lost \in SUBSET Optional(s) \ {{}} :
              have' = have \cup (Creates(s) \ lost) /\ NextStep /\ MayFail
  BY <1>2, <1>6
<1>7. CASE \E left \in LeftBehind(s) :
              /\ have' = have \cup left
              /\ MayFail
              /\ IF s = "zen_dbus_init" THEN NextStep ELSE BeginDestroy
  <2>1. PICK left \in LeftBehind(s) :
              /\ have' = have \cup left
              /\ IF s = "zen_dbus_init" THEN NextStep ELSE BeginDestroy
    BY <1>7
  <2>2. CASE s = "zen_dbus_init"
    BY <1>1, <1>4, <2>1, <2>2, LeftBehindInOrder
  <2>3. CASE s # "zen_dbus_init"
    BY <1>1, <1>3, <2>1, <2>3, BeginDestroyStep
  <2> QED
    BY <2>2, <2>3
<1> HIDE DEF s
<1> QED
  BY <1>5, <1>6, <1>7 DEF CreateStep, s

(* What comes and goes while the loop runs is needed by nothing else, and  *)
(* needs only what a complete compositor has.                              *)
Transient == {ToSet(lock), handle_new_xdg_toplevel, handle_new_layer_surface, handle_new_input}

(* The tables say so. *)
LEMMA TransientTable ==
    ASSUME NEW objs \in Transient
    PROVE  /\ objs \subseteq Objects
           /\ \A o \in objs : /\ MadeAt(o) = 20
                              /\ o \notin {"wallpaper_tree", "wallpaper_state", "backend"}
           /\ \A o \in objs : \A n \in Needs(o) : n \in objs \/ MadeAt(n) <= 19
           /\ \A o : o \notin objs => Needs(o) \cap objs = {}
BY BufferParts
DEF Transient, Objects, MadeAt, Needs, overlay, lock, zen_xdg_init, zen_input_init,
    zen_wallpaper_init, zen_keybinds_init, zen_layer_init, handle_new_xdg_toplevel,
    handle_new_layer_surface, handle_new_input

(* Something comes or goes. *)
LEMMA ToggleStep ==
    ASSUME StartupInv, phase = "run", UNCHANGED <<phase, step, outputs, papers>>,
           NEW objs \in Transient, have' = have \cup objs \/ have' = have \ objs
    PROVE  StartupInv'
<1>1. /\ have \subseteq Objects
      /\ \A o \in Objects : MadeAt(o) <= 19 => o \in have
      /\ \A o \in have : Needs(o) \subseteq have
  BY DEF StartupInv, DependenciesOutlive
<1>2. have' \subseteq Objects /\ \A o \in Objects : MadeAt(o) <= 19 => o \in have'
  BY <1>1, TransientTable
<1>3. \A o \in have' : Needs(o) \subseteq have'
  <2>1. CASE have' = have \cup objs
    BY <1>1, <2>1, TransientTable, MadeAtObject, MadeSometime
  <2>2. CASE have' = have \ objs
    BY <1>1, <2>2, TransientTable
  <2> QED
    BY <2>1, <2>2
<1>4. DependenciesOutlive'
  BY <1>3, TransientTable DEF StartupInv, DependenciesOutlive
<1> QED
  BY <1>2, <1>4 DEF StartupInv

(* An output is announced. *)
LEMMA NewOutputStep ==
    ASSUME StartupInv, NEW o \in Output, handle_new_output(o)
    PROVE  StartupInv'
<1> DEFINE Room == {"wallpaper_tree", "wallpaper_state"} \subseteq have
<1>1. /\ UNCHANGED <<phase, step>>
      /\ "backend" \in have /\ phase \in {"create", "run"}
  <2>1. MadeAt("backend") = 2 /\ "backend" \in Objects
    BY DEF MadeAt, Objects, zen_xdg_init, zen_input_init, zen_wallpaper_init,
           zen_keybinds_init, zen_layer_init
  <2>2. step \in 1 .. 19 /\ Steps[step] = "wlr_backend_start" => step = 10
    BY DEF Steps
  <2> QED
    BY <2>1, <2>2 DEF handle_new_output, Announcing, StartupInv
<1>2. /\ papers' # papers => Room
      /\ \E o2 \in {{}, OverlayAfter}, b \in {{}, {"wallpaper_wbuf"}} : have' = have \cup o2 \cup b
  BY DEF handle_new_output, PapersAfter, BufferOf
<1>3. /\ OverlayAfter \subseteq Objects /\ "wallpaper_wbuf" \in Objects
      /\ \A x \in OverlayAfter : \A n \in Needs(x) : n \in have \/ n \in OverlayAfter
      /\ \A x : x = "wallpaper_wbuf" => Needs(x) \subseteq have
  BY BufferParts DEF OverlayAfter, Objects, Needs, overlay, lock
<1>4. /\ have' \subseteq Objects /\ have \subseteq have'
      /\ \A x \in have' : Needs(x) \subseteq have'
  <2>1. have \subseteq Objects /\ \A x \in have : Needs(x) \subseteq have
    BY <1>1 DEF StartupInv, DependenciesOutlive
  <2>2. PICK o2 \in {{}, OverlayAfter}, b \in {{}, {"wallpaper_wbuf"}} :
             have' = have \cup o2 \cup b
    BY <1>2
  <2>3. \A x \in o2 : x \in Objects /\ \A n \in Needs(x) : n \in have \/ n \in o2
    BY <1>3, <2>2
  <2>4. \A x \in b : x \in Objects /\ Needs(x) \subseteq have
    <3>1. \A x \in b : x = "wallpaper_wbuf"
      BY <2>2
    <3> QED
      BY <1>3, <3>1
  <2> QED
    BY <2>1, <2>2, <2>3, <2>4
<1>5. DependenciesOutlive'
  BY <1>1, <1>2, <1>4 DEF StartupInv, DependenciesOutlive
<1>6. CASE phase = "create"
  BY <1>1, <1>4, <1>5, <1>6 DEF StartupInv
<1>7. CASE phase = "run"
  BY <1>1, <1>4, <1>5, <1>7 DEF StartupInv
<1> QED
  BY <1>1, <1>6, <1>7

(* One step of zen_compositor_destroy: what it releases is needed by       *)
(* nothing that is left.                                                   *)
LEMMA DestroyStepInv ==
    ASSUME StartupInv, DestroyStep
    PROVE  StartupInv'
<1>1. /\ phase = "destroy" /\ step \in 1 .. 25
      /\ have \subseteq Objects /\ \A o \in have : step <= ReleasedAt(o)
  BY DEF DestroyStep, StartupInv
<1>2. have' = {o \in have : ReleasedAt(o) # step}
  BY <1>1, ReleasedAtStep DEF DestroyStep
<1>3. \A o \in have' : o \in have /\ step + 1 <= ReleasedAt(o)
  BY <1>1, <1>2, ReleasedSometime
<1>4. \A o \in have' : Needs(o) \subseteq have' \/ o \in Forsaken
  <2>1. SUFFICES ASSUME NEW o \in have', o \notin Forsaken, NEW n \in Needs(o)
                 PROVE  n \in have'
    OBVIOUS
  <2>2. n \in have /\ ReleasedAt(o) <= ReleasedAt(n)
    <3>1. o \in have
      BY <1>2
    <3>2. Needs(o) \subseteq have
      BY <2>1, <3>1 DEF StartupInv, DependenciesOutlive
    <3> QED
      BY <2>1, <3>2, ReleasedInOrder
  <2> QED
    BY <1>1, <1>2, <1>3, <2>2, ReleasedSometime
<1>5. /\ papers' # <<>> => papers' = papers /\ step < 17
      /\ outputs' # {} => outputs' = outputs /\ step < 24
  <2>1. /\ papers # <<>> => "wallpaper_state" \in have
        /\ outputs # {} => "backend" \in have
    BY DEF StartupInv, DependenciesOutlive
  <2>2. ReleasedAt("wallpaper_state") = 17 /\ ReleasedAt("backend") = 24
    BY DEF ReleasedAt, zen_dbus_destroy, zen_layer_destroy, zen_keybinds_destroy,
           zen_wallpaper_destroy, zen_input_destroy, zen_xdg_destroy
  <2>3. DestroySteps[17] = "zen_wallpaper_destroy" /\ DestroySteps[24] = "backend"
    BY DestroyTable
  <2>4. /\ papers' = papers \/ papers' = <<>>
        /\ outputs' = outputs \/ outputs' = {}
        /\ step = 17 => papers' = <<>>
        /\ step = 24 => outputs' = {}
    BY <2>3 DEF DestroyStep
  <2> QED
    BY <1>1, <2>1, <2>2, <2>4
<1>6. /\ papers' # <<>> => {"wallpaper_tree", "wallpaper_state"} \subseteq have'
      /\ outputs' # {} => "backend" \in have'
  <2>1. /\ ReleasedAt("wallpaper_state") = 17 /\ ReleasedAt("wallpaper_tree") = 21
        /\ ReleasedAt("backend") = 24
    BY DEF ReleasedAt, zen_dbus_destroy, zen_layer_destroy, zen_keybinds_destroy,
           zen_wallpaper_destroy, zen_input_destroy, zen_xdg_destroy
  <2> QED
    BY <1>1, <1>2, <1>5, <2>1 DEF StartupInv, DependenciesOutlive
<1>7. CASE step < 25
  <2>1. phase' = "destroy" /\ step' = step + 1
    BY <1>1, <1>7, DestroyTable DEF DestroyStep
  <2>2. DependenciesOutlive'
    BY <1>4, <1>6, <2>1 DEF DependenciesOutlive
  <2> QED
    BY <1>1, <1>3, <1>7, <2>1, <2>2 DEF StartupInv
<1>8. CASE step = 25
  <2>1. phase' = "exited" /\ step' = 25
    BY <1>1, <1>8, DestroyTable DEF DestroyStep
  <2>2. have' \subseteq NeverRemoved \cup {"wallpaper_wbuf"}
    BY <1>1, <1>3, <1>8, ReleasedSometime
  <2>3. papers' = <<>> /\ outputs' = {}
    BY <1>5, <1>8
  <2>4. DependenciesOutlive'
    BY <1>4, <2>1, <2>3 DEF DependenciesOutlive
  <2> QED
    BY <1>1, <1>3, <2>1, <2>2, <2>3, <2>4 DEF StartupInv, Kept
<1> QED
  BY <1>1, <1>7, <1>8

(* Every step of the compositor keeps the invariant. *)
LEMMA StartupInvNext ==
    ASSUME StartupInv, Next
    PROVE  StartupInv'
<1>1. CASE CreateStep
  BY <1>1, CreateStepInv
<1>2. ASSUME NEW o \in Output, handle_new_output(o)
      PROVE  StartupInv'
  BY <1>2, NewOutputStep
<1>3. ASSUME NEW o \in Output, output_handle_destroy(o)
      PROVE  StartupInv'
  <2>1. DependenciesOutlive'
    BY <1>3 DEF output_handle_destroy, StartupInv, DependenciesOutlive
  <2> QED
    BY <1>3, <2>1 DEF output_handle_destroy, StartupInv
<1>4. CASE zen_compositor_run
  <2>1. /\ phase = "created" /\ phase' = "run" /\ UNCHANGED <<step, outputs, papers>>
        /\ have' = have \/ have' = have \cup {"socket"}
    BY <1>4 DEF zen_compositor_run
  <2>2. /\ "socket" \in Objects /\ "wl_display" \in Objects /\ MadeAt("wl_display") = 1
        /\ Needs("socket") = {"wl_display"}
    BY DEF Objects, MadeAt, Needs, zen_xdg_init, zen_input_init, zen_wallpaper_init,
           zen_keybinds_init, zen_layer_init, overlay, lock
  <2>3. have' \subseteq Objects /\ \A o \in have' : Needs(o) \subseteq have'
    BY <2>1, <2>2 DEF StartupInv, DependenciesOutlive
  <2>4. DependenciesOutlive'
    BY <2>1, <2>3 DEF StartupInv, DependenciesOutlive
  <2> QED
    BY <2>1, <2>3, <2>4 DEF StartupInv
<1>5. CASE LockToggle \/ ClientSurfaces \/ KeyboardHotplug
  <2>1. /\ phase = "run" /\ UNCHANGED <<phase, step, outputs, papers>>
        /\ \E objs \in Transient : have' = have \cup objs \/ have' = have \ objs
    BY <1>5 DEF LockToggle, ClientSurfaces, KeyboardHotplug, Transient, Without
  <2> QED
    BY <2>1, ToggleStep
<1>6. CASE LoopEnds
  BY <1>6, BeginDestroyStep DEF LoopEnds, StartupInv
<1>7. CASE DestroyStep
  BY <1>7, DestroyStepInv
<1>8. CASE UseAfterFree \/ ListenerAssertion
  <2>1. ProcessGone /\ phase' = "crashed" /\ step \in 1 .. 25
    BY <1>8 DEF UseAfterFree, ListenerAssertion, Dies, ProcessGone, StartupInv
  <2> QED
    BY <2>1, EmptyCompositor
<1> QED
  BY <1>1, <1>2, <1>3, <1>4, <1>5, <1>6, <1>7, <1>8 DEF Next

-----------------------------------------------------------------------------
(* Between zen-session and the compositor: the child is started from       *)
(* nothing, and has ended when zen-session goes on.                        *)
Blank == phase = "create" /\ step = 1 /\ have = {} /\ papers = <<>> /\ outputs = {}

ChildInv ==
    /\ at \in {"username", "password", "pam_start", "pam_prompt", "exited"} \cup Run
    /\ at \notin {"wait", "terminate", "destroy", "exited"} => Blank
    /\ at \in {"terminate", "destroy", "exited"} => Blank \/ Ended
    /\ at = "exited" /\ exitCode # 0 => have = {} /\ papers = <<>> /\ outputs = {}

(* A step without the compositor. *)
LEMMA AloneKeeps ==
    ASSUME StartupInv, Alone
    PROVE  StartupInv' /\ (Blank => Blank') /\ (Ended => Ended')
<1>1. DependenciesOutlive'
  BY DEF Alone, StartupInv, DependenciesOutlive
<1>2. Kept => Kept'
  BY DEF Alone, Kept
<1> QED
  BY <1>1, <1>2 DEF Alone, StartupInv, Blank, Ended

(* So does every step of zen-session. *)
LEMMA ChildInvNext ==
    ASSUME StartupInv, ChildInv, [SessionNext]_allVars
    PROVE  StartupInv' /\ ChildInv'
<1> USE DEF ChildInv, Run
<1>1. CASE ReadUsername \/ ReadPassword \/ pam_start \/ pam_authenticate
  <2>1. /\ Alone /\ Blank
        /\ at' \in {"username", "password", "pam_start", "pam_prompt", "bus", "exited"}
    BY <1>1 DEF ReadUsername, ReadPassword, pam_start, pam_authenticate, FailedAttempt, Again
  <2> QED
    BY <2>1, AloneKeeps DEF Blank
<1>2. CASE sd_bus_open_system \/ CreateSession
  BY <1>2, AloneKeeps DEF sd_bus_open_system, CreateSession
<1>3. CASE ForkCompositor
  <2>1. Blank /\ UNCHANGED <<step, have, outputs, papers>> /\ at' \in {"wait", "destroy"}
    BY <1>3 DEF ForkCompositor
  <2>2. CASE phase' = "exited"
    <3>1. ProcessGone /\ step \in 1 .. 25
      BY <1>3, <2>1 DEF ForkCompositor, ProcessGone, Blank, StartupInv
    <3> QED
      BY <2>1, <2>2, <3>1, EmptyCompositor DEF Ended
  <2>3. CASE phase' = phase
    <3>1. Alone
      BY <1>3, <2>1, <2>3 DEF Alone, ForkCompositor
    <3> QED
      BY <2>1, <3>1, AloneKeeps
  <2> QED
    BY <1>3, <2>2, <2>3 DEF ForkCompositor
<1>4. CASE waitpid
  BY <1>4, AloneKeeps DEF waitpid
<1>5. CASE TerminateSession \/ zen_session_destroy
  BY <1>5, AloneKeeps DEF TerminateSession, zen_session_destroy
<1>6. CASE Restart
  <2>1. Blank' /\ at' = FirstStep
    BY <1>6 DEF Restart, Blank
  <2>2. StartupInv'
    BY <2>1, BlankInv DEF Blank
  <2> QED
    BY <2>1, <2>2 DEF FirstStep
<1>7. CASE CompositorStep
  BY <1>7, StartupInvNext DEF CompositorStep, sessionVars
<1>8. CASE CompositorKilled
  <2>1. ProcessGone /\ phase' = "crashed" /\ step \in 1 .. 25 /\ at' = "wait"
    BY <1>8 DEF CompositorKilled, StartupInv
  <2> QED
    BY <2>1, EmptyCompositor
<1>9. CASE SessionKilled
  <2>1. /\ ProcessGone /\ at' = "exited" /\ step \in 1 .. 25
        /\ phase' \in {"exited", "crashed"} \/ (phase' = "create" /\ step' = 1)
    BY <1>9 DEF SessionKilled, StartupInv, Blank, Ended, ProcessGone
  <2>2. StartupInv'
    BY <2>1, EmptyCompositor
  <2> QED
    BY <2>1, <2>2 DEF ProcessGone, Blank, Ended
<1>10. CASE UNCHANGED allVars
  BY <1>10, AloneKeeps DEF allVars, vars, sessionVars, Alone
<1> QED
  BY <1>1, <1>2, <1>3, <1>4, <1>5, <1>6, <1>7, <1>8, <1>9, <1>10 DEF SessionNext, Proceed

(* At first there is no compositor. *)
LEMMA ChildInvInit == SessionInit => StartupInv /\ ChildInv
<1> SUFFICES ASSUME SessionInit PROVE StartupInv /\ ChildInv
  OBVIOUS
<1>1. Blank /\ at \in {"username", "bus"}
  BY DEF SessionInit, Init, Blank, FirstStep
<1>2. DependenciesOutlive
  BY <1>1 DEF Blank, DependenciesOutlive
<1> QED
  BY <1>1, <1>2, MadeSometime DEF Blank, StartupInv, ChildInv, Run

(* Wherever zen_compositor_create fails and whatever comes and goes, no    *)
(* object outlives what it needs, but for the listeners for new outputs,   *)
(* layer surfaces and locks and those of windows that are open at the end, *)
(* and those in the destruction only (main.c:480, xdg.c:132).              *)
THEOREM DependenciesHeld == SessionSpec => []DependenciesOutlive
<1>1. StartupInv => DependenciesOutlive
  BY DEF StartupInv
<1> QED
  BY <1>1, ChildInvInit, ChildInvNext, PTL DEF SessionSpec

(* However far the creation came, a zen_compositor_destroy that comes to   *)
(* its end has released everything but three listeners and the buffers of  *)
(* wallpapers (compositor.h:137).                                          *)
THEOREM ReleasedAtExit == SessionSpec => []AllReleased
<1>1. StartupInv => AllReleased
  BY DEF StartupInv, AllReleased, Kept
<1> QED
  BY <1>1, ChildInvInit, ChildInvNext, PTL DEF SessionSpec

(* The boot signal is sent only by a compositor whose creation succeeded   *)
(* (main.c:225); it may lack the socket.                                   *)
THEOREM BootSignalTrue == SessionSpec => []BootSignalIsTrue
<1>1. \A o \in Mandatory : o \in Objects /\ MadeAt(o) <= 19
  BY DEF Mandatory, Objects, MadeAt, zen_xdg_init, zen_input_init, zen_wallpaper_init,
         zen_keybinds_init, zen_layer_init
<1>2. StartupInv => BootSignalIsTrue
  BY <1>1 DEF StartupInv, BootSignalIsTrue
<1> QED
  BY <1>2, ChildInvInit, ChildInvNext, PTL DEF SessionSpec

-----------------------------------------------------------------------------
(* The objects, by name. *)
LEMMA ObjectIs == Object = Objects
<1>1. Object \subseteq Objects
  <2>1. ASSUME NEW o \in UNION {Creates(s) : s \in ToSet(Steps)}
        PROVE  o \in Objects
    BY <2>1, CreatesObjects
  <2>2. /\ ToSet(overlay) \cup ToSet(lock) \cup {"lock_signal_slot", "socket", "wallpaper_wbuf"}
             \subseteq Objects
        /\ handle_new_xdg_toplevel \cup handle_new_layer_surface \cup handle_new_input
             \subseteq Objects
    BY BufferParts
    DEF Objects, handle_new_xdg_toplevel, handle_new_layer_surface, handle_new_input
  <2> QED
    BY <2>1, <2>2 DEF Object
<1>2. \A s \in ToSet(Steps) : Creates(s) \subseteq Object
  BY DEF Object
<1>3. \A o \in Objects :
        \/ \E s \in ToSet(Steps) : o \in Creates(s)
        \/ o \in handle_new_xdg_toplevel \cup handle_new_layer_surface \cup handle_new_input
        \/ o \in ToSet(overlay) \cup ToSet(lock) \cup {"lock_signal_slot", "socket", "wallpaper_wbuf"}
  BY BufferParts, StepNames
  DEF Objects, Creates, zen_xdg_init, zen_input_init, zen_wallpaper_init, zen_keybinds_init,
      zen_layer_init, zen_dbus_init, zen_lock_init, handle_new_xdg_toplevel,
      handle_new_layer_surface, handle_new_input
<1>4. \A o \in Objects : o \in Object
  BY <1>2, <1>3 DEF Object
<1> QED
  BY <1>1, <1>4

(* The rest of the types: a wallpaper for each announcement at most.       *)
OutputTypes ==
    /\ outputs \subseteq Output
    /\ papers \in Seq(Output) /\ Len(papers) <= hotplugs
    /\ bootSignal \in {"none", "ok"}
    /\ hotplugs \in 0 .. MaxHotplugs
    /\ failures \in 0 .. MaxFailures

(* An attempt that is under way is one of those granted. *)
LoginTypes ==
    /\ attempt \in 0 .. MaxAttempts
    /\ at \in {"username", "password", "pam_start", "pam_prompt"} => attempt < MaxAttempts
    /\ session_id \in {"", "stub", "real"}
    /\ mishaps \subseteq {"fork", "reply", "loginctl", "killed", "signal"}
    /\ exitCode \in {0, 1, 128}
    /\ restarts \in 0 .. MaxRestarts

(* And its flags. *)
FlagTypes ==
    /\ echo \in BOOLEAN /\ old_term \in BOOLEAN /\ pamh \in BOOLEAN /\ admitted \in BOOLEAN
    /\ s_bus \in BOOLEAN /\ logind \in BOOLEAN

(* One more than a number below a bound. *)
LEMMA BelowBound == \A m \in Nat : \A n \in 0 .. m : n < m => n + 1 \in 0 .. m
OBVIOUS

(* A failure is counted only below the bound. *)
LEMMA FailureCounted ==
    ASSUME failures \in 0 .. MaxFailures, MayFail
    PROVE  failures' \in 0 .. MaxFailures
BY BoundsAssumption DEF MayFail

(* The compositor keeps the types of the outputs. *)
LEMMA OutputTypesNext ==
    ASSUME OutputTypes, Next
    PROVE  OutputTypes'
<1>0. failures' = failures \/ MayFail => failures' \in 0 .. MaxFailures
  BY FailureCounted DEF OutputTypes
<1>1. CASE CreateStep
  <2>1. failures' = failures \/ MayFail
    BY <1>1 DEF CreateStep
  <2> QED
    BY <1>0, <1>1, <2>1 DEF CreateStep, OutputTypes
<1>2. ASSUME NEW o \in Output, handle_new_output(o)
      PROVE  OutputTypes'
  <2>1. \A p \in Seq(Output) : <<o>> \o p \in Seq(Output) /\ Len(<<o>> \o p) = Len(p) + 1
    OBVIOUS
  <2>2. /\ papers' \in {papers, <<o>> \o papers} /\ outputs' \in {outputs, outputs \cup {o}}
        /\ hotplugs < MaxHotplugs /\ hotplugs' = hotplugs + 1 /\ bootSignal' = bootSignal
        /\ failures' = failures \/ MayFail
    BY <1>2 DEF handle_new_output, PapersAfter
  <2>3. papers' \in Seq(Output) /\ Len(papers') <= Len(papers) + 1 /\ Len(papers) \in Nat
    <3>1. papers \in Seq(Output)
      BY DEF OutputTypes
    <3>2. <<o>> \o papers \in Seq(Output) /\ Len(<<o>> \o papers) = Len(papers) + 1
      BY <2>1, <3>1
    <3>3. Len(papers) \in Nat
      BY <3>1
    <3>4. CASE papers' = papers
      BY <3>1, <3>3, <3>4
    <3>5. CASE papers' = <<o>> \o papers
      <4>1. papers' \in Seq(Output) /\ Len(papers') = Len(papers) + 1
        BY <3>2, <3>5, Zenon
      <4> QED
        BY <3>3, <4>1
    <3> QED
      BY <2>2, <3>4, <3>5
  <2> QED
    BY <1>0, <2>2, <2>3, BoundsAssumption DEF OutputTypes
<1>3. ASSUME NEW o \in Output, output_handle_destroy(o)
      PROVE  OutputTypes'
  BY <1>3 DEF output_handle_destroy, OutputTypes
<1>4. CASE zen_compositor_run
  <2>1. failures' = failures \/ MayFail
    BY <1>4 DEF zen_compositor_run
  <2> QED
    BY <1>0, <1>4, <2>1 DEF zen_compositor_run, OutputTypes
<1>5. CASE LockToggle \/ ClientSurfaces \/ KeyboardHotplug \/ LoopEnds
  BY <1>5 DEF LockToggle, ClientSurfaces, KeyboardHotplug, LoopEnds, OutputTypes
<1>6. CASE DestroyStep \/ UseAfterFree \/ ListenerAssertion
  <2>1. /\ papers' \in {papers, <<>>} /\ outputs' \in {outputs, {}}
        /\ UNCHANGED <<bootSignal, hotplugs, failures>>
    BY <1>6 DEF DestroyStep, UseAfterFree, ListenerAssertion, Dies
  <2>2. <<>> \in Seq(Output) /\ Len(<<>>) = 0
    BY EmptySeq
  <2>3. papers' \in Seq(Output) /\ outputs' \subseteq Output
    BY <2>1, <2>2 DEF OutputTypes
  <2>4. Len(papers') <= hotplugs'
    <3>1. CASE papers' = papers
      BY <2>1, <3>1 DEF OutputTypes
    <3>2. CASE papers' = <<>>
      BY <2>1, <2>2, <3>2 DEF OutputTypes
    <3> QED
      BY <2>1, <3>1, <3>2
  <2> QED
    BY <2>1, <2>3, <2>4 DEF OutputTypes
<1> QED
  BY <1>1, <1>2, <1>3, <1>4, <1>5, <1>6 DEF Next

(* So does zen-session. *)
LEMMA SessionOutputTypes ==
    ASSUME OutputTypes, [SessionNext]_allVars
    PROVE  OutputTypes'
<1>1. CASE CompositorStep
  BY <1>1, OutputTypesNext DEF CompositorStep
<1>2. ASSUME failures' = failures \/ MayFail, UNCHANGED <<outputs, papers, hotplugs>>,
             bootSignal' \in {bootSignal, "none"}
      PROVE  OutputTypes'
  BY <1>2, FailureCounted DEF OutputTypes
<1>3. CASE ReadUsername \/ ReadPassword \/ pam_start \/ pam_authenticate
  BY <1>2, <1>3 DEF ReadUsername, ReadPassword, pam_start, pam_authenticate, Alone
<1>4. CASE sd_bus_open_system \/ CreateSession \/ ForkCompositor
  BY <1>2, <1>4 DEF sd_bus_open_system, CreateSession, ForkCompositor, Alone
<1>5. CASE waitpid \/ TerminateSession \/ zen_session_destroy \/ Restart
  BY <1>2, <1>5 DEF waitpid, TerminateSession, zen_session_destroy, Restart, Alone
<1>6. CASE CompositorKilled \/ SessionKilled
  <2>1. MayFail /\ ProcessGone
    BY <1>6 DEF CompositorKilled, SessionKilled
  <2>2. <<>> \in Seq(Output) /\ Len(<<>>) = 0
    BY EmptySeq
  <2> QED
    BY <2>1, <2>2, FailureCounted DEF ProcessGone, OutputTypes
<1>7. CASE UNCHANGED allVars
  BY <1>2, <1>7 DEF allVars, vars
<1> QED
  BY <1>1, <1>3, <1>4, <1>5, <1>6, <1>7 DEF SessionNext, Proceed

(* No attempt is made that is not granted. *)
LEMMA LoginTypesNext ==
    ASSUME LoginTypes, [SessionNext]_allVars
    PROVE  LoginTypes'
<1>0. /\ 0 \in 0 .. MaxAttempts /\ 0 < MaxAttempts
      /\ MaxAttempts \in Nat \ {0} /\ MaxRestarts \in Nat
  BY SessionAssumption
<1>1. ASSUME FailedAttempt, attempt \in 0 .. MaxAttempts, attempt < MaxAttempts
      PROVE  /\ attempt' \in 0 .. MaxAttempts /\ exitCode' \in {exitCode, 1}
             /\ at' \in {"username", "exited"} /\ (at' = "username" => attempt' < MaxAttempts)
  BY <1>0, <1>1 DEF FailedAttempt, Again
<1> USE DEF LoginTypes
<1>2. CASE ReadUsername
  BY <1>1, <1>2 DEF ReadUsername, HideTyping
<1>3. CASE ReadPassword
  BY <1>3 DEF ReadPassword
<1>4. CASE pam_start
  BY <1>1, <1>4 DEF pam_start, HideTyping
<1>5. CASE pam_authenticate
  <2>1. CASE FailedAttempt
    BY <1>1, <1>5, <2>1 DEF pam_authenticate
  <2>2. CASE at' = "bus" /\ attempt' = 0 /\ UNCHANGED exitCode
    <3>1. UNCHANGED <<session_id, mishaps, restarts>>
      BY <1>5 DEF pam_authenticate
    <3> QED
      BY <1>0, <2>2, <3>1
  <2> QED
    BY <1>5, <2>1, <2>2 DEF pam_authenticate
<1>6. CASE sd_bus_open_system
  BY <1>6 DEF sd_bus_open_system, login
<1>7. CASE CreateSession
  BY <1>7 DEF CreateSession, login
<1>8. CASE ForkCompositor
  BY <1>8 DEF ForkCompositor, login
<1>9. CASE waitpid \/ zen_session_destroy
  BY <1>9 DEF waitpid, zen_session_destroy, login
<1>10. CASE TerminateSession
  BY <1>10 DEF TerminateSession, login
<1>11. CASE Restart
  <2>1. /\ attempt' = 0 /\ exitCode' = 0 /\ UNCHANGED <<session_id, mishaps>>
        /\ restarts < MaxRestarts /\ restarts' = restarts + 1
    BY <1>11, Zenon DEF Restart
  <2>2. restarts' \in 0 .. MaxRestarts
    BY <1>0, <2>1, BelowBound
  <2> QED
    BY <1>0, <2>1, <2>2
<1>12. CASE CompositorStep
  BY <1>12 DEF CompositorStep, sessionVars, login
<1>13. CASE CompositorKilled
  BY <1>13 DEF CompositorKilled, login
<1>14. CASE SessionKilled
  BY <1>14 DEF SessionKilled
<1>15. CASE UNCHANGED allVars
  BY <1>15 DEF allVars, sessionVars, login
<1> QED
  BY <1>2, <1>3, <1>4, <1>5, <1>6, <1>7, <1>8, <1>9, <1>10, <1>11, <1>12, <1>13, <1>14, <1>15
  DEF SessionNext, Proceed

(* The flags of zen-session are flags. *)
LEMMA FlagTypesNext ==
    ASSUME FlagTypes, [SessionNext]_allVars
    PROVE  FlagTypes'
<1>0. MaxAttempts \in Nat \ {0} /\ HavePam \in BOOLEAN /\ MaxRestarts \in Nat
  BY SessionAssumption
<1> USE DEF FlagTypes
<1>2. CASE ReadUsername
  BY Zenon, <1>2 DEF ReadUsername, HideTyping
<1>3. CASE ReadPassword
  BY Zenon, <1>3 DEF ReadPassword
<1>4. CASE pam_start
  BY Zenon, <1>4 DEF pam_start, HideTyping
<1>5. CASE pam_authenticate
  BY Zenon, <1>0, <1>5 DEF pam_authenticate, pam_conv_fn
<1>6. CASE sd_bus_open_system
  BY Zenon, <1>6 DEF sd_bus_open_system, login
<1>7. CASE CreateSession
  BY Zenon, <1>7 DEF CreateSession, login
<1>8. CASE ForkCompositor
  BY Zenon, <1>8 DEF ForkCompositor, login
<1>9. CASE waitpid \/ zen_session_destroy
  BY Zenon, <1>9 DEF waitpid, zen_session_destroy, login
<1>10. CASE TerminateSession
  BY Zenon, <1>10 DEF TerminateSession, login
<1>11. CASE Restart
  BY Zenon, <1>0, <1>11 DEF Restart, FirstStep
<1>12. CASE CompositorStep
  BY Zenon, <1>12 DEF CompositorStep, sessionVars, login
<1>13. CASE CompositorKilled
  BY Zenon, <1>13 DEF CompositorKilled, login
<1>14. CASE SessionKilled
  BY Zenon, <1>14 DEF SessionKilled
<1>15. CASE UNCHANGED allVars
  BY Zenon, <1>15 DEF allVars, sessionVars, login
<1> QED
  BY Zenon, <1>2, <1>3, <1>4, <1>5, <1>6, <1>7, <1>8, <1>9, <1>10, <1>11, <1>12, <1>13, <1>14, <1>15
  DEF SessionNext, Proceed

(* session.c and main.c keep every variable within its type: never more    *)
(* attempts than are granted, never more wallpapers than announcements.    *)
THEOREM SessionTypeCorrect == SessionSpec => []SessionTypeOK
<1> DEFINE Inv == StartupInv /\ ChildInv /\ OutputTypes /\ LoginTypes /\ FlagTypes
<1>1. SessionInit => Inv
  <2>1. SessionInit => OutputTypes
    <3>1. 0 \in 0 .. MaxHotplugs /\ 0 \in 0 .. MaxFailures
      BY BoundsAssumption
    <3>2. <<>> \in Seq(Output) /\ Len(<<>>) = 0
      BY EmptySeq
    <3>3. SessionInit => papers = <<>> /\ outputs = {} /\ hotplugs = 0 /\ failures = 0
                         /\ bootSignal = "none"
      BY DEF SessionInit, Init
    <3> QED
      BY <3>1, <3>2, <3>3 DEF OutputTypes
  <2>2. SessionInit => LoginTypes
    <3>1. 0 \in 0 .. MaxAttempts /\ 0 < MaxAttempts /\ 0 \in 0 .. MaxRestarts
      BY SessionAssumption
    <3> QED
      BY <3>1 DEF SessionInit, LoginTypes
  <2>3. SessionInit => FlagTypes
    BY SessionAssumption DEF SessionInit, FlagTypes
  <2> QED
    BY <2>1, <2>2, <2>3, ChildInvInit
<1>2. Inv /\ [SessionNext]_allVars => Inv'
  BY ChildInvNext, SessionOutputTypes, LoginTypesNext, FlagTypesNext
<1>3. Inv => SessionTypeOK
  <2> SUFFICES ASSUME Inv PROVE SessionTypeOK
    OBVIOUS
  <2>1. TypeOK
    BY ObjectIs, DestroyTable DEF StartupInv, OutputTypes, TypeOK
  <2> QED
    BY <2>1 DEF ChildInv, LoginTypes, FlagTypes, SessionTypeOK
<1> QED
  BY <1>1, <1>2, <1>3, PTL DEF SessionSpec
=============================================================================
