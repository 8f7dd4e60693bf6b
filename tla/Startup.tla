------------------------------ MODULE Startup ------------------------------
(***************************************************************************)
(* The life of the compositor process, src/compositor/src/main.c: the      *)
(* steps of zen_compositor_create, each of which may fail, the outputs and *)
(* keyboards that the backend announces, the windows and panels of the     *)
(* clients, the boot signal, and zen_compositor_destroy, which is called   *)
(* half way through a failed creation as well as at the end.               *)
(*                                                                         *)
(* An object is known by the field that holds it.  Which objects a step    *)
(* creates, what a failing step leaves behind and what a step of the       *)
(* destruction releases are tables, so that their order can be read.       *)
(*                                                                         *)
(* Definitions named Fault... are plausible mistakes in the definition     *)
(* that follows them; no specification uses them.                          *)
(***************************************************************************)
EXTENDS Naturals, Sequences, SequencesExt

CONSTANTS Output,       \* identities of struct wlr_output
          MaxHotplugs,  \* how many times an output may be announced
          MaxFailures   \* how many operations may fail

ASSUME BoundsAssumption == MaxHotplugs \in Nat /\ MaxFailures \in Nat

VARIABLES
    phase,      \* where main() is
    step,       \* the step of zen_compositor_create or zen_compositor_destroy
    have,       \* the objects that exist
    outputs,    \* the outputs that have a ZenOutput
    papers,     \* g_wallpaper_state->outputs: a wallpaper for each entry
    bootSignal, \* what the serial port has seen of the boot signal
    hotplugs, failures

vars == <<phase, step, have, outputs, papers, bootSignal, hotplugs, failures>>

-----------------------------------------------------------------------------
(* The tables.                                                             *)

(* zen_compositor_create, in the order of the code. *)
Steps == << "wl_display", "backend", "renderer", "wlr_comp", "allocator", "scene",
            "output_layout", "scene_layout", "new_output", "wlr_backend_start",
            "zen_xdg_init", "zen_input_init", "shell_overlay_tree", "zen_wallpaper_init",
            "zen_keybinds_init", "zen_layer_init", "zen_dbus_init", "zen_lock_init",
            "zen_shell_init" >>

(* What the modules create when they are initialised, in module order.     *)
zen_xdg_init       == {"xdg_shell", "new_xdg_toplevel"}
zen_input_init     == {"seat", "cursor", "cursor_listeners", "xcursor_mgr", "new_input"}
zen_wallpaper_init == {"wallpaper_state", "wallpaper_tree"}
zen_keybinds_init  == {"keybindings"}
zen_layer_init     == {"layer_shell", "new_layer_surface"}
zen_dbus_init      == {"bus", "dbus_slot", "dbus_event_source"}
zen_lock_init      == {"lock_mgr", "new_lock", "idle_timer"} \cup
                      (IF "bus" \in have THEN {"lock_signal_slot"} ELSE {})

(* The parts of a ZenCairoBuffer, in the order in which                    *)
(* zen_cairo_buffer_create makes them; it undoes all when one fails.       *)
overlay == <<"overlay_surface", "overlay_cr", "overlay_pango", "overlay_wlr_buf",
             "overlay_scene_buffer">>
lock    == <<"lock_surface", "lock_cr", "lock_pango", "lock_wlr_buf", "lock_scene_buffer">>

(* What is made for a window, a panel or a keyboard: the object of         *)
(* wlroots, our struct and its listeners.                                  *)
handle_new_xdg_toplevel  == {"xdg_toplevel", "ZenToplevel", "toplevel_listeners"}
handle_new_layer_surface == {"layer_surface", "ZenLayerSurface", "layer_listeners"}
handle_new_input         == {"wlr_keyboard", "ZenKeyboard", "keyboard_listeners"}

(* What a step leaves behind when it succeeds. *)
Creates(s) ==
    CASE s = "wlr_backend_start"  -> {}
      [] s = "zen_xdg_init"       -> zen_xdg_init
      [] s = "zen_input_init"     -> zen_input_init
      [] s = "zen_wallpaper_init" -> zen_wallpaper_init
      [] s = "zen_keybinds_init"  -> zen_keybinds_init
      [] s = "zen_layer_init"     -> zen_layer_init
      [] s = "zen_dbus_init"      -> zen_dbus_init
      [] s = "zen_lock_init"      -> zen_lock_init
      [] s = "zen_shell_init"     -> {"shell"}
      [] OTHER                    -> {s}

(* What a step may leave behind when it fails, after cleaning up itself:   *)
(* the seat belongs to the display, and the shell is freed later.  Adding  *)
(* a listener does not fail.                                               *)
LeftBehind(s) ==
    CASE s = "new_output"     -> {}
      [] s = "zen_input_init" -> {{}, {"seat"}}
      [] s = "zen_shell_init" -> {{}, {"shell"}}
      [] OTHER                -> {{}}

(* Parts of a step whose failure is only logged. *)
Optional(s) == IF s = "zen_lock_init" THEN {"idle_timer", "lock_signal_slot"} ELSE {}

FaultInOrderOfCreation(buf) == buf

(* zen_cairo_buffer_destroy: the node lets go of the buffer before it is   *)
(* dropped, and the pixels go last.                                        *)
zen_cairo_buffer_destroy(buf) ==
    << buf[5], buf[4], buf[3], buf[2], buf[1] >>

(* zen_compositor_destroy, in the order of the code. *)
DestroySteps ==
    zen_cairo_buffer_destroy(overlay) \o << "shell", "idle_timer", "lock_signal_slot" >>
        \o zen_cairo_buffer_destroy(lock)
        \o << "zen_dbus_destroy", "zen_layer_destroy", "zen_keybinds_destroy",
              "zen_wallpaper_destroy", "zen_input_destroy", "zen_xdg_destroy",
              "wl_display_destroy_clients", "scene", "allocator", "renderer", "backend",
              "wl_display" >>

FaultThemeKept == {"ZenKeyboard", "keyboard_listeners", "cursor_listeners", "new_input",
                   "cursor"}

(* What the modules release when they are destroyed.  The seat, the layer  *)
(* shell and the lock manager belong to the display.  The windows are      *)
(* freed with their listeners linked; the listeners for new outputs, layer *)
(* surfaces and locks stay where they are, and the buffers of the          *)
(* wallpapers are not dropped.                                             *)
zen_input_destroy     == {"ZenKeyboard", "keyboard_listeners", "cursor_listeners", "new_input",
                          "xcursor_mgr", "cursor"}
zen_xdg_destroy       == {"ZenToplevel", "new_xdg_toplevel"}
zen_wallpaper_destroy == {"wallpaper_state"}
zen_keybinds_destroy  == {"keybindings"}
zen_layer_destroy     == {"ZenLayerSurface", "layer_listeners"}
zen_dbus_destroy      == {"dbus_event_source", "dbus_slot", "bus"}

(* What a step of the destruction releases.  The scene takes its trees     *)
(* along, the display its globals and its socket.                          *)
Releases(s) ==
    CASE s = "zen_dbus_destroy"      -> zen_dbus_destroy
      [] s = "zen_layer_destroy"     -> zen_layer_destroy
      [] s = "zen_keybinds_destroy"  -> zen_keybinds_destroy
      [] s = "zen_wallpaper_destroy" -> zen_wallpaper_destroy
      [] s = "zen_input_destroy"     -> zen_input_destroy
      [] s = "zen_xdg_destroy"       -> zen_xdg_destroy
      [] s = "wl_display_destroy_clients" ->
             {"xdg_toplevel", "toplevel_listeners", "layer_surface"}
      [] s = "scene"      -> {"scene", "scene_layout", "shell_overlay_tree", "wallpaper_tree"}
      [] s = "backend"    -> {"backend", "wlr_keyboard"}
      [] s = "wl_display" -> {"wl_display", "wlr_comp", "output_layout", "xdg_shell", "seat",
                              "layer_shell", "lock_mgr", "socket"}
      [] OTHER            -> {s}

(* What an object needs for as long as it exists: the signal a listener is *)
(* linked into, the parent of a scene node, the loop or bus that calls     *)
(* back.                                                                   *)
Needs(o) ==
    CASE o \in {"backend", "output_layout", "wlr_comp", "xdg_shell", "seat", "layer_shell",
                "lock_mgr", "idle_timer", "socket"} -> {"wl_display"}
      [] o = "renderer"           -> {"backend"}
      [] o = "allocator"          -> {"backend", "renderer"}
      [] o = "scene_layout"       -> {"scene", "output_layout"}
      [] o \in {"shell_overlay_tree", "wallpaper_tree"} -> {"scene"}
      [] o \in {overlay[2], overlay[4]} -> {overlay[1]}
      [] o = overlay[3]           -> {overlay[2]}
      [] o = overlay[5]           -> {overlay[4], "shell_overlay_tree"}
      [] o \in {lock[2], lock[4]} -> {lock[1]}
      [] o = lock[3]              -> {lock[2]}
      [] o = lock[5]              -> {lock[4], "shell_overlay_tree"}
      [] o = "xdg_toplevel"       -> {"xdg_shell"}
      [] o = "toplevel_listeners" -> {"ZenToplevel", "xdg_toplevel"}
      [] o = "layer_surface"      -> {"layer_shell"}
      [] o = "layer_listeners"    -> {"ZenLayerSurface", "layer_surface"}
      [] o = "wlr_keyboard"       -> {"backend"}
      [] o = "keyboard_listeners" -> {"ZenKeyboard", "wlr_keyboard"}
      [] o = "cursor"             -> {"output_layout"}
      [] o = "cursor_listeners"   -> {"cursor", "seat"}
      [] o \in {"new_input", "new_output"} -> {"backend"}
      [] o = "new_xdg_toplevel"   -> {"xdg_shell"}
      [] o = "new_layer_surface"  -> {"layer_shell"}
      [] o = "new_lock"           -> {"lock_mgr"}
      [] o \in {"dbus_slot", "lock_signal_slot"} -> {"bus"}
      [] o = "dbus_event_source"  -> {"bus", "wl_display"}
      [] OTHER                    -> {}

Object == (UNION {Creates(s) : s \in ToSet(Steps)})
            \cup handle_new_xdg_toplevel \cup handle_new_layer_surface \cup handle_new_input
            \cup ToSet(overlay) \cup ToSet(lock)
            \cup {"lock_signal_slot", "socket", "wallpaper_wbuf"}

TypeOK ==
    /\ phase \in {"create", "created", "run", "destroy", "exited", "crashed"}
    /\ step \in 1 .. Len(DestroySteps)
    /\ have \subseteq Object
    /\ outputs \subseteq Output
    /\ papers \in Seq(Output) /\ Len(papers) <= hotplugs
    /\ bootSignal \in {"none", "ok"}
    /\ hotplugs \in 0 .. MaxHotplugs
    /\ failures \in 0 .. MaxFailures

Init ==
    /\ phase = "create" /\ step = 1
    /\ have = {} /\ outputs = {} /\ papers = <<>>
    /\ bootSignal = "none"
    /\ hotplugs = 0 /\ failures = 0

-----------------------------------------------------------------------------
(* zen_compositor_create.                                                  *)

MayFail == failures < MaxFailures /\ failures' = failures + 1

NextStep ==
    IF step < Len(Steps) THEN step' = step + 1 /\ UNCHANGED phase
    ELSE phase' = "created" /\ UNCHANGED step

BeginDestroy == phase' = "destroy" /\ step' = 1

FaultWaitsForOutput ==
    /\ phase = "create"
    /\ Steps[step] = "wlr_backend_start" => outputs # {}
    /\ have' = have \cup Creates(Steps[step]) /\ NextStep
    /\ UNCHANGED <<outputs, papers, bootSignal, hotplugs, failures>>

(* One step, with the three ways in which it may end; the bus is optional. *)
CreateStep ==
    LET s == Steps[step] IN
    /\ phase = "create"
    /\ \/ have' = have \cup Creates(s) /\ NextStep /\ UNCHANGED failures
       \/ \E lost \in SUBSET Optional(s) \ {{}} :
              have' = have \cup (Creates(s) \ lost) /\ NextStep /\ MayFail
       \/ \E left \in LeftBehind(s) :
              /\ have' = have \cup left
              /\ MayFail
              /\ IF s = "zen_dbus_init" THEN NextStep ELSE BeginDestroy
    /\ UNCHANGED <<outputs, papers, bootSignal, hotplugs>>

-----------------------------------------------------------------------------
(* Outputs, which the backend announces while it starts or later.          *)

Announcing == phase = "run" \/ (phase = "create" /\ Steps[step] = "wlr_backend_start")

(* zen_wallpaper_render_output, if there is a wallpaper tree. *)
PapersAfter(o) ==
    IF {"wallpaper_tree", "wallpaper_state"} \subseteq have THEN <<o>> \o papers ELSE papers

(* The overlay with the name of the system, on the first output that finds *)
(* the overlay tree.                                                       *)
OverlayAfter == IF "shell_overlay_tree" \in have THEN ToSet(overlay) ELSE {}

(* The buffer of a wallpaper; only its node and its pixels are released.   *)
BufferOf(ps) == IF ps = papers THEN {} ELSE {"wallpaper_wbuf"}

(* handle_new_output; an allocation that fails, or an output without a     *)
(* size, costs the wallpaper, the overlay or all of it.                    *)
handle_new_output(o) ==
    /\ Announcing
    /\ o \notin outputs
    /\ hotplugs < MaxHotplugs /\ hotplugs' = hotplugs + 1
    /\ \/ /\ outputs' = outputs \cup {o}
          /\ papers' = PapersAfter(o)
          /\ have' = have \cup OverlayAfter \cup BufferOf(papers')
          /\ UNCHANGED failures
       \/ /\ MayFail
          /\ \/ UNCHANGED <<outputs, papers, have>>
             \/ outputs' = outputs \cup {o} /\ papers' \in {papers, PapersAfter(o)}
                 /\ \E o2 \in {{}, OverlayAfter} : have' = have \cup o2 \cup BufferOf(papers')
    /\ UNCHANGED <<phase, step, bootSignal>>

(* output_handle_destroy; the wallpaper of the output stays. *)
output_handle_destroy(o) ==
    /\ phase = "run"
    /\ o \in outputs
    /\ outputs' = outputs \ {o}
    /\ UNCHANGED <<phase, step, have, papers, bootSignal, hotplugs, failures>>

-----------------------------------------------------------------------------
FaultReturnIgnored ==
    /\ phase \in {"created", "exited"} /\ bootSignal = "none"
    /\ phase' = "run"
    /\ bootSignal' = "ok"
    /\ UNCHANGED <<step, have, outputs, papers, hotplugs, failures>>

(* zen_compositor_run: the socket, then the boot signal, then the loop,    *)
(* without a socket or a serial port if need be.                           *)
zen_compositor_run ==
    /\ phase = "created"
    /\ phase' = "run"
    /\ \E socket, serial \in BOOLEAN :
          /\ have' = IF socket THEN have \cup {"socket"} ELSE have
          /\ bootSignal' = IF serial THEN "ok" ELSE bootSignal
          /\ IF socket /\ serial THEN UNCHANGED failures ELSE MayFail
    /\ UNCHANGED <<step, outputs, papers, hotplugs>>

(* The screen is locked and unlocked while the loop runs. *)
LockToggle ==
    /\ phase = "run"
    /\ have' = IF ToSet(lock) \subseteq have THEN have \ ToSet(lock) ELSE have \cup ToSet(lock)
    /\ UNCHANGED <<phase, step, outputs, papers, bootSignal, hotplugs, failures>>

(* handle_toplevel_destroy, handle_layer_surface_destroy and               *)
(* handle_keyboard_destroy: the listeners are removed before the struct    *)
(* is freed.                                                               *)
Without(objs) == have \ objs

(* A client opens or closes its windows or panels, through the socket. *)
ClientSurfaces ==
    /\ phase = "run" /\ "socket" \in have
    /\ \E objs \in {handle_new_xdg_toplevel, handle_new_layer_surface} :
          have' = IF objs \subseteq have THEN Without(objs) ELSE have \cup objs
    /\ UNCHANGED <<phase, step, outputs, papers, bootSignal, hotplugs, failures>>

(* A keyboard is plugged in, once there is a listener for it, or removed. *)
KeyboardHotplug ==
    /\ phase = "run"
    /\ have' = IF handle_new_input \subseteq have THEN Without(handle_new_input)
               ELSE have \cup handle_new_input
    /\ UNCHANGED <<phase, step, outputs, papers, bootSignal, hotplugs, failures>>

(* wl_display_run returns when the display is terminated. *)
LoopEnds ==
    /\ phase = "run"
    /\ BeginDestroy
    /\ UNCHANGED <<have, outputs, papers, bootSignal, hotplugs, failures>>

(* zen_compositor_destroy: every step releases what there is of its        *)
(* objects; the backend takes the outputs along.                           *)
DestroyStep ==
    LET s == DestroySteps[step] IN
    /\ phase = "destroy"
    /\ have' = have \ Releases(s)
    /\ papers' = IF s = "zen_wallpaper_destroy" THEN <<>> ELSE papers
    /\ outputs' = IF s = "backend" THEN {} ELSE outputs
    /\ IF step < Len(DestroySteps) THEN step' = step + 1 /\ UNCHANGED phase
       ELSE phase' = "exited" /\ UNCHANGED step
    /\ UNCHANGED <<bootSignal, hotplugs, failures>>

(* The process dies in zen_compositor_destroy. *)
Dies ==
    /\ phase' = "crashed"
    /\ have' = {} /\ papers' = <<>> /\ outputs' = {}
    /\ UNCHANGED <<step, bootSignal, hotplugs, failures>>

(* The clients' windows go when their listeners are in freed memory: the    *)
(* destruction may go on, or the process dies of it.                       *)
UseAfterFree ==
    /\ phase = "destroy" /\ DestroySteps[step] = "wl_display_destroy_clients"
    /\ "toplevel_listeners" \in have /\ "ZenToplevel" \notin have
    /\ Dies

(* wlr_backend_destroy, and the globals when wl_display_destroy tells them *)
(* to go, assert that nobody listens to them any more (wlroots 0.19); a    *)
(* build without assertions goes on.                                       *)
ListenerAssertion ==
    LET gone == Releases(DestroySteps[step]) IN
    /\ phase = "destroy" /\ DestroySteps[step] \in {"backend", "wl_display"}
    /\ \E o \in have \ gone : Needs(o) \cap gone # {}
    /\ Dies

Next ==
    \/ CreateStep
    \/ \E o \in Output : handle_new_output(o) \/ output_handle_destroy(o)
    \/ zen_compositor_run
    \/ LockToggle
    \/ ClientSurfaces
    \/ KeyboardHotplug
    \/ LoopEnds
    \/ DestroyStep
    \/ UseAfterFree
    \/ ListenerAssertion

(* main() goes on: nothing blocks outside the event loop. *)
Fairness == WF_vars(CreateStep) /\ WF_vars(zen_compositor_run) /\ WF_vars(DestroyStep)

Spec == Init /\ [][Next]_vars /\ Fairness

-----------------------------------------------------------------------------
(* Properties.                                                             *)

(* Listeners that nothing removes before the signal they are linked into   *)
(* is gone: those for new outputs, layer surfaces and locks (main.c:353,   *)
(* layer.c:60, lock.c:498), and those of windows that are open at the end, *)
(* which zen_xdg_destroy frees as they are (xdg.c:132).                    *)
NeverRemoved == {"new_output", "new_layer_surface", "new_lock"}
Forsaken     == NeverRemoved \cup {"toplevel_listeners"}

(* While the compositor is created and runs, wherever its creation has     *)
(* come to, each object has what it needs; and so has each object but the  *)
(* forsaken listeners at every point of the destruction, wherever the      *)
(* creation failed: no listener outlives its signal or its struct, no node *)
(* its scene, no timer its loop, no buffer its pixels ("Destroy core       *)
(* resources in reverse creation order", main.c:480).                      *)
DependenciesOutlive ==
    /\ \A o \in have : \/ Needs(o) \subseteq have
                       \/ o \in Forsaken /\ phase \in {"destroy", "exited"}
    /\ papers # <<>> => {"wallpaper_tree", "wallpaper_state"} \subseteq have
    /\ outputs # {} => "backend" \in have

(* Whichever step fails, everything is released by a destruction that      *)
(* comes to its end (compositor.h:137), all but the three listeners that   *)
(* nothing removes and the buffers of wallpapers, which nothing drops;     *)
(* NoneOutlives and WallpapersFreed are about those.                       *)
AllReleased ==
    phase = "exited" => /\ have \subseteq NeverRemoved \cup {"wallpaper_wbuf"}
                        /\ papers = <<>> /\ outputs = {}

(* Each object has what it needs, without exception ("Safe to call on a    *)
(* partially-initialized struct", compositor.h:148).                       *)
NoneOutlives == \A o \in have : Needs(o) \subseteq have

(* The buffers of wallpapers are gone in the end ("wbuf is freed by        *)
(* wallpaper_buf_destroy after scene node drops ref", wallpaper.c:471).    *)
WallpapersFreed == phase = "exited" => "wallpaper_wbuf" \notin have

(* The objects without which zen_compositor_create does not succeed.       *)
Mandatory == {"wl_display", "backend", "renderer", "wlr_comp", "allocator", "scene",
              "output_layout", "scene_layout", "new_output", "xdg_shell", "seat", "cursor",
              "shell_overlay_tree", "wallpaper_tree", "keybindings", "layer_shell",
              "new_layer_surface", "lock_mgr", "shell"}

(* The boot signal is sent only by a compositor whose creation succeeded,  *)
(* complete but for the bus, the idle timer and the socket ("This          *)
(* guarantees the signal only fires when the compositor is actually        *)
(* running and rendering", main.c:225); BootSignalMeansReady is about the  *)
(* socket.                                                                 *)
BootSignalIsTrue == bootSignal # "none" /\ phase = "run" => Mandatory \subseteq have

(* The boot signal says that clients can connect ("Emit boot signal AFTER  *)
(* the socket exists.  This tells zen-test that the compositor is ready    *)
(* for clients", main.c:448).                                              *)
BootSignalMeansReady == bootSignal # "none" /\ phase = "run" => "socket" \in have

(* An output shows the wallpaper while nothing but the socket has failed   *)
(* ("Render wallpaper for this output", main.c:141).                       *)
EveryOutputPapered ==
    phase = "run" /\ failures <= (IF "socket" \in have THEN 0 ELSE 1) =>
        outputs \subseteq ToSet(papers)

(* Of the four claims above, that outputs get a wallpaper (main.c:141),    *)
(* that a booted compositor is ready for clients (main.c:448), that        *)
(* destruction is safe (compositor.h:148) and frees the wallpapers         *)
(* (wallpaper.c:471), at least one is kept in every life of the process.   *)
(* The code claims all four, so that a behaviour that violates this        *)
(* refutes each claim.                                                     *)
SomeClaimKept ==
    []EveryOutputPapered \/ []BootSignalMeansReady \/ []NoneOutlives \/ []WallpapersFreed
=============================================================================
