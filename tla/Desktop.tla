------------------------------- MODULE Desktop -------------------------------
(***************************************************************************)
(* Window management and pointer routing of the compositor: the handlers   *)
(* of src/compositor/src/xdg.c and the device and pointer handlers of      *)
(* src/compositor/src/input.c, which share the state of ZenCompositor.     *)
(*                                                                         *)
(* The compositor is a single-threaded wl_event_loop: one handler runs at  *)
(* a time, and clients, input devices and wlroots decide which one is      *)
(* next.  Each action is one handler.  Surfaces are identified with the    *)
(* toplevel they belong to.                                                *)
(*                                                                         *)
(* Definitions named Fault... are plausible mistakes in the definition     *)
(* that follows them; no specification uses them.  Put in its place, each  *)
(* one violates a property below.                                          *)
(***************************************************************************)
EXTENDS WlList

CONSTANTS Toplevel,       \* identities of struct ZenToplevel
          Keyboard,       \* identities of struct ZenKeyboard
          BootKeyboards,  \* the keyboards attached before the first client
          HotUnplug,      \* may keyboards be unplugged?
          NULL            \* the null pointer

(* Scene trees below every toplevel, created by zen_compositor_create. *)
OverlayTree   == "shell_overlay_tree"
WallpaperTree == "wallpaper_tree"

ASSUME NullAssumption == NULL \notin Toplevel \cup Keyboard
ASSUME TreeAssumption == {OverlayTree, WallpaperTree} \cap Toplevel = {}
ASSUME KeyboardAssumption == BootKeyboards \subseteq Keyboard /\ HotUnplug \in BOOLEAN

VARIABLES
    toplevels,    \* compositor->toplevels, most recently used first
    focused,      \* compositor->focused_toplevel
    grabbed,      \* compositor->grabbed_toplevel
    keyboards,    \* compositor->keyboards
    (* state of wlroots that the handlers read or set *)
    initialized,  \* xdg_surface->initialized: the initial commit was made
    mapped,       \* surface->mapped
    enabled,      \* toplevels whose scene tree is enabled
    activated,    \* toplevels last configured as activated
    scene,        \* children of the scene root, topmost first
    seatKeyboard, \* wlr_seat_get_keyboard(seat)
    kbFocus,      \* seat->keyboard_state.focused_surface
    kbCap,        \* the seat advertises a keyboard
    ptrFocus,     \* seat->pointer_state.focused_surface
    over,         \* mapped toplevels whose extents contain the cursor
    button        \* is a pointer button held?

xdgVars  == <<toplevels, focused, activated, scene, kbFocus>>
surfVars == <<initialized, mapped, enabled>>
kbdVars  == <<keyboards, seatKeyboard, kbCap>>
ptrVars  == <<grabbed, ptrFocus, over, button>>
vars     == <<xdgVars, surfVars, kbdVars, ptrVars>>

Live == ToSet(toplevels)

TypeOK ==
    /\ toplevels \in Seq(Toplevel)
    /\ focused \in Toplevel \cup {NULL}
    /\ grabbed \in Toplevel \cup {NULL}
    /\ keyboards \subseteq Keyboard
    /\ initialized \subseteq Toplevel
    /\ mapped \subseteq Toplevel
    /\ enabled \subseteq Toplevel
    /\ activated \subseteq Toplevel
    /\ scene \in Seq(Toplevel \cup {OverlayTree, WallpaperTree})
    /\ seatKeyboard \in Keyboard \cup {NULL}
    /\ kbFocus \in Toplevel \cup {NULL}
    /\ kbCap \in BOOLEAN
    /\ ptrFocus \in Toplevel \cup {NULL}
    /\ over \subseteq Toplevel
    /\ button \in BOOLEAN

(* The state once the event loop runs and no client has connected: the     *)
(* overlay tree was created first, the wallpaper tree above it.            *)
Init ==
    /\ toplevels = <<>>
    /\ focused = NULL
    /\ grabbed = NULL
    /\ keyboards = BootKeyboards
    /\ initialized = {} /\ mapped = {} /\ enabled = {} /\ activated = {}
    /\ scene = <<WallpaperTree, OverlayTree>>
    /\ seatKeyboard \in IF BootKeyboards = {} THEN {NULL} ELSE BootKeyboards
    /\ kbFocus = NULL
    /\ kbCap = (BootKeyboards # {})
    /\ ptrFocus = NULL
    /\ over = {}
    /\ button = FALSE

-----------------------------------------------------------------------------
(* zen_xdg_focus_toplevel(compositor, next): what each piece of state      *)
(* becomes.  Nothing happens when next is focused already, and the seat is *)
(* told of the new surface only while it has a keyboard.                   *)

FaultNotMovedToFront(next) == toplevels

MruAfterFocus(next) ==
    IF next \in {NULL, focused} THEN toplevels ELSE MoveToFront(toplevels, next)

FaultNotRaised(next) == scene

SceneAfterFocus(next) ==
    IF next \in {NULL, focused} THEN scene ELSE MoveToFront(scene, next)

FaultPreviousStaysActive(next) == activated \cup ({next} \ {NULL})

ActivatedAfterFocus(next) ==
    IF next = focused THEN activated ELSE (activated \ {focused}) \cup ({next} \ {NULL})

FaultFocusNotCleared(next) ==
    IF next \in {focused, NULL} \/ seatKeyboard = NULL THEN kbFocus ELSE next

KbFocusAfterFocus(next) ==
    IF next = focused \/ (next # NULL /\ seatKeyboard = NULL) THEN kbFocus ELSE next

zen_xdg_focus_toplevel(next) ==
    /\ focused' = next
    /\ toplevels' = MruAfterFocus(next)
    /\ activated' = ActivatedAfterFocus(next)
    /\ kbFocus' = KbFocusAfterFocus(next)
    /\ scene' = SceneAfterFocus(next)

FaultNotMappedFound(S) == IF Live = {} THEN NULL ELSE First(toplevels, Live)

(* The first entry of the MRU list among S, NULL if there is none. *)
NextInMru(S) == IF S = {} THEN NULL ELSE First(toplevels, S)

-----------------------------------------------------------------------------
(* Toplevel lifecycle (xdg.c).                                             *)

FaultFocusBeforeCommit(t) ==
    /\ t \notin Live
    /\ toplevels' = wl_list_insert(toplevels, t)
    /\ scene' = wl_list_insert(scene, t)
    /\ focused' = t /\ activated' = {t} /\ kbFocus' = t
    /\ UNCHANGED <<surfVars, kbdVars, ptrVars>>

(* handle_new_xdg_toplevel; an allocation failure leaves no trace.  The    *)
(* new scene tree is the topmost child of the scene root.                  *)
handle_new_xdg_toplevel(t) ==
    /\ t \notin Live
    /\ toplevels' = wl_list_insert(toplevels, t)
    /\ scene' = wl_list_insert(scene, t)
    /\ UNCHANGED <<focused, activated, kbFocus, surfVars, kbdVars, ptrVars>>

(* wlroots: the client makes the initial commit of the surface. *)
InitialCommit(t) ==
    /\ t \in Live \ initialized
    /\ initialized' = initialized \cup {t}
    /\ UNCHANGED <<xdgVars, mapped, enabled, kbdVars, ptrVars>>

(* handle_toplevel_map: the surface has a buffer, and with it an extent    *)
(* that may lie under the cursor.                                          *)
handle_toplevel_map(t) ==
    /\ t \in initialized \ mapped
    /\ mapped' = mapped \cup {t}
    /\ enabled' = enabled \cup {t}
    /\ zen_xdg_focus_toplevel(t)
    /\ over' \in {over, over \cup {t}}
    /\ UNCHANGED <<initialized, kbdVars, grabbed, ptrFocus, button>>

FaultStaysEnabled(t) ==
    /\ t \in mapped
    /\ mapped' = mapped \ {t}
    /\ initialized' = initialized \ {t}
    /\ zen_xdg_focus_toplevel(IF focused = t THEN NextInMru(mapped \ {t}) ELSE focused)
    /\ over' = over \ {t}
    /\ UNCHANGED <<enabled, kbdVars, grabbed, ptrFocus, button>>

(* handle_toplevel_unmap; wlroots has cleared surface->mapped before it    *)
(* signals, and wants a new initial commit afterwards.                     *)
handle_toplevel_unmap(t) ==
    /\ t \in mapped
    /\ mapped' = mapped \ {t}
    /\ initialized' = initialized \ {t}
    /\ enabled' = enabled \ {t}
    /\ zen_xdg_focus_toplevel(IF focused = t THEN NextInMru(mapped \ {t}) ELSE focused)
    /\ over' = over \ {t}
    /\ UNCHANGED <<kbdVars, grabbed, ptrFocus, button>>

FaultGrabSurvives(t) ==
    /\ t \in Live \ mapped
    /\ toplevels' = wl_list_remove(toplevels, t)
    /\ scene' = wl_list_remove(scene, t)
    /\ kbFocus' = IF kbFocus = t THEN NULL ELSE kbFocus
    /\ ptrFocus' = IF ptrFocus = t THEN NULL ELSE ptrFocus
    /\ initialized' = initialized \ {t}
    /\ UNCHANGED <<focused, activated, mapped, enabled, kbdVars, grabbed, over, button>>

(* handle_toplevel_destroy; wlroots unmaps a surface before it destroys    *)
(* the toplevel, and the seat forgets a destroyed surface.                 *)
handle_toplevel_destroy(t) ==
    LET next == IF focused = t THEN NextInMru(Live \ {t}) ELSE focused IN
    /\ t \in Live \ mapped
    /\ focused' = next
    /\ toplevels' = wl_list_remove(MruAfterFocus(next), t)
    /\ scene' = wl_list_remove(SceneAfterFocus(next), t)
    /\ activated' = ActivatedAfterFocus(next) \ {t}
    /\ kbFocus' = IF KbFocusAfterFocus(next) = t THEN NULL ELSE KbFocusAfterFocus(next)
    /\ ptrFocus' = IF ptrFocus = t THEN NULL ELSE ptrFocus
    /\ grabbed' = IF grabbed = t THEN NULL ELSE grabbed
    /\ initialized' = initialized \ {t}
    /\ UNCHANGED <<mapped, enabled, kbdVars, over, button>>

(* handle_toplevel_request_move: an interactive move begins; wlroots       *)
(* passes the request on only for a configured surface.                    *)
handle_toplevel_request_move(t) ==
    /\ t \in initialized
    /\ grabbed' = t
    /\ UNCHANGED <<xdgVars, surfVars, kbdVars, ptrFocus, over, button>>

(* The extents of a window change: a commit with a new size, a maximize or *)
(* a fullscreen request.  No handler looks at the pointer again.           *)
GeometryChange(t) ==
    /\ t \in mapped
    /\ over' \in {over \ {t}, over \cup {t}}
    /\ UNCHANGED <<xdgVars, surfVars, kbdVars, grabbed, ptrFocus, button>>

-----------------------------------------------------------------------------
(* Input devices (input.c).                                                *)

(* handle_new_input, keyboard case: active on the seat, no enter event. *)
handle_new_input_keyboard(k) ==
    /\ k \notin keyboards
    /\ keyboards' = keyboards \cup {k}
    /\ seatKeyboard' = k
    /\ kbCap' = TRUE
    /\ UNCHANGED <<xdgVars, surfVars, ptrVars>>

FaultPointerOnly ==
    /\ kbCap' = FALSE
    /\ UNCHANGED <<xdgVars, surfVars, keyboards, seatKeyboard, ptrVars>>

(* handle_new_input for any other device: only the seat's capabilities are *)
(* computed again.                                                         *)
handle_new_input_other ==
    /\ kbCap' = (keyboards # {})
    /\ UNCHANGED <<xdgVars, surfVars, keyboards, seatKeyboard, ptrVars>>

(* handle_keyboard_modifiers: the keyboard becomes the seat's. *)
handle_keyboard_modifiers(k) ==
    /\ k \in keyboards
    /\ seatKeyboard' = k
    /\ UNCHANGED <<xdgVars, surfVars, keyboards, kbCap, ptrVars>>

(* handle_keyboard_destroy; wlroots takes a destroyed keyboard off the     *)
(* seat.  The capabilities stay as they are.                               *)
handle_keyboard_destroy(k) ==
    /\ HotUnplug
    /\ k \in keyboards
    /\ keyboards' = keyboards \ {k}
    /\ seatKeyboard' = IF seatKeyboard = k THEN NULL ELSE seatKeyboard
    /\ UNCHANGED <<xdgVars, surfVars, kbCap, ptrVars>>

-----------------------------------------------------------------------------
(* Pointer (input.c).                                                      *)

FaultAnyNodeIsToplevel(S) ==
    IF S \cap enabled = {} THEN WallpaperTree ELSE First(scene, S \cap enabled)

(* wlr_scene_node_at, then toplevel_at_scene_node, for extents S. *)
ToplevelAt(S) == IF S \cap enabled = {} THEN NULL ELSE First(scene, S \cap enabled)

(* zen_input_process_cursor_motion: a grabbed window follows the cursor    *)
(* and pointer focus is left alone; otherwise the surface under the cursor *)
(* is entered, or the focus cleared.                                       *)
zen_input_process_cursor_motion ==
    /\ over' \in SUBSET mapped
    /\ IF grabbed # NULL
       THEN /\ (grabbed \in over') <=> (grabbed \in over)
            /\ UNCHANGED ptrFocus
       ELSE ptrFocus' = ToplevelAt(over')
    /\ UNCHANGED <<xdgVars, surfVars, kbdVars, grabbed, button>>

(* handle_cursor_button, press: the window under the cursor is focused. *)
ButtonPress ==
    /\ ~button
    /\ button' = TRUE
    /\ zen_xdg_focus_toplevel(IF ToplevelAt(over) = NULL THEN focused ELSE ToplevelAt(over))
    /\ UNCHANGED <<surfVars, kbdVars, grabbed, ptrFocus, over>>

(* handle_cursor_button, release: an interactive move ends. *)
ButtonRelease ==
    /\ button
    /\ button' = FALSE
    /\ grabbed' = NULL
    /\ UNCHANGED <<xdgVars, surfVars, kbdVars, ptrFocus, over>>

-----------------------------------------------------------------------------
Next ==
    \/ \E t \in Toplevel : \/ handle_new_xdg_toplevel(t)
                           \/ InitialCommit(t)
                           \/ handle_toplevel_map(t)
                           \/ handle_toplevel_unmap(t)
                           \/ handle_toplevel_destroy(t)
                           \/ handle_toplevel_request_move(t)
                           \/ GeometryChange(t)
    \/ \E k \in Keyboard : \/ handle_new_input_keyboard(k)
                           \/ handle_keyboard_modifiers(k)
                           \/ handle_keyboard_destroy(k)
    \/ handle_new_input_other
    \/ zen_input_process_cursor_motion
    \/ ButtonPress
    \/ ButtonRelease

Spec == Init /\ [][Next]_vars

-----------------------------------------------------------------------------
(* Properties.                                                             *)

(* Every toplevel is linked once, its scene tree is enabled exactly while  *)
(* its surface is mapped, and only a mapped surface is found under the     *)
(* cursor: the handlers agree on the states of a surface.                  *)
SurfaceStates ==
    /\ IsInjective(toplevels)
    /\ mapped \subseteq initialized /\ initialized \subseteq Live
    /\ enabled = mapped /\ over \subseteq mapped

(* The focused toplevel is mapped and comes first among the mapped entries *)
(* of the MRU list, and nothing is focused only when nothing is mapped:    *)
(* focus on map (xdg.c:160) and focus transfer on removal (xdg.c:175).     *)
FocusIsFirstMapped == focused = NextInMru(mapped)

(* Scene stacking order and MRU order agree, and every toplevel is above   *)
(* the wallpaper: what zen_xdg_focus_toplevel raises it also moves to the  *)
(* front of the list.                                                      *)
StackFollowsMru == scene = toplevels \o <<WallpaperTree, OverlayTree>>

(* No pointer of the compositor or of the seat outlives the ZenToplevel it *)
(* refers to: handle_toplevel_destroy leaves none behind.                  *)
NoDanglingPointer == {focused, grabbed, kbFocus, ptrFocus} \subseteq Live \cup {NULL}

(* The keyboard of the seat is attached, and clients know that there is    *)
(* one, even where its removal did not change the capabilities             *)
(* (input.c:311).                                                          *)
SeatKeyboardAttached == seatKeyboard # NULL => seatKeyboard \in keyboards /\ kbCap

(* Exactly the focused toplevel is shown as active. *)
OnlyFocusedActivated == activated = {focused} \ {NULL}

(* A surface is activated or deactivated only after its initial commit:    *)
(* otherwise wlr_xdg_surface_schedule_configure fails (xdg.c:492).         *)
ConfigureOnlyInitialized ==
    [][(activated \ activated') \cup (activated' \ activated) \subseteq initialized]_vars

(* While the seat has a keyboard, key events go to the focused toplevel:   *)
(* zen_xdg_focus_toplevel sends the enter and leave events as needed.      *)
KeyboardFollowsFocus == seatKeyboard # NULL => kbFocus = focused

(* Keyboard focus parts from the focused toplevel only when focus moves    *)
(* while the seat has no keyboard, between the unplugging of one and the   *)
(* first use of another (xdg.c:81).                                        *)
FocusPartsOnlyWithoutKeyboard ==
    [][kbFocus = focused /\ kbFocus' # focused' => seatKeyboard = NULL]_vars

(* The desktop implements the focus policy: the visible windows are the    *)
(* mapped toplevels, ordered as in the MRU list.                           *)
Policy == INSTANCE FocusPolicy
            WITH Window  <- Toplevel,
                 visible <- mapped,
                 newer   <- {p \in mapped \X mapped : Before(toplevels, p[1], p[2])},
                 focus   <- focused

(* Every step of the handlers is a step of the focus policy or changes     *)
(* nothing that the policy speaks of.                                      *)
ImplementsFocusPolicy == Policy!Spec
=============================================================================
