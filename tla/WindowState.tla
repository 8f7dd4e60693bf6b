----------------------------- MODULE WindowState -----------------------------
(***************************************************************************)
(* Maximized and fullscreen windows: the request handlers of               *)
(* src/compositor/src/xdg.c on top of the desktop, for one window that is  *)
(* watched.  A handler schedules a new state, wlroots sends it to the      *)
(* client as a configure event, and it becomes current when the client     *)
(* acknowledges and commits it.                                            *)
(*                                                                         *)
(* A size is that of the output, or the client's own; a place is that of   *)
(* the output, where the user dragged the window from there, or one that   *)
(* it had before.                                                          *)
(*                                                                         *)
(* Definitions named Fault... are plausible mistakes in the definition     *)
(* that follows them; no specification uses them.                          *)
(***************************************************************************)
EXTENDS Desktop

CONSTANTS Watched,      \* the toplevel whose state is followed
          MaxRequests,  \* how many requests its client makes while there are n windows
          MaxPending    \* how many of them may be on their way

ASSUME WatchedAssumption ==
    Watched \in Toplevel /\ MaxRequests \in Seq(Nat) /\ MaxPending \in Nat
(* The bound is given for every number of windows; more of them allow no   *)
(* more requests.                                                          *)
ASSUME RequestsAssumption ==
    /\ IsFiniteSet(Toplevel) /\ Cardinality(Toplevel) <= Len(MaxRequests)
    /\ \A m, n \in DOMAIN MaxRequests : m <= n => MaxRequests[n] <= MaxRequests[m]

VARIABLES
    current,    \* xdg_toplevel->current, what the client has committed
    scheduled,  \* xdg_toplevel->scheduled
    idle,       \* xdg_surface->configure_idle: a configure is to be sent
    sent,       \* configures that the client has not acknowledged
    place,      \* the position of the scene tree
    aborted,    \* the assertion of wlr_xdg_surface_schedule_configure failed, for
                \* a request of the client or for a change of focus
    (* what the client did *)
    requests,   \* the requests it has made
    wants,      \* the states it last asked for, as long as it was not misled
    misled,     \* has it asked for a state that it had or was not told of, or
                \* while there was no output?
    half        \* has it left one of the two states while in the other?

stateVars == <<current, scheduled, idle, sent, place>>
askVars   == <<requests, wants, misled, half>>
windowVars == <<stateVars, aborted, askVars>>
allVars   == <<vars, windowVars>>

Plain   == [maximized |-> FALSE, fullscreen |-> FALSE, size |-> "own"]
State   == [maximized : BOOLEAN, fullscreen : BOOLEAN, size : {"own", "output"}]
Field   == {"maximized", "fullscreen"}
NoWants == [f \in Field |-> FALSE]

WindowTypeOK ==
    /\ TypeOK
    /\ current \in State /\ scheduled \in State
    /\ sent \in Seq(State) /\ Len(sent) <= MaxPending
    /\ place \in {"own", "output", "dragged"}
    /\ {idle, misled, half} \subseteq BOOLEAN
    /\ aborted \in {"no", "request", "focus"}
    /\ requests # 0 => requests <= MaxRequests[Len(toplevels)]
    /\ wants \in [Field -> BOOLEAN]

WindowInit ==
    /\ Init
    /\ current = Plain /\ scheduled = Plain /\ idle = FALSE /\ sent = <<>>
    /\ place = "own" /\ aborted = "no"
    /\ requests = 0 /\ wants = NoWants /\ misled = FALSE /\ half = FALSE

(* Nothing is on its way to the client. *)
Quiet == ~idle /\ sent = <<>>

-----------------------------------------------------------------------------
(* The extents of the watched window may change with its state. *)
Extents == IF Watched \in mapped THEN GeometryChange(Watched) ELSE UNCHANGED vars

(* A request for a state of a surface that has not been committed yet      *)
(* fails an assertion of wlroots (xdg.c:492).                              *)
Schedule(state) ==
    IF Watched \in initialized
    THEN /\ scheduled' = state /\ idle' = TRUE
         /\ UNCHANGED aborted
         /\ Extents
    ELSE /\ aborted' = "request"
         /\ UNCHANGED <<scheduled, idle>>
         /\ UNCHANGED vars

(* The window takes the size and the place of its output. *)
Enter(state) ==
    /\ Schedule([state EXCEPT !.size = "output"])
    /\ place' = "output"
    /\ half' = FALSE

(* The client chooses the size; the other of the two states may remain. *)
Leave(state) ==
    /\ Schedule([state EXCEPT !.size = "own"])
    /\ half' = (half \/ state.maximized \/ state.fullscreen)
    /\ UNCHANGED place

NothingDone == UNCHANGED <<vars, scheduled, idle, place, aborted, half>>

FaultOnlyEnters(output) ==
    IF output THEN Enter([scheduled EXCEPT !.maximized = TRUE]) ELSE NothingDone

(* handle_toplevel_request_maximize: whatever was requested, the state     *)
(* that is current is changed; without an output, only when it is left.    *)
handle_toplevel_request_maximize(output) ==
    IF current.maximized THEN Leave([scheduled EXCEPT !.maximized = FALSE])
    ELSE IF output THEN Enter([scheduled EXCEPT !.maximized = TRUE])
    ELSE NothingDone

FaultSizeNotSet(output) ==
    IF current.fullscreen THEN Leave([scheduled EXCEPT !.fullscreen = FALSE])
    ELSE /\ Schedule([scheduled EXCEPT !.fullscreen = TRUE])
         /\ place' = "output" /\ half' = FALSE

(* handle_toplevel_request_fullscreen, likewise. *)
handle_toplevel_request_fullscreen(output) ==
    IF current.fullscreen THEN Leave([scheduled EXCEPT !.fullscreen = FALSE])
    ELSE IF output THEN Enter([scheduled EXCEPT !.fullscreen = TRUE])
    ELSE NothingDone

(* The client asks for a state to be set or unset; the layout may have no  *)
(* output then.                                                            *)
Request(field, value, output) ==
    /\ Watched \in Live
    /\ requests < MaxRequests[Len(toplevels)] /\ requests' = requests + 1
    /\ Len(sent) + (IF idle THEN 1 ELSE 0) < MaxPending
    /\ misled' = (misled \/ ~Quiet \/ value = current[field] \/ (value /\ ~output))
    /\ wants' = IF misled' THEN NoWants ELSE [wants EXCEPT ![field] = value]
    /\ \/ field = "maximized" /\ handle_toplevel_request_maximize(output)
       \/ field = "fullscreen" /\ handle_toplevel_request_fullscreen(output)
    /\ UNCHANGED <<current, sent>>

(* wlroots sends what is scheduled once the event loop is idle. *)
SendConfigure ==
    /\ idle /\ idle' = FALSE
    /\ sent' = Append(sent, scheduled)
    /\ UNCHANGED <<vars, current, scheduled, place, aborted, askVars>>

(* The client acknowledges a configure, and with it all earlier ones. *)
AckAndCommit ==
    /\ \E i \in DOMAIN sent : current' = sent[i] /\ sent' = SubSeq(sent, i + 1, Len(sent))
    /\ Extents
    /\ UNCHANGED <<scheduled, idle, place, aborted, askVars>>

-----------------------------------------------------------------------------
(* The handlers of the desktop.                                            *)

(* Changes of focus schedule configures too. *)
AfterFocus ==
    IF ((activated \ activated') \cup (activated' \ activated)) \ initialized # {}
    THEN "focus" ELSE aborted

(* A window that is dragged leaves its place, maximized or not. *)
MotionStep ==
    /\ zen_input_process_cursor_motion
    /\ place' \in IF grabbed = Watched /\ place = "output" THEN {place, "dragged"} ELSE {place}
    /\ UNCHANGED <<current, scheduled, idle, sent, aborted, askVars>>

(* The watched window is unmapped, created or destroyed: wlroots forgets   *)
(* what was on its way, and the client starts again.                       *)
LifecycleStep ==
    /\ \/ handle_new_xdg_toplevel(Watched)
       \/ handle_toplevel_unmap(Watched)
       \/ handle_toplevel_destroy(Watched)
    /\ current' = Plain /\ scheduled' = Plain /\ idle' = FALSE /\ sent' = <<>>
    /\ place' = "own"
    /\ requests' = 0 /\ wants' = NoWants /\ misled' = FALSE /\ half' = FALSE
    /\ aborted' = AfterFocus

OtherStep ==
    /\ \/ \E t \in Toplevel \ {Watched} : \/ /\ handle_new_xdg_toplevel(t)
                                             /\ requests <= MaxRequests[Len(toplevels')]
                                          \/ handle_toplevel_unmap(t)
                                          \/ handle_toplevel_destroy(t)
       \/ \E t \in Toplevel : \/ InitialCommit(t)
                              \/ handle_toplevel_map(t)
                              \/ handle_toplevel_request_move(t)
                              \/ GeometryChange(t)
       \/ \E k \in Keyboard : \/ handle_new_input_keyboard(k)
                              \/ handle_keyboard_modifiers(k)
                              \/ handle_keyboard_destroy(k)
       \/ handle_new_input_other
       \/ ButtonPress
       \/ ButtonRelease
    /\ aborted' = AfterFocus
    /\ UNCHANGED <<stateVars, askVars>>

WindowNext ==
    /\ aborted = "no"
    /\ \/ \E field \in Field, value, output \in BOOLEAN : Request(field, value, output)
       \/ SendConfigure
       \/ AckAndCommit
       \/ MotionStep
       \/ LifecycleStep
       \/ OtherStep

WindowSpec == WindowInit /\ [][WindowNext]_allVars

-----------------------------------------------------------------------------
(* Properties.                                                             *)

(* A client that waits for the answer to each request, and asks only for   *)
(* states that it does not have, gets what it asked for: the handlers look *)
(* at the current state and not at the request (xdg.c:304, xdg.c:352).     *)
PatientClientServed ==
    Quiet /\ ~misled /\ aborted = "no" => \A f \in Field : current[f] = wants[f]

(* A window that is maximized or fullscreen has the size of its output,    *)
(* however its requests and answers overlap, unless it has left the other  *)
(* of the two states since (xdg.c:389); it was moved to its output, and    *)
(* only a drag moves it away (input.c:340).                                *)
FillsItsOutput ==
    Quiet /\ (current.maximized \/ current.fullscreen) =>
        (current.size = "output" \/ half) /\ place # "own"
=============================================================================
