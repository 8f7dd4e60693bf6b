---------------------------- MODULE WindowProofs ----------------------------
(***************************************************************************)
(* Proofs about maximized and fullscreen windows: the desktop with such    *)
(* requests is still the desktop of module Desktop, and a client's         *)
(* requests and acknowledgements may overlap in any way and number.        *)
(***************************************************************************)
EXTENDS WindowState, DesktopProofs, FiniteSetTheorems

(* The state that the client will have when it has acknowledged everything *)
(* sent to it.                                                             *)
LastSent == IF sent = <<>> THEN current ELSE sent[Len(sent)]

StateInv ==
    /\ current \in State /\ scheduled \in State /\ sent \in Seq(State)
    /\ idle \in BOOLEAN
    /\ ~idle => LastSent = scheduled

(* What is scheduled, compared with the extents of the window and with     *)
(* what its client asked for.                                              *)
ScheduledInv ==
    /\ Watched \notin initialized => scheduled = Plain
    /\ scheduled.maximized \/ scheduled.fullscreen =>
           (scheduled.size = "output" \/ half) /\ place # "own"
    /\ half \in BOOLEAN /\ misled \in BOOLEAN /\ wants \in [Field -> BOOLEAN]
    /\ ~misled /\ aborted = "no" => \A f \in Field : scheduled[f] = wants[f]

WindowInv == StateInv /\ ScheduledInv

-----------------------------------------------------------------------------
(* A step of a request or of an answer to it is a step of the desktop that *)
(* moves the edges of the watched window, or none.                         *)
LEMMA ExtentsStep ==
    ASSUME Extents
    PROVE  [Next]_vars /\ UNCHANGED <<initialized, activated, toplevels>>
BY WatchedAssumption DEF Extents, GeometryChange, Next, vars, xdgVars, surfVars

(* Likewise for the handler of a request, whatever it does. *)
LEMMA RequestStep ==
    ASSUME NEW field \in Field, NEW value, NEW output, Request(field, value, output)
    PROVE  [Next]_vars /\ UNCHANGED <<initialized, activated, toplevels>>
           /\ aborted' \in {aborted, "request"}
<1>1. ASSUME NEW state, Schedule(state)
      PROVE  [Next]_vars /\ UNCHANGED <<initialized, activated, toplevels>>
             /\ aborted' \in {aborted, "request"}
  <2>1. CASE Watched \in initialized
    BY <1>1, <2>1, ExtentsStep DEF Schedule
  <2>2. CASE Watched \notin initialized
    BY <1>1, <2>2 DEF Schedule, vars, xdgVars, surfVars
  <2> QED
    BY <2>1, <2>2
<1>2. CASE NothingDone
  BY <1>2 DEF NothingDone, vars, xdgVars, surfVars
<1> QED
  BY <1>1, <1>2 DEF Request, handle_toplevel_request_maximize,
                    handle_toplevel_request_fullscreen, Enter, Leave

(* The handlers of the desktop are steps of the desktop. *)
LEMMA DesktopStep ==
    ASSUME MotionStep \/ LifecycleStep \/ OtherStep
    PROVE  Next
BY WatchedAssumption DEF MotionStep, LifecycleStep, OtherStep, Next

(* Every step is one of the desktop, or none. *)
LEMMA WindowStep ==
    ASSUME [WindowNext]_allVars
    PROVE  [Next]_vars
<1>1. CASE \E field \in Field, value, output \in BOOLEAN : Request(field, value, output)
  BY <1>1, RequestStep
<1>2. CASE SendConfigure
  BY <1>2 DEF SendConfigure
<1>3. CASE AckAndCommit
  BY <1>3, ExtentsStep DEF AckAndCommit
<1>4. CASE MotionStep \/ LifecycleStep \/ OtherStep
  BY <1>4, DesktopStep
<1>5. CASE UNCHANGED allVars
  BY <1>5 DEF allVars
<1> QED
  BY <1>1, <1>2, <1>3, <1>4, <1>5 DEF WindowNext

(* The handlers of maximize and fullscreen add nothing to the behaviours   *)
(* of the desktop, so that all that is proved of it holds with them.       *)
THEOREM DesktopKept == WindowSpec => Spec
<1>1. WindowInit => Init
  BY DEF WindowInit
<1> QED
  BY <1>1, WindowStep, PTL DEF WindowSpec, Spec

-----------------------------------------------------------------------------
(* An acknowledgement takes effect together with all that was sent before, *)
(* and leaves the last configure where it was.                             *)
LEMMA AckKeepsLast ==
    ASSUME StateInv, AckAndCommit
    PROVE  current' \in State /\ sent' \in Seq(State) /\ LastSent' = LastSent
<1>1. PICK i \in DOMAIN sent : current' = sent[i] /\ sent' = SubSeq(sent, i + 1, Len(sent))
  BY DEF AckAndCommit
<1>2. sent \in Seq(State) /\ i \in 1 .. Len(sent) /\ Len(sent) \in Nat /\ sent # <<>>
  BY <1>1 DEF StateInv
<1>3. current' \in State /\ sent' \in Seq(State)
  BY <1>1, <1>2
<1>4. CASE i = Len(sent)
  <2>1. sent' = <<>>
    BY <1>1, <1>2, <1>4
  <2> QED
    BY <1>1, <1>2, <1>3, <1>4, <2>1 DEF LastSent
<1>5. CASE i < Len(sent)
  <2>1. Len(sent') = Len(sent) - i /\ sent' # <<>>
    BY <1>1, <1>2, <1>5
  <2>2. \A j \in 1 .. Len(sent) - i : sent'[j] = sent[i + j]
    <3>1. \A k \in i + 1 .. Len(sent) : sent[k] \in State
      BY <1>2
    <3>2. \A j \in 1 .. Len(sent) - (i + 1) + 1 :
              SubSeq(sent, i + 1, Len(sent))[j] = sent[(i + 1) + j - 1]
      BY <1>2, <3>1, SubSeqProperties
    <3> QED
      BY <1>1, <1>2, <3>2
  <2>3. sent'[Len(sent')] = sent[Len(sent)]
    <3>1. Len(sent) - i \in 1 .. Len(sent) - i /\ i + (Len(sent) - i) = Len(sent)
      <4>1. \A n \in Nat : \A k \in 1 .. n : k < n => n - k \in 1 .. n - k /\ k + (n - k) = n
        OBVIOUS
      <4> QED
        BY <1>2, <1>5, <4>1
    <3>2. sent'[Len(sent) - i] = sent[i + (Len(sent) - i)]
      BY <2>2, <3>1
    <3> QED
      BY <2>1, <3>1, <3>2
  <2> QED
    BY <1>2, <1>3, <2>1, <2>3 DEF LastSent
<1> QED
  BY <1>2, <1>4, <1>5

(* A configure that is sent becomes the last. *)
LEMMA SendMakesLast ==
    ASSUME StateInv, SendConfigure
    PROVE  sent' \in Seq(State) /\ LastSent' = scheduled
<1>1. sent' = Append(sent, scheduled) /\ sent \in Seq(State) /\ scheduled \in State
  BY DEF StateInv, SendConfigure
<1>2. sent' \in Seq(State) /\ Len(sent') = Len(sent) + 1 /\ Len(sent) \in Nat
  BY <1>1
<1>3. sent' # <<>> /\ sent'[Len(sent')] = scheduled
  BY <1>1, <1>2
<1> QED
  BY <1>2, <1>3 DEF LastSent

(* What the handler of a request leaves scheduled: a window that is in one *)
(* of the two states fills its output, or has left the other.              *)
LEMMA HandlerStep ==
    ASSUME WindowInv, NEW state \in State, aborted = "no", UNCHANGED <<current, sent>>,
           \/ Enter(state)
           \/ Leave(state) /\ (state.maximized \/ state.fullscreen => place # "own")
    PROVE  /\ StateInv' /\ half' \in BOOLEAN
           /\ Watched \notin initialized' => scheduled' = Plain
           /\ scheduled'.maximized \/ scheduled'.fullscreen =>
                  (scheduled'.size = "output" \/ half') /\ place' # "own"
           /\ aborted' = "no" => /\ scheduled'.maximized = state.maximized
                                /\ scheduled'.fullscreen = state.fullscreen
<1>1. CASE Watched \notin initialized
  <2>1. aborted' = "request" /\ UNCHANGED <<scheduled, idle, initialized>>
    BY <1>1 DEF Enter, Leave, Schedule, vars, surfVars
  <2>2. scheduled' = Plain
    BY <1>1, <2>1 DEF WindowInv, ScheduledInv
  <2>3. StateInv'
    BY <2>1 DEF WindowInv, StateInv, LastSent
  <2>4. half' \in BOOLEAN
    BY DEF Enter, Leave, WindowInv, ScheduledInv
  <2> QED
    BY <2>1, <2>2, <2>3, <2>4 DEF Plain
<1>2. CASE Watched \in initialized
  <2>1. idle' = TRUE /\ aborted' = "no" /\ initialized' = initialized
    BY <1>2, ExtentsStep DEF Enter, Leave, Schedule
  <2>2. CASE Enter(state)
    <3>1. scheduled' = [state EXCEPT !.size = "output"] /\ place' = "output" /\ half' = FALSE
      BY <1>2, <2>2 DEF Enter, Schedule
    <3>2. /\ scheduled' \in State /\ scheduled'.size = "output"
          /\ scheduled'.maximized = state.maximized /\ scheduled'.fullscreen = state.fullscreen
      BY <3>1 DEF State
    <3>3. StateInv'
      BY <2>1, <3>2 DEF WindowInv, StateInv
    <3> QED
      BY <1>2, <2>1, <3>1, <3>2, <3>3
  <2>3. CASE Leave(state) /\ (state.maximized \/ state.fullscreen => place # "own")
    <3>1. /\ scheduled' = [state EXCEPT !.size = "own"] /\ place' = place
          /\ half' = (half \/ state.maximized \/ state.fullscreen)
      BY <1>2, <2>3 DEF Leave, Schedule
    <3>2. /\ scheduled' \in State
          /\ scheduled'.maximized = state.maximized /\ scheduled'.fullscreen = state.fullscreen
      BY <3>1 DEF State
    <3>3. StateInv'
      BY <2>1, <3>2 DEF WindowInv, StateInv
    <3>4. half' \in BOOLEAN /\ (state.maximized \/ state.fullscreen => half')
      BY <3>1 DEF WindowInv, ScheduledInv, State
    <3> QED
      BY <1>2, <2>1, <2>3, <3>1, <3>2, <3>3, <3>4
  <2> QED
    BY <2>2, <2>3
<1> QED
  BY <1>1, <1>2

(* A request keeps the invariant: an answer that the client has seen is    *)
(* what was scheduled, and so the handler toggles what the client means.   *)
LEMMA RequestInv ==
    ASSUME WindowInv, aborted = "no", NEW field \in Field, NEW value \in BOOLEAN,
           NEW output \in BOOLEAN, Request(field, value, output)
    PROVE  WindowInv'
<1>1. current \in State /\ scheduled \in State /\ UNCHANGED <<current, sent>>
  BY DEF WindowInv, StateInv, Request
<1>2. misled' \in BOOLEAN /\ wants' \in [Field -> BOOLEAN]
  BY DEF WindowInv, ScheduledInv, Request, NoWants
<1>3. ASSUME ~misled'
      PROVE  /\ current = scheduled /\ value # current[field] /\ (value => output)
             /\ wants' = [wants EXCEPT ![field] = value]
             /\ \A f \in Field : scheduled[f] = wants[f]
  BY <1>3 DEF WindowInv, ScheduledInv, StateInv, LastSent, Request, Quiet
<1>4. ASSUME NEW state \in State,
             \/ Enter(state)
             \/ Leave(state) /\ (state.maximized \/ state.fullscreen => place # "own"),
             state.maximized = IF field = "maximized" THEN ~current.maximized
                                                      ELSE scheduled.maximized,
             state.fullscreen = IF field = "fullscreen" THEN ~current.fullscreen
                                                        ELSE scheduled.fullscreen
      PROVE  WindowInv'
  <2>1. /\ StateInv' /\ half' \in BOOLEAN
        /\ Watched \notin initialized' => scheduled' = Plain
        /\ scheduled'.maximized \/ scheduled'.fullscreen =>
               (scheduled'.size = "output" \/ half') /\ place' # "own"
        /\ aborted' = "no" => /\ scheduled'.maximized = state.maximized
                             /\ scheduled'.fullscreen = state.fullscreen
    BY <1>1, <1>4, HandlerStep
  <2>2. ASSUME ~misled', aborted' = "no"
        PROVE  \A f \in Field : scheduled'[f] = wants'[f]
    <3>1. /\ scheduled'.maximized = state.maximized /\ scheduled'.fullscreen = state.fullscreen
          /\ wants' = [wants EXCEPT ![field] = value] /\ current = scheduled
          /\ value = ~current[field]
          /\ wants["maximized"] = scheduled.maximized
          /\ wants["fullscreen"] = scheduled.fullscreen
      BY <1>1, <1>3, <2>1, <2>2 DEF Field, State
    <3> QED
      BY <1>1, <1>4, <3>1 DEF Field, State, WindowInv, ScheduledInv
  <2> QED
    BY <1>2, <2>1, <2>2 DEF WindowInv, ScheduledInv
<1>5. ASSUME NothingDone, ~output, ~current[field]
      PROVE  WindowInv'
  <2>1. UNCHANGED <<current, scheduled, idle, sent, place, aborted, half, initialized>>
    BY <1>1, <1>5 DEF NothingDone, vars, surfVars
  <2>2. misled'
    BY <1>1, <1>3, <1>5 DEF Field, State
  <2> QED
    BY <1>2, <2>1, <2>2 DEF WindowInv, StateInv, ScheduledInv, LastSent
<1>6. scheduled.maximized \/ scheduled.fullscreen => place # "own"
  BY DEF WindowInv, ScheduledInv
<1>7. CASE field = "maximized"
  <2>1. handle_toplevel_request_maximize(output)
    BY <1>7 DEF Request
  <2>2. CASE current.maximized
    <3> DEFINE state == [scheduled EXCEPT !.maximized = FALSE]
    <3>1. /\ state \in State /\ state.maximized = FALSE
          /\ state.fullscreen = scheduled.fullscreen /\ Leave(state)
      BY <1>1, <2>1, <2>2 DEF State, handle_toplevel_request_maximize
    <3> QED
      BY <1>1, <1>4, <1>6, <1>7, <2>2, <3>1
  <2>3. CASE ~current.maximized /\ output
    <3> DEFINE state == [scheduled EXCEPT !.maximized = TRUE]
    <3>1. /\ state \in State /\ state.maximized = TRUE
          /\ state.fullscreen = scheduled.fullscreen /\ Enter(state)
      BY <1>1, <2>1, <2>3 DEF State, handle_toplevel_request_maximize
    <3> QED
      BY <1>1, <1>4, <1>7, <2>3, <3>1
  <2>4. CASE ~current.maximized /\ ~output
    BY <1>5, <1>7, <2>1, <2>4 DEF handle_toplevel_request_maximize
  <2> QED
    BY <2>2, <2>3, <2>4
<1>8. CASE field = "fullscreen"
  <2>1. handle_toplevel_request_fullscreen(output)
    BY <1>8 DEF Request
  <2>2. CASE current.fullscreen
    <3> DEFINE state == [scheduled EXCEPT !.fullscreen = FALSE]
    <3>1. /\ state \in State /\ state.fullscreen = FALSE
          /\ state.maximized = scheduled.maximized /\ Leave(state)
      BY <1>1, <2>1, <2>2 DEF State, handle_toplevel_request_fullscreen
    <3> QED
      BY <1>1, <1>4, <1>6, <1>8, <2>2, <3>1
  <2>3. CASE ~current.fullscreen /\ output
    <3> DEFINE state == [scheduled EXCEPT !.fullscreen = TRUE]
    <3>1. /\ state \in State /\ state.fullscreen = TRUE
          /\ state.maximized = scheduled.maximized /\ Enter(state)
      BY <1>1, <2>1, <2>3 DEF State, handle_toplevel_request_fullscreen
    <3> QED
      BY <1>1, <1>4, <1>8, <2>3, <3>1
  <2>4. CASE ~current.fullscreen /\ ~output
    BY <1>5, <1>8, <2>1, <2>4 DEF handle_toplevel_request_fullscreen
  <2> QED
    BY <2>2, <2>3, <2>4
<1> QED
  BY <1>7, <1>8 DEF Field

-----------------------------------------------------------------------------
(* Another window's handlers take no initial commit from the watched one. *)
LEMMA OtherKeepsInitialized ==
    ASSUME OtherStep \/ MotionStep, Watched \in initialized
    PROVE  Watched \in initialized'
BY DEF OtherStep, MotionStep, xdgVars, surfVars, kbdVars, ptrVars, handle_new_xdg_toplevel,
       InitialCommit, handle_toplevel_map, handle_toplevel_unmap, handle_toplevel_destroy,
       handle_toplevel_request_move, GeometryChange, handle_new_input_keyboard,
       handle_keyboard_modifiers, handle_keyboard_destroy, handle_new_input_other,
       zen_input_process_cursor_motion, ButtonPress, ButtonRelease

(* At first the window is in neither state, and nothing was asked for. *)
LEMMA WindowInvInit == WindowInit => WindowInv
<1> SUFFICES ASSUME WindowInit PROVE WindowInv
  OBVIOUS
<1>1. Plain \in State /\ wants = NoWants /\ NoWants \in [Field -> BOOLEAN]
  BY DEF Plain, State, NoWants, Field, WindowInit
<1>2. StateInv
  BY <1>1, EmptySeq DEF WindowInit, StateInv, LastSent
<1>3. ~Plain.maximized /\ ~Plain.fullscreen /\ \A f \in Field : Plain[f] = NoWants[f]
  BY DEF Plain, NoWants, Field
<1> QED
  BY <1>1, <1>2, <1>3 DEF WindowInit, WindowInv, ScheduledInv

(* Every step keeps the invariant. *)
LEMMA WindowInvNext ==
    ASSUME WindowInv, [WindowNext]_allVars
    PROVE  WindowInv'
<1>1. CASE /\ WindowNext
           /\ \E field \in Field, value, output \in BOOLEAN : Request(field, value, output)
  BY <1>1, RequestInv DEF WindowNext
<1>2. CASE SendConfigure
  <2>1. UNCHANGED <<current, scheduled, initialized, place, aborted, half, misled, wants>>
    BY <1>2 DEF SendConfigure, vars, surfVars, askVars
  <2>2. StateInv'
    BY <1>2, <2>1, SendMakesLast DEF WindowInv, StateInv, SendConfigure
  <2> QED
    BY <2>1, <2>2 DEF WindowInv, ScheduledInv
<1>3. CASE AckAndCommit
  <2>1. UNCHANGED <<scheduled, idle, initialized, place, aborted, half, misled, wants>>
    BY <1>3, ExtentsStep DEF AckAndCommit, askVars
  <2>2. StateInv'
    BY <1>3, <2>1, AckKeepsLast DEF WindowInv, StateInv
  <2> QED
    BY <2>1, <2>2 DEF WindowInv, ScheduledInv
<1>4. CASE MotionStep
  <2>1. /\ UNCHANGED <<current, scheduled, idle, sent, aborted, half, misled, wants>>
        /\ place' \in {place, "dragged"}
    BY <1>4 DEF MotionStep, askVars
  <2> QED
    BY <1>4, <2>1, OtherKeepsInitialized DEF WindowInv, StateInv, ScheduledInv, LastSent
<1>5. CASE LifecycleStep
  <2>1. /\ current' = Plain /\ scheduled' = Plain /\ idle' = FALSE /\ sent' = <<>>
        /\ wants' = NoWants /\ misled' = FALSE /\ half' = FALSE
    BY <1>5 DEF LifecycleStep
  <2>2. Plain \in State /\ NoWants \in [Field -> BOOLEAN]
    BY DEF Plain, State, NoWants, Field
  <2>3. StateInv'
    BY <2>1, <2>2, EmptySeq DEF StateInv, LastSent
  <2>4. ~Plain.maximized /\ ~Plain.fullscreen /\ \A f \in Field : Plain[f] = NoWants[f]
    BY DEF Plain, NoWants, Field
  <2> QED
    BY <2>1, <2>2, <2>3, <2>4 DEF WindowInv, ScheduledInv
<1>6. CASE WindowNext /\ OtherStep
  <2>1. /\ UNCHANGED <<current, scheduled, idle, sent, place, half, misled, wants>>
        /\ aborted = "no"
    BY <1>6 DEF OtherStep, WindowNext, stateVars, askVars
  <2> QED
    BY <1>6, <2>1, OtherKeepsInitialized DEF WindowInv, StateInv, ScheduledInv, LastSent
<1>7. CASE UNCHANGED allVars
  BY <1>7 DEF allVars, vars, surfVars, windowVars, stateVars, askVars,
              WindowInv, StateInv, ScheduledInv, LastSent
<1> QED
  BY <1>1, <1>2, <1>3, <1>4, <1>5, <1>6, <1>7 DEF WindowNext

(* However requests, configures and acknowledgements overlap, a window     *)
(* that is maximized or fullscreen in the end has the size of its output,  *)
(* or has left the other state, and was moved there (xdg.c:389).           *)
THEOREM OutputFilled == WindowSpec => []FillsItsOutput
<1>1. WindowInv => FillsItsOutput
  BY DEF WindowInv, StateInv, ScheduledInv, LastSent, FillsItsOutput, Quiet
<1> QED
  BY <1>1, WindowInvInit, WindowInvNext, PTL DEF WindowSpec

(* A client that waits for each answer and asks only for states that it    *)
(* does not have gets them, although the handlers ignore what it asks for  *)
(* (xdg.c:304).                                                            *)
THEOREM PatientServed == WindowSpec => []PatientClientServed
<1>1. WindowInv => PatientClientServed
  BY DEF WindowInv, StateInv, ScheduledInv, LastSent, PatientClientServed, Quiet
<1> QED
  BY <1>1, WindowInvInit, WindowInvNext, PTL DEF WindowSpec

-----------------------------------------------------------------------------
(* A list of distinct entries is no longer than the set they are taken     *)
(* from.                                                                   *)
LEMMA ListBound ==
    ASSUME NEW T, IsFiniteSet(T), NEW s, IsList(s, T)
    PROVE  Len(s) <= Cardinality(T)
<1>1. s \in Seq(T) /\ Len(s) \in Nat /\ s \in [1 .. Len(s) -> T]
  BY DEF IsList
<1>2. s \in Injection(1 .. Len(s), T)
  BY <1>1 DEF IsList, Injection, IsInjective
<1>3. Cardinality(1 .. Len(s)) = Len(s)
  BY <1>1, FS_Interval
<1> QED
  BY <1>2, <1>3, FS_Injection

(* A change of focus reorders the list and leaves its entries. *)
LEMMA FocusKeepsCount ==
    ASSUME DesktopInv, NEW next \in Live \cup {NULL}
    PROVE  /\ Len(MruAfterFocus(next)) = Len(toplevels)
           /\ ToSet(MruAfterFocus(next)) = Live
<1>1. IsList(toplevels, Toplevel) /\ toplevels \in Seq(Toplevel)
  BY InvParts DEF IsList
<1>2. CASE next \in {NULL, focused}
  BY <1>2 DEF MruAfterFocus, Live
<1>3. CASE next \notin {NULL, focused}
  <2> DEFINE r == wl_list_remove(toplevels, next)
  <2>1. next \in ToSet(toplevels) /\ next \in Toplevel
    BY <1>3, InvParts DEF Live
  <2>2. r \in Seq(Toplevel) /\ Len(r) = Len(toplevels) - 1
    BY <1>1, <2>1, RemoveIndices
  <2>3. Len(wl_list_insert(r, next)) = Len(r) + 1
    BY <2>1, <2>2, InsertIndices
  <2>4. MruAfterFocus(next) = MoveToFront(toplevels, next)
    BY <1>3 DEF MruAfterFocus
  <2>5. Len(MoveToFront(toplevels, next)) = Len(toplevels)
    BY <1>1, <2>2, <2>3 DEF MoveToFront
  <2> QED
    BY <1>1, <2>1, <2>4, <2>5, MoveEntries DEF Live
<1> QED
  BY <1>2, <1>3

(* Among the handlers of the other windows only the one for a new window   *)
(* makes the list longer, and none takes the watched window off it.        *)
LEMMA OtherKeepsListed ==
    ASSUME DesktopInv, OtherStep, Watched \in Live
    PROVE  /\ Watched \in Live'
           /\ \/ Len(toplevels') <= Len(toplevels)
              \/ requests <= MaxRequests[Len(toplevels')]
<1>1. IsList(toplevels, Toplevel) /\ toplevels \in Seq(Toplevel) /\ Len(toplevels) \in Nat
  BY InvParts DEF IsList
<1>2. ASSUME NEW next \in Live \cup {NULL}, toplevels' = MruAfterFocus(next)
      PROVE  Live' = Live /\ Len(toplevels') = Len(toplevels)
  BY <1>2, FocusKeepsCount DEF Live
<1>3. ASSUME NEW t \in Toplevel \ {Watched}, handle_new_xdg_toplevel(t),
             requests <= MaxRequests[Len(toplevels')]
      PROVE  Watched \in Live' /\ requests <= MaxRequests[Len(toplevels')]
  <2>1. t \in Toplevel /\ t \notin ToSet(toplevels) /\ toplevels' = wl_list_insert(toplevels, t)
    BY <1>3 DEF handle_new_xdg_toplevel, Live
  <2> QED
    BY <1>1, <1>3, <2>1, InsertEntries DEF Live
<1>4. ASSUME NEW t, handle_toplevel_unmap(t) \/ handle_toplevel_map(t) \/ ButtonPress
      PROVE  Live' = Live /\ Len(toplevels') = Len(toplevels)
  <2>1. CASE handle_toplevel_unmap(t)
    <3> DEFINE rest == mapped \ {t}
               next == IF focused = t THEN NextInMru(rest) ELSE focused
    <3>1. rest \subseteq ToSet(toplevels) /\ mapped \subseteq Live /\ focused \in Live \cup {NULL}
      BY InvParts DEF Live
    <3>2. NextInMru(rest) \in rest \cup {NULL}
      BY <1>1, <3>1, WalkResult DEF NextInMru, IsFirst
    <3>3. next \in Live \cup {NULL} /\ toplevels' = MruAfterFocus(next)
      BY <2>1, <3>1, <3>2 DEF handle_toplevel_unmap, zen_xdg_focus_toplevel
    <3> QED
      BY <1>2, <3>3
  <2>2. CASE handle_toplevel_map(t)
    <3>1. t \in Live /\ toplevels' = MruAfterFocus(t)
      BY <2>2, InvParts DEF handle_toplevel_map, zen_xdg_focus_toplevel
    <3> QED
      BY <1>2, <3>1
  <2>3. CASE ButtonPress
    <3> DEFINE next == IF ToplevelAt(over) = NULL THEN focused ELSE ToplevelAt(over)
    <3>1. next \in Live \cup {NULL} /\ toplevels' = MruAfterFocus(next)
      BY <2>3, InvParts, ToplevelAtIsMapped DEF ButtonPress, zen_xdg_focus_toplevel
    <3> QED
      BY <1>2, <3>1
  <2> QED
    BY <1>4, <2>1, <2>2, <2>3
<1>5. ASSUME NEW t \in Toplevel \ {Watched}, handle_toplevel_destroy(t)
      PROVE  Watched \in Live' /\ Len(toplevels') = Len(toplevels) - 1
  <2>1. t \in ToSet(toplevels) /\ t \notin mapped /\ focused # t
    BY <1>5, InvParts DEF handle_toplevel_destroy, Live
  <2>2. toplevels' = wl_list_remove(toplevels, t)
    BY <1>5, <2>1 DEF handle_toplevel_destroy, MruAfterFocus
  <2> QED
    BY <1>1, <1>5, <2>1, <2>2, RemoveEntries, RemoveIndices DEF Live
<1>6. ASSUME UNCHANGED toplevels
      PROVE  Live' = Live /\ Len(toplevels') = Len(toplevels)
  BY <1>6 DEF Live
<1>7. \/ \E t \in Toplevel \ {Watched} : \/ /\ handle_new_xdg_toplevel(t)
                                            /\ requests <= MaxRequests[Len(toplevels')]
                                         \/ handle_toplevel_destroy(t)
      \/ \E t : handle_toplevel_unmap(t) \/ handle_toplevel_map(t) \/ ButtonPress
      \/ UNCHANGED toplevels
  BY DEF OtherStep, InitialCommit, handle_toplevel_request_move, GeometryChange,
         handle_new_input_keyboard, handle_keyboard_modifiers, handle_keyboard_destroy,
         handle_new_input_other, ButtonRelease, xdgVars
<1> QED
  BY <1>1, <1>3, <1>4, <1>5, <1>6, <1>7

(* The bounds that Request and OtherStep observe, on what is on its way to *)
(* the client and on the number of its requests.                           *)
BoundInv ==
    /\ place \in {"own", "output", "dragged"}
    /\ aborted \in {"no", "request", "focus"}
    /\ Len(sent) + (IF idle THEN 1 ELSE 0) <= MaxPending
    /\ requests \in Nat
    /\ Watched \notin Live => requests = 0
    /\ requests # 0 => requests <= MaxRequests[Len(toplevels)]
(* A number of requests is given for every list of windows. *)
LEMMA CountIsBounded ==
    ASSUME NEW s, IsList(s, Toplevel), ToSet(s) # {}
    PROVE  /\ Len(s) \in Nat /\ Len(s) \in DOMAIN MaxRequests
           /\ MaxRequests[Len(s)] \in Nat
<1>1. s \in Seq(Toplevel) /\ Len(s) \in Nat /\ Len(s) # 0
  BY DEF IsList, ToSet
<1>2. Cardinality(Toplevel) \in Nat /\ Len(s) <= Cardinality(Toplevel)
  BY RequestsAssumption, ListBound, FS_CardinalityType
<1>3. Len(MaxRequests) \in Nat /\ DOMAIN MaxRequests = 1 .. Len(MaxRequests)
  BY WatchedAssumption
<1>4. Len(s) \in DOMAIN MaxRequests
  BY <1>1, <1>2, <1>3, RequestsAssumption
<1> QED
  BY <1>1, <1>4, WatchedAssumption

(* A request is counted and leaves at most one configure more to be sent. *)
LEMMA RequestBound ==
    ASSUME DesktopInv, WindowInv, BoundInv, aborted = "no",
           NEW field \in Field, NEW value, NEW output, Request(field, value, output)
    PROVE  BoundInv'
<1>1. /\ UNCHANGED toplevels /\ aborted' \in {aborted, "request"}
      /\ requests < MaxRequests[Len(toplevels)] /\ requests' = requests + 1
      /\ Watched \in Live /\ sent' = sent
      /\ Len(sent) + (IF idle THEN 1 ELSE 0) < MaxPending
  BY RequestStep DEF Request
<1>2. idle' \in BOOLEAN /\ place' \in {place, "output"}
  <2>1. ASSUME NEW state, Schedule(state)
        PROVE  idle' \in BOOLEAN
    BY <2>1 DEF Schedule, WindowInv, StateInv
  <2>2. CASE NothingDone
    BY <2>2 DEF NothingDone, WindowInv, StateInv
  <2> QED
    BY <2>1, <2>2 DEF Request, handle_toplevel_request_maximize,
                      handle_toplevel_request_fullscreen, Enter, Leave
<1>3. Len(sent) \in Nat
  BY DEF WindowInv, StateInv
<1>4. Len(sent') + (IF idle' THEN 1 ELSE 0) <= MaxPending
  BY <1>1, <1>2, <1>3, WatchedAssumption
<1>5. requests' \in Nat /\ requests' <= MaxRequests[Len(toplevels')] /\ Live' = Live
  <2>1. MaxRequests[Len(toplevels)] \in Nat
    BY <1>1, InvParts, CountIsBounded DEF Live
  <2> QED
    BY <1>1, <2>1 DEF BoundInv, Live
<1> QED
  BY <1>1, <1>2, <1>4, <1>5 DEF BoundInv

(* Fewer windows allow as many requests, and more only where the number of *)
(* requests made so far is allowed.                                        *)
LEMMA OtherBound ==
    ASSUME DesktopInv, DesktopInv', BoundInv, OtherStep
    PROVE  /\ Watched \notin Live' => requests = 0
           /\ requests # 0 => requests <= MaxRequests[Len(toplevels')]
<1>1. CASE Watched \notin Live
  BY <1>1 DEF BoundInv
<1>2. CASE Watched \in Live /\ Len(toplevels') <= Len(toplevels) /\ Watched \in Live'
  <2>1. IsList(toplevels, Toplevel) /\ IsList(toplevels', Toplevel)
    BY InvParts DEF DesktopInv, TypeOK, SurfaceStates, IsInjective, IsList
  <2>2. /\ Len(toplevels) \in DOMAIN MaxRequests /\ MaxRequests[Len(toplevels)] \in Nat
        /\ Len(toplevels') \in DOMAIN MaxRequests /\ MaxRequests[Len(toplevels')] \in Nat
    BY <1>2, <2>1, CountIsBounded DEF Live
  <2>3. MaxRequests[Len(toplevels)] <= MaxRequests[Len(toplevels')]
    BY <1>2, <2>2, RequestsAssumption
  <2> QED
    BY <1>2, <2>2, <2>3 DEF BoundInv
<1>3. CASE Watched \in Live' /\ requests <= MaxRequests[Len(toplevels')]
  BY <1>3
<1> QED
  BY <1>1, <1>2, <1>3, OtherKeepsListed

(* Every step keeps the bounds. *)
LEMMA BoundInvNext ==
    ASSUME DesktopInv, DesktopInv', WindowInv, BoundInv, [WindowNext]_allVars
    PROVE  BoundInv'
<1>1. sent \in Seq(State) /\ Len(sent) \in Nat /\ idle \in BOOLEAN /\ MaxPending \in Nat
  BY WatchedAssumption DEF WindowInv, StateInv
<1>2. CASE /\ WindowNext
           /\ \E field \in Field, value, output \in BOOLEAN : Request(field, value, output)
  BY <1>2, RequestBound DEF WindowNext
<1>3. CASE SendConfigure
  <2>1. /\ UNCHANGED <<toplevels, place, aborted, requests>> /\ idle /\ ~idle'
        /\ Len(sent') = Len(sent) + 1
    BY <1>1, <1>3 DEF SendConfigure, vars, xdgVars, askVars, WindowInv, StateInv
  <2>2. Len(sent') + (IF idle' THEN 1 ELSE 0) <= MaxPending
    BY <1>1, <2>1 DEF BoundInv
  <2> QED
    BY <2>1, <2>2 DEF BoundInv, Live
<1>4. CASE AckAndCommit
  <2>1. UNCHANGED <<toplevels, place, aborted, requests, idle>>
    BY <1>4, ExtentsStep DEF AckAndCommit, askVars
  <2>2. PICK i \in DOMAIN sent : sent' = SubSeq(sent, i + 1, Len(sent))
    BY <1>4 DEF AckAndCommit
  <2>3. i \in 1 .. Len(sent) /\ Len(sent') \in Nat /\ Len(sent') <= Len(sent)
    BY <1>1, <2>2
  <2>4. Len(sent') + (IF idle' THEN 1 ELSE 0) <= MaxPending
    BY <1>1, <2>1, <2>3 DEF BoundInv
  <2> QED
    BY <2>1, <2>4 DEF BoundInv, Live
<1>5. CASE MotionStep
  BY <1>5 DEF MotionStep, zen_input_process_cursor_motion, xdgVars, askVars, BoundInv, Live
<1>6. CASE WindowNext /\ LifecycleStep
  <2>1. /\ place' = "own" /\ requests' = 0 /\ sent' = <<>> /\ idle' = FALSE
        /\ aborted' \in {"no", "focus"}
    BY <1>6 DEF WindowNext, LifecycleStep, AfterFocus
  <2>2. Len(sent') + (IF idle' THEN 1 ELSE 0) <= MaxPending
    BY <1>1, <2>1
  <2> QED
    BY <2>1, <2>2 DEF BoundInv
<1>7. CASE WindowNext /\ OtherStep
  <2>1. UNCHANGED <<sent, idle, place, requests>> /\ aborted' \in {"no", "focus"}
    BY <1>7 DEF WindowNext, OtherStep, AfterFocus, stateVars, askVars
  <2> QED
    BY <1>7, <2>1, OtherBound DEF BoundInv
<1>8. CASE UNCHANGED allVars
  BY <1>8 DEF allVars, vars, xdgVars, windowVars, stateVars, askVars, BoundInv, Live
<1> QED
  BY <1>2, <1>3, <1>4, <1>5, <1>6, <1>7, <1>8 DEF WindowNext

(* Every variable keeps its type, for any number of windows, requests and  *)
(* configures on their way.                                                *)
THEOREM WindowTypeCorrect == WindowSpec => []WindowTypeOK
<1> DEFINE Inv == DesktopInv /\ WindowInv /\ BoundInv
<1>1. WindowInit => Inv
  <2> SUFFICES ASSUME WindowInit PROVE BoundInv
    BY InitInv, WindowInvInit DEF WindowInit
  <2>1. Len(sent) = 0 /\ ~idle /\ MaxPending \in Nat
    BY WatchedAssumption DEF WindowInit
  <2> QED
    BY <2>1 DEF WindowInit, BoundInv
<1>2. Inv /\ [WindowNext]_allVars => Inv'
  <2> SUFFICES ASSUME Inv, [WindowNext]_allVars PROVE Inv'
    OBVIOUS
  <2>1. DesktopInv'
    BY WindowStep, NextInv
  <2> QED
    BY <2>1, WindowInvNext, BoundInvNext
<1>3. Inv => WindowTypeOK
  <2> SUFFICES ASSUME Inv PROVE WindowTypeOK
    OBVIOUS
  <2>1. Len(sent) \in Nat /\ idle \in BOOLEAN
    BY DEF WindowInv, StateInv
  <2>2. Len(sent) <= MaxPending
    BY <2>1, WatchedAssumption DEF BoundInv
  <2> QED
    BY <2>1, <2>2 DEF WindowTypeOK, DesktopInv, WindowInv, StateInv, ScheduledInv, BoundInv
<1> QED
  BY <1>1, <1>2, <1>3, PTL DEF WindowSpec
=============================================================================
