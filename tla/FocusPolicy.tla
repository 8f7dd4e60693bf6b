----------------------------- MODULE FocusPolicy -----------------------------
(***************************************************************************)
(* What the window manager promises about focus, without lists, surfaces   *)
(* or devices: windows come into view and leave it, and focus is always on *)
(* the visible window that was used last.                                  *)
(***************************************************************************)

CONSTANTS Window,  \* identities of windows
          NULL     \* no window

VARIABLES visible, \* the windows on screen
          newer,   \* <<v, w>>: v and w are visible, v was used after w
          focus    \* the focused window, or NULL

policyVars == <<visible, newer, focus>>

(* The most recently used window of S according to the order r. *)
Latest(S, r) == IF S = {} THEN NULL
                ELSE CHOOSE v \in S : \A w \in S \ {v} : <<v, w>> \in r

Init ==
    /\ visible = {}
    /\ newer = {}
    /\ focus = NULL

(* A window that appears is the most recently used one and takes focus. *)
Show(w) ==
    /\ w \notin visible
    /\ visible' = visible \cup {w}
    /\ newer' = newer \cup ({w} \X visible)
    /\ focus' = w

(* Using a visible window makes it the most recent one. *)
Use(w) ==
    /\ w \in visible
    /\ newer' = (newer \ (visible \X {w})) \cup ({w} \X (visible \ {w}))
    /\ focus' = w
    /\ UNCHANGED visible

(* When a window leaves, focus stays with, or returns to, the most recently *)
(* used window that is left.                                                *)
Hide(w) ==
    /\ w \in visible
    /\ visible' = visible \ {w}
    /\ newer' = newer \cap (visible' \X visible')
    /\ focus' = Latest(visible', newer')

Next == \E w \in Window : Show(w) \/ Use(w) \/ Hide(w)

Spec == Init /\ [][Next]_policyVars
=============================================================================
