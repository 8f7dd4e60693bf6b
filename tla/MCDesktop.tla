------------------------------ MODULE MCDesktop ------------------------------
(* The desktop and the state of its windows for TLC. *)
EXTENDS WindowState

(* The handlers treat all windows alike but the one that is watched. *)
Symmetry == Permutations(Toplevel \ {Watched})

(* Enough to be maximized, enter fullscreen and leave it, alone on the     *)
(* desktop; one request with two windows, none with three.                 *)
MCMaxRequests == <<3, 1, 0>>
=============================================================================
