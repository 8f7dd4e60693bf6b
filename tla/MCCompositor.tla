---------------------------- MODULE MCCompositor ----------------------------
(* Compositor for TLC. *)
EXTENDS Compositor

MCSecret == <<"a">>

(* Super+a stands for Super+L, Super+Return for Super+Q. *)
MCBindings == <<<<"Super", "a", "lock_screen">>, <<"Super", "Return", "close_window">>>>
=============================================================================
