----------------------------- MODULE ScreenLock -----------------------------
(***************************************************************************)
(* The screen lock of src/compositor/src/lock.c: activation from the       *)
(* keybinding, the idle timer and logind, the password field, and unlock   *)
(* through PAM.                                                            *)
(*                                                                         *)
(* Time advances in ticks.  A wl_event_loop timer fires once per arming:   *)
(* timer is the number of ticks it has left, 0 when it is due, and Off     *)
(* when it is not armed.                                                   *)
(*                                                                         *)
(* Definitions named Fault... are plausible mistakes in the definition     *)
(* that follows them; no specification uses them.                          *)
(***************************************************************************)
EXTENDS Naturals, Sequences, SequencesExt

CONSTANTS Char,         \* printable characters (keysyms 0x20 to 0x7e)
          PassMax,      \* ZEN_LOCK_PASS_MAX
          Secret,       \* the password that PAM accepts
          HavePam,      \* is the compositor built with PAM?
          IdleTicks,    \* ZEN_LOCK_IDLE_TIMEOUT_MS
          MaxFailures,  \* how many allocations may fail
          Off,          \* the timer is not armed
          NoTimer       \* s_idle_timer is null

(* Keys with a meaning of their own on the lock screen, and all others. *)
Control == {"BackSpace", "Return", "Escape", "Other"}

ASSUME CharAssumption == Char \cap Control = {}
ASSUME PassMaxAssumption == PassMax \in Nat \ {0}
ASSUME SecretAssumption == Secret \in Seq(Char) /\ HavePam \in BOOLEAN
ASSUME TimerAssumption == /\ IdleTicks \in Nat \ {0}
                          /\ Off \notin Nat /\ NoTimer \notin Nat /\ Off # NoTimer
ASSUME FailureAssumption == MaxFailures \in Nat

VARIABLES
    running,     \* between zen_lock_init and zen_lock_destroy
    locked,      \* compositor->locked
    lock_buffer, \* s_lock.lock_buffer exists
    show_error,  \* s_lock.show_error
    password,    \* s_password and s_password_len
    timer,       \* s_idle_timer
    failures,    \* allocations that failed so far
    (* what the user did *)
    typed,       \* the text typed and edited since the field was last empty;
                 \* it stays as it is once it is longer than the field
    idleFor      \* ticks since the last key, up to IdleTicks

lockVars == <<locked, lock_buffer, show_error, password, typed>>
vars     == <<running, lockVars, timer, failures, idleFor>>

TypeOK ==
    /\ running \in BOOLEAN
    /\ locked \in BOOLEAN
    /\ lock_buffer \in BOOLEAN
    /\ show_error \in BOOLEAN
    /\ password \in Seq(Char) /\ Len(password) <= PassMax
    /\ timer \in (0 .. IdleTicks) \cup {Off, NoTimer}
    /\ failures \in 0 .. MaxFailures
    /\ typed \in Seq(Char) /\ Len(typed) <= PassMax + 1
    /\ idleFor \in 0 .. IdleTicks

FaultTimerNotArmed ==
    /\ running = TRUE
    /\ locked = FALSE /\ lock_buffer = FALSE /\ show_error = FALSE
    /\ password = <<>> /\ typed = <<>>
    /\ timer = Off /\ failures = 0
    /\ idleFor = 0

(* zen_lock_init; it is not fatal when the timer cannot be created. *)
Init ==
    /\ running = TRUE
    /\ locked = FALSE /\ lock_buffer = FALSE /\ show_error = FALSE
    /\ password = <<>> /\ typed = <<>>
    /\ \/ timer = IdleTicks /\ failures = 0
       \/ MaxFailures > 0 /\ timer = NoTimer /\ failures = 1
    /\ idleFor = 0

-----------------------------------------------------------------------------
FaultLockedWithoutScreen ==
    \/ /\ ~locked
       /\ locked' = TRUE /\ show_error' = FALSE /\ password' = <<>> /\ typed' = <<>>
       /\ \/ lock_buffer' = TRUE /\ UNCHANGED failures
          \/ failures < MaxFailures /\ failures' = failures + 1 /\ lock_buffer' = FALSE
    \/ /\ locked
       /\ UNCHANGED <<lockVars, failures>>

(* zen_lock_activate: nothing happens when the screen is locked, and the   *)
(* session stays unlocked when the lock screen cannot be created.          *)
zen_lock_activate ==
    \/ /\ ~locked
       /\ show_error' = FALSE /\ password' = <<>> /\ typed' = <<>>
       /\ \/ locked' = TRUE /\ lock_buffer' = TRUE /\ UNCHANGED failures
          \/ /\ failures < MaxFailures
             /\ failures' = failures + 1
             /\ locked' = FALSE /\ lock_buffer' = FALSE
    \/ /\ locked
       /\ UNCHANGED <<lockVars, failures>>

FaultPasswordKept ==
    /\ locked' = FALSE /\ lock_buffer' = FALSE /\ show_error' = FALSE
    /\ typed' = <<>>
    /\ timer' = IF timer = NoTimer THEN NoTimer ELSE IdleTicks
    /\ UNCHANGED password

FaultTimerNotRestarted ==
    /\ locked' = FALSE /\ lock_buffer' = FALSE /\ show_error' = FALSE
    /\ password' = <<>> /\ typed' = <<>>
    /\ UNCHANGED timer

(* zen_lock_deactivate: the idle timer starts again, if there is one. *)
zen_lock_deactivate ==
    /\ locked' = FALSE /\ lock_buffer' = FALSE /\ show_error' = FALSE
    /\ password' = <<>> /\ typed' = <<>>
    /\ timer' = IF timer = NoTimer THEN NoTimer ELSE IdleTicks

FaultAnyPassword == {FALSE, HavePam}

(* pam_authenticate_password: PAM may also fail for reasons of its own. *)
pam_authenticate_password == {FALSE, HavePam /\ password = Secret}

(* The password field and the text the user edits. *)
SetText(pass, text, error) ==
    /\ password' = pass /\ typed' = text /\ show_error' = error
    /\ UNCHANGED <<locked, lock_buffer, timer>>

Overlong == Len(typed) > PassMax

FaultNothingErased ==
    IF password = <<>> THEN UNCHANGED <<lockVars, timer>>
    ELSE SetText(password, IF Overlong THEN typed ELSE Front(typed), FALSE)

HandleBackSpace ==
    IF password = <<>> THEN UNCHANGED <<lockVars, timer>>
    ELSE SetText(Front(password), IF Overlong THEN typed ELSE Front(typed), FALSE)

HandleReturn ==
    \E success \in pam_authenticate_password :
        IF success THEN zen_lock_deactivate ELSE SetText(<<>>, <<>>, TRUE)

FaultOneTooMany(c) ==
    IF Len(password) <= PassMax
    THEN SetText(Append(password, c), IF Overlong THEN typed ELSE Append(typed, c), FALSE)
    ELSE UNCHANGED <<lockVars, timer>>

HandleChar(c) ==
    IF Len(password) < PassMax
    THEN SetText(Append(password, c), IF Overlong THEN typed ELSE Append(typed, c), FALSE)
    ELSE /\ typed' = IF Overlong THEN typed ELSE Append(typed, c)
         /\ UNCHANGED <<locked, lock_buffer, show_error, password, timer>>

(* zen_lock_handle_key, called for every key while the screen is locked. *)
zen_lock_handle_key(keysym, pressed) ==
    /\ locked
    /\ \/ pressed /\ keysym = "BackSpace" /\ HandleBackSpace
       \/ pressed /\ keysym = "Return" /\ HandleReturn
       \/ pressed /\ keysym = "Escape" /\ SetText(<<>>, <<>>, FALSE)
       \/ pressed /\ keysym \in Char /\ HandleChar(keysym)
       \/ (~pressed \/ keysym = "Other") /\ UNCHANGED <<lockVars, timer>>
    /\ UNCHANGED failures

-----------------------------------------------------------------------------
(* A key on the lock screen. *)
LockedKey(keysym, pressed) ==
    /\ running
    /\ zen_lock_handle_key(keysym, pressed)
    /\ idleFor' = 0
    /\ UNCHANGED running

(* A key while the screen is unlocked goes to a keybinding or a client,    *)
(* and no part of the lock screen hears of it.                             *)
UnlockedKey ==
    /\ running /\ ~locked
    /\ idleFor' = 0
    /\ UNCHANGED <<running, lockVars, timer, failures>>

(* Super+L, execute_action in keybinds.c. *)
LockKeybinding ==
    /\ running /\ ~locked
    /\ zen_lock_activate
    /\ idleFor' = 0
    /\ UNCHANGED <<running, timer>>

(* lock_signal_cb: logind announces that the session is to be locked. *)
lock_signal_cb ==
    /\ running
    /\ zen_lock_activate
    /\ UNCHANGED <<running, timer, idleFor>>

(* idle_timeout_cb: the timer is due, and is not armed again. *)
idle_timeout_cb ==
    /\ running
    /\ timer = 0
    /\ timer' = Off
    /\ zen_lock_activate
    /\ UNCHANGED <<running, idleFor>>

(* Time passes.  A timer that is due stays due until its callback runs. *)
Tick ==
    /\ running
    /\ timer' = IF timer \in 1 .. IdleTicks THEN timer - 1 ELSE timer
    /\ idleFor' = IF idleFor < IdleTicks THEN idleFor + 1 ELSE idleFor
    /\ UNCHANGED <<running, lockVars, failures>>

(* zen_lock_destroy, at the end of the compositor. *)
zen_lock_destroy ==
    /\ running
    /\ running' = FALSE
    /\ timer' = NoTimer
    /\ locked' = FALSE /\ lock_buffer' = FALSE /\ show_error' = FALSE
    /\ password' = <<>> /\ typed' = <<>>
    /\ UNCHANGED <<failures, idleFor>>

Next ==
    \/ \E keysym \in Char \cup Control, pressed \in BOOLEAN : LockedKey(keysym, pressed)
    \/ UnlockedKey
    \/ LockKeybinding
    \/ lock_signal_cb
    \/ idle_timeout_cb
    \/ Tick
    \/ zen_lock_destroy

(* Time passes, and the event loop gets around to a timer that is due. *)
Fairness == WF_vars(Tick) /\ WF_vars(idle_timeout_cb)

Spec == Init /\ [][Next]_vars /\ Fairness

-----------------------------------------------------------------------------
(* Properties.                                                             *)

(* The lock screen is there exactly while the session is locked: a failed  *)
(* activation leaves neither, and unlocking removes both (lock.c:440).     *)
LockedIffShown == locked = lock_buffer

(* No password outlives the lock screen it was typed on, and an error is   *)
(* shown only on an empty password field (lock.c:293, lock.c:336).         *)
NoLeftovers ==
    /\ ~locked => password = <<>> /\ ~show_error
    /\ show_error => password = <<>>

(* Up to the length of the field, s_password is what the user typed, edits *)
(* included (lock.c:319, lock.c:350).                                      *)
FieldIsTyped == ~Overlong => password = typed

(* A session that goes on is unlocked only when PAM accepts what the user  *)
(* typed (lock.c:329).                                                     *)
UnlockOnlyWithSecret ==
    [][locked /\ ~locked' /\ running' => HavePam /\ (Overlong \/ typed = Secret)]_vars

(* An unlocked session has its idle timer armed, unless an allocation      *)
(* failed: only zen_lock_deactivate arms the timer again, so it must be    *)
(* armed whenever the screen is not locked (lock.c:296, lock.c:367).       *)
UnlockedIsTimed == running /\ ~locked /\ failures = 0 => timer \in 0 .. IdleTicks

(* An unlocked session is locked after a while, unless an allocation fails *)
(* or the compositor ends.                                                 *)
IdleSessionLocks == running /\ ~locked ~> locked \/ failures > 0 \/ ~running

(* The idle timeout locks only a session without key activity for that     *)
(* long ("Reset idle timer on any key activity.", input.c:89).             *)
LocksOnlyWhenIdle == [][idle_timeout_cb /\ ~locked => idleFor = IdleTicks]_vars
=============================================================================
