------------------------------ MODULE Session ------------------------------
(***************************************************************************)
(* The session manager, src/session/src/session.c, around the life of the  *)
(* compositor (Startup) that it starts: three attempts to log in through   *)
(* PAM, the session that it asks logind for, the compositor as its child,  *)
(* and what it gives back.  systemd starts it again as the unit says.      *)
(*                                                                         *)
(* Definitions named Fault... are plausible mistakes in the definition     *)
(* that follows them; no specification uses them.                          *)
(***************************************************************************)
EXTENDS Startup

CONSTANTS HavePam,     \* was zen-session built with PAM?
          MaxAttempts, \* 3 in the code
          MaxRestarts  \* how many times systemd may start it again

ASSUME SessionAssumption ==
    HavePam \in BOOLEAN /\ MaxAttempts \in Nat \ {0} /\ MaxRestarts \in Nat

VARIABLES
    at,         \* where zen-session is
    attempt,    \* the attempts to log in that have failed
    echo,       \* does the terminal show what is typed?
    old_term,   \* did it before the prompt?
    pamh,       \* is there a PAM handle?
    admitted,   \* has somebody been authenticated?
    s_bus,      \* is the system bus open?
    session_id, \* s_session_id
    logind,     \* does logind have a session of ours?
    mishaps,    \* what went wrong since the start
    exitCode,   \* of zen-session, when it has exited
    restarts

login       == <<attempt, echo, old_term, pamh, admitted>>
sessionVars == <<at, login, s_bus, session_id, logind, mishaps, exitCode, restarts>>
allVars     == <<vars, sessionVars>>

(* Steps that come after the login, in the order of zen_session_run. *)
Run == {"bus", "create_session", "fork", "wait", "terminate", "destroy"}

SessionTypeOK ==
    /\ TypeOK
    /\ at \in {"username", "password", "pam_start", "pam_prompt", "exited"} \cup Run
    /\ attempt \in 0 .. MaxAttempts
    /\ {echo, old_term, pamh, admitted, s_bus, logind} \subseteq BOOLEAN
    /\ session_id \in {"", "stub", "real"}
    /\ mishaps \subseteq {"fork", "reply", "loginctl", "killed", "signal"}
    /\ exitCode \in {0, 1, 128}
    /\ restarts \in 0 .. MaxRestarts

(* main(): without PAM there is nothing to log in to. *)
FirstStep == IF HavePam THEN "username" ELSE "bus"

SessionInit ==
    /\ Init
    /\ at = FirstStep
    /\ attempt = 0 /\ echo = TRUE /\ old_term = TRUE /\ pamh = FALSE /\ admitted = ~HavePam
    /\ s_bus = FALSE /\ session_id = "" /\ logind = FALSE
    /\ mishaps = {} /\ exitCode = 0 /\ restarts = 0

(* A part of zen-session that the compositor has no part in. *)
Alone == UNCHANGED <<phase, step, have, outputs, papers, bootSignal, hotplugs>>

-----------------------------------------------------------------------------
(* zen_session_init.                                                       *)

FaultOneMore == IF attempt < MaxAttempts THEN at' = "username" /\ UNCHANGED exitCode
                ELSE at' = "exited" /\ exitCode' = 1

FaultResultIgnored == IF attempt + 1 < MaxAttempts THEN at' = "username" /\ UNCHANGED exitCode
                      ELSE at' = "bus" /\ UNCHANGED exitCode

(* After a failed attempt: another, or an exit with an error. *)
Again == IF attempt + 1 < MaxAttempts THEN at' = "username" /\ UNCHANGED exitCode
         ELSE at' = "exited" /\ exitCode' = 1

FailedAttempt ==
    /\ attempt' = attempt + 1
    /\ Again

(* A prompt for a password saves the state of the terminal and hides what  *)
(* is typed, if there is a terminal.                                       *)
HideTyping == echo' \in {echo, FALSE} /\ old_term' = echo

(* pam_conv_fn asks so, and restores what was saved when a line has been   *)
(* read.                                                                   *)
pam_conv_fn == echo' = old_term /\ UNCHANGED old_term

(* The name is read, and the password is asked for; or there is no more    *)
(* input.                                                                  *)
ReadUsername ==
    /\ at = "username"
    /\ \/ at' = "password" /\ HideTyping /\ UNCHANGED <<attempt, exitCode>>
       \/ FailedAttempt /\ UNCHANGED <<echo, old_term>>
    /\ UNCHANGED <<pamh, admitted, s_bus, session_id, logind, mishaps, restarts, failures>>
    /\ Alone

FaultEchoKept ==
    /\ at = "password"
    /\ at' = "pam_start"
    /\ UNCHANGED <<login, s_bus, session_id, logind, mishaps, exitCode, restarts, failures>>
    /\ Alone

(* A password is read, and not used: PAM will ask for one itself. *)
ReadPassword ==
    /\ at = "password"
    /\ at' = "pam_start"
    /\ echo' = old_term
    /\ UNCHANGED <<attempt, old_term, pamh, admitted, s_bus, session_id, logind, mishaps,
                   exitCode, restarts, failures>>
    /\ Alone

(* pam_start, and then pam_authenticate, up to the question it asks. *)
pam_start ==
    /\ at = "pam_start"
    /\ \/ /\ at' = "pam_prompt" /\ pamh' = TRUE /\ HideTyping
          /\ UNCHANGED <<attempt, exitCode, failures>>
       \/ FailedAttempt /\ MayFail /\ UNCHANGED <<pamh, echo, old_term>>
    /\ UNCHANGED <<admitted, s_bus, session_id, logind, mishaps, restarts>>
    /\ Alone

(* What is typed is right, or it is not; the handle is closed either way.  *)
pam_authenticate ==
    /\ at = "pam_prompt"
    /\ pam_conv_fn /\ pamh' = FALSE
    /\ \/ at' = "bus" /\ admitted' = TRUE /\ attempt' = 0 /\ UNCHANGED exitCode
       \/ FailedAttempt /\ UNCHANGED admitted
    /\ UNCHANGED <<s_bus, session_id, logind, mishaps, restarts, failures>>
    /\ Alone

-----------------------------------------------------------------------------
(* zen_session_run, zen_session_destroy.                                   *)

sd_bus_open_system ==
    /\ at = "bus"
    /\ \/ s_bus' = TRUE /\ at' = "create_session" /\ UNCHANGED <<session_id, failures>>
       \/ s_bus' = FALSE /\ at' = "fork" /\ session_id' = "stub" /\ MayFail
    /\ UNCHANGED <<login, logind, mishaps, exitCode, restarts>>
    /\ Alone

(* The session is created and its name is known; it is created and the     *)
(* answer cannot be read; or it is not created.                            *)
CreateSession ==
    /\ at = "create_session"
    /\ at' = "fork"
    /\ \/ logind' = TRUE /\ session_id' = "real" /\ UNCHANGED <<failures, mishaps>>
       \/ /\ logind' = TRUE /\ session_id' = "stub"
          /\ MayFail /\ mishaps' = mishaps \cup {"reply"}
       \/ UNCHANGED <<logind, mishaps>> /\ session_id' = "stub" /\ MayFail
    /\ UNCHANGED <<login, s_bus, exitCode, restarts>>
    /\ Alone

(* The child starts the compositor, or cannot and exits; without a child   *)
(* the session is not terminated.                                          *)
ForkCompositor ==
    /\ at = "fork"
    /\ \/ at' = "wait" /\ UNCHANGED <<mishaps, failures, phase>>
       \/ at' = "wait" /\ phase' = "exited" /\ MayFail /\ UNCHANGED mishaps
       \/ at' = "destroy" /\ MayFail /\ mishaps' = mishaps \cup {"fork"} /\ UNCHANGED phase
    /\ UNCHANGED <<login, s_bus, session_id, logind, exitCode, restarts>>
    /\ UNCHANGED <<step, have, outputs, papers, bootSignal, hotplugs>>

CompositorStep ==
    /\ at = "wait"
    /\ Next
    /\ UNCHANGED sessionVars

(* The process is gone, and all that it had in memory. *)
ProcessGone ==
    /\ have' = {} /\ papers' = <<>> /\ outputs' = {}
    /\ UNCHANGED <<step, bootSignal, hotplugs>>

Ended == phase \in {"exited", "crashed"}

CompositorKilled ==
    /\ at = "wait" /\ ~Ended
    /\ phase' = "crashed" /\ ProcessGone
    /\ MayFail /\ mishaps' = mishaps \cup {"signal"}
    /\ UNCHANGED <<at, login, s_bus, session_id, logind, exitCode, restarts>>

waitpid ==
    /\ at = "wait" /\ Ended
    /\ at' = "terminate"
    /\ UNCHANGED <<login, s_bus, session_id, logind, mishaps, exitCode, restarts, failures>>
    /\ Alone

FaultNotTerminated ==
    /\ at = "terminate"
    /\ at' = "destroy"
    /\ UNCHANGED <<login, s_bus, session_id, logind, mishaps, exitCode, restarts, failures>>
    /\ Alone

(* loginctl terminate-session, under the name that is known. *)
TerminateSession ==
    /\ at = "terminate"
    /\ at' = "destroy"
    /\ \/ logind' = (logind /\ session_id # "real") /\ UNCHANGED <<failures, mishaps>>
       \/ UNCHANGED logind /\ MayFail /\ mishaps' = mishaps \cup {"loginctl"}
    /\ UNCHANGED <<login, s_bus, session_id, exitCode, restarts>>
    /\ Alone

(* main() returns 0 whatever became of the compositor. *)
zen_session_destroy ==
    /\ at = "destroy"
    /\ s_bus' = FALSE /\ session_id' = ""
    /\ at' = "exited" /\ exitCode' = 0
    /\ UNCHANGED <<login, logind, mishaps, restarts, failures>>
    /\ Alone

-----------------------------------------------------------------------------
(* A signal ends zen-session, and systemd the compositor with it. *)
SessionKilled ==
    /\ at # "exited"
    /\ MayFail /\ mishaps' = mishaps \cup {"killed"}
    /\ at' = "exited" /\ exitCode' = 128
    /\ phase' = (IF at = "wait" /\ ~Ended THEN "crashed" ELSE phase) /\ ProcessGone
    /\ pamh' = FALSE /\ s_bus' = FALSE /\ session_id' = ""
    /\ UNCHANGED <<attempt, echo, old_term, admitted, logind, restarts>>

(* zenos-session@.service: Restart=on-failure; the terminal and logind are *)
(* as they were left.                                                      *)
Restart ==
    /\ at = "exited" /\ exitCode # 0
    /\ restarts < MaxRestarts /\ restarts' = restarts + 1
    /\ at' = FirstStep
    /\ attempt' = 0 /\ admitted' = ~HavePam /\ exitCode' = 0
    /\ phase' = "create" /\ step' = 1 /\ bootSignal' = "none"
    /\ UNCHANGED <<echo, old_term, pamh, s_bus, session_id, logind, mishaps, have, outputs,
                   papers, hotplugs, failures>>

(* What zen-session does without waiting for anybody. *)
Proceed ==
    \/ pam_start
    \/ sd_bus_open_system \/ CreateSession \/ ForkCompositor
    \/ waitpid \/ TerminateSession \/ zen_session_destroy
    \/ Restart

SessionNext ==
    \/ ReadUsername \/ ReadPassword \/ pam_authenticate
    \/ Proceed
    \/ CompositorStep \/ CompositorKilled \/ SessionKilled

(* Both processes go on; nothing is assumed of the user. *)
SessionFairness ==
    /\ WF_allVars(Proceed)
    /\ WF_allVars(CompositorStep /\ (CreateStep \/ zen_compositor_run \/ DestroyStep))

SessionSpec == SessionInit /\ [][SessionNext]_allVars /\ SessionFairness

-----------------------------------------------------------------------------
(* Properties.                                                             *)

(* There is a compositor only after somebody was authenticated, in this    *)
(* run of zen-session and within the attempts that it grants (session.c:   *)
(* 168, "Too many failed authentication attempts"), and no PAM handle is   *)
(* open by then.                                                           *)
DesktopOnlyAfterLogin ==
    at \in Run => admitted /\ ~pamh /\ attempt = 0

(* The terminal shows what is typed whenever no password is being read,    *)
(* after any number of failed attempts; only a zen-session that is killed  *)
(* at its prompt leaves it silent, and then for good: a prompt restores    *)
(* what it found (session.c:139, session.c:77).                            *)
EchoRestored ==
    ~echo => at \in {"password", "pam_prompt"} \/ "killed" \in mishaps

(* Whatever becomes of the compositor, the logind session is gone when     *)
(* zen-session exits, unless zen-session could not fork or read its name,  *)
(* loginctl failed, or it was killed itself (ROADMAP.md:465 "Logout        *)
(* terminates all user processes and releases the session").               *)
SessionReleased ==
    at = "exited" /\ logind => mishaps \cap {"fork", "reply", "loginctl", "killed"} # {}

(* Who is authenticated gets a running desktop, or zen-session gives up    *)
(* and exits: neither process waits for the other forever.                 *)
LoginIsAnswered == at = "bus" ~> phase = "run" \/ at = "exited"
=============================================================================
