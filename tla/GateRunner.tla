----------------------------- MODULE GateRunner -----------------------------
(***************************************************************************)
(* zen-test: the life of one virtual machine (src/vm/lifecycle.rs), the    *)
(* quality gate that uses it (src/gate/runner.rs) and the commands of      *)
(* main.rs that touch the same machine.  Commands are invoked one after    *)
(* the other; one may be interrupted, and another terminal may destroy the *)
(* machine while a command waits.                                          *)
(*                                                                         *)
(* zen-test is a sequence of steps; pc says where it waits.  What happens  *)
(* between two awaits is one step.                                         *)
(*                                                                         *)
(* Definitions named Fault... are plausible mistakes in the definition     *)
(* that follows them; no specification uses them.                          *)
(***************************************************************************)
EXTENDS GuestAgent, SequencesExt

CONSTANTS
    Setup, Test, TestLoop, ExecAsserts, \* commands of each section of the gate
    MaxProbes,      \* attempts to reach the guest agent, 15 in the code
    MaxCommands,    \* how many commands are invoked
    MaxFailures     \* how many system calls may fail

ASSUME CountsAssumption ==
    /\ {Setup, Test, TestLoop, ExecAsserts, MaxCommands, MaxFailures} \subseteq Nat
    /\ MaxProbes \in Nat \ {0}

VARIABLES
    cmd,        \* the command that runs, or the last one
    pc,         \* where it is, "idle" when there is none
    step,       \* run_gate_inner: the step of the script
    probes,     \* attempts to reach the guest agent so far
    results,    \* the assertions evaluated so far
    report,     \* the status the command reports, "none" before it does
    files,      \* what the directory of the machine holds
    pidFile,    \* qemu.pid, 0 if there is none
    qemu,       \* the QEMU processes that live
    lastPid,    \* pids are not used twice
    serial,     \* serial.log: what it contains
    printed,    \* what the machine has printed since it was booted
    commands, failures

host == <<cmd, pc, step, probes, results, report>>
vm   == <<files, pidFile, qemu, lastPid, serial, printed>>
vars == <<host, vm, channel, commands, failures>>

(* What the serial log may contain: the boot signal, the fallback, an      *)
(* error pattern.                                                          *)
Pattern == {"ZEN_BOOT_OK", "login:", "error"}

(* The steps of run_gate_inner from the setup on; the gate asserts that    *)
(* the boot signal is in the log and that no error is.                     *)
Script ==
    [i \in 1 .. Setup |-> "setup"] \o [i \in 1 .. Test |-> "test"]
        \o [i \in 1 .. TestLoop |-> "loop"] \o <<"serial">>
        \o [i \in 1 .. ExecAsserts |-> "assert"] \o <<"screenshot">>

Command == {"gate", "create", "boot", "boot_wait", "stop", "stop_force", "destroy", "exec"}

TypeOK ==
    /\ ChannelTypeOK
    /\ cmd \in Command
    /\ pc \in {"idle", "create", "boot", "pid", "wait", "confirm", "probe", "script", "exec",
               "stop", "powerdown", "destroy"}
    /\ step \in 1 .. Len(Script)
    /\ probes \in 0 .. MaxProbes
    /\ results \in Seq([passed : BOOLEAN, own : BOOLEAN])
    /\ report \in {"none", "ok", "passed", "failed", "error", "timeout"}
    /\ files \in {{}, {"dir"}, {"dir", "config"}}
    /\ lastPid \in Nat /\ qemu \subseteq 1 .. lastPid /\ pidFile \in 0 .. lastPid
    /\ serial \subseteq Pattern /\ printed \subseteq Pattern
    /\ commands \in 0 .. MaxCommands
    /\ failures \in 0 .. MaxFailures

Init ==
    /\ ChannelInit
    /\ cmd = "gate" /\ pc = "idle" /\ step = 1 /\ probes = 0
    /\ results = <<>> /\ report = "none"
    /\ files = {} /\ pidFile = 0 /\ qemu = {} /\ lastPid = 0
    /\ serial = {} /\ printed = {}
    /\ commands = 0 /\ failures = 0

-----------------------------------------------------------------------------
(* How a step ends.                                                        *)

MayFail == failures < MaxFailures /\ failures' = failures + 1

Goto(place) == pc' = place /\ UNCHANGED <<cmd, step, probes, results, report>>

(* The command ends; run_gate first destroys the machine. *)
Finish(status) ==
    /\ report' = status
    /\ pc' = IF cmd = "gate" /\ pc # "destroy" THEN "destroy" ELSE "idle"
    /\ UNCHANGED <<cmd, step, probes, results>>

(* An error of an inner step is the error of the gate. *)
Fail(status) == Finish(IF cmd = "gate" THEN "error" ELSE status)

(* The machine is up, for a command that only wanted that. *)
Booted == IF cmd = "gate" THEN Goto("confirm") ELSE Finish("ok")

Running == pidFile \in qemu

(* handle_vm and handle_gate: the command line. *)
Entry(c) ==
    CASE c \in {"gate", "create"}       -> "create"
      [] c \in {"boot", "boot_wait"}    -> "boot"
      [] c \in {"stop", "stop_force"}   -> "stop"
      [] c = "destroy"                  -> "destroy"
      [] c = "exec"                     -> "exec"

Invoke ==
    /\ pc = "idle" /\ commands < MaxCommands
    /\ commands' = commands + 1
    /\ \E c \in Command : cmd' = c /\ pc' = Entry(c)
    /\ step' = 1 /\ probes' = 0 /\ results' = <<>> /\ report' = "none"
    /\ UNCHANGED <<vm, channel, failures>>

-----------------------------------------------------------------------------
(* vm_create and vm_boot.                                                  *)

(* The directory comes first and stays when a later step fails. *)
vm_create ==
    /\ pc = "create"
    /\ \/ /\ files # {} /\ Fail("failed")
          /\ UNCHANGED <<files, failures>>
       \/ /\ files = {}
          /\ \/ /\ files' = {"dir", "config"}
                /\ IF cmd = "gate" THEN Goto("boot") ELSE Finish("ok")
                /\ UNCHANGED failures
             \/ files' = {"dir"} /\ Fail("failed") /\ MayFail
    /\ UNCHANGED <<pidFile, qemu, lastPid, serial, printed, channel, commands>>

(* With -daemonize the call returns when QEMU has written its pid file. *)
spawn_qemu ==
    /\ lastPid' = lastPid + 1
    /\ qemu' = qemu \cup {lastPid + 1}
    /\ pidFile' = lastPid + 1
    /\ NewPort

FaultLogKept ==
    /\ pc = "boot" /\ "config" \in files /\ ~Running
    /\ printed' = {}
    /\ spawn_qemu /\ Goto("pid")
    /\ UNCHANGED <<files, serial, commands, failures>>

FaultRunningIgnored ==
    /\ pc = "boot" /\ "config" \in files
    /\ serial' = {} /\ printed' = {}
    /\ spawn_qemu /\ Goto("pid")
    /\ UNCHANGED <<files, commands, failures>>

(* The machine must exist and not run; stale files are removed first. *)
vm_boot ==
    /\ pc = "boot"
    /\ \/ /\ "config" \notin files \/ Running
          /\ Fail("failed")
          /\ UNCHANGED <<vm, channel, failures>>
       \/ /\ "config" \in files /\ ~Running
          /\ serial' = {} /\ printed' = {}
          /\ \/ spawn_qemu /\ Goto("pid") /\ UNCHANGED failures
             \/ /\ MayFail /\ Fail("failed")
                /\ UNCHANGED <<pidFile, qemu, lastPid, channel>>
          /\ UNCHANGED files
    /\ UNCHANGED commands

(* 500 ms later. *)
ReadPid ==
    /\ pc = "pid"
    /\ IF ~Running THEN Fail("failed")
       ELSE IF cmd = "boot" THEN Finish("ok") ELSE Goto("wait")
    /\ UNCHANGED <<vm, channel, commands, failures>>

FaultNoDeadline ==
    /\ pc = "wait" /\ serial # {}
    /\ IF serial \cap {"ZEN_BOOT_OK", "login:"} # {} THEN Booted ELSE Fail("failed")
    /\ UNCHANGED <<vm, channel, commands, failures>>

(* A poll that finds something, success before errors, or the deadline. *)
wait_for_pattern ==
    /\ pc = "wait"
    /\ \/ serial \cap {"ZEN_BOOT_OK", "login:"} # {} /\ Booted
       \/ serial = {"error"} /\ Fail("failed")
       \/ Fail("timeout")
    /\ UNCHANGED <<vm, channel, commands, failures>>

-----------------------------------------------------------------------------
(* vm_stop and vm_destroy.                                                 *)

KillQemu == qemu' = qemu \ {pidFile} /\ pidFile' = 0 /\ PortGone

(* Up to the wait for the guest to power down. *)
vm_stop ==
    /\ pc = "stop"
    /\ \/ ~Running /\ Finish("ok") /\ UNCHANGED <<vm, channel>>
       \/ /\ Running /\ cmd = "stop_force"
          /\ KillQemu /\ Finish("ok")
          /\ UNCHANGED <<files, lastPid, serial, printed>>
       \/ Running /\ cmd = "stop" /\ Goto("powerdown") /\ UNCHANGED <<vm, channel>>
    /\ UNCHANGED <<commands, failures>>

(* The process is gone, or the deadline has passed and it is made to go. *)
StopDeadline ==
    /\ pc = "powerdown"
    /\ qemu' = qemu \ {pidFile} /\ pidFile' = 0
    /\ IF Running THEN PortGone ELSE UNCHANGED channel
    /\ Finish("ok")
    /\ UNCHANGED <<files, lastPid, serial, printed, commands, failures>>

(* Stop by force what runs, and remove the directory with all in it. *)
DestroyMachine ==
    /\ qemu' = qemu \ {pidFile}
    /\ files' = {} /\ pidFile' = 0 /\ serial' = {}
    /\ IF Running THEN PortGone ELSE UNCHANGED channel
    /\ UNCHANGED <<lastPid, printed>>

vm_destroy ==
    /\ pc = "destroy"
    /\ IF files = {} THEN UNCHANGED <<vm, channel>> ELSE DestroyMachine
    /\ Finish(IF cmd = "gate" THEN report ELSE "ok")
    /\ UNCHANGED <<commands, failures>>

-----------------------------------------------------------------------------
(* run_gate_inner after the boot, and vm exec.                             *)

FromSetup == IF Setup + Test + TestLoop + ExecAsserts > 0 THEN "probe" ELSE "script"

(* The boot signal is confirmed, or missed for a minute. *)
ConfirmBoot ==
    /\ pc = "confirm"
    /\ Goto(FromSetup)
    /\ UNCHANGED <<vm, channel, commands, failures>>

(* The gate has evaluated its last assertion, or goes on. *)
GateStatus(rs) == IF \A i \in DOMAIN rs : rs[i].passed THEN "passed" ELSE "failed"

NextStep(rs) ==
    /\ results' = rs
    /\ IF step < Len(Script)
       THEN step' = step + 1 /\ UNCHANGED <<cmd, pc, probes, report>>
       ELSE report' = GateStatus(rs) /\ pc' = "destroy" /\ UNCHANGED <<cmd, step, probes>>

FaultCountedTwice ==
    pc' = "script" /\ probes' = probes + 2 /\ UNCHANGED <<cmd, step, results, report>>

(* The agent is there, or has been tried often enough. *)
Proceed == pc' = "script" /\ probes' = probes + 1 /\ UNCHANGED <<cmd, step, results, report>>

(* What the caller makes of the result of guest_exec: of an exit code, of  *)
(* an error or of a timeout; own says whether the answer was to the        *)
(* command itself.                                                         *)
Answered(res, own) ==
    \/ /\ pc = "probe"
       /\ IF res = "expected" \/ probes + 1 = MaxProbes THEN Proceed
          ELSE probes' = probes + 1 /\ UNCHANGED <<cmd, pc, step, results, report>>
    \/ /\ pc = "script" /\ Script[step] \in {"setup", "loop"}
       /\ NextStep(results)
    \/ /\ pc = "script" /\ Script[step] = "test"
       /\ IF res \in ExitCode THEN NextStep(results) ELSE Finish("error")
    \/ /\ pc = "script" /\ Script[step] = "assert"
       /\ NextStep(Append(results, [passed |-> res = "expected", own |-> own]))
    \/ /\ pc = "exec"
       /\ Finish(IF res \in ExitCode THEN "ok"
                 ELSE IF res = "timeout" THEN "timeout" ELSE "failed")

Executing ==
    \/ pc \in {"probe", "exec"}
    \/ pc = "script" /\ Script[step] \in {"setup", "test", "loop", "assert"}

(* guest_exec connects, if there is something to connect to. *)
guest_exec ==
    /\ Executing /\ conn = 0
    /\ IF Running THEN SendRequest /\ UNCHANGED host
       ELSE Answered("error", FALSE) /\ UNCHANGED channel
    /\ UNCHANGED <<vm, commands, failures>>

GuestExecReply ==
    /\ Executing
    /\ TakeReply
    /\ Answered(Head(replies).exit_code, Head(replies).id = conn)
    /\ UNCHANGED <<vm, commands, failures>>

(* The machine went away and the socket with it. *)
GuestExecClosed ==
    /\ Executing /\ conn # 0 /\ replies = <<>> /\ ~Running
    /\ Answered("error", FALSE)
    /\ GiveUp
    /\ UNCHANGED <<vm, commands, failures>>

GuestExecTimeout ==
    /\ Executing /\ conn # 0
    /\ Answered("timeout", FALSE)
    /\ GiveUp
    /\ UNCHANGED <<vm, commands, failures>>

(* Assertions about the log: each is evaluated on the file as it is now. *)
SerialAsserts ==
    /\ pc = "script" /\ Script[step] = "serial"
    /\ NextStep(results \o << [passed |-> "ZEN_BOOT_OK" \in serial, own |-> TRUE],
                              [passed |-> "error" \notin serial, own |-> TRUE] >>)
    /\ UNCHANGED <<vm, channel, commands, failures>>

(* A screen dump over QMP, which may fail or be blank. *)
capture == IF Running THEN BOOLEAN ELSE {FALSE}

ScreenshotAssert ==
    /\ pc = "script" /\ Script[step] = "screenshot"
    /\ \E ok \in capture : NextStep(Append(results, [passed |-> ok, own |-> TRUE]))
    /\ UNCHANGED <<vm, channel, commands, failures>>

-----------------------------------------------------------------------------
(* What happens to a command that waits.                                   *)

Waiting == pc \in {"pid", "wait", "confirm", "probe", "script", "exec", "powerdown"}

FaultNoCleanup ==
    /\ cmd = "gate" /\ Waiting
    /\ pc' = "idle" /\ report' = "timeout"
    /\ GiveUp
    /\ UNCHANGED <<cmd, step, probes, results, vm, commands, failures>>

(* The timeout of the whole gate drops run_gate_inner where it waits. *)
GateTimeout ==
    /\ cmd = "gate" /\ Waiting
    /\ Finish("timeout")
    /\ GiveUp
    /\ UNCHANGED <<vm, commands, failures>>

(* zen-test is interrupted: nothing is cleaned up. *)
Interrupt ==
    /\ Waiting
    /\ pc' = "idle" /\ report' = "none"
    /\ GiveUp
    /\ UNCHANGED <<cmd, step, probes, results, vm, commands, failures>>

(* vm destroy in another terminal. *)
DestroyedByOther ==
    /\ Waiting /\ files # {}
    /\ DestroyMachine
    /\ UNCHANGED <<host, commands, failures>>

-----------------------------------------------------------------------------
(* The machine.                                                            *)

GuestPrints ==
    /\ Running
    /\ \E p \in Pattern : serial' = serial \cup {p} /\ printed' = printed \cup {p}
    /\ UNCHANGED <<files, pidFile, qemu, lastPid, host, channel, commands, failures>>

(* QEMU exits and removes its pid file, or crashes and does not. *)
QemuExits ==
    /\ Running
    /\ qemu' = qemu \ {pidFile}
    /\ pidFile' \in {0, pidFile}
    /\ PortGone
    /\ UNCHANGED <<files, lastPid, serial, printed, host, commands, failures>>

GuestStep ==
    /\ Guest \/ (Running /\ AgentStart)
    /\ UNCHANGED <<host, vm, commands, failures>>

ZenTest ==
    \/ vm_create \/ vm_boot \/ ReadPid \/ wait_for_pattern
    \/ vm_stop \/ StopDeadline \/ vm_destroy
    \/ ConfirmBoot
    \/ guest_exec \/ GuestExecReply \/ GuestExecClosed \/ GuestExecTimeout
    \/ SerialAsserts \/ ScreenshotAssert
    \/ GateTimeout

Next ==
    \/ Invoke \/ ZenTest \/ Interrupt \/ DestroyedByOther
    \/ GuestPrints \/ QemuExits \/ GuestStep

(* Every wait of zen-test has a deadline; nothing is assumed of the guest. *)
Fairness == WF_vars(ZenTest)

Spec == Init /\ [][Next]_vars /\ Fairness

-----------------------------------------------------------------------------
(* Properties.                                                             *)

(* A machine that runs can be found: there is one, and its directory and   *)
(* pid file are there for vm_stop and vm_destroy, whatever was interrupted *)
(* before (vm_boot, lifecycle.rs:85).                                      *)
MachineFindable ==
    \A p \in qemu : qemu = {p} /\ pidFile = p /\ "config" \in files

(* When a gate has reported, nothing of its machine is left, whether it    *)
(* passed, failed, timed out or met the leftovers of another run ("Always  *)
(* clean up the VM", runner.rs:59).                                        *)
NothingLeftBehind ==
    pc = "idle" /\ cmd = "gate" /\ report # "none" =>
        files = {} /\ qemu = {} /\ serial = {}

(* What is waited for and asserted in the serial log was printed by the    *)
(* machine as it was booted last, never by an earlier boot of it           *)
(* (lifecycle.rs:93).                                                      *)
LogIsOfThisBoot ==
    pc \in {"pid", "wait", "confirm", "probe", "script"} => serial \subseteq printed

(* An answer is mistaken for that to another command only after a request  *)
(* to the same machine was given up; otherwise requests and replies keep   *)
(* step, although the ids are not compared (agent.rs:117).                 *)
MixupOnlyAfterTimeout == got.request # got.answer => abandoned

(* Every command ends, whatever guest and QEMU do ("You will never get     *)
(* stuck", USAGE_GUIDE.md:5).                                              *)
EveryCommandEnds == pc # "idle" ~> pc = "idle"

(* A gate that passes has seen the exit code of each command it asserts    *)
(* ("Guest command must exit with expected code", USAGE_GUIDE.md:444).     *)
PassedIsProved == report = "passed" => \A i \in DOMAIN results : results[i].own
=============================================================================
