----------------------------- MODULE GateProofs -----------------------------
(***************************************************************************)
(* Proofs about zen-test: whatever is interrupted, times out or dies, a    *)
(* machine that runs can be found again, a gate cleans up, and requests    *)
(* and replies keep step until one is given up, for gates of every length  *)
(* and every number of commands, attempts and failures.                    *)
(***************************************************************************)
EXTENDS GateRunner, SequenceTheorems, TLAPS

Place == {"idle", "create", "boot", "pid", "wait", "confirm", "probe", "script", "exec",
          "stop", "powerdown", "destroy"}
Status == {"none", "ok", "passed", "failed", "error", "timeout"}
Result == [passed : BOOLEAN, own : BOOLEAN]

(* zen-test: an attempt to reach the agent is left before the gate has     *)
(* made its first request.                                                 *)
HostInv ==
    /\ cmd \in Command /\ pc \in Place /\ report \in Status
    /\ step \in 1 .. Len(Script)
    /\ probes \in 0 .. MaxProbes
    /\ pc \in {"create", "boot", "pid", "wait", "confirm", "probe"} => probes < MaxProbes
    /\ results \in Seq(Result)

(* The machine: a QEMU that lives is the one of the pid file, the files    *)
(* that vm_stop and vm_destroy look for are there, and so is the log.      *)
VmInv ==
    /\ files \in {{}, {"dir"}, {"dir", "config"}}
    /\ lastPid \in Nat /\ qemu \subseteq 1 .. lastPid /\ pidFile \in 0 .. lastPid
    /\ printed \subseteq Pattern /\ serial \subseteq printed
    /\ qemu \subseteq {pidFile}
    /\ qemu # {} => "config" \in files
    /\ files = {} => serial = {}

(* The channel: unless a request was given up, there is nothing on its way *)
(* but the request that waits, which is in one place.                      *)
OneInFlight ==
    \/ toGuest = <<>> /\ serving = 0 /\ replies = <<>>
    \/ conn # 0 /\ ~pending /\ toGuest = <<conn>> /\ serving = 0 /\ replies = <<>>
    \/ conn # 0 /\ ~pending /\ toGuest = <<>> /\ serving = conn /\ replies = <<>>
    \/ /\ conn # 0 /\ ~pending /\ toGuest = <<>> /\ serving = 0
       /\ Len(replies) = 1 /\ replies[1].id = conn

ChannelInv ==
    /\ ChannelTypeOK
    /\ conn = 0 => replies = <<>>
    /\ ~abandoned => OneInFlight /\ got.request = got.answer

(* Somebody is connected only while a command is executed. *)
ConnectedInv == conn # 0 => Executing

-----------------------------------------------------------------------------
(* The script of a gate is a list of steps and ends with the screenshot. *)
LEMMA ScriptIsList ==
    /\ Script \in Seq({"setup", "test", "loop", "serial", "assert", "screenshot"})
    /\ Len(Script) \in Nat \ {0}
<1> DEFINE Kind == {"setup", "test", "loop", "serial", "assert", "screenshot"}
           s1 == [i \in 1 .. Setup |-> "setup"]
           s2 == [i \in 1 .. Test |-> "test"]
           s3 == [i \in 1 .. TestLoop |-> "loop"]
           s4 == [i \in 1 .. ExecAsserts |-> "assert"]
<1>1. Setup \in Nat /\ Test \in Nat /\ TestLoop \in Nat /\ ExecAsserts \in Nat
  BY CountsAssumption
<1>2. s1 \in Seq(Kind) /\ s2 \in Seq(Kind) /\ s3 \in Seq(Kind) /\ s4 \in Seq(Kind)
  BY <1>1
<1>3. <<"serial">> \in Seq(Kind) /\ <<"screenshot">> \in Seq(Kind) /\ Len(<<"screenshot">>) = 1
  OBVIOUS
<1> HIDE DEF Kind, s1, s2, s3, s4
<1>4. /\ s1 \o s2 \o s3 \o <<"serial">> \o s4 \in Seq(Kind)
      /\ Len(s1 \o s2 \o s3 \o <<"serial">> \o s4) \in Nat
  BY <1>2, <1>3
<1>5. Script = s1 \o s2 \o s3 \o <<"serial">> \o s4 \o <<"screenshot">>
  BY DEF Script, s1, s2, s3, s4
<1>6. Script \in Seq(Kind) /\ Len(Script) = Len(s1 \o s2 \o s3 \o <<"serial">> \o s4) + 1
  BY <1>3, <1>4, <1>5
<1> QED
  BY <1>4, <1>6 DEF Kind

-----------------------------------------------------------------------------
(* zen-test.                                                               *)

(* At first no command runs. *)
LEMMA HostInvInit == Init => HostInv
BY CountsAssumption, ScriptIsList, EmptySeq DEF Init, HostInv, Command, Place, Status

(* The ways in which a step of a command ends keep the invariant. *)
LEMMA HostMoves ==
    ASSUME HostInv
    PROVE  /\ \A place \in Place :
                 /\ Goto(place)
                 /\ place \in {"create", "boot", "pid", "wait", "confirm", "probe"}
                        => probes < MaxProbes
                 => HostInv'
           /\ \A status \in Status : Finish(status) \/ Fail(status) => HostInv'
           /\ \A rs \in Seq(Result) : pc = "script" /\ NextStep(rs) => HostInv'
<1> USE DEF HostInv
<1>1. ASSUME NEW place \in Place, Goto(place),
             place \in {"create", "boot", "pid", "wait", "confirm", "probe"}
                 => probes < MaxProbes
      PROVE  HostInv'
  BY <1>1 DEF Goto
<1>2. ASSUME NEW status \in Status, Finish(status)
      PROVE  HostInv'
  BY <1>2 DEF Finish, Place
<1>3. ASSUME NEW status \in Status, Fail(status)
      PROVE  HostInv'
  BY <1>2, <1>3 DEF Fail, Status
<1>4. ASSUME NEW rs \in Seq(Result), pc = "script", NextStep(rs)
      PROVE  HostInv'
  <2>1. Len(Script) \in Nat
    BY ScriptIsList
  <2> QED
    BY <1>4, <2>1 DEF NextStep, GateStatus, Place, Status
<1> QED
  BY <1>1, <1>2, <1>3, <1>4

(* So does an answer of guest_exec, whatever it is. *)
LEMMA AnsweredStep ==
    ASSUME HostInv, NEW res, NEW own \in BOOLEAN, Answered(res, own)
    PROVE  HostInv'
<1>1. CASE pc = "probe"
  <2>1. MaxProbes \in Nat /\ probes \in 0 .. MaxProbes /\ probes < MaxProbes
    BY <1>1, CountsAssumption DEF HostInv
  <2> QED
    BY <1>1, <2>1 DEF Answered, HostInv, Proceed, Place
<1>2. CASE pc = "script"
  <2>1. results \in Seq(Result)
    BY DEF HostInv
  <2>2. [passed |-> res = "expected", own |-> own] \in Result
    BY DEF Result
  <2>3. Append(results, [passed |-> res = "expected", own |-> own]) \in Seq(Result)
    BY <2>1, <2>2
  <2> QED
    BY <1>2, <2>1, <2>3, HostMoves DEF Answered, Status
<1>3. CASE pc = "exec"
  BY <1>3, HostMoves DEF Answered, Status
<1> QED
  BY <1>1, <1>2, <1>3 DEF Answered

(* Every step keeps the invariant of zen-test. *)
LEMMA HostInvNext ==
    ASSUME HostInv, [Next]_vars
    PROVE  HostInv'
<1>1. CASE Invoke
  <2>1. /\ cmd' \in Command /\ pc' \in Place /\ step' = 1 /\ probes' = 0 /\ results' = <<>>
        /\ report' = "none"
    BY <1>1 DEF Invoke, Entry, Command, Place
  <2>2. 0 \in 0 .. MaxProbes /\ 0 < MaxProbes /\ 1 \in 1 .. Len(Script)
    BY CountsAssumption, ScriptIsList
  <2> QED
    BY <2>1, <2>2, EmptySeq DEF HostInv, Status
<1>2. CASE vm_create \/ vm_boot \/ ReadPid \/ wait_for_pattern
  <2>1. pc \in {"create", "boot", "pid", "wait"} /\ probes < MaxProbes
    BY <1>2 DEF HostInv, vm_create, vm_boot, ReadPid, wait_for_pattern
  <2>2. \/ \E place \in {"boot", "pid", "wait", "confirm"} : Goto(place)
        \/ \E status \in {"ok", "failed", "timeout"} : Finish(status) \/ Fail(status)
    BY <1>2 DEF vm_create, vm_boot, ReadPid, wait_for_pattern, Booted
  <2> QED
    BY <2>1, <2>2, HostMoves DEF Place, Status
<1>3. CASE vm_stop \/ StopDeadline \/ vm_destroy \/ GateTimeout
  <2>1. \/ Goto("powerdown")
        \/ \E status \in {report, "ok", "timeout"} : Finish(status)
    BY <1>3 DEF vm_stop, StopDeadline, vm_destroy, GateTimeout
  <2> QED
    BY <2>1, HostMoves DEF Place, Status, HostInv
<1>4. CASE ConfirmBoot
  <2>1. Goto("probe") \/ Goto("script")
    BY <1>4 DEF ConfirmBoot, FromSetup
  <2>2. probes < MaxProbes
    BY <1>4 DEF ConfirmBoot, HostInv
  <2> QED
    BY <2>1, <2>2, HostMoves DEF Place
<1>5. CASE guest_exec \/ GuestExecReply \/ GuestExecClosed \/ GuestExecTimeout
  <2>1. \/ UNCHANGED host
        \/ \E res, own : own \in BOOLEAN /\ Answered(res, own)
    BY <1>5 DEF guest_exec, GuestExecReply, GuestExecClosed, GuestExecTimeout
  <2>2. CASE UNCHANGED host
    BY <2>2 DEF host, HostInv
  <2> QED
    BY <2>1, <2>2, AnsweredStep
<1>6. CASE SerialAsserts
  <2>1. results \o << [passed |-> "ZEN_BOOT_OK" \in serial, own |-> TRUE],
                      [passed |-> "error" \notin serial, own |-> TRUE] >> \in Seq(Result)
    BY DEF HostInv, Result
  <2> QED
    BY <1>6, <2>1, HostMoves DEF SerialAsserts
<1>7. CASE ScreenshotAssert
  <2>1. capture \subseteq BOOLEAN /\ results \in Seq(Result)
    BY DEF HostInv, capture
  <2>2. \A ok \in capture : [passed |-> ok, own |-> TRUE] \in Result
    BY <2>1 DEF Result
  <2>3. ASSUME NEW ok \in capture
        PROVE  Append(results, [passed |-> ok, own |-> TRUE]) \in Seq(Result)
    <3>1. \A r \in Result : Append(results, r) \in Seq(Result)
      BY <2>1
    <3> QED
      BY <2>2, <3>1
  <2> QED
    BY <1>7, <2>3, HostMoves DEF ScreenshotAssert
<1>8. CASE Interrupt
  BY <1>8 DEF Interrupt, HostInv, Place, Status
<1>9. CASE DestroyedByOther \/ GuestPrints \/ QemuExits \/ GuestStep \/ UNCHANGED vars
  BY <1>9 DEF DestroyedByOther, GuestPrints, QemuExits, GuestStep, vars, host, HostInv
<1> QED
  BY <1>1, <1>2, <1>3, <1>4, <1>5, <1>6, <1>7, <1>8, <1>9 DEF Next, ZenTest

-----------------------------------------------------------------------------
(* The machine.                                                            *)

(* A machine that is stopped or dies is no longer there. *)
LEMMA VmSteps ==
    ASSUME VmInv
    PROVE  /\ DestroyMachine => VmInv'
           /\ qemu' = qemu \ {pidFile} /\ pidFile' \in {0, pidFile}
                  /\ UNCHANGED <<files, lastPid, serial, printed>> => VmInv'
           /\ UNCHANGED vm => VmInv'
<1>1. qemu \ {pidFile} = {}
  BY DEF VmInv
<1>2. ASSUME DestroyMachine PROVE VmInv'
  <2>1. /\ qemu' = {} /\ pidFile' \in 0 .. lastPid /\ files' = {} /\ serial' = {}
        /\ UNCHANGED <<lastPid, printed>>
    BY <1>1, <1>2 DEF VmInv, DestroyMachine
  <2> QED
    BY <2>1 DEF VmInv
<1>3. ASSUME qemu' = qemu \ {pidFile}, pidFile' \in {0, pidFile},
             UNCHANGED <<files, lastPid, serial, printed>>
      PROVE  VmInv'
  <2>1. qemu' = {} /\ pidFile' \in 0 .. lastPid /\ lastPid \in Nat
    BY <1>1, <1>3 DEF VmInv
  <2> QED
    BY <1>3, <2>1 DEF VmInv
<1>4. ASSUME UNCHANGED vm PROVE VmInv'
  BY <1>4 DEF VmInv, vm
<1> QED
  BY <1>2, <1>3, <1>4

(* Every step keeps the invariant of the machine: QEMU is started only     *)
(* when none runs, with a pid that no process has had.                     *)
LEMMA VmInvNext ==
    ASSUME VmInv, [Next]_vars
    PROVE  VmInv'
<1>1. CASE vm_create
  BY <1>1 DEF vm_create, VmInv
<1>2. CASE vm_boot
  <2>1. CASE UNCHANGED vm
    BY <2>1, VmSteps
  <2>2. CASE /\ "config" \in files /\ ~Running /\ serial' = {} /\ printed' = {}
             /\ spawn_qemu /\ UNCHANGED files
    BY <2>2 DEF VmInv, Running, spawn_qemu
  <2>3. CASE /\ "config" \in files /\ serial' = {} /\ printed' = {}
             /\ UNCHANGED <<files, pidFile, qemu, lastPid>>
    BY <2>3 DEF VmInv
  <2> QED
    BY <1>2, <2>1, <2>2, <2>3 DEF vm_boot
<1>3. CASE vm_stop \/ StopDeadline
  BY <1>3, VmSteps DEF vm_stop, StopDeadline, KillQemu
<1>4. CASE vm_destroy \/ DestroyedByOther
  BY <1>4, VmSteps DEF vm_destroy, DestroyedByOther
<1>5. CASE GuestPrints
  BY <1>5 DEF GuestPrints, Running, VmInv
<1>6. CASE QemuExits
  BY <1>6, VmSteps DEF QemuExits
<1>7. CASE Invoke \/ ReadPid \/ wait_for_pattern \/ ConfirmBoot \/ GateTimeout \/ Interrupt
           \/ guest_exec \/ GuestExecReply \/ GuestExecClosed \/ GuestExecTimeout
           \/ SerialAsserts \/ ScreenshotAssert \/ GuestStep \/ UNCHANGED vars
  BY <1>7, VmSteps DEF Invoke, ReadPid, wait_for_pattern, ConfirmBoot, GateTimeout, Interrupt,
              guest_exec, GuestExecReply, GuestExecClosed, GuestExecTimeout,
              SerialAsserts, ScreenshotAssert, GuestStep, vars
<1> QED
  BY <1>1, <1>2, <1>3, <1>4, <1>5, <1>6, <1>7 DEF Next, ZenTest

(* A machine that runs can be found again, whatever was interrupted: there *)
(* is one QEMU, and its pid file and directory are there (lifecycle.rs:85).*)
THEOREM MachineFound == Spec => []MachineFindable
<1>1. Init => VmInv
  BY DEF Init, VmInv, Pattern
<1>2. VmInv => MachineFindable
  BY DEF VmInv, MachineFindable
<1> QED
  BY <1>1, <1>2, VmInvNext, PTL DEF Spec

(* What is read in the serial log was printed since the last boot          *)
(* (lifecycle.rs:93).                                                      *)
THEOREM LogIsCurrent == Spec => []LogIsOfThisBoot
<1>1. Init => VmInv
  BY DEF Init, VmInv, Pattern
<1>2. VmInv => LogIsOfThisBoot
  BY DEF VmInv, LogIsOfThisBoot
<1> QED
  BY <1>1, <1>2, VmInvNext, PTL DEF Spec

(* A gate leaves nothing behind: it reports only through vm_destroy, which *)
(* finds what there is to remove (runner.rs:59).                           *)
LEMMA NothingLeftNext ==
    ASSUME HostInv, VmInv, NothingLeftBehind, [Next]_vars
    PROVE  NothingLeftBehind'
<1> SUFFICES ASSUME pc' = "idle", cmd' = "gate", report' # "none"
             PROVE  files' = {} /\ qemu' = {} /\ serial' = {}
  BY DEF NothingLeftBehind
<1>1. ASSUME NEW status, Finish(status) \/ Fail(status)
      PROVE  pc = "destroy"
  BY <1>1 DEF Finish, Fail
<1>2. ASSUME NEW place, Goto(place)
      PROVE  place = "idle"
  BY <1>2 DEF Goto
<1>3. CASE vm_create \/ vm_boot \/ ReadPid \/ wait_for_pattern
  BY <1>1, <1>2, <1>3 DEF vm_create, vm_boot, ReadPid, wait_for_pattern, Booted
<1>4. CASE vm_stop \/ StopDeadline \/ GateTimeout
  BY <1>1, <1>2, <1>4 DEF vm_stop, StopDeadline, GateTimeout, Waiting
<1>5. CASE vm_destroy
  BY <1>5 DEF vm_destroy, DestroyMachine, VmInv, vm
<1>6. CASE ConfirmBoot
  BY <1>2, <1>6 DEF ConfirmBoot, FromSetup
<1>7. ASSUME NEW rs, pc = "script", NextStep(rs)
      PROVE  FALSE
  BY <1>7 DEF NextStep
<1>8. ASSUME NEW res, NEW own, Answered(res, own)
      PROVE  FALSE
  BY <1>1, <1>7, <1>8 DEF Answered, Proceed
<1>9. CASE guest_exec \/ GuestExecReply \/ GuestExecClosed \/ GuestExecTimeout
  <2>1. UNCHANGED host
    BY <1>8, <1>9 DEF guest_exec, GuestExecReply, GuestExecClosed, GuestExecTimeout
  <2> QED
    BY <1>9, <2>1 DEF guest_exec, GuestExecReply, GuestExecClosed, GuestExecTimeout, Executing, host
<1>10. CASE SerialAsserts \/ ScreenshotAssert
  BY <1>7, <1>10 DEF SerialAsserts, ScreenshotAssert
<1>11. CASE Invoke \/ Interrupt
  BY <1>11 DEF Invoke, Interrupt
<1>12. CASE DestroyedByOther
  BY <1>12 DEF DestroyedByOther, Waiting, host
<1>13. CASE GuestPrints \/ QemuExits
  BY <1>13 DEF GuestPrints, QemuExits, Running, host, NothingLeftBehind
<1>14. CASE GuestStep \/ UNCHANGED vars
  BY <1>14 DEF GuestStep, vars, vm, host, NothingLeftBehind
<1> QED
  BY <1>3, <1>4, <1>5, <1>6, <1>9, <1>10, <1>11, <1>12, <1>13, <1>14 DEF Next, ZenTest

(* When a gate has reported, no file, process or log of its machine is     *)
(* left, however it ended ("Always clean up the VM", runner.rs:59).        *)
THEOREM GateCleansUp == Spec => []NothingLeftBehind
<1> DEFINE Inv == HostInv /\ VmInv /\ NothingLeftBehind
<1>1. Init => Inv
  BY HostInvInit DEF Init, VmInv, Pattern, NothingLeftBehind
<1>2. Inv /\ [Next]_vars => Inv'
  BY HostInvNext, VmInvNext, NothingLeftNext
<1>3. Inv => NothingLeftBehind
  OBVIOUS
<1> QED
  BY <1>1, <1>2, <1>3, PTL DEF Spec

-----------------------------------------------------------------------------
(* The channel.                                                            *)

(* A sequence over a set is one over any larger set. *)
LEMMA SeqWider ==
    ASSUME NEW S, NEW T, S \subseteq T, NEW s \in Seq(S)
    PROVE  s \in Seq(T)
OBVIOUS

(* Neither a request nor a reply. *)
LEMMA NothingInFlight ==
    \A n \in Nat : /\ 0 \in 0 .. n
                   /\ <<>> \in Seq(1 .. n) /\ <<>> \in Seq([id : 1 .. n, exit_code : ExitCode])
BY EmptySeq

(* At first nobody is connected and nothing was asked. *)
LEMMA ChannelInvInit == Init => ChannelInv /\ ConnectedInv
<1> SUFFICES ASSUME Init PROVE ChannelInv /\ ConnectedInv
  OBVIOUS
<1>1. ChannelInit
  BY DEF Init
<1>2. got \in [request : 0 .. asked, answer : 0 .. asked] /\ got.request = got.answer
  BY <1>1 DEF ChannelInit, NoAnswer
<1>3. ChannelTypeOK
  BY <1>1, <1>2, NothingInFlight DEF ChannelInit, ChannelTypeOK
<1> QED
  BY <1>1, <1>2, <1>3 DEF ChannelInit, ChannelInv, ConnectedInv, OneInFlight

(* A request is sent. *)
LEMMA SendStep ==
    ASSUME ChannelInv, conn = 0, SendRequest
    PROVE  ChannelInv'
<1>1. asked \in Nat /\ asked' = asked + 1 /\ toGuest \in Seq(1 .. asked) /\ replies = <<>>
  BY DEF ChannelInv, ChannelTypeOK, SendRequest
<1>2. 1 .. asked \subseteq 1 .. asked' /\ 0 .. asked \subseteq 0 .. asked'
  BY <1>1
<1>3. toGuest' \in Seq(1 .. asked')
  BY <1>1, <1>2, SeqWider DEF SendRequest
<1>4. replies' \in Seq([id : 1 .. asked', exit_code : ExitCode])
  BY <1>1, EmptySeq DEF SendRequest
<1>5. got' \in [request : 0 .. asked', answer : 0 .. asked']
  BY <1>1, <1>2 DEF SendRequest, ChannelInv, ChannelTypeOK
<1>6. ChannelTypeOK'
  BY <1>1, <1>2, <1>3, <1>4, <1>5 DEF SendRequest, ChannelInv, ChannelTypeOK
<1>7. ~abandoned' => OneInFlight' /\ got'.request = got'.answer
  BY DEF SendRequest, ChannelInv, OneInFlight
<1>8. conn' # 0
  BY <1>1 DEF SendRequest
<1> QED
  BY <1>6, <1>7, <1>8 DEF ChannelInv

(* A reply is taken: with one request under way it is the reply to it. *)
LEMMA TakeStep ==
    ASSUME ChannelInv, TakeReply
    PROVE  ChannelInv'
<1>1. /\ asked \in Nat /\ conn \in 0 .. asked
      /\ replies \in Seq([id : 1 .. asked, exit_code : ExitCode]) /\ replies # <<>>
  BY DEF ChannelInv, ChannelTypeOK, TakeReply
<1> DEFINE Reply == [id : 1 .. asked, exit_code : ExitCode]
<1>2. Head(replies) = replies[1] /\ Head(replies) \in [id : 1 .. asked, exit_code : ExitCode]
  <2>1. replies \in Seq(Reply) /\ replies # <<>>
    BY <1>1
  <2> HIDE DEF Reply
  <2>2. Head(replies) = replies[1] /\ Head(replies) \in Reply
    BY <2>1
  <2> QED
    BY <2>2 DEF Reply
<1>3. Head(replies).id \in 0 .. asked
  BY <1>1, <1>2
<1>4. got' \in [request : 0 .. asked, answer : 0 .. asked]
  BY <1>1, <1>3 DEF TakeReply
<1>5. ChannelTypeOK'
  <2>1. asked' = asked /\ serving' = serving /\ conn' = 0 /\ pending' = FALSE /\ replies' = <<>>
    BY DEF TakeReply, Disconnect
  <2>2. /\ serving \in 0 .. asked /\ toGuest' \in Seq(1 .. asked)
        /\ agentUp' \in BOOLEAN /\ abandoned' \in BOOLEAN
    BY DEF TakeReply, ChannelInv, ChannelTypeOK
  <2> QED
    BY <1>1, <1>4, <2>1, <2>2, NothingInFlight DEF ChannelTypeOK
<1>6. ~abandoned' => OneInFlight' /\ got'.request = got'.answer
  BY <1>1, <1>2 DEF TakeReply, Disconnect, ChannelInv, OneInFlight
<1> QED
  BY <1>5, <1>6 DEF ChannelInv, TakeReply, Disconnect

(* A request that is given up is remembered. *)
LEMMA GiveUpStep ==
    ASSUME ChannelInv, GiveUp
    PROVE  ChannelInv'
<1>1. ChannelTypeOK'
  <2>1. asked' = asked /\ serving' = serving /\ conn' = 0 /\ pending' = FALSE /\ replies' = <<>>
    BY DEF GiveUp, Disconnect
  <2>2. abandoned' \in BOOLEAN
    BY DEF GiveUp
  <2> QED
    BY <2>1, <2>2, NothingInFlight DEF GiveUp, ChannelInv, ChannelTypeOK
<1>2. ~abandoned' => OneInFlight' /\ got'.request = got'.answer
  BY DEF GiveUp, Disconnect, ChannelInv, OneInFlight
<1> QED
  BY <1>1, <1>2 DEF ChannelInv, GiveUp, Disconnect

(* A new machine starts with nothing on its way. *)
LEMMA NewPortStep ==
    ASSUME ChannelInv, conn = 0, NewPort
    PROVE  ChannelInv'
<1>1. ~pending /\ pending \in BOOLEAN /\ replies = <<>>
  BY DEF ChannelInv, ChannelTypeOK
<1>2. ChannelTypeOK'
  <2>1. /\ asked' = 0 /\ serving' = 0 /\ conn' = 0 /\ pending' = FALSE /\ replies' = <<>>
        /\ toGuest' = <<>> /\ agentUp' = FALSE /\ abandoned' = FALSE
    BY <1>1 DEF NewPort, ClosePort
  <2>2. got' \in [request : 0 .. 0, answer : 0 .. 0]
    BY DEF NewPort, NoAnswer
  <2> QED
    BY <2>1, <2>2, NothingInFlight DEF ChannelTypeOK
<1>3. OneInFlight' /\ got'.request = got'.answer
  BY <1>1 DEF NewPort, ClosePort, NoAnswer, OneInFlight
<1> QED
  BY <1>1, <1>2, <1>3 DEF ChannelInv, NewPort

(* What the guest and the port do. *)
LEMMA GuestSteps ==
    ASSUME ChannelInv, Guest \/ AgentStart \/ PortGone
    PROVE  ChannelInv' /\ conn' = conn
<1> USE DEF ChannelInv
<1>1. CASE Deliver
  <2>1. conn \in 1 .. asked /\ toGuest \in Seq(1 .. asked)
    BY <1>1 DEF ChannelTypeOK, Deliver
  <2>2. Append(toGuest, conn) \in Seq(1 .. asked) /\ Append(<<>>, conn) = <<conn>>
    BY <2>1
  <2>3. ChannelTypeOK'
    BY <1>1, <2>2 DEF ChannelTypeOK, Deliver
  <2>4. ~abandoned' => OneInFlight'
    BY <1>1, <2>1, <2>2 DEF OneInFlight, Deliver
  <2> QED
    BY <1>1, <2>3, <2>4 DEF Deliver
<1>2. CASE AgentRead
  <2>1. Head(toGuest) \in 0 .. asked /\ Tail(toGuest) \in Seq(1 .. asked)
    BY <1>2 DEF ChannelTypeOK, AgentRead
  <2>2. toGuest = <<conn>> => Head(toGuest) = conn /\ Tail(toGuest) = <<>>
    OBVIOUS
  <2>3. ChannelTypeOK'
    BY <1>2, <2>1 DEF ChannelTypeOK, AgentRead
  <2>4. ~abandoned' => OneInFlight'
    BY <1>2, <2>2 DEF OneInFlight, AgentRead
  <2> QED
    BY <1>2, <2>3, <2>4 DEF AgentRead
<1>3. CASE AgentReply
  <2>1. PICK e \in ExitCode : replies' = Append(replies, [id |-> serving, exit_code |-> e])
    BY <1>3 DEF AgentReply
  <2>2. serving \in 1 .. asked /\ replies \in Seq([id : 1 .. asked, exit_code : ExitCode])
    BY <1>3 DEF ChannelTypeOK, AgentReply
  <2>3. replies' \in Seq([id : 1 .. asked, exit_code : ExitCode])
    BY <2>1, <2>2
  <2>4. replies = <<>> => Len(replies') = 1 /\ replies'[1].id = serving
    BY <2>1, <2>2
  <2>5. ChannelTypeOK'
    BY <1>3, <2>3 DEF ChannelTypeOK, AgentReply
  <2>6. ~abandoned' => OneInFlight'
    BY <1>3, <2>4 DEF OneInFlight, AgentReply
  <2> QED
    BY <1>3, <2>5, <2>6 DEF AgentReply
<1>4. CASE AgentDies \/ PortGone
  <2>1. ChannelTypeOK'
    <3>1. /\ asked' = asked /\ serving' = 0 /\ conn' = conn /\ pending' = pending
          /\ replies' = replies /\ toGuest' = <<>> /\ agentUp' = FALSE
      BY <1>4 DEF AgentDies, PortGone, ClosePort
    <3> QED
      BY <1>4, <3>1, NothingInFlight DEF AgentDies, PortGone, ChannelTypeOK
  <2>2. ~abandoned' => OneInFlight'
    BY <1>4 DEF AgentDies, PortGone, ClosePort, OneInFlight
  <2> QED
    BY <1>4, <2>1, <2>2 DEF AgentDies, PortGone
<1>5. CASE AgentStart
  BY <1>5 DEF AgentStart, ChannelTypeOK, OneInFlight
<1> QED
  BY <1>1, <1>2, <1>3, <1>4, <1>5 DEF Guest

(* Every step keeps the invariant of the channel: it is left only by a     *)
(* reply or by giving up, and a machine is booted when nobody is           *)
(* connected.                                                              *)
LEMMA ChannelInvNext ==
    ASSUME ChannelInv, ConnectedInv, [Next]_vars
    PROVE  ChannelInv' /\ ConnectedInv'
<1>0. UNCHANGED channel => ChannelInv' /\ conn' = conn
  <2> SUFFICES ASSUME UNCHANGED channel PROVE ChannelInv' /\ conn' = conn
    OBVIOUS
  <2>1. ChannelTypeOK'
    BY DEF channel, ChannelInv, ChannelTypeOK
  <2>2. ~abandoned' => OneInFlight'
    BY DEF channel, ChannelInv, OneInFlight
  <2> QED
    BY <2>1, <2>2 DEF channel, ChannelInv
<1>1. GiveUp \/ TakeReply => conn' = 0
  BY DEF GiveUp, TakeReply, Disconnect
<1>2. CASE vm_boot
  <2>1. conn = 0
    BY <1>2 DEF ConnectedInv, Executing, vm_boot
  <2> QED
    BY <1>0, <1>2, <2>1, NewPortStep DEF vm_boot, spawn_qemu, NewPort, ConnectedInv
<1>3. CASE \/ Invoke \/ vm_create \/ ReadPid \/ wait_for_pattern \/ ConfirmBoot
           \/ SerialAsserts \/ ScreenshotAssert
  <2>1. ~Executing /\ UNCHANGED channel
    BY <1>3 DEF Invoke, vm_create, ReadPid, wait_for_pattern, ConfirmBoot, SerialAsserts,
                ScreenshotAssert, Executing
  <2> QED
    BY <1>0, <2>1 DEF ConnectedInv
<1>4. CASE vm_stop \/ StopDeadline \/ vm_destroy
  <2>1. ~Executing /\ (UNCHANGED channel \/ PortGone)
    BY <1>4 DEF vm_stop, StopDeadline, vm_destroy, KillQemu, DestroyMachine, Executing
  <2> QED
    BY <1>0, <2>1, GuestSteps DEF ConnectedInv
<1>5. CASE guest_exec
  <2>1. CASE SendRequest /\ UNCHANGED host
    BY <1>5, <2>1, SendStep DEF guest_exec, ConnectedInv, Executing, host
  <2>2. CASE UNCHANGED channel
    BY <1>0, <1>5, <2>2 DEF guest_exec, ConnectedInv
  <2> QED
    BY <1>5, <2>1, <2>2 DEF guest_exec
<1>6. CASE GuestExecReply
  BY <1>1, <1>6, TakeStep DEF GuestExecReply, ConnectedInv
<1>7. CASE GuestExecClosed \/ GuestExecTimeout \/ GateTimeout \/ Interrupt
  BY <1>1, <1>7, GiveUpStep
  DEF GuestExecClosed, GuestExecTimeout, GateTimeout, Interrupt, ConnectedInv
<1>8. CASE DestroyedByOther \/ GuestPrints \/ QemuExits \/ GuestStep
  <2>1. UNCHANGED host /\ (UNCHANGED channel \/ Guest \/ AgentStart \/ PortGone)
    BY <1>8 DEF DestroyedByOther, GuestPrints, QemuExits, GuestStep, DestroyMachine
  <2>2. ChannelInv' /\ conn' = conn
    BY <1>0, <2>1, GuestSteps
  <2> QED
    BY <2>1, <2>2 DEF ConnectedInv, Executing, host
<1>9. CASE UNCHANGED vars
  BY <1>0, <1>9 DEF vars, ConnectedInv, Executing, host
<1> QED
  BY <1>2, <1>3, <1>4, <1>5, <1>6, <1>7, <1>8, <1>9 DEF Next, ZenTest

(* An answer is taken for that to another command only after a request to  *)
(* the same machine was given up, although agent.rs never compares ids     *)
(* (agent.rs:117).                                                         *)
THEOREM RepliesMatch == Spec => []MixupOnlyAfterTimeout
<1> DEFINE Inv == ChannelInv /\ ConnectedInv
<1>1. Init => Inv
  BY ChannelInvInit
<1>2. Inv /\ [Next]_vars => Inv'
  BY ChannelInvNext
<1>3. Inv => MixupOnlyAfterTimeout
  BY DEF ChannelInv, ChannelTypeOK, MixupOnlyAfterTimeout
<1> QED
  BY <1>1, <1>2, <1>3, PTL DEF Spec

-----------------------------------------------------------------------------
(* The counters that bound what is explored stay within their bounds. *)
CountsInv == commands \in 0 .. MaxCommands /\ failures \in 0 .. MaxFailures

(* A command is invoked, or a call fails, only below the bound. *)
LEMMA CountsInvNext ==
    ASSUME CountsInv, [Next]_vars
    PROVE  CountsInv'
<1>1. MaxCommands \in Nat /\ MaxFailures \in Nat
  BY CountsAssumption
<1>2. UNCHANGED <<commands, failures>> => CountsInv'
  BY DEF CountsInv
<1>3. commands' = commands /\ MayFail => CountsInv'
  BY <1>1 DEF CountsInv, MayFail
<1>4. CASE Invoke
  BY <1>1, <1>4 DEF Invoke, CountsInv
<1>5. CASE vm_create
  BY <1>2, <1>3, <1>5 DEF vm_create
<1>6. CASE vm_boot
  BY <1>2, <1>3, <1>6 DEF vm_boot
<1>7. CASE ReadPid \/ wait_for_pattern \/ vm_stop \/ StopDeadline \/ vm_destroy \/ ConfirmBoot
  BY <1>2, <1>7 DEF ReadPid, wait_for_pattern, vm_stop, StopDeadline, vm_destroy, ConfirmBoot
<1>8. CASE guest_exec \/ GuestExecReply \/ GuestExecClosed \/ GuestExecTimeout
  BY <1>2, <1>8 DEF guest_exec, GuestExecReply, GuestExecClosed, GuestExecTimeout
<1>9. CASE SerialAsserts \/ ScreenshotAssert \/ GateTimeout \/ Interrupt
  BY <1>2, <1>9 DEF SerialAsserts, ScreenshotAssert, GateTimeout, Interrupt
<1>10. CASE DestroyedByOther \/ GuestPrints \/ QemuExits \/ GuestStep \/ UNCHANGED vars
  BY <1>2, <1>10 DEF DestroyedByOther, GuestPrints, QemuExits, GuestStep, vars
<1> QED
  BY <1>4, <1>5, <1>6, <1>7, <1>8, <1>9, <1>10 DEF Next, ZenTest

(* The steps of lifecycle.rs, runner.rs and agent.rs keep every variable   *)
(* within its type; the gate never tries the agent more often than it may. *)
THEOREM GateTypeCorrect == Spec => []TypeOK
<1> DEFINE Inv == HostInv /\ VmInv /\ ChannelInv /\ ConnectedInv /\ CountsInv
<1>1. Init => Inv
  <2>1. Init => VmInv /\ CountsInv
    BY CountsAssumption DEF Init, VmInv, Pattern, CountsInv
  <2> QED
    BY <2>1, HostInvInit, ChannelInvInit
<1>2. Inv /\ [Next]_vars => Inv'
  BY HostInvNext, VmInvNext, ChannelInvNext, CountsInvNext
<1>3. Inv => TypeOK
  BY DEF HostInv, VmInv, ChannelInv, CountsInv, TypeOK, Place, Status, Result
<1> QED
  BY <1>1, <1>2, <1>3, PTL DEF Spec
=============================================================================
