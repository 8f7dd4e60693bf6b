----------------------------- MODULE GuestAgent -----------------------------
(***************************************************************************)
(* Commands that zen-test executes in a virtual machine:                   *)
(* tools/zen-test/src/agent.rs on the host, guest-agent/zen-test-agent in  *)
(* the guest, and between them a virtio-serial port, whose host side is a  *)
(* socket of QEMU.  GateRunner uses these operators for its actions.       *)
(*                                                                         *)
(* Each request has a number of its own here; the code sends one along     *)
(* but never compares it with the one that comes back.  An exit code is    *)
(* only known to be the expected one or not.                               *)
(***************************************************************************)
EXTENDS Naturals, Sequences

VARIABLES
    asked,      \* how many requests were sent to this machine
    conn,       \* the request that waits on the socket, 0 if none is connected
    pending,    \* its line is still in the socket: the guest has not opened the port
    toGuest,    \* the lines that the port holds for the agent
    agentUp,    \* zen-test-agent has the port open
    serving,    \* the request the agent executes, 0 if none
    replies,    \* the lines on the socket that the host has not read
    got,        \* the last answer that was taken, and for which request
    abandoned   \* a request to this machine was given up

channel == <<asked, conn, pending, toGuest, agentUp, serving, replies, got, abandoned>>

ExitCode == {"expected", "other"}
NoAnswer == [request |-> 0, answer |-> 0]

ChannelTypeOK ==
    /\ asked \in Nat
    /\ {conn, serving} \subseteq 0 .. asked
    /\ pending \in BOOLEAN /\ (pending => conn # 0)
    /\ toGuest \in Seq(1 .. asked)
    /\ agentUp \in BOOLEAN
    /\ replies \in Seq([id : 1 .. asked, exit_code : ExitCode])
    /\ got \in [request : 0 .. asked, answer : 0 .. asked]
    /\ abandoned \in BOOLEAN

ChannelInit ==
    /\ asked = 0 /\ conn = 0 /\ pending = FALSE
    /\ toGuest = <<>> /\ agentUp = FALSE /\ serving = 0 /\ replies = <<>>
    /\ got = NoAnswer /\ abandoned = FALSE

-----------------------------------------------------------------------------
(* The host: guest_exec.                                                   *)

(* Connect and write the request. *)
SendRequest ==
    /\ asked' = asked + 1
    /\ conn' = asked + 1
    /\ pending' = TRUE
    /\ UNCHANGED <<toGuest, agentUp, serving, replies, got, abandoned>>

(* The stream is dropped, with what was not delivered or not read. *)
Disconnect == conn' = 0 /\ pending' = FALSE /\ replies' = <<>>

FaultPeeksOnly ==
    /\ conn # 0 /\ replies # <<>>
    /\ got' = [request |-> conn, answer |-> Head(replies).id]
    /\ conn' = 0 /\ pending' = FALSE
    /\ UNCHANGED <<asked, toGuest, agentUp, serving, replies, abandoned>>

(* read_line returned a reply. *)
TakeReply ==
    /\ conn # 0 /\ replies # <<>>
    /\ got' = [request |-> conn, answer |-> Head(replies).id]
    /\ Disconnect
    /\ UNCHANGED <<asked, toGuest, agentUp, serving, abandoned>>

(* The timeout of guest_exec, or the end of zen-test while it waits. *)
GiveUp ==
    /\ abandoned' = (abandoned \/ conn # 0)
    /\ Disconnect
    /\ UNCHANGED <<asked, toGuest, agentUp, serving, got>>

-----------------------------------------------------------------------------
(* The port and the guest.                                                 *)

(* QEMU reads from the socket only while the guest has the port open. *)
Deliver ==
    /\ pending /\ agentUp
    /\ toGuest' = Append(toGuest, conn)
    /\ pending' = FALSE
    /\ UNCHANGED <<asked, conn, agentUp, serving, replies, got, abandoned>>

AgentStart ==
    /\ ~agentUp
    /\ agentUp' = TRUE
    /\ UNCHANGED <<asked, conn, pending, toGuest, serving, replies, got, abandoned>>

(* The agent reads a line and executes the command. *)
AgentRead ==
    /\ agentUp /\ serving = 0 /\ toGuest # <<>>
    /\ serving' = Head(toGuest)
    /\ toGuest' = Tail(toGuest)
    /\ UNCHANGED <<asked, conn, pending, agentUp, replies, got, abandoned>>

(* The command has ended or was stopped by its own timeout.  The write to  *)
(* the port blocks until a host is connected, whichever that is.           *)
AgentReply ==
    /\ serving # 0 /\ conn # 0
    /\ \E e \in ExitCode : replies' = Append(replies, [id |-> serving, exit_code |-> e])
    /\ serving' = 0
    /\ UNCHANGED <<asked, conn, pending, toGuest, agentUp, got, abandoned>>

(* The port is closed and what it holds is discarded. *)
ClosePort == agentUp' = FALSE /\ serving' = 0 /\ toGuest' = <<>>

(* The agent dies; systemd starts it again. *)
AgentDies ==
    /\ agentUp
    /\ ClosePort
    /\ UNCHANGED <<asked, conn, pending, replies, got, abandoned>>

(* The machine is gone, or replaced by a new one while nobody is connected. *)
PortGone ==
    /\ ClosePort
    /\ UNCHANGED <<asked, conn, pending, replies, got, abandoned>>
NewPort ==
    /\ ClosePort
    /\ asked' = 0 /\ got' = NoAnswer /\ abandoned' = FALSE
    /\ UNCHANGED <<conn, pending, replies>>

Guest == Deliver \/ AgentRead \/ AgentReply \/ AgentDies
=============================================================================
