-------------------------------- MODULE Bus --------------------------------
(***************************************************************************)
(* The compositor on D-Bus, src/compositor/src/dbus.c: method calls that   *)
(* arrive on the socket of the bus it has joined, and dbus_dispatch_cb,    *)
(* which the event loop calls while there is something on the socket and   *)
(* which takes one message each time.                                      *)
(*                                                                         *)
(* While sd-bus waits for the answer to a call of its own it puts aside    *)
(* whatever else it reads.  A message that is put aside does not make the  *)
(* socket readable.                                                        *)
(*                                                                         *)
(* Definitions named Fault... are plausible mistakes in the definition     *)
(* that follows them; no specification uses them.                          *)
(***************************************************************************)
EXTENDS Naturals, Sequences, SequencesExt

CONSTANTS Call,      \* the calls that peers make: a method, and whether its
                     \* argument is good (for ToggleDarkMode: on or off)
          MaxCalls,  \* how many they make
          LogindBus  \* the bus on which logind is

(* The methods of compositor_vtable; a call of another is refused by sd-bus. *)
Method == {"LaunchApp", "GetRunningApps", "PinToShelf", "UnpinFromShelf",
           "SetShelfConfig", "ToggleDarkMode", "ShowNotification"}

ASSUME CallAssumption == /\ MaxCalls \in Nat
                         /\ \A c \in Call : c.method \in Method /\ c.good \in BOOLEAN
                         /\ LogindBus \in {"system", "user"}

VARIABLES
    bus,         \* compositor->bus: the bus that was joined, or "none"
    socket,      \* messages that nobody has read
    rqueue,      \* messages that sd-bus has read and put aside
    replies,     \* the calls that were replied to, in the order of the replies
    calls,       \* the number of calls made
    dark_mode,   \* compositor->dark_mode
    lockAsked    \* has logind asked for a lock that lock_signal_cb has not seen?

busVars == <<bus, socket, rqueue, replies, calls, dark_mode, lockAsked>>

LockSignal == [method |-> "Lock", good |-> TRUE, id |-> 0]

BusInit ==
    /\ bus = "none" /\ socket = <<>> /\ rqueue = <<>>
    /\ replies = <<>> /\ calls = 0
    /\ dark_mode = FALSE /\ lockAsked = FALSE

(* zen_dbus_init joins the bus of the user and takes its name; without a   *)
(* bus the compositor goes on.                                             *)
zen_dbus_init(joined) ==
    /\ bus' = IF joined THEN "user" ELSE "none"
    /\ UNCHANGED <<socket, rqueue, replies, calls, dark_mode, lockAsked>>

(* sd_bus_match_signal, of zen_lock_init, waits for an answer. *)
sd_bus_match_signal ==
    /\ rqueue' = rqueue \o socket /\ socket' = <<>>
    /\ UNCHANGED <<bus, replies, calls, dark_mode, lockAsked>>

(* A peer calls a method. *)
MethodCall ==
    /\ bus # "none" /\ calls < MaxCalls
    /\ \E c \in Call :
          socket' = Append(socket, [method |-> c.method, good |-> c.good, id |-> calls + 1])
    /\ calls' = calls + 1
    /\ UNCHANGED <<bus, rqueue, replies, dark_mode, lockAsked>>

(* logind emits Lock, on the bus on which it is. *)
LogindLock ==
    /\ ~lockAsked /\ lockAsked' = TRUE
    /\ socket' = IF bus = LogindBus THEN Append(socket, LockSignal) ELSE socket
    /\ UNCHANGED <<bus, rqueue, replies, calls, dark_mode>>

-----------------------------------------------------------------------------
(* The handlers: the replies that each may send, with what it did.  A      *)
(* handler that returns an error has sd-bus reply with it.                 *)
Invalid == {<<"InvalidArgument">>}

(* The child that cannot execute the program is not waited for. *)
handle_launch_app(m) == IF m.good THEN {<<"true">>, <<"Internal">>} ELSE Invalid

FaultNotSent(m) == {<<>>}

handle_get_running_apps(m) == {<<"app_ids">>}

handle_pin_to_shelf(m)      == IF m.good THEN {<<"true">>} ELSE Invalid
handle_unpin_from_shelf(m)  == IF m.good THEN {<<"true">>} ELSE Invalid
handle_set_shelf_config(m)  == IF m.good THEN {<<"true">>} ELSE Invalid
handle_show_notification(m) == IF m.good THEN {<<"1">>} ELSE Invalid
handle_toggle_dark_mode(m)  == {IF m.good THEN <<"true">> ELSE <<"false">>}

(* compositor_vtable. *)
Handle(m) ==
    CASE m.method = "LaunchApp"        -> handle_launch_app(m)
      [] m.method = "GetRunningApps"   -> handle_get_running_apps(m)
      [] m.method = "PinToShelf"       -> handle_pin_to_shelf(m)
      [] m.method = "UnpinFromShelf"   -> handle_unpin_from_shelf(m)
      [] m.method = "SetShelfConfig"   -> handle_set_shelf_config(m)
      [] m.method = "ToggleDarkMode"   -> handle_toggle_dark_mode(m)
      [] m.method = "ShowNotification" -> handle_show_notification(m)

(* sd_bus_process: the message it takes, and the queues without it. *)
NextMessage == IF rqueue # <<>> THEN Head(rqueue) ELSE Head(socket)
TakeMessage ==
    IF rqueue # <<>> THEN rqueue' = Tail(rqueue) /\ UNCHANGED socket
    ELSE socket' = Tail(socket) /\ UNCHANGED rqueue

(* dbus_dispatch_cb with a method call. *)
DispatchCall ==
    /\ socket # <<>> /\ NextMessage.method # "Lock"
    /\ TakeMessage
    /\ \E r \in Handle(NextMessage) :
          replies' = replies \o [i \in DOMAIN r |-> NextMessage.id]
    /\ dark_mode' = IF NextMessage.method = "ToggleDarkMode" THEN NextMessage.good ELSE dark_mode
    /\ UNCHANGED <<bus, calls, lockAsked>>

(* dbus_dispatch_cb with a signal that lock_signal_cb is registered for. *)
DispatchLock ==
    /\ socket # <<>> /\ NextMessage.method = "Lock"
    /\ TakeMessage
    /\ lockAsked' = FALSE
    /\ UNCHANGED <<bus, replies, calls, dark_mode>>

(* zen_dbus_destroy; the callers hear of it from the bus. *)
zen_dbus_destroy ==
    /\ bus' = "none" /\ socket' = <<>> /\ rqueue' = <<>>
    /\ UNCHANGED <<replies, calls, dark_mode, lockAsked>>

-----------------------------------------------------------------------------
(* What dbus_dispatch_cb has not handled, in the order in which it will.   *)
Waiting == rqueue \o socket

(* No call is lost, answered twice or overtaken: the replies are the first *)
(* calls in the order in which they were made, and all later calls wait,   *)
(* in that order, whichever handlers fail (dbus.c:266).                    *)
CallsInOrder == bus # "none" =>
    /\ Len(replies) <= calls
    /\ \A i \in DOMAIN replies : replies[i] = i
    /\ \A i \in DOMAIN Waiting : Waiting[i].id \in {0} \cup (Len(replies) + 1 .. calls)
    /\ \A k \in Len(replies) + 1 .. calls : \E i \in DOMAIN Waiting : Waiting[i].id = k
    /\ \A i, j \in DOMAIN Waiting :
          i < j /\ Waiting[j].id # 0 => Waiting[i].id < Waiting[j].id

(* A call that waits although nothing would wake the dispatcher. *)
Stranded(i) == socket = <<>> /\ \E m \in ToSet(rqueue) : m.id = i
Answered(i) == i \in ToSet(replies)
=============================================================================
