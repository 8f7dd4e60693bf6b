--------------------------- MODULE ServicesProofs ---------------------------
(***************************************************************************)
(* Proofs about Services, for any configuration file, any calls and any    *)
(* number of failures: the screen lock keeps its guarantees next to the    *)
(* keybindings and the bus, no call is lost or overtaken, and each binding *)
(* has the keys that it should have.                                       *)
(***************************************************************************)
EXTENDS Services, ScreenLockProofs, WellFoundedInduction

-----------------------------------------------------------------------------
(* The screen lock among the services.                                     *)

(* A failure outside the lock screen: the screen lock only counts it. *)
OtherFailure ==
    failures < MaxFailures /\ failures' = failures + 1
    /\ UNCHANGED <<running, lockVars, timer, idleFor>>

(* Every step is one of the screen lock, none of its own, or a failure     *)
(* elsewhere.                                                              *)
LEMMA StepOfLock == [ServicesNext]_serviceVars => [Next]_vars \/ OtherFailure
<1> SUFFICES ASSUME [ServicesNext]_serviceVars PROVE [Next]_vars \/ OtherFailure
  OBVIOUS
<1> USE DEF vars
<1>1. CASE KeybindsStep
  BY <1>1 DEF KeybindsStep, MayFail, OtherFailure
<1>2. CASE DBusStep
  BY <1>2 DEF DBusStep, MayFail, OtherFailure
<1>3. CASE LockInitStep
  BY <1>3 DEF LockInitStep
<1>4. CASE Message
  BY <1>4 DEF Message
<1>5. CASE DispatchStep
  BY <1>5 DEF DispatchStep, dbus_dispatch_cb, Next
<1>6. CASE KeyStep
  BY <1>6 DEF KeyStep, Next
<1>7. CASE TimeStep
  BY <1>7 DEF TimeStep, Next
<1>8. CASE ShutdownStep
  BY <1>8 DEF ShutdownStep, Next
<1>9. CASE UNCHANGED serviceVars
  BY <1>9 DEF serviceVars
<1>10. QED
  BY <1>1, <1>2, <1>3, <1>4, <1>5, <1>6, <1>7, <1>8, <1>9 DEF ServicesNext, Startup

(* The failure of another service leaves the screen lock alone. *)
LEMMA FailureKeepsLockInv == LockInv /\ OtherFailure => LockInv'
BY FailureAssumption
   DEF OtherFailure, LockInv, TypeOK, LockedIffShown, NoLeftovers, FieldIsTyped, TimerStates,
       Overlong, lockVars

(* The invariant of the screen lock survives everything around it. *)
LEMMA LockInvAmongServices == ServicesSpec => []LockInv
<1>1. ServicesInit => LockInv
  BY InitLockInv DEF ServicesInit
<1>2. LockInv /\ [ServicesNext]_serviceVars => LockInv'
  BY StepOfLock, FailureKeepsLockInv, NextLockInv
<1>3. QED
  BY <1>1, <1>2, PTL DEF ServicesSpec

(* Next to the other services the screen lock keeps what it promises: the  *)
(* lock screen is there while the session is locked, no password outlives  *)
(* it, the field holds what was typed and the idle timer is armed, also    *)
(* when reading keybinds.json or joining the bus fails                     *)
(* (zen_compositor_create).                                                *)
THEOREM LockAmongServices ==
    ServicesSpec => [](LockedIffShown /\ NoLeftovers /\ FieldIsTyped /\ UnlockedIsTimed)
<1>1. LockInv => LockedIffShown /\ NoLeftovers /\ FieldIsTyped /\ UnlockedIsTimed
  BY DEF LockInv, TypeOK, TimerStates, UnlockedIsTimed
<1>2. QED
  BY <1>1, LockInvAmongServices, PTL

(* Neither a keybinding, whatever the file binds, nor a message on the bus *)
(* unlocks the session: only the password does (zen_lock_handle_key).      *)
THEOREM UnlockAmongServices == ServicesSpec => UnlockOnlyWithSecret
<1>1. LockInv /\ [Next]_vars
        => [locked /\ ~locked' /\ running' => HavePam /\ (Overlong \/ typed = Secret)]_vars
  BY UnlockStep
<1>2. OtherFailure
        => [locked /\ ~locked' /\ running' => HavePam /\ (Overlong \/ typed = Secret)]_vars
  BY DEF OtherFailure, lockVars
<1>3. LockInv /\ [ServicesNext]_serviceVars
        => [locked /\ ~locked' /\ running' => HavePam /\ (Overlong \/ typed = Secret)]_vars
  BY <1>1, <1>2, StepOfLock
<1>4. QED
  BY <1>3, LockInvAmongServices, PTL DEF ServicesSpec, UnlockOnlyWithSecret
-----------------------------------------------------------------------------
(* The bus.                                                                *)

(* What may be on the socket: a numbered call, or the signal. *)
Msg == {[method |-> c.method, good |-> c.good, id |-> k] : c \in Call, k \in Nat \ {0}}
           \cup {LockSignal}

(* The queues hold messages; there are none without a bus, and no bus      *)
(* before the keybindings are loaded.                                      *)
BusTypes ==
    /\ rqueue \in Seq(Msg) /\ socket \in Seq(Msg) /\ replies \in Seq(Nat)
    /\ calls \in 0 .. MaxCalls
    /\ bus = "none" => rqueue = <<>> /\ socket = <<>>
    /\ stage \in {"keybinds", "dbus"} => bus = "none" /\ calls = 0 /\ replies = <<>>

(* Each call waits or is answered, and at most one signal waits. *)
BusLoad ==
    bus # "none" =>
        Len(Waiting) + Len(replies) <= calls + (IF lockAsked THEN 1 ELSE 0)

BusInv == BusTypes /\ CallsInOrder /\ BusLoad

(* A message is the signal or the call of a method of compositor_vtable. *)
LEMMA Messages ==
    ASSUME NEW m \in Msg
    PROVE  /\ m.id \in Nat
           /\ m.id = 0 <=> m.method = "Lock"
           /\ m.method # "Lock" => m.method \in Method
BY CallAssumption DEF Msg, LockSignal, Method

(* Every handler replies, once (compositor_vtable). *)
LEMMA OneReply ==
    ASSUME NEW m \in Msg, m.method # "Lock", NEW r \in Handle(m)
    PROVE  \E x : r = <<x>>
BY Messages
   DEF Method, Handle, handle_launch_app, handle_get_running_apps, handle_pin_to_shelf,
       handle_unpin_from_shelf, handle_set_shelf_config, handle_show_notification,
       handle_toggle_dark_mode, Invalid

(* sd_bus_process takes the message that has waited longest. *)
LEMMA TakeTakesFirst ==
    ASSUME BusTypes, socket # <<>>, TakeMessage
    PROVE  /\ Waiting \in Seq(Msg) /\ Waiting' \in Seq(Msg)
           /\ rqueue' \in Seq(Msg) /\ socket' \in Seq(Msg)
           /\ Len(Waiting) \in Nat \ {0} /\ Len(Waiting') = Len(Waiting) - 1
           /\ NextMessage = Waiting[1]
           /\ \A i \in 1 .. Len(Waiting') : Waiting'[i] = Waiting[i + 1]
<1>1. rqueue \in Seq(Msg) /\ socket \in Seq(Msg)
  BY DEF BusTypes
<1>2. CASE rqueue # <<>>
  <2>1. rqueue' = Tail(rqueue) /\ socket' = socket /\ NextMessage = rqueue[1]
    BY <1>2 DEF TakeMessage, NextMessage
  <2>2. QED
    BY <1>1, <1>2, <2>1 DEF Waiting
<1>3. CASE rqueue = <<>>
  <2>1. socket' = Tail(socket) /\ rqueue' = <<>> /\ NextMessage = socket[1]
    BY <1>3 DEF TakeMessage, NextMessage
  <2>2. QED
    BY <1>1, <1>3, <2>1 DEF Waiting
<1>4. QED
  BY <1>2, <1>3
(* The calls after the r-th, up to the c-th, wait in w in their order. *)
InOrder(w, r, c) ==
    /\ r <= c
    /\ \A i \in 1 .. Len(w) : w[i].id = 0 \/ (r < w[i].id /\ w[i].id <= c)
    /\ \A k \in Nat : r < k /\ k <= c => \E i \in 1 .. Len(w) : w[i].id = k
    /\ \A i, j \in 1 .. Len(w) : i < j /\ w[j].id # 0 => w[i].id < w[j].id

(* The order of the waiting calls, as CallsInOrder states it. *)
LEMMA CallsInOrderMeans ==
    ASSUME NEW w \in Seq(Msg), NEW r \in Seq(Nat), NEW c \in Nat
    PROVE  InOrder(w, Len(r), c) <=>
             /\ Len(r) <= c
             /\ \A i \in DOMAIN w : w[i].id \in {0} \cup (Len(r) + 1 .. c)
             /\ \A k \in Len(r) + 1 .. c : \E i \in DOMAIN w : w[i].id = k
             /\ \A i, j \in DOMAIN w : i < j /\ w[j].id # 0 => w[i].id < w[j].id
<1>1. DOMAIN w = 1 .. Len(w) /\ Len(r) \in Nat
  OBVIOUS
<1>2. \A i \in 1 .. Len(w) : w[i].id \in Nat
  BY Messages
<1>3. \A n \in Nat : n \in {0} \cup (Len(r) + 1 .. c) <=> n = 0 \/ (Len(r) < n /\ n <= c)
  BY <1>1
<1>4. \A k : k \in Len(r) + 1 .. c <=> k \in Nat /\ Len(r) < k /\ k <= c
  BY <1>1
<1>5. QED
  BY <1>1, <1>2, <1>3, <1>4, Zenon DEF InOrder

(* The invariant gives the order of what waits, and follows from it. *)
LEMMA OrderOfWaiting ==
    ASSUME BusInv, bus # "none"
    PROVE  InOrder(Waiting, Len(replies), calls)
<1>1. Waiting \in Seq(Msg) /\ replies \in Seq(Nat) /\ calls \in Nat
  BY CallAssumption DEF BusInv, BusTypes, Waiting
<1>2. QED
  BY <1>1, CallsInOrderMeans, Zenon DEF BusInv, CallsInOrder

(* What is left to show of a step that keeps the types. *)
LEMMA OrderSuffices ==
    ASSUME BusTypes', InOrder(Waiting', Len(replies'), calls'),
           \A i \in 1 .. Len(replies') : replies'[i] = i
    PROVE  CallsInOrder'
<1>1. /\ Waiting' \in Seq(Msg) /\ replies' \in Seq(Nat) /\ calls' \in Nat
      /\ DOMAIN replies' = 1 .. Len(replies')
  BY CallAssumption DEF BusTypes, Waiting
<1>2. QED
  BY <1>1, CallsInOrderMeans, Zenon DEF CallsInOrder

(* A message that comes last keeps the order, whether or not it is a call. *)
LEMMA AppendInOrder ==
    ASSUME NEW w \in Seq(Msg), NEW v \in Seq(Msg), NEW r \in Nat, NEW c \in Nat,
           InOrder(w, r, c), NEW d \in {c, c + 1},
           Len(v) = Len(w) + 1, \A i \in 1 .. Len(w) : v[i] = w[i],
           v[Len(v)].id = IF d = c THEN 0 ELSE d
    PROVE  InOrder(v, r, d)
<1>1. Len(w) \in Nat /\ \A i \in 1 .. Len(v) : i \in 1 .. Len(w) \/ i = Len(v)
  OBVIOUS
<1>2. \A i \in 1 .. Len(w) : w[i].id \in Nat
  BY Messages
<1>3. \A i \in 1 .. Len(v) : v[i].id = 0 \/ (r < v[i].id /\ v[i].id <= d)
  BY <1>1, <1>2 DEF InOrder
<1>4. ASSUME NEW k \in Nat, r < k, k <= d PROVE \E i \in 1 .. Len(v) : v[i].id = k
  BY <1>1, <1>4 DEF InOrder
<1>5. ASSUME NEW i \in 1 .. Len(v), NEW j \in 1 .. Len(v), i < j, v[j].id # 0
      PROVE  v[i].id < v[j].id
  BY <1>1, <1>2, <1>5 DEF InOrder
<1>6. QED
  BY <1>3, <1>4, <1>5 DEF InOrder

(* A call that comes first is the one to be answered next. *)
LEMMA FirstInOrder ==
    ASSUME NEW w \in Seq(Msg), NEW r \in Nat, NEW c \in Nat, InOrder(w, r, c), w # <<>>
    PROVE  w[1].id \in {0, r + 1}
<1>1. 1 \in 1 .. Len(w) /\ \A i \in 1 .. Len(w) : i = 1 \/ 1 < i
  OBVIOUS
<1>2. \A i \in 1 .. Len(w) : w[i].id \in Nat
  BY Messages
<1> SUFFICES ASSUME w[1].id # 0 PROVE w[1].id = r + 1
  OBVIOUS
<1>3. r < w[1].id /\ w[1].id <= c
  BY <1>1 DEF InOrder
<1>4. PICK i \in 1 .. Len(w) : w[i].id = r + 1
  BY <1>2, <1>1, <1>3 DEF InOrder
<1>5. QED
  BY <1>1, <1>2, <1>3, <1>4 DEF InOrder

(* Taking the first message keeps the order, when a call among them is     *)
(* answered.                                                               *)
LEMMA TakeInOrder ==
    ASSUME NEW w \in Seq(Msg), NEW v \in Seq(Msg), NEW r \in Nat, NEW c \in Nat,
           InOrder(w, r, c), w # <<>>, NEW q \in {r, r + 1},
           Len(v) = Len(w) - 1, \A i \in 1 .. Len(v) : v[i] = w[i + 1],
           w[1].id = IF q = r THEN 0 ELSE q
    PROVE  InOrder(v, q, c)
<1>1. /\ Len(w) \in Nat \ {0} /\ Len(v) \in Nat
      /\ \A i \in 1 .. Len(v) : i + 1 \in 1 .. Len(w) /\ 1 < i + 1
      /\ \A i \in 1 .. Len(w) : i = 1 \/ (i - 1 \in 1 .. Len(v) /\ (i - 1) + 1 = i)
      /\ 1 \in 1 .. Len(w)
  OBVIOUS
<1>2. \A i \in 1 .. Len(w) : w[i].id \in Nat
  BY Messages
<1>3. q <= c
  BY <1>1, <1>2 DEF InOrder
<1>4. ASSUME NEW i \in 1 .. Len(v)
      PROVE  v[i].id = 0 \/ (q < v[i].id /\ v[i].id <= c)
  BY <1>1, <1>2, <1>4 DEF InOrder
<1>5. ASSUME NEW k \in Nat, q < k, k <= c PROVE \E i \in 1 .. Len(v) : v[i].id = k
  <2>1. PICK i \in 1 .. Len(w) : w[i].id = k
    BY <1>5 DEF InOrder
  <2>2. i # 1
    BY <1>5, <2>1
  <2>3. i - 1 \in 1 .. Len(v) /\ v[i - 1] = w[i]
    BY <1>1, <2>2
  <2>4. QED
    BY <2>1, <2>3
<1>6. ASSUME NEW i \in 1 .. Len(v), NEW j \in 1 .. Len(v), i < j, v[j].id # 0
      PROVE  v[i].id < v[j].id
  BY <1>1, <1>2, <1>6 DEF InOrder
<1>7. QED
  BY <1>3, <1>4, <1>5, <1>6 DEF InOrder

(* A message at the end of the socket is the last that waits. *)
LEMMA SocketGrows ==
    ASSUME BusTypes, NEW m \in Msg, socket' = Append(socket, m), rqueue' = rqueue
    PROVE  /\ socket' \in Seq(Msg) /\ Waiting \in Seq(Msg) /\ Waiting' \in Seq(Msg)
           /\ Len(Waiting) \in Nat /\ Len(Waiting') = Len(Waiting) + 1
           /\ \A i \in 1 .. Len(Waiting) : Waiting'[i] = Waiting[i]
           /\ Waiting'[Len(Waiting) + 1] = m
BY DEF BusTypes, Waiting

(* A client makes a call. *)
LEMMA MethodCallStep ==
    ASSUME BusInv, MethodCall, stage' = stage, stage \notin {"keybinds", "dbus"}
    PROVE  BusInv'
<1>1. PICK c \in Call :
          socket' = Append(socket, [method |-> c.method, good |-> c.good, id |-> calls + 1])
  BY DEF MethodCall
<1> DEFINE m == [method |-> c.method, good |-> c.good, id |-> calls + 1]
<1>2. /\ bus # "none" /\ bus' = bus /\ calls < MaxCalls /\ calls' = calls + 1
      /\ rqueue' = rqueue /\ replies' = replies /\ lockAsked' = lockAsked
      /\ calls \in Nat /\ replies \in Seq(Nat) /\ Len(replies) \in Nat
  BY CallAssumption DEF MethodCall, BusInv, BusTypes
<1>3. m \in Msg /\ m.id = calls + 1
  BY <1>2 DEF Msg
<1> HIDE DEF m
<1>4. /\ socket' \in Seq(Msg) /\ Waiting \in Seq(Msg) /\ Waiting' \in Seq(Msg)
      /\ Len(Waiting) \in Nat /\ Len(Waiting') = Len(Waiting) + 1
      /\ \A i \in 1 .. Len(Waiting) : Waiting'[i] = Waiting[i]
      /\ Waiting'[Len(Waiting) + 1] = m
  BY <1>1, <1>2, <1>3, SocketGrows DEF BusInv, m
<1>5. BusTypes'
  BY <1>2, <1>4, CallAssumption DEF BusInv, BusTypes
<1>6. CallsInOrder'
  <2> DEFINE d == calls + 1
             v == Waiting'
  <2>1. d \in {calls, calls + 1} /\ d # calls /\ v[Len(v)].id = d
    BY <1>2, <1>3, <1>4
  <2> HIDE DEF d, v
  <2>2. InOrder(v, Len(replies), d)
    BY <1>2, <1>4, <2>1, OrderOfWaiting, AppendInOrder DEF v
  <2>3. InOrder(Waiting', Len(replies'), calls')
    BY <1>2, <2>2 DEF d, v
  <2>4. \A i \in 1 .. Len(replies') : replies'[i] = i
    BY <1>2 DEF BusInv, CallsInOrder
  <2>5. QED
    BY <1>5, <2>3, <2>4, OrderSuffices
<1>7. BusLoad'
  BY <1>2, <1>4 DEF BusInv, BusLoad
<1>8. QED
  BY <1>5, <1>6, <1>7 DEF BusInv

(* logind asks for the session to be locked. *)
LEMMA LogindLockStep ==
    ASSUME BusInv, LogindLock, stage' = stage, stage \notin {"keybinds", "dbus"}
    PROVE  BusInv'
<1>1. /\ bus' = bus /\ rqueue' = rqueue /\ replies' = replies /\ calls' = calls
      /\ ~lockAsked /\ lockAsked'
      /\ calls \in Nat /\ replies \in Seq(Nat) /\ Len(replies) \in Nat
  BY CallAssumption DEF LogindLock, BusInv, BusTypes
<1>2. CASE bus # LogindBus
  BY <1>1, <1>2 DEF LogindLock, BusInv, BusTypes, CallsInOrder, BusLoad, Waiting
<1>3. CASE bus = LogindBus
  <2>1. socket' = Append(socket, LockSignal) /\ LockSignal \in Msg /\ LockSignal.id = 0
    BY <1>3 DEF LogindLock, Msg, LockSignal
  <2>2. /\ socket' \in Seq(Msg) /\ Waiting \in Seq(Msg) /\ Waiting' \in Seq(Msg)
        /\ Len(Waiting) \in Nat /\ Len(Waiting') = Len(Waiting) + 1
        /\ \A i \in 1 .. Len(Waiting) : Waiting'[i] = Waiting[i]
        /\ Waiting'[Len(Waiting) + 1] = LockSignal
    BY <1>1, <2>1, SocketGrows DEF BusInv
  <2>3. bus # "none"
    BY <1>3, CallAssumption
  <2>4. BusTypes'
    BY <1>1, <2>2, <2>3 DEF BusInv, BusTypes
  <2>5. CallsInOrder'
    <3>1. InOrder(Waiting', Len(replies'), calls')
      BY <1>1, <2>1, <2>2, <2>3, OrderOfWaiting, AppendInOrder
    <3>2. \A i \in 1 .. Len(replies') : replies'[i] = i
      BY <1>1, <2>3 DEF BusInv, CallsInOrder
    <3>3. QED
      BY <2>4, <3>1, <3>2, OrderSuffices
  <2>6. BusLoad'
    BY <1>1, <2>2, <2>3 DEF BusInv, BusLoad
  <2>7. QED
    BY <2>4, <2>5, <2>6 DEF BusInv
<1>4. QED
  BY <1>2, <1>3

(* The call that waits first is the next one to be answered. *)
LEMMA DispatchCallStep ==
    ASSUME BusInv, DispatchCall, stage' = stage, stage \notin {"keybinds", "dbus"}
    PROVE  BusInv'
<1> DEFINE m == NextMessage
<1>1. /\ bus' = bus /\ calls' = calls /\ lockAsked' = lockAsked
      /\ socket # <<>> /\ TakeMessage /\ m.method # "Lock"
      /\ calls \in 0 .. MaxCalls /\ replies \in Seq(Nat) /\ Len(replies) \in Nat
      /\ bus # "none"
  BY CallAssumption DEF DispatchCall, BusInv, BusTypes
<1>2. /\ Waiting \in Seq(Msg) /\ Waiting' \in Seq(Msg)
      /\ rqueue' \in Seq(Msg) /\ socket' \in Seq(Msg)
      /\ Len(Waiting) \in Nat \ {0} /\ Len(Waiting') = Len(Waiting) - 1
      /\ m = Waiting[1]
      /\ \A i \in 1 .. Len(Waiting') : Waiting'[i] = Waiting[i + 1]
  BY <1>1, TakeTakesFirst DEF BusInv
<1>3. m \in Msg /\ m.id \in Nat /\ m.id # 0
  <2>1. m \in Msg
    BY <1>2
  <2>2. QED
    BY <1>1, <2>1, Messages
<1>4. replies' = Append(replies, m.id)
  <2>1. PICK r \in Handle(m) : replies' = replies \o [i \in DOMAIN r |-> m.id]
    BY DEF DispatchCall
  <2>2. PICK x : r = <<x>>
    BY <1>1, <1>3, OneReply
  <2> HIDE DEF m
  <2>3. [i \in DOMAIN r |-> m.id] = <<m.id>>
    BY <2>2
  <2>4. QED
    BY <1>1, <1>3, <2>1, <2>3
<1> HIDE DEF m
<1>5. /\ Len(replies') = Len(replies) + 1 /\ replies' \in Seq(Nat)
      /\ \A i \in 1 .. Len(replies) : replies'[i] = replies[i]
      /\ replies'[Len(replies) + 1] = m.id
  BY <1>1, <1>3, <1>4
<1>6. InOrder(Waiting, Len(replies), calls) /\ Waiting # <<>> /\ calls \in Nat
  BY <1>1, <1>2, CallAssumption, OrderOfWaiting
<1>7. m.id = Len(replies) + 1
  BY <1>1, <1>2, <1>3, <1>6, FirstInOrder
<1>8. BusTypes'
  BY <1>1, <1>2, <1>5 DEF BusInv, BusTypes
<1>9. CallsInOrder'
  <2> DEFINE q == Len(replies')
             v == Waiting'
  <2>1. /\ q \in {Len(replies), Len(replies) + 1} /\ q # Len(replies)
        /\ Waiting[1].id = q
    BY <1>1, <1>2, <1>5, <1>7
  <2> HIDE DEF q, v
  <2>2. InOrder(v, q, calls)
    BY <1>1, <1>2, <1>6, <2>1, TakeInOrder DEF v
  <2>3. InOrder(Waiting', Len(replies'), calls')
    BY <1>1, <2>2 DEF q, v
  <2>4. \A i \in 1 .. Len(replies') : replies'[i] = i
    BY <1>1, <1>5, <1>7 DEF BusInv, CallsInOrder
  <2>5. QED
    BY <1>8, <2>3, <2>4, OrderSuffices
<1>10. BusLoad'
  BY <1>1, <1>2, <1>5 DEF BusInv, BusLoad
<1>11. QED
  BY <1>8, <1>9, <1>10 DEF BusInv

(* The signal of logind comes first and is handled (dbus_dispatch_cb). *)
LEMMA DispatchLockStep ==
    ASSUME BusInv, DispatchLock, stage' = stage, stage \notin {"keybinds", "dbus"}
    PROVE  BusInv'
<1>1. /\ bus' = bus /\ calls' = calls /\ replies' = replies /\ ~lockAsked'
      /\ socket # <<>> /\ TakeMessage /\ NextMessage.method = "Lock"
      /\ calls \in 0 .. MaxCalls /\ replies \in Seq(Nat) /\ Len(replies) \in Nat
      /\ bus # "none"
  BY CallAssumption DEF DispatchLock, BusInv, BusTypes
<1>2. /\ Waiting \in Seq(Msg) /\ Waiting' \in Seq(Msg)
      /\ rqueue' \in Seq(Msg) /\ socket' \in Seq(Msg)
      /\ Len(Waiting) \in Nat \ {0} /\ Len(Waiting') = Len(Waiting) - 1
      /\ NextMessage = Waiting[1]
      /\ \A i \in 1 .. Len(Waiting') : Waiting'[i] = Waiting[i + 1]
  BY <1>1, TakeTakesFirst DEF BusInv
<1>3. Waiting[1].id = 0
  <2>1. Waiting[1] \in Msg
    BY <1>2
  <2>2. QED
    BY <1>1, <1>2, <2>1, Messages
<1>4. BusTypes'
  BY <1>1, <1>2 DEF BusInv, BusTypes
<1>5. CallsInOrder'
  <2>1. InOrder(Waiting, Len(replies), calls) /\ Waiting # <<>> /\ calls \in Nat
    BY <1>1, <1>2, CallAssumption, OrderOfWaiting
  <2>2. InOrder(Waiting', Len(replies'), calls')
    BY <1>1, <1>2, <1>3, <2>1, TakeInOrder
  <2>3. \A i \in 1 .. Len(replies') : replies'[i] = i
    BY <1>1 DEF BusInv, CallsInOrder
  <2>4. QED
    BY <1>4, <2>2, <2>3, OrderSuffices
<1>6. BusLoad'
  BY <1>1, <1>2 DEF BusInv, BusLoad
<1>7. QED
  BY <1>4, <1>5, <1>6 DEF BusInv

(* Steps that leave the bus alone and do not go back in                    *)
(* zen_compositor_create.                                                  *)
LEMMA BusUntouched ==
    ASSUME BusInv, UNCHANGED busVars,
           stage' \in {"keybinds", "dbus"} => stage \in {"keybinds", "dbus"}
    PROVE  BusInv'
BY DEF BusInv, BusTypes, CallsInOrder, BusLoad, Waiting, busVars

(* Nothing was sent before the bus was opened. *)
LEMMA BusInvInit == ServicesInit => BusInv
<1> SUFFICES ASSUME ServicesInit PROVE BusInv
  OBVIOUS
<1>1. /\ bus = "none" /\ socket = <<>> /\ rqueue = <<>> /\ replies = <<>> /\ calls = 0
      /\ calls \in 0 .. MaxCalls
  BY CallAssumption DEF ServicesInit, BusInit
<1>2. <<>> \in Seq(Msg) /\ <<>> \in Seq(Nat)
  OBVIOUS
<1>3. QED
  BY <1>1, <1>2 DEF BusInv, BusTypes, CallsInOrder, BusLoad

(* Every step keeps the order of the calls. *)
LEMMA BusInvNext == BusInv /\ [ServicesNext]_serviceVars => BusInv'
<1> SUFFICES ASSUME BusInv, [ServicesNext]_serviceVars PROVE BusInv'
  OBVIOUS
<1>1. CASE KeybindsStep
  BY <1>1, BusUntouched DEF KeybindsStep
<1>2. CASE DBusStep
  <2>1. /\ bus = "none" /\ socket = <<>> /\ rqueue = <<>> /\ replies = <<>> /\ calls = 0
        /\ socket' = socket /\ rqueue' = rqueue /\ replies' = replies /\ calls' = calls
        /\ bus' \in {"user", "none"} /\ stage' = "lock" /\ calls \in 0 .. MaxCalls
    BY <1>2 DEF DBusStep, zen_dbus_init, BusInv, BusTypes
  <2>2. BusTypes'
    BY <2>1 DEF BusInv, BusTypes
  <2>3. Waiting' = <<>> /\ Len(Waiting') = 0 /\ Len(replies') = 0
    BY <2>1 DEF Waiting
  <2>4. InOrder(Waiting', Len(replies'), calls')
    BY <2>1, <2>3 DEF InOrder
  <2>5. CallsInOrder'
    BY <2>1, <2>2, <2>3, <2>4, OrderSuffices
  <2>6. BusLoad'
    BY <2>1, <2>3 DEF BusLoad
  <2>7. QED
    BY <2>2, <2>5, <2>6 DEF BusInv
<1>3. CASE LockInitStep
  <2>1. /\ rqueue' = rqueue \o socket /\ socket' = <<>>
        /\ bus' = bus /\ replies' = replies /\ calls' = calls /\ lockAsked' = lockAsked
        /\ stage = "lock" /\ stage' = "loop"
        /\ rqueue \in Seq(Msg) /\ socket \in Seq(Msg)
    BY <1>3 DEF LockInitStep, sd_bus_match_signal, BusInv, BusTypes
  <2>2. BusTypes'
    BY <2>1 DEF BusInv, BusTypes
  <2>3. Waiting' = Waiting
    <3>1. rqueue \o socket \in Seq(Msg)
      BY <2>1
    <3>2. (rqueue \o socket) \o <<>> = rqueue \o socket
      BY <3>1, ConcatEmptySeq
    <3>3. QED
      BY <2>1, <3>2 DEF Waiting
  <2>4. CallsInOrder' /\ BusLoad'
    BY <2>1, <2>3 DEF BusInv, CallsInOrder, BusLoad
  <2>5. QED
    BY <2>2, <2>4 DEF BusInv
<1>4. CASE Message
  <2>1. CASE MethodCall
    BY <1>4, <2>1, MethodCallStep DEF Message, MethodCall, BusInv, BusTypes
  <2>2. CASE stage = "loop" /\ LogindLock
    BY <1>4, <2>2, LogindLockStep DEF Message
  <2>3. QED
    BY <1>4, <2>1, <2>2 DEF Message
<1>5. CASE DispatchStep
  BY <1>5, DispatchCallStep, DispatchLockStep DEF DispatchStep, dbus_dispatch_cb
<1>6. CASE KeyStep
  BY <1>6, BusUntouched DEF KeyStep
<1>7. CASE TimeStep
  BY <1>7, BusUntouched DEF TimeStep
<1>8. CASE ShutdownStep
  <2>1. /\ bus' = "none" /\ socket' = <<>> /\ rqueue' = <<>>
        /\ replies' = replies /\ calls' = calls /\ stage = "loop" /\ stage' = stage
        /\ <<>> \in Seq(Msg)
    BY <1>8 DEF ShutdownStep, zen_dbus_destroy
  <2>2. QED
    BY <2>1 DEF BusInv, BusTypes, CallsInOrder, BusLoad
<1>9. CASE UNCHANGED serviceVars
  BY <1>9, BusUntouched DEF serviceVars
<1>10. QED
  BY <1>1, <1>2, <1>3, <1>4, <1>5, <1>6, <1>7, <1>8, <1>9 DEF ServicesNext, Startup

(* Calls wait in the order in which they were made. *)
LEMMA BusInvariant == ServicesSpec => []BusInv
<1>1. QED
  BY BusInvInit, BusInvNext, PTL DEF ServicesSpec

(* No call is lost, answered twice or overtaken, whichever handlers fail   *)
(* and whatever sd-bus puts aside (dbus_dispatch_cb).                      *)
THEOREM CallsAnsweredInOrder == ServicesSpec => []CallsInOrder
<1>1. BusInv => CallsInOrder
  BY DEF BusInv
<1>2. QED
  BY <1>1, BusInvariant, PTL

-----------------------------------------------------------------------------
(* The keybindings.                                                        *)

(* The binding that the entry at i of the file makes. *)
Made(i) == Binding(extract_modifiers_field(i), config[i].key, config[i].action)

(* What the registry may hold. *)
BindingSet ==
    {Binding(mods, e.key, e.action) : mods \in SUBSET Token, e \in Entry}
        \cup {defaults[i] : i \in 1 .. 5}

(* The registry holds the defaults, followed by what the entries before    *)
(* the next one make; the load ends at the end of the file, at a bad entry *)
(* or with a failure.                                                      *)
KeybindInv ==
    /\ config \in Seq(Entry) /\ Len(config) <= MaxEntries
    /\ next_entry \in 1 .. Len(config) + 1
    /\ keybindings \in Seq(BindingSet) /\ Len(keybindings) = 5 + (next_entry - 1)
    /\ \A i \in 1 .. 5 : keybindings[i] = defaults[i]
    /\ \A i \in 1 .. Len(config) :
          i < next_entry => Accepted(config[i]) /\ keybindings[5 + i] = Made(i)
    /\ loaded => \/ next_entry = Len(config) + 1
                 \/ ~Accepted(config[next_entry])
                 \/ failures > 0

(* A binding made from an entry is one. *)
LEMMA BindingOfEntry ==
    ASSUME NEW mods \in SUBSET Token, NEW e \in Entry
    PROVE  Binding(mods, e.key, e.action) \in BindingSet
BY DEF BindingSet

(* The compiled-in bindings are five. *)
LEMMA DefaultsList == Len(defaults) = 5 /\ defaults \in Seq(BindingSet)
<1>1. Len(defaults) = 5 /\ DOMAIN defaults = 1 .. 5
  BY DEF defaults
<1>2. \A i \in 1 .. 5 : defaults[i] \in BindingSet
  BY DEF BindingSet
<1>3. defaults = [i \in 1 .. 5 |-> defaults[i]]
  BY DEF defaults
<1>4. QED
  BY <1>1, <1>2, <1>3, IsASeq

(* A binding that an entry makes may be in the registry. *)
LEMMA MadeIsBinding ==
    ASSUME config \in Seq(Entry), NEW i \in 1 .. Len(config)
    PROVE  Made(i) \in BindingSet
<1>1. config[i] \in Entry
  OBVIOUS
<1>2. extract_modifiers_field(i) \in SUBSET Token
  BY DEF extract_modifiers_field, parse_modifiers_array
<1>3. QED
  BY <1>1, <1>2, BindingOfEntry DEF Made

(* No entry of the file was read at first. *)
LEMMA KeybindInvInit == ServicesInit => KeybindInv
<1> SUFFICES ASSUME ServicesInit PROVE KeybindInv
  OBVIOUS
<1>1. /\ next_entry = 1 /\ loaded = FALSE /\ keybindings = defaults
      /\ \E m \in 0 .. MaxEntries : config \in [1 .. m -> Entry]
  BY DEF ServicesInit, KeybindsInit, BoundedSeq, SeqOf
<1>2. config \in Seq(Entry) /\ Len(config) <= MaxEntries
  <2>1. PICK m \in 0 .. MaxEntries : config \in [1 .. m -> Entry]
    BY <1>1
  <2>2. m \in Nat /\ m <= MaxEntries
    BY EntryAssumption
  <2>3. QED
    BY <2>1, <2>2
<1>3. QED
  BY <1>1, <1>2, DefaultsList DEF KeybindInv

(* The file does not change, so that an entry makes what it made before. *)
LEMMA MadeStays ==
    ASSUME config' = config
    PROVE  \A i : Made(i)' = Made(i)
BY DEF Made, extract_modifiers_field, parse_modifiers_array, SelectInSubSeq

(* The screen lock does not forget a failure. *)
LEMMA FailuresStay == TypeOK /\ [Next]_vars => failures' \in {failures, failures + 1}
BY DEF TypeOK, vars, Next, LockedKey, zen_lock_handle_key, UnlockedKey, LockKeybinding,
       lock_signal_cb, idle_timeout_cb, zen_lock_activate, Tick, zen_lock_destroy

(* The entries that were accepted follow the compiled-in bindings, in the  *)
(* order of the file.                                                      *)
LEMMA KeybindInvNext ==
    KeybindInv /\ TypeOK /\ [ServicesNext]_serviceVars => KeybindInv'
<1> SUFFICES ASSUME KeybindInv, TypeOK, [ServicesNext]_serviceVars PROVE KeybindInv'
  OBVIOUS
<1>1. ASSUME UNCHANGED keybindVars, failures' \in {failures, failures + 1} PROVE KeybindInv'
  <2>1. /\ config' = config /\ next_entry' = next_entry /\ loaded' = loaded
        /\ keybindings' = keybindings
    BY <1>1 DEF keybindVars
  <2>2. \A i : Made(i)' = Made(i)
    BY <2>1, MadeStays
  <2>3. failures > 0 => failures' > 0
    BY <1>1 DEF TypeOK
  <2>4. QED
    BY <2>1, <2>2, <2>3 DEF KeybindInv
<1>2. CASE LoadEntry /\ failures' = failures
  <2> DEFINE n == next_entry
  <2>1. /\ config' = config /\ loaded' = loaded /\ n \in 1 .. Len(config) /\ next_entry' = n + 1
        /\ Accepted(config[n]) /\ keybindings' = Append(keybindings, Made(n))
        /\ ~loaded
    BY <1>2 DEF LoadEntry, KeybindInv, register_binding, Made
  <2>2. \A i : Made(i)' = Made(i)
    BY <2>1, MadeStays
  <2>3. /\ keybindings \in Seq(BindingSet) /\ Made(n) \in BindingSet
        /\ Len(keybindings) = 5 + (n - 1) /\ Len(config) \in Nat
    BY <2>1, MadeIsBinding DEF KeybindInv
  <2> HIDE DEF n
  <2>4. /\ keybindings' \in Seq(BindingSet) /\ Len(keybindings') = 5 + ((n + 1) - 1)
        /\ \A i \in 1 .. 5 + (n - 1) : keybindings'[i] = keybindings[i]
        /\ keybindings'[5 + n] = Made(n)
    BY <2>1, <2>3
  <2>5. \A i \in 1 .. 5 : keybindings'[i] = defaults[i]
    BY <2>1, <2>4 DEF KeybindInv
  <2>6. ASSUME NEW i \in 1 .. Len(config), i < n + 1
        PROVE  Accepted(config[i]) /\ keybindings'[5 + i] = Made(i)
    <3>1. CASE i = n
      BY <2>1, <2>4, <3>1
    <3>2. CASE i < n
      BY <2>1, <2>4, <3>2 DEF KeybindInv, n
    <3>3. QED
      BY <2>1, <2>3, <2>6, <3>1, <3>2
  <2>7. QED
    BY <2>1, <2>2, <2>4, <2>5, <2>6 DEF KeybindInv
<1>3. ASSUME NEW oom \in BOOLEAN, LoadEnds(oom), oom => failures' > 0,
             failures' \in {failures, failures + 1}
      PROVE  KeybindInv'
  <2>1. /\ config' = config /\ next_entry' = next_entry /\ keybindings' = keybindings
        /\ \/ next_entry > Len(config)
           \/ ~Accepted(config[next_entry])
           \/ failures' > 0
    BY <1>3 DEF LoadEnds
  <2>2. \A i : Made(i)' = Made(i)
    BY <2>1, MadeStays
  <2>3. next_entry > Len(config) => next_entry = Len(config) + 1
    BY DEF KeybindInv
  <2>4. QED
    BY <2>1, <2>2, <2>3 DEF KeybindInv
<1>4. CASE KeybindsStep
  <2>1. MayFail => failures' > 0 /\ failures' \in {failures, failures + 1}
    BY FailureAssumption DEF MayFail, TypeOK
  <2>2. QED
    <3>1. CASE LoadEntry /\ UNCHANGED failures
      BY <1>2, <3>1
    <3>2. CASE LoadEnds(FALSE) /\ UNCHANGED failures
      BY <1>3, <3>2 DEF TypeOK
    <3>3. CASE LoadEnds(TRUE) /\ MayFail
      BY <1>3, <2>1, <3>3
    <3>4. QED
      BY <1>4, <3>1, <3>2, <3>3 DEF KeybindsStep
<1>5. failures' \in {failures, failures + 1}
  BY StepOfLock, FailuresStay DEF OtherFailure, TypeOK
<1>6. UNCHANGED keybindVars \/ KeybindsStep
  BY DEF ServicesNext, Startup, DBusStep, LockInitStep, Message, DispatchStep, KeyStep,
         TimeStep, ShutdownStep, serviceVars
<1>7. QED
  BY <1>1, <1>4, <1>5, <1>6

(* The list of bindings is always the compiled-in ones and a prefix of the *)
(* file.                                                                   *)
LEMMA KeybindInvariant == ServicesSpec => []KeybindInv
<1>1. LockInv => TypeOK
  BY DEF LockInv
<1>2. QED
  BY <1>1, KeybindInvInit, KeybindInvNext, LockInvAmongServices, PTL DEF ServicesSpec

(* There is a first among some numbers. *)
LEMMA HasFirst ==
    ASSUME NEW S \in SUBSET Nat, S # {}
    PROVE  \E n \in S : \A k \in S : n <= k
<1> DEFINE R == OpToRel(<, Nat)
<1>1. IsWellFoundedOn(R, Nat)
  BY NatLessThanWellFounded
<1>2. PICK n \in S : \A k \in S : ~(<<k, n>> \in R)
  BY <1>1, WFMin
<1>3. \A k \in Nat : k < n => <<k, n>> \in R
  BY DEF OpToRel
<1> HIDE DEF R
<1>4. \A k \in S : ~(k < n)
  BY <1>2, <1>3
<1>5. QED
  BY <1>4

(* The first of some places. *)
LEMMA MinIsFirst ==
    ASSUME NEW S \in SUBSET Nat, NEW n \in S, \A k \in S : n <= k
    PROVE  Min(S) = n
<1>1. \A k \in S : (\A j \in S : k <= j) => k = n
  OBVIOUS
<1>2. QED
  BY <1>1 DEF Min

(* A search stops at the first binding with the keys it looks for. *)
LEMMA FirstBinding ==
    ASSUME NEW s \in Seq(BindingSet), NEW n \in 1 .. Len(s),
           \A i \in 1 .. Len(s) : i < n => s[i].mods # s[n].mods \/ s[i].key # s[n].key
    PROVE  SelectInSeq(s, LAMBDA b : b.mods = s[n].mods /\ b.key = s[n].key) = n
<1> DEFINE S == {i \in 1 .. Len(s) : s[i].mods = s[n].mods /\ s[i].key = s[n].key}
<1>1. S \in SUBSET Nat /\ n \in S /\ \A k \in S : n <= k
  OBVIOUS
<1>2. Min(S) = n
  BY <1>1, MinIsFirst
<1>3. QED
  BY <1>1, <1>2 DEF SelectInSeq

(* No default hides another. *)
LEMMA DefaultsDiffer ==
    \A i, j \in 1 .. 5 : i < j => \/ defaults[i].mods # defaults[j].mods
                                  \/ defaults[i].key # defaults[j].key
<1>1. /\ defaults[1].key = "t" /\ defaults[2].key = "Super_L" /\ defaults[3].key = "l"
      /\ defaults[4].key = "Tab" /\ defaults[5].key = "q"
  BY DEF defaults, Binding
<1>2. QED
  BY <1>1

(* In a list that begins with the defaults, each default is found. *)
LEMMA DefaultsFound ==
    ASSUME NEW s \in Seq(BindingSet), Len(s) >= 5, \A i \in 1 .. 5 : s[i] = defaults[i],
           NEW n \in 1 .. 5
    PROVE  SelectInSeq(s, LAMBDA b : b.mods = defaults[n].mods /\ b.key = defaults[n].key) = n
<1>1. n \in 1 .. Len(s) /\ s[n] = defaults[n]
  OBVIOUS
<1>2. \A i \in 1 .. Len(s) : i < n => s[i].mods # s[n].mods \/ s[i].key # s[n].key
  BY <1>1, DefaultsDiffer
<1>3. SelectInSeq(s, LAMBDA b : b.mods = s[n].mods /\ b.key = s[n].key) = n
  BY <1>1, <1>2, FirstBinding
<1>4. QED
  BY <1>1, <1>3

(* The list that the file asks for. *)
WrittenList == defaults \o [i \in DOMAIN GoodPrefix |-> Written(GoodPrefix[i])]

(* The entries before the first bad one are the first entries. *)
LEMMA GoodPrefixEntries ==
    ASSUME config \in Seq(Entry)
    PROVE  /\ GoodPrefix \in Seq(Entry)
           /\ Len(GoodPrefix) <= Len(config)
           /\ \A i \in 1 .. Len(GoodPrefix) : GoodPrefix[i] = config[i]
           /\ \A n \in 1 .. Len(config) + 1 :
                 /\ \A i \in 1 .. Len(config) : i < n => Accepted(config[i])
                 /\ n = Len(config) + 1 \/ ~Accepted(config[n])
                 => Len(GoodPrefix) = n - 1
<1> DEFINE S == {i \in 1 .. Len(config) : ~Accepted(config[i])}
           bad == SelectInSeq(config, LAMBDA e : ~Accepted(e))
<1>1. /\ Len(config) \in Nat /\ S \in SUBSET Nat
      /\ bad = IF S # {} THEN Min(S) ELSE 0
  BY DEF SelectInSeq
<1>2. GoodPrefix = IF bad = 0 THEN config ELSE SubSeq(config, 1, bad - 1)
  BY DEF GoodPrefix
<1>3. CASE S = {}
  <2>1. GoodPrefix = config
    BY <1>1, <1>2, <1>3
  <2>2. ASSUME NEW n \in 1 .. Len(config) + 1, n = Len(config) + 1 \/ ~Accepted(config[n])
        PROVE  Len(GoodPrefix) = n - 1
    BY <1>1, <1>3, <2>1, <2>2
  <2>3. QED
    BY <1>1, <2>1, <2>2
<1>4. CASE S # {}
  <2>1. \E m \in S : \A k \in S : m <= k
    <3> HIDE DEF S
    <3>1. QED
      BY <1>1, <1>4, HasFirst
  <2>2. PICK m \in S : \A k \in S : m <= k
    BY <2>1
  <2>3. bad = m /\ m \in 1 .. Len(config)
    <3>1. m \in 1 .. Len(config)
      OBVIOUS
    <3> HIDE DEF S, bad
    <3>2. QED
      BY <1>1, <1>4, <2>2, <3>1, MinIsFirst
  <2> HIDE DEF bad
  <2>4. GoodPrefix = SubSeq(config, 1, m - 1)
    BY <1>2, <2>3
  <2>5. /\ GoodPrefix \in Seq(Entry) /\ Len(GoodPrefix) = m - 1
        /\ \A i \in 1 .. Len(GoodPrefix) : GoodPrefix[i] = config[i]
    BY <1>1, <2>3, <2>4
  <2>6. ASSUME NEW n \in 1 .. Len(config) + 1,
               \A i \in 1 .. Len(config) : i < n => Accepted(config[i]),
               n = Len(config) + 1 \/ ~Accepted(config[n])
        PROVE  Len(GoodPrefix) = n - 1
    BY <1>1, <2>2, <2>3, <2>5, <2>6
  <2>7. QED
    BY <1>1, <2>3, <2>5, <2>6
<1>5. QED
  BY <1>3, <1>4

(* The list begins with the defaults, followed by what the good entries    *)
(* say.                                                                    *)
LEMMA WrittenEntries ==
    ASSUME config \in Seq(Entry)
    PROVE  /\ WrittenList \in Seq(BindingSet)
           /\ Len(WrittenList) = 5 + Len(GoodPrefix)
           /\ \A i \in 1 .. 5 : WrittenList[i] = defaults[i]
           /\ \A i \in 1 .. Len(GoodPrefix) : WrittenList[5 + i] = Written(config[i])
<1> DEFINE g == GoodPrefix
           t == [i \in 1 .. Len(g) |-> Written(g[i])]
<1>1. /\ g \in Seq(Entry) /\ Len(g) \in Nat /\ DOMAIN g = 1 .. Len(g)
      /\ \A i \in 1 .. Len(g) : g[i] = config[i] /\ g[i] \in Entry
  BY GoodPrefixEntries
<1>2. WrittenList = defaults \o t
  BY <1>1 DEF WrittenList
<1> HIDE DEF g
<1>3. \A e \in Entry : Written(e) \in BindingSet
  <2> SUFFICES ASSUME NEW e \in Entry PROVE Written(e) \in BindingSet
    OBVIOUS
  <2> DEFINE mods == IF e.modifiers = "array" THEN e.mods \cap Token ELSE {}
  <2>1. mods \in SUBSET Token
    OBVIOUS
  <2>2. Written(e) = Binding(mods, e.key, e.action)
    BY DEF Written
  <2> HIDE DEF mods
  <2>3. QED
    BY <2>1, <2>2, BindingOfEntry
<1>4. \A i \in 1 .. Len(g) : t[i] \in BindingSet /\ t[i] = Written(config[i])
  BY <1>1, <1>3
<1>5. t \in Seq(BindingSet) /\ Len(t) = Len(g)
  BY <1>1, <1>4
<1> HIDE DEF t
<1>6. /\ WrittenList \in Seq(BindingSet)
      /\ Len(WrittenList) = 5 + Len(g)
      /\ \A i \in 1 .. 5 : WrittenList[i] = defaults[i]
      /\ \A i \in 1 .. Len(g) : WrittenList[5 + i] = t[i]
  <2>1. /\ WrittenList \in Seq(BindingSet)
        /\ Len(WrittenList) = Len(defaults) + Len(t)
        /\ \A i \in 1 .. Len(defaults) + Len(t) :
              WrittenList[i] = IF i <= Len(defaults) THEN defaults[i] ELSE t[i - Len(defaults)]
    <3>1. defaults \in Seq(BindingSet) /\ t \in Seq(BindingSet)
      BY <1>5, DefaultsList
    <3>2. QED
      BY <1>2, <3>1, ConcatProperties, Zenon
  <2>2. \A i \in 1 .. Len(g) :
            5 + i \in 1 .. 5 + Len(g) /\ ~(5 + i <= 5) /\ (5 + i) - 5 = i
    BY <1>1
  <2>3. \A i \in 1 .. 5 : i \in 1 .. 5 + Len(g) /\ i <= 5
    BY <1>1
  <2>4. QED
    BY <1>5, <2>1, <2>2, <2>3, DefaultsList
<1>7. QED
  BY <1>4, <1>6 DEF g

(* An entry whose modifiers are a list or absent makes what it says. *)
LEMMA MadeIsWritten ==
    ASSUME config \in Seq(Entry), NEW i \in 1 .. Len(config), config[i].modifiers # "other"
    PROVE  Made(i) = Written(config[i])
<1>1. config[i].modifiers \in {"array", "absent"}
  BY EntryAssumption
<1>2. CASE config[i].modifiers = "absent"
  BY <1>2 DEF Made, Written, extract_modifiers_field
<1>3. CASE config[i].modifiers = "array"
  <2> DEFINE S == {k \in i .. Len(config) : config[k].modifiers = "array"}
  <2>1. S \in SUBSET Nat /\ i \in S /\ \A k \in S : i <= k
    BY <1>3
  <2>2. Min(S) = i /\ S # {} /\ i # 0
    <3> HIDE DEF S
    <3>1. QED
      BY <2>1, MinIsFirst
  <2>3. extract_modifiers_field(i) = config[i].mods \cap Token
    BY <1>3, <2>2 DEF extract_modifiers_field, parse_modifiers_array, SelectInSubSeq
  <2>4. QED
    BY <1>3, <2>3 DEF Made, Written
<1>4. QED
  BY <1>1, <1>2, <1>3

(* Without a failure, and without an entry whose modifiers are something   *)
(* else, the registry is the list that the file asks for.                  *)
LEMMA RegistryAsWritten ==
    ASSUME KeybindInv, loaded, ~(failures > 0),
           \A e \in ToSet(config) : e.modifiers # "other"
    PROVE  keybindings = WrittenList
<1>1. /\ config \in Seq(Entry) /\ keybindings \in Seq(BindingSet)
      /\ next_entry \in 1 .. Len(config) + 1 /\ Len(config) \in Nat
      /\ Len(keybindings) = 5 + (next_entry - 1)
  BY DEF KeybindInv
<1>2. Len(GoodPrefix) = next_entry - 1 /\ Len(GoodPrefix) <= Len(config)
  BY <1>1, GoodPrefixEntries DEF KeybindInv
<1>3. /\ WrittenList \in Seq(BindingSet) /\ Len(WrittenList) = Len(keybindings)
      /\ \A i \in 1 .. 5 : WrittenList[i] = defaults[i]
      /\ \A i \in 1 .. next_entry - 1 : WrittenList[5 + i] = Written(config[i])
  BY <1>1, <1>2, WrittenEntries
<1>4. \A i \in 1 .. Len(config) : config[i].modifiers # "other"
  BY <1>1 DEF ToSet
<1>5. \A i \in 1 .. next_entry - 1 : keybindings[5 + i] = Written(config[i])
  BY <1>1, <1>4, MadeIsWritten DEF KeybindInv
<1>6. ASSUME NEW k \in 1 .. Len(keybindings) PROVE keybindings[k] = WrittenList[k]
  <2>1. CASE k \in 1 .. 5
    BY <1>3, <2>1 DEF KeybindInv
  <2>2. CASE k \notin 1 .. 5
    <3>1. k - 5 \in 1 .. next_entry - 1 /\ 5 + (k - 5) = k
      BY <1>1, <2>2
    <3>2. QED
      BY <1>3, <1>5, <3>1
  <2>3. QED
    BY <2>1, <2>2
<1>7. QED
  BY <1>1, <1>3, <1>6, SeqEqual

(* A key looked up in such a list does what the file and the compiled-in   *)
(* bindings say.                                                           *)
LEMMA KeybindInvSuffices == KeybindInv => FileTakesEffect
<1> SUFFICES ASSUME KeybindInv, loaded PROVE BindingsAsWritten(failures > 0)
  BY DEF FileTakesEffect, BindingsAsWritten
<1> DEFINE FirstOf(b) == SelectInSeq(WrittenList, LAMBDA w : w.mods = b.mods /\ w.key = b.key)
           AsWritten(b) == ActionOf(b.mods, b.key) =
                 IF FirstOf(b) = 0 THEN "none" ELSE WrittenList[FirstOf(b)].action
<1>1. ASSUME NEW b \in ToSet(defaults) PROVE AsWritten(b)
  <2>1. PICK n \in 1 .. 5 : b = defaults[n]
    BY DEF ToSet, defaults
  <2>2. BindingOf(b.mods, b.key) = n /\ keybindings[n] = b
    <3>1. /\ keybindings \in Seq(BindingSet) /\ Len(keybindings) >= 5
          /\ \A i \in 1 .. 5 : keybindings[i] = defaults[i]
      BY DEF KeybindInv
    <3>2. SelectInSeq(keybindings,
                      LAMBDA d : d.mods = defaults[n].mods /\ d.key = defaults[n].key) = n
      BY <3>1, DefaultsFound
    <3>3. QED
      BY <2>1, <3>1, <3>2 DEF BindingOf
  <2>3. FirstOf(b) = n /\ WrittenList[n] = b
    <3>1. /\ WrittenList \in Seq(BindingSet) /\ Len(WrittenList) >= 5
          /\ \A i \in 1 .. 5 : WrittenList[i] = defaults[i]
      BY WrittenEntries, GoodPrefixEntries DEF KeybindInv
    <3>2. SelectInSeq(WrittenList,
                      LAMBDA d : d.mods = defaults[n].mods /\ d.key = defaults[n].key) = n
      BY <3>1, DefaultsFound
    <3>3. QED
      BY <2>1, <3>1, <3>2
  <2>4. QED
    BY <2>2, <2>3 DEF ActionOf
<1>2. ASSUME ~(failures > 0), \A e \in ToSet(config) : e.modifiers # "other"
      PROVE  \A e \in ToSet(config) : AsWritten(Written(e))
  <2>1. keybindings = WrittenList
    BY <1>2, RegistryAsWritten
  <2>2. QED
    BY <2>1 DEF ActionOf, BindingOf
<1>3. QED
  BY <1>1, <1>2 DEF BindingsAsWritten, WrittenList

(* Whatever keybinds.json holds, a default keeps the keys that the file    *)
(* does not ask for, and without a failure the good entries get the keys   *)
(* that no default has (zen_keybinds_load_config, register_binding).       *)
THEOREM KeybindsFileTakesEffect == ServicesSpec => []FileTakesEffect
<1>1. QED
  BY KeybindInvSuffices, KeybindInvariant, PTL

-----------------------------------------------------------------------------
(* Types.                                                                  *)

(* The flags, and the number of entries and calls. *)
FlagInv == dark_mode \in BOOLEAN /\ lockAsked \in BOOLEAN
CountInv == stage \in Stages /\ Len(config) + calls <= MaxEvents

(* Every message says whether its arguments are good. *)
LEMMA GoodIsBoolean == ASSUME NEW m \in Msg PROVE m.good \in BOOLEAN
<1>1. CASE m = LockSignal
  BY <1>1 DEF LockSignal
<1>2. CASE m # LockSignal
  <2>1. PICK c \in Call, k \in Nat \ {0} : m = [method |-> c.method, good |-> c.good, id |-> k]
    BY <1>2 DEF Msg
  <2>2. m.good = c.good
    BY <2>1
  <2>3. QED
    BY <2>2, CallAssumption, Zenon
<1>3. QED
  BY <1>1, <1>2

(* Every step keeps the flags. *)
LEMMA FlagInvNext == FlagInv /\ BusInv /\ [ServicesNext]_serviceVars => FlagInv'
<1> SUFFICES ASSUME FlagInv, BusInv, [ServicesNext]_serviceVars PROVE FlagInv'
  OBVIOUS
<1>1. CASE UNCHANGED <<dark_mode, lockAsked>>
  BY <1>1, Zenon DEF FlagInv
<1>2. CASE dark_mode' = dark_mode /\ lockAsked' \in {TRUE, FALSE}
  BY <1>2, Zenon DEF FlagInv
<1>3. CASE DispatchCall
  <2>1. socket # <<>> /\ TakeMessage /\ lockAsked' = lockAsked
    BY <1>3 DEF DispatchCall
  <2>2. NextMessage \in Msg
    BY <2>1, TakeTakesFirst DEF BusInv
  <2>3. dark_mode' = NextMessage.good \/ dark_mode' = dark_mode
    BY <1>3, Zenon DEF DispatchCall
  <2>4. NextMessage.good \in BOOLEAN
    BY <2>2, GoodIsBoolean
  <2>5. QED
    BY <2>1, <2>3, <2>4, Zenon DEF FlagInv
<1>4. \/ UNCHANGED <<dark_mode, lockAsked>>
      \/ dark_mode' = dark_mode /\ lockAsked' \in {TRUE, FALSE}
      \/ DispatchCall
  BY DEF ServicesNext, Startup, KeybindsStep, DBusStep, zen_dbus_init, LockInitStep,
         sd_bus_match_signal, Message, MethodCall, LogindLock, DispatchStep, dbus_dispatch_cb,
         DispatchLock, KeyStep, TimeStep, ShutdownStep, zen_dbus_destroy, serviceVars, busVars
<1>5. QED
  BY <1>1, <1>2, <1>3, <1>4

(* Every step keeps the counts within their bounds. *)
LEMMA CountInvNext ==
    CountInv /\ BusInv /\ KeybindInv /\ [ServicesNext]_serviceVars => CountInv'
<1> SUFFICES ASSUME CountInv, BusInv, KeybindInv, [ServicesNext]_serviceVars PROVE CountInv'
  OBVIOUS
<1>1. stage' \in Stages
  BY DEF CountInv, Stages, ServicesNext, Startup, KeybindsStep, DBusStep, LockInitStep,
         Message, DispatchStep, KeyStep, TimeStep, ShutdownStep, serviceVars
<1>2. config' = config
  BY DEF ServicesNext, Startup, KeybindsStep, LoadEntry, LoadEnds, DBusStep, LockInitStep,
         Message, DispatchStep, KeyStep, TimeStep, ShutdownStep, serviceVars, keybindVars
<1>3. calls' = calls \/ (calls' = calls + 1 /\ Len(config) + calls < MaxEvents)
  BY DEF ServicesNext, Startup, KeybindsStep, DBusStep, zen_dbus_init, LockInitStep,
         sd_bus_match_signal, Message, MethodCall, LogindLock, DispatchStep, dbus_dispatch_cb,
         DispatchCall, DispatchLock, KeyStep, TimeStep, ShutdownStep, zen_dbus_destroy,
         serviceVars, busVars
<1>4. calls \in Nat /\ Len(config) \in Nat
  BY CallAssumption DEF BusInv, BusTypes, KeybindInv
<1>5. Len(config) + calls' <= MaxEvents
  BY <1>3, <1>4, EventsAssumption DEF CountInv
<1>6. QED
  BY <1>1, <1>2, <1>5 DEF CountInv

(* Together the invariants give every variable its type. *)
LEMMA InvariantsSuffice ==
    LockInv /\ BusInv /\ KeybindInv /\ FlagInv /\ CountInv => ServicesTypeOK
<1> SUFFICES ASSUME LockInv, BusInv, KeybindInv, FlagInv, CountInv PROVE ServicesTypeOK
  OBVIOUS
<1>1. /\ next_entry \in 1 .. MaxEntries + 1
      /\ Len(keybindings) \in Len(defaults) .. Len(defaults) + Len(config)
  BY DefaultsList, EntryAssumption DEF KeybindInv
<1>2. Len(rqueue) + Len(socket) <= MaxCalls + 1
  <2>1. /\ Len(rqueue) \in Nat /\ Len(socket) \in Nat /\ Len(replies) \in Nat
        /\ calls \in Nat /\ calls <= MaxCalls
        /\ Len(Waiting) = Len(rqueue) + Len(socket)
    BY CallAssumption DEF BusInv, BusTypes, Waiting
  <2>2. CASE bus = "none"
    BY <2>1, <2>2, CallAssumption DEF BusInv, BusTypes
  <2>3. CASE bus # "none"
    <3>1. Len(Waiting) + Len(replies) <= calls + 1
      BY <2>1, <2>3 DEF BusInv, BusLoad
    <3>2. QED
      BY <2>1, <3>1, CallAssumption
  <2>4. QED
    BY <2>2, <2>3
<1>3. TypeOK
  BY DEF LockInv
<1>4. QED
  BY <1>1, <1>2, <1>3, Zenon DEF ServicesTypeOK, FlagInv, CountInv

(* The queues of the bus, the registry and the flags keep their types and  *)
(* bounds, and so does the lock screen.                                    *)
THEOREM ServicesTypeCorrect == ServicesSpec => []ServicesTypeOK
<1>1. ServicesInit => FlagInv
  BY DEF ServicesInit, BusInit, FlagInv
<1>2. ServicesInit => CountInv
  <2> SUFFICES ASSUME ServicesInit PROVE CountInv
    OBVIOUS
  <2>1. Len(config) \in Nat /\ Len(config) <= MaxEntries /\ calls = 0
    BY KeybindInvInit DEF KeybindInv, ServicesInit, BusInit
  <2>2. Len(config) + calls <= MaxEvents
    BY <2>1, EntryAssumption, EventsAssumption
  <2>3. QED
    BY <2>2 DEF CountInv, ServicesInit, Stages
<1>3. QED
  BY <1>1, <1>2, FlagInvNext, CountInvNext, InvariantsSuffice, LockInvAmongServices,
     BusInvariant, KeybindInvariant, PTL DEF ServicesSpec
=============================================================================
