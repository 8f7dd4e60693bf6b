------------------------------ MODULE Services ------------------------------
(***************************************************************************)
(* The ways to the lock screen, and what shares the event loop with them:  *)
(* the screen lock (ScreenLock) with the keybinding registry (Keybinds)    *)
(* through which a key may lock the screen, and the bus (Bus) on which the *)
(* Lock signal of logind is to arrive, initialised in the order of         *)
(* zen_compositor_create.                                                  *)
(*                                                                         *)
(* Definitions named Fault... are plausible mistakes in the definition     *)
(* that follows them; no specification uses them.                          *)
(***************************************************************************)
EXTENDS ScreenLock, Keybinds, Bus

CONSTANTS Press,     \* presses of a key, with the active modifiers, that are not
                     \* for the lock screen
          MaxEvents  \* how many entries and calls there are together

ASSUME EventsAssumption == MaxEvents \in Nat /\ MaxEntries <= MaxEvents

VARIABLES stage  \* of zen_compositor_create, or "loop"

serviceVars == <<vars, keybindVars, busVars, stage>>

Stages == {"keybinds", "dbus", "lock", "loop"}

ServicesTypeOK ==
    /\ TypeOK
    /\ stage \in Stages
    /\ Len(config) + calls <= MaxEvents
    /\ next_entry \in 1 .. MaxEntries + 1
    /\ Len(keybindings) \in Len(defaults) .. Len(defaults) + Len(config)
    /\ Len(rqueue) + Len(socket) <= MaxCalls + 1
    /\ dark_mode \in BOOLEAN /\ lockAsked \in BOOLEAN

ServicesInit == Init /\ KeybindsInit /\ BusInit /\ stage = "keybinds"

MayFail == failures < MaxFailures /\ failures' = failures + 1

-----------------------------------------------------------------------------
(* zen_compositor_create.                                                  *)

KeybindsStep ==
    /\ stage = "keybinds"
    /\ \/ LoadEntry /\ UNCHANGED <<failures, stage>>
       \/ LoadEnds(FALSE) /\ stage' = "dbus" /\ UNCHANGED failures
       \/ LoadEnds(TRUE) /\ stage' = "dbus" /\ MayFail
    /\ UNCHANGED <<running, lockVars, timer, idleFor, busVars>>

DBusStep ==
    /\ stage = "dbus" /\ stage' = "lock"
    /\ \/ zen_dbus_init(TRUE) /\ UNCHANGED failures
       \/ zen_dbus_init(FALSE) /\ MayFail
    /\ UNCHANGED <<running, lockVars, timer, idleFor, keybindVars>>

LockInitStep ==
    /\ stage = "lock" /\ stage' = "loop"
    /\ sd_bus_match_signal
    /\ UNCHANGED <<vars, keybindVars>>

(* Peers and logind. *)
Message ==
    /\ \/ MethodCall /\ Len(config) + calls < MaxEvents
       \/ stage = "loop" /\ LogindLock
    /\ running
    /\ UNCHANGED <<vars, keybindVars, stage>>

-----------------------------------------------------------------------------
(* The event loop.                                                         *)

FaultNotWhileLocked ==
    \/ DispatchCall /\ ~locked /\ UNCHANGED vars
    \/ DispatchLock /\ lock_signal_cb

dbus_dispatch_cb ==
    \/ DispatchCall /\ UNCHANGED vars
    \/ DispatchLock /\ lock_signal_cb

DispatchStep ==
    /\ stage = "loop" /\ running
    /\ dbus_dispatch_cb
    /\ UNCHANGED <<keybindVars, stage>>

(* handle_keyboard_key: the lock screen, a keybinding or a client. *)
KeyStep ==
    /\ stage = "loop"
    /\ \/ \E keysym \in Char \cup Control, pressed \in BOOLEAN : LockedKey(keysym, pressed)
       \/ \E p \in Press : \/ ActionOf(p.mods, p.key) = "lock_screen" /\ LockKeybinding
                           \/ ActionOf(p.mods, p.key) # "lock_screen" /\ UnlockedKey
    /\ UNCHANGED <<keybindVars, busVars, stage>>

TimeStep ==
    /\ stage = "loop"
    /\ Tick \/ idle_timeout_cb
    /\ UNCHANGED <<keybindVars, busVars, stage>>

(* zen_compositor_destroy: the lock screen goes before the bus does. *)
ShutdownStep ==
    /\ stage = "loop"
    /\ zen_lock_destroy
    /\ zen_dbus_destroy
    /\ UNCHANGED <<keybindVars, stage>>

Startup == KeybindsStep \/ DBusStep \/ LockInitStep

ServicesNext ==
    \/ Startup
    \/ Message
    \/ DispatchStep
    \/ KeyStep
    \/ TimeStep
    \/ ShutdownStep

(* The creation goes on, time passes, and the event loop gets around to a  *)
(* timer that is due and to a socket that is readable.                     *)
ServicesFairness ==
    /\ WF_serviceVars(Startup)
    /\ WF_serviceVars(stage = "loop" /\ Tick /\ UNCHANGED <<keybindVars, busVars, stage>>)
    /\ WF_serviceVars(/\ stage = "loop" /\ idle_timeout_cb
                      /\ UNCHANGED <<keybindVars, busVars, stage>>)
    /\ WF_serviceVars(DispatchStep)

ServicesSpec == ServicesInit /\ [][ServicesNext]_serviceVars /\ ServicesFairness

-----------------------------------------------------------------------------
(* Properties.                                                             *)

(* Whatever keybinds.json holds, a default keeps the keys that the file    *)
(* does not ask for, and the entries before the first bad one get the keys *)
(* that no default has, the earlier of two that ask for the same           *)
(* (keybinds.c:184, keybinds.c:427).  CustomOverridesDefault is about the  *)
(* keys that a default has, OwnModifiers about entries without a list.     *)
FileTakesEffect == BindingsAsWritten(failures > 0)

(* A key that both a default and a good entry of the file name does what   *)
(* an entry says ("Custom keybinding from `keybinds.json` overrides the    *)
(* default", docs/ROADMAP.md:412).                                         *)
CustomOverridesDefault ==
    loaded /\ failures = 0 =>
        \A b \in ToSet(defaults) : AskingFor(b) # {} =>
            ActionOf(b.mods, b.key) \in {e.action : e \in AskingFor(b)}

(* A binding of the file has the modifiers that its own entry names        *)
(* ("Extract the "modifiers" array field from a binding object",           *)
(* keybinds.c:313).                                                        *)
OwnModifiers ==
    \A i \in 1 .. Len(keybindings) - Len(defaults) :
        keybindings[Len(defaults) + i].mods = Written(config[i]).mods

(* The file is heeded in one of the two respects; the repository claims    *)
(* both, so that a file that violates this refutes each claim              *)
(* (keybinds.c:184, keybinds.c:219).                                       *)
FileIsHeeded == CustomOverridesDefault \/ OwnModifiers

(* Every call is answered while the compositor runs, locked or not; only   *)
(* one that arrives while zen_lock_init waits for the bus is put aside     *)
(* until something else arrives (dbus.c:270, lock.c:516).                  *)
CallsAnswered ==
    \A i \in 1 .. MaxCalls : calls >= i ~> Answered(i) \/ Stranded(i) \/ ~running

(* A Lock signal of logind reaches lock_signal_cb ("Register logind Lock   *)
(* signal via sd-bus if bus is available", lock.c:513), as long as the     *)
(* compositor runs and nothing failed.                                     *)
LogindIsHeard == lockAsked ~> ~lockAsked \/ failures > 0 \/ ~running
=============================================================================
