---------------------------- MODULE MCScreenLock ----------------------------
(* The screen lock, with the keybindings and the bus, for TLC. *)
EXTENDS Services

MCSecret == <<"a">>

Line(modifiers, mods, key, action) ==
    [modifiers |-> modifiers, mods |-> mods, key |-> key, action |-> action]

(* An entry with the keys of a default, two with the same keys, one of     *)
(* which counts an unknown modifier, one without a list, and two bad ones. *)
MCEntry == { Line("array", {"super"}, "l", "custom"),
             Line("array", {"super"}, "k", "lock_screen"),
             Line("array", {"super", "hyper"}, "k", "custom"),
             Line("other", {}, "k", "custom"),
             Line("absent", {}, "missing", "custom"),
             Line("absent", {}, "F1", "unknown") }

(* Keys that are bound, and one with a modifier too many. *)
MCPress == { [mods |-> {"super"}, key |-> "l"],
             [mods |-> {"super"}, key |-> "k"],
             [mods |-> {"super", "caps"}, key |-> "l"] }

(* Every method, with good and with bad arguments where it looks at them. *)
MCCall == { [method |-> "LaunchApp", good |-> TRUE],
            [method |-> "GetRunningApps", good |-> TRUE],
            [method |-> "PinToShelf", good |-> FALSE],
            [method |-> "UnpinFromShelf", good |-> TRUE],
            [method |-> "SetShelfConfig", good |-> FALSE],
            [method |-> "ShowNotification", good |-> TRUE],
            [method |-> "ToggleDarkMode", good |-> TRUE] }
=============================================================================
