------------------------------ MODULE Keybinds ------------------------------
(***************************************************************************)
(* The keybinding registry of src/compositor/src/keybinds.c: the defaults, *)
(* the entries of keybinds.json behind them, and the search for the        *)
(* binding of a key.                                                       *)
(*                                                                         *)
(* An entry of the file is what the parser can make of it: its modifiers   *)
(* are a list, absent or something else, its key and its action have a     *)
(* known name, an unknown one or none.  A file that is missing, empty, too *)
(* large or without a list of bindings has no entries.                     *)
(*                                                                         *)
(* Definitions named Fault... are plausible mistakes in the definition     *)
(* that follows them; no specification uses them.                          *)
(***************************************************************************)
EXTENDS Naturals, Sequences, SequencesExt

CONSTANTS Entry,      \* the entries a file may hold
          MaxEntries  \* how many of them

Token  == {"ctrl", "alt", "super", "shift"}
Action == {"launch_terminal", "toggle_launcher", "lock_screen", "switch_window",
           "close_window", "custom"}
(* Names that are no name, or missing. *)
Bad    == {"unknown", "missing"}

ASSUME EntryAssumption ==
    /\ MaxEntries \in Nat
    /\ \A e \in Entry : /\ e.modifiers \in {"array", "absent", "other"}
                        /\ e.action \in Action \cup Bad

VARIABLES
    config,      \* the entries of keybinds.json
    next_entry,  \* the entry that zen_keybinds_load_config comes to next
    loaded,      \* has it returned?
    keybindings  \* compositor->keybindings

keybindVars == <<config, next_entry, loaded, keybindings>>

Binding(mods, key, action) == [mods |-> mods, key |-> key, action |-> action]

(* The bindings that zen_keybinds_init registers first. *)
defaults == << Binding({"ctrl", "alt"}, "t", "launch_terminal"),
               Binding({}, "Super_L", "toggle_launcher"),
               Binding({"super"}, "l", "lock_screen"),
               Binding({"alt"}, "Tab", "switch_window"),
               Binding({"super"}, "q", "close_window") >>

KeybindsInit ==
    /\ config \in BoundedSeq(Entry, MaxEntries)
    /\ next_entry = 1 /\ loaded = FALSE
    /\ keybindings = defaults

FaultInFront(b) == <<b>> \o keybindings

(* register_binding inserts before the head of the list, at its end. *)
register_binding(b) == Append(keybindings, b)

(* parse_modifiers_array: the list that begins at the next bracket, which  *)
(* may belong to a later entry; tokens that are not known do not count.    *)
parse_modifiers_array(i) ==
    LET at == SelectInSubSeq(config, i, Len(config), LAMBDA e : e.modifiers = "array")
    IN  IF at = 0 THEN {} ELSE config[at].mods \cap Token

extract_modifiers_field(i) ==
    IF config[i].modifiers = "absent" THEN {} ELSE parse_modifiers_array(i)

(* An entry that the parser takes. *)
Accepted(e) == e.key \notin Bad /\ e.action \notin Bad

LoadEntry ==
    /\ ~loaded /\ next_entry \in DOMAIN config
    /\ Accepted(config[next_entry])
    /\ keybindings' = register_binding(Binding(extract_modifiers_field(next_entry),
                                               config[next_entry].key,
                                               config[next_entry].action))
    /\ next_entry' = next_entry + 1
    /\ UNCHANGED <<config, loaded>>

(* zen_keybinds_load_config returns: at the end of the list, at the first  *)
(* entry that it does not take, or without memory for one.  What it has    *)
(* registered stays, and zen_keybinds_init ignores the result.             *)
LoadEnds(outOfMemory) ==
    /\ ~loaded
    /\ \/ next_entry > Len(config) /\ ~outOfMemory
       \/ next_entry \in DOMAIN config /\ (~Accepted(config[next_entry]) \/ outOfMemory)
    /\ loaded' = TRUE
    /\ UNCHANGED <<config, next_entry, keybindings>>

(* zen_keybinds_handle_key: the first binding with exactly these modifiers *)
(* and this key, 0 if there is none.                                       *)
BindingOf(mods, key) ==
    SelectInSeq(keybindings, LAMBDA b : b.mods = mods /\ b.key = key)

(* execute_action, for the key that was found. *)
ActionOf(mods, key) ==
    IF BindingOf(mods, key) = 0 THEN "none" ELSE keybindings[BindingOf(mods, key)].action

-----------------------------------------------------------------------------
(* The entries before the first that the parser does not take. *)
GoodPrefix ==
    LET bad == SelectInSeq(config, LAMBDA e : ~Accepted(e))
    IN  IF bad = 0 THEN config ELSE SubSeq(config, 1, bad - 1)

(* What the file says of a key: the modifiers that an entry names itself.  *)
Written(e) == Binding(IF e.modifiers = "array" THEN e.mods \cap Token ELSE {}, e.key, e.action)

SameKeys(a, b) == a.mods = b.mods /\ a.key = b.key

(* Whatever the file holds, a default keeps the keys that no good entry    *)
(* names, and each entry before the first bad one gets those that it names *)
(* and that neither a default nor an earlier entry has, unless memory ran  *)
(* out; an entry whose modifiers are not a list may take those of a later  *)
(* one.                                                                    *)
BindingsAsWritten(outOfMemory) ==
    LET written    == defaults \o [i \in DOMAIN GoodPrefix |-> Written(GoodPrefix[i])]
        FirstOf(b) == SelectInSeq(written, LAMBDA w : w.mods = b.mods /\ w.key = b.key)
        AsWritten(b) == ActionOf(b.mods, b.key) =
                            IF FirstOf(b) = 0 THEN "none" ELSE written[FirstOf(b)].action
    IN  loaded =>
            /\ \A b \in ToSet(defaults) :
                  (\A e \in ToSet(GoodPrefix) : ~SameKeys(Written(e), b)) => AsWritten(b)
            /\ \/ outOfMemory
               \/ \E e \in ToSet(config) : e.modifiers = "other"
               \/ \A e \in ToSet(config) :
                     (\A b \in ToSet(defaults) : ~SameKeys(Written(e), b)) =>
                         AsWritten(Written(e))

(* The entries that ask for the keys of a binding. *)
AskingFor(b) == {e \in ToSet(GoodPrefix) : SameKeys(Written(e), b)}
=============================================================================
