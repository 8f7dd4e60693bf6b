------------------------------- MODULE WlList -------------------------------
(***************************************************************************)
(* libwayland's wl_list as the compositor uses it: an intrusive list of    *)
(* distinct entries, kept as the sequence of its entries from the head.    *)
(* The scene graph keeps its children the same way, so the same operators  *)
(* describe stacking order (topmost first).                                *)
(***************************************************************************)
EXTENDS Naturals, Sequences, SequencesExt

(* The place of an entry in a list it belongs to. *)
Position(s, x) == CHOOSE i \in DOMAIN s : s[i] = x

(* x comes before y when the list is walked from its head. *)
Before(s, x, y) == \E i, j \in DOMAIN s : i < j /\ s[i] = x /\ s[j] = y

(* wl_list_insert(head, entry): the entry becomes the first. *)
wl_list_insert(s, x) == Cons(x, s)

(* wl_list_remove(entry), for an entry of the list. *)
wl_list_remove(s, x) == RemoveAt(s, Position(s, x))

(* Remove and insert at the head: the entry moves to the front. *)
MoveToFront(s, x) == wl_list_insert(wl_list_remove(s, x), x)

(* What wl_list_for_each finds when it stops at the first entry that is in *)
(* S; some entry of the list is.                                           *)
First(s, S) == CHOOSE x \in S \cap ToSet(s) :
                  \A y \in (S \cap ToSet(s)) \ {x} : Before(s, x, y)
=============================================================================
