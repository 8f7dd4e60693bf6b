---------------------------- MODULE DesktopProofs ----------------------------
(***************************************************************************)
(* Proofs about Desktop, for any number of windows and keyboards.          *)
(***************************************************************************)
EXTENDS Desktop, WlListProofs

(* The inductive invariant.  Focus transfer is right only because the      *)
(* MRU list and the surface states agree, and the stacking order only      *)
(* because no entry is linked twice, so no part stands alone.              *)
DesktopInv ==
    /\ TypeOK
    /\ SurfaceStates
    /\ FocusIsFirstMapped
    /\ StackFollowsMru
    /\ NoDanglingPointer
    /\ OnlyFocusedActivated

Trees == <<WallpaperTree, OverlayTree>>
Nodes == Toplevel \cup {OverlayTree, WallpaperTree}

-----------------------------------------------------------------------------
(* The toplevels form a list. *)
LEMMA MruIsList ==
    ASSUME TypeOK, SurfaceStates
    PROVE  IsList(toplevels, Toplevel) /\ Live \subseteq Toplevel
BY DEF TypeOK, SurfaceStates, IsList, IsInjective, Live, ToSet

(* The entry that a walk over the list finds, in terms of order. *)
LEMMA WalkResult ==
    ASSUME NEW s, IsList(s, Toplevel), NEW S, S \subseteq ToSet(s), NEW f
    PROVE  f = (IF S = {} THEN NULL ELSE First(s, S))
             <=> \/ S = {} /\ f = NULL
                 \/ S # {} /\ IsFirst(s, S, f)
<1>1. CASE S = {}
  BY <1>1
<1>2. CASE S # {}
  <2>1. IsFirst(s, S, First(s, S))
    BY <1>2, FirstExists DEF IsList
  <2>2. ASSUME IsFirst(s, S, f) PROVE f = First(s, S)
    BY <2>2, FirstIsUnique
  <2>3. QED
    BY <1>2, <2>1, <2>2
<1>3. QED
  BY <1>1, <1>2

(* The lists as sequences of scene nodes. *)
LEMMA NodeSequences ==
    ASSUME NEW s, IsList(s, Toplevel)
    PROVE  /\ s \in Seq(Nodes)
           /\ Trees \in Seq(Nodes)
           /\ \A i, j \in 1 .. Len(s) : s[i] = s[j] => i = j
           /\ \A x \in Toplevel : x \notin ToSet(Trees)
<1>1. s \in Seq(Nodes)
  BY DEF IsList, Nodes
<1>2. Trees \in Seq(Nodes)
  BY DEF Trees, Nodes
<1>3. ToSet(Trees) = {WallpaperTree, OverlayTree}
  BY DEF ToSet, Trees
<1>4. QED
  BY <1>1, <1>2, <1>3, TreeAssumption DEF IsList

(* What zen_xdg_focus_toplevel does: the lists keep their entries and      *)
(* agree, and the toplevel that gains focus comes first.                   *)
LEMMA FocusLemma ==
    ASSUME DesktopInv, NEW next \in Live \cup {NULL}, zen_xdg_focus_toplevel(next)
    PROVE  /\ IsList(toplevels', Toplevel)
           /\ Live' = Live
           /\ StackFollowsMru'
           /\ focused' = next
           /\ activated' = {next} \ {NULL}
           /\ kbFocus' \in {kbFocus, next}
           /\ next \in {NULL, focused} => toplevels' = toplevels
           /\ next \notin {NULL, focused} =>
                 \A S : next \in S => IsFirst(toplevels', S, next)
<1>1. IsList(toplevels, Toplevel) /\ Live \subseteq Toplevel
  BY MruIsList DEF DesktopInv
<1>2. focused' = next /\ kbFocus' \in {kbFocus, next}
  BY DEF zen_xdg_focus_toplevel, KbFocusAfterFocus
<1>3. activated' = {next} \ {NULL}
  BY DEF zen_xdg_focus_toplevel, ActivatedAfterFocus, DesktopInv, OnlyFocusedActivated
<1>4. CASE next \in {NULL, focused}
  <2>1. toplevels' = toplevels /\ scene' = scene
    BY <1>4 DEF zen_xdg_focus_toplevel, MruAfterFocus, SceneAfterFocus
  <2>2. QED
    BY <1>1, <1>2, <1>3, <1>4, <2>1 DEF DesktopInv, StackFollowsMru, Live
<1>5. CASE next \notin {NULL, focused}
  <2>1. /\ toplevels' = MoveToFront(toplevels, next)
        /\ scene' = MoveToFront(scene, next)
    BY <1>5 DEF zen_xdg_focus_toplevel, MruAfterFocus, SceneAfterFocus
  <2>2. next \in ToSet(toplevels) /\ next \in Toplevel
    BY <1>1, <1>5 DEF Live
  <2>3. IsList(toplevels', Toplevel) /\ Live' = Live
    BY <1>1, <2>1, <2>2, MoveEntries DEF Live
  <2>4. scene' = toplevels' \o Trees
    <3>1. scene = toplevels \o Trees
      BY DEF DesktopInv, StackFollowsMru, Trees
    <3>2. /\ toplevels \in Seq(Nodes) /\ Trees \in Seq(Nodes)
          /\ \A i, j \in 1 .. Len(toplevels) : toplevels[i] = toplevels[j] => i = j
          /\ next \notin ToSet(Trees)
      BY <1>1, <2>2, NodeSequences
    <3>3. MoveToFront(toplevels \o Trees, next) = MoveToFront(toplevels, next) \o Trees
      BY <2>2, <3>2, MoveInPrefix
    <3>4. QED
      BY <2>1, <3>1, <3>3
  <2>5. ASSUME NEW S, next \in S
        PROVE  IsFirst(toplevels', S, next)
    <3>1. next \in S \cap ToSet(toplevels')
      BY <2>2, <2>3, <2>5 DEF Live
    <3>2. ASSUME NEW y \in (S \cap ToSet(toplevels')) \ {next}
          PROVE  Before(toplevels', next, y)
      BY <1>1, <2>1, <2>2, <2>3, MoveOrder DEF Live
    <3>3. QED
      BY <3>1, <3>2 DEF IsFirst
  <2>6. QED
    BY <1>2, <1>3, <1>5, <2>3, <2>4, <2>5 DEF StackFollowsMru, Trees
<1>6. QED
  BY <1>4, <1>5

(* The parts of the invariant that follow once the lists are right. *)
LEMMA InvFromParts ==
    ASSUME IsList(toplevels', Toplevel), StackFollowsMru',
           NEW f, focused' = f, activated' = {f} \ {NULL},
           mapped' \subseteq initialized', initialized' \subseteq Live',
           enabled' = mapped', over' \subseteq mapped',
           \/ mapped' = {} /\ f = NULL
           \/ mapped' # {} /\ IsFirst(toplevels', mapped', f),
           {grabbed', kbFocus', ptrFocus'} \subseteq Live' \cup {NULL},
           keyboards' \subseteq Keyboard, seatKeyboard' \in Keyboard \cup {NULL},
           kbCap' \in BOOLEAN, button' \in BOOLEAN
    PROVE  DesktopInv'
<1>1. /\ toplevels' \in Seq(Toplevel)
      /\ \A i, j \in 1 .. Len(toplevels') : toplevels'[i] = toplevels'[j] => i = j
      /\ Live' \subseteq Toplevel
  BY DEF IsList, Live, ToSet
<1>2. SurfaceStates'
  BY <1>1 DEF SurfaceStates, IsInjective
<1>3. mapped' \subseteq ToSet(toplevels')
  BY DEF Live
<1>4. FocusIsFirstMapped'
  BY <1>3, WalkResult DEF FocusIsFirstMapped, NextInMru
<1>5. focused' \in Live' \cup {NULL}
  BY DEF IsFirst, Live
<1>6. NoDanglingPointer'
  BY <1>5 DEF NoDanglingPointer
<1>7. OnlyFocusedActivated'
  BY DEF OnlyFocusedActivated
<1>8. scene' \in Seq(Nodes)
  <2>1. toplevels' \in Seq(Nodes) /\ Trees \in Seq(Nodes)
    BY NodeSequences
  <2>2. scene' = toplevels' \o Trees
    BY DEF StackFollowsMru, Trees
  <2>3. QED
    BY <2>1, <2>2, ConcatProperties
<1>9. TypeOK'
  BY <1>1, <1>5, <1>8 DEF TypeOK, Nodes
<1>10. QED
  BY <1>2, <1>4, <1>6, <1>7, <1>9 DEF DesktopInv

(* The same parts, read off the invariant. *)
LEMMA InvParts ==
    ASSUME DesktopInv
    PROVE  /\ IsList(toplevels, Toplevel) /\ Live \subseteq Toplevel
           /\ mapped \subseteq initialized /\ initialized \subseteq Live
           /\ enabled = mapped /\ over \subseteq mapped
           /\ \/ mapped = {} /\ focused = NULL
              \/ mapped # {} /\ IsFirst(toplevels, mapped, focused)
           /\ focused \in mapped \cup {NULL}
           /\ {focused, grabbed, kbFocus, ptrFocus} \subseteq Live \cup {NULL}
           /\ activated = {focused} \ {NULL}
           /\ NULL \notin Live
<1>1. IsList(toplevels, Toplevel) /\ Live \subseteq Toplevel
  BY MruIsList DEF DesktopInv
<1>2. /\ mapped \subseteq initialized /\ initialized \subseteq Live
      /\ enabled = mapped /\ over \subseteq mapped
  BY DEF DesktopInv, SurfaceStates
<1>3. mapped \subseteq ToSet(toplevels)
  BY <1>2 DEF Live
<1>4. \/ mapped = {} /\ focused = NULL
      \/ mapped # {} /\ IsFirst(toplevels, mapped, focused)
  BY <1>1, <1>3, WalkResult DEF DesktopInv, FocusIsFirstMapped, NextInMru
<1>5. focused \in mapped \cup {NULL}
  BY <1>4 DEF IsFirst
<1>6. QED
  BY <1>1, <1>2, <1>4, <1>5, NullAssumption
     DEF DesktopInv, NoDanglingPointer, OnlyFocusedActivated

-----------------------------------------------------------------------------
(* The actions that change the list or the surfaces, one by one. *)

(* A new window is listed, and neither mapped nor focused                  *)
(* (handle_new_xdg_toplevel).                                              *)
LEMMA NewToplevelStep ==
    ASSUME DesktopInv, NEW t \in Toplevel, handle_new_xdg_toplevel(t)
    PROVE  DesktopInv'
<1> USE DEF handle_new_xdg_toplevel, surfVars, kbdVars, ptrVars
<1>1. /\ IsList(toplevels, Toplevel) /\ t \notin ToSet(toplevels)
      /\ toplevels' = wl_list_insert(toplevels, t)
  BY InvParts DEF Live
<1>2. IsList(toplevels', Toplevel) /\ Live' = Live \cup {t}
  BY <1>1, InsertEntries DEF Live
<1>3. StackFollowsMru'
  <2>1. toplevels \in Seq(Nodes) /\ Trees \in Seq(Nodes) /\ <<t>> \in Seq(Nodes)
    BY <1>1, NodeSequences DEF Nodes
  <2>2. (<<t>> \o toplevels) \o Trees = <<t>> \o (toplevels \o Trees)
    BY <2>1, ConcatAssociative
  <2>3. QED
    BY <2>2 DEF DesktopInv, StackFollowsMru, Trees, wl_list_insert, Cons
<1>4. ASSUME mapped # {}, IsFirst(toplevels, mapped, focused)
      PROVE  IsFirst(toplevels', mapped, focused)
  <2>1. mapped \subseteq ToSet(toplevels)
    BY InvParts DEF Live
  <2>2. \A y \in mapped \ {focused} : Before(toplevels, focused, y)
    BY <1>4, <2>1 DEF IsFirst
  <2>3. \A y \in mapped \ {focused} : Before(toplevels', focused, y)
    BY <1>1, <2>2, InsertOrder
  <2>4. focused \in mapped /\ mapped \subseteq ToSet(toplevels')
    BY <1>2, <1>4, <2>1 DEF IsFirst, Live
  <2>5. QED
    BY <2>3, <2>4 DEF IsFirst
<1>5. /\ focused' = focused /\ activated' = {focused} \ {NULL}
      /\ mapped' \subseteq initialized' /\ initialized' \subseteq Live'
      /\ enabled' = mapped' /\ over' \subseteq mapped'
      /\ {grabbed', kbFocus', ptrFocus'} \subseteq Live' \cup {NULL}
  BY <1>2, InvParts
<1>6. \/ mapped' = {} /\ focused = NULL
      \/ mapped' # {} /\ IsFirst(toplevels', mapped', focused)
  BY <1>4, InvParts
<1>7. /\ keyboards' \subseteq Keyboard /\ seatKeyboard' \in Keyboard \cup {NULL}
      /\ kbCap' \in BOOLEAN /\ button' \in BOOLEAN
  BY DEF DesktopInv, TypeOK
<1>8. QED
  BY <1>2, <1>3, <1>5, <1>6, <1>7, InvFromParts

(* A window that is mapped comes first in the list and has the focus       *)
(* (handle_toplevel_map).                                                  *)
LEMMA MapStep ==
    ASSUME DesktopInv, NEW t \in Toplevel, handle_toplevel_map(t)
    PROVE  DesktopInv'
<1> USE DEF handle_toplevel_map, kbdVars
<1>1. t \in Live /\ t \notin {NULL, focused} /\ t \in mapped'
  BY InvParts
<1>2. /\ IsList(toplevels', Toplevel) /\ Live' = Live /\ StackFollowsMru'
      /\ focused' = t /\ activated' = {t} \ {NULL} /\ kbFocus' \in {kbFocus, t}
      /\ IsFirst(toplevels', mapped', t)
  BY <1>1, FocusLemma
<1>3. /\ mapped' \subseteq initialized' /\ initialized' \subseteq Live'
      /\ enabled' = mapped' /\ over' \subseteq mapped'
      /\ {grabbed', kbFocus', ptrFocus'} \subseteq Live' \cup {NULL}
  BY <1>1, <1>2, InvParts
<1>4. /\ keyboards' \subseteq Keyboard /\ seatKeyboard' \in Keyboard \cup {NULL}
      /\ kbCap' \in BOOLEAN /\ button' \in BOOLEAN
  BY DEF DesktopInv, TypeOK
<1>5. QED
  BY <1>1, <1>2, <1>3, <1>4, InvFromParts

(* The window that comes first among those left has the focus              *)
(* (handle_toplevel_unmap).                                                *)
LEMMA UnmapStep ==
    ASSUME DesktopInv, NEW t \in Toplevel, handle_toplevel_unmap(t)
    PROVE  DesktopInv'
<1> DEFINE rest == mapped \ {t}
           next == IF focused = t THEN NextInMru(rest) ELSE focused
<1> USE DEF handle_toplevel_unmap, kbdVars
<1>1. t \in mapped /\ mapped' = rest /\ rest \subseteq ToSet(toplevels)
  BY InvParts DEF Live
<1>2. \/ rest = {} /\ next = NULL
      \/ rest # {} /\ IsFirst(toplevels, rest, next)
  <2>1. CASE focused = t
    BY <1>1, <2>1, InvParts, WalkResult DEF NextInMru
  <2>2. CASE focused # t
    <3>1. IsFirst(toplevels, mapped, focused) /\ focused \in rest
      BY <1>1, <2>2, InvParts DEF IsFirst
    <3>2. IsFirst(toplevels, rest, focused)
      BY <3>1 DEF IsFirst
    <3>3. QED
      BY <2>2, <3>1, <3>2
  <2>3. QED
    BY <2>1, <2>2
<1>3. next \in rest \cup {NULL} /\ next \in Live \cup {NULL}
  BY <1>1, <1>2 DEF IsFirst, Live
<1>4. zen_xdg_focus_toplevel(next)
  OBVIOUS
<1> HIDE DEF next
<1>5. /\ IsList(toplevels', Toplevel) /\ Live' = Live /\ StackFollowsMru'
      /\ focused' = next /\ activated' = {next} \ {NULL} /\ kbFocus' \in {kbFocus, next}
      /\ next \in {NULL, focused} => toplevels' = toplevels
      /\ next \notin {NULL, focused} => \A S : next \in S => IsFirst(toplevels', S, next)
  BY <1>3, <1>4, FocusLemma
<1>6. \/ mapped' = {} /\ next = NULL
      \/ mapped' # {} /\ IsFirst(toplevels', mapped', next)
  <2>1. CASE next \in {NULL, focused}
    BY <1>1, <1>2, <1>5, <2>1
  <2>2. CASE next \notin {NULL, focused}
    BY <1>1, <1>3, <1>5, <2>2
  <2>3. QED
    BY <2>1, <2>2
<1>7. /\ mapped' \subseteq initialized' /\ initialized' \subseteq Live'
      /\ enabled' = mapped' /\ over' \subseteq mapped'
      /\ {grabbed', kbFocus', ptrFocus'} \subseteq Live' \cup {NULL}
  BY <1>3, <1>5, InvParts
<1>8. /\ keyboards' \subseteq Keyboard /\ seatKeyboard' \in Keyboard \cup {NULL}
      /\ kbCap' \in BOOLEAN /\ button' \in BOOLEAN
  BY DEF DesktopInv, TypeOK
<1>9. QED
  BY <1>5, <1>6, <1>7, <1>8, InvFromParts

(* A destroyed window was not focused, and no pointer to it is left        *)
(* (handle_toplevel_destroy).                                              *)
LEMMA DestroyStep ==
    ASSUME DesktopInv, NEW t \in Toplevel, handle_toplevel_destroy(t)
    PROVE  DesktopInv'
<1> USE DEF handle_toplevel_destroy, kbdVars
<1>1. /\ IsList(toplevels, Toplevel) /\ t \in ToSet(toplevels)
      /\ t \notin mapped /\ focused # t
  BY InvParts DEF Live
<1>2. /\ focused' = focused
      /\ toplevels' = wl_list_remove(toplevels, t)
      /\ scene' = wl_list_remove(scene, t)
      /\ activated' = activated \ {t}
      /\ kbFocus' = IF kbFocus = t THEN NULL ELSE kbFocus
  BY <1>1 DEF MruAfterFocus, SceneAfterFocus, ActivatedAfterFocus, KbFocusAfterFocus
<1>3. IsList(toplevels', Toplevel) /\ Live' = Live \ {t}
  BY <1>1, <1>2, RemoveEntries DEF Live
<1>4. StackFollowsMru'
  <2>1. /\ toplevels \in Seq(Nodes) /\ Trees \in Seq(Nodes)
        /\ \A i, j \in 1 .. Len(toplevels) : toplevels[i] = toplevels[j] => i = j
        /\ t \notin ToSet(Trees)
    BY <1>1, NodeSequences
  <2>2. wl_list_remove(toplevels \o Trees, t) = wl_list_remove(toplevels, t) \o Trees
    BY <1>1, <2>1, RemoveFromPrefix
  <2>3. QED
    BY <1>2, <2>2 DEF DesktopInv, StackFollowsMru, Trees
<1>5. ASSUME mapped # {}, IsFirst(toplevels, mapped, focused)
      PROVE  IsFirst(toplevels', mapped, focused)
  <2>1. mapped \subseteq ToSet(toplevels)
    BY InvParts DEF Live
  <2>2. \A y \in mapped \ {focused} : Before(toplevels, focused, y)
    BY <1>5, <2>1 DEF IsFirst
  <2>3. \A y \in mapped \ {focused} : Before(toplevels', focused, y)
    BY <1>1, <1>2, <2>2, RemoveOrder
  <2>4. focused \in mapped /\ mapped \subseteq ToSet(toplevels')
    BY <1>1, <1>3, <1>5, <2>1 DEF IsFirst, Live
  <2>5. QED
    BY <2>3, <2>4 DEF IsFirst
<1>6. /\ focused' = focused /\ activated' = {focused} \ {NULL}
      /\ mapped' \subseteq initialized' /\ initialized' \subseteq Live'
      /\ enabled' = mapped' /\ over' \subseteq mapped'
      /\ {grabbed', kbFocus', ptrFocus'} \subseteq Live' \cup {NULL}
  BY <1>1, <1>2, <1>3, InvParts
<1>7. \/ mapped' = {} /\ focused = NULL
      \/ mapped' # {} /\ IsFirst(toplevels', mapped', focused)
  BY <1>5, InvParts
<1>8. /\ keyboards' \subseteq Keyboard /\ seatKeyboard' \in Keyboard \cup {NULL}
      /\ kbCap' \in BOOLEAN /\ button' \in BOOLEAN
  BY DEF DesktopInv, TypeOK
<1>9. QED
  BY <1>3, <1>4, <1>6, <1>7, <1>8, InvFromParts

(* The window under the cursor, if any, is mapped. *)
LEMMA ToplevelAtIsMapped ==
    ASSUME DesktopInv, NEW S
    PROVE  ToplevelAt(S) \in mapped \cup {NULL}
<1>1. CASE S \cap enabled = {}
  BY <1>1 DEF ToplevelAt
<1>2. CASE S \cap enabled # {}
  <2> DEFINE M == S \cap enabled
  <2>1. PICK m \in M : m \in ToSet(toplevels)
    BY <1>2, InvParts DEF Live
  <2>2. /\ IsList(toplevels, Toplevel) /\ scene = toplevels \o Trees
        /\ M \subseteq ToSet(toplevels)
    BY InvParts DEF DesktopInv, StackFollowsMru, Trees, Live
  <2>3. /\ toplevels \in Seq(Nodes) /\ Trees \in Seq(Nodes)
    BY <2>2, NodeSequences
  <2>4. scene \in Seq(Nodes)
    BY <2>2, <2>3, ConcatProperties
  <2>5. m \in ToSet(scene)
    <3>1. PICK i \in 1 .. Len(toplevels) : toplevels[i] = m
      BY <2>1, <2>3 DEF ToSet
    <3>2. i \in 1 .. Len(scene) /\ scene[i] = m
      BY <2>2, <2>3, <3>1, ConcatProperties
    <3>3. QED
      BY <2>4, <3>2 DEF ToSet
  <2>6. IsFirst(scene, M, First(scene, M))
    BY <2>1, <2>4, <2>5, FirstExists
  <2>7. QED
    BY <1>2, <2>6, InvParts DEF ToplevelAt, IsFirst
<1>3. QED
  BY <1>1, <1>2

(* A press focuses the window under the cursor, which is mapped            *)
(* (handle_cursor_button).                                                 *)
LEMMA ButtonPressStep ==
    ASSUME DesktopInv, ButtonPress
    PROVE  DesktopInv'
<1> DEFINE next == IF ToplevelAt(over) = NULL THEN focused ELSE ToplevelAt(over)
<1> USE DEF ButtonPress, kbdVars, surfVars
<1>1. next \in mapped \cup {NULL} /\ next \in Live \cup {NULL}
  BY InvParts, ToplevelAtIsMapped
<1>2. next # NULL \/ next = focused
  OBVIOUS
<1>3. zen_xdg_focus_toplevel(next)
  OBVIOUS
<1> HIDE DEF next
<1>4. /\ IsList(toplevels', Toplevel) /\ Live' = Live /\ StackFollowsMru'
      /\ focused' = next /\ activated' = {next} \ {NULL} /\ kbFocus' \in {kbFocus, next}
      /\ next \in {NULL, focused} => toplevels' = toplevels
      /\ next \notin {NULL, focused} => \A S : next \in S => IsFirst(toplevels', S, next)
  BY <1>1, <1>3, FocusLemma
<1>5. \/ mapped' = {} /\ next = NULL
      \/ mapped' # {} /\ IsFirst(toplevels', mapped', next)
  <2>1. CASE next = focused
    BY <1>4, <2>1, InvParts
  <2>2. CASE next # focused
    BY <1>1, <1>2, <1>4, <2>2
  <2>3. QED
    BY <2>1, <2>2
<1>6. /\ mapped' \subseteq initialized' /\ initialized' \subseteq Live'
      /\ enabled' = mapped' /\ over' \subseteq mapped'
      /\ {grabbed', kbFocus', ptrFocus'} \subseteq Live' \cup {NULL}
  BY <1>1, <1>4, InvParts
<1>7. /\ keyboards' \subseteq Keyboard /\ seatKeyboard' \in Keyboard \cup {NULL}
      /\ kbCap' \in BOOLEAN /\ button' \in BOOLEAN
  BY DEF DesktopInv, TypeOK
<1>8. QED
  BY <1>4, <1>5, <1>6, <1>7, InvFromParts

(* Steps that leave lists, focus and surfaces alone. *)
LEMMA OtherSteps ==
    ASSUME DesktopInv,
           UNCHANGED <<toplevels, focused, activated, scene, mapped, enabled>>,
           mapped \subseteq initialized', initialized' \subseteq Live,
           over' \subseteq mapped,
           {grabbed', kbFocus', ptrFocus'} \subseteq Live \cup {NULL},
           keyboards' \subseteq Keyboard, seatKeyboard' \in Keyboard \cup {NULL},
           kbCap' \in BOOLEAN, button' \in BOOLEAN
    PROVE  DesktopInv'
<1>1. /\ IsList(toplevels', Toplevel) /\ StackFollowsMru' /\ Live' = Live
      /\ focused' = focused /\ activated' = {focused} \ {NULL}
      /\ enabled' = mapped'
      /\ \/ mapped' = {} /\ focused = NULL
         \/ mapped' # {} /\ IsFirst(toplevels', mapped', focused)
  BY InvParts DEF DesktopInv, StackFollowsMru, Live
<1>2. QED
  BY <1>1, InvFromParts

(* The initial state satisfies the invariant. *)
LEMMA InitInv == Init => DesktopInv
<1> SUFFICES ASSUME Init PROVE DesktopInv
  OBVIOUS
<1> USE DEF Init
<1>1. toplevels \in Seq(Toplevel) /\ Live = {} /\ IsInjective(toplevels)
  BY DEF Live, ToSet, IsInjective
<1>2. scene \in Seq(Nodes)
  BY DEF Nodes
<1>3. StackFollowsMru
  <2>1. Trees \in Seq(Nodes)
    BY DEF Trees, Nodes
  <2>2. <<>> \o Trees = Trees
    BY <2>1, ConcatEmptySeq
  <2>3. QED
    BY <2>2 DEF StackFollowsMru, Trees
<1>4. seatKeyboard \in Keyboard \cup {NULL} /\ kbCap \in BOOLEAN
  BY KeyboardAssumption
<1>5. TypeOK
  BY <1>1, <1>2, <1>4, KeyboardAssumption DEF TypeOK, Nodes
<1>6. QED
  BY <1>1, <1>3, <1>5
     DEF DesktopInv, SurfaceStates, FocusIsFirstMapped, NextInMru,
         NoDanglingPointer, OnlyFocusedActivated

(* Every step preserves the invariant. *)
LEMMA NextInv == DesktopInv /\ [Next]_vars => DesktopInv'
<1> SUFFICES ASSUME DesktopInv, [Next]_vars PROVE DesktopInv'
  OBVIOUS
<1> USE DEF xdgVars, surfVars, kbdVars, ptrVars
<1>1. /\ mapped \subseteq initialized /\ initialized \subseteq Live
      /\ over \subseteq mapped
      /\ {focused, grabbed, kbFocus, ptrFocus} \subseteq Live \cup {NULL}
      /\ keyboards \subseteq Keyboard /\ seatKeyboard \in Keyboard \cup {NULL}
      /\ kbCap \in BOOLEAN /\ button \in BOOLEAN
  BY InvParts DEF DesktopInv, TypeOK
<1>2. CASE \E t \in Toplevel : \/ handle_new_xdg_toplevel(t)
                               \/ handle_toplevel_map(t)
                               \/ handle_toplevel_unmap(t)
                               \/ handle_toplevel_destroy(t)
  BY <1>2, NewToplevelStep, MapStep, UnmapStep, DestroyStep
<1>3. ASSUME NEW t \in Toplevel, InitialCommit(t)
      PROVE  DesktopInv'
  BY <1>1, <1>3, OtherSteps DEF InitialCommit
<1>4. ASSUME NEW t \in Toplevel, handle_toplevel_request_move(t)
      PROVE  DesktopInv'
  BY <1>1, <1>4, OtherSteps DEF handle_toplevel_request_move
<1>5. ASSUME NEW t \in Toplevel, GeometryChange(t)
      PROVE  DesktopInv'
  BY <1>1, <1>5, OtherSteps DEF GeometryChange
<1>6. ASSUME NEW k \in Keyboard,
             \/ handle_new_input_keyboard(k)
             \/ handle_keyboard_modifiers(k)
             \/ handle_keyboard_destroy(k)
      PROVE  DesktopInv'
  <2>1. /\ UNCHANGED <<xdgVars, surfVars, ptrVars>>
        /\ keyboards' \subseteq Keyboard /\ seatKeyboard' \in Keyboard \cup {NULL}
        /\ kbCap' \in BOOLEAN
    BY <1>1, <1>6 DEF handle_new_input_keyboard, handle_keyboard_modifiers,
                      handle_keyboard_destroy
  <2>2. QED
    BY <1>1, <2>1, OtherSteps
<1>7. CASE handle_new_input_other
  BY <1>1, <1>7, OtherSteps DEF handle_new_input_other
<1>8. CASE zen_input_process_cursor_motion
  <2>1. ptrFocus' \in Live \cup {NULL}
    BY <1>1, <1>8, ToplevelAtIsMapped DEF zen_input_process_cursor_motion
  <2>2. QED
    BY <1>1, <1>8, <2>1, OtherSteps DEF zen_input_process_cursor_motion
<1>9. CASE ButtonPress
  BY <1>9, ButtonPressStep
<1>10. CASE ButtonRelease
  BY <1>1, <1>10, OtherSteps DEF ButtonRelease
<1>11. CASE UNCHANGED vars
  BY <1>1, <1>11, OtherSteps DEF vars
<1>12. QED
  BY <1>2, <1>3, <1>4, <1>5, <1>6, <1>7, <1>8, <1>9, <1>10, <1>11 DEF Next

(* The invariant holds in every reachable state. *)
THEOREM DesktopInvariant == Spec => []DesktopInv
<1>1. QED
  BY InitInv, NextInv, PTL DEF Spec

-----------------------------------------------------------------------------
(* What follows from the invariant.                                        *)

(* The variables of the window manager and of the seat keep their types. *)
THEOREM TypeCorrect == Spec => []TypeOK
<1>1. DesktopInv => TypeOK
  BY DEF DesktopInv
<1>2. QED
  BY <1>1, DesktopInvariant, PTL

(* The states that xdg.c and input.c keep of a surface agree. *)
THEOREM SurfaceStatesAgree == Spec => []SurfaceStates
<1>1. DesktopInv => SurfaceStates
  BY DEF DesktopInv
<1>2. QED
  BY <1>1, DesktopInvariant, PTL

(* Focus is always on the most recently used mapped window, whatever maps, *)
(* unmaps and crashes of clients came before (zen_xdg_focus_toplevel).     *)
THEOREM FocusCorrect == Spec => []FocusIsFirstMapped
<1>1. DesktopInv => FocusIsFirstMapped
  BY DEF DesktopInv
<1>2. QED
  BY <1>1, DesktopInvariant, PTL

(* Stacking order and MRU order never part. *)
THEOREM StackCorrect == Spec => []StackFollowsMru
<1>1. DesktopInv => StackFollowsMru
  BY DEF DesktopInv
<1>2. QED
  BY <1>1, DesktopInvariant, PTL

(* No pointer to a freed ZenToplevel is left (handle_toplevel_destroy). *)
THEOREM NothingDangles == Spec => []NoDanglingPointer
<1>1. DesktopInv => NoDanglingPointer
  BY DEF DesktopInv
<1>2. QED
  BY <1>1, DesktopInvariant, PTL

(* Exactly the focused window is shown as active. *)
THEOREM ActivationCorrect == Spec => []OnlyFocusedActivated
<1>1. DesktopInv => OnlyFocusedActivated
  BY DEF DesktopInv
<1>2. QED
  BY <1>1, DesktopInvariant, PTL

(* SeatKeyboardAttached is inductive together with this: the seat offers a *)
(* keyboard while one is attached.                                         *)
KeyboardInv == SeatKeyboardAttached /\ (keyboards # {} => kbCap = TRUE)

(* The seat's keyboard is attached and advertised, whatever devices come   *)
(* and go (handle_new_input, handle_keyboard_destroy).                     *)
THEOREM KeyboardAttached == Spec => []SeatKeyboardAttached
<1>1. Init => KeyboardInv
  BY DEF Init, KeyboardInv, SeatKeyboardAttached
<1>2. KeyboardInv /\ [Next]_vars => KeyboardInv'
  <2> SUFFICES ASSUME KeyboardInv, [Next]_vars PROVE KeyboardInv'
    OBVIOUS
  <2> USE DEF KeyboardInv, SeatKeyboardAttached, kbdVars
  <2>1. ASSUME NEW k \in Keyboard, handle_new_input_keyboard(k)
        PROVE  KeyboardInv'
    BY <2>1 DEF handle_new_input_keyboard
  <2>2. ASSUME NEW k \in Keyboard, handle_keyboard_modifiers(k)
        PROVE  KeyboardInv'
    BY <2>2 DEF handle_keyboard_modifiers
  <2>3. ASSUME NEW k \in Keyboard, handle_keyboard_destroy(k)
        PROVE  KeyboardInv'
    BY <2>3 DEF handle_keyboard_destroy
  <2>4. CASE handle_new_input_other
    BY <2>4 DEF handle_new_input_other
  <2>5. CASE UNCHANGED kbdVars
    BY <2>5
  <2>6. QED
    BY <2>1, <2>2, <2>3, <2>4, <2>5
       DEF Next, vars, handle_new_xdg_toplevel, InitialCommit, handle_toplevel_map,
           handle_toplevel_unmap, handle_toplevel_destroy,
           handle_toplevel_request_move, GeometryChange,
           zen_input_process_cursor_motion, ButtonPress, ButtonRelease
<1>3. KeyboardInv => SeatKeyboardAttached
  BY DEF KeyboardInv
<1>4. QED
  BY <1>1, <1>2, <1>3, PTL DEF Spec

-----------------------------------------------------------------------------
(* Action properties.                                                      *)

(* A step changes the activation of windows that are mapped before or      *)
(* after it, which were committed before.                                  *)
LEMMA ConfigureStep ==
    ASSUME DesktopInv, DesktopInv', Next
    PROVE  (activated \ activated') \cup (activated' \ activated) \subseteq initialized
<1>1. /\ activated = {focused} \ {NULL} /\ focused \in mapped \cup {NULL}
      /\ mapped \subseteq initialized
  BY InvParts
<1>2. mapped' \subseteq initialized
  BY <1>1 DEF Next, xdgVars, surfVars, kbdVars, ptrVars, handle_new_xdg_toplevel,
              InitialCommit, handle_toplevel_map, handle_toplevel_unmap,
              handle_toplevel_destroy, handle_toplevel_request_move, GeometryChange,
              handle_new_input_keyboard, handle_keyboard_modifiers,
              handle_keyboard_destroy, handle_new_input_other,
              zen_input_process_cursor_motion, ButtonPress, ButtonRelease
<1>3. activated' = {focused'} \ {NULL}
  BY DEF DesktopInv, OnlyFocusedActivated
<1>4. focused' \in mapped' \cup {NULL}
  <2>1. IsList(toplevels', Toplevel)
    BY DEF DesktopInv, TypeOK, SurfaceStates, IsList, IsInjective
  <2>2. mapped' \subseteq ToSet(toplevels')
    BY DEF DesktopInv, SurfaceStates, Live
  <2>3. QED
    BY <2>1, <2>2, WalkResult DEF DesktopInv, FocusIsFirstMapped, NextInMru, IsFirst
<1>5. QED
  BY <1>1, <1>2, <1>3, <1>4

(* A surface is configured only after its initial commit: only a focused   *)
(* window is active, a focused window is mapped, and a window is mapped    *)
(* only after its initial commit.                                          *)
THEOREM ConfigureCorrect == Spec => ConfigureOnlyInitialized
<1>1. DesktopInv /\ DesktopInv' /\ [Next]_vars
        => [(activated \ activated') \cup (activated' \ activated) \subseteq initialized]_vars
  BY ConfigureStep
<1>2. QED
  BY <1>1, DesktopInvariant, PTL DEF Spec, ConfigureOnlyInitialized

(* While the seat has a keyboard, a step that moves focus moves keyboard   *)
(* focus with it (xdg.c:81).                                               *)
THEOREM KeyboardFocusCorrect == Spec => FocusPartsOnlyWithoutKeyboard
<1>1. DesktopInv /\ [Next]_vars
        => [kbFocus = focused /\ kbFocus' # focused' => seatKeyboard = NULL]_vars
  <2> SUFFICES ASSUME DesktopInv, Next, kbFocus = focused, kbFocus' # focused'
               PROVE  seatKeyboard = NULL
    OBVIOUS
  <2>1. ASSUME NEW next, zen_xdg_focus_toplevel(next)
        PROVE  seatKeyboard = NULL
    BY <2>1 DEF zen_xdg_focus_toplevel, KbFocusAfterFocus
  <2>2. ASSUME NEW t \in Toplevel, handle_toplevel_destroy(t)
        PROVE  FALSE
    <3>1. focused # t
      BY <2>2, InvParts DEF handle_toplevel_destroy
    <3>2. QED
      BY <2>2, <3>1 DEF handle_toplevel_destroy, KbFocusAfterFocus
  <2>3. CASE UNCHANGED <<focused, kbFocus>>
    BY <2>3
  <2>4. QED
    BY <2>1, <2>2, <2>3
       DEF Next, xdgVars, handle_new_xdg_toplevel, InitialCommit, handle_toplevel_map,
           handle_toplevel_unmap, handle_toplevel_request_move, GeometryChange,
           handle_new_input_keyboard, handle_keyboard_modifiers,
           handle_keyboard_destroy, handle_new_input_other,
           zen_input_process_cursor_motion, ButtonPress, ButtonRelease
<1>2. QED
  BY <1>1, DesktopInvariant, PTL DEF Spec, FocusPartsOnlyWithoutKeyboard

-----------------------------------------------------------------------------
(* Desktop implements FocusPolicy: under the mapping of Desktop!Policy,    *)
(* every handler shows, uses or hides one window, or changes nothing the   *)
(* policy speaks of.                                                       *)

(* The order among windows S that a list s represents. *)
Order(s, S) == {p \in S \X S : Before(s, p[1], p[2])}

(* A list orders its entries strictly. *)
LEMMA OrderIsStrict ==
    ASSUME NEW T, NEW s, IsList(s, T), NEW y, NEW z
    PROVE  ~(Before(s, y, z) /\ Before(s, z, y)) /\ ~Before(s, y, y)
BY DEF IsList, Before

(* Two lists represent the same order on S if they agree pair by pair. *)
LEMMA SameOrder ==
    ASSUME NEW r, NEW s, NEW S,
           \A y, z \in S : Before(r, y, z) <=> Before(s, y, z)
    PROVE  Order(r, S) = Order(s, S)
BY DEF Order

(* The policy's choice of focus is the first entry of the list. *)
LEMMA LatestIsFirst ==
    ASSUME NEW s, IsList(s, Toplevel), NEW S, S \subseteq ToSet(s), NEW f,
           \/ S = {} /\ f = NULL
           \/ S # {} /\ IsFirst(s, S, f)
    PROVE  f = Policy!Latest(S, Order(s, S))
<1>1. CASE S = {}
  BY <1>1 DEF Policy!Latest
<1>2. CASE S # {}
  <2> DEFINE P(v) == \A w \in S \ {v} : <<v, w>> \in Order(s, S)
  <2>1. f \in S /\ P(f)
    BY <1>2 DEF IsFirst, Order
  <2>2. ASSUME NEW v \in S, P(v) PROVE v = f
    <3>1. CASE v # f
      <4>1. Before(s, v, f) /\ Before(s, f, v)
        BY <2>1, <2>2, <3>1 DEF Order
      <4>2. QED
        BY <4>1, OrderIsStrict
    <3>2. QED
      BY <3>1
  <2> HIDE DEF P
  <2>3. f = CHOOSE v \in S : P(v)
    BY <2>1, <2>2
  <2>4. QED
    BY <1>2, <2>3 DEF Policy!Latest, P
<1>3. QED
  BY <1>1, <1>2

(* Moving the first entry of S to the front keeps the order on S. *)
LEMMA MoveFirst ==
    ASSUME NEW s, IsList(s, Toplevel), NEW S, S \subseteq ToSet(s), NEW x,
           IsFirst(s, S, x)
    PROVE  Order(MoveToFront(s, x), S) = Order(s, S)
<1>1. x \in ToSet(s) /\ \A z \in S \ {x} : Before(s, x, z)
  BY DEF IsFirst
<1>2. ASSUME NEW y \in S, NEW z \in S
      PROVE  Before(MoveToFront(s, x), y, z) <=> Before(s, y, z)
  <2>1. Before(MoveToFront(s, x), y, z)
          <=> (y = x /\ z \in ToSet(s) \ {x}) \/ (y # x /\ z # x /\ Before(s, y, z))
    BY <1>1, MoveOrder
  <2>2. CASE y = x /\ z = x
    BY <2>1, <2>2, OrderIsStrict
  <2>3. CASE y = x /\ z # x
    BY <1>1, <2>1, <2>3
  <2>4. CASE y # x /\ z = x
    BY <1>1, <2>1, <2>4, OrderIsStrict
  <2>5. CASE y # x /\ z # x
    BY <2>1, <2>5
  <2>6. QED
    BY <2>2, <2>3, <2>4, <2>5
<1>3. QED
  BY <1>2, SameOrder

-----------------------------------------------------------------------------
(* Mapping a window shows it. *)
LEMMA MapRefines ==
    ASSUME DesktopInv, NEW t \in Toplevel, handle_toplevel_map(t)
    PROVE  Policy!Show(t)
<1> USE DEF handle_toplevel_map
<1>1. /\ IsList(toplevels, Toplevel) /\ mapped \subseteq ToSet(toplevels)
      /\ t \in ToSet(toplevels) /\ t \notin {NULL, focused} /\ t \notin mapped
  BY InvParts DEF Live
<1>2. toplevels' = MoveToFront(toplevels, t) /\ focused' = t /\ mapped' = mapped \cup {t}
  BY <1>1 DEF zen_xdg_focus_toplevel, MruAfterFocus
<1>3. \A y, z : Before(toplevels', y, z)
        <=> \/ y = t /\ z \in ToSet(toplevels) \ {t}
            \/ y # t /\ z # t /\ Before(toplevels, y, z)
  BY <1>1, <1>2, MoveOrder
<1>4. Order(toplevels', mapped') = Order(toplevels, mapped) \cup ({t} \X mapped)
  BY <1>1, <1>2, <1>3 DEF Order
<1>5. QED
  BY <1>1, <1>2, <1>4 DEF Policy!Show, Order

(* Clicking on a window uses it, and clicking elsewhere changes nothing. *)
LEMMA PressRefines ==
    ASSUME DesktopInv, ButtonPress
    PROVE  (\E w \in Toplevel : Policy!Use(w)) \/ UNCHANGED Policy!policyVars
<1> DEFINE w == ToplevelAt(over)
<1> USE DEF ButtonPress, surfVars
<1>1. w \in mapped \cup {NULL}
  BY ToplevelAtIsMapped
<1>2. /\ IsList(toplevels, Toplevel) /\ mapped \subseteq ToSet(toplevels)
      /\ mapped \subseteq Toplevel /\ mapped' = mapped
  BY InvParts DEF Live
<1> HIDE DEF w
<1>3. CASE w \in {NULL, focused}
  <2>1. toplevels' = toplevels /\ focused' = focused
    BY <1>3 DEF w, zen_xdg_focus_toplevel, MruAfterFocus
  <2>2. QED
    BY <1>2, <2>1 DEF Policy!policyVars
<1>4. CASE w \notin {NULL, focused}
  <2>1. toplevels' = MoveToFront(toplevels, w) /\ focused' = w
    BY <1>4 DEF w, zen_xdg_focus_toplevel, MruAfterFocus
  <2>2. w \in mapped /\ w \in ToSet(toplevels)
    BY <1>1, <1>2, <1>4
  <2>3. \A y, z : Before(toplevels', y, z)
          <=> \/ y = w /\ z \in ToSet(toplevels) \ {w}
              \/ y # w /\ z # w /\ Before(toplevels, y, z)
    BY <1>2, <2>1, <2>2, MoveOrder
  <2>4. \A z \in mapped : ~Before(toplevels, z, z)
    BY <1>2, OrderIsStrict
  <2>5. \A y, z \in mapped : <<y, z>> \in Order(toplevels', mapped)
          <=> <<y, z>> \in (Order(toplevels, mapped) \ (mapped \X {w}))
                              \cup ({w} \X (mapped \ {w}))
    <3> SUFFICES ASSUME NEW y \in mapped, NEW z \in mapped
                 PROVE  <<y, z>> \in Order(toplevels', mapped)
                          <=> \/ /\ <<y, z>> \in Order(toplevels, mapped)
                                 /\ z # w
                              \/ y = w /\ z \in mapped \ {w}
      OBVIOUS
    <3>1. QED
      BY <1>2, <2>2, <2>3, <2>4 DEF Order
  <2>6. QED
    BY <1>2, <2>1, <2>2, <2>5 DEF Policy!Use, Order
<1>5. QED
  BY <1>3, <1>4

(* Unmapping a window hides it. *)
LEMMA UnmapRefines ==
    ASSUME DesktopInv, NEW t \in Toplevel, handle_toplevel_unmap(t)
    PROVE  Policy!Hide(t)
<1> DEFINE rest == mapped \ {t}
           next == IF focused = t THEN NextInMru(rest) ELSE focused
<1> USE DEF handle_toplevel_unmap
<1>1. /\ IsList(toplevels, Toplevel) /\ t \in mapped /\ mapped' = rest
      /\ rest \subseteq ToSet(toplevels)
  BY InvParts DEF Live
<1>2. \/ rest = {} /\ next = NULL
      \/ rest # {} /\ IsFirst(toplevels, rest, next)
  <2>1. CASE focused = t
    BY <1>1, <2>1, WalkResult DEF NextInMru
  <2>2. CASE focused # t
    <3>1. IsFirst(toplevels, mapped, focused) /\ focused \in rest
      BY <1>1, <2>2, InvParts DEF IsFirst
    <3>2. IsFirst(toplevels, rest, focused)
      BY <3>1 DEF IsFirst
    <3>3. QED
      BY <2>2, <3>1, <3>2
  <2>3. QED
    BY <2>1, <2>2
<1>3. /\ focused' = next
      /\ toplevels' = IF next \in {NULL, focused} THEN toplevels
                      ELSE MoveToFront(toplevels, next)
  BY DEF zen_xdg_focus_toplevel, MruAfterFocus
<1> HIDE DEF next
<1>4. Order(toplevels', rest) = Order(toplevels, rest)
  BY <1>1, <1>2, <1>3, MoveFirst
<1>5. next = Policy!Latest(rest, Order(toplevels, rest))
  BY <1>1, <1>2, LatestIsFirst
<1>6. Order(toplevels, rest) = Order(toplevels, mapped) \cap (rest \X rest)
  BY DEF Order
<1>7. QED
  BY <1>1, <1>3, <1>4, <1>5, <1>6 DEF Policy!Hide, Order

(* A new or a destroyed toplevel is not visible, and the order of the      *)
(* visible ones does not change.                                           *)
LEMMA LinkRefines ==
    ASSUME DesktopInv, NEW t \in Toplevel,
           handle_new_xdg_toplevel(t) \/ handle_toplevel_destroy(t)
    PROVE  UNCHANGED Policy!policyVars
<1>1. /\ IsList(toplevels, Toplevel) /\ mapped \subseteq ToSet(toplevels)
      /\ focused \in mapped \cup {NULL} /\ NULL \notin ToSet(toplevels)
  BY InvParts DEF Live
<1>2. CASE handle_new_xdg_toplevel(t)
  <2>1. /\ toplevels' = wl_list_insert(toplevels, t) /\ t \notin ToSet(toplevels)
        /\ mapped' = mapped /\ focused' = focused
    BY <1>2 DEF handle_new_xdg_toplevel, surfVars, Live
  <2>2. \A y, z \in mapped : Before(toplevels', y, z) <=> Before(toplevels, y, z)
    BY <1>1, <2>1, InsertOrder
  <2>3. Order(toplevels', mapped) = Order(toplevels, mapped)
    BY <2>2, SameOrder
  <2>4. QED
    BY <2>1, <2>3 DEF Policy!policyVars, Order
<1>3. CASE handle_toplevel_destroy(t)
  <2>1. t \in ToSet(toplevels) /\ t \notin mapped /\ focused # t
    BY <1>1, <1>3 DEF handle_toplevel_destroy, Live
  <2>2. toplevels' = wl_list_remove(toplevels, t) /\ mapped' = mapped /\ focused' = focused
    BY <1>3, <2>1 DEF handle_toplevel_destroy, MruAfterFocus
  <2>3. \A y, z \in mapped : Before(toplevels', y, z) <=> Before(toplevels, y, z)
    BY <1>1, <2>1, <2>2, RemoveOrder
  <2>4. Order(toplevels', mapped) = Order(toplevels, mapped)
    BY <2>3, SameOrder
  <2>5. QED
    BY <2>2, <2>4 DEF Policy!policyVars, Order
<1>4. QED
  BY <1>2, <1>3

(* Every step of the desktop is a step of the policy or stutters. *)
LEMMA StepRefines ==
    DesktopInv /\ [Next]_vars => [Policy!Next]_(Policy!policyVars)
<1> SUFFICES ASSUME DesktopInv, [Next]_vars
             PROVE  Policy!Next \/ UNCHANGED Policy!policyVars
  OBVIOUS
<1>1. ASSUME NEW t \in Toplevel, handle_toplevel_map(t)
      PROVE  Policy!Next
  BY <1>1, MapRefines DEF Policy!Next
<1>2. ASSUME NEW t \in Toplevel, handle_toplevel_unmap(t)
      PROVE  Policy!Next
  BY <1>2, UnmapRefines DEF Policy!Next
<1>3. CASE ButtonPress
  BY <1>3, PressRefines DEF Policy!Next
<1>4. ASSUME NEW t \in Toplevel, handle_new_xdg_toplevel(t) \/ handle_toplevel_destroy(t)
      PROVE  UNCHANGED Policy!policyVars
  BY <1>4, LinkRefines
<1>5. CASE UNCHANGED <<toplevels, focused, mapped>>
  BY <1>5 DEF Policy!policyVars
<1>6. QED
  BY <1>1, <1>2, <1>3, <1>4, <1>5
     DEF Next, vars, xdgVars, surfVars, InitialCommit, handle_toplevel_request_move,
         GeometryChange, handle_new_input_keyboard, handle_keyboard_modifiers,
         handle_keyboard_destroy, handle_new_input_other,
         zen_input_process_cursor_motion, ButtonRelease

(* The desktop implements the focus policy, for any number of windows and  *)
(* whatever clients and devices do (xdg.c, input.c).                       *)
THEOREM Refinement == Spec => ImplementsFocusPolicy
<1>1. Init => Policy!Init
  BY DEF Init, Policy!Init
<1>2. QED
  BY <1>1, StepRefines, DesktopInvariant, PTL
     DEF Spec, ImplementsFocusPolicy, Policy!Spec
=============================================================================
