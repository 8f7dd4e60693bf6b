---------------------------- MODULE WlListProofs ----------------------------
(***************************************************************************)
(* What the list operations of WlList do to the entries of a list, to      *)
(* their order, and to the entry that a walk from the head finds first.    *)
(***************************************************************************)
EXTENDS WlList, SequenceTheorems, WellFoundedInduction, TLAPS

(* Entries are distinct: a list node is linked into a list at most once. *)
IsList(s, T) == s \in Seq(T) /\ \A i, j \in 1 .. Len(s) : s[i] = s[j] => i = j

-----------------------------------------------------------------------------
(* Insertion puts the entry first and shifts the others by one. *)
LEMMA InsertIndices ==
    ASSUME NEW T, NEW s \in Seq(T), NEW x \in T
    PROVE  /\ wl_list_insert(s, x) \in Seq(T)
           /\ Len(wl_list_insert(s, x)) = Len(s) + 1
           /\ wl_list_insert(s, x)[1] = x
           /\ \A i \in 1 .. Len(s) : wl_list_insert(s, x)[i + 1] = s[i]
BY DEF wl_list_insert, Cons

(* An entry of a list has a position. *)
LEMMA PositionOfEntry ==
    ASSUME NEW T, NEW s \in Seq(T), NEW x \in ToSet(s)
    PROVE  Position(s, x) \in 1 .. Len(s) /\ s[Position(s, x)] = x
BY DEF Position, ToSet

(* Removal closes the gap. *)
LEMMA RemoveIndices ==
    ASSUME NEW T, NEW s \in Seq(T), NEW x \in ToSet(s)
    PROVE  LET p == Position(s, x)
               r == wl_list_remove(s, x)
           IN  /\ r \in Seq(T)
               /\ Len(r) = Len(s) - 1
               /\ \A i \in 1 .. Len(r) : r[i] = IF i < p THEN s[i] ELSE s[i + 1]
<1> DEFINE p == Position(s, x)
           r == wl_list_remove(s, x)
           u == SubSeq(s, 1, p - 1)
           v == SubSeq(s, p + 1, Len(s))
<1>1. p \in 1 .. Len(s) /\ s[p] = x
  BY PositionOfEntry
<1>2. /\ u \in Seq(T) /\ Len(u) = p - 1
      /\ \A i \in 1 .. p - 1 : u[i] = s[i]
  BY <1>1
<1>3. /\ v \in Seq(T) /\ Len(v) = Len(s) - p
      /\ \A i \in 1 .. Len(s) - p : v[i] = s[p + i]
  BY <1>1
<1>4. r = u \o v
  BY DEF wl_list_remove, RemoveAt
<1> HIDE DEF p, u, v, r
<1>5. r \in Seq(T) /\ Len(r) = Len(s) - 1
  <2>1. u \o v \in Seq(T) /\ Len(u \o v) = Len(u) + Len(v)
    <3>1. u \in Seq(T) /\ v \in Seq(T)
      BY <1>2, <1>3
    <3>2. QED
      BY <3>1
  <2>2. Len(s) \in Nat /\ (p - 1) + (Len(s) - p) = Len(s) - 1
    BY <1>1
  <2>3. Len(u) = p - 1 /\ Len(v) = Len(s) - p
    BY <1>2, <1>3
  <2>4. QED
    BY <1>4, <2>1, <2>2, <2>3
<1>6. ASSUME NEW i \in 1 .. Len(r)
      PROVE  r[i] = IF i < p THEN s[i] ELSE s[i + 1]
  <2>1. CASE i < p
    BY <1>1, <1>2, <1>3, <1>4, <1>5, <2>1
  <2>2. CASE ~(i < p)
    <3>1. i - (p - 1) \in 1 .. Len(s) - p /\ r[i] = v[i - (p - 1)]
      BY <1>1, <1>2, <1>3, <1>4, <1>5, <2>2
    <3>2. QED
      BY <1>1, <1>3, <1>5, <2>2, <3>1
  <2>3. QED
    BY <2>1, <2>2
<1>7. QED
  BY <1>5, <1>6 DEF p, r

-----------------------------------------------------------------------------
(* The entries of a list after each operation. *)
LEMMA InsertEntries ==
    ASSUME NEW T, NEW s, IsList(s, T), NEW x \in T, x \notin ToSet(s)
    PROVE  /\ IsList(wl_list_insert(s, x), T)
           /\ ToSet(wl_list_insert(s, x)) = ToSet(s) \cup {x}
<1> DEFINE n == wl_list_insert(s, x)
<1>1. /\ n \in Seq(T) /\ Len(n) = Len(s) + 1 /\ n[1] = x
      /\ \A i \in 1 .. Len(s) : n[i + 1] = s[i]
  BY InsertIndices DEF IsList
<1>2. s \in Seq(T) /\ \A i, j \in 1 .. Len(s) : s[i] = s[j] => i = j
  BY DEF IsList
<1>3. \A i \in 1 .. Len(s) : s[i] # x
  BY <1>2 DEF ToSet
<1> HIDE DEF n
<1>4. \A i \in 2 .. Len(n) : i - 1 \in 1 .. Len(s) /\ n[i] = s[i - 1]
  BY <1>1, <1>2
<1>5. \A i, j \in 1 .. Len(n) : n[i] = n[j] => i = j
  <2> SUFFICES ASSUME NEW i \in 1 .. Len(n), NEW j \in 1 .. Len(n), n[i] = n[j]
               PROVE  i = j
    OBVIOUS
  <2>1. Len(n) \in Nat
    BY <1>1, <1>2
  <2>2. CASE i = 1 /\ j = 1
    BY <2>2
  <2>3. CASE i = 1 /\ j # 1
    <3>1. j \in 2 .. Len(n)
      BY <2>1, <2>3
    <3>2. QED
      BY <1>1, <1>3, <1>4, <2>3, <3>1
  <2>4. CASE i # 1 /\ j = 1
    <3>1. i \in 2 .. Len(n)
      BY <2>1, <2>4
    <3>2. QED
      BY <1>1, <1>3, <1>4, <2>4, <3>1
  <2>5. CASE i # 1 /\ j # 1
    <3>1. i \in 2 .. Len(n) /\ j \in 2 .. Len(n)
      BY <2>1, <2>5
    <3>2. /\ i - 1 \in 1 .. Len(s) /\ j - 1 \in 1 .. Len(s)
          /\ s[i - 1] = s[j - 1]
      BY <1>4, <3>1
    <3>3. i - 1 = j - 1
      BY <1>2, <3>2
    <3>4. QED
      BY <3>1, <3>3
  <2>6. QED
    BY <2>2, <2>3, <2>4, <2>5
<1>6. ToSet(n) = ToSet(s) \cup {x}
  <2>1. ToSet(n) \subseteq ToSet(s) \cup {x}
    BY <1>1, <1>2, <1>4 DEF ToSet
  <2>2. ToSet(s) \subseteq ToSet(n)
    BY <1>1, <1>2 DEF ToSet
  <2>3. x \in ToSet(n)
    BY <1>1, <1>2 DEF ToSet
  <2>4. QED
    BY <2>1, <2>2, <2>3
<1>7. QED
  BY <1>1, <1>5, <1>6 DEF IsList, n

(* Removal takes one entry off the list. *)
LEMMA RemoveEntries ==
    ASSUME NEW T, NEW s, IsList(s, T), NEW x \in ToSet(s)
    PROVE  /\ IsList(wl_list_remove(s, x), T)
           /\ ToSet(wl_list_remove(s, x)) = ToSet(s) \ {x}
<1> DEFINE p == Position(s, x)
           r == wl_list_remove(s, x)
<1>1. /\ r \in Seq(T) /\ Len(r) = Len(s) - 1
      /\ \A i \in 1 .. Len(r) : r[i] = IF i < p THEN s[i] ELSE s[i + 1]
  BY RemoveIndices DEF IsList
<1>2. s \in Seq(T) /\ \A i, j \in 1 .. Len(s) : s[i] = s[j] => i = j
  BY DEF IsList
<1>3. p \in 1 .. Len(s) /\ s[p] = x
  BY <1>2, PositionOfEntry
<1> HIDE DEF p, r
<1>4. \A i, j \in 1 .. Len(r) : r[i] = r[j] => i = j
  BY <1>1, <1>2, <1>3
<1>5. ToSet(r) = ToSet(s) \ {x}
  <2>1. ToSet(r) \subseteq ToSet(s) \ {x}
    <3> SUFFICES ASSUME NEW i \in 1 .. Len(r)
                 PROVE  r[i] \in ToSet(s) /\ r[i] # x
      BY <1>1 DEF ToSet
    <3>1. CASE i < p
      BY <1>1, <1>2, <1>3, <3>1 DEF ToSet
    <3>2. CASE ~(i < p)
      BY <1>1, <1>2, <1>3, <3>2 DEF ToSet
    <3>3. QED
      BY <3>1, <3>2
  <2>2. ToSet(s) \ {x} \subseteq ToSet(r)
    <3> SUFFICES ASSUME NEW i \in 1 .. Len(s), s[i] # x
                 PROVE  \E j \in 1 .. Len(r) : r[j] = s[i]
      BY <1>1, <1>2 DEF ToSet
    <3>1. CASE i < p
      BY <1>1, <1>2, <1>3, <3>1
    <3>2. CASE p < i
      <4>1. i - 1 \in 1 .. Len(r) /\ r[i - 1] = s[i]
        BY <1>1, <1>2, <1>3, <3>2
      <4>2. QED
        BY <4>1
    <3>3. QED
      BY <1>2, <1>3, <3>1, <3>2
  <2>3. QED
    BY <2>1, <2>2
<1>6. QED
  BY <1>1, <1>4, <1>5 DEF IsList, r

(* Moving an entry to the front changes no entry. *)
LEMMA MoveEntries ==
    ASSUME NEW T, NEW s, IsList(s, T), NEW x \in ToSet(s)
    PROVE  /\ IsList(MoveToFront(s, x), T)
           /\ ToSet(MoveToFront(s, x)) = ToSet(s)
<1>1. x \in T
  BY DEF IsList, ToSet
<1> DEFINE r == wl_list_remove(s, x)
<1>2. IsList(r, T) /\ ToSet(r) = ToSet(s) \ {x}
  BY RemoveEntries
<1> HIDE DEF r
<1>3. IsList(wl_list_insert(r, x), T) /\ ToSet(wl_list_insert(r, x)) = ToSet(r) \cup {x}
  BY <1>1, <1>2, InsertEntries
<1>4. QED
  BY <1>2, <1>3 DEF MoveToFront, r
-----------------------------------------------------------------------------
(* The order of the entries after each operation. *)

(* An inserted entry comes before all others, whose order is the same. *)
LEMMA InsertOrder ==
    ASSUME NEW T, NEW s, IsList(s, T), NEW x \in T, x \notin ToSet(s),
           NEW y, NEW z
    PROVE  Before(wl_list_insert(s, x), y, z)
             <=> (y = x /\ z \in ToSet(s)) \/ Before(s, y, z)
<1> DEFINE n == wl_list_insert(s, x)
<1>1. /\ n \in Seq(T) /\ Len(n) = Len(s) + 1 /\ n[1] = x
      /\ \A i \in 1 .. Len(s) : n[i + 1] = s[i]
  BY InsertIndices DEF IsList
<1>2. s \in Seq(T) /\ Len(s) \in Nat
  BY DEF IsList
<1> HIDE DEF n
<1>3. \A i \in 2 .. Len(n) : i - 1 \in 1 .. Len(s) /\ n[i] = s[i - 1]
  BY <1>1, <1>2
<1>4. ASSUME Before(n, y, z)
      PROVE  (y = x /\ z \in ToSet(s)) \/ Before(s, y, z)
  <2>1. PICK i \in 1 .. Len(n), j \in 1 .. Len(n) : i < j /\ n[i] = y /\ n[j] = z
    BY <1>1, <1>4 DEF Before
  <2>2. j \in 2 .. Len(n)
    BY <1>1, <1>2, <2>1
  <2>3. CASE i = 1
    BY <1>1, <1>2, <1>3, <2>1, <2>2, <2>3 DEF ToSet
  <2>4. CASE i # 1
    <3>1. i \in 2 .. Len(n)
      BY <1>1, <1>2, <2>1, <2>4
    <3>2. /\ i - 1 \in 1 .. Len(s) /\ j - 1 \in 1 .. Len(s) /\ i - 1 < j - 1
          /\ s[i - 1] = y /\ s[j - 1] = z
      BY <1>3, <2>1, <2>2, <3>1
    <3>3. QED
      BY <1>2, <3>2 DEF Before
  <2>5. QED
    BY <2>3, <2>4
<1>5. ASSUME z \in ToSet(s)
      PROVE  Before(n, x, z)
  <2>1. PICK j \in 1 .. Len(s) : s[j] = z
    BY <1>2, <1>5 DEF ToSet
  <2>2. 1 \in DOMAIN n /\ j + 1 \in DOMAIN n /\ 1 < j + 1 /\ n[j + 1] = z
    BY <1>1, <1>2, <2>1
  <2>3. QED
    BY <1>1, <2>2 DEF Before
<1>6. ASSUME Before(s, y, z)
      PROVE  Before(n, y, z)
  <2>1. PICK i \in 1 .. Len(s), j \in 1 .. Len(s) : i < j /\ s[i] = y /\ s[j] = z
    BY <1>2, <1>6 DEF Before
  <2>2. i + 1 \in DOMAIN n /\ j + 1 \in DOMAIN n /\ i + 1 < j + 1
    BY <1>1, <1>2, <2>1
  <2>3. n[i + 1] = y /\ n[j + 1] = z
    BY <1>1, <2>1
  <2>4. QED
    BY <2>2, <2>3 DEF Before
<1>7. QED
  BY <1>4, <1>5, <1>6 DEF n

(* Removing an entry leaves the order of the others as it is. *)
LEMMA RemoveOrder ==
    ASSUME NEW T, NEW s, IsList(s, T), NEW x \in ToSet(s), NEW y, NEW z
    PROVE  Before(wl_list_remove(s, x), y, z)
             <=> y # x /\ z # x /\ Before(s, y, z)
<1> DEFINE p == Position(s, x)
           r == wl_list_remove(s, x)
<1>1. /\ r \in Seq(T) /\ Len(r) = Len(s) - 1
      /\ \A i \in 1 .. Len(r) : r[i] = IF i < p THEN s[i] ELSE s[i + 1]
  BY RemoveIndices DEF IsList
<1>2. /\ s \in Seq(T) /\ Len(s) \in Nat
      /\ \A i, j \in 1 .. Len(s) : s[i] = s[j] => i = j
  BY DEF IsList
<1>3. p \in 1 .. Len(s) /\ s[p] = x
  BY <1>2, PositionOfEntry
<1> HIDE DEF p, r
(* Where the entries of one list are in the other. *)
<1> DEFINE old(i) == IF i < p THEN i ELSE i + 1
           new(i) == IF i < p THEN i ELSE i - 1
<1>4. ASSUME NEW i \in 1 .. Len(r)
      PROVE  old(i) \in 1 .. Len(s) /\ old(i) # p /\ r[i] = s[old(i)]
  BY <1>1, <1>2, <1>3
<1>5. ASSUME NEW i \in 1 .. Len(s), i # p
      PROVE  new(i) \in 1 .. Len(r) /\ r[new(i)] = s[i]
  <2>1. CASE i < p
    BY <1>1, <1>2, <1>3, <2>1
  <2>2. CASE i > p
    <3>1. i - 1 \in 1 .. Len(r) /\ ~(i - 1 < p)
      BY <1>1, <1>2, <1>3, <2>2
    <3>2. r[i - 1] = s[(i - 1) + 1]
      BY <1>1, <3>1
    <3>3. QED
      BY <1>2, <1>3, <2>2, <3>1, <3>2
  <2>3. QED
    BY <1>2, <1>3, <1>5, <2>1, <2>2
<1>6. ASSUME Before(r, y, z)
      PROVE  y # x /\ z # x /\ Before(s, y, z)
  <2>1. PICK i \in 1 .. Len(r), j \in 1 .. Len(r) : i < j /\ r[i] = y /\ r[j] = z
    BY <1>1, <1>6 DEF Before
  <2>2. old(i) < old(j)
    BY <1>3, <2>1
  <2>3. /\ old(i) \in 1 .. Len(s) /\ old(i) # p /\ y = s[old(i)]
        /\ old(j) \in 1 .. Len(s) /\ old(j) # p /\ z = s[old(j)]
    BY <1>4, <2>1
  <2> HIDE DEF old
  <2>4. y # x /\ z # x
    BY <1>2, <1>3, <2>3
  <2>5. QED
    BY <1>2, <2>2, <2>3, <2>4 DEF Before
<1>7. ASSUME y # x, z # x, Before(s, y, z)
      PROVE  Before(r, y, z)
  <2>1. PICK i \in 1 .. Len(s), j \in 1 .. Len(s) : i < j /\ s[i] = y /\ s[j] = z
    BY <1>2, <1>7 DEF Before
  <2>2. i # p /\ j # p
    BY <1>3, <1>7, <2>1
  <2>3. new(i) < new(j)
    BY <1>3, <2>1, <2>2
  <2>4. /\ new(i) \in 1 .. Len(r) /\ r[new(i)] = y
        /\ new(j) \in 1 .. Len(r) /\ r[new(j)] = z
    BY <1>5, <2>1, <2>2
  <2> HIDE DEF new
  <2>5. QED
    BY <1>1, <2>3, <2>4 DEF Before
<1>8. QED
  BY <1>6, <1>7 DEF r

(* The entry that is moved comes first; the order of the others stays. *)
LEMMA MoveOrder ==
    ASSUME NEW T, NEW s, IsList(s, T), NEW x \in ToSet(s), NEW y, NEW z
    PROVE  Before(MoveToFront(s, x), y, z)
             <=> \/ y = x /\ z \in ToSet(s) \ {x}
                 \/ y # x /\ z # x /\ Before(s, y, z)
<1> DEFINE r == wl_list_remove(s, x)
<1>1. x \in T
  BY DEF IsList, ToSet
<1>2. IsList(r, T) /\ ToSet(r) = ToSet(s) \ {x}
  BY RemoveEntries
<1>3. Before(r, y, z) <=> y # x /\ z # x /\ Before(s, y, z)
  BY RemoveOrder
<1> HIDE DEF r
<1>4. Before(wl_list_insert(r, x), y, z) <=> (y = x /\ z \in ToSet(r)) \/ Before(r, y, z)
  BY <1>1, <1>2, InsertOrder
<1>5. QED
  BY <1>2, <1>3, <1>4 DEF MoveToFront, r
-----------------------------------------------------------------------------
(* The first entry of a list that belongs to a set.                        *)

IsFirst(s, S, x) ==
    /\ x \in S \cap ToSet(s)
    /\ \A y \in (S \cap ToSet(s)) \ {x} : Before(s, x, y)

(* Order is asymmetric, so there is at most one first entry. *)
LEMMA FirstIsUnique ==
    ASSUME NEW T, NEW s, IsList(s, T), NEW S, NEW x, IsFirst(s, S, x)
    PROVE  First(s, S) = x
<1>1. \A y, z : ~(Before(s, y, z) /\ Before(s, z, y))
  BY DEF IsList, Before
<1>2. \A y : IsFirst(s, S, y) => y = x
  BY <1>1 DEF IsFirst
<1>3. QED
  BY <1>2 DEF First, IsFirst

(* A walk that can find something finds it. *)
LEMMA FirstExists ==
    ASSUME NEW T, NEW s \in Seq(T), NEW S, S \cap ToSet(s) # {}
    PROVE  IsFirst(s, S, First(s, S))
<1> DEFINE I == {i \in 1 .. Len(s) : s[i] \in S}
<1>1. Len(s) \in Nat
  OBVIOUS
<1>2. I \subseteq Nat /\ I # {}
  BY <1>1 DEF ToSet
<1>3. PICK m \in I : \A i \in I : ~(<<i, m>> \in OpToRel(<, Nat))
  BY <1>2, NatLessThanWellFounded, WFMin
<1>4. \A i \in I : ~(i < m)
  BY <1>2, <1>3 DEF OpToRel
<1>5. IsFirst(s, S, s[m])
  BY <1>1, <1>4 DEF IsFirst, ToSet, Before
<1>6. QED
  BY <1>5 DEF IsFirst, First
-----------------------------------------------------------------------------
(* A list that is followed by other entries: the stacking order is the MRU *)
(* order above the trees that never move.                                  *)

(* An entry of the front part is removed from that part. *)
LEMMA RemoveFromPrefix ==
    ASSUME NEW T, NEW s \in Seq(T), NEW b \in Seq(T), NEW x \in ToSet(s),
           \A i, j \in 1 .. Len(s) : s[i] = s[j] => i = j,
           x \notin ToSet(b)
    PROVE  wl_list_remove(s \o b, x) = wl_list_remove(s, x) \o b
<1> DEFINE c == s \o b
           r == wl_list_remove(s, x)
           p == Position(s, x)
<1>1. /\ c \in Seq(T) /\ Len(c) = Len(s) + Len(b)
      /\ \A i \in 1 .. Len(s) + Len(b) : c[i] = IF i <= Len(s) THEN s[i] ELSE b[i - Len(s)]
  BY ConcatProperties
<1>2. p \in 1 .. Len(s) /\ s[p] = x
  BY PositionOfEntry
<1>3. /\ r \in Seq(T) /\ Len(r) = Len(s) - 1
      /\ \A i \in 1 .. Len(r) : r[i] = IF i < p THEN s[i] ELSE s[i + 1]
  BY RemoveIndices
<1>4. /\ r \o b \in Seq(T) /\ Len(r \o b) = Len(r) + Len(b)
      /\ \A i \in 1 .. Len(r) + Len(b) :
            (r \o b)[i] = IF i <= Len(r) THEN r[i] ELSE b[i - Len(r)]
  BY <1>3, ConcatProperties
<1>5. Len(s) \in Nat /\ Len(b) \in Nat
  OBVIOUS
<1> HIDE DEF c, r, p
<1>6. \A i \in 1 .. Len(b) : b[i] # x
  BY <1>5 DEF ToSet
<1>7. \A i \in 1 .. Len(c) : c[i] = x <=> i = p
  <2> SUFFICES ASSUME NEW i \in 1 .. Len(c)
               PROVE  c[i] = x <=> i = p
    OBVIOUS
  <2>1. CASE i <= Len(s)
    BY <1>1, <1>2, <1>5, <2>1
  <2>2. CASE ~(i <= Len(s))
    <3>1. i - Len(s) \in 1 .. Len(b) /\ c[i] = b[i - Len(s)]
      BY <1>1, <1>5, <2>2
    <3>2. QED
      BY <1>2, <1>5, <1>6, <2>2, <3>1
  <2>3. QED
    BY <2>1, <2>2
<1>8. p \in 1 .. Len(c) /\ x \in ToSet(c)
  BY <1>1, <1>2, <1>5, <1>7 DEF ToSet
<1>9. Position(c, x) = p
  BY <1>1, <1>7, <1>8, PositionOfEntry
<1> DEFINE q == wl_list_remove(c, x)
<1>10. /\ q \in Seq(T) /\ Len(q) = Len(c) - 1
       /\ \A i \in 1 .. Len(q) : q[i] = IF i < p THEN c[i] ELSE c[i + 1]
  BY <1>1, <1>8, <1>9, RemoveIndices
<1> HIDE DEF q
<1>11. Len(q) = Len(r \o b)
  BY <1>1, <1>3, <1>4, <1>5, <1>10
<1>12. ASSUME NEW i \in 1 .. Len(q)
       PROVE  q[i] = (r \o b)[i]
  <2>1. CASE i < p
    BY <1>1, <1>2, <1>3, <1>4, <1>5, <1>10, <2>1
  <2>2. CASE ~(i < p) /\ i <= Len(r)
    BY <1>1, <1>2, <1>3, <1>4, <1>5, <1>10, <2>2
  <2>3. CASE ~(i <= Len(r))
    <3>1. q[i] = c[i + 1] /\ i + 1 \in 1 .. Len(s) + Len(b) /\ ~(i + 1 <= Len(s))
      BY <1>1, <1>2, <1>3, <1>5, <1>10, <2>3
    <3>2. c[i + 1] = b[(i + 1) - Len(s)]
      BY <1>1, <3>1
    <3>3. i \in 1 .. Len(r) + Len(b) /\ (r \o b)[i] = b[i - Len(r)]
      BY <1>3, <1>4, <1>5, <1>11, <2>3
    <3>4. (i + 1) - Len(s) = i - Len(r)
      BY <1>3, <1>5
    <3>5. QED
      BY <3>1, <3>2, <3>3, <3>4
  <2>4. QED
    BY <1>3, <1>5, <2>1, <2>2, <2>3
<1>13. q = r \o b
  BY <1>4, <1>10, <1>11, <1>12, SeqEqual
<1>14. QED
  BY <1>13 DEF q, c, r

(* An entry of the front part moves to its front, which is that of the     *)
(* whole.                                                                  *)
LEMMA MoveInPrefix ==
    ASSUME NEW T, NEW s \in Seq(T), NEW b \in Seq(T), NEW x \in ToSet(s),
           \A i, j \in 1 .. Len(s) : s[i] = s[j] => i = j,
           x \notin ToSet(b)
    PROVE  MoveToFront(s \o b, x) = MoveToFront(s, x) \o b
<1> DEFINE r == wl_list_remove(s, x)
<1>1. r \in Seq(T) /\ x \in T
  BY RemoveIndices DEF ToSet
<1>2. wl_list_remove(s \o b, x) = r \o b
  BY RemoveFromPrefix
<1> HIDE DEF r
<1>3. <<x>> \in Seq(T)
  BY <1>1
<1>4. (<<x>> \o r) \o b = <<x>> \o (r \o b)
  BY <1>1, <1>3, ConcatAssociative
<1>5. QED
  BY <1>2, <1>4 DEF MoveToFront, wl_list_insert, Cons, r
=============================================================================
