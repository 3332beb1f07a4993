--------------------------- MODULE ModelStoreProofs ---------------------------
(* What holds of the coefficient store for every model and every sequence of   *)
(* edits: an identity dies with its cell, the store is a map from pairs of a   *)
(* target and a variable to cells, its lists, lookups and counts agree, and no *)
(* coefficient outlives its constraint, objective or variable.                 *)
EXTENDS ModelStore, FiniteSetTheorems, TLAPS

-----------------------------------------------------------------------------
(* Lists                                                                       *)

IsList(q) == Len(q) \in Nat /\ q = [i \in 1 .. Len(q) |-> q[i]]
Elements(q) == {q[i] : i \in 1 .. Len(q)}
Joined(q, r) == q \o r
Updated(q, p, x) == [q EXCEPT ![p] = x]

\* A function on an initial segment of the numbers is a list.
LEMMA ListOfFunction ==
    ASSUME NEW q, NEW n \in Nat, DOMAIN q = 1 .. n, q = [i \in 1 .. n |-> q[i]]
    PROVE  IsList(q) /\ Len(q) = n
<1>1. q \in [1 .. n -> {q[i] : i \in 1 .. n}]
  OBVIOUS
<1>2. q \in Seq({q[i] : i \in 1 .. n})
  BY <1>1
<1>3. Len(q) = n
  BY <1>2
<1> QED
  BY <1>3 DEF IsList

\* A list is a sequence of its elements.
LEMMA ListIsSeq ==
    ASSUME NEW q, IsList(q)
    PROVE  q \in Seq(Elements(q)) /\ DOMAIN q = 1 .. Len(q) /\ Len(q) \in Nat
<1>1. q \in [1 .. Len(q) -> Elements(q)] /\ Len(q) \in Nat
  BY DEF IsList, Elements
<1> QED
  BY <1>1

\* Two lists, one after the other.
LEMMA ListJoin ==
    ASSUME NEW q, NEW r, NEW t, IsList(q), IsList(r), t = Joined(q, r)
    PROVE  /\ IsList(t) /\ Len(t) = Len(q) + Len(r)
           /\ \A i \in 1 .. Len(q) : t[i] = q[i]
           /\ \A i \in 1 .. Len(r) : t[Len(q) + i] = r[i]
           /\ \A i \in 1 .. Len(t) : i \in 1 .. Len(q) \/ \E k \in 1 .. Len(r) : i = Len(q) + k
<1> DEFINE S == Elements(q) \cup Elements(r)
<1>1. q \in Seq(S) /\ r \in Seq(S) /\ Len(q) \in Nat /\ Len(r) \in Nat
  BY ListIsSeq
<1> HIDE DEF S
<1>2. /\ t \in Seq(S) /\ Len(t) = Len(q) + Len(r)
      /\ \A i \in 1 .. Len(q) : t[i] = q[i]
      /\ \A i \in 1 .. Len(r) : t[Len(q) + i] = r[i]
  BY <1>1 DEF Joined
<1>3. IsList(t)
  BY <1>2 DEF IsList
<1>4. \A i \in 1 .. Len(t) : i \in 1 .. Len(q) \/ \E k \in 1 .. Len(r) : i = Len(q) + k
  <2> SUFFICES ASSUME NEW i \in 1 .. Len(t), i \notin 1 .. Len(q)
               PROVE  \E k \in 1 .. Len(r) : i = Len(q) + k
    OBVIOUS
  <2>1. i - Len(q) \in 1 .. Len(r) /\ i = Len(q) + (i - Len(q))
    BY <1>1, <1>2
  <2> QED
    BY <2>1
<1> QED
  BY <1>2, <1>3, <1>4

\* A list with one more element.
LEMMA ListAppend ==
    ASSUME NEW q, NEW x, IsList(q)
    PROVE  /\ IsList(Append(q, x)) /\ Len(Append(q, x)) = Len(q) + 1
           /\ \A i \in 1 .. Len(q) : Append(q, x)[i] = q[i]
           /\ Append(q, x)[Len(q) + 1] = x
<1> DEFINE S == Elements(q) \cup {x}
           t == Append(q, x)
<1>1. q \in Seq(S) /\ x \in S /\ Len(q) \in Nat
  BY ListIsSeq
<1> HIDE DEF S
<1>2. /\ t \in Seq(S) /\ Len(t) = Len(q) + 1 /\ t[Len(q) + 1] = x
      /\ \A i \in 1 .. Len(q) : t[i] = q[i]
  BY <1>1
<1> HIDE DEF t
<1>3. IsList(t)
  BY <1>2 DEF IsList
<1> QED
  BY <1>2, <1>3 DEF t

\* A list with one element replaced.
LEMMA ListUpdate ==
    ASSUME NEW q, NEW p, NEW x, NEW t, IsList(q), t = Updated(q, p, x)
    PROVE  /\ IsList(t) /\ Len(t) = Len(q)
           /\ \A i \in 1 .. Len(q) : t[i] = IF i = p THEN x ELSE q[i]
<1>1. DOMAIN q = 1 .. Len(q) /\ Len(q) \in Nat
  BY ListIsSeq
<1>2. /\ DOMAIN t = 1 .. Len(q) /\ t = [i \in 1 .. Len(q) |-> t[i]]
      /\ \A i \in 1 .. Len(q) : t[i] = IF i = p THEN x ELSE q[i]
  BY <1>1 DEF Updated
<1>3. IsList(t) /\ Len(t) = Len(q)
  BY <1>1, <1>2, ListOfFunction
<1> QED
  BY <1>2, <1>3

\* A finite set of numbers, counted off in ascending order.
LEMMA AscendingLists ==
    ASSUME NEW S \in SUBSET Int, IsFiniteSet(S)
    PROVE  /\ IsList(Ascending(S)) /\ Len(Ascending(S)) = Cardinality(S) /\ Cardinality(S) \in Nat
           /\ \A k \in 1 .. Cardinality(S) : Ascending(S)[k] \in S
           /\ \A k, m \in 1 .. Cardinality(S) : Ascending(S)[k] = Ascending(S)[m] => k = m
           /\ \A a \in S : \E k \in 1 .. Cardinality(S) : Ascending(S)[k] = a
           /\ \A k \in 1 .. Cardinality(S) : Cardinality({b \in S : b <= Ascending(S)[k]}) = k
<1> DEFINE n == Cardinality(S)
           Below(a) == {b \in S : b <= a}
           Rank(a) == Cardinality(Below(a))
           f == [a \in S |-> Rank(a)]
           q == Ascending(S)
<1>1. n \in Nat
  BY FS_CardinalityType
<1>2. ASSUME NEW a \in S
      PROVE  Below(a) \in SUBSET S /\ a \in Below(a) /\ IsFiniteSet(Below(a)) /\ Rank(a) \in 1 .. n
  <2>1. Below(a) \in SUBSET S /\ a \in Below(a)
    OBVIOUS
  <2> HIDE DEF Below
  <2>2. IsFiniteSet(Below(a)) /\ Cardinality(Below(a)) <= n
    BY <2>1, FS_Subset
  <2>3. Cardinality(Below(a)) \in Nat /\ Cardinality(Below(a)) # 0
    BY <2>1, <2>2, FS_CardinalityType, FS_EmptySet
  <2> QED
    BY <1>1, <2>1, <2>2, <2>3
<1>3. ASSUME NEW a \in S, NEW c \in S, a < c
      PROVE  Rank(a) # Rank(c)
  <2>1. Below(a) \in SUBSET Below(c) /\ c \in Below(c) /\ c \notin Below(a)
    <3>1. a \in Int /\ c \in Int /\ \A b \in S : b \in Int
      OBVIOUS
    <3>2. \A b \in S : b <= a => b <= c
      BY <1>3, <3>1
    <3>3. c <= c /\ ~ (c <= a)
      BY <1>3, <3>1
    <3> QED
      BY <3>2, <3>3
  <2>2. IsFiniteSet(Below(c))
    BY <1>2
  <2> HIDE DEF Below
  <2> QED
    BY <2>1, <2>2, FS_Subset
<1>4. ASSUME NEW a \in S, NEW c \in S, Rank(a) = Rank(c)
      PROVE  a = c
  <2>1. a \in Int /\ c \in Int
    OBVIOUS
  <2>2. ASSUME a < c PROVE FALSE
    BY <2>2, <1>3, <1>4
  <2>3. ASSUME c < a PROVE FALSE
    BY <2>3, <1>3, <1>4
  <2> QED
    BY <2>1, <2>2, <2>3
<1> HIDE DEF Rank
<1>5. f \in [S -> 1 .. n] /\ \A a, c \in S : f[a] = f[c] => a = c
  BY <1>2, <1>4
<1>9. \A k \in 1 .. n : \E a \in S : f[a] = k
  <2> SUFFICES ASSUME NEW k \in 1 .. n, \A a \in S : f[a] # k
               PROVE  FALSE
    OBVIOUS
  <2>1. IsFiniteSet(1 .. n) /\ Cardinality(1 .. n) = n
    BY <1>1, FS_Interval
  <2>2. IsFiniteSet((1 .. n) \ {k}) /\ Cardinality((1 .. n) \ {k}) = n - 1
    BY <2>1, FS_RemoveElement
  <2>3. f \in [S -> (1 .. n) \ {k}]
    BY <1>5
  <2> HIDE DEF f
  <2>4. Cardinality((1 .. n) \ {k}) < Cardinality(S)
    BY <1>1, <2>2
  <2> DEFINE T == (1 .. n) \ {k}
  <2> HIDE DEF T, n
  <2>5. \E a, c \in S : a # c /\ f[a] = f[c]
    <3>1. IsFiniteSet(S) /\ IsFiniteSet(T) /\ Cardinality(T) < Cardinality(S) /\ f \in [S -> T]
      BY <2>2, <2>3, <2>4 DEF T
    <3> QED
      BY <3>1, FS_PigeonHole, Zenon
  <2> QED
    BY <1>5, <2>5
<1>10. \A k \in 1 .. n : \E a \in S : Rank(a) = k
  BY <1>9
<1>11. q = [k \in 1 .. n |-> CHOOSE a \in S : Rank(a) = k]
  BY DEF Ascending, Rank
<1> HIDE DEF q, f
<1>12. \A k \in 1 .. n : q[k] \in S /\ Rank(q[k]) = k
  BY <1>10, <1>11
<1>13. IsList(q) /\ Len(q) = n
  BY <1>1, <1>11, ListOfFunction
<1>14. \A a \in S : q[Rank(a)] = a
  BY <1>2, <1>4, <1>12
<1>15. \A a \in S : \E k \in 1 .. n : q[k] = a
  BY <1>2, <1>14
<1>16. \A k, m \in 1 .. n : q[k] = q[m] => k = m
  BY <1>12
<1>17. \A k \in 1 .. n : Cardinality({b \in S : b <= q[k]}) = k
  BY <1>12 DEF Rank
<1> QED
  BY <1>1, <1>12, <1>13, <1>15, <1>16, <1>17 DEF q

\* A set of numbers that is not empty has a least one.
LEMMA LeastNumber ==
    ASSUME NEW S \in SUBSET Nat, S # {}
    PROVE  \E n \in S : \A m \in S : n <= m
<1>1. PICK top \in S : TRUE
  OBVIOUS
<1> DEFINE U == {n \in S : n <= top}
<1>2. U \in SUBSET Int /\ U \in SUBSET (0 .. top) /\ top \in U /\ top \in Nat
  <2>1. top \in Nat /\ \A n \in S : n \in Nat
    OBVIOUS
  <2>2. top <= top /\ \A n \in U : n \in 0 .. top /\ n \in Int
    BY <2>1
  <2> QED
    BY <2>1, <2>2
<1>3. IsFiniteSet(0 .. top)
  BY <1>2, FS_Interval
<1>4. \A m \in S : m \in U \/ top < m
  BY <1>2
<1> HIDE DEF U
<1>5. IsFiniteSet(U)
  BY <1>2, <1>3, FS_Subset
<1> DEFINE Below(a) == {b \in U : b <= a}
<1>6. /\ Cardinality(U) \in Nat
      /\ \A k \in 1 .. Cardinality(U) : Ascending(U)[k] \in U /\ Cardinality(Below(Ascending(U)[k])) = k
      /\ \A a \in U : \E k \in 1 .. Cardinality(U) : Ascending(U)[k] = a
  BY <1>2, <1>5, AscendingLists
<1>7. 1 \in 1 .. Cardinality(U)
  BY <1>2, <1>6
<1> DEFINE n == Ascending(U)[1]
<1>8. n \in U /\ n \in Below(n) /\ Cardinality(Below(n)) = 1
  <2>1. n \in U /\ Cardinality(Below(n)) = 1
    BY <1>6, <1>7
  <2> HIDE DEF n
  <2>2. n <= n
    BY <1>2, <2>1
  <2> QED
    BY <2>1, <2>2
<1>9. Below(n) \in SUBSET U
  OBVIOUS
<1> HIDE DEF Below, n
<1>10. IsFiniteSet(Below(n))
  BY <1>5, <1>9, FS_Subset
<1>11. Below(n) = {n}
  BY <1>8, <1>10, FS_Singleton
<1>12. \A m \in U : n <= m
  <2> SUFFICES ASSUME NEW m \in U PROVE n <= m
    OBVIOUS
  <2>1. n \in Int /\ m \in Int
    BY <1>2, <1>8
  <2>2. m <= n => m = n
    BY <1>11 DEF Below
  <2> QED
    BY <2>1, <2>2
<1>13. n <= top /\ n \in Nat /\ n \in S
  BY <1>2, <1>8 DEF U
<1>14. \A m \in S : n <= m
  <2> SUFFICES ASSUME NEW m \in S PROVE n <= m
    OBVIOUS
  <2> QED
    BY <1>2, <1>4, <1>12, <1>13
<1> QED
  BY <1>13, <1>14

-----------------------------------------------------------------------------
(* The places of a store: where its live cells are                             *)

Locs(s) == {Packed(i) : i \in PackedLive(s)} \cup {ParamBase(i) : i \in ParamLive(s)}
             \cup {Overlay(i) : i \in OverlayLive(s)}

IdAt(s, l) ==
    IF l.at = "packed" THEN s.base[l.pos].id
    ELSE IF l.at = "param" THEN s.pbase[l.pos].id ELSE s.overlay[l.pos].id
KeyAt(s, l) ==
    IF l.at = "packed" THEN s.base[l.pos].key
    ELSE IF l.at = "param" THEN s.pbase[l.pos].key ELSE s.overlay[l.pos].data.key
DataAt(s, l) ==
    IF l.at = "packed" THEN PackedData(s, l.pos)
    ELSE IF l.at = "param" THEN ParamData(s, l.pos) ELSE OverlayData(s, l.pos)

\* The identities handed out, by number, and what the arena holds for each.
Slots(s) == 1 .. Len(s.arena)
GenOf(s, n) == s.arena[n].gen
LocOf(s, n) == s.arena[n].loc
InOverlay(l) == l.at = "overlay"
PosOf(l) == l.pos
HasEntry(s, k) == k \in DOMAIN s.byCell
Entry(s, k) == s.byCell[k]
NextSlot(s) == Len(s.arena) + 1
BaseOf(s) == s.base
ParamBaseOf(s) == s.pbase
NextPlace(s) == Overlay(Len(s.overlay) + 1)
Pair(data) == data.key

Fields == {"arena", "base", "shadowed", "dead", "pbase", "pshadowed", "pdead", "positions",
           "blocks", "overlay", "byCell", "byParam", "varIndex", "live"}

\* The record and its lists have the parts the code gives them.
Shaped(s) ==
    /\ DOMAIN s = Fields
    /\ IsList(s.arena) /\ IsList(s.base) /\ IsList(s.pbase) /\ IsList(s.overlay)
    /\ s.shadowed \cup s.dead \subseteq 1 .. Len(s.base)
    /\ s.pshadowed \cup s.pdead \subseteq 1 .. Len(s.pbase)
    /\ \A n \in 1 .. Len(s.arena) : DOMAIN s.arena[n] = {"gen", "loc"} /\ s.arena[n].gen \in Nat
    /\ \A i \in 1 .. Len(s.pbase) :
          DOMAIN s.pbase[i] = {"key", "param", "scale", "cached", "id"}
    /\ \A i \in 1 .. Len(s.overlay) :
          /\ DOMAIN s.overlay[i] = {"id", "data", "tombstone"}
          /\ DOMAIN s.overlay[i].data = {"key", "expr", "cached"}
          /\ s.overlay[i].tombstone \in BOOLEAN

\* The index by pair leads to the overlay entry of the pair.
Indexed(s) ==
    \A k \in DOMAIN s.byCell :
       s.byCell[k] \in 1 .. Len(s.overlay) /\ s.overlay[s.byCell[k]].data.key = k

\* Cells belong to constraints and objectives that were created.
Within(s, T) ==
    /\ \A i \in 1 .. Len(s.base) : s.base[i].key[1] \in T
    /\ \A i \in 1 .. Len(s.pbase) : s.pbase[i].key[1] \in T
    /\ \A i \in 1 .. Len(s.overlay) : s.overlay[i].data.key[1] \in T

\* Identities and places correspond: the slot of an identity that was not given
\* back holds the place whose cell carries it, and no pair has two places.
Exact(s) ==
    /\ \A l \in Locs(s) : \E n \in Slots(s) :
          IdAt(s, l) = FreshId(n) /\ GenOf(s, n) = 0 /\ LocOf(s, n) = l
    /\ \A n \in Slots(s) :
          \/ LocOf(s, n) = Vacant
          \/ GenOf(s, n) = 0 /\ LocOf(s, n) \in Locs(s)
               /\ IdAt(s, LocOf(s, n)) = FreshId(n)
    /\ \A l, m \in Locs(s) : KeyAt(s, l) = KeyAt(s, m) => l = m
    /\ \A l \in Locs(s) :
          IF InOverlay(l)
          THEN HasEntry(s, KeyAt(s, l)) /\ Entry(s, KeyAt(s, l)) = PosOf(l)
          ELSE ~ HasEntry(s, KeyAt(s, l))

StoreOK(s, T) == Shaped(s) /\ Indexed(s) /\ Within(s, T) /\ Exact(s)

\* A place is packed, parametric or in the overlay.
LEMMA PlaceForms ==
    ASSUME NEW s
    PROVE  /\ \A i : Packed(i) \in Locs(s) <=> i \in PackedLive(s)
           /\ \A i : ParamBase(i) \in Locs(s) <=> i \in ParamLive(s)
           /\ \A i : Overlay(i) \in Locs(s) <=> i \in OverlayLive(s)
           /\ Vacant \notin Locs(s)
           /\ \A l \in Locs(s) :
                 \/ l.at = "packed" /\ l = Packed(l.pos) /\ l.pos \in PackedLive(s)
                 \/ l.at = "param" /\ l = ParamBase(l.pos) /\ l.pos \in ParamLive(s)
                 \/ l.at = "overlay" /\ l = Overlay(l.pos) /\ l.pos \in OverlayLive(s)
<1> DEFINE P == PackedLive(s)
           Q == ParamLive(s)
           O == OverlayLive(s)
<1> HIDE DEF P, Q, O
<1>1. \A i : /\ Packed(i).at = "packed" /\ Packed(i).pos = i
             /\ ParamBase(i).at = "param" /\ ParamBase(i).pos = i
             /\ Overlay(i).at = "overlay" /\ Overlay(i).pos = i
             /\ Vacant.at = "vacant"
  BY DEF Packed, ParamBase, Overlay, Vacant
<1>2. \A l : l \in Locs(s) <=> \/ \E i \in P : l = Packed(i)
                               \/ \E i \in Q : l = ParamBase(i)
                               \/ \E i \in O : l = Overlay(i)
  BY DEF Locs, P, Q, O
<1>3. \A i : (Packed(i) \in Locs(s) <=> i \in P) /\ (ParamBase(i) \in Locs(s) <=> i \in Q)
               /\ (Overlay(i) \in Locs(s) <=> i \in O)
  BY <1>1, <1>2
<1>4. Vacant \notin Locs(s)
  BY <1>1, <1>2
<1>5. \A l \in Locs(s) :
         \/ l.at = "packed" /\ l = Packed(l.pos) /\ l.pos \in P
         \/ l.at = "param" /\ l = ParamBase(l.pos) /\ l.pos \in Q
         \/ l.at = "overlay" /\ l = Overlay(l.pos) /\ l.pos \in O
  BY <1>1, <1>2
<1> QED
  BY <1>3, <1>4, <1>5 DEF P, Q, O

\* Live positions are positions.
LEMMA LivePositions ==
    ASSUME NEW s, Shaped(s)
    PROVE  /\ PackedLive(s) \subseteq 1 .. Len(s.base)
           /\ ParamLive(s) \subseteq 1 .. Len(s.pbase)
           /\ OverlayLive(s) \subseteq 1 .. Len(s.overlay)
           /\ Len(s.arena) \in Nat /\ Slots(s) = 1 .. Len(s.arena) /\ Len(s.base) \in Nat
           /\ Len(s.pbase) \in Nat /\ Len(s.overlay) \in Nat
           /\ DOMAIN s.arena = 1 .. Len(s.arena) /\ DOMAIN s.base = 1 .. Len(s.base)
           /\ DOMAIN s.pbase = 1 .. Len(s.pbase) /\ DOMAIN s.overlay = 1 .. Len(s.overlay)
<1>1. IsList(s.arena) /\ IsList(s.base) /\ IsList(s.pbase) /\ IsList(s.overlay)
  BY DEF Shaped
<1>2. /\ Len(s.arena) \in Nat /\ Len(s.base) \in Nat /\ Len(s.pbase) \in Nat /\ Len(s.overlay) \in Nat
      /\ DOMAIN s.arena = 1 .. Len(s.arena) /\ DOMAIN s.base = 1 .. Len(s.base)
      /\ DOMAIN s.pbase = 1 .. Len(s.pbase) /\ DOMAIN s.overlay = 1 .. Len(s.overlay)
  BY <1>1, ListIsSeq
<1> QED
  BY <1>2 DEF PackedLive, ParamLive, OverlayLive, Slots

\* The empty store is in order.
LEMMA EmptyStoreOK ==
    ASSUME NEW T
    PROVE  StoreOK(EmptyStore, T)
<1>1. /\ DOMAIN EmptyStore = Fields
      /\ EmptyStore.arena = <<>> /\ EmptyStore.base = <<>> /\ EmptyStore.pbase = <<>>
      /\ EmptyStore.overlay = <<>> /\ EmptyStore.byCell = <<>>
      /\ EmptyStore.shadowed = {} /\ EmptyStore.dead = {}
      /\ EmptyStore.pshadowed = {} /\ EmptyStore.pdead = {}
  BY DEF EmptyStore, Fields
<1>2. IsList(<<>>) /\ Len(<<>>) = 0 /\ DOMAIN <<>> = {}
  <2>1. <<>> \in Seq({}) /\ Len(<<>>) = 0
    OBVIOUS
  <2> QED
    BY <2>1 DEF IsList
<1>3. PackedLive(EmptyStore) = {} /\ ParamLive(EmptyStore) = {} /\ OverlayLive(EmptyStore) = {}
  BY <1>1, <1>2 DEF PackedLive, ParamLive, OverlayLive
<1>4. Locs(EmptyStore) = {}
  BY <1>3 DEF Locs
<1>5. Shaped(EmptyStore)
  BY <1>1, <1>2 DEF Shaped
<1>6. Indexed(EmptyStore) /\ Within(EmptyStore, T) /\ Exact(EmptyStore)
  BY <1>1, <1>2, <1>4 DEF Indexed, Within, Exact, Slots
<1> QED
  BY <1>5, <1>6 DEF StoreOK

\* A store whose places, identities, pairs and index are those of one in order
\* is in order.
LEMMA SameView ==
    ASSUME NEW s, NEW t, NEW T, StoreOK(s, T), Shaped(t), Indexed(t), Within(t, T),
           Locs(t) = Locs(s), Slots(t) = Slots(s),
           \A n : GenOf(t, n) = GenOf(s, n) /\ LocOf(t, n) = LocOf(s, n),
           \A k : HasEntry(t, k) = HasEntry(s, k) /\ Entry(t, k) = Entry(s, k),
           \A l \in Locs(s) : IdAt(t, l) = IdAt(s, l) /\ KeyAt(t, l) = KeyAt(s, l)
    PROVE  StoreOK(t, T)
<1>1. Exact(s)
  BY DEF StoreOK
<1>2. Exact(t)
  BY <1>1, PlaceForms, Zenon DEF Exact
<1> QED
  BY <1>2 DEF StoreOK

\* Cells with fresh identities appear at places of their own, for pairs that
\* have no cell.
LEMMA Gains ==
    ASSUME NEW s, NEW t, Exact(s),
           Slots(s) \subseteq Slots(t),
           \A n \in Slots(s) : GenOf(t, n) = GenOf(s, n) /\ LocOf(t, n) = LocOf(s, n),
           \A n \in Slots(t) : n \notin Slots(s) =>
              /\ GenOf(t, n) = 0 /\ LocOf(t, n) \in Locs(t)
              /\ IdAt(t, LocOf(t, n)) = FreshId(n),
           Locs(s) \subseteq Locs(t),
           \A l \in Locs(s) : IdAt(t, l) = IdAt(s, l) /\ KeyAt(t, l) = KeyAt(s, l),
           \A l \in Locs(t) \ Locs(s) :
              \E n \in Slots(t) : n \notin Slots(s) /\ LocOf(t, n) = l,
           \A l, m \in Locs(t) \ Locs(s) : KeyAt(t, l) = KeyAt(t, m) => l = m,
           \A l \in Locs(t) \ Locs(s), m \in Locs(s) : KeyAt(t, l) # KeyAt(s, m),
           \A l \in Locs(s) :
              /\ HasEntry(t, KeyAt(s, l)) <=> HasEntry(s, KeyAt(s, l))
              /\ HasEntry(s, KeyAt(s, l)) => Entry(t, KeyAt(s, l)) = Entry(s, KeyAt(s, l)),
           \A l \in Locs(t) \ Locs(s) :
              IF InOverlay(l)
              THEN HasEntry(t, KeyAt(t, l)) /\ Entry(t, KeyAt(t, l)) = PosOf(l)
              ELSE ~ HasEntry(t, KeyAt(t, l))
    PROVE  Exact(t)
<1>1. ASSUME NEW n \in Slots(s) PROVE n \in Slots(t)
  OBVIOUS
<1>2. \A l \in Locs(t) : \E n \in Slots(t) :
         IdAt(t, l) = FreshId(n) /\ GenOf(t, n) = 0 /\ LocOf(t, n) = l
  <2> SUFFICES ASSUME NEW l \in Locs(t)
               PROVE  \E n \in Slots(t) :
                         IdAt(t, l) = FreshId(n) /\ GenOf(t, n) = 0 /\ LocOf(t, n) = l
    OBVIOUS
  <2>1. CASE l \in Locs(s)
    <3>1. PICK n \in Slots(s) :
             IdAt(s, l) = FreshId(n) /\ GenOf(s, n) = 0 /\ LocOf(s, n) = l
      BY <2>1 DEF Exact
    <3> QED
      BY <1>1, <2>1, <3>1
  <2>2. CASE l \notin Locs(s)
    <3>1. PICK n \in Slots(t) : n \notin Slots(s) /\ LocOf(t, n) = l
      BY <2>2
    <3> QED
      BY <3>1
  <2> QED
    BY <2>1, <2>2
<1>3. \A n \in Slots(t) :
         \/ LocOf(t, n) = Vacant
         \/ GenOf(t, n) = 0 /\ LocOf(t, n) \in Locs(t)
              /\ IdAt(t, LocOf(t, n)) = FreshId(n)
  <2> SUFFICES ASSUME NEW n \in Slots(t), LocOf(t, n) # Vacant
               PROVE  GenOf(t, n) = 0 /\ LocOf(t, n) \in Locs(t)
                        /\ IdAt(t, LocOf(t, n)) = FreshId(n)
    OBVIOUS
  <2>1. CASE n \in Slots(s)
    <3>1. GenOf(t, n) = GenOf(s, n) /\ LocOf(t, n) = LocOf(s, n)
      BY <2>1
    <3>2. GenOf(s, n) = 0 /\ LocOf(s, n) \in Locs(s) /\ IdAt(s, LocOf(s, n)) = FreshId(n)
      BY <2>1, <3>1 DEF Exact
    <3> QED
      BY <3>1, <3>2
  <2> QED
    BY <2>1
<1>4. \A l, m \in Locs(t) : KeyAt(t, l) = KeyAt(t, m) => l = m
  <2> SUFFICES ASSUME NEW l \in Locs(t), NEW m \in Locs(t), KeyAt(t, l) = KeyAt(t, m)
               PROVE  l = m
    OBVIOUS
  <2>1. CASE l \in Locs(s) /\ m \in Locs(s)
    <3>1. KeyAt(s, l) = KeyAt(s, m)
      BY <2>1
    <3> QED
      BY <2>1, <3>1 DEF Exact
  <2> QED
    BY <2>1
<1>5. \A l \in Locs(t) :
         IF InOverlay(l)
         THEN HasEntry(t, KeyAt(t, l)) /\ Entry(t, KeyAt(t, l)) = PosOf(l)
         ELSE ~ HasEntry(t, KeyAt(t, l))
  <2>1. ASSUME NEW l \in Locs(s)
        PROVE  IF InOverlay(l)
               THEN HasEntry(s, KeyAt(s, l)) /\ Entry(s, KeyAt(s, l)) = PosOf(l)
               ELSE ~ HasEntry(s, KeyAt(s, l))
    BY DEF Exact
  <2> QED
    BY <2>1
<1> QED
  BY <1>2, <1>3, <1>4, <1>5 DEF Exact

\* The cell of an identity moves to another place and stays the same pair's.
LEMMA Moves ==
    ASSUME NEW s, NEW t, NEW n \in Slots(s), NEW to, Exact(s),
           LocOf(s, n) \in Locs(s), to \notin Locs(s),
           Slots(t) = Slots(s), GenOf(t, n) = 0, LocOf(t, n) = to,
           \A k \in Slots(s) : k # n => GenOf(t, k) = GenOf(s, k) /\ LocOf(t, k) = LocOf(s, k),
           Locs(t) = (Locs(s) \ {LocOf(s, n)}) \cup {to},
           \A l \in Locs(s) \ {LocOf(s, n)} : IdAt(t, l) = IdAt(s, l) /\ KeyAt(t, l) = KeyAt(s, l),
           IdAt(t, to) = FreshId(n), KeyAt(t, to) = KeyAt(s, LocOf(s, n)),
           InOverlay(to),
           HasEntry(t, KeyAt(t, to)), Entry(t, KeyAt(t, to)) = PosOf(to),
           \A l \in Locs(s) \ {LocOf(s, n)} :
              /\ HasEntry(t, KeyAt(s, l)) <=> HasEntry(s, KeyAt(s, l))
              /\ HasEntry(s, KeyAt(s, l)) => Entry(t, KeyAt(s, l)) = Entry(s, KeyAt(s, l))
    PROVE  Exact(t)
<1> DEFINE from == LocOf(s, n)
           Rest == Locs(s) \ {from}
<1>1. \A l \in Rest : l # to
  OBVIOUS
<1>2. \A l \in Locs(t) : \E k \in Slots(t) :
         IdAt(t, l) = FreshId(k) /\ GenOf(t, k) = 0 /\ LocOf(t, k) = l
  <2> SUFFICES ASSUME NEW l \in Locs(t)
               PROVE  \E k \in Slots(t) :
                         IdAt(t, l) = FreshId(k) /\ GenOf(t, k) = 0 /\ LocOf(t, k) = l
    OBVIOUS
  <2>1. CASE l \in Rest
    <3>1. PICK k \in Slots(s) :
             IdAt(s, l) = FreshId(k) /\ GenOf(s, k) = 0 /\ LocOf(s, k) = l
      BY <2>1 DEF Exact
    <3>2. k # n
      BY <2>1, <3>1
    <3> QED
      BY <2>1, <3>1, <3>2
  <2>2. CASE l = to
    BY <2>2
  <2> QED
    BY <2>1, <2>2
<1>3. \A k \in Slots(t) :
         \/ LocOf(t, k) = Vacant
         \/ GenOf(t, k) = 0 /\ LocOf(t, k) \in Locs(t)
              /\ IdAt(t, LocOf(t, k)) = FreshId(k)
  <2> SUFFICES ASSUME NEW k \in Slots(t), LocOf(t, k) # Vacant, k # n
               PROVE  GenOf(t, k) = 0 /\ LocOf(t, k) \in Locs(t)
                        /\ IdAt(t, LocOf(t, k)) = FreshId(k)
    OBVIOUS
  <2>1. GenOf(t, k) = GenOf(s, k) /\ LocOf(t, k) = LocOf(s, k)
    OBVIOUS
  <2>2. GenOf(s, k) = 0 /\ LocOf(s, k) \in Locs(s) /\ IdAt(s, LocOf(s, k)) = FreshId(k)
    BY <2>1 DEF Exact
  <2>3. IdAt(s, from) = FreshId(n)
    BY PlaceForms DEF Exact
  <2>4. FreshId(k) # FreshId(n)
    BY DEF FreshId
  <2> QED
    BY <2>1, <2>2, <2>3, <2>4
<1>4. \A l, m \in Locs(s) : KeyAt(s, l) = KeyAt(s, m) => l = m
  BY DEF Exact
<1>5. \A l, m \in Locs(t) : KeyAt(t, l) = KeyAt(t, m) => l = m
  <2> SUFFICES ASSUME NEW l \in Locs(t), NEW m \in Locs(t), KeyAt(t, l) = KeyAt(t, m)
               PROVE  l = m
    OBVIOUS
  <2>1. CASE l \in Rest /\ m \in Rest
    BY <1>4, <2>1
  <2>2. CASE l = to /\ m \in Rest
    BY <1>4, <2>2
  <2>3. CASE m = to /\ l \in Rest
    BY <1>4, <2>3
  <2> QED
    BY <2>1, <2>2, <2>3
<1>6. \A l \in Locs(t) :
         IF InOverlay(l)
         THEN HasEntry(t, KeyAt(t, l)) /\ Entry(t, KeyAt(t, l)) = PosOf(l)
         ELSE ~ HasEntry(t, KeyAt(t, l))
  <2>1. ASSUME NEW l \in Locs(s)
        PROVE  IF InOverlay(l)
               THEN HasEntry(s, KeyAt(s, l)) /\ Entry(s, KeyAt(s, l)) = PosOf(l)
               ELSE ~ HasEntry(s, KeyAt(s, l))
    BY DEF Exact
  <2> QED
    BY <2>1
<1> QED
  BY <1>2, <1>3, <1>5, <1>6 DEF Exact

\* The cell of an identity disappears and the identity is given back.
LEMMA Loses ==
    ASSUME NEW s, NEW t, NEW n \in Slots(s), Exact(s),
           LocOf(s, n) \in Locs(s),
           Slots(t) = Slots(s), LocOf(t, n) = Vacant,
           \A k \in Slots(s) : k # n => GenOf(t, k) = GenOf(s, k) /\ LocOf(t, k) = LocOf(s, k),
           Locs(t) = Locs(s) \ {LocOf(s, n)},
           \A l \in Locs(t) : IdAt(t, l) = IdAt(s, l) /\ KeyAt(t, l) = KeyAt(s, l),
           \A l \in Locs(t) :
              /\ HasEntry(t, KeyAt(s, l)) <=> HasEntry(s, KeyAt(s, l))
              /\ HasEntry(s, KeyAt(s, l)) => Entry(t, KeyAt(s, l)) = Entry(s, KeyAt(s, l))
    PROVE  Exact(t)
<1> DEFINE from == LocOf(s, n)
<1>2. \A l \in Locs(t) : \E k \in Slots(t) :
         IdAt(t, l) = FreshId(k) /\ GenOf(t, k) = 0 /\ LocOf(t, k) = l
  <2> SUFFICES ASSUME NEW l \in Locs(t)
               PROVE  \E k \in Slots(t) :
                         IdAt(t, l) = FreshId(k) /\ GenOf(t, k) = 0 /\ LocOf(t, k) = l
    OBVIOUS
  <2>1. PICK k \in Slots(s) :
           IdAt(s, l) = FreshId(k) /\ GenOf(s, k) = 0 /\ LocOf(s, k) = l
    BY DEF Exact
  <2>2. k # n
    BY <2>1
  <2> QED
    BY <2>1, <2>2
<1>3. \A k \in Slots(t) :
         \/ LocOf(t, k) = Vacant
         \/ GenOf(t, k) = 0 /\ LocOf(t, k) \in Locs(t)
              /\ IdAt(t, LocOf(t, k)) = FreshId(k)
  <2> SUFFICES ASSUME NEW k \in Slots(t), LocOf(t, k) # Vacant, k # n
               PROVE  GenOf(t, k) = 0 /\ LocOf(t, k) \in Locs(t)
                        /\ IdAt(t, LocOf(t, k)) = FreshId(k)
    OBVIOUS
  <2>1. GenOf(t, k) = GenOf(s, k) /\ LocOf(t, k) = LocOf(s, k)
    OBVIOUS
  <2>2. GenOf(s, k) = 0 /\ LocOf(s, k) \in Locs(s) /\ IdAt(s, LocOf(s, k)) = FreshId(k)
    BY <2>1 DEF Exact
  <2>3. IdAt(s, from) = FreshId(n)
    BY PlaceForms DEF Exact
  <2>4. FreshId(k) # FreshId(n)
    BY DEF FreshId
  <2> QED
    BY <2>1, <2>2, <2>3, <2>4
<1>4. \A l, m \in Locs(s) : KeyAt(s, l) = KeyAt(s, m) => l = m
  BY DEF Exact
<1>5. \A l, m \in Locs(t) : KeyAt(t, l) = KeyAt(t, m) => l = m
  BY <1>4
<1>6. \A l \in Locs(t) :
         IF InOverlay(l)
         THEN HasEntry(t, KeyAt(t, l)) /\ Entry(t, KeyAt(t, l)) = PosOf(l)
         ELSE ~ HasEntry(t, KeyAt(t, l))
  <2>1. ASSUME NEW l \in Locs(s)
        PROVE  IF InOverlay(l)
               THEN HasEntry(s, KeyAt(s, l)) /\ Entry(s, KeyAt(s, l)) = PosOf(l)
               ELSE ~ HasEntry(s, KeyAt(s, l))
    BY DEF Exact
  <2> QED
    BY <2>1
<1> QED
  BY <1>2, <1>3, <1>5, <1>6 DEF Exact

-----------------------------------------------------------------------------
(* The operations of the store                                                 *)

CellShape == {"key", "expr", "cached"}

\* What a new overlay entry changes.
LEMMA Pushed ==
    ASSUME NEW s, NEW t, NEW id, NEW data, NEW tombstone \in BOOLEAN, Shaped(s), Indexed(s),
           DOMAIN data = CellShape, t = PushOverlay(s, id, data, tombstone)
    PROVE  /\ Shaped(t) /\ Indexed(t)
           /\ Slots(t) = Slots(s)
           /\ \A n : GenOf(t, n) = GenOf(s, n) /\ LocOf(t, n) = LocOf(s, n)
           /\ \A T : Within(s, T) /\ Pair(data)[1] \in T => Within(t, T)
           /\ Locs(t) = Locs(s) \cup (IF tombstone THEN {} ELSE {NextPlace(s)})
           /\ \A l \in Locs(s) : /\ IdAt(t, l) = IdAt(s, l) /\ KeyAt(t, l) = KeyAt(s, l)
                                 /\ DataAt(t, l) = DataAt(s, l)
           /\ NextPlace(s) \notin Locs(s) /\ InOverlay(NextPlace(s))
           /\ IdAt(t, NextPlace(s)) = id /\ KeyAt(t, NextPlace(s)) = Pair(data)
           /\ DataAt(t, NextPlace(s)) = data
           /\ HasEntry(t, Pair(data)) /\ Entry(t, Pair(data)) = PosOf(NextPlace(s))
           /\ \A k : k # Pair(data) => /\ HasEntry(t, k) <=> HasEntry(s, k)
                                       /\ HasEntry(s, k) => Entry(t, k) = Entry(s, k)
<1> DEFINE m == Len(s.overlay)
           entry == [id |-> id, data |-> data, tombstone |-> tombstone]
           index == [k \in DOMAIN s.byCell \cup {data.key} |-> IF k = data.key THEN m + 1 ELSE s.byCell[k]]
<1>1. DOMAIN s = Fields /\ IsList(s.overlay) /\ m \in Nat
  BY LivePositions DEF Shaped
<1>2. /\ DOMAIN t = Fields
      /\ t.arena = s.arena /\ t.base = s.base /\ t.shadowed = s.shadowed /\ t.dead = s.dead
      /\ t.pbase = s.pbase /\ t.pshadowed = s.pshadowed /\ t.pdead = s.pdead
      /\ t.overlay = Append(s.overlay, entry) /\ t.byCell = index
  BY <1>1 DEF PushOverlay, Fields
<1>3. /\ IsList(t.overlay) /\ Len(t.overlay) = m + 1
      /\ \A i \in 1 .. m : t.overlay[i] = s.overlay[i]
      /\ t.overlay[m + 1] = entry
  BY <1>1, <1>2, ListAppend
<1>4. /\ DOMAIN t.byCell = DOMAIN s.byCell \cup {data.key}
      /\ t.byCell[data.key] = m + 1
      /\ \A k \in DOMAIN s.byCell : k # data.key => t.byCell[k] = s.byCell[k]
  BY <1>2
<1>5. /\ DOMAIN entry = {"id", "data", "tombstone"} /\ entry.id = id /\ entry.data = data
      /\ entry.tombstone = tombstone
  OBVIOUS
<1> HIDE DEF entry, index
<1>6. \A i \in 1 .. m + 1 : i \in 1 .. m \/ i = m + 1
  BY <1>1
<1>7. /\ DOMAIN t.base = DOMAIN s.base /\ DOMAIN t.pbase = DOMAIN s.pbase
      /\ DOMAIN s.overlay = 1 .. m /\ DOMAIN t.overlay = 1 .. m + 1
  BY <1>1, <1>2, <1>3, ListIsSeq
<1>8. Shaped(t)
  <2>1. \A i \in 1 .. Len(t.overlay) :
          /\ DOMAIN t.overlay[i] = {"id", "data", "tombstone"}
          /\ DOMAIN t.overlay[i].data = {"key", "expr", "cached"}
          /\ t.overlay[i].tombstone \in BOOLEAN
    BY <1>3, <1>5, <1>6 DEF Shaped, CellShape
  <2> QED
    BY <1>2, <1>3, <2>1 DEF Shaped
<1>9. Indexed(t)
  <2> SUFFICES ASSUME NEW k \in DOMAIN t.byCell
               PROVE  t.byCell[k] \in 1 .. m + 1 /\ t.overlay[t.byCell[k]].data.key = k
    BY <1>3 DEF Indexed
  <2>1. CASE k = data.key
    BY <1>1, <1>3, <1>4, <1>5, <2>1
  <2>2. CASE k # data.key
    <3>1. k \in DOMAIN s.byCell /\ t.byCell[k] = s.byCell[k]
      BY <1>4, <2>2
    <3>2. s.byCell[k] \in 1 .. m /\ s.overlay[s.byCell[k]].data.key = k
      BY <3>1 DEF Indexed
    <3> QED
      BY <1>1, <1>3, <3>1, <3>2
  <2> QED
    BY <2>1, <2>2
<1>10. ASSUME NEW T, Within(s, T), data.key[1] \in T
       PROVE  Within(t, T)
  <2>1. \A i \in 1 .. m + 1 : t.overlay[i].data.key[1] \in T
    BY <1>3, <1>5, <1>6, <1>10 DEF Within
  <2> QED
    BY <1>2, <1>3, <1>10, <2>1 DEF Within
<1>11. /\ PackedLive(t) = PackedLive(s) /\ ParamLive(t) = ParamLive(s)
       /\ OverlayLive(t) = OverlayLive(s) \cup (IF tombstone THEN {} ELSE {m + 1})
       /\ OverlayLive(s) \subseteq 1 .. m
  <2>1. PackedLive(t) = PackedLive(s) /\ ParamLive(t) = ParamLive(s)
    BY <1>2 DEF PackedLive, ParamLive
  <2>2. \A i : i \in OverlayLive(t) <=> i \in 1 .. m + 1 /\ ~ t.overlay[i].tombstone
    BY <1>7 DEF OverlayLive
  <2>3. \A i : i \in OverlayLive(s) <=> i \in 1 .. m /\ ~ s.overlay[i].tombstone
    BY <1>7 DEF OverlayLive
  <2>4. \A i \in 1 .. m : i \in 1 .. m + 1
    BY <1>1
  <2>5. m + 1 \in 1 .. m + 1 /\ m + 1 \notin 1 .. m
    BY <1>1
  <2> QED
    BY <1>3, <1>5, <1>6, <2>1, <2>2, <2>3, <2>4, <2>5
<1>12. Locs(t) = Locs(s) \cup (IF tombstone THEN {} ELSE {Overlay(m + 1)})
  BY <1>11 DEF Locs
<1>13. Overlay(m + 1) \notin Locs(s)
  BY <1>1, <1>11, PlaceForms
<1>14. \A l \in Locs(s) : /\ IdAt(t, l) = IdAt(s, l) /\ KeyAt(t, l) = KeyAt(s, l)
                          /\ DataAt(t, l) = DataAt(s, l)
  <2> SUFFICES ASSUME NEW l \in Locs(s)
               PROVE  /\ IdAt(t, l) = IdAt(s, l) /\ KeyAt(t, l) = KeyAt(s, l)
                      /\ DataAt(t, l) = DataAt(s, l)
    OBVIOUS
  <2>1. l.at = "packed" \/ l.at = "param" \/ (l.at = "overlay" /\ l.pos \in 1 .. m)
    BY <1>11, PlaceForms
  <2> QED
    BY <1>2, <1>3, <2>1 DEF IdAt, KeyAt, DataAt, PackedData, ParamData, OverlayData
<1>15. /\ IdAt(t, Overlay(m + 1)) = id /\ KeyAt(t, Overlay(m + 1)) = data.key
       /\ DataAt(t, Overlay(m + 1)) = data
  <2>1. Overlay(m + 1).at = "overlay" /\ Overlay(m + 1).pos = m + 1
    BY DEF Overlay
  <2> QED
    BY <1>3, <1>5, <2>1 DEF IdAt, KeyAt, DataAt, OverlayData
<1>16. NextPlace(s) = Overlay(m + 1) /\ InOverlay(NextPlace(s)) /\ PosOf(NextPlace(s)) = m + 1
  BY DEF NextPlace, InOverlay, PosOf, Overlay
<1>17. Slots(t) = Slots(s) /\ \A n : GenOf(t, n) = GenOf(s, n) /\ LocOf(t, n) = LocOf(s, n)
  BY <1>2 DEF Slots, GenOf, LocOf
<1>18. /\ HasEntry(t, Pair(data)) /\ Entry(t, Pair(data)) = m + 1
       /\ \A k : k # Pair(data) => /\ HasEntry(t, k) <=> HasEntry(s, k)
                                   /\ HasEntry(s, k) => Entry(t, k) = Entry(s, k)
  BY <1>4 DEF HasEntry, Entry, Pair
<1>19. data.key = Pair(data)
  BY DEF Pair
<1> QED
  BY <1>8, <1>9, <1>10, <1>12, <1>13, <1>14, <1>15, <1>16, <1>17, <1>18, <1>19

\* A new entry that holds a cell is a place.
LEMMA PushedLive ==
    ASSUME NEW s, NEW t, NEW id, NEW data, NEW b \in BOOLEAN, ~ b, Shaped(s), Indexed(s),
           DOMAIN data = CellShape, t = PushOverlay(s, id, data, b)
    PROVE  /\ Shaped(t) /\ Indexed(t)
           /\ Slots(t) = Slots(s)
           /\ \A n : GenOf(t, n) = GenOf(s, n) /\ LocOf(t, n) = LocOf(s, n)
           /\ \A T : Within(s, T) /\ Pair(data)[1] \in T => Within(t, T)
           /\ Locs(t) = Locs(s) \cup {NextPlace(s)}
           /\ \A l \in Locs(s) : /\ IdAt(t, l) = IdAt(s, l) /\ KeyAt(t, l) = KeyAt(s, l)
                                 /\ DataAt(t, l) = DataAt(s, l)
           /\ NextPlace(s) \notin Locs(s) /\ InOverlay(NextPlace(s))
           /\ IdAt(t, NextPlace(s)) = id /\ KeyAt(t, NextPlace(s)) = Pair(data)
           /\ DataAt(t, NextPlace(s)) = data
           /\ HasEntry(t, Pair(data)) /\ Entry(t, Pair(data)) = PosOf(NextPlace(s))
           /\ \A k : k # Pair(data) => /\ HasEntry(t, k) <=> HasEntry(s, k)
                                       /\ HasEntry(s, k) => Entry(t, k) = Entry(s, k)
<1>1. Locs(s) \cup (IF b THEN {} ELSE {NextPlace(s)})
         = Locs(s) \cup {NextPlace(s)}
  OBVIOUS
<1> QED
  BY <1>1, Pushed

IsTrue(b) == b = TRUE

\* A new tombstone is none.
LEMMA PushedTombstone ==
    ASSUME NEW s, NEW t, NEW id, NEW data, NEW b, IsTrue(b), Shaped(s), Indexed(s),
           DOMAIN data = CellShape, t = PushOverlay(s, id, data, b)
    PROVE  /\ Shaped(t) /\ Indexed(t)
           /\ Slots(t) = Slots(s)
           /\ \A n : GenOf(t, n) = GenOf(s, n) /\ LocOf(t, n) = LocOf(s, n)
           /\ \A T : Within(s, T) /\ Pair(data)[1] \in T => Within(t, T)
           /\ Locs(t) = Locs(s)
           /\ \A l \in Locs(s) : /\ IdAt(t, l) = IdAt(s, l) /\ KeyAt(t, l) = KeyAt(s, l)
                                 /\ DataAt(t, l) = DataAt(s, l)
           /\ HasEntry(t, Pair(data)) /\ Entry(t, Pair(data)) = PosOf(NextPlace(s))
           /\ \A k : k # Pair(data) => /\ HasEntry(t, k) <=> HasEntry(s, k)
                                       /\ HasEntry(s, k) => Entry(t, k) = Entry(s, k)
<1>1. b \in BOOLEAN
  BY DEF IsTrue
<1>2. Locs(t) = Locs(s) \cup (IF b THEN {} ELSE {NextPlace(s)})
  BY <1>1, Pushed
<1>3. Locs(t) = Locs(s)
  BY <1>2 DEF IsTrue
<1> QED
  BY <1>1, <1>3, Pushed

\* A cell as the map of pairs shows it.
MapCell(key, id, expr) == [key |-> key, id |-> id, expr |-> expr]

\* The cells of a store: pair, identity and expression.
Cells(s) ==
    {MapCell(KeyAt(s, l), IdAt(s, l), DataAt(s, l).expr) : l \in Locs(s)}

\* No two cells share an identity, and the identities of cells were handed out.
LEMMA OneIdEach ==
    ASSUME NEW s, Exact(s)
    PROVE  /\ \A l, m \in Locs(s) : IdAt(s, l) = IdAt(s, m) => l = m
           /\ \A l \in Locs(s) : \E n \in Slots(s) : IdAt(s, l) = FreshId(n)
<1>1. \A l \in Locs(s) : \E n \in Slots(s) :
         IdAt(s, l) = FreshId(n) /\ LocOf(s, n) = l
  BY DEF Exact
<1>2. \A n, k : FreshId(n) = FreshId(k) => n = k
  BY DEF FreshId
<1> QED
  BY <1>1, <1>2

\* One slot of the arena is written.
LEMMA SlotWritten ==
    ASSUME NEW s, NEW u, NEW n \in Slots(s), NEW slot, Shaped(s),
           DOMAIN slot = {"gen", "loc"}, slot.gen \in Nat,
           u.arena = Updated(s.arena, n, slot)
    PROVE  /\ IsList(u.arena) /\ Slots(u) = Slots(s)
           /\ \A k \in Slots(u) : DOMAIN u.arena[k] = {"gen", "loc"} /\ u.arena[k].gen \in Nat
           /\ GenOf(u, n) = slot.gen /\ LocOf(u, n) = slot.loc
           /\ \A k \in Slots(s) : k # n => GenOf(u, k) = GenOf(s, k) /\ LocOf(u, k) = LocOf(s, k)
<1> DEFINE q == s.arena
           r == u.arena
<1>1. r = Updated(q, n, slot)
  OBVIOUS
<1>2. IsList(q) /\ \A k \in 1 .. Len(q) : DOMAIN q[k] = {"gen", "loc"} /\ q[k].gen \in Nat
  BY DEF Shaped, Slots
<1>3. n \in 1 .. Len(q)
  BY DEF Slots
<1> HIDE DEF q, r
<1>4. /\ IsList(r) /\ Len(r) = Len(q)
      /\ \A i \in 1 .. Len(q) : r[i] = IF i = n THEN slot ELSE q[i]
  BY <1>1, <1>2, ListUpdate
<1>5. r[n] = slot /\ \A k \in 1 .. Len(q) : k # n => r[k] = q[k]
  BY <1>3, <1>4
<1>6. \A k \in 1 .. Len(r) : DOMAIN r[k] = {"gen", "loc"} /\ r[k].gen \in Nat
  BY <1>2, <1>4
<1>7. Slots(s) = 1 .. Len(q) /\ Slots(u) = 1 .. Len(r)
  BY DEF Slots, q, r
<1>8. \A k : GenOf(s, k) = q[k].gen /\ LocOf(s, k) = q[k].loc
               /\ GenOf(u, k) = r[k].gen /\ LocOf(u, k) = r[k].loc
  BY DEF GenOf, LocOf, q, r
<1>9. /\ IsList(r) /\ Slots(u) = Slots(s)
      /\ \A k \in Slots(u) : DOMAIN r[k] = {"gen", "loc"} /\ r[k].gen \in Nat
      /\ GenOf(u, n) = slot.gen /\ LocOf(u, n) = slot.loc
      /\ \A k \in Slots(s) : k # n => GenOf(u, k) = GenOf(s, k) /\ LocOf(u, k) = LocOf(s, k)
  BY <1>4, <1>5, <1>6, <1>7, <1>8
<1> QED
  BY <1>9 DEF r

\* A list of slots.
SlotList(q) ==
    IsList(q) /\ \A k \in 1 .. Len(q) : DOMAIN q[k] = {"gen", "loc"} /\ q[k].gen \in Nat

\* What a list of slots holds.
GenIn(q, k) == q[k].gen
LocIn(q, k) == q[k].loc
SlotAfter(s, k) == Len(s.arena) + k

\* A list is appended to the arena.
LEMMA SlotsAppended ==
    ASSUME NEW s, NEW u, NEW more, Shaped(s), SlotList(more), u.arena = Joined(s.arena, more)
    PROVE  /\ IsList(u.arena) /\ Slots(s) \subseteq Slots(u)
           /\ \A n : n \in Slots(u) /\ n \notin Slots(s) <=>
                        \E k \in 1 .. Len(more) : n = Len(s.arena) + k
           /\ \A k \in Slots(u) : DOMAIN u.arena[k] = {"gen", "loc"} /\ u.arena[k].gen \in Nat
           /\ \A k \in 1 .. Len(more) : /\ GenOf(u, SlotAfter(s, k)) = GenIn(more, k)
                                        /\ LocOf(u, SlotAfter(s, k)) = LocIn(more, k)
           /\ \A k \in Slots(s) : GenOf(u, k) = GenOf(s, k) /\ LocOf(u, k) = LocOf(s, k)
<1> DEFINE q == s.arena
           r == u.arena
<1>2. r = Joined(q, more) /\ IsList(more)
  BY DEF SlotList
<1>3. IsList(q) /\ \A k \in 1 .. Len(q) : DOMAIN q[k] = {"gen", "loc"} /\ q[k].gen \in Nat
  BY DEF Shaped, Slots
<1>4. Slots(s) = 1 .. Len(q) /\ Slots(u) = 1 .. Len(r) /\ Len(s.arena) = Len(q)
  BY DEF Slots
<1>5. \A k : GenOf(s, k) = q[k].gen /\ LocOf(s, k) = q[k].loc
               /\ GenOf(u, k) = r[k].gen /\ LocOf(u, k) = r[k].loc
  BY DEF GenOf, LocOf
<1> HIDE DEF q, r
<1>6. Len(q) \in Nat /\ Len(more) \in Nat
  BY <1>2, <1>3 DEF IsList
<1>7. /\ IsList(r) /\ Len(r) = Len(q) + Len(more)
      /\ \A i \in 1 .. Len(q) : r[i] = q[i]
      /\ \A i \in 1 .. Len(more) : r[Len(q) + i] = more[i]
      /\ \A i \in 1 .. Len(r) : i \in 1 .. Len(q) \/ \E k \in 1 .. Len(more) : i = Len(q) + k
  BY <1>2, <1>3, ListJoin
<1>8. \A i \in 1 .. Len(q) : i \in 1 .. Len(r)
  BY <1>6, <1>7
<1>9. \A k \in 1 .. Len(more) : Len(q) + k \in 1 .. Len(r) /\ Len(q) + k \notin 1 .. Len(q)
  BY <1>6, <1>7
<1>10. \A k \in 1 .. Len(r) : DOMAIN r[k] = {"gen", "loc"} /\ r[k].gen \in Nat
  <2> SUFFICES ASSUME NEW k \in 1 .. Len(r)
               PROVE  DOMAIN r[k] = {"gen", "loc"} /\ r[k].gen \in Nat
    OBVIOUS
  <2>1. CASE k \in 1 .. Len(q)
    <3>1. r[k] = q[k]
      BY <1>7, <2>1
    <3> QED
      BY <1>3, <2>1, <3>1
  <2>2. CASE \E i \in 1 .. Len(more) : k = Len(q) + i
    <3>1. PICK i \in 1 .. Len(more) : k = Len(q) + i
      BY <2>2
    <3>2. r[k] = more[i]
      BY <1>7, <3>1
    <3> QED
      BY <3>2 DEF SlotList
  <2> QED
    BY <1>7, <2>1, <2>2
<1>1. \A k \in 1 .. Len(more) : /\ GenOf(u, SlotAfter(s, k)) = GenIn(more, k)
                                 /\ LocOf(u, SlotAfter(s, k)) = LocIn(more, k)
  <2> SUFFICES ASSUME NEW k \in 1 .. Len(more)
               PROVE  /\ GenOf(u, SlotAfter(s, k)) = GenIn(more, k)
                      /\ LocOf(u, SlotAfter(s, k)) = LocIn(more, k)
    OBVIOUS
  <2>1. r[SlotAfter(s, k)] = more[k]
    BY <1>4, <1>7 DEF SlotAfter
  <2> QED
    BY <1>5, <2>1 DEF GenIn, LocIn
<1>11. /\ IsList(r) /\ Slots(s) \subseteq Slots(u)
       /\ \A k \in Slots(u) : DOMAIN r[k] = {"gen", "loc"} /\ r[k].gen \in Nat
       /\ \A k \in Slots(s) : GenOf(u, k) = GenOf(s, k) /\ LocOf(u, k) = LocOf(s, k)
       /\ \A k \in 1 .. Len(more) : /\ GenOf(u, SlotAfter(s, k)) = GenIn(more, k)
                                    /\ LocOf(u, SlotAfter(s, k)) = LocIn(more, k)
  <2>1. IsList(r) /\ Slots(s) \subseteq Slots(u)
    BY <1>4, <1>7, <1>8
  <2>2. \A k \in Slots(u) : DOMAIN r[k] = {"gen", "loc"} /\ r[k].gen \in Nat
    BY <1>4, <1>10
  <2>3. \A k \in Slots(s) : GenOf(u, k) = GenOf(s, k) /\ LocOf(u, k) = LocOf(s, k)
    BY <1>4, <1>5, <1>7
  <2> QED
    BY <1>1, <2>1, <2>2, <2>3
<1>12. \A n : n \in Slots(u) /\ n \notin Slots(s) <=> \E k \in 1 .. Len(more) : n = Len(q) + k
  BY <1>4, <1>7, <1>9
<1> QED
  BY <1>4, <1>11, <1>12 DEF r

\* What is appended is found after what was there, slot by slot.
LEMMA SlotsHold ==
    ASSUME NEW s, NEW u, NEW more, Shaped(s), SlotList(more), u.arena = Joined(s.arena, more),
           NEW k, k \in 1 .. Len(more)
    PROVE  GenOf(u, SlotAfter(s, k)) = GenIn(more, k) /\ LocOf(u, SlotAfter(s, k)) = LocIn(more, k)
<1> DEFINE q == s.arena
           r == u.arena
<1>1. IsList(q) /\ IsList(more) /\ r = Joined(q, more)
  BY DEF SlotList, Shaped
<1>2. GenOf(u, SlotAfter(s, k)) = r[SlotAfter(s, k)].gen /\ LocOf(u, SlotAfter(s, k)) = r[SlotAfter(s, k)].loc
  BY DEF GenOf, LocOf
<1>3. SlotAfter(s, k) = Len(q) + k
  BY DEF SlotAfter
<1> HIDE DEF q, r
<1>4. \A i \in 1 .. Len(more) : r[Len(q) + i] = more[i]
  BY <1>1, ListJoin
<1>5. r[SlotAfter(s, k)] = more[k]
  BY <1>3, <1>4
<1> QED
  BY <1>2, <1>5 DEF GenIn, LocIn

\* add, for a pair that has no cell: one more cell, with a fresh identity.
LEMMA AddFreshOK ==
    ASSUME NEW s, NEW T, NEW key, NEW expr, NEW value, NEW t, StoreOK(s, T), key[1] \in T,
           \A l \in Locs(s) : KeyAt(s, l) # key, t = AddFresh(s, key, expr, value)
    PROVE  /\ StoreOK(t, T)
           /\ Slots(t) = Slots(s) \cup {NextSlot(s)} /\ NextSlot(s) \notin Slots(s)
           /\ Cells(t) = Cells(s) \cup {MapCell(key, FreshId(NextSlot(s)), expr)}
<1> DEFINE new == NextPlace(s)
           a == NextSlot(s)
           data == Data(key, expr, value)
           u == [s EXCEPT !.arena = Append(@, Slot(new)), !.live = @ + 1]
           more == <<Slot(new)>>
<1>1. Shaped(s) /\ Indexed(s) /\ Within(s, T) /\ Exact(s) /\ DOMAIN s = Fields
  BY DEF StoreOK, Shaped
<1>2. PICK b \in BOOLEAN : ~ b /\ t = PushOverlay(u, FreshId(a), data, b)
  BY Zenon DEF AddFresh, NextSlot, NextPlace
<1>3. /\ DOMAIN u = Fields /\ u.arena = Append(s.arena, Slot(new))
      /\ u.base = s.base /\ u.shadowed = s.shadowed /\ u.dead = s.dead
      /\ u.pbase = s.pbase /\ u.pshadowed = s.pshadowed /\ u.pdead = s.pdead
      /\ u.overlay = s.overlay /\ u.byCell = s.byCell
  <2> HIDE DEF new
  <2> QED
    BY <1>1 DEF Fields
<1>4. DOMAIN data = CellShape /\ Pair(data) = key /\ data.expr = expr
  BY DEF Data, CellShape, Pair
<1>5. /\ IsList(more) /\ Len(more) = 1 /\ more[1].gen = 0 /\ more[1].loc = new
      /\ \A k \in 1 .. Len(more) : DOMAIN more[k] = {"gen", "loc"} /\ more[k].gen \in Nat
  <2> HIDE DEF new
  <2>1. IsList(more) /\ Len(more) = 1 /\ more[1] = Slot(new)
    BY DEF IsList
  <2>2. DOMAIN Slot(new) = {"gen", "loc"} /\ Slot(new).gen = 0 /\ Slot(new).loc = new
    BY DEF Slot
  <2> HIDE DEF more
  <2> QED
    BY <2>1, <2>2
<1>6. u.arena = Joined(s.arena, more)
  <2>1. s.arena \in Seq(Elements(s.arena))
    BY <1>1, ListIsSeq DEF Shaped
  <2> QED
    BY <1>3, <2>1 DEF Joined
<1> HIDE DEF u, data, new, more
<1>7. /\ IsList(u.arena) /\ Slots(s) \subseteq Slots(u)
      /\ \A n : n \in Slots(u) /\ n \notin Slots(s) <=> n = a
      /\ \A k \in Slots(u) : DOMAIN u.arena[k] = {"gen", "loc"} /\ u.arena[k].gen \in Nat
      /\ GenOf(u, a) = 0 /\ LocOf(u, a) = new
      /\ \A k \in Slots(s) : GenOf(u, k) = GenOf(s, k) /\ LocOf(u, k) = LocOf(s, k)
  <2>1. /\ IsList(u.arena) /\ Slots(s) \subseteq Slots(u)
        /\ \A n : n \in Slots(u) /\ n \notin Slots(s) <=>
                     \E k \in 1 .. Len(more) : n = Len(s.arena) + k
        /\ \A k \in Slots(u) : DOMAIN u.arena[k] = {"gen", "loc"} /\ u.arena[k].gen \in Nat
        /\ \A k \in 1 .. Len(more) : /\ GenOf(u, SlotAfter(s, k)) = GenIn(more, k)
                                     /\ LocOf(u, SlotAfter(s, k)) = LocIn(more, k)
        /\ \A k \in Slots(s) : GenOf(u, k) = GenOf(s, k) /\ LocOf(u, k) = LocOf(s, k)
    <3>1. SlotList(more)
      BY <1>5 DEF SlotList
    <3> QED
      BY <1>1, <1>6, <3>1, SlotsAppended
  <2>2. GenOf(u, a) = 0 /\ LocOf(u, a) = new
    BY <1>5, <2>1 DEF NextSlot, GenIn, LocIn, SlotAfter
  <2>3. \A n : (\E k \in 1 .. Len(more) : n = Len(s.arena) + k) <=> n = a
    BY <1>5 DEF NextSlot
  <2> QED
    BY <2>1, <2>2, <2>3
<1>8. Shaped(u)
  BY <1>1, <1>3, <1>7 DEF Shaped, Slots
<1>9. Indexed(u) /\ Within(u, T)
  BY <1>1, <1>3 DEF Indexed, Within
<1>10. /\ Locs(u) = Locs(s)
       /\ \A l : IdAt(u, l) = IdAt(s, l) /\ KeyAt(u, l) = KeyAt(s, l) /\ DataAt(u, l) = DataAt(s, l)
       /\ \A k : HasEntry(u, k) = HasEntry(s, k) /\ Entry(u, k) = Entry(s, k)
       /\ NextPlace(u) = new
  BY <1>3 DEF Locs, PackedLive, ParamLive, OverlayLive, IdAt, KeyAt, DataAt, PackedData, ParamData,
     OverlayData, HasEntry, Entry, NextPlace, new
<1>11. /\ Shaped(t) /\ Indexed(t) /\ Within(t, T)
       /\ Slots(t) = Slots(u) /\ \A n : GenOf(t, n) = GenOf(u, n) /\ LocOf(t, n) = LocOf(u, n)
       /\ Locs(t) = Locs(s) \cup {new} /\ new \notin Locs(s) /\ InOverlay(new)
       /\ \A l \in Locs(s) : /\ IdAt(t, l) = IdAt(s, l) /\ KeyAt(t, l) = KeyAt(s, l)
                             /\ DataAt(t, l) = DataAt(s, l)
       /\ IdAt(t, new) = FreshId(a) /\ KeyAt(t, new) = key /\ DataAt(t, new) = data
       /\ HasEntry(t, key) /\ Entry(t, key) = PosOf(new)
       /\ \A k : k # key => /\ HasEntry(t, k) <=> HasEntry(s, k)
                            /\ HasEntry(s, k) => Entry(t, k) = Entry(s, k)
  <2>1. Pair(data)[1] \in T
    BY <1>4
  <2> QED
    BY <1>2, <1>4, <1>8, <1>9, <1>10, <2>1, PushedLive
<1>12. Exact(t)
  <2>1. Slots(s) \subseteq Slots(t) /\ a \in Slots(t) /\ a \notin Slots(s)
    BY <1>7, <1>11
  <2>2. \A n \in Slots(s) : GenOf(t, n) = GenOf(s, n) /\ LocOf(t, n) = LocOf(s, n)
    BY <1>7, <1>11
  <2>3. \A n \in Slots(t) : n \notin Slots(s) =>
           /\ GenOf(t, n) = 0 /\ LocOf(t, n) \in Locs(t)
           /\ IdAt(t, LocOf(t, n)) = FreshId(n)
    BY <1>7, <1>11
  <2>4. \A l \in Locs(t) \ Locs(s) : l = new
    BY <1>11
  <2>5. \A l \in Locs(t) \ Locs(s) : \E n \in Slots(t) : n \notin Slots(s) /\ LocOf(t, n) = l
    BY <1>7, <1>11, <2>1, <2>4
  <2>6. \A l, m \in Locs(t) \ Locs(s) : KeyAt(t, l) = KeyAt(t, m) => l = m
    BY <2>4
  <2>7. \A l \in Locs(t) \ Locs(s), m \in Locs(s) : KeyAt(t, l) # KeyAt(s, m)
    BY <1>11, <2>4
  <2>8. \A l \in Locs(s) :
           /\ HasEntry(t, KeyAt(s, l)) <=> HasEntry(s, KeyAt(s, l))
           /\ HasEntry(s, KeyAt(s, l)) => Entry(t, KeyAt(s, l)) = Entry(s, KeyAt(s, l))
    BY <1>11
  <2>9. \A l \in Locs(t) \ Locs(s) :
           IF InOverlay(l)
           THEN HasEntry(t, KeyAt(t, l)) /\ Entry(t, KeyAt(t, l)) = PosOf(l)
           ELSE ~ HasEntry(t, KeyAt(t, l))
    BY <1>11, <2>4
  <2>10. /\ Locs(s) \subseteq Locs(t)
         /\ \A l \in Locs(s) : IdAt(t, l) = IdAt(s, l) /\ KeyAt(t, l) = KeyAt(s, l)
    BY <1>11
  <2> QED
    BY <1>1, <2>1, <2>2, <2>3, <2>5, <2>6, <2>7, <2>8, <2>9, <2>10, Gains
<1>13. Cells(t) = Cells(s) \cup {MapCell(key, FreshId(a), expr)}
  BY <1>4, <1>11 DEF Cells
<1>14. Slots(t) = Slots(s) \cup {a} /\ a \notin Slots(s)
  BY <1>7, <1>11
<1> QED
  BY <1>11, <1>12, <1>13, <1>14 DEF StoreOK

\* The place of a live cell is where its identity resolves to.
LEMMA GetsPlace ==
    ASSUME NEW s, Shaped(s), Exact(s), NEW n \in Slots(s), LocOf(s, n) \in Locs(s)
    PROVE  /\ Resolve(s, FreshId(n)) = LocOf(s, n)
           /\ Get(s, FreshId(n)) = {DataAt(s, LocOf(s, n))}
           /\ Pair(DataAt(s, LocOf(s, n))) = KeyAt(s, LocOf(s, n))
           /\ IdAt(s, LocOf(s, n)) = FreshId(n) /\ GenOf(s, n) = 0
<1> DEFINE l == LocOf(s, n)
<1>1. GenOf(s, n) = 0 /\ IdAt(s, l) = FreshId(n)
  BY PlaceForms DEF Exact
<1>2. DOMAIN s.arena = Slots(s)
  BY LivePositions
<1>3. Resolve(s, FreshId(n)) = l
  BY <1>1, <1>2 DEF Resolve, FreshId, GenOf, LocOf
<1>4. l \in Locs(s)
  OBVIOUS
<1> HIDE DEF l
<1>5. \/ l.at = "packed" /\ l.pos \in PackedLive(s)
      \/ l.at = "param" /\ l.pos \in ParamLive(s)
      \/ l.at = "overlay" /\ l.pos \in OverlayLive(s)
  BY <1>4, PlaceForms
<1>6. Get(s, FreshId(n)) = {DataAt(s, l)}
  <2>1. CASE l.at = "packed"
    <3>1. Get(s, FreshId(n)) = {PackedData(s, i) : i \in {l.pos} \cap PackedLive(s)}
      BY <1>3, <2>1 DEF Get
    <3>2. {l.pos} \cap PackedLive(s) = {l.pos}
      BY <1>5, <2>1
    <3> QED
      BY <2>1, <3>1, <3>2 DEF DataAt
  <2>2. CASE l.at = "param"
    <3>1. Get(s, FreshId(n)) = {ParamData(s, i) : i \in {l.pos} \cap ParamLive(s)}
      BY <1>3, <2>2 DEF Get
    <3>2. {l.pos} \cap ParamLive(s) = {l.pos}
      BY <1>5, <2>2
    <3> QED
      BY <2>2, <3>1, <3>2 DEF DataAt
  <2>3. CASE l.at = "overlay"
    <3>1. Get(s, FreshId(n)) = {OverlayData(s, i) : i \in {l.pos} \cap OverlayLive(s)}
      BY <1>3, <2>3 DEF Get
    <3>2. {l.pos} \cap OverlayLive(s) = {l.pos}
      BY <1>5, <2>3
    <3> QED
      BY <2>3, <3>1, <3>2 DEF DataAt
  <2> QED
    BY <1>5, <2>1, <2>2, <2>3
<1>7. Pair(DataAt(s, l)) = KeyAt(s, l)
  BY DEF DataAt, KeyAt, PackedData, ParamData, OverlayData, Data, Pair
<1> QED
  BY <1>1, <1>3, <1>6, <1>7 DEF l

\* The shadowed or removed positions of the bases are not places any more, and
\* those of the rest of the store stay what they are.
LEMMA Hides ==
    ASSUME NEW s, NEW u, NEW from \in Locs(s), ~ InOverlay(from), Shaped(s),
           u.base = s.base, u.pbase = s.pbase, u.overlay = s.overlay,
           u.shadowed \cup u.dead = s.shadowed \cup s.dead \cup
              (IF from.at = "packed" THEN {from.pos} ELSE {}),
           u.pshadowed \cup u.pdead = s.pshadowed \cup s.pdead \cup
              (IF from.at = "param" THEN {from.pos} ELSE {})
    PROVE  /\ Locs(u) = Locs(s) \ {from}
           /\ \A l : IdAt(u, l) = IdAt(s, l) /\ KeyAt(u, l) = KeyAt(s, l) /\ DataAt(u, l) = DataAt(s, l)
           /\ NextPlace(u) = NextPlace(s)
<1>1. \A l : IdAt(u, l) = IdAt(s, l) /\ KeyAt(u, l) = KeyAt(s, l) /\ DataAt(u, l) = DataAt(s, l)
  BY DEF IdAt, KeyAt, DataAt, PackedData, ParamData, OverlayData
<1>2. OverlayLive(u) = OverlayLive(s) /\ NextPlace(u) = NextPlace(s)
  BY DEF OverlayLive, NextPlace
<1>3. \/ from.at = "packed" /\ from = Packed(from.pos) /\ from.pos \in PackedLive(s)
      \/ from.at = "param" /\ from = ParamBase(from.pos) /\ from.pos \in ParamLive(s)
  BY PlaceForms DEF InOverlay
<1>4. \A i, j : /\ Packed(i) = Packed(j) => i = j
                /\ ParamBase(i) = ParamBase(j) => i = j
                /\ Packed(i) # ParamBase(j) /\ Packed(i) # Overlay(j) /\ ParamBase(i) # Overlay(j)
  BY DEF Packed, ParamBase, Overlay
<1>5. CASE from.at = "packed"
  <2>1. PackedLive(u) = PackedLive(s) \ {from.pos} /\ ParamLive(u) = ParamLive(s)
    BY <1>5 DEF PackedLive, ParamLive
  <2>2. \A l : l \in Locs(u) <=> l \in Locs(s) /\ l # from
    BY <1>2, <1>3, <1>4, <1>5, <2>1 DEF Locs
  <2> QED
    BY <1>1, <1>2, <2>2
<1>6. CASE from.at = "param"
  <2>1. ParamLive(u) = ParamLive(s) \ {from.pos} /\ PackedLive(u) = PackedLive(s)
    BY <1>6 DEF PackedLive, ParamLive
  <2>2. \A l : l \in Locs(u) <=> l \in Locs(s) /\ l # from
    BY <1>2, <1>3, <1>4, <1>6, <2>1 DEF Locs
  <2> QED
    BY <1>1, <1>2, <2>2
<1> QED
  BY <1>3, <1>5, <1>6

\* The cells with the one at n replaced by one with another expression.
Replaced(s, n, expr) ==
    {c \in Cells(s) : c.id # FreshId(n)}
      \cup {MapCell(KeyAt(s, LocOf(s, n)), FreshId(n), expr)}

\* The cells other than the one at n are those of the other places.
LEMMA OtherCells ==
    ASSUME NEW s, Exact(s), NEW n \in Slots(s), LocOf(s, n) \in Locs(s)
    PROVE  {c \in Cells(s) : c.id # FreshId(n)} =
              {MapCell(KeyAt(s, l), IdAt(s, l), DataAt(s, l).expr) : l \in Locs(s) \ {LocOf(s, n)}}
<1> DEFINE from == LocOf(s, n)
           C(l) == MapCell(KeyAt(s, l), IdAt(s, l), DataAt(s, l).expr)
<1>1. IdAt(s, from) = FreshId(n)
  BY PlaceForms DEF Exact
<1>2. \A k \in Locs(s) : k # from <=> IdAt(s, k) # FreshId(n)
  BY <1>1, OneIdEach
<1>3. \A l : C(l).id = IdAt(s, l)
  BY DEF MapCell
<1>4. Cells(s) = {C(l) : l \in Locs(s)}
  BY DEF Cells
<1> HIDE DEF C
<1> QED
  BY <1>2, <1>3, <1>4 DEF C

\* shadow: a packed cell moves to the overlay and keeps pair and identity.
LEMMA ShadowOK ==
    ASSUME NEW s, NEW T, NEW n \in Slots(s), NEW expr, NEW cached, NEW t,
           StoreOK(s, T), LocOf(s, n) \in Locs(s), ~ InOverlay(LocOf(s, n)),
           t = Shadow(s, FreshId(n), expr, cached)
    PROVE  StoreOK(t, T) /\ Slots(t) = Slots(s) /\ Cells(t) = Replaced(s, n, expr)
<1> DEFINE l == LocOf(s, n)
           new == NextPlace(s)
           slot == [s.arena[n] EXCEPT !.loc = new]
           data == Data(KeyAt(s, l), expr, cached)
           h == IF l.at = "packed"
                THEN [s EXCEPT !.shadowed = @ \cup {l.pos}]
                ELSE UnlinkParamPosition([s EXCEPT !.pshadowed = @ \cup {l.pos}], l.pos)
           u == [h EXCEPT !.arena[n].loc = new]
<1>1. Shaped(s) /\ Indexed(s) /\ Within(s, T) /\ Exact(s) /\ DOMAIN s = Fields
  BY DEF StoreOK, Shaped
<1>2. l \in Locs(s) /\ ~ InOverlay(l) /\ IdAt(s, l) = FreshId(n)
  BY <1>1, GetsPlace
<1>3. PICK b \in BOOLEAN : ~ b /\ t = PushOverlay(u, FreshId(n), data, b)
  <2>1. Resolve(s, FreshId(n)) = l /\ Get(s, FreshId(n)) = {DataAt(s, l)} /\ Pair(DataAt(s, l)) = KeyAt(s, l)
    BY <1>1, GetsPlace
  <2> HIDE DEF l
  <2>2. (CHOOSE d \in Get(s, FreshId(n)) : TRUE).key = KeyAt(s, l)
    BY <2>1 DEF Pair
  <2>3. FreshId(n)[1] = n
    BY DEF FreshId
  <2> QED
    BY <2>1, <2>2, <2>3, Zenon DEF Shadow, NextPlace
<1> HIDE DEF l
<1>4. KeyAt(s, l)[1] \in T
  BY <1>1, <1>2, PlaceForms, LivePositions DEF Within, KeyAt
<1>5. /\ DOMAIN h = Fields /\ h.arena = s.arena /\ h.base = s.base /\ h.dead = s.dead
      /\ h.pbase = s.pbase /\ h.pdead = s.pdead /\ h.overlay = s.overlay /\ h.byCell = s.byCell
      /\ h.shadowed = s.shadowed \cup (IF l.at = "packed" THEN {l.pos} ELSE {})
      /\ h.pshadowed = s.pshadowed \cup (IF l.at = "packed" THEN {} ELSE {l.pos})
  BY <1>1 DEF UnlinkParamPosition, Fields
<1> HIDE DEF h, new
<1>6. /\ DOMAIN u = Fields /\ u.base = s.base /\ u.dead = s.dead
      /\ u.pbase = s.pbase /\ u.pdead = s.pdead /\ u.overlay = s.overlay /\ u.byCell = s.byCell
      /\ u.shadowed = h.shadowed /\ u.pshadowed = h.pshadowed
      /\ u.arena = [s.arena EXCEPT ![n] = slot]
  BY <1>5 DEF Fields
<1> HIDE DEF u
<1>7. DOMAIN slot = {"gen", "loc"} /\ slot.gen = 0 /\ slot.loc = new
  <2>1. DOMAIN s.arena[n] = {"gen", "loc"}
    BY <1>1 DEF Shaped, Slots
  <2>2. s.arena[n].gen = 0
    BY <1>1, <1>2, GetsPlace DEF GenOf, l
  <2> QED
    BY <2>1, <2>2
<1> HIDE DEF slot, data
<1>8. /\ IsList(u.arena) /\ Slots(u) = Slots(s)
      /\ \A k \in Slots(u) : DOMAIN u.arena[k] = {"gen", "loc"} /\ u.arena[k].gen \in Nat
      /\ GenOf(u, n) = 0 /\ LocOf(u, n) = new
      /\ \A k \in Slots(s) : k # n => GenOf(u, k) = GenOf(s, k) /\ LocOf(u, k) = LocOf(s, k)
  <2>1. slot.gen \in Nat
    BY <1>7
  <2>2. u.arena = Updated(s.arena, n, slot)
    BY <1>6 DEF Updated
  <2> QED
    BY <1>1, <1>7, <2>1, <2>2, SlotWritten
<1>9. Shaped(u) /\ Indexed(u) /\ Within(u, T)
  <2>1. \/ l.at = "packed" /\ l.pos \in 1 .. Len(s.base)
        \/ l.at = "param" /\ l.pos \in 1 .. Len(s.pbase)
    BY <1>1, <1>2, PlaceForms, LivePositions DEF InOverlay
  <2>2. /\ u.shadowed \cup u.dead \subseteq 1 .. Len(u.base)
        /\ u.pshadowed \cup u.pdead \subseteq 1 .. Len(u.pbase)
    BY <1>1, <1>5, <1>6, <2>1 DEF Shaped
  <2>3. Shaped(u)
    BY <1>1, <1>6, <1>8, <2>2 DEF Shaped, Slots
  <2> QED
    BY <1>1, <1>6, <2>3 DEF Indexed, Within
<1>10. /\ Locs(u) = Locs(s) \ {l}
       /\ \A k : IdAt(u, k) = IdAt(s, k) /\ KeyAt(u, k) = KeyAt(s, k) /\ DataAt(u, k) = DataAt(s, k)
       /\ NextPlace(u) = new
       /\ \A k : HasEntry(u, k) = HasEntry(s, k) /\ Entry(u, k) = Entry(s, k)
  <2>1. l.at = "packed" \/ l.at = "param"
    BY <1>2, PlaceForms DEF InOverlay
  <2>2. u.shadowed \cup u.dead = s.shadowed \cup s.dead \cup (IF l.at = "packed" THEN {l.pos} ELSE {})
    BY <1>5, <1>6
  <2>3. u.pshadowed \cup u.pdead = s.pshadowed \cup s.pdead \cup (IF l.at = "param" THEN {l.pos} ELSE {})
    BY <1>5, <1>6, <2>1
  <2>4. \A k : HasEntry(u, k) = HasEntry(s, k) /\ Entry(u, k) = Entry(s, k)
    BY <1>6 DEF HasEntry, Entry
  <2> QED
    BY <1>1, <1>2, <1>6, <2>2, <2>3, <2>4, Hides DEF new
<1>11. DOMAIN data = CellShape /\ Pair(data) = KeyAt(s, l) /\ data.expr = expr
  BY DEF data, Data, CellShape, Pair
<1>12. /\ Shaped(t) /\ Indexed(t) /\ Within(t, T)
       /\ Slots(t) = Slots(u) /\ \A k : GenOf(t, k) = GenOf(u, k) /\ LocOf(t, k) = LocOf(u, k)
       /\ Locs(t) = Locs(u) \cup {new} /\ new \notin Locs(u) /\ InOverlay(new)
       /\ \A k \in Locs(u) : /\ IdAt(t, k) = IdAt(s, k) /\ KeyAt(t, k) = KeyAt(s, k)
                             /\ DataAt(t, k) = DataAt(s, k)
       /\ IdAt(t, new) = FreshId(n) /\ KeyAt(t, new) = KeyAt(s, l) /\ DataAt(t, new) = data
       /\ HasEntry(t, KeyAt(s, l)) /\ Entry(t, KeyAt(s, l)) = PosOf(new)
       /\ \A k : k # KeyAt(s, l) => /\ HasEntry(t, k) <=> HasEntry(s, k)
                                    /\ HasEntry(s, k) => Entry(t, k) = Entry(s, k)
  <2>1. Pair(data)[1] \in T
    BY <1>4, <1>11
  <2> QED
    BY <1>3, <1>9, <1>10, <1>11, <2>1, PushedLive
<1>13. new \notin Locs(s)
  BY <1>2, <1>10, <1>12
<1>14. Exact(t)
  <2>1. Slots(t) = Slots(s) /\ GenOf(t, n) = 0 /\ LocOf(t, n) = new
    BY <1>8, <1>12
  <2>2. \A k \in Slots(s) : k # n => GenOf(t, k) = GenOf(s, k) /\ LocOf(t, k) = LocOf(s, k)
    BY <1>8, <1>12
  <2>3. Locs(t) = (Locs(s) \ {l}) \cup {new}
    BY <1>10, <1>12
  <2>4. \A k \in Locs(s) \ {l} : IdAt(t, k) = IdAt(s, k) /\ KeyAt(t, k) = KeyAt(s, k)
    BY <1>10, <1>12
  <2>5. \A k \in Locs(s) \ {l} : KeyAt(s, k) # KeyAt(s, l)
    BY <1>1, <1>2 DEF Exact
  <2>6. \A k \in Locs(s) \ {l} :
           /\ HasEntry(t, KeyAt(s, k)) <=> HasEntry(s, KeyAt(s, k))
           /\ HasEntry(s, KeyAt(s, k)) => Entry(t, KeyAt(s, k)) = Entry(s, KeyAt(s, k))
    BY <1>12, <2>5
  <2>7. HasEntry(t, KeyAt(t, new)) /\ Entry(t, KeyAt(t, new)) = PosOf(new)
    BY <1>12
  <2> QED
    BY <1>1, <1>2, <1>12, <1>13, <2>1, <2>2, <2>3, <2>4, <2>6, <2>7, Moves DEF l
<1>15. Cells(t) = Replaced(s, n, expr)
  <2> DEFINE C(k) == MapCell(KeyAt(s, k), IdAt(s, k), DataAt(s, k).expr)
             D(k) == MapCell(KeyAt(t, k), IdAt(t, k), DataAt(t, k).expr)
  <2>1. Cells(t) = {D(k) : k \in Locs(s) \ {l}} \cup {D(new)}
    BY <1>10, <1>12 DEF Cells
  <2>2. \A k \in Locs(s) \ {l} : D(k) = C(k)
    BY <1>10, <1>12
  <2>3. D(new) = MapCell(KeyAt(s, l), FreshId(n), expr)
    BY <1>11, <1>12
  <2>4. {c \in Cells(s) : c.id # FreshId(n)} = {C(k) : k \in Locs(s) \ {l}}
    BY <1>1, <1>2, OtherCells DEF l
  <2> HIDE DEF C, D
  <2>5. {D(k) : k \in Locs(s) \ {l}} = {C(k) : k \in Locs(s) \ {l}}
    BY <2>2
  <2> QED
    BY <2>1, <2>3, <2>4, <2>5 DEF Replaced, l
<1> QED
  BY <1>8, <1>12, <1>14, <1>15 DEF StoreOK

\* Two stores with the same skeleton differ only in what cells hold: in the
\* expressions and cached values of entries and of parametric cells.
SameSkeletons(s, t) ==
    /\ DOMAIN t = Fields
    /\ t.arena = s.arena /\ t.base = s.base /\ t.shadowed = s.shadowed /\ t.dead = s.dead
    /\ t.pshadowed = s.pshadowed /\ t.pdead = s.pdead /\ t.byCell = s.byCell
    /\ IsList(t.pbase) /\ Len(t.pbase) = Len(s.pbase)
    /\ IsList(t.overlay) /\ Len(t.overlay) = Len(s.overlay)
    /\ \A i \in 1 .. Len(s.pbase) :
          /\ DOMAIN t.pbase[i] = {"key", "param", "scale", "cached", "id"}
          /\ t.pbase[i].key = s.pbase[i].key /\ t.pbase[i].id = s.pbase[i].id
    /\ \A i \in 1 .. Len(s.overlay) :
          /\ DOMAIN t.overlay[i] = {"id", "data", "tombstone"}
          /\ DOMAIN t.overlay[i].data = {"key", "expr", "cached"}
          /\ t.overlay[i].id = s.overlay[i].id
          /\ t.overlay[i].data.key = s.overlay[i].data.key
          /\ t.overlay[i].tombstone = s.overlay[i].tombstone

\* A store with the skeleton of one in order is in order, with the same places,
\* identities and pairs.
LEMMA SameSkeleton ==
    ASSUME NEW s, NEW t, NEW T, StoreOK(s, T), SameSkeletons(s, t)
    PROVE  /\ StoreOK(t, T) /\ Slots(t) = Slots(s) /\ Locs(t) = Locs(s)
           /\ \A l \in Locs(s) : IdAt(t, l) = IdAt(s, l) /\ KeyAt(t, l) = KeyAt(s, l)
<1>1. Shaped(s) /\ Indexed(s) /\ Within(s, T)
  BY DEF StoreOK
<1>2. /\ DOMAIN t.base = DOMAIN s.base /\ DOMAIN t.pbase = DOMAIN s.pbase
      /\ DOMAIN t.overlay = DOMAIN s.overlay /\ DOMAIN s.overlay = 1 .. Len(s.overlay)
  <2>1. /\ t.base = s.base /\ IsList(s.pbase) /\ IsList(s.overlay) /\ IsList(t.pbase) /\ IsList(t.overlay)
        /\ Len(t.pbase) = Len(s.pbase) /\ Len(t.overlay) = Len(s.overlay)
    BY <1>1 DEF Shaped, SameSkeletons
  <2> QED
    BY <2>1, ListIsSeq
<1>3. PackedLive(t) = PackedLive(s) /\ ParamLive(t) = ParamLive(s) /\ OverlayLive(t) = OverlayLive(s)
  <2>1. PackedLive(t) = PackedLive(s) /\ ParamLive(t) = ParamLive(s)
    BY <1>2 DEF PackedLive, ParamLive, SameSkeletons
  <2>2. \A i \in DOMAIN s.overlay : t.overlay[i].tombstone = s.overlay[i].tombstone
    BY <1>2 DEF SameSkeletons
  <2>3. OverlayLive(t) = OverlayLive(s)
    BY <1>2, <2>2 DEF OverlayLive
  <2> QED
    BY <2>1, <2>3
<1>4. Locs(t) = Locs(s)
  BY <1>3 DEF Locs
<1>5. Shaped(t)
  <2>1. \A i \in 1 .. Len(t.overlay) :
          /\ DOMAIN t.overlay[i] = {"id", "data", "tombstone"}
          /\ DOMAIN t.overlay[i].data = {"key", "expr", "cached"}
          /\ t.overlay[i].tombstone \in BOOLEAN
    <3> SUFFICES ASSUME NEW i \in 1 .. Len(s.overlay)
                 PROVE  /\ DOMAIN t.overlay[i] = {"id", "data", "tombstone"}
                        /\ DOMAIN t.overlay[i].data = {"key", "expr", "cached"}
                        /\ t.overlay[i].tombstone \in BOOLEAN
      BY DEF SameSkeletons
    <3>1. s.overlay[i].tombstone \in BOOLEAN
      BY <1>1 DEF Shaped
    <3> QED
      BY <3>1 DEF SameSkeletons
  <2>2. /\ IsList(t.arena) /\ IsList(t.base)
        /\ \A n \in 1 .. Len(t.arena) : DOMAIN t.arena[n] = {"gen", "loc"} /\ t.arena[n].gen \in Nat
    BY <1>1 DEF Shaped, SameSkeletons
  <2>3. \A i \in 1 .. Len(t.pbase) :
          DOMAIN t.pbase[i] = {"key", "param", "scale", "cached", "id"}
    BY DEF SameSkeletons
  <2>4. DOMAIN t = Fields /\ IsList(t.pbase) /\ IsList(t.overlay)
    BY DEF SameSkeletons
  <2>5. /\ t.shadowed \cup t.dead \subseteq 1 .. Len(t.base)
        /\ t.pshadowed \cup t.pdead \subseteq 1 .. Len(t.pbase)
    BY <1>1 DEF Shaped, SameSkeletons
  <2> QED
    BY <2>1, <2>2, <2>3, <2>4, <2>5 DEF Shaped
<1>6. Indexed(t)
  <2> SUFFICES ASSUME NEW k \in DOMAIN s.byCell
               PROVE  s.byCell[k] \in 1 .. Len(s.overlay) /\ t.overlay[s.byCell[k]].data.key = k
    BY DEF Indexed, SameSkeletons
  <2>1. s.byCell[k] \in 1 .. Len(s.overlay) /\ s.overlay[s.byCell[k]].data.key = k
    BY <1>1 DEF Indexed
  <2> QED
    BY <2>1 DEF SameSkeletons
<1>7. Within(t, T)
  BY <1>1 DEF Within, SameSkeletons
<1>8. \A l \in Locs(s) : IdAt(t, l) = IdAt(s, l) /\ KeyAt(t, l) = KeyAt(s, l)
  <2> SUFFICES ASSUME NEW l \in Locs(s)
               PROVE  IdAt(t, l) = IdAt(s, l) /\ KeyAt(t, l) = KeyAt(s, l)
    OBVIOUS
  <2>1. \/ l.at = "packed"
        \/ l.at = "param" /\ l.pos \in 1 .. Len(s.pbase)
        \/ l.at = "overlay" /\ l.pos \in 1 .. Len(s.overlay)
    BY <1>1, PlaceForms, LivePositions
  <2>2. CASE l.at = "packed"
    BY <2>2 DEF IdAt, KeyAt, SameSkeletons
  <2>3. CASE l.at = "param" /\ l.pos \in 1 .. Len(s.pbase)
    BY <2>3 DEF IdAt, KeyAt, SameSkeletons
  <2>4. CASE l.at = "overlay" /\ l.pos \in 1 .. Len(s.overlay)
    BY <2>4 DEF IdAt, KeyAt, SameSkeletons
  <2> QED
    BY <2>1, <2>2, <2>3, <2>4
<1>9. /\ Slots(t) = Slots(s) /\ \A n : GenOf(t, n) = GenOf(s, n) /\ LocOf(t, n) = LocOf(s, n)
      /\ \A k : HasEntry(t, k) = HasEntry(s, k) /\ Entry(t, k) = Entry(s, k)
  BY DEF SameSkeletons, Slots, GenOf, LocOf, HasEntry, Entry
<1>10. StoreOK(t, T)
  BY <1>4, <1>5, <1>6, <1>7, <1>8, <1>9, SameView
<1> QED
  BY <1>4, <1>8, <1>9, <1>10

\* Cells with the same places, identities and pairs, and with the expressions
\* the same but at one place.
LEMMA OneExpression ==
    ASSUME NEW s, NEW t, NEW n \in Slots(s), NEW expr, Shaped(s), Exact(s),
           LocOf(s, n) \in Locs(s), Locs(t) = Locs(s),
           \A l \in Locs(s) : IdAt(t, l) = IdAt(s, l) /\ KeyAt(t, l) = KeyAt(s, l),
           \A l \in Locs(s) : l # LocOf(s, n) => DataAt(t, l) = DataAt(s, l),
           DataAt(t, LocOf(s, n)).expr = expr
    PROVE  Cells(t) = Replaced(s, n, expr)
<1> DEFINE l == LocOf(s, n)
           C(k) == MapCell(KeyAt(s, k), IdAt(s, k), DataAt(s, k).expr)
           D(k) == MapCell(KeyAt(t, k), IdAt(t, k), DataAt(t, k).expr)
<1>1. IdAt(s, l) = FreshId(n)
  BY GetsPlace
<1>2. Cells(t) = {D(k) : k \in Locs(s) \ {l}} \cup {D(l)}
  BY DEF Cells
<1>3. \A k \in Locs(s) \ {l} : D(k) = C(k)
  OBVIOUS
<1>4. {c \in Cells(s) : c.id # FreshId(n)} = {C(k) : k \in Locs(s) \ {l}}
  BY OtherCells
<1>5. D(l) = MapCell(KeyAt(s, l), FreshId(n), expr)
  BY <1>1
<1> HIDE DEF C, D
<1>6. {D(k) : k \in Locs(s) \ {l}} = {C(k) : k \in Locs(s) \ {l}}
  BY <1>3
<1> QED
  BY <1>2, <1>4, <1>5, <1>6 DEF Replaced

\* The entry at p has another expression.
Rewrites(s, t, p, expr) ==
    /\ DOMAIN t = Fields /\ IsList(t.overlay) /\ Len(t.overlay) = Len(s.overlay)
    /\ \A i \in 1 .. Len(s.overlay) :
          /\ t.overlay[i].tombstone = s.overlay[i].tombstone
          /\ t.overlay[i].data.expr = IF i = p THEN expr ELSE s.overlay[i].data.expr

\* set_expr of a cell in the overlay: its entry is rewritten.
LEMMA RewriteOK ==
    ASSUME NEW s, NEW T, NEW n \in Slots(s), NEW expr, NEW cached, NEW t,
           StoreOK(s, T), LocOf(s, n) \in Locs(s), InOverlay(LocOf(s, n)),
           t = SetExpr(s, FreshId(n), expr, cached)
    PROVE  /\ StoreOK(t, T) /\ Slots(t) = Slots(s) /\ Cells(t) = Replaced(s, n, expr)
           /\ Rewrites(s, t, PosOf(LocOf(s, n)), expr)
<1> DEFINE l == LocOf(s, n)
           p == l.pos
           data == [s.overlay[p].data EXCEPT !.expr = expr, !.cached = cached]
           entry == [s.overlay[p] EXCEPT !.data = data]
<1>1. Shaped(s) /\ Exact(s) /\ DOMAIN s = Fields
  BY DEF StoreOK, Shaped
<1>2. Resolve(s, FreshId(n)) = l /\ l \in Locs(s)
  BY <1>1, GetsPlace
<1>3. l.at = "overlay"
  BY DEF InOverlay
<1>4. t = [s EXCEPT !.overlay[p].data.expr = expr, !.overlay[p].data.cached = cached,
                    !.byParam = Linked(Unlinked(@, p), p, Dependencies(expr))]
  BY <1>2, <1>3, Zenon DEF SetExpr
<1> HIDE DEF l
<1>5. l = Overlay(p) /\ p \in OverlayLive(s) /\ p \in 1 .. Len(s.overlay)
  BY <1>1, <1>2, <1>3, PlaceForms, LivePositions
<1> HIDE DEF p
<1>6. /\ DOMAIN s.overlay[p] = {"id", "data", "tombstone"}
      /\ DOMAIN s.overlay[p].data = {"key", "expr", "cached"}
  BY <1>1, <1>5 DEF Shaped
<1>7. /\ DOMAIN t = Fields
      /\ t.arena = s.arena /\ t.base = s.base /\ t.shadowed = s.shadowed /\ t.dead = s.dead
      /\ t.pbase = s.pbase /\ t.pshadowed = s.pshadowed /\ t.pdead = s.pdead
      /\ t.byCell = s.byCell
  BY <1>1, <1>4 DEF Fields
<1>8. t.overlay = Updated(s.overlay, p, entry)
  <2>1. "overlay" \in DOMAIN s /\ p \in DOMAIN s.overlay
    BY <1>1, <1>5, LivePositions DEF Fields
  <2> DEFINE old == s.overlay[p]
             new == [[old EXCEPT !.data.expr = expr] EXCEPT !.data.cached = cached]
             first == [s.overlay EXCEPT ![p].data.expr = expr]
  <2>2. t.overlay = [s.overlay EXCEPT ![p] = new]
    <3>1. t.overlay = [first EXCEPT ![p].data.cached = cached]
      BY <1>4, <2>1
    <3>2. first = [s.overlay EXCEPT ![p] = [old EXCEPT !.data.expr = expr]]
      OBVIOUS
    <3> HIDE DEF first
    <3>3. DOMAIN first = DOMAIN s.overlay /\ first[p] = [old EXCEPT !.data.expr = expr]
      BY <2>1, <3>2
    <3>4. [first EXCEPT ![p].data.cached = cached] = [first EXCEPT ![p] = new]
      BY <3>3
    <3>5. [first EXCEPT ![p] = new] = [s.overlay EXCEPT ![p] = new]
      <4> HIDE DEF new, old
      <4> QED
        BY <2>1, <3>2, <3>3
    <3> QED
      BY <3>1, <3>4, <3>5
  <2>3. new = [old EXCEPT !.data = data]
    BY <1>6
  <2> QED
    BY <2>2, <2>3 DEF Updated
<1>9. /\ DOMAIN data = {"key", "expr", "cached"} /\ data.key = s.overlay[p].data.key
      /\ data.expr = expr
  BY <1>6
<1> HIDE DEF data
<1>10. /\ DOMAIN entry = {"id", "data", "tombstone"} /\ entry.data = data
       /\ entry.id = s.overlay[p].id /\ entry.tombstone = s.overlay[p].tombstone
  BY <1>6
<1> HIDE DEF entry
<1>11. IsList(s.overlay) /\ IsList(s.pbase)
  BY <1>1 DEF Shaped
<1>12. /\ IsList(t.overlay) /\ Len(t.overlay) = Len(s.overlay)
       /\ \A i \in 1 .. Len(s.overlay) : t.overlay[i] = IF i = p THEN entry ELSE s.overlay[i]
  BY <1>8, <1>11, ListUpdate
<1>13. \A i \in 1 .. Len(s.overlay) :
          /\ DOMAIN t.overlay[i] = {"id", "data", "tombstone"}
          /\ DOMAIN t.overlay[i].data = {"key", "expr", "cached"}
          /\ t.overlay[i].id = s.overlay[i].id
          /\ t.overlay[i].data.key = s.overlay[i].data.key
          /\ t.overlay[i].tombstone = s.overlay[i].tombstone
  <2> SUFFICES ASSUME NEW i \in 1 .. Len(s.overlay)
               PROVE  /\ DOMAIN t.overlay[i] = {"id", "data", "tombstone"}
                      /\ DOMAIN t.overlay[i].data = {"key", "expr", "cached"}
                      /\ t.overlay[i].id = s.overlay[i].id
                      /\ t.overlay[i].data.key = s.overlay[i].data.key
                      /\ t.overlay[i].tombstone = s.overlay[i].tombstone
    OBVIOUS
  <2>1. CASE i = p
    BY <1>9, <1>10, <1>12, <2>1
  <2>2. CASE i # p
    <3>1. t.overlay[i] = s.overlay[i]
      BY <1>12, <2>2
    <3> QED
      BY <1>1, <3>1 DEF Shaped
  <2> QED
    BY <2>1, <2>2
<1>14. \A i \in 1 .. Len(s.pbase) :
          /\ DOMAIN t.pbase[i] = {"key", "param", "scale", "cached", "id"}
          /\ t.pbase[i].key = s.pbase[i].key /\ t.pbase[i].id = s.pbase[i].id
  BY <1>1, <1>7 DEF Shaped
<1>15. SameSkeletons(s, t)
  BY <1>7, <1>11, <1>12, <1>13, <1>14 DEF SameSkeletons
<1>16. /\ StoreOK(t, T) /\ Slots(t) = Slots(s) /\ Locs(t) = Locs(s)
       /\ \A k \in Locs(s) : IdAt(t, k) = IdAt(s, k) /\ KeyAt(t, k) = KeyAt(s, k)
  BY <1>15, SameSkeleton
<1>17. \A k \in Locs(s) : k # l => DataAt(t, k) = DataAt(s, k)
  <2> SUFFICES ASSUME NEW k \in Locs(s), k # l
               PROVE  DataAt(t, k) = DataAt(s, k)
    OBVIOUS
  <2>1. \/ k.at = "packed" \/ k.at = "param"
        \/ k.at = "overlay" /\ k = Overlay(k.pos) /\ k.pos \in 1 .. Len(s.overlay)
    BY <1>1, PlaceForms, LivePositions
  <2>2. k.at = "overlay" => k.pos # p
    BY <1>5, <2>1
  <2> QED
    BY <1>7, <1>12, <2>1, <2>2 DEF DataAt, PackedData, ParamData, OverlayData
<1>18. DataAt(t, l).expr = expr
  BY <1>3, <1>5, <1>9, <1>10, <1>12 DEF DataAt, OverlayData, p
<1>19. Cells(t) = Replaced(s, n, expr)
  BY <1>1, <1>16, <1>17, <1>18, OneExpression DEF l
<1>20. Rewrites(s, t, p, expr)
  <2>1. \A i \in 1 .. Len(s.overlay) :
           t.overlay[i].data.expr = IF i = p THEN expr ELSE s.overlay[i].data.expr
    BY <1>9, <1>10, <1>12
  <2> QED
    BY <1>7, <1>12, <1>13, <2>1 DEF Rewrites
<1>21. p = PosOf(LocOf(s, n))
  BY DEF p, l, PosOf
<1> QED
  BY <1>16, <1>19, <1>20, <1>21

\* set_expr: the cell has the new expression and keeps pair and identity.
LEMMA SetExprOK ==
    ASSUME NEW s, NEW T, NEW n \in Slots(s), NEW expr, NEW cached, NEW t,
           StoreOK(s, T), LocOf(s, n) \in Locs(s), t = SetExpr(s, FreshId(n), expr, cached)
    PROVE  StoreOK(t, T) /\ Slots(t) = Slots(s) /\ Cells(t) = Replaced(s, n, expr)
<1>1. CASE ~ InOverlay(LocOf(s, n))
  <2>1. Resolve(s, FreshId(n)) = LocOf(s, n)
    BY GetsPlace DEF StoreOK
  <2>2. t = Shadow(s, FreshId(n), expr, cached)
    BY <1>1, <2>1, Zenon DEF SetExpr, InOverlay
  <2> QED
    BY <1>1, <2>2, ShadowOK
<1>2. CASE InOverlay(LocOf(s, n))
  BY <1>2, RewriteOK
<1> QED
  BY <1>1, <1>2

\* An identity is given back: its slot is vacant and of a later generation.
LEMMA Released ==
    ASSUME NEW s, NEW T, NEW n \in Slots(s), NEW u, StoreOK(s, T), u = Release(s, FreshId(n))
    PROVE  /\ Shaped(u) /\ Indexed(u) /\ Within(u, T)
           /\ u.base = s.base /\ u.shadowed = s.shadowed /\ u.dead = s.dead
           /\ u.pbase = s.pbase /\ u.pshadowed = s.pshadowed /\ u.pdead = s.pdead
           /\ u.overlay = s.overlay /\ u.byCell = s.byCell
           /\ Slots(u) = Slots(s) /\ LocOf(u, n) = Vacant
           /\ \A k \in Slots(s) : k # n => GenOf(u, k) = GenOf(s, k) /\ LocOf(u, k) = LocOf(s, k)
           /\ Locs(u) = Locs(s)
           /\ \A l : IdAt(u, l) = IdAt(s, l) /\ KeyAt(u, l) = KeyAt(s, l) /\ DataAt(u, l) = DataAt(s, l)
           /\ \A k : HasEntry(u, k) = HasEntry(s, k) /\ Entry(u, k) = Entry(s, k)
<1> DEFINE slot == [gen |-> s.arena[n].gen + 1, loc |-> Vacant]
<1>1. Shaped(s) /\ Indexed(s) /\ Within(s, T) /\ DOMAIN s = Fields
  BY DEF StoreOK, Shaped
<1>2. FreshId(n)[1] = n
  BY DEF FreshId
<1>3. u = [s EXCEPT !.arena[n] = slot]
  BY <1>2, Zenon DEF Release
<1>4. DOMAIN slot = {"gen", "loc"} /\ slot.gen \in Nat /\ slot.loc = Vacant
  BY <1>1 DEF Shaped, Slots
<1> HIDE DEF slot
<1>5. /\ DOMAIN u = Fields /\ u.base = s.base /\ u.shadowed = s.shadowed /\ u.dead = s.dead
      /\ u.pbase = s.pbase /\ u.pshadowed = s.pshadowed /\ u.pdead = s.pdead
      /\ u.overlay = s.overlay /\ u.byCell = s.byCell
      /\ u.arena = Updated(s.arena, n, slot)
  BY <1>1, <1>3 DEF Fields, Updated
<1>6. /\ IsList(u.arena) /\ Slots(u) = Slots(s)
      /\ \A k \in Slots(u) : DOMAIN u.arena[k] = {"gen", "loc"} /\ u.arena[k].gen \in Nat
      /\ LocOf(u, n) = Vacant
      /\ \A k \in Slots(s) : k # n => GenOf(u, k) = GenOf(s, k) /\ LocOf(u, k) = LocOf(s, k)
  BY <1>1, <1>4, <1>5, SlotWritten
<1>7. Shaped(u)
  BY <1>1, <1>5, <1>6 DEF Shaped, Slots
<1>8. Indexed(u) /\ Within(u, T)
  BY <1>1, <1>5 DEF Indexed, Within
<1>9. /\ Locs(u) = Locs(s)
      /\ \A l : IdAt(u, l) = IdAt(s, l) /\ KeyAt(u, l) = KeyAt(s, l) /\ DataAt(u, l) = DataAt(s, l)
      /\ \A k : HasEntry(u, k) = HasEntry(s, k) /\ Entry(u, k) = Entry(s, k)
  BY <1>5 DEF Locs, PackedLive, ParamLive, OverlayLive, IdAt, KeyAt, DataAt, PackedData, ParamData,
     OverlayData, HasEntry, Entry
<1> QED
  BY <1>5, <1>6, <1>7, <1>8, <1>9

\* The entry at p is a tombstone.
Buries(s, t, p) ==
    /\ DOMAIN t = Fields /\ IsList(t.overlay) /\ Len(t.overlay) = Len(s.overlay)
    /\ t.overlay[p].tombstone = TRUE
    /\ \A i \in 1 .. Len(s.overlay) : i # p => t.overlay[i] = s.overlay[i]

\* An entry becomes a tombstone: its place is none any more.
LEMMA Buried ==
    ASSUME NEW s, NEW T, NEW p \in 1 .. Len(s.overlay), NEW t,
           Shaped(s), Indexed(s), Within(s, T), t = RemoveOverlay(s, p)
    PROVE  /\ Shaped(t) /\ Indexed(t) /\ Within(t, T)
           /\ Slots(t) = Slots(s)
           /\ \A k : GenOf(t, k) = GenOf(s, k) /\ LocOf(t, k) = LocOf(s, k)
           /\ Locs(t) = Locs(s) \ {Overlay(p)}
           /\ \A l \in Locs(s) : l # Overlay(p) =>
                 IdAt(t, l) = IdAt(s, l) /\ KeyAt(t, l) = KeyAt(s, l) /\ DataAt(t, l) = DataAt(s, l)
           /\ \A k : HasEntry(t, k) = HasEntry(s, k) /\ Entry(t, k) = Entry(s, k)
           /\ Buries(s, t, p)
<1> DEFINE old == s.overlay[p]
           entry == [old EXCEPT !.tombstone = TRUE]
<1>1. /\ DOMAIN s = Fields /\ IsList(s.overlay)
      /\ DOMAIN old = {"id", "data", "tombstone"} /\ DOMAIN old.data = {"key", "expr", "cached"}
  BY DEF Shaped
<1>2. t = [s EXCEPT !.overlay[p].tombstone = TRUE, !.byParam = Unlinked(@, p), !.live = @ - 1]
  BY Zenon DEF RemoveOverlay
<1>3. /\ DOMAIN t = Fields
      /\ t.arena = s.arena /\ t.base = s.base /\ t.shadowed = s.shadowed /\ t.dead = s.dead
      /\ t.pbase = s.pbase /\ t.pshadowed = s.pshadowed /\ t.pdead = s.pdead
      /\ t.byCell = s.byCell
  BY <1>1, <1>2 DEF Fields
<1>4. t.overlay = Updated(s.overlay, p, entry)
  BY <1>1, <1>2 DEF Fields, Updated
<1>5. /\ DOMAIN entry = {"id", "data", "tombstone"} /\ entry.data = old.data
      /\ entry.tombstone = TRUE
  BY <1>1
<1> HIDE DEF entry
<1>6. /\ IsList(t.overlay) /\ Len(t.overlay) = Len(s.overlay)
      /\ \A i \in 1 .. Len(s.overlay) : t.overlay[i] = IF i = p THEN entry ELSE s.overlay[i]
  BY <1>1, <1>4, ListUpdate
<1>7. t.overlay[p] = entry /\ \A i \in 1 .. Len(s.overlay) : i # p => t.overlay[i] = s.overlay[i]
  BY <1>6
<1>8. \A i \in 1 .. Len(s.overlay) :
         /\ DOMAIN t.overlay[i] = {"id", "data", "tombstone"}
         /\ t.overlay[i].data = s.overlay[i].data
         /\ DOMAIN s.overlay[i].data = {"key", "expr", "cached"}
         /\ t.overlay[i].tombstone \in BOOLEAN
  <2> SUFFICES ASSUME NEW i \in 1 .. Len(s.overlay)
               PROVE  /\ DOMAIN t.overlay[i] = {"id", "data", "tombstone"}
                      /\ t.overlay[i].data = s.overlay[i].data
                      /\ DOMAIN s.overlay[i].data = {"key", "expr", "cached"}
                      /\ t.overlay[i].tombstone \in BOOLEAN
    OBVIOUS
  <2>1. CASE i = p
    BY <1>1, <1>5, <1>7, <2>1
  <2>2. CASE i # p
    BY <1>7, <2>2 DEF Shaped
  <2> QED
    BY <2>1, <2>2
<1>9. Shaped(t)
  <2>1. \A i \in 1 .. Len(t.overlay) :
          /\ DOMAIN t.overlay[i] = {"id", "data", "tombstone"}
          /\ DOMAIN t.overlay[i].data = {"key", "expr", "cached"}
          /\ t.overlay[i].tombstone \in BOOLEAN
    BY <1>6, <1>8
  <2> QED
    BY <1>3, <1>6, <2>1 DEF Shaped
<1>10. Indexed(t)
  <2> SUFFICES ASSUME NEW k \in DOMAIN s.byCell
               PROVE  s.byCell[k] \in 1 .. Len(s.overlay) /\ t.overlay[s.byCell[k]].data.key = k
    BY <1>3, <1>6 DEF Indexed
  <2>1. s.byCell[k] \in 1 .. Len(s.overlay) /\ s.overlay[s.byCell[k]].data.key = k
    BY DEF Indexed
  <2> QED
    BY <1>8, <2>1
<1>11. Within(t, T)
  <2>1. \A i \in 1 .. Len(t.overlay) : t.overlay[i].data.key[1] \in T
    BY <1>6, <1>8 DEF Within
  <2> QED
    BY <1>3, <2>1 DEF Within
<1>12. /\ PackedLive(t) = PackedLive(s) /\ ParamLive(t) = ParamLive(s)
       /\ OverlayLive(t) = OverlayLive(s) \ {p}
       /\ OverlayLive(s) \subseteq 1 .. Len(s.overlay)
  <2>1. PackedLive(t) = PackedLive(s) /\ ParamLive(t) = ParamLive(s)
    BY <1>3 DEF PackedLive, ParamLive
  <2>2. DOMAIN t.overlay = 1 .. Len(s.overlay) /\ DOMAIN s.overlay = 1 .. Len(s.overlay)
    BY <1>1, <1>6, ListIsSeq
  <2>3. \A i \in 1 .. Len(s.overlay) : t.overlay[i].tombstone <=> (i = p \/ s.overlay[i].tombstone)
    <3> SUFFICES ASSUME NEW i \in 1 .. Len(s.overlay)
                 PROVE  t.overlay[i].tombstone <=> (i = p \/ s.overlay[i].tombstone)
      OBVIOUS
    <3>1. CASE i = p
      BY <1>5, <1>7, <3>1
    <3>2. CASE i # p
      BY <1>7, <3>2
    <3> QED
      BY <3>1, <3>2
  <2> QED
    BY <2>1, <2>2, <2>3 DEF OverlayLive
<1>13. Locs(t) = Locs(s) \ {Overlay(p)}
  <2>1. \A i, j : Packed(i) # Overlay(j) /\ ParamBase(i) # Overlay(j) /\ (Overlay(i) = Overlay(j) => i = j)
    BY DEF Packed, ParamBase, Overlay
  <2>2. \A l : l \in Locs(t) <=> l \in Locs(s) /\ l # Overlay(p)
    BY <1>12, <2>1 DEF Locs
  <2> QED
    BY <2>2
<1>14. \A l \in Locs(s) : l # Overlay(p) =>
          IdAt(t, l) = IdAt(s, l) /\ KeyAt(t, l) = KeyAt(s, l) /\ DataAt(t, l) = DataAt(s, l)
  <2> SUFFICES ASSUME NEW l \in Locs(s), l # Overlay(p)
               PROVE  IdAt(t, l) = IdAt(s, l) /\ KeyAt(t, l) = KeyAt(s, l) /\ DataAt(t, l) = DataAt(s, l)
    OBVIOUS
  <2>1. \/ l.at = "packed" \/ l.at = "param"
        \/ l.at = "overlay" /\ l.pos # p /\ l.pos \in 1 .. Len(s.overlay)
    BY <1>12, PlaceForms
  <2> QED
    BY <1>3, <1>7, <2>1 DEF IdAt, KeyAt, DataAt, PackedData, ParamData, OverlayData
<1>15. /\ Slots(t) = Slots(s) /\ \A n : GenOf(t, n) = GenOf(s, n) /\ LocOf(t, n) = LocOf(s, n)
       /\ \A k : HasEntry(t, k) = HasEntry(s, k) /\ Entry(t, k) = Entry(s, k)
  BY <1>3 DEF Slots, GenOf, LocOf, HasEntry, Entry
<1>16. Buries(s, t, p)
  BY <1>3, <1>5, <1>6, <1>7 DEF Buries
<1> QED
  BY <1>9, <1>10, <1>11, <1>13, <1>14, <1>15, <1>16

\* The cells without the one at n.
Without(s, n) == {c \in Cells(s) : c.id # FreshId(n)}

\* remove, of a cell in the overlay.
LEMMA DiscardOverlayOK ==
    ASSUME NEW s, NEW T, NEW n \in Slots(s), NEW t, StoreOK(s, T),
           LocOf(s, n) \in Locs(s), InOverlay(LocOf(s, n)), t = Discard(s, FreshId(n))
    PROVE  StoreOK(t, T) /\ Slots(t) = Slots(s) /\ Cells(t) = Without(s, n)
<1> DEFINE l == LocOf(s, n)
           p == PosOf(l)
           u == Release(s, FreshId(n))
<1>1. Shaped(s) /\ Indexed(s) /\ Within(s, T) /\ Exact(s)
  BY DEF StoreOK
<1>2. Resolve(s, FreshId(n)) = l /\ l \in Locs(s)
  BY <1>1, GetsPlace
<1>3. t = RemoveOverlay(u, p)
  BY <1>2, Zenon DEF Discard, InOverlay, PosOf
<1>4. InOverlay(l)
  OBVIOUS
<1> HIDE DEF l
<1>5. l = Overlay(p) /\ p \in 1 .. Len(s.overlay)
  BY <1>1, <1>2, <1>4, PlaceForms, LivePositions DEF InOverlay, PosOf
<1> HIDE DEF p, u
<1>6. /\ Shaped(u) /\ Indexed(u) /\ Within(u, T) /\ u.overlay = s.overlay
      /\ Slots(u) = Slots(s) /\ LocOf(u, n) = Vacant
      /\ \A k \in Slots(s) : k # n => GenOf(u, k) = GenOf(s, k) /\ LocOf(u, k) = LocOf(s, k)
      /\ Locs(u) = Locs(s)
      /\ \A k : IdAt(u, k) = IdAt(s, k) /\ KeyAt(u, k) = KeyAt(s, k) /\ DataAt(u, k) = DataAt(s, k)
      /\ \A k : HasEntry(u, k) = HasEntry(s, k) /\ Entry(u, k) = Entry(s, k)
  BY Released DEF u
<1>7. p \in 1 .. Len(u.overlay)
  BY <1>5, <1>6
<1>8. /\ Shaped(t) /\ Indexed(t) /\ Within(t, T)
      /\ Slots(t) = Slots(u)
      /\ \A k : GenOf(t, k) = GenOf(u, k) /\ LocOf(t, k) = LocOf(u, k)
      /\ Locs(t) = Locs(u) \ {l}
      /\ \A k \in Locs(u) : k # l =>
            IdAt(t, k) = IdAt(u, k) /\ KeyAt(t, k) = KeyAt(u, k) /\ DataAt(t, k) = DataAt(u, k)
      /\ \A k : HasEntry(t, k) = HasEntry(u, k) /\ Entry(t, k) = Entry(u, k)
  <2>1. /\ Shaped(t) /\ Indexed(t) /\ Within(t, T)
        /\ Slots(t) = Slots(u)
        /\ \A k : GenOf(t, k) = GenOf(u, k) /\ LocOf(t, k) = LocOf(u, k)
        /\ Locs(t) = Locs(u) \ {Overlay(p)}
        /\ \A k \in Locs(u) : k # Overlay(p) =>
              IdAt(t, k) = IdAt(u, k) /\ KeyAt(t, k) = KeyAt(u, k) /\ DataAt(t, k) = DataAt(u, k)
        /\ \A k : HasEntry(t, k) = HasEntry(u, k) /\ Entry(t, k) = Entry(u, k)
        /\ Buries(u, t, p)
    BY <1>3, <1>6, <1>7, Buried
  <2> QED
    BY <1>5, <2>1
<1>9. Locs(t) = Locs(s) \ {l} /\ Slots(t) = Slots(s) /\ LocOf(t, n) = Vacant
  BY <1>6, <1>8
<1>10. \A k \in Locs(t) :
          IdAt(t, k) = IdAt(s, k) /\ KeyAt(t, k) = KeyAt(s, k) /\ DataAt(t, k) = DataAt(s, k)
  BY <1>6, <1>8
<1>11. \A k \in Slots(s) : k # n => GenOf(t, k) = GenOf(s, k) /\ LocOf(t, k) = LocOf(s, k)
  BY <1>6, <1>8
<1>12. \A k \in Locs(t) :
          /\ HasEntry(t, KeyAt(s, k)) <=> HasEntry(s, KeyAt(s, k))
          /\ HasEntry(s, KeyAt(s, k)) => Entry(t, KeyAt(s, k)) = Entry(s, KeyAt(s, k))
  BY <1>6, <1>8
<1>13. Exact(t)
  BY <1>1, <1>2, <1>9, <1>10, <1>11, <1>12, Loses DEF l
<1>14. Cells(t) = Without(s, n)
  <2> DEFINE C(k) == MapCell(KeyAt(s, k), IdAt(s, k), DataAt(s, k).expr)
             D(k) == MapCell(KeyAt(t, k), IdAt(t, k), DataAt(t, k).expr)
  <2>1. Cells(t) = {D(k) : k \in Locs(s) \ {l}}
    BY <1>9 DEF Cells
  <2>2. \A k \in Locs(s) \ {l} : D(k) = C(k)
    BY <1>9, <1>10
  <2>3. Without(s, n) = {C(k) : k \in Locs(s) \ {l}}
    BY <1>1, <1>2, OtherCells DEF l, Without
  <2> HIDE DEF C, D
  <2> QED
    BY <2>1, <2>2, <2>3
<1> QED
  BY <1>8, <1>9, <1>13, <1>14 DEF StoreOK

\* remove, of a cell of the bases: it dies and leaves a tombstone.
LEMMA DiscardBaseOK ==
    ASSUME NEW s, NEW T, NEW n \in Slots(s), NEW t, StoreOK(s, T),
           LocOf(s, n) \in Locs(s), ~ InOverlay(LocOf(s, n)), t = Discard(s, FreshId(n))
    PROVE  StoreOK(t, T) /\ Slots(t) = Slots(s) /\ Cells(t) = Without(s, n)
<1> DEFINE l == LocOf(s, n)
           p == PosOf(l)
           u == Release(s, FreshId(n))
           data == DataAt(u, l)
<1>1. Shaped(s) /\ Indexed(s) /\ Within(s, T) /\ Exact(s)
  BY DEF StoreOK
<1>2. Resolve(s, FreshId(n)) = l /\ l \in Locs(s) /\ Pair(DataAt(s, l)) = KeyAt(s, l)
  BY <1>1, GetsPlace
<1>3. \/ l.at = "packed" /\ t = RemovePacked(u, FreshId(n), p)
      \/ l.at = "param" /\ t = RemoveParam(u, FreshId(n), p)
  <2>1. l.at = "packed" \/ l.at = "param"
    BY <1>2, PlaceForms DEF InOverlay
  <2>2. CASE l.at = "packed"
    BY <1>2, <2>2, Zenon DEF Discard, PosOf
  <2>3. CASE l.at = "param"
    BY <1>2, <2>3, Zenon DEF Discard, PosOf
  <2> QED
    BY <2>1, <2>2, <2>3
<1>4. ~ InOverlay(l)
  OBVIOUS
<1> HIDE DEF l, u
<1>5. /\ Shaped(u) /\ Indexed(u) /\ Within(u, T)
      /\ u.shadowed = s.shadowed /\ u.dead = s.dead
      /\ u.pshadowed = s.pshadowed /\ u.pdead = s.pdead
      /\ Slots(u) = Slots(s) /\ LocOf(u, n) = Vacant
      /\ \A k \in Slots(s) : k # n => GenOf(u, k) = GenOf(s, k) /\ LocOf(u, k) = LocOf(s, k)
      /\ Locs(u) = Locs(s)
      /\ \A k : IdAt(u, k) = IdAt(s, k) /\ KeyAt(u, k) = KeyAt(s, k) /\ DataAt(u, k) = DataAt(s, k)
      /\ \A k : HasEntry(u, k) = HasEntry(s, k) /\ Entry(u, k) = Entry(s, k)
  <2>1. u = Release(s, FreshId(n))
    BY DEF u
  <2> QED
    BY <2>1, Released, Z3
<1>6. PICK b :
         /\ IsTrue(b)
         /\ \/ l.at = "packed" /\ t = [PushOverlay(u, FreshId(n), data, b) EXCEPT
                                          !.dead = @ \cup {p}, !.live = @ - 1]
            \/ l.at = "param" /\ t = [UnlinkParamPosition(PushOverlay(u, FreshId(n), data, b), p) EXCEPT
                                         !.pdead = @ \cup {p}, !.live = @ - 1]
  <2>1. l.at = "packed" => data = PackedData(u, p)
    BY DEF DataAt, PosOf
  <2>2. l.at = "param" => data = ParamData(u, p)
    BY DEF DataAt, PosOf
  <2> HIDE DEF data
  <2> QED
    BY <1>3, <2>1, <2>2, Zenon DEF RemovePacked, RemoveParam, IsTrue
<1>7. DOMAIN data = CellShape /\ Pair(data) = KeyAt(s, l)
  <2>1. data = DataAt(s, l)
    BY <1>5
  <2>2. DataAt(s, l) = PackedData(s, l.pos) \/ DataAt(s, l) = ParamData(s, l.pos)
    BY <1>3 DEF DataAt
  <2> HIDE DEF data
  <2>3. DOMAIN DataAt(s, l) = CellShape
    BY <2>2 DEF PackedData, ParamData, Data, CellShape
  <2> QED
    BY <1>2, <2>1, <2>3
<1> HIDE DEF data, p
<1> DEFINE v == PushOverlay(u, FreshId(n), data, b)
<1>8. v = PushOverlay(u, FreshId(n), data, b)
  OBVIOUS
<1>9. KeyAt(s, l)[1] \in T
  BY <1>1, <1>2, PlaceForms, LivePositions DEF Within, KeyAt
<1>10. /\ DOMAIN v = Fields /\ v.base = u.base /\ v.shadowed = u.shadowed /\ v.dead = u.dead
       /\ v.pbase = u.pbase /\ v.pshadowed = u.pshadowed /\ v.pdead = u.pdead
  <2>1. DOMAIN u = Fields
    BY <1>5 DEF Shaped
  <2> QED
    BY <2>1 DEF PushOverlay, Fields
<1> HIDE DEF v
<1>11. /\ Shaped(v) /\ Indexed(v) /\ Within(v, T)
       /\ Slots(v) = Slots(u)
       /\ \A k : GenOf(v, k) = GenOf(u, k) /\ LocOf(v, k) = LocOf(u, k)
       /\ Locs(v) = Locs(u)
       /\ \A k \in Locs(u) : /\ IdAt(v, k) = IdAt(u, k) /\ KeyAt(v, k) = KeyAt(u, k)
                             /\ DataAt(v, k) = DataAt(u, k)
       /\ \A k : k # KeyAt(s, l) => /\ HasEntry(v, k) <=> HasEntry(u, k)
                                    /\ HasEntry(u, k) => Entry(v, k) = Entry(u, k)
  <2>1. Pair(data)[1] \in T
    BY <1>7, <1>9
  <2>2. IsTrue(b) /\ DOMAIN data = CellShape /\ Shaped(u) /\ Indexed(u) /\ Within(u, T)
    BY <1>5, <1>6, <1>7
  <2>3. /\ Shaped(v) /\ Indexed(v)
        /\ Slots(v) = Slots(u)
        /\ \A k : GenOf(v, k) = GenOf(u, k) /\ LocOf(v, k) = LocOf(u, k)
        /\ \A S : Within(u, S) /\ Pair(data)[1] \in S => Within(v, S)
        /\ Locs(v) = Locs(u)
        /\ \A k \in Locs(u) : /\ IdAt(v, k) = IdAt(u, k) /\ KeyAt(v, k) = KeyAt(u, k)
                              /\ DataAt(v, k) = DataAt(u, k)
        /\ \A k : k # Pair(data) => /\ HasEntry(v, k) <=> HasEntry(u, k)
                                    /\ HasEntry(u, k) => Entry(v, k) = Entry(u, k)
    BY <1>8, <2>2, PushedTombstone
  <2> QED
    BY <1>7, <2>1, <2>2, <2>3
<1>12. /\ DOMAIN t = Fields /\ t.arena = v.arena /\ t.base = v.base /\ t.pbase = v.pbase
       /\ t.overlay = v.overlay /\ t.byCell = v.byCell
       /\ t.shadowed = v.shadowed /\ t.pshadowed = v.pshadowed
       /\ t.dead = v.dead \cup (IF l.at = "packed" THEN {p} ELSE {})
       /\ t.pdead = v.pdead \cup (IF l.at = "param" THEN {p} ELSE {})
  <2>1. CASE l.at = "packed" /\ t = [v EXCEPT !.dead = @ \cup {p}, !.live = @ - 1]
    BY <1>10, <2>1 DEF Fields
  <2>2. CASE l.at = "param" /\ t = [UnlinkParamPosition(v, p) EXCEPT !.pdead = @ \cup {p}, !.live = @ - 1]
    BY <1>10, <2>2 DEF Fields, UnlinkParamPosition
  <2> QED
    BY <1>6, <2>1, <2>2 DEF v
<1>13. Shaped(t) /\ Indexed(t) /\ Within(t, T)
  <2>1. \/ l.at = "packed" /\ l.pos \in 1 .. Len(v.base)
        \/ l.at = "param" /\ l.pos \in 1 .. Len(v.pbase)
    BY <1>2, <1>4, <1>5, <1>11, PlaceForms, LivePositions DEF InOverlay
  <2>2. /\ t.shadowed \cup t.dead \subseteq 1 .. Len(t.base)
        /\ t.pshadowed \cup t.pdead \subseteq 1 .. Len(t.pbase)
    BY <1>11, <1>12, <2>1 DEF Shaped, p, PosOf
  <2> QED
    BY <1>11, <1>12, <2>2 DEF Shaped, Indexed, Within
<1>14. /\ Locs(t) = Locs(v) \ {l}
       /\ \A k : IdAt(t, k) = IdAt(v, k) /\ KeyAt(t, k) = KeyAt(v, k) /\ DataAt(t, k) = DataAt(v, k)
  <2>1. l \in Locs(v) /\ p = l.pos
    BY <1>2, <1>5, <1>11 DEF p, PosOf
  <2>2. t.shadowed \cup t.dead = v.shadowed \cup v.dead \cup (IF l.at = "packed" THEN {l.pos} ELSE {})
    BY <1>12, <2>1
  <2>3. t.pshadowed \cup t.pdead = v.pshadowed \cup v.pdead \cup (IF l.at = "param" THEN {l.pos} ELSE {})
    BY <1>12, <2>1
  <2> QED
    BY <1>4, <1>11, <1>12, <2>1, <2>2, <2>3, Hides
<1>15. /\ Slots(t) = Slots(v)
       /\ \A k : GenOf(t, k) = GenOf(v, k) /\ LocOf(t, k) = LocOf(v, k)
       /\ \A k : HasEntry(t, k) = HasEntry(v, k) /\ Entry(t, k) = Entry(v, k)
  BY <1>12 DEF Slots, GenOf, LocOf, HasEntry, Entry
<1>16. Locs(t) = Locs(s) \ {l} /\ Slots(t) = Slots(s) /\ LocOf(t, n) = Vacant
  BY <1>5, <1>11, <1>14, <1>15
<1>17. \A k \in Locs(t) :
          IdAt(t, k) = IdAt(s, k) /\ KeyAt(t, k) = KeyAt(s, k) /\ DataAt(t, k) = DataAt(s, k)
  BY <1>5, <1>11, <1>14
<1>18. \A k \in Slots(s) : k # n => GenOf(t, k) = GenOf(s, k) /\ LocOf(t, k) = LocOf(s, k)
  BY <1>5, <1>11, <1>15
<1>19. \A k \in Locs(t) :
          /\ HasEntry(t, KeyAt(s, k)) <=> HasEntry(s, KeyAt(s, k))
          /\ HasEntry(s, KeyAt(s, k)) => Entry(t, KeyAt(s, k)) = Entry(s, KeyAt(s, k))
  <2>1. \A k \in Locs(t) : KeyAt(s, k) # KeyAt(s, l)
    BY <1>1, <1>2, <1>16 DEF Exact
  <2> QED
    BY <1>5, <1>11, <1>15, <2>1
<1>20. Exact(t)
  BY <1>1, <1>2, <1>16, <1>17, <1>18, <1>19, Loses DEF l
<1>21. Cells(t) = Without(s, n)
  <2> DEFINE C(k) == MapCell(KeyAt(s, k), IdAt(s, k), DataAt(s, k).expr)
             D(k) == MapCell(KeyAt(t, k), IdAt(t, k), DataAt(t, k).expr)
  <2>1. Cells(t) = {D(k) : k \in Locs(s) \ {l}}
    BY <1>16 DEF Cells
  <2>2. \A k \in Locs(s) \ {l} : D(k) = C(k)
    BY <1>16, <1>17
  <2>3. Without(s, n) = {C(k) : k \in Locs(s) \ {l}}
    BY <1>1, <1>2, OtherCells DEF l, Without
  <2> HIDE DEF C, D
  <2> QED
    BY <2>1, <2>2, <2>3
<1> QED
  BY <1>13, <1>16, <1>20, <1>21 DEF StoreOK

\* remove: the cell of the identity goes, and none when there is none.
LEMMA DiscardOK ==
    ASSUME NEW s, NEW T, NEW n, NEW t, StoreOK(s, T), t = Discard(s, FreshId(n))
    PROVE  StoreOK(t, T) /\ Slots(t) = Slots(s) /\ Cells(t) = Without(s, n)
<1>1. Shaped(s) /\ Exact(s)
  BY DEF StoreOK
<1>2. CASE n \in Slots(s) /\ LocOf(s, n) \in Locs(s)
  BY <1>2, DiscardOverlayOK, DiscardBaseOK
<1>3. CASE ~ (n \in Slots(s) /\ LocOf(s, n) \in Locs(s))
  <2>1. Resolve(s, FreshId(n)) = Vacant
    <3>1. n \in Slots(s) => LocOf(s, n) = Vacant
      BY <1>1, <1>3 DEF Exact
    <3>2. FreshId(n)[1] = n /\ DOMAIN s.arena = Slots(s)
      BY <1>1, LivePositions DEF FreshId
    <3> QED
      BY <3>1, <3>2 DEF Resolve, LocOf
  <2>2. t = s
    <3>1. Vacant.at = "vacant"
      BY DEF Vacant
    <3> HIDE DEF Vacant
    <3> QED
      BY <2>1, <3>1 DEF Discard
  <2>3. \A k \in Locs(s) : IdAt(s, k) # FreshId(n)
    <3> SUFFICES ASSUME NEW k \in Locs(s), IdAt(s, k) = FreshId(n)
                 PROVE  FALSE
      OBVIOUS
    <3>1. PICK m \in Slots(s) : IdAt(s, k) = FreshId(m) /\ LocOf(s, m) = k
      BY <1>1 DEF Exact
    <3>2. m = n
      BY <3>1 DEF FreshId
    <3> QED
      BY <1>3, <3>1, <3>2
  <2>4. \A c \in Cells(s) : c.id # FreshId(n)
    BY <2>3 DEF Cells, MapCell
  <2>5. Without(s, n) = Cells(s)
    BY <2>4 DEF Without
  <2> QED
    BY <2>2, <2>5
<1> QED
  BY <1>2, <1>3

MapKeys(s) == {c.key : c \in Cells(s)}

\* What adding expressions of E to the pairs in K makes of the cells of s: those
\* of other pairs stay, those of K keep their identities, new ones have fresh
\* identities, all of them.
Gathers(s, t, K, E) ==
    /\ Slots(s) \subseteq Slots(t)
    /\ MapKeys(t) = MapKeys(s) \cup K
    /\ \A c \in Cells(s) : c.key \notin K => c \in Cells(t)
    /\ \A c \in Cells(s) : c.key \in K =>
          \E d \in Cells(t) : d.key = c.key /\ d.id = c.id /\ \E e \in E : d.expr = Plus(c.expr, e)
    /\ \A d \in Cells(t) : d.key \notin MapKeys(s) =>
          \E n \in Slots(t) : n \notin Slots(s) /\ d.id = FreshId(n)
    /\ \A n \in Slots(t) : n \notin Slots(s) =>
          \E d \in Cells(t) : d.key \notin MapKeys(s) /\ d.id = FreshId(n)

\* The pairs of cells, and of entries, are those of targets that were created.
LEMMA KeysWithin ==
    ASSUME NEW s, NEW T, StoreOK(s, T)
    PROVE  /\ \A l \in Locs(s) : KeyAt(s, l)[1] \in T
           /\ \A k : HasEntry(s, k) => k[1] \in T
           /\ MapKeys(s) = {KeyAt(s, l) : l \in Locs(s)}
<1>1. Shaped(s) /\ Indexed(s) /\ Within(s, T)
  BY DEF StoreOK
<1>2. \A l \in Locs(s) : KeyAt(s, l)[1] \in T
  <2> SUFFICES ASSUME NEW l \in Locs(s)
               PROVE  KeyAt(s, l)[1] \in T
    OBVIOUS
  <2>1. \/ l.at = "packed" /\ l.pos \in 1 .. Len(s.base)
        \/ l.at = "param" /\ l.pos \in 1 .. Len(s.pbase)
        \/ l.at = "overlay" /\ l.pos \in 1 .. Len(s.overlay)
    BY <1>1, PlaceForms, LivePositions
  <2> QED
    BY <1>1, <2>1 DEF Within, KeyAt
<1>3. \A k : HasEntry(s, k) => k[1] \in T
  <2> SUFFICES ASSUME NEW k \in DOMAIN s.byCell
               PROVE  k[1] \in T
    BY DEF HasEntry
  <2>1. s.byCell[k] \in 1 .. Len(s.overlay) /\ s.overlay[s.byCell[k]].data.key = k
    BY <1>1 DEF Indexed
  <2> QED
    BY <1>1, <2>1 DEF Within
<1>4. MapKeys(s) = {KeyAt(s, l) : l \in Locs(s)}
  <2>1. \A l : MapCell(KeyAt(s, l), IdAt(s, l), DataAt(s, l).expr).key = KeyAt(s, l)
    BY DEF MapCell
  <2> QED
    BY <2>1 DEF MapKeys, Cells
<1> QED
  BY <1>2, <1>3, <1>4

\* t is s with the cells of a target at new places, one for each of vs.
NewRow(s, t, target, vs, places) ==
    /\ \A k, m \in 1 .. Len(places) : vs[k] = vs[m] => k = m
    /\ Slots(s) \subseteq Slots(t)
    /\ \A n : n \in Slots(t) /\ n \notin Slots(s) <=> \E k \in 1 .. Len(places) : n = Len(s.arena) + k
    /\ \A k \in 1 .. Len(places) :
          /\ GenOf(t, Len(s.arena) + k) = 0
          /\ LocOf(t, Len(s.arena) + k) = places[k]
          /\ places[k] \notin Locs(s) /\ ~ InOverlay(places[k])
          /\ IdAt(t, places[k]) = FreshId(Len(s.arena) + k)
          /\ KeyAt(t, places[k]) = <<target, vs[k]>>
    /\ Locs(t) = Locs(s) \cup {places[k] : k \in 1 .. Len(places)}
    /\ \A n \in Slots(s) : GenOf(t, n) = GenOf(s, n) /\ LocOf(t, n) = LocOf(s, n)
    /\ \A l \in Locs(s) : /\ IdAt(t, l) = IdAt(s, l) /\ KeyAt(t, l) = KeyAt(s, l)
                          /\ DataAt(t, l) = DataAt(s, l)
    /\ \A k : HasEntry(t, k) = HasEntry(s, k) /\ Entry(t, k) = Entry(s, k)

\* The pairs of a row of n variables.
RowPairs(target, vs, n) == {<<target, vs[k]>> : k \in 1 .. n}

\* A row of cells at new places, for a target that had none.
LEMMA RowAppended ==
    ASSUME NEW s, NEW T, NEW target, NEW t, NEW vs, NEW places, NEW E,
           StoreOK(s, T), target \notin T,
           NewRow(s, t, target, vs, places)
    PROVE  Exact(t) /\ Gathers(s, t, RowPairs(target, vs, Len(places)), E)
<1> DEFINE c == Len(places)
           a == Len(s.arena)
           K == {<<target, vs[k]>> : k \in 1 .. c}
<1>1. Exact(s)
  BY DEF StoreOK
<1> USE DEF NewRow
<1>2. /\ \A l \in Locs(s) : KeyAt(s, l)[1] \in T
      /\ \A k : HasEntry(s, k) => k[1] \in T
  BY KeysWithin
<1>3. \A v : <<target, v>>[1] = target
  OBVIOUS
<1>4. \A l \in Locs(t) \ Locs(s) : \E k \in 1 .. c : l = places[k]
  OBVIOUS
<1>5. Exact(t)
  <2>1. \A n \in Slots(t) : n \notin Slots(s) =>
           /\ GenOf(t, n) = 0 /\ LocOf(t, n) \in Locs(t)
           /\ IdAt(t, LocOf(t, n)) = FreshId(n)
    <3> SUFFICES ASSUME NEW n \in Slots(t), n \notin Slots(s)
                 PROVE  /\ GenOf(t, n) = 0 /\ LocOf(t, n) \in Locs(t)
                        /\ IdAt(t, LocOf(t, n)) = FreshId(n)
      OBVIOUS
    <3>1. PICK k \in 1 .. c : n = a + k
      OBVIOUS
    <3> QED
      BY <3>1
  <2>2. \A l \in Locs(t) \ Locs(s) : \E n \in Slots(t) : n \notin Slots(s) /\ LocOf(t, n) = l
    <3> SUFFICES ASSUME NEW l \in Locs(t) \ Locs(s)
                 PROVE  \E n \in Slots(t) : n \notin Slots(s) /\ LocOf(t, n) = l
      OBVIOUS
    <3>1. PICK k \in 1 .. c : l = places[k]
      BY <1>4
    <3>2. a + k \in Slots(t) /\ a + k \notin Slots(s) /\ LocOf(t, a + k) = l
      BY <3>1
    <3> QED
      BY <3>2
  <2>3. \A l, m \in Locs(t) \ Locs(s) : KeyAt(t, l) = KeyAt(t, m) => l = m
    <3> SUFFICES ASSUME NEW l \in Locs(t) \ Locs(s), NEW m \in Locs(t) \ Locs(s),
                        KeyAt(t, l) = KeyAt(t, m)
                 PROVE  l = m
      OBVIOUS
    <3>1. PICK k \in 1 .. c : l = places[k]
      BY <1>4
    <3>2. PICK j \in 1 .. c : m = places[j]
      BY <1>4
    <3>3. <<target, vs[k]>> = <<target, vs[j]>>
      BY <3>1, <3>2
    <3>4. vs[k] = vs[j]
      BY <3>3
    <3> QED
      BY <3>1, <3>2, <3>4
  <2>4. \A l \in Locs(t) \ Locs(s) : KeyAt(t, l)[1] = target
    BY <1>3, <1>4
  <2>5. \A l \in Locs(t) \ Locs(s), m \in Locs(s) : KeyAt(t, l) # KeyAt(s, m)
    BY <1>2, <2>4
  <2>6. \A l \in Locs(t) \ Locs(s) : ~ InOverlay(l) /\ ~ HasEntry(t, KeyAt(t, l))
    BY <1>2, <1>4, <2>4
  <2>7. \A l \in Locs(t) \ Locs(s) :
           IF InOverlay(l)
           THEN HasEntry(t, KeyAt(t, l)) /\ Entry(t, KeyAt(t, l)) = PosOf(l)
           ELSE ~ HasEntry(t, KeyAt(t, l))
    BY <2>6
  <2>8. Locs(s) \subseteq Locs(t)
    OBVIOUS
  <2>9. \A l \in Locs(s) :
           /\ HasEntry(t, KeyAt(s, l)) <=> HasEntry(s, KeyAt(s, l))
           /\ HasEntry(s, KeyAt(s, l)) => Entry(t, KeyAt(s, l)) = Entry(s, KeyAt(s, l))
    OBVIOUS
  <2>10. \A l \in Locs(s) : IdAt(t, l) = IdAt(s, l) /\ KeyAt(t, l) = KeyAt(s, l)
    OBVIOUS
  <2> QED
    BY <1>1, <2>1, <2>2, <2>3, <2>5, <2>7, <2>8, <2>9, <2>10, Gains
<1> DEFINE C(l) == MapCell(KeyAt(s, l), IdAt(s, l), DataAt(s, l).expr)
           D(l) == MapCell(KeyAt(t, l), IdAt(t, l), DataAt(t, l).expr)
<1>6. Cells(s) = {C(l) : l \in Locs(s)} /\ Cells(t) = {D(l) : l \in Locs(t)}
  BY DEF Cells
<1>7. \A l \in Locs(s) : D(l) = C(l)
  OBVIOUS
<1>8. \A l : /\ C(l).key = KeyAt(s, l) /\ C(l).id = IdAt(s, l)
             /\ D(l).key = KeyAt(t, l) /\ D(l).id = IdAt(t, l)
  BY DEF MapCell
<1>9. \A k \in 1 .. c : D(places[k]).key = <<target, vs[k]>> /\ D(places[k]).id = FreshId(a + k)
  BY <1>8
<1> HIDE DEF C, D
<1>10. Cells(t) = Cells(s) \cup {D(places[k]) : k \in 1 .. c}
  BY <1>6, <1>7
<1>11. \A d \in Cells(s) : d.key[1] \in T
  BY <1>2, <1>6, <1>8
<1>12. MapKeys(t) = MapKeys(s) \cup K
  <2>1. \A x : x \in MapKeys(s) <=> \E d \in Cells(s) : d.key = x
    BY DEF MapKeys
  <2>2. \A x : x \in MapKeys(t) <=> \E d \in Cells(t) : d.key = x
    BY DEF MapKeys
  <2>3. ASSUME NEW x \in MapKeys(t) PROVE x \in MapKeys(s) \cup K
    <3>1. PICK d \in Cells(t) : d.key = x
      BY <2>2
    <3>2. CASE d \in Cells(s)
      BY <2>1, <3>1, <3>2
    <3>3. CASE d \notin Cells(s)
      <4>1. PICK k \in 1 .. c : d = D(places[k])
        BY <1>10, <3>3
      <4> QED
        BY <1>9, <3>1, <4>1
    <3> QED
      BY <3>2, <3>3
  <2>4. ASSUME NEW x \in K PROVE x \in MapKeys(t)
    <3>1. PICK k \in 1 .. c : x = <<target, vs[k]>>
      OBVIOUS
    <3>2. D(places[k]) \in Cells(t)
      BY <1>10
    <3> QED
      BY <1>9, <2>2, <3>1, <3>2
  <2>5. ASSUME NEW x \in MapKeys(s) PROVE x \in MapKeys(t)
    <3>1. PICK d \in Cells(s) : d.key = x
      BY <2>1
    <3> QED
      BY <1>10, <2>2, <3>1
  <2> HIDE DEF K
  <2> QED
    BY <2>3, <2>4, <2>5
<1>13. \A d \in Cells(s) : d.key \notin K
  BY <1>3, <1>11
<1>14. \A d \in Cells(t) : d.key \notin MapKeys(s) =>
          \E n \in Slots(t) : n \notin Slots(s) /\ d.id = FreshId(n)
  <2> SUFFICES ASSUME NEW d \in Cells(t), d.key \notin MapKeys(s)
               PROVE  \E n \in Slots(t) : n \notin Slots(s) /\ d.id = FreshId(n)
    OBVIOUS
  <2>1. d \notin Cells(s)
    BY DEF MapKeys
  <2>2. PICK k \in 1 .. c : d = D(places[k])
    BY <1>10, <2>1
  <2>3. a + k \in Slots(t) /\ a + k \notin Slots(s)
    OBVIOUS
  <2> QED
    BY <1>9, <2>2, <2>3
<1>15. \A n \in Slots(t) : n \notin Slots(s) =>
          \E d \in Cells(t) : d.key \notin MapKeys(s) /\ d.id = FreshId(n)
  <2> SUFFICES ASSUME NEW n \in Slots(t), n \notin Slots(s)
               PROVE  \E d \in Cells(t) : d.key \notin MapKeys(s) /\ d.id = FreshId(n)
    OBVIOUS
  <2>1. PICK k \in 1 .. c : n = a + k
    OBVIOUS
  <2>2. D(places[k]) \in Cells(t) /\ D(places[k]).id = FreshId(n)
    BY <1>9, <1>10, <2>1
  <2>3. D(places[k]).key \notin MapKeys(s)
    <3>1. D(places[k]).key[1] = target
      <4>1. D(places[k]).key = <<target, vs[k]>>
        BY <1>9, <2>1
      <4> QED
        BY <1>3, <4>1
    <3>2. \A x \in MapKeys(s) : x[1] \in T
      BY <1>11 DEF MapKeys
    <3> QED
      BY <3>1, <3>2
  <2> QED
    BY <2>2, <2>3
<1>16. \A d \in Cells(s) : d \in Cells(t)
  BY <1>10
<1>17. Gathers(s, t, K, E)
  BY <1>12, <1>13, <1>14, <1>15, <1>16 DEF Gathers
<1>18. RowPairs(target, vs, Len(places)) = K
  BY DEF RowPairs
<1> QED
  BY <1>5, <1>17, <1>18

\* append_constant_row: a row of constants for a target that had no cells.
LEMMA ConstantRowOK ==
    ASSUME NEW s, NEW T, NEW target, NEW row, NEW E, NEW t,
           StoreOK(s, T), target \notin T, DOMAIN row \in SUBSET Int, IsFiniteSet(DOMAIN row),
           t = AppendConstantRow(s, target, row)
    PROVE  /\ StoreOK(t, T \cup {target})
           /\ Gathers(s, t, {<<target, v>> : v \in DOMAIN row}, E)
<1> DEFINE vs == Ascending(DOMAIN row)
           n == Len(s.base)
           a == Len(s.arena)
           c == Len(vs)
           cells == [k \in DOMAIN vs |->
                       [key |-> <<target, vs[k]>>, value |-> row[vs[k]], id |-> FreshId(a + k)]]
           slots == [k \in DOMAIN vs |-> Slot(Packed(n + k))]
           places == [k \in 1 .. c |-> Packed(n + k)]
<1>1. Shaped(s) /\ Indexed(s) /\ Within(s, T) /\ DOMAIN s = Fields
  BY DEF StoreOK, Shaped
<1>2. /\ c \in Nat /\ DOMAIN vs = 1 .. c
      /\ \A k, m \in 1 .. c : vs[k] = vs[m] => k = m
      /\ {<<target, v>> : v \in DOMAIN row} = {<<target, vs[k]>> : k \in 1 .. c}
  <2>1. /\ IsList(vs) /\ c = Cardinality(DOMAIN row) /\ c \in Nat
        /\ \A k \in 1 .. c : vs[k] \in DOMAIN row
        /\ \A k, m \in 1 .. c : vs[k] = vs[m] => k = m
        /\ \A v \in DOMAIN row : \E k \in 1 .. c : vs[k] = v
    BY AscendingLists
  <2> HIDE DEF vs
  <2>2. DOMAIN vs = 1 .. c
    BY <2>1, ListIsSeq
  <2>3. {<<target, v>> : v \in DOMAIN row} = {<<target, vs[k]>> : k \in 1 .. c}
    BY <2>1
  <2> QED
    BY <2>1, <2>2, <2>3
<1>3. /\ DOMAIN t = Fields
      /\ t.base = Joined(s.base, cells) /\ t.arena = Joined(s.arena, slots)
      /\ t.shadowed = s.shadowed /\ t.dead = s.dead
      /\ t.pbase = s.pbase /\ t.pshadowed = s.pshadowed /\ t.pdead = s.pdead
      /\ t.overlay = s.overlay /\ t.byCell = s.byCell
  <2> DEFINE more == s.base \o cells
             arena == s.arena \o slots
             here == vs
  <2>1. /\ t.base = more /\ t.arena = arena /\ DOMAIN t = Fields
        /\ t.shadowed = s.shadowed /\ t.dead = s.dead
        /\ t.pbase = s.pbase /\ t.pshadowed = s.pshadowed /\ t.pdead = s.pdead
        /\ t.overlay = s.overlay /\ t.byCell = s.byCell
    BY <1>1 DEF AppendConstantRow, Fields
  <2> QED
    BY <2>1 DEF Joined
<1> HIDE DEF vs, c
<1>4. /\ IsList(cells) /\ Len(cells) = c
      /\ \A k \in 1 .. c : /\ cells[k].key = <<target, vs[k]>> /\ cells[k].id = FreshId(a + k)
  <2>1. DOMAIN cells = 1 .. c /\ cells = [k \in 1 .. c |-> cells[k]]
    BY <1>2
  <2>2. \A k \in 1 .. c : /\ cells[k].key = <<target, vs[k]>> /\ cells[k].id = FreshId(a + k)
    BY <1>2
  <2> HIDE DEF cells
  <2> QED
    BY <1>2, <2>1, <2>2, ListOfFunction
<1>5. /\ IsList(slots) /\ Len(slots) = c
      /\ \A k \in 1 .. c :
            DOMAIN slots[k] = {"gen", "loc"} /\ slots[k].gen = 0 /\ slots[k].loc = Packed(n + k)
  <2>1. DOMAIN slots = 1 .. c /\ slots = [k \in 1 .. c |-> slots[k]]
    BY <1>2
  <2>2. \A k \in 1 .. c :
           DOMAIN slots[k] = {"gen", "loc"} /\ slots[k].gen = 0 /\ slots[k].loc = Packed(n + k)
    BY <1>2 DEF Slot
  <2> HIDE DEF slots
  <2> QED
    BY <1>2, <2>1, <2>2, ListOfFunction
<1>6. Len(places) = c /\ \A k \in 1 .. c : places[k] = Packed(n + k)
  <2>1. DOMAIN places = 1 .. c /\ places = [k \in 1 .. c |-> places[k]]
        /\ \A k \in 1 .. c : places[k] = Packed(n + k)
    OBVIOUS
  <2> HIDE DEF places
  <2> QED
    BY <1>2, <2>1, ListOfFunction
<1> HIDE DEF cells, slots, places
<1>7. /\ IsList(t.arena) /\ Slots(s) \subseteq Slots(t)
      /\ \A i : i \in Slots(t) /\ i \notin Slots(s) <=> \E k \in 1 .. c : i = a + k
      /\ \A k \in Slots(t) : DOMAIN t.arena[k] = {"gen", "loc"} /\ t.arena[k].gen \in Nat
      /\ \A k \in 1 .. c : GenOf(t, a + k) = 0 /\ LocOf(t, a + k) = places[k]
      /\ \A k \in Slots(s) : GenOf(t, k) = GenOf(s, k) /\ LocOf(t, k) = LocOf(s, k)
  <2>1. SlotList(slots) /\ t.arena = Joined(s.arena, slots)
    BY <1>3, <1>5 DEF SlotList
  <2>2. /\ IsList(t.arena) /\ Slots(s) \subseteq Slots(t)
        /\ \A i : i \in Slots(t) /\ i \notin Slots(s) <=> \E k \in 1 .. Len(slots) : i = a + k
        /\ \A k \in Slots(t) : DOMAIN t.arena[k] = {"gen", "loc"} /\ t.arena[k].gen \in Nat
        /\ \A k \in 1 .. Len(slots) : GenOf(t, a + k) = slots[k].gen /\ LocOf(t, a + k) = slots[k].loc
        /\ \A k \in Slots(s) : GenOf(t, k) = GenOf(s, k) /\ LocOf(t, k) = LocOf(s, k)
    <3>1. /\ IsList(t.arena) /\ Slots(s) \subseteq Slots(t)
          /\ \A k \in Slots(s) : GenOf(t, k) = GenOf(s, k) /\ LocOf(t, k) = LocOf(s, k)
      BY <1>1, <2>1, SlotsAppended
    <3>2. \A k \in Slots(t) : DOMAIN t.arena[k] = {"gen", "loc"} /\ t.arena[k].gen \in Nat
      BY <1>1, <2>1, SlotsAppended
    <3>3. \A k \in 1 .. Len(slots) : GenOf(t, a + k) = slots[k].gen /\ LocOf(t, a + k) = slots[k].loc
      <4>1. \A k \in 1 .. Len(slots) : /\ GenOf(t, SlotAfter(s, k)) = GenIn(slots, k)
                                       /\ LocOf(t, SlotAfter(s, k)) = LocIn(slots, k)
        <5> DEFINE q == t.arena
                   r == Joined(s.arena, slots)
        <5>1. Shaped(s) /\ SlotList(slots) /\ q = r
          BY <1>1, <2>1
        <5>2. ASSUME NEW k \in 1 .. Len(slots) PROVE GenOf(t, SlotAfter(s, k)) = GenIn(slots, k)
          BY <5>1, <5>2, SlotsHold
        <5>3. ASSUME NEW k \in 1 .. Len(slots) PROVE LocOf(t, SlotAfter(s, k)) = LocIn(slots, k)
          BY <5>1, <5>3, SlotsHold
        <5> QED
          BY <5>2, <5>3
      <4> QED
        BY <4>1 DEF GenIn, LocIn, SlotAfter
    <3>4. \A i : i \in Slots(t) /\ i \notin Slots(s) <=> \E k \in 1 .. Len(slots) : i = a + k
      BY <1>1, <2>1, SlotsAppended
    <3> QED
      BY <3>1, <3>2, <3>3, <3>4
  <2> HIDE DEF a
  <2> QED
    BY <1>5, <1>6, <2>2
<1>8. /\ IsList(t.base) /\ Len(t.base) = n + c /\ n \in Nat
      /\ \A i \in 1 .. n : t.base[i] = s.base[i]
      /\ \A k \in 1 .. c : t.base[n + k] = cells[k]
      /\ \A i \in 1 .. (n + c) : i \in 1 .. n \/ \E k \in 1 .. c : i = n + k
      /\ DOMAIN t.base = 1 .. (n + c) /\ DOMAIN s.base = 1 .. n
  <2>1. IsList(s.base)
    BY <1>1 DEF Shaped
  <2>2. /\ IsList(t.base) /\ Len(t.base) = n + Len(cells)
        /\ \A i \in 1 .. n : t.base[i] = s.base[i]
        /\ \A k \in 1 .. Len(cells) : t.base[n + k] = cells[k]
        /\ \A i \in 1 .. Len(t.base) : i \in 1 .. n \/ \E k \in 1 .. Len(cells) : i = n + k
    <3>1. IsList(BaseOf(s)) /\ IsList(cells) /\ BaseOf(t) = Joined(BaseOf(s), cells)
      BY <1>3, <1>4, <2>1 DEF BaseOf
    <3>2. /\ IsList(BaseOf(t)) /\ Len(BaseOf(t)) = Len(BaseOf(s)) + Len(cells)
          /\ \A i \in 1 .. Len(BaseOf(s)) : BaseOf(t)[i] = BaseOf(s)[i]
          /\ \A i \in 1 .. Len(cells) : BaseOf(t)[Len(BaseOf(s)) + i] = cells[i]
          /\ \A i \in 1 .. Len(BaseOf(t)) :
                i \in 1 .. Len(BaseOf(s)) \/ \E k \in 1 .. Len(cells) : i = Len(BaseOf(s)) + k
      BY <3>1, ListJoin
    <3> QED
      BY <3>2 DEF BaseOf
  <2>3. n \in Nat /\ DOMAIN s.base = 1 .. n
    BY <2>1, ListIsSeq
  <2>4. DOMAIN t.base = 1 .. Len(t.base)
    BY <2>2, ListIsSeq
  <2> QED
    BY <1>4, <2>2, <2>3, <2>4
<1> HIDE DEF n, a
<1>9. Shaped(t)
  <2>1. \A i \in 1 .. n : i \in 1 .. (n + c)
    BY <1>2, <1>8
  <2>2. /\ t.shadowed \cup t.dead \subseteq 1 .. Len(t.base)
        /\ t.pshadowed \cup t.pdead \subseteq 1 .. Len(t.pbase)
    BY <1>1, <1>3, <1>8, <2>1 DEF Shaped, n
  <2> QED
    BY <1>1, <1>3, <1>7, <1>8, <2>2 DEF Shaped, Slots
<1>10. Indexed(t)
  BY <1>1, <1>3 DEF Indexed
<1>11. Within(t, T \cup {target})
  <2>1. \A k \in 1 .. c : cells[k].key[1] = target
    BY <1>4
  <2>2. \A i \in 1 .. n : s.base[i].key[1] \in T
    BY <1>1 DEF Within, n
  <2>3. ASSUME NEW i \in 1 .. Len(t.base)
        PROVE  t.base[i].key[1] \in T \cup {target}
    <3>1. CASE i \in 1 .. n
      <4>1. t.base[i] = s.base[i]
        BY <1>8, <3>1
      <4> QED
        BY <2>2, <3>1, <4>1
    <3>2. CASE \E k \in 1 .. c : i = n + k
      <4>1. PICK k \in 1 .. c : i = n + k
        BY <3>2
      <4>2. t.base[i] = cells[k]
        BY <1>8, <4>1
      <4> QED
        BY <2>1, <4>1, <4>2
    <3> QED
      BY <1>8, <3>1, <3>2
  <2> QED
    BY <1>1, <1>3, <2>3 DEF Within
<1>12. /\ PackedLive(t) = PackedLive(s) \cup {n + k : k \in 1 .. c} /\ PackedLive(s) \subseteq 1 .. n
       /\ ParamLive(t) = ParamLive(s) /\ OverlayLive(t) = OverlayLive(s)
  <2>1. ParamLive(t) = ParamLive(s) /\ OverlayLive(t) = OverlayLive(s)
    BY <1>3 DEF ParamLive, OverlayLive
  <2>2. s.shadowed \cup s.dead \subseteq 1 .. n
    BY <1>1 DEF Shaped, n
  <2>3. \A i : i \in 1 .. (n + c) <=> i \in 1 .. n \/ \E k \in 1 .. c : i = n + k
    <3>1. n \in Nat /\ c \in Nat /\ \A i \in 1 .. (n + c) : i \in 1 .. n \/ \E k \in 1 .. c : i = n + k
      BY <1>2, <1>8
    <3>2. \A i : (i \in 1 .. n \/ \E k \in 1 .. c : i = n + k) => i \in 1 .. (n + c)
      BY <3>1
    <3> QED
      BY <3>1, <3>2
  <2>4. \A k \in 1 .. c : n + k \notin 1 .. n
    BY <1>2, <1>8
  <2>5. \A i : i \in PackedLive(t) <=> i \in PackedLive(s) \/ \E k \in 1 .. c : i = n + k
    BY <1>3, <1>8, <2>2, <2>3, <2>4 DEF PackedLive
  <2>6. PackedLive(s) \subseteq 1 .. n
    BY <1>8 DEF PackedLive
  <2> QED
    BY <2>1, <2>5, <2>6
<1>13. Locs(t) = Locs(s) \cup {places[k] : k \in 1 .. c}
  <2>1. {places[k] : k \in 1 .. c} = {Packed(i) : i \in {n + k : k \in 1 .. c}}
    BY <1>6
  <2> QED
    BY <1>12, <2>1 DEF Locs
<1>14. \A k \in 1 .. c :
          /\ places[k] \notin Locs(s) /\ ~ InOverlay(places[k])
          /\ IdAt(t, places[k]) = FreshId(a + k)
          /\ KeyAt(t, places[k]) = <<target, vs[k]>>
  <2> SUFFICES ASSUME NEW k \in 1 .. c
               PROVE  /\ places[k] \notin Locs(s) /\ ~ InOverlay(places[k])
                      /\ IdAt(t, places[k]) = FreshId(a + k)
                      /\ KeyAt(t, places[k]) = <<target, vs[k]>>
    OBVIOUS
  <2>1. places[k] = Packed(n + k) /\ n + k \notin PackedLive(s)
    BY <1>2, <1>6, <1>8, <1>12
  <2>2. Packed(n + k).at = "packed" /\ Packed(n + k).pos = n + k
    BY DEF Packed
  <2>3. t.base[n + k] = cells[k]
    BY <1>8
  <2>4. places[k] \notin Locs(s)
    BY <2>1, PlaceForms
  <2>5. IdAt(t, places[k]) = FreshId(a + k) /\ KeyAt(t, places[k]) = <<target, vs[k]>>
    BY <1>4, <2>1, <2>2, <2>3 DEF IdAt, KeyAt
  <2> QED
    BY <2>1, <2>2, <2>4, <2>5 DEF InOverlay
<1>15. \A l \in Locs(s) : /\ IdAt(t, l) = IdAt(s, l) /\ KeyAt(t, l) = KeyAt(s, l)
                          /\ DataAt(t, l) = DataAt(s, l)
  <2> SUFFICES ASSUME NEW l \in Locs(s)
               PROVE  /\ IdAt(t, l) = IdAt(s, l) /\ KeyAt(t, l) = KeyAt(s, l)
                      /\ DataAt(t, l) = DataAt(s, l)
    OBVIOUS
  <2>1. l.at \in {"packed", "param", "overlay"} /\ (l.at = "packed" => l.pos \in 1 .. n)
    BY <1>12, PlaceForms
  <2>2. l.at = "packed" => t.base[l.pos] = s.base[l.pos]
    BY <1>8, <2>1
  <2> QED
    BY <1>3, <2>1, <2>2 DEF IdAt, KeyAt, DataAt, PackedData, ParamData, OverlayData
<1>16. \A k : HasEntry(t, k) = HasEntry(s, k) /\ Entry(t, k) = Entry(s, k)
  BY <1>3 DEF HasEntry, Entry
<1>17. Exact(t) /\ Gathers(s, t, {<<target, vs[k]>> : k \in 1 .. c}, E)
  <2>1. \A k, m \in 1 .. Len(places) : vs[k] = vs[m] => k = m
    BY <1>2, <1>6
  <2>2. \A i : i \in Slots(t) /\ i \notin Slots(s) <=> \E k \in 1 .. Len(places) : i = Len(s.arena) + k
    BY <1>6, <1>7 DEF a
  <2>3. \A k \in 1 .. Len(places) :
           /\ GenOf(t, Len(s.arena) + k) = 0
           /\ LocOf(t, Len(s.arena) + k) = places[k]
           /\ places[k] \notin Locs(s) /\ ~ InOverlay(places[k])
           /\ IdAt(t, places[k]) = FreshId(Len(s.arena) + k)
           /\ KeyAt(t, places[k]) = <<target, vs[k]>>
    BY <1>6, <1>7, <1>14 DEF a
  <2>4. Locs(t) = Locs(s) \cup {places[k] : k \in 1 .. Len(places)}
    BY <1>6, <1>13
  <2>5. /\ Slots(s) \subseteq Slots(t)
        /\ \A k \in Slots(s) : GenOf(t, k) = GenOf(s, k) /\ LocOf(t, k) = LocOf(s, k)
    BY <1>7
  <2>6. NewRow(s, t, target, vs, places)
    BY <1>15, <1>16, <2>1, <2>2, <2>3, <2>4, <2>5, Zenon DEF NewRow
  <2>7. Exact(t) /\ Gathers(s, t, RowPairs(target, vs, Len(places)), E)
    BY <2>6, RowAppended
  <2> QED
    BY <1>6, <2>7 DEF RowPairs
<1> QED
  BY <1>2, <1>9, <1>10, <1>11, <1>17 DEF StoreOK

\* append_param_row: a row of scaled parameters for a target that had no cells.
LEMMA ParamRowOK ==
    ASSUME NEW s, NEW T, NEW target, NEW row, NEW layout, NEW E, NEW t,
           StoreOK(s, T), target \notin T, DOMAIN row \in SUBSET Int, IsFiniteSet(DOMAIN row),
           t = AppendParamRow(s, target, row, layout)
    PROVE  /\ StoreOK(t, T \cup {target})
           /\ Gathers(s, t, {<<target, v>> : v \in DOMAIN row}, E)
<1> DEFINE vs == Ascending(DOMAIN row)
           n == Len(s.pbase)
           a == Len(s.arena)
           c == Len(vs)
           cells == [k \in DOMAIN vs |->
                       [key |-> <<target, vs[k]>>, param |-> row[vs[k]].param,
                        scale |-> row[vs[k]].scale,
                        cached |-> row[vs[k]].cached, id |-> FreshId(a + k)]]
           slots == [k \in DOMAIN vs |-> Slot(ParamBase(n + k))]
           places == [k \in 1 .. c |-> ParamBase(n + k)]
<1>1. Shaped(s) /\ Indexed(s) /\ Within(s, T) /\ DOMAIN s = Fields
  BY DEF StoreOK, Shaped
<1>2. /\ c \in Nat /\ DOMAIN vs = 1 .. c
      /\ \A k, m \in 1 .. c : vs[k] = vs[m] => k = m
      /\ {<<target, v>> : v \in DOMAIN row} = {<<target, vs[k]>> : k \in 1 .. c}
  <2>1. /\ IsList(vs) /\ c = Cardinality(DOMAIN row) /\ c \in Nat
        /\ \A k \in 1 .. c : vs[k] \in DOMAIN row
        /\ \A k, m \in 1 .. c : vs[k] = vs[m] => k = m
        /\ \A v \in DOMAIN row : \E k \in 1 .. c : vs[k] = v
    BY AscendingLists
  <2> HIDE DEF vs
  <2>2. DOMAIN vs = 1 .. c
    BY <2>1, ListIsSeq
  <2>3. {<<target, v>> : v \in DOMAIN row} = {<<target, vs[k]>> : k \in 1 .. c}
    BY <2>1
  <2> QED
    BY <2>1, <2>2, <2>3
<1>3. /\ DOMAIN t = Fields
      /\ t.pbase = Joined(s.pbase, cells) /\ t.arena = Joined(s.arena, slots)
      /\ t.shadowed = s.shadowed /\ t.dead = s.dead
      /\ t.base = s.base /\ t.pshadowed = s.pshadowed /\ t.pdead = s.pdead
      /\ t.overlay = s.overlay /\ t.byCell = s.byCell
  <2> DEFINE more == s.pbase \o cells
             arena == s.arena \o slots
             here == vs
  <2>1. /\ t.pbase = more /\ t.arena = arena /\ DOMAIN t = Fields
        /\ t.shadowed = s.shadowed /\ t.dead = s.dead
        /\ t.base = s.base /\ t.pshadowed = s.pshadowed /\ t.pdead = s.pdead
        /\ t.overlay = s.overlay /\ t.byCell = s.byCell
    BY <1>1 DEF AppendParamRow, Fields
  <2> QED
    BY <2>1 DEF Joined
<1> HIDE DEF vs, c
<1>4. /\ IsList(cells) /\ Len(cells) = c
      /\ \A k \in 1 .. c : /\ cells[k].key = <<target, vs[k]>> /\ cells[k].id = FreshId(a + k)
                           /\ DOMAIN cells[k] = {"key", "param", "scale", "cached", "id"}
  <2>1. DOMAIN cells = 1 .. c /\ cells = [k \in 1 .. c |-> cells[k]]
    BY <1>2
  <2>2. \A k \in 1 .. c : /\ cells[k].key = <<target, vs[k]>> /\ cells[k].id = FreshId(a + k)
                           /\ DOMAIN cells[k] = {"key", "param", "scale", "cached", "id"}
    BY <1>2
  <2> HIDE DEF cells
  <2> QED
    BY <1>2, <2>1, <2>2, ListOfFunction
<1>5. /\ IsList(slots) /\ Len(slots) = c
      /\ \A k \in 1 .. c :
            DOMAIN slots[k] = {"gen", "loc"} /\ slots[k].gen = 0 /\ slots[k].loc = ParamBase(n + k)
  <2>1. DOMAIN slots = 1 .. c /\ slots = [k \in 1 .. c |-> slots[k]]
    BY <1>2
  <2>2. \A k \in 1 .. c :
           DOMAIN slots[k] = {"gen", "loc"} /\ slots[k].gen = 0 /\ slots[k].loc = ParamBase(n + k)
    BY <1>2 DEF Slot
  <2> HIDE DEF slots
  <2> QED
    BY <1>2, <2>1, <2>2, ListOfFunction
<1>6. Len(places) = c /\ \A k \in 1 .. c : places[k] = ParamBase(n + k)
  <2>1. DOMAIN places = 1 .. c /\ places = [k \in 1 .. c |-> places[k]]
        /\ \A k \in 1 .. c : places[k] = ParamBase(n + k)
    OBVIOUS
  <2> HIDE DEF places
  <2> QED
    BY <1>2, <2>1, ListOfFunction
<1> HIDE DEF cells, slots, places
<1>7. /\ IsList(t.arena) /\ Slots(s) \subseteq Slots(t)
      /\ \A i : i \in Slots(t) /\ i \notin Slots(s) <=> \E k \in 1 .. c : i = a + k
      /\ \A k \in Slots(t) : DOMAIN t.arena[k] = {"gen", "loc"} /\ t.arena[k].gen \in Nat
      /\ \A k \in 1 .. c : GenOf(t, a + k) = 0 /\ LocOf(t, a + k) = places[k]
      /\ \A k \in Slots(s) : GenOf(t, k) = GenOf(s, k) /\ LocOf(t, k) = LocOf(s, k)
  <2>1. SlotList(slots) /\ t.arena = Joined(s.arena, slots)
    BY <1>3, <1>5 DEF SlotList
  <2>2. /\ IsList(t.arena) /\ Slots(s) \subseteq Slots(t)
        /\ \A i : i \in Slots(t) /\ i \notin Slots(s) <=> \E k \in 1 .. Len(slots) : i = a + k
        /\ \A k \in Slots(t) : DOMAIN t.arena[k] = {"gen", "loc"} /\ t.arena[k].gen \in Nat
        /\ \A k \in 1 .. Len(slots) : GenOf(t, a + k) = slots[k].gen /\ LocOf(t, a + k) = slots[k].loc
        /\ \A k \in Slots(s) : GenOf(t, k) = GenOf(s, k) /\ LocOf(t, k) = LocOf(s, k)
    <3>1. /\ IsList(t.arena) /\ Slots(s) \subseteq Slots(t)
          /\ \A k \in Slots(s) : GenOf(t, k) = GenOf(s, k) /\ LocOf(t, k) = LocOf(s, k)
      BY <1>1, <2>1, SlotsAppended
    <3>2. \A k \in Slots(t) : DOMAIN t.arena[k] = {"gen", "loc"} /\ t.arena[k].gen \in Nat
      BY <1>1, <2>1, SlotsAppended
    <3>3. \A k \in 1 .. Len(slots) : GenOf(t, a + k) = slots[k].gen /\ LocOf(t, a + k) = slots[k].loc
      <4>1. \A k \in 1 .. Len(slots) : /\ GenOf(t, SlotAfter(s, k)) = GenIn(slots, k)
                                       /\ LocOf(t, SlotAfter(s, k)) = LocIn(slots, k)
        <5> DEFINE q == t.arena
                   r == Joined(s.arena, slots)
        <5>1. Shaped(s) /\ SlotList(slots) /\ q = r
          BY <1>1, <2>1
        <5>2. ASSUME NEW k \in 1 .. Len(slots) PROVE GenOf(t, SlotAfter(s, k)) = GenIn(slots, k)
          BY <5>1, <5>2, SlotsHold
        <5>3. ASSUME NEW k \in 1 .. Len(slots) PROVE LocOf(t, SlotAfter(s, k)) = LocIn(slots, k)
          BY <5>1, <5>3, SlotsHold
        <5> QED
          BY <5>2, <5>3
      <4> QED
        BY <4>1 DEF GenIn, LocIn, SlotAfter
    <3>4. \A i : i \in Slots(t) /\ i \notin Slots(s) <=> \E k \in 1 .. Len(slots) : i = a + k
      BY <1>1, <2>1, SlotsAppended
    <3> QED
      BY <3>1, <3>2, <3>3, <3>4
  <2> HIDE DEF a
  <2> QED
    BY <1>5, <1>6, <2>2
<1>8. /\ IsList(t.pbase) /\ Len(t.pbase) = n + c /\ n \in Nat
      /\ \A i \in 1 .. n : t.pbase[i] = s.pbase[i]
      /\ \A k \in 1 .. c : t.pbase[n + k] = cells[k]
      /\ \A i \in 1 .. (n + c) : i \in 1 .. n \/ \E k \in 1 .. c : i = n + k
      /\ DOMAIN t.pbase = 1 .. (n + c) /\ DOMAIN s.pbase = 1 .. n
  <2>1. IsList(s.pbase)
    BY <1>1 DEF Shaped
  <2>2. /\ IsList(t.pbase) /\ Len(t.pbase) = n + Len(cells)
        /\ \A i \in 1 .. n : t.pbase[i] = s.pbase[i]
        /\ \A k \in 1 .. Len(cells) : t.pbase[n + k] = cells[k]
        /\ \A i \in 1 .. Len(t.pbase) : i \in 1 .. n \/ \E k \in 1 .. Len(cells) : i = n + k
    <3>1. IsList(ParamBaseOf(s)) /\ IsList(cells) /\ ParamBaseOf(t) = Joined(ParamBaseOf(s), cells)
      BY <1>3, <1>4, <2>1 DEF ParamBaseOf
    <3>2. /\ IsList(ParamBaseOf(t)) /\ Len(ParamBaseOf(t)) = Len(ParamBaseOf(s)) + Len(cells)
          /\ \A i \in 1 .. Len(ParamBaseOf(s)) : ParamBaseOf(t)[i] = ParamBaseOf(s)[i]
          /\ \A i \in 1 .. Len(cells) : ParamBaseOf(t)[Len(ParamBaseOf(s)) + i] = cells[i]
          /\ \A i \in 1 .. Len(ParamBaseOf(t)) :
                i \in 1 .. Len(ParamBaseOf(s)) \/ \E k \in 1 .. Len(cells) : i = Len(ParamBaseOf(s)) + k
      BY <3>1, ListJoin
    <3> QED
      BY <3>2 DEF ParamBaseOf
  <2>3. n \in Nat /\ DOMAIN s.pbase = 1 .. n
    BY <2>1, ListIsSeq
  <2>4. DOMAIN t.pbase = 1 .. Len(t.pbase)
    BY <2>2, ListIsSeq
  <2> QED
    BY <1>4, <2>2, <2>3, <2>4
<1> HIDE DEF n, a
<1>9. Shaped(t)
  <2>1. \A i \in 1 .. n : i \in 1 .. (n + c)
    BY <1>2, <1>8
  <2>2. /\ t.shadowed \cup t.dead \subseteq 1 .. Len(t.base)
        /\ t.pshadowed \cup t.pdead \subseteq 1 .. Len(t.pbase)
    BY <1>1, <1>3, <1>8, <2>1 DEF Shaped, n
  <2>3. \A i \in 1 .. n : DOMAIN s.pbase[i] = {"key", "param", "scale", "cached", "id"}
    BY <1>1 DEF Shaped, n
  <2>4. ASSUME NEW i \in 1 .. Len(t.pbase)
        PROVE  DOMAIN t.pbase[i] = {"key", "param", "scale", "cached", "id"}
    <3>1. CASE i \in 1 .. n
      <4>1. t.pbase[i] = s.pbase[i]
        BY <1>8, <3>1
      <4> QED
        BY <2>3, <3>1, <4>1
    <3>2. CASE \E k \in 1 .. c : i = n + k
      <4>1. PICK k \in 1 .. c : i = n + k
        BY <3>2
      <4>2. t.pbase[i] = cells[k]
        BY <1>8, <4>1
      <4> QED
        BY <1>4, <4>1, <4>2
    <3> QED
      BY <1>8, <3>1, <3>2
  <2> QED
    BY <1>1, <1>3, <1>7, <1>8, <2>2, <2>4 DEF Shaped, Slots
<1>10. Indexed(t)
  BY <1>1, <1>3 DEF Indexed
<1>11. Within(t, T \cup {target})
  <2>1. \A k \in 1 .. c : cells[k].key[1] = target
    BY <1>4
  <2>2. \A i \in 1 .. n : s.pbase[i].key[1] \in T
    BY <1>1 DEF Within, n
  <2>3. ASSUME NEW i \in 1 .. Len(t.pbase)
        PROVE  t.pbase[i].key[1] \in T \cup {target}
    <3>1. CASE i \in 1 .. n
      <4>1. t.pbase[i] = s.pbase[i]
        BY <1>8, <3>1
      <4> QED
        BY <2>2, <3>1, <4>1
    <3>2. CASE \E k \in 1 .. c : i = n + k
      <4>1. PICK k \in 1 .. c : i = n + k
        BY <3>2
      <4>2. t.pbase[i] = cells[k]
        BY <1>8, <4>1
      <4> QED
        BY <2>1, <4>1, <4>2
    <3> QED
      BY <1>8, <3>1, <3>2
  <2> QED
    BY <1>1, <1>3, <2>3 DEF Within
<1>12. /\ ParamLive(t) = ParamLive(s) \cup {n + k : k \in 1 .. c} /\ ParamLive(s) \subseteq 1 .. n
       /\ PackedLive(t) = PackedLive(s) /\ OverlayLive(t) = OverlayLive(s)
  <2>1. PackedLive(t) = PackedLive(s) /\ OverlayLive(t) = OverlayLive(s)
    BY <1>3 DEF PackedLive, OverlayLive
  <2>2. s.pshadowed \cup s.pdead \subseteq 1 .. n
    BY <1>1 DEF Shaped, n
  <2>3. \A i : i \in 1 .. (n + c) <=> i \in 1 .. n \/ \E k \in 1 .. c : i = n + k
    <3>1. n \in Nat /\ c \in Nat /\ \A i \in 1 .. (n + c) : i \in 1 .. n \/ \E k \in 1 .. c : i = n + k
      BY <1>2, <1>8
    <3>2. \A i : (i \in 1 .. n \/ \E k \in 1 .. c : i = n + k) => i \in 1 .. (n + c)
      BY <3>1
    <3> QED
      BY <3>1, <3>2
  <2>4. \A k \in 1 .. c : n + k \notin 1 .. n
    BY <1>2, <1>8
  <2>5. \A i : i \in ParamLive(t) <=> i \in ParamLive(s) \/ \E k \in 1 .. c : i = n + k
    BY <1>3, <1>8, <2>2, <2>3, <2>4 DEF ParamLive
  <2>6. ParamLive(s) \subseteq 1 .. n
    BY <1>8 DEF ParamLive
  <2> QED
    BY <2>1, <2>5, <2>6
<1>13. Locs(t) = Locs(s) \cup {places[k] : k \in 1 .. c}
  <2>1. {places[k] : k \in 1 .. c} = {ParamBase(i) : i \in {n + k : k \in 1 .. c}}
    BY <1>6
  <2> QED
    BY <1>12, <2>1 DEF Locs
<1>14. \A k \in 1 .. c :
          /\ places[k] \notin Locs(s) /\ ~ InOverlay(places[k])
          /\ IdAt(t, places[k]) = FreshId(a + k)
          /\ KeyAt(t, places[k]) = <<target, vs[k]>>
  <2> SUFFICES ASSUME NEW k \in 1 .. c
               PROVE  /\ places[k] \notin Locs(s) /\ ~ InOverlay(places[k])
                      /\ IdAt(t, places[k]) = FreshId(a + k)
                      /\ KeyAt(t, places[k]) = <<target, vs[k]>>
    OBVIOUS
  <2>1. places[k] = ParamBase(n + k) /\ n + k \notin ParamLive(s)
    BY <1>2, <1>6, <1>8, <1>12
  <2>2. ParamBase(n + k).at = "param" /\ ParamBase(n + k).pos = n + k
    BY DEF ParamBase
  <2>3. t.pbase[n + k] = cells[k]
    BY <1>8
  <2>4. places[k] \notin Locs(s)
    BY <2>1, PlaceForms
  <2>5. IdAt(t, places[k]) = FreshId(a + k) /\ KeyAt(t, places[k]) = <<target, vs[k]>>
    BY <1>4, <2>1, <2>2, <2>3 DEF IdAt, KeyAt
  <2> QED
    BY <2>1, <2>2, <2>4, <2>5 DEF InOverlay
<1>15. \A l \in Locs(s) : /\ IdAt(t, l) = IdAt(s, l) /\ KeyAt(t, l) = KeyAt(s, l)
                          /\ DataAt(t, l) = DataAt(s, l)
  <2> SUFFICES ASSUME NEW l \in Locs(s)
               PROVE  /\ IdAt(t, l) = IdAt(s, l) /\ KeyAt(t, l) = KeyAt(s, l)
                      /\ DataAt(t, l) = DataAt(s, l)
    OBVIOUS
  <2>1. l.at \in {"packed", "param", "overlay"} /\ (l.at = "param" => l.pos \in 1 .. n)
    BY <1>12, PlaceForms
  <2>2. l.at = "param" => t.pbase[l.pos] = s.pbase[l.pos]
    BY <1>8, <2>1
  <2> QED
    BY <1>3, <2>1, <2>2 DEF IdAt, KeyAt, DataAt, PackedData, ParamData, OverlayData
<1>16. \A k : HasEntry(t, k) = HasEntry(s, k) /\ Entry(t, k) = Entry(s, k)
  BY <1>3 DEF HasEntry, Entry
<1>17. Exact(t) /\ Gathers(s, t, {<<target, vs[k]>> : k \in 1 .. c}, E)
  <2>1. \A k, m \in 1 .. Len(places) : vs[k] = vs[m] => k = m
    BY <1>2, <1>6
  <2>2. \A i : i \in Slots(t) /\ i \notin Slots(s) <=> \E k \in 1 .. Len(places) : i = Len(s.arena) + k
    BY <1>6, <1>7 DEF a
  <2>3. \A k \in 1 .. Len(places) :
           /\ GenOf(t, Len(s.arena) + k) = 0
           /\ LocOf(t, Len(s.arena) + k) = places[k]
           /\ places[k] \notin Locs(s) /\ ~ InOverlay(places[k])
           /\ IdAt(t, places[k]) = FreshId(Len(s.arena) + k)
           /\ KeyAt(t, places[k]) = <<target, vs[k]>>
    BY <1>6, <1>7, <1>14 DEF a
  <2>4. Locs(t) = Locs(s) \cup {places[k] : k \in 1 .. Len(places)}
    BY <1>6, <1>13
  <2>5. /\ Slots(s) \subseteq Slots(t)
        /\ \A k \in Slots(s) : GenOf(t, k) = GenOf(s, k) /\ LocOf(t, k) = LocOf(s, k)
    BY <1>7
  <2>6. NewRow(s, t, target, vs, places)
    BY <1>15, <1>16, <2>1, <2>2, <2>3, <2>4, <2>5, Zenon DEF NewRow
  <2>7. Exact(t) /\ Gathers(s, t, RowPairs(target, vs, Len(places)), E)
    BY <2>6, RowAppended
  <2> QED
    BY <1>6, <2>7 DEF RowPairs
<1> QED
  BY <1>2, <1>9, <1>10, <1>11, <1>17 DEF StoreOK

\* More targets may have been created.
LEMMA StoreGrows ==
    ASSUME NEW s, NEW T, NEW U, StoreOK(s, T), T \subseteq U
    PROVE  StoreOK(s, U)
  BY DEF StoreOK, Within

\* The lookup by pair finds the identity of the one place with the pair.
LEMMA LiveIdFinds ==
    ASSUME NEW s, NEW T, NEW key, StoreOK(s, T)
    PROVE  /\ LiveId(s, key) = {IdAt(s, l) : l \in {m \in Locs(s) : KeyAt(s, m) = key}}
           /\ \A l \in Locs(s) : KeyAt(s, l) = key => LiveId(s, key) = {IdAt(s, l)}
           /\ (\A l \in Locs(s) : KeyAt(s, l) # key) => LiveId(s, key) = {}
<1>1. Shaped(s) /\ Indexed(s) /\ Exact(s)
  BY DEF StoreOK
<1>2. \A l, m \in Locs(s) : KeyAt(s, l) = KeyAt(s, m) => l = m
  BY <1>1 DEF Exact
<1>3. \A l \in Locs(s) :
         IF InOverlay(l)
         THEN HasEntry(s, KeyAt(s, l)) /\ Entry(s, KeyAt(s, l)) = PosOf(l)
         ELSE ~ HasEntry(s, KeyAt(s, l))
  BY <1>1 DEF Exact
<1>4. ASSUME NEW l \in Locs(s), KeyAt(s, l) = key
      PROVE  LiveId(s, key) = {IdAt(s, l)}
  <2>1. \/ l.at = "packed" /\ l = Packed(l.pos) /\ l.pos \in PackedLive(s)
        \/ l.at = "param" /\ l = ParamBase(l.pos) /\ l.pos \in ParamLive(s)
        \/ l.at = "overlay" /\ l = Overlay(l.pos) /\ l.pos \in OverlayLive(s)
    BY PlaceForms
  <2>2. CASE l.at = "overlay"
    <3>1. HasEntry(s, key) /\ Entry(s, key) = l.pos /\ l.pos \in OverlayLive(s)
      BY <1>3, <1>4, <2>1, <2>2 DEF InOverlay, PosOf
    <3>2. ~ s.overlay[l.pos].tombstone /\ IdAt(s, l) = s.overlay[l.pos].id
      BY <2>2, <3>1 DEF OverlayLive, IdAt
    <3> QED
      BY <3>1, <3>2 DEF LiveId, HasEntry, Entry
  <2>3. CASE l.at = "packed"
    <3>1. ~ HasEntry(s, key) /\ l.pos \in PackedLive(s) /\ l = Packed(l.pos)
      BY <1>3, <1>4, <2>1, <2>3 DEF InOverlay
    <3>2. s.base[l.pos].key = key /\ IdAt(s, l) = s.base[l.pos].id
      BY <1>4, <2>3 DEF KeyAt, IdAt
    <3>3. \A i \in BasePosition(s, key) : i = l.pos
      <4> SUFFICES ASSUME NEW i \in BasePosition(s, key) PROVE i = l.pos
        OBVIOUS
      <4>1. Packed(i) \in Locs(s) /\ s.base[i].key = key
        BY PlaceForms DEF BasePosition
      <4>2. KeyAt(s, Packed(i)) = key
        BY <4>1 DEF KeyAt, Packed
      <4>3. Packed(i) = l
        BY <1>2, <1>4, <4>1, <4>2
      <4> QED
        BY <4>3 DEF Packed
    <3>4. l.pos \in BasePosition(s, key) /\ l.pos \in Int
      BY <1>1, <3>1, <3>2, LivePositions DEF BasePosition
    <3>5. First(BasePosition(s, key)) = l.pos
      BY <3>3, <3>4 DEF First
    <3> QED
      BY <3>1, <3>2, <3>4, <3>5 DEF LiveId, HasEntry
  <2>4. CASE l.at = "param"
    <3>1. ~ HasEntry(s, key) /\ l.pos \in ParamLive(s) /\ l = ParamBase(l.pos)
      BY <1>3, <1>4, <2>1, <2>4 DEF InOverlay
    <3>2. s.pbase[l.pos].key = key /\ IdAt(s, l) = s.pbase[l.pos].id
      BY <1>4, <2>4 DEF KeyAt, IdAt
    <3>3. BasePosition(s, key) = {}
      <4> SUFFICES ASSUME NEW i \in BasePosition(s, key) PROVE FALSE
        OBVIOUS
      <4>1. Packed(i) \in Locs(s) /\ s.base[i].key = key
        BY PlaceForms DEF BasePosition
      <4>2. KeyAt(s, Packed(i)) = key /\ Packed(i).at = "packed"
        BY <4>1 DEF KeyAt, Packed
      <4>3. Packed(i) = l
        BY <1>2, <1>4, <4>1, <4>2
      <4> QED
        BY <2>4, <4>2, <4>3
    <3>4. \A i \in ParamPosition(s, key) : i = l.pos
      <4> SUFFICES ASSUME NEW i \in ParamPosition(s, key) PROVE i = l.pos
        OBVIOUS
      <4>1. ParamBase(i) \in Locs(s) /\ s.pbase[i].key = key
        BY PlaceForms DEF ParamPosition
      <4>2. KeyAt(s, ParamBase(i)) = key
        BY <4>1 DEF KeyAt, ParamBase
      <4>3. ParamBase(i) = l
        BY <1>2, <1>4, <4>1, <4>2
      <4> QED
        BY <4>3 DEF ParamBase
    <3>5. l.pos \in ParamPosition(s, key)
      BY <3>1, <3>2 DEF ParamPosition
    <3>6. {s.pbase[i].id : i \in ParamPosition(s, key)} = {s.pbase[l.pos].id}
      BY <3>4, <3>5
    <3> QED
      BY <3>1, <3>2, <3>3, <3>6 DEF LiveId, HasEntry
  <2> QED
    BY <2>1, <2>2, <2>3, <2>4
<1>5. ASSUME \A l \in Locs(s) : KeyAt(s, l) # key
      PROVE  LiveId(s, key) = {}
  <2>1. CASE HasEntry(s, key)
    <3>1. s.byCell[key] \in 1 .. Len(s.overlay) /\ s.overlay[s.byCell[key]].data.key = key
      BY <1>1, <2>1 DEF Indexed, HasEntry
    <3>2. DOMAIN s.overlay = 1 .. Len(s.overlay)
      BY <1>1, LivePositions
    <3> DEFINE i == s.byCell[key]
    <3>3. ASSUME ~ s.overlay[i].tombstone PROVE FALSE
      <4>1. i \in OverlayLive(s)
        BY <3>1, <3>2, <3>3 DEF OverlayLive
      <4>2. Overlay(i) \in Locs(s)
        BY <4>1, PlaceForms
      <4>3. KeyAt(s, Overlay(i)) = key
        BY <3>1 DEF KeyAt, Overlay
      <4> QED
        BY <1>5, <4>2, <4>3
    <3> QED
      BY <2>1, <3>3 DEF LiveId, HasEntry
  <2>2. CASE ~ HasEntry(s, key)
    <3>1. BasePosition(s, key) = {}
      <4> SUFFICES ASSUME NEW i \in BasePosition(s, key) PROVE FALSE
        OBVIOUS
      <4>1. Packed(i) \in Locs(s) /\ s.base[i].key = key
        BY PlaceForms DEF BasePosition
      <4>2. KeyAt(s, Packed(i)) = key
        BY <4>1 DEF KeyAt, Packed
      <4> QED
        BY <1>5, <4>1, <4>2
    <3>2. ParamPosition(s, key) = {}
      <4> SUFFICES ASSUME NEW i \in ParamPosition(s, key) PROVE FALSE
        OBVIOUS
      <4>1. ParamBase(i) \in Locs(s) /\ s.pbase[i].key = key
        BY PlaceForms DEF ParamPosition
      <4>2. KeyAt(s, ParamBase(i)) = key
        BY <4>1 DEF KeyAt, ParamBase
      <4> QED
        BY <1>5, <4>1, <4>2
    <3> QED
      BY <2>2, <3>1, <3>2 DEF LiveId, HasEntry
  <2> QED
    BY <2>1, <2>2
<1>6. LiveId(s, key) = {IdAt(s, l) : l \in {m \in Locs(s) : KeyAt(s, m) = key}}
  <2> DEFINE P == {m \in Locs(s) : KeyAt(s, m) = key}
  <2>1. CASE P = {}
    BY <1>5, <2>1
  <2>2. CASE P # {}
    <3>1. PICK l \in P : TRUE
      BY <2>2
    <3>2. P = {l}
      BY <1>2, <3>1
    <3>3. l \in Locs(s) /\ KeyAt(s, l) = key
      BY <3>1
    <3> QED
      BY <1>4, <3>2, <3>3
  <2> QED
    BY <2>1, <2>2
<1> QED
  BY <1>4, <1>5, <1>6

\* The cell of a place.
CellIn(s, l) == MapCell(KeyAt(s, l), IdAt(s, l), DataAt(s, l).expr)

\* What a cell is: pair, identity and expression of a place.
LEMMA CellParts ==
    ASSUME NEW s
    PROVE  /\ Cells(s) = {CellIn(s, l) : l \in Locs(s)}
           /\ \A l : CellIn(s, l).key = KeyAt(s, l) /\ CellIn(s, l).id = IdAt(s, l)
                       /\ CellIn(s, l).expr = DataAt(s, l).expr
  BY DEF Cells, CellIn, MapCell

\* Every cell is found by its pair and by its identity, and no two share either.
LEMMA CellsFound ==
    ASSUME NEW s, NEW T, StoreOK(s, T)
    PROVE  /\ \A c \in Cells(s) : \E n \in Slots(s) :
                 /\ LocOf(s, n) \in Locs(s) /\ c = CellIn(s, LocOf(s, n))
                 /\ c.id = FreshId(n) /\ c.key = KeyAt(s, LocOf(s, n))
                 /\ c.expr = DataAt(s, LocOf(s, n)).expr
                 /\ LiveId(s, c.key) = {c.id}
                 /\ Get(s, c.id) = {DataAt(s, LocOf(s, n))}
           /\ \A c, d \in Cells(s) : (c.key = d.key => c = d) /\ (c.id = d.id => c = d)
           /\ \A key : key \notin MapKeys(s) =>
                 LiveId(s, key) = {} /\ \A l \in Locs(s) : KeyAt(s, l) # key
<1>1. Shaped(s) /\ Exact(s)
  BY DEF StoreOK
<1>2. /\ Cells(s) = {CellIn(s, l) : l \in Locs(s)}
      /\ \A l : CellIn(s, l).key = KeyAt(s, l) /\ CellIn(s, l).id = IdAt(s, l)
                  /\ CellIn(s, l).expr = DataAt(s, l).expr
  BY CellParts
<1>3. ASSUME NEW c \in Cells(s)
      PROVE  \E n \in Slots(s) :
                 /\ LocOf(s, n) \in Locs(s) /\ c = CellIn(s, LocOf(s, n))
                 /\ c.id = FreshId(n) /\ c.key = KeyAt(s, LocOf(s, n))
                 /\ c.expr = DataAt(s, LocOf(s, n)).expr
                 /\ LiveId(s, c.key) = {c.id}
                 /\ Get(s, c.id) = {DataAt(s, LocOf(s, n))}
  <2>1. PICK l \in Locs(s) : c = CellIn(s, l)
    BY <1>2
  <2>2. PICK n \in Slots(s) : IdAt(s, l) = FreshId(n) /\ LocOf(s, n) = l
    BY <1>1 DEF Exact
  <2>3. LocOf(s, n) \in Locs(s)
    BY <2>2
  <2>4. Get(s, FreshId(n)) = {DataAt(s, LocOf(s, n))}
    BY <1>1, <2>3, GetsPlace
  <2>5. LiveId(s, KeyAt(s, l)) = {IdAt(s, l)}
    BY LiveIdFinds
  <2> QED
    BY <1>2, <2>1, <2>2, <2>4, <2>5
<1>4. \A c, d \in Cells(s) : (c.key = d.key => c = d) /\ (c.id = d.id => c = d)
  <2>1. \A l, m \in Locs(s) : IdAt(s, l) = IdAt(s, m) => l = m
    BY <1>1, OneIdEach
  <2>2. \A l, m \in Locs(s) : KeyAt(s, l) = KeyAt(s, m) => l = m
    BY <1>1 DEF Exact
  <2> QED
    BY <1>2, <2>1, <2>2
<1>5. ASSUME NEW key, key \notin MapKeys(s)
      PROVE  LiveId(s, key) = {} /\ \A l \in Locs(s) : KeyAt(s, l) # key
  <2>1. \A l \in Locs(s) : KeyAt(s, l) # key
    BY <1>2, <1>5 DEF MapKeys
  <2>2. LiveId(s, key) = {}
    BY <2>1, LiveIdFinds
  <2> QED
    BY <2>1, <2>2
<1> QED
  BY <1>3, <1>4, <1>5

\* A term is added to a cell, which is there or is not (add).
LEMMA AddOK ==
    ASSUME NEW s, NEW T, NEW key, NEW expr, NEW value, NEW t, NEW E,
           StoreOK(s, T), key[1] \in T, expr \in E, t = Add(s, key, expr, value)
    PROVE  StoreOK(t, T) /\ Gathers(s, t, {key}, E)
<1>1. /\ \A c \in Cells(s) : \E n \in Slots(s) :
            /\ LocOf(s, n) \in Locs(s) /\ c = CellIn(s, LocOf(s, n))
            /\ c.id = FreshId(n) /\ c.key = KeyAt(s, LocOf(s, n))
            /\ c.expr = DataAt(s, LocOf(s, n)).expr
            /\ LiveId(s, c.key) = {c.id}
            /\ Get(s, c.id) = {DataAt(s, LocOf(s, n))}
      /\ \A c, d \in Cells(s) : (c.key = d.key => c = d) /\ (c.id = d.id => c = d)
      /\ \A k : k \notin MapKeys(s) =>
            LiveId(s, k) = {} /\ \A l \in Locs(s) : KeyAt(s, l) # k
  BY CellsFound, Zenon
<1>2. \A k, i, e : /\ MapCell(k, i, e).key = k /\ MapCell(k, i, e).id = i
                   /\ MapCell(k, i, e).expr = e
  BY DEF MapCell
<1>3. \A n, k : FreshId(n) = FreshId(k) => n = k
  BY DEF FreshId
<1>4. CASE key \notin MapKeys(s)
  <2>1. t = AddFresh(s, key, expr, value) /\ \A l \in Locs(s) : KeyAt(s, l) # key
    BY <1>1, <1>4 DEF Add
  <2>2. /\ StoreOK(t, T)
        /\ Slots(t) = Slots(s) \cup {NextSlot(s)} /\ NextSlot(s) \notin Slots(s)
        /\ Cells(t) = Cells(s) \cup {MapCell(key, FreshId(NextSlot(s)), expr)}
    BY <2>1, AddFreshOK
  <2>3. MapKeys(t) = MapKeys(s) \cup {key}
    BY <1>2, <2>2 DEF MapKeys
  <2>4. \A c \in Cells(s) : c.key # key
    BY <1>4 DEF MapKeys
  <2> DEFINE new == MapCell(key, FreshId(NextSlot(s)), expr)
  <2>5. new.key = key /\ new.id = FreshId(NextSlot(s)) /\ new \in Cells(t)
    BY <1>2, <2>2
  <2> HIDE DEF new
  <2>6. \A d \in Cells(t) : d.key \notin MapKeys(s) => d = new
    BY <2>2 DEF new, MapKeys
  <2> QED
    BY <1>4, <2>2, <2>3, <2>4, <2>5, <2>6 DEF Gathers
<1>5. CASE key \in MapKeys(s)
  <2>1. PICK c \in Cells(s) : c.key = key
    BY <1>5 DEF MapKeys
  <2>2. PICK n \in Slots(s) :
            /\ LocOf(s, n) \in Locs(s)
            /\ c.id = FreshId(n) /\ c.key = KeyAt(s, LocOf(s, n))
            /\ c.expr = DataAt(s, LocOf(s, n)).expr
            /\ LiveId(s, c.key) = {c.id}
            /\ Get(s, c.id) = {DataAt(s, LocOf(s, n))}
    BY <1>1
  <2> DEFINE old == DataAt(s, LocOf(s, n))
  <2>3. t = Combine(s, FreshId(n), expr, value)
    BY <2>1, <2>2 DEF Add
  <2>4. t = SetExpr(s, FreshId(n), Plus(old.expr, expr), old.cached + value)
    BY <2>2, <2>3 DEF Combine
  <2>5. n \in Slots(s) /\ LocOf(s, n) \in Locs(s)
    BY <2>2
  <2>6. StoreOK(t, T) /\ Slots(t) = Slots(s) /\ Cells(t) = Replaced(s, n, Plus(c.expr, expr))
    <3> HIDE DEF old
    <3>1. StoreOK(t, T) /\ Slots(t) = Slots(s) /\ Cells(t) = Replaced(s, n, Plus(old.expr, expr))
      BY <2>4, <2>5, SetExprOK
    <3> QED
      BY <2>2, <3>1 DEF old
  <2> DEFINE new == MapCell(key, FreshId(n), Plus(c.expr, expr))
  <2>7. Cells(t) = {d \in Cells(s) : d.id # FreshId(n)} \cup {new}
    BY <2>1, <2>2, <2>6 DEF Replaced
  <2>8. new.key = key /\ new.id = c.id /\ new.expr = Plus(c.expr, expr)
    BY <1>2, <2>2
  <2> HIDE DEF new
  <2>9. \A d \in Cells(s) : d.id = FreshId(n) <=> d = c
    BY <1>1, <2>2
  <2>10. \A d \in Cells(s) : d.key = key <=> d = c
    BY <1>1, <2>1
  <2>11. MapKeys(t) = MapKeys(s) \cup {key}
    BY <2>1, <2>7, <2>8, <2>9 DEF MapKeys
  <2>12. \A d \in Cells(t) : d.key \in MapKeys(s)
    BY <1>5, <2>11 DEF MapKeys
  <2> QED
    BY <2>6, <2>7, <2>8, <2>9, <2>10, <2>11, <2>12 DEF Gathers
<1> QED
  BY <1>4, <1>5

\* The recursion of RemoveAll is well defined.
LEMMA RemovingUnfolds ==
    ASSUME NEW s, NEW ids, Len(ids) \in Nat
    PROVE  \A k \in 0 .. Len(ids) :
              Removing(s, ids)[k] = IF k = 0 THEN s ELSE Discard(Removing(s, ids)[k - 1], ids[k])
<1> DEFINE len == Len(ids)
           Does(k, a) == Discard(a, ids[k])
           Follows(g, n) == g = [k \in 0 .. n |-> IF k = 0 THEN s ELSE Does(k, g[k - 1])]
           missing == {n \in Nat : ~\E g : Follows(g, n)}
<1>1. Removing(s, ids) = CHOOSE g : Follows(g, len)
  BY DEF Removing, len
<1>2. len \in Nat
  OBVIOUS
<1> HIDE DEF Does, len
<1>3. missing = {}
  <2> SUFFICES ASSUME missing # {} PROVE FALSE
    OBVIOUS
  <2>1. PICK n \in missing : \A m \in missing : n <= m
    BY LeastNumber
  <2>2. CASE n = 0
    <3>1. Follows([k \in 0 .. 0 |-> s], 0)
      OBVIOUS
    <3> QED
      BY <2>2, <3>1
  <2>3. CASE n # 0
    <3>1. n - 1 \in Nat /\ n - 1 \notin missing
      <4>1. n \in Nat
        OBVIOUS
      <4> HIDE DEF missing
      <4> QED
        BY <2>1, <2>3, <4>1
    <3>2. PICK g : Follows(g, n - 1)
      BY <3>1
    <3> DEFINE h == [k \in 0 .. n |-> IF k = n THEN Does(n, g[n - 1]) ELSE g[k]]
    <3>3. \A k \in 0 .. n : h[k] = IF k = 0 THEN s ELSE Does(k, h[k - 1])
      BY <2>1, <2>3, <3>1, <3>2
    <3>4. Follows(h, n)
      BY <3>3
    <3> QED
      BY <3>4
  <2> QED
    BY <2>2, <2>3
<1>4. \E g : Follows(g, len)
  BY <1>2, <1>3
<1>5. Follows(Removing(s, ids), len)
  <2> HIDE DEF Follows
  <2> QED
    BY Zenon, <1>1, <1>4
<1> QED
  BY <1>5 DEF Does, len

\* The recursion of AddTerms is well defined.
LEMMA AddingUnfolds ==
    ASSUME NEW s, NEW t, NEW exprs, Len(Ascending(DOMAIN exprs)) \in Nat
    PROVE  \A k \in 0 .. Len(Ascending(DOMAIN exprs)) :
              Adding(s, t, exprs)[k] =
                 IF k = 0 THEN s
                 ELSE AddTerm(Adding(s, t, exprs)[k - 1], t, Ascending(DOMAIN exprs)[k],
                                   exprs[Ascending(DOMAIN exprs)[k]])
<1> DEFINE len == Len(Ascending(DOMAIN exprs))
           Does(k, a) == AddTerm(a, t, Ascending(DOMAIN exprs)[k], exprs[Ascending(DOMAIN exprs)[k]])
           Follows(g, n) == g = [k \in 0 .. n |-> IF k = 0 THEN s ELSE Does(k, g[k - 1])]
           missing == {n \in Nat : ~\E g : Follows(g, n)}
<1>1. Adding(s, t, exprs) = CHOOSE g : Follows(g, len)
  BY DEF Adding, len
<1>2. len \in Nat
  OBVIOUS
<1> HIDE DEF Does, len
<1>3. missing = {}
  <2> SUFFICES ASSUME missing # {} PROVE FALSE
    OBVIOUS
  <2>1. PICK n \in missing : \A m \in missing : n <= m
    BY LeastNumber
  <2>2. CASE n = 0
    <3>1. Follows([k \in 0 .. 0 |-> s], 0)
      OBVIOUS
    <3> QED
      BY <2>2, <3>1
  <2>3. CASE n # 0
    <3>1. n - 1 \in Nat /\ n - 1 \notin missing
      <4>1. n \in Nat
        OBVIOUS
      <4> HIDE DEF missing
      <4> QED
        BY <2>1, <2>3, <4>1
    <3>2. PICK g : Follows(g, n - 1)
      BY <3>1
    <3> DEFINE h == [k \in 0 .. n |-> IF k = n THEN Does(n, g[n - 1]) ELSE g[k]]
    <3>3. \A k \in 0 .. n : h[k] = IF k = 0 THEN s ELSE Does(k, h[k - 1])
      BY <2>1, <2>3, <3>1, <3>2
    <3>4. Follows(h, n)
      BY <3>3
    <3> QED
      BY <3>4
  <2> QED
    BY <2>2, <2>3
<1>4. \E g : Follows(g, len)
  BY <1>2, <1>3
<1>5. Follows(Adding(s, t, exprs), len)
  <2> HIDE DEF Follows
  <2> QED
    BY Zenon, <1>1, <1>4
<1> QED
  BY <1>5 DEF Does, len

\* Nothing is gathered, and one thing after the other.
LEMMA GathersNothing ==
    ASSUME NEW s, NEW E
    PROVE  Gathers(s, s, {}, E)
  BY DEF Gathers, MapKeys

\* Expressions gathered for some pairs, then for others, are gathered for all of them.
LEMMA GathersBoth ==
    ASSUME NEW s, NEW t, NEW u, NEW T, NEW K, NEW L, NEW E, StoreOK(u, T),
           Gathers(s, t, K, E), Gathers(t, u, L, E), K \cap L = {}
    PROVE  Gathers(s, u, K \cup L, E)
<1>1. \A c, d \in Cells(u) : c.key = d.key => c = d
  BY CellsFound
<1>2. /\ Slots(s) \subseteq Slots(t) /\ MapKeys(t) = MapKeys(s) \cup K
      /\ \A c \in Cells(s) : c.key \notin K => c \in Cells(t)
      /\ \A c \in Cells(s) : c.key \in K =>
            \E d \in Cells(t) : d.key = c.key /\ d.id = c.id /\ \E e \in E : d.expr = Plus(c.expr, e)
      /\ \A d \in Cells(t) : d.key \notin MapKeys(s) =>
            \E n \in Slots(t) : n \notin Slots(s) /\ d.id = FreshId(n)
      /\ \A n \in Slots(t) : n \notin Slots(s) =>
            \E d \in Cells(t) : d.key \notin MapKeys(s) /\ d.id = FreshId(n)
  BY DEF Gathers
<1>3. /\ Slots(t) \subseteq Slots(u) /\ MapKeys(u) = MapKeys(t) \cup L
      /\ \A c \in Cells(t) : c.key \notin L => c \in Cells(u)
      /\ \A c \in Cells(t) : c.key \in L =>
            \E d \in Cells(u) : d.key = c.key /\ d.id = c.id /\ \E e \in E : d.expr = Plus(c.expr, e)
      /\ \A d \in Cells(u) : d.key \notin MapKeys(t) =>
            \E n \in Slots(u) : n \notin Slots(t) /\ d.id = FreshId(n)
      /\ \A n \in Slots(u) : n \notin Slots(t) =>
            \E d \in Cells(u) : d.key \notin MapKeys(t) /\ d.id = FreshId(n)
  BY DEF Gathers
<1>4. /\ \A c \in Cells(s) : c.key \in MapKeys(s)
      /\ \A c \in Cells(t) : c.key \in MapKeys(t)
      /\ \A k \in MapKeys(t) : \E c \in Cells(t) : c.key = k
  BY DEF MapKeys
<1>5. Slots(s) \subseteq Slots(u) /\ MapKeys(u) = MapKeys(s) \cup (K \cup L)
  BY <1>2, <1>3
<1>6. \A c \in Cells(s) : c.key \notin K \cup L => c \in Cells(u)
  BY <1>2, <1>3
<1>7. ASSUME NEW c \in Cells(s), c.key \in K \cup L
      PROVE  \E d \in Cells(u) : d.key = c.key /\ d.id = c.id /\ \E e \in E : d.expr = Plus(c.expr, e)
  <2>1. CASE c.key \in K
    <3>1. PICK d \in Cells(t) : d.key = c.key /\ d.id = c.id /\ \E e \in E : d.expr = Plus(c.expr, e)
      BY <1>2, <2>1
    <3>2. d \in Cells(u)
      BY <1>3, <2>1, <3>1
    <3> QED
      BY <3>1, <3>2
  <2>2. CASE c.key \notin K
    BY <1>2, <1>3, <1>7, <2>2
  <2> QED
    BY <2>1, <2>2
<1>8. ASSUME NEW d \in Cells(u), d.key \notin MapKeys(s)
      PROVE  \E n \in Slots(u) : n \notin Slots(s) /\ d.id = FreshId(n)
  <2>1. CASE d.key \notin MapKeys(t)
    BY <1>2, <1>3, <2>1
  <2>2. CASE d.key \in MapKeys(t)
    <3>1. PICK c \in Cells(t) : c.key = d.key
      BY <1>4, <2>2
    <3>2. c.key \in K /\ c.key \notin L
      BY <1>2, <1>8, <2>2, <3>1
    <3>3. c = d
      BY <1>1, <1>3, <3>1, <3>2
    <3> QED
      BY <1>2, <1>3, <1>8, <3>3
  <2> QED
    BY <2>1, <2>2
<1>9. ASSUME NEW n \in Slots(u), n \notin Slots(s)
      PROVE  \E d \in Cells(u) : d.key \notin MapKeys(s) /\ d.id = FreshId(n)
  <2>1. CASE n \notin Slots(t)
    BY <1>2, <1>3, <2>1
  <2>2. CASE n \in Slots(t)
    <3>1. PICK d \in Cells(t) : d.key \notin MapKeys(s) /\ d.id = FreshId(n)
      BY <1>2, <1>9, <2>2
    <3>2. d.key \in K
      BY <1>2, <1>4, <3>1
    <3>3. d \in Cells(u)
      BY <1>3, <3>2
    <3> QED
      BY <3>1, <3>3
  <2> QED
    BY <2>1, <2>2
<1> QED
  BY <1>5, <1>6, <1>7, <1>8, <1>9 DEF Gathers

\* The identities at positions of a list, in the order of the positions.
LEMMA IdsOf ==
    ASSUME NEW P, NEW n \in Nat, P \subseteq 1 .. n, NEW base, NEW q,
           q = [k \in DOMAIN Ascending(P) |-> base[Ascending(P)[k]].id]
    PROVE  IsList(q) /\ Elements(q) = {base[i].id : i \in P}
<1> DEFINE vs == Ascending(P)
           c == Len(vs)
<1>1. P \in SUBSET Int /\ IsFiniteSet(P)
  <2>1. IsFiniteSet(1 .. n) /\ 1 .. n \in SUBSET Int
    BY FS_Interval
  <2> QED
    BY <2>1, FS_Subset
<1>2. /\ IsList(vs) /\ c \in Nat
      /\ \A k \in 1 .. c : vs[k] \in P
      /\ \A v \in P : \E k \in 1 .. c : vs[k] = v
  BY <1>1, AscendingLists
<1> HIDE DEF vs
<1>3. DOMAIN vs = 1 .. c
  BY <1>2, ListIsSeq
<1>4. q = [k \in DOMAIN vs |-> base[vs[k]].id]
  BY DEF vs
<1>5. DOMAIN q = 1 .. c /\ q = [k \in 1 .. c |-> q[k]] /\ \A k \in 1 .. c : q[k] = base[vs[k]].id
  BY <1>3, <1>4
<1>6. IsList(q) /\ Len(q) = c
  BY <1>2, <1>5, ListOfFunction
<1>7. Elements(q) = {base[vs[k]].id : k \in 1 .. c}
  BY <1>5, <1>6 DEF Elements
<1>8. {base[vs[k]].id : k \in 1 .. c} = {base[i].id : i \in P}
  <2>1. ASSUME NEW k \in 1 .. c PROVE base[vs[k]].id \in {base[i].id : i \in P}
    BY <1>2
  <2>2. ASSUME NEW i \in P PROVE base[i].id \in {base[vs[k]].id : k \in 1 .. c}
    <3>1. PICK k \in 1 .. c : vs[k] = i
      BY <1>2
    <3> QED
      BY <3>1
  <2> QED
    BY <2>1, <2>2
<1> QED
  BY <1>6, <1>7, <1>8

\* What a join of two lists holds.
LEMMA JoinHolds ==
    ASSUME NEW q, NEW r, NEW t, IsList(q), IsList(r), t = Joined(q, r)
    PROVE  IsList(t) /\ Elements(t) = Elements(q) \cup Elements(r)
<1>1. /\ IsList(t) /\ Len(t) = Len(q) + Len(r)
      /\ \A i \in 1 .. Len(q) : t[i] = q[i]
      /\ \A i \in 1 .. Len(r) : t[Len(q) + i] = r[i]
      /\ \A i \in 1 .. Len(t) : i \in 1 .. Len(q) \/ \E k \in 1 .. Len(r) : i = Len(q) + k
  BY ListJoin
<1>2. Len(q) \in Nat /\ Len(r) \in Nat
  BY DEF IsList
<1>3. /\ \A i \in 1 .. Len(q) : i \in 1 .. Len(t)
      /\ \A i \in 1 .. Len(r) : Len(q) + i \in 1 .. Len(t)
  BY <1>1, <1>2
<1>4. ASSUME NEW x \in Elements(t) PROVE x \in Elements(q) \cup Elements(r)
  <2>1. PICK i \in 1 .. Len(t) : x = t[i]
    BY DEF Elements
  <2>2. CASE i \in 1 .. Len(q)
    BY <1>1, <2>1, <2>2 DEF Elements
  <2>3. CASE \E k \in 1 .. Len(r) : i = Len(q) + k
    BY <1>1, <2>1, <2>3 DEF Elements
  <2> QED
    BY <1>1, <2>2, <2>3
<1>5. ASSUME NEW x \in Elements(q) PROVE x \in Elements(t)
  BY <1>1, <1>3 DEF Elements
<1>6. ASSUME NEW x \in Elements(r) PROVE x \in Elements(t)
  <2>1. PICK i \in 1 .. Len(r) : x = r[i]
    BY DEF Elements
  <2> QED
    BY <1>1, <1>3, <2>1 DEF Elements
<1> QED
  BY <1>1, <1>4, <1>5, <1>6

\* Identities are collected from live positions of the three parts.
LEMMA IdsAtOK ==
    ASSUME NEW s, Shaped(s), NEW P, NEW Q, NEW O, NEW q,
           P \subseteq PackedLive(s), Q \subseteq ParamLive(s), O \subseteq OverlayLive(s),
           q = IdsAt(s, P, Q, O)
    PROVE  /\ IsList(q)
           /\ Elements(q) = {s.base[i].id : i \in P} \cup {s.pbase[i].id : i \in Q}
                              \cup {s.overlay[i].id : i \in O}
<1>1. /\ P \subseteq 1 .. Len(s.base) /\ Len(s.base) \in Nat
      /\ Q \subseteq 1 .. Len(s.pbase) /\ Len(s.pbase) \in Nat
      /\ O \subseteq 1 .. Len(s.overlay) /\ Len(s.overlay) \in Nat
  BY LivePositions
<1> DEFINE a == [k \in DOMAIN Ascending(P) |-> s.base[Ascending(P)[k]].id]
           b == [k \in DOMAIN Ascending(Q) |-> s.pbase[Ascending(Q)[k]].id]
           c == [k \in DOMAIN Ascending(O) |-> s.overlay[Ascending(O)[k]].id]
           ab == Joined(a, b)
<1>2. q = Joined(ab, c)
  BY DEF IdsAt, Joined
<1>3. IsList(a) /\ Elements(a) = {s.base[i].id : i \in P}
  BY <1>1, IdsOf
<1>4. IsList(b) /\ Elements(b) = {s.pbase[i].id : i \in Q}
  BY <1>1, IdsOf
<1>5. IsList(c) /\ Elements(c) = {s.overlay[i].id : i \in O}
  BY <1>1, IdsOf
<1> HIDE DEF a, b, c
<1>6. IsList(ab) /\ Elements(ab) = Elements(a) \cup Elements(b)
  BY <1>3, <1>4, JoinHolds
<1> HIDE DEF ab
<1>7. IsList(q) /\ Elements(q) = Elements(ab) \cup Elements(c)
  BY <1>2, <1>5, <1>6, JoinHolds
<1> QED
  BY <1>3, <1>4, <1>5, <1>6, <1>7

\* The cells found at the live positions whose pairs satisfy a condition.
LEMMA IdsOfCells ==
    ASSUME NEW s, NEW K
    PROVE  {s.base[i].id : i \in {j \in PackedLive(s) : s.base[j].key \in K}}
             \cup {s.pbase[i].id : i \in {j \in ParamLive(s) : s.pbase[j].key \in K}}
             \cup {s.overlay[i].id : i \in {j \in OverlayLive(s) : s.overlay[j].data.key \in K}}
             = {c.id : c \in {d \in Cells(s) : d.key \in K}}
<1> DEFINE A == {s.base[i].id : i \in {j \in PackedLive(s) : s.base[j].key \in K}}
           B == {s.pbase[i].id : i \in {j \in ParamLive(s) : s.pbase[j].key \in K}}
           C == {s.overlay[i].id : i \in {j \in OverlayLive(s) : s.overlay[j].data.key \in K}}
           D == {c.id : c \in {d \in Cells(s) : d.key \in K}}
<1>1. /\ Cells(s) = {CellIn(s, l) : l \in Locs(s)}
      /\ \A l : CellIn(s, l).key = KeyAt(s, l) /\ CellIn(s, l).id = IdAt(s, l)
  BY CellParts
<1>2. D = {IdAt(s, l) : l \in {m \in Locs(s) : KeyAt(s, m) \in K}}
  <2>1. ASSUME NEW l \in Locs(s), KeyAt(s, l) \in K PROVE IdAt(s, l) \in D
    <3>1. CellIn(s, l) \in {d \in Cells(s) : d.key \in K}
      BY <1>1, <2>1
    <3> QED
      BY <1>1, <3>1
  <2>2. ASSUME NEW x \in D PROVE \E l \in Locs(s) : KeyAt(s, l) \in K /\ x = IdAt(s, l)
    BY <1>1
  <2> HIDE DEF D
  <2> QED
    BY <2>1, <2>2
<1>3. /\ \A i : Packed(i) \in Locs(s) <=> i \in PackedLive(s)
      /\ \A i : ParamBase(i) \in Locs(s) <=> i \in ParamLive(s)
      /\ \A i : Overlay(i) \in Locs(s) <=> i \in OverlayLive(s)
      /\ \A l \in Locs(s) :
            \/ l.at = "packed" /\ l = Packed(l.pos) /\ l.pos \in PackedLive(s)
            \/ l.at = "param" /\ l = ParamBase(l.pos) /\ l.pos \in ParamLive(s)
            \/ l.at = "overlay" /\ l = Overlay(l.pos) /\ l.pos \in OverlayLive(s)
  BY PlaceForms
<1>4. \A i : /\ IdAt(s, Packed(i)) = s.base[i].id /\ KeyAt(s, Packed(i)) = s.base[i].key
             /\ IdAt(s, ParamBase(i)) = s.pbase[i].id /\ KeyAt(s, ParamBase(i)) = s.pbase[i].key
             /\ IdAt(s, Overlay(i)) = s.overlay[i].id /\ KeyAt(s, Overlay(i)) = s.overlay[i].data.key
  BY DEF IdAt, KeyAt, Packed, ParamBase, Overlay
<1>5. ASSUME NEW l \in Locs(s), KeyAt(s, l) \in K PROVE IdAt(s, l) \in A \cup B \cup C
  <2>1. CASE l = Packed(l.pos) /\ l.pos \in PackedLive(s)
    <3>1. s.base[l.pos].key \in K /\ IdAt(s, l) = s.base[l.pos].id
      BY <1>4, <1>5, <2>1
    <3> QED
      BY <2>1, <3>1
  <2>2. CASE l = ParamBase(l.pos) /\ l.pos \in ParamLive(s)
    <3>1. s.pbase[l.pos].key \in K /\ IdAt(s, l) = s.pbase[l.pos].id
      BY <1>4, <1>5, <2>2
    <3> QED
      BY <2>2, <3>1
  <2>3. CASE l = Overlay(l.pos) /\ l.pos \in OverlayLive(s)
    <3>1. s.overlay[l.pos].data.key \in K /\ IdAt(s, l) = s.overlay[l.pos].id
      BY <1>4, <1>5, <2>3
    <3> QED
      BY <2>3, <3>1
  <2> QED
    BY <1>3, <2>1, <2>2, <2>3
<1>6. ASSUME NEW x \in A \cup B \cup C PROVE \E l \in Locs(s) : KeyAt(s, l) \in K /\ x = IdAt(s, l)
  <2>1. CASE x \in A
    <3>1. PICK i \in PackedLive(s) : s.base[i].key \in K /\ x = s.base[i].id
      BY <2>1
    <3> QED
      BY <1>3, <1>4, <3>1
  <2>2. CASE x \in B
    <3>1. PICK i \in ParamLive(s) : s.pbase[i].key \in K /\ x = s.pbase[i].id
      BY <2>2
    <3> QED
      BY <1>3, <1>4, <3>1
  <2>3. CASE x \in C
    <3>1. PICK i \in OverlayLive(s) : s.overlay[i].data.key \in K /\ x = s.overlay[i].id
      BY <2>3
    <3> QED
      BY <1>3, <1>4, <3>1
  <2> QED
    BY <2>1, <2>2, <2>3
<1> HIDE DEF A, B, C, D
<1>7. A \cup B \cup C = D
  BY <1>2, <1>5, <1>6
<1> QED
  BY <1>7 DEF A, B, C, D

\* Live positions carry pairs of cells.
LEMMA LivePairs ==
    ASSUME NEW s, NEW T, StoreOK(s, T)
    PROVE  /\ \A i \in PackedLive(s) : s.base[i].key \in MapKeys(s)
           /\ \A i \in ParamLive(s) : s.pbase[i].key \in MapKeys(s)
           /\ \A i \in OverlayLive(s) : s.overlay[i].data.key \in MapKeys(s)
<1>1. MapKeys(s) = {KeyAt(s, l) : l \in Locs(s)}
  BY KeysWithin
<1>2. /\ \A i \in PackedLive(s) : Packed(i) \in Locs(s) /\ KeyAt(s, Packed(i)) = s.base[i].key
      /\ \A i \in ParamLive(s) : ParamBase(i) \in Locs(s) /\ KeyAt(s, ParamBase(i)) = s.pbase[i].key
      /\ \A i \in OverlayLive(s) : Overlay(i) \in Locs(s)
                                     /\ KeyAt(s, Overlay(i)) = s.overlay[i].data.key
  BY PlaceForms DEF KeyAt, Packed, ParamBase, Overlay
<1> QED
  BY <1>1, <1>2

\* Live positions with the pairs of a set.
PackedIn(s, K) == {i \in PackedLive(s) : s.base[i].key \in K}
ParamIn(s, K) == {i \in ParamLive(s) : s.pbase[i].key \in K}
OverlayIn(s, K) == {i \in OverlayLive(s) : s.overlay[i].data.key \in K}

\* A list of the cells with the pairs of a set.
LEMMA Collected ==
    ASSUME NEW s, NEW T, StoreOK(s, T), NEW K, NEW q,
           q = IdsAt(s, PackedIn(s, K), ParamIn(s, K), OverlayIn(s, K))
    PROVE  /\ IsList(q) /\ Elements(q) = {c.id : c \in {d \in Cells(s) : d.key \in K}}
           /\ \A k \in 1 .. Len(q) : \E n : q[k] = FreshId(n)
<1> DEFINE P == PackedIn(s, K)
           Q == ParamIn(s, K)
           O == OverlayIn(s, K)
<1>1. /\ P = {i \in PackedLive(s) : s.base[i].key \in K}
      /\ Q = {i \in ParamLive(s) : s.pbase[i].key \in K}
      /\ O = {i \in OverlayLive(s) : s.overlay[i].data.key \in K}
  BY DEF PackedIn, ParamIn, OverlayIn
<1> HIDE DEF P, Q, O
<1>2. /\ P \subseteq PackedLive(s) /\ Q \subseteq ParamLive(s) /\ O \subseteq OverlayLive(s)
      /\ Shaped(s) /\ q = IdsAt(s, P, Q, O)
  BY <1>1 DEF StoreOK, P, Q, O
<1>3. /\ IsList(q)
      /\ Elements(q) = {s.base[i].id : i \in P} \cup {s.pbase[i].id : i \in Q}
                         \cup {s.overlay[i].id : i \in O}
  BY <1>2, IdsAtOK
<1>4. Elements(q) = {c.id : c \in {d \in Cells(s) : d.key \in K}}
  BY <1>1, <1>3, IdsOfCells
<1>5. \A c \in Cells(s) : \E n : c.id = FreshId(n)
  BY CellsFound
<1>6. \A k \in 1 .. Len(q) : \E n : q[k] = FreshId(n)
  <2> SUFFICES ASSUME NEW k \in 1 .. Len(q) PROVE \E n : q[k] = FreshId(n)
    OBVIOUS
  <2>1. q[k] \in Elements(q)
    BY DEF Elements
  <2>2. PICK c \in Cells(s) : q[k] = c.id
    BY <1>4, <2>1
  <2> QED
    BY <1>5, <2>2
<1> QED
  BY <1>3, <1>4, <1>6

\* The cells of a target (for_target).
LEMMA ForTargetFinds ==
    ASSUME NEW s, NEW T, NEW target, NEW q, StoreOK(s, T), q = ForTarget(s, target)
    PROVE  /\ IsList(q) /\ Elements(q) = {c.id : c \in {d \in Cells(s) : d.key[1] = target}}
           /\ \A k \in 1 .. Len(q) : \E n : q[k] = FreshId(n)
<1> DEFINE K == {k \in MapKeys(s) : k[1] = target}
           P == {i \in PackedLive(s) : s.base[i].key[1] = target}
           Q == {i \in ParamLive(s) : s.pbase[i].key[1] = target}
           O == {i \in OverlayLive(s) : s.overlay[i].data.key[1] = target}
<1>1. q = IdsAt(s, P, Q, O)
  BY DEF ForTarget
<1>2. P = PackedIn(s, K) /\ Q = ParamIn(s, K) /\ O = OverlayIn(s, K)
  BY LivePairs DEF PackedIn, ParamIn, OverlayIn
<1>3. {d \in Cells(s) : d.key[1] = target} = {d \in Cells(s) : d.key \in K}
  BY DEF MapKeys
<1> HIDE DEF K, P, Q, O
<1>4. /\ IsList(q) /\ Elements(q) = {c.id : c \in {d \in Cells(s) : d.key \in K}}
      /\ \A k \in 1 .. Len(q) : \E n : q[k] = FreshId(n)
  BY <1>1, <1>2, Collected
<1> QED
  BY <1>3, <1>4

\* The index of the base by variable is as long as the base, once it is there.
Counted(s) == s.varIndex \in {NotBuilt, Len(s.base)}

\* It is built on first use and changes nothing else.
LEMMA IndexBuilt ==
    ASSUME NEW s, NEW T, NEW t, StoreOK(s, T), Counted(s), t = EnsureVarIndex(s)
    PROVE  /\ StoreOK(t, T) /\ Slots(t) = Slots(s) /\ Cells(t) = Cells(s) /\ Counted(t)
           /\ t.varIndex = NotBuilt \/ t.varIndex = Len(t.base)
           /\ t.varIndex = NotBuilt => Len(t.base) = NotBuilt
<1>1. Shaped(s)
  BY DEF StoreOK
<1>2. /\ DOMAIN t = Fields
      /\ t.arena = s.arena /\ t.base = s.base /\ t.shadowed = s.shadowed /\ t.dead = s.dead
      /\ t.pbase = s.pbase /\ t.pshadowed = s.pshadowed /\ t.pdead = s.pdead
      /\ t.overlay = s.overlay /\ t.byCell = s.byCell
      /\ t.varIndex = IF s.varIndex = NotBuilt THEN Len(s.base) ELSE s.varIndex
  BY <1>1 DEF Shaped, EnsureVarIndex, Fields
<1>3. SameSkeletons(s, t)
  BY <1>1, <1>2 DEF SameSkeletons, Shaped
<1>4. /\ StoreOK(t, T) /\ Slots(t) = Slots(s) /\ Locs(t) = Locs(s)
      /\ \A l \in Locs(s) : IdAt(t, l) = IdAt(s, l) /\ KeyAt(t, l) = KeyAt(s, l)
  BY <1>3, SameSkeleton
<1>5. \A l : DataAt(t, l) = DataAt(s, l)
  BY <1>2 DEF DataAt, PackedData, ParamData, OverlayData
<1>6. Cells(t) = Cells(s)
  BY <1>4, <1>5 DEF Cells
<1> QED
  BY <1>2, <1>4, <1>6 DEF Counted

\* The cells of a variable (for_var): none of the base is missed.
LEMMA ForVarFinds ==
    ASSUME NEW s, NEW T, NEW v, NEW q, StoreOK(s, T), Counted(s), q = ForVar(s, v)
    PROVE  /\ IsList(q) /\ Elements(q) = {c.id : c \in {d \in Cells(s) : d.key[2] = v}}
           /\ \A k \in 1 .. Len(q) : \E n : q[k] = FreshId(n)
<1> DEFINE t == EnsureVarIndex(s)
           K == {k \in MapKeys(t) : k[2] = v}
           P == {i \in PackedLive(t) : i <= t.varIndex /\ t.base[i].key[2] = v}
           Q == {i \in ParamLive(t) : t.pbase[i].key[2] = v}
           O == {i \in OverlayLive(t) : t.overlay[i].data.key[2] = v}
<1>1. q = IdsAt(t, P, Q, O)
  BY DEF ForVar
<1> HIDE DEF t
<1>2. /\ StoreOK(t, T) /\ Cells(t) = Cells(s)
      /\ t.varIndex = NotBuilt \/ t.varIndex = Len(t.base)
      /\ t.varIndex = NotBuilt => Len(t.base) = NotBuilt
  BY IndexBuilt DEF t
<1>3. t.varIndex = Len(t.base) /\ PackedLive(t) \subseteq 1 .. Len(t.base)
  BY <1>2, LivePositions DEF StoreOK
<1>4. \A i \in PackedLive(t) : i <= t.varIndex
  BY <1>3
<1>5. P = PackedIn(t, K) /\ Q = ParamIn(t, K) /\ O = OverlayIn(t, K)
  <2>1. /\ \A i \in PackedLive(t) : t.base[i].key \in MapKeys(t)
        /\ \A i \in ParamLive(t) : t.pbase[i].key \in MapKeys(t)
        /\ \A i \in OverlayLive(t) : t.overlay[i].data.key \in MapKeys(t)
    BY <1>2, LivePairs
  <2> QED
    BY <1>4, <2>1 DEF PackedIn, ParamIn, OverlayIn
<1>6. {d \in Cells(s) : d.key[2] = v} = {d \in Cells(t) : d.key \in K}
  BY <1>2 DEF MapKeys
<1> HIDE DEF K, P, Q, O
<1>7. StoreOK(t, T)
  BY <1>2
<1>8. /\ IsList(q) /\ Elements(q) = {c.id : c \in {d \in Cells(t) : d.key \in K}}
      /\ \A k \in 1 .. Len(q) : \E n : q[k] = FreshId(n)
  BY <1>1, <1>5, <1>7, Collected
<1> QED
  BY <1>6, <1>8

\* The packed base and its index by variable are left as they are.
Steady(s, t) == DOMAIN t = Fields /\ t.base = s.base /\ t.varIndex = s.varIndex

\* What the edits are made of leaves the base alone.
LEMMA SteadyParts ==
    ASSUME NEW s, DOMAIN s = Fields
    PROVE  /\ \A id, data, b : Steady(s, PushOverlay(s, id, data, b))
           /\ \A pos : Steady(s, UnlinkParamPosition(s, pos))
           /\ \A id : Steady(s, Release(s, id))
           /\ \A pos : Steady(s, RemoveOverlay(s, pos))
<1>1. ASSUME NEW id, NEW data, NEW b PROVE Steady(s, PushOverlay(s, id, data, b))
  BY DEF Steady, PushOverlay, Fields
<1>2. ASSUME NEW pos PROVE Steady(s, UnlinkParamPosition(s, pos))
  BY DEF Steady, UnlinkParamPosition, Fields
<1>3. ASSUME NEW id PROVE Steady(s, Release(s, id))
  BY DEF Steady, Release, Fields
<1>4. ASSUME NEW pos PROVE Steady(s, RemoveOverlay(s, pos))
  BY DEF Steady, RemoveOverlay, Fields
<1> QED
  BY <1>1, <1>2, <1>3, <1>4

\* Edits of a cell leave the base.
LEMMA SteadyEdits ==
    ASSUME NEW s, DOMAIN s = Fields
    PROVE  /\ \A id, expr, cached : Steady(s, SetExpr(s, id, expr, cached))
           /\ \A key, expr, value : Steady(s, AddFresh(s, key, expr, value))
           /\ \A key, expr, value : Steady(s, Add(s, key, expr, value))
<1>1. ASSUME NEW id, NEW expr, NEW cached PROVE Steady(s, Shadow(s, id, expr, cached))
  <2> DEFINE loc == Resolve(s, id)
             key == (CHOOSE d \in Get(s, id) : TRUE).key
             more == [s EXCEPT !.pshadowed = @ \cup {loc.pos}]
             hidden == IF loc.at = "packed"
                       THEN [s EXCEPT !.shadowed = @ \cup {loc.pos}]
                       ELSE UnlinkParamPosition(more, loc.pos)
             u == [hidden EXCEPT !.arena[id[1]].loc = Overlay(Len(s.overlay) + 1)]
             t == PushOverlay(u, id, Data(key, expr, cached), FALSE)
  <2>1. Shadow(s, id, expr, cached) = t
    BY DEF Shadow
  <2>2. Steady(s, more) /\ Steady(s, [s EXCEPT !.shadowed = @ \cup {loc.pos}])
    BY DEF Steady, Fields
  <2>3. Steady(more, UnlinkParamPosition(more, loc.pos))
    <3> HIDE DEF more
    <3>1. DOMAIN more = Fields
      BY <2>2 DEF Steady
    <3> QED
      BY <3>1, SteadyParts
  <2>4. Steady(s, hidden)
    BY <2>2, <2>3 DEF Steady
  <2> HIDE DEF hidden
  <2>5. Steady(s, u)
    BY <2>4 DEF Steady, Fields
  <2> HIDE DEF u
  <2>6. DOMAIN u = Fields
    BY <2>5 DEF Steady
  <2>7. Steady(u, t)
    BY <2>6, SteadyParts
  <2> HIDE DEF t
  <2> QED
    BY <2>1, <2>5, <2>7 DEF Steady
<1>2. ASSUME NEW id, NEW expr, NEW cached PROVE Steady(s, SetExpr(s, id, expr, cached))
  <2> DEFINE loc == Resolve(s, id)
             t == [s EXCEPT
                     !.overlay[loc.pos].data.expr = expr,
                     !.overlay[loc.pos].data.cached = cached,
                     !.byParam = Linked(Unlinked(@, loc.pos), loc.pos, Dependencies(expr))]
  <2>1. SetExpr(s, id, expr, cached) = IF loc.at # "overlay" THEN Shadow(s, id, expr, cached) ELSE t
    BY DEF SetExpr
  <2>2. Steady(s, t)
    BY DEF Steady, Fields
  <2> HIDE DEF t
  <2> QED
    BY <1>1, <2>1, <2>2
<1>3. ASSUME NEW key, NEW expr, NEW value PROVE Steady(s, AddFresh(s, key, expr, value))
  <2> DEFINE u == [s EXCEPT !.arena = Append(@, Slot(Overlay(Len(s.overlay) + 1))), !.live = @ + 1]
             t == PushOverlay(u, FreshId(Len(s.arena) + 1), Data(key, expr, value), FALSE)
  <2>1. AddFresh(s, key, expr, value) = t
    BY DEF AddFresh
  <2>2. Steady(s, u)
    BY DEF Steady, Fields
  <2> HIDE DEF u
  <2>3. DOMAIN u = Fields
    BY <2>2 DEF Steady
  <2>4. Steady(u, t)
    BY <2>3, SteadyParts
  <2> HIDE DEF t
  <2> QED
    BY <2>1, <2>2, <2>4 DEF Steady
<1>4. ASSUME NEW key, NEW expr, NEW value PROVE Steady(s, Add(s, key, expr, value))
  BY <1>2, <1>3 DEF Add, Combine
<1> QED
  BY <1>2, <1>3, <1>4

\* So do removals.
LEMMA SteadyDiscard ==
    ASSUME NEW s, NEW T, NEW n, StoreOK(s, T)
    PROVE  Steady(s, Discard(s, FreshId(n)))
<1> DEFINE id == FreshId(n)
           loc == Resolve(s, id)
           u == Release(s, id)
           atPacked == PushOverlay(u, id, PackedData(u, loc.pos), TRUE)
           a == [atPacked EXCEPT !.dead = @ \cup {loc.pos}, !.live = @ - 1]
           atParam == PushOverlay(u, id, ParamData(u, loc.pos), TRUE)
           unlinked == UnlinkParamPosition(atParam, loc.pos)
           b == [unlinked EXCEPT !.pdead = @ \cup {loc.pos}, !.live = @ - 1]
<1>1. DOMAIN s = Fields
  BY DEF StoreOK, Shaped
<1>2. Steady(s, u)
  BY <1>1, SteadyParts
<1>3. DOMAIN u = Fields
  BY <1>2 DEF Steady
<1>4. RemovePacked(u, id, loc.pos) = a /\ RemoveParam(u, id, loc.pos) = b
  BY DEF RemovePacked, RemoveParam
<1>5. Discard(s, id) \in {RemoveOverlay(u, loc.pos), RemovePacked(u, id, loc.pos),
                          RemoveParam(u, id, loc.pos), s}
  <2>1. loc.at \in {"overlay", "packed", "param", "vacant"}
    <3>1. Shaped(s) /\ Exact(s)
      BY DEF StoreOK
    <3>2. loc = Vacant \/ (n \in Slots(s) /\ LocOf(s, n) = loc)
      <4>1. id[1] = n /\ DOMAIN s.arena = Slots(s)
        BY <3>1, LivePositions DEF FreshId
      <4> HIDE DEF id
      <4>2. loc = IF n \in Slots(s) /\ s.arena[n].gen = id[2] THEN s.arena[n].loc ELSE Vacant
        BY <4>1, Zenon DEF Resolve
      <4> QED
        BY <4>2 DEF LocOf
    <3>3. loc = Vacant \/ loc \in Locs(s)
      BY <3>1, <3>2 DEF Exact
    <3> QED
      BY <3>3, PlaceForms DEF Vacant
  <2> QED
    BY <2>1 DEF Discard
<1> HIDE DEF u
<1>6. Steady(u, RemoveOverlay(u, loc.pos)) /\ Steady(u, atPacked) /\ Steady(u, atParam)
  BY <1>3, SteadyParts
<1> HIDE DEF atPacked, atParam
<1>7. DOMAIN atParam = Fields
  BY <1>6 DEF Steady
<1>8. Steady(atParam, unlinked)
  BY <1>7, SteadyParts
<1> HIDE DEF unlinked
<1>9. Steady(u, a) /\ Steady(u, b)
  BY <1>6, <1>8 DEF Steady, Fields
<1>10. Steady(s, s)
  BY <1>1 DEF Steady
<1> HIDE DEF a, b
<1> QED
  BY <1>2, <1>4, <1>5, <1>6, <1>9, <1>10 DEF Steady

\* Terms are added one after the other (SetObjectiveExpr, set_objective_expr).
LEMMA AddTermsOK ==
    ASSUME NEW s, NEW T, NEW target \in T, NEW exprs, NEW E, NEW t,
           StoreOK(s, T), DOMAIN exprs \in SUBSET Int, IsFiniteSet(DOMAIN exprs),
           \A v \in DOMAIN exprs : exprs[v] \in E,
           t = AddTerms(s, target, exprs)
    PROVE  StoreOK(t, T) /\ Gathers(s, t, {<<target, v>> : v \in DOMAIN exprs}, E) /\ Steady(s, t)
<1> DEFINE vs == Ascending(DOMAIN exprs)
           n == Len(vs)
           at(k) == Adding(s, target, exprs)[k]
           Upto(k) == {<<target, vs[i]>> : i \in 1 .. k}
           Good(k) == StoreOK(at(k), T) /\ Gathers(s, at(k), Upto(k), E) /\ Steady(s, at(k))
           bad == {k \in 0 .. n : ~ Good(k)}
<1>1. /\ n \in Nat /\ \A k \in 1 .. n : vs[k] \in DOMAIN exprs
      /\ \A k, m \in 1 .. n : vs[k] = vs[m] => k = m
      /\ \A v \in DOMAIN exprs : \E k \in 1 .. n : vs[k] = v
  BY AscendingLists
<1>2. \A k \in 0 .. n : at(k) = IF k = 0 THEN s ELSE AddTerm(at(k - 1), target, vs[k], exprs[vs[k]])
  BY <1>1, AddingUnfolds
<1>3. t = at(n)
  BY DEF AddTerms
<1> HIDE DEF vs, n, at
<1>4. Good(0)
  <2>1. at(0) = s /\ Upto(0) = {}
    BY <1>1, <1>2
  <2>2. Steady(s, s)
    BY DEF Steady, StoreOK, Shaped
  <2> QED
    BY <2>1, <2>2, GathersNothing
<1>5. ASSUME NEW k \in 1 .. n, Good(k - 1)
      PROVE  Good(k)
  <2>1. at(k) = AddTerm(at(k - 1), target, vs[k], exprs[vs[k]])
    BY <1>1, <1>2
  <2>2. k \in Nat /\ k - 1 \in Nat /\ k <= n
    BY <1>1
  <2> DEFINE key == <<target, vs[k]>>
             old == at(k - 1)
             now == at(k)
             value == Eval(exprs[vs[k]], params)
  <2>3. now = Add(old, key, exprs[vs[k]], value)
    BY <2>1 DEF AddTerm
  <2>4. StoreOK(old, T) /\ key[1] \in T /\ exprs[vs[k]] \in E
    BY <1>1, <1>5
  <2>5. Gathers(s, old, Upto(k - 1), E)
    BY <1>5
  <2>6. Upto(k - 1) \cap {key} = {}
    BY <1>1, <2>2
  <2>7. Upto(k) = Upto(k - 1) \cup {key}
    BY <2>2
  <2>10. Steady(s, old)
    BY <1>5
  <2> HIDE DEF key, old, now, value, Upto
  <2>11. Steady(old, now)
    BY <2>3, <2>10, SteadyEdits DEF Steady
  <2>12. Steady(s, now)
    BY <2>10, <2>11 DEF Steady
  <2>8. StoreOK(now, T) /\ Gathers(old, now, {key}, E)
    BY <2>3, <2>4, AddOK
  <2>9. Gathers(s, now, Upto(k - 1) \cup {key}, E)
    BY <2>5, <2>6, <2>8, GathersBoth
  <2> QED
    BY <2>7, <2>8, <2>9, <2>12 DEF now
<1> HIDE DEF Good
<1>6. bad = {}
  <2> SUFFICES ASSUME bad # {} PROVE FALSE
    OBVIOUS
  <2>1. bad \in SUBSET Nat
    BY <1>1
  <2>2. PICK k \in bad : \A m \in bad : k <= m
    BY <2>1, LeastNumber
  <2>3. k \in 0 .. n /\ ~ Good(k) /\ k # 0
    BY <1>4
  <2>4. k \in 1 .. n /\ k - 1 \in 0 .. n /\ ~ (k <= k - 1)
    BY <1>1, <2>3
  <2>5. Good(k - 1)
    BY <2>2, <2>4
  <2> QED
    BY <1>5, <2>3, <2>4, <2>5
<1>7. Good(n)
  BY <1>1, <1>6
<1>8. Upto(n) = {<<target, v>> : v \in DOMAIN exprs}
  BY <1>1
<1> QED
  BY <1>3, <1>7, <1>8 DEF Good

\* Cells are removed one after the other.
LEMMA RemoveAllOK ==
    ASSUME NEW s, NEW T, NEW ids, NEW t, StoreOK(s, T), IsList(ids),
           \A k \in 1 .. Len(ids) : \E n : ids[k] = FreshId(n),
           t = RemoveAll(s, ids)
    PROVE  /\ StoreOK(t, T) /\ Slots(t) = Slots(s) /\ Steady(s, t)
           /\ Cells(t) = {c \in Cells(s) : c.id \notin Elements(ids)}
<1> DEFINE n == Len(ids)
           at(k) == Removing(s, ids)[k]
           Upto(k) == {ids[i] : i \in 1 .. k}
           Good(k) == /\ StoreOK(at(k), T) /\ Slots(at(k)) = Slots(s) /\ Steady(s, at(k))
                      /\ Cells(at(k)) = {c \in Cells(s) : c.id \notin Upto(k)}
           bad == {k \in 0 .. n : ~ Good(k)}
<1>2. n \in Nat
  BY DEF IsList
<1>3. \A k \in 0 .. n : at(k) = IF k = 0 THEN s ELSE Discard(at(k - 1), ids[k])
  BY <1>2, RemovingUnfolds
<1>4. t = at(n)
  BY DEF RemoveAll
<1>1. \A k \in 1 .. n : \E i : ids[k] = FreshId(i)
  OBVIOUS
<1> HIDE DEF n, at
<1>5. Good(0)
  <2>1. at(0) = s /\ Upto(0) = {}
    BY <1>2, <1>3
  <2>2. Steady(s, s)
    BY DEF Steady, StoreOK, Shaped
  <2> QED
    BY <2>1, <2>2
<1>6. ASSUME NEW k \in 1 .. n, Good(k - 1)
      PROVE  Good(k)
  <2>1. at(k) = Discard(at(k - 1), ids[k])
    BY <1>2, <1>3
  <2>2. k \in Nat /\ k - 1 \in Nat /\ k <= n
    BY <1>2
  <2>3. PICK i : ids[k] = FreshId(i)
    BY <1>1
  <2> DEFINE old == at(k - 1)
             now == at(k)
  <2>4. Upto(k) = Upto(k - 1) \cup {ids[k]}
    BY <2>2
  <2>5. now = Discard(old, FreshId(i)) /\ StoreOK(old, T)
    BY <1>6, <2>1, <2>3
  <2> HIDE DEF old, now
  <2>6. StoreOK(now, T) /\ Slots(now) = Slots(old) /\ Cells(now) = Without(old, i)
    BY <2>5, DiscardOK
  <2>9. Steady(old, now)
    BY <2>5, SteadyDiscard
  <2>7. /\ Slots(old) = Slots(s) /\ Steady(s, old)
        /\ Cells(old) = {c \in Cells(s) : c.id \notin Upto(k - 1)}
    BY <1>6 DEF old
  <2> HIDE DEF Upto
  <2>8. Cells(now) = {c \in Cells(s) : c.id \notin Upto(k)}
    BY <2>3, <2>4, <2>6, <2>7 DEF Without
  <2>10. Steady(s, now)
    BY <2>7, <2>9 DEF Steady
  <2> QED
    BY <2>6, <2>7, <2>8, <2>10 DEF now
<1> HIDE DEF Good
<1>7. bad = {}
  <2> SUFFICES ASSUME bad # {} PROVE FALSE
    OBVIOUS
  <2>1. bad \in SUBSET Nat
    BY <1>2
  <2>2. PICK k \in bad : \A m \in bad : k <= m
    BY <2>1, LeastNumber
  <2>3. k \in 0 .. n /\ ~ Good(k) /\ k # 0
    BY <1>5
  <2>4. k \in 1 .. n /\ k - 1 \in 0 .. n /\ ~ (k <= k - 1)
    BY <1>2, <2>3
  <2>5. Good(k - 1)
    BY <2>2, <2>4
  <2> QED
    BY <1>6, <2>3, <2>4, <2>5
<1>8. Good(n)
  BY <1>2, <1>7
<1>9. Upto(n) = Elements(ids)
  BY DEF n, Elements
<1> QED
  BY <1>4, <1>8, <1>9 DEF Good

\* Values are propagated: cached values change, and nothing that makes a cell.
SameExpressions(s, t) ==
    /\ SameSkeletons(s, t) /\ t.varIndex = s.varIndex
    /\ \A i \in 1 .. Len(s.pbase) :
          t.pbase[i].param = s.pbase[i].param /\ t.pbase[i].scale = s.pbase[i].scale
    /\ \A i \in 1 .. Len(s.overlay) : t.overlay[i].data.expr = s.overlay[i].data.expr

SameCells(s, t) == Slots(t) = Slots(s) /\ Cells(t) = Cells(s) /\ Steady(s, t)

\* Stores with the same expressions have the same cells.
LEMMA SameExpressionsOK ==
    ASSUME NEW s, NEW t, NEW T, StoreOK(s, T), SameExpressions(s, t)
    PROVE  StoreOK(t, T) /\ SameCells(s, t)
<1>1. SameSkeletons(s, t)
  BY DEF SameExpressions
<1>2. /\ StoreOK(t, T) /\ Slots(t) = Slots(s) /\ Locs(t) = Locs(s)
      /\ \A l \in Locs(s) : IdAt(t, l) = IdAt(s, l) /\ KeyAt(t, l) = KeyAt(s, l)
  BY <1>1, SameSkeleton
<1>3. ASSUME NEW l \in Locs(s) PROVE DataAt(t, l).expr = DataAt(s, l).expr
  <2>1. \/ l.at = "packed" /\ l.pos \in 1 .. Len(s.base)
        \/ l.at = "param" /\ l.pos \in 1 .. Len(s.pbase)
        \/ l.at = "overlay" /\ l.pos \in 1 .. Len(s.overlay)
    BY PlaceForms, LivePositions DEF StoreOK
  <2>2. CASE l.at = "packed"
    BY <1>1, <2>2 DEF SameSkeletons, DataAt, PackedData, Data
  <2>3. CASE l.at = "param" /\ l.pos \in 1 .. Len(s.pbase)
    BY <2>3 DEF SameExpressions, DataAt, ParamData, Data
  <2>4. CASE l.at = "overlay" /\ l.pos \in 1 .. Len(s.overlay)
    BY <2>4 DEF SameExpressions, DataAt, OverlayData
  <2> QED
    BY <2>1, <2>2, <2>3, <2>4
<1>4. Cells(t) = Cells(s)
  <2>1. \A l \in Locs(s) : CellIn(t, l) = CellIn(s, l)
    BY <1>2, <1>3 DEF CellIn
  <2>2. Cells(s) = {CellIn(s, l) : l \in Locs(s)} /\ Cells(t) = {CellIn(t, l) : l \in Locs(s)}
    BY <1>2, CellParts
  <2> QED
    BY <2>1, <2>2
<1>5. Steady(s, t)
  BY DEF Steady, SameExpressions, SameSkeletons
<1> QED
  BY <1>2, <1>4, <1>5 DEF SameCells

\* Parametric cells are refreshed.
LEMMA RefreshOK ==
    ASSUME NEW s, NEW T, NEW moved, NEW values, NEW t, StoreOK(s, T), t = Refresh(s, moved, values)
    PROVE  StoreOK(t, T) /\ SameCells(s, t) /\ SameExpressions(s, t)
<1>1. Shaped(s)
  BY DEF StoreOK
<1> DEFINE q == s.pbase
           r == [i \in DOMAIN q |-> IF i \in moved THEN [q[i] EXCEPT !.cached = ParamValue(s, i, values)]
                                    ELSE q[i]]
<1>2. /\ DOMAIN t = Fields /\ t.pbase = r /\ t.overlay = s.overlay /\ t.varIndex = s.varIndex
      /\ t.arena = s.arena /\ t.base = s.base /\ t.shadowed = s.shadowed /\ t.dead = s.dead
      /\ t.pshadowed = s.pshadowed /\ t.pdead = s.pdead /\ t.byCell = s.byCell
  BY <1>1 DEF Refresh, Shaped, Fields
<1>3. /\ IsList(q) /\ DOMAIN q = 1 .. Len(q) /\ Len(q) \in Nat
      /\ \A i \in 1 .. Len(q) : DOMAIN q[i] = {"key", "param", "scale", "cached", "id"}
  <2>1. IsList(q)
    BY <1>1 DEF Shaped
  <2>2. DOMAIN q = 1 .. Len(q) /\ Len(q) \in Nat
    BY <2>1, ListIsSeq
  <2> QED
    BY <1>1, <2>1, <2>2 DEF Shaped
<1> HIDE DEF q
<1>4. DOMAIN r = 1 .. Len(q) /\ r = [i \in 1 .. Len(q) |-> r[i]]
  BY <1>3
<1>5. ASSUME NEW i \in 1 .. Len(q)
      PROVE  /\ DOMAIN r[i] = {"key", "param", "scale", "cached", "id"}
             /\ r[i].key = q[i].key /\ r[i].id = q[i].id
             /\ r[i].param = q[i].param /\ r[i].scale = q[i].scale
  BY <1>3
<1> HIDE DEF r
<1>6. IsList(r) /\ Len(r) = Len(q)
  BY <1>3, <1>4, ListOfFunction
<1>7. SameSkeletons(s, t)
  <2>1. \A i \in 1 .. Len(s.overlay) :
          /\ DOMAIN t.overlay[i] = {"id", "data", "tombstone"}
          /\ DOMAIN t.overlay[i].data = {"key", "expr", "cached"}
    BY <1>1, <1>2 DEF Shaped
  <2>2. IsList(t.overlay) /\ t.overlay = s.overlay
    BY <1>1, <1>2 DEF Shaped
  <2>3. /\ IsList(t.pbase) /\ Len(t.pbase) = Len(s.pbase)
        /\ \A i \in 1 .. Len(s.pbase) :
             /\ DOMAIN t.pbase[i] = {"key", "param", "scale", "cached", "id"}
             /\ t.pbase[i].key = s.pbase[i].key /\ t.pbase[i].id = s.pbase[i].id
    BY <1>2, <1>5, <1>6 DEF q
  <2> QED
    BY <1>2, <2>1, <2>2, <2>3 DEF SameSkeletons
<1>8. SameExpressions(s, t)
  BY <1>2, <1>5, <1>7 DEF SameExpressions, q
<1> QED
  BY <1>8, SameExpressionsOK

\* Cells of the overlay are evaluated again.
LEMMA SetCachedValueOK ==
    ASSUME NEW s, NEW T, NEW ids, NEW values, NEW t, StoreOK(s, T), t = SetCachedValue(s, ids, values)
    PROVE  StoreOK(t, T) /\ SameCells(s, t) /\ SameExpressions(s, t)
<1>1. Shaped(s)
  BY DEF StoreOK
<1> DEFINE q == s.overlay
           Value(i) == Eval(q[i].data.expr, values)
           r == [i \in DOMAIN q |-> IF q[i].id \in ids /\ ~ q[i].tombstone
                                    THEN [q[i] EXCEPT !.data.cached = Value(i)] ELSE q[i]]
<1>2. /\ DOMAIN t = Fields /\ t.overlay = r /\ t.pbase = s.pbase /\ t.varIndex = s.varIndex
      /\ t.arena = s.arena /\ t.base = s.base /\ t.shadowed = s.shadowed /\ t.dead = s.dead
      /\ t.pshadowed = s.pshadowed /\ t.pdead = s.pdead /\ t.byCell = s.byCell
  BY <1>1 DEF SetCachedValue, Shaped, Fields
<1> HIDE DEF Value
<1>3. /\ IsList(q) /\ DOMAIN q = 1 .. Len(q) /\ Len(q) \in Nat
      /\ \A i \in 1 .. Len(q) : /\ DOMAIN q[i] = {"id", "data", "tombstone"}
                                /\ DOMAIN q[i].data = {"key", "expr", "cached"}
  <2>1. IsList(q)
    BY <1>1 DEF Shaped
  <2>2. DOMAIN q = 1 .. Len(q) /\ Len(q) \in Nat
    BY <2>1, ListIsSeq
  <2> QED
    BY <1>1, <2>1, <2>2 DEF Shaped
<1> HIDE DEF q
<1>4. DOMAIN r = 1 .. Len(q) /\ r = [i \in 1 .. Len(q) |-> r[i]]
  BY <1>3
<1>5. ASSUME NEW i \in 1 .. Len(q)
      PROVE  /\ DOMAIN r[i] = {"id", "data", "tombstone"}
             /\ DOMAIN r[i].data = {"key", "expr", "cached"}
             /\ r[i].id = q[i].id /\ r[i].tombstone = q[i].tombstone
             /\ r[i].data.key = q[i].data.key /\ r[i].data.expr = q[i].data.expr
  <2>1. CASE q[i].id \in ids /\ ~ q[i].tombstone
    <3>1. r[i] = [q[i] EXCEPT !.data.cached = Value(i)]
      BY <1>3, <2>1
    <3> HIDE DEF r
    <3> QED
      BY <1>3, <3>1
  <2>2. CASE ~ (q[i].id \in ids /\ ~ q[i].tombstone)
    <3>1. r[i] = q[i]
      BY <1>3, <2>2
    <3> HIDE DEF r
    <3> QED
      BY <1>3, <3>1
  <2> QED
    BY <2>1, <2>2
<1> HIDE DEF r
<1>6. IsList(r) /\ Len(r) = Len(q)
  BY <1>3, <1>4, ListOfFunction
<1>7. SameSkeletons(s, t)
  <2>1. \A i \in 1 .. Len(s.pbase) : DOMAIN t.pbase[i] = {"key", "param", "scale", "cached", "id"}
    BY <1>1, <1>2 DEF Shaped
  <2>2. IsList(t.pbase) /\ t.pbase = s.pbase
    BY <1>1, <1>2 DEF Shaped
  <2>3. /\ IsList(t.overlay) /\ Len(t.overlay) = Len(s.overlay)
        /\ \A i \in 1 .. Len(s.overlay) :
             /\ DOMAIN t.overlay[i] = {"id", "data", "tombstone"}
             /\ DOMAIN t.overlay[i].data = {"key", "expr", "cached"}
             /\ t.overlay[i].id = s.overlay[i].id
             /\ t.overlay[i].data.key = s.overlay[i].data.key
             /\ t.overlay[i].tombstone = s.overlay[i].tombstone
    BY <1>2, <1>5, <1>6 DEF q
  <2> QED
    BY <1>2, <2>1, <2>2, <2>3 DEF SameSkeletons
<1>8. SameExpressions(s, t)
  BY <1>2, <1>5, <1>7 DEF SameExpressions, q
<1> QED
  BY <1>8, SameExpressionsOK

\* Cells are the same after two steps that keep them.
LEMMA SameCellsTwice ==
    ASSUME NEW s, NEW t, NEW u
    PROVE  /\ DOMAIN s = Fields => SameCells(s, s)
           /\ SameCells(s, t) /\ SameCells(t, u) => SameCells(s, u)
  BY DEF SameCells, Steady

DraftParts == {"store", "params", "ops"}

\* A block of values is applied (apply_parameter_block).
LEMMA BlockOK ==
    ASSUME NEW d, NEW T, NEW values, NEW e, DOMAIN d = DraftParts, StoreOK(d.store, T),
           e = ApplyParameterBlock(d, values)
    PROVE  DOMAIN e = DraftParts /\ StoreOK(e.store, T) /\ SameCells(d.store, e.store)
<1> DEFINE span == DOMAIN values
           now == [p \in Params |-> IF p \in span THEN values[p] ELSE d.params[p]]
           changed == {p \in span : Differs(d.params[p], values[p])}
           ids == UNION {OverlayMoved(d.store, p, now) : p \in span}
           over == RefreshOverlay(d.store, span, now)
           first == SetCachedValue(d.store, ids, now)
           moved == Moved(d.store, SpanPositions(d.store, span)
                                     \cup IndexedPositions(d.store, span), now)
           after == Refresh(over.store, moved, now)
           patches == {CellOf(ParamData(after, i)) : i \in moved}
           ops == d.ops \o Logged(over.cells, SetCells(over.cells))
                        \o <<SetParams([p \in changed |-> values[p]])>>
                        \o Logged(patches, PatchCells(patches))
           quiet == [d EXCEPT !.params = now]
           loud == [store |-> after, params |-> now, ops |-> ops]
<1>1. e = IF changed = {} THEN quiet ELSE loud
  BY DEF ApplyParameterBlock
<1>2. over.store = first
  BY DEF RefreshOverlay
<1> HIDE DEF over, moved, ids, now, changed, ops
<1>3. StoreOK(first, T) /\ SameCells(d.store, first)
  BY SetCachedValueOK
<1>4. StoreOK(over.store, T)
  BY <1>2, <1>3
<1>5. StoreOK(after, T) /\ SameCells(over.store, after)
  BY <1>4, RefreshOK
<1>6. SameCells(d.store, after)
  BY <1>2, <1>3, <1>5, SameCellsTwice
<1>7. SameCells(d.store, d.store)
  BY SameCellsTwice DEF StoreOK, Shaped
<1>8. DOMAIN quiet = DraftParts /\ quiet.store = d.store
  BY DEF DraftParts
<1>9. DOMAIN loud = DraftParts /\ loud.store = after
  BY DEF DraftParts
<1> HIDE DEF quiet, loud, after
<1> QED
  BY <1>1, <1>5, <1>6, <1>7, <1>8, <1>9

\* One value is applied (apply_parameter_change).
LEMMA ChangeOK ==
    ASSUME NEW d, NEW T, NEW p, NEW value, NEW e, DOMAIN d = DraftParts, StoreOK(d.store, T),
           e = ApplyParameterChange(d, p, value)
    PROVE  DOMAIN e = DraftParts /\ StoreOK(e.store, T) /\ SameCells(d.store, e.store)
<1> DEFINE now == [d.params EXCEPT ![p] = value]
           ids == UNION {OverlayMoved(d.store, q, now) : q \in {p}}
           over == RefreshOverlay(d.store, {p}, now)
           first == SetCachedValue(d.store, ids, now)
           moved == Moved(d.store, d.store.positions[p] \cup BlockPositions(d.store, p), now)
           after == Refresh(over.store, moved, now)
           cells == over.cells \cup {CellOf(ParamData(after, i)) : i \in moved}
           ops == d.ops \o <<SetParams([q \in {p} |-> value])>> \o Logged(cells, SetCells(cells))
           quiet == [d EXCEPT !.params = now]
           loud == [store |-> after, params |-> now, ops |-> ops]
<1>1. e = IF ~ Differs(d.params[p], value) THEN quiet ELSE loud
  BY DEF ApplyParameterChange
<1>2. over.store = first
  BY DEF RefreshOverlay
<1> HIDE DEF over, moved, ids, now, ops
<1>3. StoreOK(first, T) /\ SameCells(d.store, first)
  BY SetCachedValueOK
<1>4. StoreOK(over.store, T)
  BY <1>2, <1>3
<1>5. StoreOK(after, T) /\ SameCells(over.store, after)
  BY <1>4, RefreshOK
<1>6. SameCells(d.store, after)
  BY <1>2, <1>3, <1>5, SameCellsTwice
<1>7. SameCells(d.store, d.store)
  BY SameCellsTwice DEF StoreOK, Shaped
<1>8. DOMAIN quiet = DraftParts /\ quiet.store = d.store
  BY DEF DraftParts
<1>9. DOMAIN loud = DraftParts /\ loud.store = after
  BY DEF DraftParts
<1> HIDE DEF quiet, loud, after
<1> QED
  BY <1>1, <1>5, <1>6, <1>7, <1>8, <1>9
\* The recursion of CommitParameters is well defined.
LEMMA ApplyingUnfolds ==
    ASSUME NEW order, Len(blocks) \in Nat, Len(order) \in Nat
    PROVE  \A k \in 0 .. (Len(blocks) + Len(order)) :
              Applying(order)[k] =
                 IF k = 0 THEN Draft
                 ELSE IF k <= Len(blocks) THEN ApplyParameterBlock(Applying(order)[k - 1], blocks[k])
                 ELSE ApplyParameterChange(Applying(order)[k - 1], order[k - Len(blocks)],
                                           pending[order[k - Len(blocks)]])
<1> DEFINE len == Len(blocks) + Len(order)
           Does(k, a) ==
              IF k <= Len(blocks) THEN ApplyParameterBlock(a, blocks[k])
              ELSE ApplyParameterChange(a, order[k - Len(blocks)], pending[order[k - Len(blocks)]])
           Follows(g, n) == g = [k \in 0 .. n |-> IF k = 0 THEN Draft ELSE Does(k, g[k - 1])]
           missing == {n \in Nat : ~\E g : Follows(g, n)}
<1>1. Applying(order) = CHOOSE g : Follows(g, len)
  BY DEF Applying, len
<1>2. len \in Nat
  OBVIOUS
<1> HIDE DEF Does, len
<1>3. missing = {}
  <2> SUFFICES ASSUME missing # {} PROVE FALSE
    OBVIOUS
  <2>1. PICK n \in missing : \A m \in missing : n <= m
    BY LeastNumber
  <2>2. CASE n = 0
    <3>1. Follows([k \in 0 .. 0 |-> Draft], 0)
      OBVIOUS
    <3> QED
      BY <2>2, <3>1
  <2>3. CASE n # 0
    <3>1. n - 1 \in Nat /\ n - 1 \notin missing
      <4>1. n \in Nat
        OBVIOUS
      <4> HIDE DEF missing
      <4> QED
        BY <2>1, <2>3, <4>1
    <3>2. PICK g : Follows(g, n - 1)
      BY <3>1
    <3> DEFINE h == [k \in 0 .. n |-> IF k = n THEN Does(n, g[n - 1]) ELSE g[k]]
    <3>3. \A k \in 0 .. n : h[k] = IF k = 0 THEN Draft ELSE Does(k, h[k - 1])
      BY <2>1, <2>3, <3>1, <3>2
    <3>4. Follows(h, n)
      BY <3>3
    <3> QED
      BY <3>4
  <2> QED
    BY <2>2, <2>3
<1>4. \E g : Follows(g, len)
  BY <1>2, <1>3
<1>5. Follows(Applying(order), len)
  <2> HIDE DEF Follows
  <2> QED
    BY Zenon, <1>1, <1>4
<1> QED
  BY <1>5 DEF Does, len

\* All queued values are applied.
LEMMA ApplyingOK ==
    ASSUME NEW T, NEW order, Len(blocks) \in Nat, Len(order) \in Nat, StoreOK(store, T)
    PROVE  LET t == Applying(order)[Len(blocks) + Len(order)].store
           IN  StoreOK(t, T) /\ SameCells(store, t)
<1> DEFINE n == Len(blocks) + Len(order)
           at(k) == Applying(order)[k]
           Good(d) == DOMAIN d = DraftParts /\ StoreOK(d.store, T) /\ SameCells(store, d.store)
           bad == {k \in 0 .. n : ~ Good(at(k))}
<1>1. n \in Nat
  OBVIOUS
<1>2. /\ at(0) = Draft
      /\ \A k \in 1 .. n :
           \/ at(k) = ApplyParameterBlock(at(k - 1), blocks[k])
           \/ at(k) = ApplyParameterChange(at(k - 1), order[k - Len(blocks)],
                                           pending[order[k - Len(blocks)]])
  BY ApplyingUnfolds
<1> HIDE DEF n, at
<1>3. Good(at(0))
  <2>1. DOMAIN at(0) = DraftParts /\ at(0).store = store
    BY <1>2 DEF Draft, DraftParts
  <2>2. SameCells(store, store)
    BY SameCellsTwice DEF StoreOK, Shaped
  <2> QED
    BY <2>1, <2>2
<1>4. ASSUME NEW k \in 1 .. n, Good(at(k - 1))
      PROVE  Good(at(k))
  <2> DEFINE d == at(k - 1)
             e == at(k)
  <2>1. DOMAIN d = DraftParts /\ StoreOK(d.store, T) /\ SameCells(store, d.store)
    BY <1>4
  <2>2. \/ e = ApplyParameterBlock(d, blocks[k])
        \/ e = ApplyParameterChange(d, order[k - Len(blocks)], pending[order[k - Len(blocks)]])
    BY <1>2
  <2> HIDE DEF d, e
  <2>3. DOMAIN e = DraftParts /\ StoreOK(e.store, T) /\ SameCells(d.store, e.store)
    <3>1. DOMAIN d = DraftParts /\ StoreOK(d.store, T)
      BY <2>1
    <3>2. CASE e = ApplyParameterBlock(d, blocks[k])
      BY <3>1, <3>2, BlockOK
    <3>3. CASE e = ApplyParameterChange(d, order[k - Len(blocks)], pending[order[k - Len(blocks)]])
      BY <3>1, <3>3, ChangeOK
    <3> QED
      BY <2>2, <3>2, <3>3
  <2>4. SameCells(store, e.store)
    BY <2>1, <2>3, SameCellsTwice
  <2> QED
    BY <2>3, <2>4 DEF e
<1> HIDE DEF Good
<1>5. bad = {}
  <2> SUFFICES ASSUME bad # {} PROVE FALSE
    OBVIOUS
  <2>1. bad \in SUBSET Nat
    BY <1>1
  <2>2. PICK k \in bad : \A m \in bad : k <= m
    BY <2>1, LeastNumber
  <2>3. k \in 0 .. n /\ ~ Good(at(k)) /\ k # 0
    BY <1>3
  <2>4. k \in 1 .. n /\ k - 1 \in 0 .. n /\ ~ (k <= k - 1)
    BY <1>1, <2>3
  <2>5. Good(at(k - 1))
    BY <2>2, <2>4
  <2> QED
    BY <1>4, <2>3, <2>4, <2>5
<1>6. Good(at(n))
  BY <1>1, <1>5
<1> QED
  BY <1>6 DEF Good, at, n

-----------------------------------------------------------------------------
(* The model: every edit of the store is one step of the map                   *)

\* An identity that resolves is that of a live cell.
LEMMA Resolved ==
    ASSUME NEW s, NEW T, NEW n, StoreOK(s, T), Resolve(s, FreshId(n)) # Vacant
    PROVE  /\ n \in Slots(s) /\ LocOf(s, n) \in Locs(s)
           /\ CellIn(s, LocOf(s, n)) \in Cells(s) /\ CellIn(s, LocOf(s, n)).id = FreshId(n)
<1>1. Shaped(s) /\ Exact(s)
  BY DEF StoreOK
<1>2. n \in Slots(s) /\ LocOf(s, n) = Resolve(s, FreshId(n))
  <2> DEFINE id == FreshId(n)
  <2>1. id[1] = n /\ DOMAIN s.arena = Slots(s)
    BY <1>1, LivePositions DEF FreshId
  <2> HIDE DEF id
  <2>2. Resolve(s, id) = IF n \in Slots(s) /\ s.arena[n].gen = id[2] THEN s.arena[n].loc ELSE Vacant
    BY <2>1, Zenon DEF Resolve
  <2>3. Resolve(s, id) # Vacant
    BY DEF id
  <2> QED
    BY <2>2, <2>3 DEF LocOf, id
<1>3. LocOf(s, n) \in Locs(s) /\ IdAt(s, LocOf(s, n)) = FreshId(n)
  BY <1>1, <1>2 DEF Exact
<1> QED
  BY <1>2, <1>3, CellParts

\* The cells but one, by identity and by pair.
LEMMA AllButOne ==
    ASSUME NEW s, NEW T, NEW c \in Cells(s), StoreOK(s, T)
    PROVE  {d \in Cells(s) : d.id # c.id} = {d \in Cells(s) : d.key # c.key}
<1>1. \A d \in Cells(s) : (d.key = c.key => d = c) /\ (d.id = c.id => d = c)
  BY CellsFound
<1> QED
  BY <1>1

\* The expressions a caller may add, and what an edit does to the cells.
Addable == Exprs \cup {Constant(x) : x \in RowTotals}

Effect(s, t) ==
    \/ Slots(t) = Slots(s) /\ Cells(t) = Cells(s)
    \/ \E target \in Targets, V \in SUBSET Vars :
          Gathers(s, t, {<<target, v>> : v \in V}, Addable)
    \/ /\ Slots(t) = Slots(s)
       /\ \/ \E c \in Cells(s), x \in Values :
                Cells(t) = {d \in Cells(s) : d.key # c.key} \cup {MapCell(c.key, c.id, Constant(x))}
          \/ \E key \in Targets \X Vars : Cells(t) = {d \in Cells(s) : d.key # key}
          \/ \E target \in Targets : Cells(t) = {d \in Cells(s) : d.key[1] # target}
          \/ \E v \in Vars : Cells(t) = {d \in Cells(s) : d.key[2] # v}

\* A store in order, whose cells belong to the targets of T and to variables.
InOrder(s, T) == StoreOK(s, T) /\ Counted(s) /\ MapKeys(s) \subseteq T \X Vars

\* A step of the store.
Steps(s, t, T) == InOrder(t, T) /\ Effect(s, t)

\* Edits that keep the base keep the index by variable.
LEMMA StaysCounted ==
    ASSUME NEW s, NEW t, Counted(s), Steady(s, t)
    PROVE  Counted(t)
  BY DEF Counted, Steady

\* Nothing happens to the store while another target is created, or not.
LEMMA NothingMoves ==
    ASSUME NEW s, NEW T, NEW U, InOrder(s, T), T \subseteq U
    PROVE  Steps(s, s, U)
<1>1. StoreOK(s, U)
  BY StoreGrows DEF InOrder
<1> QED
  BY <1>1 DEF InOrder, Steps, Effect

\* Terms are gathered.
LEMMA GathersSteps ==
    ASSUME NEW s, NEW t, NEW T, NEW U, NEW target \in U, NEW V \in SUBSET Vars, NEW K,
           InOrder(s, T), T \subseteq U, U \subseteq Targets, StoreOK(t, U), Counted(t),
           K = {<<target, v>> : v \in V}, Gathers(s, t, K, Addable)
    PROVE  Steps(s, t, U)
<1>1. MapKeys(t) = MapKeys(s) \cup K
  BY DEF Gathers
<1>2. MapKeys(s) \subseteq U \X Vars /\ K \subseteq U \X Vars
  BY DEF InOrder
<1>3. Effect(s, t)
  BY DEF Effect
<1> QED
  BY <1>1, <1>2, <1>3 DEF InOrder, Steps

\* To a target without cells any expression may be added.
LEMMA GathersAnew ==
    ASSUME NEW s, NEW t, NEW T, NEW K, NEW E, NEW F, Gathers(s, t, K, E), StoreOK(s, T),
           \A k \in K : k[1] \notin T
    PROVE  Gathers(s, t, K, F)
<1>1. \A c \in Cells(s) : c.key \notin K
  <2>1. \A l \in Locs(s) : KeyAt(s, l)[1] \in T
    BY KeysWithin
  <2>2. \A c \in Cells(s) : c.key[1] \in T
    BY <2>1, CellParts
  <2> QED
    BY <2>2
<1> QED
  BY <1>1 DEF Gathers

\* Cells are dropped.
LEMMA DropSteps ==
    ASSUME NEW s, NEW t, NEW T, InOrder(s, T), T \subseteq Targets, StoreOK(t, T), Steady(s, t),
           Slots(t) = Slots(s),
           \/ \E key \in Targets \X Vars : Cells(t) = {d \in Cells(s) : d.key # key}
           \/ \E target \in Targets : Cells(t) = {d \in Cells(s) : d.key[1] # target}
           \/ \E v \in Vars : Cells(t) = {d \in Cells(s) : d.key[2] # v}
    PROVE  Steps(s, t, T)
<1>1. Cells(t) \subseteq Cells(s)
  OBVIOUS
<1>2. MapKeys(t) \subseteq T \X Vars
  BY <1>1 DEF MapKeys, InOrder
<1>3. Counted(t)
  BY StaysCounted DEF InOrder
<1>4. Effect(s, t)
  BY DEF Effect
<1> QED
  BY <1>2, <1>3, <1>4 DEF InOrder, Steps

\* Sets of variables are finite sets of numbers.
LEMMA SomeVars ==
    ASSUME NEW V, V \subseteq Vars
    PROVE  V \in SUBSET Int /\ V \in SUBSET Vars /\ IsFiniteSet(V)
<1>1. Vars \subseteq Nat /\ IsFiniteSet(Vars)
  BY VarsAssumption
<1>2. IsFiniteSet(V)
  BY <1>1, FS_Subset
<1> QED
  BY <1>1, <1>2

\* A row of constants is appended for a new target.
LEMMA ConstantRowSteps ==
    ASSUME NEW s, NEW T, NEW U, NEW target, NEW row, NEW t, InOrder(s, T), target \notin T,
           U = T \cup {target}, U \subseteq Targets, DOMAIN row \subseteq Vars,
           t = AppendConstantRow(s, target, row)
    PROVE  Steps(s, t, U)
<1> DEFINE V == DOMAIN row
           K == {<<target, v>> : v \in V}
<1>1. V \in SUBSET Int /\ V \in SUBSET Vars /\ IsFiniteSet(V)
  BY SomeVars
<1>2. StoreOK(s, T) /\ T \subseteq U /\ target \in U
  BY DEF InOrder
<1>3. StoreOK(t, T \cup {target}) /\ Gathers(s, t, K, Addable)
  BY <1>1, <1>2, ConstantRowOK
<1>4. StoreOK(t, U)
  BY <1>3
<1>5. Counted(t)
  <2>1. DOMAIN s = Fields
    BY <1>2 DEF StoreOK, Shaped
  <2>2. t.varIndex = NotBuilt
    BY <2>1 DEF AppendConstantRow, Fields
  <2> QED
    BY <2>2 DEF Counted
<1> HIDE DEF V, K
<1>6. K = {<<target, v>> : v \in V}
  BY DEF K
<1> QED
  BY <1>1, <1>2, <1>3, <1>4, <1>5, <1>6, GathersSteps

\* The pairs of a target with some variables; expressions of a set.
Pairs(target, V) == {<<target, v>> : v \in V}
AllIn(exprs, E) == \A v \in DOMAIN exprs : exprs[v] \in E

\* A parametric row is appended for a new target.
LEMMA ParamRowGathers ==
    ASSUME NEW s, NEW T, NEW U, NEW target, NEW row, NEW layout, NEW t, InOrder(s, T),
           target \notin T, U = T \cup {target}, U \subseteq Targets, DOMAIN row \subseteq Vars,
           t = AppendParamRow(s, target, row, layout), NEW E
    PROVE  /\ StoreOK(t, U) /\ Steady(s, t) /\ Counted(t)
           /\ Gathers(s, t, Pairs(target, DOMAIN row), E)
<1> DEFINE V == DOMAIN row
           K == Pairs(target, V)
<1>1. V \in SUBSET Int /\ V \in SUBSET Vars /\ IsFiniteSet(V)
  BY SomeVars
<1>2. StoreOK(s, T)
  BY DEF InOrder
<1>3. StoreOK(t, T \cup {target}) /\ Gathers(s, t, {<<target, v>> : v \in DOMAIN row}, E)
  BY <1>1, <1>2, ParamRowOK
<1>4. Steady(s, t)
  <2>1. DOMAIN s = Fields
    BY <1>2 DEF StoreOK, Shaped
  <2> QED
    BY <2>1 DEF AppendParamRow, Steady, Fields
<1>5. Counted(t)
  BY <1>4, StaysCounted DEF InOrder
<1> QED
  BY <1>3, <1>4, <1>5 DEF Pairs

\* So it is one step of the store (append_param_row).
LEMMA ParamRowSteps ==
    ASSUME NEW s, NEW T, NEW U, NEW target, NEW row, NEW layout, NEW t, InOrder(s, T),
           target \notin T, U = T \cup {target}, U \subseteq Targets, DOMAIN row \subseteq Vars,
           t = AppendParamRow(s, target, row, layout)
    PROVE  Steps(s, t, U)
<1> DEFINE V == DOMAIN row
           K == Pairs(target, V)
<1>1. StoreOK(t, U) /\ Steady(s, t) /\ Counted(t) /\ Gathers(s, t, K, Addable)
  BY ParamRowGathers
<1>2. V \in SUBSET Vars /\ T \subseteq U /\ target \in U
  OBVIOUS
<1> HIDE DEF V, K
<1>3. K = {<<target, v>> : v \in V}
  BY DEF K, Pairs
<1> QED
  BY <1>1, <1>2, <1>3, GathersSteps

\* Terms are added, to a target that may be new.
LEMMA AddTermsGathers ==
    ASSUME NEW s, NEW T, NEW U, NEW target \in U, NEW exprs, NEW t, NEW E, StoreOK(s, T), Counted(s),
           T \subseteq U, DOMAIN exprs \subseteq Vars, AllIn(exprs, E),
           t = AddTerms(s, target, exprs)
    PROVE  /\ StoreOK(t, U) /\ Counted(t)
           /\ Gathers(s, t, Pairs(target, DOMAIN exprs), E)
<1>1. DOMAIN exprs \in SUBSET Int /\ IsFiniteSet(DOMAIN exprs)
  BY SomeVars
<1>2. StoreOK(s, U)
  BY StoreGrows
<1>3. StoreOK(t, U) /\ Gathers(s, t, Pairs(target, DOMAIN exprs), E) /\ Steady(s, t)
  <2>1. \A v \in DOMAIN exprs : exprs[v] \in E
    BY DEF AllIn
  <2>2. StoreOK(t, U) /\ Gathers(s, t, {<<target, v>> : v \in DOMAIN exprs}, E) /\ Steady(s, t)
    BY <1>1, <1>2, <2>1, AddTermsOK
  <2> QED
    BY <2>2 DEF Pairs
<1>4. Counted(t)
  BY <1>3, StaysCounted
<1> QED
  BY <1>3, <1>4

\* Terms added to a target are one step of the store.
LEMMA AddTermsSteps ==
    ASSUME NEW s, NEW T, NEW U, NEW target \in U, NEW exprs, NEW t, InOrder(s, T),
           T \subseteq U, U \subseteq Targets, DOMAIN exprs \subseteq Vars,
           AllIn(exprs, Addable), t = AddTerms(s, target, exprs)
    PROVE  Steps(s, t, U)
<1> DEFINE V == DOMAIN exprs
           K == Pairs(target, V)
<1>1. StoreOK(s, T) /\ Counted(s)
  BY DEF InOrder
<1>2. StoreOK(t, U) /\ Counted(t) /\ Gathers(s, t, K, Addable)
  BY <1>1, AddTermsGathers
<1>3. V \in SUBSET Vars
  OBVIOUS
<1> HIDE DEF V, K
<1>4. K = {<<target, v>> : v \in V}
  BY DEF K, Pairs
<1> QED
  BY <1>2, <1>3, <1>4, GathersSteps

\* A new objective: packed cells, then terms of several parameters.
LEMMA MixedRowSteps ==
    ASSUME NEW s, NEW T, NEW U, NEW target, NEW row, NEW layout, NEW exprs, NEW t, InOrder(s, T),
           target \notin T, U = T \cup {target}, U \subseteq Targets, DOMAIN row \subseteq Vars,
           DOMAIN exprs \subseteq Vars, DOMAIN row \cap DOMAIN exprs = {},
           t = AddTerms(AppendParamRow(s, target, row, layout), target, exprs)
    PROVE  Steps(s, t, U)
<1> DEFINE u == AppendParamRow(s, target, row, layout)
           E == {exprs[v] : v \in DOMAIN exprs}
           K == Pairs(target, DOMAIN row)
           L == Pairs(target, DOMAIN exprs)
           V == DOMAIN row \cup DOMAIN exprs
           M == K \cup L
<1>1. StoreOK(u, U) /\ Counted(u) /\ Gathers(s, u, K, E)
  BY ParamRowGathers
<1>2. U \subseteq U /\ target \in U /\ T \subseteq U /\ AllIn(exprs, E)
  BY DEF AllIn
<1>3. t = AddTerms(u, target, exprs)
  OBVIOUS
<1> HIDE DEF u, E
<1>4. StoreOK(t, U) /\ Counted(t) /\ Gathers(u, t, L, E)
  BY <1>1, <1>2, <1>3, AddTermsGathers
<1>5. K \cap L = {}
  BY DEF Pairs
<1>6. V \in SUBSET Vars /\ M = {<<target, v>> : v \in V} /\ \A k \in M : k[1] \notin T
  BY DEF Pairs
<1> HIDE DEF K, L, V
<1>7. Gathers(s, t, M, E)
  BY <1>1, <1>4, <1>5, GathersBoth
<1> HIDE DEF M
<1>8. Gathers(s, t, M, Addable)
  BY <1>6, <1>7, GathersAnew DEF InOrder
<1> QED
  BY <1>2, <1>4, <1>6, <1>8, GathersSteps

\* One expression is added to a cell (add_coefficient).
LEMMA AddSteps ==
    ASSUME NEW s, NEW T, NEW key \in T \X Vars, NEW expr \in Addable, NEW value, NEW t,
           InOrder(s, T), T \subseteq Targets, t = Add(s, key, expr, value)
    PROVE  Steps(s, t, T)
<1>1. StoreOK(s, T) /\ key[1] \in T /\ DOMAIN s = Fields
  BY DEF InOrder, StoreOK, Shaped
<1>2. StoreOK(t, T) /\ Gathers(s, t, {key}, Addable)
  BY <1>1, AddOK
<1>3. Steady(s, t)
  BY <1>1, SteadyEdits
<1>4. Counted(t)
  BY <1>3, StaysCounted DEF InOrder
<1> DEFINE target == key[1]
           V == {key[2]}
           K == {key}
<1>5. K = {<<target, v>> : v \in V} /\ target \in T /\ V \in SUBSET Vars /\ T \subseteq T
  OBVIOUS
<1> HIDE DEF target, V
<1>6. Gathers(s, t, K, Addable)
  BY <1>2
<1> HIDE DEF K
<1> QED
  BY <1>2, <1>4, <1>5, <1>6, GathersSteps

\* A cell is set to a constant, there already or not (set_coefficient).
SetTo(s, key, x) ==
    IF LiveId(s, key) = {} THEN AddFresh(s, key, Constant(x), x)
    ELSE SetExpr(s, CHOOSE id \in LiveId(s, key) : TRUE, Constant(x), x)

\* Setting a cell is one step of the store.
LEMMA SetSteps ==
    ASSUME NEW s, NEW T, NEW key \in T \X Vars, NEW x \in Values, NEW t, InOrder(s, T),
           T \subseteq Targets,
           t = SetTo(s, key, x)
    PROVE  Steps(s, t, T)
<1>1. StoreOK(s, T) /\ key[1] \in T /\ DOMAIN s = Fields /\ Shaped(s) /\ Exact(s)
  BY DEF InOrder, StoreOK, Shaped
<1>2. CASE LiveId(s, key) = {}
  <2>1. t = AddFresh(s, key, Constant(x), x)
    BY <1>2 DEF SetTo
  <2>2. \A l \in Locs(s) : KeyAt(s, l) # key
    <3> SUFFICES ASSUME NEW l \in Locs(s), KeyAt(s, l) = key PROVE FALSE
      OBVIOUS
    <3>1. LiveId(s, key) = {IdAt(s, l)}
      BY <1>1, LiveIdFinds
    <3> QED
      BY <1>2, <3>1
  <2> DEFINE e == Constant(x)
             n == NextSlot(s)
             new == MapCell(key, FreshId(n), e)
  <2>3. /\ StoreOK(t, T)
        /\ Slots(t) = Slots(s) \cup {n} /\ n \notin Slots(s) /\ Cells(t) = Cells(s) \cup {new}
    <3> HIDE DEF e
    <3>1. t = AddFresh(s, key, e, x)
      BY <2>1 DEF e
    <3>2. /\ StoreOK(t, T)
          /\ Slots(t) = Slots(s) \cup {NextSlot(s)} /\ NextSlot(s) \notin Slots(s)
          /\ Cells(t) = Cells(s) \cup {MapCell(key, FreshId(NextSlot(s)), e)}
      <4> DEFINE k == key
      <4>1. /\ StoreOK(s, T) /\ k[1] \in T /\ t = AddFresh(s, k, e, x)
            /\ \A l \in Locs(s) : KeyAt(s, l) # k
        BY <1>1, <2>2, <3>1
      <4> HIDE DEF k
      <4>2. /\ StoreOK(t, T)
            /\ Slots(t) = Slots(s) \cup {NextSlot(s)} /\ NextSlot(s) \notin Slots(s)
            /\ Cells(t) = Cells(s) \cup {MapCell(k, FreshId(NextSlot(s)), e)}
        BY <4>1, AddFreshOK
      <4> QED
        BY <4>2 DEF k
    <3> QED
      BY <3>2
  <2>4. Counted(t)
    BY <1>1, <2>1, SteadyEdits, StaysCounted DEF InOrder
  <2>5. new.key = key /\ new.id = FreshId(n)
    BY DEF MapCell
  <2> HIDE DEF new, n
  <2>6. \A c \in Cells(s) : c.key # key
    BY <2>2, CellParts
  <2>7. MapKeys(t) = MapKeys(s) \cup {key} /\ key \notin MapKeys(s)
    BY <2>3, <2>5, <2>6 DEF MapKeys
  <2>8. \A d \in Cells(t) : d.key \notin MapKeys(s) => d = new
    BY <2>3 DEF MapKeys
  <2>9. Gathers(s, t, {key}, Addable)
    BY <2>3, <2>5, <2>6, <2>7, <2>8 DEF Gathers
  <2> DEFINE target == key[1]
             V == {key[2]}
             K == {key}
  <2>10. K = {<<target, v>> : v \in V} /\ target \in T /\ V \in SUBSET Vars /\ T \subseteq T
    OBVIOUS
  <2> HIDE DEF target, V
  <2>11. Gathers(s, t, K, Addable)
    BY <2>9
  <2> HIDE DEF K
  <2> QED
    BY <2>3, <2>4, <2>10, <2>11, GathersSteps
<1>3. CASE LiveId(s, key) # {}
  <2>1. PICK l \in Locs(s) : KeyAt(s, l) = key
    BY <1>1, <1>3, LiveIdFinds
  <2>2. LiveId(s, key) = {IdAt(s, l)}
    BY <1>1, <2>1, LiveIdFinds
  <2>3. PICK n \in Slots(s) : IdAt(s, l) = FreshId(n) /\ LocOf(s, n) = l
    BY <1>1 DEF Exact
  <2> DEFINE e == Constant(x)
  <2>4. t = SetExpr(s, FreshId(n), e, x)
    BY <1>3, <2>2, <2>3 DEF SetTo
  <2> HIDE DEF e
  <2>5. StoreOK(t, T) /\ Slots(t) = Slots(s) /\ Cells(t) = Replaced(s, n, e)
    BY <1>1, <2>3, <2>4, SetExprOK
  <2>6. Steady(s, t)
    BY <1>1, <2>4, SteadyEdits
  <2>7. Counted(t)
    BY <2>6, StaysCounted DEF InOrder
  <2> DEFINE c == CellIn(s, l)
  <2>8. c \in Cells(s) /\ c.key = key /\ c.id = FreshId(n)
    BY <2>1, <2>3, CellParts
  <2> HIDE DEF c
  <2>9. Cells(t) = {d \in Cells(s) : d.key # c.key} \cup {MapCell(c.key, c.id, e)}
    <3>1. Cells(t) = {d \in Cells(s) : d.id # c.id} \cup {MapCell(c.key, c.id, e)}
      BY <2>1, <2>3, <2>5, <2>8 DEF Replaced
    <3>2. {d \in Cells(s) : d.id # c.id} = {d \in Cells(s) : d.key # c.key}
      BY <1>1, <2>8, AllButOne
    <3> QED
      BY <3>1, <3>2
  <2>10. MapKeys(t) \subseteq MapKeys(s)
    BY <2>8, <2>9 DEF MapKeys, MapCell
  <2>11. Effect(s, t)
    BY <2>5, <2>8, <2>9 DEF Effect, e
  <2> QED
    BY <2>5, <2>7, <2>10, <2>11 DEF Steps, InOrder
<1> QED
  BY <1>2, <1>3

\* The cells of a list are removed, which are those of a target or a variable.
LEMMA RemoveTargetSteps ==
    ASSUME NEW s, NEW T, NEW target \in Targets, NEW t, InOrder(s, T), T \subseteq Targets,
           t = RemoveAll(s, ForTarget(s, target))
    PROVE  Steps(s, t, T)
<1> DEFINE ids == ForTarget(s, target)
<1>1. StoreOK(s, T)
  BY DEF InOrder
<1>2. /\ IsList(ids) /\ Elements(ids) = {c.id : c \in {d \in Cells(s) : d.key[1] = target}}
      /\ \A k \in 1 .. Len(ids) : \E n : ids[k] = FreshId(n)
  BY <1>1, ForTargetFinds
<1>3. t = RemoveAll(s, ids)
  OBVIOUS
<1> HIDE DEF ids
<1>4. /\ StoreOK(t, T) /\ Slots(t) = Slots(s) /\ Steady(s, t)
      /\ Cells(t) = {c \in Cells(s) : c.id \notin Elements(ids)}
  BY <1>1, <1>2, <1>3, RemoveAllOK
<1>5. \A c, d \in Cells(s) : c.id = d.id => c = d
  BY <1>1, CellsFound
<1>6. Cells(t) = {d \in Cells(s) : d.key[1] # target}
  BY <1>2, <1>4, <1>5
<1> QED
  BY <1>4, <1>6, DropSteps

\* The cells of a variable are removed, those in the base found by its index.
LEMMA RemoveVariableSteps ==
    ASSUME NEW s, NEW T, NEW v \in Vars, NEW t, InOrder(s, T), T \subseteq Targets,
           t = RemoveAll(EnsureVarIndex(s), ForVar(s, v))
    PROVE  Steps(s, t, T)
<1> DEFINE ids == ForVar(s, v)
           u == EnsureVarIndex(s)
<1>1. StoreOK(s, T) /\ Counted(s)
  BY DEF InOrder
<1>2. /\ IsList(ids) /\ Elements(ids) = {c.id : c \in {d \in Cells(s) : d.key[2] = v}}
      /\ \A k \in 1 .. Len(ids) : \E n : ids[k] = FreshId(n)
  BY <1>1, ForVarFinds
<1>3. StoreOK(u, T) /\ Slots(u) = Slots(s) /\ Cells(u) = Cells(s) /\ Counted(u)
  BY <1>1, IndexBuilt
<1>4. t = RemoveAll(u, ids)
  OBVIOUS
<1> HIDE DEF ids, u
<1>5. /\ StoreOK(t, T) /\ Slots(t) = Slots(u) /\ Steady(u, t)
      /\ Cells(t) = {c \in Cells(u) : c.id \notin Elements(ids)}
  BY <1>2, <1>3, <1>4, RemoveAllOK
<1>6. \A c, d \in Cells(u) : c.id = d.id => c = d
  BY <1>3, CellsFound
<1>7. Cells(t) = {d \in Cells(u) : d.key[2] # v}
  BY <1>2, <1>3, <1>5, <1>6
<1>8. InOrder(u, T)
  BY <1>3 DEF InOrder, MapKeys
<1>9. Steps(u, t, T)
  BY <1>5, <1>7, <1>8, DropSteps
<1>10. Effect(s, t)
  BY <1>3, <1>5, <1>7 DEF Effect
<1> QED
  BY <1>9, <1>10 DEF Steps

\* One cell is removed, by identity (remove_coefficient).
LEMMA RemoveSteps ==
    ASSUME NEW s, NEW T, NEW n, NEW t, InOrder(s, T), T \subseteq Targets,
           Resolve(s, FreshId(n)) # Vacant, t = Discard(s, FreshId(n))
    PROVE  Steps(s, t, T)
<1>1. StoreOK(s, T)
  BY DEF InOrder
<1> DEFINE c == CellIn(s, LocOf(s, n))
<1>2. n \in Slots(s) /\ LocOf(s, n) \in Locs(s) /\ c \in Cells(s) /\ c.id = FreshId(n)
  BY <1>1, Resolved
<1> HIDE DEF c
<1>3. StoreOK(t, T) /\ Slots(t) = Slots(s) /\ Cells(t) = Without(s, n)
  BY <1>1, DiscardOK
<1>4. Steady(s, t)
  BY <1>1, SteadyDiscard
<1>5. Cells(t) = {d \in Cells(s) : d.key # c.key}
  BY <1>1, <1>2, <1>3, AllButOne DEF Without
<1>6. c.key \in Targets \X Vars
  BY <1>2 DEF InOrder, MapKeys
<1> QED
  BY <1>3, <1>4, <1>5, <1>6, DropSteps

\* By pair: nothing happens when there is no such cell.
RemoveAt(s, key) ==
    RemoveAll(s, IF LiveId(s, key) = {} THEN <<>> ELSE <<CHOOSE id \in LiveId(s, key) : TRUE>>)

\* Removing the cell of a pair is one step of the store (remove_coefficient_at).
LEMMA RemoveAtSteps ==
    ASSUME NEW s, NEW T, NEW key \in T \X Vars, NEW t, InOrder(s, T), T \subseteq Targets,
           t = RemoveAt(s, key)
    PROVE  Steps(s, t, T)
<1>1. StoreOK(s, T) /\ Exact(s)
  BY DEF InOrder, StoreOK
<1> DEFINE ids == IF LiveId(s, key) = {} THEN <<>> ELSE <<CHOOSE id \in LiveId(s, key) : TRUE>>
<1>2. t = RemoveAll(s, ids)
  BY DEF RemoveAt
<1>3. \/ LiveId(s, key) = {} /\ \A d \in Cells(s) : d.key # key
      \/ \E c \in Cells(s) : c.key = key /\ LiveId(s, key) = {c.id} /\ \E n : c.id = FreshId(n)
  <2>1. CASE \A d \in Cells(s) : d.key # key
    <3>1. key \notin MapKeys(s)
      BY <2>1 DEF MapKeys
    <3> QED
      BY <1>1, <2>1, <3>1, CellsFound
  <2>2. CASE \E c \in Cells(s) : c.key = key
    <3>1. PICK c \in Cells(s) : c.key = key
      BY <2>2
    <3>2. LiveId(s, c.key) = {c.id} /\ \E n : c.id = FreshId(n)
      BY <1>1, CellsFound
    <3> QED
      BY <3>1, <3>2
  <2> QED
    BY <2>1, <2>2
<1>4. CASE LiveId(s, key) = {} /\ \A d \in Cells(s) : d.key # key
  <2>1. ids = <<>>
    BY <1>4
  <2> HIDE DEF ids
  <2>2. IsList(ids) /\ Elements(ids) = {} /\ \A k \in 1 .. Len(ids) : \E n : ids[k] = FreshId(n)
    <3>1. <<>> \in Seq({}) /\ Len(<<>>) = 0
      OBVIOUS
    <3> QED
      BY <2>1, <3>1 DEF IsList, Elements
  <2>3. /\ StoreOK(t, T) /\ Slots(t) = Slots(s) /\ Steady(s, t)
        /\ Cells(t) = {c \in Cells(s) : c.id \notin Elements(ids)}
    BY <1>1, <1>2, <2>2, RemoveAllOK
  <2>4. Cells(t) = {d \in Cells(s) : d.key # key}
    BY <1>4, <2>2, <2>3
  <2>5. key \in Targets \X Vars
    OBVIOUS
  <2> QED
    BY <2>3, <2>4, <2>5, DropSteps
<1>5. CASE \E c \in Cells(s) : c.key = key /\ LiveId(s, key) = {c.id} /\ \E n : c.id = FreshId(n)
  <2>1. PICK c \in Cells(s) : c.key = key /\ LiveId(s, key) = {c.id} /\ \E n : c.id = FreshId(n)
    BY <1>5
  <2>2. ids = <<c.id>>
    BY <2>1
  <2> HIDE DEF ids
  <2>3. IsList(ids) /\ Elements(ids) = {c.id} /\ \A k \in 1 .. Len(ids) : \E n : ids[k] = FreshId(n)
    <3>1. ids \in Seq({c.id}) /\ Len(ids) = 1 /\ ids[1] = c.id /\ 1 .. 1 = {1}
      BY <2>2
    <3>2. IsList(ids)
      BY <3>1 DEF IsList
    <3>3. Elements(ids) = {c.id}
      BY <3>1 DEF Elements
    <3> QED
      BY <2>1, <3>1, <3>2, <3>3
  <2>4. /\ StoreOK(t, T) /\ Slots(t) = Slots(s) /\ Steady(s, t)
        /\ Cells(t) = {d \in Cells(s) : d.id \notin Elements(ids)}
    BY <1>1, <1>2, <2>3, RemoveAllOK
  <2>5. Cells(t) = {d \in Cells(s) : d.key # key}
    <3>1. Cells(t) = {d \in Cells(s) : d.id # c.id}
      BY <2>3, <2>4
    <3> QED
      BY <1>1, <2>1, <3>1, AllButOne
  <2>6. key \in Targets \X Vars
    OBVIOUS
  <2> QED
    BY <2>4, <2>5, <2>6, DropSteps
<1> QED
  BY <1>3, <1>4, <1>5

\* What every reachable state satisfies: the store is in order, its cells belong
\* to targets that were created and to variables, and the queue is a list of
\* blocks and finitely many values.
StoreInv ==
    /\ InOrder(store, born)
    /\ targets \subseteq born /\ born \subseteq Targets /\ vars \subseteq Vars
    /\ IsList(blocks) /\ IsFiniteSet(DOMAIN pending)

\* Everything of it but the store.
Surroundings ==
    /\ targets \subseteq born /\ born \subseteq Targets /\ vars \subseteq Vars
    /\ IsList(blocks) /\ IsFiniteSet(DOMAIN pending)

\* An edit in full.
Edit == Steps(store, store', born') /\ Surroundings'

\* An empty store is in order, and nothing is queued.
LEMMA StoreInvInit ==
    ASSUME Init
    PROVE  StoreInv
<1>1. StoreOK(EmptyStore, born)
    BY EmptyStoreOK
<1>2. Counted(EmptyStore)
    BY DEF Counted, EmptyStore
<1>3. Locs(EmptyStore) = {}
    BY DEF Locs, EmptyStore, PackedLive, ParamLive, OverlayLive
<1>4. MapKeys(EmptyStore) = {}
    BY <1>3 DEF MapKeys, Cells
<1>5. InOrder(store, born)
    BY <1>1, <1>2, <1>4 DEF InOrder, Init
<1>6. IsList(<<>>) /\ DOMAIN <<>> = {} /\ IsFiniteSet({})
    BY FS_EmptySet DEF IsList
<1>7. IsList(blocks) /\ IsFiniteSet(DOMAIN pending)
    BY <1>6 DEF Init
<1> QED BY <1>5, <1>7 DEF StoreInv, Init

\* An edit keeps the invariant.
LEMMA EditKeeps ==
    ASSUME Edit
    PROVE  StoreInv' /\ Effect(store, store')
BY DEF Edit, Surroundings, StoreInv, Steps

\* Nothing of the store moves while another target may be created.
LEMMA StoreStays ==
    ASSUME StoreInv, store' = store, born \subseteq born', Surroundings'
    PROVE  Edit
<1>1. InOrder(store, born)
    BY DEF StoreInv
<1>2. Steps(store, store, born')
    BY <1>1, NothingMoves
<1> QED BY <1>2 DEF Edit

\* What surrounds the store stays when the queue does.
LEMMA QueueStays ==
    ASSUME StoreInv, KeepQueue, targets' \subseteq born', born' \subseteq Targets, vars' \subseteq Vars
    PROVE  Surroundings'
BY DEF StoreInv, KeepQueue, Surroundings

\* A new target is one that was never created.
LEMMA Creates ==
    ASSUME StoreInv, NEW t, Create(t), vars' = vars, KeepQueue
    PROVE  /\ t \notin born /\ born' = born \cup {t} /\ born' \subseteq Targets /\ Surroundings'
           /\ InOrder(store, born) /\ t \in born' /\ born \subseteq born'
<1>1. born' = born \cup {t} /\ t \in Targets /\ t \notin born /\ targets' = targets \cup {t}
    BY DEF Create
<1>2. targets' \subseteq born' /\ born' \subseteq Targets /\ vars' \subseteq Vars
    BY <1>1 DEF StoreInv
<1>3. Surroundings'
    BY <1>2, QueueStays
<1>4. InOrder(store, born)
    BY DEF StoreInv
<1> QED BY <1>1, <1>2, <1>3, <1>4

\* Rows have variables of their terms.
LEMMA RowVars ==
    ASSUME NEW terms
    PROVE  /\ DOMAIN CanonicalRow(terms) \subseteq TermVars(terms)
           /\ DOMAIN CanonicalParamRow(terms) \subseteq TermVars(terms)
BY DEF CanonicalRow, CanonicalParamRow

Constants(row) == [v \in DOMAIN row |-> Constant(row[v])]

\* The constants of a row may be added.
LEMMA RowAddable ==
    ASSUME NEW terms \in LinearInputs
    PROVE  /\ AllIn(Constants(CanonicalRow(terms)), Addable)
           /\ DOMAIN Constants(CanonicalRow(terms)) = DOMAIN CanonicalRow(terms)
<1> DEFINE row == CanonicalRow(terms)
<1>1. \A v \in DOMAIN row : row[v] \in RowTotals
    BY DEF RowTotals
<1> HIDE DEF row
<1>2. AllIn(Constants(row), Addable) /\ DOMAIN Constants(row) = DOMAIN row
    BY <1>1 DEF AllIn, Constants, Addable
<1> QED BY <1>2 DEF row

\* An empty target.
LEMMA AddEmptyTargetEdits ==
    ASSUME StoreInv, NEW t, AddEmptyTarget(t)
    PROVE  Edit
<1>1. Create(t) /\ store' = store /\ vars' = vars /\ KeepQueue
    BY DEF AddEmptyTarget
<1>2. Surroundings' /\ born \subseteq born'
    BY <1>1, Creates
<1> QED BY <1>1, <1>2, StoreStays

\* A row of constants.
LEMMA AddLinearRowsBulkEdits ==
    ASSUME StoreInv, NEW t, NEW terms, AddLinearRowsBulk(t, terms)
    PROVE  Edit
<1> DEFINE row == CanonicalRow(terms)
<1>1. /\ Create(t) /\ vars' = vars /\ KeepQueue /\ TermVars(terms) \subseteq vars
      /\ store' = AppendConstantRow(store, t, row)
    BY DEF AddLinearRowsBulk
<1>2. /\ t \notin born /\ born' = born \cup {t} /\ born' \subseteq Targets /\ Surroundings'
      /\ InOrder(store, born)
    BY <1>1, Creates
<1>3. DOMAIN row \subseteq Vars
    BY <1>1, RowVars DEF StoreInv
<1> HIDE DEF row
<1>4. Steps(store, store', born')
    BY <1>1, <1>2, <1>3, ConstantRowSteps
<1> QED BY <1>2, <1>4 DEF Edit

\* A parametric row.
LEMMA AddLinearRowsParamBulkEdits ==
    ASSUME StoreInv, NEW t, NEW terms, NEW layout, AddLinearRowsParamBulk(t, terms, layout)
    PROVE  Edit
<1> DEFINE row == CanonicalParamRow(terms)
<1>1. /\ Create(t) /\ vars' = vars /\ KeepQueue /\ TermVars(terms) \subseteq vars
      /\ store' = AppendParamRow(store, t, row, layout)
    BY DEF AddLinearRowsParamBulk
<1>2. /\ t \notin born /\ born' = born \cup {t} /\ born' \subseteq Targets /\ Surroundings'
      /\ InOrder(store, born)
    BY <1>1, Creates
<1>3. DOMAIN row \subseteq Vars
    BY <1>1, RowVars DEF StoreInv
<1> HIDE DEF row
<1>4. Steps(store, store', born')
    BY <1>1, <1>2, <1>3, ParamRowSteps
<1> QED BY <1>2, <1>4 DEF Edit

\* A linear objective: packed, or term by term.
LEMMA SetLinearObjectiveBulkEdits ==
    ASSUME StoreInv, NEW t, NEW terms \in LinearInputs, SetLinearObjectiveBulk(t, terms)
    PROVE  Edit
<1> DEFINE row == CanonicalRow(terms)
<1>1. /\ Create(t) /\ vars' = vars /\ KeepQueue /\ TermVars(terms) \subseteq vars
      /\ \/ store' = AddTerms(store, t, Constants(row))
         \/ store' = AppendConstantRow(store, t, row)
    BY DEF SetLinearObjectiveBulk, Constants
<1>2. /\ t \notin born /\ born' = born \cup {t} /\ born' \subseteq Targets /\ Surroundings'
      /\ InOrder(store, born) /\ t \in born' /\ born \subseteq born'
    BY <1>1, Creates
<1>3. DOMAIN row \subseteq Vars
    BY <1>1, RowVars DEF StoreInv
<1>4. AllIn(Constants(row), Addable) /\ DOMAIN Constants(row) = DOMAIN row
    BY RowAddable
<1> HIDE DEF row
<1>5. DOMAIN Constants(row) \subseteq Vars
    BY <1>3, <1>4
<1>6. CASE store' = AddTerms(store, t, Constants(row))
    <2>1. Steps(store, store', born')
        BY <1>2, <1>4, <1>5, <1>6, AddTermsSteps
    <2> QED BY <1>2, <2>1 DEF Edit
<1>7. CASE store' = AppendConstantRow(store, t, row)
    <2>1. Steps(store, store', born')
        BY <1>2, <1>3, <1>7, ConstantRowSteps
    <2> QED BY <1>2, <2>1 DEF Edit
<1> QED BY <1>1, <1>6, <1>7

\* A parametric objective: packed cells, and combined ones term by term.
LEMMA SetLinearObjectiveParamBulkEdits ==
    ASSUME StoreInv, NEW t, NEW terms, NEW layout, SetLinearObjectiveParamBulk(t, terms, layout)
    PROVE  Edit
<1> DEFINE packed == {v \in TermVars(terms) : Packable(terms, v)}
           row == [v \in packed |-> ParamCell(terms, v)]
           combined == [v \in TermVars(terms) \ packed |-> CombinedExpr(terms, v)]
<1>1. /\ Create(t) /\ vars' = vars /\ KeepQueue /\ TermVars(terms) \subseteq vars
      /\ store' = AddTerms(AppendParamRow(store, t, row, layout), t, combined)
    BY DEF SetLinearObjectiveParamBulk
<1>2. /\ t \notin born /\ born' = born \cup {t} /\ born' \subseteq Targets /\ Surroundings'
      /\ InOrder(store, born)
    BY <1>1, Creates
<1>3. DOMAIN row = packed /\ DOMAIN combined = TermVars(terms) \ packed
    OBVIOUS
<1>4. packed \subseteq TermVars(terms) /\ TermVars(terms) \subseteq Vars
    BY <1>1 DEF StoreInv
<1> HIDE DEF packed, row, combined
<1>5. DOMAIN row \subseteq Vars /\ DOMAIN combined \subseteq Vars /\ DOMAIN row \cap DOMAIN combined = {}
    BY <1>3, <1>4
<1>6. Steps(store, store', born')
    BY <1>1, <1>2, <1>5, MixedRowSteps
<1> QED BY <1>2, <1>6 DEF Edit

\* What an edit of a cell is about, and what it leaves alone.
LEMMA EditCellFrame ==
    ASSUME StoreInv, NEW key, EditCell(key)
    PROVE  /\ key \in born \X Vars /\ key \in Targets \X Vars /\ born' = born /\ Surroundings'
           /\ InOrder(store, born) /\ born \subseteq Targets
<1>1. /\ key \in targets \X vars /\ KeepQueue
      /\ targets' = targets /\ vars' = vars /\ born' = born
    BY DEF EditCell
<1>2. targets \subseteq born /\ born \subseteq Targets /\ vars \subseteq Vars /\ InOrder(store, born)
    BY DEF StoreInv
<1>3. Surroundings'
    BY <1>1, <1>2, QueueStays
<1>4. key \in born \X Vars /\ key \in Targets \X Vars
    BY <1>1, <1>2
<1> QED BY <1>1, <1>2, <1>3, <1>4

\* An expression is added to a cell.
LEMMA AddCoefficientEdits ==
    ASSUME StoreInv, NEW key, NEW e \in Exprs, AddCoefficient(key, e)
    PROVE  Edit
<1>1. EditCell(key) /\ store' = Add(store, key, e, Eval(e, params))
    BY DEF AddCoefficient
<1>2. /\ key \in born \X Vars /\ born' = born /\ Surroundings' /\ InOrder(store, born)
      /\ born \subseteq Targets
    BY <1>1, EditCellFrame
<1>3. e \in Addable
    BY DEF Addable
<1>4. Steps(store, store', born)
    BY <1>1, <1>2, <1>3, AddSteps
<1> QED BY <1>2, <1>4 DEF Edit

\* A cell is set to a constant.
LEMMA SetCoefficientEdits ==
    ASSUME StoreInv, NEW key, NEW value \in Values, SetCoefficient(key, value)
    PROVE  Edit
<1>1. EditCell(key) /\ (store' = store \/ store' = SetTo(store, key, value))
    BY DEF SetCoefficient, SetTo
<1>2. /\ key \in born \X Vars /\ born' = born /\ Surroundings' /\ InOrder(store, born)
      /\ born \subseteq Targets
    BY <1>1, EditCellFrame
<1>3. CASE store' = store
    BY <1>2, <1>3, StoreStays
<1>4. CASE store' = SetTo(store, key, value)
    <2>1. Steps(store, store', born)
        BY <1>2, <1>4, SetSteps
    <2> QED BY <1>2, <2>1 DEF Edit
<1> QED BY <1>1, <1>3, <1>4

\* A cell is removed, by its pair.
LEMMA RemoveCoefficientAtEdits ==
    ASSUME StoreInv, NEW key, RemoveCoefficientAt(key)
    PROVE  Edit
<1>1. EditCell(key) /\ store' = RemoveAt(store, key)
    BY DEF RemoveCoefficientAt, RemoveAt
<1>2. /\ key \in born \X Vars /\ born' = born /\ Surroundings' /\ InOrder(store, born)
      /\ born \subseteq Targets
    BY <1>1, EditCellFrame
<1>3. Steps(store, store', born)
    BY <1>1, <1>2, RemoveAtSteps
<1> QED BY <1>2, <1>3 DEF Edit

\* A cell is removed, by its identity.
LEMMA RemoveCoefficientEdits ==
    ASSUME StoreInv, NEW id \in Issued(store), RemoveCoefficient(id)
    PROVE  Edit
<1>1. PICK n : id = FreshId(n)
    BY DEF Issued
<1>2. /\ Resolve(store, FreshId(n)) # Vacant /\ store' = Discard(store, FreshId(n)) /\ KeepQueue
      /\ targets' = targets /\ vars' = vars /\ born' = born
    BY <1>1 DEF RemoveCoefficient
<1>3. targets \subseteq born /\ born \subseteq Targets /\ vars \subseteq Vars /\ InOrder(store, born)
    BY DEF StoreInv
<1>4. Surroundings'
    BY <1>2, <1>3, QueueStays
<1>5. Steps(store, store', born)
    BY <1>2, <1>3, RemoveSteps
<1> QED BY <1>2, <1>4, <1>5 DEF Edit

\* The cells of a variable are removed with it.
LEMMA RemoveVariableEdits ==
    ASSUME StoreInv, NEW v \in Vars, RemoveVariable(v)
    PROVE  Edit
<1>1. /\ store' = RemoveAll(EnsureVarIndex(store), ForVar(store, v)) /\ KeepQueue
      /\ targets' = targets /\ vars' = vars \ {v} /\ born' = born
    BY DEF RemoveVariable
<1>2. targets \subseteq born /\ born \subseteq Targets /\ vars \subseteq Vars /\ InOrder(store, born)
    BY DEF StoreInv
<1>3. vars' \subseteq Vars
    BY <1>1, <1>2
<1>4. Surroundings'
    BY <1>1, <1>2, <1>3, QueueStays
<1>5. Steps(store, store', born)
    BY <1>1, <1>2, RemoveVariableSteps
<1> QED BY <1>1, <1>4, <1>5 DEF Edit

\* The cells of a constraint or objective are removed with it.
LEMMA RemoveTargetEdits ==
    ASSUME StoreInv, NEW t \in Targets, RemoveTarget(t)
    PROVE  Edit
<1>1. /\ store' = RemoveAll(store, ForTarget(store, t)) /\ KeepQueue
      /\ targets' = targets \ {t} /\ vars' = vars /\ born' = born
    BY DEF RemoveTarget
<1>2. targets \subseteq born /\ born \subseteq Targets /\ vars \subseteq Vars /\ InOrder(store, born)
    BY DEF StoreInv
<1>3. targets' \subseteq born'
    BY <1>1, <1>2
<1>4. Surroundings'
    BY <1>1, <1>2, <1>3, QueueStays
<1>5. Steps(store, store', born)
    BY <1>1, <1>2, RemoveTargetSteps
<1> QED BY <1>1, <1>4, <1>5 DEF Edit

\* The terms of an objective expression are added.
LEMMA SetObjectiveExprEdits ==
    ASSUME StoreInv, NEW t, NEW terms \in LinearInputs, SetObjectiveExpr(t, terms)
    PROVE  Edit
<1> DEFINE row == CanonicalRow(terms)
<1>1. /\ store' = AddTerms(store, t, Constants(row)) /\ KeepQueue
      /\ t \in targets /\ TermVars(terms) \subseteq vars
      /\ targets' = targets /\ vars' = vars /\ born' = born
    BY DEF SetObjectiveExpr, Constants
<1>2. targets \subseteq born /\ born \subseteq Targets /\ vars \subseteq Vars /\ InOrder(store, born)
    BY DEF StoreInv
<1>3. Surroundings'
    BY <1>1, <1>2, QueueStays
<1>4. DOMAIN row \subseteq Vars
    BY <1>1, <1>2, RowVars
<1>5. AllIn(Constants(row), Addable) /\ DOMAIN Constants(row) = DOMAIN row
    BY RowAddable
<1> HIDE DEF row
<1>6. DOMAIN Constants(row) \subseteq Vars /\ t \in born /\ born \subseteq born
    BY <1>1, <1>2, <1>4, <1>5
<1>7. Steps(store, store', born)
    BY <1>1, <1>2, <1>5, <1>6, AddTermsSteps
<1> QED BY <1>1, <1>3, <1>7 DEF Edit

\* A value is queued.
LEMMA SetParameterEdits ==
    ASSUME StoreInv, NEW p, NEW value, SetParameter(p, value)
    PROVE  Edit
<1>1. /\ DOMAIN pending' = DOMAIN pending \cup {p} /\ blocks' = blocks /\ store' = store
      /\ targets' = targets /\ vars' = vars /\ born' = born
    BY DEF SetParameter, KeepModel
<1>2. IsFiniteSet(DOMAIN pending')
    BY <1>1, FS_AddElement DEF StoreInv
<1>3. Surroundings' /\ born \subseteq born'
    BY <1>1, <1>2 DEF StoreInv, Surroundings
<1> QED BY <1>1, <1>3, StoreStays

\* A block of values is queued.
LEMMA SetParametersBulkEdits ==
    ASSUME StoreInv, NEW values, SetParametersBulk(values)
    PROVE  Edit
<1>1. /\ pending' = pending /\ blocks' = Append(blocks, values) /\ store' = store
      /\ targets' = targets /\ vars' = vars /\ born' = born
    BY DEF SetParametersBulk, KeepModel
<1>2. IsList(blocks)
    BY DEF StoreInv
<1>3. IsList(Append(blocks, values))
    BY <1>2, ListAppend
<1>4. IsList(blocks')
    BY <1>1, <1>3
<1>5. Surroundings' /\ born \subseteq born'
    BY <1>1, <1>4 DEF StoreInv, Surroundings
<1> QED BY <1>1, <1>5, StoreStays

\* An empty queue is in order.
LEMMA QueueEmptied ==
    ASSUME StoreInv, pending' = <<>>, blocks' = <<>>,
           targets' = targets, vars' = vars, born' = born
    PROVE  Surroundings' /\ born \subseteq born'
<1>1. IsList(<<>>) /\ DOMAIN <<>> = {} /\ IsFiniteSet({})
    BY FS_EmptySet DEF IsList
<1>2. IsList(blocks') /\ IsFiniteSet(DOMAIN pending')
    BY <1>1
<1> QED BY <1>2 DEF StoreInv, Surroundings

\* The queued values are applied.
LEMMA CommitParametersEdits ==
    ASSUME StoreInv, CommitParameters
    PROVE  Edit
<1>1. PICK order \in Orders(DOMAIN pending) :
         store' = Applying(order)[Len(blocks) + Len(order)].store
    BY Zenon DEF CommitParameters
<1>2. pending' = <<>> /\ blocks' = <<>> /\ targets' = targets /\ vars' = vars /\ born' = born
    BY DEF CommitParameters
<1>3. Surroundings'
    BY <1>2, QueueEmptied
<1>4. Len(blocks) \in Nat /\ IsFiniteSet(DOMAIN pending) /\ InOrder(store, born)
    BY DEF StoreInv, IsList
<1>5. Cardinality(DOMAIN pending) \in Nat
    BY <1>4, FS_CardinalityType
<1>6. order \in [1 .. Cardinality(DOMAIN pending) -> DOMAIN pending]
    BY DEF Orders
<1>7. Len(order) \in Nat
    BY <1>5, <1>6
<1>8. StoreOK(store, born)
    BY <1>4 DEF InOrder
<1>9. StoreOK(store', born) /\ SameCells(store, store')
    BY <1>1, <1>4, <1>7, <1>8, ApplyingOK
<1>10. Counted(store')
    BY <1>4, <1>9, StaysCounted DEF InOrder, SameCells
<1>11. Steps(store, store', born)
    BY <1>4, <1>9, <1>10 DEF Steps, InOrder, Effect, SameCells, MapKeys
<1> QED BY <1>2, <1>3, <1>11 DEF Edit

\* The rest leaves the store alone.
LEMMA OtherEdits ==
    ASSUME StoreInv, Rollback \/ Detach \/ Rebuild \/ UNCHANGED all
                       \/ \E o \in Objs \cup {NoObjective} : SetActiveObjective(o)
    PROVE  Edit
<1>1. CASE Rollback
    <2>1. /\ pending' = <<>> /\ blocks' = <<>> /\ store' = store
          /\ targets' = targets /\ vars' = vars /\ born' = born
        BY <1>1 DEF Rollback, KeepModel
    <2>2. Surroundings' /\ born \subseteq born'
        BY <2>1, QueueEmptied
    <2> QED BY <2>1, <2>2, StoreStays
<1>2. CASE Detach \/ Rebuild \/ UNCHANGED all
                 \/ \E o \in Objs \cup {NoObjective} : SetActiveObjective(o)
    <2>1. /\ pending' = pending /\ blocks' = blocks /\ store' = store
          /\ targets' = targets /\ vars' = vars /\ born' = born
        BY <1>2 DEF Detach, Rebuild, all, model, SetActiveObjective, KeepQueue
    <2>2. Surroundings' /\ born \subseteq born'
        BY <2>1 DEF StoreInv, Surroundings
    <2> QED BY <2>1, <2>2, StoreStays
<1> QED BY <1>1, <1>2

\* Every step is an edit.
LEMMA StepsAreEdits ==
    ASSUME StoreInv, [Next]_all
    PROVE  Edit
<1>1. ASSUME NEW t \in Targets, AddEmptyTarget(t) \/ RemoveTarget(t) PROVE Edit
    BY <1>1, AddEmptyTargetEdits, RemoveTargetEdits
<1>2. ASSUME NEW t \in Targets, NEW terms \in LinearInputs,
             \/ AddLinearRowsBulk(t, terms)
             \/ SetLinearObjectiveBulk(t, terms)
             \/ SetObjectiveExpr(t, terms)
      PROVE  Edit
    BY <1>2, AddLinearRowsBulkEdits, SetLinearObjectiveBulkEdits, SetObjectiveExprEdits
<1>3. ASSUME NEW t \in Targets, NEW terms \in ParamInputs, NEW layout \in Layouts,
             \/ AddLinearRowsParamBulk(t, terms, layout)
             \/ SetLinearObjectiveParamBulk(t, terms, layout)
      PROVE  Edit
    BY <1>3, AddLinearRowsParamBulkEdits, SetLinearObjectiveParamBulkEdits
<1>4. ASSUME NEW key \in Targets \X Vars,
             \/ \E e \in Exprs : AddCoefficient(key, e)
             \/ \E value \in Values : SetCoefficient(key, value)
             \/ RemoveCoefficientAt(key)
      PROVE  Edit
    BY <1>4, AddCoefficientEdits, SetCoefficientEdits, RemoveCoefficientAtEdits
<1>5. ASSUME NEW id \in Issued(store), RemoveCoefficient(id) PROVE Edit
    BY <1>5, RemoveCoefficientEdits
<1>6. ASSUME NEW v \in Vars, RemoveVariable(v) PROVE Edit
    BY <1>6, RemoveVariableEdits
<1>7. ASSUME NEW p \in Params, NEW value \in ParamValues, SetParameter(p, value) PROVE Edit
    BY <1>7, SetParameterEdits
<1>8. ASSUME NEW span \in Spans, NEW values \in [span -> ParamValues], SetParametersBulk(values)
      PROVE  Edit
    BY <1>8, SetParametersBulkEdits
<1>9. CASE CommitParameters
    BY <1>9, CommitParametersEdits
<1>10. CASE Rollback \/ Detach \/ Rebuild \/ UNCHANGED all
                       \/ \E o \in Objs \cup {NoObjective} : SetActiveObjective(o)
    BY <1>10, OtherEdits
<1> QED BY <1>1, <1>2, <1>3, <1>4, <1>5, <1>6, <1>7, <1>8, <1>9, <1>10 DEF Next

\* The invariant is inductive.
LEMMA StoreInvHolds == Spec => []StoreInv
<1>1. Init => StoreInv
    BY StoreInvInit
<1>2. StoreInv /\ [Next]_all => StoreInv'
    BY StepsAreEdits, EditKeeps
<1> QED BY <1>1, <1>2, PTL DEF Spec

\* An identity that resolves is that of the live cell of its pair.
LEMMA OnlyLiveResolve ==
    ASSUME StoreInv
    PROVE  StaleIdsDie
<1>1. StoreOK(store, born) /\ Shaped(store) /\ Exact(store)
    BY DEF StoreInv, InOrder, StoreOK
<1>2. ASSUME NEW id \in Issued(store), Resolve(store, id) # Vacant
      PROVE  Get(store, id) # {} /\ LiveId(store, KeyOf(id)) = {id}
    <2>1. PICK n : id = FreshId(n)
        BY DEF Issued
    <2>2. Resolve(store, FreshId(n)) # Vacant
        BY <1>2, <2>1
    <2>3. n \in Slots(store) /\ LocOf(store, n) \in Locs(store)
        BY <1>1, <2>2, Resolved
    <2> DEFINE l == LocOf(store, n)
    <2>4. /\ Get(store, FreshId(n)) = {DataAt(store, l)}
          /\ Pair(DataAt(store, l)) = KeyAt(store, l) /\ IdAt(store, l) = FreshId(n)
        BY <1>1, <2>3, GetsPlace
    <2>5. LiveId(store, KeyAt(store, l)) = {IdAt(store, l)}
        BY <1>1, <2>3, LiveIdFinds
    <2> HIDE DEF l
    <2>6. KeyOf(id) = KeyAt(store, l)
        BY <2>1, <2>4 DEF KeyOf, Pair
    <2> QED BY <2>1, <2>4, <2>5, <2>6
<1> QED BY <1>2 DEF StaleIdsDie

\* An identity resolves only while it is the identity of the live cell of its
\* pair: one kept after the removal is refused, also when the pair has a new cell
\* (arena.rs remove, remove_coefficient).
THEOREM IdentitiesDie == Spec => []StaleIdsDie
<1>1. StoreInv => StaleIdsDie
    BY OnlyLiveResolve
<1> QED BY <1>1, StoreInvHolds, PTL

-----------------------------------------------------------------------------
(* The store is a map                                                          *)

\* The map a store shows: CellsByKey, of any store.
ByKey(s) ==
    [key \in {d.key : d \in Iter(s)} |->
        [id |-> CHOOSE id \in LiveId(s, key) : TRUE,
         expr |-> (CHOOSE d \in Iter(s) : d.key = key).expr]]

\* A map shows the cells of s.
Shown(c) == [id |-> c.id, expr |-> c.expr]
Shows(f, s) ==
    /\ f = [k \in MapKeys(s) |-> f[k]]
    /\ \A c \in Cells(s) : f[c.key] = Shown(c)

\* The iteration visits what is at the places.
LEMMA IterPlaces ==
    ASSUME NEW s
    PROVE  Iter(s) = {DataAt(s, l) : l \in Locs(s)}
<1>1. ASSUME NEW d \in Iter(s) PROVE \E l \in Locs(s) : d = DataAt(s, l)
    <2>1. CASE \E i \in PackedLive(s) : d = PackedData(s, i)
        <3>1. PICK i \in PackedLive(s) : d = PackedData(s, i)
            BY <2>1
        <3>2. Packed(i) \in Locs(s) /\ DataAt(s, Packed(i)) = PackedData(s, i)
            BY <3>1, PlaceForms DEF DataAt, Packed
        <3> QED BY <3>1, <3>2
    <2>2. CASE \E i \in ParamLive(s) : d = ParamData(s, i)
        <3>1. PICK i \in ParamLive(s) : d = ParamData(s, i)
            BY <2>2
        <3>2. ParamBase(i) \in Locs(s) /\ DataAt(s, ParamBase(i)) = ParamData(s, i)
            BY <3>1, PlaceForms DEF DataAt, ParamBase
        <3> QED BY <3>1, <3>2
    <2>3. CASE \E i \in OverlayLive(s) : d = OverlayData(s, i)
        <3>1. PICK i \in OverlayLive(s) : d = OverlayData(s, i)
            BY <2>3
        <3>2. Overlay(i) \in Locs(s) /\ DataAt(s, Overlay(i)) = OverlayData(s, i)
            BY <3>1, PlaceForms DEF DataAt, Overlay
        <3> QED BY <3>1, <3>2
    <2> QED BY <2>1, <2>2, <2>3 DEF Iter
<1>2. ASSUME NEW l \in Locs(s) PROVE DataAt(s, l) \in Iter(s)
    <2>1. \/ l.at = "packed" /\ l.pos \in PackedLive(s)
          \/ l.at = "param" /\ l.pos \in ParamLive(s)
          \/ l.at = "overlay" /\ l.pos \in OverlayLive(s)
        BY PlaceForms
    <2> QED BY <2>1 DEF DataAt, Iter
<1> QED BY <1>1, <1>2

\* Every place holds the data of its pair.
LEMMA PlacePairs ==
    ASSUME NEW s, NEW T, StoreOK(s, T)
    PROVE  \A l \in Locs(s) : DataAt(s, l).key = KeyAt(s, l)
<1> SUFFICES ASSUME NEW l \in Locs(s) PROVE DataAt(s, l).key = KeyAt(s, l)
    OBVIOUS
<1>1. PICK n \in Slots(s) : IdAt(s, l) = FreshId(n) /\ GenOf(s, n) = 0 /\ LocOf(s, n) = l
    BY DEF StoreOK, Exact
<1>2. Pair(DataAt(s, LocOf(s, n))) = KeyAt(s, LocOf(s, n))
    BY <1>1, GetsPlace DEF StoreOK
<1> QED BY <1>1, <1>2 DEF Pair

\* What a store in order shows.
LEMMA ByKeyShows ==
    ASSUME NEW s, NEW T, StoreOK(s, T)
    PROVE  Shows(ByKey(s), s)
<1>1. Iter(s) = {DataAt(s, l) : l \in Locs(s)}
    BY IterPlaces
<1>2. \A l \in Locs(s) : DataAt(s, l).key = KeyAt(s, l)
    BY PlacePairs
<1>3. {d.key : d \in Iter(s)} = {KeyAt(s, l) : l \in Locs(s)}
    BY <1>1, <1>2
<1>4. MapKeys(s) = {KeyAt(s, l) : l \in Locs(s)}
    BY KeysWithin
<1>5. {d.key : d \in Iter(s)} = MapKeys(s)
    BY <1>3, <1>4
<1>6. ASSUME NEW c \in Cells(s) PROVE ByKey(s)[c.key] = Shown(c)
    <2>1. PICK n \in Slots(s) :
             /\ LocOf(s, n) \in Locs(s) /\ c.key = KeyAt(s, LocOf(s, n))
             /\ c.expr = DataAt(s, LocOf(s, n)).expr /\ LiveId(s, c.key) = {c.id}
        BY CellsFound
    <2> DEFINE l == LocOf(s, n)
    <2>2. c.key \in {d.key : d \in Iter(s)}
        BY <1>5 DEF MapKeys
    <2>3. (CHOOSE id \in LiveId(s, c.key) : TRUE) = c.id
        BY <2>1
    <2>4. \A d \in Iter(s) : d.key = c.key => d = DataAt(s, l)
        <3>1. \A m \in Locs(s) : KeyAt(s, m) = KeyAt(s, l) => m = l
            BY <2>1 DEF StoreOK, Exact
        <3> QED BY <1>1, <1>2, <2>1, <3>1
    <2>5. DataAt(s, l) \in Iter(s) /\ DataAt(s, l).key = c.key
        BY <1>1, <1>2, <2>1
    <2>6. (CHOOSE d \in Iter(s) : d.key = c.key) = DataAt(s, l)
        BY <2>4, <2>5
    <2>7. ByKey(s)[c.key] = [id |-> CHOOSE id \in LiveId(s, c.key) : TRUE,
                             expr |-> (CHOOSE d \in Iter(s) : d.key = c.key).expr]
        BY <2>2 DEF ByKey
    <2> QED BY <2>1, <2>3, <2>6, <2>7 DEF Shown
<1>7. ByKey(s) = [k \in MapKeys(s) |-> ByKey(s)[k]]
    <2>1. ByKey(s) = [k \in {d.key : d \in Iter(s)} |-> ByKey(s)[k]]
        BY DEF ByKey
    <2> QED BY <1>5, <2>1
<1> QED BY <1>6, <1>7 DEF Shows

\* The cells shown at a pair.
LEMMA ShownAt ==
    ASSUME NEW f, NEW s, Shows(f, s)
    PROVE  /\ DOMAIN f = MapKeys(s)
           /\ \A k \in DOMAIN f : \E c \in Cells(s) : c.key = k /\ f[k] = Shown(c)
           /\ \A c \in Cells(s) : c.key \in DOMAIN f /\ f[c.key] = Shown(c)
<1>1. DOMAIN f = MapKeys(s)
    BY DEF Shows
<1>2. \A k \in MapKeys(s) : \E c \in Cells(s) : c.key = k
    BY DEF MapKeys
<1>3. \A c \in Cells(s) : c.key \in MapKeys(s)
    BY DEF MapKeys
<1> QED BY <1>1, <1>2, <1>3 DEF Shows

\* Two stores with the same cells show the same map.
LEMMA SameShown ==
    ASSUME NEW f, NEW g, NEW s, NEW t, Shows(f, s), Shows(g, t), Cells(t) = Cells(s)
    PROVE  g = f
<1>1. MapKeys(t) = MapKeys(s)
    BY DEF MapKeys
<1>2. \A k \in MapKeys(s) : g[k] = f[k]
    BY ShownAt, <1>1
<1> QED BY <1>1, <1>2 DEF Shows

\* The identities handed out.
LEMMA IssuedSlots ==
    ASSUME NEW s, NEW T, StoreOK(s, T)
    PROVE  Issued(s) = {FreshId(n) : n \in Slots(s)}
BY LivePositions DEF StoreOK, Issued
\* What relates the map shown before and after a step.
Showing ==
    /\ StoreOK(store, born) /\ StoreOK(store', born')
    /\ Shows(CellsByKey, store) /\ Shows(CellsByKey', store')
    /\ MapKeys(store) \subseteq Targets \X Vars

\* The map is shown by the store in every state of the invariant.
LEMMA MapShown ==
    ASSUME StoreInv, StoreInv'
    PROVE  Showing
<1>1. /\ StoreOK(store, born) /\ StoreOK(store', born')
      /\ MapKeys(store) \subseteq born \X Vars /\ born \subseteq Targets
    BY DEF StoreInv, InOrder
<1>2. CellsByKey = ByKey(store) /\ CellsByKey' = ByKey(store')
    BY Zenon DEF CellsByKey, ByKey, Keys
<1>3. Shows(ByKey(store), store) /\ Shows(ByKey(store'), store')
    BY <1>1, ByKeyShows
<1>4. MapKeys(store) \subseteq Targets \X Vars
    BY <1>1
<1>5. Shows(CellsByKey, store) /\ Shows(CellsByKey', store')
    BY <1>2, <1>3
<1> QED BY <1>1, <1>4, <1>5 DEF Showing

\* Nothing of the map changes.
LEMMA MapStutters ==
    ASSUME Showing, Slots(store') = Slots(store), Cells(store') = Cells(store)
    PROVE  CellsByKey' = CellsByKey /\ Issued(store') = Issued(store)
<1>1. CellsByKey' = CellsByKey
    BY SameShown DEF Showing
<1>2. Issued(store') = Issued(store)
    BY IssuedSlots DEF Showing
<1> QED BY <1>1, <1>2

\* Identities that are numbers of the arena are told apart.
LEMMA FreshIds ==
    \A n, m : FreshId(n) = FreshId(m) => n = m
BY DEF FreshId

\* Gathered terms are accumulated.
LEMMA GathersAccumulate ==
    ASSUME Showing, NEW K, Gathers(store, store', K, Addable)
    PROVE  Map!Accumulate(K)
<1> DEFINE f == CellsByKey
           g == CellsByKey'
           New == K \ DOMAIN f
<1>1. /\ StoreOK(store, born) /\ StoreOK(store', born')
      /\ Shows(f, store) /\ Shows(g, store')
    BY DEF Showing
<1>2. /\ DOMAIN f = MapKeys(store)
      /\ \A k \in DOMAIN f : \E c \in Cells(store) : c.key = k /\ f[k] = Shown(c)
      /\ \A c \in Cells(store) : c.key \in DOMAIN f /\ f[c.key] = Shown(c)
    BY <1>1, ShownAt
<1>3. /\ DOMAIN g = MapKeys(store')
      /\ \A k \in DOMAIN g : \E c \in Cells(store') : c.key = k /\ g[k] = Shown(c)
      /\ \A c \in Cells(store') : c.key \in DOMAIN g /\ g[c.key] = Shown(c)
    BY <1>1, ShownAt
<1>4. Issued(store) = {FreshId(n) : n \in Slots(store)} /\ Issued(store') = {FreshId(n) : n \in Slots(store')}
    BY <1>1, IssuedSlots
<1> HIDE DEF f, g
<1>5. DOMAIN g = DOMAIN f \cup K
    BY <1>2, <1>3 DEF Gathers
<1>6. ASSUME NEW k \in DOMAIN f \ K PROVE g[k] = f[k]
    <2>1. PICK c \in Cells(store) : c.key = k /\ f[k] = Shown(c)
        BY <1>2
    <2>2. c \in Cells(store')
        BY <2>1 DEF Gathers
    <2> QED BY <1>3, <2>1, <2>2
<1>7. ASSUME NEW k \in K \ New
      PROVE  g[k].id = f[k].id /\ \E e \in Addable : g[k].expr = Plus(f[k].expr, e)
    <2>1. PICK c \in Cells(store) : c.key = k /\ f[k] = Shown(c)
        BY <1>2
    <2>2. PICK d \in Cells(store') :
             d.key = c.key /\ d.id = c.id /\ \E e \in Addable : d.expr = Plus(c.expr, e)
        BY <2>1 DEF Gathers
    <2>3. g[k] = Shown(d)
        BY <1>3, <2>1, <2>2
    <2> QED BY <2>1, <2>2, <2>3 DEF Shown
<1>8. ASSUME NEW k \in New
      PROVE  \E d \in Cells(store'), n \in Slots(store') :
                n \notin Slots(store) /\ d.key = k /\ g[k] = Shown(d) /\ g[k].id = FreshId(n)
    <2>1. PICK d \in Cells(store') : d.key = k /\ g[k] = Shown(d)
        BY <1>3, <1>5
    <2>2. d.key \notin MapKeys(store)
        BY <1>2, <2>1
    <2>3. PICK n \in Slots(store') : n \notin Slots(store) /\ d.id = FreshId(n)
        BY <2>2 DEF Gathers
    <2> QED BY <2>1, <2>3 DEF Shown
<1>9. \A k \in New : g[k].id \notin Issued(store)
    BY <1>4, <1>8, FreshIds
<1>10. ASSUME NEW k \in New, NEW m \in New, g[k].id = g[m].id PROVE k = m
    <2>1. PICK d \in Cells(store') : d.key = k /\ g[k] = Shown(d)
        BY <1>8
    <2>2. PICK e \in Cells(store') : e.key = m /\ g[m] = Shown(e)
        BY <1>8
    <2>3. d.id = e.id
        BY <1>10, <2>1, <2>2 DEF Shown
    <2>4. d = e
        BY <1>1, <2>3, CellsFound
    <2> QED BY <2>1, <2>2, <2>4
<1>11. Issued(store') = Issued(store) \cup {g[k].id : k \in New}
    <2>1. ASSUME NEW n \in Slots(store'), n \notin Slots(store) PROVE \E k \in New : g[k].id = FreshId(n)
        <3>1. PICK d \in Cells(store') : d.key \notin MapKeys(store) /\ d.id = FreshId(n)
            BY <2>1 DEF Gathers
        <3>2. d.key \in DOMAIN g /\ g[d.key] = Shown(d)
            BY <1>3
        <3>3. d.key \in New
            BY <1>2, <1>5, <3>1, <3>2
        <3> QED BY <3>1, <3>2, <3>3 DEF Shown
    <2>2. Slots(store) \subseteq Slots(store')
        BY DEF Gathers
    <2>3. \A k \in New : g[k].id \in Issued(store')
        BY <1>4, <1>8
    <2> HIDE DEF New
    <2> QED BY <1>4, <2>1, <2>2, <2>3
<1> QED BY <1>5, <1>6, <1>7, <1>9, <1>10, <1>11 DEF Map!Accumulate, f, g, Addable

\* A cell has a new expression.
LEMMA ReplacedIsReplace ==
    ASSUME Showing, Slots(store') = Slots(store), NEW c \in Cells(store), NEW x \in Values,
           Cells(store') = {d \in Cells(store) : d.key # c.key} \cup {MapCell(c.key, c.id, Constant(x))}
    PROVE  c.key \in Targets \X Vars /\ Map!Replace(c.key)
<1> DEFINE f == CellsByKey
           g == CellsByKey'
           e == MapCell(c.key, c.id, Constant(x))
<1>1. Shows(f, store) /\ Shows(g, store') /\ MapKeys(store) \subseteq Targets \X Vars
      /\ StoreOK(store, born) /\ StoreOK(store', born')
    BY DEF Showing
<1>2. /\ DOMAIN f = MapKeys(store)
      /\ \A k \in DOMAIN f : \E d \in Cells(store) : d.key = k /\ f[k] = Shown(d)
      /\ \A d \in Cells(store) : d.key \in DOMAIN f /\ f[d.key] = Shown(d)
    BY <1>1, ShownAt
<1>3. /\ DOMAIN g = MapKeys(store')
      /\ \A k \in DOMAIN g : \E d \in Cells(store') : d.key = k /\ g[k] = Shown(d)
      /\ \A d \in Cells(store') : d.key \in DOMAIN g /\ g[d.key] = Shown(d)
    BY <1>1, ShownAt
<1>4. Issued(store') = Issued(store)
    BY <1>1, IssuedSlots
<1>5. g = [k \in DOMAIN g |-> g[k]]
    BY <1>1, <1>3 DEF Shows
<1>6. e.key = c.key /\ Shown(e) = [id |-> c.id, expr |-> Constant(x)]
    BY DEF MapCell, Shown
<1> HIDE DEF f, g, e
<1>7. Cells(store') = {d \in Cells(store) : d.key # c.key} \cup {e}
    BY DEF e
<1>8. MapKeys(store') = MapKeys(store)
    BY <1>6, <1>7 DEF MapKeys
<1>9. \A k \in DOMAIN f : k # c.key => g[k] = f[k]
    <2> SUFFICES ASSUME NEW k \in DOMAIN f, k # c.key PROVE g[k] = f[k]
        OBVIOUS
    <2>1. PICK d \in Cells(store) : d.key = k /\ f[k] = Shown(d)
        BY <1>2
    <2>2. d \in Cells(store')
        BY <1>7, <2>1
    <2> QED BY <1>3, <2>1, <2>2
<1>10. g[c.key] = [id |-> c.id, expr |-> Constant(x)]
    BY <1>3, <1>6, <1>7
<1>11. c.key \in DOMAIN f /\ f[c.key] = [id |-> c.id, expr |-> c.expr]
    BY <1>2 DEF Shown
<1>12. g[c.key] = [f[c.key] EXCEPT !.expr = Constant(x)]
    BY <1>10, <1>11
<1>13. g = [f EXCEPT ![c.key].expr = Constant(x)]
    BY <1>2, <1>3, <1>5, <1>8, <1>9, <1>12
<1>14. c.key \in Targets \X Vars
    BY <1>1, <1>2, <1>11
<1> QED BY <1>4, <1>11, <1>13, <1>14 DEF Map!Replace, f, g

\* The cells of some pairs disappear.
LEMMA RemovedIsDrop ==
    ASSUME Showing, Slots(store') = Slots(store), NEW K,
           Cells(store') = {d \in Cells(store) : d.key \notin K}
    PROVE  Map!Drop(K)
<1> DEFINE f == CellsByKey
           g == CellsByKey'
<1>1. Shows(f, store) /\ Shows(g, store') /\ StoreOK(store, born) /\ StoreOK(store', born')
    BY DEF Showing
<1>2. /\ DOMAIN f = MapKeys(store)
      /\ \A k \in DOMAIN f : \E d \in Cells(store) : d.key = k /\ f[k] = Shown(d)
    BY <1>1, ShownAt
<1>3. /\ DOMAIN g = MapKeys(store')
      /\ \A d \in Cells(store') : d.key \in DOMAIN g /\ g[d.key] = Shown(d)
    BY <1>1, ShownAt
<1>4. Issued(store') = Issued(store)
    BY <1>1, IssuedSlots
<1>5. g = [k \in DOMAIN g |-> g[k]]
    BY <1>1, <1>3 DEF Shows
<1> HIDE DEF f, g
<1>6. DOMAIN g = DOMAIN f \ K
    BY <1>2, <1>3 DEF MapKeys
<1>7. \A k \in DOMAIN f \ K : g[k] = f[k]
    <2> SUFFICES ASSUME NEW k \in DOMAIN f \ K PROVE g[k] = f[k]
        OBVIOUS
    <2>1. PICK d \in Cells(store) : d.key = k /\ f[k] = Shown(d)
        BY <1>2
    <2>2. d \in Cells(store')
        BY <2>1
    <2> QED BY <1>3, <2>1, <2>2
<1>8. g = [k \in DOMAIN f \ K |-> f[k]]
    BY <1>5, <1>6, <1>7
<1> QED BY <1>4, <1>8 DEF Map!Drop, f, g

\* Every effect is a step of the map.
LEMMA EffectIsMapStep ==
    ASSUME Showing, Effect(store, store')
    PROVE  [Map!Next]_<<CellsByKey, Issued(store)>>
<1>1. CASE Slots(store') = Slots(store) /\ Cells(store') = Cells(store)
    BY <1>1, MapStutters
<1>2. ASSUME NEW target \in Targets, NEW V \in SUBSET Vars,
             Gathers(store, store', {<<target, v>> : v \in V}, Addable)
      PROVE  Map!Next
    <2>1. {<<target, v>> : v \in V} = {target} \X V
        OBVIOUS
    <2>2. Gathers(store, store', {target} \X V, Addable)
        BY <1>2, <2>1
    <2>3. Map!Accumulate({target} \X V)
        BY <2>2, GathersAccumulate
    <2> QED BY <2>3 DEF Map!Next
<1>3. ASSUME Slots(store') = Slots(store), NEW c \in Cells(store), NEW x \in Values,
             Cells(store') = {d \in Cells(store) : d.key # c.key} \cup {MapCell(c.key, c.id, Constant(x))}
      PROVE  Map!Next
    <2>1. c.key \in Targets \X Vars /\ Map!Replace(c.key)
        BY <1>3, ReplacedIsReplace
    <2> QED BY <2>1 DEF Map!Next, Map!Keys
<1>4. ASSUME Slots(store') = Slots(store), NEW key \in Targets \X Vars,
             Cells(store') = {d \in Cells(store) : d.key # key}
      PROVE  Map!Next
    <2>1. Cells(store') = {d \in Cells(store) : d.key \notin {key}}
        BY <1>4
    <2>2. Map!Drop({key})
        BY <1>4, <2>1, RemovedIsDrop
    <2> QED BY <2>2 DEF Map!Next, Map!Keys
<1>5. MapKeys(store) \subseteq Targets \X Vars /\ \A c \in Cells(store) : c.key \in MapKeys(store)
    BY DEF Showing, MapKeys
<1>6. ASSUME Slots(store') = Slots(store), NEW target \in Targets,
             Cells(store') = {d \in Cells(store) : d.key[1] # target}
      PROVE  Map!Next
    <2> DEFINE K == {k \in Targets \X Vars : k[1] = target}
    <2>1. \A d \in Cells(store) : d.key[1] # target <=> d.key \notin K
        BY <1>5
    <2> HIDE DEF K
    <2>2. Cells(store') = {d \in Cells(store) : d.key \notin K}
        BY <1>6, <2>1
    <2>3. Map!Drop(K)
        BY <1>6, <2>2, RemovedIsDrop
    <2> QED BY <2>3 DEF Map!Next, Map!Keys, K
<1>7. ASSUME Slots(store') = Slots(store), NEW v \in Vars,
             Cells(store') = {d \in Cells(store) : d.key[2] # v}
      PROVE  Map!Next
    <2> DEFINE K == {k \in Targets \X Vars : k[2] = v}
    <2>1. \A d \in Cells(store) : d.key[2] # v <=> d.key \notin K
        BY <1>5
    <2> HIDE DEF K
    <2>2. Cells(store') = {d \in Cells(store) : d.key \notin K}
        BY <1>7, <2>1
    <2>3. Map!Drop(K)
        BY <1>7, <2>2, RemovedIsDrop
    <2> QED BY <2>3 DEF Map!Next, Map!Keys, K
<1> QED BY <1>1, <1>2, <1>3, <1>4, <1>6, <1>7 DEF Effect

\* The empty store shows the empty map.
LEMMA MapStarts ==
    ASSUME Init
    PROVE  Map!Init
<1>1. CellsByKey = ByKey(store)
    BY Zenon DEF CellsByKey, ByKey, Keys
<1>2. Iter(store) = {}
    BY DEF Init, EmptyStore, Iter, PackedLive, ParamLive, OverlayLive
<1>3. {d.key : d \in Iter(store)} = {}
    BY <1>2
<1>4. DOMAIN CellsByKey = {} /\ CellsByKey = [k \in DOMAIN CellsByKey |-> CellsByKey[k]]
    BY <1>1, <1>3 DEF ByKey
<1>5. CellsByKey = <<>>
    BY <1>4
<1>6. Issued(store) = {}
    BY DEF Init, EmptyStore, Issued
<1> QED BY <1>5, <1>6 DEF Map!Init

\* The store is a map from pairs to cells (CellMap): whatever was packed,
\* shadowed, removed, indexed or refreshed, an edit adds terms to the cells of one
\* target, replaces one expression by a constant, or drops exactly the cells of one pair,
\* one target or one variable, and identities stay with their cells and are new when their
\* cell is.
THEOREM StoreIsAMap == Spec => KeepsMap
<1>1. Init => Map!Init
    BY MapStarts
<1>2. StoreInv /\ StoreInv' /\ [Next]_all => [Map!Next]_<<CellsByKey, Issued(store)>>
    <2> SUFFICES ASSUME StoreInv, StoreInv', [Next]_all
                 PROVE  [Map!Next]_<<CellsByKey, Issued(store)>>
        OBVIOUS
    <2>1. Effect(store, store')
        BY StepsAreEdits, EditKeeps
    <2>2. Showing
        BY MapShown
    <2> QED BY <2>1, <2>2, EffectIsMapStep
<1> QED BY <1>1, <1>2, StoreInvHolds, PTL DEF Spec, KeepsMap, Map!Spec

-----------------------------------------------------------------------------
(* Lists without repetitions, and the number of live cells                     *)

\* A list without repetitions.
OneToOne(q) == \A i, j \in 1 .. Len(q) : q[i] = q[j] => i = j

\* A set with as many elements as another, one for one.
OneForOne(f, S, U) ==
    /\ f \in [S -> U]
    /\ \A x, y \in S : f[x] = f[y] => x = y
    /\ \A u \in U : \E x \in S : f[x] = u

\* Such sets are finite together and of the same size.
LEMMA SameSize ==
    ASSUME NEW S, NEW U, NEW f, IsFiniteSet(S), OneForOne(f, S, U)
    PROVE  IsFiniteSet(U) /\ Cardinality(U) = Cardinality(S)
<1>1. PICK q \in Seq(S) : \A x \in S : \E n \in 1 .. Len(q) : q[n] = x
  BY DEF IsFiniteSet
<1>2. IsFiniteSet(U)
  <2> DEFINE r == [n \in 1 .. Len(q) |-> f[q[n]]]
  <2>1. Len(q) \in Nat /\ \A n \in 1 .. Len(q) : q[n] \in S
    BY <1>1
  <2>2. r \in Seq(U) /\ Len(r) = Len(q)
    BY <2>1 DEF OneForOne
  <2>3. \A u \in U : \E n \in 1 .. Len(r) : r[n] = u
    BY <1>1, <2>2 DEF OneForOne
  <2> QED
    BY <2>2, <2>3 DEF IsFiniteSet
<1>3. Cardinality(S) \in Nat /\ Cardinality(U) \in Nat
  BY <1>2, FS_CardinalityType
<1>4. ~ (Cardinality(U) < Cardinality(S))
  <2> SUFFICES ASSUME Cardinality(U) < Cardinality(S) PROVE FALSE
    OBVIOUS
  <2>1. \E x, y \in S : x # y /\ f[x] = f[y]
    <3>1. f \in [S -> U]
      BY DEF OneForOne
    <3> QED
      BY <1>2, <3>1, FS_PigeonHole, Zenon
  <2> QED
    BY <2>1 DEF OneForOne
<1> DEFINE g == [u \in U |-> CHOOSE x \in S : f[x] = u]
<1>5. g \in [U -> S] /\ \A u \in U : f[g[u]] = u
  BY DEF OneForOne
<1> HIDE DEF g
<1>6. \A u, v \in U : g[u] = g[v] => u = v
  BY <1>5
<1>7. ~ (Cardinality(S) < Cardinality(U))
  <2> SUFFICES ASSUME Cardinality(S) < Cardinality(U) PROVE FALSE
    OBVIOUS
  <2>1. \E x, y \in U : x # y /\ g[x] = g[y]
    <3>1. g \in [U -> S]
      BY <1>5
    <3> QED
      BY <1>2, <3>1, FS_PigeonHole, Zenon
  <2> QED
    BY <1>6, <2>1
<1> QED
  BY <1>2, <1>3, <1>4, <1>7

\* A list without duplicates is as long as the set of its elements is large.
LEMMA ListCounts ==
    ASSUME NEW q, IsList(q), OneToOne(q)
    PROVE  IsFiniteSet(Elements(q)) /\ Cardinality(Elements(q)) = Len(q)
<1> DEFINE n == Len(q)
           f == [i \in 1 .. n |-> q[i]]
<1>1. n \in Nat
  BY DEF IsList
<1>2. IsFiniteSet(1 .. n) /\ Cardinality(1 .. n) = n
  <2>1. IsFiniteSet(1 .. n) /\ Cardinality(1 .. n) = IF 1 > n THEN 0 ELSE n - 1 + 1
    BY <1>1, FS_Interval
  <2>2. (IF 1 > n THEN 0 ELSE n - 1 + 1) = n
    BY <1>1
  <2> QED
    BY <2>1, <2>2
<1>3. f \in [1 .. n -> Elements(q)]
  BY DEF Elements
<1>4. \A u \in Elements(q) : \E i \in 1 .. n : f[i] = u
  BY DEF Elements
<1>5. \A i, j \in 1 .. n : f[i] = f[j] => i = j
  BY DEF OneToOne
<1> HIDE DEF n, f
<1> DEFINE S == 1 .. n
           U == Elements(q)
<1>7. IsFiniteSet(S) /\ OneForOne(f, S, U)
  BY <1>2, <1>3, <1>4, <1>5 DEF OneForOne
<1> HIDE DEF S, U
<1>9. IsFiniteSet(U) /\ Cardinality(U) = Cardinality(S)
  BY <1>7, SameSize
<1>6. IsFiniteSet(Elements(q)) /\ Cardinality(Elements(q)) = Cardinality(1 .. n)
  BY <1>9 DEF S, U
<1> QED
  BY <1>2, <1>6 DEF n

\* Two such lists without a common element.
LEMMA JoinOneToOne ==
    ASSUME NEW q, NEW r, NEW t, IsList(q), IsList(r), t = Joined(q, r),
           OneToOne(q), OneToOne(r), Elements(q) \cap Elements(r) = {}
    PROVE  OneToOne(t)
<1>1. /\ IsList(t) /\ Len(t) = Len(q) + Len(r)
      /\ \A i \in 1 .. Len(q) : t[i] = q[i]
      /\ \A i \in 1 .. Len(r) : t[Len(q) + i] = r[i]
      /\ \A i \in 1 .. Len(t) : i \in 1 .. Len(q) \/ \E k \in 1 .. Len(r) : i = Len(q) + k
  BY ListJoin
<1>2. Len(q) \in Nat /\ Len(r) \in Nat
  BY DEF IsList
<1>3. \A i \in 1 .. Len(q), k \in 1 .. Len(r) : q[i] # r[k]
  BY DEF Elements
<1> SUFFICES ASSUME NEW i \in 1 .. Len(t), NEW j \in 1 .. Len(t), t[i] = t[j]
             PROVE  i = j
  BY DEF OneToOne
<1>4. CASE i \in 1 .. Len(q) /\ j \in 1 .. Len(q)
  BY <1>1, <1>4 DEF OneToOne
<1>5. CASE i \in 1 .. Len(q) /\ j \notin 1 .. Len(q)
  BY <1>1, <1>3, <1>5
<1>6. CASE i \notin 1 .. Len(q) /\ j \in 1 .. Len(q)
  BY <1>1, <1>3, <1>6
<1>7. CASE i \notin 1 .. Len(q) /\ j \notin 1 .. Len(q)
  BY <1>1, <1>7 DEF OneToOne
<1> QED
  BY <1>4, <1>5, <1>6, <1>7

\* Identities at the positions of a list appear once if positions have their own.
LEMMA IdsOnce ==
    ASSUME NEW P, NEW n \in Nat, P \subseteq 1 .. n, NEW base, NEW q,
           q = [k \in DOMAIN Ascending(P) |-> base[Ascending(P)[k]].id],
           \A i, j \in P : base[i].id = base[j].id => i = j
    PROVE  OneToOne(q)
<1> DEFINE vs == Ascending(P)
           c == Len(vs)
<1>1. P \in SUBSET Int /\ IsFiniteSet(P)
  <2>1. IsFiniteSet(1 .. n) /\ 1 .. n \in SUBSET Int
    BY FS_Interval
  <2> QED
    BY <2>1, FS_Subset
<1>2. /\ IsList(vs) /\ c \in Nat
      /\ \A k \in 1 .. c : vs[k] \in P
      /\ \A k, m \in 1 .. c : vs[k] = vs[m] => k = m
  BY <1>1, AscendingLists
<1> HIDE DEF vs
<1>3. DOMAIN vs = 1 .. c
  BY <1>2, ListIsSeq
<1>4. q = [k \in DOMAIN vs |-> base[vs[k]].id]
  BY DEF vs
<1>5. DOMAIN q = 1 .. c /\ q = [k \in 1 .. c |-> q[k]] /\ \A k \in 1 .. c : q[k] = base[vs[k]].id
  BY <1>3, <1>4
<1>6. Len(q) = c
  BY <1>2, <1>5, ListOfFunction
<1>7. ASSUME NEW i \in 1 .. c, NEW j \in 1 .. c, q[i] = q[j]
      PROVE  i = j
  <2>1. vs[i] \in P /\ vs[j] \in P /\ base[vs[i]].id = base[vs[j]].id
    BY <1>2, <1>5, <1>7
  <2>2. vs[i] = vs[j]
    BY <2>1
  <2> QED
    BY <1>2, <2>2
<1> QED
  BY <1>6, <1>7 DEF OneToOne

\* Live positions have identities of their own.
LEMMA IdsApart ==
    ASSUME NEW s, NEW T, StoreOK(s, T)
    PROVE  /\ \A i, j \in PackedLive(s) : s.base[i].id = s.base[j].id => i = j
           /\ \A i, j \in ParamLive(s) : s.pbase[i].id = s.pbase[j].id => i = j
           /\ \A i, j \in OverlayLive(s) : s.overlay[i].id = s.overlay[j].id => i = j
           /\ \A i \in PackedLive(s), j \in ParamLive(s) : s.base[i].id # s.pbase[j].id
           /\ \A i \in PackedLive(s), j \in OverlayLive(s) : s.base[i].id # s.overlay[j].id
           /\ \A i \in ParamLive(s), j \in OverlayLive(s) : s.pbase[i].id # s.overlay[j].id
<1>1. \A l, m \in Locs(s) : IdAt(s, l) = IdAt(s, m) => l = m
  BY OneIdEach DEF StoreOK
<1>2. /\ \A i \in PackedLive(s) : Packed(i) \in Locs(s) /\ IdAt(s, Packed(i)) = s.base[i].id
      /\ \A i \in ParamLive(s) : ParamBase(i) \in Locs(s) /\ IdAt(s, ParamBase(i)) = s.pbase[i].id
      /\ \A i \in OverlayLive(s) : Overlay(i) \in Locs(s) /\ IdAt(s, Overlay(i)) = s.overlay[i].id
  BY PlaceForms DEF IdAt, Packed, ParamBase, Overlay
<1>3. /\ \A i, j : Packed(i) = Packed(j) => i = j
      /\ \A i, j : ParamBase(i) = ParamBase(j) => i = j
      /\ \A i, j : Overlay(i) = Overlay(j) => i = j
      /\ \A i, j : Packed(i) # ParamBase(j) /\ Packed(i) # Overlay(j) /\ ParamBase(i) # Overlay(j)
  BY DEF Packed, ParamBase, Overlay
<1> QED
  BY <1>1, <1>2, <1>3

\* A list of identities collected from live positions has no duplicates.
LEMMA IdsAtOnce ==
    ASSUME NEW s, NEW T, StoreOK(s, T), NEW P, NEW Q, NEW O, NEW q,
           P \subseteq PackedLive(s), Q \subseteq ParamLive(s), O \subseteq OverlayLive(s),
           q = IdsAt(s, P, Q, O)
    PROVE  OneToOne(q)
<1>1. /\ P \subseteq 1 .. Len(s.base) /\ Len(s.base) \in Nat
      /\ Q \subseteq 1 .. Len(s.pbase) /\ Len(s.pbase) \in Nat
      /\ O \subseteq 1 .. Len(s.overlay) /\ Len(s.overlay) \in Nat
  BY LivePositions DEF StoreOK
<1> DEFINE a == [k \in DOMAIN Ascending(P) |-> s.base[Ascending(P)[k]].id]
           b == [k \in DOMAIN Ascending(Q) |-> s.pbase[Ascending(Q)[k]].id]
           c == [k \in DOMAIN Ascending(O) |-> s.overlay[Ascending(O)[k]].id]
           ab == Joined(a, b)
<1>2. q = Joined(ab, c)
  BY DEF IdsAt, Joined
<1>6. /\ \A i, j \in P : s.base[i].id = s.base[j].id => i = j
      /\ \A i, j \in Q : s.pbase[i].id = s.pbase[j].id => i = j
      /\ \A i, j \in O : s.overlay[i].id = s.overlay[j].id => i = j
      /\ \A i \in P, j \in Q : s.base[i].id # s.pbase[j].id
      /\ \A i \in P, j \in O : s.base[i].id # s.overlay[j].id
      /\ \A i \in Q, j \in O : s.pbase[i].id # s.overlay[j].id
  BY IdsApart
<1>3. IsList(a) /\ Elements(a) = {s.base[i].id : i \in P} /\ OneToOne(a)
  <2>1. IsList(a) /\ Elements(a) = {s.base[i].id : i \in P}
    BY <1>1, IdsOf
  <2>2. OneToOne(a)
    BY <1>1, <1>6, IdsOnce
  <2> QED
    BY <2>1, <2>2
<1>4. IsList(b) /\ Elements(b) = {s.pbase[i].id : i \in Q} /\ OneToOne(b)
  <2>1. IsList(b) /\ Elements(b) = {s.pbase[i].id : i \in Q}
    BY <1>1, IdsOf
  <2>2. OneToOne(b)
    BY <1>1, <1>6, IdsOnce
  <2> QED
    BY <2>1, <2>2
<1>5. IsList(c) /\ Elements(c) = {s.overlay[i].id : i \in O} /\ OneToOne(c)
  <2>1. IsList(c) /\ Elements(c) = {s.overlay[i].id : i \in O}
    BY <1>1, IdsOf
  <2>2. OneToOne(c)
    BY <1>1, <1>6, IdsOnce
  <2> QED
    BY <2>1, <2>2
<1> HIDE DEF a, b, c
<1>7. Elements(a) \cap Elements(b) = {}
  BY <1>3, <1>4, <1>6
<1>8. IsList(ab) /\ Elements(ab) = Elements(a) \cup Elements(b) /\ OneToOne(ab)
  BY <1>3, <1>4, <1>7, JoinHolds, JoinOneToOne
<1> HIDE DEF ab
<1>9. Elements(ab) \cap Elements(c) = {}
  BY <1>3, <1>4, <1>5, <1>6, <1>8
<1> QED
  BY <1>2, <1>5, <1>8, <1>9, JoinOneToOne

\* No cell is listed twice under its target (for_target).
LEMMA ForTargetOnce ==
    ASSUME NEW s, NEW T, NEW target, NEW q, StoreOK(s, T), q = ForTarget(s, target)
    PROVE  OneToOne(q)
<1> DEFINE P == {i \in PackedLive(s) : s.base[i].key[1] = target}
           Q == {i \in ParamLive(s) : s.pbase[i].key[1] = target}
           O == {i \in OverlayLive(s) : s.overlay[i].data.key[1] = target}
<1>1. q = IdsAt(s, P, Q, O)
  BY DEF ForTarget
<1>2. P \subseteq PackedLive(s) /\ Q \subseteq ParamLive(s) /\ O \subseteq OverlayLive(s)
  OBVIOUS
<1> HIDE DEF P, Q, O
<1> QED
  BY <1>1, <1>2, IdsAtOnce

\* Nor under its variable (for_var).
LEMMA ForVarOnce ==
    ASSUME NEW s, NEW T, NEW v, NEW q, StoreOK(s, T), Counted(s), q = ForVar(s, v)
    PROVE  OneToOne(q)
<1> DEFINE t == EnsureVarIndex(s)
           P == {i \in PackedLive(t) : i <= t.varIndex /\ t.base[i].key[2] = v}
           Q == {i \in ParamLive(t) : t.pbase[i].key[2] = v}
           O == {i \in OverlayLive(t) : t.overlay[i].data.key[2] = v}
<1>1. q = IdsAt(t, P, Q, O)
  BY DEF ForVar
<1> HIDE DEF t
<1>2. StoreOK(t, T)
  BY IndexBuilt DEF t
<1>3. P \subseteq PackedLive(t) /\ Q \subseteq ParamLive(t) /\ O \subseteq OverlayLive(t)
  OBVIOUS
<1> HIDE DEF P, Q, O
<1> QED
  BY <1>1, <1>2, <1>3, IdsAtOnce

\* Live positions are finitely many.
LEMMA LiveFinite ==
    ASSUME NEW s, Shaped(s)
    PROVE  IsFiniteSet(PackedLive(s)) /\ IsFiniteSet(ParamLive(s)) /\ IsFiniteSet(OverlayLive(s))
<1>1. /\ PackedLive(s) \subseteq 1 .. Len(s.base) /\ ParamLive(s) \subseteq 1 .. Len(s.pbase)
      /\ OverlayLive(s) \subseteq 1 .. Len(s.overlay)
      /\ Len(s.base) \in Nat /\ Len(s.pbase) \in Nat /\ Len(s.overlay) \in Nat
  BY LivePositions
<1>2. \A n \in Nat : IsFiniteSet(1 .. n)
  BY FS_Interval
<1> QED
  BY <1>1, <1>2, FS_Subset

\* Two finite sets without a common element.
LEMMA DisjointSize ==
    ASSUME NEW S, NEW U, IsFiniteSet(S), IsFiniteSet(U), S \cap U = {}
    PROVE  IsFiniteSet(S \cup U) /\ Cardinality(S \cup U) = Cardinality(S) + Cardinality(U)
<1>1. Cardinality(S \cap U) = 0
  BY FS_EmptySet
<1>2. Cardinality(S) \in Nat /\ Cardinality(U) \in Nat
  BY FS_CardinalityType
<1>3. IsFiniteSet(S \cup U) /\ Cardinality(S \cup U) = Cardinality(S) + Cardinality(U) - Cardinality(S \cap U)
  BY FS_Union
<1> QED
  BY <1>1, <1>2, <1>3

\* As many places, and pairs with a cell, as live positions.
LEMMA PlacesCount ==
    ASSUME NEW s, NEW T, StoreOK(s, T)
    PROVE  /\ IsFiniteSet(MapKeys(s)) /\ Cardinality(MapKeys(s)) \in Nat
           /\ Cardinality(MapKeys(s)) = Cardinality(PackedLive(s)) + Cardinality(ParamLive(s))
                                           + Cardinality(OverlayLive(s))
<1> DEFINE P == PackedLive(s)
           Q == ParamLive(s)
           O == OverlayLive(s)
           PP == {Packed(i) : i \in P}
           QQ == {ParamBase(i) : i \in Q}
           OO == {Overlay(i) : i \in O}
<1>1. IsFiniteSet(P) /\ IsFiniteSet(Q) /\ IsFiniteSet(O)
  BY LiveFinite DEF StoreOK
<1>2. MapKeys(s) = {KeyAt(s, l) : l \in Locs(s)}
  BY KeysWithin
<1>3. Locs(s) = (PP \cup QQ) \cup OO
  BY DEF Locs
<1>4. \A l, m \in Locs(s) : KeyAt(s, l) = KeyAt(s, m) => l = m
  BY DEF StoreOK, Exact
<1> HIDE DEF P, Q, O
<1>5. IsFiniteSet(PP) /\ Cardinality(PP) = Cardinality(P)
  <2>1. OneForOne([i \in P |-> Packed(i)], P, PP)
    BY DEF OneForOne, Packed
  <2> QED
    BY <1>1, <2>1, SameSize
<1>6. IsFiniteSet(QQ) /\ Cardinality(QQ) = Cardinality(Q)
  <2>1. OneForOne([i \in Q |-> ParamBase(i)], Q, QQ)
    BY DEF OneForOne, ParamBase
  <2> QED
    BY <1>1, <2>1, SameSize
<1>7. IsFiniteSet(OO) /\ Cardinality(OO) = Cardinality(O)
  <2>1. OneForOne([i \in O |-> Overlay(i)], O, OO)
    BY DEF OneForOne, Overlay
  <2> QED
    BY <1>1, <2>1, SameSize
<1>8. PP \cap QQ = {} /\ (PP \cup QQ) \cap OO = {}
  BY DEF Packed, ParamBase, Overlay
<1> HIDE DEF PP, QQ, OO
<1>9. IsFiniteSet(PP \cup QQ) /\ Cardinality(PP \cup QQ) = Cardinality(P) + Cardinality(Q)
  BY <1>5, <1>6, <1>8, DisjointSize
<1>10. IsFiniteSet(Locs(s)) /\ Cardinality(Locs(s)) = Cardinality(P) + Cardinality(Q) + Cardinality(O)
  BY <1>3, <1>7, <1>8, <1>9, DisjointSize
<1>11. OneForOne([l \in Locs(s) |-> KeyAt(s, l)], Locs(s), MapKeys(s))
  BY <1>2, <1>4 DEF OneForOne
<1>12. IsFiniteSet(MapKeys(s)) /\ Cardinality(MapKeys(s)) = Cardinality(Locs(s))
  BY <1>10, <1>11, SameSize
<1> QED
  BY <1>10, <1>12, FS_CardinalityType DEF P, Q, O

-----------------------------------------------------------------------------
(* The books of a store: what it keeps to find cells by parameter and to count *)
(* them.                                                                       *)

\* The positions that depend on p according to the per cell index and the blocks.
ListedFor(s, p) == s.positions[p] \cup BlockPositions(s, p)

\* They carry p, and no live cell is missed.
PositionsExact(s) ==
    /\ DOMAIN s.positions = Params
    /\ \A p \in Params : \A i \in ListedFor(s, p) :
          i \in 1 .. Len(s.pbase) /\ s.pbase[i].param = p
    /\ \A p \in Params, i \in ParamLive(s) : s.pbase[i].param = p => i \in ListedFor(s, p)

\* The live overlay entries whose expression depends on p.
OverlayFor(s, p) == {i \in OverlayLive(s) : p \in Dependencies(s.overlay[i].data.expr)}

LinksExact(s) == DOMAIN s.byParam = Params /\ \A p \in Params : s.byParam[p] = OverlayFor(s, p)

CountExact(s) == s.live = Cardinality(MapKeys(s))

Books(s) == PositionsExact(s) /\ LinksExact(s) /\ CountExact(s)

\* The parametric base and what indexes it stay.
SameIndex(s, t) ==
    /\ DOMAIN t = Fields /\ t.positions = s.positions /\ t.blocks = s.blocks /\ t.pbase = s.pbase
    /\ t.pshadowed = s.pshadowed /\ t.pdead = s.pdead

\* The parts a new overlay entry writes.
LEMMA PushedParts ==
    ASSUME NEW s, NEW t, NEW id, NEW data, NEW b, DOMAIN s = Fields,
           t = PushOverlay(s, id, data, b)
    PROVE  /\ SameIndex(s, t) /\ t.live = s.live
           /\ t.overlay = Append(s.overlay, [id |-> id, data |-> data, tombstone |-> b])
           /\ t.byParam = IF b THEN s.byParam
                          ELSE Linked(s.byParam, Len(s.overlay) + 1, Dependencies(data.expr))
BY DEF PushOverlay, SameIndex, Fields

\* A new overlay entry that holds a cell is found by the parameters it depends on.
LEMMA PushedLinks ==
    ASSUME NEW s, NEW t, NEW id, NEW data, NEW b, ~ b, DOMAIN s = Fields,
           IsList(s.overlay), LinksExact(s), t = PushOverlay(s, id, data, b)
    PROVE  LinksExact(t) /\ SameIndex(s, t) /\ t.live = s.live
<1> DEFINE m == Len(s.overlay)
           entry == [id |-> id, data |-> data, tombstone |-> b]
<1>1. /\ SameIndex(s, t) /\ t.live = s.live
      /\ t.overlay = Append(s.overlay, entry)
      /\ t.byParam = Linked(s.byParam, m + 1, Dependencies(data.expr))
  BY PushedParts
<1>2. entry.data = data /\ entry.tombstone = b
  OBVIOUS
<1> HIDE DEF entry
<1>3. /\ IsList(t.overlay) /\ Len(t.overlay) = m + 1 /\ m \in Nat
      /\ \A i \in 1 .. m : t.overlay[i] = s.overlay[i]
      /\ t.overlay[m + 1] = entry
  BY <1>1, ListAppend DEF IsList
<1>4. DOMAIN s.overlay = 1 .. m /\ DOMAIN t.overlay = 1 .. m + 1
  BY <1>3, ListIsSeq
<1>5. OverlayLive(t) = OverlayLive(s) \cup {m + 1} /\ OverlayLive(s) \subseteq 1 .. m
  <2>1. \A i : i \in OverlayLive(t) <=> i \in 1 .. m + 1 /\ ~ t.overlay[i].tombstone
    BY <1>4 DEF OverlayLive
  <2>2. \A i : i \in OverlayLive(s) <=> i \in 1 .. m /\ ~ s.overlay[i].tombstone
    BY <1>4 DEF OverlayLive
  <2>3. \A i : i \in 1 .. m + 1 <=> i \in 1 .. m \/ i = m + 1
    BY <1>3
  <2> QED
    BY <1>2, <1>3, <2>1, <2>2, <2>3
<1>6. \A p \in Params : t.byParam[p] = OverlayFor(t, p)
  <2> SUFFICES ASSUME NEW p \in Params PROVE t.byParam[p] = OverlayFor(t, p)
    OBVIOUS
  <2>1. t.byParam[p] = IF p \in Dependencies(data.expr) THEN s.byParam[p] \cup {m + 1} ELSE s.byParam[p]
    BY <1>1 DEF Linked
  <2>2. s.byParam[p] = OverlayFor(s, p)
    BY DEF LinksExact
  <2>3. \A i \in OverlayLive(s) : t.overlay[i] = s.overlay[i]
    BY <1>3, <1>5
  <2>4. t.overlay[m + 1].data.expr = data.expr
    BY <1>2, <1>3
  <2> QED
    BY <1>5, <2>1, <2>2, <2>3, <2>4 DEF OverlayFor
<1>7. DOMAIN t.byParam = Params
  BY <1>1 DEF Linked
<1> QED
  BY <1>1, <1>6, <1>7 DEF LinksExact

\* A new tombstone is not found by any.
LEMMA TombstoneLinks ==
    ASSUME NEW s, NEW t, NEW id, NEW data, NEW b, IsTrue(b), DOMAIN s = Fields,
           IsList(s.overlay), LinksExact(s), t = PushOverlay(s, id, data, b)
    PROVE  LinksExact(t) /\ SameIndex(s, t) /\ t.live = s.live
<1> DEFINE m == Len(s.overlay)
           entry == [id |-> id, data |-> data, tombstone |-> b]
<1>1. /\ SameIndex(s, t) /\ t.live = s.live
      /\ t.overlay = Append(s.overlay, entry)
      /\ t.byParam = s.byParam
  <2>1. /\ SameIndex(s, t) /\ t.live = s.live
        /\ t.overlay = Append(s.overlay, entry)
        /\ t.byParam = IF b THEN s.byParam ELSE Linked(s.byParam, m + 1, Dependencies(data.expr))
    BY PushedParts
  <2>2. b = TRUE
    BY DEF IsTrue
  <2>3. t.byParam = s.byParam
    BY <2>1, <2>2, Zenon
  <2> QED
    BY <2>1, <2>3
<1>2. entry.tombstone = b /\ b
  BY DEF IsTrue
<1> HIDE DEF entry
<1>3. /\ IsList(t.overlay) /\ Len(t.overlay) = m + 1 /\ m \in Nat
      /\ \A i \in 1 .. m : t.overlay[i] = s.overlay[i]
      /\ t.overlay[m + 1] = entry
  BY <1>1, ListAppend DEF IsList
<1>4. DOMAIN s.overlay = 1 .. m /\ DOMAIN t.overlay = 1 .. m + 1
  BY <1>3, ListIsSeq
<1>5. OverlayLive(t) = OverlayLive(s) /\ OverlayLive(s) \subseteq 1 .. m
  <2>1. \A i : i \in OverlayLive(t) <=> i \in 1 .. m + 1 /\ ~ t.overlay[i].tombstone
    BY <1>4 DEF OverlayLive
  <2>2. \A i : i \in OverlayLive(s) <=> i \in 1 .. m /\ ~ s.overlay[i].tombstone
    BY <1>4 DEF OverlayLive
  <2>3. \A i : i \in 1 .. m + 1 <=> i \in 1 .. m \/ i = m + 1
    BY <1>3
  <2> QED
    BY <1>2, <1>3, <2>1, <2>2, <2>3
<1>6. \A p : OverlayFor(t, p) = OverlayFor(s, p)
  BY <1>3, <1>5 DEF OverlayFor
<1> QED
  BY <1>1, <1>6 DEF LinksExact

\* Parameters of packed cells, and blocks, stay the same.
SameParams(s, t) ==
    /\ t.blocks = s.blocks /\ Len(t.pbase) = Len(s.pbase)
    /\ \A i \in 1 .. Len(s.pbase) : t.pbase[i].param = s.pbase[i].param

\* Positions that hold no live cell any more may be unlisted.
LEMMA StillListed ==
    ASSUME NEW s, NEW t, NEW X, Shaped(s), PositionsExact(s), SameParams(s, t),
           DOMAIN t.positions = Params,
           \A p \in Params : t.positions[p] \subseteq s.positions[p],
           \A p \in Params : s.positions[p] \ X \subseteq t.positions[p],
           ParamLive(t) \subseteq ParamLive(s) \ X
    PROVE  PositionsExact(t)
<1>1. \A p : BlockPositions(t, p) = BlockPositions(s, p)
  BY DEF BlockPositions, SameParams
<1>2. ASSUME NEW p \in Params, NEW i \in ListedFor(t, p)
      PROVE  i \in 1 .. Len(t.pbase) /\ t.pbase[i].param = p
  <2>1. i \in ListedFor(s, p)
    BY <1>1, <1>2 DEF ListedFor
  <2> QED
    BY <2>1 DEF PositionsExact, SameParams
<1>3. ASSUME NEW p \in Params, NEW i \in ParamLive(t), t.pbase[i].param = p
      PROVE  i \in ListedFor(t, p)
  <2>1. i \in ParamLive(s) /\ i \notin X /\ i \in 1 .. Len(s.pbase)
    BY LivePositions
  <2>2. s.pbase[i].param = p
    BY <1>3, <2>1 DEF SameParams
  <2>3. i \in ListedFor(s, p)
    BY <2>1, <2>2 DEF PositionsExact
  <2> QED
    BY <1>1, <2>1, <2>3 DEF ListedFor
<1> QED
  BY <1>2, <1>3 DEF PositionsExact

\* Unlinking a position takes it from one list.
LEMMA UnlinkParts ==
    ASSUME NEW s, NEW pos, NEW t, DOMAIN s = Fields, DOMAIN s.positions = Params,
           t = UnlinkParamPosition(s, pos)
    PROVE  /\ DOMAIN t = Fields /\ DOMAIN t.positions = Params
           /\ \A p \in Params : t.positions[p] \subseteq s.positions[p]
           /\ \A p \in Params : s.positions[p] \ {pos} \subseteq t.positions[p]
           /\ t.blocks = s.blocks /\ t.pbase = s.pbase /\ t.pshadowed = s.pshadowed
           /\ t.pdead = s.pdead /\ t.overlay = s.overlay /\ t.byParam = s.byParam
           /\ t.live = s.live
<1> DEFINE q == s.pbase[pos].param
<1>1. /\ DOMAIN t = Fields /\ t.positions = [s.positions EXCEPT ![q] = @ \ {pos}]
      /\ t.blocks = s.blocks /\ t.pbase = s.pbase /\ t.pshadowed = s.pshadowed
      /\ t.pdead = s.pdead /\ t.overlay = s.overlay /\ t.byParam = s.byParam
      /\ t.live = s.live
  BY DEF UnlinkParamPosition, Fields
<1> HIDE DEF q
<1>2. /\ DOMAIN t.positions = Params
      /\ \A p \in Params : t.positions[p] = IF p = q THEN s.positions[p] \ {pos} ELSE s.positions[p]
  BY <1>1
<1> QED
  BY <1>1, <1>2

\* A cell of which only the expression changed leaves the pairs as they are.
LEMMA ReplacedKeys ==
    ASSUME NEW s, NEW t, NEW T, NEW n \in Slots(s), NEW expr, StoreOK(s, T), LocOf(s, n) \in Locs(s),
           Cells(t) = Replaced(s, n, expr)
    PROVE  MapKeys(t) = MapKeys(s)
<1> DEFINE c == CellIn(s, LocOf(s, n))
<1>1. c \in Cells(s) /\ c.key = KeyAt(s, LocOf(s, n)) /\ c.id = IdAt(s, LocOf(s, n))
  BY CellParts
<1>2. IdAt(s, LocOf(s, n)) = FreshId(n)
  BY GetsPlace DEF StoreOK
<1>3. \A d \in Cells(s) : d.id = FreshId(n) => d = c
  BY <1>1, <1>2, CellsFound
<1>4. MapCell(KeyAt(s, LocOf(s, n)), FreshId(n), expr).key = KeyAt(s, LocOf(s, n))
  BY DEF MapCell
<1> HIDE DEF c
<1> QED
  BY <1>1, <1>3, <1>4 DEF Replaced, MapKeys


\* What LinksExact says depends on the entries and the index of parameters only.
LEMMA SameLinks ==
    ASSUME NEW s, NEW t, LinksExact(s), t.byParam = s.byParam, t.overlay = s.overlay
    PROVE  LinksExact(t)
BY DEF LinksExact, OverlayFor, OverlayLive

\* shadow keeps the books.
LEMMA ShadowBooks ==
    ASSUME NEW s, NEW T, NEW n \in Slots(s), NEW expr, NEW cached, NEW t,
           StoreOK(s, T), Books(s), LocOf(s, n) \in Locs(s), ~ InOverlay(LocOf(s, n)),
           t = Shadow(s, FreshId(n), expr, cached)
    PROVE  StoreOK(t, T) /\ Books(t)
<1> DEFINE l == LocOf(s, n)
           new == NextPlace(s)
           data == Data(KeyAt(s, l), expr, cached)
           g == [s EXCEPT !.pshadowed = @ \cup {l.pos}]
           h == IF l.at = "packed"
                THEN [s EXCEPT !.shadowed = @ \cup {l.pos}]
                ELSE UnlinkParamPosition(g, l.pos)
           u == [h EXCEPT !.arena[n].loc = new]
           X == IF l.at = "packed" THEN {} ELSE {l.pos}
<1>1. Shaped(s) /\ Exact(s) /\ DOMAIN s = Fields /\ IsList(s.overlay)
  BY DEF StoreOK, Shaped
<1>2. PositionsExact(s) /\ LinksExact(s) /\ CountExact(s) /\ DOMAIN s.positions = Params
  BY DEF Books, PositionsExact
<1>3. PICK b \in BOOLEAN : ~ b /\ t = PushOverlay(u, FreshId(n), data, b)
  <2>1. Resolve(s, FreshId(n)) = l /\ Get(s, FreshId(n)) = {DataAt(s, l)} /\ Pair(DataAt(s, l)) = KeyAt(s, l)
    BY <1>1, GetsPlace
  <2> HIDE DEF l
  <2>2. (CHOOSE d \in Get(s, FreshId(n)) : TRUE).key = KeyAt(s, l)
    BY <2>1 DEF Pair
  <2>3. FreshId(n)[1] = n
    BY DEF FreshId
  <2> QED
    BY <2>1, <2>2, <2>3, Zenon DEF Shadow, NextPlace
<1> HIDE DEF l, data, new
<1>4. /\ DOMAIN g = Fields /\ g.positions = s.positions /\ g.blocks = s.blocks /\ g.pbase = s.pbase
      /\ g.overlay = s.overlay /\ g.byParam = s.byParam /\ g.live = s.live /\ g.pdead = s.pdead
      /\ g.pshadowed = s.pshadowed \cup {l.pos}
  BY <1>1 DEF Fields
<1> HIDE DEF g
<1>5. /\ DOMAIN h = Fields /\ h.blocks = s.blocks /\ h.pbase = s.pbase /\ h.overlay = s.overlay
      /\ h.byParam = s.byParam /\ h.live = s.live /\ h.pdead = s.pdead
      /\ h.pshadowed = s.pshadowed \cup X
      /\ DOMAIN h.positions = Params
      /\ \A p \in Params : h.positions[p] \subseteq s.positions[p]
      /\ \A p \in Params : s.positions[p] \ X \subseteq h.positions[p]
  <2>1. CASE l.at = "packed"
    BY <1>1, <1>2, <2>1 DEF Fields
  <2>2. CASE l.at # "packed"
    BY <1>2, <1>4, <2>2, UnlinkParts
  <2> QED
    BY <2>1, <2>2
<1> HIDE DEF h, X
<1>6. /\ DOMAIN u = Fields /\ u.blocks = s.blocks /\ u.pbase = s.pbase /\ u.overlay = s.overlay
      /\ u.byParam = s.byParam /\ u.live = s.live /\ u.pdead = s.pdead
      /\ u.pshadowed = h.pshadowed /\ u.positions = h.positions
  BY <1>5 DEF Fields
<1> HIDE DEF u
<1>7. LinksExact(t) /\ SameIndex(u, t) /\ t.live = s.live
  <2>1. LinksExact(u)
    BY <1>2, <1>6, SameLinks
  <2>2. LinksExact(t) /\ SameIndex(u, t) /\ t.live = u.live
    BY <1>1, <1>3, <1>6, <2>1, PushedLinks
  <2> QED
    BY <1>6, <2>2
<1>8. PositionsExact(t)
  <2>1. SameParams(s, t)
    BY <1>6, <1>7 DEF SameParams, SameIndex
  <2>2. ParamLive(t) \subseteq ParamLive(s) \ X
    BY <1>5, <1>6, <1>7 DEF ParamLive, SameIndex
  <2>3. t.positions = h.positions
    BY <1>6, <1>7 DEF SameIndex
  <2> QED
    BY <1>1, <1>2, <1>5, <2>1, <2>2, <2>3, StillListed
<1>9. StoreOK(t, T) /\ MapKeys(t) = MapKeys(s)
  <2>1. StoreOK(t, T) /\ Slots(t) = Slots(s) /\ Cells(t) = Replaced(s, n, expr)
    BY ShadowOK
  <2> QED
    BY <2>1, ReplacedKeys
<1> QED
  BY <1>2, <1>7, <1>8, <1>9 DEF Books, CountExact

\* Rewriting an entry links it to the parameters of its new expression.
LEMMA RewriteBooks ==
    ASSUME NEW s, NEW T, NEW n \in Slots(s), NEW expr, NEW cached, NEW t,
           StoreOK(s, T), Books(s), LocOf(s, n) \in Locs(s), InOverlay(LocOf(s, n)),
           t = SetExpr(s, FreshId(n), expr, cached)
    PROVE  StoreOK(t, T) /\ Books(t)
<1> DEFINE l == LocOf(s, n)
           p == l.pos
<1>1. Shaped(s) /\ Exact(s) /\ DOMAIN s = Fields /\ IsList(s.overlay)
  BY DEF StoreOK, Shaped
<1>2. PositionsExact(s) /\ LinksExact(s) /\ CountExact(s) /\ DOMAIN s.positions = Params
  BY DEF Books, PositionsExact
<1>3. Resolve(s, FreshId(n)) = l /\ l \in Locs(s) /\ l.at = "overlay" /\ p = PosOf(l)
  BY <1>1, GetsPlace DEF InOverlay, PosOf
<1>4. /\ StoreOK(t, T) /\ Slots(t) = Slots(s) /\ Cells(t) = Replaced(s, n, expr)
      /\ Rewrites(s, t, p, expr)
  BY <1>3, RewriteOK
<1>5. t = [s EXCEPT !.overlay[p].data.expr = expr, !.overlay[p].data.cached = cached,
                    !.byParam = Linked(Unlinked(@, p), p, Dependencies(expr))]
  BY <1>3, Zenon DEF SetExpr
<1> HIDE DEF l
<1>6. p \in OverlayLive(s)
  BY <1>3, PlaceForms
<1> HIDE DEF p
<1>7. /\ t.positions = s.positions /\ t.blocks = s.blocks /\ t.pbase = s.pbase
      /\ t.pshadowed = s.pshadowed /\ t.pdead = s.pdead /\ t.live = s.live
      /\ t.byParam = Linked(Unlinked(s.byParam, p), p, Dependencies(expr))
  BY <1>1, <1>5 DEF Fields
<1>8. OverlayLive(t) = OverlayLive(s) /\ OverlayLive(s) \subseteq 1 .. Len(s.overlay)
  <2>1. DOMAIN s.overlay = 1 .. Len(s.overlay) /\ DOMAIN t.overlay = 1 .. Len(s.overlay)
    BY <1>1, <1>4, ListIsSeq DEF Rewrites
  <2> QED
    BY <1>4, <2>1 DEF OverlayLive, Rewrites
<1>9. LinksExact(t)
  <2>1. ASSUME NEW q \in Params
        PROVE  t.byParam[q] = OverlayFor(t, q)
    <3>1. t.byParam[q] = IF q \in Dependencies(expr) THEN (s.byParam[q] \ {p}) \cup {p}
                         ELSE s.byParam[q] \ {p}
      BY <1>7 DEF Linked, Unlinked
    <3>2. s.byParam[q] = OverlayFor(s, q)
      BY <1>2 DEF LinksExact
    <3>3. \A i \in OverlayLive(s) :
             t.overlay[i].data.expr = IF i = p THEN expr ELSE s.overlay[i].data.expr
      BY <1>4, <1>8 DEF Rewrites
    <3>4. \A i : i \in OverlayFor(t, q) <=> i \in OverlayLive(s) /\ q \in Dependencies(t.overlay[i].data.expr)
      BY <1>8 DEF OverlayFor
    <3>5. \A i : i \in OverlayFor(s, q) <=> i \in OverlayLive(s) /\ q \in Dependencies(s.overlay[i].data.expr)
      BY DEF OverlayFor
    <3> QED
      BY <1>6, <3>1, <3>2, <3>3, <3>4, <3>5
  <2>2. DOMAIN t.byParam = Params
    BY <1>7 DEF Linked
  <2> QED
    BY <2>1, <2>2 DEF LinksExact
<1>10. PositionsExact(t)
  BY <1>2, <1>7 DEF PositionsExact, ListedFor, BlockPositions, ParamLive
<1>11. MapKeys(t) = MapKeys(s)
  BY <1>4, ReplacedKeys
<1> QED
  BY <1>2, <1>4, <1>7, <1>9, <1>10, <1>11 DEF Books, CountExact

\* set_expr keeps the books.
LEMMA SetExprBooks ==
    ASSUME NEW s, NEW T, NEW n \in Slots(s), NEW expr, NEW cached, NEW t, StoreOK(s, T),
           Books(s), LocOf(s, n) \in Locs(s), t = SetExpr(s, FreshId(n), expr, cached)
    PROVE  StoreOK(t, T) /\ Books(t) /\ MapKeys(t) = MapKeys(s)
<1>1. ASSUME ~ InOverlay(LocOf(s, n)) PROVE StoreOK(t, T) /\ Books(t)
  <2>1. Resolve(s, FreshId(n)) = LocOf(s, n)
    BY GetsPlace DEF StoreOK
  <2>2. t = Shadow(s, FreshId(n), expr, cached)
    BY <1>1, <2>1, Zenon DEF SetExpr, InOverlay
  <2> QED
    BY <1>1, <2>2, ShadowBooks
<1>2. ASSUME InOverlay(LocOf(s, n)) PROVE StoreOK(t, T) /\ Books(t)
  BY <1>2, RewriteBooks
<1>3. MapKeys(t) = MapKeys(s)
  <2>1. StoreOK(t, T) /\ Slots(t) = Slots(s) /\ Cells(t) = Replaced(s, n, expr)
    BY SetExprOK
  <2> QED
    BY <2>1, ReplacedKeys
<1> QED
  BY <1>1, <1>2, <1>3

\* One pair more, counted.
LEMMA CountsOne ==
    ASSUME NEW s, NEW t, NEW T, NEW key, StoreOK(s, T), CountExact(s), key \notin MapKeys(s),
           MapKeys(t) = MapKeys(s) \cup {key}, t.live = s.live + 1
    PROVE  CountExact(t)
<1>1. IsFiniteSet(MapKeys(s)) /\ Cardinality(MapKeys(s)) \in Nat
  BY PlacesCount
<1>2. Cardinality(MapKeys(s) \cup {key}) = Cardinality(MapKeys(s)) + 1
  BY <1>1, FS_AddElement
<1> QED
  BY <1>2 DEF CountExact

\* One pair less.
LEMMA CountsOneLess ==
    ASSUME NEW s, NEW t, NEW T, NEW key, StoreOK(s, T), CountExact(s), key \in MapKeys(s),
           MapKeys(t) = MapKeys(s) \ {key}, t.live = s.live - 1
    PROVE  CountExact(t)
<1>1. IsFiniteSet(MapKeys(s)) /\ Cardinality(MapKeys(s)) \in Nat
  BY PlacesCount
<1>2. Cardinality(MapKeys(s) \ {key}) = Cardinality(MapKeys(s)) - 1
  BY <1>1, FS_RemoveElement
<1> QED
  BY <1>2 DEF CountExact

\* A new cell in the overlay.
LEMMA AddFreshBooks ==
    ASSUME NEW s, NEW T, NEW key, NEW expr, NEW value, NEW t, StoreOK(s, T), Books(s), key[1] \in T,
           \A l \in Locs(s) : KeyAt(s, l) # key, t = AddFresh(s, key, expr, value)
    PROVE  StoreOK(t, T) /\ Books(t) /\ MapKeys(t) = MapKeys(s) \cup {key}
<1> DEFINE data == Data(key, expr, value)
           u == [s EXCEPT !.arena = Append(@, Slot(NextPlace(s))), !.live = @ + 1]
<1>1. Shaped(s) /\ DOMAIN s = Fields /\ IsList(s.overlay)
  BY DEF StoreOK, Shaped
<1>2. PositionsExact(s) /\ LinksExact(s) /\ CountExact(s) /\ DOMAIN s.positions = Params
  BY DEF Books, PositionsExact
<1>3. PICK b \in BOOLEAN : ~ b /\ t = PushOverlay(u, FreshId(NextSlot(s)), data, b)
  BY Zenon DEF AddFresh, NextSlot, NextPlace
<1> HIDE DEF data
<1>4. /\ DOMAIN u = Fields /\ u.blocks = s.blocks /\ u.pbase = s.pbase /\ u.overlay = s.overlay
      /\ u.byParam = s.byParam /\ u.live = s.live + 1 /\ u.pdead = s.pdead
      /\ u.pshadowed = s.pshadowed /\ u.positions = s.positions
  BY <1>1 DEF Fields
<1> HIDE DEF u
<1>5. LinksExact(t) /\ SameIndex(u, t) /\ t.live = s.live + 1
  <2>1. LinksExact(u)
    BY <1>2, <1>4, SameLinks
  <2>2. LinksExact(t) /\ SameIndex(u, t) /\ t.live = u.live
    BY <1>1, <1>3, <1>4, <2>1, PushedLinks
  <2> QED
    BY <1>4, <2>2
<1>6. PositionsExact(t)
  BY <1>2, <1>4, <1>5 DEF PositionsExact, ListedFor, BlockPositions, ParamLive, SameIndex
<1>7. StoreOK(t, T) /\ MapKeys(t) = MapKeys(s) \cup {key} /\ key \notin MapKeys(s)
  <2>1. /\ StoreOK(t, T)
        /\ Slots(t) = Slots(s) \cup {NextSlot(s)} /\ NextSlot(s) \notin Slots(s)
        /\ Cells(t) = Cells(s) \cup {MapCell(key, FreshId(NextSlot(s)), expr)}
    BY AddFreshOK
  <2>2. MapKeys(s) = {KeyAt(s, l) : l \in Locs(s)}
    BY KeysWithin
  <2>3. MapCell(key, FreshId(NextSlot(s)), expr).key = key
    BY DEF MapCell
  <2> QED
    BY <2>1, <2>2, <2>3 DEF MapKeys
<1>8. CountExact(t)
  BY <1>2, <1>5, <1>7, CountsOne
<1> QED
  BY <1>5, <1>6, <1>7, <1>8 DEF Books

\* A term added to a cell, which is there or is not.
LEMMA AddBooks ==
    ASSUME NEW s, NEW T, NEW key, NEW expr, NEW value, NEW t, StoreOK(s, T), Books(s),
           key[1] \in T, t = Add(s, key, expr, value)
    PROVE  StoreOK(t, T) /\ Books(t) /\ MapKeys(t) = MapKeys(s) \cup {key}
<1>1. /\ \A c \in Cells(s) : \E n \in Slots(s) :
            /\ LocOf(s, n) \in Locs(s) /\ c = CellIn(s, LocOf(s, n))
            /\ c.id = FreshId(n) /\ c.key = KeyAt(s, LocOf(s, n))
            /\ c.expr = DataAt(s, LocOf(s, n)).expr
            /\ LiveId(s, c.key) = {c.id}
            /\ Get(s, c.id) = {DataAt(s, LocOf(s, n))}
      /\ \A k : k \notin MapKeys(s) =>
            LiveId(s, k) = {} /\ \A l \in Locs(s) : KeyAt(s, l) # k
  BY CellsFound, Zenon
<1>2. ASSUME key \notin MapKeys(s)
      PROVE  StoreOK(t, T) /\ Books(t) /\ MapKeys(t) = MapKeys(s) \cup {key}
  <2>1. t = AddFresh(s, key, expr, value) /\ \A l \in Locs(s) : KeyAt(s, l) # key
    BY <1>1, <1>2 DEF Add
  <2> QED
    BY <2>1, AddFreshBooks
<1>3. ASSUME key \in MapKeys(s)
      PROVE  StoreOK(t, T) /\ Books(t) /\ MapKeys(t) = MapKeys(s) \cup {key}
  <2>1. PICK c \in Cells(s) : c.key = key
    BY <1>3 DEF MapKeys
  <2>2. PICK n \in Slots(s) :
            /\ LocOf(s, n) \in Locs(s)
            /\ c.id = FreshId(n)
            /\ LiveId(s, c.key) = {c.id}
            /\ Get(s, c.id) = {DataAt(s, LocOf(s, n))}
    BY <1>1
  <2> DEFINE old == DataAt(s, LocOf(s, n))
  <2>3. t = Combine(s, FreshId(n), expr, value)
    BY <2>1, <2>2 DEF Add
  <2>4. t = SetExpr(s, FreshId(n), Plus(old.expr, expr), old.cached + value)
    BY <2>2, <2>3 DEF Combine
  <2> HIDE DEF old
  <2>5. StoreOK(t, T) /\ Books(t) /\ MapKeys(t) = MapKeys(s)
    BY <2>2, <2>4, SetExprBooks
  <2> QED
    BY <1>3, <2>5
<1> QED
  BY <1>2, <1>3

\* Giving an identity back leaves the books alone.
LEMMA ReleaseBooks ==
    ASSUME NEW s, NEW n, NEW u, DOMAIN s = Fields, u = Release(s, FreshId(n))
    PROVE  /\ DOMAIN u = Fields /\ u.positions = s.positions /\ u.blocks = s.blocks
           /\ u.pbase = s.pbase /\ u.pshadowed = s.pshadowed /\ u.pdead = s.pdead
           /\ u.overlay = s.overlay /\ u.byParam = s.byParam /\ u.live = s.live
<1>1. FreshId(n)[1] = n
  BY DEF FreshId
<1> DEFINE slot == [gen |-> s.arena[n].gen + 1, loc |-> Vacant]
<1>2. u = [s EXCEPT !.arena[n] = slot]
  BY <1>1, Zenon DEF Release
<1> HIDE DEF slot
<1> QED
  BY <1>2 DEF Fields

\* The pairs without that of one identity.
LEMMA WithoutKeys ==
    ASSUME NEW s, NEW t, NEW T, NEW n \in Slots(s), StoreOK(s, T), LocOf(s, n) \in Locs(s),
           Cells(t) = Without(s, n)
    PROVE  /\ MapKeys(t) = MapKeys(s) \ {KeyAt(s, LocOf(s, n))}
           /\ KeyAt(s, LocOf(s, n)) \in MapKeys(s)
<1> DEFINE c == CellIn(s, LocOf(s, n))
<1>1. c \in Cells(s) /\ c.key = KeyAt(s, LocOf(s, n)) /\ c.id = IdAt(s, LocOf(s, n))
  BY CellParts
<1>2. IdAt(s, LocOf(s, n)) = FreshId(n)
  BY GetsPlace DEF StoreOK
<1>3. \A d, e \in Cells(s) : (d.key = e.key => d = e) /\ (d.id = e.id => d = e)
  BY CellsFound
<1> HIDE DEF c
<1> QED
  BY <1>1, <1>2, <1>3 DEF Without, MapKeys

\* remove of a cell of the overlay keeps the books.
LEMMA DiscardOverlayBooks ==
    ASSUME NEW s, NEW T, NEW n \in Slots(s), NEW t, StoreOK(s, T), Books(s),
           LocOf(s, n) \in Locs(s), InOverlay(LocOf(s, n)), t = Discard(s, FreshId(n))
    PROVE  StoreOK(t, T) /\ Books(t)
<1> DEFINE l == LocOf(s, n)
           p == PosOf(l)
           u == Release(s, FreshId(n))
<1>1. Shaped(s) /\ Exact(s) /\ DOMAIN s = Fields /\ IsList(s.overlay)
  BY DEF StoreOK, Shaped
<1>2. PositionsExact(s) /\ LinksExact(s) /\ CountExact(s)
  BY DEF Books
<1>3. Resolve(s, FreshId(n)) = l /\ l \in Locs(s) /\ l.at = "overlay"
  BY <1>1, GetsPlace DEF InOverlay
<1>4. t = RemoveOverlay(u, p)
  BY <1>3, Zenon DEF Discard, PosOf
<1> HIDE DEF l
<1>5. p \in OverlayLive(s) /\ p \in 1 .. Len(s.overlay)
  BY <1>1, <1>3, PlaceForms, LivePositions DEF PosOf
<1> HIDE DEF p, u
<1>6. /\ DOMAIN u = Fields /\ u.positions = s.positions /\ u.blocks = s.blocks
      /\ u.pbase = s.pbase /\ u.pshadowed = s.pshadowed /\ u.pdead = s.pdead
      /\ u.overlay = s.overlay /\ u.byParam = s.byParam /\ u.live = s.live
  BY <1>1, ReleaseBooks DEF u
<1>7. Shaped(u) /\ Indexed(u) /\ Within(u, T)
  BY Released DEF u
<1>8. /\ Shaped(t) /\ Indexed(t) /\ Within(t, T)
      /\ Buries(u, t, p)
  <2>1. p \in 1 .. Len(u.overlay)
    BY <1>5, <1>6
  <2>2. /\ Shaped(t) /\ Indexed(t) /\ Within(t, T)
        /\ Slots(t) = Slots(u)
        /\ \A k : GenOf(t, k) = GenOf(u, k) /\ LocOf(t, k) = LocOf(u, k)
        /\ Locs(t) = Locs(u) \ {Overlay(p)}
        /\ \A k \in Locs(u) : k # Overlay(p) =>
              IdAt(t, k) = IdAt(u, k) /\ KeyAt(t, k) = KeyAt(u, k) /\ DataAt(t, k) = DataAt(u, k)
        /\ \A k : HasEntry(t, k) = HasEntry(u, k) /\ Entry(t, k) = Entry(u, k)
        /\ Buries(u, t, p)
    BY <1>4, <1>7, <2>1, Buried
  <2> QED
    BY <2>2
<1>9. /\ t.positions = s.positions /\ t.blocks = s.blocks
      /\ t.pbase = s.pbase /\ t.pshadowed = s.pshadowed /\ t.pdead = s.pdead
      /\ t.byParam = Unlinked(s.byParam, p) /\ t.live = s.live - 1
  <2>1. t = [u EXCEPT !.overlay[p].tombstone = TRUE, !.byParam = Unlinked(@, p), !.live = @ - 1]
    BY <1>4, Zenon DEF RemoveOverlay
  <2> QED
    BY <1>6, <2>1 DEF Fields
<1>10. OverlayLive(t) = OverlayLive(s) \ {p}
  <2>1. DOMAIN s.overlay = 1 .. Len(s.overlay) /\ DOMAIN t.overlay = 1 .. Len(s.overlay)
    BY <1>1, <1>6, <1>8, ListIsSeq DEF Buries
  <2> QED
    BY <1>6, <1>8, <2>1 DEF OverlayLive, Buries
<1>11. LinksExact(t)
  <2>1. ASSUME NEW q \in Params
        PROVE  t.byParam[q] = OverlayFor(t, q)
    <3>1. t.byParam[q] = s.byParam[q] \ {p}
      BY <1>9 DEF Unlinked
    <3>2. s.byParam[q] = OverlayFor(s, q)
      BY <1>2 DEF LinksExact
    <3>3. OverlayLive(s) \subseteq 1 .. Len(s.overlay)
      BY <1>1, LivePositions
    <3>4. \A i \in OverlayLive(s) \ {p} : t.overlay[i] = s.overlay[i]
      BY <1>6, <1>8, <3>3 DEF Buries
    <3>5. \A i : i \in OverlayFor(t, q) <=> i \in OverlayLive(t) /\ q \in Dependencies(t.overlay[i].data.expr)
      BY DEF OverlayFor
    <3>6. \A i : i \in OverlayFor(s, q) <=> i \in OverlayLive(s) /\ q \in Dependencies(s.overlay[i].data.expr)
      BY DEF OverlayFor
    <3> QED
      BY <1>10, <3>1, <3>2, <3>4, <3>5, <3>6
  <2>2. DOMAIN t.byParam = Params
    BY <1>9 DEF Unlinked
  <2> QED
    BY <2>1, <2>2 DEF LinksExact
<1>12. PositionsExact(t)
  BY <1>2, <1>9 DEF PositionsExact, ListedFor, BlockPositions, ParamLive
<1>13. StoreOK(t, T) /\ CountExact(t)
  <2>1. StoreOK(t, T) /\ Slots(t) = Slots(s) /\ Cells(t) = Without(s, n)
    BY DiscardOverlayOK
  <2>2. /\ MapKeys(t) = MapKeys(s) \ {KeyAt(s, LocOf(s, n))}
        /\ KeyAt(s, LocOf(s, n)) \in MapKeys(s)
    BY <2>1, WithoutKeys
  <2> QED
    BY <1>2, <1>9, <2>1, <2>2, CountsOneLess
<1> QED
  BY <1>11, <1>12, <1>13 DEF Books

\* remove of a cell of the bases keeps the books.
LEMMA DiscardBaseBooks ==
    ASSUME NEW s, NEW T, NEW n \in Slots(s), NEW t, StoreOK(s, T), Books(s),
           LocOf(s, n) \in Locs(s), ~ InOverlay(LocOf(s, n)), t = Discard(s, FreshId(n))
    PROVE  StoreOK(t, T) /\ Books(t)
<1> DEFINE l == LocOf(s, n)
           p == PosOf(l)
           u == Release(s, FreshId(n))
           data == DataAt(u, l)
           X == IF l.at = "param" THEN {p} ELSE {}
<1>1. Shaped(s) /\ Exact(s) /\ DOMAIN s = Fields /\ IsList(s.overlay)
  BY DEF StoreOK, Shaped
<1>2. PositionsExact(s) /\ LinksExact(s) /\ CountExact(s) /\ DOMAIN s.positions = Params
  BY DEF Books, PositionsExact
<1>3. Resolve(s, FreshId(n)) = l /\ l \in Locs(s)
  BY <1>1, GetsPlace
<1>4. \/ l.at = "packed" /\ t = RemovePacked(u, FreshId(n), p)
      \/ l.at = "param" /\ t = RemoveParam(u, FreshId(n), p)
  <2>1. l.at = "packed" \/ l.at = "param"
    BY <1>3, PlaceForms DEF InOverlay
  <2>2. CASE l.at = "packed"
    BY <1>3, <2>2, Zenon DEF Discard, PosOf
  <2>3. CASE l.at = "param"
    BY <1>3, <2>3, Zenon DEF Discard, PosOf
  <2> QED
    BY <2>1, <2>2, <2>3
<1> HIDE DEF l, u
<1>5. PICK b :
         /\ IsTrue(b)
         /\ \/ l.at = "packed" /\ t = [PushOverlay(u, FreshId(n), data, b) EXCEPT
                                          !.dead = @ \cup {p}, !.live = @ - 1]
            \/ l.at = "param" /\ t = [UnlinkParamPosition(PushOverlay(u, FreshId(n), data, b), p) EXCEPT
                                         !.pdead = @ \cup {p}, !.live = @ - 1]
  <2>1. l.at = "packed" => data = PackedData(u, p)
    BY DEF DataAt, PosOf
  <2>2. l.at = "param" => data = ParamData(u, p)
    BY DEF DataAt, PosOf
  <2> HIDE DEF data
  <2> QED
    BY <1>4, <2>1, <2>2, Zenon DEF RemovePacked, RemoveParam, IsTrue
<1> HIDE DEF data, p
<1> DEFINE v == PushOverlay(u, FreshId(n), data, b)
<1>6. v = PushOverlay(u, FreshId(n), data, b)
  OBVIOUS
<1> HIDE DEF v
<1>7. /\ DOMAIN u = Fields /\ u.positions = s.positions /\ u.blocks = s.blocks
      /\ u.pbase = s.pbase /\ u.pshadowed = s.pshadowed /\ u.pdead = s.pdead
      /\ u.overlay = s.overlay /\ u.byParam = s.byParam /\ u.live = s.live
  BY <1>1, ReleaseBooks DEF u
<1>8. LinksExact(v) /\ SameIndex(u, v) /\ v.live = u.live
  <2>1. LinksExact(u)
    BY <1>2, <1>7, SameLinks
  <2> QED
    BY <1>1, <1>5, <1>6, <1>7, <2>1, TombstoneLinks
<1> DEFINE w == IF l.at = "param" THEN UnlinkParamPosition(v, p) ELSE v
<1>9. /\ DOMAIN w = Fields /\ w.blocks = s.blocks /\ w.pbase = s.pbase
      /\ w.pshadowed = s.pshadowed /\ w.pdead = s.pdead
      /\ w.overlay = v.overlay /\ w.byParam = v.byParam /\ w.live = s.live
      /\ DOMAIN w.positions = Params
      /\ \A q \in Params : w.positions[q] \subseteq s.positions[q]
      /\ \A q \in Params : s.positions[q] \ X \subseteq w.positions[q]
  <2>1. /\ DOMAIN v = Fields /\ v.positions = s.positions /\ v.blocks = s.blocks /\ v.pbase = s.pbase
        /\ v.pshadowed = s.pshadowed /\ v.pdead = s.pdead /\ v.live = s.live
    BY <1>7, <1>8 DEF SameIndex
  <2>2. CASE l.at # "param"
    BY <1>2, <2>1, <2>2
  <2>3. CASE l.at = "param"
    BY <1>2, <2>1, <2>3, UnlinkParts
  <2> QED
    BY <2>2, <2>3
<1>10. /\ t.blocks = s.blocks /\ t.pbase = s.pbase /\ t.pshadowed = s.pshadowed
       /\ t.pdead = s.pdead \cup X
       /\ t.overlay = v.overlay /\ t.byParam = v.byParam /\ t.live = s.live - 1
       /\ t.positions = w.positions
  <2>1. CASE l.at = "packed" /\ t = [v EXCEPT !.dead = @ \cup {p}, !.live = @ - 1]
    <3>1. w = v /\ X = {}
      BY <2>1
    <3> HIDE DEF w, X
    <3> QED
      BY <1>9, <2>1, <3>1 DEF Fields
  <2>2. CASE l.at = "param" /\ t = [UnlinkParamPosition(v, p) EXCEPT !.pdead = @ \cup {p}, !.live = @ - 1]
    <3>1. w = UnlinkParamPosition(v, p) /\ X = {p}
      BY <2>2
    <3>2. t = [w EXCEPT !.pdead = @ \cup {p}, !.live = @ - 1]
      BY <2>2, <3>1
    <3> HIDE DEF w, X
    <3> QED
      BY <1>9, <3>1, <3>2 DEF Fields
  <2> QED
    BY <1>5, <2>1, <2>2 DEF v
<1> HIDE DEF w, X
<1>11. LinksExact(t)
  BY <1>8, <1>10, SameLinks
<1>12. PositionsExact(t)
  <2>1. SameParams(s, t)
    BY <1>10 DEF SameParams
  <2>2. ParamLive(t) \subseteq ParamLive(s) \ X
    BY <1>10 DEF ParamLive
  <2> QED
    BY <1>1, <1>2, <1>9, <1>10, <2>1, <2>2, StillListed
<1>13. StoreOK(t, T) /\ CountExact(t)
  <2>1. StoreOK(t, T) /\ Slots(t) = Slots(s) /\ Cells(t) = Without(s, n)
    BY DiscardBaseOK
  <2>2. /\ MapKeys(t) = MapKeys(s) \ {KeyAt(s, LocOf(s, n))}
        /\ KeyAt(s, LocOf(s, n)) \in MapKeys(s)
    BY <2>1, WithoutKeys
  <2> QED
    BY <1>2, <1>10, <2>1, <2>2, CountsOneLess
<1> QED
  BY <1>11, <1>12, <1>13 DEF Books

\* remove keeps the books.
LEMMA DiscardBooks ==
    ASSUME NEW s, NEW T, NEW n, NEW t, StoreOK(s, T), Books(s), t = Discard(s, FreshId(n))
    PROVE  StoreOK(t, T) /\ Books(t)
<1>1. Shaped(s) /\ Exact(s)
  BY DEF StoreOK
<1>2. CASE n \in Slots(s) /\ LocOf(s, n) \in Locs(s)
  BY <1>2, DiscardOverlayBooks, DiscardBaseBooks
<1>3. CASE ~ (n \in Slots(s) /\ LocOf(s, n) \in Locs(s))
  <2>1. Resolve(s, FreshId(n)) = Vacant
    <3>1. n \in Slots(s) => LocOf(s, n) = Vacant
      BY <1>1, <1>3 DEF Exact
    <3>2. FreshId(n)[1] = n /\ DOMAIN s.arena = Slots(s)
      BY <1>1, LivePositions DEF FreshId
    <3> QED
      BY <3>1, <3>2 DEF Resolve, LocOf
  <2>2. Vacant.at = "vacant"
    BY DEF Vacant
  <2> HIDE DEF Vacant
  <2>3. t = s
    BY <2>1, <2>2 DEF Discard
  <2> QED
    BY <2>3
<1> QED
  BY <1>2, <1>3

\* A row of pairs of a target that had none is counted.
LEMMA CountsRow ==
    ASSUME NEW s, NEW t, NEW T, NEW target, NEW V, StoreOK(s, T), CountExact(s), target \notin T,
           IsFiniteSet(V), MapKeys(t) = MapKeys(s) \cup {<<target, v>> : v \in V},
           t.live = s.live + Cardinality(V)
    PROVE  CountExact(t)
<1> DEFINE K == {<<target, v>> : v \in V}
<1>1. IsFiniteSet(MapKeys(s)) /\ Cardinality(MapKeys(s)) \in Nat
  BY PlacesCount
<1>2. IsFiniteSet(K) /\ Cardinality(K) = Cardinality(V)
  <2>1. OneForOne([v \in V |-> <<target, v>>], V, K)
    BY DEF OneForOne
  <2> HIDE DEF K
  <2> QED
    BY <2>1, SameSize
<1>3. MapKeys(s) \cap K = {}
  <2>1. \A k \in MapKeys(s) : k[1] \in T
    BY KeysWithin
  <2>2. \A k \in K : k[1] = target
    OBVIOUS
  <2> QED
    BY <2>1, <2>2
<1>4. MapKeys(t) = MapKeys(s) \cup K
  OBVIOUS
<1> HIDE DEF K
<1>5. Cardinality(MapKeys(t)) = Cardinality(MapKeys(s)) + Cardinality(K)
  BY <1>1, <1>2, <1>3, <1>4, DisjointSize
<1> QED
  BY <1>2, <1>5 DEF CountExact

\* append of a constant row keeps the books.
LEMMA ConstantRowBooks ==
    ASSUME NEW s, NEW T, NEW target, NEW row, NEW t, StoreOK(s, T), Books(s),
           target \notin T,
           DOMAIN row \in SUBSET Int, IsFiniteSet(DOMAIN row),
           t = AppendConstantRow(s, target, row)
    PROVE  StoreOK(t, T \cup {target}) /\ Books(t)
<1>1. DOMAIN s = Fields
  BY DEF StoreOK, Shaped
<1>2. PositionsExact(s) /\ LinksExact(s) /\ CountExact(s)
  BY DEF Books
<1> DEFINE vs == Ascending(DOMAIN row)
<1>3. Len(vs) = Cardinality(DOMAIN row)
  BY AscendingLists
<1>4. /\ t.positions = s.positions /\ t.blocks = s.blocks /\ t.pbase = s.pbase
      /\ t.pshadowed = s.pshadowed /\ t.pdead = s.pdead /\ t.overlay = s.overlay
      /\ t.byParam = s.byParam /\ t.live = s.live + Len(vs)
  BY <1>1 DEF AppendConstantRow, Fields
<1> HIDE DEF vs
<1> DEFINE E == {}
<1> HIDE DEF E
<1>5. /\ StoreOK(t, T \cup {target})
      /\ Gathers(s, t, {<<target, v>> : v \in DOMAIN row}, E)
  BY ConstantRowOK
<1>6. MapKeys(t) = MapKeys(s) \cup {<<target, v>> : v \in DOMAIN row}
  BY <1>5 DEF Gathers
<1>7. CountExact(t)
  BY <1>2, <1>3, <1>4, <1>6, CountsRow
<1>8. LinksExact(t)
  BY <1>2, <1>4, SameLinks
<1>9. PositionsExact(t)
  BY <1>2, <1>4 DEF PositionsExact, ListedFor, BlockPositions, ParamLive
<1> QED
  BY <1>5, <1>6, <1>7, <1>8, <1>9 DEF Books

\* The position a cell of an appended row gets.
PlaceIn(s, row, v) ==
    Len(s.pbase) + CHOOSE k \in DOMAIN Ascending(DOMAIN row) : Ascending(DOMAIN row)[k] = v

\* The run of a block that claims cells of an appended row.
BlockIn(s, target, row, b) ==
    [span |-> b.span, scale |-> b.scale, target |-> target,
     cells |-> {[pos |-> PlaceIn(s, row, v), param |-> b.claims[v]] : v \in DOMAIN b.claims}]

\* The index of t has the cells of the appended row.
IndexesRow(s, t, target, row, layout) ==
    /\ t.positions = [p \in Params |-> s.positions[p] \cup
          {PlaceIn(s, row, v) : v \in {w \in Unclaimed(row, layout) : row[w].param = p}}]
    /\ t.blocks = s.blocks \cup {BlockIn(s, target, row, b) : b \in layout}

\* What appending a parametric row does to the base and what indexes it.
LEMMA ParamRowParts ==
    ASSUME NEW s, NEW target, NEW row, NEW layout, NEW t, Shaped(s),
           DOMAIN row \in SUBSET Int, IsFiniteSet(DOMAIN row),
           t = AppendParamRow(s, target, row, layout)
    PROVE  /\ IndexesRow(s, t, target, row, layout)
           /\ t.overlay = s.overlay /\ t.byParam = s.byParam
           /\ t.live = s.live + Cardinality(DOMAIN row)
           /\ \A i \in 1 .. Len(s.pbase) : i \in 1 .. Len(t.pbase) /\ t.pbase[i] = s.pbase[i]
           /\ \A v \in DOMAIN row : /\ PlaceIn(s, row, v) \in 1 .. Len(t.pbase)
                                    /\ t.pbase[PlaceIn(s, row, v)].param = row[v].param
           /\ \A i \in ParamLive(t) : i \in ParamLive(s) \/ \E v \in DOMAIN row : i = PlaceIn(s, row, v)
<1> DEFINE vs == Ascending(DOMAIN row)
           n == Len(s.pbase)
           a == Len(s.arena)
           c == Len(vs)
           cells == [k \in DOMAIN vs |->
                       [key |-> <<target, vs[k]>>, param |-> row[vs[k]].param,
                        scale |-> row[vs[k]].scale,
                        cached |-> row[vs[k]].cached, id |-> FreshId(a + k)]]
<1>1. DOMAIN s = Fields /\ IsList(s.pbase) /\ n \in Nat /\ DOMAIN s.pbase = 1 .. n
  BY ListIsSeq DEF Shaped
<1>2. /\ c \in Nat /\ DOMAIN vs = 1 .. c /\ c = Cardinality(DOMAIN row)
      /\ \A k \in 1 .. c : vs[k] \in DOMAIN row
      /\ \A k, m \in 1 .. c : vs[k] = vs[m] => k = m
      /\ \A v \in DOMAIN row : \E k \in 1 .. c : vs[k] = v
  <2>1. /\ IsList(vs) /\ c = Cardinality(DOMAIN row) /\ c \in Nat
        /\ \A k \in 1 .. c : vs[k] \in DOMAIN row
        /\ \A k, m \in 1 .. c : vs[k] = vs[m] => k = m
        /\ \A v \in DOMAIN row : \E k \in 1 .. c : vs[k] = v
    BY AscendingLists
  <2> HIDE DEF vs
  <2>2. DOMAIN vs = 1 .. c
    BY <2>1, ListIsSeq
  <2> QED
    BY <2>1, <2>2
<1>3. t.positions = [p \in Params |-> s.positions[p] \cup
         {PlaceIn(s, row, v) : v \in {w \in Unclaimed(row, layout) : row[w].param = p}}]
  BY <1>1 DEF AppendParamRow, PlaceIn, Fields
<1>4. t.blocks = s.blocks \cup {BlockIn(s, target, row, b) : b \in layout}
  BY <1>1 DEF AppendParamRow, PlaceIn, BlockIn, Fields
<1>5. /\ t.overlay = s.overlay /\ t.byParam = s.byParam /\ t.live = s.live + c
      /\ t.pshadowed = s.pshadowed /\ t.pdead = s.pdead
  BY <1>1 DEF AppendParamRow, Fields
<1>6. t.pbase = Joined(s.pbase, cells)
  BY <1>1 DEF AppendParamRow, Fields, Joined
<1>7. \A v \in DOMAIN row : \E k \in 1 .. c : PlaceIn(s, row, v) = n + k /\ vs[k] = v
  BY <1>2 DEF PlaceIn
<1> HIDE DEF vs, c
<1>8. /\ IsList(cells) /\ Len(cells) = c
      /\ \A k \in 1 .. c : cells[k].param = row[vs[k]].param
  <2>1. DOMAIN cells = 1 .. c /\ cells = [k \in 1 .. c |-> cells[k]]
    BY <1>2
  <2>2. \A k \in 1 .. c : cells[k].param = row[vs[k]].param
    BY <1>2
  <2> HIDE DEF cells
  <2> QED
    BY <1>2, <2>1, <2>2, ListOfFunction
<1> HIDE DEF cells, n
<1>9. /\ IsList(t.pbase) /\ Len(t.pbase) = n + c
      /\ \A i \in 1 .. n : t.pbase[i] = s.pbase[i]
      /\ \A k \in 1 .. c : t.pbase[n + k] = cells[k]
      /\ \A i \in 1 .. Len(t.pbase) : i \in 1 .. n \/ \E k \in 1 .. c : i = n + k
  <2>1. IsList(ParamBaseOf(s)) /\ IsList(cells) /\ ParamBaseOf(t) = Joined(ParamBaseOf(s), cells)
    BY <1>1, <1>6, <1>8 DEF ParamBaseOf
  <2>2. /\ IsList(ParamBaseOf(t)) /\ Len(ParamBaseOf(t)) = Len(ParamBaseOf(s)) + Len(cells)
        /\ \A i \in 1 .. Len(ParamBaseOf(s)) : ParamBaseOf(t)[i] = ParamBaseOf(s)[i]
        /\ \A i \in 1 .. Len(cells) : ParamBaseOf(t)[Len(ParamBaseOf(s)) + i] = cells[i]
        /\ \A i \in 1 .. Len(ParamBaseOf(t)) :
              i \in 1 .. Len(ParamBaseOf(s)) \/ \E k \in 1 .. Len(cells) : i = Len(ParamBaseOf(s)) + k
    BY <2>1, ListJoin
  <2> QED
    BY <1>8, <2>2 DEF ParamBaseOf, n
<1>10. \A i \in 1 .. n : i \in 1 .. Len(t.pbase)
  BY <1>1, <1>2, <1>9
<1>11. ASSUME NEW v \in DOMAIN row
       PROVE  /\ PlaceIn(s, row, v) \in 1 .. Len(t.pbase)
              /\ t.pbase[PlaceIn(s, row, v)].param = row[v].param
  <2>1. PICK k \in 1 .. c : PlaceIn(s, row, v) = n + k /\ vs[k] = v
    BY <1>7
  <2>2. n + k \in 1 .. Len(t.pbase)
    BY <1>1, <1>2, <1>9
  <2> QED
    BY <1>8, <1>9, <2>1, <2>2
<1>12. ASSUME NEW i \in ParamLive(t)
       PROVE  i \in ParamLive(s) \/ \E v \in DOMAIN row : i = PlaceIn(s, row, v)
  <2>1. i \in 1 .. Len(t.pbase) /\ i \notin s.pdead \cup s.pshadowed
    BY <1>5, <1>9, ListIsSeq DEF ParamLive
  <2>2. CASE i \in 1 .. n
    BY <1>1, <2>1, <2>2 DEF ParamLive
  <2>3. CASE \E k \in 1 .. c : i = n + k
    <3>1. PICK k \in 1 .. c : i = n + k
      BY <2>3
    <3>2. PICK m \in 1 .. c : PlaceIn(s, row, vs[k]) = n + m /\ vs[m] = vs[k]
      BY <1>2, <1>7
    <3>3. m = k
      BY <1>2, <3>2
    <3> QED
      BY <1>2, <3>1, <3>2, <3>3
  <2> QED
    BY <1>9, <2>1, <2>2, <2>3
<1>13. IndexesRow(s, t, target, row, layout)
  BY <1>3, <1>4 DEF IndexesRow
<1> QED
  BY <1>2, <1>5, <1>9, <1>10, <1>11, <1>12, <1>13 DEF n

\* A new cell is listed once for its parameter, by its block or on its own.
LEMMA ParamRowListed ==
    ASSUME NEW s, NEW target, NEW row, NEW layout, NEW t, ValidBlocks(row, layout),
           IndexesRow(s, t, target, row, layout), NEW p \in Params
    PROVE  ListedFor(t, p) = ListedFor(s, p) \cup
                                {PlaceIn(s, row, v) : v \in {w \in DOMAIN row : row[w].param = p}}
<1> DEFINE P(v) == PlaceIn(s, row, v)
           claimed == UNION {DOMAIN b.claims : b \in layout}
<1>1. \A i : i \in t.positions[p] <=>
               i \in s.positions[p] \/ \E v \in DOMAIN row : v \notin claimed /\ row[v].param = p /\ i = P(v)
  BY DEF Unclaimed, IndexesRow
<1>2. \A r, i : i \in BlockPositions(r, p) <=>
               \E b \in r.blocks : p \in b.span /\ \E c \in b.cells : c.param = p /\ i = c.pos
  BY DEF BlockPositions
<1>3. ASSUME NEW i, NEW b \in layout
      PROVE  (p \in BlockIn(s, target, row, b).span
                /\ \E c \in BlockIn(s, target, row, b).cells : c.param = p /\ i = c.pos)
                <=> p \in b.span /\ \E v \in DOMAIN b.claims : b.claims[v] = p /\ i = P(v)
  <2> DEFINE r(v) == [pos |-> P(v), param |-> b.claims[v]]
             q == BlockIn(s, target, row, b)
  <2>1. q.span = b.span /\ q.cells = {r(v) : v \in DOMAIN b.claims}
    BY DEF BlockIn
  <2>2. \A v : r(v).param = b.claims[v] /\ r(v).pos = P(v)
    OBVIOUS
  <2> HIDE DEF r, q, P
  <2>3. (\E c \in q.cells : c.param = p /\ i = c.pos)
           <=> \E v \in DOMAIN b.claims : b.claims[v] = p /\ i = P(v)
    BY <2>1, <2>2
  <2> QED
    BY <2>1, <2>3 DEF q
<1>4. \A i : i \in BlockPositions(t, p) <=>
               \/ i \in BlockPositions(s, p)
               \/ \E b \in layout : p \in b.span /\ \E v \in DOMAIN b.claims : b.claims[v] = p /\ i = P(v)
  <2>1. \A i : i \in BlockPositions(t, p) <=>
                 \/ \E b \in s.blocks : p \in b.span /\ \E c \in b.cells : c.param = p /\ i = c.pos
                 \/ \E b \in layout : /\ p \in BlockIn(s, target, row, b).span
                                      /\ \E c \in BlockIn(s, target, row, b).cells : c.param = p /\ i = c.pos
    <3> HIDE DEF P
    <3>1. t.blocks = s.blocks \cup {BlockIn(s, target, row, b) : b \in layout}
      BY DEF IndexesRow
    <3> QED
      BY <1>2, <3>1
  <2> QED
    BY <1>2, <1>3, <2>1
<1>5. \A b \in layout : \A v \in DOMAIN b.claims :
         v \in DOMAIN row /\ b.claims[v] \in b.span /\ row[v].param = b.claims[v]
  BY DEF ValidBlocks
<1>6. \A v : v \in claimed <=> \E b \in layout : v \in DOMAIN b.claims
  OBVIOUS
<1> HIDE DEF P, claimed
<1>7. \A i : (\E b \in layout : p \in b.span /\ \E v \in DOMAIN b.claims : b.claims[v] = p /\ i = P(v))
               <=> \E v \in DOMAIN row : v \in claimed /\ row[v].param = p /\ i = P(v)
  BY <1>5, <1>6
<1>8. \A i : i \in ListedFor(t, p) <=>
               i \in ListedFor(s, p) \/ \E v \in DOMAIN row : row[v].param = p /\ i = P(v)
  BY <1>1, <1>4, <1>7 DEF ListedFor
<1> QED
  BY <1>8 DEF P

\* append of a parametric row keeps the books.
LEMMA ParamRowBooks ==
    ASSUME NEW s, NEW T, NEW U, NEW target, NEW row, NEW layout, NEW t, StoreOK(s, T), Books(s),
           target \notin T, U = T \cup {target}, DOMAIN row \in SUBSET Int, IsFiniteSet(DOMAIN row),
           ValidBlocks(row, layout), t = AppendParamRow(s, target, row, layout)
    PROVE  StoreOK(t, U) /\ Books(t)
<1>1. Shaped(s)
  BY DEF StoreOK
<1>2. PositionsExact(s) /\ LinksExact(s) /\ CountExact(s)
  BY DEF Books
<1>3. /\ IndexesRow(s, t, target, row, layout)
      /\ t.overlay = s.overlay /\ t.byParam = s.byParam
      /\ t.live = s.live + Cardinality(DOMAIN row)
      /\ \A i \in 1 .. Len(s.pbase) : i \in 1 .. Len(t.pbase) /\ t.pbase[i] = s.pbase[i]
      /\ \A v \in DOMAIN row : /\ PlaceIn(s, row, v) \in 1 .. Len(t.pbase)
                               /\ t.pbase[PlaceIn(s, row, v)].param = row[v].param
      /\ \A i \in ParamLive(t) : i \in ParamLive(s) \/ \E v \in DOMAIN row : i = PlaceIn(s, row, v)
  BY <1>1, ParamRowParts
<1>4. ASSUME NEW p \in Params
      PROVE  ListedFor(t, p) = ListedFor(s, p) \cup
                {PlaceIn(s, row, v) : v \in {w \in DOMAIN row : row[w].param = p}}
  BY <1>3, ParamRowListed
<1>5. PositionsExact(t)
  <2>1. DOMAIN t.positions = Params
    BY <1>3 DEF IndexesRow
  <2>2. ASSUME NEW p \in Params, NEW i \in ListedFor(t, p)
        PROVE  i \in 1 .. Len(t.pbase) /\ t.pbase[i].param = p
    <3>1. CASE i \in ListedFor(s, p)
      BY <1>2, <1>3, <3>1 DEF PositionsExact
    <3>2. CASE \E v \in DOMAIN row : row[v].param = p /\ i = PlaceIn(s, row, v)
      BY <1>3, <3>2
    <3> QED
      BY <1>4, <2>2, <3>1, <3>2
  <2>3. ASSUME NEW p \in Params, NEW i \in ParamLive(t), t.pbase[i].param = p
        PROVE  i \in ListedFor(t, p)
    <3>1. CASE i \in ParamLive(s)
      <4>1. i \in 1 .. Len(s.pbase)
        BY <1>1, <3>1, LivePositions
      <4> QED
        BY <1>2, <1>3, <1>4, <2>3, <3>1, <4>1 DEF PositionsExact
    <3>2. CASE \E v \in DOMAIN row : i = PlaceIn(s, row, v)
      BY <1>3, <1>4, <2>3, <3>2
    <3> QED
      BY <1>3, <3>1, <3>2
  <2> QED
    BY <2>1, <2>2, <2>3 DEF PositionsExact
<1> DEFINE E == {}
<1> HIDE DEF E
<1>6. /\ StoreOK(t, T \cup {target})
      /\ Gathers(s, t, {<<target, v>> : v \in DOMAIN row}, E)
  BY ParamRowOK
<1>7. MapKeys(t) = MapKeys(s) \cup {<<target, v>> : v \in DOMAIN row}
  BY <1>6 DEF Gathers
<1>8. CountExact(t)
  BY <1>2, <1>3, <1>7, CountsRow
<1>9. LinksExact(t)
  BY <1>2, <1>3, SameLinks
<1> QED
  BY <1>5, <1>6, <1>7, <1>8, <1>9 DEF Books

\* Terms added one after the other keep the books.
LEMMA AddTermsBooks ==
    ASSUME NEW s, NEW T, NEW target \in T, NEW exprs, NEW t, StoreOK(s, T), Books(s),
           DOMAIN exprs \in SUBSET Int, IsFiniteSet(DOMAIN exprs),
           t = AddTerms(s, target, exprs)
    PROVE  StoreOK(t, T) /\ Books(t) /\ MapKeys(t) = MapKeys(s) \cup {<<target, v>> : v \in DOMAIN exprs}
<1> DEFINE vs == Ascending(DOMAIN exprs)
           n == Len(vs)
           at(k) == Adding(s, target, exprs)[k]
           Upto(k) == {<<target, vs[i]>> : i \in 1 .. k}
           Good(k) == StoreOK(at(k), T) /\ Books(at(k)) /\ MapKeys(at(k)) = MapKeys(s) \cup Upto(k)
           bad == {k \in 0 .. n : ~ Good(k)}
<1>1. /\ n \in Nat /\ \A k \in 1 .. n : vs[k] \in DOMAIN exprs
      /\ \A v \in DOMAIN exprs : \E k \in 1 .. n : vs[k] = v
  BY AscendingLists
<1>2. \A k \in 0 .. n : at(k) = IF k = 0 THEN s ELSE AddTerm(at(k - 1), target, vs[k], exprs[vs[k]])
  BY <1>1, AddingUnfolds
<1>3. t = at(n)
  BY DEF AddTerms
<1> HIDE DEF vs, n, at
<1>4. Good(0)
  <2>1. at(0) = s /\ Upto(0) = {}
    BY <1>1, <1>2
  <2> QED
    BY <2>1
<1>5. ASSUME NEW k \in 1 .. n, Good(k - 1)
      PROVE  Good(k)
  <2>1. at(k) = AddTerm(at(k - 1), target, vs[k], exprs[vs[k]])
    BY <1>1, <1>2
  <2>2. k \in Nat /\ k - 1 \in Nat /\ k <= n
    BY <1>1
  <2> DEFINE key == <<target, vs[k]>>
             old == at(k - 1)
             now == at(k)
             value == Eval(exprs[vs[k]], params)
             expr == exprs[vs[k]]
  <2>3. now = Add(old, key, expr, value)
    BY <2>1 DEF AddTerm
  <2>4. StoreOK(old, T) /\ Books(old) /\ key[1] \in T
    BY <1>5
  <2>5. MapKeys(old) = MapKeys(s) \cup Upto(k - 1)
    BY <1>5
  <2>6. Upto(k) = Upto(k - 1) \cup {key}
    BY <2>2
  <2> HIDE DEF key, old, now, value, expr, Upto
  <2>7. StoreOK(now, T) /\ Books(now) /\ MapKeys(now) = MapKeys(old) \cup {key}
    BY <2>3, <2>4, AddBooks
  <2>8. MapKeys(now) = MapKeys(s) \cup Upto(k)
    BY <2>5, <2>6, <2>7
  <2> QED
    BY <2>7, <2>8 DEF now
<1> HIDE DEF Good
<1>6. bad = {}
  <2> SUFFICES ASSUME bad # {} PROVE FALSE
    OBVIOUS
  <2>1. bad \in SUBSET Nat
    BY <1>1
  <2>2. PICK k \in bad : \A m \in bad : k <= m
    BY <2>1, LeastNumber
  <2>3. k \in 0 .. n /\ ~ Good(k) /\ k # 0
    BY <1>4
  <2>4. k \in 1 .. n /\ k - 1 \in 0 .. n /\ ~ (k <= k - 1)
    BY <1>1, <2>3
  <2>5. Good(k - 1)
    BY <2>2, <2>4
  <2> QED
    BY <1>5, <2>3, <2>4, <2>5
<1>7. Good(n)
  BY <1>1, <1>6
<1>8. Upto(n) = {<<target, v>> : v \in DOMAIN exprs}
  BY <1>1
<1> QED
  BY <1>3, <1>7, <1>8 DEF Good

\* Removals keep the books.
LEMMA RemoveAllBooks ==
    ASSUME NEW s, NEW T, NEW ids, NEW t, StoreOK(s, T), Books(s), IsList(ids),
           \A k \in 1 .. Len(ids) : \E n : ids[k] = FreshId(n),
           t = RemoveAll(s, ids)
    PROVE  StoreOK(t, T) /\ Books(t)
<1> DEFINE n == Len(ids)
           at(k) == Removing(s, ids)[k]
           Good(k) == StoreOK(at(k), T) /\ Books(at(k))
           bad == {k \in 0 .. n : ~ Good(k)}
<1>2. n \in Nat
  BY DEF IsList
<1>3. \A k \in 0 .. n : at(k) = IF k = 0 THEN s ELSE Discard(at(k - 1), ids[k])
  BY <1>2, RemovingUnfolds
<1>4. t = at(n)
  BY DEF RemoveAll
<1>1. \A k \in 1 .. n : \E i : ids[k] = FreshId(i)
  OBVIOUS
<1> HIDE DEF n, at
<1>5. Good(0)
  BY <1>2, <1>3
<1>6. ASSUME NEW k \in 1 .. n, Good(k - 1)
      PROVE  Good(k)
  <2>1. at(k) = Discard(at(k - 1), ids[k])
    BY <1>2, <1>3
  <2>2. PICK i : ids[k] = FreshId(i)
    BY <1>1
  <2> DEFINE old == at(k - 1)
             now == at(k)
  <2>3. now = Discard(old, FreshId(i)) /\ StoreOK(old, T) /\ Books(old)
    BY <1>6, <2>1, <2>2
  <2> HIDE DEF old, now
  <2>4. StoreOK(now, T) /\ Books(now)
    BY <2>3, DiscardBooks
  <2> QED
    BY <2>4 DEF now
<1> HIDE DEF Good
<1>7. bad = {}
  <2> SUFFICES ASSUME bad # {} PROVE FALSE
    OBVIOUS
  <2>1. bad \in SUBSET Nat
    BY <1>2
  <2>2. PICK k \in bad : \A m \in bad : k <= m
    BY <2>1, LeastNumber
  <2>3. k \in 0 .. n /\ ~ Good(k) /\ k # 0
    BY <1>5
  <2>4. k \in 1 .. n /\ k - 1 \in 0 .. n /\ ~ (k <= k - 1)
    BY <1>2, <2>3
  <2>5. Good(k - 1)
    BY <2>2, <2>4
  <2> QED
    BY <1>6, <2>3, <2>4, <2>5
<1>8. Good(n)
  BY <1>2, <1>7
<1> QED
  BY <1>4, <1>8 DEF Good

\* A step that keeps the expressions, and what indexes them.
Reindexes(s, t) ==
    /\ SameExpressions(s, t) /\ SameCells(s, t)
    /\ t.positions = s.positions /\ t.blocks = s.blocks /\ t.byParam = s.byParam
    /\ t.live = s.live

\* Such a step keeps the books.
LEMMA SameExpressionsBooks ==
    ASSUME NEW s, NEW t, Shaped(s), Books(s), Reindexes(s, t)
    PROVE  Books(t)
<1> USE DEF Reindexes
<1>1. /\ IsList(s.overlay) /\ IsList(t.overlay) /\ Len(t.overlay) = Len(s.overlay)
      /\ IsList(s.pbase) /\ IsList(t.pbase) /\ Len(t.pbase) = Len(s.pbase)
      /\ \A i \in 1 .. Len(s.overlay) : /\ t.overlay[i].tombstone = s.overlay[i].tombstone
                                        /\ t.overlay[i].data.expr = s.overlay[i].data.expr
      /\ \A i \in 1 .. Len(s.pbase) : t.pbase[i].param = s.pbase[i].param
      /\ t.pdead = s.pdead /\ t.pshadowed = s.pshadowed
  BY DEF SameExpressions, SameSkeletons, Shaped
<1>2. /\ DOMAIN s.overlay = 1 .. Len(s.overlay) /\ DOMAIN t.overlay = 1 .. Len(s.overlay)
      /\ DOMAIN s.pbase = 1 .. Len(s.pbase) /\ DOMAIN t.pbase = 1 .. Len(s.pbase)
  BY <1>1, ListIsSeq
<1>3. ParamLive(t) = ParamLive(s) /\ OverlayLive(t) = OverlayLive(s)
  BY <1>1, <1>2 DEF ParamLive, OverlayLive
<1>4. \A p : OverlayFor(t, p) = OverlayFor(s, p)
  BY <1>1, <1>2, <1>3 DEF OverlayFor, OverlayLive
<1>5. LinksExact(t)
  BY <1>4 DEF Books, LinksExact
<1>6. PositionsExact(t)
  BY <1>1, <1>2, <1>3 DEF Books, PositionsExact, ListedFor, BlockPositions, ParamLive
<1>7. CountExact(t)
  BY DEF Books, CountExact, MapKeys, SameCells
<1> QED
  BY <1>5, <1>6, <1>7 DEF Books

\* Values propagated through the base and through the overlay keep the books.
LEMMA RefreshBooks ==
    ASSUME NEW s, NEW T, NEW moved, NEW values, NEW t, StoreOK(s, T), Books(s),
           t = Refresh(s, moved, values)
    PROVE  StoreOK(t, T) /\ Books(t)
<1>1. StoreOK(t, T) /\ SameCells(s, t) /\ SameExpressions(s, t)
  BY RefreshOK
<1>2. t.positions = s.positions /\ t.blocks = s.blocks /\ t.byParam = s.byParam /\ t.live = s.live
  BY DEF StoreOK, Shaped, Fields, Refresh
<1> QED
  BY <1>1, <1>2, SameExpressionsBooks DEF Reindexes, StoreOK

\* Refreshing overlay cells keeps the books.
LEMMA SetCachedValueBooks ==
    ASSUME NEW s, NEW T, NEW ids, NEW values, NEW t, StoreOK(s, T), Books(s),
           t = SetCachedValue(s, ids, values)
    PROVE  StoreOK(t, T) /\ Books(t)
<1>1. StoreOK(t, T) /\ SameCells(s, t) /\ SameExpressions(s, t)
  BY SetCachedValueOK
<1>2. t.positions = s.positions /\ t.blocks = s.blocks /\ t.byParam = s.byParam /\ t.live = s.live
  BY DEF StoreOK, Shaped, Fields, SetCachedValue
<1> QED
  BY <1>1, <1>2, SameExpressionsBooks DEF Reindexes, StoreOK

\* A block of values is applied.
LEMMA BlockBooks ==
    ASSUME NEW d, NEW T, NEW values, NEW e, DOMAIN d = DraftParts, StoreOK(d.store, T),
           Books(d.store), e = ApplyParameterBlock(d, values)
    PROVE  DOMAIN e = DraftParts /\ StoreOK(e.store, T) /\ Books(e.store)
<1> DEFINE span == DOMAIN values
           now == [p \in Params |-> IF p \in span THEN values[p] ELSE d.params[p]]
           changed == {p \in span : Differs(d.params[p], values[p])}
           ids == UNION {OverlayMoved(d.store, p, now) : p \in span}
           over == RefreshOverlay(d.store, span, now)
           first == SetCachedValue(d.store, ids, now)
           moved == Moved(d.store, SpanPositions(d.store, span)
                                     \cup IndexedPositions(d.store, span), now)
           after == Refresh(over.store, moved, now)
           patches == {CellOf(ParamData(after, i)) : i \in moved}
           ops == d.ops \o Logged(over.cells, SetCells(over.cells))
                        \o <<SetParams([p \in changed |-> values[p]])>>
                        \o Logged(patches, PatchCells(patches))
           quiet == [d EXCEPT !.params = now]
           loud == [store |-> after, params |-> now, ops |-> ops]
<1>1. e = IF changed = {} THEN quiet ELSE loud
  BY DEF ApplyParameterBlock
<1>2. over.store = first
  BY DEF RefreshOverlay
<1> HIDE DEF over, moved, ids, now, changed, ops
<1>3. StoreOK(first, T) /\ Books(first)
  BY SetCachedValueBooks
<1>4. StoreOK(over.store, T) /\ Books(over.store)
  BY <1>2, <1>3
<1>5. StoreOK(after, T) /\ Books(after)
  BY <1>4, RefreshBooks
<1>8. DOMAIN quiet = DraftParts /\ quiet.store = d.store
  BY DEF DraftParts
<1>9. DOMAIN loud = DraftParts /\ loud.store = after
  BY DEF DraftParts
<1> HIDE DEF quiet, loud, after
<1> QED
  BY <1>1, <1>5, <1>8, <1>9

\* One value is applied.
LEMMA ChangeBooks ==
    ASSUME NEW d, NEW T, NEW p, NEW value, NEW e, DOMAIN d = DraftParts, StoreOK(d.store, T),
           Books(d.store), e = ApplyParameterChange(d, p, value)
    PROVE  DOMAIN e = DraftParts /\ StoreOK(e.store, T) /\ Books(e.store)
<1> DEFINE now == [d.params EXCEPT ![p] = value]
           ids == UNION {OverlayMoved(d.store, q, now) : q \in {p}}
           over == RefreshOverlay(d.store, {p}, now)
           first == SetCachedValue(d.store, ids, now)
           moved == Moved(d.store, d.store.positions[p] \cup BlockPositions(d.store, p), now)
           after == Refresh(over.store, moved, now)
           cells == over.cells \cup {CellOf(ParamData(after, i)) : i \in moved}
           ops == d.ops \o <<SetParams([q \in {p} |-> value])>> \o Logged(cells, SetCells(cells))
           quiet == [d EXCEPT !.params = now]
           loud == [store |-> after, params |-> now, ops |-> ops]
<1>1. e = IF ~ Differs(d.params[p], value) THEN quiet ELSE loud
  BY DEF ApplyParameterChange
<1>2. over.store = first
  BY DEF RefreshOverlay
<1> HIDE DEF over, moved, ids, now, ops
<1>3. StoreOK(first, T) /\ Books(first)
  BY SetCachedValueBooks
<1>4. StoreOK(over.store, T) /\ Books(over.store)
  BY <1>2, <1>3
<1>5. StoreOK(after, T) /\ Books(after)
  BY <1>4, RefreshBooks
<1>8. DOMAIN quiet = DraftParts /\ quiet.store = d.store
  BY DEF DraftParts
<1>9. DOMAIN loud = DraftParts /\ loud.store = after
  BY DEF DraftParts
<1> HIDE DEF quiet, loud, after
<1> QED
  BY <1>1, <1>5, <1>8, <1>9

\* All queued values are applied.
LEMMA ApplyingBooks ==
    ASSUME NEW T, NEW order, Len(blocks) \in Nat, Len(order) \in Nat, StoreOK(store, T), Books(store)
    PROVE  Books(Applying(order)[Len(blocks) + Len(order)].store)
<1> DEFINE n == Len(blocks) + Len(order)
           at(k) == Applying(order)[k]
           Good(d) == DOMAIN d = DraftParts /\ StoreOK(d.store, T) /\ Books(d.store)
           bad == {k \in 0 .. n : ~ Good(at(k))}
<1>1. n \in Nat
  OBVIOUS
<1>2. /\ at(0) = Draft
      /\ \A k \in 1 .. n :
           \/ at(k) = ApplyParameterBlock(at(k - 1), blocks[k])
           \/ at(k) = ApplyParameterChange(at(k - 1), order[k - Len(blocks)],
                                           pending[order[k - Len(blocks)]])
  BY ApplyingUnfolds
<1> HIDE DEF n, at
<1>3. Good(at(0))
  BY <1>2 DEF Draft, DraftParts
<1>4. ASSUME NEW k \in 1 .. n, Good(at(k - 1))
      PROVE  Good(at(k))
  <2> DEFINE d == at(k - 1)
             e == at(k)
  <2>1. DOMAIN d = DraftParts /\ StoreOK(d.store, T) /\ Books(d.store)
    BY <1>4
  <2>2. \/ e = ApplyParameterBlock(d, blocks[k])
        \/ e = ApplyParameterChange(d, order[k - Len(blocks)], pending[order[k - Len(blocks)]])
    BY <1>2
  <2> HIDE DEF d, e
  <2>3. DOMAIN e = DraftParts /\ StoreOK(e.store, T) /\ Books(e.store)
    <3>1. CASE e = ApplyParameterBlock(d, blocks[k])
      BY <2>1, <3>1, BlockBooks
    <3>2. CASE e = ApplyParameterChange(d, order[k - Len(blocks)], pending[order[k - Len(blocks)]])
      BY <2>1, <3>2, ChangeBooks
    <3> QED
      BY <2>2, <3>1, <3>2
  <2> QED
    BY <2>3 DEF e
<1> HIDE DEF Good
<1>5. bad = {}
  <2> SUFFICES ASSUME bad # {} PROVE FALSE
    OBVIOUS
  <2>1. bad \in SUBSET Nat
    BY <1>1
  <2>2. PICK k \in bad : \A m \in bad : k <= m
    BY <2>1, LeastNumber
  <2>3. k \in 0 .. n /\ ~ Good(at(k)) /\ k # 0
    BY <1>3
  <2>4. k \in 1 .. n /\ k - 1 \in 0 .. n /\ ~ (k <= k - 1)
    BY <1>1, <2>3
  <2>5. Good(at(k - 1))
    BY <2>2, <2>4
  <2> QED
    BY <1>4, <2>3, <2>4, <2>5
<1>6. Good(at(n))
  BY <1>1, <1>5
<1> QED
  BY <1>6 DEF Good, at, n

-----------------------------------------------------------------------------
(* The books of every reachable store are right                                *)

BooksInv == StoreInv /\ Books(store)

\* Rows of variables are finite.
LEMMA RowFinite ==
    ASSUME NEW row, DOMAIN row \subseteq Vars
    PROVE  DOMAIN row \in SUBSET Int /\ IsFiniteSet(DOMAIN row)
<1> DEFINE D == DOMAIN row
<1>1. D \in SUBSET Vars /\ IsFiniteSet(Vars) /\ Vars \subseteq Nat
    BY VarsAssumption
<1> HIDE DEF D
<1>2. IsFiniteSet(D)
    BY <1>1, FS_Subset
<1>3. D \in SUBSET Int
    BY <1>1
<1> QED BY <1>2, <1>3 DEF D

\* Nothing is counted in an empty store.
LEMMA BooksInit ==
    ASSUME Init
    PROVE  BooksInv
<1> DEFINE s == EmptyStore
<1>1. StoreInv /\ store = s
    BY StoreInvInit DEF Init
<1>2. /\ s.positions = [p \in Params |-> {}] /\ s.byParam = [p \in Params |-> {}]
      /\ s.blocks = {} /\ s.live = 0 /\ s.pbase = <<>> /\ s.overlay = <<>>
      /\ PackedLive(s) = {} /\ ParamLive(s) = {} /\ OverlayLive(s) = {}
    BY DEF EmptyStore, PackedLive, ParamLive, OverlayLive
<1> HIDE DEF s
<1>3. MapKeys(s) = {}
    BY <1>2 DEF MapKeys, Cells, Locs
<1>4. CountExact(s)
    BY <1>2, <1>3, FS_EmptySet DEF CountExact
<1>5. \A p \in Params : ListedFor(s, p) = {}
    BY <1>2 DEF ListedFor, BlockPositions
<1>6. PositionsExact(s)
    BY <1>2, <1>5 DEF PositionsExact
<1>7. LinksExact(s)
    BY <1>2 DEF LinksExact, OverlayFor
<1> QED BY <1>1, <1>4, <1>6, <1>7 DEF BooksInv, Books

\* The index by variable is not of the books.
LEMMA IndexBooks ==
    ASSUME NEW s, NEW T, NEW t, StoreOK(s, T), Counted(s), Books(s), t = EnsureVarIndex(s)
    PROVE  StoreOK(t, T) /\ Books(t)
<1>1. StoreOK(t, T) /\ Cells(t) = Cells(s)
    BY IndexBuilt
<1>2. /\ t.positions = s.positions /\ t.blocks = s.blocks /\ t.pbase = s.pbase
      /\ t.pshadowed = s.pshadowed /\ t.pdead = s.pdead
      /\ t.overlay = s.overlay /\ t.byParam = s.byParam /\ t.live = s.live
    BY DEF EnsureVarIndex, StoreOK, Shaped, Fields
<1>3. \A p \in Params : ListedFor(t, p) = ListedFor(s, p)
    BY <1>2 DEF ListedFor, BlockPositions
<1>4. ParamLive(t) = ParamLive(s) /\ OverlayLive(t) = OverlayLive(s)
    BY <1>2 DEF ParamLive, OverlayLive
<1>5. PositionsExact(t)
    BY <1>2, <1>3, <1>4 DEF Books, PositionsExact
<1>6. LinksExact(t)
    BY <1>2, <1>4 DEF Books, LinksExact, OverlayFor
<1>7. CountExact(t)
    BY <1>1, <1>2 DEF Books, CountExact, MapKeys
<1> QED BY <1>1, <1>5, <1>6, <1>7 DEF Books

\* A row of constants keeps the books, in the terms of the actions.
LEMMA ConstantRowKeeps ==
    ASSUME NEW s, NEW T, NEW U, NEW target, NEW row, NEW t, StoreOK(s, T), Books(s),
           target \notin T, U = T \cup {target}, DOMAIN row \subseteq Vars,
           t = AppendConstantRow(s, target, row)
    PROVE  StoreOK(t, U) /\ Books(t)
<1>1. DOMAIN row \in SUBSET Int /\ IsFiniteSet(DOMAIN row)
    BY RowFinite
<1> QED BY <1>1, ConstantRowBooks

\* The same of a parametric row, whose blocks claim cells of it once.
LEMMA ParamRowKeeps ==
    ASSUME NEW s, NEW T, NEW U, NEW target, NEW row, NEW layout, NEW t, StoreOK(s, T), Books(s),
           target \notin T, U = T \cup {target}, DOMAIN row \subseteq Vars,
           ValidBlocks(row, layout), t = AppendParamRow(s, target, row, layout)
    PROVE  StoreOK(t, U) /\ Books(t)
<1>1. DOMAIN row \in SUBSET Int /\ IsFiniteSet(DOMAIN row)
    BY RowFinite
<1> QED BY <1>1, ParamRowBooks

\* A row of constants.
LEMMA AddLinearRowsBulkBooks ==
    ASSUME BooksInv, NEW t, NEW terms, AddLinearRowsBulk(t, terms)
    PROVE  Books(store')
<1> DEFINE row == CanonicalRow(terms)
<1>1. /\ Create(t) /\ vars' = vars /\ KeepQueue /\ TermVars(terms) \subseteq vars
      /\ store' = AppendConstantRow(store, t, row)
    BY DEF AddLinearRowsBulk
<1>2. t \notin born /\ born' = born \cup {t} /\ InOrder(store, born)
    BY <1>1, Creates DEF BooksInv
<1>3. DOMAIN row \subseteq Vars
    BY <1>1, RowVars DEF BooksInv, StoreInv
<1> HIDE DEF row
<1>4. StoreOK(store, born) /\ Books(store)
    BY <1>2 DEF InOrder, BooksInv
<1>5. StoreOK(store', born') /\ Books(store')
    BY <1>1, <1>2, <1>3, <1>4, ConstantRowKeeps
<1> QED BY <1>5

\* A parametric row.
LEMMA AddLinearRowsParamBulkBooks ==
    ASSUME BooksInv, NEW t, NEW terms, NEW layout, AddLinearRowsParamBulk(t, terms, layout)
    PROVE  Books(store')
<1> DEFINE row == CanonicalParamRow(terms)
<1>1. /\ Create(t) /\ vars' = vars /\ KeepQueue /\ TermVars(terms) \subseteq vars
      /\ ValidBlocks(row, layout) /\ store' = AppendParamRow(store, t, row, layout)
    BY DEF AddLinearRowsParamBulk
<1>2. t \notin born /\ born' = born \cup {t} /\ InOrder(store, born)
    BY <1>1, Creates DEF BooksInv
<1>3. DOMAIN row \subseteq Vars
    BY <1>1, RowVars DEF BooksInv, StoreInv
<1> HIDE DEF row
<1>4. StoreOK(store, born) /\ Books(store)
    BY <1>2 DEF InOrder, BooksInv
<1>5. StoreOK(store', born') /\ Books(store')
    BY <1>1, <1>2, <1>3, <1>4, ParamRowKeeps
<1> QED BY <1>5

\* Objectives, packed or term by term.
LEMMA SetLinearObjectiveBulkBooks ==
    ASSUME BooksInv, NEW t, NEW terms \in LinearInputs, SetLinearObjectiveBulk(t, terms)
    PROVE  Books(store')
<1> DEFINE row == CanonicalRow(terms)
<1>1. /\ Create(t) /\ vars' = vars /\ KeepQueue /\ TermVars(terms) \subseteq vars
      /\ \/ store' = AddTerms(store, t, Constants(row))
         \/ store' = AppendConstantRow(store, t, row)
    BY DEF SetLinearObjectiveBulk, Constants
<1>2. /\ t \notin born /\ born' = born \cup {t} /\ InOrder(store, born)
      /\ t \in born' /\ born \subseteq born'
    BY <1>1, Creates DEF BooksInv
<1>3. DOMAIN row \subseteq Vars
    BY <1>1, RowVars DEF BooksInv, StoreInv
<1> HIDE DEF row
<1>4. DOMAIN row \in SUBSET Int /\ IsFiniteSet(DOMAIN row)
    BY <1>3, RowFinite
<1>5. StoreOK(store, born) /\ Books(store)
    BY <1>2 DEF InOrder, BooksInv
<1>6. CASE store' = AddTerms(store, t, Constants(row))
    <2> DEFINE exprs == Constants(row)
    <2>1. DOMAIN exprs = DOMAIN row
        BY DEF Constants
    <2> HIDE DEF exprs
    <2>2. StoreOK(store, born')
        BY <1>2, <1>5, StoreGrows
    <2>3. store' = AddTerms(store, t, exprs)
        BY <1>6 DEF exprs
    <2>4. /\ StoreOK(store', born') /\ Books(store')
          /\ MapKeys(store') = MapKeys(store) \cup {<<t, v>> : v \in DOMAIN exprs}
        BY <1>2, <1>4, <1>5, <2>1, <2>2, <2>3, AddTermsBooks
    <2> QED BY <2>4
<1>7. CASE store' = AppendConstantRow(store, t, row)
    <2>1. StoreOK(store', born') /\ Books(store')
        BY <1>2, <1>3, <1>5, <1>7, ConstantRowKeeps
    <2> QED BY <2>1
<1> QED BY <1>1, <1>6, <1>7

\* A parametric objective: packed cells, then combined ones.
LEMMA SetLinearObjectiveParamBulkBooks ==
    ASSUME BooksInv, NEW t, NEW terms, NEW layout, SetLinearObjectiveParamBulk(t, terms, layout)
    PROVE  Books(store')
<1> DEFINE packed == {v \in TermVars(terms) : Packable(terms, v)}
           row == [v \in packed |-> ParamCell(terms, v)]
           combined == [v \in TermVars(terms) \ packed |-> CombinedExpr(terms, v)]
           middle == AppendParamRow(store, t, row, layout)
<1>1. /\ Create(t) /\ vars' = vars /\ KeepQueue /\ TermVars(terms) \subseteq vars
      /\ layout # {} => ValidBlocks(row, layout)
      /\ store' = AddTerms(middle, t, combined)
    BY DEF SetLinearObjectiveParamBulk
<1>2. t \notin born /\ born' = born \cup {t} /\ InOrder(store, born)
    BY <1>1, Creates DEF BooksInv
<1>3. DOMAIN row = packed /\ DOMAIN combined = TermVars(terms) \ packed
    OBVIOUS
<1>4. packed \subseteq TermVars(terms) /\ TermVars(terms) \subseteq Vars
    BY <1>1 DEF BooksInv, StoreInv
<1> HIDE DEF packed, row, combined
<1>5. DOMAIN row \subseteq Vars /\ DOMAIN combined \subseteq Vars
    BY <1>3, <1>4
<1>6. DOMAIN combined \in SUBSET Int /\ IsFiniteSet(DOMAIN combined)
    BY <1>5, RowFinite
<1>7. ValidBlocks(row, layout)
    BY <1>1 DEF ValidBlocks
<1>8. StoreOK(store, born) /\ Books(store)
    BY <1>2 DEF InOrder, BooksInv
<1>9. middle = AppendParamRow(store, t, row, layout)
    OBVIOUS
<1> HIDE DEF middle
<1>10. StoreOK(middle, born') /\ Books(middle)
    BY <1>2, <1>5, <1>7, <1>8, <1>9, ParamRowKeeps
<1>11. t \in born'
    BY <1>2
<1>12. /\ StoreOK(store', born') /\ Books(store')
       /\ MapKeys(store') = MapKeys(middle) \cup {<<t, v>> : v \in DOMAIN combined}
    BY <1>1, <1>6, <1>10, <1>11, AddTermsBooks
<1> QED BY <1>12

\* The terms of an objective expression.
LEMMA SetObjectiveExprBooks ==
    ASSUME BooksInv, NEW t, NEW terms \in LinearInputs, SetObjectiveExpr(t, terms)
    PROVE  Books(store')
<1> DEFINE row == CanonicalRow(terms)
           exprs == Constants(row)
<1>1. store' = AddTerms(store, t, exprs) /\ t \in targets /\ TermVars(terms) \subseteq vars
    BY DEF SetObjectiveExpr, Constants
<1>2. targets \subseteq born /\ vars \subseteq Vars /\ StoreOK(store, born) /\ Books(store)
    BY DEF BooksInv, StoreInv, InOrder
<1>3. DOMAIN row \subseteq Vars
    BY <1>1, <1>2, RowVars
<1> HIDE DEF row
<1>4. DOMAIN exprs = DOMAIN row
    BY DEF Constants
<1>5. DOMAIN exprs \in SUBSET Int /\ IsFiniteSet(DOMAIN exprs)
    BY <1>3, <1>4, RowFinite
<1> HIDE DEF exprs
<1>6. t \in born
    BY <1>1, <1>2
<1>7. /\ StoreOK(store', born) /\ Books(store')
      /\ MapKeys(store') = MapKeys(store) \cup {<<t, v>> : v \in DOMAIN exprs}
    BY <1>1, <1>2, <1>5, <1>6, AddTermsBooks
<1> QED BY <1>7

\* Edits of one cell.
LEMMA AddCoefficientBooks ==
    ASSUME BooksInv, NEW key, NEW e, AddCoefficient(key, e)
    PROVE  Books(store')
<1> DEFINE x == Eval(e, params)
<1>1. EditCell(key) /\ store' = Add(store, key, e, x)
    BY DEF AddCoefficient
<1> HIDE DEF x
<1>2. key \in born \X Vars /\ InOrder(store, born)
    BY <1>1, EditCellFrame DEF BooksInv
<1>3. key[1] \in born /\ StoreOK(store, born) /\ Books(store)
    BY <1>2 DEF InOrder, BooksInv
<1>4. StoreOK(store', born) /\ Books(store') /\ MapKeys(store') = MapKeys(store) \cup {key}
    BY <1>1, <1>3, AddBooks
<1> QED BY <1>4

\* Setting a cell keeps the books.
LEMMA SetBooks ==
    ASSUME NEW s, NEW T, NEW key, NEW x, NEW t, StoreOK(s, T), Books(s), key[1] \in T,
           t = SetTo(s, key, x)
    PROVE  StoreOK(t, T) /\ Books(t)
<1>1. Exact(s)
    BY DEF StoreOK
<1> DEFINE e == Constant(x)
<1>2. CASE LiveId(s, key) = {}
    <2>1. t = AddFresh(s, key, e, x)
        BY <1>2 DEF SetTo
    <2>2. \A l \in Locs(s) : KeyAt(s, l) # key
        BY <1>2, LiveIdFinds
    <2> HIDE DEF e
    <2>3. StoreOK(t, T) /\ Books(t) /\ MapKeys(t) = MapKeys(s) \cup {key}
        BY <2>1, <2>2, AddFreshBooks
    <2> QED BY <2>3
<1>3. CASE LiveId(s, key) # {}
    <2>1. PICK l \in Locs(s) : KeyAt(s, l) = key
        BY <1>3, LiveIdFinds
    <2>2. LiveId(s, key) = {IdAt(s, l)}
        BY <2>1, LiveIdFinds
    <2>3. PICK n \in Slots(s) : IdAt(s, l) = FreshId(n) /\ LocOf(s, n) = l
        BY <1>1 DEF Exact
    <2>4. t = SetExpr(s, FreshId(n), e, x)
        BY <1>3, <2>2, <2>3 DEF SetTo
    <2> HIDE DEF e
    <2>5. StoreOK(t, T) /\ Books(t) /\ MapKeys(t) = MapKeys(s)
        BY <2>3, <2>4, SetExprBooks
    <2> QED BY <2>5
<1> QED BY <1>2, <1>3

\* A cell is set to a constant.
LEMMA SetCoefficientBooks ==
    ASSUME BooksInv, NEW key, NEW value, SetCoefficient(key, value)
    PROVE  Books(store')
<1>1. EditCell(key) /\ (store' = store \/ store' = SetTo(store, key, value))
    BY DEF SetCoefficient, SetTo
<1>2. key \in born \X Vars /\ InOrder(store, born)
    BY <1>1, EditCellFrame DEF BooksInv
<1>3. key[1] \in born /\ StoreOK(store, born) /\ Books(store)
    BY <1>2 DEF InOrder, BooksInv
<1>4. CASE store' = store
    BY <1>3, <1>4
<1>5. CASE store' = SetTo(store, key, value)
    <2>1. StoreOK(store', born) /\ Books(store')
        BY <1>3, <1>5, SetBooks
    <2> QED BY <2>1
<1> QED BY <1>1, <1>4, <1>5

\* A list of one.
LEMMA OneItem ==
    ASSUME NEW id, NEW ids, ids = <<id>>
    PROVE  IsList(ids) /\ Len(ids) = 1 /\ ids[1] = id
<1>1. ids \in Seq({id}) /\ Len(ids) = 1 /\ ids[1] = id /\ 1 .. 1 = {1}
    OBVIOUS
<1>2. IsList(ids)
    BY <1>1 DEF IsList
<1> QED BY <1>1, <1>2

\* The list of what the lookup by pair finds.
Lookup(s, key) ==
    IF LiveId(s, key) = {} THEN <<>> ELSE <<CHOOSE id \in LiveId(s, key) : TRUE>>

LEMMA LookupList ==
    ASSUME NEW s, NEW T, NEW key, NEW ids, StoreOK(s, T), ids = Lookup(s, key)
    PROVE  IsList(ids) /\ \A k \in 1 .. Len(ids) : \E n : ids[k] = FreshId(n)
<1>1. Exact(s)
    BY DEF StoreOK
<1>2. CASE LiveId(s, key) = {}
    <2>1. ids = <<>>
        BY <1>2 DEF Lookup
    <2>2. <<>> \in Seq({}) /\ Len(<<>>) = 0
        OBVIOUS
    <2> QED BY <2>1, <2>2 DEF IsList
<1>3. CASE LiveId(s, key) # {}
    <2>1. PICK l \in Locs(s) : KeyAt(s, l) = key
        BY <1>3, LiveIdFinds
    <2>2. LiveId(s, key) = {IdAt(s, l)}
        BY <2>1, LiveIdFinds
    <2>3. PICK n : IdAt(s, l) = FreshId(n)
        BY <1>1 DEF Exact
    <2> DEFINE id == FreshId(n)
    <2>4. ids = <<id>>
        BY <1>3, <2>2, <2>3 DEF Lookup
    <2> HIDE DEF id
    <2>5. IsList(ids) /\ Len(ids) = 1 /\ ids[1] = id
        BY <2>4, OneItem
    <2>6. \A k \in 1 .. Len(ids) : k = 1
        BY <2>5
    <2> QED BY <2>5, <2>6 DEF id
<1> QED BY <1>2, <1>3

\* A cell is removed by its pair.
LEMMA RemoveCoefficientAtBooks ==
    ASSUME BooksInv, NEW key, RemoveCoefficientAt(key)
    PROVE  Books(store')
<1> DEFINE ids == Lookup(store, key)
<1>1. store' = RemoveAll(store, ids)
    BY DEF RemoveCoefficientAt, Lookup
<1>2. StoreOK(store, born) /\ Books(store)
    BY DEF BooksInv, StoreInv, InOrder
<1>3. IsList(ids) /\ \A k \in 1 .. Len(ids) : \E n : ids[k] = FreshId(n)
    BY <1>2, LookupList
<1> HIDE DEF ids
<1>4. StoreOK(store', born) /\ Books(store')
    BY <1>1, <1>2, <1>3, RemoveAllBooks
<1> QED BY <1>4

\* A cell is removed by its identity.
LEMMA RemoveCoefficientBooks ==
    ASSUME BooksInv, NEW id \in Issued(store), RemoveCoefficient(id)
    PROVE  Books(store')
<1>1. PICK n : id = FreshId(n)
    BY DEF Issued
<1>2. store' = Discard(store, FreshId(n))
    BY <1>1 DEF RemoveCoefficient
<1>3. StoreOK(store, born) /\ Books(store)
    BY DEF BooksInv, StoreInv, InOrder
<1>4. StoreOK(store', born) /\ Books(store')
    BY <1>2, <1>3, DiscardBooks
<1> QED BY <1>4

\* The cells of a variable are removed with it.
LEMMA RemoveVariableBooks ==
    ASSUME BooksInv, NEW v, RemoveVariable(v)
    PROVE  Books(store')
<1> DEFINE ids == ForVar(store, v)
           s == EnsureVarIndex(store)
<1>1. store' = RemoveAll(s, ids)
    BY DEF RemoveVariable
<1>2. StoreOK(store, born) /\ Books(store) /\ Counted(store)
    BY DEF BooksInv, StoreInv, InOrder
<1>3. IsList(ids) /\ \A k \in 1 .. Len(ids) : \E n : ids[k] = FreshId(n)
    BY <1>2, ForVarFinds
<1>4. s = EnsureVarIndex(store)
    OBVIOUS
<1> HIDE DEF ids, s
<1>5. StoreOK(s, born) /\ Books(s)
    BY <1>2, <1>4, IndexBooks
<1>6. StoreOK(store', born) /\ Books(store')
    BY <1>1, <1>3, <1>5, RemoveAllBooks
<1> QED BY <1>6

\* The cells of a target are removed with it.
LEMMA RemoveTargetBooks ==
    ASSUME BooksInv, NEW t, RemoveTarget(t)
    PROVE  Books(store')
<1> DEFINE ids == ForTarget(store, t)
<1>1. store' = RemoveAll(store, ids)
    BY DEF RemoveTarget
<1>2. StoreOK(store, born) /\ Books(store)
    BY DEF BooksInv, StoreInv, InOrder
<1>3. IsList(ids) /\ \A k \in 1 .. Len(ids) : \E n : ids[k] = FreshId(n)
    BY <1>2, ForTargetFinds
<1> HIDE DEF ids
<1>4. StoreOK(store', born) /\ Books(store')
    BY <1>1, <1>2, <1>3, RemoveAllBooks
<1> QED BY <1>4

\* The queued values are applied.
LEMMA CommitParametersBooks ==
    ASSUME BooksInv, CommitParameters
    PROVE  Books(store')
<1>1. PICK order \in Orders(DOMAIN pending) :
         store' = Applying(order)[Len(blocks) + Len(order)].store
    BY Zenon DEF CommitParameters
<1>2. Len(blocks) \in Nat /\ IsFiniteSet(DOMAIN pending) /\ StoreOK(store, born) /\ Books(store)
    BY DEF BooksInv, StoreInv, InOrder, IsList
<1>3. Cardinality(DOMAIN pending) \in Nat
    BY <1>2, FS_CardinalityType
<1>4. order \in [1 .. Cardinality(DOMAIN pending) -> DOMAIN pending]
    BY DEF Orders
<1>5. Len(order) \in Nat
    BY <1>3, <1>4
<1>6. Books(Applying(order)[Len(blocks) + Len(order)].store)
    BY <1>2, <1>5, ApplyingBooks
<1> QED BY <1>1, <1>6

\* The rest leaves the store alone.
LEMMA OtherBooks ==
    ASSUME BooksInv,
           \/ Rollback \/ Detach \/ Rebuild \/ UNCHANGED all
           \/ \E o \in Objs \cup {NoObjective} : SetActiveObjective(o)
           \/ \E t \in Targets : AddEmptyTarget(t)
           \/ \E p, value : SetParameter(p, value)
           \/ \E values : SetParametersBulk(values)
    PROVE  Books(store')
<1>1. store' = store
    BY DEF Rollback, Detach, Rebuild, all, model, SetActiveObjective, AddEmptyTarget,
           SetParameter, SetParametersBulk, KeepModel
<1> QED BY <1>1 DEF BooksInv

\* Every step keeps the books right.
LEMMA StepsKeepBooks ==
    ASSUME BooksInv, [Next]_all
    PROVE  BooksInv'
<1>1. StoreInv'
    BY StepsAreEdits, EditKeeps DEF BooksInv
<1>2. Books(store')
    <2>1. ASSUME NEW t \in Targets, RemoveTarget(t) PROVE Books(store')
        BY <2>1, RemoveTargetBooks
    <2>2. ASSUME NEW t \in Targets, NEW terms \in LinearInputs,
                 \/ AddLinearRowsBulk(t, terms)
                 \/ SetLinearObjectiveBulk(t, terms)
                 \/ SetObjectiveExpr(t, terms)
          PROVE  Books(store')
        BY <2>2, AddLinearRowsBulkBooks, SetLinearObjectiveBulkBooks, SetObjectiveExprBooks
    <2>3. ASSUME NEW t \in Targets, NEW terms \in ParamInputs, NEW layout \in Layouts,
                 \/ AddLinearRowsParamBulk(t, terms, layout)
                 \/ SetLinearObjectiveParamBulk(t, terms, layout)
          PROVE  Books(store')
        BY <2>3, AddLinearRowsParamBulkBooks, SetLinearObjectiveParamBulkBooks
    <2>4. ASSUME NEW key \in Targets \X Vars,
                 \/ \E e \in Exprs : AddCoefficient(key, e)
                 \/ \E value \in Values : SetCoefficient(key, value)
                 \/ RemoveCoefficientAt(key)
          PROVE  Books(store')
        BY <2>4, AddCoefficientBooks, SetCoefficientBooks, RemoveCoefficientAtBooks
    <2>5. ASSUME NEW id \in Issued(store), RemoveCoefficient(id) PROVE Books(store')
        BY <2>5, RemoveCoefficientBooks
    <2>6. ASSUME NEW v \in Vars, RemoveVariable(v) PROVE Books(store')
        BY <2>6, RemoveVariableBooks
    <2>7. CASE CommitParameters
        BY <2>7, CommitParametersBooks
    <2>8. CASE \/ Rollback \/ Detach \/ Rebuild \/ UNCHANGED all
               \/ \E o \in Objs \cup {NoObjective} : SetActiveObjective(o)
               \/ \E t \in Targets : AddEmptyTarget(t)
               \/ \E p, value : SetParameter(p, value)
               \/ \E values : SetParametersBulk(values)
        BY <2>8, OtherBooks
    <2> QED BY <2>1, <2>2, <2>3, <2>4, <2>5, <2>6, <2>7, <2>8 DEF Next
<1> QED BY <1>1, <1>2 DEF BooksInv

\* The books are right in every reachable state.
LEMMA BooksHold == Spec => []BooksInv
<1>1. Init => BooksInv
    BY BooksInit
<1>2. BooksInv /\ [Next]_all => BooksInv'
    BY StepsKeepBooks
<1> QED BY <1>1, <1>2, PTL DEF Spec

-----------------------------------------------------------------------------
(* The views of the store tell one story                                       *)

\* The identities of the live cells of s, and the data under one.
LiveOf(s) == {id \in Issued(s) : Get(s, id) # {}}
DataOf(s, id) == CHOOSE d \in Get(s, id) : TRUE

\* They are the identities of the cells.
LEMMA LiveAreCells ==
    ASSUME NEW s, NEW T, StoreOK(s, T)
    PROVE  /\ \A c \in Cells(s) : /\ c.id \in LiveOf(s) /\ Get(s, c.id) = {DataOf(s, c.id)}
                                  /\ DataOf(s, c.id).key = c.key /\ DataOf(s, c.id).expr = c.expr
           /\ LiveOf(s) = {c.id : c \in Cells(s)}
<1>1. Shaped(s) /\ Exact(s)
    BY DEF StoreOK
<1>2. \A l \in Locs(s) : DataAt(s, l).key = KeyAt(s, l)
    BY PlacePairs
<1>3. ASSUME NEW c \in Cells(s)
      PROVE  /\ c.id \in LiveOf(s) /\ Get(s, c.id) = {DataOf(s, c.id)}
             /\ DataOf(s, c.id).key = c.key /\ DataOf(s, c.id).expr = c.expr
    <2>1. PICK n \in Slots(s) :
             /\ LocOf(s, n) \in Locs(s) /\ c.id = FreshId(n) /\ c.key = KeyAt(s, LocOf(s, n))
             /\ c.expr = DataAt(s, LocOf(s, n)).expr /\ Get(s, c.id) = {DataAt(s, LocOf(s, n))}
        BY CellsFound
    <2> DEFINE x == DataAt(s, LocOf(s, n))
    <2>2. Get(s, c.id) = {x} /\ x.key = c.key /\ x.expr = c.expr
        BY <1>2, <2>1
    <2>3. c.id \in Issued(s)
        BY <2>1, IssuedSlots
    <2> HIDE DEF x
    <2>4. DataOf(s, c.id) = x
        BY <2>2 DEF DataOf
    <2> QED BY <2>2, <2>3, <2>4 DEF LiveOf
<1>4. ASSUME NEW id \in LiveOf(s) PROVE \E c \in Cells(s) : id = c.id
    <2>1. id \in Issued(s) /\ Get(s, id) # {}
        BY DEF LiveOf
    <2>2. PICK n : id = FreshId(n)
        BY <2>1, IssuedSlots
    <2>3. Resolve(s, id) # Vacant
        <3>1. Resolve(s, id) = Vacant => Get(s, id) = {}
            BY DEF Get, Vacant
        <3> QED BY <2>1, <3>1
    <2>4. CellIn(s, LocOf(s, n)) \in Cells(s) /\ CellIn(s, LocOf(s, n)).id = FreshId(n)
        BY <2>2, <2>3, Resolved
    <2> QED BY <2>2, <2>4
<1> QED BY <1>3, <1>4

\* The count is the number of live places, and of the pairs that are shown.
LEMMA CountAgrees ==
    ASSUME BooksInv
    PROVE  /\ store.live = Cardinality(PackedLive(store)) + Cardinality(ParamLive(store))
                              + Cardinality(OverlayLive(store))
           /\ Cardinality(Keys) = store.live
<1>1. StoreOK(store, born) /\ store.live = Cardinality(MapKeys(store))
    BY DEF BooksInv, StoreInv, InOrder, Books, CountExact
<1>2. Iter(store) = {DataAt(store, l) : l \in Locs(store)}
    BY IterPlaces
<1>3. \A l \in Locs(store) : DataAt(store, l).key = KeyAt(store, l)
    BY <1>1, PlacePairs
<1>4. {d.key : d \in Iter(store)} = {KeyAt(store, l) : l \in Locs(store)}
    BY <1>2, <1>3
<1>5. MapKeys(store) = {KeyAt(store, l) : l \in Locs(store)}
    BY CellParts DEF MapKeys
<1>6. Keys = MapKeys(store)
    BY <1>4, <1>5 DEF Keys
<1>7. Cardinality(MapKeys(store)) = Cardinality(PackedLive(store)) + Cardinality(ParamLive(store))
                                       + Cardinality(OverlayLive(store))
    BY <1>1, PlacesCount
<1> QED BY <1>1, <1>6, <1>7

\* The lookup by pair finds what the iteration shows of the pair.
LEMMA LookupAgrees ==
    ASSUME NEW s, NEW T, NEW key, StoreOK(s, T)
    PROVE  LiveData(s, key) = {d \in Iter(s) : d.key = key}
<1>1. Iter(s) = {DataAt(s, l) : l \in Locs(s)}
    BY IterPlaces
<1>2. \A l \in Locs(s) : DataAt(s, l).key = KeyAt(s, l)
    BY PlacePairs
<1>3. Shaped(s) /\ Exact(s)
    BY DEF StoreOK
<1>4. CASE \A l \in Locs(s) : KeyAt(s, l) # key
    <2>1. LiveId(s, key) = {}
        BY <1>4, LiveIdFinds
    <2>2. {d \in Iter(s) : d.key = key} = {}
        BY <1>1, <1>2, <1>4
    <2> QED BY <2>1, <2>2 DEF LiveData
<1>5. CASE \E l \in Locs(s) : KeyAt(s, l) = key
    <2>1. PICK l \in Locs(s) : KeyAt(s, l) = key
        BY <1>5
    <2>2. PICK n \in Slots(s) : IdAt(s, l) = FreshId(n) /\ LocOf(s, n) = l
        BY <1>3 DEF Exact
    <2>3. LiveId(s, key) = {FreshId(n)}
        BY <2>1, <2>2, LiveIdFinds
    <2>4. Get(s, FreshId(n)) = {DataAt(s, l)}
        BY <1>3, <2>2, GetsPlace
    <2> DEFINE x == DataAt(s, l)
               id == FreshId(n)
    <2>5. LiveId(s, key) = {id} /\ Get(s, id) = {x}
        BY <2>3, <2>4
    <2>6. \A m \in Locs(s) : KeyAt(s, m) = key => m = l
        BY <1>3, <2>1 DEF Exact
    <2>7. {d \in Iter(s) : d.key = key} = {x}
        BY <1>1, <1>2, <2>1, <2>6
    <2> HIDE DEF x, id
    <2> QED BY <2>5, <2>7 DEF LiveData
<1> QED BY <1>4, <1>5

\* A list without repetitions is as long as the set of its elements.
LEMMA ListAgrees ==
    ASSUME NEW q, NEW S, IsList(q), OneToOne(q), Elements(q) = S
    PROVE  {q[i] : i \in DOMAIN q} = S /\ Len(q) = Cardinality(S)
<1>1. DOMAIN q = 1 .. Len(q)
    BY DEF IsList
<1>2. Cardinality(Elements(q)) = Len(q)
    BY ListCounts
<1> QED BY <1>1, <1>2 DEF Elements

\* The lists by target and by variable.
LEMMA ListsAgree ==
    ASSUME NEW s, NEW T, StoreOK(s, T), Counted(s)
    PROVE  /\ \A t : LET q == ForTarget(s, t)
                         S == {id \in LiveOf(s) : DataOf(s, id).key[1] = t}
                     IN  {q[i] : i \in DOMAIN q} = S /\ Len(q) = Cardinality(S)
           /\ \A v : LET q == ForVar(s, v)
                         S == {id \in LiveOf(s) : DataOf(s, id).key[2] = v}
                     IN  {q[i] : i \in DOMAIN q} = S /\ Len(q) = Cardinality(S)
<1>1. ASSUME NEW t
      PROVE  LET q == ForTarget(s, t)
                 S == {id \in LiveOf(s) : DataOf(s, id).key[1] = t}
             IN  {q[i] : i \in DOMAIN q} = S /\ Len(q) = Cardinality(S)
    <2> DEFINE q == ForTarget(s, t)
               S == {id \in LiveOf(s) : DataOf(s, id).key[1] = t}
    <2>1. IsList(q) /\ Elements(q) = {c.id : c \in {d \in Cells(s) : d.key[1] = t}}
        BY ForTargetFinds
    <2>2. OneToOne(q)
        BY ForTargetOnce
    <2>3. S = {c.id : c \in {d \in Cells(s) : d.key[1] = t}}
        BY LiveAreCells
    <2> HIDE DEF q, S
    <2>4. {q[i] : i \in DOMAIN q} = S /\ Len(q) = Cardinality(S)
        BY <2>1, <2>2, <2>3, ListAgrees
    <2> QED BY <2>4 DEF q, S
<1>2. ASSUME NEW v
      PROVE  LET q == ForVar(s, v)
                 S == {id \in LiveOf(s) : DataOf(s, id).key[2] = v}
             IN  {q[i] : i \in DOMAIN q} = S /\ Len(q) = Cardinality(S)
    <2> DEFINE q == ForVar(s, v)
               S == {id \in LiveOf(s) : DataOf(s, id).key[2] = v}
    <2>1. IsList(q) /\ Elements(q) = {c.id : c \in {d \in Cells(s) : d.key[2] = v}}
        BY ForVarFinds
    <2>2. OneToOne(q)
        BY ForVarOnce
    <2>3. S = {c.id : c \in {d \in Cells(s) : d.key[2] = v}}
        BY LiveAreCells
    <2> HIDE DEF q, S
    <2>4. {q[i] : i \in DOMAIN q} = S /\ Len(q) = Cardinality(S)
        BY <2>1, <2>2, <2>3, ListAgrees
    <2> QED BY <2>4 DEF q, S
<1> QED BY <1>1, <1>2

\* What the data of a place depends on.
LEMMA PlaceDependencies ==
    ASSUME NEW s
    PROVE  /\ \A i : Dependencies(DataAt(s, Packed(i)).expr) = {}
           /\ \A i : Dependencies(DataAt(s, ParamBase(i)).expr) = {s.pbase[i].param}
           /\ \A i : DataAt(s, Overlay(i)).expr = s.overlay[i].data.expr
<1>1. \A i : Dependencies(DataAt(s, Packed(i)).expr) = {}
    BY DEF Dependencies, DataAt, Packed, PackedData, Data, Constant
<1>2. \A i : Dependencies(DataAt(s, ParamBase(i)).expr) = {s.pbase[i].param}
    BY DEF Dependencies, DataAt, ParamBase, ParamData, Data, ScaledParam
<1>3. \A i : DataAt(s, Overlay(i)).expr = s.overlay[i].data.expr
    BY DEF DataAt, Overlay, OverlayData
<1> QED BY <1>1, <1>2, <1>3

\* The identities of each place.
LEMMA PlaceIds ==
    ASSUME NEW s
    PROVE  /\ \A i : IdAt(s, ParamBase(i)) = s.pbase[i].id
           /\ \A i : IdAt(s, Overlay(i)) = s.overlay[i].id
BY DEF IdAt, ParamBase, Overlay

\* The list by parameter: overlay cells by their links, packed ones by the index
\* of positions and by the dependency blocks.
LEMMA ParamListAgrees ==
    ASSUME NEW s, NEW T, NEW p \in Params, StoreOK(s, T), Books(s)
    PROVE  ForParam(s, p) = {id \in LiveOf(s) : \E d \in Get(s, id) : p \in Dependencies(d.expr)}
<1> DEFINE On(l) == p \in Dependencies(DataAt(s, l).expr)
           ids == {IdAt(s, l) : l \in {m \in Locs(s) : On(m)}}
<1>1. /\ s.byParam[p] = OverlayFor(s, p)
      /\ \A i \in ParamLive(s) : i \in ListedFor(s, p) <=> s.pbase[i].param = p
    BY DEF Books, LinksExact, PositionsExact
<1>2. {id \in LiveOf(s) : \E d \in Get(s, id) : p \in Dependencies(d.expr)}
         = {c.id : c \in {d \in Cells(s) : p \in Dependencies(d.expr)}}
    BY LiveAreCells
<1>3. {c.id : c \in {d \in Cells(s) : p \in Dependencies(d.expr)}} = ids
    BY CellParts
<1>4. ids \subseteq ForParam(s, p)
    <2> SUFFICES ASSUME NEW l \in Locs(s), On(l) PROVE IdAt(s, l) \in ForParam(s, p)
        OBVIOUS
    <2>1. \/ \E i \in PackedLive(s) : l = Packed(i)
          \/ \E i \in ParamLive(s) : l = ParamBase(i)
          \/ \E i \in OverlayLive(s) : l = Overlay(i)
        BY PlaceForms
    <2>2. ASSUME NEW i \in PackedLive(s), l = Packed(i) PROVE FALSE
        BY <2>2, PlaceDependencies
    <2>3. ASSUME NEW i \in ParamLive(s), l = ParamBase(i) PROVE IdAt(s, l) \in ForParam(s, p)
        <3>1. p \in Dependencies(DataAt(s, ParamBase(i)).expr)
            BY <2>3
        <3>2. Dependencies(DataAt(s, ParamBase(i)).expr) = {s.pbase[i].param}
            BY PlaceDependencies
        <3>3. s.pbase[i].param = p
            BY <3>1, <3>2
        <3>4. i \in ListedFor(s, p) /\ IdAt(s, l) = s.pbase[i].id
            BY <1>1, <2>3, <3>3, PlaceIds
        <3> QED BY <3>4 DEF ForParam, ListedFor
    <2>4. ASSUME NEW i \in OverlayLive(s), l = Overlay(i) PROVE IdAt(s, l) \in ForParam(s, p)
        <3>1. p \in Dependencies(s.overlay[i].data.expr)
            BY <2>4, PlaceDependencies
        <3>2. i \in s.byParam[p] \cap OverlayLive(s) /\ IdAt(s, l) = s.overlay[i].id
            BY <1>1, <2>4, <3>1, PlaceIds DEF OverlayFor
        <3> QED BY <3>2 DEF ForParam, OverlayIdsForParam
    <2> QED BY <2>1, <2>2, <2>3, <2>4
<1>5. ForParam(s, p) \subseteq ids
    <2> SUFFICES ASSUME NEW id \in ForParam(s, p) PROVE id \in ids
        OBVIOUS
    <2>1. \/ \E i \in s.byParam[p] \cap OverlayLive(s) : id = s.overlay[i].id
          \/ \E i \in ListedFor(s, p) \cap ParamLive(s) : id = s.pbase[i].id
        BY DEF ForParam, OverlayIdsForParam, ListedFor
    <2>2. ASSUME NEW i \in s.byParam[p] \cap OverlayLive(s), id = s.overlay[i].id
          PROVE  id \in ids
        <3> DEFINE l == Overlay(i)
        <3>1. l \in Locs(s)
            BY PlaceForms
        <3>2. p \in Dependencies(s.overlay[i].data.expr)
            BY <1>1 DEF OverlayFor
        <3>3. On(l)
            BY <3>2, PlaceDependencies
        <3>4. id = IdAt(s, l)
            BY <2>2, PlaceIds
        <3> QED BY <3>1, <3>3, <3>4
    <2>3. ASSUME NEW i \in ListedFor(s, p) \cap ParamLive(s), id = s.pbase[i].id
          PROVE  id \in ids
        <3> DEFINE l == ParamBase(i)
        <3>1. l \in Locs(s)
            BY PlaceForms
        <3>2. s.pbase[i].param = p
            BY <1>1
        <3>3. On(l)
            BY <3>2, PlaceDependencies
        <3>4. id = IdAt(s, l)
            BY <2>3, PlaceIds
        <3> QED BY <3>1, <3>3, <3>4
    <2> QED BY <2>1, <2>2, <2>3
<1> HIDE DEF ids
<1> QED BY <1>2, <1>3, <1>4, <1>5

\* Right books make the views agree.
LEMMA BooksAgree ==
    ASSUME BooksInv
    PROVE  ViewsAgree
<1>1. StoreOK(store, born) /\ Counted(store) /\ Books(store)
    BY DEF BooksInv, StoreInv, InOrder
<1>2. LiveIds = LiveOf(store) /\ \A id : KeyOf(id) = DataOf(store, id).key
    BY Zenon DEF LiveIds, LiveOf, KeyOf, DataOf
<1>3. /\ store.live = Cardinality(PackedLive(store)) + Cardinality(ParamLive(store))
                         + Cardinality(OverlayLive(store))
      /\ Cardinality(Keys) = store.live
    BY CountAgrees
<1>4. \A key \in Targets \X Vars : LiveData(store, key) = {d \in Iter(store) : d.key = key}
    BY <1>1, LookupAgrees
<1>5. ASSUME NEW t \in Targets
      PROVE  LET q == ForTarget(store, t)
                 S == {id \in LiveIds : KeyOf(id)[1] = t}
             IN  {q[i] : i \in DOMAIN q} = S /\ Len(q) = Cardinality(S)
    <2> DEFINE q == ForTarget(store, t)
               R == {id \in LiveOf(store) : DataOf(store, id).key[1] = t}
               S == {id \in LiveIds : KeyOf(id)[1] = t}
    <2>1. S = R
        BY <1>2
    <2>2. {q[i] : i \in DOMAIN q} = R /\ Len(q) = Cardinality(R)
        BY <1>1, ListsAgree
    <2> HIDE DEF q, R, S
    <2>3. {q[i] : i \in DOMAIN q} = S /\ Len(q) = Cardinality(S)
        BY <2>1, <2>2
    <2> QED BY <2>3 DEF q, S
<1>6. ASSUME NEW v \in Vars
      PROVE  LET q == ForVar(store, v)
                 S == {id \in LiveIds : KeyOf(id)[2] = v}
             IN  {q[i] : i \in DOMAIN q} = S /\ Len(q) = Cardinality(S)
    <2> DEFINE q == ForVar(store, v)
               R == {id \in LiveOf(store) : DataOf(store, id).key[2] = v}
               S == {id \in LiveIds : KeyOf(id)[2] = v}
    <2>1. S = R
        BY <1>2
    <2>2. {q[i] : i \in DOMAIN q} = R /\ Len(q) = Cardinality(R)
        BY <1>1, ListsAgree
    <2> HIDE DEF q, R, S
    <2>3. {q[i] : i \in DOMAIN q} = S /\ Len(q) = Cardinality(S)
        BY <2>1, <2>2
    <2> QED BY <2>3 DEF q, S
<1>7. ASSUME NEW p \in Params
      PROVE  ForParam(store, p) =
               {id \in LiveIds : \E d \in Get(store, id) : p \in Dependencies(d.expr)}
    BY <1>1, <1>2, ParamListAgrees
<1> QED BY <1>3, <1>4, <1>5, <1>6, <1>7 DEF ViewsAgree

\* The views of the store tell one story whatever was appended, shadowed, removed
\* and added again: the iteration shows one cell per pair and as many as the
\* live count, the lookup by pair finds exactly those, and the lists by
\* target, variable and parameter hold each of their cells once
\* (live_id, for_target, for_var, for_param, iter).
THEOREM ViewsTellOneStory == Spec => []ViewsAgree
<1>1. BooksInv => ViewsAgree
    BY BooksAgree
<1> QED BY <1>1, BooksHold, PTL

-----------------------------------------------------------------------------
(* No coefficient outlives its constraint, objective or variable, and every    *)
(* variable of the model has its type.                                         *)

\* Cells belong to live targets and variables, values are queued for parameters,
\* and the active objective is live.
Attached ==
    /\ MapKeys(store) \subseteq targets \X vars
    /\ DOMAIN pending \subseteq Params
    /\ active \in (Objs \cap targets) \cup {NoObjective}
    /\ steps \in 0 .. MaxSteps

TypeInv == BooksInv /\ Attached

\* One edit more.
LEMMA StepCounts ==
    ASSUME Attached, Step
    PROVE  steps' \in 0 .. MaxSteps
BY StepsAssumption DEF Attached, Step

\* Cells for one live target and live variables may be added.
LEMMA KeysGrow ==
    ASSUME Attached, NEW t \in targets', NEW V, V \subseteq vars, targets \subseteq targets',
           vars' = vars, MapKeys(store') \subseteq MapKeys(store) \cup Pairs(t, V)
    PROVE  MapKeys(store') \subseteq targets' \X vars'
BY DEF Attached, Pairs

\* The pairs of an appended row of constants.
LEMMA ConstantRowKeys ==
    ASSUME NEW s, NEW T, NEW U, NEW target, NEW row, NEW t, StoreOK(s, T),
           target \notin T, U = T \cup {target}, DOMAIN row \subseteq Vars,
           t = AppendConstantRow(s, target, row)
    PROVE  StoreOK(t, U) /\ MapKeys(t) = MapKeys(s) \cup Pairs(target, DOMAIN row)
<1> DEFINE E == {}
<1> HIDE DEF E
<1>1. DOMAIN row \in SUBSET Int /\ IsFiniteSet(DOMAIN row)
    BY RowFinite
<1>2. StoreOK(t, T \cup {target}) /\ Gathers(s, t, {<<target, v>> : v \in DOMAIN row}, E)
    BY <1>1, ConstantRowOK
<1> QED BY <1>2 DEF Gathers, Pairs

\* Those of a parametric row.
LEMMA ParamRowKeys ==
    ASSUME NEW s, NEW T, NEW U, NEW target, NEW row, NEW layout, NEW t, StoreOK(s, T),
           target \notin T, U = T \cup {target}, DOMAIN row \subseteq Vars,
           t = AppendParamRow(s, target, row, layout)
    PROVE  StoreOK(t, U) /\ MapKeys(t) = MapKeys(s) \cup Pairs(target, DOMAIN row)
<1> DEFINE E == {}
<1> HIDE DEF E
<1>1. DOMAIN row \in SUBSET Int /\ IsFiniteSet(DOMAIN row)
    BY RowFinite
<1>2. StoreOK(t, T \cup {target}) /\ Gathers(s, t, {<<target, v>> : v \in DOMAIN row}, E)
    BY <1>1, ParamRowOK
<1> QED BY <1>2 DEF Gathers, Pairs

\* Those of terms added one by one.
LEMMA AddTermsKeys ==
    ASSUME NEW s, NEW T, NEW target \in T, NEW exprs, NEW t, StoreOK(s, T), Books(s),
           DOMAIN exprs \subseteq Vars, t = AddTerms(s, target, exprs)
    PROVE  StoreOK(t, T) /\ MapKeys(t) = MapKeys(s) \cup Pairs(target, DOMAIN exprs)
<1>1. DOMAIN exprs \in SUBSET Int /\ IsFiniteSet(DOMAIN exprs)
    BY RowFinite
<1>2. /\ StoreOK(t, T) /\ Books(t)
      /\ MapKeys(t) = MapKeys(s) \cup {<<target, v>> : v \in DOMAIN exprs}
    BY <1>1, AddTermsBooks
<1> QED BY <1>2 DEF Pairs

\* Removals leave fewer.
LEMMA RemoveAllKeys ==
    ASSUME NEW s, NEW T, NEW ids, NEW t, NEW K, StoreOK(s, T), IsList(ids),
           \A k \in 1 .. Len(ids) : \E n : ids[k] = FreshId(n),
           \A c \in Cells(s) : c.key \in K => c.id \in Elements(ids),
           t = RemoveAll(s, ids)
    PROVE  StoreOK(t, T) /\ MapKeys(t) \subseteq MapKeys(s) \ K
<1>1. StoreOK(t, T) /\ Cells(t) = {c \in Cells(s) : c.id \notin Elements(ids)}
    BY RemoveAllOK
<1> QED BY <1>1 DEF MapKeys

\* A new target, with or without a row.
LEMMA AddEmptyTargetAttached ==
    ASSUME TypeInv, NEW t, AddEmptyTarget(t)
    PROVE  Attached'
<1>1. /\ Attached /\ Step /\ store' = store /\ vars' = vars /\ active' = active
      /\ pending' = pending /\ targets' = targets \cup {t}
    BY DEF TypeInv, AddEmptyTarget, Create, KeepQueue
<1>2. steps' \in 0 .. MaxSteps
    BY <1>1, StepCounts
<1> QED BY <1>1, <1>2 DEF Attached

\* A row of constants.
LEMMA AddLinearRowsBulkAttached ==
    ASSUME TypeInv, NEW t, NEW terms, AddLinearRowsBulk(t, terms)
    PROVE  Attached'
<1> DEFINE row == CanonicalRow(terms)
<1>1. /\ Attached /\ BooksInv /\ Step /\ Create(t) /\ KeepQueue /\ TermVars(terms) \subseteq vars
      /\ vars' = vars /\ active' = active /\ store' = AppendConstantRow(store, t, row)
    BY DEF TypeInv, AddLinearRowsBulk
<1>2. t \notin born /\ born' = born \cup {t} /\ StoreOK(store, born)
    BY <1>1, Creates DEF BooksInv, InOrder
<1>3. DOMAIN row \subseteq vars /\ DOMAIN row \subseteq Vars
    BY <1>1, RowVars DEF BooksInv, StoreInv
<1> HIDE DEF row
<1>4. StoreOK(store', born') /\ MapKeys(store') = MapKeys(store) \cup Pairs(t, DOMAIN row)
    <2>1. store' = AppendConstantRow(store, t, row) /\ DOMAIN row \subseteq Vars
        BY <1>1, <1>3
    <2> QED BY <1>2, <2>1, ConstantRowKeys
<1>5. t \in targets' /\ targets \subseteq targets' /\ pending' = pending
    BY <1>1 DEF Create, KeepQueue
<1>6. MapKeys(store') \subseteq targets' \X vars'
    BY <1>1, <1>3, <1>4, <1>5, KeysGrow
<1>7. steps' \in 0 .. MaxSteps
    BY <1>1, StepCounts
<1> QED BY <1>1, <1>5, <1>6, <1>7 DEF Attached

\* A parametric row.
LEMMA AddLinearRowsParamBulkAttached ==
    ASSUME TypeInv, NEW t, NEW terms, NEW layout, AddLinearRowsParamBulk(t, terms, layout)
    PROVE  Attached'
<1> DEFINE row == CanonicalParamRow(terms)
<1>1. /\ Attached /\ BooksInv /\ Step /\ Create(t) /\ KeepQueue /\ TermVars(terms) \subseteq vars
      /\ vars' = vars /\ active' = active /\ store' = AppendParamRow(store, t, row, layout)
    BY DEF TypeInv, AddLinearRowsParamBulk
<1>2. t \notin born /\ born' = born \cup {t} /\ StoreOK(store, born)
    BY <1>1, Creates DEF BooksInv, InOrder
<1>3. DOMAIN row \subseteq vars /\ DOMAIN row \subseteq Vars
    BY <1>1, RowVars DEF BooksInv, StoreInv
<1> HIDE DEF row
<1>4. StoreOK(store', born') /\ MapKeys(store') = MapKeys(store) \cup Pairs(t, DOMAIN row)
    BY <1>1, <1>2, <1>3, ParamRowKeys
<1>5. t \in targets' /\ targets \subseteq targets' /\ pending' = pending
    BY <1>1 DEF Create, KeepQueue
<1>6. MapKeys(store') \subseteq targets' \X vars'
    BY <1>1, <1>3, <1>4, <1>5, KeysGrow
<1>7. steps' \in 0 .. MaxSteps
    BY <1>1, StepCounts
<1> QED BY <1>1, <1>5, <1>6, <1>7 DEF Attached

\* An objective, which is made active.
LEMMA SetLinearObjectiveBulkAttached ==
    ASSUME TypeInv, NEW t, NEW terms, SetLinearObjectiveBulk(t, terms)
    PROVE  Attached'
<1> DEFINE row == CanonicalRow(terms)
           exprs == Constants(row)
<1>1. /\ Attached /\ BooksInv /\ Step /\ Create(t) /\ KeepQueue /\ TermVars(terms) \subseteq vars
      /\ vars' = vars /\ active' = t /\ t \in Objs
      /\ \/ store' = AddTerms(store, t, exprs)
         \/ store' = AppendConstantRow(store, t, row)
    BY DEF TypeInv, SetLinearObjectiveBulk, Constants
<1>2. /\ t \notin born /\ born' = born \cup {t} /\ StoreOK(store, born) /\ t \in born'
      /\ born \subseteq born' /\ Books(store)
    BY <1>1, Creates DEF BooksInv, InOrder
<1>3. DOMAIN row \subseteq vars /\ DOMAIN row \subseteq Vars
    BY <1>1, RowVars DEF BooksInv, StoreInv
<1> HIDE DEF row
<1>4. DOMAIN exprs = DOMAIN row
    BY DEF Constants
<1> HIDE DEF exprs
<1>5. MapKeys(store') = MapKeys(store) \cup Pairs(t, DOMAIN row)
    <2>1. CASE store' = AddTerms(store, t, exprs)
        <3>1. StoreOK(store, born')
            BY <1>2, StoreGrows
        <3>2. StoreOK(store', born') /\ MapKeys(store') = MapKeys(store) \cup Pairs(t, DOMAIN exprs)
            BY <1>2, <1>3, <1>4, <2>1, <3>1, AddTermsKeys
        <3> QED BY <1>4, <3>2
    <2>2. CASE store' = AppendConstantRow(store, t, row)
        <3>1. StoreOK(store', born') /\ MapKeys(store') = MapKeys(store) \cup Pairs(t, DOMAIN row)
            BY <1>2, <1>3, <2>2, ConstantRowKeys
        <3> QED BY <3>1
    <2> QED BY <1>1, <2>1, <2>2
<1>6. t \in targets' /\ targets \subseteq targets' /\ pending' = pending
    BY <1>1 DEF Create, KeepQueue
<1>7. MapKeys(store') \subseteq targets' \X vars'
    BY <1>1, <1>3, <1>5, <1>6, KeysGrow
<1>8. steps' \in 0 .. MaxSteps
    BY <1>1, StepCounts
<1> QED BY <1>1, <1>6, <1>7, <1>8 DEF Attached

\* A parametric one.
LEMMA SetLinearObjectiveParamBulkAttached ==
    ASSUME TypeInv, NEW t, NEW terms, NEW layout, SetLinearObjectiveParamBulk(t, terms, layout)
    PROVE  Attached'
<1> DEFINE packed == {v \in TermVars(terms) : Packable(terms, v)}
           row == [v \in packed |-> ParamCell(terms, v)]
           combined == [v \in TermVars(terms) \ packed |-> CombinedExpr(terms, v)]
           middle == AppendParamRow(store, t, row, layout)
<1>1. /\ Attached /\ BooksInv /\ Step /\ Create(t) /\ KeepQueue /\ TermVars(terms) \subseteq vars
      /\ vars' = vars /\ active' = t /\ t \in Objs
      /\ layout # {} => ValidBlocks(row, layout)
      /\ store' = AddTerms(middle, t, combined)
    BY DEF TypeInv, SetLinearObjectiveParamBulk
<1>2. /\ t \notin born /\ born' = born \cup {t} /\ StoreOK(store, born) /\ t \in born'
      /\ Books(store)
    BY <1>1, Creates DEF BooksInv, InOrder
<1>3. DOMAIN row = packed /\ DOMAIN combined = TermVars(terms) \ packed
    OBVIOUS
<1>4. packed \subseteq TermVars(terms) /\ TermVars(terms) \subseteq Vars
    BY <1>1 DEF BooksInv, StoreInv
<1> HIDE DEF packed, row, combined
<1>5. DOMAIN row \subseteq Vars /\ DOMAIN combined \subseteq Vars
    BY <1>3, <1>4
<1>6. ValidBlocks(row, layout)
    BY <1>1 DEF ValidBlocks
<1>7. middle = AppendParamRow(store, t, row, layout)
    OBVIOUS
<1> HIDE DEF middle
<1>8. StoreOK(middle, born') /\ MapKeys(middle) = MapKeys(store) \cup Pairs(t, DOMAIN row)
    BY <1>2, <1>5, <1>7, ParamRowKeys
<1>9. StoreOK(middle, born') /\ Books(middle)
    BY <1>2, <1>5, <1>6, <1>7, ParamRowKeeps
<1>10. StoreOK(store', born') /\ MapKeys(store') = MapKeys(middle) \cup Pairs(t, DOMAIN combined)
    BY <1>1, <1>2, <1>5, <1>9, AddTermsKeys
<1> DEFINE V == TermVars(terms)
<1>11. MapKeys(store') \subseteq MapKeys(store) \cup Pairs(t, V) /\ V \subseteq vars
    BY <1>1, <1>3, <1>4, <1>8, <1>10 DEF Pairs
<1> HIDE DEF V
<1>12. t \in targets' /\ targets \subseteq targets' /\ pending' = pending
    BY <1>1 DEF Create, KeepQueue
<1>13. MapKeys(store') \subseteq targets' \X vars'
    BY <1>1, <1>11, <1>12, KeysGrow
<1>14. steps' \in 0 .. MaxSteps
    BY <1>1, StepCounts
<1> QED BY <1>1, <1>12, <1>13, <1>14 DEF Attached

\* Terms of a live objective.
LEMMA SetObjectiveExprAttached ==
    ASSUME TypeInv, NEW t, NEW terms, SetObjectiveExpr(t, terms)
    PROVE  Attached'
<1> DEFINE row == CanonicalRow(terms)
           exprs == Constants(row)
<1>1. /\ Attached /\ BooksInv /\ Step /\ TermVars(terms) \subseteq vars
      /\ vars' = vars /\ active' = active /\ pending' = pending
      /\ targets' = targets /\ t \in targets
      /\ store' = AddTerms(store, t, exprs)
    BY DEF TypeInv, SetObjectiveExpr, Constants, KeepQueue
<1>2. StoreOK(store, born) /\ Books(store) /\ targets \subseteq born /\ vars \subseteq Vars
    BY <1>1 DEF BooksInv, StoreInv, InOrder
<1>3. DOMAIN row \subseteq vars /\ DOMAIN row \subseteq Vars
    BY <1>1, <1>2, RowVars
<1> HIDE DEF row
<1>4. DOMAIN exprs = DOMAIN row
    BY DEF Constants
<1> HIDE DEF exprs
<1>5. t \in born /\ DOMAIN exprs \subseteq Vars
    BY <1>1, <1>2, <1>3, <1>4
<1>6. StoreOK(store', born) /\ MapKeys(store') = MapKeys(store) \cup Pairs(t, DOMAIN exprs)
    BY <1>1, <1>2, <1>5, AddTermsKeys
<1>7. MapKeys(store') \subseteq targets' \X vars'
    BY <1>1, <1>3, <1>4, <1>6, KeysGrow
<1>8. steps' \in 0 .. MaxSteps
    BY <1>1, StepCounts
<1> QED BY <1>1, <1>7, <1>8 DEF Attached

\* Edits of a cell whose pair is live.
LEMMA CellAttached ==
    ASSUME TypeInv, NEW key, EditCell(key), MapKeys(store') \subseteq MapKeys(store) \cup {key}
    PROVE  Attached'
<1>1. /\ Attached /\ Step /\ key \in targets \X vars /\ pending' = pending
      /\ vars' = vars /\ targets' = targets /\ active' = active
    BY DEF TypeInv, EditCell, KeepQueue
<1>2. steps' \in 0 .. MaxSteps
    BY <1>1, StepCounts
<1> QED BY <1>1, <1>2 DEF Attached

\* An expression is added.
LEMMA AddCoefficientAttached ==
    ASSUME TypeInv, NEW key, NEW e, AddCoefficient(key, e)
    PROVE  Attached'
<1> DEFINE x == Eval(e, params)
<1>1. EditCell(key) /\ store' = Add(store, key, e, x) /\ BooksInv
    BY DEF AddCoefficient, TypeInv
<1> HIDE DEF x
<1>2. key \in born \X Vars /\ InOrder(store, born)
    BY <1>1, EditCellFrame DEF BooksInv
<1>3. key[1] \in born /\ StoreOK(store, born) /\ Books(store)
    BY <1>1, <1>2 DEF InOrder, BooksInv
<1>4. StoreOK(store', born) /\ Books(store') /\ MapKeys(store') = MapKeys(store) \cup {key}
    BY <1>1, <1>3, AddBooks
<1>5. MapKeys(store') \subseteq MapKeys(store) \cup {key}
    BY <1>4
<1> QED BY <1>1, <1>5, CellAttached

\* Setting a cell adds at most its pair.
LEMMA SetKeys ==
    ASSUME NEW s, NEW T, NEW key, NEW x, NEW t, StoreOK(s, T), Books(s), key[1] \in T,
           t = SetTo(s, key, x)
    PROVE  StoreOK(t, T) /\ MapKeys(t) \subseteq MapKeys(s) \cup {key}
<1>1. Exact(s)
    BY DEF StoreOK
<1> DEFINE e == Constant(x)
<1>2. CASE LiveId(s, key) = {}
    <2>1. t = AddFresh(s, key, e, x)
        BY <1>2 DEF SetTo
    <2>2. \A l \in Locs(s) : KeyAt(s, l) # key
        BY <1>2, LiveIdFinds
    <2> HIDE DEF e
    <2>3. StoreOK(t, T) /\ Books(t) /\ MapKeys(t) = MapKeys(s) \cup {key}
        BY <2>1, <2>2, AddFreshBooks
    <2> QED BY <2>3
<1>3. CASE LiveId(s, key) # {}
    <2>1. PICK l \in Locs(s) : KeyAt(s, l) = key
        BY <1>3, LiveIdFinds
    <2>2. LiveId(s, key) = {IdAt(s, l)}
        BY <2>1, LiveIdFinds
    <2>3. PICK n \in Slots(s) : IdAt(s, l) = FreshId(n) /\ LocOf(s, n) = l
        BY <1>1 DEF Exact
    <2>4. t = SetExpr(s, FreshId(n), e, x)
        BY <1>3, <2>2, <2>3 DEF SetTo
    <2> HIDE DEF e
    <2>5. StoreOK(t, T) /\ Books(t) /\ MapKeys(t) = MapKeys(s)
        BY <2>3, <2>4, SetExprBooks
    <2> QED BY <2>5
<1> QED BY <1>2, <1>3

\* A cell is set.
LEMMA SetCoefficientAttached ==
    ASSUME TypeInv, NEW key, NEW value, SetCoefficient(key, value)
    PROVE  Attached'
<1>1. EditCell(key) /\ (store' = store \/ store' = SetTo(store, key, value)) /\ BooksInv
    BY DEF SetCoefficient, SetTo, TypeInv
<1>2. key \in born \X Vars /\ InOrder(store, born)
    BY <1>1, EditCellFrame DEF BooksInv
<1>3. key[1] \in born /\ StoreOK(store, born) /\ Books(store)
    BY <1>1, <1>2 DEF InOrder, BooksInv
<1>4. MapKeys(store') \subseteq MapKeys(store) \cup {key}
    <2>1. CASE store' = store
        BY <2>1
    <2>2. CASE store' = SetTo(store, key, value)
        <3>1. StoreOK(store', born) /\ MapKeys(store') \subseteq MapKeys(store) \cup {key}
            BY <1>3, <2>2, SetKeys
        <3> QED BY <3>1
    <2> QED BY <1>1, <2>1, <2>2
<1> QED BY <1>1, <1>4, CellAttached

\* A removal leaves fewer pairs, whatever it removes.
LEMMA RemoveCoefficientAtAttached ==
    ASSUME TypeInv, NEW key, RemoveCoefficientAt(key)
    PROVE  Attached'
<1> DEFINE ids == Lookup(store, key)
           E == {}
<1>1. EditCell(key) /\ store' = RemoveAll(store, ids) /\ StoreOK(store, born)
    BY DEF RemoveCoefficientAt, Lookup, TypeInv, BooksInv, StoreInv, InOrder
<1>2. IsList(ids) /\ \A k \in 1 .. Len(ids) : \E n : ids[k] = FreshId(n)
    BY <1>1, LookupList
<1> HIDE DEF ids, E
<1>3. \A c \in Cells(store) : c.key \in E => c.id \in Elements(ids)
    BY DEF E
<1>4. StoreOK(store', born) /\ MapKeys(store') \subseteq MapKeys(store) \ E
    BY <1>1, <1>2, <1>3, RemoveAllKeys
<1>5. MapKeys(store') \subseteq MapKeys(store) \cup {key}
    BY <1>4
<1> QED BY <1>1, <1>5, CellAttached

\* By its identity.
LEMMA RemoveCoefficientAttached ==
    ASSUME TypeInv, NEW id \in Issued(store), RemoveCoefficient(id)
    PROVE  Attached'
<1>1. PICK n : id = FreshId(n)
    BY DEF Issued
<1>2. /\ store' = Discard(store, FreshId(n)) /\ Step /\ Attached /\ StoreOK(store, born)
      /\ vars' = vars /\ targets' = targets /\ active' = active /\ pending' = pending
    BY <1>1 DEF RemoveCoefficient, KeepQueue, TypeInv, BooksInv, StoreInv, InOrder
<1>3. StoreOK(store', born) /\ Slots(store') = Slots(store) /\ Cells(store') = Without(store, n)
    BY <1>2, DiscardOK
<1>4. MapKeys(store') \subseteq MapKeys(store)
    BY <1>3 DEF Without, MapKeys
<1>5. steps' \in 0 .. MaxSteps
    BY <1>2, StepCounts
<1> QED BY <1>2, <1>4, <1>5 DEF Attached

\* With a variable go all its cells.
LEMMA RemoveVariableAttached ==
    ASSUME TypeInv, NEW v, RemoveVariable(v)
    PROVE  Attached'
<1> DEFINE ids == ForVar(store, v)
           s == EnsureVarIndex(store)
           K == {k \in MapKeys(s) : k[2] = v}
<1>1. /\ store' = RemoveAll(s, ids) /\ Step /\ Attached /\ StoreOK(store, born) /\ Counted(store)
      /\ vars' = vars \ {v} /\ targets' = targets /\ active' = active /\ pending' = pending
    BY DEF RemoveVariable, KeepQueue, TypeInv, BooksInv, StoreInv, InOrder
<1>2. /\ IsList(ids) /\ Elements(ids) = {c.id : c \in {d \in Cells(store) : d.key[2] = v}}
      /\ \A k \in 1 .. Len(ids) : \E n : ids[k] = FreshId(n)
    BY <1>1, ForVarFinds
<1>3. s = EnsureVarIndex(store)
    OBVIOUS
<1> HIDE DEF ids, s
<1>4. StoreOK(s, born) /\ Cells(s) = Cells(store)
    BY <1>1, <1>3, IndexBuilt
<1>5. \A c \in Cells(s) : c.key \in K => c.id \in Elements(ids)
    BY <1>2, <1>4
<1> HIDE DEF K
<1>6. StoreOK(store', born) /\ MapKeys(store') \subseteq MapKeys(s) \ K
    BY <1>1, <1>2, <1>4, <1>5, RemoveAllKeys
<1>7. MapKeys(store') \subseteq targets' \X vars'
    <2>1. MapKeys(s) \subseteq targets \X vars
        BY <1>1, <1>4 DEF Attached, MapKeys
    <2> QED BY <1>1, <1>6, <2>1 DEF K
<1>8. steps' \in 0 .. MaxSteps
    BY <1>1, StepCounts
<1> QED BY <1>1, <1>7, <1>8 DEF Attached

\* With a constraint or objective go all its cells, and the choice of it.
LEMMA RemoveTargetAttached ==
    ASSUME TypeInv, NEW t, RemoveTarget(t)
    PROVE  Attached'
<1> DEFINE ids == ForTarget(store, t)
           K == {k \in MapKeys(store) : k[1] = t}
<1>1. /\ store' = RemoveAll(store, ids) /\ Step /\ Attached /\ StoreOK(store, born)
      /\ vars' = vars /\ targets' = targets \ {t} /\ pending' = pending
      /\ active' = IF active = t THEN NoObjective ELSE active
    BY DEF RemoveTarget, KeepQueue, TypeInv, BooksInv, StoreInv, InOrder
<1>2. /\ IsList(ids) /\ Elements(ids) = {c.id : c \in {d \in Cells(store) : d.key[1] = t}}
      /\ \A k \in 1 .. Len(ids) : \E n : ids[k] = FreshId(n)
    BY <1>1, ForTargetFinds
<1> HIDE DEF ids
<1>3. \A c \in Cells(store) : c.key \in K => c.id \in Elements(ids)
    BY <1>2
<1> HIDE DEF K
<1>4. StoreOK(store', born) /\ MapKeys(store') \subseteq MapKeys(store) \ K
    BY <1>1, <1>2, <1>3, RemoveAllKeys
<1>5. MapKeys(store') \subseteq targets' \X vars'
    BY <1>1, <1>4 DEF Attached, K
<1>6. active' \in (Objs \cap targets') \cup {NoObjective}
    BY <1>1 DEF Attached
<1>7. steps' \in 0 .. MaxSteps
    BY <1>1, StepCounts
<1> QED BY <1>1, <1>5, <1>6, <1>7 DEF Attached

\* A commit keeps the cells.
LEMMA CommitParametersAttached ==
    ASSUME TypeInv, CommitParameters
    PROVE  Attached'
<1>1. PICK order \in Orders(DOMAIN pending) :
         store' = Applying(order)[Len(blocks) + Len(order)].store
    BY Zenon DEF CommitParameters
<1>2. /\ pending' = <<>> /\ targets' = targets /\ vars' = vars /\ active' = active /\ steps' = steps
      /\ Attached /\ Len(blocks) \in Nat /\ IsFiniteSet(DOMAIN pending) /\ StoreOK(store, born)
    BY DEF CommitParameters, TypeInv, BooksInv, StoreInv, InOrder, IsList
<1>3. Cardinality(DOMAIN pending) \in Nat
    BY <1>2, FS_CardinalityType
<1>4. order \in [1 .. Cardinality(DOMAIN pending) -> DOMAIN pending]
    BY DEF Orders
<1>5. Len(order) \in Nat
    BY <1>3, <1>4
<1>6. StoreOK(store', born) /\ SameCells(store, store')
    BY <1>1, <1>2, <1>5, ApplyingOK
<1>7. MapKeys(store') = MapKeys(store)
    BY <1>6 DEF SameCells, MapKeys
<1>8. DOMAIN pending' = {}
    BY <1>2
<1> QED BY <1>2, <1>7, <1>8 DEF Attached

\* What leaves the cells, the variables and the targets alone.
LEMMA OtherAttached ==
    ASSUME TypeInv,
           \/ Rollback \/ Detach \/ Rebuild \/ UNCHANGED all
           \/ \E o \in Objs \cup {NoObjective} : SetActiveObjective(o)
           \/ \E p \in Params : \E value : SetParameter(p, value)
           \/ \E values : SetParametersBulk(values)
    PROVE  Attached'
<1>1. Attached
    BY DEF TypeInv
<1>2. CASE Rollback
    <2>1. /\ store' = store /\ vars' = vars /\ targets' = targets /\ active' = active
          /\ steps' = steps /\ DOMAIN pending' = {}
        BY <1>2 DEF Rollback, KeepModel
    <2> QED BY <1>1, <2>1 DEF Attached
<1>3. CASE Rebuild \/ UNCHANGED all
    <2>1. /\ store' = store /\ vars' = vars /\ targets' = targets /\ active' = active
          /\ steps' = steps /\ pending' = pending
        BY <1>3 DEF Rebuild, all, model
    <2> QED BY <1>1, <2>1 DEF Attached
<1>4. CASE Detach \/ \E values : SetParametersBulk(values)
    <2>1. /\ store' = store /\ vars' = vars /\ targets' = targets /\ active' = active
          /\ Step /\ pending' = pending
        BY <1>4 DEF Detach, model, SetParametersBulk, KeepModel
    <2>2. steps' \in 0 .. MaxSteps
        BY <1>1, <2>1, StepCounts
    <2> QED BY <1>1, <2>1, <2>2 DEF Attached
<1>5. ASSUME NEW o \in Objs \cup {NoObjective}, SetActiveObjective(o)
      PROVE  Attached'
    <2>1. /\ store' = store /\ vars' = vars /\ targets' = targets /\ active' = o
          /\ Step /\ pending' = pending /\ o \in (targets \cap Objs) \cup {NoObjective}
        BY <1>5 DEF SetActiveObjective, KeepQueue
    <2>2. steps' \in 0 .. MaxSteps
        BY <1>1, <2>1, StepCounts
    <2> QED BY <1>1, <2>1, <2>2 DEF Attached
<1>6. ASSUME NEW p \in Params, NEW value, SetParameter(p, value)
      PROVE  Attached'
    <2>1. /\ store' = store /\ vars' = vars /\ targets' = targets /\ active' = active
          /\ Step /\ DOMAIN pending' = DOMAIN pending \cup {p}
        BY <1>6 DEF SetParameter, KeepModel
    <2>2. steps' \in 0 .. MaxSteps
        BY <1>1, <2>1, StepCounts
    <2> QED BY <1>1, <2>1, <2>2 DEF Attached
<1> QED BY <1>2, <1>3, <1>4, <1>5, <1>6

\* Every step keeps cells attached.
LEMMA StepsKeepTypes ==
    ASSUME TypeInv, [Next]_all
    PROVE  TypeInv'
<1>1. BooksInv'
    BY StepsKeepBooks DEF TypeInv
<1>2. Attached'
    <2>1. ASSUME NEW t \in Targets, AddEmptyTarget(t) \/ RemoveTarget(t) PROVE Attached'
        BY <2>1, AddEmptyTargetAttached, RemoveTargetAttached
    <2>2. ASSUME NEW t \in Targets, NEW terms \in LinearInputs,
                 \/ AddLinearRowsBulk(t, terms)
                 \/ SetLinearObjectiveBulk(t, terms)
                 \/ SetObjectiveExpr(t, terms)
          PROVE  Attached'
        BY <2>2, AddLinearRowsBulkAttached, SetLinearObjectiveBulkAttached, SetObjectiveExprAttached
    <2>3. ASSUME NEW t \in Targets, NEW terms \in ParamInputs, NEW layout \in Layouts,
                 \/ AddLinearRowsParamBulk(t, terms, layout)
                 \/ SetLinearObjectiveParamBulk(t, terms, layout)
          PROVE  Attached'
        BY <2>3, AddLinearRowsParamBulkAttached, SetLinearObjectiveParamBulkAttached
    <2>4. ASSUME NEW key \in Targets \X Vars,
                 \/ \E e \in Exprs : AddCoefficient(key, e)
                 \/ \E value \in Values : SetCoefficient(key, value)
                 \/ RemoveCoefficientAt(key)
          PROVE  Attached'
        BY <2>4, AddCoefficientAttached, SetCoefficientAttached, RemoveCoefficientAtAttached
    <2>5. ASSUME NEW id \in Issued(store), RemoveCoefficient(id) PROVE Attached'
        BY <2>5, RemoveCoefficientAttached
    <2>6. ASSUME NEW v \in Vars, RemoveVariable(v) PROVE Attached'
        BY <2>6, RemoveVariableAttached
    <2>7. CASE CommitParameters
        BY <2>7, CommitParametersAttached
    <2>8. CASE \/ Rollback \/ Detach \/ Rebuild \/ UNCHANGED all
               \/ \E o \in Objs \cup {NoObjective} : SetActiveObjective(o)
               \/ \E p \in Params : \E value : SetParameter(p, value)
               \/ \E values : SetParametersBulk(values)
        BY <2>8, OtherAttached
    <2> QED BY <2>1, <2>2, <2>3, <2>4, <2>5, <2>6, <2>7, <2>8 DEF Next
<1> QED BY <1>1, <1>2 DEF TypeInv

\* At the start nothing is there.
LEMMA TypeInit ==
    ASSUME Init
    PROVE  TypeInv
<1>1. BooksInv
    BY BooksInit
<1>2. Locs(store) = {}
    BY DEF Init, Locs, EmptyStore, PackedLive, ParamLive, OverlayLive
<1>3. MapKeys(store) = {}
    BY <1>2 DEF MapKeys, Cells
<1>4. DOMAIN pending = {} /\ active = NoObjective /\ steps = 0
    BY DEF Init
<1> QED BY <1>1, <1>3, <1>4, StepsAssumption DEF TypeInv, Attached

\* What the invariant says of the types.
LEMMA TypesFollow ==
    ASSUME TypeInv
    PROVE  TypeOK
<1>1. /\ StoreOK(store, born) /\ Shaped(store) /\ Indexed(store) /\ Counted(store) /\ Books(store)
      /\ targets \subseteq born /\ born \subseteq Targets /\ vars \subseteq Vars /\ Attached
    BY DEF TypeInv, BooksInv, StoreInv, InOrder, StoreOK
<1>2. /\ DOMAIN store.base = 1 .. Len(store.base) /\ DOMAIN store.pbase = 1 .. Len(store.pbase)
      /\ store.shadowed \cup store.dead \subseteq DOMAIN store.base
      /\ store.pshadowed \cup store.pdead \subseteq DOMAIN store.pbase
    BY <1>1 DEF Shaped, IsList
<1>3. ASSUME NEW p \in Params
      PROVE  /\ store.positions[p] \subseteq DOMAIN store.pbase
             /\ store.byParam[p] \subseteq OverlayLive(store)
    <2>1. store.positions[p] \subseteq 1 .. Len(store.pbase)
        BY <1>1 DEF Books, PositionsExact, ListedFor
    <2>2. store.byParam[p] \subseteq OverlayLive(store)
        BY <1>1 DEF Books, LinksExact, OverlayFor
    <2> QED BY <1>2, <2>1, <2>2
<1>4. \A k \in DOMAIN store.byCell : store.overlay[store.byCell[k]].data.key = k
    BY <1>1 DEF Indexed
<1>5. store.varIndex \in {NotBuilt, Len(store.base)}
    BY <1>1 DEF Counted
<1>6. Keys \subseteq targets \X vars
    <2>1. Iter(store) = {DataAt(store, l) : l \in Locs(store)}
        BY IterPlaces
    <2>2. \A l \in Locs(store) : DataAt(store, l).key = KeyAt(store, l)
        BY <1>1, PlacePairs
    <2>3. \A l \in Locs(store) : KeyAt(store, l) \in MapKeys(store)
        BY CellParts DEF MapKeys
    <2> QED BY <1>1, <2>1, <2>2, <2>3 DEF Keys, Attached
<1> QED BY <1>1, <1>2, <1>3, <1>4, <1>5, <1>6 DEF TypeOK, Attached

\* Every variable holds a value of its shape, every position that is stored
\* anywhere is one that exists, and no coefficient outlives its constraint,
\* objective or variable (remove_variable, remove_constraint, remove_objective).
THEOREM NothingOutlives == Spec => []TypeOK
<1>1. Init => TypeInv
    BY TypeInit
<1>2. TypeInv /\ [Next]_all => TypeInv'
    BY StepsKeepTypes
<1>3. TypeInv => TypeOK
    BY TypesFollow
<1> QED BY <1>1, <1>2, <1>3, PTL DEF Spec

=============================================================================
