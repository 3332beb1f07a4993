------------------------ MODULE SolverWorkflowsProofs ------------------------
(***************************************************************************)
(* What holds of the workflows of a solver session for every model, task   *)
(* and number of faults: a backend that would not be rebuilt is the        *)
(* compiled base, the stages of a policy share one deadline, and a task    *)
(* only fails for a cause: no overlay the drivers assemble is refused.     *)
(***************************************************************************)
EXTENDS SolverWorkflows, WellFoundedInduction, TLAPS

-----------------------------------------------------------------------------
(* The compiled base only depends on the model                             *)

\* The compiled objectives of a model that does not change.
LEMMA CostFixed ==
    ASSUME UNCHANGED model
    PROVE  /\ \A o : CompiledCost(o)' = CompiledCost(o)
           /\ TemporaryObjective' = TemporaryObjective
<1>1. Domain' = Domain /\ Rows' = Rows /\ Soft' = Soft /\ Objectives' = Objectives
  BY DEF Domain, Rows, Soft, Objectives
<1>2. SoftSides' = SoftSides
  BY DEF SoftSides, RowSides, SidesOf, ActiveSoft, Soft, Rows
<1>3. ASSUME NEW o PROVE CompiledTerms(o)' = CompiledTerms(o)
  BY <1>1, <1>2 DEF CompiledTerms
<1>4. ASSUME NEW o PROVE CompiledCost(o)' = CompiledCost(o)
  BY <1>1, <1>3 DEF CompiledCost, NoCost
<1> QED
  BY <1>1, <1>4 DEF TemporaryObjective

\* The compiled model of a model that does not change.
LEMMA BaseFixed ==
    ASSUME UNCHANGED model
    PROVE  /\ BaseModel' = BaseModel /\ ActiveObjective' = ActiveObjective
           /\ BaseColumns' = BaseColumns /\ BaseRows' = BaseRows
<1>1. Domain' = Domain /\ Rows' = Rows /\ Soft' = Soft /\ ActiveObjective' = ActiveObjective
  BY DEF Domain, Rows, Soft, ActiveObjective
<1>2. SoftSides' = SoftSides /\ ActiveSoft' = ActiveSoft
  BY DEF SoftSides, RowSides, SidesOf, ActiveSoft, Soft, Rows
<1>3. BaseColumns' = BaseColumns
  BY <1>1, <1>2 DEF BaseColumns, EffectiveBounds
<1>4. BaseRows' = BaseRows
  BY <1>1, <1>2 DEF BaseRows
<1>5. CompiledCost(ActiveObjective)' = CompiledCost(ActiveObjective)
  BY <1>1, CostFixed
<1> QED
  BY <1>1, <1>3, <1>4, <1>5 DEF BaseModel

-----------------------------------------------------------------------------
(* Lists                                                                   *)

IsList(q) == q \in Seq(ToSet(q))

\* A set of numbers that is not empty has a least member.
LEMMA LeastNumber ==
    ASSUME NEW S \in SUBSET Nat, S # {}
    PROVE  \E n \in S : \A m \in S : n <= m
<1>1. PICK n \in S : ~\E m \in S : <<m, n>> \in OpToRel(<, Nat)
  BY NatLessThanWellFounded, WFMin
<1> QED
  BY <1>1 DEF OpToRel

\* A function on 1 .. n is a list.
LEMMA MakeList ==
    ASSUME NEW n \in Nat, NEW q, q = [i \in 1 .. n |-> q[i]]
    PROVE  IsList(q) /\ Len(q) = n /\ DOMAIN q = 1 .. n
<1>1. \A i \in 1 .. n : q[i] \in ToSet(q)
  BY DEF ToSet
<1> HIDE DEF ToSet
<1> QED
  BY <1>1 DEF IsList

LEMMA ListFacts ==
    ASSUME NEW q, IsList(q)
    PROVE  /\ Len(q) \in Nat /\ DOMAIN q = 1 .. Len(q) /\ q = [i \in 1 .. Len(q) |-> q[i]]
           /\ \A x : x \in ToSet(q) <=> \E i \in 1 .. Len(q) : q[i] = x
<1>1. Len(q) \in Nat /\ DOMAIN q = 1 .. Len(q) /\ q = [i \in 1 .. Len(q) |-> q[i]]
  BY DEF IsList
<1> QED
  BY <1>1 DEF ToSet

\* Lists with elements of a set are lists.
LEMMA ListOver ==
    ASSUME NEW T, NEW q \in Seq(T)
    PROVE  IsList(q) /\ \A i \in 1 .. Len(q) : q[i] \in T
<1>1. Len(q) \in Nat /\ q = [i \in 1 .. Len(q) |-> q[i]] /\ \A i \in 1 .. Len(q) : q[i] \in T
  OBVIOUS
<1> QED
  BY <1>1, MakeList

\* A list with one more element.
LEMMA Extended ==
    ASSUME NEW q, IsList(q), NEW x
    PROVE  /\ IsList(Append(q, x)) /\ Len(Append(q, x)) = Len(q) + 1
           /\ Last(Append(q, x)) = x /\ Append(q, x) # <<>> /\ Len(q) \in Nat
<1> DEFINE S == ToSet(q) \cup {x}
           r == Append(q, x)
<1>1. q \in Seq(S)
  <2>1. q \in Seq(ToSet(q)) /\ ToSet(q) \subseteq S
    BY DEF IsList
  <2> HIDE DEF S
  <2> QED
    BY <2>1
<1>2. r \in Seq(S) /\ Len(r) = Len(q) + 1 /\ r[Len(q) + 1] = x /\ Len(q) \in Nat
  <2> HIDE DEF S
  <2>1. x \in S
    BY DEF S
  <2> QED
    BY <1>1, <2>1
<1> HIDE DEF r, S
<1>3. r \in Seq(ToSet(r))
  <2>1. DOMAIN r = 1 .. Len(r) /\ Len(r) \in Nat /\ r = [i \in 1 .. Len(r) |-> r[i]]
    BY <1>2
  <2>2. \A i \in 1 .. Len(r) : r[i] \in ToSet(r)
    BY <2>1 DEF ToSet
  <2> HIDE DEF ToSet
  <2> QED
    BY <2>1, <2>2
<1>4. r # <<>>
  BY <1>2
<1>5. Last(r) = x
  BY <1>2 DEF Last
<1> QED
  BY <1>2, <1>3, <1>4, <1>5 DEF IsList, r

\* Named, so that provers see the result and not how it is computed.
Joined(p, q) == p \o q
Followed(q, x, y) == q \o <<x, y>>

LEMMA Concatenated ==
    ASSUME NEW p, IsList(p), NEW q, IsList(q)
    PROVE  /\ IsList(Joined(p, q)) /\ Len(Joined(p, q)) = Len(p) + Len(q)
           /\ \A i \in 1 .. Len(p) : Joined(p, q)[i] = p[i]
           /\ \A i \in 1 .. Len(q) : Joined(p, q)[Len(p) + i] = q[i]
<1> DEFINE S == ToSet(p) \cup ToSet(q)
<1>1. p \in Seq(S) /\ q \in Seq(S)
  <2>1. p \in Seq(ToSet(p)) /\ ToSet(p) \subseteq S /\ q \in Seq(ToSet(q)) /\ ToSet(q) \subseteq S
    BY DEF IsList
  <2> HIDE DEF S
  <2> QED
    BY <2>1
<1> HIDE DEF S
<1>2. /\ Joined(p, q) \in Seq(S) /\ Len(Joined(p, q)) = Len(p) + Len(q) /\ Len(p) \in Nat /\ Len(q) \in Nat
      /\ \A i \in 1 .. Len(p) : Joined(p, q)[i] = p[i]
      /\ \A i \in 1 .. Len(q) : Joined(p, q)[Len(p) + i] = q[i]
  BY <1>1 DEF Joined
<1>3. IsList(Joined(p, q))
  BY <1>2, ListOver
<1> QED
  BY <1>2, <1>3

\* The members of a set, in ascending order.
LEMMA AscendingMembers ==
    ASSUME NEW ids, NEW n \in Nat
    PROVE  IsList(Ascending(ids, n)) /\ ToSet(Ascending(ids, n)) \subseteq ids \cap (1 .. n)
<1> DEFINE Next1(i, q) == IF i \in ids THEN Append(q, i) ELSE q
           Rec(g, m) == g = [i \in 0 .. m |-> IF i = 0 THEN <<>> ELSE Next1(i, g[i - 1])]
           upTo == CHOOSE g : Rec(g, n)
           missing == {m \in Nat : ~\E g : Rec(g, m)}
<1>1. Ascending(ids, n) = upTo[n]
  BY DEF Ascending
<1>2. \A i \in 1 .. n, q \in Seq(ids \cap (1 .. n)) : Next1(i, q) \in Seq(ids \cap (1 .. n))
  OBVIOUS
<1> HIDE DEF Next1
<1>3. missing = {}
  <2> SUFFICES ASSUME missing # {} PROVE FALSE
    OBVIOUS
  <2>1. PICK m \in missing : \A k \in missing : m <= k
    BY LeastNumber
  <2>2. CASE m = 0
    <3>1. Rec([i \in 0 .. 0 |-> <<>>], 0)
      OBVIOUS
    <3> QED
      BY <2>2, <3>1
  <2>3. CASE m # 0
    <3>1. m \in Nat /\ m - 1 \in Nat
      BY <2>3
    <3>2. PICK g : Rec(g, m - 1)
      <4>1. m - 1 \notin missing
        <5> HIDE DEF missing
        <5> QED
          BY <2>1, <3>1
      <4> QED
        BY <3>1, <4>1
    <3> DEFINE h == [i \in 0 .. m |-> IF i = m THEN Next1(m, g[m - 1]) ELSE g[i]]
    <3>3. \A i \in 0 .. m : h[i] = IF i = 0 THEN <<>> ELSE Next1(i, h[i - 1])
      BY <2>3, <3>1, <3>2
    <3>4. Rec(h, m)
      BY <3>3
    <3> QED
      BY <3>4
  <2> QED
    BY <2>2, <2>3
<1>4. Rec(upTo, n)
  <2>1. \E g : Rec(g, n)
    BY <1>3
  <2> HIDE DEF Rec
  <2> QED
    BY <2>1
<1> HIDE DEF upTo
<1> DEFINE lost == {k \in Nat : k <= n /\ upTo[k] \notin Seq(ids \cap (1 .. n))}
<1>5. lost = {}
  <2> SUFFICES ASSUME lost # {} PROVE FALSE
    OBVIOUS
  <2>1. PICK m \in lost : \A k \in lost : m <= k
    BY LeastNumber
  <2>2. CASE m = 0
    BY <1>4, <2>2
  <2>3. CASE m # 0
    <3>1. m \in 1 .. n /\ m - 1 \in Nat /\ m - 1 <= n
      BY <2>3
    <3>2. upTo[m - 1] \in Seq(ids \cap (1 .. n))
      <4>1. m - 1 \notin lost
        <5> HIDE DEF lost
        <5> QED
          BY <2>1, <3>1
      <4> QED
        BY <3>1, <4>1
    <3>3. upTo[m] = Next1(m, upTo[m - 1])
      BY <1>4, <3>1
    <3> QED
      BY <1>2, <3>1, <3>2, <3>3
  <2> QED
    BY <2>2, <2>3
<1>6. upTo[n] \in Seq(ids \cap (1 .. n))
  BY <1>5
<1> HIDE DEF lost, missing, Rec
<1>7. IsList(upTo[n]) /\ \A i \in 1 .. Len(upTo[n]) : upTo[n][i] \in ids \cap (1 .. n)
  BY <1>6, ListOver
<1> QED
  BY <1>1, <1>7, ListFacts

\* Lists of members, one after the other.
LEMMA FlattenedMembers ==
    ASSUME NEW T, NEW seqs \in Seq(Seq(T))
    PROVE  FlattenSeq(seqs) \in Seq(T)
<1> DEFINE n == Len(seqs)
           Join(x, i) == x \o seqs[i]
           Rec(g, m) == g = [i \in 1 .. m |-> IF i = 1 THEN seqs[i] ELSE Join(g[i - 1], i)]
           flat == CHOOSE g : Rec(g, n)
           missing == {m \in Nat : m <= n /\ ~\E g : Rec(g, m)}
<1>1. FlattenSeq(seqs) = IF n = 0 THEN seqs ELSE flat[n]
  BY DEF FlattenSeq
<1>2. n \in Nat /\ \A i \in 1 .. n : seqs[i] \in Seq(T)
  OBVIOUS
<1>3. \A i \in 1 .. n, x \in Seq(T) : Join(x, i) \in Seq(T)
  BY <1>2
<1> HIDE DEF Join, n
<1>4. missing = {}
  <2> SUFFICES ASSUME missing # {} PROVE FALSE
    OBVIOUS
  <2>1. PICK m \in missing : \A k \in missing : m <= k
    BY LeastNumber
  <2>2. CASE m = 0
    <3>1. Rec([i \in 1 .. 0 |-> <<>>], 0)
      OBVIOUS
    <3> QED
      BY <2>2, <3>1
  <2>3. CASE m # 0
    <3>1. m \in Nat /\ m - 1 \in Nat /\ m - 1 <= n
      BY <1>2, <2>3
    <3>2. PICK g : Rec(g, m - 1)
      <4>1. m - 1 \notin missing
        <5> HIDE DEF missing
        <5> QED
          BY <2>1, <3>1
      <4> QED
        BY <3>1, <4>1
    <3> DEFINE last == IF m = 1 THEN seqs[m] ELSE Join(g[m - 1], m)
               h == [i \in 1 .. m |-> IF i = m THEN last ELSE g[i]]
    <3>3. ASSUME NEW i \in 1 .. m
          PROVE  h[i] = IF i = 1 THEN seqs[i] ELSE Join(h[i - 1], i)
      <4>1. CASE i = m
        BY <3>1, <4>1
      <4>2. CASE i # m
        <5>1. i \in 1 .. (m - 1) /\ h[i] = g[i]
          BY <3>1, <4>2
        <5>2. i # 1 => h[i - 1] = g[i - 1]
          BY <3>1, <4>2
        <5>3. g[i] = IF i = 1 THEN seqs[i] ELSE Join(g[i - 1], i)
          BY <3>2, <5>1
        <5> QED
          BY <5>1, <5>2, <5>3
      <4> QED
        BY <4>1, <4>2
    <3>4. h = [i \in 1 .. m |-> h[i]]
      OBVIOUS
    <3> HIDE DEF h
    <3>5. Rec(h, m)
      BY <3>3, <3>4
    <3> QED
      BY <3>5
  <2> QED
    BY <2>2, <2>3
<1>5. Rec(flat, n)
  <2>1. n \notin missing
    BY <1>4
  <2>2. \E g : Rec(g, n)
    BY <1>2, <2>1
  <2> HIDE DEF Rec
  <2> QED
    BY <2>2
<1> HIDE DEF flat
<1> DEFINE lost == {k \in Nat : 1 <= k /\ k <= n /\ flat[k] \notin Seq(T)}
<1>6. lost = {}
  <2> SUFFICES ASSUME lost # {} PROVE FALSE
    OBVIOUS
  <2>1. PICK m \in lost : \A k \in lost : m <= k
    BY LeastNumber
  <2>2. m \in 1 .. n /\ m \in Nat
    BY <1>2
  <2>3. flat[m] = IF m = 1 THEN seqs[m] ELSE Join(flat[m - 1], m)
    BY <1>5, <2>2
  <2>4. CASE m = 1
    BY <1>2, <2>2, <2>3, <2>4
  <2>5. CASE m # 1
    <3>1. m - 1 \in Nat /\ 1 <= m - 1 /\ m - 1 <= n
      BY <1>2, <2>2, <2>5
    <3>2. flat[m - 1] \in Seq(T)
      <4>1. m - 1 \notin lost
        <5> HIDE DEF lost
        <5> QED
          BY <2>1, <2>2, <3>1
      <4> QED
        BY <3>1, <4>1
    <3>3. flat[m] \in Seq(T)
      BY <1>3, <2>2, <2>3, <2>5, <3>2
    <3> QED
      BY <3>3
  <2> QED
    BY <2>4, <2>5
<1>7. CASE n = 0
  <2>1. seqs = <<>>
    BY <1>7 DEF n
  <2> QED
    BY <1>1, <1>7, <2>1
<1>8. CASE n # 0
  <2>1. n \notin lost
    BY <1>6
  <2>2. flat[n] \in Seq(T)
    BY <1>2, <1>8, <2>1
  <2> QED
    BY <1>1, <1>8, <2>2
<1> QED
  BY <1>7, <1>8

-----------------------------------------------------------------------------
(* The numbers of the compiled base                                        *)

\* A model is consistent.
LEMMA ModelShape ==
    ASSUME model \in Models
    PROVE  /\ Len(Domain) \in Nat /\ Vars = 1 .. Len(Domain)
           /\ Len(Rows) \in Nat /\ DOMAIN Rows = 1 .. Len(Rows)
           /\ Len(Objectives) \in Nat /\ DOMAIN Objectives = 1 .. Len(Objectives)
           /\ DOMAIN Soft \subseteq DOMAIN Rows
           /\ \A r \in DOMAIN Rows : DOMAIN Rows[r].terms \subseteq Vars
           /\ \A o \in DOMAIN Objectives : DOMAIN Objectives[o].terms \subseteq Vars
<1>1. /\ Domain \in Seq(ToSet(Domain)) /\ Rows \in Seq(ToSet(Rows)) /\ Objectives \in Seq(ToSet(Objectives))
      /\ DOMAIN Soft \subseteq DOMAIN Rows
      /\ \A r \in DOMAIN Rows : DOMAIN Rows[r].terms \subseteq Vars
      /\ \A o \in DOMAIN Objectives : DOMAIN Objectives[o].terms \subseteq Vars
  BY ModelsAssumption DEF Domain, Rows, Soft, Objectives, Vars
<1>2. \A q : q \in Seq(ToSet(q)) => Len(q) \in Nat /\ DOMAIN q = 1 .. Len(q)
  OBVIOUS
<1> QED
  BY <1>1, <1>2 DEF Vars

LEMMA SidesList == \A bounds : Sides(bounds) \in Seq({"lower", "upper"})
<1> TAKE bounds
<1> DEFINE p == IF bounds.lo # -Inf THEN <<"lower">> ELSE <<>>
           q == IF bounds.hi # Inf THEN <<"upper">> ELSE <<>>
<1>1. p \in Seq({"lower", "upper"}) /\ q \in Seq({"lower", "upper"})
  <2>1. /\ <<>> \in Seq({"lower", "upper"})
        /\ <<"lower">> \in Seq({"lower", "upper"}) /\ <<"upper">> \in Seq({"lower", "upper"})
    OBVIOUS
  <2>2. p \in {<<>>, <<"lower">>} /\ q \in {<<>>, <<"upper">>}
    OBVIOUS
  <2> HIDE DEF p, q
  <2> QED
    BY <2>1, <2>2
<1>2. Sides(bounds) = p \o q
  BY DEF Sides
<1> HIDE DEF p, q
<1> QED
  BY <1>1, <1>2

\* The sides of rows, one row after the other.
LEMMA RowSidesMembers ==
    ASSUME NEW rows, IsList(rows), NEW S, ToSet(rows) \subseteq S
    PROVE  /\ IsList(RowSides(rows))
           /\ \A i \in 1 .. Len(RowSides(rows)) : RowSides(rows)[i].row \in S
<1> DEFINE T == [row : S, side : {"lower", "upper"}]
           seqs == [k \in DOMAIN rows |-> SidesOf(rows[k])]
<1>1. Len(rows) \in Nat /\ DOMAIN rows = 1 .. Len(rows) /\ \A k \in DOMAIN rows : rows[k] \in S
  BY ListFacts
<1>2. ASSUME NEW r \in S PROVE SidesOf(r) \in Seq(T)
  <2>1. Sides(Rows[r]) \in Seq({"lower", "upper"})
    BY SidesList
  <2>2. /\ Len(Sides(Rows[r])) \in Nat /\ DOMAIN Sides(Rows[r]) = 1 .. Len(Sides(Rows[r]))
        /\ \A k \in DOMAIN Sides(Rows[r]) : Sides(Rows[r])[k] \in {"lower", "upper"}
    BY <2>1
  <2> QED
    BY <2>2 DEF SidesOf
<1> HIDE DEF T
<1>3. seqs \in Seq(Seq(T))
  BY <1>1, <1>2
<1>4. FlattenSeq(seqs) \in Seq(T)
  BY <1>3, FlattenedMembers
<1>5. RowSides(rows) \in Seq(T)
  BY <1>4 DEF RowSides
<1> HIDE DEF seqs
<1>6. IsList(RowSides(rows)) /\ \A i \in 1 .. Len(RowSides(rows)) : RowSides(rows)[i] \in T
  BY <1>5, ListOver
<1>7. \A t \in T : t.row \in S
  BY DEF T
<1> QED
  BY <1>6, <1>7

\* The columns and rows of the base are numbered from one, those of the user first.
LEMMA BaseNumbers ==
    ASSUME model \in Models
    PROVE  /\ NextColumn \in Nat /\ NextRow \in Nat /\ NextColumn >= 1 /\ NextRow >= 1 /\ Len(SoftSides) \in Nat
           /\ DOMAIN SoftSides = 1 .. Len(SoftSides) /\ NextColumn = Len(Domain) + Len(SoftSides) + 1
           /\ DOMAIN BaseColumns = 1 .. (NextColumn - 1) /\ DOMAIN BaseRows = 1 .. (NextRow - 1)
           /\ Vars \subseteq 1 .. (NextColumn - 1) /\ DOMAIN Rows \subseteq 1 .. (NextRow - 1)
<1>1. /\ Len(Domain) \in Nat /\ Vars = 1 .. Len(Domain)
      /\ Len(Rows) \in Nat /\ DOMAIN Rows = 1 .. Len(Rows)
  BY ModelShape
<1>2. IsList(SoftSides)
  <2>1. IsList(Ascending(ActiveSoft, Len(Rows)))
    BY <1>1, AscendingMembers
  <2> QED
    BY <2>1, RowSidesMembers DEF SoftSides
<1>3. Len(SoftSides) \in Nat /\ DOMAIN SoftSides = 1 .. Len(SoftSides)
  BY <1>2, ListFacts
<1> DEFINE c == Len(Domain) + Len(SoftSides)
           r == Len(Rows) + Len(SoftSides)
<1>4. c \in Nat /\ r \in Nat
  BY <1>1, <1>3
<1>5. DOMAIN BaseColumns = 1 .. c /\ BaseColumns = [i \in 1 .. c |-> BaseColumns[i]]
  BY DEF BaseColumns
<1>6. DOMAIN BaseRows = 1 .. r /\ BaseRows = [i \in 1 .. r |-> BaseRows[i]]
  BY DEF BaseRows
<1>7. Len(BaseColumns) = c /\ Len(BaseRows) = r
  <2> HIDE DEF c, r
  <2> QED
    BY <1>4, <1>5, <1>6, MakeList
<1>8. NextColumn = c + 1 /\ NextRow = r + 1
  BY <1>7 DEF NextColumn, NextRow
<1> QED
  BY <1>1, <1>3, <1>5, <1>6, <1>8

\* The columns a compiled objective mentions are columns of the base.
LEMMA CompiledMentions ==
    ASSUME model \in Models, NEW o \in DOMAIN Objectives
    PROVE  DOMAIN CompiledTerms(o) \subseteq 1 .. (NextColumn - 1)
<1>1. /\ NextColumn \in Nat /\ Len(SoftSides) \in Nat /\ Len(Domain) \in Nat
      /\ DOMAIN SoftSides = 1 .. Len(SoftSides) /\ NextColumn = Len(Domain) + Len(SoftSides) + 1
      /\ Vars \subseteq 1 .. (NextColumn - 1)
  BY BaseNumbers, ModelShape
<1>2. DOMAIN Objectives[o].terms \subseteq Vars
  BY ModelShape
<1>3. PICK paid \in SUBSET DOMAIN SoftSides :
         DOMAIN CompiledTerms(o) = DOMAIN Objectives[o].terms \cup {Len(Domain) + i : i \in paid}
  BY DEF CompiledTerms, Plus
<1>4. ASSUME NEW i \in paid PROVE Len(Domain) + i \in 1 .. (NextColumn - 1)
  <2>1. i \in 1 .. Len(SoftSides)
    BY <1>1
  <2> QED
    BY <1>1, <2>1
<1>5. {Len(Domain) + i : i \in paid} \subseteq 1 .. (NextColumn - 1)
  BY <1>4
<1> QED
  BY <1>1, <1>2, <1>3, <1>5

\* The columns a level mentions are columns of the base.
LEMMA CombinedMentions ==
    ASSUME model \in Models, NEW weights, DOMAIN weights \subseteq DOMAIN Objectives
    PROVE  DOMAIN CombinedTerms(weights) \subseteq 1 .. (NextColumn - 1)
<1>1. DOMAIN CombinedTerms(weights) = UNION {DOMAIN CompiledTerms(o) : o \in DOMAIN weights}
  BY DEF CombinedTerms
<1> QED
  BY <1>1, CompiledMentions

-----------------------------------------------------------------------------
(* Valid overlays                                                          *)

\* An operation may come next: what it names exists, what it adds is new.
MayFollow(ops, o) ==
    LET cols == DOMAIN native.cols \cup Before(ops, Len(ops) + 1, "column")
        rows == DOMAIN native.rows \cup Before(ops, Len(ops) + 1, "row")
        temporary == \E k \in 1 .. Len(ops) : ops[k].op = "objective"
    IN  \/ o.op = "column" /\ o.id \notin cols
        \/ o.op = "row" /\ o.id \notin rows /\ DOMAIN o.terms \subseteq cols
        \/ o.op = "columnBounds" /\ o.id \in cols
        \/ o.op = "rowBounds" /\ o.id \in rows
        \/ o.op = "objective" /\ ~temporary /\ DOMAIN o.terms \subseteq cols
        \/ o.op = "policy" /\ (o.objective = TemporaryObjective => temporary)

\* A list with one or two more elements.
LEMMA AppendedList ==
    ASSUME NEW q, IsList(q), NEW x
    PROVE  /\ Len(Append(q, x)) = Len(q) + 1 /\ Len(q) \in Nat /\ Len(q) + 1 \in Nat
           /\ IsList(Append(q, x)) /\ DOMAIN q = 1 .. Len(q) /\ DOMAIN Append(q, x) = 1 .. (Len(q) + 1)
           /\ \A i \in 1 .. Len(q) : Append(q, x)[i] = q[i]
           /\ Append(q, x)[Len(q) + 1] = x
<1> DEFINE r == Append(q, x)
<1>1. IsList(r) /\ Len(r) = Len(q) + 1 /\ Len(q) \in Nat /\ DOMAIN q = 1 .. Len(q)
  BY Extended, ListFacts
<1>2. DOMAIN r = 1 .. (Len(q) + 1)
  <2> HIDE DEF r
  <2> QED
    BY <1>1, ListFacts
<1>3. q \in Seq(ToSet(q) \cup {x}) /\ x \in ToSet(q) \cup {x}
  <2>1. q \in Seq(ToSet(q)) /\ ToSet(q) \subseteq ToSet(q) \cup {x}
    BY DEF IsList
  <2> HIDE DEF r
  <2> QED
    BY <2>1
<1>4. (\A i \in 1 .. Len(q) : r[i] = q[i]) /\ r[Len(q) + 1] = x
  BY <1>3
<1> HIDE DEF r
<1> QED
  BY <1>1, <1>2, <1>4 DEF r

LEMMA AppendedTwice ==
    ASSUME NEW q, IsList(q), NEW x, NEW y
    PROVE  Followed(q, x, y) = Append(Append(q, x), y)
<1> DEFINE S == ToSet(q) \cup {x, y}
<1>1. q \in Seq(S)
  <2>1. q \in Seq(ToSet(q)) /\ ToSet(q) \subseteq S
    BY DEF IsList
  <2> HIDE DEF S
  <2> QED
    BY <2>1
<1>2. x \in S /\ y \in S
  OBVIOUS
<1> HIDE DEF S
<1> QED
  BY <1>1, <1>2 DEF Followed

LEMMA ValidGrows ==
    ASSUME NEW ops, Valid(ops), NEW o, MayFollow(ops, o)
    PROVE  Valid(Append(ops, o))
<1> DEFINE more == Append(ops, o)
           m == Len(ops) + 1
<1>1. IsList(ops)
  BY DEF Valid, IsList
<1>2. /\ IsList(more) /\ Len(more) = m /\ Len(ops) \in Nat /\ m \in Nat
      /\ DOMAIN ops = 1 .. Len(ops) /\ DOMAIN more = 1 .. m
      /\ \A i \in 1 .. Len(ops) : more[i] = ops[i]
      /\ more[m] = o
  BY <1>1, AppendedList
<1> HIDE DEF more
<1>3. ASSUME NEW i \in 1 .. m, NEW kind PROVE Before(more, i, kind) = Before(ops, i, kind)
  BY <1>2 DEF Before
<1>4. ASSUME NEW i \in 1 .. m
      PROVE  (\E k \in 1 .. (i - 1) : more[k].op = "objective") <=> (\E k \in 1 .. (i - 1) : ops[k].op = "objective")
  BY <1>2
<1> SUFFICES ASSUME NEW i \in DOMAIN more
             PROVE  LET cols == DOMAIN native.cols \cup Before(more, i, "column")
                        rows == DOMAIN native.rows \cup Before(more, i, "row")
                        temporary == \E k \in 1 .. (i - 1) : more[k].op = "objective"
                    IN  CASE more[i].op = "column" -> more[i].id \notin cols
                          [] more[i].op = "row" -> more[i].id \notin rows /\ DOMAIN more[i].terms \subseteq cols
                          [] more[i].op = "columnBounds" -> more[i].id \in cols
                          [] more[i].op = "rowBounds" -> more[i].id \in rows
                          [] more[i].op = "objective" -> ~temporary /\ DOMAIN more[i].terms \subseteq cols
                          [] more[i].op = "policy" -> more[i].objective = TemporaryObjective => temporary
  BY <1>2 DEF Valid, IsList, more
<1>5. CASE i \in DOMAIN ops
  <2>1. more[i] = ops[i] /\ i \in 1 .. m
    BY <1>2, <1>5
  <2>2. Before(more, i, "column") = Before(ops, i, "column") /\ Before(more, i, "row") = Before(ops, i, "row")
    BY <1>3, <2>1
  <2>3. (\E k \in 1 .. (i - 1) : more[k].op = "objective") <=> (\E k \in 1 .. (i - 1) : ops[k].op = "objective")
    BY <1>4, <2>1
  <2> QED
    BY <1>5, <2>1, <2>2, <2>3 DEF Valid
<1>6. CASE i = m
  <2>1. more[i] = o /\ i - 1 = Len(ops) /\ i = Len(ops) + 1 /\ i \in 1 .. m
    BY <1>2, <1>6
  <2>2. Before(more, i, "column") = Before(ops, Len(ops) + 1, "column")
        /\ Before(more, i, "row") = Before(ops, Len(ops) + 1, "row")
    BY <1>3, <2>1
  <2>3. (\E k \in 1 .. (i - 1) : more[k].op = "objective") <=> (\E k \in 1 .. Len(ops) : ops[k].op = "objective")
    BY <1>4, <2>1
  <2> QED
    BY <2>1, <2>2, <2>3 DEF MayFollow
<1>7. i \in DOMAIN ops \/ i = m
  BY <1>2
<1> QED
  BY <1>5, <1>6, <1>7

\* The columns and rows there are after some operations.
ColumnsAfter(ops) == DOMAIN native.cols \cup Before(ops, Len(ops) + 1, "column")
RowsAfter(ops) == DOMAIN native.rows \cup Before(ops, Len(ops) + 1, "row")
NoObjective(ops) == \A k \in 1 .. Len(ops) : ops[k].op # "objective"

\* What one more operation adds.
LEMMA OneMoreOperation ==
    ASSUME NEW ops, IsList(ops), NEW o
    PROVE  /\ ColumnsAfter(Append(ops, o)) = ColumnsAfter(ops) \cup (IF o.op = "column" THEN {o.id} ELSE {})
           /\ RowsAfter(Append(ops, o)) = RowsAfter(ops) \cup (IF o.op = "row" THEN {o.id} ELSE {})
           /\ NoObjective(ops) /\ o.op # "objective" => NoObjective(Append(ops, o))
<1> DEFINE more == Append(ops, o)
           m == Len(ops) + 1
<1>1. /\ Len(more) = m /\ Len(ops) \in Nat /\ m \in Nat
      /\ \A i \in 1 .. Len(ops) : more[i] = ops[i]
      /\ more[m] = o
  BY AppendedList
<1> HIDE DEF more
<1>2. ASSUME NEW kind
      PROVE  Before(more, m + 1, kind) = Before(ops, m, kind) \cup (IF o.op = kind THEN {o.id} ELSE {})
  <2>1. \A j : j \in 1 .. m <=> j \in 1 .. Len(ops) \/ j = m
    BY <1>1
  <2>2. m + 1 - 1 = m /\ m - 1 = Len(ops)
    BY <1>1
  <2>3. Before(more, m + 1, kind) = {more[k].id : k \in {j \in 1 .. m : more[j].op = kind}}
    BY <2>2 DEF Before
  <2>4. Before(ops, m, kind) = {ops[k].id : k \in {j \in 1 .. Len(ops) : ops[j].op = kind}}
    BY <2>2 DEF Before
  <2> HIDE DEF m
  <2> QED
    BY <1>1, <2>1, <2>3, <2>4
<1>3. NoObjective(ops) /\ o.op # "objective" => NoObjective(more)
  <2>1. \A j \in 1 .. m : j \in 1 .. Len(ops) \/ j = m
    BY <1>1
  <2> HIDE DEF m
  <2> QED
    BY <1>1, <2>1 DEF NoObjective
<1> QED
  BY <1>1, <1>2, <1>3 DEF ColumnsAfter, RowsAfter, more

\* An overlay under construction: valid so far, with its columns and rows
\* numbered on from those of the base and its terms over its columns.
Assembled(a) ==
    /\ DOMAIN a = {"ops", "terms", "column", "row"}
    /\ Valid(a.ops) /\ NoObjective(a.ops)
    /\ a.column \in Nat /\ a.row \in Nat /\ NextColumn <= a.column /\ NextRow <= a.row
    /\ ColumnsAfter(a.ops) = 1 .. (a.column - 1)
    /\ RowsAfter(a.ops) \subseteq 1 .. (a.row - 1)
    /\ DOMAIN a.terms \subseteq 1 .. (a.column - 1)

LEMMA UpToNext == \A n \in Nat : n >= 1 => 1 .. n = (1 .. (n - 1)) \cup {n} /\ n \notin 1 .. (n - 1) /\ n + 1 - 1 = n
OBVIOUS

\* A column with the next free number.
LEMMA ColumnAdded ==
    ASSUME model \in Models, NEW a, Assembled(a), NEW bounds, NEW b,
           DOMAIN b = {"ops", "terms", "column", "row"},
           b.ops = Append(a.ops, AddTemporaryVariable(a.column, bounds)),
           b.column = a.column + 1, b.row = a.row, DOMAIN b.terms \subseteq 1 .. a.column
    PROVE  Assembled(b)
<1> DEFINE x == AddTemporaryVariable(a.column, bounds)
<1>1. /\ Valid(a.ops) /\ NoObjective(a.ops) /\ a.column \in Nat /\ a.row \in Nat
      /\ NextColumn <= a.column /\ NextColumn \in Nat /\ NextColumn >= 1 /\ NextRow <= a.row
      /\ ColumnsAfter(a.ops) = 1 .. (a.column - 1) /\ RowsAfter(a.ops) \subseteq 1 .. (a.row - 1)
      /\ IsList(a.ops)
  BY BaseNumbers DEF Assembled, Valid, IsList
<1>2. x.op = "column" /\ x.id = a.column
  BY DEF AddTemporaryVariable
<1>3. 1 .. a.column = (1 .. (a.column - 1)) \cup {a.column} /\ a.column \notin 1 .. (a.column - 1)
      /\ b.column - 1 = a.column
  BY <1>1, UpToNext
<1> HIDE DEF x
<1>4. MayFollow(a.ops, x)
  BY <1>1, <1>2, <1>3 DEF MayFollow, ColumnsAfter
<1>5. Valid(b.ops)
  BY <1>1, <1>4, ValidGrows DEF x
<1>6. ColumnsAfter(b.ops) = ColumnsAfter(a.ops) \cup {a.column} /\ RowsAfter(b.ops) = RowsAfter(a.ops)
      /\ NoObjective(b.ops)
  <2>1. /\ ColumnsAfter(Append(a.ops, x)) = ColumnsAfter(a.ops) \cup (IF x.op = "column" THEN {x.id} ELSE {})
        /\ RowsAfter(Append(a.ops, x)) = RowsAfter(a.ops) \cup (IF x.op = "row" THEN {x.id} ELSE {})
        /\ NoObjective(a.ops) /\ x.op # "objective" => NoObjective(Append(a.ops, x))
    BY <1>1, OneMoreOperation
  <2>2. b.ops = Append(a.ops, x)
    BY DEF x
  <2> QED
    BY <1>1, <1>2, <2>1, <2>2
<1>7. b.column \in Nat /\ b.row \in Nat /\ NextColumn <= b.column /\ NextRow <= b.row
  BY <1>1
<1> QED
  BY <1>1, <1>3, <1>5, <1>6, <1>7 DEF Assembled

\* A row with the next free number over columns there are.
LEMMA RowAdded ==
    ASSUME model \in Models, NEW a, Assembled(a), NEW terms, DOMAIN terms \subseteq 1 .. (a.column - 1),
           NEW span, NEW b, DOMAIN b = {"ops", "terms", "column", "row"},
           b.ops = Append(a.ops, AddTemporaryRow(a.row, terms, span)),
           b.column = a.column, b.row = a.row + 1, DOMAIN b.terms \subseteq 1 .. (a.column - 1)
    PROVE  Assembled(b)
<1> DEFINE y == AddTemporaryRow(a.row, terms, span)
<1>1. /\ Valid(a.ops) /\ NoObjective(a.ops) /\ a.column \in Nat /\ a.row \in Nat
      /\ NextColumn <= a.column /\ NextRow <= a.row /\ NextRow \in Nat /\ NextRow >= 1
      /\ ColumnsAfter(a.ops) = 1 .. (a.column - 1) /\ RowsAfter(a.ops) \subseteq 1 .. (a.row - 1)
      /\ IsList(a.ops)
  BY BaseNumbers DEF Assembled, Valid, IsList
<1>2. y.op = "row" /\ y.id = a.row /\ y.terms = terms
  BY DEF AddTemporaryRow
<1>3. 1 .. a.row = (1 .. (a.row - 1)) \cup {a.row} /\ a.row \notin 1 .. (a.row - 1)
      /\ b.row - 1 = a.row
  BY <1>1, UpToNext
<1> HIDE DEF y
<1>4. MayFollow(a.ops, y)
  BY <1>1, <1>2, <1>3 DEF MayFollow, ColumnsAfter, RowsAfter
<1>5. Valid(b.ops)
  BY <1>1, <1>4, ValidGrows DEF y
<1>6. ColumnsAfter(b.ops) = ColumnsAfter(a.ops) /\ RowsAfter(b.ops) = RowsAfter(a.ops) \cup {a.row}
      /\ NoObjective(b.ops)
  <2>1. /\ ColumnsAfter(Append(a.ops, y)) = ColumnsAfter(a.ops) \cup (IF y.op = "column" THEN {y.id} ELSE {})
        /\ RowsAfter(Append(a.ops, y)) = RowsAfter(a.ops) \cup (IF y.op = "row" THEN {y.id} ELSE {})
        /\ NoObjective(a.ops) /\ y.op # "objective" => NoObjective(Append(a.ops, y))
    BY <1>1, OneMoreOperation
  <2>2. b.ops = Append(a.ops, y)
    BY DEF y
  <2> QED
    BY <1>1, <1>2, <2>1, <2>2
<1>7. b.column \in Nat /\ b.row \in Nat /\ NextColumn <= b.column /\ NextRow <= b.row
  BY <1>1
<1>8. RowsAfter(b.ops) \subseteq 1 .. (b.row - 1)
  BY <1>1, <1>3, <1>6
<1> QED
  BY <1>1, <1>5, <1>6, <1>7, <1>8 DEF Assembled

\* The column and the row of a violation, with the next free numbers.
LEMMA ViolationAssembled ==
    ASSUME model \in Models, NEW a, Assembled(a), NEW bounds, NEW terms, DOMAIN terms \subseteq 1 .. (a.column - 1),
           NEW sign, NEW span, NEW weight, NEW b,
           b = [ops |-> a.ops \o <<AddTemporaryVariable(a.column, bounds),
                                   AddTemporaryRow(a.row, Plus(terms, Only(a.column, sign)), span)>>,
                terms |-> Plus(a.terms, Only(a.column, weight)),
                column |-> a.column + 1,
                row |-> a.row + 1]
    PROVE  Assembled(b) /\ b.column = a.column + 1
<1> DEFINE x == AddTemporaryVariable(a.column, bounds)
           long == Plus(terms, Only(a.column, sign))
           y == AddTemporaryRow(a.row, long, span)
           sum == Plus(a.terms, Only(a.column, weight))
           one == Append(a.ops, x)
           c == [ops |-> one, terms |-> sum, column |-> a.column + 1, row |-> a.row]
<1>1. IsList(a.ops) /\ a.column \in Nat /\ a.column >= 1 /\ DOMAIN a.terms \subseteq 1 .. (a.column - 1)
  BY BaseNumbers DEF Assembled, Valid, IsList
<1>2. DOMAIN long = DOMAIN terms \cup {a.column} /\ DOMAIN sum = DOMAIN a.terms \cup {a.column}
  BY DEF Plus, Only
<1>3. 1 .. a.column = (1 .. (a.column - 1)) \cup {a.column} /\ a.column + 1 - 1 = a.column
  BY <1>1, UpToNext
<1>4. DOMAIN long \subseteq 1 .. a.column /\ DOMAIN sum \subseteq 1 .. a.column
  <2> HIDE DEF long, sum
  <2> QED
    BY <1>1, <1>2, <1>3
<1>5. b.ops = Append(one, y)
  <2>1. b.ops = Followed(a.ops, x, y)
    BY DEF Followed
  <2> HIDE DEF x, y
  <2>2. Followed(a.ops, x, y) = Append(Append(a.ops, x), y)
    BY <1>1, AppendedTwice
  <2> QED
    BY <2>1, <2>2
<1> HIDE DEF one, x, y, long, sum
<1>6. /\ DOMAIN c = {"ops", "terms", "column", "row"} /\ c.ops = one /\ c.terms = sum
      /\ c.column = a.column + 1 /\ c.row = a.row
  OBVIOUS
<1>7. /\ DOMAIN b = {"ops", "terms", "column", "row"} /\ b.terms = sum
      /\ b.column = a.column + 1 /\ b.row = a.row + 1
  BY DEF sum
<1> HIDE DEF c
<1>8. Assembled(c)
  BY <1>4, <1>6, ColumnAdded DEF one, x
<1>9. Assembled(b)
  <2>1. /\ DOMAIN long \subseteq 1 .. (c.column - 1) /\ DOMAIN b.terms \subseteq 1 .. (c.column - 1)
        /\ b.column = c.column /\ b.row = c.row + 1
    BY <1>3, <1>4, <1>6, <1>7
  <2>2. b.ops = Append(c.ops, AddTemporaryRow(c.row, long, span))
    BY <1>5, <1>6 DEF y
  <2> QED
    BY <1>7, <1>8, <2>1, <2>2, RowAdded
<1> QED
  BY <1>7, <1>9

-----------------------------------------------------------------------------
(* The overlay of a stage                                                  *)

LEMMA GreatestOf ==
    ASSUME NEW m \in Nat, NEW s \in SUBSET (1 .. m), m \in s
    PROVE  Max(s) = m
<1>1. \A x \in s : (\A y \in s : x >= y) => x = m
  OBVIOUS
<1>2. \A y \in s : m >= y
  OBVIOUS
<1> QED
  BY <1>1, <1>2 DEF Max

\* A scalar over columns of the base, with penalties of rows of the model.
ProperScalar(s) ==
    /\ DOMAIN s.terms \subseteq 1 .. (NextColumn - 1)
    /\ IsList(s.penalties) /\ ToSet(s.penalties) \subseteq DOMAIN Rows

\* The violation columns and rows of a scalar's penalties, one after the other.
LEMMA PenaltiesAssembled ==
    ASSUME model \in Models, NEW a, Assembled(a), NEW scalar, ProperScalar(scalar)
    PROVE  /\ Assembled(MaterializePenalties(a, scalar))
           /\ a.column <= MaterializePenalties(a, scalar).column
<1> DEFINE q == RowSides(scalar.penalties)
           n == Len(q)
           start == [a EXCEPT !.terms = scalar.terms]
           Op(c, x) == AddViolation(c, x.row, x.side)
           Good(c) == Assembled(c) /\ a.column <= c.column
           Rec(g, S) == g = [s \in SUBSET S |-> IF s = {} THEN start ELSE Op(g[s \ {Max(s)}], q[Max(s)])]
           fold == CHOOSE g : Rec(g, DOMAIN q)
           missing == {m \in Nat : ~\E g : Rec(g, 1 .. m)}
<1>1. MaterializePenalties(a, scalar) = fold[DOMAIN q]
  BY DEF MaterializePenalties, FoldLeft, MapThenFoldSet
<1>2. n \in Nat /\ DOMAIN q = 1 .. n
  BY RowSidesMembers, ListFacts DEF ProperScalar
<1>3. Good(start) /\ \A c, k : Good(c) /\ k \in 1 .. n => Good(Op(c, q[k]))
  <2>1. /\ a.column \in Nat /\ NextColumn <= a.column /\ NextColumn \in Nat
        /\ DOMAIN scalar.terms \subseteq 1 .. (NextColumn - 1) /\ Vars \subseteq 1 .. (NextColumn - 1)
        /\ \A r \in DOMAIN Rows : DOMAIN Rows[r].terms \subseteq Vars
        /\ DOMAIN a = {"ops", "terms", "column", "row"}
    BY BaseNumbers, ModelShape DEF Assembled, ProperScalar
  <2>2. Good(start)
    <3>1. /\ DOMAIN start = {"ops", "terms", "column", "row"} /\ start.ops = a.ops
          /\ start.column = a.column /\ start.row = a.row /\ start.terms = scalar.terms
      BY <2>1
    <3> HIDE DEF start
    <3>2. DOMAIN start.terms \subseteq 1 .. (start.column - 1)
      BY <2>1, <3>1
    <3>3. Assembled(start)
      BY <3>1, <3>2 DEF Assembled
    <3> QED
      BY <2>1, <3>1, <3>3
  <2>3. ASSUME NEW c, NEW k \in 1 .. n, Good(c) PROVE Good(Op(c, q[k]))
    <3>1. q[k].row \in DOMAIN Rows
      BY RowSidesMembers DEF ProperScalar
    <3> DEFINE r == q[k].row
               sign == SideSign(q[k].side)
               span == SideSpan(Rows[r], q[k].side)
               b == Op(c, q[k])
    <3>2. c.column \in Nat /\ DOMAIN Rows[r].terms \subseteq 1 .. (c.column - 1)
      <4>1. c.column \in Nat /\ NextColumn <= c.column
        BY <2>3 DEF Assembled
      <4>2. DOMAIN Rows[r].terms \subseteq 1 .. (NextColumn - 1)
        BY <2>1, <3>1
      <4> HIDE DEF r
      <4> QED
        BY <2>1, <4>1, <4>2
    <3>3. b = [ops |-> c.ops \o <<AddTemporaryVariable(c.column, Span(0, Soft[r].cap)),
                                  AddTemporaryRow(c.row, Plus(Rows[r].terms, Only(c.column, sign)), span)>>,
               terms |-> Plus(c.terms, Only(c.column, Soft[r].weight)),
               column |-> c.column + 1,
               row |-> c.row + 1]
      BY DEF AddViolation
    <3> HIDE DEF Op, q, r, sign, span, b
    <3>4. Assembled(b) /\ b.column = c.column + 1
      BY <2>3, <3>2, <3>3, ViolationAssembled
    <3>5. a.column <= b.column
      BY <2>1, <2>3, <3>2, <3>4
    <3> QED
      BY <3>4, <3>5 DEF b
  <2> HIDE DEF Good, Op, start, n, q
  <2> QED
    BY <2>2, <2>3
<1> HIDE DEF Op, q, n, start, Good
<1>4. missing = {}
  <2> SUFFICES ASSUME missing # {} PROVE FALSE
    OBVIOUS
  <2>1. PICK m \in missing : \A k \in missing : m <= k
    BY LeastNumber
  <2>2. CASE m = 0
    <3>1. Rec([s \in SUBSET (1 .. 0) |-> start], 1 .. 0)
      OBVIOUS
    <3> QED
      BY <2>2, <3>1
  <2>3. CASE m # 0
    <3>1. m \in Nat /\ m - 1 \in Nat
      BY <2>3
    <3>2. PICK g : Rec(g, 1 .. (m - 1))
      <4>1. m - 1 \notin missing
        <5> HIDE DEF missing
        <5> QED
          BY <2>1, <3>1
      <4> QED
        BY <3>1, <4>1
    <3> DEFINE h == [s \in SUBSET (1 .. m) |-> IF m \in s THEN Op(g[s \ {m}], q[m]) ELSE g[s]]
    <3>3. ASSUME NEW s \in SUBSET (1 .. m)
          PROVE  h[s] = IF s = {} THEN start ELSE Op(h[s \ {Max(s)}], q[Max(s)])
      <4>1. CASE m \in s
        <5>1. Max(s) = m /\ s \ {m} \in SUBSET (1 .. m) /\ m \notin s \ {m}
          BY <3>1, <4>1, GreatestOf
        <5> QED
          BY <4>1, <5>1
      <4>2. CASE m \notin s
        <5>1. s \in SUBSET (1 .. (m - 1))
          BY <3>1, <4>2
        <5>2. g[s] = IF s = {} THEN start ELSE Op(g[s \ {Max(s)}], q[Max(s)])
          BY <3>2, <5>1
        <5>3. s \ {Max(s)} \in SUBSET (1 .. m) /\ m \notin s \ {Max(s)}
          BY <4>2
        <5> QED
          BY <4>2, <5>2, <5>3
      <4> QED
        BY <4>1, <4>2
    <3>4. h = [s \in SUBSET (1 .. m) |-> h[s]]
      OBVIOUS
    <3> HIDE DEF h
    <3>5. Rec(h, 1 .. m)
      BY <3>3, <3>4
    <3> QED
      BY <3>5
  <2> QED
    BY <2>2, <2>3
<1>5. Rec(fold, 1 .. n)
  <2>1. \E g : Rec(g, 1 .. n)
    BY <1>2, <1>4
  <2> HIDE DEF Rec
  <2> QED
    BY <1>2, <2>1
<1> DEFINE lost == {k \in Nat : k <= n /\ ~Good(fold[1 .. k])}
<1> HIDE DEF fold
<1>6. lost = {}
  <2> SUFFICES ASSUME lost # {} PROVE FALSE
    OBVIOUS
  <2>1. PICK m \in lost : \A k \in lost : m <= k
    BY LeastNumber
  <2>2. CASE m = 0
    BY <1>3, <1>5, <2>2
  <2>3. CASE m # 0
    <3>1. m \in 1 .. n /\ m - 1 \in Nat /\ m - 1 <= n
      BY <1>2, <2>3
    <3>2. Good(fold[1 .. (m - 1)])
      <4>1. m - 1 \notin lost
        <5> HIDE DEF lost
        <5> QED
          BY <2>1, <3>1
      <4> QED
        BY <3>1, <4>1
    <3>3. Max(1 .. m) = m /\ (1 .. m) \ {m} = 1 .. (m - 1) /\ 1 .. m \in SUBSET (1 .. n) /\ 1 .. m # {}
      <4>1. 1 .. m = (1 .. (m - 1)) \cup {m} /\ m \notin 1 .. (m - 1)
        BY <3>1, UpToNext
      <4>2. 1 .. m \in SUBSET (1 .. n) /\ 1 .. m # {} /\ m \in 1 .. m /\ m \in Nat
        <5>1. m \in Nat /\ m >= 1 /\ m <= n
          BY <1>2, <3>1
        <5>2. m \in 1 .. m
          BY <5>1
        <5>3. \A i \in 1 .. m : i \in 1 .. n
          BY <1>2, <5>1
        <5> QED
          BY <5>1, <5>2, <5>3
      <4>3. Max(1 .. m) = m
        BY <4>2, GreatestOf
      <4>4. (1 .. m) \ {m} = 1 .. (m - 1)
        BY <4>1
      <4> QED
        BY <4>2, <4>3, <4>4
    <3>4. fold[1 .. m] = Op(fold[1 .. (m - 1)], q[m])
      BY <1>5, <3>3
    <3>5. Good(fold[1 .. m])
      BY <1>3, <3>1, <3>2, <3>4
    <3> QED
      BY <3>5
  <2> QED
    BY <2>2, <2>3
<1>7. Good(fold[1 .. n])
  BY <1>2, <1>6
<1> QED
  BY <1>1, <1>2, <1>7 DEF Good

\* The rows of the degradation locks, one after the other.
LEMMA LocksAssembled ==
    ASSUME model \in Models, NEW a, Assembled(a), NEW locks, IsList(locks),
           \A i \in 1 .. Len(locks) : ProperScalar(locks[i].scalar)
    PROVE  /\ Assembled(FoldLeft(AddLock, a, locks))
           /\ a.column <= FoldLeft(AddLock, a, locks).column
<1> DEFINE q == locks
           n == Len(q)
           start == a
           Op(c, x) == AddLock(c, x)
           Good(c) == Assembled(c) /\ a.column <= c.column
           Rec(g, S) == g = [s \in SUBSET S |-> IF s = {} THEN start ELSE Op(g[s \ {Max(s)}], q[Max(s)])]
           fold == CHOOSE g : Rec(g, DOMAIN q)
           missing == {m \in Nat : ~\E g : Rec(g, 1 .. m)}
<1>1. FoldLeft(AddLock, a, locks) = fold[DOMAIN q]
  BY DEF FoldLeft, MapThenFoldSet
<1>2. n \in Nat /\ DOMAIN q = 1 .. n
  BY ListFacts
<1>3. Good(start) /\ \A c, k : Good(c) /\ k \in 1 .. n => Good(Op(c, q[k]))
  <2>1. a.column \in Nat
    BY DEF Assembled
  <2>2. Good(start)
    BY <2>1
  <2>3. ASSUME NEW c, NEW k \in 1 .. n, Good(c) PROVE Good(Op(c, q[k]))
    <3> DEFINE b == MaterializePenalties(c, q[k].scalar)
               span == Span(-Inf, q[k].upper - q[k].scalar.const)
               d == Op(c, q[k])
    <3>1. Assembled(b) /\ c.column <= b.column
      BY <2>3, PenaltiesAssembled
    <3>2. d = [b EXCEPT !.ops = Append(@, AddTemporaryRow(b.row, b.terms, span)), !.row = @ + 1]
      BY DEF AddLock
    <3> HIDE DEF Op, q, b, span, d
    <3>3. /\ DOMAIN b = {"ops", "terms", "column", "row"} /\ b.column \in Nat /\ b.row \in Nat /\ c.column \in Nat
          /\ DOMAIN b.terms \subseteq 1 .. (b.column - 1)
      BY <2>3, <3>1 DEF Assembled
    <3>4. /\ DOMAIN d = {"ops", "terms", "column", "row"}
          /\ d.ops = Append(b.ops, AddTemporaryRow(b.row, b.terms, span))
          /\ d.column = b.column /\ d.row = b.row + 1 /\ d.terms = b.terms
      BY <3>2, <3>3
    <3>5. DOMAIN d.terms \subseteq 1 .. (b.column - 1)
      BY <3>3, <3>4
    <3>6. Assembled(d)
      BY <3>1, <3>3, <3>4, <3>5, RowAdded
    <3>7. a.column <= d.column
      BY <2>1, <2>3, <3>1, <3>3, <3>4
    <3> QED
      BY <3>6, <3>7 DEF d
  <2> HIDE DEF Good, Op, start, n, q
  <2> QED
    BY <2>2, <2>3
<1> HIDE DEF Op, q, n, start, Good
<1>4. missing = {}
  <2> SUFFICES ASSUME missing # {} PROVE FALSE
    OBVIOUS
  <2>1. PICK m \in missing : \A k \in missing : m <= k
    BY LeastNumber
  <2>2. CASE m = 0
    <3>1. Rec([s \in SUBSET (1 .. 0) |-> start], 1 .. 0)
      OBVIOUS
    <3> QED
      BY <2>2, <3>1
  <2>3. CASE m # 0
    <3>1. m \in Nat /\ m - 1 \in Nat
      BY <2>3
    <3>2. PICK g : Rec(g, 1 .. (m - 1))
      <4>1. m - 1 \notin missing
        <5> HIDE DEF missing
        <5> QED
          BY <2>1, <3>1
      <4> QED
        BY <3>1, <4>1
    <3> DEFINE h == [s \in SUBSET (1 .. m) |-> IF m \in s THEN Op(g[s \ {m}], q[m]) ELSE g[s]]
    <3>3. ASSUME NEW s \in SUBSET (1 .. m)
          PROVE  h[s] = IF s = {} THEN start ELSE Op(h[s \ {Max(s)}], q[Max(s)])
      <4>1. CASE m \in s
        <5>1. Max(s) = m /\ s \ {m} \in SUBSET (1 .. m) /\ m \notin s \ {m}
          BY <3>1, <4>1, GreatestOf
        <5> QED
          BY <4>1, <5>1
      <4>2. CASE m \notin s
        <5>1. s \in SUBSET (1 .. (m - 1))
          BY <3>1, <4>2
        <5>2. g[s] = IF s = {} THEN start ELSE Op(g[s \ {Max(s)}], q[Max(s)])
          BY <3>2, <5>1
        <5>3. s \ {Max(s)} \in SUBSET (1 .. m) /\ m \notin s \ {Max(s)}
          BY <4>2
        <5> QED
          BY <4>2, <5>2, <5>3
      <4> QED
        BY <4>1, <4>2
    <3>4. h = [s \in SUBSET (1 .. m) |-> h[s]]
      OBVIOUS
    <3> HIDE DEF h
    <3>5. Rec(h, 1 .. m)
      BY <3>3, <3>4
    <3> QED
      BY <3>5
  <2> QED
    BY <2>2, <2>3
<1>5. Rec(fold, 1 .. n)
  <2>1. \E g : Rec(g, 1 .. n)
    BY <1>2, <1>4
  <2> HIDE DEF Rec
  <2> QED
    BY <1>2, <2>1
<1> DEFINE lost == {k \in Nat : k <= n /\ ~Good(fold[1 .. k])}
<1> HIDE DEF fold
<1>6. lost = {}
  <2> SUFFICES ASSUME lost # {} PROVE FALSE
    OBVIOUS
  <2>1. PICK m \in lost : \A k \in lost : m <= k
    BY LeastNumber
  <2>2. CASE m = 0
    BY <1>3, <1>5, <2>2
  <2>3. CASE m # 0
    <3>1. m \in 1 .. n /\ m - 1 \in Nat /\ m - 1 <= n
      BY <1>2, <2>3
    <3>2. Good(fold[1 .. (m - 1)])
      <4>1. m - 1 \notin lost
        <5> HIDE DEF lost
        <5> QED
          BY <2>1, <3>1
      <4> QED
        BY <3>1, <4>1
    <3>3. Max(1 .. m) = m /\ (1 .. m) \ {m} = 1 .. (m - 1) /\ 1 .. m \in SUBSET (1 .. n) /\ 1 .. m # {}
      <4>1. 1 .. m = (1 .. (m - 1)) \cup {m} /\ m \notin 1 .. (m - 1)
        BY <3>1, UpToNext
      <4>2. 1 .. m \in SUBSET (1 .. n) /\ 1 .. m # {} /\ m \in 1 .. m /\ m \in Nat
        <5>1. m \in Nat /\ m >= 1 /\ m <= n
          BY <1>2, <3>1
        <5>2. m \in 1 .. m
          BY <5>1
        <5>3. \A i \in 1 .. m : i \in 1 .. n
          BY <1>2, <5>1
        <5> QED
          BY <5>1, <5>2, <5>3
      <4>3. Max(1 .. m) = m
        BY <4>2, GreatestOf
      <4>4. (1 .. m) \ {m} = 1 .. (m - 1)
        BY <4>1
      <4> QED
        BY <4>2, <4>3, <4>4
    <3>4. fold[1 .. m] = Op(fold[1 .. (m - 1)], q[m])
      BY <1>5, <3>3
    <3>5. Good(fold[1 .. m])
      BY <1>3, <3>1, <3>2, <3>4
    <3> QED
      BY <3>5
  <2> QED
    BY <2>2, <2>3
<1>7. Good(fold[1 .. n])
  BY <1>2, <1>6
<1> QED
  BY <1>1, <1>2, <1>7 DEF Good

\* Operations that minimize a scalar over columns there are, on an overlay
\* under construction, end a valid overlay.
LEMMA MinimizingEnds ==
    ASSUME model \in Models, NEW a, Assembled(a), NEW terms, DOMAIN terms \subseteq 1 .. (a.column - 1), NEW const
    PROVE  Valid(Followed(a.ops, AddTemporaryObjective(terms, const), SetObjectivePolicy(TemporaryObjective)))
<1> DEFINE x == AddTemporaryObjective(terms, const)
           y == SetObjectivePolicy(TemporaryObjective)
           one == Append(a.ops, x)
<1>1. /\ Valid(a.ops) /\ NoObjective(a.ops) /\ ColumnsAfter(a.ops) = 1 .. (a.column - 1) /\ IsList(a.ops)
  BY DEF Assembled, Valid, IsList
<1>2. x.op = "objective" /\ x.terms = terms /\ y.op = "policy" /\ y.objective = TemporaryObjective
  BY DEF AddTemporaryObjective, SetObjectivePolicy
<1> HIDE DEF x, y
<1>3. MayFollow(a.ops, x)
  BY <1>1, <1>2 DEF MayFollow, ColumnsAfter, NoObjective
<1>4. Valid(one)
  BY <1>1, <1>3, ValidGrows
<1>5. Len(one) \in Nat /\ \E k \in 1 .. Len(one) : one[k].op = "objective"
  <2>1. Len(one) = Len(a.ops) + 1 /\ Len(a.ops) \in Nat /\ one[Len(a.ops) + 1] = x
    BY <1>1, AppendedList
  <2> HIDE DEF one
  <2>2. Len(a.ops) + 1 \in 1 .. Len(one)
    BY <2>1
  <2> QED
    BY <1>2, <2>1, <2>2
<1> HIDE DEF one
<1>6. MayFollow(one, y)
  BY <1>2, <1>5 DEF MayFollow
<1>7. Valid(Append(one, y))
  BY <1>4, <1>6, ValidGrows
<1>8. Followed(a.ops, x, y) = Append(one, y)
  BY <1>1, AppendedTwice DEF one
<1> QED
  BY <1>7, <1>8 DEF x, y

\* Nothing has been added to the base yet.
LEMMA NothingAssembled ==
    ASSUME model \in Models, native = BaseModel
    PROVE  Assembled(Assembly)
<1>1. /\ NextColumn \in Nat /\ NextRow \in Nat /\ NextColumn >= 1 /\ NextRow >= 1
      /\ DOMAIN BaseColumns = 1 .. (NextColumn - 1) /\ DOMAIN BaseRows = 1 .. (NextRow - 1)
  BY BaseNumbers
<1>2. DOMAIN native.cols = DOMAIN BaseColumns /\ DOMAIN native.rows = DOMAIN BaseRows
  BY DEF BaseModel
<1>3. /\ DOMAIN Assembly = {"ops", "terms", "column", "row"} /\ Assembly.ops = <<>>
      /\ Assembly.terms = Nothing /\ Assembly.column = NextColumn /\ Assembly.row = NextRow
  BY DEF Assembly
<1>4. Valid(<<>>) /\ NoObjective(<<>>)
  BY DEF Valid, NoObjective
<1>5. \A kind : Before(<<>>, 1, kind) = {}
  BY DEF Before
<1>6. ColumnsAfter(<<>>) = DOMAIN native.cols /\ RowsAfter(<<>>) = DOMAIN native.rows
  <2>1. Len(<<>>) + 1 = 1
    OBVIOUS
  <2> QED
    BY <1>5, <2>1 DEF ColumnsAfter, RowsAfter
<1>7. DOMAIN Nothing = {}
  BY DEF Nothing
<1> QED
  BY <1>1, <1>2, <1>3, <1>4, <1>6, <1>7 DEF Assembled

\* The overlay of a stage is acceptable to a backend that holds the base
\* (build_stage_overlay).
LEMMA StageAccepted ==
    ASSUME model \in Models, native = BaseModel, NEW scalar, ProperScalar(scalar), NEW locks, IsList(locks),
           \A i \in 1 .. Len(locks) : ProperScalar(locks[i].scalar)
    PROVE  Valid(StageOverlay(scalar, locks))
<1> DEFINE current == MaterializePenalties(Assembly, scalar)
           all == FoldLeft(AddLock, current, locks)
<1>1. Assembled(current)
  BY NothingAssembled, PenaltiesAssembled
<1>2. StageOverlay(scalar, locks) =
        Followed(all.ops, AddTemporaryObjective(current.terms, scalar.const), SetObjectivePolicy(TemporaryObjective))
  BY DEF StageOverlay, Followed
<1> HIDE DEF current
<1>3. Assembled(all) /\ current.column <= all.column
  BY <1>1, LocksAssembled
<1> HIDE DEF all
<1>4. DOMAIN current.terms \subseteq 1 .. (all.column - 1)
  BY <1>1, <1>3 DEF Assembled
<1> QED
  BY <1>2, <1>3, <1>4, MinimizingEnds

-----------------------------------------------------------------------------
(* The overlay of a repair                                                 *)

\* Replacements of bounds of the base are acceptable in any order and number.
LEMMA ReplacementsAccepted ==
    ASSUME model \in Models, native = BaseModel, NEW ops, IsList(ops),
           \A i \in 1 .. Len(ops) : \/ ops[i].op = "rowBounds" /\ ops[i].id \in DOMAIN Rows
                                    \/ ops[i].op = "columnBounds" /\ ops[i].id \in Vars
    PROVE  /\ Valid(ops) /\ NoObjective(ops)
           /\ ColumnsAfter(ops) = 1 .. (NextColumn - 1) /\ RowsAfter(ops) = 1 .. (NextRow - 1)
<1>1. /\ DOMAIN BaseColumns = 1 .. (NextColumn - 1) /\ DOMAIN BaseRows = 1 .. (NextRow - 1)
      /\ Vars \subseteq 1 .. (NextColumn - 1) /\ DOMAIN Rows \subseteq 1 .. (NextRow - 1)
  BY BaseNumbers
<1>2. DOMAIN native.cols = DOMAIN BaseColumns /\ DOMAIN native.rows = DOMAIN BaseRows
  BY DEF BaseModel
<1>3. Len(ops) \in Nat /\ DOMAIN ops = 1 .. Len(ops)
  BY ListFacts
<1>4. \A i \in 1 .. (Len(ops) + 1) : Before(ops, i, "column") = {} /\ Before(ops, i, "row") = {}
  BY <1>3 DEF Before
<1>5. Valid(ops)
  <2> SUFFICES ASSUME NEW i \in DOMAIN ops
               PROVE  \/ ops[i].op = "rowBounds" /\ ops[i].id \in DOMAIN native.rows
                      \/ ops[i].op = "columnBounds" /\ ops[i].id \in DOMAIN native.cols
    BY DEF Valid, IsList
  <2> QED
    BY <1>1, <1>2, <1>3
<1>6. NoObjective(ops)
  BY DEF NoObjective
<1>7. Len(ops) + 1 \in 1 .. (Len(ops) + 1)
  BY <1>3
<1> QED
  BY <1>1, <1>2, <1>4, <1>5, <1>6, <1>7 DEF ColumnsAfter, RowsAfter

\* Opening restrictions replaces bounds of the base.
LEMMA OpeningsAccepted ==
    ASSUME model \in Models, native = BaseModel, NEW chosen
    PROVE  /\ Valid(Openings(chosen)) /\ NoObjective(Openings(chosen))
           /\ ColumnsAfter(Openings(chosen)) = 1 .. (NextColumn - 1)
           /\ RowsAfter(Openings(chosen)) = 1 .. (NextRow - 1)
<1> DEFINE rows == Ascending({c.of : c \in {r \in chosen : r.kind = "row"}}, Len(Rows))
           variables == Ascending({c.of : c \in {r \in chosen : r.kind # "row"}}, Len(Domain))
           p == [k \in DOMAIN rows |-> OpenedRow(chosen, rows[k])]
           q == [k \in DOMAIN variables |-> OpenedVariable(chosen, variables[k])]
           ops == Joined(p, q)
<1>1. Openings(chosen) = ops
  BY DEF Openings, Joined
<1>2. /\ IsList(rows) /\ ToSet(rows) \subseteq DOMAIN Rows
      /\ IsList(variables) /\ ToSet(variables) \subseteq Vars
  BY ModelShape, AscendingMembers
<1> HIDE DEF rows, variables
<1>3. /\ Len(rows) \in Nat /\ DOMAIN rows = 1 .. Len(rows) /\ \A k \in DOMAIN rows : rows[k] \in DOMAIN Rows
      /\ Len(variables) \in Nat /\ DOMAIN variables = 1 .. Len(variables)
      /\ \A k \in DOMAIN variables : variables[k] \in Vars
  BY <1>2, ListFacts
<1>4. /\ p = [k \in 1 .. Len(rows) |-> p[k]] /\ q = [k \in 1 .. Len(variables) |-> q[k]]
      /\ \A k \in 1 .. Len(rows) : p[k] = OpenedRow(chosen, rows[k])
      /\ \A k \in 1 .. Len(variables) : q[k] = OpenedVariable(chosen, variables[k])
  BY <1>3
<1> HIDE DEF p, q
<1>5. IsList(p) /\ Len(p) = Len(rows) /\ IsList(q) /\ Len(q) = Len(variables)
  BY <1>3, <1>4, MakeList
<1>6. /\ IsList(ops) /\ Len(ops) = Len(p) + Len(q)
      /\ \A i \in 1 .. Len(p) : ops[i] = p[i]
      /\ \A i \in 1 .. Len(q) : ops[Len(p) + i] = q[i]
  <2> HIDE DEF rows, variables, p, q
  <2>1. IsList(p) /\ IsList(q)
    BY <1>5
  <2>2. /\ IsList(Joined(p, q)) /\ Len(Joined(p, q)) = Len(p) + Len(q)
        /\ \A i \in 1 .. Len(p) : Joined(p, q)[i] = p[i]
        /\ \A i \in 1 .. Len(q) : Joined(p, q)[Len(p) + i] = q[i]
    BY <2>1, Concatenated
  <2> QED
    BY <2>2
<1> HIDE DEF ops
<1>7. ASSUME NEW i \in 1 .. Len(ops)
      PROVE  \/ ops[i].op = "rowBounds" /\ ops[i].id \in DOMAIN Rows
             \/ ops[i].op = "columnBounds" /\ ops[i].id \in Vars
  <2>1. CASE i \in 1 .. Len(p)
    <3>1. ops[i] = OpenedRow(chosen, rows[i]) /\ rows[i] \in DOMAIN Rows
      BY <1>3, <1>4, <1>5, <1>6, <2>1
    <3> QED
      BY <3>1 DEF OpenedRow, SetTemporaryRowBounds
  <2>2. CASE i \notin 1 .. Len(p)
    <3>1. i - Len(p) \in 1 .. Len(q) /\ Len(p) + (i - Len(p)) = i
      BY <1>3, <1>5, <1>6, <2>2
    <3>2. ops[i] = OpenedVariable(chosen, variables[i - Len(p)]) /\ variables[i - Len(p)] \in Vars
      BY <1>3, <1>4, <1>5, <1>6, <3>1
    <3> QED
      BY <3>2 DEF OpenedVariable, SetTemporaryVariableBounds
  <2> QED
    BY <2>1, <2>2
<1> QED
  BY <1>1, <1>6, <1>7, ReplacementsAccepted

\* A list of restrictions of rows and variables of the model.
ProperRestriction(r) == IF r.kind = "row" THEN r.of \in DOMAIN Rows ELSE r.of \in Vars
ProperScope(chosen) == IsList(chosen) /\ \A r \in ToSet(chosen) : ProperRestriction(r)

\* The sides to measure are sides of the selected restrictions.
LEMMA MeasuredMembers ==
    ASSUME NEW chosen, IsList(chosen)
    PROVE  /\ IsList(MeasuredSides(chosen))
           /\ \A i \in 1 .. Len(MeasuredSides(chosen)) : MeasuredSides(chosen)[i].of \in ToSet(chosen)
<1> DEFINE spans == UNION {ToSet(Measured(r)) : r \in ToSet(chosen)}
           T == [of : ToSet(chosen), side : spans]
           Inner(r) == [j \in DOMAIN Measured(r) |-> [of |-> r, side |-> Measured(r)[j]]]
           seqs == [k \in DOMAIN chosen |-> Inner(chosen[k])]
<1>1. Len(chosen) \in Nat /\ DOMAIN chosen = 1 .. Len(chosen) /\ \A k \in DOMAIN chosen : chosen[k] \in ToSet(chosen)
  BY ListFacts
<1>2. ASSUME NEW r \in ToSet(chosen) PROVE Inner(r) \in Seq(T)
  <2>1. DOMAIN Measured(r) \in {1 .. 1, 1 .. 2}
    <3>1. DOMAIN <<SideSpan(Rows[r.of], r.side)>> = 1 .. 1 /\ DOMAIN <<SideSpan(Domain[r.of], r.side)>> = 1 .. 1
          /\ \A f : DOMAIN <<Span(f, Inf), Span(-Inf, f)>> = 1 .. 2
      OBVIOUS
    <3> QED
      BY <3>1 DEF Measured
  <2>2. \A j \in DOMAIN Measured(r) : Measured(r)[j] \in spans
    BY DEF ToSet
  <2> HIDE DEF spans
  <2>3. \A j \in DOMAIN Measured(r) : Inner(r)[j] \in T
    BY <2>2
  <2>4. DOMAIN Inner(r) = DOMAIN Measured(r) /\ Inner(r) = [j \in DOMAIN Measured(r) |-> Inner(r)[j]]
    OBVIOUS
  <2> HIDE DEF Inner, T
  <2>5. PICK m \in Nat : DOMAIN Inner(r) = 1 .. m
    BY <2>1, <2>4
  <2> QED
    BY <2>3, <2>4, <2>5
<1> HIDE DEF T, Inner
<1>3. seqs \in Seq(Seq(T))
  BY <1>1, <1>2
<1>4. FlattenSeq(seqs) \in Seq(T)
  BY <1>3, FlattenedMembers
<1>5. MeasuredSides(chosen) = FlattenSeq(seqs)
  BY DEF MeasuredSides, Inner
<1> HIDE DEF seqs
<1>6. IsList(MeasuredSides(chosen)) /\ \A i \in 1 .. Len(MeasuredSides(chosen)) : MeasuredSides(chosen)[i] \in T
  BY <1>4, <1>5, ListOver
<1>7. \A t \in T : t.of \in ToSet(chosen)
  BY DEF T
<1> QED
  BY <1>6, <1>7

\* The violation columns and rows of the selected restrictions, one after the other.
LEMMA MeasuresAssembled ==
    ASSUME model \in Models, native = BaseModel, NEW chosen, ProperScope(chosen), NEW a,
           a = [ops |-> Openings(ToSet(chosen)), terms |-> Nothing, column |-> NextColumn, row |-> NextRow]
    PROVE  Assembled(FoldLeft(LAMBDA c, m : Measure(c, m.of, m.side), a, MeasuredSides(chosen)))
<1> DEFINE q == MeasuredSides(chosen)
           n == Len(q)
           start == a
           Op(c, x) == Measure(c, x.of, x.side)
           Good(c) == Assembled(c)
           Rec(g, S) == g = [s \in SUBSET S |-> IF s = {} THEN start ELSE Op(g[s \ {Max(s)}], q[Max(s)])]
           fold == CHOOSE g : Rec(g, DOMAIN q)
           missing == {m \in Nat : ~\E g : Rec(g, 1 .. m)}
<1>1. FoldLeft(LAMBDA c, m : Measure(c, m.of, m.side), a, q) = fold[DOMAIN q]
  BY DEF FoldLeft, MapThenFoldSet
<1>2. n \in Nat /\ DOMAIN q = 1 .. n
  BY MeasuredMembers, ListFacts DEF ProperScope
<1>3. Good(start) /\ \A c, k : Good(c) /\ k \in 1 .. n => Good(Op(c, q[k]))
  <2>1. Good(start)
    <3>1. /\ DOMAIN start = {"ops", "terms", "column", "row"} /\ start.ops = Openings(ToSet(chosen))
          /\ start.column = NextColumn /\ start.row = NextRow /\ start.terms = Nothing
      OBVIOUS
    <3>2. /\ NextColumn \in Nat /\ NextRow \in Nat /\ DOMAIN Nothing = {}
      BY BaseNumbers DEF Nothing
    <3> HIDE DEF start
    <3> QED
      BY <3>1, <3>2, OpeningsAccepted DEF Assembled
  <2>2. ASSUME NEW c, NEW k \in 1 .. n, Good(c) PROVE Good(Op(c, q[k]))
    <3> DEFINE r == q[k].of
               side == q[k].side
               sign == IF side.hi = Inf THEN 1 ELSE -1
               b == Op(c, q[k])
    <3>1. ProperRestriction(r)
      BY MeasuredMembers DEF ProperScope
    <3>2. b = [ops |-> c.ops \o <<AddTemporaryVariable(c.column, Span(0, Cap(r))),
                                  AddTemporaryRow(c.row, Plus(Related(r), Only(c.column, sign)), side)>>,
               terms |-> Plus(c.terms, Only(c.column, Weight(r))),
               column |-> c.column + 1,
               row |-> c.row + 1]
      BY DEF Measure
    <3> HIDE DEF Op, q, r, side, sign, b
    <3>3. DOMAIN Related(r) \subseteq Vars
      <4>1. DOMAIN Only(r.of, 1) = {r.of}
        BY DEF Only
      <4> QED
        BY <3>1, <4>1, ModelShape DEF ProperRestriction, Related
    <3>4. DOMAIN Related(r) \subseteq 1 .. (c.column - 1)
      <4>1. c.column \in Nat /\ NextColumn <= c.column /\ NextColumn \in Nat /\ Vars \subseteq 1 .. (NextColumn - 1)
        BY <2>2, BaseNumbers DEF Assembled
      <4>2. 1 .. (NextColumn - 1) \subseteq 1 .. (c.column - 1)
        BY <4>1
      <4> QED
        BY <3>3, <4>1, <4>2
    <3>5. Assembled(b)
      BY <2>2, <3>2, <3>4, ViolationAssembled
    <3> QED
      BY <3>5 DEF b
  <2> HIDE DEF Good, Op, start, n, q
  <2> QED
    BY <2>1, <2>2
<1> HIDE DEF Op, q, n, start, Good
<1>4. missing = {}
  <2> SUFFICES ASSUME missing # {} PROVE FALSE
    OBVIOUS
  <2>1. PICK m \in missing : \A k \in missing : m <= k
    BY LeastNumber
  <2>2. CASE m = 0
    <3>1. Rec([s \in SUBSET (1 .. 0) |-> start], 1 .. 0)
      OBVIOUS
    <3> QED
      BY <2>2, <3>1
  <2>3. CASE m # 0
    <3>1. m \in Nat /\ m - 1 \in Nat
      BY <2>3
    <3>2. PICK g : Rec(g, 1 .. (m - 1))
      <4>1. m - 1 \notin missing
        <5> HIDE DEF missing
        <5> QED
          BY <2>1, <3>1
      <4> QED
        BY <3>1, <4>1
    <3> DEFINE h == [s \in SUBSET (1 .. m) |-> IF m \in s THEN Op(g[s \ {m}], q[m]) ELSE g[s]]
    <3>3. ASSUME NEW s \in SUBSET (1 .. m)
          PROVE  h[s] = IF s = {} THEN start ELSE Op(h[s \ {Max(s)}], q[Max(s)])
      <4>1. CASE m \in s
        <5>1. Max(s) = m /\ s \ {m} \in SUBSET (1 .. m) /\ m \notin s \ {m}
          BY <3>1, <4>1, GreatestOf
        <5> QED
          BY <4>1, <5>1
      <4>2. CASE m \notin s
        <5>1. s \in SUBSET (1 .. (m - 1))
          BY <3>1, <4>2
        <5>2. g[s] = IF s = {} THEN start ELSE Op(g[s \ {Max(s)}], q[Max(s)])
          BY <3>2, <5>1
        <5>3. s \ {Max(s)} \in SUBSET (1 .. m) /\ m \notin s \ {Max(s)}
          BY <4>2
        <5> QED
          BY <4>2, <5>2, <5>3
      <4> QED
        BY <4>1, <4>2
    <3>4. h = [s \in SUBSET (1 .. m) |-> h[s]]
      OBVIOUS
    <3> HIDE DEF h
    <3>5. Rec(h, 1 .. m)
      BY <3>3, <3>4
    <3> QED
      BY <3>5
  <2> QED
    BY <2>2, <2>3
<1>5. Rec(fold, 1 .. n)
  <2>1. \E g : Rec(g, 1 .. n)
    BY <1>2, <1>4
  <2> HIDE DEF Rec
  <2> QED
    BY <1>2, <2>1
<1> DEFINE lost == {k \in Nat : k <= n /\ ~Good(fold[1 .. k])}
<1> HIDE DEF fold
<1>6. lost = {}
  <2> SUFFICES ASSUME lost # {} PROVE FALSE
    OBVIOUS
  <2>1. PICK m \in lost : \A k \in lost : m <= k
    BY LeastNumber
  <2>2. CASE m = 0
    BY <1>3, <1>5, <2>2
  <2>3. CASE m # 0
    <3>1. m \in 1 .. n /\ m - 1 \in Nat /\ m - 1 <= n
      BY <1>2, <2>3
    <3>2. Good(fold[1 .. (m - 1)])
      <4>1. m - 1 \notin lost
        <5> HIDE DEF lost
        <5> QED
          BY <2>1, <3>1
      <4> QED
        BY <3>1, <4>1
    <3>3. Max(1 .. m) = m /\ (1 .. m) \ {m} = 1 .. (m - 1) /\ 1 .. m \in SUBSET (1 .. n) /\ 1 .. m # {}
      <4>1. 1 .. m = (1 .. (m - 1)) \cup {m} /\ m \notin 1 .. (m - 1)
        BY <3>1, UpToNext
      <4>2. 1 .. m \in SUBSET (1 .. n) /\ 1 .. m # {} /\ m \in 1 .. m /\ m \in Nat
        <5>1. m \in Nat /\ m >= 1 /\ m <= n
          BY <1>2, <3>1
        <5>2. m \in 1 .. m
          BY <5>1
        <5>3. \A i \in 1 .. m : i \in 1 .. n
          BY <1>2, <5>1
        <5> QED
          BY <5>1, <5>2, <5>3
      <4>3. Max(1 .. m) = m
        BY <4>2, GreatestOf
      <4>4. (1 .. m) \ {m} = 1 .. (m - 1)
        BY <4>1
      <4> QED
        BY <4>2, <4>3, <4>4
    <3>4. fold[1 .. m] = Op(fold[1 .. (m - 1)], q[m])
      BY <1>5, <3>3
    <3>5. Good(fold[1 .. m])
      BY <1>3, <3>1, <3>2, <3>4
    <3> QED
      BY <3>5
  <2> QED
    BY <2>2, <2>3
<1>7. Good(fold[1 .. n])
  BY <1>2, <1>6
<1> QED
  BY <1>1, <1>2, <1>7 DEF Good, q

\* The overlay of a repair is acceptable to a backend that holds the base
\* (compile_portable_overlay).
LEMMA RepairAccepted ==
    ASSUME model \in Models, native = BaseModel, NEW chosen, ProperScope(chosen)
    PROVE  Valid(RepairOverlay(chosen))
<1> DEFINE a == [ops |-> Openings(ToSet(chosen)), terms |-> Nothing, column |-> NextColumn, row |-> NextRow]
           built == FoldLeft(LAMBDA c, m : Measure(c, m.of, m.side), a, MeasuredSides(chosen))
<1>1. Assembled(built)
  BY MeasuresAssembled
<1>2. RepairOverlay(chosen) =
        Followed(built.ops, AddTemporaryObjective(built.terms, 0), SetObjectivePolicy(TemporaryObjective))
  BY DEF RepairOverlay, Followed
<1> HIDE DEF built
<1>3. DOMAIN built.terms \subseteq 1 .. (built.column - 1)
  BY <1>1 DEF Assembled
<1> QED
  BY <1>1, <1>2, <1>3, MinimizingEnds

\* The restrictions of a model, and any selection of them, are of its rows and variables.
LEMMA RestrictionsProper ==
    ASSUME model \in Models
    PROVE  ProperScope(Restrictions)
<1> DEFINE U == [kind : {"row", "bound", "fixing"}, of : DOMAIN Rows \cup Vars, side : {"lower", "upper", "both"}]
           T == {r \in U : ProperRestriction(r)}
           fixed == Ascending({v \in Vars : Domain[v].fixing # {}}, Len(Domain))
           p == [r \in DOMAIN Rows |-> FiniteSides("row", r, Rows[r])]
           q == [v \in Vars |-> FiniteSides("bound", v, Domain[v])]
           w == [k \in DOMAIN fixed |-> Side("fixing", fixed[k], "both")]
<1>1. /\ Len(Rows) \in Nat /\ DOMAIN Rows = 1 .. Len(Rows)
      /\ Len(Domain) \in Nat /\ Vars = 1 .. Len(Domain)
  BY ModelShape
<1>2. Restrictions = Joined(Joined(FlattenSeq(p), FlattenSeq(q)), w)
  BY DEF Restrictions, Joined
<1>3. ASSUME NEW kind \in {"row", "bound"}, NEW of, of \in IF kind = "row" THEN DOMAIN Rows ELSE Vars, NEW bounds
      PROVE  FiniteSides(kind, of, bounds) \in Seq(T)
  <2>1. Sides(bounds) \in Seq({"lower", "upper"})
    BY SidesList
  <2>2. /\ Len(Sides(bounds)) \in Nat /\ DOMAIN Sides(bounds) = 1 .. Len(Sides(bounds))
        /\ \A k \in DOMAIN Sides(bounds) : Sides(bounds)[k] \in {"lower", "upper"}
    BY <2>1
  <2>3. \A side \in {"lower", "upper"} : Side(kind, of, side) \in T
    <3> TAKE side \in {"lower", "upper"}
    <3>1. Side(kind, of, side) \in U
      BY <1>3 DEF Side
    <3>2. ProperRestriction(Side(kind, of, side))
      BY <1>3 DEF ProperRestriction, Side
    <3> QED
      BY <3>1, <3>2
  <2> HIDE DEF T
  <2> QED
    BY <2>2, <2>3 DEF FiniteSides
<1>4. IsList(fixed) /\ ToSet(fixed) \subseteq Vars
  BY <1>1, AscendingMembers
<1> HIDE DEF fixed
<1>5. w \in Seq(T)
  <2>1. Len(fixed) \in Nat /\ DOMAIN fixed = 1 .. Len(fixed) /\ \A k \in DOMAIN fixed : fixed[k] \in Vars
    BY <1>4, ListFacts
  <2>2. \A v \in Vars : Side("fixing", v, "both") \in T
    <3> TAKE v \in Vars
    <3>1. Side("fixing", v, "both") \in U
      BY DEF Side
    <3>2. ProperRestriction(Side("fixing", v, "both"))
      BY DEF ProperRestriction, Side
    <3> QED
      BY <3>1, <3>2
  <2> HIDE DEF T
  <2> QED
    BY <2>1, <2>2
<1> HIDE DEF T
<1>6. p \in Seq(Seq(T)) /\ q \in Seq(Seq(T))
  BY <1>1, <1>3
<1>7. FlattenSeq(p) \in Seq(T) /\ FlattenSeq(q) \in Seq(T)
  BY <1>6, FlattenedMembers
<1> HIDE DEF p, q, w
<1>8. Restrictions \in Seq(T)
  <2>1. Joined(FlattenSeq(p), FlattenSeq(q)) \in Seq(T)
    BY <1>7 DEF Joined
  <2>2. Joined(Joined(FlattenSeq(p), FlattenSeq(q)), w) \in Seq(T)
    BY <1>5, <2>1 DEF Joined
  <2> QED
    BY <1>2, <2>2
<1>9. IsList(Restrictions) /\ \A i \in 1 .. Len(Restrictions) : Restrictions[i] \in T
  BY <1>8, ListOver
<1>10. \A r \in ToSet(Restrictions) : r \in T
  BY <1>9, ListFacts
<1>11. \A r \in T : ProperRestriction(r)
  BY DEF T
<1> QED
  BY <1>9, <1>10, <1>11 DEF ProperScope

LEMMA SelectedProper ==
    ASSUME model \in Models, NEW explicit
    PROVE  ProperScope(Selected(explicit))
<1> DEFINE picked == Ascending({k \in DOMAIN Restrictions : Restrictions[k] \in UNION explicit}, Len(Restrictions))
           some == [k \in DOMAIN picked |-> Restrictions[picked[k]]]
<1>1. /\ IsList(Restrictions) /\ Len(Restrictions) \in Nat
      /\ \A i \in 1 .. Len(Restrictions) : ProperRestriction(Restrictions[i])
  BY RestrictionsProper, ListFacts DEF ProperScope
<1>2. IsList(picked) /\ ToSet(picked) \subseteq 1 .. Len(Restrictions)
  BY <1>1, AscendingMembers
<1>3. Selected(explicit) = IF explicit = {} THEN Restrictions ELSE some
  BY DEF Selected
<1> HIDE DEF picked
<1>4. /\ Len(picked) \in Nat /\ DOMAIN picked = 1 .. Len(picked)
      /\ \A k \in 1 .. Len(picked) : picked[k] \in 1 .. Len(Restrictions)
  BY <1>2, ListFacts
<1>5. some = [k \in 1 .. Len(picked) |-> some[k]] /\ \A k \in 1 .. Len(picked) : some[k] = Restrictions[picked[k]]
  BY <1>4
<1> HIDE DEF some
<1>6. IsList(some) /\ Len(some) = Len(picked)
  BY <1>4, <1>5, MakeList
<1>7. \A r \in ToSet(some) : ProperRestriction(r)
  BY <1>1, <1>4, <1>5, <1>6, ListFacts
<1> QED
  BY <1>3, <1>6, <1>7, RestrictionsProper DEF ProperScope

-----------------------------------------------------------------------------
(* The overlay of a plan                                                   *)

\* The overlay of a plan that compiles is acceptable to a backend that holds
\* the base (compile_overlay).
LEMMA PlanAccepted ==
    ASSUME model \in Models, native = BaseModel, NEW plan \in PlanTasks, Compiles(plan)
    PROVE  Valid(PlanOverlay(plan))
<1> DEFINE variables == Ascending(Mentioned(plan), Len(Domain))
           locks == [k \in DOMAIN plan.objectiveLocks |->
                        [of |-> plan.objectiveLocks[k].of, bounds |-> LockRow(plan.objectiveLocks[k])]]
           cutoffs == [k \in DOMAIN plan.cutoffs |->
                        [of |-> plan.cutoffs[k].of, bounds |-> CutoffRow(plan.cutoffs[k])]]
           rows == Joined(locks, cutoffs)
           p == [k \in DOMAIN variables |-> SetTemporaryVariableBounds(variables[k], Restricted(plan, variables[k]))]
           q == [k \in DOMAIN rows |-> AddTemporaryRow(NextRow + k - 1, CompiledTerms(rows[k].of), rows[k].bounds)]
           last == IF plan.override = 0 THEN <<>> ELSE <<SetObjectivePolicy(plan.override)>>
           ops == Joined(Joined(p, q), last)
<1>1. PlanOverlay(plan) = ops
  BY DEF PlanOverlay, Joined
<1>2. /\ DOMAIN native.cols = 1 .. (NextColumn - 1) /\ DOMAIN native.rows = 1 .. (NextRow - 1)
      /\ Vars \subseteq 1 .. (NextColumn - 1) /\ NextRow \in Nat /\ NextRow >= 1
      /\ \A o \in DOMAIN Objectives : DOMAIN CompiledTerms(o) \subseteq 1 .. (NextColumn - 1)
  <2>1. DOMAIN native.cols = DOMAIN BaseColumns /\ DOMAIN native.rows = DOMAIN BaseRows
    BY DEF BaseModel
  <2> QED
    BY <2>1, BaseNumbers, CompiledMentions
<1>3. /\ Len(variables) \in Nat /\ DOMAIN variables = 1 .. Len(variables)
      /\ \A k \in 1 .. Len(variables) : variables[k] \in Vars
  <2>1. IsList(variables) /\ ToSet(variables) \subseteq Vars
    BY ModelShape, AscendingMembers
  <2> HIDE DEF variables
  <2> QED
    BY <2>1, ListFacts
<1>4. /\ IsList(plan.objectiveLocks) /\ IsList(plan.cutoffs)
      /\ \A c \in ToSet(plan.objectiveLocks) \cup ToSet(plan.cutoffs) : c.of \in DOMAIN Objectives
      /\ plan.override \in {0} \cup DOMAIN Objectives
  BY PlanTasksAssumption DEF IsList, Compiles
<1>5. /\ IsList(locks) /\ Len(locks) \in Nat /\ \A k \in 1 .. Len(locks) : locks[k].of \in DOMAIN Objectives
      /\ IsList(cutoffs) /\ Len(cutoffs) \in Nat /\ \A k \in 1 .. Len(cutoffs) : cutoffs[k].of \in DOMAIN Objectives
  <2>1. /\ Len(plan.objectiveLocks) \in Nat /\ DOMAIN plan.objectiveLocks = 1 .. Len(plan.objectiveLocks)
        /\ \A k \in 1 .. Len(plan.objectiveLocks) : plan.objectiveLocks[k] \in ToSet(plan.objectiveLocks)
        /\ Len(plan.cutoffs) \in Nat /\ DOMAIN plan.cutoffs = 1 .. Len(plan.cutoffs)
        /\ \A k \in 1 .. Len(plan.cutoffs) : plan.cutoffs[k] \in ToSet(plan.cutoffs)
    BY <1>4, ListFacts
  <2>2. /\ locks = [k \in 1 .. Len(plan.objectiveLocks) |-> locks[k]]
        /\ \A k \in 1 .. Len(plan.objectiveLocks) : locks[k].of = plan.objectiveLocks[k].of
        /\ cutoffs = [k \in 1 .. Len(plan.cutoffs) |-> cutoffs[k]]
        /\ \A k \in 1 .. Len(plan.cutoffs) : cutoffs[k].of = plan.cutoffs[k].of
    BY <2>1
  <2> HIDE DEF locks, cutoffs
  <2>3. /\ IsList(locks) /\ Len(locks) = Len(plan.objectiveLocks)
        /\ IsList(cutoffs) /\ Len(cutoffs) = Len(plan.cutoffs)
    BY <2>1, <2>2, MakeList
  <2> QED
    BY <1>4, <2>1, <2>2, <2>3
<1> HIDE DEF variables, locks, cutoffs
<1>6. IsList(rows) /\ Len(rows) \in Nat /\ DOMAIN rows = 1 .. Len(rows)
      /\ \A k \in 1 .. Len(rows) : rows[k].of \in DOMAIN Objectives
  <2>1. /\ IsList(Joined(locks, cutoffs)) /\ Len(Joined(locks, cutoffs)) = Len(locks) + Len(cutoffs)
        /\ \A i \in 1 .. Len(locks) : Joined(locks, cutoffs)[i] = locks[i]
        /\ \A i \in 1 .. Len(cutoffs) : Joined(locks, cutoffs)[Len(locks) + i] = cutoffs[i]
    <3>1. IsList(locks) /\ IsList(cutoffs)
      BY <1>5
    <3> QED
      BY <3>1, Concatenated
  <2>2. DOMAIN rows = 1 .. Len(rows)
    BY <2>1, ListFacts
  <2>3. ASSUME NEW k \in 1 .. Len(rows) PROVE rows[k].of \in DOMAIN Objectives
    <3>1. CASE k \in 1 .. Len(locks)
      BY <1>5, <2>1, <3>1
    <3>2. CASE k \notin 1 .. Len(locks)
      <4>1. k - Len(locks) \in 1 .. Len(cutoffs) /\ Len(locks) + (k - Len(locks)) = k
        BY <1>5, <2>1, <3>2
      <4>2. rows[k] = cutoffs[k - Len(locks)]
        BY <2>1, <4>1
      <4> HIDE DEF rows
      <4> QED
        BY <1>5, <4>1, <4>2
    <3> QED
      BY <3>1, <3>2
  <2> QED
    BY <1>5, <2>1, <2>2, <2>3
<1> HIDE DEF rows
<1> DEFINE L == Len(variables)
           M == Len(rows)
<1>7. /\ IsList(p) /\ Len(p) = L /\ \A k \in 1 .. L : p[k].op = "columnBounds" /\ p[k].id \in Vars
      /\ IsList(q) /\ Len(q) = M
      /\ \A k \in 1 .. M : q[k].op = "row" /\ q[k].id = NextRow + k - 1 /\ DOMAIN q[k].terms \subseteq 1 .. (NextColumn - 1)
  <2>1. p = [k \in 1 .. L |-> p[k]] /\ q = [k \in 1 .. M |-> q[k]]
    BY <1>3, <1>6
  <2>2. \A k \in 1 .. L : p[k].op = "columnBounds" /\ p[k].id = variables[k]
    BY <1>3 DEF SetTemporaryVariableBounds
  <2>3. \A k \in 1 .. M : q[k].op = "row" /\ q[k].id = NextRow + k - 1 /\ q[k].terms = CompiledTerms(rows[k].of)
    BY <1>6 DEF AddTemporaryRow
  <2> HIDE DEF p, q
  <2>4. IsList(p) /\ Len(p) = L /\ IsList(q) /\ Len(q) = M
    BY <1>3, <1>6, <2>1, MakeList
  <2> QED
    BY <1>2, <1>3, <1>6, <2>2, <2>3, <2>4
<1>8. /\ IsList(last) /\ Len(last) \in Nat /\ Len(last) <= 1
      /\ \A k \in 1 .. Len(last) : last[k].op = "policy" /\ last[k].objective \in DOMAIN Objectives
  <2>1. CASE plan.override = 0
    <3>1. last = <<>> /\ <<>> \in Seq(ToSet(<<>>)) /\ Len(<<>>) = 0
      BY <2>1
    <3> HIDE DEF last
    <3> QED
      BY <3>1 DEF IsList
  <2>2. CASE plan.override # 0
    <3> DEFINE x == SetObjectivePolicy(plan.override)
    <3>1. x.op = "policy" /\ x.objective \in DOMAIN Objectives
      BY <1>4, <2>2 DEF SetObjectivePolicy
    <3>2. last = <<x>>
      BY <2>2
    <3> HIDE DEF last, x
    <3>3. last = [i \in 1 .. 1 |-> last[i]] /\ last[1] = x
      BY <3>2
    <3>4. IsList(last) /\ Len(last) = 1
      BY <3>3, MakeList
    <3> QED
      BY <3>1, <3>3, <3>4
  <2> QED
    BY <2>1, <2>2
<1> HIDE DEF p, q, last
<1>9. /\ IsList(ops) /\ Len(ops) = L + M + Len(last) /\ Len(ops) \in Nat /\ DOMAIN ops = 1 .. Len(ops)
      /\ \A i \in 1 .. L : ops[i] = p[i]
      /\ \A i \in 1 .. M : ops[L + i] = q[i]
      /\ \A i \in 1 .. Len(last) : ops[L + M + i] = last[i]
  <2> DEFINE front == Joined(p, q)
  <2>1. /\ IsList(Joined(p, q)) /\ Len(Joined(p, q)) = Len(p) + Len(q)
        /\ \A i \in 1 .. Len(p) : Joined(p, q)[i] = p[i]
        /\ \A i \in 1 .. Len(q) : Joined(p, q)[Len(p) + i] = q[i]
    <3>1. IsList(p) /\ IsList(q)
      BY <1>7
    <3> QED
      BY <3>1, Concatenated
  <2>2. /\ IsList(front) /\ Len(front) = L + M
        /\ \A i \in 1 .. L : front[i] = p[i]
        /\ \A i \in 1 .. M : front[L + i] = q[i]
    BY <1>7, <2>1
  <2> HIDE DEF front, L, M
  <2>3. /\ IsList(Joined(front, last)) /\ Len(Joined(front, last)) = Len(front) + Len(last)
        /\ \A i \in 1 .. Len(front) : Joined(front, last)[i] = front[i]
        /\ \A i \in 1 .. Len(last) : Joined(front, last)[Len(front) + i] = last[i]
    <3>1. IsList(front) /\ IsList(last)
      BY <1>8, <2>2
    <3> QED
      BY <3>1, Concatenated
  <2>4. ops = Joined(front, last)
    BY DEF front
  <2> HIDE DEF ops
  <2>5. DOMAIN ops = 1 .. Len(ops)
    BY <2>3, <2>4, ListFacts
  <2>6. L \in Nat /\ M \in Nat
    BY <1>3, <1>6 DEF L, M
  <2>7. \A i \in 1 .. L : i \in 1 .. (L + M)
    BY <2>6
  <2>8. \A i \in 1 .. M : L + i \in 1 .. (L + M)
    BY <2>6
  <2> QED
    BY <1>8, <2>2, <2>3, <2>4, <2>5, <2>6, <2>7, <2>8
<1> HIDE DEF ops, L, M
<1>10. L \in Nat /\ M \in Nat
  BY <1>3, <1>6 DEF L, M
<1>11. ASSUME NEW i \in 1 .. Len(ops)
       PROVE  \/ i \in 1 .. L /\ ops[i].op = "columnBounds" /\ ops[i].id \in Vars
              \/ /\ i - L \in 1 .. M /\ ops[i].op = "row" /\ ops[i].id = NextRow + (i - L) - 1
                 /\ DOMAIN ops[i].terms \subseteq 1 .. (NextColumn - 1)
              \/ ops[i].op = "policy" /\ ops[i].objective \in DOMAIN Objectives
  <2>1. CASE i \in 1 .. L
    BY <1>7, <1>9, <2>1
  <2>2. CASE i - L \in 1 .. M
    <3>1. L + (i - L) = i
      BY <1>9, <1>10
    <3>2. ops[i] = q[i - L]
      BY <1>9, <2>2, <3>1
    <3> QED
      BY <1>7, <2>2, <3>2
  <2>3. CASE i \notin 1 .. L /\ i - L \notin 1 .. M
    <3>1. i - (L + M) \in 1 .. Len(last) /\ L + M + (i - (L + M)) = i
      BY <1>8, <1>9, <1>10, <2>3
    <3>2. ops[i] = last[i - (L + M)]
      BY <1>9, <3>1
    <3> QED
      BY <1>8, <3>1, <3>2
  <2> QED
    BY <2>1, <2>2, <2>3
<1>12. Valid(ops)
  <2> SUFFICES ASSUME NEW i \in DOMAIN ops
               PROVE  \/ ops[i].op = "columnBounds" /\ ops[i].id \in DOMAIN native.cols
                      \/ /\ ops[i].op = "row" /\ ops[i].id \notin DOMAIN native.rows \cup Before(ops, i, "row")
                         /\ DOMAIN ops[i].terms \subseteq DOMAIN native.cols
                      \/ ops[i].op = "policy" /\ ops[i].objective # TemporaryObjective
    BY <1>9 DEF Valid, IsList
  <2>1. i \in 1 .. Len(ops) /\ i \in Nat
    BY <1>9
  <2>2. CASE ops[i].op = "columnBounds"
    BY <1>2, <1>11, <2>1, <2>2
  <2>3. CASE ops[i].op = "policy"
    <3>1. ops[i].objective \in DOMAIN Objectives
      BY <1>11, <2>1, <2>3
    <3>2. Len(Objectives) \in Nat /\ DOMAIN Objectives = 1 .. Len(Objectives)
      BY ModelShape
    <3> QED
      BY <2>3, <3>1, <3>2 DEF TemporaryObjective
  <2>4. CASE ops[i].op = "row"
    <3>1. /\ i - L \in 1 .. M /\ ops[i].id = NextRow + (i - L) - 1
          /\ DOMAIN ops[i].terms \subseteq 1 .. (NextColumn - 1)
      BY <1>11, <2>1, <2>4
    <3>2. ops[i].id \notin DOMAIN native.rows
      BY <1>2, <1>10, <2>1, <3>1
    <3>3. ASSUME NEW j \in 1 .. (i - 1), ops[j].op = "row" PROVE ops[j].id # ops[i].id
      <4>1. j \in 1 .. Len(ops) /\ j \in Nat /\ j < i
        BY <1>9, <2>1
      <4>2. j - L \in 1 .. M /\ ops[j].id = NextRow + (j - L) - 1
        BY <1>11, <3>3, <4>1
      <4> QED
        BY <1>2, <1>10, <2>1, <3>1, <4>1, <4>2
    <3>4. ops[i].id \notin Before(ops, i, "row")
      BY <3>3 DEF Before
    <3> QED
      BY <1>2, <2>4, <3>1, <3>2, <3>4
  <2>5. ops[i].op \in {"columnBounds", "row", "policy"}
    BY <1>11, <2>1
  <2> QED
    BY <2>2, <2>3, <2>4, <2>5
<1> QED
  BY <1>1, <1>12

-----------------------------------------------------------------------------
(* The operations of an overlay, one after the other                       *)

\* The recursion of apply_overlay is well defined.
LEMMA PerformingUnfolds ==
    ASSUME NEW ops, Len(ops) \in Nat
    PROVE  \A k \in 0 .. Len(ops) :
              Performing(ops)[k] =
                IF k = 0 THEN [n |-> native, s |-> NothingSaved, t |-> NoCost, p |-> policy]
                ELSE Perform(Performing(ops)[k - 1], ops[k])
<1> DEFINE start == [n |-> native, s |-> NothingSaved, t |-> NoCost, p |-> policy]
           Does(o, a) == Perform(a, ops[o])
           Follows(g, n) == g = [k \in 0 .. n |-> IF k = 0 THEN start ELSE Does(k, g[k - 1])]
           missing == {n \in Nat : ~\E g : Follows(g, n)}
<1>1. Performing(ops) = CHOOSE g : Follows(g, Len(ops))
  BY DEF Performing
<1> HIDE DEF start, Does
<1>2. missing = {}
  <2> SUFFICES ASSUME missing # {} PROVE FALSE
    OBVIOUS
  <2>1. PICK n \in missing : \A m \in missing : n <= m
    BY LeastNumber
  <2>2. CASE n = 0
    <3>1. Follows([k \in 0 .. 0 |-> start], 0)
      OBVIOUS
    <3> QED
      BY <2>2, <3>1
  <2>3. CASE n # 0
    <3>1. n - 1 \in Nat /\ n - 1 \notin missing
      <4>1. n \in Nat
        OBVIOUS
      <4> HIDE DEF missing
      <4> QED
        BY <2>1, <2>3, <4>1
    <3>2. PICK g : Follows(g, n - 1)
      BY <3>1
    <3> DEFINE h == [k \in 0 .. n |-> IF k = n THEN Does(n, g[n - 1]) ELSE g[k]]
    <3>3. \A k \in 0 .. n : h[k] = IF k = 0 THEN start ELSE Does(k, h[k - 1])
      BY <2>1, <2>3, <3>1, <3>2
    <3>4. Follows(h, n)
      BY <3>3
    <3> QED
      BY <3>4
  <2> QED
    BY <2>2, <2>3
<1>3. \E g : Follows(g, Len(ops))
  BY <1>2
<1>4. Follows(Performing(ops), Len(ops))
  <2> HIDE DEF Follows
  <2> QED
    BY Zenon, <1>1, <1>3
<1> QED
  BY <1>4 DEF Does, start

\* What an overlay may have done to the compiled base, and what is recorded to
\* restore it: new columns and rows beside those of the base, and the first
\* prior bounds of whatever has other bounds now.  The terms of a row stay.
RestoresColumns(n, s) ==
    /\ s.columns \cap DOMAIN BaseColumns = {}
    /\ DOMAIN n.cols = DOMAIN BaseColumns \cup s.columns
    /\ \A c \in DOMAIN BaseColumns :
          BaseColumns[c] = IF c \in DOMAIN s.columnBounds THEN s.columnBounds[c] ELSE n.cols[c]

RestoresRows(n, s) ==
    /\ s.rows \cap DOMAIN BaseRows = {}
    /\ DOMAIN n.rows = DOMAIN BaseRows \cup s.rows
    /\ \A r \in DOMAIN BaseRows :
          /\ n.rows[r] = [terms |-> BaseRows[r].terms, bounds |-> n.rows[r].bounds]
          /\ BaseRows[r].bounds = IF r \in DOMAIN s.rowBounds THEN s.rowBounds[r] ELSE n.rows[r].bounds

\* The bounds verify_overlay_clean compares with are those of the base.
FromBase(s) ==
    /\ s.cols0 = DOMAIN BaseColumns /\ s.rows0 = DOMAIN BaseRows
    /\ s.bounds0 = [cols |-> BaseColumns, rows |-> [r \in DOMAIN BaseRows |-> BaseRows[r].bounds]]

Restores(n, s) ==
    /\ DOMAIN n = {"cols", "rows", "cost"}
    /\ {"columnBounds", "rowBounds", "columns", "rows", "policy"} \subseteq DOMAIN s
    /\ s.policy = ActiveObjective
    /\ FromBase(s)
    /\ RestoresColumns(n, s)
    /\ RestoresRows(n, s)

Carried(a) == {"n", "s", "t", "p"} \subseteq DOMAIN a /\ Restores(a.n, a.s)

\* An operation whose new column or row is none of the base.
IsNew(o) ==
    /\ o.op = "column" => o.id \notin DOMAIN BaseColumns
    /\ o.op = "row" => o.id \notin DOMAIN BaseRows

\* Every operation records what it takes to undo it.
LEMMA PerformRecords ==
    ASSUME NEW a, NEW o, Carried(a), IsNew(o)
    PROVE  Carried(Perform(a, o))
<1> DEFINE b == Perform(a, o)
<1>1. /\ DOMAIN a.n = {"cols", "rows", "cost"}
      /\ {"columnBounds", "rowBounds", "columns", "rows", "policy"} \subseteq DOMAIN a.s
      /\ a.s.policy = ActiveObjective /\ FromBase(a.s)
      /\ RestoresColumns(a.n, a.s) /\ RestoresRows(a.n, a.s)
      /\ {"n", "s", "t", "p"} \subseteq DOMAIN a
  BY DEF Carried, Restores
<1>2. CASE o.op = "column"
  <2>1. b = [a EXCEPT !.n.cols = Put(a.n.cols, o.id, o.bounds), !.s.columns = a.s.columns \cup {o.id}]
    BY <1>2 DEF Perform
  <2> HIDE DEF b
  <2>2. /\ {"n", "s", "t", "p"} \subseteq DOMAIN b
        /\ b.n = [a.n EXCEPT !.cols = Put(a.n.cols, o.id, o.bounds)]
        /\ b.s = [a.s EXCEPT !.columns = a.s.columns \cup {o.id}]
    BY <1>1, <2>1
  <2>3. /\ DOMAIN b.n = {"cols", "rows", "cost"} /\ DOMAIN b.s = DOMAIN a.s
        /\ b.n.cols = Put(a.n.cols, o.id, o.bounds) /\ b.n.rows = a.n.rows
        /\ b.s.columns = a.s.columns \cup {o.id}
        /\ b.s.columnBounds = a.s.columnBounds /\ b.s.rowBounds = a.s.rowBounds
        /\ b.s.rows = a.s.rows /\ b.s.policy = a.s.policy
        /\ b.s.cols0 = a.s.cols0 /\ b.s.rows0 = a.s.rows0 /\ b.s.bounds0 = a.s.bounds0
    BY <1>1, <2>2
  <2>4. RestoresColumns(b.n, b.s)
    BY <1>1, <1>2, <2>3 DEF RestoresColumns, Put, IsNew
  <2>5. RestoresRows(b.n, b.s)
    BY <1>1, <2>3 DEF RestoresRows
  <2> QED
    BY <1>1, <2>2, <2>3, <2>4, <2>5 DEF Carried, Restores, FromBase, b
<1>3. CASE o.op = "row"
  <2> DEFINE row == [terms |-> o.terms, bounds |-> o.bounds]
  <2>1. b = [a EXCEPT !.n.rows = Put(a.n.rows, o.id, row), !.s.rows = a.s.rows \cup {o.id}]
    BY <1>3 DEF Perform
  <2> HIDE DEF b, row
  <2>2. /\ {"n", "s", "t", "p"} \subseteq DOMAIN b
        /\ b.n = [a.n EXCEPT !.rows = Put(a.n.rows, o.id, row)]
        /\ b.s = [a.s EXCEPT !.rows = a.s.rows \cup {o.id}]
    BY <1>1, <2>1
  <2>3. /\ DOMAIN b.n = {"cols", "rows", "cost"} /\ DOMAIN b.s = DOMAIN a.s
        /\ b.n.rows = Put(a.n.rows, o.id, row) /\ b.n.cols = a.n.cols
        /\ b.s.rows = a.s.rows \cup {o.id}
        /\ b.s.columnBounds = a.s.columnBounds /\ b.s.rowBounds = a.s.rowBounds
        /\ b.s.columns = a.s.columns /\ b.s.policy = a.s.policy
        /\ b.s.cols0 = a.s.cols0 /\ b.s.rows0 = a.s.rows0 /\ b.s.bounds0 = a.s.bounds0
    BY <1>1, <2>2
  <2>4. RestoresColumns(b.n, b.s)
    BY <1>1, <2>3 DEF RestoresColumns
  <2>5. RestoresRows(b.n, b.s)
    BY <1>1, <1>3, <2>3 DEF RestoresRows, Put, IsNew
  <2> QED
    BY <1>1, <2>2, <2>3, <2>4, <2>5 DEF Carried, Restores, FromBase, b
<1>4. CASE o.op = "columnBounds"
  <2> DEFINE kept == KeepFirst(a.s.columnBounds, o.id, a.n.cols[o.id])
  <2>1. b = [a EXCEPT !.n.cols[o.id] = o.bounds, !.s.columnBounds = kept]
    BY <1>4 DEF Perform
  <2> HIDE DEF b
  <2>2. /\ {"n", "s", "t", "p"} \subseteq DOMAIN b
        /\ b.n = [a.n EXCEPT !.cols[o.id] = o.bounds]
        /\ b.s = [a.s EXCEPT !.columnBounds = kept]
    BY <1>1, <2>1
  <2>3. /\ DOMAIN b.n = {"cols", "rows", "cost"} /\ DOMAIN b.s = DOMAIN a.s
        /\ b.n.cols = [a.n.cols EXCEPT ![o.id] = o.bounds] /\ b.n.rows = a.n.rows
        /\ b.s.columnBounds = kept
        /\ b.s.columns = a.s.columns /\ b.s.rowBounds = a.s.rowBounds
        /\ b.s.rows = a.s.rows /\ b.s.policy = a.s.policy
        /\ b.s.cols0 = a.s.cols0 /\ b.s.rows0 = a.s.rows0 /\ b.s.bounds0 = a.s.bounds0
    BY <1>1, <2>2
  <2>4. RestoresColumns(b.n, b.s)
    BY <1>1, <2>3 DEF RestoresColumns, KeepFirst
  <2>5. RestoresRows(b.n, b.s)
    BY <1>1, <2>3 DEF RestoresRows
  <2> QED
    BY <1>1, <2>2, <2>3, <2>4, <2>5 DEF Carried, Restores, FromBase, b
<1>5. CASE o.op = "rowBounds"
  <2> DEFINE kept == KeepFirst(a.s.rowBounds, o.id, a.n.rows[o.id].bounds)
  <2>1. b = [a EXCEPT !.n.rows[o.id].bounds = o.bounds, !.s.rowBounds = kept]
    BY <1>5 DEF Perform
  <2> HIDE DEF b
  <2>2. /\ {"n", "s", "t", "p"} \subseteq DOMAIN b
        /\ b.n = [a.n EXCEPT !.rows[o.id].bounds = o.bounds]
        /\ b.s = [a.s EXCEPT !.rowBounds = kept]
    BY <1>1, <2>1
  <2>3. /\ DOMAIN b.n = {"cols", "rows", "cost"} /\ DOMAIN b.s = DOMAIN a.s
        /\ b.n.rows = [a.n.rows EXCEPT ![o.id].bounds = o.bounds] /\ b.n.cols = a.n.cols
        /\ b.s.rowBounds = kept
        /\ b.s.columns = a.s.columns /\ b.s.columnBounds = a.s.columnBounds
        /\ b.s.rows = a.s.rows /\ b.s.policy = a.s.policy
        /\ b.s.cols0 = a.s.cols0 /\ b.s.rows0 = a.s.rows0 /\ b.s.bounds0 = a.s.bounds0
    BY <1>1, <2>2
  <2>4. RestoresColumns(b.n, b.s)
    BY <1>1, <2>3 DEF RestoresColumns
  <2>5. RestoresRows(b.n, b.s)
    <3>1. DOMAIN b.n.rows = DOMAIN BaseRows \cup b.s.rows /\ b.s.rows \cap DOMAIN BaseRows = {}
      BY <1>1, <2>3 DEF RestoresRows
    <3>2. ASSUME NEW r \in DOMAIN BaseRows
          PROVE  /\ b.n.rows[r] = [terms |-> BaseRows[r].terms, bounds |-> b.n.rows[r].bounds]
                 /\ BaseRows[r].bounds =
                        IF r \in DOMAIN b.s.rowBounds THEN b.s.rowBounds[r] ELSE b.n.rows[r].bounds
      <4> DEFINE old == a.n.rows[r].bounds
      <4>1. /\ a.n.rows[r] = [terms |-> BaseRows[r].terms, bounds |-> old]
            /\ BaseRows[r].bounds = IF r \in DOMAIN a.s.rowBounds THEN a.s.rowBounds[r] ELSE old
            /\ r \in DOMAIN a.n.rows
        BY <1>1 DEF RestoresRows
      <4>2. CASE r = o.id
        <5>1. b.n.rows[r] = [a.n.rows[r] EXCEPT !.bounds = o.bounds]
          BY <2>3, <4>1, <4>2
        <5>2. [a.n.rows[r] EXCEPT !.bounds = o.bounds] = [terms |-> BaseRows[r].terms, bounds |-> o.bounds]
          BY <4>1
        <5>3. b.s.rowBounds = KeepFirst(a.s.rowBounds, r, old)
          BY <2>3, <4>2
        <5> QED
          BY <4>1, <5>1, <5>2, <5>3 DEF KeepFirst
      <4>3. CASE r # o.id
        <5>1. b.n.rows[r] = a.n.rows[r]
          BY <2>3, <4>1, <4>3
        <5> QED
          BY <2>3, <4>1, <4>3, <5>1 DEF KeepFirst
      <4> QED
        BY <4>2, <4>3
    <3> QED
      BY <3>1, <3>2 DEF RestoresRows
  <2> QED
    BY <1>1, <2>2, <2>3, <2>4, <2>5 DEF Carried, Restores, FromBase, b
<1>6. CASE o.op = "objective"
  <2>1. b = [a EXCEPT !.t = [sense |-> "min", terms |-> o.terms, const |-> o.const]]
    BY <1>6 DEF Perform
  <2> HIDE DEF b
  <2>2. {"n", "s", "t", "p"} \subseteq DOMAIN b /\ b.n = a.n /\ b.s = a.s
    BY <1>1, <2>1
  <2> QED
    BY <1>1, <2>2 DEF Carried, Restores, b
<1>7. CASE o.op \notin {"column", "row", "columnBounds", "rowBounds", "objective"}
  <2> DEFINE cost == IF o.objective = TemporaryObjective THEN a.t ELSE CompiledCost(o.objective)
  <2>1. b = [a EXCEPT !.p = o.objective, !.n.cost = cost]
    BY <1>7 DEF Perform
  <2> HIDE DEF b, cost
  <2>2. /\ {"n", "s", "t", "p"} \subseteq DOMAIN b
        /\ b.n = [a.n EXCEPT !.cost = cost] /\ b.s = a.s
    BY <1>1, <2>1
  <2>3. DOMAIN b.n = {"cols", "rows", "cost"} /\ b.n.cols = a.n.cols /\ b.n.rows = a.n.rows
    BY <1>1, <2>2
  <2>4. RestoresColumns(b.n, b.s) /\ RestoresRows(b.n, b.s)
    BY <1>1, <2>2, <2>3 DEF RestoresColumns, RestoresRows
  <2> QED
    BY <1>1, <2>2, <2>3, <2>4 DEF Carried, Restores, b
<1> QED
  BY <1>2, <1>3, <1>4, <1>5, <1>6, <1>7

\* The operations of a valid overlay, applied to the compiled base, leave a native
\* model that the record restores (apply_overlay).
LEMMA OverlayRecorded ==
    ASSUME NEW ops, Valid(ops), native = BaseModel, policy = ActiveObjective
    PROVE  Restores(Performed(ops).n, Performed(ops).s)
<1> DEFINE at(k) == Performing(ops)[k]
           start == [n |-> native, s |-> NothingSaved, t |-> NoCost, p |-> policy]
           broken == {k \in 0 .. Len(ops) : ~Carried(at(k))}
<1>1. ops \in Seq(ToSet(ops))
  BY DEF Valid
<1>2. Len(ops) \in Nat /\ DOMAIN ops = 1 .. Len(ops)
  BY <1>1
<1>3. DOMAIN native.cols = DOMAIN BaseColumns /\ DOMAIN native.rows = DOMAIN BaseRows
  BY DEF BaseModel
<1>4. \A k \in 1 .. Len(ops) : IsNew(ops[k])
  <2> SUFFICES ASSUME NEW k \in DOMAIN ops PROVE IsNew(ops[k])
    BY <1>2
  <2>1. CASE ops[k].op = "column"
    BY <1>3, <2>1 DEF Valid, IsNew
  <2>2. CASE ops[k].op = "row"
    BY <1>3, <2>2 DEF Valid, IsNew
  <2> QED
    BY <2>1, <2>2 DEF IsNew
<1>5. \A k \in 0 .. Len(ops) : at(k) = IF k = 0 THEN start ELSE Perform(at(k - 1), ops[k])
  BY <1>2, PerformingUnfolds
<1>6. Carried(start)
  <2>1. \A r \in DOMAIN BaseRows : BaseRows[r] = [terms |-> BaseRows[r].terms, bounds |-> BaseRows[r].bounds]
    BY DEF BaseRows
  <2>2. start.n = BaseModel /\ start.s = NothingSaved /\ {"n", "s", "t", "p"} \subseteq DOMAIN start
    OBVIOUS
  <2> HIDE DEF start
  <2>3. /\ DOMAIN NothingSaved.columnBounds = {} /\ DOMAIN NothingSaved.rowBounds = {}
        /\ NothingSaved.columns = {} /\ NothingSaved.rows = {} /\ NothingSaved.policy = ActiveObjective
        /\ {"columnBounds", "rowBounds", "columns", "rows", "policy"} \subseteq DOMAIN NothingSaved
    BY DEF NothingSaved, Nothing
  <2>4. DOMAIN BaseModel = {"cols", "rows", "cost"} /\ BaseModel.cols = BaseColumns /\ BaseModel.rows = BaseRows
    BY DEF BaseModel
  <2>5. FromBase(NothingSaved)
    BY <2>4 DEF NothingSaved, FromBase
  <2> QED
    BY <2>1, <2>2, <2>3, <2>4, <2>5 DEF Carried, Restores, RestoresColumns, RestoresRows
<1> HIDE DEF at, start
<1>7. broken = {}
  <2> SUFFICES ASSUME broken # {} PROVE FALSE
    OBVIOUS
  <2>1. broken \in SUBSET Nat
    OBVIOUS
  <2>2. PICK k \in broken : \A m \in broken : k <= m
    BY <2>1, LeastNumber
  <2>3. k \in 0 .. Len(ops) /\ ~Carried(at(k))
    OBVIOUS
  <2>4. k # 0
    BY <1>5, <1>6, <2>3
  <2>5. k - 1 \in 0 .. Len(ops) /\ k - 1 \notin broken
    <3> HIDE DEF broken
    <3> QED
      BY <1>2, <2>2, <2>3, <2>4
  <2>6. Carried(at(k - 1))
    BY <2>5
  <2>7. at(k) = Perform(at(k - 1), ops[k])
    BY <1>5, <2>3, <2>4
  <2>8. IsNew(ops[k])
    BY <1>2, <1>4, <2>3, <2>4
  <2> QED
    BY <2>3, <2>6, <2>7, <2>8, PerformRecords
<1>8. Carried(at(Len(ops)))
  BY <1>2, <1>7
<1> QED
  BY <1>8 DEF Carried, Performed, at

-----------------------------------------------------------------------------
(* The rollback                                                            *)

\* The five steps of the rollback, one after the other.
LEMMA UndoingUnfolds ==
    /\ Undone(0) = native
    /\ \A k \in 1 .. 5 : Undone(k) = UndoStep(Undone(k - 1), saved.restore, k)
<1> DEFINE Does(n, k) == UndoStep(n, saved.restore, k)
           Follows(g) == g = [k \in 0 .. 5 |-> IF k = 0 THEN native ELSE Does(g[k - 1], k)]
<1>1. Undoing = CHOOSE g : Follows(g)
  BY DEF Undoing
<1> HIDE DEF Does
<1>2. \E g : Follows(g)
  <2> DEFINE n1 == Does(native, 1)
             n2 == Does(n1, 2)
             n3 == Does(n2, 3)
             n4 == Does(n3, 4)
             n5 == Does(n4, 5)
             h == [k \in 0 .. 5 |-> IF k = 0 THEN native ELSE IF k = 1 THEN n1 ELSE IF k = 2 THEN n2
                                    ELSE IF k = 3 THEN n3 ELSE IF k = 4 THEN n4 ELSE n5]
  <2>1. /\ h[0] = native /\ h[1] = n1 /\ h[2] = n2 /\ h[3] = n3 /\ h[4] = n4 /\ h[5] = n5
        /\ DOMAIN h = 0 .. 5 /\ h = [k \in 0 .. 5 |-> h[k]]
    <3> HIDE DEF n1, n2, n3, n4, n5
    <3> QED
      OBVIOUS
  <2> HIDE DEF h
  <2>2. \A k \in 0 .. 5 : h[k] = IF k = 0 THEN native ELSE Does(h[k - 1], k)
    <3>1. \A k \in 0 .. 5 : k = 0 \/ k = 1 \/ k = 2 \/ k = 3 \/ k = 4 \/ k = 5
      OBVIOUS
    <3>2. /\ h[1] = Does(h[0], 1) /\ h[2] = Does(h[1], 2) /\ h[3] = Does(h[2], 3)
          /\ h[4] = Does(h[3], 4) /\ h[5] = Does(h[4], 5)
      BY <2>1
    <3> QED
      BY <2>1, <3>1, <3>2
  <2>3. Follows(h)
    BY <2>1, <2>2
  <2> QED
    BY <2>3
<1>3. Follows(Undoing)
  <2> HIDE DEF Follows
  <2> QED
    BY Zenon, <1>1, <1>2
<1> QED
  BY <1>3 DEF Undone, Does

\* Undoing what is recorded gives the compiled base back (rollback_overlay).
LEMMA UndoneIsBase ==
    ASSUME Restores(native, saved.restore)
    PROVE  Undone(5) = BaseModel
<1> DEFINE s == saved.restore
           cols1 == [c \in DOMAIN native.cols |-> IF c \in DOMAIN s.columnBounds THEN s.columnBounds[c]
                                                  ELSE native.cols[c]]
           rows2 == [r \in DOMAIN native.rows |->
                        IF r \in DOMAIN s.rowBounds THEN [native.rows[r] EXCEPT !.bounds = s.rowBounds[r]]
                        ELSE native.rows[r]]
           rows3 == Without(rows2, s.rows)
           cols5 == Without(cols1, s.columns)
           cost4 == CompiledCost(s.policy)
           Model(c, r, z) == [cols |-> c, rows |-> r, cost |-> z]
<1>1. DOMAIN native = {"cols", "rows", "cost"} /\ s.policy = ActiveObjective
      /\ RestoresColumns(native, s) /\ RestoresRows(native, s)
  BY DEF Restores
<1>2. cols5 = BaseColumns
  <2>1. DOMAIN cols5 = DOMAIN BaseColumns
    BY <1>1 DEF RestoresColumns, Without
  <2>2. \A c \in DOMAIN BaseColumns : cols5[c] = BaseColumns[c]
    BY <1>1 DEF RestoresColumns, Without
  <2>3. BaseColumns = [c \in DOMAIN BaseColumns |-> BaseColumns[c]]
    BY DEF BaseColumns
  <2>4. cols5 = [c \in DOMAIN cols5 |-> cols5[c]]
    BY DEF Without
  <2> HIDE DEF cols5
  <2> QED
    BY <2>1, <2>2, <2>3, <2>4
<1>3. rows3 = BaseRows
  <2>1. DOMAIN rows3 = DOMAIN BaseRows
    BY <1>1 DEF RestoresRows, Without
  <2>2. \A r \in DOMAIN BaseRows : rows3[r] = BaseRows[r]
    <3> SUFFICES ASSUME NEW r \in DOMAIN BaseRows PROVE rows3[r] = BaseRows[r]
      OBVIOUS
    <3>1. /\ native.rows[r] = [terms |-> BaseRows[r].terms, bounds |-> native.rows[r].bounds]
          /\ BaseRows[r].bounds = IF r \in DOMAIN s.rowBounds THEN s.rowBounds[r] ELSE native.rows[r].bounds
          /\ r \in DOMAIN native.rows /\ r \notin s.rows
      BY <1>1 DEF RestoresRows
    <3>2. BaseRows[r] = [terms |-> BaseRows[r].terms, bounds |-> BaseRows[r].bounds]
      BY DEF BaseRows
    <3>3. [native.rows[r] EXCEPT !.bounds = s.rowBounds[r]] = [terms |-> BaseRows[r].terms, bounds |-> s.rowBounds[r]]
      BY <3>1
    <3>4. rows3[r] = IF r \in DOMAIN s.rowBounds THEN [native.rows[r] EXCEPT !.bounds = s.rowBounds[r]]
                     ELSE native.rows[r]
      BY <3>1 DEF Without
    <3> HIDE DEF rows3, s
    <3> QED
      BY <3>1, <3>2, <3>3, <3>4
  <2>3. BaseRows = [r \in DOMAIN BaseRows |-> BaseRows[r]]
    BY DEF BaseRows
  <2>4. rows3 = [r \in DOMAIN rows3 |-> rows3[r]]
    BY DEF Without
  <2> HIDE DEF rows3
  <2> QED
    BY <2>1, <2>2, <2>3, <2>4
<1>4. Undone(1) = Model(cols1, native.rows, native.cost)
  <2>1. Undone(1) = [native EXCEPT !.cols = cols1]
    BY UndoingUnfolds DEF UndoStep
  <2> HIDE DEF cols1
  <2> QED
    BY <1>1, <2>1
<1> HIDE DEF cols1
<1>5. Undone(2) = Model(cols1, rows2, native.cost)
  BY <1>4, UndoingUnfolds DEF UndoStep
<1> HIDE DEF rows2
<1>6. Undone(3) = Model(cols1, rows3, native.cost)
  BY <1>5, UndoingUnfolds DEF UndoStep
<1> HIDE DEF rows3
<1>7. Undone(4) = Model(cols1, rows3, cost4)
  BY <1>6, UndoingUnfolds DEF UndoStep
<1> HIDE DEF cost4
<1>8. Undone(5) = Model(cols5, rows3, cost4)
  BY <1>7, UndoingUnfolds DEF UndoStep
<1> HIDE DEF cols5
<1> QED
  BY <1>1, <1>2, <1>3, <1>8 DEF BaseModel, cost4

-----------------------------------------------------------------------------
(* The backend between and during tasks                                    *)

Trusted == native = BaseModel /\ policy = ActiveObjective /\ compilation = base

\* What is recorded of the last overlay is never from the future; between tasks
\* the backend is the base or will be rebuilt; at the start of a stage it is the
\* base; and while an overlay is on it, a receipt that matches the record means
\* that the record gives the base back.
SavedBefore == saved # NoOverlay => saved.receipt.applied \in Nat /\ saved.receipt.applied <= fresh
Recoverable == RollbackMatches => saved.receipt.base = base /\ Restores(native, saved.restore)

TrustInv ==
    /\ fresh \in Nat
    /\ SavedBefore
    /\ pc \in {"idle", "sync"} => NeedsRebuild \/ Trusted
    /\ pc = "synced" => Trusted
    /\ pc \in {"applied", "undo", "rollback"} => Recoverable

\* The invariant only depends on the backend, the compiled base and the receipt.
LEMMA TrustedFixed ==
    ASSUME UNCHANGED <<model, backendVars, base, fresh>>
    PROVE  /\ SavedBefore' = SavedBefore
           /\ NeedsRebuild' = NeedsRebuild
           /\ Trusted' = Trusted
           /\ UNCHANGED receipt => Recoverable' = Recoverable
<1>1. UNCHANGED <<native, policy, compilation, health, saved>>
  BY DEF backendVars
<1>2. /\ BaseModel' = BaseModel /\ ActiveObjective' = ActiveObjective
      /\ BaseColumns' = BaseColumns /\ BaseRows' = BaseRows
  BY BaseFixed
<1>3. Restores(native, saved.restore)' = Restores(native, saved.restore)
  BY <1>1, <1>2 DEF Restores, FromBase, RestoresColumns, RestoresRows
<1>4. SavedBefore' = SavedBefore /\ NeedsRebuild' = NeedsRebuild
  BY <1>1 DEF SavedBefore, NeedsRebuild
<1>5. Trusted' = Trusted
  BY <1>1, <1>2 DEF Trusted
<1>6. ASSUME UNCHANGED receipt PROVE Recoverable' = Recoverable
  BY <1>1, <1>3, <1>6 DEF Recoverable, RollbackMatches
<1> QED
  BY <1>4, <1>5, <1>6

\* A step that leaves the backend alone: a task begins, or ends before an overlay.
LEMMA BackendLeftAlone ==
    ASSUME TrustInv, UNCHANGED <<model, backendVars, base, fresh>>,
           \/ pc = "idle" /\ pc' \in {"idle", "sync"}
           \/ pc = "synced" /\ pc' = "idle"
           \/ pc = "applied" /\ pc' \in {"undo", "rollback"} /\ UNCHANGED receipt
    PROVE  TrustInv'
<1>1. /\ SavedBefore' = SavedBefore /\ NeedsRebuild' = NeedsRebuild /\ Trusted' = Trusted
      /\ UNCHANGED receipt => Recoverable' = Recoverable
  BY TrustedFixed
<1> QED
  BY <1>1 DEF TrustInv

\* The backend is marked, or the compiled base is dropped: it will be rebuilt.
LEMMA BackendDropped ==
    ASSUME TrustInv, UNCHANGED saved, fresh' \in Nat, fresh <= fresh',
           health' = "RequiresRebuild" \/ base' = 0, pc' = "idle"
    PROVE  TrustInv'
<1>1. SavedBefore'
  BY DEF TrustInv, SavedBefore
<1>2. NeedsRebuild'
  BY DEF NeedsRebuild
<1> QED
  BY <1>1, <1>2 DEF TrustInv

\* An overlay applied at the compiled base: it can be undone, and the receipt is
\* that of the record or matches nothing.
LEMMA OverlayApplied ==
    ASSUME TrustInv, UNCHANGED model, NEW ops, pc = "synced", Applied(ops),
           receipt' \in {Envelope, WrongReceipt},
           pc' \in {"applied", "rollback"}
    PROVE  TrustInv'
<1>1. native = BaseModel /\ policy = ActiveObjective /\ compilation = base /\ fresh \in Nat
  BY DEF TrustInv, Trusted
<1> DEFINE after == Performed(ops)
<1>2. /\ Valid(ops) /\ native' = after.n /\ fresh' = fresh + 1 /\ UNCHANGED base
      /\ saved' = [restore |-> after.s, receipt |-> Envelope]
  BY DEF Applied, Accepts
<1>3. Restores(after.n, after.s)
  BY <1>1, <1>2, OverlayRecorded
<1> HIDE DEF after
<1>4. Restores(native, saved.restore)'
  <2>1. native' = after.n /\ saved'.restore = after.s
    BY <1>2
  <2>2. ActiveObjective' = ActiveObjective /\ BaseColumns' = BaseColumns /\ BaseRows' = BaseRows
    BY BaseFixed
  <2> QED
    BY <1>3, <2>1, <2>2 DEF Restores, FromBase, RestoresColumns, RestoresRows
<1>5. saved'.receipt.applied = fresh + 1 /\ saved'.receipt.base = base'
  BY <1>2 DEF Envelope
<1>6. SavedBefore'
  BY <1>1, <1>2, <1>5 DEF SavedBefore
<1>7. Recoverable'
  BY <1>4, <1>5 DEF Recoverable, RollbackMatches
<1> QED
  BY <1>1, <1>2, <1>6, <1>7 DEF TrustInv

\* An apply that stops records nothing, so its receipt matches no record and no
\* rollback is taken for a clean one.
LEMMA OverlayStopped ==
    ASSUME TrustInv, NEW ops, ApplyFails(ops)
    PROVE  TrustInv'
<1>1. /\ fresh \in Nat /\ fresh' = fresh + 1 /\ UNCHANGED saved
      /\ receipt' = [base |-> base, applied |-> fresh + 1] /\ pc' = "rollback"
  BY DEF TrustInv, ApplyFails, ApplyStops, Envelope
<1>2. SavedBefore'
  BY <1>1 DEF TrustInv, SavedBefore
<1>3. saved # NoOverlay => saved.receipt # receipt'
  BY <1>1 DEF TrustInv, SavedBefore
<1>4. ~RollbackMatches'
  BY <1>1, <1>3 DEF RollbackMatches
<1> QED
  BY <1>1, <1>2, <1>4 DEF TrustInv, Recoverable

\* A verified rollback gives the base back.
LEMMA OverlayGone ==
    ASSUME TrustInv, UNCHANGED model, pc \in {"undo", "rollback"}, UndoVerified,
           pc' \in {"idle", "synced"}
    PROVE  TrustInv'
<1>1. /\ RollbackMatches /\ native' = Undone(5) /\ policy' = saved.restore.policy
      /\ compilation' = saved.receipt.base /\ UNCHANGED <<health, saved, base, fresh>>
  BY DEF UndoVerified, RollbackClean
<1>2. saved.receipt.base = base /\ Restores(native, saved.restore)
  BY <1>1 DEF TrustInv, Recoverable
<1>3. native' = BaseModel /\ saved.restore.policy = ActiveObjective
  BY <1>1, <1>2, UndoneIsBase DEF Restores
<1>4. BaseModel' = BaseModel /\ ActiveObjective' = ActiveObjective
  BY BaseFixed
<1>5. Trusted'
  BY <1>1, <1>2, <1>3, <1>4 DEF Trusted
<1>6. SavedBefore'
  BY <1>1 DEF TrustInv, SavedBefore
<1> QED
  BY <1>1, <1>5, <1>6 DEF TrustInv

\* A rollback that is not clean, or not verified, drops the base.
LEMMA OverlayUncertain ==
    ASSUME TrustInv, pc' = "idle", UNCHANGED fresh,
           RollbackUncertain \/ VerificationFails
    PROVE  TrustInv'
<1>1. health' = "RequiresRebuild" /\ UNCHANGED saved
  BY DEF RollbackUncertain, VerificationFails
<1>2. fresh' \in Nat /\ fresh <= fresh'
  BY DEF TrustInv
<1> QED
  BY <1>1, <1>2, BackendDropped

\* The steps of a policy.
LEMMA PolicyKeepsTrust ==
    ASSUME TrustInv, UNCHANGED model,
           \/ ExecutePolicy \/ StopAtDeadline \/ StartStage \/ StartStageFails
           \/ SolveStage \/ StageRolledBack \/ StageNotRolledBack
    PROVE  TrustInv'
<1>1. CASE ExecutePolicy \/ StopAtDeadline
  <2>1. UNCHANGED <<backendVars, base, fresh>>
    BY <1>1 DEF ExecutePolicy, StopAtDeadline
  <2>2. \/ pc = "idle" /\ pc' \in {"idle", "sync"}
        \/ pc = "synced" /\ pc' = "idle"
    BY <1>1 DEF ExecutePolicy, StopAtDeadline, Descending, Ends
  <2> QED
    BY <2>1, <2>2, BackendLeftAlone
<1>2. CASE StartStage
  <2>1. Applied(StageOps) /\ receipt' = Envelope /\ pc' = "applied" /\ pc = "synced"
    BY <1>2 DEF StartStage, Apply, Descending
  <2> QED
    BY <2>1, OverlayApplied
<1>3. CASE StartStageFails
  <2>1. CASE ApplyFails(StageOps)
    BY <2>1, OverlayStopped
  <2>2. CASE ApplyMismatches(StageOps)
    <3>1. Applied(StageOps) /\ receipt' = WrongReceipt /\ pc' = "rollback" /\ pc = "synced"
      BY <1>3, <2>2 DEF StartStageFails, ApplyMismatches, Descending
    <3> QED
      BY <3>1, OverlayApplied
  <2> QED
    BY <1>3, <2>1, <2>2 DEF StartStageFails
<1>4. CASE SolveStage
  <2>1. UNCHANGED <<backendVars, base, fresh, receipt>> /\ pc = "applied" /\ pc' = "undo"
    BY <1>4 DEF SolveStage
  <2> QED
    BY <2>1, BackendLeftAlone
<1>5. CASE StageRolledBack
  <2>1. UndoVerified /\ pc = "undo" /\ pc' \in {"idle", "synced"}
    BY <1>5 DEF StageRolledBack, Proceed, Ends
  <2> QED
    BY <2>1, OverlayGone
<1>6. CASE StageNotRolledBack
  <2>1. (RollbackUncertain \/ VerificationFails) /\ UNCHANGED fresh /\ pc' = "idle"
    BY <1>6 DEF StageNotRolledBack, UndoUncertain, Ends
  <2> QED
    BY <2>1, OverlayUncertain
<1> QED
  BY <1>1, <1>2, <1>3, <1>4, <1>5, <1>6

\* The steps of a repair.
LEMMA RepairKeepsTrust ==
    ASSUME TrustInv, UNCHANGED model,
           \/ Repair \/ OpenRestrictions \/ OpenRestrictionsFails
           \/ SolveRepair \/ RepairRolledBack \/ RepairNotRolledBack
    PROVE  TrustInv'
<1>1. CASE Repair
  <2>1. UNCHANGED <<backendVars, base, fresh>> /\ pc = "idle" /\ pc' \in {"idle", "sync"}
    BY <1>1 DEF Repair, Ends
  <2> QED
    BY <2>1, BackendLeftAlone
<1>2. CASE OpenRestrictions
  <2>1. Applied(RepairOverlay(task.chosen)) /\ receipt' = Envelope /\ pc' = "applied" /\ pc = "synced"
    BY <1>2 DEF OpenRestrictions, Apply
  <2> QED
    BY <2>1, OverlayApplied
<1>3. CASE OpenRestrictionsFails
  <2>1. CASE ApplyFails(RepairOverlay(task.chosen))
    BY <2>1, OverlayStopped
  <2>2. CASE ApplyMismatches(RepairOverlay(task.chosen))
    <3>1. Applied(RepairOverlay(task.chosen)) /\ receipt' = WrongReceipt /\ pc' = "rollback" /\ pc = "synced"
      BY <1>3, <2>2 DEF OpenRestrictionsFails, ApplyMismatches
    <3> QED
      BY <3>1, OverlayApplied
  <2> QED
    BY <1>3, <2>1, <2>2 DEF OpenRestrictionsFails
<1>4. CASE SolveRepair
  <2>1. /\ UNCHANGED <<backendVars, base, fresh, receipt>>
        /\ pc = "applied" /\ pc' \in {"undo", "rollback"}
    BY <1>4 DEF SolveRepair
  <2> QED
    BY <2>1, BackendLeftAlone
<1>5. CASE RepairRolledBack
  <2>1. UndoVerified /\ pc = "undo" /\ pc' = "idle"
    BY <1>5 DEF RepairRolledBack, Ends
  <2> QED
    BY <2>1, OverlayGone
<1>6. CASE RepairNotRolledBack
  <2>1. (RollbackUncertain \/ VerificationFails) /\ UNCHANGED fresh /\ pc' = "idle"
    BY <1>6 DEF RepairNotRolledBack, UndoUncertain, Ends
  <2> QED
    BY <2>1, OverlayUncertain
<1> QED
  BY <1>1, <1>2, <1>3, <1>4, <1>5, <1>6

\* The steps of a solve plan, whose receipt nobody compares before the solve.
LEMMA PlanKeepsTrust ==
    ASSUME TrustInv, UNCHANGED model,
           \/ SolvePlan \/ OverlayRejected \/ ApplyPlan \/ ApplyPlanFails \/ SolvePlain
           \/ SolveUnderPlan \/ SolveUnderPlanFails
           \/ PlanRolledBack \/ PlanNotRolledBack \/ PlanNotVerified
    PROVE  TrustInv'
<1>1. CASE SolvePlan \/ OverlayRejected \/ SolvePlain
  <2>1. UNCHANGED <<backendVars, base, fresh>>
    BY <1>1 DEF SolvePlan, OverlayRejected, SolvePlain
  <2>2. \/ pc = "idle" /\ pc' \in {"idle", "sync"}
        \/ pc = "synced" /\ pc' = "idle"
    BY <1>1 DEF SolvePlan, OverlayRejected, SolvePlain, Ends
  <2> QED
    BY <2>1, <2>2, BackendLeftAlone
<1>2. CASE ApplyPlan
  <2>1. /\ Applied(PlanOverlay(task.plan)) /\ receipt' \in {Envelope, WrongReceipt}
        /\ pc' = "applied" /\ pc = "synced"
    BY <1>2 DEF ApplyPlan, Apply
  <2> QED
    BY <2>1, OverlayApplied
<1>3. CASE ApplyPlanFails
  <2>1. /\ UNCHANGED saved /\ fresh' = fresh + 1 /\ base' = 0 /\ pc' = "idle"
    BY <1>3 DEF ApplyPlanFails, ApplyStops, ForceRebuildOnNextSync, Ends
  <2>2. fresh' \in Nat /\ fresh <= fresh'
    BY <2>1 DEF TrustInv
  <2> QED
    BY <2>1, <2>2, BackendDropped
<1>4. CASE SolveUnderPlan \/ SolveUnderPlanFails
  <2>1. UNCHANGED <<backendVars, base, fresh, receipt>> /\ pc = "applied" /\ pc' = "undo"
    BY <1>4 DEF SolveUnderPlan, SolveUnderPlanFails
  <2> QED
    BY <2>1, BackendLeftAlone
<1>5. CASE PlanRolledBack
  <2>1. UndoVerified /\ pc = "undo" /\ pc' = "idle"
    BY <1>5 DEF PlanRolledBack, Ends
  <2> QED
    BY <2>1, OverlayGone
<1>6. CASE PlanNotRolledBack \/ PlanNotVerified
  <2>1. (RollbackUncertain \/ VerificationFails) /\ UNCHANGED fresh /\ pc' = "idle"
    BY <1>6 DEF PlanNotRolledBack, PlanNotVerified, Ends
  <2> QED
    BY <2>1, OverlayUncertain
<1> QED
  BY <1>1, <1>2, <1>3, <1>4, <1>5, <1>6

\* The steps all tasks share.
LEMMA CycleKeepsTrust ==
    ASSUME TrustInv, UNCHANGED model,
           \/ Rest \/ Synchronize \/ SynchronizeFails \/ StageFails \/ RolledBack \/ NotRolledBack
    PROVE  TrustInv'
<1>1. CASE Rest
  <2>1. UNCHANGED <<backendVars, base, fresh>> /\ pc = "idle" /\ pc' = "idle"
    BY <1>1 DEF Rest, vars, cycleVars
  <2> QED
    BY <2>1, BackendLeftAlone
<1>2. CASE Synchronize /\ ~NeedsRebuild
  <2>1. UNCHANGED <<backendVars, base, fresh>> /\ pc = "sync" /\ pc' = "synced"
    BY <1>2 DEF Synchronize
  <2>2. SavedBefore' = SavedBefore /\ Trusted' = Trusted
    BY <2>1, TrustedFixed
  <2> QED
    BY <1>2, <2>1, <2>2 DEF TrustInv
<1>3. CASE Synchronize /\ NeedsRebuild
  <2>1. /\ native' = BaseModel /\ policy' = ActiveObjective /\ compilation' = fresh + 1
        /\ base' = fresh + 1 /\ fresh' = fresh + 1 /\ UNCHANGED saved /\ pc' = "synced"
    BY <1>3 DEF Synchronize
  <2>2. BaseModel' = BaseModel /\ ActiveObjective' = ActiveObjective
    BY BaseFixed
  <2>3. SavedBefore'
    BY <2>1 DEF TrustInv, SavedBefore
  <2> QED
    BY <2>1, <2>2, <2>3 DEF TrustInv, Trusted
<1>4. CASE SynchronizeFails
  <2>1. UNCHANGED <<saved, fresh>> /\ health' = "RequiresRebuild" /\ pc' = "idle"
    BY <1>4 DEF SynchronizeFails, Ends
  <2>2. fresh' \in Nat /\ fresh <= fresh'
    BY <2>1 DEF TrustInv
  <2> QED
    BY <2>1, <2>2, BackendDropped
<1>5. CASE StageFails
  <2>1. UNCHANGED <<backendVars, base, fresh, receipt>> /\ pc = "applied" /\ pc' = "rollback"
    BY <1>5 DEF StageFails
  <2> QED
    BY <2>1, BackendLeftAlone
<1>6. CASE RolledBack
  <2>1. UndoVerified /\ pc = "rollback" /\ pc' = "idle"
    BY <1>6 DEF RolledBack, Ends
  <2> QED
    BY <2>1, OverlayGone
<1>7. CASE NotRolledBack
  <2>1. (RollbackUncertain \/ VerificationFails) /\ UNCHANGED fresh /\ pc' = "idle"
    BY <1>7 DEF NotRolledBack, UndoUncertain, Ends
  <2> QED
    BY <2>1, OverlayUncertain
<1> QED
  BY <1>1, <1>2, <1>3, <1>4, <1>5, <1>6, <1>7

LEMMA TrustKept == Spec => []TrustInv
<1>1. Init => TrustInv
  BY DEF Init, BackendInit, TrustInv, SavedBefore, Trusted
<1>2. TrustInv /\ [Next]_vars => TrustInv'
  <2> SUFFICES ASSUME TrustInv, [Next]_vars PROVE TrustInv'
    OBVIOUS
  <2>1. CASE UNCHANGED vars
    <3>1. /\ UNCHANGED <<model, backendVars, base, fresh, receipt>>
          /\ UNCHANGED pc
      BY <2>1 DEF vars, cycleVars
    <3>2. /\ SavedBefore' = SavedBefore /\ NeedsRebuild' = NeedsRebuild
          /\ Trusted' = Trusted /\ Recoverable' = Recoverable
      BY <3>1, TrustedFixed
    <3> QED
      BY <3>1, <3>2 DEF TrustInv
  <2>2. CASE Next
    BY <2>2, PolicyKeepsTrust, RepairKeepsTrust, PlanKeepsTrust, CycleKeepsTrust DEF Next, Call
  <2> QED
    BY <2>1, <2>2
<1> QED
  BY <1>1, <1>2, PTL DEF Spec

\* Between tasks, and at the start of every stage, a backend the session would not
\* rebuild holds the compiled base, whatever failed when: nothing of an overlay
\* stays behind (rollback_overlay, verify_overlay_clean,
\* force_rebuild_on_next_sync).
THEOREM TrustedIsBase == Spec => []TrustedBackendIsBase
<1>1. TrustInv => TrustedBackendIsBase
  BY DEF TrustInv, Trusted, TrustedBackendIsBase
<1> QED
  BY <1>1, TrustKept, PTL

-----------------------------------------------------------------------------
(* The deadline of a policy                                                *)

\* A running policy has spent no more than its limit; every stage but the last of
\* its levels left a lock and therefore a point; and there is a level left when
\* a stage begins.
PolicyShape(t) ==
    /\ {"kind", "levels", "budget", "elapsed", "locks", "stages"} \subseteq DOMAIN t
    /\ IsList(t.levels) /\ IsList(t.stages)
    /\ t.budget \subseteq Nat /\ \A a, b \in t.budget : a = b
    /\ t.elapsed \in Nat /\ \A limit \in t.budget : t.elapsed <= limit

LockNeedsPoint(t) == t.stages # <<>> /\ Last(t.stages).lock # {} => Last(t.stages).values # <<>>

OnTime ==
    /\ PolicyShape(task)
    /\ LockNeedsPoint(task)
    /\ Len(task.stages) <= Len(task.levels)
    /\ pc \in {"sync", "synced", "applied"} => Len(task.stages) < Len(task.levels)
    /\ pc \in {"sync", "synced"} /\ task.stages # <<>> => Last(task.stages).lock # {}

DeadlineInv ==
    /\ pc # "idle" /\ task.kind = "policy" => OnTime
    /\ DeadlineShared

\* A step within a cycle keeps what the task recorded.
LEMMA DeadlineKept ==
    ASSUME DeadlineInv, UNCHANGED <<task, answer>>,
           \/ pc = "sync" /\ pc' = "synced"
           \/ pc = "synced" /\ pc' \in {"applied", "rollback"}
           \/ pc = "applied" /\ pc' \in {"undo", "rollback"}
    PROVE  DeadlineInv'
<1>1. DeadlineShared'
  BY DEF DeadlineInv, DeadlineShared, PolicyAnswered
<1>2. task.kind = "policy" => OnTime
  BY DEF DeadlineInv
<1>3. OnTime => OnTime'
  <2> SUFFICES ASSUME OnTime PROVE OnTime'
    OBVIOUS
  <2>1. PolicyShape(task)' /\ LockNeedsPoint(task)'
    BY DEF OnTime, PolicyShape, LockNeedsPoint, IsList
  <2> QED
    BY <2>1 DEF OnTime
<1> QED
  BY <1>1, <1>2, <1>3 DEF DeadlineInv

\* An answer that is no finished policy says nothing of deadlines.
LEMMA DeadlineUnanswered ==
    ASSUME answer' = None \/ ~answer'.ok \/ answer'.kind # "policy",
           pc' = "idle" \/ task'.kind # "policy"
    PROVE  DeadlineInv'
BY DEF DeadlineInv, DeadlineShared, PolicyAnswered

\* A task that ends without the report of a policy.
LEMMA DeadlineEnds ==
    ASSUME NEW what, Ends(what), ~what.ok \/ what.kind # "policy"
    PROVE  DeadlineInv'
<1>1. answer' = what /\ pc' = "idle"
  BY DEF Ends
<1> QED
  BY <1>1, DeadlineUnanswered

\* Failures are not reports.
LEMMA FailuresFail == \A why : ~Failed(why).ok
BY DEF Failed

\* A policy begins with its whole budget and nothing done.
LEMMA PolicyStartsOnTime ==
    ASSUME DeadlineInv, ExecutePolicy
    PROVE  DeadlineInv'
<1>1. PICK t \in PolicyTasks :
        IF ValidPolicy(t.levels)
        THEN /\ task' = [kind |-> "policy", levels |-> t.levels, continuation |-> t.continuation,
                         budget |-> t.budget, elapsed |-> 0, locks |-> <<>>, stages |-> <<>>]
             /\ pc' = "sync"
             /\ answer' = None
        ELSE Ends(Failed("preflight"))
  BY DEF ExecutePolicy
<1>2. CASE ValidPolicy(t.levels)
  <2>1. t.levels \in Seq(ToSet(t.levels)) /\ t.levels # <<>>
    BY <1>2, PolicyTasksAssumption DEF ValidPolicy
  <2>2. Len(t.levels) \in Nat /\ 0 < Len(t.levels)
    BY <2>1
  <2>3. t.budget \subseteq Nat /\ \A a, b \in t.budget : a = b
    BY PolicyTasksAssumption
  <2>4. /\ {"kind", "levels", "budget", "elapsed", "locks", "stages"} \subseteq DOMAIN task'
        /\ task'.levels = t.levels /\ task'.stages = <<>> /\ task'.budget = t.budget /\ task'.elapsed = 0
    BY <1>1, <1>2
  <2>5. IsList(<<>>) /\ Len(<<>>) = 0
    BY DEF IsList
  <2>6. PolicyShape(task)'
    BY <2>1, <2>3, <2>4, <2>5 DEF PolicyShape, IsList
  <2>7. OnTime'
    BY <2>2, <2>4, <2>5, <2>6 DEF OnTime, LockNeedsPoint
  <2>8. DeadlineShared'
    BY <1>1, <1>2 DEF DeadlineShared, PolicyAnswered
  <2> QED
    BY <2>7, <2>8 DEF DeadlineInv
<1>3. CASE ~ValidPolicy(t.levels)
  BY <1>1, <1>3, DeadlineEnds, FailuresFail
<1> QED
  BY <1>2, <1>3

\* A stage takes some of the time that is left, and locks a level only with a
\* point.
LEMMA StageOnTime ==
    ASSUME DeadlineInv, SolveStage
    PROVE  DeadlineInv'
<1>1. OnTime /\ pc = "applied" /\ pc' = "undo" /\ UNCHANGED answer
  BY DEF DeadlineInv, SolveStage
<1>2. PICK a \in Answers, spent \in (IF task.budget = {} THEN {0} ELSE 0 .. Remaining) :
        LET pt == a.values
            decision == Decision(task.continuation, a.status)
            scalar == IF pt = <<>> THEN {} ELSE IF a.objective # {} THEN a.objective ELSE {EvaluatedScalar(Level, pt)}
            lock == IF decision = "Continue"
                    THEN {[scalar |-> StageScalar(Level), upper |-> LockBound(Level, z)] : z \in scalar} ELSE {}
        IN  task' = [task EXCEPT !.elapsed = @ + spent,
                                 !.locks = @ \o (IF lock = {} THEN <<>> ELSE <<CHOOSE l \in lock : TRUE>>),
                                 !.stages = Append(@, [priority |-> Level.priority, status |-> a.status,
                                                       values |-> pt, scalar |-> scalar,
                                                       lock |-> {l.upper : l \in lock}])]
  BY DEF SolveStage
<1> DEFINE pt == a.values
           scalar == IF pt = <<>> THEN {} ELSE IF a.objective # {} THEN a.objective ELSE {EvaluatedScalar(Level, pt)}
           lock == IF Decision(task.continuation, a.status) = "Continue"
                   THEN {[scalar |-> StageScalar(Level), upper |-> LockBound(Level, z)] : z \in scalar} ELSE {}
           more == IF lock = {} THEN <<>> ELSE <<CHOOSE l \in lock : TRUE>>
           stage == [priority |-> Level.priority, status |-> a.status, values |-> pt, scalar |-> scalar,
                     lock |-> {l.upper : l \in lock}]
<1>3. task' = [task EXCEPT !.elapsed = @ + spent, !.locks = @ \o more, !.stages = Append(@, stage)]
  BY <1>2
<1>4. stage.lock # {} => stage.values # <<>>
  <2>1. stage.lock = {l.upper : l \in lock} /\ stage.values = pt
    OBVIOUS
  <2>2. pt = <<>> => scalar = {}
    OBVIOUS
  <2>3. scalar = {} => lock = {}
    <3> HIDE DEF scalar
    <3> QED
      OBVIOUS
  <2> HIDE DEF stage, lock, scalar, pt
  <2> QED
    BY <2>1, <2>2, <2>3
<1> HIDE DEF stage, more
<1>5. PolicyShape(task) /\ Len(task.stages) < Len(task.levels)
  BY <1>1 DEF OnTime
<1>6. /\ task'.elapsed = task.elapsed + spent /\ task'.stages = Append(task.stages, stage)
      /\ task'.levels = task.levels /\ task'.budget = task.budget
      /\ DOMAIN task' = DOMAIN task
  BY <1>3, <1>5 DEF PolicyShape
<1>7. spent \in Nat /\ \A limit \in task.budget : task.elapsed + spent <= limit
  <2>1. CASE task.budget = {}
    BY <2>1
  <2>2. CASE task.budget # {}
    <3>1. PICK limit \in task.budget : task.budget = {limit}
      BY <1>5, <2>2 DEF PolicyShape
    <3>2. Remaining = limit - task.elapsed
      <4>1. {m - task.elapsed : m \in task.budget} = {limit - task.elapsed}
        BY <3>1
      <4>2. Remaining \in {limit - task.elapsed}
        BY Zenon, <4>1 DEF Remaining
      <4> QED
        BY <4>2
    <3>3. limit \in Nat /\ task.elapsed \in Nat
      BY <1>5 DEF PolicyShape
    <3>4. spent \in 0 .. (limit - task.elapsed)
      BY <2>2, <3>2
    <3> QED
      BY <3>1, <3>3, <3>4
  <2> QED
    BY <2>1, <2>2
<1>8. /\ IsList(task'.stages) /\ Len(task'.stages) = Len(task.stages) + 1
      /\ Last(task'.stages) = stage /\ Len(task.stages) \in Nat
  BY <1>5, <1>6, Extended DEF PolicyShape
<1>9. PolicyShape(task)'
  BY <1>5, <1>6, <1>7, <1>8 DEF PolicyShape
<1>10. LockNeedsPoint(task)'
  BY <1>4, <1>8 DEF LockNeedsPoint
<1>11. Len(task'.stages) <= Len(task'.levels)
  <2>1. Len(task.levels) \in Nat
    BY <1>5 DEF PolicyShape, IsList
  <2> QED
    BY <1>5, <1>6, <1>8, <2>1
<1>12. OnTime'
  BY <1>1, <1>9, <1>10, <1>11 DEF OnTime
<1>13. DeadlineShared'
  BY <1>1 DEF DeadlineInv, DeadlineShared, PolicyAnswered
<1> QED
  BY <1>12, <1>13 DEF DeadlineInv

\* A policy stopped at its deadline reports the point of its last stage.
LEMMA StopOnTime ==
    ASSUME DeadlineInv, StopAtDeadline
    PROVE  DeadlineInv'
<1>1. OnTime /\ pc = "synced" /\ Ends(Report(task.stages, TRUE))
  BY DEF DeadlineInv, StopAtDeadline, Descending
<1>2. CASE task.stages = <<>>
  BY <1>1, <1>2, DeadlineEnds, FailuresFail DEF Report
<1>3. CASE task.stages # <<>>
  <2>1. /\ answer' = [ok |-> TRUE, kind |-> "policy", levels |-> task.levels, budget |-> task.budget,
                      elapsed |-> task.elapsed, stages |-> task.stages, exhausted |-> TRUE]
        /\ pc' = "idle"
    BY <1>1, <1>3 DEF Report, Ends
  <2>2. /\ \A limit \in task.budget : task.elapsed <= limit
        /\ Last(task.stages).values # <<>> /\ Len(task.stages) < Len(task.levels)
    BY <1>1, <1>3 DEF OnTime, PolicyShape, LockNeedsPoint
  <2> QED
    BY <2>1, <2>2 DEF DeadlineInv, DeadlineShared
<1> QED
  BY <1>2, <1>3

\* A stage that is rolled back leads to the next one, or to the report.
LEMMA NextOnTime ==
    ASSUME DeadlineInv, StageRolledBack
    PROVE  DeadlineInv'
<1>1. OnTime /\ Proceed
  BY DEF DeadlineInv, StageRolledBack
<1>2. CASE Last(task.stages).lock = {} \/ Len(task.stages) = Len(task.levels)
  <2>1. Ends(Report(task.stages, FALSE))
    BY <1>1, <1>2 DEF Proceed
  <2>2. CASE task.stages = <<>>
    BY <2>1, <2>2, DeadlineEnds, FailuresFail DEF Report
  <2>3. CASE task.stages # <<>>
    <3>1. /\ answer' = [ok |-> TRUE, kind |-> "policy", levels |-> task.levels, budget |-> task.budget,
                        elapsed |-> task.elapsed, stages |-> task.stages, exhausted |-> FALSE]
          /\ pc' = "idle"
      BY <2>1, <2>3 DEF Report, Ends
    <3>2. \A limit \in task.budget : task.elapsed <= limit
      BY <1>1 DEF OnTime, PolicyShape
    <3> QED
      BY <3>1, <3>2 DEF DeadlineInv, DeadlineShared
  <2> QED
    BY <2>2, <2>3
<1>3. CASE ~(Last(task.stages).lock = {} \/ Len(task.stages) = Len(task.levels))
  <2>1. pc' = "synced" /\ UNCHANGED <<task, answer>>
    BY <1>1, <1>3 DEF Proceed
  <2>2. Len(task.stages) < Len(task.levels)
    <3>1. Len(task.stages) \in Nat /\ Len(task.levels) \in Nat /\ Len(task.stages) <= Len(task.levels)
      BY <1>1 DEF OnTime, PolicyShape, IsList
    <3> QED
      BY <1>3, <3>1
  <2>3. PolicyShape(task)' /\ LockNeedsPoint(task)'
    BY <1>1, <2>1 DEF OnTime, PolicyShape, LockNeedsPoint, IsList
  <2>4. OnTime'
    BY <1>1, <1>3, <2>1, <2>2, <2>3 DEF OnTime
  <2>5. DeadlineShared'
    BY <2>1 DEF DeadlineInv, DeadlineShared, PolicyAnswered
  <2> QED
    BY <2>4, <2>5 DEF DeadlineInv
<1> QED
  BY <1>2, <1>3

\* The steps that do not concern the time of a policy.
LEMMA OthersOnTime ==
    ASSUME DeadlineInv, Next,
           ~(ExecutePolicy \/ StopAtDeadline \/ SolveStage \/ StageRolledBack)
    PROVE  DeadlineInv'
<1>1. CASE Repair \/ SolvePlan
  <2>1. CASE Repair
    <3>1. PICK t \in RepairTasks :
            IF ValidScope(t.explicit)
            THEN /\ task' = [kind |-> "repair", chosen |-> Selected(t.explicit), acceptance |-> t.acceptance]
                 /\ answer' = None
            ELSE Ends(Failed("preflight"))
      BY <2>1 DEF Repair
    <3> QED
      BY <3>1, DeadlineUnanswered, DeadlineEnds, FailuresFail
  <2>2. CASE SolvePlan
    <3>1. task'.kind = "plan" /\ answer' = None
      BY <2>2 DEF SolvePlan
    <3> QED
      BY <3>1, DeadlineUnanswered
  <2> QED
    BY <1>1, <2>1, <2>2
<1>2. CASE Rest
  BY <1>2 DEF Rest, vars, cycleVars, DeadlineInv, DeadlineShared, PolicyAnswered
<1>3. CASE Synchronize \/ StartStage \/ StartStageFails \/ StageFails
  <2>1. /\ UNCHANGED <<task, answer>>
        /\ \/ pc = "sync" /\ pc' = "synced"
           \/ pc = "synced" /\ pc' \in {"applied", "rollback"}
           \/ pc = "applied" /\ pc' \in {"undo", "rollback"}
    BY <1>3 DEF Synchronize, StartStage, StartStageFails, StageFails, Descending, Apply, Applied,
                ApplyFails, ApplyMismatches
  <2> QED
    BY <2>1, DeadlineKept
<1>4. CASE OpenRestrictions \/ OpenRestrictionsFails \/ SolveRepair
  <2>1. /\ UNCHANGED <<task, answer>>
        /\ \/ pc = "synced" /\ pc' \in {"applied", "rollback"}
           \/ pc = "applied" /\ pc' \in {"undo", "rollback"}
    BY <1>4 DEF OpenRestrictions, OpenRestrictionsFails, SolveRepair, Apply, Applied, ApplyFails, ApplyMismatches
  <2> QED
    BY <2>1, DeadlineKept
<1>5. CASE ApplyPlan \/ SolveUnderPlan \/ SolveUnderPlanFails
  <2>1. /\ UNCHANGED <<task, answer>>
        /\ \/ pc = "synced" /\ pc' \in {"applied", "rollback"}
           \/ pc = "applied" /\ pc' \in {"undo", "rollback"}
    BY <1>5 DEF ApplyPlan, SolveUnderPlan, SolveUnderPlanFails, Apply, Applied
  <2> QED
    BY <2>1, DeadlineKept
<1>6. CASE \/ SynchronizeFails \/ StageNotRolledBack \/ RepairNotRolledBack \/ OverlayRejected
           \/ ApplyPlanFails \/ PlanNotVerified \/ RolledBack \/ NotRolledBack
  <2>1. \E why : Ends(Failed(why))
    BY <1>6 DEF SynchronizeFails, StageNotRolledBack, RepairNotRolledBack, OverlayRejected,
                ApplyPlanFails, PlanNotVerified, RolledBack, NotRolledBack
  <2> QED
    BY <2>1, DeadlineEnds, FailuresFail
<1>7. CASE RepairRolledBack
  <2>1. PICK what : Ends(what) /\ what.kind = "repair"
    BY <1>7 DEF RepairRolledBack
  <2> QED
    BY <2>1, DeadlineEnds
<1>8. CASE SolvePlain \/ PlanRolledBack \/ PlanNotRolledBack
  <2>1. \A a : PlanReport(a).kind = "plan"
    BY DEF PlanReport
  <2>2. PICK what : Ends(what) /\ (~what.ok \/ what.kind = "plan")
    BY <1>8, <2>1, FailuresFail DEF SolvePlain, PlanRolledBack, PlanNotRolledBack, PlanOutcome
  <2> QED
    BY <2>2, DeadlineEnds
<1> QED
  BY <1>1, <1>2, <1>3, <1>4, <1>5, <1>6, <1>7, <1>8 DEF Next, Call

LEMMA DeadlinesKept == Spec => []DeadlineInv
<1>1. Init => DeadlineInv
  BY DEF Init, BackendInit, DeadlineInv, DeadlineShared, PolicyAnswered
<1>2. DeadlineInv /\ [Next]_vars => DeadlineInv'
  <2> SUFFICES ASSUME DeadlineInv, [Next]_vars PROVE DeadlineInv'
    OBVIOUS
  <2>1. CASE UNCHANGED vars
    <3>1. UNCHANGED <<pc, task, answer>>
      BY <2>1 DEF vars, cycleVars
    <3>2. DeadlineShared'
      BY <3>1 DEF DeadlineInv, DeadlineShared, PolicyAnswered
    <3>3. OnTime => OnTime'
      BY <3>1 DEF OnTime, PolicyShape, LockNeedsPoint, IsList
    <3> QED
      BY <3>1, <3>2, <3>3 DEF DeadlineInv
  <2>2. CASE Next
    BY <2>2, PolicyStartsOnTime, StageOnTime, StopOnTime, NextOnTime, OthersOnTime
  <2> QED
    BY <2>1, <2>2
<1> QED
  BY <1>1, <1>2, PTL DEF Spec

\* All stages of a policy together take no more than its time limit, and an
\* execution that ran out of it still returns a point, that of a level before the
\* last (the shared deadline of execute_objective_policy).
THEOREM StagesShareDeadline == Spec => []DeadlineShared
<1>1. DeadlineInv => DeadlineShared
  BY DEF DeadlineInv
<1> QED
  BY <1>1, DeadlinesKept, PTL

-----------------------------------------------------------------------------
(* The causes of failures                                                  *)

\* What a task asks for is part of the model: the objectives of a policy and the
\* rows of its locks, the restrictions of a repair.  As long as the backend never
\* failed, the receipt at hand is that of the overlay on it, and the only error
\* a driver holds is that of refused evidence.
ProperPolicy(t) ==
    /\ \A i \in 1 .. Len(t.levels) : DOMAIN t.levels[i].weights \subseteq DOMAIN Objectives
    /\ IsList(t.locks) /\ \A i \in 1 .. Len(t.locks) : ProperScalar(t.locks[i].scalar)

ProperTask ==
    /\ task.kind = "policy" => ProperPolicy(task)
    /\ task.kind = "repair" => ProperScope(task.chosen)
    /\ task.kind = "plan" => task.plan \in PlanTasks

Unspoilt ==
    /\ pc \in {"applied", "undo", "rollback"} => RollbackMatches
    /\ primary = IF pc = "rollback" THEN "evidence" ELSE None

CauseInv ==
    /\ model \in Models /\ faults \in Nat
    /\ pc # "idle" => ProperTask
    /\ faults = 0 => Unspoilt
    /\ FailuresHaveACause

Causes == {"preflight", "budgetExhausted", "overlay", "evidence"}

\* What is proper only depends on the model.
LEMMA ProperFixed ==
    ASSUME UNCHANGED model
    PROVE  /\ \A s : ProperScalar(s)' <=> ProperScalar(s)
           /\ \A r : ProperRestriction(r)' <=> ProperRestriction(r)
           /\ Objectives' = Objectives
<1>1. Domain' = Domain /\ Rows' = Rows /\ Objectives' = Objectives
  BY DEF Domain, Rows, Objectives
<1>2. NextColumn' = NextColumn
  BY BaseFixed DEF NextColumn
<1>3. Vars' = Vars
  BY <1>1 DEF Vars
<1> QED
  BY <1>1, <1>2, <1>3 DEF ProperScalar, ProperRestriction, IsList

LEMMA ProperKept ==
    ASSUME UNCHANGED <<model, task>>, ProperTask
    PROVE  ProperTask'
<1>1. CASE task.kind = "policy"
  <2>1. ProperPolicy(task)'
    BY <1>1, ProperFixed DEF ProperTask, ProperPolicy, IsList
  <2> QED
    BY <1>1, <2>1 DEF ProperTask
<1>2. CASE task.kind = "repair"
  <2>1. ProperScope(task.chosen)'
    BY <1>2, ProperFixed DEF ProperTask, ProperScope, IsList
  <2> QED
    BY <1>2, <2>1 DEF ProperTask
<1>3. CASE task.kind \notin {"policy", "repair"}
  BY <1>3 DEF ProperTask
<1> QED
  BY <1>1, <1>2, <1>3

\* A step that ends a task, with a report or with an error that has a cause.
LEMMA CauseEnds ==
    ASSUME CauseInv, UNCHANGED model, faults' \in Nat, NEW what, Ends(what),
           faults' = 0 /\ ~what.ok => what.why \in Causes
    PROVE  CauseInv'
<1>1. answer' = what /\ pc' = "idle" /\ primary' = None
  BY DEF Ends
<1>2. FailuresHaveACause'
  BY <1>1 DEF FailuresHaveACause, Causes
<1>3. Unspoilt'
  BY <1>1 DEF Unspoilt
<1> QED
  BY <1>1, <1>2, <1>3 DEF CauseInv

\* A step within a task.
LEMMA CauseContinues ==
    ASSUME CauseInv, UNCHANGED <<model, answer>>, faults' = faults \/ faults' = faults + 1,
           ProperTask', faults' = 0 => Unspoilt'
    PROVE  CauseInv'
<1>1. faults' \in Nat /\ (faults' = 0 => faults = 0)
  BY DEF CauseInv
<1>2. FailuresHaveACause'
  BY <1>1 DEF CauseInv, FailuresHaveACause
<1> QED
  BY <1>1, <1>2 DEF CauseInv

\* A fault accounts for whatever follows.
LEMMA CauseFaults ==
    ASSUME CauseInv, UNCHANGED model, faults' = faults + 1,
           \/ UNCHANGED <<task, answer>> /\ pc # "idle"
           \/ \E what : Ends(what)
    PROVE  CauseInv'
<1>1. faults' \in Nat /\ faults' # 0
  BY DEF CauseInv
<1>2. CASE UNCHANGED <<task, answer>> /\ pc # "idle"
  <2>1. ProperTask'
    BY <1>2, ProperKept DEF CauseInv
  <2> QED
    BY <1>1, <1>2, <2>1, CauseContinues
<1>3. CASE \E what : Ends(what)
  BY <1>1, <1>3, CauseEnds
<1> QED
  BY <1>2, <1>3

\* An overlay that is applied matches its receipt.
LEMMA AppliedMatches ==
    ASSUME TrustInv, NEW ops, Apply(ops)
    PROVE  RollbackMatches'
<1>1. saved' = [restore |-> Performed(ops).s, receipt |-> Envelope] /\ receipt' = Envelope /\ fresh \in Nat
  BY DEF TrustInv, Apply, Applied
<1>2. saved'.receipt = Envelope /\ Envelope.applied = fresh + 1 /\ NoOverlay.receipt.applied = 0
  BY <1>1 DEF Envelope, NoOverlay
<1> QED
  BY <1>1, <1>2 DEF RollbackMatches

\* An acceptable overlay only fails to be applied by a fault.
LEMMA ApplyNeedsFault ==
    ASSUME NEW ops, Accepts(ops), ApplyFails(ops) \/ ApplyMismatches(ops)
    PROVE  faults' = faults + 1
BY DEF ApplyFails, ApplyMismatches, Fault

\* What the rollback leaves is clean when the record gives the base back
\* (verify_overlay_clean).
LEMMA RollbackIsClean ==
    ASSUME Restores(native, saved.restore), RollbackClean
    PROVE  CleanAgainst(native', policy', compilation')
<1>1. native' = BaseModel /\ policy' = saved.restore.policy /\ compilation' = saved.receipt.base
  BY UndoneIsBase DEF RollbackClean
<1>2. BaseModel.cols = BaseColumns /\ BaseModel.rows = BaseRows
  BY DEF BaseModel
<1> QED
  BY <1>1, <1>2 DEF CleanAgainst, Restores, FromBase

\* A rollback is uncertain, or not verified, only after a fault.
LEMMA UncertainNeedsFault ==
    ASSUME TrustInv, CauseInv, pc \in {"undo", "rollback"}, RollbackUncertain \/ VerificationFails
    PROVE  faults' \in Nat /\ faults' # 0
<1>1. faults \in Nat /\ Recoverable /\ (faults = 0 => RollbackMatches)
  BY DEF TrustInv, CauseInv, Unspoilt
<1>2. CASE RollbackUncertain
  BY <1>1, <1>2 DEF RollbackUncertain, Fault
<1>3. CASE VerificationFails
  <2>1. RollbackMatches /\ RollbackClean
    BY <1>3 DEF VerificationFails, RollbackClean
  <2>2. CleanAgainst(native', policy', compilation')
    BY <1>1, <2>1, RollbackIsClean DEF Recoverable
  <2> QED
    BY <1>1, <1>3, <2>2 DEF VerificationFails, Fault
<1> QED
  BY <1>2, <1>3

\* The scalar of a level of the policy.
LEMMA LevelProper ==
    ASSUME DeadlineInv, CauseInv, pc \in {"synced", "applied"}, task.kind = "policy"
    PROVE  ProperScalar(StageScalar(Level))
<1>1. OnTime /\ ProperPolicy(task) /\ model \in Models
  BY DEF DeadlineInv, CauseInv, ProperTask
<1>2. IsList(task.levels) /\ IsList(task.stages) /\ Len(task.stages) < Len(task.levels)
  BY <1>1 DEF OnTime, PolicyShape
<1>3. Len(task.levels) \in Nat /\ Len(task.stages) \in Nat
  BY <1>2, ListFacts
<1>4. Len(task.stages) + 1 \in 1 .. Len(task.levels)
  BY <1>2, <1>3
<1>5. DOMAIN Level.weights \subseteq DOMAIN Objectives
  BY <1>1, <1>4 DEF ProperPolicy, Level
<1>6. DOMAIN CombinedTerms(Level.weights) \subseteq 1 .. (NextColumn - 1)
  BY <1>1, <1>5, CombinedMentions
<1> DEFINE penalties == Ascending(PriorityPenalties(Level.priority), Len(Rows))
<1>7. IsList(penalties) /\ ToSet(penalties) \subseteq DOMAIN Rows
  BY <1>1, ModelShape, AscendingMembers
<1>8. /\ StageScalar(Level).terms = CombinedTerms(Level.weights)
      /\ StageScalar(Level).penalties = penalties
  BY DEF StageScalar
<1> HIDE DEF penalties
<1> QED
  BY <1>6, <1>7, <1>8 DEF ProperScalar

\* A backend at the base accepts the overlay of the next stage.
LEMMA StageAccepts ==
    ASSUME TrustInv, DeadlineInv, CauseInv, Descending
    PROVE  Accepts(StageOps)
<1>1. pc = "synced" /\ task.kind = "policy" /\ native = BaseModel /\ compilation = base /\ model \in Models
  BY DEF Descending, TrustInv, Trusted, CauseInv
<1>2. ProperScalar(StageScalar(Level))
  BY <1>1, LevelProper
<1>3. IsList(task.locks) /\ \A i \in 1 .. Len(task.locks) : ProperScalar(task.locks[i].scalar)
  BY <1>1 DEF CauseInv, ProperTask, ProperPolicy
<1>4. Valid(StageOps)
  BY <1>1, <1>2, <1>3, StageAccepted DEF StageOps
<1> QED
  BY <1>1, <1>4 DEF Accepts

\* An overlay that is applied, or refused after a fault, leaves the cause known.
LEMMA CauseOfApply ==
    ASSUME TrustInv, CauseInv, UNCHANGED <<model, faults>>, pc = "synced", NEW ops, Apply(ops)
    PROVE  CauseInv'
<1>1. UNCHANGED <<task, answer, primary>> /\ pc' = "applied" /\ RollbackMatches'
  BY AppliedMatches DEF Apply, Applied
<1>2. ProperTask'
  BY <1>1, ProperKept DEF CauseInv
<1>3. faults' = 0 => Unspoilt'
  BY <1>1 DEF CauseInv, Unspoilt
<1> QED
  BY <1>1, <1>2, <1>3, CauseContinues

LEMMA CauseOfFailedApply ==
    ASSUME CauseInv, UNCHANGED model, pc = "synced", NEW ops, Accepts(ops),
           ApplyFails(ops) \/ ApplyMismatches(ops)
    PROVE  CauseInv'
<1>1. faults' = faults + 1
  BY ApplyNeedsFault
<1>2. UNCHANGED <<task, answer>>
  BY DEF ApplyFails, ApplyMismatches, Applied
<1> QED
  BY <1>1, <1>2, CauseFaults

\* The steps of a policy.
LEMMA PolicyCauses ==
    ASSUME TrustInv, DeadlineInv, CauseInv, UNCHANGED model,
           \/ ExecutePolicy \/ StopAtDeadline \/ StartStage \/ StartStageFails
           \/ SolveStage \/ StageRolledBack \/ StageNotRolledBack
    PROVE  CauseInv'
<1>0. faults \in Nat /\ model \in Models
  BY DEF CauseInv
<1>1. CASE ExecutePolicy
  <2>1. PICK t \in PolicyTasks :
          IF ValidPolicy(t.levels)
          THEN /\ task' = [kind |-> "policy", levels |-> t.levels, continuation |-> t.continuation,
                           budget |-> t.budget, elapsed |-> 0, locks |-> <<>>, stages |-> <<>>]
               /\ pc' = "sync"
               /\ answer' = None
               /\ UNCHANGED <<receipt, result, primary>>
          ELSE Ends(Failed("preflight"))
    BY <1>1 DEF ExecutePolicy
  <2>2. UNCHANGED faults /\ pc = "idle"
    BY <1>1 DEF ExecutePolicy
  <2>3. CASE ValidPolicy(t.levels)
    <3>1. task'.kind = "policy" /\ task'.levels = t.levels /\ task'.locks = <<>>
      BY <2>1, <2>3
    <3>2. \A i \in 1 .. Len(t.levels) : DOMAIN t.levels[i].weights \subseteq DOMAIN Objectives
      <4>1. DOMAIN t.levels = 1 .. Len(t.levels)
        BY PolicyTasksAssumption
      <4> QED
        BY <2>3, <4>1 DEF ValidPolicy
    <3>3. IsList(<<>>) /\ Len(<<>>) = 0
      BY DEF IsList
    <3>4. ProperPolicy(task)'
      BY <3>1, <3>2, <3>3, ProperFixed DEF ProperPolicy, IsList
    <3>5. ProperTask'
      BY <3>1, <3>4 DEF ProperTask
    <3>6. faults' = 0 => Unspoilt'
      BY <2>1, <2>2, <2>3 DEF CauseInv, Unspoilt
    <3>7. FailuresHaveACause'
      BY <2>1, <2>3 DEF FailuresHaveACause
    <3> QED
      BY <1>0, <2>2, <3>5, <3>6, <3>7 DEF CauseInv
  <2>4. CASE ~ValidPolicy(t.levels)
    <3>1. Ends(Failed("preflight")) /\ Failed("preflight").why \in Causes
      BY <2>1, <2>4 DEF Failed, Causes
    <3> QED
      BY <1>0, <2>2, <3>1, CauseEnds
  <2> QED
    BY <2>3, <2>4
<1>2. CASE StopAtDeadline
  <2>1. Ends(Report(task.stages, TRUE)) /\ UNCHANGED faults
    BY <1>2 DEF StopAtDeadline
  <2>2. ~Report(task.stages, TRUE).ok => Report(task.stages, TRUE).why \in Causes
    BY DEF Report, Failed, Causes
  <2> QED
    BY <1>0, <2>1, <2>2, CauseEnds
<1>3. CASE StartStage
  <2>1. Apply(StageOps) /\ UNCHANGED faults /\ pc = "synced"
    BY <1>3 DEF StartStage, Descending
  <2> QED
    BY <2>1, CauseOfApply
<1>4. CASE StartStageFails
  <2>1. Descending /\ pc = "synced" /\ (ApplyFails(StageOps) \/ ApplyMismatches(StageOps))
    BY <1>4 DEF StartStageFails, Descending
  <2> QED
    BY <2>1, StageAccepts, CauseOfFailedApply
<1>5. CASE SolveStage
  <2>1. /\ pc = "applied" /\ pc' = "undo" /\ task.kind = "policy"
        /\ UNCHANGED <<backendVars, receipt, primary, answer, faults>>
    BY <1>5 DEF SolveStage
  <2>2. PICK elapsed, more, stages :
          /\ more = <<>> \/ \E upper : more = <<[scalar |-> StageScalar(Level), upper |-> upper]>>
          /\ task' = [task EXCEPT !.elapsed = elapsed, !.locks = @ \o more, !.stages = stages]
    <3>1. PICK a \in Answers, spent \in (IF task.budget = {} THEN {0} ELSE 0 .. Remaining) :
            LET pt == a.values
                decision == Decision(task.continuation, a.status)
                scalar == IF pt = <<>> THEN {} ELSE IF a.objective # {} THEN a.objective ELSE {EvaluatedScalar(Level, pt)}
                lock == IF decision = "Continue"
                        THEN {[scalar |-> StageScalar(Level), upper |-> LockBound(Level, z)] : z \in scalar} ELSE {}
            IN  task' = [task EXCEPT !.elapsed = @ + spent,
                                     !.locks = @ \o (IF lock = {} THEN <<>> ELSE <<CHOOSE l \in lock : TRUE>>),
                                     !.stages = Append(@, [priority |-> Level.priority, status |-> a.status,
                                                           values |-> pt, scalar |-> scalar,
                                                           lock |-> {l.upper : l \in lock}])]
      BY <1>5 DEF SolveStage
    <3> DEFINE pt == a.values
               scalar == IF pt = <<>> THEN {} ELSE IF a.objective # {} THEN a.objective ELSE {EvaluatedScalar(Level, pt)}
               lock == IF Decision(task.continuation, a.status) = "Continue"
                       THEN {[scalar |-> StageScalar(Level), upper |-> LockBound(Level, z)] : z \in scalar} ELSE {}
               the == CHOOSE l \in lock : TRUE
               more == IF lock = {} THEN <<>> ELSE <<the>>
               stages == Append(task.stages, [priority |-> Level.priority, status |-> a.status, values |-> pt,
                                              scalar |-> scalar, lock |-> {l.upper : l \in lock}])
               elapsed == task.elapsed + spent
    <3>2. task' = [task EXCEPT !.elapsed = elapsed, !.locks = @ \o more, !.stages = stages]
      BY <3>1
    <3>3. \A l \in lock : \E upper : l = [scalar |-> StageScalar(Level), upper |-> upper]
      <4> HIDE DEF scalar
      <4> QED
        OBVIOUS
    <3> HIDE DEF lock, stages, elapsed
    <3>4. lock # {} => the \in lock
      OBVIOUS
    <3>5. more = <<>> \/ \E upper : more = <<[scalar |-> StageScalar(Level), upper |-> upper]>>
      <4>1. CASE lock = {}
        BY <4>1
      <4>2. CASE lock # {}
        <5>1. PICK upper : the = [scalar |-> StageScalar(Level), upper |-> upper]
          BY <3>3, <3>4, <4>2
        <5>2. more = <<the>>
          BY <4>2
        <5> HIDE DEF the, more
        <5> QED
          BY <5>1, <5>2
      <4> QED
        BY <4>1, <4>2
    <3> HIDE DEF more
    <3> QED
      BY <3>2, <3>5
  <2>3. /\ {"kind", "levels", "elapsed", "locks", "stages"} \subseteq DOMAIN task
    BY <2>1 DEF DeadlineInv, OnTime, PolicyShape
  <2>4. task'.kind = "policy" /\ task'.levels = task.levels /\ task'.locks = Joined(task.locks, more)
    BY <2>1, <2>2, <2>3 DEF Joined
  <2>5. ProperPolicy(task) /\ IsList(task.locks)
    BY <2>1 DEF CauseInv, ProperTask, ProperPolicy
  <2>6. ProperScalar(StageScalar(Level))
    BY <2>1, LevelProper
  <2>7. IsList(more) /\ Len(more) \in Nat /\ \A i \in 1 .. Len(more) : ProperScalar(more[i].scalar)
    <3>1. CASE more = <<>>
      BY <3>1 DEF IsList
    <3>2. CASE more # <<>>
      <4>1. PICK upper : more = <<[scalar |-> StageScalar(Level), upper |-> upper]>>
        BY <2>2, <3>2
      <4> DEFINE l == [scalar |-> StageScalar(Level), upper |-> upper]
      <4>2. l.scalar = StageScalar(Level)
        OBVIOUS
      <4>3. more = <<l>>
        BY <4>1
      <4> HIDE DEF l
      <4>4. more = [i \in 1 .. 1 |-> more[i]] /\ more[1] = l
        BY <4>3
      <4>5. IsList(more) /\ Len(more) = 1
        BY <4>4, MakeList
      <4> QED
        BY <2>6, <4>2, <4>4, <4>5
    <3> QED
      BY <3>1, <3>2
  <2>8. /\ IsList(task'.locks) /\ Len(task'.locks) = Len(task.locks) + Len(more) /\ Len(task.locks) \in Nat
        /\ \A i \in 1 .. Len(task.locks) : task'.locks[i] = task.locks[i]
        /\ \A i \in 1 .. Len(more) : task'.locks[Len(task.locks) + i] = more[i]
    <3> DEFINE locks == task.locks
    <3>1. IsList(locks) /\ IsList(more)
      BY <2>5, <2>7
    <3> HIDE DEF locks
    <3>2. /\ IsList(Joined(locks, more)) /\ Len(Joined(locks, more)) = Len(locks) + Len(more)
          /\ \A i \in 1 .. Len(locks) : Joined(locks, more)[i] = locks[i]
          /\ \A i \in 1 .. Len(more) : Joined(locks, more)[Len(locks) + i] = more[i]
      BY <3>1, Concatenated
    <3>3. Len(locks) \in Nat
      BY <3>1, ListFacts
    <3> QED
      BY <2>4, <3>2, <3>3 DEF locks
  <2>9. ASSUME NEW i \in 1 .. Len(task'.locks) PROVE ProperScalar(task'.locks[i].scalar)
    <3>1. CASE i \in 1 .. Len(task.locks)
      BY <2>5, <2>8, <3>1 DEF ProperPolicy
    <3>2. CASE i \notin 1 .. Len(task.locks)
      <4>1. i - Len(task.locks) \in 1 .. Len(more) /\ Len(task.locks) + (i - Len(task.locks)) = i
        BY <2>7, <2>8, <3>2
      <4>2. task'.locks[i] = more[i - Len(task.locks)]
        BY <2>8, <4>1
      <4> QED
        BY <2>7, <4>1, <4>2
    <3> QED
      BY <3>1, <3>2
  <2>10. ProperTask'
    <3>1. ProperPolicy(task)'
      BY <2>4, <2>5, <2>8, <2>9, ProperFixed DEF ProperPolicy, IsList
    <3> QED
      BY <2>4, <3>1 DEF ProperTask
  <2>11. faults' = 0 => Unspoilt'
    BY <2>1 DEF CauseInv, Unspoilt, RollbackMatches, NoOverlay, Nothing, backendVars
  <2> QED
    BY <2>1, <2>10, <2>11, CauseContinues
<1>6. CASE StageRolledBack
  <2>1. pc = "undo" /\ UNCHANGED faults /\ Proceed
    BY <1>6 DEF StageRolledBack, UndoVerified
  <2>2. CASE Ends(Report(task.stages, FALSE))
    <3>1. ~Report(task.stages, FALSE).ok => Report(task.stages, FALSE).why \in Causes
      BY DEF Report, Failed, Causes
    <3> QED
      BY <1>0, <2>1, <2>2, <3>1, CauseEnds
  <2>3. CASE pc' = "synced" /\ UNCHANGED <<task, primary, answer>>
    <3>1. ProperTask'
      BY <2>1, <2>3, ProperKept DEF CauseInv
    <3>2. faults' = 0 => Unspoilt'
      BY <2>1, <2>3 DEF CauseInv, Unspoilt
    <3> QED
      BY <2>1, <2>3, <3>1, <3>2, CauseContinues
  <2> QED
    BY <2>1, <2>2, <2>3 DEF Proceed
<1>7. CASE StageNotRolledBack
  <2>1. pc = "undo" /\ (RollbackUncertain \/ VerificationFails) /\ Ends(Failed("cleanup"))
    BY <1>7 DEF StageNotRolledBack, UndoUncertain
  <2> QED
    BY <2>1, UncertainNeedsFault, CauseEnds
<1> QED
  BY <1>1, <1>2, <1>3, <1>4, <1>5, <1>6, <1>7

\* The steps of a repair.
LEMMA RepairCauses ==
    ASSUME TrustInv, CauseInv, UNCHANGED model,
           \/ Repair \/ OpenRestrictions \/ OpenRestrictionsFails
           \/ SolveRepair \/ RepairRolledBack \/ RepairNotRolledBack
    PROVE  CauseInv'
<1>0. faults \in Nat /\ model \in Models
  BY DEF CauseInv
<1>1. CASE Repair
  <2>1. PICK t \in RepairTasks :
          IF ValidScope(t.explicit)
          THEN /\ task' = [kind |-> "repair", chosen |-> Selected(t.explicit), acceptance |-> t.acceptance]
               /\ pc' = "sync"
               /\ answer' = None
               /\ UNCHANGED <<receipt, result, primary>>
          ELSE Ends(Failed("preflight"))
    BY <1>1 DEF Repair
  <2>2. UNCHANGED faults /\ pc = "idle"
    BY <1>1 DEF Repair
  <2>3. CASE ValidScope(t.explicit)
    <3>1. task'.kind = "repair" /\ task'.chosen = Selected(t.explicit)
      BY <2>1, <2>3
    <3>2. ProperScope(Selected(t.explicit))
      BY <1>0, SelectedProper
    <3>3. ProperScope(task.chosen)'
      BY <3>1, <3>2, ProperFixed DEF ProperScope, IsList
    <3>4. ProperTask'
      BY <3>1, <3>3 DEF ProperTask
    <3>5. faults' = 0 => Unspoilt'
      BY <2>1, <2>2, <2>3 DEF CauseInv, Unspoilt
    <3>6. FailuresHaveACause'
      BY <2>1, <2>3 DEF FailuresHaveACause
    <3> QED
      BY <1>0, <2>2, <3>4, <3>5, <3>6 DEF CauseInv
  <2>4. CASE ~ValidScope(t.explicit)
    <3>1. Ends(Failed("preflight")) /\ Failed("preflight").why \in Causes
      BY <2>1, <2>4 DEF Failed, Causes
    <3> QED
      BY <1>0, <2>2, <3>1, CauseEnds
  <2> QED
    BY <2>3, <2>4
<1>2. CASE OpenRestrictions
  <2>1. Apply(RepairOverlay(task.chosen)) /\ UNCHANGED faults /\ pc = "synced"
    BY <1>2 DEF OpenRestrictions
  <2> QED
    BY <2>1, CauseOfApply
<1>3. CASE OpenRestrictionsFails
  <2>1. pc = "synced" /\ task.kind = "repair"
        /\ (ApplyFails(RepairOverlay(task.chosen)) \/ ApplyMismatches(RepairOverlay(task.chosen)))
    BY <1>3 DEF OpenRestrictionsFails, Repairing
  <2>2. native = BaseModel /\ compilation = base /\ ProperScope(task.chosen)
    BY <2>1 DEF TrustInv, Trusted, CauseInv, ProperTask
  <2>3. Accepts(RepairOverlay(task.chosen))
    BY <1>0, <2>2, RepairAccepted DEF Accepts
  <2> QED
    BY <2>1, <2>3, CauseOfFailedApply
<1>4. CASE SolveRepair
  <2>1. /\ pc = "applied" /\ UNCHANGED <<backendVars, task, receipt, answer, faults>>
        /\ \/ pc' = "undo" /\ UNCHANGED primary
           \/ pc' = "rollback" /\ primary' = "evidence"
    BY <1>4 DEF SolveRepair
  <2>2. ProperTask'
    BY <2>1, ProperKept DEF CauseInv
  <2>3. faults' = 0 => Unspoilt'
    BY <2>1 DEF CauseInv, Unspoilt, RollbackMatches, NoOverlay, Nothing, backendVars
  <2> QED
    BY <2>1, <2>2, <2>3, CauseContinues
<1>5. CASE RepairRolledBack
  <2>1. PICK what : Ends(what) /\ what.ok
    BY <1>5 DEF RepairRolledBack
  <2>2. UNCHANGED faults
    BY <1>5 DEF RepairRolledBack, UndoVerified
  <2> QED
    BY <1>0, <2>1, <2>2, CauseEnds
<1>6. CASE RepairNotRolledBack
  <2>1. pc = "undo" /\ (RollbackUncertain \/ VerificationFails) /\ Ends(Failed("cleanup"))
    BY <1>6 DEF RepairNotRolledBack, UndoUncertain
  <2> QED
    BY <2>1, UncertainNeedsFault, CauseEnds
<1> QED
  BY <1>1, <1>2, <1>3, <1>4, <1>5, <1>6

\* The steps of a solve plan.
LEMMA PlanCauses ==
    ASSUME TrustInv, CauseInv, UNCHANGED model,
           \/ SolvePlan \/ OverlayRejected \/ ApplyPlan \/ ApplyPlanFails \/ SolvePlain
           \/ SolveUnderPlan \/ SolveUnderPlanFails
           \/ PlanRolledBack \/ PlanNotRolledBack \/ PlanNotVerified
    PROVE  CauseInv'
<1>0. faults \in Nat /\ model \in Models
  BY DEF CauseInv
<1>1. CASE SolvePlan
  <2>1. PICK t \in PlanTasks : task' = [kind |-> "plan", plan |-> t]
    BY <1>1 DEF SolvePlan
  <2>2. pc = "idle" /\ pc' = "sync" /\ answer' = None /\ UNCHANGED <<primary, faults>>
    BY <1>1 DEF SolvePlan
  <2>3. ProperTask'
    BY <2>1 DEF ProperTask
  <2>4. faults' = 0 => Unspoilt'
    BY <2>2 DEF CauseInv, Unspoilt
  <2>5. FailuresHaveACause'
    BY <2>2 DEF FailuresHaveACause
  <2> QED
    BY <1>0, <2>2, <2>3, <2>4, <2>5 DEF CauseInv
<1>2. CASE OverlayRejected
  <2>1. Ends(Failed("overlay")) /\ UNCHANGED faults /\ Failed("overlay").why \in Causes
    BY <1>2 DEF OverlayRejected, Failed, Causes
  <2> QED
    BY <1>0, <2>1, CauseEnds
<1>3. CASE ApplyPlan
  <2>1. CASE Apply(PlanOverlay(task.plan)) /\ UNCHANGED faults
    <3>1. pc = "synced"
      BY <1>3 DEF ApplyPlan
    <3> QED
      BY <2>1, <3>1, CauseOfApply
  <2>2. CASE ~(Apply(PlanOverlay(task.plan)) /\ UNCHANGED faults)
    <3>1. faults' = faults + 1 /\ UNCHANGED <<task, answer>> /\ pc = "synced"
      BY <1>3, <2>2 DEF ApplyPlan, Fault, Applied
    <3> QED
      BY <3>1, CauseFaults
  <2> QED
    BY <2>1, <2>2
<1>4. CASE ApplyPlanFails
  <2>1. /\ pc = "synced" /\ task.kind = "plan" /\ Compiles(task.plan) /\ Ends(Failed("rollback"))
        /\ Accepts(PlanOverlay(task.plan)) => faults' = faults + 1
    BY <1>4 DEF ApplyPlanFails, Planning, Fault
  <2>2. native = BaseModel /\ compilation = base /\ task.plan \in PlanTasks
    BY <2>1 DEF TrustInv, Trusted, CauseInv, ProperTask
  <2>3. Accepts(PlanOverlay(task.plan))
    BY <1>0, <2>1, <2>2, PlanAccepted DEF Accepts
  <2> QED
    BY <2>1, <2>3, CauseFaults
<1>5. CASE SolvePlain
  <2>1. PICK a : Ends(PlanReport(a))
    BY <1>5 DEF SolvePlain
  <2>2. PlanReport(a).ok /\ UNCHANGED faults
    BY <1>5 DEF PlanReport, SolvePlain
  <2> QED
    BY <1>0, <2>1, <2>2, CauseEnds
<1>6. CASE SolveUnderPlan
  <2>1. pc = "applied" /\ pc' = "undo" /\ UNCHANGED <<backendVars, task, receipt, primary, answer, faults>>
    BY <1>6 DEF SolveUnderPlan
  <2>2. ProperTask'
    BY <2>1, ProperKept DEF CauseInv
  <2>3. faults' = 0 => Unspoilt'
    BY <2>1 DEF CauseInv, Unspoilt, RollbackMatches, NoOverlay, Nothing, backendVars
  <2> QED
    BY <2>1, <2>2, <2>3, CauseContinues
<1>7. CASE SolveUnderPlanFails
  <2>1. pc = "applied" /\ UNCHANGED <<task, answer>> /\ faults' = faults + 1
    BY <1>7 DEF SolveUnderPlanFails, Fault
  <2> QED
    BY <2>1, CauseFaults
<1>8. CASE PlanRolledBack
  <2>1. pc = "undo" /\ Ends(PlanOutcome) /\ UNCHANGED faults
    BY <1>8 DEF PlanRolledBack, UndoVerified
  <2>2. faults = 0 => primary = None
    BY <2>1 DEF CauseInv, Unspoilt
  <2>3. faults' = 0 => PlanOutcome.ok
    BY <2>1, <2>2 DEF PlanOutcome, PlanReport
  <2> QED
    BY <1>0, <2>1, <2>3, CauseEnds
<1>9. CASE PlanNotRolledBack \/ PlanNotVerified
  <2>1. pc = "undo" /\ (RollbackUncertain \/ VerificationFails) /\ \E what : Ends(what)
    BY <1>9 DEF PlanNotRolledBack, PlanNotVerified
  <2> QED
    BY <2>1, UncertainNeedsFault, CauseEnds
<1> QED
  BY <1>1, <1>2, <1>3, <1>4, <1>5, <1>6, <1>7, <1>8, <1>9

\* The steps all tasks share.
LEMMA CycleCauses ==
    ASSUME TrustInv, CauseInv, UNCHANGED model,
           \/ Rest \/ Synchronize \/ SynchronizeFails \/ StageFails \/ RolledBack \/ NotRolledBack
    PROVE  CauseInv'
<1>0. faults \in Nat /\ model \in Models
  BY DEF CauseInv
<1>1. CASE Rest
  <2>1. UNCHANGED <<pc, answer, primary, faults>> /\ pc = "idle"
    BY <1>1 DEF Rest, vars, cycleVars
  <2> QED
    BY <2>1 DEF CauseInv, Unspoilt, FailuresHaveACause
<1>2. CASE Synchronize
  <2>1. pc = "sync" /\ pc' = "synced" /\ UNCHANGED <<task, primary, answer, faults>>
    BY <1>2 DEF Synchronize
  <2>2. ProperTask'
    BY <2>1, ProperKept DEF CauseInv
  <2>3. faults' = 0 => Unspoilt'
    BY <2>1 DEF CauseInv, Unspoilt
  <2> QED
    BY <2>1, <2>2, <2>3, CauseContinues
<1>3. CASE SynchronizeFails
  <2>1. faults' = faults + 1 /\ \E what : Ends(what)
    BY <1>3 DEF SynchronizeFails, Fault
  <2> QED
    BY <2>1, CauseFaults
<1>4. CASE StageFails
  <2>1. pc = "applied" /\ UNCHANGED <<task, answer>> /\ faults' = faults + 1
    BY <1>4 DEF StageFails, Fault
  <2> QED
    BY <2>1, CauseFaults
<1>5. CASE RolledBack
  <2>1. pc = "rollback" /\ Ends(Failed(primary)) /\ UNCHANGED faults
    BY <1>5 DEF RolledBack, UndoVerified
  <2>2. faults = 0 => primary = "evidence"
    BY <2>1 DEF CauseInv, Unspoilt
  <2>3. faults' = 0 => Failed(primary).why \in Causes
    BY <2>1, <2>2 DEF Failed, Causes
  <2> QED
    BY <1>0, <2>1, <2>3, CauseEnds
<1>6. CASE NotRolledBack
  <2>1. pc = "rollback" /\ (RollbackUncertain \/ VerificationFails) /\ Ends(Failed("cleanup"))
    BY <1>6 DEF NotRolledBack, UndoUncertain
  <2> QED
    BY <2>1, UncertainNeedsFault, CauseEnds
<1> QED
  BY <1>1, <1>2, <1>3, <1>4, <1>5, <1>6

\* As long as the backend does not fail, a plan, a policy or a repair only fails
\* for a reason of the caller's: a preflight, a plan that does not compile, a
\* budget, or evidence against the answer.  The overlays the drivers assemble are
\* always acceptable, and what is undone always verifies as clean
\* (build_stage_overlay, compile_portable_overlay, compile_overlay,
\* verify_overlay_clean).
THEOREM FailuresAreCaused == Spec => []FailuresHaveACause
<1>1. Init => CauseInv
  BY DEF Init, BackendInit, CauseInv, Unspoilt, FailuresHaveACause
<1>2. TrustInv /\ DeadlineInv /\ CauseInv /\ [Next]_vars => CauseInv'
  <2> SUFFICES ASSUME TrustInv, DeadlineInv, CauseInv, [Next]_vars PROVE CauseInv'
    OBVIOUS
  <2>1. CASE UNCHANGED vars
    <3>1. UNCHANGED <<model, backendVars, pc, task, receipt, primary, answer, faults>>
      BY <2>1 DEF vars, cycleVars
    <3>2. pc # "idle" => ProperTask'
      BY <3>1, ProperKept DEF CauseInv
    <3>3. faults = 0 => Unspoilt'
      BY <3>1 DEF CauseInv, Unspoilt, RollbackMatches, NoOverlay, Nothing, backendVars
    <3> QED
      BY <3>1, <3>2, <3>3 DEF CauseInv, FailuresHaveACause
  <2>2. CASE Next
    BY <2>2, PolicyCauses, RepairCauses, PlanCauses, CycleCauses DEF Next, Call
  <2> QED
    BY <2>1, <2>2
<1>3. CauseInv => FailuresHaveACause
  BY DEF CauseInv
<1> QED
  BY <1>1, <1>2, <1>3, TrustKept, DeadlinesKept, PTL DEF Spec

=============================================================================
