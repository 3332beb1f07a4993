---------------------------- MODULE PySessionProofs ----------------------------
(***************************************************************************)
(* What the Python bindings promise of names and of solutions, for any      *)
(* threads, models, sessions and names, and however many edits are made.    *)
(***************************************************************************)
EXTENDS PySession, SequenceTheorems, TLAPS

-----------------------------------------------------------------------------
(* Names of elements                                                       *)

Names == Seq(Nat) \ {<<>>}

\* An element's name is split into what it was put together from.
LEMMA ElementSplits ==
    ASSUME NEW base \in Names, NEW i \in Nat
    PROVE  /\ Element(base, i) \in Names
           /\ Generated(Element(base, i))
           /\ Front(Element(base, i)) = base
           /\ Last(Element(base, i)) = i
           /\ Element(base, i) # base
<1> DEFINE e == Append(base, i)
<1>1. base \in Seq(Nat) /\ Len(base) \in Nat \ {0}
  BY EmptySeq DEF Names
<1>2. /\ e \in Seq(Nat) /\ e # <<>> /\ Len(e) = Len(base) + 1
      /\ \A k \in 1 .. Len(base) : e[k] = base[k]
      /\ e[Len(base) + 1] = i
  BY <1>1, AppendProperties
<1> HIDE DEF e
<1>3. SubSeq(e, 1, Len(base)) = base
  <2>1. SubSeq(e, 1, Len(base)) \in Seq(Nat) /\ Len(SubSeq(e, 1, Len(base))) = Len(base)
    BY <1>1, <1>2, SubSeqProperties
  <2>2. \A k \in 1 .. Len(base) : SubSeq(e, 1, Len(base))[k] = base[k]
    BY <1>1, <1>2, SubSeqProperties
  <2> QED
    BY <1>1, <2>1, <2>2, SeqEqual
<1>4. Front(e) = base /\ Last(e) = i
  BY <1>1, <1>2, <1>3 DEF Front, Last
<1>5. e \in Names /\ Generated(e) /\ e # base
  BY <1>1, <1>2 DEF Names, Generated
<1> QED
  BY <1>4, <1>5 DEF e, Element

\* A name that could be an element's is one of what it splits into.
LEMMA SplitIsElement ==
    ASSUME NEW name \in Names, Generated(name)
    PROVE  /\ Front(name) \in Names /\ Last(name) \in Nat
           /\ name = Element(Front(name), Last(name))
<1> DEFINE n == Len(name) - 1
           f == SubSeq(name, 1, n)
<1>1. name \in Seq(Nat) /\ n \in Nat \ {0} /\ Len(name) = n + 1
  BY LenProperties DEF Names, Generated
<1>2. name[n + 1] \in Nat
  BY <1>1, ElementOfSeq
<1>3. f \in Seq(Nat) /\ Len(f) = n /\ \A k \in 1 .. n : f[k] = name[k]
  BY <1>1, SubSeqProperties
<1> HIDE DEF n, f
<1>4. f # <<>>
  BY <1>1, <1>3, EmptySeq
<1>5. Front(name) = f /\ Last(name) = name[n + 1]
  BY <1>1 DEF Front, Last, f, n
<1>6. name = Append(f, name[n + 1])
  <2> DEFINE a == Append(f, name[n + 1])
  <2>1. /\ a \in Seq(Nat) /\ Len(a) = n + 1
        /\ \A k \in 1 .. n : a[k] = f[k]
        /\ a[n + 1] = name[n + 1]
    BY <1>1, <1>2, <1>3, AppendProperties
  <2> HIDE DEF a
  <2>2. \A k \in 1 .. Len(name) : name[k] = a[k]
    <3>1. \A k \in 1 .. (n + 1) : k \in 1 .. n \/ k = n + 1
      BY <1>1
    <3> QED
      BY <1>1, <1>3, <2>1, <3>1
  <2>3. name = a
    BY <1>1, <2>1, <2>2, SeqEqual
  <2> QED
    BY <2>3 DEF a
<1> QED
  BY <1>2, <1>3, <1>4, <1>5, <1>6 DEF Names, Element

\* Elements are named apart.
LEMMA ElementsDiffer ==
    ASSUME NEW a \in Names, NEW b \in Names, NEW i \in Nat, NEW j \in Nat,
           Element(a, i) = Element(b, j)
    PROVE  a = b /\ i = j
BY ElementSplits

-----------------------------------------------------------------------------
(* The invariant of one model's names                                      *)

Taken(n) == {pair[1] : pair \in n.given} \cup n.arrayNames
Stored(n) == DOMAIN n.varNames \cup DOMAIN n.paramNames \cup n.arrayNames

NamesTyped(n) ==
    /\ n = [varNames |-> n.varNames, paramNames |-> n.paramNames, conNames |-> n.conNames,
            arrayNames |-> n.arrayNames, varArrayLens |-> n.varArrayLens,
            paramArrays |-> n.paramArrays, explicitIndices |-> n.explicitIndices,
            values |-> n.values, made |-> n.made, given |-> n.given, conGiven |-> n.conGiven]
    /\ Stored(n) \subseteq Names
    /\ DOMAIN n.varArrayLens \subseteq n.arrayNames
    /\ \A base \in DOMAIN n.varArrayLens : n.varArrayLens[base] \in Nat
    /\ n.made \in Nat
    /\ n.given \subseteq Names \X Nat /\ n.conGiven \subseteq Names \X Nat

\* What the bindings look up answers for every name that was given: a name is refused
\* just when it is taken, and the names that look like elements are indexed.
LookedUp(n) ==
    /\ \A x \in Names : x \in Taken(n) <=> ExplicitNameConflicts(n, x)
    /\ n.explicitIndices = {x \in Stored(n) : Generated(x)}

\* Names are given once, and what is stored under one is what it was given to.
Kept(n) ==
    /\ GivenOnce(n.given)
    /\ \A x \in DOMAIN n.paramNames : <<x, n.paramNames[x]>> \in n.given
    /\ \A pair \in n.conGiven : pair[1] \in DOMAIN n.conNames /\ n.conNames[pair[1]] = pair[2]

NamesInv(n) == NamesTyped(n) /\ LookedUp(n) /\ Kept(n)

\* The implicit names are those of the elements of the variable arrays.
LEMMA ImplicitNames ==
    ASSUME NEW n, NamesTyped(n), NEW x \in Names
    PROVE  ImplicitVarElement(n, x) <=>
              \E base \in DOMAIN n.varArrayLens : x \in ElementsOf(base, n.varArrayLens[base])
<1>1. ASSUME ImplicitVarElement(n, x)
      PROVE  \E base \in DOMAIN n.varArrayLens : x \in ElementsOf(base, n.varArrayLens[base])
  <2>1. /\ Generated(x) /\ Front(x) \in DOMAIN n.varArrayLens
        /\ Last(x) < n.varArrayLens[Front(x)]
    BY <1>1 DEF ImplicitVarElement
  <2>2. Last(x) \in Nat /\ x = Element(Front(x), Last(x))
    BY <2>1, SplitIsElement
  <2>3. Last(x) \in 0 .. (n.varArrayLens[Front(x)] - 1)
    BY <2>1, <2>2 DEF NamesTyped
  <2> QED
    BY <2>1, <2>2, <2>3 DEF ElementsOf
<1>2. ASSUME NEW base \in DOMAIN n.varArrayLens, x \in ElementsOf(base, n.varArrayLens[base])
      PROVE  ImplicitVarElement(n, x)
  <2>1. base \in Names /\ n.varArrayLens[base] \in Nat
    BY DEF NamesTyped, Stored
  <2>2. PICK i \in 0 .. (n.varArrayLens[base] - 1) : x = Element(base, i)
    BY <1>2 DEF ElementsOf
  <2>3. i \in Nat /\ i < n.varArrayLens[base]
    BY <2>1, <2>2
  <2>4. Generated(x) /\ Front(x) = base /\ Last(x) = i
    BY <2>1, <2>2, <2>3, ElementSplits
  <2> QED
    BY <2>3, <2>4 DEF ImplicitVarElement
<1> QED
  BY <1>1, <1>2

\* A new array is refused just when one of its names is taken.
LEMMA RefusedWhenTaken ==
    ASSUME NEW n, NamesInv(n), NEW name \in Names, NEW len \in Nat
    PROVE  ArrayRefused(n, name, len) <=> ({name} \cup ElementsOf(name, len)) \cap Taken(n) # {}
<1>1. name \in Taken(n) <=> ExplicitNameConflicts(n, name)
  BY DEF NamesInv, LookedUp
<1>2. ASSUME name \notin Taken(n), NEW i \in 0 .. (len - 1)
      PROVE  Element(name, i) \in Taken(n) <=> Element(name, i) \in n.explicitIndices
  <2> DEFINE e == Element(name, i)
  <2>1. e \in Names /\ Generated(e) /\ Front(e) = name
    BY ElementSplits
  <2> HIDE DEF e
  <2>2. name \notin n.arrayNames
    BY <1>2 DEF Taken
  <2>3. ~ImplicitVarElement(n, e)
    BY <2>1, <2>2 DEF ImplicitVarElement, NamesInv, NamesTyped
  <2>4. e \in Taken(n) <=> e \in Stored(n)
    BY <2>1, <2>3 DEF NamesInv, LookedUp, ExplicitNameConflicts, NameTaken, Stored
  <2>5. e \in Stored(n) <=> e \in n.explicitIndices
    BY <2>1 DEF NamesInv, LookedUp
  <2> QED
    BY <2>4, <2>5 DEF e
<1>3. CASE name \in Taken(n)
  BY <1>1, <1>3 DEF ArrayRefused
<1>4. CASE name \notin Taken(n)
  <2>1. ArrayRefused(n, name, len) <=> ElementsOf(name, len) \cap n.explicitIndices # {}
    BY <1>1, <1>4 DEF ArrayRefused, ProspectiveArrayConflicts
  <2>2. \A e \in ElementsOf(name, len) : e \in Taken(n) <=> e \in n.explicitIndices
    BY <1>2, <1>4 DEF ElementsOf
  <2> QED
    BY <1>4, <2>1, <2>2
<1> QED
  BY <1>3, <1>4

-----------------------------------------------------------------------------
(* The operations that give names                                          *)

\* The names that become taken are free, apart, and each is given something.
LEMMA GivenOnceMore ==
    ASSUME NEW n, NamesInv(n), NEW new \in SUBSET (Names \X Nat),
           \A pair \in new : pair[1] \notin Taken(n), GivenOnce(new)
    PROVE  GivenOnce(n.given \cup new)
<1> SUFFICES ASSUME NEW a \in n.given \cup new, NEW b \in n.given \cup new, a[1] = b[1]
             PROVE  a = b
  BY DEF GivenOnce
<1>1. \A pair \in n.given : pair[1] \in Taken(n)
  BY DEF Taken
<1> QED
  BY <1>1 DEF GivenOnce, NamesInv, Kept

\* The pairs an array of free names is given.
NewGiven(n, base, len) ==
    {<<base, n.made>>} \cup {<<Element(base, i), n.made + 1 + i>> : i \in 0 .. (len - 1)}

\* They are apart and none of them was given before.
LEMMA ArrayGiven ==
    ASSUME NEW n, NamesInv(n), NEW base \in Names, NEW len \in Nat, ~ArrayRefused(n, base, len)
    PROVE  /\ Given(n, base, len) = n.given \cup NewGiven(n, base, len)
           /\ NewGiven(n, base, len) \subseteq Names \X Nat
           /\ \A x : (\E pair \in NewGiven(n, base, len) : pair[1] = x)
                        <=> x \in {base} \cup ElementsOf(base, len)
           /\ GivenOnce(n.given \cup NewGiven(n, base, len))
<1> DEFINE new == NewGiven(n, base, len)
<1>1. n.made \in Nat
  BY DEF NamesInv, NamesTyped
<1>2. \A i \in 0 .. (len - 1) : /\ i \in Nat /\ Element(base, i) \in Names
                                /\ Element(base, i) # base
  BY ElementSplits
<1>3. new \subseteq Names \X Nat
  BY <1>1, <1>2 DEF NewGiven
<1>4. /\ \A p \in new : \/ p = <<base, n.made>>
                        \/ \E i \in 0 .. (len - 1) : p = <<Element(base, i), n.made + 1 + i>>
      /\ <<base, n.made>> \in new
      /\ \A i \in 0 .. (len - 1) : <<Element(base, i), n.made + 1 + i>> \in new
  BY DEF NewGiven
<1> HIDE DEF new
<1>5. \A x : (\E pair \in new : pair[1] = x) <=> x \in {base} \cup ElementsOf(base, len)
  <2>1. \A pair \in new : pair[1] \in {base} \cup ElementsOf(base, len)
    BY <1>4 DEF ElementsOf
  <2>2. ASSUME NEW x \in {base} \cup ElementsOf(base, len)
        PROVE  \E pair \in new : pair[1] = x
    <3>1. CASE x = base
      <4>1. <<base, n.made>>[1] = x
        BY <3>1
      <4> QED
        BY <1>4, <4>1
    <3>2. CASE x \in ElementsOf(base, len)
      <4>1. PICK i \in 0 .. (len - 1) : x = Element(base, i)
        BY <3>2 DEF ElementsOf
      <4>2. <<Element(base, i), n.made + 1 + i>>[1] = x
        BY <4>1
      <4> QED
        BY <1>4, <4>2
    <3> QED
      BY <3>1, <3>2
  <2> QED
    BY <2>1, <2>2
<1>6. GivenOnce(new)
  <2> SUFFICES ASSUME NEW a \in new, NEW b \in new, a[1] = b[1] PROVE a = b
    BY DEF GivenOnce
  <2>1. \A i, j \in 0 .. (len - 1) : Element(base, i) = Element(base, j) => i = j
    BY <1>2, ElementsDiffer
  <2> QED
    BY <1>2, <1>4, <2>1
<1>7. \A pair \in new : pair[1] \notin Taken(n)
  BY <1>5, RefusedWhenTaken
<1>8. GivenOnce(n.given \cup new)
  BY <1>3, <1>6, <1>7, GivenOnceMore
<1>9. Given(n, base, len) = n.given \cup new
  BY DEF Given, NewGiven, new
<1> QED
  BY <1>3, <1>5, <1>8, <1>9 DEF new

\* A variable of its own name.
LEMMA NewVarKeeps ==
    ASSUME NEW n, NamesInv(n), NEW name \in Names
    PROVE  NamesInv(NewVar(n, name))
<1> DEFINE r == NewVar(n, name)
<1>1. CASE ExplicitNameConflicts(n, name)
  BY <1>1 DEF NewVar
<1>2. CASE ~ExplicitNameConflicts(n, name)
  <2>1. NamesTyped(n) /\ LookedUp(n) /\ Kept(n)
    BY DEF NamesInv
  <2>2. r = [n EXCEPT !.varNames = With(@, name, n.made), !.explicitIndices = Indexed(n, {name}),
                      !.made = @ + 1, !.given = @ \cup {<<name, n.made>>}]
    BY <1>2 DEF NewVar
  <2>3. /\ r = [varNames |-> r.varNames, paramNames |-> r.paramNames, conNames |-> r.conNames,
                arrayNames |-> r.arrayNames, varArrayLens |-> r.varArrayLens,
                paramArrays |-> r.paramArrays, explicitIndices |-> r.explicitIndices,
                values |-> r.values, made |-> r.made, given |-> r.given, conGiven |-> r.conGiven]
        /\ r.varNames = With(n.varNames, name, n.made)
        /\ r.paramNames = n.paramNames /\ r.conNames = n.conNames /\ r.arrayNames = n.arrayNames
        /\ r.varArrayLens = n.varArrayLens /\ r.conGiven = n.conGiven
        /\ r.explicitIndices = Indexed(n, {name})
        /\ r.made = n.made + 1 /\ r.given = n.given \cup {<<name, n.made>>}
    BY <2>1, <2>2 DEF NamesTyped
  <2> HIDE DEF r
  <2>4. Stored(r) = Stored(n) \cup {name} /\ Taken(r) = Taken(n) \cup {name}
    <3>1. Stored(r) = Stored(n) \cup {name}
      BY <2>3 DEF Stored, With
    <3>2. <<name, n.made>>[1] = name
      OBVIOUS
    <3>3. {pair[1] : pair \in r.given} = {pair[1] : pair \in n.given} \cup {name}
      BY <2>3, <3>2
    <3> QED
      BY <2>3, <3>1, <3>3 DEF Taken
  <2>5. NamesTyped(r)
    BY <2>1, <2>3, <2>4 DEF NamesTyped
  <2>6. LookedUp(r)
    <3>1. \A x \in Names : ImplicitVarElement(r, x) <=> ImplicitVarElement(n, x)
      BY <2>3 DEF ImplicitVarElement
    <3>2. \A x \in Names : x \in Taken(r) <=> ExplicitNameConflicts(r, x)
      BY <2>1, <2>4, <3>1 DEF LookedUp, ExplicitNameConflicts, NameTaken, Stored
    <3>3. r.explicitIndices = {x \in Stored(r) : Generated(x)}
      BY <2>1, <2>3, <2>4 DEF LookedUp, Indexed
    <3> QED
      BY <3>2, <3>3 DEF LookedUp
  <2>7. Kept(r)
    <3>1. GivenOnce(r.given)
      <4> DEFINE new == {<<name, n.made>>}
      <4>1. new \subseteq Names \X Nat /\ GivenOnce(new)
        BY <2>1 DEF NamesTyped, GivenOnce
      <4>2. \A pair \in new : pair[1] \notin Taken(n)
        BY <1>2, <2>1 DEF LookedUp
      <4> HIDE DEF new
      <4>3. GivenOnce(n.given \cup new)
        BY <4>1, <4>2, GivenOnceMore
      <4> QED
        BY <2>3, <4>3 DEF new
    <3> QED
      BY <2>1, <2>3, <3>1 DEF Kept
  <2> QED
    BY <2>5, <2>6, <2>7 DEF NamesInv, r
<1> QED
  BY <1>1, <1>2

\* A parameter of its own name: the name leads to it from now on.
LEMMA NewParamKeeps ==
    ASSUME NEW n, NamesInv(n), NEW name \in Names
    PROVE  NamesInv(NewParam(n, name))
<1> DEFINE r == NewParam(n, name)
<1>1. CASE ExplicitNameConflicts(n, name)
  BY <1>1 DEF NewParam
<1>2. CASE ~ExplicitNameConflicts(n, name)
  <2>1. NamesTyped(n) /\ LookedUp(n) /\ Kept(n)
    BY DEF NamesInv
  <2>2. r = [n EXCEPT !.paramNames = With(@, name, n.made), !.values = With(@, n.made, 0),
                      !.explicitIndices = Indexed(n, {name}),
                      !.made = @ + 1, !.given = @ \cup {<<name, n.made>>}]
    BY <1>2 DEF NewParam
  <2>3. /\ r = [varNames |-> r.varNames, paramNames |-> r.paramNames, conNames |-> r.conNames,
                arrayNames |-> r.arrayNames, varArrayLens |-> r.varArrayLens,
                paramArrays |-> r.paramArrays, explicitIndices |-> r.explicitIndices,
                values |-> r.values, made |-> r.made, given |-> r.given, conGiven |-> r.conGiven]
        /\ r.paramNames = With(n.paramNames, name, n.made)
        /\ r.varNames = n.varNames /\ r.conNames = n.conNames /\ r.arrayNames = n.arrayNames
        /\ r.varArrayLens = n.varArrayLens /\ r.conGiven = n.conGiven
        /\ r.explicitIndices = Indexed(n, {name})
        /\ r.made = n.made + 1 /\ r.given = n.given \cup {<<name, n.made>>}
    BY <2>1, <2>2 DEF NamesTyped
  <2> HIDE DEF r
  <2>4. Stored(r) = Stored(n) \cup {name} /\ Taken(r) = Taken(n) \cup {name}
    <3>1. Stored(r) = Stored(n) \cup {name}
      BY <2>3 DEF Stored, With
    <3>2. <<name, n.made>>[1] = name
      OBVIOUS
    <3>3. {pair[1] : pair \in r.given} = {pair[1] : pair \in n.given} \cup {name}
      BY <2>3, <3>2
    <3> QED
      BY <2>3, <3>1, <3>3 DEF Taken
  <2>5. NamesTyped(r)
    BY <2>1, <2>3, <2>4 DEF NamesTyped
  <2>6. LookedUp(r)
    <3>1. \A x \in Names : ImplicitVarElement(r, x) <=> ImplicitVarElement(n, x)
      BY <2>3 DEF ImplicitVarElement
    <3>2. \A x \in Names : x \in Taken(r) <=> ExplicitNameConflicts(r, x)
      BY <2>1, <2>4, <3>1 DEF LookedUp, ExplicitNameConflicts, NameTaken, Stored
    <3>3. r.explicitIndices = {x \in Stored(r) : Generated(x)}
      BY <2>1, <2>3, <2>4 DEF LookedUp, Indexed
    <3> QED
      BY <3>2, <3>3 DEF LookedUp
  <2>7. Kept(r)
    <3>1. GivenOnce(r.given)
      <4> DEFINE new == {<<name, n.made>>}
      <4>1. new \subseteq Names \X Nat /\ GivenOnce(new)
        BY <2>1 DEF NamesTyped, GivenOnce
      <4>2. \A pair \in new : pair[1] \notin Taken(n)
        BY <1>2, <2>1 DEF LookedUp
      <4> HIDE DEF new
      <4>3. GivenOnce(n.given \cup new)
        BY <4>1, <4>2, GivenOnceMore
      <4> QED
        BY <2>3, <4>3 DEF new
    <3> QED
      BY <2>1, <2>3, <3>1 DEF Kept, With
  <2> QED
    BY <2>5, <2>6, <2>7 DEF NamesInv, r
<1> QED
  BY <1>1, <1>2

\* An array of variables: the base is stored, the elements are only reserved.
LEMMA NewVarsKeeps ==
    ASSUME NEW n, NamesInv(n), NEW base \in Names, NEW len \in Nat
    PROVE  NamesInv(NewVars(n, base, len))
<1> DEFINE r == NewVars(n, base, len)
           new == NewGiven(n, base, len)
<1>1. CASE ArrayRefused(n, base, len)
  BY <1>1 DEF NewVars
<1>2. CASE ~ArrayRefused(n, base, len)
  <2>1. NamesTyped(n) /\ LookedUp(n) /\ Kept(n)
    BY DEF NamesInv
  <2>2. r = [n EXCEPT !.arrayNames = @ \cup {base}, !.explicitIndices = Indexed(n, {base}),
                      !.varArrayLens = With(@, base, len),
                      !.made = @ + len + 1, !.given = Given(n, base, len)]
    BY <1>2 DEF NewVars
  <2>3. /\ Given(n, base, len) = n.given \cup new
        /\ new \subseteq Names \X Nat
        /\ \A x : (\E pair \in new : pair[1] = x) <=> x \in {base} \cup ElementsOf(base, len)
        /\ GivenOnce(n.given \cup new)
    BY <1>2, ArrayGiven
  <2> HIDE DEF new
  <2>4. /\ r = [varNames |-> r.varNames, paramNames |-> r.paramNames, conNames |-> r.conNames,
                arrayNames |-> r.arrayNames, varArrayLens |-> r.varArrayLens,
                paramArrays |-> r.paramArrays, explicitIndices |-> r.explicitIndices,
                values |-> r.values, made |-> r.made, given |-> r.given, conGiven |-> r.conGiven]
        /\ r.varNames = n.varNames /\ r.paramNames = n.paramNames /\ r.conNames = n.conNames
        /\ r.arrayNames = n.arrayNames \cup {base} /\ r.conGiven = n.conGiven
        /\ r.varArrayLens = With(n.varArrayLens, base, len)
        /\ r.explicitIndices = Indexed(n, {base})
        /\ r.made = n.made + len + 1 /\ r.given = n.given \cup new
    BY <2>1, <2>2, <2>3 DEF NamesTyped
  <2> HIDE DEF r
  <2>5. Stored(r) = Stored(n) \cup {base}
    BY <2>4 DEF Stored
  <2>6. Taken(r) = Taken(n) \cup {base} \cup ElementsOf(base, len)
    <3>1. \A x : x \in Taken(r) <=> x \in Taken(n) \/ x = base \/ \E pair \in new : pair[1] = x
      BY <2>4 DEF Taken
    <3> QED
      BY <2>3, <3>1
  <2>7. NamesTyped(r)
    <3>1. /\ DOMAIN r.varArrayLens = DOMAIN n.varArrayLens \cup {base}
          /\ \A b \in DOMAIN r.varArrayLens :
                r.varArrayLens[b] = IF b = base THEN len ELSE n.varArrayLens[b]
      BY <2>4 DEF With
    <3>2. DOMAIN r.varArrayLens \subseteq r.arrayNames /\ r.made \in Nat
      BY <2>1, <2>4, <3>1 DEF NamesTyped
    <3>3. \A b \in DOMAIN r.varArrayLens : r.varArrayLens[b] \in Nat
      BY <2>1, <3>1 DEF NamesTyped
    <3>4. /\ r.given \subseteq Names \X Nat /\ r.conGiven \subseteq Names \X Nat
          /\ Stored(r) \subseteq Names
      BY <2>1, <2>3, <2>4, <2>5 DEF NamesTyped
    <3> QED
      BY <2>4, <3>2, <3>3, <3>4 DEF NamesTyped
  <2>8. LookedUp(r)
    <3>1. ASSUME NEW x \in Names
          PROVE  ImplicitVarElement(r, x) <=> ImplicitVarElement(n, x) \/ x \in ElementsOf(base, len)
      <4>1. base \notin DOMAIN n.varArrayLens
        BY <1>2, <2>1 DEF ArrayRefused, ExplicitNameConflicts, NameTaken, NamesTyped
      <4>2. \A b : /\ b \in DOMAIN r.varArrayLens <=> b \in DOMAIN n.varArrayLens \/ b = base
                   /\ b \in DOMAIN n.varArrayLens => r.varArrayLens[b] = n.varArrayLens[b]
                   /\ r.varArrayLens[base] = len
        BY <2>4, <4>1 DEF With
      <4> QED
        BY <2>1, <2>7, <4>2, ImplicitNames
    <3>2. \A x \in Names : x \in Taken(r) <=> ExplicitNameConflicts(r, x)
      BY <2>1, <2>4, <2>6, <3>1 DEF LookedUp, ExplicitNameConflicts, NameTaken
    <3>3. r.explicitIndices = {x \in Stored(r) : Generated(x)}
      BY <2>1, <2>4, <2>5 DEF LookedUp, Indexed
    <3> QED
      BY <3>2, <3>3 DEF LookedUp
  <2>9. Kept(r)
    BY <2>1, <2>3, <2>4 DEF Kept
  <2> QED
    BY <2>7, <2>8, <2>9 DEF NamesInv, r
<1> QED
  BY <1>1, <1>2

\* An array of parameters: base and elements are stored.
LEMMA NewParamsKeeps ==
    ASSUME NEW n, NamesInv(n), NEW base \in Names, NEW len \in Nat
    PROVE  NamesInv(NewParams(n, base, len))
<1> DEFINE r == NewParams(n, base, len)
           new == NewGiven(n, base, len)
           id == [e \in ElementsOf(base, len) |-> n.made + 1 + Last(e)]
           named == [e \in DOMAIN n.paramNames \cup ElementsOf(base, len) |->
                        IF e \in ElementsOf(base, len) THEN id[e] ELSE n.paramNames[e]]
<1>1. CASE ArrayRefused(n, base, len)
  BY <1>1 DEF NewParams
<1>2. CASE ~ArrayRefused(n, base, len)
  <2>1. NamesTyped(n) /\ LookedUp(n) /\ Kept(n)
    BY DEF NamesInv
  <2>2. \E f, g : r = [n EXCEPT !.paramNames = named, !.values = f,
                      !.explicitIndices = Indexed(n, ElementsOf(base, len) \cup {base}),
                      !.arrayNames = @ \cup {base}, !.paramArrays = g,
                      !.made = @ + len + 1, !.given = Given(n, base, len)]
    BY <1>2 DEF NewParams
  <2>3. /\ Given(n, base, len) = n.given \cup new
        /\ new \subseteq Names \X Nat
        /\ \A x : (\E pair \in new : pair[1] = x) <=> x \in {base} \cup ElementsOf(base, len)
        /\ GivenOnce(n.given \cup new)
    BY <1>2, ArrayGiven
  <2>4. \A e \in ElementsOf(base, len) : e \in Names /\ <<e, id[e]>> \in new
    <3> SUFFICES ASSUME NEW i \in 0 .. (len - 1)
                 PROVE  Element(base, i) \in Names /\ <<Element(base, i), id[Element(base, i)]>> \in new
      BY DEF ElementsOf
    <3>1. Element(base, i) \in Names /\ Last(Element(base, i)) = i
      BY ElementSplits
    <3>2. id[Element(base, i)] = n.made + 1 + i
      BY <3>1 DEF ElementsOf
    <3> QED
      BY <3>1, <3>2 DEF NewGiven
  <2>5. /\ DOMAIN named = DOMAIN n.paramNames \cup ElementsOf(base, len)
        /\ \A e \in ElementsOf(base, len) : named[e] = id[e]
        /\ \A e \in DOMAIN n.paramNames \ ElementsOf(base, len) : named[e] = n.paramNames[e]
    OBVIOUS
  <2> HIDE DEF new, id, named
  <2>6. /\ r = [varNames |-> r.varNames, paramNames |-> r.paramNames, conNames |-> r.conNames,
                arrayNames |-> r.arrayNames, varArrayLens |-> r.varArrayLens,
                paramArrays |-> r.paramArrays, explicitIndices |-> r.explicitIndices,
                values |-> r.values, made |-> r.made, given |-> r.given, conGiven |-> r.conGiven]
        /\ r.varNames = n.varNames /\ r.paramNames = named /\ r.conNames = n.conNames
        /\ r.arrayNames = n.arrayNames \cup {base} /\ r.conGiven = n.conGiven
        /\ r.varArrayLens = n.varArrayLens
        /\ r.explicitIndices = Indexed(n, ElementsOf(base, len) \cup {base})
        /\ r.made = n.made + len + 1 /\ r.given = n.given \cup new
    BY <2>1, <2>2, <2>3 DEF NamesTyped
  <2> HIDE DEF r
  <2>7. Stored(r) = Stored(n) \cup {base} \cup ElementsOf(base, len)
    BY <2>5, <2>6 DEF Stored
  <2>8. Taken(r) = Taken(n) \cup {base} \cup ElementsOf(base, len)
    <3>1. \A x : x \in Taken(r) <=> x \in Taken(n) \/ x = base \/ \E pair \in new : pair[1] = x
      BY <2>6 DEF Taken
    <3> QED
      BY <2>3, <3>1
  <2>9. NamesTyped(r)
    <3>1. r.made \in Nat
      BY <2>1, <2>6 DEF NamesTyped
    <3>2. Stored(r) \subseteq Names
      BY <2>1, <2>4, <2>7 DEF NamesTyped
    <3>3. r.given \subseteq Names \X Nat /\ r.conGiven \subseteq Names \X Nat
      BY <2>1, <2>3, <2>6 DEF NamesTyped
    <3> QED
      BY <2>1, <2>6, <3>1, <3>2, <3>3 DEF NamesTyped
  <2>10. LookedUp(r)
    <3>1. \A x \in Names : ImplicitVarElement(r, x) <=> ImplicitVarElement(n, x)
      BY <2>6 DEF ImplicitVarElement
    <3>2. \A x \in Names : x \in Taken(r) <=> ExplicitNameConflicts(r, x)
      BY <2>1, <2>7, <2>8, <3>1 DEF LookedUp, ExplicitNameConflicts, NameTaken, Stored
    <3>3. r.explicitIndices = {x \in Stored(r) : Generated(x)}
      BY <2>1, <2>6, <2>7 DEF LookedUp, Indexed
    <3> QED
      BY <3>2, <3>3 DEF LookedUp
  <2>11. Kept(r)
    BY <2>1, <2>3, <2>4, <2>5, <2>6 DEF Kept
  <2> QED
    BY <2>9, <2>10, <2>11 DEF NamesInv, r
<1> QED
  BY <1>1, <1>2

\* Constraints have names of their own; what looks like an element is indexed too.
LEMMA AddConstraintKeeps ==
    ASSUME NEW n, NamesInv(n), NEW name \in Names
    PROVE  NamesInv(AddConstraint(n, name))
<1> DEFINE r == AddConstraint(n, name)
<1>1. CASE name \in DOMAIN n.conNames \/ NameTaken(n, name) \/ ImplicitVarElement(n, name)
  BY <1>1 DEF AddConstraint
<1>2. CASE ~(name \in DOMAIN n.conNames \/ NameTaken(n, name) \/ ImplicitVarElement(n, name))
  <2>1. NamesTyped(n) /\ LookedUp(n) /\ Kept(n)
    BY DEF NamesInv
  <2>2. r = [n EXCEPT !.conNames = With(@, name, n.made),
                      !.made = @ + 1, !.conGiven = @ \cup {<<name, n.made>>}]
    BY <1>2 DEF AddConstraint
  <2>3. /\ r = [varNames |-> r.varNames, paramNames |-> r.paramNames, conNames |-> r.conNames,
                arrayNames |-> r.arrayNames, varArrayLens |-> r.varArrayLens,
                paramArrays |-> r.paramArrays, explicitIndices |-> r.explicitIndices,
                values |-> r.values, made |-> r.made, given |-> r.given, conGiven |-> r.conGiven]
        /\ r.varNames = n.varNames /\ r.paramNames = n.paramNames
        /\ r.conNames = With(n.conNames, name, n.made)
        /\ r.arrayNames = n.arrayNames /\ r.varArrayLens = n.varArrayLens
        /\ r.explicitIndices = n.explicitIndices /\ r.given = n.given
        /\ r.made = n.made + 1 /\ r.conGiven = n.conGiven \cup {<<name, n.made>>}
    BY <2>1, <2>2 DEF NamesTyped
  <2> HIDE DEF r
  <2>4. Stored(r) = Stored(n) /\ Taken(r) = Taken(n)
    BY <2>3 DEF Stored, Taken
  <2>5. NamesTyped(r)
    BY <2>1, <2>3, <2>4 DEF NamesTyped
  <2>6. LookedUp(r)
    BY <2>1, <2>3, <2>4 DEF LookedUp, ExplicitNameConflicts, NameTaken, ImplicitVarElement
  <2>7. Kept(r)
    BY <1>2, <2>1, <2>3 DEF Kept, With
  <2> QED
    BY <2>5, <2>6, <2>7 DEF NamesInv, r
<1> QED
  BY <1>1, <1>2

\* An array of constraints whose names no constraint and nothing stored has: that the
\* base may be what an element of a variable array is called takes no name from it.
LEMMA ConstraintsKeep ==
    ASSUME NEW n, NamesInv(n), NEW base \in Names, NEW len \in Nat,
           ~ConstraintNamesTaken(n, base, len)
    PROVE  NamesInv(Constraints(n, base, len))
<1> DEFINE r == Constraints(n, base, len)
           id == [e \in ElementsOf(base, len) |-> n.made + Last(e)]
           named == [e \in DOMAIN n.conNames \cup ElementsOf(base, len) |->
                        IF e \in ElementsOf(base, len) THEN id[e] ELSE n.conNames[e]]
           new == {<<e, id[e]>> : e \in ElementsOf(base, len)}
<1>1. NamesTyped(n) /\ LookedUp(n) /\ Kept(n)
  BY DEF NamesInv
<1>2. r = [n EXCEPT !.conNames = named, !.arrayNames = @ \cup {base},
                    !.explicitIndices = Indexed(n, {base}),
                    !.made = @ + len, !.conGiven = @ \cup new]
  BY DEF Constraints
<1>3. new \subseteq Names \X Nat
  <2> SUFFICES ASSUME NEW i \in 0 .. (len - 1)
               PROVE  <<Element(base, i), id[Element(base, i)]>> \in Names \X Nat
    BY DEF ElementsOf
  <2>1. Element(base, i) \in Names /\ Last(Element(base, i)) = i /\ n.made \in Nat
    BY <1>1, ElementSplits DEF NamesTyped
  <2>2. id[Element(base, i)] = n.made + i
    BY <2>1 DEF ElementsOf
  <2> QED
    BY <2>1, <2>2
<1>4. /\ DOMAIN named = DOMAIN n.conNames \cup ElementsOf(base, len)
      /\ \A e \in ElementsOf(base, len) : named[e] = id[e]
      /\ \A e \in DOMAIN n.conNames \ ElementsOf(base, len) : named[e] = n.conNames[e]
  OBVIOUS
<1>5. \A pair \in new : pair[1] \in ElementsOf(base, len) /\ pair[2] = id[pair[1]]
  OBVIOUS
<1> HIDE DEF new, id, named
<1>6. /\ r = [varNames |-> r.varNames, paramNames |-> r.paramNames, conNames |-> r.conNames,
              arrayNames |-> r.arrayNames, varArrayLens |-> r.varArrayLens,
              paramArrays |-> r.paramArrays, explicitIndices |-> r.explicitIndices,
              values |-> r.values, made |-> r.made, given |-> r.given, conGiven |-> r.conGiven]
      /\ r.varNames = n.varNames /\ r.paramNames = n.paramNames /\ r.conNames = named
      /\ r.arrayNames = n.arrayNames \cup {base} /\ r.varArrayLens = n.varArrayLens
      /\ r.explicitIndices = Indexed(n, {base})
      /\ r.made = n.made + len /\ r.given = n.given /\ r.conGiven = n.conGiven \cup new
  BY <1>1, <1>2 DEF NamesTyped
<1> HIDE DEF r
<1>7. Stored(r) = Stored(n) \cup {base} /\ Taken(r) = Taken(n) \cup {base}
  BY <1>6 DEF Stored, Taken
<1>8. NamesTyped(r)
  BY <1>1, <1>3, <1>6, <1>7 DEF NamesTyped
<1>9. LookedUp(r)
  <2>1. \A x \in Names : ImplicitVarElement(r, x) <=> ImplicitVarElement(n, x)
    BY <1>6 DEF ImplicitVarElement
  <2>2. \A x \in Names : x \in Taken(r) <=> ExplicitNameConflicts(r, x)
    BY <1>1, <1>6, <1>7, <2>1 DEF LookedUp, ExplicitNameConflicts, NameTaken
  <2>3. r.explicitIndices = {x \in Stored(r) : Generated(x)}
    BY <1>1, <1>6, <1>7 DEF LookedUp, Indexed
  <2> QED
    BY <2>2, <2>3 DEF LookedUp
<1>10. Kept(r)
  <2>1. \A e \in ElementsOf(base, len) : e \notin DOMAIN n.conNames
    BY DEF ConstraintNamesTaken
  <2>2. ASSUME NEW pair \in r.conGiven
        PROVE  pair[1] \in DOMAIN r.conNames /\ r.conNames[pair[1]] = pair[2]
    <3>1. CASE pair \in new
      BY <1>4, <1>5, <1>6, <3>1
    <3>2. CASE pair \in n.conGiven
      <4>1. pair[1] \in DOMAIN n.conNames /\ n.conNames[pair[1]] = pair[2]
        BY <1>1, <3>2 DEF Kept
      <4> QED
        BY <1>4, <1>6, <2>1, <4>1
    <3> QED
      BY <1>6, <2>2, <3>1, <3>2
  <2> QED
    BY <1>1, <1>6, <2>2 DEF Kept
<1> QED
  BY <1>8, <1>9, <1>10 DEF NamesInv, r

\* Values of parameters have nothing to do with names.
LEMMA InstallKeeps ==
    ASSUME NEW n, NamesInv(n), NEW params, NEW v
    PROVE  NamesInv(Install(n, params, v))
<1> DEFINE r == Install(n, params, v)
<1>1. NamesTyped(n) /\ LookedUp(n) /\ Kept(n)
  BY DEF NamesInv
<1>2. \E f : r = [n EXCEPT !.values = f]
  BY DEF Install
<1>3. /\ r = [varNames |-> n.varNames, paramNames |-> n.paramNames, conNames |-> n.conNames,
              arrayNames |-> n.arrayNames, varArrayLens |-> n.varArrayLens,
              paramArrays |-> n.paramArrays, explicitIndices |-> n.explicitIndices,
              values |-> r.values, made |-> n.made, given |-> n.given, conGiven |-> n.conGiven]
  BY <1>1, <1>2 DEF NamesTyped
<1> HIDE DEF r
<1>4. NamesTyped(r) /\ Kept(r)
  BY <1>1, <1>3 DEF NamesTyped, Kept, Stored
<1>5. LookedUp(r)
  BY <1>1, <1>3 DEF LookedUp, ExplicitNameConflicts, NameTaken, ImplicitVarElement, Stored, Taken
<1> QED
  BY <1>4, <1>5 DEF NamesInv, r

\* A model without names.
LEMMA NoNamesKept == NamesInv(NoNames)
<1>1. /\ DOMAIN NoNames.varNames = {} /\ DOMAIN NoNames.paramNames = {} /\ NoNames.arrayNames = {}
      /\ DOMAIN NoNames.varArrayLens = {} /\ NoNames.given = {} /\ NoNames.conGiven = {}
      /\ NoNames.explicitIndices = {} /\ NoNames.made = 0
  BY DEF NoNames
<1>2. NamesTyped(NoNames)
  <2>1. NoNames = [varNames |-> NoNames.varNames, paramNames |-> NoNames.paramNames,
                   conNames |-> NoNames.conNames, arrayNames |-> NoNames.arrayNames,
                   varArrayLens |-> NoNames.varArrayLens, paramArrays |-> NoNames.paramArrays,
                   explicitIndices |-> NoNames.explicitIndices, values |-> NoNames.values,
                   made |-> NoNames.made, given |-> NoNames.given, conGiven |-> NoNames.conGiven]
    BY DEF NoNames
  <2> QED
    BY <1>1, <2>1 DEF NamesTyped, Stored
<1>3. LookedUp(NoNames)
  BY <1>1 DEF LookedUp, ExplicitNameConflicts, NameTaken, ImplicitVarElement, Stored, Taken
<1>4. Kept(NoNames)
  BY <1>1 DEF Kept, GivenOnce
<1> QED
  BY <1>2, <1>3, <1>4 DEF NamesInv

-----------------------------------------------------------------------------
(* The invariant of the threads                                            *)

Updating(t) == call[t] # None /\ call[t].is = "update"

\* The shapes of the state.
Typed ==
    /\ program \in Programs
    /\ DOMAIN state = Models
    /\ revision \in [Models -> Nat]
    /\ sessions \in [Sessions -> [bound : Models \cup {None}, closed : BOOLEAN]]
    /\ lockedBy \in [Models \cup Sessions -> Threads \cup {None}]
    /\ DOMAIN call = Threads
    /\ \A t \in Threads :
          \/ call[t] = None
          \/ call[t].model \in Models /\ call[t] = [is |-> "update", model |-> call[t].model]
          \/ /\ call[t].is \in {"checked", "solving"}
             /\ call[t].model \in Models /\ call[t].session \in Sessions
             /\ call[t] = [is |-> call[t].is, session |-> call[t].session, model |-> call[t].model,
                           start |-> call[t].start]
    /\ DOMAIN solution = Threads

\* A thread that updates holds the model; one that solves holds the model and a session
\* that is open, bound to the model and, like it, not broken.
LocksHeld ==
    \A t \in Threads :
        /\ Updating(t) => lockedBy[call[t].model] = t
        /\ Solving(t) =>
             /\ lockedBy[call[t].model] = t /\ lockedBy[call[t].session] = t
             /\ ~sessions[call[t].session].closed
             /\ sessions[call[t].session].bound = call[t].model
             /\ {call[t].session, call[t].model} \cap poisoned = {}

\* A solution is of the model at the revision it names.
SolutionsDated ==
    \A t \in Threads : solution[t] # None =>
        LET s == solution[t] IN
        /\ s.sound
        /\ s.model \in Models /\ s.revision \in Nat
        /\ s.revision <= revision[s.model]
        /\ s.revision = revision[s.model] => s.of = state[s.model]

AllNamed == \A m \in Models : NamesInv(state[m])

ThreadsInv == Typed /\ LocksHeld /\ SolutionsDated /\ AllNamed

\* What a program asks for.
LEMMA ProgramTyped ==
    ASSUME Typed
    PROVE  /\ program.threads \subseteq Threads /\ program.sessions \subseteq Sessions
           /\ program.models \subseteq Models
           /\ program.names \subseteq Names /\ program.lengths \subseteq Nat
BY ProgramsAssumption DEF Typed, Names

\* A model that becomes another gets a revision of its own, and no solver holds it.
LEMMA BecomeKeeps ==
    ASSUME ThreadsInv, NEW m \in Models, NEW edited, NamesInv(edited),
           state' = [state EXCEPT ![m] = edited], Marked(m),
           UNCHANGED <<sessions, poisoned, solution, program, lockedBy, call>>
    PROVE  ThreadsInv'
<1>1. /\ Typed /\ LocksHeld /\ SolutionsDated /\ AllNamed
  BY DEF ThreadsInv
<1>2. revision' = [revision EXCEPT ![m] = revision[m] + 1] /\ revision[m] \in Nat
  BY <1>1 DEF Marked, Typed
<1>3. Typed'
  BY <1>1, <1>2 DEF Typed
<1>4. LocksHeld'
  BY <1>1 DEF LocksHeld, Updating, Solving
<1>5. SolutionsDated'
  <2> SUFFICES ASSUME NEW t \in Threads, solution[t] # None
               PROVE  LET s == solution[t] IN
                      /\ s.sound
                      /\ s.model \in Models /\ s.revision \in Nat
                      /\ s.revision <= revision'[s.model]
                      /\ s.revision = revision'[s.model] => s.of = state'[s.model]
    BY DEF SolutionsDated
  <2>1. /\ solution[t].sound /\ solution[t].model \in Models /\ solution[t].revision \in Nat
        /\ solution[t].revision <= revision[solution[t].model]
        /\ solution[t].revision = revision[solution[t].model] => solution[t].of = state[solution[t].model]
    BY <1>1 DEF SolutionsDated
  <2>2. CASE solution[t].model = m
    BY <1>1, <1>2, <2>1, <2>2 DEF Typed
  <2>3. CASE solution[t].model # m
    BY <1>1, <1>2, <2>1, <2>3 DEF Typed
  <2> QED
    BY <2>2, <2>3
<1>6. AllNamed'
  BY <1>1 DEF AllNamed, Typed
<1> QED
  BY <1>3, <1>4, <1>5, <1>6 DEF ThreadsInv

\* Every edit gives names as the operations above do.
LEMMA EditKeeps ==
    ASSUME ThreadsInv, NEW t \in Threads, NEW m \in Models, Edit(t, m), UNCHANGED program
    PROVE  ThreadsInv'
<1>1. program.names \subseteq Names /\ program.lengths \subseteq Nat
  BY ProgramTyped DEF ThreadsInv
<1>2. NamesInv(state[m])
  BY DEF ThreadsInv, AllNamed
<1>3. ASSUME NEW edited, NamesInv(edited), Become(m, edited)
      PROVE  ThreadsInv'
  BY <1>3, BecomeKeeps DEF Become, Edit
<1>4. PICK name \in program.names :
          \/ Become(m, NewVar(state[m], name))
          \/ Become(m, NewParam(state[m], name))
          \/ Become(m, AddConstraint(state[m], name))
          \/ \E len \in program.lengths :
                \/ Become(m, NewVars(state[m], name, len))
                \/ Become(m, NewParams(state[m], name, len))
                \/ Become(m, AddArray(state[m], name, len))
                \/ Become(m, AddLinearRows(state[m], name, len))
  BY DEF Edit
<1>5. name \in Names
  BY <1>1
<1>6. /\ NamesInv(NewVar(state[m], name)) /\ NamesInv(NewParam(state[m], name))
      /\ NamesInv(AddConstraint(state[m], name))
  BY <1>2, <1>5, NewVarKeeps, NewParamKeeps, AddConstraintKeeps
<1>7. CASE \E len \in program.lengths :
             \/ Become(m, NewVars(state[m], name, len))
             \/ Become(m, NewParams(state[m], name, len))
             \/ Become(m, AddArray(state[m], name, len))
             \/ Become(m, AddLinearRows(state[m], name, len))
  <2>1. PICK len \in program.lengths :
             \/ Become(m, NewVars(state[m], name, len))
             \/ Become(m, NewParams(state[m], name, len))
             \/ Become(m, AddArray(state[m], name, len))
             \/ Become(m, AddLinearRows(state[m], name, len))
    BY <1>7
  <2>2. len \in Nat
    BY <1>1
  <2>3. NamesInv(NewVars(state[m], name, len)) /\ NamesInv(NewParams(state[m], name, len))
    BY <1>2, <1>5, <2>2, NewVarsKeeps, NewParamsKeeps
  <2>4. NamesInv(AddLinearRows(state[m], name, len)) /\ NamesInv(AddArray(state[m], name, len))
    BY <1>2, <1>5, <2>2, ConstraintsKeep DEF AddLinearRows, AddArray
  <2> QED
    BY <1>3, <2>1, <2>3, <2>4
<1> QED
  BY <1>3, <1>4, <1>6, <1>7

\* An update takes the lock of a model nobody holds.
LEMMA BeginUpdateKeeps ==
    ASSUME ThreadsInv, NEW t \in Threads, NEW m \in Models, BeginUpdate(t, m), UNCHANGED program
    PROVE  ThreadsInv'
<1>1. Typed /\ LocksHeld /\ SolutionsDated /\ AllNamed
  BY DEF ThreadsInv
<1>2. /\ call' = [call EXCEPT ![t] = [is |-> "update", model |-> m]]
      /\ lockedBy' = [lockedBy EXCEPT ![m] = t]
      /\ lockedBy[m] = None
      /\ UNCHANGED <<program, state, pending, revision, sessions, poisoned, solution>>
  BY DEF BeginUpdate, Free
<1>3. Typed'
  BY <1>1, <1>2 DEF Typed
<1>4. LocksHeld'
  <2> SUFFICES ASSUME NEW u \in Threads PROVE
          /\ Updating(u)' => lockedBy'[call'[u].model] = u
          /\ Solving(u)' =>
               /\ lockedBy'[call'[u].model] = u /\ lockedBy'[call'[u].session] = u
               /\ ~sessions'[call'[u].session].closed
               /\ sessions'[call'[u].session].bound = call'[u].model
               /\ {call'[u].session, call'[u].model} \cap poisoned' = {}
    BY Zenon DEF LocksHeld
  <2>1. CASE u = t
    BY <1>1, <1>2, <2>1 DEF Typed, Updating, Solving
  <2>2. CASE u # t
    <3>1. call'[u] = call[u] /\ u # None
      BY <1>1, <1>2, <2>2, NoneAssumption DEF Typed
    <3> QED
      BY <1>1, <1>2, <3>1 DEF Typed, LocksHeld, Updating, Solving
  <2> QED
    BY <2>1, <2>2
<1>5. SolutionsDated' /\ AllNamed'
  BY <1>1, <1>2 DEF SolutionsDated, AllNamed
<1> QED
  BY <1>3, <1>4, <1>5 DEF ThreadsInv

\* A thread that gives back what it holds takes nothing from the others.
LEMMA ReturnKeepsLocks ==
    ASSUME Typed, LocksHeld, NEW t \in Threads, call' = [call EXCEPT ![t] = None],
           \A x \in DOMAIN lockedBy : lockedBy[x] # t => lockedBy'[x] = lockedBy[x],
           UNCHANGED sessions,
           \A x \in poisoned' \ poisoned : lockedBy[x] = t
    PROVE  LocksHeld'
<1> SUFFICES ASSUME NEW u \in Threads PROVE
        /\ Updating(u)' => lockedBy'[call'[u].model] = u
        /\ Solving(u)' =>
             /\ lockedBy'[call'[u].model] = u /\ lockedBy'[call'[u].session] = u
             /\ ~sessions'[call'[u].session].closed
             /\ sessions'[call'[u].session].bound = call'[u].model
             /\ {call'[u].session, call'[u].model} \cap poisoned' = {}
  BY Zenon DEF LocksHeld
<1>1. CASE u = t
  BY <1>1 DEF Typed, Updating, Solving
<1>2. CASE u # t
  <2>1. call'[u] = call[u]
    BY <1>2 DEF Typed
  <2>2. Updating(u) => call[u].model \in DOMAIN lockedBy
    BY DEF Typed, Updating
  <2>3. Solving(u) => call[u].model \in DOMAIN lockedBy /\ call[u].session \in DOMAIN lockedBy
    BY DEF Typed, Solving
  <2> QED
    BY <1>2, <2>1, <2>2, <2>3 DEF LocksHeld, Updating, Solving
<1> QED
  BY <1>1, <1>2

\* What happened to a model's values while an update converted its arguments is only
\* seen once the update ends, and is dated then.
LEMMA EndUpdateKeeps ==
    ASSUME ThreadsInv, NEW t \in Threads, EndUpdate(t), UNCHANGED program
    PROVE  ThreadsInv'
<1> DEFINE m == call[t].model
<1>1. Typed /\ LocksHeld /\ SolutionsDated /\ AllNamed
  BY DEF ThreadsInv
<1>2. /\ Updating(t) /\ m \in Models /\ lockedBy[m] = t
      /\ lockedBy' = [lockedBy EXCEPT ![m] = None]
      /\ call' = [call EXCEPT ![t] = None]
      /\ UNCHANGED <<program, sessions, poisoned, solution>>
      /\ \/ \E params, v : state' = [state EXCEPT ![m] = Install(@, params, v)] /\ Marked(m)
         \/ UNCHANGED <<state, pending, revision>>
  BY <1>1 DEF EndUpdate, Updating, LocksHeld, Typed
<1> HIDE DEF m
<1>3. LocksHeld'
  BY <1>1, <1>2, ReturnKeepsLocks DEF Typed
<1>4. CASE UNCHANGED <<state, pending, revision>>
  <2>1. Typed'
    BY <1>1, <1>2, <1>4 DEF Typed
  <2> QED
    BY <1>1, <1>2, <1>3, <1>4, <2>1 DEF ThreadsInv, SolutionsDated, AllNamed
<1>5. ASSUME NEW params, NEW v, state' = [state EXCEPT ![m] = Install(@, params, v)], Marked(m)
      PROVE  ThreadsInv'
  <2>1. revision' = [revision EXCEPT ![m] = revision[m] + 1] /\ revision[m] \in Nat
    BY <1>1, <1>2, <1>5 DEF Marked, Typed
  <2>2. Typed'
    BY <1>1, <1>2, <1>5, <2>1 DEF Typed
  <2>3. AllNamed'
    BY <1>1, <1>2, <1>5, InstallKeeps DEF AllNamed, Typed
  <2>4. SolutionsDated'
    <3> SUFFICES ASSUME NEW u \in Threads, solution[u] # None
                 PROVE  LET s == solution[u] IN
                        /\ s.sound
                        /\ s.model \in Models /\ s.revision \in Nat
                        /\ s.revision <= revision'[s.model]
                        /\ s.revision = revision'[s.model] => s.of = state'[s.model]
      BY <1>2 DEF SolutionsDated
    <3>1. /\ solution[u].sound /\ solution[u].model \in Models /\ solution[u].revision \in Nat
          /\ solution[u].revision <= revision[solution[u].model]
          /\ solution[u].revision = revision[solution[u].model] => solution[u].of = state[solution[u].model]
      BY <1>1 DEF SolutionsDated
    <3>2. CASE solution[u].model = m
      BY <1>1, <2>1, <3>1, <3>2 DEF Typed
    <3>3. CASE solution[u].model # m
      BY <1>1, <1>5, <2>1, <3>1, <3>3 DEF Typed
    <3> QED
      BY <3>2, <3>3
  <2> QED
    BY <1>3, <2>2, <2>3, <2>4 DEF ThreadsInv
<1> QED
  BY <1>2, <1>4, <1>5

\* Looking at a session changes nothing.
LEMMA CheckKeeps ==
    ASSUME ThreadsInv, NEW t \in Threads, NEW s \in Sessions, NEW m \in Models, NEW start,
           Check(t, s, m, start), UNCHANGED program
    PROVE  ThreadsInv'
<1>1. Typed /\ LocksHeld /\ SolutionsDated /\ AllNamed
  BY DEF ThreadsInv
<1>2. /\ call' = [call EXCEPT ![t] = [is |-> "checked", session |-> s, model |-> m, start |-> start]]
      /\ UNCHANGED <<program, state, pending, revision, sessions, lockedBy, poisoned, solution>>
  BY DEF Check
<1>3. Typed'
  BY <1>1, <1>2 DEF Typed
<1>4. LocksHeld'
  <2> SUFFICES ASSUME NEW u \in Threads PROVE
          /\ Updating(u)' => lockedBy'[call'[u].model] = u
          /\ Solving(u)' =>
               /\ lockedBy'[call'[u].model] = u /\ lockedBy'[call'[u].session] = u
               /\ ~sessions'[call'[u].session].closed
               /\ sessions'[call'[u].session].bound = call'[u].model
               /\ {call'[u].session, call'[u].model} \cap poisoned' = {}
    BY Zenon DEF LocksHeld
  <2>1. CASE u = t
    BY <1>1, <1>2, <2>1 DEF Typed, Updating, Solving
  <2>2. CASE u # t
    BY <1>1, <1>2, <2>2 DEF Typed, LocksHeld, Updating, Solving
  <2> QED
    BY <2>1, <2>2
<1>5. SolutionsDated' /\ AllNamed'
  BY <1>1, <1>2 DEF SolutionsDated, AllNamed
<1> QED
  BY <1>3, <1>4, <1>5 DEF ThreadsInv

\* A solve begins with the locks of session and model, both free, and looks again at
\* what was checked before: no other solve is in the session it binds.
LEMMA EnterSolveKeeps ==
    ASSUME ThreadsInv, NEW t \in Threads, EnterSolve(t), UNCHANGED program
    PROVE  ThreadsInv'
<1> DEFINE s == call[t].session
           m == call[t].model
           binds == Free(s) /\ ~sessions[s].closed /\ Free(m) /\ Binds(s, m)
<1>1. Typed /\ LocksHeld /\ SolutionsDated /\ AllNamed
  BY DEF ThreadsInv
<1>2. /\ call[t] # None /\ call[t].is = "checked"
      /\ s \in Sessions /\ m \in Models
      /\ call[t] = [is |-> "checked", session |-> s, model |-> m, start |-> call[t].start]
  BY <1>1 DEF EnterSolve, Typed
<1>3. /\ sessions' = IF binds THEN [sessions EXCEPT ![s].bound = m] ELSE sessions
      /\ \/ /\ binds
            /\ lockedBy' = [lockedBy EXCEPT ![s] = t, ![m] = t]
            /\ call' = [call EXCEPT ![t].is = "solving"]
         \/ call' = [call EXCEPT ![t] = None] /\ UNCHANGED lockedBy
      /\ UNCHANGED <<program, state, pending, revision, poisoned, solution>>
  BY DEF EnterSolve, Return
<1>4. binds => lockedBy[s] = None /\ lockedBy[m] = None /\ {s, m} \cap poisoned = {} /\ ~sessions[s].closed
  BY DEF Free
<1> HIDE DEF s, m, binds
<1>5. SolutionsDated' /\ AllNamed'
  BY <1>1, <1>3 DEF SolutionsDated, AllNamed
<1>6. sessions' \in [Sessions -> [bound : Models \cup {None}, closed : BOOLEAN]]
  BY <1>1, <1>2, <1>3 DEF Typed
<1>7. \A x \in Sessions : lockedBy[x] # None => sessions'[x] = sessions[x]
  BY <1>1, <1>3, <1>4 DEF Typed
<1>8. \A u \in Threads : u # None
  BY NoneAssumption
<1>9. CASE call' = [call EXCEPT ![t] = None] /\ UNCHANGED lockedBy
  <2>1. Typed'
    BY <1>1, <1>3, <1>6, <1>9 DEF Typed
  <2>2. LocksHeld'
    <3> SUFFICES ASSUME NEW u \in Threads PROVE
            /\ Updating(u)' => lockedBy'[call'[u].model] = u
            /\ Solving(u)' =>
                 /\ lockedBy'[call'[u].model] = u /\ lockedBy'[call'[u].session] = u
                 /\ ~sessions'[call'[u].session].closed
                 /\ sessions'[call'[u].session].bound = call'[u].model
                 /\ {call'[u].session, call'[u].model} \cap poisoned' = {}
      BY Zenon DEF LocksHeld
    <3>1. CASE u = t
      BY <1>1, <1>9, <3>1 DEF Typed, Updating, Solving
    <3>2. CASE u # t
      <4>1. call'[u] = call[u]
        BY <1>1, <1>9, <3>2 DEF Typed
      <4>2. (Updating(u)' <=> Updating(u)) /\ (Solving(u)' <=> Solving(u))
        BY <4>1 DEF Updating, Solving
      <4>3. Solving(u) => sessions'[call[u].session] = sessions[call[u].session]
        <5>1. SUFFICES ASSUME Solving(u) PROVE sessions'[call[u].session] = sessions[call[u].session]
          OBVIOUS
        <5>2. call[u].session \in Sessions /\ lockedBy[call[u].session] = u
          BY <1>1, <5>1 DEF Typed, Solving, LocksHeld
        <5> QED
          BY <1>7, <1>8, <5>2
      <4> QED
        BY <1>1, <1>3, <1>9, <4>1, <4>2, <4>3 DEF LocksHeld
    <3> QED
      BY <3>1, <3>2
  <2> QED
    BY <1>5, <2>1, <2>2 DEF ThreadsInv
<1>10. CASE /\ binds
            /\ lockedBy' = [lockedBy EXCEPT ![s] = t, ![m] = t]
            /\ call' = [call EXCEPT ![t].is = "solving"]
  <2>1. call' = [call EXCEPT ![t] = [is |-> "solving", session |-> s, model |-> m, start |-> call[t].start]]
    <3> DEFINE e == call[t].start
    <3>1. call[t] = [is |-> "checked", session |-> s, model |-> m, start |-> e]
      BY <1>2
    <3> HIDE DEF e
    <3>2. [call[t] EXCEPT !.is = "solving"] = [is |-> "solving", session |-> s, model |-> m, start |-> e]
      BY <3>1
    <3>3. call' = [call EXCEPT ![t] = [call[t] EXCEPT !.is = "solving"]]
      BY <1>10
    <3> QED
      BY <3>2, <3>3 DEF e
  <2>2. sessions' = [sessions EXCEPT ![s].bound = m]
    BY <1>3, <1>10
  <2>3. Typed'
    BY <1>1, <1>2, <1>3, <1>6, <1>10, <2>1 DEF Typed
  <2>4. lockedBy' = [lockedBy EXCEPT ![s] = t, ![m] = t]
    BY <1>10
  <2>5. LocksHeld'
    <3> SUFFICES ASSUME NEW u \in Threads PROVE
            /\ Updating(u)' => lockedBy'[call'[u].model] = u
            /\ Solving(u)' =>
                 /\ lockedBy'[call'[u].model] = u /\ lockedBy'[call'[u].session] = u
                 /\ ~sessions'[call'[u].session].closed
                 /\ sessions'[call'[u].session].bound = call'[u].model
                 /\ {call'[u].session, call'[u].model} \cap poisoned' = {}
      BY Zenon DEF LocksHeld
    <3>1. CASE u = t
      <4>1. /\ call'[u].is = "solving" /\ call'[u].session = s /\ call'[u].model = m
        BY <1>1, <2>1, <3>1 DEF Typed
      <4>2. lockedBy'[s] = t /\ lockedBy'[m] = t
        BY <1>1, <1>2, <2>4 DEF Typed
      <4>3. ~sessions'[s].closed /\ sessions'[s].bound = m
        BY <1>1, <1>2, <1>4, <1>10, <2>2 DEF Typed
      <4> QED
        BY <1>3, <1>4, <1>10, <3>1, <4>1, <4>2, <4>3 DEF Updating
    <3>2. CASE u # t
      <4>1. call'[u] = call[u]
        BY <1>1, <2>1, <3>2 DEF Typed
      <4>2. (Updating(u)' <=> Updating(u)) /\ (Solving(u)' <=> Solving(u))
        BY <4>1 DEF Updating, Solving
      <4>3. \A x \in Models \cup Sessions : lockedBy[x] # None => lockedBy'[x] = lockedBy[x]
        BY <1>1, <1>4, <1>10, <2>4 DEF Typed
      <4>4. Updating(u) => lockedBy'[call[u].model] = u
        <5>1. SUFFICES ASSUME Updating(u) PROVE lockedBy'[call[u].model] = u
          OBVIOUS
        <5>2. call[u].model \in Models /\ lockedBy[call[u].model] = u
          BY <1>1, <5>1 DEF Typed, Updating, LocksHeld
        <5> QED
          BY <1>8, <4>3, <5>2
      <4>5. Solving(u) => /\ lockedBy'[call[u].model] = u /\ lockedBy'[call[u].session] = u
                          /\ sessions'[call[u].session] = sessions[call[u].session]
        <5>1. SUFFICES ASSUME Solving(u)
              PROVE  /\ lockedBy'[call[u].model] = u /\ lockedBy'[call[u].session] = u
                     /\ sessions'[call[u].session] = sessions[call[u].session]
          OBVIOUS
        <5>2. /\ call[u].model \in Models /\ lockedBy[call[u].model] = u
              /\ call[u].session \in Sessions /\ lockedBy[call[u].session] = u
          BY <1>1, <5>1 DEF Typed, Solving, LocksHeld
        <5> QED
          BY <1>7, <1>8, <4>3, <5>2
      <4> QED
        BY <1>1, <1>3, <4>1, <4>2, <4>4, <4>5 DEF LocksHeld
    <3> QED
      BY <3>1, <3>2
  <2> QED
    BY <1>5, <2>3, <2>5 DEF ThreadsInv
<1> QED
  BY <1>3, <1>9, <1>10

\* However a solve ends, it gives back both locks and leaves the model as it is.
LEMMA SolveEndKeeps ==
    ASSUME ThreadsInv, NEW t \in Threads, Solving(t), Released(t), Return(t),
           poisoned' \in {poisoned, poisoned \cup {call[t].session, call[t].model}},
           UNCHANGED <<program, state, revision, sessions>>, DOMAIN solution' = Threads
    PROVE  Typed' /\ LocksHeld' /\ AllNamed'
<1>1. Typed /\ LocksHeld /\ AllNamed
  BY DEF ThreadsInv
<1>2. /\ lockedBy' = [x \in DOMAIN lockedBy |-> IF lockedBy[x] = t THEN None ELSE lockedBy[x]]
      /\ call' = [call EXCEPT ![t] = None]
  BY DEF Released, Return
<1>3. lockedBy' \in [Models \cup Sessions -> Threads \cup {None}]
  BY <1>1, <1>2 DEF Typed
<1>4. Typed'
  BY <1>1, <1>2, <1>3 DEF Typed
<1>5. LocksHeld'
  <2>1. \A x \in poisoned' \ poisoned : lockedBy[x] = t
    BY <1>1 DEF LocksHeld
  <2> QED
    BY <1>1, <1>2, <2>1, ReturnKeepsLocks
<1> QED
  BY <1>1, <1>4, <1>5 DEF AllNamed

\* A solution is dated with the revision the model has, which no edit could change since
\* the solve began.
LEMMA SolvedKeeps ==
    ASSUME ThreadsInv, NEW t \in Threads, Solved(t), UNCHANGED program
    PROVE  ThreadsInv'
<1> DEFINE s == call[t].session
           m == call[t].model
           sound == ~sessions[s].closed /\ sessions[s].bound = m
                    /\ {s, m} \cap poisoned = {} /\ lockedBy[s] = t /\ lockedBy[m] = t
           new == [model |-> m, revision |-> revision[m], of |-> state[m], sound |-> sound]
<1>1. Typed /\ LocksHeld /\ SolutionsDated /\ AllNamed
  BY DEF ThreadsInv
<1>2. /\ Solving(t) /\ Released(t) /\ Return(t)
      /\ solution' = [solution EXCEPT ![t] = new]
      /\ UNCHANGED <<program, state, revision, sessions, poisoned>>
  BY DEF Solved
<1>3. sound /\ m \in Models
  BY <1>1, <1>2 DEF LocksHeld, Typed, Solving
<1>4. /\ new.model = m /\ new.revision = revision[m] /\ new.of = state[m] /\ new.sound = sound
      /\ revision[m] \in Nat
  BY <1>1, <1>3 DEF Typed
<1> HIDE DEF s, m, sound, new
<1>5. DOMAIN solution' = Threads
  BY <1>1, <1>2 DEF Typed
<1>6. Typed' /\ LocksHeld' /\ AllNamed'
  BY <1>2, <1>5, SolveEndKeeps
<1>7. SolutionsDated'
  <2> SUFFICES ASSUME NEW u \in Threads, solution'[u] # None
               PROVE  LET r == solution'[u] IN
                      /\ r.sound
                      /\ r.model \in Models /\ r.revision \in Nat
                      /\ r.revision <= revision'[r.model]
                      /\ r.revision = revision'[r.model] => r.of = state'[r.model]
    BY DEF SolutionsDated
  <2>1. CASE u = t
    <3>1. solution'[u] = new
      BY <1>1, <1>2, <2>1 DEF Typed
    <3>2. new.sound
      BY Zenon, <1>3, <1>4
    <3>3. revision' = revision /\ state' = state
      BY <1>2
    <3>4. /\ new.model \in Models /\ new.revision \in Nat
          /\ new.revision = revision'[new.model] /\ new.of = state'[new.model]
      BY <1>3, <1>4, <3>3
    <3>5. new.revision <= revision'[new.model]
      BY <3>4
    <3> QED
      BY Zenon, <3>1, <3>2, <3>4, <3>5
  <2>2. CASE u # t
    <3>1. solution'[u] = solution[u]
      BY <1>1, <1>2, <2>2 DEF Typed
    <3> QED
      BY <1>1, <1>2, <3>1 DEF SolutionsDated
  <2> QED
    BY <2>1, <2>2
<1> QED
  BY <1>6, <1>7 DEF ThreadsInv

\* A solve that fails, or breaks both locks, leaves no solution.
LEMMA SolveFailsKeeps ==
    ASSUME ThreadsInv, NEW t \in Threads, SolveFails(t) \/ Panics(t), UNCHANGED program
    PROVE  ThreadsInv'
<1>1. /\ Solving(t) /\ Released(t) /\ Return(t)
      /\ poisoned' \in {poisoned, poisoned \cup {call[t].session, call[t].model}}
      /\ UNCHANGED <<program, state, revision, sessions, solution>>
  BY DEF SolveFails, Panics
<1>2. DOMAIN solution' = Threads
  BY <1>1 DEF ThreadsInv, Typed
<1>3. Typed' /\ LocksHeld' /\ AllNamed'
  BY <1>1, <1>2, SolveEndKeeps
<1>4. SolutionsDated'
  BY <1>1 DEF ThreadsInv, SolutionsDated
<1> QED
  BY <1>3, <1>4 DEF ThreadsInv

\* Only a session nobody is in is closed.
LEMMA CloseKeeps ==
    ASSUME ThreadsInv, NEW t \in Threads, NEW s \in Sessions, Close(t, s), UNCHANGED program
    PROVE  ThreadsInv'
<1>1. Typed /\ LocksHeld /\ SolutionsDated /\ AllNamed
  BY DEF ThreadsInv
<1>2. /\ lockedBy[s] = None /\ sessions' = [sessions EXCEPT ![s].closed = TRUE]
      /\ UNCHANGED <<program, state, pending, revision, lockedBy, poisoned, call, solution>>
  BY DEF Close, Free
<1>3. Typed'
  BY <1>1, <1>2 DEF Typed
<1>4. LocksHeld'
  <2> SUFFICES ASSUME NEW u \in Threads PROVE
          /\ Updating(u) => lockedBy[call[u].model] = u
          /\ Solving(u) =>
               /\ lockedBy[call[u].model] = u /\ lockedBy[call[u].session] = u
               /\ ~sessions'[call[u].session].closed
               /\ sessions'[call[u].session].bound = call[u].model
               /\ {call[u].session, call[u].model} \cap poisoned = {}
    BY <1>2 DEF LocksHeld, Updating, Solving
  <2>1. Solving(u) => call[u].session # s
    BY <1>1, <1>2, NoneAssumption DEF LocksHeld
  <2>2. Solving(u) => sessions'[call[u].session] = sessions[call[u].session]
    BY <1>1, <1>2, <2>1 DEF Typed, Solving
  <2> QED
    BY <1>1, <2>2 DEF LocksHeld
<1>5. SolutionsDated' /\ AllNamed'
  BY <1>1, <1>2 DEF SolutionsDated, AllNamed
<1> QED
  BY <1>3, <1>4, <1>5 DEF ThreadsInv

\* A value that is put into a model marks it like an edit that gives no name (PyBindings
\* StoreIn: the row or objective is not part of what this module looks at).
LEMMA MarkKeeps ==
    ASSUME ThreadsInv, NEW m \in Models, Marked(m),
           UNCHANGED <<program, state, sessions, lockedBy, poisoned, call, solution>>
    PROVE  ThreadsInv'
<1>1. NamesInv(state[m])
  BY DEF ThreadsInv, AllNamed
<1>2. Typed /\ LocksHeld /\ SolutionsDated /\ AllNamed
  BY DEF ThreadsInv
<1>3. revision' = [revision EXCEPT ![m] = revision[m] + 1] /\ revision[m] \in Nat
  BY <1>2 DEF Marked, Typed
<1>4. Typed'
  BY <1>2, <1>3 DEF Typed
<1>5. LocksHeld' /\ AllNamed'
  BY <1>2 DEF LocksHeld, Updating, Solving, AllNamed
<1>6. SolutionsDated'
  BY <1>2, <1>3 DEF SolutionsDated, Typed
<1> QED
  BY <1>4, <1>5, <1>6 DEF ThreadsInv

-----------------------------------------------------------------------------
(* The theorems                                                            *)

\* No names, no solutions and no locks to begin with.
LEMMA InitKeeps == Init => ThreadsInv
<1> SUFFICES ASSUME Init PROVE ThreadsInv
  OBVIOUS
<1> USE DEF Init
<1>1. Typed
  BY DEF Typed
<1>2. LocksHeld /\ SolutionsDated
  BY DEF LocksHeld, SolutionsDated, Updating, Solving
<1>3. AllNamed
  BY NoNamesKept DEF AllNamed
<1> QED
  BY <1>1, <1>2, <1>3 DEF ThreadsInv

\* Every step of every thread.
LEMMA StepKeeps == ThreadsInv /\ [Next]_vars => ThreadsInv'
<1> SUFFICES ASSUME ThreadsInv, [Next]_vars PROVE ThreadsInv'
  OBVIOUS
<1>1. CASE UNCHANGED vars
  BY <1>1 DEF vars, ThreadsInv, Typed, LocksHeld, SolutionsDated, AllNamed, Updating, Solving
<1>2. CASE Next
  <2>1. program.threads \subseteq Threads /\ program.sessions \subseteq Sessions /\ program.models \subseteq Models
    BY ProgramTyped DEF ThreadsInv
  <2>2. UNCHANGED program
    BY <1>2 DEF Next
  <2>3. PICK t \in program.threads :
          \/ \E m \in program.models : Edit(t, m) \/ BeginUpdate(t, m)
          \/ EndUpdate(t)
          \/ \E s \in program.sessions, m \in program.models :
                \E start \in {None} \cup {solution[u] : u \in Threads} : Check(t, s, m, start)
          \/ EnterSolve(t) \/ Solved(t) \/ SolveFails(t) \/ Panics(t)
          \/ \E s \in program.sessions : Close(t, s)
    BY <1>2 DEF Next
  <2>4. t \in Threads
    BY <2>1
  <2>5. CASE \E m \in program.models : Edit(t, m) \/ BeginUpdate(t, m)
    BY <2>1, <2>2, <2>4, <2>5, EditKeeps, BeginUpdateKeeps
  <2>6. CASE EndUpdate(t)
    BY <2>2, <2>4, <2>6, EndUpdateKeeps
  <2>7. CASE \E s \in program.sessions, m \in program.models :
               \E start \in {None} \cup {solution[u] : u \in Threads} : Check(t, s, m, start)
    BY <2>1, <2>2, <2>4, <2>7, CheckKeeps
  <2>8. CASE EnterSolve(t) \/ Solved(t) \/ SolveFails(t) \/ Panics(t)
    BY <2>2, <2>4, <2>8, EnterSolveKeeps, SolvedKeeps, SolveFailsKeeps
  <2>9. CASE \E s \in program.sessions : Close(t, s)
    BY <2>1, <2>2, <2>4, <2>9, CloseKeeps
  <2> QED
    BY <2>3, <2>5, <2>6, <2>7, <2>8, <2>9
<1> QED
  BY <1>1, <1>2

\* The invariant holds in every reachable state.
LEMMA Inductive == Spec => []ThreadsInv
BY InitKeeps, StepKeeps, PTL DEF Spec

\* A solution that calls itself current was computed from the model as it now is, in a
\* session fit to solve it, whatever other threads edit, close or break (solver.rs solve,
\* solve_detached, close; solution.rs is_current): the locks keep the model as it was
\* from the start of the solve to its date, and every later edit has a later revision.
THEOREM CurrentIsSolved == Spec => []CurrentMeansSolved
<1>1. ThreadsInv => CurrentMeansSolved
  <2> SUFFICES ASSUME ThreadsInv, NEW t \in Threads, solution[t] # None
               PROVE  /\ solution[t].sound
                      /\ \A m \in Models : IsCurrent(solution[t], m) => solution[t].of = state[m]
    BY DEF CurrentMeansSolved
  <2> QED
    BY DEF ThreadsInv, SolutionsDated, IsCurrent
<1> QED
  BY <1>1, Inductive, PTL

\* The names reserved without being stored answer like a list of all names: no name is
\* given twice, a name leads to what it was given to, and a new array is refused just when
\* one of its names is taken (namespace.rs; model.rs var, param, vars, params).
THEOREM NamesAreExact == Spec => []NamesExact
<1>1. ThreadsInv => NamesExact
  <2> SUFFICES ASSUME ThreadsInv, NEW m \in Models
               PROVE  LET n == state[m]
                          taken == {pair[1] : pair \in n.given} \cup n.arrayNames
                      IN
                      /\ GivenOnce(n.given)
                      /\ GivenOnce(n.conGiven)
                      /\ \A name \in DOMAIN n.paramNames : <<name, n.paramNames[name]>> \in n.given
                      /\ \A pair \in n.conGiven : n.conNames[pair[1]] = pair[2]
                      /\ \A name \in program.names, len \in program.lengths :
                            ArrayRefused(n, name, len) <=> ({name} \cup ElementsOf(name, len)) \cap taken # {}
    BY DEF NamesExact
  <2> DEFINE n == state[m]
  <2>1. NamesInv(n)
    BY DEF ThreadsInv, AllNamed
  <2>2. program.names \subseteq Names /\ program.lengths \subseteq Nat
    BY ProgramTyped DEF ThreadsInv
  <2> HIDE DEF n
  <2>3. GivenOnce(n.conGiven)
    <3> SUFFICES ASSUME NEW a \in n.conGiven, NEW b \in n.conGiven, a[1] = b[1] PROVE a = b
      BY DEF GivenOnce
    <3>1. a[2] = b[2]
      BY <2>1 DEF NamesInv, Kept
    <3>2. a = <<a[1], a[2]>> /\ b = <<b[1], b[2]>>
      BY <2>1 DEF NamesInv, NamesTyped
    <3> QED
      BY <3>1, <3>2
  <2>4. \A name \in program.names, len \in program.lengths :
          ArrayRefused(n, name, len) <=> ({name} \cup ElementsOf(name, len)) \cap Taken(n) # {}
    BY <2>1, <2>2, RefusedWhenTaken
  <2> QED
    BY <2>1, <2>3, <2>4 DEF NamesInv, Kept, Taken, n
<1> QED
  BY <1>1, Inductive, PTL

=============================================================================
