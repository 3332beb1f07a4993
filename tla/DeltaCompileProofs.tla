-------------------------- MODULE DeltaCompileProofs --------------------------
(***************************************************************************)
(* What DeltaCompile's runs check on small instances, for every set of     *)
(* entities, every program and every length of the log: whichever way the  *)
(* compiler takes, the native model and what the compiler remembers of it  *)
(* are those the model describes.                                          *)
(*                                                                         *)
(* Between two synchronizations the native model is behind by the logged   *)
(* operations, and while one is compiled by those not yet lowered.  The    *)
(* inductive invariant says so datum by datum: the last pending operation  *)
(* that writes a datum writes what the model says, and a datum nothing     *)
(* pending writes has that value already (Lands).  A chain that holds an   *)
(* operation compile_delta does not lower says nothing of the data: it     *)
(* ends in a rebuild.                                                      *)
(***************************************************************************)
EXTENDS DeltaCompile, FiniteSetTheorems, SequenceTheorems, TLAPS

-----------------------------------------------------------------------------
(* The operations that may be logged *)

Ops ==
    [kind : {"AddVariable"}, var : Var, bounds : SUBSET Value, type : Types]
    \cup [kind : {"SetVariableBounds"}, var : Var, bounds : SUBSET Value]
    \cup [kind : {"SetVariableFixing"}, var : Var, effective : SUBSET Value]
    \cup [kind : {"RemoveVariable", "SetVariableActive", "SetVariableType",
                  "SetSemiContinuousBound"}, var : Var]
    \cup [kind : {"AddLinearRows"}, con : Con, bounds : SUBSET Value, row : Cells]
    \cup [kind : {"SetConstraintBounds"}, con : Con, bounds : SUBSET Value]
    \cup [kind : {"RemoveConstraint", "SetConstraintActive"}, con : Con]
    \cup [kind : {"AddObjective", "RemoveObjective"}, obj : Obj]
    \cup [kind : {"SetActiveObjective"}, obj : Obj \cup {None}]
    \cup [kind : {"SetObjectiveConstant"}, obj : Obj, value : Int]
    \cup [kind : {"SetCell"}, target : Target, var : Var, value : Int]
    \cup [kind : {"RemoveCell"}, target : Target, var : Var]
    \cup [kind : {"AddConstruct", "SetConstructActive", "RemoveConstruct"},
          construct : Construct]

\* What is logged and not lowered, the compiler's knowledge and the native
\* model it has got to.
Pending == IF phase = "compiling" THEN todo ELSE changes
Compiler == IF phase = "compiling" THEN work.current ELSE current
Backend == IF phase = "compiling" THEN work.native ELSE native

-----------------------------------------------------------------------------
(* What each operation writes: per datum, the set of the value it gets,    *)
(* empty for an operation that leaves it alone.                            *)

TypeWrites(v) == [op \in Ops |->
    IF op.kind = "AddVariable" /\ op.var = v THEN {op.type}
    ELSE IF op.kind = "RemoveVariable" /\ op.var = v THEN {None}
    ELSE {}]

BoundsWrites(v) == [op \in Ops |->
    IF op.kind \in {"AddVariable", "SetVariableBounds"} /\ op.var = v THEN {op.bounds}
    ELSE IF op.kind = "SetVariableFixing" /\ op.var = v THEN {op.effective}
    ELSE IF op.kind = "RemoveVariable" /\ op.var = v THEN {None}
    ELSE {}]

Flag(b) == IF b THEN 1 ELSE 0

ActivityWrites(v) == [op \in Ops |->
    IF op.kind = "AddVariable" /\ op.var = v THEN {1} ELSE {}]

RowWrites(c) == [op \in Ops |->
    IF op.kind = "AddLinearRows" /\ op.con = c THEN {1}
    ELSE IF op.kind = "RemoveConstraint" /\ op.con = c THEN {0}
    ELSE {}]

RowBoundsWrites(c) == [op \in Ops |->
    IF op.kind \in {"AddLinearRows", "SetConstraintBounds"} /\ op.con = c THEN {op.bounds}
    ELSE IF op.kind = "RemoveConstraint" /\ op.con = c THEN {None}
    ELSE {}]

CellWrites(t, v) == [op \in Ops |->
    IF op.kind = "SetCell" /\ op.target = t /\ op.var = v THEN {op.value}
    ELSE IF op.kind = "RemoveCell" /\ op.target = t /\ op.var = v THEN {0}
    ELSE {}]

CoeffWrites(c, v) == [op \in Ops |->
    IF op.kind = "AddLinearRows" /\ op.con = c THEN {Dense(op.row)[v]}
    ELSE IF \/ op.kind = "RemoveConstraint" /\ op.con = c
            \/ op.kind = "RemoveVariable" /\ op.var = v THEN {0}
    ELSE CellWrites(c, v)[op]]

TermWrites(o, v) == [op \in Ops |->
    IF op.kind = "RemoveObjective" /\ op.obj = o THEN {0}
    ELSE CellWrites(o, v)[op]]

CostWrites(o, v) == [op \in Ops |->
    IF \/ op.kind = "AddObjective" /\ op.obj = o
       \/ op.kind = "RemoveVariable" /\ op.var = v THEN {0}
    ELSE TermWrites(o, v)[op]]

ObjectiveWrites(o) == [op \in Ops |->
    IF op.kind = "AddObjective" /\ op.obj = o THEN {1}
    ELSE IF op.kind = "RemoveObjective" /\ op.obj = o THEN {0}
    ELSE {}]

ConstantWrites(o) == [op \in Ops |->
    IF op.kind = "SetObjectiveConstant" /\ op.obj = o THEN {op.value}
    ELSE IF op.kind = "RemoveObjective" /\ op.obj = o THEN {0}
    ELSE {}]

OffsetWrites(o) == [op \in Ops |->
    IF op.kind = "AddObjective" /\ op.obj = o THEN {0} ELSE ConstantWrites(o)[op]]

ChargeWrites(o) == [op \in Ops |->
    IF op.kind = "RemoveObjective" /\ op.obj = o THEN {{}} ELSE {}]

PenaltyWrites(o) == [op \in Ops |->
    IF op.kind = "AddObjective" /\ op.obj = o THEN {{}} ELSE ChargeWrites(o)[op]]

PolicyWrites(o) == [op \in Ops |->
    IF op.kind = "SetActiveObjective" THEN {Flag(op.obj = o)}
    ELSE IF op.kind = "RemoveObjective" /\ op.obj = o THEN {0}
    ELSE {}]

-----------------------------------------------------------------------------
(* The invariant *)

\* The pending operations p bring a datum from `base` to `final`.
Lands(writes, p, base, final) ==
    /\ (\A i \in 1..Len(p) : writes[p[i]] = {}) => base = final
    /\ \A i \in 1..Len(p) :
          writes[p[i]] # {} /\ (\A j \in (i + 1)..Len(p) : writes[p[j]] = {})
              => writes[p[i]] = {final}

ColumnType(n, v) == IF n.cols[v] = None THEN None ELSE n.cols[v].type
ColumnBounds(n, v) == IF n.cols[v] = None THEN None ELSE n.cols[v].bounds
TypeOf(d) == IF d = None THEN None ELSE d.type
BoundsOf(d) == IF d = None THEN None ELSE d.bounds
Unfolded(d) == d = None \/ (d.active /\ d.fixing = None)
Writing(p, v) ==
    \E i \in 1..Len(p) : p[i].kind \in {"AddVariable", "RemoveVariable"} /\ p[i].var = v

(* The column of a variable with data d.  That of a fixed variable has the  *)
(* type only; that of an inactive one is folded and stays it, as bounds of  *)
(* inactive variables are not lowered.                                      *)
ColumnLands(p, k, n, v, d) ==
    /\ Lands(TypeWrites(v), p, ColumnType(n, v), TypeOf(d))
    /\ Unfolded(d) => Lands(BoundsWrites(v), p, ColumnBounds(n, v), BoundsOf(d))
    /\ d # None /\ d.active => Lands(ActivityWrites(v), p, Flag(k.activity[v]), 1)
    /\ d # None /\ ~d.active =>
          /\ ~Writing(p, v)
          /\ n.cols[v] # None
          /\ n.cols[v].bounds = {0}
          /\ ~k.activity[v]

Enforced(d, soft) == IF d = None THEN None ELSE IF soft THEN Value ELSE d.bounds

(* The row of a constraint: that it is there, and its bounds while active. *)
RowLands(p, n, c, d, soft) ==
    /\ Lands(RowWrites(c), p, Flag(n.rows[c] # None), Flag(d # None))
    /\ d = None \/ d.active => Lands(RowBoundsWrites(c), p, n.rows[c], Enforced(d, soft))

Term(x) == IF x = None THEN 0 ELSE x

(* A coefficient of a row; a cached cost and the compiler's term for it. *)
CoeffLands(p, n, c, v, x) == Lands(CoeffWrites(c, v), p, n.coeff[c][v], Term(x))
CostLands(p, k, n, o, v, x) ==
    /\ Lands(CostWrites(o, v), p, n.costs[o][v], Term(x))
    /\ Lands(TermWrites(o, v), p, k.terms[o][v], Term(x))

(* An objective: that it is there, its constant, and whether it is active. *)
ObjectiveLands(p, k, n, o, d) ==
    /\ Lands(ObjectiveWrites(o), p, Flag(o \in n.objectives), Flag(d # None))
    /\ Lands(OffsetWrites(o), p, n.offsets[o], Term(d))
    /\ Lands(ConstantWrites(o), p, k.constants[o], Term(d))
PolicyLands(p, k, o, act) == Lands(PolicyWrites(o), p, Flag(k.policy = o), Flag(act = o))

(* What an objective pays for violations of the constructs. *)
ChargesLand(p, k, n, o, ks) ==
    /\ Lands(PenaltyWrites(o), p, n.penalties[o], ks)
    /\ Lands(ChargeWrites(o), p, k.charges[o], ks)

(* An operation compile_delta leaves to a rebuild.  Bounds of an inactive   *)
(* variable, which it leaves too, are not among them: ColumnsLand says what *)
(* such a variable's column is.                                             *)
Blocking(op) ==
    \/ op.kind \in {"SetVariableActive", "SetVariableType", "SetSemiContinuousBound",
                    "SetConstraintActive", "AddConstruct", "SetConstructActive",
                    "RemoveConstruct"}
    \/ /\ op.kind \in {"RemoveVariable", "SetVariableBounds", "SetVariableFixing"}
       /\ op.var \in current.dependencies
    \/ /\ op.kind \in {"RemoveConstraint", "SetConstraintBounds"}
       /\ op.con \in current.dependencies
    \/ /\ op.kind \in {"SetCell", "RemoveCell"}
       /\ op.target \in Con
       /\ op.target \in current.dependencies
Blocked(p) == \E i \in 1..Len(p) : Blocking(p[i])

Softened(c) == Anchored(c) \cap ActiveConstructs # {}
Dependencies == UNION {DependenciesOf(k) : k \in ActiveConstructs}

\* What replaying the pending operations p on compiler k and native model n
\* leads to.
ColumnsLand(p, k, n) == \A v \in Var : ColumnLands(p, k, n, v, variables[v])
RowsLand(p, n) == \A c \in Con : RowLands(p, n, c, constraints[c], Softened(c))
CellsLand(p, k, n) ==
    /\ \A c \in Con, v \in Var : CoeffLands(p, n, c, v, cells[c][v])
    /\ \A o \in Obj, v \in Var : CostLands(p, k, n, o, v, cells[o][v])
ObjectivesLand(p, k, n) ==
    /\ \A o \in Obj : ObjectiveLands(p, k, n, o, objectives[o])
    /\ \A o \in Obj : PolicyLands(p, k, o, active)
PenaltiesLand(p, k, n) ==
    \A o \in Obj : o \in LiveObjs \/ o \notin used => ChargesLand(p, k, n, o, Charging(o))
ConstructsFit(n) ==
    /\ current.dependencies = Dependencies
    /\ \A k \in Construct : n.generated[k] = Generated(k)

Fits(p, k, n) ==
    /\ ColumnsLand(p, k, n)
    /\ RowsLand(p, n)
    /\ CellsLand(p, k, n)
    /\ ObjectivesLand(p, k, n)
    /\ PenaltiesLand(p, k, n)
    /\ ConstructsFit(n)

Fit ==
    phase # "rebuilding" /\ ~mustRebuild /\ ~Blocked(Pending)
        => Fits(Pending, Compiler, Backend)

ModelTyped ==
    /\ program \in Programs
    /\ variables \in [Var -> VariableData \cup {None}]
    /\ constraints \in [Con -> ConstraintData \cup {None}]
    /\ objectives \in [Obj -> Int \cup {None}]
    /\ active \in LiveObjs \cup {None}
    /\ cells \in [Target -> Cells]
    /\ \A t \in Target : t \notin LiveCons \cup LiveObjs => cells[t] = NoCells
    /\ constructs \in [Construct -> {"active", "inactive", None}]

\* A name that is live or referred to has been handed out.
NamesUsed ==
    /\ LiveVars \cup LiveCons \cup LiveObjs \subseteq used
    /\ \A k \in Construct : constructs[k] # None =>
          /\ Refers[k] \subseteq used
          /\ Softens[k] \in used \cup {None}
          /\ Softens[k] # None => Penalises[k] \in used \cup {None}

Compilers ==
    [variables : SUBSET Var, activity : [Var -> BOOLEAN], rows : SUBSET Con,
     objectives : SUBSET Obj, terms : [Obj -> [Var -> Int]],
     charges : [Obj -> SUBSET Construct], constants : [Obj -> Int],
     policy : Obj \cup {None}, dependencies : SUBSET (Var \cup Con)]

\* What a construct generated is not looked into.
NativeTyped(n) ==
    /\ DOMAIN n = {"cols", "rows", "coeff", "objectives", "costs", "penalties", "offsets",
                   "generated", "active", "colCost", "charged", "offset"}
    /\ n.cols \in [Var -> Columns \cup {None}]
    /\ n.rows \in [Con -> (SUBSET Value) \cup {None}]
    /\ n.coeff \in [Con -> [Var -> Int]]
    /\ n.objectives \subseteq Obj
    /\ n.costs \in [Obj -> [Var -> Int]]
    /\ n.penalties \in [Obj -> SUBSET Construct]
    /\ n.offsets \in [Obj -> Int]
    /\ n.active \in Obj \cup {None}
    /\ n.colCost \in [Var -> Int]
    /\ n.charged \subseteq Construct
    /\ n.offset \in Int

SyncTyped ==
    /\ phase \in {"editing", "compiling", "rebuilding"}
    /\ mustRebuild \in BOOLEAN
    /\ changes \in Seq(Ops)
    /\ todo \in Seq(Ops)
    /\ phase # "editing" => changes = <<>>
    /\ mustRebuild => changes = <<>> /\ phase # "compiling"

(* What the compiler and the native model say of each other: which entities *)
(* there are, and that the objective HiGHS minimizes is the cached one.     *)
ColumnsAgree(k, n) == k.variables = {v \in Var : n.cols[v] # None}
RowsAgree(k, n) == k.rows = {c \in Con : n.rows[c] # None}
ObjectivesAgree(k, n) ==
    /\ k.objectives = n.objectives
    /\ k.policy = n.active
    /\ n.active = None \/ n.active \in n.objectives
    /\ n.objectives \subseteq used
Projected(n) ==
    IF n.active = None
    THEN n.colCost = NoCosts /\ n.charged = {} /\ n.offset = 0
    ELSE /\ n.colCost = n.costs[n.active]
         /\ n.charged = n.penalties[n.active]
         /\ n.offset = n.offsets[n.active]
Consistent(k, n) ==
    ColumnsAgree(k, n) /\ RowsAgree(k, n) /\ ObjectivesAgree(k, n) /\ Projected(n)

Adding(op, o) == op.kind = "AddObjective" /\ op.obj = o

\* An objective is added once, and not while it is there.
AddedOnce(p, objs) ==
    \A i \in 1..Len(p), o \in Obj : Adding(p[i], o) =>
        /\ o \in used
        /\ o \notin objs
        /\ \A j \in 1..Len(p) : Adding(p[j], o) => j = i

\* A copy the compiler works on has the dependencies of its base.
BasesTyped ==
    /\ current \in Compilers /\ NativeTyped(native) /\ Consistent(current, native)
    /\ phase = "compiling" =>
          /\ work.current \in Compilers /\ NativeTyped(work.native)
          /\ Consistent(work.current, work.native)
          /\ work.current.dependencies = current.dependencies

(* The inductive invariant. *)
IInv ==
    /\ ModelTyped
    /\ NamesUsed
    /\ SyncTyped
    /\ BasesTyped
    /\ AddedOnce(Pending, Backend.objectives)
    /\ Fit

-----------------------------------------------------------------------------
(* Sequences of operations *)

LEMMA AppendedOps ==
    ASSUME NEW p \in Seq(Ops), NEW q \in Seq(Ops)
    PROVE  /\ p \o q \in Seq(Ops)
           /\ Len(p) \in Nat /\ Len(q) \in Nat /\ Len(p \o q) = Len(p) + Len(q)
           /\ \A i \in 1..Len(p) : (p \o q)[i] = p[i] /\ p[i] \in Ops
           /\ \A i \in 1..Len(q) :
                 /\ (p \o q)[Len(p) + i] = q[i]
                 /\ q[i] \in Ops
                 /\ q[i] \in ToSet(q)
           /\ \A i \in 1..Len(p \o q) : i > Len(p) =>
                 /\ i - Len(p) \in 1..Len(q)
                 /\ (p \o q)[i] = q[i - Len(p)]
                 /\ (p \o q)[i] \in ToSet(q)
           /\ \A op \in ToSet(q) : op \in Ops /\ \E i \in 1..Len(q) : op = q[i]
BY DEF ToSet

LEMMA DroppedOp ==
    ASSUME NEW p \in Seq(Ops), p # <<>>
    PROVE  /\ Tail(p) \in Seq(Ops)
           /\ Head(p) \in Ops
           /\ Head(p) = p[1]
           /\ Len(p) \in Nat \ {0} /\ Len(Tail(p)) = Len(p) - 1
           /\ \A i \in 1..Len(Tail(p)) : i + 1 \in 1..Len(p) /\ Tail(p)[i] = p[i + 1]
           /\ \A i \in 1..Len(p) : p[i] \in Ops
OBVIOUS

LEMMA OneOp ==
    ASSUME NEW op \in Ops
    PROVE  <<op>> \in Seq(Ops) /\ ToSet(<<op>>) = {op}
BY DEF ToSet

\* SetToSeq lists a finite set.
LEMMA Listed ==
    ASSUME NEW S, IsFiniteSet(S)
    PROVE  SetToSeq(S) \in Seq(S) /\ ToSet(SetToSeq(S)) = S
<1> DEFINE n == Cardinality(S)
<1> DEFINE Lists(f) == f \in [1..n -> S] /\ IsInjective(f)
<1>1. n \in Nat
  BY FS_CardinalityType
<1>2. \E f : Lists(f)
  BY FS_CardinalityType, Zenon DEF IsInjective, Injection, Bijection, ExistsBijection
<1>3. Lists(SetToSeq(S))
  BY <1>2 DEF SetToSeq
<1>4. SetToSeq(S) \in Seq(S) /\ Len(SetToSeq(S)) = n
  BY <1>1, <1>3
<1>5. SetToSeq(S) \in Injection(1..n, S)
  BY <1>3 DEF Injection
<1>6. Cardinality(1..n) = n
  BY <1>1, FS_Interval
<1>7. SetToSeq(S) \in Surjection(1..n, S)
  BY <1>5, <1>6, FS_Injection, Zenon
<1>8. ToSet(SetToSeq(S)) = S
  BY <1>4, <1>7 DEF ToSet, Surjection
<1> QED
  BY <1>4, <1>8

-----------------------------------------------------------------------------
(* How a datum lands when operations are logged and when one is lowered *)

LEMMA LandsLogged ==
    ASSUME NEW writes, NEW p \in Seq(Ops), NEW q \in Seq(Ops), NEW base, NEW final,
           \A op \in ToSet(q) : writes[op] \subseteq {final},
           Lands(writes, p, base, final) \/ \E op \in ToSet(q) : writes[op] # {}
    PROVE  Lands(writes, p \o q, base, final)
<1> DEFINE r == p \o q
<1>1. ASSUME \A i \in 1..Len(r) : writes[r[i]] = {}
      PROVE  base = final
  <2>1. \A i \in 1..Len(p) : i \in 1..Len(r) /\ r[i] = p[i]
    BY AppendedOps
  <2>2. \A i \in 1..Len(p) : writes[p[i]] = {}
    BY <1>1, <2>1
  <2>3. ASSUME NEW op \in ToSet(q)
        PROVE  writes[op] = {}
    <3>1. PICK j \in 1..Len(q) : op = q[j]
      BY AppendedOps
    <3>2. Len(p) + j \in 1..Len(r) /\ r[Len(p) + j] = op
      BY <3>1, AppendedOps
    <3> QED
      BY <3>2, <1>1
  <2> QED
    BY <2>2, <2>3 DEF Lands
<1>2. ASSUME NEW i \in 1..Len(r), writes[r[i]] # {},
             \A j \in (i + 1)..Len(r) : writes[r[j]] = {}
      PROVE  writes[r[i]] = {final}
  <2>1. CASE i > Len(p)
    <3>1. r[i] \in ToSet(q)
      BY <2>1, AppendedOps
    <3> QED
      BY <3>1, <1>2
  <2>2. CASE i <= Len(p)
    <3>1. i \in 1..Len(p) /\ r[i] = p[i]
      BY <2>2, AppendedOps
    <3>2. \A op \in ToSet(q) : writes[op] = {}
      <4> SUFFICES ASSUME NEW op \in ToSet(q) PROVE writes[op] = {}
        OBVIOUS
      <4>1. PICK j \in 1..Len(q) : op = q[j]
        BY AppendedOps
      <4>2. Len(p) + j \in (i + 1)..Len(r) /\ r[Len(p) + j] = op
        BY <2>2, <4>1, AppendedOps
      <4> QED
        BY <4>2, <1>2
    <3>3. \A j \in (i + 1)..Len(p) : writes[p[j]] = {}
      BY <1>2, AppendedOps
    <3> QED
      BY <3>1, <3>2, <3>3, <1>2 DEF Lands
  <2>3. Len(p) \in Int /\ i \in Int
    OBVIOUS
  <2> QED
    BY <2>1, <2>2, <2>3
<1> QED
  BY <1>1, <1>2 DEF Lands

LEMMA LandsLowered ==
    ASSUME NEW writes, NEW p \in Seq(Ops), p # <<>>, NEW base, NEW lowered, NEW final,
           Lands(writes, p, base, final),
           \/ writes[Head(p)] = {} /\ lowered = base
           \/ writes[Head(p)] = {lowered}
    PROVE  Lands(writes, Tail(p), lowered, final)
<1> DEFINE r == Tail(p)
<1>1. ASSUME \A i \in 1..Len(r) : writes[r[i]] = {}
      PROVE  lowered = final
  <2>1. \A j \in 2..Len(p) : writes[p[j]] = {}
    <3> SUFFICES ASSUME NEW j \in 2..Len(p) PROVE writes[p[j]] = {}
      OBVIOUS
    <3>1. j - 1 \in 1..Len(r) /\ r[j - 1] = p[j]
      BY DroppedOp
    <3> QED
      BY <3>1, <1>1
  <2>2. CASE writes[p[1]] = {}
    <3>1. \A j \in 1..Len(p) : writes[p[j]] = {}
      BY <2>1, <2>2, DroppedOp
    <3> QED
      BY <3>1, <2>2, DroppedOp DEF Lands
  <2>3. CASE writes[p[1]] # {}
    <3>1. 1 \in 1..Len(p) /\ writes[p[1]] = {lowered}
      BY <2>3, DroppedOp
    <3>2. \A j \in (1 + 1)..Len(p) : writes[p[j]] = {}
      BY <2>1
    <3>3. writes[p[1]] = {final}
      BY <2>3, <3>1, <3>2 DEF Lands
    <3> QED
      BY <3>1, <3>3
  <2> QED
    BY <2>2, <2>3
<1>2. ASSUME NEW i \in 1..Len(r), writes[r[i]] # {},
             \A j \in (i + 1)..Len(r) : writes[r[j]] = {}
      PROVE  writes[r[i]] = {final}
  <2>1. i + 1 \in 1..Len(p) /\ r[i] = p[i + 1]
    BY DroppedOp
  <2>2. \A j \in (i + 2)..Len(p) : writes[p[j]] = {}
    <3> SUFFICES ASSUME NEW j \in (i + 2)..Len(p) PROVE writes[p[j]] = {}
      OBVIOUS
    <3>1. j - 1 \in (i + 1)..Len(r) /\ j - 1 \in 1..Len(r) /\ r[j - 1] = p[j]
      BY DroppedOp
    <3> QED
      BY <3>1, <1>2
  <2> QED
    BY <1>2, <2>1, <2>2 DEF Lands
<1> QED
  BY <1>1, <1>2 DEF Lands

LEMMA LandsNothing ==
    ASSUME NEW writes, NEW base, NEW final
    PROVE  Lands(writes, <<>>, base, final) <=> base = final
BY DEF Lands

-----------------------------------------------------------------------------
(* What leaves a group of data alone *)

ColumnKinds == {"AddVariable", "RemoveVariable", "SetVariableBounds", "SetVariableFixing"}
RowKinds == {"AddLinearRows", "SetConstraintBounds", "RemoveConstraint"}
ChargeKinds == {"AddObjective", "RemoveObjective"}

LEMMA LandsLoggedAlone ==
    ASSUME NEW writes, NEW p \in Seq(Ops), NEW q \in Seq(Ops), NEW base, NEW final,
           \A op \in ToSet(q) : writes[op] = {},
           Lands(writes, p, base, final)
    PROVE  Lands(writes, p \o q, base, final)
BY LandsLogged

LEMMA ColumnUnwritten ==
    ASSUME NEW op \in Ops, NEW v \in Var, op.kind \in ColumnKinds => op.var # v
    PROVE  TypeWrites(v)[op] = {} /\ BoundsWrites(v)[op] = {} /\ ActivityWrites(v)[op] = {}
BY DEF ColumnKinds, TypeWrites, BoundsWrites, ActivityWrites

LEMMA RowUnwritten ==
    ASSUME NEW op \in Ops, NEW c \in Con, op.kind \in RowKinds => op.con # c
    PROVE  RowWrites(c)[op] = {} /\ RowBoundsWrites(c)[op] = {}
BY DEF RowKinds, RowWrites, RowBoundsWrites

LEMMA CellUnwritten ==
    ASSUME NEW op \in Ops, NEW t, NEW v,
           op.kind \in {"SetCell", "RemoveCell"} => op.target # t \/ op.var # v
    PROVE  CellWrites(t, v)[op] = {}
BY DEF CellWrites

LEMMA CoeffUnwritten ==
    ASSUME NEW op \in Ops, NEW c \in Con, NEW v \in Var,
           op.kind \in {"SetCell", "RemoveCell"} => op.target # c \/ op.var # v,
           op.kind \in {"AddLinearRows", "RemoveConstraint"} => op.con # c,
           op.kind = "RemoveVariable" => op.var # v
    PROVE  CoeffWrites(c, v)[op] = {}
BY CellUnwritten DEF CoeffWrites

LEMMA CostUnwritten ==
    ASSUME NEW op \in Ops, NEW o \in Obj, NEW v \in Var,
           op.kind \in {"SetCell", "RemoveCell"} => op.target # o \/ op.var # v,
           op.kind \in {"AddObjective", "RemoveObjective"} => op.obj # o,
           op.kind = "RemoveVariable" => op.var # v
    PROVE  CostWrites(o, v)[op] = {} /\ TermWrites(o, v)[op] = {}
BY CellUnwritten DEF CostWrites, TermWrites

LEMMA ObjectiveUnwritten ==
    ASSUME NEW op \in Ops, NEW o \in Obj,
           op.kind \in {"AddObjective", "RemoveObjective", "SetObjectiveConstant"}
               => op.obj # o
    PROVE  /\ ObjectiveWrites(o)[op] = {} /\ OffsetWrites(o)[op] = {}
           /\ ConstantWrites(o)[op] = {}
BY DEF ObjectiveWrites, OffsetWrites, ConstantWrites

LEMMA PolicyUnwritten ==
    ASSUME NEW op \in Ops, NEW o \in Obj, op.kind # "SetActiveObjective",
           op.kind = "RemoveObjective" => op.obj # o
    PROVE  PolicyWrites(o)[op] = {}
BY DEF PolicyWrites

LEMMA ChargesUnwritten ==
    ASSUME NEW op \in Ops, NEW o \in Obj, op.kind \in ChargeKinds => op.obj # o
    PROVE  PenaltyWrites(o)[op] = {} /\ ChargeWrites(o)[op] = {}
BY DEF ChargeKinds, PenaltyWrites, ChargeWrites

LEMMA WritingLogged ==
    ASSUME NEW p \in Seq(Ops), NEW q \in Seq(Ops), NEW v, ~Writing(p, v),
           \A op \in ToSet(q) : ~(op.kind \in {"AddVariable", "RemoveVariable"} /\ op.var = v)
    PROVE  ~Writing(p \o q, v)
<1> SUFFICES ASSUME NEW i \in 1..Len(p \o q)
             PROVE  ~((p \o q)[i].kind \in {"AddVariable", "RemoveVariable"}
                      /\ (p \o q)[i].var = v)
  BY DEF Writing
<1>1. i \in Int /\ Len(p) \in Nat
  OBVIOUS
<1>2. CASE i > Len(p)
  BY <1>2, AppendedOps
<1>3. CASE i <= Len(p)
  <2>1. i \in 1..Len(p) /\ (p \o q)[i] = p[i]
    BY <1>3
  <2> QED
    BY <2>1 DEF Writing
<1> QED
  BY <1>1, <1>2, <1>3

LEMMA WritingLowered ==
    ASSUME NEW p \in Seq(Ops), p # <<>>, NEW v, ~Writing(p, v)
    PROVE  ~Writing(Tail(p), v)
BY DroppedOp DEF Writing

\* Operations that do not write a datum leave it landing where it did.
LEMMA ColumnLogged ==
    ASSUME NEW p \in Seq(Ops), NEW q \in Seq(Ops), NEW k, NEW n, NEW v \in Var, NEW d,
           ColumnLands(p, k, n, v, d),
           \A op \in ToSet(q) : op.kind \in ColumnKinds => op.var # v
    PROVE  ColumnLands(p \o q, k, n, v, d)
<1>1. \A op \in ToSet(q) : op \in Ops
  BY AppendedOps
<1>2. \A op \in ToSet(q) : /\ TypeWrites(v)[op] = {} /\ BoundsWrites(v)[op] = {}
                           /\ ActivityWrites(v)[op] = {}
  BY <1>1, ColumnUnwritten
<1>3. ~Writing(p, v) => ~Writing(p \o q, v)
  BY WritingLogged DEF ColumnKinds
<1>4. Lands(TypeWrites(v), p \o q, ColumnType(n, v), TypeOf(d))
  BY <1>2, LandsLoggedAlone DEF ColumnLands
<1>5. Unfolded(d) => Lands(BoundsWrites(v), p \o q, ColumnBounds(n, v), BoundsOf(d))
  BY <1>2, LandsLoggedAlone DEF ColumnLands
<1>6. d # None /\ d.active => Lands(ActivityWrites(v), p \o q, Flag(k.activity[v]), 1)
  BY <1>2, LandsLoggedAlone DEF ColumnLands
<1> QED
  BY <1>3, <1>4, <1>5, <1>6 DEF ColumnLands

LEMMA RowLogged ==
    ASSUME NEW p \in Seq(Ops), NEW q \in Seq(Ops), NEW n, NEW c \in Con, NEW d, NEW soft,
           RowLands(p, n, c, d, soft),
           \A op \in ToSet(q) : op.kind \in RowKinds => op.con # c
    PROVE  RowLands(p \o q, n, c, d, soft)
<1>1. \A op \in ToSet(q) : RowWrites(c)[op] = {} /\ RowBoundsWrites(c)[op] = {}
  BY AppendedOps, RowUnwritten
<1> QED
  BY <1>1, LandsLoggedAlone DEF RowLands

LEMMA CoeffLogged ==
    ASSUME NEW p \in Seq(Ops), NEW q \in Seq(Ops), NEW n, NEW c \in Con, NEW v \in Var,
           NEW x, CoeffLands(p, n, c, v, x),
           \A op \in ToSet(q) :
              /\ op.kind \in {"SetCell", "RemoveCell"} => op.target # c \/ op.var # v
              /\ op.kind \in {"AddLinearRows", "RemoveConstraint"} => op.con # c
              /\ op.kind = "RemoveVariable" => op.var # v
    PROVE  CoeffLands(p \o q, n, c, v, x)
<1>1. \A op \in ToSet(q) : CoeffWrites(c, v)[op] = {}
  BY AppendedOps, CoeffUnwritten
<1> QED
  BY <1>1, LandsLoggedAlone DEF CoeffLands

LEMMA CostLogged ==
    ASSUME NEW p \in Seq(Ops), NEW q \in Seq(Ops), NEW k, NEW n, NEW o \in Obj,
           NEW v \in Var, NEW x, CostLands(p, k, n, o, v, x),
           \A op \in ToSet(q) :
              /\ op.kind \in {"SetCell", "RemoveCell"} => op.target # o \/ op.var # v
              /\ op.kind \in {"AddObjective", "RemoveObjective"} => op.obj # o
              /\ op.kind = "RemoveVariable" => op.var # v
    PROVE  CostLands(p \o q, k, n, o, v, x)
<1>1. \A op \in ToSet(q) : CostWrites(o, v)[op] = {} /\ TermWrites(o, v)[op] = {}
  BY AppendedOps, CostUnwritten
<1> QED
  BY <1>1, LandsLoggedAlone DEF CostLands

LEMMA ObjectiveLogged ==
    ASSUME NEW p \in Seq(Ops), NEW q \in Seq(Ops), NEW k, NEW n, NEW o \in Obj, NEW d,
           ObjectiveLands(p, k, n, o, d),
           \A op \in ToSet(q) :
              op.kind \in {"AddObjective", "RemoveObjective", "SetObjectiveConstant"}
                  => op.obj # o
    PROVE  ObjectiveLands(p \o q, k, n, o, d)
<1>1. \A op \in ToSet(q) : /\ ObjectiveWrites(o)[op] = {} /\ OffsetWrites(o)[op] = {}
                           /\ ConstantWrites(o)[op] = {}
  BY AppendedOps, ObjectiveUnwritten
<1> QED
  BY <1>1, LandsLoggedAlone DEF ObjectiveLands

LEMMA PolicyLogged ==
    ASSUME NEW p \in Seq(Ops), NEW q \in Seq(Ops), NEW k, NEW o \in Obj, NEW act,
           PolicyLands(p, k, o, act),
           \A op \in ToSet(q) : /\ op.kind # "SetActiveObjective"
                                /\ op.kind = "RemoveObjective" => op.obj # o
    PROVE  PolicyLands(p \o q, k, o, act)
<1>1. \A op \in ToSet(q) : PolicyWrites(o)[op] = {}
  BY AppendedOps, PolicyUnwritten
<1> QED
  BY <1>1, LandsLoggedAlone DEF PolicyLands

LEMMA ChargesLogged ==
    ASSUME NEW p \in Seq(Ops), NEW q \in Seq(Ops), NEW k, NEW n, NEW o \in Obj, NEW ks,
           ChargesLand(p, k, n, o, ks),
           \A op \in ToSet(q) : op.kind \in ChargeKinds => op.obj # o
    PROVE  ChargesLand(p \o q, k, n, o, ks)
<1>1. \A op \in ToSet(q) : PenaltyWrites(o)[op] = {} /\ ChargeWrites(o)[op] = {}
  BY AppendedOps, ChargesUnwritten
<1> QED
  BY <1>1, LandsLoggedAlone DEF ChargesLand

\* An operation lowered that does not write a datum, and does not change it.
LEMMA ColumnLowered ==
    ASSUME NEW p \in Seq(Ops), p # <<>>, NEW k, NEW n, NEW v \in Var, NEW d,
           ColumnLands(p, k, n, v, d), NEW k2, NEW n2,
           Head(p).kind \in ColumnKinds => Head(p).var # v,
           n2.cols[v] = n.cols[v], k2.activity[v] = k.activity[v]
    PROVE  ColumnLands(Tail(p), k2, n2, v, d)
<1>1. /\ TypeWrites(v)[Head(p)] = {} /\ BoundsWrites(v)[Head(p)] = {}
      /\ ActivityWrites(v)[Head(p)] = {}
  BY DroppedOp, ColumnUnwritten
<1>2. ColumnType(n2, v) = ColumnType(n, v) /\ ColumnBounds(n2, v) = ColumnBounds(n, v)
  BY DEF ColumnType, ColumnBounds
<1>3. ~Writing(p, v) => ~Writing(Tail(p), v)
  BY WritingLowered
<1>4. Lands(TypeWrites(v), Tail(p), ColumnType(n2, v), TypeOf(d))
  BY <1>1, <1>2, LandsLowered DEF ColumnLands
<1>5. Unfolded(d) => Lands(BoundsWrites(v), Tail(p), ColumnBounds(n2, v), BoundsOf(d))
  BY <1>1, <1>2, LandsLowered DEF ColumnLands
<1>6. d # None /\ d.active => Lands(ActivityWrites(v), Tail(p), Flag(k2.activity[v]), 1)
  BY <1>1, LandsLowered DEF ColumnLands
<1> QED
  BY <1>3, <1>4, <1>5, <1>6 DEF ColumnLands

LEMMA RowLowered ==
    ASSUME NEW p \in Seq(Ops), p # <<>>, NEW n, NEW c \in Con, NEW d, NEW soft,
           RowLands(p, n, c, d, soft), NEW n2,
           Head(p).kind \in RowKinds => Head(p).con # c,
           n2.rows[c] = n.rows[c]
    PROVE  RowLands(Tail(p), n2, c, d, soft)
<1>1. RowWrites(c)[Head(p)] = {} /\ RowBoundsWrites(c)[Head(p)] = {}
  BY DroppedOp, RowUnwritten
<1> QED
  BY <1>1, LandsLowered DEF RowLands

LEMMA CoeffLowered ==
    ASSUME NEW p \in Seq(Ops), p # <<>>, NEW n, NEW c \in Con, NEW v \in Var, NEW x,
           CoeffLands(p, n, c, v, x), NEW n2,
           Head(p).kind \in {"SetCell", "RemoveCell"}
               => Head(p).target # c \/ Head(p).var # v,
           Head(p).kind \in {"AddLinearRows", "RemoveConstraint"} => Head(p).con # c,
           Head(p).kind = "RemoveVariable" => Head(p).var # v,
           n2.coeff[c][v] = n.coeff[c][v]
    PROVE  CoeffLands(Tail(p), n2, c, v, x)
<1>1. CoeffWrites(c, v)[Head(p)] = {}
  BY DroppedOp, CoeffUnwritten
<1> QED
  BY <1>1, LandsLowered DEF CoeffLands

LEMMA CostLowered ==
    ASSUME NEW p \in Seq(Ops), p # <<>>, NEW k, NEW n, NEW o \in Obj, NEW v \in Var,
           NEW x, CostLands(p, k, n, o, v, x), NEW k2, NEW n2,
           Head(p).kind \in {"SetCell", "RemoveCell"}
               => Head(p).target # o \/ Head(p).var # v,
           Head(p).kind \in {"AddObjective", "RemoveObjective"} => Head(p).obj # o,
           Head(p).kind = "RemoveVariable" => Head(p).var # v,
           n2.costs[o][v] = n.costs[o][v], k2.terms[o][v] = k.terms[o][v]
    PROVE  CostLands(Tail(p), k2, n2, o, v, x)
<1>1. CostWrites(o, v)[Head(p)] = {} /\ TermWrites(o, v)[Head(p)] = {}
  BY DroppedOp, CostUnwritten
<1> QED
  BY <1>1, LandsLowered DEF CostLands

LEMMA ObjectiveLowered ==
    ASSUME NEW p \in Seq(Ops), p # <<>>, NEW k, NEW n, NEW o \in Obj, NEW d,
           ObjectiveLands(p, k, n, o, d), NEW k2, NEW n2,
           Head(p).kind \in {"AddObjective", "RemoveObjective", "SetObjectiveConstant"}
               => Head(p).obj # o,
           o \in n2.objectives <=> o \in n.objectives,
           n2.offsets[o] = n.offsets[o], k2.constants[o] = k.constants[o]
    PROVE  ObjectiveLands(Tail(p), k2, n2, o, d)
<1>1. /\ ObjectiveWrites(o)[Head(p)] = {} /\ OffsetWrites(o)[Head(p)] = {}
      /\ ConstantWrites(o)[Head(p)] = {}
  BY DroppedOp, ObjectiveUnwritten
<1>2. Flag(o \in n2.objectives) = Flag(o \in n.objectives)
  BY DEF Flag
<1> QED
  BY <1>1, <1>2, LandsLowered DEF ObjectiveLands

LEMMA PolicyLowered ==
    ASSUME NEW p \in Seq(Ops), p # <<>>, NEW k, NEW o \in Obj, NEW act,
           PolicyLands(p, k, o, act), NEW k2,
           Head(p).kind # "SetActiveObjective",
           Head(p).kind = "RemoveObjective" => Head(p).obj # o,
           k2.policy = o <=> k.policy = o
    PROVE  PolicyLands(Tail(p), k2, o, act)
<1>1. PolicyWrites(o)[Head(p)] = {}
  BY DroppedOp, PolicyUnwritten
<1>2. Flag(k2.policy = o) = Flag(k.policy = o)
  BY DEF Flag
<1> QED
  BY <1>1, <1>2, LandsLowered DEF PolicyLands

LEMMA ChargesLowered ==
    ASSUME NEW p \in Seq(Ops), p # <<>>, NEW k, NEW n, NEW o \in Obj, NEW ks,
           ChargesLand(p, k, n, o, ks), NEW k2, NEW n2,
           Head(p).kind \in ChargeKinds => Head(p).obj # o,
           n2.penalties[o] = n.penalties[o], k2.charges[o] = k.charges[o]
    PROVE  ChargesLand(Tail(p), k2, n2, o, ks)
<1>1. PenaltyWrites(o)[Head(p)] = {} /\ ChargeWrites(o)[Head(p)] = {}
  BY DroppedOp, ChargesUnwritten
<1> QED
  BY <1>1, LandsLowered DEF ChargesLand

-----------------------------------------------------------------------------
(* What the operations have *)

LEMMA OpFields ==
    ASSUME NEW op \in Ops
    PROVE  /\ op.kind \in {"AddVariable", "RemoveVariable", "SetVariableBounds",
                           "SetVariableFixing", "SetVariableActive", "SetVariableType",
                           "SetSemiContinuousBound"} => op.var \in Var
           /\ op.kind = "AddVariable" => op.bounds \in SUBSET Value /\ op.type \in Types
           /\ op.kind = "SetVariableBounds" => op.bounds \in SUBSET Value
           /\ op.kind = "SetVariableFixing" => op.effective \in SUBSET Value
           /\ op.kind \in {"AddLinearRows", "SetConstraintBounds"} => op.bounds \in SUBSET Value
           /\ op.kind \in {"AddLinearRows", "SetConstraintBounds", "RemoveConstraint"}
                 => op.con \in Con
           /\ op.kind = "AddLinearRows" => op.row \in Cells
           /\ op.kind \in {"AddObjective", "RemoveObjective", "SetObjectiveConstant"}
                 => op.obj \in Obj
           /\ op.kind = "SetActiveObjective" => op.obj \in Obj \cup {None}
           /\ op.kind \in {"SetObjectiveConstant", "SetCell"} => op.value \in Int
           /\ op.kind \in {"SetCell", "RemoveCell"} => op.target \in Target /\ op.var \in Var
BY DEF Ops

LEMMA ZeroInt == 0 \in Int /\ 0 \in Value /\ Value \subseteq Int
BY ValueAssumption

LEMMA ZeroCosts == NoCosts \in [Var -> Int] /\ (\A v \in Var : NoCosts[v] = 0) /\ 0 \in Int
BY DEF NoCosts

LEMMA DenseRow ==
    ASSUME NEW row \in Cells
    PROVE  Dense(row) \in [Var -> Int] /\ \A v \in Var : Dense(row)[v] = Term(row[v])
BY NoneAssumption DEF Dense, Cells, Term

-----------------------------------------------------------------------------
(* Lowering an operation: what it does not touch, then what it does *)

ColumnsSame(k, n, k2, n2) == n2.cols = n.cols /\ k2.activity = k.activity
RowsSame(n, n2) == n2.rows = n.rows
CellsSame(k, n, k2, n2) ==
    n2.coeff = n.coeff /\ n2.costs = n.costs /\ k2.terms = k.terms
ObjectivesSame(k, n, k2, n2) ==
    /\ n2.objectives = n.objectives /\ n2.offsets = n.offsets
    /\ k2.constants = k.constants /\ k2.policy = k.policy
PenaltiesSame(k, n, k2, n2) == n2.penalties = n.penalties /\ k2.charges = k.charges
ConstructsSame(n, n2) == n2.generated = n.generated

CellKinds == {"SetCell", "RemoveCell", "AddLinearRows", "RemoveConstraint",
              "RemoveVariable", "AddObjective", "RemoveObjective"}
ObjectiveKinds == {"AddObjective", "RemoveObjective", "SetObjectiveConstant",
                   "SetActiveObjective"}

LEMMA ColumnsKept ==
    ASSUME NEW p \in Seq(Ops), p # <<>>, NEW k, NEW n, NEW k2, NEW n2,
           ColumnsLand(p, k, n), ColumnsSame(k, n, k2, n2), Head(p).kind \notin ColumnKinds
    PROVE  ColumnsLand(Tail(p), k2, n2)
BY ColumnLowered DEF ColumnsLand, ColumnsSame

LEMMA RowsKept ==
    ASSUME NEW p \in Seq(Ops), p # <<>>, NEW n, NEW n2,
           RowsLand(p, n), RowsSame(n, n2), Head(p).kind \notin RowKinds
    PROVE  RowsLand(Tail(p), n2)
BY RowLowered DEF RowsLand, RowsSame

LEMMA CellsKept ==
    ASSUME NEW p \in Seq(Ops), p # <<>>, NEW k, NEW n, NEW k2, NEW n2,
           CellsLand(p, k, n), CellsSame(k, n, k2, n2), Head(p).kind \notin CellKinds
    PROVE  CellsLand(Tail(p), k2, n2)
<1>1. /\ Head(p).kind \notin {"SetCell", "RemoveCell"}
      /\ Head(p).kind \notin {"AddLinearRows", "RemoveConstraint"}
      /\ Head(p).kind \notin {"AddObjective", "RemoveObjective"}
      /\ Head(p).kind # "RemoveVariable"
  BY DEF CellKinds
<1>2. \A c \in Con, v \in Var : CoeffLands(Tail(p), n2, c, v, cells[c][v])
  BY <1>1, CoeffLowered DEF CellsLand, CellsSame
<1>3. \A o \in Obj, v \in Var : CostLands(Tail(p), k2, n2, o, v, cells[o][v])
  BY <1>1, CostLowered DEF CellsLand, CellsSame
<1> QED
  BY <1>2, <1>3 DEF CellsLand

LEMMA ObjectivesKept ==
    ASSUME NEW p \in Seq(Ops), p # <<>>, NEW k, NEW n, NEW k2, NEW n2,
           ObjectivesLand(p, k, n), ObjectivesSame(k, n, k2, n2),
           Head(p).kind \notin ObjectiveKinds
    PROVE  ObjectivesLand(Tail(p), k2, n2)
<1>1. /\ Head(p).kind \notin {"AddObjective", "RemoveObjective", "SetObjectiveConstant"}
      /\ Head(p).kind # "SetActiveObjective" /\ Head(p).kind # "RemoveObjective"
  BY DEF ObjectiveKinds
<1>2. \A o \in Obj : ObjectiveLands(Tail(p), k2, n2, o, objectives[o])
  BY <1>1, ObjectiveLowered DEF ObjectivesLand, ObjectivesSame
<1>3. \A o \in Obj : PolicyLands(Tail(p), k2, o, active)
  BY <1>1, PolicyLowered DEF ObjectivesLand, ObjectivesSame
<1> QED
  BY <1>2, <1>3 DEF ObjectivesLand

LEMMA PenaltiesKept ==
    ASSUME NEW p \in Seq(Ops), p # <<>>, NEW k, NEW n, NEW k2, NEW n2,
           PenaltiesLand(p, k, n), PenaltiesSame(k, n, k2, n2),
           Head(p).kind \notin ChargeKinds
    PROVE  PenaltiesLand(Tail(p), k2, n2)
BY ChargesLowered DEF PenaltiesLand, PenaltiesSame

LEMMA ConstructsKept ==
    ASSUME NEW n, NEW n2, ConstructsFit(n), ConstructsSame(n, n2)
    PROVE  ConstructsFit(n2)
BY DEF ConstructsFit, ConstructsSame

-----------------------------------------------------------------------------
\* Lowering the first of p takes k and n to k2 and n2, which are of a kind with
\* them and fit what is left of p.
Lowered(p, k, n, k2, n2) ==
    /\ k2 \in Compilers
    /\ NativeTyped(n2)
    /\ Consistent(k2, n2)
    /\ k2.dependencies = k.dependencies
    /\ n2.objectives \subseteq n.objectives \cup {d \in Obj : Adding(Head(p), d)}
    /\ Fits(p, k, n) => Fits(Tail(p), k2, n2)

(* What each lowering does to the compiler's copy and the native model *)

LEMMA AddVariableFits ==
    ASSUME NEW p \in Seq(Ops), p # <<>>, NEW k \in Compilers, NEW n, NativeTyped(n),
           Consistent(k, n),
           Head(p).kind = "AddVariable"
    PROVE  LET k2 == [k EXCEPT !.variables = @ \cup {Head(p).var}, !.activity[Head(p).var] = TRUE]
               n2 == AddColumn(n, Head(p).var, Head(p).bounds, Head(p).type)
           IN Lowered(p, k, n, k2, n2)
<1> DEFINE op == Head(p)
           v == op.var
           k2 == [k EXCEPT !.variables = @ \cup {Head(p).var}, !.activity[Head(p).var] = TRUE]
           n2 == AddColumn(n, Head(p).var, Head(p).bounds, Head(p).type)
<1>1. op \in Ops /\ v \in Var /\ op.bounds \in SUBSET Value /\ op.type \in Types
  BY DroppedOp, OpFields
<1>2. /\ k2 \in Compilers /\ k2.variables = k.variables \cup {v}
      /\ k2.activity = [k.activity EXCEPT ![v] = TRUE] /\ k2.rows = k.rows
      /\ k2.objectives = k.objectives /\ k2.terms = k.terms /\ k2.charges = k.charges
      /\ k2.constants = k.constants /\ k2.policy = k.policy
      /\ k2.dependencies = k.dependencies
  BY <1>1 DEF Compilers
<1>3. /\ NativeTyped(n2) /\ n2.cols = [n.cols EXCEPT ![v] = Column(op.bounds, op.type)]
      /\ n2.rows = n.rows /\ n2.coeff = n.coeff /\ n2.objectives = n.objectives
      /\ n2.costs = n.costs /\ n2.penalties = n.penalties /\ n2.offsets = n.offsets
      /\ n2.generated = n.generated /\ n2.active = n.active /\ n2.colCost = n.colCost
      /\ n2.charged = n.charged /\ n2.offset = n.offset
  BY <1>1 DEF NativeTyped, AddColumn, Column, Columns
<1> HIDE DEF k2, n2
<1>4. /\ Column(op.bounds, op.type) # None
      /\ Column(op.bounds, op.type).bounds = op.bounds
      /\ Column(op.bounds, op.type).type = op.type
  BY <1>1, NoneAssumption DEF Column, Columns
<1>5. ASSUME Fits(p, k, n)
      PROVE  Fits(Tail(p), k2, n2)
  <2>1. ColumnLands(Tail(p), k2, n2, v, variables[v])
    <3>1. ColumnLands(p, k, n, v, variables[v])
      BY <1>5, <1>1 DEF Fits, ColumnsLand
    <3>2. /\ TypeWrites(v)[op] = {op.type} /\ BoundsWrites(v)[op] = {op.bounds}
          /\ ActivityWrites(v)[op] = {1}
      BY <1>1 DEF TypeWrites, BoundsWrites, ActivityWrites
    <3>3. /\ ColumnType(n2, v) = op.type /\ ColumnBounds(n2, v) = op.bounds
          /\ Flag(k2.activity[v]) = 1
      <4>1. n2.cols[v] = Column(op.bounds, op.type) /\ k2.activity[v] = TRUE
        BY <1>1, <1>2, <1>3 DEF NativeTyped, Compilers
      <4> QED
        BY <4>1, <1>4 DEF ColumnType, ColumnBounds, Flag
    <3>4. Writing(p, v)
      BY DroppedOp DEF Writing
    <3>5. Lands(TypeWrites(v), Tail(p), op.type, TypeOf(variables[v]))
      BY <3>1, <3>2, LandsLowered DEF ColumnLands
    <3>6. Unfolded(variables[v])
             => Lands(BoundsWrites(v), Tail(p), op.bounds, BoundsOf(variables[v]))
      BY <3>1, <3>2, LandsLowered DEF ColumnLands
    <3>7. variables[v] # None /\ variables[v].active
             => Lands(ActivityWrites(v), Tail(p), 1, 1)
      BY <3>1, <3>2, LandsLowered DEF ColumnLands
    <3> QED
      BY <3>1, <3>3, <3>4, <3>5, <3>6, <3>7 DEF ColumnLands
  <2>2. ColumnsLand(Tail(p), k2, n2)
    <3> SUFFICES ASSUME NEW u \in Var PROVE ColumnLands(Tail(p), k2, n2, u, variables[u])
      BY DEF ColumnsLand
    <3>1. CASE u = v
      BY <3>1, <2>1
    <3>2. CASE u # v
      <4>1. n2.cols[u] = n.cols[u] /\ k2.activity[u] = k.activity[u]
        BY <3>2, <1>1, <1>2, <1>3 DEF NativeTyped, Compilers
      <4> QED
        BY <1>5, <3>2, <4>1, ColumnLowered DEF Fits, ColumnsLand
    <3> QED
      BY <3>1, <3>2
  <2>3. RowsLand(Tail(p), n2)
    BY <1>5, <1>1, <1>2, <1>3, RowsKept DEF Fits, RowsSame, RowKinds
  <2>4. CellsLand(Tail(p), k2, n2)
    BY <1>5, <1>1, <1>2, <1>3, CellsKept DEF Fits, CellsSame, CellKinds
  <2>5. ObjectivesLand(Tail(p), k2, n2)
    BY <1>5, <1>1, <1>2, <1>3, ObjectivesKept DEF Fits, ObjectivesSame, ObjectiveKinds
  <2>6. PenaltiesLand(Tail(p), k2, n2)
    BY <1>5, <1>1, <1>2, <1>3, PenaltiesKept DEF Fits, PenaltiesSame, ChargeKinds
  <2>7. ConstructsFit(n2)
    BY <1>5, <1>3, ConstructsKept DEF Fits, ConstructsSame
  <2> QED
    BY <2>2, <2>3, <2>4, <2>5, <2>6, <2>7 DEF Fits
<1>6. ColumnsAgree(k2, n2)
  <2>1. \A u \in Var : n2.cols[u] # None <=> u = v \/ n.cols[u] # None
    BY <1>1, <1>3, <1>4 DEF NativeTyped
  <2> QED
    BY <2>1, <1>1, <1>2 DEF Consistent, ColumnsAgree
<1>7. RowsAgree(k2, n2)
  BY <1>2, <1>3 DEF Consistent, RowsAgree
<1>8. ObjectivesAgree(k2, n2)
  BY <1>2, <1>3 DEF Consistent, ObjectivesAgree
<1>9. Projected(n2)
  BY <1>2, <1>3 DEF Consistent, Projected
<1>10. n2.objectives \subseteq n.objectives \cup {d \in Obj : Adding(Head(p), d)}
  BY <1>1, <1>3 DEF Adding
<1> QED
  BY <1>2, <1>3, <1>5, <1>6, <1>7, <1>8, <1>9, <1>10 DEF Lowered, Consistent, k2, n2

LEMMA RemoveVariableFits ==
    ASSUME NEW p \in Seq(Ops), p # <<>>, NEW k \in Compilers, NEW n, NativeTyped(n),
           Consistent(k, n),
           Head(p).kind = "RemoveVariable"
    PROVE  LET k2 == [k EXCEPT !.variables = @ \ {Head(p).var}]
               n2 == RemoveColumn(n, Head(p).var)
           IN Lowered(p, k, n, k2, n2)
<1> DEFINE op == Head(p)
           v == op.var
           k2 == [k EXCEPT !.variables = @ \ {Head(p).var}]
           n2 == RemoveColumn(n, Head(p).var)
<1>1. op \in Ops /\ v \in Var /\ 0 \in Int
  BY DroppedOp, OpFields, ZeroInt
<1>2. /\ k2 \in Compilers /\ k2.variables = k.variables \ {v}
      /\ k2.activity = k.activity /\ k2.rows = k.rows /\ k2.objectives = k.objectives
      /\ k2.terms = k.terms /\ k2.charges = k.charges /\ k2.constants = k.constants
      /\ k2.policy = k.policy /\ k2.dependencies = k.dependencies
  BY <1>1 DEF Compilers
<1>3. /\ NativeTyped(n2) /\ n2.cols = [n.cols EXCEPT ![v] = None]
      /\ n2.coeff = [c \in Con |-> [n.coeff[c] EXCEPT ![v] = 0]]
      /\ n2.costs = [o \in Obj |-> [n.costs[o] EXCEPT ![v] = 0]]
      /\ n2.colCost = [n.colCost EXCEPT ![v] = 0] /\ n2.rows = n.rows
      /\ n2.objectives = n.objectives /\ n2.penalties = n.penalties
      /\ n2.offsets = n.offsets /\ n2.generated = n.generated /\ n2.active = n.active
      /\ n2.charged = n.charged /\ n2.offset = n.offset
  BY <1>1 DEF NativeTyped, RemoveColumn
<1> HIDE DEF k2, n2
<1>4. ASSUME Fits(p, k, n)
      PROVE  Fits(Tail(p), k2, n2)
  <2>1. ColumnLands(Tail(p), k2, n2, v, variables[v])
    <3>1. ColumnLands(p, k, n, v, variables[v])
      BY <1>4, <1>1 DEF Fits, ColumnsLand
    <3>2. /\ TypeWrites(v)[op] = {None} /\ BoundsWrites(v)[op] = {None}
          /\ ActivityWrites(v)[op] = {}
      BY <1>1 DEF TypeWrites, BoundsWrites, ActivityWrites
    <3>3. ColumnType(n2, v) = None /\ ColumnBounds(n2, v) = None
      BY <1>1, <1>3 DEF ColumnType, ColumnBounds, NativeTyped
    <3>4. Writing(p, v)
      BY DroppedOp DEF Writing
    <3>5. Lands(TypeWrites(v), Tail(p), None, TypeOf(variables[v]))
      BY <3>1, <3>2, LandsLowered DEF ColumnLands
    <3>6. Unfolded(variables[v])
             => Lands(BoundsWrites(v), Tail(p), None, BoundsOf(variables[v]))
      BY <3>1, <3>2, LandsLowered DEF ColumnLands
    <3>7. variables[v] # None /\ variables[v].active
             => Lands(ActivityWrites(v), Tail(p), Flag(k2.activity[v]), 1)
      BY <1>2, <3>1, <3>2, LandsLowered DEF ColumnLands
    <3> QED
      BY <3>1, <3>3, <3>4, <3>5, <3>6, <3>7 DEF ColumnLands
  <2>2. ColumnsLand(Tail(p), k2, n2)
    <3> SUFFICES ASSUME NEW u \in Var PROVE ColumnLands(Tail(p), k2, n2, u, variables[u])
      BY DEF ColumnsLand
    <3>1. CASE u = v
      BY <3>1, <2>1
    <3>2. CASE u # v
      <4>1. n2.cols[u] = n.cols[u] /\ k2.activity[u] = k.activity[u]
        BY <3>2, <1>1, <1>2, <1>3 DEF NativeTyped, Compilers
      <4> QED
        BY <1>4, <3>2, <4>1, ColumnLowered DEF Fits, ColumnsLand
    <3> QED
      BY <3>1, <3>2
  <2>3. RowsLand(Tail(p), n2)
    BY <1>4, <1>1, <1>2, <1>3, RowsKept DEF Fits, RowsSame, RowKinds
  <2>4. CellsLand(Tail(p), k2, n2)
    <3>1. ASSUME NEW c \in Con, NEW u \in Var
          PROVE  CoeffLands(Tail(p), n2, c, u, cells[c][u])
      <4>1. CoeffLands(p, n, c, u, cells[c][u])
        BY <1>4 DEF Fits, CellsLand
      <4>2. CASE u = v
        <5>1. CoeffWrites(c, u)[op] = {0}
          BY <1>1, <4>2 DEF CoeffWrites
        <5>2. n2.coeff[c][u] = 0
          BY <1>1, <1>3, <4>2 DEF NativeTyped
        <5> QED
          BY <4>1, <5>1, <5>2, LandsLowered DEF CoeffLands
      <4>3. CASE u # v
        <5>1. n2.coeff[c][u] = n.coeff[c][u]
          BY <1>1, <1>3, <4>3 DEF NativeTyped
        <5> QED
          BY <4>1, <4>3, <5>1, CoeffLowered
      <4> QED
        BY <4>2, <4>3
    <3>2. ASSUME NEW o \in Obj, NEW u \in Var
          PROVE  CostLands(Tail(p), k2, n2, o, u, cells[o][u])
      <4>1. CostLands(p, k, n, o, u, cells[o][u])
        BY <1>4 DEF Fits, CellsLand
      <4>2. CASE u = v
        <5>1. CostWrites(o, u)[op] = {0} /\ TermWrites(o, u)[op] = {}
          BY <1>1, <4>2 DEF CostWrites, TermWrites, CellWrites
        <5>2. n2.costs[o][u] = 0
          BY <1>1, <1>3, <4>2 DEF NativeTyped
        <5> QED
          BY <1>2, <4>1, <5>1, <5>2, LandsLowered DEF CostLands
      <4>3. CASE u # v
        <5>1. n2.costs[o][u] = n.costs[o][u]
          BY <1>1, <1>3, <4>3 DEF NativeTyped
        <5> QED
          BY <1>2, <4>1, <4>3, <5>1, CostLowered
      <4> QED
        BY <4>2, <4>3
    <3> QED
      BY <3>1, <3>2 DEF CellsLand
  <2>5. ObjectivesLand(Tail(p), k2, n2)
    BY <1>4, <1>1, <1>2, <1>3, ObjectivesKept DEF Fits, ObjectivesSame, ObjectiveKinds
  <2>6. PenaltiesLand(Tail(p), k2, n2)
    BY <1>4, <1>1, <1>2, <1>3, PenaltiesKept DEF Fits, PenaltiesSame, ChargeKinds
  <2>7. ConstructsFit(n2)
    BY <1>4, <1>3, ConstructsKept DEF Fits, ConstructsSame
  <2> QED
    BY <2>2, <2>3, <2>4, <2>5, <2>6, <2>7 DEF Fits
<1>5. ColumnsAgree(k2, n2)
  <2>1. \A u \in Var : n2.cols[u] # None <=> u # v /\ n.cols[u] # None
    BY <1>1, <1>3 DEF NativeTyped
  <2> QED
    BY <2>1, <1>1, <1>2 DEF Consistent, ColumnsAgree
<1>6. RowsAgree(k2, n2)
  BY <1>2, <1>3 DEF Consistent, RowsAgree
<1>7. ObjectivesAgree(k2, n2)
  BY <1>2, <1>3 DEF Consistent, ObjectivesAgree
<1>8. Projected(n2)
  <2>1. CASE n.active = None
    <3>1. n2.colCost = NoCosts
      BY <1>1, <1>3, <2>1 DEF Consistent, Projected, NoCosts
    <3> QED
      BY <3>1, <2>1, <1>3 DEF Consistent, Projected
  <2>2. CASE n.active # None
    <3>1. n.active \in Obj /\ n.colCost = n.costs[n.active]
      BY <2>2 DEF Consistent, Projected, NativeTyped
    <3>2. n2.colCost = n2.costs[n2.active]
      BY <3>1, <1>3
    <3> QED
      BY <3>2, <2>2, <1>3 DEF Consistent, Projected
  <2> QED
    BY <2>1, <2>2
<1>9. n2.objectives \subseteq n.objectives \cup {d \in Obj : Adding(Head(p), d)}
  BY <1>1, <1>3 DEF Adding
<1> QED
  BY <1>2, <1>3, <1>4, <1>5, <1>6, <1>7, <1>8, <1>9 DEF Lowered, Consistent, k2, n2

\* The bounds of a column set, by either operation that does it.
LEMMA ColumnBoundsFit ==
    ASSUME NEW p \in Seq(Ops), p # <<>>, NEW k \in Compilers, NEW n, NativeTyped(n),
           Consistent(k, n),
           NEW b \in SUBSET Value,
           Head(p).kind \in {"SetVariableBounds", "SetVariableFixing"},
           BoundsWrites(Head(p).var)[Head(p)] = {b},
           Head(p).var \in k.variables,
           k.activity[Head(p).var]
    PROVE  LET k2 == k
               n2 == SetColumnBounds(n, Head(p).var, b)
           IN Lowered(p, k, n, k2, n2)
<1> DEFINE op == Head(p)
           v == op.var
           k2 == k
           n2 == SetColumnBounds(n, Head(p).var, b)
<1>1. /\ op \in Ops /\ v \in Var
      /\ n.cols[v] \in Columns /\ n.cols[v] # None
  BY DroppedOp, OpFields DEF Consistent, ColumnsAgree, NativeTyped
<1>2. /\ k2 \in Compilers /\ k2.variables = k.variables /\ k2.activity = k.activity
      /\ k2.rows = k.rows /\ k2.objectives = k.objectives /\ k2.terms = k.terms
      /\ k2.charges = k.charges /\ k2.constants = k.constants /\ k2.policy = k.policy
      /\ k2.dependencies = k.dependencies
  BY <1>1 DEF Compilers
<1>3. /\ NativeTyped(n2)
      /\ n2.cols = [n.cols EXCEPT ![v] = [n.cols[v] EXCEPT !.bounds = b]]
      /\ n2.rows = n.rows /\ n2.coeff = n.coeff /\ n2.objectives = n.objectives
      /\ n2.costs = n.costs /\ n2.penalties = n.penalties /\ n2.offsets = n.offsets
      /\ n2.generated = n.generated /\ n2.active = n.active /\ n2.colCost = n.colCost
      /\ n2.charged = n.charged /\ n2.offset = n.offset
  BY <1>1 DEF NativeTyped, SetColumnBounds, Columns
<1> HIDE DEF k2, n2
<1>4. /\ n2.cols[v].bounds = b /\ n2.cols[v].type = n.cols[v].type
      /\ n2.cols[v] \in Columns /\ n2.cols[v] # None
  <2>1. n2.cols[v] = [n.cols[v] EXCEPT !.bounds = b]
    BY <1>1, <1>3 DEF NativeTyped
  <2> QED
    BY <2>1, <1>1, NoneAssumption DEF Columns
<1>5. ASSUME Fits(p, k, n)
      PROVE  Fits(Tail(p), k2, n2)
  <2>1. ColumnLands(Tail(p), k2, n2, v, variables[v])
    <3>1. ColumnLands(p, k, n, v, variables[v])
      BY <1>5, <1>1 DEF Fits, ColumnsLand
    <3>2. TypeWrites(v)[op] = {} /\ BoundsWrites(v)[op] = {b} /\ ActivityWrites(v)[op] = {}
      BY <1>1 DEF TypeWrites, ActivityWrites
    <3>3. ColumnType(n2, v) = ColumnType(n, v) /\ ColumnBounds(n2, v) = b
      BY <1>1, <1>4 DEF ColumnType, ColumnBounds
    <3>4. Lands(TypeWrites(v), Tail(p), ColumnType(n2, v), TypeOf(variables[v]))
      BY <3>1, <3>2, <3>3, LandsLowered DEF ColumnLands
    <3>5. Unfolded(variables[v])
             => Lands(BoundsWrites(v), Tail(p), b, BoundsOf(variables[v]))
      BY <3>1, <3>2, LandsLowered DEF ColumnLands
    <3>6. variables[v] # None /\ variables[v].active
             => Lands(ActivityWrites(v), Tail(p), Flag(k2.activity[v]), 1)
      BY <1>2, <3>1, <3>2, LandsLowered DEF ColumnLands
    <3> QED
      BY <3>1, <3>3, <3>4, <3>5, <3>6 DEF ColumnLands
  <2>2. ColumnsLand(Tail(p), k2, n2)
    <3> SUFFICES ASSUME NEW u \in Var PROVE ColumnLands(Tail(p), k2, n2, u, variables[u])
      BY DEF ColumnsLand
    <3>1. CASE u = v
      BY <3>1, <2>1
    <3>2. CASE u # v
      <4>1. n2.cols[u] = n.cols[u] /\ k2.activity[u] = k.activity[u]
        BY <3>2, <1>1, <1>2, <1>3 DEF NativeTyped, Compilers
      <4> QED
        BY <1>5, <3>2, <4>1, ColumnLowered DEF Fits, ColumnsLand
    <3> QED
      BY <3>1, <3>2
  <2>3. RowsLand(Tail(p), n2)
    BY <1>5, <1>1, <1>2, <1>3, RowsKept DEF Fits, RowsSame, RowKinds
  <2>4. CellsLand(Tail(p), k2, n2)
    BY <1>5, <1>1, <1>2, <1>3, CellsKept DEF Fits, CellsSame, CellKinds
  <2>5. ObjectivesLand(Tail(p), k2, n2)
    BY <1>5, <1>1, <1>2, <1>3, ObjectivesKept DEF Fits, ObjectivesSame, ObjectiveKinds
  <2>6. PenaltiesLand(Tail(p), k2, n2)
    BY <1>5, <1>1, <1>2, <1>3, PenaltiesKept DEF Fits, PenaltiesSame, ChargeKinds
  <2>7. ConstructsFit(n2)
    BY <1>5, <1>3, ConstructsKept DEF Fits, ConstructsSame
  <2> QED
    BY <2>2, <2>3, <2>4, <2>5, <2>6, <2>7 DEF Fits
<1>6. ColumnsAgree(k2, n2)
  <2>1. \A u \in Var : n2.cols[u] # None <=> n.cols[u] # None
    BY <1>1, <1>3, <1>4 DEF NativeTyped
  <2> QED
    BY <1>2, <2>1 DEF Consistent, ColumnsAgree
<1>7. RowsAgree(k2, n2)
  BY <1>2, <1>3 DEF Consistent, RowsAgree
<1>8. ObjectivesAgree(k2, n2)
  BY <1>2, <1>3 DEF Consistent, ObjectivesAgree
<1>9. Projected(n2)
  BY <1>2, <1>3 DEF Consistent, Projected
<1>10. n2.objectives \subseteq n.objectives \cup {d \in Obj : Adding(Head(p), d)}
  BY <1>1, <1>3 DEF Adding
<1> QED
  BY <1>2, <1>3, <1>5, <1>6, <1>7, <1>8, <1>9, <1>10 DEF Lowered, Consistent, k2, n2

LEMMA AddRowFits ==
    ASSUME NEW p \in Seq(Ops), p # <<>>, NEW k \in Compilers, NEW n, NativeTyped(n),
           Consistent(k, n),
           Head(p).kind = "AddLinearRows"
    PROVE  LET k2 == [k EXCEPT !.rows = @ \cup {Head(p).con}]
               n2 == AddRow(n, Head(p).con, Head(p).bounds, Dense(Head(p).row))
           IN Lowered(p, k, n, k2, n2)
<1> DEFINE op == Head(p)
           c == op.con
           k2 == [k EXCEPT !.rows = @ \cup {Head(p).con}]
           n2 == AddRow(n, Head(p).con, Head(p).bounds, Dense(Head(p).row))
<1>1. /\ op \in Ops /\ op.kind = "AddLinearRows" /\ c \in Con
      /\ op.bounds \in SUBSET Value /\ op.row \in Cells /\ Dense(op.row) \in [Var -> Int]
  BY DroppedOp, OpFields, DenseRow
<1>2. /\ k2 \in Compilers /\ k2.rows = k.rows \cup {c} /\ k2.variables = k.variables
      /\ k2.activity = k.activity /\ k2.objectives = k.objectives /\ k2.terms = k.terms
      /\ k2.charges = k.charges /\ k2.constants = k.constants /\ k2.policy = k.policy
      /\ k2.dependencies = k.dependencies
  BY <1>1 DEF Compilers
<1>3. /\ NativeTyped(n2) /\ n2.rows = [n.rows EXCEPT ![c] = op.bounds]
      /\ n2.coeff = [n.coeff EXCEPT ![c] = Dense(op.row)] /\ n2.cols = n.cols
      /\ n2.objectives = n.objectives /\ n2.costs = n.costs
      /\ n2.penalties = n.penalties /\ n2.offsets = n.offsets
      /\ n2.generated = n.generated /\ n2.active = n.active /\ n2.colCost = n.colCost
      /\ n2.charged = n.charged /\ n2.offset = n.offset
  BY <1>1 DEF NativeTyped, AddRow
<1> HIDE DEF k2, n2
<1>4. ASSUME Fits(p, k, n)
      PROVE  Fits(Tail(p), k2, n2)
  <2>1. RowLands(Tail(p), n2, c, constraints[c], Softened(c))
    <3>1. RowLands(p, n, c, constraints[c], Softened(c))
      BY <1>4, <1>1 DEF Fits, RowsLand
    <3>2. RowWrites(c)[op] = {1} /\ RowBoundsWrites(c)[op] = {op.bounds}
      BY <1>1 DEF RowWrites, RowBoundsWrites
    <3>3. n2.rows[c] = op.bounds /\ Flag(n2.rows[c] # None) = 1
      BY <1>1, <1>3, NoneAssumption DEF NativeTyped, Flag
    <3> QED
      BY <3>1, <3>2, <3>3, LandsLowered DEF RowLands
  <2>2. ColumnsLand(Tail(p), k2, n2)
    BY <1>4, <1>1, <1>2, <1>3, ColumnsKept DEF Fits, ColumnsSame, ColumnKinds
  <2>3. RowsLand(Tail(p), n2)
    <3> SUFFICES ASSUME NEW d \in Con
                 PROVE  RowLands(Tail(p), n2, d, constraints[d], Softened(d))
      BY DEF RowsLand
    <3>1. CASE d = c
      BY <3>1, <2>1
    <3>2. CASE d # c
      <4>1. n2.rows[d] = n.rows[d]
        BY <3>2, <1>1, <1>3 DEF NativeTyped
      <4> QED
        BY <1>4, <3>2, <4>1, RowLowered DEF Fits, RowsLand
    <3> QED
      BY <3>1, <3>2
  <2>4. CellsLand(Tail(p), k2, n2)
    <3>1. ASSUME NEW d \in Con, NEW v \in Var
          PROVE  CoeffLands(Tail(p), n2, d, v, cells[d][v])
      <4>1. CoeffLands(p, n, d, v, cells[d][v])
        BY <1>4 DEF Fits, CellsLand
      <4>2. CASE d = c
        <5>1. CoeffWrites(d, v)[op] = {Dense(op.row)[v]}
          BY <1>1, <4>2 DEF CoeffWrites
        <5>2. n2.coeff[d][v] = Dense(op.row)[v]
          BY <1>1, <1>3, <4>2 DEF NativeTyped
        <5> QED
          BY <4>1, <5>1, <5>2, LandsLowered DEF CoeffLands
      <4>3. CASE d # c
        <5>1. n2.coeff[d][v] = n.coeff[d][v]
          BY <1>1, <1>3, <4>3 DEF NativeTyped
        <5> QED
          BY <1>1, <4>1, <4>3, <5>1, CoeffLowered
      <4> QED
        BY <4>2, <4>3
    <3>2. ASSUME NEW o \in Obj, NEW v \in Var
          PROVE  CostLands(Tail(p), k2, n2, o, v, cells[o][v])
      <4>1. CostLands(p, k, n, o, v, cells[o][v])
        BY <1>4 DEF Fits, CellsLand
      <4>2. n2.costs[o][v] = n.costs[o][v] /\ k2.terms[o][v] = k.terms[o][v]
        BY <1>2, <1>3
      <4> QED
        BY <1>1, <4>1, <4>2, CostLowered
    <3> QED
      BY <3>1, <3>2 DEF CellsLand
  <2>5. ObjectivesLand(Tail(p), k2, n2)
    BY <1>4, <1>1, <1>2, <1>3, ObjectivesKept DEF Fits, ObjectivesSame, ObjectiveKinds
  <2>6. PenaltiesLand(Tail(p), k2, n2)
    BY <1>4, <1>1, <1>2, <1>3, PenaltiesKept DEF Fits, PenaltiesSame, ChargeKinds
  <2>7. ConstructsFit(n2)
    BY <1>4, <1>3, ConstructsKept DEF Fits, ConstructsSame
  <2> QED
    BY <2>2, <2>3, <2>4, <2>5, <2>6, <2>7 DEF Fits
<1>5. ColumnsAgree(k2, n2)
  BY <1>2, <1>3 DEF Consistent, ColumnsAgree
<1>6. RowsAgree(k2, n2)
  <2>1. \A d \in Con : n2.rows[d] # None <=> d = c \/ n.rows[d] # None
    BY <1>1, <1>3, NoneAssumption DEF NativeTyped
  <2> QED
    BY <2>1, <1>1, <1>2 DEF Consistent, RowsAgree
<1>7. ObjectivesAgree(k2, n2)
  BY <1>2, <1>3 DEF Consistent, ObjectivesAgree
<1>8. Projected(n2)
  BY <1>2, <1>3 DEF Consistent, Projected
<1>9. n2.objectives \subseteq n.objectives \cup {d \in Obj : Adding(Head(p), d)}
  BY <1>1, <1>3 DEF Adding
<1> QED
  BY <1>2, <1>3, <1>4, <1>5, <1>6, <1>7, <1>8, <1>9 DEF Lowered, Consistent, k2, n2

LEMMA RemoveRowFits ==
    ASSUME NEW p \in Seq(Ops), p # <<>>, NEW k \in Compilers, NEW n, NativeTyped(n),
           Consistent(k, n),
           Head(p).kind = "RemoveConstraint"
    PROVE  LET k2 == [k EXCEPT !.rows = @ \ {Head(p).con}]
               n2 == RemoveRow(n, Head(p).con)
           IN Lowered(p, k, n, k2, n2)
<1> DEFINE op == Head(p)
           c == op.con
           k2 == [k EXCEPT !.rows = @ \ {Head(p).con}]
           n2 == RemoveRow(n, Head(p).con)
<1>1. /\ op \in Ops /\ op.kind = "RemoveConstraint" /\ c \in Con
      /\ NoCosts \in [Var -> Int] /\ \A v \in Var : NoCosts[v] = 0
  BY DroppedOp, OpFields, ZeroInt DEF NoCosts
<1>2. /\ k2 \in Compilers /\ k2.rows = k.rows \ {c} /\ k2.variables = k.variables
      /\ k2.activity = k.activity /\ k2.objectives = k.objectives /\ k2.terms = k.terms
      /\ k2.charges = k.charges /\ k2.constants = k.constants /\ k2.policy = k.policy
      /\ k2.dependencies = k.dependencies
  BY <1>1 DEF Compilers
<1>3. /\ NativeTyped(n2)
      /\ n2.rows = [n.rows EXCEPT ![c] = None] /\ n2.coeff = [n.coeff EXCEPT ![c] = NoCosts]
      /\ n2.cols = n.cols /\ n2.objectives = n.objectives /\ n2.costs = n.costs
      /\ n2.penalties = n.penalties /\ n2.offsets = n.offsets
      /\ n2.generated = n.generated /\ n2.active = n.active /\ n2.colCost = n.colCost
      /\ n2.charged = n.charged /\ n2.offset = n.offset
  <2>1. /\ DOMAIN n2 = DOMAIN n
        /\ n2.rows = [n.rows EXCEPT ![c] = None]
        /\ n2.coeff = [n.coeff EXCEPT ![c] = NoCosts]
        /\ n2.cols = n.cols /\ n2.objectives = n.objectives /\ n2.costs = n.costs
        /\ n2.penalties = n.penalties /\ n2.offsets = n.offsets
        /\ n2.generated = n.generated /\ n2.active = n.active /\ n2.colCost = n.colCost
        /\ n2.charged = n.charged /\ n2.offset = n.offset
    BY DEF NativeTyped, RemoveRow
  <2>2. [n.rows EXCEPT ![c] = None] \in [Con -> (SUBSET Value) \cup {None}]
    BY <1>1 DEF NativeTyped
  <2>3. [n.coeff EXCEPT ![c] = NoCosts] \in [Con -> [Var -> Int]]
    BY <1>1 DEF NativeTyped
  <2>4. NativeTyped(n2)
    BY <2>1, <2>2, <2>3 DEF NativeTyped
  <2> QED
    BY <2>1, <2>4
<1> HIDE DEF k2, n2
<1>4. ASSUME Fits(p, k, n)
      PROVE  Fits(Tail(p), k2, n2)
  <2>1. RowLands(Tail(p), n2, c, constraints[c], Softened(c))
    <3>1. RowLands(p, n, c, constraints[c], Softened(c))
      BY <1>4, <1>1 DEF Fits, RowsLand
    <3>2. RowWrites(c)[op] = {0} /\ RowBoundsWrites(c)[op] = {None}
      BY <1>1 DEF RowWrites, RowBoundsWrites
    <3>3. n2.rows[c] = None /\ Flag(n2.rows[c] # None) = 0
      BY <1>1, <1>3, NoneAssumption DEF NativeTyped, Flag
    <3> QED
      BY <3>1, <3>2, <3>3, LandsLowered DEF RowLands
  <2>2. ColumnsLand(Tail(p), k2, n2)
    BY <1>4, <1>1, <1>2, <1>3, ColumnsKept DEF Fits, ColumnsSame, ColumnKinds
  <2>3. RowsLand(Tail(p), n2)
    <3> SUFFICES ASSUME NEW d \in Con
                 PROVE  RowLands(Tail(p), n2, d, constraints[d], Softened(d))
      BY DEF RowsLand
    <3>1. CASE d = c
      BY <3>1, <2>1
    <3>2. CASE d # c
      <4>1. n2.rows[d] = n.rows[d]
        BY <3>2, <1>1, <1>3 DEF NativeTyped
      <4> QED
        BY <1>4, <3>2, <4>1, RowLowered DEF Fits, RowsLand
    <3> QED
      BY <3>1, <3>2
  <2>4. CellsLand(Tail(p), k2, n2)
    <3>1. ASSUME NEW d \in Con, NEW v \in Var
          PROVE  CoeffLands(Tail(p), n2, d, v, cells[d][v])
      <4>1. CoeffLands(p, n, d, v, cells[d][v])
        BY <1>4 DEF Fits, CellsLand
      <4>2. CASE d = c
        <5>1. CoeffWrites(d, v)[op] = {0}
          BY <1>1, <4>2 DEF CoeffWrites
        <5>2. n2.coeff[d][v] = 0
          BY <1>1, <1>3, <4>2 DEF NativeTyped
        <5> QED
          BY <4>1, <5>1, <5>2, LandsLowered DEF CoeffLands
      <4>3. CASE d # c
        <5>1. n2.coeff[d][v] = n.coeff[d][v]
          BY <1>1, <1>3, <4>3 DEF NativeTyped
        <5> QED
          BY <1>1, <4>1, <4>3, <5>1, CoeffLowered
      <4> QED
        BY <4>2, <4>3
    <3>2. ASSUME NEW o \in Obj, NEW v \in Var
          PROVE  CostLands(Tail(p), k2, n2, o, v, cells[o][v])
      <4>1. CostLands(p, k, n, o, v, cells[o][v])
        BY <1>4 DEF Fits, CellsLand
      <4>2. n2.costs[o][v] = n.costs[o][v] /\ k2.terms[o][v] = k.terms[o][v]
        BY <1>2, <1>3
      <4> QED
        BY <1>1, <4>1, <4>2, CostLowered
    <3> QED
      BY <3>1, <3>2 DEF CellsLand
  <2>5. ObjectivesLand(Tail(p), k2, n2)
    BY <1>4, <1>1, <1>2, <1>3, ObjectivesKept DEF Fits, ObjectivesSame, ObjectiveKinds
  <2>6. PenaltiesLand(Tail(p), k2, n2)
    BY <1>4, <1>1, <1>2, <1>3, PenaltiesKept DEF Fits, PenaltiesSame, ChargeKinds
  <2>7. ConstructsFit(n2)
    BY <1>4, <1>3, ConstructsKept DEF Fits, ConstructsSame
  <2> QED
    BY <2>2, <2>3, <2>4, <2>5, <2>6, <2>7 DEF Fits
<1>5. ColumnsAgree(k2, n2)
  BY <1>2, <1>3 DEF Consistent, ColumnsAgree
<1>6. RowsAgree(k2, n2)
  <2>1. \A d \in Con : n2.rows[d] # None <=> d # c /\ n.rows[d] # None
    BY <1>1, <1>3, NoneAssumption DEF NativeTyped
  <2> QED
    BY <2>1, <1>1, <1>2 DEF Consistent, RowsAgree
<1>7. ObjectivesAgree(k2, n2)
  BY <1>2, <1>3 DEF Consistent, ObjectivesAgree
<1>8. Projected(n2)
  BY <1>2, <1>3 DEF Consistent, Projected
<1>9. n2.objectives \subseteq n.objectives \cup {d \in Obj : Adding(Head(p), d)}
  BY <1>1, <1>3 DEF Adding
<1> QED
  BY <1>2, <1>3, <1>4, <1>5, <1>6, <1>7, <1>8, <1>9 DEF Lowered, Consistent, k2, n2

LEMMA RowBoundsFit ==
    ASSUME NEW p \in Seq(Ops), p # <<>>, NEW k \in Compilers, NEW n, NativeTyped(n),
           Consistent(k, n),
           Head(p).kind = "SetConstraintBounds",
           Head(p).con \in k.rows
    PROVE  LET k2 == k
               n2 == SetRowBounds(n, Head(p).con, Head(p).bounds)
           IN Lowered(p, k, n, k2, n2)
<1> DEFINE op == Head(p)
           c == op.con
           k2 == k
           n2 == SetRowBounds(n, Head(p).con, Head(p).bounds)
<1>1. /\ op \in Ops /\ op.kind = "SetConstraintBounds" /\ c \in Con
      /\ op.bounds \in SUBSET Value /\ n.rows[c] # None
  BY DroppedOp, OpFields DEF Consistent, RowsAgree
<1>2. /\ k2 \in Compilers /\ k2.variables = k.variables /\ k2.activity = k.activity
      /\ k2.rows = k.rows /\ k2.objectives = k.objectives /\ k2.terms = k.terms
      /\ k2.charges = k.charges /\ k2.constants = k.constants /\ k2.policy = k.policy
      /\ k2.dependencies = k.dependencies
  BY <1>1 DEF Compilers
<1>3. /\ NativeTyped(n2) /\ n2.rows = [n.rows EXCEPT ![c] = op.bounds]
      /\ n2.cols = n.cols /\ n2.coeff = n.coeff /\ n2.objectives = n.objectives
      /\ n2.costs = n.costs /\ n2.penalties = n.penalties /\ n2.offsets = n.offsets
      /\ n2.generated = n.generated /\ n2.active = n.active /\ n2.colCost = n.colCost
      /\ n2.charged = n.charged /\ n2.offset = n.offset
  BY <1>1 DEF NativeTyped, SetRowBounds
<1> HIDE DEF k2, n2
<1>4. ASSUME Fits(p, k, n)
      PROVE  Fits(Tail(p), k2, n2)
  <2>1. RowLands(Tail(p), n2, c, constraints[c], Softened(c))
    <3>1. RowLands(p, n, c, constraints[c], Softened(c))
      BY <1>4, <1>1 DEF Fits, RowsLand
    <3>2. RowWrites(c)[op] = {} /\ RowBoundsWrites(c)[op] = {op.bounds}
      BY <1>1 DEF RowWrites, RowBoundsWrites
    <3>3. n2.rows[c] = op.bounds /\ Flag(n2.rows[c] # None) = Flag(n.rows[c] # None)
      BY <1>1, <1>3, NoneAssumption DEF NativeTyped, Flag
    <3> QED
      BY <3>1, <3>2, <3>3, LandsLowered DEF RowLands
  <2>2. ColumnsLand(Tail(p), k2, n2)
    BY <1>4, <1>1, <1>2, <1>3, ColumnsKept DEF Fits, ColumnsSame, ColumnKinds
  <2>3. RowsLand(Tail(p), n2)
    <3> SUFFICES ASSUME NEW d \in Con
                 PROVE  RowLands(Tail(p), n2, d, constraints[d], Softened(d))
      BY DEF RowsLand
    <3>1. CASE d = c
      BY <3>1, <2>1
    <3>2. CASE d # c
      <4>1. n2.rows[d] = n.rows[d]
        BY <3>2, <1>1, <1>3 DEF NativeTyped
      <4> QED
        BY <1>4, <3>2, <4>1, RowLowered DEF Fits, RowsLand
    <3> QED
      BY <3>1, <3>2
  <2>4. CellsLand(Tail(p), k2, n2)
    BY <1>4, <1>1, <1>2, <1>3, CellsKept DEF Fits, CellsSame, CellKinds
  <2>5. ObjectivesLand(Tail(p), k2, n2)
    BY <1>4, <1>1, <1>2, <1>3, ObjectivesKept DEF Fits, ObjectivesSame, ObjectiveKinds
  <2>6. PenaltiesLand(Tail(p), k2, n2)
    BY <1>4, <1>1, <1>2, <1>3, PenaltiesKept DEF Fits, PenaltiesSame, ChargeKinds
  <2>7. ConstructsFit(n2)
    BY <1>4, <1>3, ConstructsKept DEF Fits, ConstructsSame
  <2> QED
    BY <2>2, <2>3, <2>4, <2>5, <2>6, <2>7 DEF Fits
<1>5. ColumnsAgree(k2, n2)
  BY <1>2, <1>3 DEF Consistent, ColumnsAgree
<1>6. RowsAgree(k2, n2)
  <2>1. \A d \in Con : n2.rows[d] # None <=> n.rows[d] # None
    BY <1>1, <1>3, NoneAssumption DEF NativeTyped
  <2> QED
    BY <2>1, <1>1, <1>2 DEF Consistent, RowsAgree
<1>7. ObjectivesAgree(k2, n2)
  BY <1>2, <1>3 DEF Consistent, ObjectivesAgree
<1>8. Projected(n2)
  BY <1>2, <1>3 DEF Consistent, Projected
<1>9. n2.objectives \subseteq n.objectives \cup {d \in Obj : Adding(Head(p), d)}
  BY <1>1, <1>3 DEF Adding
<1> QED
  BY <1>2, <1>3, <1>4, <1>5, <1>6, <1>7, <1>8, <1>9 DEF Lowered, Consistent, k2, n2

\* A coefficient set, or removed by setting it to 0.
LEMMA CoeffFits ==
    ASSUME NEW p \in Seq(Ops), p # <<>>, NEW k \in Compilers, NEW n, NativeTyped(n),
           Consistent(k, n),
           NEW x \in Int,
           Head(p).kind \in {"SetCell", "RemoveCell"},
           Head(p).target \in Con,
           CellWrites(Head(p).target, Head(p).var)[Head(p)] = {x}
    PROVE  LET k2 == k
               n2 == SetNativeCoefficient(n, Head(p).target, Head(p).var, x)
           IN Lowered(p, k, n, k2, n2)
<1> DEFINE op == Head(p)
           c == op.target
           v == op.var
           k2 == k
           n2 == SetNativeCoefficient(n, Head(p).target, Head(p).var, x)
<1>1. /\ op \in Ops /\ op.kind \in {"SetCell", "RemoveCell"} /\ c \in Con /\ v \in Var
      /\ \A o \in Obj : o # c
  BY DroppedOp, OpFields, NamesAssumption
<1>2. /\ k2 \in Compilers /\ k2.variables = k.variables /\ k2.activity = k.activity
      /\ k2.rows = k.rows /\ k2.objectives = k.objectives /\ k2.terms = k.terms
      /\ k2.charges = k.charges /\ k2.constants = k.constants /\ k2.policy = k.policy
      /\ k2.dependencies = k.dependencies
  BY <1>1 DEF Compilers
<1>3. /\ NativeTyped(n2)
      /\ n2.coeff = [n.coeff EXCEPT ![c] = [n.coeff[c] EXCEPT ![v] = x]]
      /\ n2.cols = n.cols /\ n2.rows = n.rows /\ n2.objectives = n.objectives
      /\ n2.costs = n.costs /\ n2.penalties = n.penalties /\ n2.offsets = n.offsets
      /\ n2.generated = n.generated /\ n2.active = n.active /\ n2.colCost = n.colCost
      /\ n2.charged = n.charged /\ n2.offset = n.offset
  BY <1>1 DEF NativeTyped, SetNativeCoefficient
<1> HIDE DEF k2, n2
<1>4. ASSUME Fits(p, k, n)
      PROVE  Fits(Tail(p), k2, n2)
  <2>1. ColumnsLand(Tail(p), k2, n2)
    BY <1>4, <1>1, <1>2, <1>3, ColumnsKept DEF Fits, ColumnsSame, ColumnKinds
  <2>2. RowsLand(Tail(p), n2)
    BY <1>4, <1>1, <1>2, <1>3, RowsKept DEF Fits, RowsSame, RowKinds
  <2>3. CellsLand(Tail(p), k2, n2)
    <3>1. ASSUME NEW d \in Con, NEW u \in Var
          PROVE  CoeffLands(Tail(p), n2, d, u, cells[d][u])
      <4>1. CoeffLands(p, n, d, u, cells[d][u])
        BY <1>4 DEF Fits, CellsLand
      <4>2. CASE d = c /\ u = v
        <5>1. CoeffWrites(d, u)[op] = {x}
          BY <1>1, <4>2 DEF CoeffWrites
        <5>2. n2.coeff[d][u] = x
          BY <1>1, <1>3, <4>2 DEF NativeTyped
        <5> QED
          BY <4>1, <5>1, <5>2, LandsLowered DEF CoeffLands
      <4>3. CASE d # c \/ u # v
        <5>1. n2.coeff[d][u] = n.coeff[d][u]
          BY <1>1, <1>3, <4>3 DEF NativeTyped
        <5> QED
          BY <1>1, <4>1, <4>3, <5>1, CoeffLowered
      <4> QED
        BY <4>2, <4>3
    <3>2. ASSUME NEW o \in Obj, NEW u \in Var
          PROVE  CostLands(Tail(p), k2, n2, o, u, cells[o][u])
      <4>1. CostLands(p, k, n, o, u, cells[o][u])
        BY <1>4 DEF Fits, CellsLand
      <4>2. /\ n2.costs[o][u] = n.costs[o][u] /\ k2.terms[o][u] = k.terms[o][u]
            /\ op.target # o
        BY <1>1, <1>2, <1>3
      <4> QED
        BY <1>1, <4>1, <4>2, CostLowered
    <3> QED
      BY <3>1, <3>2 DEF CellsLand
  <2>4. ObjectivesLand(Tail(p), k2, n2)
    BY <1>4, <1>1, <1>2, <1>3, ObjectivesKept DEF Fits, ObjectivesSame, ObjectiveKinds
  <2>5. PenaltiesLand(Tail(p), k2, n2)
    BY <1>4, <1>1, <1>2, <1>3, PenaltiesKept DEF Fits, PenaltiesSame, ChargeKinds
  <2>6. ConstructsFit(n2)
    BY <1>4, <1>3, ConstructsKept DEF Fits, ConstructsSame
  <2> QED
    BY <2>1, <2>2, <2>3, <2>4, <2>5, <2>6 DEF Fits
<1>5. ColumnsAgree(k2, n2)
  BY <1>2, <1>3 DEF Consistent, ColumnsAgree
<1>6. RowsAgree(k2, n2)
  BY <1>2, <1>3 DEF Consistent, RowsAgree
<1>7. ObjectivesAgree(k2, n2)
  BY <1>2, <1>3 DEF Consistent, ObjectivesAgree
<1>8. Projected(n2)
  BY <1>2, <1>3 DEF Consistent, Projected
<1>9. n2.objectives \subseteq n.objectives \cup {d \in Obj : Adding(Head(p), d)}
  BY <1>1, <1>3 DEF Adding
<1> QED
  BY <1>2, <1>3, <1>4, <1>5, <1>6, <1>7, <1>8, <1>9 DEF Lowered, Consistent, k2, n2

\* A cost set, or removed by setting it to 0.
LEMMA CostFits ==
    ASSUME NEW p \in Seq(Ops), p # <<>>, NEW k \in Compilers, NEW n, NativeTyped(n),
           Consistent(k, n),
           NEW x \in Int,
           Head(p).kind \in {"SetCell", "RemoveCell"},
           Head(p).target \in Obj,
           CellWrites(Head(p).target, Head(p).var)[Head(p)] = {x}
    PROVE  LET k2 == [k EXCEPT !.terms[Head(p).target][Head(p).var] = x]
               n2 == SetCost(n, Head(p).target, Head(p).var, x)
           IN Lowered(p, k, n, k2, n2)
<1> DEFINE op == Head(p)
           o == op.target
           v == op.var
           k2 == [k EXCEPT !.terms[Head(p).target][Head(p).var] = x]
           n2 == SetCost(n, Head(p).target, Head(p).var, x)
<1>1. /\ op \in Ops /\ op.kind \in {"SetCell", "RemoveCell"} /\ o \in Obj /\ v \in Var
      /\ \A c \in Con : c # o
  BY DroppedOp, OpFields, NamesAssumption
<1>2. /\ k2 \in Compilers
      /\ k2.terms = [k.terms EXCEPT ![o] = [k.terms[o] EXCEPT ![v] = x]]
      /\ k2.variables = k.variables /\ k2.activity = k.activity /\ k2.rows = k.rows
      /\ k2.objectives = k.objectives /\ k2.charges = k.charges
      /\ k2.constants = k.constants /\ k2.policy = k.policy
      /\ k2.dependencies = k.dependencies
  BY <1>1 DEF Compilers
<1>3. /\ NativeTyped(n2)
      /\ n2.costs = [n.costs EXCEPT ![o] = [n.costs[o] EXCEPT ![v] = x]]
      /\ n2.colCost = [n.colCost EXCEPT ![v] = IF n.active = o THEN x ELSE n.colCost[v]]
      /\ n2.cols = n.cols /\ n2.rows = n.rows /\ n2.coeff = n.coeff
      /\ n2.objectives = n.objectives /\ n2.penalties = n.penalties
      /\ n2.offsets = n.offsets /\ n2.generated = n.generated /\ n2.active = n.active
      /\ n2.charged = n.charged /\ n2.offset = n.offset
  BY <1>1 DEF NativeTyped, SetCost
<1> HIDE DEF k2, n2
<1>4. ASSUME Fits(p, k, n)
      PROVE  Fits(Tail(p), k2, n2)
  <2>1. ColumnsLand(Tail(p), k2, n2)
    BY <1>4, <1>1, <1>2, <1>3, ColumnsKept DEF Fits, ColumnsSame, ColumnKinds
  <2>2. RowsLand(Tail(p), n2)
    BY <1>4, <1>1, <1>2, <1>3, RowsKept DEF Fits, RowsSame, RowKinds
  <2>3. CellsLand(Tail(p), k2, n2)
    <3>1. ASSUME NEW c \in Con, NEW u \in Var
          PROVE  CoeffLands(Tail(p), n2, c, u, cells[c][u])
      <4>1. CoeffLands(p, n, c, u, cells[c][u])
        BY <1>4 DEF Fits, CellsLand
      <4> QED
        BY <1>1, <1>3, <4>1, CoeffLowered
    <3>2. ASSUME NEW d \in Obj, NEW u \in Var
          PROVE  CostLands(Tail(p), k2, n2, d, u, cells[d][u])
      <4>1. CostLands(p, k, n, d, u, cells[d][u])
        BY <1>4 DEF Fits, CellsLand
      <4>2. CASE d = o /\ u = v
        <5>1. CostWrites(d, u)[op] = {x} /\ TermWrites(d, u)[op] = {x}
          BY <1>1, <4>2 DEF CostWrites, TermWrites
        <5>2. n2.costs[d][u] = x
          BY <1>1, <1>3, <4>2 DEF NativeTyped
        <5>3. k2.terms[d][u] = x
          BY <1>1, <1>2, <4>2 DEF Compilers
        <5> QED
          BY <4>1, <5>1, <5>2, <5>3, LandsLowered DEF CostLands
      <4>3. CASE d # o \/ u # v
        <5>1. n2.costs[d][u] = n.costs[d][u]
          BY <1>1, <1>3, <4>3 DEF NativeTyped
        <5>2. k2.terms[d][u] = k.terms[d][u]
          BY <1>1, <1>2, <4>3 DEF Compilers
        <5> QED
          BY <1>1, <4>1, <4>3, <5>1, <5>2, CostLowered
      <4> QED
        BY <4>2, <4>3
    <3> QED
      BY <3>1, <3>2 DEF CellsLand
  <2>4. ObjectivesLand(Tail(p), k2, n2)
    BY <1>4, <1>1, <1>2, <1>3, ObjectivesKept DEF Fits, ObjectivesSame, ObjectiveKinds
  <2>5. PenaltiesLand(Tail(p), k2, n2)
    BY <1>4, <1>1, <1>2, <1>3, PenaltiesKept DEF Fits, PenaltiesSame, ChargeKinds
  <2>6. ConstructsFit(n2)
    BY <1>4, <1>3, ConstructsKept DEF Fits, ConstructsSame
  <2> QED
    BY <2>1, <2>2, <2>3, <2>4, <2>5, <2>6 DEF Fits
<1>5. ColumnsAgree(k2, n2)
  BY <1>2, <1>3 DEF Consistent, ColumnsAgree
<1>6. RowsAgree(k2, n2)
  BY <1>2, <1>3 DEF Consistent, RowsAgree
<1>7. ObjectivesAgree(k2, n2)
  BY <1>2, <1>3 DEF Consistent, ObjectivesAgree
<1>8. Projected(n2)
  <2>1. CASE n.active = o
    <3>1. n.colCost = n.costs[o] /\ o # None
      BY <1>1, <2>1, NoneAssumption DEF Consistent, Projected
    <3>2. /\ n2.colCost = [n.costs[o] EXCEPT ![v] = x]
          /\ n2.costs[o] = [n.costs[o] EXCEPT ![v] = x]
          /\ n2.active = o
      BY <1>1, <1>3, <2>1, <3>1 DEF NativeTyped
    <3> QED
      BY <3>1, <3>2, <2>1, <1>3 DEF Consistent, Projected
  <2>2. CASE n.active # o
    <3>1. n2.colCost = n.colCost
      BY <1>1, <1>3, <2>2 DEF NativeTyped
    <3>2. n.active # None => n2.costs[n2.active] = n.costs[n.active]
      BY <1>1, <1>3, <2>2 DEF NativeTyped
    <3> QED
      BY <3>1, <3>2, <1>3 DEF Consistent, Projected
  <2> QED
    BY <2>1, <2>2
<1>9. n2.objectives \subseteq n.objectives \cup {d \in Obj : Adding(Head(p), d)}
  BY <1>1, <1>3 DEF Adding
<1> QED
  BY <1>2, <1>3, <1>4, <1>5, <1>6, <1>7, <1>8, <1>9 DEF Lowered, Consistent, k2, n2

LEMMA AddObjectiveFits ==
    ASSUME NEW p \in Seq(Ops), p # <<>>, NEW k \in Compilers, NEW n, NativeTyped(n),
           Consistent(k, n),
           Head(p).kind = "AddObjective",
           Head(p).obj \in used \ n.objectives
    PROVE  LET k2 == [k EXCEPT !.objectives = @ \cup {Head(p).obj}]
               n2 == AddObjectiveTo(n, Head(p).obj)
           IN Lowered(p, k, n, k2, n2)
<1> DEFINE op == Head(p)
           o == op.obj
           k2 == [k EXCEPT !.objectives = @ \cup {Head(p).obj}]
           n2 == AddObjectiveTo(n, Head(p).obj)
<1>1. /\ op \in Ops /\ op.kind = "AddObjective" /\ o \in Obj
  BY DroppedOp, OpFields
<1>2. /\ k2 \in Compilers /\ k2.objectives = k.objectives \cup {o}
      /\ k2.variables = k.variables /\ k2.activity = k.activity /\ k2.rows = k.rows
      /\ k2.terms = k.terms /\ k2.charges = k.charges /\ k2.constants = k.constants
      /\ k2.policy = k.policy /\ k2.dependencies = k.dependencies
  BY <1>1 DEF Compilers
<1>3. /\ NativeTyped(n2) /\ n2.objectives = n.objectives \cup {o}
      /\ n2.costs = [n.costs EXCEPT ![o] = NoCosts]
      /\ n2.penalties = [n.penalties EXCEPT ![o] = {}]
      /\ n2.offsets = [n.offsets EXCEPT ![o] = 0] /\ n2.cols = n.cols
      /\ n2.rows = n.rows /\ n2.coeff = n.coeff /\ n2.generated = n.generated
      /\ n2.active = n.active /\ n2.colCost = n.colCost /\ n2.charged = n.charged
      /\ n2.offset = n.offset
  <2>1. /\ DOMAIN n2 = DOMAIN n /\ n2.objectives = n.objectives \cup {o}
        /\ n2.costs = [n.costs EXCEPT ![o] = NoCosts]
        /\ n2.penalties = [n.penalties EXCEPT ![o] = {}]
        /\ n2.offsets = [n.offsets EXCEPT ![o] = 0] /\ n2.cols = n.cols
        /\ n2.rows = n.rows /\ n2.coeff = n.coeff /\ n2.generated = n.generated
        /\ n2.active = n.active /\ n2.colCost = n.colCost /\ n2.charged = n.charged
        /\ n2.offset = n.offset
    BY <1>1 DEF NativeTyped, AddObjectiveTo
  <2>2. [n.costs EXCEPT ![o] = NoCosts] \in [Obj -> [Var -> Int]]
    BY <1>1, ZeroCosts DEF NativeTyped
  <2>3. [n.penalties EXCEPT ![o] = {}] \in [Obj -> SUBSET Construct]
    BY <1>1, ZeroCosts DEF NativeTyped
  <2>4. [n.offsets EXCEPT ![o] = 0] \in [Obj -> Int]
    BY <1>1, ZeroCosts DEF NativeTyped
  <2>5. NativeTyped(n2)
    BY <1>1, <2>1, <2>2, <2>3, <2>4, ZeroCosts DEF NativeTyped
  <2> QED
    BY <2>1, <2>5
<1> HIDE DEF k2, n2
<1>4. ASSUME Fits(p, k, n)
      PROVE  Fits(Tail(p), k2, n2)
  <2>1. ColumnsLand(Tail(p), k2, n2)
    BY <1>4, <1>1, <1>2, <1>3, ColumnsKept DEF Fits, ColumnsSame, ColumnKinds
  <2>2. RowsLand(Tail(p), n2)
    BY <1>4, <1>1, <1>2, <1>3, RowsKept DEF Fits, RowsSame, RowKinds
  <2>3. CellsLand(Tail(p), k2, n2)
    <3>1. ASSUME NEW c \in Con, NEW u \in Var
          PROVE  CoeffLands(Tail(p), n2, c, u, cells[c][u])
      <4>1. CoeffLands(p, n, c, u, cells[c][u])
        BY <1>4 DEF Fits, CellsLand
      <4> QED
        BY <1>1, <1>3, <4>1, CoeffLowered
    <3>2. ASSUME NEW d \in Obj, NEW u \in Var
          PROVE  CostLands(Tail(p), k2, n2, d, u, cells[d][u])
      <4>1. CostLands(p, k, n, d, u, cells[d][u])
        BY <1>4 DEF Fits, CellsLand
      <4>2. CASE d = o
        <5>1. CostWrites(d, u)[op] = {0} /\ TermWrites(d, u)[op] = {}
          BY <1>1, <4>2 DEF CostWrites, TermWrites, CellWrites
        <5>2. n2.costs[d][u] = 0
          BY <1>1, <1>3, <4>2, ZeroCosts DEF NativeTyped
        <5>3. k2.terms[d][u] = k.terms[d][u]
          BY <1>1, <1>2, <4>2, ZeroCosts DEF Compilers
        <5> QED
          BY <4>1, <5>1, <5>2, <5>3, LandsLowered DEF CostLands
      <4>3. CASE d # o
        <5>1. n2.costs[d][u] = n.costs[d][u]
          BY <1>1, <1>3, <4>3 DEF NativeTyped
        <5>2. k2.terms[d][u] = k.terms[d][u]
          BY <1>1, <1>2, <4>3 DEF Compilers
        <5> QED
          BY <1>1, <4>1, <4>3, <5>1, <5>2, CostLowered
      <4> QED
        BY <4>2, <4>3
    <3> QED
      BY <3>1, <3>2 DEF CellsLand
  <2>4. ObjectivesLand(Tail(p), k2, n2)
    <3>1. ASSUME NEW d \in Obj
          PROVE  ObjectiveLands(Tail(p), k2, n2, d, objectives[d])
      <4>1. ObjectiveLands(p, k, n, d, objectives[d])
        BY <1>4 DEF Fits, ObjectivesLand
      <4>2. CASE d = o
        <5>1. /\ ObjectiveWrites(d)[op] = {1} /\ OffsetWrites(d)[op] = {0}
              /\ ConstantWrites(d)[op] = {}
          BY <1>1, <4>2 DEF ObjectiveWrites, OffsetWrites, ConstantWrites
        <5>2. Flag(d \in n2.objectives) = 1 /\ n2.offsets[d] = 0
          BY <1>1, <1>3, <4>2 DEF NativeTyped, Flag
        <5> QED
          BY <1>2, <4>1, <5>1, <5>2, LandsLowered DEF ObjectiveLands
      <4>3. CASE d # o
        <5>1. /\ d \in n2.objectives <=> d \in n.objectives
              /\ n2.offsets[d] = n.offsets[d]
          BY <1>1, <1>3, <4>3 DEF NativeTyped
        <5>2. k2.constants[d] = k.constants[d]
          BY <1>1, <1>2, <4>3 DEF Compilers
        <5> QED
          BY <1>1, <4>1, <4>3, <5>1, <5>2, ObjectiveLowered
      <4> QED
        BY <4>2, <4>3
    <3>2. ASSUME NEW d \in Obj
          PROVE  PolicyLands(Tail(p), k2, d, active)
      <4>1. PolicyLands(p, k, d, active)
        BY <1>4 DEF Fits, ObjectivesLand
      <4> QED
        BY <1>1, <1>2, <4>1, PolicyLowered
    <3> QED
      BY <3>1, <3>2 DEF ObjectivesLand
  <2>5. PenaltiesLand(Tail(p), k2, n2)
    <3> SUFFICES ASSUME NEW d \in Obj, d \in LiveObjs \/ d \notin used
                 PROVE  ChargesLand(Tail(p), k2, n2, d, Charging(d))
      BY DEF PenaltiesLand
    <3>1. ChargesLand(p, k, n, d, Charging(d))
      BY <1>4 DEF Fits, PenaltiesLand
    <3>2. CASE d = o
      <4>1. PenaltyWrites(d)[op] = {{}} /\ ChargeWrites(d)[op] = {}
        BY <1>1, <3>2 DEF PenaltyWrites, ChargeWrites
      <4>2. n2.penalties[d] = {}
        BY <1>1, <1>3, <3>2 DEF NativeTyped
      <4>3. k2.charges[d] = k.charges[d]
        BY <1>1, <1>2, <3>2 DEF Compilers
      <4> QED
        BY <3>1, <4>1, <4>2, <4>3, LandsLowered DEF ChargesLand
    <3>3. CASE d # o
      <4>1. n2.penalties[d] = n.penalties[d]
        BY <1>1, <1>3, <3>3 DEF NativeTyped
      <4>2. k2.charges[d] = k.charges[d]
        BY <1>1, <1>2, <3>3 DEF Compilers
      <4> QED
        BY <3>1, <3>3, <4>1, <4>2, ChargesLowered
    <3> QED
      BY <3>2, <3>3
  <2>6. ConstructsFit(n2)
    BY <1>4, <1>3, ConstructsKept DEF Fits, ConstructsSame
  <2> QED
    BY <2>1, <2>2, <2>3, <2>4, <2>5, <2>6 DEF Fits
<1>5. ColumnsAgree(k2, n2)
  BY <1>2, <1>3 DEF Consistent, ColumnsAgree
<1>6. RowsAgree(k2, n2)
  BY <1>2, <1>3 DEF Consistent, RowsAgree
<1>7. ObjectivesAgree(k2, n2)
  BY <1>1, <1>2, <1>3 DEF Consistent, ObjectivesAgree
<1>8. Projected(n2)
  <2>1. n.active # None => n.active \in Obj /\ n.active # o
    BY DEF Consistent, ObjectivesAgree, NativeTyped
  <2>2. n.active # None =>
           /\ n2.costs[n.active] = n.costs[n.active]
           /\ n2.penalties[n.active] = n.penalties[n.active]
           /\ n2.offsets[n.active] = n.offsets[n.active]
    BY <1>1, <1>3, <2>1 DEF NativeTyped
  <2> QED
    BY <1>3, <2>2 DEF Consistent, Projected
<1>9. n2.objectives \subseteq n.objectives \cup {d \in Obj : Adding(Head(p), d)}
  BY <1>1, <1>3 DEF Adding
<1> QED
  BY <1>2, <1>3, <1>4, <1>5, <1>6, <1>7, <1>8, <1>9 DEF Lowered, Consistent, k2, n2

LEMMA RemoveObjectiveFits ==
    ASSUME NEW p \in Seq(Ops), p # <<>>, NEW k \in Compilers, NEW n, NativeTyped(n),
           Consistent(k, n),
           Head(p).kind = "RemoveObjective"
    PROVE  LET k2 == [k EXCEPT !.objectives = @ \ {Head(p).obj}, !.terms[Head(p).obj] = NoCosts,
                               !.charges[Head(p).obj] = {}, !.constants[Head(p).obj] = 0,
                               !.policy = IF k.policy = Head(p).obj THEN None ELSE @]
               n2 == IF k.policy = Head(p).obj
                     THEN Project(RemoveObjectiveFrom(n, Head(p).obj), None)
                     ELSE RemoveObjectiveFrom(n, Head(p).obj)
           IN Lowered(p, k, n, k2, n2)
<1> DEFINE op == Head(p)
           o == op.obj
           k2 == [k EXCEPT !.objectives = @ \ {Head(p).obj}, !.terms[Head(p).obj] = NoCosts,
                               !.charges[Head(p).obj] = {}, !.constants[Head(p).obj] = 0,
                               !.policy = IF k.policy = Head(p).obj THEN None ELSE @]
           n2 == IF k.policy = Head(p).obj
                     THEN Project(RemoveObjectiveFrom(n, Head(p).obj), None)
                     ELSE RemoveObjectiveFrom(n, Head(p).obj)
<1>1. /\ op \in Ops /\ op.kind = "RemoveObjective" /\ o \in Obj
      /\ k.policy = n.active
  BY DroppedOp, OpFields DEF Consistent, ObjectivesAgree
<1>2. /\ k2 \in Compilers /\ k2.objectives = k.objectives \ {o}
      /\ k2.terms = [k.terms EXCEPT ![o] = NoCosts]
      /\ k2.charges = [k.charges EXCEPT ![o] = {}]
      /\ k2.constants = [k.constants EXCEPT ![o] = 0]
      /\ k2.policy = (IF k.policy = o THEN None ELSE k.policy)
      /\ k2.variables = k.variables /\ k2.activity = k.activity /\ k2.rows = k.rows
      /\ k2.dependencies = k.dependencies
  <2>1. /\ k2.objectives = k.objectives \ {o}
        /\ k2.terms = [k.terms EXCEPT ![o] = NoCosts]
        /\ k2.charges = [k.charges EXCEPT ![o] = {}]
        /\ k2.constants = [k.constants EXCEPT ![o] = 0]
        /\ k2.policy = (IF k.policy = o THEN None ELSE k.policy)
        /\ k2.variables = k.variables /\ k2.activity = k.activity /\ k2.rows = k.rows
        /\ k2.dependencies = k.dependencies
    BY DEF Compilers
  <2>2. [k.terms EXCEPT ![o] = NoCosts] \in [Obj -> [Var -> Int]]
    BY <1>1, ZeroCosts DEF Compilers
  <2>3. [k.charges EXCEPT ![o] = {}] \in [Obj -> SUBSET Construct]
    BY <1>1, ZeroCosts DEF Compilers
  <2>4. [k.constants EXCEPT ![o] = 0] \in [Obj -> Int]
    BY <1>1, ZeroCosts DEF Compilers
  <2>5. (IF k.policy = o THEN None ELSE k.policy) \in Obj \cup {None}
    BY <1>1, ZeroCosts DEF Compilers
  <2>6. k2 \in Compilers
    BY <2>2, <2>3, <2>4, <2>5 DEF Compilers
  <2> QED
    BY <2>1, <2>6
<1>3. /\ NativeTyped(n2) /\ n2.objectives = n.objectives \ {o}
      /\ n2.costs = [n.costs EXCEPT ![o] = NoCosts]
      /\ n2.penalties = [n.penalties EXCEPT ![o] = {}]
      /\ n2.offsets = [n.offsets EXCEPT ![o] = 0]
      /\ n2.active = (IF n.active = o THEN None ELSE n.active)
      /\ n2.colCost = (IF n.active = o THEN NoCosts ELSE n.colCost)
      /\ n2.charged = (IF n.active = o THEN {} ELSE n.charged)
      /\ n2.offset = (IF n.active = o THEN 0 ELSE n.offset) /\ n2.cols = n.cols
      /\ n2.rows = n.rows /\ n2.coeff = n.coeff /\ n2.generated = n.generated
  <2>1. /\ DOMAIN n2 = DOMAIN n /\ n2.objectives = n.objectives \ {o}
        /\ n2.costs = [n.costs EXCEPT ![o] = NoCosts]
        /\ n2.penalties = [n.penalties EXCEPT ![o] = {}]
        /\ n2.offsets = [n.offsets EXCEPT ![o] = 0]
        /\ n2.active = (IF n.active = o THEN None ELSE n.active)
        /\ n2.colCost = (IF n.active = o THEN NoCosts ELSE n.colCost)
        /\ n2.charged = (IF n.active = o THEN {} ELSE n.charged)
        /\ n2.offset = (IF n.active = o THEN 0 ELSE n.offset) /\ n2.cols = n.cols
        /\ n2.rows = n.rows /\ n2.coeff = n.coeff /\ n2.generated = n.generated
    BY <1>1, NoneAssumption DEF NativeTyped, RemoveObjectiveFrom, Project, WithoutCosts
  <2>2. [n.costs EXCEPT ![o] = NoCosts] \in [Obj -> [Var -> Int]]
    BY <1>1, ZeroCosts DEF NativeTyped
  <2>3. [n.penalties EXCEPT ![o] = {}] \in [Obj -> SUBSET Construct]
    BY <1>1, ZeroCosts DEF NativeTyped
  <2>4. [n.offsets EXCEPT ![o] = 0] \in [Obj -> Int]
    BY <1>1, ZeroCosts DEF NativeTyped
  <2>5. NativeTyped(n2)
    BY <1>1, <2>1, <2>2, <2>3, <2>4, ZeroCosts DEF NativeTyped
  <2> QED
    BY <2>1, <2>5
<1> HIDE DEF k2, n2
<1>4. ASSUME Fits(p, k, n)
      PROVE  Fits(Tail(p), k2, n2)
  <2>1. ColumnsLand(Tail(p), k2, n2)
    BY <1>4, <1>1, <1>2, <1>3, ColumnsKept DEF Fits, ColumnsSame, ColumnKinds
  <2>2. RowsLand(Tail(p), n2)
    BY <1>4, <1>1, <1>2, <1>3, RowsKept DEF Fits, RowsSame, RowKinds
  <2>3. CellsLand(Tail(p), k2, n2)
    <3>1. ASSUME NEW c \in Con, NEW u \in Var
          PROVE  CoeffLands(Tail(p), n2, c, u, cells[c][u])
      <4>1. CoeffLands(p, n, c, u, cells[c][u])
        BY <1>4 DEF Fits, CellsLand
      <4> QED
        BY <1>1, <1>3, <4>1, CoeffLowered
    <3>2. ASSUME NEW d \in Obj, NEW u \in Var
          PROVE  CostLands(Tail(p), k2, n2, d, u, cells[d][u])
      <4>1. CostLands(p, k, n, d, u, cells[d][u])
        BY <1>4 DEF Fits, CellsLand
      <4>2. CASE d = o
        <5>1. CostWrites(d, u)[op] = {0} /\ TermWrites(d, u)[op] = {0}
          BY <1>1, <4>2 DEF CostWrites, TermWrites, CellWrites
        <5>2. n2.costs[d][u] = 0
          BY <1>1, <1>3, <4>2, ZeroCosts DEF NativeTyped
        <5>3. k2.terms[d][u] = 0
          BY <1>1, <1>2, <4>2, ZeroCosts DEF Compilers
        <5> QED
          BY <4>1, <5>1, <5>2, <5>3, LandsLowered DEF CostLands
      <4>3. CASE d # o
        <5>1. n2.costs[d][u] = n.costs[d][u]
          BY <1>1, <1>3, <4>3 DEF NativeTyped
        <5>2. k2.terms[d][u] = k.terms[d][u]
          BY <1>1, <1>2, <4>3 DEF Compilers
        <5> QED
          BY <1>1, <4>1, <4>3, <5>1, <5>2, CostLowered
      <4> QED
        BY <4>2, <4>3
    <3> QED
      BY <3>1, <3>2 DEF CellsLand
  <2>4. ObjectivesLand(Tail(p), k2, n2)
    <3>1. ASSUME NEW d \in Obj
          PROVE  ObjectiveLands(Tail(p), k2, n2, d, objectives[d])
      <4>1. ObjectiveLands(p, k, n, d, objectives[d])
        BY <1>4 DEF Fits, ObjectivesLand
      <4>2. CASE d = o
        <5>1. /\ ObjectiveWrites(d)[op] = {0} /\ OffsetWrites(d)[op] = {0}
              /\ ConstantWrites(d)[op] = {0}
          BY <1>1, <4>2 DEF ObjectiveWrites, OffsetWrites, ConstantWrites
        <5>2. Flag(d \in n2.objectives) = 0 /\ n2.offsets[d] = 0
          BY <1>1, <1>3, <4>2 DEF NativeTyped, Flag
        <5>3. k2.constants[d] = 0
          BY <1>1, <1>2, <4>2 DEF Compilers
        <5> QED
          BY <4>1, <5>1, <5>2, <5>3, LandsLowered DEF ObjectiveLands
      <4>3. CASE d # o
        <5>1. /\ d \in n2.objectives <=> d \in n.objectives
              /\ n2.offsets[d] = n.offsets[d]
          BY <1>1, <1>3, <4>3 DEF NativeTyped
        <5>2. k2.constants[d] = k.constants[d]
          BY <1>1, <1>2, <4>3 DEF Compilers
        <5> QED
          BY <1>1, <4>1, <4>3, <5>1, <5>2, ObjectiveLowered
      <4> QED
        BY <4>2, <4>3
    <3>2. ASSUME NEW d \in Obj
          PROVE  PolicyLands(Tail(p), k2, d, active)
      <4>1. PolicyLands(p, k, d, active)
        BY <1>4 DEF Fits, ObjectivesLand
      <4>2. CASE d = o
        <5>1. PolicyWrites(d)[op] = {0}
          BY <1>1, <4>2 DEF PolicyWrites
        <5>2. Flag(k2.policy = d) = 0
          BY <1>1, <1>2, <4>2, NoneAssumption DEF Flag
        <5> QED
          BY <4>1, <5>1, <5>2, LandsLowered DEF PolicyLands
      <4>3. CASE d # o
        <5>1. k2.policy = d <=> k.policy = d
          BY <1>1, <1>2, <4>3, NoneAssumption
        <5> QED
          BY <1>1, <4>1, <4>3, <5>1, PolicyLowered
      <4> QED
        BY <4>2, <4>3
    <3> QED
      BY <3>1, <3>2 DEF ObjectivesLand
  <2>5. PenaltiesLand(Tail(p), k2, n2)
    <3> SUFFICES ASSUME NEW d \in Obj, d \in LiveObjs \/ d \notin used
                 PROVE  ChargesLand(Tail(p), k2, n2, d, Charging(d))
      BY DEF PenaltiesLand
    <3>1. ChargesLand(p, k, n, d, Charging(d))
      BY <1>4 DEF Fits, PenaltiesLand
    <3>2. CASE d = o
      <4>1. PenaltyWrites(d)[op] = {{}} /\ ChargeWrites(d)[op] = {{}}
        BY <1>1, <3>2 DEF PenaltyWrites, ChargeWrites
      <4>2. n2.penalties[d] = {}
        BY <1>1, <1>3, <3>2 DEF NativeTyped
      <4>3. k2.charges[d] = {}
        BY <1>1, <1>2, <3>2 DEF Compilers
      <4> QED
        BY <3>1, <4>1, <4>2, <4>3, LandsLowered DEF ChargesLand
    <3>3. CASE d # o
      <4>1. n2.penalties[d] = n.penalties[d]
        BY <1>1, <1>3, <3>3 DEF NativeTyped
      <4>2. k2.charges[d] = k.charges[d]
        BY <1>1, <1>2, <3>3 DEF Compilers
      <4> QED
        BY <3>1, <3>3, <4>1, <4>2, ChargesLowered
    <3> QED
      BY <3>2, <3>3
  <2>6. ConstructsFit(n2)
    BY <1>4, <1>3, ConstructsKept DEF Fits, ConstructsSame
  <2> QED
    BY <2>1, <2>2, <2>3, <2>4, <2>5, <2>6 DEF Fits
<1>5. ColumnsAgree(k2, n2)
  BY <1>2, <1>3 DEF Consistent, ColumnsAgree
<1>6. RowsAgree(k2, n2)
  BY <1>2, <1>3 DEF Consistent, RowsAgree
<1>7. ObjectivesAgree(k2, n2)
  BY <1>1, <1>2, <1>3 DEF Consistent, ObjectivesAgree
<1>8. Projected(n2)
  <2>1. CASE n.active = o
    BY <1>3, <2>1 DEF Projected
  <2>2. CASE n.active # o
    <3>1. n.active # None => n.active \in Obj
      BY DEF NativeTyped
    <3>2. n.active # None =>
             /\ n2.costs[n.active] = n.costs[n.active]
             /\ n2.penalties[n.active] = n.penalties[n.active]
             /\ n2.offsets[n.active] = n.offsets[n.active]
      BY <1>1, <1>3, <2>2, <3>1 DEF NativeTyped
    <3> QED
      BY <1>3, <2>2, <3>2 DEF Consistent, Projected
  <2> QED
    BY <2>1, <2>2
<1>9. n2.objectives \subseteq n.objectives \cup {d \in Obj : Adding(Head(p), d)}
  BY <1>1, <1>3 DEF Adding
<1> QED
  BY <1>2, <1>3, <1>4, <1>5, <1>6, <1>7, <1>8, <1>9 DEF Lowered, Consistent, k2, n2

LEMMA ActiveObjectiveFits ==
    ASSUME NEW p \in Seq(Ops), p # <<>>, NEW k \in Compilers, NEW n, NativeTyped(n),
           Consistent(k, n),
           Head(p).kind = "SetActiveObjective",
           Head(p).obj \in k.objectives \cup {None}
    PROVE  LET k2 == [k EXCEPT !.policy = Head(p).obj]
               n2 == Project(n, Head(p).obj)
           IN Lowered(p, k, n, k2, n2)
<1> DEFINE op == Head(p)
           o == op.obj
           k2 == [k EXCEPT !.policy = Head(p).obj]
           n2 == Project(n, Head(p).obj)
<1>1. /\ op \in Ops /\ op.kind = "SetActiveObjective" /\ o \in n.objectives \cup {None}
      /\ n.objectives \subseteq Obj
  BY DroppedOp, OpFields DEF Consistent, ObjectivesAgree, NativeTyped
<1>2. /\ k2 \in Compilers /\ k2.policy = o /\ k2.variables = k.variables
      /\ k2.activity = k.activity /\ k2.rows = k.rows /\ k2.objectives = k.objectives
      /\ k2.terms = k.terms /\ k2.charges = k.charges /\ k2.constants = k.constants
      /\ k2.dependencies = k.dependencies
  BY <1>1 DEF Compilers
<1>3. /\ NativeTyped(n2) /\ n2.active = o
      /\ n2.colCost = (IF o = None THEN NoCosts ELSE n.costs[o])
      /\ n2.charged = (IF o = None THEN {} ELSE n.penalties[o])
      /\ n2.offset = (IF o = None THEN 0 ELSE n.offsets[o]) /\ n2.cols = n.cols
      /\ n2.rows = n.rows /\ n2.coeff = n.coeff /\ n2.objectives = n.objectives
      /\ n2.costs = n.costs /\ n2.penalties = n.penalties /\ n2.offsets = n.offsets
      /\ n2.generated = n.generated
  <2>1. /\ DOMAIN n2 = DOMAIN n /\ n2.active = o
        /\ n2.colCost = (IF o = None THEN NoCosts ELSE n.costs[o])
        /\ n2.charged = (IF o = None THEN {} ELSE n.penalties[o])
        /\ n2.offset = (IF o = None THEN 0 ELSE n.offsets[o]) /\ n2.cols = n.cols
        /\ n2.rows = n.rows /\ n2.coeff = n.coeff /\ n2.objectives = n.objectives
        /\ n2.costs = n.costs /\ n2.penalties = n.penalties /\ n2.offsets = n.offsets
        /\ n2.generated = n.generated
    BY <1>1 DEF NativeTyped, Project, WithoutCosts
  <2>2. NativeTyped(n2)
    BY <1>1, <2>1, ZeroCosts DEF NativeTyped
  <2> QED
    BY <2>1, <2>2
<1> HIDE DEF k2, n2
<1>4. ASSUME Fits(p, k, n)
      PROVE  Fits(Tail(p), k2, n2)
  <2>1. ColumnsLand(Tail(p), k2, n2)
    BY <1>4, <1>1, <1>2, <1>3, ColumnsKept DEF Fits, ColumnsSame, ColumnKinds
  <2>2. RowsLand(Tail(p), n2)
    BY <1>4, <1>1, <1>2, <1>3, RowsKept DEF Fits, RowsSame, RowKinds
  <2>3. CellsLand(Tail(p), k2, n2)
    BY <1>4, <1>1, <1>2, <1>3, CellsKept DEF Fits, CellsSame, CellKinds
  <2>4. ObjectivesLand(Tail(p), k2, n2)
    <3>1. ASSUME NEW d \in Obj
          PROVE  ObjectiveLands(Tail(p), k2, n2, d, objectives[d])
      <4>1. ObjectiveLands(p, k, n, d, objectives[d])
        BY <1>4 DEF Fits, ObjectivesLand
      <4>2. n2.offsets[d] = n.offsets[d] /\ k2.constants[d] = k.constants[d]
        BY <1>2, <1>3
      <4> QED
        BY <1>1, <1>3, <4>1, <4>2, ObjectiveLowered
    <3>2. ASSUME NEW d \in Obj
          PROVE  PolicyLands(Tail(p), k2, d, active)
      <4>1. PolicyLands(p, k, d, active)
        BY <1>4 DEF Fits, ObjectivesLand
      <4>2. PolicyWrites(d)[op] = {Flag(k2.policy = d)}
        BY <1>1, <1>2 DEF PolicyWrites
      <4> QED
        BY <4>1, <4>2, LandsLowered DEF PolicyLands
    <3> QED
      BY <3>1, <3>2 DEF ObjectivesLand
  <2>5. PenaltiesLand(Tail(p), k2, n2)
    BY <1>4, <1>1, <1>2, <1>3, PenaltiesKept DEF Fits, PenaltiesSame, ChargeKinds
  <2>6. ConstructsFit(n2)
    BY <1>4, <1>3, ConstructsKept DEF Fits, ConstructsSame
  <2> QED
    BY <2>1, <2>2, <2>3, <2>4, <2>5, <2>6 DEF Fits
<1>5. ColumnsAgree(k2, n2)
  BY <1>2, <1>3 DEF Consistent, ColumnsAgree
<1>6. RowsAgree(k2, n2)
  BY <1>2, <1>3 DEF Consistent, RowsAgree
<1>7. ObjectivesAgree(k2, n2)
  BY <1>1, <1>2, <1>3 DEF Consistent, ObjectivesAgree
<1>8. Projected(n2)
  BY <1>3 DEF Projected
<1>9. n2.objectives \subseteq n.objectives \cup {d \in Obj : Adding(Head(p), d)}
  BY <1>1, <1>3 DEF Adding
<1> QED
  BY <1>2, <1>3, <1>4, <1>5, <1>6, <1>7, <1>8, <1>9 DEF Lowered, Consistent, k2, n2

LEMMA ObjectiveConstantFits ==
    ASSUME NEW p \in Seq(Ops), p # <<>>, NEW k \in Compilers, NEW n, NativeTyped(n),
           Consistent(k, n),
           Head(p).kind = "SetObjectiveConstant"
    PROVE  LET k2 == [k EXCEPT !.constants[Head(p).obj] = Head(p).value]
               n2 == SetOffset(n, Head(p).obj, Head(p).value)
           IN Lowered(p, k, n, k2, n2)
<1> DEFINE op == Head(p)
           o == op.obj
           k2 == [k EXCEPT !.constants[Head(p).obj] = Head(p).value]
           n2 == SetOffset(n, Head(p).obj, Head(p).value)
<1>1. /\ op \in Ops /\ op.kind = "SetObjectiveConstant" /\ o \in Obj /\ o # None
      /\ op.value \in Int
  BY DroppedOp, OpFields, NoneAssumption
<1>2. /\ k2 \in Compilers /\ k2.constants = [k.constants EXCEPT ![o] = op.value]
      /\ k2.variables = k.variables /\ k2.activity = k.activity /\ k2.rows = k.rows
      /\ k2.objectives = k.objectives /\ k2.terms = k.terms /\ k2.charges = k.charges
      /\ k2.policy = k.policy /\ k2.dependencies = k.dependencies
  BY <1>1 DEF Compilers
<1>3. /\ NativeTyped(n2) /\ n2.offsets = [n.offsets EXCEPT ![o] = op.value]
      /\ n2.offset = (IF n.active = o THEN op.value ELSE n.offset) /\ n2.cols = n.cols
      /\ n2.rows = n.rows /\ n2.coeff = n.coeff /\ n2.objectives = n.objectives
      /\ n2.costs = n.costs /\ n2.penalties = n.penalties /\ n2.generated = n.generated
      /\ n2.active = n.active /\ n2.colCost = n.colCost /\ n2.charged = n.charged
  <2>1. /\ DOMAIN n2 = DOMAIN n /\ n2.offsets = [n.offsets EXCEPT ![o] = op.value]
        /\ n2.offset = (IF n.active = o THEN op.value ELSE n.offset) /\ n2.cols = n.cols
        /\ n2.rows = n.rows /\ n2.coeff = n.coeff /\ n2.objectives = n.objectives
        /\ n2.costs = n.costs /\ n2.penalties = n.penalties
        /\ n2.generated = n.generated /\ n2.active = n.active /\ n2.colCost = n.colCost
        /\ n2.charged = n.charged
    BY <1>1 DEF NativeTyped, SetOffset
  <2>2. [n.offsets EXCEPT ![o] = op.value] \in [Obj -> Int]
    BY <1>1, ZeroCosts DEF NativeTyped
  <2>3. NativeTyped(n2)
    BY <1>1, <2>1, <2>2, ZeroCosts DEF NativeTyped
  <2> QED
    BY <2>1, <2>3
<1> HIDE DEF k2, n2
<1>4. ASSUME Fits(p, k, n)
      PROVE  Fits(Tail(p), k2, n2)
  <2>1. ColumnsLand(Tail(p), k2, n2)
    BY <1>4, <1>1, <1>2, <1>3, ColumnsKept DEF Fits, ColumnsSame, ColumnKinds
  <2>2. RowsLand(Tail(p), n2)
    BY <1>4, <1>1, <1>2, <1>3, RowsKept DEF Fits, RowsSame, RowKinds
  <2>3. CellsLand(Tail(p), k2, n2)
    BY <1>4, <1>1, <1>2, <1>3, CellsKept DEF Fits, CellsSame, CellKinds
  <2>4. ObjectivesLand(Tail(p), k2, n2)
    <3>1. ASSUME NEW d \in Obj
          PROVE  ObjectiveLands(Tail(p), k2, n2, d, objectives[d])
      <4>1. ObjectiveLands(p, k, n, d, objectives[d])
        BY <1>4 DEF Fits, ObjectivesLand
      <4>2. CASE d = o
        <5>1. /\ ObjectiveWrites(d)[op] = {} /\ OffsetWrites(d)[op] = {op.value}
              /\ ConstantWrites(d)[op] = {op.value}
          BY <1>1, <4>2 DEF ObjectiveWrites, OffsetWrites, ConstantWrites
        <5>2. n2.objectives = n.objectives /\ n2.offsets[d] = op.value
          BY <1>1, <1>3, <4>2 DEF NativeTyped
        <5>3. k2.constants[d] = op.value
          BY <1>1, <1>2, <4>2 DEF Compilers
        <5> QED
          BY <4>1, <5>1, <5>2, <5>3, LandsLowered DEF ObjectiveLands
      <4>3. CASE d # o
        <5>1. /\ d \in n2.objectives <=> d \in n.objectives
              /\ n2.offsets[d] = n.offsets[d]
          BY <1>1, <1>3, <4>3 DEF NativeTyped
        <5>2. k2.constants[d] = k.constants[d]
          BY <1>1, <1>2, <4>3 DEF Compilers
        <5> QED
          BY <1>1, <4>1, <4>3, <5>1, <5>2, ObjectiveLowered
      <4> QED
        BY <4>2, <4>3
    <3>2. ASSUME NEW d \in Obj
          PROVE  PolicyLands(Tail(p), k2, d, active)
      <4>1. PolicyLands(p, k, d, active)
        BY <1>4 DEF Fits, ObjectivesLand
      <4> QED
        BY <1>1, <1>2, <4>1, PolicyLowered
    <3> QED
      BY <3>1, <3>2 DEF ObjectivesLand
  <2>5. PenaltiesLand(Tail(p), k2, n2)
    BY <1>4, <1>1, <1>2, <1>3, PenaltiesKept DEF Fits, PenaltiesSame, ChargeKinds
  <2>6. ConstructsFit(n2)
    BY <1>4, <1>3, ConstructsKept DEF Fits, ConstructsSame
  <2> QED
    BY <2>1, <2>2, <2>3, <2>4, <2>5, <2>6 DEF Fits
<1>5. ColumnsAgree(k2, n2)
  BY <1>2, <1>3 DEF Consistent, ColumnsAgree
<1>6. RowsAgree(k2, n2)
  BY <1>2, <1>3 DEF Consistent, RowsAgree
<1>7. ObjectivesAgree(k2, n2)
  BY <1>1, <1>2, <1>3 DEF Consistent, ObjectivesAgree
<1>8. Projected(n2)
  <2>1. n.active # None => n.active \in Obj
    BY DEF NativeTyped
  <2>2. n.active # None /\ n.active # o => n2.offsets[n.active] = n.offsets[n.active]
    BY <1>1, <1>3, <2>1 DEF NativeTyped
  <2>3. n2.offsets[o] = op.value
    BY <1>1, <1>3 DEF NativeTyped
  <2> QED
    BY <1>1, <1>3, <2>2, <2>3 DEF Consistent, Projected
<1>9. n2.objectives \subseteq n.objectives \cup {d \in Obj : Adding(Head(p), d)}
  BY <1>1, <1>3 DEF Adding
<1> QED
  BY <1>2, <1>3, <1>4, <1>5, <1>6, <1>7, <1>8, <1>9 DEF Lowered, Consistent, k2, n2

-----------------------------------------------------------------------------
(* Lowering steps keep the invariant *)

LEMMA AddedOnceLowered ==
    ASSUME NEW p \in Seq(Ops), p # <<>>, NEW objs, NEW objs2, AddedOnce(p, objs),
           objs2 \subseteq objs \cup {d \in Obj : Adding(Head(p), d)}
    PROVE  AddedOnce(Tail(p), objs2)
<1> SUFFICES ASSUME NEW i \in 1..Len(Tail(p)), NEW o \in Obj, Adding(Tail(p)[i], o)
             PROVE  /\ o \in used
                    /\ o \notin objs2
                    /\ \A j \in 1..Len(Tail(p)) : Adding(Tail(p)[j], o) => j = i
  BY DEF AddedOnce
<1>1. /\ i + 1 \in 1..Len(p) /\ Adding(p[i + 1], o)
      /\ 1 \in 1..Len(p) /\ Head(p) = p[1]
  BY DroppedOp
<1>2. /\ o \in used /\ o \notin objs
      /\ \A j \in 1..Len(p) : Adding(p[j], o) => j = i + 1
  BY <1>1 DEF AddedOnce
<1>3. ~Adding(Head(p), o)
  BY <1>1, <1>2
<1>4. \A j \in 1..Len(Tail(p)) : Adding(Tail(p)[j], o) => j = i
  <2> SUFFICES ASSUME NEW j \in 1..Len(Tail(p)), Adding(Tail(p)[j], o) PROVE j = i
    OBVIOUS
  <2>1. j + 1 \in 1..Len(p) /\ Adding(p[j + 1], o)
    BY DroppedOp
  <2> QED
    BY <2>1, <1>2
<1> QED
  BY <1>2, <1>3, <1>4

LEMMA BlockedLowered ==
    ASSUME NEW p \in Seq(Ops), p # <<>>, ~Blocking(Head(p)), ~Blocked(Tail(p))
    PROVE  ~Blocked(p)
<1> SUFFICES ASSUME NEW i \in 1..Len(p) PROVE ~Blocking(p[i])
  BY DEF Blocked
<1>1. CASE i = 1
  BY <1>1, DroppedOp
<1>2. CASE i # 1
  <2>1. i - 1 \in 1..Len(Tail(p)) /\ Tail(p)[i - 1] = p[i]
    BY <1>2, DroppedOp
  <2> QED
    BY <2>1 DEF Blocked
<1> QED
  BY <1>1, <1>2

\* What compile_delta lowers is no reason to rebuild.
LEMMA LowerableUnblocked ==
    ASSUME SyncTyped, todo # <<>>, Lowerable
    PROVE  ~Blocking(Head(todo))
BY DEF Lowerable, Blocking, Op, Independent, KnownActive, KnownCell

\* The model is not edited: what is read off it stays.
LEMMA ModelSame ==
    ASSUME UNCHANGED <<program, modelVars>>
    PROVE  /\ ModelTyped' <=> ModelTyped
           /\ NamesUsed' <=> NamesUsed
           /\ \A c \in Con : Softened(c)' = Softened(c)
           /\ \A o \in Obj : Charging(o)' = Charging(o)
           /\ \A k \in Construct : Generated(k)' = Generated(k)
           /\ Dependencies' = Dependencies
<1>1. /\ program' = program /\ variables' = variables /\ constraints' = constraints
      /\ objectives' = objectives /\ active' = active /\ cells' = cells
      /\ constructs' = constructs /\ used' = used
  BY DEF modelVars
<1>2. LiveVars' = LiveVars /\ LiveCons' = LiveCons /\ LiveObjs' = LiveObjs
  BY <1>1 DEF LiveVars, LiveCons, LiveObjs
<1>3. ActiveConstructs' = ActiveConstructs
  BY <1>1 DEF ActiveConstructs
<1>4. ModelTyped' <=> ModelTyped
  BY <1>1, <1>2 DEF ModelTyped
<1>5. NamesUsed' <=> NamesUsed
  BY <1>1, <1>2 DEF NamesUsed
<1>6. \A c \in Con : Softened(c)' = Softened(c)
  BY <1>1, <1>3 DEF Softened, Anchored
<1>7. \A o \in Obj : Charging(o)' = Charging(o)
  BY <1>3 DEF Charging
<1>8. \A k \in Construct : Generated(k)' = Generated(k)
  BY <1>1, <1>2, <1>3 DEF Generated, EffectiveBounds
<1>9. Dependencies' = Dependencies
  BY <1>1, <1>3 DEF Dependencies, DependenciesOf, CellsOf
<1> QED
  BY <1>4, <1>5, <1>6, <1>7, <1>8, <1>9

LEMMA FitsSame ==
    ASSUME UNCHANGED <<program, modelVars>>, current'.dependencies = current.dependencies,
           Fits(Pending', Compiler', Backend')
    PROVE  Fits(Pending, Compiler, Backend)'
<1>1. /\ variables' = variables /\ constraints' = constraints /\ objectives' = objectives
      /\ active' = active /\ cells' = cells /\ used' = used
  BY DEF modelVars
<1>2. ColumnsLand(Pending, Compiler, Backend)'
  BY <1>1 DEF Fits, ColumnsLand
<1>3. RowsLand(Pending, Backend)'
  BY <1>1, ModelSame DEF Fits, RowsLand
<1>4. CellsLand(Pending, Compiler, Backend)'
  BY <1>1 DEF Fits, CellsLand
<1>5. ObjectivesLand(Pending, Compiler, Backend)'
  BY <1>1 DEF Fits, ObjectivesLand
<1>6. PenaltiesLand(Pending, Compiler, Backend)'
  BY <1>1, ModelSame DEF Fits, PenaltiesLand, LiveObjs
<1>7. ConstructsFit(Backend)'
  BY ModelSame DEF Fits, ConstructsFit
<1> QED
  BY <1>2, <1>3, <1>4, <1>5, <1>6, <1>7 DEF Fits

LEMMA ConsistentSame ==
    ASSUME NEW k, NEW n, UNCHANGED used
    PROVE  Consistent(k, n)' <=> Consistent(k, n)
BY DEF Consistent, ColumnsAgree, RowsAgree, ObjectivesAgree, Projected

LEMMA LoweringStep ==
    ASSUME IInv, UNCHANGED program, phase = "compiling", todo # <<>>, Lowerable,
           todo' = Tail(todo),
           UNCHANGED <<modelVars, changes, phase, mustRebuild, current, native>>,
           Lowered(todo, work.current, work.native, work'.current, work'.native)
    PROVE  IInv'
<1>1. /\ Pending = todo /\ Compiler = work.current /\ Backend = work.native
      /\ Pending' = Tail(todo) /\ Compiler' = work'.current /\ Backend' = work'.native
  BY DEF Pending, Compiler, Backend
<1>2. todo \in Seq(Ops) /\ Tail(todo) \in Seq(Ops) /\ used' = used
  BY DroppedOp DEF IInv, SyncTyped, modelVars
<1>3. ModelTyped' /\ NamesUsed'
  BY ModelSame DEF IInv
<1>4. SyncTyped'
  BY <1>2 DEF IInv, SyncTyped
<1>5. BasesTyped'
  <2>1. /\ work'.current \in Compilers /\ NativeTyped(work'.native)
        /\ Consistent(work'.current, work'.native)
        /\ work'.current.dependencies = current.dependencies
    BY DEF Lowered, IInv, BasesTyped
  <2>2. current' = current /\ native' = native /\ phase' = phase
    OBVIOUS
  <2>3. Consistent(work.current, work.native)'
    BY <2>1, <1>2 DEF Consistent, ColumnsAgree, RowsAgree, ObjectivesAgree, Projected
  <2>4. Consistent(current, native)'
    BY <2>2, <1>2 DEF IInv, BasesTyped, Consistent, ColumnsAgree, RowsAgree,
       ObjectivesAgree, Projected
  <2>5. NativeTyped(work.native)' /\ NativeTyped(native)'
    BY <2>1, <2>2 DEF IInv, BasesTyped, NativeTyped
  <2> QED
    BY <2>1, <2>2, <2>3, <2>4, <2>5 DEF IInv, BasesTyped
<1>6. AddedOnce(Pending, Backend.objectives)'
  <2>1. AddedOnce(todo, work.native.objectives)
    BY <1>1 DEF IInv
  <2>2. AddedOnce(Tail(todo), work'.native.objectives)
    BY <2>1, <1>2, AddedOnceLowered DEF Lowered
  <2> QED
    BY <2>2, <1>1, <1>2 DEF AddedOnce
<1>7. Fit'
  <2> SUFFICES ASSUME ~mustRebuild', ~Blocked(Pending)'
               PROVE  Fits(Pending, Compiler, Backend)'
    BY DEF Fit
  <2>1. ~Blocked(Tail(todo))
    BY <1>1 DEF Blocked, Blocking
  <2>2. ~Blocked(todo)
    BY <2>1, <1>2, BlockedLowered, LowerableUnblocked DEF IInv
  <2>3. Fits(todo, work.current, work.native)
    BY <2>2, <1>1 DEF IInv, Fit
  <2>4. Fits(Pending', Compiler', Backend')
    BY <2>3, <1>1 DEF Lowered
  <2> QED
    BY <2>4, FitsSame
<1> QED
  BY <1>3, <1>4, <1>5, <1>6, <1>7 DEF IInv

-----------------------------------------------------------------------------
(* The lowering actions *)

LEMMA Copies ==
    ASSUME IInv, phase = "compiling"
    PROVE  /\ todo \in Seq(Ops)
           /\ work.current \in Compilers
           /\ NativeTyped(work.native)
           /\ Consistent(work.current, work.native)
           /\ AddedOnce(todo, work.native.objectives)
BY DEF IInv, SyncTyped, BasesTyped, Pending, Backend

LEMMA LowerAddVariableStep ==
    ASSUME IInv, UNCHANGED program, LowerAddVariable
    PROVE  IInv'
<1>1. /\ phase = "compiling" /\ todo # <<>> /\ Head(todo).kind = "AddVariable" /\ Lowerable
      /\ todo' = Tail(todo)
      /\ UNCHANGED <<modelVars, changes, phase, mustRebuild, current, native>>
  BY DEF LowerAddVariable, Lowering, Emit, Op
<1>2. Head(todo) \in Ops
  BY <1>1, Copies, DroppedOp
<1>3. Lowered(todo, work.current, work.native, work'.current, work'.native)
  BY <1>1, Copies, AddVariableFits DEF LowerAddVariable, Emit, Op, Known
<1> QED
  BY <1>1, <1>3, LoweringStep

LEMMA LowerRemoveVariableStep ==
    ASSUME IInv, UNCHANGED program, LowerRemoveVariable
    PROVE  IInv'
<1>1. /\ phase = "compiling" /\ todo # <<>> /\ Head(todo).kind = "RemoveVariable" /\ Lowerable
      /\ todo' = Tail(todo)
      /\ UNCHANGED <<modelVars, changes, phase, mustRebuild, current, native>>
  BY DEF LowerRemoveVariable, Lowering, Emit, Op
<1>2. Head(todo) \in Ops
  BY <1>1, Copies, DroppedOp
<1>3. Lowered(todo, work.current, work.native, work'.current, work'.native)
  BY <1>1, Copies, RemoveVariableFits DEF LowerRemoveVariable, Emit, Op, Known
<1> QED
  BY <1>1, <1>3, LoweringStep

LEMMA LowerVariableBoundsStep ==
    ASSUME IInv, UNCHANGED program, LowerVariableBounds
    PROVE  IInv'
<1>1. /\ phase = "compiling" /\ todo # <<>> /\ Head(todo).kind = "SetVariableBounds" /\ Lowerable
      /\ todo' = Tail(todo)
      /\ UNCHANGED <<modelVars, changes, phase, mustRebuild, current, native>>
  BY DEF LowerVariableBounds, Lowering, Emit, Op
<1>2. Head(todo) \in Ops
  BY <1>1, Copies, DroppedOp
<1>3. /\ Head(todo).bounds \in SUBSET Value /\ Head(todo).var \in Var
      /\ BoundsWrites(Head(todo).var)[Head(todo)] = {Head(todo).bounds}
  BY <1>1, <1>2, OpFields DEF BoundsWrites
<1>4. Head(todo).var \in work.current.variables /\ work.current.activity[Head(todo).var]
  BY <1>1 DEF Lowerable, KnownActive, Op, Known
<1>5. Lowered(todo, work.current, work.native, work'.current, work'.native)
  BY <1>1, <1>3, <1>4, Copies, ColumnBoundsFit DEF LowerVariableBounds, Emit, Op, Known
<1> QED
  BY <1>1, <1>5, LoweringStep

LEMMA LowerVariableFixingStep ==
    ASSUME IInv, UNCHANGED program, LowerVariableFixing
    PROVE  IInv'
<1>1. /\ phase = "compiling" /\ todo # <<>> /\ Head(todo).kind = "SetVariableFixing" /\ Lowerable
      /\ todo' = Tail(todo)
      /\ UNCHANGED <<modelVars, changes, phase, mustRebuild, current, native>>
  BY DEF LowerVariableFixing, Lowering, Emit, Op
<1>2. Head(todo) \in Ops
  BY <1>1, Copies, DroppedOp
<1>3. /\ Head(todo).effective \in SUBSET Value /\ Head(todo).var \in Var
      /\ BoundsWrites(Head(todo).var)[Head(todo)] = {Head(todo).effective}
  BY <1>1, <1>2, OpFields DEF BoundsWrites
<1>4. Head(todo).var \in work.current.variables /\ work.current.activity[Head(todo).var]
  BY <1>1 DEF Lowerable, KnownActive, Op, Known
<1>5. Lowered(todo, work.current, work.native, work'.current, work'.native)
  BY <1>1, <1>3, <1>4, Copies, ColumnBoundsFit DEF LowerVariableFixing, Emit, Op, Known
<1> QED
  BY <1>1, <1>5, LoweringStep

LEMMA LowerAddRowsStep ==
    ASSUME IInv, UNCHANGED program, LowerAddRows
    PROVE  IInv'
<1>1. /\ phase = "compiling" /\ todo # <<>> /\ Head(todo).kind = "AddLinearRows" /\ Lowerable
      /\ todo' = Tail(todo)
      /\ UNCHANGED <<modelVars, changes, phase, mustRebuild, current, native>>
  BY DEF LowerAddRows, Lowering, Emit, Op
<1>2. Head(todo) \in Ops
  BY <1>1, Copies, DroppedOp
<1>3. Lowered(todo, work.current, work.native, work'.current, work'.native)
  BY <1>1, Copies, AddRowFits DEF LowerAddRows, Emit, Op, Known
<1> QED
  BY <1>1, <1>3, LoweringStep

LEMMA LowerRemoveConstraintStep ==
    ASSUME IInv, UNCHANGED program, LowerRemoveConstraint
    PROVE  IInv'
<1>1. /\ phase = "compiling" /\ todo # <<>> /\ Head(todo).kind = "RemoveConstraint" /\ Lowerable
      /\ todo' = Tail(todo)
      /\ UNCHANGED <<modelVars, changes, phase, mustRebuild, current, native>>
  BY DEF LowerRemoveConstraint, Lowering, Emit, Op
<1>2. Head(todo) \in Ops
  BY <1>1, Copies, DroppedOp
<1>3. Lowered(todo, work.current, work.native, work'.current, work'.native)
  BY <1>1, Copies, RemoveRowFits DEF LowerRemoveConstraint, Emit, Op, Known
<1> QED
  BY <1>1, <1>3, LoweringStep

LEMMA LowerConstraintBoundsStep ==
    ASSUME IInv, UNCHANGED program, LowerConstraintBounds
    PROVE  IInv'
<1>1. /\ phase = "compiling" /\ todo # <<>> /\ Head(todo).kind = "SetConstraintBounds" /\ Lowerable
      /\ todo' = Tail(todo)
      /\ UNCHANGED <<modelVars, changes, phase, mustRebuild, current, native>>
  BY DEF LowerConstraintBounds, Lowering, Emit, Op
<1>2. Head(todo) \in Ops
  BY <1>1, Copies, DroppedOp
<1>3. Head(todo).con \in work.current.rows
  BY <1>1 DEF Lowerable, Op, Known
<1>4. Lowered(todo, work.current, work.native, work'.current, work'.native)
  BY <1>1, <1>3, Copies, RowBoundsFit DEF LowerConstraintBounds, Emit, Op, Known
<1> QED
  BY <1>1, <1>4, LoweringStep

LEMMA LowerSetCellStep ==
    ASSUME IInv, UNCHANGED program, LowerSetCell
    PROVE  IInv'
<1>1. /\ phase = "compiling" /\ todo # <<>> /\ Head(todo).kind = "SetCell" /\ Lowerable
      /\ todo' = Tail(todo)
      /\ UNCHANGED <<modelVars, changes, phase, mustRebuild, current, native>>
  BY DEF LowerSetCell, Lowering, Emit, Op
<1>2. Head(todo) \in Ops
  BY <1>1, Copies, DroppedOp
<1>3. /\ Head(todo).target \in Target /\ Head(todo).value \in Int
      /\ CellWrites(Head(todo).target, Head(todo).var)[Head(todo)] = {Head(todo).value}
  BY <1>1, <1>2, OpFields, ZeroInt DEF CellWrites
<1>4. CASE Head(todo).target \in Con
  <2>1. /\ work'.current = work.current
        /\ work'.native =
              SetNativeCoefficient(work.native, Head(todo).target, Head(todo).var, Head(todo).value)
    BY <1>4 DEF LowerSetCell, Emit, Op, Known
  <2>2. Lowered(todo, work.current, work.native, work'.current, work'.native)
    BY <1>1, <1>3, <1>4, <2>1, Copies, CoeffFits
  <2> QED
    BY <1>1, <2>2, LoweringStep
<1>5. CASE Head(todo).target \notin Con
  <2>1. Head(todo).target \in Obj
    BY <1>3, <1>5 DEF Target
  <2>2. /\ work'.current =
              [work.current EXCEPT !.terms[Head(todo).target][Head(todo).var] = Head(todo).value]
        /\ work'.native = SetCost(work.native, Head(todo).target, Head(todo).var, Head(todo).value)
    BY <1>5 DEF LowerSetCell, Emit, Op, Known
  <2>3. Lowered(todo, work.current, work.native,
                [work.current EXCEPT !.terms[Head(todo).target][Head(todo).var] = Head(todo).value],
                SetCost(work.native, Head(todo).target, Head(todo).var, Head(todo).value))
    BY <1>1, <1>3, <2>1, Copies, CostFits
  <2>4. Lowered(todo, work.current, work.native, work'.current, work'.native)
    BY <2>2, <2>3
  <2> QED
    BY <1>1, <2>4, LoweringStep
<1> QED
  BY <1>4, <1>5

LEMMA LowerRemoveCellStep ==
    ASSUME IInv, UNCHANGED program, LowerRemoveCell
    PROVE  IInv'
<1>1. /\ phase = "compiling" /\ todo # <<>> /\ Head(todo).kind = "RemoveCell" /\ Lowerable
      /\ todo' = Tail(todo)
      /\ UNCHANGED <<modelVars, changes, phase, mustRebuild, current, native>>
  BY DEF LowerRemoveCell, Lowering, Emit, Op
<1>2. Head(todo) \in Ops
  BY <1>1, Copies, DroppedOp
<1>3. /\ Head(todo).target \in Target /\ 0 \in Int
      /\ CellWrites(Head(todo).target, Head(todo).var)[Head(todo)] = {0}
  BY <1>1, <1>2, OpFields, ZeroInt DEF CellWrites
<1>4. CASE Head(todo).target \in Con
  <2>1. /\ work'.current = work.current
        /\ work'.native =
              SetNativeCoefficient(work.native, Head(todo).target, Head(todo).var, 0)
    BY <1>4 DEF LowerRemoveCell, Emit, Op, Known
  <2>2. Lowered(todo, work.current, work.native, work'.current, work'.native)
    BY <1>1, <1>3, <1>4, <2>1, Copies, CoeffFits
  <2> QED
    BY <1>1, <2>2, LoweringStep
<1>5. CASE Head(todo).target \notin Con
  <2>1. Head(todo).target \in Obj
    BY <1>3, <1>5 DEF Target
  <2>2. /\ work'.current =
              [work.current EXCEPT !.terms[Head(todo).target][Head(todo).var] = 0]
        /\ work'.native = SetCost(work.native, Head(todo).target, Head(todo).var, 0)
    BY <1>5 DEF LowerRemoveCell, Emit, Op, Known
  <2>3. Lowered(todo, work.current, work.native,
                [work.current EXCEPT !.terms[Head(todo).target][Head(todo).var] = 0],
                SetCost(work.native, Head(todo).target, Head(todo).var, 0))
    BY <1>1, <1>3, <2>1, Copies, CostFits
  <2>4. Lowered(todo, work.current, work.native, work'.current, work'.native)
    BY <2>2, <2>3
  <2> QED
    BY <1>1, <2>4, LoweringStep
<1> QED
  BY <1>4, <1>5

LEMMA LowerAddObjectiveStep ==
    ASSUME IInv, UNCHANGED program, LowerAddObjective
    PROVE  IInv'
<1>1. /\ phase = "compiling" /\ todo # <<>> /\ Head(todo).kind = "AddObjective" /\ Lowerable
      /\ todo' = Tail(todo)
      /\ UNCHANGED <<modelVars, changes, phase, mustRebuild, current, native>>
  BY DEF LowerAddObjective, Lowering, Emit, Op
<1>2. Head(todo) \in Ops
  BY <1>1, Copies, DroppedOp
<1>3. Head(todo).obj \in used \ work.native.objectives
  BY <1>1, <1>2, Copies, DroppedOp, OpFields DEF AddedOnce, Adding
<1>4. Lowered(todo, work.current, work.native, work'.current, work'.native)
  BY <1>1, <1>3, Copies, AddObjectiveFits DEF LowerAddObjective, Emit, Op, Known
<1> QED
  BY <1>1, <1>4, LoweringStep

LEMMA LowerRemoveObjectiveStep ==
    ASSUME IInv, UNCHANGED program, LowerRemoveObjective
    PROVE  IInv'
<1>1. /\ phase = "compiling" /\ todo # <<>> /\ Head(todo).kind = "RemoveObjective" /\ Lowerable
      /\ todo' = Tail(todo)
      /\ UNCHANGED <<modelVars, changes, phase, mustRebuild, current, native>>
  BY DEF LowerRemoveObjective, Lowering, Emit, Op
<1>2. Head(todo) \in Ops
  BY <1>1, Copies, DroppedOp
<1>3. Lowered(todo, work.current, work.native, work'.current, work'.native)
  BY <1>1, Copies, RemoveObjectiveFits DEF LowerRemoveObjective, Emit, Op, Known
<1> QED
  BY <1>1, <1>3, LoweringStep

LEMMA LowerActiveObjectiveStep ==
    ASSUME IInv, UNCHANGED program, LowerActiveObjective
    PROVE  IInv'
<1>1. /\ phase = "compiling" /\ todo # <<>> /\ Head(todo).kind = "SetActiveObjective" /\ Lowerable
      /\ todo' = Tail(todo)
      /\ UNCHANGED <<modelVars, changes, phase, mustRebuild, current, native>>
  BY DEF LowerActiveObjective, Lowering, Emit, Op
<1>2. Head(todo) \in Ops
  BY <1>1, Copies, DroppedOp
<1>3. Head(todo).obj \in work.current.objectives \cup {None}
  BY <1>1 DEF Lowerable, Op, Known
<1>4. Lowered(todo, work.current, work.native, work'.current, work'.native)
  BY <1>1, <1>3, Copies, ActiveObjectiveFits DEF LowerActiveObjective, Emit, Op, Known
<1> QED
  BY <1>1, <1>4, LoweringStep

LEMMA LowerObjectiveConstantStep ==
    ASSUME IInv, UNCHANGED program, LowerObjectiveConstant
    PROVE  IInv'
<1>1. /\ phase = "compiling" /\ todo # <<>> /\ Head(todo).kind = "SetObjectiveConstant" /\ Lowerable
      /\ todo' = Tail(todo)
      /\ UNCHANGED <<modelVars, changes, phase, mustRebuild, current, native>>
  BY DEF LowerObjectiveConstant, Lowering, Emit, Op
<1>2. Head(todo) \in Ops
  BY <1>1, Copies, DroppedOp
<1>3. Lowered(todo, work.current, work.native, work'.current, work'.native)
  BY <1>1, Copies, ObjectiveConstantFits DEF LowerObjectiveConstant, Emit, Op, Known
<1> QED
  BY <1>1, <1>3, LoweringStep

-----------------------------------------------------------------------------
(* A compiled snapshot *)

LEMMA DataTyped ==
    ASSUME ModelTyped
    PROVE  /\ \A v \in LiveVars :
                 /\ v \in Var /\ variables[v] \in VariableData /\ variables[v] # None
                 /\ EffectiveBounds(v) \in SUBSET Value
                 /\ variables[v].type \in Types /\ variables[v].active \in BOOLEAN
                 /\ Column(EffectiveBounds(v), variables[v].type) \in Columns
           /\ \A c \in LiveCons :
                 /\ c \in Con /\ constraints[c] \in ConstraintData /\ constraints[c] # None
                 /\ EffectiveRowBounds(c) \in SUBSET Value
           /\ \A t \in Target : cells[t] \in Cells
           /\ \A o \in LiveObjs : o \in Obj /\ objectives[o] \in Int
<1>1. \A v \in LiveVars : /\ v \in Var /\ variables[v] \in VariableData
                          /\ variables[v] # None
  BY DEF ModelTyped, LiveVars
<1>2. \A v \in LiveVars : /\ EffectiveBounds(v) \in SUBSET Value
                          /\ variables[v].type \in Types /\ variables[v].active \in BOOLEAN
  <2> SUFFICES ASSUME NEW v \in LiveVars
               PROVE  /\ EffectiveBounds(v) \in SUBSET Value
                      /\ variables[v].type \in Types /\ variables[v].active \in BOOLEAN
    OBVIOUS
  <2>1. /\ variables[v].bounds \in SUBSET Value
        /\ variables[v].fixing \in Value \cup {None}
        /\ variables[v].type \in Types /\ variables[v].active \in BOOLEAN
    BY <1>1 DEF VariableData
  <2> QED
    BY <2>1, ValueAssumption DEF EffectiveBounds
<1>3. \A v \in LiveVars : Column(EffectiveBounds(v), variables[v].type) \in Columns
  BY <1>2 DEF Column, Columns
<1>4. \A c \in LiveCons : /\ c \in Con /\ constraints[c] \in ConstraintData
                          /\ constraints[c] # None
                          /\ EffectiveRowBounds(c) \in SUBSET Value
  BY DEF ModelTyped, LiveCons, ConstraintData, EffectiveRowBounds
<1> QED
  BY <1>1, <1>2, <1>3, <1>4 DEF ModelTyped, LiveObjs

LEMMA DependenciesTyped ==
    ASSUME ModelTyped
    PROVE  Dependencies \subseteq Var \cup Con
<1> SUFFICES ASSUME NEW k \in ActiveConstructs
             PROVE  DependenciesOf(k) \subseteq Var \cup Con
  BY DEF Dependencies
<1>1. /\ k \in Construct /\ Refers[k] \subseteq Var
      /\ Softens[k] \in Con \cup {None}
  BY ConstructAssumption DEF ActiveConstructs
<1> QED
  BY <1>1 DEF DependenciesOf, CellsOf

LEMMA CompiledTyped ==
    ASSUME ModelTyped
    PROVE  CompiledFrom(Snapshot) \in Compilers
<1> DEFINE k == CompiledFrom(Snapshot)
<1>1. /\ k = [variables |-> LiveVars,
              activity |-> [v \in Var |-> v \in LiveVars /\ variables[v].active],
              rows |-> LiveCons, objectives |-> LiveObjs,
              terms |-> [o \in Obj |-> Dense(cells[o])],
              charges |-> [o \in Obj |-> Charging(o)],
              constants |-> [o \in Obj |-> IF o \in LiveObjs THEN objectives[o] ELSE 0],
              policy |-> active, dependencies |-> Dependencies]
  BY DEF CompiledFrom, Snapshot, Dependencies
<1> HIDE DEF k
<1>2. LiveVars \subseteq Var /\ LiveCons \subseteq Con /\ LiveObjs \subseteq Obj
  BY DEF LiveVars, LiveCons, LiveObjs
<1>3. [v \in Var |-> v \in LiveVars /\ variables[v].active] \in [Var -> BOOLEAN]
  OBVIOUS
<1>4. \A o \in Obj : Dense(cells[o]) \in [Var -> Int]
  BY DataTyped, DenseRow DEF Target
<1>5. \A o \in Obj : Charging(o) \in SUBSET Construct
  BY DEF Charging, ActiveConstructs
<1>6. \A o \in Obj : (IF o \in LiveObjs THEN objectives[o] ELSE 0) \in Int
  BY DataTyped
<1>7. active \in Obj \cup {None}
  BY <1>2 DEF ModelTyped
<1>8. k \in Compilers
  BY <1>1, <1>2, <1>3, <1>4, <1>5, <1>6, <1>7, DependenciesTyped DEF Compilers
<1> QED
  BY <1>8 DEF k

\* The native model n holds the snapshot.
Holds(n) ==
    /\ NativeTyped(n)
    /\ n.cols = Snapshot.cols /\ n.rows = Snapshot.rows /\ n.coeff = Snapshot.coeff
    /\ n.objectives = Snapshot.objectives /\ n.costs = Snapshot.costs
    /\ n.penalties = Snapshot.penalties /\ n.offsets = Snapshot.offsets
    /\ n.generated = Snapshot.generated /\ n.active = Snapshot.policy
    /\ Projected(n)

LEMMA SnapshotFields ==
    /\ Snapshot.cols = [v \in Var |-> IF v \in LiveVars
                                      THEN Column(EffectiveBounds(v), variables[v].type)
                                      ELSE None]
    /\ Snapshot.rows = [c \in Con |-> IF c \in LiveCons THEN EffectiveRowBounds(c) ELSE None]
    /\ Snapshot.coeff = [c \in Con |-> Dense(cells[c])]
    /\ Snapshot.objectives = LiveObjs
    /\ Snapshot.costs = [o \in Obj |-> Dense(cells[o])]
    /\ Snapshot.penalties = [o \in Obj |-> Charging(o)]
    /\ Snapshot.offsets = [o \in Obj |-> IF o \in LiveObjs THEN objectives[o] ELSE 0]
    /\ Snapshot.generated = [k \in Construct |-> Generated(k)]
    /\ Snapshot.policy = active
BY DEF Snapshot

LEMMA SnapshotTyped ==
    ASSUME ModelTyped
    PROVE  /\ Snapshot.cols \in [Var -> Columns \cup {None}]
           /\ Snapshot.rows \in [Con -> (SUBSET Value) \cup {None}]
           /\ Snapshot.coeff \in [Con -> [Var -> Int]]
           /\ Snapshot.objectives \subseteq Obj
           /\ Snapshot.costs \in [Obj -> [Var -> Int]]
           /\ Snapshot.penalties \in [Obj -> SUBSET Construct]
           /\ Snapshot.offsets \in [Obj -> Int]
           /\ Snapshot.policy \in Snapshot.objectives \cup {None}
<1>1. Snapshot.cols \in [Var -> Columns \cup {None}]
  BY SnapshotFields, DataTyped
<1>2. Snapshot.rows \in [Con -> (SUBSET Value) \cup {None}]
  BY SnapshotFields, DataTyped
<1>3. \A t \in Target : Dense(cells[t]) \in [Var -> Int]
  BY DataTyped, DenseRow
<1>4. Snapshot.coeff \in [Con -> [Var -> Int]] /\ Snapshot.costs \in [Obj -> [Var -> Int]]
  BY <1>3, SnapshotFields DEF Target
<1>5. Snapshot.penalties \in [Obj -> SUBSET Construct]
  BY SnapshotFields DEF Charging, ActiveConstructs
<1>6. Snapshot.offsets \in [Obj -> Int]
  BY SnapshotFields, DataTyped
<1>7. /\ Snapshot.objectives \subseteq Obj
      /\ Snapshot.policy \in Snapshot.objectives \cup {None}
  BY SnapshotFields DEF LiveObjs, ModelTyped
<1> QED
  BY <1>1, <1>2, <1>4, <1>5, <1>6, <1>7

LEMMA RebuiltHolds ==
    ASSUME ModelTyped
    PROVE  Holds(RebuildFrom(Snapshot))
<1> DEFINE s == Snapshot
           n == RebuildFrom(s)
<1>1. /\ DOMAIN n = {"cols", "rows", "coeff", "objectives", "costs", "penalties", "offsets",
                     "generated", "active", "colCost", "charged", "offset"}
      /\ n.cols = s.cols /\ n.rows = s.rows /\ n.coeff = s.coeff
      /\ n.objectives = s.objectives /\ n.costs = s.costs
      /\ n.penalties = s.penalties /\ n.offsets = s.offsets
      /\ n.generated = s.generated /\ n.active = s.policy
      /\ n.colCost = IF s.policy = None THEN NoCosts ELSE s.costs[s.policy]
      /\ n.charged = IF s.policy = None THEN {} ELSE s.penalties[s.policy]
      /\ n.offset = IF s.policy = None THEN 0 ELSE s.offsets[s.policy]
  BY DEF RebuildFrom, Project, WithoutCosts, EmptyNative
<1> HIDE DEF n, s
<1>2. NativeTyped(n)
  BY <1>1, SnapshotTyped, ZeroCosts DEF NativeTyped, s
<1>3. Projected(n)
  BY <1>1 DEF Projected
<1> QED
  BY <1>1, <1>2, <1>3 DEF Holds, n, s

LEMMA HeldConsistent ==
    ASSUME ModelTyped, NamesUsed, NEW n, Holds(n)
    PROVE  Consistent(CompiledFrom(Snapshot), n)
<1> DEFINE k == CompiledFrom(Snapshot)
<1>1. /\ k.variables = LiveVars /\ k.rows = LiveCons /\ k.objectives = LiveObjs
      /\ k.policy = active
  BY DEF CompiledFrom, Snapshot
<1> HIDE DEF k
<1>2. ColumnsAgree(k, n)
  <2>1. ASSUME NEW v \in Var PROVE n.cols[v] # None <=> v \in LiveVars
    <3>1. n.cols[v] = IF v \in LiveVars
                      THEN Column(EffectiveBounds(v), variables[v].type) ELSE None
      BY SnapshotFields DEF Holds
    <3>2. v \in LiveVars => Column(EffectiveBounds(v), variables[v].type) \in Columns
      BY DataTyped
    <3> QED
      BY <3>1, <3>2, NoneAssumption
  <2> QED
    BY <2>1, <1>1 DEF ColumnsAgree, LiveVars
<1>3. RowsAgree(k, n)
  <2>1. ASSUME NEW c \in Con PROVE n.rows[c] # None <=> c \in LiveCons
    <3>1. n.rows[c] = IF c \in LiveCons THEN EffectiveRowBounds(c) ELSE None
      BY SnapshotFields DEF Holds
    <3>2. c \in LiveCons => EffectiveRowBounds(c) \in SUBSET Value
      BY DataTyped
    <3>3. \A b \in SUBSET Value : b # None
      BY NoneAssumption
    <3> QED
      BY <3>1, <3>2, <3>3
  <2> QED
    BY <2>1, <1>1 DEF RowsAgree, LiveCons
<1>4. ObjectivesAgree(k, n)
  BY <1>1, SnapshotFields DEF Holds, ObjectivesAgree, ModelTyped, NamesUsed
<1> QED
  BY <1>2, <1>3, <1>4 DEF Consistent, Holds, k

\* A native model that holds the snapshot has nothing to catch up with.
LEMMA HeldLands ==
    ASSUME ModelTyped, NEW n, Holds(n)
    PROVE  /\ ColumnsLand(<<>>, CompiledFrom(Snapshot), n)
           /\ RowsLand(<<>>, n)
           /\ CellsLand(<<>>, CompiledFrom(Snapshot), n)
           /\ ObjectivesLand(<<>>, CompiledFrom(Snapshot), n)
           /\ PenaltiesLand(<<>>, CompiledFrom(Snapshot), n)
           /\ \A k \in Construct : n.generated[k] = Generated(k)
           /\ CompiledFrom(Snapshot).dependencies = Dependencies
<1> DEFINE k == CompiledFrom(Snapshot)
<1>1. /\ k.activity = [v \in Var |-> v \in LiveVars /\ variables[v].active]
      /\ k.terms = [o \in Obj |-> Dense(cells[o])]
      /\ k.charges = [o \in Obj |-> Charging(o)]
      /\ k.constants = [o \in Obj |-> IF o \in LiveObjs THEN objectives[o] ELSE 0]
      /\ k.policy = active
  BY DEF CompiledFrom, Snapshot
<1> HIDE DEF k
<1>2. ColumnsLand(<<>>, k, n)
  <2> SUFFICES ASSUME NEW v \in Var
               PROVE  ColumnLands(<<>>, k, n, v, variables[v])
    BY DEF ColumnsLand
  <2> DEFINE d == variables[v]
  <2>1. CASE v \in LiveVars
    <3>1. n.cols[v] = Column(EffectiveBounds(v), d.type) /\ n.cols[v] # None /\ d # None
      BY <2>1, SnapshotFields, DataTyped, NoneAssumption DEF Holds
    <3>2. n.cols[v].type = d.type /\ n.cols[v].bounds = EffectiveBounds(v)
      BY <3>1 DEF Column
    <3>3. k.activity[v] = d.active /\ d.active \in BOOLEAN
      BY <2>1, <1>1, DataTyped
    <3>4. ColumnType(n, v) = TypeOf(d) /\ ColumnBounds(n, v) = EffectiveBounds(v)
      BY <3>1, <3>2 DEF ColumnType, ColumnBounds, TypeOf
    <3>5. d.active /\ d.fixing = None => EffectiveBounds(v) = BoundsOf(d)
      BY <3>1, <3>3 DEF EffectiveBounds, BoundsOf
    <3>6. ~d.active => EffectiveBounds(v) = {0}
      BY DEF EffectiveBounds
    <3>7. ~Writing(<<>>, v)
      BY DEF Writing
    <3>8. d.active => Flag(k.activity[v]) = 1
      BY <3>3 DEF Flag
    <3> QED
      BY <3>1, <3>2, <3>3, <3>4, <3>5, <3>6, <3>7, <3>8, LandsNothing
      DEF ColumnLands, Unfolded
  <2>2. CASE v \notin LiveVars
    <3>1. n.cols[v] = None /\ d = None
      BY <2>2, SnapshotFields DEF Holds, LiveVars
    <3> QED
      BY <3>1, LandsNothing DEF ColumnLands, ColumnType, ColumnBounds, TypeOf, BoundsOf
  <2> QED
    BY <2>1, <2>2
<1>3. RowsLand(<<>>, n)
  <2> SUFFICES ASSUME NEW c \in Con
               PROVE  RowLands(<<>>, n, c, constraints[c], Softened(c))
    BY DEF RowsLand
  <2>1. CASE c \in LiveCons
    <3>1. n.rows[c] = EffectiveRowBounds(c) /\ n.rows[c] # None /\ constraints[c] # None
      BY <2>1, SnapshotFields, DataTyped, NoneAssumption DEF Holds
    <3>2. constraints[c].active => n.rows[c] = Enforced(constraints[c], Softened(c))
      BY <3>1 DEF EffectiveRowBounds, Enforced, Softened
    <3> QED
      BY <3>1, <3>2, LandsNothing DEF RowLands, Flag
  <2>2. CASE c \notin LiveCons
    <3>1. n.rows[c] = None /\ constraints[c] = None
      BY <2>2, SnapshotFields DEF Holds, LiveCons
    <3> QED
      BY <3>1, LandsNothing DEF RowLands, Enforced
  <2> QED
    BY <2>1, <2>2
<1>4. CellsLand(<<>>, k, n)
  <2>1. \A t \in Target, v \in Var : Dense(cells[t])[v] = Term(cells[t][v])
    BY DataTyped, DenseRow
  <2>2. ASSUME NEW c \in Con, NEW v \in Var
        PROVE  n.coeff[c][v] = Term(cells[c][v])
    <3>1. n.coeff[c] = Dense(cells[c]) /\ c \in Target
      BY SnapshotFields DEF Holds, Target
    <3> QED
      BY <3>1, <2>1
  <2>3. ASSUME NEW o \in Obj, NEW v \in Var
        PROVE  n.costs[o][v] = Term(cells[o][v]) /\ k.terms[o][v] = Term(cells[o][v])
    <3>1. n.costs[o] = Dense(cells[o]) /\ k.terms[o] = Dense(cells[o]) /\ o \in Target
      BY SnapshotFields, <1>1 DEF Holds, Target
    <3> QED
      BY <3>1, <2>1
  <2> QED
    BY <2>2, <2>3, LandsNothing DEF CellsLand, CoeffLands, CostLands
<1>5. ObjectivesLand(<<>>, k, n)
  <2>1. ASSUME NEW o \in Obj
        PROVE  /\ Flag(o \in n.objectives) = Flag(objectives[o] # None)
               /\ n.offsets[o] = Term(objectives[o])
               /\ k.constants[o] = Term(objectives[o])
               /\ Flag(k.policy = o) = Flag(active = o)
    BY <1>1, SnapshotFields DEF Holds, LiveObjs, Term
  <2> QED
    BY <2>1, LandsNothing DEF ObjectivesLand, ObjectiveLands, PolicyLands
<1>6. PenaltiesLand(<<>>, k, n)
  BY <1>1, SnapshotFields, LandsNothing DEF Holds, PenaltiesLand, ChargesLand
<1>7. \A j \in Construct : n.generated[j] = Generated(j)
  BY SnapshotFields DEF Holds
<1>8. CompiledFrom(Snapshot).dependencies = Dependencies
  BY DEF CompiledFrom, Dependencies
<1> QED
  BY <1>2, <1>3, <1>4, <1>5, <1>6, <1>7, <1>8 DEF k

-----------------------------------------------------------------------------
(* The other steps of a synchronization, and the initial states *)

\* A state the session goes to a rebuild from: the native model says nothing
\* of the model.
LEMMA GivenUp ==
    ASSUME IInv, UNCHANGED <<program, modelVars, current, native>>,
           changes' = <<>>, todo' \in Seq(Ops), mustRebuild' \in BOOLEAN,
           \/ phase' = "rebuilding" /\ mustRebuild' = mustRebuild
           \/ phase' = "editing" /\ mustRebuild'
    PROVE  IInv'
<1>1. ModelTyped' /\ NamesUsed'
  BY ModelSame DEF IInv
<1>2. SyncTyped'
  BY EmptySeq DEF IInv, SyncTyped
<1>3. BasesTyped'
  <2>1. Consistent(current, native)'
    BY DEF IInv, BasesTyped, Consistent, ColumnsAgree, RowsAgree, ObjectivesAgree,
       Projected, modelVars
  <2>2. NativeTyped(native)'
    BY DEF IInv, BasesTyped, NativeTyped
  <2> QED
    BY <2>1, <2>2 DEF IInv, BasesTyped
<1>4. AddedOnce(Pending, Backend.objectives)'
  BY DEF AddedOnce, Pending
<1>5. Fit'
  BY DEF Fit
<1> QED
  BY <1>1, <1>2, <1>3, <1>4, <1>5 DEF IInv

LEMMA StartRebuildStep ==
    ASSUME IInv, UNCHANGED program, StartRebuild
    PROVE  IInv'
BY GivenUp DEF StartRebuild, IInv, SyncTyped

LEMMA RebuildRequiredStep ==
    ASSUME IInv, UNCHANGED program, RebuildRequired
    PROVE  IInv'
BY GivenUp, EmptySeq DEF RebuildRequired, IInv, SyncTyped

LEMMA RebuildRejectedStep ==
    ASSUME IInv, UNCHANGED program, RebuildRejected
    PROVE  IInv'
BY GivenUp DEF RebuildRejected, IInv, SyncTyped

LEMMA StartReplayStep ==
    ASSUME IInv, UNCHANGED program, StartReplay
    PROVE  IInv'
<1>1. /\ phase = "editing" /\ phase' = "compiling" /\ ~mustRebuild
      /\ todo' = changes /\ changes' = <<>>
      /\ work' = [current |-> current, native |-> native]
      /\ UNCHANGED <<program, modelVars, mustRebuild, current, native>>
  BY DEF StartReplay
<1>2. /\ Pending = changes /\ Compiler = current /\ Backend = native
      /\ Pending' = changes /\ Compiler' = current /\ Backend' = native
  BY <1>1 DEF Pending, Compiler, Backend
<1>3. ModelTyped' /\ NamesUsed'
  BY <1>1, ModelSame DEF IInv
<1>4. SyncTyped'
  BY <1>1, EmptySeq DEF IInv, SyncTyped
<1>5. BasesTyped'
  <2>1. Consistent(current, native)' /\ Consistent(work.current, work.native)'
    BY <1>1 DEF IInv, BasesTyped, Consistent, ColumnsAgree, RowsAgree, ObjectivesAgree,
       Projected, modelVars
  <2>2. NativeTyped(native)' /\ NativeTyped(work.native)'
    BY <1>1 DEF IInv, BasesTyped, NativeTyped
  <2> QED
    BY <1>1, <2>1, <2>2 DEF IInv, BasesTyped
<1>6. AddedOnce(Pending, Backend.objectives)'
  BY <1>1, <1>2 DEF IInv, AddedOnce, modelVars
<1>7. Fit'
  <2> SUFFICES ASSUME ~Blocked(Pending)'
               PROVE  Fits(Pending, Compiler, Backend)'
    BY DEF Fit
  <2>1. ~Blocked(Pending)
    BY <1>1, <1>2 DEF Blocked, Blocking
  <2>2. Fits(Pending', Compiler', Backend')
    BY <2>1, <1>1, <1>2 DEF IInv, Fit
  <2> QED
    BY <2>2, <1>1, FitsSame
<1> QED
  BY <1>3, <1>4, <1>5, <1>6, <1>7 DEF IInv

LEMMA DeliverStep ==
    ASSUME IInv, UNCHANGED program, Deliver
    PROVE  IInv'
<1>1. /\ phase = "compiling" /\ phase' = "editing" /\ todo = <<>>
      /\ current' = work.current /\ native' = work.native
      /\ UNCHANGED <<program, modelVars, changes, mustRebuild, todo>>
  BY DEF Deliver
<1>2. changes = <<>> /\ ~mustRebuild
  BY <1>1 DEF IInv, SyncTyped
<1>3. /\ Pending = <<>> /\ Compiler = work.current /\ Backend = work.native
      /\ Pending' = <<>> /\ Compiler' = work.current /\ Backend' = work.native
  BY <1>1, <1>2 DEF Pending, Compiler, Backend
<1>4. ModelTyped' /\ NamesUsed'
  BY <1>1, ModelSame DEF IInv
<1>5. SyncTyped'
  BY <1>1, <1>2 DEF IInv, SyncTyped
<1>6. BasesTyped'
  <2>1. Consistent(current, native)'
    BY <1>1 DEF IInv, BasesTyped, Consistent, ColumnsAgree, RowsAgree, ObjectivesAgree,
       Projected, modelVars
  <2>2. NativeTyped(native)'
    BY <1>1 DEF IInv, BasesTyped, NativeTyped
  <2> QED
    BY <1>1, <2>1, <2>2 DEF IInv, BasesTyped
<1>7. AddedOnce(Pending, Backend.objectives)'
  BY <1>3 DEF AddedOnce
<1>8. Fit'
  <2>1. ~Blocked(Pending)
    BY <1>3 DEF Blocked
  <2>2. Fits(Pending', Compiler', Backend')
    BY <2>1, <1>1, <1>2, <1>3 DEF IInv, Fit
  <2>3. current'.dependencies = current.dependencies
    BY <1>1 DEF IInv, BasesTyped
  <2> QED
    BY <2>2, <2>3, <1>1, FitsSame DEF Fit
<1> QED
  BY <1>4, <1>5, <1>6, <1>7, <1>8 DEF IInv

LEMMA RebuildStep ==
    ASSUME IInv, UNCHANGED program, Rebuild
    PROVE  IInv'
<1> DEFINE k == CompiledFrom(Snapshot)
           n == RebuildFrom(Snapshot)
<1>1. /\ phase = "rebuilding" /\ phase' = "editing" /\ mustRebuild' = FALSE
      /\ current' = k /\ native' = n
      /\ UNCHANGED <<program, modelVars, changes, todo>>
  BY DEF Rebuild
<1>2. changes = <<>>
  BY <1>1 DEF IInv, SyncTyped
<1>3. Holds(n)
  BY RebuiltHolds DEF IInv
<1>4. /\ k \in Compilers /\ NativeTyped(n) /\ Consistent(k, n)
  BY <1>3, CompiledTyped, HeldConsistent DEF IInv, Holds
<1>5. /\ ColumnsLand(<<>>, k, n) /\ RowsLand(<<>>, n) /\ CellsLand(<<>>, k, n)
      /\ ObjectivesLand(<<>>, k, n) /\ PenaltiesLand(<<>>, k, n)
      /\ \A j \in Construct : n.generated[j] = Generated(j)
      /\ k.dependencies = Dependencies
  BY <1>3, HeldLands DEF IInv
<1> HIDE DEF k, n
<1>6. Pending' = <<>> /\ Compiler' = k /\ Backend' = n
  BY <1>1, <1>2 DEF Pending, Compiler, Backend
<1>7. ModelTyped' /\ NamesUsed'
  BY <1>1, ModelSame DEF IInv
<1>8. SyncTyped'
  BY <1>1, <1>2 DEF IInv, SyncTyped
<1>9. BasesTyped'
  <2>1. Consistent(current, native)'
    BY <1>1, <1>4 DEF Consistent, ColumnsAgree, RowsAgree, ObjectivesAgree, Projected,
       modelVars
  <2>2. NativeTyped(native)'
    BY <1>1, <1>4 DEF NativeTyped
  <2> QED
    BY <1>1, <1>4, <2>1, <2>2 DEF BasesTyped
<1>10. AddedOnce(Pending, Backend.objectives)'
  BY <1>6 DEF AddedOnce
<1>11. Fits(Pending, Compiler, Backend)'
  <2>1. /\ variables' = variables /\ constraints' = constraints /\ objectives' = objectives
        /\ active' = active /\ cells' = cells /\ used' = used
    BY <1>1 DEF modelVars
  <2>2. ColumnsLand(Pending, Compiler, Backend)'
    BY <1>5, <1>6, <2>1 DEF ColumnsLand
  <2>3. RowsLand(Pending, Backend)'
    BY <1>1, <1>5, <1>6, <2>1, ModelSame DEF RowsLand
  <2>4. CellsLand(Pending, Compiler, Backend)'
    BY <1>5, <1>6, <2>1 DEF CellsLand
  <2>5. ObjectivesLand(Pending, Compiler, Backend)'
    BY <1>5, <1>6, <2>1 DEF ObjectivesLand
  <2>6. PenaltiesLand(Pending, Compiler, Backend)'
    BY <1>1, <1>5, <1>6, <2>1, ModelSame DEF PenaltiesLand, LiveObjs
  <2>7. ConstructsFit(Backend)'
    BY <1>1, <1>5, <1>6, ModelSame DEF ConstructsFit
  <2> QED
    BY <2>2, <2>3, <2>4, <2>5, <2>6, <2>7 DEF Fits
<1> QED
  BY <1>7, <1>8, <1>9, <1>10, <1>11 DEF IInv, Fit

\* Nothing is modelled yet, and an empty native model holds that.
LEMMA InitInvariant == Init => IInv
<1> SUFFICES ASSUME Init PROVE IInv
  OBVIOUS
<1>1. LiveVars = {} /\ LiveCons = {} /\ LiveObjs = {} /\ ActiveConstructs = {}
  BY NoneAssumption DEF Init, LiveVars, LiveCons, LiveObjs, ActiveConstructs
<1>2. NoCells \in Cells /\ Dense(NoCells) = NoCosts
  BY DEF NoCells, Cells, Dense, NoCosts
<1>3. ModelTyped
  <2>1. /\ program \in Programs
        /\ variables \in [Var -> VariableData \cup {None}]
        /\ constraints \in [Con -> ConstraintData \cup {None}]
        /\ objectives \in [Obj -> Int \cup {None}]
        /\ active \in LiveObjs \cup {None}
        /\ constructs \in [Construct -> {"active", "inactive", None}]
    BY DEF Init
  <2>2. cells \in [Target -> Cells] /\ \A t \in Target : cells[t] = NoCells
    BY <1>2 DEF Init
  <2> QED
    BY <2>1, <2>2 DEF ModelTyped
<1>4. NamesUsed
  BY <1>1 DEF Init, NamesUsed
<1>5. SyncTyped
  BY EmptySeq DEF Init, SyncTyped
<1>6. Holds(EmptyNative)
  <2>1. \A t \in Target : Dense(cells[t]) = NoCosts
    BY <1>2 DEF Init
  <2>2. \A o \in Obj : Charging(o) = {}
    BY <1>1 DEF Charging
  <2>3. \A k \in Construct : Generated(k) = None
    BY <1>1 DEF Generated
  <2>4. /\ Snapshot.cols = EmptyNative.cols /\ Snapshot.rows = EmptyNative.rows
        /\ Snapshot.coeff = EmptyNative.coeff
        /\ Snapshot.objectives = EmptyNative.objectives
        /\ Snapshot.costs = EmptyNative.costs /\ Snapshot.penalties = EmptyNative.penalties
        /\ Snapshot.offsets = EmptyNative.offsets
        /\ Snapshot.generated = EmptyNative.generated
        /\ Snapshot.policy = EmptyNative.active
    BY <1>1, <2>1, <2>2, <2>3, SnapshotFields DEF EmptyNative, Init, Target
  <2>5. NativeTyped(EmptyNative)
    BY ZeroCosts DEF NativeTyped, EmptyNative
  <2>6. Projected(EmptyNative)
    BY DEF Projected, EmptyNative
  <2> QED
    BY <2>4, <2>5, <2>6 DEF Holds
<1>7. /\ current = CompiledFrom(Snapshot) /\ native = EmptyNative /\ phase = "editing"
      /\ changes = <<>>
  BY DEF Init
<1>8. BasesTyped
  BY <1>3, <1>4, <1>6, <1>7, CompiledTyped, HeldConsistent DEF BasesTyped, Holds
<1>9. Pending = <<>> /\ Compiler = current /\ Backend = native
  BY <1>7 DEF Pending, Compiler, Backend
<1>10. AddedOnce(Pending, Backend.objectives)
  BY <1>9 DEF AddedOnce
<1>11. Fits(<<>>, current, native)
  BY <1>3, <1>6, <1>7, HeldLands DEF Fits, ConstructsFit
<1> QED
  BY <1>3, <1>4, <1>5, <1>8, <1>9, <1>10, <1>11 DEF IInv, Fit

-----------------------------------------------------------------------------
(* What an edit logs *)

LEMMA Concatenated ==
    ASSUME NEW p \in Seq(Ops), NEW q \in Seq(Ops)
    PROVE  p \o q \in Seq(Ops) /\ ToSet(p \o q) = ToSet(p) \cup ToSet(q)
<1>1. ASSUME NEW op \in ToSet(p \o q)
      PROVE  op \in ToSet(p) \cup ToSet(q)
  <2>1. PICK i \in 1..Len(p \o q) : op = (p \o q)[i]
    BY AppendedOps DEF ToSet
  <2>2. CASE i <= Len(p)
    BY <2>1, <2>2, AppendedOps DEF ToSet
  <2>3. CASE i > Len(p)
    BY <2>1, <2>3, AppendedOps
  <2> QED
    BY <2>1, <2>2, <2>3, AppendedOps
<1>2. ASSUME NEW op \in ToSet(p)
      PROVE  op \in ToSet(p \o q)
  <2>1. PICK i \in 1..Len(p) : op = p[i]
    BY DEF ToSet
  <2>2. i \in 1..Len(p \o q) /\ (p \o q)[i] = op
    BY <2>1, AppendedOps
  <2> QED
    BY <2>2 DEF ToSet
<1>3. ASSUME NEW op \in ToSet(q)
      PROVE  op \in ToSet(p \o q)
  <2>1. PICK i \in 1..Len(q) : op = q[i]
    BY DEF ToSet
  <2>2. Len(p) + i \in 1..Len(p \o q) /\ (p \o q)[Len(p) + i] = op
    BY <2>1, AppendedOps
  <2> QED
    BY <2>2 DEF ToSet
<1> QED
  BY <1>1, <1>2, <1>3, AppendedOps

\* Operations that come from the members of a finite set may be listed.
LEMMA ListedOps ==
    ASSUME NEW S, IsFiniteSet(S), NEW f \in [S -> Ops], NEW T, T = {f[x] : x \in S}
    PROVE  SetToSeq(T) \in Seq(Ops) /\ ToSet(SetToSeq(T)) = T
<1>1. f \in Surjection(S, T)
  BY DEF Surjection
<1>2. IsFiniteSet(T)
  BY <1>1, FS_Surjection
<1>3. SetToSeq(T) \in Seq(T) /\ ToSet(SetToSeq(T)) = T
  BY <1>2, Listed
<1>4. T \subseteq Ops
  OBVIOUS
<1>5. SetToSeq(T) \in Seq(Ops)
  BY <1>3, <1>4
<1> QED
  BY <1>3, <1>5

LEMMA OpIsOp ==
    /\ \A v \in Var, b \in SUBSET Value, ty \in Types :
          [kind |-> "AddVariable", var |-> v, bounds |-> b, type |-> ty] \in Ops
    /\ \A v \in Var, b \in SUBSET Value : BoundsOp(v, b) \in Ops
    /\ \A v \in Var, b \in SUBSET Value :
          [kind |-> "SetVariableFixing", var |-> v, effective |-> b] \in Ops
    /\ \A v \in Var : /\ [kind |-> "RemoveVariable", var |-> v] \in Ops
                      /\ [kind |-> "SetVariableActive", var |-> v] \in Ops
                      /\ [kind |-> "SetVariableType", var |-> v] \in Ops
                      /\ [kind |-> "SetSemiContinuousBound", var |-> v] \in Ops
    /\ \A c \in Con, b \in SUBSET Value, row \in Cells :
          [kind |-> "AddLinearRows", con |-> c, bounds |-> b, row |-> row] \in Ops
    /\ \A c \in Con, b \in SUBSET Value :
          [kind |-> "SetConstraintBounds", con |-> c, bounds |-> b] \in Ops
    /\ \A c \in Con : /\ [kind |-> "RemoveConstraint", con |-> c] \in Ops
                      /\ [kind |-> "SetConstraintActive", con |-> c] \in Ops
    /\ \A o \in Obj : /\ [kind |-> "AddObjective", obj |-> o] \in Ops
                      /\ [kind |-> "RemoveObjective", obj |-> o] \in Ops
    /\ \A o \in Obj \cup {None} : [kind |-> "SetActiveObjective", obj |-> o] \in Ops
    /\ \A o \in Obj, x \in Int :
          [kind |-> "SetObjectiveConstant", obj |-> o, value |-> x] \in Ops
    /\ \A t \in Target, v \in Var, x \in Int :
          [kind |-> "SetCell", target |-> t, var |-> v, value |-> x] \in Ops
    /\ \A t \in Target, v \in Var : [kind |-> "RemoveCell", target |-> t, var |-> v] \in Ops
    /\ \A k \in Construct : /\ [kind |-> "AddConstruct", construct |-> k] \in Ops
                            /\ [kind |-> "SetConstructActive", construct |-> k] \in Ops
                            /\ [kind |-> "RemoveConstruct", construct |-> k] \in Ops
BY DEF Ops, BoundsOp

\* The removals of the cells of one target, of one variable, and of constructs.
LEMMA RemovalsListed ==
    /\ \A t \in Target : \A vs \in SUBSET Var :
          /\ CellRemovals(t, vs) \in Seq(Ops)
          /\ ToSet(CellRemovals(t, vs))
                = {[kind |-> "RemoveCell", target |-> t, var |-> v] : v \in vs}
    /\ \A v \in Var : \A ts \in SUBSET Target :
          LET S == {[kind |-> "RemoveCell", target |-> t, var |-> v] : t \in ts}
          IN  SetToSeq(S) \in Seq(Ops) /\ ToSet(SetToSeq(S)) = S
    /\ \A ks \in SUBSET Construct :
          LET S == {[kind |-> "RemoveConstruct", construct |-> k] : k \in ks}
          IN  SetToSeq(S) \in Seq(Ops) /\ ToSet(SetToSeq(S)) = S
<1>1. /\ IsFiniteSet(Var) /\ IsFiniteSet(Target) /\ IsFiniteSet(Construct)
  BY NamesAssumption, FS_Union DEF Target
<1>2. ASSUME NEW t \in Target, NEW vs \in SUBSET Var
      PROVE  /\ CellRemovals(t, vs) \in Seq(Ops)
             /\ ToSet(CellRemovals(t, vs))
                   = {[kind |-> "RemoveCell", target |-> t, var |-> v] : v \in vs}
  <2> DEFINE f == [v \in vs |-> [kind |-> "RemoveCell", target |-> t, var |-> v]]
             T == {[kind |-> "RemoveCell", target |-> t, var |-> v] : v \in vs}
  <2>1. f \in [vs -> Ops]
    BY OpIsOp
  <2>2. T = {f[v] : v \in vs}
    OBVIOUS
  <2>3. IsFiniteSet(vs)
    BY <1>1, FS_Subset
  <2> HIDE DEF f, T
  <2>4. SetToSeq(T) \in Seq(Ops) /\ ToSet(SetToSeq(T)) = T
    BY <2>1, <2>2, <2>3, ListedOps
  <2>5. CellRemovals(t, vs) = SetToSeq(T)
    BY DEF CellRemovals, T
  <2> QED
    BY <2>4, <2>5 DEF T
<1>3. ASSUME NEW v \in Var, NEW ts \in SUBSET Target
      PROVE  LET S == {[kind |-> "RemoveCell", target |-> t, var |-> v] : t \in ts}
             IN  SetToSeq(S) \in Seq(Ops) /\ ToSet(SetToSeq(S)) = S
  <2> DEFINE f == [t \in ts |-> [kind |-> "RemoveCell", target |-> t, var |-> v]]
             T == {[kind |-> "RemoveCell", target |-> t, var |-> v] : t \in ts}
  <2>1. f \in [ts -> Ops]
    BY OpIsOp
  <2>2. T = {f[t] : t \in ts}
    OBVIOUS
  <2>3. IsFiniteSet(ts)
    BY <1>1, FS_Subset
  <2> HIDE DEF f
  <2>4. SetToSeq(T) \in Seq(Ops) /\ ToSet(SetToSeq(T)) = T
    <3> HIDE DEF T
    <3> QED
      BY <2>1, <2>2, <2>3, ListedOps
  <2> QED
    BY <2>4
<1>4. ASSUME NEW ks \in SUBSET Construct
      PROVE  LET S == {[kind |-> "RemoveConstruct", construct |-> k] : k \in ks}
             IN  SetToSeq(S) \in Seq(Ops) /\ ToSet(SetToSeq(S)) = S
  <2> DEFINE f == [k \in ks |-> [kind |-> "RemoveConstruct", construct |-> k]]
             T == {[kind |-> "RemoveConstruct", construct |-> k] : k \in ks}
  <2>1. f \in [ks -> Ops]
    BY OpIsOp
  <2>2. T = {f[k] : k \in ks}
    OBVIOUS
  <2>3. IsFiniteSet(ks)
    BY <1>1, FS_Subset
  <2> HIDE DEF f
  <2>4. SetToSeq(T) \in Seq(Ops) /\ ToSet(SetToSeq(T)) = T
    <3> HIDE DEF T
    <3> QED
      BY <2>1, <2>2, <2>3, ListedOps
  <2> QED
    BY <2>4
<1> QED
  BY <1>2, <1>3, <1>4

-----------------------------------------------------------------------------
(* How the pending operations land after an edit that logs q *)

Logging(q) ==
    /\ q \in Seq(Ops)
    /\ changes \in Seq(Ops)
    /\ changes' = changes \o q
    /\ UNCHANGED <<current, native>>

LEMMA ColumnsEdited ==
    ASSUME NEW q, Logging(q), ColumnsLand(changes, current, native),
           \A w \in Var :
              \/ /\ variables'[w] = variables[w]
                 /\ \A op \in ToSet(q) : op.kind \in ColumnKinds => op.var # w
              \/ ColumnLands(changes \o q, current, native, w, variables'[w])
    PROVE  ColumnsLand(changes, current, native)'
<1>1. ASSUME NEW w \in Var
      PROVE  ColumnLands(changes \o q, current, native, w, variables'[w])
  <2>1. ColumnLands(changes, current, native, w, variables[w])
    BY DEF ColumnsLand
  <2> QED
    BY <2>1, ColumnLogged DEF Logging
<1> QED
  BY <1>1 DEF ColumnsLand, Logging

LEMMA RowsEdited ==
    ASSUME NEW q, Logging(q), RowsLand(changes, native),
           \A c \in Con :
              \/ /\ constraints'[c] = constraints[c]
                 /\ Softened(c)' = Softened(c)
                 /\ \A op \in ToSet(q) : op.kind \in RowKinds => op.con # c
              \/ RowLands(changes \o q, native, c, constraints'[c], Softened(c)')
    PROVE  RowsLand(changes, native)'
<1>1. ASSUME NEW c \in Con
      PROVE  RowLands(changes \o q, native, c, constraints'[c], Softened(c)')
  <2>1. RowLands(changes, native, c, constraints[c], Softened(c))
    BY DEF RowsLand
  <2> QED
    BY <2>1, RowLogged DEF Logging
<1> QED
  BY <1>1 DEF RowsLand, Logging

LEMMA CellsEdited ==
    ASSUME NEW q, Logging(q), CellsLand(changes, current, native),
           \A c \in Con, v \in Var :
              \/ /\ cells'[c][v] = cells[c][v]
                 /\ \A op \in ToSet(q) :
                       /\ op.kind \in {"SetCell", "RemoveCell"}
                             => op.target # c \/ op.var # v
                       /\ op.kind \in {"AddLinearRows", "RemoveConstraint"} => op.con # c
                       /\ op.kind = "RemoveVariable" => op.var # v
              \/ CoeffLands(changes \o q, native, c, v, cells'[c][v]),
           \A o \in Obj, v \in Var :
              \/ /\ cells'[o][v] = cells[o][v]
                 /\ \A op \in ToSet(q) :
                       /\ op.kind \in {"SetCell", "RemoveCell"}
                             => op.target # o \/ op.var # v
                       /\ op.kind \in {"AddObjective", "RemoveObjective"} => op.obj # o
                       /\ op.kind = "RemoveVariable" => op.var # v
              \/ CostLands(changes \o q, current, native, o, v, cells'[o][v])
    PROVE  CellsLand(changes, current, native)'
<1>1. ASSUME NEW c \in Con, NEW v \in Var
      PROVE  CoeffLands(changes \o q, native, c, v, cells'[c][v])
  <2>1. CoeffLands(changes, native, c, v, cells[c][v])
    BY DEF CellsLand
  <2> QED
    BY <2>1, CoeffLogged DEF Logging
<1>2. ASSUME NEW o \in Obj, NEW v \in Var
      PROVE  CostLands(changes \o q, current, native, o, v, cells'[o][v])
  <2>1. CostLands(changes, current, native, o, v, cells[o][v])
    BY DEF CellsLand
  <2> QED
    BY <2>1, CostLogged DEF Logging
<1> QED
  BY <1>1, <1>2 DEF CellsLand, Logging

LEMMA ObjectivesEdited ==
    ASSUME NEW q, Logging(q), ObjectivesLand(changes, current, native),
           \A o \in Obj :
              \/ /\ objectives'[o] = objectives[o]
                 /\ \A op \in ToSet(q) :
                       op.kind \in {"AddObjective", "RemoveObjective", "SetObjectiveConstant"}
                           => op.obj # o
              \/ ObjectiveLands(changes \o q, current, native, o, objectives'[o]),
           \A o \in Obj :
              \/ /\ Flag(active' = o) = Flag(active = o)
                 /\ \A op \in ToSet(q) : /\ op.kind # "SetActiveObjective"
                                         /\ op.kind = "RemoveObjective" => op.obj # o
              \/ PolicyLands(changes \o q, current, o, active')
    PROVE  ObjectivesLand(changes, current, native)'
<1>1. ASSUME NEW o \in Obj
      PROVE  ObjectiveLands(changes \o q, current, native, o, objectives'[o])
  <2>1. ObjectiveLands(changes, current, native, o, objectives[o])
    BY DEF ObjectivesLand
  <2> QED
    BY <2>1, ObjectiveLogged DEF Logging
<1>2. ASSUME NEW o \in Obj
      PROVE  PolicyLands(changes \o q, current, o, active')
  <2>1. PolicyLands(changes, current, o, active)
    BY DEF ObjectivesLand
  <2>2. CASE /\ Flag(active' = o) = Flag(active = o)
             /\ \A op \in ToSet(q) : /\ op.kind # "SetActiveObjective"
                                     /\ op.kind = "RemoveObjective" => op.obj # o
    <3>1. PolicyLands(changes \o q, current, o, active)
      BY <2>1, <2>2, PolicyLogged DEF Logging
    <3> QED
      BY <3>1, <2>2 DEF PolicyLands
  <2> QED
    BY <2>2
<1> QED
  BY <1>1, <1>2 DEF ObjectivesLand, Logging

LEMMA PenaltiesEdited ==
    ASSUME NEW q, Logging(q), PenaltiesLand(changes, current, native),
           \A o \in Obj : (o \in LiveObjs \/ o \notin used)' =>
              \/ /\ o \in LiveObjs \/ o \notin used
                 /\ Charging(o)' = Charging(o)
                 /\ \A op \in ToSet(q) : op.kind \in ChargeKinds => op.obj # o
              \/ ChargesLand(changes \o q, current, native, o, Charging(o)')
    PROVE  PenaltiesLand(changes, current, native)'
<1>1. ASSUME NEW o \in Obj, (o \in LiveObjs \/ o \notin used)'
      PROVE  ChargesLand(changes \o q, current, native, o, Charging(o)')
  <2>1. CASE /\ o \in LiveObjs \/ o \notin used
             /\ Charging(o)' = Charging(o)
             /\ \A op \in ToSet(q) : op.kind \in ChargeKinds => op.obj # o
    <3>1. ChargesLand(changes, current, native, o, Charging(o))
      BY <2>1 DEF PenaltiesLand
    <3> QED
      BY <3>1, <2>1, ChargesLogged DEF Logging
  <2> QED
    BY <1>1, <2>1
<1> QED
  BY <1>1 DEF PenaltiesLand, Logging

LEMMA ConstructsEdited ==
    ASSUME NEW q, Logging(q), ConstructsFit(native), Dependencies' = Dependencies,
           \A k \in Construct : Generated(k)' = Generated(k)
    PROVE  ConstructsFit(native)'
BY DEF ConstructsFit, Logging

-----------------------------------------------------------------------------
(* Edits keep the invariant *)

LEMMA BlockedLogged ==
    ASSUME NEW p \in Seq(Ops), NEW q \in Seq(Ops), ~Blocked(p \o q)
    PROVE  ~Blocked(p) /\ \A op \in ToSet(q) : ~Blocking(op)
<1>1. ASSUME NEW i \in 1..Len(p) PROVE ~Blocking(p[i])
  <2>1. i \in 1..Len(p \o q) /\ (p \o q)[i] = p[i]
    BY AppendedOps
  <2> QED
    BY <2>1 DEF Blocked
<1>2. ASSUME NEW op \in ToSet(q) PROVE ~Blocking(op)
  <2>1. PICK i \in 1..Len(q) : op = q[i]
    BY AppendedOps
  <2>2. Len(p) + i \in 1..Len(p \o q) /\ (p \o q)[Len(p) + i] = op
    BY <2>1, AppendedOps
  <2> QED
    BY <2>2 DEF Blocked
<1> QED
  BY <1>1, <1>2 DEF Blocked

LEMMA AddedOnceLogged ==
    ASSUME NEW p \in Seq(Ops), NEW q \in Seq(Ops), NEW objs, AddedOnce(p, objs),
           objs \subseteq used, used \subseteq used',
           \A op \in ToSet(q), o \in Obj :
              Adding(op, o) => o \in used' \ used /\ Len(q) = 1
    PROVE  \A i \in 1..Len(p \o q), o \in Obj : Adding((p \o q)[i], o) =>
              /\ o \in used'
              /\ o \notin objs
              /\ \A j \in 1..Len(p \o q) : Adding((p \o q)[j], o) => j = i
<1> DEFINE r == p \o q
<1> SUFFICES ASSUME NEW i \in 1..Len(r), NEW o \in Obj, Adding(r[i], o)
             PROVE  /\ o \in used'
                    /\ o \notin objs
                    /\ \A j \in 1..Len(r) : Adding(r[j], o) => j = i
  OBVIOUS
<1>1. Len(p) \in Nat /\ Len(q) \in Nat /\ Len(r) = Len(p) + Len(q)
  BY AppendedOps
<1>2. \A j \in 1..Len(p) : r[j] = p[j]
  BY AppendedOps
<1>3. \A j \in 1..Len(r) : j > Len(p) => r[j] \in ToSet(q)
  BY AppendedOps
<1> HIDE DEF r
<1>4. CASE i <= Len(p)
  <2>1. i \in 1..Len(p) /\ Adding(p[i], o)
    BY <1>1, <1>2, <1>4
  <2>2. /\ o \in used /\ o \notin objs
        /\ \A j \in 1..Len(p) : Adding(p[j], o) => j = i
    BY <2>1 DEF AddedOnce
  <2>3. ASSUME NEW j \in 1..Len(r), Adding(r[j], o) PROVE j = i
    <3>1. CASE j <= Len(p)
      BY <1>1, <1>2, <2>2, <2>3, <3>1
    <3>2. CASE j > Len(p)
      BY <1>3, <2>2, <2>3, <3>2
    <3> QED
      BY <1>1, <3>1, <3>2
  <2> QED
    BY <2>2, <2>3
<1>5. CASE i > Len(p)
  <2>1. o \in used' \ used /\ Len(q) = 1
    BY <1>3, <1>5
  <2>2. ASSUME NEW j \in 1..Len(r), Adding(r[j], o) PROVE j = i
    <3>1. CASE j <= Len(p)
      <4>1. j \in 1..Len(p) /\ Adding(p[j], o)
        BY <1>1, <1>2, <2>2, <3>1
      <4> QED
        BY <4>1, <2>1 DEF AddedOnce
    <3>2. CASE j > Len(p)
      BY <1>1, <1>5, <2>1, <3>2
    <3> QED
      BY <1>1, <3>1, <3>2
  <2> QED
    BY <2>1, <2>2
<1> QED
  BY <1>1, <1>4, <1>5

(* An edit keeps the invariant if the model stays a model and, provided that *)
(* it logs nothing that leads to a rebuild, what it logs leads to what it    *)
(* makes of the model.                                                       *)
LEMMA EditStep ==
    ASSUME IInv, Editing, NEW q \in Seq(Ops), Log(q),
           ModelTyped', NamesUsed', used \subseteq used',
           \A op \in ToSet(q), o \in Obj :
              Adding(op, o) => o \in used' \ used /\ Len(q) = 1,
           /\ Logging(q)
           /\ \A op \in ToSet(q) : ~Blocking(op)
           /\ Fits(changes, current, native)
           => Fits(changes, current, native)'
    PROVE  IInv'
<1>1. /\ phase = "editing" /\ phase' = "editing" /\ mustRebuild' = mustRebuild
      /\ todo' = todo /\ current' = current /\ work' = work /\ native' = native
      /\ changes' = IF mustRebuild THEN changes ELSE changes \o q
  BY DEF Editing, Log, syncVars
<1>2. /\ Pending = changes /\ Compiler = current /\ Backend = native
      /\ Pending' = changes' /\ Compiler' = current' /\ Backend' = native'
  BY <1>1 DEF Pending, Compiler, Backend
<1>3. /\ changes \in Seq(Ops) /\ todo \in Seq(Ops) /\ mustRebuild \in BOOLEAN
      /\ mustRebuild => changes = <<>>
  BY DEF IInv, SyncTyped
<1>4. changes' \in Seq(Ops)
  BY <1>1, <1>3, AppendedOps
<1>5. SyncTyped'
  BY <1>1, <1>3, <1>4 DEF SyncTyped
<1>6. current \in Compilers /\ NativeTyped(native) /\ Consistent(current, native)
  BY DEF IInv, BasesTyped
<1>7. native.objectives \subseteq used
  BY <1>6 DEF Consistent, ObjectivesAgree
<1>8. BasesTyped'
  <2>1. Consistent(current, native)'
    BY <1>1, <1>6 DEF Consistent, ColumnsAgree, RowsAgree, ObjectivesAgree, Projected
  <2>2. NativeTyped(native)'
    BY <1>1, <1>6 DEF NativeTyped
  <2> QED
    BY <1>1, <1>6, <2>1, <2>2 DEF BasesTyped
<1>9. AddedOnce(Pending, Backend.objectives)'
  <2>1. CASE mustRebuild
    BY <1>1, <1>2, <1>3, <2>1 DEF AddedOnce
  <2>2. CASE ~mustRebuild
    <3>1. AddedOnce(changes, native.objectives)
      BY <1>2 DEF IInv
    <3>2. \A i \in 1..Len(changes \o q), o \in Obj : Adding((changes \o q)[i], o) =>
             /\ o \in used'
             /\ o \notin native.objectives
             /\ \A j \in 1..Len(changes \o q) : Adding((changes \o q)[j], o) => j = i
      BY <1>3, <1>7, <3>1, AddedOnceLogged
    <3>3. Pending' = changes \o q /\ Backend'.objectives = native.objectives
      BY <1>1, <1>2, <2>2
    <3> QED
      BY <3>2, <3>3 DEF AddedOnce
  <2> QED
    BY <2>1, <2>2
<1>10. Fit'
  <2> SUFFICES ASSUME ~mustRebuild', ~Blocked(Pending)'
               PROVE  Fits(Pending, Compiler, Backend)'
    BY DEF Fit
  <2>1. Logging(q)
    BY <1>1, <1>3 DEF Logging
  <2>2. ~Blocked(changes \o q)
    BY <1>1, <1>2 DEF Blocked, Blocking
  <2>3. ~Blocked(changes) /\ \A op \in ToSet(q) : ~Blocking(op)
    BY <1>3, <2>2, BlockedLogged
  <2>4. Fits(changes, current, native)
    BY <1>1, <1>2, <2>3 DEF IInv, Fit
  <2>5. Fits(changes, current, native)'
    BY <2>1, <2>3, <2>4
  <2> QED
    BY <2>5, <1>2
<1> QED
  BY <1>5, <1>8, <1>9, <1>10 DEF IInv

-----------------------------------------------------------------------------
(* The data of the edits *)

LEMMA ProgramTyped ==
    ASSUME ModelTyped
    PROVE  /\ program.bounds \subseteq SUBSET Value
           /\ program.rowBounds \subseteq SUBSET Value
           /\ program.types \subseteq Types
           /\ program.coefs \subseteq Int
           /\ program.offsets \subseteq Int
<1>1. program \in Programs
  BY DEF ModelTyped
<1>2. program.types \subseteq Types
  BY <1>1 DEF Types
<1> QED
  BY <1>1, <1>2, ProgramsAssumption

\* A construct's dependencies name what its formulation is generated from.
LEMMA DependenciesCover ==
    ASSUME NEW k \in ActiveConstructs
    PROVE  /\ Refers[k] \subseteq Dependencies
           /\ Softens[k] # None => /\ Softens[k] \in Dependencies
                                   /\ CellsOf(Softens[k]) \subseteq Dependencies
BY DEF Dependencies, DependenciesOf

\* Edits that stay clear of what the active constructs depend on.
LEMMA ConstructsUnaffected ==
    ASSUME UNCHANGED constructs,
           \A k \in ActiveConstructs :
              /\ \A w \in Refers[k] : variables'[w] = variables[w]
              /\ Softens[k] # None =>
                    /\ constraints'[Softens[k]] = constraints[Softens[k]]
                    /\ cells'[Softens[k]] = cells[Softens[k]]
    PROVE  /\ Dependencies' = Dependencies
           /\ \A k \in Construct : Generated(k)' = Generated(k)
           /\ \A o \in Obj : Charging(o)' = Charging(o)
           /\ \A c \in Con : Softened(c)' = Softened(c)
<1>1. ActiveConstructs' = ActiveConstructs
  BY DEF ActiveConstructs
<1>2. ASSUME NEW k \in ActiveConstructs
      PROVE  DependenciesOf(k)' = DependenciesOf(k)
  BY <1>2 DEF DependenciesOf, CellsOf
<1>3. Dependencies' = Dependencies
  BY <1>1, <1>2 DEF Dependencies
<1>4. ASSUME NEW k \in Construct
      PROVE  Generated(k)' = Generated(k)
  <2>1. CASE k \notin ActiveConstructs
    BY <2>1, <1>1 DEF Generated
  <2>2. CASE k \in ActiveConstructs /\ Softens[k] # None
    BY <2>2, <1>1 DEF Generated
  <2>3. CASE k \in ActiveConstructs /\ Softens[k] = None
    <3>1. \A w \in Refers[k] : variables'[w] = variables[w]
      BY <2>3
    <3>2. Refers[k] \cap LiveVars' = Refers[k] \cap LiveVars
      BY <3>1 DEF LiveVars
    <3>3. \A w \in Refers[k] \cap LiveVars : EffectiveBounds(w)' = EffectiveBounds(w)
      BY <3>1 DEF EffectiveBounds
    <3>4. [w \in Refers[k] \cap LiveVars |-> EffectiveBounds(w)]'
             = [w \in Refers[k] \cap LiveVars |-> EffectiveBounds(w)]
      BY <3>2, <3>3
    <3> QED
      BY <2>3, <1>1, <3>4 DEF Generated
  <2> QED
    BY <2>1, <2>2, <2>3
<1>5. \A o \in Obj : Charging(o)' = Charging(o)
  BY <1>1 DEF Charging
<1>6. \A c \in Con : Softened(c)' = Softened(c)
  BY <1>1 DEF Softened, Anchored
<1> QED
  BY <1>3, <1>4, <1>5, <1>6

\* A variable's data changes.
LEMMA VariableEdited ==
    ASSUME ModelTyped, NamesUsed, NEW v \in LiveVars, NEW d \in VariableData,
           variables' = [variables EXCEPT ![v] = d],
           UNCHANGED <<program, constraints, objectives, active, cells, constructs, used>>
    PROVE  /\ ModelTyped' /\ NamesUsed'
           /\ variables'[v] = d
           /\ \A w \in Var : w # v => variables'[w] = variables[w]
           /\ LiveObjs' = LiveObjs
<1>1. v \in Var /\ d # None
  BY NoneAssumption DEF LiveVars
<1>2. variables' \in [Var -> VariableData \cup {None}]
  BY <1>1 DEF ModelTyped
<1>3. variables'[v] = d /\ \A w \in Var : w # v => variables'[w] = variables[w]
  BY <1>1 DEF ModelTyped
<1>4. LiveVars' = LiveVars
  BY <1>1, <1>3 DEF LiveVars
<1>5. LiveCons' = LiveCons /\ LiveObjs' = LiveObjs
  BY DEF LiveCons, LiveObjs
<1>6. ModelTyped'
  BY <1>2, <1>5 DEF ModelTyped
<1>7. NamesUsed'
  BY <1>4, <1>5 DEF NamesUsed
<1> QED
  BY <1>3, <1>5, <1>6, <1>7

\* The bounds of a variable change, and the column is told.
LEMMA VariableBoundsEdited ==
    ASSUME IInv, NEW v \in LiveVars, NEW d \in VariableData,
           variables' = [variables EXCEPT ![v] = d],
           UNCHANGED <<program, constraints, objectives, active, cells, constructs, used>>,
           Editing, NEW op \in Ops, Log(<<op>>),
           op.kind \in {"SetVariableBounds", "SetVariableFixing"}, op.var = v,
           d.type = variables[v].type, d.active = variables[v].active,
           Unfolded(d) => BoundsWrites(v)[op] = {d.bounds}
    PROVE  IInv'
<1>1. ModelTyped /\ NamesUsed
  BY DEF IInv
<1>2. /\ ModelTyped' /\ NamesUsed'
      /\ variables'[v] = d /\ LiveObjs' = LiveObjs
      /\ \A w \in Var : w # v => variables'[w] = variables[w]
  BY <1>1, VariableEdited
<1>3. v \in Var /\ variables[v] # None /\ d # None
  BY NoneAssumption DEF LiveVars
<1>4. <<op>> \in Seq(Ops) /\ ToSet(<<op>>) = {op}
  BY OneOp
<1> DEFINE q == <<op>>
<1>5. q \in Seq(Ops) /\ ToSet(q) = {op}
  BY <1>4
<1>6. Log(q)
  OBVIOUS
<1> HIDE DEF q
<1>7. ASSUME Logging(q), \A e \in ToSet(q) : ~Blocking(e), Fits(changes, current, native)
      PROVE  Fits(changes, current, native)'
  <2>1. v \notin Dependencies
    BY <1>5, <1>7 DEF Blocking, Fits, ConstructsFit
  <2>2. /\ Dependencies' = Dependencies
        /\ \A k \in Construct : Generated(k)' = Generated(k)
        /\ \A o \in Obj : Charging(o)' = Charging(o)
        /\ \A c \in Con : Softened(c)' = Softened(c)
    <3>1. ASSUME NEW k \in ActiveConstructs, NEW w \in Refers[k]
          PROVE  variables'[w] = variables[w]
      <4>1. w \in Var /\ w # v
        BY <2>1, DependenciesCover, ConstructAssumption DEF ActiveConstructs
      <4> QED
        BY <4>1, <1>2
    <3> QED
      BY <3>1, ConstructsUnaffected
  <2>3. ColumnLands(changes \o q, current, native, v, d)
    <3>1. ColumnLands(changes, current, native, v, variables[v])
      BY <1>3, <1>7 DEF Fits, ColumnsLand
    <3>2. /\ TypeWrites(v)[op] = {} /\ ActivityWrites(v)[op] = {}
          /\ ~(op.kind \in {"AddVariable", "RemoveVariable"} /\ op.var = v)
      BY DEF TypeWrites, ActivityWrites
    <3>3. /\ changes \in Seq(Ops) /\ q \in Seq(Ops) /\ ToSet(q) = {op}
      BY <1>5, <1>7 DEF Logging
    <3>4. Lands(TypeWrites(v), changes \o q, ColumnType(native, v), TypeOf(d))
      <4>1. TypeOf(d) = TypeOf(variables[v])
        BY <1>3 DEF TypeOf
      <4> QED
        BY <3>1, <3>2, <3>3, <4>1, LandsLoggedAlone DEF ColumnLands
    <3>5. ASSUME Unfolded(d)
          PROVE  Lands(BoundsWrites(v), changes \o q, ColumnBounds(native, v), BoundsOf(d))
      <4>1. BoundsWrites(v)[op] = {BoundsOf(d)}
        BY <1>3, <3>5 DEF BoundsOf
      <4> QED
        BY <3>3, <4>1, LandsLogged
    <3>6. ASSUME d.active
          PROVE  Lands(ActivityWrites(v), changes \o q, Flag(current.activity[v]), 1)
      BY <1>3, <3>1, <3>2, <3>3, <3>6, LandsLoggedAlone DEF ColumnLands
    <3>7. ASSUME ~d.active
          PROVE  /\ ~Writing(changes \o q, v) /\ native.cols[v] # None
                 /\ native.cols[v].bounds = {0} /\ ~current.activity[v]
      <4>1. /\ ~Writing(changes, v) /\ native.cols[v] # None
            /\ native.cols[v].bounds = {0} /\ ~current.activity[v]
        BY <1>3, <3>1, <3>7 DEF ColumnLands
      <4> QED
        BY <4>1, <3>2, <3>3, WritingLogged
    <3> QED
      BY <3>4, <3>5, <3>6, <3>7 DEF ColumnLands
  <2>4. ColumnsLand(changes, current, native)'
    BY <1>2, <1>5, <1>7, <2>3, ColumnsEdited DEF Fits
  <2>5. RowsLand(changes, native)'
    BY <1>5, <1>7, <2>2, RowsEdited DEF Fits, RowKinds
  <2>6. CellsLand(changes, current, native)'
    BY <1>5, <1>7, CellsEdited DEF Fits
  <2>7. ObjectivesLand(changes, current, native)'
    BY <1>5, <1>7, ObjectivesEdited DEF Fits
  <2>8. PenaltiesLand(changes, current, native)'
    BY <1>2, <1>5, <1>7, <2>2, PenaltiesEdited DEF Fits, ChargeKinds
  <2>9. ConstructsFit(native)'
    BY <1>7, <2>2, ConstructsEdited DEF Fits
  <2> QED
    BY <2>4, <2>5, <2>6, <2>7, <2>8, <2>9 DEF Fits
<1>8. \A e \in ToSet(q), o \in Obj : ~Adding(e, o)
  BY <1>5 DEF Adding
<1> QED
  BY <1>2, <1>5, <1>6, <1>7, <1>8, EditStep

LEMMA SetVariableBoundsStep ==
    ASSUME IInv, UNCHANGED program, NEW v \in Var, NEW b \in program.bounds,
           SetVariableBounds(v, b)
    PROVE  IInv'
<1> DEFINE d == [variables[v] EXCEPT !.bounds = b]
<1>1. v \in LiveVars /\ variables[v] \in VariableData /\ b \in SUBSET Value
  BY DataTyped, ProgramTyped DEF SetVariableBounds, IInv
<1>2. /\ d \in VariableData /\ d.type = variables[v].type
      /\ d.active = variables[v].active /\ d.bounds = b
  BY <1>1 DEF VariableData
<1>3. /\ Editing /\ Log(<<BoundsOp(v, b)>>)
      /\ variables' = [variables EXCEPT ![v] = d]
      /\ UNCHANGED <<program, constraints, objectives, active, cells, constructs, used>>
  BY DEF SetVariableBounds
<1> HIDE DEF d
<1>4. /\ BoundsOp(v, b) \in Ops /\ BoundsOp(v, b).kind = "SetVariableBounds"
      /\ BoundsOp(v, b).var = v /\ BoundsOp(v, b).bounds = b
  BY <1>1, OpIsOp DEF BoundsOp
<1>5. BoundsWrites(v)[BoundsOp(v, b)] = {d.bounds}
  BY <1>2, <1>4 DEF BoundsWrites
<1> QED
  BY <1>1, <1>2, <1>3, <1>4, <1>5, VariableBoundsEdited

LEMMA FixStep ==
    ASSUME IInv, UNCHANGED program, NEW v \in Var, NEW x, Fix(v, x)
    PROVE  IInv'
<1> DEFINE d == [variables[v] EXCEPT !.fixing = x]
           op == [kind |-> "SetVariableFixing", var |-> v, effective |-> {x}]
<1>1. /\ v \in LiveVars /\ variables[v] \in VariableData
      /\ x \in variables[v].bounds
  BY DataTyped DEF Fix, IInv
<1>2. x \in Value /\ x # None
  BY <1>1, NoneAssumption, ValueAssumption DEF VariableData
<1>3. /\ d \in VariableData /\ d.type = variables[v].type
      /\ d.active = variables[v].active /\ d.fixing = x
  BY <1>1, <1>2 DEF VariableData
<1>4. /\ Editing /\ Log(<<op>>)
      /\ variables' = [variables EXCEPT ![v] = d]
      /\ UNCHANGED <<program, constraints, objectives, active, cells, constructs, used>>
  BY DEF Fix
<1>5. op \in Ops /\ op.kind = "SetVariableFixing" /\ op.var = v
  BY <1>2, OpIsOp
<1> HIDE DEF d, op
<1>6. ~Unfolded(d)
  BY <1>2, <1>3, NoneAssumption DEF Unfolded
<1> QED
  BY <1>1, <1>3, <1>4, <1>5, <1>6, VariableBoundsEdited

LEMMA UnfixStep ==
    ASSUME IInv, UNCHANGED program, NEW v \in Var, Unfix(v)
    PROVE  IInv'
<1> DEFINE d == [variables[v] EXCEPT !.fixing = None]
           op == [kind |-> "SetVariableFixing", var |-> v,
                  effective |-> variables[v].bounds]
<1>1. v \in LiveVars /\ variables[v] \in VariableData
  BY DataTyped DEF Unfix, IInv
<1>2. /\ d \in VariableData /\ d.type = variables[v].type
      /\ d.active = variables[v].active /\ d.bounds = variables[v].bounds
  BY <1>1 DEF VariableData
<1>3. /\ Editing /\ Log(<<op>>)
      /\ variables' = [variables EXCEPT ![v] = d]
      /\ UNCHANGED <<program, constraints, objectives, active, cells, constructs, used>>
  BY DEF Unfix
<1>4. /\ op \in Ops /\ op.kind = "SetVariableFixing" /\ op.var = v
      /\ op.effective = variables[v].bounds
  <2>1. variables[v].bounds \in SUBSET Value
    BY <1>1 DEF VariableData
  <2> QED
    BY <2>1, OpIsOp
<1> HIDE DEF d, op
<1>5. BoundsWrites(v)[op] = {d.bounds}
  BY <1>2, <1>4 DEF BoundsWrites
<1> QED
  BY <1>1, <1>2, <1>3, <1>4, <1>5, VariableBoundsEdited

-----------------------------------------------------------------------------
(* Edits that lead to a rebuild *)

LEMMA BlockingEdit ==
    ASSUME IInv, Editing, NEW q \in Seq(Ops), Log(q),
           ModelTyped', NamesUsed', used \subseteq used',
           \A op \in ToSet(q), o \in Obj : ~Adding(op, o),
           \E op \in ToSet(q) : Blocking(op)
    PROVE  IInv'
BY EditStep

LEMMA SetVariableActiveStep ==
    ASSUME IInv, UNCHANGED program, NEW v \in Var, SetVariableActive(v)
    PROVE  IInv'
<1> DEFINE d == [variables[v] EXCEPT !.active = ~@]
           op == [kind |-> "SetVariableActive", var |-> v]
<1>1. v \in LiveVars /\ variables[v] \in VariableData
  BY DataTyped DEF SetVariableActive, IInv
<1>2. d \in VariableData
  BY <1>1 DEF VariableData
<1>3. /\ Editing /\ Log(<<op>>)
      /\ variables' = [variables EXCEPT ![v] = d]
      /\ UNCHANGED <<program, constraints, objectives, active, cells, constructs, used>>
  BY DEF SetVariableActive
<1>4. op \in Ops /\ op.kind = "SetVariableActive"
  BY OpIsOp
<1> HIDE DEF d, op
<1>5. ModelTyped' /\ NamesUsed'
  BY <1>1, <1>2, <1>3, VariableEdited DEF IInv
<1>6. <<op>> \in Seq(Ops) /\ ToSet(<<op>>) = {op}
  BY <1>4, OneOp
<1> QED
  BY <1>3, <1>4, <1>5, <1>6, BlockingEdit DEF Adding, Blocking

LEMMA SetVariableTypeStep ==
    ASSUME IInv, UNCHANGED program, NEW v \in Var, NEW type \in program.types,
           SetVariableType(v, type)
    PROVE  IInv'
<1> DEFINE d == [variables[v] EXCEPT !.type = type]
           op == [kind |-> "SetVariableType", var |-> v]
<1>1. v \in LiveVars /\ variables[v] \in VariableData /\ type \in Types
  BY DataTyped, ProgramTyped DEF SetVariableType, IInv
<1>2. d \in VariableData
  BY <1>1 DEF VariableData
<1>3. /\ Editing /\ Log(<<op>>)
      /\ variables' = [variables EXCEPT ![v] = d]
      /\ UNCHANGED <<program, constraints, objectives, active, cells, constructs, used>>
  BY DEF SetVariableType
<1>4. op \in Ops /\ op.kind = "SetVariableType"
  BY OpIsOp
<1> HIDE DEF d, op
<1>5. ModelTyped' /\ NamesUsed'
  BY <1>1, <1>2, <1>3, VariableEdited DEF IInv
<1>6. <<op>> \in Seq(Ops) /\ ToSet(<<op>>) = {op}
  BY <1>4, OneOp
<1> QED
  BY <1>3, <1>4, <1>5, <1>6, BlockingEdit DEF Adding, Blocking

LEMMA SetSemicontinuousStep ==
    ASSUME IInv, UNCHANGED program, NEW v \in Var, NEW lower, SetSemicontinuous(v, lower)
    PROVE  IInv'
<1> DEFINE raised == {x \in variables[v].bounds : x >= lower}
           d == [variables[v] EXCEPT !.bounds = raised, !.semi = TRUE]
           op == [kind |-> "SetSemiContinuousBound", var |-> v]
           first == IF raised = variables[v].bounds THEN <<>> ELSE <<BoundsOp(v, raised)>>
<1>1. v \in LiveVars /\ variables[v] \in VariableData
  BY DataTyped DEF SetSemicontinuous, IInv
<1>2. raised \in SUBSET Value
  BY <1>1 DEF VariableData
<1>3. /\ Editing /\ Log(first \o <<op>>)
      /\ variables' = [variables EXCEPT ![v].bounds = raised, ![v].semi = TRUE]
      /\ UNCHANGED <<program, constraints, objectives, active, cells, constructs, used>>
  BY DEF SetSemicontinuous
<1> HIDE DEF raised
<1>4. d \in VariableData
  BY <1>1, <1>2 DEF VariableData
<1>5. variables' = [variables EXCEPT ![v] = d]
  BY <1>1, <1>3 DEF IInv, ModelTyped
<1>6. op \in Ops /\ op.kind = "SetSemiContinuousBound"
  BY OpIsOp
<1>7. BoundsOp(v, raised) \in Ops /\ BoundsOp(v, raised).kind = "SetVariableBounds"
  BY <1>2, OpIsOp DEF BoundsOp
<1>8. first \in Seq(Ops) /\ \A e \in ToSet(first) : e.kind = "SetVariableBounds"
  <2>1. CASE first = <<>>
    BY <2>1, EmptySeq DEF ToSet
  <2>2. CASE first = <<BoundsOp(v, raised)>>
    BY <2>2, <1>7, OneOp
  <2> QED
    BY <2>1, <2>2
<1>9. <<op>> \in Seq(Ops) /\ ToSet(<<op>>) = {op}
  BY <1>6, OneOp
<1> HIDE DEF d, op, first
<1>10. ModelTyped' /\ NamesUsed'
  BY <1>1, <1>3, <1>4, <1>5, VariableEdited DEF IInv
<1>11. /\ first \o <<op>> \in Seq(Ops)
       /\ ToSet(first \o <<op>>) = ToSet(first) \cup {op}
  BY <1>8, <1>9, Concatenated
<1> QED
  BY <1>3, <1>6, <1>8, <1>10, <1>11, BlockingEdit DEF Adding, Blocking

\* A constraint's data changes.
LEMMA ConstraintEdited ==
    ASSUME ModelTyped, NamesUsed, NEW c \in LiveCons, NEW d \in ConstraintData,
           constraints' = [constraints EXCEPT ![c] = d],
           UNCHANGED <<program, variables, objectives, active, cells, constructs, used>>
    PROVE  /\ ModelTyped' /\ NamesUsed'
           /\ constraints'[c] = d
           /\ \A e \in Con : e # c => constraints'[e] = constraints[e]
           /\ LiveObjs' = LiveObjs
<1>1. c \in Con /\ d # None
  BY NoneAssumption DEF LiveCons
<1>2. constraints' \in [Con -> ConstraintData \cup {None}]
  BY <1>1 DEF ModelTyped
<1>3. constraints'[c] = d /\ \A e \in Con : e # c => constraints'[e] = constraints[e]
  BY <1>1 DEF ModelTyped
<1>4. LiveCons' = LiveCons
  BY <1>1, <1>3 DEF LiveCons
<1>5. LiveVars' = LiveVars /\ LiveObjs' = LiveObjs
  BY DEF LiveVars, LiveObjs
<1>6. ModelTyped'
  BY <1>2, <1>4, <1>5 DEF ModelTyped
<1>7. NamesUsed'
  BY <1>4, <1>5 DEF NamesUsed
<1> QED
  BY <1>3, <1>5, <1>6, <1>7

LEMMA SetConstraintActiveStep ==
    ASSUME IInv, UNCHANGED program, NEW c \in Con, SetConstraintActive(c)
    PROVE  IInv'
<1> DEFINE d == [constraints[c] EXCEPT !.active = ~@]
           op == [kind |-> "SetConstraintActive", con |-> c]
<1>1. c \in LiveCons /\ constraints[c] \in ConstraintData
  BY DataTyped DEF SetConstraintActive, IInv
<1>2. d \in ConstraintData
  BY <1>1 DEF ConstraintData
<1>3. /\ Editing /\ Log(<<op>>)
      /\ constraints' = [constraints EXCEPT ![c] = d]
      /\ UNCHANGED <<program, variables, objectives, active, cells, constructs, used>>
  BY DEF SetConstraintActive
<1>4. op \in Ops /\ op.kind = "SetConstraintActive"
  BY OpIsOp
<1> HIDE DEF d, op
<1>5. ModelTyped' /\ NamesUsed'
  BY <1>1, <1>2, <1>3, ConstraintEdited DEF IInv
<1>6. <<op>> \in Seq(Ops) /\ ToSet(<<op>>) = {op}
  BY <1>4, OneOp
<1> QED
  BY <1>3, <1>4, <1>5, <1>6, BlockingEdit DEF Adding, Blocking

\* A construct is added, removed or switched.
LEMMA ConstructEdited ==
    ASSUME ModelTyped, NamesUsed, NEW k \in Construct, NEW s \in {"active", "inactive", None},
           constructs' = [constructs EXCEPT ![k] = s], used \subseteq used',
           UNCHANGED <<program, variables, constraints, objectives, active, cells>>,
           s # None => /\ Refers[k] \subseteq used'
                       /\ Softens[k] \in used' \cup {None}
                       /\ Softens[k] # None => Penalises[k] \in used' \cup {None}
    PROVE  ModelTyped' /\ NamesUsed'
<1>1. constructs' \in [Construct -> {"active", "inactive", None}]
  BY DEF ModelTyped
<1>2. LiveVars' = LiveVars /\ LiveCons' = LiveCons /\ LiveObjs' = LiveObjs
  BY DEF LiveVars, LiveCons, LiveObjs
<1>3. ModelTyped'
  BY <1>1, <1>2 DEF ModelTyped
<1>4. constructs'[k] = s /\ \A j \in Construct : j # k => constructs'[j] = constructs[j]
  BY DEF ModelTyped
<1>5. NamesUsed'
  <2>1. (LiveVars \cup LiveCons \cup LiveObjs \subseteq used)'
    BY <1>2 DEF NamesUsed
  <2>2. ASSUME NEW j \in Construct, constructs'[j] # None
        PROVE  /\ Refers[j] \subseteq used'
               /\ Softens[j] \in used' \cup {None}
               /\ Softens[j] # None => Penalises[j] \in used' \cup {None}
    <3>1. CASE j = k
      BY <2>2, <3>1, <1>4
    <3>2. CASE j # k
      BY <2>2, <3>2, <1>4 DEF NamesUsed
    <3> QED
      BY <3>1, <3>2
  <2> QED
    BY <2>1, <2>2 DEF NamesUsed
<1> QED
  BY <1>3, <1>5

LEMMA AddConstructStep ==
    ASSUME IInv, UNCHANGED program, NEW k \in Construct, AddConstruct(k)
    PROVE  IInv'
<1> DEFINE op == [kind |-> "AddConstruct", construct |-> k]
<1>1. /\ Editing /\ Log(<<op>>) /\ used' = used \cup {k}
      /\ constructs' = [constructs EXCEPT ![k] = "active"]
      /\ UNCHANGED <<program, variables, constraints, objectives, active, cells>>
  BY DEF AddConstruct, Fresh
<1>2. /\ Refers[k] \subseteq used'
      /\ Softens[k] \in used' \cup {None}
      /\ Softens[k] # None => Penalises[k] \in used' \cup {None}
  BY <1>1 DEF AddConstruct, IInv, NamesUsed
<1>3. op \in Ops /\ op.kind = "AddConstruct"
  BY OpIsOp
<1> HIDE DEF op
<1>4. ModelTyped' /\ NamesUsed'
  BY <1>1, <1>2, ConstructEdited DEF IInv
<1>5. <<op>> \in Seq(Ops) /\ ToSet(<<op>>) = {op}
  BY <1>3, OneOp
<1> QED
  BY <1>1, <1>3, <1>4, <1>5, BlockingEdit DEF Adding, Blocking

LEMMA SetConstructActiveStep ==
    ASSUME IInv, UNCHANGED program, NEW k \in Construct, SetConstructActive(k)
    PROVE  IInv'
<1> DEFINE op == [kind |-> "SetConstructActive", construct |-> k]
           s == IF constructs[k] = "active" THEN "inactive" ELSE "active"
<1>1. /\ Editing /\ Log(<<op>>) /\ constructs[k] # None
      /\ constructs' = [constructs EXCEPT ![k] = s]
      /\ UNCHANGED <<program, variables, constraints, objectives, active, cells, used>>
  BY DEF SetConstructActive
<1>2. s \in {"active", "inactive", None}
  OBVIOUS
<1>3. op \in Ops /\ op.kind = "SetConstructActive"
  BY OpIsOp
<1> HIDE DEF op, s
<1>4. /\ Refers[k] \subseteq used'
      /\ Softens[k] \in used' \cup {None}
      /\ Softens[k] # None => Penalises[k] \in used' \cup {None}
  BY <1>1 DEF IInv, NamesUsed
<1>5. ModelTyped' /\ NamesUsed'
  BY <1>1, <1>2, <1>4, ConstructEdited DEF IInv
<1>6. <<op>> \in Seq(Ops) /\ ToSet(<<op>>) = {op}
  BY <1>3, OneOp
<1> QED
  BY <1>1, <1>3, <1>5, <1>6, BlockingEdit DEF Adding, Blocking

LEMMA RemoveConstructStep ==
    ASSUME IInv, UNCHANGED program, NEW k \in Construct, RemoveConstruct(k)
    PROVE  IInv'
<1> DEFINE op == [kind |-> "RemoveConstruct", construct |-> k]
<1>1. /\ Editing /\ Log(<<op>>)
      /\ constructs' = [constructs EXCEPT ![k] = None]
      /\ UNCHANGED <<program, variables, constraints, objectives, active, cells, used>>
  BY DEF RemoveConstruct
<1>2. op \in Ops /\ op.kind = "RemoveConstruct"
  BY OpIsOp
<1> HIDE DEF op
<1>3. ModelTyped' /\ NamesUsed'
  BY <1>1, ConstructEdited DEF IInv
<1>4. <<op>> \in Seq(Ops) /\ ToSet(<<op>>) = {op}
  BY <1>2, OneOp
<1> QED
  BY <1>1, <1>2, <1>3, <1>4, BlockingEdit DEF Adding, Blocking

-----------------------------------------------------------------------------
(* Variables and rows that come and go *)

LEMMA AddVariableStep ==
    ASSUME IInv, UNCHANGED program, NEW v \in Var, NEW b \in program.bounds,
           NEW type \in program.types, AddVariable(v, b, type)
    PROVE  IInv'
<1> DEFINE d == NewVariable(b, type)
           op == [kind |-> "AddVariable", var |-> v, bounds |-> b, type |-> type]
           q == <<op>>
<1>1. /\ ModelTyped /\ NamesUsed
      /\ v \notin used /\ used' = used \cup {v}
      /\ variables' = [variables EXCEPT ![v] = d]
      /\ Editing /\ Log(q)
      /\ UNCHANGED <<program, constraints, objectives, active, cells, constructs>>
  BY DEF IInv, AddVariable, Fresh
<1>2. b \in SUBSET Value /\ type \in Types
  BY <1>1, ProgramTyped
<1>3. /\ d \in VariableData /\ d # None /\ d.active /\ d.fixing = None
      /\ d.type = type /\ d.bounds = b
  <2>1. d \in VariableData
    BY <1>2 DEF NewVariable, VariableData
  <2>2. d # None
    BY <2>1, NoneAssumption
  <2>3. d.active /\ d.fixing = None /\ d.type = type /\ d.bounds = b
    BY DEF NewVariable
  <2> QED
    BY <2>1, <2>2, <2>3
<1>4. /\ op \in Ops /\ op.kind = "AddVariable" /\ op.var = v /\ op.bounds = b
      /\ op.type = type
  BY <1>2, OpIsOp
<1> HIDE DEF d, op
<1>5. q \in Seq(Ops) /\ ToSet(q) = {op}
  BY <1>4, OneOp
<1> HIDE DEF q
<1>6. variables'[v] = d /\ \A w \in Var : w # v => variables'[w] = variables[w]
  BY <1>1 DEF ModelTyped
<1>7. LiveVars' = LiveVars \cup {v} /\ LiveCons' = LiveCons /\ LiveObjs' = LiveObjs
  BY <1>1, <1>3, <1>6 DEF LiveVars, LiveCons, LiveObjs
<1>8. ModelTyped'
  <2>1. variables' \in [Var -> VariableData \cup {None}]
    BY <1>1, <1>3 DEF ModelTyped
  <2> QED
    BY <1>1, <1>7, <2>1 DEF ModelTyped
<1>9. NamesUsed'
  BY <1>1, <1>7 DEF NamesUsed
<1>10. ASSUME Logging(q), Fits(changes, current, native)
       PROVE  Fits(changes, current, native)'
  <2>1. /\ Dependencies' = Dependencies
        /\ \A k \in Construct : Generated(k)' = Generated(k)
        /\ \A o \in Obj : Charging(o)' = Charging(o)
        /\ \A c \in Con : Softened(c)' = Softened(c)
    <3>1. ASSUME NEW k \in ActiveConstructs, NEW w \in Refers[k]
          PROVE  variables'[w] = variables[w]
      <4>1. k \in Construct /\ constructs[k] # None
        BY NoneAssumption DEF ActiveConstructs
      <4>2. w \in Var /\ w # v
        BY <4>1, <1>1, ConstructAssumption DEF NamesUsed
      <4> QED
        BY <4>2, <1>6
    <3> QED
      BY <1>1, <3>1, ConstructsUnaffected
  <2>2. ColumnLands(changes \o q, current, native, v, d)
    <3>1. /\ TypeWrites(v)[op] = {TypeOf(d)}
          /\ BoundsWrites(v)[op] = {BoundsOf(d)}
          /\ ActivityWrites(v)[op] = {1}
      BY <1>3, <1>4 DEF TypeWrites, BoundsWrites, ActivityWrites, TypeOf, BoundsOf
    <3> QED
      BY <1>3, <1>5, <1>10, <3>1, LandsLogged DEF ColumnLands, Logging
  <2>3. ColumnsLand(changes, current, native)'
    BY <1>4, <1>5, <1>6, <1>10, <2>2, ColumnsEdited DEF Fits
  <2>4. RowsLand(changes, native)'
    BY <1>1, <1>4, <1>5, <1>10, <2>1, RowsEdited DEF Fits, RowKinds
  <2>5. CellsLand(changes, current, native)'
    BY <1>1, <1>4, <1>5, <1>10, CellsEdited DEF Fits
  <2>6. ObjectivesLand(changes, current, native)'
    BY <1>1, <1>4, <1>5, <1>10, ObjectivesEdited DEF Fits
  <2>7. PenaltiesLand(changes, current, native)'
    BY <1>1, <1>4, <1>5, <1>7, <1>10, <2>1, PenaltiesEdited DEF Fits, ChargeKinds
  <2>8. ConstructsFit(native)'
    BY <1>10, <2>1, ConstructsEdited DEF Fits
  <2> QED
    BY <2>3, <2>4, <2>5, <2>6, <2>7, <2>8 DEF Fits
<1>11. \A e \in ToSet(q), o \in Obj : ~Adding(e, o)
  BY <1>4, <1>5 DEF Adding
<1> QED
  BY <1>1, <1>5, <1>8, <1>9, <1>10, <1>11, EditStep

\* The cells of a variable are written, if at all, when they are removed and
\* when it is.
LEMMA RemoveVariableStep ==
    ASSUME IInv, UNCHANGED program, NEW v \in Var, RemoveVariable(v)
    PROVE  IInv'
<1> DEFINE R == {[kind |-> "RemoveCell", target |-> t, var |-> v] : t \in Holding(v)}
           op == [kind |-> "RemoveVariable", var |-> v]
           q == SetToSeq(R) \o <<op>>
<1>1. /\ ModelTyped /\ NamesUsed /\ v \in LiveVars
      /\ variables' = [variables EXCEPT ![v] = None]
      /\ cells' = [t \in Target |-> [cells[t] EXCEPT ![v] = None]]
      /\ Editing /\ Log(q)
      /\ UNCHANGED <<program, constraints, objectives, active, constructs, used>>
  BY DEF IInv, RemoveVariable
<1>2. op \in Ops /\ op.kind = "RemoveVariable" /\ op.var = v
  BY OpIsOp
<1>3. q \in Seq(Ops) /\ ToSet(q) = R \cup {op}
  <2>1. SetToSeq(R) \in Seq(Ops) /\ ToSet(SetToSeq(R)) = R
    BY RemovalsListed DEF Holding
  <2>2. <<op>> \in Seq(Ops) /\ ToSet(<<op>>) = {op}
    BY <1>2, OneOp
  <2> HIDE DEF R, op
  <2> QED
    BY <2>1, <2>2, Concatenated
<1>4. \A e \in R : /\ e \in Ops /\ e.kind = "RemoveCell" /\ e.target \in Holding(v)
                   /\ e.var = v
  BY OpIsOp DEF Holding
<1>5. ASSUME NEW t \in Holding(v)
      PROVE  \E e \in R : e.kind = "RemoveCell" /\ e.target = t /\ e.var = v
  <2> DEFINE e == [kind |-> "RemoveCell", target |-> t, var |-> v]
  <2>1. e \in R /\ e.kind = "RemoveCell" /\ e.target = t /\ e.var = v
    OBVIOUS
  <2> QED
    BY <2>1
<1> HIDE DEF q, R, op
<1>6. variables'[v] = None /\ \A w \in Var : w # v => variables'[w] = variables[w]
  BY <1>1 DEF ModelTyped
<1>7. \A t \in Target : /\ cells'[t] \in Cells /\ cells'[t][v] = None
                        /\ \A w \in Var : w # v => cells'[t][w] = cells[t][w]
                        /\ cells[t][v] = None => cells'[t] = cells[t]
  <2> SUFFICES ASSUME NEW t \in Target
               PROVE  /\ cells'[t] \in Cells /\ cells'[t][v] = None
                      /\ \A w \in Var : w # v => cells'[t][w] = cells[t][w]
                      /\ cells[t][v] = None => cells'[t] = cells[t]
    OBVIOUS
  <2>1. cells[t] \in [Var -> Int \cup {None}]
    BY <1>1 DEF ModelTyped, Cells
  <2>2. cells'[t] = [cells[t] EXCEPT ![v] = None]
    BY <1>1
  <2> QED
    BY <2>1, <2>2 DEF Cells
<1>8. LiveVars' = LiveVars \ {v} /\ LiveCons' = LiveCons /\ LiveObjs' = LiveObjs
  BY <1>1, <1>6 DEF LiveVars, LiveCons, LiveObjs
<1>9. ModelTyped'
  <2>1. variables' \in [Var -> VariableData \cup {None}]
    BY <1>1 DEF ModelTyped
  <2>2. cells' \in [Target -> Cells]
    BY <1>1, <1>7
  <2>3. \A t \in Target : t \notin LiveCons' \cup LiveObjs' => cells'[t] = NoCells
    BY <1>1, <1>7, <1>8 DEF ModelTyped, NoCells
  <2> QED
    BY <1>1, <1>8, <2>1, <2>2, <2>3 DEF ModelTyped
<1>10. NamesUsed'
  BY <1>1, <1>8 DEF NamesUsed
<1>11. ASSUME Logging(q), \A e \in ToSet(q) : ~Blocking(e), Fits(changes, current, native)
       PROVE  Fits(changes, current, native)'
  <2>1. v \notin Dependencies
    BY <1>2, <1>3, <1>11 DEF Blocking, Fits, ConstructsFit
  <2>2. /\ Dependencies' = Dependencies
        /\ \A k \in Construct : Generated(k)' = Generated(k)
        /\ \A o \in Obj : Charging(o)' = Charging(o)
        /\ \A c \in Con : Softened(c)' = Softened(c)
    <3>1. ASSUME NEW k \in ActiveConstructs, NEW w \in Refers[k]
          PROVE  variables'[w] = variables[w]
      <4>1. w \in Var /\ w # v
        BY <2>1, DependenciesCover, ConstructAssumption DEF ActiveConstructs
      <4> QED
        BY <4>1, <1>6
    <3>2. ASSUME NEW k \in ActiveConstructs, Softens[k] # None
          PROVE  cells'[Softens[k]] = cells[Softens[k]]
      <4>1. Softens[k] \in Target
        BY <3>2, ConstructAssumption DEF ActiveConstructs, Target
      <4>2. cells[Softens[k]][v] = None
        BY <2>1, <3>2, DependenciesCover DEF CellsOf
      <4> QED
        BY <4>1, <4>2, <1>7
    <3> QED
      BY <1>1, <3>1, <3>2, ConstructsUnaffected
  <2>3. ColumnLands(changes \o q, current, native, v, None)
    <3>1. TypeWrites(v)[op] = {None} /\ BoundsWrites(v)[op] = {None}
      BY <1>2 DEF TypeWrites, BoundsWrites
    <3>2. \A e \in R : TypeWrites(v)[e] = {} /\ BoundsWrites(v)[e] = {}
      BY <1>4, ColumnUnwritten DEF ColumnKinds
    <3>3. Lands(TypeWrites(v), changes \o q, ColumnType(native, v), None)
      BY <1>3, <1>11, <3>1, <3>2, LandsLogged DEF Logging
    <3>4. Lands(BoundsWrites(v), changes \o q, ColumnBounds(native, v), None)
      BY <1>3, <1>11, <3>1, <3>2, LandsLogged DEF Logging
    <3> QED
      BY <3>3, <3>4 DEF ColumnLands, TypeOf, BoundsOf
  <2>4. ColumnsLand(changes, current, native)'
    <3>1. \A w \in Var : w # v =>
             \A e \in ToSet(q) : e.kind \in ColumnKinds => e.var # w
      BY <1>2, <1>3, <1>4
    <3> QED
      BY <1>6, <1>11, <2>3, <3>1, ColumnsEdited DEF Fits
  <2>5. RowsLand(changes, native)'
    <3>1. \A e \in ToSet(q) : e.kind \notin RowKinds
      BY <1>2, <1>3, <1>4 DEF RowKinds
    <3> QED
      BY <1>1, <1>11, <2>2, <3>1, RowsEdited DEF Fits
  <2>6. CellsLand(changes, current, native)'
    <3>1. ASSUME NEW c \in Con
          PROVE  CoeffLands(changes \o q, native, c, v, cells'[c][v])
      <4>1. cells'[c][v] = None
        BY <1>7 DEF Target
      <4>2. CoeffWrites(c, v)[op] = {0}
        BY <1>2 DEF CoeffWrites
      <4>3. \A e \in R : CoeffWrites(c, v)[e] \subseteq {0}
        BY <1>4 DEF CoeffWrites, CellWrites
      <4>4. Lands(CoeffWrites(c, v), changes \o q, native.coeff[c][v], 0)
        BY <1>3, <1>11, <4>2, <4>3, LandsLogged DEF Logging
      <4> QED
        BY <4>1, <4>4 DEF CoeffLands, Term
    <3>2. ASSUME NEW o \in Obj
          PROVE  CostLands(changes \o q, current, native, o, v, cells'[o][v])
      <4>1. cells'[o][v] = None
        BY <1>7 DEF Target
      <4>2. CostWrites(o, v)[op] = {0} /\ TermWrites(o, v)[op] = {}
        BY <1>2 DEF CostWrites, TermWrites, CellWrites
      <4>3. \A e \in R : CostWrites(o, v)[e] \subseteq {0} /\ TermWrites(o, v)[e] \subseteq {0}
        BY <1>4 DEF CostWrites, TermWrites, CellWrites
      <4>4. Lands(CostWrites(o, v), changes \o q, native.costs[o][v], 0)
        BY <1>3, <1>11, <4>2, <4>3, LandsLogged DEF Logging
      <4>5. Lands(TermWrites(o, v), changes \o q, current.terms[o][v], 0)
        <5>1. CASE o \in Holding(v)
          <6>1. PICK e \in R : e.kind = "RemoveCell" /\ e.target = o /\ e.var = v
            BY <5>1, <1>5
          <6>2. e \in Ops
            BY <1>4
          <6>3. TermWrites(o, v)[e] = {0}
            BY <6>1, <6>2 DEF TermWrites, CellWrites
          <6>4. e \in ToSet(q) /\ \A f \in ToSet(q) : TermWrites(o, v)[f] \subseteq {0}
            BY <1>3, <4>2, <4>3
          <6> QED
            BY <1>3, <1>11, <6>3, <6>4, LandsLogged DEF Logging
        <5>2. CASE o \notin Holding(v)
          <6>1. cells[o][v] = None
            BY <5>2 DEF Holding, Target
          <6>2. CostLands(changes, current, native, o, v, cells[o][v])
            BY <1>11 DEF Fits, CellsLand
          <6>3. Lands(TermWrites(o, v), changes, current.terms[o][v], 0)
            BY <6>1, <6>2 DEF CostLands, Term
          <6>4. \A f \in ToSet(q) : TermWrites(o, v)[f] \subseteq {0}
            BY <1>3, <4>2, <4>3
          <6> QED
            BY <1>3, <1>11, <6>3, <6>4, LandsLogged DEF Logging
        <5> QED
          BY <5>1, <5>2
      <4> QED
        BY <4>1, <4>4, <4>5 DEF CostLands, Term
    <3>3. \A t \in Target, w \in Var : w # v => cells'[t][w] = cells[t][w]
      BY <1>7
    <3>4. \A e \in ToSet(q) :
             /\ e.kind \in {"SetCell", "RemoveCell", "RemoveVariable"} => e.var = v
             /\ e.kind \notin {"AddLinearRows", "RemoveConstraint", "AddObjective",
                               "RemoveObjective"}
      BY <1>2, <1>3, <1>4
    <3>5. CellsLand(changes, current, native)
      BY <1>11 DEF Fits
    <3>6. ASSUME NEW c \in Con, NEW w \in Var
          PROVE  \/ /\ cells'[c][w] = cells[c][w]
                    /\ \A e \in ToSet(q) :
                          /\ e.kind \in {"SetCell", "RemoveCell"}
                                => e.target # c \/ e.var # w
                          /\ e.kind \in {"AddLinearRows", "RemoveConstraint"} => e.con # c
                          /\ e.kind = "RemoveVariable" => e.var # w
                 \/ CoeffLands(changes \o q, native, c, w, cells'[c][w])
      BY <3>1, <3>3, <3>4 DEF Target
    <3>7. ASSUME NEW o \in Obj, NEW w \in Var
          PROVE  \/ /\ cells'[o][w] = cells[o][w]
                    /\ \A e \in ToSet(q) :
                          /\ e.kind \in {"SetCell", "RemoveCell"}
                                => e.target # o \/ e.var # w
                          /\ e.kind \in {"AddObjective", "RemoveObjective"} => e.obj # o
                          /\ e.kind = "RemoveVariable" => e.var # w
                 \/ CostLands(changes \o q, current, native, o, w, cells'[o][w])
      BY <3>2, <3>3, <3>4 DEF Target
    <3> QED
      BY <1>11, <3>5, <3>6, <3>7, CellsEdited
  <2>7. ObjectivesLand(changes, current, native)'
    <3>1. \A e \in ToSet(q) : e.kind \notin {"AddObjective", "RemoveObjective",
                                "SetObjectiveConstant", "SetActiveObjective"}
      BY <1>2, <1>3, <1>4
    <3> QED
      BY <1>1, <1>11, <3>1, ObjectivesEdited DEF Fits
  <2>8. PenaltiesLand(changes, current, native)'
    <3>1. \A e \in ToSet(q) : e.kind \notin ChargeKinds
      BY <1>2, <1>3, <1>4 DEF ChargeKinds
    <3> QED
      BY <1>1, <1>8, <1>11, <2>2, <3>1, PenaltiesEdited DEF Fits
  <2>9. ConstructsFit(native)'
    BY <1>11, <2>2, ConstructsEdited DEF Fits
  <2> QED
    BY <2>4, <2>5, <2>6, <2>7, <2>8, <2>9 DEF Fits
<1>12. \A e \in ToSet(q), o \in Obj : ~Adding(e, o)
  BY <1>2, <1>3, <1>4 DEF Adding
<1> QED
  BY <1>1, <1>3, <1>9, <1>10, <1>11, <1>12, EditStep

LEMMA AddRowsStep ==
    ASSUME IInv, UNCHANGED program, NEW c \in Con, NEW b \in program.rowBounds,
           NEW row \in [Var -> program.coefs \cup {None}], AddRows(c, b, row)
    PROVE  IInv'
<1> DEFINE d == NewConstraint(b)
           op == [kind |-> "AddLinearRows", con |-> c, bounds |-> b, row |-> row]
           q == <<op>>
<1>1. /\ ModelTyped /\ NamesUsed
      /\ c \notin used /\ used' = used \cup {c}
      /\ \A v \in Var : row[v] # None => v \in LiveVars
      /\ constraints' = [constraints EXCEPT ![c] = d]
      /\ cells' = [cells EXCEPT ![c] = row]
      /\ Editing /\ Log(q)
      /\ UNCHANGED <<program, variables, objectives, active, constructs>>
  BY DEF IInv, AddRows, Fresh
<1>2. b \in SUBSET Value /\ row \in Cells
  BY <1>1, ProgramTyped DEF Cells
<1>3. d \in ConstraintData /\ d # None /\ d.active /\ d.bounds = b
  <2>1. d \in ConstraintData
    BY <1>2 DEF NewConstraint, ConstraintData
  <2>2. d.active /\ d.bounds = b
    BY DEF NewConstraint
  <2> QED
    BY <2>1, <2>2, NoneAssumption
<1>4. /\ op \in Ops /\ op.kind = "AddLinearRows" /\ op.con = c /\ op.bounds = b
      /\ op.row = row
  BY <1>2, OpIsOp
<1> HIDE DEF d, op
<1>5. q \in Seq(Ops) /\ ToSet(q) = {op}
  BY <1>4, OneOp
<1> HIDE DEF q
<1>6. constraints'[c] = d /\ \A e \in Con : e # c => constraints'[e] = constraints[e]
  BY <1>1 DEF ModelTyped
<1>7. cells'[c] = row /\ \A t \in Target : t # c => cells'[t] = cells[t]
  BY <1>1 DEF ModelTyped, Target
<1>8. LiveCons' = LiveCons \cup {c} /\ LiveVars' = LiveVars /\ LiveObjs' = LiveObjs
  BY <1>1, <1>3, <1>6 DEF LiveVars, LiveCons, LiveObjs
<1>9. ModelTyped'
  <2>1. constraints' \in [Con -> ConstraintData \cup {None}]
    BY <1>1, <1>3 DEF ModelTyped
  <2>2. cells' \in [Target -> Cells]
    BY <1>1, <1>2 DEF ModelTyped
  <2>3. \A t \in Target : t \notin LiveCons' \cup LiveObjs' => cells'[t] = NoCells
    BY <1>1, <1>7, <1>8 DEF ModelTyped
  <2> QED
    BY <1>1, <1>8, <2>1, <2>2, <2>3 DEF ModelTyped
<1>10. NamesUsed'
  BY <1>1, <1>8 DEF NamesUsed
<1>11. ASSUME Logging(q), Fits(changes, current, native)
       PROVE  Fits(changes, current, native)'
  <2>1. \A k \in Construct : constructs[k] # None => Softens[k] # c
    BY <1>1, NoneAssumption DEF NamesUsed
  <2>2. /\ Dependencies' = Dependencies
        /\ \A k \in Construct : Generated(k)' = Generated(k)
        /\ \A o \in Obj : Charging(o)' = Charging(o)
        /\ \A e \in Con : Softened(e)' = Softened(e)
    <3>1. ASSUME NEW k \in ActiveConstructs, Softens[k] # None
          PROVE  /\ constraints'[Softens[k]] = constraints[Softens[k]]
                 /\ cells'[Softens[k]] = cells[Softens[k]]
      <4>1. k \in Construct /\ constructs[k] # None
        BY NoneAssumption DEF ActiveConstructs
      <4>2. Softens[k] \in Con /\ Softens[k] # c /\ Softens[k] \in Target
        BY <2>1, <3>1, <4>1, ConstructAssumption DEF Target
      <4> QED
        BY <4>2, <1>6, <1>7
    <3> QED
      BY <1>1, <3>1, ConstructsUnaffected
  <2>3. ~Softened(c)
    BY <2>1, NoneAssumption DEF Softened, Anchored
  <2>4. RowLands(changes \o q, native, c, d, FALSE)
    <3>1. RowWrites(c)[op] = {1} /\ RowBoundsWrites(c)[op] = {b}
      BY <1>4 DEF RowWrites, RowBoundsWrites
    <3>2. Flag(d # None) = 1 /\ Enforced(d, FALSE) = b
      BY <1>3 DEF Flag, Enforced
    <3> QED
      BY <1>5, <1>11, <3>1, <3>2, LandsLogged DEF RowLands, Logging
  <2>5. ColumnsLand(changes, current, native)'
    BY <1>1, <1>4, <1>5, <1>11, ColumnsEdited DEF Fits, ColumnKinds
  <2>6. RowsLand(changes, native)'
    <3>1. ASSUME NEW e \in Con
          PROVE  \/ /\ constraints'[e] = constraints[e]
                    /\ Softened(e)' = Softened(e)
                    /\ \A f \in ToSet(q) : f.kind \in RowKinds => f.con # e
                 \/ RowLands(changes \o q, native, e, constraints'[e], Softened(e)')
      <4>1. CASE e = c
        <5>1. Softened(e)' = FALSE
          BY <4>1, <2>2, <2>3 DEF Softened
        <5> QED
          BY <4>1, <5>1, <1>6, <2>4
      <4>2. CASE e # c
        BY <4>2, <1>4, <1>5, <1>6, <2>2
      <4> QED
        BY <4>1, <4>2
    <3> QED
      BY <1>11, <3>1, RowsEdited DEF Fits
  <2>7. CellsLand(changes, current, native)'
    <3>1. ASSUME NEW v \in Var
          PROVE  CoeffLands(changes \o q, native, c, v, cells'[c][v])
      <4>1. CoeffWrites(c, v)[op] = {Term(row[v])}
        BY <1>2, <1>4, DenseRow DEF CoeffWrites
      <4> QED
        BY <1>5, <1>7, <1>11, <4>1, LandsLogged DEF CoeffLands, Logging
    <3>2. \A o \in Obj : o # c
      BY NamesAssumption
    <3> QED
      BY <1>4, <1>5, <1>7, <1>11, <3>1, <3>2, CellsEdited DEF Fits, Target
  <2>8. ObjectivesLand(changes, current, native)'
    BY <1>1, <1>4, <1>5, <1>11, ObjectivesEdited DEF Fits
  <2>9. PenaltiesLand(changes, current, native)'
    BY <1>1, <1>4, <1>5, <1>8, <1>11, <2>2, PenaltiesEdited DEF Fits, ChargeKinds
  <2>10. ConstructsFit(native)'
    BY <1>11, <2>2, ConstructsEdited DEF Fits
  <2> QED
    BY <2>5, <2>6, <2>7, <2>8, <2>9, <2>10 DEF Fits
<1>12. \A e \in ToSet(q), o \in Obj : ~Adding(e, o)
  BY <1>4, <1>5 DEF Adding
<1> QED
  BY <1>1, <1>5, <1>9, <1>10, <1>11, <1>12, EditStep

\* A softened constraint takes its construct along, which leads to a rebuild.
LEMMA RemoveConstraintStep ==
    ASSUME IInv, UNCHANGED program, NEW c \in Con, RemoveConstraint(c)
    PROVE  IInv'
<1> DEFINE K == {[kind |-> "RemoveConstruct", construct |-> k] : k \in Anchored(c)}
           r == CellRemovals(c, CellsOf(c))
           op == [kind |-> "RemoveConstraint", con |-> c]
           q == SetToSeq(K) \o r \o <<op>>
<1>1. /\ ModelTyped /\ NamesUsed /\ c \in LiveCons
      /\ constructs' = [k \in Construct |-> IF k \in Anchored(c) THEN None ELSE constructs[k]]
      /\ cells' = [cells EXCEPT ![c] = NoCells]
      /\ constraints' = [constraints EXCEPT ![c] = None]
      /\ Editing /\ Log(q)
      /\ UNCHANGED <<program, variables, objectives, active, used>>
  BY DEF IInv, RemoveConstraint
<1>2. op \in Ops /\ op.kind = "RemoveConstraint" /\ op.con = c
  BY OpIsOp
<1>3. /\ r \in Seq(Ops)
      /\ \A e \in ToSet(r) : e \in Ops /\ e.kind = "RemoveCell" /\ e.target = c
  <2>1. c \in Target /\ CellsOf(c) \in SUBSET Var
    BY DEF Target, CellsOf
  <2>2. /\ r \in Seq(Ops)
        /\ ToSet(r) = {[kind |-> "RemoveCell", target |-> c, var |-> v] : v \in CellsOf(c)}
    BY <2>1, RemovalsListed
  <2> QED
    BY <2>1, <2>2, OpIsOp
<1>4. /\ SetToSeq(K) \in Seq(Ops) /\ ToSet(SetToSeq(K)) = K
      /\ \A e \in K : e.kind = "RemoveConstruct"
  <2>1. Anchored(c) \in SUBSET Construct
    BY DEF Anchored
  <2>2. SetToSeq(K) \in Seq(Ops) /\ ToSet(SetToSeq(K)) = K
    BY <2>1, RemovalsListed
  <2> QED
    BY <2>2
<1>5. K = {} => Anchored(c) = {}
  OBVIOUS
<1> HIDE DEF r, op, K
<1>6. q \in Seq(Ops) /\ ToSet(q) = K \cup ToSet(r) \cup {op}
  <2>1. <<op>> \in Seq(Ops) /\ ToSet(<<op>>) = {op}
    BY <1>2, OneOp
  <2>2. /\ SetToSeq(K) \o r \in Seq(Ops)
        /\ ToSet(SetToSeq(K) \o r) = K \cup ToSet(r)
    BY <1>3, <1>4, Concatenated
  <2> QED
    BY <2>1, <2>2, Concatenated
<1> HIDE DEF q
<1>7. constraints'[c] = None /\ \A e \in Con : e # c => constraints'[e] = constraints[e]
  BY <1>1 DEF ModelTyped
<1>8. cells'[c] = NoCells /\ \A t \in Target : t # c => cells'[t] = cells[t]
  BY <1>1 DEF ModelTyped, Target
<1>9. LiveCons' = LiveCons \ {c} /\ LiveVars' = LiveVars /\ LiveObjs' = LiveObjs
  BY <1>1, <1>7 DEF LiveVars, LiveCons, LiveObjs
<1>10. \A k \in Construct : constructs'[k] \in {constructs[k], None}
  BY <1>1
<1>11. ModelTyped'
  <2>1. constraints' \in [Con -> ConstraintData \cup {None}]
    BY <1>1 DEF ModelTyped
  <2>2. cells' \in [Target -> Cells]
    BY <1>1 DEF ModelTyped, Cells, NoCells
  <2>3. \A t \in Target : t \notin LiveCons' \cup LiveObjs' => cells'[t] = NoCells
    BY <1>1, <1>8, <1>9 DEF ModelTyped
  <2>4. constructs' \in [Construct -> {"active", "inactive", None}]
    BY <1>1 DEF ModelTyped
  <2> QED
    BY <1>1, <1>9, <2>1, <2>2, <2>3, <2>4 DEF ModelTyped
<1>12. NamesUsed'
  BY <1>1, <1>9, <1>10 DEF NamesUsed
<1>13. ASSUME Logging(q), \A e \in ToSet(q) : ~Blocking(e), Fits(changes, current, native)
       PROVE  Fits(changes, current, native)'
  <2>1. c \notin Dependencies
    BY <1>2, <1>6, <1>13 DEF Blocking, Fits, ConstructsFit
  <2>2. K = {}
    BY <1>4, <1>6, <1>13 DEF Blocking
  <2>3. constructs' = constructs
    BY <1>1, <1>5, <2>2 DEF ModelTyped
  <2>4. /\ Dependencies' = Dependencies
        /\ \A k \in Construct : Generated(k)' = Generated(k)
        /\ \A o \in Obj : Charging(o)' = Charging(o)
        /\ \A e \in Con : Softened(e)' = Softened(e)
    <3>1. ASSUME NEW k \in ActiveConstructs, Softens[k] # None
          PROVE  /\ constraints'[Softens[k]] = constraints[Softens[k]]
                 /\ cells'[Softens[k]] = cells[Softens[k]]
      <4>1. Softens[k] \in Con /\ Softens[k] # c /\ Softens[k] \in Target
        BY <2>1, <3>1, DependenciesCover, ConstructAssumption DEF ActiveConstructs, Target
      <4> QED
        BY <4>1, <1>7, <1>8
    <3> QED
      BY <1>1, <2>3, <3>1, ConstructsUnaffected
  <2>5. \A e \in ToSet(q) : \/ e = op
                            \/ e \in Ops /\ e.kind = "RemoveCell" /\ e.target = c
    BY <1>3, <1>6, <2>2
  <2>6. op \in ToSet(q)
    BY <1>6
  <2>7. ColumnsLand(changes, current, native)'
    BY <1>1, <1>2, <1>13, <2>5, ColumnsEdited DEF Fits, ColumnKinds
  <2>8. RowsLand(changes, native)'
    <3>1. ASSUME NEW soft \in BOOLEAN
          PROVE  RowLands(changes \o q, native, c, None, soft)
      <4>1. RowWrites(c)[op] = {0} /\ RowBoundsWrites(c)[op] = {None}
        BY <1>2 DEF RowWrites, RowBoundsWrites
      <4>2. \A e \in ToSet(q) : RowWrites(c)[e] \subseteq {0} /\ RowBoundsWrites(c)[e] \subseteq {None}
        BY <2>5, <4>1, RowUnwritten DEF RowKinds
      <4>3. Lands(RowWrites(c), changes \o q, Flag(native.rows[c] # None), 0)
        BY <1>6, <1>13, <2>6, <4>1, <4>2, LandsLogged DEF Logging
      <4>4. Lands(RowBoundsWrites(c), changes \o q, native.rows[c], None)
        BY <1>6, <1>13, <2>6, <4>1, <4>2, LandsLogged DEF Logging
      <4> QED
        BY <4>3, <4>4 DEF RowLands, Flag, Enforced
    <3>2. \A e \in Con : e # c => \A f \in ToSet(q) : f.kind \in RowKinds => f.con # e
      BY <1>2, <2>5 DEF RowKinds
    <3>3. Softened(c)' \in BOOLEAN
      BY DEF Softened
    <3> QED
      BY <1>7, <1>13, <2>4, <3>1, <3>2, <3>3, RowsEdited DEF Fits
  <2>9. CellsLand(changes, current, native)'
    <3>1. ASSUME NEW v \in Var
          PROVE  CoeffLands(changes \o q, native, c, v, cells'[c][v])
      <4>1. CoeffWrites(c, v)[op] = {0}
        BY <1>2 DEF CoeffWrites
      <4>2. \A e \in ToSet(q) : CoeffWrites(c, v)[e] \subseteq {0}
        BY <2>5, <4>1 DEF CoeffWrites, CellWrites
      <4>3. Lands(CoeffWrites(c, v), changes \o q, native.coeff[c][v], 0)
        BY <1>6, <1>13, <2>6, <4>1, <4>2, LandsLogged DEF Logging
      <4> QED
        BY <1>8, <4>3 DEF CoeffLands, Term, NoCells
    <3>2. \A o \in Obj : o # c
      BY NamesAssumption
    <3>3. CellsLand(changes, current, native)
      BY <1>13 DEF Fits
    <3>4. ASSUME NEW e \in Con, NEW v \in Var
          PROVE  \/ /\ cells'[e][v] = cells[e][v]
                    /\ \A f \in ToSet(q) :
                          /\ f.kind \in {"SetCell", "RemoveCell"}
                                => f.target # e \/ f.var # v
                          /\ f.kind \in {"AddLinearRows", "RemoveConstraint"} => f.con # e
                          /\ f.kind = "RemoveVariable" => f.var # v
                 \/ CoeffLands(changes \o q, native, e, v, cells'[e][v])
      BY <1>2, <1>8, <2>5, <3>1 DEF Target
    <3>5. ASSUME NEW o \in Obj, NEW v \in Var
          PROVE  /\ cells'[o][v] = cells[o][v]
                 /\ \A f \in ToSet(q) :
                       /\ f.kind \in {"SetCell", "RemoveCell"}
                             => f.target # o \/ f.var # v
                       /\ f.kind \in {"AddObjective", "RemoveObjective"} => f.obj # o
                       /\ f.kind = "RemoveVariable" => f.var # v
      BY <1>2, <1>8, <2>5, <3>2 DEF Target
    <3> QED
      BY <1>13, <3>3, <3>4, <3>5, CellsEdited
  <2>10. ObjectivesLand(changes, current, native)'
    BY <1>1, <1>2, <1>13, <2>5, ObjectivesEdited DEF Fits
  <2>11. PenaltiesLand(changes, current, native)'
    BY <1>1, <1>2, <1>9, <1>13, <2>4, <2>5, PenaltiesEdited DEF Fits, ChargeKinds
  <2>12. ConstructsFit(native)'
    BY <1>13, <2>4, ConstructsEdited DEF Fits
  <2> QED
    BY <2>7, <2>8, <2>9, <2>10, <2>11, <2>12 DEF Fits
<1>14. \A e \in ToSet(q), o \in Obj : ~Adding(e, o)
  BY <1>2, <1>3, <1>4, <1>6 DEF Adding
<1> QED
  BY <1>1, <1>6, <1>11, <1>12, <1>13, <1>14, EditStep

LEMMA SetConstraintBoundsStep ==
    ASSUME IInv, UNCHANGED program, NEW c \in Con, NEW b \in program.rowBounds,
           SetConstraintBounds(c, b)
    PROVE  IInv'
<1> DEFINE d == [constraints[c] EXCEPT !.bounds = b]
           op == [kind |-> "SetConstraintBounds", con |-> c, bounds |-> b]
           q == <<op>>
<1>1. /\ ModelTyped /\ NamesUsed /\ c \in LiveCons
      /\ constraints' = [constraints EXCEPT ![c] = d]
      /\ Editing /\ Log(q)
      /\ UNCHANGED <<program, variables, objectives, active, cells, constructs, used>>
  BY DEF IInv, SetConstraintBounds
<1>2. constraints[c] \in ConstraintData /\ constraints[c] # None /\ b \in SUBSET Value
  BY <1>1, DataTyped, ProgramTyped
<1>3. d \in ConstraintData /\ d.active = constraints[c].active /\ d.bounds = b
  BY <1>2 DEF ConstraintData
<1>4. op \in Ops /\ op.kind = "SetConstraintBounds" /\ op.con = c /\ op.bounds = b
  BY <1>2, OpIsOp
<1> HIDE DEF d, op
<1>5. q \in Seq(Ops) /\ ToSet(q) = {op}
  BY <1>4, OneOp
<1> HIDE DEF q
<1>6. /\ ModelTyped' /\ NamesUsed' /\ constraints'[c] = d /\ LiveObjs' = LiveObjs
      /\ \A e \in Con : e # c => constraints'[e] = constraints[e]
  BY <1>1, <1>3, ConstraintEdited
<1>7. d # None
  BY <1>3, NoneAssumption
<1>8. ASSUME Logging(q), \A e \in ToSet(q) : ~Blocking(e), Fits(changes, current, native)
      PROVE  Fits(changes, current, native)'
  <2>1. c \notin Dependencies
    BY <1>4, <1>5, <1>8 DEF Blocking, Fits, ConstructsFit
  <2>2. /\ Dependencies' = Dependencies
        /\ \A k \in Construct : Generated(k)' = Generated(k)
        /\ \A o \in Obj : Charging(o)' = Charging(o)
        /\ \A e \in Con : Softened(e)' = Softened(e)
    <3>1. ASSUME NEW k \in ActiveConstructs, Softens[k] # None
          PROVE  constraints'[Softens[k]] = constraints[Softens[k]]
      <4>1. Softens[k] \in Con /\ Softens[k] # c
        BY <2>1, <3>1, DependenciesCover, ConstructAssumption DEF ActiveConstructs
      <4> QED
        BY <4>1, <1>6
    <3> QED
      BY <1>1, <3>1, ConstructsUnaffected
  <2>3. ~Softened(c)
    <3>1. ASSUME NEW k \in ActiveConstructs PROVE Softens[k] # c
      BY <2>1, DependenciesCover, NoneAssumption
    <3> QED
      BY <3>1 DEF Softened, Anchored
  <2>4. RowLands(changes \o q, native, c, d, FALSE)
    <3>1. RowLands(changes, native, c, constraints[c], Softened(c))
      BY <1>8 DEF Fits, RowsLand
    <3>2. RowWrites(c)[op] = {} /\ RowBoundsWrites(c)[op] = {b}
      BY <1>4 DEF RowWrites, RowBoundsWrites
    <3>3. Lands(RowWrites(c), changes \o q, Flag(native.rows[c] # None), Flag(d # None))
      BY <1>2, <1>5, <1>7, <1>8, <3>1, <3>2, LandsLoggedAlone DEF RowLands, Flag, Logging
    <3>4. Lands(RowBoundsWrites(c), changes \o q, native.rows[c], b)
      BY <1>5, <1>8, <3>2, LandsLogged DEF Logging
    <3>5. Enforced(d, FALSE) = b
      BY <1>3, <1>7 DEF Enforced
    <3> QED
      BY <3>3, <3>4, <3>5 DEF RowLands
  <2>5. ColumnsLand(changes, current, native)'
    BY <1>1, <1>4, <1>5, <1>8, ColumnsEdited DEF Fits, ColumnKinds
  <2>6. RowsLand(changes, native)'
    <3>1. ASSUME NEW e \in Con
          PROVE  \/ /\ constraints'[e] = constraints[e]
                    /\ Softened(e)' = Softened(e)
                    /\ \A f \in ToSet(q) : f.kind \in RowKinds => f.con # e
                 \/ RowLands(changes \o q, native, e, constraints'[e], Softened(e)')
      <4>1. CASE e = c
        <5>1. Softened(e)' = FALSE
          BY <4>1, <2>2, <2>3 DEF Softened
        <5> QED
          BY <4>1, <5>1, <1>6, <2>4
      <4>2. CASE e # c
        BY <4>2, <1>4, <1>5, <1>6, <2>2
      <4> QED
        BY <4>1, <4>2
    <3> QED
      BY <1>8, <3>1, RowsEdited DEF Fits
  <2>7. CellsLand(changes, current, native)'
    BY <1>1, <1>4, <1>5, <1>8, CellsEdited DEF Fits
  <2>8. ObjectivesLand(changes, current, native)'
    BY <1>1, <1>4, <1>5, <1>8, ObjectivesEdited DEF Fits
  <2>9. PenaltiesLand(changes, current, native)'
    BY <1>1, <1>4, <1>5, <1>6, <1>8, <2>2, PenaltiesEdited DEF Fits, ChargeKinds
  <2>10. ConstructsFit(native)'
    BY <1>8, <2>2, ConstructsEdited DEF Fits
  <2> QED
    BY <2>5, <2>6, <2>7, <2>8, <2>9, <2>10 DEF Fits
<1>9. \A e \in ToSet(q), o \in Obj : ~Adding(e, o)
  BY <1>4, <1>5 DEF Adding
<1> QED
  BY <1>1, <1>5, <1>6, <1>8, <1>9, EditStep

-----------------------------------------------------------------------------
(* Objectives and coefficients *)

LEMMA AddObjectiveStep ==
    ASSUME IInv, UNCHANGED program, NEW o \in Obj, AddObjective(o)
    PROVE  IInv'
<1> DEFINE op == [kind |-> "AddObjective", obj |-> o]
           q == <<op>>
<1>1. /\ ModelTyped /\ NamesUsed
      /\ o \notin used /\ used' = used \cup {o}
      /\ objectives' = [objectives EXCEPT ![o] = 0]
      /\ Editing /\ Log(q)
      /\ UNCHANGED <<program, variables, constraints, active, cells, constructs>>
  BY DEF IInv, AddObjective, Fresh
<1>2. op \in Ops /\ op.kind = "AddObjective" /\ op.obj = o
  BY OpIsOp
<1> HIDE DEF op
<1>3. q \in Seq(Ops) /\ ToSet(q) = {op} /\ Len(q) = 1
  BY <1>2, OneOp
<1> HIDE DEF q
<1>4. 0 \in Int /\ 0 # None
  BY NoneAssumption
<1>5. objectives'[o] = 0 /\ \A e \in Obj : e # o => objectives'[e] = objectives[e]
  BY <1>1 DEF ModelTyped
<1>6. LiveObjs' = LiveObjs \cup {o} /\ LiveVars' = LiveVars /\ LiveCons' = LiveCons
  BY <1>1, <1>4, <1>5 DEF LiveVars, LiveCons, LiveObjs
<1>7. ModelTyped'
  <2>1. objectives' \in [Obj -> Int \cup {None}]
    BY <1>1, <1>4 DEF ModelTyped
  <2> QED
    BY <1>1, <1>6, <2>1 DEF ModelTyped
<1>8. NamesUsed'
  BY <1>1, <1>6 DEF NamesUsed
<1>9. ASSUME Logging(q), Fits(changes, current, native)
      PROVE  Fits(changes, current, native)'
  <2>1. /\ Dependencies' = Dependencies
        /\ \A k \in Construct : Generated(k)' = Generated(k)
        /\ \A e \in Obj : Charging(e)' = Charging(e)
        /\ \A c \in Con : Softened(c)' = Softened(c)
    BY <1>1, ConstructsUnaffected
  <2>2. objectives[o] = None /\ cells[o] = NoCells /\ o \notin LiveObjs
    <3>1. o \notin LiveObjs
      BY <1>1 DEF NamesUsed
    <3>2. o \notin LiveCons /\ o \in Target
      BY NamesAssumption DEF LiveCons, Target
    <3> QED
      BY <1>1, <3>1, <3>2 DEF ModelTyped, LiveObjs
  <2>3. ColumnsLand(changes, current, native)'
    BY <1>1, <1>2, <1>3, <1>9, ColumnsEdited DEF Fits, ColumnKinds
  <2>4. RowsLand(changes, native)'
    BY <1>1, <1>2, <1>3, <1>9, <2>1, RowsEdited DEF Fits, RowKinds
  <2>5. CellsLand(changes, current, native)'
    <3>1. ASSUME NEW v \in Var
          PROVE  CostLands(changes \o q, current, native, o, v, cells'[o][v])
      <4>1. CostWrites(o, v)[op] = {0} /\ TermWrites(o, v)[op] = {}
        BY <1>2 DEF CostWrites, TermWrites, CellWrites
      <4>2. CostLands(changes, current, native, o, v, cells[o][v])
        BY <1>9 DEF Fits, CellsLand
      <4>3. cells'[o][v] = None /\ cells[o][v] = None /\ Term(None) = 0
        BY <1>1, <2>2 DEF NoCells, Term
      <4>4. Lands(CostWrites(o, v), changes \o q, native.costs[o][v], 0)
        BY <1>3, <1>9, <4>1, LandsLogged DEF Logging
      <4>5. Lands(TermWrites(o, v), changes \o q, current.terms[o][v], 0)
        BY <1>3, <1>9, <4>1, <4>2, <4>3, LandsLoggedAlone DEF CostLands, Logging
      <4> QED
        BY <4>3, <4>4, <4>5 DEF CostLands
    <3> QED
      BY <1>1, <1>2, <1>3, <1>9, <3>1, CellsEdited DEF Fits
  <2>6. ObjectivesLand(changes, current, native)'
    <3>1. ObjectiveLands(changes \o q, current, native, o, 0)
      <4>1. /\ ObjectiveWrites(o)[op] = {1} /\ OffsetWrites(o)[op] = {0}
            /\ ConstantWrites(o)[op] = {}
        BY <1>2 DEF ObjectiveWrites, OffsetWrites, ConstantWrites
      <4>2. Lands(ConstantWrites(o), changes, current.constants[o], 0)
        BY <1>9, <2>2 DEF Fits, ObjectivesLand, ObjectiveLands, Term
      <4>3. Flag(0 # None) = 1 /\ Term(0) = 0
        BY <1>4 DEF Flag, Term
      <4>4. Lands(ObjectiveWrites(o), changes \o q, Flag(o \in native.objectives), 1)
        BY <1>3, <1>9, <4>1, LandsLogged DEF Logging
      <4>5. Lands(OffsetWrites(o), changes \o q, native.offsets[o], 0)
        BY <1>3, <1>9, <4>1, LandsLogged DEF Logging
      <4>6. Lands(ConstantWrites(o), changes \o q, current.constants[o], 0)
        BY <1>3, <1>9, <4>1, <4>2, LandsLoggedAlone DEF Logging
      <4> QED
        BY <4>3, <4>4, <4>5, <4>6 DEF ObjectiveLands
    <3> QED
      BY <1>1, <1>2, <1>3, <1>5, <1>9, <3>1, ObjectivesEdited DEF Fits
  <2>7. PenaltiesLand(changes, current, native)'
    <3>1. Charging(o) = {}
      <4>1. ASSUME NEW k \in ActiveConstructs, Softens[k] # None
            PROVE  Penalises[k] # o
        <5>1. k \in Construct /\ constructs[k] # None
          BY NoneAssumption DEF ActiveConstructs
        <5> QED
          BY <1>1, <4>1, <5>1, NoneAssumption DEF NamesUsed
      <4> QED
        BY <4>1 DEF Charging
    <3>2. ChargesLand(changes, current, native, o, {})
      BY <1>1, <1>9, <3>1 DEF Fits, PenaltiesLand
    <3>3. PenaltyWrites(o)[op] = {{}} /\ ChargeWrites(o)[op] = {}
      BY <1>2 DEF PenaltyWrites, ChargeWrites
    <3>4. Lands(PenaltyWrites(o), changes \o q, native.penalties[o], {})
      BY <1>3, <1>9, <3>3, LandsLogged DEF Logging
    <3>5. Lands(ChargeWrites(o), changes \o q, current.charges[o], {})
      BY <1>3, <1>9, <3>2, <3>3, LandsLoggedAlone DEF ChargesLand, Logging
    <3>6. ChargesLand(changes \o q, current, native, o, Charging(o)')
      BY <2>1, <3>1, <3>4, <3>5 DEF ChargesLand
    <3> QED
      BY <1>1, <1>2, <1>3, <1>6, <1>9, <2>1, <3>6, PenaltiesEdited DEF Fits
  <2>8. ConstructsFit(native)'
    BY <1>9, <2>1, ConstructsEdited DEF Fits
  <2> QED
    BY <2>3, <2>4, <2>5, <2>6, <2>7, <2>8 DEF Fits
<1>10. \A e \in ToSet(q), j \in Obj : Adding(e, j) => j \in used' \ used /\ Len(q) = 1
  BY <1>1, <1>2, <1>3 DEF Adding
<1> QED
  BY <1>1, <1>3, <1>7, <1>8, <1>9, <1>10, EditStep

\* The operation resets everything the compiler and the backend keep of the
\* objective; what it pays for is not looked at again, as it is dead.
LEMMA RemoveObjectiveStep ==
    ASSUME IInv, UNCHANGED program, NEW o \in Obj, RemoveObjective(o)
    PROVE  IInv'
<1> DEFINE r == CellRemovals(o, CellsOf(o))
           op == [kind |-> "RemoveObjective", obj |-> o]
           q == r \o <<op>>
<1>1. /\ ModelTyped /\ NamesUsed /\ o \in LiveObjs
      /\ cells' = [cells EXCEPT ![o] = NoCells]
      /\ objectives' = [objectives EXCEPT ![o] = None]
      /\ active' = ActiveWithout(o)
      /\ Editing /\ Log(q)
      /\ UNCHANGED <<program, variables, constraints, constructs, used>>
  BY DEF IInv, RemoveObjective
<1>2. op \in Ops /\ op.kind = "RemoveObjective" /\ op.obj = o
  BY OpIsOp
<1>3. /\ r \in Seq(Ops)
      /\ \A e \in ToSet(r) : e \in Ops /\ e.kind = "RemoveCell" /\ e.target = o
  <2>1. o \in Target /\ CellsOf(o) \in SUBSET Var
    BY DEF Target, CellsOf
  <2>2. /\ r \in Seq(Ops)
        /\ ToSet(r) = {[kind |-> "RemoveCell", target |-> o, var |-> v] : v \in CellsOf(o)}
    BY <2>1, RemovalsListed
  <2> QED
    BY <2>1, <2>2, OpIsOp
<1> HIDE DEF r, op
<1>4. /\ q \in Seq(Ops) /\ op \in ToSet(q)
      /\ \A e \in ToSet(q) : \/ e = op
                             \/ e \in Ops /\ e.kind = "RemoveCell" /\ e.target = o
  <2>1. <<op>> \in Seq(Ops) /\ ToSet(<<op>>) = {op}
    BY <1>2, OneOp
  <2>2. q \in Seq(Ops) /\ ToSet(q) = ToSet(r) \cup {op}
    BY <1>3, <2>1, Concatenated
  <2> QED
    BY <1>3, <2>2
<1> HIDE DEF q
<1>5. objectives'[o] = None /\ \A e \in Obj : e # o => objectives'[e] = objectives[e]
  BY <1>1 DEF ModelTyped
<1>6. cells'[o] = NoCells /\ \A t \in Target : t # o => cells'[t] = cells[t]
  BY <1>1 DEF ModelTyped, Target
<1>7. LiveObjs' = LiveObjs \ {o} /\ LiveVars' = LiveVars /\ LiveCons' = LiveCons
  BY <1>1, <1>5 DEF LiveVars, LiveCons, LiveObjs
<1>8. /\ active' # o /\ active' \in LiveObjs' \cup {None}
      /\ \A e \in Obj : e # o => (active' = e <=> active = e)
  BY <1>1, <1>7, NoneAssumption DEF ActiveWithout, ModelTyped
<1>9. ModelTyped'
  <2>1. objectives' \in [Obj -> Int \cup {None}]
    BY <1>1 DEF ModelTyped
  <2>2. cells' \in [Target -> Cells]
    BY <1>1 DEF ModelTyped, Cells, NoCells
  <2>3. \A t \in Target : t \notin LiveCons' \cup LiveObjs' => cells'[t] = NoCells
    BY <1>1, <1>6, <1>7 DEF ModelTyped
  <2> QED
    BY <1>1, <1>7, <1>8, <2>1, <2>2, <2>3 DEF ModelTyped
<1>10. NamesUsed'
  BY <1>1, <1>7 DEF NamesUsed
<1>11. ASSUME Logging(q), Fits(changes, current, native)
       PROVE  Fits(changes, current, native)'
  <2>1. \A c \in Con : c # o
    BY NamesAssumption
  <2>2. /\ Dependencies' = Dependencies
        /\ \A k \in Construct : Generated(k)' = Generated(k)
        /\ \A e \in Obj : Charging(e)' = Charging(e)
        /\ \A c \in Con : Softened(c)' = Softened(c)
    <3>1. ASSUME NEW k \in ActiveConstructs, Softens[k] # None
          PROVE  cells'[Softens[k]] = cells[Softens[k]]
      <4>1. Softens[k] \in Con
        BY <3>1, ConstructAssumption DEF ActiveConstructs
      <4> QED
        BY <4>1, <1>6, <2>1 DEF Target
    <3> QED
      BY <1>1, <3>1, ConstructsUnaffected
  <2>3. ColumnsLand(changes, current, native)'
    BY <1>1, <1>2, <1>4, <1>11, ColumnsEdited DEF Fits, ColumnKinds
  <2>4. RowsLand(changes, native)'
    BY <1>1, <1>2, <1>4, <1>11, <2>2, RowsEdited DEF Fits, RowKinds
  <2>5. CellsLand(changes, current, native)'
    <3>1. ASSUME NEW v \in Var
          PROVE  CostLands(changes \o q, current, native, o, v, cells'[o][v])
      <4>1. CostWrites(o, v)[op] = {0} /\ TermWrites(o, v)[op] = {0}
        BY <1>2 DEF CostWrites, TermWrites
      <4>2. \A e \in ToSet(q) : /\ CostWrites(o, v)[e] \subseteq {0}
                                /\ TermWrites(o, v)[e] \subseteq {0}
        BY <1>4, <4>1 DEF CostWrites, TermWrites, CellWrites
      <4>3. Lands(CostWrites(o, v), changes \o q, native.costs[o][v], 0)
        BY <1>4, <1>11, <4>1, <4>2, LandsLogged DEF Logging
      <4>4. Lands(TermWrites(o, v), changes \o q, current.terms[o][v], 0)
        BY <1>4, <1>11, <4>1, <4>2, LandsLogged DEF Logging
      <4>5. Term(cells'[o][v]) = 0
        BY <1>6 DEF Term, NoCells
      <4> QED
        BY <4>3, <4>4, <4>5 DEF CostLands
    <3>2. CellsLand(changes, current, native)
      BY <1>11 DEF Fits
    <3>3. ASSUME NEW c \in Con, NEW v \in Var
          PROVE  /\ cells'[c][v] = cells[c][v]
                 /\ \A e \in ToSet(q) :
                       /\ e.kind \in {"SetCell", "RemoveCell"} => e.target # c \/ e.var # v
                       /\ e.kind \in {"AddLinearRows", "RemoveConstraint"} => e.con # c
                       /\ e.kind = "RemoveVariable" => e.var # v
      BY <1>2, <1>4, <1>6, <2>1 DEF Target
    <3>4. ASSUME NEW e \in Obj, NEW v \in Var
          PROVE  \/ /\ cells'[e][v] = cells[e][v]
                    /\ \A f \in ToSet(q) :
                          /\ f.kind \in {"SetCell", "RemoveCell"}
                                => f.target # e \/ f.var # v
                          /\ f.kind \in {"AddObjective", "RemoveObjective"} => f.obj # e
                          /\ f.kind = "RemoveVariable" => f.var # v
                 \/ CostLands(changes \o q, current, native, e, v, cells'[e][v])
      BY <1>2, <1>4, <1>6, <3>1 DEF Target
    <3> QED
      BY <1>11, <3>2, <3>3, <3>4, CellsEdited
  <2>6. ObjectivesLand(changes, current, native)'
    <3>1. ObjectiveLands(changes \o q, current, native, o, None)
      <4>1. \A e \in ToSet(q) : /\ ObjectiveWrites(o)[e] \subseteq {0}
                                /\ OffsetWrites(o)[e] \subseteq {0}
                                /\ ConstantWrites(o)[e] \subseteq {0}
        BY <1>2, <1>4 DEF ObjectiveWrites, OffsetWrites, ConstantWrites
      <4>2. /\ ObjectiveWrites(o)[op] = {0} /\ OffsetWrites(o)[op] = {0}
            /\ ConstantWrites(o)[op] = {0}
        BY <1>2 DEF ObjectiveWrites, OffsetWrites, ConstantWrites
      <4>3. Lands(ObjectiveWrites(o), changes \o q, Flag(o \in native.objectives), 0)
        BY <1>4, <1>11, <4>1, <4>2, LandsLogged DEF Logging
      <4>4. Lands(OffsetWrites(o), changes \o q, native.offsets[o], 0)
        BY <1>4, <1>11, <4>1, <4>2, LandsLogged DEF Logging
      <4>5. Lands(ConstantWrites(o), changes \o q, current.constants[o], 0)
        BY <1>4, <1>11, <4>1, <4>2, LandsLogged DEF Logging
      <4>6. Flag(None # None) = 0 /\ Term(None) = 0
        BY DEF Flag, Term
      <4> QED
        BY <4>3, <4>4, <4>5, <4>6 DEF ObjectiveLands
    <3>2. PolicyLands(changes \o q, current, o, active')
      <4>1. PolicyWrites(o)[op] = {0}
        BY <1>2 DEF PolicyWrites
      <4>2. \A e \in ToSet(q) : PolicyWrites(o)[e] \subseteq {0}
        BY <1>4, <4>1 DEF PolicyWrites
      <4>3. Flag(active' = o) = 0
        BY <1>8 DEF Flag
      <4> QED
        BY <1>4, <1>11, <4>1, <4>2, <4>3, LandsLogged DEF PolicyLands, Logging
    <3>3. \A e \in Obj : e # o =>
             /\ Flag(active' = e) = Flag(active = e)
             /\ objectives'[e] = objectives[e]
             /\ \A f \in ToSet(q) :
                   /\ f.kind # "SetActiveObjective"
                   /\ f.kind \in {"AddObjective", "RemoveObjective", "SetObjectiveConstant"}
                         => f.obj # e
      BY <1>2, <1>4, <1>5, <1>8 DEF Flag
    <3> QED
      BY <1>5, <1>11, <3>1, <3>2, <3>3, ObjectivesEdited DEF Fits
  <2>7. PenaltiesLand(changes, current, native)'
    <3>1. o \in used /\ ~(o \in LiveObjs \/ o \notin used)'
      BY <1>1, <1>7 DEF NamesUsed
    <3> QED
      BY <1>1, <1>2, <1>4, <1>7, <1>11, <2>2, <3>1, PenaltiesEdited DEF Fits, ChargeKinds
  <2>8. ConstructsFit(native)'
    BY <1>11, <2>2, ConstructsEdited DEF Fits
  <2> QED
    BY <2>3, <2>4, <2>5, <2>6, <2>7, <2>8 DEF Fits
<1>12. \A e \in ToSet(q), j \in Obj : ~Adding(e, j)
  BY <1>2, <1>4 DEF Adding
<1> QED
  BY <1>1, <1>4, <1>9, <1>10, <1>11, <1>12, EditStep

LEMMA SetActiveObjectiveStep ==
    ASSUME IInv, UNCHANGED program, NEW o \in Obj \cup {None}, SetActiveObjective(o)
    PROVE  IInv'
<1> DEFINE op == [kind |-> "SetActiveObjective", obj |-> o]
           q == <<op>>
<1>1. /\ ModelTyped /\ NamesUsed /\ o \in LiveObjs \cup {None}
      /\ active' = o
      /\ Editing /\ Log(q)
      /\ UNCHANGED <<program, variables, constraints, objectives, cells, constructs, used>>
  BY DEF IInv, SetActiveObjective
<1>2. op \in Ops /\ op.kind = "SetActiveObjective" /\ op.obj = o
  BY OpIsOp
<1> HIDE DEF op
<1>3. q \in Seq(Ops) /\ ToSet(q) = {op}
  BY <1>2, OneOp
<1> HIDE DEF q
<1>4. LiveObjs' = LiveObjs /\ LiveVars' = LiveVars /\ LiveCons' = LiveCons
  BY <1>1 DEF LiveVars, LiveCons, LiveObjs
<1>5. ModelTyped' /\ NamesUsed'
  BY <1>1, <1>4 DEF ModelTyped, NamesUsed
<1>6. ASSUME Logging(q), Fits(changes, current, native)
      PROVE  Fits(changes, current, native)'
  <2>1. /\ Dependencies' = Dependencies
        /\ \A k \in Construct : Generated(k)' = Generated(k)
        /\ \A e \in Obj : Charging(e)' = Charging(e)
        /\ \A c \in Con : Softened(c)' = Softened(c)
    BY <1>1, ConstructsUnaffected
  <2>2. ColumnsLand(changes, current, native)'
    BY <1>1, <1>2, <1>3, <1>6, ColumnsEdited DEF Fits, ColumnKinds
  <2>3. RowsLand(changes, native)'
    BY <1>1, <1>2, <1>3, <1>6, <2>1, RowsEdited DEF Fits, RowKinds
  <2>4. CellsLand(changes, current, native)'
    BY <1>1, <1>2, <1>3, <1>6, CellsEdited DEF Fits
  <2>5. ObjectivesLand(changes, current, native)'
    <3>1. ASSUME NEW e \in Obj
          PROVE  PolicyLands(changes \o q, current, e, active')
      <4>1. PolicyWrites(e)[op] = {Flag(active' = e)}
        BY <1>1, <1>2 DEF PolicyWrites
      <4> QED
        BY <1>3, <1>6, <4>1, LandsLogged DEF PolicyLands, Logging
    <3> QED
      BY <1>1, <1>2, <1>3, <1>6, <3>1, ObjectivesEdited DEF Fits
  <2>6. PenaltiesLand(changes, current, native)'
    BY <1>1, <1>2, <1>3, <1>4, <1>6, <2>1, PenaltiesEdited DEF Fits, ChargeKinds
  <2>7. ConstructsFit(native)'
    BY <1>6, <2>1, ConstructsEdited DEF Fits
  <2> QED
    BY <2>2, <2>3, <2>4, <2>5, <2>6, <2>7 DEF Fits
<1>7. \A e \in ToSet(q), j \in Obj : ~Adding(e, j)
  BY <1>2, <1>3 DEF Adding
<1> QED
  BY <1>1, <1>3, <1>5, <1>6, <1>7, EditStep

LEMMA SetObjectiveConstantStep ==
    ASSUME IInv, UNCHANGED program, NEW o \in Obj, NEW x \in program.offsets,
           SetObjectiveConstant(o, x)
    PROVE  IInv'
<1> DEFINE op == [kind |-> "SetObjectiveConstant", obj |-> o, value |-> x]
           q == <<op>>
<1>1. /\ ModelTyped /\ NamesUsed /\ o \in LiveObjs
      /\ objectives' = [objectives EXCEPT ![o] = x]
      /\ Editing /\ Log(q)
      /\ UNCHANGED <<program, variables, constraints, active, cells, constructs, used>>
  BY DEF IInv, SetObjectiveConstant
<1>2. x \in Int /\ x # None /\ objectives[o] # None
  BY <1>1, ProgramTyped, NoneAssumption DEF LiveObjs
<1>3. op \in Ops /\ op.kind = "SetObjectiveConstant" /\ op.obj = o /\ op.value = x
  BY <1>2, OpIsOp
<1> HIDE DEF op
<1>4. q \in Seq(Ops) /\ ToSet(q) = {op}
  BY <1>3, OneOp
<1> HIDE DEF q
<1>5. objectives'[o] = x /\ \A e \in Obj : e # o => objectives'[e] = objectives[e]
  BY <1>1 DEF ModelTyped
<1>6. LiveObjs' = LiveObjs /\ LiveVars' = LiveVars /\ LiveCons' = LiveCons
  BY <1>1, <1>2, <1>5 DEF LiveVars, LiveCons, LiveObjs
<1>7. ModelTyped'
  <2>1. objectives' \in [Obj -> Int \cup {None}]
    BY <1>1, <1>2 DEF ModelTyped
  <2> QED
    BY <1>1, <1>6, <2>1 DEF ModelTyped
<1>8. NamesUsed'
  BY <1>1, <1>6 DEF NamesUsed
<1>9. ASSUME Logging(q), Fits(changes, current, native)
      PROVE  Fits(changes, current, native)'
  <2>1. /\ Dependencies' = Dependencies
        /\ \A k \in Construct : Generated(k)' = Generated(k)
        /\ \A e \in Obj : Charging(e)' = Charging(e)
        /\ \A c \in Con : Softened(c)' = Softened(c)
    BY <1>1, ConstructsUnaffected
  <2>2. ColumnsLand(changes, current, native)'
    BY <1>1, <1>3, <1>4, <1>9, ColumnsEdited DEF Fits, ColumnKinds
  <2>3. RowsLand(changes, native)'
    BY <1>1, <1>3, <1>4, <1>9, <2>1, RowsEdited DEF Fits, RowKinds
  <2>4. CellsLand(changes, current, native)'
    BY <1>1, <1>3, <1>4, <1>9, CellsEdited DEF Fits
  <2>5. ObjectivesLand(changes, current, native)'
    <3>1. ObjectiveLands(changes \o q, current, native, o, x)
      <4>1. /\ ObjectiveWrites(o)[op] = {} /\ OffsetWrites(o)[op] = {x}
            /\ ConstantWrites(o)[op] = {x}
        BY <1>3 DEF ObjectiveWrites, OffsetWrites, ConstantWrites
      <4>2. ObjectiveLands(changes, current, native, o, objectives[o])
        BY <1>9 DEF Fits, ObjectivesLand
      <4>3. Flag(x # None) = Flag(objectives[o] # None) /\ Term(x) = x
        BY <1>2 DEF Flag, Term
      <4>4. Lands(ObjectiveWrites(o), changes \o q, Flag(o \in native.objectives),
                  Flag(x # None))
        BY <1>4, <1>9, <4>1, <4>2, <4>3, LandsLoggedAlone DEF ObjectiveLands, Logging
      <4>5. Lands(OffsetWrites(o), changes \o q, native.offsets[o], x)
        BY <1>4, <1>9, <4>1, LandsLogged DEF Logging
      <4>6. Lands(ConstantWrites(o), changes \o q, current.constants[o], x)
        BY <1>4, <1>9, <4>1, LandsLogged DEF Logging
      <4> QED
        BY <4>3, <4>4, <4>5, <4>6 DEF ObjectiveLands
    <3> QED
      BY <1>1, <1>3, <1>4, <1>5, <1>9, <3>1, ObjectivesEdited DEF Fits
  <2>6. PenaltiesLand(changes, current, native)'
    BY <1>1, <1>3, <1>4, <1>6, <1>9, <2>1, PenaltiesEdited DEF Fits, ChargeKinds
  <2>7. ConstructsFit(native)'
    BY <1>9, <2>1, ConstructsEdited DEF Fits
  <2> QED
    BY <2>2, <2>3, <2>4, <2>5, <2>6, <2>7 DEF Fits
<1>10. \A e \in ToSet(q), j \in Obj : ~Adding(e, j)
  BY <1>3, <1>4 DEF Adding
<1> QED
  BY <1>1, <1>4, <1>7, <1>8, <1>9, <1>10, EditStep

\* One cell changes, and the operation says to what.
LEMMA CellEdited ==
    ASSUME IInv, NEW t \in LiveCons \cup LiveObjs, NEW v \in LiveVars,
           NEW x \in Int \cup {None}, cells' = [cells EXCEPT ![t][v] = x],
           UNCHANGED <<program, variables, constraints, objectives, active, constructs, used>>,
           Editing, NEW op \in Ops, NEW q \in Seq(Ops), ToSet(q) = {op}, Log(q),
           op.kind \in {"SetCell", "RemoveCell"}, op.target = t, op.var = v,
           CellWrites(t, v)[op] = {Term(x)}
    PROVE  IInv'
<1>1. ModelTyped /\ NamesUsed
  BY DEF IInv
<1>2. t \in Target /\ v \in Var
  BY DEF LiveCons, LiveObjs, LiveVars, Target
<1>3. cells[t] \in [Var -> Int \cup {None}]
  BY <1>1, <1>2 DEF ModelTyped, Cells
<1>4. /\ cells'[t] = [cells[t] EXCEPT ![v] = x]
      /\ \A e \in Target : e # t => cells'[e] = cells[e]
  BY <1>1, <1>2 DEF ModelTyped
<1>5. cells'[t][v] = x /\ \A w \in Var : w # v => cells'[t][w] = cells[t][w]
  BY <1>2, <1>3, <1>4
<1>6. LiveObjs' = LiveObjs /\ LiveVars' = LiveVars /\ LiveCons' = LiveCons
  BY DEF LiveVars, LiveCons, LiveObjs
<1>7. ModelTyped'
  <2>1. cells'[t] \in Cells
    BY <1>2, <1>3, <1>4 DEF Cells
  <2>2. cells' \in [Target -> Cells]
    BY <1>1, <1>4, <2>1 DEF ModelTyped
  <2>3. \A e \in Target : e \notin LiveCons' \cup LiveObjs' => cells'[e] = NoCells
    BY <1>1, <1>4, <1>6 DEF ModelTyped
  <2> QED
    BY <1>1, <1>6, <2>2, <2>3 DEF ModelTyped
<1>8. NamesUsed'
  BY <1>1, <1>6 DEF NamesUsed
<1>9. ASSUME Logging(q), \A e \in ToSet(q) : ~Blocking(e), Fits(changes, current, native)
      PROVE  Fits(changes, current, native)'
  <2>1. t \in Con => t \notin Dependencies
    BY <1>9 DEF Blocking, Fits, ConstructsFit
  <2>2. /\ Dependencies' = Dependencies
        /\ \A k \in Construct : Generated(k)' = Generated(k)
        /\ \A o \in Obj : Charging(o)' = Charging(o)
        /\ \A c \in Con : Softened(c)' = Softened(c)
    <3>1. ASSUME NEW k \in ActiveConstructs, Softens[k] # None
          PROVE  cells'[Softens[k]] = cells[Softens[k]]
      <4>1. Softens[k] \in Con /\ Softens[k] # t
        BY <2>1, <3>1, DependenciesCover, ConstructAssumption DEF ActiveConstructs
      <4> QED
        BY <4>1, <1>4 DEF Target
    <3> QED
      BY <3>1, ConstructsUnaffected
  <2>3. ColumnsLand(changes, current, native)'
    BY <1>9, ColumnsEdited DEF Fits, ColumnKinds
  <2>4. RowsLand(changes, native)'
    BY <1>9, <2>2, RowsEdited DEF Fits, RowKinds
  <2>5. CellsLand(changes, current, native)'
    <3>1. ASSUME t \in Con
          PROVE  CoeffLands(changes \o q, native, t, v, cells'[t][v])
      <4>1. CoeffWrites(t, v)[op] = {Term(x)}
        BY DEF CoeffWrites
      <4> QED
        BY <1>5, <1>9, <4>1, LandsLogged DEF CoeffLands, Logging
    <3>2. ASSUME t \in Obj
          PROVE  CostLands(changes \o q, current, native, t, v, cells'[t][v])
      <4>1. CostWrites(t, v)[op] = {Term(x)} /\ TermWrites(t, v)[op] = {Term(x)}
        BY DEF CostWrites, TermWrites
      <4>2. Lands(CostWrites(t, v), changes \o q, native.costs[t][v], Term(x))
        BY <1>9, <4>1, LandsLogged DEF Logging
      <4>3. Lands(TermWrites(t, v), changes \o q, current.terms[t][v], Term(x))
        BY <1>9, <4>1, LandsLogged DEF Logging
      <4> QED
        BY <1>5, <4>2, <4>3 DEF CostLands
    <3>3. CellsLand(changes, current, native)
      BY <1>9 DEF Fits
    <3>4. \A e \in Target, w \in Var : e # t \/ w # v =>
             /\ cells'[e][w] = cells[e][w]
             /\ \A f \in ToSet(q) :
                   /\ f.kind \in {"SetCell", "RemoveCell"}
                   /\ f.target # e \/ f.var # w
      BY <1>4, <1>5
    <3>5. ASSUME NEW c \in Con, NEW w \in Var
          PROVE  \/ /\ cells'[c][w] = cells[c][w]
                    /\ \A f \in ToSet(q) :
                          /\ f.kind \in {"SetCell", "RemoveCell"}
                                => f.target # c \/ f.var # w
                          /\ f.kind \in {"AddLinearRows", "RemoveConstraint"} => f.con # c
                          /\ f.kind = "RemoveVariable" => f.var # w
                 \/ CoeffLands(changes \o q, native, c, w, cells'[c][w])
      <4>1. CASE c = t /\ w = v
        BY <3>1, <4>1
      <4>2. CASE c # t \/ w # v
        BY <3>4, <4>2 DEF Target
      <4> QED
        BY <4>1, <4>2
    <3>6. ASSUME NEW o \in Obj, NEW w \in Var
          PROVE  \/ /\ cells'[o][w] = cells[o][w]
                    /\ \A f \in ToSet(q) :
                          /\ f.kind \in {"SetCell", "RemoveCell"}
                                => f.target # o \/ f.var # w
                          /\ f.kind \in {"AddObjective", "RemoveObjective"} => f.obj # o
                          /\ f.kind = "RemoveVariable" => f.var # w
                 \/ CostLands(changes \o q, current, native, o, w, cells'[o][w])
      <4>1. CASE o = t /\ w = v
        BY <3>2, <4>1
      <4>2. CASE o # t \/ w # v
        BY <3>4, <4>2 DEF Target
      <4> QED
        BY <4>1, <4>2
    <3> QED
      BY <1>9, <3>3, <3>5, <3>6, CellsEdited
  <2>6. ObjectivesLand(changes, current, native)'
    BY <1>9, ObjectivesEdited DEF Fits
  <2>7. PenaltiesLand(changes, current, native)'
    BY <1>6, <1>9, <2>2, PenaltiesEdited DEF Fits, ChargeKinds
  <2>8. ConstructsFit(native)'
    BY <1>9, <2>2, ConstructsEdited DEF Fits
  <2> QED
    BY <2>3, <2>4, <2>5, <2>6, <2>7, <2>8 DEF Fits
<1>10. \A e \in ToSet(q), j \in Obj : ~Adding(e, j)
  BY DEF Adding
<1> QED
  BY <1>7, <1>8, <1>9, <1>10, EditStep

LEMMA SetCoefficientStep ==
    ASSUME IInv, UNCHANGED program, NEW t \in Target, NEW v \in Var,
           NEW x \in program.coefs, SetCoefficient(t, v, x)
    PROVE  IInv'
<1> DEFINE op == [kind |-> "SetCell", target |-> t, var |-> v, value |-> x]
<1>1. /\ t \in LiveCons \cup LiveObjs /\ v \in LiveVars
      /\ cells' = [cells EXCEPT ![t][v] = x]
      /\ Editing /\ Log(<<op>>)
      /\ UNCHANGED <<program, variables, constraints, objectives, active, constructs, used>>
  BY DEF SetCoefficient
<1>2. x \in Int /\ x # None
  BY ProgramTyped, NoneAssumption DEF IInv
<1>3. /\ op \in Ops /\ op.kind = "SetCell" /\ op.target = t /\ op.var = v
      /\ op.value = x
  BY <1>2, OpIsOp
<1> HIDE DEF op
<1>4. <<op>> \in Seq(Ops) /\ ToSet(<<op>>) = {op}
  BY <1>3, OneOp
<1>5. CellWrites(t, v)[op] = {Term(x)}
  BY <1>2, <1>3 DEF CellWrites, Term
<1> QED
  BY <1>1, <1>2, <1>3, <1>4, <1>5, CellEdited

LEMMA RemoveCoefficientStep ==
    ASSUME IInv, UNCHANGED program, NEW t \in Target, NEW v \in Var,
           RemoveCoefficient(t, v)
    PROVE  IInv'
<1> DEFINE op == [kind |-> "RemoveCell", target |-> t, var |-> v]
           q == CellRemovals(t, {v})
<1>1. /\ t \in LiveCons \cup LiveObjs /\ v \in LiveVars
      /\ cells' = [cells EXCEPT ![t][v] = None]
      /\ Editing /\ Log(q)
      /\ UNCHANGED <<program, variables, constraints, objectives, active, constructs, used>>
  BY DEF RemoveCoefficient
<1>2. op \in Ops /\ op.kind = "RemoveCell" /\ op.target = t /\ op.var = v
  BY OpIsOp
<1>3. q \in Seq(Ops) /\ ToSet(q) = {op}
  <2>1. /\ q \in Seq(Ops)
        /\ ToSet(q) = {[kind |-> "RemoveCell", target |-> t, var |-> w] : w \in {v}}
    BY RemovalsListed
  <2> QED
    BY <2>1
<1> HIDE DEF op, q
<1>4. CellWrites(t, v)[op] = {Term(None)}
  BY <1>2 DEF CellWrites, Term
<1> QED
  BY <1>1, <1>2, <1>3, <1>4, CellEdited

-----------------------------------------------------------------------------
(* The theorems *)

LEMMA EditKeeps ==
    ASSUME IInv, UNCHANGED program, Edit
    PROVE  IInv'
<1>1. ASSUME NEW v \in Var, NEW b \in program.bounds, NEW type \in program.types,
             AddVariable(v, b, type)
      PROVE  IInv'
  BY <1>1, AddVariableStep
<1>2. ASSUME NEW v \in Var, RemoveVariable(v) PROVE IInv'
  BY <1>2, RemoveVariableStep
<1>3. ASSUME NEW v \in Var, NEW b \in program.bounds, SetVariableBounds(v, b) PROVE IInv'
  BY <1>3, SetVariableBoundsStep
<1>4. ASSUME NEW v \in Var, NEW x \in program.fixedTo, Fix(v, x) PROVE IInv'
  BY <1>4, FixStep
<1>5. ASSUME NEW v \in Var, Unfix(v) \/ SetVariableActive(v) PROVE IInv'
  BY <1>5, UnfixStep, SetVariableActiveStep
<1>6. ASSUME NEW v \in Var, NEW type \in program.types, SetVariableType(v, type) PROVE IInv'
  BY <1>6, SetVariableTypeStep
<1>7. ASSUME NEW v \in Var, NEW lower \in program.nonzeroFrom, SetSemicontinuous(v, lower)
      PROVE  IInv'
  BY <1>7, SetSemicontinuousStep
<1>8. ASSUME NEW c \in Con, NEW b \in program.rowBounds,
             NEW row \in [Var -> program.coefs \cup {None}], AddRows(c, b, row)
      PROVE  IInv'
  BY <1>8, AddRowsStep
<1>9. ASSUME NEW c \in Con, RemoveConstraint(c) \/ SetConstraintActive(c) PROVE IInv'
  BY <1>9, RemoveConstraintStep, SetConstraintActiveStep
<1>10. ASSUME NEW c \in Con, NEW b \in program.rowBounds, SetConstraintBounds(c, b)
       PROVE  IInv'
  BY <1>10, SetConstraintBoundsStep
<1>11. ASSUME NEW o \in Obj, AddObjective(o) \/ RemoveObjective(o) PROVE IInv'
  BY <1>11, AddObjectiveStep, RemoveObjectiveStep
<1>12. ASSUME NEW o \in Obj, NEW x \in program.offsets, SetObjectiveConstant(o, x)
       PROVE  IInv'
  BY <1>12, SetObjectiveConstantStep
<1>13. ASSUME NEW o \in Obj \cup {None}, SetActiveObjective(o) PROVE IInv'
  BY <1>13, SetActiveObjectiveStep
<1>14. ASSUME NEW t \in Target, NEW v \in Var, NEW x \in program.coefs,
              SetCoefficient(t, v, x)
       PROVE  IInv'
  BY <1>14, SetCoefficientStep
<1>15. ASSUME NEW t \in Target, NEW v \in Var, RemoveCoefficient(t, v) PROVE IInv'
  BY <1>15, RemoveCoefficientStep
<1>16. ASSUME NEW k \in Construct,
              AddConstruct(k) \/ SetConstructActive(k) \/ RemoveConstruct(k)
       PROVE  IInv'
  BY <1>16, AddConstructStep, SetConstructActiveStep, RemoveConstructStep
<1> QED
  BY <1>1, <1>2, <1>3, <1>4, <1>5, <1>6, <1>7, <1>8, <1>9, <1>10, <1>11, <1>12, <1>13,
     <1>14, <1>15, <1>16 DEF Edit

LEMMA SynchronizeKeeps ==
    ASSUME IInv, UNCHANGED program, Synchronize
    PROVE  IInv'
BY StartReplayStep, StartRebuildStep, RebuildRequiredStep, LowerAddVariableStep,
   LowerRemoveVariableStep, LowerVariableBoundsStep, LowerVariableFixingStep,
   LowerAddRowsStep, LowerRemoveConstraintStep, LowerConstraintBoundsStep,
   LowerSetCellStep, LowerRemoveCellStep, LowerAddObjectiveStep,
   LowerRemoveObjectiveStep, LowerActiveObjectiveStep, LowerObjectiveConstantStep,
   DeliverStep, RebuildStep, RebuildRejectedStep
DEF Synchronize

LEMMA StutterKeeps ==
    ASSUME IInv, UNCHANGED vars
    PROVE  IInv'
<1>1. /\ UNCHANGED <<program, modelVars>> /\ changes' = changes
      /\ phase' = phase /\ mustRebuild' = mustRebuild /\ todo' = todo
      /\ current' = current /\ work' = work /\ native' = native
  BY DEF vars, syncVars
<1>2. used' = used
  BY <1>1 DEF modelVars
<1>3. Pending' = Pending /\ Compiler' = Compiler /\ Backend' = Backend
  BY <1>1 DEF Pending, Compiler, Backend
<1>4. ModelTyped' /\ NamesUsed'
  BY <1>1, ModelSame DEF IInv
<1>5. SyncTyped'
  BY <1>1 DEF IInv, SyncTyped
<1>6. BasesTyped'
  <2>1. Consistent(current, native)'
    BY <1>1, <1>2 DEF IInv, BasesTyped, Consistent, ColumnsAgree, RowsAgree,
       ObjectivesAgree, Projected
  <2>2. phase = "compiling" => Consistent(work.current, work.native)'
    BY <1>1, <1>2 DEF IInv, BasesTyped, Consistent, ColumnsAgree, RowsAgree,
       ObjectivesAgree, Projected
  <2>3. NativeTyped(native)' /\ (phase = "compiling" => NativeTyped(work.native)')
    BY <1>1 DEF IInv, BasesTyped, NativeTyped
  <2> QED
    BY <1>1, <2>1, <2>2, <2>3 DEF IInv, BasesTyped
<1>7. AddedOnce(Pending, Backend.objectives)'
  BY <1>2, <1>3 DEF IInv, AddedOnce
<1>8. Fit'
  <2> SUFFICES ASSUME phase' # "rebuilding", ~mustRebuild', ~Blocked(Pending)'
               PROVE  Fits(Pending, Compiler, Backend)'
    BY DEF Fit
  <2>1. ~Blocked(Pending)
    BY <1>1, <1>3 DEF Blocked, Blocking
  <2>2. Fits(Pending', Compiler', Backend')
    BY <2>1, <1>1, <1>3 DEF IInv, Fit
  <2> QED
    BY <2>2, <1>1, FitsSame
<1> QED
  BY <1>4, <1>5, <1>6, <1>7, <1>8 DEF IInv

(* Whatever is edited and however it is synchronized, what the compiler and *)
(* HiGHS have is the model but for the logged operations, and replaying     *)
(* those leads to it (compile_delta against the model's change log).        *)
THEOREM Catchable == Spec => []IInv
<1>1. IInv /\ [Next]_vars => IInv'
  <2> SUFFICES ASSUME IInv, [Next]_vars PROVE IInv'
    OBVIOUS
  <2>1. CASE Next
    BY <2>1, EditKeeps, SynchronizeKeeps DEF Next
  <2>2. CASE UNCHANGED vars
    BY <2>2, StutterKeeps
  <2> QED
    BY <2>1, <2>2
<1> QED
  BY InitInvariant, <1>1, PTL DEF Spec

\* In sync nothing is pending, so every datum has the model's value.
LEMMA InSyncFits ==
    ASSUME IInv, InSync
    PROVE  Fits(<<>>, current, native) /\ Consistent(current, native) /\ ModelTyped
<1>1. Pending = <<>> /\ Compiler = current /\ Backend = native
  BY DEF InSync, Pending, Compiler, Backend
<1>2. ~Blocked(Pending)
  BY <1>1 DEF Blocked
<1> QED
  BY <1>1, <1>2 DEF InSync, IInv, Fit, BasesTyped

\* Columns: there, typed, and bounded as the model says (fold_variable_bounds,
\* compile_delta's variable operations).
LEMMA ColumnsSettle == IInv => ColumnsFit
<1> SUFFICES ASSUME IInv, InSync, NEW v \in Var
             PROVE  /\ native.cols[v] # None <=> v \in LiveVars
                    /\ v \in LiveVars =>
                          /\ native.cols[v].type = variables[v].type
                          /\ \/ native.cols[v].bounds = EffectiveBounds(v)
                             \/ variables[v].active /\ variables[v].fixing # None
  BY DEF ColumnsFit
<1> DEFINE d == variables[v]
<1>1. ColumnLands(<<>>, current, native, v, d)
  BY InSyncFits DEF Fits, ColumnsLand
<1>2. ColumnType(native, v) = TypeOf(d)
  BY <1>1, LandsNothing DEF ColumnLands
<1>3. Unfolded(d) => ColumnBounds(native, v) = BoundsOf(d)
  BY <1>1, LandsNothing DEF ColumnLands
<1>4. d # None /\ ~d.active => native.cols[v].bounds = {0}
  BY <1>1 DEF ColumnLands
<1>5. native.cols[v] \in Columns \cup {None} /\ (d # None => d \in VariableData)
  BY DEF IInv, BasesTyped, NativeTyped, ModelTyped
<1>6. native.cols[v] # None => native.cols[v].type # None
  BY <1>5, NoneAssumption DEF Columns
<1>7. d # None => d.type # None /\ d.active \in BOOLEAN
  BY <1>5, NoneAssumption DEF VariableData
<1>8. native.cols[v] # None <=> v \in LiveVars
  BY <1>2, <1>6, <1>7 DEF ColumnType, TypeOf, LiveVars
<1>9. ASSUME v \in LiveVars
      PROVE  /\ native.cols[v].type = d.type
             /\ native.cols[v].bounds = EffectiveBounds(v) \/ (d.active /\ d.fixing # None)
  <2>1. d # None /\ native.cols[v] # None
    BY <1>8, <1>9 DEF LiveVars
  <2>2. native.cols[v].type = d.type
    BY <1>2, <2>1 DEF ColumnType, TypeOf
  <2>3. CASE ~d.active
    <3>1. EffectiveBounds(v) = {0}
      BY <2>3 DEF EffectiveBounds
    <3> QED
      BY <1>4, <2>1, <2>2, <2>3, <3>1
  <2>4. CASE d.active /\ d.fixing = None
    <3>1. EffectiveBounds(v) = d.bounds
      BY <2>4 DEF EffectiveBounds
    <3>2. native.cols[v].bounds = d.bounds
      BY <1>3, <2>1, <2>4 DEF Unfolded, ColumnBounds, BoundsOf
    <3> QED
      BY <2>2, <3>1, <3>2
  <2> QED
    BY <1>7, <2>1, <2>2, <2>3, <2>4
<1> QED
  BY <1>8, <1>9

\* Rows and what constructs generate.
LEMMA RowsSettle == IInv => RowsFit
<1> SUFFICES ASSUME IInv, InSync PROVE RowsFit
  BY DEF RowsFit
<1>1. Fits(<<>>, current, native)
  BY InSyncFits
<1>2. native.rows \in [Con -> (SUBSET Value) \cup {None}] /\ native.coeff \in [Con -> [Var -> Int]]
  BY DEF IInv, BasesTyped, NativeTyped
<1>3. ASSUME NEW c \in Con
      PROVE  /\ native.rows[c] # None <=> c \in LiveCons
             /\ native.coeff[c] = Dense(cells[c])
             /\ c \in LiveCons /\ constraints[c].active =>
                   native.rows[c] = EffectiveRowBounds(c)
  <2>1. RowLands(<<>>, native, c, constraints[c], Softened(c))
    BY <1>1 DEF Fits, RowsLand
  <2>2. Flag(native.rows[c] # None) = Flag(constraints[c] # None)
    BY <2>1, LandsNothing DEF RowLands
  <2>3. native.rows[c] # None <=> c \in LiveCons
    BY <2>2 DEF Flag, LiveCons
  <2>4. ASSUME c \in LiveCons, constraints[c].active
        PROVE  native.rows[c] = EffectiveRowBounds(c)
    <3>1. native.rows[c] = Enforced(constraints[c], Softened(c))
      BY <2>1, <2>4, LandsNothing DEF RowLands
    <3> QED
      BY <2>4, <3>1 DEF Enforced, EffectiveRowBounds, Softened, LiveCons
  <2>5. native.coeff[c] = Dense(cells[c])
    <3>1. Dense(cells[c]) \in [Var -> Int]
          /\ \A v \in Var : Dense(cells[c])[v] = Term(cells[c][v])
      BY DenseRow DEF IInv, ModelTyped, Target
    <3>2. \A v \in Var : native.coeff[c][v] = Term(cells[c][v])
      BY <1>1, LandsNothing DEF Fits, CellsLand, CoeffLands
    <3> QED
      BY <1>2, <3>1, <3>2
  <2> QED
    BY <2>3, <2>4, <2>5
<1>4. \A k \in Construct : native.generated[k] = Generated(k)
  BY <1>1 DEF Fits, ConstructsFit
<1> QED
  BY <1>3, <1>4 DEF RowsFit

\* Objectives, per objective: what both sides keep of a live one.
LEMMA ObjectiveSettles ==
    ASSUME IInv, InSync
    PROVE  /\ native.objectives = LiveObjs /\ current.objectives = LiveObjs
           /\ native.active = active /\ current.policy = active
           /\ \A o \in LiveObjs :
                 /\ native.costs[o] = Dense(cells[o]) /\ current.terms[o] = Dense(cells[o])
                 /\ native.offsets[o] = objectives[o]
                 /\ current.constants[o] = objectives[o]
                 /\ native.penalties[o] = Charging(o) /\ current.charges[o] = Charging(o)
<1>1. Fits(<<>>, current, native) /\ Consistent(current, native)
  BY InSyncFits
<1>2. /\ native.costs \in [Obj -> [Var -> Int]] /\ current.terms \in [Obj -> [Var -> Int]]
      /\ native.objectives \subseteq Obj /\ current.policy \in Obj \cup {None}
  BY DEF IInv, BasesTyped, NativeTyped, Compilers
<1>3. active \in Obj \cup {None} /\ LiveObjs \subseteq Obj
  BY DEF IInv, ModelTyped, LiveObjs
<1>4. native.objectives = LiveObjs
  <2>1. \A o \in Obj : Flag(o \in native.objectives) = Flag(objectives[o] # None)
    BY <1>1, LandsNothing DEF Fits, ObjectivesLand, ObjectiveLands
  <2>2. \A o \in Obj : o \in native.objectives <=> objectives[o] # None
    BY <2>1 DEF Flag
  <2> QED
    BY <1>2, <2>2 DEF LiveObjs
<1>5. current.policy = active
  <2>1. \A o \in Obj : Flag(current.policy = o) = Flag(active = o)
    BY <1>1, LandsNothing DEF Fits, ObjectivesLand, PolicyLands
  <2>2. \A o \in Obj : current.policy = o <=> active = o
    BY <2>1 DEF Flag
  <2> QED
    BY <1>2, <1>3, <2>2
<1>6. current.objectives = native.objectives /\ current.policy = native.active
  BY <1>1 DEF Consistent, ObjectivesAgree
<1>7. ASSUME NEW o \in LiveObjs
      PROVE  native.costs[o] = Dense(cells[o]) /\ current.terms[o] = Dense(cells[o])
  <2>1. o \in Obj /\ o \in Target
    BY <1>3 DEF Target
  <2>2. Dense(cells[o]) \in [Var -> Int]
        /\ \A v \in Var : Dense(cells[o])[v] = Term(cells[o][v])
    BY <2>1, DenseRow DEF IInv, ModelTyped
  <2>3. \A v \in Var : /\ native.costs[o][v] = Term(cells[o][v])
                       /\ current.terms[o][v] = Term(cells[o][v])
    BY <1>1, <2>1, LandsNothing DEF Fits, CellsLand, CostLands
  <2>4. native.costs[o] \in [Var -> Int] /\ current.terms[o] \in [Var -> Int]
    BY <1>2, <2>1
  <2> QED
    BY <2>2, <2>3, <2>4
<1>8. ASSUME NEW o \in LiveObjs
      PROVE  native.offsets[o] = objectives[o] /\ current.constants[o] = objectives[o]
  <2>1. o \in Obj /\ objectives[o] # None
    BY DEF LiveObjs
  <2> QED
    BY <1>1, <2>1, LandsNothing DEF Fits, ObjectivesLand, ObjectiveLands, Term
<1>9. ASSUME NEW o \in LiveObjs
      PROVE  native.penalties[o] = Charging(o) /\ current.charges[o] = Charging(o)
  BY <1>1, <1>3, LandsNothing DEF Fits, PenaltiesLand, ChargesLand
<1> QED
  BY <1>4, <1>5, <1>6, <1>7, <1>8, <1>9

LEMMA ObjectivesSettle == IInv => ObjectivesFit
<1> SUFFICES ASSUME IInv, InSync PROVE ObjectivesFit
  BY DEF ObjectivesFit
<1>1. Projected(native)
  BY InSyncFits DEF Consistent
<1>2. active = None \/ active \in LiveObjs
  BY DEF IInv, ModelTyped
<1>3. /\ native.colCost = IF active = None THEN NoCosts ELSE Dense(cells[active])
      /\ native.charged = IF active = None THEN {} ELSE Charging(active)
      /\ native.offset = IF active = None THEN 0 ELSE objectives[active]
  BY <1>1, <1>2, ObjectiveSettles DEF Projected
<1> QED
  BY <1>3, ObjectiveSettles DEF ObjectivesFit

LEMMA CompilerSettles == IInv => CompilerFits
<1> SUFFICES ASSUME IInv, InSync PROVE CompilerFits
  BY DEF CompilerFits
<1>1. Fits(<<>>, current, native) /\ Consistent(current, native)
  BY InSyncFits
<1>2. current.variables = LiveVars
  BY <1>1, ColumnsSettle DEF Consistent, ColumnsAgree, ColumnsFit, LiveVars
<1>3. current.rows = LiveCons
  BY <1>1, RowsSettle DEF Consistent, RowsAgree, RowsFit, LiveCons
<1>4. ASSUME NEW v \in LiveVars
      PROVE  current.activity[v] = variables[v].active
  <2>1. /\ v \in Var /\ variables[v] # None /\ variables[v].active \in BOOLEAN
        /\ current.activity[v] \in BOOLEAN
    BY DataTyped DEF IInv, BasesTyped, Compilers
  <2>2. ColumnLands(<<>>, current, native, v, variables[v])
    BY <1>1, <2>1 DEF Fits, ColumnsLand
  <2>3. CASE variables[v].active
    <3>1. Lands(ActivityWrites(v), <<>>, Flag(current.activity[v]), 1)
      BY <2>1, <2>2, <2>3 DEF ColumnLands
    <3>2. Flag(current.activity[v]) = 1
      BY <3>1, LandsNothing
    <3>3. current.activity[v]
      BY <3>2 DEF Flag
    <3>4. current.activity[v] = TRUE /\ variables[v].active = TRUE
      BY <2>1, <2>3, <3>3
    <3> QED
      BY <3>4
  <2>4. CASE ~variables[v].active
    BY <2>1, <2>2, <2>4 DEF ColumnLands
  <2> QED
    BY <2>1, <2>3, <2>4
<1>5. current.dependencies = UNION {DependenciesOf(k) : k \in ActiveConstructs}
  BY <1>1 DEF Fits, ConstructsFit, Dependencies
<1> QED
  BY <1>2, <1>3, <1>4, <1>5, ObjectiveSettles DEF CompilerFits

(* Whatever sequence of edits is compiled, by whichever path, every column  *)
(* has the type and the effective bounds the model says.                    *)
THEOREM ColumnsAreCompiled == Spec => []ColumnsFit
BY Catchable, ColumnsSettle, PTL

(* Every row has the coefficients and, while active, the bounds of the      *)
(* model, relaxed if it is softened; and no edit was lowered past a         *)
(* construct whose generated part depends on what it changed.               *)
THEOREM RowsAreCompiled == Spec => []RowsFit
BY Catchable, RowsSettle, PTL

(* HiGHS minimizes the model's active objective with its penalties and its  *)
(* constant, and the caches hold every other one's, whatever was activated, *)
(* edited or removed before.                                                *)
THEOREM ObjectivesAreCompiled == Spec => []ObjectivesFit
BY Catchable, ObjectivesSettle, PTL

(* After any chain of deltas the compiler remembers what a compilation of   *)
(* the whole model would have recorded.                                     *)
THEOREM CompilerIsCurrent == Spec => []CompilerFits
BY Catchable, CompilerSettles, PTL
=============================================================================
