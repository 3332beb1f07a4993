----------------------------- MODULE DeltaCompile -----------------------------
(***************************************************************************)
(* Two ways to the same native model.  Model (src/src/model/mod.rs) logs   *)
(* every edit; the identity compiler (src/src/compiler/session.rs) brings  *)
(* the HiGHS model to the edited state either by lowering the logged       *)
(* operations one by one (compile_delta) or by compiling a snapshot of the *)
(* whole model (compile_snapshot), and falls back from the first to the    *)
(* second for what it does not lower.  Both have to end in the same native *)
(* model.                                                                  *)
(*                                                                         *)
(* A bound is the set of values it admits.  Entities carry generations in  *)
(* the code, so a removed name is never used again here.  The operations   *)
(* compile_delta emits are represented by the native model they lead to,   *)
(* which the backend gets only after the last one has been compiled.       *)
(* `changes` is the chain of batches the next synchronization finds; how a *)
(* chain is cut into revisions does not matter to what it compiles to.     *)
(***************************************************************************)
EXTENDS HighsModel, Integers, Sequences, SequencesExt

CONSTANTS
    Value,      \* what variables and rows may be worth
    Programs,   \* what programs edit with: the entities they create, the bounds of
                \*   variables and rows (sets of values), the values variables are
                \*   fixed to, their types, the lower bounds of semi-continuous
                \*   domains, the coefficients and the objective constants
    Refers,     \* per construct: the variables its formulation refers to
    Softens,    \* per construct: the constraint it softens, or None
    Penalises,  \* per construct: the objective that pays for violations, or None
    MaxChanges  \* no edit is made with this many operations logged

\* The data of a variable and of a constraint, what the native model keeps of a
\* variable, and the coefficients a row comes with.
Types == UNION {p.types : p \in Programs}
VariableData ==
    [bounds : SUBSET Value, type : Types, fixing : Value \cup {None},
     active : BOOLEAN, semi : BOOLEAN]
ConstraintData == [bounds : SUBSET Value, active : BOOLEAN]
Columns == [bounds : SUBSET Value, type : Types]
Cells == [Var -> Int \cup {None}]

ASSUME ValueAssumption == Value \subseteq Int /\ 0 \in Value
ASSUME ProgramsAssumption ==
    \A p \in Programs :
        /\ p.entities \subseteq Var \cup Con \cup Obj \cup Construct
        /\ p.bounds \cup p.rowBounds \subseteq (SUBSET Value) \ {{}}
        /\ p.coefs \cup p.offsets \subseteq Int
ASSUME ConstructAssumption ==
    /\ Refers \in [Construct -> SUBSET Var]
    /\ Softens \in [Construct -> Con \cup {None}]
    /\ Penalises \in [Construct -> Obj \cup {None}]
\* A model has finitely many entities, and no name is that of a constraint and
\* of an objective.
ASSUME NamesAssumption ==
    /\ IsFiniteSet(Var) /\ IsFiniteSet(Con) /\ IsFiniteSet(Obj) /\ IsFiniteSet(Construct)
    /\ Con \cap Obj = {}
\* None is nothing else that a name, a number or a piece of data could be.
ASSUME NoneAssumption ==
    /\ None \notin Var \cup Con \cup Obj \cup Construct
    /\ None \notin Int
    /\ None \notin Types
    /\ \A b \in SUBSET Value : b # None
    /\ None \notin VariableData
    /\ None \notin ConstraintData
    /\ None \notin Columns
    /\ None \notin {"active", "inactive"}

VARIABLES
    program,      \* the one that runs
    variables,    \* per variable: its data, None unless live
    constraints,  \* per constraint: its data, None unless live
    objectives,   \* per objective: its constant, None unless live
    active,       \* the active objective, or None
    cells,        \* per constraint or objective and variable: the coefficient
    constructs,   \* per construct: "active", "inactive", None unless live
    used,         \* every name ever handed out
    changes,      \* operations logged that no synchronization has taken up
    phase,        \* "editing", "compiling" or "rebuilding"
    mustRebuild,  \* the last synchronization failed: the next one rebuilds
    todo,         \* operations compile_delta has still to lower
    current,      \* CurrentCompilation: what the compiler knows of its base
    work,         \* compile_delta's copy of it, and the native model it
                  \*   leads to; None unless compiling
    native        \* the native model

modelVars == <<variables, constraints, objectives, active, cells, constructs, used>>
syncVars == <<phase, mustRebuild, todo, current, work, native>>
vars == <<program, modelVars, changes, syncVars>>

-----------------------------------------------------------------------------
(* The model's data *)

Target == Con \cup Obj
LiveVars == {v \in Var : variables[v] # None}
LiveCons == {c \in Con : constraints[c] # None}
LiveObjs == {o \in Obj : objectives[o] # None}

NewVariable(bounds, type) ==
    [bounds |-> bounds, type |-> type, fixing |-> None, active |-> TRUE, semi |-> FALSE]
NewConstraint(bounds) == [bounds |-> bounds, active |-> TRUE]

\* A row or objective without cells; a row of coefficients without its holes.
NoCells == [v \in Var |-> None]
Dense(row) == [v \in Var |-> IF row[v] = None THEN 0 ELSE row[v]]
Holding(v) == {t \in Target : cells[t][v] # None}
CellsOf(t) == {v \in Var : cells[t][v] # None}

\* The constructs that soften constraint c.
Anchored(c) == {k \in Construct : constructs[k] # None /\ Softens[k] = c}
ActiveConstructs == {k \in Construct : constructs[k] = "active"}

-----------------------------------------------------------------------------
(* take_snapshot and compile_snapshot *)

(* The fixing is folded into the bounds, then the activity. *)
EffectiveBounds(v) ==
    IF ~variables[v].active THEN {0}
    ELSE IF variables[v].fixing # None THEN {variables[v].fixing}
    ELSE variables[v].bounds

\* An inactive row admits anything, and so does a softened one, whose bounds
\* are enforced by the rows its construct generates.
EffectiveRowBounds(c) ==
    IF constraints[c].active /\ Anchored(c) \cap ActiveConstructs = {}
    THEN constraints[c].bounds ELSE Value

\* What the bridge of an active construct generates depends on the bounds of
\* the variables it refers to, or on the row it softens.
Generated(k) ==
    IF k \notin ActiveConstructs THEN None
    ELSE IF Softens[k] = None
    THEN [reach |-> [v \in Refers[k] \cap LiveVars |-> EffectiveBounds(v)]]
    ELSE [bounds |-> constraints[Softens[k]].bounds, row |-> Dense(cells[Softens[k]])]

\* The dependencies it records.
DependenciesOf(k) ==
    Refers[k] \cup IF Softens[k] = None THEN {}
                   ELSE {Softens[k]} \cup CellsOf(Softens[k])

Charging(o) == {k \in ActiveConstructs : Softens[k] # None /\ Penalises[k] = o}

(* What compile_snapshot rejects: semi-continuous variables, a reference to *)
(* a removed variable, softening of an inactive row, a penalty in a removed *)
(* objective.                                                               *)
Representable ==
    /\ \A v \in LiveVars : ~variables[v].semi
    /\ \A k \in ActiveConstructs :
          /\ Refers[k] \subseteq LiveVars
          /\ Softens[k] # None => constraints[Softens[k]].active
          /\ Softens[k] # None /\ Penalises[k] # None => Penalises[k] \in LiveObjs

Snapshot ==
    [cols |-> [v \in Var |-> IF v \in LiveVars
                             THEN Column(EffectiveBounds(v), variables[v].type)
                             ELSE None],
     rows |-> [c \in Con |-> IF c \in LiveCons THEN EffectiveRowBounds(c) ELSE None],
     coeff |-> [c \in Con |-> Dense(cells[c])],
     objectives |-> LiveObjs,
     costs |-> [o \in Obj |-> Dense(cells[o])],
     penalties |-> [o \in Obj |-> Charging(o)],
     offsets |-> [o \in Obj |-> IF o \in LiveObjs THEN objectives[o] ELSE 0],
     generated |-> [k \in Construct |-> Generated(k)],
     policy |-> active]

\* What the compiler remembers of a compiled snapshot.
CompiledFrom(s) ==
    [variables |-> LiveVars,
     activity |-> [v \in Var |-> v \in LiveVars /\ variables[v].active],
     rows |-> LiveCons,
     objectives |-> s.objectives,
     terms |-> s.costs,
     charges |-> s.penalties,
     constants |-> s.offsets,
     policy |-> s.policy,
     dependencies |-> UNION {DependenciesOf(k) : k \in ActiveConstructs}]

Init ==
    /\ program \in Programs
    /\ variables = [v \in Var |-> None]
    /\ constraints = [c \in Con |-> None]
    /\ objectives = [o \in Obj |-> None]
    /\ active = None
    /\ cells = [t \in Target |-> NoCells]
    /\ constructs = [k \in Construct |-> None]
    /\ used = {}
    /\ changes = <<>>
    /\ phase = "editing"
    /\ mustRebuild = FALSE
    /\ todo = <<>>
    /\ current = CompiledFrom(Snapshot)
    /\ work = None
    /\ native = EmptyNative

-----------------------------------------------------------------------------
(* Editing the model.  Every edit that changes something logs what it did.  *)
(* After a failed synchronization the log is of no use: the chain it        *)
(* belongs to fails again, and so the next synchronization rebuilds.        *)

Editing == phase = "editing" /\ Len(changes) < MaxChanges

Log(ops) ==
    /\ changes' = IF mustRebuild THEN changes ELSE changes \o ops
    /\ UNCHANGED syncVars

Fresh(name) == name \in program.entities \ used /\ used' = used \cup {name}

AddVariable(v, b, type) ==
    /\ Editing
    /\ Fresh(v)
    /\ variables' = [variables EXCEPT ![v] = NewVariable(b, type)]
    /\ Log(<<[kind |-> "AddVariable", var |-> v, bounds |-> b, type |-> type]>>)
    /\ UNCHANGED <<constraints, objectives, active, cells, constructs>>

CellRemovals(t, vs) ==
    SetToSeq({[kind |-> "RemoveCell", target |-> t, var |-> v] : v \in vs})

\* The cells of the variable go first, then the variable.
RemoveVariable(v) ==
    /\ Editing
    /\ v \in LiveVars
    /\ variables' = [variables EXCEPT ![v] = None]
    /\ cells' = [t \in Target |-> [cells[t] EXCEPT ![v] = None]]
    /\ Log(SetToSeq({[kind |-> "RemoveCell", target |-> t, var |-> v] : t \in Holding(v)})
           \o <<[kind |-> "RemoveVariable", var |-> v]>>)
    /\ UNCHANGED <<constraints, objectives, active, constructs, used>>

\* Declared bounds have to admit the value a variable is fixed to.
Admits(v, b) == variables[v].fixing = None \/ variables[v].fixing \in b

BoundsOp(v, b) == [kind |-> "SetVariableBounds", var |-> v, bounds |-> b]

SetVariableBounds(v, b) ==
    /\ Editing
    /\ v \in LiveVars
    /\ Admits(v, b)
    /\ b # variables[v].bounds
    /\ variables' = [variables EXCEPT ![v].bounds = b]
    /\ Log(<<BoundsOp(v, b)>>)
    /\ UNCHANGED <<constraints, objectives, active, cells, constructs, used>>

Fix(v, x) ==
    /\ Editing
    /\ v \in LiveVars
    /\ x \in variables[v].bounds
    /\ variables' = [variables EXCEPT ![v].fixing = x]
    /\ Log(<<[kind |-> "SetVariableFixing", var |-> v, effective |-> {x}]>>)
    /\ UNCHANGED <<constraints, objectives, active, cells, constructs, used>>

Unfix(v) ==
    /\ Editing
    /\ v \in LiveVars
    /\ variables[v].fixing # None
    /\ variables' = [variables EXCEPT ![v].fixing = None]
    /\ Log(<<[kind |-> "SetVariableFixing", var |-> v,
              effective |-> variables[v].bounds]>>)
    /\ UNCHANGED <<constraints, objectives, active, cells, constructs, used>>

SetVariableActive(v) ==
    /\ Editing
    /\ v \in LiveVars
    /\ variables' = [variables EXCEPT ![v].active = ~@]
    /\ Log(<<[kind |-> "SetVariableActive", var |-> v]>>)
    /\ UNCHANGED <<constraints, objectives, active, cells, constructs, used>>

SetVariableType(v, type) ==
    /\ Editing
    /\ v \in LiveVars
    /\ type # variables[v].type
    /\ variables' = [variables EXCEPT ![v].type = type]
    /\ Log(<<[kind |-> "SetVariableType", var |-> v]>>)
    /\ UNCHANGED <<constraints, objectives, active, cells, constructs, used>>

(* A lower bound above the declared one raises it first, through            *)
(* set_variable_bounds and its check of the fixing.                         *)
SetSemicontinuous(v, lower) ==
    LET raised == {x \in variables[v].bounds : x >= lower} IN
    /\ Editing
    /\ v \in LiveVars
    /\ raised # {}
    /\ Admits(v, raised)
    /\ variables' = [variables EXCEPT ![v].bounds = raised, ![v].semi = TRUE]
    /\ Log((IF raised = variables[v].bounds THEN <<>> ELSE <<BoundsOp(v, raised)>>)
           \o <<[kind |-> "SetSemiContinuousBound", var |-> v]>>)
    /\ UNCHANGED <<constraints, objectives, active, cells, constructs, used>>

\* Several rows may be added in one block with their coefficients; an empty
\* row is the block without any.
AddRows(c, b, row) ==
    /\ Editing
    /\ Fresh(c)
    /\ \A v \in Var : row[v] # None => v \in LiveVars
    /\ constraints' = [constraints EXCEPT ![c] = NewConstraint(b)]
    /\ cells' = [cells EXCEPT ![c] = row]
    /\ Log(<<[kind |-> "AddLinearRows", con |-> c, bounds |-> b, row |-> row]>>)
    /\ UNCHANGED <<variables, objectives, active, constructs>>

\* The constructs that soften the constraint go first, then its cells.
RemoveConstraint(c) ==
    /\ Editing
    /\ c \in LiveCons
    /\ constructs' = [k \in Construct |-> IF k \in Anchored(c) THEN None ELSE constructs[k]]
    /\ cells' = [cells EXCEPT ![c] = NoCells]
    /\ constraints' = [constraints EXCEPT ![c] = None]
    /\ Log(SetToSeq({[kind |-> "RemoveConstruct", construct |-> k] : k \in Anchored(c)})
           \o CellRemovals(c, CellsOf(c))
           \o <<[kind |-> "RemoveConstraint", con |-> c]>>)
    /\ UNCHANGED <<variables, objectives, active, used>>

SetConstraintBounds(c, b) ==
    /\ Editing
    /\ c \in LiveCons
    /\ b # constraints[c].bounds
    /\ constraints' = [constraints EXCEPT ![c].bounds = b]
    /\ Log(<<[kind |-> "SetConstraintBounds", con |-> c, bounds |-> b]>>)
    /\ UNCHANGED <<variables, objectives, active, cells, constructs, used>>

SetConstraintActive(c) ==
    /\ Editing
    /\ c \in LiveCons
    /\ constraints' = [constraints EXCEPT ![c].active = ~@]
    /\ Log(<<[kind |-> "SetConstraintActive", con |-> c]>>)
    /\ UNCHANGED <<variables, objectives, active, cells, constructs, used>>

AddObjective(o) ==
    /\ Editing
    /\ Fresh(o)
    /\ objectives' = [objectives EXCEPT ![o] = 0]
    /\ Log(<<[kind |-> "AddObjective", obj |-> o]>>)
    /\ UNCHANGED <<variables, constraints, active, cells, constructs>>

\* Removing the active objective leaves none active, without an operation
\* that says so.
ActiveWithout(o) == IF active = o THEN None ELSE active

RemoveObjective(o) ==
    /\ Editing
    /\ o \in LiveObjs
    /\ cells' = [cells EXCEPT ![o] = NoCells]
    /\ objectives' = [objectives EXCEPT ![o] = None]
    /\ active' = ActiveWithout(o)
    /\ Log(CellRemovals(o, CellsOf(o)) \o <<[kind |-> "RemoveObjective", obj |-> o]>>)
    /\ UNCHANGED <<variables, constraints, constructs, used>>

\* set_active_objective, and clear_active_objective for None.
SetActiveObjective(o) ==
    /\ Editing
    /\ o \in LiveObjs \cup {None}
    /\ o # active
    /\ active' = o
    /\ Log(<<[kind |-> "SetActiveObjective", obj |-> o]>>)
    /\ UNCHANGED <<variables, constraints, objectives, cells, constructs, used>>

SetObjectiveConstant(o, x) ==
    /\ Editing
    /\ o \in LiveObjs
    /\ x # objectives[o]
    /\ objectives' = [objectives EXCEPT ![o] = x]
    /\ Log(<<[kind |-> "SetObjectiveConstant", obj |-> o, value |-> x]>>)
    /\ UNCHANGED <<variables, constraints, active, cells, constructs, used>>

SetCoefficient(t, v, x) ==
    /\ Editing
    /\ t \in LiveCons \cup LiveObjs
    /\ v \in LiveVars
    /\ cells[t][v] # x
    /\ cells' = [cells EXCEPT ![t][v] = x]
    /\ Log(<<[kind |-> "SetCell", target |-> t, var |-> v, value |-> x]>>)
    /\ UNCHANGED <<variables, constraints, objectives, active, constructs, used>>

RemoveCoefficient(t, v) ==
    /\ Editing
    /\ t \in LiveCons \cup LiveObjs
    /\ v \in LiveVars
    /\ cells[t][v] # None
    /\ cells' = [cells EXCEPT ![t][v] = None]
    /\ Log(CellRemovals(t, {v}))
    /\ UNCHANGED <<variables, constraints, objectives, active, constructs, used>>

(* soften_constraint, or one of the add_ operations of constructs over      *)
(* variables.  A softened constraint is active, bounded and softened once.  *)
AddConstruct(k) ==
    /\ Editing
    /\ Fresh(k)
    /\ Refers[k] \subseteq LiveVars
    /\ Softens[k] # None =>
          /\ Softens[k] \in LiveCons
          /\ constraints[Softens[k]].active
          /\ constraints[Softens[k]].bounds # Value
          /\ Anchored(Softens[k]) = {}
          /\ Penalises[k] \in LiveObjs \cup {None}
    /\ constructs' = [constructs EXCEPT ![k] = "active"]
    /\ Log(<<[kind |-> "AddConstruct", construct |-> k]>>)
    /\ UNCHANGED <<variables, constraints, objectives, active, cells>>

SetConstructActive(k) ==
    /\ Editing
    /\ constructs[k] # None
    /\ constructs' = [constructs EXCEPT ![k] = IF @ = "active" THEN "inactive" ELSE "active"]
    /\ Log(<<[kind |-> "SetConstructActive", construct |-> k]>>)
    /\ UNCHANGED <<variables, constraints, objectives, active, cells, used>>

RemoveConstruct(k) ==
    /\ Editing
    /\ constructs[k] # None
    /\ constructs' = [constructs EXCEPT ![k] = None]
    /\ Log(<<[kind |-> "RemoveConstruct", construct |-> k]>>)
    /\ UNCHANGED <<variables, constraints, objectives, active, cells, used>>

Edit ==
    \/ \E v \in Var :
          \/ \E b \in program.bounds, type \in program.types : AddVariable(v, b, type)
          \/ RemoveVariable(v)
          \/ \E b \in program.bounds : SetVariableBounds(v, b)
          \/ \E x \in program.fixedTo : Fix(v, x)
          \/ Unfix(v)
          \/ SetVariableActive(v)
          \/ \E type \in program.types : SetVariableType(v, type)
          \/ \E lower \in program.nonzeroFrom : SetSemicontinuous(v, lower)
    \/ \E c \in Con :
          \/ \E b \in program.rowBounds, row \in [Var -> program.coefs \cup {None}] :
                AddRows(c, b, row)
          \/ RemoveConstraint(c)
          \/ \E b \in program.rowBounds : SetConstraintBounds(c, b)
          \/ SetConstraintActive(c)
    \/ \E o \in Obj :
          \/ AddObjective(o)
          \/ RemoveObjective(o)
          \/ \E x \in program.offsets : SetObjectiveConstant(o, x)
    \/ \E o \in Obj \cup {None} : SetActiveObjective(o)
    \/ \E t \in Target, v \in Var :
          \/ \E x \in program.coefs : SetCoefficient(t, v, x)
          \/ RemoveCoefficient(t, v)
    \/ \E k \in Construct :
          \/ AddConstruct(k)
          \/ SetConstructActive(k)
          \/ RemoveConstruct(k)

-----------------------------------------------------------------------------
(* Synchronizing.  The model is borrowed until it ends. *)

\* compile_delta of the logged chain, on a copy of the compiled base.
StartReplay ==
    /\ phase = "editing"
    /\ ~mustRebuild
    /\ changes # <<>>
    /\ phase' = "compiling"
    /\ todo' = changes
    /\ changes' = <<>>
    /\ work' = [current |-> current, native |-> native]
    /\ UNCHANGED <<modelVars, mustRebuild, current, native>>

\* The session rebuilds at once when the backend is marked, when the journal
\* has evicted a batch, or when another model was solved in between.
StartRebuild ==
    /\ phase = "editing"
    /\ phase' = "rebuilding"
    /\ changes' = <<>>
    /\ UNCHANGED <<modelVars, mustRebuild, todo, current, work, native>>

(* What compile_delta can lower.  The dependencies of the constructs are    *)
(* those of the compiled base; what it knows of entities is its copy's.     *)
Op == Head(todo)
Known == work.current

\* Faulty: what a construct was generated from is not looked at.
IndependentOfNothing(e) == TRUE

\* construct_depends_on_variable, construct_depends_on_constraint.
Independent(e) == e \notin current.dependencies

\* Faulty: an inactive variable's bounds are lowered as they are declared.
KnownVariable(v) == v \in Known.variables

\* Bounds of an inactive variable have to be folded: only a rebuild does that.
KnownActive(v) == v \in Known.variables /\ Known.activity[v]

KnownCell(t, v) ==
    /\ v \in Known.variables
    /\ t \in Known.rows \cup Known.objectives
    /\ t \in Con => Independent(t)

Lowerable ==
    CASE Op.kind = "AddVariable" -> TRUE
      [] Op.kind = "RemoveVariable" -> Independent(Op.var) /\ Op.var \in Known.variables
      [] Op.kind \in {"SetVariableBounds", "SetVariableFixing"} ->
             Independent(Op.var) /\ KnownActive(Op.var)
      [] Op.kind = "AddLinearRows" ->
             \A v \in Var : Op.row[v] # None => v \in Known.variables
      [] Op.kind \in {"RemoveConstraint", "SetConstraintBounds"} ->
             Independent(Op.con) /\ Op.con \in Known.rows
      [] Op.kind \in {"SetCell", "RemoveCell"} -> KnownCell(Op.target, Op.var)
      [] Op.kind = "AddObjective" -> TRUE
      [] Op.kind \in {"RemoveObjective", "SetObjectiveConstant"} ->
             Op.obj \in Known.objectives
      [] Op.kind = "SetActiveObjective" -> Op.obj \in Known.objectives \cup {None}
      [] OTHER -> FALSE

\* CompileError::RebuildRequired: nothing of the chain reaches the backend.
RebuildRequired ==
    /\ phase = "compiling"
    /\ todo # <<>>
    /\ ~Lowerable
    /\ phase' = "rebuilding"
    /\ todo' = <<>>
    /\ work' = None
    /\ UNCHANGED <<modelVars, changes, mustRebuild, current, native>>

Lowering(kinds) == phase = "compiling" /\ todo # <<>> /\ Op.kind \in kinds /\ Lowerable

\* The copy becomes c, and the operations emitted so far lead to n.
Emit(c, n) ==
    /\ work' = [current |-> c, native |-> n]
    /\ todo' = Tail(todo)
    /\ UNCHANGED <<modelVars, changes, phase, mustRebuild, current, native>>

LowerAddVariable ==
    /\ Lowering({"AddVariable"})
    /\ Emit([Known EXCEPT !.variables = @ \cup {Op.var}, !.activity[Op.var] = TRUE],
            AddColumn(work.native, Op.var, Op.bounds, Op.type))

LowerRemoveVariable ==
    /\ Lowering({"RemoveVariable"})
    /\ Emit([Known EXCEPT !.variables = @ \ {Op.var}], RemoveColumn(work.native, Op.var))

LowerVariableBounds ==
    /\ Lowering({"SetVariableBounds"})
    /\ Emit(Known, SetColumnBounds(work.native, Op.var, Op.bounds))

LowerVariableFixing ==
    /\ Lowering({"SetVariableFixing"})
    /\ Emit(Known, SetColumnBounds(work.native, Op.var, Op.effective))

LowerAddRows ==
    /\ Lowering({"AddLinearRows"})
    /\ Emit([Known EXCEPT !.rows = @ \cup {Op.con}],
            AddRow(work.native, Op.con, Op.bounds, Dense(Op.row)))

LowerRemoveConstraint ==
    /\ Lowering({"RemoveConstraint"})
    /\ Emit([Known EXCEPT !.rows = @ \ {Op.con}], RemoveRow(work.native, Op.con))

LowerConstraintBounds ==
    /\ Lowering({"SetConstraintBounds"})
    /\ Emit(Known, SetRowBounds(work.native, Op.con, Op.bounds))

LowerSetCell ==
    /\ Lowering({"SetCell"})
    /\ IF Op.target \in Con
       THEN Emit(Known, SetNativeCoefficient(work.native, Op.target, Op.var, Op.value))
       ELSE Emit([Known EXCEPT !.terms[Op.target][Op.var] = Op.value],
                 SetCost(work.native, Op.target, Op.var, Op.value))

\* Faulty: the compiler keeps the term of a removed cell.
LowerRemoveCellNativeOnly ==
    /\ Lowering({"RemoveCell"})
    /\ IF Op.target \in Con
       THEN Emit(Known, SetNativeCoefficient(work.native, Op.target, Op.var, 0))
       ELSE Emit(Known, SetCost(work.native, Op.target, Op.var, 0))

LowerRemoveCell ==
    /\ Lowering({"RemoveCell"})
    /\ IF Op.target \in Con
       THEN Emit(Known, SetNativeCoefficient(work.native, Op.target, Op.var, 0))
       ELSE Emit([Known EXCEPT !.terms[Op.target][Op.var] = 0],
                 SetCost(work.native, Op.target, Op.var, 0))

LowerAddObjective ==
    /\ Lowering({"AddObjective"})
    /\ Emit([Known EXCEPT !.objectives = @ \cup {Op.obj}], AddObjectiveTo(work.native, Op.obj))

\* The operation says nothing of the active objective: the compiler adds that
\* there is none now.
LowerRemoveObjective ==
    /\ Lowering({"RemoveObjective"})
    /\ LET o == Op.obj
           wasActive == Known.policy = o
           removed == RemoveObjectiveFrom(work.native, o)
       IN Emit([Known EXCEPT !.objectives = @ \ {o}, !.terms[o] = NoCosts,
                             !.charges[o] = {}, !.constants[o] = 0,
                             !.policy = IF wasActive THEN None ELSE @],
               IF wasActive THEN Project(removed, None) ELSE removed)

LowerActiveObjective ==
    /\ Lowering({"SetActiveObjective"})
    /\ Emit([Known EXCEPT !.policy = Op.obj], Project(work.native, Op.obj))

LowerObjectiveConstant ==
    /\ Lowering({"SetObjectiveConstant"})
    /\ Emit([Known EXCEPT !.constants[Op.obj] = Op.value],
            SetOffset(work.native, Op.obj, Op.value))

\* Everything is compiled: the base advances and the backend applies it.
Deliver ==
    /\ phase = "compiling"
    /\ todo = <<>>
    /\ current' = work.current
    /\ native' = work.native
    /\ work' = None
    /\ phase' = "editing"
    /\ UNCHANGED <<modelVars, changes, mustRebuild, todo>>

Rebuild ==
    /\ phase = "rebuilding"
    /\ Representable
    /\ current' = CompiledFrom(Snapshot)
    /\ native' = RebuildFrom(Snapshot)
    /\ mustRebuild' = FALSE
    /\ phase' = "editing"
    /\ UNCHANGED <<modelVars, changes, todo, work>>

(* compile_snapshot rejects the model: base and native model stay.  What    *)
(* led to the rebuild leads to one again at the next attempt.               *)
RebuildRejected ==
    /\ phase = "rebuilding"
    /\ ~Representable
    /\ mustRebuild' = TRUE
    /\ phase' = "editing"
    /\ UNCHANGED <<modelVars, changes, todo, current, work, native>>

Synchronize ==
    \/ StartReplay
    \/ StartRebuild
    \/ RebuildRequired
    \/ LowerAddVariable
    \/ LowerRemoveVariable
    \/ LowerVariableBounds
    \/ LowerVariableFixing
    \/ LowerAddRows
    \/ LowerRemoveConstraint
    \/ LowerConstraintBounds
    \/ LowerSetCell
    \/ LowerRemoveCell
    \/ LowerAddObjective
    \/ LowerRemoveObjective
    \/ LowerActiveObjective
    \/ LowerObjectiveConstant
    \/ Deliver
    \/ Rebuild
    \/ RebuildRejected

Next == UNCHANGED program /\ (Edit \/ Synchronize)

Spec == Init /\ [][Next]_vars

-----------------------------------------------------------------------------
(* Properties *)

\* The session has synchronized and nothing was edited since.
InSync == phase = "editing" /\ changes = <<>> /\ ~mustRebuild

(* Whatever sequence of edits is compiled, by whichever path, every column  *)
(* has the type and the effective bounds the model says (compile_delta and  *)
(* compile_snapshot agree).  Columns of fixed variables are FixedStaysFixed's. *)
ColumnsFit ==
    InSync => \A v \in Var :
        /\ native.cols[v] # None <=> v \in LiveVars
        /\ v \in LiveVars =>
              /\ native.cols[v].type = variables[v].type
              /\ \/ native.cols[v].bounds = EffectiveBounds(v)
                 \/ variables[v].active /\ variables[v].fixing # None

(* Every row has the coefficients of the model and, while it is active, the *)
(* bounds: relaxed if a construct softens it, enforced otherwise; and what  *)
(* a construct generated is what its bridge would generate now: no edit of  *)
(* a variable's bounds, a row's bounds or its cells is lowered past a       *)
(* construct that depends on it.  Bounds set on an inactive constraint      *)
(* enforce its row when they are replayed (compiler/session.rs:1144), which *)
(* is why inactive ones are left out.                                       *)
RowsFit ==
    InSync =>
        /\ \A c \in Con :
              /\ native.rows[c] # None <=> c \in LiveCons
              /\ native.coeff[c] = Dense(cells[c])
              /\ c \in LiveCons /\ constraints[c].active =>
                    native.rows[c] = EffectiveRowBounds(c)
        /\ \A k \in Construct : native.generated[k] = Generated(k)

(* HiGHS minimizes the model's active objective and nothing else: its costs *)
(* in the native columns are that objective's cells and penalties, whatever *)
(* was activated, edited or removed before; and the caches hold every other *)
(* objective's, ready to be activated.                                      *)
ObjectivesFit ==
    InSync =>
        /\ native.objectives = LiveObjs
        /\ \A o \in LiveObjs :
              /\ native.costs[o] = Dense(cells[o])
              /\ native.offsets[o] = objectives[o]
              /\ native.penalties[o] = Charging(o)
        /\ native.active = active
        /\ native.colCost = IF active = None THEN NoCosts ELSE Dense(cells[active])
        /\ native.charged = IF active = None THEN {} ELSE Charging(active)
        /\ native.offset = IF active = None THEN 0 ELSE objectives[active]

(* The terms the compiler answers for an objective (compiled_objective_terms, *)
(* from which overlays build rows) and its activities and dependencies are  *)
(* those a fresh compilation of the model would record.                     *)
CompilerFits ==
    InSync =>
        /\ current.variables = LiveVars
        /\ current.rows = LiveCons
        /\ current.objectives = LiveObjs
        /\ current.policy = active
        /\ \A v \in LiveVars : current.activity[v] = variables[v].active
        /\ \A o \in LiveObjs :
              /\ current.terms[o] = Dense(cells[o])
              /\ current.constants[o] = objectives[o]
              /\ current.charges[o] = Charging(o)
        /\ current.dependencies = UNION {DependenciesOf(k) : k \in ActiveConstructs}

(* "the model API, `compile_snapshot`, and `compile_delta` must agree"      *)
(* (src/src/model/mod.rs:1762): a fixed variable's column is fixed.         *)
FixedStaysFixed ==
    InSync => \A v \in LiveVars :
        variables[v].active /\ variables[v].fixing # None
            => native.cols[v].bounds = {variables[v].fixing}
=============================================================================
