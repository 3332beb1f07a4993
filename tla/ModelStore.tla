------------------------------ MODULE ModelStore ------------------------------
(* A model's coefficients and parameters (src/model/mod.rs): the edits that    *)
(* reach the coefficient store, the queue of parameter changes and the commit  *)
(* that applies and propagates them, and the change log every edit leaves.     *)
(* The reference backend (src/solver/reference.rs) replays that log; it is     *)
(* followed here change by change, since how changes are grouped in revisions  *)
(* and reach a backend that lags behind is the subject of SyncCoordinator.     *)
(*                                                                             *)
(* Left out: bounds, types and activity (DeltaCompile), constructs             *)
(* (ConstructBridge), names, metadata and objective constants.                 *)
EXTENDS CoefficientStore

LOCAL INSTANCE SequencesExt
LOCAL INSTANCE FiniteSetsExt

CONSTANTS Vars,          \* the variables of the model, naturals
          Rows, Objs,    \* the constraints and objectives that may be created
          Exprs,         \* expressions a caller may add to a cell
          Values,        \* constants a caller may set a cell to
          LinearInputs,  \* term lists <<variable, value>> of a bulk call
          ParamInputs,   \* term lists [var, param, scale] of a bulk call
          Layouts,       \* dependency layouts: sets of blocks, {} for none
          InitialValues, \* values a parameter may be created with
          ParamValues,   \* values a parameter may be set to
          Spans,         \* spans of parameters a bulk update may name
          MaxSteps,      \* bounds the number of edits
          NoObjective

ASSUME VarsAssumption == Vars \subseteq Nat /\ IsFiniteSet(Vars)
ASSUME TargetsAssumption == Rows \cap Objs = {}
ASSUME StepsAssumption == MaxSteps \in Nat

Targets == Rows \cup Objs

VARIABLES store,         \* Model.coefficients
          params,        \* Model.parameters: the value of every parameter
          pending,       \* Transaction.pending: last queued value, by parameter
          blocks,        \* Transaction.pending_blocks, in order
          vars,          \* live variables
          targets,       \* live constraints and objectives
          born,          \* those ever created: identities are not reused
          active,        \* the active objective
          replica,       \* the reference backend after replaying the log
          steps

model == <<store, params, pending, blocks, vars, targets, born, active>>
all == <<model, replica, steps>>

-----------------------------------------------------------------------------
(* The log: every change compiles to one operation the backend applies.        *)

Cell(key, expr, value) == [key |-> key, expr |-> expr, value |-> value]
CellOf(d) == Cell(d.key, d.expr, d.cached)

SetCells(C) == [op |-> "set_cells", cells |-> C]
RemoveCell(key) == [op |-> "remove_cell", key |-> key]
PatchCells(C) == [op |-> "patch_cells", cells |-> C]
SetParams(f) == [op |-> "set_params", values |-> f]
AddTarget(t) == [op |-> "add_target", target |-> t]
RemoveTargetOp(t) == [op |-> "remove_target", target |-> t]
RemoveVariableOp(v) == [op |-> "remove_variable", var |-> v]
SetActive(o) == [op |-> "set_active", target |-> o]

\* The cells of r overwritten by those in C.
Overwrite(cells, C) ==
    [k \in DOMAIN cells \cup {c.key : c \in C} |->
        IF \E c \in C : c.key = k
        THEN LET c == CHOOSE c \in C : c.key = k IN [expr |-> c.expr, value |-> c.value]
        ELSE cells[k]]

Keeping(cells, K) == [k \in K |-> cells[k]]

ApplyOp(r, o) ==
    CASE o.op = "set_cells" -> [r EXCEPT !.cells = Overwrite(@, o.cells)]
      [] o.op = "remove_cell" ->
            [r EXCEPT !.cells = Keeping(@, DOMAIN @ \ {o.key})]
      [] o.op = "patch_cells" ->
            IF {c.key : c \in o.cells} \subseteq DOMAIN r.cells
            THEN [r EXCEPT !.cells =
                    Overwrite(@, {Cell(c.key, @[c.key].expr, c.value) : c \in o.cells})]
            ELSE [r EXCEPT !.intact = FALSE]
      [] o.op = "set_params" ->
            [r EXCEPT !.params = [p \in Params |->
                IF p \in DOMAIN o.values THEN o.values[p] ELSE @[p]]]
      [] o.op = "add_target" -> [r EXCEPT !.targets = @ \cup {o.target}]
      [] o.op = "remove_target" ->
            [r EXCEPT !.targets = @ \ {o.target},
                      !.cells = Keeping(@, {k \in DOMAIN @ : k[1] # o.target}),
                      !.active = IF @ = o.target THEN NoObjective ELSE @]
      [] o.op = "remove_variable" ->
            [r EXCEPT !.vars = @ \ {o.var},
                      !.cells = Keeping(@, {k \in DOMAIN @ : k[2] # o.var})]
      [] o.op = "set_active" -> [r EXCEPT !.active = o.target]

\* A backend that is not attached misses changes until its next rebuild.
Log(ops) == replica' = IF replica.attached THEN FoldLeft(ApplyOp, replica, ops)
                       ELSE replica

SnapshotCells == Overwrite(<<>>, {CellOf(d) : d \in Iter(store)})

\* A rebuild clears everything but the active objective.
Rebuilt(r) ==
    [vars |-> vars, targets |-> targets, cells |-> SnapshotCells, params |-> params,
     active |-> IF active # NoObjective THEN active ELSE r.active,
     attached |-> TRUE, intact |-> TRUE]

-----------------------------------------------------------------------------
Init ==
    /\ store = EmptyStore
    /\ params \in [Params -> InitialValues]
    /\ pending = <<>>
    /\ blocks = <<>>
    /\ vars = Vars
    /\ targets = {}
    /\ born = {}
    /\ active = NoObjective
    /\ replica = [vars |-> Vars, targets |-> {}, cells |-> <<>>, params |-> params,
                  active |-> NoObjective, attached |-> TRUE, intact |-> TRUE]
    /\ steps = 0

Step == steps < MaxSteps /\ steps' = steps + 1

\* A new constraint or objective.
Create(t) ==
    /\ t \in Targets \ born
    /\ born' = born \cup {t}
    /\ targets' = targets \cup {t}

KeepQueue == UNCHANGED <<params, pending, blocks>>

AddEmptyTarget(t) ==
    /\ Step
    /\ Create(t)
    /\ Log(<<AddTarget(t)>>)
    /\ UNCHANGED <<store, vars, active>>
    /\ KeepQueue

-----------------------------------------------------------------------------
(* Bulk construction: validate, canonicalize, append, log one change.          *)

TermVars(terms) == {terms[i].var : i \in DOMAIN terms}
TermsOf(terms, v) == {i \in DOMAIN terms : terms[i].var = v}

\* Duplicates are summed, totals near zero dropped.
TotalValue(terms, v) == MapThenSumSet(LAMBDA i : terms[i].value, TermsOf(terms, v))
CanonicalRow(terms) ==
    [v \in {w \in TermVars(terms) : Magnitude(TotalValue(terms, w)) >= Eps} |-> TotalValue(terms, v)]

ParamsOf(terms, v) == {terms[i].param : i \in TermsOf(terms, v)}
Packable(terms, v) == Cardinality(ParamsOf(terms, v)) = 1

TotalScale(terms, v) == MapThenSumSet(LAMBDA i : terms[i].scale, TermsOf(terms, v))

ParamCell(terms, v) ==
    LET p == CHOOSE p \in ParamsOf(terms, v) : TRUE
        scale == TotalScale(terms, v)
    IN  [param |-> p, scale |-> scale, cached |-> scale * params[p]]

\* A parametric constraint row drops cells whose scales cancel, an objective
\* keeps them.
CanonicalParamRow(terms) ==
    [v \in {w \in TermVars(terms) : Magnitude(TotalScale(terms, w)) >= Eps} |->
        ParamCell(terms, v)]

RowCells(t, row) == {Cell(<<t, v>>, Constant(row[v]), row[v]) : v \in DOMAIN row}
ParamRowCells(t, row) ==
    {Cell(<<t, v>>, ScaledParam(row[v].scale, row[v].param), row[v].cached) :
        v \in DOMAIN row}

AddLinearRowsBulk(t, terms) ==
    LET row == CanonicalRow(terms) IN
    /\ Step
    /\ t \in Rows
    /\ TermVars(terms) \subseteq vars
    /\ Create(t)
    /\ store' = AppendConstantRow(store, t, row)
    /\ Log(<<AddTarget(t), SetCells(RowCells(t, row))>>)
    /\ UNCHANGED <<vars, active>>
    /\ KeepQueue

\* Also the parametric half of add_rows_from_plan, which passes a layout.
AddLinearRowsParamBulk(t, terms, layout) ==
    LET row == CanonicalParamRow(terms) IN
    /\ Step
    /\ t \in Rows
    /\ TermVars(terms) \subseteq vars
    /\ \A v \in TermVars(terms) : Packable(terms, v)
    /\ ValidBlocks(row, layout)
    /\ Create(t)
    /\ store' = AppendParamRow(store, t, row, layout)
    /\ Log(<<AddTarget(t), SetCells(ParamRowCells(t, row))>>)
    /\ UNCHANGED <<vars, active>>
    /\ KeepQueue

\* Repeated variables take the general path: simplify the expression and add
\* its terms one at a time.  The cells are the same, in the overlay.
HasDuplicates(terms) == Cardinality(TermVars(terms)) < Len(terms)

AddTerm(s, t, v, expr) == Add(s, <<t, v>>, expr, Eval(expr, params))
Adding(s, t, exprs) ==
    LET vs == Ascending(DOMAIN exprs)
        after[k \in 0 .. Len(vs)] == IF k = 0 THEN s ELSE AddTerm(after[k - 1], t, vs[k], exprs[vs[k]])
    IN  after
AddTerms(s, t, exprs) == Adding(s, t, exprs)[Len(Ascending(DOMAIN exprs))]

SetLinearObjectiveBulk(t, terms) ==
    LET row == CanonicalRow(terms) IN
    /\ Step
    /\ t \in Objs
    /\ TermVars(terms) \subseteq vars
    /\ Create(t)
    /\ store' = IF HasDuplicates(terms)
                THEN AddTerms(store, t, [v \in DOMAIN row |-> Constant(row[v])])
                ELSE AppendConstantRow(store, t, row)
    /\ active' = t
    /\ Log(<<AddTarget(t), SetCells(RowCells(t, row)), SetActive(t)>>)
    /\ UNCHANGED vars
    /\ KeepQueue

\* Variables reached by several parameters are added to the overlay, which a
\* dependency layout does not allow; the combined cells are logged first.
CombinedExpr(terms, v) ==
    FoldSet(LAMBDA i, e : Plus(e, ScaledParam(terms[i].scale, terms[i].param)),
            Constant(0), TermsOf(terms, v))

SetLinearObjectiveParamBulk(t, terms, layout) ==
    LET packed == {v \in TermVars(terms) : Packable(terms, v)}
        row == [v \in packed |-> ParamCell(terms, v)]
        combined == [v \in TermVars(terms) \ packed |-> CombinedExpr(terms, v)]
    IN  /\ Step
        /\ t \in Objs
        /\ TermVars(terms) \subseteq vars
        /\ layout # {} => DOMAIN combined = {} /\ ValidBlocks(row, layout)
        /\ Create(t)
        /\ store' = AddTerms(AppendParamRow(store, t, row, layout), t, combined)
        /\ active' = t
        /\ Log(<<AddTarget(t),
                 SetCells({Cell(<<t, v>>, combined[v], Eval(combined[v], params)) :
                             v \in DOMAIN combined}),
                 SetCells(ParamRowCells(t, row)), SetActive(t)>>)
        /\ UNCHANGED vars
        /\ KeepQueue

-----------------------------------------------------------------------------
(* Edits of one cell.                                                          *)

LiveData(s, key) == UNION {Get(s, id) : id \in LiveId(s, key)}

\* The operation an added term logs: nothing when the value does not move.
AddedOp(old, new, key) ==
    LET d == CHOOSE d \in LiveData(new, key) : TRUE
        e == CHOOSE e \in LiveData(old, key) : TRUE
    IN  IF LiveData(old, key) # {} /\ ~ Differs(e.cached, d.cached) THEN <<>>
        ELSE <<SetCells({CellOf(d)})>>

EditCell(key) ==
    /\ Step
    /\ key \in targets \X vars
    /\ UNCHANGED <<vars, targets, born, active>>
    /\ KeepQueue

AddCoefficient(key, expr) ==
    LET s == Add(store, key, expr, Eval(expr, params)) IN
    /\ EditCell(key)
    /\ store' = s
    /\ Log(AddedOp(store, s, key))

\* The terms of a simplified expression are added, in the order of a hash map,
\* to whatever the objective has.
SetObjectiveExpr(o, terms) ==
    LET row == CanonicalRow(terms)
        s == AddTerms(store, o, [v \in DOMAIN row |-> Constant(row[v])])
        Logged(v) == AddedOp(store, s, <<o, v>>)
    IN  /\ Step
        /\ o \in targets \cap Objs
        /\ TermVars(terms) \subseteq vars
        /\ store' = s
        /\ Log(FlattenSeq([k \in DOMAIN Ascending(DOMAIN row) |->
                              Logged(Ascending(DOMAIN row)[k])]))
        /\ UNCHANGED <<vars, targets, born, active>>
        /\ KeepQueue

\* A constant that is there already is left alone; an expression is replaced
\* even when its present value is the same.
SameConstant(key, value) ==
    \E d \in LiveData(store, key) : IsConstant(d.expr) /\ ~ Differs(d.expr.const, value)

SetCoefficient(key, value) ==
    LET id == CHOOSE id \in LiveId(store, key) : TRUE
        changed == IF LiveId(store, key) = {}
                   THEN AddFresh(store, key, Constant(value), value)
                   ELSE SetExpr(store, id, Constant(value), value)
        same == SameConstant(key, value)
    IN  /\ EditCell(key)
        /\ store' = IF same THEN store ELSE changed
        /\ Log(IF same THEN <<>> ELSE <<SetCells({Cell(key, Constant(value), value)})>>)

\* Removals, one by one, with one logged operation each.
Removals(ids) ==
    [k \in DOMAIN ids |-> RemoveCell((CHOOSE d \in Get(store, ids[k]) : TRUE).key)]

RemoveCoefficientAt(key) ==
    LET ids == IF LiveId(store, key) = {} THEN <<>>
               ELSE <<CHOOSE id \in LiveId(store, key) : TRUE>>
    IN  /\ EditCell(key)
        /\ store' = RemoveAll(store, ids)
        /\ Log(Removals(ids))

\* By identity: one whose cell is gone is refused.
RemoveCoefficient(id) ==
    /\ Step
    /\ Resolve(store, id) # Vacant
    /\ store' = Discard(store, id)
    /\ Log(Removals(<<id>>))
    /\ UNCHANGED <<vars, targets, born, active>>
    /\ KeepQueue

RemoveVariable(v) ==
    LET ids == ForVar(store, v) IN
    /\ Step
    /\ v \in vars
    /\ store' = RemoveAll(EnsureVarIndex(store), ids)
    /\ vars' = vars \ {v}
    /\ Log(Append(Removals(ids), RemoveVariableOp(v)))
    /\ UNCHANGED <<targets, born, active>>
    /\ KeepQueue

RemoveTarget(t) ==
    LET ids == ForTarget(store, t) IN
    /\ Step
    /\ t \in targets
    /\ store' = RemoveAll(store, ids)
    /\ targets' = targets \ {t}
    /\ active' = IF active = t THEN NoObjective ELSE active
    /\ Log(Append(Removals(ids), RemoveTargetOp(t)))
    /\ UNCHANGED <<vars, born>>
    /\ KeepQueue

SetActiveObjective(o) ==
    /\ Step
    /\ o \in (targets \cap Objs) \cup {NoObjective}
    /\ o # active
    /\ active' = o
    /\ Log(<<SetActive(o)>>)
    /\ UNCHANGED <<store, vars, targets, born>>
    /\ KeepQueue

-----------------------------------------------------------------------------
(* Parameters: values are queued, and applied and propagated at the commit.    *)

KeepModel == UNCHANGED <<store, params, vars, targets, born, active, replica>>

SetParameter(p, value) ==
    /\ Step
    /\ pending' = [q \in DOMAIN pending \cup {p} |->
                      IF q = p THEN value ELSE pending[q]]
    /\ UNCHANGED blocks
    /\ KeepModel

SetParametersBulk(values) ==
    /\ Step
    /\ blocks' = Append(blocks, values)
    /\ UNCHANGED pending
    /\ KeepModel

Rollback ==
    /\ pending # <<>> \/ blocks # <<>>
    /\ pending' = <<>>
    /\ blocks' = <<>>
    /\ KeepModel
    /\ UNCHANGED steps

\* Part of a commit: the store, the values and the operations logged so far.
Draft == [store |-> store, params |-> params, ops |-> <<>>]

\* Overlay cells that depend on a parameter of the span are evaluated again.
RefreshOverlay(s, span, values) ==
    LET ids == UNION {OverlayMoved(s, p, values) : p \in span}
        after == SetCachedValue(s, ids, values)
    IN  [store |-> after, cells |-> {CellOf(d) : d \in UNION {Get(after, id) : id \in ids}}]

Logged(C, op) == IF C = {} THEN <<>> ELSE <<op>>

(* Faulty: cells of the overlay are refreshed and not logged. *)
ApplyParameterBlockQuiet(d, values) ==
    LET span == DOMAIN values
        now == [p \in Params |-> IF p \in span THEN values[p] ELSE d.params[p]]
        changed == {p \in span : Differs(d.params[p], values[p])}
        over == RefreshOverlay(d.store, span, now)
        moved == Moved(d.store, SpanPositions(d.store, span)
                                  \cup IndexedPositions(d.store, span), now)
        after == Refresh(over.store, moved, now)
        patches == {CellOf(ParamData(after, i)) : i \in moved}
    IN  IF changed = {} THEN [d EXCEPT !.params = now]
        ELSE [store |-> after, params |-> now,
              ops |-> d.ops \o <<SetParams([p \in changed |-> values[p]])>>
                        \o Logged(patches, PatchCells(patches))]

\* A block: the packed cells of the blocks, then those of the per cell index
\* (the overlay, refreshed before, is not among them).
ApplyParameterBlock(d, values) ==
    LET span == DOMAIN values
        now == [p \in Params |-> IF p \in span THEN values[p] ELSE d.params[p]]
        changed == {p \in span : Differs(d.params[p], values[p])}
        over == RefreshOverlay(d.store, span, now)
        moved == Moved(d.store, SpanPositions(d.store, span)
                                  \cup IndexedPositions(d.store, span), now)
        after == Refresh(over.store, moved, now)
        patches == {CellOf(ParamData(after, i)) : i \in moved}
    IN  IF changed = {} THEN [d EXCEPT !.params = now]
        ELSE [store |-> after, params |-> now,
              ops |-> d.ops \o Logged(over.cells, SetCells(over.cells))
                        \o <<SetParams([p \in changed |-> values[p]])>>
                        \o Logged(patches, PatchCells(patches))]

\* One parameter: the same, with a logged change for every cell.
ApplyParameterChange(d, p, value) ==
    LET now == [d.params EXCEPT ![p] = value]
        over == RefreshOverlay(d.store, {p}, now)
        moved == Moved(d.store, d.store.positions[p]
                                  \cup BlockPositions(d.store, p), now)
        after == Refresh(over.store, moved, now)
        cells == over.cells \cup {CellOf(ParamData(after, i)) : i \in moved}
    IN  IF ~ Differs(d.params[p], value) THEN [d EXCEPT !.params = now]
        ELSE [store |-> after, params |-> now,
              ops |-> d.ops \o <<SetParams([q \in {p} |-> value])>>
                        \o Logged(cells, SetCells(cells))]

\* The scalars come out of a hash map in any order.
Orders(S) == {q \in [1..Cardinality(S) -> S] : \A i, j \in DOMAIN q : q[i] = q[j] => i = j}

\* Blocks first, in order, then the scalars: a scalar wins over any block.
Applying(order) ==
    LET n == Len(blocks)
        after[k \in 0 .. (n + Len(order))] ==
            IF k = 0 THEN Draft
            ELSE IF k <= n THEN ApplyParameterBlock(after[k - 1], blocks[k])
            ELSE ApplyParameterChange(after[k - 1], order[k - n], pending[order[k - n]])
    IN  after

CommitParameters ==
    /\ pending # <<>> \/ blocks # <<>>
    /\ \E order \in Orders(DOMAIN pending) :
          LET d == Applying(order)[Len(blocks) + Len(order)]
          IN  /\ store' = d.store
              /\ params' = d.params
              /\ Log(d.ops)
    /\ pending' = <<>>
    /\ blocks' = <<>>
    /\ UNCHANGED <<vars, targets, born, active, steps>>

\* The backend stops following, and catches up from a snapshot.
Detach ==
    /\ Step
    /\ replica.attached
    /\ replica' = [replica EXCEPT !.attached = FALSE]
    /\ UNCHANGED model

Rebuild ==
    /\ replica' = Rebuilt(replica)
    /\ UNCHANGED <<model, steps>>

-----------------------------------------------------------------------------
Next ==
    \/ \E t \in Targets : AddEmptyTarget(t) \/ RemoveTarget(t)
    \/ \E t \in Targets, terms \in LinearInputs :
          \/ AddLinearRowsBulk(t, terms)
          \/ SetLinearObjectiveBulk(t, terms)
          \/ SetObjectiveExpr(t, terms)
    \/ \E t \in Targets, terms \in ParamInputs, layout \in Layouts :
          \/ AddLinearRowsParamBulk(t, terms, layout)
          \/ SetLinearObjectiveParamBulk(t, terms, layout)
    \/ \E key \in Targets \X Vars :
          \/ \E e \in Exprs : AddCoefficient(key, e)
          \/ \E value \in Values : SetCoefficient(key, value)
          \/ RemoveCoefficientAt(key)
    \/ \E id \in Issued(store) : RemoveCoefficient(id)
    \/ \E v \in Vars : RemoveVariable(v)
    \/ \E o \in Objs \cup {NoObjective} : SetActiveObjective(o)
    \/ \E p \in Params, value \in ParamValues : SetParameter(p, value)
    \/ \E span \in Spans : \E values \in [span -> ParamValues] :
          SetParametersBulk(values)
    \/ Rollback
    \/ CommitParameters
    \/ Detach
    \/ Rebuild

Spec == Init /\ [][Next]_all

-----------------------------------------------------------------------------
Keys == {d.key : d \in Iter(store)}
KeyOf(id) == (CHOOSE d \in Get(store, id) : TRUE).key
LiveIds == {id \in Issued(store) : Get(store, id) # {}}

\* Every variable holds a value of its shape, every position that is stored
\* anywhere is one that exists, and no coefficient outlives its constraint,
\* objective or variable (remove_variable, remove_constraint, remove_objective).
TypeOK ==
    /\ store.shadowed \cup store.dead \subseteq DOMAIN store.base
    /\ store.pshadowed \cup store.pdead \subseteq DOMAIN store.pbase
    /\ \A p \in Params : /\ store.positions[p] \subseteq DOMAIN store.pbase
                         /\ store.byParam[p] \subseteq OverlayLive(store)
    /\ \A k \in DOMAIN store.byCell : store.overlay[store.byCell[k]].data.key = k
    /\ store.varIndex \in {NotBuilt, Len(store.base)}
    /\ DOMAIN pending \subseteq Params
    /\ Keys \subseteq targets \X vars
    /\ targets \subseteq born /\ born \subseteq Targets
    /\ vars \subseteq Vars
    /\ active \in (Objs \cap targets) \cup {NoObjective}
    /\ steps \in 0..MaxSteps

\* The views of the store tell one story whatever was appended, shadowed, removed
\* and added again: the iteration shows one cell per pair and as many as the
\* live count, the lookup by pair finds exactly those, and the lists by
\* target, variable and parameter hold each of their cells once
\* (live_id, for_target, for_var, for_param, iter).
ViewsAgree ==
    LET Lists(q, S) == {q[i] : i \in DOMAIN q} = S /\ Len(q) = Cardinality(S) IN
    /\ store.live = Cardinality(PackedLive(store)) + Cardinality(ParamLive(store))
                       + Cardinality(OverlayLive(store))
    /\ Cardinality(Keys) = store.live
    /\ \A key \in Targets \X Vars :
          LiveData(store, key) = {d \in Iter(store) : d.key = key}
    /\ \A t \in Targets :
          Lists(ForTarget(store, t), {id \in LiveIds : KeyOf(id)[1] = t})
    /\ \A v \in Vars : Lists(ForVar(store, v), {id \in LiveIds : KeyOf(id)[2] = v})
    /\ \A p \in Params :
          ForParam(store, p) =
            {id \in LiveIds : \E d \in Get(store, id) : p \in Dependencies(d.expr)}

\* An identity resolves only while it is the identity of the live cell of its
\* pair: one kept after the removal is refused, also when the pair has a new cell
\* (arena.rs remove, remove_coefficient).
StaleIdsDie ==
    \A id \in Issued(store) :
       Resolve(store, id) # Vacant =>
          Get(store, id) # {} /\ LiveId(store, KeyOf(id)) = {id}

\* After every commit the cached value of every cell is what its expression
\* gives at the present parameter values: no cell is missed by the three
\* propagation paths (overlay, per cell index, dependency blocks).
CachedFresh == \A d \in Iter(store) : d.cached = Eval(d.expr, params)

\* A backend that replays the logged operations has the entities, the parameter
\* values and, for every cell, the value the model has, and never meets a
\* patch for a cell it does not know (reference.rs apply_op).
ReplicaFits ==
    replica.attached =>
      /\ replica.intact
      /\ replica.vars = vars /\ replica.targets = targets
      /\ replica.params = params
      /\ DOMAIN replica.cells = Keys
      /\ \A d \in Iter(store) : replica.cells[d.key].value = d.cached
      /\ active # NoObjective => replica.active = active

\* The store is a map from pairs to cells with algebraic sums and identities
\* that stay with their cell and are never used twice.
CellsByKey ==
    [key \in Keys |->
        [id |-> CHOOSE id \in LiveId(store, key) : TRUE,
         expr |-> (CHOOSE d \in Iter(store) : d.key = key).expr]]

RowTotals == UNION {{CanonicalRow(terms)[v] : v \in DOMAIN CanonicalRow(terms)} :
                      terms \in LinearInputs}

Map == INSTANCE CellMap WITH
    cells <- CellsByKey, used <- Issued(store),
    Addends <- Exprs \cup {Constant(c) : c \in RowTotals},
    Replacements <- {Constant(c) : c \in Values},
    Sum <- Plus

KeepsMap == Map!Spec
=============================================================================
