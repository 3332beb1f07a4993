-------------------------- MODULE OverlayTransaction --------------------------
(***************************************************************************)
(* One solve-scoped overlay on the HiGHS session: what the operations of a *)
(* compiled overlay do to the native model, what apply_overlay records,    *)
(* how rollback_overlay undoes it and what verify_overlay_clean accepts.   *)
(* The workflows of the solver session (a solve plan, a lexicographic      *)
(* policy, a feasibility repair) are cycles of synchronize, apply, solve,  *)
(* roll back; the steps they share are here.                               *)
(*                                                                         *)
(* Compiled ids are numbers: the user's variables and rows come first, the *)
(* columns and rows of persistently softened constraints follow, temporary *)
(* ones take the next numbers.  Values are integers; Inf is infinity and   *)
(* points are tried in -Reach..Reach.                                      *)
(***************************************************************************)
EXTENDS Integers, Sequences, SequencesExt

CONSTANTS
    None,            \* no task, no receipt, no answer
    Inf,
    Reach,
    Models,          \* the models a session may hold
    Gap,             \* a provider's suboptimal answers are at most this far off
    MaxFaults        \* bound on the number of faults of the backend

ASSUME BoundsAssumption == Reach \in Nat /\ Gap \in Nat /\ MaxFaults \in Nat /\ Inf \in Nat /\ Inf > Reach

\* A model is consistent: what softens a row names one, and rows and objectives
\* only mention variables of the model.
ASSUME ModelsAssumption ==
    \A m \in Models :
        /\ m.domain \in Seq(ToSet(m.domain)) /\ m.rows \in Seq(ToSet(m.rows))
        /\ m.objectives \in Seq(ToSet(m.objectives))
        /\ DOMAIN m.soft \subseteq DOMAIN m.rows
        /\ \A r \in DOMAIN m.rows : DOMAIN m.rows[r].terms \subseteq DOMAIN m.domain
        /\ \A o \in DOMAIN m.objectives : DOMAIN m.objectives[o].terms \subseteq DOMAIN m.domain

VARIABLES
    model,       \* the user's committed model; no workflow changes it
    native,      \* columns, rows and cost of the native model
    policy,      \* the compiled objective policy of the backend
    compilation, \* the compilation id the backend holds
    health,
    saved,       \* overlay_state: what the last applied overlay replaced
    base,        \* the compiler's current compilation; 0 after a reset
    fresh,       \* the last compilation id allocated
    pc, task, receipt, result, primary, answer,
    faults

backendVars == <<native, policy, compilation, health, saved>>
cycleVars == <<pc, task, receipt, result, primary, answer>>

Larger(a, b) == IF a >= b THEN a ELSE b
Smaller(a, b) == IF a <= b THEN a ELSE b
Span(lo, hi) == [lo |-> lo, hi |-> hi]

Domain == model.domain            \* variable -> type, declared bounds, fixing
Rows == model.rows                \* row -> its terms and bounds
Soft == model.soft                \* softened row -> weight, cap, target, activity
Objectives == model.objectives    \* objective -> sense, terms, constant
ActiveObjective == model.active   \* 0: the model has none

Vars == DOMAIN Domain

-----------------------------------------------------------------------------
(* The compiled base                                                       *)

EffectiveBounds(v) ==
    LET d == Domain[v] IN
    Span(Larger(d.lo, CHOOSE f \in d.fixing \cup {-Inf} : \A g \in d.fixing : f >= g),
         Smaller(d.hi, CHOOSE f \in d.fixing \cup {Inf} : \A g \in d.fixing : f <= g))

Plus(s, t) == [c \in DOMAIN s \cup DOMAIN t |->
                 (IF c \in DOMAIN s THEN s[c] ELSE 0) + (IF c \in DOMAIN t THEN t[c] ELSE 0)]
Scale(k, t) == [c \in DOMAIN t |-> k * t[c]]
Only(c, k) == [x \in {c} |-> k]
Nothing == [c \in {} |-> 0]
Ascending(ids, n) ==
    LET upTo[i \in 0 .. n] == IF i = 0 THEN <<>>
                              ELSE IF i \in ids THEN Append(upTo[i - 1], i) ELSE upTo[i - 1]
    IN  upTo[n]

\* The finite sides of a row, the lower one first.
Sides(bounds) ==
    (IF bounds.lo # -Inf THEN <<"lower">> ELSE <<>>) \o (IF bounds.hi # Inf THEN <<"upper">> ELSE <<>>)
SideSpan(bounds, side) == IF side = "lower" THEN Span(bounds.lo, Inf) ELSE Span(-Inf, bounds.hi)
SideSign(side) == IF side = "lower" THEN 1 ELSE -1

ActiveSoft == {r \in DOMAIN Soft : Soft[r].active}
SidesOf(r) == [k \in DOMAIN Sides(Rows[r]) |-> [row |-> r, side |-> Sides(Rows[r])[k]]]
RowSides(rows) == FlattenSeq([k \in DOMAIN rows |-> SidesOf(rows[k])])
SoftSides == RowSides(Ascending(ActiveSoft, Len(Rows)))

BaseColumns ==
    [c \in 1 .. (Len(Domain) + Len(SoftSides)) |->
        IF c <= Len(Domain) THEN EffectiveBounds(c) ELSE Span(0, Soft[SoftSides[c - Len(Domain)].row].cap)]

\* A softened row is free; a violation row and column per side replace it.
BaseRows ==
    [r \in 1 .. (Len(Rows) + Len(SoftSides)) |->
        IF r <= Len(Rows)
        THEN [terms |-> Rows[r].terms,
              bounds |-> IF r \in ActiveSoft THEN Span(-Inf, Inf) ELSE Span(Rows[r].lo, Rows[r].hi)]
        ELSE LET s == SoftSides[r - Len(Rows)] IN
             [terms |-> Plus(Rows[s.row].terms, Only(Len(Domain) + r - Len(Rows), SideSign(s.side))),
              bounds |-> SideSpan(Rows[s.row], s.side)]]

\* The terms of an objective with the penalties it pays folded in, signed by
\* its sense.
CompiledTerms(o) ==
    LET sign == IF Objectives[o].sense = "min" THEN 1 ELSE -1
        paid == {i \in DOMAIN SoftSides : Soft[SoftSides[i].row].target = [kind |-> "objective", of |-> o]}
    IN  Plus(Objectives[o].terms,
             [c \in {Len(Domain) + i : i \in paid} |-> sign * Soft[SoftSides[c - Len(Domain)].row].weight])

NoCost == [sense |-> "min", terms |-> Nothing, const |-> 0]
CompiledCost(o) ==
    IF o = 0 THEN NoCost
    ELSE [sense |-> Objectives[o].sense, terms |-> CompiledTerms(o), const |-> Objectives[o].const]

BaseModel == [cols |-> BaseColumns, rows |-> BaseRows, cost |-> CompiledCost(ActiveObjective)]
NextColumn == Len(BaseColumns) + 1
NextRow == Len(BaseRows) + 1
TemporaryObjective == Len(Objectives) + 1

-----------------------------------------------------------------------------
(* The operations of an overlay                                            *)

AddTemporaryVariable(id, bounds) == [op |-> "column", id |-> id, bounds |-> bounds]
AddTemporaryRow(id, terms, bounds) == [op |-> "row", id |-> id, terms |-> terms, bounds |-> bounds]
SetTemporaryVariableBounds(id, bounds) == [op |-> "columnBounds", id |-> id, bounds |-> bounds]
SetTemporaryRowBounds(id, bounds) == [op |-> "rowBounds", id |-> id, bounds |-> bounds]
AddTemporaryObjective(terms, const) == [op |-> "objective", terms |-> terms, const |-> const]
SetObjectivePolicy(o) == [op |-> "policy", objective |-> o]

NothingSaved ==
    [columnBounds |-> Nothing, rowBounds |-> Nothing, columns |-> {}, rows |-> {},
     policy |-> policy, cols0 |-> DOMAIN native.cols, rows0 |-> DOMAIN native.rows,
     bounds0 |-> [cols |-> native.cols, rows |-> [r \in DOMAIN native.rows |-> native.rows[r].bounds]]]

KeepFirst(f, id, old) == IF id \in DOMAIN f THEN f ELSE [x \in DOMAIN f \cup {id} |-> IF x = id THEN old ELSE f[x]]
Put(f, id, v) == [x \in DOMAIN f \cup {id} |-> IF x = id THEN v ELSE f[x]]

\* One operation on [n: native model, s: what to restore, t: the temporary
\* objective, p: the policy].  Bounds replace, and the first prior bounds of
\* an id are the ones to restore.
Perform(a, o) ==
    CASE o.op = "column" ->
           [a EXCEPT !.n.cols = Put(@, o.id, o.bounds), !.s.columns = @ \cup {o.id}]
      [] o.op = "row" ->
           [a EXCEPT !.n.rows = Put(@, o.id, [terms |-> o.terms, bounds |-> o.bounds]), !.s.rows = @ \cup {o.id}]
      [] o.op = "columnBounds" ->
           [a EXCEPT !.n.cols[o.id] = o.bounds,
                     !.s.columnBounds = KeepFirst(@, o.id, a.n.cols[o.id])]
      [] o.op = "rowBounds" ->
           [a EXCEPT !.n.rows[o.id].bounds = o.bounds,
                     !.s.rowBounds = KeepFirst(@, o.id, a.n.rows[o.id].bounds)]
      [] o.op = "objective" -> [a EXCEPT !.t = [sense |-> "min", terms |-> o.terms, const |-> o.const]]
      [] OTHER ->
           [a EXCEPT !.p = o.objective,
                     !.n.cost = IF o.objective = TemporaryObjective THEN a.t ELSE CompiledCost(o.objective)]

\* After k operations, and after all of them.
Performing(ops) ==
    LET after[k \in 0 .. Len(ops)] ==
            IF k = 0 THEN [n |-> native, s |-> NothingSaved, t |-> NoCost, p |-> policy]
            ELSE Perform(after[k - 1], ops[k])
    IN  after
Performed(ops) == Performing(ops)[Len(ops)]

\* validate: an overlay is a list of operations; temporary entities are new,
\* everything referred to exists at that point of the operations.
Before(ops, i, kind) == {ops[k].id : k \in {j \in 1 .. (i - 1) : ops[j].op = kind}}
Valid(ops) ==
    /\ ops \in Seq(ToSet(ops))
    /\ \A i \in DOMAIN ops :
        LET cols == DOMAIN native.cols \cup Before(ops, i, "column")
            rows == DOMAIN native.rows \cup Before(ops, i, "row")
            temporary == \E k \in 1 .. (i - 1) : ops[k].op = "objective"
        IN  CASE ops[i].op = "column" -> ops[i].id \notin cols
              [] ops[i].op = "row" -> ops[i].id \notin rows /\ DOMAIN ops[i].terms \subseteq cols
              [] ops[i].op = "columnBounds" -> ops[i].id \in cols
              [] ops[i].op = "rowBounds" -> ops[i].id \in rows
              [] ops[i].op = "objective" -> ~temporary /\ DOMAIN ops[i].terms \subseteq cols
              [] ops[i].op = "policy" -> ops[i].objective = TemporaryObjective => temporary

-----------------------------------------------------------------------------
(* The provider: solutions of the native model                             *)

Weigh(terms, pt) == MapThenSumSet(LAMBDA c : terms[c] * pt[c], DOMAIN terms)
Inside(b, v) == b.lo <= v /\ v <= b.hi

Extend(pts, b) ==
    {Append(pt, v) : pt \in pts, v \in Larger(b.lo, -Reach) .. Smaller(b.hi, Reach)}

\* The points of the native model, column by column; a row is looked at with
\* the last of its columns.
Solutions ==
    LET Ripe(c) == {r \in DOMAIN native.rows : LET t == DOMAIN native.rows[r].terms IN
                        t \subseteq 1 .. c /\ (c \in t \/ c = 1)}
        Kept(pts, c) == {pt \in pts : \A r \in Ripe(c) :
                            Inside(native.rows[r].bounds, Weigh(native.rows[r].terms, pt))}
    IN  FoldLeft(LAMBDA pts, c : Kept(Extend(pts, native.cols[c]), c), {<<>>},
                 [c \in 1 .. Cardinality(DOMAIN native.cols) |-> c])

CostOf(pt) == Weigh(native.cost.terms, pt) + native.cost.const
Loss(pt) == IF native.cost.sense = "min" THEN CostOf(pt) ELSE -CostOf(pt)

Candidate(status, pt, reported) ==
    [status |-> status, values |-> SubSeq(pt, 1, Len(Domain)),
     objective |-> IF reported THEN {CostOf(pt)} ELSE {}]
NoCandidate(status) == [status |-> status, values |-> <<>>, objective |-> {}]

\* What an honest provider may return: a proof of what is the case, a
\* suboptimal point, or that it stopped early with or without a point.
Answers ==
    LET points == Solutions
        least == CHOOSE z \in {Loss(pt) : pt \in points} : \A pt \in points : z <= Loss(pt)
    IN  {NoCandidate("TimeLimit")} \cup
        IF points = {} THEN {NoCandidate("Infeasible")}
        ELSE {Candidate("Optimal", pt, b) : pt \in {q \in points : Loss(q) = least}, b \in BOOLEAN}
             \cup {Candidate(s, pt, TRUE) : s \in {"Feasible", "TimeLimit"},
                                            pt \in {q \in points : Loss(q) \in (least + 1) .. (least + Gap)}}

-----------------------------------------------------------------------------
(* The user's own model, for what the workflows promise                    *)

Sign(o) == IF Objectives[o].sense = "min" THEN 1 ELSE -1

Violation(r, pt) ==
    LET at == Weigh(Rows[r].terms, pt) IN Larger(0, Rows[r].lo - at) + Larger(0, at - Rows[r].hi)

\* Domains, hard rows, and the caps of softened rows.
UserPoints ==
    LET all == FoldLeft(Extend, {<<>>}, [v \in Vars |-> EffectiveBounds(v)]) IN
    {pt \in all : \A r \in DOMAIN Rows :
        IF r \in ActiveSoft THEN Violation(r, pt) <= Soft[r].cap
        ELSE Inside(Rows[r], Weigh(Rows[r].terms, pt))}

\* What objective o is worth at a point, with the penalties it pays.
Worth(o, pt) ==
    LET Paid(r) == IF Soft[r].target = [kind |-> "objective", of |-> o]
                   THEN Soft[r].weight * Violation(r, pt) ELSE 0
    IN  Weigh(Objectives[o].terms, pt) + Objectives[o].const + Sign(o) * MapThenSumSet(Paid, ActiveSoft)

-----------------------------------------------------------------------------
(* The steps of a cycle                                                    *)

Fault == faults < MaxFaults /\ faults' = faults + 1

Ends(what) ==
    /\ answer' = what
    /\ pc' = "idle"
    /\ task' = None
    /\ receipt' = None
    /\ result' = None
    /\ primary' = None

Failed(why) == [ok |-> FALSE, why |-> why]

NeedsRebuild == health = "RequiresRebuild" \/ base = 0

\* synchronize_base for a model that did not change: nothing, or a rebuild.
Synchronize ==
    /\ pc = "sync"
    /\ IF NeedsRebuild
       THEN /\ native' = BaseModel
            /\ policy' = ActiveObjective
            /\ compilation' = fresh + 1
            /\ base' = fresh + 1
            /\ fresh' = fresh + 1
            /\ health' = "Ready"
            /\ UNCHANGED saved
       ELSE UNCHANGED <<backendVars, base, fresh>>
    /\ pc' = "synced"
    /\ UNCHANGED <<task, receipt, result, primary, answer, faults>>

SynchronizeFails ==
    /\ pc = "sync"
    /\ NeedsRebuild
    /\ Fault
    /\ health' = "RequiresRebuild"
    /\ Ends(Failed("backend"))
    /\ UNCHANGED <<native, policy, compilation, saved, base, fresh>>

Envelope == [base |-> base, applied |-> fresh + 1]
Accepts(ops) == compilation = base /\ Valid(ops)

\* apply_overlay: the exact base, a valid overlay, then every operation.
Applied(ops) ==
    /\ Accepts(ops)
    /\ LET after == Performed(ops) IN
       /\ native' = after.n
       /\ policy' = after.p
       /\ saved' = [restore |-> after.s, receipt |-> Envelope]
    /\ compilation' = fresh + 1
    /\ fresh' = fresh + 1
    /\ UNCHANGED <<health, base, task, result, answer>>

WrongReceipt == [Envelope EXCEPT !.applied = 0]

Apply(ops) == Applied(ops) /\ receipt' = Envelope /\ pc' = "applied" /\ UNCHANGED primary

\* The overlay is refused, or a native call fails after some operations: the
\* session is marked, nothing is recorded.
ApplyStops(ops) ==
    /\ \E k \in 0 .. (Len(ops) - 1) :
        /\ Accepts(ops) \/ k = 0
        /\ native' = Performed(SubSeq(ops, 1, k)).n
        /\ policy' = Performed(SubSeq(ops, 1, k)).p
    /\ health' = "RequiresRebuild"
    /\ fresh' = fresh + 1
    /\ UNCHANGED <<compilation, saved>>

(* rollback_overlay: prior bounds, prior row bounds, temporary rows, prior  *)
(* policy, temporary columns.                                               *)
Without(f, ids) == [x \in DOMAIN f \ ids |-> f[x]]
(* Faulty: the prior policy is recorded as restored, its cost is not.       *)
UndoStepWithoutCost(n, s, k) ==
    CASE k = 1 -> [n EXCEPT !.cols = [c \in DOMAIN @ |->
                        IF c \in DOMAIN s.columnBounds THEN s.columnBounds[c] ELSE @[c]]]
      [] k = 2 -> [n EXCEPT !.rows = [r \in DOMAIN @ |->
                        IF r \in DOMAIN s.rowBounds THEN [@[r] EXCEPT !.bounds = s.rowBounds[r]] ELSE @[r]]]
      [] k = 3 -> [n EXCEPT !.rows = Without(@, s.rows)]
      [] k = 4 -> n
      [] k = 5 -> [n EXCEPT !.cols = Without(@, s.columns)]

UndoStep(n, s, k) ==
    CASE k = 1 -> [n EXCEPT !.cols = [c \in DOMAIN @ |->
                        IF c \in DOMAIN s.columnBounds THEN s.columnBounds[c] ELSE @[c]]]
      [] k = 2 -> [n EXCEPT !.rows = [r \in DOMAIN @ |->
                        IF r \in DOMAIN s.rowBounds THEN [@[r] EXCEPT !.bounds = s.rowBounds[r]] ELSE @[r]]]
      [] k = 3 -> [n EXCEPT !.rows = Without(@, s.rows)]
      [] k = 4 -> [n EXCEPT !.cost = CompiledCost(s.policy)]
      [] k = 5 -> [n EXCEPT !.cols = Without(@, s.columns)]

\* What is left after k of the five steps.
Undoing ==
    LET left[k \in 0 .. 5] == IF k = 0 THEN native ELSE UndoStep(left[k - 1], saved.restore, k)
    IN  left
Undone(upto) == Undoing[upto]

\* Before the first overlay there is no record (overlay_state is None), which no
\* receipt matches.
NoOverlay == [restore |-> Nothing, receipt |-> [base |-> 0, applied |-> 0]]
RollbackMatches == saved # NoOverlay /\ saved.receipt = receipt

RollbackClean ==
    /\ RollbackMatches
    /\ native' = Undone(5)
    /\ policy' = saved.restore.policy
    /\ compilation' = saved.receipt.base

\* A receipt that matches nothing, or a native call that fails.
RollbackUncertain ==
    /\ \/ ~RollbackMatches /\ UNCHANGED <<native, policy, faults>>
       \/ RollbackMatches /\ Fault /\ \E k \in 0 .. 4 :
              /\ native' = Undone(k)
              /\ policy' = IF k >= 4 THEN saved.restore.policy ELSE policy
    /\ health' = "RequiresRebuild"
    /\ UNCHANGED <<compilation, saved>>

\* verify_overlay_clean, on the state the rollback left.
CleanAgainst(n, p, c) ==
    /\ c = saved.receipt.base
    /\ DOMAIN n.cols = saved.restore.cols0 /\ DOMAIN n.rows = saved.restore.rows0
    /\ [cols |-> n.cols, rows |-> [r \in DOMAIN n.rows |-> n.rows[r].bounds]] = saved.restore.bounds0
    /\ p = saved.restore.policy

ForceRebuildOnNextSync == base' = 0

\* The overlay is gone and the session verified that it is.
UndoVerified ==
    /\ RollbackClean
    /\ CleanAgainst(native', policy', compilation')
    /\ UNCHANGED <<health, saved, base, fresh, faults>>

\* The verification fails, by itself or because the state is not the base.
VerificationFails ==
    /\ RollbackClean
    /\ IF CleanAgainst(native', policy', compilation') THEN Fault ELSE UNCHANGED faults
    /\ health' = "RequiresRebuild"
    /\ UNCHANGED saved

UndoUncertain ==
    /\ RollbackUncertain \/ VerificationFails
    /\ ForceRebuildOnNextSync
    /\ UNCHANGED fresh

-----------------------------------------------------------------------------
(* The cycle of the objective and relaxation drivers: every failure after  *)
(* the overlay may have been applied goes through the rollback, and every  *)
(* uncertain rollback drops the compiled base.                             *)

\* The receipt of a failed apply is reconstructed from the overlay.
ApplyFails(ops) ==
    /\ Accepts(ops) => Fault
    /\ ~Accepts(ops) => UNCHANGED faults
    /\ ApplyStops(ops)
    /\ receipt' = Envelope
    /\ primary' = "backend"
    /\ pc' = "rollback"
    /\ UNCHANGED <<base, task, result, answer>>

\* The backend applies the overlay and returns another receipt.
ApplyMismatches(ops) ==
    /\ Fault
    /\ Applied(ops)
    /\ receipt' = WrongReceipt
    /\ primary' = "backend"
    /\ pc' = "rollback"

\* The native run fails, answers for another compilation, with an error
\* status or without the point it claims.
StageFails ==
    /\ pc = "applied"
    /\ task.kind \in {"policy", "repair"}
    /\ Fault
    /\ primary' = "backend"
    /\ pc' = "rollback"
    /\ UNCHANGED <<backendVars, base, fresh, task, receipt, result, answer>>

\* The driver returns its primary error, or the failed cleanup around it.
RolledBack == pc = "rollback" /\ UndoVerified /\ Ends(Failed(primary))
NotRolledBack == pc = "rollback" /\ UndoUncertain /\ Ends(Failed("cleanup"))

BackendInit ==
    /\ model \in Models
    /\ native = BaseModel
    /\ policy = ActiveObjective
    /\ compilation = 1
    /\ base = 1
    /\ fresh = 1
    /\ health = "Ready"
    /\ saved = NoOverlay
    /\ pc = "idle"
    /\ task = None
    /\ receipt = None
    /\ result = None
    /\ primary = None
    /\ answer = None
    /\ faults = 0

=============================================================================
