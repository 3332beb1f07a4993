----------------------------- MODULE SolveOverlay -----------------------------
(***************************************************************************)
(* A solve plan: temporary fixings, solution locks, objective locks,       *)
(* cutoffs and an objective override, compiled against the exact base,     *)
(* solved once and rolled back.  An answer survives a rollback that cannot *)
(* be proven clean; the next synchronization then rebuilds.                *)
(***************************************************************************)
EXTENDS OverlayTransaction

CONSTANTS
    PlanTasks   \* fixings, locks, objectiveLocks, cutoffs, override

ASSUME PlanTasksAssumption ==
    \A t \in PlanTasks : /\ t.objectiveLocks \in Seq(ToSet(t.objectiveLocks))
                         /\ t.cutoffs \in Seq(ToSet(t.cutoffs))

\* Temporary fixings and locks as the spans they allow; a lock is a value
\* with a band around it, 0 wide for an exact one.
Restriction(v, value, band) == [of |-> v, value |-> value, band |-> band]
Allowed(r) == Span(r.value - r.band, r.value + r.band)
Meet(a, b) == Span(Larger(a.lo, b.lo), Smaller(a.hi, b.hi))
EmptySpan(s) == s.lo > s.hi

\* validate_value_in_domain: only a temporary fixing has to lie in the
\* effective bounds; a band only exists on a continuous variable.
ValidRestriction(r, fixing) ==
    /\ fixing => Inside(EffectiveBounds(r.of), r.value)
    /\ r.band > 0 => Domain[r.of].type = "continuous"

\* intersect_overlay_restriction: everything said about a variable, and
\* never more than its effective bounds.
Restricted(plan, v) ==
    FoldLeft(Meet, EffectiveBounds(v),
             [k \in DOMAIN SelectSeq(plan.fixings \o plan.locks, LAMBDA r : r.of = v) |->
                Allowed(SelectSeq(plan.fixings \o plan.locks, LAMBDA r : r.of = v)[k])])
Mentioned(plan) == {r.of : r \in ToSet(plan.fixings) \cup ToSet(plan.locks)}

\* compile_overlay: what a plan names exists, and every restriction can be met.
Compiles(plan) ==
    /\ Mentioned(plan) \subseteq Vars
    /\ {c.of : c \in ToSet(plan.objectiveLocks) \cup ToSet(plan.cutoffs)} \subseteq DOMAIN Objectives
    /\ plan.override \in {0} \cup DOMAIN Objectives
    /\ \A r \in ToSet(plan.fixings) : ValidRestriction(r, TRUE)
    /\ \A r \in ToSet(plan.locks) : ValidRestriction(r, FALSE)
    /\ \A v \in Mentioned(plan) : ~EmptySpan(Restricted(plan, v))

(* Faulty: the direction ignores the sense.                                 *)
LockRowUpper(l) == Span(-Inf, l.absolute - Objectives[l.of].const)

\* The row of an objective lock: its value no worse than the tolerance.
LockRow(l) ==
    IF Objectives[l.of].sense = "min" THEN Span(-Inf, l.absolute - Objectives[l.of].const)
    ELSE Span(-l.absolute - Objectives[l.of].const, Inf)
CutoffRow(c) ==
    IF c.direction = "upper" THEN Span(-Inf, c.limit - Objectives[c.of].const)
    ELSE Span(c.limit - Objectives[c.of].const, Inf)

\* compile_overlay: one replacement per variable, then the rows.
PlanOverlay(plan) ==
    LET variables == Ascending(Mentioned(plan), Len(Domain))
        rows == [k \in DOMAIN plan.objectiveLocks |->
                    [of |-> plan.objectiveLocks[k].of, bounds |-> LockRow(plan.objectiveLocks[k])]]
                \o [k \in DOMAIN plan.cutoffs |->
                    [of |-> plan.cutoffs[k].of, bounds |-> CutoffRow(plan.cutoffs[k])]]
    IN  [k \in DOMAIN variables |-> SetTemporaryVariableBounds(variables[k], Restricted(plan, variables[k]))]
        \o [k \in DOMAIN rows |-> AddTemporaryRow(NextRow + k - 1, CompiledTerms(rows[k].of), rows[k].bounds)]
        \o (IF plan.override = 0 THEN <<>> ELSE <<SetObjectivePolicy(plan.override)>>)

\* A plan without content is a plain solve.
Plain(plan) == Mentioned(plan) = {} /\ plan.objectiveLocks = <<>> /\ plan.cutoffs = <<>> /\ plan.override = 0

-----------------------------------------------------------------------------
(* The plan                                                                *)

Planning == task # None /\ task.kind = "plan"

SolvePlan ==
    /\ pc = "idle"
    /\ \E t \in PlanTasks : task' = [kind |-> "plan", plan |-> t]
    /\ pc' = "sync"
    /\ answer' = None
    /\ UNCHANGED <<backendVars, base, fresh, receipt, result, primary, faults>>

\* The overlay does not compile: the backend has not been touched.
OverlayRejected ==
    /\ pc = "synced"
    /\ Planning
    /\ ~Compiles(task.plan)
    /\ Ends(Failed("overlay"))
    /\ UNCHANGED <<backendVars, base, fresh, faults>>

\* The receipt is not compared with the overlay before the solve.
ApplyPlan ==
    /\ pc = "synced"
    /\ Planning
    /\ Compiles(task.plan)
    /\ ~Plain(task.plan)
    /\ \/ Apply(PlanOverlay(task.plan)) /\ UNCHANGED faults
       \/ /\ Fault
          /\ Applied(PlanOverlay(task.plan))
          /\ receipt' = WrongReceipt
          /\ pc' = "applied"
          /\ UNCHANGED primary

\* No rollback follows a failed apply: the compiled base is dropped.
ApplyPlanFails ==
    /\ pc = "synced"
    /\ Planning
    /\ Compiles(task.plan)
    /\ ~Plain(task.plan)
    /\ Accepts(PlanOverlay(task.plan)) => Fault
    /\ ~Accepts(PlanOverlay(task.plan)) => UNCHANGED faults
    /\ ApplyStops(PlanOverlay(task.plan))
    /\ ForceRebuildOnNextSync
    /\ Ends(Failed("rollback"))

PlanReport(a) == [ok |-> TRUE, kind |-> "plan", plan |-> task.plan, status |-> a.status, values |-> a.values]

SolvePlain ==
    /\ pc = "synced"
    /\ Planning
    /\ Plain(task.plan)
    /\ \E a \in Answers : Ends(PlanReport(a))
    /\ UNCHANGED <<backendVars, base, fresh, faults>>

SolveUnderPlan ==
    /\ pc = "applied"
    /\ Planning
    /\ \E a \in Answers : result' = a
    /\ pc' = "undo"
    /\ UNCHANGED <<backendVars, base, fresh, task, receipt, primary, answer, faults>>

\* The run fails or answers for another compilation.
SolveUnderPlanFails ==
    /\ pc = "applied"
    /\ Planning
    /\ Fault
    /\ primary' = "backend"
    /\ pc' = "undo"
    /\ UNCHANGED <<backendVars, base, fresh, task, receipt, result, answer>>

\* rollback_and_verify: an uncertain rollback drops the compiled base and
\* keeps the outcome of the solve; a failed verification drops the outcome.
PlanOutcome == IF primary = None THEN PlanReport(result) ELSE Failed(primary)

PlanRolledBack == pc = "undo" /\ Planning /\ UndoVerified /\ Ends(PlanOutcome)

PlanNotRolledBack ==
    /\ pc = "undo"
    /\ Planning
    /\ RollbackUncertain
    /\ ForceRebuildOnNextSync
    /\ Ends(PlanOutcome)
    /\ UNCHANGED fresh

PlanNotVerified ==
    /\ pc = "undo"
    /\ Planning
    /\ VerificationFails
    /\ Ends(Failed(IF primary = None THEN "rollback" ELSE primary))
    /\ UNCHANGED <<base, fresh>>

-----------------------------------------------------------------------------
(* What a plan promises                                                    *)

\* A cutoff from the side the penalties push to.  From the other side the
\* violation columns of the objective can be raised to meet it.
Natural(c) == (c.direction = "upper") <=> (Objectives[c.of].sense = "min")

Fulfils(plan, pt) ==
    /\ pt \in UserPoints
    /\ \A r \in ToSet(plan.fixings) \cup ToSet(plan.locks) : Inside(Allowed(r), pt[r.of])
    /\ \A l \in ToSet(plan.objectiveLocks) : Sign(l.of) * Worth(l.of, pt) <= l.absolute
    /\ \A c \in ToSet(plan.cutoffs) : Natural(c) => Sign(c.of) * (Worth(c.of, pt) - c.limit) <= 0

PlanAnswered == answer # None /\ answer.ok /\ answer.kind = "plan"
Target(plan) == IF plan.override = 0 THEN ActiveObjective ELSE plan.override

\* An answered plan was solved under everything it asks for and nothing
\* else: its point is one of the user's model that keeps every fixing, lock,
\* objective lock and cutoff, no such point is better than one reported as
\* optimal, and there is none when it reports infeasible (compile_overlay).
PlanExact ==
    PlanAnswered =>
        LET plan == answer.plan
            fulfilling == {pt \in UserPoints : Fulfils(plan, pt)}
            exact == \A c \in ToSet(plan.cutoffs) : Natural(c)
        IN  /\ answer.values # <<>> => answer.values \in fulfilling
            /\ answer.status = "Optimal" /\ exact /\ Target(plan) # 0 =>
                 \A pt \in fulfilling :
                    Sign(Target(plan)) * (Worth(Target(plan), answer.values) - Worth(Target(plan), pt)) <= 0
            /\ answer.status = "Infeasible" /\ exact => fulfilling = {}
=============================================================================
