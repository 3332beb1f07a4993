-------------------------- MODULE ObjectiveExecution --------------------------
(***************************************************************************)
(* The portable execution of a single, weighted or lexicographic objective *)
(* policy: one overlay per level, minimizing the level's scalar under the  *)
(* degradation locks of the levels before it, with one deadline for all of *)
(* them.                                                                   *)
(***************************************************************************)
EXTENDS OverlayTransaction

CONSTANTS
    PolicyTasks   \* levels, continuation, budget (a set of at most one limit)

ASSUME PolicyTasksAssumption ==
    \A t \in PolicyTasks :
        /\ t.levels \in Seq(ToSet(t.levels))
        /\ t.budget \subseteq Nat /\ \A a, b \in t.budget : a = b

Abs(k) == IF k < 0 THEN -k ELSE k
Priorities(levels) == {levels[i].priority : i \in DOMAIN levels}

\* validate and validate_priority_targets: both before the backend changes.
ValidPolicy(levels) ==
    /\ levels # <<>>
    /\ Cardinality(Priorities(levels)) = Len(levels)
    /\ \A i \in DOMAIN levels : levels[i].weights # Nothing /\ DOMAIN levels[i].weights \subseteq DOMAIN Objectives
    /\ \A r \in ActiveSoft : Soft[r].target.kind = "priority" => Soft[r].target.of \in Priorities(levels)

-----------------------------------------------------------------------------
(* A level as one minimized scalar                                         *)

\* combine_stage: the compiled objectives, weighted and turned to minimize.
CombinedTerms(weights) ==
    LET Share(o, c) == IF c \in DOMAIN CompiledTerms(o) THEN Sign(o) * weights[o] * CompiledTerms(o)[c] ELSE 0
    IN  [c \in UNION {DOMAIN CompiledTerms(o) : o \in DOMAIN weights} |->
            MapThenSumSet(LAMBDA o : Share(o, c), DOMAIN weights)]
CombinedConstant(weights) ==
    MapThenSumSet(LAMBDA o : Sign(o) * weights[o] * Objectives[o].const, DOMAIN weights)

PriorityPenalties(priority) == {r \in ActiveSoft : Soft[r].target = [kind |-> "priority", of |-> priority]}
ObjectivePenalties(o) == {r \in ActiveSoft : Soft[r].target = [kind |-> "objective", of |-> o]}

StageScalar(level) ==
    [terms |-> CombinedTerms(level.weights), const |-> CombinedConstant(level.weights),
     penalties |-> Ascending(PriorityPenalties(level.priority), Len(Rows))]

\* An overlay under construction: operations, the terms the penalties are
\* added to, and the next free column and row.
Assembly == [ops |-> <<>>, terms |-> Nothing, column |-> NextColumn, row |-> NextRow]

(* Faulty: the row number is not taken up.                                  *)
AddViolationSameRow(a, r, side) ==
    [ops |-> a.ops \o <<AddTemporaryVariable(a.column, Span(0, Soft[r].cap)),
                        AddTemporaryRow(a.row, Plus(Rows[r].terms, Only(a.column, SideSign(side))),
                                        SideSpan(Rows[r], side))>>,
     terms |-> Plus(a.terms, Only(a.column, Soft[r].weight)),
     column |-> a.column + 1,
     row |-> a.row]

AddViolation(a, r, side) ==
    [ops |-> a.ops \o <<AddTemporaryVariable(a.column, Span(0, Soft[r].cap)),
                        AddTemporaryRow(a.row, Plus(Rows[r].terms, Only(a.column, SideSign(side))),
                                        SideSpan(Rows[r], side))>>,
     terms |-> Plus(a.terms, Only(a.column, Soft[r].weight)),
     column |-> a.column + 1,
     row |-> a.row + 1]

MaterializePenalties(a, scalar) ==
    FoldLeft(LAMBDA b, s : AddViolation(b, s.row, s.side), [a EXCEPT !.terms = scalar.terms],
             RowSides(scalar.penalties))

(* Faulty: the constant of the level stays on the left.                     *)
AddLockWithConstant(a, lock) ==
    LET b == MaterializePenalties(a, lock.scalar) IN
    [b EXCEPT !.ops = Append(@, AddTemporaryRow(b.row, b.terms, Span(-Inf, lock.upper))),
              !.row = @ + 1]

\* A lock row carries violation columns of its own for its level's penalties.
AddLock(a, lock) ==
    LET b == MaterializePenalties(a, lock.scalar) IN
    [b EXCEPT !.ops = Append(@, AddTemporaryRow(b.row, b.terms, Span(-Inf, lock.upper - lock.scalar.const))),
              !.row = @ + 1]

StageOverlay(scalar, locks) ==
    LET current == MaterializePenalties(Assembly, scalar) IN
    FoldLeft(AddLock, current, locks).ops
        \o <<AddTemporaryObjective(current.terms, scalar.const), SetObjectivePolicy(TemporaryObjective)>>

-----------------------------------------------------------------------------
(* What a stage's answer is worth                                          *)

\* evaluate_stage_scalar: used when no objective value is reported.  The
\* generated columns of the compiled objectives are not among the values.
UserTerms(terms) == [c \in DOMAIN terms \cap Vars |-> terms[c]]
EvaluatedScalar(level, pt) ==
    LET Paid(r) == Soft[r].weight * Violation(r, pt)
        PaidBy(o) == level.weights[o] * MapThenSumSet(Paid, ObjectivePenalties(o))
    IN  Weigh(UserTerms(CombinedTerms(level.weights)), pt) + CombinedConstant(level.weights)
        + MapThenSumSet(Paid, PriorityPenalties(level.priority)) + MapThenSumSet(PaidBy, DOMAIN level.weights)

Decision(continuation, status) ==
    CASE status = "Optimal" -> "Continue"
      [] status = "Feasible" /\ continuation = "BestFeasible" -> "Continue"
      [] status = "Infeasible" -> "StopNoFeasiblePoint"
      [] OTHER -> IF continuation = "BestFeasible" THEN "StopUnknown" ELSE "StopNotOptimal"

LockBound(level, z) == z + level.absolute + level.relative * Abs(z)

-----------------------------------------------------------------------------
(* The stages                                                              *)

Level == task.levels[Len(task.stages) + 1]
(* Faulty: every stage has the whole budget.                                *)
RemainingPerStage == CHOOSE r \in task.budget : TRUE

Remaining == CHOOSE r \in {limit - task.elapsed : limit \in task.budget} : TRUE
OutOfTime == task.budget # {} /\ Remaining <= 0
StageOps == StageOverlay(StageScalar(Level), task.locks)

ExecutePolicy ==
    /\ pc = "idle"
    /\ \E t \in PolicyTasks :
        IF ValidPolicy(t.levels)
        THEN /\ task' = [kind |-> "policy", levels |-> t.levels, continuation |-> t.continuation,
                         budget |-> t.budget, elapsed |-> 0, locks |-> <<>>, stages |-> <<>>]
             /\ pc' = "sync"
             /\ answer' = None
             /\ UNCHANGED <<receipt, result, primary>>
        ELSE Ends(Failed("preflight"))
    /\ UNCHANGED <<backendVars, base, fresh, faults>>

Descending == pc = "synced" /\ task.kind = "policy"

\* The deadline is looked at before the backend changes; what the finished
\* stages found is kept.
Report(stages, exhausted) ==
    IF stages = <<>> THEN Failed("budgetExhausted")
    ELSE [ok |-> TRUE, kind |-> "policy", levels |-> task.levels, budget |-> task.budget,
          elapsed |-> task.elapsed, stages |-> stages, exhausted |-> exhausted]

StopAtDeadline ==
    /\ Descending
    /\ OutOfTime
    /\ Ends(Report(task.stages, TRUE))
    /\ UNCHANGED <<backendVars, base, fresh, faults>>

StartStage ==
    /\ Descending
    /\ ~OutOfTime
    /\ Apply(StageOps)
    /\ UNCHANGED faults

StartStageFails ==
    /\ Descending
    /\ ~OutOfTime
    /\ ApplyFails(StageOps) \/ ApplyMismatches(StageOps)

\* The run, within the time left, and everything read from its answer.
SolveStage ==
    /\ pc = "applied"
    /\ task.kind = "policy"
    /\ \E a \in Answers, spent \in (IF task.budget = {} THEN {0} ELSE 0 .. Remaining) :
        LET pt == a.values
            decision == Decision(task.continuation, a.status)
            scalar == IF pt = <<>> THEN {} ELSE IF a.objective # {} THEN a.objective ELSE {EvaluatedScalar(Level, pt)}
            lock == IF decision = "Continue"
                    THEN {[scalar |-> StageScalar(Level), upper |-> LockBound(Level, z)] : z \in scalar} ELSE {}
        IN  /\ a.status = "TimeLimit" /\ task.budget # {} => spent = Remaining
            /\ task' = [task EXCEPT !.elapsed = @ + spent,
                                    !.locks = @ \o (IF lock = {} THEN <<>> ELSE <<CHOOSE l \in lock : TRUE>>),
                                    !.stages = Append(@, [priority |-> Level.priority, status |-> a.status,
                                                          values |-> pt, scalar |-> scalar,
                                                          lock |-> {l.upper : l \in lock}])]
    /\ pc' = "undo"
    /\ UNCHANGED <<backendVars, base, fresh, receipt, result, primary, answer, faults>>

Proceed ==
    IF Last(task.stages).lock = {} \/ Len(task.stages) = Len(task.levels)
    THEN Ends(Report(task.stages, FALSE))
    ELSE pc' = "synced" /\ receipt' = None /\ UNCHANGED <<task, result, primary, answer>>

\* rollback_objective_stage, before any further solve.
StageRolledBack ==
    /\ pc = "undo"
    /\ task.kind = "policy"
    /\ UndoVerified
    /\ Proceed

StageNotRolledBack ==
    /\ pc = "undo"
    /\ task.kind = "policy"
    /\ UndoUncertain
    /\ Ends(Failed("cleanup"))

-----------------------------------------------------------------------------
(* What a policy promises                                                  *)

\* The scalar of a level by its definition, penalties included.
LevelWorth(level, pt) ==
    LET Cost(o) == level.weights[o] * Sign(o) * Worth(o, pt)
        Paid(r) == IF Soft[r].target = [kind |-> "priority", of |-> level.priority]
                   THEN Soft[r].weight * Violation(r, pt) ELSE 0
    IN  MapThenSumSet(Cost, DOMAIN level.weights) + MapThenSumSet(Paid, ActiveSoft)

PolicyAnswered == answer # None /\ answer.ok /\ answer.kind = "policy"
KeepsLocks(pt, upto) ==
    \A j \in 1 .. upto : \A upper \in answer.stages[j].lock : LevelWorth(answer.levels[j], pt) <= upper

\* The staged overlays solve the lexicographic problem: a stage that claims
\* optimality reports the least value of its level, penalties included, over
\* the points that respect every earlier lock, and one that claims
\* infeasibility had no such point (build_stage_overlay).  No stage gives
\* back what an earlier one reached: its point is one of the user's model,
\* within every lock so far, and worth no more than was reported for it.
StagesLexicographic ==
    PolicyAnswered => \A i \in DOMAIN answer.stages :
        LET stage == answer.stages[i]
            worths == {LevelWorth(answer.levels[i], pt) : pt \in {p \in UserPoints : KeepsLocks(p, i - 1)}}
        IN  /\ stage.status = "Optimal" =>
                 \A z \in stage.scalar : z \in worths /\ \A w \in worths : z <= w
            /\ stage.status = "Infeasible" => worths = {}
            /\ stage.values # <<>> =>
                 /\ stage.values \in UserPoints
                 /\ KeepsLocks(stage.values, i)
                 /\ \A z \in stage.scalar : LevelWorth(answer.levels[i], stage.values) <= z

\* All stages together take no more than the time limit, and an execution
\* that ran out of it still returns a point (the shared deadline).
DeadlineShared ==
    PolicyAnswered =>
        /\ \A limit \in answer.budget : answer.elapsed <= limit
        /\ answer.exhausted => Last(answer.stages).values # <<>> /\ Len(answer.stages) < Len(answer.levels)
=============================================================================
