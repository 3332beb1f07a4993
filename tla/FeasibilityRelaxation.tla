------------------------ MODULE FeasibilityRelaxation -------------------------
(***************************************************************************)
(* One portable weighted-L1 feasibility repair: the selected restrictions  *)
(* are opened by a solve-scoped overlay, a violation column and row per    *)
(* side measure by how much each is broken, and the provider's answer is   *)
(* checked against the canonical model before it is reported.              *)
(***************************************************************************)
EXTENDS OverlayTransaction

CONSTANTS
    RepairTasks   \* explicit: at most one set of restrictions; acceptance

Side(kind, of, side) == [kind |-> kind, of |-> of, side |-> side]

\* Every finite restriction, in the order of restriction_key.
FiniteSides(kind, of, bounds) == [k \in DOMAIN Sides(bounds) |-> Side(kind, of, Sides(bounds)[k])]
Restrictions ==
    LET fixed == Ascending({v \in Vars : Domain[v].fixing # {}}, Len(Domain)) IN
    FlattenSeq([r \in DOMAIN Rows |-> FiniteSides("row", r, Rows[r])])
    \o FlattenSeq([v \in Vars |-> FiniteSides("bound", v, Domain[v])])
    \o [k \in DOMAIN fixed |-> Side("fixing", fixed[k], "both")]

\* validate_plan_preflight: a scope of active, finite restrictions.
ValidScope(explicit) == \A scope \in explicit : scope # {} /\ scope \subseteq ToSet(Restrictions)
Selected(explicit) ==
    LET all == Restrictions
        picked == Ascending({k \in DOMAIN all : all[k] \in UNION explicit}, Len(all))
    IN  IF explicit = {} THEN all ELSE [k \in DOMAIN picked |-> all[picked[k]]]

\* A softened row repairs at its own price and within its own cap, whether
\* or not its construct is active.
Weight(r) == IF r.kind = "row" /\ r.of \in DOMAIN Soft THEN Soft[r.of].weight ELSE 1
Cap(r) == IF r.kind = "row" /\ r.of \in DOMAIN Soft THEN Soft[r.of].cap ELSE Inf

-----------------------------------------------------------------------------
(* compile_portable_overlay                                                *)

Widened(bounds, lower, upper) ==
    Span(IF lower THEN -Inf ELSE bounds.lo, IF upper THEN Inf ELSE bounds.hi)

\* One replacement per row: the sides that are not selected stay hard, also
\* on a softened row.
OpenedRow(chosen, r) ==
    SetTemporaryRowBounds(r, Widened(Rows[r], Side("row", r, "lower") \in chosen, Side("row", r, "upper") \in chosen))

(* Faulty: a fixing stays hard although it was selected.                    *)
OpenedVariableFixed(chosen, v) ==
    SetTemporaryVariableBounds(v,
        IF Domain[v].fixing # {}
        THEN Span(CHOOSE f \in Domain[v].fixing : TRUE, CHOOSE f \in Domain[v].fixing : TRUE)
        ELSE Widened(Domain[v], Side("bound", v, "lower") \in chosen, Side("bound", v, "upper") \in chosen))

\* One replacement per variable: a fixing that is not selected stays hard.
OpenedVariable(chosen, v) ==
    LET opened == Widened(Domain[v], Side("bound", v, "lower") \in chosen, Side("bound", v, "upper") \in chosen)
    IN  SetTemporaryVariableBounds(v,
            IF Side("fixing", v, "both") \notin chosen /\ Domain[v].fixing # {}
            THEN Span(CHOOSE f \in Domain[v].fixing : TRUE, CHOOSE f \in Domain[v].fixing : TRUE)
            ELSE opened)

Openings(chosen) ==
    LET rows == Ascending({c.of : c \in {r \in chosen : r.kind = "row"}}, Len(Rows))
        variables == Ascending({c.of : c \in {r \in chosen : r.kind # "row"}}, Len(Domain))
    IN  [k \in DOMAIN rows |-> OpenedRow(chosen, rows[k])]
        \o [k \in DOMAIN variables |-> OpenedVariable(chosen, variables[k])]

\* The violation rows of a restriction: what it relates, and its sides.
Related(r) == IF r.kind = "row" THEN Rows[r.of].terms ELSE Only(r.of, 1)
Measured(r) ==
    CASE r.kind = "row" -> <<SideSpan(Rows[r.of], r.side)>>
      [] r.kind = "bound" -> <<SideSpan(Domain[r.of], r.side)>>
      [] OTHER -> LET f == CHOOSE f \in Domain[r.of].fixing : TRUE IN <<Span(f, Inf), Span(-Inf, f)>>

\* [ops, terms, column, row] with the next violation of a restriction.
Measure(a, r, side) ==
    [ops |-> a.ops \o <<AddTemporaryVariable(a.column, Span(0, Cap(r))),
                        AddTemporaryRow(a.row, Plus(Related(r), Only(a.column, IF side.hi = Inf THEN 1 ELSE -1)), side)>>,
     terms |-> Plus(a.terms, Only(a.column, Weight(r))),
     column |-> a.column + 1,
     row |-> a.row + 1]

MeasuredSides(chosen) ==
    FlattenSeq([k \in DOMAIN chosen |->
        [j \in DOMAIN Measured(chosen[k]) |-> [of |-> chosen[k], side |-> Measured(chosen[k])[j]]]])
RepairOverlay(chosen) ==
    LET built == FoldLeft(LAMBDA a, m : Measure(a, m.of, m.side),
                          [ops |-> Openings(ToSet(chosen)), terms |-> Nothing, column |-> NextColumn, row |-> NextRow],
                          MeasuredSides(chosen))
    IN  built.ops \o <<AddTemporaryObjective(built.terms, 0), SetObjectivePolicy(TemporaryObjective)>>

-----------------------------------------------------------------------------
(* report_members: the evidence, from the canonical model                  *)

Broken(r, pt) ==
    LET at == Weigh(Related(r), pt) IN
    CASE r.side = "lower" -> Larger(0, (IF r.kind = "row" THEN Rows[r.of].lo ELSE Domain[r.of].lo) - at)
      [] r.side = "upper" -> Larger(0, at - (IF r.kind = "row" THEN Rows[r.of].hi ELSE Domain[r.of].hi))
      [] OTHER -> LET f == CHOOSE f \in Domain[r.of].fixing : TRUE IN Larger(at - f, f - at)

Price(chosen, pt) == FoldLeft(LAMBDA acc, r : acc + Weight(r) * Broken(r, pt), 0, chosen)

(* Faulty: an opened fixing still narrows the domain of the evidence.       *)
EvidentUnderFixings(chosen, pt) ==
    LET picked == ToSet(chosen)
        Open(kind, of, side) == Side(kind, of, side) \in picked
    IN  /\ \A v \in Vars : /\ Open("bound", v, "lower") \/ EffectiveBounds(v).lo <= pt[v]
                           /\ Open("bound", v, "upper") \/ pt[v] <= EffectiveBounds(v).hi
        /\ \A r \in DOMAIN Rows : LET at == Weigh(Rows[r].terms, pt) IN
                           /\ Open("row", r, "lower") \/ Rows[r].lo <= at
                           /\ Open("row", r, "upper") \/ at <= Rows[r].hi
        /\ \A r \in picked : Broken(r, pt) <= Cap(r)

\* What is not selected holds, and no cap is exceeded.
Evident(chosen, pt) ==
    LET picked == ToSet(chosen)
        Open(kind, of, side) == Side(kind, of, side) \in picked
        Held(v) == IF Open("fixing", v, "both") THEN Domain[v] ELSE EffectiveBounds(v)
    IN  /\ \A v \in Vars : /\ Open("bound", v, "lower") \/ Held(v).lo <= pt[v]
                           /\ Open("bound", v, "upper") \/ pt[v] <= Held(v).hi
        /\ \A r \in DOMAIN Rows : LET at == Weigh(Rows[r].terms, pt) IN
                           /\ Open("row", r, "lower") \/ Rows[r].lo <= at
                           /\ Open("row", r, "upper") \/ at <= Rows[r].hi
        /\ \A r \in picked : Broken(r, pt) <= Cap(r)

\* The whole report is refused when the evidence fails, when a candidate
\* status comes without an objective, or when the objective is not the price.
Reportable(chosen, a) ==
    a.values # <<>> =>
        /\ Evident(chosen, a.values)
        /\ a.status \in {"Optimal", "Feasible"} => a.objective # {}
        /\ a.objective \subseteq {Price(chosen, a.values)}

Outcome(acceptance, status) ==
    CASE status = "Optimal" -> "OptimalRepair"
      [] status = "Feasible" /\ acceptance = "AcceptFeasible" -> "FeasibleRepair"
      [] status = "Infeasible" -> "NoRepairFound"
      [] OTHER -> "Unknown"

-----------------------------------------------------------------------------
(* The repair                                                              *)

Repair ==
    /\ pc = "idle"
    /\ \E t \in RepairTasks :
        IF ValidScope(t.explicit)
        THEN /\ task' = [kind |-> "repair", chosen |-> Selected(t.explicit), acceptance |-> t.acceptance]
             /\ pc' = "sync"
             /\ answer' = None
             /\ UNCHANGED <<receipt, result, primary>>
        ELSE Ends(Failed("preflight"))
    /\ UNCHANGED <<backendVars, base, fresh, faults>>

Repairing == task # None /\ task.kind = "repair"

OpenRestrictions ==
    /\ pc = "synced"
    /\ Repairing
    /\ Apply(RepairOverlay(task.chosen))
    /\ UNCHANGED faults

OpenRestrictionsFails ==
    /\ pc = "synced"
    /\ Repairing
    /\ ApplyFails(RepairOverlay(task.chosen)) \/ ApplyMismatches(RepairOverlay(task.chosen))

SolveRepair ==
    /\ pc = "applied"
    /\ Repairing
    /\ \E a \in Answers :
        /\ result' = a
        /\ IF Reportable(task.chosen, a)
           THEN pc' = "undo" /\ UNCHANGED primary
           ELSE pc' = "rollback" /\ primary' = "evidence"
    /\ UNCHANGED <<backendVars, base, fresh, task, receipt, answer, faults>>

RepairRolledBack ==
    /\ pc = "undo"
    /\ Repairing
    /\ UndoVerified
    /\ Ends([ok |-> TRUE, kind |-> "repair", chosen |-> task.chosen, values |-> result.values,
             outcome |-> Outcome(task.acceptance, result.status),
             price |-> IF result.values = <<>> THEN 0 ELSE Price(task.chosen, result.values)])

RepairNotRolledBack ==
    /\ pc = "undo"
    /\ Repairing
    /\ UndoUncertain
    /\ Ends(Failed("cleanup"))

-----------------------------------------------------------------------------
(* What a repair promises                                                  *)

RepairAnswered == answer # None /\ answer.ok /\ answer.kind = "repair"

\* Points that break nothing but selected restrictions, within their caps.
Repaired(chosen) ==
    LET everywhere == FoldLeft(Extend, {<<>>}, [v \in Vars |-> Span(-Reach, Reach)]) IN
    {pt \in everywhere : Evident(chosen, pt)}

\* A repair reported as optimal is the cheapest one there is, counted on the
\* canonical model, and NoRepairFound means that none exists: the overlay of
\* openings, violation columns and rows is exact (compile_portable_overlay).
RepairExact ==
    RepairAnswered =>
        /\ answer.outcome = "OptimalRepair" =>
             /\ answer.values \in Repaired(answer.chosen)
             /\ \A pt \in Repaired(answer.chosen) : answer.price <= Price(answer.chosen, pt)
        /\ answer.outcome = "NoRepairFound" => Repaired(answer.chosen) = {}

\* Evidence is never refused for a provably optimal answer when every row
\* softened by an active construct is within the scope.
HonestRepairReported ==
    primary = "evidence" /\ Repairing /\ result.status = "Optimal" /\ result.objective # {} =>
        \E r \in ActiveSoft : \A c \in ToSet(task.chosen) : ~(c.kind = "row" /\ c.of = r)
=============================================================================
