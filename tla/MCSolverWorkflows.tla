---------------------------- MODULE MCSolverWorkflows ----------------------------
\* Three models of two variables: a feasible one with both kinds of softened
\* rows, one without an active objective and with a softened equality, and an
\* infeasible one with a persistent fixing.
EXTENDS SolverWorkflows

Variable(type, lo, hi, fixing) == [type |-> type, lo |-> lo, hi |-> hi, fixing |-> fixing]
Row(terms, lo, hi) == [terms |-> terms, lo |-> lo, hi |-> hi]
Softened(weight, cap, kind, of, active) ==
    [weight |-> weight, cap |-> cap, target |-> [kind |-> kind, of |-> of], active |-> active]
Goal(sense, terms, const) == [sense |-> sense, terms |-> terms, const |-> const]
Goals == <<Goal("max", <<1, 0>>, 1), Goal("min", <<1, 2>>, 0)>>

Feasible ==
    [domain |-> <<Variable("integer", 0, 2, {}), Variable("continuous", 0, 2, {})>>,
     rows |-> <<Row(<<1, 1>>, 1, Inf), Row(<<1, 0>>, -Inf, 1), Row(<<0, 1>>, 1, Inf)>>,
     soft |-> [r \in {2, 3} |-> IF r = 2 THEN Softened(2, 1, "objective", 1, TRUE)
                                ELSE Softened(1, 2, "priority", 1, TRUE)],
     objectives |-> Goals, active |-> 1]
Undirected ==
    [domain |-> <<Variable("integer", 0, 2, {}), Variable("continuous", 0, 2, {})>>,
     rows |-> <<Row(<<1, -1>>, 1, 1)>>,
     soft |-> [r \in {1} |-> Softened(1, 1, "objective", 2, TRUE)],
     objectives |-> Goals, active |-> 0]
Infeasible ==
    [domain |-> <<Variable("integer", 0, Inf, {1}), Variable("continuous", -Inf, 1, {})>>,
     rows |-> <<Row(<<1, 1>>, 4, Inf), Row(<<1, -1>>, -Inf, 0)>>,
     soft |-> [r \in {2} |-> Softened(2, 1, "objective", 2, FALSE)],
     objectives |-> Goals, active |-> 2]
MCModels == {Feasible, Undirected, Infeasible}

AtLevel(priority, weights, absolute) ==
    [priority |-> priority, weights |-> weights, absolute |-> absolute, relative |-> 0]
On(o) == [x \in {o} |-> 1]
MCPolicyTasks ==
    {[levels |-> levels, continuation |-> continuation, budget |-> budget] :
        levels \in {<<AtLevel(0, On(1), 1), AtLevel(1, On(2), 0)>>, <<AtLevel(1, [o \in {1, 2} |-> o], 0)>>,
                    <<AtLevel(0, On(1), 0)>>},
        continuation \in {"BestFeasible", "RequireOptimal"}, budget \in {{}, {1}}}

MCRepairTasks ==
    {[explicit |-> scope, acceptance |-> acceptance] :
        scope \in {{}, {{Side("row", 1, "lower"), Side("row", 2, "upper")}},
                  {{Side("fixing", 1, "both"), Side("bound", 2, "upper")}},
                  {{Side("bound", 1, "lower"), Side("bound", 2, "upper")}}},
        acceptance \in {"AcceptFeasible", "RequireOptimal"}}

Plan(fixings, locks, objectiveLocks, cutoffs, override) ==
    [fixings |-> fixings, locks |-> locks, objectiveLocks |-> objectiveLocks, cutoffs |-> cutoffs,
     override |-> override]
MCPlanTasks ==
    {Plan(<<>>, <<>>, <<>>, <<>>, 0),
     Plan(<<Restriction(1, 1, 0)>>, <<Restriction(2, 1, 1)>>, <<>>, <<>>, 2),
     Plan(<<>>, <<Restriction(1, 2, 0)>>, <<>>, <<[of |-> 2, direction |-> "upper", limit |-> 4]>>, 0),
     Plan(<<>>, <<Restriction(2, 0, 1), Restriction(2, 2, 1)>>, <<[of |-> 1, absolute |-> 0]>>, <<>>, 0),
     Plan(<<>>, <<>>, <<>>, <<[of |-> 1, direction |-> "upper", limit |-> 1]>>, 0),
     Plan(<<>>, <<Restriction(3, 1, 0)>>, <<>>, <<>>, 0)}
=============================================================================
