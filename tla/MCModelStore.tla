---------------------------- MODULE MCModelStore ----------------------------
(* A small instance of ModelStore: two variables, two parameters that form a   *)
(* span, one constraint and one objective.                                     *)
EXTENDS ModelStore

CONSTANTS capacityRow, costGoal

MCVars == {1, 2}
MCParams == {1, 2}
MCRows == {capacityRow}
MCObjs == {costGoal}

MCExprs == {ScaledParam(1, 1)}
MCValues == {1}
MCInitialValues == {0}
MCParamValues == {0, 1}
MCSpans == {{1, 2}}

Term(v, x) == [var |-> v, value |-> x]
ParamTerm(v, p, x) == [var |-> v, param |-> p, scale |-> x]

\* Two terms; one term; a variable that cancels beside one that stays.
MCLinearInputs ==
    {<<Term(1, 1), Term(2, 2)>>,
     <<Term(2, 1)>>,
     <<Term(1, 1), Term(2, 1), Term(1, -1)>>}

\* A parameter per cell; a repeated variable of one parameter; one of two.
MCParamInputs ==
    {<<ParamTerm(1, 1, 1), ParamTerm(2, 2, 1)>>,
     <<ParamTerm(1, 1, 1), ParamTerm(2, 1, 1), ParamTerm(1, 1, 1)>>,
     <<ParamTerm(1, 1, 1), ParamTerm(1, 2, 1), ParamTerm(2, 2, 1)>>}

Block(claims) == [span |-> {1, 2}, scale |-> 1, claims |-> claims]

\* No layout; one that covers the first input; one that covers half of it, and
\* is refused for the others.
MCLayouts ==
    {{},
     {Block([v \in {1, 2} |-> v])},
     {Block([v \in {2} |-> v])}}
=============================================================================
