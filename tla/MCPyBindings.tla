----------------------------- MODULE MCPyBindings -----------------------------
(* Python programs for TLC: two threads, models and sessions; two variables and  *)
(* two parameters to write with.                                                 *)
EXTENDS PyBindings, TLC

CONSTANTS t1, t2, m1, m2, s1, s2

\* An array, its first element, the first element of an array of that name.
MCNames == {<<1>>, <<1, 0>>, <<1, 0, 0>>}

\* One thread that gives names in one model.
MCNaming(t, m) ==
    [threads |-> {t}, sessions |-> {}, models |-> {m}, names |-> MCNames,
     lengths |-> 0..2, edits |-> 4, writes |-> FALSE]
\* One thread that builds a value, puts it into one model and updates parameters.
MCWriting(t, m) ==
    [threads |-> {t}, sessions |-> {}, models |-> {m}, names |-> {}, lengths |-> {},
     edits |-> 2, writes |-> TRUE]
\* Two threads that edit and solve two models in two sessions.
MCSolving ==
    [threads |-> Threads, sessions |-> Sessions, models |-> Models, names |-> {<<1>>},
     lengths |-> {}, edits |-> 2, writes |-> FALSE]

MCPrograms ==
    UNION {{MCNaming(t, m), MCWriting(t, m)} : t \in Threads, m \in Models} \cup {MCSolving}
MCSymmetry == Permutations(Threads) \cup Permutations(Models) \cup Permutations(Sessions)

MCStart == {VarScalar(1), ParamScalar(1), VarArray(<<1, 2>>), ParamArray(<<1, 2>>)}
MCOperands == {VarScalar(1), ParamScalar(1), NumberScalar(3),
               VarArray(<<1, 2>>), ParamArray(<<1, 2>>), NumberArray(<<3, 0>>)}
=============================================================================
