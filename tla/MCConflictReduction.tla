-------------------------- MODULE MCConflictReduction --------------------------
(* Infeasibility problems of four atoms each, and plans, for TLC. *)
EXTENDS RestrictionUniverse

Column(lo, hi, fixing, active, origin) ==
    [bounds |-> Span(lo, hi), fixing |-> fixing, active |-> active, origin |-> origin]
X(lo, hi) == Column(lo, hi, {}, TRUE, "user")
Fixed(lo, hi, f) == Column(lo, hi, {f}, TRUE, "user")
Row(terms, lo, hi) == [terms |-> terms, bounds |-> Span(lo, hi), origin |-> "user"]
Made(e, construct) == [e EXCEPT !.origin = construct]
At(k, value, band) == [of |-> k, value |-> value, band |-> band]
Problem(grouping, columns, rows, fixings, locks, extra) ==
    [grouping |-> grouping, columns |-> columns, rows |-> rows, fixings |-> fixings, locks |-> locks,
     extra |-> extra]

MCInf == 99
MCGrid == (-2) .. 6

MCProblems == {
    \* No conflict, one hidden among bystanders, two disjoint ones,
    \* overlapping ones beside a cutoff out of reach, and a chain that needs every atom.
    Problem("Individual", <<X(0, 2), X(-MCInf, 2)>>, <<Row(<<1, 1>>, 1, MCInf)>>, <<>>, <<>>, <<>>),
    Problem("Individual", <<X(0, 2), X(-MCInf, 2)>>, <<Row(<<1, 1>>, 5, MCInf)>>, <<>>, <<>>, <<>>),
    Problem("Individual", <<X(-MCInf, 2), X(-MCInf, 2)>>,
            <<Row(<<1, 0>>, 3, MCInf), Row(<<0, 1>>, 3, MCInf)>>, <<>>, <<>>, <<>>),
    Problem("Individual", <<X(-MCInf, 2)>>, <<Row(<<1>>, 3, MCInf), Row(<<1>>, 4, MCInf)>>, <<>>, <<>>,
            <<Row(<<0>>, 1, MCInf)>>),
    Problem("Individual", <<X(3, MCInf), X(-MCInf, MCInf), X(-MCInf, 2)>>,
            <<Row(<<-1, 1, 0>>, 0, MCInf), Row(<<0, -1, 1>>, 0, MCInf)>>, <<>>, <<>>, <<>>),
    \* Equalities, fixings over their declared bounds, an inactive column.
    Problem("Semantic", <<Fixed(0, MCInf, 3), X(-MCInf, 1)>>, <<Row(<<1, -1>>, 1, 1)>>, <<>>, <<>>, <<>>),
    Problem("Semantic", <<Fixed(2, 2, 2), X(-MCInf, 4)>>, <<Row(<<1, 0>>, -MCInf, 1)>>, <<>>, <<>>, <<>>),
    Problem("Semantic", <<X(2, 2), Column(1, 4, {}, FALSE, "user")>>, <<Row(<<1, 1>>, 3, 5)>>,
            <<>>, <<>>, <<>>),
    \* What a construct generated: as one atom, and side by side.
    Problem("ByConstruct", <<X(0, MCInf), X(-MCInf, 2), Made(X(0, 1), "k1")>>,
            <<Row(<<1, 1, 0>>, 4, MCInf), Made(Row(<<1, 0, -1>>, -MCInf, 0), "k1"),
              Made(Row(<<1, 0, 1>>, 0, MCInf), "k1")>>, <<>>, <<>>, <<>>),
    Problem("Individual", <<X(2, MCInf), Made(X(0, 1), "k1")>>,
            <<Made(Row(<<1, -1>>, -MCInf, 0), "k1")>>, <<>>, <<>>, <<>>),
    \* Overlays: a fixing and a lock, a cutoff row, a lock on a fixed column.
    Problem("Semantic", <<X(0, MCInf), X(-MCInf, MCInf)>>, <<Row(<<1, 1>>, -MCInf, 3)>>,
            <<At(1, 2, 0)>>, <<At(2, 2, 0)>>, <<>>),
    Problem("Individual", <<X(0, MCInf), X(0, MCInf)>>, <<Row(<<1, 1>>, 2, MCInf)>>, <<>>, <<>>,
            <<Row(<<1, 1>>, -MCInf, 1)>>),
    Problem("ByConstruct", <<Fixed(-MCInf, 4, 1)>>, <<Row(<<1>>, 2, MCInf)>>, <<>>, <<At(1, 1, 0)>>, <<>>),
    \* A band around a lock; a fixing under an inactive column.
    Problem("Semantic", <<X(0, MCInf), X(0, MCInf)>>, <<Row(<<1, 1>>, -MCInf, 1)>>,
            <<>>, <<At(1, 2, 1)>>, <<>>),
    Problem("Individual", <<Column(-MCInf, 4, {2}, FALSE, "user")>>, <<Row(<<1>>, 0, 1)>>, <<>>, <<>>, <<>>)}

MCFamilies == {ConflictsOf[p] : p \in Problems}

CallLimits == {{}, {0}, {1}, {2}, {4}, {8}}
MCPlans ==
    [mode : {"Auto", "NativeOnly", "NativeThenRoml"}, seedPolicy : {"Adaptive"},
     reduction : {"Adaptive", "DeletionFilter"}, maxCalls : CallLimits, maxIterations : {{}, {0}, {2}}]
    \cup
    [mode : {"RomlPortable", "Auto"}, seedPolicy : {"FullUniverse"},
     reduction : {"Adaptive", "DeletionFilter"}, maxCalls : CallLimits, maxIterations : {{}, {1}}]
=============================================================================
