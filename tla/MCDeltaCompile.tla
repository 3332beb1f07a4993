---------------------------- MODULE MCDeltaCompile ----------------------------
(* Instances of DeltaCompile for TLC. *)
EXTENDS DeltaCompile

CONSTANTS v1, v2, c1, c2, o1, o2, k1, k2

MCValue == 0..3
MCWide == {0..3}
MCBounds == {0..3, 1..2}
MCNarrow == {1..2}
MCTwoRowBounds == {1..2, 0..1}

\* k1 refers to v1; k2 softens c1, at the expense of o1 where the run says so.
MCRefers == [k \in Construct |-> IF k = k1 THEN {v1} ELSE {}]
MCSoftens == [k \in Construct |-> IF k = k2 THEN c1 ELSE None]
MCPenalises == [k \in Construct |-> IF k = k2 THEN o1 ELSE None]
MCNoPenalty == [k \in Construct |-> None]

\* Two variables and a construct that refers to one of them.
MCColumns ==
    [entities |-> {v1, v2, k1}, bounds |-> MCBounds, rowBounds |-> {}, fixedTo |-> {1},
     types |-> {"Continuous"}, nonzeroFrom |-> {2}, coefs |-> {1}, offsets |-> {}]
\* One variable, two rows and a construct that softens one of them.
MCRows ==
    [entities |-> {v1, c1, c2, k2}, bounds |-> MCWide, rowBounds |-> MCTwoRowBounds,
     fixedTo |-> {}, types |-> {"Continuous"}, nonzeroFrom |-> {}, coefs |-> {1, 2},
     offsets |-> {}]
\* One row that is softened, and two objectives.
MCObjectives ==
    [entities |-> {v1, c1, o1, o2, k2}, bounds |-> MCWide, rowBounds |-> MCNarrow,
     fixedTo |-> {}, types |-> {"Continuous"}, nonzeroFrom |-> {}, coefs |-> {1},
     offsets |-> {1}]
\* One variable that is fixed and gets other bounds.
MCFixed ==
    [entities |-> {v1}, bounds |-> MCBounds, rowBounds |-> {}, fixedTo |-> {2},
     types |-> {"Continuous"}, nonzeroFrom |-> {}, coefs |-> {}, offsets |-> {}]

MCColumnsAndRows == {MCColumns, MCRows}
MCOnlyObjectives == {MCObjectives}
MCOnlyFixed == {MCFixed}
=============================================================================
