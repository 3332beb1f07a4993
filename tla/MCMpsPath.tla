------------------------------- MODULE MCMpsPath -------------------------------
(* Every model a variation of one feature makes of a small one, written by a       *)
(* single writer without faults; and two writers of one destination with faults.   *)
EXTENDS MpsPath

CONSTANTS w1, w2, p1, p2

MCInf == 99
MCFloats == {-16, -12, -8, -6, -4, -3, -2, -1, 0, 1, 2, 3, 4, 6, 8, 12, 16}
MCInvalidNames == {"", "two words", "'MARKER'"}
MCCommentNames == {"*x"}
MCGenerated == [X |-> <<"X1", "X2", "X3">>, R |-> <<"R1", "R2", "R3">>,
                OBJ |-> <<"OBJ1", "OBJ2", "OBJ3">>]

-----------------------------------------------------------------------------

Var(name, type, lower, upper, fixed, active, semicontinuous) ==
    [name |-> name, type |-> type, lower |-> lower, upper |-> upper, fixed |-> fixed,
     active |-> active, semicontinuous |-> semicontinuous]
Con(name, lower, upper, active, cells) ==
    [name |-> name, lower |-> lower, upper |-> upper, active |-> active, cells |-> cells]
Goal(name, sense, constant, cells) ==
    [name |-> name, sense |-> sense, constant |-> constant, cells |-> cells]

Types == {"continuous", "integer", "binary"}
Plain == Var("x", "continuous", 0, MCInf, {}, TRUE, FALSE)
Bool == Var("y", "binary", 0, 2, {}, TRUE, FALSE)
Limit == Con("c", -MCInf, 8, TRUE, <<2, -4>>)
Cost == Goal("cost", "MIN", 6, <<2, 1>>)
Model(columns, rows, objective) ==
    [vars |-> columns, rows |-> rows, objective |-> objective, construct |-> FALSE]
Base == Model(<<Plain, Bool>>, <<Limit>>, <<Cost>>)

Points == {-16, -3, -2, 0, 1, 2, 3, 4, 8, 16}
Ends == {e \in (Points \cup {-MCInf}) \X (Points \cup {MCInf}) : e[1] <= e[2]}
RowEnds == Ends \cup {<<1, 2>>, <<-1, 6>>}

Domains == {Model(<<Var("x", t, e[1], e[2], {}, TRUE, FALSE), Bool>>, <<Limit>>, <<Cost>>) :
              t \in Types, e \in Ends}
Fixings == {Model(<<Bool, Var("x", t, -4, 8, {f}, TRUE, FALSE)>>, <<Limit>>, <<Cost>>) :
              t \in Types, f \in {-3, 0, 2, 4}}
Rows == {Model(<<Plain, Bool>>, <<Con("c", e[1], e[2], TRUE, <<2, 0>>)>>, <<Cost>>) :
           e \in RowEnds}
Names == {Model(<<[Plain EXCEPT !.name = a], [Bool EXCEPT !.name = b]>>,
                <<[Limit EXCEPT !.name = c], [Limit EXCEPT !.name = d, !.upper = 4]>>,
                <<[Cost EXCEPT !.name = g]>>) :
            a \in {"x", "X1", "c"}, b \in {"x", "", "X2"},
            c \in {"c", "OBJ", "R2"}, d \in {"c", "'MARKER'", "cost"}, g \in {"cost", "", "R1", "c"}}
Marks == {Model(<<[Plain EXCEPT !.name = "a", !.type = t[1], !.active = on],
                  [Plain EXCEPT !.name = "b", !.type = t[2]],
                  [Plain EXCEPT !.name = "d", !.type = t[3], !.upper = 2]>>,
                <<Con("c", 0, 8, TRUE, <<2, 4, 0>>)>>, goal) :
            on \in BOOLEAN, t \in {"continuous", "integer"} \X {"continuous", "integer"} \X Types,
            goal \in {<<>>, <<Goal("cost", "MAX", 0, <<0, -2, 0>>)>>}}
Others == {[Base EXCEPT !.construct = TRUE], [Base EXCEPT !.vars[1].semicontinuous = TRUE],
           [Base EXCEPT !.rows[1].active = FALSE], [Base EXCEPT !.objective[1].constant = -3],
           Model(<<>>, <<>>, <<>>)}

Alone(model) == [jobs |-> [w \in {w1} |-> [model |-> model, policy |-> "CreateNew"]],
                 old |-> FALSE, faults |-> 0]
Race(one, other, old) ==
    [jobs |-> [w \in {w1, w2} |-> [model |-> Base, policy |-> IF w = w1 THEN one ELSE other]],
     old |-> old, faults |-> 1]
Persistent(policy) ==
    [jobs |-> [w \in {w1} |-> [model |-> Base, policy |-> policy]], old |-> TRUE, faults |-> 3]

MCScenarios ==
    {Alone(m) : m \in Domains \cup Fixings \cup Rows \cup Names \cup Marks \cup Others}
      \cup {Race(one, other, old) : one \in {"CreateNew", "AtomicReplace"},
                                    other \in {"CreateNew", "AtomicReplace"}, old \in BOOLEAN}
      \cup {Persistent(policy) : policy \in {"CreateNew", "AtomicReplace"}}
=============================================================================
