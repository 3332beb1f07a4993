------------------------------- MODULE PyNames -------------------------------
(* The names of a Python model (roml-python/src/namespace.rs and the operations *)
(* of model.rs that give names): a variable array reserves the names of its     *)
(* elements without storing them.  A name is a sequence of numbers: a word and  *)
(* the indices in brackets after it, so that <<1, 0>> is what the first element *)
(* of the array <<1>> is called.                                                *)
EXTENDS Integers, Sequences, SequencesExt, Functions

Element(base, i) == Append(base, i)
ElementsOf(base, len) == {Element(base, i) : i \in 0..(len - 1)}

\* Everything is numbered in the order it was created.  `given` and `conGiven` are
\* what the program was promised: pairs of a name and what it was given to.
NoNames ==
    [varNames |-> <<>>, paramNames |-> <<>>, conNames |-> <<>>, arrayNames |-> {},
     varArrayLens |-> <<>>, paramArrays |-> <<>>, explicitIndices |-> {},
     values |-> <<>>, made |-> 0, given |-> {}, conGiven |-> {}]

With(f, key, v) == [k \in DOMAIN f \cup {key} |-> IF k = key THEN v ELSE f[k]]

\* split_generated: base and index of a name that could be an element's.
Generated(name) == Len(name) > 1

NameTaken(m, name) ==
    name \in DOMAIN m.varNames \cup DOMAIN m.paramNames \cup m.arrayNames

ImplicitVarElement(m, name) ==
    /\ Generated(name)
    /\ Front(name) \in DOMAIN m.varArrayLens
    /\ Last(name) < m.varArrayLens[Front(name)]

(* Faulty: the elements of arrays are forgotten. *)
ExplicitNameConflictsTaken(m, name) == NameTaken(m, name)

ExplicitNameConflicts(m, name) == NameTaken(m, name) \/ ImplicitVarElement(m, name)

ProspectiveArrayConflicts(m, base, len) ==
    ElementsOf(base, len) \cap m.explicitIndices # {}

\* index_explicit_name
Indexed(m, names) == m.explicitIndices \cup {name \in names : Generated(name)}

ArrayRefused(m, base, len) ==
    ExplicitNameConflicts(m, base) \/ ProspectiveArrayConflicts(m, base, len)

-----------------------------------------------------------------------------
(* The operations: what the model becomes, itself when the call raises an error. *)

NewVar(m, name) ==
    IF ExplicitNameConflicts(m, name) THEN m
    ELSE [m EXCEPT !.varNames = With(@, name, m.made),
                   !.explicitIndices = Indexed(m, {name}),
                   !.made = @ + 1, !.given = @ \cup {<<name, m.made>>}]

NewParam(m, name) ==
    IF ExplicitNameConflicts(m, name) THEN m
    ELSE [m EXCEPT !.paramNames = With(@, name, m.made),
                   !.values = With(@, m.made, 0),
                   !.explicitIndices = Indexed(m, {name}),
                   !.made = @ + 1, !.given = @ \cup {<<name, m.made>>}]

\* The array itself is numbered before its elements.
Given(m, base, len) ==
    m.given \cup {<<base, m.made>>} \cup {<<Element(base, i), m.made + 1 + i>> : i \in 0..(len - 1)}

NewVars(m, base, len) ==
    IF ArrayRefused(m, base, len) THEN m
    ELSE [m EXCEPT !.arrayNames = @ \cup {base},
                   !.explicitIndices = Indexed(m, {base}),
                   !.varArrayLens = With(@, base, len),
                   !.made = @ + len + 1, !.given = Given(m, base, len)]

NewParams(m, base, len) ==
    IF ArrayRefused(m, base, len) THEN m
    ELSE
    LET id == [e \in ElementsOf(base, len) |-> m.made + 1 + Last(e)] IN
    [m EXCEPT !.paramNames = [e \in DOMAIN @ \cup ElementsOf(base, len) |->
                                IF e \in ElementsOf(base, len) THEN id[e] ELSE @[e]],
              !.values = [p \in DOMAIN @ \cup Range(id) |-> IF p \in Range(id) THEN 0 ELSE @[p]],
              !.explicitIndices = Indexed(m, ElementsOf(base, len) \cup {base}),
              !.arrayNames = @ \cup {base},
              !.paramArrays = With(@, base, Range(id)),
              !.made = @ + len + 1, !.given = Given(m, base, len)]

\* add_any: a named constraint.
AddConstraint(m, name) ==
    IF name \in DOMAIN m.conNames \/ NameTaken(m, name) \/ ImplicitVarElement(m, name) THEN m
    ELSE [m EXCEPT !.conNames = With(@, name, m.made),
                   !.made = @ + 1, !.conGiven = @ \cup {<<name, m.made>>}]

Constraints(m, base, len) ==
    LET id == [e \in ElementsOf(base, len) |-> m.made + Last(e)] IN
    [m EXCEPT !.conNames = [e \in DOMAIN @ \cup ElementsOf(base, len) |->
                              IF e \in ElementsOf(base, len) THEN id[e] ELSE @[e]],
              !.arrayNames = @ \cup {base},
              !.explicitIndices = Indexed(m, {base}),
              !.made = @ + len,
              !.conGiven = @ \cup {<<e, id[e]>> : e \in ElementsOf(base, len)}]

ConstraintNamesTaken(m, base, len) ==
    \E name \in {base} \cup ElementsOf(base, len) :
        name \in DOMAIN m.conNames \/ NameTaken(m, name)

\* add_array: the elements, not the base, are looked up among the implicit names.
AddArray(m, base, len) ==
    IF ConstraintNamesTaken(m, base, len) \/ (\E e \in ElementsOf(base, len) : ImplicitVarElement(m, e))
    THEN m ELSE Constraints(m, base, len)

\* add_linear_rows: nothing is.
AddLinearRows(m, base, len) ==
    IF ConstraintNamesTaken(m, base, len) THEN m ELSE Constraints(m, base, len)

\* The parameters an update names; none when it is refused.
Updated(m, name) ==
    IF name \in DOMAIN m.paramArrays THEN m.paramArrays[name]
    ELSE IF name \in DOMAIN m.varNames \cup m.arrayNames \/ ImplicitVarElement(m, name) THEN {}
    ELSE IF name \in DOMAIN m.paramNames THEN {m.paramNames[name]} ELSE {}

Install(m, params, v) ==
    [m EXCEPT !.values = [p \in DOMAIN @ |-> IF p \in params THEN v ELSE @[p]]]
=============================================================================
