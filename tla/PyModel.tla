------------------------------- MODULE PyModel -------------------------------
(***************************************************************************)
(* A program of the Python bindings: it combines variables, parameters,    *)
(* numbers and arrays into a value, uses the value as objective and in     *)
(* constraints, and updates parameters (roml-python/src/model.rs).  What   *)
(* the operators build is in PyExpressions and PyArrays; what was meant is *)
(* kept beside it, exact, per valuation of the parameters: a coefficient   *)
(* for every variable and one for the constant.                            *)
(***************************************************************************)
EXTENDS PyArrays

CONSTANTS
    Vars,       \* variables
    Params,     \* parameters
    Values,     \* what parameters may be worth
    Initially,  \* what they are worth at first
    Start,      \* what a program begins with, and
    Operands,   \* what it combines that with: arrays and scalars
    MaxSteps    \* so many operations are applied before the value is used

VARIABLES
    value,      \* the value at hand
    means,      \* what it means: a meaning, or one for each element
    steps,      \* operations applied to it
    values,     \* the committed parameter values
    objective,  \* the active objective, Absent before the first
    rows,       \* the constraints
    templates   \* obj_coeffs and con_coeffs: what an update must keep finite

Absent == [is |-> "none"]
One == 0
Keys == Vars \cup {One}
Valuations == [Params -> Values]

-----------------------------------------------------------------------------
(* Meanings.                                                                     *)

Mean(at(_, _)) == [val \in Valuations |-> [k \in Keys |-> at(val, k)]]
Only(key, n) == Mean(LAMBDA val, k : IF k = key THEN n ELSE 0)

Sum2(a, b) == Mean(LAMBDA val, k : a[val][k] + b[val][k])
Opposite(a) == Mean(LAMBDA val, k : - a[val][k])
Difference(a, b) == Sum2(a, Opposite(b))
NoVars(a, val) == \A v \in Vars : a[val][v] = 0
Product2(a, b) ==
    Mean(LAMBDA val, k : IF NoVars(a, val) THEN a[val][One] * b[val][k]
                         ELSE b[val][One] * a[val][k])
Total(parts) == FoldLeft(Sum2, Only(One, 0), parts)

MeaningOf(v) ==
    CASE v.kind = "vars" -> [i \in DOMAIN v.vars |-> Only(v.vars[i], 1)]
      [] v.kind = "params" ->
            [i \in DOMAIN v.params |->
                Mean(LAMBDA val, k : IF k = One THEN val[v.params[i]] ELSE 0)]
      [] v.kind = "numbers" -> [i \in DOMAIN v.ns |-> Only(One, v.ns[i])]
      [] v.kind = "scalar" /\ v.leaf = "var" -> Only(v.node.var, 1)
      [] v.kind = "scalar" /\ v.leaf = "param" ->
            Mean(LAMBDA val, k : IF k = One THEN val[v.node.constant.param] ELSE 0)
      [] v.kind = "scalar" /\ v.leaf = "number" -> Only(One, NumberOf(v))

\* Applied to two values of which one or both may be arrays, element by element.
Pairwise(op(_, _), a, ma, b, mb) ==
    IF ~ IsArray(a) /\ ~ IsArray(b) THEN op(ma, mb)
    ELSE [i \in 1..(IF IsArray(a) THEN Length(a) ELSE Length(b)) |->
            op(IF IsArray(a) THEN ma[i] ELSE ma, IF IsArray(b) THEN mb[i] ELSE mb)]

Elementwise(op(_), a, ma) == IF IsArray(a) THEN [i \in DOMAIN ma |-> op(ma[i])] ELSE op(ma)

-----------------------------------------------------------------------------
(* Dispatch: the operator of the first operand that is an array of the bindings, *)
(* numbers being no such array.                                                  *)

Ours(v) == IsArray(v) /\ v.kind # "numbers"
Supported(a, b) == (IsArray(a) \/ IsArray(b)) => (Ours(a) \/ Ours(b))

Added(a, b) ==
    IF Ours(a) THEN ArrayAddSub(a, b, 1)
    ELSE IF Ours(b) THEN ArrayAddSub(b, a, 1) ELSE ScalarAdd(a, b)

Subtracted(a, b) ==
    IF Ours(a) THEN ArrayAddSub(a, b, -1)
    ELSE IF Ours(b) THEN ArrayRsub(b, a) ELSE ScalarSub(a, b)

Multiply(a, b) ==
    IF Ours(a) THEN ArrayMul(a, b)
    ELSE IF Ours(b) THEN ArrayMul(b, a) ELSE ScalarMul(a, b)

Flipped(sense) == CASE sense = "le" -> "ge" [] sense = "ge" -> "le" [] sense = "eq" -> "eq"

\* A parameter and a number have no comparison of their own: they are compared by the
\* other operand, and two of them not at all.
Compares(v) == v.leaf \notin {"param", "number"}

Compared(a, b, sense) ==
    CASE Ours(a) -> ArrayCompare(a, b, sense)
      [] ~ Ours(a) /\ Ours(b) -> ArrayCompare(b, a, Flipped(sense))
      [] ~ Ours(a) /\ ~ Ours(b) ->
            IF Compares(a) THEN Compare(a, b, sense)
            ELSE IF Compares(b) THEN Compare(b, a, Flipped(sense)) ELSE Refused

-----------------------------------------------------------------------------
(* Building a value.                                                             *)

Take(result, meaning) ==
    /\ steps < MaxSteps
    /\ objective = Absent /\ rows = <<>>
    /\ result # Refused
    /\ value' = result
    /\ means' = meaning
    /\ steps' = steps + 1
    /\ UNCHANGED <<values, objective, rows, templates>>

Plain(o) == Supported(value, o)

Add(o) == Plain(o) /\ Take(Added(value, o), Pairwise(Sum2, value, means, o, MeaningOf(o)))
Subtract(o) ==
    Plain(o) /\ Take(Subtracted(value, o), Pairwise(Difference, value, means, o, MeaningOf(o)))
SubtractFrom(o) ==
    Plain(o) /\ Take(Subtracted(o, value), Pairwise(Difference, o, MeaningOf(o), value, means))
MultiplyBy(o) ==
    Plain(o) /\ Take(Multiply(value, o), Pairwise(Product2, value, means, o, MeaningOf(o)))
MultiplyInto(o) ==
    Plain(o) /\ Take(Multiply(o, value), Pairwise(Product2, o, MeaningOf(o), value, means))

Negate ==
    /\ value.kind # "numbers"
    /\ Take(IF IsArray(value) THEN ArrayNeg(value) ELSE ScalarNeg(value),
            Elementwise(Opposite, value, means))

\* Division by -1, the one number whose reciprocal is whole but not 1.
Divide ==
    /\ value.kind # "numbers"
    /\ Take(IF IsArray(value) THEN ArrayDiv(value, -1) ELSE ScalarDiv(value, -1),
            Elementwise(Opposite, value, means))

SumUp ==
    /\ IsArray(value)
    /\ Take(ArraySum(value), Total(means))

DotWith(o) ==
    /\ IsArray(value)
    /\ Take(Dot(o, value), Total(Pairwise(Product2, o, MeaningOf(o), value, means)))

Index(i) ==
    /\ IsArray(value)
    /\ i <= Length(value)
    /\ Take(ElementAt(value, i), means[i])

-----------------------------------------------------------------------------
(* Objectives.                                                                   *)

At(e) == Eval(e, values)

\* A coefficient: the store adds up the terms on one variable.
Coefficient(terms, v, vals) ==
    LET of == Of(terms, v) IN FoldPlus([i \in DOMAIN of |-> Eval(of[i].coeff, vals)])

Numeric(terms) == [i \in DOMAIN terms |-> Term(terms[i].var, Constant(terms[i].coeff))]

\* record_templates.
RecordTemplates(terms) ==
    {e \in {Simplify(terms[i].coeff) : i \in DOMAIN terms} : Dependencies(e) # {}}

SetObjective(terms, constant, recorded) ==
    /\ objective' = [is |-> "objective", terms |-> terms, constant |-> constant,
                     means |-> means]
    /\ templates' = templates \cup RecordTemplates(recorded)
    /\ UNCHANGED <<value, means, steps, values, rows>>

\* set_objective_numeric_bulk, and in the core set_linear_objective_bulk: repeated
\* variables are added up.
NumericObjective(terms, constant) ==
    /\ Finite(constant)
    /\ \A i \in DOMAIN terms : Finite(terms[i].coeff.value)
    /\ \A v \in VarsOf(terms) : Finite(Coefficient(terms, v, values))
    /\ SetObjective(terms, constant, <<>>)

\* set_linear_objective_param_bulk: multiples of one parameter become one multiple,
\* other terms on a variable a sum; the products are not looked at.
PackedTerms(cells) ==
    LET vs == ByVar(VarsOf(cells)) IN
    [i \in DOMAIN vs |->
        LET of == Of(cells, vs[i])
            scales == [j \in DOMAIN of |-> of[j].scale]
        IN
        Term(vs[i],
             IF \A j \in DOMAIN of : of[j].param = of[1].param
             THEN Product(Constant(FoldPlus(scales)), Parameter(of[1].param))
             ELSE FoldLeft(LAMBDA acc, c : Plus(acc, ScaledParam(c.scale, c.param)),
                           Constant(0), of))]

\* set_objective_param_bulk
ParametricObjective(cells, constant) ==
    LET simple == Simplify(constant) IN
    /\ Dependencies(simple) = {}
    /\ Finite(Folded(simple))
    /\ \A i \in DOMAIN cells : Finite(cells[i].scale)
    /\ SetObjective(PackedTerms(cells), Folded(simple),
                    [i \in DOMAIN cells |->
                        Term(cells[i].var, ScaledParam(cells[i].scale, cells[i].param))])

\* set_objective_general
GeneralObjective(affine) ==
    LET simple == Simplify(affine.constant)
        terms == [i \in DOMAIN affine.terms |->
                    Term(affine.terms[i].var, Simplify(affine.terms[i].coeff))]
    IN
    /\ Dependencies(simple) = {}
    /\ \A i \in DOMAIN terms : Finite(At(terms[i].coeff))
    /\ Finite(Folded(simple))
    /\ SetObjective(terms, Folded(simple), terms)

LoweredObjective(lowered) ==
    CASE lowered.form = "numeric" -> NumericObjective(Numeric(lowered.terms), lowered.constant)
      [] lowered.form = "parametric" -> ParametricObjective(lowered.cells, lowered.constant)
      [] lowered.form = "general" -> GeneralObjective(lowered.affine)

Minimize ==
    /\ objective = Absent
    /\ value.kind = "scalar"
    /\ LET node == value.node IN
       CASE node.is = "packed" -> NumericObjective(ArrayTerms(node.array), node.array.constant)
         [] node.is = "symbols" -> ParametricObjective(node.cells, node.constant)
         [] OTHER -> LoweredObjective(Classify(node))

-----------------------------------------------------------------------------
(* Constraints.  A row keeps its bound as a number and, when parameters occur in *)
(* it, the expression it came from.                                              *)

Row(terms, sense, bound, sym, meaning) ==
    [terms |-> terms, sense |-> sense, bound |-> bound, sym |-> sym, means |-> meaning]

\* lower_affine, nothing when it fails.
LowerAffine(c, meaning) ==
    LET shifted == Minus(Constant(c.bound), c.affine.constant)
        terms == [i \in DOMAIN c.affine.terms |->
                    Term(c.affine.terms[i].var, Simplify(c.affine.terms[i].coeff))]
    IN
    IF Finite(At(shifted)) /\ \A i \in DOMAIN terms : Finite(At(terms[i].coeff))
    THEN {Row(terms, c.sense, At(shifted),
              IF Dependencies(shifted) = {} THEN Absent ELSE Simplify(shifted), meaning)}
    ELSE {}

\* add_linear_rows_bulk checks every coefficient, and every sum of repeated ones.
BulkRow(terms, sense, bound, meaning) ==
    IF /\ Finite(bound)
       /\ \A i \in DOMAIN terms : Finite(terms[i].coeff.value)
       /\ \A v \in VarsOf(terms) : Finite(Coefficient(terms, v, values))
    THEN {Row(terms, sense, bound, Absent, meaning)}
    ELSE {}

\* A comparison that is no array: insert_bulk_row, insert_affine_comparison.
RowOf(c, meaning) ==
    IF c.bulk THEN BulkRow(Numeric(c.terms), c.sense, c.bound, meaning)
    ELSE LowerAffine(c, meaning)

\* An element of an array of comparisons: insert_packed_comparison,
\* insert_affine_comparison.
ElementRow(array, i, meaning) ==
    IF array.packed THEN
        BulkRow(Unpack(array.array)[i].terms, array.sense,
                FPlus(array.bound, FTimes(-1, array.array.constant)), meaning)
    ELSE LowerAffine(ComparisonAt(array, i), meaning)

\* add_any, add_array: every row is lowered before the first is inserted.
Insert(lowered) ==
    /\ \A i \in DOMAIN lowered : lowered[i] # {}
    /\ rows' = [i \in DOMAIN lowered |-> CHOOSE r \in lowered[i] : TRUE]
    /\ templates' = templates \cup UNION {RecordTemplates(rows'[i].terms) : i \in DOMAIN rows'}
    /\ UNCHANGED <<value, means, steps, values, objective>>

\* The meaning of `value sense o`: what must not exceed, or equal, zero.
Under(o, sense) ==
    IF sense = "ge" THEN Pairwise(Difference, o, MeaningOf(o), value, means)
    ELSE Pairwise(Difference, value, means, o, MeaningOf(o))

InsertComparison(compared, under) ==
    /\ compared # Refused
    /\ Insert(IF compared.kind = "comparison" THEN <<RowOf(compared, under)>>
              ELSE [i \in DOMAIN under |-> ElementRow(compared, i, under[i])])

Constrain(o, sense) ==
    /\ rows = <<>>
    /\ Plain(o)
    /\ InsertComparison(Compared(value, o, sense), Under(o, sense))

InsertElement(compared, i, meaning) ==
    /\ compared # Refused
    /\ Insert(<<RowOf(ComparisonAt(compared, i), meaning)>>)

\* One element of a comparison array, taken out and added.
ConstrainOne(o, sense, i) ==
    /\ rows = <<>>
    /\ Plain(o)
    /\ IsArray(value)
    /\ i <= Length(value)
    /\ InsertElement(Compared(value, o, sense), i, Under(o, sense)[i])

-----------------------------------------------------------------------------
(* Updates: validated against the values proposed, installed and committed.      *)

Touches(e, batch) == e # Absent /\ Dependencies(e) \cap DOMAIN batch # {}

Update(batch) ==
    LET proposed == [p \in Params |-> IF p \in DOMAIN batch THEN batch[p] ELSE values[p]]
        bound(r) == IF Touches(r.sym, batch) THEN Eval(r.sym, proposed) ELSE r.bound
    IN
    /\ objective # Absent \/ rows # <<>>
    /\ \A i \in DOMAIN rows : Finite(bound(rows[i]))
    /\ \A e \in templates :
          e.is # "param" /\ Touches(e, batch) => Finite(Eval(e, proposed))
    /\ values' = proposed
    /\ rows' = [i \in DOMAIN rows |-> [rows[i] EXCEPT !.bound = bound(rows[i])]]
    /\ UNCHANGED <<value, means, steps, objective, templates>>

Begin(start) ==
    /\ value = start
    /\ means = MeaningOf(start)
    /\ steps = 0
    /\ values = [p \in Params |-> Initially]
    /\ objective = Absent
    /\ rows = <<>>
    /\ templates = {}

\* Building the value leaves the model alone.
Build ==
    \/ \E o \in Operands :
          Add(o) \/ Subtract(o) \/ SubtractFrom(o) \/ MultiplyBy(o) \/ MultiplyInto(o) \/ DotWith(o)
    \/ \E i \in 1..2 : Index(i)
    \/ Negate \/ Divide \/ SumUp

\* What edits the model.
Store ==
    \/ Minimize
    \/ \E o \in Operands, sense \in {"le", "ge", "eq"} :
          Constrain(o, sense) \/ \E i \in 1..2 : ConstrainOne(o, sense, i)
    \/ \E S \in SUBSET Params \ {{}} : \E batch \in [S -> Values] : Update(batch)

-----------------------------------------------------------------------------
(* Properties.                                                                   *)

\* A row in the direction of "at most".
Direction(r) == IF r.sense = "ge" THEN -1 ELSE 1

Agrees(n, exact) == Finite(n) => n = exact

RowSays(r, sign) ==
    /\ r.bound * Direction(r) = - sign * r.means[values][One]
    /\ \A v \in Vars :
          LET c == Coefficient(r.terms, v, values) IN
          Finite(c) => c * Direction(r) = sign * r.means[values][v]

\* Whatever forms a program's value went through, packed, lazy or general, the model
\* holds what was written: objective and rows have at the committed parameter values
\* exactly the coefficients, constants and bounds of the arithmetic meant, and a row
\* has no coefficient that is not finite unless several terms with parameters met on
\* one variable (expressions.rs, arrays.rs; model.rs set_objective_impl, add_any,
\* update).
WrittenIsStored ==
    /\ objective # Absent =>
          /\ objective.constant = objective.means[values][One]
          /\ \A v \in Vars :
                Agrees(Coefficient(objective.terms, v, values), objective.means[values][v])
    /\ \A i \in DOMAIN rows :
          /\ RowSays(rows[i], 1) \/ (rows[i].sense = "eq" /\ RowSays(rows[i], -1))
          /\ \A v \in Vars :
                Len(Of(rows[i].terms, v)) <= 1 => Finite(Coefficient(rows[i].terms, v, values))
=============================================================================
