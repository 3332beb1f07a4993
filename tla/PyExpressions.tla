----------------------------- MODULE PyExpressions -----------------------------
(* The expression algebra of the Python bindings                                *)
(* (roml-python/src/expressions.rs): what the operators on variables, parameters *)
(* and expressions build, and how a tree is lowered into the cheapest form the   *)
(* core accepts.  Numbers are integers; what leaves -Big..Big has overflowed, and *)
(* NonFinite stands for the infinities and for what they turn into.              *)
EXTENDS Integers, Sequences, FiniteSets, SequencesExt

CONSTANT Big   \* the largest finite magnitude

NonFinite == Big + 1

Float(n) == IF n \in -Big..Big THEN n ELSE NonFinite
FPlus(a, b) == IF NonFinite \in {a, b} THEN NonFinite ELSE Float(a + b)
FTimes(a, b) == IF NonFinite \in {a, b} THEN NonFinite ELSE Float(a * b)
Finite(n) == n # NonFinite

-----------------------------------------------------------------------------
(* Value expressions: trees over constants and parameters.                       *)

Constant(c) == [is |-> "constant", value |-> c]
Parameter(p) == [is |-> "param", param |-> p]
Plus(l, r) == [is |-> "add", left |-> l, right |-> r]
Minus(l, r) == [is |-> "sub", left |-> l, right |-> r]
Product(l, r) == [is |-> "mul", left |-> l, right |-> r]
ScaledParam(s, p) == IF s = 1 THEN Parameter(p) ELSE Product(Constant(s), Parameter(p))

IsConstant(e) == e.is = "constant"
IsConst(e, c) == e.is = "constant" /\ e.value = c

RECURSIVE Dependencies(_)
Dependencies(e) ==
    CASE e.is = "constant" -> {}
      [] e.is = "param" -> {e.param}
      [] OTHER -> Dependencies(e.left) \cup Dependencies(e.right)

RECURSIVE Eval(_, _)
Eval(e, values) ==
    CASE e.is = "constant" -> e.value
      [] e.is = "param" -> values[e.param]
      [] e.is = "add" -> FPlus(Eval(e.left, values), Eval(e.right, values))
      [] e.is = "sub" -> FPlus(Eval(e.left, values), FTimes(-1, Eval(e.right, values)))
      [] e.is = "mul" -> FTimes(Eval(e.left, values), Eval(e.right, values))

\* The value of an expression that depends on nothing.
Folded(e) == Eval(e, [p \in {} |-> 0])

SimplePlus(l, r) ==
    IF IsConstant(l) /\ IsConstant(r) THEN Constant(FPlus(l.value, r.value))
    ELSE IF IsConst(l, 0) THEN r
    ELSE IF IsConst(r, 0) THEN l
    ELSE Plus(l, r)

SimpleMinus(l, r) ==
    IF IsConstant(l) /\ IsConstant(r) THEN Constant(FPlus(l.value, FTimes(-1, r.value)))
    ELSE IF IsConst(r, 0) THEN l
    ELSE Minus(l, r)

SimpleProduct(l, r) ==
    IF IsConstant(l) /\ IsConstant(r) THEN Constant(FTimes(l.value, r.value))
    ELSE IF IsConst(l, 0) \/ IsConst(r, 0) THEN Constant(0)
    ELSE IF IsConst(l, 1) THEN r
    ELSE IF IsConst(r, 1) THEN l
    ELSE Product(l, r)

RECURSIVE Simplify(_)
Simplify(e) ==
    CASE e.is \in {"constant", "param"} -> e
      [] e.is = "add" -> SimplePlus(Simplify(e.left), Simplify(e.right))
      [] e.is = "sub" -> SimpleMinus(Simplify(e.left), Simplify(e.right))
      [] e.is = "mul" -> SimpleProduct(Simplify(e.left), Simplify(e.right))

-----------------------------------------------------------------------------
(* Buckets: a coefficient is a number, a multiple of one parameter, or general.  *)

Number(n) == [is |-> "number", n |-> n]
Symbol(p, s) == [is |-> "symbol", param |-> p, scale |-> s]
General(e) == [is |-> "general", expr |-> e]

AsExpr(b) ==
    CASE b.is = "number" -> Constant(b.n)
      [] b.is = "symbol" -> ScaledParam(b.scale, b.param)
      [] b.is = "general" -> b.expr

Scaled(b, n) ==
    IF b.is = "symbol" /\ FTimes(b.scale, n) \notin {0, NonFinite}
    THEN Symbol(b.param, FTimes(b.scale, n)) ELSE Number(0)

\* as_scaled_param: a multiple of one parameter, or Number(0) when it is none.
RECURSIVE AsScaledParam(_)
AsScaledParam(e) ==
    CASE e.is = "param" -> Symbol(e.param, 1)
      [] e.is = "mul" /\ IsConstant(e.left) -> Scaled(AsScaledParam(e.right), e.left.value)
      [] e.is = "mul" /\ IsConstant(e.right) -> Scaled(AsScaledParam(e.left), e.right.value)
      [] OTHER -> Number(0)

Bucket(e) ==
    IF Dependencies(e) = {} THEN Number(Folded(e))
    ELSE IF AsScaledParam(e).is = "symbol" THEN AsScaledParam(e) ELSE General(e)

(* Faulty: the product of two multiples of one parameter is taken for a multiple. *)
TimesSameParam(a, b) ==
    CASE a.is = "number" /\ b.is = "number" -> Number(FTimes(a.n, b.n))
      [] a.is = "symbol" /\ b.is = "number" -> Symbol(a.param, FTimes(a.scale, b.n))
      [] a.is = "number" /\ b.is = "symbol" -> Symbol(b.param, FTimes(a.n, b.scale))
      [] a.is = "symbol" /\ b.is = "symbol" /\ a.param = b.param ->
            Symbol(a.param, FTimes(a.scale, b.scale))
      [] OTHER -> General(Product(AsExpr(a), AsExpr(b)))

\* Factor: a numeric factor keeps a multiple a multiple, nothing else does.
Times(a, b) ==
    CASE a.is = "number" /\ b.is = "number" -> Number(FTimes(a.n, b.n))
      [] a.is = "symbol" /\ b.is = "number" -> Symbol(a.param, FTimes(a.scale, b.n))
      [] a.is = "number" /\ b.is = "symbol" -> Symbol(b.param, FTimes(a.n, b.scale))
      [] OTHER -> General(Product(AsExpr(a), AsExpr(b)))

-----------------------------------------------------------------------------
(* Lazy trees.  A packed leaf holds parallel vectors: `array` numbers over       *)
(* variables, with a constant; `symbols` multiples of parameters.                *)

Term(var, coeff) == [var |-> var, coeff |-> coeff]
Affine(terms, constant) == [terms |-> terms, constant |-> constant]

TermNode(var, coeff) == [is |-> "term", var |-> var, coeff |-> coeff]
ConstNode(c) == [is |-> "const", constant |-> c]
AddNode(l, r) == [is |-> "plus", left |-> l, right |-> r]
ScaleNode(f, child) == [is |-> "scale", factor |-> f, child |-> child]
FlatNode(affine) == [is |-> "flat", affine |-> affine]
PackedNode(array) == [is |-> "packed", array |-> array]
SymbolsNode(cells, constant) == [is |-> "symbols", cells |-> cells, constant |-> constant]

\* The terms of a packed array, block by block.
ArrayTerms(array) ==
    FlattenSeq([b \in DOMAIN array.blocks |->
              [i \in DOMAIN array.blocks[b].vars |->
                  Term(array.blocks[b].vars[i], Constant(array.blocks[b].coeffs[i]))]])

\* A leaf as terms and constant parts.
Leaf(node) ==
    CASE node.is = "term" -> [terms |-> <<Term(node.var, node.coeff)>>, consts |-> <<>>]
      [] node.is = "const" -> [terms |-> <<>>, consts |-> <<node.constant>>]
      [] node.is = "flat" -> [terms |-> node.affine.terms, consts |-> <<node.affine.constant>>]
      [] node.is = "packed" ->
            [terms |-> ArrayTerms(node.array),
             consts |-> IF node.array.constant = 0 THEN <<>>
                        ELSE <<Constant(node.array.constant)>>]
      [] node.is = "symbols" ->
            [terms |-> [i \in DOMAIN node.cells |->
                          Term(node.cells[i].var,
                               ScaledParam(node.cells[i].scale, node.cells[i].param))],
             consts |-> <<node.constant>>]

Joined(l, r) == [terms |-> l.terms \o r.terms, consts |-> l.consts \o r.consts]

Multiples(flat, factor) ==
    [terms |-> [i \in DOMAIN flat.terms |->
                  Term(flat.terms[i].var, Product(flat.terms[i].coeff, factor))],
     consts |-> [i \in DOMAIN flat.consts |-> Product(flat.consts[i], factor)]]

\* flatten: a factor multiplies every leaf below it, the innermost one first.
RECURSIVE Flatten(_)
Flatten(node) ==
    IF node.is = "plus" THEN Joined(Flatten(node.left), Flatten(node.right))
    ELSE IF node.is = "scale" THEN Multiples(Flatten(node.child), node.factor)
    ELSE Leaf(node)

Sum(exprs) == FoldLeft(LAMBDA acc, e : Simplify(Plus(acc, e)), Constant(0), exprs)

\* The terms on one variable, in the order they were met.
Of(terms, var) == SelectSeq(terms, LAMBDA t : t.var = var)
VarsOf(terms) == {terms[i].var : i \in DOMAIN terms}
ByVar(S) == SetToSortSeq(S, <)

CombinedCoeff(of) ==
    FoldLeft(LAMBDA acc, t : Simplify(Plus(acc, Simplify(t.coeff))),
             Simplify(of[1].coeff), Tail(of))

\* combine_terms: one term per variable.
Combine(terms) ==
    LET vars == ByVar(VarsOf(terms)) IN
    [i \in DOMAIN vars |-> Term(vars[i], CombinedCoeff(Of(terms, vars[i])))]

Merged(flat) == Affine(Combine(flat.terms), Sum(flat.consts))
FlattenLower(node) == Merged(Flatten(node))

ConstOnly(node) == Sum(Flatten(node).consts)

Whole(c) == IF Dependencies(c) = {} THEN Number(Folded(c)) ELSE General(c)

Emitted(leaf, factor) ==
    [terms |-> [i \in DOMAIN leaf.terms |->
                  Term(leaf.terms[i].var, Times(Bucket(leaf.terms[i].coeff), factor))],
     consts |-> [i \in DOMAIN leaf.consts |-> Times(Whole(leaf.consts[i]), factor)]]

\* classify_tree: one walk with the product of the factors above.
RECURSIVE Emissions(_, _)
Emissions(node, factor) ==
    IF node.is = "plus" THEN Joined(Emissions(node.left, factor), Emissions(node.right, factor))
    ELSE IF node.is = "scale" THEN Emissions(node.child, Times(factor, Bucket(node.factor)))
    ELSE Emitted(Leaf(node), factor)

FoldPlus(ns) == FoldLeft(FPlus, 0, ns)

SymbolicFirst(consts) ==
    [i \in DOMAIN consts |-> AsExpr((SelectSeq(consts, LAMBDA b : b.is # "number")
                                      \o SelectSeq(consts, LAMBDA b : b.is = "number"))[i])]

Finished(all, constant) ==
    LET kinds == {all.terms[i].coeff.is : i \in DOMAIN all.terms}
        vars == ByVar(VarsOf(all.terms))
        OnVar(v) == [j \in DOMAIN Of(all.terms, v) |-> Of(all.terms, v)[j].coeff.n]
    IN
    IF kinds = {"number"} /\ \A i \in DOMAIN all.consts : all.consts[i].is = "number" THEN
        [form |-> "numeric",
         terms |-> [i \in DOMAIN vars |-> [var |-> vars[i], coeff |-> FoldPlus(OnVar(vars[i]))]],
         constant |-> FoldPlus([i \in DOMAIN all.consts |-> all.consts[i].n])]
    ELSE IF kinds = {"symbol"} THEN
        [form |-> "parametric",
         cells |-> [i \in DOMAIN all.terms |->
                      [var |-> all.terms[i].var, param |-> all.terms[i].coeff.param,
                       scale |-> all.terms[i].coeff.scale]],
         constant |-> constant]
    ELSE
        [form |-> "general",
         affine |-> Affine(Combine([i \in DOMAIN all.terms |->
                                      Term(all.terms[i].var, AsExpr(all.terms[i].coeff))]),
                           constant)]

\* What a tree is lowered to: numeric rows and objectives, multiples of parameters,
\* or anything.
Lowered(all) == Finished(all, Sum(SymbolicFirst(all.consts)))
Classify(node) == Lowered(Emissions(node, Number(1)))

-----------------------------------------------------------------------------
(* Scalars: a tree and whether a variable occurs in it.  Variables, parameters   *)
(* and numbers are lifted to leaves; `leaf` remembers what they were.            *)

Scalar(leaf, node, hasVars) == [kind |-> "scalar", leaf |-> leaf, node |-> node, hasVars |-> hasVars]
Lazy(node, hasVars) == Scalar("expr", node, hasVars)

VarScalar(v) == Scalar("var", TermNode(v, Constant(1)), TRUE)
ParamScalar(p) == Scalar("param", ConstNode(Parameter(p)), FALSE)
NumberScalar(n) == Scalar("number", ConstNode(Constant(n)), FALSE)

Refused == [kind |-> "refused"]

ScalarNeg(a) == Lazy(ScaleNode(Constant(-1), a.node), a.hasVars)
ScalarAdd(a, b) == Lazy(AddNode(a.node, b.node), a.hasVars \/ b.hasVars)
ScalarSub(a, b) == ScalarAdd(a, ScalarNeg(b))

TermScalar(var, coeff) ==
    IF coeff = Constant(NonFinite) THEN Refused ELSE Lazy(TermNode(var, coeff), TRUE)

ScaledBy(base, other) ==
    IF base.hasVars /\ other.hasVars THEN Refused
    ELSE IF other.leaf = "number" THEN
        IF Finite(other.node.constant.value)
        THEN Lazy(ScaleNode(other.node.constant, base.node), base.hasVars) ELSE Refused
    ELSE IF other.leaf = "param" THEN Lazy(ScaleNode(other.node.constant, base.node), base.hasVars)
    ELSE IF other.leaf = "var" THEN TermScalar(other.node.var, ConstOnly(base.node))
    ELSE IF ~ base.hasVars THEN Lazy(ScaleNode(ConstOnly(base.node), other.node), other.hasVars)
    ELSE Lazy(ScaleNode(ConstOnly(other.node), base.node), TRUE)

\* The left operand decides, unless it is a number: then the right one is asked.
ScalarMul(a, b) == IF a.leaf = "number" THEN ScaledBy(b, a) ELSE ScaledBy(a, b)

\* Division by a number is scaling by its reciprocal.
ScalarDiv(a, n) ==
    IF n = 0 THEN Refused ELSE Lazy(ScaleNode(Constant(1 \div n), a.node), a.hasVars)

\* compare_operand: everything moves to the left of a zero; a numeric tree becomes a
\* finished row, whose constant moves into the bound.
AgainstZero(node, lowered, sense) ==
    IF lowered.form = "numeric" THEN
        IF Finite(lowered.constant)
        THEN [kind |-> "comparison", bulk |-> TRUE, sense |-> sense,
              terms |-> lowered.terms, bound |-> FTimes(-1, lowered.constant)]
        ELSE Refused
    ELSE [kind |-> "comparison", bulk |-> FALSE, sense |-> sense, bound |-> 0,
          affine |-> IF lowered.form = "general" THEN lowered.affine ELSE FlattenLower(node)]

ComparedTree(node, sense) == AgainstZero(node, Classify(node), sense)
Compare(a, b, sense) == ComparedTree(ScalarSub(a, b).node, sense)
=============================================================================
