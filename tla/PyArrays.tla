------------------------------- MODULE PyArrays -------------------------------
(* The arrays of the Python bindings (roml-python/src/arrays.rs): variables,     *)
(* parameters, numbers and expressions of one shape, their operators with the    *)
(* packed shortcuts, comparisons, `sum` and `dot`.                               *)
EXTENDS PyExpressions

VarArray(vars) == [kind |-> "vars", vars |-> vars]
ParamArray(params) == [kind |-> "params", params |-> params]
NumberArray(ns) == [kind |-> "numbers", ns |-> ns]
PackedArray(array) == [kind |-> "packed", array |-> array]
ExprArray(elems) == [kind |-> "exprs", elems |-> elems]

IsArray(v) == v.kind \in {"vars", "params", "numbers", "packed", "exprs"}
IsNumber(v) == v.kind = "scalar" /\ v.leaf = "number"
NumberOf(v) == v.node.constant.value

Length(v) ==
    CASE v.kind = "vars" -> Len(v.vars)
      [] v.kind = "params" -> Len(v.params)
      [] v.kind = "numbers" -> Len(v.ns)
      [] v.kind = "packed" -> Len(v.array.blocks[1].vars)
      [] v.kind = "exprs" -> Len(v.elems)

-----------------------------------------------------------------------------
(* Packed arrays: blocks of coefficients over variables and one constant, which  *)
(* every element has.                                                            *)

FromVars(vars) ==
    [blocks |-> <<[vars |-> vars, coeffs |-> [i \in DOMAIN vars |-> 1]]>>, constant |-> 0]

ScaleDense(array, factors) ==
    [blocks |-> [b \in DOMAIN array.blocks |->
                   [array.blocks[b] EXCEPT
                      !.coeffs = [i \in DOMAIN @ |-> FTimes(@[i], factors[i])]]],
     constant |-> array.constant]

ScaleAll(array, n) ==
    [ScaleDense(array, [i \in DOMAIN array.blocks[1].vars |-> n])
       EXCEPT !.constant = FTimes(@, n)]

AddConstant(array, n) == [array EXCEPT !.constant = FPlus(@, n)]

CombineArrays(a, b, sign) ==
    [blocks |-> a.blocks \o ScaleAll(b, sign).blocks,
     constant |-> FPlus(a.constant, FTimes(sign, b.constant))]

\* Element by element, as affine expressions; the terms of an element may repeat.
Unpack(array) ==
    [i \in DOMAIN array.blocks[1].vars |->
        Affine([b \in DOMAIN array.blocks |->
                  Term(array.blocks[b].vars[i], Constant(array.blocks[b].coeffs[i]))],
               Constant(array.constant))]

Packable(v) == v.kind \in {"vars", "packed"}
Pack(v) == IF v.kind = "vars" THEN FromVars(v.vars) ELSE v.array

-----------------------------------------------------------------------------
(* The general path: affine expressions, element by element.                     *)

ConstAffine(e) == Affine(<<>>, e)

\* Scalar::materialize: a reduction keeps its terms as they are, a tree is lowered.
Materialize(s) ==
    IF s.node.is = "packed" THEN Affine(ArrayTerms(s.node.array), Constant(s.node.array.constant))
    ELSE IF s.node.is = "symbols" THEN Affine(Leaf(s.node).terms, s.node.constant)
    ELSE FlattenLower(s.node)

\* normalize_operand and expand_pair: scalars are repeated.
Elements(v, n) ==
    CASE v.kind = "vars" -> Unpack(FromVars(v.vars))
      [] v.kind = "params" -> [i \in 1..n |-> ConstAffine(Parameter(v.params[i]))]
      [] v.kind = "numbers" -> [i \in 1..n |-> ConstAffine(Constant(v.ns[i]))]
      [] v.kind = "packed" -> Unpack(v.array)
      [] v.kind = "exprs" -> v.elems
      [] v.kind = "scalar" -> [i \in 1..n |-> Materialize(v)]

\* balanced_sum: pairs, then pairs of pairs.
RECURSIVE BalancedSum(_)
BalancedSum(exprs) ==
    IF exprs = <<>> THEN Constant(0)
    ELSE IF Len(exprs) = 1 THEN exprs[1]
    ELSE BalancedSum([i \in 1..((Len(exprs) + 1) \div 2) |->
            IF 2 * i <= Len(exprs) THEN Simplify(Plus(exprs[2 * i - 1], exprs[2 * i]))
            ELSE exprs[2 * i - 1]])

\* fold_affines: the sum of `parts`, each multiplied by its factor.
FoldAffines(parts, factors) ==
    Affine(Combine(FlattenSeq([i \in DOMAIN parts |->
                     [j \in DOMAIN parts[i].terms |->
                        Term(parts[i].terms[j].var,
                             Product(parts[i].terms[j].coeff, factors[i]))]])),
           BalancedSum([i \in DOMAIN parts |-> Product(parts[i].constant, factors[i])]))

Signed(a, b, sign) == FoldAffines(<<a, b>>, <<Constant(1), Constant(sign)>>)

\* The affine expression `a` times the value expression `e`.
ScaledAffine(a, e) ==
    Affine([i \in DOMAIN a.terms |->
              Term(a.terms[i].var, Simplify(Product(a.terms[i].coeff, e)))],
           Simplify(Product(a.constant, e)))

Nonlinear(a, b) == a.terms # <<>> /\ b.terms # <<>>
Multiplied(a, b) == IF a.terms = <<>> THEN ScaledAffine(b, a.constant)
                    ELSE ScaledAffine(a, b.constant)

-----------------------------------------------------------------------------
(* Operators with an array on the left, or on the right of a scalar.             *)

\* Two operands that are not both arrays of one shape are refused.
Broadcasts(a, b) == IsArray(b) => Length(a) = Length(b)

\* expand_pair: what stands on the left and on the right, element by element.
Pairs(ls, rs) == [i \in DOMAIN ls |-> [l |-> ls[i], r |-> rs[i]]]
Expanded(a, b) == Pairs(Elements(a, Length(a)), Elements(b, Length(a)))

SignedPairs(pairs, sign) == [i \in DOMAIN pairs |-> Signed(pairs[i].l, pairs[i].r, sign)]

ArrayAddSub(a, b, sign) ==
    IF ~ Broadcasts(a, b) THEN Refused
    ELSE IF Packable(a) /\ Packable(b) THEN PackedArray(CombineArrays(Pack(a), Pack(b), sign))
    ELSE IF Packable(a) /\ IsNumber(b) THEN
        PackedArray(AddConstant(Pack(a), FTimes(sign, NumberOf(b))))
    ELSE ExprArray(SignedPairs(Expanded(a, b), sign))

MultipliedPairs(pairs) ==
    IF \E i \in DOMAIN pairs : Nonlinear(pairs[i].l, pairs[i].r) THEN Refused
    ELSE ExprArray([i \in DOMAIN pairs |-> Multiplied(pairs[i].l, pairs[i].r)])

ArrayMul(a, b) ==
    IF ~ Broadcasts(a, b) THEN Refused
    ELSE IF Packable(a) /\ IsNumber(b) THEN PackedArray(ScaleAll(Pack(a), NumberOf(b)))
    ELSE IF Packable(a) /\ b.kind = "numbers" /\ Pack(a).constant = 0 THEN
        PackedArray(ScaleDense(Pack(a), b.ns))
    ELSE MultipliedPairs(Expanded(a, b))

Negated(elems) == [i \in DOMAIN elems |-> ScaledAffine(elems[i], Constant(-1))]

ArrayNeg(a) ==
    IF Packable(a) THEN PackedArray(ScaleAll(Pack(a), -1))
    ELSE ExprArray(Negated(Elements(a, Length(a))))

\* b - a for an array a that is not asked first.
ArrayRsub(a, b) ==
    IF ~ Broadcasts(a, b) THEN Refused
    ELSE IF Packable(a) /\ IsNumber(b) THEN
        PackedArray(AddConstant(ScaleAll(Pack(a), -1), NumberOf(b)))
    ELSE ExprArray(SignedPairs(Pairs(Elements(b, Length(a)), Negated(Elements(a, Length(a)))), 1))

Divided(elems, n) ==
    [i \in DOMAIN elems |->
        Affine([j \in DOMAIN elems[i].terms |->
                  Term(elems[i].terms[j].var, Product(elems[i].terms[j].coeff, Constant(1 \div n)))],
               Product(elems[i].constant, Constant(1 \div n)))]

ArrayDiv(a, n) ==
    IF n = 0 THEN Refused
    ELSE IF Packable(a) THEN PackedArray(ScaleAll(Pack(a), 1 \div n))
    ELSE ExprArray(Divided(Elements(a, Length(a)), n))

\* packed_compare: a number stays on the right; otherwise everything moves to the left.
ArrayCompare(a, b, sense) ==
    IF ~ Broadcasts(a, b) THEN Refused
    ELSE IF Packable(a) /\ IsNumber(b) THEN
        [kind |-> "comparisons", packed |-> TRUE, sense |-> sense,
         array |-> Pack(a), bound |-> NumberOf(b)]
    ELSE IF Packable(a) /\ Packable(b) THEN
        [kind |-> "comparisons", packed |-> TRUE, sense |-> sense,
         array |-> CombineArrays(Pack(a), Pack(b), -1), bound |-> 0]
    ELSE [kind |-> "comparisons", packed |-> FALSE, sense |-> sense, bound |-> 0,
          elems |-> SignedPairs(Expanded(a, b), -1)]

\* One element of a comparison array is a general comparison.
ComparisonAt(c, i) ==
    [kind |-> "comparison", bulk |-> FALSE, sense |-> c.sense, bound |-> c.bound,
     affine |-> IF c.packed THEN Unpack(c.array)[i] ELSE c.elems[i]]

FlatScalar(affine) == Lazy(FlatNode(affine), affine.terms # <<>>)

\* One element of an array.
ElementAt(v, i) ==
    CASE v.kind = "vars" -> VarScalar(v.vars[i])
      [] v.kind = "params" -> ParamScalar(v.params[i])
      [] v.kind = "numbers" -> NumberScalar(v.ns[i])
      [] OTHER -> FlatScalar(Elements(v, Length(v))[i])

-----------------------------------------------------------------------------
(* Reductions.                                                                   *)

PackedScalar(array) == Lazy(PackedNode(array), TRUE)

\* finish_scalar: nothing symbolic left is a Python number.
Finish(affine) ==
    IF affine.terms = <<>> /\ Dependencies(affine.constant) = {}
    THEN NumberScalar(Folded(affine.constant))
    ELSE FlatScalar(affine)

Summed(parts) == Finish(FoldAffines(parts, [i \in DOMAIN parts |-> Constant(1)]))

ArraySum(v) ==
    IF v.kind = "numbers" \/ IsNumber(v) THEN Refused
    ELSE IF v.kind = "vars" THEN PackedScalar(FromVars(v.vars))
    ELSE Summed(Elements(v, IF IsArray(v) THEN Length(v) ELSE 1))

\* The right constant, once for each coefficient.
DotConstant(constant, left) ==
    IF constant = 0 THEN Constant(0)
    ELSE BalancedSum([i \in DOMAIN left |-> Product(Constant(constant), left[i])])

\* dot_structural, by what the coefficients are.
DotNumbers(left, right) ==
    PackedScalar([ScaleDense(right, [i \in DOMAIN left |-> Folded(left[i])])
                    EXCEPT !.constant = Folded(DotConstant(right.constant, left))])

DotCell(var, coeff, s) ==
    [var |-> var, param |-> IF s.is = "symbol" THEN s.param ELSE 0,
     scale |-> IF s.is = "symbol" THEN FTimes(coeff, s.scale) ELSE NonFinite]

DotCells(left, right) ==
    FlattenSeq([b \in DOMAIN right.blocks |->
        [i \in DOMAIN left |->
            DotCell(right.blocks[b].vars[i], right.blocks[b].coeffs[i], Bucket(left[i]))]])

\* Multiples of parameters stay packed unless a factor is zero or overflows.
DotPacks(cells) == \A i \in DOMAIN cells : cells[i].scale \notin {0, NonFinite}

DotLeft(left, right, cells) ==
    IF \A i \in DOMAIN left : Dependencies(left[i]) = {} THEN DotNumbers(left, right)
    ELSE IF DotPacks(cells) THEN
        Lazy(SymbolsNode(cells, DotConstant(right.constant, left)), TRUE)
    ELSE Lazy(FlatNode(Affine(
            FlattenSeq([b \in DOMAIN right.blocks |->
                [i \in DOMAIN left |->
                    Term(right.blocks[b].vars[i],
                         Simplify(Product(Constant(right.blocks[b].coeffs[i]), left[i])))]]),
            DotConstant(right.constant, left))), TRUE)

DotPacked(left, right) == DotLeft(left, right, DotCells(left, right))

DotWithCoeffs(coeffs, v) ==
    LET left == [i \in 1..Length(v) |-> coeffs[i].constant] IN
    IF \E i \in 1..Length(v) : coeffs[i].terms # <<>> THEN Refused
    ELSE IF Packable(v) THEN DotPacked(left, Pack(v))
    ELSE Finish(FoldAffines(v.elems, left))

Dot(c, v) ==
    IF v.kind \notin {"vars", "packed", "exprs"} \/ (IsArray(c) /\ Length(c) # Length(v))
    THEN Refused
    ELSE DotWithCoeffs(Elements(c, Length(v)), v)
=============================================================================
