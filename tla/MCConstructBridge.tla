--------------------------- MODULE MCConstructBridge --------------------------
EXTENDS ConstructBridge

MCOne == 2
MCInf == 100
MCReach == 4

var(type, lo, hi) == Variable(type, lo, hi)
\* x is general and half-integral, w too but unbounded below, y is an
\* integer, a and b are binary.
MCStart == ("x" :> var("Continuous", -2, 2)) @@ ("y" :> var("Integer", 0, 2))
        @@ ("w" :> var("Continuous", -MCInf, 2)) @@ ("a" :> var("Binary", 0, 2)) @@ ("b" :> var("Binary", 0, 2))

t(v, k, p) == [var |-> v, k |-> k, p |-> p]
e(ts, const) == [terms |-> ts, const |-> const]
n(k) == [k |-> k, p |-> 0]
theta1 == [k |-> 0, p |-> 1]
le(c) == [op |-> "le", hi |-> c]
ge(c) == [op |-> "ge", lo |-> c]
within(c, d) == [op |-> "in", lo |-> c, hi |-> d]
X == e(<<t("x", 2, 0)>>, 0)
Y == e(<<t("y", 2, 0)>>, 0)
XY == e(<<t("x", 2, 0), t("y", -2, 0)>>, 2)
XA == e(<<t("x", -4, 0), t("a", 2, 0)>>, 0)
TX == e(<<t("x", 0, 2)>>, 0)

ind(when, expr, set) ==
    [family |-> "Indicator", prefers |-> "Auto", activator |-> "a", when |-> when, expr |-> expr, set |-> set]
reif(expr, set, sep) ==
    [family |-> "Reification", prefers |-> "Auto", expr |-> expr, set |-> set,
     separation |-> sep, proven |-> FALSE]
bool(op, over) == [family |-> "Boolean", prefers |-> "Auto", op |-> op, over |-> over]
card(op, over, k) == [family |-> "Cardinality", prefers |-> "Auto", op |-> op, over |-> over, k |-> k]
mm(sense, relation, ops) ==
    [family |-> "MinMax", prefers |-> "Portable", sense |-> sense, relation |-> relation, operands |-> ops]
abs(variant, expr) ==
    [family |-> "AbsoluteValue", prefers |-> "Auto", variant |-> variant, expr |-> expr, lo |-> -1, hi |-> 1]
prod(expr) == [family |-> "BinaryProduct", prefers |-> "Auto", op |-> "linear", left |-> "a", expr |-> expr]
pwl(relation, extra, vs) ==
    [family |-> "PiecewiseLinear", prefers |-> "Auto", relation |-> relation, extrapolation |-> extra,
     expr |-> X, points |-> [i \in DOMAIN vs |-> [x |-> 2 * (i - 2), v |-> vs[i]]]]

MCPayloads ==
    {ind("one", XY, le(n(2))), ind("zero", XA, ge(theta1)), ind("one", X, within(n(-1), n(1))),
     reif(Y, le(theta1), {}), reif(Y, ge(n(2)), {}), reif(XY, le(n(2)), {1}), reif(X, ge(theta1), {2}),
     bool("implication", <<"a", "b">>), bool("equivalence", <<"a", "b">>),
     bool("any", <<"a", "b">>), bool("all", <<"a", "b">>),
     card("atmost", <<"a", "b">>, 1), card("exactly", <<"a", "b">>, 1), card("atleast", <<"a", "b">>, 1),
     mm("max", "exact", <<X, Y>>), mm("min", "exact", <<X, XA>>), mm("max", "epigraph", <<X, Y>>),
     mm("min", "hypograph", <<X, e(<<>>, 2)>>),
     abs("absolute", X), abs("positive", X), abs("clamp", X), abs("absolute", e(<<t("w", 2, 0)>>, 0)),
     prod(XY), prod(TX),
     [family |-> "BinaryProduct", prefers |-> "Auto", op |-> "binary", left |-> "a", right |-> "b"],
     [bool("any", <<"a">>) EXCEPT !.prefers = "NativeRequired"],
     pwl("epigraph", "linear", <<n(4), n(0), [k |-> 0, p |-> 2]>>), pwl("hypograph", "linear", <<n(-2), n(0), n(0)>>),
     pwl("exact", "linear", <<n(2), n(0), n(2)>>), pwl("epigraph", "constant", <<n(0), n(0), n(2)>>)}

MCBoundsTo == {Span(-MCInf, 2), Span(0, 2), Span(1, 4)}
MCFixTo == {0, 1, 2}
MCTypeTo == {"Binary", "Continuous"}
MCThetaTo == {1, 2}
MCBridged == {"Indicator", "Reification", "Boolean", "Cardinality", "MinMax", "AbsoluteValue",
              "BinaryProduct", "PiecewiseLinear"}
=============================================================================
