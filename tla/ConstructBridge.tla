--------------------------- MODULE ConstructBridge ---------------------------
(***************************************************************************)
(* The semantic constructs of a model and the bridges that compile them    *)
(* into linear rows with derived Big-M values.  The builders of Model      *)
(* validate a construct once; the variables it mentions may be edited      *)
(* afterwards, and every compilation works on the domains of that moment.  *)
(* The compiled rows are a function of the current model (Compile), so     *)
(* every state of the model is also a compilation.                         *)
(*                                                                         *)
(* Numbers are fixed point: the integer n stands for n/One, so that One =  *)
(* 2 gives continuous variables half-integral values.  Inf stands for      *)
(* infinity; Reach is the largest absolute value a point is tried with.    *)
(***************************************************************************)
EXTENDS Integers, Sequences, SequencesExt

CONSTANTS
    One,        \* the representation of 1
    Inf,        \* the representation of infinity
    Reach,      \* points are tried in -Reach..Reach
    Start,      \* the variables of the model before any construct
    Payloads,   \* the constructs a user may ask for
    BoundsTo,   \* the bounds an edit may set
    FixTo,      \* the values an edit may fix a variable to
    TypeTo,     \* the types an edit may set
    ThetaTo,    \* the values of the one parameter
    Policy,     \* the compilation policy of the session
    Bridged,    \* the construct families the backend declares
    MaxEdits    \* bound on the number of edits

ASSUME FixedPoint == One \in Nat \ {0} /\ Inf > Reach /\ Reach \in Nat

VARIABLES
    domain,     \* variable -> its type, declared bounds, fixing and activity
    theta,      \* the value of the parameter
    construct,  \* the constructs of the model: at most one
    enabled,    \* whether the construct is active
    edits

vars == <<domain, theta, construct, enabled, edits>>

Larger(a, b) == IF a >= b THEN a ELSE b
Smaller(a, b) == IF a <= b THEN a ELSE b
Span(lo, hi) == [lo |-> lo, hi |-> hi]
Live == DOMAIN domain
WholeLine == Span(-Inf, Inf)
Unit == Span(0, One)

-----------------------------------------------------------------------------
(* Interval analysis                                                       *)

\* The bounds the solver applies: an inactive variable is [0, 0], a fixing
\* is intersected with the declared bounds.
Effective(v) ==
    LET d == domain[v] IN
    IF ~d.active THEN Span(0, 0)
    ELSE Span(Larger(d.bounds.lo, CHOOSE f \in d.fixing \cup {-Inf} : \A g \in d.fixing : f >= g),
              Smaller(d.bounds.hi, CHOOSE f \in d.fixing \cup {Inf} : \A g \in d.fixing : f <= g))

\* A coefficient or threshold is k + p * theta.
Value(c) == c.k + c.p * theta

Scaled(c, b) == IF b \in {Inf, -Inf} THEN (IF c > 0 THEN b ELSE -b) ELSE (c * b) \div One

\* What one term adds to the interval of an expression.
Contribution(c, b) ==
    CASE c = 0 -> Span(0, 0)
      [] c > 0 -> Span(Scaled(c, b.lo), Scaled(c, b.hi))
      [] c < 0 -> Span(Scaled(c, b.hi), Scaled(c, b.lo))

AddSpans(a, b) ==
    Span(IF -Inf \in {a.lo, b.lo} THEN -Inf ELSE a.lo + b.lo,
         IF Inf \in {a.hi, b.hi} THEN Inf ELSE a.hi + b.hi)

IntervalOf(e, bounds) ==
    FoldLeft(LAMBDA acc, t : AddSpans(acc, Contribution(Value(t), bounds[t.var])),
             Span(e.const, e.const), e.terms)

Interval(e) == IntervalOf(e, [v \in Live |-> Effective(v)])
DeclaredInterval(e) == IntervalOf(e, [v \in Live |-> domain[v].bounds])
Bounded(i) == i.lo # -Inf /\ i.hi # Inf

\* The derived Big-M of one side; Inf when no finite one exists.
BigM(side, e, rhs) ==
    LET i == Interval(e) IN
    CASE side = "upper" -> IF i.hi = Inf THEN Inf ELSE Larger(i.hi - rhs, 0)
      [] side = "lower" -> IF i.lo = -Inf THEN Inf ELSE Larger(rhs - i.lo, 0)

-----------------------------------------------------------------------------
(* Rows.  A row has terms over the user's variables (names) and over the   *)
(* generated ones (indices), and bounds.                                   *)

Row(user, aux, lo, hi) == [user |-> user, aux |-> aux, bounds |-> Span(lo, hi)]
Terms(e) == [i \in DOMAIN e.terms |-> <<e.terms[i].var, Value(e.terms[i])>>]
Negated(ts) == [i \in DOMAIN ts |-> <<ts[i][1], -ts[i][2]>>]
Times(s, ts) == [i \in DOMAIN ts |-> <<ts[i][1], (s * ts[i][2]) \div One>>]

\* combine_coefficients: a term is merged into the one its variable has.
Combined(ts, v, c) ==
    IF \E i \in DOMAIN ts : ts[i][1] = v
    THEN [i \in DOMAIN ts |-> IF ts[i][1] = v THEN <<v, ts[i][2] + c>> ELSE ts[i]]
    ELSE Append(ts, <<v, c>>)

Column(type, lo, hi) == [type |-> type, bounds |-> Span(lo, hi)]
Selector == Column("Binary", 0, One)

Compiled(aux, rows) == [ok |-> TRUE, aux |-> aux, rows |-> rows]
Rejected(why) == [ok |-> FALSE, why |-> why]

-----------------------------------------------------------------------------
(* The bridges                                                             *)

OneSided(set) ==
    CASE set.op = "le" -> {<<"upper", Value(set.hi)>>}
      [] set.op = "ge" -> {<<"lower", Value(set.lo)>>}
      [] set.op \in {"eq", "in"} -> {<<"upper", Value(set.hi)>>, <<"lower", Value(set.lo)>>}

(* Faulty: the row of a zero-activated indicator has the other sign.       *)
IndicatorRowUnsigned(c, side, rhs, m) ==
    LET sign == IF side = "upper" THEN 1 ELSE -1
        slack == IF c.when = "one" THEN m ELSE 0
        user == Combined(Terms(c.expr), c.activator, sign * m)
    IN  IF side = "upper" THEN Row(user, <<>>, -Inf, rhs + slack - c.expr.const)
                          ELSE Row(user, <<>>, rhs - slack - c.expr.const, Inf)

IndicatorRow(c, side, rhs, m) ==
    LET ts == Terms(c.expr)
        k == c.expr.const
        sign == IF (c.when = "one") = (side = "upper") THEN 1 ELSE -1
        slack == IF c.when = "one" THEN m ELSE 0
        user == Combined(ts, c.activator, sign * m)
    IN  IF side = "upper" THEN Row(user, <<>>, -Inf, rhs + slack - k)
                          ELSE Row(user, <<>>, rhs - slack - k, Inf)

Indicator(c) ==
    IF \E s \in OneSided(c.set) : BigM(s[1], c.expr, s[2]) = Inf
    THEN Rejected("UnboundedBigM")
    ELSE Compiled(<<>>, {IndicatorRow(c, s[1], s[2], BigM(s[1], c.expr, s[2])) : s \in OneSided(c.set)})

Integral(v) == v % One = 0

Reification(c) ==
    LET gap == IF c.separation = {} THEN One ELSE CHOOSE s \in c.separation : TRUE
        upward == c.set.op = "le"
        rhs == IF upward THEN Value(c.set.hi) ELSE Value(c.set.lo)
        other == IF upward THEN rhs + gap ELSE rhs - gap
        near == BigM(IF upward THEN "upper" ELSE "lower", c.expr, rhs)
        far == BigM(IF upward THEN "lower" ELSE "upper", c.expr, other)
        ts == Terms(c.expr)
        k == c.expr.const
    IN  IF c.separation = {} /\ c.proven /\ ~Integral(rhs)
        THEN Rejected("NonIntegralReificationThreshold")
        ELSE IF Inf \in {near, far} THEN Rejected("UnboundedBigM")
        ELSE Compiled(<<>>,
               IF upward
               THEN {Row(Combined(ts, "z", near), <<>>, -Inf, rhs + near - k),
                     Row(Combined(ts, "z", far), <<>>, other - k, Inf)}
               ELSE {Row(Combined(ts, "z", -near), <<>>, rhs - near - k, Inf),
                     Row(Combined(ts, "z", -far), <<>>, -Inf, other - k)})

Ones(vs) == [i \in DOMAIN vs |-> <<vs[i], One>>]
Implies(a, b) == Row(<<<<a, One>>, <<b, -One>>>>, <<>>, -Inf, 0)

Boolean(c) ==
    Compiled(<<>>,
      CASE c.op = "implication" -> {Implies(c.over[1], c.over[2])}
        [] c.op = "equivalence" -> {Implies(c.over[1], c.over[2]), Implies(c.over[2], c.over[1])}
        [] c.op = "any" -> {Row(Ones(c.over), <<>>, One, Inf)}
        [] c.op = "all" -> {Row(Ones(c.over), <<>>, Len(c.over) * One, Inf)})

CardinalityBridge(c) ==
    Compiled(<<>>, {Row(Ones(c.over), <<>>,
                        IF c.op = "atmost" THEN -Inf ELSE c.k * One,
                        IF c.op = "atleast" THEN Inf ELSE c.k * One)})

\* An operand of a selector: its terms, its constant and its interval.
Operand(e) == [user |-> Terms(e), aux |-> <<>>, const |-> e.const, in |-> Interval(e)]
ConstantOperand(k) == [user |-> <<>>, aux |-> <<>>, const |-> k, in |-> Span(k, k)]
Output == [user |-> <<<<"z", One>>>>, aux |-> <<>>]

Minus(out, op, extra, lo, hi) ==
    Row(out.user \o Negated(op.user), out.aux \o Negated(op.aux) \o extra, lo, hi)

\* exact_max_selector: out >= x_i, one binary per operand, one of them set,
\* out <= x_i + M_i * (1 - s_i).  Binaries are the generated columns from on.
MaxSelector(out, ops, top, from) ==
    {Minus(out, ops[i], <<>>, ops[i].const, Inf) : i \in DOMAIN ops}
    \cup {Row(<<>>, [i \in DOMAIN ops |-> <<from + i - 1, One>>], One, One)}
    \cup {LET m == top - ops[i].in.lo IN
          Minus(out, ops[i], <<<<from + i - 1, m>>>>, -Inf, m + ops[i].const) : i \in DOMAIN ops}

MinSelector(out, ops, bottom, from) ==
    {Minus(out, ops[i], <<>>, -Inf, ops[i].const) : i \in DOMAIN ops}
    \cup {Row(<<>>, [i \in DOMAIN ops |-> <<from + i - 1, One>>], One, One)}
    \cup {LET m == ops[i].in.hi - bottom IN
          Minus(out, ops[i], <<<<from + i - 1, -m>>>>, -m + ops[i].const, Inf) : i \in DOMAIN ops}

Highest(ops) == FoldLeft(LAMBDA acc, op : Larger(acc, op.in.hi), -Inf, ops)
Lowest(ops) == FoldLeft(LAMBDA acc, op : Smaller(acc, op.in.lo), Inf, ops)

MinMax(c) ==
    LET ops == [i \in DOMAIN c.operands |-> Operand(c.operands[i])]
        selectors == [i \in DOMAIN ops |-> Selector]
        Against(op) == Combined(op.user, "z", -One)
    IN  CASE c.relation = "epigraph" ->
               Compiled(<<>>, {Row(Against(ops[i]), <<>>, -Inf, -ops[i].const) : i \in DOMAIN ops})
          [] c.relation = "hypograph" ->
               Compiled(<<>>, {Row(Against(ops[i]), <<>>, -ops[i].const, Inf) : i \in DOMAIN ops})
          [] c.relation = "exact" ->
               IF \E i \in DOMAIN ops : ~Bounded(ops[i].in) THEN Rejected("UnboundedBigM")
               ELSE IF c.sense = "max" THEN Compiled(selectors, MaxSelector(Output, ops, Highest(ops), 1))
                                       ELSE Compiled(selectors, MinSelector(Output, ops, Lowest(ops), 1))

\* z = p + n, p - n = x, p <= M_p * s, n <= M_n * (1 - s): columns p, n, s.
AbsoluteRows(e, mp, mn) ==
    {Row(<<<<"z", One>>>>, <<<<1, -One>>, <<2, -One>>>>, 0, 0),
     Row(Negated(Terms(e)), <<<<1, One>>, <<2, -One>>>>, e.const, e.const),
     Row(<<>>, <<<<1, One>>, <<3, -mp>>>>, -Inf, 0),
     Row(<<>>, <<<<2, One>>, <<3, mn>>>>, -Inf, mn)}

\* z - n = x, z <= M_p * s, n <= M_n * (1 - s): columns n, s.
PositivePartRows(e, mp, mn) ==
    {Row(<<<<"z", One>>>> \o Negated(Terms(e)), <<<<1, -One>>>>, e.const, e.const),
     Row(<<<<"z", One>>>>, <<<<2, -mp>>>>, -Inf, 0),
     Row(<<>>, <<<<1, One>>, <<2, mn>>>>, -Inf, mn)}

\* w = max(x, lo), z = min(w, hi): columns w, two inner and two outer binaries.
Clamp(c, i) ==
    LET w == Span(Larger(i.lo, c.lo), Larger(i.hi, c.lo))
        inner == [user |-> <<>>, aux |-> <<<<1, One>>>>]
        outer == [user |-> <<>>, aux |-> <<<<1, One>>>>, const |-> 0, in |-> w]
    IN  Compiled(<<Column("Continuous", w.lo, w.hi), Selector, Selector, Selector, Selector>>,
                 MaxSelector(inner, <<Operand(c.expr), ConstantOperand(c.lo)>>, w.hi, 2)
                 \cup MinSelector(Output, <<outer, ConstantOperand(c.hi)>>, Smaller(w.lo, c.hi), 4))

AbsoluteValue(c) ==
    LET i == Interval(c.expr)
        mp == Larger(i.hi, 0)
        mn == Larger(-i.lo, 0)
        p == Column("Continuous", 0, mp)
        n == Column("Continuous", 0, mn)
    IN  IF ~Bounded(i) THEN Rejected("UnboundedBigM")
        ELSE CASE c.variant = "absolute" -> Compiled(<<p, n, Selector>>, AbsoluteRows(c.expr, mp, mn))
               [] c.variant = "positive" -> Compiled(<<n, Selector>>, PositivePartRows(c.expr, mp, mn))
               [] c.variant = "clamp" -> Clamp(c, i)

BinaryProduct(c) ==
    LET z == <<<<"z", One>>>> IN
    IF c.op = "binary"
    THEN Compiled(<<>>, {Row(z \o <<<<c.left, -One>>>>, <<>>, -Inf, 0),
                         Row(z \o <<<<c.right, -One>>>>, <<>>, -Inf, 0),
                         Row(z \o <<<<c.left, -One>>, <<c.right, -One>>>>, <<>>, -One, Inf)})
    ELSE LET i == Interval(c.expr)
             k == c.expr.const
             f == Negated(Terms(c.expr))
         IN  IF ~Bounded(i) THEN Rejected("UnboundedBigM")
             ELSE Compiled(<<>>, {Row(z \o <<<<c.left, -i.lo>>>>, <<>>, 0, Inf),
                                  Row(z \o <<<<c.left, -i.hi>>>>, <<>>, -Inf, 0),
                                  Row(z \o <<<<c.left, -i.hi>>>> \o f, <<>>, -i.hi + k, Inf),
                                  Row(z \o <<<<c.left, -i.lo>>>> \o f, <<>>, -Inf, -i.lo + k)})

\* Piecewise-linear functions: breakpoints x, values v; the slopes of the
\* points used are whole.
Slope(c, i) == ((Value(c.points[i + 1].v) - Value(c.points[i].v)) * One)
               \div (c.points[i + 1].x - c.points[i].x)
Segments(c) == 1 .. (Len(c.points) - 1)

Curvature(c) ==
    LET pairs == 1 .. (Len(c.points) - 2)
        up == \A i \in pairs : Slope(c, i + 1) >= Slope(c, i)
        down == \A i \in pairs : Slope(c, i + 1) <= Slope(c, i)
    IN  CASE up /\ down -> "Affine" [] up /\ ~down -> "Convex"
          [] ~up /\ down -> "Concave" [] OTHER -> "NonConvex"

(* Faulty: the lower end is compared the wrong way round.                  *)
LeavesRangeInside(c) ==
    LET i == Interval(c.expr) IN
    ~Bounded(i) \/ i.lo > c.points[1].x \/ i.hi > c.points[Len(c.points)].x

LeavesRange(c) ==
    LET i == Interval(c.expr) IN
    \/ ~Bounded(i)
    \/ i.lo < c.points[1].x
    \/ i.hi > c.points[Len(c.points)].x

\* The slope at a breakpoint is that of the segment right of it.
SupportingRow(c, i) ==
    LET s == Slope(c, Smaller(i, Len(c.points) - 1))
        rhs == Value(c.points[i].v) - (s * c.points[i].x) \div One + (s * c.expr.const) \div One
        user == Combined(Negated(Times(s, Terms(c.expr))), "z", One)
    IN  IF c.relation = "epigraph" THEN Row(user, <<>>, rhs, Inf) ELSE Row(user, <<>>, -Inf, rhs)

\* Weights 1..m, one binary per segment m+1..2m-1.
ExactGraph(c) ==
    LET m == Len(c.points)
        points == DOMAIN c.points
        weights == [i \in points |-> <<i, One>>]
        Beside(i) == {j \in Segments(c) : j \in {i - 1, i}}
    IN  Compiled([i \in 1 .. (2 * m - 1) |-> IF i <= m THEN Column("Continuous", 0, Inf) ELSE Selector],
          {Row(<<>>, weights, One, One),
           Row(Terms(c.expr), [i \in points |-> <<i, -c.points[i].x>>], -c.expr.const, -c.expr.const),
           Row(<<<<"z", One>>>>, [i \in points |-> <<i, -Value(c.points[i].v)>>], 0, 0),
           Row(<<>>, [j \in Segments(c) |-> <<m + j, One>>], One, One)}
          \cup {Row(<<>>, <<<<i, One>>>> \o SetToSeq({<<m + j, -One>> : j \in Beside(i)}), -Inf, 0)
                : i \in points})

PiecewiseLinear(c) ==
    LET fits == CASE c.relation = "epigraph" -> Curvature(c) \in {"Convex", "Affine"}
                  [] c.relation = "hypograph" -> Curvature(c) \in {"Concave", "Affine"}
                  [] OTHER -> TRUE
    IN  IF ~fits THEN Rejected("UnsupportedFeature")
        ELSE IF LeavesRange(c) /\ (c.extrapolation = "constant" \/ c.relation = "exact")
        THEN Rejected("ExtrapolationConflict")
        ELSE IF c.relation = "exact" THEN ExactGraph(c)
        ELSE Compiled(<<>>, {SupportingRow(c, i) : i \in DOMAIN c.points})

-----------------------------------------------------------------------------
(* Compilation of the construct                                            *)

ExprVars(e) == {e.terms[i].var : i \in DOMAIN e.terms}

\* derive_variable_dependencies: the variables a construct mentions.
Mentions(c) ==
    CASE c.family = "Indicator" -> {c.activator} \cup ExprVars(c.expr)
      [] c.family \in {"Reification", "AbsoluteValue", "PiecewiseLinear"} -> {"z"} \cup ExprVars(c.expr)
      [] c.family \in {"Boolean", "Cardinality"} -> ToSet(c.over)
      [] c.family = "MinMax" -> {"z"} \cup UNION {ExprVars(c.operands[i]) : i \in DOMAIN c.operands}
      [] c.family = "BinaryProduct" ->
           {"z", c.left} \cup (IF c.op = "binary" THEN {c.right} ELSE ExprVars(c.expr))

\* A preference may narrow the policy of the session, never weaken it; no
\* native payload exists, so only the bridge can be selected.
EffectivePolicy(c) == IF Policy = "Auto" THEN c.prefers ELSE Policy
BridgeSelected(c) == EffectivePolicy(c) # "NativeRequired" /\ c.family \in Bridged

Compile(c) ==
    IF ~(Mentions(c) \subseteq Live) THEN Rejected("MissingConstructReference")
    ELSE IF ~BridgeSelected(c) THEN Rejected("UnsupportedFeature")
    ELSE CASE c.family = "Indicator" -> Indicator(c)
           [] c.family = "Reification" -> Reification(c)
           [] c.family = "Boolean" -> Boolean(c)
           [] c.family = "Cardinality" -> CardinalityBridge(c)
           [] c.family = "MinMax" -> MinMax(c)
           [] c.family = "AbsoluteValue" -> AbsoluteValue(c)
           [] c.family = "BinaryProduct" -> BinaryProduct(c)
           [] c.family = "PiecewiseLinear" -> PiecewiseLinear(c)

-----------------------------------------------------------------------------
(* The builders of Model.  A refused request changes nothing and is left   *)
(* out.                                                                    *)

ThePayload == CHOOSE c \in construct : TRUE
IsBinary(v) == v \in Live /\ domain[v].type = "Binary"
Known(e) == ExprVars(e) \subseteq Live

ProvenIntegral(e) ==
    /\ Integral(e.const)
    /\ \A i \in DOMAIN e.terms : e.terms[i].p = 0 /\ Integral(e.terms[i].k)
    /\ \A v \in ExprVars(e) : v \in Live /\ domain[v].type \in {"Binary", "Integer"}

Variable(type, lo, hi) ==
    [type |-> type, bounds |-> Span(lo, hi), fixing |-> {}, active |-> TRUE]

\* The construct is stored, after the variable it creates, if it creates one.
Build(c, z) ==
    /\ construct' = {c}
    /\ enabled' = TRUE
    /\ domain' = [v \in (Live \ {"z"}) \cup (IF z = {} THEN {} ELSE {"z"}) |->
                    IF v = "z" THEN CHOOSE d \in z : TRUE ELSE domain[v]]
    /\ UNCHANGED <<theta, edits>>

Ask(family) == IF construct = {} THEN {c \in Payloads : c.family = family} ELSE {}

AddIndicator ==
    \E c \in Ask("Indicator") :
        /\ IsBinary(c.activator)
        /\ Build(c, {})

AddReify ==
    \E c \in Ask("Reification") :
        LET proven == ProvenIntegral(c.expr)
            rhs == IF c.set.op = "le" THEN Value(c.set.hi) ELSE Value(c.set.lo)
        IN  /\ \A s \in c.separation : s > 0
            /\ c.separation = {} => proven
            /\ c.set.op \in {"le", "ge"}
            /\ c.separation = {} => Integral(rhs)
            /\ Build([c EXCEPT !.proven = proven], {Variable("Binary", 0, One)})

AddBoolean ==
    \E c \in Ask("Boolean") :
        /\ Len(c.over) > 0
        /\ \A v \in ToSet(c.over) : IsBinary(v)
        /\ Build(c, {})

AddCardinality ==
    \E c \in Ask("Cardinality") :
        /\ Len(c.over) > 0
        /\ IsInjective(c.over)
        /\ \A v \in ToSet(c.over) : IsBinary(v)
        /\ c.k \in 0 .. Len(c.over)
        /\ Build(c, {})

AddMinMax ==
    \E c \in Ask("MinMax") :
        /\ Len(c.operands) >= 2
        /\ <<c.sense, c.relation>> \notin {<<"min", "epigraph">>, <<"max", "hypograph">>}
        /\ \A i \in DOMAIN c.operands : Known(c.operands[i])
        /\ Build(c, {Variable("Continuous", -Inf, Inf)})

AddAbsoluteValue ==
    \E c \in Ask("AbsoluteValue") :
        /\ Known(c.expr)
        /\ Bounded(DeclaredInterval(c.expr))
        /\ c.variant = "clamp" => c.lo <= c.hi
        /\ Build(c, {IF c.variant = "clamp" THEN Variable("Continuous", c.lo, c.hi)
                                           ELSE Variable("Continuous", 0, Inf)})

AddBinaryProduct ==
    \E c \in Ask("BinaryProduct") :
        /\ IsBinary(c.left)
        /\ IF c.op = "binary" THEN IsBinary(c.right) ELSE Known(c.expr)
        /\ Build(c, {IF c.op = "binary" THEN Variable("Continuous", 0, One)
                                        ELSE Variable("Continuous", -Inf, Inf)})

AddPiecewiseLinear ==
    \E c \in Ask("PiecewiseLinear") :
        /\ Len(c.points) >= 2
        /\ \A i \in Segments(c) : c.points[i].x < c.points[i + 1].x
        /\ Known(c.expr)
        /\ Build(c, {Variable("Continuous", -Inf, Inf)})

SetConstructActive ==
    /\ construct # {} /\ edits < MaxEdits
    /\ enabled' = ~enabled
    /\ edits' = edits + 1
    /\ UNCHANGED <<domain, theta, construct>>

\* The variable the builder created stays in the model, mentioned by nothing.
RemoveConstruct ==
    /\ construct # {} /\ edits < MaxEdits
    /\ construct' = {}
    /\ enabled' = FALSE
    /\ edits' = edits + 1
    /\ UNCHANGED <<domain, theta>>

-----------------------------------------------------------------------------
(* Edits of the variables a construct mentions.  No edit looks at the      *)
(* constructs of the model.                                                *)

Touch(v, d) ==
    /\ d # domain[v]
    /\ domain' = [domain EXCEPT ![v] = d]
    /\ edits' = edits + 1
    /\ UNCHANGED <<theta, construct, enabled>>

Editable == IF construct = {} \/ edits = MaxEdits THEN {} ELSE Mentions(ThePayload) \cap Live
Within(b, i) == i.lo <= b.lo /\ b.hi <= i.hi
BoundsAllowed(d, b) ==
    /\ b.lo <= b.hi
    /\ d.type = "Binary" => Within(b, Unit)
    /\ \A f \in d.fixing : b.lo <= f /\ f <= b.hi

SetVariableBounds ==
    \E v \in Editable, b \in BoundsTo :
        /\ BoundsAllowed(domain[v], b)
        /\ Touch(v, [domain[v] EXCEPT !.bounds = b])

SetVariableType ==
    \E v \in Editable, t \in TypeTo : Touch(v, [domain[v] EXCEPT !.type = t])

\* The type is changed first; if the bounds are then refused it stays.
SetBinary ==
    \E v \in Editable :
        LET d == [domain[v] EXCEPT !.type = "Binary"] IN
        Touch(v, IF BoundsAllowed(d, Unit) THEN [d EXCEPT !.bounds = Unit] ELSE d)

Fix ==
    \E v \in Editable, f \in FixTo :
        /\ domain[v].bounds.lo <= f /\ f <= domain[v].bounds.hi
        /\ domain[v].type \in {"Binary", "Integer"} => Integral(f)
        /\ Touch(v, [domain[v] EXCEPT !.fixing = {f}])

Unfix == \E v \in Editable : Touch(v, [domain[v] EXCEPT !.fixing = {}])

SetVariableActive ==
    \E v \in Editable : Touch(v, [domain[v] EXCEPT !.active = ~@])

RemoveVariable ==
    \E v \in Editable :
        /\ domain' = [w \in Live \ {v} |-> domain[w]]
        /\ edits' = edits + 1
        /\ UNCHANGED <<theta, construct, enabled>>

SetParameter ==
    \E t \in ThetaTo \ {theta} :
        /\ construct # {} /\ edits < MaxEdits
        /\ theta' = t
        /\ edits' = edits + 1
        /\ UNCHANGED <<domain, construct, enabled>>

Init ==
    /\ domain = Start
    /\ theta \in ThetaTo
    /\ construct = {}
    /\ enabled = FALSE
    /\ edits = 0

Next ==
    \/ AddIndicator \/ AddReify \/ AddBoolean \/ AddCardinality \/ AddMinMax
    \/ AddAbsoluteValue \/ AddBinaryProduct \/ AddPiecewiseLinear
    \/ SetConstructActive \/ RemoveConstruct
    \/ SetVariableBounds \/ SetVariableType \/ SetBinary \/ Fix \/ Unfix
    \/ SetVariableActive \/ RemoveVariable \/ SetParameter

Spec == Init /\ [][Next]_vars

-----------------------------------------------------------------------------
(* What the constructs mean                                                *)

Admits(type, v) == type \in {"Binary", "Integer"} => Integral(v)
Values(type, b) ==
    {v \in Larger(b.lo, -Reach) .. Smaller(b.hi, Reach) : Admits(type, v)}

\* The points of the mentioned variables, and of the generated columns.
Points(c) ==
    LET vs == Mentions(c)
        every == UNION {Values(domain[v].type, Effective(v)) : v \in vs}
    IN  {pt \in [vs -> every] : \A v \in vs : pt[v] \in Values(domain[v].type, Effective(v))}

Generated(aux) ==
    FoldLeft(LAMBDA acc, col : {Append(s, v) : s \in acc, v \in Values(col.type, col.bounds)},
             {<<>>}, aux)

Weigh(ts, at) == FoldLeft(LAMBDA acc, t : acc + t[2] * at[t[1]], 0, ts)
Holds(row, pt, gen) ==
    LET lhs == Weigh(row.user, pt) + Weigh(row.aux, gen) IN
    /\ row.bounds.lo = -Inf \/ row.bounds.lo * One <= lhs
    /\ row.bounds.hi = Inf \/ lhs <= row.bounds.hi * One

Accepts(rows, generated, pt) ==
    \E gen \in generated : \A row \in rows : Holds(row, pt, gen)

At(e, pt) == e.const + Weigh(Terms(e), pt) \div One
InSet(set, v) ==
    /\ set.op \in {"le", "in", "eq"} => v <= Value(set.hi)
    /\ set.op \in {"ge", "in", "eq"} => v >= Value(set.lo)

\* The piecewise-linear function at x; linear extrapolation continues the
\* first and the last segment.
Graph(c, x) ==
    LET n == Len(c.points)
        Along(i) == Value(c.points[i].v) + (Slope(c, i) * (x - c.points[i].x)) \div One
    IN  CASE x <= c.points[1].x ->
               IF c.extrapolation = "constant" THEN Value(c.points[1].v) ELSE Along(1)
          [] x >= c.points[n].x ->
               IF c.extrapolation = "constant" THEN Value(c.points[n].v) ELSE Along(n - 1)
          [] OTHER -> LET i == CHOOSE i \in Segments(c) : c.points[i].x <= x /\ x <= c.points[i + 1].x
                      IN  Along(i)

Count(over, pt) == Len(SelectSeq(over, LAMBDA v : pt[v] = One))
Compares(relation, z, v) ==
    CASE relation = "exact" -> z = v
      [] relation = "epigraph" -> z >= v
      [] relation = "hypograph" -> z <= v

\* A reified relation separates b = 1 from b = 0 by the tolerance, or by one
\* unit for integer-valued expressions.
Reified(c, pt) ==
    LET v == At(c.expr, pt)
        gap == IF c.separation = {} THEN One ELSE CHOOSE s \in c.separation : TRUE
    IN  IF pt["z"] = One THEN InSet(c.set, v)
        ELSE IF c.set.op = "le" THEN v >= Value(c.set.hi) + gap
        ELSE v <= Value(c.set.lo) - gap

Relation(c, pt) ==
    CASE c.family = "Indicator" ->
           pt[c.activator] = (IF c.when = "one" THEN One ELSE 0) => InSet(c.set, At(c.expr, pt))
      [] c.family = "Reification" -> Reified(c, pt)
      [] c.family = "Boolean" ->
           (CASE c.op = "implication" -> pt[c.over[1]] = One => pt[c.over[2]] = One
             [] c.op = "equivalence" -> pt[c.over[1]] = pt[c.over[2]]
             [] c.op = "any" -> Count(c.over, pt) > 0
             [] c.op = "all" -> Count(c.over, pt) = Len(c.over))
      [] c.family = "Cardinality" ->
           /\ c.op \in {"atmost", "exactly"} => Count(c.over, pt) <= c.k
           /\ c.op \in {"atleast", "exactly"} => Count(c.over, pt) >= c.k
      [] c.family = "MinMax" ->
           LET vs == {At(c.operands[i], pt) : i \in DOMAIN c.operands}
               best == CHOOSE v \in vs : \A w \in vs : IF c.sense = "max" THEN v >= w ELSE v <= w
           IN  Compares(c.relation, pt["z"], best)
      [] c.family = "AbsoluteValue" ->
           LET v == At(c.expr, pt) IN
           pt["z"] = (CASE c.variant = "absolute" -> Larger(v, -v)
                       [] c.variant = "positive" -> Larger(v, 0)
                       [] c.variant = "clamp" -> Smaller(Larger(v, c.lo), c.hi))
      [] c.family = "BinaryProduct" ->
           pt["z"] = IF pt[c.left] = 0 THEN 0
                     ELSE IF c.op = "binary" THEN pt[c.right] ELSE At(c.expr, pt)
      [] c.family = "PiecewiseLinear" ->
           Compares(c.relation, pt["z"], Graph(c, At(c.expr, pt)))

-----------------------------------------------------------------------------
(* Properties                                                              *)

ZeroOne(v) == domain[v].type # "Continuous" /\ Within(Effective(v), Unit)

\* What the rows rest on and no compilation checks again: the truth-valued
\* variables are still zero-one, the output keeps the sign its builder gave
\* it, an expression reified with the unit gap is still integer-valued.
Intact(c) ==
    CASE c.family = "Indicator" -> ZeroOne(c.activator)
      [] c.family = "Reification" ->
           /\ ZeroOne("z")
           /\ c.separation = {} => \A v \in ExprVars(c.expr) : domain[v].type # "Continuous"
      [] c.family \in {"Boolean", "Cardinality"} -> \A v \in ToSet(c.over) : ZeroOne(v)
      [] c.family = "BinaryProduct" ->
           /\ ZeroOne(c.left)
           /\ c.op = "binary" => ZeroOne(c.right) /\ Effective("z").lo >= 0
      [] c.family = "AbsoluteValue" -> c.variant = "positive" => Effective("z").lo >= 0
      [] OTHER -> TRUE

Compilable == construct # {} /\ enabled /\ Compile(ThePayload).ok

\* The rows a bridge emits accept exactly the points that satisfy the
\* construct, after any edits of bounds, types, fixings, activity and
\* parameters that leave its assumptions intact: a Big-M derived for one
\* domain is never used with another.
BridgeExact ==
    Compilable /\ Intact(ThePayload) =>
        LET result == Compile(ThePayload)
            generated == Generated(result.aux)
        IN  \A pt \in Points(ThePayload) :
                Accepts(result.rows, generated, pt) <=> Relation(ThePayload, pt)

\* Tightening the domain of a variable never makes a construct impossible to
\* compile.
TighteningStep ==
    (/\ Compilable /\ enabled' /\ UNCHANGED <<theta, construct>>
     /\ DOMAIN domain' = Live
     /\ \A v \in Live : Within(Effective(v)', Effective(v)))
        => Compile(ThePayload)'.ok
TighteningKeepsCompilable == [][TighteningStep]_vars
=============================================================================
