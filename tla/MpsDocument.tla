------------------------------ MODULE MpsDocument ------------------------------
(* Free MPS documents: how the writer projects a model (src/io/mps/write) and  *)
(* what the reader makes of the lines (src/io/mps lexer, state, staging,       *)
(* semantic).  Numbers are counted in halves, so that bounds of integer        *)
(* variables need not be integers.  A line is its first token and what the     *)
(* rest of it says; how numbers are spelled and pairs are chunked is left out. *)
EXTENDS Integers, Sequences, FiniteSets

LOCAL INSTANCE SequencesExt
LOCAL INSTANCE FiniteSetsExt

CONSTANTS Inf,           \* stands for infinity: every finite value is smaller
          Floats,        \* the finite values a float can hold
          Epsilon,       \* f64::EPSILON
          InvalidNames,  \* names that are no MPS token, "" for no name included
          CommentNames,  \* names that begin with an asterisk
          Generated      \* per prefix, the names the writer makes up, in order

ASSUME InfAssumption == Inf \in Nat \ {0}
ASSUME FloatsAssumption == Floats \subseteq (1 - Inf)..(Inf - 1) /\ 0 \in Floats
ASSUME EpsilonAssumption == Epsilon \in Nat

Finite(v) == -Inf < v /\ v < Inf
Magnitude(n) == IF n < 0 THEN -n ELSE n
Interval(l, u) == [lower |-> l, upper |-> u]

\* The nearest float, an infinity beyond the last one.
Round(n) ==
    IF (\E f \in Floats : n <= f) /\ (\E g \in Floats : g <= n)
    THEN CHOOSE f \in Floats : \A g \in Floats : Magnitude(f - n) <= Magnitude(g - n)
    ELSE IF n < 0 THEN -Inf ELSE Inf

Floor(v) == IF Finite(v) THEN 2 * (v \div 2) ELSE v
Ceil(v) == -Floor(-v)

-----------------------------------------------------------------------------
(* Names (projection.rs allocate_names, policy PreserveOrGenerate).  A name    *)
(* is kept when it is a token and nobody else in its namespace has it.         *)

Valid(name) == name \notin InvalidNames

Allocate(sources, prefix, reserved) ==
    LET Kept(i) == /\ Valid(sources[i]) /\ sources[i] \notin reserved
                   /\ \A j \in DOMAIN sources : sources[j] = sources[i] => j = i
        taken == reserved \cup {sources[i] : i \in DOMAIN sources}
        fresh == SelectSeq(Generated[prefix], LAMBDA name : name \notin taken)
    IN  [i \in DOMAIN sources |->
            IF Kept(i) THEN sources[i]
            ELSE fresh[Cardinality({j \in 1..i : ~ Kept(j)})]]

ObjectiveName(source, rows) ==
    IF Valid(source) /\ source \notin rows THEN source
    ELSE IF "OBJ" \notin rows THEN "OBJ"
    ELSE SelectSeq(Generated["OBJ"], LAMBDA name : name \notin rows)[1]

-----------------------------------------------------------------------------
(* Domains of variables (bounds.rs).                                           *)

Bound(kind, value) == [kind |-> kind, value |-> value]

EncodeContinuous(b) ==
    IF b = Interval(0, Inf) THEN <<>>
    ELSE IF b = Interval(-Inf, Inf) THEN <<Bound("FR", 0)>>
    ELSE IF b.lower = -Inf THEN <<Bound("MI", 0), Bound("UP", b.upper)>>
    ELSE IF b.upper = Inf THEN <<Bound("LO", b.lower)>>
    ELSE IF b.lower = b.upper THEN <<Bound("FX", b.lower)>>
    ELSE <<Bound("LO", b.lower), Bound("UP", b.upper)>>

(* Faulty: the upper bound is not opened before a lower bound above one. *)
IntegerLowerShut(l) ==
    IF l = -Inf THEN <<Bound("MI", 0)>>
    ELSE IF l # 0 THEN <<Bound("LI", l)>>
    ELSE <<>>

\* Between markers a column starts as [0, 1].  One is two halves.
IntegerLower(l) ==
    IF l = -Inf THEN <<Bound("MI", 0)>>
    ELSE IF l > 2 THEN <<Bound("PL", 0), Bound("LI", l)>>
    ELSE IF l # 0 THEN <<Bound("LI", l)>>
    ELSE <<>>

IntegerUpper(l, u) ==
    IF u = Inf THEN IF l <= 2 THEN <<Bound("PL", 0)>> ELSE <<>>
    ELSE IF u # 2 THEN <<Bound("UI", u)>>
    ELSE <<>>

EncodeInteger(b) ==
    LET l == Ceil(b.lower)
        u == Floor(b.upper)
    IN  IF l = u THEN <<Bound("FX", l)>> ELSE IntegerLower(l) \o IntegerUpper(l, u)

EncodeBinary(b) ==
    <<Bound("BV", 0)>> \o
    (IF b.lower = b.upper THEN <<Bound("FX", b.lower)>>
     ELSE (IF b.lower # 0 THEN <<Bound("LO", b.lower)>> ELSE <<>>)
            \o (IF b.upper # 2 THEN <<Bound("UP", b.upper)>> ELSE <<>>))

\* A fixed variable is written with its fixing as both bounds.
Effective(v) ==
    IF v.fixed = {} THEN Interval(v.lower, v.upper)
    ELSE Interval(CHOOSE f \in v.fixed : TRUE, CHOOSE f \in v.fixed : TRUE)

Encode(v) ==
    CASE v.type = "continuous" -> EncodeContinuous(Effective(v))
      [] v.type = "integer"    -> EncodeInteger(Effective(v))
      [] v.type = "binary"     -> EncodeBinary(Effective(v))

DomainWritable(v) ==
    LET b == Effective(v) IN
    /\ ~ v.semicontinuous
    /\ v.type = "integer" => Ceil(b.lower) <= Floor(b.upper)
    /\ v.type = "binary" => b.lower >= 0 /\ b.upper <= 2

-----------------------------------------------------------------------------
(* Rows (objective.rs encode_row_bounds): an interval is a G row with a range. *)

IsEquality(b) == Magnitude(b.upper - b.lower) <= Epsilon

Row(kind, rhs, range) == [kind |-> kind, rhs |-> rhs, range |-> range]

EncodeRow(b) ==
    IF Finite(b.lower) /\ Finite(b.upper)
    THEN IF IsEquality(b) THEN Row("E", b.lower, {})
         ELSE Row("G", b.lower, {Round(b.upper - b.lower)})
    ELSE IF Finite(b.lower) THEN Row("G", b.lower, {})
    ELSE Row("L", b.upper, {})

RowWritable(b) ==
    /\ Finite(b.lower) \/ Finite(b.upper)
    /\ Finite(b.lower) /\ Finite(b.upper) => Finite(Round(b.upper - b.lower))

-----------------------------------------------------------------------------
(* The document of a model: variables and rows in their order, one objective   *)
(* or none (projection.rs project_snapshot, mod.rs normalize_document).        *)

Active(q) == SelectSeq(q, LAMBDA e : e.active)
Column(q, field) == [i \in DOMAIN q |-> q[i][field]]

\* What the writer emits, with the names it allocates.
Projection(m) ==
    LET vars == Active(m.vars)
        rows == Active(m.rows)
        goal == {m.objective[i].name : i \in DOMAIN m.objective}
        names == Allocate(Column(rows, "name"), "R", {n \in goal : Valid(n)})
    IN  [vars |-> vars, varNames |-> Allocate(Column(vars, "name"), "X", {}),
         rows |-> rows, rowNames |-> names,
         objective |-> ObjectiveName(IF goal = {} THEN "" ELSE CHOOSE n \in goal : TRUE,
                                     Range(names))]

Writable(m) ==
    /\ ~ m.construct
    /\ \A i \in DOMAIN Active(m.vars) : DomainWritable(Active(m.vars)[i])
    /\ \A i \in DOMAIN Active(m.rows) :
          RowWritable(Interval(Active(m.rows)[i].lower, Active(m.rows)[i].upper))

Entry(row, value) == [row |-> row, value |-> value]
Line(head, tag, data) == [head |-> head, tag |-> tag, data |-> data]
Header(section) == Line(section, "section", <<>>)

\* The cells of variable k, by the position it has in the model.
CellsOf(m, k) ==
    LET p == Projection(m)
        Has(cells) == cells[k] # 0
        own == SelectSeq([i \in DOMAIN p.rows |-> Entry(p.rowNames[i], p.rows[i].cells[k])],
                         LAMBDA e : e.value # 0)
        cost == IF m.objective # <<>> /\ Has(m.objective[1].cells)
                THEN <<Entry(p.objective, m.objective[1].cells[k])>> ELSE <<>>
    IN  IF own \o cost = <<>> THEN <<Entry(p.objective, 0)>> ELSE own \o cost

\* Integer columns stand between markers, one pair for each run of them.
IsInteger(v) == v.type \in {"integer", "binary"}
Marker(kind) == Line("MARK", "marker", kind)

ColumnLines(m) ==
    LET p == Projection(m)
        positions == SelectSeq([k \in DOMAIN m.vars |-> k], LAMBDA k : m.vars[k].active)
        n == Len(p.vars)
        Whole(i) == i \in 1..n /\ IsInteger(p.vars[i])
        Group(i) ==
            (IF Whole(i) /\ ~ Whole(i - 1) THEN <<Marker("INTORG")>> ELSE <<>>)
              \o (IF ~ Whole(i) /\ Whole(i - 1) THEN <<Marker("INTEND")>> ELSE <<>>)
              \o (IF i \in 1..n
                  THEN <<Line(p.varNames[i], "column", CellsOf(m, positions[i]))>>
                  ELSE <<>>)
    IN  FlattenSeq([i \in 1..(n + 1) |-> Group(i)])

\* Sections other than those of rows and columns are left out when empty.
Section(name, lines) == IF lines = <<>> THEN <<>> ELSE <<Header(name)>> \o lines

Document(m) ==
    LET p == Projection(m)
        kinds == [i \in DOMAIN p.rows |->
                    EncodeRow(Interval(p.rows[i].lower, p.rows[i].upper))]
        goal == m.objective # <<>>
        offset == IF goal THEN <<Entry(p.objective, - m.objective[1].constant)>> ELSE <<>>
        rhs == offset \o [i \in DOMAIN kinds |-> Entry(p.rowNames[i], kinds[i].rhs)]
        ranges == FlattenSeq([i \in DOMAIN kinds |->
                    IF kinds[i].range = {} THEN <<>>
                    ELSE <<Entry(p.rowNames[i], CHOOSE w \in kinds[i].range : TRUE)>>])
        bounds == FlattenSeq([i \in DOMAIN p.vars |->
                    LET b == Encode(p.vars[i]) IN
                    [j \in DOMAIN b |-> Line(b[j].kind, "bound",
                        [kind |-> b[j].kind, var |-> p.varNames[i], value |-> b[j].value])]])
    IN  <<Line("NAME", "name", <<>>),
          Line("OBJSENSE", "sense", IF goal THEN m.objective[1].sense ELSE "MIN"),
          Line("OBJNAME", "objective", p.objective),
          Header("ROWS"), Line("N", "row", [kind |-> "N", name |-> p.objective])>>
        \o [i \in DOMAIN kinds |-> Line(kinds[i].kind, "row",
                [kind |-> kinds[i].kind, name |-> p.rowNames[i]])]
        \o <<Header("COLUMNS")>> \o ColumnLines(m)
        \o Section("RHS", [i \in DOMAIN rhs |-> Line("RHS1", "rhs", rhs[i])])
        \o Section("RANGES", [i \in DOMAIN ranges |-> Line("RNG1", "range", ranges[i])])
        \o Section("BOUNDS", bounds)
        \o <<Header("ENDATA")>>

-----------------------------------------------------------------------------
(* The lexer (lexer.rs lex_records, state.rs LexerState).  A line whose first  *)
(* token is a section name is a header wherever it stands.                     *)

Sections == <<"NAME", "OBJSENSE", "OBJNAME", "ROWS", "COLUMNS", "RHS", "RANGES",
              "BOUNDS", "ENDATA">>
Unsupported == {"SOS", "QUADOBJ", "INDICATORS"}
Rank(section) == CHOOSE r \in DOMAIN Sections : Sections[r] = section
HomeOf == [row |-> "ROWS", column |-> "COLUMNS", marker |-> "COLUMNS", rhs |-> "RHS",
           range |-> "RANGES", bound |-> "BOUNDS", sense |-> "OBJSENSE",
           objective |-> "OBJNAME"]
Payloads == [NAME |-> "name", OBJSENSE |-> "sense", OBJNAME |-> "objective"]

Start == [section |-> "", seen |-> {}, pending |-> FALSE, marker |-> FALSE,
          failed |-> FALSE, staged |-> <<>>]

Fail(st) == [st EXCEPT !.failed = TRUE]

\* Headers come in order, columns after rows, the rest after columns; a header
\* carries only a payload of its own.
BeginSection(st, line) ==
    LET s == line.head
        allowed ==
            /\ s \in Range(Sections)
            /\ "ENDATA" \notin st.seen /\ ~ st.pending
            /\ st.marker => s = "COLUMNS"
            /\ \A t \in st.seen : Rank(t) < Rank(s)
            /\ s = "COLUMNS" => "ROWS" \in st.seen
            /\ s \in {"RHS", "RANGES", "BOUNDS", "ENDATA"} => "COLUMNS" \in st.seen
            /\ \/ line.tag = "section"
               \/ s \in DOMAIN Payloads /\ line.tag = Payloads[s]
        payload == s \in {"OBJSENSE", "OBJNAME"} /\ line.tag # "section"
    IN  IF ~ allowed THEN Fail(st)
        ELSE [st EXCEPT !.section = s, !.seen = @ \cup {s},
                        !.pending = s \in {"OBJSENSE", "OBJNAME"} /\ ~ payload,
                        !.staged = IF payload THEN Append(@, line) ELSE @]

\* A record belongs to the section it stands in; columns know whether they are
\* between markers.
AcceptRecord(st, line) ==
    IF \/ st.section # HomeOf[line.tag]
       \/ line.tag = "marker" /\ st.marker = (line.data = "INTORG")
    THEN Fail(st)
    ELSE [st EXCEPT !.pending = FALSE,
                    !.marker = IF line.tag = "marker" THEN ~ @ ELSE @,
                    !.staged = Append(@, IF line.tag = "column" /\ st.marker
                                         THEN [line EXCEPT !.tag = "marked"] ELSE line)]

LexLine(st, line) ==
    IF st.failed \/ line.head \in CommentNames THEN st
    ELSE IF line.head \in Range(Sections) \cup Unsupported THEN BeginSection(st, line)
    ELSE AcceptRecord(st, line)

Lex(lines) == FoldLeft(LexLine, Start, lines)

Finished(st) ==
    /\ ~ st.failed /\ ~ st.marker /\ ~ st.pending
    /\ {"ROWS", "COLUMNS", "ENDATA"} \subseteq st.seen

-----------------------------------------------------------------------------
(* Staging and resolution (staging.rs validate, semantic.rs resolve).          *)

Data(st, tags) ==
    LET own == SelectSeq(st.staged, LAMBDA line : line.tag \in tags) IN
    [i \in DOMAIN own |-> own[i].data]

ColumnNames(st) ==
    {st.staged[i].head : i \in {j \in DOMAIN st.staged :
                                  st.staged[j].tag \in {"column", "marked"}}}
Marked(st, name) ==
    \E i \in DOMAIN st.staged : st.staged[i].tag = "marked" /\ st.staged[i].head = name
Entries(st, name) ==
    FlattenSeq(Data([staged |-> SelectSeq(st.staged, LAMBDA line : line.head = name)],
                    {"column", "marked"}))

Default(marked) ==
    IF marked THEN [type |-> "integer", lower |-> 0, upper |-> 2, failed |-> FALSE]
    ELSE [type |-> "continuous", lower |-> 0, upper |-> Inf, failed |-> FALSE]

\* Bounds take effect in their order, and none may leave an empty domain behind.
Transition(s, b) ==
    CASE b.kind = "FR" -> [s EXCEPT !.lower = -Inf, !.upper = Inf]
      [] b.kind = "FX" -> [s EXCEPT !.lower = b.value, !.upper = b.value]
      [] b.kind = "LO" -> [s EXCEPT !.lower = b.value]
      [] b.kind = "MI" -> [s EXCEPT !.lower = -Inf]
      [] b.kind = "PL" -> [s EXCEPT !.upper = Inf]
      [] b.kind = "UP" -> [s EXCEPT !.upper = b.value]
      [] b.kind = "BV" -> [s EXCEPT !.type = "binary", !.lower = 0, !.upper = 2]
      [] b.kind = "LI" -> [s EXCEPT !.type = "integer", !.lower = Ceil(b.value)]
      [] b.kind = "UI" -> [s EXCEPT !.type = "integer", !.upper = Floor(b.value)]

ApplyBound(s, b) ==
    LET t == Transition(s, b) IN
    [t EXCEPT !.failed = \/ @ \/ t.lower > t.upper
                         \/ t.type = "binary" /\ (t.lower < 0 \/ t.upper > 2)]

VariableState(st, name) ==
    FoldLeft(ApplyBound, Default(Marked(st, name)),
             SelectSeq(Data(st, {"bound"}), LAMBDA b : b.var = name))

RowBounds(kind, rhs, range) ==
    IF range = {} THEN CASE kind = "E" -> Interval(rhs, rhs)
                         [] kind = "G" -> Interval(rhs, Inf)
                         [] kind = "L" -> Interval(-Inf, rhs)
    ELSE LET w == CHOOSE v \in range : TRUE IN
         CASE kind = "E" /\ w >= 0 -> Interval(rhs, Round(rhs + w))
           [] kind = "E" /\ w < 0  -> Interval(Round(rhs + w), rhs)
           [] kind = "G" -> Interval(rhs, Round(rhs + Magnitude(w)))
           [] kind = "L" -> Interval(Round(rhs - Magnitude(w)), rhs)

\* The value a rim vector has for a row, as a set of at most one.
ValuesAt(entries, row) == {entries[i].value : i \in {j \in DOMAIN entries : entries[j].row = row}}
ValueAt(entries, row, default) ==
    IF ValuesAt(entries, row) = {} THEN default
    ELSE CHOOSE v \in ValuesAt(entries, row) : TRUE
Unique(q) == Cardinality(Range(q)) = Len(q)

\* The cells of a row; entries of one column add up.
CellsAt(st, row) ==
    LET Own(name) == SelectSeq(Entries(st, name), LAMBDA e : e.row = row)
        Total(name) == FoldLeft(LAMBDA a, e : a + e.value, 0, Own(name))
    IN  [name \in {n \in ColumnNames(st) : Total(n) # 0} |-> Total(name)]

GoalRow(st) ==
    LET named == Data(st, {"objective"})
        free == SelectSeq(Data(st, {"row"}), LAMBDA r : r.kind = "N")
    IN  IF named # <<>> THEN {named[1]} ELSE {free[i].name : i \in DOMAIN free \cap {1}}

\* The document is complete, refers to what it declares and repeats nothing
\* that must not be repeated.
Resolvable(st) ==
    LET rows == Data(st, {"row"})
        rowNames == {rows[i].name : i \in DOMAIN rows}
        rhs == Data(st, {"rhs"})
        ranges == Data(st, {"range"})
        bounds == Data(st, {"bound"})
        Kind(name) == (CHOOSE r \in Range(rows) : r.name = name).kind
    IN  /\ Finished(st)
        /\ Unique(Column(rows, "name"))
        /\ GoalRow(st) \subseteq {n \in rowNames : Kind(n) = "N"}
        /\ \A name \in ColumnNames(st) :
              \A i \in DOMAIN Entries(st, name) : Entries(st, name)[i].row \in rowNames
        /\ Unique(Column(rhs, "row")) /\ Range(Column(rhs, "row")) \subseteq rowNames
        /\ Unique(Column(ranges, "row"))
        /\ Range(Column(ranges, "row")) \subseteq {n \in rowNames : Kind(n) # "N"}
        /\ \A i \in DOMAIN bounds : bounds[i].var \in ColumnNames(st)
        /\ \A name \in ColumnNames(st) : ~ VariableState(st, name).failed

\* The model a document stands for.
Resolve(st) ==
    LET rows == {r \in Range(Data(st, {"row"})) : r.kind # "N"}
        rhs == Data(st, {"rhs"})
        ranges == Data(st, {"range"})
        senses == Data(st, {"sense"})
        RowOf(name) == CHOOSE r \in rows : r.name = name
    IN  [vars |-> [name \in ColumnNames(st) |->
                     LET s == VariableState(st, name) IN
                     [type |-> s.type, lower |-> s.lower, upper |-> s.upper]],
         rows |-> [name \in {r.name : r \in rows} |->
                     [bounds |-> RowBounds(RowOf(name).kind, ValueAt(rhs, name, 0),
                                           ValuesAt(ranges, name)),
                      cells |-> CellsAt(st, name)]],
         sense |-> IF senses = <<>> THEN "MIN" ELSE senses[1],
         constant |-> IF GoalRow(st) = {} THEN 0
                      ELSE - ValueAt(rhs, CHOOSE n \in GoalRow(st) : TRUE, 0),
         costs |-> IF GoalRow(st) = {} THEN <<>>
                   ELSE CellsAt(st, CHOOSE n \in GoalRow(st) : TRUE)]

-----------------------------------------------------------------------------
(* What a model means, in the names the writer emits.                          *)

NonZero(f) == [k \in {j \in DOMAIN f : f[j] # 0} |-> f[k]]

\* A variable keeps its type, and its domain as far as values of that type go.
SameDomain(v, s) ==
    LET b == Effective(v) IN
    /\ s.type = v.type
    /\ IF v.type = "integer"
       THEN Ceil(s.lower) = Ceil(b.lower) /\ Floor(s.upper) = Floor(b.upper)
       ELSE s.lower = b.lower /\ s.upper = b.upper

\* A row keeps its bounds; an interval whose width no float holds, or one no wider
\* than epsilon, keeps the lower one.
SameRow(r, s) ==
    /\ s.lower = r.lower
    /\ \/ s.upper = r.upper
       \/ Finite(r.upper) /\ Finite(r.lower) /\ Round(r.upper - r.lower) # r.upper - r.lower
       \/ Finite(r.upper) /\ Finite(r.lower) /\ r.upper - r.lower <= Epsilon

SameMathematics(m, n) ==
    LET p == Projection(m)
        positions == SelectSeq([k \in DOMAIN m.vars |-> k], LAMBDA k : m.vars[k].active)
        Named(cells) ==
            NonZero([name \in Range(p.varNames) |->
                cells[positions[CHOOSE i \in DOMAIN p.vars : p.varNames[i] = name]]])
    IN  /\ DOMAIN n.vars = Range(p.varNames) /\ Cardinality(DOMAIN n.vars) = Len(p.vars)
        /\ \A i \in DOMAIN p.vars : SameDomain(p.vars[i], n.vars[p.varNames[i]])
        /\ DOMAIN n.rows = Range(p.rowNames) /\ Cardinality(DOMAIN n.rows) = Len(p.rows)
        /\ \A i \in DOMAIN p.rows :
              /\ SameRow(p.rows[i], n.rows[p.rowNames[i]].bounds)
              /\ n.rows[p.rowNames[i]].cells = Named(p.rows[i].cells)
        /\ IF m.objective = <<>>
           THEN n.sense = "MIN" /\ n.constant = 0 /\ n.costs = <<>>
           ELSE /\ n.sense = m.objective[1].sense
                /\ n.constant = m.objective[1].constant
                /\ n.costs = Named(m.objective[1].cells)

ReadsBack(m) ==
    LET st == Lex(Document(m)) IN Resolvable(st) /\ SameMathematics(m, Resolve(st))
=============================================================================
