-------------------------- MODULE RestrictionUniverse --------------------------
(***************************************************************************)
(* Where the atoms of an infeasibility analysis come from: the model and   *)
(* an optional solve overlay are compiled in isolation, every finite side  *)
(* of the result becomes an atom or a part of one, and a private solver    *)
(* has the sides of a selection switched on, the others off, before each   *)
(* answer.  Layers on the same column (declared bounds, a fixing, what an  *)
(* overlay adds) are atoms of their own; a later one covers an earlier.    *)
(*                                                                         *)
(* A side is <<"row" or "column", index, "lower" or "upper">>; an atom maps *)
(* the sides it sets to their values.                                      *)
(***************************************************************************)
EXTENDS ConflictReduction, SequencesExt

CONSTANTS
    Problems,   \* columns, rows, fixings, locks, extra rows, grouping
    Inf,        \* larger than every finite bound
    Grid        \* the values a column takes

ASSUME ValuesAssumption == Inf \in Nat \ {0} /\ Grid \subseteq Int

VARIABLES
    problem,
    native      \* the private solver: side -> bound, <<>> once it failed

analysisVars == <<vars, problem, native>>

Span(lo, hi) == [lower |-> lo, upper |-> hi]
Exactly(x) == Span(x, x)
Intersection(bs) == Span(Max({b.lower : b \in bs}), Min({b.upper : b \in bs}))
FiniteEqual(b) == b.lower = b.upper
IsFinite(x) == x \in (-Inf + 1) .. (Inf - 1)

-----------------------------------------------------------------------------
(* The compiled state                                                      *)

\* compile_snapshot: the fixing takes the place of the declared bounds, an
\* inactive column is zero whatever it was fixed at.
BaseColumn(c) ==
    IF ~c.active THEN Exactly(0)
    ELSE IF c.fixing = {} THEN c.bounds ELSE Exactly(CHOOSE f \in c.fixing : TRUE)

\* compile_overlay, as compile_analysis_snapshot puts it on the base.
Around(r) == Span(r.value - r.band, r.value + r.band)
Layers(p, k) ==
    {BaseColumn(p.columns[k])}
        \cup {Around(r) : r \in {r \in ToSet(p.fixings) \cup ToSet(p.locks) : r.of = k}}
Overlaid(p, k) == Intersection(Layers(p, k))

AllRows(p) == p.rows \o p.extra
Sides(p) ==
    ({"column"} \X (1 .. Len(p.columns)) \X {"lower", "upper"})
        \cup ({"row"} \X (1 .. Len(AllRows(p))) \X {"lower", "upper"})
FreeSide(s) == IF s[3] = "lower" THEN -Inf ELSE Inf
CompiledState(p) ==
    [s \in Sides(p) |-> IF s[1] = "row" THEN AllRows(p)[s[2]].bounds[s[3]] ELSE Overlaid(p, s[2])[s[3]]]

Value(terms, pt) == FoldLeft(LAMBDA a, b : a + b, 0, [k \in DOMAIN terms |-> terms[k] * pt[k]])
Measure(p, s, pt) == IF s[1] = "row" THEN Value(AllRows(p)[s[2]].terms, pt) ELSE pt[s[2]]
Satisfies(p, bounds, pt) ==
    \A b \in bounds : IF b[1][3] = "lower" THEN Measure(p, b[1], pt) >= b[2] ELSE Measure(p, b[1], pt) <= b[2]
HasPoint(p, sides) ==
    LET bounds == {<<s, sides[s]>> : s \in Sides(p)}
    IN \E pt \in [DOMAIN p.columns -> Grid] : Satisfies(p, bounds, pt)

-----------------------------------------------------------------------------
(* The universe                                                            *)

SideAtom(s, x) == [t \in {s} |-> x]
BothSides(what, k, b) == [s \in {what} \X {k} \X {"lower", "upper"} |-> b[s[3]]]
SideAtoms(what, k, b) ==
    (IF IsFinite(b.lower) THEN <<SideAtom(<<what, k, "lower">>, b.lower)>> ELSE <<>>)
    \o (IF IsFinite(b.upper) THEN <<SideAtom(<<what, k, "upper">>, b.upper)>> ELSE <<>>)

Grouped(p, origin) == origin # "user" /\ p.grouping \in {"Semantic", "ByConstruct"}

\* push_restriction, push_constraint_equality and push_variable_equality:
\* the sides of what a construct generated wait for their group.
EntityAtoms(p, what, k, b, origin) ==
    IF Grouped(p, origin) THEN <<>>
    ELSE IF p.grouping = "Semantic" /\ origin = "user" /\ FiniteEqual(b) THEN <<BothSides(what, k, b)>>
    ELSE SideAtoms(what, k, b)

RowAtoms(p) ==
    FlattenSeq([k \in DOMAIN p.rows |-> EntityAtoms(p, "row", k, p.rows[k].bounds, p.rows[k].origin)])

\* The layer below a fixing are the declared bounds.
LowerLayer(c) == IF c.fixing # {} THEN c.bounds ELSE BaseColumn(c)
ColumnAtoms(p) ==
    FlattenSeq([k \in DOMAIN p.columns |->
        EntityAtoms(p, "column", k, LowerLayer(p.columns[k]), p.columns[k].origin)])

SidesOf(p, origin) ==
    {s \in Sides(p) : /\ IsFinite(CompiledState(p)[s])
                      /\ \/ s[1] = "row" /\ s[2] \in DOMAIN p.rows /\ p.rows[s[2]].origin = origin
                         \/ s[1] = "column" /\ p.columns[s[2]].origin = origin}

\* One atom per construct, in the order their first sides were met.
Entities(p) == p.rows \o p.columns
FirstOfOrigin(p, i) ==
    /\ Entities(p)[i].origin # "user"
    /\ \A j \in 1 .. (i - 1) : Entities(p)[j].origin # Entities(p)[i].origin
ConstructAtoms(p) ==
    IF p.grouping = "Individual" THEN <<>>
    ELSE FlattenSeq([i \in DOMAIN Entities(p) |->
           IF ~FirstOfOrigin(p, i) THEN <<>>
           ELSE <<[s \in SidesOf(p, Entities(p)[i].origin) |-> CompiledState(p)[s]]>>])

FixingAtoms(p) ==
    FlattenSeq([k \in DOMAIN p.columns |->
        IF p.columns[k].fixing = {} THEN <<>>
        ELSE <<BothSides("column", k, Exactly(CHOOSE f \in p.columns[k].fixing : TRUE))>>])

\* append_overlay_variable_atom: the value, also of a lock with a band.
RestrictionAtoms(rs) == [i \in DOMAIN rs |-> BothSides("column", rs[i].of, Exactly(rs[i].value))]
OverlayAtoms(p) ==
    FlattenSeq([k \in DOMAIN p.extra |-> SideAtoms("row", Len(p.rows) + k, p.extra[k].bounds)])
    \o RestrictionAtoms(p.fixings) \o RestrictionAtoms(p.locks)

(* Faulty: the fixings come before the layer they cover.                    *)
UniverseFixingsFirst(p) == FixingAtoms(p) \o RowAtoms(p) \o ColumnAtoms(p) \o ConstructAtoms(p) \o OverlayAtoms(p)

UniverseOf(p) == RowAtoms(p) \o ColumnAtoms(p) \o ConstructAtoms(p) \o FixingAtoms(p) \o OverlayAtoms(p)

\* What is analyzed is a model, and an overlay that compiles: a fixing lies in the
\* declared bounds, and what an overlay says of a column can be met.  A row of at
\* least +infinity or at most -infinity, which no atom stands for, is left out.
ProperBounds(b) == b.lower \in (-Inf) .. (Inf - 1) /\ b.upper \in (-Inf + 1) .. Inf
ProperColumn(c) ==
    /\ ProperBounds(c.bounds)
    /\ c.active \in BOOLEAN
    /\ \A f \in c.fixing : IsFinite(f) /\ c.bounds.lower <= f /\ f <= c.bounds.upper
    /\ \A f, g \in c.fixing : f = g
ProperProblem(p) ==
    /\ p.grouping \in {"Individual", "Semantic", "ByConstruct"}
    /\ \A q \in {p.columns, p.rows, p.fixings, p.locks, p.extra} : q \in Seq(ToSet(q))
    /\ \A c \in ToSet(p.columns) : ProperColumn(c)
    /\ \A r \in ToSet(p.rows) \cup ToSet(p.extra) :
         ProperBounds(r.bounds) /\ r.terms \in [DOMAIN p.columns -> Int]
    /\ \A r \in ToSet(p.fixings) \cup ToSet(p.locks) :
         r.of \in DOMAIN p.columns /\ IsFinite(r.value) /\ r.band \in Nat
    /\ \A r \in ToSet(p.fixings) : r.band = 0
    /\ \A k \in DOMAIN p.columns :
         \E x \in (-Inf) .. Inf : \A b \in Layers(p, k) : b.lower <= x /\ x <= b.upper

ASSUME ProblemsAssumption == \A p \in Problems : ProperProblem(p) /\ Len(UniverseOf(p)) = N

-----------------------------------------------------------------------------
(* The private solver                                                      *)

States == [p \in Problems |-> CompiledState(p)]
Universes == [p \in Problems |-> UniverseOf(p)]

\* apply_selection: everything is free, then the selected atoms in order, so that
\* the last one to set a side decides.
Setters(atoms, S, s) == {k \in S : s \in DOMAIN atoms[k]}
Applied(p, atoms, S) ==
    [s \in Sides(p) |-> IF Setters(atoms, S, s) = {} THEN FreeSide(s) ELSE atoms[Max(Setters(atoms, S, s))][s]]
Desired(p, S) == Applied(p, Universes[p], S)

Selections == [p \in Problems |-> [S \in SUBSET Atoms |-> Desired(p, S)]]
ImpossibleSets == [p \in Problems |-> {S \in SUBSET Atoms : ~HasPoint(p, Selections[p][S])}]
ConflictsOf ==
    [p \in Problems |-> {S \in ImpossibleSets[p] : \A T \in SUBSET S : T # S => T \notin ImpossibleSets[p]}]

\* The atoms that set one of the sides HiGHS named.
SeedOf(p, members) == {k \in Atoms : DOMAIN Universes[p][k] \cap members # {}}
FiniteSides(p) == {s \in Sides(p) : IsFinite(States[p][s])}
SeedsOf == [p \in Problems |-> {SeedOf(p, R) : R \in SUBSET FiniteSides(p)}]

\* The selection behind the call that was just made.
JustAsked ==
    CHOOSE S \in DOMAIN cache' : DOMAIN cache' = {S} \/ S \notin DOMAIN cache
Toggle ==
    /\ native' = IF calls' = calls THEN native ELSE Desired(problem, JustAsked)
    /\ UNCHANGED problem
Untouched == UNCHANGED <<native, problem>>

-----------------------------------------------------------------------------
(* The analysis of a problem                                               *)

\* spawn_oracle: a fresh solver with the exact compiled state.
AnalysisInit ==
    /\ problem \in Problems
    /\ native = CompiledState(problem)
    /\ Init
    /\ conflicts = ConflictsOf[problem]

AnalysisNext ==
    \/ SkipFullCheck /\ Untouched
    \/ CheckFullUniverse /\ Toggle
    \/ NativeFails /\ Untouched
    \/ NativeAnswers /\ seed' \in SeedsOf[problem] \cup {Atoms} /\ Untouched
    \/ CheckNativeSeed /\ Toggle
    \/ CheckSeed /\ Toggle
    \/ StartRound /\ Untouched
    \/ DeleteChunk /\ Toggle
    \/ EndRound /\ Untouched
    \/ DeleteAtom /\ Toggle
    \/ EndFilter /\ Untouched
    \/ VerifyConflict /\ Toggle
    \/ VerifyMember /\ Toggle
    \/ ReportConflict /\ Untouched
    \/ OracleFails /\ native' = <<>> /\ UNCHANGED problem

AnalysisSpec == AnalysisInit /\ [][AnalysisNext]_analysisVars /\ WF_analysisVars(AnalysisNext)

-----------------------------------------------------------------------------
(* Properties                                                              *)

\* A band around a lock and a fixing under an inactive column are lost in the
\* universe: their atoms hold the bare value.
Exact(p) ==
    /\ \A k \in DOMAIN p.locks : p.locks[k].band = 0
    /\ \A k \in DOMAIN p.columns : p.columns[k].fixing # {} => p.columns[k].active

Only(p, R) == [s \in Sides(p) |-> IF s \in R THEN States[p][s] ELSE FreeSide(s)]

\* The private solver is switched from selection to selection without a
\* rebuild and keeps no side of an earlier one (apply_selection).
SolverHolds(S) ==
    \A s \in Sides(problem) :
        \/ native[s] = FreeSide(s) /\ \A k \in S : s \notin DOMAIN Universes[problem][k]
        \/ \E k \in S : s \in DOMAIN Universes[problem][k] /\ Universes[problem][k][s] = native[s]

\* The universe is the compiled model, no more and no less: all its atoms
\* together restore every side, however fixings, groups and overlays lie on
\* each other; taking atoms away never makes a possible selection impossible,
\* which the deletion filter relies on; a set of sides that is contradictory
\* by itself maps to a contradictory seed; and the solver holds the selection
\* it answered for (from_snapshot_with_fixings,
\* from_model_snapshot_with_overlay, analyze_infeasibility).
UniverseExact ==
    /\ phase = "full" /\ calls = 0 /\ Exact(problem) =>
        /\ Selections[problem][Atoms] = native
        /\ \A S \in ImpossibleSets[problem] : \A k \in Atoms \ S : S \cup {k} \in ImpossibleSets[problem]
        /\ \A R \in SUBSET FiniteSides(problem) :
            SeedOf(problem, R) \notin ImpossibleSets[problem] => HasPoint(problem, Only(problem, R))
    /\ \A S \in DOMAIN cache : DOMAIN cache = {S} /\ native # <<>> => SolverHolds(S)
=============================================================================
