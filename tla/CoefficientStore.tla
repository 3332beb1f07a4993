--------------------------- MODULE CoefficientStore ---------------------------
(* The coefficient store of a model (src/model/coefficient.rs): operators on   *)
(* one record that holds the packed constant base, the packed parametric base, *)
(* the dependency blocks, the sparse overlay and the arena of identities.      *)
(*                                                                             *)
(* A coefficient is a cell (target, variable).  A cell appended in bulk lives  *)
(* in one of the two bases until it is first changed: it is then shadowed by,  *)
(* or dies and leaves a tombstone in, the overlay, and keeps its identity.     *)
(* Positions are one based.  The slices of a target are the positions that     *)
(* carry it; lists whose order nobody observes are sets.                       *)
EXTENDS Integers, Sequences, FiniteSets

LOCAL INSTANCE SequencesExt
LOCAL INSTANCE FiniteSetsExt

CONSTANTS Params,     \* the parameters, an interval of naturals
          Eps         \* differences below Eps are no difference (f64::EPSILON)

ASSUME ParamsAssumption == Params \subseteq Nat
ASSUME EpsAssumption == Eps \in Nat \ {0}

Magnitude(n) == IF n < 0 THEN -n ELSE n
Differs(a, b) == Magnitude(a - b) >= Eps
Ascending(S) ==
    [k \in 1..Cardinality(S) |-> CHOOSE a \in S : Cardinality({b \in S : b <= a}) = k]

-----------------------------------------------------------------------------
(* Value expressions: a constant plus multiples of parameters.  The domain of  *)
(* terms is what the expression depends on, a multiple of zero included.       *)

Constant(c) == [const |-> c, terms |-> <<>>]
ScaledParam(scale, p) == [const |-> 0, terms |-> [q \in {p} |-> scale]]
Dependencies(e) == DOMAIN e.terms
IsConstant(e) == Dependencies(e) = {}

Scale(e, p) == IF p \in Dependencies(e) THEN e.terms[p] ELSE 0
Plus(e, f) ==
    [const |-> e.const + f.const,
     terms |-> [p \in Dependencies(e) \cup Dependencies(f) |->
                    Scale(e, p) + Scale(f, p)]]

Eval(e, values) ==
    e.const + MapThenSumSet(LAMBDA p : e.terms[p] * values[p], Dependencies(e))

-----------------------------------------------------------------------------
(* The arena: indices are never reused, removal bumps the generation.          *)

Vacant == [at |-> "vacant", pos |-> 0]
Packed(pos) == [at |-> "packed", pos |-> pos]
ParamBase(pos) == [at |-> "param", pos |-> pos]
Overlay(pos) == [at |-> "overlay", pos |-> pos]

\* The identity the arena hands out for its n-th allocation.
FreshId(n) == <<n, 0>>
Slot(loc) == [gen |-> 0, loc |-> loc]

Resolve(s, id) ==
    IF id[1] \in DOMAIN s.arena /\ s.arena[id[1]].gen = id[2]
    THEN s.arena[id[1]].loc
    ELSE Vacant

Release(s, id) ==
    [s EXCEPT !.arena[id[1]] = [gen |-> @.gen + 1, loc |-> Vacant]]

\* Every identity handed out so far.
Issued(s) == {FreshId(n) : n \in DOMAIN s.arena}

NotBuilt == -1

EmptyStore ==
    [arena |-> <<>>,
     base |-> <<>>, shadowed |-> {}, dead |-> {},
     pbase |-> <<>>, pshadowed |-> {}, pdead |-> {},
     positions |-> [p \in Params |-> {}], blocks |-> {},
     overlay |-> <<>>, byCell |-> <<>>, byParam |-> [p \in Params |-> {}],
     varIndex |-> NotBuilt, live |-> 0]

-----------------------------------------------------------------------------
(* Resolution of a cell.                                                       *)

(* Faulty: cells that were shadowed still show. *)
PackedLiveUnshadowed(s) == DOMAIN s.base \ s.dead

PackedLive(s) == DOMAIN s.base \ (s.dead \cup s.shadowed)
ParamLive(s) == DOMAIN s.pbase \ (s.pdead \cup s.pshadowed)
OverlayLive(s) == {i \in DOMAIN s.overlay : ~ s.overlay[i].tombstone}

\* base_position and param_position answer the first position with the key.
First(S) == CHOOSE i \in S : \A j \in S : i <= j
BasePosition(s, key) == {i \in PackedLive(s) : s.base[i].key = key}
ParamPosition(s, key) == {i \in ParamLive(s) : s.pbase[i].key = key}

\* The identity of the live cell at key, as a set of at most one: an overlay
\* entry, tombstones included, hides whatever the bases hold.
LiveId(s, key) ==
    IF key \in DOMAIN s.byCell
    THEN LET slot == s.overlay[s.byCell[key]] IN
         IF slot.tombstone THEN {} ELSE {slot.id}
    ELSE IF BasePosition(s, key) # {}
    THEN {s.base[First(BasePosition(s, key))].id}
    ELSE {s.pbase[i].id : i \in ParamPosition(s, key)}

Data(key, expr, cached) == [key |-> key, expr |-> expr, cached |-> cached]
PackedData(s, i) == Data(s.base[i].key, Constant(s.base[i].value), s.base[i].value)
ParamData(s, i) ==
    Data(s.pbase[i].key, ScaledParam(s.pbase[i].scale, s.pbase[i].param),
         s.pbase[i].cached)
OverlayData(s, i) == s.overlay[i].data

\* The cell an identity stands for, as a set of at most one.
Get(s, id) ==
    LET loc == Resolve(s, id) IN
    CASE loc.at = "packed"  -> {PackedData(s, i) : i \in {loc.pos} \cap PackedLive(s)}
      [] loc.at = "param"   -> {ParamData(s, i) : i \in {loc.pos} \cap ParamLive(s)}
      [] loc.at = "overlay" -> {OverlayData(s, i) : i \in {loc.pos} \cap OverlayLive(s)}
      [] loc.at = "vacant"  -> {}

IsOverlayCell(s, id) ==
    LET loc == Resolve(s, id) IN loc.at = "overlay" /\ loc.pos \in OverlayLive(s)

-----------------------------------------------------------------------------
(* Bulk construction.  A row is a function from its variables; the bases are   *)
(* filled in the order of the variables.                                       *)

(* Faulty: the index of the base by variable stays as it is. *)
AppendConstantRowStaleIndex(s, target, row) ==
    LET vs == Ascending(DOMAIN row)
        n == Len(s.base)
        a == Len(s.arena)
    IN  [s EXCEPT
           !.base = @ \o [k \in DOMAIN vs |->
                            [key |-> <<target, vs[k]>>, value |-> row[vs[k]],
                             id |-> FreshId(a + k)]],
           !.arena = @ \o [k \in DOMAIN vs |-> Slot(Packed(n + k))],
           !.live = @ + Len(vs)]

AppendConstantRow(s, target, row) ==
    LET vs == Ascending(DOMAIN row)
        n == Len(s.base)
        a == Len(s.arena)
    IN  [s EXCEPT
           !.varIndex = NotBuilt,
           !.base = @ \o [k \in DOMAIN vs |->
                            [key |-> <<target, vs[k]>>, value |-> row[vs[k]],
                             id |-> FreshId(a + k)]],
           !.arena = @ \o [k \in DOMAIN vs |-> Slot(Packed(n + k))],
           !.live = @ + Len(vs)]

\* A dependency block claims cells of the run, each for a parameter of its span,
\* all with its scale; no cell is claimed twice.
ValidBlocks(row, blocks) ==
    /\ \A b \in blocks :
          \A v \in DOMAIN b.claims :
             /\ b.claims[v] \in b.span
             /\ v \in DOMAIN row
             /\ row[v].param = b.claims[v]
             /\ row[v].scale = b.scale
    /\ \A b, c \in blocks : b # c => DOMAIN b.claims \cap DOMAIN c.claims = {}

(* Faulty: a run with blocks is taken to be covered by them. *)
UnclaimedWholeRun(row, blocks) ==
    IF blocks = {} THEN DOMAIN row ELSE {}

Unclaimed(row, blocks) == DOMAIN row \ UNION {DOMAIN b.claims : b \in blocks}

\* Cells claimed by a block get no entry in the reverse parameter index.
AppendParamRow(s, target, row, blocks) ==
    LET vs == Ascending(DOMAIN row)
        n == Len(s.pbase)
        a == Len(s.arena)
        Position(v) == n + CHOOSE k \in DOMAIN vs : vs[k] = v
    IN  [s EXCEPT
           !.pbase = @ \o [k \in DOMAIN vs |->
                             [key |-> <<target, vs[k]>>, param |-> row[vs[k]].param,
                              scale |-> row[vs[k]].scale,
                              cached |-> row[vs[k]].cached, id |-> FreshId(a + k)]],
           !.arena = @ \o [k \in DOMAIN vs |-> Slot(ParamBase(n + k))],
           !.positions = [p \in Params |-> @[p] \cup
                 {Position(v) : v \in {w \in Unclaimed(row, blocks) :
                                          row[w].param = p}}],
           !.blocks = @ \cup
                 {[span |-> b.span, scale |-> b.scale, target |-> target,
                   cells |-> {[pos |-> Position(v), param |-> b.claims[v]] :
                                 v \in DOMAIN b.claims}] : b \in blocks},
           !.live = @ + Len(vs)]

-----------------------------------------------------------------------------
(* The general path: every later change of a cell goes to the overlay.         *)

Unlinked(byParam, oi) == [p \in Params |-> byParam[p] \ {oi}]
Linked(byParam, oi, deps) ==
    [p \in Params |-> IF p \in deps THEN byParam[p] \cup {oi} ELSE byParam[p]]

UnlinkParamPosition(s, pos) ==
    [s EXCEPT !.positions[s.pbase[pos].param] = @ \ {pos}]

PushOverlay(s, id, data, tombstone) ==
    LET oi == Len(s.overlay) + 1 IN
    [s EXCEPT
       !.overlay = Append(@, [id |-> id, data |-> data, tombstone |-> tombstone]),
       !.byCell = [k \in DOMAIN @ \cup {data.key} |->
                      IF k = data.key THEN oi ELSE @[k]],
       !.byParam = IF tombstone THEN @
                   ELSE Linked(@, oi, Dependencies(data.expr))]

(* Faulty: the overlay entry gets an identity of its own. *)
ShadowRenamed(s, id, expr, cached) ==
    LET loc == Resolve(s, id)
        fresh == FreshId(Len(s.arena) + 1)
        key == (CHOOSE d \in Get(s, id) : TRUE).key
        hidden == IF loc.at = "packed"
                  THEN [s EXCEPT !.shadowed = @ \cup {loc.pos}]
                  ELSE UnlinkParamPosition(
                         [s EXCEPT !.pshadowed = @ \cup {loc.pos}], loc.pos)
    IN  PushOverlay([Release(hidden, id) EXCEPT
                       !.arena = Append(@, Slot(Overlay(Len(s.overlay) + 1)))],
                    fresh, Data(key, expr, cached), FALSE)

\* Shadow a packed cell: same identity, overlay data.
Shadow(s, id, expr, cached) ==
    LET loc == Resolve(s, id)
        key == (CHOOSE d \in Get(s, id) : TRUE).key
        hidden == IF loc.at = "packed"
                  THEN [s EXCEPT !.shadowed = @ \cup {loc.pos}]
                  ELSE UnlinkParamPosition(
                         [s EXCEPT !.pshadowed = @ \cup {loc.pos}], loc.pos)
    IN  PushOverlay([hidden EXCEPT
                       !.arena[id[1]].loc = Overlay(Len(s.overlay) + 1)],
                    id, Data(key, expr, cached), FALSE)

\* Replace expression and value of a live cell.
SetExpr(s, id, expr, cached) ==
    LET loc == Resolve(s, id) IN
    IF loc.at # "overlay" THEN Shadow(s, id, expr, cached)
    ELSE [s EXCEPT
            !.overlay[loc.pos].data.expr = expr,
            !.overlay[loc.pos].data.cached = cached,
            !.byParam = Linked(Unlinked(@, loc.pos), loc.pos, Dependencies(expr))]

\* Add to a live cell, or create the cell in the overlay.
AddFresh(s, key, expr, value) ==
    LET id == FreshId(Len(s.arena) + 1) IN
    PushOverlay([s EXCEPT !.arena = Append(@, Slot(Overlay(Len(s.overlay) + 1))),
                          !.live = @ + 1],
                id, Data(key, expr, value), FALSE)

Combine(s, id, expr, value) ==
    LET old == CHOOSE d \in Get(s, id) : TRUE IN
    SetExpr(s, id, Plus(old.expr, expr), old.cached + value)

Add(s, key, expr, value) ==
    IF LiveId(s, key) = {} THEN AddFresh(s, key, expr, value)
    ELSE Combine(s, CHOOSE id \in LiveId(s, key) : TRUE, expr, value)

\* Remove a cell: an overlay slot becomes a tombstone, a packed cell dies and
\* leaves a tombstone behind.
RemoveOverlay(s, pos) ==
    [s EXCEPT !.overlay[pos].tombstone = TRUE,
              !.byParam = Unlinked(@, pos),
              !.live = @ - 1]

RemovePacked(s, id, pos) ==
    [PushOverlay(s, id, PackedData(s, pos), TRUE) EXCEPT
        !.dead = @ \cup {pos}, !.live = @ - 1]

RemoveParam(s, id, pos) ==
    [UnlinkParamPosition(PushOverlay(s, id, ParamData(s, pos), TRUE), pos) EXCEPT
        !.pdead = @ \cup {pos}, !.live = @ - 1]

(* Faulty: the identity is not given back to the arena. *)
DiscardUnreleased(s, id) ==
    LET loc == Resolve(s, id) IN
    CASE loc.at = "overlay" -> RemoveOverlay(s, loc.pos)
      [] loc.at = "packed"  -> RemovePacked(s, id, loc.pos)
      [] loc.at = "param"   -> RemoveParam(s, id, loc.pos)
      [] loc.at = "vacant"  -> s

Discard(s, id) ==
    LET loc == Resolve(s, id)
        t == Release(s, id)
    IN  CASE loc.at = "overlay" -> RemoveOverlay(t, loc.pos)
          [] loc.at = "packed"  -> RemovePacked(t, id, loc.pos)
          [] loc.at = "param"   -> RemoveParam(t, id, loc.pos)
          [] loc.at = "vacant"  -> s

\* One cell after the other.
Removing(s, ids) ==
    LET after[k \in 0 .. Len(ids)] == IF k = 0 THEN s ELSE Discard(after[k - 1], ids[k])
    IN  after
RemoveAll(s, ids) == Removing(s, ids)[Len(ids)]

-----------------------------------------------------------------------------
(* Queries.                                                                    *)

\* The index of the packed base by variable is built on first use and covers
\* the base as it is then.
EnsureVarIndex(s) ==
    IF s.varIndex = NotBuilt THEN [s EXCEPT !.varIndex = Len(s.base)] ELSE s

\* Identities are collected base, parametric base, overlay, in that order.
IdsAt(s, packed, param, overlay) ==
    LET P == Ascending(packed)
        Q == Ascending(param)
        O == Ascending(overlay)
    IN  [k \in DOMAIN P |-> s.base[P[k]].id]
          \o [k \in DOMAIN Q |-> s.pbase[Q[k]].id]
          \o [k \in DOMAIN O |-> s.overlay[O[k]].id]

ForVar(s, v) ==
    LET Own(key) == key[2] = v
        t == EnsureVarIndex(s)
    IN  IdsAt(t, {i \in PackedLive(t) : i <= t.varIndex /\ Own(t.base[i].key)},
                 {i \in ParamLive(t) : Own(t.pbase[i].key)},
                 {i \in OverlayLive(t) : Own(t.overlay[i].data.key)})

ForTarget(s, target) ==
    LET Own(key) == key[1] = target IN
    IdsAt(s, {i \in PackedLive(s) : Own(s.base[i].key)},
             {i \in ParamLive(s) : Own(s.pbase[i].key)},
             {i \in OverlayLive(s) : Own(s.overlay[i].data.key)})

OverlayIdsForParam(s, p) ==
    {s.overlay[i].id : i \in s.byParam[p] \cap OverlayLive(s)}

BlockPositions(s, p) ==
    UNION {{c.pos : c \in {d \in b.cells : d.param = p}} :
              b \in {a \in s.blocks : p \in a.span}}

ForParam(s, p) ==
    OverlayIdsForParam(s, p) \cup
    {s.pbase[i].id : i \in (s.positions[p] \cup BlockPositions(s, p)) \cap ParamLive(s)}

Iter(s) == {PackedData(s, i) : i \in PackedLive(s)}
             \cup {ParamData(s, i) : i \in ParamLive(s)}
             \cup {OverlayData(s, i) : i \in OverlayLive(s)}

-----------------------------------------------------------------------------
(* Propagation of parameter values.                                            *)

ParamValue(s, pos, values) == s.pbase[pos].scale * values[s.pbase[pos].param]

\* Live positions among the candidates whose cached value moves.
Moved(s, candidates, values) ==
    {i \in candidates \cap ParamLive(s) :
        Differs(s.pbase[i].cached, ParamValue(s, i, values))}

Refresh(s, moved, values) ==
    [s EXCEPT !.pbase = [i \in DOMAIN @ |->
        IF i \in moved THEN [@[i] EXCEPT !.cached = ParamValue(s, i, values)]
        ELSE @[i]]]

\* The positions the per cell index, and the blocks that overlap the span, list
\* for the parameters of a span.
IndexedPositions(s, span) == UNION {s.positions[p] : p \in span}
SpanPositions(s, span) == UNION {BlockPositions(s, p) : p \in span}

\* Overlay cells evaluate their expressions.
OverlayMoved(s, p, values) ==
    {id \in OverlayIdsForParam(s, p) :
        LET data == s.overlay[Resolve(s, id).pos].data
        IN  Differs(data.cached, Eval(data.expr, values))}

SetCachedValue(s, ids, values) ==
    [s EXCEPT !.overlay = [i \in DOMAIN @ |->
        IF @[i].id \in ids /\ ~ @[i].tombstone
        THEN [@[i] EXCEPT !.data.cached = Eval(s.overlay[i].data.expr, values)]
        ELSE @[i]]]
=============================================================================
