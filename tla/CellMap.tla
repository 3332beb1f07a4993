------------------------------- MODULE CellMap -------------------------------
(* What a coefficient store promises (the contract in the header of            *)
(* src/model/coefficient.rs): one cell for every (target, variable) pair, an   *)
(* algebraic sum when something is added to a cell that exists, an identity    *)
(* that stays with its cell through every change of it, and identities that    *)
(* never come back once their cell is gone.                                    *)
CONSTANTS Targets, Vars,
          Addends,          \* the expressions that may be added to a cell
          Replacements,     \* the expressions a cell may be set to
          Sum(_, _)         \* the algebraic sum of two expressions

VARIABLES cells,            \* for every cell its identity and expression
          used              \* the identities handed out so far

Keys == Targets \X Vars
Ids == {cells[k].id : k \in DOMAIN cells}

Init ==
    /\ cells = <<>>
    /\ used = {}

\* Terms are added to one target: new cells get new identities, each its own.
Accumulate(K) ==
    LET New == K \ DOMAIN cells IN
    /\ DOMAIN cells' = DOMAIN cells \cup K
    /\ \A k \in DOMAIN cells \ K : cells'[k] = cells[k]
    /\ \A k \in K \ New :
          /\ cells'[k].id = cells[k].id
          /\ \E e \in Addends : cells'[k].expr = Sum(cells[k].expr, e)
    /\ \A k \in New : cells'[k].id \notin used
    /\ \A k, m \in New : cells'[k].id = cells'[m].id => k = m
    /\ used' = used \cup {cells'[k].id : k \in New}

Replace(k) ==
    /\ k \in DOMAIN cells
    /\ \E e \in Replacements : cells' = [cells EXCEPT ![k].expr = e]
    /\ UNCHANGED used

\* Exactly the cells in K disappear; none of the others is touched.
Drop(K) ==
    /\ cells' = [k \in DOMAIN cells \ K |-> cells[k]]
    /\ UNCHANGED used

Next ==
    \/ \E t \in Targets, V \in SUBSET Vars : Accumulate({t} \X V)
    \/ \E k \in Keys : Replace(k) \/ Drop({k})
    \/ \E t \in Targets : Drop({k \in Keys : k[1] = t})
    \/ \E v \in Vars : Drop({k \in Keys : k[2] = v})

Spec == Init /\ [][Next]_<<cells, used>>
=============================================================================
