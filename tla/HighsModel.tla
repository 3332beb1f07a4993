------------------------------ MODULE HighsModel ------------------------------
(***************************************************************************)
(* The native model of the HiGHS adapter, src/roml-highs/src/compiler.rs,  *)
(* as operators on a value: what each BackendOp does to it and what a      *)
(* rebuild from a compiled snapshot leaves.                                *)
(*                                                                         *)
(* HiGHS has one objective, so the adapter caches the costs and the offset *)
(* of every compiled objective (`costs`, `penalties`, `offsets`) and keeps *)
(* those of the active one in the native columns (`colCost`, `charged`,    *)
(* `offset`).  Columns and rows are named by the user's variables and      *)
(* constraints: compiled ids and native indices only rename them, and the  *)
(* operators never reuse a name.  A bound is the set of values it admits.  *)
(* The columns and rows that the bridge of a construct generates are one   *)
(* value, generated[k]; the cost of its violation columns in an objective  *)
(* is whether k is in that objective's penalties.                          *)
(***************************************************************************)
CONSTANTS
    Var,        \* variables
    Con,        \* constraints
    Obj,        \* objectives
    Construct,  \* semantic constructs
    None

Column(bounds, type) == [bounds |-> bounds, type |-> type]

NoCosts == [v \in Var |-> 0]

EmptyNative ==
    [cols      |-> [v \in Var |-> None],
     rows      |-> [c \in Con |-> None],
     coeff     |-> [c \in Con |-> NoCosts],
     objectives |-> {},
     costs     |-> [o \in Obj |-> NoCosts],
     penalties |-> [o \in Obj |-> {}],
     offsets   |-> [o \in Obj |-> 0],
     generated |-> [k \in Construct |-> None],
     active    |-> None,
     colCost   |-> NoCosts,
     charged   |-> {},
     offset    |-> 0]

-----------------------------------------------------------------------------
(* Columns and rows: apply_backend_delta *)

AddColumn(n, v, bounds, type) == [n EXCEPT !.cols[v] = Column(bounds, type)]

\* Deleting a column deletes its coefficients and its costs, cached or not.
RemoveColumn(n, v) ==
    [n EXCEPT !.cols[v] = None,
              !.coeff = [c \in Con |-> [n.coeff[c] EXCEPT ![v] = 0]],
              !.costs = [o \in Obj |-> [n.costs[o] EXCEPT ![v] = 0]],
              !.colCost[v] = 0]

SetColumnBounds(n, v, bounds) == [n EXCEPT !.cols[v].bounds = bounds]

AddRow(n, c, bounds, cells) ==
    [n EXCEPT !.rows[c] = bounds, !.coeff[c] = cells]

RemoveRow(n, c) == [n EXCEPT !.rows[c] = None, !.coeff[c] = NoCosts]

SetRowBounds(n, c, bounds) == [n EXCEPT !.rows[c] = bounds]

\* Removing a coefficient sets it to zero.
SetNativeCoefficient(n, c, v, x) == [n EXCEPT !.coeff[c][v] = x]

-----------------------------------------------------------------------------
(* Objectives: apply_backend_delta *)

AddObjectiveTo(n, o) ==
    [n EXCEPT !.objectives = @ \cup {o},
              !.costs[o] = NoCosts, !.penalties[o] = {}, !.offsets[o] = 0]

WithoutCosts(n) == [n EXCEPT !.colCost = NoCosts, !.charged = {}, !.offset = 0]

RemoveObjectiveFrom(n, o) ==
    LET forgotten == [n EXCEPT !.objectives = @ \ {o}, !.costs[o] = NoCosts,
                               !.penalties[o] = {}, !.offsets[o] = 0]
    IN IF n.active = o
       THEN [WithoutCosts(forgotten) EXCEPT !.active = None]
       ELSE forgotten

SetCost(n, o, v, x) ==
    [n EXCEPT !.costs[o][v] = x,
              !.colCost[v] = IF n.active = o THEN x ELSE @]

\* Faulty: the constant of the active objective is only cached.
SetOffsetCacheOnly(n, o, x) == [n EXCEPT !.offsets[o] = x]

SetOffset(n, o, x) ==
    [n EXCEPT !.offsets[o] = x,
              !.offset = IF n.active = o THEN x ELSE @]

\* Faulty: the costs of the previous objective are not cleared.
ProjectOver(n, policy) ==
    IF policy = None
    THEN [n EXCEPT !.active = None, !.offset = 0]
    ELSE [n EXCEPT !.active = policy,
                   !.colCost = [v \in Var |->
                       IF n.costs[policy][v] = 0 THEN @[v] ELSE n.costs[policy][v]],
                   !.charged = @ \cup n.penalties[policy],
                   !.offset = n.offsets[policy]]

(* project_objective_policy: clear every cost, then apply the cached costs *)
(* and offset of the objective the policy names.                           *)
Project(n, policy) ==
    IF policy = None
    THEN [WithoutCosts(n) EXCEPT !.active = None]
    ELSE [n EXCEPT !.active = policy, !.colCost = n.costs[policy],
                   !.charged = n.penalties[policy],
                   !.offset = n.offsets[policy]]

(* rebuild_from_backend_snapshot: Highs_clear and every cache cleared, then *)
(* the compiled snapshot s column by column, row by row, objective by       *)
(* objective, and its policy.                                               *)
RebuildFrom(s) ==
    Project([EmptyNative EXCEPT
                !.cols = s.cols, !.rows = s.rows, !.coeff = s.coeff,
                !.objectives = s.objectives, !.costs = s.costs,
                !.penalties = s.penalties, !.offsets = s.offsets,
                !.generated = s.generated],
            s.policy)
=============================================================================
