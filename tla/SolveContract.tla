---------------------------- MODULE SolveContract ---------------------------
(***************************************************************************)
(* What a solver session promises its caller, with no journal, compiler,   *)
(* backend or failure in sight (the doc comments of SolverSession and of   *)
(* solve_plan, src/src/solver/facade.rs):                                  *)
(*                                                                         *)
(*    a successful answer to a request for a model is the answer to        *)
(*    exactly the state of that model that is committed when the answer is *)
(*    given, with exactly the temporary additions the caller asked for.    *)
(*                                                                         *)
(* An attempt may also fail, at any time and for any reason.               *)
(***************************************************************************)
EXTENDS Naturals

CONSTANTS Models, MaxRevision, None

VARIABLES
    committed,  \* per model: its committed revision
    request,    \* the request being served: a model, with an overlay or not
    answered    \* the outcome of the last request, None while one is served

vars == <<committed, request, answered>>

Failed == [ok |-> FALSE]
Solved(m, r, extra) ==
    [ok |-> TRUE, solved |-> [model |-> m, revision |-> r, extra |-> extra]]

Init ==
    /\ committed = [m \in Models |-> 0]
    /\ request = None
    /\ answered = None

\* Revisions only grow.
Grow ==
    /\ committed' \in [Models -> 0..MaxRevision]
    /\ \A m \in Models : committed'[m] >= committed[m]

\* Models change between requests.
Edit ==
    /\ request = None
    /\ Grow
    /\ UNCHANGED <<request, answered>>

\* Serving a request starts by committing what is pending.
Request(m, o) ==
    /\ request = None
    /\ Grow
    /\ request' = [model |-> m, overlay |-> o]
    /\ answered' = None

Answer ==
    /\ request # None
    /\ request' = None
    /\ answered' = Solved(request.model, committed[request.model],
                          IF request.overlay THEN {"overlay"} ELSE {})
    /\ UNCHANGED committed

Fail ==
    /\ request' = None
    /\ answered' = Failed
    /\ UNCHANGED committed

Next ==
    \/ Edit \/ Answer \/ Fail
    \/ \E m \in Models, o \in BOOLEAN : Request(m, o)

Spec == Init /\ [][Next]_vars
=============================================================================
