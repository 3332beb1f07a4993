------------------------------ MODULE PyBindings ------------------------------
(* The Python bindings: programs that write models (PyModel), give names to what  *)
(* is in them and solve them (PySession).  What a program writes goes into the    *)
(* one model it edits, under its lock and marked like every edit.                 *)
EXTENDS PySession, PyModel

ASSUME VarsAssumption == Vars \subseteq Nat \ {0}
ASSUME ValuesAssumption == Values \subseteq -Big..Big /\ Initially \in Values
ASSUME WritesAssumption == \A p \in Programs : p.writes \in BOOLEAN

written == <<value, means, steps, values, objective, rows, templates>>
allVars == <<vars, written>>

Write ==
    /\ program.writes
    /\ Build
    /\ UNCHANGED vars

StoreIn(t, m) ==
    /\ program.writes
    /\ More
    /\ call[t] = None
    /\ Free(m)
    /\ Store
    /\ Marked(m)
    /\ UNCHANGED <<program, state, sessions, lockedBy, poisoned, call, solution>>

BindingsInit ==
    /\ Init
    /\ \E start \in IF program.writes THEN Start ELSE {NumberScalar(0)} : Begin(start)

BindingsNext ==
    \/ ~ program.writes /\ Next /\ UNCHANGED written
    \/ Write
    \/ \E t \in program.threads, m \in program.models : StoreIn(t, m)

BindingsSpec == BindingsInit /\ [][BindingsNext]_allVars
=============================================================================
