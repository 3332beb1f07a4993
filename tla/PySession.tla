------------------------------ MODULE PySession ------------------------------
(***************************************************************************)
(* Python threads that edit models and solve them in sessions               *)
(* (roml-python/src/model.rs, solver.rs, solution.rs).  Every lock is tried, *)
(* never waited for; a call that finds one taken raises an error and changes *)
(* nothing.  The interpreter lock makes an edit one step.  It is given away *)
(* while a solve runs, which holds session and model, and may change hands  *)
(* between the checks a solve makes before it and while an update converts  *)
(* the values it was given, which holds the model.                          *)
(***************************************************************************)
EXTENDS PyNames

CONSTANTS
    Threads,
    Sessions,
    Models,
    Settings,   \* values parameters are updated to
    Programs,   \* what is asked of them: the threads, sessions and models that take
                \*   part, the names and lengths of arrays asked for, and how many edits are made
    None

ASSUME ProgramsAssumption ==
    \A p \in Programs :
        /\ p.threads \subseteq Threads /\ p.sessions \subseteq Sessions /\ p.models \subseteq Models
        /\ p.names \subseteq Seq(Nat) \ {<<>>} /\ p.lengths \subseteq Nat /\ p.edits \in Nat

\* No thread is None, which stands for nobody in lockedBy.
ASSUME NoneAssumption == None \notin Threads

VARIABLES
    program,    \* the one that runs
    state,      \* per model: its names and parameter values
    pending,    \* per model: edited since it was last solved
    revision,   \* per model: py_revision
    sessions,   \* per session: the model it is bound to and whether it is closed
    lockedBy,   \* per model and session: the thread that holds it, or None
    poisoned,   \* models and sessions whose lock is poisoned
    call,       \* per thread: the call it is in, None when it is in none
    solution    \* per thread: the last solution it got, or None

vars == <<program, state, pending, revision, sessions, lockedBy, poisoned, call, solution>>

Edits == FoldFunction(+, 0, revision)
More == Edits < program.edits

\* try_model_state and lock_session.
Free(x) == lockedBy[x] = None /\ x \notin poisoned

-----------------------------------------------------------------------------
(* Edits.                                                                        *)

\* pending and py_revision, set by every edit that succeeds.
Marked(m) ==
    /\ pending' = [pending EXCEPT ![m] = TRUE]
    /\ revision' = [revision EXCEPT ![m] = @ + 1]

Become(m, edited) ==
    /\ edited # state[m]
    /\ state' = [state EXCEPT ![m] = edited]
    /\ Marked(m)
    /\ UNCHANGED <<sessions, poisoned, solution>>

Edit(t, m) ==
    /\ call[t] = None
    /\ More
    /\ Free(m)
    /\ \E name \in program.names :
          \/ Become(m, NewVar(state[m], name))
          \/ Become(m, NewParam(state[m], name))
          \/ Become(m, AddConstraint(state[m], name))
          \/ \E len \in program.lengths :
                \/ Become(m, NewVars(state[m], name, len))
                \/ Become(m, NewParams(state[m], name, len))
                \/ Become(m, AddArray(state[m], name, len))
                \/ Become(m, AddLinearRows(state[m], name, len))
    /\ UNCHANGED <<lockedBy, call>>

\* update holds the model while it converts its arguments.
BeginUpdate(t, m) ==
    /\ call[t] = None
    /\ More
    /\ Free(m)
    /\ call' = [call EXCEPT ![t] = [is |-> "update", model |-> m]]
    /\ lockedBy' = [lockedBy EXCEPT ![m] = t]
    /\ UNCHANGED <<state, pending, revision, sessions, poisoned, solution>>

\* An update may set parameters to what they were: that counts as an edit too.
EndUpdate(t) ==
    /\ call[t] # None /\ call[t].is = "update"
    /\ LET m == call[t].model IN
       /\ lockedBy' = [lockedBy EXCEPT ![m] = None]
       /\ \/ \E name \in program.names, v \in Settings :
                LET params == Updated(state[m], name) IN
                /\ params # {}
                /\ More
                /\ state' = [state EXCEPT ![m] = Install(@, params, v)]
                /\ Marked(m)
          \/ UNCHANGED <<state, pending, revision>>
    /\ call' = [call EXCEPT ![t] = None]
    /\ UNCHANGED <<sessions, poisoned, solution>>

-----------------------------------------------------------------------------
(* Solving.                                                                      *)

\* solve, attached: the session is looked at and left; a start needs a solution.
Check(t, s, m, start) ==
    /\ call[t] = None
    /\ Free(s) /\ ~ sessions[s].closed
    /\ start # None => \E u \in Threads : solution[u] = start
    /\ call' = [call EXCEPT ![t] = [is |-> "checked", session |-> s, model |-> m, start |-> start]]
    /\ UNCHANGED <<state, pending, revision, sessions, lockedBy, poisoned, solution>>

Return(t) == call' = [call EXCEPT ![t] = None]

Binds(s, m) == sessions[s].bound \in {None, m}
Starts(start, m) == start = None \/ start.model = m

(* Faulty: that the session is open was seen before. *)
EnterSolveUnchecked(t) ==
    /\ call[t] # None /\ call[t].is = "checked"
    /\ LET s == call[t].session  m == call[t].model IN
       IF Free(s) /\ Free(m) /\ Binds(s, m) /\ Starts(call[t].start, m) THEN
          /\ sessions' = [sessions EXCEPT ![s].bound = m]
          /\ lockedBy' = [lockedBy EXCEPT ![s] = t, ![m] = t]
          /\ call' = [call EXCEPT ![t].is = "solving"]
       ELSE Return(t) /\ UNCHANGED <<sessions, lockedBy>>
    /\ UNCHANGED <<state, pending, revision, poisoned, solution>>

\* solve_detached up to the solve: session, then model; the session is bound to its
\* first model before the start is looked at.
EnterSolve(t) ==
    /\ call[t] # None /\ call[t].is = "checked"
    /\ LET s == call[t].session
           m == call[t].model
           binds == Free(s) /\ ~ sessions[s].closed /\ Free(m) /\ Binds(s, m)
       IN
       /\ sessions' = IF binds THEN [sessions EXCEPT ![s].bound = m] ELSE sessions
       /\ IF binds /\ Starts(call[t].start, m)
          THEN /\ lockedBy' = [lockedBy EXCEPT ![s] = t, ![m] = t]
               /\ call' = [call EXCEPT ![t].is = "solving"]
          ELSE Return(t) /\ UNCHANGED lockedBy
    /\ UNCHANGED <<state, pending, revision, poisoned, solution>>

Solving(t) == call[t] # None /\ call[t].is = "solving"

Released(t) == lockedBy' = [x \in DOMAIN lockedBy |-> IF lockedBy[x] = t THEN None ELSE lockedBy[x]]

\* A solution: `of` is the model as it was solved, `sound` that the session was fit
\* to solve it.
Solved(t) ==
    /\ Solving(t)
    /\ LET s == call[t].session  m == call[t].model IN
       /\ pending' = [pending EXCEPT ![m] = FALSE]
       /\ solution' = [solution EXCEPT ![t] =
             [model |-> m, revision |-> revision[m], of |-> state[m],
              sound |-> ~ sessions[s].closed /\ sessions[s].bound = m
                        /\ {s, m} \cap poisoned = {} /\ lockedBy[s] = t /\ lockedBy[m] = t]]
    /\ Released(t) /\ Return(t)
    /\ UNCHANGED <<state, revision, sessions, poisoned>>

SolveFails(t) ==
    /\ Solving(t)
    /\ Released(t) /\ Return(t)
    /\ UNCHANGED <<state, pending, revision, sessions, poisoned, solution>>

\* A panic below the bindings leaves both locks poisoned: neither is used again.
Panics(t) ==
    /\ Solving(t)
    /\ poisoned' = poisoned \cup {call[t].session, call[t].model}
    /\ Released(t) /\ Return(t)
    /\ UNCHANGED <<state, pending, revision, sessions, solution>>

\* close destroys the native session; with a solve in it, it raises an error.
Close(t, s) ==
    /\ call[t] = None
    /\ Free(s)
    /\ sessions' = [sessions EXCEPT ![s].closed = TRUE]
    /\ UNCHANGED <<state, pending, revision, lockedBy, poisoned, call, solution>>

Init ==
    /\ program \in Programs
    /\ state = [m \in Models |-> NoNames]
    /\ pending = [m \in Models |-> TRUE]
    /\ revision = [m \in Models |-> 0]
    /\ sessions = [s \in Sessions |-> [bound |-> None, closed |-> FALSE]]
    /\ lockedBy = [x \in Models \cup Sessions |-> None]
    /\ poisoned = {}
    /\ call = [t \in Threads |-> None]
    /\ solution = [t \in Threads |-> None]

Next == UNCHANGED program /\ \E t \in program.threads :
    \/ \E m \in program.models : Edit(t, m) \/ BeginUpdate(t, m)
    \/ EndUpdate(t)
    \/ \E s \in program.sessions, m \in program.models :
          \E start \in {None} \cup {solution[u] : u \in Threads} : Check(t, s, m, start)
    \/ EnterSolve(t) \/ Solved(t) \/ SolveFails(t) \/ Panics(t)
    \/ \E s \in program.sessions : Close(t, s)

Spec == Init /\ [][Next]_vars

-----------------------------------------------------------------------------
(* Properties.                                                                   *)

\* Solution::is_current, a model that cannot be looked at being not current.
(* Faulty: only whether anything is pending is asked. *)
IsCurrentPending(sol, m) == Free(m) /\ sol.model = m /\ ~ pending[m]

IsCurrent(sol, m) ==
    Free(m) /\ sol.model = m /\ ~ pending[m] /\ sol.revision = revision[m]

\* A solution that calls itself current for a model was computed from that model as
\* it now is, in a session that was open, bound to it and never broken, whatever the
\* threads edited, closed or broke meanwhile (solver.rs solve, solve_detached, close;
\* solution.rs is_current).
CurrentMeansSolved ==
    \A t \in Threads : solution[t] # None =>
        /\ solution[t].sound
        /\ \A m \in Models : IsCurrent(solution[t], m) => solution[t].of = state[m]

\* The names reserved without being stored answer like a list of all names would: no
\* name was given twice among variables, parameters and their arrays, nor among
\* constraints; a name leads to what it was given to; and a new array is refused just
\* when one of its names is taken (namespace.rs; model.rs var, param, vars, params).
GivenOnce(pairs) == \A a, b \in pairs : a[1] = b[1] => a = b

NamesExact ==
    \A m \in Models :
        LET n == state[m]
            taken == {pair[1] : pair \in n.given} \cup n.arrayNames
        IN
        /\ GivenOnce(n.given)
        /\ GivenOnce(n.conGiven)
        /\ \A name \in DOMAIN n.paramNames : <<name, n.paramNames[name]>> \in n.given
        /\ \A pair \in n.conGiven : n.conNames[pair[1]] = pair[2]
        /\ \A name \in program.names, len \in program.lengths :
              ArrayRefused(n, name, len) <=> ({name} \cup ElementsOf(name, len)) \cap taken # {}
=============================================================================
