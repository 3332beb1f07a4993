-------------------------- MODULE ConflictReduction --------------------------
(***************************************************************************)
(* The analysis of an infeasible model: an isolated session around one     *)
(* feasibility oracle, a native seed that is only trusted once it is       *)
(* checked, and the reducer that deletes atoms from a proven conflict      *)
(* within a budget of oracle calls and iterations.                         *)
(*                                                                         *)
(* Atoms are numbered in the order of the conflict universe, so that a     *)
(* selection is a set and a position in it is what is still to come.  A    *)
(* limit is a set of at most one number; the empty set is no limit.        *)
(***************************************************************************)
EXTENDS Integers, FiniteSets

CONSTANTS
    N,          \* number of atoms of the conflict universe
    Families,   \* the families of minimal conflicts a model may have
    Plans       \* mode, seedPolicy, reduction, maxCalls, maxIterations

Atoms == 1 .. N

ASSUME NAssumption == N \in Nat
ASSUME FamiliesAssumption == Families \subseteq SUBSET SUBSET Atoms
ASSUME PlansAssumption ==
    Plans \subseteq [mode : {"Auto", "NativeOnly", "NativeThenRoml", "RomlPortable"},
                     seedPolicy : {"Adaptive", "FullUniverse"},
                     reduction : {"Adaptive", "DeletionFilter"},
                     maxCalls : SUBSET Nat, maxIterations : SUBSET Nat]

VARIABLES
    conflicts,   \* the minimal conflicts of the model under analysis
    plan,
    phase,
    cache,       \* selection -> the oracle's last answer
    calls,       \* oracle_calls: answers of the oracle, cache hits excluded
    gaveUp,      \* history: whether one of them was undecided
    iterations,
    seed,        \* the selection the reduction starts from
    selected,    \* the reducer's current conflict
    todo,        \* its members the current pass has not come to
    chunk,       \* chunk_size
    exhausted,
    guarantee,
    report       \* empty, or the one report or error returned

vars == <<conflicts, plan, phase, cache, calls, gaveUp, iterations, seed, selected, todo, chunk,
          exhausted, guarantee, report>>
oracleVars == <<cache, calls, gaveUp>>
reducerVars == <<iterations, selected, todo, chunk, exhausted, guarantee>>

Infeasible(S) == \E c \in conflicts : c \subseteq S
Minimal(S) == Infeasible(S) /\ \A T \in SUBSET S : T # S => ~Infeasible(T)

-----------------------------------------------------------------------------
(* The session around the oracle                                           *)

Proof(S) == IF Infeasible(S) THEN "infeasible" ELSE "feasible"
CallsLeft == \A limit \in plan.maxCalls : calls < limit
Hit(S, fresh) == ~fresh /\ S \in DOMAIN cache

\* check and check_fresh: the oracle proves what is the case or gives up.
Consult(S, fresh, o) ==
    /\ o \in {Proof(S), "unknown"}
    /\ calls' = calls + 1
    /\ gaveUp' = (gaveUp \/ o = "unknown")
    /\ cache' = [T \in (IF fresh THEN {} ELSE DOMAIN cache) \cup {S} |-> IF T = S THEN o ELSE cache[T]]

\* limited_check: "none" when the answer is not known and no call is left.
Ask(S, fresh, o) ==
    \/ Hit(S, fresh) /\ o = cache[S] /\ UNCHANGED oracleVars
    \/ ~Hit(S, fresh) /\ CallsLeft /\ Consult(S, fresh, o)
    \/ ~Hit(S, fresh) /\ ~CallsLeft /\ o = "none" /\ UNCHANGED oracleVars

Outcomes == {"infeasible", "feasible", "unknown", "none"}

Returns(r) == phase' = "done" /\ report' = {r}
Error(why) == [outcome |-> "Error", guarantee |-> why, members |-> {}, completion |-> "Complete"]
Result(outcome, strength, members, completion) ==
    [outcome |-> outcome, guarantee |-> strength, members |-> members, completion |-> completion]

\* completion_for_analysis, when the full universe was not proven infeasible.
Inconclusive == Result("NoConflictProof", "None", {},
    IF Atoms \in DOMAIN cache /\ cache[Atoms] = "unknown" THEN "OracleGaveUp"
    ELSE IF ~CallsLeft THEN "OracleCallLimit" ELSE "Complete")

-----------------------------------------------------------------------------
(* analyze_infeasibility up to the reduction                               *)

Init ==
    /\ conflicts \in Families
    /\ plan \in Plans
    /\ phase = "full"
    /\ cache = [S \in {} |-> "unknown"]
    /\ calls = 0
    /\ gaveUp = FALSE
    /\ iterations = 0
    /\ seed = Atoms
    /\ selected = {}
    /\ todo = {}
    /\ chunk = 0
    /\ exhausted = FALSE
    /\ guarantee = "Irreducible"
    /\ report = {}

NativeRequested ==
    /\ plan.mode # "RomlPortable"
    /\ plan.seedPolicy = "Adaptive" \/ plan.mode \in {"NativeOnly", "NativeThenRoml"}

\* No oracle call at all: the reducer refuses to say anything.
SkipFullCheck ==
    /\ phase = "full"
    /\ 0 \in plan.maxCalls
    /\ Returns(Inconclusive)
    /\ UNCHANGED <<conflicts, plan, oracleVars, seed, reducerVars>>

CheckFullUniverse ==
    /\ phase = "full"
    /\ 0 \notin plan.maxCalls
    /\ \E o \in Outcomes :
        /\ Consult(Atoms, FALSE, o)
        /\ phase' = IF o = "infeasible" /\ NativeRequested THEN "native" ELSE "initial"
    /\ UNCHANGED <<conflicts, plan, seed, reducerVars, report>>

\* The provider fails or is not supported: only Auto goes on without it.
NativeFails ==
    /\ phase = "native"
    /\ IF plan.mode = "Auto" THEN phase' = "initial" /\ UNCHANGED report ELSE Returns(Error("native"))
    /\ UNCHANGED <<conflicts, plan, oracleVars, seed, reducerVars>>

\* The provider's members, right or wrong, mapped to atoms.
NativeAnswers ==
    /\ phase = "native"
    /\ \E members \in SUBSET Atoms :
        IF members # {} THEN seed' = members /\ phase' = "seed" /\ UNCHANGED report
        ELSE /\ UNCHANGED seed
             /\ IF plan.mode = "NativeOnly" THEN Returns(Error("unmappable"))
                ELSE phase' = "initial" /\ UNCHANGED report
    /\ UNCHANGED <<conflicts, plan, oracleVars, reducerVars>>

\* The selection to reduce once the native seed was looked at.
SeedFrom(o) == IF o = "infeasible" THEN seed ELSE Atoms

CheckNativeSeed ==
    /\ phase = "seed"
    /\ \E o \in Outcomes :
        /\ IF CallsLeft THEN Ask(seed, FALSE, o) ELSE o = "none" /\ UNCHANGED oracleVars
        /\ \/ /\ plan.mode # "Auto"
              /\ o \in {"feasible", "unknown"}
              /\ Returns(Error("verification"))
              /\ UNCHANGED seed
           \/ /\ plan.mode = "NativeOnly"
              /\ o \in {"infeasible", "none"}
              /\ Returns(Result("Conflict", "NativeReported", seed, "Complete"))
              /\ UNCHANGED seed
           \/ /\ \/ plan.mode = "Auto"
                 \/ plan.mode = "NativeThenRoml" /\ o \in {"infeasible", "none"}
              /\ seed' = SeedFrom(o)
              /\ phase' = "initial"
              /\ UNCHANGED report
    /\ UNCHANGED <<conflicts, plan, reducerVars>>

-----------------------------------------------------------------------------
(* The reducer                                                             *)

\* Whether another iteration is allowed.
IterationsLeft == \A limit \in plan.maxIterations : iterations < limit
Half(k) == IF k \div 2 > 1 THEN k \div 2 ELSE 1

CheckSeed ==
    /\ phase = "initial"
    /\ \E o \in Outcomes :
        /\ Ask(seed, FALSE, o)
        /\ \/ /\ o = "infeasible"
              /\ selected' = seed
              /\ chunk' = Half(Cardinality(seed))
              /\ todo' = seed
              /\ phase' = IF plan.reduction = "Adaptive" THEN "round" ELSE "filter"
              /\ UNCHANGED report
           \/ /\ o = "feasible"
              /\ Returns(Result("NoConflict", "None", {}, "Complete"))
              /\ UNCHANGED <<selected, chunk, todo>>
           \/ /\ o \in {"unknown", "none"}
              /\ Returns(Inconclusive)
              /\ UNCHANGED <<selected, chunk, todo>>
    /\ UNCHANGED <<conflicts, plan, seed, iterations, exhausted, guarantee>>

\* A round of chunk deletions, or the deletion filter when they are over.
StartRound ==
    /\ phase = "round"
    /\ todo' = selected
    /\ IF Cardinality(selected) > 1 /\ IterationsLeft
       THEN phase' = "chunks" /\ iterations' = iterations + 1 /\ UNCHANGED exhausted
       ELSE /\ phase' = "filter"
            /\ exhausted' = (exhausted \/ Cardinality(selected) > 1)
            /\ UNCHANGED iterations
    /\ UNCHANGED <<conflicts, plan, oracleVars, seed, selected, chunk, guarantee, report>>

FirstChunk == {e \in todo : Cardinality({d \in todo : d < e}) < chunk}
RoundOver == todo = {} \/ Cardinality(selected) <= 1

(* Faulty: the position stays when a chunk is kept.                         *)
DeleteChunkAgain ==
    /\ phase = "chunks"
    /\ ~RoundOver
    /\ \E o \in Outcomes :
        /\ Ask(selected \ FirstChunk, FALSE, o)
        /\ selected' = IF o = "infeasible" THEN selected \ FirstChunk ELSE selected
        /\ todo' = CASE o = "none" -> {} [] o = "infeasible" -> todo \ FirstChunk [] OTHER -> todo
        /\ exhausted' = (exhausted \/ o = "none")
    /\ UNCHANGED <<conflicts, plan, phase, iterations, seed, chunk, guarantee, report>>

\* Chunk deletions may be answered from the cache.
DeleteChunk ==
    /\ phase = "chunks"
    /\ ~RoundOver
    /\ \E o \in Outcomes :
        /\ Ask(selected \ FirstChunk, FALSE, o)
        /\ selected' = IF o = "infeasible" THEN selected \ FirstChunk ELSE selected
        /\ todo' = IF o = "none" THEN {} ELSE todo \ FirstChunk
        /\ exhausted' = (exhausted \/ o = "none")
    /\ UNCHANGED <<conflicts, plan, phase, iterations, seed, chunk, guarantee, report>>

EndRound ==
    /\ phase = "chunks"
    /\ RoundOver
    /\ phase' = IF chunk = 1 THEN "filter" ELSE "round"
    /\ chunk' = Half(chunk)
    /\ todo' = selected
    /\ UNCHANGED <<conflicts, plan, oracleVars, iterations, seed, selected, exhausted, guarantee, report>>

Foremost(S) == CHOOSE e \in S : \A d \in S : e <= d

(* Faulty: an atom whose deletion is undecided is deleted.                  *)
AfterDeletionUnknown(o) == IF o \in {"infeasible", "unknown"} THEN selected \ {Foremost(todo)} ELSE selected

\* Only a proof of infeasibility deletes an atom.
AfterDeletion(o) == IF o = "infeasible" THEN selected \ {Foremost(todo)} ELSE selected

(* Faulty: the position moves on although an atom was taken out before it.  *)
DeleteAtomSkips ==
    /\ phase = "filter"
    /\ todo # {}
    /\ IterationsLeft
    /\ iterations' = iterations + 1
    /\ \E o \in Outcomes :
        /\ Ask(selected \ {Foremost(todo)}, TRUE, o)
        /\ selected' = AfterDeletion(o)
        /\ todo' = IF o = "none" THEN {}
                   ELSE {e \in todo : Cardinality({d \in todo : d < e}) > IF o = "infeasible" THEN 1 ELSE 0}
        /\ exhausted' = (exhausted \/ o = "none")
        /\ guarantee' = IF o = "unknown" THEN "InfeasibleSubsystem" ELSE guarantee
    /\ UNCHANGED <<conflicts, plan, phase, seed, chunk, report>>

\* The deletion filter: one atom at a time, each with a fresh check.
DeleteAtom ==
    /\ phase = "filter"
    /\ todo # {}
    /\ IterationsLeft
    /\ iterations' = iterations + 1
    /\ \E o \in Outcomes :
        /\ Ask(selected \ {Foremost(todo)}, TRUE, o)
        /\ selected' = AfterDeletion(o)
        /\ todo' = IF o = "none" THEN {} ELSE todo \ {Foremost(todo)}
        /\ exhausted' = (exhausted \/ o = "none")
        /\ guarantee' = IF o = "unknown" THEN "InfeasibleSubsystem" ELSE guarantee
    /\ UNCHANGED <<conflicts, plan, phase, seed, chunk, report>>

EndFilter ==
    /\ phase = "filter"
    /\ todo = {} \/ ~IterationsLeft
    /\ exhausted' = (exhausted \/ todo # {})
    /\ phase' = "final"
    /\ UNCHANGED <<conflicts, plan, oracleVars, iterations, seed, selected, todo, chunk, guarantee, report>>

\* The conflict itself, once more; what could not be asked is not held
\* against it.
VerifyConflict ==
    /\ phase = "final"
    /\ \E o \in Outcomes :
        /\ Ask(selected, TRUE, o)
        /\ exhausted' = (exhausted \/ o = "none")
        /\ IF o \in {"infeasible", "none"} THEN phase' = "members" /\ UNCHANGED report
           ELSE Returns(Error("verification"))
    /\ todo' = selected
    /\ UNCHANGED <<conflicts, plan, iterations, seed, selected, chunk, guarantee>>

\* Every member once more, without it.
VerifyMember ==
    /\ phase = "members"
    /\ todo # {}
    /\ \E o \in Outcomes :
        /\ Ask(selected \ {Foremost(todo)}, TRUE, o)
        /\ todo' = IF o = "none" THEN {} ELSE todo \ {Foremost(todo)}
        /\ exhausted' = (exhausted \/ o = "none")
        /\ guarantee' = IF o \in {"infeasible", "unknown"} THEN "InfeasibleSubsystem" ELSE guarantee
    /\ UNCHANGED <<conflicts, plan, phase, iterations, seed, selected, chunk, report>>

(* Faulty: the guarantee forgets that a limit was hit.                      *)
FinalGuaranteeUnlimited == guarantee

FinalGuarantee == IF exhausted THEN "InfeasibleSubsystem" ELSE guarantee

ReportConflict ==
    /\ phase = "members"
    /\ todo = {}
    /\ Returns(Result("Conflict", FinalGuarantee, selected,
                      IF ~exhausted THEN "Complete" ELSE IF CallsLeft THEN "IterationLimit" ELSE "OracleCallLimit"))
    /\ UNCHANGED <<conflicts, plan, oracleVars, seed, reducerVars>>

\* The oracle's backend fails in place of an answer: the error is returned,
\* the isolated session is not used again.
Asking ==
    \/ phase \in {"full", "final"}
    \/ phase = "seed" /\ ~Hit(seed, FALSE)
    \/ phase = "chunks" /\ ~RoundOver /\ ~Hit(selected \ FirstChunk, FALSE)
    \/ phase = "filter" /\ todo # {} /\ IterationsLeft
    \/ phase = "members" /\ todo # {}
OracleFails ==
    /\ Asking
    /\ CallsLeft
    /\ Returns(Error("backend"))
    /\ UNCHANGED <<conflicts, plan, oracleVars, seed, reducerVars>>

Next ==
    \/ SkipFullCheck \/ CheckFullUniverse \/ NativeFails \/ NativeAnswers \/ CheckNativeSeed
    \/ CheckSeed \/ StartRound \/ DeleteChunk \/ EndRound \/ DeleteAtom \/ EndFilter
    \/ VerifyConflict \/ VerifyMember \/ ReportConflict \/ OracleFails

\* The analysis is one synchronous call: a started step is finished.
Spec == Init /\ [][Next]_vars /\ WF_vars(Next)

-----------------------------------------------------------------------------
(* Properties                                                              *)

TypeOK ==
    /\ conflicts \in Families
    /\ plan \in Plans
    /\ phase \in {"full", "native", "seed", "initial", "round", "chunks", "filter", "final", "members", "done"}
    /\ DOMAIN cache \subseteq SUBSET Atoms
    /\ cache \in [DOMAIN cache -> {"infeasible", "feasible", "unknown"}]
    /\ gaveUp \in BOOLEAN
    /\ calls \in Nat /\ iterations \in Nat /\ chunk \in Nat
    /\ seed \subseteq Atoms
    /\ selected \subseteq Atoms
    /\ todo \subseteq selected
    /\ exhausted \in BOOLEAN
    /\ guarantee \in {"Irreducible", "InfeasibleSubsystem"}
    /\ \A r \in report : r.members \subseteq Atoms
    /\ phase = "done" <=> report # {}

\* What the report claims about its members is the case: a reduced conflict
\* is infeasible by itself, and an irreducible one has no infeasible proper
\* part, whatever was cached, undecided or cut short by a limit on the way
\* (reduce_with_limits_and_policy).
ClaimsHold ==
    \A r \in report :
        /\ r.outcome = "Conflict" /\ r.guarantee # "NativeReported" => Infeasible(r.members)
        /\ r.guarantee = "Irreducible" => Minimal(r.members)
        /\ r.outcome = "NoConflict" => ~Infeasible(Atoms)

\* The limits bind the whole analysis, seed validation and verification
\* included, and a report that met one says so: it is not complete and does
\* not claim irreducibility (limited_check, completion_for_analysis).
LimitsReported ==
    /\ \A limit \in plan.maxCalls : calls <= limit
    /\ \A limit \in plan.maxIterations : iterations <= limit
    /\ \A r \in report :
        /\ r.outcome = "NoConflictProof" => r.completion # "Complete"
        /\ exhausted /\ r.outcome = "Conflict" =>
             r.completion # "Complete" /\ r.guarantee = "InfeasibleSubsystem"

\* Doubt has a cause: an analysis that met no limit and whose oracle always
\* decided reports an infeasible model's conflict as irreducible.
NoNeedlessDoubt ==
    \A r \in report :
        r.outcome = "Conflict" /\ r.guarantee = "InfeasibleSubsystem" => exhausted \/ gaveUp

\* Every analysis returns: the rounds of chunk deletions shrink to single
\* atoms and the passes over the members end.
AnalysisEnds == <>(phase = "done")
=============================================================================
