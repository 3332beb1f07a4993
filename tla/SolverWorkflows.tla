---------------------------- MODULE SolverWorkflows ----------------------------
(***************************************************************************)
(* One solver session over its life: solve plans, objective policies and   *)
(* feasibility repairs in any order, each over the backend state and the   *)
(* compiled base the one before it left, with a backend that may fail at   *)
(* any of its operations.  The model does not change between them.         *)
(***************************************************************************)
EXTENDS ObjectiveExecution, FeasibilityRelaxation, SolveOverlay

CONSTANTS
    MaxCompilations   \* no task is started after that many compilations

ASSUME MaxCompilationsAssumption == MaxCompilations \in Nat

vars == <<model, backendVars, cycleVars, base, fresh, faults>>

Init == BackendInit

Call == fresh < MaxCompilations /\ (ExecutePolicy \/ Repair \/ SolvePlan)

\* The caller stops calling.  A state without a step is then a call that does
\* not return.
Rest == pc = "idle" /\ fresh >= MaxCompilations /\ UNCHANGED vars

Next ==
    /\ UNCHANGED model
    /\ \/ Call \/ Rest
       \/ Synchronize \/ SynchronizeFails
       \/ StopAtDeadline \/ StartStage \/ StartStageFails \/ SolveStage \/ StageFails
       \/ StageRolledBack \/ StageNotRolledBack
       \/ OpenRestrictions \/ OpenRestrictionsFails \/ SolveRepair \/ RepairRolledBack \/ RepairNotRolledBack
       \/ OverlayRejected \/ ApplyPlan \/ ApplyPlanFails \/ SolvePlain \/ SolveUnderPlan \/ SolveUnderPlanFails
       \/ PlanRolledBack \/ PlanNotRolledBack \/ PlanNotVerified
       \/ RolledBack \/ NotRolledBack

Spec == Init /\ [][Next]_vars

-----------------------------------------------------------------------------
(* Properties                                                              *)

\* Between tasks, and at the start of every stage, a backend the session
\* would not rebuild holds the compiled base: nothing of an overlay stays
\* behind on a backend that is trusted, whatever failed when
\* (rollback_overlay, verify_overlay_clean, force_rebuild_on_next_sync).
TrustedBackendIsBase ==
    pc \in {"idle", "synced"} /\ ~NeedsRebuild =>
        /\ native = BaseModel
        /\ policy = ActiveObjective
        /\ compilation = base

\* A task of a sound plan, policy or scope only fails when the backend
\* failed: the overlays the drivers assemble are always acceptable.
FailuresHaveACause ==
    faults = 0 /\ answer # None /\ ~answer.ok =>
        answer.why \in {"preflight", "budgetExhausted", "overlay", "evidence"}
=============================================================================
