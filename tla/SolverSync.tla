------------------------------ MODULE SolverSync -----------------------------
(***************************************************************************)
(* One solver session serving several models: SolverSession of             *)
(* src/src/solver/facade.rs, its identity compiler (CompilationSession of  *)
(* src/src/compiler/session.rs) and a backend adapter that may fail        *)
(* natively at any call (HighsSession of src/roml-highs/src/session.rs).   *)
(*                                                                         *)
(* A solve attempt commits the model, brings the backend to the committed  *)
(* revision (nothing to do, delta batches, or a snapshot rebuild, with at  *)
(* most one rebuild after a failed delta), optionally applies an overlay   *)
(* and warm starts, solves, checks the tag of the result and rolls the     *)
(* overlay back.  Each call of the facade into the compiler or the backend *)
(* is one step.  The model and the session are borrowed mutably for the    *)
(* whole attempt, so models change only between attempts.                  *)
(*                                                                         *)
(* Compiled content is abstracted to which model at which revision the     *)
(* native solver holds and what temporary additions are left on it; the    *)
(* identity of a compiled state (CompilationId) is kept.                   *)
(***************************************************************************)
EXTENDS DeltaJournal, Sequences

CONSTANTS
    Models,        \* model instances
    MaxRevision,   \* the largest revision, u64::MAX in the code
    None,          \* Option::None
    Garbage        \* a native state that is no model's: empty, or half changed

ASSUME MaxRevisionAssumption == MaxRevision \in Nat

VARIABLES
    revision,   \* per model: committed revision
    journal,    \* per model: its delta journal
    pending,    \* per model: the changelog not yet committed
    supported,  \* per model: whether compile_snapshot accepts its state
    compiler,   \* SolverSession.compiler: the compiled base, or None
    bound,      \* SolverSession.bound_instance
    backend,    \* cursor health and revision, current_compilation, and what
                \*   the native solver really holds
    outbox,     \* compiled messages not yet sent to the backend
    overlay,    \* receipt of the applied overlay, or None
    pc,         \* where the running attempt stands
    attempt,    \* the running attempt: its model and plan, and what was solved
    answered,   \* outcome of the last attempt, None while one is running
    cause,      \* why the current or last attempt may fail (history variable)
    touched     \* whether it changed the native state (history variable)

modelVars == <<revision, journal, pending, supported>>
syncVars == <<compiler, bound, backend, outbox, overlay>>
attemptVars == <<pc, attempt, answered>>
history == <<cause, touched>>
vars == <<modelVars, syncVars, attemptVars, history>>

-----------------------------------------------------------------------------
(* Data *)

Revisions == 0..MaxRevision
Health == {"Ready", "RequiresRebuild", "Terminal"}
Additions == {"overlay", "start"}

\* The native solver holds a model at a revision, plus temporary additions.
Contents == [model : Models, revision : Revisions, extra : SUBSET Additions]
Compiled(m, r) == [model |-> m, revision |-> r, extra |-> {}]
Adding(c, x) == IF c = Garbage THEN c ELSE [c EXCEPT !.extra = @ \cup {x}]
Removing(c, x) == IF c = Garbage THEN c ELSE [c EXCEPT !.extra = @ \ {x}]

\* A batch leads to a revision and may hold an operation that compile_delta
\* refuses to compile incrementally.
Batch(to, structural) == [to |-> to, structural |-> structural]

\* The compiler's base: whose state it compiled, at which revision, under
\* which CompilationId.
Base(m, r, id) == [model |-> m, revision |-> r, id |-> id]
Bases == [model : Models, revision : Revisions, id : Nat]

\* CompilationSession.source_instance and current_compilation().
SourceInstance == IF compiler = None THEN None ELSE compiler.model
CurrentCompilation == IF compiler = None THEN None ELSE compiler.id

RebuildMessage(base) == [kind |-> "rebuild", base |-> base, from |-> 0]
DeltaMessage(from, base) == [kind |-> "delta", base |-> base, from |-> from]

(* CompilationId::allocate, a process-wide counter.  Ids are only compared  *)
(* with ids still held, so the least id nobody holds stands for a fresh one *)
(* and the model stays finite.                                              *)
HeldIds ==
    UNION {{CurrentCompilation, backend.compilation} \ {None},
           IF overlay = None THEN {} ELSE {overlay.base, overlay.applied},
           {outbox[i].base.id : i \in DOMAIN outbox}}
FreshId ==
    CHOOSE i \in 1..(Cardinality(HeldIds) + 1) :
        /\ i \notin HeldIds
        /\ \A j \in 1..(i - 1) : j \in HeldIds

Failed == [ok |-> FALSE]
Solved(c) == [ok |-> TRUE, solved |-> c]

\* The receipt of an applied overlay, and a running attempt.
Receipts == [base : Nat, applied : Nat, captured : Contents \cup {Garbage}]
Attempts == [model : Models, overlay : BOOLEAN, start : BOOLEAN,
             solved : Contents \cup {Garbage, None}]

\* None is none of the values an Option holds here, and no Result either; the
\* native state left by a failure is no model's.
ASSUME NoneAssumption ==
    None \notin Models \cup Nat \cup Bases \cup Receipts \cup Attempts \cup Contents
                 \cup [model : Models, overlay : BOOLEAN]
                 \cup {Garbage, Failed} \cup {Solved(c) : c \in Contents \cup {Garbage}}
ASSUME GarbageAssumption == Garbage \notin Contents

Init ==
    /\ revision = [m \in Models |-> 0]
    /\ journal = [m \in Models |-> EmptyJournal]
    /\ pending = [m \in Models |-> "none"]
    /\ supported = [m \in Models |-> TRUE]
    /\ compiler = None
    /\ bound = None
    /\ backend = [health |-> "Ready", revision |-> 0,
                  compilation |-> None, holds |-> Garbage]
    /\ outbox = <<>>
    /\ overlay = None
    /\ pc = "idle"
    /\ attempt = None
    /\ answered = None
    /\ cause = {}
    /\ touched = FALSE

-----------------------------------------------------------------------------
(* The models, between attempts *)

\* A change that compile_delta can lower (bounds, coefficients, rows ...); it
\* may remove what compile_snapshot did not accept.
Edit(m) ==
    /\ pc = "idle"
    /\ pending[m] = "none"
    /\ pending' = [pending EXCEPT ![m] = "incremental"]
    /\ \E s \in {supported[m], TRUE} : supported' = [supported EXCEPT ![m] = s]
    /\ UNCHANGED <<revision, journal, syncVars, attemptVars, history>>

\* One it cannot (types, constructs, semi-continuous bounds ...), after which
\* compile_snapshot may or may not accept the model.
Restructure(m) ==
    /\ pc = "idle"
    /\ pending' = [pending EXCEPT ![m] = "structural"]
    /\ \E s \in BOOLEAN : supported' = [supported EXCEPT ![m] = s]
    /\ UNCHANGED <<revision, journal, syncVars, attemptVars, history>>

(* Model::commit: no change, no new revision; the changelog survives an     *)
(* exhausted revision counter.                                              *)
CommitOverflows(m) == pending[m] # "none" /\ revision[m] = MaxRevision

CommitModel(m) ==
    /\ ~CommitOverflows(m)
    /\ IF pending[m] = "none"
       THEN UNCHANGED modelVars
       ELSE LET to == revision[m] + 1
                batch == Batch(to, pending[m] = "structural")
            IN /\ revision' = [revision EXCEPT ![m] = to]
               /\ journal' = [journal EXCEPT ![m] = Record(@, revision[m], batch)]
               /\ pending' = [pending EXCEPT ![m] = "none"]
               /\ UNCHANGED supported

\* Model::commit called by the user.
Commit(m) ==
    /\ pc = "idle"
    /\ pending[m] # "none"
    /\ CommitModel(m)
    /\ UNCHANGED <<syncVars, attemptVars, history>>

(* Model::clone: the clone n, so far unused, gets a copy of everything,     *)
(* journal and changelog included, under an instance id of its own.         *)
Clone(m, n) ==
    /\ pc = "idle"
    /\ m # n /\ n # bound
    /\ SourceInstance # n
    /\ revision[n] = 0 /\ pending[n] = "none"
    /\ revision' = [revision EXCEPT ![n] = revision[m]]
    /\ journal' = [journal EXCEPT ![n] = journal[m]]
    /\ pending' = [pending EXCEPT ![n] = pending[m]]
    /\ supported' = [supported EXCEPT ![n] = supported[m]]
    /\ UNCHANGED <<syncVars, attemptVars, history>>

-----------------------------------------------------------------------------
(* Ending an attempt *)

Target == attempt.model

\* The attempt ends with an error.  What was not sent is dropped.
Fail ==
    /\ answered' = Failed
    /\ attempt' = None
    /\ pc' = "idle"
    /\ outbox' = <<>>
    /\ overlay' = None

\* It ends with whatever the solve produced.
Finish ==
    /\ answered' = IF attempt.solved = None THEN Failed ELSE Solved(attempt.solved)
    /\ attempt' = None
    /\ pc' = "idle"
    /\ outbox' = <<>>
    /\ overlay' = None

Goto(label) == pc' = label /\ UNCHANGED <<attempt, answered>>

-----------------------------------------------------------------------------
(* synchronize_base: commit, then decide how to synchronize *)

StartSolve(m, withOverlay, withStart) ==
    /\ pc = "idle"
    /\ CommitModel(m)
    /\ pc' = "sync"
    /\ attempt' = [model |-> m, overlay |-> withOverlay, start |-> withStart,
                   solved |-> None]
    /\ answered' = None
    /\ cause' = {}
    /\ touched' = FALSE
    /\ UNCHANGED syncVars

CommitFails(m) ==
    /\ pc = "idle"
    /\ CommitOverflows(m)
    /\ Fail
    /\ cause' = {"commit"}
    /\ touched' = FALSE
    /\ UNCHANGED <<modelVars, compiler, bound, backend>>

\* Faulty: the bound instance is not compared.
CrossModelIgnored == FALSE

CrossModel == bound # None /\ bound # Target

SyncTerminal ==
    /\ pc = "sync"
    /\ backend.health = "Terminal"
    /\ Fail
    /\ cause' = cause \cup {"backend"}
    /\ UNCHANGED <<modelVars, compiler, bound, backend, touched>>

\* Another model than the one bound: forget the compiled base and rebuild.
SyncOtherModel ==
    /\ pc = "sync"
    /\ backend.health # "Terminal"
    /\ CrossModel
    /\ compiler' = None
    /\ Goto("rebuild")
    /\ UNCHANGED <<modelVars, bound, backend, outbox, overlay, history>>

\* Faulty: the compiled base is not asked for at equal revisions.
NeedsRebuildByRevision ==
    \/ backend.health = "RequiresRebuild"
    \/ backend.revision > revision[Target]

\* Marked, ahead of the model, or without a compiled base: rebuild.
NeedsRebuild ==
    \/ backend.health = "RequiresRebuild"
    \/ backend.revision > revision[Target]
    \/ backend.revision = revision[Target] /\ compiler = None

SyncRebuild ==
    /\ pc = "sync"
    /\ backend.health # "Terminal"
    /\ ~CrossModel
    /\ NeedsRebuild
    /\ Goto("rebuild")
    /\ UNCHANGED <<modelVars, syncVars, history>>

SyncNothing ==
    /\ pc = "sync"
    /\ backend.health = "Ready"
    /\ ~CrossModel
    /\ ~NeedsRebuild
    /\ backend.revision = revision[Target]
    /\ Goto("synced")
    /\ UNCHANGED <<modelVars, syncVars, history>>

(* apply_deltas, up to the first batch: without a compiled base the empty   *)
(* one is compiled, if the backend is at revision 0; then the batches are   *)
(* fetched.  Any failure leads to a rebuild; the compiled base stays.       *)
SyncDeltas ==
    /\ pc = "sync"
    /\ backend.health = "Ready"
    /\ ~CrossModel
    /\ ~NeedsRebuild
    /\ backend.revision < revision[Target]
    /\ IF compiler = None /\ backend.revision = 0
       THEN LET base == Base(Target, 0, FreshId) IN
            /\ compiler' = base
            /\ outbox' = <<RebuildMessage(base)>>
       ELSE UNCHANGED <<compiler, outbox>>
    /\ IF \/ compiler = None /\ backend.revision # 0
          \/ Compacted(journal[Target], backend.revision)
       THEN Goto("rebuild")
       ELSE Goto("compile")
    /\ UNCHANGED <<modelVars, bound, backend, overlay, history>>

-----------------------------------------------------------------------------
(* Compiling and sending *)

Deltas == {i \in DOMAIN outbox : outbox[i].kind = "delta"}

\* The revision at which the next batch to compile starts.
Reached == IF Deltas = {} THEN backend.revision ELSE outbox[Len(outbox)].base.revision

\* compile_delta only continues the base that the batch starts from.
CompilesFrom ==
    /\ SourceInstance = Target
    /\ compiler.revision = Reached

(* compile_delta of the next batch, all batches before any is sent.  It is  *)
(* refused when the compiled base is another model's or another revision's, *)
(* or when the batch is structural; the compiler keeps what it compiled     *)
(* before.                                                                  *)
CompileDelta ==
    /\ pc = "compile"
    /\ Reached < revision[Target]
    /\ LET batch == journal[Target].batches[Reached]
           base == Base(Target, batch.to, FreshId)
       IN IF CompilesFrom /\ ~batch.structural
          THEN /\ outbox' = Append(outbox, DeltaMessage(compiler, base))
               /\ compiler' = base
               /\ Goto("compile")
          ELSE /\ Goto("rebuild")
               /\ UNCHANGED <<compiler, outbox>>
    /\ UNCHANGED <<modelVars, bound, backend, overlay, history>>

CompiledAll ==
    /\ pc = "compile"
    /\ Reached = revision[Target]
    /\ Goto("send")
    /\ UNCHANGED <<modelVars, syncVars, history>>

(* compile_snapshot of the committed state: the instance guard first, then  *)
(* the features of the model.  Nothing is remembered of a failed one.       *)
CompileSnapshot ==
    /\ pc = "rebuild"
    /\ SourceInstance \in {None, Target}
    /\ supported[Target]
    /\ LET base == Base(Target, revision[Target], FreshId) IN
          /\ compiler' = base
          /\ outbox' = <<RebuildMessage(base)>>
    /\ Goto("resend")
    /\ UNCHANGED <<modelVars, bound, backend, overlay, history>>

SnapshotRefused ==
    /\ pc = "rebuild"
    /\ SourceInstance \in {None, Target} => ~supported[Target]
    /\ Fail
    /\ cause' = IF supported[Target] THEN cause ELSE cause \cup {"snapshot"}
    /\ UNCHANGED <<modelVars, compiler, bound, backend, touched>>

-----------------------------------------------------------------------------
(* The backend receiving a message *)

\* Faulty: messages are sent while later batches are still to be compiled.
SendingEarly == pc \in {"compile", "send", "resend"} /\ outbox # <<>>

Sending == pc \in {"send", "resend"} /\ outbox # <<>>
Message == Head(outbox)

\* What a message does to the native state: a delta only fits what it was
\* compiled from.
Effect(msg) ==
    IF \/ msg.kind = "rebuild"
       \/ backend.holds = Compiled(msg.base.model, backend.revision)
    THEN Compiled(msg.base.model, msg.base.revision)
    ELSE Garbage

(* A delta must start at exactly the compiled state and revision held;      *)
(* anything else is refused before it touches the native model, and marked. *)
Refused(msg) ==
    /\ msg.kind = "delta"
    /\ \/ backend.compilation # msg.from.id
       \/ backend.revision # msg.from.revision

\* Faulty: every recoverable failure is retried.
AfterSendErrorRetry(terminal) ==
    IF terminal
    THEN Fail
    ELSE Goto("rebuild") /\ UNCHANGED <<outbox, overlay>>

\* A failure on the way to a synchronized backend: terminal failures end the
\* attempt, others get one rebuild, and a failed rebuild ends it.
AfterSendError(terminal) ==
    IF terminal \/ pc = "resend"
    THEN Fail
    ELSE Goto("rebuild") /\ UNCHANGED <<outbox, overlay>>

(* A refused message is dropped and the cursor marked; an accepted one is   *)
(* applied, and the backend is Ready at the compiled state it leads to.     *)
Send ==
    /\ Sending
    /\ IF Refused(Message)
       THEN /\ backend' = [backend EXCEPT !.health = "RequiresRebuild"]
            /\ AfterSendError(FALSE)
            /\ UNCHANGED touched
       ELSE /\ backend' = [health |-> "Ready", revision |-> Message.base.revision,
                           compilation |-> Message.base.id, holds |-> Effect(Message)]
            /\ outbox' = Tail(outbox)
            /\ touched' = TRUE
            /\ Goto(pc)
            /\ UNCHANGED overlay
    /\ UNCHANGED <<modelVars, compiler, bound, cause>>

\* A native call fails half way or before anything happened.
SendFails ==
    /\ Sending
    /\ ~Refused(Message)
    /\ \E h \in {"RequiresRebuild", "Terminal"}, c \in {backend.holds, Garbage} :
          /\ backend' = [backend EXCEPT !.health = h, !.holds = c]
          /\ AfterSendError(h = "Terminal")
    /\ cause' = cause \cup {"backend"}
    /\ touched' = TRUE
    /\ UNCHANGED <<modelVars, compiler, bound>>

(* Everything sent: the backend must be Ready and exactly at the committed  *)
(* revision, and the session is then bound to the model.                    *)
NextCall ==
    CASE attempt.overlay -> "overlay"
      [] ~attempt.overlay /\ attempt.start -> "start"
      [] OTHER -> "solve"

Bind ==
    /\ \/ pc = "synced"
       \/ pc \in {"send", "resend"} /\ outbox = <<>>
    /\ IF backend.health = "Ready" /\ backend.revision = revision[Target]
       THEN /\ bound' = Target
            /\ Goto(NextCall)
            /\ UNCHANGED <<outbox, overlay>>
       ELSE /\ Fail
            /\ UNCHANGED bound
    /\ UNCHANGED <<modelVars, compiler, backend, history>>

-----------------------------------------------------------------------------
(* solve_plan: overlay, warm start, solve, rollback *)

\* compile_overlay rejects the overlay: another model's base, or content that
\* does not fit the model.
OverlayRejected ==
    /\ pc = "overlay"
    /\ Fail
    /\ cause' = IF SourceInstance = Target THEN cause \cup {"plan"} ELSE cause
    /\ UNCHANGED <<modelVars, compiler, bound, backend, touched>>

(* The overlay is compiled against the compiler's base and gets an id of    *)
(* its own; the backend applies it only on top of exactly that base.        *)
ApplyOverlay ==
    /\ pc = "overlay"
    /\ SourceInstance = Target
    /\ backend.compilation = CurrentCompilation
    /\ overlay' = [base |-> compiler.id, applied |-> FreshId,
                   captured |-> backend.holds]
    /\ backend' = [backend EXCEPT !.compilation = FreshId,
                                  !.holds = Adding(@, "overlay")]
    /\ touched' = TRUE
    /\ Goto(IF attempt.start THEN "start" ELSE "solve")
    /\ UNCHANGED <<modelVars, compiler, bound, outbox, cause>>

\* Faulty: the compiled base is kept.
TrustTheBackend == UNCHANGED compiler

ForceRebuildOnNextSync == compiler' = None

(* The backend refuses the overlay or breaks while applying it.  Backends   *)
(* are not trusted to have marked themselves: the compiled base is dropped, *)
(* so that the next attempt rebuilds.                                       *)
ApplyOverlayFails ==
    /\ pc = "overlay"
    /\ SourceInstance = Target
    /\ \E h \in {"Ready", "RequiresRebuild"},
          c \in {backend.holds, Adding(backend.holds, "overlay"), Garbage} :
          backend' = [backend EXCEPT !.health = h, !.holds = c]
    /\ ForceRebuildOnNextSync
    /\ Fail
    /\ cause' = IF backend.compilation = CurrentCompilation THEN cause \cup {"backend"} ELSE cause
    /\ touched' = TRUE
    /\ UNCHANGED <<modelVars, bound>>

StartsApplied ==
    /\ pc = "start"
    /\ Goto("solve")
    /\ UNCHANGED <<modelVars, syncVars, history>>

\* With an overlay applied every failure goes through the rollback.
FailThroughRollback ==
    IF overlay = None THEN Fail ELSE Goto("rollback") /\ UNCHANGED <<outbox, overlay>>

\* A start may be half applied; the overlay is rolled back all the same.
StartsFail ==
    /\ pc = "start"
    /\ backend' = [backend EXCEPT !.holds = Adding(@, "start")]
    /\ ForceRebuildOnNextSync
    /\ FailThroughRollback
    /\ cause' = cause \cup {"backend"}
    /\ touched' = TRUE
    /\ UNCHANGED <<modelVars, bound>>

(* The result carries the id of the compiled state the backend holds, and   *)
(* the session only accepts the one it expects.                             *)
Expected == IF overlay # None THEN overlay.applied ELSE CurrentCompilation

TagAccepted == backend.compilation = Expected

Solve ==
    /\ pc = "solve"
    /\ backend.compilation # None
    /\ TagAccepted
    /\ IF overlay = None
       THEN /\ answered' = Solved(backend.holds)
            /\ attempt' = None
            /\ pc' = "idle"
       ELSE /\ attempt' = [attempt EXCEPT !.solved = backend.holds]
            /\ pc' = "rollback"
            /\ UNCHANGED answered
    /\ UNCHANGED <<modelVars, syncVars, history>>

\* The backend holds no compiled state, or not the expected one.
SolveRefused ==
    /\ pc = "solve"
    /\ backend.compilation = None \/ ~TagAccepted
    /\ FailThroughRollback
    /\ UNCHANGED <<modelVars, compiler, bound, backend, history>>

\* The native run fails; the session's health does not change.
SolveFails ==
    /\ pc = "solve"
    /\ FailThroughRollback
    /\ cause' = cause \cup {"backend"}
    /\ UNCHANGED <<modelVars, compiler, bound, backend, touched>>

\* Clean: the backend reports the base restored; what it restored is checked
\* next.
Rollback ==
    /\ pc = "rollback"
    /\ \E c \in {Removing(backend.holds, "overlay"), Garbage} :
          backend' = [backend EXCEPT !.compilation = overlay.base, !.holds = c]
    /\ Goto("verify")
    /\ UNCHANGED <<modelVars, compiler, bound, outbox, overlay, history>>

\* Not provably clean: the answer is still good, the native state is not.
RollbackUncertain ==
    /\ pc = "rollback"
    /\ \E h \in {backend.health, "RequiresRebuild"}, c \in {backend.holds, Garbage} :
          backend' = [backend EXCEPT !.health = h, !.holds = c]
    /\ ForceRebuildOnNextSync
    /\ Finish
    /\ UNCHANGED <<modelVars, bound, history>>

(* verify_overlay_clean compares the native model, not its warm starts,     *)
(* with the base captured when the overlay was applied, and marks the       *)
(* session if they differ.                                                  *)
Verify ==
    /\ pc = "verify"
    /\ IF Removing(backend.holds, "start") # overlay.captured
       THEN /\ backend' = [backend EXCEPT !.health = "RequiresRebuild"]
            /\ Fail
            /\ cause' = cause \cup {"backend"}
       ELSE /\ Finish
            /\ UNCHANGED <<backend, cause>>
    /\ UNCHANGED <<modelVars, compiler, bound, touched>>

-----------------------------------------------------------------------------

SessionStep ==
    \/ SyncTerminal \/ SyncOtherModel \/ SyncRebuild \/ SyncNothing \/ SyncDeltas
    \/ CompileDelta \/ CompiledAll \/ CompileSnapshot \/ SnapshotRefused
    \/ Send \/ SendFails \/ Bind
    \/ OverlayRejected \/ ApplyOverlay \/ ApplyOverlayFails
    \/ StartsApplied \/ StartsFail
    \/ Solve \/ SolveRefused \/ SolveFails
    \/ Rollback \/ RollbackUncertain \/ Verify

Next ==
    \/ \E m \in Models : Edit(m) \/ Restructure(m) \/ Commit(m) \/ CommitFails(m)
    \/ \E m, n \in Models : Clone(m, n)
    \/ \E m \in Models, o, s \in BOOLEAN : StartSolve(m, o, s)
    \/ SessionStep

Spec == Init /\ [][Next]_vars

(* A solve call runs to its end: no step of it waits for anybody else.      *)
FairSpec == Spec /\ WF_vars(SessionStep)

-----------------------------------------------------------------------------
(* Properties *)

(* The promise to the caller: see SolveContract. *)
Contract == INSTANCE SolveContract WITH
    committed <- revision,
    request <- IF attempt = None THEN None
               ELSE [model |-> attempt.model, overlay |-> attempt.overlay]

(* A successful answer solved exactly the committed state of the model it   *)
(* was asked for, with exactly the plan's overlay: never a stale revision,  *)
(* another model at the same revision, a half applied delta, or the rest of *)
(* an earlier overlay or start.                                             *)
KeepsContract == Contract!Spec

(* Between attempts, a compiled base that the backend confirms (Ready, same *)
(* CompilationId) describes what the native solver really holds, whatever   *)
(* failed before: nothing dirty can be taken for synchronized.              *)
TrustedStateIsClean ==
    (pc = "idle" /\ backend.health = "Ready" /\ compiler # None
        /\ backend.compilation = CurrentCompilation)
    => /\ backend.revision = compiler.revision
       /\ backend.holds = Compiled(compiler.model, compiler.revision)

(* Whatever happened in earlier attempts, an attempt only fails by a cause  *)
(* of its own: a native failure, a snapshot or a plan that cannot be        *)
(* compiled, an exhausted revision counter.                                 *)
NoSpuriousFailure == answered = Failed => cause # {}

(* Compile before mutation: an attempt that fails because the model cannot  *)
(* be compiled leaves the native state as it was, deltas included.          *)
RejectedUntouched == answered = Failed /\ cause = {"snapshot"} => ~touched

(* Every attempt ends: the rebuild after a failed delta is not repeated.    *)
AttemptEnds == pc # "idle" ~> pc = "idle"
=============================================================================
