-------------------------- MODULE SyncCoordinator ---------------------------
(***************************************************************************)
(* The model's side of synchronization: src/src/sync.rs (SyncCoordinator,  *)
(* AdapterCursor), src/src/transaction.rs (StagingTransaction) and the     *)
(* batch-wise replay and rebuild of src/src/solver/reference.rs.           *)
(*                                                                         *)
(* Staged transactions, opened at whatever revision was current then,      *)
(* compete to commit; adapters with independent cursors replay the journal *)
(* or rebuild from a snapshot.  Retention is global: an adapter that lags  *)
(* never pins history.                                                     *)
(*                                                                         *)
(* The content of a batch is abstracted to the revision it starts at and   *)
(* whether all its operations can be applied, and the content of an        *)
(* adapter to the batches it reflects, whole or in part.                   *)
(***************************************************************************)
EXTENDS DeltaJournal

CONSTANTS
    Transactions,  \* staging transactions (a slot is reused after commit)
    Adapters,      \* adapters, each with its own cursor
    MaxRevision,   \* the largest revision, u64::MAX in the code
    Closed         \* a transaction slot not in use

ASSUME MaxRevisionAssumption == MaxRevision \in Nat

VARIABLES
    journal,   \* SyncCoordinator.journal
    current,   \* SyncCoordinator.current_revision
    staging,   \* per transaction: Closed, or its from_revision and whether
               \*   any operation is staged
    cursor,    \* per adapter: AdapterCursor (applied revision, health)
    view,      \* per adapter: the batches its projected state reflects whole,
               \*   and those of which it holds the first operations only
    told,      \* per adapter: since the last rebuild an apply_batch answered
               \*   RequiresRebuild
    history    \* every batch ever recorded, evicted or not (a history variable)

adapters == <<cursor, view, told>>
vars == <<journal, current, staging, adapters, history>>

Revisions == 0..MaxRevision
Health == {"Ready", "RequiresRebuild", "Terminal"}

\* A batch carries nothing here but the revision it leads to and whether it is
\* sound: its operations are not looked at when they are recorded, and one that
\* patches a cell no adapter has fails wherever it is applied.
Batch(to, sound) == [to |-> to, sound |-> sound]

\* AdapterCursor::new
NewCursor == [applied |-> 0, health |-> "Ready"]

Init ==
    /\ journal = EmptyJournal
    /\ current = 0
    /\ staging = [t \in Transactions |-> Closed]
    /\ cursor = [a \in Adapters |-> NewCursor]
    /\ view = [a \in Adapters |-> [whole |-> {}, part |-> {}]]
    /\ told = [a \in Adapters |-> FALSE]
    /\ history = NoBatch

-----------------------------------------------------------------------------
(* Writers *)

(* SyncCoordinator::commit_batch.  The revision moves only if the journal  *)
(* accepted the batch.                                                     *)
CommitBatch(from, to) ==
    /\ Accepts(journal, from)
    /\ current' = to
    /\ \E sound \in BOOLEAN :
          /\ journal' = Record(journal, from, Batch(to, sound))
          /\ history' = [f \in DOMAIN history \cup {from} |->
                           IF f = from THEN Batch(to, sound) ELSE history[f]]

(* StagingTransaction::new *)
Begin(t) ==
    /\ staging[t] = Closed
    /\ staging' = [staging EXCEPT ![t] = [from |-> current, staged |-> FALSE]]
    /\ UNCHANGED <<journal, current, adapters, history>>

(* StagingTransaction::stage and stage_all *)
Stage(t) ==
    /\ staging[t] # Closed
    /\ staging' = [staging EXCEPT ![t].staged = TRUE]
    /\ UNCHANGED <<journal, current, adapters, history>>

(* StagingTransaction::commit consumes the transaction whether or not it   *)
(* succeeds; it fails when nothing is staged, when the revision counter is *)
(* exhausted, or when another commit moved the journal on.                 *)
Commit(t) ==
    /\ staging[t] # Closed
    /\ staging[t].staged
    /\ staging[t].from < MaxRevision
    /\ CommitBatch(staging[t].from, staging[t].from + 1)
    /\ staging' = [staging EXCEPT ![t] = Closed]
    /\ UNCHANGED adapters

CommitRejected(t) ==
    /\ staging[t] # Closed
    /\ \/ ~staging[t].staged
       \/ staging[t].from = MaxRevision
       \/ ~Accepts(journal, staging[t].from)
    /\ staging' = [staging EXCEPT ![t] = Closed]
    /\ UNCHANGED <<journal, current, adapters, history>>

(* StagingTransaction::rollback *)
Rollback(t) ==
    /\ staging[t] # Closed
    /\ staging' = [staging EXCEPT ![t] = Closed]
    /\ UNCHANGED <<journal, current, adapters, history>>

(* commit_batch is public and DeltaBatch::new only asks from < to, so a    *)
(* caller may record a batch that spans several revisions.                 *)
CommitSpan(to) ==
    /\ to > current
    /\ CommitBatch(current, to)
    /\ UNCHANGED <<staging, adapters>>

-----------------------------------------------------------------------------
(* Adapters *)

Behind(a) == cursor[a].applied < current

(* ReferenceBackend::apply_batch of a recorded batch, whether the journal  *)
(* still has it or the caller kept it: the batch must start at the cursor, *)
(* any other is answered with RecoverableFailure and changes nothing.      *)
(* AdapterCursor::advance marks the cursor Ready.                          *)
ApplyBatch(a, f) ==
    /\ f = cursor[a].applied
    /\ history[f].sound
    /\ cursor' = [cursor EXCEPT ![a] = [applied |-> history[f].to, health |-> "Ready"]]
    /\ view' = [view EXCEPT ![a].whole = @ \cup {f}]
    /\ UNCHANGED <<journal, current, staging, told, history>>

(* An operation cannot be applied: the ones before it stay, apply_batch    *)
(* answers RequiresRebuild, and the cursor keeps its revision and its      *)
(* health.                                                                 *)
ApplyFails(a, f) ==
    /\ f = cursor[a].applied
    /\ ~history[f].sound
    /\ \E kept \in SUBSET {f} : view' = [view EXCEPT ![a].part = @ \cup kept]
    /\ told' = [told EXCEPT ![a] = TRUE]
    /\ UNCHANGED <<journal, current, staging, cursor, history>>

(* AdapterCursor::mark_rebuild and mark_terminal, which the owner of a     *)
(* cursor may call at any time.                                            *)
Mark(a, health) ==
    /\ cursor' = [cursor EXCEPT ![a].health = health]
    /\ UNCHANGED <<journal, current, staging, view, told, history>>

(* Faulty: the rebuilt adapter's cursor is not moved to the snapshot. *)
RebuildForgetsCursor(a) ==
    /\ cursor' = [cursor EXCEPT ![a].health = "Ready"]
    /\ view' = [view EXCEPT ![a] = [whole |-> DOMAIN history, part |-> {}]]
    /\ told' = [told EXCEPT ![a] = FALSE]
    /\ UNCHANGED <<journal, current, staging, history>>

(* Faulty: the maps are not cleared before they are filled again. *)
RebuildOverLeftovers(a) ==
    /\ cursor' = [cursor EXCEPT ![a] = [applied |-> current, health |-> "Ready"]]
    /\ view' = [view EXCEPT ![a].whole = DOMAIN history]
    /\ told' = [told EXCEPT ![a] = FALSE]
    /\ UNCHANGED <<journal, current, staging, history>>

(* ReferenceBackend::rebuild from a snapshot at the current revision:      *)
(* everything but the active objective is cleared, filled again, and the   *)
(* cursor is marked ready.                                                 *)
Rebuild(a) ==
    /\ cursor' = [cursor EXCEPT ![a] = [applied |-> current, health |-> "Ready"]]
    /\ view' = [view EXCEPT ![a] = [whole |-> DOMAIN history, part |-> {}]]
    /\ told' = [told EXCEPT ![a] = FALSE]
    /\ UNCHANGED <<journal, current, staging, history>>

-----------------------------------------------------------------------------

Next ==
    \/ \E t \in Transactions :
          Begin(t) \/ Stage(t) \/ Commit(t) \/ CommitRejected(t) \/ Rollback(t)
    \/ \E to \in Revisions : CommitSpan(to)
    \/ \E a \in Adapters, f \in DOMAIN history : ApplyBatch(a, f) \/ ApplyFails(a, f)
    \/ \E a \in Adapters :
          Rebuild(a) \/ \E health \in {"RequiresRebuild", "Terminal"} : Mark(a, health)

Spec == Init /\ [][Next]_vars

(* What the answers ask of the owner of an adapter.  It keeps              *)
(* synchronizing while the adapter is behind or needs a rebuild, replays   *)
(* the batches batches_for_cursor hands out one after another, and         *)
(* rebuilds when it was told to or is refused them; one that broke         *)
(* terminally is given up.  Nothing in Spec makes an owner do so.          *)
NeedsRebuild(a) == told[a] \/ cursor[a].health = "RequiresRebuild"

CanReplay(a) ==
    /\ ~InFuture(journal, cursor[a].applied)
    /\ ~Compacted(journal, cursor[a].applied)
    /\ DeltasSince(journal, cursor[a].applied) # {}

NextBatch(a) == Earliest(DeltasSince(journal, cursor[a].applied))

CatchUp(a) ==
    /\ cursor[a].health # "Terminal"
    /\ Behind(a) \/ NeedsRebuild(a)
    /\ IF CanReplay(a) /\ ~NeedsRebuild(a)
       THEN ApplyBatch(a, NextBatch(a)) \/ ApplyFails(a, NextBatch(a))
       ELSE Rebuild(a)

FairSpec == Spec /\ \A a \in Adapters : WF_vars(CatchUp(a))

-----------------------------------------------------------------------------
(* Properties *)

TypeOK ==
    /\ current \in Revisions
    /\ journal.latest \in Revisions
    /\ DOMAIN journal = {"batches", "latest"}
    /\ DOMAIN journal.batches \subseteq Revisions
    /\ staging \in [Transactions ->
                      {Closed} \cup [from : Revisions, staged : BOOLEAN]]
    /\ cursor \in [Adapters -> [applied : Revisions, health : Health]]
    /\ view \in [Adapters -> [whole : SUBSET Revisions, part : SUBSET Revisions]]
    /\ told \in [Adapters -> BOOLEAN]
    /\ DOMAIN history \subseteq Revisions

(* deltas_since never returns a truncated or gapped suffix: whatever was   *)
(* evicted, an adapter's query either reports Compacted or returns every   *)
(* batch recorded at or after its cursor, and then, if the adapter is      *)
(* behind, the first of them starts exactly at the cursor.                 *)
ReplayExact ==
    \A a \in Adapters :
        ~Compacted(journal, cursor[a].applied) =>
            /\ DeltasSince(journal, cursor[a].applied)
                 = {f \in DOMAIN history : f >= cursor[a].applied}
            /\ Behind(a) =>
                 cursor[a].applied \in DeltasSince(journal, cursor[a].applied)

(* An adapter's projected state is exactly the model's state at its        *)
(* cursor, every batch before it and none after, however it got there: by  *)
(* replay across evictions, batches handed over late, twice or out of      *)
(* order, rebuilds over what a failure left.  The one exception is the     *)
(* batch at the cursor: the adapter may hold a part of it, although its    *)
(* cursor still says Ready, but not before an apply_batch told its owner   *)
(* to rebuild (apply_batch, advance, rebuild).  What it holds is meant but *)
(* for the active objective, which a rebuild does not clear.               *)
AdapterSeesHistory ==
    \A a \in Adapters :
        /\ view[a].whole = {f \in DOMAIN history : f < cursor[a].applied}
        /\ view[a].part \subseteq {cursor[a].applied}
        /\ view[a].part # {} => told[a]

(* The retention bound of the Journal doc comment, and the revision the    *)
(* coordinator reports is the journal's.                                   *)
BoundedRetention ==
    /\ Cardinality(DOMAIN journal.batches) <= Capacity
    /\ journal.latest = current

(* Of several transactions begun at one revision at most one commits: a    *)
(* commit always extends the state its transaction was opened at.          *)
NoLostUpdate ==
    [][\A t \in Transactions :
          (staging[t] # Closed /\ staging'[t] = Closed /\ current' # current)
              => staging[t].from = current]_vars

(* A bounded journal strands nobody: whatever is committed or compacted    *)
(* while an adapter keeps synchronizing, every revision eventually reaches *)
(* it, unless it was marked as broken terminally.                          *)
NobodyStranded ==
    \A a \in Adapters, r \in Revisions :
        current >= r ~> (cursor[a].health = "Terminal" \/ cursor[a].applied >= r)
=============================================================================
