---------------------------- MODULE DeltaJournal ----------------------------
(***************************************************************************)
(* The revision journal of src/src/journal.rs as operators on a value.     *)
(*                                                                         *)
(* A journal is a record                                                   *)
(*    batches : the retained delta batches, a function from the revision a *)
(*              batch starts at to the batch; a batch is a record with at  *)
(*              least the field `to`, the revision it leads to;            *)
(*    latest  : the latest revision recorded.                              *)
(*                                                                         *)
(* Revisions are natural numbers (ModelRevision is a checked u64).  The    *)
(* operators have no state of their own: SyncCoordinator keeps one journal *)
(* and SolverSync one per model.                                           *)
(***************************************************************************)
EXTENDS Integers, FiniteSets

CONSTANT Capacity  \* retention bound: at most this many batches are kept

(* NonZeroUsize in the code; `None`, unbounded, is for tests only. *)
ASSUME CapacityAssumption == Capacity \in Nat \ {0}

NoBatch == [f \in {} |-> f]

EmptyJournal == [batches |-> NoBatch, latest |-> 0]

(* Faulty: a batch from before the journal's end is taken too. *)
AcceptsStale(j, from) == from <= j.latest

(* record() takes only a batch that starts where the journal ends. *)
Accepts(j, from) == from = j.latest

(* Faulty: evicts only once the bound is exceeded by two. *)
RetainedOneMore(keys) ==
    {f \in keys : Cardinality({g \in keys : g >= f}) <= Capacity + 1}

(* The loop `while len > capacity: remove the smallest key` leaves exactly *)
(* the Capacity largest keys.                                              *)
Retained(keys) ==
    {f \in keys : Cardinality({g \in keys : g >= f}) <= Capacity}

(* record() of an accepted batch: insert, then evict oldest first. *)
Record(j, from, batch) ==
    LET keys == DOMAIN j.batches \cup {from} IN
    [batches |-> [f \in Retained(keys) |->
                    IF f = from THEN batch ELSE j.batches[f]],
     latest  |-> batch.to]

(* Faulty: off by one, a gap of one revision goes unnoticed. *)
CompactedLate(j, since) ==
    /\ DOMAIN j.batches # {}
    /\ \A f \in DOMAIN j.batches : since + 1 < f

(* The two errors of deltas_since().  Compacted: the query predates the    *)
(* oldest retained batch.                                                  *)
InFuture(j, since)  == since > j.latest
Compacted(j, since) ==
    /\ DOMAIN j.batches # {}
    /\ \A f \in DOMAIN j.batches : since < f

(* Its answer otherwise, as the set of the start revisions returned; the   *)
(* code returns them in increasing order (a BTreeMap range).               *)
DeltasSince(j, since) == {f \in DOMAIN j.batches : f >= since}

(* The first batch of a non-empty answer. *)
Earliest(fs) == CHOOSE f \in fs : \A g \in fs : f <= g
=============================================================================
