----------------------- MODULE SyncCoordinatorProofs ------------------------
(***************************************************************************)
(* Proofs about SyncCoordinator for every retention bound, every largest   *)
(* revision and any sets of transactions and adapters.                     *)
(***************************************************************************)
EXTENDS SyncCoordinator, FiniteSetTheorems, WellFoundedInduction, TLAPS

(* The recorded batches form one chain from 0 to the current revision: each *)
(* leads to the start of the next, and none starts inside another.          *)
HistoryChain ==
    \A f \in DOMAIN history :
        /\ history[f].to \in Revisions
        /\ f < history[f].to
        /\ history[f].to = current \/ history[f].to \in DOMAIN history
        /\ \A g \in DOMAIN history : g > f => g >= history[f].to
        /\ f < current

(* What is retained is an upward closed part of the history, never empty    *)
(* once something was recorded.                                             *)
JournalWindow ==
    /\ journal.latest = current
    /\ DOMAIN journal.batches \subseteq DOMAIN history
    /\ \A f \in DOMAIN journal.batches :
          /\ journal.batches[f] = history[f]
          /\ \A g \in DOMAIN history : g >= f => g \in DOMAIN journal.batches
    /\ DOMAIN history # {} => DOMAIN journal.batches # {}

(* A cursor only ever stands between two batches. *)
CursorsOnBoundaries ==
    \A a \in Adapters : cursor[a].applied \in DOMAIN history \cup {current}

(* Only a batch that cannot be applied is ever held in part. *)
PartsUnsound ==
    \A a \in Adapters : \A f \in view[a].part : f \in DOMAIN history /\ ~history[f].sound

IInv ==
    /\ TypeOK
    /\ HistoryChain
    /\ JournalWindow
    /\ CursorsOnBoundaries
    /\ PartsUnsound
    /\ AdapterSeesHistory
    /\ BoundedRetention

-----------------------------------------------------------------------------
(* Lemmas about the journal's operators *)

LEMMA RevisionsAreNaturals == Revisions \subseteq Nat /\ IsFiniteSet(Revisions)
BY MaxRevisionAssumption, FS_Interval DEF Revisions

(* Eviction keeps an upward closed set of keys. *)
LEMMA RetainedUpwardClosed ==
    ASSUME NEW keys, IsFiniteSet(keys), keys \subseteq Nat,
           NEW f \in Retained(keys), NEW g \in keys, g >= f
    PROVE  g \in Retained(keys)
<1> DEFINE Above(x) == {h \in keys : h >= x}
<1>0. f \in keys
  BY DEF Retained
<1>1. Above(g) \subseteq Above(f)
  <2> SUFFICES ASSUME NEW h \in keys, h >= g PROVE h >= f
    OBVIOUS
  <2>1. f \in Nat /\ g \in Nat /\ h \in Nat
    BY <1>0
  <2> QED
    BY <2>1
<1>2. IsFiniteSet(Above(f))
  BY FS_Subset
<1>3. Cardinality(Above(g)) <= Cardinality(Above(f))
  BY <1>1, <1>2, FS_Subset
<1>4. Cardinality(Above(f)) <= Capacity
  BY DEF Retained
<1>5. /\ Cardinality(Above(f)) \in Nat
      /\ Cardinality(Above(g)) \in Nat
  BY <1>1, <1>2, FS_Subset, FS_CardinalityType
<1>6. Cardinality(Above(g)) <= Capacity
  BY <1>3, <1>4, <1>5, CapacityAssumption
<1> QED
  BY <1>6 DEF Retained

(* The newest key always survives. *)
LEMMA RetainedKeepsNewest ==
    ASSUME NEW keys, keys \subseteq Nat,
           NEW f \in keys, \A g \in keys : g <= f
    PROVE  f \in Retained(keys)
<1>0. \A g \in keys : g >= f <=> g = f
  OBVIOUS
<1>1. {g \in keys : g >= f} = {f}
  BY <1>0
<1>2. Cardinality({f}) = 1
  BY FS_Singleton
<1>3. Cardinality({g \in keys : g >= f}) <= Capacity
  BY <1>1, <1>2, CapacityAssumption
<1> QED
  BY <1>3 DEF Retained

(* Eviction honours the bound: all the keys retained are at or above the   *)
(* smallest of them, and there are at most Capacity of those.              *)
LEMMA RetainedBounded ==
    ASSUME NEW keys, IsFiniteSet(keys), keys \subseteq Nat
    PROVE  Cardinality(Retained(keys)) <= Capacity
<1> DEFINE R == Retained(keys)
<1>1. R \subseteq keys
  BY DEF Retained
<1>2. CASE R = {}
  <2>1. Cardinality(R) = 0
    BY <1>2, FS_EmptySet
  <2> QED
    BY <2>1, CapacityAssumption
<1>3. CASE R # {}
  <2>1. R \subseteq Nat
    BY <1>1
  <2>2. PICK m \in R : \A y \in R : ~(<<y, m>> \in OpToRel(<, Nat))
    BY <2>1, <1>3, NatLessThanWellFounded, WFMin, Zenon
  <2>3. ASSUME NEW y \in R PROVE m <= y
    <3>1. /\ ~(<<y, m>> \in {ss \in Nat \X Nat : ss[1] < ss[2]})
          /\ m \in Nat
          /\ y \in Nat
      BY <2>1, <2>2 DEF OpToRel
    <3> QED
      BY <3>1
  <2> DEFINE Above == {g \in keys : g >= m}
  <2>4. R \subseteq Above
    BY <1>1, <2>3
  <2>5. IsFiniteSet(Above)
    BY FS_Subset
  <2>6. Cardinality(R) <= Cardinality(Above)
    BY <2>4, <2>5, FS_Subset
  <2>7. Cardinality(Above) <= Capacity
    BY DEF Retained
  <2>8. /\ Cardinality(Above) \in Nat
        /\ Cardinality(R) \in Nat
    BY <2>4, <2>5, FS_Subset, FS_CardinalityType
  <2> QED
    BY <2>6, <2>7, <2>8, CapacityAssumption
<1> QED
  BY <1>2, <1>3

-----------------------------------------------------------------------------
(* The inductive invariant *)

(* What the steps below use of the types. *)
LEMMA NaturalsEverywhere ==
    ASSUME IInv
    PROVE  /\ current \in Nat
           /\ DOMAIN history \subseteq Nat
           /\ IsFiniteSet(DOMAIN history)
           /\ DOMAIN journal.batches \subseteq Nat
           /\ IsFiniteSet(DOMAIN journal.batches)
           /\ \A f \in DOMAIN history : history[f].to \in Nat
           /\ \A a \in Adapters : cursor[a].applied \in Nat
<1> USE RevisionsAreNaturals DEF IInv
<1>1. DOMAIN history \subseteq Revisions
  BY DEF TypeOK
<1>2. DOMAIN journal.batches \subseteq Revisions
  BY DEF TypeOK
<1>3. IsFiniteSet(DOMAIN history) /\ IsFiniteSet(DOMAIN journal.batches)
  BY <1>1, <1>2, FS_Subset
<1>4. \A a \in Adapters : cursor[a].applied \in Nat
  BY DEF TypeOK
<1>5. current \in Nat
  BY DEF TypeOK
<1>6. \A f \in DOMAIN history : history[f].to \in Nat
  BY DEF HistoryChain
<1> QED
  BY <1>1, <1>2, <1>3, <1>4, <1>5, <1>6

LEMMA InitEstablishesIInv == Init => IInv
<1> SUFFICES ASSUME Init PROVE IInv
  OBVIOUS
<1> USE DEF Init, EmptyJournal, NoBatch
<1>0. 0 \in Revisions
  BY MaxRevisionAssumption DEF Revisions
<1>1. TypeOK
  BY <1>0 DEF TypeOK, NewCursor, Health
<1>2. HistoryChain
  BY DEF HistoryChain
<1>3. JournalWindow
  BY DEF JournalWindow
<1>4. CursorsOnBoundaries
  BY DEF CursorsOnBoundaries, NewCursor
<1>5. AdapterSeesHistory /\ PartsUnsound
  BY DEF AdapterSeesHistory, PartsUnsound, NewCursor
<1>6. BoundedRetention
  BY FS_EmptySet, CapacityAssumption DEF BoundedRetention
<1> QED
  BY <1>1, <1>2, <1>3, <1>4, <1>5, <1>6 DEF IInv

(* A commit, through a transaction or directly, extends the chain at its   *)
(* end and the window with it; no adapter notices.                         *)
LEMMA CommitPreservesIInv ==
    ASSUME IInv, NEW from, NEW to \in Revisions, from < to,
           CommitBatch(from, to), UNCHANGED adapters,
           staging' \in [Transactions ->
                           {Closed} \cup [from : Revisions, staged : BOOLEAN]]
    PROVE  IInv'
<1> DEFINE keys == DOMAIN journal.batches \cup {from}
<1>. PICK sound \in BOOLEAN :
        /\ journal' = Record(journal, from, Batch(to, sound))
        /\ history' = [f \in DOMAIN history \cup {from} |->
                         IF f = from THEN Batch(to, sound) ELSE history[f]]
  BY DEF CommitBatch
<1>. UNCHANGED <<cursor, view, told>>
  BY DEF adapters
<1>0. /\ from = current
      /\ journal.latest = current
      /\ current \in Nat
      /\ current \in Revisions
      /\ to \in Nat
  BY NaturalsEverywhere, RevisionsAreNaturals
  DEF IInv, CommitBatch, Accepts, JournalWindow, TypeOK
<1>1. /\ current' = to
      /\ journal'.latest = to
      /\ DOMAIN journal' = {"batches", "latest"}
      /\ DOMAIN journal'.batches = Retained(keys)
      /\ \A f \in Retained(keys) :
            journal'.batches[f] = IF f = from THEN Batch(to, sound) ELSE journal.batches[f]
  BY DEF CommitBatch, Record, Batch
<1>2. /\ DOMAIN history' = DOMAIN history \cup {from}
      /\ \A f \in DOMAIN history' :
            history'[f] = IF f = from THEN Batch(to, sound) ELSE history[f]
  OBVIOUS
<1>3. \A f \in DOMAIN history : f < current /\ f \in Nat
  BY NaturalsEverywhere DEF IInv, HistoryChain
<1>4. /\ keys \subseteq Nat
      /\ IsFiniteSet(keys)
      /\ \A g \in keys : g <= from
  BY <1>0, <1>3, NaturalsEverywhere, FS_AddElement DEF IInv, JournalWindow
<1>5. Retained(keys) \subseteq keys
  BY DEF Retained
<1>6. from \in Retained(keys)
  BY <1>4, RetainedKeepsNewest
<1>7. TypeOK'
  <2>1. DOMAIN journal'.batches \subseteq Revisions
    BY <1>0, <1>1, <1>5 DEF IInv, TypeOK
  <2>2. DOMAIN history' \subseteq Revisions
    BY <1>0, <1>2 DEF IInv, TypeOK
  <2> QED
    BY <1>1, <2>1, <2>2 DEF IInv, TypeOK
<1>8. HistoryChain'
  <2> SUFFICES ASSUME NEW f \in DOMAIN history'
               PROVE  /\ history'[f].to \in Revisions
                      /\ f < history'[f].to
                      /\ \/ history'[f].to = current'
                         \/ history'[f].to \in DOMAIN history'
                      /\ \A g \in DOMAIN history' : g > f => g >= history'[f].to
                      /\ f < current'
    BY DEF HistoryChain
  <2>1. CASE f = from
    <3>1. history'[f].to = to
      BY <1>2, <2>1 DEF Batch
    <3>2. \A g \in DOMAIN history' : ~(g > f)
      BY <1>0, <1>2, <1>3, <2>1
    <3> QED
      BY <1>1, <2>1, <3>1, <3>2
  <2>2. CASE f # from
    <3>1. f \in DOMAIN history /\ history'[f] = history[f]
      BY <1>2, <2>2
    <3>2. /\ history[f].to \in Revisions
          /\ f < history[f].to
          /\ history[f].to = current \/ history[f].to \in DOMAIN history
          /\ \A g \in DOMAIN history : g > f => g >= history[f].to
          /\ f < current
      BY <3>1 DEF IInv, HistoryChain
    <3>3. history[f].to <= current /\ history[f].to \in Nat /\ f \in Nat
      BY <1>0, <1>3, <3>1, <3>2, NaturalsEverywhere
    <3>4. \A g \in DOMAIN history' : g > f => g >= history[f].to
      BY <1>0, <1>2, <3>2, <3>3
    <3> QED
      BY <1>0, <1>1, <1>2, <3>1, <3>2, <3>3, <3>4
  <2> QED
    BY <2>1, <2>2
<1>9. JournalWindow'
  <2>1. DOMAIN journal'.batches \subseteq DOMAIN history'
    BY <1>1, <1>2, <1>5 DEF IInv, JournalWindow
  <2>2. ASSUME NEW f \in DOMAIN journal'.batches
        PROVE  /\ journal'.batches[f] = history'[f]
               /\ \A g \in DOMAIN history' : g >= f => g \in DOMAIN journal'.batches
    <3>1. f \in keys /\ f \in Retained(keys)
      BY <1>1, <1>5
    <3>2. journal'.batches[f] = history'[f]
      BY <1>1, <1>2, <3>1 DEF IInv, JournalWindow
    <3>3. ASSUME NEW g \in DOMAIN history', g >= f PROVE g \in keys
      <4>1. CASE f = from
        BY <1>0, <1>2, <1>3, <3>3, <4>1
      <4>2. CASE f # from
        BY <1>2, <3>1, <3>3, <4>2 DEF IInv, JournalWindow
      <4> QED
        BY <4>1, <4>2
    <3>4. ASSUME NEW g \in DOMAIN history', g >= f PROVE g \in Retained(keys)
      BY <1>4, <3>1, <3>3, <3>4, RetainedUpwardClosed
    <3> QED
      BY <1>1, <3>2, <3>4
  <2> QED
    BY <1>1, <1>6, <2>1, <2>2 DEF JournalWindow
<1>10. CursorsOnBoundaries'
  BY <1>0, <1>2 DEF IInv, CursorsOnBoundaries
<1>11. AdapterSeesHistory'
  <2> SUFFICES ASSUME NEW a \in Adapters
               PROVE  view[a].whole = {f \in DOMAIN history' : f < cursor[a].applied}
    BY DEF IInv, AdapterSeesHistory
  <2>1. view[a].whole = {f \in DOMAIN history : f < cursor[a].applied}
    BY DEF IInv, AdapterSeesHistory
  <2>2. ~(from < cursor[a].applied)
    BY <1>0, <1>3, NaturalsEverywhere DEF IInv, CursorsOnBoundaries
  <2> QED
    BY <1>2, <2>1, <2>2
<1>12. PartsUnsound'
  <2> SUFFICES ASSUME NEW a \in Adapters, NEW f \in view[a].part
               PROVE  f \in DOMAIN history' /\ ~history'[f].sound
    BY DEF PartsUnsound
  <2>1. f \in DOMAIN history /\ ~history[f].sound
    BY DEF IInv, PartsUnsound
  <2>2. f # from
    BY <1>0, <1>3, <2>1
  <2> QED
    BY <1>2, <2>1, <2>2
<1>13. BoundedRetention'
  BY <1>1, <1>4, RetainedBounded DEF BoundedRetention
<1> QED
  BY <1>7, <1>8, <1>9, <1>10, <1>11, <1>12, <1>13 DEF IInv

(* An adapter that applies the batch at its cursor moves from one boundary  *)
(* of the chain to the next, and now reflects exactly one batch more: it    *)
(* had no part of the batch, since no sound one was ever applied in part.   *)
LEMMA ApplyBatchPreservesIInv ==
    ASSUME IInv, NEW a \in Adapters, NEW f \in DOMAIN history, ApplyBatch(a, f)
    PROVE  IInv'
<1> DEFINE to == history[f].to
<1>0. /\ UNCHANGED <<journal, current, staging, told, history>>
      /\ f = cursor[a].applied
      /\ history[f].sound
      /\ cursor' = [cursor EXCEPT ![a] = [applied |-> to, health |-> "Ready"]]
      /\ view' = [view EXCEPT ![a].whole = @ \cup {f}]
  BY DEF ApplyBatch
<1>1. /\ to \in Revisions
      /\ f < to
      /\ to = current \/ to \in DOMAIN history
      /\ \A g \in DOMAIN history : g > f => g >= to
  BY DEF IInv, HistoryChain
<1>2. f \in Revisions
  BY DEF IInv, TypeOK
<1>3. TypeOK'
  <2>1. cursor' \in [Adapters -> [applied : Revisions, health : Health]]
    BY <1>0, <1>1 DEF IInv, TypeOK, Health
  <2>2. view' \in [Adapters -> [whole : SUBSET Revisions, part : SUBSET Revisions]]
    BY <1>0, <1>2 DEF IInv, TypeOK
  <2> QED
    BY <1>0, <2>1, <2>2 DEF IInv, TypeOK
<1>4. CursorsOnBoundaries'
  BY <1>0, <1>1 DEF IInv, CursorsOnBoundaries, TypeOK
<1>5. AdapterSeesHistory' /\ PartsUnsound'
  <2> SUFFICES ASSUME NEW b \in Adapters
               PROVE  /\ view'[b].whole = {g \in DOMAIN history : g < cursor'[b].applied}
                      /\ view'[b].part \subseteq {cursor'[b].applied}
                      /\ view'[b].part # {} => told[b]
                      /\ \A g \in view'[b].part : g \in DOMAIN history /\ ~history[g].sound
    BY <1>0 DEF AdapterSeesHistory, PartsUnsound
  <2>1. CASE b = a
    <3>1. /\ cursor'[b].applied = to
          /\ view'[b].whole = view[a].whole \cup {f}
          /\ view'[b].part = view[a].part
      BY <1>0, <2>1 DEF IInv, TypeOK
    <3>2. view[a].whole = {g \in DOMAIN history : g < f}
      BY <1>0 DEF IInv, AdapterSeesHistory
    <3>3. \A g \in DOMAIN history : g < to <=> g < f \/ g = f
      BY <1>1, NaturalsEverywhere
    <3>4. {g \in DOMAIN history : g < f} \cup {f} = {g \in DOMAIN history : g < to}
      BY <3>3
    <3>5. view[a].part = {}
      BY <1>0 DEF IInv, AdapterSeesHistory, PartsUnsound
    <3> QED
      BY <3>1, <3>2, <3>4, <3>5
  <2>2. CASE b # a
    <3>1. cursor'[b] = cursor[b] /\ view'[b] = view[b]
      BY <1>0, <2>2 DEF IInv, TypeOK
    <3> QED
      BY <3>1 DEF IInv, AdapterSeesHistory, PartsUnsound
  <2> QED
    BY <2>1, <2>2
<1>6. (HistoryChain /\ JournalWindow /\ BoundedRetention)'
  BY <1>0 DEF IInv, HistoryChain, JournalWindow, BoundedRetention
<1> QED
  BY <1>3, <1>4, <1>5, <1>6 DEF IInv

(* A failed application may leave a part of the batch at the cursor, and    *)
(* its owner is told.                                                       *)
LEMMA ApplyFailsPreservesIInv ==
    ASSUME IInv, NEW a \in Adapters, NEW f \in DOMAIN history, ApplyFails(a, f)
    PROVE  IInv'
<1>0. PICK kept \in SUBSET {f} :
         /\ UNCHANGED <<journal, current, staging, cursor, history>>
         /\ f = cursor[a].applied
         /\ ~history[f].sound
         /\ view' = [view EXCEPT ![a].part = @ \cup kept]
         /\ told' = [told EXCEPT ![a] = TRUE]
  BY DEF ApplyFails
<1>1. TypeOK'
  <2>1. f \in Revisions
    BY DEF IInv, TypeOK
  <2>2. view' \in [Adapters -> [whole : SUBSET Revisions, part : SUBSET Revisions]]
    BY <1>0, <2>1 DEF IInv, TypeOK
  <2>3. told' \in [Adapters -> BOOLEAN]
    BY <1>0 DEF IInv, TypeOK
  <2> QED
    BY <1>0, <2>2, <2>3 DEF IInv, TypeOK
<1>2. AdapterSeesHistory' /\ PartsUnsound'
  <2> SUFFICES ASSUME NEW b \in Adapters
               PROVE  /\ view'[b].whole = {g \in DOMAIN history : g < cursor[b].applied}
                      /\ view'[b].part \subseteq {cursor[b].applied}
                      /\ view'[b].part # {} => told'[b]
                      /\ \A g \in view'[b].part : g \in DOMAIN history /\ ~history[g].sound
    BY <1>0 DEF AdapterSeesHistory, PartsUnsound
  <2>1. CASE b = a
    <3>1. /\ view'[b].whole = view[b].whole
          /\ view'[b].part = view[b].part \cup kept
          /\ told'[b]
      BY <1>0, <2>1 DEF IInv, TypeOK
    <3> QED
      BY <1>0, <2>1, <3>1 DEF IInv, AdapterSeesHistory, PartsUnsound
  <2>2. CASE b # a
    <3>1. view'[b] = view[b] /\ told'[b] = told[b]
      BY <1>0, <2>2 DEF IInv, TypeOK
    <3> QED
      BY <3>1 DEF IInv, AdapterSeesHistory, PartsUnsound
  <2> QED
    BY <2>1, <2>2
<1>3. (HistoryChain /\ JournalWindow /\ BoundedRetention /\ CursorsOnBoundaries)'
  BY <1>0 DEF IInv, HistoryChain, JournalWindow, BoundedRetention, CursorsOnBoundaries
<1> QED
  BY <1>1, <1>2, <1>3 DEF IInv

(* A mark moves no cursor. *)
LEMMA MarkPreservesIInv ==
    ASSUME IInv, NEW a \in Adapters, NEW health \in {"RequiresRebuild", "Terminal"},
           Mark(a, health)
    PROVE  IInv'
<1>0. /\ UNCHANGED <<journal, current, staging, view, told, history>>
      /\ cursor' = [cursor EXCEPT ![a].health = health]
  BY DEF Mark
<1>1. /\ cursor' \in [Adapters -> [applied : Revisions, health : Health]]
      /\ \A b \in Adapters : cursor'[b].applied = cursor[b].applied
  BY <1>0 DEF IInv, TypeOK, Health
<1>2. TypeOK'
  BY <1>0, <1>1 DEF IInv, TypeOK
<1>3. (CursorsOnBoundaries /\ AdapterSeesHistory /\ PartsUnsound)'
  BY <1>0, <1>1 DEF IInv, CursorsOnBoundaries, AdapterSeesHistory, PartsUnsound
<1>4. (HistoryChain /\ JournalWindow /\ BoundedRetention)'
  BY <1>0 DEF IInv, HistoryChain, JournalWindow, BoundedRetention
<1> QED
  BY <1>2, <1>3, <1>4 DEF IInv

(* A rebuild leaves nothing of what the adapter held. *)
LEMMA RebuildPreservesIInv ==
    ASSUME IInv, NEW a \in Adapters, Rebuild(a)
    PROVE  IInv'
<1>0. /\ UNCHANGED <<journal, current, staging, history>>
      /\ cursor' = [cursor EXCEPT ![a] = [applied |-> current, health |-> "Ready"]]
      /\ view' = [view EXCEPT ![a] = [whole |-> DOMAIN history, part |-> {}]]
      /\ told' = [told EXCEPT ![a] = FALSE]
  BY DEF Rebuild
<1>1. TypeOK'
  <2>1. cursor' \in [Adapters -> [applied : Revisions, health : Health]]
    BY <1>0 DEF IInv, TypeOK, Health
  <2>2. view' \in [Adapters -> [whole : SUBSET Revisions, part : SUBSET Revisions]]
    BY <1>0 DEF IInv, TypeOK
  <2>3. told' \in [Adapters -> BOOLEAN]
    BY <1>0 DEF IInv, TypeOK
  <2> QED
    BY <1>0, <2>1, <2>2, <2>3 DEF IInv, TypeOK
<1>2. CursorsOnBoundaries'
  BY <1>0 DEF IInv, CursorsOnBoundaries, TypeOK
<1>3. AdapterSeesHistory' /\ PartsUnsound'
  <2> SUFFICES ASSUME NEW b \in Adapters
               PROVE  /\ view'[b].whole = {g \in DOMAIN history : g < cursor'[b].applied}
                      /\ view'[b].part \subseteq {cursor'[b].applied}
                      /\ view'[b].part # {} => told'[b]
                      /\ \A g \in view'[b].part : g \in DOMAIN history /\ ~history[g].sound
    BY <1>0 DEF AdapterSeesHistory, PartsUnsound
  <2>1. CASE b = a
    <3>1. /\ cursor'[b].applied = current
          /\ view'[b].whole = DOMAIN history
          /\ view'[b].part = {}
      BY <1>0, <2>1 DEF IInv, TypeOK
    <3> QED
      BY <3>1 DEF IInv, HistoryChain
  <2>2. CASE b # a
    <3>1. cursor'[b] = cursor[b] /\ view'[b] = view[b] /\ told'[b] = told[b]
      BY <1>0, <2>2 DEF IInv, TypeOK
    <3> QED
      BY <3>1 DEF IInv, AdapterSeesHistory, PartsUnsound
  <2> QED
    BY <2>1, <2>2
<1>4. (HistoryChain /\ JournalWindow /\ BoundedRetention)'
  BY <1>0 DEF IInv, HistoryChain, JournalWindow, BoundedRetention
<1> QED
  BY <1>1, <1>2, <1>3, <1>4 DEF IInv

-----------------------------------------------------------------------------
(* The steps together *)

LEMMA NextPreservesIInv == IInv /\ [Next]_vars => IInv'
<1> SUFFICES ASSUME IInv, [Next]_vars PROVE IInv'
  OBVIOUS
<1> DEFINE Stagings ==
      [Transactions -> {Closed} \cup [from : Revisions, staged : BOOLEAN]]
<1>0. staging \in Stagings /\ current \in Revisions
  BY DEF IInv, TypeOK
<1>1. ASSUME staging' \in Stagings, UNCHANGED <<journal, current, adapters, history>>
      PROVE  IInv'
  BY <1>1 DEF IInv, adapters, TypeOK, HistoryChain, JournalWindow, CursorsOnBoundaries,
              PartsUnsound, AdapterSeesHistory, BoundedRetention
<1>2. ASSUME NEW t \in Transactions, Begin(t) PROVE IInv'
  <2>1. staging' \in Stagings
    BY <1>0, <1>2 DEF Begin
  <2> QED
    BY <1>1, <1>2, <2>1 DEF Begin
<1>3. ASSUME NEW t \in Transactions, Stage(t) PROVE IInv'
  <2>1. staging[t] \in [from : Revisions, staged : BOOLEAN]
    BY <1>0, <1>3 DEF Stage
  <2>2. staging' \in Stagings
    BY <1>0, <1>3, <2>1 DEF Stage
  <2> QED
    BY <1>1, <1>3, <2>2 DEF Stage
<1>4. ASSUME NEW t \in Transactions, Commit(t) PROVE IInv'
  <2> DEFINE from == staging[t].from
  <2>1. from \in Revisions
    BY <1>0, <1>4 DEF Commit
  <2>2. from + 1 \in Revisions /\ from < from + 1
    BY <1>4, <2>1, MaxRevisionAssumption DEF Commit, Revisions
  <2>3. staging' \in Stagings
    BY <1>0, <1>4 DEF Commit
  <2> HIDE DEF from
  <2>4. CommitBatch(from, from + 1) /\ UNCHANGED adapters
    BY <1>4 DEF Commit, from
  <2> QED
    BY <2>2, <2>3, <2>4, CommitPreservesIInv
<1>5. ASSUME NEW t \in Transactions, CommitRejected(t) \/ Rollback(t) PROVE IInv'
  <2>1. staging' \in Stagings
    BY <1>0, <1>5 DEF CommitRejected, Rollback
  <2> QED
    BY <1>1, <1>5, <2>1 DEF CommitRejected, Rollback
<1>6. ASSUME NEW to \in Revisions, CommitSpan(to) PROVE IInv'
  <2>1. current < to
    BY <1>0, <1>6, RevisionsAreNaturals DEF CommitSpan
  <2>2. CommitBatch(current, to) /\ UNCHANGED adapters /\ staging' \in Stagings
    BY <1>0, <1>6 DEF CommitSpan
  <2> QED
    BY <2>1, <2>2, CommitPreservesIInv
<1>7. CASE UNCHANGED vars
  BY <1>0, <1>1, <1>7 DEF vars
<1> QED
  BY <1>2, <1>3, <1>4, <1>5, <1>6, <1>7, ApplyBatchPreservesIInv,
     ApplyFailsPreservesIInv, MarkPreservesIInv, RebuildPreservesIInv DEF Next

LEMMA IInvariant == Spec => []IInv
BY InitEstablishesIInv, NextPreservesIInv, PTL DEF Spec

(* Every variable of the coordinator keeps its type: no revision exceeds    *)
(* the counter's range, whatever commits and rebuilds interleave.           *)
THEOREM TypeCorrect == Spec => []TypeOK
<1>1. IInv => TypeOK
  BY DEF IInv
<1> QED
  BY <1>1, IInvariant, PTL

(* deltas_since answers exactly, or reports Compacted, at every cursor.     *)
THEOREM ReplayIsExact == Spec => []ReplayExact
<1>1. ASSUME IInv PROVE ReplayExact
  <2> SUFFICES ASSUME NEW a \in Adapters, ~Compacted(journal, cursor[a].applied)
               PROVE  /\ DeltasSince(journal, cursor[a].applied)
                            = {f \in DOMAIN history : f >= cursor[a].applied}
                      /\ Behind(a) =>
                           cursor[a].applied \in DeltasSince(journal, cursor[a].applied)
    BY DEF ReplayExact
  <2> DEFINE c == cursor[a].applied
  <2>1. /\ c \in Nat /\ current \in Nat
        /\ DOMAIN history \subseteq Nat /\ DOMAIN journal.batches \subseteq Nat
    BY <1>1, NaturalsEverywhere
  <2>2. \A f \in DOMAIN history : f >= c => f \in DOMAIN journal.batches
    <3>1. CASE DOMAIN journal.batches = {}
      BY <1>1, <3>1 DEF IInv, JournalWindow
    <3>2. CASE DOMAIN journal.batches # {}
      <4>1. PICK g \in DOMAIN journal.batches : g <= c
        BY <2>1, <3>2 DEF Compacted
      <4>2. \A f \in DOMAIN history : f >= c => f >= g
        BY <2>1, <4>1
      <4> QED
        BY <1>1, <4>1, <4>2 DEF IInv, JournalWindow
    <3> QED
      BY <3>1, <3>2
  <2>3. DOMAIN journal.batches \subseteq DOMAIN history
    BY <1>1 DEF IInv, JournalWindow
  <2>4. Behind(a) => c \in DOMAIN history
    BY <1>1, <2>1 DEF Behind, IInv, CursorsOnBoundaries
  <2> QED
    BY <2>1, <2>2, <2>3, <2>4 DEF DeltasSince
<1> QED
  BY <1>1, IInvariant, PTL

(* An adapter reflects exactly the batches before its cursor, and of the    *)
(* batch at its cursor a part at most, only after its owner was told to     *)
(* rebuild: for any number of adapters and whatever was compacted, handed   *)
(* over late or applied in part meanwhile (apply_batch, rebuild).           *)
THEOREM AdaptersSeeHistory == Spec => []AdapterSeesHistory
<1>1. IInv => AdapterSeesHistory
  BY DEF IInv
<1> QED
  BY <1>1, IInvariant, PTL

(* The journal never holds more than Capacity batches.                      *)
THEOREM RetentionBounded == Spec => []BoundedRetention
<1>1. IInv => BoundedRetention
  BY DEF IInv
<1> QED
  BY <1>1, IInvariant, PTL

(* A transaction that ends by moving the revision was opened at the         *)
(* revision it moved.                                                       *)
THEOREM NoUpdateLost == Spec => NoLostUpdate
<1>1. ASSUME IInv, [Next]_vars
      PROVE  [\A t \in Transactions :
                (staging[t] # Closed /\ staging'[t] = Closed /\ current' # current)
                    => staging[t].from = current]_vars
  <2> SUFFICES ASSUME Next, NEW t \in Transactions,
                      staging[t] # Closed, staging'[t] = Closed, current' # current
               PROVE  staging[t].from = current
    BY <1>1
  <2>1. journal.latest = current
    BY <1>1 DEF IInv, BoundedRetention
  <2>2. ASSUME NEW u \in Transactions, Commit(u) PROVE staging[t].from = current
    <3>1. u = t
      BY <1>1, <2>2 DEF Commit, IInv, TypeOK
    <3> QED
      BY <2>1, <2>2, <3>1 DEF Commit, CommitBatch, Accepts
  <2>3. ASSUME NEW to \in Revisions, CommitSpan(to) PROVE FALSE
    BY <2>3 DEF CommitSpan
  <2> QED
    BY <2>2, <2>3 DEF Next, Begin, Stage, CommitRejected, Rollback,
                       ApplyBatch, ApplyFails, Mark, Rebuild
<1> QED
  BY <1>1, IInvariant, PTL DEF Spec, NoLostUpdate
=============================================================================
