-------------------------- MODULE SolverSyncProofs ---------------------------
(***************************************************************************)
(* What a solver session promises, for any models, retention bound and     *)
(* largest revision: every answer is the answer to the committed state it  *)
(* was asked for, and what the session trusts between attempts is clean.   *)
(***************************************************************************)
EXTENDS SolverSync, FiniteSetTheorems, FunctionTheorems, SequenceTheorems,
        WellFoundedInduction, TLAPS

-----------------------------------------------------------------------------
(* The inductive invariant, part by part                                   *)

Labels == {"idle", "sync", "rebuild", "compile", "send", "resend", "synced",
           "overlay", "start", "solve", "rollback", "verify"}
Causes == {"commit", "backend", "snapshot", "plan"}
Held == Contents \cup {Garbage}

Rebuilds == [kind : {"rebuild"}, base : Bases, from : {0}]
Increments == [kind : {"delta"}, base : Bases, from : Bases]

\* The shapes of the session's state.
SessionTyped ==
    /\ compiler \in Bases \cup {None}
    /\ bound \in Models \cup {None}
    /\ backend \in [health : Health, revision : Revisions,
                    compilation : Nat \cup {None}, holds : Held]
    /\ outbox \in Seq(Rebuilds \cup Increments)
    /\ overlay \in Receipts \cup {None}

\* The shapes of the attempt's.
AttemptTyped ==
    /\ pc \in Labels
    /\ attempt \in Attempts \cup {None}
    /\ attempt = None <=> pc = "idle"
    /\ answered \in {None, Failed} \cup {Solved(c) : c \in Held}
    /\ answered # None => pc = "idle"
    /\ cause \subseteq Causes
    /\ touched \in BOOLEAN

\* A model's journal holds one batch from each of its last revisions to the next.
JournalWindow(m) ==
    /\ journal[m].latest = revision[m]
    /\ DOMAIN journal[m].batches \subseteq Nat
    /\ \A f \in DOMAIN journal[m].batches :
          /\ f < revision[m]
          /\ journal[m].batches[f] \in {Batch(f + 1, TRUE), Batch(f + 1, FALSE)}
          /\ \A g \in f..(revision[m] - 1) : g \in DOMAIN journal[m].batches
    /\ revision[m] > 0 => revision[m] - 1 \in DOMAIN journal[m].batches

ModelsTyped ==
    /\ revision \in [Models -> Revisions]
    /\ DOMAIN journal = Models
    /\ \A m \in Models : journal[m] = [batches |-> journal[m].batches, latest |-> journal[m].latest]
    /\ pending \in [Models -> {"none", "incremental", "structural"}]
    /\ supported \in [Models -> BOOLEAN]
    /\ \A m \in Models : JournalWindow(m)

TypeOK == ModelsTyped /\ SessionTyped /\ AttemptTyped

\* The compiled base that the backend confirms.
Confirmed ==
    /\ backend.health = "Ready"
    /\ compiler # None
    /\ backend.compilation = compiler.id

\* A confirmed base describes what the native solver holds, except while a rollback
\* is still to be verified, and it is the base of the model the session is bound to,
\* except while the attempt that moves it is still on its way.
ConfirmedIsTrue ==
    Confirmed =>
        /\ pc # "verify" => /\ backend.revision = compiler.revision
                            /\ backend.holds = Compiled(compiler.model, compiler.revision)
        /\ pc \notin {"send", "resend"} => bound = compiler.model

Preparing == {"compile", "send", "resend"}
Solving == {"overlay", "start", "solve", "rollback", "verify"}

\* The messages lead, one from the other, to the compiled base, and no state they
\* lead to is the one the backend confirms already.
OutboxChain ==
    pc \in Preparing =>
        /\ \A i \in 1..Len(outbox) :
              /\ outbox[i].base.model = Target
              /\ outbox[i].base.id # backend.compilation
              /\ outbox[i].kind = "delta" => outbox[i].from.model = Target
              /\ i > 1 => outbox[i].kind = "delta" /\ outbox[i].from = outbox[i - 1].base
              /\ \A j \in 1..Len(outbox) : i # j => outbox[i].base.id # outbox[j].base.id
        /\ outbox # <<>> => compiler = outbox[Len(outbox)].base
        /\ pc = "resend" /\ outbox # <<>> => outbox[1].kind = "rebuild" /\ Len(outbox) = 1

\* Outside the way from the compiler to the backend nothing waits to be sent.
OutboxEmpty == pc \notin Preparing \cup {"rebuild"} => outbox = <<>>

\* The first message starts at what the backend really holds, if at what it confirms.
HeadFits ==
    pc \in {"compile", "send"} /\ outbox # <<>> /\ outbox[1].kind = "delta" =>
        /\ backend.compilation = outbox[1].from.id =>
              /\ backend.revision = outbox[1].from.revision
              /\ backend.holds = Compiled(Target, outbox[1].from.revision)
        /\ touched => backend.compilation = outbox[1].from.id

\* Compiling continues, batch by batch, what the backend was Ready with.
CompilesForward ==
    pc = "compile" =>
        /\ backend.health = "Ready"
        /\ backend.revision <= Reached /\ Reached <= revision[Target]
        /\ backend.revision < revision[Target]
        /\ backend.revision \in DOMAIN journal[Target].batches
        /\ outbox # <<>> => Reached = compiler.revision
        /\ \A i \in 2..Len(outbox) : i \in Deltas

\* What is sent leads to the committed revision; all sent, the backend confirms it.
SendsToTarget ==
    pc \in {"send", "resend"} =>
        /\ compiler # None /\ compiler.model = Target
        /\ compiler.revision = revision[Target]
        /\ pc = "send" => backend.health = "Ready"
        /\ outbox = <<>> => Confirmed

\* Nothing had to be done.
SyncedAlready ==
    pc = "synced" =>
        /\ backend.health = "Ready"
        /\ bound \in {None, Target}
        /\ backend.revision = revision[Target]

\* From the binding to the end of the attempt the backend is Ready at the committed
\* revision of the model asked for.
SolvesTarget ==
    pc \in Solving =>
        /\ bound = Target
        /\ backend.health = "Ready"
        /\ backend.revision = revision[Target]
        /\ pc = "overlay" => attempt.overlay /\ overlay = None
        /\ pc \in {"rollback", "verify"} => overlay # None
        /\ pc \in {"start", "solve"} /\ attempt.overlay => overlay # None

Overlaid == [Compiled(Target, revision[Target]) EXCEPT !.extra = {"overlay"}]

\* An applied overlay is known by an id of its own, lies on the base that was compiled,
\* and nothing but it was added to what the native solver holds, unless the compiled
\* base was dropped.
OverlayOnBase ==
    overlay # None =>
        /\ pc \in {"start", "solve", "rollback", "verify"}
        /\ attempt.overlay
        /\ overlay.applied # overlay.base
        /\ overlay.captured = Compiled(Target, revision[Target])
        /\ backend.compilation = IF pc = "verify" THEN overlay.base ELSE overlay.applied
        /\ compiler # None =>
              /\ compiler = Base(Target, revision[Target], overlay.base)
              /\ pc # "verify" => backend.holds = Overlaid
              /\ pc = "verify" => backend.holds \in {overlay.captured, Garbage}
        /\ pc \in {"start", "solve"} => compiler # None

\* What was solved under an overlay is what was asked for.
SolvedAsAsked ==
    attempt # None /\ attempt.solved # None =>
        /\ pc \in {"rollback", "verify"}
        /\ attempt.solved = Overlaid

\* Until something was sent nothing was touched, and no attempt fails to compile
\* a snapshot after it touched the backend without the backend having failed.
TouchedLate ==
    /\ pc \in {"sync", "synced", "compile"} => ~touched /\ cause = {}
    /\ pc = "send" => cause = {}
    /\ pc = "rebuild" /\ cause = {} => ~touched
    /\ pc # "idle" => "snapshot" \notin cause

SendingInv == OutboxChain /\ OutboxEmpty /\ HeadFits /\ CompilesForward /\ SendsToTarget

SolvingInv == SyncedAlready /\ SolvesTarget /\ OverlayOnBase /\ SolvedAsAsked

SessionInv ==
    TypeOK /\ ConfirmedIsTrue /\ SendingInv /\ SolvingInv /\ TouchedLate /\ RejectedUntouched

(* With a single model every attempt has a cause for its failure. *)
\* A compiled base the backend does not confirm is ahead of it.
UnconfirmedIsBehind ==
    backend.health = "Ready" /\ compiler # None /\ ~Confirmed =>
        \A m \in Models :
            pc \in {"idle", "sync", "rebuild", "compile"} => backend.revision < revision[m]

CausesKnown ==
    /\ pc = "synced" => Confirmed
    /\ pc = "overlay" => Confirmed
    /\ pc \in {"start", "solve"} /\ overlay = None => Confirmed
    /\ pc \in {"rollback", "verify"} /\ attempt.solved = None => cause # {}

SingleInv == UnconfirmedIsBehind /\ CausesKnown /\ NoSpuriousFailure

-----------------------------------------------------------------------------
(* Lemmas about the data                                                   *)

\* The revisions of the model are natural numbers, the first of them 0.
LEMMA RevisionsAreNaturals == Revisions \subseteq Nat /\ 0 \in Revisions
BY MaxRevisionAssumption DEF Revisions

\* None is told from every value an Option holds.
LEMMA NoneIsNoValue ==
    /\ \A m \in Models : m # None
    /\ \A n \in Nat : n # None
    /\ \A b \in Bases : b # None
    /\ \A r \in Receipts : r # None
    /\ \A a \in Attempts : a # None
    /\ \A c \in Held : c # None
    /\ Failed # None
BY NoneAssumption DEF Held

\* An answer that is reported solved is of the shape answers have.
LEMMA SolvedIsAnAnswer ==
    ASSUME NEW c \in Held
    PROVE  Solved(c) # None /\ Solved(c) # Failed
BY NoneAssumption DEF Held, Solved, Failed

\* Some of the ids nobody holds is the least.
LEMMA LeastOutside ==
    ASSUME NEW S, IsFiniteSet(S)
    PROVE  \E i \in 1..(Cardinality(S) + 1) : i \notin S /\ \A j \in 1..(i - 1) : j \in S
<1> DEFINE n == Cardinality(S) + 1
           F == (1..n) \ S
<1>1. Cardinality(S) \in Nat
  BY FS_CardinalityType
<1>2. F # {}
  <2>1. SUFFICES ASSUME 1..n \subseteq S PROVE FALSE
    OBVIOUS
  <2>2. Cardinality(1..n) <= Cardinality(S)
    BY <2>1, FS_Subset
  <2>3. Cardinality(1..n) = n
    BY <1>1, FS_Interval
  <2> QED
    BY <1>1, <2>2, <2>3
<1>3. F \subseteq Nat
  BY <1>1
<1>4. PICK i \in F : \A j \in F : ~(<<j, i>> \in OpToRel(<, Nat))
  BY <1>2, <1>3, NatLessThanWellFounded, WFMin, Zenon
<1>5. ASSUME NEW j \in 1..(i - 1) PROVE j \in S
  <2>1. i \in Nat /\ j \in Nat /\ j < i /\ j \in 1..n
    BY <1>1, <1>5
  <2>2. <<j, i>> \in OpToRel(<, Nat)
    BY <2>1 DEF OpToRel
  <2> QED
    BY <1>4, <2>1, <2>2
<1> QED
  BY <1>4, <1>5

\* CompilationId::allocate hands out an id that nothing alive carries.
LEMMA FreshIdIsNew ==
    ASSUME SessionTyped
    PROVE  FreshId \in Nat /\ FreshId \notin HeldIds
<1> DEFINE n == Len(outbox)
           Id == [i \in 1..n |-> outbox[i].base.id]
           Ids == {outbox[i].base.id : i \in DOMAIN outbox}
           A == {CurrentCompilation, backend.compilation} \ {None}
           B == IF overlay = None THEN {} ELSE {overlay.base, overlay.applied}
<1>1. n \in Nat /\ DOMAIN outbox = 1..n
  BY LenProperties DEF SessionTyped
<1>2. IsFiniteSet(Ids)
  <2>1. Id \in Surjection(1..n, Ids)
    BY <1>1, Fun_IsSurj
  <2>2. IsFiniteSet(1..n)
    BY <1>1, FS_Interval
  <2> HIDE DEF Id, Ids
  <2> QED
    BY <2>1, <2>2, FS_Surjection
<1>3. IsFiniteSet(A)
  <2>1. IsFiniteSet({} \cup {CurrentCompilation})
    BY FS_EmptySet, FS_AddElement
  <2>2. IsFiniteSet(({} \cup {CurrentCompilation}) \cup {backend.compilation})
    BY <2>1, FS_AddElement
  <2>3. A \subseteq ({} \cup {CurrentCompilation}) \cup {backend.compilation}
    OBVIOUS
  <2> QED
    BY <2>2, <2>3, FS_Subset
<1>4. IsFiniteSet(B)
  <2>1. IsFiniteSet({} \cup {overlay.base})
    BY FS_EmptySet, FS_AddElement
  <2>2. IsFiniteSet(({} \cup {overlay.base}) \cup {overlay.applied})
    BY <2>1, FS_AddElement
  <2>3. B \subseteq ({} \cup {overlay.base}) \cup {overlay.applied}
    OBVIOUS
  <2> QED
    BY <2>2, <2>3, FS_Subset
<1>5. HeldIds = (A \cup B) \cup Ids
  BY DEF HeldIds
<1>6. IsFiniteSet(HeldIds)
  <2> HIDE DEF A, B, Ids
  <2>1. IsFiniteSet(A \cup B)
    BY <1>3, <1>4, FS_Union
  <2> QED
    BY <1>2, <1>5, <2>1, FS_Union
<1>7. Cardinality(HeldIds) \in Nat
  BY <1>6, FS_CardinalityType
<1>8. \E i \in 1..(Cardinality(HeldIds) + 1) :
         i \notin HeldIds /\ \A j \in 1..(i - 1) : j \in HeldIds
  BY <1>6, LeastOutside
<1>9. FreshId \in 1..(Cardinality(HeldIds) + 1) /\ FreshId \notin HeldIds
  BY <1>8 DEF FreshId
<1> QED
  BY <1>7, <1>9

\* The same, holder by holder.
LEMMA FreshIdDiffers ==
    ASSUME SessionTyped
    PROVE  /\ FreshId \in Nat
           /\ FreshId # backend.compilation
           /\ compiler # None => FreshId # compiler.id
           /\ overlay # None => FreshId # overlay.base /\ FreshId # overlay.applied
           /\ \A i \in 1..Len(outbox) : FreshId # outbox[i].base.id
<1>1. FreshId \in Nat /\ FreshId \notin HeldIds
  BY FreshIdIsNew
<1>2. DOMAIN outbox = 1..Len(outbox)
  BY LenProperties DEF SessionTyped
<1>3. FreshId # None
  BY <1>1, NoneIsNoValue
<1>4. compiler # None => CurrentCompilation = compiler.id /\ compiler.id # None
  BY NoneIsNoValue DEF CurrentCompilation, SessionTyped, Bases
<1>5. FreshId # backend.compilation /\ (compiler # None => FreshId # compiler.id)
  BY <1>1, <1>3, <1>4 DEF HeldIds
<1>6. overlay # None => FreshId # overlay.base /\ FreshId # overlay.applied
  BY <1>1 DEF HeldIds
<1>7. \A i \in 1..Len(outbox) : FreshId # outbox[i].base.id
  BY <1>1, <1>2 DEF HeldIds
<1> QED
  BY <1>1, <1>5, <1>6, <1>7

-----------------------------------------------------------------------------
(* Lemmas about the models                                                 *)

\* A committed batch extends the window of its model's journal.
LEMMA RecordKeepsWindow ==
    ASSUME ModelsTyped, NEW m \in Models, NEW s \in BOOLEAN, revision[m] < MaxRevision,
           revision' = [revision EXCEPT ![m] = revision[m] + 1],
           journal' = [journal EXCEPT ![m] = Record(@, revision[m], Batch(revision[m] + 1, s))]
    PROVE  /\ \A n \in Models : JournalWindow(n)'
           /\ journal'[m] = [batches |-> journal'[m].batches, latest |-> journal'[m].latest]
<1> DEFINE keys == DOMAIN journal[m].batches \cup {revision[m]}
           batch == Batch(revision[m] + 1, s)
<1>1. revision \in [Models -> Nat] /\ m \in DOMAIN journal
  BY RevisionsAreNaturals DEF ModelsTyped
<1>2. /\ revision'[m] = revision[m] + 1
      /\ \A n \in Models \ {m} : revision'[n] = revision[n] /\ journal'[n] = journal[n]
  BY <1>1 DEF ModelsTyped
<1>3. journal'[m] = [batches |-> [f \in Retained(keys) |->
                                    IF f = revision[m] THEN batch ELSE journal[m].batches[f]],
                     latest |-> batch.to]
  BY <1>1 DEF Record
<1>4. JournalWindow(m)
  BY DEF ModelsTyped
<1>5. /\ keys \subseteq Nat
      /\ \A f \in keys : f <= revision[m]
  <2>1. revision[m] \in Nat
    BY <1>1
  <2>2. \A f \in DOMAIN journal[m].batches : f \in Nat /\ f < revision[m]
    BY <1>4 DEF JournalWindow
  <2>3. \A f \in DOMAIN journal[m].batches : f <= revision[m]
    BY <2>1, <2>2
  <2> QED
    BY <2>1, <2>2, <2>3
<1>6. IsFiniteSet(keys)
  BY <1>1, <1>5, FS_BoundedSetOfNaturals
<1>7. Retained(keys) \subseteq keys
  BY DEF Retained
<1>8. revision[m] \in Retained(keys)
  <2>1. {g \in keys : g >= revision[m]} = {revision[m]}
    BY <1>1, <1>5
  <2>2. Cardinality({revision[m]}) = 1
    BY FS_Singleton
  <2> QED
    BY <2>1, <2>2, CapacityAssumption DEF Retained
<1>9. ASSUME NEW f \in Retained(keys), NEW g \in keys, g >= f PROVE g \in Retained(keys)
  <2> DEFINE Above(x) == {h \in keys : h >= x}
  <2>1. Above(g) \subseteq Above(f)
    BY <1>5, <1>7, <1>9
  <2>2. IsFiniteSet(Above(f))
    BY <1>6, FS_Subset
  <2>3. Cardinality(Above(g)) <= Cardinality(Above(f)) /\ IsFiniteSet(Above(g))
    BY <2>1, <2>2, FS_Subset
  <2>4. Cardinality(Above(g)) \in Nat /\ Cardinality(Above(f)) \in Nat
    BY <2>2, <2>3, FS_CardinalityType
  <2>5. Cardinality(Above(f)) <= Capacity
    BY DEF Retained
  <2>6. Cardinality(Above(g)) <= Capacity
    BY <2>3, <2>4, <2>5, CapacityAssumption
  <2> QED
    BY <2>6 DEF Retained
<1> HIDE DEF keys, batch
<1>10. /\ DOMAIN journal'[m].batches = Retained(keys)
       /\ journal'[m].latest = revision'[m]
       /\ \A f \in Retained(keys) :
             journal'[m].batches[f] = IF f = revision[m] THEN batch ELSE journal[m].batches[f]
  BY <1>2, <1>3 DEF batch, Batch
<1>11. JournalWindow(m)'
  <2>1. ASSUME NEW f \in Retained(keys)
        PROVE  /\ f < revision'[m]
               /\ journal'[m].batches[f] \in {Batch(f + 1, TRUE), Batch(f + 1, FALSE)}
               /\ \A g \in f..(revision'[m] - 1) : g \in Retained(keys)
    <3>1. f < revision'[m] /\ f \in Nat
      BY <1>1, <1>2, <1>5, <1>7
    <3>2. journal'[m].batches[f] \in {Batch(f + 1, TRUE), Batch(f + 1, FALSE)}
      <4>1. CASE f = revision[m]
        BY <1>10, <4>1 DEF batch
      <4>2. CASE f # revision[m]
        <5>1. f \in DOMAIN journal[m].batches
          BY <1>7, <4>2 DEF keys
        <5> QED
          BY <1>4, <1>10, <4>2, <5>1 DEF JournalWindow
      <4> QED
        BY <4>1, <4>2
    <3>3. ASSUME NEW g \in f..(revision'[m] - 1) PROVE g \in Retained(keys)
      <4>1. g \in keys
        <5>1. CASE g = revision[m]
          BY <5>1 DEF keys
        <5>2. CASE g # revision[m]
          <6>1. g \in f..(revision[m] - 1) /\ f # revision[m]
            BY <1>1, <1>2, <3>1, <5>2
          <6>2. f \in DOMAIN journal[m].batches
            BY <1>7, <6>1 DEF keys
          <6> QED
            BY <1>4, <6>1, <6>2 DEF JournalWindow, keys
        <5> QED
          BY <5>1, <5>2
      <4>2. g >= f
        BY <1>1, <1>2, <3>1
      <4> QED
        BY <1>9, <4>1, <4>2
    <3> QED
      BY <3>1, <3>2, <3>3
  <2>2. Retained(keys) \subseteq Nat
    BY <1>5, <1>7
  <2>3. revision'[m] - 1 \in Retained(keys)
    BY <1>1, <1>2, <1>8
  <2> QED
    BY <1>10, <2>1, <2>2, <2>3 DEF JournalWindow
<1>12. \A n \in Models \ {m} : JournalWindow(n)'
  BY <1>2 DEF ModelsTyped, JournalWindow
<1> QED
  BY <1>3, <1>11, <1>12

\* A commit changes nothing but the committed model, and only forward.
LEMMA CommitKeepsTypes ==
    ASSUME ModelsTyped, NEW m \in Models, CommitModel(m)
    PROVE  /\ ModelsTyped'
           /\ \A n \in Models : revision[n] <= revision'[n]
<1>1. CASE pending[m] = "none"
  <2>1. UNCHANGED <<revision, journal, pending, supported>>
    BY <1>1 DEF CommitModel, modelVars
  <2>2. \A n \in Models : revision[n] \in Nat
    BY RevisionsAreNaturals DEF ModelsTyped
  <2>3. ModelsTyped'
    BY <2>1 DEF ModelsTyped, JournalWindow
  <2> QED
    BY <2>1, <2>2, <2>3
<1>2. CASE pending[m] # "none"
  <2> DEFINE s == pending[m] = "structural"
  <2>1. /\ revision' = [revision EXCEPT ![m] = revision[m] + 1]
        /\ journal' = [journal EXCEPT ![m] = Record(@, revision[m], Batch(revision[m] + 1, s))]
        /\ pending' = [pending EXCEPT ![m] = "none"]
        /\ supported' = supported
        /\ revision[m] # MaxRevision
    BY <1>2 DEF CommitModel, CommitOverflows
  <2>2. revision[m] \in Revisions /\ revision[m] < MaxRevision
    BY <2>1, MaxRevisionAssumption DEF ModelsTyped, Revisions
  <2>3. s \in BOOLEAN
    OBVIOUS
  <2> HIDE DEF s
  <2>4. /\ \A n \in Models : JournalWindow(n)'
        /\ journal'[m] = [batches |-> journal'[m].batches, latest |-> journal'[m].latest]
    BY <2>1, <2>2, <2>3, RecordKeepsWindow
  <2>5. revision' \in [Models -> Revisions] /\ \A n \in Models : revision[n] <= revision'[n]
    BY <2>1, <2>2, MaxRevisionAssumption DEF ModelsTyped, Revisions
  <2>6. DOMAIN journal' = Models /\ \A n \in Models \ {m} : journal'[n] = journal[n]
    BY <2>1 DEF ModelsTyped
  <2> QED
    BY <2>1, <2>4, <2>5, <2>6 DEF ModelsTyped
<1> QED
  BY <1>1, <1>2

\* All revisions are numbers, the model a running attempt is for is a model.
LEMMA CountersAreNaturals ==
    ASSUME TypeOK
    PROVE  /\ \A m \in Models : revision[m] \in Nat /\ revision[m] \in Revisions
           /\ backend.revision \in Nat
           /\ pc # "idle" => Target \in Models /\ Target # None
           /\ compiler # None => compiler \in Bases /\ compiler.revision \in Nat
<1>1. \A m \in Models : revision[m] \in Nat /\ revision[m] \in Revisions
  BY RevisionsAreNaturals DEF TypeOK, ModelsTyped
<1>2. backend.revision \in Nat /\ (compiler # None => compiler \in Bases /\ compiler.revision \in Nat)
  BY RevisionsAreNaturals DEF TypeOK, SessionTyped, Bases
<1>3. pc # "idle" => Target \in Models
  BY DEF TypeOK, AttemptTyped, Attempts, Target
<1> QED
  BY <1>1, <1>2, <1>3, NoneIsNoValue

-----------------------------------------------------------------------------
(* Lemmas about the steps of an attempt                                    *)

\* The models do not change while an attempt runs.
LEMMA ModelsAtRest ==
    ASSUME ModelsTyped, UNCHANGED modelVars
    PROVE  ModelsTyped'
BY DEF ModelsTyped, JournalWindow, modelVars

\* The types of a step that goes on with the attempt,
LEMMA GotoTyped ==
    ASSUME TypeOK, pc # "idle", UNCHANGED modelVars, NEW l \in Labels \ {"idle"}, Goto(l),
           SessionTyped', cause' \subseteq Causes, touched' \in BOOLEAN
    PROVE  TypeOK'
BY ModelsAtRest DEF TypeOK, Goto, AttemptTyped

\* and of one that ends it with an error.
LEMMA FailTyped ==
    ASSUME TypeOK, UNCHANGED modelVars, Fail,
           compiler' \in Bases \cup {None}, bound' \in Models \cup {None},
           backend' \in [health : Health, revision : Revisions,
                         compilation : Nat \cup {None}, holds : Held],
           cause' \subseteq Causes, touched' \in BOOLEAN
    PROVE  TypeOK'
<1>1. AttemptTyped'
  BY DEF Fail, AttemptTyped, Labels
<1>2. SessionTyped'
  BY DEF Fail, SessionTyped
<1> QED
  BY <1>1, <1>2, ModelsAtRest DEF TypeOK

\* Nothing is on its way to the backend.
LEMMA NotSending ==
    ASSUME pc' \in Labels \ Preparing, pc' = "rebuild" \/ outbox' = <<>>
    PROVE  SendingInv'
BY DEF SendingInv, OutboxChain, OutboxEmpty, HeadFits, CompilesForward, SendsToTarget, Preparing

\* The backend is not yet asked to solve.
LEMMA NotSolving ==
    ASSUME pc' \in Labels \ Solving, overlay' = None, attempt' = None \/ attempt'.solved = None,
           SyncedAlready'
    PROVE  SolvingInv'
BY DEF SolvingInv, SolvesTarget, OverlayOnBase, SolvedAsAsked, Solving

\* No overlay and no solution is around before the backend is asked to solve.
LEMMA NothingSolved ==
    ASSUME SessionInv, pc \notin Solving
    PROVE  overlay = None /\ (attempt = None \/ attempt.solved = None)
BY DEF SessionInv, SolvingInv, OverlayOnBase, SolvedAsAsked, Solving

\* Between attempts only what the session trusts, and what a refusal left, matters.
LEMMA AtRest ==
    ASSUME TypeOK', pc' = "idle", outbox' = <<>>, overlay' = None,
           ConfirmedIsTrue', RejectedUntouched'
    PROVE  SessionInv'
<1>1. attempt' = None
  BY DEF TypeOK, AttemptTyped
<1>2. SendingInv'
  BY NotSending DEF Labels, Preparing
<1>3. SolvingInv'
  BY <1>1, NotSolving DEF Labels, Solving, SyncedAlready
<1> QED
  BY <1>2, <1>3 DEF SessionInv, TouchedLate

\* A new session has committed nothing and knows nothing of any backend.
LEMMA InitKeeps == Init => SessionInv
<1> SUFFICES ASSUME Init PROVE SessionInv
  OBVIOUS
<1> USE DEF Init
<1>1. ModelsTyped
  <2>1. \A m \in Models : journal[m] = EmptyJournal /\ revision[m] = 0
    OBVIOUS
  <2>2. /\ EmptyJournal = [batches |-> EmptyJournal.batches, latest |-> EmptyJournal.latest]
        /\ DOMAIN EmptyJournal.batches = {} /\ EmptyJournal.latest = 0
    BY DEF EmptyJournal, NoBatch
  <2>3. \A m \in Models : JournalWindow(m)
    <3>1. SUFFICES ASSUME NEW m \in Models PROVE JournalWindow(m)
      OBVIOUS
    <3>2. /\ DOMAIN journal[m].batches = {} /\ journal[m].latest = revision[m]
          /\ ~(revision[m] > 0)
      BY <2>1, <2>2
    <3> QED
      BY <3>2 DEF JournalWindow
  <2> QED
    BY <2>1, <2>2, <2>3, RevisionsAreNaturals DEF ModelsTyped
<1>2. SessionTyped
  BY RevisionsAreNaturals DEF SessionTyped, Health, Held
<1>3. AttemptTyped
  BY DEF AttemptTyped, Labels, Causes
<1> QED
  BY <1>1, <1>2, <1>3, NoneIsNoValue DEF SessionInv, TypeOK, ConfirmedIsTrue, Confirmed,
     SendingInv, OutboxChain, OutboxEmpty, HeadFits, CompilesForward, SendsToTarget,
     SolvingInv, SyncedAlready, SolvesTarget, OverlayOnBase, SolvedAsAsked,
     TouchedLate, RejectedUntouched, Preparing, Solving

-----------------------------------------------------------------------------
(* Between attempts                                                        *)

\* Changing, committing or copying models leaves the session alone.
LEMMA ModelsChange ==
    ASSUME SessionInv, pc = "idle", ModelsTyped', UNCHANGED <<syncVars, attemptVars, history>>
    PROVE  SessionInv'
<1>1. UNCHANGED <<compiler, bound, backend, outbox, overlay, pc, attempt, answered, cause, touched>>
  BY DEF syncVars, attemptVars, history
<1>2. TypeOK'
  BY <1>1 DEF SessionInv, TypeOK, SessionTyped, AttemptTyped
<1>3. outbox = <<>> /\ overlay = None
  BY NothingSolved DEF SessionInv, SendingInv, OutboxEmpty, Preparing, Solving
<1>4. ConfirmedIsTrue' /\ RejectedUntouched'
  BY <1>1 DEF SessionInv, ConfirmedIsTrue, Confirmed, RejectedUntouched
<1> QED
  BY <1>1, <1>2, <1>3, <1>4, AtRest

\* An edit reaches the current content alone (changelog.rs).
LEMMA EditKeeps ==
    ASSUME SessionInv, NEW m \in Models, Edit(m) \/ Restructure(m)
    PROVE  SessionInv'
<1>1. pc = "idle" /\ UNCHANGED <<revision, journal, syncVars, attemptVars, history>>
  BY DEF Edit, Restructure
<1>2. /\ pending' \in [Models -> {"none", "incremental", "structural"}]
      /\ supported' \in [Models -> BOOLEAN]
  BY DEF Edit, Restructure, SessionInv, TypeOK, ModelsTyped
<1>3. ModelsTyped'
  BY <1>1, <1>2 DEF SessionInv, TypeOK, ModelsTyped, JournalWindow
<1> QED
  BY <1>1, <1>3, ModelsChange

\* A commit adds a revision and takes the oldest the journal cannot keep (commit).
LEMMA CommitKeeps ==
    ASSUME SessionInv, NEW m \in Models, Commit(m)
    PROVE  SessionInv'
BY CommitKeepsTypes, ModelsChange DEF Commit, SessionInv, TypeOK

\* A clone is a model of its own, with an instance no session knows (model/mod.rs Clone).
LEMMA CloneKeeps ==
    ASSUME SessionInv, NEW m \in Models, NEW n \in Models, Clone(m, n)
    PROVE  SessionInv'
<1>1. /\ revision' = [revision EXCEPT ![n] = revision[m]]
      /\ journal' = [journal EXCEPT ![n] = journal[m]]
      /\ pending' = [pending EXCEPT ![n] = pending[m]]
      /\ supported' = [supported EXCEPT ![n] = supported[m]]
  BY DEF Clone
<1>2. ModelsTyped
  BY DEF SessionInv, TypeOK
<1>3. \A k \in Models : \E h \in Models : revision'[k] = revision[h] /\ journal'[k] = journal[h]
  BY <1>1, <1>2 DEF ModelsTyped
<1>4. \A k \in Models : JournalWindow(k)'
  <2>1. SUFFICES ASSUME NEW k \in Models PROVE JournalWindow(k)'
    OBVIOUS
  <2>2. PICK h \in Models : revision'[k] = revision[h] /\ journal'[k] = journal[h]
    BY <1>3
  <2>3. JournalWindow(h)
    BY <1>2 DEF ModelsTyped
  <2> QED
    BY <2>2, <2>3, Zenon DEF JournalWindow
<1>5. ModelsTyped'
  BY <1>1, <1>2, <1>3, <1>4 DEF ModelsTyped
<1> QED
  BY <1>5, ModelsChange DEF Clone

\* A solve whose commit fails has not reached the session's backend.
LEMMA CommitFailsKeeps ==
    ASSUME SessionInv, NEW m \in Models, CommitFails(m)
    PROVE  SessionInv'
<1> USE DEF CommitFails
<1>1. TypeOK'
  BY FailTyped DEF SessionInv, TypeOK, SessionTyped, Causes
<1>2. ConfirmedIsTrue'
  BY DEF SessionInv, ConfirmedIsTrue, Confirmed, Fail
<1> QED
  BY <1>1, <1>2, AtRest DEF Fail, RejectedUntouched

\* A solve begins at the head its commit made.
LEMMA StartSolveKeeps ==
    ASSUME SessionInv, NEW m \in Models, NEW o \in BOOLEAN, NEW s \in BOOLEAN, StartSolve(m, o, s)
    PROVE  SessionInv'
<1>1. /\ pc = "idle" /\ pc' = "sync" /\ attempt' \in Attempts /\ attempt'.solved = None
      /\ answered' = None /\ cause' = {} /\ touched' = FALSE
      /\ UNCHANGED <<compiler, bound, backend, outbox, overlay>>
  BY DEF StartSolve, Attempts, syncVars
<1>2. ModelsTyped'
  BY CommitKeepsTypes DEF StartSolve, SessionInv, TypeOK
<1>3. TypeOK'
  BY <1>1, <1>2, NoneIsNoValue DEF SessionInv, TypeOK, SessionTyped, AttemptTyped, Labels
<1>4. overlay = None /\ outbox = <<>>
  BY <1>1, NothingSolved DEF SessionInv, SendingInv, OutboxEmpty, Preparing, Solving
<1>5. SendingInv' /\ SolvingInv'
  BY <1>1, <1>4, NotSending, NotSolving DEF Labels, Preparing, Solving, SyncedAlready
<1> QED
  BY <1>1, <1>3, <1>5, NoneIsNoValue DEF SessionInv, ConfirmedIsTrue, Confirmed, TouchedLate, RejectedUntouched

-----------------------------------------------------------------------------
(* Synchronizing                                                           *)

\* A terminal session answers without asking its backend anything.
LEMMA SyncTerminalKeeps ==
    ASSUME SessionInv, SyncTerminal
    PROVE  SessionInv'
<1> USE DEF SyncTerminal
<1>1. TypeOK'
  BY FailTyped DEF SessionInv, TypeOK, SessionTyped, AttemptTyped, Causes
<1>2. ConfirmedIsTrue'
  BY DEF ConfirmedIsTrue, Confirmed
<1>3. RejectedUntouched'
  BY DEF RejectedUntouched
<1> QED
  BY <1>1, <1>2, <1>3, AtRest DEF Fail

\* What a step on the way to a synchronized backend that goes on leaves to show,
LEMMA AttemptGoesOn ==
    ASSUME SessionInv, pc \in Labels \ (Solving \cup {"idle"}),
           pc' \in {"rebuild", "synced", "compile", "send", "resend"},
           UNCHANGED <<revision, journal, pending, supported, overlay, attempt, answered>>,
           cause' \subseteq Causes, touched' \in BOOLEAN,
           SessionTyped', ConfirmedIsTrue', SendingInv', SyncedAlready', TouchedLate'
    PROVE  SessionInv'
<1>1. ModelsTyped'
  BY ModelsAtRest DEF SessionInv, TypeOK, modelVars
<1>2. AttemptTyped'
  BY DEF SessionInv, TypeOK, AttemptTyped, Labels
<1>3. overlay = None /\ (attempt = None \/ attempt.solved = None)
  BY NothingSolved
<1>4. SolvingInv'
  BY <1>3, NotSolving DEF Labels, Solving
<1>5. answered # Failed
  BY NoneIsNoValue DEF SessionInv, TypeOK, AttemptTyped
<1>6. RejectedUntouched'
  BY <1>5 DEF RejectedUntouched
<1> QED
  BY <1>1, <1>2, <1>4, <1>6 DEF SessionInv, TypeOK

\* and what it leaves to show before anything is sent.
LEMMA SyncGoesOn ==
    ASSUME SessionInv, pc \in {"sync", "synced", "compile", "rebuild"},
           pc' \in {"rebuild", "synced", "compile", "send", "resend"},
           UNCHANGED <<revision, journal, pending, supported, overlay, attempt, answered, cause, touched>>,
           pc' \in {"compile", "send", "synced"} => cause = {} /\ ~touched,
           SessionTyped', ConfirmedIsTrue', SendingInv', SyncedAlready'
    PROVE  SessionInv'
<1>1. TouchedLate'
  BY DEF SessionInv, TouchedLate
<1>2. cause' \subseteq Causes /\ touched' \in BOOLEAN
  BY DEF SessionInv, TypeOK, AttemptTyped
<1>3. pc \in Labels \ (Solving \cup {"idle"})
  BY DEF Labels, Solving
<1> QED
  BY <1>1, <1>2, <1>3, AttemptGoesOn

\* A session of another model is rebuilt from a snapshot.
LEMMA SyncOtherModelKeeps ==
    ASSUME SessionInv, SyncOtherModel
    PROVE  SessionInv'
<1>1. /\ pc = "sync" /\ pc' = "rebuild" /\ compiler' = None
      /\ UNCHANGED <<revision, journal, pending, supported, overlay, attempt, answered, cause, touched>>
      /\ UNCHANGED <<bound, backend, outbox>>
  BY DEF SyncOtherModel, Goto, modelVars, history
<1>2. SessionTyped'
  BY <1>1 DEF SessionInv, TypeOK, SessionTyped
<1>3. SyncedAlready' /\ ConfirmedIsTrue' /\ SendingInv'
  BY <1>1, NotSending DEF SyncedAlready, ConfirmedIsTrue, Confirmed, Labels, Preparing
<1> QED
  BY <1>1, <1>2, <1>3, SyncGoesOn

\* A backend that is marked, ahead, or without its base is rebuilt (synchronize_base).
LEMMA SyncRebuildKeeps ==
    ASSUME SessionInv, SyncRebuild
    PROVE  SessionInv'
<1>1. /\ pc = "sync" /\ pc' = "rebuild"
      /\ UNCHANGED <<revision, journal, pending, supported, overlay, attempt, answered, cause, touched>>
      /\ UNCHANGED <<compiler, bound, backend, outbox>>
  BY DEF SyncRebuild, Goto, syncVars, modelVars, history
<1>2. SessionTyped'
  BY <1>1 DEF SessionInv, TypeOK, SessionTyped
<1>3. SyncedAlready' /\ SendingInv'
  BY <1>1, NotSending DEF SyncedAlready, Labels, Preparing
<1>4. ConfirmedIsTrue'
  BY <1>1 DEF SessionInv, ConfirmedIsTrue, Confirmed
<1> QED
  BY <1>1, <1>2, <1>3, <1>4, SyncGoesOn

\* A session at the head has nothing to compile.
LEMMA SyncNothingKeeps ==
    ASSUME SessionInv, SyncNothing
    PROVE  SessionInv'
<1>1. /\ pc = "sync" /\ pc' = "synced"
      /\ UNCHANGED <<revision, journal, pending, supported, overlay, attempt, answered, cause, touched>>
      /\ UNCHANGED <<compiler, bound, backend, outbox>>
      /\ bound \in {None, Target} /\ backend.health = "Ready" /\ backend.revision = revision[Target]
  BY DEF SyncNothing, Goto, syncVars, modelVars, history, CrossModel
<1>2. SessionTyped'
  BY <1>1 DEF SessionInv, TypeOK, SessionTyped
<1>3. SendingInv'
  BY <1>1, NotSending DEF SessionInv, SendingInv, OutboxEmpty, Labels, Preparing
<1>4. ConfirmedIsTrue'
  BY <1>1 DEF SessionInv, ConfirmedIsTrue, Confirmed
<1>5. cause = {} /\ ~touched
  BY <1>1 DEF SessionInv, TouchedLate
<1>6. SyncedAlready'
  BY <1>1 DEF SyncedAlready, Target
<1> QED
  BY <1>1, <1>2, <1>3, <1>4, <1>5, <1>6, SyncGoesOn

\* What the journal can replay starts with a batch at the revision asked for.
LEMMA ReplayStarts ==
    ASSUME ModelsTyped, NEW m \in Models, NEW r \in Nat, r < revision[m], ~Compacted(journal[m], r)
    PROVE  r \in DOMAIN journal[m].batches
<1>1. JournalWindow(m) /\ revision[m] \in Nat
  BY RevisionsAreNaturals DEF ModelsTyped
<1>2. DOMAIN journal[m].batches # {}
  BY <1>1 DEF JournalWindow
<1>3. PICK f \in DOMAIN journal[m].batches : ~(r < f)
  BY <1>2 DEF Compacted
<1>4. f \in Nat /\ \A g \in f..(revision[m] - 1) : g \in DOMAIN journal[m].batches
  BY <1>1 DEF JournalWindow
<1> QED
  BY <1>1, <1>3, <1>4

\* From there the batches reach the committed revision one by one.
LEMMA ReplayGoesOn ==
    ASSUME ModelsTyped, NEW m \in Models, NEW f \in DOMAIN journal[m].batches,
           NEW r \in Nat, f <= r, r < revision[m]
    PROVE  journal[m].batches[r] \in {Batch(r + 1, TRUE), Batch(r + 1, FALSE)}
<1>1. JournalWindow(m) /\ revision[m] \in Nat
  BY RevisionsAreNaturals DEF ModelsTyped
<1>2. f \in Nat
  BY <1>1 DEF JournalWindow
<1>3. r \in f..(revision[m] - 1)
  BY <1>1, <1>2
<1>4. r \in DOMAIN journal[m].batches
  BY <1>1, <1>3 DEF JournalWindow
<1> QED
  BY <1>1, <1>4 DEF JournalWindow

\* A session the journal still reaches compiles the retained commits.
LEMMA SyncDeltasKeeps ==
    ASSUME SessionInv, SyncDeltas
    PROVE  SessionInv'
<1> DEFINE base == Base(Target, 0, FreshId)
           Started == compiler = None /\ backend.revision = 0
<1>1. /\ pc = "sync" /\ backend.health = "Ready" /\ backend.revision < revision[Target]
      /\ UNCHANGED <<revision, journal, pending, supported, overlay, attempt, answered, cause, touched>>
      /\ UNCHANGED <<bound, backend>>
      /\ pc' \in {"rebuild", "compile"}
      /\ pc' = "compile" => ~Compacted(journal[Target], backend.revision)
      /\ Target' = Target
  BY DEF SyncDeltas, Goto, modelVars, history, Target
<1>2. /\ Started => compiler' = base /\ outbox' = <<RebuildMessage(base)>>
      /\ ~Started => UNCHANGED <<compiler, outbox>>
  BY DEF SyncDeltas
<1>3. /\ Target \in Models /\ FreshId \in Nat /\ FreshId # backend.compilation
      /\ backend.revision \in Nat /\ revision[Target] \in Nat
  BY <1>1, FreshIdDiffers, CountersAreNaturals DEF SessionInv, TypeOK
<1>4. base \in Bases /\ RebuildMessage(base) \in Rebuilds
  BY <1>3, RevisionsAreNaturals DEF Base, Bases, RebuildMessage, Rebuilds
<1>5. base # None /\ base.id = FreshId /\ base.model = Target /\ base.revision = 0
  BY <1>4, NoneIsNoValue DEF Base
<1>6. outbox = <<>> /\ cause = {} /\ ~touched
  BY <1>1 DEF SessionInv, SendingInv, OutboxEmpty, Preparing, TouchedLate
<1> HIDE DEF base
<1>7. SessionTyped'
  <2>1. outbox' \in Seq(Rebuilds \cup Increments)
    <3>1. <<RebuildMessage(base)>> \in Seq(Rebuilds \cup Increments)
      BY <1>4
    <3> QED
      BY <1>2, <3>1 DEF SessionInv, TypeOK, SessionTyped
  <2>2. compiler' \in Bases \cup {None}
    BY <1>2, <1>4 DEF SessionInv, TypeOK, SessionTyped
  <2> QED
    BY <1>1, <2>1, <2>2 DEF SessionInv, TypeOK, SessionTyped
<1>8. ConfirmedIsTrue'
  <2>1. CASE Started
    BY <1>1, <1>2, <1>3, <1>5, <2>1 DEF ConfirmedIsTrue, Confirmed
  <2>2. CASE ~Started
    BY <1>1, <1>2, <2>2 DEF SessionInv, ConfirmedIsTrue, Confirmed
  <2> QED
    BY <2>1, <2>2
<1>9. SendingInv'
  <2>1. CASE pc' = "rebuild"
    BY <2>1, NotSending DEF Labels, Preparing
  <2>2. CASE pc' = "compile"
    <3>1. backend.revision \in DOMAIN journal[Target].batches
      BY <1>1, <1>3, <2>2, ReplayStarts DEF SessionInv, TypeOK
    <3>2. CASE Started
      <4>1. Len(outbox') = 1 /\ outbox' # <<>> /\ outbox'[1] = RebuildMessage(base) /\ DOMAIN outbox' = {1}
        BY <1>2, <3>2
      <4>2. outbox'[1].kind = "rebuild" /\ outbox'[1].base = base /\ compiler' = base
        BY <1>2, <3>2, <4>1 DEF RebuildMessage
      <4>3. Deltas' = {} /\ Reached' = backend.revision /\ backend.revision = 0
        BY <1>1, <3>2, <4>1, <4>2 DEF Deltas, Reached
      <4>4. OutboxChain' /\ OutboxEmpty' /\ HeadFits'
        BY <1>1, <1>3, <1>5, <2>2, <4>1, <4>2 DEF OutboxChain, OutboxEmpty, HeadFits, Preparing
      <4>5. CompilesForward'
        BY <1>1, <1>3, <1>5, <3>1, <4>1, <4>2, <4>3 DEF CompilesForward
      <4> QED
        BY <2>2, <4>4, <4>5 DEF SendingInv, SendsToTarget
    <3>3. CASE ~Started
      <4>1. outbox' = <<>> /\ Len(outbox') = 0 /\ DOMAIN outbox' = {}
        BY <1>2, <1>6, <3>3
      <4>2. Deltas' = {} /\ Reached' = backend.revision
        BY <1>1, <4>1 DEF Deltas, Reached
      <4>3. OutboxChain' /\ OutboxEmpty' /\ HeadFits' /\ CompilesForward'
        BY <1>1, <1>3, <2>2, <3>1, <4>1, <4>2 DEF OutboxChain, OutboxEmpty, HeadFits, CompilesForward, Preparing
      <4> QED
        BY <2>2, <4>3 DEF SendingInv, SendsToTarget
    <3> QED
      BY <3>2, <3>3
  <2> QED
    BY <1>1, <2>1, <2>2
<1>10. SyncedAlready'
  BY <1>1 DEF SyncedAlready
<1> HIDE DEF Started
<1> QED
  BY <1>1, <1>6, <1>7, <1>8, <1>9, <1>10, SyncGoesOn

\* The compiler's base advances with each delta it accepts.
LEMMA CompileDeltaKeeps ==
    ASSUME SessionInv, CompileDelta
    PROVE  SessionInv'
<1> DEFINE batch == journal[Target].batches[Reached]
           base == Base(Target, batch.to, FreshId)
           message == DeltaMessage(compiler, base)
           Compiles == CompilesFrom /\ ~batch.structural
           n == Len(outbox)
<1>1. /\ pc = "compile" /\ Reached < revision[Target]
      /\ UNCHANGED <<revision, journal, pending, supported, overlay, attempt, answered, cause, touched>>
      /\ UNCHANGED <<bound, backend>>
      /\ Target' = Target
  BY DEF CompileDelta, Goto, modelVars, history, Target
<1>2. /\ Compiles => compiler' = base /\ outbox' = Append(outbox, message) /\ pc' = "compile"
      /\ ~Compiles => UNCHANGED <<compiler, outbox>> /\ pc' = "rebuild"
  BY DEF CompileDelta, Goto
<1>3. /\ cause = {} /\ ~touched
      /\ OutboxChain /\ HeadFits /\ CompilesForward
  BY <1>1 DEF SessionInv, TouchedLate, SendingInv
<1>4. SyncedAlready'
  BY <1>2 DEF SyncedAlready
<1>5. CASE ~Compiles
  <2>1. SessionTyped' /\ ConfirmedIsTrue'
    BY <1>1, <1>2, <1>5 DEF SessionInv, TypeOK, SessionTyped, ConfirmedIsTrue, Confirmed
  <2>2. SendingInv'
    BY <1>2, <1>5, NotSending DEF Labels, Preparing
  <2> HIDE DEF Compiles
  <2> QED
    BY <1>1, <1>2, <1>4, <1>5, <2>1, <2>2, SyncGoesOn
<1>6. CASE Compiles
  <2>1. /\ Target \in Models /\ FreshId \in Nat /\ FreshId # backend.compilation
        /\ backend.revision \in Nat /\ revision[Target] \in Nat /\ revision[Target] \in Revisions
        /\ compiler # None => FreshId # compiler.id
        /\ \A i \in 1..n : FreshId # outbox[i].base.id
    BY <1>1, FreshIdDiffers, CountersAreNaturals DEF SessionInv, TypeOK
  <2>2. compiler # None /\ compiler \in Bases /\ compiler.model = Target /\ compiler.revision = Reached
    BY <1>1, <1>6, <2>1, CountersAreNaturals DEF CompilesFrom, SourceInstance, SessionInv
  <2>3. Reached \in Nat /\ backend.revision <= Reached
    BY <1>1, <1>3, <2>1, <2>2, RevisionsAreNaturals DEF Bases, CompilesForward
  <2>4. batch.to = Reached + 1
    <3>1. batch \in {Batch(Reached + 1, TRUE), Batch(Reached + 1, FALSE)}
      BY <1>1, <1>3, <2>1, <2>3, ReplayGoesOn DEF SessionInv, TypeOK, CompilesForward
    <3> QED
      BY <3>1 DEF Batch
  <2> HIDE DEF batch
  <2>5. base \in Bases /\ message \in Increments
    <3>1. batch.to \in Revisions
      BY <1>1, <2>1, <2>3, <2>4, MaxRevisionAssumption DEF Revisions
    <3> QED
      BY <2>1, <2>2, <3>1 DEF Base, Bases, DeltaMessage, Increments
  <2>6. base # None /\ base.id = FreshId /\ base.model = Target /\ base.revision = Reached + 1
    BY <2>4, <2>5, NoneIsNoValue DEF Base
  <2>7. message.kind = "delta" /\ message.base = base /\ message.from = compiler
    BY DEF DeltaMessage
  <2> HIDE DEF base, message
  <2>8. outbox \in Seq(Rebuilds \cup Increments) /\ n \in Nat /\ DOMAIN outbox = 1..n
    BY LenProperties DEF SessionInv, TypeOK, SessionTyped
  <2>9. /\ outbox' \in Seq(Rebuilds \cup Increments) /\ outbox' # <<>>
        /\ Len(outbox') = n + 1 /\ DOMAIN outbox' = 1..(n + 1)
        /\ outbox'[n + 1] = message
        /\ \A i \in 1..n : outbox'[i] = outbox[i]
    BY <1>2, <1>6, <2>5, <2>8, AppendProperties
  <2>10. outbox # <<>> <=> n # 0
    BY <2>8, EmptySeq
  <2> HIDE DEF n
  <2>11. SessionTyped'
    BY <1>1, <1>2, <1>6, <2>5, <2>9 DEF SessionInv, TypeOK, SessionTyped
  <2>12. ConfirmedIsTrue'
    BY <1>1, <1>2, <1>6, <2>1, <2>6 DEF ConfirmedIsTrue, Confirmed
  <2>13. n + 1 \in Deltas' /\ Reached' = Reached + 1
    BY <2>6, <2>7, <2>8, <2>9 DEF Deltas, Reached
  <2>14. OutboxChain'
    <3>1. \A i \in 1..n : outbox'[i].base.model = Target /\ outbox'[i].base.id # backend.compilation
                          /\ (outbox'[i].kind = "delta" => outbox'[i].from.model = Target)
      BY <1>1, <1>3, <2>9 DEF OutboxChain, Preparing, n
    <3>2. \A i \in 1..(n + 1) : i > 1 => outbox'[i].kind = "delta" /\ outbox'[i].from = outbox'[i - 1].base
      <4>1. SUFFICES ASSUME NEW i \in 1..(n + 1), i > 1
                     PROVE  outbox'[i].kind = "delta" /\ outbox'[i].from = outbox'[i - 1].base
        OBVIOUS
      <4>2. CASE i = n + 1
        <5>1. n \in 1..n /\ outbox # <<>> /\ outbox'[n] = outbox[n] /\ i - 1 = n
          BY <2>8, <2>9, <2>10, <4>1, <4>2
        <5>2. compiler = outbox[n].base
          BY <1>1, <1>3, <5>1 DEF OutboxChain, Preparing, n
        <5> QED
          BY <2>7, <2>9, <4>2, <5>1, <5>2
      <4>3. CASE i # n + 1
        <5>1. i \in 1..n /\ i - 1 \in 1..n
          BY <2>8, <4>1, <4>3
        <5>2. outbox[i].kind = "delta" /\ outbox[i].from = outbox[i - 1].base
          BY <1>1, <1>3, <4>1, <5>1 DEF OutboxChain, Preparing, n
        <5> QED
          BY <2>9, <5>1, <5>2
      <4> QED
        BY <4>2, <4>3
    <3>3. \A i \in 1..n : \A j \in 1..n : i # j => outbox'[i].base.id # outbox'[j].base.id
      BY <1>1, <1>3, <2>9 DEF OutboxChain, Preparing, n
    <3>4. \A i \in 1..n : outbox'[i].base.id # outbox'[n + 1].base.id
      BY <2>1, <2>6, <2>7, <2>9 DEF n
    <3>5. \A i \in 1..(n + 1) : i \in 1..n \/ i = n + 1
      BY <2>8
    <3>6. \A i \in 1..(n + 1) : \A j \in 1..(n + 1) : i # j => outbox'[i].base.id # outbox'[j].base.id
      BY <3>3, <3>4, <3>5
    <3>7. \A i \in 1..(n + 1) : /\ outbox'[i].base.model = Target /\ outbox'[i].base.id # backend.compilation
                                /\ outbox'[i].kind = "delta" => outbox'[i].from.model = Target
      BY <2>1, <2>2, <2>6, <2>7, <2>9, <3>1, <3>5
    <3>8. compiler' = outbox'[n + 1].base /\ pc' = "compile"
      BY <1>2, <1>6, <2>7, <2>9
    <3> QED
      BY <1>1, <2>9, <3>2, <3>6, <3>7, <3>8 DEF OutboxChain
  <2>15. HeadFits'
    <3>1. CASE n = 0
      <4>1. outbox'[1] = message
        BY <2>9, <3>1
      <4>2. backend.compilation = compiler.id =>
               backend.revision = compiler.revision /\ backend.holds = Compiled(Target, compiler.revision)
        BY <1>1, <1>3, <2>2 DEF SessionInv, ConfirmedIsTrue, Confirmed, CompilesForward
      <4> QED
        BY <1>1, <1>3, <2>7, <4>1, <4>2 DEF HeadFits
    <3>2. CASE n # 0
      <4>1. outbox # <<>> /\ outbox'[1] = outbox[1]
        BY <2>8, <2>9, <2>10, <3>2
      <4> QED
        BY <1>1, <1>3, <4>1 DEF HeadFits
    <3> QED
      BY <3>1, <3>2
  <2>16. CompilesForward'
    <3>1. \A i \in 2..(n + 1) : i \in Deltas'
      <4>1. \A i \in 2..(n + 1) : outbox'[i].kind = "delta"
        BY <1>1, <1>2, <1>6, <2>8, <2>9, <2>14 DEF OutboxChain, Preparing
      <4> QED
        BY <2>8, <2>9, <4>1 DEF Deltas
    <3> QED
      BY <1>1, <1>2, <1>3, <1>6, <2>1, <2>3, <2>6, <2>9, <2>13, <3>1 DEF CompilesForward
  <2>17. OutboxEmpty' /\ SendsToTarget'
    BY <1>2, <1>6 DEF OutboxEmpty, SendsToTarget, Preparing
  <2>18. SendingInv'
    BY <2>14, <2>15, <2>16, <2>17 DEF SendingInv
  <2> HIDE DEF Compiles
  <2> QED
    BY <1>1, <1>2, <1>3, <1>4, <1>6, <2>11, <2>12, <2>18, SyncGoesOn
<1> QED
  BY <1>5, <1>6

\* The last delta brings the candidate to the head.
LEMMA CompiledAllKeeps ==
    ASSUME SessionInv, CompiledAll
    PROVE  SessionInv'
<1>1. /\ pc = "compile" /\ pc' = "send" /\ Reached = revision[Target]
      /\ UNCHANGED <<revision, journal, pending, supported, overlay, attempt, answered, cause, touched>>
      /\ UNCHANGED <<compiler, bound, backend, outbox>>
      /\ Target' = Target
  BY DEF CompiledAll, Goto, modelVars, syncVars, history, Target
<1>2. cause = {} /\ ~touched /\ OutboxChain /\ HeadFits /\ CompilesForward
  BY <1>1 DEF SessionInv, TouchedLate, SendingInv
<1>3. SessionTyped' /\ ConfirmedIsTrue'
  BY <1>1 DEF SessionInv, TypeOK, SessionTyped, ConfirmedIsTrue, Confirmed
<1>4. SyncedAlready'
  BY <1>1 DEF SyncedAlready
<1>5. OutboxChain' /\ HeadFits' /\ OutboxEmpty' /\ CompilesForward'
  BY <1>1, <1>2 DEF OutboxChain, HeadFits, OutboxEmpty, CompilesForward, Preparing
<1>6. outbox # <<>>
  <2>1. SUFFICES ASSUME outbox = <<>> PROVE FALSE
    OBVIOUS
  <2>2. Reached = backend.revision
    BY <2>1 DEF Reached, Deltas
  <2>3. backend.revision < revision[Target] /\ backend.revision \in Nat
    BY <1>1, <1>2, CountersAreNaturals DEF CompilesForward, SessionInv
  <2> QED
    BY <1>1, <2>2, <2>3
<1>7. compiler # None /\ compiler.model = Target /\ compiler.revision = revision[Target]
  <2>1. Len(outbox) \in 1..Len(outbox) /\ outbox \in Seq(Rebuilds \cup Increments)
    BY <1>6, EmptySeq DEF SessionInv, TypeOK, SessionTyped
  <2>2. compiler = outbox[Len(outbox)].base /\ compiler.model = Target
    BY <1>1, <1>2, <1>6, <2>1 DEF OutboxChain, Preparing
  <2>3. compiler \in Bases
    BY <2>1, <2>2, ElementOfSeq DEF Rebuilds, Increments
  <2> QED
    BY <1>1, <1>2, <1>6, <2>2, <2>3, NoneIsNoValue DEF CompilesForward
<1>8. SendsToTarget'
  BY <1>1, <1>2, <1>6, <1>7 DEF SendsToTarget, CompilesForward
<1>9. SendingInv'
  BY <1>5, <1>8 DEF SendingInv
<1> QED
  BY <1>1, <1>2, <1>3, <1>4, <1>9, SyncGoesOn

\* A snapshot is compiled from the head itself.
LEMMA CompileSnapshotKeeps ==
    ASSUME SessionInv, CompileSnapshot
    PROVE  SessionInv'
<1> DEFINE base == Base(Target, revision[Target], FreshId)
           message == RebuildMessage(base)
<1>1. /\ pc = "rebuild" /\ pc' = "resend" /\ compiler' = base /\ outbox' = <<message>>
      /\ UNCHANGED <<revision, journal, pending, supported, overlay, attempt, answered, cause, touched>>
      /\ UNCHANGED <<bound, backend>>
      /\ Target' = Target
  BY DEF CompileSnapshot, Goto, modelVars, history, Target
<1>2. /\ Target \in Models /\ FreshId \in Nat /\ FreshId # backend.compilation
      /\ revision[Target] \in Revisions
  BY <1>1, FreshIdDiffers, CountersAreNaturals DEF SessionInv, TypeOK
<1>3. /\ base \in Bases /\ message \in Rebuilds /\ base # None
      /\ base.id = FreshId /\ base.model = Target /\ base.revision = revision[Target]
      /\ message.kind = "rebuild" /\ message.base = base
  BY <1>2, NoneIsNoValue DEF Base, Bases, RebuildMessage, Rebuilds
<1> HIDE DEF base, message
<1>4. /\ outbox' \in Seq(Rebuilds \cup Increments)
      /\ Len(outbox') = 1 /\ outbox' # <<>> /\ outbox'[1] = message
  BY <1>1, <1>3
<1>5. SessionTyped'
  BY <1>1, <1>3, <1>4 DEF SessionInv, TypeOK, SessionTyped
<1>6. ConfirmedIsTrue' /\ SyncedAlready'
  BY <1>1, <1>2, <1>3 DEF ConfirmedIsTrue, Confirmed, SyncedAlready
<1>7. OutboxChain' /\ HeadFits'
  BY <1>1, <1>2, <1>3, <1>4 DEF OutboxChain, HeadFits
<1>8. OutboxEmpty' /\ CompilesForward' /\ SendsToTarget'
  BY <1>1, <1>3, <1>4 DEF OutboxEmpty, CompilesForward, SendsToTarget, Preparing
<1>9. SendingInv'
  BY <1>7, <1>8 DEF SendingInv
<1> QED
  BY <1>1, <1>5, <1>6, <1>9, SyncGoesOn

\* A snapshot that is refused leaves backend and session as they were.
LEMMA SnapshotRefusedKeeps ==
    ASSUME SessionInv, SnapshotRefused
    PROVE  SessionInv'
<1>1. /\ pc = "rebuild" /\ Fail
      /\ cause' \in {cause, cause \cup {"snapshot"}}
      /\ UNCHANGED <<modelVars, compiler, bound, backend, touched>>
  BY DEF SnapshotRefused
<1>2. TypeOK'
  <2>1. cause' \subseteq Causes /\ touched' \in BOOLEAN
    BY <1>1 DEF SessionInv, TypeOK, AttemptTyped, Causes
  <2> QED
    BY <1>1, <2>1, FailTyped DEF SessionInv, TypeOK, SessionTyped
<1>3. ConfirmedIsTrue'
  BY <1>1 DEF SessionInv, ConfirmedIsTrue, Confirmed, Fail
<1>4. RejectedUntouched'
  <2>1. "snapshot" \notin cause /\ (cause = {} => ~touched)
    BY <1>1 DEF SessionInv, TouchedLate
  <2>2. cause' = {"snapshot"} => cause = {}
    BY <1>1, <2>1
  <2> QED
    BY <1>1, <2>1, <2>2 DEF RejectedUntouched
<1> QED
  BY <1>1, <1>2, <1>3, <1>4, AtRest DEF Fail

-----------------------------------------------------------------------------
(* Sending                                                                 *)

\* What is known of the first message.
LEMMA HeadKnown ==
    ASSUME SessionInv, Sending
    PROVE  /\ outbox \in Seq(Rebuilds \cup Increments) /\ Len(outbox) \in Nat \ {0}
           /\ Message = outbox[1] /\ Message \in Rebuilds \cup Increments
           /\ Message.base \in Bases /\ Message.base.model = Target
           /\ pc = "resend" => Message.kind = "rebuild" /\ Len(outbox) = 1
           /\ OutboxChain /\ HeadFits /\ SendsToTarget
<1>1. outbox \in Seq(Rebuilds \cup Increments) /\ outbox # <<>> /\ pc \in {"send", "resend"}
  BY DEF Sending, SessionInv, TypeOK, SessionTyped
<1>2. Len(outbox) \in Nat \ {0}
  BY <1>1, EmptySeq
<1>3. Message = outbox[1] /\ Message \in Rebuilds \cup Increments
  BY <1>1, <1>2, ElementOfSeq DEF Message
<1>4. Message.base \in Bases
  BY <1>3 DEF Rebuilds, Increments
<1>5. OutboxChain /\ HeadFits /\ SendsToTarget
  BY DEF SessionInv, SendingInv
<1>6. Message.base.model = Target /\ (pc = "resend" => Message.kind = "rebuild" /\ Len(outbox) = 1)
  BY <1>1, <1>2, <1>3, <1>5 DEF OutboxChain, Preparing
<1> QED
  BY <1>1, <1>2, <1>3, <1>4, <1>5, <1>6

\* An accepted message leaves the native solver with what it was compiled from.
LEMMA EffectExact ==
    ASSUME SessionInv, Sending, ~Refused(Message)
    PROVE  Effect(Message) = Compiled(Target, Message.base.revision)
<1>1. CASE Message.kind = "rebuild"
  BY <1>1, HeadKnown DEF Effect
<1>2. CASE Message.kind # "rebuild"
  <2>1. Message \in Increments /\ Message.kind = "delta" /\ pc = "send"
    BY <1>2, HeadKnown DEF Sending, Rebuilds, Increments
  <2>2. backend.compilation = Message.from.id /\ backend.revision = Message.from.revision
    BY <2>1 DEF Refused
  <2>3. backend.holds = Compiled(Target, backend.revision)
    BY <2>1, <2>2, HeadKnown DEF HeadFits, Sending
  <2> QED
    BY <2>3, HeadKnown DEF Effect
<1> QED
  BY <1>1, <1>2

\* A transaction the backend applied makes it the candidate.
LEMMA SendKeeps ==
    ASSUME SessionInv, Send
    PROVE  SessionInv'
<1>1. Sending /\ UNCHANGED <<modelVars, compiler, bound, cause>>
  BY DEF Send
<1>2. /\ UNCHANGED <<revision, journal, pending, supported, compiler, bound, cause>>
      /\ Target \in Models /\ pc \in Labels \ (Solving \cup {"idle"})
  BY <1>1, CountersAreNaturals DEF modelVars, SessionInv, Sending, Labels, Solving
<1>3. CASE Refused(Message)
  <2>1. pc = "send" /\ Message.kind = "delta" /\ Message = outbox[1] /\ outbox # <<>>
    BY <1>1, <1>3, HeadKnown DEF Refused, Sending
  <2>2. /\ backend' = [backend EXCEPT !.health = "RequiresRebuild"]
        /\ pc' = "rebuild"
        /\ UNCHANGED <<attempt, answered, outbox, overlay, touched>>
    BY <1>3, <2>1 DEF Send, AfterSendError, Goto
  <2>3. ~touched /\ cause = {}
    <3>1. HeadFits /\ cause = {}
      BY <1>1, <2>1, HeadKnown DEF SessionInv, TouchedLate
    <3> QED
      BY <1>3, <2>1, <3>1 DEF HeadFits, Refused
  <2>4. SessionTyped'
    BY <1>2, <2>2 DEF SessionInv, TypeOK, SessionTyped, Health
  <2>5. ConfirmedIsTrue' /\ SyncedAlready'
    BY <2>2 DEF SessionInv, TypeOK, SessionTyped, ConfirmedIsTrue, Confirmed, SyncedAlready
  <2>6. SendingInv'
    BY <2>2, NotSending DEF Labels, Preparing
  <2>7. TouchedLate' /\ cause' \subseteq Causes /\ touched' \in BOOLEAN
    BY <1>2, <2>2, <2>3 DEF SessionInv, TypeOK, AttemptTyped, TouchedLate
  <2> QED
    BY <1>2, <2>2, <2>4, <2>5, <2>6, <2>7, AttemptGoesOn
<1>4. CASE ~Refused(Message)
  <2> DEFINE n == Len(outbox)
             base == Message.base
  <2>1. /\ backend' = [health |-> "Ready", revision |-> base.revision,
                       compilation |-> base.id, holds |-> Effect(Message)]
        /\ outbox' = Tail(outbox)
        /\ touched' = TRUE
        /\ UNCHANGED <<pc, attempt, answered, overlay>>
        /\ Target' = Target
    BY <1>4 DEF Send, Goto, Target
  <2>2. Effect(Message) = Compiled(Target, base.revision)
    BY <1>1, <1>4, EffectExact
  <2>3. /\ outbox \in Seq(Rebuilds \cup Increments) /\ n \in Nat \ {0} /\ base \in Bases
        /\ base = outbox[1].base /\ base.model = Target
        /\ outbox # <<>> /\ pc \in {"send", "resend"}
        /\ OutboxChain /\ SendsToTarget
    BY <1>1, HeadKnown DEF Sending
  <2>4. /\ outbox' \in Seq(Rebuilds \cup Increments) /\ Len(outbox') = n - 1
        /\ \A i \in 1..(n - 1) : outbox'[i] = outbox[i + 1]
    BY <2>1, <2>3, HeadTailProperties
  <2>5. outbox' = <<>> <=> n = 1
    BY <2>3, <2>4, EmptySeq
  <2>6. compiler = outbox[n].base /\ (n # 1 => outbox[n].base.id # base.id)
    <3>1. n \in 1..n /\ 1 \in 1..n
      BY <2>3
    <3>2. \A i \in 1..n : \A j \in 1..n : i # j => outbox[i].base.id # outbox[j].base.id
      BY <2>3 DEF OutboxChain, Preparing
    <3>3. n # 1 => outbox[n].base.id # base.id
      BY <2>3, <3>1, <3>2
    <3>4. compiler = outbox[n].base
      BY <2>3 DEF OutboxChain, Preparing
    <3> QED
      BY <3>3, <3>4
  <2> HIDE DEF n, base
  <2>7. SessionTyped'
    <3>1. Compiled(Target, base.revision) \in Contents
      BY <1>2, <2>3 DEF Compiled, Contents, Bases
    <3> QED
      BY <1>2, <2>1, <2>2, <2>3, <2>4, <3>1 DEF SessionInv, TypeOK, SessionTyped, Health, Bases, Held
  <2>8. ConfirmedIsTrue'
    <3>1. CASE n = 1
      BY <1>2, <2>1, <2>2, <2>3, <2>6, <3>1 DEF ConfirmedIsTrue
    <3>2. CASE n # 1
      BY <1>2, <2>1, <2>6, <3>2 DEF ConfirmedIsTrue, Confirmed
    <3> QED
      BY <3>1, <3>2
  <2>9. OutboxChain'
    <3>1. \A i \in 1..(n - 1) : i + 1 \in 1..n /\ i + 1 # 1 /\ i + 1 > 1
      BY <2>3
    <3>2. \A i \in 1..(n - 1) :
            /\ outbox'[i].base.model = Target
            /\ outbox'[i].base.id # base.id
            /\ outbox'[i].kind = "delta" => outbox'[i].from.model = Target
            /\ i > 1 => outbox'[i].kind = "delta" /\ outbox'[i].from = outbox'[i - 1].base
      <4>1. SUFFICES ASSUME NEW i \in 1..(n - 1)
                     PROVE  /\ outbox[i + 1].base.model = Target
                            /\ outbox[i + 1].base.id # base.id
                            /\ outbox[i + 1].kind = "delta" => outbox[i + 1].from.model = Target
                            /\ i > 1 => outbox[i + 1].kind = "delta" /\ outbox[i + 1].from = outbox'[i - 1].base
        BY <2>4
      <4>2. i + 1 \in 1..n /\ 1 \in 1..n /\ i + 1 # 1 /\ i + 1 > 1 /\ (i + 1) - 1 = i
        BY <2>3
      <4>3. /\ outbox[i + 1].base.model = Target
            /\ outbox[i + 1].base.id # base.id
            /\ outbox[i + 1].kind = "delta" => outbox[i + 1].from.model = Target
            /\ outbox[i + 1].kind = "delta" /\ outbox[i + 1].from = outbox[i].base
        BY <2>3, <4>2 DEF OutboxChain, Preparing, n
      <4>4. i > 1 => outbox'[i - 1] = outbox[i]
        <5>1. i > 1 => i - 1 \in 1..(n - 1) /\ (i - 1) + 1 = i
          BY <2>3
        <5> QED
          BY <2>4, <5>1
      <4> QED
        BY <4>3, <4>4
    <3>3. \A i \in 1..(n - 1) : \A j \in 1..(n - 1) : i # j => outbox'[i].base.id # outbox'[j].base.id
      <4>1. \A i \in 1..n : \A j \in 1..n : i # j => outbox[i].base.id # outbox[j].base.id
        BY <2>3 DEF OutboxChain, Preparing, n
      <4>2. \A i \in 1..(n - 1) : \A j \in 1..(n - 1) : i # j => i + 1 # j + 1
        BY <2>3
      <4> QED
        BY <2>4, <3>1, <4>1, <4>2
    <3>4. n # 1 => compiler' = outbox'[n - 1].base
      <4>1. n # 1 => n - 1 \in 1..(n - 1) /\ (n - 1) + 1 = n
        BY <2>3
      <4> QED
        BY <1>2, <2>4, <2>6, <4>1
    <3>5. pc' = "resend" => outbox' = <<>>
      BY <1>1, <2>1, <2>5, HeadKnown DEF n
    <3>6. pc' = pc /\ Target' = Target /\ backend'.compilation = base.id /\ Len(outbox') = n - 1
      BY <2>1, <2>4
    <3> QED
      BY <2>5, <3>2, <3>3, <3>4, <3>5, <3>6 DEF OutboxChain
  <2>10. HeadFits'
    <3>1. SUFFICES ASSUME n # 1
                   PROVE  outbox'[1].kind = "delta" =>
                            /\ base.id = outbox'[1].from.id => base.revision = outbox'[1].from.revision
                            /\ base.id = outbox'[1].from.id
      BY <2>1, <2>2, <2>5 DEF HeadFits
    <3>2. 2 \in 1..n /\ 1 \in 1..(n - 1) /\ 2 > 1 /\ 2 - 1 = 1 /\ 1 + 1 = 2
      BY <2>3, <3>1
    <3>3. outbox[2].from = outbox[1].base /\ outbox'[1] = outbox[2]
      BY <2>3, <2>4, <3>2 DEF OutboxChain, Preparing, n
    <3> QED
      BY <2>3, <3>3
  <2>11. OutboxEmpty' /\ CompilesForward' /\ SyncedAlready'
    BY <2>1, <2>3 DEF OutboxEmpty, CompilesForward, SyncedAlready, Preparing
  <2>12. SendsToTarget'
    <3>1. n = 1 => Confirmed'
      BY <1>2, <2>1, <2>3, <2>6 DEF Confirmed, SendsToTarget
    <3> QED
      BY <1>2, <2>1, <2>3, <2>5, <3>1 DEF SendsToTarget
  <2>13. SendingInv'
    BY <2>9, <2>10, <2>11, <2>12 DEF SendingInv
  <2>14. TouchedLate' /\ cause' \subseteq Causes /\ touched' \in BOOLEAN
    BY <1>2, <2>1, <2>3 DEF SessionInv, TypeOK, AttemptTyped, TouchedLate
  <2> QED
    BY <1>2, <2>1, <2>3, <2>7, <2>8, <2>11, <2>13, <2>14, AttemptGoesOn
<1> QED
  BY <1>3, <1>4

\* A transaction that failed leaves the backend as the receipt says, or unknown.
LEMMA SendFailsKeeps ==
    ASSUME SessionInv, SendFails
    PROVE  SessionInv'
<1>1. PICK h \in {"RequiresRebuild", "Terminal"}, c \in {backend.holds, Garbage} :
         /\ backend' = [backend EXCEPT !.health = h, !.holds = c]
         /\ AfterSendError(h = "Terminal")
  BY DEF SendFails
<1>2. /\ Sending /\ cause' = cause \cup {"backend"} /\ touched' = TRUE
      /\ UNCHANGED <<modelVars, compiler, bound>>
  BY DEF SendFails
<1>3. /\ UNCHANGED <<revision, journal, pending, supported, compiler, bound>>
      /\ pc \in Labels \ (Solving \cup {"idle"})
  BY <1>2 DEF modelVars, Sending, Labels, Solving
<1>4. /\ backend' \in [health : Health, revision : Revisions, compilation : Nat \cup {None}, holds : Held]
      /\ backend'.health # "Ready"
  BY <1>1 DEF SessionInv, TypeOK, SessionTyped, Health, Held
<1>5. cause' \subseteq Causes /\ touched' \in BOOLEAN
  BY <1>2 DEF SessionInv, TypeOK, AttemptTyped, Causes
<1>6. ConfirmedIsTrue'
  BY <1>4 DEF ConfirmedIsTrue, Confirmed
<1>7. CASE Fail
  <2>1. TypeOK'
    BY <1>2, <1>4, <1>5, <1>7, FailTyped DEF SessionInv, TypeOK, SessionTyped
  <2>2. RejectedUntouched'
    BY <1>2 DEF RejectedUntouched
  <2> QED
    BY <1>6, <1>7, <2>1, <2>2, AtRest DEF Fail
<1>8. CASE Goto("rebuild") /\ UNCHANGED <<outbox, overlay>>
  <2>1. pc' = "rebuild" /\ UNCHANGED <<attempt, answered, outbox, overlay>>
    BY <1>8 DEF Goto
  <2>2. SessionTyped' /\ SyncedAlready'
    BY <1>3, <1>4, <2>1 DEF SessionInv, TypeOK, SessionTyped, SyncedAlready
  <2>3. SendingInv'
    BY <2>1, NotSending DEF Labels, Preparing
  <2>4. TouchedLate'
    BY <1>2, <1>3, <2>1 DEF SessionInv, TouchedLate
  <2> QED
    BY <1>3, <1>5, <1>6, <2>1, <2>2, <2>3, <2>4, AttemptGoesOn
<1> QED
  BY <1>1, <1>7, <1>8 DEF AfterSendError

-----------------------------------------------------------------------------
(* Binding and solving                                                     *)

\* The session is bound only to what the backend was brought to.
LEMMA BindKeeps ==
    ASSUME SessionInv, Bind
    PROVE  SessionInv'
<1>1. /\ pc = "synced" \/ (pc \in {"send", "resend"} /\ outbox = <<>>)
      /\ UNCHANGED <<modelVars, compiler, backend, history>>
      /\ pc \in {"synced", "send", "resend"}
  BY DEF Bind
<1>2. /\ Target \in Models /\ attempt \in Attempts /\ answered # Failed
      /\ overlay = None /\ attempt.solved = None
  <2>1. pc # "idle" /\ pc \notin Solving
    BY <1>1 DEF Solving
  <2>2. Target \in Models /\ overlay = None /\ (attempt = None \/ attempt.solved = None)
    BY <2>1, CountersAreNaturals, NothingSolved DEF SessionInv
  <2>3. attempt \in Attempts /\ answered = None
    BY <2>1 DEF SessionInv, TypeOK, AttemptTyped
  <2> QED
    BY <2>2, <2>3, NoneIsNoValue
<1>3. /\ backend.health = "Ready" /\ backend.revision = revision[Target]
      /\ Confirmed => compiler.model = Target
  <2>1. CASE pc = "synced"
    <3>1. Confirmed => compiler.model = bound /\ compiler.model \in Models
      BY <2>1 DEF SessionInv, TypeOK, SessionTyped, Bases, ConfirmedIsTrue, Confirmed
    <3> QED
      BY <2>1, <3>1, NoneIsNoValue DEF SessionInv, SolvingInv, SyncedAlready
  <2>2. CASE pc # "synced"
    BY <1>1, <2>2 DEF SessionInv, SendingInv, SendsToTarget, ConfirmedIsTrue, Confirmed
  <2> QED
    BY <2>1, <2>2
<1>4. /\ bound' = Target /\ pc' = NextCall /\ Target' = Target
      /\ UNCHANGED <<revision, journal, pending, supported, compiler, backend, outbox, overlay,
                     attempt, answered, cause, touched>>
  BY <1>1, <1>3 DEF Bind, Goto, modelVars, history, Target
<1>5. /\ pc' \in {"overlay", "start", "solve"}
      /\ pc' = "overlay" <=> attempt.overlay
  <2>1. attempt.overlay \in BOOLEAN /\ attempt.start \in BOOLEAN
    BY <1>2 DEF Attempts
  <2> QED
    BY <1>4, <2>1 DEF NextCall
<1>6. ModelsTyped'
  BY <1>1, ModelsAtRest DEF SessionInv, TypeOK
<1>7. SessionTyped' /\ AttemptTyped'
  BY <1>1, <1>2, <1>4, <1>5 DEF SessionInv, TypeOK, SessionTyped, AttemptTyped, Labels
<1>8. outbox = <<>>
  BY <1>1 DEF SessionInv, SendingInv, OutboxEmpty, Preparing
<1>9. SendingInv'
  BY <1>4, <1>5, <1>8, NotSending DEF Labels, Preparing
<1>10. ConfirmedIsTrue'
  BY <1>1, <1>3, <1>4, <1>5 DEF SessionInv, ConfirmedIsTrue, Confirmed
<1>11. SyncedAlready' /\ SolvesTarget' /\ OverlayOnBase' /\ SolvedAsAsked'
  BY <1>2, <1>3, <1>4, <1>5 DEF SyncedAlready, SolvesTarget, OverlayOnBase, SolvedAsAsked, Solving
<1>12. TouchedLate' /\ RejectedUntouched'
  BY <1>1, <1>2, <1>4, <1>5 DEF SessionInv, TouchedLate, RejectedUntouched
<1> QED
  BY <1>6, <1>7, <1>9, <1>10, <1>11, <1>12 DEF SessionInv, TypeOK, SolvingInv

\* An overlay is refused before the backend is touched.
LEMMA OverlayRejectedKeeps ==
    ASSUME SessionInv, OverlayRejected
    PROVE  SessionInv'
<1>1. /\ pc = "overlay" /\ Fail
      /\ cause' \in {cause, cause \cup {"plan"}}
      /\ UNCHANGED <<modelVars, compiler, bound, backend, touched>>
  BY DEF OverlayRejected
<1>2. TypeOK'
  <2>1. cause' \subseteq Causes /\ touched' \in BOOLEAN
    BY <1>1 DEF SessionInv, TypeOK, AttemptTyped, Causes
  <2> QED
    BY <1>1, <2>1, FailTyped DEF SessionInv, TypeOK, SessionTyped
<1>3. ConfirmedIsTrue'
  BY <1>1 DEF SessionInv, ConfirmedIsTrue, Confirmed, Fail
<1>4. RejectedUntouched'
  BY <1>1 DEF SessionInv, TouchedLate, RejectedUntouched
<1> QED
  BY <1>1, <1>2, <1>3, <1>4, AtRest DEF Fail

\* What is known while the backend is asked to solve.
LEMMA SolvingKnown ==
    ASSUME SessionInv, pc \in Solving
    PROVE  /\ Target \in Models /\ attempt \in Attempts /\ answered = None
           /\ revision[Target] \in Revisions
           /\ outbox = <<>> /\ bound = Target
           /\ backend.health = "Ready" /\ backend.revision = revision[Target]
           /\ backend \in [health : Health, revision : Revisions,
                            compilation : Nat \cup {None}, holds : Held]
           /\ "snapshot" \notin cause
           /\ Compiled(Target, revision[Target]) \in Contents
           /\ Overlaid \in Contents
<1>1. pc # "idle" /\ pc \notin Preparing \cup {"rebuild"}
  BY DEF Solving, Preparing
<1>2. Target \in Models /\ revision[Target] \in Revisions
  BY <1>1, CountersAreNaturals DEF SessionInv
<1>3. Compiled(Target, revision[Target]) \in Contents /\ Overlaid \in Contents
  BY <1>2 DEF Compiled, Contents, Overlaid, Additions
<1>4. attempt \in Attempts /\ answered = None
  BY <1>1 DEF SessionInv, TypeOK, AttemptTyped
<1>5. outbox = <<>>
  BY <1>1 DEF SessionInv, SendingInv, OutboxEmpty
<1> QED
  BY <1>1, <1>2, <1>3, <1>4, <1>5 DEF SessionInv, TypeOK, SessionTyped, SolvingInv, SolvesTarget, TouchedLate

\* What a step of the solve that goes on leaves to show.
LEMMA SolveGoesOn ==
    ASSUME SessionInv, pc \in Solving, pc' \in {"start", "solve", "rollback", "verify"},
           UNCHANGED <<modelVars, bound, outbox, answered>>, Target' = Target,
           attempt' \in Attempts, attempt'.overlay = attempt.overlay,
           backend'.health = "Ready", backend'.revision = backend.revision,
           SessionTyped', ConfirmedIsTrue', cause' \subseteq Causes, touched' \in BOOLEAN,
           "snapshot" \notin cause',
           pc' \in {"rollback", "verify"} => overlay' # None,
           pc' \in {"start", "solve"} /\ attempt.overlay => overlay' # None,
           OverlayOnBase', SolvedAsAsked'
    PROVE  SessionInv'
<1>1. ModelsTyped' /\ revision' = revision
  BY ModelsAtRest DEF SessionInv, TypeOK, modelVars
<1>2. AttemptTyped'
  BY SolvingKnown, NoneIsNoValue DEF AttemptTyped, Labels
<1>3. SendingInv'
  BY SolvingKnown, NotSending DEF Labels, Preparing
<1>4. SolvesTarget' /\ SyncedAlready'
  BY <1>1, SolvingKnown DEF SolvesTarget, SyncedAlready
<1>5. TouchedLate' /\ RejectedUntouched'
  BY SolvingKnown, NoneIsNoValue DEF TouchedLate, RejectedUntouched
<1> QED
  BY <1>1, <1>2, <1>3, <1>4, <1>5 DEF SessionInv, TypeOK, SolvingInv

\* A failure while solving ends the attempt, or goes through the rollback.
LEMMA EndsKeeps ==
    ASSUME SessionInv, pc \in Solving, Fail, UNCHANGED <<modelVars, bound>>,
           compiler' \in {compiler, None},
           backend' \in [health : Health, revision : Revisions,
                         compilation : Nat \cup {None}, holds : Held],
           cause' \subseteq Causes, touched' \in BOOLEAN, "snapshot" \notin cause',
           ConfirmedIsTrue'
    PROVE  SessionInv'
<1>1. TypeOK'
  BY FailTyped DEF SessionInv, TypeOK, SessionTyped
<1>2. RejectedUntouched'
  BY DEF RejectedUntouched
<1> QED
  BY <1>1, <1>2, AtRest DEF Fail

\* An overlay that is applied awaits its rollback.
LEMMA ApplyOverlayKeeps ==
    ASSUME SessionInv, ApplyOverlay
    PROVE  SessionInv'
<1>1. /\ pc = "overlay" /\ pc' \in {"start", "solve"} /\ Target' = Target
      /\ UNCHANGED <<modelVars, compiler, bound, outbox, cause, attempt, answered>>
      /\ touched' = TRUE
      /\ SourceInstance = Target /\ backend.compilation = CurrentCompilation
      /\ overlay' = [base |-> compiler.id, applied |-> FreshId, captured |-> backend.holds]
      /\ backend' = [backend EXCEPT !.compilation = FreshId, !.holds = Adding(backend.holds, "overlay")]
  BY DEF ApplyOverlay, Goto, Target
<1>2. pc \in Solving
  BY <1>1 DEF Solving
<1>3. /\ Target \in Models /\ attempt \in Attempts /\ answered = None
      /\ revision[Target] \in Revisions /\ revision' = revision
      /\ backend.health = "Ready" /\ backend.revision = revision[Target]
      /\ Compiled(Target, revision[Target]) \in Contents /\ Overlaid \in Contents
      /\ attempt.overlay
  BY <1>1, <1>2, SolvingKnown DEF modelVars, SessionInv, SolvingInv, SolvesTarget
<1>4. compiler # None /\ compiler.model = Target /\ compiler \in Bases /\ compiler.id \in Nat
  BY <1>1, <1>3, NoneIsNoValue DEF SourceInstance, SessionInv, TypeOK, SessionTyped, Bases
<1>5. /\ compiler.revision = revision[Target]
      /\ backend.holds = Compiled(Target, revision[Target])
  BY <1>1, <1>3, <1>4 DEF SessionInv, ConfirmedIsTrue, Confirmed, CurrentCompilation
<1>6. FreshId \in Nat /\ FreshId # compiler.id
  BY <1>4, FreshIdDiffers DEF SessionInv, TypeOK
<1>7. Adding(backend.holds, "overlay") = Overlaid
  BY <1>3, <1>5, GarbageAssumption DEF Adding, Overlaid, Compiled
<1>8. overlay' \in Receipts /\ overlay' # None
  BY <1>1, <1>3, <1>4, <1>5, <1>6, NoneIsNoValue DEF Receipts
<1>9. /\ overlay'.base = compiler.id /\ overlay'.applied = FreshId
      /\ overlay'.captured = Compiled(Target, revision[Target])
      /\ backend'.compilation = FreshId /\ backend'.holds = Overlaid
      /\ backend'.health = "Ready" /\ backend'.revision = backend.revision
      /\ Overlaid' = Overlaid
  BY <1>1, <1>3, <1>5, <1>7 DEF SessionInv, TypeOK, SessionTyped, Overlaid
<1>10. SessionTyped'
  BY <1>1, <1>3, <1>6, <1>7, <1>8 DEF SessionInv, TypeOK, SessionTyped, Held
<1>11. ConfirmedIsTrue'
  BY <1>1, <1>6, <1>9 DEF ConfirmedIsTrue, Confirmed
<1>12. OverlayOnBase'
  <2>1. compiler = Base(Target, revision[Target], compiler.id)
    BY <1>4, <1>5 DEF Base, Bases
  <2> QED
    BY <1>1, <1>3, <1>4, <1>6, <1>8, <1>9, <2>1 DEF OverlayOnBase
<1>13. SolvedAsAsked'
  BY <1>1 DEF SessionInv, SolvingInv, SolvedAsAsked
<1>14. cause' \subseteq Causes /\ "snapshot" \notin cause'
  BY <1>1, <1>2, SolvingKnown DEF SessionInv, TypeOK, AttemptTyped
<1> QED
  BY <1>1, <1>2, <1>3, <1>8, <1>9, <1>10, <1>11, <1>12, <1>13, <1>14, SolveGoesOn

\* An overlay that failed is rolled back, or the backend is no longer trusted.
LEMMA ApplyOverlayFailsKeeps ==
    ASSUME SessionInv, ApplyOverlayFails
    PROVE  SessionInv'
<1>1. /\ pc = "overlay" /\ Fail /\ compiler' = None /\ touched' = TRUE
      /\ cause' \in {cause, cause \cup {"backend"}}
      /\ UNCHANGED <<modelVars, bound>>
  BY DEF ApplyOverlayFails, ForceRebuildOnNextSync
<1>2. pc \in Solving
  BY <1>1 DEF Solving
<1>3. PICK h \in {"Ready", "RequiresRebuild"},
           c \in {backend.holds, Adding(backend.holds, "overlay"), Garbage} :
         backend' = [backend EXCEPT !.health = h, !.holds = c]
  BY DEF ApplyOverlayFails
<1>4. c \in Held
  <2>1. backend.holds \in Held
    BY DEF SessionInv, TypeOK, SessionTyped
  <2>2. Adding(backend.holds, "overlay") \in Held
    BY <2>1 DEF Adding, Held, Contents, Additions
  <2> QED
    BY <1>3, <2>1, <2>2 DEF Held
<1>5. backend' \in [health : Health, revision : Revisions, compilation : Nat \cup {None}, holds : Held]
  BY <1>3, <1>4 DEF SessionInv, TypeOK, SessionTyped, Health
<1>6. ConfirmedIsTrue'
  BY <1>1 DEF ConfirmedIsTrue, Confirmed
<1>7. cause' \subseteq Causes /\ "snapshot" \notin cause'
  BY <1>1, <1>2, SolvingKnown DEF SessionInv, TypeOK, AttemptTyped, Causes
<1> QED
  BY <1>1, <1>2, <1>5, <1>6, <1>7, EndsKeeps

\* With an overlay on, a failure still goes through its rollback.
LEMMA FailThroughRollbackKeeps ==
    ASSUME SessionInv, pc \in {"start", "solve"}, FailThroughRollback,
           UNCHANGED <<modelVars, bound>>,
           compiler' \in {compiler, None},
           backend'.holds # backend.holds => compiler' = None,
           backend' \in [health : {"Ready"}, revision : {backend.revision},
                         compilation : {backend.compilation}, holds : Held],
           cause' \in {cause, cause \cup {"backend"}}, touched' \in BOOLEAN
    PROVE  SessionInv'
<1>1. pc \in Solving
  BY DEF Solving
<1>2. /\ backend'.health = "Ready" /\ backend'.revision = backend.revision
      /\ backend'.compilation = backend.compilation
      /\ backend' \in [health : Health, revision : Revisions,
                       compilation : Nat \cup {None}, holds : Held]
  BY <1>1, SolvingKnown DEF Health
<1>3. cause' \subseteq Causes /\ "snapshot" \notin cause'
  BY <1>1, SolvingKnown DEF SessionInv, TypeOK, AttemptTyped, Causes
<1>4. ConfirmedIsTrue'
  <2>1. Confirmed' => Confirmed /\ compiler' = compiler /\ backend'.holds = backend.holds
    BY <1>1, <1>2, SolvingKnown DEF Confirmed
  <2> QED
    BY <1>2, <2>1 DEF SessionInv, ConfirmedIsTrue
<1>5. CASE overlay = None
  <2>1. Fail
    BY <1>5 DEF FailThroughRollback
  <2> QED
    BY <1>1, <1>2, <1>3, <1>4, <2>1, EndsKeeps
<1>6. CASE overlay # None
  <2>1. /\ pc' = "rollback" /\ UNCHANGED <<attempt, answered, outbox, overlay>>
        /\ Target' = Target
    BY <1>6 DEF FailThroughRollback, Goto, Target
  <2>2. SessionTyped'
    BY <1>2, <2>1 DEF SessionInv, TypeOK, SessionTyped
  <2>3. revision' = revision /\ Overlaid' = Overlaid
    BY <2>1 DEF modelVars, Overlaid
  <2>4. OverlayOnBase'
    BY <1>2, <1>6, <2>1, <2>3 DEF SessionInv, SolvingInv, OverlayOnBase
  <2>5. SolvedAsAsked'
    BY <2>1 DEF SessionInv, SolvingInv, SolvedAsAsked
  <2>6. attempt \in Attempts
    BY <1>1, SolvingKnown
  <2> QED
    BY <1>1, <1>2, <1>3, <1>4, <1>6, <2>1, <2>2, <2>4, <2>5, <2>6, SolveGoesOn
<1> QED
  BY <1>5, <1>6

\* Starting values change nothing a revision names.
LEMMA StartsAppliedKeeps ==
    ASSUME SessionInv, StartsApplied
    PROVE  SessionInv'
<1>1. /\ pc = "start" /\ pc' = "solve" /\ Target' = Target
      /\ UNCHANGED <<modelVars, bound, outbox, answered, attempt, overlay, compiler, backend, cause, touched>>
  BY DEF StartsApplied, Goto, syncVars, history, Target
<1>2. pc \in Solving
  BY <1>1 DEF Solving
<1>3. revision' = revision /\ Overlaid' = Overlaid
  BY <1>1 DEF modelVars, Overlaid
<1>4. SessionTyped' /\ ConfirmedIsTrue'
  BY <1>1 DEF SessionInv, TypeOK, SessionTyped, ConfirmedIsTrue, Confirmed
<1>5. OverlayOnBase' /\ SolvedAsAsked'
  BY <1>1, <1>3 DEF SessionInv, SolvingInv, OverlayOnBase, SolvedAsAsked
<1>6. cause' \subseteq Causes /\ touched' \in BOOLEAN /\ "snapshot" \notin cause'
  BY <1>1, <1>2, SolvingKnown DEF SessionInv, TypeOK, AttemptTyped
<1>7. attempt \in Attempts /\ (attempt.overlay => overlay # None) /\ backend.health = "Ready"
  BY <1>1, <1>2, SolvingKnown DEF SessionInv, SolvingInv, SolvesTarget
<1> QED
  BY <1>1, <1>2, <1>4, <1>5, <1>6, <1>7, SolveGoesOn

\* Starting values that failed end the solve, the overlay to be rolled back.
LEMMA StartsFailKeeps ==
    ASSUME SessionInv, StartsFail
    PROVE  SessionInv'
<1>1. /\ pc = "start" /\ FailThroughRollback /\ compiler' = None
      /\ backend' = [backend EXCEPT !.holds = Adding(@, "start")]
      /\ cause' = cause \cup {"backend"} /\ touched' = TRUE
      /\ UNCHANGED <<modelVars, bound>>
  BY DEF StartsFail, ForceRebuildOnNextSync
<1>2. Adding(backend.holds, "start") \in Held
  BY DEF SessionInv, TypeOK, SessionTyped, Adding, Held, Contents, Additions
<1>3. backend.health = "Ready"
  BY <1>1, SolvingKnown DEF Solving
<1>4. backend' \in [health : {"Ready"}, revision : {backend.revision},
                    compilation : {backend.compilation}, holds : Held]
  BY <1>1, <1>2, <1>3 DEF SessionInv, TypeOK, SessionTyped
<1> QED
  BY <1>1, <1>4, FailThroughRollbackKeeps

\* A solve the backend refused gives no answer.
LEMMA SolveRefusedKeeps ==
    ASSUME SessionInv, SolveRefused \/ SolveFails
    PROVE  SessionInv'
<1>1. /\ pc = "solve" /\ FailThroughRollback
      /\ cause' \in {cause, cause \cup {"backend"}}
      /\ UNCHANGED <<modelVars, compiler, bound, backend, touched>>
  BY DEF SolveRefused, SolveFails, history
<1>2. backend.health = "Ready"
  BY <1>1, SolvingKnown DEF Solving
<1>3. /\ backend' \in [health : {"Ready"}, revision : {backend.revision},
                       compilation : {backend.compilation}, holds : Held]
      /\ touched' \in BOOLEAN
  BY <1>1, <1>2 DEF SessionInv, TypeOK, SessionTyped, AttemptTyped
<1> QED
  BY <1>1, <1>3, FailThroughRollbackKeeps

\* A solve is of the content the backend has, overlay included.
LEMMA SolveKeeps ==
    ASSUME SessionInv, Solve
    PROVE  SessionInv'
<1>1. /\ pc = "solve" /\ TagAccepted /\ backend.compilation # None
      /\ UNCHANGED <<modelVars, compiler, bound, backend, outbox, overlay, cause, touched>>
  BY DEF Solve, syncVars, history
<1>2. pc \in Solving /\ pc # "verify"
  BY <1>1 DEF Solving
<1>3. SessionTyped' /\ backend.holds \in Held
  BY <1>1 DEF SessionInv, TypeOK, SessionTyped
<1>4. cause' \subseteq Causes /\ touched' \in BOOLEAN /\ "snapshot" \notin cause'
  BY <1>1, <1>2, SolvingKnown DEF SessionInv, TypeOK, AttemptTyped
<1>5. CASE overlay = None
  <2>1. answered' = Solved(backend.holds) /\ attempt' = None /\ pc' = "idle"
    BY <1>5 DEF Solve
  <2>2. AttemptTyped'
    BY <1>3, <1>4, <2>1 DEF AttemptTyped, Labels
  <2>3. ModelsTyped'
    BY <1>1, ModelsAtRest DEF SessionInv, TypeOK
  <2>4. ConfirmedIsTrue'
    BY <1>1, <2>1 DEF SessionInv, ConfirmedIsTrue, Confirmed
  <2>5. RejectedUntouched'
    BY <1>3, <2>1, SolvedIsAnAnswer DEF RejectedUntouched
  <2>6. outbox' = <<>>
    BY <1>1, <1>2, SolvingKnown
  <2> QED
    BY <1>1, <1>3, <1>5, <2>1, <2>2, <2>3, <2>4, <2>5, <2>6, AtRest DEF TypeOK
<1>6. CASE overlay # None
  <2>1. attempt' = [attempt EXCEPT !.solved = backend.holds] /\ pc' = "rollback" /\ answered' = answered
    BY <1>6 DEF Solve
  <2>2. attempt \in Attempts
    BY <1>2, SolvingKnown
  <2>3. /\ attempt' \in Attempts /\ attempt'.overlay = attempt.overlay
        /\ attempt'.solved = backend.holds /\ Target' = Target
    BY <1>3, <2>1, <2>2 DEF Attempts, Held, Target
  <2>4. Overlaid' = Overlaid /\ revision' = revision
    BY <1>1, <2>3 DEF Overlaid, modelVars
  <2>5. backend.holds = Overlaid
    BY <1>1, <1>6 DEF SessionInv, SolvingInv, OverlayOnBase
  <2>6. OverlayOnBase'
    BY <1>1, <1>6, <2>1, <2>3, <2>4 DEF SessionInv, SolvingInv, OverlayOnBase
  <2>7. SolvedAsAsked'
    BY <2>1, <2>3, <2>4, <2>5 DEF SolvedAsAsked
  <2>8. ConfirmedIsTrue'
    BY <1>1, <2>1 DEF SessionInv, ConfirmedIsTrue, Confirmed
  <2>9. backend'.health = "Ready" /\ backend'.revision = backend.revision
    BY <1>1, <1>2, SolvingKnown
  <2> QED
    BY <1>1, <1>2, <1>3, <1>4, <1>6, <2>1, <2>3, <2>6, <2>7, <2>8, <2>9, SolveGoesOn
<1> QED
  BY <1>5, <1>6

\* A rollback that is applied restores the base.
LEMMA RollbackKeeps ==
    ASSUME SessionInv, Rollback
    PROVE  SessionInv'
<1>1. /\ pc = "rollback" /\ pc' = "verify" /\ Target' = Target
      /\ UNCHANGED <<modelVars, compiler, bound, outbox, overlay, attempt, answered, cause, touched>>
  BY DEF Rollback, Goto, history, Target
<1>2. PICK c \in {Removing(backend.holds, "overlay"), Garbage} :
         backend' = [backend EXCEPT !.compilation = overlay.base, !.holds = c]
  BY DEF Rollback
<1>3. pc \in Solving
  BY <1>1 DEF Solving
<1>4. /\ overlay # None /\ overlay \in Receipts /\ OverlayOnBase
      /\ backend.health = "Ready" /\ backend \in [health : Health, revision : Revisions,
                            compilation : Nat \cup {None}, holds : Held]
      /\ revision' = revision /\ Overlaid' = Overlaid /\ bound = Target /\ attempt \in Attempts
  BY <1>1, <1>3, SolvingKnown
     DEF SessionInv, TypeOK, SessionTyped, SolvingInv, SolvesTarget, modelVars, Overlaid
<1>5. c \in Held
  BY <1>2, <1>4 DEF Removing, Held, Contents, Additions
<1>6. /\ backend'.health = "Ready" /\ backend'.revision = backend.revision
      /\ backend'.compilation = overlay.base /\ backend'.holds = c
  BY <1>2, <1>4
<1>7. SessionTyped'
  BY <1>1, <1>2, <1>4, <1>5 DEF SessionInv, TypeOK, SessionTyped, Receipts
<1>8. compiler # None => c \in {overlay.captured, Garbage}
  <2>1. SUFFICES ASSUME compiler # None PROVE c \in {overlay.captured, Garbage}
    OBVIOUS
  <2>2. backend.holds = Overlaid /\ overlay.captured = Compiled(Target, revision[Target])
    BY <1>1, <1>4, <2>1 DEF OverlayOnBase
  <2>3. Overlaid # Garbage
    BY <1>3, SolvingKnown, GarbageAssumption
  <2>4. Removing(Overlaid, "overlay") = Compiled(Target, revision[Target])
    BY <2>3 DEF Removing, Overlaid, Compiled
  <2> QED
    BY <1>2, <2>2, <2>4
<1>9. OverlayOnBase'
  BY <1>1, <1>4, <1>6, <1>8 DEF OverlayOnBase
<1>10. ConfirmedIsTrue'
  BY <1>1, <1>4 DEF OverlayOnBase, Base, ConfirmedIsTrue, Confirmed
<1>11. SolvedAsAsked'
  BY <1>1, <1>4 DEF SessionInv, SolvingInv, SolvedAsAsked
<1>12. cause' \subseteq Causes /\ touched' \in BOOLEAN /\ "snapshot" \notin cause'
  BY <1>1, <1>3, SolvingKnown DEF SessionInv, TypeOK, AttemptTyped
<1> QED
  BY <1>1, <1>3, <1>4, <1>6, <1>7, <1>9, <1>10, <1>11, <1>12, SolveGoesOn

\* An attempt that ends with what was solved, or with nothing solved.
LEMMA FinishKeeps ==
    ASSUME SessionInv, pc \in Solving, Finish, UNCHANGED <<modelVars, bound, cause, touched>>,
           compiler' \in {compiler, None},
           backend' \in [health : Health, revision : Revisions,
                         compilation : Nat \cup {None}, holds : Held],
           ConfirmedIsTrue'
    PROVE  SessionInv'
<1>1. /\ pc' = "idle" /\ attempt' = None /\ outbox' = <<>> /\ overlay' = None
      /\ answered' \in {Failed} \cup {Solved(c) : c \in Held}
  BY SolvingKnown DEF Finish, Attempts, Held
<1>2. cause' \subseteq Causes /\ touched' \in BOOLEAN /\ "snapshot" \notin cause'
  BY SolvingKnown DEF SessionInv, TypeOK, AttemptTyped
<1>3. AttemptTyped'
  BY <1>1, <1>2 DEF AttemptTyped, Labels
<1>4. ModelsTyped'
  BY ModelsAtRest DEF SessionInv, TypeOK
<1>5. SessionTyped'
  BY <1>1 DEF SessionInv, TypeOK, SessionTyped
<1>6. RejectedUntouched'
  BY <1>2 DEF RejectedUntouched
<1> QED
  BY <1>1, <1>3, <1>4, <1>5, <1>6, AtRest DEF TypeOK

\* A rollback left uncertain forces a rebuild on the next synchronization.
LEMMA RollbackUncertainKeeps ==
    ASSUME SessionInv, RollbackUncertain
    PROVE  SessionInv'
<1>1. /\ pc = "rollback" /\ Finish /\ compiler' = None
      /\ UNCHANGED <<modelVars, bound, cause, touched>>
  BY DEF RollbackUncertain, ForceRebuildOnNextSync, history
<1>2. PICK h \in {backend.health, "RequiresRebuild"}, c \in {backend.holds, Garbage} :
         backend' = [backend EXCEPT !.health = h, !.holds = c]
  BY DEF RollbackUncertain
<1>3. backend' \in [health : Health, revision : Revisions, compilation : Nat \cup {None}, holds : Held]
  BY <1>2 DEF SessionInv, TypeOK, SessionTyped, Health, Held
<1>4. ConfirmedIsTrue'
  BY <1>1 DEF ConfirmedIsTrue, Confirmed
<1> QED
  BY <1>1, <1>3, <1>4, FinishKeeps DEF Solving

\* The verification finds the captured base, or marks the backend for a rebuild.
LEMMA VerifyKeeps ==
    ASSUME SessionInv, Verify
    PROVE  SessionInv'
<1>1. pc = "verify" /\ UNCHANGED <<modelVars, compiler, bound, touched>>
  BY DEF Verify
<1>2. pc \in Solving
  BY <1>1 DEF Solving
<1>3. CASE Removing(backend.holds, "start") # overlay.captured
  <2>1. /\ Fail /\ backend' = [backend EXCEPT !.health = "RequiresRebuild"]
        /\ cause' = cause \cup {"backend"}
    BY <1>3 DEF Verify
  <2>2. /\ backend' \in [health : Health, revision : Revisions,
                         compilation : Nat \cup {None}, holds : Held]
        /\ backend'.health # "Ready"
    BY <2>1 DEF SessionInv, TypeOK, SessionTyped, Health
  <2>3. ConfirmedIsTrue'
    BY <2>2 DEF ConfirmedIsTrue, Confirmed
  <2>4. cause' \subseteq Causes /\ touched' \in BOOLEAN /\ "snapshot" \notin cause'
    BY <1>1, <1>2, <2>1, SolvingKnown DEF SessionInv, TypeOK, AttemptTyped, Causes
  <2> QED
    BY <1>1, <1>2, <2>1, <2>2, <2>3, <2>4, EndsKeeps
<1>4. CASE Removing(backend.holds, "start") = overlay.captured
  <2>1. Finish /\ UNCHANGED <<backend, cause>>
    BY <1>4 DEF Verify
  <2>2. overlay # None /\ OverlayOnBase /\ bound = Target /\ backend.revision = revision[Target]
    BY <1>1, <1>2, SolvingKnown DEF SessionInv, SolvingInv, SolvesTarget
  <2>3. compiler # None => backend.holds = Compiled(Target, revision[Target])
    <3>1. overlay.captured = Compiled(Target, revision[Target]) /\ overlay.captured # Garbage
      BY <1>2, <2>2, SolvingKnown, GarbageAssumption DEF OverlayOnBase
    <3>2. compiler # None => backend.holds \in {overlay.captured, Garbage}
      BY <1>1, <2>2 DEF OverlayOnBase
    <3>3. backend.holds # Garbage
      BY <1>4, <3>1 DEF Removing
    <3> QED
      BY <3>1, <3>2, <3>3
  <2>4. ConfirmedIsTrue'
    BY <1>1, <2>1, <2>2, <2>3 DEF OverlayOnBase, Base, ConfirmedIsTrue, Confirmed
  <2>5. backend' \in [health : Health, revision : Revisions,
                      compilation : Nat \cup {None}, holds : Held]
    BY <2>1 DEF SessionInv, TypeOK, SessionTyped
  <2> QED
    BY <1>1, <1>2, <2>1, <2>4, <2>5, FinishKeeps
<1> QED
  BY <1>3, <1>4

-----------------------------------------------------------------------------
(* The theorems                                                            *)

\* The invariant is about the variables alone.
LEMMA StutterKeeps ==
    ASSUME SessionInv, UNCHANGED vars
    PROVE  SessionInv'
<1>1. UNCHANGED <<revision, journal, pending, supported, compiler, bound, backend, outbox,
                  overlay, pc, attempt, answered, cause, touched>>
  BY DEF vars, modelVars, syncVars, attemptVars, history
<1>2. TypeOK'
  <2>1. ModelsTyped'
    BY <1>1, ModelsAtRest DEF SessionInv, TypeOK, modelVars
  <2> QED
    BY <1>1, <2>1 DEF SessionInv, TypeOK, SessionTyped, AttemptTyped
<1>3. Target' = Target /\ Confirmed' = Confirmed /\ Overlaid' = Overlaid
      /\ Deltas' = Deltas /\ Reached' = Reached
  BY <1>1 DEF Target, Confirmed, Overlaid, Deltas, Reached
<1>4. ConfirmedIsTrue' /\ TouchedLate' /\ RejectedUntouched'
  BY <1>1, <1>3 DEF SessionInv, ConfirmedIsTrue, TouchedLate, RejectedUntouched
<1>5. SendingInv'
  BY <1>1, <1>3 DEF SessionInv, SendingInv, OutboxChain, OutboxEmpty, HeadFits, CompilesForward, SendsToTarget
<1>6. SolvingInv'
  BY <1>1, <1>3 DEF SessionInv, SolvingInv, SyncedAlready, SolvesTarget, OverlayOnBase, SolvedAsAsked
<1> QED
  BY <1>2, <1>4, <1>5, <1>6 DEF SessionInv

\* Every step of the models and of the session.
LEMMA StepKeeps == SessionInv /\ [Next]_vars => SessionInv'
<1> SUFFICES ASSUME SessionInv, [Next]_vars PROVE SessionInv'
  OBVIOUS
<1>1. ASSUME NEW m \in Models, Edit(m) \/ Restructure(m) \/ Commit(m) \/ CommitFails(m)
      PROVE  SessionInv'
  BY <1>1, EditKeeps, CommitKeeps, CommitFailsKeeps
<1>2. ASSUME NEW m \in Models, NEW n \in Models, Clone(m, n) PROVE SessionInv'
  BY <1>2, CloneKeeps
<1>3. ASSUME NEW m \in Models, NEW o \in BOOLEAN, NEW s \in BOOLEAN, StartSolve(m, o, s)
      PROVE  SessionInv'
  BY <1>3, StartSolveKeeps
<1>4. CASE SyncTerminal \/ SyncOtherModel \/ SyncRebuild \/ SyncNothing \/ SyncDeltas
  BY <1>4, SyncTerminalKeeps, SyncOtherModelKeeps, SyncRebuildKeeps, SyncNothingKeeps, SyncDeltasKeeps
<1>5. CASE CompileDelta \/ CompiledAll \/ CompileSnapshot \/ SnapshotRefused
  BY <1>5, CompileDeltaKeeps, CompiledAllKeeps, CompileSnapshotKeeps, SnapshotRefusedKeeps
<1>6. CASE Send \/ SendFails \/ Bind
  BY <1>6, SendKeeps, SendFailsKeeps, BindKeeps
<1>7. CASE OverlayRejected \/ ApplyOverlay \/ ApplyOverlayFails \/ StartsApplied \/ StartsFail
  BY <1>7, OverlayRejectedKeeps, ApplyOverlayKeeps, ApplyOverlayFailsKeeps, StartsAppliedKeeps, StartsFailKeeps
<1>8. CASE Solve \/ SolveRefused \/ SolveFails \/ Rollback \/ RollbackUncertain \/ Verify
  BY <1>8, SolveKeeps, SolveRefusedKeeps, RollbackKeeps, RollbackUncertainKeeps, VerifyKeeps
<1>9. CASE UNCHANGED vars
  BY <1>9, StutterKeeps
<1> QED
  BY <1>1, <1>2, <1>3, <1>4, <1>5, <1>6, <1>7, <1>8, <1>9 DEF Next, SessionStep

\* The invariant holds in every reachable state.
LEMMA Inductive == Spec => []SessionInv
<1>1. Init => SessionInv
  BY InitKeeps
<1>2. SessionInv /\ [Next]_vars => SessionInv'
  BY StepKeeps
<1> QED
  BY <1>1, <1>2, PTL DEF Spec

\* Every revision, id, message, receipt and outcome the facade, the compiler and the
\* backend exchange is of its type, and every journal replays to its model's revision.
THEOREM TypeCorrect == Spec => []TypeOK
<1>1. SessionInv => TypeOK
  BY DEF SessionInv
<1> QED
  BY <1>1, Inductive, PTL

\* Whatever failed before, a compiled base that a Ready backend confirms between two
\* solve calls is exactly what the native solver holds: RequiresRebuild, the dropped
\* base (force_rebuild_on_next_sync) and the verified rollback leave no way to take
\* a half changed native model for synchronized.
THEOREM TrustedIsClean == Spec => []TrustedStateIsClean
<1>1. SessionInv => TrustedStateIsClean
  BY DEF SessionInv, ConfirmedIsTrue, Confirmed, TrustedStateIsClean, CurrentCompilation
<1> QED
  BY <1>1, Inductive, PTL

\* Compile before mutation: a solve call that fails because compile_snapshot refuses the
\* model has changed nothing in the native solver.
THEOREM RejectionTouchesNothing == Spec => []RejectedUntouched
<1>1. SessionInv => RejectedUntouched
  BY DEF SessionInv
<1> QED
  BY <1>1, Inductive, PTL

-----------------------------------------------------------------------------
(* The promise to the caller, step by step                                 *)

\* What the caller sees of a step between attempts,
LEMMA SeenAsEdit ==
    ASSUME SessionInv, pc = "idle", UNCHANGED <<attempt, answered>>,
           revision' \in [Models -> Revisions], \A n \in Models : revision[n] <= revision'[n]
    PROVE  Contract!Edit
<1>1. attempt = None /\ \A n \in Models : revision[n] \in Nat /\ revision'[n] \in Nat
  BY RevisionsAreNaturals DEF SessionInv, TypeOK, ModelsTyped, AttemptTyped
<1> QED
  BY <1>1 DEF Contract!Edit, Contract!Grow, Revisions

\* of one that ends an attempt with an error,
LEMMA SeenAsFail ==
    ASSUME Fail, UNCHANGED modelVars
    PROVE  Contract!Fail
BY DEF Fail, modelVars, Contract!Fail, Contract!Failed, Failed

\* of one that ends it with an answer,
LEMMA SeenAsAnswer ==
    ASSUME SessionInv, pc \in Solving, UNCHANGED modelVars, attempt' = None,
           answered' = Solved([model |-> Target, revision |-> revision[Target],
                               extra |-> IF attempt.overlay THEN {"overlay"} ELSE {}])
    PROVE  Contract!Answer
<1>1. attempt # None /\ revision' = revision
  BY SolvingKnown, NoneIsNoValue DEF modelVars
<1>2. [model |-> attempt.model, overlay |-> attempt.overlay] # None
  <2>1. attempt.model \in Models /\ attempt.overlay \in BOOLEAN
    BY SolvingKnown DEF Attempts
  <2>2. [model |-> attempt.model, overlay |-> attempt.overlay] \in [model : Models, overlay : BOOLEAN]
    BY <2>1
  <2> QED
    BY <2>2, NoneAssumption
<1> QED
  BY <1>1, <1>2 DEF Contract!Answer, Contract!Solved, Solved, Target

\* and of one within an attempt.
LEMMA SeenAsNothing ==
    ASSUME UNCHANGED <<revision, answered>>, attempt' = attempt
    PROVE  UNCHANGED Contract!vars
BY DEF Contract!vars

\* With an overlay on, the attempt ends with what was asked for, or with an error.
LEMMA FinishSeen ==
    ASSUME SessionInv, pc \in {"rollback", "verify"}, Finish, UNCHANGED modelVars
    PROVE  Contract!Next
<1>1. pc \in Solving
  BY DEF Solving
<1>2. attempt \in Attempts /\ attempt.overlay
  BY <1>1, SolvingKnown DEF SessionInv, SolvingInv, SolvesTarget, OverlayOnBase
<1>3. CASE attempt.solved = None
  <2>1. Contract!Fail
    BY <1>3 DEF Finish, modelVars, Contract!Fail, Contract!Failed, Failed
  <2> QED
    BY <2>1 DEF Contract!Next
<1>4. CASE attempt.solved # None
  <2>1. attempt.solved = Overlaid /\ answered' = Solved(attempt.solved) /\ attempt' = None
    BY <1>2, <1>4, NoneIsNoValue DEF Finish, SessionInv, SolvingInv, SolvedAsAsked
  <2>2. Overlaid = [model |-> Target, revision |-> revision[Target], extra |-> {"overlay"}]
    BY DEF Overlaid, Compiled
  <2>3. Contract!Answer
    BY <1>1, <1>2, <2>1, <2>2, SeenAsAnswer
  <2> QED
    BY <2>3 DEF Contract!Next
<1> QED
  BY <1>3, <1>4

\* Committed revisions only grow.
LEMMA RevisionsGrow ==
    ASSUME SessionInv, NEW m \in Models, NEW n \in Models,
           Edit(m) \/ Restructure(m) \/ Commit(m) \/ Clone(m, n)
    PROVE  /\ revision' \in [Models -> Revisions]
           /\ \A k \in Models : revision[k] <= revision'[k] /\ revision'[k] \in Nat
<1>1. revision \in [Models -> Revisions] /\ \A k \in Models : revision[k] \in Nat
  BY CountersAreNaturals DEF SessionInv, TypeOK, ModelsTyped
<1>2. CASE Edit(m) \/ Restructure(m)
  <2>1. revision' = revision
    BY <1>2 DEF Edit, Restructure
  <2> QED
    BY <1>1, <2>1
<1>3. CASE Commit(m)
  <2>1. ModelsTyped' /\ \A k \in Models : revision[k] <= revision'[k]
    BY <1>3, CommitKeepsTypes DEF Commit, SessionInv, TypeOK
  <2> QED
    BY <2>1, RevisionsAreNaturals DEF ModelsTyped
<1>4. CASE Clone(m, n)
  <2>1. revision[n] = 0 /\ revision' = [revision EXCEPT ![n] = revision[m]]
    BY <1>4 DEF Clone
  <2>2. \A k \in Models : revision'[k] = IF k = n THEN revision[m] ELSE revision[k]
    BY <1>1, <2>1
  <2> QED
    BY <1>1, <2>1, <2>2
<1> QED
  BY <1>2, <1>3, <1>4

\* Every step is one of the contract, or none that a caller sees.
LEMMA StepSeen == SessionInv /\ [Next]_vars => [Contract!Next]_(Contract!vars)
<1> SUFFICES ASSUME SessionInv, [Next]_vars PROVE [Contract!Next]_(Contract!vars)
  OBVIOUS
<1> USE DEF Contract!Next
<1>1. ASSUME NEW m \in Models, Edit(m) \/ Restructure(m) \/ Commit(m)
      PROVE  Contract!Edit
  <2>1. pc = "idle" /\ UNCHANGED <<attempt, answered>>
    BY <1>1 DEF Edit, Restructure, Commit, attemptVars
  <2>2. revision' \in [Models -> Revisions] /\ \A n \in Models : revision[n] <= revision'[n]
    BY <1>1, RevisionsGrow
  <2> QED
    BY <2>1, <2>2, SeenAsEdit
<1>2. ASSUME NEW m \in Models, CommitFails(m) PROVE Contract!Fail
  BY <1>2, SeenAsFail DEF CommitFails
<1>3. ASSUME NEW m \in Models, NEW n \in Models, Clone(m, n) PROVE Contract!Edit
  <2>1. pc = "idle" /\ UNCHANGED <<attempt, answered>>
    BY <1>3 DEF Clone, attemptVars
  <2>2. revision' \in [Models -> Revisions] /\ \A k \in Models : revision[k] <= revision'[k]
    BY <1>3, RevisionsGrow
  <2> QED
    BY <2>1, <2>2, SeenAsEdit
<1>4. ASSUME NEW m \in Models, NEW o \in BOOLEAN, NEW s \in BOOLEAN, StartSolve(m, o, s)
      PROVE  Contract!Request(m, o)
  <2>1. /\ attempt = None /\ answered' = None
        /\ attempt' = [model |-> m, overlay |-> o, start |-> s, solved |-> None]
    BY <1>4 DEF StartSolve, SessionInv, TypeOK, AttemptTyped
  <2>2. attempt' # None
    <3>1. attempt' \in Attempts
      BY <2>1 DEF Attempts
    <3> QED
      BY <3>1, NoneIsNoValue
  <2>3. ModelsTyped' /\ \A n \in Models : revision[n] <= revision'[n]
    BY <1>4, CommitKeepsTypes DEF StartSolve, SessionInv, TypeOK
  <2>4. Contract!Grow
    BY <2>3, RevisionsAreNaturals DEF ModelsTyped, SessionInv, TypeOK, Contract!Grow, Revisions
  <2> QED
    BY <2>1, <2>2, <2>4 DEF Contract!Request
<1>5. CASE SyncTerminal \/ SnapshotRefused \/ OverlayRejected \/ ApplyOverlayFails
  <2>1. Contract!Fail
    BY <1>5, SeenAsFail DEF SyncTerminal, SnapshotRefused, OverlayRejected, ApplyOverlayFails
  <2> QED
    BY <2>1
<1>6. CASE \/ SyncOtherModel \/ SyncRebuild \/ SyncNothing \/ SyncDeltas
           \/ CompileDelta \/ CompiledAll \/ CompileSnapshot
           \/ ApplyOverlay \/ StartsApplied \/ Rollback
  <2>1. UNCHANGED <<revision, answered>> /\ attempt' = attempt
    BY <1>6 DEF SyncOtherModel, SyncRebuild, SyncNothing, SyncDeltas, CompileDelta, CompiledAll,
                CompileSnapshot, ApplyOverlay, StartsApplied, Rollback, Goto, modelVars
  <2> QED
    BY <2>1, SeenAsNothing
<1>7. CASE Send \/ SendFails \/ Bind \/ StartsFail \/ SolveRefused \/ SolveFails
  <2>1. UNCHANGED modelVars
    BY <1>7 DEF Send, SendFails, Bind, StartsFail, SolveRefused, SolveFails
  <2>2. Fail \/ UNCHANGED <<attempt, answered>>
    BY <1>7 DEF Send, SendFails, Bind, StartsFail, SolveRefused, SolveFails,
                AfterSendError, FailThroughRollback, Goto
  <2> QED
    BY <2>1, <2>2, SeenAsFail, SeenAsNothing DEF modelVars
<1>8. CASE Solve
  <2>1. /\ pc \in Solving /\ pc = "solve" /\ TagAccepted /\ backend.compilation # None
        /\ UNCHANGED modelVars
    BY <1>8 DEF Solve, Solving
  <2>2. CASE overlay = None
    <3>1. answered' = Solved(backend.holds) /\ attempt' = None
      BY <1>8, <2>2 DEF Solve
    <3>2. Confirmed
      BY <2>1, <2>2, SolvingKnown DEF TagAccepted, Expected, CurrentCompilation, Confirmed
    <3>3. backend.holds = Compiled(Target, revision[Target])
      BY <2>1, <3>2, SolvingKnown DEF SessionInv, ConfirmedIsTrue
    <3>4. attempt.overlay = FALSE
      BY <2>1, <2>2, SolvingKnown DEF SessionInv, SolvingInv, SolvesTarget, Attempts
    <3>5. Contract!Answer
      BY <2>1, <3>1, <3>3, <3>4, SeenAsAnswer DEF Compiled
    <3> QED
      BY <3>5
  <2>3. CASE overlay # None
    <3>1. attempt' = [attempt EXCEPT !.solved = backend.holds] /\ answered' = answered
      BY <1>8, <2>3 DEF Solve
    <3>2. attempt # None /\ attempt \in Attempts /\ backend.holds \in Held
      BY <2>1, SolvingKnown, NoneIsNoValue
    <3>3. attempt' \in Attempts /\ attempt'.model = attempt.model /\ attempt'.overlay = attempt.overlay
      BY <3>1, <3>2 DEF Attempts, Held
    <3> QED
      BY <2>1, <3>1, <3>2, <3>3, NoneIsNoValue DEF Contract!vars, modelVars
  <2> QED
    BY <2>2, <2>3
<1>9. CASE RollbackUncertain
  BY <1>9, FinishSeen DEF RollbackUncertain
<1>10. CASE Verify
  BY <1>10, FinishSeen, SeenAsFail DEF Verify
<1>11. CASE UNCHANGED vars
  BY <1>11, SeenAsNothing DEF vars, modelVars, attemptVars
<1> QED
  BY <1>1, <1>2, <1>3, <1>4, <1>5, <1>6, <1>7, <1>8, <1>9, <1>10, <1>11 DEF Next, SessionStep

\* A successful answer solved exactly the committed state of the model asked for, with
\* exactly the plan's overlay: solve_plan implements SolveContract, whichever call of the
\* compiler or the backend failed on the way there, and however models were edited,
\* committed, cloned and passed to the same session before.
THEOREM ContractKept == Spec => KeepsContract
<1>1. Init => Contract!Init
  BY DEF Init, Contract!Init
<1>2. SessionInv /\ [Next]_vars => [Contract!Next]_(Contract!vars)
  BY StepSeen
<1> QED
  BY <1>1, <1>2, Inductive, PTL DEF Spec, KeepsContract, Contract!Spec

-----------------------------------------------------------------------------
(* With a single model every failure has a cause                           *)

\* With one model no other is ever bound, solved or asked for.
LEMMA OnlyOneModel ==
    ASSUME NEW m, Models = {m}, SessionInv
    PROVE  /\ bound \in {None, m}
           /\ SourceInstance \in {None, m}
           /\ compiler # None => SourceInstance = m /\ compiler.id # None
           /\ pc # "idle" => Target = m /\ ~CrossModel
           /\ revision[m] \in Nat /\ backend.revision \in Nat
<1>1. bound \in {None, m} /\ (compiler # None => compiler.model = m /\ compiler.id \in Nat)
  BY DEF SessionInv, TypeOK, SessionTyped, Bases
<1>2. pc # "idle" => Target = m
  BY CountersAreNaturals DEF SessionInv
<1>3. revision[m] \in Nat /\ backend.revision \in Nat
  BY CountersAreNaturals DEF SessionInv
<1> QED
  BY <1>1, <1>2, <1>3, NoneIsNoValue DEF SourceInstance, CrossModel

\* What a step leaves to show that neither ends an attempt nor confirms anything new.
LEMMA SingleGoesOn ==
    ASSUME SingleInv, answered' # Failed,
           pc' \notin {"synced", "overlay", "start", "solve", "rollback", "verify"},
           \/ pc' \in {"send", "resend"}
           \/ ~(backend'.health = "Ready" /\ compiler' # None)
           \/ \A n \in Models : backend'.revision < revision'[n]
           \/ /\ UNCHANGED <<compiler, backend, revision>>
              /\ pc \in {"idle", "sync", "rebuild", "compile"}
    PROVE  SingleInv'
<1>1. CausesKnown' /\ NoSpuriousFailure'
  BY DEF CausesKnown, NoSpuriousFailure
<1>2. UnconfirmedIsBehind'
  BY DEF SingleInv, UnconfirmedIsBehind, Confirmed
<1> QED
  BY <1>1, <1>2 DEF SingleInv

\* What a step leaves to show that ends one.
LEMMA SingleEnds ==
    ASSUME SingleInv, pc' = "idle", answered' # Failed \/ cause' # {},
           \/ ~(backend'.health = "Ready" /\ compiler' # None)
           \/ Confirmed'
           \/ /\ UNCHANGED <<compiler, backend, revision>>
              /\ pc \in {"idle", "sync", "rebuild", "compile"}
    PROVE  SingleInv'
<1>1. CausesKnown' /\ NoSpuriousFailure'
  BY DEF CausesKnown, NoSpuriousFailure
<1>2. UnconfirmedIsBehind'
  BY DEF SingleInv, UnconfirmedIsBehind, Confirmed
<1> QED
  BY <1>1, <1>2 DEF SingleInv

\* What a step of the solve that goes on leaves to show.
LEMMA SingleSolves ==
    ASSUME pc' \in Solving, answered' # Failed, CausesKnown'
    PROVE  SingleInv'
BY DEF SingleInv, UnconfirmedIsBehind, NoSpuriousFailure, Solving

\* What concerns the running solve alone is preserved where none runs.
LEMMA SingleAtRest ==
    ASSUME SessionInv, SingleInv, pc = "idle", UNCHANGED <<syncVars, attemptVars, history>>,
           \A n \in Models : revision[n] <= revision'[n] /\ revision'[n] \in Nat
    PROVE  SingleInv'
<1>1. UNCHANGED <<compiler, bound, backend, outbox, overlay, pc, attempt, answered, cause, touched>>
  BY DEF syncVars, attemptVars, history
<1>2. CausesKnown' /\ NoSpuriousFailure'
  BY <1>1 DEF SingleInv, CausesKnown, NoSpuriousFailure
<1>3. UnconfirmedIsBehind'
  <2>1. SUFFICES ASSUME backend'.health = "Ready" /\ compiler' # None /\ ~Confirmed', NEW n \in Models
                 PROVE  backend'.revision < revision'[n]
    BY DEF UnconfirmedIsBehind
  <2>2. backend.revision < revision[n]
    BY <1>1, <2>1 DEF SingleInv, UnconfirmedIsBehind, Confirmed
  <2>3. backend.revision \in Nat /\ revision[n] \in Nat /\ backend' = backend
    BY <1>1, CountersAreNaturals DEF SessionInv
  <2> QED
    BY <2>2, <2>3
<1> QED
  BY <1>2, <1>3 DEF SingleInv

\* Every step of a session that only ever meets one model.
LEMMA SingleStepKeeps ==
    ASSUME NEW m, Models = {m}
    PROVE  SessionInv /\ SingleInv /\ [Next]_vars => SingleInv'
<1> SUFFICES ASSUME SessionInv, SingleInv, [Next]_vars PROVE SingleInv'
  OBVIOUS
<1>a. pc # "idle" => answered # Failed
  BY NoneIsNoValue DEF SessionInv, TypeOK, AttemptTyped
<1>1. ASSUME NEW k \in Models, Edit(k) \/ Restructure(k) \/ Commit(k) PROVE SingleInv'
  <2>1. \A n \in Models : revision[n] <= revision'[n] /\ revision'[n] \in Nat
    BY <1>1, RevisionsGrow
  <2> QED
    BY <1>1, <2>1, SingleAtRest DEF Edit, Restructure, Commit
<1>2. ASSUME NEW k \in Models, CommitFails(k) PROVE SingleInv'
  <2>1. /\ pc = "idle" /\ pc' = "idle" /\ cause' # {}
        /\ UNCHANGED <<compiler, backend, revision>>
    BY <1>2 DEF CommitFails, Fail, modelVars
  <2> QED
    BY <2>1, SingleEnds
<1>3. ASSUME NEW k \in Models, NEW n \in Models, Clone(k, n) PROVE SingleInv'
  BY <1>3 DEF Clone
<1>4. ASSUME NEW k \in Models, NEW o \in BOOLEAN, NEW s \in BOOLEAN, StartSolve(k, o, s)
      PROVE  SingleInv'
  <2>1. /\ pc = "idle" /\ pc' = "sync" /\ answered' = None
        /\ UNCHANGED <<compiler, backend>>
    BY <1>4 DEF StartSolve, syncVars
  <2>2. ModelsTyped' /\ \A n \in Models : revision[n] <= revision'[n]
    BY <1>4, CommitKeepsTypes DEF StartSolve, SessionInv, TypeOK
  <2>3. UnconfirmedIsBehind'
    <3>1. SUFFICES ASSUME backend'.health = "Ready" /\ compiler' # None /\ ~Confirmed', NEW n \in Models
                   PROVE  backend'.revision < revision'[n]
      BY DEF UnconfirmedIsBehind
    <3>2. backend.revision < revision[n]
      BY <2>1, <3>1 DEF SingleInv, UnconfirmedIsBehind, Confirmed
    <3>3. backend.revision \in Nat /\ revision[n] \in Nat /\ revision'[n] \in Nat /\ backend' = backend
      BY <2>1, <2>2, CountersAreNaturals, RevisionsAreNaturals DEF SessionInv, ModelsTyped
    <3> QED
      BY <2>2, <3>2, <3>3
  <2> QED
    BY <2>1, <2>3, NoneIsNoValue DEF SingleInv, CausesKnown, NoSpuriousFailure
<1>5. CASE SyncTerminal
  <2>1. pc' = "idle" /\ cause' # {} /\ backend'.health # "Ready"
    BY <1>5 DEF SyncTerminal, Fail
  <2> QED
    BY <2>1, SingleEnds
<1>6. CASE SyncOtherModel
  BY <1>6, OnlyOneModel DEF SyncOtherModel
<1>7. CASE SyncRebuild
  <2>1. /\ pc = "sync" /\ pc' = "rebuild" /\ answered' = answered
        /\ UNCHANGED <<compiler, backend, revision>>
    BY <1>7 DEF SyncRebuild, Goto, modelVars, syncVars
  <2> QED
    BY <1>a, <2>1, SingleGoesOn
<1>8. CASE SyncNothing
  <2>1. /\ pc = "sync" /\ pc' = "synced" /\ answered' = answered /\ compiler # None
        /\ UNCHANGED <<compiler, backend, revision>>
        /\ backend.health = "Ready" /\ backend.revision = revision[Target]
    BY <1>8 DEF SyncNothing, NeedsRebuild, Goto, modelVars, syncVars
  <2>2. Target = m /\ revision[m] \in Nat /\ backend.revision \in Nat
    BY <2>1, OnlyOneModel
  <2>3. Confirmed
    BY <2>1, <2>2 DEF SingleInv, UnconfirmedIsBehind
  <2> QED
    BY <1>a, <2>1, <2>3 DEF SingleInv, UnconfirmedIsBehind, CausesKnown, NoSpuriousFailure, Confirmed
<1>9. CASE SyncDeltas
  <2>1. /\ pc = "sync" /\ pc' \in {"rebuild", "compile"} /\ answered' = answered
        /\ UNCHANGED <<backend, revision>>
        /\ backend.revision < revision[Target]
    BY <1>9 DEF SyncDeltas, Goto, modelVars
  <2>2. \A n \in Models : backend'.revision < revision'[n]
    BY <2>1, OnlyOneModel
  <2> QED
    BY <1>a, <2>1, <2>2, SingleGoesOn
<1>10. CASE CompileDelta
  <2>1. /\ pc = "compile" /\ pc' \in {"rebuild", "compile"} /\ answered' = answered
        /\ UNCHANGED <<backend, revision>>
    BY <1>10 DEF CompileDelta, Goto, modelVars
  <2>2. \A n \in Models : backend'.revision < revision'[n]
    BY <2>1, OnlyOneModel DEF SessionInv, SendingInv, CompilesForward
  <2> QED
    BY <1>a, <2>1, <2>2, SingleGoesOn
<1>11. CASE CompiledAll \/ CompileSnapshot
  <2>1. pc # "idle" /\ pc' \in {"send", "resend"} /\ answered' = answered
    BY <1>11 DEF CompiledAll, CompileSnapshot, Goto
  <2> QED
    BY <1>a, <2>1, SingleGoesOn
<1>12. CASE SnapshotRefused
  <2>1. pc = "rebuild" /\ pc' = "idle" /\ UNCHANGED <<compiler, backend, revision>>
    BY <1>12 DEF SnapshotRefused, Fail, modelVars
  <2>2. cause' # {}
    BY <1>12, <2>1, OnlyOneModel DEF SnapshotRefused
  <2> QED
    BY <2>1, <2>2, SingleEnds
<1>13. CASE Send
  <2>1. Sending /\ pc \in {"send", "resend"}
    BY <1>13 DEF Send, Sending
  <2>2. CASE Refused(Message)
    <3>1. pc = "send"
      BY <2>1, <2>2, HeadKnown DEF Refused
    <3>2. /\ pc' = "rebuild" /\ answered' = answered
          /\ backend' = [backend EXCEPT !.health = "RequiresRebuild"]
      BY <1>13, <2>2, <3>1 DEF Send, AfterSendError, Goto
    <3>3. backend'.health # "Ready"
      BY <3>2 DEF SessionInv, TypeOK, SessionTyped
    <3> QED
      BY <1>a, <2>1, <3>2, <3>3, SingleGoesOn
  <2>3. CASE ~Refused(Message)
    <3>1. pc' = pc /\ answered' = answered
      BY <1>13, <2>3 DEF Send, Goto
    <3> QED
      BY <1>a, <2>1, <3>1, SingleGoesOn
  <2> QED
    BY <2>2, <2>3
<1>14. CASE SendFails
  <2>1. PICK h \in {"RequiresRebuild", "Terminal"}, c \in {backend.holds, Garbage} :
           /\ backend' = [backend EXCEPT !.health = h, !.holds = c]
           /\ AfterSendError(h = "Terminal")
    BY <1>14 DEF SendFails
  <2>2. backend'.health # "Ready" /\ cause' # {} /\ pc # "idle"
    BY <1>14, <2>1 DEF SendFails, Sending, SessionInv, TypeOK, SessionTyped
  <2>3. CASE Fail
    BY <2>2, <2>3, SingleEnds DEF Fail
  <2>4. CASE Goto("rebuild")
    BY <1>a, <2>2, <2>4, SingleGoesOn DEF Goto
  <2> QED
    BY <2>1, <2>3, <2>4 DEF AfterSendError
<1>15. CASE Bind
  <2>1. /\ pc = "synced" \/ (pc \in {"send", "resend"} /\ outbox = <<>>)
        /\ UNCHANGED <<compiler, backend>>
    BY <1>15 DEF Bind
  <2>2. Confirmed
    BY <2>1 DEF SingleInv, CausesKnown, SessionInv, SendingInv, SendsToTarget
  <2>3. backend.health = "Ready" /\ backend.revision = revision[Target]
    <3>1. CASE pc = "synced"
      BY <3>1 DEF SessionInv, SolvingInv, SyncedAlready
    <3>2. CASE pc # "synced"
      BY <2>1, <2>2, <3>2 DEF SessionInv, SendingInv, SendsToTarget, ConfirmedIsTrue, Confirmed
    <3> QED
      BY <3>1, <3>2
  <2>4. pc' = NextCall /\ answered' = answered
    BY <1>15, <2>3 DEF Bind, Goto
  <2>5. pc' \in {"overlay", "start", "solve"}
    BY <2>4 DEF NextCall
  <2>6. CausesKnown'
    BY <2>1, <2>2, <2>5 DEF CausesKnown, Confirmed
  <2> QED
    BY <1>a, <2>1, <2>4, <2>5, <2>6, SingleSolves DEF Solving
<1>16. CASE OverlayRejected
  <2>1. pc = "overlay" /\ pc' = "idle" /\ UNCHANGED <<compiler, backend>>
    BY <1>16 DEF OverlayRejected, Fail
  <2>2. Confirmed /\ SourceInstance = Target
    BY <2>1, OnlyOneModel DEF SingleInv, CausesKnown, Confirmed
  <2>3. Confirmed' /\ cause' # {}
    BY <1>16, <2>1, <2>2 DEF OverlayRejected, Confirmed
  <2> QED
    BY <2>1, <2>3, SingleEnds
<1>17. CASE ApplyOverlay
  <2>1. /\ pc = "overlay" /\ pc' \in {"start", "solve"} /\ answered' = answered
        /\ overlay' = [base |-> compiler.id, applied |-> FreshId, captured |-> backend.holds]
    BY <1>17 DEF ApplyOverlay, Goto
  <2>2. overlay' # None
    <3>1. SessionInv'
      BY <1>17, ApplyOverlayKeeps
    <3>2. attempt' = attempt /\ attempt.overlay
      BY <1>17, <2>1 DEF ApplyOverlay, Goto, SessionInv, SolvingInv, SolvesTarget, Solving
    <3> QED
      BY <2>1, <3>1, <3>2 DEF SessionInv, SolvingInv, SolvesTarget, Solving
  <2>3. CausesKnown'
    BY <2>1, <2>2 DEF CausesKnown
  <2> QED
    BY <1>a, <2>1, <2>3, SingleSolves DEF Solving
<1>18. CASE ApplyOverlayFails
  <2>1. pc = "overlay" /\ pc' = "idle" /\ compiler' = None
    BY <1>18 DEF ApplyOverlayFails, ForceRebuildOnNextSync, Fail
  <2>2. backend.compilation = CurrentCompilation
    BY <2>1 DEF SingleInv, CausesKnown, Confirmed, CurrentCompilation
  <2>3. cause' # {}
    BY <1>18, <2>2 DEF ApplyOverlayFails
  <2> QED
    BY <2>1, <2>3, SingleEnds
<1>19. CASE StartsApplied
  <2>1. pc = "start" /\ pc' = "solve" /\ answered' = answered /\ UNCHANGED <<compiler, backend, overlay>>
    BY <1>19 DEF StartsApplied, Goto, syncVars
  <2>2. CausesKnown'
    BY <2>1 DEF SingleInv, CausesKnown, Confirmed
  <2> QED
    BY <1>a, <2>1, <2>2, SingleSolves DEF Solving
<1>20. CASE StartsFail \/ SolveFails
  <2>1. /\ pc \in {"start", "solve"} /\ FailThroughRollback /\ cause' # {}
        /\ compiler' = None \/ UNCHANGED <<compiler, backend>>
    BY <1>20 DEF StartsFail, SolveFails, ForceRebuildOnNextSync
  <2>2. CASE overlay = None
    <3>1. pc' = "idle"
      BY <2>1, <2>2 DEF FailThroughRollback, Fail
    <3>2. compiler' = None \/ Confirmed'
      BY <2>1, <2>2 DEF SingleInv, CausesKnown, Confirmed
    <3> QED
      BY <2>1, <3>1, <3>2, SingleEnds
  <2>3. CASE overlay # None
    <3>1. pc' = "rollback" /\ answered' = answered
      BY <2>1, <2>3 DEF FailThroughRollback, Goto
    <3>2. CausesKnown'
      BY <2>1, <3>1 DEF CausesKnown
    <3> QED
      BY <1>a, <2>1, <3>1, <3>2, SingleSolves DEF Solving
  <2> QED
    BY <2>2, <2>3
<1>21. CASE Solve
  <2>1. pc = "solve" /\ UNCHANGED <<compiler, backend>>
    BY <1>21 DEF Solve, syncVars
  <2>2. backend.holds \in Held
    BY DEF SessionInv, TypeOK, SessionTyped
  <2>3. CASE overlay = None
    <3>1. pc' = "idle" /\ answered' = Solved(backend.holds)
      BY <1>21, <2>3 DEF Solve
    <3>2. Confirmed'
      BY <2>1, <2>3 DEF SingleInv, CausesKnown, Confirmed
    <3> QED
      BY <2>2, <3>1, <3>2, SolvedIsAnAnswer, SingleEnds
  <2>4. CASE overlay # None
    <3>1. pc' = "rollback" /\ answered' = answered /\ attempt' = [attempt EXCEPT !.solved = backend.holds]
      BY <1>21, <2>4 DEF Solve
    <3>2. attempt'.solved = backend.holds /\ backend.holds # None
      BY <2>1, <2>2, <3>1, SolvingKnown, NoneIsNoValue DEF Solving, Attempts
    <3>3. CausesKnown'
      BY <3>1, <3>2 DEF CausesKnown
    <3> QED
      BY <1>a, <2>1, <3>1, <3>3, SingleSolves DEF Solving
  <2> QED
    BY <2>3, <2>4
<1>22. CASE SolveRefused
  <2>1. pc = "solve" /\ (backend.compilation = None \/ ~TagAccepted)
    BY <1>22 DEF SolveRefused
  <2>2. CASE overlay = None
    <3>1. backend.compilation = CurrentCompilation /\ CurrentCompilation # None
      BY <2>1, <2>2, OnlyOneModel DEF SingleInv, CausesKnown, Confirmed, CurrentCompilation
    <3> QED
      BY <2>1, <2>2, <3>1 DEF TagAccepted, Expected
  <2>3. CASE overlay # None
    <3>1. backend.compilation = overlay.applied /\ overlay \in Receipts
      BY <2>1, <2>3 DEF SessionInv, TypeOK, SessionTyped, SolvingInv, OverlayOnBase
    <3>2. overlay.applied # None
      BY <3>1, NoneIsNoValue DEF Receipts
    <3> QED
      BY <2>1, <2>3, <3>1, <3>2 DEF TagAccepted, Expected
  <2> QED
    BY <2>2, <2>3
<1>23. CASE Rollback
  <2>1. pc = "rollback" /\ pc' = "verify" /\ UNCHANGED <<answered, attempt, cause>>
    BY <1>23 DEF Rollback, Goto, history
  <2>2. CausesKnown'
    BY <2>1 DEF SingleInv, CausesKnown
  <2> QED
    BY <1>a, <2>1, <2>2, SingleSolves DEF Solving
<1>24. CASE RollbackUncertain
  <2>1. pc = "rollback" /\ Finish /\ compiler' = None /\ cause' = cause
    BY <1>24 DEF RollbackUncertain, ForceRebuildOnNextSync, history
  <2>2. answered' # Failed \/ cause' # {}
    BY <2>1 DEF Finish, Solved, Failed, SingleInv, CausesKnown
  <2> QED
    BY <2>1, <2>2, SingleEnds DEF Finish
<1>25. CASE Verify
  <2>1. pc = "verify" /\ compiler' = compiler
    BY <1>25 DEF Verify
  <2>2. CASE Removing(backend.holds, "start") # overlay.captured
    <3>1. /\ Fail /\ cause' # {} /\ backend' = [backend EXCEPT !.health = "RequiresRebuild"]
      BY <1>25, <2>2 DEF Verify
    <3>2. backend'.health # "Ready"
      BY <3>1 DEF SessionInv, TypeOK, SessionTyped
    <3> QED
      BY <3>1, <3>2, SingleEnds DEF Fail
  <2>3. CASE Removing(backend.holds, "start") = overlay.captured
    <3>1. Finish /\ UNCHANGED <<backend, cause>>
      BY <1>25, <2>3 DEF Verify
    <3>2. answered' # Failed \/ cause' # {}
      BY <2>1, <3>1 DEF Finish, Solved, Failed, SingleInv, CausesKnown
    <3>3. compiler # None => compiler.id = overlay.base /\ backend.compilation = overlay.base
      BY <2>1 DEF SessionInv, SolvingInv, SolvesTarget, Solving, OverlayOnBase, Base
    <3>4. backend'.health = "Ready" /\ compiler' # None => Confirmed'
      BY <2>1, <3>1, <3>3 DEF Confirmed
    <3> QED
      BY <3>1, <3>2, <3>4, SingleEnds DEF Finish
  <2> QED
    BY <2>2, <2>3
<1>26. CASE UNCHANGED vars
  BY <1>26 DEF vars, modelVars, syncVars, attemptVars, history, SingleInv, UnconfirmedIsBehind,
               CausesKnown, NoSpuriousFailure, Confirmed
<1> QED
  BY <1>1, <1>2, <1>3, <1>4, <1>5, <1>6, <1>7, <1>8, <1>9, <1>10, <1>11, <1>12, <1>13, <1>14,
     <1>15, <1>16, <1>17, <1>18, <1>19, <1>20, <1>21, <1>22, <1>23, <1>24, <1>25, <1>26
     DEF Next, SessionStep

\* A session that serves a single model only fails a solve call by a native failure, a
\* snapshot or a plan that does not compile, or an exhausted revision counter of that
\* very call: nothing an earlier call left behind makes a later one fail.  (With two
\* models it does not hold: as long as the session is bound to none, the base that was
\* compiled for the one makes compile_snapshot refuse the other.)
THEOREM NoFailureWithoutCause ==
    ASSUME NEW m, Models = {m}
    PROVE  Spec => []NoSpuriousFailure
<1>1. Init => SingleInv
  BY NoneIsNoValue DEF Init, SingleInv, UnconfirmedIsBehind, CausesKnown, NoSpuriousFailure
<1>2. SessionInv /\ SingleInv /\ [Next]_vars => SingleInv'
  BY SingleStepKeeps
<1>3. SingleInv => NoSpuriousFailure
  BY DEF SingleInv
<1> QED
  BY <1>1, <1>2, <1>3, Inductive, PTL DEF Spec

=============================================================================
