----------------------- MODULE ConflictReductionProofs -----------------------
(***************************************************************************)
(* What an infeasibility report claims is the case, for every number of    *)
(* atoms, every family of conflicts, every plan and every oracle that is   *)
(* honest or undecided; and the universe a model's atoms make is the       *)
(* compiled model, so that a report speaks of the model.                   *)
(***************************************************************************)
EXTENDS RestrictionUniverse, FiniteSetTheorems, WellFoundedInduction, TLAPS

Reducing == {"round", "chunks", "filter", "final", "members"}

\* The cache only holds proofs of what is the case, or admitted doubt.
CacheHonest ==
    \A S \in DOMAIN cache :
        /\ cache[S] \in {Proof(S), "unknown"}
        /\ cache[S] = "unknown" => gaveUp

\* The reducer never holds on to anything but a proven conflict.
SelectedInfeasible == phase \in Reducing => Infeasible(selected)

\* Members already verified can not be left out.
Verified ==
    phase = "members" /\ guarantee = "Irreducible" /\ ~exhausted =>
        \A e \in selected \ todo : ~Infeasible(selected \ {e})

\* The reduction starts from the whole universe or from a proven conflict.
SeedKnown ==
    /\ phase \in {"full", "native"} => seed = Atoms
    /\ phase = "initial" => seed = Atoms \/ (seed \in DOMAIN cache /\ cache[seed] = "infeasible")

SafetyInv == TypeOK /\ CacheHonest /\ SeedKnown /\ SelectedInfeasible /\ Verified /\ ClaimsHold

OracleTyped ==
    /\ gaveUp \in BOOLEAN
    /\ calls \in Nat
    /\ DOMAIN cache \subseteq SUBSET Atoms
    /\ cache \in [DOMAIN cache -> {"infeasible", "feasible", "unknown"}]

\* The type of everything but the oracle's state and the report.
Bookkeeping ==
    /\ phase \in {"full", "native", "seed", "initial", "round", "chunks", "filter", "final", "members", "done"}
    /\ iterations \in Nat /\ chunk \in Nat
    /\ seed \subseteq Atoms
    /\ selected \subseteq Atoms
    /\ todo \subseteq selected
    /\ exhausted \in BOOLEAN
    /\ guarantee \in {"Irreducible", "InfeasibleSubsystem"}

\* What an answer is worth, and what it leaves behind.
Answered(S, o) ==
    /\ o \in {Proof(S), "unknown", "none"}
    /\ o = "unknown" => gaveUp'
    /\ gaveUp => gaveUp'
    /\ o # "none" => S \in DOMAIN cache' /\ cache'[S] = o
    /\ OracleTyped'
    /\ CacheHonest'

-----------------------------------------------------------------------------
(* Conflicts                                                               *)

\* A part of a feasible selection is feasible.
LEMMA PartOfFeasible ==
    ASSUME NEW S, NEW T, S \subseteq T, ~Infeasible(T)
    PROVE  ~Infeasible(S)
BY DEF Infeasible

\* A conflict none of whose members can be left out has no infeasible part.
LEMMA MinimalByMembers ==
    ASSUME NEW S, Infeasible(S), \A e \in S : ~Infeasible(S \ {e})
    PROVE  Minimal(S)
<1>1. SUFFICES ASSUME NEW T \in SUBSET S, T # S
               PROVE  ~Infeasible(T)
  BY DEF Minimal
<1>2. PICK e \in S : e \notin T
  BY <1>1
<1>3. T \subseteq S \ {e}
  BY <1>2
<1> QED
  BY <1>3, PartOfFeasible

\* A set of naturals that is not empty has a least element.
LEMMA LeastOfNumbers ==
    ASSUME NEW S \in SUBSET Nat, S # {}
    PROVE  \E k \in S : \A d \in S : k <= d
<1>1. PICK k \in S : \A d \in S : ~(<<d, k>> \in OpToRel(<, Nat))
  BY NatLessThanWellFounded, WFMin, Zenon
<1>2. \A d \in S : ~(d < k)
  BY <1>1 DEF OpToRel
<1> QED
  BY <1>2

-----------------------------------------------------------------------------
(* The oracle session                                                      *)

\* A step that asks nothing leaves the session as it was.
LEMMA OracleQuiet ==
    ASSUME TypeOK, CacheHonest, UNCHANGED oracleVars, conflicts' = conflicts
    PROVE  OracleTyped' /\ CacheHonest' /\ (gaveUp => gaveUp')
<1>1. \A T : Proof(T)' = Proof(T)
  BY DEF Proof, Infeasible
<1> QED
  BY <1>1 DEF TypeOK, OracleTyped, CacheHonest, oracleVars

\* The oracle's answer and the cache it is put into are honest.
LEMMA ConsultHonest ==
    ASSUME TypeOK, CacheHonest, NEW S \in SUBSET Atoms, NEW fresh \in BOOLEAN, NEW o,
           Consult(S, fresh, o), conflicts' = conflicts
    PROVE  Answered(S, o)
<1> DEFINE D == (IF fresh THEN {} ELSE DOMAIN cache) \cup {S}
<1>1. \A T : Proof(T)' = Proof(T)
  BY DEF Proof, Infeasible
<1>2. /\ o \in {Proof(S), "unknown"}
      /\ calls' = calls + 1
      /\ gaveUp' = (gaveUp \/ o = "unknown")
      /\ cache' = [T \in D |-> IF T = S THEN o ELSE cache[T]]
  BY DEF Consult
<1>3. Proof(S) \in {"infeasible", "feasible"}
  BY DEF Proof
<1>4. D \subseteq SUBSET Atoms /\ \A T \in D : T # S => T \in DOMAIN cache
  BY DEF TypeOK
<1>5. \A T \in D : (IF T = S THEN o ELSE cache[T]) \in {"infeasible", "feasible", "unknown"}
  BY <1>2, <1>3, <1>4 DEF TypeOK
<1>6. DOMAIN cache' = D
  BY <1>2
<1>7. CacheHonest'
  <2>1. SUFFICES ASSUME NEW T \in D
                 PROVE  cache'[T] \in {Proof(T), "unknown"} /\ (cache'[T] = "unknown" => gaveUp')
    BY <1>1, <1>6 DEF CacheHonest
  <2>2. CASE T = S
    BY <1>2, <2>1, <2>2
  <2>3. CASE T # S
    BY <1>2, <1>4, <2>1, <2>3 DEF CacheHonest
  <2> QED
    BY <2>2, <2>3
<1>8. gaveUp' \in BOOLEAN /\ (gaveUp => gaveUp') /\ (o = "unknown" => gaveUp')
  BY <1>2, Zenon
<1>9. calls' \in Nat
  BY <1>2 DEF TypeOK
<1>10. cache' \in [D -> {"infeasible", "feasible", "unknown"}]
  BY <1>2, <1>5
<1> HIDE DEF D
<1>11. OracleTyped'
  BY <1>4, <1>6, <1>8, <1>9, <1>10 DEF OracleTyped
<1>12. S \in DOMAIN cache' /\ cache'[S] = o
  <2>1. S \in D
    BY DEF D
  <2> QED
    BY <1>2, <1>6, <2>1
<1> QED
  BY <1>2, <1>7, <1>8, <1>11, <1>12 DEF Answered

\* limited_check only passes on what the cache or the oracle says.
LEMMA AskHonest ==
    ASSUME TypeOK, CacheHonest, NEW S \in SUBSET Atoms, NEW fresh \in BOOLEAN, NEW o,
           Ask(S, fresh, o), conflicts' = conflicts
    PROVE  Answered(S, o)
<1>1. CASE Hit(S, fresh) /\ o = cache[S] /\ UNCHANGED oracleVars
  <2>1. o \in {Proof(S), "unknown"} /\ (o = "unknown" => gaveUp)
    BY <1>1 DEF Hit, CacheHonest
  <2> QED
    BY <1>1, <2>1, OracleQuiet DEF Answered, Hit, oracleVars
<1>2. CASE ~Hit(S, fresh) /\ CallsLeft /\ Consult(S, fresh, o)
  BY <1>2, ConsultHonest
<1>3. CASE ~Hit(S, fresh) /\ ~CallsLeft /\ o = "none" /\ UNCHANGED oracleVars
  BY <1>3, OracleQuiet DEF Answered
<1> QED
  BY <1>1, <1>2, <1>3 DEF Ask

-----------------------------------------------------------------------------
(* Reports                                                                 *)

\* A step that reports members of the universe keeps the type.
LEMMA ReturnTyped ==
    ASSUME TypeOK, conflicts' = conflicts, plan' = plan, OracleTyped', Bookkeeping',
           NEW r, Returns(r), r.members \subseteq Atoms
    PROVE  TypeOK'
<1>1. \A q \in report' : q.members \subseteq Atoms
  BY DEF Returns
<1>2. Atoms' = Atoms
  BY DEF Atoms
<1>3. phase' = "done" /\ report' # {}
  BY DEF Returns
<1> QED
  BY <1>1, <1>2, <1>3 DEF TypeOK, OracleTyped, Bookkeeping

\* So does a step that reports nothing and goes on.
LEMMA ContinueTyped ==
    ASSUME TypeOK, conflicts' = conflicts, plan' = plan, OracleTyped', Bookkeeping',
           UNCHANGED report, phase # "done", phase' # "done"
    PROVE  TypeOK'
BY DEF TypeOK, OracleTyped, Bookkeeping, Atoms

\* The records an analysis returns have the members they are given.
LEMMA RecordFields ==
    ASSUME NEW a, NEW b, NEW c, NEW d
    PROVE  /\ Result(a, b, c, d).outcome = a /\ Result(a, b, c, d).guarantee = b
           /\ Result(a, b, c, d).members = c
           /\ Error(a).outcome = "Error" /\ Error(a).guarantee = a /\ Error(a).members = {}
           /\ Inconclusive.outcome = "NoConflictProof" /\ Inconclusive.guarantee = "None"
           /\ Inconclusive.members = {}
BY DEF Result, Error, Inconclusive

-----------------------------------------------------------------------------
(* Safety                                                                  *)

LEMMA SafetyInvInit == Init => SafetyInv
<1> SUFFICES ASSUME Init PROVE SafetyInv
  OBVIOUS
<1>1. TypeOK
  BY DEF Init, TypeOK, Atoms
<1>2. CacheHonest
  BY DEF Init, CacheHonest
<1> QED
  BY <1>1, <1>2 DEF Init, SafetyInv, SeedKnown, SelectedInfeasible, Reducing, Verified, ClaimsHold

LEMMA SafetyInvStep == SafetyInv /\ [Next]_vars => SafetyInv'
<1> SUFFICES ASSUME SafetyInv, [Next]_vars PROVE SafetyInv'
  OBVIOUS
<1> USE DEF SafetyInv
<1>a. conflicts' = conflicts /\ plan' = plan
  BY DEF Next, vars, SkipFullCheck, CheckFullUniverse, NativeFails, NativeAnswers, CheckNativeSeed,
     CheckSeed, StartRound, DeleteChunk, EndRound, DeleteAtom, EndFilter, VerifyConflict,
     VerifyMember, ReportConflict, OracleFails
<1>b. (\A S : Infeasible(S)' <=> Infeasible(S)) /\ (\A S : Minimal(S)' <=> Minimal(S))
  BY <1>a DEF Infeasible, Minimal
<1>c. ASSUME phase' = "done", NEW r, report' = {r},
             r.outcome = "Conflict" /\ r.guarantee # "NativeReported" => Infeasible(r.members),
             r.guarantee = "Irreducible" => Minimal(r.members),
             r.outcome = "NoConflict" => ~Infeasible(Atoms)
      PROVE  SeedKnown' /\ SelectedInfeasible' /\ Verified' /\ ClaimsHold'
  BY <1>b, <1>c DEF SeedKnown, SelectedInfeasible, Reducing, Verified, ClaimsHold, Atoms
<1>d. ASSUME UNCHANGED report, phase' \notin Reducing
      PROVE  SelectedInfeasible' /\ Verified' /\ ClaimsHold'
  BY <1>b, <1>d DEF SelectedInfeasible, Reducing, Verified, ClaimsHold, Atoms
<1>e. ASSUME UNCHANGED report, phase' \in Reducing \ {"members"}, Infeasible(selected)'
      PROVE  SeedKnown' /\ SelectedInfeasible' /\ Verified' /\ ClaimsHold'
  BY <1>b, <1>e DEF SeedKnown, SelectedInfeasible, Verified, ClaimsHold, Atoms, Reducing
<1>f. ASSUME UNCHANGED report, phase' = "members", Infeasible(selected)',
             guarantee' = "Irreducible" /\ ~exhausted' =>
                \A e \in selected' \ todo' : ~Infeasible(selected' \ {e})
      PROVE  SeedKnown' /\ SelectedInfeasible' /\ Verified' /\ ClaimsHold'
  BY <1>b, <1>f DEF SeedKnown, SelectedInfeasible, Verified, ClaimsHold, Atoms, Reducing
<1>1. CASE SkipFullCheck
  <2>1. OracleTyped' /\ CacheHonest'
    BY <1>a, <1>1, OracleQuiet DEF SkipFullCheck
  <2>2. TypeOK'
    <3>1. Bookkeeping' /\ Returns(Inconclusive) /\ Inconclusive.members = {}
      BY <1>1, RecordFields DEF SkipFullCheck, TypeOK, Bookkeeping, Atoms, reducerVars, Returns
    <3> QED
      BY <1>a, <2>1, <3>1, ReturnTyped
  <2>3. phase' = "done" /\ report' = {Inconclusive}
    BY <1>1 DEF SkipFullCheck, Returns
  <2> QED
    BY <1>c, <2>1, <2>2, <2>3, RecordFields
<1>2. CASE CheckFullUniverse
  <2>1. PICK o \in Outcomes : Consult(Atoms, FALSE, o)
    BY <1>2 DEF CheckFullUniverse
  <2>2. OracleTyped' /\ CacheHonest'
    BY <1>a, <2>1, ConsultHonest DEF Answered
  <2>3. phase' \in {"native", "initial"} /\ phase = "full" /\ UNCHANGED <<seed, reducerVars, report>>
    BY <1>2 DEF CheckFullUniverse
  <2>4. TypeOK'
    BY <1>a, <2>2, <2>3 DEF TypeOK, OracleTyped, reducerVars
  <2>5. SeedKnown'
    BY <2>3 DEF SeedKnown, Atoms
  <2> QED
    BY <1>d, <2>2, <2>3, <2>4, <2>5 DEF Reducing
<1>3. CASE NativeFails
  <2>1. OracleTyped' /\ CacheHonest'
    BY <1>a, <1>3, OracleQuiet DEF NativeFails
  <2>2. TypeOK'
    <3>1. Bookkeeping'
      BY <1>3 DEF NativeFails, TypeOK, Bookkeeping, Atoms, reducerVars, Returns
    <3>2. CASE Returns(Error("native"))
      BY <1>a, <2>1, <3>1, <3>2, RecordFields, ReturnTyped
    <3>3. CASE phase' = "initial" /\ UNCHANGED report
      BY <1>3, <1>a, <2>1, <3>1, <3>3, ContinueTyped DEF NativeFails
    <3> QED
      BY <1>3, <3>2, <3>3 DEF NativeFails
  <2>3. CASE Returns(Error("native"))
    BY <1>c, <2>1, <2>2, <2>3, RecordFields DEF Returns
  <2>4. CASE phase' = "initial" /\ UNCHANGED report
    <3>1. SeedKnown'
      BY <1>3, <2>4 DEF NativeFails, SeedKnown, Atoms
    <3> QED
      BY <1>d, <2>1, <2>2, <2>4, <3>1 DEF Reducing
  <2> QED
    BY <1>3, <2>3, <2>4 DEF NativeFails
<1>4. CASE NativeAnswers
  <2>1. OracleTyped' /\ CacheHonest'
    BY <1>a, <1>4, OracleQuiet DEF NativeAnswers
  <2>2. TypeOK'
    <3>1. Bookkeeping'
      BY <1>4 DEF NativeAnswers, TypeOK, Bookkeeping, Atoms, reducerVars, Returns
    <3>2. CASE Returns(Error("unmappable"))
      BY <1>a, <2>1, <3>1, <3>2, RecordFields, ReturnTyped
    <3>3. CASE phase' \in {"initial", "seed"} /\ UNCHANGED report
      BY <1>4, <1>a, <2>1, <3>1, <3>3, ContinueTyped DEF NativeAnswers
    <3> QED
      BY <1>4, <3>2, <3>3 DEF NativeAnswers
  <2>3. CASE Returns(Error("unmappable"))
    BY <1>c, <2>1, <2>2, <2>3, RecordFields DEF Returns
  <2>4. CASE UNCHANGED report /\ (phase' = "seed" \/ (phase' = "initial" /\ UNCHANGED seed))
    <3>1. SeedKnown'
      BY <1>4, <2>4 DEF NativeAnswers, SeedKnown, Atoms
    <3> QED
      BY <1>d, <2>1, <2>2, <2>4, <3>1 DEF Reducing
  <2> QED
    BY <1>4, <2>3, <2>4 DEF NativeAnswers
<1>5. CASE CheckNativeSeed
  <2>1. PICK o \in Outcomes :
          /\ IF CallsLeft THEN Ask(seed, FALSE, o) ELSE o = "none" /\ UNCHANGED oracleVars
          /\ \/ /\ Returns(Error("verification"))
                /\ UNCHANGED seed
             \/ /\ Returns(Result("Conflict", "NativeReported", seed, "Complete"))
                /\ UNCHANGED seed
             \/ /\ seed' = SeedFrom(o)
                /\ phase' = "initial"
                /\ UNCHANGED report
    BY <1>5 DEF CheckNativeSeed
  <2>2. OracleTyped' /\ CacheHonest' /\ (o # "none" => Answered(seed, o))
    BY <1>a, <2>1, OracleQuiet, AskHonest DEF Answered, TypeOK
  <2>3. UNCHANGED reducerVars /\ phase = "seed"
    BY <1>5 DEF CheckNativeSeed
  <2>4. TypeOK'
    <3>1. Bookkeeping'
      BY <2>1, <2>3 DEF TypeOK, Bookkeeping, Atoms, reducerVars, Returns, SeedFrom
    <3>2. CASE Returns(Error("verification"))
      BY <1>a, <2>2, <3>1, <3>2, RecordFields, ReturnTyped
    <3>3. CASE Returns(Result("Conflict", "NativeReported", seed, "Complete"))
      <4>1. seed \subseteq Atoms
        BY DEF TypeOK
      <4> QED
        BY <1>a, <2>2, <3>1, <3>3, <4>1, RecordFields, ReturnTyped
    <3>4. CASE phase' = "initial" /\ UNCHANGED report
      BY <1>a, <2>2, <2>3, <3>1, <3>4, ContinueTyped
    <3> QED
      BY <2>1, <3>2, <3>3, <3>4
  <2>5. CASE phase' = "initial" /\ UNCHANGED report /\ seed' = SeedFrom(o)
    <3>1. SeedKnown'
      BY <2>2, <2>5 DEF SeedKnown, SeedFrom, Answered, Atoms
    <3> QED
      BY <1>d, <2>2, <2>4, <2>5, <3>1 DEF Reducing
  <2>6. CASE Returns(Error("verification")) \/ Returns(Result("Conflict", "NativeReported", seed, "Complete"))
    <3>1. CASE Returns(Error("verification"))
      BY <1>c, <2>2, <2>4, <3>1, RecordFields DEF Returns
    <3>2. CASE Returns(Result("Conflict", "NativeReported", seed, "Complete"))
      BY <1>c, <2>2, <2>4, <3>2, RecordFields DEF Returns
    <3> QED
      BY <2>6, <3>1, <3>2
  <2> QED
    BY <2>1, <2>5, <2>6
<1>6. CASE CheckSeed
  <2>1. PICK o \in Outcomes :
          /\ Ask(seed, FALSE, o)
          /\ o = "infeasible" => /\ selected' = seed
                                 /\ chunk' = Half(Cardinality(seed))
                                 /\ todo' = seed
                                 /\ phase' \in {"round", "filter"}
                                 /\ UNCHANGED report
          /\ o = "feasible" => Returns(Result("NoConflict", "None", {}, "Complete"))
                               /\ UNCHANGED <<selected, chunk, todo>>
          /\ o \in {"unknown", "none"} => Returns(Inconclusive) /\ UNCHANGED <<selected, chunk, todo>>
    BY <1>6 DEF CheckSeed, Outcomes
  <2>2. Answered(seed, o)
    BY <1>a, <2>1, AskHonest DEF TypeOK
  <2>3. UNCHANGED <<seed, iterations, exhausted, guarantee>> /\ phase = "initial"
    BY <1>6 DEF CheckSeed
  <2>4. CASE o = "infeasible"
    <3>1. Infeasible(seed)
      BY <2>2, <2>4 DEF Answered, Proof
    <3>2. chunk' \in Nat
      <4>1. Cardinality(seed) \in Nat
        <5>1. IsFiniteSet(1 .. N)
          BY NAssumption, FS_Interval
        <5>2. seed \subseteq 1 .. N
          BY DEF TypeOK, Atoms
        <5>3. IsFiniteSet(seed)
          BY <5>1, <5>2, FS_Subset
        <5> QED
          BY <5>3, FS_CardinalityType
      <4> QED
        BY <2>1, <2>4, <4>1 DEF Half
    <3>3. TypeOK'
      BY <1>a, <2>1, <2>2, <2>3, <2>4, <3>2 DEF TypeOK, OracleTyped, Answered
    <3> QED
      BY <1>b, <1>e, <2>1, <2>2, <2>4, <3>1, <3>3 DEF Answered, Reducing
  <2>5. CASE o = "feasible"
    <3>1. ~Infeasible(seed)
      BY <2>2, <2>5 DEF Answered, Proof
    <3>2. seed = Atoms
      BY <2>1, <2>3, <2>5 DEF SeedKnown, Ask, Hit
    <3>3. TypeOK'
      <4>1. Bookkeeping' /\ OracleTyped'
        BY <2>1, <2>2, <2>3, <2>5 DEF TypeOK, Bookkeeping, Atoms, Answered, Returns
      <4> QED
        BY <1>a, <2>1, <2>5, <4>1, RecordFields, ReturnTyped
    <3> QED
      BY <1>c, <2>1, <2>2, <2>5, <3>1, <3>2, <3>3, RecordFields DEF Answered, Returns
  <2>6. CASE o \in {"unknown", "none"}
    <3>1. TypeOK'
      <4>1. Bookkeeping' /\ OracleTyped'
        BY <2>1, <2>2, <2>3, <2>6 DEF TypeOK, Bookkeeping, Atoms, Answered, Returns
      <4> QED
        BY <1>a, <2>1, <2>6, <4>1, RecordFields, ReturnTyped
    <3> QED
      BY <1>c, <2>1, <2>2, <2>6, <3>1, RecordFields DEF Answered, Returns
  <2> QED
    BY <2>1, <2>4, <2>5, <2>6 DEF Outcomes
<1>7. CASE StartRound
  <2>1. OracleTyped' /\ CacheHonest'
    BY <1>a, <1>7, OracleQuiet DEF StartRound
  <2>2. TypeOK'
    <3>1. exhausted' \in BOOLEAN
      <4>1. exhausted' = exhausted \/ exhausted' = (exhausted \/ Cardinality(selected) > 1)
        BY <1>7 DEF StartRound
      <4>2. exhausted \in BOOLEAN
        BY DEF TypeOK
      <4> QED
        BY <4>1, <4>2, Zenon
    <3>2. Bookkeeping'
      BY <1>7, <3>1 DEF StartRound, TypeOK, Bookkeeping, Atoms
    <3>3. UNCHANGED report /\ phase = "round" /\ phase' # "done"
      BY <1>7 DEF StartRound
    <3> QED
      BY <1>a, <2>1, <3>2, <3>3, ContinueTyped
  <2>3. UNCHANGED <<selected, report>> /\ phase' \in Reducing \ {"members"} /\ Infeasible(selected)
    BY <1>7 DEF StartRound, SelectedInfeasible, Reducing
  <2> QED
    BY <1>b, <1>e, <2>1, <2>2, <2>3
<1>8. CASE DeleteChunk
  <2>1. PICK o \in Outcomes :
          /\ Ask(selected \ FirstChunk, FALSE, o)
          /\ selected' = IF o = "infeasible" THEN selected \ FirstChunk ELSE selected
          /\ todo' = IF o = "none" THEN {} ELSE todo \ FirstChunk
          /\ exhausted' = (exhausted \/ o = "none")
    BY <1>8 DEF DeleteChunk
  <2>2. Answered(selected \ FirstChunk, o)
    BY <1>a, <2>1, AskHonest DEF TypeOK
  <2>3. UNCHANGED <<phase, iterations, seed, chunk, guarantee, report>> /\ phase = "chunks" /\ Infeasible(selected)
    BY <1>8 DEF DeleteChunk, SelectedInfeasible, Reducing
  <2>4. TypeOK'
    BY <1>a, <2>1, <2>2, <2>3 DEF TypeOK, OracleTyped, Answered
  <2>5. Infeasible(selected')
    BY <2>1, <2>2, <2>3 DEF Answered, Proof
  <2> QED
    BY <1>b, <1>e, <2>2, <2>3, <2>4, <2>5 DEF Answered, Reducing
<1>9. CASE EndRound
  <2>1. OracleTyped' /\ CacheHonest'
    BY <1>a, <1>9, OracleQuiet DEF EndRound
  <2>2. TypeOK'
    BY <1>9, <2>1 DEF EndRound, TypeOK, OracleTyped, Half
  <2>3. UNCHANGED <<selected, report>> /\ phase' \in Reducing \ {"members"} /\ Infeasible(selected)
    BY <1>9 DEF EndRound, SelectedInfeasible, Reducing
  <2> QED
    BY <1>b, <1>e, <2>1, <2>2, <2>3
<1>10. CASE DeleteAtom
  <2>1. PICK o \in Outcomes :
          /\ Ask(selected \ {Foremost(todo)}, TRUE, o)
          /\ selected' = AfterDeletion(o)
          /\ todo' = IF o = "none" THEN {} ELSE todo \ {Foremost(todo)}
          /\ exhausted' = (exhausted \/ o = "none")
          /\ guarantee' = IF o = "unknown" THEN "InfeasibleSubsystem" ELSE guarantee
    BY <1>10 DEF DeleteAtom
  <2>2. Answered(selected \ {Foremost(todo)}, o)
    BY <1>a, <2>1, AskHonest DEF TypeOK
  <2>3. /\ UNCHANGED <<phase, seed, chunk, report>> /\ iterations' = iterations + 1
        /\ phase = "filter" /\ Infeasible(selected)
    BY <1>10 DEF DeleteAtom, SelectedInfeasible, Reducing
  <2>4. TypeOK'
    BY <1>a, <2>1, <2>2, <2>3 DEF TypeOK, OracleTyped, Answered, AfterDeletion
  <2>5. Infeasible(selected')
    BY <2>1, <2>2, <2>3 DEF Answered, Proof, AfterDeletion
  <2> QED
    BY <1>b, <1>e, <2>2, <2>3, <2>4, <2>5 DEF Answered, Reducing
<1>11. CASE EndFilter
  <2>1. OracleTyped' /\ CacheHonest'
    BY <1>a, <1>11, OracleQuiet DEF EndFilter
  <2>2. TypeOK'
    BY <1>11, <2>1 DEF EndFilter, TypeOK, OracleTyped
  <2>3. UNCHANGED <<selected, report>> /\ phase' = "final" /\ Infeasible(selected)
    BY <1>11 DEF EndFilter, SelectedInfeasible, Reducing
  <2> QED
    BY <1>b, <1>e, <2>1, <2>2, <2>3 DEF Reducing
<1>12. CASE VerifyConflict
  <2>1. PICK o \in Outcomes :
          /\ Ask(selected, TRUE, o)
          /\ exhausted' = (exhausted \/ o = "none")
          /\ \/ phase' = "members" /\ UNCHANGED report
             \/ Returns(Error("verification"))
    BY <1>12 DEF VerifyConflict
  <2>2. Answered(selected, o)
    BY <1>a, <2>1, AskHonest DEF TypeOK
  <2>3. UNCHANGED <<iterations, seed, selected, chunk, guarantee>> /\ todo' = selected /\ Infeasible(selected)
    BY <1>12 DEF VerifyConflict, SelectedInfeasible, Reducing
  <2>4. TypeOK'
    <3>1. Bookkeeping' /\ OracleTyped' /\ phase = "final"
      BY <1>12, <2>1, <2>2, <2>3 DEF VerifyConflict, TypeOK, Bookkeeping, Atoms, Answered, Returns
    <3>2. CASE phase' = "members" /\ UNCHANGED report
      BY <1>a, <3>1, <3>2, ContinueTyped
    <3>3. CASE Returns(Error("verification"))
      BY <1>a, <3>1, <3>3, RecordFields, ReturnTyped
    <3> QED
      BY <2>1, <3>2, <3>3
  <2>5. CASE phase' = "members" /\ UNCHANGED report
    BY <1>b, <1>f, <2>2, <2>3, <2>4, <2>5 DEF Answered
  <2>6. CASE Returns(Error("verification"))
    BY <1>c, <2>2, <2>4, <2>6, RecordFields DEF Answered, Returns
  <2> QED
    BY <2>1, <2>5, <2>6
<1>13. CASE VerifyMember
  <2>1. PICK o \in Outcomes :
          /\ Ask(selected \ {Foremost(todo)}, TRUE, o)
          /\ todo' = IF o = "none" THEN {} ELSE todo \ {Foremost(todo)}
          /\ exhausted' = (exhausted \/ o = "none")
          /\ guarantee' = IF o \in {"infeasible", "unknown"} THEN "InfeasibleSubsystem" ELSE guarantee
    BY <1>13 DEF VerifyMember
  <2>2. Answered(selected \ {Foremost(todo)}, o)
    BY <1>a, <2>1, AskHonest DEF TypeOK
  <2>3. UNCHANGED <<phase, iterations, seed, selected, chunk, report>> /\ phase = "members" /\ Infeasible(selected)
    BY <1>13 DEF VerifyMember, SelectedInfeasible, Reducing
  <2>4. TypeOK'
    BY <1>a, <2>1, <2>2, <2>3 DEF TypeOK, OracleTyped, Answered
  <2>5. ASSUME guarantee' = "Irreducible", ~exhausted', NEW e \in selected \ todo'
        PROVE  ~Infeasible(selected \ {e})
    <3>1. o = "feasible" /\ guarantee = "Irreducible" /\ ~exhausted
      BY <2>1, <2>2, <2>5 DEF Answered, Proof
    <3>2. CASE e = Foremost(todo)
      BY <2>2, <3>1, <3>2 DEF Answered, Proof
    <3>3. CASE e # Foremost(todo)
      BY <2>1, <2>3, <2>5, <3>1, <3>3 DEF Verified
    <3> QED
      BY <3>2, <3>3
  <2> QED
    BY <1>b, <1>f, <2>2, <2>3, <2>4, <2>5 DEF Answered
<1>14. CASE ReportConflict
  <2> DEFINE completion == IF ~exhausted THEN "Complete" ELSE IF CallsLeft THEN "IterationLimit" ELSE "OracleCallLimit"
  <2>1. Returns(Result("Conflict", FinalGuarantee, selected, completion)) /\ UNCHANGED <<seed, reducerVars>>
    BY <1>14 DEF ReportConflict
  <2>2. OracleTyped' /\ CacheHonest'
    BY <1>a, <1>14, OracleQuiet DEF ReportConflict
  <2>3. TypeOK'
    BY <1>a, <2>1, <2>2 DEF TypeOK, OracleTyped, reducerVars, Returns, Result
  <2>4. Infeasible(selected)
    BY <1>14 DEF ReportConflict, SelectedInfeasible, Reducing
  <2>5. FinalGuarantee = "Irreducible" => Minimal(selected)
    BY <1>14, <2>4, MinimalByMembers DEF ReportConflict, FinalGuarantee, Verified
  <2>6. phase' = "done" /\ report' = {Result("Conflict", FinalGuarantee, selected, completion)}
    BY <2>1 DEF Returns
  <2> HIDE DEF completion
  <2> QED
    BY <1>c, <2>2, <2>3, <2>4, <2>5, <2>6, RecordFields
<1>15. CASE OracleFails
  <2>1. OracleTyped' /\ CacheHonest'
    BY <1>a, <1>15, OracleQuiet DEF OracleFails
  <2>2. TypeOK'
    <3>1. Bookkeeping' /\ Returns(Error("backend"))
      BY <1>15 DEF OracleFails, TypeOK, Bookkeeping, Atoms, reducerVars, Returns
    <3> QED
      BY <1>a, <2>1, <3>1, RecordFields, ReturnTyped
  <2>3. phase' = "done" /\ report' = {Error("backend")}
    BY <1>15 DEF OracleFails, Returns
  <2> QED
    BY <1>c, <2>1, <2>2, <2>3, RecordFields
<1>16. CASE UNCHANGED vars
  <2>1. OracleTyped' /\ CacheHonest'
    BY <1>16, OracleQuiet DEF vars, oracleVars
  <2> QED
    BY <1>b, <1>16, <2>1 DEF vars, TypeOK, SeedKnown, SelectedInfeasible, Verified, ClaimsHold, Atoms
<1> QED
  BY <1>1, <1>2, <1>3, <1>4, <1>5, <1>6, <1>7, <1>8, <1>9, <1>10, <1>11, <1>12, <1>13, <1>14,
     <1>15, <1>16 DEF Next

\* The state of an analysis keeps its type: in particular what is still to be
\* looked at is always part of the current selection.
THEOREM TypeCorrect == Spec => []TypeOK
<1>1. SafetyInv => TypeOK
  BY DEF SafetyInv
<1> QED
  BY SafetyInvInit, SafetyInvStep, <1>1, PTL DEF Spec

\* No report claims more about its members than is the case.
THEOREM ClaimsAreTrue == Spec => []ClaimsHold
<1>1. SafetyInv => ClaimsHold
  BY DEF SafetyInv
<1> QED
  BY SafetyInvInit, SafetyInvStep, <1>1, PTL DEF Spec
-----------------------------------------------------------------------------
(* Doubt has a cause                                                       *)

Decided == ~exhausted /\ ~gaveUp

\* While no limit was met and every answer decided, what the deletion filter has passed
\* can not be left out, and nothing can once it is over.
FilterExact ==
    Decided =>
        /\ phase = "filter" => \A e \in selected \ todo : ~Infeasible(selected \ {e})
        /\ phase \in {"final", "members"} => \A e \in selected : ~Infeasible(selected \ {e})

DoubtInv ==
    /\ guarantee = "InfeasibleSubsystem" => ~Decided
    /\ FilterExact
    /\ NoNeedlessDoubt

\* The conflicts are those of the model throughout, and a check answers for them.
LEMMA ConflictsFixed ==
    ASSUME SafetyInv, [Next]_vars
    PROVE  /\ conflicts' = conflicts
           /\ \A S : Infeasible(S)' <=> Infeasible(S)
           /\ \A S \in SUBSET Atoms, fresh \in BOOLEAN : \A o : Ask(S, fresh, o) => Answered(S, o)
<1>1. conflicts' = conflicts
  BY DEF Next, vars, SkipFullCheck, CheckFullUniverse, NativeFails, NativeAnswers, CheckNativeSeed,
     CheckSeed, StartRound, DeleteChunk, EndRound, DeleteAtom, EndFilter, VerifyConflict,
     VerifyMember, ReportConflict, OracleFails
<1>2. \A S \in SUBSET Atoms, fresh \in BOOLEAN : \A o : Ask(S, fresh, o) => Answered(S, o)
  BY <1>1, AskHonest DEF SafetyInv
<1> QED
  BY <1>1, <1>2 DEF Infeasible

\* Before the deletion filter only the causes of doubt change.
LEMMA DoubtElsewhere ==
    ASSUME SafetyInv, DoubtInv, [Next]_vars, UNCHANGED <<guarantee, report>>,
           exhausted => exhausted', gaveUp => gaveUp',
           phase' \in {"filter", "final", "members"} => phase' = "filter" /\ todo' = selected'
    PROVE  DoubtInv'
<1>1. guarantee' = "InfeasibleSubsystem" => ~Decided'
  BY DEF DoubtInv, Decided
<1>2. FilterExact'
  BY DEF FilterExact
<1>3. NoNeedlessDoubt'
  BY DEF DoubtInv, NoNeedlessDoubt
<1> QED
  BY <1>1, <1>2, <1>3 DEF DoubtInv

\* A report that claims no more than an infeasible subsystem has met a limit or an
\* undecided answer.
LEMMA DoubtReported ==
    ASSUME DoubtInv, NEW r, Returns(r), UNCHANGED guarantee,
           exhausted => exhausted', gaveUp => gaveUp',
           r.outcome = "Conflict" /\ r.guarantee = "InfeasibleSubsystem" => ~Decided'
    PROVE  DoubtInv'
<1>1. guarantee' = "InfeasibleSubsystem" => ~Decided'
  BY DEF DoubtInv, Decided
<1>2. FilterExact' /\ NoNeedlessDoubt'
  BY DEF FilterExact, NoNeedlessDoubt, Decided, Returns
<1> QED
  BY <1>1, <1>2 DEF DoubtInv

\* The cause of every doubt is kept, step by step: in particular a member that is
\* verified after an exact filter is found to be needed again.
LEMMA DoubtInvStep == SafetyInv /\ DoubtInv /\ [Next]_vars => DoubtInv'
<1> SUFFICES ASSUME SafetyInv, DoubtInv, [Next]_vars PROVE DoubtInv'
  OBVIOUS
<1>a. /\ conflicts' = conflicts
      /\ \A S : Infeasible(S)' <=> Infeasible(S)
      /\ \A S \in SUBSET Atoms, fresh \in BOOLEAN : \A o : Ask(S, fresh, o) => Answered(S, o)
  BY ConflictsFixed
<1>b. /\ seed \subseteq Atoms /\ selected \subseteq Atoms /\ todo \subseteq selected
      /\ gaveUp \in BOOLEAN /\ exhausted \in BOOLEAN
  BY DEF SafetyInv, TypeOK
<1>1. CASE SkipFullCheck
  BY <1>1, DoubtReported, RecordFields DEF SkipFullCheck, oracleVars, reducerVars
<1>2. CASE CheckFullUniverse
  <2>1. PICK o \in Outcomes : Consult(Atoms, FALSE, o)
    BY <1>2 DEF CheckFullUniverse
  <2>2. gaveUp => gaveUp'
    BY <2>1 DEF Consult
  <2> QED
    BY <1>2, <2>2, DoubtElsewhere DEF CheckFullUniverse, reducerVars
<1>3. CASE NativeFails
  <2>1. CASE Returns(Error("native"))
    BY <1>3, <2>1, DoubtReported, RecordFields DEF NativeFails, oracleVars, reducerVars
  <2>2. CASE phase' = "initial" /\ UNCHANGED report
    BY <1>3, <2>2, DoubtElsewhere DEF NativeFails, oracleVars, reducerVars
  <2> QED
    BY <1>3, <2>1, <2>2 DEF NativeFails
<1>4. CASE NativeAnswers
  <2>1. CASE Returns(Error("unmappable"))
    BY <1>4, <2>1, DoubtReported, RecordFields DEF NativeAnswers, oracleVars, reducerVars
  <2>2. CASE phase' \in {"initial", "seed"} /\ UNCHANGED report
    BY <1>4, <2>2, DoubtElsewhere DEF NativeAnswers, oracleVars, reducerVars
  <2> QED
    BY <1>4, <2>1, <2>2 DEF NativeAnswers
<1>5. CASE CheckNativeSeed
  <2>1. gaveUp => gaveUp'
    BY <1>5, <1>a, <1>b DEF CheckNativeSeed, Answered, oracleVars
  <2>2. CASE Returns(Error("verification"))
    BY <1>5, <2>1, <2>2, DoubtReported, RecordFields DEF CheckNativeSeed, reducerVars
  <2>3. CASE Returns(Result("Conflict", "NativeReported", seed, "Complete"))
    BY <1>5, <2>1, <2>3, DoubtReported, RecordFields DEF CheckNativeSeed, reducerVars
  <2>4. CASE phase' = "initial" /\ UNCHANGED report
    BY <1>5, <2>1, <2>4, DoubtElsewhere DEF CheckNativeSeed, reducerVars
  <2> QED
    BY <1>5, <2>2, <2>3, <2>4 DEF CheckNativeSeed
<1>6. CASE CheckSeed
  <2>1. gaveUp => gaveUp'
    BY <1>6, <1>a, <1>b DEF CheckSeed, Answered
  <2>2. CASE Returns(Result("NoConflict", "None", {}, "Complete"))
    BY <1>6, <2>1, <2>2, DoubtReported, RecordFields DEF CheckSeed
  <2>3. CASE Returns(Inconclusive)
    BY <1>6, <2>1, <2>3, DoubtReported, RecordFields DEF CheckSeed
  <2>4. CASE selected' = seed /\ todo' = seed /\ phase' \in {"round", "filter"} /\ UNCHANGED report
    BY <1>6, <2>1, <2>4, DoubtElsewhere DEF CheckSeed
  <2> QED
    BY <1>6, <2>2, <2>3, <2>4 DEF CheckSeed
<1>7. CASE StartRound
  <2>1. exhausted => exhausted'
    BY <1>7 DEF StartRound
  <2> QED
    BY <1>7, <2>1, DoubtElsewhere DEF StartRound, oracleVars
<1>8. CASE DeleteChunk
  <2>1. (gaveUp => gaveUp') /\ (exhausted => exhausted')
    BY <1>8, <1>a, <1>b DEF DeleteChunk, Answered
  <2> QED
    BY <1>8, <2>1, DoubtElsewhere DEF DeleteChunk
<1>9. CASE EndRound
  BY <1>9, DoubtElsewhere DEF EndRound, oracleVars
<1>10. CASE DeleteAtom
  <2> DEFINE e == Foremost(todo)
  <2>1. PICK o \in Outcomes :
          /\ Ask(selected \ {e}, TRUE, o)
          /\ selected' = AfterDeletion(o)
          /\ todo' = IF o = "none" THEN {} ELSE todo \ {e}
          /\ exhausted' = (exhausted \/ o = "none")
          /\ guarantee' = IF o = "unknown" THEN "InfeasibleSubsystem" ELSE guarantee
    BY <1>10 DEF DeleteAtom
  <2>2. phase = "filter" /\ phase' = "filter" /\ UNCHANGED report
    BY <1>10 DEF DeleteAtom
  <2> HIDE DEF e
  <2>3. Answered(selected \ {e}, o)
    BY <1>a, <1>b, <2>1
  <2>4. (gaveUp => gaveUp') /\ (exhausted => exhausted') /\ (o = "unknown" => gaveUp')
    BY <2>1, <2>3, Zenon DEF Answered
  <2>5. guarantee' = "InfeasibleSubsystem" => ~Decided'
    BY <2>1, <2>4 DEF DoubtInv, Decided
  <2>6. FilterExact'
    <3>1. SUFFICES ASSUME Decided', NEW d \in selected' \ todo' PROVE ~Infeasible(selected' \ {d})
      BY <1>a, <2>2 DEF FilterExact
    <3>2. o \in {"infeasible", "feasible"} /\ o = Proof(selected \ {e}) /\ Decided
      BY <2>1, <2>3, <2>4, <3>1 DEF Answered, Decided, Outcomes
    <3>3. CASE o = "infeasible"
      <4>1. d \in selected \ todo /\ selected' \ {d} \subseteq selected \ {d}
        BY <2>1, <3>1, <3>3, Zenon DEF AfterDeletion, e
      <4>2. ~Infeasible(selected \ {d})
        BY <2>2, <3>2, <4>1 DEF DoubtInv, FilterExact
      <4> QED
        BY <4>1, <4>2, PartOfFeasible
    <3>4. CASE o = "feasible"
      <4>1. selected' = selected /\ (d = e \/ d \in selected \ todo)
        BY <2>1, <3>1, <3>4 DEF AfterDeletion
      <4>2. CASE d = e
        BY <3>2, <3>4, <4>1, <4>2 DEF Proof
      <4>3. CASE d \in selected \ todo
        BY <2>2, <3>2, <4>1, <4>3 DEF DoubtInv, FilterExact
      <4> QED
        BY <4>1, <4>2, <4>3
    <3> QED
      BY <3>2, <3>3, <3>4
  <2>7. NoNeedlessDoubt'
    BY <2>2, <2>4 DEF DoubtInv, NoNeedlessDoubt
  <2> QED
    BY <2>5, <2>6, <2>7 DEF DoubtInv
<1>11. CASE EndFilter
  <2>1. /\ phase = "filter" /\ phase' = "final" /\ UNCHANGED <<selected, report, guarantee, gaveUp, todo>>
        /\ exhausted' = (exhausted \/ todo # {})
    BY <1>11 DEF EndFilter, oracleVars
  <2>2. FilterExact'
    BY <1>a, <2>1 DEF DoubtInv, FilterExact, Decided
  <2>3. (guarantee' = "InfeasibleSubsystem" => ~Decided') /\ NoNeedlessDoubt'
    BY <2>1 DEF DoubtInv, NoNeedlessDoubt, Decided
  <2> QED
    BY <2>2, <2>3 DEF DoubtInv
<1>12. CASE VerifyConflict
  <2>1. PICK o \in Outcomes :
          /\ Ask(selected, TRUE, o)
          /\ exhausted' = (exhausted \/ o = "none")
          /\ (phase' = "members" /\ UNCHANGED report) \/ Returns(Error("verification"))
    BY <1>12 DEF VerifyConflict
  <2>2. phase = "final" /\ UNCHANGED <<selected, guarantee>>
    BY <1>12 DEF VerifyConflict
  <2>3. (gaveUp => gaveUp') /\ (exhausted => exhausted')
    BY <1>a, <1>b, <2>1, Zenon DEF Answered
  <2>4. CASE phase' = "members" /\ UNCHANGED report
    <3>1. FilterExact'
      BY <1>a, <2>2, <2>3, <2>4 DEF DoubtInv, FilterExact, Decided
    <3>2. (guarantee' = "InfeasibleSubsystem" => ~Decided') /\ NoNeedlessDoubt'
      BY <2>2, <2>3, <2>4 DEF DoubtInv, NoNeedlessDoubt, Decided
    <3> QED
      BY <3>1, <3>2 DEF DoubtInv
  <2>5. CASE Returns(Error("verification"))
    BY <2>2, <2>3, <2>5, DoubtReported, RecordFields
  <2> QED
    BY <2>1, <2>4, <2>5
<1>13. CASE VerifyMember
  <2> DEFINE e == Foremost(todo)
  <2>1. PICK o \in Outcomes :
          /\ Ask(selected \ {e}, TRUE, o)
          /\ exhausted' = (exhausted \/ o = "none")
          /\ guarantee' = IF o \in {"infeasible", "unknown"} THEN "InfeasibleSubsystem" ELSE guarantee
    BY <1>13 DEF VerifyMember
  <2>2. /\ phase = "members" /\ phase' = "members" /\ UNCHANGED <<selected, report>>
        /\ todo # {}
    BY <1>13 DEF VerifyMember
  <2>3. e \in selected
    <3>1. \A k \in todo : k \in Nat
      BY <1>b DEF Atoms
    <3>2. \E k \in todo : \A d \in todo : k <= d
      BY <2>2, <3>1, LeastOfNumbers
    <3> QED
      BY <1>b, <3>2 DEF Foremost, e
  <2> HIDE DEF e
  <2>4. Answered(selected \ {e}, o)
    BY <1>a, <1>b, <2>1
  <2>5. (gaveUp => gaveUp') /\ (exhausted => exhausted') /\ (o = "unknown" => gaveUp')
    BY <2>1, <2>4, Zenon DEF Answered
  <2>6. o = "infeasible" => ~Decided
    BY <2>2, <2>3, <2>4 DEF Answered, Proof, DoubtInv, FilterExact
  <2>7. guarantee' = "InfeasibleSubsystem" => ~Decided'
    BY <2>1, <2>5, <2>6 DEF DoubtInv, Decided
  <2>8. FilterExact' /\ NoNeedlessDoubt'
    BY <1>a, <2>2, <2>5 DEF DoubtInv, FilterExact, NoNeedlessDoubt, Decided
  <2> QED
    BY <2>7, <2>8 DEF DoubtInv
<1>14. CASE ReportConflict
  <2> DEFINE completion == IF ~exhausted THEN "Complete" ELSE IF CallsLeft THEN "IterationLimit" ELSE "OracleCallLimit"
  <2>1. /\ Returns(Result("Conflict", FinalGuarantee, selected, completion))
        /\ UNCHANGED <<guarantee, exhausted, gaveUp>>
    BY <1>14 DEF ReportConflict, reducerVars, oracleVars
  <2>2. FinalGuarantee = "InfeasibleSubsystem" => ~Decided'
    BY <2>1 DEF FinalGuarantee, DoubtInv, Decided
  <2> HIDE DEF completion
  <2> QED
    BY <2>1, <2>2, DoubtReported, RecordFields
<1>15. CASE OracleFails
  BY <1>15, DoubtReported, RecordFields DEF OracleFails, oracleVars, reducerVars
<1>16. CASE UNCHANGED vars
  BY <1>a, <1>16 DEF vars, DoubtInv, FilterExact, NoNeedlessDoubt, Decided
<1> QED
  BY <1>1, <1>2, <1>3, <1>4, <1>5, <1>6, <1>7, <1>8, <1>9, <1>10, <1>11, <1>12, <1>13, <1>14,
     <1>15, <1>16 DEF Next

\* A conflict that is only reported as an infeasible subsystem has a reason: a limit was
\* met or the oracle gave up (reduce_with_limits_and_policy).  Needed is that the filter
\* is exact until then, so that verifying its members again can not unsettle them.
THEOREM DoubtHasACause == Spec => []NoNeedlessDoubt
<1>1. Init => DoubtInv
  BY DEF Init, DoubtInv, FilterExact, NoNeedlessDoubt
<1>2. DoubtInv => NoNeedlessDoubt
  BY DEF DoubtInv
<1> QED
  BY SafetyInvInit, SafetyInvStep, DoubtInvStep, <1>1, <1>2, PTL DEF Spec

-----------------------------------------------------------------------------
(* Lists                                                                   *)

IsList(q) == q \in Seq(ToSet(q))

\* A function on 1 .. n is a list.
LEMMA MakeList ==
    ASSUME NEW n \in Nat, NEW q, q = [i \in 1 .. n |-> q[i]]
    PROVE  IsList(q) /\ Len(q) = n /\ DOMAIN q = 1 .. n
<1>1. \A i \in 1 .. n : q[i] \in ToSet(q)
  BY DEF ToSet
<1> HIDE DEF ToSet
<1> QED
  BY <1>1 DEF IsList

\* A list is the function of its positions.
LEMMA ListFacts ==
    ASSUME NEW q, IsList(q)
    PROVE  /\ Len(q) \in Nat /\ DOMAIN q = 1 .. Len(q) /\ q = [i \in 1 .. Len(q) |-> q[i]]
           /\ \A x : x \in ToSet(q) <=> \E i \in 1 .. Len(q) : q[i] = x
<1>1. Len(q) \in Nat /\ DOMAIN q = 1 .. Len(q) /\ q = [i \in 1 .. Len(q) |-> q[i]]
  BY DEF IsList
<1> QED
  BY <1>1 DEF ToSet

\* Lists with elements of a set are lists.
LEMMA ListOver ==
    ASSUME NEW T, NEW q \in Seq(T)
    PROVE  IsList(q) /\ \A i \in 1 .. Len(q) : q[i] \in T
<1>1. Len(q) \in Nat /\ q = [i \in 1 .. Len(q) |-> q[i]] /\ \A i \in 1 .. Len(q) : q[i] \in T
  OBVIOUS
<1> QED
  BY <1>1, MakeList

\* Named, so that provers see the result and not how it is computed.
Joined(p, q) == p \o q

\* What the positions of a concatenation hold.
LEMMA Concatenated ==
    ASSUME NEW p, IsList(p), NEW q, IsList(q)
    PROVE  /\ IsList(Joined(p, q)) /\ Len(Joined(p, q)) = Len(p) + Len(q)
           /\ \A i \in 1 .. Len(p) : Joined(p, q)[i] = p[i]
           /\ \A i \in 1 .. Len(q) : Joined(p, q)[Len(p) + i] = q[i]
<1> DEFINE S == ToSet(p) \cup ToSet(q)
<1>1. p \in Seq(S) /\ q \in Seq(S)
  <2>1. p \in Seq(ToSet(p)) /\ ToSet(p) \subseteq S /\ q \in Seq(ToSet(q)) /\ ToSet(q) \subseteq S
    BY DEF IsList
  <2> HIDE DEF S
  <2> QED
    BY <2>1
<1> HIDE DEF S
<1>2. /\ Joined(p, q) \in Seq(S) /\ Len(Joined(p, q)) = Len(p) + Len(q) /\ Len(p) \in Nat /\ Len(q) \in Nat
      /\ \A i \in 1 .. Len(p) : Joined(p, q)[i] = p[i]
      /\ \A i \in 1 .. Len(q) : Joined(p, q)[Len(p) + i] = q[i]
  BY <1>1 DEF Joined
<1>3. IsList(Joined(p, q))
  BY <1>2, ListOver
<1> QED
  BY <1>2, <1>3

LEMMA JoinedList == \A p, q : IsList(p) /\ IsList(q) => IsList(Joined(p, q))
BY Concatenated, Zenon

\* Every list has its members, before or behind another.
LEMMA Added ==
    ASSUME NEW p, IsList(p), NEW q, IsList(q)
    PROVE  /\ Len(Joined(p, q)) = Len(p) + Len(q) /\ Len(p) \in Nat /\ Len(q) \in Nat
           /\ \A i \in 1 .. Len(p) : Joined(p, q)[i] = p[i]
           /\ \A i \in 1 .. Len(q) : Joined(p, q)[Len(p) + i] = q[i]
           /\ \A i \in (Len(p) + 1) .. Len(Joined(p, q)) : Joined(p, q)[i] \in ToSet(q)
           /\ \A x : x \in ToSet(Joined(p, q)) <=> x \in ToSet(p) \/ x \in ToSet(q)
<1> DEFINE z == Joined(p, q)
<1>1. /\ IsList(z) /\ Len(z) = Len(p) + Len(q)
      /\ \A i \in 1 .. Len(p) : z[i] = p[i]
      /\ \A i \in 1 .. Len(q) : z[Len(p) + i] = q[i]
  BY Concatenated
<1> HIDE DEF z
<1>2. Len(p) \in Nat /\ Len(q) \in Nat
  BY ListFacts
<1>3. \A i \in (Len(p) + 1) .. Len(z) : i - Len(p) \in 1 .. Len(q) /\ z[i] = q[i - Len(p)]
  <2> TAKE i \in (Len(p) + 1) .. Len(z)
  <2>1. i - Len(p) \in 1 .. Len(q) /\ Len(p) + (i - Len(p)) = i
    BY <1>1, <1>2
  <2> QED
    BY <1>1, <2>1
<1>4. \A i \in (Len(p) + 1) .. Len(z) : z[i] \in ToSet(q)
  BY <1>3, ListFacts
<1>5. ASSUME NEW x, x \in ToSet(z) PROVE x \in ToSet(p) \/ x \in ToSet(q)
  <2>1. PICK i \in 1 .. Len(z) : z[i] = x
    BY <1>1, <1>5, ListFacts
  <2>2. CASE i <= Len(p)
    <3>1. i \in 1 .. Len(p)
      BY <1>1, <1>2, <2>2
    <3> QED
      BY <1>1, <2>1, <3>1, ListFacts
  <2>3. CASE i > Len(p)
    <3>1. i \in (Len(p) + 1) .. Len(z)
      BY <1>1, <1>2, <2>3
    <3> QED
      BY <1>4, <2>1, <3>1
  <2> QED
    BY <1>1, <1>2, <2>2, <2>3
<1>6. ASSUME NEW x, x \in ToSet(p) PROVE x \in ToSet(z)
  <2>1. PICK i \in 1 .. Len(p) : p[i] = x
    BY <1>6, ListFacts
  <2>2. i \in 1 .. Len(z)
    BY <1>1, <1>2
  <2> QED
    BY <1>1, <2>1, <2>2, ListFacts
<1>7. ASSUME NEW x, x \in ToSet(q) PROVE x \in ToSet(z)
  <2>1. PICK i \in 1 .. Len(q) : q[i] = x
    BY <1>7, ListFacts
  <2>2. Len(p) + i \in 1 .. Len(z)
    BY <1>1, <1>2
  <2> QED
    BY <1>1, <2>1, <2>2, ListFacts
<1> QED
  BY <1>1, <1>2, <1>4, <1>5, <1>6, <1>7 DEF z

\* The empty list and the lists of one element.
LEMMA EmptyList == IsList(<<>>) /\ Len(<<>>) = 0 /\ \A x : x \notin ToSet(<<>>)
BY DEF IsList, ToSet

LEMMA SingleList == \A y : IsList(<<y>>) /\ Len(<<y>>) = 1 /\ \A x : x \in ToSet(<<y>>) <=> x = y
<1> SUFFICES ASSUME NEW y PROVE IsList(<<y>>) /\ Len(<<y>>) = 1 /\ \A x : x \in ToSet(<<y>>) <=> x = y
  OBVIOUS
<1>1. <<y>> \in Seq({y}) /\ Len(<<y>>) = 1 /\ <<y>>[1] = y
  OBVIOUS
<1>2. IsList(<<y>>)
  BY <1>1, ListOver
<1> QED
  BY <1>1, <1>2, ListFacts

LEMMA UpToNext == \A n \in Nat : n >= 1 => 1 .. n = (1 .. (n - 1)) \cup {n} /\ n \notin 1 .. (n - 1) /\ n + 1 - 1 = n
OBVIOUS

\* Lists one after the other have the members of each.
LEMMA Flattened ==
    ASSUME NEW seqs, NEW n \in Nat, seqs = [k \in 1 .. n |-> seqs[k]], \A k \in 1 .. n : IsList(seqs[k])
    PROVE  /\ IsList(FlattenSeq(seqs))
           /\ \A x : x \in ToSet(FlattenSeq(seqs)) <=> \E k \in 1 .. n : x \in ToSet(seqs[k])
<1> DEFINE Join(x, i) == x \o seqs[i]
           Good(k, q) == IsList(q) /\ \A x : x \in ToSet(q) <=> \E j \in 1 .. k : x \in ToSet(seqs[j])
           Rec(g, m) == g = [i \in 1 .. m |-> IF i = 1 THEN seqs[i] ELSE Join(g[i - 1], i)]
           flat == CHOOSE g : Rec(g, n)
           missing == {m \in Nat : m <= n /\ ~\E g : Rec(g, m)}
<1>2. Len(seqs) = n /\ DOMAIN seqs = 1 .. n
  BY MakeList
<1>3. \A i \in 1 .. n : \A q : i > 1 /\ Good(i - 1, q) => Good(i, Join(q, i))
  <2> SUFFICES ASSUME NEW i \in 1 .. n, NEW q, i > 1, Good(i - 1, q) PROVE Good(i, Join(q, i))
    OBVIOUS
  <2>1. Join(q, i) = Joined(q, seqs[i])
    BY DEF Joined
  <2>2. 1 .. i = (1 .. (i - 1)) \cup {i}
    BY UpToNext
  <2>3. IsList(q) /\ IsList(seqs[i]) /\ \A x : x \in ToSet(q) <=> \E j \in 1 .. (i - 1) : x \in ToSet(seqs[j])
    OBVIOUS
  <2> HIDE DEF Join
  <2>4. IsList(Join(q, i)) /\ \A x : x \in ToSet(Join(q, i)) <=> x \in ToSet(q) \/ x \in ToSet(seqs[i])
    <3>1. IsList(Joined(q, seqs[i]))
      BY <2>3, JoinedList, Zenon
    <3> QED
      BY <2>1, <2>3, <3>1, Added
  <2> QED
    BY <2>2, <2>3, <2>4
<1>b. n >= 1 => Good(1, seqs[1])
  <2> SUFFICES ASSUME n >= 1 PROVE Good(1, seqs[1])
    OBVIOUS
  <2>1. 1 \in 1 .. n /\ 1 .. 1 = {1}
    OBVIOUS
  <2> QED
    BY <2>1
<1> HIDE DEF Join, Good
<1>1. FlattenSeq(seqs) = IF n = 0 THEN seqs ELSE flat[n]
  BY <1>2 DEF FlattenSeq, Join
<1>4. missing = {}
  <2> SUFFICES ASSUME missing # {} PROVE FALSE
    OBVIOUS
  <2>1. PICK m \in missing : \A k \in missing : m <= k
    BY LeastOfNumbers
  <2>2. CASE m = 0
    <3>1. Rec([i \in 1 .. 0 |-> <<>>], 0)
      OBVIOUS
    <3> QED
      BY <2>2, <3>1
  <2>3. CASE m # 0
    <3>1. m \in Nat /\ m - 1 \in Nat /\ m - 1 <= n
      BY <1>2, <2>3
    <3>2. PICK g : Rec(g, m - 1)
      <4>1. m - 1 \notin missing
        <5> HIDE DEF missing
        <5> QED
          BY <2>1, <3>1
      <4> QED
        BY <3>1, <4>1
    <3> DEFINE last == IF m = 1 THEN seqs[m] ELSE Join(g[m - 1], m)
               h == [i \in 1 .. m |-> IF i = m THEN last ELSE g[i]]
    <3>3. ASSUME NEW i \in 1 .. m
          PROVE  h[i] = IF i = 1 THEN seqs[i] ELSE Join(h[i - 1], i)
      <4>1. CASE i = m
        BY <3>1, <4>1
      <4>2. CASE i # m
        <5>1. i \in 1 .. (m - 1) /\ h[i] = g[i]
          BY <3>1, <4>2
        <5>2. i # 1 => h[i - 1] = g[i - 1]
          BY <3>1, <4>2
        <5>3. g[i] = IF i = 1 THEN seqs[i] ELSE Join(g[i - 1], i)
          BY <3>2, <5>1
        <5> QED
          BY <5>1, <5>2, <5>3
      <4> QED
        BY <4>1, <4>2
    <3>4. h = [i \in 1 .. m |-> h[i]]
      OBVIOUS
    <3> HIDE DEF h
    <3>5. Rec(h, m)
      BY <3>3, <3>4
    <3> QED
      BY <3>5
  <2> QED
    BY <2>2, <2>3
<1>5. Rec(flat, n)
  <2>1. n \notin missing
    BY <1>4
  <2>2. \E g : Rec(g, n)
    BY <1>2, <2>1
  <2> HIDE DEF Rec
  <2> QED
    BY <2>2
<1> HIDE DEF flat
<1> DEFINE lost == {k \in Nat : 1 <= k /\ k <= n /\ ~Good(k, flat[k])}
<1>6. lost = {}
  <2> SUFFICES ASSUME lost # {} PROVE FALSE
    OBVIOUS
  <2>1. PICK m \in lost : \A k \in lost : m <= k
    BY LeastOfNumbers
  <2>2. m \in 1 .. n /\ m \in Nat
    BY <1>2
  <2>3. flat[m] = IF m = 1 THEN seqs[m] ELSE Join(flat[m - 1], m)
    BY <1>5, <2>2
  <2>4. CASE m = 1
    BY <1>b, <2>2, <2>3, <2>4
  <2>5. CASE m # 1
    <3>1. m - 1 \in Nat /\ 1 <= m - 1 /\ m - 1 <= n
      BY <1>2, <2>2, <2>5
    <3>2. Good(m - 1, flat[m - 1])
      <4>1. m - 1 \notin lost
        <5> HIDE DEF lost
        <5> QED
          BY <2>1, <2>2, <3>1
      <4> QED
        BY <3>1, <4>1
    <3>3. Good(m, flat[m])
      BY <1>3, <2>2, <2>3, <2>5, <3>2
    <3> QED
      BY <3>3
  <2> QED
    BY <2>4, <2>5
<1>7. CASE n = 0
  <2>1. seqs = <<>> /\ 1 .. n = {}
    BY <1>7
  <2>2. IsList(<<>>) /\ \A x : x \notin ToSet(<<>>)
    BY EmptyList
  <2> QED
    BY <1>1, <1>7, <2>1, <2>2
<1>8. CASE n # 0
  <2>1. n \notin lost
    BY <1>6
  <2>2. Good(n, flat[n])
    BY <1>8, <2>1
  <2> QED
    BY <1>1, <1>8, <2>2 DEF Good
<1> QED
  BY <1>7, <1>8

\* A set of positions that has the last has it as its greatest.
LEMMA GreatestOf ==
    ASSUME NEW m \in Nat, NEW s \in SUBSET (1 .. m), m \in s
    PROVE  Max(s) = m
<1>1. \A x \in s : (\A y \in s : x >= y) => x = m
  OBVIOUS
<1>2. \A y \in s : m >= y
  OBVIOUS
<1> QED
  BY <1>1, <1>2 DEF Max

\* A set of positions that is not empty has a last one.
LEMMA LastOfPositions ==
    ASSUME NEW m \in Nat, NEW T \in SUBSET (1 .. m), T # {}
    PROVE  Max(T) \in T /\ \A y \in T : y <= Max(T)
<1>0. T \subseteq Nat
  OBVIOUS
<1> DEFINE R == {m - y : y \in T}
<1>1. R \in SUBSET Nat /\ R # {}
  <2>1. \A y \in T : y \in Nat /\ m - y \in Nat
    OBVIOUS
  <2> QED
    BY <2>1
<1>2. PICK k \in R : \A d \in R : k <= d
  <2> HIDE DEF R
  <2> QED
    BY <1>1, LeastOfNumbers
<1>3. PICK x \in T : k = m - x
  OBVIOUS
<1>4. \A y \in T : y <= x
  <2> TAKE y \in T
  <2>1. m - y \in R /\ m - x <= m - y
    BY <1>2, <1>3
  <2>2. x \in Nat /\ y \in Nat
    BY <1>0
  <2> HIDE DEF R
  <2> QED
    BY <2>1, <2>2
<1> HIDE DEF R
<1>5. \E z \in T : \A y \in T : z >= y
  BY <1>3, <1>4
<1>6. Max(T) \in T /\ \A y \in T : Max(T) >= y
  BY <1>5 DEF Max
<1> QED
  BY <1>6

\* What a row measures at a point is a number.
LEMMA ValueNumber ==
    ASSUME NEW n \in Nat, NEW terms \in [1 .. n -> Int], NEW pt \in [1 .. n -> Int]
    PROVE  Value(terms, pt) \in Int
<1> DEFINE q == [k \in DOMAIN terms |-> terms[k] * pt[k]]
           start == 0
           Op(c, x) == c + x
           Good(c) == c \in Int
           Rec(g, S) == g = [s \in SUBSET S |-> IF s = {} THEN start ELSE Op(g[s \ {Max(s)}], q[Max(s)])]
           fold == CHOOSE g : Rec(g, DOMAIN q)
           missing == {m \in Nat : ~\E g : Rec(g, 1 .. m)}
<1>1. Value(terms, pt) = fold[DOMAIN q]
  BY DEF Value, FoldLeft, MapThenFoldSet
<1>2. n \in Nat /\ DOMAIN q = 1 .. n
  OBVIOUS
<1>3. Good(start) /\ \A c, k : Good(c) /\ k \in 1 .. n => Good(Op(c, q[k]))
  <2>1. \A k \in 1 .. n : q[k] \in Int
    OBVIOUS
  <2> HIDE DEF q
  <2> QED
    BY <2>1
<1> HIDE DEF Op, q, start, Good
<1>4. missing = {}
  <2> SUFFICES ASSUME missing # {} PROVE FALSE
    OBVIOUS
  <2>1. PICK m \in missing : \A k \in missing : m <= k
    BY LeastOfNumbers
  <2>2. CASE m = 0
    <3>1. Rec([s \in SUBSET (1 .. 0) |-> start], 1 .. 0)
      OBVIOUS
    <3> QED
      BY <2>2, <3>1
  <2>3. CASE m # 0
    <3>1. m \in Nat /\ m - 1 \in Nat
      BY <2>3
    <3>2. PICK g : Rec(g, 1 .. (m - 1))
      <4>1. m - 1 \notin missing
        <5> HIDE DEF missing
        <5> QED
          BY <2>1, <3>1
      <4> QED
        BY <3>1, <4>1
    <3> DEFINE h == [s \in SUBSET (1 .. m) |-> IF m \in s THEN Op(g[s \ {m}], q[m]) ELSE g[s]]
    <3>3. ASSUME NEW s \in SUBSET (1 .. m)
          PROVE  h[s] = IF s = {} THEN start ELSE Op(h[s \ {Max(s)}], q[Max(s)])
      <4>1. CASE m \in s
        <5>1. Max(s) = m /\ s \ {m} \in SUBSET (1 .. m) /\ m \notin s \ {m}
          BY <3>1, <4>1, GreatestOf
        <5> QED
          BY <4>1, <5>1
      <4>2. CASE m \notin s
        <5>1. s \in SUBSET (1 .. (m - 1))
          BY <3>1, <4>2
        <5>2. g[s] = IF s = {} THEN start ELSE Op(g[s \ {Max(s)}], q[Max(s)])
          BY <3>2, <5>1
        <5>3. s \ {Max(s)} \in SUBSET (1 .. m) /\ m \notin s \ {Max(s)}
          BY <4>2
        <5> QED
          BY <4>2, <5>2, <5>3
      <4> QED
        BY <4>1, <4>2
    <3>4. h = [s \in SUBSET (1 .. m) |-> h[s]]
      OBVIOUS
    <3> HIDE DEF h
    <3>5. Rec(h, 1 .. m)
      BY <3>3, <3>4
    <3> QED
      BY <3>5
  <2> QED
    BY <2>2, <2>3
<1>5. Rec(fold, 1 .. n)
  <2>1. \E g : Rec(g, 1 .. n)
    BY <1>2, <1>4
  <2> HIDE DEF Rec
  <2> QED
    BY <1>2, <2>1
<1> DEFINE lost == {k \in Nat : k <= n /\ ~Good(fold[1 .. k])}
<1> HIDE DEF fold
<1>6. lost = {}
  <2> SUFFICES ASSUME lost # {} PROVE FALSE
    OBVIOUS
  <2>1. PICK m \in lost : \A k \in lost : m <= k
    BY LeastOfNumbers
  <2>2. CASE m = 0
    BY <1>3, <1>5, <2>2
  <2>3. CASE m # 0
    <3>1. m \in 1 .. n /\ m - 1 \in Nat /\ m - 1 <= n
      BY <1>2, <2>3
    <3>2. Good(fold[1 .. (m - 1)])
      <4>1. m - 1 \notin lost
        <5> HIDE DEF lost
        <5> QED
          BY <2>1, <3>1
      <4> QED
        BY <3>1, <4>1
    <3>3. Max(1 .. m) = m /\ (1 .. m) \ {m} = 1 .. (m - 1) /\ 1 .. m \in SUBSET (1 .. n) /\ 1 .. m # {}
      <4>1. 1 .. m = (1 .. (m - 1)) \cup {m} /\ m \notin 1 .. (m - 1)
        BY <3>1, UpToNext
      <4>2. 1 .. m \in SUBSET (1 .. n) /\ 1 .. m # {} /\ m \in 1 .. m /\ m \in Nat
        <5>1. m \in Nat /\ m >= 1 /\ m <= n
          BY <1>2, <3>1
        <5>2. m \in 1 .. m
          BY <5>1
        <5>3. \A i \in 1 .. m : i \in 1 .. n
          BY <1>2, <5>1
        <5> QED
          BY <5>1, <5>2, <5>3
      <4>3. Max(1 .. m) = m
        BY <4>2, GreatestOf
      <4>4. (1 .. m) \ {m} = 1 .. (m - 1)
        BY <4>1
      <4> QED
        BY <4>2, <4>3, <4>4
    <3>4. fold[1 .. m] = Op(fold[1 .. (m - 1)], q[m])
      BY <1>5, <3>3
    <3>5. Good(fold[1 .. m])
      BY <1>3, <3>1, <3>2, <3>4
    <3> QED
      BY <3>5
  <2> QED
    BY <2>2, <2>3
<1>7. Good(fold[1 .. n])
  BY <1>2, <1>6
<1> QED
  BY <1>1, <1>2, <1>7 DEF Good

-----------------------------------------------------------------------------
(* The compiled model                                                      *)

\* The problem is made of lists.
LEMMA ProblemLists ==
    ASSUME NEW p, ProperProblem(p)
    PROVE  /\ IsList(p.columns) /\ IsList(p.rows) /\ IsList(p.extra) /\ IsList(p.fixings) /\ IsList(p.locks)
           /\ Len(p.columns) \in Nat /\ Len(p.rows) \in Nat /\ Len(p.extra) \in Nat
           /\ DOMAIN p.columns = 1 .. Len(p.columns) /\ DOMAIN p.rows = 1 .. Len(p.rows)
           /\ DOMAIN p.extra = 1 .. Len(p.extra)
           /\ \A k \in 1 .. Len(p.columns) : ProperColumn(p.columns[k])
<1>1. IsList(p.columns) /\ IsList(p.rows) /\ IsList(p.extra) /\ IsList(p.fixings) /\ IsList(p.locks)
  BY DEF ProperProblem, IsList
<1>2. \A c \in ToSet(p.columns) : ProperColumn(c)
  BY DEF ProperProblem
<1>3. \A k \in 1 .. Len(p.columns) : p.columns[k] \in ToSet(p.columns)
  BY <1>1, ListFacts
<1> QED
  BY <1>1, <1>2, <1>3, ListFacts

\* The rows of the model and of the overlay.
LEMMA RowsListed ==
    ASSUME NEW p, ProperProblem(p)
    PROVE  /\ IsList(AllRows(p)) /\ Len(AllRows(p)) = Len(p.rows) + Len(p.extra)
           /\ DOMAIN AllRows(p) = 1 .. Len(AllRows(p))
           /\ \A k \in 1 .. Len(p.rows) : AllRows(p)[k] = p.rows[k]
           /\ \A k \in 1 .. Len(p.extra) : AllRows(p)[Len(p.rows) + k] = p.extra[k]
           /\ \A k \in 1 .. Len(AllRows(p)) :
                ProperBounds(AllRows(p)[k].bounds) /\ AllRows(p)[k].terms \in [1 .. Len(p.columns) -> Int]
<1>1. IsList(p.rows) /\ IsList(p.extra)
  BY ProblemLists
<1>2. AllRows(p) = Joined(p.rows, p.extra)
  BY DEF AllRows, Joined
<1>3. /\ IsList(AllRows(p)) /\ Len(AllRows(p)) = Len(p.rows) + Len(p.extra)
      /\ \A k \in 1 .. Len(p.rows) : AllRows(p)[k] = p.rows[k]
      /\ \A k \in 1 .. Len(p.extra) : AllRows(p)[Len(p.rows) + k] = p.extra[k]
      /\ \A r \in ToSet(AllRows(p)) : r \in ToSet(p.rows) \cup ToSet(p.extra)
  <2> SUFFICES ASSUME NEW a, NEW e, NEW z, a = p.rows, e = p.extra, z = AllRows(p), IsList(a), IsList(e), z = Joined(a, e)
               PROVE  /\ IsList(z) /\ Len(z) = Len(a) + Len(e)
                      /\ \A k \in 1 .. Len(a) : z[k] = a[k]
                      /\ \A k \in 1 .. Len(e) : z[Len(a) + k] = e[k]
                      /\ \A r \in ToSet(z) : r \in ToSet(a) \cup ToSet(e)
    BY <1>1, <1>2
  <2>1. IsList(z) /\ Len(z) = Len(a) + Len(e)
    <3>1. IsList(z)
      BY JoinedList, Zenon
    <3> QED
      BY <3>1, Added
  <2>2. \A k \in 1 .. Len(a) : z[k] = a[k]
    BY Added
  <2>3. \A k \in 1 .. Len(e) : z[Len(a) + k] = e[k]
    BY Added
  <2>4. \A r \in ToSet(z) : r \in ToSet(a) \cup ToSet(e)
    BY Added
  <2> QED
    BY <2>1, <2>2, <2>3, <2>4
<1>4. \A r \in ToSet(p.rows) \cup ToSet(p.extra) : ProperBounds(r.bounds) /\ r.terms \in [DOMAIN p.columns -> Int]
  BY DEF ProperProblem
<1>5. DOMAIN p.columns = 1 .. Len(p.columns)
  BY ProblemLists
<1>6. DOMAIN AllRows(p) = 1 .. Len(AllRows(p)) /\ \A k \in 1 .. Len(AllRows(p)) : AllRows(p)[k] \in ToSet(AllRows(p))
  BY <1>3, ListFacts
<1> QED
  BY <1>3, <1>4, <1>5, <1>6

Ends == {"lower", "upper"}

\* A fixed column has one value, within its declared bounds.
LEMMA FixedColumn ==
    ASSUME NEW c, ProperColumn(c), c.fixing # {}
    PROVE  \E f \in Int : /\ c.fixing = {f} /\ (CHOOSE g \in c.fixing : TRUE) = f /\ IsFinite(f)
                          /\ c.bounds.lower <= f /\ f <= c.bounds.upper
<1>1. PICK f \in c.fixing : TRUE
  OBVIOUS
<1>2. c.fixing = {f} /\ IsFinite(f) /\ c.bounds.lower <= f /\ f <= c.bounds.upper
  BY <1>1 DEF ProperColumn
<1>3. (CHOOSE g \in {f} : TRUE) = f
  OBVIOUS
<1>4. f \in Int
  BY <1>2, ValuesAssumption DEF IsFinite
<1> QED
  BY <1>2, <1>3, <1>4

\* The bounds of a compiled column, and the layer below a fixing.
LEMMA ColumnBounds ==
    ASSUME NEW c, ProperColumn(c), c.fixing # {} => c.active
    PROVE  /\ ProperBounds(BaseColumn(c)) /\ ProperBounds(LowerLayer(c))
           /\ LowerLayer(c).lower <= BaseColumn(c).lower /\ BaseColumn(c).upper <= LowerLayer(c).upper
           /\ c.fixing = {} => LowerLayer(c) = BaseColumn(c)
           /\ c.fixing # {} => BaseColumn(c) = Exactly(CHOOSE f \in c.fixing : TRUE)
<1>0. Inf \in Nat /\ Inf > 0
  BY ValuesAssumption
<1>1. CASE c.fixing # {}
  <2>1. PICK f \in Int : /\ (CHOOSE g \in c.fixing : TRUE) = f /\ IsFinite(f)
                         /\ c.bounds.lower <= f /\ f <= c.bounds.upper
    BY <1>1, FixedColumn
  <2>2. BaseColumn(c) = Exactly(f) /\ LowerLayer(c) = c.bounds /\ ProperBounds(c.bounds)
    BY <1>1, <2>1 DEF BaseColumn, LowerLayer, ProperColumn
  <2>3. Exactly(f).lower = f /\ Exactly(f).upper = f
    BY DEF Exactly, Span
  <2>4. ProperBounds(Exactly(f))
    BY <1>0, <2>1, <2>3 DEF ProperBounds, IsFinite
  <2> QED
    BY <1>1, <2>1, <2>2, <2>3, <2>4
<1>2. CASE c.fixing = {}
  <2>1. LowerLayer(c) = BaseColumn(c)
    BY <1>2 DEF LowerLayer
  <2>2. Exactly(0).lower = 0 /\ Exactly(0).upper = 0
    BY DEF Exactly, Span
  <2>3. ProperBounds(BaseColumn(c))
    BY <1>0, <1>2, <2>2 DEF BaseColumn, ProperColumn, ProperBounds
  <2>4. BaseColumn(c).lower \in Int /\ BaseColumn(c).upper \in Int
    BY <1>0, <2>3 DEF ProperBounds
  <2> QED
    BY <1>2, <2>1, <2>3, <2>4
<1> QED
  BY <1>1, <1>2

Restrictions(p, k) == {r \in ToSet(p.fixings) \cup ToSet(p.locks) : r.of = k}

\* What an overlay leaves of a column without bands: the base, or the one value.
LEMMA OverlaidColumn ==
    ASSUME NEW p, ProperProblem(p), Exact(p), NEW k \in 1 .. Len(p.columns)
    PROVE  LET b == BaseColumn(p.columns[k])
               o == Overlaid(p, k)
           IN  /\ ProperBounds(o) /\ b.lower <= o.lower /\ o.upper <= b.upper
               /\ Restrictions(p, k) = {} => o.lower = b.lower /\ o.upper = b.upper
               /\ \A r \in Restrictions(p, k) : r.value \in Int /\ IsFinite(r.value) /\ o.lower = r.value /\ o.upper = r.value
<1> DEFINE b == BaseColumn(p.columns[k])
           o == Overlaid(p, k)
           lows == {l.lower : l \in Layers(p, k)}
           ups == {l.upper : l \in Layers(p, k)}
<1>0. Inf \in Nat /\ Inf > 0
  BY ValuesAssumption
<1>1. ProperBounds(b)
  <2>1. ProperColumn(p.columns[k]) /\ (p.columns[k].fixing # {} => p.columns[k].active)
    BY ProblemLists DEF Exact
  <2> QED
    BY <2>1, ColumnBounds
<1>2. b.lower \in Int /\ b.upper \in Int
  BY <1>0, <1>1 DEF ProperBounds
<1>3. o.lower = Max(lows) /\ o.upper = Min(ups)
  BY DEF Overlaid, Intersection, Span
<1>4. Layers(p, k) = {b} \cup {Around(r) : r \in Restrictions(p, k)}
  BY DEF Layers, Restrictions
<1>5. ASSUME NEW r \in Restrictions(p, k)
      PROVE  /\ r.value \in Int /\ IsFinite(r.value)
             /\ Around(r).lower = r.value /\ Around(r).upper = r.value
  <2>1. r.band = 0
    <3>1. CASE r \in ToSet(p.fixings)
      BY <3>1 DEF ProperProblem
    <3>2. CASE r \in ToSet(p.locks)
      <4>1. PICK i \in 1 .. Len(p.locks) : p.locks[i] = r
        BY <3>2, ProblemLists, ListFacts
      <4>2. i \in DOMAIN p.locks
        BY ProblemLists, ListFacts
      <4> QED
        BY <4>1, <4>2 DEF Exact
    <3> QED
      BY <3>1, <3>2 DEF Restrictions
  <2>2. IsFinite(r.value)
    BY DEF Restrictions, ProperProblem
  <2>3. r.value \in Int
    BY <1>0, <2>2 DEF IsFinite
  <2> QED
    BY <2>1, <2>2, <2>3 DEF Around, Span
<1>6. PICK x \in (-Inf) .. Inf : \A l \in Layers(p, k) : l.lower <= x /\ x <= l.upper
  BY ProblemLists DEF ProperProblem
<1>7. x \in Int
  BY <1>0
<1> HIDE DEF b, o
<1>8. CASE Restrictions(p, k) = {}
  <2>1. lows = {b.lower} /\ ups = {b.upper}
    BY <1>4, <1>8
  <2>2. Max({b.lower}) = b.lower /\ Min({b.upper}) = b.upper
    BY <1>2 DEF Max, Min
  <2>3. o.lower = b.lower /\ o.upper = b.upper
    BY <1>3, <2>1, <2>2
  <2> QED
    BY <1>1, <1>2, <1>8, <2>3 DEF b, o, ProperBounds
<1>9. CASE Restrictions(p, k) # {}
  <2>1. \A r \in Restrictions(p, k) : r.value = x
    BY <1>4, <1>5, <1>6, <1>7
  <2>2. PICK r \in Restrictions(p, k) : TRUE
    BY <1>9
  <2>3. IsFinite(x)
    BY <1>5, <2>1, <2>2
  <2>4. \A l \in Layers(p, k) : l = b \/ (l.lower = x /\ l.upper = x)
    BY <1>4, <1>5, <2>1
  <2>5. b.lower <= x /\ x <= b.upper
    BY <1>4, <1>6
  <2>6. x \in lows /\ x \in ups /\ (\A y \in lows : y \in Int /\ x >= y) /\ (\A y \in ups : y \in Int /\ x <= y)
    <3>1. Around(r) \in Layers(p, k)
      BY <1>4
    <3>2. Around(r).lower = x /\ Around(r).upper = x
      BY <1>5, <2>1
    <3>3. x \in lows /\ x \in ups
      BY <3>1, <3>2
    <3> QED
      BY <1>2, <1>7, <2>4, <2>5, <3>3
  <2> HIDE DEF lows, ups
  <2>7. Max(lows) = x
    <3>1. \A z \in lows : (\A y \in lows : z >= y) => z = x
      BY <1>7, <2>6
    <3> QED
      BY <2>6, <3>1 DEF Max
  <2>8. Min(ups) = x
    <3>1. \A z \in ups : (\A y \in ups : z <= y) => z = x
      BY <1>7, <2>6
    <3> QED
      BY <2>6, <3>1 DEF Min
  <2>9. o.lower = x /\ o.upper = x
    BY <1>3, <2>7, <2>8
  <2>10. ProperBounds(o)
    BY <1>0, <2>3, <2>9 DEF ProperBounds, IsFinite
  <2> QED
    BY <1>5, <1>7, <1>9, <2>1, <2>5, <2>9, <2>10 DEF b, o
<1> QED
  BY <1>8, <1>9

-----------------------------------------------------------------------------
(* Sides and what lies below the covering atoms                            *)

\* A side's bound x allows what the bound y allows.
Loose(s, x, y) == IF s[3] = "lower" THEN x <= y ELSE x >= y

\* The bound of a side before fixings, groups and overlays.
Under(p, s) ==
    IF s[1] = "row" THEN AllRows(p)[s[2]].bounds[s[3]] ELSE LowerLayer(p.columns[s[2]])[s[3]]

\* A side names an end of a row or a column there is.
LEMMA SideShape ==
    ASSUME NEW p, NEW s \in Sides(p)
    PROVE  /\ s = <<s[1], s[2], s[3]>> /\ s[3] \in Ends
           /\ \/ s[1] = "column" /\ s[2] \in 1 .. Len(p.columns)
              \/ s[1] = "row" /\ s[2] \in 1 .. Len(AllRows(p))
BY DEF Sides, Ends

LEMMA SideMade ==
    ASSUME NEW p, NEW e \in Ends, NEW k
    PROVE  /\ k \in 1 .. Len(p.columns) => <<"column", k, e>> \in Sides(p)
           /\ k \in 1 .. Len(AllRows(p)) => <<"row", k, e>> \in Sides(p)
BY DEF Sides, Ends

\* The bounds of a side are numbers, finite or infinite on its own side, and those it
\* is compiled to are within the first.
LEMMA SideBounds ==
    ASSUME NEW p, ProperProblem(p), Exact(p), NEW s \in Sides(p)
    PROVE  /\ CompiledState(p)[s] \in Int /\ Under(p, s) \in Int
           /\ Loose(s, Under(p, s), CompiledState(p)[s])
           /\ Loose(s, FreeSide(s), CompiledState(p)[s])
           /\ IsFinite(CompiledState(p)[s]) \/ CompiledState(p)[s] = FreeSide(s)
           /\ IsFinite(Under(p, s)) => IsFinite(CompiledState(p)[s])
<1>0. Inf \in Nat /\ Inf > 0
  BY ValuesAssumption
<1> DEFINE c == CompiledState(p)[s]
           u == Under(p, s)
<1>1. c = IF s[1] = "row" THEN AllRows(p)[s[2]].bounds[s[3]] ELSE Overlaid(p, s[2])[s[3]]
  BY DEF CompiledState
<1>2. CASE s[1] = "row"
  <2>1. u = c
    BY <1>1, <1>2 DEF Under
  <2>2. s[2] \in 1 .. Len(AllRows(p)) /\ s[3] \in Ends
    BY <1>2, SideShape
  <2> DEFINE b == AllRows(p)[s[2]].bounds
  <2>3. b.lower \in (-Inf) .. (Inf - 1) /\ b.upper \in (-Inf + 1) .. Inf
    BY <2>2, RowsListed DEF ProperBounds
  <2>4. c = IF s[3] = "lower" THEN b.lower ELSE b.upper
    BY <1>1, <1>2, <2>2 DEF Ends
  <2> HIDE DEF b, c, u
  <2> QED
    BY <1>0, <2>1, <2>2, <2>3, <2>4 DEF Loose, FreeSide, IsFinite, c, u, Ends
<1>3. CASE s[1] # "row"
  <2>1. s[2] \in 1 .. Len(p.columns) /\ s[3] \in Ends
    BY <1>3, SideShape
  <2> DEFINE o == Overlaid(p, s[2])
             l == LowerLayer(p.columns[s[2]])
             b == BaseColumn(p.columns[s[2]])
  <2>2. ProperBounds(o) /\ b.lower <= o.lower /\ o.upper <= b.upper
    BY <2>1, OverlaidColumn
  <2>3. ProperBounds(b) /\ ProperBounds(l) /\ l.lower <= b.lower /\ b.upper <= l.upper
    <3>1. ProperColumn(p.columns[s[2]]) /\ (p.columns[s[2]].fixing # {} => p.columns[s[2]].active)
      BY <2>1, ProblemLists DEF Exact
    <3> QED
      BY <3>1, ColumnBounds
  <2>4. c = IF s[3] = "lower" THEN o.lower ELSE o.upper
    BY <1>1, <1>3, <2>1 DEF Ends
  <2>5. u = IF s[3] = "lower" THEN l.lower ELSE l.upper
    BY <1>3, <2>1 DEF Ends, Under
  <2> HIDE DEF o, b, l, c, u
  <2>6. c \in Int /\ u \in Int /\ (IF s[3] = "lower" THEN u <= c ELSE u >= c)
    BY <1>0, <2>1, <2>2, <2>3, <2>4, <2>5 DEF ProperBounds, Ends
  <2>7. IF s[3] = "lower" THEN c \in (-Inf) .. (Inf - 1) ELSE c \in (-Inf + 1) .. Inf
    BY <1>0, <2>1, <2>2, <2>4 DEF ProperBounds, Ends
  <2> QED
    BY <1>0, <2>1, <2>6, <2>7 DEF Loose, FreeSide, IsFinite, c, u, Ends
<1> QED
  BY <1>2, <1>3

-----------------------------------------------------------------------------
\* The atoms of one side each.
LEMMA SideAtomsMembers ==
    ASSUME NEW what, NEW k, NEW b
    PROVE  /\ IsList(SideAtoms(what, k, b))
           /\ \A a : a \in ToSet(SideAtoms(what, k, b)) <=>
                       \E e \in Ends : IsFinite(b[e]) /\ a = SideAtom(<<what, k, e>>, b[e])
<1> DEFINE low == SideAtom(<<what, k, "lower">>, b.lower)
           up == SideAtom(<<what, k, "upper">>, b.upper)
           first == IF IsFinite(b.lower) THEN <<low>> ELSE <<>>
           second == IF IsFinite(b.upper) THEN <<up>> ELSE <<>>
<1>1. SideAtoms(what, k, b) = Joined(first, second)
  BY DEF SideAtoms, Joined
<1> HIDE DEF low, up
<1>2. IsList(first) /\ \A a : a \in ToSet(first) <=> IsFinite(b.lower) /\ a = low
  BY EmptyList, SingleList
<1>3. IsList(second) /\ \A a : a \in ToSet(second) <=> IsFinite(b.upper) /\ a = up
  BY EmptyList, SingleList
<1> HIDE DEF first, second
<1>4. IsList(Joined(first, second))
  BY <1>2, <1>3, JoinedList, Zenon
<1>5. \A a : a \in ToSet(Joined(first, second)) <=> a \in ToSet(first) \/ a \in ToSet(second)
  BY <1>2, <1>3, Added
<1>6. ASSUME NEW a
      PROVE  (\E e \in Ends : IsFinite(b[e]) /\ a = SideAtom(<<what, k, e>>, b[e]))
               <=> (IsFinite(b.lower) /\ a = low) \/ (IsFinite(b.upper) /\ a = up)
  BY DEF Ends, low, up
<1> QED
  BY <1>1, <1>2, <1>3, <1>4, <1>5, <1>6

\* The atoms of a row or column set its sides, and all it has unless they wait for a group.
LEMMA EntityAtomsMembers ==
    ASSUME NEW p, NEW what, NEW k, NEW b, ProperBounds(b), NEW origin
    PROVE  LET q == EntityAtoms(p, what, k, b, origin)
           IN  /\ IsList(q)
               /\ \A a \in ToSet(q) : \A s \in DOMAIN a :
                    \E e \in Ends : s = <<what, k, e>> /\ a[s] = b[e] /\ IsFinite(b[e])
               /\ ~Grouped(p, origin) =>
                    \A e \in Ends : IsFinite(b[e]) => \E a \in ToSet(q) : <<what, k, e>> \in DOMAIN a
<1> DEFINE q == EntityAtoms(p, what, k, b, origin)
<1>1. CASE Grouped(p, origin)
  <2>1. q = <<>>
    BY <1>1 DEF EntityAtoms
  <2> QED
    BY <1>1, <2>1, EmptyList
<1>2. CASE ~Grouped(p, origin) /\ p.grouping = "Semantic" /\ origin = "user" /\ FiniteEqual(b)
  <2> DEFINE y == BothSides(what, k, b)
  <2>1. q = <<y>>
    BY <1>2 DEF EntityAtoms
  <2>2. \A s \in DOMAIN y : \E e \in Ends : s = <<what, k, e>> /\ y[s] = b[e]
    BY DEF BothSides, Ends
  <2>3. \A e \in Ends : <<what, k, e>> \in DOMAIN y
    BY DEF BothSides, Ends
  <2>4. \A e \in Ends : IsFinite(b[e])
    <3>1. IsFinite(b.lower) /\ IsFinite(b.upper)
      BY <1>2, ValuesAssumption DEF ProperBounds, FiniteEqual, IsFinite
    <3> QED
      BY <3>1 DEF Ends
  <2> HIDE DEF y
  <2>5. IsList(q) /\ \A a : a \in ToSet(q) <=> a = y
    BY <2>1, SingleList
  <2> HIDE DEF q
  <2> QED
    BY <2>2, <2>3, <2>4, <2>5 DEF q
<1>3. CASE ~Grouped(p, origin) /\ ~(p.grouping = "Semantic" /\ origin = "user" /\ FiniteEqual(b))
  <2>1. q = SideAtoms(what, k, b)
    BY <1>3 DEF EntityAtoms
  <2>2. \A e \in Ends : /\ DOMAIN SideAtom(<<what, k, e>>, b[e]) = {<<what, k, e>>}
                        /\ SideAtom(<<what, k, e>>, b[e])[<<what, k, e>>] = b[e]
    BY DEF SideAtom
  <2>3. IsList(q) /\ \A a : a \in ToSet(q) <=> \E e \in Ends : IsFinite(b[e]) /\ a = SideAtom(<<what, k, e>>, b[e])
    <3> DEFINE z == SideAtoms(what, k, b)
    <3>1. IsList(z)
      BY SideAtomsMembers
    <3>2. \A a : a \in ToSet(z) <=> \E e \in Ends : IsFinite(b[e]) /\ a = SideAtom(<<what, k, e>>, b[e])
      BY SideAtomsMembers
    <3>3. q = z
      BY <2>1
    <3> HIDE DEF q, z
    <3> QED
      BY <3>1, <3>2, <3>3
  <2> HIDE DEF q
  <2>4. ASSUME NEW a \in ToSet(q), NEW s \in DOMAIN a
        PROVE  \E e \in Ends : s = <<what, k, e>> /\ a[s] = b[e] /\ IsFinite(b[e])
    <3>1. PICK e \in Ends : IsFinite(b[e]) /\ a = SideAtom(<<what, k, e>>, b[e])
      BY <2>3
    <3>2. DOMAIN a = {<<what, k, e>>} /\ a[<<what, k, e>>] = b[e]
      BY <2>2, <3>1
    <3> QED
      BY <3>1, <3>2
  <2>5. \A e \in Ends : IsFinite(b[e]) => \E a \in ToSet(q) : <<what, k, e>> \in DOMAIN a
    BY <2>2, <2>3
  <2> QED
    BY <2>3, <2>4, <2>5 DEF q
<1> QED
  BY <1>1, <1>2, <1>3

\* An atom of the bounds below fixings, groups and overlays, and one of the compiled model.
OfLayer(p, a) == DOMAIN a \subseteq Sides(p) /\ \A s \in DOMAIN a : a[s] = Under(p, s) /\ IsFinite(a[s])
OfModel(p, a) == DOMAIN a \subseteq Sides(p) /\ \A s \in DOMAIN a : a[s] = CompiledState(p)[s] /\ IsFinite(a[s])

\* Some atom of a list sets the side.
SetBy(q, s) == \E a \in ToSet(q) : s \in DOMAIN a

\* The atoms of the rows are of their bounds, and every finite side has one unless grouped.
LEMMA RowAtomsMembers ==
    ASSUME NEW p, ProperProblem(p)
    PROVE  /\ IsList(RowAtoms(p))
           /\ \A a \in ToSet(RowAtoms(p)) : OfLayer(p, a)
           /\ \A k \in 1 .. Len(p.rows), e \in Ends :
                ~Grouped(p, p.rows[k].origin) /\ IsFinite(p.rows[k].bounds[e]) => SetBy(RowAtoms(p), <<"row", k, e>>)
<1> DEFINE n == Len(p.rows)
           b(k) == p.rows[k].bounds
           o(k) == p.rows[k].origin
           q(k) == EntityAtoms(p, "row", k, b(k), o(k))
           seqs == [k \in DOMAIN p.rows |-> q(k)]
<1>1. n \in Nat /\ DOMAIN p.rows = 1 .. n
  BY ProblemLists
<1>2. \A k \in 1 .. n : k \in 1 .. Len(AllRows(p)) /\ AllRows(p)[k] = p.rows[k] /\ ProperBounds(b(k))
  <2> TAKE k \in 1 .. n
  <2>1. /\ Len(AllRows(p)) = n + Len(p.extra) /\ Len(p.extra) \in Nat
        /\ \A i \in 1 .. Len(AllRows(p)) : ProperBounds(AllRows(p)[i].bounds)
    BY ProblemLists, RowsListed
  <2>2. AllRows(p)[k] = p.rows[k]
    BY RowsListed
  <2>3. k \in 1 .. Len(AllRows(p))
    <3> DEFINE m == Len(p.extra)
               l == Len(AllRows(p))
    <3>1. n \in Nat /\ m \in Nat /\ l = n + m /\ k \in 1 .. n
      BY <1>1, <2>1
    <3> HIDE DEF n, m, l
    <3>2. k \in 1 .. l
      BY <3>1
    <3> QED
      BY <3>2 DEF l
  <2> QED
    BY <2>1, <2>2, <2>3
<1>3. \A k \in 1 .. n :
        /\ IsList(q(k))
        /\ \A a \in ToSet(q(k)) : \A s \in DOMAIN a :
             \E e \in Ends : s = <<"row", k, e>> /\ a[s] = b(k)[e] /\ IsFinite(b(k)[e])
        /\ ~Grouped(p, o(k)) =>
             \A e \in Ends : IsFinite(b(k)[e]) => \E a \in ToSet(q(k)) : <<"row", k, e>> \in DOMAIN a
  <2> TAKE k \in 1 .. n
  <2>1. ProperBounds(b(k))
    BY <1>2
  <2> HIDE DEF b, o
  <2> QED
    BY <2>1, EntityAtomsMembers
<1>4. RowAtoms(p) = FlattenSeq(seqs)
  BY DEF RowAtoms
<1>5. seqs = [k \in 1 .. n |-> seqs[k]] /\ \A k \in 1 .. n : seqs[k] = q(k)
  BY <1>1
<1> HIDE DEF q, seqs, n, b, o
<1>6. IsList(RowAtoms(p)) /\ \A a : a \in ToSet(RowAtoms(p)) <=> \E k \in 1 .. n : a \in ToSet(q(k))
  <2>1. \A k \in 1 .. n : IsList(seqs[k])
    BY <1>3, <1>5
  <2>2. IsList(FlattenSeq(seqs)) /\ \A a : a \in ToSet(FlattenSeq(seqs)) <=> \E k \in 1 .. n : a \in ToSet(seqs[k])
    BY <1>1, <1>5, <2>1, Flattened
  <2> QED
    BY <1>4, <1>5, <2>2
<1>7. ASSUME NEW a \in ToSet(RowAtoms(p)), NEW s \in DOMAIN a
      PROVE  s \in Sides(p) /\ a[s] = Under(p, s) /\ IsFinite(a[s])
  <2>1. PICK k \in 1 .. n : a \in ToSet(q(k))
    BY <1>6
  <2>2. PICK e \in Ends : s = <<"row", k, e>> /\ a[s] = b(k)[e] /\ IsFinite(b(k)[e])
    BY <1>3, <2>1
  <2>3. s \in Sides(p)
    BY <1>2, <2>2, SideMade
  <2>4. Under(p, s) = b(k)[e]
    BY <1>2, <2>2 DEF Under, b
  <2> QED
    BY <2>2, <2>3, <2>4
<1>8. ASSUME NEW k \in 1 .. n, NEW e \in Ends, ~Grouped(p, o(k)), IsFinite(b(k)[e])
      PROVE  SetBy(RowAtoms(p), <<"row", k, e>>)
  <2>1. PICK a \in ToSet(q(k)) : <<"row", k, e>> \in DOMAIN a
    BY <1>3, <1>8
  <2>2. a \in ToSet(RowAtoms(p))
    BY <1>6
  <2> QED
    BY <2>1, <2>2 DEF SetBy
<1>9. \A a \in ToSet(RowAtoms(p)) : OfLayer(p, a)
  BY <1>7 DEF OfLayer
<1> QED
  BY <1>6, <1>8, <1>9 DEF n, o, b

\* The atoms of the columns are of the bounds below the fixings, likewise.
LEMMA ColumnAtomsMembers ==
    ASSUME NEW p, ProperProblem(p), Exact(p)
    PROVE  /\ IsList(ColumnAtoms(p))
           /\ \A a \in ToSet(ColumnAtoms(p)) : OfLayer(p, a)
           /\ \A k \in 1 .. Len(p.columns), e \in Ends :
                ~Grouped(p, p.columns[k].origin) /\ IsFinite(LowerLayer(p.columns[k])[e])
                  => SetBy(ColumnAtoms(p), <<"column", k, e>>)
<1> DEFINE n == Len(p.columns)
           b(k) == LowerLayer(p.columns[k])
           o(k) == p.columns[k].origin
           q(k) == EntityAtoms(p, "column", k, b(k), o(k))
           seqs == [k \in DOMAIN p.columns |-> q(k)]
<1>1. n \in Nat /\ DOMAIN p.columns = 1 .. n
  BY ProblemLists
<1>2. \A k \in 1 .. n : ProperBounds(b(k))
  <2> TAKE k \in 1 .. n
  <2>1. ProperColumn(p.columns[k]) /\ (p.columns[k].fixing # {} => p.columns[k].active)
    BY ProblemLists DEF Exact
  <2> QED
    BY <2>1, ColumnBounds
<1>3. \A k \in 1 .. n :
        /\ IsList(q(k))
        /\ \A a \in ToSet(q(k)) : \A s \in DOMAIN a :
             \E e \in Ends : s = <<"column", k, e>> /\ a[s] = b(k)[e] /\ IsFinite(b(k)[e])
        /\ ~Grouped(p, o(k)) =>
             \A e \in Ends : IsFinite(b(k)[e]) => \E a \in ToSet(q(k)) : <<"column", k, e>> \in DOMAIN a
  <2> TAKE k \in 1 .. n
  <2>1. ProperBounds(b(k))
    BY <1>2
  <2> HIDE DEF b, o
  <2> QED
    BY <2>1, EntityAtomsMembers
<1>4. ColumnAtoms(p) = FlattenSeq(seqs)
  BY DEF ColumnAtoms
<1>5. seqs = [k \in 1 .. n |-> seqs[k]] /\ \A k \in 1 .. n : seqs[k] = q(k)
  BY <1>1
<1> HIDE DEF q, seqs, b, o
<1>6. IsList(ColumnAtoms(p)) /\ \A a : a \in ToSet(ColumnAtoms(p)) <=> \E k \in 1 .. n : a \in ToSet(q(k))
  <2>1. \A k \in 1 .. n : IsList(seqs[k])
    BY <1>3, <1>5
  <2>2. IsList(FlattenSeq(seqs)) /\ \A a : a \in ToSet(FlattenSeq(seqs)) <=> \E k \in 1 .. n : a \in ToSet(seqs[k])
    <3> HIDE DEF n
    <3> QED
      BY <1>1, <1>5, <2>1, Flattened
  <2> QED
    BY <1>4, <1>5, <2>2
<1>7. ASSUME NEW a \in ToSet(ColumnAtoms(p)), NEW s \in DOMAIN a
      PROVE  s \in Sides(p) /\ a[s] = Under(p, s) /\ IsFinite(a[s])
  <2>1. PICK k \in 1 .. n : a \in ToSet(q(k))
    BY <1>6
  <2>2. PICK e \in Ends : s = <<"column", k, e>> /\ a[s] = b(k)[e] /\ IsFinite(b(k)[e])
    BY <1>3, <2>1
  <2>3. s \in Sides(p)
    BY <2>2, SideMade
  <2>4. Under(p, s) = b(k)[e]
    BY <2>2 DEF Under, b
  <2> QED
    BY <2>2, <2>3, <2>4
<1>8. ASSUME NEW k \in 1 .. n, NEW e \in Ends, ~Grouped(p, o(k)), IsFinite(b(k)[e])
      PROVE  SetBy(ColumnAtoms(p), <<"column", k, e>>)
  <2>1. PICK a \in ToSet(q(k)) : <<"column", k, e>> \in DOMAIN a
    BY <1>3, <1>8
  <2>2. a \in ToSet(ColumnAtoms(p))
    BY <1>6
  <2> QED
    BY <2>1, <2>2 DEF SetBy
<1>9. \A a \in ToSet(ColumnAtoms(p)) : OfLayer(p, a)
  BY <1>7 DEF OfLayer
<1> QED
  BY <1>6, <1>8, <1>9 DEF o, b

\* The atoms of the constructs are of the compiled model and take up what was grouped.
LEMMA ConstructAtomsMembers ==
    ASSUME NEW p, ProperProblem(p)
    PROVE  /\ IsList(ConstructAtoms(p))
           /\ \A a \in ToSet(ConstructAtoms(p)) : OfModel(p, a)
           /\ \A k \in 1 .. Len(p.rows) : \A s \in SidesOf(p, p.rows[k].origin) :
                Grouped(p, p.rows[k].origin) => SetBy(ConstructAtoms(p), s)
           /\ \A k \in 1 .. Len(p.columns) : \A s \in SidesOf(p, p.columns[k].origin) :
                Grouped(p, p.columns[k].origin) => SetBy(ConstructAtoms(p), s)
<1> DEFINE n == Len(Entities(p))
           o(i) == Entities(p)[i].origin
           y(i) == [s \in SidesOf(p, o(i)) |-> CompiledState(p)[s]]
           q(i) == IF ~FirstOfOrigin(p, i) THEN <<>> ELSE <<y(i)>>
           seqs == [i \in DOMAIN Entities(p) |-> q(i)]
<1>1. /\ IsList(p.rows) /\ IsList(p.columns) /\ Len(p.rows) \in Nat /\ Len(p.columns) \in Nat
  BY ProblemLists
<1>2. Entities(p) = Joined(p.rows, p.columns)
  BY DEF Entities, Joined
<1>3. n \in Nat /\ DOMAIN Entities(p) = 1 .. n
  <2>1. IsList(Entities(p))
    BY <1>1, <1>2, JoinedList, Zenon
  <2> QED
    BY <2>1, ListFacts
<1>4. /\ n = Len(p.rows) + Len(p.columns)
      /\ \A k \in 1 .. Len(p.rows) : o(k) = p.rows[k].origin
      /\ \A k \in 1 .. Len(p.columns) : o(Len(p.rows) + k) = p.columns[k].origin
  <2> DEFINE a == p.rows
             c == p.columns
             z == Entities(p)
  <2>0. IsList(a) /\ IsList(c) /\ z = Joined(a, c)
    BY <1>1, <1>2
  <2> HIDE DEF a, c, z
  <2>1. Len(z) = Len(a) + Len(c)
    BY <2>0, Added
  <2>2. \A k \in 1 .. Len(a) : z[k] = a[k]
    BY <2>0, Added
  <2>3. \A k \in 1 .. Len(c) : z[Len(a) + k] = c[k]
    BY <2>0, Added
  <2> QED
    BY <2>1, <2>2, <2>3 DEF a, c, z
<1>5. CASE p.grouping = "Individual"
  <2>1. ConstructAtoms(p) = <<>>
    BY <1>5 DEF ConstructAtoms
  <2>2. \A origin : ~Grouped(p, origin)
    BY <1>5 DEF Grouped
  <2> QED
    BY <2>1, <2>2, EmptyList
<1>6. CASE p.grouping # "Individual"
  <2>1. ConstructAtoms(p) = FlattenSeq(seqs)
    BY <1>6 DEF ConstructAtoms
  <2>2. seqs = [k \in 1 .. n |-> seqs[k]] /\ \A k \in 1 .. n : seqs[k] = q(k)
    BY <1>3
  <2>3. \A i \in 1 .. n : IsList(q(i)) /\ \A a : a \in ToSet(q(i)) <=> FirstOfOrigin(p, i) /\ a = y(i)
    <3> HIDE DEF y
    <3> QED
      BY EmptyList, SingleList
  <2> HIDE DEF q, seqs, n, y, o
  <2>4. IsList(ConstructAtoms(p)) /\ \A a : a \in ToSet(ConstructAtoms(p)) <=> \E k \in 1 .. n : a \in ToSet(q(k))
    <3>1. \A k \in 1 .. n : IsList(seqs[k])
      BY <2>2, <2>3
    <3>2. IsList(FlattenSeq(seqs)) /\ \A a : a \in ToSet(FlattenSeq(seqs)) <=> \E k \in 1 .. n : a \in ToSet(seqs[k])
      BY <1>3, <2>2, <3>1, Flattened
    <3> QED
      BY <2>1, <2>2, <3>2
  <2>5. ASSUME NEW i \in 1 .. n PROVE OfModel(p, y(i)) /\ DOMAIN y(i) = SidesOf(p, o(i))
    BY DEF OfModel, y, SidesOf
  <2>6. ASSUME NEW a \in ToSet(ConstructAtoms(p)) PROVE OfModel(p, a)
    <3>1. PICK i \in 1 .. n : a = y(i)
      BY <2>3, <2>4
    <3> QED
      BY <2>5, <3>1
  <2>7. ASSUME NEW i \in 1 .. n, NEW s \in SidesOf(p, o(i)), Grouped(p, o(i)) PROVE SetBy(ConstructAtoms(p), s)
    <3> DEFINE same == {j \in 1 .. n : o(j) = o(i)}
    <3>1. same \in SUBSET Nat /\ same # {}
      BY <1>3
    <3>2. PICK j \in same : \A m \in same : j <= m
      <4> HIDE DEF same
      <4> QED
        BY <3>1, LeastOfNumbers
    <3>3. FirstOfOrigin(p, j)
      <4>1. o(j) # "user"
        BY <2>7, <3>2 DEF Grouped
      <4>2. ASSUME NEW m \in 1 .. (j - 1) PROVE o(m) # o(j)
        <5>1. m \in 1 .. n /\ ~(j <= m)
          BY <1>3, <3>2
        <5> QED
          BY <3>2, <5>1
      <4> QED
        BY <4>1, <4>2 DEF FirstOfOrigin, o
    <3>4. y(j) \in ToSet(ConstructAtoms(p)) /\ s \in DOMAIN y(j)
      BY <2>3, <2>4, <2>5, <3>2, <3>3
    <3> QED
      BY <3>4 DEF SetBy
  <2>8. /\ \A k \in 1 .. Len(p.rows) : k \in 1 .. n
        /\ \A k \in 1 .. Len(p.columns) : Len(p.rows) + k \in 1 .. n
    <3> DEFINE r == Len(p.rows)
               c == Len(p.columns)
    <3>1. r \in Nat /\ c \in Nat /\ n = r + c
      BY <1>1, <1>4
    <3> HIDE DEF r, c
    <3>2. (\A k \in 1 .. r : k \in 1 .. n) /\ (\A k \in 1 .. c : r + k \in 1 .. n)
      BY <3>1
    <3> QED
      BY <3>2 DEF r, c
  <2>10. \A k \in 1 .. Len(p.rows) : \A s \in SidesOf(p, p.rows[k].origin) :
           Grouped(p, p.rows[k].origin) => SetBy(ConstructAtoms(p), s)
    BY <1>4, <2>7, <2>8 DEF o
  <2>11. \A k \in 1 .. Len(p.columns) : \A s \in SidesOf(p, p.columns[k].origin) :
           Grouped(p, p.columns[k].origin) => SetBy(ConstructAtoms(p), s)
    BY <1>4, <2>7, <2>8 DEF o
  <2> QED
    BY <2>4, <2>6, <2>10, <2>11
<1> QED
  BY <1>5, <1>6

\* Both sides of a column at one value.
LEMMA BothSidesMembers ==
    ASSUME NEW k, NEW x
    PROVE  /\ \A s \in DOMAIN BothSides("column", k, Exactly(x)) :
                \E e \in Ends : s = <<"column", k, e>> /\ BothSides("column", k, Exactly(x))[s] = x
           /\ \A e \in Ends : <<"column", k, e>> \in DOMAIN BothSides("column", k, Exactly(x))
BY DEF BothSides, Exactly, Span, Ends

\* What both sides of a column are set to is what it is compiled to, if that is the value.
LEMMA BothSidesOfModel ==
    ASSUME NEW p, NEW k \in 1 .. Len(p.columns), NEW x, IsFinite(x),
           Overlaid(p, k).lower = x, Overlaid(p, k).upper = x
    PROVE  OfModel(p, BothSides("column", k, Exactly(x)))
<1> DEFINE y == BothSides("column", k, Exactly(x))
<1>1. ASSUME NEW s \in DOMAIN y
      PROVE  s \in Sides(p) /\ y[s] = CompiledState(p)[s] /\ IsFinite(y[s])
  <2>1. PICK e \in Ends : s = <<"column", k, e>> /\ y[s] = x
    BY BothSidesMembers
  <2>2. s \in Sides(p)
    BY <2>1, SideMade
  <2>3. CompiledState(p)[s] = Overlaid(p, k)[e]
    BY <2>1, <2>2 DEF CompiledState
  <2>4. Overlaid(p, k)[e] = x
    BY DEF Ends
  <2> QED
    BY <2>1, <2>2, <2>3, <2>4
<1> HIDE DEF y
<1>2. OfModel(p, y)
  BY <1>1 DEF OfModel
<1> QED
  BY <1>2 DEF y

\* The atoms of the fixings are of the compiled model, as inactive columns are not fixed.
LEMMA FixingAtomsMembers ==
    ASSUME NEW p, ProperProblem(p), Exact(p)
    PROVE  /\ IsList(FixingAtoms(p))
           /\ \A a \in ToSet(FixingAtoms(p)) : OfModel(p, a)
           /\ \A k \in 1 .. Len(p.columns), e \in Ends :
                p.columns[k].fixing # {} => SetBy(FixingAtoms(p), <<"column", k, e>>)
<1> DEFINE n == Len(p.columns)
           f(k) == CHOOSE g \in p.columns[k].fixing : TRUE
           y(k) == BothSides("column", k, Exactly(f(k)))
           q(k) == IF p.columns[k].fixing = {} THEN <<>> ELSE <<y(k)>>
           seqs == [k \in DOMAIN p.columns |-> q(k)]
<1>1. n \in Nat /\ DOMAIN p.columns = 1 .. n
  BY ProblemLists
<1>2. FixingAtoms(p) = FlattenSeq(seqs)
  BY DEF FixingAtoms
<1>3. seqs = [k \in 1 .. n |-> seqs[k]] /\ \A k \in 1 .. n : seqs[k] = q(k)
  BY <1>1
<1>4. \A k \in 1 .. n : IsList(q(k)) /\ \A a : a \in ToSet(q(k)) <=> p.columns[k].fixing # {} /\ a = y(k)
  <2> HIDE DEF y, n
  <2> QED
    BY EmptyList, SingleList
<1>5. ASSUME NEW k \in 1 .. n, p.columns[k].fixing # {} PROVE OfModel(p, y(k))
  <2> DEFINE c == p.columns[k]
  <2>1. ProperColumn(c) /\ c.active
    BY <1>5, ProblemLists DEF Exact
  <2>2. f(k) \in Int /\ IsFinite(f(k))
    BY <1>5, <2>1, FixedColumn
  <2>3. BaseColumn(c) = Exactly(f(k))
    BY <1>5, <2>1, ColumnBounds
  <2>4. BaseColumn(c).lower = f(k) /\ BaseColumn(c).upper = f(k)
    BY <2>3 DEF Exactly, Span
  <2> DEFINE b == Overlaid(p, k)
  <2>5. /\ BaseColumn(c).lower <= b.lower /\ b.upper <= BaseColumn(c).upper
        /\ Restrictions(p, k) = {} => b.lower = BaseColumn(c).lower /\ b.upper = BaseColumn(c).upper
        /\ \A r \in Restrictions(p, k) : r.value \in Int /\ b.lower = r.value /\ b.upper = r.value
    BY OverlaidColumn
  <2> HIDE DEF b, c, f
  <2>6. b.lower = f(k) /\ b.upper = f(k)
    <3>1. CASE Restrictions(p, k) = {}
      BY <2>4, <2>5, <3>1
    <3>2. CASE Restrictions(p, k) # {}
      <4>1. PICK r \in Restrictions(p, k) : TRUE
        BY <3>2
      <4> QED
        BY <2>2, <2>4, <2>5, <4>1
    <3> QED
      BY <3>1, <3>2
  <2> QED
    BY <2>2, <2>6, BothSidesOfModel DEF b
<1> HIDE DEF q, seqs, n
<1>6. IsList(FixingAtoms(p)) /\ \A a : a \in ToSet(FixingAtoms(p)) <=> \E k \in 1 .. n : a \in ToSet(q(k))
  <2>1. \A k \in 1 .. n : IsList(seqs[k])
    BY <1>3, <1>4
  <2>2. IsList(FlattenSeq(seqs)) /\ \A a : a \in ToSet(FlattenSeq(seqs)) <=> \E k \in 1 .. n : a \in ToSet(seqs[k])
    BY <1>1, <1>3, <2>1, Flattened
  <2> QED
    BY <1>2, <1>3, <2>2
<1>7. ASSUME NEW a \in ToSet(FixingAtoms(p)) PROVE OfModel(p, a)
  <2> HIDE DEF y
  <2>1. PICK k \in 1 .. n : p.columns[k].fixing # {} /\ a = y(k)
    BY <1>4, <1>6
  <2> QED
    BY <1>5, <2>1
<1>8. ASSUME NEW k \in 1 .. n, NEW e \in Ends, p.columns[k].fixing # {}
      PROVE  SetBy(FixingAtoms(p), <<"column", k, e>>)
  <2>1. <<"column", k, e>> \in DOMAIN y(k)
    BY BothSidesMembers
  <2> HIDE DEF y
  <2>2. y(k) \in ToSet(FixingAtoms(p))
    BY <1>4, <1>6, <1>8
  <2> QED
    BY <2>1, <2>2 DEF SetBy
<1> QED
  BY <1>6, <1>7, <1>8 DEF n

\* The atoms of an overlay's fixings and locks are of the compiled model, as no lock has a band.
LEMMA RestrictionAtomsMembers ==
    ASSUME NEW p, ProperProblem(p), Exact(p), NEW rs, rs = p.fixings \/ rs = p.locks
    PROVE  /\ IsList(RestrictionAtoms(rs))
           /\ \A a \in ToSet(RestrictionAtoms(rs)) : OfModel(p, a)
           /\ \A r \in ToSet(rs), e \in Ends : SetBy(RestrictionAtoms(rs), <<"column", r.of, e>>)
<1> DEFINE n == Len(rs)
           y(r) == BothSides("column", r.of, Exactly(r.value))
           q == RestrictionAtoms(rs)
<1>1. IsList(rs)
  BY ProblemLists
<1>2. n \in Nat /\ DOMAIN rs = 1 .. n /\ \A r : r \in ToSet(rs) <=> \E i \in 1 .. n : rs[i] = r
  BY <1>1, ListFacts
<1>3. q = [i \in 1 .. n |-> q[i]] /\ \A i \in 1 .. n : q[i] = y(rs[i])
  BY <1>2 DEF RestrictionAtoms
<1> HIDE DEF q, n, y
<1>4. IsList(q) /\ \A a : a \in ToSet(q) <=> \E i \in 1 .. n : a = q[i]
  <2>1. IsList(q) /\ Len(q) = n
    BY <1>2, <1>3, MakeList
  <2> QED
    BY <2>1, ListFacts
<1>5. ASSUME NEW a \in ToSet(q) PROVE OfModel(p, a)
  <2>1. PICK i \in 1 .. n : a = y(rs[i])
    BY <1>3, <1>4
  <2>2. PICK r : r = rs[i] /\ r \in ToSet(rs)
    BY <1>2
  <2>3. r \in ToSet(p.fixings) \cup ToSet(p.locks)
    BY <2>2
  <2>4. r.of \in 1 .. Len(p.columns) /\ r \in Restrictions(p, r.of)
    BY <2>3, ProblemLists DEF ProperProblem, Restrictions
  <2>5. IsFinite(r.value) /\ Overlaid(p, r.of).lower = r.value /\ Overlaid(p, r.of).upper = r.value
    BY <2>4, OverlaidColumn
  <2>6. OfModel(p, y(r))
    BY <2>4, <2>5, BothSidesOfModel DEF y
  <2> QED
    BY <2>1, <2>2, <2>6
<1>6. ASSUME NEW r \in ToSet(rs), NEW e \in Ends PROVE SetBy(q, <<"column", r.of, e>>)
  <2>1. PICK i \in 1 .. n : rs[i] = r
    BY <1>2
  <2>2. y(r) \in ToSet(q)
    BY <1>3, <1>4, <2>1
  <2>3. <<"column", r.of, e>> \in DOMAIN y(r)
    BY BothSidesMembers DEF y
  <2> QED
    BY <2>2, <2>3 DEF SetBy
<1> QED
  BY <1>4, <1>5, <1>6 DEF q

ExtraAtoms(p) == FlattenSeq([k \in DOMAIN p.extra |-> SideAtoms("row", Len(p.rows) + k, p.extra[k].bounds)])

\* So are those of an overlay's rows.
LEMMA ExtraAtomsMembers ==
    ASSUME NEW p, ProperProblem(p)
    PROVE  /\ IsList(ExtraAtoms(p))
           /\ \A a \in ToSet(ExtraAtoms(p)) : OfModel(p, a)
           /\ \A k \in 1 .. Len(p.extra), e \in Ends :
                IsFinite(p.extra[k].bounds[e]) => SetBy(ExtraAtoms(p), <<"row", Len(p.rows) + k, e>>)
<1> DEFINE n == Len(p.extra)
           m == Len(p.rows)
           b(k) == p.extra[k].bounds
           q(k) == SideAtoms("row", m + k, b(k))
           seqs == [k \in DOMAIN p.extra |-> q(k)]
<1>1. n \in Nat /\ m \in Nat /\ DOMAIN p.extra = 1 .. n
  BY ProblemLists
<1>2. Len(AllRows(p)) = m + n /\ \A k \in 1 .. n : AllRows(p)[m + k] = p.extra[k]
  BY RowsListed
<1>3. \A k \in 1 .. n : IsList(q(k))
  <2> HIDE DEF b, m
  <2> QED
    BY SideAtomsMembers
<1>a. \A k \in 1 .. n : \A a : a \in ToSet(q(k)) <=>
            \E e \in Ends : IsFinite(b(k)[e]) /\ a = SideAtom(<<"row", m + k, e>>, b(k)[e])
  <2> HIDE DEF b, m
  <2> QED
    BY SideAtomsMembers
<1>4. ExtraAtoms(p) = FlattenSeq(seqs)
  BY DEF ExtraAtoms
<1>5. seqs = [k \in 1 .. n |-> seqs[k]] /\ \A k \in 1 .. n : seqs[k] = q(k)
  BY <1>1
<1> HIDE DEF q, seqs, n, b, m
<1>6. IsList(ExtraAtoms(p)) /\ \A a : a \in ToSet(ExtraAtoms(p)) <=> \E k \in 1 .. n : a \in ToSet(q(k))
  <2>1. \A k \in 1 .. n : IsList(seqs[k])
    BY <1>3, <1>5
  <2>2. IsList(FlattenSeq(seqs)) /\ \A a : a \in ToSet(FlattenSeq(seqs)) <=> \E k \in 1 .. n : a \in ToSet(seqs[k])
    BY <1>1, <1>5, <2>1, Flattened
  <2> QED
    BY <1>4, <1>5, <2>2
<1>7. ASSUME NEW a \in ToSet(ExtraAtoms(p)), NEW s \in DOMAIN a
      PROVE  s \in Sides(p) /\ a[s] = CompiledState(p)[s] /\ IsFinite(a[s])
  <2>1. PICK k \in 1 .. n : a \in ToSet(q(k))
    BY <1>6
  <2>2. PICK e \in Ends : IsFinite(b(k)[e]) /\ a = SideAtom(<<"row", m + k, e>>, b(k)[e])
    BY <1>a, <2>1
  <2>3. s = <<"row", m + k, e>> /\ a[s] = b(k)[e]
    BY <2>2 DEF SideAtom
  <2>4. m + k \in 1 .. Len(AllRows(p))
    BY <1>1, <1>2
  <2>5. s \in Sides(p)
    BY <2>3, <2>4, SideMade
  <2>6. CompiledState(p)[s] = AllRows(p)[m + k].bounds[e]
    BY <2>3, <2>5 DEF CompiledState
  <2> QED
    BY <1>2, <2>2, <2>3, <2>5, <2>6 DEF b
<1>8. ASSUME NEW k \in 1 .. n, NEW e \in Ends, IsFinite(b(k)[e])
      PROVE  SetBy(ExtraAtoms(p), <<"row", m + k, e>>)
  <2> DEFINE a == SideAtom(<<"row", m + k, e>>, b(k)[e])
  <2>1. a \in ToSet(q(k))
    BY <1>a, <1>8
  <2>2. <<"row", m + k, e>> \in DOMAIN a
    BY DEF SideAtom
  <2> HIDE DEF a
  <2>3. a \in ToSet(ExtraAtoms(p))
    BY <1>6, <2>1
  <2> QED
    BY <2>2, <2>3 DEF SetBy
<1>9. \A a \in ToSet(ExtraAtoms(p)) : OfModel(p, a)
  BY <1>7 DEF OfModel
<1> QED
  BY <1>6, <1>8, <1>9 DEF n, m, b

\* Joined lists set what one of them sets.
LEMMA SetByJoined ==
    ASSUME NEW x, IsList(x), NEW y, IsList(y), NEW s, SetBy(x, s) \/ SetBy(y, s)
    PROVE  SetBy(Joined(x, y), s)
BY Added DEF SetBy

\* Together they set whatever the overlay decides.
LEMMA OverlayAtomsMembers ==
    ASSUME NEW p, ProperProblem(p), Exact(p)
    PROVE  /\ IsList(OverlayAtoms(p))
           /\ \A a \in ToSet(OverlayAtoms(p)) : OfModel(p, a)
           /\ \A k \in 1 .. Len(p.extra), e \in Ends :
                IsFinite(p.extra[k].bounds[e]) => SetBy(OverlayAtoms(p), <<"row", Len(p.rows) + k, e>>)
           /\ \A k \in 1 .. Len(p.columns), e \in Ends :
                Restrictions(p, k) # {} => SetBy(OverlayAtoms(p), <<"column", k, e>>)
<1> DEFINE x == ExtraAtoms(p)
           f == RestrictionAtoms(p.fixings)
           l == RestrictionAtoms(p.locks)
           xf == Joined(x, f)
<1>1. OverlayAtoms(p) = Joined(xf, l)
  BY DEF OverlayAtoms, Joined, ExtraAtoms
<1>2. IsList(x) /\ IsList(f) /\ IsList(l)
  BY ExtraAtomsMembers, RestrictionAtomsMembers
<1>3. /\ \A a \in ToSet(x) : OfModel(p, a)
      /\ \A a \in ToSet(f) : OfModel(p, a)
      /\ \A a \in ToSet(l) : OfModel(p, a)
  BY ExtraAtomsMembers, RestrictionAtomsMembers
<1>4. /\ \A k \in 1 .. Len(p.extra), e \in Ends :
           IsFinite(p.extra[k].bounds[e]) => SetBy(x, <<"row", Len(p.rows) + k, e>>)
      /\ \A r \in ToSet(p.fixings), e \in Ends : SetBy(f, <<"column", r.of, e>>)
      /\ \A r \in ToSet(p.locks), e \in Ends : SetBy(l, <<"column", r.of, e>>)
  BY ExtraAtomsMembers, RestrictionAtomsMembers
<1> HIDE DEF x, f, l
<1>5. IsList(xf) /\ \A a : a \in ToSet(xf) <=> a \in ToSet(x) \/ a \in ToSet(f)
  BY <1>2, JoinedList, Added
<1>6. \A s : SetBy(x, s) \/ SetBy(f, s) => SetBy(xf, s)
  BY <1>2, SetByJoined
<1> HIDE DEF xf
<1>7. IsList(Joined(xf, l))
  BY <1>2, <1>5, JoinedList
<1>8. \A a : a \in ToSet(Joined(xf, l)) <=> a \in ToSet(xf) \/ a \in ToSet(l)
  BY <1>2, <1>5, Added
<1>9. \A s : SetBy(xf, s) \/ SetBy(l, s) => SetBy(OverlayAtoms(p), s)
  BY <1>1, <1>2, <1>5, SetByJoined
<1>10. ASSUME NEW k \in 1 .. Len(p.columns), NEW e \in Ends, Restrictions(p, k) # {}
       PROVE  SetBy(OverlayAtoms(p), <<"column", k, e>>)
  <2>1. PICK r \in ToSet(p.fixings) \cup ToSet(p.locks) : r.of = k
    BY <1>10 DEF Restrictions
  <2> QED
    BY <1>4, <1>6, <1>9, <2>1
<1>11. \A a \in ToSet(OverlayAtoms(p)) : OfModel(p, a)
  BY <1>1, <1>3, <1>5, <1>8
<1>12. \A k \in 1 .. Len(p.extra), e \in Ends :
         IsFinite(p.extra[k].bounds[e]) => SetBy(OverlayAtoms(p), <<"row", Len(p.rows) + k, e>>)
  BY <1>4, <1>6, <1>9
<1> QED
  BY <1>1, <1>7, <1>10, <1>11, <1>12

-----------------------------------------------------------------------------
(* The universe in its order                                               *)

\* Atoms of the model cover what is below them, and nothing below follows on them.
Ordered(p, q) ==
    /\ IsList(q)
    /\ \A i \in 1 .. Len(q) : OfLayer(p, q[i]) \/ OfModel(p, q[i])
    /\ \A i, j \in 1 .. Len(q) : i < j /\ ~OfModel(p, q[j]) => OfLayer(p, q[i])

\* Atoms of the model may follow.
LEMMA OrderedExtends ==
    ASSUME NEW p, NEW x, Ordered(p, x), NEW y, IsList(y), \A a \in ToSet(y) : OfModel(p, a)
    PROVE  Ordered(p, Joined(x, y))
<1> DEFINE z == Joined(x, y)
<1>1. IsList(z)
  BY JoinedList DEF Ordered
<1>2. /\ Len(z) = Len(x) + Len(y) /\ Len(x) \in Nat /\ Len(y) \in Nat
      /\ \A i \in 1 .. Len(x) : z[i] = x[i]
      /\ \A i \in (Len(x) + 1) .. Len(z) : z[i] \in ToSet(y)
  BY Added DEF Ordered
<1> HIDE DEF z
<1> DEFINE m == Len(x)
           n == Len(z)
<1>3. m \in Nat /\ n \in Nat /\ m <= n
  BY <1>2
<1>4. \A i \in 1 .. m : z[i] = x[i] /\ i \in 1 .. Len(x)
  BY <1>2
<1>5. \A i \in (m + 1) .. n : OfModel(p, z[i])
  BY <1>2
<1>6. \A i \in 1 .. m : OfLayer(p, x[i]) \/ OfModel(p, x[i])
  BY DEF Ordered
<1>7. \A i, j \in 1 .. m : i < j /\ ~OfModel(p, x[j]) => OfLayer(p, x[i])
  BY DEF Ordered
<1> HIDE DEF m, n
<1>8. \A i \in 1 .. n : i \in 1 .. m \/ i \in (m + 1) .. n
  BY <1>3
<1>9. \A i \in 1 .. n : OfLayer(p, z[i]) \/ OfModel(p, z[i])
  BY <1>4, <1>5, <1>6, <1>8
<1>10. ASSUME NEW i \in 1 .. n, NEW j \in 1 .. n, i < j, ~OfModel(p, z[j]) PROVE OfLayer(p, z[i])
  <2>1. j \in 1 .. m
    BY <1>5, <1>8, <1>10
  <2>2. i \in 1 .. m
    BY <1>3, <1>10, <2>1
  <2> QED
    BY <1>4, <1>7, <1>10, <2>1, <2>2
<1> QED
  BY <1>1, <1>9, <1>10 DEF Ordered, n, z

\* Every finite side of the compiled model is the value some atom sets it to, an atom
\* that is covered sets a looser one, and covering atoms agree.
LEMMA UniverseShape ==
    ASSUME NEW p, ProperProblem(p), Exact(p)
    PROVE  /\ Ordered(p, UniverseOf(p))
           /\ \A s \in Sides(p) : IsFinite(CompiledState(p)[s]) =>
                \E i \in 1 .. Len(UniverseOf(p)) :
                    s \in DOMAIN UniverseOf(p)[i] /\ UniverseOf(p)[i][s] = CompiledState(p)[s]
<1> DEFINE R == RowAtoms(p)
           C == ColumnAtoms(p)
           K == ConstructAtoms(p)
           F == FixingAtoms(p)
           O == OverlayAtoms(p)
           x1 == Joined(R, C)
           x2 == Joined(x1, K)
           x3 == Joined(x2, F)
           x4 == Joined(x3, O)
<1>1. UniverseOf(p) = x4
  BY DEF UniverseOf, Joined
<1>2. IsList(R) /\ IsList(C) /\ IsList(K) /\ IsList(F) /\ IsList(O)
  BY RowAtomsMembers, ColumnAtomsMembers, ConstructAtomsMembers, FixingAtomsMembers, OverlayAtomsMembers
<1>3. (\A a \in ToSet(R) : OfLayer(p, a)) /\ (\A a \in ToSet(C) : OfLayer(p, a))
  BY RowAtomsMembers, ColumnAtomsMembers
<1>4. /\ \A a \in ToSet(K) : OfModel(p, a)
      /\ \A a \in ToSet(F) : OfModel(p, a)
      /\ \A a \in ToSet(O) : OfModel(p, a)
  BY ConstructAtomsMembers, FixingAtomsMembers, OverlayAtomsMembers
<1>5. ASSUME NEW s \in Sides(p), IsFinite(CompiledState(p)[s])
      PROVE  \/ SetBy(K, s) \/ SetBy(F, s) \/ SetBy(O, s)
             \/ (SetBy(R, s) \/ SetBy(C, s)) /\ Under(p, s) = CompiledState(p)[s]
  <2> DEFINE c == CompiledState(p)[s]
  <2>1. s = <<s[1], s[2], s[3]>> /\ s[3] \in Ends
    BY SideShape
  <2>2. c = IF s[1] = "row" THEN AllRows(p)[s[2]].bounds[s[3]] ELSE Overlaid(p, s[2])[s[3]]
    BY DEF CompiledState
  <2>3. CASE s[1] = "row"
    <3>1. s[2] \in 1 .. Len(AllRows(p)) /\ Under(p, s) = c
      BY <2>2, <2>3, SideShape DEF Under
    <3> DEFINE n == Len(p.rows)
               m == Len(p.extra)
               l == Len(AllRows(p))
    <3>2. n \in Nat /\ m \in Nat /\ l = n + m
      BY ProblemLists, RowsListed
    <3> HIDE DEF n, m, l, R, K, O, C, F
    <3>3. s[2] \in 1 .. n \/ (s[2] - n \in 1 .. m /\ s[2] = n + (s[2] - n))
      BY <3>1, <3>2 DEF l
    <3>4. CASE s[2] \in 1 .. n
      <4> DEFINE k == s[2]
                 o == p.rows[k].origin
      <4>1. AllRows(p)[k] = p.rows[k]
        BY <3>4, RowsListed DEF n
      <4>2. c = p.rows[k].bounds[s[3]]
        BY <2>2, <2>3, <4>1
      <4>3. CASE ~Grouped(p, o)
        <5>1. SetBy(R, <<"row", k, s[3]>>)
          BY <1>5, <2>1, <3>4, <4>2, <4>3, RowAtomsMembers DEF n, R
        <5> QED
          BY <2>1, <2>3, <3>1, <5>1
      <4>4. CASE Grouped(p, o)
        <5>1. s \in SidesOf(p, o)
          BY <1>5, <2>3, <3>4, ProblemLists DEF SidesOf, n
        <5>2. SetBy(K, s)
          BY <3>4, <4>4, <5>1, ConstructAtomsMembers DEF n, K
        <5> QED
          BY <5>2
      <4> QED
        BY <4>3, <4>4
    <3>5. CASE s[2] - n \in 1 .. m /\ s[2] = n + (s[2] - n)
      <4> DEFINE k == s[2] - n
      <4>1. AllRows(p)[n + k] = p.extra[k]
        BY <3>5, RowsListed DEF n, m
      <4>2. c = p.extra[k].bounds[s[3]]
        BY <2>2, <2>3, <3>5, <4>1
      <4>3. SetBy(O, <<"row", n + k, s[3]>>)
        <5> HIDE DEF k
        <5>1. k \in 1 .. m
          BY <3>5 DEF k
        <5> QED
          BY <1>5, <2>1, <4>2, <5>1, OverlayAtomsMembers DEF n, m, O
      <4>4. s = <<"row", n + k, s[3]>>
        BY <2>1, <2>3, <3>5
      <4> QED
        BY <4>3, <4>4
    <3> QED
      BY <3>3, <3>4, <3>5
  <2>4. CASE s[1] # "row"
    <3> DEFINE k == s[2]
               col == p.columns[k]
               b == BaseColumn(col)
    <3>1. k \in 1 .. Len(p.columns) /\ s = <<"column", k, s[3]>>
      BY <2>1, <2>4, SideShape
    <3> HIDE DEF R, K, O, C, F
    <3>2. CASE col.fixing # {}
      <4>1. SetBy(F, <<"column", k, s[3]>>)
        BY <2>1, <3>1, <3>2, FixingAtomsMembers DEF F
      <4> QED
        BY <3>1, <4>1
    <3>3. CASE Restrictions(p, k) # {}
      <4>1. SetBy(O, <<"column", k, s[3]>>)
        BY <2>1, <3>1, <3>3, OverlayAtomsMembers DEF O
      <4> QED
        BY <3>1, <4>1
    <3>4. CASE col.fixing = {} /\ Restrictions(p, k) = {}
      <4>1. LowerLayer(col) = b
        BY <3>4 DEF LowerLayer
      <4>2. Overlaid(p, k).lower = b.lower /\ Overlaid(p, k).upper = b.upper
        BY <3>1, <3>4, OverlaidColumn
      <4>3. Overlaid(p, k)[s[3]] = b[s[3]]
        BY <2>1, <4>2 DEF Ends
      <4>4. Under(p, s) = c
        BY <2>2, <2>4, <4>1, <4>3 DEF Under
      <4>5. CASE ~Grouped(p, col.origin)
        <5>1. IsFinite(LowerLayer(col)[s[3]])
          BY <1>5, <2>2, <2>4, <4>1, <4>3
        <5>2. SetBy(C, <<"column", k, s[3]>>)
          BY <2>1, <3>1, <4>5, <5>1, ColumnAtomsMembers DEF C
        <5> QED
          BY <3>1, <4>4, <5>2
      <4>6. CASE Grouped(p, col.origin)
        <5>1. s \in SidesOf(p, col.origin)
          BY <1>5, <3>1 DEF SidesOf
        <5>2. SetBy(K, s)
          BY <3>1, <4>6, <5>1, ConstructAtomsMembers DEF K
        <5> QED
          BY <5>2
      <4> QED
        BY <4>5, <4>6
    <3> QED
      BY <3>2, <3>3, <3>4
  <2> QED
    BY <2>3, <2>4
<1> HIDE DEF R, C, K, F, O
<1>6. IsList(x1) /\ \A a : a \in ToSet(x1) <=> a \in ToSet(R) \/ a \in ToSet(C)
  BY <1>2, JoinedList, Added
<1>7. Ordered(p, x1)
  <2>1. \A i \in 1 .. Len(x1) : OfLayer(p, x1[i])
    <3> HIDE DEF x1
    <3>1. \A i \in 1 .. Len(x1) : x1[i] \in ToSet(x1)
      BY <1>6, ListFacts
    <3> QED
      BY <1>3, <1>6, <3>1
  <2> HIDE DEF x1
  <2> QED
    BY <1>6, <2>1 DEF Ordered
<1> HIDE DEF x1
<1>9. Ordered(p, x2)
  BY <1>2, <1>4, <1>6, <1>7, OrderedExtends
<1>10. \A a : a \in ToSet(x2) <=> a \in ToSet(x1) \/ a \in ToSet(K)
  BY <1>2, <1>6, Added
<1> HIDE DEF x2
<1>11. IsList(x2)
  BY <1>9 DEF Ordered
<1>12. Ordered(p, x3)
  BY <1>2, <1>4, <1>9, <1>11, OrderedExtends
<1>13. \A a : a \in ToSet(x3) <=> a \in ToSet(x2) \/ a \in ToSet(F)
  BY <1>2, <1>11, Added
<1> HIDE DEF x3
<1>14. IsList(x3)
  BY <1>12 DEF Ordered
<1>15. Ordered(p, x4)
  BY <1>2, <1>4, <1>12, OrderedExtends
<1>16. \A a : a \in ToSet(x4) <=> a \in ToSet(x3) \/ a \in ToSet(O)
  BY <1>2, <1>14, Added
<1> HIDE DEF x4
<1>17. \A a : (a \in ToSet(R) \/ a \in ToSet(C) \/ a \in ToSet(K) \/ a \in ToSet(F) \/ a \in ToSet(O)) => a \in ToSet(x4)
  BY <1>6, <1>10, <1>13, <1>16
<1>18. ASSUME NEW s \in Sides(p), IsFinite(CompiledState(p)[s])
       PROVE  \E i \in 1 .. Len(x4) : s \in DOMAIN x4[i] /\ x4[i][s] = CompiledState(p)[s]
  <2>1. \E a \in ToSet(x4) : s \in DOMAIN a /\ a[s] = CompiledState(p)[s]
    <3>1. CASE SetBy(K, s) \/ SetBy(F, s) \/ SetBy(O, s)
      <4>1. PICK a : (a \in ToSet(K) \/ a \in ToSet(F) \/ a \in ToSet(O)) /\ s \in DOMAIN a
        BY <3>1 DEF SetBy
      <4> QED
        BY <1>4, <1>17, <4>1 DEF OfModel
    <3>2. CASE (SetBy(R, s) \/ SetBy(C, s)) /\ Under(p, s) = CompiledState(p)[s]
      <4>1. PICK a : (a \in ToSet(R) \/ a \in ToSet(C)) /\ s \in DOMAIN a
        BY <3>2 DEF SetBy
      <4> QED
        BY <1>3, <1>17, <3>2, <4>1 DEF OfLayer
    <3> QED
      BY <1>5, <1>18, <3>1, <3>2
  <2>2. IsList(x4)
    BY <1>15 DEF Ordered
  <2> QED
    BY <2>1, <2>2, ListFacts
<1> QED
  BY <1>1, <1>15, <1>18

-----------------------------------------------------------------------------
(* Selections                                                              *)

\* Looser bounds leave every point there is.
LEMMA LooserKeepsPoints ==
    ASSUME NEW p, ProperProblem(p), NEW a, NEW b,
           \A s \in Sides(p) : a[s] \in Int /\ b[s] \in Int /\ Loose(s, a[s], b[s]),
           HasPoint(p, b)
    PROVE  HasPoint(p, a)
<1> DEFINE bounds(x) == {<<s, x[s]>> : s \in Sides(p)}
<1>1. PICK pt \in [DOMAIN p.columns -> Grid] : Satisfies(p, bounds(b), pt)
  BY DEF HasPoint
<1>2. pt \in [1 .. Len(p.columns) -> Int] /\ Len(p.columns) \in Nat
  <2>1. DOMAIN p.columns = 1 .. Len(p.columns) /\ Len(p.columns) \in Nat
    BY ProblemLists
  <2>2. Grid \subseteq Int
    BY ValuesAssumption
  <2> QED
    BY <2>1, <2>2
<1>3. ASSUME NEW s \in Sides(p)
      PROVE  IF s[3] = "lower" THEN Measure(p, s, pt) >= a[s] ELSE Measure(p, s, pt) <= a[s]
  <2> DEFINE v == Measure(p, s, pt)
  <2>1. v \in Int
    <3>1. CASE s[1] = "row"
      <4>1. s[2] \in 1 .. Len(AllRows(p))
        BY <3>1, SideShape
      <4>2. AllRows(p)[s[2]].terms \in [1 .. Len(p.columns) -> Int]
        BY <4>1, RowsListed
      <4> QED
        BY <1>2, <3>1, <4>2, ValueNumber DEF Measure
    <3>2. CASE s[1] # "row"
      <4>1. s[2] \in 1 .. Len(p.columns)
        BY <3>2, SideShape
      <4> QED
        BY <1>2, <3>2, <4>1 DEF Measure
    <3> QED
      BY <3>1, <3>2
  <2>2. IF s[3] = "lower" THEN v >= b[s] ELSE v <= b[s]
    <3>1. <<s, b[s]>> \in bounds(b)
      OBVIOUS
    <3>2. \A w \in bounds(b) : IF w[1][3] = "lower" THEN Measure(p, w[1], pt) >= w[2] ELSE Measure(p, w[1], pt) <= w[2]
      BY <1>1 DEF Satisfies
    <3> HIDE DEF bounds
    <3>3. <<s, b[s]>>[1] = s /\ <<s, b[s]>>[2] = b[s]
      OBVIOUS
    <3> QED
      BY <3>1, <3>2, <3>3
  <2> HIDE DEF v
  <2>3. a[s] \in Int /\ b[s] \in Int /\ Loose(s, a[s], b[s])
    OBVIOUS
  <2>4. IF s[3] = "lower" THEN v >= a[s] ELSE v <= a[s]
    <3> DEFINE x == a[s]
               y == b[s]
    <3>1. x \in Int /\ y \in Int /\ (IF s[3] = "lower" THEN x <= y ELSE x >= y) /\ (IF s[3] = "lower" THEN v >= y ELSE v <= y)
      BY <2>2, <2>3 DEF Loose
    <3> HIDE DEF x, y
    <3>2. IF s[3] = "lower" THEN v >= x ELSE v <= x
      BY <2>1, <3>1
    <3> QED
      BY <3>2 DEF x
  <2> QED
    BY <2>4 DEF v
<1>4. Satisfies(p, bounds(a), pt)
  BY <1>3 DEF Satisfies
<1> QED
  BY <1>4 DEF HasPoint

\* Being as loose is reflexive and transitive.
LEMMA LooseOrder ==
    ASSUME NEW s, NEW x \in Int, NEW y \in Int, NEW z \in Int
    PROVE  Loose(s, x, x) /\ (Loose(s, x, y) /\ Loose(s, y, z) => Loose(s, x, z))
BY DEF Loose

\* The problems are proper and have as many atoms as are numbered.
LEMMA ProblemUniverse ==
    ASSUME NEW p \in Problems
    PROVE  /\ ProperProblem(p) /\ Universes[p] = UniverseOf(p) /\ States[p] = CompiledState(p)
           /\ Len(Universes[p]) = N /\ N \in Nat
BY ProblemsAssumption, NAssumption DEF Universes, States

\* What an atom sets a side to.
LEMMA AtomBounds ==
    ASSUME NEW p \in Problems, Exact(p), NEW k \in Atoms, NEW s \in DOMAIN Universes[p][k]
    PROVE  /\ s \in Sides(p) /\ Universes[p][k][s] \in Int
           /\ Loose(s, FreeSide(s), Universes[p][k][s])
           /\ Loose(s, Universes[p][k][s], CompiledState(p)[s])
           /\ IsFinite(CompiledState(p)[s])
<1> DEFINE a == Universes[p][k]
           c == CompiledState(p)[s]
<1>1. OfLayer(p, a) \/ OfModel(p, a)
  <2>1. k \in 1 .. Len(UniverseOf(p)) /\ a = UniverseOf(p)[k]
    BY ProblemUniverse DEF Atoms
  <2> QED
    BY <2>1, ProblemUniverse, UniverseShape DEF Ordered
<1>2. s \in Sides(p) /\ IsFinite(a[s]) /\ (a[s] = Under(p, s) \/ a[s] = c)
  BY <1>1 DEF OfLayer, OfModel
<1>3. /\ c \in Int /\ Under(p, s) \in Int
      /\ Loose(s, Under(p, s), c)
      /\ IsFinite(Under(p, s)) => IsFinite(c)
  BY <1>2, ProblemUniverse, SideBounds
<1> HIDE DEF a, c
<1>4. a[s] \in Int /\ Loose(s, a[s], c) /\ IsFinite(c)
  BY <1>2, <1>3, LooseOrder
<1>5. Loose(s, FreeSide(s), a[s])
  BY <1>2, ValuesAssumption DEF Loose, FreeSide, IsFinite
<1> QED
  BY <1>2, <1>4, <1>5 DEF a, c

\* A later atom sets a side to its compiled bound, or as the earlier one does.
LEMMA LaterAtom ==
    ASSUME NEW p \in Problems, Exact(p), NEW i \in Atoms, NEW j \in Atoms, i < j, NEW s,
           s \in DOMAIN Universes[p][i], s \in DOMAIN Universes[p][j]
    PROVE  \/ Universes[p][j][s] = CompiledState(p)[s]
           \/ Universes[p][i][s] = Universes[p][j][s]
<1> DEFINE U == UniverseOf(p)
<1>1. i \in 1 .. Len(U) /\ j \in 1 .. Len(U) /\ Universes[p] = U
  BY ProblemUniverse DEF Atoms
<1>2. Ordered(p, U)
  BY ProblemUniverse, UniverseShape
<1> HIDE DEF U
<1>3. (OfLayer(p, U[j]) \/ OfModel(p, U[j])) /\ (~OfModel(p, U[j]) => OfLayer(p, U[i]))
  BY <1>1, <1>2 DEF Ordered
<1> QED
  BY <1>1, <1>3 DEF OfLayer, OfModel

\* The last atom of a selection that sets a side.
LEMMA LastSetter ==
    ASSUME NEW p \in Problems, NEW S \in SUBSET Atoms, NEW s \in Sides(p), Setters(Universes[p], S, s) # {}
    PROVE  \E m \in S : /\ s \in DOMAIN Universes[p][m]
                        /\ \A k \in S : s \in DOMAIN Universes[p][k] => k <= m
                        /\ Desired(p, S)[s] = Universes[p][m][s]
<1> DEFINE T == Setters(Universes[p], S, s)
<1>1. T \in SUBSET (1 .. N) /\ N \in Nat
  BY NAssumption DEF Setters, Atoms
<1>2. Max(T) \in T /\ \A y \in T : y <= Max(T)
  <2> HIDE DEF T
  <2>1. T # {}
    BY DEF T
  <2> QED
    BY <1>1, <2>1, LastOfPositions
<1>3. Desired(p, S)[s] = Universes[p][Max(T)][s]
  BY DEF Desired, Applied
<1>4. \A k : k \in T <=> k \in S /\ s \in DOMAIN Universes[p][k]
  BY DEF Setters
<1> HIDE DEF T
<1> QED
  BY <1>2, <1>3, <1>4

\* A side nothing sets is free.
LEMMA NoSetter ==
    ASSUME NEW p, NEW S, NEW s \in Sides(p), Setters(Universes[p], S, s) = {}
    PROVE  Desired(p, S)[s] = FreeSide(s)
BY DEF Desired, Applied

LEMMA FreeSideNumber == \A s : FreeSide(s) \in Int
BY ValuesAssumption DEF FreeSide

\* A selection that has all the atoms of a side restores its compiled bound.
LEMMA AllSet ==
    ASSUME NEW p \in Problems, Exact(p), NEW S \in SUBSET Atoms, NEW s \in Sides(p),
           \A k \in Atoms : s \in DOMAIN Universes[p][k] => k \in S
    PROVE  Desired(p, S)[s] = CompiledState(p)[s]
<1> DEFINE c == CompiledState(p)[s]
           U == Universes[p]
<1>0. \A k \in Atoms : k \in Int
  BY NAssumption DEF Atoms
<1>1. CASE IsFinite(c)
  <2>1. PICK i \in Atoms : s \in DOMAIN U[i] /\ U[i][s] = c
    <3>1. \E i \in 1 .. Len(UniverseOf(p)) : s \in DOMAIN UniverseOf(p)[i] /\ UniverseOf(p)[i][s] = c
      BY <1>1, ProblemUniverse, UniverseShape
    <3>2. UniverseOf(p) = U /\ 1 .. Len(UniverseOf(p)) = Atoms
      BY ProblemUniverse DEF Atoms
    <3> QED
      BY <3>1, <3>2
  <2>2. Setters(U, S, s) # {}
    BY <2>1 DEF Setters
  <2>3. PICK m \in S : /\ s \in DOMAIN U[m] /\ \A k \in S : s \in DOMAIN U[k] => k <= m
                       /\ Desired(p, S)[s] = U[m][s]
    BY <2>2, LastSetter
  <2>4. i <= m /\ i \in Int /\ m \in Int /\ m \in Atoms
    BY <1>0, <2>1, <2>3
  <2>5. CASE i = m
    BY <2>1, <2>3, <2>5
  <2>6. CASE i < m
    <3>1. U[m][s] = c \/ U[i][s] = U[m][s]
      BY <2>1, <2>3, <2>4, <2>6, LaterAtom
    <3> QED
      BY <2>1, <2>3, <3>1
  <2> QED
    BY <2>4, <2>5, <2>6
<1>2. CASE ~IsFinite(c)
  <2>1. Setters(U, S, s) = {}
    <3>1. \A k \in S : s \notin DOMAIN U[k]
      BY <1>2, AtomBounds
    <3> QED
      BY <3>1 DEF Setters
  <2>2. c = FreeSide(s)
    BY <1>2, ProblemUniverse, SideBounds
  <2> QED
    BY <2>1, <2>2, NoSetter
<1> QED
  BY <1>1, <1>2

\* More atoms leave no side looser.
LEMMA MoreAtomsTighten ==
    ASSUME NEW p \in Problems, Exact(p), NEW S, NEW T \in SUBSET Atoms, S \subseteq T, NEW s \in Sides(p)
    PROVE  /\ Desired(p, S)[s] \in Int /\ Desired(p, T)[s] \in Int
           /\ Loose(s, Desired(p, S)[s], Desired(p, T)[s])
<1> DEFINE U == Universes[p]
           x == Desired(p, S)[s]
           y == Desired(p, T)[s]
<1>0. (\A k \in Atoms : k \in Int) /\ S \in SUBSET Atoms
  BY NAssumption DEF Atoms
<1>1. CASE Setters(U, T, s) = {}
  <2>1. Setters(U, S, s) = {}
    BY <1>1 DEF Setters
  <2>2. x = FreeSide(s) /\ y = FreeSide(s)
    BY <1>1, <2>1, NoSetter
  <2> QED
    BY <2>2, FreeSideNumber, LooseOrder
<1>2. CASE Setters(U, T, s) # {}
  <2>1. PICK n \in T : s \in DOMAIN U[n] /\ (\A k \in T : s \in DOMAIN U[k] => k <= n) /\ y = U[n][s]
    BY <1>2, LastSetter
  <2>2. y \in Int /\ Loose(s, FreeSide(s), y)
    BY <2>1, AtomBounds
  <2>3. CASE Setters(U, S, s) = {}
    BY <2>2, <2>3, NoSetter, FreeSideNumber
  <2>4. CASE Setters(U, S, s) # {}
    <3>1. PICK m \in S : s \in DOMAIN U[m] /\ x = U[m][s]
      BY <1>0, <2>4, LastSetter
    <3>2. m \in Atoms /\ n \in Atoms /\ m <= n /\ m \in Int /\ n \in Int
      BY <1>0, <2>1, <3>1
    <3>3. x \in Int /\ Loose(s, x, CompiledState(p)[s])
      BY <3>1, <3>2, AtomBounds
    <3>4. x = y \/ y = CompiledState(p)[s]
      <4>1. CASE m = n
        BY <2>1, <3>1, <4>1
      <4>2. CASE m < n
        BY <2>1, <3>1, <3>2, <4>2, LaterAtom
      <4> QED
        BY <3>2, <4>1, <4>2
    <3> HIDE DEF x, y
    <3> QED
      BY <2>2, <3>3, <3>4, LooseOrder DEF x, y
  <2> QED
    BY <2>3, <2>4
<1> QED
  BY <1>1, <1>2

\* With every atom on, the private solver holds the compiled model.
LEMMA AllAtomsAreTheModel ==
    ASSUME NEW p \in Problems, Exact(p)
    PROVE  Selections[p][Atoms] = CompiledState(p)
<1>1. Selections[p][Atoms] = Desired(p, Atoms)
  BY DEF Selections
<1>2. \A s \in Sides(p) : Desired(p, Atoms)[s] = CompiledState(p)[s]
  BY AllSet
<1>3. /\ Desired(p, Atoms) = [s \in Sides(p) |-> Desired(p, Atoms)[s]]
      /\ CompiledState(p) = [s \in Sides(p) |-> CompiledState(p)[s]]
  BY DEF Desired, Applied, CompiledState
<1> QED
  BY <1>1, <1>2, <1>3

\* A selection that has no point has none with more atoms.
LEMMA ImpossibleGrows ==
    ASSUME NEW p \in Problems, Exact(p), NEW S \in ImpossibleSets[p], NEW T \in SUBSET Atoms, S \subseteq T
    PROVE  T \in ImpossibleSets[p]
<1>1. \A X \in SUBSET Atoms : X \in ImpossibleSets[p] <=> ~HasPoint(p, Desired(p, X))
  BY DEF ImpossibleSets, Selections
<1>2. S \in SUBSET Atoms
  BY DEF ImpossibleSets
<1>3. HasPoint(p, Desired(p, T)) => HasPoint(p, Desired(p, S))
  <2>1. \A s \in Sides(p) : /\ Desired(p, S)[s] \in Int /\ Desired(p, T)[s] \in Int
                            /\ Loose(s, Desired(p, S)[s], Desired(p, T)[s])
    BY MoreAtomsTighten
  <2> QED
    BY <2>1, ProblemUniverse, LooserKeepsPoints
<1> QED
  BY <1>1, <1>2, <1>3

\* Sides that contradict each other are set by atoms that do.
LEMMA SeedIsContradictory ==
    ASSUME NEW p \in Problems, Exact(p), NEW R \in SUBSET FiniteSides(p), SeedOf(p, R) \notin ImpossibleSets[p]
    PROVE  HasPoint(p, Only(p, R))
<1> DEFINE S == SeedOf(p, R)
<1>1. S \in SUBSET Atoms /\ R \subseteq Sides(p)
  BY DEF SeedOf, FiniteSides
<1>2. HasPoint(p, Desired(p, S))
  BY <1>1 DEF ImpossibleSets, Selections
<1>3. ASSUME NEW s \in Sides(p)
      PROVE  /\ Only(p, R)[s] \in Int /\ Desired(p, S)[s] \in Int
             /\ Loose(s, Only(p, R)[s], Desired(p, S)[s])
  <2>0. Desired(p, S)[s] \in Int
    BY <1>1, MoreAtomsTighten
  <2>1. CASE s \in R
    <3>1. Only(p, R)[s] = CompiledState(p)[s]
      BY <2>1, ProblemUniverse DEF Only
    <3>2. \A k \in Atoms : s \in DOMAIN Universes[p][k] => k \in S
      BY <2>1 DEF SeedOf
    <3>3. Desired(p, S)[s] = CompiledState(p)[s]
      <4> HIDE DEF S
      <4> QED
        BY <1>1, <3>2, AllSet
    <3> QED
      BY <2>0, <3>1, <3>3, LooseOrder
  <2>2. CASE s \notin R
    <3>1. Only(p, R)[s] = FreeSide(s)
      BY <2>2 DEF Only
    <3>2. Desired(p, {})[s] = FreeSide(s)
      BY NoSetter DEF Setters
    <3>3. Loose(s, Desired(p, {})[s], Desired(p, S)[s])
      BY <1>1, MoreAtomsTighten
    <3> QED
      BY <2>0, <3>1, <3>2, <3>3, FreeSideNumber
  <2> QED
    BY <2>1, <2>2
<1> HIDE DEF S
<1> QED
  BY <1>2, <1>3, ProblemUniverse, LooserKeepsPoints

-----------------------------------------------------------------------------
(* The analysis of a problem                                               *)

\* An analysis of a problem is an analysis.
LEMMA AnalysisRefines == [AnalysisNext]_analysisVars => [Next]_vars
BY DEF AnalysisNext, Next, analysisVars

\* The private solver holds the model until it is asked, then the selection it was last
\* asked about, which is the only one there is when the cache was emptied for it.
AnalysisInv ==
    /\ problem \in Problems
    /\ conflicts = ConflictsOf[problem]
    /\ phase = "full" => native = CompiledState(problem)
    /\ \A S \in DOMAIN cache : DOMAIN cache = {S} /\ native # <<>> => native = Desired(problem, S)

\* A step that counts no answer keeps the cache.
LEMMA CountedAnswers ==
    ASSUME calls \in Nat, NEW S, NEW fresh, NEW o, Ask(S, fresh, o) \/ Consult(S, fresh, o)
    PROVE  calls' = calls => cache' = cache
BY DEF Ask, Consult, oracleVars

LEMMA AnalysisStep == SafetyInv /\ AnalysisInv /\ [AnalysisNext]_analysisVars => AnalysisInv'
<1> SUFFICES ASSUME SafetyInv, AnalysisInv, [AnalysisNext]_analysisVars PROVE AnalysisInv'
  OBVIOUS
<1>0. calls \in Nat
  BY DEF SafetyInv, TypeOK
<1>1. CASE UNCHANGED analysisVars
  <2>1. UNCHANGED <<problem, conflicts, phase, native, cache>>
    BY <1>1 DEF analysisVars, vars
  <2> QED
    BY <2>1 DEF AnalysisInv
<1>2. conflicts' = conflicts
  BY AnalysisRefines, ConflictsFixed, Zenon
<1>3. CASE Toggle /\ phase' # "full" /\ (calls' = calls => cache' = cache)
  <2>1. problem' = problem
    BY <1>3 DEF Toggle
  <2>2. CASE calls' = calls
    <3>1. native' = native /\ cache' = cache
      BY <1>3, <2>2 DEF Toggle
    <3> QED
      BY <1>2, <1>3, <2>1, <3>1 DEF AnalysisInv
  <2>3. CASE calls' # calls
    <3>1. native' = Desired(problem, JustAsked)
      BY <1>3, <2>3 DEF Toggle
    <3>2. ASSUME NEW T, DOMAIN cache' = {T} PROVE JustAsked = T
      BY <3>2 DEF JustAsked
    <3> QED
      BY <1>2, <1>3, <2>1, <3>1, <3>2 DEF AnalysisInv
  <2> QED
    BY <2>2, <2>3
<1>4. CASE problem' = problem /\ native' \in {native, <<>>} /\ phase' # "full" /\ cache' = cache
  BY <1>2, <1>4 DEF AnalysisInv
<1>5. CASE SkipFullCheck /\ Untouched
  BY <1>4, <1>5 DEF SkipFullCheck, Untouched, Returns, oracleVars
<1>6. CASE CheckFullUniverse /\ Toggle
  <2>1. PICK o \in Outcomes : Consult(Atoms, FALSE, o) /\ phase' # "full"
    BY <1>6 DEF CheckFullUniverse
  <2> QED
    BY <1>0, <1>3, <1>6, <2>1, CountedAnswers
<1>7. CASE NativeFails /\ Untouched
  BY <1>4, <1>7 DEF NativeFails, Untouched, Returns, oracleVars
<1>8. CASE NativeAnswers /\ Untouched
  BY <1>4, <1>8 DEF NativeAnswers, Untouched, Returns, oracleVars
<1>9. CASE CheckNativeSeed /\ Toggle
  <2>1. PICK o \in Outcomes : (Ask(seed, FALSE, o) \/ UNCHANGED oracleVars) /\ phase' # "full"
    BY <1>9 DEF CheckNativeSeed, Returns
  <2>2. calls' = calls => cache' = cache
    BY <1>0, <2>1, CountedAnswers DEF oracleVars
  <2> QED
    BY <1>3, <1>9, <2>1, <2>2
<1>10. CASE CheckSeed /\ Toggle
  <2>1. PICK o \in Outcomes : Ask(seed, FALSE, o) /\ phase' # "full"
    BY <1>10 DEF CheckSeed, Returns
  <2> QED
    BY <1>0, <1>3, <1>10, <2>1, CountedAnswers
<1>11. CASE StartRound /\ Untouched
  BY <1>4, <1>11 DEF StartRound, Untouched, oracleVars
<1>12. CASE DeleteChunk /\ Toggle
  <2>1. PICK o \in Outcomes : Ask(selected \ FirstChunk, FALSE, o)
    BY <1>12 DEF DeleteChunk
  <2>2. phase' # "full"
    BY <1>12 DEF DeleteChunk
  <2> QED
    BY <1>0, <1>3, <1>12, <2>1, <2>2, CountedAnswers
<1>13. CASE EndRound /\ Untouched
  BY <1>4, <1>13 DEF EndRound, Untouched, oracleVars
<1>14. CASE DeleteAtom /\ Toggle
  <2>1. PICK o \in Outcomes : Ask(selected \ {Foremost(todo)}, TRUE, o)
    BY <1>14 DEF DeleteAtom
  <2>2. phase' # "full"
    BY <1>14 DEF DeleteAtom
  <2> QED
    BY <1>0, <1>3, <1>14, <2>1, <2>2, CountedAnswers
<1>15. CASE EndFilter /\ Untouched
  BY <1>4, <1>15 DEF EndFilter, Untouched, oracleVars
<1>16. CASE VerifyConflict /\ Toggle
  <2>1. PICK o \in Outcomes : Ask(selected, TRUE, o) /\ phase' # "full"
    BY <1>16 DEF VerifyConflict, Returns
  <2> QED
    BY <1>0, <1>3, <1>16, <2>1, CountedAnswers
<1>17. CASE VerifyMember /\ Toggle
  <2>1. PICK o \in Outcomes : Ask(selected \ {Foremost(todo)}, TRUE, o)
    BY <1>17 DEF VerifyMember
  <2>2. phase' # "full"
    BY <1>17 DEF VerifyMember
  <2> QED
    BY <1>0, <1>3, <1>17, <2>1, <2>2, CountedAnswers
<1>18. CASE ReportConflict /\ Untouched
  BY <1>4, <1>18 DEF ReportConflict, Untouched, Returns, oracleVars
<1>19. CASE OracleFails /\ native' = <<>> /\ UNCHANGED problem
  BY <1>4, <1>19 DEF OracleFails, Returns, oracleVars
<1> QED
  BY <1>1, <1>5, <1>6, <1>7, <1>8, <1>9, <1>10, <1>11, <1>12, <1>13, <1>14, <1>15, <1>16, <1>17,
     <1>18, <1>19 DEF AnalysisNext

LEMMA AnalysisInvHolds == AnalysisSpec => [](SafetyInv /\ AnalysisInv)
<1>1. AnalysisInit => Init /\ AnalysisInv
  BY DEF AnalysisInit, AnalysisInv, Init
<1>2. AnalysisInit => SafetyInv /\ AnalysisInv
  BY <1>1, SafetyInvInit
<1>3. SafetyInv /\ AnalysisInv /\ [AnalysisNext]_analysisVars => (SafetyInv /\ AnalysisInv)'
  BY AnalysisStep, AnalysisRefines, SafetyInvStep
<1> QED
  BY <1>2, <1>3, PTL DEF AnalysisSpec

\* The solver holds the selection it was last switched to.
LEMMA DesiredIsHeld ==
    ASSUME problem \in Problems, NEW S \in SUBSET Atoms, native = Desired(problem, S)
    PROVE  SolverHolds(S)
<1> SUFFICES ASSUME NEW s \in Sides(problem)
             PROVE  \/ native[s] = FreeSide(s) /\ \A k \in S : s \notin DOMAIN Universes[problem][k]
                    \/ \E k \in S : s \in DOMAIN Universes[problem][k] /\ Universes[problem][k][s] = native[s]
  BY DEF SolverHolds
<1>1. CASE Setters(Universes[problem], S, s) = {}
  BY <1>1, NoSetter DEF Setters
<1>2. CASE Setters(Universes[problem], S, s) # {}
  BY <1>2, LastSetter
<1> QED
  BY <1>1, <1>2

\* For every problem without a band or an inactive fixing, the universe is the compiled
\* model, and the private solver holds what it is asked about
\* (from_snapshot_with_fixings, from_model_snapshot_with_overlay, apply_selection).
THEOREM UniverseIsExact == AnalysisSpec => []UniverseExact
<1>1. SafetyInv /\ AnalysisInv => UniverseExact
  <2> SUFFICES ASSUME SafetyInv, AnalysisInv PROVE UniverseExact
    OBVIOUS
  <2>1. problem \in Problems
    BY DEF AnalysisInv
  <2>2. ASSUME phase = "full", Exact(problem)
        PROVE  /\ Selections[problem][Atoms] = native
               /\ \A S \in ImpossibleSets[problem] : \A k \in Atoms \ S : S \cup {k} \in ImpossibleSets[problem]
               /\ \A R \in SUBSET FiniteSides(problem) :
                    SeedOf(problem, R) \notin ImpossibleSets[problem] => HasPoint(problem, Only(problem, R))
    <3>1. Selections[problem][Atoms] = native
      BY <2>1, <2>2, AllAtomsAreTheModel DEF AnalysisInv
    <3>2. ASSUME NEW S \in ImpossibleSets[problem], NEW k \in Atoms \ S
          PROVE  S \cup {k} \in ImpossibleSets[problem]
      <4>1. S \in SUBSET Atoms
        BY <2>1 DEF ImpossibleSets
      <4>2. S \cup {k} \in SUBSET Atoms /\ S \subseteq S \cup {k}
        BY <4>1
      <4> QED
        BY <2>1, <2>2, <4>2, ImpossibleGrows
    <3>3. \A R \in SUBSET FiniteSides(problem) :
            SeedOf(problem, R) \notin ImpossibleSets[problem] => HasPoint(problem, Only(problem, R))
      BY <2>1, <2>2, SeedIsContradictory
    <3> QED
      BY <3>1, <3>2, <3>3
  <2>3. ASSUME NEW S \in DOMAIN cache, DOMAIN cache = {S}, native # <<>> PROVE SolverHolds(S)
    <3>1. S \in SUBSET Atoms
      BY DEF SafetyInv, TypeOK
    <3>2. native = Desired(problem, S)
      BY <2>3 DEF AnalysisInv
    <3> QED
      BY <2>1, <3>1, <3>2, DesiredIsHeld
  <2> QED
    BY <2>2, <2>3 DEF UniverseExact
<1> QED
  BY AnalysisInvHolds, <1>1, PTL

-----------------------------------------------------------------------------
(* What a report says of the model                                         *)

\* A selection that has no point contains a conflict: one of its parts without a
\* point that have the fewest atoms.
LEMMA ConflictWithin ==
    ASSUME NEW p \in Problems, NEW S \in ImpossibleSets[p]
    PROVE  \E c \in ConflictsOf[p] : c \subseteq S
<1> DEFINE Sizes == {Cardinality(T) : T \in {T \in ImpossibleSets[p] : T \subseteq S}}
<1>1. \A T \in ImpossibleSets[p] : T \in SUBSET Atoms
  BY DEF ImpossibleSets
<1>2. \A T \in SUBSET Atoms : IsFiniteSet(T) /\ Cardinality(T) \in Nat
  <2>1. IsFiniteSet(Atoms)
    BY NAssumption, FS_Interval DEF Atoms
  <2> QED
    BY <2>1, FS_Subset, FS_CardinalityType
<1>3. Sizes \subseteq Nat /\ Sizes # {}
  BY <1>1, <1>2
<1>4. PICK n \in Sizes : \A y \in Sizes : n <= y
  <2> HIDE DEF Sizes
  <2> QED
    BY <1>3, LeastOfNumbers
<1>5. PICK T \in ImpossibleSets[p] : T \subseteq S /\ Cardinality(T) = n
  OBVIOUS
<1>6. ASSUME NEW U \in SUBSET T, U # T, U \in ImpossibleSets[p]
      PROVE  FALSE
  <2>1. Cardinality(U) \in Sizes /\ U \subseteq S
    BY <1>5, <1>6
  <2>2. Cardinality(U) <= n /\ Cardinality(U) # n
    BY <1>1, <1>2, <1>5, <1>6, FS_Subset
  <2> QED
    BY <1>2, <1>3, <1>4, <2>1, <2>2
<1>7. T \in ConflictsOf[p]
  BY <1>5, <1>6 DEF ConflictsOf
<1> QED
  BY <1>5, <1>7

\* The conflicts of the analysis are the contradictions of the model.
LEMMA InfeasibleIsImpossible ==
    ASSUME problem \in Problems, conflicts = ConflictsOf[problem], Exact(problem), NEW S \in SUBSET Atoms
    PROVE  Infeasible(S) <=> ~HasPoint(problem, Desired(problem, S))
<1>1. S \in ImpossibleSets[problem] <=> ~HasPoint(problem, Desired(problem, S))
  BY DEF ImpossibleSets, Selections
<1>2. ASSUME NEW c \in conflicts, c \subseteq S PROVE S \in ImpossibleSets[problem]
  <2>1. c \in ImpossibleSets[problem]
    BY <1>2 DEF ConflictsOf
  <2> QED
    BY <1>2, <2>1, ImpossibleGrows
<1>3. S \in ImpossibleSets[problem] => Infeasible(S)
  BY ConflictWithin DEF Infeasible
<1> QED
  BY <1>1, <1>2, <1>3 DEF Infeasible

\* The members of a reduced conflict have no point, without any one of those of an
\* irreducible conflict the rest has one, and a model without a conflict has one.
SpeaksOfTheModel(r) ==
    /\ r.outcome = "Conflict" /\ r.guarantee # "NativeReported" =>
         ~HasPoint(problem, Desired(problem, r.members))
    /\ r.guarantee = "Irreducible" =>
         \A k \in r.members : HasPoint(problem, Desired(problem, r.members \ {k}))
    /\ r.outcome = "NoConflict" => HasPoint(problem, CompiledState(problem))

\* What an analysis reports is true of the compiled model itself and not only of the
\* answers it was given: the reducer's claims hold, carried over by the universe being
\* exact (analyze_infeasibility, reduce_with_limits_and_policy).
THEOREM ReportsSpeakOfTheModel ==
    AnalysisSpec => [](/\ ClaimsHold
                       /\ Exact(problem) => \A r \in report : SpeaksOfTheModel(r))
<1>1. SafetyInv /\ AnalysisInv =>
        ClaimsHold /\ (Exact(problem) => \A r \in report : SpeaksOfTheModel(r))
  <2> SUFFICES ASSUME SafetyInv, AnalysisInv, Exact(problem), NEW r \in report
               PROVE  SpeaksOfTheModel(r)
    BY DEF SafetyInv
  <2>1. problem \in Problems /\ conflicts = ConflictsOf[problem]
    BY DEF AnalysisInv
  <2>2. /\ r.outcome = "Conflict" /\ r.guarantee # "NativeReported" => Infeasible(r.members)
        /\ r.guarantee = "Irreducible" => Minimal(r.members)
        /\ r.outcome = "NoConflict" => ~Infeasible(Atoms)
    BY DEF SafetyInv, ClaimsHold
  <2>3. r.members \in SUBSET Atoms
    BY DEF SafetyInv, TypeOK
  <2>4. \A S \in SUBSET Atoms : Infeasible(S) <=> ~HasPoint(problem, Desired(problem, S))
    BY <2>1, InfeasibleIsImpossible
  <2>5. ASSUME Minimal(r.members), NEW k \in r.members
        PROVE  HasPoint(problem, Desired(problem, r.members \ {k}))
    <3>1. /\ r.members \ {k} \in SUBSET r.members /\ r.members \ {k} \in SUBSET Atoms
          /\ r.members \ {k} # r.members
      BY <2>3
    <3>2. ~Infeasible(r.members \ {k})
      BY <2>5, <3>1 DEF Minimal
    <3> QED
      BY <2>4, <3>1, <3>2
  <2>6. ~Infeasible(Atoms) => HasPoint(problem, CompiledState(problem))
    <3>1. Desired(problem, Atoms) = CompiledState(problem)
      BY <2>1, AllAtomsAreTheModel DEF Selections
    <3> QED
      BY <2>4, <3>1
  <2> QED
    BY <2>2, <2>3, <2>4, <2>5, <2>6 DEF SpeaksOfTheModel
<1> QED
  BY AnalysisInvHolds, <1>1, PTL
=============================================================================
