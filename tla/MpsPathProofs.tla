----------------------------- MODULE MpsPathProofs ----------------------------
(***************************************************************************)
(* Writing MPS documents to a path, for any number of writers, processes,  *)
(* faults and tries: the destination is whole whatever fails, temporary    *)
(* files are nobody else's, and outcomes tell the truth.                   *)
(***************************************************************************)
EXTENDS MpsPath, TLAPS

-----------------------------------------------------------------------------
(* The inductive invariant, part by part                                   *)

\* Where a writer owns the name of a temporary file, and where the file.
Naming == {"write", "flush", "sync", "commit", "cleanup"}
Owning == {"write", "flush", "sync", "commit"}
Undecided == {"serialize", "create"} \cup Owning

\* A behaviour plays one scenario, and every restart was paid for by a fault.
AttemptsPaid ==
    /\ scenario \in Scenarios
    /\ \A w \in Writers :
          attempt[w] + faults + (IF pc[w] = "crashed" THEN 1 ELSE 0) <= scenario.faults

\* What the directory may show is whole and synced, so no power failure tears it.
DurableIsSynced == \A file \in durable : file # None => file.whole /\ file.synced

\* The stages a temporary file has been through.
Staged ==
    \A w \in Writers :
        /\ pc[w] \in Owning => temp[w] \in DOMAIN temps /\ temps[temp[w]].author = Author(w)
        /\ pc[w] \in {"flush", "sync", "commit"} => temps[temp[w]].whole
        /\ pc[w] = "commit" => temps[temp[w]].synced

\* Names come from the counter of the writer's process and are nobody else's.
NamesApart ==
    /\ \A w \in Writers :
          pc[w] \in Naming => temp[w] \in Pids \X Nat /\ temp[w][1] = pid[w] /\ temp[w][2] < counter[pid[w]]
    /\ \A w, v \in Writers :
          w # v /\ pc[w] \in Naming /\ pc[v] \in Naming => temp[w] # temp[v]

\* No file is of an attempt that is still to come.
NoneFromLater ==
    /\ \A name \in DOMAIN temps : \A w \in Writers, n \in Nat :
          temps[name].author = <<w, n>> => n <= attempt[w]
    /\ \A file \in durable : \A w \in Writers, n \in Nat :
          file # None /\ file.author = <<w, n>> => n <= attempt[w]
    /\ \A r \in removed : \A w \in Writers, n \in Nat :
          r[2].author = <<w, n>> => n <= attempt[w]

\* What left the directory is what a power failure can bring back.
RemovedTorn == \A r \in removed : Torn(r[2]) = r[2]

\* The writer said that it left the file, or a power failure brought it back.
Excused(w, name) ==
    outcome[w].cleanup \/ outcome[w].stage = "cleanup" \/ <<name, temps[name]>> \in removed

\* The current attempt of a writer has the file it names and no other, unless it
\* was killed or is excused.
OwnFileOnly ==
    \A name \in DOMAIN temps : \A w \in Writers :
        temps[name].author = Author(w) =>
            \/ pc[w] \in Naming /\ name = temp[w]
            \/ pc[w] = "crashed"
            \/ pc[w] = "done" /\ Excused(w, name)

\* Before the commit nothing of the attempt is published, after it exactly what it
\* succeeded with.
PublishedAsSaid ==
    \A w \in Writers :
        /\ pc[w] \in Undecided => ~Published(w)
        /\ pc[w] = "cleanup" => /\ Published(w) <=> outcome[w] = Ok
                               /\ outcome[w].stage # "cleanup"

PathInv ==
    TypeOK /\ AttemptsPaid /\ DurableIsSynced /\ RemovedTorn /\ Staged /\ NamesApart
    /\ NoneFromLater /\ OwnFileOnly /\ PublishedAsSaid

-----------------------------------------------------------------------------
(* Lemmas                                                                  *)

\* The shapes of the scenario being played.
LEMMA ScenarioTyped ==
    ASSUME scenario \in Scenarios
    PROVE  /\ scenario.faults \in Nat
           /\ \A w \in Writers : w \in AnyWriter /\ Job(w).policy \in {"CreateNew", "AtomicReplace"}
BY ScenariosAssumption DEF Writers, Job, AnyWriter

\* None is told from every file, name, author and outcome.
LEMMA NoneIsNoValue ==
    ASSUME scenario \in Scenarios
    PROVE  /\ \A file \in Files : file # None
           /\ \A name \in Pids \X Nat : name # None
           /\ \A author \in Attempts : author # None
           /\ \A o \in Outcomes : o # None
           /\ \A stage \in Stages : stage # None
<1>1. Attempts \subseteq AnyWriter \X Nat
  BY ScenarioTyped DEF Attempts
<1>2. Files \subseteq AnyFile
  BY <1>1 DEF Files, AnyFile
<1> QED
  BY <1>1, <1>2, NoneAssumption

\* The authors of two writers' current attempts differ, and are those of attempts that
\* were paid for.
LEMMA AuthorsDiffer ==
    ASSUME TypeOK
    PROVE  /\ \A w \in Writers : Author(w) \in Attempts /\ Author(w)[1] = w
           /\ \A w, v \in Writers : w # v => Author(w) # Author(v)
BY DEF TypeOK, Author, Attempts

\* A writer at work has the file it names and no other.
LEMMA LiveOwnsOne ==
    ASSUME OwnFileOnly, NEW w \in Writers, pc[w] \notin {"done", "crashed"},
           NEW name \in DOMAIN temps, temps[name].author = Author(w)
    PROVE  pc[w] \in Naming /\ name = temp[w]
<1>1. \/ pc[w] \in Naming /\ name = temp[w]
      \/ pc[w] = "crashed"
      \/ pc[w] = "done"
  BY DEF OwnFileOnly
<1> QED
  BY <1>1

\* A power failure tears a file once, and leaves it to its author.
LEMMA TornOnce ==
    ASSUME NEW file \in Files
    PROVE  Torn(file) \in Files /\ Torn(file).author = file.author /\ Torn(Torn(file)) = Torn(file)
<1>1. CASE file = None \/ file.synced
  BY <1>1 DEF Torn
<1>2. CASE ~(file = None \/ file.synced)
  <2>1. Torn(file) = [file EXCEPT !.whole = FALSE]
    BY <1>2 DEF Torn
  <2>2. Torn(file) \in Files /\ Torn(file).author = file.author /\ Torn(file).whole = FALSE
    BY <2>1 DEF Files
  <2>3. [Torn(file) EXCEPT !.whole = FALSE] = Torn(file)
    BY <2>2 DEF Files
  <2> QED
    BY <2>2, <2>3 DEF Torn
<1> QED
  BY <1>1, <1>2

-----------------------------------------------------------------------------
(* What the steps of a writer have in common: writer w goes to stage l, holding the   *)
(* temporary name x, with outcome o.                                                  *)

Moves(w, l, x, o) ==
    /\ UNCHANGED process
    /\ pc[w] \notin {"done", "crashed"} /\ l \in Stages \cup {"done"}
    /\ pc' = [pc EXCEPT ![w] = l]
    /\ temp' = [temp EXCEPT ![w] = x]
    /\ outcome' = [outcome EXCEPT ![w] = o]
    /\ o \in Outcomes \cup {None} /\ (o # None <=> l \in {"cleanup", "done"})
    /\ faults' \in Nat /\ faults' <= faults
    /\ counter' \in [Pids -> Nat] /\ \A p \in Pids : counter[p] <= counter'[p]

\* The name is the one the writer holds, or new.
KeepsName(w, l, x) ==
    /\ x \in (Pids \X Nat) \cup {None}
    /\ pc[w] \in Naming => x = temp[w] /\ l \in Naming \cup {"done"}
    /\ pc[w] \notin Naming /\ l \in Naming =>
          x \in Pids \X Nat /\ x[1] = pid[w] /\ counter[pid[w]] <= x[2] /\ x[2] < counter'[pid[w]]

\* Only the file of that name changes.
TouchesOnly(w, l, x) ==
    \/ temps' = temps
    \/ /\ x \in Pids \X Nat
       /\ pc[w] \in Naming \/ (l \in Naming /\ x[1] = pid[w] /\ counter[pid[w]] <= x[2])
       /\ DOMAIN temps' \subseteq DOMAIN temps \cup {x}
       /\ DOMAIN temps \subseteq DOMAIN temps' \cup {x}
       /\ \A name \in DOMAIN temps : name # x => temps'[name] = temps[name]
       /\ x \in DOMAIN temps' => temps'[x] \in Files /\ temps'[x].author = Author(w)

\* What leaves the directory may come back after a power failure.
Unlinks ==
    removed \subseteq removed' /\ removed' \subseteq removed \cup {<<n, Torn(temps[n])>> : n \in DOMAIN temps}

\* The file is ready for the stage, and gone, or said to be left, at the end.
FileReady(w, l, x, o) ==
    /\ l \in Owning => x \in DOMAIN temps' /\ temps'[x].author = Author(w)
    /\ l \in {"flush", "sync", "commit"} => temps'[x].whole
    /\ l = "commit" => temps'[x].synced
    /\ l = "done" =>
          \/ \A name \in DOMAIN temps' : temps'[name].author # Author(w)
          \/ o.cleanup \/ o.stage = "cleanup"

\* At most a whole and synced file of the writer is published, and it says so.
Publishes(w, l, o) ==
    /\ \/ UNCHANGED <<dest, durable>>
       \/ /\ dest' \in Files /\ dest'.author = Author(w) /\ dest'.whole /\ dest'.synced
          /\ durable' = durable \cup {dest'}
    /\ l \in Undecided => pc[w] \in Undecided /\ UNCHANGED durable
    /\ l = "cleanup" => (Published(w)' <=> o = Ok) /\ o.stage # "cleanup"

WriterStep(w, l, x, o) ==
    /\ Moves(w, l, x, o) /\ KeepsName(w, l, x)
    /\ TouchesOnly(w, l, x) /\ Unlinks /\ FileReady(w, l, x, o) /\ Publishes(w, l, o)

\* Any step of that form preserves the invariant.
LEMMA WriterStepKeeps ==
    ASSUME PathInv, NEW w \in Writers, NEW l, NEW x, NEW o, WriterStep(w, l, x, o)
    PROVE  PathInv'
<1>1. /\ UNCHANGED <<scenario, pid, attempt>> /\ Writers' = Writers
      /\ Files' = Files /\ Attempts' = Attempts
      /\ \A v \in Writers : Author(v)' = Author(v)
  BY DEF WriterStep, Moves, process, Writers, Files, Attempts, Author
<1>2. TypeOK /\ scenario \in Scenarios
  BY DEF PathInv, AttemptsPaid
<1>3. /\ pc'[w] = l /\ temp'[w] = x /\ outcome'[w] = o
      /\ \A v \in Writers : v # w => pc'[v] = pc[v] /\ temp'[v] = temp[v] /\ outcome'[v] = outcome[v]
  BY <1>2 DEF WriterStep, Moves, TypeOK
<1>4. /\ pc[w] \notin {"done", "crashed"} /\ l \in Stages \cup {"done"}
      /\ faults' \in Nat /\ faults' <= faults
      /\ counter' \in [Pids -> Nat] /\ \A p \in Pids : counter[p] <= counter'[p]
      /\ o \in Outcomes \cup {None} /\ (o # None <=> l \in {"cleanup", "done"})
  BY DEF WriterStep, Moves
<1>5. /\ KeepsName(w, l, x) /\ TouchesOnly(w, l, x) /\ Unlinks /\ FileReady(w, l, x, o) /\ Publishes(w, l, o)
  BY DEF WriterStep
<1>6. /\ AttemptsPaid /\ DurableIsSynced /\ RemovedTorn /\ Staged /\ NamesApart
      /\ NoneFromLater /\ OwnFileOnly /\ PublishedAsSaid
  BY DEF PathInv
\* No other writer holds the touched name.
<1>7. \A v \in Writers : v # w /\ pc[v] \in Naming /\ temps' # temps => temp[v] # x
  <2>1. SUFFICES ASSUME NEW v \in Writers, v # w, pc[v] \in Naming, temps' # temps PROVE temp[v] # x
    OBVIOUS
  <2>2. CASE pc[w] \in Naming
    BY <1>5, <1>6, <2>1, <2>2 DEF KeepsName, NamesApart
  <2>3. CASE pc[w] \notin Naming
    <3>1. x[1] = pid[w] /\ counter[pid[w]] <= x[2] /\ x[2] \in Nat
      BY <1>5, <2>1, <2>3 DEF TouchesOnly
    <3>2. temp[v][1] = pid[v] /\ temp[v][2] < counter[pid[v]] /\ temp[v][2] \in Nat
      BY <1>6, <2>1 DEF NamesApart
    <3>3. counter[pid[w]] \in Nat
      BY <1>2 DEF TypeOK
    <3> QED
      BY <3>1, <3>2, <3>3
  <2> QED
    BY <2>2, <2>3
\* What is in the files of other names was there before.
<1>8. \A name \in DOMAIN temps' :
         \/ name \in DOMAIN temps /\ temps'[name] = temps[name]
         \/ name = x /\ temps'[name] \in Files /\ temps'[name].author = Author(w) /\ x \in Pids \X Nat
  BY <1>5 DEF TouchesOnly
\* What left the directory was there before, or is a file of this step.
<1>17. \A r \in removed' :
         \/ r \in removed
         \/ \E n \in DOMAIN temps : r = <<n, Torn(temps[n])>> /\ temps[n] \in Files /\ n \in Pids \X Nat
  BY <1>2, <1>5 DEF Unlinks, TypeOK
<1>9. TypeOK'
  <2>1. scenario.faults \in Nat
    BY <1>2, ScenarioTyped
  <2>9. removed' \subseteq (Pids \X Nat) \X Files
    BY <1>2, <1>17, TornOnce DEF TypeOK
  <2>2. faults' \in 0..scenario.faults
    BY <1>2, <1>4, <2>1 DEF TypeOK
  <2>3. pc' \in [Writers -> Stages \cup {"done", "crashed"}]
    BY <1>2, <1>4 DEF WriterStep, Moves, TypeOK
  <2>4. temp' \in [Writers -> (Pids \X Nat) \cup {None}]
    BY <1>2, <1>5 DEF WriterStep, Moves, KeepsName, TypeOK
  <2>5. outcome' \in [Writers -> Outcomes \cup {None}]
    BY <1>2, <1>4 DEF WriterStep, Moves, TypeOK
  <2>6. dest' \in Files \cup {None} /\ dest' \in durable' /\ durable' \subseteq Files \cup {None}
    BY <1>2, <1>5 DEF Publishes, TypeOK
  <2>7. DOMAIN temps' \subseteq Pids \X Nat /\ \A name \in DOMAIN temps' : temps'[name] \in Files
    BY <1>2, <1>8 DEF TypeOK
  <2>8. \A v \in Writers : pc'[v] # "crashed" => (outcome'[v] # None <=> pc'[v] \in {"cleanup", "done"})
    BY <1>2, <1>3, <1>4 DEF TypeOK
  <2> QED
    BY <1>1, <1>2, <1>4, <2>2, <2>3, <2>4, <2>5, <2>6, <2>7, <2>8, <2>9 DEF TypeOK
<1>10. AttemptsPaid'
  <2>1. ASSUME NEW v \in Writers
        PROVE  attempt[v] + faults' + (IF pc'[v] = "crashed" THEN 1 ELSE 0) <= scenario.faults
    <3>1. attempt[v] \in Nat /\ faults \in Nat /\ scenario.faults \in Nat
      BY <1>2, ScenarioTyped DEF TypeOK
    <3>2. pc'[v] = "crashed" => pc[v] = "crashed"
      BY <1>3, <1>4 DEF Stages
    <3> QED
      BY <1>4, <1>6, <3>1, <3>2 DEF AttemptsPaid
  <2> QED
    BY <1>1, <1>2, <2>1 DEF AttemptsPaid
<1>11. DurableIsSynced'
  BY <1>5, <1>6 DEF Publishes, DurableIsSynced
<1>18. RemovedTorn'
  <2>1. SUFFICES ASSUME NEW r \in removed' PROVE Torn(r[2]) = r[2]
    BY DEF RemovedTorn
  <2> QED
    BY <1>6, <1>17, TornOnce DEF RemovedTorn
<1>12. Staged'
  <2>1. SUFFICES ASSUME NEW v \in Writers
        PROVE  /\ pc'[v] \in Owning => temp'[v] \in DOMAIN temps' /\ temps'[temp'[v]].author = Author(v)
               /\ pc'[v] \in {"flush", "sync", "commit"} => temps'[temp'[v]].whole
               /\ pc'[v] = "commit" => temps'[temp'[v]].synced
    BY <1>1 DEF Staged
  <2>2. CASE v = w
    BY <1>3, <1>5, <2>2 DEF FileReady
  <2>3. CASE v # w /\ pc[v] \in Owning
    <3>1. temp[v] \in DOMAIN temps' /\ temps'[temp[v]] = temps[temp[v]]
      BY <1>5, <1>6, <1>7, <2>3 DEF TouchesOnly, Staged, Naming, Owning
    <3> QED
      BY <1>3, <1>6, <2>3, <3>1 DEF Staged
  <2>4. CASE v # w /\ pc[v] \notin Owning
    BY <1>3, <2>4 DEF Owning
  <2> QED
    BY <2>2, <2>3, <2>4
<1>13. NamesApart'
  <2>1. \A v \in Writers : pc'[v] \in Naming =>
           temp'[v] \in Pids \X Nat /\ temp'[v][1] = pid[v] /\ temp'[v][2] < counter'[pid[v]]
    <3>1. SUFFICES ASSUME NEW v \in Writers, pc'[v] \in Naming
                   PROVE  temp'[v] \in Pids \X Nat /\ temp'[v][1] = pid[v] /\ temp'[v][2] < counter'[pid[v]]
      OBVIOUS
    <3>2. CASE pc[v] \in Naming
      <4>1. temp'[v] = temp[v]
        BY <1>3, <1>5, <3>2 DEF KeepsName
      <4>2. temp[v] \in Pids \X Nat /\ temp[v][1] = pid[v] /\ temp[v][2] < counter[pid[v]]
        BY <1>6, <3>2 DEF NamesApart
      <4>3. /\ temp[v][2] \in Nat /\ counter[pid[v]] \in Nat /\ counter'[pid[v]] \in Nat
            /\ counter[pid[v]] <= counter'[pid[v]]
        BY <1>2, <1>4, <4>2 DEF TypeOK
      <4> QED
        BY <4>1, <4>2, <4>3
    <3>3. CASE pc[v] \notin Naming
      BY <1>3, <1>5, <3>1, <3>3 DEF KeepsName
    <3> QED
      BY <3>2, <3>3
  <2>2. \A v \in Writers : v # w /\ pc'[v] \in Naming /\ l \in Naming => temp'[v] # x
    <3>1. SUFFICES ASSUME NEW v \in Writers, v # w, pc[v] \in Naming, l \in Naming PROVE temp[v] # x
      BY <1>3
    <3>2. CASE pc[w] \in Naming
      BY <1>5, <1>6, <3>1, <3>2 DEF KeepsName, NamesApart
    <3>3. CASE pc[w] \notin Naming
      <4>1. x[1] = pid[w] /\ counter[pid[w]] <= x[2] /\ x[2] \in Nat
        BY <1>5, <3>1, <3>3 DEF KeepsName
      <4>2. temp[v][1] = pid[v] /\ temp[v][2] < counter[pid[v]] /\ temp[v][2] \in Nat
        BY <1>6, <3>1 DEF NamesApart
      <4>3. counter[pid[w]] \in Nat
        BY <1>2 DEF TypeOK
      <4> QED
        BY <4>1, <4>2, <4>3
    <3> QED
      BY <3>2, <3>3
  <2>3. \A u, v \in Writers : u # v /\ pc'[u] \in Naming /\ pc'[v] \in Naming => temp'[u] # temp'[v]
    BY <1>3, <1>6, <2>2 DEF NamesApart
  <2> QED
    BY <1>1, <2>1, <2>3 DEF NamesApart
<1>14. NoneFromLater'
  <2>1. \A v \in Writers, n \in Nat : Author(w) = <<v, n>> => n <= attempt[v]
    BY <1>2 DEF Author, TypeOK
  <2>2. \A name \in DOMAIN temps' : \A v \in Writers, n \in Nat :
           temps'[name].author = <<v, n>> => n <= attempt[v]
    BY <1>6, <1>8, <2>1 DEF NoneFromLater
  <2>3. \A file \in durable' : \A v \in Writers, n \in Nat :
           file # None /\ file.author = <<v, n>> => n <= attempt[v]
    BY <1>5, <1>6, <2>1 DEF NoneFromLater, Publishes
  <2>4. \A r \in removed' : \A v \in Writers, n \in Nat :
           r[2].author = <<v, n>> => n <= attempt[v]
    BY <1>6, <1>17, TornOnce DEF NoneFromLater
  <2> QED
    BY <1>1, <2>2, <2>3, <2>4 DEF NoneFromLater
<1>15. OwnFileOnly'
  <2>1. SUFFICES ASSUME NEW name \in DOMAIN temps', NEW v \in Writers, temps'[name].author = Author(v)
        PROVE  \/ pc'[v] \in Naming /\ name = temp'[v]
               \/ pc'[v] = "crashed"
               \/ pc'[v] = "done" /\ Excused(v, name)'
    BY <1>1 DEF OwnFileOnly
  <2>2. CASE v # w
    <3>1. name \in DOMAIN temps /\ temps'[name] = temps[name]
      BY <1>2, <1>8, <2>1, <2>2, AuthorsDiffer
    <3>2. removed \subseteq removed'
      BY <1>5 DEF Unlinks
    <3> QED
      BY <1>3, <1>6, <2>1, <2>2, <3>1, <3>2 DEF OwnFileOnly, Excused
  <2>3. CASE v = w
    <3>1. CASE l = "done"
      BY <1>3, <1>5, <2>1, <2>3, <3>1 DEF FileReady, Excused
    <3>2. CASE l # "done" /\ ~(name = x /\ pc[w] \notin Naming /\ temps' # temps)
      <4>1. CASE name \in DOMAIN temps /\ temps'[name] = temps[name]
        <5>1. pc[w] \in Naming /\ name = temp[w]
          BY <1>4, <1>6, <2>1, <2>3, <4>1, LiveOwnsOne
        <5> QED
          BY <1>3, <1>5, <2>3, <3>2, <5>1 DEF KeepsName
      <4>2. CASE ~(name \in DOMAIN temps /\ temps'[name] = temps[name])
        <5>1. name = x /\ pc[w] \in Naming
          BY <1>8, <3>2, <4>2
        <5> QED
          BY <1>3, <1>5, <2>3, <3>2, <5>1 DEF KeepsName
      <4> QED
        BY <4>1, <4>2
    <3>3. CASE l # "done" /\ name = x /\ pc[w] \notin Naming /\ temps' # temps
      <4>1. l \in Naming
        BY <1>5, <3>3 DEF TouchesOnly
      <4> QED
        BY <1>3, <2>3, <3>3, <4>1
    <3> QED
      BY <3>1, <3>2, <3>3
  <2> QED
    BY <2>2, <2>3
<1>16. PublishedAsSaid'
  <2>1. \A v \in Writers : v # w => (Published(v)' <=> Published(v))
    BY <1>1, <1>2, <1>5, AuthorsDiffer DEF Published, Publishes
  <2>2. l \in Undecided => ~Published(w)'
    BY <1>1, <1>5, <1>6 DEF Publishes, Published, PublishedAsSaid
  <2>3. l = "cleanup" => (Published(w)' <=> o = Ok) /\ o.stage # "cleanup"
    BY <1>5 DEF Publishes
  <2>4. SUFFICES ASSUME NEW v \in Writers
        PROVE  /\ pc'[v] \in Undecided => ~Published(v)'
               /\ pc'[v] = "cleanup" => /\ Published(v)' <=> outcome'[v] = Ok
                                       /\ outcome'[v].stage # "cleanup"
    BY <1>1, Zenon DEF PublishedAsSaid
  <2> QED
    BY <1>3, <1>6, <2>1, <2>2, <2>3 DEF PublishedAsSaid
<1> QED
  BY <1>9, <1>10, <1>11, <1>12, <1>13, <1>14, <1>15, <1>16, <1>18 DEF PathInv
-----------------------------------------------------------------------------
(* The steps of a writer                                                   *)

\* What every step of a writer may assume.
LEMMA WriterKnown ==
    ASSUME PathInv, NEW w \in Writers
    PROVE  /\ TypeOK /\ scenario \in Scenarios
           /\ faults \in Nat /\ \A p \in Pids : counter[p] \in Nat
           /\ pid[w] \in Pids /\ temp[w] \in (Pids \X Nat) \cup {None}
           /\ [temp EXCEPT ![w] = temp[w]] = temp
           /\ [outcome EXCEPT ![w] = outcome[w]] = outcome
           /\ outcome[w] \in Outcomes \cup {None}
           /\ pc[w] # "crashed" => (outcome[w] # None <=> pc[w] \in {"cleanup", "done"})
           /\ Author(w) \in Attempts
<1>1. TypeOK /\ scenario \in Scenarios
  BY DEF PathInv, AttemptsPaid
<1>2. faults \in Nat
  BY <1>1, ScenarioTyped DEF TypeOK
<1> QED
  BY <1>1, <1>2, AuthorsDiffer DEF TypeOK

\* A fault that happens is paid from the budget.
LEMMA FaultCounts ==
    ASSUME PathInv, Fault \/ NoFault
    PROVE  faults' \in Nat /\ faults' <= faults
<1>1. faults \in Nat
  BY ScenarioTyped DEF PathInv, AttemptsPaid, TypeOK
<1> QED
  BY <1>1 DEF Fault, NoFault

\* A stage that fails leaves its error, and the file for the cleanup.
LEMMA FailKeeps ==
    ASSUME PathInv, NEW w \in Writers, pc[w] \in Owning,
           NEW kind \in {"io", "exists", "unavailable"}, FailWithCleanup(w, kind, pc[w]),
           Fault \/ NoFault, UNCHANGED <<process, counter, temp, files>>
    PROVE  PathInv'
<1> DEFINE o == Outcome(kind, pc[w], FALSE)
<1>1. o \in Outcomes /\ o # None /\ o # Ok /\ o.stage # "cleanup"
  <2>1. o \in Outcomes /\ o.kind # "ok" /\ o.stage # "cleanup" /\ Ok.kind = "ok"
    BY DEF Outcome, Outcomes, Stages, Owning, Ok
  <2> QED
    BY <2>1, WriterKnown, NoneIsNoValue
<1>2. pc' = [pc EXCEPT ![w] = "cleanup"] /\ outcome' = [outcome EXCEPT ![w] = o]
  BY DEF FailWithCleanup
<1> HIDE DEF o
<1>3. Moves(w, "cleanup", temp[w], o)
  BY <1>1, <1>2, WriterKnown, FaultCounts DEF Moves, Stages, Owning, TypeOK
<1>4. KeepsName(w, "cleanup", temp[w]) /\ TouchesOnly(w, "cleanup", temp[w]) /\ Unlinks
      /\ FileReady(w, "cleanup", temp[w], o)
  BY WriterKnown DEF KeepsName, TouchesOnly, Unlinks, FileReady, files, Naming, Owning
<1>5. Publishes(w, "cleanup", o)
  <2>1. ~Published(w)
    BY DEF PathInv, PublishedAsSaid, Undecided
  <2>2. Published(w)' <=> Published(w)
    BY DEF Published, files, process, Author
  <2> QED
    BY <1>1, <2>1, <2>2 DEF Publishes, files, Undecided, Owning
<1> QED
  BY <1>3, <1>4, <1>5, WriterStepKeeps DEF WriterStep

\* A stage that succeeds changes nothing but the writer's own file.
LEMMA StageKeeps ==
    ASSUME PathInv, NEW w \in Writers, NEW l \in Owning, pc[w] \in Owning,
           pc' = [pc EXCEPT ![w] = l], UNCHANGED <<process, faults, counter, temp, outcome, dest, durable, removed>>,
           TouchesOnly(w, l, temp[w]), FileReady(w, l, temp[w], outcome[w])
    PROVE  PathInv'
<1>1. outcome[w] = None
  BY WriterKnown DEF Owning
<1>2. Moves(w, l, temp[w], outcome[w])
  BY <1>1, WriterKnown DEF Moves, Stages, Owning, TypeOK
<1>3. KeepsName(w, l, temp[w]) /\ Unlinks /\ Publishes(w, l, outcome[w])
  BY WriterKnown DEF KeepsName, Unlinks, Publishes, Naming, Owning, Undecided
<1> QED
  BY <1>2, <1>3, WriterStepKeeps DEF WriterStep

\* Serializing creates no file: a model that is refused leaves nothing (serialize_lp_model).
LEMMA SerializeKeeps ==
    ASSUME PathInv, NEW w \in Writers, Serialize(w)
    PROVE  PathInv'
<1>1. pc[w] = "serialize" /\ UNCHANGED <<process, faults, counter, temp, files>>
  BY DEF Serialize, At
<1>2. \A name \in DOMAIN temps : temps[name].author # Author(w)
  BY <1>1, LiveOwnsOne DEF PathInv, Naming
<1>3. outcome[w] = None
  BY <1>1, WriterKnown
<1>4. CASE Go(w, "create") /\ UNCHANGED outcome
  <2>1. Moves(w, "create", temp[w], None)
    BY <1>1, <1>3, <1>4, WriterKnown DEF Moves, Stages, TypeOK, Go
  <2>2. WriterStep(w, "create", temp[w], None)
    BY <1>1, <2>1, WriterKnown
       DEF WriterStep, KeepsName, TouchesOnly, Unlinks, FileReady, Publishes, files, Naming, Owning, Undecided
  <2> QED
    BY <2>2, WriterStepKeeps
<1>5. CASE Return(w, Outcome("refused", "serialize", FALSE))
  <2> DEFINE o == Outcome("refused", "serialize", FALSE)
  <2>1. o \in Outcomes /\ o # None
    <3>1. o \in Outcomes
      BY DEF Outcome, Outcomes, Stages
    <3> QED
      BY <3>1, WriterKnown, NoneIsNoValue
  <2>2. pc' = [pc EXCEPT ![w] = "done"] /\ outcome' = [outcome EXCEPT ![w] = o]
    BY <1>5 DEF Return
  <2> HIDE DEF o
  <2>3. Moves(w, "done", temp[w], o)
    BY <1>1, <2>1, <2>2, WriterKnown DEF Moves, TypeOK
  <2>4. WriterStep(w, "done", temp[w], o)
    BY <1>1, <1>2, <2>3, WriterKnown
       DEF WriterStep, KeepsName, TouchesOnly, Unlinks, FileReady, Publishes, files, Naming, Owning, Undecided
  <2> QED
    BY <2>4, WriterStepKeeps
<1> QED
  BY <1>4, <1>5 DEF Serialize

\* The document is written to the writer's own file (write_all).
LEMMA WriteKeeps ==
    ASSUME PathInv, NEW w \in Writers, Write(w)
    PROVE  PathInv'
<1>1. pc[w] = "write" /\ pc[w] \in Owning /\ UNCHANGED <<process, counter, temp, dest, durable, removed>>
  BY DEF Write, At, Owning
<1>2. CASE Fault /\ FailWithCleanup(w, "io", "write") /\ UNCHANGED temps
  BY <1>1, <1>2, FailKeeps DEF files
<1>3. CASE NoFault /\ temps' = [temps EXCEPT ![temp[w]].whole = TRUE] /\ Go(w, "flush") /\ UNCHANGED outcome
  <2>1. temp[w] \in DOMAIN temps /\ temps[temp[w]].author = Author(w) /\ temps[temp[w]] \in Files
    BY <1>1, WriterKnown DEF PathInv, Staged, TypeOK
  <2>2. temps'[temp[w]] \in Files /\ temps'[temp[w]].author = Author(w) /\ temps'[temp[w]].whole
    BY <1>3, <2>1 DEF Files
  <2>3. temp[w] \in Pids \X Nat /\ DOMAIN temps' = DOMAIN temps
    BY <1>1, <1>3 DEF PathInv, NamesApart, Naming
  <2>4. TouchesOnly(w, "flush", temp[w]) /\ FileReady(w, "flush", temp[w], outcome[w])
    BY <1>1, <1>3, <2>1, <2>2, <2>3 DEF TouchesOnly, FileReady, Naming
  <2> QED
    BY <1>1, <1>3, <2>4, StageKeeps DEF Go, NoFault, Owning
<1> QED
  BY <1>2, <1>3 DEF Write

\* Flushing changes no file (flush).
LEMMA FlushKeeps ==
    ASSUME PathInv, NEW w \in Writers, Flush(w)
    PROVE  PathInv'
<1>1. pc[w] = "flush" /\ pc[w] \in Owning /\ UNCHANGED <<process, counter, temp, files>>
  BY DEF Flush, At, Owning
<1>2. CASE Fault /\ FailWithCleanup(w, "io", "flush")
  BY <1>1, <1>2, FailKeeps
<1>3. CASE NoFault /\ Go(w, "sync") /\ UNCHANGED outcome
  <2>1. TouchesOnly(w, "sync", temp[w]) /\ FileReady(w, "sync", temp[w], outcome[w])
    BY <1>1 DEF PathInv, Staged, TouchesOnly, FileReady, files
  <2> QED
    BY <1>1, <1>3, <2>1, StageKeeps DEF Go, NoFault, Owning, files
<1> QED
  BY <1>2, <1>3 DEF Flush

\* The file is durable before it is given the destination's name (sync_all).
LEMMA SyncKeeps ==
    ASSUME PathInv, NEW w \in Writers, Sync(w)
    PROVE  PathInv'
<1>1. pc[w] = "sync" /\ pc[w] \in Owning /\ UNCHANGED <<process, counter, temp, dest, durable, removed>>
  BY DEF Sync, At, Owning
<1>2. CASE Fault /\ FailWithCleanup(w, "io", "sync") /\ UNCHANGED temps
  BY <1>1, <1>2, FailKeeps DEF files
<1>3. CASE NoFault /\ temps' = [temps EXCEPT ![temp[w]].synced = TRUE] /\ Go(w, "commit") /\ UNCHANGED outcome
  <2>1. /\ temp[w] \in DOMAIN temps /\ temps[temp[w]].author = Author(w) /\ temps[temp[w]] \in Files
        /\ temps[temp[w]].whole
    BY <1>1, WriterKnown DEF PathInv, Staged, TypeOK
  <2>2. /\ temps'[temp[w]] \in Files /\ temps'[temp[w]].author = Author(w)
        /\ temps'[temp[w]].whole /\ temps'[temp[w]].synced
    BY <1>3, <2>1 DEF Files
  <2>3. temp[w] \in Pids \X Nat /\ DOMAIN temps' = DOMAIN temps
    BY <1>1, <1>3 DEF PathInv, NamesApart, Naming
  <2>4. TouchesOnly(w, "commit", temp[w]) /\ FileReady(w, "commit", temp[w], outcome[w])
    BY <1>1, <1>3, <2>1, <2>2, <2>3 DEF TouchesOnly, FileReady, Naming
  <2> QED
    BY <1>1, <1>3, <2>4, StageKeeps DEF Go, NoFault, Owning
<1> QED
  BY <1>2, <1>3 DEF Sync

\* A name of this process's counter that no file has is nobody else's (create_temp, create_new).
LEMMA CreateTempKeeps ==
    ASSUME PathInv, NEW w \in Writers, CreateTemp(w)
    PROVE  PathInv'
<1> DEFINE p == pid[w]
           Name(i) == <<p, counter[p] + i>>
           Free(i) == Name(i) \notin DOMAIN temps
           o == Outcome("io", "create", FALSE)
<1>1. /\ pc[w] = "create" /\ UNCHANGED <<process, dest, durable, removed>>
      /\ p \in Pids /\ counter \in [Pids -> Nat] /\ faults \in Nat /\ outcome[w] = None
  BY WriterKnown DEF CreateTemp, At, TypeOK
<1>2. \A name \in DOMAIN temps : temps[name].author # Author(w)
  BY <1>1, LiveOwnsOne DEF PathInv, Naming
<1>3. o \in Outcomes /\ o # None
  <2>1. o \in Outcomes
    BY DEF Outcome, Outcomes, Stages
  <2> QED
    BY <2>1, WriterKnown, NoneIsNoValue
<1>4. CASE \E i \in 0..(MaxTries - 1) :
             /\ Free(i) /\ \A j \in 0..(i - 1) : ~ Free(j)
             /\ temps' = [name \in DOMAIN temps \cup {Name(i)} |->
                            IF name = Name(i) THEN File(Author(w), FALSE, FALSE) ELSE temps[name]]
             /\ temp' = [temp EXCEPT ![w] = Name(i)]
             /\ counter' = [counter EXCEPT ![p] = @ + i + 1]
             /\ Go(w, "write")
             /\ UNCHANGED <<faults, outcome>>
  <2>1. PICK i \in 0..(MaxTries - 1) :
           /\ Free(i)
           /\ temps' = [name \in DOMAIN temps \cup {Name(i)} |->
                          IF name = Name(i) THEN File(Author(w), FALSE, FALSE) ELSE temps[name]]
           /\ temp' = [temp EXCEPT ![w] = Name(i)]
           /\ counter' = [counter EXCEPT ![p] = @ + i + 1]
           /\ Go(w, "write")
           /\ UNCHANGED <<faults, outcome>>
    BY <1>4
  <2>2. i \in Nat
    BY <2>1, MaxTriesAssumption
  <2> DEFINE x == Name(i)
  <2>3. /\ x \in Pids \X Nat /\ x[1] = p /\ counter[p] <= x[2] /\ x[2] < counter[p] + i + 1
        /\ counter[p] \in Nat
    BY <1>1, <2>2
  <2>4. /\ counter' \in [Pids -> Nat] /\ counter'[p] = counter[p] + i + 1
        /\ \A q \in Pids : counter[q] <= counter'[q]
    <3>1. \A q \in Pids : counter[q] \in Nat /\ counter'[q] = IF q = p THEN counter[p] + i + 1 ELSE counter[q]
      BY <1>1, <2>1
    <3> QED
      BY <1>1, <2>1, <2>2, <2>3, <3>1
  <2>5. File(Author(w), FALSE, FALSE) \in Files /\ File(Author(w), FALSE, FALSE).author = Author(w)
    BY WriterKnown DEF File, Files
  <2>6. /\ DOMAIN temps' = DOMAIN temps \cup {x}
        /\ temps'[x] = File(Author(w), FALSE, FALSE)
        /\ x \notin DOMAIN temps
        /\ \A name \in DOMAIN temps : name # x => temps'[name] = temps[name]
    BY <2>1
  <2> HIDE DEF x
  <2>7. temp' = [temp EXCEPT ![w] = x]
    BY <2>1 DEF x
  <2>8. Moves(w, "write", x, None)
    <3>1. UNCHANGED faults /\ outcome' = [outcome EXCEPT ![w] = None] /\ pc' = [pc EXCEPT ![w] = "write"]
      BY <1>1, <2>1, WriterKnown DEF Go
    <3> QED
      BY <1>1, <2>4, <2>7, <3>1 DEF Moves, Stages
  <2>9. KeepsName(w, "write", x)
    BY <1>1, <2>3, <2>4 DEF KeepsName, Naming
  <2>10. TouchesOnly(w, "write", x)
    BY <2>3, <2>5, <2>6 DEF TouchesOnly, Naming
  <2>11. FileReady(w, "write", x, None) /\ Unlinks /\ Publishes(w, "write", None)
    BY <1>1, <2>5, <2>6 DEF FileReady, Unlinks, Publishes, Undecided, Owning
  <2> QED
    BY <2>8, <2>9, <2>10, <2>11, WriterStepKeeps DEF WriterStep
<1>5. CASE \E n \in {1, MaxTries} :
             /\ counter' = [counter EXCEPT ![p] = @ + n]
             /\ Return(w, o) /\ (Fault \/ NoFault) /\ UNCHANGED <<temp, temps>>
  <2>1. PICK n \in {1, MaxTries} :
             /\ counter' = [counter EXCEPT ![p] = @ + n]
             /\ Return(w, o) /\ (Fault \/ NoFault) /\ UNCHANGED <<temp, temps>>
    BY <1>5
  <2>2. n \in Nat
    BY MaxTriesAssumption
  <2>3. counter' \in [Pids -> Nat] /\ \A q \in Pids : counter[q] <= counter'[q]
    <3>1. \A q \in Pids : counter[q] \in Nat /\ counter'[q] = IF q = p THEN counter[p] + n ELSE counter[q]
      BY <1>1, <2>1
    <3> QED
      BY <1>1, <2>1, <2>2, <3>1
  <2> HIDE DEF o
  <2>4. Moves(w, "done", temp[w], o)
    BY <1>1, <1>3, <2>1, <2>3, WriterKnown, FaultCounts DEF Moves, Return, TypeOK
  <2>5. WriterStep(w, "done", temp[w], o)
    BY <1>1, <1>2, <2>1, <2>4, WriterKnown
       DEF WriterStep, KeepsName, TouchesOnly, Unlinks, FileReady, Publishes, Naming, Owning, Undecided
  <2> QED
    BY <2>5, WriterStepKeeps
<1> QED
  BY <1>4, <1>5 DEF CreateTemp, NoFault

\* Publishing gives the destination a file that is whole and durable (atomic_commit).
LEMMA CommitKeeps ==
    ASSUME PathInv, NEW w \in Writers, Commit(w)
    PROVE  PathInv'
<1>1. pc[w] = "commit" /\ pc[w] \in Owning /\ UNCHANGED <<process, counter, temp>>
  BY DEF Commit, At, Owning
<1>2. ASSUME NEW kind \in {"io", "exists", "unavailable"}, FailWithCleanup(w, kind, "commit"),
             Fault \/ NoFault, UNCHANGED files
      PROVE  PathInv'
  BY <1>1, <1>2, FailKeeps
<1>3. CASE /\ AtomicCommit(w)
           /\ durable' = durable \cup {dest'}
           /\ Go(w, "cleanup")
           /\ outcome' = [outcome EXCEPT ![w] = Ok]
           /\ NoFault
  <2>1. /\ temp[w] \in DOMAIN temps /\ temps[temp[w]].author = Author(w) /\ temps[temp[w]] \in Files
        /\ temps[temp[w]].whole /\ temps[temp[w]].synced /\ temp[w] \in Pids \X Nat
    BY <1>1, WriterKnown DEF PathInv, Staged, TypeOK, NamesApart, Naming
  <2>2. /\ dest' = temps[temp[w]]
        /\ \/ temps' = temps
           \/ temps' = [name \in DOMAIN temps \ {temp[w]} |-> temps[name]]
        /\ Unlinks
    BY <1>3 DEF AtomicCommit, Link, Rename, Unlink, Unlinks
  <2>3. Ok \in Outcomes /\ Ok # None /\ Ok.stage # "cleanup"
    <3>1. Ok \in Outcomes /\ Ok.stage = None
      BY DEF Ok, Outcome, Outcomes
    <3> QED
      BY <3>1, WriterKnown, NoneIsNoValue DEF Stages
  <2>4. Moves(w, "cleanup", temp[w], Ok)
    BY <1>1, <1>3, <2>3, WriterKnown, FaultCounts DEF Moves, Go, Stages, TypeOK
  <2>5. KeepsName(w, "cleanup", temp[w]) /\ TouchesOnly(w, "cleanup", temp[w])
        /\ FileReady(w, "cleanup", temp[w], Ok)
    BY <1>1, <2>1, <2>2 DEF KeepsName, TouchesOnly, FileReady, Naming, Owning
  <2>6. Published(w)'
    <3>1. dest' # None /\ dest' \in durable' /\ dest'.author = Author(w) /\ Author(w)' = Author(w)
      BY <1>1, <1>3, <2>1, <2>2, WriterKnown, NoneIsNoValue DEF process, Author
    <3> QED
      BY <3>1 DEF Published
  <2>7. Publishes(w, "cleanup", Ok)
    BY <1>3, <2>1, <2>2, <2>3, <2>6 DEF Publishes, Undecided, Owning
  <2> QED
    BY <2>2, <2>4, <2>5, <2>7, WriterStepKeeps DEF WriterStep
<1>4. CASE Job(w).policy = "CreateNew" /\ dest # None
           /\ FailWithCleanup(w, "exists", "commit") /\ UNCHANGED <<faults, files>>
  BY <1>2, <1>4 DEF NoFault
<1>5. CASE Fault /\ (\E kind \in {"io"} \cup (IF Job(w).policy = "AtomicReplace" THEN {"unavailable"} ELSE {}) :
                       FailWithCleanup(w, kind, "commit"))
           /\ UNCHANGED files
  BY <1>2, <1>5
<1> QED
  BY <1>3, <1>4, <1>5 DEF Commit

\* The cleanup removes the writer's own name or reports it (cleanup_temp).
LEMMA CleanupKeeps ==
    ASSUME PathInv, NEW w \in Writers, Cleanup(w)
    PROVE  PathInv'
<1>1. /\ pc[w] = "cleanup" /\ UNCHANGED <<process, counter, temp, dest, durable>>
      /\ pc' = [pc EXCEPT ![w] = "done"]
  BY DEF Cleanup, At, Go
<1>2. temp[w] \in Pids \X Nat /\ outcome[w] \in Outcomes /\ outcome[w] # None
  BY <1>1, WriterKnown DEF PathInv, NamesApart, Naming
<1>3. \A name \in DOMAIN temps : temps[name].author = Author(w) => name = temp[w]
  BY <1>1, LiveOwnsOne DEF PathInv
<1>4. CASE NoFault /\ Unlink(temp[w]) /\ UNCHANGED outcome
  <2>4. temps' = [name \in DOMAIN temps \ {temp[w]} |-> temps[name]] /\ Unlinks
    BY <1>4 DEF Unlink, Unlinks
  <2>1. Moves(w, "done", temp[w], outcome[w])
    BY <1>1, <1>2, <1>4, WriterKnown, FaultCounts DEF Moves, TypeOK
  <2>2. \A name \in DOMAIN temps' : temps'[name].author # Author(w)
    BY <1>3, <2>4
  <2>3. WriterStep(w, "done", temp[w], outcome[w])
    BY <1>1, <1>2, <2>1, <2>2, <2>4
       DEF WriterStep, KeepsName, TouchesOnly, Unlinks, FileReady, Publishes, Naming, Owning, Undecided
  <2> QED
    BY <2>3, WriterStepKeeps
<1>5. CASE Fault /\ outcome' = [outcome EXCEPT ![w] = CleanupFailed(@)] /\ UNCHANGED <<temps, removed>>
  <2> DEFINE o == CleanupFailed(outcome[w])
  <2>1. o \in Outcomes /\ (o.cleanup \/ o.stage = "cleanup")
    BY <1>2 DEF CleanupFailed, Outcome, Outcomes, Stages
  <2>2. o # None
    BY <2>1, WriterKnown, NoneIsNoValue
  <2>3. outcome' = [outcome EXCEPT ![w] = o]
    BY <1>5, WriterKnown DEF TypeOK
  <2> HIDE DEF o
  <2>4. Moves(w, "done", temp[w], o)
    <3>1. faults' \in Nat /\ faults' <= faults /\ temp' = [temp EXCEPT ![w] = temp[w]]
      BY <1>1, <1>5, WriterKnown, FaultCounts
    <3>2. counter' \in [Pids -> Nat] /\ \A p \in Pids : counter[p] <= counter'[p]
      BY <1>1, WriterKnown DEF TypeOK
    <3> QED
      BY <1>1, <2>1, <2>2, <2>3, <3>1, <3>2 DEF Moves
  <2>5. WriterStep(w, "done", temp[w], o)
    BY <1>1, <1>2, <1>5, <2>1, <2>4
       DEF WriterStep, KeepsName, TouchesOnly, Unlinks, FileReady, Publishes, Naming, Owning, Undecided
  <2> QED
    BY <2>5, WriterStepKeeps
<1> QED
  BY <1>4, <1>5 DEF Cleanup

-----------------------------------------------------------------------------
(* The environment                                                         *)

\* A process that is killed leaves its files to nobody.
LEMMA KillKeeps ==
    ASSUME PathInv, NEW p \in Pids, Kill(p)
    PROVE  PathInv'
<1>1. /\ UNCHANGED <<scenario, pid, attempt, temp, outcome, dest, temps, durable, removed>>
      /\ Writers' = Writers /\ Files' = Files
      /\ \A w \in Writers : Author(w)' = Author(w) /\ (Published(w)' <=> Published(w))
      /\ faults > 0 /\ faults' = faults - 1
      /\ counter' = [counter EXCEPT ![p] = 0]
  BY DEF Kill, process, files, Writers, Files, Attempts, Author, Published, Fault
<1>2. \A w \in Writers : pc'[w] = IF pid[w] = p /\ pc[w] # "done" THEN "crashed" ELSE pc[w]
  BY DEF Kill
<1>3. TypeOK /\ scenario \in Scenarios /\ faults \in Nat /\ scenario.faults \in Nat
  BY ScenarioTyped DEF PathInv, AttemptsPaid, TypeOK
<1>4. \A q \in Pids : counter'[q] = IF q = p THEN 0 ELSE counter[q]
  BY <1>1, <1>3 DEF TypeOK
<1>5. TypeOK'
  <2>1. faults' \in 0..scenario.faults /\ counter' \in [Pids -> Nat]
    BY <1>1, <1>3 DEF TypeOK
  <2>2. pc' \in [Writers -> Stages \cup {"done", "crashed"}]
    BY <1>3 DEF Kill, TypeOK
  <2> QED
    BY <1>1, <1>2, <1>3, <2>1, <2>2 DEF TypeOK
<1>6. AttemptsPaid'
  <2>1. \A w \in Writers : attempt[w] + faults' + (IF pc'[w] = "crashed" THEN 1 ELSE 0) <= scenario.faults
    <3>1. SUFFICES ASSUME NEW w \in Writers
          PROVE  attempt[w] + faults' + (IF pc'[w] = "crashed" THEN 1 ELSE 0) <= scenario.faults
      OBVIOUS
    <3>2. attempt[w] \in Nat /\ attempt[w] + faults <= scenario.faults
      BY <1>3 DEF TypeOK, PathInv, AttemptsPaid
    <3> QED
      BY <1>1, <1>3, <3>2
  <2> QED
    BY <1>1, <1>3, <2>1 DEF AttemptsPaid
<1>7. DurableIsSynced' /\ RemovedTorn' /\ NoneFromLater'
  BY <1>1 DEF PathInv, DurableIsSynced, RemovedTorn, NoneFromLater
<1>8. Staged' /\ OwnFileOnly'
  BY <1>1, <1>2 DEF PathInv, Staged, OwnFileOnly, Excused, Owning, Naming
<1>9. NamesApart'
  BY <1>1, <1>2, <1>4 DEF PathInv, NamesApart, Naming
<1>10. PublishedAsSaid'
  <2>1. SUFFICES ASSUME NEW w \in Writers
        PROVE  /\ pc'[w] \in Undecided => ~Published(w)'
               /\ pc'[w] = "cleanup" => /\ Published(w)' <=> outcome'[w] = Ok
                                       /\ outcome'[w].stage # "cleanup"
    BY <1>1, Zenon DEF PublishedAsSaid
  <2>2. pc'[w] \in Undecided \cup {"cleanup"} => pc'[w] = pc[w]
    BY <1>2 DEF Undecided, Owning
  <2> QED
    BY <1>1, <2>2 DEF PathInv, PublishedAsSaid, Undecided, Owning
<1> QED
  BY <1>5, <1>6, <1>7, <1>8, <1>9, <1>10 DEF PathInv

\* After a power failure the directory shows a destination that was durable, and files
\* nobody owns.
LEMMA PowerFailureKeeps ==
    ASSUME PathInv, PowerFailure
    PROVE  PathInv' /\ dest' \in durable /\ durable' = {dest'}
<1>1. /\ UNCHANGED <<scenario, pid, attempt, temp, outcome>>
      /\ Writers' = Writers /\ Files' = Files
      /\ \A w \in Writers : Author(w)' = Author(w)
      /\ faults > 0 /\ faults' = faults - 1
      /\ counter' = [p \in Pids |-> 0]
  BY DEF PowerFailure, process, Writers, Files, Attempts, Author, Fault
<1>2. /\ pc' = [w \in Writers |-> IF pc[w] = "done" THEN "done" ELSE "crashed"]
      /\ \A w \in Writers : pc'[w] = IF pc[w] = "done" THEN "done" ELSE "crashed"
  BY DEF PowerFailure
<1>3. TypeOK /\ scenario \in Scenarios /\ faults \in Nat /\ scenario.faults \in Nat
  BY ScenarioTyped DEF PathInv, AttemptsPaid, TypeOK
<1>4. dest' \in durable /\ durable' = {dest'}
  <2>1. PICK file \in durable : dest' = Torn(file) /\ durable' = {dest'}
    BY DEF PowerFailure
  <2>2. Torn(file) = file
    BY DEF PathInv, DurableIsSynced, Torn
  <2> QED
    BY <2>1, <2>2
<1>5. PICK found \in SUBSET ({<<name, Torn(temps[name])>> : name \in DOMAIN temps} \cup removed) :
         /\ \A e1, e2 \in found : e1[1] = e2[1] => e1 = e2
         /\ temps' = [name \in {e[1] : e \in found} |-> (CHOOSE e \in found : e[1] = name)[2]]
         /\ removed' = found \cap removed
  BY DEF PowerFailure
\* A name that is found was there, or is one of those removed.
<1>6. /\ removed' \subseteq removed
      /\ \A name \in DOMAIN temps' :
            /\ name \in Pids \X Nat /\ temps'[name] \in Files
            /\ \/ name \in DOMAIN temps /\ temps'[name] = Torn(temps[name])
                  /\ temps[name] \in Files /\ <<name, Torn(temps[name])>> \notin removed
               \/ <<name, temps'[name]>> \in removed'
  <2>1. SUFFICES ASSUME NEW name \in DOMAIN temps'
        PROVE  /\ name \in Pids \X Nat /\ temps'[name] \in Files
               /\ \/ name \in DOMAIN temps /\ temps'[name] = Torn(temps[name])
                     /\ temps[name] \in Files /\ <<name, Torn(temps[name])>> \notin removed
                  \/ <<name, temps'[name]>> \in removed'
    BY <1>5
  <2> DEFINE e == CHOOSE e \in found : e[1] = name
  <2>2. e \in found /\ e[1] = name /\ temps'[name] = e[2]
    BY <1>5, <2>1
  <2> HIDE DEF e
  <2>3. CASE e \in removed
    <3>1. e \in (Pids \X Nat) \X Files
      BY <1>3, <2>3 DEF TypeOK
    <3>2. e = <<name, temps'[name]>>
      BY <2>2, <3>1
    <3> QED
      BY <1>5, <2>2, <2>3, <3>1, <3>2
  <2>4. CASE e \notin removed
    <3>1. PICK n \in DOMAIN temps : e = <<n, Torn(temps[n])>>
      BY <1>5, <2>2, <2>4
    <3>2. n = name /\ temps[name] \in Files /\ name \in Pids \X Nat
      BY <1>3, <2>2, <3>1 DEF TypeOK
    <3> QED
      BY <2>2, <2>4, <3>1, <3>2, TornOnce
  <2> QED
    BY <2>3, <2>4
<1>7. TypeOK'
  <2>1. faults' \in 0..scenario.faults /\ counter' \in [Pids -> Nat]
    BY <1>1, <1>3 DEF TypeOK
  <2>2. pc' \in [Writers -> Stages \cup {"done", "crashed"}]
    BY <1>2
  <2>3. dest' \in Files \cup {None} /\ dest' \in durable' /\ durable' \subseteq Files \cup {None}
    BY <1>3, <1>4 DEF TypeOK
  <2>4. DOMAIN temps' \subseteq Pids \X Nat /\ removed' \subseteq (Pids \X Nat) \X Files
    BY <1>3, <1>6 DEF TypeOK
  <2>5. \A w \in Writers : pc'[w] # "crashed" => (outcome'[w] # None <=> pc'[w] \in {"cleanup", "done"})
    BY <1>1, <1>2, <1>3 DEF TypeOK
  <2> QED
    BY <1>1, <1>3, <1>6, <2>1, <2>2, <2>3, <2>4, <2>5 DEF TypeOK
<1>8. AttemptsPaid'
  <2>1. \A w \in Writers : attempt[w] + faults' + (IF pc'[w] = "crashed" THEN 1 ELSE 0) <= scenario.faults
    <3>1. SUFFICES ASSUME NEW w \in Writers
          PROVE  attempt[w] + faults' + (IF pc'[w] = "crashed" THEN 1 ELSE 0) <= scenario.faults
      OBVIOUS
    <3>2. attempt[w] \in Nat /\ attempt[w] + faults <= scenario.faults
      BY <1>3 DEF TypeOK, PathInv, AttemptsPaid
    <3> QED
      BY <1>1, <1>3, <3>2
  <2> QED
    BY <1>1, <1>3, <2>1 DEF AttemptsPaid
<1>9. DurableIsSynced' /\ RemovedTorn' /\ NoneFromLater'
  <2>1. DurableIsSynced' /\ RemovedTorn'
    BY <1>4, <1>6 DEF PathInv, DurableIsSynced, RemovedTorn
  <2>2. ASSUME NEW name \in DOMAIN temps', NEW w \in Writers, NEW n \in Nat,
               temps'[name].author = <<w, n>>
        PROVE  n <= attempt[w]
    <3>1. CASE name \in DOMAIN temps /\ temps'[name] = Torn(temps[name]) /\ temps[name] \in Files
      BY <2>2, <3>1, TornOnce DEF PathInv, NoneFromLater
    <3>2. CASE <<name, temps'[name]>> \in removed
      <4> DEFINE r == <<name, temps'[name]>>
      <4>1. r \in removed /\ r[2].author = <<w, n>>
        BY <2>2, <3>2
      <4> HIDE DEF r
      <4> QED
        BY <4>1 DEF PathInv, NoneFromLater
    <3> QED
      BY <1>6, <3>1, <3>2
  <2> QED
    BY <1>1, <1>4, <1>6, <2>1, <2>2 DEF PathInv, NoneFromLater
<1>10. Staged' /\ NamesApart'
  BY <1>1, <1>2 DEF Staged, NamesApart, Owning, Naming
<1>11. OwnFileOnly'
  <2>1. SUFFICES ASSUME NEW name \in DOMAIN temps', NEW w \in Writers,
                        temps'[name].author = Author(w), pc[w] = "done"
        PROVE  \/ outcome[w].cleanup \/ outcome[w].stage = "cleanup"
               \/ <<name, temps'[name]>> \in removed'
    BY <1>1, <1>2 DEF OwnFileOnly, Excused
  <2>2. CASE name \in DOMAIN temps /\ temps'[name] = Torn(temps[name])
             /\ temps[name] \in Files /\ <<name, Torn(temps[name])>> \notin removed
    <3>1. temps[name].author = Author(w)
      BY <2>1, <2>2, TornOnce
    <3>2. <<name, temps[name]>> \notin removed
      <4>1. SUFFICES ASSUME <<name, temps[name]>> \in removed PROVE FALSE
        OBVIOUS
      <4> DEFINE r == <<name, temps[name]>>
      <4>2. Torn(r[2]) = r[2]
        <5>1. r \in removed
          BY <4>1
        <5> HIDE DEF r
        <5> QED
          BY <5>1 DEF PathInv, RemovedTorn
      <4> QED
        BY <2>2, <4>1, <4>2
    <3> QED
      BY <2>1, <2>2, <3>1, <3>2 DEF PathInv, OwnFileOnly, Excused, Naming
  <2> QED
    BY <1>6, <2>1, <2>2
<1>12. PublishedAsSaid'
  BY <1>1, <1>2 DEF PublishedAsSaid, Undecided, Owning
<1> QED
  BY <1>4, <1>7, <1>8, <1>9, <1>10, <1>11, <1>12 DEF PathInv

\* A writer that is started again is a new author, with a process of its own.
LEMMA RestartKeeps ==
    ASSUME PathInv, NEW w \in Writers, Restart(w)
    PROVE  PathInv'
<1>1. PICK q \in Pids : pid' = [pid EXCEPT ![w] = q]
  BY DEF Restart
<1>2. /\ UNCHANGED <<scenario, faults, counter, dest, temps, durable, removed>>
      /\ Writers' = Writers /\ Files' = Files
      /\ pc[w] = "crashed" /\ pc' = [pc EXCEPT ![w] = "serialize"]
      /\ attempt' = [attempt EXCEPT ![w] = @ + 1]
      /\ outcome' = [outcome EXCEPT ![w] = None]
      /\ temp' = [temp EXCEPT ![w] = None]
  BY DEF Restart, At, Go, files, Writers, Files, Attempts
<1>3. TypeOK /\ scenario \in Scenarios /\ faults \in Nat /\ scenario.faults \in Nat
  BY ScenarioTyped DEF PathInv, AttemptsPaid, TypeOK
<1>4. /\ pc'[w] = "serialize" /\ temp'[w] = None /\ outcome'[w] = None /\ attempt'[w] = attempt[w] + 1
      /\ \A v \in Writers : v # w => /\ pc'[v] = pc[v] /\ temp'[v] = temp[v] /\ outcome'[v] = outcome[v]
                                   /\ attempt'[v] = attempt[v] /\ pid'[v] = pid[v]
  BY <1>1, <1>2, <1>3 DEF TypeOK
<1>5. attempt[w] \in Nat /\ attempt[w] + faults + 1 <= scenario.faults
  BY <1>2, <1>3 DEF TypeOK, PathInv, AttemptsPaid
<1>6. /\ Author(w)' = <<w, attempt[w] + 1>>
      /\ \A v \in Writers : v # w => Author(v)' = Author(v) /\ (Published(v)' <=> Published(v))
  BY <1>2, <1>4 DEF Author, Published
<1>7. /\ \A name \in DOMAIN temps : temps[name].author # <<w, attempt[w] + 1>>
      /\ \A file \in durable : file # None => file.author # <<w, attempt[w] + 1>>
  <2>1. attempt[w] + 1 \in Nat /\ ~(attempt[w] + 1 <= attempt[w])
    BY <1>5
  <2> QED
    BY <2>1 DEF PathInv, NoneFromLater
<1>8. TypeOK'
  <2>1. attempt' \in [Writers -> 0..scenario.faults]
    <3>1. attempt[w] + 1 \in 0..scenario.faults
      BY <1>3, <1>5
    <3> QED
      BY <1>2, <1>3, <3>1 DEF TypeOK
  <2>2. /\ pc' \in [Writers -> Stages \cup {"done", "crashed"}] /\ pid' \in [Writers -> Pids]
        /\ temp' \in [Writers -> (Pids \X Nat) \cup {None}]
        /\ outcome' \in [Writers -> Outcomes \cup {None}]
    BY <1>1, <1>2, <1>3 DEF TypeOK, Stages
  <2>3. \A v \in Writers : pc'[v] # "crashed" => (outcome'[v] # None <=> pc'[v] \in {"cleanup", "done"})
    BY <1>3, <1>4 DEF TypeOK
  <2> QED
    BY <1>2, <1>3, <2>1, <2>2, <2>3 DEF TypeOK
<1>9. AttemptsPaid'
  <2>1. \A v \in Writers : attempt'[v] + faults + (IF pc'[v] = "crashed" THEN 1 ELSE 0) <= scenario.faults
    BY <1>3, <1>4, <1>5 DEF PathInv, AttemptsPaid
  <2> QED
    BY <1>2, <1>3, <2>1 DEF AttemptsPaid
<1>10. DurableIsSynced' /\ RemovedTorn'
  BY <1>2 DEF PathInv, DurableIsSynced, RemovedTorn
<1>11. NoneFromLater'
  <2>1. \A v \in Writers, n \in Nat : n <= attempt[v] => n <= attempt'[v]
    BY <1>3, <1>4, <1>5 DEF TypeOK
  <2> QED
    BY <1>2, <2>1 DEF PathInv, NoneFromLater
<1>12. Staged'
  BY <1>2, <1>4, <1>6 DEF PathInv, Staged, Owning
<1>13. NamesApart'
  BY <1>2, <1>4 DEF PathInv, NamesApart, Naming
<1>14. OwnFileOnly'
  BY <1>2, <1>4, <1>6, <1>7 DEF PathInv, OwnFileOnly, Excused, Naming
<1>15. PublishedAsSaid'
  <2>1. SUFFICES ASSUME NEW v \in Writers
        PROVE  /\ pc'[v] \in Undecided => ~Published(v)'
               /\ pc'[v] = "cleanup" => /\ Published(v)' <=> outcome'[v] = Ok
                                       /\ outcome'[v].stage # "cleanup"
    BY <1>2, Zenon DEF PublishedAsSaid
  <2>2. ~Published(w)'
    BY <1>2, <1>6, <1>7 DEF Published
  <2> QED
    BY <1>4, <1>6, <2>2 DEF PathInv, PublishedAsSaid
<1> QED
  BY <1>8, <1>9, <1>10, <1>11, <1>12, <1>13, <1>14, <1>15 DEF PathInv

-----------------------------------------------------------------------------
(* The theorems                                                            *)

\* No writer has done anything and an older file is whole.
LEMMA InitKeeps == Init => PathInv
<1> SUFFICES ASSUME Init PROVE PathInv
  OBVIOUS
<1> USE DEF Init
<1>1. scenario \in Scenarios /\ scenario.faults \in Nat
  BY ScenarioTyped
<1>2. File(None, TRUE, TRUE) \in Files /\ File(None, TRUE, TRUE).author = None
  BY DEF File, Files
<1>3. DOMAIN temps = {} /\ durable = {dest} /\ dest \in {None, File(None, TRUE, TRUE)}
  OBVIOUS
<1>4. \A w \in Writers, n \in Nat : <<w, n>> # None
  <2>1. \A w \in Writers, n \in Nat : <<w, n>> \in AnyWriter \X Nat
    BY <1>1, ScenarioTyped
  <2> QED
    BY <2>1, NoneAssumption
<1>5. TypeOK
  <2>1. faults \in 0..scenario.faults
    BY <1>1
  <2>2. /\ pc \in [Writers -> Stages \cup {"done", "crashed"}]
        /\ pid \in [Writers -> Pids]
        /\ attempt \in [Writers -> 0..scenario.faults]
    BY <1>1 DEF Stages
  <2>3. counter \in [Pids -> Nat]
    OBVIOUS
  <2>4. /\ temp \in [Writers -> (Pids \X Nat) \cup {None}]
        /\ outcome \in [Writers -> Outcomes \cup {None}]
    OBVIOUS
  <2>5. dest \in Files \cup {None} /\ dest \in durable /\ durable \subseteq Files \cup {None}
    BY <1>2, <1>3
  <2>6. DOMAIN temps \subseteq Pids \X Nat /\ \A name \in DOMAIN temps : temps[name] \in Files
    BY <1>3
  <2>7. \A w \in Writers :
          pc[w] # "crashed" => (outcome[w] # None <=> pc[w] \in {"cleanup", "done"})
    OBVIOUS
  <2>8. removed = {}
    OBVIOUS
  <2> HIDE DEF Init
  <2> QED
    BY <2>1, <2>2, <2>3, <2>4, <2>5, <2>6, <2>7, <2>8 DEF TypeOK
<1>6. AttemptsPaid
  BY <1>1 DEF AttemptsPaid
<1>7. DurableIsSynced /\ RemovedTorn
  BY <1>3 DEF DurableIsSynced, RemovedTorn, File
<1>8. Staged /\ NamesApart
  BY DEF Staged, NamesApart, Owning, Naming
<1>9. NoneFromLater /\ OwnFileOnly
  BY <1>2, <1>3, <1>4 DEF NoneFromLater, OwnFileOnly
<1>10. PublishedAsSaid
  BY <1>2, <1>3, <1>4 DEF PublishedAsSaid, Published, Author
<1> QED
  BY <1>5, <1>6, <1>7, <1>8, <1>9, <1>10 DEF PathInv

\* The invariant is about the variables alone.
LEMMA StutterKeeps ==
    ASSUME PathInv, UNCHANGED vars
    PROVE  PathInv'
<1>1. /\ UNCHANGED <<scenario, faults, pc, pid, attempt, counter, temp, outcome, dest, temps, durable, removed>>
      /\ Writers' = Writers /\ Files' = Files
      /\ \A w \in Writers : Author(w)' = Author(w) /\ (Published(w)' <=> Published(w))
  BY DEF vars, Writers, Files, Attempts, Author, Published
<1>2. TypeOK' /\ AttemptsPaid' /\ DurableIsSynced' /\ RemovedTorn'
  BY <1>1 DEF PathInv, TypeOK, AttemptsPaid, DurableIsSynced, RemovedTorn
<1>3. Staged' /\ NamesApart' /\ NoneFromLater' /\ OwnFileOnly'
  BY <1>1 DEF PathInv, Staged, NamesApart, NoneFromLater, OwnFileOnly, Excused
<1>4. PublishedAsSaid'
  <2>1. SUFFICES ASSUME NEW w \in Writers
        PROVE  /\ pc'[w] \in Undecided => ~Published(w)'
               /\ pc'[w] = "cleanup" => /\ Published(w)' <=> outcome'[w] = Ok
                                       /\ outcome'[w].stage # "cleanup"
    BY <1>1, Zenon DEF PublishedAsSaid
  <2> QED
    BY <1>1 DEF PathInv, PublishedAsSaid
<1> QED
  BY <1>2, <1>3, <1>4 DEF PathInv

\* Every step of the writers and of what surrounds them.
LEMMA StepKeeps == PathInv /\ [Next]_vars => PathInv'
<1> SUFFICES ASSUME PathInv, [Next]_vars PROVE PathInv'
  OBVIOUS
<1>1. ASSUME NEW w \in Writers, Step(w) PROVE PathInv'
  BY <1>1, SerializeKeeps, CreateTempKeeps, WriteKeeps, FlushKeeps, SyncKeeps, CommitKeeps,
     CleanupKeeps, RestartKeeps DEF Step
<1>2. ASSUME NEW p \in Pids, Kill(p) PROVE PathInv'
  BY <1>2, KillKeeps
<1>3. CASE PowerFailure
  BY <1>3, PowerFailureKeeps
<1>4. CASE UNCHANGED vars
  BY <1>4, StutterKeeps
<1> QED
  BY <1>1, <1>2, <1>3, <1>4 DEF Next

\* The invariant holds in every reachable state.
LEMMA Inductive == Spec => []PathInv
<1>1. Init => PathInv
  BY InitKeeps
<1>2. PathInv /\ [Next]_vars => PathInv'
  BY StepKeeps
<1> QED
  BY <1>1, <1>2, PTL DEF Spec

\* Writers, names, files and outcomes are of their types, and a writer has an outcome
\* exactly from the moment commit_path_with_ops decided its transaction.
THEOREM TypeCorrect == Spec => []TypeOK
<1>1. PathInv => TypeOK
  BY DEF PathInv
<1> QED
  BY <1>1, Inductive, PTL

\* Whatever fails and whenever the power goes, a reader of the destination finds a whole
\* document or none: path.rs makes the bytes durable before it gives them the name.
THEOREM DestinationIsWhole == Spec => []DestinationWhole
<1>1. PathInv => DestinationWhole
  BY DEF PathInv, DurableIsSynced, DestinationWhole
<1> QED
  BY <1>1, Inductive, PTL

\* No two writers ever hold one temporary name, whichever process identifiers the
\* system gives again, and one that returned left no file it did not report, unless a
\* power failure brought back a name that it had removed (create_temp, cleanup_temp).
THEOREM TempsAreOwned == Spec => []TempsOwned
<1>1. PathInv => TempsOwned
  <2> SUFFICES ASSUME PathInv, NEW w \in Writers
      PROVE  /\ pc[w] \in {"write", "flush", "sync", "commit"} =>
                  temp[w] \in DOMAIN temps /\ temps[temp[w]].author = Author(w)
             /\ pc[w] = "done" => \A name \in DOMAIN temps :
                  temps[name].author = Author(w) =>
                    \/ outcome[w].cleanup \/ outcome[w].stage = "cleanup"
                    \/ <<name, temps[name]>> \in removed
    BY DEF TempsOwned
  <2>1. pc[w] \in {"write", "flush", "sync", "commit"} =>
           temp[w] \in DOMAIN temps /\ temps[temp[w]].author = Author(w)
    BY DEF PathInv, Staged, Owning
  <2>2. pc[w] = "done" => \A name \in DOMAIN temps :
           temps[name].author = Author(w) =>
             \/ outcome[w].cleanup \/ outcome[w].stage = "cleanup"
             \/ <<name, temps[name]>> \in removed
    BY DEF PathInv, OwnFileOnly, Excused, Naming
  <2> QED
    BY <2>1, <2>2
<1> QED
  BY <1>1, Inductive, PTL

\* The outcome says of the new state whether the writer's file was published in it.
Told(w) == Published(w)' <=> outcome'[w] \in {Ok, Outcome("io", "cleanup", FALSE)}

\* An error before the commit is about a file that was not published.
LEMMA UnpublishedTold ==
    ASSUME PathInv, NEW w \in Writers, pc[w] \in Undecided, NEW kind, NEW stage, stage # "cleanup",
           kind # "ok", Return(w, Outcome(kind, stage, FALSE)), UNCHANGED <<process, durable>>
    PROVE  Told(w)
<1>1. ~Published(w)'
  BY DEF PathInv, PublishedAsSaid, Published, process, Author
<1>2. outcome'[w] = Outcome(kind, stage, FALSE)
  BY DEF Return, PathInv, TypeOK
<1>3. outcome'[w] \notin {Ok, Outcome("io", "cleanup", FALSE)}
  BY <1>2 DEF Outcome, Ok
<1> QED
  BY <1>1, <1>3 DEF Told

\* The cleanup's own error stands alone only where the commit succeeded.
LEMMA CleanupTold ==
    ASSUME PathInv, NEW w \in Writers, Cleanup(w)
    PROVE  Told(w)
<1>1. /\ pc[w] = "cleanup" /\ (Published(w)' <=> Published(w))
      /\ (Published(w) <=> outcome[w] = Ok) /\ outcome[w].stage # "cleanup"
  BY DEF Cleanup, At, Published, process, Author, PathInv, PublishedAsSaid
<1>2. CASE UNCHANGED outcome
  BY <1>1, <1>2 DEF Outcome, Told
<1>3. CASE outcome' = [outcome EXCEPT ![w] = CleanupFailed(@)]
  <2>1. outcome'[w] = CleanupFailed(outcome[w])
    BY <1>3 DEF PathInv, TypeOK
  <2>2. CASE outcome[w] = Ok
    BY <1>1, <2>1, <2>2 DEF CleanupFailed, Told
  <2>3. CASE outcome[w] # Ok
    <3>1. outcome[w] \in Outcomes
      BY <1>1, WriterKnown
    <3>2. outcome'[w].cleanup = TRUE
      BY <2>1, <2>3, <3>1 DEF CleanupFailed, Outcomes
    <3>3. outcome'[w] \notin {Ok, Outcome("io", "cleanup", FALSE)}
      BY <3>2 DEF Ok, Outcome
    <3> QED
      BY <1>1, <2>3, <3>3 DEF Told
  <2> QED
    BY <2>2, <2>3
<1> QED
  BY <1>2, <1>3 DEF Cleanup

\* Only the refusals, the failed creation and the cleanup end a writer's call.
LEMMA EndsTold ==
    ASSUME PathInv, Next, NEW w \in Writers, pc[w] # "done", pc'[w] = "done"
    PROVE  Told(w)
<1>1. pc \in [Writers -> Stages \cup {"done", "crashed"}]
  BY DEF PathInv, TypeOK
<1>2. ASSUME NEW v \in Writers, Step(v) PROVE Told(w)
  <2>1. v # w => pc'[w] = pc[w]
    BY <1>1, <1>2 DEF Step, Serialize, CreateTemp, Write, Flush, Sync, Commit, Cleanup, Restart,
                      Go, Return, FailWithCleanup
  <2>2. v = w
    BY <2>1
  <2>3. CASE Serialize(w)
    <3>1. Return(w, Outcome("refused", "serialize", FALSE))
      BY <1>1, <2>3 DEF Serialize, Go
    <3> QED
      BY <2>3, <3>1, UnpublishedTold DEF Serialize, At, files, Undecided
  <2>4. CASE CreateTemp(w)
    <3>1. Return(w, Outcome("io", "create", FALSE))
      BY <1>1, <2>4 DEF CreateTemp, Go
    <3> QED
      BY <2>4, <3>1, UnpublishedTold DEF CreateTemp, At, Undecided
  <2>5. CASE Write(w) \/ Flush(w) \/ Sync(w) \/ Commit(w) \/ Restart(w)
    <3>1. \E l \in Stages : pc' = [pc EXCEPT ![w] = l]
      BY <2>5 DEF Write, Flush, Sync, Commit, Restart, Go, FailWithCleanup, Stages
    <3> QED
      BY <1>1, <3>1 DEF Stages
  <2>6. CASE Cleanup(w)
    BY <2>6, CleanupTold
  <2> QED
    BY <1>2, <2>2, <2>3, <2>4, <2>5, <2>6 DEF Step
<1>3. ASSUME NEW p \in Pids, Kill(p) PROVE FALSE
  BY <1>3 DEF Kill
<1>4. CASE PowerFailure
  BY <1>4 DEF PowerFailure
<1> QED
  BY <1>2, <1>3, <1>4 DEF Next

\* Only a commit and a power failure change the destination.
LEMMA DestinationReplaced ==
    ASSUME PathInv, Next, dest # None, dest' # dest
    PROVE  \/ dest' \in durable
           \/ \E w \in Writers : dest'.author = Author(w) /\ Job(w).policy = "AtomicReplace"
<1>1. ASSUME NEW v \in Writers, Step(v)
      PROVE  \E w \in Writers : dest'.author = Author(w) /\ Job(w).policy = "AtomicReplace"
  <2>1. Commit(v) /\ AtomicCommit(v)
    BY <1>1 DEF Step, Serialize, CreateTemp, Write, Flush, Sync, Commit, Cleanup, Restart, files
  <2>2. Job(v).policy # "CreateNew" /\ dest' = temps[temp[v]]
    BY <2>1 DEF AtomicCommit, Link, Rename
  <2>3. Job(v).policy = "AtomicReplace"
    BY <2>2, ScenarioTyped DEF PathInv, AttemptsPaid
  <2>4. temps[temp[v]].author = Author(v)
    BY <2>1 DEF Commit, At, PathInv, Staged, Owning
  <2> QED
    BY <2>2, <2>3, <2>4
<1>2. ASSUME NEW p \in Pids, Kill(p) PROVE FALSE
  BY <1>2 DEF Kill, files
<1>3. CASE PowerFailure
  BY <1>3, PowerFailureKeeps
<1> QED
  BY <1>1, <1>2, <1>3 DEF Next

\* What write_path returns tells whether the file reached the destination, and what one
\* writer published another only replaces if it was told to (write/mod.rs write_path,
\* path.rs: link for CreateNew, rename for AtomicReplace, the cleanup error after either).
THEOREM OutcomesAreTruthful == Spec => OutcomeTruthful
<1>1. ASSUME PathInv, Next
      PROVE  /\ \A w \in Writers : pc[w] # "done" /\ pc'[w] = "done" =>
                   (Published(w)' <=> outcome'[w] \in {Ok, Outcome("io", "cleanup", FALSE)})
             /\ dest # None =>
                   \/ dest' = dest \/ dest' \in durable
                   \/ \E w \in Writers : dest'.author = Author(w) /\ Job(w).policy = "AtomicReplace"
  BY <1>1, EndsTold, DestinationReplaced DEF Told
<1> QED
  BY <1>1, Inductive, PTL DEF Spec, OutcomeTruthful

=============================================================================
