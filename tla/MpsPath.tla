-------------------------------- MODULE MpsPath --------------------------------
(* Writing MPS documents to a path (src/io/mps/write/mod.rs write_path, path.rs): *)
(* every writer serializes its model, stages the bytes in a temporary file beside *)
(* the destination, makes them durable, publishes the file and cleans up.  The   *)
(* writers are threads of processes; a process may be killed, the power may fail *)
(* and any system call may report an error.                                      *)
EXTENDS MpsDocument

CONSTANTS Pids,         \* process identifiers; one may be used again
          MaxTries,     \* temporary names tried for one file (1024 in the code)
          Scenarios,    \* [jobs: writer -> [model, policy], old: an older file is there, faults: budget]
          None

ASSUME MaxTriesAssumption == MaxTries \in Nat \ {0}

VARIABLES scenario,     \* the scenario the behaviour plays
          faults,       \* faults that may still happen
          pc,           \* the next operation of each writer
          pid,          \* the process of each writer
          attempt,      \* how often each writer was started before
          counter,      \* NEXT_TEMP_ID of each process
          temp,         \* the temporary name each writer holds
          outcome,      \* what each writer returned: [kind, stage, cleanup]
          dest,         \* the file at the destination
          temps,        \* the temporary files, by name <<pid, sequence>>
          durable,      \* the files the directory may show after a power failure
          removed       \* names that left the directory, with what a power failure
                        \* that brings them back leaves of their files

vars == <<scenario, faults, pc, pid, attempt, counter, temp, outcome, dest, temps, durable, removed>>
process == <<scenario, pid, attempt>>
files == <<dest, temps, durable, removed>>

Writers == DOMAIN scenario.jobs
Job(w) == scenario.jobs[w]
Author(w) == <<w, attempt[w]>>

File(author, whole, synced) == [author |-> author, whole |-> whole, synced |-> synced]
\* What a power failure leaves of a file.
Torn(file) == IF file = None \/ file.synced THEN file ELSE [file EXCEPT !.whole = FALSE]
Outcome(kind, stage, cleanup) == [kind |-> kind, stage |-> stage, cleanup |-> cleanup]
Ok == Outcome("ok", None, FALSE)

AnyWriter == UNION {DOMAIN s.jobs : s \in Scenarios}
AnyFile == [author : (AnyWriter \X Nat) \cup {None}, whole : BOOLEAN, synced : BOOLEAN]
Stages == {"serialize", "create", "write", "flush", "sync", "commit", "cleanup"}
Outcomes == [kind : {"ok", "refused", "io", "exists", "unavailable"},
             stage : Stages \cup {None}, cleanup : BOOLEAN]

ASSUME ScenariosAssumption ==
    \A s \in Scenarios :
        /\ s.faults \in Nat
        /\ \A w \in DOMAIN s.jobs : s.jobs[w].policy \in {"CreateNew", "AtomicReplace"}

\* None is no file, no name, no author and no outcome.
ASSUME NoneAssumption ==
    None \notin AnyFile \cup (Pids \X Nat) \cup (AnyWriter \X Nat) \cup Outcomes \cup Stages

Alive(p) == \E w \in Writers : pid[w] = p /\ pc[w] # "crashed"

-----------------------------------------------------------------------------

Init ==
    /\ scenario \in Scenarios
    /\ faults = scenario.faults
    /\ pc = [w \in Writers |-> "serialize"]
    /\ pid \in [Writers -> Pids]
    /\ attempt = [w \in Writers |-> 0]
    /\ counter = [p \in Pids |-> 0]
    /\ temp = [w \in Writers |-> None]
    /\ outcome = [w \in Writers |-> None]
    /\ dest = IF scenario.old THEN File(None, TRUE, TRUE) ELSE None
    /\ temps = [name \in {} |-> None]
    /\ durable = {dest}
    /\ removed = {}

At(w, stage) == pc[w] = stage
Go(w, stage) == pc' = [pc EXCEPT ![w] = stage]
Fault == faults > 0 /\ faults' = faults - 1
NoFault == UNCHANGED faults

Return(w, o) ==
    /\ pc' = [pc EXCEPT ![w] = "done"]
    /\ outcome' = [outcome EXCEPT ![w] = o]

(* Faulty: the error is returned without removing the temporary file. *)
FailWithoutCleanup(w, kind, stage) ==
    Return(w, Outcome(kind, stage, FALSE))

\* The primary error; the temporary file is removed before it is returned.
FailWithCleanup(w, kind, stage) ==
    /\ pc' = [pc EXCEPT ![w] = "cleanup"]
    /\ outcome' = [outcome EXCEPT ![w] = Outcome(kind, stage, FALSE)]

Serialize(w) ==
    /\ At(w, "serialize")
    /\ IF Writable(Job(w).model) THEN Go(w, "create") /\ UNCHANGED outcome
       ELSE Return(w, Outcome("refused", "serialize", FALSE))
    /\ UNCHANGED <<process, faults, counter, temp, files>>

(* Faulty: a taken name is tried again. *)
CreateTempAgain(w) ==
    LET name == <<pid[w], counter[pid[w]]>> IN
    /\ At(w, "create")
    /\ name \notin DOMAIN temps
    /\ temps' = [n \in DOMAIN temps \cup {name} |->
                    IF n = name THEN File(Author(w), FALSE, FALSE) ELSE temps[n]]
    /\ temp' = [temp EXCEPT ![w] = name]
    /\ counter' = [counter EXCEPT ![pid[w]] = @ + 1]
    /\ Go(w, "write")
    /\ UNCHANGED <<process, faults, outcome, dest, durable, removed>>

\* The next names of the process's counter, up to one that no file has.
CreateTemp(w) ==
    LET Name(i) == <<pid[w], counter[pid[w]] + i>>
        Free(i) == Name(i) \notin DOMAIN temps
    IN
    /\ At(w, "create")
    /\ \/ \E i \in 0..(MaxTries - 1) :
             /\ Free(i) /\ \A j \in 0..(i - 1) : ~ Free(j)
             /\ temps' = [name \in DOMAIN temps \cup {Name(i)} |->
                            IF name = Name(i) THEN File(Author(w), FALSE, FALSE) ELSE temps[name]]
             /\ temp' = [temp EXCEPT ![w] = Name(i)]
             /\ counter' = [counter EXCEPT ![pid[w]] = @ + i + 1]
             /\ Go(w, "write")
             /\ UNCHANGED <<faults, outcome>>
       \/ /\ \A i \in 0..(MaxTries - 1) : ~ Free(i)
          /\ counter' = [counter EXCEPT ![pid[w]] = @ + MaxTries]
          /\ Return(w, Outcome("io", "create", FALSE))
          /\ UNCHANGED <<faults, temp, temps>>
       \/ /\ Fault
          /\ counter' = [counter EXCEPT ![pid[w]] = @ + 1]
          /\ Return(w, Outcome("io", "create", FALSE))
          /\ UNCHANGED <<temp, temps>>
    /\ UNCHANGED <<process, dest, durable, removed>>

\* A write that fails leaves a part of the document in the file.
Write(w) ==
    /\ At(w, "write")
    /\ \/ /\ NoFault
          /\ temps' = [temps EXCEPT ![temp[w]].whole = TRUE]
          /\ Go(w, "flush")
          /\ UNCHANGED outcome
       \/ /\ Fault
          /\ FailWithCleanup(w, "io", "write")
          /\ UNCHANGED temps
    /\ UNCHANGED <<process, counter, temp, dest, durable, removed>>

Flush(w) ==
    /\ At(w, "flush")
    /\ \/ NoFault /\ Go(w, "sync") /\ UNCHANGED outcome
       \/ Fault /\ FailWithCleanup(w, "io", "flush")
    /\ UNCHANGED <<process, counter, temp, files>>

(* Faulty: the bytes are flushed but not made durable. *)
SyncNothing(w) ==
    /\ At(w, "sync")
    /\ Go(w, "commit")
    /\ UNCHANGED <<process, faults, counter, temp, outcome, files>>

Sync(w) ==
    /\ At(w, "sync")
    /\ \/ /\ NoFault
          /\ temps' = [temps EXCEPT ![temp[w]].synced = TRUE]
          /\ Go(w, "commit")
          /\ UNCHANGED outcome
       \/ /\ Fault
          /\ FailWithCleanup(w, "io", "sync")
          /\ UNCHANGED temps
    /\ UNCHANGED <<process, counter, temp, dest, durable, removed>>

\* CreateNew links the file under the destination's name, unless that exists;
\* AtomicReplace renames it.  Neither makes the directory durable.
Link(w) ==
    /\ dest = None
    /\ dest' = temps[temp[w]]
    /\ UNCHANGED <<temps, removed>>

\* The name leaves the directory, which is not made durable.
Unlink(name) ==
    /\ temps' = [n \in DOMAIN temps \ {name} |-> temps[n]]
    /\ removed' = removed \cup {<<n, Torn(temps[n])>> : n \in DOMAIN temps \cap {name}}

Rename(w) ==
    /\ dest' = temps[temp[w]]
    /\ Unlink(temp[w])

AtomicCommit(w) ==
    IF Job(w).policy = "CreateNew" THEN Link(w) ELSE Rename(w)

Commit(w) ==
    /\ At(w, "commit")
    /\ \/ /\ AtomicCommit(w)
          /\ durable' = durable \cup {dest'}
          /\ Go(w, "cleanup")
          /\ outcome' = [outcome EXCEPT ![w] = Ok]
          /\ NoFault
       \/ /\ Job(w).policy = "CreateNew" /\ dest # None
          /\ FailWithCleanup(w, "exists", "commit")
          /\ UNCHANGED <<faults, files>>
       \/ /\ Fault
          /\ \E kind \in {"io"} \cup (IF Job(w).policy = "AtomicReplace"
                                      THEN {"unavailable"} ELSE {}) :
                FailWithCleanup(w, kind, "commit")
          /\ UNCHANGED files
    /\ UNCHANGED <<process, counter, temp>>

(* Faulty: a failed cleanup after the publication is composed with a commit error. *)
CleanupFailedAsCommit(o) ==
    IF o = Ok THEN Outcome("io", "commit", TRUE) ELSE [o EXCEPT !.cleanup = TRUE]

\* What a failed cleanup makes of the outcome so far: an error of its own once the
\* destination is published, a second error beside the primary one before.
CleanupFailed(o) ==
    IF o = Ok THEN Outcome("io", "cleanup", FALSE) ELSE [o EXCEPT !.cleanup = TRUE]

\* A file that is gone already counts as removed.
Cleanup(w) ==
    /\ At(w, "cleanup")
    /\ Go(w, "done")
    /\ \/ /\ NoFault
          /\ Unlink(temp[w])
          /\ UNCHANGED outcome
       \/ /\ Fault
          /\ outcome' = [outcome EXCEPT ![w] = CleanupFailed(@)]
          /\ UNCHANGED <<temps, removed>>
    /\ UNCHANGED <<process, counter, temp, dest, durable>>

-----------------------------------------------------------------------------
(* The environment.                                                            *)

\* A process is killed: its writers stop where they are and its files stay.
Kill(p) ==
    /\ Alive(p)
    /\ Fault
    /\ pc' = [w \in Writers |-> IF pid[w] = p /\ pc[w] # "done" THEN "crashed" ELSE pc[w]]
    /\ counter' = [counter EXCEPT ![p] = 0]
    /\ UNCHANGED <<process, temp, outcome, files>>

\* The caller tries again, in a process whose identifier may have been used before.
Restart(w) ==
    /\ At(w, "crashed")
    /\ Go(w, "serialize")
    /\ \E p \in Pids : pid' = [pid EXCEPT ![w] = p]
    /\ attempt' = [attempt EXCEPT ![w] = @ + 1]
    /\ outcome' = [outcome EXCEPT ![w] = None]
    /\ temp' = [temp EXCEPT ![w] = None]
    /\ UNCHANGED <<scenario, faults, counter, files>>

\* The power fails: every process is gone, what was not synced is torn, and of what
\* happened in the directory, which is never synced, any part is left: a temporary
\* name may be missing, or back although it was removed or renamed.
PowerFailure ==
    /\ Fault
    /\ pc' = [w \in Writers |-> IF pc[w] = "done" THEN "done" ELSE "crashed"]
    /\ counter' = [p \in Pids |-> 0]
    /\ \E file \in durable : dest' = Torn(file) /\ durable' = {dest'}
    /\ \E found \in SUBSET ({<<name, Torn(temps[name])>> : name \in DOMAIN temps} \cup removed) :
          /\ \A e1, e2 \in found : e1[1] = e2[1] => e1 = e2
          /\ temps' = [name \in {e[1] : e \in found} |-> (CHOOSE e \in found : e[1] = name)[2]]
          /\ removed' = found \cap removed
    /\ UNCHANGED <<process, temp, outcome>>

Step(w) ==
    \/ Serialize(w) \/ CreateTemp(w) \/ Write(w) \/ Flush(w) \/ Sync(w)
    \/ Commit(w) \/ Cleanup(w) \/ Restart(w)

Next == (\E w \in Writers : Step(w)) \/ (\E p \in Pids : Kill(p)) \/ PowerFailure

Fairness == \A w \in AnyWriter :
    WF_vars(w \in Writers /\ Step(w))

Spec == Init /\ [][Next]_vars
FairSpec == Spec /\ Fairness

-----------------------------------------------------------------------------
(* Properties.                                                                 *)

Attempts == {<<w, n>> : w \in Writers, n \in 0..scenario.faults}
Files == [author : Attempts \cup {None}, whole : BOOLEAN, synced : BOOLEAN]

\* The shapes of the state; a writer has an outcome exactly from the moment its
\* transaction is decided (commit_path_with_ops: every failing stage builds its
\* error before it cleans up).
TypeOK ==
    /\ faults \in 0..scenario.faults
    /\ pc \in [Writers -> Stages \cup {"done", "crashed"}]
    /\ pid \in [Writers -> Pids]
    /\ attempt \in [Writers -> 0..scenario.faults]
    /\ counter \in [Pids -> Nat]
    /\ temp \in [Writers -> (Pids \X Nat) \cup {None}]
    /\ outcome \in [Writers -> Outcomes \cup {None}]
    /\ dest \in Files \cup {None} /\ dest \in durable /\ durable \subseteq Files \cup {None}
    /\ DOMAIN temps \subseteq Pids \X Nat
    /\ \A name \in DOMAIN temps : temps[name] \in Files
    /\ removed \subseteq (Pids \X Nat) \X Files
    /\ \A w \in Writers :
          pc[w] # "crashed" => (outcome[w] # None <=> pc[w] \in {"cleanup", "done"})

\* A reader of the destination finds a whole document or none, whatever fails and
\* whenever the power goes: the bytes are durable before the name is (path.rs:
\* sync_all before atomic_commit).
DestinationWhole == \A file \in durable : file # None => file.whole

\* What a writer returns tells whether its file reached the destination: success and
\* a cleanup failure standing alone say it did, every other error says it did not;
\* and what one published stays, unless a writer told to replace it does or a power
\* failure leaves something of the past: CreateNew writers that race lose
\* (commit_path_with_ops, published_cleanup_error, atomic_commit).
Published(w) == \E file \in durable : file # None /\ file.author = Author(w)

OutcomeTruthful ==
    [][/\ \A w \in Writers : pc[w] # "done" /\ pc'[w] = "done" =>
             (Published(w)' <=> outcome'[w] \in {Ok, Outcome("io", "cleanup", FALSE)})
       /\ dest # None =>
             \/ dest' = dest \/ dest' \in durable
             \/ \E w \in Writers : dest'.author = Author(w) /\ Job(w).policy = "AtomicReplace"]_vars

\* A writer works on a temporary file of its own until it is published, and one that
\* has returned leaves none behind unless it reported the failed cleanup, or a power
\* failure brought back a name that it had removed (path.rs create_temp,
\* fail_with_cleanup).
TempsOwned ==
    \A w \in Writers :
        /\ pc[w] \in {"write", "flush", "sync", "commit"} =>
              temp[w] \in DOMAIN temps /\ temps[temp[w]].author = Author(w)
        /\ pc[w] = "done" => \A name \in DOMAIN temps :
              temps[name].author = Author(w) =>
                \/ outcome[w].cleanup \/ outcome[w].stage = "cleanup"
                \/ <<name, temps[name]>> \in removed

\* What is published reads back as the model it was written from: variables with
\* their types and domains, rows, coefficients, sense and constant (the round trip of
\* src/io/mps/write over src/io/mps).
ReadBack == [model \in UNION {{s.jobs[w].model : w \in DOMAIN s.jobs} : s \in Scenarios} |->
                Writable(model) => ReadsBack(model)]

PublishedReadsBack ==
    \A file \in durable : file # None /\ file.author # None =>
        ReadBack[Job(file.author[1]).model]

\* Every call returns, however often its process dies: names left behind by a process
\* of the same identifier are skipped (path.rs create_temp).
WritersReturn ==
    \A w \in AnyWriter :
        <>(w \in Writers => pc[w] = "done")
=============================================================================
