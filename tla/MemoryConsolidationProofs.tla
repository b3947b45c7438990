---------------------- MODULE MemoryConsolidationProofs ----------------------
(***************************************************************************)
(* The lease of the consolidation job excludes a second worker from the    *)
(* memories directory, and the flags in the table tell what the directory  *)
(* was made from, for every number of threads, workers, updates and        *)
(* faults.                                                                 *)
(***************************************************************************)
EXTENDS MemoryConsolidation, TLAPS

-----------------------------------------------------------------------------
(* The inductive invariant.                                                *)

Rows == [status: {"none", "pending", "running", "done", "error"},
         token: Consolidators \cup {NoToken}, lease: BOOLEAN, backoff: BOOLEAN]
Workers == [pc: {"idle", "claimed", "keys", "rows", "synced", "agent", "stop", "confirm",
                 "reset", "finish"},
            sel: [Threads -> Stamps], ok: BOOLEAN]

\* The variables are functions and records with the fields TypeOK speaks of, and no memory
\* is newer than the last extraction of its thread.
Types ==
    /\ TypeOK
    /\ out \in [Threads -> [at: Nat, sel: Nat]]
    /\ \A t \in Threads : out[t].at <= src[t]
    /\ job \in Rows
    /\ con \in [Consolidators -> Workers]

\* Undisturbed, whoever uses the directory holds the job and its lease.
WorkersHoldTheJob ==
    ~disturbed => \A c \in Consolidators : AtWork(c) => Owns(c, job) /\ job.lease

\* Before the first fault a run keeps the job to its end; what it selected is in the directory
\* once it has copied it there, and in the baseline once it has reset that.
HasSynced(c) == con[c].pc \in {"synced", "agent", "stop", "confirm", "reset", "finish"}

RunsKeepTheJob ==
    faults = 0 =>
        /\ ~disturbed /\ ~cleared
        /\ \A c \in Consolidators : con[c].pc # "idle" => Owns(c, job) /\ job.lease

DirectoryFollowsRun ==
    faults = 0 =>
        \A c \in Consolidators :
            /\ HasSynced(c) => work = con[c].sel
            /\ con[c].pc = "finish" => base = work

IInv ==
    /\ Types /\ WorkersHoldTheJob
    /\ RunsKeepTheJob /\ DirectoryFollowsRun /\ FlagsMatchBaseline

-----------------------------------------------------------------------------
(* Types.                                                                  *)

\* The changes of the job's row keep it a row.
LEMMA RowTypes ==
    ASSUME job \in Rows
    PROVE  /\ Enqueued(job) \in Rows
           /\ Running(job) => Enqueued(job) = job
           /\ ~Running(job) => ~Running(Enqueued(job))
           /\ NoRow \in Rows /\ ~Running(NoRow)
           /\ \A s \in {"done", "error"} : Ended(job, s) \in Rows /\ ~Running(Ended(job, s))
           /\ Errored(job) \in Rows /\ ~Running(Errored(job))
           /\ \A c \in Consolidators : RunBy(c) \in Rows /\ Owns(c, RunBy(c)) /\ RunBy(c).lease
<1>1. Enqueued(job) \in Rows /\ (~Running(job) => ~Running(Enqueued(job)))
  BY DEF Rows, Enqueued, Running
<1>2. NoRow \in Rows /\ ~Running(NoRow)
  BY DEF Rows, NoRow, Running
<1>3. \A s \in {"done", "error"} : Ended(job, s) \in Rows /\ ~Running(Ended(job, s))
  BY DEF Rows, Ended, Running
<1>4. Errored(job) \in Rows /\ ~Running(Errored(job))
  <2> DEFINE r == Ended(job, "error")
  <2>1. r \in Rows /\ ~Running(r)
    BY <1>3
  <2> HIDE DEF r
  <2>2. [r EXCEPT !.backoff = TRUE] \in Rows /\ ~Running([r EXCEPT !.backoff = TRUE])
    BY <2>1 DEF Rows, Running
  <2> QED BY <2>2 DEF Errored, r
<1>5. \A c \in Consolidators : RunBy(c) \in Rows /\ Owns(c, RunBy(c)) /\ RunBy(c).lease
  BY DEF Rows, RunBy, Owns, Running
<1> QED BY <1>1, <1>2, <1>3, <1>4, <1>5 DEF Enqueued

\* A worker that has nothing to do, selects, or goes on to its next step is a worker.
LEMMA WorkerTypes ==
    ASSUME con \in [Consolidators -> Workers], MaxUpdates \in Nat
    PROVE  /\ Idle \in Workers /\ Idle.pc = "idle"
           /\ None \in [Threads -> Stamps]
           /\ \A c \in Consolidators : con[c] \in Workers
<1>1. None \in [Threads -> Stamps]
  BY DEF None, Stamps
<1> QED BY <1>1 DEF Idle, Workers

-----------------------------------------------------------------------------
(* The steps of a worker.                                                  *)

\* Worker c goes on to step pc of its run; the others stay where they are.
Moves(c, pc) ==
    /\ con' \in [Consolidators -> Workers]
    /\ con'[c].pc = pc
    /\ \A d \in Consolidators \ {c} : con'[d] = con[d]

\* It keeps what it has selected.
MovesOn(c, pc) == Moves(c, pc) /\ con'[c].sel = con[c].sel

\* Where each step of a run leaves its worker.
LEMMA WorkerMoves ==
    ASSUME Types, NEW c \in Consolidators
    PROVE  /\ Claim(c) => MovesOn(c, "claimed")
           /\ SelectKeys(c) => Moves(c, "keys")
           /\ SelectRows(c) => Moves(c, "rows")
           /\ Sync(c) => MovesOn(c, "synced")
           /\ SpawnAgent(c) => MovesOn(c, "agent")
           /\ Heartbeat(c) => UNCHANGED con \/ MovesOn(c, "stop")
           /\ AgentCompletes(c) => MovesOn(c, "stop")
           /\ AgentErrs(c) => MovesOn(c, "stop")
           /\ ResetBaseline(c) => MovesOn(c, "finish")
           /\ Shutdown(c) => MovesOn(c, "confirm") \/ Moves(c, "idle")
           /\ Confirm(c) => MovesOn(c, "reset") \/ Moves(c, "idle")
           /\ NoChanges(c) \/ ShutdownFails(c) \/ Finish(c) \/ StepFails(c) \/ Crash(c)
                 => Moves(c, "idle")
<1> DEFINE w == con[c]
           Step(pc) == [w EXCEPT !.pc = pc]
<1>0. /\ con \in [Consolidators -> Workers] /\ w \in Workers /\ MaxUpdates \in Nat
      /\ Idle \in Workers /\ Idle.pc = "idle"
  BY WorkerTypes, ConsolidationAssumption DEF Types
<1>1. ASSUME NEW pc \in {"claimed", "keys", "rows", "synced", "agent", "stop", "confirm",
                         "reset", "finish"}
      PROVE  Step(pc) \in Workers /\ Step(pc).pc = pc /\ Step(pc).sel = w.sel
  BY <1>0 DEF Workers
<1>2. ASSUME NEW pc \in {"claimed", "keys", "rows", "synced", "agent", "stop", "confirm",
                         "reset", "finish"},
             con' = [con EXCEPT ![c].pc = pc]
      PROVE  MovesOn(c, pc)
  <2>1. con' = [con EXCEPT ![c] = Step(pc)]
    BY <1>2
  <2> HIDE DEF Step
  <2> QED BY <1>0, <1>1, <2>1 DEF Moves, MovesOn
<1>3. ASSUME con' = [con EXCEPT ![c] = Idle]
      PROVE  Moves(c, "idle")
  BY <1>0, <1>3 DEF Moves
<1>4. ASSUME SelectKeys(c)
      PROVE  Moves(c, "keys")
  <2> DEFINE s == [t \in Threads |-> IF Enabled(t) THEN out[t].at ELSE 0]
             v == [w EXCEPT !.pc = "keys", !.sel = s]
  <2>1. s \in [Threads -> Stamps]
    BY <1>0 DEF Types, TypeOK, Stamps
  <2>2. v \in Workers /\ v.pc = "keys"
    <3> HIDE DEF s
    <3> QED BY <1>0, <2>1 DEF Workers
  <2>3. con' = [con EXCEPT ![c] = v]
    BY <1>4 DEF SelectKeys
  <2> HIDE DEF v
  <2> QED BY <1>0, <2>2, <2>3 DEF Moves
<1>5. ASSUME SelectRows(c)
      PROVE  Moves(c, "rows")
  <2> DEFINE s == [t \in Threads |-> IF Enabled(t) /\ out[t].at = w.sel[t] THEN w.sel[t] ELSE 0]
             v == [w EXCEPT !.pc = "rows", !.sel = s]
  <2>1. s \in [Threads -> Stamps]
    BY <1>0 DEF Workers, Stamps
  <2>2. v \in Workers /\ v.pc = "rows"
    <3> HIDE DEF s
    <3> QED BY <1>0, <2>1 DEF Workers
  <2>3. con' = [con EXCEPT ![c] = v]
    BY <1>5 DEF SelectRows
  <2> HIDE DEF v
  <2> QED BY <1>0, <2>2, <2>3 DEF Moves
<1>6. ASSUME AgentCompletes(c)
      PROVE  MovesOn(c, "stop")
  <2> DEFINE v == [w EXCEPT !.pc = "stop", !.ok = TRUE]
  <2>1. v \in Workers /\ v.pc = "stop" /\ v.sel = w.sel
    BY <1>0 DEF Workers
  <2>2. con' = [con EXCEPT ![c] = v]
    BY <1>6 DEF AgentCompletes
  <2> HIDE DEF v
  <2> QED BY <1>0, <2>1, <2>2 DEF Moves, MovesOn
<1>7. /\ Claim(c) => MovesOn(c, "claimed")
      /\ Sync(c) => MovesOn(c, "synced")
      /\ SpawnAgent(c) => MovesOn(c, "agent")
      /\ Heartbeat(c) => UNCHANGED con \/ MovesOn(c, "stop")
      /\ AgentErrs(c) => MovesOn(c, "stop")
      /\ ResetBaseline(c) => MovesOn(c, "finish")
  BY <1>2 DEF Claim, Sync, SpawnAgent, Heartbeat, AgentErrs, ResetBaseline
<1>8. /\ Shutdown(c) => MovesOn(c, "confirm") \/ Moves(c, "idle")
      /\ Confirm(c) => MovesOn(c, "reset") \/ Moves(c, "idle")
      /\ NoChanges(c) \/ ShutdownFails(c) \/ Finish(c) \/ StepFails(c) \/ Crash(c)
            => Moves(c, "idle")
  BY <1>2, <1>3 DEF Shutdown, Confirm, NoChanges, ShutdownFails, Finish, StepFails, Crash
<1> QED BY <1>4, <1>5, <1>6, <1>7, <1>8

\* The steps of worker c.
WorkerStep(c) ==
    \/ Steps(c) \/ Heartbeat(c)
    \/ AgentErrs(c) \/ ShutdownFails(c) \/ StepFails(c) \/ Crash(c)

\* The steps of phase 1 and of the threads.
ThreadStep(t) ==
    \/ Extracted(t) \/ ExtractedNothing(t) \/ Prune(t)
    \/ PolluteRead(t) \/ PolluteWrite(t) \/ DeleteMemory(t) \/ DeleteThread(t)

\* A thread's step leaves the workers and the directory alone, and a running job to its worker.
LEMMA ThreadStepFacts ==
    ASSUME Types, NEW t \in Threads, ThreadStep(t)
    PROVE  /\ UNCHANGED <<cool, con, work, base, cleared, faults, disturbed>>
           /\ job' \in {job, Enqueued(job)}
<1> USE DEF phase1, history
<1>1. CASE Extracted(t) \/ ExtractedNothing(t) \/ Prune(t)
  BY <1>1 DEF Extracted, ExtractedNothing, Prune
<1>2. CASE PolluteRead(t) \/ PolluteWrite(t)
  BY <1>2 DEF PolluteRead, PolluteWrite
<1>3. CASE DeleteMemory(t) \/ DeleteThread(t)
  BY <1>3 DEF DeleteMemory, DeleteThread
<1> QED BY <1>1, <1>2, <1>3 DEF ThreadStep

\* What a thread's step does to the table: a memory is replaced and keeps its flag, or the
\* row is emptied.
LEMMA ThreadStepTable ==
    ASSUME Types, NEW t \in Threads, ThreadStep(t)
    PROVE  /\ src' \in [Threads -> Stamps]
           /\ thread' \in [Threads -> {"here", "selected", "unselected", "leaving", "out"}]
           /\ out' \in [Threads -> [at: Nat, sel: Nat]]
           /\ \A u \in Threads : /\ out'[u].at <= src'[u] /\ out'[u].at \in Stamps
                                 /\ out'[u].sel \in 0 .. out'[u].at
                                 /\ out'[u].sel \in {0, out[u].sel}
<1> USE DEF phase1, history
<1>0. /\ src \in [Threads -> Stamps] /\ MaxUpdates \in Nat
      /\ thread \in [Threads -> {"here", "selected", "unselected", "leaving", "out"}]
      /\ out \in [Threads -> [at: Nat, sel: Nat]]
      /\ \A u \in Threads : /\ out[u].at <= src[u] /\ out[u].at \in Stamps
                            /\ out[u].sel \in 0 .. out[u].at
  BY ConsolidationAssumption DEF Types, TypeOK
<1>1. NoOutput \in [at: Nat, sel: Nat] /\ NoOutput.at = 0 /\ NoOutput.sel = 0
  BY DEF NoOutput
<1>2. ASSUME src' \in {src, [src EXCEPT ![t] = @ + 1]}, src[t] < MaxUpdates \/ src' = src
      PROVE  /\ src' \in [Threads -> Stamps]
             /\ \A u \in Threads : src'[u] \in Nat /\ src[u] <= src'[u]
  BY <1>0, <1>2 DEF Stamps
<1>3. ASSUME out' \in {out, [out EXCEPT ![t] = NoOutput]}
      PROVE  /\ out' \in [Threads -> [at: Nat, sel: Nat]]
             /\ \A u \in Threads : /\ out'[u].at \in Nat /\ out'[u].at <= src[u] 
                                   /\ out'[u].at \in Stamps
                                   /\ out'[u].sel \in 0 .. out'[u].at
                                   /\ out'[u].sel \in {0, out[u].sel}
  <2>1. CASE out' = out
    BY <1>0, <2>1
  <2>2. CASE out' = [out EXCEPT ![t] = NoOutput]
    <3>1. \A u \in Threads : out'[u] = IF u = t THEN NoOutput ELSE out[u]
      BY <1>0, <2>2
    <3>2. out' \in [Threads -> [at: Nat, sel: Nat]]
      BY <1>0, <1>1, <2>2
    <3>3. 0 \in Stamps /\ \A u \in Threads : src[u] \in Nat
      BY <1>0 DEF Stamps
    <3> QED BY <1>0, <1>1, <3>1, <3>2, <3>3
  <2> QED BY <1>3, <2>1, <2>2
<1>4. \A u \in Threads : src[u] \in Nat
  BY <1>0 DEF Stamps
<1>5. CASE Extracted(t)
  <2> DEFINE new == [out[t] EXCEPT !.at = src[t] + 1]
  <2>1. src[t] < MaxUpdates /\ src' = [src EXCEPT ![t] = @ + 1] /\ thread' = thread
    BY <1>5 DEF Extracted
  <2>2. out' = [out EXCEPT ![t] = new]
    BY <1>5 DEF Extracted
  <2>3. /\ new \in [at: Nat, sel: Nat] /\ new.at = src[t] + 1 /\ new.sel = out[t].sel
    BY <1>0, <1>4
  <2> HIDE DEF new
  <2>4. /\ out' \in [Threads -> [at: Nat, sel: Nat]]
        /\ \A u \in Threads : out'[u] = IF u = t THEN new ELSE out[u]
    BY <1>0, <2>2, <2>3
  <2>5. /\ src' \in [Threads -> Stamps]
        /\ \A u \in Threads : src'[u] = IF u = t THEN src[t] + 1 ELSE src[u]
    BY <1>0, <2>1 DEF Stamps
  <2>6. ASSUME NEW u \in Threads
        PROVE  /\ out'[u].at <= src'[u] /\ out'[u].at \in Stamps
               /\ out'[u].sel \in 0 .. out'[u].at
               /\ out'[u].sel \in {0, out[u].sel}
    <3>1. CASE u = t
      <4>1. out[t].sel <= src[t] + 1 /\ out[t].sel \in Nat
        BY <1>0, <1>4
      <4> QED BY <1>0, <1>4, <2>1, <2>3, <2>4, <2>5, <3>1, <4>1 DEF Stamps
    <3>2. CASE u # t
      BY <1>0, <2>4, <2>5, <3>2
    <3> QED BY <3>1, <3>2
  <2> QED BY <1>0, <2>1, <2>4, <2>5, <2>6
<1>6. CASE ~Extracted(t)
  <2>1. /\ src' \in {src, [src EXCEPT ![t] = @ + 1]} /\ (src[t] < MaxUpdates \/ src' = src)
        /\ out' \in {out, [out EXCEPT ![t] = NoOutput]}
    BY <1>6 DEF ThreadStep, ExtractedNothing, Prune, PolluteRead, PolluteWrite, DeleteMemory,
                DeleteThread
  <2>2. thread' \in [Threads -> {"here", "selected", "unselected", "leaving", "out"}]
    BY <1>0, <1>6 DEF ThreadStep, ExtractedNothing, Prune, PolluteRead, PolluteWrite, DeleteMemory,
                DeleteThread
  <2>3. \A u \in Threads : out'[u].at <= src'[u]
    BY <1>2, <1>3, <1>4, <2>1
  <2> QED BY <1>2, <1>3, <2>1, <2>2, <2>3
<1> QED BY <1>5, <1>6

\* What a worker's step does to the job: only its owner changes a running one.
LEMMA WorkerJob ==
    ASSUME Types, NEW c \in Consolidators, WorkerStep(c)
    PROVE  /\ job' \in Rows /\ cool' \in BOOLEAN
           /\ \/ job' = job
              \/ Owns(c, job) /\ job' = [job EXCEPT !.lease = TRUE]
              \/ Owns(c, job) /\ ~Running(job') /\ Moves(c, "idle")
              \/ Claim(c) /\ job' = RunBy(c)
<1>0. job \in Rows /\ cool \in BOOLEAN
  BY DEF Types, TypeOK
<1>1. [job EXCEPT !.lease = TRUE] \in Rows
  BY <1>0 DEF Rows
<1>2. ASSUME MarkSucceeded(c) \/ MarkFailed(c)
      PROVE  /\ job' \in Rows /\ cool' \in BOOLEAN
             /\ job' = job \/ (Owns(c, job) /\ ~Running(job'))
  BY <1>0, <1>2, RowTypes DEF MarkSucceeded, MarkFailed
<1>3. CASE job' = job /\ cool' = cool
  BY <1>0, <1>3
<1>4. CASE Claim(c)
  BY <1>0, <1>4, RowTypes DEF Claim
<1>5. CASE Heartbeat(c) \/ Confirm(c)
  BY <1>0, <1>1, <1>5 DEF Heartbeat, Confirm
<1>6. CASE NoChanges(c) \/ Finish(c) \/ StepFails(c)
  <2>1. MarkSucceeded(c) \/ MarkFailed(c)
    BY <1>6 DEF NoChanges, Finish, StepFails
  <2>2. Moves(c, "idle")
    BY <1>6, WorkerMoves
  <2> QED BY <1>2, <2>1, <2>2
<1>7. CASE Shutdown(c)
  <2>1. CASE con' = [con EXCEPT ![c] = Idle] /\ MarkFailed(c)
    <3>1. Moves(c, "idle")
      BY <2>1, WorkerTypes, ConsolidationAssumption DEF Moves, Types
    <3> QED BY <1>2, <2>1, <3>1
  <2> QED BY <1>3, <1>7, <2>1 DEF Shutdown
<1>8. CASE \/ SelectKeys(c) \/ SelectRows(c) \/ Sync(c) \/ SpawnAgent(c) \/ AgentCompletes(c)
           \/ ResetBaseline(c) \/ AgentErrs(c) \/ ShutdownFails(c) \/ Crash(c)
  BY <1>3, <1>8 DEF SelectKeys, SelectRows, Sync, SpawnAgent, AgentCompletes, ResetBaseline,
                    AgentErrs, ShutdownFails, Crash
<1> QED BY <1>4, <1>5, <1>6, <1>7, <1>8 DEF WorkerStep, Steps

\* mark_global_phase2_job_succeeded sets the flag of a memory that is still the selected one,
\* and clears all others.
LEMMA MarkFacts ==
    ASSUME Types, NEW c \in Consolidators, MarkSucceeded(c)
    PROVE  \/ out' = out /\ ~Owns(c, job)
           \/ /\ Owns(c, job)
              /\ out' \in [Threads -> [at: Nat, sel: Nat]]
              /\ \A t \in Threads :
                     /\ out'[t].at = out[t].at
                     /\ out'[t].sel \in {0, out[t].at}
                     /\ out'[t].sel # 0 => out'[t].sel = con[c].sel[t]
<1>0. out \in [Threads -> [at: Nat, sel: Nat]]
  BY DEF Types
<1>1. CASE ~Owns(c, job)
  BY <1>1 DEF MarkSucceeded
<1>2. CASE Owns(c, job)
  <2> DEFINE new(t) == [out[t] EXCEPT !.sel = IF con[c].sel[t] = out[t].at THEN out[t].at ELSE 0]
  <2>1. out' = [t \in Threads |-> new(t)]
    BY <1>2 DEF MarkSucceeded
  <2>2. ASSUME NEW t \in Threads
        PROVE  /\ new(t) \in [at: Nat, sel: Nat] /\ new(t).at = out[t].at
               /\ new(t).sel = IF con[c].sel[t] = out[t].at THEN out[t].at ELSE 0
    BY <1>0
  <2> HIDE DEF new
  <2>3. /\ out' \in [Threads -> [at: Nat, sel: Nat]]
        /\ \A t \in Threads : out'[t] = new(t)
    BY <2>1, <2>2
  <2> QED BY <1>2, <2>2, <2>3
<1> QED BY <1>1, <1>2

\* A worker's step changes the table only when it reports success.
LEMMA WorkerTable ==
    ASSUME Types, NEW c \in Consolidators, WorkerStep(c)
    PROVE  /\ UNCHANGED <<src, thread, cleared>>
           /\ out' = out \/ (MarkSucceeded(c) /\ (NoChanges(c) \/ Finish(c)))
           /\ faults' \in 0 .. MaxFaults /\ disturbed' \in BOOLEAN
           /\ faults <= faults' /\ (disturbed => disturbed')
<1> USE DEF phase1, history
<1>0. faults \in 0 .. MaxFaults /\ MaxFaults \in Nat /\ disturbed \in BOOLEAN
  BY ConsolidationAssumption DEF Types, TypeOK
<1>1. ASSUME Fault
      PROVE  faults' \in 0 .. MaxFaults /\ faults <= faults'
  BY <1>0, <1>1 DEF Fault
<1>2. CASE NoChanges(c) \/ Finish(c)
  BY <1>0, <1>2 DEF NoChanges, Finish
<1>3. CASE AgentErrs(c) \/ ShutdownFails(c) \/ StepFails(c) \/ Crash(c)
  BY <1>0, <1>1, <1>3 DEF AgentErrs, ShutdownFails, StepFails, Crash
<1>4. CASE \/ Claim(c) \/ SelectKeys(c) \/ SelectRows(c) \/ Sync(c) \/ SpawnAgent(c)
           \/ AgentCompletes(c) \/ Shutdown(c) \/ Confirm(c) \/ ResetBaseline(c) \/ Heartbeat(c)
  BY <1>0, <1>4 DEF Claim, SelectKeys, SelectRows, Sync, SpawnAgent, AgentCompletes, Shutdown,
                    Confirm, ResetBaseline, Heartbeat
<1> QED BY <1>2, <1>3, <1>4 DEF WorkerStep, Steps

\* A worker's step changes the directory's inputs only when it copies its selection, and the
\* baseline only when it resets it.
LEMMA WorkerDirectory ==
    ASSUME Types, NEW c \in Consolidators, WorkerStep(c)
    PROVE  /\ work' = work \/ (Sync(c) /\ work' = con[c].sel)
           /\ base' = base \/ (ResetBaseline(c) /\ base' = work)
           /\ work' \in [Threads -> Stamps] /\ base' \in [Threads -> Stamps]
<1>0. /\ work \in [Threads -> Stamps] /\ base \in [Threads -> Stamps]
      /\ con[c].sel \in [Threads -> Stamps]
  BY DEF Types, TypeOK, Workers
<1>1. CASE Sync(c) \/ ResetBaseline(c)
  BY <1>0, <1>1 DEF Sync, ResetBaseline
<1>2. CASE ~Sync(c) /\ ~ResetBaseline(c)
  <2>1. UNCHANGED <<work, base>>
    BY <1>2 DEF WorkerStep, Steps, Claim, SelectKeys, SelectRows, NoChanges, SpawnAgent,
                AgentCompletes, Shutdown, Confirm, Finish, Heartbeat, AgentErrs, ShutdownFails,
                StepFails, Crash
  <2> QED BY <1>0, <2>1
<1> QED BY <1>1, <1>2

\* Time and the memory reset.
OtherStep == LeaseExpires \/ BackoffElapses \/ CooldownElapses \/ ClearData \/ ClearRoot

\* Every step is one of a thread, of a worker, of time, or of the reset.
LEMMA StepCases ==
    ASSUME [Next]_vars
    PROVE  \/ \E t \in Threads : ThreadStep(t)
           \/ \E c \in Consolidators : WorkerStep(c)
           \/ OtherStep
           \/ UNCHANGED vars
BY DEF Next, ThreadStep, WorkerStep, OtherStep

\* What time and the reset do: faults are only counted up.
LEMMA OtherFacts ==
    ASSUME Types, OtherStep
    PROVE  /\ UNCHANGED <<src, thread, con>>
           /\ job' \in Rows /\ cool' \in BOOLEAN /\ cleared' \in BOOLEAN
           /\ disturbed' \in BOOLEAN /\ (disturbed => disturbed')
           /\ faults' \in 0 .. MaxFaults /\ faults <= faults'
           /\ out' = out \/ (out' = [t \in Threads |-> NoOutput] /\ faults' > faults)
           /\ \/ UNCHANGED <<work, base, cleared>>
              \/ cleared /\ work' = None /\ base' = None
              \/ UNCHANGED <<work, base>> /\ faults' > faults
<1> USE DEF phase1, history
<1>0. /\ faults \in 0 .. MaxFaults /\ MaxFaults \in Nat /\ disturbed \in BOOLEAN
      /\ job \in Rows /\ cool \in BOOLEAN /\ cleared \in BOOLEAN
  BY ConsolidationAssumption DEF Types, TypeOK
<1>1. ASSUME Fault
      PROVE  faults' \in 0 .. MaxFaults /\ faults' > faults /\ faults <= faults'
  BY <1>0, <1>1 DEF Fault
<1>2. [job EXCEPT !.lease = FALSE] \in Rows /\ [job EXCEPT !.backoff = FALSE] \in Rows
  BY <1>0 DEF Rows
<1>3. CASE LeaseExpires
  <2>1. disturbed' \in BOOLEAN /\ (disturbed => disturbed')
    <3>1. \E b \in BOOLEAN : disturbed' = (disturbed \/ b)
      BY <1>3, Zenon DEF LeaseExpires
    <3> QED BY <1>0, <3>1
  <2>2. /\ UNCHANGED <<src, thread, con, out, cool, work, base, cleared>>
        /\ job' = [job EXCEPT !.lease = FALSE] /\ (Fault \/ faults' = faults)
    BY <1>3 DEF LeaseExpires
  <2> QED BY <1>0, <1>1, <1>2, <2>1, <2>2
<1>4. CASE BackoffElapses \/ CooldownElapses
  <2>1. /\ UNCHANGED <<src, thread, con, out, work, base, cleared, faults, disturbed>>
        /\ job' \in {job, [job EXCEPT !.backoff = FALSE]} /\ cool' \in {cool, FALSE}
    BY <1>4 DEF BackoffElapses, CooldownElapses
  <2>2. faults <= faults
    BY <1>0
  <2> QED BY <1>0, <1>2, <2>1, <2>2
<1>5. CASE ClearData
  <2>1. disturbed' \in BOOLEAN /\ (disturbed => disturbed')
    <3>1. \E b \in BOOLEAN : disturbed' = (disturbed \/ b)
      BY <1>5, Zenon DEF ClearData
    <3> QED BY <1>0, <3>1
  <2>2. /\ UNCHANGED <<src, thread, con, work, base>> /\ out' = [t \in Threads |-> NoOutput]
        /\ job' = NoRow /\ cool' = FALSE /\ cleared' = TRUE /\ Fault
    BY <1>5 DEF ClearData
  <2> QED BY <1>0, <1>1, <2>1, <2>2, RowTypes
<1>6. CASE ClearRoot
  <2>1. /\ UNCHANGED <<src, thread, con, out, job, cool, faults, disturbed>> /\ cleared
        /\ work' = None /\ base' = None /\ cleared' = FALSE
    BY <1>6 DEF ClearRoot
  <2>2. faults <= faults
    BY <1>0
  <2> QED BY <1>0, <2>1, <2>2
<1> QED BY <1>3, <1>4, <1>5, <1>6 DEF OtherStep

\* Every step keeps the types, and flags no newer than memories.
LEMMA TypesStep ==
    ASSUME Types, [Next]_vars
    PROVE  Types'
<1>0. /\ TypeOK /\ out \in [Threads -> [at: Nat, sel: Nat]]
      /\ \A t \in Threads : out[t].at <= src[t]
      /\ job \in Rows /\ con \in [Consolidators -> Workers]
      /\ MaxUpdates \in Nat
  BY ConsolidationAssumption DEF Types
<1>1. ASSUME job' \in Rows
      PROVE  /\ job'.status \in {"none", "pending", "running", "done", "error"}
             /\ job'.token \in Consolidators \cup {NoToken}
  BY <1>1 DEF Rows
<1>2. ASSUME NEW t \in Threads, ThreadStep(t)
      PROVE  Types'
  <2>1. job' \in Rows
    BY <1>0, <1>2, ThreadStepFacts, RowTypes
  <2> QED BY <1>0, <1>1, <1>2, <2>1, ThreadStepFacts, ThreadStepTable DEF Types, TypeOK
<1>3. ASSUME NEW c \in Consolidators, WorkerStep(c)
      PROVE  Types'
  <2>1. con' \in [Consolidators -> Workers]
    BY <1>0, <1>3, WorkerMoves DEF WorkerStep, Steps, Moves, MovesOn
  <2>2. /\ out' \in [Threads -> [at: Nat, sel: Nat]]
        /\ \A t \in Threads : out'[t].at = out[t].at /\ out'[t].sel \in 0 .. out'[t].at
    <3>1. \A t \in Threads : out[t].at \in Nat /\ out[t].sel \in 0 .. out[t].at
      BY <1>0 DEF TypeOK
    <3>2. CASE out' = out
      BY <1>0, <3>1, <3>2
    <3>3. CASE MarkSucceeded(c)
      <4>1. CASE out' = out
        BY <3>2, <4>1
      <4>2. CASE /\ out' \in [Threads -> [at: Nat, sel: Nat]]
                 /\ \A t \in Threads : out'[t].at = out[t].at /\ out'[t].sel \in {0, out[t].at}
        BY <3>1, <4>2
      <4> QED BY <3>3, <4>1, <4>2, MarkFacts
    <3> QED BY <1>3, <3>2, <3>3, WorkerTable
  <2>3. \A t \in Threads : out'[t].at <= src'[t] /\ out'[t].at \in Stamps
    BY <1>0, <1>3, <2>2, WorkerTable DEF TypeOK
  <2>4. /\ src' = src /\ thread' = thread /\ cleared' = cleared /\ disturbed' \in BOOLEAN
        /\ faults' \in 0 .. MaxFaults /\ job' \in Rows /\ cool' \in BOOLEAN
        /\ work' \in [Threads -> Stamps] /\ base' \in [Threads -> Stamps]
    BY <1>3, WorkerTable, WorkerJob, WorkerDirectory
  <2> QED BY <1>0, <1>1, <2>1, <2>2, <2>3, <2>4 DEF Types, TypeOK
<1>4. CASE OtherStep
  <2>1. /\ src' = src /\ thread' = thread /\ con' = con /\ cleared' \in BOOLEAN
        /\ disturbed' \in BOOLEAN /\ faults' \in 0 .. MaxFaults /\ job' \in Rows
        /\ cool' \in BOOLEAN
    BY <1>4, OtherFacts
  <2>2. work' \in [Threads -> Stamps] /\ base' \in [Threads -> Stamps]
    BY <1>0, <1>4, OtherFacts, WorkerTypes DEF TypeOK
  <2>3. /\ out' \in [Threads -> [at: Nat, sel: Nat]]
        /\ \A t \in Threads : /\ out'[t].at <= src'[t] /\ out'[t].at \in Stamps
                              /\ out'[t].sel \in 0 .. out'[t].at
    <3>1. CASE out' = out
      BY <1>0, <2>1, <3>1 DEF TypeOK
    <3>2. CASE out' = [t \in Threads |-> NoOutput]
      <4>1. NoOutput \in [at: Nat, sel: Nat] /\ NoOutput.at = 0 /\ NoOutput.sel = 0
        BY DEF NoOutput
      <4>2. \A t \in Threads : src[t] \in Nat /\ 0 <= src[t]
        BY <1>0 DEF TypeOK, Stamps
      <4> QED BY <1>0, <2>1, <3>2, <4>1, <4>2 DEF Stamps
    <3> QED BY <1>4, <3>1, <3>2, OtherFacts
  <2> QED BY <1>0, <1>1, <2>1, <2>2, <2>3 DEF Types, TypeOK
<1>5. CASE UNCHANGED vars
  BY <1>0, <1>5 DEF vars, phase1, history, Types, TypeOK
<1> QED BY <1>2, <1>3, <1>4, <1>5, StepCases

-----------------------------------------------------------------------------
(* Exclusion.                                                              *)

\* Only a claim puts an idle worker to work, and a worker at its last step only leaves.
LEMMA WorkBegins ==
    ASSUME Types, NEW c \in Consolidators, WorkerStep(c), ~Claim(c)
    PROVE  /\ con[c].pc # "idle"
           /\ con'[c].pc \notin {"idle", "finish"} => AtWork(c)
           /\ \A d \in Consolidators \ {c} : con'[d] = con[d]
<1>1. CASE Heartbeat(c)
  BY <1>1, WorkerMoves DEF Heartbeat, Moves, MovesOn, AtWork
<1>2. CASE NoChanges(c) \/ ShutdownFails(c) \/ Finish(c) \/ StepFails(c) \/ Crash(c)
  BY <1>2, WorkerMoves DEF NoChanges, ShutdownFails, Finish, StepFails, Crash, Moves
<1>3. CASE SelectKeys(c) \/ SelectRows(c) \/ Sync(c) \/ SpawnAgent(c) \/ AgentCompletes(c)
  BY <1>3, WorkerMoves DEF SelectKeys, SelectRows, Sync, SpawnAgent, AgentCompletes, Moves,
                           MovesOn, AtWork
<1>4. CASE Shutdown(c) \/ Confirm(c) \/ ResetBaseline(c) \/ AgentErrs(c)
  BY <1>4, WorkerMoves DEF Shutdown, Confirm, ResetBaseline, AgentErrs, Moves, MovesOn, AtWork
<1> QED BY <1>1, <1>2, <1>3, <1>4 DEF WorkerStep, Steps

\* A renewal or the passing of a backoff leaves a leased job with its owner.
LEMMA HolderKept ==
    ASSUME Types, NEW d \in Consolidators, Owns(d, job), job.lease,
           \/ job' \in {job, Enqueued(job)}
           \/ job' \in {[job EXCEPT !.lease = TRUE], [job EXCEPT !.backoff = FALSE]}
    PROVE  Owns(d, job') /\ job'.lease
<1>1. job \in Rows /\ Running(job)
  BY DEF Types, Owns
<1> QED BY <1>1, RowTypes DEF Owns, Running, Rows

\* A worker's own step keeps the job for itself, or gives it up as it leaves; others cannot
\* take it from it.
LEMMA WorkerHolds ==
    ASSUME Types, NEW c \in Consolidators, WorkerStep(c),
           NEW d \in Consolidators, Owns(d, job), job.lease, con'[d].pc # "idle"
    PROVE  Owns(d, job') /\ job'.lease
<1>1. CASE job' = job \/ job' = [job EXCEPT !.lease = TRUE]
  BY <1>1, HolderKept
<1>2. CASE Owns(c, job) /\ Moves(c, "idle")
  <2>1. d = c
    BY <1>2 DEF Owns
  <2> QED BY <1>2, <2>1 DEF Moves
<1>3. CASE Claim(c)
  BY <1>3 DEF Claim, Leased, Owns
<1> QED BY <1>1, <1>2, <1>3, WorkerJob

\* The lease shuts a second worker out.
LEMMA WorkersHoldTheJobStep ==
    ASSUME Types, WorkersHoldTheJob, [Next]_vars
    PROVE  WorkersHoldTheJob'
<1> SUFFICES ASSUME ~disturbed', NEW d \in Consolidators, con'[d].pc \notin {"idle", "finish"}
             PROVE  Owns(d, job') /\ job'.lease
  BY DEF WorkersHoldTheJob, AtWork
<1>0. ASSUME ~disturbed, AtWork(d)
      PROVE  Owns(d, job) /\ job.lease
  BY <1>0 DEF WorkersHoldTheJob
<1>1. ASSUME NEW t \in Threads, ThreadStep(t)
      PROVE  Owns(d, job') /\ job'.lease
  <2>1. ~disturbed /\ AtWork(d)
    BY <1>1, ThreadStepFacts DEF AtWork
  <2> QED BY <1>0, <1>1, <2>1, ThreadStepFacts, HolderKept
<1>2. ASSUME NEW c \in Consolidators, WorkerStep(c)
      PROVE  Owns(d, job') /\ job'.lease
  <2>1. ~disturbed
    BY <1>2, WorkerTable
  <2>2. CASE Claim(c)
    <3>1. job' = RunBy(c) /\ ~Leased(job)
      BY <2>2 DEF Claim
    <3>2. CASE d = c
      BY <3>1, <3>2, RowTypes DEF Types
    <3>3. CASE d # c
      <4>1. AtWork(d)
        BY <2>2, <3>3, WorkerMoves DEF Moves, MovesOn, AtWork
      <4> QED BY <1>0, <2>1, <3>1, <4>1 DEF Leased, Owns
    <3> QED BY <3>2, <3>3
  <2>3. CASE ~Claim(c)
    <3>1. AtWork(d)
      BY <1>2, <2>3, WorkBegins DEF AtWork
    <3> QED BY <1>0, <1>2, <2>1, <3>1, WorkerHolds
  <2> QED BY <2>2, <2>3
<1>3. CASE OtherStep
  <2>1. ~disturbed /\ AtWork(d)
    BY <1>3, OtherFacts DEF AtWork
  <2>2. Owns(d, job) /\ job.lease
    BY <1>0, <2>1
  <2>3. CASE BackoffElapses \/ CooldownElapses \/ ClearRoot
    BY <2>2, <2>3, HolderKept DEF BackoffElapses, CooldownElapses, ClearRoot
  <2>4. ~LeaseExpires
    <3>1. SUFFICES ASSUME LeaseExpires
                   PROVE  FALSE
      OBVIOUS
    <3>2. \E c \in Consolidators : con[c].pc # "idle" /\ Owns(c, job)
      BY <2>1, <2>2 DEF AtWork
    <3> QED BY <3>1, <3>2, Zenon DEF LeaseExpires
  <2>5. ~ClearData
    <3>1. SUFFICES ASSUME ClearData
                   PROVE  FALSE
      OBVIOUS
    <3>2. \E c \in Consolidators : AtWork(c)
      BY <2>1
    <3> QED BY <3>1, <3>2, Zenon DEF ClearData
  <2> QED BY <1>3, <2>3, <2>4, <2>5 DEF OtherStep
<1>4. CASE UNCHANGED vars
  BY <1>0, <1>4 DEF vars, history, AtWork
<1> QED BY <1>1, <1>2, <1>3, <1>4, StepCases

-----------------------------------------------------------------------------
(* Before the first fault.                                                 *)

\* A step that leaves the count of faults at 0 found it there; no fault has happened in it.
LEMMA NoFaultYet ==
    ASSUME Types, [Next]_vars, faults' = 0
    PROVE  faults = 0 /\ ~Fault
<1>0. faults \in Nat
  BY ConsolidationAssumption DEF Types, TypeOK
<1>1. faults <= faults'
  <2>1. ASSUME NEW t \in Threads, ThreadStep(t)
        PROVE  faults <= faults'
    BY <1>0, <2>1, ThreadStepFacts
  <2>2. ASSUME NEW c \in Consolidators, WorkerStep(c)
        PROVE  faults <= faults'
    BY <2>2, WorkerTable
  <2>3. CASE OtherStep
    BY <2>3, OtherFacts
  <2>4. CASE UNCHANGED vars
    BY <1>0, <2>4 DEF vars, history
  <2> QED BY <2>1, <2>2, <2>3, <2>4, StepCases
<1> QED BY <1>0, <1>1 DEF Fault

\* A worker's step that is no fault disturbs nobody.
LEMMA WorkerUndisturbed ==
    ASSUME NEW c \in Consolidators, WorkerStep(c), ~Fault
    PROVE  disturbed' = disturbed
BY DEF WorkerStep, Steps, Claim, SelectKeys, SelectRows, Sync, NoChanges, SpawnAgent,
       AgentCompletes, Shutdown, Confirm, ResetBaseline, Finish, Heartbeat, AgentErrs,
       ShutdownFails, StepFails, Crash, history

\* Until then no run loses its job.
LEMMA RunsKeepTheJobStep ==
    ASSUME Types, RunsKeepTheJob, [Next]_vars
    PROVE  RunsKeepTheJob'
<1> SUFFICES ASSUME faults' = 0
             PROVE  /\ ~disturbed' /\ ~cleared'
                    /\ \A d \in Consolidators :
                           con'[d].pc # "idle" => Owns(d, job') /\ job'.lease
  BY DEF RunsKeepTheJob
<1>0. /\ ~Fault /\ ~disturbed /\ ~cleared
      /\ \A d \in Consolidators : con[d].pc # "idle" => Owns(d, job) /\ job.lease
  BY NoFaultYet DEF RunsKeepTheJob
<1>1. ASSUME NEW t \in Threads, ThreadStep(t)
      PROVE  RunsKeepTheJob'
  BY <1>0, <1>1, ThreadStepFacts, HolderKept DEF RunsKeepTheJob
<1>2. ASSUME NEW c \in Consolidators, WorkerStep(c)
      PROVE  RunsKeepTheJob'
  <2>1. ~disturbed' /\ ~cleared'
    BY <1>0, <1>2, WorkerUndisturbed, WorkerTable
  <2>2. ASSUME NEW d \in Consolidators, con'[d].pc # "idle"
        PROVE  Owns(d, job') /\ job'.lease
    <3>1. CASE Claim(c)
      <4>1. job' = RunBy(c) /\ ~Leased(job)
        BY <3>1 DEF Claim
      <4>2. CASE d = c
        BY <4>1, <4>2, RowTypes DEF Types
      <4>3. CASE d # c
        <5>1. con[d].pc # "idle"
          BY <2>2, <3>1, <4>3, WorkerMoves DEF Moves, MovesOn
        <5> QED BY <1>0, <4>1, <5>1 DEF Leased, Owns
      <4> QED BY <4>2, <4>3
    <3>2. CASE ~Claim(c)
      <4>1. con[d].pc # "idle"
        BY <1>2, <2>2, <3>2, WorkBegins
      <4> QED BY <1>0, <1>2, <2>2, <4>1, WorkerHolds
    <3> QED BY <3>1, <3>2
  <2> QED BY <2>1, <2>2 DEF RunsKeepTheJob
<1>3. CASE OtherStep
  <2>1. con' = con
    BY <1>3, OtherFacts
  <2>2. CASE BackoffElapses \/ CooldownElapses
    <3>1. ~disturbed' /\ ~cleared' /\ job' \in {job, [job EXCEPT !.backoff = FALSE]}
      BY <1>0, <2>2 DEF BackoffElapses, CooldownElapses, history
    <3> QED BY <1>0, <2>1, <3>1, HolderKept DEF RunsKeepTheJob
  <2>3. CASE LeaseExpires
    <3>1. ~(\E c \in Consolidators : con[c].pc # "idle" /\ Owns(c, job))
      BY <1>0, <2>3, Zenon DEF LeaseExpires
    <3>2. ~disturbed'
      BY <1>0, <2>3, <3>1, Zenon DEF LeaseExpires
    <3>3. ~cleared'
      BY <1>0, <2>3 DEF LeaseExpires
    <3> QED BY <1>0, <2>1, <3>1, <3>2, <3>3 DEF RunsKeepTheJob
  <2> QED BY <1>0, <1>3, <2>2, <2>3 DEF OtherStep, ClearData, ClearRoot
<1>4. CASE UNCHANGED vars
  BY <1>0, <1>4 DEF vars, history
<1> QED BY <1>1, <1>2, <1>3, <1>4, StepCases DEF RunsKeepTheJob

\* A run goes from its claim through the copy of its selection to the reset of the baseline.
LEMMA WorkerPath ==
    ASSUME Types, NEW c \in Consolidators, WorkerStep(c), ~Claim(c)
    PROVE  \/ con'[c].pc \in {"idle", "keys", "rows"}
           \/ Sync(c) /\ con'[c].pc = "synced" /\ con'[c].sel = con[c].sel
           \/ /\ HasSynced(c) /\ con'[c].sel = con[c].sel /\ ~Sync(c)
              /\ con'[c].pc # "finish" \/ ResetBaseline(c)
<1>1. CASE Sync(c)
  BY <1>1, WorkerMoves DEF Sync, Moves, MovesOn
<1>2. CASE SelectKeys(c) \/ SelectRows(c) \/ NoChanges(c) \/ ShutdownFails(c) \/ Finish(c)
           \/ StepFails(c) \/ Crash(c)
  BY <1>2, WorkerMoves DEF Moves
<1>3. CASE Heartbeat(c) \/ SpawnAgent(c) \/ AgentCompletes(c) \/ AgentErrs(c)
  BY <1>3, WorkerMoves DEF Heartbeat, SpawnAgent, AgentCompletes, AgentErrs, Moves, MovesOn,
                           HasSynced, Sync
<1>4. CASE Shutdown(c) \/ Confirm(c) \/ ResetBaseline(c)
  BY <1>4, WorkerMoves DEF Shutdown, Confirm, ResetBaseline, Moves, MovesOn, HasSynced, Sync
<1> QED BY <1>1, <1>2, <1>3, <1>4 DEF WorkerStep, Steps

\* Nobody but the run that holds the job touches the directory.
LEMMA DirectoryStep ==
    ASSUME Types, RunsKeepTheJob, DirectoryFollowsRun, [Next]_vars
    PROVE  DirectoryFollowsRun'
<1> SUFFICES ASSUME faults' = 0, NEW d \in Consolidators
             PROVE  /\ HasSynced(d)' => work' = con'[d].sel
                    /\ con'[d].pc = "finish" => base' = work'
  BY DEF DirectoryFollowsRun
<1>0. /\ ~Fault /\ ~cleared /\ faults = 0
      /\ \A c \in Consolidators : con[c].pc # "idle" => Owns(c, job) /\ job.lease
      /\ \A c \in Consolidators : /\ HasSynced(c) => work = con[c].sel
                                  /\ con[c].pc = "finish" => base = work
  BY NoFaultYet DEF RunsKeepTheJob, DirectoryFollowsRun
<1>1. CASE UNCHANGED <<con, work, base>>
  BY <1>0, <1>1 DEF HasSynced
<1>2. ASSUME NEW t \in Threads, ThreadStep(t)
      PROVE  UNCHANGED <<con, work, base>>
  BY <1>2, ThreadStepFacts
<1>3. CASE OtherStep
  <2>1. UNCHANGED <<con, work, base>>
    BY <1>0, <1>3, OtherFacts
  <2> QED BY <1>1, <2>1
<1>4. ASSUME NEW c \in Consolidators, WorkerStep(c)
      PROVE  /\ HasSynced(d)' => work' = con'[d].sel
             /\ con'[d].pc = "finish" => base' = work'
  <2>1. CASE Claim(c)
    <3>1. UNCHANGED <<work, base>>
      BY <2>1 DEF Claim
    <3>2. con'[d] = con[d] \/ con'[d].pc = "claimed"
      BY <2>1, WorkerMoves DEF Moves, MovesOn
    <3> QED BY <1>0, <3>1, <3>2 DEF HasSynced
  <2>2. CASE ~Claim(c) /\ d # c
    <3>1. con[c].pc # "idle" /\ con'[d] = con[d]
      BY <1>4, <2>2, WorkBegins
    <3>2. con[d].pc = "idle"
      BY <1>0, <2>2, <3>1 DEF Owns
    <3> QED BY <3>1, <3>2 DEF HasSynced
  <2>3. CASE ~Claim(c) /\ d = c
    <3>1. CASE con'[c].pc \in {"idle", "keys", "rows"}
      BY <2>3, <3>1 DEF HasSynced
    <3>2. CASE Sync(c) /\ con'[c].pc = "synced" /\ con'[c].sel = con[c].sel
      BY <2>3, <3>2 DEF Sync
    <3>3. CASE /\ HasSynced(c) /\ con'[c].sel = con[c].sel /\ ~Sync(c)
               /\ con'[c].pc # "finish" \/ ResetBaseline(c)
      <4>1. work' = work
        BY <1>4, <3>3, WorkerDirectory
      <4>2. ResetBaseline(c) => base' = work
        BY DEF ResetBaseline
      <4> QED BY <1>0, <2>3, <3>3, <4>1, <4>2
    <3> QED BY <1>4, <2>3, <3>1, <3>2, <3>3, WorkerPath
  <2> QED BY <2>1, <2>2, <2>3
<1>5. CASE UNCHANGED vars
  BY <1>1, <1>5 DEF vars
<1> QED BY <1>1, <1>2, <1>3, <1>4, <1>5, StepCases

\* A report of success marks what the baseline was made from.
LEMMA FlagsStep ==
    ASSUME Types, RunsKeepTheJob, DirectoryFollowsRun, FlagsMatchBaseline, [Next]_vars
    PROVE  FlagsMatchBaseline'
<1> SUFFICES ASSUME faults' = 0, \A c \in Consolidators : con'[c].pc # "finish",
                    NEW t \in Threads, out'[t].sel # 0
             PROVE  base'[t] = out'[t].sel
  BY DEF FlagsMatchBaseline
<1>0. /\ ~Fault /\ ~cleared /\ faults = 0
      /\ \A c \in Consolidators : con[c].pc # "idle" => Owns(c, job) /\ job.lease
      /\ \A c \in Consolidators : /\ HasSynced(c) => work = con[c].sel
                                  /\ con[c].pc = "finish" => base = work
  BY NoFaultYet DEF RunsKeepTheJob, DirectoryFollowsRun
<1>1. ASSUME \A c \in Consolidators : con[c].pc # "finish", base' = base,
             out'[t].sel \in {0, out[t].sel}
      PROVE  base'[t] = out'[t].sel
  BY <1>0, <1>1 DEF FlagsMatchBaseline
<1>2. ASSUME NEW u \in Threads, ThreadStep(u)
      PROVE  base'[t] = out'[t].sel
  BY <1>1, <1>2, ThreadStepFacts, ThreadStepTable
<1>3. CASE OtherStep
  <2>1. con' = con /\ out' = out /\ base' = base
    BY <1>0, <1>3, OtherFacts
  <2> QED BY <1>1, <2>1
<1>4. ASSUME NEW c \in Consolidators, WorkerStep(c)
      PROVE  base'[t] = out'[t].sel
  <2>1. CASE NoChanges(c) \/ Finish(c)
    <3>1. MarkSucceeded(c) /\ base' = base /\ base = con[c].sel /\ Owns(c, job)
      BY <1>0, <2>1 DEF NoChanges, Finish, HasSynced
    <3>2. out'[t].sel = con[c].sel[t]
      BY <3>1, MarkFacts
    <3> QED BY <3>1, <3>2
  <2>2. CASE ~NoChanges(c) /\ ~Finish(c)
    <3>1. out' = out
      BY <1>4, <2>2, WorkerTable
    <3>2. base' = base
      BY <1>4, WorkerDirectory, WorkerMoves DEF Moves, MovesOn
    <3>3. con[c].pc # "finish"
      BY <1>0, <1>4, <2>2 DEF WorkerStep, Steps, Claim, SelectKeys, SelectRows, Sync, SpawnAgent,
             AgentCompletes, Shutdown, Confirm, ResetBaseline, Heartbeat, AgentErrs,
             ShutdownFails, StepFails, Crash
    <3>4. \A d \in Consolidators \ {c} : con'[d] = con[d]
      BY <1>4, WorkBegins, WorkerMoves DEF Moves, MovesOn
    <3> QED BY <1>1, <3>1, <3>2, <3>3, <3>4
  <2> QED BY <2>1, <2>2
<1>5. CASE UNCHANGED vars
  <2>1. con' = con /\ out' = out /\ base' = base
    BY <1>5 DEF vars
  <2> QED BY <1>1, <2>1
<1> QED BY <1>2, <1>3, <1>4, <1>5, StepCases

-----------------------------------------------------------------------------
(* The theorems.                                                           *)

\* An empty table and an empty directory satisfy the invariant.
LEMMA InitIInv ==
    ASSUME Init
    PROVE  IInv
<1>0. MaxUpdates \in Nat /\ MaxFaults \in Nat /\ 0 \in Stamps
  BY ConsolidationAssumption DEF Stamps
<1>1. None \in [Threads -> Stamps] /\ Idle \in Workers /\ Idle.pc = "idle" /\ NoRow \in Rows
  <2>1. None \in [Threads -> Stamps]
    BY <1>0 DEF None
  <2> QED BY <2>1 DEF Idle, Workers, NoRow, Rows
<1>2. /\ NoOutput \in [at: Nat, sel: Nat] /\ NoOutput.at = 0 /\ NoOutput.sel = 0
      /\ \A t \in Threads : out[t] = NoOutput /\ src[t] = 0
  BY DEF NoOutput, Init, None
<1>3. \A c \in Consolidators : con[c].pc = "idle"
  BY <1>1 DEF Init
<1>4. Types
  <2>1. /\ job.status \in {"none", "pending", "running", "done", "error"}
        /\ job.token \in Consolidators \cup {NoToken}
    BY DEF Init, NoRow
  <2>2. \A t \in Threads : /\ out[t].at \in Stamps /\ out[t].sel \in 0 .. out[t].at
                           /\ out[t].at <= src[t]
    BY <1>0, <1>2
  <2>3. TypeOK
    <3>1. /\ src \in [Threads -> Stamps] /\ work \in [Threads -> Stamps] /\ base \in [Threads -> Stamps]
          /\ thread \in [Threads -> {"here", "selected", "unselected", "leaving", "out"}]
      BY <1>1 DEF Init
    <3>2. cool \in BOOLEAN /\ cleared \in BOOLEAN /\ disturbed \in BOOLEAN
      BY DEF Init
    <3>3. faults \in 0 .. MaxFaults
      BY <1>0 DEF Init
    <3> QED BY <2>1, <2>2, <3>1, <3>2, <3>3 DEF TypeOK
  <2> QED BY <1>1, <1>2, <2>2, <2>3 DEF Init, Types
<1>5. WorkersHoldTheJob /\ RunsKeepTheJob /\ DirectoryFollowsRun
  BY <1>3 DEF Init, WorkersHoldTheJob, RunsKeepTheJob, DirectoryFollowsRun, AtWork, HasSynced
<1>6. FlagsMatchBaseline
  BY <1>2 DEF FlagsMatchBaseline
<1> QED BY <1>4, <1>5, <1>6 DEF IInv

\* The rows of the database, the runs of phase 2 and the memories directory stay consistent
\* with each other through claims, losses, failures, resets and the passing of time.
THEOREM InductiveInvariant == Spec => []IInv
<1>1. Init => IInv
  BY InitIInv
<1>2. IInv /\ [Next]_vars => IInv'
  BY TypesStep, WorkersHoldTheJobStep, RunsKeepTheJobStep, DirectoryStep, FlagsStep DEF IInv
<1> QED BY <1>1, <1>2, PTL DEF Spec

\* Every variable keeps its type, and no flag names a memory newer than the row's.
THEOREM TypeCorrect == Spec => []TypeOK
<1>1. IInv => TypeOK
  BY DEF IInv, Types
<1> QED BY <1>1, InductiveInvariant, PTL

\* try_claim_global_phase2_job, the heartbeats and the order of shutdown and release keep a
\* second consolidation out of the memories directory, for any number of sessions.
THEOREM ConsolidationsExclude == Spec => []OneConsolidation
<1>1. IInv => OneConsolidation
  BY DEF IInv, WorkersHoldTheJob, OneConsolidation, Owns
<1> QED BY <1>1, InductiveInvariant, PTL

\* As long as no run was disturbed, what mark_global_phase2_job_succeeded flags in the table is
\* what reset_memory_workspace_baseline put into the baseline, however phase 1, pollution,
\* deletion and pruning change the rows during the run.
THEOREM FlagsTellTheBaseline == Spec => []FlagsMatchBaseline
<1>1. IInv => FlagsMatchBaseline
  BY DEF IInv
<1> QED BY <1>1, InductiveInvariant, PTL
=============================================================================
