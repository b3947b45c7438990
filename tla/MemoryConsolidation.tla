------------------------ MODULE MemoryConsolidation ------------------------
(***************************************************************************)
(* Phase 2 of the memory pipeline (codex-rs/memories/write/src/phase2.rs,  *)
(* codex-rs/state/src/runtime/memories.rs).  One leased job, shared by the *)
(* sessions of all processes, guards the memories directory: its owner     *)
(* copies the current memories into it, lets an agent work on them, and    *)
(* makes the result the baseline for the next time.                        *)
(*                                                                         *)
(* A memory is the updated_at of the thread it was extracted from; 0 means *)
(* none.  work and base are the memories the directory and its baseline    *)
(* were made from.  The watermarks of the job are left out: nothing is     *)
(* decided by them.                                                        *)
(***************************************************************************)
EXTENDS Integers, FiniteSets, JobRows

CONSTANTS
    Threads,
    Consolidators,  \* runs of phase 2 under way at a time, of all sessions
    MaxUpdates,     \* bound: updates of a thread
    MaxFaults       \* bound: failures, crashes, stalls and resets

ASSUME ConsolidationAssumption ==
    /\ IsFiniteSet(Threads) /\ NoToken \notin Consolidators
    /\ MaxUpdates \in Nat /\ MaxFaults \in Nat

VARIABLES
    src,       \* the last update extracted by phase 1
    thread,    \* "here", on the way out, or "out" of what may be remembered
    out,       \* stage1_outputs: the memory and the snapshot selected_for_phase2
    job,       \* the row of the job memory_consolidate_global
    cool,      \* its last success is within the cooldown
    con,       \* the workers
    work,      \* the directory's inputs
    base,      \* its last baseline
    cleared,   \* a memory reset has cleared the tables, not yet the directory
    faults,    \* faults so far
    disturbed  \* the job was lost by a worker that is still at work

phase1 == <<src, thread>>
history == <<faults, disturbed>>
vars == <<phase1, out, job, cool, con, work, base, cleared, history>>

NoOutput == [at |-> 0, sel |-> 0]
None == [t \in Threads |-> 0]
Idle == [pc |-> "idle", sel |-> None, ok |-> FALSE]
Enabled(t) == thread[t] # "out"

\* From its claim to its result a worker uses the directory.
AtWork(c) == con[c].pc \notin {"idle", "finish"}

Init ==
    /\ src = None
    /\ thread = [t \in Threads |-> "here"]
    /\ out = [t \in Threads |-> NoOutput]
    /\ job = NoRow
    /\ cool = FALSE
    /\ con = [c \in Consolidators |-> Idle]
    /\ work = None
    /\ base = None
    /\ cleared = FALSE
    /\ faults = 0
    /\ disturbed = FALSE

Fault == faults < MaxFaults /\ faults' = faults + 1

\* enqueue_global_consolidation: a running job keeps running, another may be tried at once.
Enqueued(row) ==
    IF Running(row) THEN row ELSE [row EXCEPT !.status = "pending", !.backoff = FALSE]

(***************************************************************************)
(* Phase 1 and the threads.                                                *)
(***************************************************************************)
\* mark_stage1_job_succeeded: the flag of the row is left alone.
Extracted(t) ==
    /\ src[t] < MaxUpdates
    /\ src' = [src EXCEPT ![t] = @ + 1]
    /\ out' = [out EXCEPT ![t].at = src[t] + 1]
    /\ job' = Enqueued(job)
    /\ UNCHANGED <<thread, cool, con, work, base, cleared, history>>

\* Mutant: the row is emptied and keeps its flag.
EmptiedKeepsFlag(t) ==
    /\ src[t] < MaxUpdates
    /\ src' = [src EXCEPT ![t] = @ + 1]
    /\ out' = [out EXCEPT ![t].at = 0]
    /\ job' = IF out[t].at # 0 THEN Enqueued(job) ELSE job
    /\ UNCHANGED <<thread, cool, con, work, base, cleared, history>>

\* mark_stage1_job_succeeded_no_output
ExtractedNothing(t) ==
    /\ src[t] < MaxUpdates
    /\ src' = [src EXCEPT ![t] = @ + 1]
    /\ out' = [out EXCEPT ![t] = NoOutput]
    /\ job' = IF out[t].at # 0 THEN Enqueued(job) ELSE job
    /\ UNCHANGED <<thread, cool, con, work, base, cleared, history>>

\* mark_thread_memory_mode_polluted reads the flag,
PolluteRead(t) ==
    /\ thread[t] = "here"
    /\ thread' = [thread EXCEPT ![t] = IF out[t].sel # 0 THEN "selected" ELSE "unselected"]
    /\ UNCHANGED <<src, out, job, cool, con, work, base, cleared, history>>

\* changes the thread's mode and asks for a consolidation that forgets it.
PolluteWrite(t) ==
    /\ thread[t] \in {"selected", "unselected"}
    /\ thread' = [thread EXCEPT ![t] = "out"]
    /\ job' = IF thread[t] = "selected" THEN Enqueued(job) ELSE job
    /\ UNCHANGED <<src, out, cool, con, work, base, cleared, history>>

\* delete_thread_memory, and then the thread's row
DeleteMemory(t) ==
    /\ thread[t] = "here"
    /\ thread' = [thread EXCEPT ![t] = "leaving"]
    /\ out' = [out EXCEPT ![t] = NoOutput]
    /\ job' = IF out[t].sel # 0 THEN Enqueued(job) ELSE job
    /\ UNCHANGED <<src, cool, con, work, base, cleared, history>>

DeleteThread(t) ==
    /\ thread[t] = "leaving"
    /\ thread' = [thread EXCEPT ![t] = "out"]
    /\ UNCHANGED <<src, out, job, cool, con, work, base, cleared, history>>

\* prune_stage1_outputs_for_retention spares what the baseline was made from.
Prune(t) ==
    /\ out[t].at # 0 /\ out[t].sel = 0
    /\ out' = [out EXCEPT ![t] = NoOutput]
    /\ UNCHANGED <<phase1, job, cool, con, work, base, cleared, history>>

(***************************************************************************)
(* The steps of a run.                                                     *)
(***************************************************************************)
\* Mutant: a run waits until somebody has asked for it.
ClaimIfAsked(c) ==
    /\ con[c].pc = "idle"
    /\ ~Leased(job) /\ ~job.backoff /\ ~cool /\ job.status # "done"
    /\ job' = RunBy(c)
    /\ con' = [con EXCEPT ![c].pc = "claimed"]
    /\ UNCHANGED <<phase1, out, cool, work, base, cleared, history>>

\* try_claim_global_phase2_job
Claim(c) ==
    /\ con[c].pc = "idle"
    /\ ~Leased(job) /\ ~job.backoff /\ ~cool
    /\ job' = RunBy(c)
    /\ con' = [con EXCEPT ![c].pc = "claimed"]
    /\ UNCHANGED <<phase1, out, cool, work, base, cleared, history>>

\* get_phase2_input_selection: first the keys of the memories of enabled threads,
SelectKeys(c) ==
    /\ con[c].pc = "claimed"
    /\ con' = [con EXCEPT ![c].pc = "keys",
                          ![c].sel = [t \in Threads |-> IF Enabled(t) THEN out[t].at ELSE 0]]
    /\ UNCHANGED <<phase1, out, job, cool, work, base, cleared, history>>

\* then the rows, those that are still the same.
SelectRows(c) ==
    /\ con[c].pc = "keys"
    /\ con' = [con EXCEPT
                  ![c].pc = "rows",
                  ![c].sel = [t \in Threads |-> IF Enabled(t) /\ out[t].at = @[t] THEN @[t] ELSE 0]]
    /\ UNCHANGED <<phase1, out, job, cool, work, base, cleared, history>>

\* sync_phase2_workspace_inputs
Sync(c) ==
    /\ con[c].pc = "rows"
    /\ work' = con[c].sel
    /\ con' = [con EXCEPT ![c].pc = "synced"]
    /\ UNCHANGED <<phase1, out, job, cool, base, cleared, history>>

\* Mutant: the memory is marked, not the snapshot that was selected.
MarkCurrent(c) ==
    IF Owns(c, job)
    THEN /\ job' = Ended(job, "done")
         /\ cool' = TRUE
         /\ out' = [t \in Threads |->
                       [out[t] EXCEPT !.sel = IF con[c].sel[t] # 0 THEN out[t].at ELSE 0]]
    ELSE UNCHANGED <<job, cool, out>>

\* mark_global_phase2_job_succeeded: the memories that are still what was selected are marked.
MarkSucceeded(c) ==
    IF Owns(c, job)
    THEN /\ job' = Ended(job, "done")
         /\ cool' = TRUE
         /\ out' = [t \in Threads |->
                       [out[t] EXCEPT !.sel = IF con[c].sel[t] = out[t].at THEN out[t].at ELSE 0]]
    ELSE UNCHANGED <<job, cool, out>>

\* job::failed
MarkFailed(c) ==
    IF Owns(c, job)
    THEN job' = Errored(job) /\ cool' = FALSE
    ELSE UNCHANGED <<job, cool>>

\* memory_workspace_diff: nothing has changed,
NoChanges(c) ==
    /\ con[c].pc = "synced" /\ work = base
    /\ MarkSucceeded(c)
    /\ con' = [con EXCEPT ![c] = Idle]
    /\ UNCHANGED <<phase1, work, base, cleared, history>>

\* or something has (the agent's own files, perhaps), and the agent is started.
SpawnAgent(c) ==
    /\ con[c].pc = "synced"
    /\ con' = [con EXCEPT ![c].pc = "agent"]
    /\ UNCHANGED <<phase1, out, job, cool, work, base, cleared, history>>

\* loop_agent: a heartbeat renews the lease, or finds that the job is lost.
Heartbeat(c) ==
    /\ con[c].pc = "agent"
    /\ IF Owns(c, job)
       THEN job' = [job EXCEPT !.lease = TRUE] /\ UNCHANGED con
       ELSE con' = [con EXCEPT ![c].pc = "stop"] /\ UNCHANGED job
    /\ UNCHANGED <<phase1, out, cool, work, base, cleared, history>>

\* The agent completes, or it ends in an error.
AgentCompletes(c) ==
    /\ con[c].pc = "agent"
    /\ con' = [con EXCEPT ![c].pc = "stop", ![c].ok = TRUE]
    /\ UNCHANGED <<phase1, out, job, cool, work, base, cleared, history>>

\* Mutant: the job is given up while the agent is still there.
ReleaseFirst(c) ==
    /\ con[c].pc = "agent"
    /\ Fault
    /\ MarkFailed(c)
    /\ con' = [con EXCEPT ![c].pc = "stop"]
    /\ UNCHANGED <<phase1, out, work, base, cleared, disturbed>>

AgentErrs(c) ==
    /\ con[c].pc = "agent"
    /\ Fault
    /\ con' = [con EXCEPT ![c].pc = "stop"]
    /\ UNCHANGED <<phase1, out, job, cool, work, base, cleared, disturbed>>

\* The agent is shut down; only then is the job given up.
Shutdown(c) ==
    /\ con[c].pc = "stop"
    /\ \/ /\ con[c].ok
          /\ con' = [con EXCEPT ![c].pc = "confirm"]
          /\ UNCHANGED <<job, cool>>
       \/ /\ ~con[c].ok
          /\ con' = [con EXCEPT ![c] = Idle]
          /\ MarkFailed(c)
    /\ UNCHANGED <<phase1, out, work, base, cleared, history>>

\* It does not shut down in time: the job is kept until its lease expires.
ShutdownFails(c) ==
    /\ con[c].pc = "stop"
    /\ Fault
    /\ disturbed' = TRUE
    /\ con' = [con EXCEPT ![c] = Idle]
    /\ UNCHANGED <<phase1, out, job, cool, work, base, cleared>>

\* The last heartbeat: a worker that lost the job leaves the baseline alone.
Confirm(c) ==
    /\ con[c].pc = "confirm"
    /\ IF Owns(c, job)
       THEN job' = [job EXCEPT !.lease = TRUE] /\ con' = [con EXCEPT ![c].pc = "reset"]
       ELSE con' = [con EXCEPT ![c] = Idle] /\ UNCHANGED job
    /\ UNCHANGED <<phase1, out, cool, work, base, cleared, history>>

\* reset_memory_workspace_baseline
ResetBaseline(c) ==
    /\ con[c].pc = "reset"
    /\ base' = work
    /\ con' = [con EXCEPT ![c].pc = "finish"]
    /\ UNCHANGED <<phase1, out, job, cool, work, cleared, history>>

Finish(c) ==
    /\ con[c].pc = "finish"
    /\ MarkSucceeded(c)
    /\ con' = [con EXCEPT ![c] = Idle]
    /\ UNCHANGED <<phase1, work, base, cleared, history>>

\* A step of the run returns an error: the directory cannot be prepared, read, written or
\* diffed, the agent cannot be started, its artifacts are invalid, the baseline not reset.
StepFails(c) ==
    /\ con[c].pc \in {"claimed", "keys", "rows", "synced", "confirm", "reset"}
    /\ Fault
    /\ MarkFailed(c)
    /\ con' = [con EXCEPT ![c] = Idle]
    /\ UNCHANGED <<phase1, out, work, base, cleared, disturbed>>

\* The worker's process ends, its agent with it.
Crash(c) ==
    /\ con[c].pc # "idle"
    /\ Fault
    /\ con' = [con EXCEPT ![c] = Idle]
    /\ UNCHANGED <<phase1, out, job, cool, work, base, cleared, disturbed>>

(***************************************************************************)
(* Time, and the memory reset.                                             *)
(***************************************************************************)
\* The lease expires after its worker has gone or, a fault, while it is still at it.
LeaseExpires ==
    /\ Leased(job)
    /\ LET stalled == \E c \in Consolidators : con[c].pc # "idle" /\ Owns(c, job)
       IN  /\ IF stalled THEN Fault ELSE UNCHANGED faults
           /\ disturbed' = (disturbed \/ stalled)
    /\ job' = [job EXCEPT !.lease = FALSE]
    /\ UNCHANGED <<phase1, out, cool, con, work, base, cleared>>

\* retry_at has passed; PHASE2_SUCCESS_COOLDOWN_SECONDS have passed.
BackoffElapses ==
    /\ job.backoff
    /\ job' = [job EXCEPT !.backoff = FALSE]
    /\ UNCHANGED <<phase1, out, cool, con, work, base, cleared, history>>

CooldownElapses ==
    /\ cool
    /\ cool' = FALSE
    /\ UNCHANGED <<phase1, out, job, con, work, base, cleared, history>>

\* memory_reset_response_inner: clear_memory_data, and then clear_memory_roots_contents
ClearData ==
    /\ ~cleared
    /\ Fault
    /\ out' = [t \in Threads |-> NoOutput]
    /\ job' = NoRow
    /\ cool' = FALSE
    /\ cleared' = TRUE
    /\ disturbed' = (disturbed \/ \E c \in Consolidators : AtWork(c))
    /\ UNCHANGED <<phase1, con, work, base>>

ClearRoot ==
    /\ cleared
    /\ work' = None
    /\ base' = None
    /\ cleared' = FALSE
    /\ UNCHANGED <<phase1, out, job, cool, con, history>>

(***************************************************************************)
(* The whole.                                                              *)
(***************************************************************************)
Steps(c) ==
    \/ Claim(c) \/ SelectKeys(c) \/ SelectRows(c) \/ Sync(c) \/ NoChanges(c) \/ SpawnAgent(c)
    \/ AgentCompletes(c) \/ Shutdown(c) \/ Confirm(c) \/ ResetBaseline(c) \/ Finish(c)

Next ==
    \/ \E t \in Threads :
           \/ Extracted(t) \/ ExtractedNothing(t) \/ Prune(t)
           \/ PolluteRead(t) \/ PolluteWrite(t) \/ DeleteMemory(t) \/ DeleteThread(t)
    \/ \E c \in Consolidators :
           \/ Steps(c) \/ Heartbeat(c)
           \/ AgentErrs(c) \/ ShutdownFails(c) \/ StepFails(c) \/ Crash(c)
    \/ LeaseExpires \/ BackoffElapses \/ CooldownElapses
    \/ ClearData \/ ClearRoot

Spec == Init /\ [][Next]_vars

\* Sessions keep being started, their runs are scheduled, the agent ends, and time passes.
FairSpec ==
    /\ Spec
    /\ \A c \in Consolidators : WF_vars(Steps(c))
    /\ WF_vars(LeaseExpires) /\ WF_vars(BackoffElapses) /\ WF_vars(CooldownElapses)

(***************************************************************************)
(* Properties.                                                             *)
(***************************************************************************)
Stamps == 0..MaxUpdates

\* Every variable keeps its type; a snapshot in the baseline is no newer than the memory.
TypeOK ==
    /\ src \in [Threads -> Stamps]
    /\ thread \in [Threads -> {"here", "selected", "unselected", "leaving", "out"}]
    /\ \A t \in Threads : out[t].at \in Stamps /\ out[t].sel \in 0 .. out[t].at
    /\ job.status \in {"none", "pending", "running", "done", "error"}
    /\ job.token \in Consolidators \cup {NoToken}
    /\ cool \in BOOLEAN /\ cleared \in BOOLEAN /\ disturbed \in BOOLEAN
    /\ work \in [Threads -> Stamps] /\ base \in [Threads -> Stamps]
    /\ faults \in 0..MaxFaults

\* One consolidation at a time inspects or changes the directory, unless a lease ran out under
\* its worker, an agent could not be shut down, or the memories were reset in the meantime.
OneConsolidation == ~disturbed => \A c, d \in Consolidators : AtWork(c) /\ AtWork(d) => c = d

\* What is to be forgotten is forgotten for good: the memory of a polluted or a deleted thread
\* leaves the baseline, whatever a run that began before it was polluted still does.
Forgotten == \A t \in Threads : ~Enabled(t) ~> [](base[t] = 0)

\* The baseline of the last run that succeeded, as the flags in the table tell it, is in the
\* directory's baseline, unless something has disturbed that run or a later one.
FlagsMatchBaseline ==
    (faults = 0 /\ \A c \in Consolidators : con[c].pc # "finish") =>
        \A t \in Threads : out[t].sel # 0 => base[t] = out[t].sel
=============================================================================
