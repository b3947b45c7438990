-------------------------- MODULE MemoryExtraction --------------------------
(***************************************************************************)
(* Phase 1 of the memory pipeline (codex-rs/state/src/runtime/memories.rs, *)
(* codex-rs/memories/write/src/phase1.rs).  A session that starts lists    *)
(* idle threads, claims a leased job for each and has a model extract the  *)
(* thread's memory.  The sessions of several processes share the database; *)
(* a worker may die, be slower than its lease, or finish after its job was *)
(* given to another or its thread was deleted.                             *)
(*                                                                         *)
(* A memory is the updated_at of the thread it was extracted from; 0 means *)
(* none.                                                                   *)
(***************************************************************************)
EXTENDS Integers, FiniteSets, JobRows

CONSTANTS
    Threads,
    Extractors,     \* jobs under way at a time, of all sessions
    MaxUpdates,     \* bound: updates of threads after the first
    MaxRunning,     \* max_running_jobs
    Retries,        \* DEFAULT_RETRY_REMAINING
    MaxFaults       \* bound: failures, crashes, slow workers and resets

ASSUME ExtractionAssumption ==
    /\ IsFiniteSet(Threads) /\ NoToken \notin Extractors
    /\ MaxUpdates \in Nat /\ MaxRunning \in Nat \ {0}
    /\ Retries \in Nat \ {0} /\ MaxFaults \in Nat

VARIABLES
    src,      \* threads.updated_at
    thread,   \* "here", "leaving" (its memory was deleted first) or "gone"
    out,      \* stage1_outputs.source_updated_at
    job,      \* jobs of kind memory_stage1
    ext,      \* the workers
    faults    \* faults so far

vars == <<src, thread, out, job, ext, faults>>

NoJob == [row |-> NoRow, left |-> 0, input |-> 0, done |-> 0]
Idle == [pc |-> "idle", t |-> CHOOSE t \in Threads : TRUE, at |-> 0]
WorksOn(e, t) == ext[e].pc = "working" /\ ext[e].t = t

Init ==
    /\ src = [t \in Threads |-> 1]
    /\ thread = [t \in Threads |-> "here"]
    /\ out = [t \in Threads |-> 0]
    /\ job = [t \in Threads |-> NoJob]
    /\ ext = [e \in Extractors |-> Idle]
    /\ faults = 0

Fault == faults < MaxFaults /\ faults' = faults + 1

(***************************************************************************)
(* Threads.                                                                *)
(***************************************************************************)
\* The thread is used again.
Touch(t) ==
    /\ thread[t] = "here" /\ src[t] <= MaxUpdates
    /\ src' = [src EXCEPT ![t] = @ + 1]
    /\ UNCHANGED <<thread, out, job, ext, faults>>

\* delete_threads_strict: the memory and its job go first (delete_thread_memory),
DeleteMemory(t) ==
    /\ thread[t] = "here"
    /\ thread' = [thread EXCEPT ![t] = "leaving"]
    /\ out' = [out EXCEPT ![t] = 0]
    /\ job' = [job EXCEPT ![t] = NoJob]
    /\ UNCHANGED <<src, ext, faults>>

\* the thread's row last.
DeleteThread(t) ==
    /\ thread[t] = "leaving"
    /\ thread' = [thread EXCEPT ![t] = "gone"]
    /\ UNCHANGED <<src, out, job, ext, faults>>

(***************************************************************************)
(* Workers.                                                                *)
(***************************************************************************)
\* claim_stage1_jobs_for_startup lists the threads
Scan(e, t) ==
    /\ ext[e].pc = "idle"
    /\ thread[t] # "gone" /\ out[t] < src[t] /\ job[t].done < src[t]
    /\ ext' = [ext EXCEPT ![e] = [pc |-> "scanned", t |-> t, at |-> src[t]]]
    /\ UNCHANGED <<src, thread, out, job, faults>>

UpToDate(t, at) == out[t] >= at \/ job[t].done >= at

\* Mutant: the jobs that run are not counted.
ClaimableCrowded(t, at) ==
    /\ ~Leased(job[t].row)
    /\ ~job[t].row.backoff \/ at > job[t].input
    /\ job[t].left > 0 \/ at > job[t].input

\* Mutant: a running job is taken to be in good hands, expired or not.
ClaimableIfEnded(t, at) ==
    /\ ~Running(job[t].row)
    /\ ~job[t].row.backoff \/ at > job[t].input
    /\ job[t].left > 0 \/ at > job[t].input
    /\ Cardinality({u \in Threads \ {t} : Leased(job[u].row)}) < MaxRunning

\* The upsert of try_claim_stage1_job changes a row only when nobody works on it, its backoff
\* is over and it has retries left, or when the thread has been updated since.
Claimable(t, at) ==
    /\ ~Leased(job[t].row)
    /\ ~job[t].row.backoff \/ at > job[t].input
    /\ job[t].left > 0 \/ at > job[t].input
    /\ Cardinality({u \in Threads \ {t} : Leased(job[u].row)}) < MaxRunning

\* and claims one of them, or not, from what it has read.
Claim(e) ==
    LET t  == ext[e].t
        at == ext[e].at
    IN  /\ ext[e].pc = "scanned"
        /\ IF ~UpToDate(t, at) /\ Claimable(t, at)
           THEN /\ job' = [job EXCEPT ![t].row = RunBy(e), ![t].input = at,
                                      ![t].left = IF at > job[t].input THEN Retries ELSE @]
                /\ ext' = [ext EXCEPT ![e].pc = "working"]
           ELSE /\ ext' = [ext EXCEPT ![e] = Idle]
                /\ UNCHANGED job
        /\ UNCHANGED <<src, thread, out, faults>>

\* A worker reports its result.  The row is changed only for the worker that still owns it.
Report(e, ownedRow) ==
    /\ ext[e].pc = "working"
    /\ job' = IF Owns(e, job[ext[e].t].row) THEN [job EXCEPT ![ext[e].t] = ownedRow] ELSE job
    /\ ext' = [ext EXCEPT ![e] = Idle]
    /\ UNCHANGED <<src, thread>>

\* A job that succeeded remembers the update it has seen.
Finished(j) == [j EXCEPT !.row = Ended(@, "done"), !.done = j.input]

\* mark_stage1_job_succeeded
Succeed(e) ==
    LET t == ext[e].t
    IN  /\ Report(e, Finished(job[t]))
        /\ out' = IF Owns(e, job[t].row) /\ ext[e].at >= out[t]
                  THEN [out EXCEPT ![t] = ext[e].at]
                  ELSE out
        /\ UNCHANGED faults

\* Mutant: the memory goes before the ownership of the job is looked at.
SucceedEmptyLate(e) ==
    /\ Report(e, Finished(job[ext[e].t]))
    /\ out' = [out EXCEPT ![ext[e].t] = 0]
    /\ UNCHANGED faults

\* mark_stage1_job_succeeded_no_output: there is nothing to remember of the thread.
SucceedEmpty(e) ==
    LET t == ext[e].t
    IN  /\ Report(e, Finished(job[t]))
        /\ out' = IF Owns(e, job[t].row) THEN [out EXCEPT ![t] = 0] ELSE out
        /\ UNCHANGED faults

\* mark_stage1_job_failed
Fail(e) ==
    LET j == job[ext[e].t]
    IN  /\ Report(e, [j EXCEPT !.row = Errored(@), !.left = @ - 1])
        /\ Fault
        /\ UNCHANGED out

\* The worker's process ends.
Die(e) ==
    /\ ext[e].pc # "idle"
    /\ Fault
    /\ ext' = [ext EXCEPT ![e] = Idle]
    /\ UNCHANGED <<src, thread, out, job>>

(***************************************************************************)
(* The table.                                                              *)
(***************************************************************************)
\* prune_stage1_outputs_for_retention: an old memory goes, what its job has seen stays.
Prune(t) ==
    /\ out[t] # 0
    /\ out' = [out EXCEPT ![t] = 0]
    /\ UNCHANGED <<src, thread, job, ext, faults>>

\* clear_memory_data
ClearData ==
    /\ Fault
    /\ out' = [t \in Threads |-> 0]
    /\ job' = [t \in Threads |-> NoJob]
    /\ UNCHANGED <<src, thread, ext>>

\* lease_until has passed.  Nothing renews the lease of a phase-1 job: its worker may have
\* died or, a fault, be slow.
LeaseExpires(t) ==
    /\ Leased(job[t].row)
    /\ IF \E e \in Extractors : WorksOn(e, t) /\ Owns(e, job[t].row) THEN Fault ELSE UNCHANGED faults
    /\ job' = [job EXCEPT ![t].row.lease = FALSE]
    /\ UNCHANGED <<src, thread, out, ext>>

\* retry_at has passed.
BackoffElapses(t) ==
    /\ job[t].row.backoff
    /\ job' = [job EXCEPT ![t].row.backoff = FALSE]
    /\ UNCHANGED <<src, thread, out, ext, faults>>

(***************************************************************************)
(* The whole.                                                              *)
(***************************************************************************)
Extraction(e) == (\E t \in Threads : Scan(e, t)) \/ Claim(e) \/ Succeed(e) \/ SucceedEmpty(e)

Next ==
    \/ \E t \in Threads :
           \/ Touch(t) \/ DeleteMemory(t) \/ DeleteThread(t) \/ Prune(t)
           \/ LeaseExpires(t) \/ BackoffElapses(t)
    \/ \E e \in Extractors : Extraction(e) \/ Fail(e) \/ Die(e)
    \/ ClearData

Spec == Init /\ [][Next]_vars

\* Sessions keep being started and look at every thread, workers come to an end, time passes.
FairSpec ==
    /\ Spec
    /\ \A e \in Extractors : WF_vars(Claim(e)) /\ WF_vars(Succeed(e) \/ SucceedEmpty(e))
    /\ \A t \in Threads : SF_vars(\E e \in Extractors : Scan(e, t))
    /\ \A t \in Threads : WF_vars(LeaseExpires(t)) /\ WF_vars(BackoffElapses(t))

(***************************************************************************)
(* Properties.                                                             *)
(***************************************************************************)
Stamps == 0 .. MaxUpdates + 1

\* Every variable keeps its type; in particular the retries of a job never go below zero.
TypeOK ==
    /\ src \in [Threads -> Stamps]
    /\ thread \in [Threads -> {"here", "leaving", "gone"}]
    /\ out \in [Threads -> Stamps]
    /\ \A t \in Threads : job[t].left \in 0..Retries /\ job[t].input \in Stamps /\ job[t].done \in Stamps
    /\ ext \in [Extractors -> [pc: {"idle", "scanned", "working"}, t: Threads, at: Stamps]]
    /\ faults \in 0..MaxFaults

\* No more jobs hold a lease than max_running_jobs, however claims, expiry and reclaims fall.
RunningBounded == Cardinality({t \in Threads : Leased(job[t].row)}) <= MaxRunning

\* A worker that comes late does not undo what another has found out: no result takes away the
\* memory of a newer update, or makes the job forget an update it has seen.
NewestMemoryKept ==
    [][\A e \in Extractors, t \in Threads :
           ext'[e] # ext[e] =>
               /\ out'[t] < out[t] => WorksOn(e, t) /\ ext[e].at >= out[t]
               /\ job'[t].done >= job[t].done]_vars

\* Every update of a thread is extracted in the end, unless its retries run out: neither a
\* worker that died nor a busy pool blocks a thread for good.
CaughtUp ==
    \A t \in Threads :
        []<>(thread[t] # "here" \/ job[t].done = src[t] \/ (job[t].left = 0 /\ job[t].input = src[t]))

\* A deleted thread leaves no memory behind.
DeletedForGood == \A t \in Threads : thread[t] = "gone" => out[t] = 0
=============================================================================
