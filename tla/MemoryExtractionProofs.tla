----------------------- MODULE MemoryExtractionProofs -----------------------
(***************************************************************************)
(* The jobs of phase 1 for every number of threads, workers, updates,      *)
(* retries and faults: the leases stay within max_running_jobs, a late     *)
(* result takes nothing away, and no job retries more often than allowed.  *)
(***************************************************************************)
EXTENDS MemoryExtraction, FiniteSetTheorems, TLAPS

-----------------------------------------------------------------------------
(* The inductive invariant.                                                *)

Rows == [status: {"none", "running", "done", "error"},
         token: Extractors \cup {NoToken}, lease: BOOLEAN, backoff: BOOLEAN]
Jobs == [row: Rows, left: 0 .. Retries, input: Stamps, done: Stamps]
Workers == [pc: {"idle", "scanned", "working"}, t: Threads \cup {Idle.t}, at: Stamps]

\* Every variable keeps its type; whoever has scanned or claimed has a thread in hand.
Types ==
    /\ src \in [Threads -> Stamps]
    /\ thread \in [Threads -> {"here", "leaving", "gone"}]
    /\ out \in [Threads -> Stamps]
    /\ job \in [Threads -> Jobs]
    /\ ext \in [Extractors -> Workers]
    /\ \A e \in Extractors : ext[e].pc # "idle" => ext[e].t \in Threads
    /\ faults \in 0 .. MaxFaults

\* A job that runs has a retry left to lose, and works on an update no older than the last
\* one it has seen.
JobsConsistent ==
    \A t \in Threads :
        /\ Running(job[t].row) => job[t].left > 0
        /\ job[t].done <= job[t].input

\* While a worker owns the job of its thread, no newer memory of the thread appears.
OwnersAreNewest ==
    \A e \in Extractors, t \in Threads :
        WorksOn(e, t) /\ Owns(e, job[t].row) => out[t] <= ext[e].at

IInv == Types /\ JobsConsistent /\ OwnersAreNewest /\ RunningBounded

-----------------------------------------------------------------------------
(* Rows of jobs.                                                           *)

\* What the statements on the jobs table make of a row.
Claimed(j, e, at) == [j EXCEPT !.row = RunBy(e), !.input = at,
                               !.left = IF at > j.input THEN Retries ELSE @]
Failed(j) == [j EXCEPT !.row = Errored(@), !.left = @ - 1]
LeaseOver(j) == [j EXCEPT !.row = [@ EXCEPT !.lease = FALSE]]
BackoffOver(j) == [j EXCEPT !.row = [@ EXCEPT !.backoff = FALSE]]

\* A row that ends or errs runs no longer.
LEMMA RowTypes ==
    ASSUME NEW r \in Rows
    PROVE  /\ Ended(r, "done") \in Rows /\ ~Running(Ended(r, "done"))
           /\ Errored(r) \in Rows /\ ~Running(Errored(r))
           /\ [r EXCEPT !.lease = FALSE] \in Rows /\ ~Leased([r EXCEPT !.lease = FALSE])
           /\ [r EXCEPT !.backoff = FALSE] \in Rows
           /\ \A e \in Extractors : RunBy(e) \in Rows /\ Owns(e, RunBy(e))
<1>1. Ended(r, "done") \in Rows /\ ~Running(Ended(r, "done"))
  BY DEF Rows, Ended, Running
<1>2. Errored(r) \in Rows /\ ~Running(Errored(r))
  <2> DEFINE q == Ended(r, "error")
  <2>1. q \in Rows /\ ~Running(q)
    BY DEF Rows, Ended, Running
  <2> HIDE DEF q
  <2>2. [q EXCEPT !.backoff = TRUE] \in Rows /\ ~Running([q EXCEPT !.backoff = TRUE])
    BY <2>1 DEF Rows, Running
  <2> QED BY <2>2 DEF Errored, q
<1>3. /\ [r EXCEPT !.lease = FALSE] \in Rows /\ ~Leased([r EXCEPT !.lease = FALSE])
      /\ [r EXCEPT !.backoff = FALSE] \in Rows
  BY DEF Rows, Leased
<1>4. \A e \in Extractors : RunBy(e) \in Rows /\ Owns(e, RunBy(e))
  BY DEF Rows, RunBy, Owns, Running
<1> QED BY <1>1, <1>2, <1>3, <1>4

\* No job is a job that does not run.
LEMMA NoJobType ==
    /\ NoJob \in Jobs /\ ~Running(NoJob.row) /\ ~Leased(NoJob.row)
    /\ NoJob.done = 0 /\ NoJob.input = 0
<1>1. NoRow \in Rows /\ ~Running(NoRow)
  BY DEF Rows, NoRow, Running
<1>2. 0 \in Stamps /\ 0 \in 0 .. Retries
  BY ExtractionAssumption DEF Stamps
<1> QED BY <1>1, <1>2 DEF NoJob, Jobs, Leased

\* A claim gives a job a retry to lose; a failure takes it; results remember the update.
LEMMA JobTypes ==
    ASSUME NEW j \in Jobs
    PROVE  /\ Finished(j) \in Jobs /\ ~Running(Finished(j).row)
           /\ Finished(j).done = j.input /\ Finished(j).input = j.input
           /\ j.left > 0 => Failed(j) \in Jobs
           /\ ~Running(Failed(j).row) /\ Failed(j).done = j.done /\ Failed(j).input = j.input
           /\ \A e \in Extractors, at \in Stamps :
                 LET c == Claimed(j, e, at)
                 IN  /\ c \in Jobs /\ c.row = RunBy(e) /\ c.done = j.done /\ c.input = at
                     /\ j.left > 0 \/ at > j.input => c.left > 0
<1>0. /\ MaxUpdates \in Nat /\ Retries \in Nat /\ Retries > 0
      /\ j.row \in Rows /\ j.left \in 0 .. Retries /\ j.input \in Stamps /\ j.done \in Stamps
  BY ExtractionAssumption DEF Jobs
<1>1. /\ Finished(j) \in Jobs /\ ~Running(Finished(j).row)
      /\ Finished(j).done = j.input /\ Finished(j).input = j.input
  <2>1. Ended(j.row, "done") \in Rows /\ ~Running(Ended(j.row, "done"))
    BY <1>0, RowTypes
  <2>2. Finished(j) = [j EXCEPT !.row = Ended(j.row, "done"), !.done = j.input]
    BY DEF Finished
  <2> QED BY <1>0, <2>1, <2>2 DEF Jobs
<1>2. /\ j.left > 0 => Failed(j) \in Jobs
      /\ ~Running(Failed(j).row) /\ Failed(j).done = j.done /\ Failed(j).input = j.input
  <2>1. Errored(j.row) \in Rows /\ ~Running(Errored(j.row))
    BY <1>0, RowTypes
  <2>2. Failed(j) = [j EXCEPT !.row = Errored(j.row), !.left = j.left - 1]
    BY DEF Failed
  <2>3. j.left > 0 => j.left - 1 \in 0 .. Retries
    BY <1>0
  <2> QED BY <1>0, <2>1, <2>2, <2>3 DEF Jobs
<1>3. ASSUME NEW e \in Extractors, NEW at \in Stamps
      PROVE  LET c == Claimed(j, e, at)
             IN  /\ c \in Jobs /\ c.row = RunBy(e) /\ c.done = j.done /\ c.input = at
                 /\ j.left > 0 \/ at > j.input => c.left > 0
  <2> DEFINE left == IF at > j.input THEN Retries ELSE j.left
  <2>1. left \in 0 .. Retries /\ (j.left > 0 \/ at > j.input => left > 0)
    BY <1>0
  <2>2. RunBy(e) \in Rows
    BY <1>0, RowTypes
  <2>3. Claimed(j, e, at) = [j EXCEPT !.row = RunBy(e), !.input = at, !.left = left]
    BY DEF Claimed
  <2> HIDE DEF left
  <2> QED BY <1>0, <2>1, <2>2, <2>3 DEF Jobs
<1> QED BY <1>1, <1>2, <1>3

\* Time takes a lease or a backoff from a row and changes nothing else.
LEMMA TimeTypes ==
    ASSUME NEW j \in Jobs
    PROVE  \A i \in {LeaseOver(j), BackoffOver(j)} :
              /\ i \in Jobs
              /\ i.left = j.left /\ i.input = j.input /\ i.done = j.done
              /\ Running(i.row) <=> Running(j.row)
              /\ i.row.token = j.row.token
              /\ Leased(i.row) => Leased(j.row)
<1>0. /\ j.row \in Rows /\ j.left \in 0 .. Retries /\ j.input \in Stamps /\ j.done \in Stamps
  BY DEF Jobs
<1>1. ASSUME NEW r \in {[j.row EXCEPT !.lease = FALSE], [j.row EXCEPT !.backoff = FALSE]}
      PROVE  /\ r \in Rows /\ r.token = j.row.token /\ (Running(r) <=> Running(j.row))
             /\ Leased(r) => Leased(j.row)
  <2>1. r \in Rows
    BY <1>0, RowTypes
  <2>2. r.token = j.row.token /\ r.status = j.row.status
    BY <1>0 DEF Rows
  <2>3. Leased(r) => Leased(j.row)
    BY <1>0, <2>2 DEF Rows, Leased, Running
  <2> QED BY <2>1, <2>2, <2>3 DEF Running
<1>2. /\ LeaseOver(j) = [j EXCEPT !.row = [j.row EXCEPT !.lease = FALSE]]
      /\ BackoffOver(j) = [j EXCEPT !.row = [j.row EXCEPT !.backoff = FALSE]]
  BY DEF LeaseOver, BackoffOver
<1> QED BY <1>0, <1>1, <1>2 DEF Jobs

-----------------------------------------------------------------------------
(* The steps.                                                              *)

JobSet(t, j) == job' = [job EXCEPT ![t] = j]

\* What a step does to the jobs: nothing, a deletion, the passing of time, a claim, a result
\* of the job's owner, or a reset.
JobDeleted(t) == JobSet(t, NoJob) /\ out'[t] = 0
JobAged(t) == JobSet(t, LeaseOver(job[t])) \/ JobSet(t, BackoffOver(job[t]))
JobClaimed(e) ==
    LET t == ext[e].t
        at == ext[e].at
    IN  /\ ext[e].pc = "scanned" /\ ~UpToDate(t, at) /\ Claimable(t, at)
        /\ JobSet(t, Claimed(job[t], e, at))
        /\ ext' = [ext EXCEPT ![e].pc = "working"]
        /\ out' = out
JobReported(e) ==
    LET t == ext[e].t
    IN  /\ ext[e].pc = "working" /\ Owns(e, job[t].row)
        /\ JobSet(t, Finished(job[t])) \/ JobSet(t, Failed(job[t]))
        /\ ext' = [ext EXCEPT ![e] = Idle]

JobEffect ==
    \/ job' = job
    \/ \E t \in Threads : JobDeleted(t) /\ ext' = ext
    \/ \E t \in Threads : JobAged(t) /\ UNCHANGED <<out, ext>>
    \/ \E e \in Extractors : JobClaimed(e) \/ JobReported(e)
    \/ ClearData

\* Every handler of phase 1 has one of these effects.
LEMMA Effects ==
    ASSUME Types, [Next]_vars
    PROVE  JobEffect
<1>0. /\ job \in [Threads -> Jobs] /\ out \in [Threads -> Stamps] /\ ext \in [Extractors -> Workers]
      /\ \A e \in Extractors : ext[e].pc # "idle" => ext[e].t \in Threads
  BY DEF Types
<1>1. ASSUME NEW t \in Threads, DeleteMemory(t)
      PROVE  JobEffect
  <2>1. JobDeleted(t) /\ ext' = ext
    BY <1>0, <1>1 DEF DeleteMemory, JobDeleted, JobSet
  <2> QED BY <2>1 DEF JobEffect
<1>2. ASSUME NEW t \in Threads, LeaseExpires(t)
      PROVE  JobEffect
  <2>1. JobSet(t, LeaseOver(job[t])) /\ UNCHANGED <<out, ext>>
    BY <1>0, <1>2 DEF LeaseExpires, JobSet, LeaseOver
  <2> QED BY <2>1 DEF JobEffect, JobAged
<1>3. ASSUME NEW t \in Threads, BackoffElapses(t)
      PROVE  JobEffect
  <2>1. JobSet(t, BackoffOver(job[t])) /\ UNCHANGED <<out, ext>>
    BY <1>0, <1>3 DEF BackoffElapses, JobSet, BackoffOver
  <2> QED BY <2>1 DEF JobEffect, JobAged
<1>4. ASSUME NEW e \in Extractors, Claim(e)
      PROVE  JobEffect
  <2> DEFINE t == ext[e].t
             at == ext[e].at
  <2>1. CASE ~UpToDate(t, at) /\ Claimable(t, at)
    <3>1. /\ job' = [job EXCEPT ![t].row = RunBy(e), ![t].input = at,
                                ![t].left = IF at > job[t].input THEN Retries ELSE @]
          /\ ext' = [ext EXCEPT ![e].pc = "working"] /\ out' = out /\ ext[e].pc = "scanned"
      BY <1>4, <2>1 DEF Claim
    <3>2. JobSet(t, Claimed(job[t], e, at))
      BY <3>1 DEF JobSet, Claimed
    <3>3. JobClaimed(e)
      BY <2>1, <3>1, <3>2 DEF JobClaimed
    <3> QED BY <3>3 DEF JobEffect
  <2>2. CASE ~(~UpToDate(t, at) /\ Claimable(t, at))
    BY <1>4, <2>2 DEF Claim, JobEffect
  <2> QED BY <2>1, <2>2
<1>5. ASSUME NEW e \in Extractors, Succeed(e) \/ SucceedEmpty(e) \/ Fail(e)
      PROVE  JobEffect
  <2> DEFINE t == ext[e].t
  <2>1. CASE Owns(e, job[t].row)
    <3>1. /\ ext[e].pc = "working" /\ ext' = [ext EXCEPT ![e] = Idle]
          /\ JobSet(t, Finished(job[t])) \/ JobSet(t, Failed(job[t]))
      BY <1>5, <2>1 DEF Succeed, SucceedEmpty, Fail, Report, JobSet, Failed
    <3>2. JobReported(e)
      BY <2>1, <3>1 DEF JobReported
    <3> QED BY <3>2 DEF JobEffect
  <2>2. CASE ~Owns(e, job[t].row)
    BY <1>5, <2>2 DEF Succeed, SucceedEmpty, Fail, Report, JobEffect
  <2> QED BY <2>1, <2>2
<1>6. ASSUME NEW t \in Threads, Touch(t) \/ DeleteThread(t) \/ Prune(t)
      PROVE  JobEffect
  BY <1>6 DEF Touch, DeleteThread, Prune, JobEffect
<1>7. ASSUME NEW e \in Extractors, (\E t \in Threads : Scan(e, t)) \/ Die(e)
      PROVE  JobEffect
  BY <1>7 DEF Scan, Die, JobEffect
<1>8. CASE ClearData \/ UNCHANGED vars
  BY <1>8 DEF JobEffect, vars
<1> QED BY <1>1, <1>2, <1>3, <1>4, <1>5, <1>6, <1>7, <1>8 DEF Next, Extraction

\* The jobs stay jobs: a failure finds a retry to take, and no result goes back behind
\* what was seen before.
LEMMA JobsStep ==
    ASSUME Types, JobsConsistent, JobEffect
    PROVE  /\ job' \in [Threads -> Jobs]
           /\ JobsConsistent'
           /\ \A u \in Threads :
                 Leased(job'[u].row) =>
                     \/ Leased(job[u].row)
                     \/ \E e \in Extractors : JobClaimed(e) /\ u = ext[e].t
<1>0. /\ job \in [Threads -> Jobs] /\ ext \in [Extractors -> Workers]
      /\ \A e \in Extractors : ext[e].pc # "idle" => ext[e].t \in Threads
      /\ \A e \in Extractors : ext[e].at \in Stamps
      /\ \A u \in Threads : /\ job[u] \in Jobs /\ job[u].done <= job[u].input
                            /\ Running(job[u].row) => job[u].left > 0
  BY DEF Types, Workers, JobsConsistent
<1>1. ASSUME NEW t \in Threads, NEW j \in Jobs, JobSet(t, j), j.done <= j.input,
             Running(j.row) => j.left > 0,
             \/ Leased(j.row) => Leased(job[t].row)
             \/ \E e \in Extractors : JobClaimed(e) /\ t = ext[e].t
      PROVE  /\ job' \in [Threads -> Jobs]
             /\ JobsConsistent'
             /\ \A u \in Threads :
                   Leased(job'[u].row) =>
                       \/ Leased(job[u].row)
                       \/ \E e \in Extractors : JobClaimed(e) /\ u = ext[e].t
  <2>1. /\ job' \in [Threads -> Jobs]
        /\ \A u \in Threads : job'[u] = IF u = t THEN j ELSE job[u]
    BY <1>0, <1>1 DEF JobSet
  <2>2. JobsConsistent'
    BY <1>0, <1>1, <2>1 DEF JobsConsistent
  <2> QED BY <1>1, <2>1, <2>2
<1>2. CASE job' = job
  BY <1>0, <1>2 DEF JobsConsistent
<1>3. ASSUME NEW t \in Threads, JobDeleted(t)
      PROVE  JobSet(t, NoJob)
  BY <1>3 DEF JobDeleted
<1>4. ASSUME NEW t \in Threads, JobAged(t)
      PROVE  \E j \in {LeaseOver(job[t]), BackoffOver(job[t])} : JobSet(t, j)
  BY <1>4 DEF JobAged
<1>5. ASSUME NEW e \in Extractors, JobClaimed(e)
      PROVE  LET t == ext[e].t
                 j == Claimed(job[t], e, ext[e].at)
             IN  /\ t \in Threads /\ j \in Jobs /\ JobSet(t, j)
                 /\ j.done <= j.input /\ j.left > 0
  <2> DEFINE t == ext[e].t
             at == ext[e].at
             j == Claimed(job[t], e, at)
  <2>1. t \in Threads /\ at \in Stamps /\ JobSet(t, j)
    BY <1>0, <1>5 DEF JobClaimed
  <2>2. job[t].done < at /\ (job[t].left > 0 \/ at > job[t].input)
    <3>1. job[t].done \in Int /\ at \in Int
      BY <1>0, <2>1, ExtractionAssumption DEF Jobs, Stamps
    <3> QED BY <1>5, <3>1 DEF JobClaimed, UpToDate, Claimable
  <2>3. j \in Jobs /\ j.done = job[t].done /\ j.input = at /\ j.left > 0
    BY <1>0, <2>1, <2>2, JobTypes
  <2>4. j.done <= j.input
    BY <1>0, <2>1, <2>2, <2>3, ExtractionAssumption DEF Jobs, Stamps
  <2> QED BY <2>1, <2>3, <2>4
<1>6. ASSUME NEW e \in Extractors, JobReported(e)
      PROVE  /\ ext[e].t \in Threads
             /\ \E j \in Jobs : JobSet(ext[e].t, j) /\ ~Running(j.row) /\ j.done <= j.input
  <2> DEFINE t == ext[e].t
  <2>1. t \in Threads /\ job[t] \in Jobs /\ job[t].left > 0
    BY <1>0, <1>6 DEF JobReported, Owns
  <2>2. job[t].input <= job[t].input
    BY <2>1, ExtractionAssumption DEF Jobs, Stamps
  <2>3. /\ Finished(job[t]) \in Jobs /\ ~Running(Finished(job[t]).row)
        /\ Finished(job[t]).done <= Finished(job[t]).input
    BY <2>1, <2>2, JobTypes
  <2>4. /\ Failed(job[t]) \in Jobs /\ ~Running(Failed(job[t]).row)
        /\ Failed(job[t]).done <= Failed(job[t]).input
    BY <1>0, <2>1, JobTypes
  <2> QED BY <1>6, <2>1, <2>3, <2>4 DEF JobReported
<1>7. CASE ClearData
  <2>1. job' = [t \in Threads |-> NoJob]
    BY <1>7 DEF ClearData
  <2> QED BY <2>1, NoJobType DEF JobsConsistent
<1>8. ASSUME NEW t \in Threads, JobAged(t)
      PROVE  \E j \in Jobs : /\ JobSet(t, j) /\ j.done <= j.input
                             /\ Running(j.row) => j.left > 0
                             /\ Leased(j.row) => Leased(job[t].row)
  BY <1>0, <1>4, <1>8, TimeTypes
<1>9. CASE \E t \in Threads : JobDeleted(t)
  BY <1>1, <1>3, <1>9, NoJobType
<1>10. CASE \E t \in Threads : JobAged(t)
  BY <1>1, <1>8, <1>10
<1>11. CASE \E e \in Extractors : JobClaimed(e)
  <2>1. PICK e \in Extractors : JobClaimed(e)
    BY <1>11
  <2> DEFINE t == ext[e].t
             j == Claimed(job[t], e, ext[e].at)
  <2>2. t \in Threads /\ j \in Jobs /\ JobSet(t, j) /\ j.done <= j.input /\ j.left > 0
    BY <1>5, <2>1
  <2> HIDE DEF j
  <2> QED BY <1>1, <2>1, <2>2
<1>12. CASE \E e \in Extractors : JobReported(e)
  <2>1. PICK e \in Extractors : JobReported(e)
    BY <1>12
  <2>2. PICK j \in Jobs : JobSet(ext[e].t, j) /\ ~Running(j.row) /\ j.done <= j.input
    BY <1>6, <2>1
  <2> QED BY <1>1, <1>6, <2>1, <2>2 DEF Leased
<1> QED BY <1>2, <1>7, <1>9, <1>10, <1>11, <1>12 DEF JobEffect

\* What a step does to one worker: it stays where it is, scans a thread, claims what it has
\* scanned, or is done.
WorkerKept(e) == ext'[e] = ext[e]
WorkerScans(e) == ext[e].pc = "idle" /\ ext'[e].pc = "scanned" /\ ext'[e].t \in Threads
WorkerClaims(e) == JobClaimed(e) /\ ext'[e].pc = "working" /\ ext'[e].t = ext[e].t /\ ext'[e].at = ext[e].at
WorkerDone(e) == ext'[e] = Idle

\* Every step keeps the workers workers, and takes each one step at most.
LEMMA WorkersStep ==
    ASSUME Types, [Next]_vars
    PROVE  /\ ext' \in [Extractors -> Workers]
           /\ \A e \in Extractors :
                 WorkerKept(e) \/ WorkerScans(e) \/ WorkerClaims(e) \/ WorkerDone(e)
           /\ \A e \in Extractors : ext'[e].pc # "idle" => ext'[e].t \in Threads
<1>0. /\ ext \in [Extractors -> Workers] /\ src \in [Threads -> Stamps]
      /\ \A e \in Extractors : ext[e].pc # "idle" => ext[e].t \in Threads
  BY DEF Types
<1>1. Idle \in Workers /\ Idle.pc = "idle"
  BY ExtractionAssumption DEF Idle, Workers, Stamps
<1>2. CASE ext' = ext
  BY <1>0, <1>2 DEF WorkerKept
<1>3. ASSUME NEW e \in Extractors, ext' = [ext EXCEPT ![e] = Idle]
      PROVE  /\ ext' \in [Extractors -> Workers]
             /\ \A d \in Extractors : ext'[d] = IF d = e THEN Idle ELSE ext[d]
  BY <1>0, <1>1, <1>3
<1>4. ASSUME NEW e \in Extractors, ext' = [ext EXCEPT ![e] = Idle]
      PROVE  /\ \A d \in Extractors : WorkerKept(d) \/ WorkerDone(d)
             /\ \A d \in Extractors : ext'[d].pc # "idle" => ext'[d].t \in Threads
  BY <1>0, <1>1, <1>3, <1>4 DEF WorkerKept, WorkerDone
<1>5. ASSUME NEW e \in Extractors, NEW t \in Threads, Scan(e, t)
      PROVE  /\ ext' \in [Extractors -> Workers]
             /\ \A d \in Extractors : WorkerKept(d) \/ WorkerScans(d)
             /\ \A d \in Extractors : ext'[d].pc # "idle" => ext'[d].t \in Threads
  <2> DEFINE w == [pc |-> "scanned", t |-> t, at |-> src[t]]
  <2>1. w \in Workers /\ w.pc = "scanned" /\ w.t = t
    BY <1>0 DEF Workers
  <2>2. ext' = [ext EXCEPT ![e] = w] /\ ext[e].pc = "idle"
    BY <1>5 DEF Scan
  <2> HIDE DEF w
  <2>3. /\ ext' \in [Extractors -> Workers]
        /\ \A d \in Extractors : ext'[d] = IF d = e THEN w ELSE ext[d]
    BY <1>0, <2>1, <2>2
  <2> QED BY <1>0, <2>1, <2>2, <2>3 DEF WorkerKept, WorkerScans
<1>6. ASSUME NEW e \in Extractors, JobClaimed(e)
      PROVE  /\ ext' \in [Extractors -> Workers]
             /\ \A d \in Extractors : WorkerKept(d) \/ WorkerClaims(d)
             /\ \A d \in Extractors : ext'[d].pc # "idle" => ext'[d].t \in Threads
  <2> DEFINE w == [ext[e] EXCEPT !.pc = "working"]
  <2>1. w \in Workers /\ w.pc = "working" /\ w.t = ext[e].t /\ w.at = ext[e].at
    BY <1>0 DEF Workers
  <2>2. ext' = [ext EXCEPT ![e] = w] /\ ext[e].pc = "scanned"
    BY <1>6 DEF JobClaimed
  <2> HIDE DEF w
  <2>3. /\ ext' \in [Extractors -> Workers]
        /\ \A d \in Extractors : ext'[d] = IF d = e THEN w ELSE ext[d]
    BY <1>0, <2>1, <2>2
  <2> QED BY <1>0, <1>6, <2>1, <2>2, <2>3 DEF WorkerKept, WorkerClaims
<1>7. ASSUME NEW e \in Extractors, Claim(e)
      PROVE  ext' = [ext EXCEPT ![e] = Idle] \/ JobClaimed(e)
  <2> DEFINE t == ext[e].t
             at == ext[e].at
  <2>1. CASE ~UpToDate(t, at) /\ Claimable(t, at)
    <3>1. JobSet(t, Claimed(job[t], e, at))
      BY <1>7, <2>1 DEF Claim, JobSet, Claimed
    <3> QED BY <1>7, <2>1, <3>1 DEF Claim, JobClaimed
  <2> QED BY <1>7, <2>1 DEF Claim
<1>8. ASSUME NEW e \in Extractors, Succeed(e) \/ SucceedEmpty(e) \/ Fail(e) \/ Die(e)
      PROVE  ext' = [ext EXCEPT ![e] = Idle]
  BY <1>8 DEF Succeed, SucceedEmpty, Fail, Die, Report
<1>9. ASSUME NEW t \in Threads,
             Touch(t) \/ DeleteMemory(t) \/ DeleteThread(t) \/ Prune(t) \/ LeaseExpires(t) \/ BackoffElapses(t)
      PROVE  ext' = ext
  BY <1>9 DEF Touch, DeleteMemory, DeleteThread, Prune, LeaseExpires, BackoffElapses
<1>10. ClearData \/ UNCHANGED vars => ext' = ext
  BY DEF ClearData, vars
<1>11. CASE \E e \in Extractors : ext' = [ext EXCEPT ![e] = Idle]
  BY <1>3, <1>4, <1>11
<1>12. CASE \E e \in Extractors : JobClaimed(e)
  BY <1>6, <1>12
<1>13. CASE \E e \in Extractors, t \in Threads : Scan(e, t)
  BY <1>5, <1>13
<1> QED BY <1>2, <1>7, <1>8, <1>9, <1>10, <1>11, <1>12, <1>13 DEF Next, Extraction

\* Worker e reports on its own job, that of thread t.
OwnerResult(e, t) == JobReported(e) /\ t = ext[e].t

\* What a step does to the memory of a thread: only its owner's result makes it newer, and
\* only a deletion, a pruning, a reset or its owner's empty result takes it away.
LEMMA MemoriesStep ==
    ASSUME Types, [Next]_vars
    PROVE  /\ out' \in [Threads -> Stamps]
           /\ \A t \in Threads :
                 \/ out'[t] = out[t]
                 \/ out'[t] = 0 /\ UNCHANGED ext
                 \/ \E e \in Extractors : OwnerResult(e, t) /\ (out'[t] = 0 \/ out'[t] >= out[t])
<1>0. /\ out \in [Threads -> Stamps] /\ 0 \in Stamps /\ ext \in [Extractors -> Workers]
      /\ \A e \in Extractors : ext[e].at \in Stamps
  BY ExtractionAssumption DEF Types, Stamps, Workers
<1>1. CASE out' = out
  BY <1>0, <1>1
<1>2. ASSUME NEW t \in Threads, DeleteMemory(t) \/ Prune(t)
      PROVE  out' = [out EXCEPT ![t] = 0] /\ ext' = ext
  BY <1>2 DEF DeleteMemory, Prune
<1>3. CASE \E t \in Threads : DeleteMemory(t) \/ Prune(t)
  BY <1>0, <1>2, <1>3
<1>4. CASE ClearData
  BY <1>0, <1>4 DEF ClearData
<1>5. ASSUME NEW e \in Extractors, Succeed(e) \/ SucceedEmpty(e), out' # out
      PROVE  /\ JobReported(e)
             /\ out' = [out EXCEPT ![ext[e].t] = 0]
                \/ (out' = [out EXCEPT ![ext[e].t] = ext[e].at] /\ ext[e].at >= out[ext[e].t])
  BY <1>5 DEF Succeed, SucceedEmpty, Report, JobReported, JobSet
<1>6. CASE \E e \in Extractors : (Succeed(e) \/ SucceedEmpty(e)) /\ out' # out
  <2>1. PICK e \in Extractors : (Succeed(e) \/ SucceedEmpty(e)) /\ out' # out
    BY <1>6
  <2>2. PICK n \in Stamps : /\ out' = [out EXCEPT ![ext[e].t] = n] /\ JobReported(e)
                            /\ n = 0 \/ n >= out[ext[e].t]
    BY <1>0, <1>5, <2>1
  <2> QED BY <1>0, <2>2 DEF OwnerResult
<1>7. ASSUME NEW e \in Extractors, (\E t \in Threads : Scan(e, t)) \/ Claim(e) \/ Fail(e) \/ Die(e)
      PROVE  out' = out
  BY <1>7 DEF Scan, Claim, Fail, Die
<1>8. ASSUME NEW t \in Threads, Touch(t) \/ DeleteThread(t) \/ LeaseExpires(t) \/ BackoffElapses(t)
      PROVE  out' = out
  BY <1>8 DEF Touch, DeleteThread, LeaseExpires, BackoffElapses
<1> QED BY <1>1, <1>3, <1>4, <1>6, <1>7, <1>8 DEF Next, Extraction, vars

\* The threads and the count of faults.
LEMMA ThreadsStep ==
    ASSUME Types, [Next]_vars
    PROVE  /\ src' \in [Threads -> Stamps]
           /\ thread' \in [Threads -> {"here", "leaving", "gone"}]
           /\ faults' \in 0 .. MaxFaults
<1>0. /\ src \in [Threads -> Stamps] /\ thread \in [Threads -> {"here", "leaving", "gone"}]
      /\ faults \in 0 .. MaxFaults /\ MaxFaults \in Nat /\ MaxUpdates \in Nat
  BY ExtractionAssumption DEF Types
<1>1. Fault => faults' \in 0 .. MaxFaults
  BY <1>0 DEF Fault
<1>2. ASSUME NEW t \in Threads, Touch(t)
      PROVE  src' \in [Threads -> Stamps] /\ UNCHANGED <<thread, faults>>
  BY <1>0, <1>2 DEF Touch, Stamps
<1>3. ASSUME NEW t \in Threads, DeleteMemory(t) \/ DeleteThread(t)
      PROVE  /\ thread' \in [Threads -> {"here", "leaving", "gone"}]
             /\ UNCHANGED <<src, faults>>
  BY <1>0, <1>3 DEF DeleteMemory, DeleteThread
<1>4. ASSUME NEW t \in Threads, Prune(t) \/ LeaseExpires(t) \/ BackoffElapses(t)
      PROVE  UNCHANGED <<src, thread>> /\ (Fault \/ UNCHANGED faults)
  BY <1>4 DEF Prune, LeaseExpires, BackoffElapses
<1>5. ASSUME NEW e \in Extractors, Extraction(e) \/ Fail(e) \/ Die(e)
      PROVE  UNCHANGED <<src, thread>> /\ (Fault \/ UNCHANGED faults)
  BY <1>5 DEF Extraction, Scan, Claim, Succeed, SucceedEmpty, Fail, Die, Report
<1>6. CASE ClearData \/ UNCHANGED vars
  BY <1>0, <1>1, <1>6 DEF ClearData, vars
<1> QED BY <1>0, <1>1, <1>2, <1>3, <1>4, <1>5, <1>6 DEF Next

-----------------------------------------------------------------------------
(* The pool of leases.                                                     *)

\* A step claims for one worker at most.
LEMMA OneClaim ==
    ASSUME Types, NEW d \in Extractors, NEW e \in Extractors, JobClaimed(d), JobClaimed(e)
    PROVE  d = e
<1>1. ext \in [Extractors -> Workers] /\ ext[d] \in Workers
  BY DEF Types
<1>2. ext' = [ext EXCEPT ![e].pc = "working"] /\ ext' = [ext EXCEPT ![d].pc = "working"]
      /\ ext[d].pc = "scanned"
  BY DEF JobClaimed
<1>3. ext'[d].pc = "working"
  BY <1>1, <1>2 DEF Workers
<1>4. d # e => ext'[d] = ext[d]
  BY <1>1, <1>2
<1> QED BY <1>2, <1>3, <1>4

\* The subquery of try_claim_stage1_job counts the other leases, so one more fits.
LEMMA RunningBoundedStep ==
    ASSUME Types, JobsConsistent, JobEffect, RunningBounded
    PROVE  RunningBounded'
<1> DEFINE L == {u \in Threads : Leased(job[u].row)}
           M == {u \in Threads : Leased(job'[u].row)}
<1>0. IsFiniteSet(Threads) /\ MaxRunning \in Nat /\ Cardinality(L) <= MaxRunning
  BY ExtractionAssumption DEF RunningBounded
<1>1. IsFiniteSet(L) /\ IsFiniteSet(M)
  BY <1>0, FS_Subset
<1>2. \A u \in M : u \in L \/ \E e \in Extractors : JobClaimed(e) /\ u = ext[e].t
  BY JobsStep
<1>3. CASE \E e \in Extractors : JobClaimed(e)
  <2>1. PICK e \in Extractors : JobClaimed(e)
    BY <1>3
  <2> DEFINE t == ext[e].t
             N == {u \in Threads \ {t} : Leased(job[u].row)}
  <2>2. Cardinality(N) < MaxRunning
    BY <2>1 DEF JobClaimed, Claimable
  <2>3. IsFiniteSet(N)
    BY <1>0, FS_Subset
  <2>4. M \subseteq N \cup {t}
    BY <1>2, <2>1, OneClaim
  <2> HIDE DEF N, M, t
  <2>5. /\ Cardinality(N) \in Nat /\ IsFiniteSet(N \cup {t})
        /\ Cardinality(N \cup {t}) <= Cardinality(N) + 1
    <3>1. Cardinality(N) \in Nat
      BY <2>3, FS_CardinalityType
    <3>2. /\ IsFiniteSet(N \cup {t})
          /\ Cardinality(N \cup {t}) = IF t \in N THEN Cardinality(N) ELSE Cardinality(N) + 1
      BY <2>3, FS_AddElement
    <3> QED BY <3>1, <3>2
  <2>6. Cardinality(M) <= Cardinality(N \cup {t})
    BY <2>4, <2>5, FS_Subset
  <2>7. Cardinality(M) \in Nat /\ Cardinality(N \cup {t}) \in Nat
    BY <1>1, <2>5, FS_CardinalityType
  <2>8. Cardinality(M) <= MaxRunning
    BY <1>0, <2>2, <2>5, <2>6, <2>7
  <2> QED BY <2>8 DEF RunningBounded, M
<1>4. CASE ~\E e \in Extractors : JobClaimed(e)
  <2>1. M \subseteq L
    BY <1>2, <1>4
  <2> HIDE DEF L, M
  <2>2. Cardinality(M) <= Cardinality(L) /\ Cardinality(M) \in Nat /\ Cardinality(L) \in Nat
    BY <1>1, <2>1, FS_Subset, FS_CardinalityType
  <2>3. Cardinality(M) <= MaxRunning
    BY <1>0, <2>2
  <2> QED BY <2>3 DEF RunningBounded, M
<1> QED BY <1>3, <1>4

-----------------------------------------------------------------------------
(* Ownership.                                                              *)

\* Whoever owns a job after a step has owned it before, or has just claimed it.
LEMMA OwnershipTraced ==
    ASSUME Types, JobEffect, NEW e \in Extractors, NEW u \in Threads, Owns(e, job'[u].row)
    PROVE  Owns(e, job[u].row) \/ (JobClaimed(e) /\ u = ext[e].t)
<1>0. /\ job \in [Threads -> Jobs] /\ ext \in [Extractors -> Workers] /\ job[u] \in Jobs
      /\ \A d \in Extractors : ext[d].pc # "idle" => ext[d].t \in Threads
      /\ \A d \in Extractors : ext[d].at \in Stamps
  BY DEF Types, Workers
<1>1. ASSUME NEW t \in Threads, NEW j, JobSet(t, j)
      PROVE  job'[u] = IF u = t THEN j ELSE job[u]
  BY <1>0, <1>1 DEF JobSet
<1>2. ASSUME NEW t \in Threads, JobDeleted(t)
      PROVE  Owns(e, job[u].row)
  BY <1>1, <1>2, NoJobType DEF JobDeleted, Owns
<1>3. ASSUME NEW t \in Threads, JobAged(t)
      PROVE  Owns(e, job[u].row)
  BY <1>0, <1>1, <1>3, TimeTypes DEF JobAged, Owns
<1>4. ASSUME NEW d \in Extractors, JobClaimed(d)
      PROVE  Owns(e, job[u].row) \/ (JobClaimed(e) /\ u = ext[e].t)
  <2> DEFINE t == ext[d].t
             j == Claimed(job[t], d, ext[d].at)
  <2>1. t \in Threads /\ job[t] \in Jobs /\ JobSet(t, j)
    BY <1>0, <1>4 DEF JobClaimed
  <2>2. j.row = RunBy(d)
    BY <1>0, <2>1, JobTypes
  <2> HIDE DEF j
  <2>3. job'[u] = IF u = t THEN j ELSE job[u]
    BY <1>1, <2>1
  <2>4. Owns(e, j.row) => e = d
    BY <2>2 DEF Owns, RunBy
  <2> QED BY <1>4, <2>3, <2>4
<1>5. ASSUME NEW d \in Extractors, JobReported(d)
      PROVE  Owns(e, job[u].row)
  <2> DEFINE t == ext[d].t
  <2>1. t \in Threads /\ job[t] \in Jobs
    BY <1>0, <1>5 DEF JobReported
  <2>2. ~Running(Finished(job[t]).row) /\ ~Running(Failed(job[t]).row)
    BY <2>1, JobTypes
  <2>3. PICK j \in {Finished(job[t]), Failed(job[t])} : JobSet(t, j)
    BY <1>5 DEF JobReported
  <2>4. job'[u] = IF u = t THEN j ELSE job[u]
    BY <1>1, <2>1, <2>3
  <2> QED BY <2>2, <2>3, <2>4 DEF Owns
<1>6. CASE ClearData
  <2>1. job'[u] = NoJob
    BY <1>6 DEF ClearData
  <2> QED BY <2>1, NoJobType DEF Owns
<1> QED BY <1>2, <1>3, <1>4, <1>5, <1>6 DEF JobEffect

\* An owner's memory is never overtaken: nobody else can write one.
LEMMA OwnersAreNewestStep ==
    ASSUME Types, Types', OwnersAreNewest, [Next]_vars
    PROVE  OwnersAreNewest'
<1> SUFFICES ASSUME NEW e \in Extractors, NEW t \in Threads,
                    ext'[e].pc = "working", ext'[e].t = t, Owns(e, job'[t].row)
             PROVE  out'[t] <= ext'[e].at
  BY DEF OwnersAreNewest, WorksOn
<1>0. /\ ext[e].at \in Nat /\ ext'[e].at \in Nat /\ out[t] \in Nat /\ out'[t] \in Nat
  <2>1. Stamps \subseteq Nat
    BY ExtractionAssumption DEF Stamps
  <2> QED BY <2>1 DEF Types, Workers
<1>1. JobEffect
  BY Effects
<1>2. CASE WorkerKept(e)
  <2>1. WorksOn(e, t) /\ ext'[e] = ext[e]
    BY <1>2 DEF WorkerKept, WorksOn
  <2>2. ~JobClaimed(e)
    BY <2>1 DEF JobClaimed, WorksOn
  <2>3. Owns(e, job[t].row)
    BY <1>1, <2>2, OwnershipTraced
  <2>4. out[t] <= ext[e].at
    BY <2>1, <2>3 DEF OwnersAreNewest
  <2>5. ASSUME NEW d \in Extractors, OwnerResult(d, t)
        PROVE  FALSE
    <3>1. Owns(d, job[t].row) /\ ext' = [ext EXCEPT ![d] = Idle]
      BY <2>5 DEF OwnerResult, JobReported
    <3>2. d = e
      BY <2>3, <3>1 DEF Owns
    <3>3. ext'[e] = Idle
      BY <3>1, <3>2 DEF Types
    <3> QED BY <3>3 DEF Idle
  <2>6. out'[t] = out[t] \/ out'[t] = 0
    BY <2>5, MemoriesStep
  <2> QED BY <1>0, <2>1, <2>4, <2>6
<1>3. CASE WorkerClaims(e)
  <2>1. out' = out /\ ~UpToDate(t, ext[e].at) /\ ext'[e].at = ext[e].at
    BY <1>3 DEF WorkerClaims, JobClaimed
  <2> QED BY <1>0, <2>1 DEF UpToDate
<1>4. ~WorkerScans(e) /\ ~WorkerDone(e)
  BY DEF WorkerScans, WorkerDone, Idle
<1> QED BY <1>2, <1>3, <1>4, WorkersStep

-----------------------------------------------------------------------------
(* The theorems.                                                           *)

\* Threads that nobody has looked at satisfy the invariant.
LEMMA InitIInv ==
    ASSUME Init
    PROVE  IInv
<1>0. /\ 0 \in Stamps /\ 1 \in Stamps /\ 0 \in 0 .. MaxFaults
      /\ IsFiniteSet(Threads) /\ MaxRunning \in Nat
  BY ExtractionAssumption DEF Stamps
<1>1. Idle \in Workers /\ Idle.pc = "idle"
  BY <1>0 DEF Idle, Workers
<1>2. /\ \A t \in Threads : job[t] = NoJob
      /\ \A e \in Extractors : ext[e] = Idle
  BY DEF Init
<1>3. Types
  <2>1. src \in [Threads -> Stamps] /\ out \in [Threads -> Stamps]
    BY <1>0 DEF Init
  <2>2. job \in [Threads -> Jobs]
    BY NoJobType DEF Init
  <2>3. ext \in [Extractors -> Workers]
    BY <1>1 DEF Init
  <2>4. thread \in [Threads -> {"here", "leaving", "gone"}] /\ faults \in 0 .. MaxFaults
    BY <1>0 DEF Init
  <2> QED BY <1>1, <1>2, <2>1, <2>2, <2>3, <2>4 DEF Types
<1>4. JobsConsistent
  BY <1>2, NoJobType DEF JobsConsistent
<1>5. OwnersAreNewest
  BY <1>1, <1>2 DEF OwnersAreNewest, WorksOn
<1>6. RunningBounded
  <2>1. {t \in Threads : Leased(job[t].row)} = {}
    BY <1>2, NoJobType
  <2>2. Cardinality({}) <= MaxRunning
    BY <1>0, FS_EmptySet
  <2> QED BY <2>1, <2>2 DEF RunningBounded
<1> QED BY <1>3, <1>4, <1>5, <1>6 DEF IInv

\* Every step of threads, workers, time and the reset preserves it.
LEMMA StepIInv ==
    ASSUME IInv, [Next]_vars
    PROVE  IInv'
<1>1. Types /\ JobsConsistent /\ OwnersAreNewest /\ RunningBounded /\ JobEffect
  BY Effects DEF IInv
<1>2. Types' /\ JobsConsistent'
  BY <1>1, JobsStep, WorkersStep, MemoriesStep, ThreadsStep DEF Types
<1>3. OwnersAreNewest' /\ RunningBounded'
  BY <1>1, <1>2, OwnersAreNewestStep, RunningBoundedStep
<1> QED BY <1>2, <1>3 DEF IInv

\* The rows of jobs and outputs and the workers of all sessions stay consistent.
THEOREM InductiveInvariant == Spec => []IInv
<1>1. Init => IInv
  BY InitIInv
<1>2. IInv /\ [Next]_vars => IInv'
  BY StepIInv
<1> QED BY <1>1, <1>2, PTL DEF Spec

\* The guard of try_claim_stage1_job keeps the number of leased jobs within
\* max_running_jobs, for any number of threads and of sessions that claim.
THEOREM LeasesStayWithinTheLimit == Spec => []RunningBounded
<1>1. IInv => RunningBounded
  BY DEF IInv
<1> QED BY <1>1, InductiveInvariant, PTL

\* A worker that was slow, or whose job went to another, takes no newer memory away and
\* moves no job back behind an update it has seen.
THEOREM LateResultsTakeNothing == Spec => NewestMemoryKept
<1> DEFINE Kept ==
        \A e \in Extractors, t \in Threads :
            ext'[e] # ext[e] =>
                /\ out'[t] < out[t] => WorksOn(e, t) /\ ext[e].at >= out[t]
                /\ job'[t].done >= job[t].done
<1>1. IInv /\ [Next]_vars => [Kept]_vars
  <2> SUFFICES ASSUME IInv, [Next]_vars, NEW e \in Extractors, NEW t \in Threads, ext'[e] # ext[e]
               PROVE  /\ out'[t] < out[t] => WorksOn(e, t) /\ ext[e].at >= out[t]
                      /\ job'[t].done >= job[t].done
    OBVIOUS
  <2>0. /\ Types /\ JobsConsistent /\ OwnersAreNewest /\ JobEffect
        /\ ext \in [Extractors -> Workers] /\ job \in [Threads -> Jobs]
        /\ \A u \in Threads : /\ job[u] \in Jobs /\ job[u].done \in Nat /\ job[u].input \in Nat
                              /\ job[u].done <= job[u].input /\ out[u] \in Nat
        /\ out'[t] \in Nat /\ ext[e].at \in Nat
        /\ \A d \in Extractors : ext[d].pc # "idle" => ext[d].t \in Threads
        /\ \A d \in Extractors : ext[d].at \in Stamps
    <3>1. Stamps \subseteq Nat
      BY ExtractionAssumption DEF Stamps
    <3>2. Types /\ JobsConsistent /\ OwnersAreNewest /\ JobEffect /\ out' \in [Threads -> Stamps]
      BY Effects, MemoriesStep DEF IInv
    <3> QED BY <3>1, <3>2 DEF Types, Jobs, Workers, JobsConsistent
  <2>1. ASSUME NEW d \in Extractors, JobReported(d)
        PROVE  d = e
    BY <2>0, <2>1 DEF JobReported
  <2>2. ASSUME out'[t] < out[t]
        PROVE  WorksOn(e, t) /\ ext[e].at >= out[t]
    <3>1. PICK d \in Extractors : OwnerResult(d, t)
      BY <2>0, <2>2, MemoriesStep
    <3>2. WorksOn(e, t) /\ Owns(e, job[t].row)
      BY <2>1, <3>1 DEF OwnerResult, JobReported, WorksOn
    <3>3. out[t] <= ext[e].at
      BY <2>0, <3>2 DEF OwnersAreNewest
    <3> QED BY <2>0, <3>2, <3>3
  <2>3. job'[t].done >= job[t].done
    <3>1. ASSUME NEW u \in Threads, NEW j, JobSet(u, j), j.done >= job[u].done
          PROVE  job'[t].done >= job[t].done
      BY <2>0, <3>1 DEF JobSet
    <3>2. CASE \E d \in Extractors : JobClaimed(d)
      <4>1. PICK d \in Extractors : JobClaimed(d)
        BY <3>2
      <4> DEFINE u == ext[d].t
                 j == Claimed(job[u], d, ext[d].at)
      <4>2. u \in Threads /\ JobSet(u, j)
        BY <2>0, <4>1 DEF JobClaimed
      <4>3. j.done = job[u].done
        BY <2>0, <4>2, JobTypes
      <4> HIDE DEF j
      <4> QED BY <2>0, <3>1, <4>2, <4>3
    <3>3. CASE \E d \in Extractors : JobReported(d)
      <4>1. PICK d \in Extractors : JobReported(d)
        BY <3>3
      <4> DEFINE u == ext[d].t
      <4>2. u \in Threads /\ job[u] \in Jobs
        BY <2>0, <4>1 DEF JobReported
      <4>3. Finished(job[u]).done >= job[u].done /\ Failed(job[u]).done >= job[u].done
        <5>1. Finished(job[u]).done = job[u].input /\ Failed(job[u]).done = job[u].done
          BY <4>2, JobTypes
        <5> QED BY <2>0, <4>2, <5>1
      <4> QED BY <3>1, <4>1, <4>2, <4>3 DEF JobReported
    <3>4. CASE job' = job
      BY <2>0, <3>4
    <3> QED BY <2>0, <3>2, <3>3, <3>4 DEF JobEffect, ClearData
  <2> QED BY <2>2, <2>3
<1> QED BY <1>1, InductiveInvariant, PTL DEF Spec, NewestMemoryKept

\* The retry_remaining of a job is a number of retries, and a job that runs has one left.
RetriesBounded ==
    \A t \in Threads :
        job[t].left \in 0 .. Retries /\ (Running(job[t].row) => job[t].left > 0)

\* mark_stage1_job_failed never finds a job without retries: however claims, failures,
\* reclaims of expired leases and updates of the thread fall, retry_remaining stays between
\* 0 and DEFAULT_RETRY_REMAINING.
THEOREM RetriesStayBounded == Spec => []RetriesBounded
<1>1. IInv => RetriesBounded
  BY DEF IInv, Types, Jobs, JobsConsistent, RetriesBounded
<1> QED BY <1>1, InductiveInvariant, PTL
=============================================================================
