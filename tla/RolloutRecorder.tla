--------------------------- MODULE RolloutRecorder ---------------------------
(***************************************************************************)
(* The recorder that keeps a thread's history in a JSONL file              *)
(* (codex-rs/rollout/src/recorder.rs, ordinal.rs).  Callers push commands  *)
(* into a bounded channel; one writer task owns the file, buffers items,   *)
(* and retries a failed write once after reopening the file.               *)
(*                                                                         *)
(* An item is the number it gets when it is handed over, so the buffer     *)
(* pending_items is the interval written+1 .. taken and the items still in *)
(* the channel are taken+1 .. sent.  A line of the file is a record and    *)
(* how much of it reached the disk: "ok" is a terminated record, "nonl"    *)
(* lacks only its newline, "torn" is a proper prefix, and "junk" a line    *)
(* that was terminated later but does not parse.                           *)
(***************************************************************************)
EXTENDS Integers, Sequences, FiniteSets

CONSTANTS
    Callers,        \* clones of the recorder with a barrier under way
    Modes,          \* history modes a thread may be created with
    MaxOrdinal,     \* u64::MAX of the ordinals
    FirstOrdinal,   \* 0, or history_base.end_ordinal_exclusive
    Capacity,       \* of the command channel
    MaxItems,       \* bound: items handed over
    MaxFaults,      \* bound: I/O operations that fail
    MaxRestarts     \* bound: times the thread is resumed

NoOrdinal == -1
Barriers == {"persist", "flush", "shutdown"}
NoCaller == "nobody"

ASSUME RecorderAssumption ==
    /\ Modes \subseteq {"legacy", "paginated"}
    /\ FirstOrdinal \in Nat /\ MaxOrdinal \in Nat
    /\ Capacity \in Nat /\ MaxItems \in Nat /\ MaxFaults \in Nat /\ MaxRestarts \in Nat
    /\ NoCaller \notin Callers

VARIABLES
    mode,       \* ThreadHistoryMode of the thread
    exists,     \* the rollout file exists
    file,       \* its lines
    cmds,       \* the command channel
    call,       \* the barrier each caller waits for, or "idle"
    sent, taken, written,   \* counters that delimit channel and pending_items
    base,       \* items up to here belong to earlier recorders of the thread
    state,      \* RolloutWriterState: writer, deferred_creation, meta, next ordinal
    task,       \* the writer task: where it is, which command, which attempt
    discarded,  \* every clone of the recorder was dropped
    promised,   \* items some barrier has acknowledged
    faults, restarts

disk == <<exists, file>>
counters == <<sent, taken, written, base>>
vars == <<mode, exists, file, cmds, call, sent, taken, written, base, state, task,
          discarded, promised, faults, restarts>>

(***************************************************************************)
(* The file.                                                               *)
(***************************************************************************)
Line == [rec: {"meta", "item"}, id: Nat, ord: Int, st: {"ok", "nonl", "torn", "junk"}]

Parses(line) == line.st \in {"ok", "nonl"}
Unterminated(f) == f # <<>> /\ f[Len(f)].st \in {"nonl", "torn"}
WithState(rec, st) == [rec |-> rec.rec, id |-> rec.id, ord |-> rec.ord, st |-> st]

\* Bytes are appended: behind an unterminated line they extend that line.
AppendBytes(f, rec, st) ==
    IF Unterminated(f)
    THEN [f EXCEPT ![Len(f)] = WithState(@, IF st = "ok" THEN "junk" ELSE "torn")]
    ELSE Append(f, WithState(rec, st))

\* Mutant: the tail is not repaired.
Unrepaired(f) == f

\* ensure_rollout_is_newline_terminated
Terminated(f) ==
    IF Unterminated(f)
    THEN [f EXCEPT ![Len(f)] = WithState(@, IF @.st = "nonl" THEN "ok" ELSE "junk")]
    ELSE f

\* What a reader of the file gets: load_rollout_items skips what does not parse.
Durable(f) == {f[i].id : i \in {j \in DOMAIN f : Parses(f[j]) /\ f[j].rec = "item"}}
HasMeta(f) == \E i \in DOMAIN f : Parses(f[i]) /\ f[i].rec = "meta"
LastParsed(f) ==
    CHOOSE i \in DOMAIN f : Parses(f[i]) /\ \A j \in DOMAIN f : Parses(f[j]) => j <= i

\* read_history_metadata insists on the first line.
StartsWithMeta(f) == f # <<>> /\ Parses(f[1]) /\ f[1].rec = "meta"

\* How a write that fails may leave the file.
FailedWrites(f, rec) == {f} \cup {AppendBytes(f, rec, st) : st \in {"torn", "nonl"}}

(***************************************************************************)
(* RolloutOrdinalState.                                                    *)
(***************************************************************************)
OrdinalAvailable == mode = "legacy" \/ state.next <= MaxOrdinal
Current == IF mode = "legacy" THEN NoOrdinal ELSE state.next
Advanced == IF mode = "legacy" THEN state.next ELSE state.next + 1

\* Mutant: the ordinal of the last record is given out again.
OrdinalForResumeM(f) == f[LastParsed(f)].ord

\* ordinal_state_for_rollout, for a file that starts with its metadata
OrdinalForResume(f) ==
    IF mode = "legacy" THEN 0 ELSE f[LastParsed(f)].ord + 1

(***************************************************************************)
(* States of the writer.                                                   *)
(***************************************************************************)
Live == task.pc \notin {"ended", "down"}
IsDeferred == ~state.open /\ state.deferred
NothingPending == written = taken
Idle == [pc |-> "recv", op |-> "none", by |-> NoCaller, attempt |-> 1]

Init ==
    /\ mode \in Modes
    /\ exists = FALSE
    /\ file = <<>>
    /\ cmds = <<>>
    /\ call = [c \in Callers |-> "idle"]
    /\ sent = 0 /\ taken = 0 /\ written = 0 /\ base = 0
    /\ state = [open |-> FALSE, deferred |-> TRUE, meta |-> TRUE, next |-> FirstOrdinal]
    /\ task = Idle
    /\ discarded = FALSE
    /\ promised = {}
    /\ faults = 0 /\ restarts = 0

(***************************************************************************)
(* Callers.                                                                *)
(***************************************************************************)
\* record_canonical_items: the batch is queued; the call does not wait for the file.
Send(n) ==
    /\ Live /\ ~discarded
    /\ Len(cmds) < Capacity
    /\ sent + n <= MaxItems
    /\ sent' = sent + n
    /\ cmds' = Append(cmds, [op |-> "add", upto |-> sent + n, by |-> NoCaller])
    /\ UNCHANGED <<mode, disk, call, taken, written, base, state, task, discarded,
                   promised, faults, restarts>>

\* persist(), flush(), shutdown(): queue the command and wait for its ack.
Barrier(c, op) ==
    /\ Live /\ ~discarded
    /\ call[c] = "idle"
    /\ Len(cmds) < Capacity
    /\ call' = [call EXCEPT ![c] = op]
    /\ cmds' = Append(cmds, [op |-> op, upto |-> sent, by |-> c])
    /\ UNCHANGED <<mode, disk, counters, state, task, discarded, promised, faults, restarts>>

\* The last clone is dropped (discard_thread): nobody waits for an ack any more.
Discard ==
    /\ Live /\ ~discarded
    /\ \A c \in Callers : call[c] = "idle"
    /\ discarded' = TRUE
    /\ UNCHANGED <<mode, disk, cmds, call, counters, state, task, promised, faults, restarts>>

(***************************************************************************)
(* The writer task.                                                        *)
(***************************************************************************)
\* Mutant: the ack also covers what is still queued behind the barrier.
VouchedEarly == base + 1 .. sent

\* What a successful barrier vouches for: everything this recorder has written.
Vouched == base + 1 .. written

\* The command in hand is answered with Ok.  After a shutdown the loop ends: what is
\* still queued is dropped with its senders.
AnswerOk(cmd) ==
    /\ promised' = IF cmd.op \in Barriers THEN promised \cup Vouched ELSE promised
    /\ IF cmd.op = "shutdown"
       THEN /\ task' = [Idle EXCEPT !.pc = "ended"]
            /\ cmds' = <<>>
            /\ call' = [c \in Callers |-> "idle"]
       ELSE /\ task' = Idle
            /\ call' = IF cmd.by \in Callers THEN [call EXCEPT ![cmd.by] = "idle"] ELSE call

\* rollout_writer: the next command.
Recv ==
    /\ task.pc = "recv"
    /\ cmds # <<>>
    /\ LET cmd == Head(cmds)
           start == [pc |-> "open", op |-> cmd.op, by |-> cmd.by, attempt |-> 1]
       IN  \/ /\ cmd.op = "add"
              /\ taken' = cmd.upto
              /\ cmds' = Tail(cmds)
              /\ task' = IF IsDeferred THEN task ELSE start
              /\ UNCHANGED <<call, promised>>
           \/ /\ cmd.op = "persist" \/ (cmd.op \in Barriers /\ ~(IsDeferred /\ NothingPending))
              /\ cmds' = Tail(cmds)
              /\ task' = start
              /\ UNCHANGED <<taken, call, promised>>
           \/ /\ cmd.op \in {"flush", "shutdown"} /\ IsDeferred /\ NothingPending
              /\ cmd.op = "flush" => cmds' = Tail(cmds)
              /\ AnswerOk(cmd)
              /\ UNCHANGED taken
    /\ UNCHANGED <<mode, disk, sent, written, base, state, discarded, faults, restarts>>

\* Every sender is gone and the queue is empty: recv() returns None.
ChannelClosed ==
    /\ task.pc = "recv"
    /\ cmds = <<>> /\ discarded
    /\ task' = [task EXCEPT !.pc = "ended"]
    /\ UNCHANGED <<mode, disk, cmds, call, counters, state, discarded, promised, faults, restarts>>

\* Mutant: the metadata is taken out of the state before it is written.
MetaTaken == [state EXCEPT !.open = FALSE, !.meta = FALSE]

\* enter_recovery_mode: the handle is dropped.
InRecovery == [state EXCEPT !.open = FALSE]

\* Mutant: a failing write is retried without end.
RetryForever ==
    /\ state' = InRecovery
    /\ task' = [task EXCEPT !.pc = "open", !.attempt = 2]
    /\ UNCHANGED call

\* Mutant: attempts are counted but not limited.
RetryUncounted ==
    /\ state' = InRecovery
    /\ task' = [task EXCEPT !.pc = "open", !.attempt = @ + 1]
    /\ UNCHANGED call

\* write_pending_with_recovery: a failed attempt is repeated once, the second failure is
\* the answer.
AttemptFailed ==
    /\ state' = InRecovery
    /\ IF task.attempt = 1
       THEN /\ task' = [task EXCEPT !.pc = "open", !.attempt = 2]
            /\ UNCHANGED call
       ELSE /\ task' = Idle
            /\ call' = IF task.by \in Callers THEN [call EXCEPT ![task.by] = "idle"] ELSE call

IoError ==
    /\ faults < MaxFaults
    /\ faults' = faults + 1

\* ensure_writer_open, open_log_file
Open ==
    /\ task.pc = "open"
    /\ \/ /\ state.open
          /\ task' = [task EXCEPT !.pc = "meta"]
          /\ UNCHANGED <<disk, state, call, faults>>
       \/ /\ ~state.open
          /\ exists' = TRUE
          /\ file' = Terminated(file)
          /\ state' = [state EXCEPT !.open = TRUE, !.deferred = FALSE]
          /\ task' = [task EXCEPT !.pc = "meta"]
          /\ UNCHANGED <<call, faults>>
       \/ /\ ~state.open
          /\ IoError
          /\ exists' \in {exists, TRUE}
          /\ AttemptFailed
          /\ UNCHANGED file
    /\ UNCHANGED <<mode, cmds, counters, discarded, promised, restarts>>

\* Mutant: the written prefix is drained only when the whole batch succeeds.
DrainedOnSuccess == written' = base

\* Mutant: the whole buffer is taken out before the batch is written.
DrainedAhead == written' = taken

\* What was written before a failure has left the buffer, the rest stays.
Drained == written' = written

\* A record is written and flushed; it is done only when both succeed.
WriteRecord(rec, next) ==
    \/ /\ OrdinalAvailable
       /\ file' = AppendBytes(file, rec, "ok")
       /\ next
       /\ UNCHANGED <<task, call, faults>>
    \/ /\ OrdinalAvailable
       /\ IoError
       /\ file' \in FailedWrites(file, rec)
       /\ AttemptFailed
       /\ Drained
    \/ /\ ~OrdinalAvailable
       /\ AttemptFailed
       /\ Drained
       /\ UNCHANGED <<file, faults>>

\* The metadata is forgotten and the ordinal spent once the line is written.
MetaDone == state' = [state EXCEPT !.meta = FALSE, !.next = Advanced]

\* write_session_meta_if_needed
WriteMeta ==
    /\ task.pc = "meta"
    /\ \/ /\ ~state.meta
          /\ task' = [task EXCEPT !.pc = "items"]
          /\ UNCHANGED <<file, written, state, call, faults>>
       \/ /\ state.meta
          /\ WriteRecord([rec |-> "meta", id |-> 0, ord |-> Current],
                         MetaDone /\ UNCHANGED written)
    /\ UNCHANGED <<mode, exists, cmds, sent, taken, base, discarded, promised, restarts>>

\* write_pending_items_once: each written item leaves the buffer.
WriteItem ==
    /\ task.pc = "items"
    /\ ~NothingPending
    /\ WriteRecord([rec |-> "item", id |-> written + 1, ord |-> Current],
                   /\ written' = written + 1
                   /\ state' = [state EXCEPT !.next = Advanced])
    /\ UNCHANGED <<mode, exists, cmds, sent, taken, base, discarded, promised, restarts>>

\* write_pending_once ends with everything written.
AllWritten ==
    /\ task.pc = "items"
    /\ NothingPending
    /\ AnswerOk(task)
    /\ task.op # "shutdown" => UNCHANGED cmds
    /\ UNCHANGED <<mode, disk, counters, state, discarded, faults, restarts>>

Writer == Recv \/ ChannelClosed \/ Open \/ WriteMeta \/ WriteItem \/ AllWritten

(***************************************************************************)
(* The process, and recorders of later processes.                          *)
(***************************************************************************)
\* The process dies: memory is gone, the file stays as it is.
Crash ==
    /\ Live
    /\ task' = [Idle EXCEPT !.pc = "down"]
    /\ cmds' = <<>>
    /\ call' = [c \in Callers |-> "idle"]
    /\ UNCHANGED <<mode, disk, counters, state, discarded, promised, faults, restarts>>

\* RolloutRecorder::new(Resume) once the history could be loaded.  open_rollout_for_append
\* repairs the tail before it looks at the first line, which must be the metadata.
Resume ==
    /\ ~Live
    /\ exists /\ HasMeta(file)
    /\ restarts < MaxRestarts
    /\ restarts' = restarts + 1
    /\ file' = Terminated(file)
    /\ IF StartsWithMeta(file)
       THEN /\ state' = [open |-> TRUE, deferred |-> FALSE, meta |-> FALSE,
                         next |-> OrdinalForResume(file)]
            /\ task' = Idle
            /\ discarded' = FALSE
            /\ base' = sent /\ taken' = sent /\ written' = sent
       ELSE UNCHANGED <<state, task, discarded, base, taken, written>>
    /\ UNCHANGED <<mode, exists, cmds, call, sent, promised, faults>>

\* append_rollout_item_to_path: one item for a thread that is not loaded and whose
\* metadata could be read.  A rollout that does not start with it, or has no ordinal
\* left, is repaired and refused.
AppendUnloaded ==
    LET next     == OrdinalForResume(file)
        repaired == Terminated(file)
        refused  == ~StartsWithMeta(file) \/ (mode = "paginated" /\ next > MaxOrdinal)
        rec      == [rec |-> "item", id |-> sent + 1,
                     ord |-> IF mode = "legacy" THEN NoOrdinal ELSE next]
    IN  /\ ~Live
        /\ exists /\ HasMeta(file)
        /\ sent < MaxItems
        /\ \/ /\ refused
              /\ file' = repaired
              /\ UNCHANGED <<sent, faults>>
           \/ /\ ~refused
              /\ file' = AppendBytes(repaired, rec, "ok")
              /\ sent' = sent + 1
              /\ UNCHANGED faults
           \/ /\ ~refused
              /\ IoError
              /\ file' \in FailedWrites(repaired, rec)
              /\ sent' = sent + 1
        /\ UNCHANGED <<mode, exists, cmds, call, taken, written, base, state, task, discarded,
                       promised, restarts>>

Next ==
    \/ \E n \in 1..2 : Send(n)
    \/ \E c \in Callers, op \in Barriers : Barrier(c, op)
    \/ Discard
    \/ Writer
    \/ Crash
    \/ Resume
    \/ AppendUnloaded

Spec == Init /\ [][Next]_vars

\* The runtime keeps running the writer task.
FairSpec == Spec /\ WF_vars(Writer)

(***************************************************************************)
(* Properties.                                                             *)
(***************************************************************************)
TaskStates == [pc: {"recv", "open", "meta", "items", "ended", "down"},
               op: Barriers \cup {"add", "none"},
               by: Callers \cup {NoCaller},
               attempt: {1, 2}]
Commands == [op: Barriers \cup {"add"}, upto: Nat, by: Callers \cup {NoCaller}]
WriterStates == [open: BOOLEAN, deferred: BOOLEAN, meta: BOOLEAN, next: Int]

\* Every variable keeps its type.
TypeOK ==
    /\ mode \in Modes
    /\ exists \in BOOLEAN
    /\ file \in Seq(Line)
    /\ cmds \in Seq(Commands)
    /\ call \in [Callers -> Barriers \cup {"idle"}]
    /\ sent \in Nat /\ taken \in Nat /\ written \in Nat /\ base \in Nat
    /\ state \in WriterStates
    /\ task \in TaskStates
    /\ discarded \in BOOLEAN
    /\ promised \in SUBSET Nat
    /\ faults \in Nat /\ restarts \in Nat

\* What a persist, flush or shutdown acknowledged can be read back from the file, after
\* failed writes, retries, crashes and appends of later processes.
AckedDurable == promised \subseteq Durable(file)

\* The readable records keep the order in which the items were handed over, whatever was
\* retried: a record may be repeated, right behind itself, but never overtaken.
RecordsInOrder ==
    \A i, j \in DOMAIN file :
        /\ i < j /\ Parses(file[i]) /\ Parses(file[j])
        /\ file[i].rec = "item" /\ file[j].rec = "item"
        => file[i].id <= file[j].id

\* In a paginated rollout an ordinal names one record: two lines with the same ordinal
\* are the same record written twice, and ordinals grow along the file.
OrdinalsIdentify ==
    mode = "paginated" =>
        \A i, j \in DOMAIN file :
            i < j /\ Parses(file[i]) /\ Parses(file[j]) =>
                /\ file[i].ord <= file[j].ord
                /\ file[i].ord = file[j].ord =>
                       file[i].rec = file[j].rec /\ file[i].id = file[j].id
                /\ file[i].ord \in FirstOrdinal .. MaxOrdinal

\* The metadata that identifies the thread comes before every item, so whoever
\* reads the items back knows which thread they belong to.
MetaLeads ==
    \A i \in DOMAIN file :
        Parses(file[i]) /\ file[i].rec = "item" =>
            \E j \in 1 .. i - 1 : Parses(file[j]) /\ file[j].rec = "meta"

\* What was acknowledged can be resumed: a thread whose history loads (load_rollout_items
\* finds its metadata and skips what does not parse) can be opened for append.  It does
\* not hold: ordinal_state_for_rollout refuses a file whose first line is torn.
AckedResumable == promised # {} /\ HasMeta(file) => StartsWithMeta(file)

\* Whatever is appended or repaired, a readable record stays where it is.
RecordsNeverLost ==
    [][\A i \in DOMAIN file :
          Parses(file[i]) =>
              /\ i \in DOMAIN file'
              /\ Parses(file'[i])
              /\ file'[i].id = file[i].id /\ file'[i].rec = file[i].rec]_vars

\* Every barrier is answered.
BarriersAnswered == \A c \in Callers : call[c] # "idle" ~> call[c] = "idle"

\* The recorder implements the log it promises.
LogVolatile == IF Live THEN (written + 1 .. sent) \ Durable(file) ELSE {}

Log == INSTANCE DurableLog WITH
           volatile <- LogVolatile,
           durable  <- Durable(file),
           promised <- promised

LogSpec == Log!Spec
=============================================================================
