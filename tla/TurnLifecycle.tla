--------------------------- MODULE TurnLifecycle ---------------------------
(***************************************************************************)
(* The turns of one session: which task is the active one, how tasks are   *)
(* started, finished, replaced and interrupted, and what happens to the    *)
(* input that arrives meanwhile.                                           *)
(*                                                                         *)
(* Source: core/src/tasks/mod.rs (the task lifecycle), session/inject.rs   *)
(* and session/input_queue.rs (pending input and the mailbox),             *)
(* session/handlers.rs (the operations of the submission loop),            *)
(* tasks/regular.rs and session/turn.rs (what a regular task does).        *)
(*                                                                         *)
(* The shared state is `active_turn : Mutex<Option<ActiveTurn>>`, the turn *)
(* states it points to, and the mailbox.  A handler is async code: it      *)
(* takes a lock, releases it, awaits, and takes the next one, so it is     *)
(* split here into one action per critical section and other processes run *)
(* in between.  The processes are the submission loop, an extension that   *)
(* starts idle work, the guardian that aborts a turn, and one tokio task   *)
(* per turn.  Every call a handler makes to start_task, abort_all_tasks or *)
(* maybe_start_turn_for_pending_work is its last one, so a process needs a *)
(* program counter and no stack.                                           *)
(*                                                                         *)
(* Aborting a tokio task takes effect at the await the task is at: between *)
(* two actions.                                                            *)
(***************************************************************************)
EXTENDS Integers, FiniteSets, FiniteSetsExt

CONSTANTS
  UserInputs,        \* Op::UserInput submissions
  TriggerMails,      \* inter-agent messages with trigger_turn
  QueueMails,        \* inter-agent messages without it
  Steers,            \* steer_input calls of clients
  Injections,        \* inject_if_running / inject_no_new_turn calls
  IdleWork,          \* try_start_turn_if_idle calls with a response item
  IdleInputs,        \* try_start_turn_if_idle calls with user input
  MaxInterrupts,     \* Op::Interrupt submissions
  MaxGuardianAborts, \* aborts by the guardian's rejection circuit breaker
  MaxFollowUps,      \* bound: sampling rounds that ask for another round
  MaxTurns,          \* bound: turns started
  MaxStates,         \* bound: turn states alive at once
  DurableSleep       \* an extension marked the thread as durably asleep

Mails == TriggerMails \cup QueueMails
IdleCalls == IdleWork \cup IdleInputs
Items == UserInputs \cup Mails \cup Steers \cup Injections \cup IdleCalls

Turns == 1 .. MaxTurns
States == 1 .. MaxStates
None == 0

SubmissionLoop == MaxTurns + 1
Extension == MaxTurns + 2
Guardian == MaxTurns + 3
Procs == 1 .. MaxTurns + 3

ASSUME BoundsAssumption ==
  /\ MaxTurns \in Nat /\ MaxStates \in Nat
  /\ MaxInterrupts \in Nat /\ MaxGuardianAborts \in Nat /\ MaxFollowUps \in Nat
  /\ DurableSleep \in BOOLEAN

VARIABLES
  active,     \* active_turn: its turn state and task, st = None when unset
  pending,    \* pending_input of every turn state
  phase,      \* mailbox_delivery_phase of every turn state
  mailbox,    \* mailbox_pending_mails
  frame,      \* where each process is, and its local variables
  cancelled,  \* turns whose cancellation token fired
  terminal,   \* TurnComplete and TurnAborted events sent, per turn
  recorded,   \* items recorded in the conversation history
  unused,     \* items not yet submitted (or handed back to their caller)
  budget      \* interrupts, guardian aborts and follow-ups still allowed

vars == <<active, pending, phase, mailbox, frame, cancelled, terminal,
          recorded, unused, budget>>

RunPcs == {"begin", "drain", "drain_mail", "sample", "check", "end"}
StartPcs == {"start", "start_mail", "start_reserve", "start_extend", "start_install"}
FinishPcs == {"finish", "settle", "clear"}
TryPcs == {"try_reserve", "try_recheck", "try_clear", "try_still", "try_extend"}
AbortPcs == {"abort", "await_done", "clear_pending"}
WakePcs == {"check_mail", "reserve_idle"}
Pcs == RunPcs \cup StartPcs \cup FinishPcs \cup TryPcs \cup AbortPcs \cup WakePcs
         \cup {"none", "idle", "stopped"}

Reasons == {"Replaced", "Interrupted"}
Phases == {"CurrentTurn", "NextTurn"}

Blank == [pc |-> "none", reason |-> "Replaced", task |-> None, st |-> None,
          input |-> {}, held |-> {}]
Idle == [Blank EXCEPT !.pc = "idle"]
Stopped == [Blank EXCEPT !.pc = "stopped"]

\* What a process is when its handler has returned.
Rest(p) == IF p \in Turns THEN Stopped ELSE Idle

NoActiveTurn == [st |-> None, task |-> None]

Init ==
  /\ active = NoActiveTurn
  /\ pending = [s \in States |-> {}]
  /\ phase = [s \in States |-> "CurrentTurn"]
  /\ mailbox = {}
  /\ frame = [p \in Procs |-> IF p \in Turns THEN Blank ELSE Idle]
  /\ cancelled = {}
  /\ terminal = [t \in Turns |-> 0]
  /\ recorded = {}
  /\ unused = Items
  /\ budget = [interrupts |-> MaxInterrupts, aborts |-> MaxGuardianAborts,
               followUps |-> MaxFollowUps]

At(p, pc) == frame[p].pc = pc
Goto(p, pc) == frame' = [frame EXCEPT ![p].pc = pc]
Return(p) == frame' = [frame EXCEPT ![p] = Rest(p)]

IsSome == active.st # None

\* A turn state is an Arc: alive while the active turn or a process holds it.
Held == {active.st} \cup {frame[p].st : p \in Procs}
FreeStates == States \ Held

\* ActiveTurn::default() stored in active_turn.
SetDefault(s) ==
  /\ active' = [st |-> s, task |-> None]
  /\ pending' = [pending EXCEPT ![s] = {}]
  /\ phase' = [phase EXCEPT ![s] = "CurrentTurn"]

HasTrigger == mailbox \cap TriggerMails # {}
Accepts == ~IsSome \/ phase[active.st] = "CurrentTurn"

----------------------------------------------------------------------------
(* get_pending_input: the turn's own pending input, then the mailbox.      *)

TakePending(p, mailPc, otherPc) ==
  /\ IF IsSome /\ Accepts
       THEN /\ frame' = [frame EXCEPT ![p].pc = mailPc, ![p].held = pending[active.st]]
            /\ pending' = [pending EXCEPT ![active.st] = {}]
       ELSE /\ Goto(p, IF Accepts THEN mailPc ELSE otherPc)
            /\ UNCHANGED pending
  /\ UNCHANGED <<active, phase, mailbox, cancelled, terminal, recorded, unused, budget>>

----------------------------------------------------------------------------
(* start_task, from its call to the point where the task is installed.     *)

start_pending(p) ==
  /\ At(p, "start")
  /\ TakePending(p, "start_mail", "start_reserve")

start_mail(p) ==
  /\ At(p, "start_mail")
  /\ frame' = [frame EXCEPT ![p].pc = "start_reserve", ![p].held = @ \cup mailbox]
  /\ mailbox' = {}
  /\ UNCHANGED <<active, pending, phase, cancelled, terminal, recorded, unused, budget>>

start_reserve(p) ==
  /\ At(p, "start_reserve")
  /\ \/ /\ IsSome
        /\ frame' = [frame EXCEPT ![p].pc = "start_extend", ![p].st = active.st]
        /\ UNCHANGED <<active, pending, phase>>
     \/ /\ ~IsSome
        /\ FreeStates # {}
        /\ LET s == Min(FreeStates) IN
             /\ SetDefault(s)
             /\ frame' = [frame EXCEPT ![p].pc = "start_extend", ![p].st = s]
  /\ UNCHANGED <<mailbox, cancelled, terminal, recorded, unused, budget>>

\* Mutant: the drained input is dropped instead of joining the turn.
start_extend_drops(p) ==
  /\ At(p, "start_extend")
  /\ frame' = [frame EXCEPT ![p].pc = "start_install", ![p].held = {}, ![p].st = None]
  /\ UNCHANGED <<active, pending, phase, mailbox, cancelled, terminal, recorded, unused, budget>>

start_extend(p) ==
  /\ At(p, "start_extend")
  /\ pending' = [pending EXCEPT ![frame[p].st] = @ \cup frame[p].held]
  /\ frame' = [frame EXCEPT ![p].pc = "start_install", ![p].held = {}, ![p].st = None]
  /\ UNCHANGED <<active, phase, mailbox, cancelled, terminal, recorded, unused, budget>>

\* Turn ids are fresh; storing a task over another one drops its
\* AbortOnDropHandle, which aborts that task.
FreshTurns == {t \in Turns : At(t, "none")}

start_install(p) ==
  /\ At(p, "start_install")
  /\ FreshTurns # {}
  /\ LET t == Min(FreshTurns) IN
       /\ \/ /\ IsSome
             /\ active' = [active EXCEPT !.task = t]
             /\ UNCHANGED <<pending, phase>>
          \/ /\ ~IsSome
             /\ FreeStates # {}
             /\ LET s == Min(FreeStates) IN
                  /\ active' = [st |-> s, task |-> t]
                  /\ pending' = [pending EXCEPT ![s] = {}]
                  /\ phase' = [phase EXCEPT ![s] = "CurrentTurn"]
       /\ frame' = [q \in Procs |->
                      CASE q = t -> [Blank EXCEPT !.pc = "begin", !.input = frame[p].input]
                        [] q = p -> Rest(p)
                        [] q = active.task /\ q \notin {p, t} -> Stopped
                        [] OTHER -> frame[q]]
  /\ UNCHANGED <<mailbox, cancelled, terminal, recorded, unused, budget>>

----------------------------------------------------------------------------
(* maybe_start_turn_for_pending_work.                                      *)

wake_check(p) ==
  /\ At(p, "check_mail")
  /\ IF HasTrigger \/ (DurableSleep /\ mailbox # {})
       THEN Goto(p, "reserve_idle")
       ELSE Return(p)
  /\ UNCHANGED <<active, pending, phase, mailbox, cancelled, terminal, recorded, unused, budget>>

\* Mutant: the turn is reserved without looking whether there is one.
wake_reserve_unchecked(p) ==
  /\ At(p, "reserve_idle")
  /\ FreeStates # {}
  /\ SetDefault(Min(FreeStates))
  /\ Goto(p, "start")
  /\ UNCHANGED <<mailbox, cancelled, terminal, recorded, unused, budget>>

wake_reserve(p) ==
  /\ At(p, "reserve_idle")
  /\ \/ /\ IsSome
        /\ Return(p)
        /\ UNCHANGED <<active, pending, phase>>
     \/ /\ ~IsSome
        /\ FreeStates # {}
        /\ SetDefault(Min(FreeStates))
        /\ Goto(p, "start")
  /\ UNCHANGED <<mailbox, cancelled, terminal, recorded, unused, budget>>

----------------------------------------------------------------------------
(* abort_all_tasks and abort_turn_if_active; p replaces or interrupts.     *)

AfterAbort(reason) == IF reason = "Interrupted" THEN "check_mail" ELSE "start"

\* Mutant: the task is taken out and the active turn is left in place.
TakeActiveTurn_task_only(p, reason) ==
  /\ active' = [active EXCEPT !.task = None]
  /\ IF active.task # None
       THEN /\ cancelled' = cancelled \cup {active.task}
            /\ frame' = [frame EXCEPT ![p].pc = "await_done", ![p].reason = reason,
                                      ![p].task = active.task, ![p].st = active.st]
       ELSE /\ IF reason = "Interrupted" THEN Return(p) ELSE Goto(p, "start")
            /\ UNCHANGED cancelled
  /\ UNCHANGED <<pending, phase, mailbox, terminal, recorded, unused>>

TakeActiveTurn(p, reason) ==
  /\ active' = NoActiveTurn
  /\ IF active.task # None
       THEN /\ cancelled' = cancelled \cup {active.task}
            /\ frame' = [frame EXCEPT ![p].pc = "await_done", ![p].reason = reason,
                                      ![p].task = active.task, ![p].st = active.st]
       ELSE /\ IF reason = "Interrupted" THEN Return(p) ELSE Goto(p, "start")
            /\ UNCHANGED cancelled
  /\ UNCHANGED <<pending, phase, mailbox, terminal, recorded, unused>>

abort_replaced(p) ==
  /\ At(p, "abort")
  /\ TakeActiveTurn(p, "Replaced")
  /\ UNCHANGED budget

\* Mutant: a task that ended by itself is not reported as aborted.
handle_task_abort_silent(p) ==
  /\ At(p, "await_done")
  /\ terminal' = IF At(frame[p].task, "stopped") THEN terminal
                 ELSE [terminal EXCEPT ![frame[p].task] = @ + 1]
  /\ frame' = [frame EXCEPT ![p].pc = "clear_pending", ![p].task = None,
                            ![frame[p].task] = Stopped]
  /\ UNCHANGED <<active, pending, phase, mailbox, cancelled, recorded, unused, budget>>

\* handle_task_abort: the task is done, or 100 ms have passed and it is aborted.
handle_task_abort(p) ==
  /\ At(p, "await_done")
  /\ terminal' = [terminal EXCEPT ![frame[p].task] = @ + 1]
  /\ frame' = [frame EXCEPT ![p].pc = "clear_pending", ![p].task = None,
                            ![frame[p].task] = Stopped]
  /\ UNCHANGED <<active, pending, phase, mailbox, cancelled, recorded, unused, budget>>

clear_pending(p) ==
  /\ At(p, "clear_pending")
  /\ pending' = [pending EXCEPT ![frame[p].st] = {}]
  /\ frame' = [frame EXCEPT ![p].pc = AfterAbort(frame[p].reason),
                            ![p].st = None, ![p].reason = "Replaced"]
  /\ UNCHANGED <<active, phase, mailbox, cancelled, terminal, recorded, unused, budget>>

abort_turn_if_active ==
  /\ At(Guardian, "idle")
  /\ budget.aborts > 0
  /\ active.task # None
  /\ TakeActiveTurn(Guardian, "Interrupted")
  /\ budget' = [budget EXCEPT !.aborts = @ - 1]

----------------------------------------------------------------------------
(* The submission loop: one operation at a time.                           *)

\* steer_input and inject_if_running append to the active turn's pending
\* input and reopen it for mail.
AppendToActive(i) ==
  /\ pending' = [pending EXCEPT ![active.st] = @ \cup {i}]
  /\ phase' = [phase EXCEPT ![active.st] = "CurrentTurn"]

user_input(i) ==
  /\ At(SubmissionLoop, "idle")
  /\ i \in unused
  /\ unused' = unused \ {i}
  /\ \/ /\ active.task # None
        /\ AppendToActive(i)
        /\ UNCHANGED frame
     \/ /\ active.task = None
        /\ frame' = [frame EXCEPT ![SubmissionLoop].pc = "abort",
                                  ![SubmissionLoop].input = {i}]
        /\ UNCHANGED <<pending, phase>>
  /\ UNCHANGED <<active, mailbox, cancelled, terminal, recorded, budget>>

inter_agent_communication(m) ==
  /\ At(SubmissionLoop, "idle")
  /\ m \in unused
  /\ unused' = unused \ {m}
  /\ mailbox' = mailbox \cup {m}
  /\ IF m \in TriggerMails \/ DurableSleep
       THEN Goto(SubmissionLoop, "check_mail")
       ELSE UNCHANGED frame
  /\ UNCHANGED <<active, pending, phase, cancelled, terminal, recorded, budget>>

interrupt ==
  /\ At(SubmissionLoop, "idle")
  /\ budget.interrupts > 0
  /\ TakeActiveTurn(SubmissionLoop, "Interrupted")
  /\ budget' = [budget EXCEPT !.interrupts = @ - 1]

----------------------------------------------------------------------------
(* Calls of clients and extensions from outside the submission loop.       *)

steer_input(i) ==
  /\ i \in unused
  /\ active.task # None
  /\ unused' = unused \ {i}
  /\ AppendToActive(i)
  /\ UNCHANGED <<active, mailbox, frame, cancelled, terminal, recorded, budget>>

\* The active turn takes the item even when it has no task (any more).
inject_if_running(i) == IsSome /\ AppendToActive(i)

inject_no_new_turn(i) ==
  /\ i \in unused
  /\ unused' = unused \ {i}
  /\ \/ inject_if_running(i) /\ UNCHANGED recorded
     \/ ~IsSome /\ recorded' = recorded \cup {i} /\ UNCHANGED <<pending, phase>>
  /\ UNCHANGED <<active, mailbox, frame, cancelled, terminal, budget>>

try_start_turn_if_idle(i) ==
  /\ At(Extension, "idle")
  /\ i \in unused
  /\ ~HasTrigger
  /\ unused' = unused \ {i}
  /\ frame' = [frame EXCEPT ![Extension].pc = "try_reserve", ![Extension].input = {i}]
  /\ UNCHANGED <<active, pending, phase, mailbox, cancelled, terminal, recorded, budget>>

\* On rejection the input is handed back to the caller.
Reject == unused' = unused \cup frame[Extension].input

try_reserve ==
  /\ At(Extension, "try_reserve")
  /\ \/ /\ IsSome
        /\ Reject
        /\ Return(Extension)
        /\ UNCHANGED <<active, pending, phase>>
     \/ /\ ~IsSome
        /\ FreeStates # {}
        /\ LET s == Min(FreeStates) IN
             /\ SetDefault(s)
             /\ frame' = [frame EXCEPT ![Extension].pc = "try_recheck", ![Extension].st = s]
        /\ UNCHANGED unused
  /\ UNCHANGED <<mailbox, cancelled, terminal, recorded, budget>>

\* Mail that asks for a turn goes first; work without user input is also
\* refused when the thread has switched to Plan mode.
try_recheck ==
  /\ At(Extension, "try_recheck")
  /\ \/ HasTrigger /\ Goto(Extension, "try_clear")
     \/ frame[Extension].input \subseteq IdleWork /\ Goto(Extension, "try_clear")
     \/ ~HasTrigger /\ Goto(Extension, "try_still")
  /\ UNCHANGED <<active, pending, phase, mailbox, cancelled, terminal, recorded, unused, budget>>

\* active_turn is still the one whose turn state the process holds, with no task.
IsReserved(p) == active.st = frame[p].st /\ active.task = None

clear_reserved_idle_turn ==
  /\ At(Extension, "try_clear")
  /\ Reject
  /\ active' = IF IsReserved(Extension) THEN NoActiveTurn ELSE active
  /\ frame' = [frame EXCEPT ![Extension] = [Blank EXCEPT !.pc = "check_mail"]]
  /\ UNCHANGED <<pending, phase, mailbox, cancelled, terminal, recorded, budget>>

try_still_reserved ==
  /\ At(Extension, "try_still")
  /\ \/ /\ IsReserved(Extension)
        /\ frame' = IF frame[Extension].input \subseteq IdleWork
                      THEN [frame EXCEPT ![Extension].pc = "try_extend"]
                      ELSE [frame EXCEPT ![Extension].pc = "start", ![Extension].st = None]
        /\ UNCHANGED unused
     \/ /\ ~IsReserved(Extension)
        /\ Reject
        /\ Return(Extension)
  /\ UNCHANGED <<active, pending, phase, mailbox, cancelled, terminal, recorded, budget>>

try_extend ==
  /\ At(Extension, "try_extend")
  /\ pending' = [pending EXCEPT ![frame[Extension].st] = @ \cup frame[Extension].input]
  /\ frame' = [frame EXCEPT ![Extension] = [Blank EXCEPT !.pc = "start"]]
  /\ UNCHANGED <<active, phase, mailbox, cancelled, terminal, recorded, unused, budget>>

----------------------------------------------------------------------------
(* A regular task: run_turn in a loop, then on_task_finished.              *)

run_begin(t) ==
  /\ At(t, "begin")
  /\ recorded' = recorded \cup frame[t].input
  /\ frame' = [frame EXCEPT ![t].pc = IF frame[t].input = {} THEN "drain" ELSE "sample",
                            ![t].input = {}]
  /\ UNCHANGED <<active, pending, phase, mailbox, cancelled, terminal, unused, budget>>

run_drain(t) ==
  /\ At(t, "drain")
  /\ TakePending(t, "drain_mail", "sample")

\* Mutant: the mailbox is copied instead of drained.
run_drain_mail_copies(t) ==
  /\ At(t, "drain_mail")
  /\ recorded' = recorded \cup frame[t].held \cup mailbox
  /\ frame' = [frame EXCEPT ![t].pc = "sample", ![t].held = {}]
  /\ UNCHANGED <<active, pending, phase, mailbox, cancelled, terminal, unused, budget>>

run_drain_mail(t) ==
  /\ At(t, "drain_mail")
  /\ recorded' = recorded \cup frame[t].held \cup mailbox
  /\ mailbox' = {}
  /\ frame' = [frame EXCEPT ![t].pc = "sample", ![t].held = {}]
  /\ UNCHANGED <<active, pending, phase, cancelled, terminal, unused, budget>>

\* A final answer defers mail to the next turn, unless work for this turn
\* is already pending.
sample_answer(t) ==
  /\ At(t, "sample")
  /\ Goto(t, "check")
  /\ phase' = IF active.task = t /\ pending[active.st] \subseteq QueueMails
                THEN [phase EXCEPT ![active.st] = "NextTurn"] ELSE phase
  /\ UNCHANGED <<active, pending, mailbox, cancelled, terminal, recorded, unused, budget>>

\* A tool call, or a stop hook that blocks the stop: another round is needed.
sample_follow_up(t) ==
  /\ At(t, "sample")
  /\ budget.followUps > 0
  /\ budget' = [budget EXCEPT !.followUps = @ - 1]
  /\ Goto(t, "drain")
  /\ phase' = IF active.task = t
                THEN [phase EXCEPT ![active.st] = "CurrentTurn"] ELSE phase
  /\ UNCHANGED <<active, pending, mailbox, cancelled, terminal, recorded, unused>>

\* A sampling error ends run_turn; TurnAborted (cancellation) ends the task.
sample_error(t) ==
  /\ At(t, "sample")
  /\ \/ Goto(t, "check")
     \/ t \in cancelled /\ Goto(t, "end")
  /\ UNCHANGED <<active, pending, phase, mailbox, cancelled, terminal, recorded, unused, budget>>

has_pending_input(t) ==
  /\ At(t, "check")
  /\ IF Accepts /\ ((IsSome /\ pending[active.st] # {}) \/ mailbox # {})
       THEN Goto(t, "drain")
       ELSE Goto(t, "end")
  /\ UNCHANGED <<active, pending, phase, mailbox, cancelled, terminal, recorded, unused, budget>>

run_end(t) ==
  /\ At(t, "end")
  /\ IF t \in cancelled THEN Return(t) ELSE Goto(t, "finish")
  /\ UNCHANGED <<active, pending, phase, mailbox, cancelled, terminal, recorded, unused, budget>>

\* Mutant: a task that finds no active turn still reports completion.
finish_take_always(t) ==
  /\ At(t, "finish")
  /\ IF active.task # None
       THEN /\ active' = [active EXCEPT !.task = None]
            /\ frame' = [frame EXCEPT ![t].pc = "settle", ![t].st = active.st]
       ELSE /\ frame' = [frame EXCEPT ![t].pc = "settle", ![t].st = Min(FreeStates)]
            /\ UNCHANGED active
  /\ UNCHANGED <<pending, phase, mailbox, cancelled, terminal, recorded, unused, budget>>

\* on_task_finished takes whatever task is active and detaches its handle.
finish_take(t) ==
  /\ At(t, "finish")
  /\ IF active.task # None
       THEN /\ active' = [active EXCEPT !.task = None]
            /\ frame' = [frame EXCEPT ![t].pc = "settle", ![t].st = active.st]
       ELSE /\ Return(t)
            /\ UNCHANGED active
  /\ UNCHANGED <<pending, phase, mailbox, cancelled, terminal, recorded, unused, budget>>

finish_settle(t) ==
  /\ At(t, "settle")
  /\ recorded' = recorded \cup pending[frame[t].st]
  /\ pending' = [pending EXCEPT ![frame[t].st] = {}]
  /\ terminal' = [terminal EXCEPT ![t] = @ + 1]
  /\ Goto(t, "clear")
  /\ UNCHANGED <<active, phase, mailbox, cancelled, unused, budget>>

\* Mutant: the session goes idle without looking for mail.
finish_clear_no_wake(t) ==
  /\ At(t, "clear")
  /\ active' = IF IsReserved(t) THEN NoActiveTurn ELSE active
  /\ Return(t)
  /\ UNCHANGED <<pending, phase, mailbox, cancelled, terminal, recorded, unused, budget>>

finish_clear(t) ==
  /\ At(t, "clear")
  /\ IF IsReserved(t)
       THEN /\ active' = NoActiveTurn
            /\ frame' = [frame EXCEPT ![t].pc = "check_mail", ![t].st = None]
       ELSE /\ Return(t)
            /\ UNCHANGED active
  /\ UNCHANGED <<pending, phase, mailbox, cancelled, terminal, recorded, unused, budget>>

----------------------------------------------------------------------------

Handler(p) ==
  \/ start_pending(p) \/ start_mail(p) \/ start_reserve(p)
  \/ start_extend(p) \/ start_install(p)
  \/ wake_check(p) \/ wake_reserve(p)
  \/ abort_replaced(p) \/ handle_task_abort(p) \/ clear_pending(p)

IdleStart ==
  \/ try_reserve \/ try_recheck \/ clear_reserved_idle_turn
  \/ try_still_reserved \/ try_extend

Run(t) ==
  \/ run_begin(t) \/ run_drain(t) \/ run_drain_mail(t)
  \/ sample_answer(t) \/ sample_follow_up(t) \/ sample_error(t)
  \/ has_pending_input(t) \/ run_end(t)
  \/ finish_take(t) \/ finish_settle(t) \/ finish_clear(t)

Submit ==
  \/ \E i \in UserInputs : user_input(i)
  \/ \E m \in Mails : inter_agent_communication(m)
  \/ interrupt

Call ==
  \/ \E i \in Steers : steer_input(i)
  \/ \E i \in Injections : inject_no_new_turn(i)
  \/ \E i \in IdleCalls : try_start_turn_if_idle(i)
  \/ abort_turn_if_active

Next ==
  \/ \E p \in Procs : Handler(p)
  \/ \E t \in Turns : Run(t)
  \/ IdleStart
  \/ Submit
  \/ Call

Spec == Init /\ [][Next]_vars

(* tokio polls every task that is ready, and sampling ends: the stream has *)
(* an idle timeout.  Nothing forces a client to submit anything.           *)
Fairness ==
  /\ \A p \in Procs : WF_vars(Handler(p))
  /\ \A t \in Turns : WF_vars(Run(t))
  /\ WF_vars(IdleStart)

FairSpec == Spec /\ Fairness

----------------------------------------------------------------------------
(* Properties.                                                             *)

TypeOK ==
  /\ active \in [st : States \cup {None}, task : Turns \cup {None}]
  /\ pending \in [States -> SUBSET Items]
  /\ phase \in [States -> Phases]
  /\ mailbox \subseteq Mails
  /\ DOMAIN frame = Procs
  /\ \A p \in Procs :
       frame[p] \in [pc : Pcs, reason : Reasons, task : Turns \cup {None},
                     st : States \cup {None}, input : SUBSET Items, held : SUBSET Items]
  /\ cancelled \subseteq Turns
  /\ terminal \in [Turns -> Nat]
  /\ recorded \subseteq Items
  /\ unused \subseteq Items
  /\ budget \in [interrupts : 0 .. MaxInterrupts, aborts : 0 .. MaxGuardianAborts,
                 followUps : 0 .. MaxFollowUps]

\* A session runs one task at a time (docs/protocol_v1.md, and the
\* debug_assert!s of start_task): no two tasks execute run_turn, a task that
\* was cancelled and is winding down not counted.
AtMostOneTask ==
  Cardinality({t \in Turns \ cancelled : frame[t].pc \in RunPcs}) <= 1

\* A turn whose tokio task is gone has been reported to the client by
\* TurnComplete or TurnAborted, or the abort that stopped it is about to
\* (on_task_finished, handle_task_abort).
EndedTurnsReported ==
  \A t \in Turns :
    At(t, "stopped") =>
      \/ terminal[t] >= 1
      \/ \E p \in Procs : At(p, "await_done") /\ frame[p].task = t

\* No turn is reported twice: a task that finishes while it is being aborted
\* does not send TurnComplete beside TurnAborted.
TerminalAtMostOnce == \A t \in Turns : terminal[t] <= 1

\* active_turn never stays set with nobody to finish it, which would make the
\* session busy for ever: a turn without a task belongs to a process that will
\* install one or clear it, and an installed task is still alive.
ActiveTurnOwned ==
  IsSome =>
    IF active.task = None
      THEN \E p \in Procs :
             \/ frame[p].pc \in StartPcs \cup {"try_extend"}
             \/ frame[p].pc \in {"settle", "clear", "try_recheck", "try_clear", "try_still"}
                  /\ frame[p].st = active.st
      ELSE frame[active.task].pc \in RunPcs \cup {"finish"}

\* Where an item is: in the mailbox, in a turn state somebody can still reach,
\* in a handler's hands, in the history, or back with its caller.
LiveStates == Held \ {None}
Places(i) ==
    {<<"pending", s>> : s \in {s \in LiveStates : i \in pending[s]}}
  \cup {<<"frame", p>> : p \in {p \in Procs : i \in frame[p].input \cup frame[p].held}}
  \cup {<<where, 0>> : where \in
          {w \in {"mailbox", "recorded", "unused"} :
             \/ w = "mailbox" /\ i \in mailbox
             \/ w = "recorded" /\ i \in recorded
             \/ w = "unused" /\ i \in unused}}

\* Input is never handed to the model twice: through every drain, hand-over,
\* rejection and restart an item is in one place at most.
NeverDuplicated == \A i \in Items : Cardinality(Places(i)) <= 1

\* Accepted input is not dropped: without an abort every item stays somewhere.
NothingLost == \A i \in Items : Places(i) # {}

\* Mail that asks for a turn does not stay in the mailbox
\* (maybe_start_turn_for_pending_work): a turn is started for it, or the
\* running turn takes it.
TriggerMailWakes ==
  \A m \in TriggerMails : m \in mailbox ~> m \notin mailbox
=============================================================================
