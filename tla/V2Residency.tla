---------------------------- MODULE V2Residency ----------------------------
(***************************************************************************)
(* How a multi-agent V2 session keeps a bounded number of its sub-agents   *)
(* in memory (codex-rs/core/src/agent/control/residency.rs), limits how    *)
(* many of them run a turn (execution.rs), and loads, unloads and messages *)
(* them (spawn.rs, control.rs).                                            *)
(*                                                                         *)
(* Callers are tool calls running concurrently in different tokio tasks.   *)
(* An action is the stretch of code between two awaits or lock regions.    *)
(* A loaded thread is a session: its own loop, fed by a submission queue.  *)
(* A caller may hold the handle of a session that is no longer the one the *)
(* thread manager knows under the same thread id.                          *)
(***************************************************************************)
EXTENDS Naturals, Sequences, FiniteSets

CONSTANTS
    Agents,         \* thread ids of sub-agents
    Callers,        \* tool calls in flight at the same time
    Followups,      \* messages sent with trigger_turn, reused once taken by a turn
    Notes,          \* messages sent without it
    MaxSessions,    \* bound: number of times a thread is created or reloaded
    Capacity,       \* effective_agent_max_threads(V2)
    None

Messages == Followups \cup Notes
Sessions == 1..MaxSessions
Shutdown == <<"Op::Shutdown">>

ASSUME ResidencyAssumption ==
    /\ IsFiniteSet(Agents) /\ IsFiniteSet(Callers) /\ Callers # {}
    /\ Followups \cap Notes = {}
    /\ MaxSessions \in Nat /\ Capacity \in Nat
    /\ None \notin Agents \cup Messages \cup Nat

VARIABLES
    residents,      \* least recently used first
    pending_slots,
    threads,        \* ThreadManagerState.threads: thread id -> session, or None
    registered,     \* the agent registry: "fresh", "known" or "forgotten"
    session,        \* the sessions created so far
    caller,
    accepted        \* follow-ups whose send_op returned Ok and no turn has taken

vars == <<residents, pending_slots, threads, registered, session, caller, accepted>>
slotVars == <<residents, pending_slots>>

RangeOf(s) == {s[i] : i \in 1..Len(s)}
IdleCaller == [pc |-> "idle", agent |-> None, message |-> None,
               scan |-> 0, candidate |-> None, handle |-> None]

Init ==
    /\ residents = <<>> /\ pending_slots = 0
    /\ threads = [a \in Agents |-> None]
    /\ registered = [a \in Agents |-> "fresh"]
    /\ session = <<>>
    /\ caller = [c \in Callers |-> IdleCaller]
    /\ accepted = {}

-----------------------------------------------------------------------------
\* Helpers

\* VecDeque::retain(|id| id != a), written out because SelectSeq is opaque to the provers.
retain_others(list, a) ==
    LET kept[i \in 0 .. Len(list)] ==
            IF i = 0 THEN <<>>
            ELSE IF list[i] = a THEN kept[i - 1] ELSE Append(kept[i - 1], list[i])
    IN  kept[Len(list)]

touch_resident(list, a) == Append(retain_others(list, a), a)

\* AgentExecutionLimiter: a guard lives as long as the running task.
ActiveGuards == Cardinality({i \in DOMAIN session : session[i].turn = "running"})
has_capacity == ActiveGuards < Capacity

Goto(c, pc) == caller' = [caller EXCEPT ![c].pc = pc]
Return(c)   == caller' = [caller EXCEPT ![c] = IdleCaller]
At(c, pc)   == caller[c].pc = pc

FreshMessages ==
    Messages \ (accepted \cup {caller[c].message : c \in Callers}
                \cup UNION {session[i].mailbox \cup RangeOf(session[i].queue) : i \in DOMAIN session})

-----------------------------------------------------------------------------
\* Entry points

\* spawn_agent_internal up to the residency slot.
spawn_agent(c, m) ==
    /\ At(c, "idle") /\ m \in FreshMessages \cap Followups
    /\ has_capacity
    /\ caller' = [caller EXCEPT ![c] = [IdleCaller EXCEPT !.pc = "reserve", !.message = m]]
    /\ UNCHANGED <<slotVars, threads, registered, session, accepted>>

\* handle_message_string_tool: ensure_agent_known, then ensure_v2_agent_loaded.
send_message(c, a, m) ==
    /\ At(c, "idle") /\ m \in FreshMessages
    /\ registered[a] = "known"
    /\ caller' = [caller EXCEPT ![c] =
                    [IdleCaller EXCEPT !.pc = "load", !.agent = a, !.message = m]]
    /\ UNCHANGED <<slotVars, threads, registered, session, accepted>>

ensure_v2_agent_loaded(c) ==
    /\ At(c, "load")
    /\ \/ /\ threads[caller[c].agent] # None
          /\ Goto(c, "touch")
       \/ /\ threads[caller[c].agent] = None /\ registered[caller[c].agent] = "known"
          /\ Goto(c, "reserve")
       \/ /\ threads[caller[c].agent] = None /\ registered[caller[c].agent] # "known"
          /\ Return(c)                                          \* ThreadNotFound
    /\ UNCHANGED <<slotVars, threads, registered, session, accepted>>

touch_loaded_v2_residency(c) ==
    /\ At(c, "touch")
    /\ residents' = IF threads[caller[c].agent] # None
                    THEN touch_resident(residents, caller[c].agent) ELSE residents
    /\ Goto(c, "capacity")
    /\ UNCHANGED <<pending_slots, threads, registered, session, accepted>>

-----------------------------------------------------------------------------
\* V2Residency::reserve_slot and try_unload_one_resident

\* Mutant: the slot is granted but not counted.
try_reserve_pending_slot_uncounted(c) ==
    /\ At(c, "reserve")
    /\ Goto(c, IF Len(residents) + pending_slots >= Capacity THEN "count" ELSE "create")
    /\ UNCHANGED <<slotVars, threads, registered, session, accepted>>

\* Mutant: one slot too many.
try_reserve_pending_slot_off_by_one(c) ==
    /\ At(c, "reserve")
    /\ IF Len(residents) + pending_slots > Capacity
       THEN Goto(c, "count") /\ UNCHANGED pending_slots
       ELSE Goto(c, "create") /\ pending_slots' = pending_slots + 1
    /\ UNCHANGED <<residents, threads, registered, session, accepted>>

try_reserve_pending_slot(c) ==
    /\ At(c, "reserve")
    /\ IF Len(residents) + pending_slots >= Capacity
       THEN Goto(c, "count") /\ UNCHANGED pending_slots
       ELSE Goto(c, "create") /\ pending_slots' = pending_slots + 1
    /\ UNCHANGED <<residents, threads, registered, session, accepted>>

resident_count(c) ==
    /\ At(c, "count")
    /\ caller' = [caller EXCEPT ![c].pc = "pop", ![c].scan = Len(residents)]
    /\ UNCHANGED <<slotVars, threads, registered, session, accepted>>

\* Mutant: the scan is not bounded by the number of residents it started with.
pop_lru_candidate_forever(c) ==
    LET protected == caller[c].agent
        i == IF residents # <<>> /\ Head(residents) = protected THEN 2 ELSE 1
    IN
    /\ At(c, "pop")
    /\ IF Len(residents) < i
       THEN Return(c) /\ UNCHANGED residents
       ELSE /\ caller' = [caller EXCEPT ![c].pc = "lookup", ![c].candidate = residents[i]]
            /\ residents' = SubSeq(residents, i + 1, Len(residents))
                              \o SubSeq(residents, 1, i - 1)
    /\ UNCHANGED <<pending_slots, threads, registered, session, accepted>>

\* The protected thread (the one being loaded) is rotated to the back.
pop_lru_candidate(c) ==
    LET protected == caller[c].agent
        i == IF residents # <<>> /\ Head(residents) = protected THEN 2 ELSE 1
    IN
    /\ At(c, "pop")
    /\ IF caller[c].scan = 0 \/ Len(residents) < i
       THEN Return(c) /\ UNCHANGED residents                    \* AgentLimitReached
       ELSE /\ caller' = [caller EXCEPT ![c].pc = "lookup", ![c].scan = @ - 1,
                                        ![c].candidate = residents[i]]
            /\ residents' = SubSeq(residents, i + 1, Len(residents))
                              \o SubSeq(residents, 1, i - 1)
    /\ UNCHANGED <<pending_slots, threads, registered, session, accepted>>

\* A candidate that is not loaded any more is simply not put back.
lookup_candidate(c) ==
    LET i == threads[caller[c].candidate] IN
    /\ At(c, "lookup")
    /\ caller' = IF i = None
                 THEN [caller EXCEPT ![c].pc = "pop", ![c].candidate = None]
                 ELSE [caller EXCEPT ![c].pc = "status", ![c].handle = i]
    /\ UNCHANGED <<slotVars, threads, registered, session, accepted>>

\* Mutant: a candidate that may not be unloaded is not put back.
Check_no_touch(c, pc, holds, next) ==
    /\ At(c, pc)
    /\ IF holds
       THEN Goto(c, next)
       ELSE caller' = [caller EXCEPT ![c].pc = "pop", ![c].candidate = None,
                                     ![c].handle = None]
    /\ UNCHANGED <<slotVars, threads, registered, session, accepted>>

\* One of the three reads of is_unloadable, each behind its own await.
Check(c, pc, holds, next) ==
    /\ At(c, pc)
    /\ IF holds
       THEN Goto(c, next) /\ UNCHANGED residents
       ELSE /\ caller' = [caller EXCEPT ![c].pc = "pop", ![c].candidate = None,
                                        ![c].handle = None]
            /\ residents' = touch_resident(residents, caller[c].candidate)
    /\ UNCHANGED <<pending_slots, threads, registered, session, accepted>>

is_unloadable(c) ==
    LET s == session[caller[c].handle] IN
    \/ Check(c, "status", s.status = "Final", "turn")
    \/ Check(c, "turn", s.turn = "none", "mailbox")
    \/ Check(c, "mailbox", s.mailbox = {}, "shutdown")

\* Op::Shutdown goes through the session's queue like any other submission; a loop
\* that is already gone counts as shut down.
shutdown_and_wait(c) ==
    LET i == caller[c].handle IN
    /\ At(c, "shutdown")
    /\ session' = IF session[i].alive
                  THEN [session EXCEPT ![i].queue = Append(@, Shutdown)] ELSE session
    /\ Goto(c, "terminating")
    /\ UNCHANGED <<slotVars, threads, registered, accepted>>

\* remove_thread takes the thread id, whichever session is stored under it.
remove_unloaded_thread(c) ==
    /\ At(c, "terminating")
    /\ ~session[caller[c].handle].alive
    /\ threads' = [threads EXCEPT ![caller[c].candidate] = None]
    /\ caller' = [caller EXCEPT ![c].pc = "reserve", ![c].candidate = None, ![c].handle = None]
    /\ UNCHANGED <<slotVars, registered, session, accepted>>

-----------------------------------------------------------------------------
\* Creating or reloading the thread with the slot in hand

NewSession(a) == [agent |-> a, alive |-> TRUE, status |-> "PendingInit", turn |-> "none",
                  mailbox |-> {}, queue |-> <<>>]

\* finalize_thread_spawn inserts the thread if the id is vacant.
create_thread(c, a) ==
    /\ At(c, "create")
    /\ IF caller[c].agent = None
       THEN registered[a] = "fresh" /\ \A d \in Callers : caller[d].agent # a
       ELSE a = caller[c].agent
    /\ threads[a] = None /\ Len(session) < MaxSessions
    /\ session' = Append(session, NewSession(a))
    /\ threads' = [threads EXCEPT ![a] = Len(session) + 1]
    /\ caller' = [caller EXCEPT ![c].agent = a,
                                ![c].pc = IF caller[c].agent = None THEN "commit_spawn"
                                          ELSE "commit_reload"]
    /\ UNCHANGED <<slotVars, registered, accepted>>

release_pending_slot == pending_slots' = pending_slots - 1

\* Mutant: the losing caller keeps its slot counted.
reload_raced_keeps_slot(c) ==
    /\ At(c, "create") /\ caller[c].agent # None
    /\ threads[caller[c].agent] # None
    /\ Goto(c, "touch")
    /\ UNCHANGED <<slotVars, threads, registered, session, accepted>>

\* "thread is already running": another caller was faster; drop the slot and touch.
reload_raced(c) ==
    /\ At(c, "create") /\ caller[c].agent # None
    /\ threads[caller[c].agent] # None
    /\ release_pending_slot
    /\ Goto(c, "touch")
    /\ UNCHANGED <<residents, threads, registered, session, accepted>>

\* Any other error while creating or resuming the thread drops the slot.
create_failed(c) ==
    /\ At(c, "create")
    /\ release_pending_slot
    /\ Return(c)
    /\ UNCHANGED <<residents, threads, registered, session, accepted>>

\* The registry reservation and the residency slot are committed; a spawn goes on to
\* send its first message without another capacity check.
commit_slot(c) ==
    /\ caller[c].pc \in {"commit_spawn", "commit_reload"}
    /\ release_pending_slot
    /\ residents' = touch_resident(residents, caller[c].agent)
    /\ registered' = IF At(c, "commit_spawn")
                     THEN [registered EXCEPT ![caller[c].agent] = "known"] ELSE registered
    /\ Goto(c, IF At(c, "commit_spawn") THEN "submit" ELSE "capacity")
    /\ UNCHANGED <<threads, session, accepted>>

-----------------------------------------------------------------------------
\* Sending the message

\* Checked, not reserved: the guard is taken when the turn starts.
ensure_execution_capacity(c) ==
    LET i == threads[caller[c].agent]
        refused == /\ caller[c].message \in Followups
                   /\ i # None => (session[i].turn = "none" /\ ~has_capacity)
    IN
    /\ At(c, "capacity")
    /\ IF refused THEN Return(c) ELSE Goto(c, "submit")  \* ThreadNotFound, AgentLimitReached
    /\ UNCHANGED <<slotVars, threads, registered, session, accepted>>

send_op(c) ==
    LET i == threads[caller[c].agent] IN
    /\ At(c, "submit")
    /\ caller' = [caller EXCEPT ![c] = IF i = None THEN IdleCaller      \* ThreadNotFound
                                       ELSE [@ EXCEPT !.pc = "send", !.handle = i]]
    /\ UNCHANGED <<slotVars, threads, registered, session, accepted>>

submit_with_trace(c) ==
    LET i == caller[c].handle IN
    /\ At(c, "send")
    /\ IF session[i].alive
       THEN /\ session' = [session EXCEPT ![i].queue = Append(@, caller[c].message)]
            /\ accepted' = accepted \cup ({caller[c].message} \cap Followups)
            /\ Return(c)
       ELSE Goto(c, "died") /\ UNCHANGED <<session, accepted>>
    /\ UNCHANGED <<slotVars, threads, registered>>

\* InternalAgentDied: remove_thread, forget_v2_residency, release_spawned_thread.
handle_thread_request_result(c) ==
    LET a == caller[c].agent IN
    /\ At(c, "died")
    /\ threads' = [threads EXCEPT ![a] = None]
    /\ residents' = retain_others(residents, a)
    /\ registered' = [registered EXCEPT ![a] = "forgotten"]
    /\ Return(c)
    /\ UNCHANGED <<pending_slots, session, accepted>>

-----------------------------------------------------------------------------
\* The session's own loop and its turn (abstracted from the TurnLifecycle module)

\* A started turn takes the whole mailbox into its first request.
StartedTurn(s) == [s EXCEPT !.turn = "running", !.status = "Running", !.mailbox = {}]
HasTriggerMail(s) == s.mailbox \cap Followups # {}

process_communication(i) ==
    LET m == Head(session[i].queue)
        s == [session[i] EXCEPT !.queue = Tail(@), !.mailbox = @ \cup {m}]
    IN
    /\ session[i].alive /\ session[i].queue # <<>> /\ m # Shutdown
    /\ IF m \in Followups /\ s.turn = "none"
       THEN /\ session' = [session EXCEPT ![i] = StartedTurn(s)]
            /\ accepted' = accepted \ s.mailbox
       ELSE session' = [session EXCEPT ![i] = s] /\ UNCHANGED accepted
    /\ UNCHANGED <<slotVars, threads, registered, caller>>

\* The loop ends: a running turn is aborted, everything still queued is dropped.
process_shutdown(i) ==
    /\ session[i].alive /\ session[i].queue # <<>> /\ Head(session[i].queue) = Shutdown
    /\ session' = [session EXCEPT ![i] =
          [@ EXCEPT !.alive = FALSE, !.status = "Shutdown", !.turn = "none",
                    !.mailbox = {}, !.queue = <<>>]]
    /\ UNCHANGED <<slotVars, threads, registered, caller, accepted>>

turn_takes_mail(i) ==
    /\ session[i].turn = "running" /\ session[i].mailbox # {}
    /\ session' = [session EXCEPT ![i].mailbox = {}]
    /\ accepted' = accepted \ session[i].mailbox
    /\ UNCHANGED <<slotVars, threads, registered, caller>>

\* The task is taken (dropping its guard) and the final event sets the status ...
turn_finishes(i) ==
    /\ session[i].turn = "running"
    /\ session' = [session EXCEPT ![i].turn = "finishing", ![i].status = "Final"]
    /\ UNCHANGED <<slotVars, threads, registered, caller, accepted>>

\* ... then active_turn is cleared and mail that wants a turn starts the next one.
turn_clears(i) ==
    /\ session[i].turn = "finishing"
    /\ IF HasTriggerMail(session[i])
       THEN /\ session' = [session EXCEPT ![i] = StartedTurn(@)]
            /\ accepted' = accepted \ session[i].mailbox
       ELSE session' = [session EXCEPT ![i].turn = "none"] /\ UNCHANGED accepted
    /\ UNCHANGED <<slotVars, threads, registered, caller>>

-----------------------------------------------------------------------------
CallerStep(c) ==
    \/ ensure_v2_agent_loaded(c) \/ touch_loaded_v2_residency(c)
    \/ try_reserve_pending_slot(c) \/ resident_count(c) \/ pop_lru_candidate(c)
    \/ lookup_candidate(c) \/ is_unloadable(c) \/ shutdown_and_wait(c)
    \/ remove_unloaded_thread(c)
    \/ \E a \in Agents : create_thread(c, a)
    \/ reload_raced(c) \/ create_failed(c) \/ commit_slot(c)
    \/ ensure_execution_capacity(c) \/ send_op(c) \/ submit_with_trace(c)
    \/ handle_thread_request_result(c)

LoopStep(i) == process_communication(i) \/ process_shutdown(i)
TurnStep(i) == turn_takes_mail(i) \/ turn_finishes(i) \/ turn_clears(i)

Calls ==
    \E c \in Callers, m \in Messages :
        \/ spawn_agent(c, m)
        \/ \E a \in Agents : send_message(c, a, m)

Next ==
    \/ Calls
    \/ \E c \in Callers : CallerStep(c)
    \/ \E i \in DOMAIN session : LoopStep(i) \/ TurnStep(i)

Spec == Init /\ [][Next]_vars

\* Every tool call and every session loop is a tokio task that is polled whenever
\* it can move.  Nothing is assumed of turns: a model call may take forever.
Fairness ==
    /\ \A c \in Callers : WF_vars(CallerStep(c))
    /\ \A i \in Sessions : WF_vars(i \in DOMAIN session /\ LoopStep(i))

FairSpec == Spec /\ Fairness

-----------------------------------------------------------------------------
\* Properties

ProgramCounters ==
    {"idle", "load", "touch", "reserve", "count", "pop", "lookup", "status", "turn",
     "mailbox", "shutdown", "terminating", "create", "commit_spawn", "commit_reload",
     "capacity", "submit", "send", "died"}

TypeOK ==
    /\ residents \in Seq(Agents) /\ pending_slots \in Nat
    /\ threads \in [Agents -> Sessions \cup {None}]
    /\ registered \in [Agents -> {"fresh", "known", "forgotten"}]
    /\ session \in Seq([agent: Agents, alive: BOOLEAN,
                        status: {"PendingInit", "Running", "Final", "Shutdown"},
                        turn: {"none", "running", "finishing"},
                        mailbox: SUBSET Messages, queue: Seq(Messages \cup {Shutdown})])
    /\ caller \in [Callers -> [pc: ProgramCounters, agent: Agents \cup {None},
                               message: Messages \cup {None}, scan: Nat,
                               candidate: Agents \cup {None}, handle: Sessions \cup {None}]]
    /\ accepted \subseteq Followups

HoldsSlot(c) == caller[c].pc \in {"create", "commit_spawn", "commit_reload"}
Open == {a \in Agents : threads[a] # None}

\* pending_slots counts exactly the slots that tool calls hold: none leaks when a
\* reload loses the race, a spawn fails or a slot is committed, so the saturating
\* subtraction never hides a second release.
SlotsBalanced == pending_slots = Cardinality({c \in Callers : HoldsSlot(c)})

\* No loaded sub-agent escapes the residency list for good: it is listed, or a scan
\* has it in hand, or the call that created it is about to list it.  An agent lost
\* here could never be unloaded again and would not count toward the capacity.
LoadedIsTracked ==
    \A a \in Open :
        \/ a \in RangeOf(residents)
        \/ \E c \in Callers : caller[c].candidate = a
        \/ \E c \in Callers : /\ caller[c].pc \in {"commit_spawn", "commit_reload"}
                              /\ caller[c].agent = a

\* A scan takes its candidate off the list before it knows whether it may unload it,
\* so others can slip into its place; but never more than one per other call.
OvershootBounded ==
    Cardinality(Open) <= Capacity + Cardinality(Callers) - 1

\* No call hangs: neither a scan of residents that nobody can unload, nor callers that
\* keep taking each other's freed slot, nor the wait for a session to terminate.
EveryCallReturns == \A c \in Callers : ~At(c, "idle") ~> At(c, "idle")

\* "Send a follow-up task to an existing non-root target agent and trigger a turn if it
\* is idle.": a follow-up the tool reported as sent reaches a turn, or is still on its
\* way in a session that is alive.
FollowupNotLost ==
    \A m \in accepted :
        \E i \in DOMAIN session : m \in session[i].mailbox \cup RangeOf(session[i].queue)
=============================================================================
