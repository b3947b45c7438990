------------------------ MODULE TurnLifecycleProofs ------------------------
(***************************************************************************)
(* No item of a session's input is ever in two places, for every number of *)
(* inputs, mails, steers, injections, idle calls, interrupts and aborts.   *)
(* Where only the submission loop starts turns, and where nobody aborts    *)
(* them, one task runs at a time, every end is reported once and the       *)
(* active turn has an owner; without aborts no input is lost.              *)
(***************************************************************************)
EXTENDS TurnLifecycle, FiniteSetTheorems, WellFoundedInduction, TLAPS

-----------------------------------------------------------------------------
(* The inductive invariant.                                                *)

\* A task has a turn state, and a task that reports its end knows its own.
StatesKnown ==
  /\ active.task # None => active.st # None
  /\ \A p \in Procs : At(p, "settle") => frame[p].st # None

\* What a process was given to start a turn with is not what it has drained.
CarriedOnce == \A p \in Procs : frame[p].input \cap frame[p].held = {}

\* NeverDuplicated without the cardinality.
SinglePlaces == \A i \in Items : \A x, y \in Places(i) : x = y

IInv == TypeOK /\ StatesKnown /\ CarriedOnce /\ SinglePlaces

FrameState ==
  [pc : Pcs, reason : Reasons, task : Turns \cup {None}, st : States \cup {None},
   input : SUBSET Items, held : SUBSET Items]

-----------------------------------------------------------------------------
(* Constants.                                                              *)

\* The processes are the turns, the submission loop, the extension and the guardian.
LEMMA ProcFacts ==
    /\ Turns \subseteq Procs /\ SubmissionLoop \in Procs /\ Extension \in Procs /\ Guardian \in Procs
    /\ SubmissionLoop \notin Turns /\ Extension \notin Turns /\ Guardian \notin Turns
    /\ None \notin States /\ None \notin Turns /\ None \notin Procs
BY BoundsAssumption DEF Turns, Procs, SubmissionLoop, Extension, Guardian, None, States

\* Program counters are told apart.
LEMMA PcFacts ==
    /\ Blank \in FrameState /\ Idle \in FrameState /\ Stopped \in FrameState
    /\ \A p : Rest(p) \in FrameState /\ Rest(p).st = None /\ Rest(p).input = {} /\ Rest(p).held = {}
              /\ Rest(p).pc \in {"idle", "stopped"}
BY DEF Blank, Idle, Stopped, Rest, FrameState, Pcs, Reasons, RunPcs, StartPcs, FinishPcs, TryPcs,
       AbortPcs, WakePcs

\* The smallest element of a set of numbers is one of them.
LEMMA MinFacts ==
    ASSUME NEW S \in SUBSET Nat, S # {}
    PROVE  Min(S) \in S
<1> DEFINE R == {ss \in Nat \X Nat : ss[1] < ss[2]}
<1>1. IsWellFoundedOn(R, Nat)
  BY NatLessThanWellFounded, Zenon DEF OpToRel
<1>2. S \subseteq Nat
  OBVIOUS
<1> HIDE DEF R
<1>3. PICK k \in S : \A l \in S : ~(<<l, k>> \in R)
  BY <1>1, <1>2, WFMin, Zenon
<1>4. ASSUME NEW l \in S
      PROVE  k <= l
  <2>1. l < k => <<l, k>> \in R
    BY DEF R
  <2> QED BY <1>3, <2>1
<1> QED BY <1>3, <1>4 DEF Min

\* The state and the turn that are picked when there is one to pick.
LEMMA PickFacts ==
    /\ FreeStates # {} => Min(FreeStates) \in FreeStates
    /\ FreshTurns # {} => Min(FreshTurns) \in FreshTurns
<1>1. FreeStates \in SUBSET Nat
  BY DEF FreeStates, States
<1>2. FreshTurns \in SUBSET Nat
  BY DEF FreshTurns, Turns
<1> QED BY <1>1, <1>2, MinFacts

-----------------------------------------------------------------------------
(* Types, variable by variable.                                            *)

\* active_turn is left alone, cleared, given another task, or set for a free state.
LEMMA ActiveStep ==
    ASSUME TypeOK, StatesKnown, Next
    PROVE  /\ active' \in [st : States \cup {None}, task : Turns \cup {None}]
           /\ active'.task # None => active'.st # None
<1> USE ProcFacts, PickFacts
<1>1. \/ active' = active
      \/ active' = NoActiveTurn
      \/ active' = [active EXCEPT !.task = None]
      \/ IsSome /\ FreshTurns # {} /\ active' = [active EXCEPT !.task = Min(FreshTurns)]
      \/ FreeStates # {} /\ active' = [st |-> Min(FreeStates), task |-> None]
      \/ /\ FreeStates # {} /\ FreshTurns # {}
         /\ active' = [st |-> Min(FreeStates), task |-> Min(FreshTurns)]
  <2>1. CASE \E p \in Procs : Handler(p)
    BY <2>1 DEF Handler, start_pending, start_mail, start_reserve, start_extend, start_install,
                wake_check, wake_reserve, abort_replaced, handle_task_abort, clear_pending,
                TakePending, SetDefault, TakeActiveTurn
  <2>2. CASE \E t \in Turns : Run(t)
    BY <2>2 DEF Run, run_begin, run_drain, run_drain_mail, sample_answer, sample_follow_up,
                sample_error, has_pending_input, run_end, finish_take, finish_settle,
                finish_clear, TakePending
  <2>3. CASE IdleStart \/ Submit \/ Call
    BY <2>3 DEF IdleStart, Submit, Call, try_reserve, try_recheck, clear_reserved_idle_turn,
                try_still_reserved, try_extend, user_input, inter_agent_communication, interrupt,
                steer_input, inject_no_new_turn, try_start_turn_if_idle, abort_turn_if_active,
                SetDefault, TakeActiveTurn, AppendToActive, inject_if_running
  <2> QED BY <2>1, <2>2, <2>3 DEF Next
<1>2. FreeStates \subseteq States /\ FreshTurns \subseteq Turns
  BY DEF FreeStates, FreshTurns
<1> QED BY <1>1, <1>2 DEF TypeOK, StatesKnown, NoActiveTurn, IsSome

\* Bookkeeping that does not hold items.
LEMMA BookkeepingStep ==
    ASSUME TypeOK, Next
    PROVE  /\ phase' \in [States -> Phases]
           /\ cancelled' \subseteq Turns
           /\ terminal' \in [Turns -> Nat]
           /\ budget' \in [interrupts : 0 .. MaxInterrupts, aborts : 0 .. MaxGuardianAborts,
                            followUps : 0 .. MaxFollowUps]
<1>1. \/ phase' = phase
      \/ phase' = [phase EXCEPT ![active.st] = "CurrentTurn"]
      \/ phase' = [phase EXCEPT ![Min(FreeStates)] = "CurrentTurn"]
      \/ phase' = [phase EXCEPT ![active.st] = "NextTurn"]
  <2>1. CASE \E p \in Procs : Handler(p)
    BY <2>1 DEF Handler, start_pending, start_mail, start_reserve, start_extend, start_install,
                wake_check, wake_reserve, abort_replaced, handle_task_abort, clear_pending,
                TakePending, SetDefault, TakeActiveTurn
  <2>2. CASE \E t \in Turns : Run(t)
    <3>1. PICK t \in Turns : Run(t)
      BY <2>2
    <3>2. CASE sample_answer(t)
      <4>1. \/ phase' = phase
            \/ phase' = [phase EXCEPT ![active.st] = "NextTurn"]
        BY <3>2, Zenon DEF sample_answer
      <4> QED BY <4>1
    <3>3. CASE sample_follow_up(t)
      <4>1. \/ phase' = phase
            \/ phase' = [phase EXCEPT ![active.st] = "CurrentTurn"]
        BY <3>3, Zenon DEF sample_follow_up
      <4> QED BY <4>1
    <3>4. CASE ~ sample_answer(t) /\ ~ sample_follow_up(t)
      BY <3>1, <3>4 DEF Run, run_begin, run_drain, run_drain_mail, sample_error,
                        has_pending_input, run_end, finish_take, finish_settle, finish_clear,
                        TakePending
    <3> QED BY <3>2, <3>3, <3>4
  <2>3. CASE IdleStart \/ Submit \/ Call
    BY <2>3 DEF IdleStart, Submit, Call, try_reserve, try_recheck, clear_reserved_idle_turn,
                try_still_reserved, try_extend, user_input, inter_agent_communication, interrupt,
                steer_input, inject_no_new_turn, try_start_turn_if_idle, abort_turn_if_active,
                SetDefault, TakeActiveTurn, AppendToActive, inject_if_running
  <2> QED BY <2>1, <2>2, <2>3 DEF Next
<1>2. cancelled' \subseteq cancelled \cup (Turns \cap {active.task})
  <2>0. active.task \in Turns \cup {None}
    BY DEF TypeOK
  <2>1. CASE \E p \in Procs : Handler(p)
    BY <2>0, <2>1 DEF Handler, start_pending, start_mail, start_reserve, start_extend, start_install,
                wake_check, wake_reserve, abort_replaced, handle_task_abort, clear_pending,
                TakePending, SetDefault, TakeActiveTurn
  <2>2. CASE \E t \in Turns : Run(t)
    BY <2>2 DEF Run, run_begin, run_drain, run_drain_mail, sample_answer, sample_follow_up,
                sample_error, has_pending_input, run_end, finish_take, finish_settle,
                finish_clear, TakePending
  <2>3. CASE IdleStart \/ Submit \/ Call
    BY <2>0, <2>3 DEF IdleStart, Submit, Call, try_reserve, try_recheck, clear_reserved_idle_turn,
                try_still_reserved, try_extend, user_input, inter_agent_communication, interrupt,
                steer_input, inject_no_new_turn, try_start_turn_if_idle, abort_turn_if_active,
                TakeActiveTurn
  <2> QED BY <2>1, <2>2, <2>3 DEF Next
<1>3. terminal' = terminal \/ \E t : terminal' = [terminal EXCEPT ![t] = @ + 1]
  BY DEF Next, Handler, Run, IdleStart, Submit, Call, start_pending, start_mail, start_reserve,
        start_extend, start_install, wake_check, wake_reserve, abort_replaced, handle_task_abort,
        clear_pending, abort_turn_if_active, user_input, inter_agent_communication, interrupt,
        steer_input, inject_no_new_turn, try_start_turn_if_idle, try_reserve, try_recheck,
        clear_reserved_idle_turn, try_still_reserved, try_extend, run_begin, run_drain,
        run_drain_mail, sample_answer, sample_follow_up, sample_error, has_pending_input, run_end,
        finish_take, finish_settle, finish_clear, TakePending, SetDefault, TakeActiveTurn,
        AppendToActive, inject_if_running
<1>4. \/ budget' = budget
      \/ budget.interrupts > 0 /\ budget' = [budget EXCEPT !.interrupts = @ - 1]
      \/ budget.aborts > 0 /\ budget' = [budget EXCEPT !.aborts = @ - 1]
      \/ budget.followUps > 0 /\ budget' = [budget EXCEPT !.followUps = @ - 1]
  BY DEF Next, Handler, Run, IdleStart, Submit, Call, start_pending, start_mail, start_reserve,
        start_extend, start_install, wake_check, wake_reserve, abort_replaced, handle_task_abort,
        clear_pending, abort_turn_if_active, user_input, inter_agent_communication, interrupt,
        steer_input, inject_no_new_turn, try_start_turn_if_idle, try_reserve, try_recheck,
        clear_reserved_idle_turn, try_still_reserved, try_extend, run_begin, run_drain,
        run_drain_mail, sample_answer, sample_follow_up, sample_error, has_pending_input, run_end,
        finish_take, finish_settle, finish_clear, TakePending, SetDefault, TakeActiveTurn,
        AppendToActive, inject_if_running
<1>5. phase' \in [States -> Phases] /\ cancelled' \subseteq Turns /\ terminal' \in [Turns -> Nat]
  BY <1>1, <1>2, <1>3 DEF TypeOK, Phases
<1>6. budget' \in [interrupts : 0 .. MaxInterrupts, aborts : 0 .. MaxGuardianAborts,
                   followUps : 0 .. MaxFollowUps]
  BY <1>4, BoundsAssumption DEF TypeOK
<1> QED BY <1>5, <1>6

\* What holds items holds nothing else.
LEMMA HoldersStep ==
    ASSUME TypeOK, StatesKnown, Next
    PROVE  /\ mailbox' \subseteq Mails /\ recorded' \subseteq Items /\ unused' \subseteq Items
           /\ pending' \in [States -> SUBSET Items]
<1> USE ProcFacts
<1>0. \A p \in Procs : frame[p].input \subseteq Items /\ frame[p].held \subseteq Items
  BY DEF TypeOK
<1>1. mailbox' \subseteq Mails
  <2>1. mailbox' = mailbox \/ mailbox' = {} \/ \E m \in Mails : mailbox' = mailbox \cup {m}
    BY DEF Next, Handler, Run, IdleStart, Submit, Call, start_pending, start_mail, start_reserve,
        start_extend, start_install, wake_check, wake_reserve, abort_replaced, handle_task_abort,
        clear_pending, abort_turn_if_active, user_input, inter_agent_communication, interrupt,
        steer_input, inject_no_new_turn, try_start_turn_if_idle, try_reserve, try_recheck,
        clear_reserved_idle_turn, try_still_reserved, try_extend, run_begin, run_drain,
        run_drain_mail, sample_answer, sample_follow_up, sample_error, has_pending_input, run_end,
        finish_take, finish_settle, finish_clear, TakePending, SetDefault, TakeActiveTurn,
        AppendToActive, inject_if_running
  <2> QED BY <2>1 DEF TypeOK
<1>2. unused' \subseteq Items
  <2>1. unused' \subseteq unused \/ unused' = unused \cup frame[Extension].input
    BY DEF Next, Handler, Run, IdleStart, Submit, Call, start_pending, start_mail, start_reserve,
        start_extend, start_install, wake_check, wake_reserve, abort_replaced, handle_task_abort,
        clear_pending, abort_turn_if_active, user_input, inter_agent_communication, interrupt,
        steer_input, inject_no_new_turn, try_start_turn_if_idle, try_reserve, try_recheck,
        clear_reserved_idle_turn, try_still_reserved, try_extend, run_begin, run_drain,
        run_drain_mail, sample_answer, sample_follow_up, sample_error, has_pending_input, run_end,
        finish_take, finish_settle, finish_clear, TakePending, SetDefault, TakeActiveTurn,
        AppendToActive, inject_if_running, Reject
  <2> QED BY <1>0, <2>1 DEF TypeOK
<1>3. recorded' \subseteq Items
  <2>1. \/ recorded' = recorded
        \/ \E i \in Injections : recorded' = recorded \cup {i}
        \/ \E t \in Turns : recorded' = recorded \cup frame[t].input
        \/ \E t \in Turns : recorded' = recorded \cup frame[t].held \cup mailbox
        \/ \E t \in Turns : At(t, "settle") /\ recorded' = recorded \cup pending[frame[t].st]
    BY DEF Next, Handler, Run, IdleStart, Submit, Call, start_pending, start_mail, start_reserve,
        start_extend, start_install, wake_check, wake_reserve, abort_replaced, handle_task_abort,
        clear_pending, abort_turn_if_active, user_input, inter_agent_communication, interrupt,
        steer_input, inject_no_new_turn, try_start_turn_if_idle, try_reserve, try_recheck,
        clear_reserved_idle_turn, try_still_reserved, try_extend, run_begin, run_drain,
        run_drain_mail, sample_answer, sample_follow_up, sample_error, has_pending_input, run_end,
        finish_take, finish_settle, finish_clear, TakePending, SetDefault, TakeActiveTurn,
        AppendToActive, inject_if_running
  <2>2. \A t \in Turns : At(t, "settle") => pending[frame[t].st] \subseteq Items
    BY DEF TypeOK, StatesKnown
  <2> QED BY <1>0, <2>1, <2>2 DEF TypeOK, Items
<1>4. pending' \in [States -> SUBSET Items]
  <2>1. \/ pending' = pending
        \/ \E s : pending' = [pending EXCEPT ![s] = {}]
        \/ \E s : \E i \in Items : pending' = [pending EXCEPT ![s] = @ \cup {i}]
        \/ \E p \in Procs : \E s : pending' = [pending EXCEPT ![s] = @ \cup frame[p].held]
        \/ \E p \in Procs : \E s : pending' = [pending EXCEPT ![s] = @ \cup frame[p].input]
    BY DEF Next, Handler, Run, IdleStart, Submit, Call, start_pending, start_mail, start_reserve,
        start_extend, start_install, wake_check, wake_reserve, abort_replaced, handle_task_abort,
        clear_pending, abort_turn_if_active, user_input, inter_agent_communication, interrupt,
        steer_input, inject_no_new_turn, try_start_turn_if_idle, try_reserve, try_recheck,
        clear_reserved_idle_turn, try_still_reserved, try_extend, run_begin, run_drain,
        run_drain_mail, sample_answer, sample_follow_up, sample_error, has_pending_input, run_end,
        finish_take, finish_settle, finish_clear, TakePending, SetDefault, TakeActiveTurn,
        AppendToActive, inject_if_running, Items
  <2> QED BY <1>0, <2>1 DEF TypeOK
<1> QED BY <1>1, <1>2, <1>3, <1>4

-----------------------------------------------------------------------------
(* Places, without tuples.                                                 *)

PendingAt(i, s) == s \in LiveStates /\ i \in pending[s]
CarriedBy(i, p) == p \in Procs /\ i \in frame[p].input \cup frame[p].held

Apart(i) ==
  /\ \A s, u : PendingAt(i, s) /\ PendingAt(i, u) => s = u
  /\ \A p, q : CarriedBy(i, p) /\ CarriedBy(i, q) => p = q
  /\ \A s, p : ~ (PendingAt(i, s) /\ CarriedBy(i, p))
  /\ i \in mailbox \cup recorded \cup unused =>
       \A x : ~ PendingAt(i, x) /\ ~ CarriedBy(i, x)
  /\ i \in mailbox => i \notin recorded /\ i \notin unused
  /\ i \in recorded => i \notin unused

\* The places of an item, one kind after the other.
LEMMA PlaceFacts ==
    ASSUME NEW i
    PROVE  /\ \A s : <<"pending", s>> \in Places(i) <=> PendingAt(i, s)
           /\ \A p : <<"frame", p>> \in Places(i) <=> CarriedBy(i, p)
           /\ <<"mailbox", 0>> \in Places(i) <=> i \in mailbox
           /\ <<"recorded", 0>> \in Places(i) <=> i \in recorded
           /\ <<"unused", 0>> \in Places(i) <=> i \in unused
           /\ \A x \in Places(i) :
                \/ \E s : x = <<"pending", s>>
                \/ \E p : x = <<"frame", p>>
                \/ x \in {<<"mailbox", 0>>, <<"recorded", 0>>, <<"unused", 0>>}
BY DEF Places, PendingAt, CarriedBy

\* An item is apart when it is in one place.
LEMMA ApartIsSingle ==
    ASSUME NEW i
    PROVE  Apart(i) <=> \A x, y \in Places(i) : x = y
<1>1. ASSUME Apart(i), NEW x \in Places(i), NEW y \in Places(i)
      PROVE  x = y
  BY <1>1, PlaceFacts DEF Apart
<1>2. ASSUME \A x, y \in Places(i) : x = y
      PROVE  Apart(i)
  <2>1. ASSUME NEW s, NEW u, PendingAt(i, s), PendingAt(i, u)
        PROVE  s = u
    <3>1. <<"pending", s>> \in Places(i) /\ <<"pending", u>> \in Places(i)
      BY <2>1, PlaceFacts
    <3>2. <<"pending", s>> = <<"pending", u>>
      BY <1>2, <3>1
    <3> QED BY <3>2
  <2>2. ASSUME NEW p, NEW q, CarriedBy(i, p), CarriedBy(i, q)
        PROVE  p = q
    <3>1. <<"frame", p>> \in Places(i) /\ <<"frame", q>> \in Places(i)
      BY <2>2, PlaceFacts
    <3>2. <<"frame", p>> = <<"frame", q>>
      BY <1>2, <3>1
    <3> QED BY <3>2
  <2>3. ASSUME NEW s, NEW p, PendingAt(i, s), CarriedBy(i, p)
        PROVE  FALSE
    <3>1. <<"pending", s>> \in Places(i) /\ <<"frame", p>> \in Places(i)
      BY <2>3, PlaceFacts
    <3>2. <<"pending", s>> = <<"frame", p>>
      BY <1>2, <3>1
    <3> QED BY <3>2
  <2>4. ASSUME i \in mailbox \cup recorded \cup unused, NEW x, PendingAt(i, x)
        PROVE  FALSE
    <3>1. PICK w \in {"mailbox", "recorded", "unused"} : <<w, 0>> \in Places(i)
      BY <2>4, PlaceFacts
    <3>2. <<"pending", x>> \in Places(i)
      BY <2>4, PlaceFacts
    <3>3. <<"pending", x>> = <<w, 0>>
      BY <1>2, <3>1, <3>2
    <3> QED BY <3>3
  <2>5. ASSUME i \in mailbox \cup recorded \cup unused, NEW x, CarriedBy(i, x)
        PROVE  FALSE
    <3>1. PICK w \in {"mailbox", "recorded", "unused"} : <<w, 0>> \in Places(i)
      BY <2>5, PlaceFacts
    <3>2. <<"frame", x>> \in Places(i)
      BY <2>5, PlaceFacts
    <3>3. <<"frame", x>> = <<w, 0>>
      BY <1>2, <3>1, <3>2
    <3> QED BY <3>3
  <2>6. /\ i \in mailbox => i \notin recorded /\ i \notin unused
        /\ i \in recorded => i \notin unused
    BY <1>2, PlaceFacts
  <2> QED BY <2>1, <2>2, <2>3, <2>4, <2>5, <2>6 DEF Apart
<1> QED BY <1>1, <1>2

-----------------------------------------------------------------------------
(* What a process becomes.                                                 *)

GoodState(k) ==
  /\ k \in FrameState
  /\ k.pc = "settle" => k.st # None
  /\ k.input \cap k.held = {}

FrameGood == DOMAIN frame = Procs /\ \A p \in Procs : GoodState(frame[p])

Becomes(p, k) ==
  /\ DOMAIN frame' = Procs
  /\ frame'[p] = k
  /\ \A q \in Procs \ {p} : frame'[q] = frame[q]

\* The other processes stay what they are.
LEMMA BecomesGood ==
    ASSUME FrameGood, NEW p \in Procs, NEW k, GoodState(k), Becomes(p, k)
    PROVE  FrameGood'
BY DEF FrameGood, GoodState, Becomes

\* What is alive and carried after a step of one process.
LEMMA BecomesPlaces ==
    ASSUME NEW p \in Procs, NEW k, Becomes(p, k)
    PROVE  /\ \A s \in LiveStates' :
                s # None /\ (s \in LiveStates \/ s = active'.st \/ s = k.st)
           /\ \A i, q : CarriedBy(i, q)' <=>
                \/ q = p /\ i \in k.input \cup k.held
                \/ q # p /\ CarriedBy(i, q)
BY DEF Becomes, LiveStates, Held, CarriedBy

\* A move of the program counter.
LEMMA GotoBecomes ==
    ASSUME FrameGood, NEW p \in Procs, NEW pc \in Pcs \ {"settle"}, Goto(p, pc)
    PROVE  /\ Becomes(p, [frame[p] EXCEPT !.pc = pc])
           /\ GoodState([frame[p] EXCEPT !.pc = pc])
BY DEF FrameGood, GoodState, Becomes, Goto, FrameState

\* A handler that returns.
LEMMA ReturnBecomes ==
    ASSUME FrameGood, NEW p \in Procs, Return(p)
    PROVE  Becomes(p, Rest(p)) /\ GoodState(Rest(p))
BY PcFacts DEF FrameGood, GoodState, Becomes, Return

\* Nothing happens to the frames.
LEMMA SameBecomes ==
    ASSUME FrameGood, NEW p \in Procs, frame' = frame
    PROVE  Becomes(p, frame[p]) /\ GoodState(frame[p])
BY DEF FrameGood, Becomes

-----------------------------------------------------------------------------
(* What a step does to an item.                                            *)

\* The item arrives nowhere.
Stays(i) ==
  /\ \A s : PendingAt(i, s)' => PendingAt(i, s)
  /\ \A p : CarriedBy(i, p)' => CarriedBy(i, p)
  /\ i \in mailbox' => i \in mailbox
  /\ i \in recorded' => i \in recorded
  /\ i \in unused' => i \in unused

\* An item that arrives nowhere stays in one place.
LEMMA StaysApart ==
    ASSUME NEW i, Apart(i), Stays(i)
    PROVE  Apart(i)'
BY DEF Stays, Apart

\* No turn state gains an item: one that becomes alive is new, and empty.
PendingShrinks ==
  \A s \in LiveStates' : pending'[s] # {} => s \in LiveStates /\ pending'[s] \subseteq pending[s]

\* One process steps, the turn states shrink, and so does what it carries.
LEMMA QuietStays ==
    ASSUME NEW p \in Procs, NEW k, Becomes(p, k), PendingShrinks,
           k.input \cup k.held \subseteq frame[p].input \cup frame[p].held,
           mailbox' \subseteq mailbox, recorded' = recorded, unused' = unused,
           NEW i
    PROVE  Stays(i)
<1>1. \A s : PendingAt(i, s)' => PendingAt(i, s)
  BY DEF PendingShrinks, PendingAt
<1>2. \A q : CarriedBy(i, q)' => CarriedBy(i, q)
  BY BecomesPlaces DEF CarriedBy
<1> QED BY <1>1, <1>2 DEF Stays

\* The turn states are as before, or fewer.
LEMMA SameShrinks ==
    ASSUME NEW p \in Procs, NEW k, Becomes(p, k), pending' = pending,
           active'.st \in {active.st, None}, k.st \in {active.st, frame[p].st, None}
    PROVE  PendingShrinks
<1>1. \A s \in LiveStates' : s # None /\ (s \in LiveStates \/ s = active'.st \/ s = k.st)
  BY BecomesPlaces
<1>2. \A s \in LiveStates' : s \in LiveStates
  BY <1>1 DEF LiveStates, Held
<1> QED BY <1>2 DEF PendingShrinks

\* One of them is emptied.
LEMMA EmptiedShrinks ==
    ASSUME TypeOK, NEW p \in Procs, NEW k, Becomes(p, k), NEW u, pending' = [pending EXCEPT ![u] = {}],
           active'.st \in {active.st, None}, k.st \in {active.st, frame[p].st, None}
    PROVE  PendingShrinks /\ \A i : ~ PendingAt(i, u)'
<1>1. \A s \in LiveStates' : s # None /\ (s \in LiveStates \/ s = active'.st \/ s = k.st)
  BY BecomesPlaces
<1>2. \A s \in LiveStates' : s \in LiveStates
  BY <1>1 DEF LiveStates, Held
<1>3. LiveStates \subseteq States
  BY DEF LiveStates, Held, TypeOK
<1> QED BY <1>2, <1>3 DEF PendingShrinks, PendingAt, TypeOK

\* A new one is set up.
LEMMA DefaultShrinks ==
    ASSUME TypeOK, NEW p \in Procs, NEW k, Becomes(p, k), FreeStates # {},
           pending' = [pending EXCEPT ![Min(FreeStates)] = {}],
           active'.st = Min(FreeStates), k.st \in {Min(FreeStates), frame[p].st, None}
    PROVE  PendingShrinks
<1>1. \A s \in LiveStates' : s # None /\ (s \in LiveStates \/ s = active'.st \/ s = k.st)
  BY BecomesPlaces
<1>2. \A s \in LiveStates' : s \in LiveStates \/ s = Min(FreeStates)
  BY <1>1 DEF LiveStates, Held
<1>3. Min(FreeStates) \in States \ LiveStates
  BY PickFacts DEF FreeStates, LiveStates
<1>4. LiveStates \subseteq States
  BY DEF LiveStates, Held, TypeOK
<1> QED BY <1>2, <1>3, <1>4 DEF PendingShrinks, TypeOK

-----------------------------------------------------------------------------
(* The steps that move nothing.                                            *)

Kept == FrameGood /\ \A i \in Items : Apart(i)
Good == TypeOK /\ Kept /\ (active.task # None => active.st # None)

\* A step of one process that gains nothing.
LEMMA QuietStep ==
    ASSUME Kept, NEW p \in Procs, NEW k, GoodState(k), Becomes(p, k), PendingShrinks,
           k.input \cup k.held \subseteq frame[p].input \cup frame[p].held,
           mailbox' \subseteq mailbox, recorded' = recorded, unused' = unused
    PROVE  Kept'
<1>1. FrameGood'
  BY BecomesGood DEF Kept
<1>2. ASSUME NEW i \in Items
      PROVE  Apart(i)'
  BY QuietStays, StaysApart DEF Kept
<1> QED BY <1>1, <1>2 DEF Kept

\* Of the state, only the program counter of one process moves.
LEMMA GotoStep ==
    ASSUME Good, NEW p \in Procs, NEW pc \in Pcs \ {"settle"}, Goto(p, pc),
           pending' = pending, active' = active,
           mailbox' = mailbox, recorded' = recorded, unused' = unused
    PROVE  Kept'
<1> DEFINE k == [frame[p] EXCEPT !.pc = pc]
<1>1. Becomes(p, k) /\ GoodState(k)
  BY GotoBecomes DEF Good, Kept
<1>2. k.st = frame[p].st /\ k.input = frame[p].input /\ k.held = frame[p].held
  BY DEF Good, Kept, FrameGood, GoodState, FrameState
<1> HIDE DEF k
<1>3. PendingShrinks
  BY <1>1, <1>2, SameShrinks
<1> QED BY <1>1, <1>2, <1>3, QuietStep DEF Good

\* A handler returns, and active_turn is left alone or cleared.
LEMMA ReturnStep ==
    ASSUME Good, NEW p \in Procs, Return(p),
           pending' = pending, active'.st \in {active.st, None},
           mailbox' = mailbox, recorded' = recorded, unused' = unused
    PROVE  Kept'
<1>1. Becomes(p, Rest(p)) /\ GoodState(Rest(p))
  BY ReturnBecomes DEF Good, Kept
<1>2. PendingShrinks
  BY <1>1, PcFacts, SameShrinks
<1> QED BY <1>1, <1>2, PcFacts, QuietStep DEF Good

\* start_task joins the active turn or sets up a new one.
LEMMA StartReserveStep ==
    ASSUME Good, NEW p \in Procs, start_reserve(p)
    PROVE  Kept'
<1>0. frame[p] \in FrameState /\ frame[p].input \cap frame[p].held = {}
  BY DEF Good, Kept, FrameGood, GoodState
<1>1. CASE IsSome
  <2> DEFINE k == [frame[p] EXCEPT !.pc = "start_extend", !.st = active.st]
  <2>1. active.st \in States \cup {None} /\ "start_extend" \in Pcs
    BY DEF Good, TypeOK, Pcs, StartPcs
  <2>2. GoodState(k) /\ k.st = active.st /\ k.input = frame[p].input /\ k.held = frame[p].held
    BY <1>0, <2>1 DEF FrameState, GoodState
  <2>3. Becomes(p, k)
    BY <1>1 DEF start_reserve, Becomes, Good, Kept, FrameGood
  <2>4. /\ pending' = pending /\ active' = active
        /\ mailbox' = mailbox /\ recorded' = recorded /\ unused' = unused
    BY <1>1 DEF start_reserve
  <2> HIDE DEF k
  <2>5. PendingShrinks
    BY <2>2, <2>3, <2>4, SameShrinks
  <2> QED BY <2>2, <2>3, <2>4, <2>5, QuietStep DEF Good
<1>2. CASE ~ IsSome
  <2> DEFINE k == [frame[p] EXCEPT !.pc = "start_extend", !.st = Min(FreeStates)]
  <2>0. FreeStates # {}
    BY <1>2 DEF start_reserve
  <2>1. Min(FreeStates) \in States \cup {None} /\ "start_extend" \in Pcs
    BY <2>0, PickFacts DEF FreeStates, Pcs, StartPcs
  <2>2. /\ GoodState(k) /\ k.st = Min(FreeStates)
        /\ k.input = frame[p].input /\ k.held = frame[p].held
    BY <1>0, <2>1 DEF FrameState, GoodState
  <2>3. Becomes(p, k)
    BY <1>2 DEF start_reserve, Becomes, Good, Kept, FrameGood
  <2>4. /\ pending' = [pending EXCEPT ![Min(FreeStates)] = {}] /\ active'.st = Min(FreeStates)
        /\ mailbox' = mailbox /\ recorded' = recorded /\ unused' = unused
    BY <1>2 DEF start_reserve, SetDefault
  <2> HIDE DEF k
  <2>5. PendingShrinks
    BY <2>0, <2>2, <2>3, <2>4, DefaultShrinks DEF Good
  <2> QED BY <2>2, <2>3, <2>4, <2>5, QuietStep DEF Good
<1> QED BY <1>1, <1>2

\* maybe_start_turn_for_pending_work returns, or reserves a turn.
LEMMA WakeStep ==
    ASSUME Good, NEW p \in Procs, wake_check(p) \/ wake_reserve(p)
    PROVE  Kept'
<1>1. CASE wake_check(p)
  <2>1. "reserve_idle" \in Pcs \ {"settle"}
    BY DEF Pcs, WakePcs
  <2>2. Goto(p, "reserve_idle") \/ Return(p)
    BY <1>1 DEF wake_check
  <2>3. /\ pending' = pending /\ active' = active
        /\ mailbox' = mailbox /\ recorded' = recorded /\ unused' = unused
    BY <1>1 DEF wake_check
  <2> QED BY <2>1, <2>2, <2>3, GotoStep, ReturnStep
<1>2. CASE wake_reserve(p) /\ IsSome
  <2>1. /\ Return(p) /\ pending' = pending /\ active' = active
        /\ mailbox' = mailbox /\ recorded' = recorded /\ unused' = unused
    BY <1>2 DEF wake_reserve
  <2> QED BY <2>1, ReturnStep
<1>3. CASE wake_reserve(p) /\ ~ IsSome
  <2> DEFINE k == [frame[p] EXCEPT !.pc = "start"]
  <2>0. FreeStates # {}
    BY <1>3 DEF wake_reserve
  <2>1. "start" \in Pcs \ {"settle"} /\ Goto(p, "start")
    BY <1>3 DEF Pcs, StartPcs, wake_reserve
  <2>2. Becomes(p, k) /\ GoodState(k)
    BY <2>1, GotoBecomes DEF Good, Kept
  <2>3. k.st = frame[p].st /\ k.input = frame[p].input /\ k.held = frame[p].held
    BY DEF Good, Kept, FrameGood, GoodState, FrameState
  <2>4. /\ pending' = [pending EXCEPT ![Min(FreeStates)] = {}] /\ active'.st = Min(FreeStates)
        /\ mailbox' = mailbox /\ recorded' = recorded /\ unused' = unused
    BY <1>3 DEF wake_reserve, SetDefault
  <2> HIDE DEF k
  <2>5. PendingShrinks
    BY <2>0, <2>2, <2>3, <2>4, DefaultShrinks DEF Good
  <2> QED BY <2>2, <2>3, <2>4, <2>5, QuietStep DEF Good
<1> QED BY <1>1, <1>2, <1>3

\* abort_all_tasks and abort_turn_if_active take the active turn out.
LEMMA TakeActiveStep ==
    ASSUME Good, NEW p \in Procs, NEW reason \in Reasons, TakeActiveTurn(p, reason)
    PROVE  Kept'
<1>0. frame[p] \in FrameState /\ frame[p].input \cap frame[p].held = {}
  BY DEF Good, Kept, FrameGood, GoodState
<1>1. /\ pending' = pending /\ active'.st = None
      /\ mailbox' = mailbox /\ recorded' = recorded /\ unused' = unused
  BY DEF TakeActiveTurn, NoActiveTurn
<1>2. CASE active.task # None
  <2> DEFINE k == [frame[p] EXCEPT !.pc = "await_done", !.reason = reason,
                                   !.task = active.task, !.st = active.st]
  <2>1. /\ active.st \in States \cup {None} /\ active.task \in Turns \cup {None}
        /\ "await_done" \in Pcs
    BY DEF Good, TypeOK, Pcs, AbortPcs
  <2>2. GoodState(k) /\ k.st = active.st /\ k.input = frame[p].input /\ k.held = frame[p].held
    BY <1>0, <2>1 DEF FrameState, GoodState
  <2>3. Becomes(p, k)
    BY <1>2 DEF TakeActiveTurn, Becomes, Good, Kept, FrameGood
  <2> HIDE DEF k
  <2>4. PendingShrinks
    BY <1>1, <2>2, <2>3, SameShrinks
  <2> QED BY <1>1, <2>2, <2>3, <2>4, QuietStep DEF Good
<1>3. CASE active.task = None /\ reason = "Interrupted"
  <2>1. Return(p)
    BY <1>3 DEF TakeActiveTurn
  <2> QED BY <1>1, <2>1, ReturnStep
<1>4. CASE active.task = None /\ reason # "Interrupted"
  <2> DEFINE k == [frame[p] EXCEPT !.pc = "start"]
  <2>1. "start" \in Pcs \ {"settle"} /\ Goto(p, "start")
    BY <1>4 DEF Pcs, StartPcs, TakeActiveTurn
  <2>2. Becomes(p, k) /\ GoodState(k)
    BY <2>1, GotoBecomes DEF Good, Kept
  <2>3. k.st = frame[p].st /\ k.input = frame[p].input /\ k.held = frame[p].held
    BY <1>0 DEF FrameState
  <2> HIDE DEF k
  <2>4. PendingShrinks
    BY <1>1, <2>2, <2>3, SameShrinks
  <2> QED BY <1>1, <2>2, <2>3, <2>4, QuietStep DEF Good
<1> QED BY <1>2, <1>3, <1>4

\* handle_task_abort stops the task and drops what it carries.
LEMMA HandleAbortStep ==
    ASSUME Good, NEW p \in Procs, handle_task_abort(p)
    PROVE  Kept'
<1> DEFINE k == [frame[p] EXCEPT !.pc = "clear_pending", !.task = None]
<1>0. frame[p] \in FrameState /\ frame[p].input \cap frame[p].held = {}
  BY DEF Good, Kept, FrameGood, GoodState
<1>1. "clear_pending" \in Pcs /\ "clear_pending" # "settle"
  BY DEF Pcs, AbortPcs
<1>2. GoodState(k) /\ k.st = frame[p].st /\ k.input = frame[p].input /\ k.held = frame[p].held
  BY <1>0, <1>1 DEF FrameState, GoodState
<1>3. GoodState(Stopped) /\ Stopped.st = None /\ Stopped.input = {} /\ Stopped.held = {}
  BY PcFacts DEF GoodState, Stopped, Blank
<1>4. /\ DOMAIN frame' = Procs
      /\ \A q \in Procs : frame'[q] = Stopped \/ frame'[q] = frame[q] \/ (q = p /\ frame'[q] = k)
  <2>1. frame' = [[frame EXCEPT ![p] = k] EXCEPT ![frame[p].task] = Stopped]
    BY DEF handle_task_abort, Good, Kept, FrameGood
  <2>2. DOMAIN frame = Procs
    BY DEF Good, Kept, FrameGood
  <2> HIDE DEF k
  <2> QED BY <2>1, <2>2
<1>5. /\ pending' = pending /\ active' = active
      /\ mailbox' = mailbox /\ recorded' = recorded /\ unused' = unused
  BY DEF handle_task_abort
<1> HIDE DEF k
<1>6. FrameGood'
  BY <1>2, <1>3, <1>4 DEF Good, Kept, FrameGood
<1>7. LiveStates' \subseteq LiveStates
  BY <1>2, <1>3, <1>4, <1>5 DEF LiveStates, Held
<1>8. ASSUME NEW i \in Items
      PROVE  Apart(i)'
  <2>1. \A s : PendingAt(i, s)' => PendingAt(i, s)
    BY <1>5, <1>7 DEF PendingAt
  <2>2. \A q : CarriedBy(i, q)' => CarriedBy(i, q)
    BY <1>2, <1>3, <1>4 DEF CarriedBy
  <2>3. Stays(i)
    BY <1>5, <2>1, <2>2 DEF Stays
  <2> QED BY <2>3, StaysApart DEF Good, Kept
<1> QED BY <1>6, <1>8 DEF Kept

\* The pending input of an aborted turn is dropped.
LEMMA ClearPendingStep ==
    ASSUME Good, NEW p \in Procs, clear_pending(p)
    PROVE  Kept'
<1> DEFINE k == [frame[p] EXCEPT !.pc = AfterAbort(frame[p].reason), !.st = None,
                                 !.reason = "Replaced"]
<1>0. frame[p] \in FrameState /\ frame[p].input \cap frame[p].held = {}
  BY DEF Good, Kept, FrameGood, GoodState
<1>1. AfterAbort(frame[p].reason) \in Pcs \ {"settle"} /\ "Replaced" \in Reasons
  BY DEF AfterAbort, Pcs, StartPcs, WakePcs, Reasons
<1>2. GoodState(k) /\ k.st = None /\ k.input = frame[p].input /\ k.held = frame[p].held
  BY <1>0, <1>1 DEF FrameState, GoodState
<1>3. Becomes(p, k)
  BY DEF clear_pending, Becomes, Good, Kept, FrameGood
<1>4. /\ pending' = [pending EXCEPT ![frame[p].st] = {}] /\ active' = active
      /\ mailbox' = mailbox /\ recorded' = recorded /\ unused' = unused
  BY DEF clear_pending
<1> HIDE DEF k
<1>5. PendingShrinks
  BY <1>2, <1>3, <1>4, EmptiedShrinks DEF Good
<1> QED BY <1>2, <1>3, <1>4, <1>5, QuietStep DEF Good

\* Sampling, and the checks of a task, move no item.
LEMMA SampleStep ==
    ASSUME Good, NEW t \in Turns,
           \/ sample_answer(t) \/ sample_follow_up(t) \/ sample_error(t)
           \/ has_pending_input(t) \/ run_end(t)
    PROVE  Kept'
<1>1. {"check", "drain", "end", "finish"} \subseteq Pcs \ {"settle"}
  BY DEF Pcs, RunPcs, FinishPcs
<1>2. (\E pc \in {"check", "drain", "end", "finish"} : Goto(t, pc)) \/ Return(t)
  BY DEF sample_answer, sample_follow_up, sample_error, has_pending_input, run_end
<1>3. /\ pending' = pending /\ active' = active
      /\ mailbox' = mailbox /\ recorded' = recorded /\ unused' = unused
  BY DEF sample_answer, sample_follow_up, sample_error, has_pending_input, run_end
<1>4. t \in Procs
  BY ProcFacts
<1> QED BY <1>1, <1>2, <1>3, <1>4, GotoStep, ReturnStep

\* on_task_finished takes the task out, and later clears the turn.
LEMMA FinishStep ==
    ASSUME Good, NEW t \in Turns, finish_take(t) \/ finish_clear(t)
    PROVE  Kept'
<1>0. t \in Procs /\ frame[t] \in FrameState /\ frame[t].input \cap frame[t].held = {}
  BY ProcFacts DEF Good, Kept, FrameGood, GoodState
<1>1. /\ pending' = pending
      /\ mailbox' = mailbox /\ recorded' = recorded /\ unused' = unused
  BY DEF finish_take, finish_clear
<1>2. CASE finish_take(t) /\ active.task # None
  <2> DEFINE k == [frame[t] EXCEPT !.pc = "settle", !.st = active.st]
  <2>1. active.st \in States /\ "settle" \in Pcs /\ active'.st = active.st
    BY <1>2 DEF Good, TypeOK, Pcs, FinishPcs, finish_take
  <2>2. GoodState(k) /\ k.st = active.st /\ k.input = frame[t].input /\ k.held = frame[t].held
    BY <1>0, <2>1, ProcFacts DEF FrameState, GoodState
  <2>3. Becomes(t, k)
    BY <1>0, <1>2 DEF finish_take, Becomes, Good, Kept, FrameGood
  <2> HIDE DEF k
  <2>4. PendingShrinks
    BY <1>0, <1>1, <2>1, <2>2, <2>3, SameShrinks
  <2> QED BY <1>0, <1>1, <2>2, <2>3, <2>4, QuietStep DEF Good
<1>3. CASE finish_clear(t) /\ IsReserved(t)
  <2> DEFINE k == [frame[t] EXCEPT !.pc = "check_mail", !.st = None]
  <2>1. "check_mail" \in Pcs /\ "check_mail" # "settle" /\ active'.st = None
    BY <1>3 DEF Pcs, WakePcs, finish_clear, NoActiveTurn
  <2>2. GoodState(k) /\ k.st = None /\ k.input = frame[t].input /\ k.held = frame[t].held
    BY <1>0, <2>1 DEF FrameState, GoodState
  <2>3. Becomes(t, k)
    BY <1>0, <1>3 DEF finish_clear, Becomes, Good, Kept, FrameGood
  <2> HIDE DEF k
  <2>4. PendingShrinks
    BY <1>0, <1>1, <2>1, <2>2, <2>3, SameShrinks
  <2> QED BY <1>0, <1>1, <2>2, <2>3, <2>4, QuietStep DEF Good
<1>4. CASE (finish_take(t) /\ active.task = None) \/ (finish_clear(t) /\ ~ IsReserved(t))
  <2>1. Return(t) /\ active' = active
    BY <1>4 DEF finish_take, finish_clear
  <2> QED BY <1>0, <1>1, <2>1, ReturnStep
<1> QED BY <1>2, <1>3, <1>4

-----------------------------------------------------------------------------
(* The steps that move items.                                              *)

\* The item is pending in these turn states and carried by these processes at most.
Only(i, S, P) ==
  /\ \A s : PendingAt(i, s) => s \in S
  /\ \A p : CarriedBy(i, p) => p \in P

\* An item that has arrived is nowhere else.
LEMMA LandedApart ==
    ASSUME NEW i, NEW x,
           \/ Only(i, {x}, {})' /\ i \notin mailbox' \cup recorded' \cup unused'
           \/ Only(i, {}, {x})' /\ i \notin mailbox' \cup recorded' \cup unused'
           \/ Only(i, {}, {})' /\ i \notin recorded' \cup unused'
           \/ Only(i, {}, {})' /\ i \notin mailbox' \cup unused'
           \/ Only(i, {}, {})' /\ i \notin mailbox' \cup recorded'
    PROVE  Apart(i)'
BY DEF Only, Apart

\* get_pending_input takes the pending input into the hands of the process.
LEMMA TakePendingStep ==
    ASSUME Good, NEW p \in Procs, NEW mailPc \in Pcs \ {"settle"}, NEW otherPc \in Pcs \ {"settle"},
           TakePending(p, mailPc, otherPc)
    PROVE  Kept'
<1>0. frame[p] \in FrameState /\ frame[p].input \cap frame[p].held = {}
  BY DEF Good, Kept, FrameGood, GoodState
<1>1. active' = active /\ mailbox' = mailbox /\ recorded' = recorded /\ unused' = unused
  BY DEF TakePending
<1>2. CASE ~ (IsSome /\ Accepts)
  <2>1. pending' = pending /\ (Goto(p, mailPc) \/ Goto(p, otherPc))
    BY <1>2 DEF TakePending
  <2> QED BY <1>1, <2>1, GotoStep
<1>3. CASE IsSome /\ Accepts
  <2>0. PICK u : u = active.st
    OBVIOUS
  <2> DEFINE k == [frame[p] EXCEPT !.pc = mailPc, !.held = pending[u]]
  <2>1. u \in States /\ u \in LiveStates
    BY <1>3, <2>0 DEF Good, TypeOK, IsSome, LiveStates, Held
  <2>2. pending[u] \subseteq Items
    BY <2>1 DEF Good, TypeOK
  <2>3. ASSUME NEW i \in Items, i \in pending[u]
        PROVE  Apart(i) /\ PendingAt(i, u) /\ \A x : ~ CarriedBy(i, x)
    BY <2>1, <2>3 DEF Good, Kept, Apart, PendingAt
  <2>4. frame[p].input \cap pending[u] = {}
    BY <2>2, <2>3 DEF CarriedBy
  <2>5. GoodState(k) /\ k.st = frame[p].st /\ k.input = frame[p].input /\ k.held = pending[u]
    BY <1>0, <2>2, <2>4 DEF FrameState, GoodState
  <2>6. Becomes(p, k) /\ pending' = [pending EXCEPT ![u] = {}]
    BY <1>3, <2>0 DEF TakePending, Becomes, Good, Kept, FrameGood
  <2> HIDE DEF k
  <2>7. PendingShrinks /\ \A i : ~ PendingAt(i, u)'
    BY <1>1, <2>5, <2>6, EmptiedShrinks DEF Good
  <2>8. ASSUME NEW i \in Items
        PROVE  Apart(i)'
    <3>0. \A s : PendingAt(i, s)' => PendingAt(i, s)
      BY <2>7 DEF PendingShrinks, PendingAt
    <3>1. /\ \A s : PendingAt(i, s)' => PendingAt(i, s) /\ s # u
          /\ \A q : CarriedBy(i, q)' =>
               CarriedBy(i, q) \/ (q = p /\ i \in pending[u])
      BY <2>5, <2>6, <2>7, <3>0, BecomesPlaces DEF CarriedBy
    <3>2. CASE i \in pending[u]
      <4>1. Only(i, {}, {p})' /\ i \notin mailbox' \cup recorded' \cup unused'
        BY <1>1, <2>3, <3>1, <3>2 DEF Only, Apart
      <4> QED BY <4>1, LandedApart
    <3>3. CASE i \notin pending[u]
      <4>1. Stays(i)
        BY <1>1, <3>1, <3>3 DEF Stays
      <4> QED BY <4>1, StaysApart DEF Good, Kept
    <3> QED BY <3>2, <3>3
  <2>9. FrameGood'
    BY <2>5, <2>6, BecomesGood DEF Good, Kept
  <2> QED BY <2>8, <2>9 DEF Kept
<1> QED BY <1>2, <1>3

\* start_task takes the mail too.
LEMMA StartMailStep ==
    ASSUME Good, NEW p \in Procs, start_mail(p)
    PROVE  Kept'
<1> DEFINE k == [frame[p] EXCEPT !.pc = "start_reserve", !.held = frame[p].held \cup mailbox]
<1>0. frame[p] \in FrameState /\ frame[p].input \cap frame[p].held = {}
  BY DEF Good, Kept, FrameGood, GoodState
<1>1. /\ pending' = pending /\ active' = active
      /\ mailbox' = {} /\ recorded' = recorded /\ unused' = unused
  BY DEF start_mail
<1>2. mailbox \subseteq Items /\ "start_reserve" \in Pcs /\ "start_reserve" # "settle"
  BY DEF Good, TypeOK, Items, Pcs, StartPcs
<1>3. frame[p].input \cap mailbox = {}
  BY <1>2 DEF Good, Kept, Apart, CarriedBy
<1>4. /\ GoodState(k) /\ k.st = frame[p].st /\ k.input = frame[p].input
      /\ k.held = frame[p].held \cup mailbox
  BY <1>0, <1>2, <1>3 DEF FrameState, GoodState
<1>5. Becomes(p, k)
  BY DEF start_mail, Becomes, Good, Kept, FrameGood
<1> HIDE DEF k
<1>6. PendingShrinks
  BY <1>1, <1>4, <1>5, SameShrinks
<1>7. ASSUME NEW i \in Items
      PROVE  Apart(i)'
  <2>1. /\ \A s : PendingAt(i, s)' => PendingAt(i, s)
        /\ \A q : CarriedBy(i, q)' => CarriedBy(i, q) \/ (q = p /\ i \in mailbox)
    BY <1>4, <1>5, <1>6, BecomesPlaces DEF PendingShrinks, PendingAt, CarriedBy
  <2>2. Apart(i)
    BY DEF Good, Kept
  <2>3. CASE i \in mailbox
    <3>1. Only(i, {}, {p})' /\ i \notin mailbox' \cup recorded' \cup unused'
      BY <1>1, <2>1, <2>2, <2>3 DEF Only, Apart
    <3> QED BY <3>1, LandedApart
  <2>4. CASE i \notin mailbox
    <3>1. Stays(i)
      BY <1>1, <2>1, <2>4 DEF Stays
    <3> QED BY <2>2, <3>1, StaysApart
  <2> QED BY <2>3, <2>4
<1>8. FrameGood'
  BY <1>4, <1>5, BecomesGood DEF Good, Kept
<1> QED BY <1>7, <1>8 DEF Kept

\* What was drained joins the pending input of the turn.
LEMMA StartExtendStep ==
    ASSUME Good, NEW p \in Procs, start_extend(p)
    PROVE  Kept'
<1> DEFINE k == [frame[p] EXCEPT !.pc = "start_install", !.held = {}, !.st = None]
<1>u. PICK u : u = frame[p].st
  OBVIOUS
<1>0. frame[p] \in FrameState /\ frame[p].input \cap frame[p].held = {}
  BY DEF Good, Kept, FrameGood, GoodState
<1>1. /\ pending' = [pending EXCEPT ![u] = @ \cup frame[p].held] /\ active' = active
      /\ mailbox' = mailbox /\ recorded' = recorded /\ unused' = unused
  BY <1>u DEF start_extend
<1>2. "start_install" \in Pcs /\ "start_install" # "settle"
  BY DEF Pcs, StartPcs
<1>3. GoodState(k) /\ k.st = None /\ k.input = frame[p].input /\ k.held = {}
  BY <1>0, <1>2 DEF FrameState, GoodState
<1>4. Becomes(p, k)
  BY DEF start_extend, Becomes, Good, Kept, FrameGood
<1> HIDE DEF k
<1>5. LiveStates' \subseteq LiveStates /\ LiveStates \subseteq States
  <2>1. \A s \in LiveStates' : s # None /\ (s \in LiveStates \/ s = active.st)
    BY <1>1, <1>3, <1>4, BecomesPlaces
  <2> QED BY <2>1 DEF LiveStates, Held, Good, TypeOK
<1>6. ASSUME NEW i \in Items
      PROVE  Apart(i)'
  <2>1. \A s : PendingAt(i, s)' => PendingAt(i, s) \/ (s = u /\ i \in frame[p].held)
    BY <1>1, <1>5 DEF PendingAt, Good, TypeOK
  <2>2. \A q : CarriedBy(i, q)' => CarriedBy(i, q) /\ (q = p => i \notin frame[p].held)
    BY <1>0, <1>3, <1>4, BecomesPlaces DEF CarriedBy
  <2>3. Apart(i)
    BY DEF Good, Kept
  <2>4. CASE i \in frame[p].held
    <3>1. CarriedBy(i, p)
      BY <2>4 DEF CarriedBy
    <3>2. \A s : PendingAt(i, s)' => s = u
      BY <2>1, <2>3, <3>1 DEF Apart
    <3>3. \A q : ~ CarriedBy(i, q)'
      BY <2>2, <2>3, <2>4, <3>1 DEF Apart
    <3>4. Only(i, {u}, {})' /\ i \notin mailbox' \cup recorded' \cup unused'
      BY <1>1, <2>3, <3>1, <3>2, <3>3 DEF Only, Apart
    <3> QED BY <3>4, LandedApart
  <2>5. CASE i \notin frame[p].held
    <3>1. Stays(i)
      BY <1>1, <2>1, <2>2, <2>5 DEF Stays
    <3> QED BY <2>3, <3>1, StaysApart
  <2> QED BY <2>4, <2>5
<1>7. FrameGood'
  BY <1>3, <1>4, BecomesGood DEF Good, Kept
<1> QED BY <1>6, <1>7 DEF Kept

\* The task is installed: it takes over the input it was started with.
LEMMA StartInstallStep ==
    ASSUME Good, NEW p \in Procs, start_install(p)
    PROVE  Kept'
<1>t. PICK t : t = Min(FreshTurns)
  OBVIOUS
<1>n. PICK n : n = [Blank EXCEPT !.pc = "begin", !.input = frame[p].input]
  OBVIOUS
<1>0. frame[p] \in FrameState /\ frame[p].input \cap frame[p].held = {}
  BY DEF Good, Kept, FrameGood, GoodState
<1>1. t \in Turns /\ t \in Procs /\ t # p
  BY <1>t, PickFacts, ProcFacts DEF start_install, FreshTurns, At
<1>2. "begin" \in Pcs /\ "begin" # "settle" /\ frame[p].input \in SUBSET Items
  BY <1>0 DEF Pcs, RunPcs, FrameState
<1>3. GoodState(n) /\ n.st = None /\ n.input = frame[p].input /\ n.held = {}
  BY <1>n, <1>2, PcFacts DEF Blank, FrameState, GoodState
<1>4. GoodState(Stopped) /\ Stopped.st = None /\ Stopped.input = {} /\ Stopped.held = {}
  BY PcFacts DEF GoodState, Stopped, Blank
<1>5. GoodState(Rest(p))
  BY PcFacts DEF GoodState
<1>6. /\ DOMAIN frame' = Procs
      /\ frame'[t] = n
      /\ frame'[p] = Rest(p)
      /\ \A q \in Procs \ {t, p} : frame'[q] = Stopped \/ frame'[q] = frame[q]
  <2>1. frame' = [q \in Procs |->
                    CASE q = t -> n
                      [] q = p -> Rest(p)
                      [] q = active.task /\ q \notin {p, t} -> Stopped
                      [] OTHER -> frame[q]]
    BY <1>t, <1>n DEF start_install
  <2> QED BY <1>1, <2>1
<1>7. mailbox' = mailbox /\ recorded' = recorded /\ unused' = unused
  BY DEF start_install
<1>8. FrameGood'
  BY <1>3, <1>4, <1>5, <1>6 DEF Good, Kept, FrameGood
<1>9. \A s \in LiveStates' : s # None /\ (s \in LiveStates \/ s = active'.st)
  <2>1. \A q \in Procs : frame'[q].st = None \/ frame'[q].st = frame[q].st
    BY <1>3, <1>4, <1>6, PcFacts
  <2> QED BY <2>1 DEF LiveStates, Held
<1>10. PendingShrinks
  <2>1. LiveStates \subseteq States
    BY DEF LiveStates, Held, Good, TypeOK
  <2>2. CASE IsSome
    <3>1. pending' = pending /\ active'.st = active.st
      BY <2>2 DEF start_install, Good, TypeOK
    <3>2. \A s \in LiveStates' : s \in LiveStates
      BY <1>9, <3>1 DEF LiveStates, Held
    <3> QED BY <3>1, <3>2 DEF PendingShrinks
  <2>3. CASE ~ IsSome
    <3>1. /\ FreeStates # {} /\ pending' = [pending EXCEPT ![Min(FreeStates)] = {}]
          /\ active'.st = Min(FreeStates)
      BY <2>3 DEF start_install
    <3>2. Min(FreeStates) \in States \ LiveStates
      BY <3>1, PickFacts DEF FreeStates, LiveStates
    <3> QED BY <1>9, <2>1, <3>1, <3>2 DEF PendingShrinks, Good, TypeOK
  <2> QED BY <2>2, <2>3
<1>11. ASSUME NEW i \in Items
       PROVE  Apart(i)'
  <2>1. \A s : PendingAt(i, s)' => PendingAt(i, s)
    BY <1>10 DEF PendingShrinks, PendingAt
  <2>2. \A q : CarriedBy(i, q)' =>
          (CarriedBy(i, q) /\ q # p) \/ (q = t /\ i \in frame[p].input)
    BY <1>3, <1>4, <1>6, PcFacts DEF CarriedBy
  <2>3. Apart(i)
    BY DEF Good, Kept
  <2>4. CASE i \in frame[p].input
    <3>1. CarriedBy(i, p)
      BY <2>4 DEF CarriedBy
    <3>2. \A s : ~ PendingAt(i, s)'
      BY <2>1, <2>3, <3>1 DEF Apart
    <3>3. \A q : CarriedBy(i, q)' => q = t
      BY <2>2, <2>3, <3>1 DEF Apart
    <3>4. Only(i, {}, {t})' /\ i \notin mailbox' \cup recorded' \cup unused'
      BY <1>7, <2>3, <3>1, <3>2, <3>3 DEF Only, Apart
    <3> QED BY <3>4, LandedApart
  <2>5. CASE i \notin frame[p].input
    <3>1. Stays(i)
      BY <1>7, <2>1, <2>2, <2>5 DEF Stays
    <3> QED BY <2>3, <3>1, StaysApart
  <2> QED BY <2>4, <2>5
<1> QED BY <1>8, <1>11 DEF Kept

\* Idle work that found the session idle joins the turn it reserved.
LEMMA TryExtendStep ==
    ASSUME Good, try_extend
    PROVE  Kept'
<1>p. PICK p : p = Extension
  OBVIOUS
<1>u. PICK u : u = frame[p].st
  OBVIOUS
<1> DEFINE k == [Blank EXCEPT !.pc = "start"]
<1>0. p \in Procs
  BY <1>p, ProcFacts
<1>1. /\ pending' = [pending EXCEPT ![u] = @ \cup frame[p].input] /\ active' = active
      /\ mailbox' = mailbox /\ recorded' = recorded /\ unused' = unused
  BY <1>p, <1>u DEF try_extend
<1>2. "start" \in Pcs /\ "start" # "settle"
  BY DEF Pcs, StartPcs
<1>3. GoodState(k) /\ k.st = None /\ k.input = {} /\ k.held = {}
  BY <1>2, PcFacts DEF Blank, FrameState, GoodState
<1>4. Becomes(p, k)
  BY <1>p, <1>0 DEF try_extend, Becomes, Good, Kept, FrameGood
<1> HIDE DEF k
<1>5. LiveStates' \subseteq LiveStates /\ LiveStates \subseteq States
  <2>1. \A s \in LiveStates' : s # None /\ (s \in LiveStates \/ s = active.st)
    BY <1>0, <1>1, <1>3, <1>4, BecomesPlaces
  <2> QED BY <2>1 DEF LiveStates, Held, Good, TypeOK
<1>6. ASSUME NEW i \in Items
      PROVE  Apart(i)'
  <2>1. \A s : PendingAt(i, s)' => PendingAt(i, s) \/ (s = u /\ i \in frame[p].input)
    BY <1>1, <1>5 DEF PendingAt, Good, TypeOK
  <2>2. \A q : CarriedBy(i, q)' => CarriedBy(i, q) /\ q # p
    BY <1>0, <1>3, <1>4, BecomesPlaces
  <2>3. Apart(i)
    BY DEF Good, Kept
  <2>4. CASE i \in frame[p].input
    <3>1. CarriedBy(i, p)
      BY <1>0, <2>4 DEF CarriedBy
    <3>2. \A s : PendingAt(i, s)' => s = u
      BY <2>1, <2>3, <3>1 DEF Apart
    <3>3. \A q : ~ CarriedBy(i, q)'
      BY <2>2, <2>3, <3>1 DEF Apart
    <3>4. Only(i, {u}, {})' /\ i \notin mailbox' \cup recorded' \cup unused'
      BY <1>1, <2>3, <3>1, <3>2, <3>3 DEF Only, Apart
    <3> QED BY <3>4, LandedApart
  <2>5. CASE i \notin frame[p].input
    <3>1. Stays(i)
      BY <1>1, <2>1, <2>2, <2>5 DEF Stays
    <3> QED BY <2>3, <3>1, StaysApart
  <2> QED BY <2>4, <2>5
<1>7. FrameGood'
  BY <1>0, <1>3, <1>4, BecomesGood DEF Good, Kept
<1> QED BY <1>6, <1>7 DEF Kept

\* Input that joins the active turn leaves its caller.
LEMMA AppendStep ==
    ASSUME Good, NEW j \in Items, j \in unused, unused' = unused \ {j},
           pending' = [pending EXCEPT ![active.st] = @ \cup {j}],
           active' = active, frame' = frame, mailbox' = mailbox, recorded' = recorded
    PROVE  Kept'
<1>u. PICK u : u = active.st
  OBVIOUS
<1>1. LiveStates' = LiveStates /\ LiveStates \subseteq States
  BY DEF LiveStates, Held, Good, TypeOK
<1>2. FrameGood'
  BY DEF Good, Kept, FrameGood
<1>3. ASSUME NEW i \in Items
      PROVE  Apart(i)'
  <2>1. \A s : PendingAt(i, s)' => PendingAt(i, s) \/ (s = u /\ i = j)
    BY <1>u, <1>1 DEF PendingAt, Good, TypeOK
  <2>2. \A q : CarriedBy(i, q)' => CarriedBy(i, q)
    BY DEF CarriedBy
  <2>3. Apart(i)
    BY DEF Good, Kept
  <2>4. CASE i = j
    <3>1. Only(i, {u}, {})' /\ i \notin mailbox' \cup recorded' \cup unused'
      BY <2>1, <2>2, <2>3, <2>4 DEF Only, Apart
    <3> QED BY <3>1, LandedApart
  <2>5. CASE i # j
    <3>1. Stays(i)
      BY <2>1, <2>2, <2>5 DEF Stays
    <3> QED BY <2>3, <3>1, StaysApart
  <2> QED BY <2>4, <2>5
<1> QED BY <1>2, <1>3 DEF Kept

\* Input that a process starts a turn with leaves its caller.
LEMMA PickUpStep ==
    ASSUME Good, NEW p \in Procs, NEW j \in Items, j \in unused, unused' = unused \ {j},
           NEW pc \in Pcs \ {"settle"},
           frame' = [frame EXCEPT ![p].pc = pc, ![p].input = {j}],
           active' = active, pending' = pending, mailbox' = mailbox, recorded' = recorded
    PROVE  Kept'
<1> DEFINE k == [frame[p] EXCEPT !.pc = pc, !.input = {j}]
<1>0. frame[p] \in FrameState /\ frame[p].input \cap frame[p].held = {}
  BY DEF Good, Kept, FrameGood, GoodState
<1>1. j \notin frame[p].held
  BY DEF Good, Kept, Apart, CarriedBy
<1>2. GoodState(k) /\ k.st = frame[p].st /\ k.input = {j} /\ k.held = frame[p].held
  BY <1>0, <1>1 DEF FrameState, GoodState
<1>3. Becomes(p, k)
  BY DEF Becomes, Good, Kept, FrameGood
<1> HIDE DEF k
<1>4. PendingShrinks
  BY <1>2, <1>3, SameShrinks
<1>5. ASSUME NEW i \in Items
      PROVE  Apart(i)'
  <2>1. \A s : PendingAt(i, s)' => PendingAt(i, s)
    BY <1>4 DEF PendingShrinks, PendingAt
  <2>2. \A q : CarriedBy(i, q)' => CarriedBy(i, q) \/ (q = p /\ i = j)
    BY <1>2, <1>3, BecomesPlaces DEF CarriedBy
  <2>3. Apart(i)
    BY DEF Good, Kept
  <2>4. CASE i = j
    <3>1. Only(i, {}, {p})' /\ i \notin mailbox' \cup recorded' \cup unused'
      BY <2>1, <2>2, <2>3, <2>4 DEF Only, Apart
    <3> QED BY <3>1, LandedApart
  <2>5. CASE i # j
    <3>1. Stays(i)
      BY <2>1, <2>2, <2>5 DEF Stays
    <3> QED BY <2>3, <3>1, StaysApart
  <2> QED BY <2>4, <2>5
<1>6. FrameGood'
  BY <1>2, <1>3, BecomesGood DEF Good, Kept
<1> QED BY <1>5, <1>6 DEF Kept

\* Mail is delivered.
LEMMA MailStep ==
    ASSUME Good, NEW m \in Mails, inter_agent_communication(m)
    PROVE  Kept'
<1>0. SubmissionLoop \in Procs /\ m \in Items
  BY ProcFacts DEF Items
<1>1. /\ m \in unused /\ unused' = unused \ {m} /\ mailbox' = mailbox \cup {m}
      /\ pending' = pending /\ active' = active /\ recorded' = recorded
  BY DEF inter_agent_communication
<1>2. PICK k : /\ Becomes(SubmissionLoop, k) /\ GoodState(k) /\ k.st = frame[SubmissionLoop].st
               /\ k.input = frame[SubmissionLoop].input /\ k.held = frame[SubmissionLoop].held
  <2>1. CASE frame' = frame
    BY <1>0, <2>1, SameBecomes DEF Good, Kept
  <2>2. CASE Goto(SubmissionLoop, "check_mail")
    <3> DEFINE k == [frame[SubmissionLoop] EXCEPT !.pc = "check_mail"]
    <3>1. "check_mail" \in Pcs \ {"settle"}
      BY DEF Pcs, WakePcs
    <3>2. Becomes(SubmissionLoop, k) /\ GoodState(k)
      BY <1>0, <2>2, <3>1, GotoBecomes DEF Good, Kept
    <3>3. /\ k.st = frame[SubmissionLoop].st /\ k.input = frame[SubmissionLoop].input
          /\ k.held = frame[SubmissionLoop].held
      BY <1>0 DEF Good, Kept, FrameGood, GoodState, FrameState
    <3> HIDE DEF k
    <3> QED BY <3>2, <3>3
  <2> QED BY <2>1, <2>2 DEF inter_agent_communication
<1>3. PendingShrinks
  BY <1>0, <1>1, <1>2, SameShrinks
<1>4. ASSUME NEW i \in Items
      PROVE  Apart(i)'
  <2>1. \A s : PendingAt(i, s)' => PendingAt(i, s)
    BY <1>3 DEF PendingShrinks, PendingAt
  <2>2. \A q : CarriedBy(i, q)' => CarriedBy(i, q)
    BY <1>0, <1>2, BecomesPlaces DEF CarriedBy
  <2>3. Apart(i)
    BY DEF Good, Kept
  <2>4. CASE i = m
    <3>1. Only(i, {}, {})' /\ i \notin recorded' \cup unused'
      BY <1>1, <2>1, <2>2, <2>3, <2>4 DEF Only, Apart
    <3> QED BY <3>1, LandedApart
  <2>5. CASE i # m
    <3>1. Stays(i)
      BY <1>1, <2>1, <2>2, <2>5 DEF Stays
    <3> QED BY <2>3, <3>1, StaysApart
  <2> QED BY <2>4, <2>5
<1>5. FrameGood'
  BY <1>0, <1>2, BecomesGood DEF Good, Kept
<1> QED BY <1>4, <1>5 DEF Kept

\* Calls of users and clients.
LEMMA CallStep ==
    ASSUME Good,
           \/ \E i \in UserInputs : user_input(i)
           \/ \E i \in Steers : steer_input(i)
           \/ \E i \in Injections : inject_no_new_turn(i)
           \/ \E i \in IdleCalls : try_start_turn_if_idle(i)
    PROVE  Kept'
<1>1. ASSUME NEW i \in UserInputs, user_input(i)
      PROVE  Kept'
  <2>1. i \in Items /\ SubmissionLoop \in Procs /\ "abort" \in Pcs \ {"settle"}
    BY ProcFacts DEF Items, Pcs, AbortPcs
  <2>2. /\ i \in unused /\ unused' = unused \ {i} /\ active' = active
        /\ mailbox' = mailbox /\ recorded' = recorded
    BY <1>1 DEF user_input
  <2>3. CASE active.task # None
    <3>1. pending' = [pending EXCEPT ![active.st] = @ \cup {i}] /\ frame' = frame
      BY <1>1, <2>3 DEF user_input, AppendToActive
    <3> QED BY <2>1, <2>2, <3>1, AppendStep
  <2>4. CASE active.task = None
    <3>1. /\ frame' = [frame EXCEPT ![SubmissionLoop].pc = "abort", ![SubmissionLoop].input = {i}]
          /\ pending' = pending
      BY <1>1, <2>4 DEF user_input
    <3> QED BY <2>1, <2>2, <3>1, PickUpStep
  <2> QED BY <2>3, <2>4
<1>2. ASSUME NEW i \in Steers, steer_input(i)
      PROVE  Kept'
  <2>1. /\ i \in Items /\ i \in unused /\ unused' = unused \ {i} /\ active' = active
        /\ pending' = [pending EXCEPT ![active.st] = @ \cup {i}] /\ frame' = frame
        /\ mailbox' = mailbox /\ recorded' = recorded
    BY <1>2 DEF steer_input, AppendToActive, Items
  <2> QED BY <2>1, AppendStep
<1>3. ASSUME NEW i \in IdleCalls, try_start_turn_if_idle(i)
      PROVE  Kept'
  <2>1. i \in Items /\ Extension \in Procs /\ "try_reserve" \in Pcs \ {"settle"}
    BY ProcFacts DEF Items, Pcs, TryPcs
  <2>2. /\ i \in unused /\ unused' = unused \ {i} /\ active' = active
        /\ frame' = [frame EXCEPT ![Extension].pc = "try_reserve", ![Extension].input = {i}]
        /\ pending' = pending /\ mailbox' = mailbox /\ recorded' = recorded
    BY <1>3 DEF try_start_turn_if_idle
  <2> QED BY <2>1, <2>2, PickUpStep
<1>4. ASSUME NEW j \in Injections, inject_no_new_turn(j)
      PROVE  Kept'
  <2>1. /\ j \in Items /\ j \in unused /\ unused' = unused \ {j} /\ active' = active
        /\ frame' = frame /\ mailbox' = mailbox
    BY <1>4 DEF inject_no_new_turn, Items
  <2>2. CASE IsSome
    <3>1. pending' = [pending EXCEPT ![active.st] = @ \cup {j}] /\ recorded' = recorded
      BY <1>4, <2>2 DEF inject_no_new_turn, inject_if_running, AppendToActive
    <3> QED BY <2>1, <3>1, AppendStep
  <2>3. CASE ~ IsSome
    <3>1. pending' = pending /\ recorded' = recorded \cup {j}
      BY <1>4, <2>3 DEF inject_no_new_turn, inject_if_running
    <3>2. FrameGood'
      BY <2>1 DEF Good, Kept, FrameGood
    <3>3. ASSUME NEW i \in Items
          PROVE  Apart(i)'
      <4>1. \A s : PendingAt(i, s)' => PendingAt(i, s)
        BY <2>1, <3>1 DEF PendingAt, LiveStates, Held
      <4>2. \A q : CarriedBy(i, q)' => CarriedBy(i, q)
        BY <2>1 DEF CarriedBy
      <4>3. Apart(i)
        BY DEF Good, Kept
      <4>4. CASE i = j
        <5>1. Only(i, {}, {})' /\ i \notin mailbox' \cup unused'
          BY <2>1, <3>1, <4>1, <4>2, <4>3, <4>4 DEF Only, Apart
        <5> QED BY <5>1, LandedApart
      <4>5. CASE i # j
        <5>1. Stays(i)
          BY <2>1, <3>1, <4>1, <4>2, <4>5 DEF Stays
        <5> QED BY <4>3, <5>1, StaysApart
      <4> QED BY <4>4, <4>5
    <3> QED BY <3>2, <3>3 DEF Kept
  <2> QED BY <2>2, <2>3
<1> QED BY <1>1, <1>2, <1>3, <1>4

\* Refused input goes back to its caller.
LEMMA RejectStep ==
    ASSUME Good, Reject, NEW k, Becomes(Extension, k), GoodState(k),
           k.st = None, k.input = {}, k.held = {}, active'.st \in {active.st, None},
           pending' = pending, mailbox' = mailbox, recorded' = recorded
    PROVE  Kept'
<1>p. PICK p : p = Extension
  OBVIOUS
<1>0. p \in Procs
  BY <1>p, ProcFacts
<1>1. PendingShrinks
  BY <1>p, <1>0, SameShrinks
<1>2. unused' = unused \cup frame[p].input
  BY <1>p DEF Reject
<1>3. ASSUME NEW i \in Items
      PROVE  Apart(i)'
  <2>1. \A s : PendingAt(i, s)' => PendingAt(i, s)
    BY <1>1 DEF PendingShrinks, PendingAt
  <2>2. \A q : CarriedBy(i, q)' => CarriedBy(i, q) /\ q # p
    BY <1>p, <1>0, BecomesPlaces
  <2>3. Apart(i)
    BY DEF Good, Kept
  <2>4. CASE i \in frame[p].input
    <3>1. CarriedBy(i, p)
      BY <1>0, <2>4 DEF CarriedBy
    <3>2. \A q : ~ CarriedBy(i, q)' /\ ~ PendingAt(i, q)'
      BY <2>1, <2>2, <2>3, <3>1 DEF Apart
    <3>3. Only(i, {}, {})' /\ i \notin mailbox' \cup recorded'
      BY <2>3, <3>1, <3>2 DEF Only, Apart
    <3> QED BY <3>3, LandedApart
  <2>5. CASE i \notin frame[p].input
    <3>1. Stays(i)
      BY <1>2, <2>1, <2>2, <2>5 DEF Stays
    <3> QED BY <2>3, <3>1, StaysApart
  <2> QED BY <2>4, <2>5
<1>4. FrameGood'
  BY <1>p, <1>0, BecomesGood DEF Good, Kept
<1> QED BY <1>3, <1>4 DEF Kept

\* try_start_turn_if_idle reserves, checks again, and goes on or gives up.
LEMMA IdleStartStep ==
    ASSUME Good, IdleStart
    PROVE  Kept'
<1>0. /\ Extension \in Procs /\ frame[Extension] \in FrameState
      /\ frame[Extension].input \cap frame[Extension].held = {}
  BY ProcFacts DEF Good, Kept, FrameGood, GoodState
<1>1. GoodState(Rest(Extension))
  BY PcFacts DEF GoodState
<1>2. CASE try_reserve
  <2>1. mailbox' = mailbox /\ recorded' = recorded
    BY <1>2 DEF try_reserve
  <2>2. CASE IsSome
    <3>1. Reject /\ Return(Extension) /\ pending' = pending /\ active' = active
      BY <1>2, <2>2 DEF try_reserve
    <3>2. Becomes(Extension, Rest(Extension))
      BY <1>0, <3>1, ReturnBecomes DEF Good, Kept
    <3> QED BY <1>1, <2>1, <3>1, <3>2, PcFacts, RejectStep
  <2>3. CASE ~ IsSome
    <3> DEFINE k == [frame[Extension] EXCEPT !.pc = "try_recheck", !.st = Min(FreeStates)]
    <3>0. FreeStates # {}
      BY <1>2, <2>3 DEF try_reserve
    <3>1. Min(FreeStates) \in States \cup {None} /\ "try_recheck" \in Pcs
      BY <3>0, PickFacts DEF FreeStates, Pcs, TryPcs
    <3>2. /\ GoodState(k) /\ k.st = Min(FreeStates)
          /\ k.input = frame[Extension].input /\ k.held = frame[Extension].held
      BY <1>0, <3>1 DEF FrameState, GoodState
    <3>3. Becomes(Extension, k)
      BY <1>0, <1>2, <2>3 DEF try_reserve, Becomes, Good, Kept, FrameGood
    <3>4. /\ pending' = [pending EXCEPT ![Min(FreeStates)] = {}] /\ active'.st = Min(FreeStates)
          /\ unused' = unused
      BY <1>2, <2>3 DEF try_reserve, SetDefault
    <3> HIDE DEF k
    <3>5. PendingShrinks
      BY <1>0, <3>0, <3>2, <3>3, <3>4, DefaultShrinks DEF Good
    <3> QED BY <1>0, <2>1, <3>2, <3>3, <3>4, <3>5, QuietStep DEF Good
  <2> QED BY <2>2, <2>3
<1>3. CASE try_recheck
  <2>1. {"try_clear", "try_still"} \subseteq Pcs \ {"settle"}
    BY DEF Pcs, TryPcs
  <2>2. \E pc \in {"try_clear", "try_still"} : Goto(Extension, pc)
    BY <1>3 DEF try_recheck
  <2>3. /\ pending' = pending /\ active' = active
        /\ mailbox' = mailbox /\ recorded' = recorded /\ unused' = unused
    BY <1>3 DEF try_recheck
  <2> QED BY <1>0, <2>1, <2>2, <2>3, GotoStep
<1>4. CASE clear_reserved_idle_turn
  <2> DEFINE k == [Blank EXCEPT !.pc = "check_mail"]
  <2>1. "check_mail" \in Pcs /\ "check_mail" # "settle"
    BY DEF Pcs, WakePcs
  <2>2. GoodState(k) /\ k.st = None /\ k.input = {} /\ k.held = {}
    BY <2>1, PcFacts DEF Blank, FrameState, GoodState
  <2>3. Becomes(Extension, k)
    BY <1>0, <1>4 DEF clear_reserved_idle_turn, Becomes, Good, Kept, FrameGood
  <2>4. /\ Reject /\ active'.st \in {active.st, None}
        /\ pending' = pending /\ mailbox' = mailbox /\ recorded' = recorded
    BY <1>4 DEF clear_reserved_idle_turn, NoActiveTurn
  <2> HIDE DEF k
  <2> QED BY <2>2, <2>3, <2>4, RejectStep
<1>5. CASE try_still_reserved
  <2>1. pending' = pending /\ active' = active /\ mailbox' = mailbox /\ recorded' = recorded
    BY <1>5 DEF try_still_reserved
  <2>2. CASE ~ IsReserved(Extension)
    <3>1. Reject /\ Return(Extension)
      BY <1>5, <2>2 DEF try_still_reserved
    <3>2. Becomes(Extension, Rest(Extension))
      BY <1>0, <3>1, ReturnBecomes DEF Good, Kept
    <3> QED BY <1>1, <2>1, <3>1, <3>2, PcFacts, RejectStep
  <2>3. CASE IsReserved(Extension) /\ frame[Extension].input \subseteq IdleWork
    <3>1. unused' = unused /\ Goto(Extension, "try_extend") /\ "try_extend" \in Pcs \ {"settle"}
      BY <1>5, <2>3 DEF try_still_reserved, Goto, Pcs, TryPcs
    <3> QED BY <1>0, <2>1, <3>1, GotoStep
  <2>4. CASE IsReserved(Extension) /\ ~ (frame[Extension].input \subseteq IdleWork)
    <3> DEFINE k == [frame[Extension] EXCEPT !.pc = "start", !.st = None]
    <3>1. unused' = unused /\ "start" \in Pcs /\ "start" # "settle"
      BY <1>5, <2>4 DEF try_still_reserved, Pcs, StartPcs
    <3>2. /\ GoodState(k) /\ k.st = None
          /\ k.input = frame[Extension].input /\ k.held = frame[Extension].held
      BY <1>0, <3>1 DEF FrameState, GoodState
    <3>3. Becomes(Extension, k)
      BY <1>0, <1>5, <2>4 DEF try_still_reserved, Becomes, Good, Kept, FrameGood
    <3> HIDE DEF k
    <3>4. PendingShrinks
      BY <1>0, <2>1, <3>2, <3>3, SameShrinks
    <3> QED BY <1>0, <2>1, <3>1, <3>2, <3>3, <3>4, QuietStep DEF Good
  <2> QED BY <2>2, <2>3, <2>4
<1> QED BY <1>2, <1>3, <1>4, <1>5, TryExtendStep DEF IdleStart

\* What a task records was in its hands, or in the mailbox.
LEMMA RecordStep ==
    ASSUME Good, NEW t \in Turns, run_begin(t) \/ run_drain_mail(t)
    PROVE  Kept'
<1>0. t \in Procs /\ frame[t] \in FrameState /\ frame[t].input \cap frame[t].held = {}
  BY ProcFacts DEF Good, Kept, FrameGood, GoodState
<1>1. {"drain", "sample"} \subseteq Pcs \ {"settle"}
  BY DEF Pcs, RunPcs
<1>2. PICK G, k : /\ Becomes(t, k) /\ GoodState(k) /\ k.st = frame[t].st
                  /\ k.input \cup k.held \subseteq (frame[t].input \cup frame[t].held) \ G
                  /\ G \subseteq frame[t].input \cup frame[t].held
                  /\ \/ recorded' = recorded \cup G /\ mailbox' = mailbox
                     \/ recorded' = recorded \cup G \cup mailbox /\ mailbox' = {}
  <2>1. CASE run_begin(t)
    <3>0. PICK pc \in {"drain", "sample"} :
            frame' = [frame EXCEPT ![t].pc = pc, ![t].input = {}]
      BY <2>1 DEF run_begin
    <3> DEFINE k == [frame[t] EXCEPT !.pc = pc, !.input = {}]
    <3>1. Becomes(t, k)
      BY <1>0, <3>0 DEF Becomes, Good, Kept, FrameGood
    <3>2. GoodState(k) /\ k.st = frame[t].st /\ k.input = {} /\ k.held = frame[t].held
      BY <1>0, <1>1 DEF FrameState, GoodState
    <3>3. recorded' = recorded \cup frame[t].input /\ mailbox' = mailbox
      BY <2>1 DEF run_begin
    <3> HIDE DEF k
    <3>4. k.input \cup k.held \subseteq (frame[t].input \cup frame[t].held) \ frame[t].input
      BY <1>0, <3>2
    <3> QED BY <3>1, <3>2, <3>3, <3>4
  <2>2. CASE run_drain_mail(t)
    <3> DEFINE k == [frame[t] EXCEPT !.pc = "sample", !.held = {}]
    <3>1. Becomes(t, k)
      BY <1>0, <2>2 DEF run_drain_mail, Becomes, Good, Kept, FrameGood
    <3>2. GoodState(k) /\ k.st = frame[t].st /\ k.input = frame[t].input /\ k.held = {}
      BY <1>0, <1>1 DEF FrameState, GoodState
    <3>3. recorded' = recorded \cup frame[t].held \cup mailbox /\ mailbox' = {}
      BY <2>2 DEF run_drain_mail
    <3> HIDE DEF k
    <3>4. k.input \cup k.held \subseteq (frame[t].input \cup frame[t].held) \ frame[t].held
      BY <1>0, <3>2
    <3> QED BY <3>1, <3>2, <3>3, <3>4
  <2> QED BY <2>1, <2>2
<1>3. pending' = pending /\ active' = active /\ unused' = unused
  BY DEF run_begin, run_drain_mail
<1>4. PendingShrinks
  BY <1>0, <1>2, <1>3, SameShrinks
<1>5. ASSUME NEW i \in Items
      PROVE  Apart(i)'
  <2>1. \A s : PendingAt(i, s)' => PendingAt(i, s)
    BY <1>4 DEF PendingShrinks, PendingAt
  <2>2. \A q : CarriedBy(i, q)' => CarriedBy(i, q) /\ (q = t => i \notin G)
    BY <1>0, <1>2, BecomesPlaces DEF CarriedBy
  <2>3. Apart(i)
    BY DEF Good, Kept
  <2>4. CASE i \in G
    <3>1. CarriedBy(i, t)
      BY <1>0, <1>2, <2>4 DEF CarriedBy
    <3>2. \A q : ~ CarriedBy(i, q)' /\ ~ PendingAt(i, q)'
      BY <2>1, <2>2, <2>3, <2>4, <3>1 DEF Apart
    <3>3. Only(i, {}, {})' /\ i \notin mailbox' \cup unused'
      BY <1>2, <1>3, <2>3, <3>1, <3>2 DEF Only, Apart
    <3> QED BY <3>3, LandedApart
  <2>5. CASE i \notin G /\ i \in mailbox /\ mailbox' = {}
    <3>1. Only(i, {}, {})' /\ i \notin mailbox' \cup unused'
      BY <1>3, <2>1, <2>2, <2>3, <2>5 DEF Only, Apart
    <3> QED BY <3>1, LandedApart
  <2>6. CASE i \notin G /\ ~ (i \in mailbox /\ mailbox' = {})
    <3>1. Stays(i)
      BY <1>2, <1>3, <2>1, <2>2, <2>6 DEF Stays
    <3> QED BY <2>3, <3>1, StaysApart
  <2> QED BY <2>4, <2>5, <2>6
<1>6. FrameGood'
  BY <1>0, <1>2, BecomesGood DEF Good, Kept
<1> QED BY <1>5, <1>6 DEF Kept

\* The input that is left when a task has finished is recorded.
LEMMA SettleStep ==
    ASSUME Good, NEW t \in Turns, finish_settle(t)
    PROVE  Kept'
<1> DEFINE k == [frame[t] EXCEPT !.pc = "clear"]
<1>u. PICK u : u = frame[t].st
  OBVIOUS
<1>0. t \in Procs /\ frame[t] \in FrameState /\ GoodState(frame[t]) /\ At(t, "settle")
  BY ProcFacts DEF Good, Kept, FrameGood, GoodState, finish_settle
<1>1. u \in LiveStates
  BY <1>u, <1>0 DEF GoodState, At, LiveStates, Held
<1>2. Goto(t, "clear") /\ "clear" \in Pcs \ {"settle"}
  BY DEF finish_settle, Pcs, FinishPcs
<1>3. Becomes(t, k) /\ GoodState(k)
  BY <1>0, <1>2, GotoBecomes DEF Good, Kept
<1>4. k.st = frame[t].st /\ k.input = frame[t].input /\ k.held = frame[t].held
  BY <1>0 DEF FrameState
<1>5. /\ pending' = [pending EXCEPT ![u] = {}] /\ recorded' = recorded \cup pending[u]
      /\ active' = active /\ mailbox' = mailbox /\ unused' = unused
  BY <1>u DEF finish_settle
<1> HIDE DEF k
<1>6. PendingShrinks /\ \A i : ~ PendingAt(i, u)'
  BY <1>0, <1>3, <1>4, <1>5, EmptiedShrinks DEF Good
<1>7. ASSUME NEW i \in Items
      PROVE  Apart(i)'
  <2>1. \A s : PendingAt(i, s)' => PendingAt(i, s) /\ s # u
    <3>1. \A s : PendingAt(i, s)' => PendingAt(i, s)
      BY <1>6 DEF PendingShrinks, PendingAt
    <3> QED BY <1>6, <3>1
  <2>2. \A q : CarriedBy(i, q)' => CarriedBy(i, q)
    BY <1>0, <1>3, <1>4, BecomesPlaces DEF CarriedBy
  <2>3. Apart(i)
    BY DEF Good, Kept
  <2>4. CASE i \in pending[u]
    <3>1. PendingAt(i, u)
      BY <1>1, <2>4 DEF PendingAt
    <3>2. \A q : ~ CarriedBy(i, q)' /\ ~ PendingAt(i, q)'
      BY <2>1, <2>2, <2>3, <3>1 DEF Apart
    <3>3. Only(i, {}, {})' /\ i \notin mailbox' \cup unused'
      BY <1>5, <2>3, <3>1, <3>2 DEF Only, Apart
    <3> QED BY <3>3, LandedApart
  <2>5. CASE i \notin pending[u]
    <3>1. Stays(i)
      BY <1>5, <2>1, <2>2, <2>5 DEF Stays
    <3> QED BY <2>3, <3>1, StaysApart
  <2> QED BY <2>4, <2>5
<1>8. FrameGood'
  BY <1>0, <1>3, BecomesGood DEF Good, Kept
<1> QED BY <1>7, <1>8 DEF Kept

-----------------------------------------------------------------------------
(* The theorems.                                                           *)

\* The invariant, in the form the steps use.
LEMMA GoodIsInvariant == IInv <=> Good
<1>1. SinglePlaces <=> \A i \in Items : Apart(i)
  BY ApartIsSingle DEF SinglePlaces
<1>2. TypeOK => (FrameGood <=> CarriedOnce /\ \A p \in Procs : At(p, "settle") => frame[p].st # None)
  BY DEF TypeOK, FrameGood, GoodState, FrameState, CarriedOnce, At
<1> QED BY <1>1, <1>2 DEF IInv, Good, Kept, StatesKnown

\* One step per action.
LEMMA KeptStep ==
    ASSUME Good, Next
    PROVE  Kept'
<1>1. ASSUME NEW p \in Procs, Handler(p)
      PROVE  Kept'
  <2>1. CASE start_pending(p)
    <3>1. {"start_mail", "start_reserve"} \subseteq Pcs \ {"settle"}
      BY DEF Pcs, StartPcs
    <3>2. TakePending(p, "start_mail", "start_reserve")
      BY <2>1 DEF start_pending
    <3> QED BY <3>1, <3>2, TakePendingStep
  <2>2. CASE abort_replaced(p)
    <3>1. TakeActiveTurn(p, "Replaced") /\ "Replaced" \in Reasons
      BY <2>2 DEF abort_replaced, Reasons
    <3> QED BY <3>1, TakeActiveStep
  <2> QED BY <1>1, <2>1, <2>2, StartMailStep, StartReserveStep, StartExtendStep,
             StartInstallStep, WakeStep, HandleAbortStep, ClearPendingStep DEF Handler
<1>2. ASSUME NEW t \in Turns, Run(t)
      PROVE  Kept'
  <2>1. CASE run_drain(t)
    <3>1. {"drain_mail", "sample"} \subseteq Pcs \ {"settle"} /\ t \in Procs
      BY ProcFacts DEF Pcs, RunPcs
    <3>2. TakePending(t, "drain_mail", "sample")
      BY <2>1 DEF run_drain
    <3> QED BY <3>1, <3>2, TakePendingStep
  <2> QED BY <1>2, <2>1, RecordStep, SampleStep, FinishStep, SettleStep DEF Run
<1>3. CASE interrupt \/ abort_turn_if_active
  <2>1. /\ "Interrupted" \in Reasons /\ SubmissionLoop \in Procs /\ Guardian \in Procs
        /\ \/ TakeActiveTurn(SubmissionLoop, "Interrupted")
           \/ TakeActiveTurn(Guardian, "Interrupted")
    BY <1>3, ProcFacts DEF interrupt, abort_turn_if_active, Reasons
  <2> QED BY <2>1, TakeActiveStep
<1> QED BY <1>1, <1>2, <1>3, IdleStartStep, MailStep, CallStep DEF Next, Submit, Call

\* The invariant holds at the start.
LEMMA InitGood == Init => IInv
<1> SUFFICES ASSUME Init PROVE IInv
  OBVIOUS
<1> USE DEF Init
<1>1. \A p \in Procs : frame[p] \in {Blank, Idle}
  BY DEF Init
<1>2. /\ Blank \in FrameState /\ Idle \in FrameState
      /\ Blank.pc # "settle" /\ Idle.pc # "settle"
      /\ Blank.st = None /\ Idle.st = None /\ Blank.input = {} /\ Idle.input = {}
      /\ Blank.held = {} /\ Idle.held = {}
  BY PcFacts DEF Blank, Idle
<1>3. budget \in [interrupts : 0 .. MaxInterrupts, aborts : 0 .. MaxGuardianAborts,
                  followUps : 0 .. MaxFollowUps]
  BY BoundsAssumption
<1>4. TypeOK
  BY <1>1, <1>2, <1>3 DEF TypeOK, FrameState, NoActiveTurn, Phases
<1>5. FrameGood
  BY <1>1, <1>2 DEF FrameGood, GoodState
<1>6. \A i, x : ~ PendingAt(i, x) /\ ~ CarriedBy(i, x)
  <2>1. LiveStates = {}
    BY <1>1, <1>2 DEF LiveStates, Held, NoActiveTurn
  <2> QED BY <1>1, <1>2, <2>1 DEF PendingAt, CarriedBy
<1>7. \A i \in Items : Apart(i)
  BY <1>6 DEF Apart
<1>8. active.task = None
  BY DEF NoActiveTurn
<1> QED BY <1>4, <1>5, <1>7, <1>8, GoodIsInvariant DEF Good, Kept

\* Every step of the session keeps the invariant: types, the turn states that
\* tasks refer to, and every item in one place.
THEOREM InductiveInvariant == Spec => []IInv
<1>1. Init => IInv
  BY InitGood
<1>2. (\A i \in Items : Apart(i)) => SinglePlaces
  BY ApartIsSingle DEF SinglePlaces
<1>3. ((\A i \in Items : Apart(i)) => SinglePlaces)'
  BY <1>2, PTL
<1>4. IInv /\ [Next]_vars => IInv'
  <2>1. ASSUME IInv, Next
        PROVE  IInv'
    <3>1. Good /\ TypeOK /\ StatesKnown
      BY <2>1, GoodIsInvariant DEF IInv
    <3>2. Kept'
      BY <2>1, <3>1, KeptStep
    <3>3. /\ active' \in [st : States \cup {None}, task : Turns \cup {None}]
          /\ active'.task # None => active'.st # None
      BY <2>1, <3>1, ActiveStep
    <3>4. TypeOK'
      <4>1. /\ DOMAIN frame' = Procs
            /\ \A p \in Procs : frame'[p] \in FrameState
        BY <3>2 DEF Kept, FrameGood, GoodState
      <4> QED BY <2>1, <3>1, <3>3, <4>1, BookkeepingStep, HoldersStep DEF TypeOK, FrameState
    <3>5. SinglePlaces'
      BY <1>3, <3>2 DEF Kept
    <3>6. CarriedOnce' /\ StatesKnown'
      BY <3>2, <3>3 DEF Kept, FrameGood, GoodState, CarriedOnce, StatesKnown, At
    <3> QED BY <3>4, <3>5, <3>6 DEF IInv
  <2>2. ASSUME IInv, UNCHANGED vars
        PROVE  IInv'
    BY <2>2 DEF vars, IInv, TypeOK, StatesKnown, CarriedOnce, SinglePlaces, Places, LiveStates,
                Held, At
  <2> QED BY <2>1, <2>2
<1> QED BY <1>1, <1>4, PTL DEF Spec

\* The session's state keeps its types.
THEOREM TypeCorrect == Spec => []TypeOK
<1>1. IInv => TypeOK
  BY DEF IInv
<1> QED BY <1>1, InductiveInvariant, PTL

\* A set whose elements are all the same has one at most.
LEMMA AtMostOne ==
    ASSUME NEW S, \A x, y \in S : x = y
    PROVE  Cardinality(S) <= 1
<1>1. CASE S = {}
  BY <1>1, FS_EmptySet
<1>2. CASE S # {}
  <2>1. PICK x : S = {x}
    BY <1>2
  <2>2. Cardinality({x}) = 1
    BY FS_Singleton, Zenon
  <2> QED BY <2>1, <2>2
<1> QED BY <1>1, <1>2

\* Input is never handed to the model twice: through get_pending_input, start_task,
\* on_task_finished, steers, rejections, aborts and replacements an item is in one
\* place at most, whatever the number of items, processes and turns.
THEOREM InputIsNeverDuplicated == Spec => []NeverDuplicated
<1>1. IInv => NeverDuplicated
  <2> SUFFICES ASSUME IInv, NEW i \in Items
               PROVE  Cardinality(Places(i)) <= 1
    BY DEF NeverDuplicated
  <2>1. \A x, y \in Places(i) : x = y
    BY DEF IInv, SinglePlaces
  <2> QED BY <2>1, AtMostOne
<1> QED BY <1>1, InductiveInvariant, PTL

-----------------------------------------------------------------------------
(* Turns that only the submission loop starts and ends.                    *)

\* Nothing but the submission loop starts or aborts a turn: no mail asks for one,
\* no extension starts idle work, the guardian aborts nothing.
OnlyLoopStarts ==
  IdleCalls = {} /\ TriggerMails = {} /\ DurableSleep = FALSE /\ MaxGuardianAborts = 0

\* A task that runs, up to on_task_finished; and one that reports its end.
WorkPcs == RunPcs \cup {"finish"}
ReportPcs == {"settle", "clear"}

Loop == frame[SubmissionLoop]
Awaited(t) == Loop.pc = "await_done" /\ Loop.task = t

OthersRest == At(Extension, "idle") /\ At(Guardian, "idle") /\ budget.aborts = 0

\* abort_all_tasks leaves no active turn behind; start_task sets up one of its own,
\* which is not the one a finishing task may still clear.
LoopState ==
  /\ Loop.pc \in {"idle", "check_mail"} \cup AbortPcs \cup StartPcs
  /\ Loop.pc \in {"await_done", "clear_pending", "check_mail", "start", "start_mail", "start_reserve"}
       => active.st = None /\ active.task = None
  /\ Loop.pc \in {"abort", "start_extend", "start_install"} => active.task = None
  /\ Loop.pc \in {"start_extend", "start_install"} =>
       active.st # None /\ \A t \in Turns : frame[t].pc \in ReportPcs => frame[t].st # active.st
  /\ Loop.pc = "await_done" =>
       Loop.task \in Turns /\ frame[Loop.task].pc \in WorkPcs \cup {"stopped"}

\* A task at work is the active one, or the loop waits for its end.  It has sent
\* its terminal event when it is past on_task_finished or has been waited for.
TurnState(t) ==
  /\ frame[t].pc \in {"none", "stopped", "check_mail"} \cup WorkPcs \cup ReportPcs
  /\ frame[t].pc \in WorkPcs => active.task = t \/ Awaited(t)
  /\ active.task = t => frame[t].pc \in WorkPcs
  /\ t \in cancelled => active.task # t /\ frame[t].pc \in WorkPcs \cup {"stopped"}
  /\ frame[t].pc \in ReportPcs =>
       frame[t].st # None /\ (frame[t].st = active.st => active.task = None)
  /\ terminal[t] = IF \/ frame[t].pc \in {"clear", "check_mail"}
                      \/ frame[t].pc = "stopped" /\ ~ Awaited(t) THEN 1 ELSE 0

\* An active turn without a task is being set up by the loop or cleared by the
\* task that has left it.
TurnReserved ==
  active.st # None /\ active.task = None =>
    \/ Loop.pc \in {"start_extend", "start_install"}
    \/ \E t \in Turns : frame[t].pc \in ReportPcs /\ frame[t].st = active.st

Served == OthersRest /\ LoopState /\ (\A t \in Turns : TurnState(t)) /\ TurnReserved

\* What a step of one process does to its frame, its input apart.
MovesTo(p, pc, st, task) ==
  /\ frame'[p].pc = pc /\ frame'[p].st = st /\ frame'[p].task = task
  /\ \A q \in Procs \ {p} : frame'[q] = frame[q]

MovesPc(p, pc) == MovesTo(p, pc, frame[p].st, frame[p].task)

\* A move of the program counter, and a return.
LEMMA GotoMoves ==
    ASSUME TypeOK, NEW p \in Procs, NEW pc, Goto(p, pc)
    PROVE  MovesPc(p, pc)
BY DEF Goto, MovesPc, MovesTo, TypeOK

LEMMA ReturnMoves ==
    ASSUME TypeOK, NEW p \in Procs, Return(p)
    PROVE  MovesTo(p, IF p \in Turns THEN "stopped" ELSE "idle", None, None)
BY DEF Return, MovesTo, TypeOK, Rest, Stopped, Idle, Blank

\* The processes do not overlap.
LEMMA ProcsApart ==
    /\ SubmissionLoop \in Procs \ Turns /\ Extension \in Procs \ Turns /\ Guardian \in Procs \ Turns
    /\ SubmissionLoop # Extension /\ SubmissionLoop # Guardian /\ Extension # Guardian
    /\ Turns \subseteq Procs /\ None \notin Procs
    /\ \A p \in Procs : p \in Turns \/ p \in {SubmissionLoop, Extension, Guardian}
BY BoundsAssumption DEF Turns, Procs, SubmissionLoop, Extension, Guardian, None

\* The active turn gets a fresh task, with the input of the process that started it.
Installed(p, t) ==
  /\ t # p /\ frame[t].pc = "none"
  /\ frame'[t].pc = "begin" /\ frame'[t].st = None
  /\ frame'[t].input = frame[p].input /\ frame'[t].held = {}
  /\ frame'[p] = Rest(p)
  /\ \A q \in Procs \ {t, p} : frame'[q] = frame[q]
  /\ active'.st = active.st /\ active'.task = t
  /\ UNCHANGED <<pending, phase, mailbox, cancelled, terminal, recorded, unused, budget>>

\* start_task's last step, where the turn has been set up and has no task.
LEMMA InstallSteps ==
    ASSUME TypeOK, NEW p \in Procs, start_install(p), IsSome, active.task = None
    PROVE  \E t \in Turns : Installed(p, t)
<1>t. PICK t : t = Min(FreshTurns)
  OBVIOUS
<1>n. PICK n : n = [Blank EXCEPT !.pc = "begin", !.input = frame[p].input]
  OBVIOUS
<1>1. t \in Turns /\ t \in Procs /\ t # p /\ frame[t].pc = "none"
  BY <1>t, PickFacts, ProcFacts DEF start_install, FreshTurns, At
<1>2. n.pc = "begin" /\ n.st = None /\ n.input = frame[p].input /\ n.held = {}
  BY <1>n DEF Blank
<1>3. frame' = [q \in Procs |->
                  CASE q = t -> n
                    [] q = p -> Rest(p)
                    [] q = active.task /\ q \notin {p, t} -> Stopped
                    [] OTHER -> frame[q]]
  BY <1>t, <1>n DEF start_install
<1>4. /\ frame'[t] = n /\ frame'[p] = Rest(p)
      /\ \A q \in Procs \ {t, p} : frame'[q] = frame[q]
  BY <1>1, <1>3, ProcFacts
<1>5. /\ active'.st = active.st /\ active'.task = t
      /\ UNCHANGED <<pending, phase, mailbox, cancelled, terminal, recorded, unused, budget>>
  BY <1>t DEF start_install, TypeOK
<1> QED BY <1>1, <1>2, <1>4, <1>5 DEF Installed

-----------------------------------------------------------------------------
(* The steps of tasks and of the loop, by what they do to active_turn.     *)

\* A task that works moves on.
LEMMA WorkMoves ==
    ASSUME TypeOK, Served, NEW t \in Turns, NEW pc \in WorkPcs,
           frame[t].pc \in WorkPcs, MovesPc(t, pc),
           active' = active, cancelled' = cancelled, terminal' = terminal,
           budget'.aborts = budget.aborts
    PROVE  Served'
<1> USE ProcsApart
<1>1. OthersRest' /\ Loop' = Loop
  BY DEF Served, OthersRest, MovesPc, MovesTo, At, Loop
<1>2. LoopState'
  BY <1>1 DEF Served, LoopState, MovesPc, MovesTo, WorkPcs, ReportPcs, RunPcs
<1>3. ASSUME NEW u \in Turns
      PROVE  TurnState(u)'
  <2>1. TurnState(u) /\ Awaited(u)' = Awaited(u)
    BY <1>1 DEF Served, Awaited
  <2>2. CASE u = t
    BY <1>1, <2>1, <2>2 DEF TurnState, MovesPc, MovesTo, WorkPcs, ReportPcs, RunPcs
  <2>3. CASE u # t
    BY <1>1, <2>1, <2>3 DEF TurnState, MovesPc, MovesTo
  <2> QED BY <2>2, <2>3
<1>4. TurnReserved'
  BY <1>1 DEF Served, TurnReserved, MovesPc, MovesTo, WorkPcs, ReportPcs, RunPcs
<1> QED BY <1>1, <1>2, <1>3, <1>4 DEF Served

\* A task that was cancelled, or that finds no active turn to finish, ends.
LEMMA WorkStops ==
    ASSUME TypeOK, Served, NEW t \in Turns,
           frame[t].pc \in WorkPcs, active.task # t, MovesTo(t, "stopped", None, None),
           active' = active, cancelled' = cancelled, terminal' = terminal,
           budget'.aborts = budget.aborts
    PROVE  Served'
<1> USE ProcsApart
<1>1. OthersRest' /\ Loop' = Loop
  BY DEF Served, OthersRest, MovesTo, At, Loop
<1>2. LoopState'
  BY <1>1 DEF Served, LoopState, MovesTo, WorkPcs, ReportPcs, RunPcs
<1>3. ASSUME NEW u \in Turns
      PROVE  TurnState(u)'
  <2>1. TurnState(u) /\ Awaited(u)' = Awaited(u)
    BY <1>1 DEF Served, Awaited
  <2>2. CASE u = t
    BY <1>1, <2>1, <2>2 DEF TurnState, MovesTo, WorkPcs, ReportPcs, RunPcs
  <2>3. CASE u # t
    BY <1>1, <2>1, <2>3 DEF TurnState, MovesTo
  <2> QED BY <2>2, <2>3
<1>4. TurnReserved'
  BY <1>1 DEF Served, TurnReserved, MovesTo, WorkPcs, ReportPcs, RunPcs
<1> QED BY <1>1, <1>2, <1>3, <1>4 DEF Served

\* The active task takes itself out and keeps its turn state.
LEMMA WorkReports ==
    ASSUME TypeOK, Served, NEW t \in Turns,
           frame[t].pc = "finish", active.task # None,
           MovesTo(t, "settle", active.st, frame[t].task), active.st # None,
           active'.st = active.st, active'.task = None,
           cancelled' = cancelled, terminal' = terminal, budget'.aborts = budget.aborts
    PROVE  Served'
<1> USE ProcsApart
<1>1. OthersRest' /\ Loop' = Loop
  BY DEF Served, OthersRest, MovesTo, At, Loop
<1>2. Loop.pc = "idle"
  BY DEF Served, LoopState, AbortPcs, StartPcs
<1>3. LoopState'
  BY <1>1, <1>2 DEF LoopState
<1>4. active.task = t
  BY <1>2 DEF Served, TurnState, Awaited, WorkPcs
<1>5. ASSUME NEW u \in Turns
      PROVE  TurnState(u)'
  <2>1. TurnState(u) /\ ~ Awaited(u)' /\ ~ Awaited(u)
    BY <1>1, <1>2 DEF Served, Awaited
  <2>2. CASE u = t
    BY <1>1, <2>1, <2>2 DEF TurnState, MovesTo, WorkPcs, ReportPcs, RunPcs
  <2>3. CASE u # t
    BY <1>1, <1>4, <2>1, <2>3 DEF TurnState, MovesTo
  <2> QED BY <2>2, <2>3
<1>6. TurnReserved'
  BY DEF TurnReserved, MovesTo, ReportPcs
<1> QED BY <1>1, <1>3, <1>5, <1>6 DEF Served

\* It reports completion.
LEMMA ReportSettles ==
    ASSUME TypeOK, Served, NEW t \in Turns, frame[t].pc = "settle", MovesPc(t, "clear"),
           terminal' = [terminal EXCEPT ![t] = @ + 1],
           active' = active, cancelled' = cancelled, budget'.aborts = budget.aborts
    PROVE  Served'
<1> USE ProcsApart
<1>1. OthersRest' /\ Loop' = Loop
  BY DEF Served, OthersRest, MovesPc, MovesTo, At, Loop
<1>2. LoopState'
  BY <1>1 DEF Served, LoopState, MovesPc, MovesTo, WorkPcs, ReportPcs, RunPcs
<1>3. ASSUME NEW u \in Turns
      PROVE  TurnState(u)'
  <2>1. TurnState(u) /\ Awaited(u)' = Awaited(u) /\ terminal \in [Turns -> Nat]
    BY <1>1 DEF Served, Awaited, TypeOK
  <2>2. CASE u = t
    <3>1. terminal[t] = 0
      BY <2>1, <2>2 DEF TurnState
    <3> QED BY <1>1, <2>1, <2>2, <3>1 DEF TurnState, MovesPc, MovesTo, WorkPcs, ReportPcs, RunPcs
  <2>3. CASE u # t
    BY <1>1, <2>1, <2>3 DEF TurnState, MovesPc, MovesTo
  <2> QED BY <2>2, <2>3
<1>4. TurnReserved'
  BY <1>1 DEF Served, TurnReserved, MovesPc, MovesTo, WorkPcs, ReportPcs, RunPcs
<1> QED BY <1>1, <1>2, <1>3, <1>4 DEF Served

\* It clears the turn if it is still its own, and goes on to look for mail; or ends.
LEMMA ReportClears ==
    ASSUME TypeOK, Served, NEW t \in Turns, NEW pc \in {"check_mail", "stopped"},
           \/ frame[t].pc = "clear" /\ frame[t].st = active.st /\ active'.st = None /\ active'.task = None
           \/ frame[t].pc = "clear" /\ frame[t].st # active.st /\ active' = active
           \/ frame[t].pc = "check_mail" /\ active' = active,
           frame'[t].pc = pc, \A q \in Procs \ {t} : frame'[q] = frame[q],
           cancelled' = cancelled, terminal' = terminal, budget'.aborts = budget.aborts
    PROVE  Served'
<1> USE ProcsApart
<1>1. OthersRest' /\ Loop' = Loop
  BY DEF Served, OthersRest, At, Loop
<1>2. ~ Awaited(t)
  BY DEF Served, LoopState, Awaited, WorkPcs, RunPcs
<1>3. LoopState'
  <2>1. Loop.pc \in {"start_extend", "start_install"} => active' = active
    BY DEF Served, LoopState, ReportPcs
  <2> QED BY <1>1, <1>2, <2>1 DEF Served, LoopState, Awaited, WorkPcs, ReportPcs, RunPcs
<1>4. ASSUME NEW u \in Turns
      PROVE  TurnState(u)'
  <2>1. TurnState(u) /\ Awaited(u)' = Awaited(u)
    BY <1>1 DEF Served, Awaited
  <2>2. TurnState(t)
    BY DEF Served
  <2>3. active'.task = active.task /\ (active'.st = active.st \/ active'.st = None)
    BY <2>2 DEF TurnState, ReportPcs
  <2>4. CASE u = t
    BY <1>1, <1>2, <2>1, <2>3, <2>4 DEF TurnState, WorkPcs, ReportPcs, RunPcs
  <2>5. CASE u # t
    BY <1>1, <2>1, <2>3, <2>5 DEF TurnState
  <2> QED BY <2>4, <2>5
<1>5. TurnReserved'
  BY <1>1 DEF Served, TurnReserved, ReportPcs
<1> QED BY <1>1, <1>3, <1>4, <1>5 DEF Served

\* Input is appended, or mail is queued: no process moves.
LEMMA NobodyMoves ==
    ASSUME TypeOK, Served, frame' = frame,
           active' = active, cancelled' = cancelled, terminal' = terminal,
           budget'.aborts = budget.aborts
    PROVE  Served'
BY DEF Served, OthersRest, LoopState, TurnState, TurnReserved, Awaited, At, Loop

\* The loop moves on and leaves active_turn alone.
LEMMA LoopMoves ==
    ASSUME TypeOK, Served, NEW pc, NEW st, NEW task, MovesTo(SubmissionLoop, pc, st, task),
           Loop.pc # "await_done", pc # "await_done",
           \/ pc = "idle" /\ Loop.pc = "check_mail"
           \/ pc = "abort" /\ active.task = None /\ Loop.pc = "idle"
           \/ /\ pc \in {"clear_pending", "check_mail", "start", "start_mail", "start_reserve"}
              /\ Loop.pc \in {"clear_pending", "check_mail", "start", "start_mail", "start_reserve"}
           \/ pc = "start_install" /\ Loop.pc = "start_extend",
           active' = active, cancelled' = cancelled, terminal' = terminal,
           budget'.aborts = budget.aborts
    PROVE  Served'
<1> USE ProcsApart
<1>1. OthersRest' /\ Loop'.pc = pc /\ Loop.pc = frame[SubmissionLoop].pc
  BY DEF Served, OthersRest, MovesTo, At, Loop
<1>2. \A t \in Turns : frame'[t] = frame[t]
  BY DEF MovesTo
<1>3. LoopState'
  BY <1>1, <1>2 DEF Served, LoopState, AbortPcs, StartPcs
<1>4. ASSUME NEW u \in Turns
      PROVE  TurnState(u)'
  BY <1>1, <1>2 DEF Served, TurnState, Awaited
<1>5. TurnReserved'
  BY <1>1, <1>2 DEF Served, TurnReserved, LoopState
<1> QED BY <1>1, <1>3, <1>4, <1>5 DEF Served

\* start_task sets up a turn state that no process holds.
LEMMA LoopReserves ==
    ASSUME TypeOK, Served, NEW s \in FreeStates, NEW task,
           MovesTo(SubmissionLoop, "start_extend", s, task), Loop.pc = "start_reserve",
           active'.st = s, active'.task = None, cancelled' = cancelled, terminal' = terminal,
           budget'.aborts = budget.aborts
    PROVE  Served'
<1> USE ProcsApart
<1>1. OthersRest' /\ Loop'.pc = "start_extend"
  BY DEF Served, OthersRest, MovesTo, At, Loop
<1>2. \A t \in Turns : frame'[t] = frame[t] /\ frame[t].st # s
  BY DEF MovesTo, FreeStates, Held
<1>3. s # None /\ active.task = None
  BY ProcFacts DEF FreeStates, Served, LoopState
<1>4. LoopState'
  BY <1>1, <1>2, <1>3 DEF LoopState, AbortPcs, StartPcs
<1>5. ASSUME NEW u \in Turns
      PROVE  TurnState(u)'
  BY <1>1, <1>2, <1>3 DEF Served, TurnState, Awaited
<1>6. TurnReserved'
  BY <1>1 DEF TurnReserved
<1> QED BY <1>1, <1>4, <1>5, <1>6 DEF Served

\* start_task installs a fresh task in the turn it has set up.
LEMMA LoopInstalls ==
    ASSUME TypeOK, Served, NEW t \in Turns, frame[t].pc = "none", Loop.pc = "start_install",
           frame'[t].pc = "begin", frame'[SubmissionLoop].pc = "idle",
           \A q \in Procs \ {t, SubmissionLoop} : frame'[q] = frame[q],
           active'.st = active.st, active'.task = t, cancelled' = cancelled, terminal' = terminal,
           budget'.aborts = budget.aborts
    PROVE  Served'
<1> USE ProcsApart
<1>1. OthersRest' /\ Loop'.pc = "idle"
  BY DEF Served, OthersRest, At, Loop
<1>2. LoopState'
  BY <1>1 DEF LoopState
<1>3. ASSUME NEW u \in Turns
      PROVE  TurnState(u)'
  <2>1. TurnState(u) /\ ~ Awaited(u) /\ ~ Awaited(u)'
    BY <1>1 DEF Served, Awaited
  <2>2. active.task = None /\ (frame[u].pc \in ReportPcs => frame[u].st # active.st)
    BY DEF Served, LoopState
  <2>3. CASE u = t
    BY <2>1, <2>2, <2>3 DEF TurnState, WorkPcs, RunPcs, ReportPcs
  <2>4. CASE u # t
    BY <2>1, <2>2, <2>4 DEF TurnState
  <2> QED BY <2>3, <2>4
<1>4. TurnReserved'
  BY DEF TurnReserved
<1> QED BY <1>1, <1>2, <1>3, <1>4 DEF Served

\* abort_all_tasks takes out a turn without a task.
LEMMA LoopTakesNothing ==
    ASSUME TypeOK, Served, NEW pc \in {"idle", "start"}, NEW st, NEW task,
           MovesTo(SubmissionLoop, pc, st, task), Loop.pc \in {"abort", "idle"},
           active.task = None, active'.st = None, active'.task = None,
           cancelled' = cancelled, terminal' = terminal, budget'.aborts = budget.aborts
    PROVE  Served'
<1> USE ProcsApart
<1>1. OthersRest' /\ Loop'.pc = pc
  BY DEF Served, OthersRest, MovesTo, At, Loop
<1>2. \A t \in Turns : frame'[t] = frame[t]
  BY DEF MovesTo
<1>3. LoopState'
  BY <1>1, <1>2 DEF LoopState, AbortPcs, StartPcs
<1>4. ASSUME NEW u \in Turns
      PROVE  TurnState(u)'
  BY <1>1, <1>2 DEF Served, TurnState, Awaited
<1>5. TurnReserved'
  BY DEF TurnReserved
<1> QED BY <1>1, <1>3, <1>4, <1>5 DEF Served

\* abort_all_tasks takes out the active task, cancels it and waits for it.
LEMMA LoopTakesTask ==
    ASSUME TypeOK, Served, NEW st,
           MovesTo(SubmissionLoop, "await_done", st, active.task), Loop.pc = "idle",
           active.task # None, active'.st = None, active'.task = None,
           cancelled' = cancelled \cup {active.task}, terminal' = terminal,
           budget'.aborts = budget.aborts
    PROVE  Served'
<1> USE ProcsApart
<1>1. OthersRest' /\ Loop'.pc = "await_done" /\ Loop'.task = active.task
  BY DEF Served, OthersRest, MovesTo, At, Loop
<1>2. (\A t \in Turns : frame'[t] = frame[t]) /\ active.task \in Turns
  BY DEF MovesTo, TypeOK
<1>3. LoopState'
  BY <1>1, <1>2 DEF LoopState, AbortPcs, StartPcs, Served, TurnState
<1>4. ASSUME NEW u \in Turns
      PROVE  TurnState(u)'
  <2>1. TurnState(u) /\ ~ Awaited(u) /\ (Awaited(u)' <=> u = active.task)
    BY <1>1 DEF Served, Awaited
  <2> QED BY <1>2, <2>1 DEF TurnState, WorkPcs, RunPcs
<1>5. TurnReserved'
  BY DEF TurnReserved
<1> QED BY <1>1, <1>3, <1>4, <1>5 DEF Served

\* handle_task_abort reports the task that it waited for.
LEMMA LoopReports ==
    ASSUME TypeOK, Served, Loop.pc = "await_done",
           frame'[SubmissionLoop].pc = "clear_pending", frame'[Loop.task].pc = "stopped",
           \A q \in Procs \ {Loop.task, SubmissionLoop} : frame'[q] = frame[q],
           terminal' = [terminal EXCEPT ![Loop.task] = @ + 1],
           active' = active, cancelled' = cancelled, budget'.aborts = budget.aborts
    PROVE  Served'
<1> USE ProcsApart
<1>0. Loop.task \in Turns /\ active.st = None /\ active.task = None
  BY DEF Served, LoopState
<1>1. OthersRest' /\ Loop'.pc = "clear_pending"
  BY <1>0 DEF Served, OthersRest, At, Loop
<1>2. LoopState'
  BY <1>0, <1>1 DEF LoopState, AbortPcs
<1>3. ASSUME NEW u \in Turns
      PROVE  TurnState(u)'
  <2>1. TurnState(u) /\ ~ Awaited(u)' /\ (Awaited(u) <=> u = Loop.task) /\ terminal \in [Turns -> Nat]
    BY <1>1 DEF Served, Awaited, TypeOK
  <2>2. CASE u = Loop.task
    <3>1. frame[u].pc \in WorkPcs \cup {"stopped"}
      BY <2>2 DEF Served, LoopState
    <3>2. terminal[u] = 0
      BY <2>1, <2>2, <3>1 DEF TurnState, WorkPcs, RunPcs
    <3>3. frame'[u].pc = "stopped" /\ terminal'[u] = 1
      BY <2>1, <2>2, <3>2
    <3> QED BY <1>0, <2>1, <2>2, <3>1, <3>3 DEF TurnState, WorkPcs, RunPcs, ReportPcs
  <2>3. CASE u # Loop.task
    BY <1>0, <2>1, <2>3 DEF TurnState
  <2> QED BY <2>2, <2>3
<1>4. TurnReserved'
  BY <1>0 DEF TurnReserved
<1> QED BY <1>1, <1>2, <1>3, <1>4 DEF Served

-----------------------------------------------------------------------------
(* Every action is one of those steps, or cannot be taken.                 *)

\* What the loop, the extension, the guardian and a task may be at.
LEMMA WhoIsWhere ==
    ASSUME Served, NEW p \in Procs
    PROVE  /\ frame[p].pc \in AbortPcs \cup StartPcs => p = SubmissionLoop
           /\ frame[p].pc = "check_mail" => p = SubmissionLoop \/ p \in Turns
           /\ frame[p].pc # "reserve_idle"
           /\ frame[p].pc \notin TryPcs
BY ProcsApart DEF Served, OthersRest, LoopState, TurnState, Loop, At, AbortPcs, StartPcs, TryPcs,
                  WorkPcs, RunPcs, ReportPcs

\* start_task.
LEMMA ServedStart ==
    ASSUME TypeOK, Served, NEW p \in Procs,
           \/ start_pending(p) \/ start_mail(p) \/ start_reserve(p)
           \/ start_extend(p) \/ start_install(p)
    PROVE  Served'
<1> USE ProcsApart
<1>0. frame[p].pc \in StartPcs
  BY DEF start_pending, start_mail, start_reserve, start_extend, start_install, At, StartPcs
<1>1. p = SubmissionLoop /\ Loop = frame[p]
  BY <1>0, WhoIsWhere DEF Loop
<1>2. CASE start_pending(p)
  <2>1. \E pc \in {"start_mail", "start_reserve"} : MovesPc(p, pc)
    BY <1>2 DEF start_pending, TakePending, Goto, MovesPc, MovesTo, TypeOK
  <2>2. PICK pc \in {"start_mail", "start_reserve"} : MovesPc(p, pc)
    BY <2>1
  <2>3. Loop.pc = "start" /\ UNCHANGED <<active, cancelled, terminal, budget>>
    BY <1>1, <1>2 DEF start_pending, TakePending, At
  <2> QED BY <1>1, <2>2, <2>3, LoopMoves DEF MovesPc
<1>3. CASE start_mail(p)
  <2>1. MovesPc(p, "start_reserve")
    BY <1>3 DEF start_mail, MovesPc, MovesTo, TypeOK
  <2>2. Loop.pc = "start_mail" /\ UNCHANGED <<active, cancelled, terminal, budget>>
    BY <1>1, <1>3 DEF start_mail, At
  <2> QED BY <1>1, <2>1, <2>2, LoopMoves DEF MovesPc
<1>4. CASE start_reserve(p)
  <2>1. Loop.pc = "start_reserve" /\ ~ IsSome
    BY <1>1, <1>4 DEF start_reserve, At, Served, LoopState, IsSome
  <2>2. Min(FreeStates) \in FreeStates
    BY <1>4, <2>1, PickFacts DEF start_reserve
  <2>3. /\ MovesTo(p, "start_extend", Min(FreeStates), frame[p].task)
        /\ active'.st = Min(FreeStates) /\ active'.task = None
        /\ UNCHANGED <<cancelled, terminal, budget>>
    BY <1>4, <2>1 DEF start_reserve, SetDefault, MovesTo, TypeOK
  <2> QED BY <1>1, <2>1, <2>2, <2>3, LoopReserves
<1>5. CASE start_extend(p)
  <2>1. MovesTo(p, "start_install", None, frame[p].task)
    BY <1>5 DEF start_extend, MovesTo, TypeOK
  <2>2. Loop.pc = "start_extend" /\ UNCHANGED <<active, cancelled, terminal, budget>>
    BY <1>1, <1>5 DEF start_extend, At
  <2> QED BY <1>1, <2>1, <2>2, LoopMoves
<1>6. CASE start_install(p)
  <2>1. Loop.pc = "start_install" /\ IsSome /\ active.task = None
    BY <1>1, <1>6 DEF start_install, At, Served, LoopState, IsSome
  <2>2. PICK t \in Turns : Installed(p, t)
    BY <1>6, <2>1, InstallSteps
  <2>3. Rest(p).pc = "idle"
    BY <1>1 DEF Rest, Idle, Blank
  <2> QED BY <1>1, <2>1, <2>2, <2>3, LoopInstalls DEF Installed
<1> QED BY <1>2, <1>3, <1>4, <1>5, <1>6

\* TakeActiveTurn, by the loop.
LEMMA ServedTake ==
    ASSUME TypeOK, StatesKnown, Served, NEW reason, TakeActiveTurn(SubmissionLoop, reason),
           Loop.pc = "abort" \/ Loop.pc = "idle", budget'.aborts = budget.aborts
    PROVE  Served'
<1> USE ProcsApart
<1>1. active'.st = None /\ active'.task = None /\ terminal' = terminal
  BY DEF TakeActiveTurn, NoActiveTurn
<1>2. CASE active.task # None
  <2>1. Loop.pc = "idle"
    BY <1>2 DEF Served, LoopState
  <2>2. /\ MovesTo(SubmissionLoop, "await_done", active.st, active.task)
        /\ cancelled' = cancelled \cup {active.task}
    BY <1>2 DEF TakeActiveTurn, MovesTo, TypeOK
  <2> QED BY <1>1, <1>2, <2>1, <2>2, LoopTakesTask
<1>3. CASE active.task = None
  <2>1. cancelled' = cancelled /\ (Return(SubmissionLoop) \/ Goto(SubmissionLoop, "start"))
    BY <1>3 DEF TakeActiveTurn
  <2>2. \/ MovesTo(SubmissionLoop, "idle", None, None)
        \/ MovesTo(SubmissionLoop, "start", Loop.st, Loop.task)
    BY <2>1, GotoMoves, ReturnMoves DEF MovesPc, Loop
  <2> QED BY <1>1, <1>3, <2>1, <2>2, LoopTakesNothing
<1> QED BY <1>2, <1>3

\* abort_all_tasks and maybe_start_turn_for_pending_work.
LEMMA ServedAbort ==
    ASSUME OnlyLoopStarts, TypeOK, StatesKnown, Served, NEW p \in Procs,
           \/ wake_check(p) \/ wake_reserve(p)
           \/ abort_replaced(p) \/ handle_task_abort(p) \/ clear_pending(p)
    PROVE  Served'
<1> USE ProcsApart
<1>1. CASE wake_check(p)
  <2>1. Return(p) /\ UNCHANGED <<active, cancelled, terminal, budget>>
    BY <1>1 DEF wake_check, OnlyLoopStarts, HasTrigger
  <2>2. frame[p].pc = "check_mail"
    BY <1>1 DEF wake_check, At
  <2>3. CASE p = SubmissionLoop
    BY <2>1, <2>2, <2>3, ReturnMoves, LoopMoves DEF Loop
  <2>4. CASE p \in Turns
    <3>1. frame'[p].pc = "stopped" /\ \A q \in Procs \ {p} : frame'[q] = frame[q]
      BY <2>1, <2>4, ReturnMoves DEF MovesTo
    <3> QED BY <2>1, <2>2, <2>4, <3>1, ReportClears
  <2> QED BY <2>2, <2>3, <2>4, WhoIsWhere
<1>2. CASE wake_reserve(p)
  BY <1>2, WhoIsWhere DEF wake_reserve, At
<1>3. CASE abort_replaced(p)
  <2>1. p = SubmissionLoop /\ Loop.pc = "abort"
    BY <1>3, WhoIsWhere DEF abort_replaced, At, AbortPcs, Loop
  <2> QED BY <1>3, <2>1, ServedTake DEF abort_replaced
<1>4. CASE handle_task_abort(p)
  <2>1. p = SubmissionLoop /\ Loop.pc = "await_done"
    BY <1>4, WhoIsWhere DEF handle_task_abort, At, AbortPcs, Loop
  <2>2. Loop.task \in Turns /\ Loop = frame[p]
    BY <2>1 DEF Served, LoopState, Loop
  <2>3. /\ frame' = [frame EXCEPT ![p].pc = "clear_pending", ![p].task = None, ![Loop.task] = Stopped]
        /\ terminal' = [terminal EXCEPT ![Loop.task] = @ + 1]
        /\ UNCHANGED <<active, cancelled, budget>>
    BY <1>4, <2>2 DEF handle_task_abort
  <2>4. /\ frame'[SubmissionLoop].pc = "clear_pending" /\ frame'[Loop.task] = Stopped
        /\ \A q \in Procs \ {Loop.task, SubmissionLoop} : frame'[q] = frame[q]
    <3> DEFINE k == [frame[p] EXCEPT !.pc = "clear_pending", !.task = None]
    <3>1. DOMAIN frame = Procs /\ "pc" \in DOMAIN frame[p] /\ p # Loop.task
      BY <2>1, <2>2 DEF TypeOK, FrameState
    <3>2. frame' = [[frame EXCEPT ![p] = k] EXCEPT ![Loop.task] = Stopped]
      BY <2>3, <3>1
    <3>3. k.pc = "clear_pending"
      BY <3>1
    <3> HIDE DEF k
    <3> QED BY <2>1, <2>2, <3>1, <3>2, <3>3
  <2>5. frame'[Loop.task].pc = "stopped"
    BY <2>4 DEF Stopped, Blank
  <2> QED BY ONLY TypeOK, Served, <2>1, <2>3, <2>4, <2>5, LoopReports
<1>5. CASE clear_pending(p)
  <2>1. p = SubmissionLoop /\ Loop.pc = "clear_pending"
    BY <1>5, WhoIsWhere DEF clear_pending, At, AbortPcs, Loop
  <2>2. \/ MovesTo(p, "start", None, frame[p].task)
        \/ MovesTo(p, "check_mail", None, frame[p].task)
    BY <1>5 DEF clear_pending, AfterAbort, MovesTo, TypeOK
  <2>3. UNCHANGED <<active, cancelled, terminal, budget>>
    BY <1>5 DEF clear_pending
  <2> QED BY <2>1, <2>2, <2>3, LoopMoves
<1> QED BY <1>1, <1>2, <1>3, <1>4, <1>5

\* A task.
LEMMA ServedRun ==
    ASSUME TypeOK, StatesKnown, Served, NEW t \in Turns, Run(t)
    PROVE  Served'
<1> USE ProcsApart
<1>1. CASE \/ run_begin(t) \/ run_drain(t) \/ run_drain_mail(t)
           \/ sample_answer(t) \/ sample_follow_up(t) \/ sample_error(t)
           \/ has_pending_input(t) \/ (run_end(t) /\ t \notin cancelled)
  <2>1. frame[t].pc \in WorkPcs
    BY <1>1 DEF run_begin, run_drain, run_drain_mail, sample_answer, sample_follow_up, sample_error,
                has_pending_input, run_end, At, WorkPcs, RunPcs
  <2>2. UNCHANGED <<active, cancelled, terminal>> /\ budget'.aborts = budget.aborts
    BY <1>1 DEF run_begin, run_drain, run_drain_mail, sample_answer, sample_follow_up, sample_error,
                has_pending_input, run_end, TakePending, TypeOK
  <2>3. \E pc \in WorkPcs : MovesPc(t, pc)
    <3>1. CASE run_begin(t)
      BY <3>1 DEF run_begin, MovesPc, MovesTo, TypeOK, WorkPcs, RunPcs
    <3>2. CASE run_drain(t)
      BY <3>2 DEF run_drain, TakePending, Goto, MovesPc, MovesTo, TypeOK, WorkPcs, RunPcs
    <3>3. CASE run_drain_mail(t)
      BY <3>3 DEF run_drain_mail, MovesPc, MovesTo, TypeOK, WorkPcs, RunPcs
    <3>4. CASE \E pc \in {"check", "drain", "end", "finish"} : Goto(t, pc)
      BY <3>4, GotoMoves DEF WorkPcs, RunPcs
    <3> QED BY <1>1, <3>1, <3>2, <3>3, <3>4
            DEF sample_answer, sample_follow_up, sample_error, has_pending_input, run_end
  <2> QED BY <2>1, <2>2, <2>3, WorkMoves
<1>2. CASE run_end(t) /\ t \in cancelled
  <2>1. frame[t].pc \in WorkPcs /\ active.task # t
    BY <1>2 DEF run_end, At, WorkPcs, RunPcs, Served, TurnState
  <2>2. MovesTo(t, "stopped", None, None) /\ UNCHANGED <<active, cancelled, terminal, budget>>
    BY <1>2, ReturnMoves DEF run_end
  <2> QED BY <2>1, <2>2, WorkStops
<1>3. CASE finish_take(t) /\ active.task = None
  <2>1. frame[t].pc \in WorkPcs
    BY <1>3 DEF finish_take, At, WorkPcs
  <2>2. MovesTo(t, "stopped", None, None) /\ UNCHANGED <<active, cancelled, terminal, budget>>
    BY <1>3, ReturnMoves DEF finish_take
  <2> QED BY <1>3, <2>1, <2>2, WorkStops
<1>4. CASE finish_take(t) /\ active.task # None
  <2>1. frame[t].pc = "finish" /\ active.st # None
    BY <1>4 DEF finish_take, At, StatesKnown
  <2>2. MovesTo(t, "settle", active.st, frame[t].task) /\ UNCHANGED <<cancelled, terminal, budget>>
    BY <1>4 DEF finish_take, MovesTo, TypeOK
  <2>3. active'.st = active.st /\ active'.task = None
    BY <1>4 DEF finish_take, TypeOK
  <2> QED BY <1>4, <2>1, <2>2, <2>3, WorkReports
<1>5. CASE finish_settle(t)
  <2>1. /\ frame[t].pc = "settle" /\ MovesPc(t, "clear")
        /\ terminal' = [terminal EXCEPT ![t] = @ + 1] /\ UNCHANGED <<active, cancelled, budget>>
    BY <1>5, GotoMoves DEF finish_settle, At
  <2> QED BY <2>1, ReportSettles
<1>6. CASE finish_clear(t)
  <2>1. frame[t].pc = "clear" /\ UNCHANGED <<cancelled, terminal, budget>>
    BY <1>6 DEF finish_clear, At
  <2>2. CASE IsReserved(t)
    <3>1. /\ frame[t].st = active.st /\ active'.st = None /\ active'.task = None
          /\ frame'[t].pc = "check_mail" /\ \A q \in Procs \ {t} : frame'[q] = frame[q]
      BY <1>6, <2>2 DEF finish_clear, IsReserved, NoActiveTurn, TypeOK
    <3> QED BY <2>1, <3>1, ReportClears
  <2>3. CASE ~ IsReserved(t)
    <3>1. frame[t].st # active.st
      BY <2>1, <2>3 DEF IsReserved, Served, TurnState, ReportPcs
    <3>2. active' = active /\ MovesTo(t, "stopped", None, None)
      BY <1>6, <2>3, ReturnMoves DEF finish_clear
    <3> QED BY <2>1, <3>1, <3>2, ReportClears DEF MovesTo
  <2> QED BY <2>2, <2>3
<1> QED BY <1>1, <1>2, <1>3, <1>4, <1>5, <1>6 DEF Run

\* Submissions and calls.
LEMMA ServedSubmit ==
    ASSUME OnlyLoopStarts, TypeOK, StatesKnown, Served, Submit \/ Call
    PROVE  Served'
<1> USE ProcsApart
<1>1. ASSUME NEW i, user_input(i)
      PROVE  Served'
  <2>1. UNCHANGED <<active, cancelled, terminal, budget>> /\ Loop.pc = "idle"
    BY <1>1 DEF user_input, At, Loop
  <2>2. CASE active.task # None
    BY <1>1, <2>1, <2>2, NobodyMoves DEF user_input
  <2>3. CASE active.task = None
    <3>1. MovesPc(SubmissionLoop, "abort")
      BY <1>1, <2>3 DEF user_input, MovesPc, MovesTo, TypeOK
    <3> QED BY <2>1, <2>3, <3>1, LoopMoves DEF MovesPc
  <2> QED BY <2>2, <2>3
<1>2. ASSUME NEW m \in Mails, inter_agent_communication(m)
      PROVE  Served'
  <2>1. UNCHANGED <<frame, active, cancelled, terminal, budget>>
    BY <1>2 DEF inter_agent_communication, OnlyLoopStarts
  <2> QED BY <2>1, NobodyMoves
<1>3. CASE interrupt
  <2>1. Loop.pc = "idle" /\ budget'.aborts = budget.aborts
    BY <1>3 DEF interrupt, At, Loop, TypeOK
  <2> QED BY <1>3, <2>1, ServedTake DEF interrupt
<1>4. ASSUME NEW i, steer_input(i) \/ inject_no_new_turn(i)
      PROVE  Served'
  BY <1>4, NobodyMoves DEF steer_input, inject_no_new_turn
<1>5. CASE abort_turn_if_active
  BY <1>5 DEF abort_turn_if_active, Served, OthersRest
<1>6. ASSUME NEW i \in IdleCalls
      PROVE  FALSE
  BY <1>6 DEF OnlyLoopStarts
<1> QED BY <1>1, <1>2, <1>3, <1>4, <1>5, <1>6 DEF Submit, Call

\* The loop serves one turn at a time.
LEMMA ServedIsInvariant ==
    ASSUME OnlyLoopStarts
    PROVE  Spec => []Served
<1>1. Init => Served
  <2> SUFFICES ASSUME Init PROVE Served
    OBVIOUS
  <2> USE ProcsApart
  <2>1. \A t \in Turns : frame[t].pc = "none" /\ terminal[t] = 0
    BY DEF Init, Blank
  <2>2. \A p \in Procs \ Turns : frame[p].pc = "idle"
    BY DEF Init, Idle, Blank
  <2>3. OthersRest
    BY <2>2 DEF Init, OthersRest, At, OnlyLoopStarts
  <2>4. active.st = None /\ active.task = None /\ cancelled = {}
    BY DEF Init, NoActiveTurn
  <2> QED BY <2>1, <2>2, <2>3, <2>4 DEF Served, LoopState, TurnState, TurnReserved, Loop, WorkPcs, RunPcs,
               ReportPcs, Awaited
<1>2. IInv /\ Served /\ [Next]_vars => Served'
  <2>1. ASSUME IInv, Served, Next
        PROVE  Served'
    <3>1. TypeOK /\ StatesKnown
      BY <2>1 DEF IInv
    <3>2. ASSUME NEW p \in Procs, Handler(p)
          PROVE  Served'
      BY <2>1, <3>1, <3>2, ServedStart, ServedAbort DEF Handler
    <3>3. CASE IdleStart
      BY <2>1, <3>3, WhoIsWhere, ProcsApart DEF IdleStart, try_reserve, try_recheck,
         clear_reserved_idle_turn, try_still_reserved, try_extend, At, TryPcs
    <3> QED BY <2>1, <3>1, <3>2, <3>3, ServedRun, ServedSubmit DEF Next
  <2>2. ASSUME Served, UNCHANGED vars
        PROVE  Served'
    BY <2>2 DEF vars, Served, OthersRest, LoopState, TurnState, TurnReserved, Awaited, At, Loop
  <2> QED BY <2>1, <2>2
<1> QED BY <1>1, <1>2, InductiveInvariant, PTL DEF Spec

-----------------------------------------------------------------------------
(* Turns that nobody aborts.                                               *)

\* No client replaces or interrupts a turn and the guardian aborts none: turns are
\* started by mail, by extensions and by tasks that find mail when they end.
NobodyAborts == UserInputs = {} /\ MaxInterrupts = 0 /\ MaxGuardianAborts = 0

\* A process that has set active_turn, until it has cleared it or has installed a
\* task in it; and the program counters at which it knows the turn's state.
OwnPcs == RunPcs \cup StartPcs \cup FinishPcs \cup (TryPcs \ {"try_reserve"})
StatePcs == {"settle", "clear", "start_extend"} \cup (TryPcs \ {"try_reserve"})
Owns(p) == frame[p].pc \in OwnPcs

MayBeAt(p, pc) ==
  /\ p = Guardian => pc = "idle"
  /\ p = SubmissionLoop => pc \in {"idle"} \cup WakePcs \cup StartPcs
  /\ p = Extension => pc \in {"idle"} \cup WakePcs \cup StartPcs \cup TryPcs
  /\ p \in Turns =>
       pc \in {"none", "stopped"} \cup WakePcs \cup StartPcs \cup RunPcs \cup FinishPcs

NoAborts ==
  /\ budget.aborts = 0 /\ budget.interrupts = 0 /\ cancelled = {}
  /\ \A p \in Procs : MayBeAt(p, frame[p].pc)

\* active_turn is a lock: one process owns it exactly while it is set.
Exclusive ==
  /\ \A p, q \in Procs : Owns(p) /\ Owns(q) => p = q
  /\ active.st # None => \E p \in Procs : Owns(p)
  /\ active.task # None => active.st # None
  /\ \A p \in Procs : Owns(p) =>
       active.st # None /\ active.task = IF frame[p].pc \in WorkPcs THEN p ELSE None
  /\ \A p \in Procs : frame[p].pc \in StatePcs => frame[p].st = active.st

UnreportedPcs == {"none", "settle"} \cup WorkPcs
Reported == \A t \in Turns : terminal[t] = IF frame[t].pc \in UnreportedPcs THEN 0 ELSE 1

Yielding == NoAborts /\ Exclusive /\ Reported

\* The owner goes on.
LEMMA OwnerMoves ==
    ASSUME Exclusive, NEW p \in Procs, NEW pc \in OwnPcs, NEW st, NEW task, MovesTo(p, pc, st, task),
           Owns(p), active'.st = active.st, active'.task = IF pc \in WorkPcs THEN p ELSE None,
           pc \in StatePcs => st = active.st
    PROVE  Exclusive'
<1>1. active.st # None /\ Owns(p)'
  BY DEF Exclusive, MovesTo, Owns
<1>2. \A q \in Procs \ {p} : ~ Owns(q) /\ frame'[q] = frame[q]
  BY DEF Exclusive, MovesTo
<1>3. StatePcs \subseteq OwnPcs
  BY DEF StatePcs, OwnPcs, StartPcs, FinishPcs
<1> QED BY <1>1, <1>2, <1>3 DEF Exclusive, MovesTo, Owns

\* The owner clears active_turn.
LEMMA OwnerReleases ==
    ASSUME Exclusive, NEW p \in Procs, NEW pc, pc \notin OwnPcs, NEW st, NEW task,
           MovesTo(p, pc, st, task), Owns(p), active'.st = None, active'.task = None
    PROVE  Exclusive'
<1>1. \A q \in Procs : ~ Owns(q)'
  BY DEF Exclusive, MovesTo, Owns
<1>2. StatePcs \subseteq OwnPcs
  BY DEF StatePcs, OwnPcs, StartPcs, FinishPcs
<1> QED BY <1>1, <1>2 DEF Exclusive, Owns

\* A process sets active_turn where it was unset.
LEMMA OwnerReserves ==
    ASSUME Exclusive, NEW p \in Procs, NEW pc \in OwnPcs \ WorkPcs, NEW st, NEW task,
           MovesTo(p, pc, st, task), active.st = None, active'.st # None, active'.task = None,
           pc \in StatePcs => st = active'.st
    PROVE  Exclusive'
<1>1. \A q \in Procs : ~ Owns(q)
  BY DEF Exclusive
<1>2. \A q \in Procs \ {p} : ~ Owns(q)' /\ frame'[q] = frame[q]
  BY <1>1 DEF MovesTo, Owns
<1>3. StatePcs \subseteq OwnPcs
  BY DEF StatePcs, OwnPcs, StartPcs, FinishPcs
<1> QED BY <1>2, <1>3 DEF Exclusive, MovesTo, Owns

\* A process that does not own active_turn goes on without it.
LEMMA BystanderMoves ==
    ASSUME Exclusive, NEW p \in Procs, NEW pc, pc \notin OwnPcs, NEW st, NEW task,
           MovesTo(p, pc, st, task), ~ Owns(p), active' = active
    PROVE  Exclusive'
<1>1. StatePcs \subseteq OwnPcs
  BY DEF StatePcs, OwnPcs, StartPcs, FinishPcs
<1>2. \A q \in Procs : Owns(q)' <=> Owns(q)
  BY DEF MovesTo, Owns
<1>3. \A q \in Procs : Owns(q) => frame'[q] = frame[q]
  BY DEF MovesTo
<1> QED BY <1>1, <1>2, <1>3 DEF Exclusive, Owns

\* The owner hands active_turn over to the task that it installs.
LEMMA OwnerInstalls ==
    ASSUME Exclusive, NEW p \in Procs, Owns(p), NEW t \in Turns, Installed(p, t)
    PROVE  Exclusive'
<1> USE ProcsApart
<1>1. Rest(p).pc \notin OwnPcs
  BY DEF Rest, Stopped, Idle, Blank, OwnPcs, RunPcs, StartPcs, FinishPcs, TryPcs
<1>2. ~ Owns(p)' /\ Owns(t)' /\ t \in Procs
  BY <1>1 DEF Installed, Owns, OwnPcs, RunPcs
<1>3. \A q \in Procs \ {p, t} : ~ Owns(q) /\ frame'[q] = frame[q]
  BY DEF Exclusive, Installed
<1>4. \A q \in Procs \ {t} : ~ Owns(q)'
  BY <1>2, <1>3 DEF Owns
<1>5. StatePcs \subseteq OwnPcs /\ "begin" \in WorkPcs /\ "begin" \notin StatePcs
  BY DEF StatePcs, OwnPcs, StartPcs, FinishPcs, TryPcs, WorkPcs, RunPcs
<1>6. active.st # None
  BY DEF Exclusive
<1> QED BY <1>2, <1>4, <1>5, <1>6 DEF Exclusive, Installed, Owns

\* The rest of the invariant after a step of one process.
LEMMA YieldingStep ==
    ASSUME TypeOK, Yielding, Exclusive', NEW p \in Procs, NEW pc, NEW st, NEW task,
           MovesTo(p, pc, st, task), MayBeAt(p, pc),
           \/ terminal' = terminal /\ (pc \in UnreportedPcs <=> frame[p].pc \in UnreportedPcs)
           \/ terminal' = terminal /\ p \notin Turns
           \/ terminal' = [terminal EXCEPT ![p] = @ + 1] /\ frame[p].pc = "settle" /\ pc = "clear",
           cancelled' = cancelled, budget'.aborts = budget.aborts,
           budget'.interrupts = budget.interrupts
    PROVE  Yielding'
<1> USE ProcsApart
<1>1. NoAborts'
  BY DEF Yielding, NoAborts, MovesTo
<1>2. ASSUME NEW t \in Turns
      PROVE  terminal'[t] = IF frame'[t].pc \in UnreportedPcs THEN 0 ELSE 1
  <2>1. terminal[t] = (IF frame[t].pc \in UnreportedPcs THEN 0 ELSE 1) /\ terminal \in [Turns -> Nat]
    BY DEF Yielding, Reported, TypeOK
  <2>2. CASE t # p
    BY <2>1, <2>2 DEF MovesTo
  <2>3. CASE t = p /\ terminal' = terminal
    BY <2>1, <2>3 DEF MovesTo, UnreportedPcs, WorkPcs, RunPcs
  <2>4. CASE t = p /\ terminal' # terminal
    BY <2>1, <2>4 DEF MovesTo, UnreportedPcs, WorkPcs, RunPcs
  <2> QED BY <2>2, <2>3, <2>4
<1> QED BY <1>1, <1>2 DEF Yielding, Reported

\* Facts about the sets of program counters.
LEMMA PcSets ==
    /\ StartPcs \subseteq OwnPcs /\ StartPcs \cap UnreportedPcs = {} /\ StartPcs \cap WorkPcs = {}
    /\ WorkPcs \subseteq OwnPcs /\ WorkPcs \subseteq UnreportedPcs /\ WorkPcs \cap StatePcs = {}
    /\ {"settle", "clear", "try_recheck", "try_clear", "try_still", "try_extend"} \subseteq OwnPcs \ WorkPcs
    /\ {"idle", "stopped", "none", "check_mail", "reserve_idle", "try_reserve"} \cap OwnPcs = {}
    /\ {"idle", "stopped", "check_mail", "reserve_idle", "clear"} \cap UnreportedPcs = {}
    /\ "settle" \in UnreportedPcs
    /\ StartPcs \cap StatePcs = {"start_extend"}
BY DEF OwnPcs, StatePcs, UnreportedPcs, WorkPcs, RunPcs, StartPcs, FinishPcs, TryPcs

\* start_task.
LEMMA YieldingStart ==
    ASSUME TypeOK, Yielding, NEW p \in Procs,
           \/ start_pending(p) \/ start_mail(p) \/ start_reserve(p)
           \/ start_extend(p) \/ start_install(p)
    PROVE  Yielding'
<1> USE ProcsApart, PcSets
<1>0. frame[p].pc \in StartPcs
  BY DEF start_pending, start_mail, start_reserve, start_extend, start_install, At, StartPcs
<1>1. Owns(p) /\ IsSome /\ active.task = None /\ Exclusive /\ MayBeAt(p, frame[p].pc)
  BY <1>0 DEF Owns, Yielding, Exclusive, NoAborts, IsSome
<1>2. \A pc \in StartPcs : MayBeAt(p, pc)
  BY <1>0, <1>1 DEF MayBeAt, StartPcs
<1>3. CASE ~ start_install(p)
  <2>1. \/ MovesTo(p, "start_mail", frame[p].st, frame[p].task)
        \/ MovesTo(p, "start_reserve", frame[p].st, frame[p].task)
        \/ MovesTo(p, "start_extend", active.st, frame[p].task)
        \/ MovesTo(p, "start_install", None, frame[p].task)
    <3>1. CASE start_pending(p)
      BY <3>1 DEF start_pending, TakePending, Goto, MovesTo, TypeOK
    <3>2. CASE start_mail(p)
      BY <3>2 DEF start_mail, MovesTo, TypeOK
    <3>3. CASE start_reserve(p)
      BY <1>1, <3>3 DEF start_reserve, MovesTo, TypeOK
    <3>4. CASE start_extend(p)
      BY <3>4 DEF start_extend, MovesTo, TypeOK
    <3> QED BY <1>3, <3>1, <3>2, <3>3, <3>4
  <2>2. UNCHANGED <<active, cancelled, terminal, budget>>
    BY <1>1, <1>3 DEF start_pending, TakePending, start_mail, start_reserve, start_extend
  <2>3. PICK pc, st, task :
             pc \in StartPcs /\ MovesTo(p, pc, st, task) /\ (pc = "start_extend" => st = active.st)
    BY <2>1 DEF StartPcs
  <2>4. Exclusive'
    BY <1>1, <2>2, <2>3, OwnerMoves
  <2> QED BY <1>0, <1>2, <2>2, <2>3, <2>4, YieldingStep
<1>4. CASE start_install(p)
  <2>1. PICK t \in Turns : Installed(p, t)
    BY <1>1, <1>4, InstallSteps
  <2>2. Exclusive'
    BY <1>1, <2>1, OwnerInstalls
  <2>3. Rest(p).pc = IF p \in Turns THEN "stopped" ELSE "idle"
    BY DEF Rest, Stopped, Idle, Blank
  <2>4. MayBeAt(t, "begin") /\ MayBeAt(p, Rest(p).pc)
    BY <1>1, <2>3 DEF MayBeAt, RunPcs
  <2>5. NoAborts'
    BY <2>1, <2>4 DEF Installed, Yielding, NoAborts
  <2>6. Reported'
    BY <1>0, <2>1, <2>3 DEF Installed, Yielding, Reported, UnreportedPcs, WorkPcs, RunPcs
  <2> QED BY <2>2, <2>5, <2>6 DEF Yielding
<1> QED BY <1>3, <1>4

\* A process returns that does not own active_turn.
LEMMA YieldingReturn ==
    ASSUME TypeOK, Yielding, NEW p \in Procs, Return(p), ~ Owns(p), frame[p].pc \notin UnreportedPcs,
           p # Guardian, UNCHANGED <<active, cancelled, terminal, budget>>
    PROVE  Yielding'
<1> USE ProcsApart, PcSets
<1>1. PICK pc \in {"idle", "stopped"} : MovesTo(p, pc, None, None) /\ (pc = "stopped" <=> p \in Turns)
  BY ReturnMoves
<1>2. Exclusive'
  BY <1>1, BystanderMoves DEF Yielding
<1>3. MayBeAt(p, pc)
  BY <1>1 DEF MayBeAt
<1> QED BY <1>1, <1>2, <1>3, YieldingStep

\* maybe_start_turn_for_pending_work.
LEMMA YieldingWake ==
    ASSUME TypeOK, Yielding, NEW p \in Procs, wake_check(p) \/ wake_reserve(p)
    PROVE  Yielding'
<1> USE ProcsApart, PcSets
<1>0. /\ frame[p].pc \in WakePcs /\ ~ Owns(p) /\ p # Guardian /\ frame[p].pc \notin UnreportedPcs
      /\ UNCHANGED <<cancelled, terminal, budget>> /\ Exclusive
  BY DEF wake_check, wake_reserve, At, Owns, WakePcs, Yielding, NoAborts, MayBeAt
<1>1. MayBeAt(p, "reserve_idle") /\ MayBeAt(p, "start")
  <2>1. MayBeAt(p, frame[p].pc)
    BY DEF Yielding, NoAborts
  <2> QED BY <1>0, <2>1 DEF MayBeAt, WakePcs, StartPcs
<1>2. CASE Return(p) /\ active' = active
  BY <1>0, <1>2, YieldingReturn
<1>3. CASE Goto(p, "reserve_idle") /\ active' = active
  <2>1. MovesPc(p, "reserve_idle")
    BY <1>3, GotoMoves
  <2>2. Exclusive'
    BY <1>0, <1>3, <2>1, BystanderMoves DEF MovesPc
  <2> QED BY <1>0, <1>1, <2>1, <2>2, YieldingStep DEF MovesPc
<1>4. CASE Goto(p, "start") /\ active.st = None /\ active'.st # None /\ active'.task = None
  <2>1. MovesPc(p, "start") /\ "start" \in StartPcs
    BY <1>4, GotoMoves DEF StartPcs
  <2>2. Exclusive'
    BY <1>0, <1>4, <2>1, OwnerReserves DEF MovesPc
  <2> QED BY <1>0, <1>1, <2>1, <2>2, YieldingStep DEF MovesPc
<1>5. wake_reserve(p) =>
        \/ Return(p) /\ active' = active
        \/ Goto(p, "start") /\ active.st = None /\ active'.st # None /\ active'.task = None
  <2>1. FreeStates # {} => Min(FreeStates) # None
    BY PickFacts, ProcFacts DEF FreeStates
  <2> QED BY <2>1 DEF wake_reserve, SetDefault, IsSome
<1>6. wake_check(p) => active' = active /\ (Return(p) \/ Goto(p, "reserve_idle"))
  BY DEF wake_check
<1> QED BY <1>2, <1>3, <1>4, <1>5, <1>6

\* The extension's call, from try_start_turn_if_idle on.
LEMMA YieldingIdleStart ==
    ASSUME TypeOK, Yielding, IdleStart
    PROVE  Yielding'
<1> USE ProcsApart, PcSets
<1>0. /\ UNCHANGED <<cancelled, terminal, budget>> /\ Exclusive
      /\ \A pc \in {"idle", "check_mail"} \cup StartPcs \cup TryPcs : MayBeAt(Extension, pc)
  BY DEF IdleStart, try_reserve, try_recheck, clear_reserved_idle_turn, try_still_reserved,
         try_extend, Yielding, MayBeAt, WakePcs
<1>1. CASE try_reserve /\ IsSome
  BY <1>0, <1>1, YieldingReturn DEF try_reserve, At, Owns, UnreportedPcs, WorkPcs, RunPcs
<1>2. CASE try_reserve /\ ~ IsSome
  <2>1. FreeStates # {} /\ Min(FreeStates) # None
    BY <1>2, PickFacts, ProcFacts DEF try_reserve, FreeStates
  <2>2. /\ MovesTo(Extension, "try_recheck", Min(FreeStates), frame[Extension].task)
        /\ active'.st = Min(FreeStates) /\ active'.task = None /\ active.st = None
    BY <1>2 DEF try_reserve, SetDefault, MovesTo, TypeOK, IsSome
  <2>3. Exclusive' /\ "try_recheck" \in TryPcs
    BY <1>0, <2>1, <2>2, OwnerReserves DEF TryPcs
  <2> QED BY <1>0, <2>2, <2>3, YieldingStep
<1>3. CASE try_recheck \/ try_extend \/ (try_still_reserved /\ IsReserved(Extension))
  <2>1. frame[Extension].pc \in {"try_recheck", "try_extend", "try_still"}
    BY <1>3 DEF try_recheck, try_extend, try_still_reserved, At
  <2>2. Owns(Extension) /\ active.task = None /\ frame[Extension].st = active.st
    BY <1>0, <2>1 DEF Owns, Exclusive, StatePcs, TryPcs
  <2>3. \/ MovesTo(Extension, "try_clear", frame[Extension].st, frame[Extension].task)
        \/ MovesTo(Extension, "try_still", frame[Extension].st, frame[Extension].task)
        \/ MovesTo(Extension, "try_extend", frame[Extension].st, frame[Extension].task)
        \/ MovesTo(Extension, "start", None, frame[Extension].task)
        \/ MovesTo(Extension, "start", None, None)
    <3>1. CASE try_recheck
      BY <3>1 DEF try_recheck, Goto, MovesTo, TypeOK
    <3>2. CASE try_extend
      BY <3>2 DEF try_extend, MovesTo, TypeOK, Blank
    <3>3. CASE try_still_reserved /\ IsReserved(Extension)
      BY <3>3 DEF try_still_reserved, MovesTo, TypeOK
    <3> QED BY <1>3, <3>1, <3>2, <3>3
  <2>4. active' = active
    BY <1>3 DEF try_recheck, try_extend, try_still_reserved
  <2>5. PICK pc, st, task :
              /\ pc \in {"try_clear", "try_still", "try_extend", "start"}
              /\ MovesTo(Extension, pc, st, task) /\ (pc \in StatePcs => st = active.st)
    BY <2>2, <2>3 DEF StatePcs, TryPcs
  <2>6. pc \in OwnPcs \ WorkPcs /\ pc \in StartPcs \cup TryPcs
    BY <2>5 DEF StartPcs, TryPcs
  <2>7. Exclusive'
    BY <1>0, <2>2, <2>4, <2>5, <2>6, OwnerMoves
  <2> QED BY <1>0, <2>5, <2>6, <2>7, YieldingStep
<1>4. CASE clear_reserved_idle_turn
  <2>1. frame[Extension].pc = "try_clear"
    BY <1>4 DEF clear_reserved_idle_turn, At
  <2>2. Owns(Extension) /\ IsReserved(Extension)
    BY <1>0, <2>1 DEF Owns, Exclusive, StatePcs, TryPcs, IsReserved
  <2>3. MovesTo(Extension, "check_mail", None, None) /\ active'.st = None /\ active'.task = None
    BY <1>4, <2>2 DEF clear_reserved_idle_turn, MovesTo, NoActiveTurn, Blank, TypeOK
  <2>4. Exclusive'
    BY <1>0, <2>2, <2>3, OwnerReleases
  <2> QED BY <1>0, <2>3, <2>4, YieldingStep
<1>5. CASE try_still_reserved /\ ~ IsReserved(Extension)
  BY <1>0, <1>5 DEF try_still_reserved, At, Exclusive, Owns, StatePcs, TryPcs, IsReserved
<1> QED BY <1>1, <1>2, <1>3, <1>4, <1>5 DEF IdleStart

\* A task.
LEMMA YieldingRun ==
    ASSUME TypeOK, Yielding, NEW t \in Turns, Run(t)
    PROVE  Yielding'
<1> USE ProcsApart, PcSets
<1>0. /\ Exclusive /\ cancelled = {} /\ cancelled' = cancelled
      /\ budget'.aborts = budget.aborts /\ budget'.interrupts = budget.interrupts
      /\ \A pc \in {"check_mail"} \cup WorkPcs \cup FinishPcs : MayBeAt(t, pc)
  BY DEF Run, run_begin, run_drain, run_drain_mail, sample_answer, sample_follow_up, sample_error,
         has_pending_input, run_end, finish_take, finish_settle, finish_clear, TakePending, TypeOK,
         Yielding, NoAborts, MayBeAt, WakePcs, WorkPcs, FinishPcs
<1>1. CASE \/ run_begin(t) \/ run_drain(t) \/ run_drain_mail(t)
           \/ sample_answer(t) \/ sample_follow_up(t) \/ sample_error(t)
           \/ has_pending_input(t) \/ run_end(t)
  <2>1. frame[t].pc \in WorkPcs
    BY <1>1 DEF run_begin, run_drain, run_drain_mail, sample_answer, sample_follow_up, sample_error,
                has_pending_input, run_end, At, WorkPcs, RunPcs
  <2>2. UNCHANGED <<active, terminal>>
    BY <1>1 DEF run_begin, run_drain, run_drain_mail, sample_answer, sample_follow_up, sample_error,
                has_pending_input, run_end, TakePending
  <2>3. PICK pc \in WorkPcs : MovesPc(t, pc)
    <3>1. CASE run_begin(t)
      BY <3>1 DEF run_begin, MovesPc, MovesTo, TypeOK, WorkPcs, RunPcs
    <3>2. CASE run_drain(t)
      BY <3>2 DEF run_drain, TakePending, Goto, MovesPc, MovesTo, TypeOK, WorkPcs, RunPcs
    <3>3. CASE run_drain_mail(t)
      BY <3>3 DEF run_drain_mail, MovesPc, MovesTo, TypeOK, WorkPcs, RunPcs
    <3>4. CASE \E pc \in {"check", "drain", "end", "finish"} : Goto(t, pc)
      BY <3>4, GotoMoves DEF WorkPcs, RunPcs
    <3> QED BY <1>0, <1>1, <3>1, <3>2, <3>3, <3>4
            DEF sample_answer, sample_follow_up, sample_error, has_pending_input, run_end
  <2>4. Owns(t) /\ active.task = t
    BY <1>0, <2>1 DEF Owns, Exclusive
  <2>5. Exclusive'
    BY <1>0, <2>2, <2>3, <2>4, OwnerMoves DEF MovesPc
  <2> QED BY <1>0, <2>1, <2>2, <2>3, <2>5, YieldingStep DEF MovesPc
<1>2. CASE finish_take(t)
  <2>1. frame[t].pc = "finish" /\ frame[t].pc \in WorkPcs
    BY <1>2 DEF finish_take, At, WorkPcs
  <2>2. Owns(t) /\ active.task = t /\ active.task # None
    BY <1>0, <2>1 DEF Owns, Exclusive
  <2>3. /\ MovesTo(t, "settle", active.st, frame[t].task) /\ terminal' = terminal
        /\ active'.st = active.st /\ active'.task = None
    BY <1>2, <2>2 DEF finish_take, MovesTo, TypeOK
  <2>4. Exclusive' /\ "settle" \in FinishPcs
    BY <1>0, <2>2, <2>3, OwnerMoves DEF FinishPcs
  <2> QED BY <1>0, <2>1, <2>3, <2>4, YieldingStep
<1>3. CASE finish_settle(t)
  <2>1. frame[t].pc = "settle" /\ frame[t].pc \in StatePcs
    BY <1>3 DEF finish_settle, At, StatePcs
  <2>2. Owns(t) /\ active.task = None /\ frame[t].st = active.st
    BY <1>0, <2>1 DEF Owns, Exclusive
  <2>3. /\ MovesPc(t, "clear") /\ terminal' = [terminal EXCEPT ![t] = @ + 1] /\ active' = active
    BY <1>3, GotoMoves DEF finish_settle
  <2>4. Exclusive' /\ "clear" \in FinishPcs
    BY <1>0, <2>2, <2>3, OwnerMoves DEF FinishPcs, MovesPc
  <2> QED BY <1>0, <2>1, <2>3, <2>4, YieldingStep DEF MovesPc
<1>4. CASE finish_clear(t)
  <2>1. frame[t].pc = "clear" /\ frame[t].pc \in StatePcs
    BY <1>4 DEF finish_clear, At, StatePcs
  <2>2. Owns(t) /\ IsReserved(t)
    BY <1>0, <2>1 DEF Owns, Exclusive, IsReserved
  <2>3. /\ MovesTo(t, "check_mail", None, frame[t].task) /\ terminal' = terminal
        /\ active'.st = None /\ active'.task = None
    BY <1>4, <2>2 DEF finish_clear, MovesTo, TypeOK, NoActiveTurn
  <2>4. Exclusive'
    BY <1>0, <2>2, <2>3, OwnerReleases
  <2> QED BY <1>0, <2>1, <2>3, <2>4, YieldingStep
<1> QED BY <1>1, <1>2, <1>3, <1>4 DEF Run

\* Submissions and calls.
LEMMA YieldingSubmit ==
    ASSUME NobodyAborts, TypeOK, Yielding, Submit \/ Call
    PROVE  Yielding'
<1> USE ProcsApart, PcSets
<1>1. ASSUME NEW m \in Mails, inter_agent_communication(m), frame' # frame
      PROVE  Yielding'
  <2>1. /\ frame[SubmissionLoop].pc = "idle" /\ UNCHANGED <<active, cancelled, terminal, budget>>
        /\ Goto(SubmissionLoop, "check_mail")
    BY <1>1 DEF inter_agent_communication, At
  <2>2. MovesPc(SubmissionLoop, "check_mail")
    BY <2>1, GotoMoves
  <2>3. Exclusive' /\ MayBeAt(SubmissionLoop, "check_mail")
    BY <2>1, <2>2, BystanderMoves DEF Yielding, MovesPc, Owns, MayBeAt, WakePcs
  <2> QED BY <2>1, <2>2, <2>3, YieldingStep DEF MovesPc
<1>2. ASSUME NEW i, try_start_turn_if_idle(i)
      PROVE  Yielding'
  <2>1. /\ frame[Extension].pc = "idle" /\ UNCHANGED <<active, cancelled, terminal, budget>>
        /\ MovesPc(Extension, "try_reserve")
    BY <1>2 DEF try_start_turn_if_idle, At, MovesPc, MovesTo, TypeOK
  <2>2. Exclusive' /\ MayBeAt(Extension, "try_reserve")
    BY <2>1, BystanderMoves DEF Yielding, MovesPc, Owns, MayBeAt, TryPcs
  <2> QED BY <2>1, <2>2, YieldingStep DEF MovesPc
<1>3. ASSUME frame' = frame, UNCHANGED <<active, cancelled, terminal, budget>>
      PROVE  Yielding'
  BY <1>3 DEF Yielding, NoAborts, Exclusive, Reported, Owns
<1>4. ~ interrupt /\ ~ abort_turn_if_active /\ \A i \in UserInputs : FALSE
  BY DEF interrupt, abort_turn_if_active, Yielding, NoAborts, NobodyAborts
<1> QED BY <1>1, <1>2, <1>3, <1>4
        DEF Submit, Call, inter_agent_communication, steer_input, inject_no_new_turn

\* Those that start turns yield to the one that owns active_turn.
LEMMA YieldingIsInvariant ==
    ASSUME NobodyAborts
    PROVE  Spec => []Yielding
<1>1. Init => Yielding
  <2> SUFFICES ASSUME Init PROVE Yielding
    OBVIOUS
  <2> USE ProcsApart, PcSets
  <2>1. \A t \in Turns : frame[t].pc = "none" /\ terminal[t] = 0
    BY DEF Init, Blank
  <2>2. \A p \in Procs \ Turns : frame[p].pc = "idle"
    BY DEF Init, Idle, Blank
  <2>3. active.st = None /\ active.task = None
    BY DEF Init, NoActiveTurn
  <2>4. NoAborts
    BY <2>1, <2>2 DEF Init, NoAborts, MayBeAt, NobodyAborts
  <2>5. \A p \in Procs : ~ Owns(p) /\ frame[p].pc \notin StatePcs
    BY <2>1, <2>2 DEF Owns, StatePcs, TryPcs
  <2>6. Exclusive
    BY <2>3, <2>5 DEF Exclusive
  <2>7. Reported
    BY <2>1 DEF Reported, UnreportedPcs
  <2> QED BY <2>4, <2>6, <2>7 DEF Yielding
<1>2. TypeOK /\ Yielding /\ [Next]_vars => Yielding'
  <2>1. ASSUME TypeOK, Yielding, Next
        PROVE  Yielding'
    <3>1. ASSUME NEW p \in Procs, Handler(p)
          PROVE  Yielding'
      <4>1. frame[p].pc \notin AbortPcs
        <5>1. MayBeAt(p, frame[p].pc)
          BY <2>1 DEF Yielding, NoAborts
        <5> QED BY <5>1, ProcsApart DEF MayBeAt, AbortPcs, WakePcs, StartPcs, TryPcs, RunPcs, FinishPcs
      <4>2. ~ abort_replaced(p) /\ ~ handle_task_abort(p) /\ ~ clear_pending(p)
        BY <4>1 DEF abort_replaced, handle_task_abort, clear_pending, At, AbortPcs
      <4> QED BY <2>1, <3>1, <4>2, YieldingStart, YieldingWake DEF Handler
    <3> QED BY <2>1, <3>1, YieldingIdleStart, YieldingRun, YieldingSubmit DEF Next
  <2>2. ASSUME Yielding, UNCHANGED vars
        PROVE  Yielding'
    BY <2>2 DEF vars, Yielding, NoAborts, Exclusive, Reported, Owns
  <2> QED BY <2>1, <2>2
<1> QED BY <1>1, <1>2, TypeCorrect, PTL DEF Spec

-----------------------------------------------------------------------------
(* Where nobody aborts, input is kept.                                     *)

\* Where a process may carry what it has drained, and what it starts a turn with;
\* and where the turn it is about to clear has no pending input.
HeldPcs == {"start_mail", "start_reserve", "start_extend", "drain_mail"}
InputPcs == StartPcs \cup TryPcs \cup {"begin"}
EmptyPcs == {"clear", "try_recheck", "try_clear", "try_still"}

Carries(p) ==
  /\ frame[p].held # {} => frame[p].pc \in HeldPcs
  /\ frame[p].input # {} => frame[p].pc \in InputPcs
  /\ frame[p].pc \in EmptyPcs => pending[frame[p].st] = {}

\* NothingLost, with the active turn's state for every state that is alive.
Somewhere(i) ==
  \/ i \in mailbox \/ i \in recorded \/ i \in unused
  \/ active.st # None /\ i \in pending[active.st]
  \/ \E p \in Procs : i \in frame[p].input \cup frame[p].held

Stored == (\A p \in Procs : Carries(p)) /\ \A i \in Items : Somewhere(i)

\* What a step of one process does to its frame.
GoesTo(p, pc, st, input, held) ==
  /\ frame'[p].pc = pc /\ frame'[p].st = st /\ frame'[p].input = input /\ frame'[p].held = held
  /\ \A q \in Procs \ {p} : frame'[q] = frame[q]

\* The step of a process: it carries what it may, the other processes have no turn
\* to clear or keep it empty, and each item that the process or the shared state
\* had is somewhere.
LEMMA StoredStep ==
    ASSUME TypeOK, Exclusive, Stored, NEW p \in Procs,
           \A q \in Procs \ {p} : frame'[q] = frame[q],
           Carries(p)',
           Owns(p) \/ \A s \in States : pending[s] = {} => pending'[s] = {},
           \A i \in Items :
             \/ i \in mailbox \/ i \in recorded \/ i \in unused
             \/ active.st # None /\ i \in pending[active.st]
             \/ i \in frame[p].input \cup frame[p].held
             => Somewhere(i)'
    PROVE  Stored'
<1>1. ASSUME NEW q \in Procs
      PROVE  Carries(q)'
  <2>1. CASE q = p
    BY <2>1
  <2>2. CASE q # p
    <3>1. Carries(q) /\ frame'[q] = frame[q] /\ (frame[q].pc \in EmptyPcs => Owns(q))
      BY <2>2 DEF Stored, EmptyPcs, Owns, OwnPcs, FinishPcs, TryPcs
    <3>2. frame[q].pc \in EmptyPcs => ~ Owns(p)
      BY <2>2, <3>1 DEF Exclusive
    <3>3. frame[q].pc \in EmptyPcs => frame[q].st \in States
      BY <2>2, <3>1 DEF Exclusive, TypeOK, EmptyPcs, StatePcs, TryPcs
    <3> QED BY <3>1, <3>2, <3>3 DEF Carries
  <2> QED BY <2>1, <2>2
<1>2. ASSUME NEW i \in Items
      PROVE  Somewhere(i)'
  <2>1. Somewhere(i)
    BY DEF Stored
  <2>2. ASSUME NEW q \in Procs \ {p}, i \in frame[q].input \cup frame[q].held
        PROVE  Somewhere(i)'
    BY <2>2 DEF Somewhere
  <2> QED BY <2>1, <2>2 DEF Somewhere
<1> QED BY <1>1, <1>2 DEF Stored

\* The program counter moves, and the process may come to know the turn's state.
LEMMA StoredMoves ==
    ASSUME TypeOK, Exclusive, Stored, NEW p \in Procs, NEW pc, NEW st,
           GoesTo(p, pc, st, frame[p].input, frame[p].held),
           frame[p].held # {} => pc \in HeldPcs, frame[p].input # {} => pc \in InputPcs,
           pc \in EmptyPcs => pending[st] = {},
           active'.st = active.st, pending' = pending,
           mailbox' = mailbox, recorded' = recorded, unused' = unused
    PROVE  Stored'
<1>1. Carries(p)'
  BY DEF Carries, GoesTo
<1>2. ASSUME NEW i \in Items,
             \/ i \in mailbox \/ i \in recorded \/ i \in unused
             \/ active.st # None /\ i \in pending[active.st]
             \/ i \in frame[p].input \cup frame[p].held
      PROVE  Somewhere(i)'
  BY <1>2 DEF Somewhere, GoesTo
<1> QED BY <1>1, <1>2, StoredStep DEF GoesTo

\* A process that carries nothing returns.
LEMMA StoredReturns ==
    ASSUME TypeOK, Exclusive, Stored, NEW p \in Procs, Return(p),
           frame[p].held = {}, frame[p].input = {},
           active' = active, pending' = pending,
           mailbox' = mailbox, recorded' = recorded, unused' = unused
    PROVE  Stored'
<1>1. GoesTo(p, Rest(p).pc, None, {}, {}) /\ Rest(p).pc \in {"idle", "stopped"}
  BY PcFacts DEF Return, GoesTo, TypeOK
<1> QED BY <1>1, StoredMoves DEF EmptyPcs

\* get_pending_input takes the pending input of the turn.
LEMMA StoredTakes ==
    ASSUME TypeOK, Exclusive, Stored, NEW p \in Procs, NEW mailPc \in HeldPcs, NEW otherPc,
           frame[p].pc \in {"start", "drain"}, {mailPc, otherPc} \cap EmptyPcs = {},
           frame[p].input # {} => mailPc \in InputPcs /\ otherPc \in InputPcs,
           TakePending(p, mailPc, otherPc)
    PROVE  Stored'
<1>0. frame[p].held = {} /\ Owns(p) /\ active.st # None
  <2>1. Owns(p)
    BY DEF Owns, OwnPcs, StartPcs, RunPcs
  <2> QED BY <2>1 DEF Stored, Carries, HeldPcs, Exclusive
<1>1. CASE IsSome /\ Accepts
  <2>1. /\ GoesTo(p, mailPc, frame[p].st, frame[p].input, pending[active.st])
        /\ pending' = [pending EXCEPT ![active.st] = {}]
        /\ UNCHANGED <<active, mailbox, recorded, unused>>
    BY <1>1 DEF TakePending, GoesTo, TypeOK
  <2>2. Carries(p)'
    BY <2>1 DEF Carries, GoesTo
  <2>3. ASSUME NEW i \in Items,
               \/ i \in mailbox \/ i \in recorded \/ i \in unused
               \/ active.st # None /\ i \in pending[active.st]
               \/ i \in frame[p].input \cup frame[p].held
        PROVE  Somewhere(i)'
    BY <1>0, <2>1, <2>3 DEF Somewhere, GoesTo
  <2> QED BY <1>0, <2>1, <2>2, <2>3, StoredStep DEF GoesTo
<1>2. CASE ~ (IsSome /\ Accepts)
  <2>1. PICK pc \in {mailPc, otherPc} : Goto(p, pc)
    BY <1>2 DEF TakePending
  <2>2. GoesTo(p, pc, frame[p].st, frame[p].input, frame[p].held)
    BY <2>1 DEF Goto, GoesTo, TypeOK
  <2>3. UNCHANGED <<active, pending, mailbox, recorded, unused>>
    BY <1>2 DEF TakePending
  <2> QED BY <1>0, <2>2, <2>3, StoredMoves
<1> QED BY <1>1, <1>2

\* start_task.
LEMMA StoredStart ==
    ASSUME TypeOK, Exclusive, Stored, NEW p \in Procs,
           \/ start_pending(p) \/ start_mail(p) \/ start_reserve(p)
           \/ start_extend(p) \/ start_install(p)
    PROVE  Stored'
<1> USE ProcsApart
<1>0. frame[p].pc \in StartPcs
  BY DEF start_pending, start_mail, start_reserve, start_extend, start_install, At, StartPcs
<1>1. Owns(p) /\ IsSome /\ active.task = None /\ active.st \in States
  BY <1>0, PcSets DEF Owns, Exclusive, IsSome, TypeOK
<1>2. CASE start_pending(p)
  BY <1>0, <1>2, StoredTakes DEF start_pending, At, HeldPcs, EmptyPcs, InputPcs, StartPcs
<1>3. CASE start_mail(p)
  <2>1. /\ GoesTo(p, "start_reserve", frame[p].st, frame[p].input, frame[p].held \cup mailbox)
        /\ UNCHANGED <<active, pending, recorded, unused>>
    BY <1>3 DEF start_mail, GoesTo, TypeOK
  <2>2. Carries(p)'
    BY <2>1 DEF Carries, GoesTo, HeldPcs, InputPcs, EmptyPcs, StartPcs
  <2>3. ASSUME NEW i \in Items,
               \/ i \in mailbox \/ i \in recorded \/ i \in unused
               \/ active.st # None /\ i \in pending[active.st]
               \/ i \in frame[p].input \cup frame[p].held
        PROVE  Somewhere(i)'
    BY <2>1, <2>3 DEF Somewhere, GoesTo
  <2> QED BY <1>1, <2>1, <2>2, <2>3, StoredStep DEF GoesTo
<1>4. CASE start_reserve(p)
  <2>1. /\ GoesTo(p, "start_extend", active.st, frame[p].input, frame[p].held)
        /\ UNCHANGED <<active, pending, mailbox, recorded, unused>>
    BY <1>1, <1>4 DEF start_reserve, GoesTo, TypeOK
  <2> QED BY <2>1, StoredMoves DEF HeldPcs, InputPcs, EmptyPcs, StartPcs
<1>5. CASE start_extend(p)
  <2>1. frame[p].st = active.st
    BY <1>5 DEF start_extend, At, Exclusive, StatePcs
  <2>2. /\ GoesTo(p, "start_install", None, frame[p].input, {})
        /\ pending' = [pending EXCEPT ![active.st] = @ \cup frame[p].held]
        /\ UNCHANGED <<active, mailbox, recorded, unused>>
    BY <1>5, <2>1 DEF start_extend, GoesTo, TypeOK
  <2>3. Carries(p)'
    BY <2>2 DEF Carries, GoesTo, InputPcs, EmptyPcs, StartPcs
  <2>4. pending'[active.st] = pending[active.st] \cup frame[p].held
    BY <1>1, <2>2 DEF TypeOK
  <2>5. ASSUME NEW i \in Items,
               \/ i \in mailbox \/ i \in recorded \/ i \in unused
               \/ active.st # None /\ i \in pending[active.st]
               \/ i \in frame[p].input \cup frame[p].held
        PROVE  Somewhere(i)'
    BY <1>1, <2>2, <2>4, <2>5 DEF Somewhere, GoesTo, IsSome
  <2> QED BY <1>1, <2>2, <2>3, <2>5, StoredStep DEF GoesTo
<1>6. CASE start_install(p)
  <2>1. PICK t \in Turns : Installed(p, t)
    BY <1>1, <1>6, InstallSteps
  <2>2. frame[p].held = {} /\ frame[t].held = {} /\ frame[t].input = {}
    BY <1>6, <2>1 DEF start_install, At, Stored, Carries, Installed, HeldPcs, InputPcs, StartPcs, TryPcs
  <2>3. ASSUME NEW q \in Procs
        PROVE  Carries(q)'
    <3>1. CASE q = p
      BY <2>1, <3>1, PcFacts DEF Carries, Installed, EmptyPcs
    <3>2. CASE q = t
      BY <2>1, <3>2 DEF Carries, Installed, EmptyPcs, InputPcs
    <3>3. CASE q \notin {p, t}
      BY <2>1, <3>3 DEF Carries, Installed, Stored
    <3> QED BY <3>1, <3>2, <3>3
  <2>4. ASSUME NEW i \in Items
        PROVE  Somewhere(i)'
    <3>1. Somewhere(i)
      BY DEF Stored
    <3>2. ASSUME NEW q \in Procs, i \in frame[q].input \cup frame[q].held
          PROVE  \E r \in Procs : i \in frame'[r].input \cup frame'[r].held
      <4>1. CASE q = p
        BY <2>1, <2>2, <3>2, <4>1 DEF Installed
      <4>2. CASE q # p
        BY <2>1, <2>2, <3>2, <4>2 DEF Installed
      <4> QED BY <4>1, <4>2
    <3> QED BY <2>1, <3>1, <3>2 DEF Somewhere, Installed
  <2> QED BY <2>3, <2>4 DEF Stored
<1> QED BY <1>2, <1>3, <1>4, <1>5, <1>6

\* maybe_start_turn_for_pending_work.
LEMMA StoredWake ==
    ASSUME TypeOK, Exclusive, Stored, NEW p \in Procs, wake_check(p) \/ wake_reserve(p)
    PROVE  Stored'
<1>0. /\ frame[p].held = {} /\ frame[p].input = {} /\ UNCHANGED <<mailbox, recorded, unused>>
      /\ ~ Owns(p)
  BY DEF wake_check, wake_reserve, At, Stored, Carries, HeldPcs, InputPcs, StartPcs, TryPcs,
         Owns, OwnPcs, RunPcs, FinishPcs
<1>1. CASE Return(p) /\ UNCHANGED <<active, pending>>
  BY <1>0, <1>1, StoredReturns
<1>2. CASE wake_check(p) /\ Goto(p, "reserve_idle")
  <2>1. GoesTo(p, "reserve_idle", frame[p].st, frame[p].input, frame[p].held)
    BY <1>2 DEF Goto, GoesTo, TypeOK
  <2>2. UNCHANGED <<active, pending>>
    BY <1>2 DEF wake_check
  <2> QED BY <1>0, <2>1, <2>2, StoredMoves DEF EmptyPcs
<1>3. CASE wake_reserve(p) /\ ~ IsSome
  <2>1. /\ GoesTo(p, "start", frame[p].st, {}, {})
        /\ pending' = [pending EXCEPT ![Min(FreeStates)] = {}]
    BY <1>0, <1>3 DEF wake_reserve, SetDefault, Goto, GoesTo, TypeOK
  <2>2. Carries(p)' /\ \A s \in States : pending[s] = {} => pending'[s] = {}
    BY <2>1 DEF Carries, GoesTo, EmptyPcs, TypeOK
  <2>3. ASSUME NEW i \in Items,
               \/ i \in mailbox \/ i \in recorded \/ i \in unused
               \/ active.st # None /\ i \in pending[active.st]
               \/ i \in frame[p].input \cup frame[p].held
        PROVE  Somewhere(i)'
    BY <1>0, <1>3, <2>3 DEF Somewhere, IsSome
  <2> QED BY <2>1, <2>2, <2>3, StoredStep DEF GoesTo
<1>4. wake_reserve(p) /\ IsSome => Return(p) /\ UNCHANGED <<active, pending>>
  BY DEF wake_reserve
<1>5. wake_check(p) => UNCHANGED <<active, pending>> /\ (Return(p) \/ Goto(p, "reserve_idle"))
  BY DEF wake_check
<1> QED BY <1>1, <1>2, <1>3, <1>4, <1>5

\* The extension's call: what it was given is handed back or joins the turn.
LEMMA StoredIdleStart ==
    ASSUME TypeOK, Exclusive, Stored, IdleStart
    PROVE  Stored'
<1> USE ProcsApart
<1> DEFINE p == Extension
<1>0. /\ UNCHANGED <<mailbox, recorded>> /\ frame[p].pc \in TryPcs
      /\ frame[p].held = {} /\ frame[p].input \subseteq Items
  BY DEF IdleStart, try_reserve, try_recheck, clear_reserved_idle_turn, try_still_reserved,
         try_extend, At, Stored, Carries, HeldPcs, TryPcs, TypeOK
<1>1. frame[p].pc # "try_reserve" =>
        /\ Owns(p) /\ active.st \in States /\ active.st # None
        /\ active.task = None /\ frame[p].st = active.st
  BY <1>0 DEF Owns, OwnPcs, Exclusive, StatePcs, TypeOK, WorkPcs, RunPcs, TryPcs
<1>2. CASE try_reserve /\ IsSome
  <2>1. /\ GoesTo(p, "idle", None, {}, {}) /\ unused' = unused \cup frame[p].input
        /\ UNCHANGED <<active, pending>>
    BY <1>2 DEF try_reserve, Reject, Return, Rest, Idle, Blank, GoesTo, TypeOK
  <2>2. Carries(p)'
    BY <2>1 DEF Carries, GoesTo, EmptyPcs
  <2>3. ASSUME NEW i \in Items,
               \/ i \in mailbox \/ i \in recorded \/ i \in unused
               \/ active.st # None /\ i \in pending[active.st]
               \/ i \in frame[p].input \cup frame[p].held
        PROVE  Somewhere(i)'
    BY <1>0, <2>1, <2>3 DEF Somewhere
  <2> QED BY <2>1, <2>2, <2>3, StoredStep DEF GoesTo
<1>3. CASE try_reserve /\ ~ IsSome
  <2>0. Min(FreeStates) \in States
    BY <1>3, PickFacts DEF try_reserve, FreeStates
  <2>1. /\ GoesTo(p, "try_recheck", Min(FreeStates), frame[p].input, frame[p].held)
        /\ pending' = [pending EXCEPT ![Min(FreeStates)] = {}] /\ unused' = unused
    BY <1>3 DEF try_reserve, SetDefault, GoesTo, TypeOK
  <2>2. Carries(p)' /\ \A s \in States : pending[s] = {} => pending'[s] = {}
    BY <1>0, <2>0, <2>1 DEF Carries, GoesTo, TypeOK, InputPcs, TryPcs
  <2>3. ASSUME NEW i \in Items,
               \/ i \in mailbox \/ i \in recorded \/ i \in unused
               \/ active.st # None /\ i \in pending[active.st]
               \/ i \in frame[p].input \cup frame[p].held
        PROVE  Somewhere(i)'
    BY <1>0, <1>3, <2>1, <2>3 DEF Somewhere, IsSome, GoesTo
  <2> QED BY <2>1, <2>2, <2>3, StoredStep DEF GoesTo
<1>4. CASE try_recheck
  <2>1. PICK pc \in {"try_clear", "try_still"} : Goto(p, pc)
    BY <1>4 DEF try_recheck
  <2>2. GoesTo(p, pc, frame[p].st, frame[p].input, frame[p].held)
    BY <2>1 DEF Goto, GoesTo, TypeOK
  <2>3. pending[frame[p].st] = {} /\ UNCHANGED <<active, pending, unused>>
    BY <1>4 DEF try_recheck, At, Stored, Carries, EmptyPcs
  <2> QED BY <1>0, <2>2, <2>3, StoredMoves DEF InputPcs, TryPcs
<1>5. CASE clear_reserved_idle_turn
  <2>1. frame[p].pc = "try_clear" /\ IsReserved(p) /\ pending[active.st] = {}
    BY <1>1, <1>5 DEF clear_reserved_idle_turn, At, IsReserved, Stored, Carries, EmptyPcs
  <2>2. GoesTo(p, "check_mail", None, {}, {}) /\ unused' = unused \cup frame[p].input
    BY <1>5 DEF clear_reserved_idle_turn, Reject, GoesTo, Blank, TypeOK
  <2>3. Carries(p)'
    BY <2>2 DEF Carries, GoesTo, EmptyPcs
  <2>4. ASSUME NEW i \in Items,
               \/ i \in mailbox \/ i \in recorded \/ i \in unused
               \/ active.st # None /\ i \in pending[active.st]
               \/ i \in frame[p].input \cup frame[p].held
        PROVE  Somewhere(i)'
    BY <1>0, <2>1, <2>2, <2>4 DEF Somewhere
  <2> QED BY <1>1, <2>1, <2>2, <2>3, <2>4, StoredStep DEF GoesTo
<1>6. CASE try_still_reserved
  <2>1. frame[p].pc = "try_still" /\ IsReserved(p)
    BY <1>1, <1>6 DEF try_still_reserved, At, IsReserved
  <2>2. /\ \/ GoesTo(p, "try_extend", frame[p].st, frame[p].input, frame[p].held)
           \/ GoesTo(p, "start", None, frame[p].input, frame[p].held)
        /\ UNCHANGED <<active, pending, unused>>
    BY <1>6, <2>1 DEF try_still_reserved, GoesTo, TypeOK
  <2> QED BY <1>0, <2>2, StoredMoves DEF InputPcs, TryPcs, StartPcs, EmptyPcs
<1>7. CASE try_extend
  <2>1. frame[p].pc = "try_extend"
    BY <1>7 DEF try_extend, At
  <2>2. /\ GoesTo(p, "start", None, {}, {})
        /\ pending' = [pending EXCEPT ![active.st] = @ \cup frame[p].input]
        /\ UNCHANGED <<active, unused>>
    BY <1>1, <1>7, <2>1 DEF try_extend, GoesTo, Blank, TypeOK
  <2>3. Carries(p)' /\ pending'[active.st] = pending[active.st] \cup frame[p].input
    BY <1>1, <2>1, <2>2 DEF Carries, GoesTo, EmptyPcs, TypeOK
  <2>4. ASSUME NEW i \in Items,
               \/ i \in mailbox \/ i \in recorded \/ i \in unused
               \/ active.st # None /\ i \in pending[active.st]
               \/ i \in frame[p].input \cup frame[p].held
        PROVE  Somewhere(i)'
    BY <1>0, <1>1, <2>1, <2>2, <2>3, <2>4 DEF Somewhere
  <2> QED BY <1>1, <2>1, <2>2, <2>3, <2>4, StoredStep DEF GoesTo
<1> QED BY <1>2, <1>3, <1>4, <1>5, <1>6, <1>7 DEF IdleStart

\* A task: what it takes it records, and on_task_finished records what is left.
LEMMA StoredRun ==
    ASSUME TypeOK, Exclusive, Stored, cancelled = {}, NEW t \in Turns, Run(t)
    PROVE  Stored'
<1> USE ProcsApart
<1>1. CASE run_begin(t) \/ run_drain_mail(t)
  <2>0. frame[t].pc \in {"begin", "drain_mail"} /\ active' = active /\ Owns(t)
    BY <1>1 DEF run_begin, run_drain_mail, At, Owns, OwnPcs, RunPcs
  <2>1. /\ \E pc \in {"drain", "sample"} : GoesTo(t, pc, frame[t].st, {}, {})
        /\ UNCHANGED <<pending, unused>>
    <3>1. CASE run_begin(t)
      <4>1. frame[t].held = {}
        BY <3>1 DEF run_begin, At, Stored, Carries, HeldPcs
      <4> QED BY <3>1, <4>1 DEF run_begin, GoesTo, TypeOK
    <3>2. CASE run_drain_mail(t)
      <4>1. frame[t].input = {}
        BY <3>2 DEF run_drain_mail, At, Stored, Carries, InputPcs, StartPcs, TryPcs
      <4> QED BY <3>2, <4>1 DEF run_drain_mail, GoesTo, TypeOK
    <3> QED BY <1>1, <3>1, <3>2
  <2>2. /\ recorded \subseteq recorded' /\ frame[t].input \cup frame[t].held \subseteq recorded'
        /\ mailbox' = mailbox \/ mailbox \subseteq recorded'
    <3>1. CASE run_begin(t)
      BY <3>1 DEF run_begin, At, Stored, Carries, HeldPcs
    <3>2. CASE run_drain_mail(t)
      BY <3>2 DEF run_drain_mail, At, Stored, Carries, InputPcs, StartPcs, TryPcs
    <3> QED BY <1>1, <3>1, <3>2
  <2>3. Carries(t)'
    BY <2>1 DEF Carries, GoesTo, EmptyPcs
  <2>4. ASSUME NEW i \in Items,
               \/ i \in mailbox \/ i \in recorded \/ i \in unused
               \/ active.st # None /\ i \in pending[active.st]
               \/ i \in frame[t].input \cup frame[t].held
        PROVE  Somewhere(i)'
    BY <2>0, <2>1, <2>2, <2>4 DEF Somewhere
  <2> QED BY <2>0, <2>1, <2>3, <2>4, StoredStep DEF GoesTo
<1>2. CASE run_drain(t)
  <2>1. frame[t].pc = "drain" /\ frame[t].input = {}
    BY <1>2 DEF run_drain, At, Stored, Carries, InputPcs, StartPcs, TryPcs
  <2> QED BY <1>2, <2>1, StoredTakes DEF run_drain, HeldPcs, EmptyPcs
<1>3. CASE \/ sample_answer(t) \/ sample_follow_up(t) \/ sample_error(t)
           \/ has_pending_input(t) \/ run_end(t)
  <2>1. frame[t].input = {} /\ frame[t].held = {}
    BY <1>3 DEF sample_answer, sample_follow_up, sample_error, has_pending_input, run_end, At,
                Stored, Carries, InputPcs, StartPcs, TryPcs, HeldPcs
  <2>2. PICK pc \in {"check", "drain", "end", "finish"} : Goto(t, pc)
    BY <1>3 DEF sample_answer, sample_follow_up, sample_error, has_pending_input, run_end
  <2>3. GoesTo(t, pc, frame[t].st, frame[t].input, frame[t].held)
    BY <2>2 DEF Goto, GoesTo, TypeOK
  <2>4. UNCHANGED <<active, pending, mailbox, recorded, unused>>
    BY <1>3 DEF sample_answer, sample_follow_up, sample_error, has_pending_input, run_end
  <2> QED BY <2>1, <2>3, <2>4, StoredMoves DEF EmptyPcs
<1>4. CASE finish_take(t)
  <2>1. frame[t].input = {} /\ frame[t].held = {} /\ active.task # None
    BY <1>4 DEF finish_take, At, Stored, Carries, InputPcs, StartPcs, TryPcs, HeldPcs, Exclusive,
                Owns, OwnPcs, FinishPcs, WorkPcs
  <2>2. /\ GoesTo(t, "settle", active.st, frame[t].input, frame[t].held) /\ active'.st = active.st
        /\ UNCHANGED <<pending, mailbox, recorded, unused>>
    BY <1>4, <2>1 DEF finish_take, GoesTo, TypeOK
  <2> QED BY <2>1, <2>2, StoredMoves DEF EmptyPcs
<1>5. CASE finish_settle(t)
  <2>1. /\ frame[t].input = {} /\ frame[t].held = {} /\ Owns(t)
        /\ frame[t].st = active.st /\ active.st \in States
    BY <1>5 DEF finish_settle, At, Stored, Carries, InputPcs, StartPcs, TryPcs, HeldPcs, Exclusive,
                Owns, OwnPcs, FinishPcs, StatePcs, TypeOK
  <2>2. /\ GoesTo(t, "clear", active.st, {}, {})
        /\ pending' = [pending EXCEPT ![active.st] = {}]
        /\ recorded' = recorded \cup pending[active.st]
        /\ UNCHANGED <<active, mailbox, unused>>
    BY <1>5, <2>1 DEF finish_settle, Goto, GoesTo, TypeOK
  <2>3. Carries(t)'
    BY <2>1, <2>2 DEF Carries, GoesTo, TypeOK
  <2>4. ASSUME NEW i \in Items,
               \/ i \in mailbox \/ i \in recorded \/ i \in unused
               \/ active.st # None /\ i \in pending[active.st]
               \/ i \in frame[t].input \cup frame[t].held
        PROVE  Somewhere(i)'
    BY <2>1, <2>2, <2>4 DEF Somewhere
  <2> QED BY <2>1, <2>2, <2>3, <2>4, StoredStep DEF GoesTo
<1>6. CASE finish_clear(t)
  <2>0. frame[t].pc = "clear"
    BY <1>6 DEF finish_clear, At
  <2>1. /\ frame[t].input = {} /\ frame[t].held = {} /\ Owns(t)
        /\ IsReserved(t) /\ pending[active.st] = {}
    BY <2>0 DEF Stored, Carries, InputPcs, StartPcs, TryPcs, HeldPcs, Exclusive, IsReserved,
                Owns, OwnPcs, FinishPcs, StatePcs, EmptyPcs, WorkPcs, RunPcs
  <2>2. GoesTo(t, "check_mail", None, {}, {}) /\ UNCHANGED <<pending, mailbox, recorded, unused>>
    BY <1>6, <2>1 DEF finish_clear, GoesTo, TypeOK
  <2>3. Carries(t)'
    BY <2>2 DEF Carries, GoesTo, EmptyPcs
  <2>4. ASSUME NEW i \in Items,
               \/ i \in mailbox \/ i \in recorded \/ i \in unused
               \/ active.st # None /\ i \in pending[active.st]
               \/ i \in frame[t].input \cup frame[t].held
        PROVE  Somewhere(i)'
    BY <2>1, <2>2, <2>4 DEF Somewhere
  <2> QED BY <2>1, <2>2, <2>3, <2>4, StoredStep DEF GoesTo
<1> QED BY <1>1, <1>2, <1>3, <1>4, <1>5, <1>6 DEF Run

\* Submissions and calls; a steer finds a task, which is not yet at its end.
LEMMA StoredSubmit ==
    ASSUME NobodyAborts, Injections = {}, TypeOK, NoAborts, Exclusive, Stored, Submit \/ Call
    PROVE  Stored'
<1> USE ProcsApart
<1>1. ASSUME NEW m \in Mails, inter_agent_communication(m)
      PROVE  Stored'
  <2> DEFINE p == SubmissionLoop
  <2>0. /\ frame[p].pc = "idle" /\ unused' = unused \ {m} /\ mailbox' = mailbox \cup {m}
        /\ UNCHANGED <<active, pending, recorded>>
    BY <1>1 DEF inter_agent_communication, At
  <2>1. frame[p].input = {} /\ frame[p].held = {}
    BY <2>0 DEF Stored, Carries, InputPcs, StartPcs, TryPcs, HeldPcs
  <2>2. GoesTo(p, "idle", frame[p].st, {}, {}) \/ GoesTo(p, "check_mail", frame[p].st, {}, {})
    BY <1>1, <2>0, <2>1 DEF inter_agent_communication, Goto, GoesTo, TypeOK
  <2>3. Carries(p)'
    BY <2>2 DEF Carries, GoesTo, EmptyPcs
  <2>4. ASSUME NEW i \in Items,
               \/ i \in mailbox \/ i \in recorded \/ i \in unused
               \/ active.st # None /\ i \in pending[active.st]
               \/ i \in frame[p].input \cup frame[p].held
        PROVE  Somewhere(i)'
    BY <2>0, <2>1, <2>4 DEF Somewhere
  <2> QED BY <2>0, <2>2, <2>3, <2>4, StoredStep DEF GoesTo
<1>2. ASSUME NEW m \in IdleCalls, try_start_turn_if_idle(m)
      PROVE  Stored'
  <2> DEFINE p == Extension
  <2>0. /\ frame[p].pc = "idle" /\ unused' = unused \ {m}
        /\ UNCHANGED <<active, pending, mailbox, recorded>>
    BY <1>2 DEF try_start_turn_if_idle, At
  <2>1. frame[p].input = {} /\ frame[p].held = {}
    BY <2>0 DEF Stored, Carries, InputPcs, StartPcs, TryPcs, HeldPcs
  <2>2. GoesTo(p, "try_reserve", frame[p].st, {m}, {})
    BY <1>2, <2>1 DEF try_start_turn_if_idle, GoesTo, TypeOK
  <2>3. Carries(p)'
    BY <2>2 DEF Carries, GoesTo, EmptyPcs, InputPcs, TryPcs
  <2>4. ASSUME NEW i \in Items,
               \/ i \in mailbox \/ i \in recorded \/ i \in unused
               \/ active.st # None /\ i \in pending[active.st]
               \/ i \in frame[p].input \cup frame[p].held
        PROVE  Somewhere(i)'
    BY <2>0, <2>1, <2>2, <2>4 DEF Somewhere, GoesTo
  <2> QED BY <2>0, <2>2, <2>3, <2>4, StoredStep DEF GoesTo
<1>3. ASSUME NEW m \in Steers, steer_input(m)
      PROVE  Stored'
  <2>0. /\ unused' = unused \ {m} /\ pending' = [pending EXCEPT ![active.st] = @ \cup {m}]
        /\ UNCHANGED <<active, frame, mailbox, recorded>> /\ active.task # None
    BY <1>3 DEF steer_input, AppendToActive
  <2>1. active.st # None /\ active.st \in States
    BY <2>0 DEF Exclusive, TypeOK
  <2>2. ASSUME NEW q \in Procs
        PROVE  frame[q].pc \notin EmptyPcs
    BY <2>0 DEF Exclusive, Owns, OwnPcs, EmptyPcs, FinishPcs, TryPcs, WorkPcs, RunPcs
  <2>3. \A q \in Procs : Carries(q)'
    BY <2>0, <2>2 DEF Stored, Carries
  <2>4. pending'[active.st] = pending[active.st] \cup {m}
    BY <2>0, <2>1 DEF TypeOK
  <2>5. \A i \in Items : Somewhere(i)'
    BY <2>0, <2>1, <2>4 DEF Stored, Somewhere
  <2> QED BY <2>3, <2>5 DEF Stored
<1>4. ~ interrupt /\ ~ abort_turn_if_active /\ UserInputs = {}
  BY DEF interrupt, abort_turn_if_active, NoAborts, NobodyAborts
<1> QED BY <1>1, <1>2, <1>3, <1>4 DEF Submit, Call

\* Every item is stored somewhere.
LEMMA StoredIsInvariant ==
    ASSUME NobodyAborts, Injections = {}
    PROVE  Spec => []Stored
<1>1. Init => Stored
  <2> SUFFICES ASSUME Init PROVE Stored
    OBVIOUS
  <2>1. \A p \in Procs : frame[p].pc \in {"none", "idle"} /\ frame[p].input = {} /\ frame[p].held = {}
    BY DEF Init, Blank, Idle
  <2> QED BY <2>1 DEF Init, Stored, Carries, EmptyPcs, Somewhere
<1>2. TypeOK /\ Yielding /\ Stored /\ [Next]_vars => Stored'
  <2>1. ASSUME TypeOK, Yielding, Stored, Next
        PROVE  Stored'
    <3>0. Exclusive /\ NoAborts /\ cancelled = {}
      BY <2>1 DEF Yielding, NoAborts
    <3>1. ASSUME NEW p \in Procs, Handler(p)
          PROVE  Stored'
      <4>1. frame[p].pc \notin AbortPcs
        <5>1. MayBeAt(p, frame[p].pc)
          BY <3>0 DEF NoAborts
        <5> QED BY <5>1, ProcsApart DEF MayBeAt, AbortPcs, WakePcs, StartPcs, TryPcs, RunPcs, FinishPcs
      <4>2. ~ abort_replaced(p) /\ ~ handle_task_abort(p) /\ ~ clear_pending(p)
        BY <4>1 DEF abort_replaced, handle_task_abort, clear_pending, At, AbortPcs
      <4> QED BY <2>1, <3>0, <3>1, <4>2, StoredStart, StoredWake DEF Handler
    <3> QED BY <2>1, <3>0, <3>1, StoredIdleStart, StoredRun, StoredSubmit DEF Next
  <2>2. ASSUME Stored, UNCHANGED vars
        PROVE  Stored'
    BY <2>2 DEF vars, Stored, Carries, Somewhere
  <2> QED BY <2>1, <2>2
<1>3. Spec => []Yielding
  BY YieldingIsInvariant
<1> QED BY <1>1, <1>2, <1>3, TypeCorrect, PTL DEF Spec

-----------------------------------------------------------------------------
(* What the session promises in either setting.                            *)

\* start_task is never called while another task runs (its debug_assert!s): where
\* only the submission loop starts turns, a replaced or interrupted task has ended
\* before the next one is installed; where nobody aborts, active_turn is reserved
\* by one starter at a time.  The two kinds of starters together break it.
THEOREM OneTaskRuns == OnlyLoopStarts \/ NobodyAborts => (Spec => []AtMostOneTask)
<1> DEFINE R == {t \in Turns \ cancelled : frame[t].pc \in RunPcs}
<1>1. (\A t, u \in R : t = u) => AtMostOneTask
  <2> HIDE DEF R
  <2>1. (\A t, u \in R : t = u) => Cardinality(R) <= 1
    BY AtMostOne
  <2> QED BY <2>1 DEF R, AtMostOneTask
<1>2. Served => AtMostOneTask
  <2> SUFFICES ASSUME Served
               PROVE  \A t, u \in R : t = u
    BY <1>1
  <2>1. \A t \in R : t \in Turns /\ (active.task = t \/ Awaited(t))
    BY DEF Served, TurnState, WorkPcs
  <2> QED BY <2>1, ProcFacts DEF Served, LoopState, Awaited
<1>3. Yielding => AtMostOneTask
  <2> SUFFICES ASSUME Yielding
               PROVE  \A t, u \in R : t = u
    BY <1>1
  <2>1. \A t \in R : t \in Procs /\ Owns(t)
    BY ProcsApart DEF Owns, OwnPcs
  <2> QED BY <2>1 DEF Yielding, Exclusive
<1>4. CASE OnlyLoopStarts
  <2>1. Spec => []Served
    BY <1>4, ServedIsInvariant
  <2> QED BY <1>2, <2>1, PTL
<1>5. CASE NobodyAborts
  <2>1. Spec => []Yielding
    BY <1>5, YieldingIsInvariant
  <2> QED BY <1>3, <2>1, PTL
<1> QED BY <1>4, <1>5

\* Every task that is gone has sent TurnComplete or TurnAborted, or the loop's
\* abort_all_tasks, which waits for it, is about to report it.
THEOREM EndsAreReported == OnlyLoopStarts \/ NobodyAborts => (Spec => []EndedTurnsReported)
<1>1. Served => EndedTurnsReported
  BY ProcsApart DEF Served, TurnState, EndedTurnsReported, Awaited, At, Loop
<1>2. Yielding => EndedTurnsReported
  BY DEF Yielding, Reported, EndedTurnsReported, At, UnreportedPcs, WorkPcs, RunPcs
<1>3. CASE OnlyLoopStarts
  <2>1. Spec => []Served
    BY <1>3, ServedIsInvariant
  <2> QED BY <1>1, <2>1, PTL
<1>4. CASE NobodyAborts
  <2>1. Spec => []Yielding
    BY <1>4, YieldingIsInvariant
  <2> QED BY <1>2, <2>1, PTL
<1> QED BY <1>3, <1>4

\* No turn gets both TurnComplete and TurnAborted, however on_task_finished races
\* the abort that waits for it.
THEOREM EndsAreReportedOnce == OnlyLoopStarts \/ NobodyAborts => (Spec => []TerminalAtMostOnce)
<1>1. Served => TerminalAtMostOnce
  BY DEF Served, TurnState, TerminalAtMostOnce
<1>2. Yielding => TerminalAtMostOnce
  BY DEF Yielding, Reported, TerminalAtMostOnce
<1>3. CASE OnlyLoopStarts
  <2>1. Spec => []Served
    BY <1>3, ServedIsInvariant
  <2> QED BY <1>1, <2>1, PTL
<1>4. CASE NobodyAborts
  <2>1. Spec => []Yielding
    BY <1>4, YieldingIsInvariant
  <2> QED BY <1>2, <2>1, PTL
<1> QED BY <1>3, <1>4

\* active_turn does not stay set with nobody to finish it: a process will install
\* a task or clear it, or its task is alive.
THEOREM ActiveTurnIsOwned == OnlyLoopStarts \/ NobodyAborts => (Spec => []ActiveTurnOwned)
<1>1. TypeOK /\ Served => ActiveTurnOwned
  <2> SUFFICES ASSUME TypeOK, Served, IsSome
               PROVE  ActiveTurnOwned
    BY DEF ActiveTurnOwned
  <2>1. CASE active.task = None
    BY <2>1, ProcsApart DEF Served, TurnReserved, IsSome, ActiveTurnOwned, Loop, StartPcs, ReportPcs
  <2>2. CASE active.task # None
    <3>1. active.task \in Turns
      BY <2>2 DEF TypeOK
    <3> QED BY <2>2, <3>1 DEF Served, TurnState, ActiveTurnOwned, WorkPcs
  <2> QED BY <2>1, <2>2
<1>2. TypeOK /\ Yielding => ActiveTurnOwned
  <2> SUFFICES ASSUME TypeOK, Yielding, IsSome
               PROVE  ActiveTurnOwned
    BY DEF ActiveTurnOwned
  <2>1. PICK p \in Procs : Owns(p)
    BY DEF Yielding, Exclusive, IsSome
  <2>2. /\ active.task = IF frame[p].pc \in WorkPcs THEN p ELSE None
        /\ frame[p].pc \in StatePcs => frame[p].st = active.st
    BY <2>1 DEF Yielding, Exclusive
  <2>3. CASE frame[p].pc \in WorkPcs
    BY <2>2, <2>3, ProcsApart DEF ActiveTurnOwned, WorkPcs
  <2>4. CASE frame[p].pc \notin WorkPcs
    BY <2>1, <2>2, <2>4 DEF ActiveTurnOwned, Owns, OwnPcs, StatePcs, WorkPcs, FinishPcs, TryPcs
  <2> QED BY <2>3, <2>4
<1>3. CASE OnlyLoopStarts
  <2>1. Spec => []Served
    BY <1>3, ServedIsInvariant
  <2> QED BY <1>1, <2>1, TypeCorrect, PTL
<1>4. CASE NobodyAborts
  <2>1. Spec => []Yielding
    BY <1>4, YieldingIsInvariant
  <2> QED BY <1>2, <2>1, TypeCorrect, PTL
<1> QED BY <1>3, <1>4

\* A task begins when start_task installs it, and not otherwise.
LEMMA OnlyInstallBegins ==
    ASSUME TypeOK, Served, Next, NEW t \in Turns, At(t, "none"), ~ At(t, "none")'
    PROVE  \E p \in Procs : start_install(p)
<1> USE ProcsApart
<1> SUFFICES ASSUME \A p \in Procs : ~ start_install(p)
             PROVE  FALSE
  OBVIOUS
<1> DEFINE Alone(p) == frame[p].pc # "none" /\ \A q \in Procs \ {p} : frame'[q] = frame[q]
<1>1. ASSUME NEW p \in Procs, Alone(p)
      PROVE  FALSE
  BY <1>1 DEF At
<1>2. ASSUME NEW p \in Procs, Handler(p)
      PROVE  FALSE
  <2>1. CASE handle_task_abort(p)
    <3>1. p = SubmissionLoop /\ Loop.pc = "await_done"
      BY <2>1, WhoIsWhere DEF handle_task_abort, At, AbortPcs, Loop
    <3>2. frame[p].task \in Turns /\ frame[p].task # t
      BY <3>1 DEF Served, LoopState, Loop, At, WorkPcs, RunPcs
    <3>3. frame'[t] = frame[t]
      BY <2>1, <3>1, <3>2 DEF handle_task_abort, TypeOK
    <3> QED BY <3>3 DEF At
  <2>2. CASE ~ handle_task_abort(p)
    <3>1. Alone(p)
      BY <1>2, <2>2 DEF Handler, start_pending, start_mail, start_reserve, start_extend, wake_check,
                        wake_reserve, abort_replaced, clear_pending, TakePending, TakeActiveTurn,
                        Goto, Return, At, TypeOK
    <3> QED BY <1>1, <3>1
  <2> QED BY <2>1, <2>2
<1>3. ASSUME NEW u \in Turns, Run(u)
      PROVE  FALSE
  <2>1. Alone(u)
    BY <1>3 DEF Run, run_begin, run_drain, run_drain_mail, sample_answer, sample_follow_up,
                sample_error, has_pending_input, run_end, finish_take, finish_settle, finish_clear,
                TakePending, Goto, Return, At, TypeOK
  <2> QED BY <1>1, <2>1
<1>4. CASE IdleStart
  <2>1. Alone(Extension)
    BY <1>4 DEF IdleStart, try_reserve, try_recheck, clear_reserved_idle_turn, try_still_reserved,
                try_extend, Goto, Return, At, TypeOK
  <2> QED BY <1>1, <2>1
<1>5. CASE Submit \/ Call
  <2>1. Alone(SubmissionLoop) \/ Alone(Extension) \/ Alone(Guardian) \/ frame' = frame
    BY <1>5 DEF Submit, Call, user_input, inter_agent_communication, interrupt, steer_input,
                inject_no_new_turn, try_start_turn_if_idle, abort_turn_if_active, TakeActiveTurn,
                Goto, Return, At, TypeOK
  <2> QED BY <1>1, <2>1 DEF At
<1> QED BY <1>2, <1>3, <1>4, <1>5 DEF Next

\* No turn begins before the turns that were aborted for it have been reported:
\* abort_all_tasks sends TurnAborted before start_task installs the next task.
AbortsToldFirst ==
  [][\A t \in Turns : At(t, "none") /\ ~ At(t, "none")' =>
       \A u \in cancelled : terminal[u] = 1]_vars

\* TurnAborted of a replaced turn comes before anything of the turn that replaces
\* it, where only the submission loop starts turns.
THEOREM AbortsAreToldFirst == OnlyLoopStarts => (Spec => AbortsToldFirst)
<1> SUFFICES ASSUME OnlyLoopStarts
             PROVE  Spec => AbortsToldFirst
  OBVIOUS
<1> DEFINE Step == \A t \in Turns : At(t, "none") /\ ~ At(t, "none")' =>
                     \A u \in cancelled : terminal[u] = 1
<1>1. TypeOK /\ Served /\ [Next]_vars => [Step]_vars
  <2> SUFFICES ASSUME TypeOK, Served, Next,
                      NEW t \in Turns, At(t, "none"), ~ At(t, "none")', NEW u \in cancelled
               PROVE  terminal[u] = 1
    OBVIOUS
  <2>1. PICK p \in Procs : start_install(p)
    BY OnlyInstallBegins
  <2>2. p = SubmissionLoop
    BY <2>1, WhoIsWhere DEF start_install, At, StartPcs
  <2>3. u \in Turns /\ TurnState(u) /\ ~ Awaited(u)
    BY <2>1, <2>2 DEF TypeOK, Served, start_install, At, Awaited, Loop
  <2> QED BY <2>3 DEF TurnState, WorkPcs, RunPcs, LoopState, Awaited
<1>2. Spec => []Served
  BY ServedIsInvariant
<1> QED BY <1>1, <1>2, TypeCorrect, PTL DEF Spec, AbortsToldFirst

\* Where nobody aborts a turn, no accepted item is dropped: mail, steers and idle
\* work survive every drain, hand-over, rejection and end of a turn.
THEOREM InputIsKept ==
    NobodyAborts /\ Injections = {} => (Spec => []NothingLost)
<1>1. Stored => NothingLost
  <2> SUFFICES ASSUME Stored, NEW i \in Items
               PROVE  Places(i) # {}
    BY DEF NothingLost
  <2>1. Somewhere(i)
    BY DEF Stored
  <2>2. CASE i \in mailbox \/ i \in recorded \/ i \in unused
    BY <2>2, PlaceFacts
  <2>3. CASE active.st # None /\ i \in pending[active.st]
    <3>1. PendingAt(i, active.st)
      BY <2>3 DEF PendingAt, LiveStates, Held
    <3> QED BY <3>1, PlaceFacts
  <2>4. CASE \E p \in Procs : i \in frame[p].input \cup frame[p].held
    BY <2>4, PlaceFacts DEF CarriedBy
  <2> QED BY <2>1, <2>2, <2>3, <2>4 DEF Somewhere
<1> SUFFICES ASSUME NobodyAborts, Injections = {}
             PROVE  Spec => []NothingLost
  OBVIOUS
<1>2. Spec => []Stored
  BY StoredIsInvariant
<1> QED BY <1>1, <1>2, PTL
=============================================================================
