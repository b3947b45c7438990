------------------------- MODULE V2ResidencyProofs -------------------------
(***************************************************************************)
(* The residency list for every number of agents, concurrent tool calls    *)
(* and slots: slots are never leaked, no loaded agent escapes the list,    *)
(* and the capacity is exceeded by less than the number of calls.          *)
(***************************************************************************)
EXTENDS V2Residency, FiniteSetTheorems, SequenceTheorems, WellFoundedInduction, TLAPS

-----------------------------------------------------------------------------
(* Lists of residents.                                                     *)

\* A set of numbers that has 0 and with every number the next has them all.
LEMMA EveryNumber ==
    ASSUME NEW T, 0 \in T, \A n \in Nat : n \in T => n + 1 \in T
    PROVE  Nat \subseteq T
<1> DEFINE F == Nat \ T
           R == {ss \in Nat \X Nat : ss[1] < ss[2]}
<1> SUFFICES ASSUME F # {} PROVE FALSE
  OBVIOUS
<1>1. IsWellFoundedOn(R, Nat)
  BY NatLessThanWellFounded, Zenon DEF OpToRel
<1>2. F \subseteq Nat
  OBVIOUS
<1> HIDE DEF F, R
<1>3. PICK k \in F : \A l \in F : ~(<<l, k>> \in R)
  BY <1>1, <1>2, WFMin, Zenon
<1>4. k \in Nat /\ k # 0 /\ k - 1 \in Nat /\ k - 1 + 1 = k
  BY <1>3 DEF F
<1>5. <<k - 1, k>> \in R
  BY <1>4 DEF R
<1>6. k - 1 \notin F
  BY <1>3, <1>5
<1> QED BY <1>3, <1>4, <1>6 DEF F

\* What retain_others has kept of the first i entries.
Kept(list, a, f, i) ==
    IF i = 0 THEN <<>>
    ELSE IF list[i] = a THEN f[i - 1] ELSE Append(f[i - 1], list[i])

\* The recursive definition of retain_others has a solution.
LEMMA KeptExists ==
    ASSUME NEW S, NEW list \in Seq(S), NEW a
    PROVE  \E f : f = [i \in 0 .. Len(list) |-> Kept(list, a, f, i)]
<1> DEFINE n == Len(list)
           Upto(f, m) == \A i \in 0 .. n : i <= m => f[i] = Kept(list, a, f, i)
           T == {m \in Nat : m <= n => \E f \in [0 .. n -> Seq(S)] : Upto(f, m)}
<1>1. n \in Nat /\ \A i \in 1 .. n : list[i] \in S
  BY LenProperties, ElementOfSeq
<1>2. 0 \in T
  <2> DEFINE f == [i \in 0 .. n |-> <<>>]
  <2>1. f \in [0 .. n -> Seq(S)]
    BY EmptySeq
  <2>2. Upto(f, 0)
    BY <1>1 DEF Kept
  <2> QED BY <2>1, <2>2
<1>3. ASSUME NEW m \in Nat, m \in T
      PROVE  m + 1 \in T
  <2> SUFFICES ASSUME m + 1 <= n
               PROVE  \E f \in [0 .. n -> Seq(S)] : Upto(f, m + 1)
    OBVIOUS
  <2>1. PICK g \in [0 .. n -> Seq(S)] : Upto(g, m)
    BY <1>1, <1>3
  <2> DEFINE e == Kept(list, a, g, m + 1)
             f == [g EXCEPT ![m + 1] = e]
  <2>2. m + 1 \in 1 .. n /\ m \in 0 .. n /\ m + 1 # 0 /\ (m + 1) - 1 = m
    BY <1>1
  <2>3. e \in Seq(S)
    <3>1. g[m] \in Seq(S) /\ list[m + 1] \in S
      BY <1>1, <2>1, <2>2
    <3>2. e = IF list[m + 1] = a THEN g[m] ELSE Append(g[m], list[m + 1])
      BY <2>2 DEF Kept
    <3> HIDE DEF e
    <3> QED BY <3>1, <3>2, AppendProperties
  <2> HIDE DEF e
  <2>4. f \in [0 .. n -> Seq(S)] /\ \A i \in 0 .. n : f[i] = IF i = m + 1 THEN e ELSE g[i]
    BY <2>1, <2>2, <2>3
  <2> HIDE DEF f
  <2>5. ASSUME NEW i \in 0 .. n, i <= m + 1
        PROVE  f[i] = Kept(list, a, f, i)
    <3>1. i # 0 => f[i - 1] = g[i - 1]
      BY <1>1, <2>4, <2>5
    <3>2. Kept(list, a, f, i) = Kept(list, a, g, i)
      BY <3>1 DEF Kept
    <3>3. CASE i = m + 1
      BY <2>4, <3>2, <3>3 DEF e
    <3>4. CASE i # m + 1
      <4>1. i <= m
        BY <1>1, <2>5, <3>4
      <4> QED BY <2>1, <2>4, <3>2, <3>4, <4>1
    <3> QED BY <3>3, <3>4
  <2> QED BY <2>4, <2>5
<1>4. n \in T
  <2> HIDE DEF T
  <2> QED BY <1>1, <1>2, <1>3, EveryNumber
<1>5. PICK f \in [0 .. n -> Seq(S)] : Upto(f, n)
  BY <1>1, <1>4
<1>6. f = [i \in 0 .. n |-> Kept(list, a, f, i)]
  BY <1>1, <1>5
<1> QED BY <1>6

\* retain_others keeps the entries other than a, and nothing else.
LEMMA RetainFacts ==
    ASSUME NEW S, NEW list \in Seq(S), NEW a
    PROVE  /\ retain_others(list, a) \in Seq(S)
           /\ RangeOf(retain_others(list, a)) = RangeOf(list) \ {a}
<1> DEFINE n == Len(list)
           kept == CHOOSE f : f = [i \in 0 .. n |-> Kept(list, a, f, i)]
           Front(m) == {list[i] : i \in 1 .. m}
           T == {m \in Nat : m <= n => /\ kept[m] \in Seq(S)
                                       /\ RangeOf(kept[m]) = Front(m) \ {a}}
<1>1. n \in Nat /\ \A i \in 1 .. n : list[i] \in S
  BY LenProperties, ElementOfSeq
<1>2. kept = [i \in 0 .. n |-> Kept(list, a, kept, i)]
  BY KeptExists
<1>3. retain_others(list, a) = kept[n]
  BY DEF retain_others, Kept
<1> HIDE DEF kept
<1>4. 0 \in T
  <2>1. kept[0] = <<>>
    BY <1>1, <1>2 DEF Kept
  <2>2. Len(<<>>) = 0 /\ <<>> \in Seq(S)
    BY EmptySeq
  <2>3. 1 .. 0 = {}
    OBVIOUS
  <2>4. RangeOf(<<>>) = {} /\ Front(0) = {}
    BY <2>2, <2>3 DEF RangeOf
  <2> HIDE DEF Front
  <2> QED BY <2>1, <2>2, <2>4
<1>5. ASSUME NEW m \in Nat, m \in T
      PROVE  m + 1 \in T
  <2> SUFFICES ASSUME m + 1 <= n
               PROVE  kept[m + 1] \in Seq(S) /\ RangeOf(kept[m + 1]) = Front(m + 1) \ {a}
    OBVIOUS
  <2>1. kept[m] \in Seq(S) /\ RangeOf(kept[m]) = Front(m) \ {a}
    BY <1>1, <1>5
  <2>2. m + 1 \in 0 .. n /\ m + 1 # 0 /\ (m + 1) - 1 = m /\ m + 1 \in 1 .. n
    BY <1>1
  <2>3. kept[m + 1] = IF list[m + 1] = a THEN kept[m] ELSE Append(kept[m], list[m + 1])
    BY <1>2, <2>2 DEF Kept
  <2>4. Front(m + 1) = Front(m) \cup {list[m + 1]}
    <3>1. 1 .. m + 1 = (1 .. m) \cup {m + 1}
      OBVIOUS
    <3> QED BY <3>1
  <2> HIDE DEF Front
  <2>5. CASE list[m + 1] = a
    BY <2>1, <2>3, <2>4, <2>5
  <2>6. CASE list[m + 1] # a
    <3> DEFINE q == kept[m]
               x == list[m + 1]
    <3>1. /\ Append(q, x) \in Seq(S) /\ Len(Append(q, x)) = Len(q) + 1
          /\ \A i \in 1 .. Len(q) : Append(q, x)[i] = q[i]
          /\ Append(q, x)[Len(q) + 1] = x
      BY <1>1, <2>1, <2>2, AppendProperties
    <3>2. Len(q) \in Nat
      BY <2>1, LenProperties
    <3> HIDE DEF q, x
    <3>3. 1 .. Len(q) + 1 = (1 .. Len(q)) \cup {Len(q) + 1}
      BY <3>2
    <3>4. RangeOf(Append(q, x)) = RangeOf(q) \cup {x}
      BY <3>1, <3>3 DEF RangeOf
    <3> QED BY <2>1, <2>3, <2>4, <2>6, <3>1, <3>4 DEF q, x
  <2> QED BY <2>5, <2>6
<1>6. n \in T
  <2> HIDE DEF T
  <2> QED BY <1>1, <1>4, <1>5, EveryNumber
<1>7. RangeOf(list) = Front(n)
  BY DEF RangeOf
<1> QED BY <1>1, <1>3, <1>6, <1>7

\* A touched agent is in the list beside everybody who was.
LEMMA TouchFacts ==
    ASSUME NEW S, NEW list \in Seq(S), NEW a \in S
    PROVE  /\ touch_resident(list, a) \in Seq(S)
           /\ RangeOf(touch_resident(list, a)) = RangeOf(list) \cup {a}
<1> DEFINE q == retain_others(list, a)
<1>1. q \in Seq(S) /\ RangeOf(q) = RangeOf(list) \ {a}
  BY RetainFacts
<1>2. touch_resident(list, a) = Append(q, a)
  BY DEF touch_resident
<1> HIDE DEF q
<1>3. /\ Append(q, a) \in Seq(S) /\ Len(Append(q, a)) = Len(q) + 1
      /\ \A i \in 1 .. Len(q) : Append(q, a)[i] = q[i]
      /\ Append(q, a)[Len(q) + 1] = a
  BY <1>1, AppendProperties
<1>4. Len(q) \in Nat
  BY <1>1, LenProperties
<1>5. 1 .. Len(q) + 1 = (1 .. Len(q)) \cup {Len(q) + 1}
  BY <1>4
<1>6. RangeOf(Append(q, a)) = RangeOf(q) \cup {a}
  BY <1>3, <1>5 DEF RangeOf
<1> QED BY <1>1, <1>2, <1>3, <1>6

\* Taking entry i off the list, the ones before it going to the back, loses nobody else.
LEMMA RotateFacts ==
    ASSUME NEW S, NEW list \in Seq(S), NEW i \in 1 .. Len(list)
    PROVE  LET q == SubSeq(list, i + 1, Len(list)) \o SubSeq(list, 1, i - 1)
           IN  /\ q \in Seq(S)
               /\ RangeOf(q) \subseteq RangeOf(list)
               /\ RangeOf(list) \subseteq RangeOf(q) \cup {list[i]}
<1> DEFINE n == Len(list)
           s == SubSeq(list, i + 1, n)
           t == SubSeq(list, 1, i - 1)
           q == s \o t
<1>1. n \in Nat /\ i \in Nat /\ i >= 1 /\ i <= n /\ \A j \in 1 .. n : list[j] \in S
  BY LenProperties, ElementOfSeq
<1>2. /\ s \in Seq(S) /\ Len(s) = n - i
      /\ \A j \in 1 .. n - i : s[j] = list[i + j]
  <2>1. /\ s \in Seq(S) /\ Len(s) = (IF i + 1 <= n THEN n - (i + 1) + 1 ELSE 0)
        /\ \A j \in 1 .. n - (i + 1) + 1 : s[j] = list[i + 1 + j - 1]
    <3>1. i + 1 \in Int /\ n \in Int /\ \A j \in i + 1 .. n : list[j] \in S
      BY <1>1
    <3> QED BY <3>1, SubSeqProperties
  <2> HIDE DEF s
  <2> QED BY <1>1, <2>1
<1>3. /\ t \in Seq(S) /\ Len(t) = i - 1
      /\ \A j \in 1 .. i - 1 : t[j] = list[j]
  <2>1. /\ t \in Seq(S) /\ Len(t) = (IF 1 <= i - 1 THEN i - 1 - 1 + 1 ELSE 0)
        /\ \A j \in 1 .. i - 1 - 1 + 1 : t[j] = list[1 + j - 1]
    <3>1. 1 \in Int /\ i - 1 \in Int /\ \A j \in 1 .. i - 1 : list[j] \in S
      BY <1>1
    <3> QED BY <3>1, SubSeqProperties
  <2> HIDE DEF t
  <2> QED BY <1>1, <2>1
<1> HIDE DEF s, t
<1>4. /\ q \in Seq(S) /\ Len(q) = n - 1
      /\ \A j \in 1 .. n - 1 : q[j] = IF j <= n - i THEN s[j] ELSE t[j - (n - i)]
  <2>1. /\ q \in Seq(S) /\ Len(q) = Len(s) + Len(t)
        /\ \A j \in 1 .. Len(s) + Len(t) : q[j] = IF j <= Len(s) THEN s[j] ELSE t[j - Len(s)]
    BY <1>2, <1>3, ConcatProperties
  <2> HIDE DEF q
  <2> QED BY <1>1, <1>2, <1>3, <2>1
<1> HIDE DEF q
<1>5. ASSUME NEW j \in 1 .. n - 1
      PROVE  q[j] \in RangeOf(list)
  <2>1. j <= n - i => q[j] = list[i + j] /\ i + j \in 1 .. n
    BY <1>1, <1>2, <1>4
  <2>2. ~(j <= n - i) => q[j] = list[j - (n - i)] /\ j - (n - i) \in 1 .. n
    <3>1. ~(j <= n - i) => j - (n - i) \in 1 .. i - 1 /\ j - (n - i) \in 1 .. n
      BY <1>1
    <3>2. ~(j <= n - i) => q[j] = t[j - (n - i)]
      BY <1>4
    <3> QED BY <1>3, <3>1, <3>2
  <2> QED BY <2>1, <2>2 DEF RangeOf
<1>6. ASSUME NEW j \in 1 .. n, j # i
      PROVE  list[j] \in RangeOf(q)
  <2>1. CASE j > i
    <3>1. j - i \in 1 .. n - 1 /\ j - i \in 1 .. n - i /\ i + (j - i) = j
      BY <1>1, <2>1
    <3>2. q[j - i] = s[j - i]
      <4>1. j - i <= n - i
        BY <1>1
      <4> QED BY <1>4, <3>1, <4>1
    <3>3. q[j - i] = list[j]
      <4>1. s[j - i] = list[i + (j - i)]
        BY <1>2, <3>1
      <4> QED BY <3>1, <3>2, <4>1
    <3> QED BY <1>4, <3>1, <3>3 DEF RangeOf
  <2>2. CASE j < i
    <3>1. /\ (n - i) + j \in 1 .. n - 1 /\ ~((n - i) + j <= n - i)
          /\ ((n - i) + j) - (n - i) = j /\ j \in 1 .. i - 1
      BY <1>1, <2>2
    <3>2. q[(n - i) + j] = list[j]
      BY <1>3, <1>4, <3>1
    <3> QED BY <1>4, <3>1, <3>2 DEF RangeOf
  <2> QED BY <1>1, <1>6, <2>1, <2>2
<1>7. RangeOf(q) \subseteq RangeOf(list)
  BY <1>4, <1>5 DEF RangeOf
<1>8. RangeOf(list) \subseteq RangeOf(q) \cup {list[i]}
  BY <1>6 DEF RangeOf
<1> QED BY <1>4, <1>7, <1>8 DEF q, s, t

\* The agents of a list are no more than its entries.
LEMMA RangeBounded ==
    ASSUME NEW S, NEW list \in Seq(S)
    PROVE  IsFiniteSet(RangeOf(list)) /\ Cardinality(RangeOf(list)) <= Len(list)
<1> DEFINE f == [i \in 1 .. Len(list) |-> list[i]]
<1>1. Len(list) \in Nat
  BY LenProperties
<1>2. f \in Surjection(1 .. Len(list), RangeOf(list))
  BY DEF Surjection, RangeOf
<1>3. IsFiniteSet(1 .. Len(list)) /\ Cardinality(1 .. Len(list)) = Len(list)
  BY <1>1, FS_Interval
<1> HIDE DEF f
<1> QED BY <1>2, <1>3, FS_Surjection

-----------------------------------------------------------------------------
(* The inductive invariant.                                                *)

Unloading == {"lookup", "status", "turn", "mailbox", "shutdown", "terminating"}
Committing == {"commit_spawn", "commit_reload"}

\* What the local variables of a tool call are where it uses them.
WellShaped(k, n) ==
    /\ k.pc # "idle" => k.message \in Messages
    /\ k.pc \in {"load", "touch", "capacity", "submit", "send", "died"} \cup Committing
         => k.agent \in Agents
    /\ k.pc \in Unloading <=> k.candidate \in Agents
    /\ k.pc \in (Unloading \ {"lookup"}) \cup {"send"} => k.handle \in 1 .. n

CallersShaped == \A c \in Callers : WellShaped(caller[c], Len(session))

\* The thread manager knows only sessions that exist.
ThreadsExist ==
    /\ Len(session) <= MaxSessions
    /\ \A a \in Agents : threads[a] # None => threads[a] \in 1 .. Len(session)

\* The agents that are listed, or that a scan or a commit is about to list (again), ...
InHand == {caller[c].candidate : c \in Callers} \ {None}
BeingListed == {caller[c].agent : c \in {d \in Callers : caller[d].pc \in Committing}}
Tracked == RangeOf(residents) \cup InHand \cup BeingListed

\* ... and the calls that may bring in another one.
Creating == {c \in Callers : caller[c].pc = "create"}

\* Together they exceed the capacity by at most one for every other call: a slot is
\* granted by the length of the list, which misses what other calls have in hand.
FootprintBounded ==
    Cardinality(Tracked) + Cardinality(Creating) <= Capacity + Cardinality(Callers) - 1

IInv ==
    /\ TypeOK /\ CallersShaped /\ ThreadsExist
    /\ SlotsBalanced /\ LoadedIsTracked /\ FootprintBounded

SessionState ==
    [agent: Agents, alive: BOOLEAN, status: {"PendingInit", "Running", "Final", "Shutdown"},
     turn: {"none", "running", "finishing"},
     mailbox: SUBSET Messages, queue: Seq(Messages \cup {Shutdown})]
CallerState ==
    [pc: ProgramCounters, agent: Agents \cup {None}, message: Messages \cup {None},
     scan: Nat, candidate: Agents \cup {None}, handle: Sessions \cup {None}]

\* None is no agent, message or session.
LEMMA NoneFacts ==
    None \notin Agents /\ None \notin Messages /\ None \notin Nat /\ None \notin Sessions
BY ResidencyAssumption DEF Sessions

-----------------------------------------------------------------------------
(* Sessions.                                                               *)

\* Every step leaves the sessions alone, replaces the state of one, or creates one.
SessionMove ==
    \/ session' = session
    \/ \E i \in 1 .. Len(session), s \in SessionState : session' = [session EXCEPT ![i] = s]
    \/ \E a \in Agents : Len(session) < MaxSessions /\ session' = Append(session, NewSession(a))

\* The session list changes in no other way.
LEMMA SessionMoves ==
    ASSUME TypeOK, CallersShaped, Next
    PROVE  SessionMove
<1> USE NoneFacts
<1>0. /\ session \in Seq(SessionState) /\ DOMAIN session = 1 .. Len(session)
      /\ \A i \in 1 .. Len(session) : session[i] \in SessionState
  BY LenProperties, ElementOfSeq DEF TypeOK, SessionState
<1>1. ASSUME NEW c \in Callers, shutdown_and_wait(c)
      PROVE  SessionMove
  <2> DEFINE i == caller[c].handle
             q == Append(session[i].queue, Shutdown)
             s == [session[i] EXCEPT !.queue = q]
  <2>1. i \in 1 .. Len(session)
    BY <1>1 DEF CallersShaped, WellShaped, shutdown_and_wait, At, Unloading
  <2>2. q \in Seq(Messages \cup {Shutdown})
    BY <1>0, <2>1, AppendProperties DEF SessionState
  <2> HIDE DEF q
  <2>3. s \in SessionState
    BY <1>0, <2>1, <2>2 DEF SessionState
  <2>4. session' = session \/ session' = [session EXCEPT ![i] = s]
    BY <1>1 DEF shutdown_and_wait, q
  <2> QED BY <2>1, <2>3, <2>4 DEF SessionMove
<1>2. ASSUME NEW c \in Callers, submit_with_trace(c)
      PROVE  SessionMove
  <2> DEFINE i == caller[c].handle
             q == Append(session[i].queue, caller[c].message)
             s == [session[i] EXCEPT !.queue = q]
  <2>1. i \in 1 .. Len(session) /\ caller[c].message \in Messages
    BY <1>2 DEF CallersShaped, WellShaped, submit_with_trace, At, Unloading
  <2>2. q \in Seq(Messages \cup {Shutdown})
    BY <1>0, <2>1, AppendProperties DEF SessionState
  <2> HIDE DEF q
  <2>3. s \in SessionState
    BY <1>0, <2>1, <2>2 DEF SessionState
  <2>4. session' = session \/ session' = [session EXCEPT ![i] = s]
    BY <1>2 DEF submit_with_trace, q
  <2> QED BY <2>1, <2>3, <2>4 DEF SessionMove
<1>3. ASSUME NEW c \in Callers, NEW a \in Agents, create_thread(c, a)
      PROVE  SessionMove
  BY <1>3 DEF create_thread, SessionMove
<1>4. ASSUME NEW i \in 1 .. Len(session), process_communication(i)
      PROVE  SessionMove
  <2> DEFINE m == Head(session[i].queue)
             q == Tail(session[i].queue)
             s == [session[i] EXCEPT !.queue = q, !.mailbox = @ \cup {m}]
  <2>1. m \in Messages /\ q \in Seq(Messages \cup {Shutdown})
    BY <1>0, <1>4, HeadTailProperties DEF SessionState, process_communication
  <2>2. session' = [session EXCEPT ![i] = StartedTurn(s)] \/ session' = [session EXCEPT ![i] = s]
    BY <1>4 DEF process_communication
  <2> HIDE DEF m, q
  <2>3. s \in SessionState
    BY <1>0, <2>1 DEF SessionState
  <2> HIDE DEF s
  <2>4. StartedTurn(s) \in SessionState
    BY <2>3 DEF SessionState, StartedTurn
  <2> QED BY <2>2, <2>3, <2>4 DEF SessionMove
<1>5. ASSUME NEW i \in 1 .. Len(session), process_shutdown(i)
      PROVE  SessionMove
  <2> DEFINE s == [session[i] EXCEPT !.alive = FALSE, !.status = "Shutdown", !.turn = "none",
                                     !.mailbox = {}, !.queue = <<>>]
  <2>1. s \in SessionState
    BY <1>0, EmptySeq DEF SessionState
  <2>2. session' = [session EXCEPT ![i] = s]
    BY <1>5 DEF process_shutdown
  <2> QED BY <2>1, <2>2 DEF SessionMove
<1>6. ASSUME NEW i \in 1 .. Len(session), turn_takes_mail(i)
      PROVE  SessionMove
  <2> DEFINE s == [session[i] EXCEPT !.mailbox = {}]
  <2>1. s \in SessionState /\ session' = [session EXCEPT ![i] = s]
    BY <1>0, <1>6 DEF SessionState, turn_takes_mail
  <2> QED BY <2>1 DEF SessionMove
<1>7. ASSUME NEW i \in 1 .. Len(session), turn_finishes(i)
      PROVE  SessionMove
  <2> DEFINE s == [session[i] EXCEPT !.turn = "finishing", !.status = "Final"]
  <2>1. s \in SessionState /\ session' = [session EXCEPT ![i] = s]
    BY <1>0, <1>7 DEF SessionState, turn_finishes
  <2> QED BY <2>1 DEF SessionMove
<1>8. ASSUME NEW i \in 1 .. Len(session), turn_clears(i)
      PROVE  SessionMove
  <2> DEFINE s == [session[i] EXCEPT !.turn = "none"]
  <2>1. s \in SessionState /\ StartedTurn(session[i]) \in SessionState
    BY <1>0 DEF SessionState, StartedTurn
  <2>2. session' = [session EXCEPT ![i] = StartedTurn(session[i])] \/ session' = [session EXCEPT ![i] = s]
    BY <1>8 DEF turn_clears
  <2> QED BY <2>1, <2>2 DEF SessionMove
<1>9. ASSUME session' = session
      PROVE  SessionMove
  BY <1>9 DEF SessionMove
<1> QED BY <1>0, <1>1, <1>2, <1>3, <1>4, <1>5, <1>6, <1>7, <1>8, <1>9
    DEF Next, Calls, CallerStep, LoopStep, TurnStep, spawn_agent, send_message,
        ensure_v2_agent_loaded, touch_loaded_v2_residency, try_reserve_pending_slot,
        resident_count, pop_lru_candidate, lookup_candidate, is_unloadable, Check,
        remove_unloaded_thread, reload_raced, create_failed, commit_slot,
        ensure_execution_capacity, send_op, handle_thread_request_result

\* Sessions keep their type and are never forgotten.
LEMMA SessionsStep ==
    ASSUME TypeOK, CallersShaped, ThreadsExist, Next
    PROVE  /\ session' \in Seq(SessionState)
           /\ Len(session) \in Nat /\ Len(session') \in Nat
           /\ Len(session) <= Len(session') /\ Len(session') <= MaxSessions
<1>0. session \in Seq(SessionState) /\ Len(session) \in Nat /\ Len(session) <= MaxSessions
  BY LenProperties DEF TypeOK, SessionState, ThreadsExist
<1>1. CASE session' = session
  BY <1>0, <1>1
<1>2. ASSUME NEW i \in 1 .. Len(session), NEW s \in SessionState,
             session' = [session EXCEPT ![i] = s]
      PROVE  session' \in Seq(SessionState) /\ Len(session') = Len(session)
  BY <1>0, <1>2, ExceptSeq
<1>3. ASSUME NEW a \in Agents, Len(session) < MaxSessions,
             session' = Append(session, NewSession(a))
      PROVE  session' \in Seq(SessionState) /\ Len(session') = Len(session) + 1
  <2>1. NewSession(a) \in SessionState
    BY EmptySeq DEF NewSession, SessionState
  <2> QED BY <1>0, <1>3, <2>1, AppendProperties
<1> QED BY <1>0, <1>1, <1>2, <1>3, SessionMoves, ResidencyAssumption DEF SessionMove

-----------------------------------------------------------------------------
(* What a step of call c, which then is in state k, does to the residents. *)

Slotted == {"create"} \cup Committing
Outside(c, k) == caller[c].pc \notin Slotted /\ k.pc \notin Slotted /\ UNCHANGED pending_slots

Calm(c, k) ==
    /\ Outside(c, k) /\ UNCHANGED <<residents, threads>>
    /\ k.candidate = caller[c].candidate

Touched(c, k) ==
    /\ Outside(c, k) /\ UNCHANGED threads
    /\ k.candidate = caller[c].candidate
    /\ \E a \in Agents : threads[a] # None /\ residents' = touch_resident(residents, a)

Popped(c, k) ==
    /\ Outside(c, k) /\ UNCHANGED threads
    /\ caller[c].candidate = None
    /\ \E i \in 1 .. Len(residents) :
           /\ k.candidate = residents[i]
           /\ residents' = SubSeq(residents, i + 1, Len(residents)) \o SubSeq(residents, 1, i - 1)

PutBack(c, k) ==
    /\ Outside(c, k) /\ UNCHANGED threads
    /\ caller[c].candidate \in Agents /\ k.candidate = None
    /\ residents' = touch_resident(residents, caller[c].candidate)

GivenUp(c, k) ==
    /\ Outside(c, k) /\ UNCHANGED residents
    /\ caller[c].candidate \in Agents /\ k.candidate = None
    /\ threads' = [threads EXCEPT ![caller[c].candidate] = None]

Forgotten(c, k) ==
    /\ Outside(c, k)
    /\ k.candidate = caller[c].candidate
    /\ \E a \in Agents : /\ threads' = [threads EXCEPT ![a] = None]
                         /\ residents' = retain_others(residents, a)

Granted(c, k) ==
    /\ caller[c].pc \notin Slotted /\ k.pc = "create"
    /\ Len(residents) + pending_slots < Capacity
    /\ pending_slots' = pending_slots + 1 /\ UNCHANGED <<residents, threads>>
    /\ caller[c].candidate = None /\ k.candidate = None

Created(c, k) ==
    /\ caller[c].pc = "create" /\ k.pc \in Committing /\ UNCHANGED slotVars
    /\ caller[c].candidate = None /\ k.candidate = None
    /\ k.agent \in Agents
    /\ Len(session) < MaxSessions /\ Len(session') = Len(session) + 1
    /\ threads' = [threads EXCEPT ![k.agent] = Len(session) + 1]

Released(c, k) ==
    /\ caller[c].pc = "create" /\ k.pc \notin Slotted
    /\ pending_slots' = pending_slots - 1 /\ UNCHANGED <<residents, threads>>
    /\ caller[c].candidate = None /\ k.candidate = None

Committed(c, k) ==
    /\ caller[c].pc \in Committing /\ k.pc \notin Slotted
    /\ pending_slots' = pending_slots - 1 /\ UNCHANGED threads
    /\ caller[c].candidate = None /\ k.candidate = None
    /\ residents' = touch_resident(residents, caller[c].agent)

Effect(c, k) ==
    \/ Calm(c, k) \/ Touched(c, k) \/ Popped(c, k) \/ PutBack(c, k) \/ GivenUp(c, k)
    \/ Forgotten(c, k) \/ Granted(c, k) \/ Created(c, k) \/ Released(c, k) \/ Committed(c, k)

CallerMove(c, k) ==
    /\ caller' = [caller EXCEPT ![c] = k]
    /\ WellShaped(k, Len(session'))
    /\ Effect(c, k)

Move ==
    \/ UNCHANGED <<slotVars, threads, caller>>
    \/ \E c \in Callers, k \in CallerState : CallerMove(c, k)

\* What is known of a call that moves.
LEMMA CallerFacts ==
    ASSUME TypeOK, CallersShaped, ThreadsExist, NEW c \in Callers
    PROVE  /\ caller[c] \in CallerState
           /\ WellShaped(caller[c], Len(session))
           /\ caller[c].pc \notin Unloading => caller[c].candidate = None
           /\ Len(session) \in Nat /\ Len(residents) \in Nat /\ MaxSessions \in Nat
           /\ IdleCaller \in CallerState
<1>1. caller[c] \in CallerState
  BY DEF TypeOK, CallerState
<1>2. WellShaped(caller[c], Len(session))
  BY DEF CallersShaped
<1>3. caller[c].pc \notin Unloading => caller[c].candidate = None
  BY <1>1, <1>2 DEF WellShaped, CallerState
<1>4. Len(session) \in Nat /\ Len(residents) \in Nat /\ MaxSessions \in Nat
  BY LenProperties, ResidencyAssumption DEF TypeOK
<1>5. IdleCaller \in CallerState
  BY DEF IdleCaller, CallerState, ProgramCounters
<1> QED BY <1>1, <1>2, <1>3, <1>4, <1>5

\* Entry points and the load.
LEMMA EntryMoves ==
    ASSUME TypeOK, CallersShaped, ThreadsExist, NEW c \in Callers,
           \/ \E m \in Messages : spawn_agent(c, m) \/ \E a \in Agents : send_message(c, a, m)
           \/ ensure_v2_agent_loaded(c)
           \/ touch_loaded_v2_residency(c)
    PROVE  \E k \in CallerState : CallerMove(c, k)
<1> USE NoneFacts, CallerFacts DEF CallerMove, Effect, Outside, Slotted, Committing, Unloading, At
<1> DEFINE r == caller[c]
<1>1. ASSUME NEW m \in Messages, spawn_agent(c, m)
      PROVE  \E k \in CallerState : CallerMove(c, k)
  <2> DEFINE k == [IdleCaller EXCEPT !.pc = "reserve", !.message = m]
  <2>1. k \in CallerState /\ caller' = [caller EXCEPT ![c] = k] /\ session' = session
    BY <1>1 DEF CallerState, ProgramCounters, spawn_agent, IdleCaller
  <2>2. WellShaped(k, Len(session'))
    BY DEF WellShaped, IdleCaller
  <2>3. Calm(c, k)
    BY <1>1 DEF Calm, spawn_agent, IdleCaller, slotVars
  <2> QED BY <2>1, <2>2, <2>3
<1>2. ASSUME NEW m \in Messages, NEW a \in Agents, send_message(c, a, m)
      PROVE  \E k \in CallerState : CallerMove(c, k)
  <2> DEFINE k == [IdleCaller EXCEPT !.pc = "load", !.agent = a, !.message = m]
  <2>1. k \in CallerState /\ caller' = [caller EXCEPT ![c] = k] /\ session' = session
    BY <1>2 DEF CallerState, ProgramCounters, send_message, IdleCaller
  <2>2. WellShaped(k, Len(session'))
    BY DEF WellShaped, IdleCaller
  <2>3. Calm(c, k)
    BY <1>2 DEF Calm, send_message, IdleCaller, slotVars
  <2> QED BY <2>1, <2>2, <2>3
<1>3. ASSUME ensure_v2_agent_loaded(c)
      PROVE  \E k \in CallerState : CallerMove(c, k)
  <2>1. PICK k : /\ k \in {[r EXCEPT !.pc = "touch"], [r EXCEPT !.pc = "reserve"], IdleCaller}
                 /\ caller' = [caller EXCEPT ![c] = k] /\ session' = session
    BY <1>3 DEF ensure_v2_agent_loaded, Goto, Return
  <2>2. k \in CallerState /\ k.pc \in {"touch", "reserve", "idle"} /\ k.candidate = r.candidate
    BY <1>3, <2>1 DEF CallerState, ProgramCounters, IdleCaller, ensure_v2_agent_loaded
  <2>3. WellShaped(k, Len(session'))
    <3>1. r.pc = "load" /\ (k.pc # "idle" => k.message = r.message /\ k.agent = r.agent)
      BY <1>3, <2>1 DEF ensure_v2_agent_loaded, CallerState, IdleCaller
    <3> QED BY <2>2, <3>1 DEF WellShaped
  <2>4. Calm(c, k)
    BY <1>3, <2>2 DEF Calm, ensure_v2_agent_loaded, slotVars
  <2> QED BY <2>1, <2>2, <2>3, <2>4
<1>4. ASSUME touch_loaded_v2_residency(c)
      PROVE  \E k \in CallerState : CallerMove(c, k)
  <2> DEFINE k == [r EXCEPT !.pc = "capacity"]
  <2>1. k \in CallerState /\ caller' = [caller EXCEPT ![c] = k] /\ session' = session
    BY <1>4 DEF CallerState, ProgramCounters, touch_loaded_v2_residency, Goto
  <2>2. WellShaped(k, Len(session')) /\ r.agent \in Agents
    BY <1>4, <2>1 DEF WellShaped, touch_loaded_v2_residency
  <2>3. Calm(c, k) \/ Touched(c, k)
    BY <1>4, <2>2 DEF Calm, Touched, touch_loaded_v2_residency
  <2> QED BY <2>1, <2>2, <2>3
<1> QED BY <1>1, <1>2, <1>3, <1>4

\* Reserving a slot and unloading an idle agent for it.
LEMMA ReserveMoves ==
    ASSUME TypeOK, CallersShaped, ThreadsExist, NEW c \in Callers,
           \/ try_reserve_pending_slot(c) \/ resident_count(c) \/ pop_lru_candidate(c)
           \/ lookup_candidate(c) \/ is_unloadable(c) \/ shutdown_and_wait(c)
           \/ remove_unloaded_thread(c),
           Len(session') \in Nat, Len(session) <= Len(session')
    PROVE  \E k \in CallerState : CallerMove(c, k)
<1> USE NoneFacts, CallerFacts DEF CallerMove, Effect, Outside, Slotted, Committing, Unloading, At
<1> DEFINE r == caller[c]
<1>1. ASSUME try_reserve_pending_slot(c)
      PROVE  \E k \in CallerState : CallerMove(c, k)
  <2> DEFINE full == Len(residents) + pending_slots >= Capacity
             k == [r EXCEPT !.pc = IF full THEN "count" ELSE "create"]
  <2>1. k \in CallerState /\ caller' = [caller EXCEPT ![c] = k] /\ session' = session
    BY <1>1 DEF CallerState, ProgramCounters, try_reserve_pending_slot, Goto
  <2>2. WellShaped(k, Len(session')) /\ k.candidate = None /\ r.candidate = None
    BY <1>1, <2>1 DEF WellShaped, try_reserve_pending_slot, CallerState
  <2>3. CASE full
    <3>1. Calm(c, k)
      BY <1>1, <2>2, <2>3 DEF Calm, try_reserve_pending_slot
    <3> QED BY <2>1, <2>2, <3>1
  <2>4. CASE ~full
    <3>1. Len(residents) + pending_slots < Capacity
      BY <2>4, ResidencyAssumption DEF TypeOK
    <3>2. Granted(c, k)
      BY <1>1, <2>2, <2>4, <3>1 DEF Granted, try_reserve_pending_slot
    <3> QED BY <2>1, <2>2, <3>2
  <2> QED BY <2>3, <2>4
<1>2. ASSUME resident_count(c)
      PROVE  \E k \in CallerState : CallerMove(c, k)
  <2> DEFINE k == [r EXCEPT !.pc = "pop", !.scan = Len(residents)]
  <2>1. k \in CallerState /\ caller' = [caller EXCEPT ![c] = k] /\ session' = session
    BY <1>2 DEF CallerState, ProgramCounters, resident_count
  <2>2. WellShaped(k, Len(session'))
    BY <1>2, <2>1 DEF WellShaped, resident_count
  <2>3. Calm(c, k)
    BY <1>2 DEF Calm, resident_count, slotVars
  <2> QED BY <2>1, <2>2, <2>3
<1>3. ASSUME pop_lru_candidate(c)
      PROVE  \E k \in CallerState : CallerMove(c, k)
  <2> DEFINE i == IF residents # <<>> /\ Head(residents) = r.agent THEN 2 ELSE 1
             none == r.scan = 0 \/ Len(residents) < i
  <2>0. i \in {1, 2} /\ session' = session
    BY <1>3 DEF pop_lru_candidate
  <2>1. CASE none
    <3>1. caller' = [caller EXCEPT ![c] = IdleCaller] /\ residents' = residents
      BY <1>3, <2>1 DEF pop_lru_candidate, Return
    <3>2. WellShaped(IdleCaller, Len(session'))
      BY DEF WellShaped, IdleCaller
    <3>3. Calm(c, IdleCaller)
      BY <1>3, <3>1 DEF Calm, pop_lru_candidate, IdleCaller
    <3> QED BY <3>1, <3>2, <3>3
  <2>2. CASE ~none
    <3> DEFINE x == residents[i]
               k == [r EXCEPT !.pc = "lookup", !.scan = r.scan - 1, !.candidate = x]
    <3>1. /\ caller' = [caller EXCEPT ![c] = k]
          /\ residents' = SubSeq(residents, i + 1, Len(residents)) \o SubSeq(residents, 1, i - 1)
      BY <1>3, <2>2 DEF pop_lru_candidate
    <3> HIDE DEF i
    <3>2. i \in 1 .. Len(residents) /\ r.scan \in Nat /\ r.scan # 0
      BY <2>0, <2>2 DEF CallerState
    <3>3. x \in Agents
      BY <3>2, ElementOfSeq DEF TypeOK
    <3>4. r.scan - 1 \in Nat
      BY <3>2
    <3> HIDE DEF x
    <3>5. k \in CallerState
      BY <3>3, <3>4 DEF CallerState, ProgramCounters
    <3>6. WellShaped(k, Len(session'))
      <4>1. r.message \in Messages
        BY <1>3 DEF WellShaped, pop_lru_candidate
      <4>2. k.pc = "lookup" /\ k.candidate = x /\ k.message = r.message
        BY DEF CallerState
      <4> HIDE DEF k
      <4> QED BY <3>3, <4>1, <4>2 DEF WellShaped
    <3>7. Popped(c, k)
      BY <1>3, <3>1, <3>2 DEF Popped, pop_lru_candidate, x, CallerState
    <3> QED BY <3>1, <3>5, <3>6, <3>7
  <2> QED BY <2>1, <2>2
<1>4. ASSUME lookup_candidate(c)
      PROVE  \E k \in CallerState : CallerMove(c, k)
  <2> DEFINE i == threads[r.candidate]
  <2>0. r.candidate \in Agents /\ session' = session /\ r.pc = "lookup" /\ r.message \in Messages
    BY <1>4 DEF lookup_candidate, WellShaped
  <2>1. CASE i = None
    <3> DEFINE k == [r EXCEPT !.pc = "pop", !.candidate = None]
    <3>0. k \in CallerState
      BY DEF CallerState, ProgramCounters
    <3>1. k \in CallerState /\ caller' = [caller EXCEPT ![c] = k]
      <4>1. caller' = [caller EXCEPT ![c].pc = "pop", ![c].candidate = None]
        BY <1>4, <2>1 DEF lookup_candidate
      <4> QED BY <3>0, <4>1 DEF TypeOK
    <3>2. WellShaped(k, Len(session'))
      BY <2>0 DEF WellShaped, CallerState
    <3>3. GivenUp(c, k)
      BY <1>4, <2>0, <2>1 DEF GivenUp, lookup_candidate, slotVars, TypeOK, CallerState
    <3> QED BY <3>1, <3>2, <3>3
  <2>2. CASE i # None
    <3> DEFINE k == [r EXCEPT !.pc = "status", !.handle = i]
    <3>0. i \in 1 .. Len(session) /\ i \in Sessions
      BY <2>0, <2>2 DEF ThreadsExist, TypeOK
    <3>1. caller' = [caller EXCEPT ![c] = k]
      BY <1>4, <2>2 DEF lookup_candidate
    <3> HIDE DEF i
    <3>2. k \in CallerState
      BY <3>0 DEF CallerState, ProgramCounters
    <3>3. WellShaped(k, Len(session'))
      BY <2>0, <3>0 DEF WellShaped, CallerState
    <3>4. Calm(c, k)
      BY <1>4, <2>0 DEF Calm, lookup_candidate, slotVars, CallerState
    <3> QED BY <3>1, <3>2, <3>3, <3>4
  <2> QED BY <2>1, <2>2
<1>5. ASSUME NEW pc \in {"status", "turn", "mailbox"}, NEW holds,
             NEW next \in {"turn", "mailbox", "shutdown"}, Check(c, pc, holds, next)
      PROVE  \E k \in CallerState : CallerMove(c, k)
  <2>0. /\ r.candidate \in Agents /\ session' = session /\ r.pc \in {"status", "turn", "mailbox"}
        /\ r.message \in Messages /\ r.handle \in 1 .. Len(session)
    BY <1>5 DEF Check, WellShaped
  <2>1. CASE holds
    <3> DEFINE k == [r EXCEPT !.pc = next]
    <3>1. k \in CallerState /\ caller' = [caller EXCEPT ![c] = k]
      BY <1>5, <2>1 DEF CallerState, ProgramCounters, Check, Goto
    <3>2. WellShaped(k, Len(session'))
      BY <2>0 DEF WellShaped, CallerState
    <3>3. Calm(c, k)
      BY <1>5, <2>0, <2>1 DEF Calm, Check, CallerState
    <3> QED BY <3>1, <3>2, <3>3
  <2>2. CASE ~holds
    <3> DEFINE k == [r EXCEPT !.pc = "pop", !.candidate = None, !.handle = None]
    <3>1. k \in CallerState /\ caller' = [caller EXCEPT ![c] = k]
      BY <1>5, <2>2 DEF CallerState, ProgramCounters, Check
    <3>2. WellShaped(k, Len(session'))
      BY <2>0 DEF WellShaped, CallerState
    <3>3. PutBack(c, k)
      BY <1>5, <2>0, <2>2 DEF PutBack, Check, CallerState
    <3> QED BY <3>1, <3>2, <3>3
  <2> QED BY <2>1, <2>2
<1>6. ASSUME shutdown_and_wait(c)
      PROVE  \E k \in CallerState : CallerMove(c, k)
  <2> DEFINE k == [r EXCEPT !.pc = "terminating"]
  <2>1. k \in CallerState /\ caller' = [caller EXCEPT ![c] = k]
    BY <1>6 DEF CallerState, ProgramCounters, shutdown_and_wait, Goto
  <2>2. r.handle \in 1 .. Len(session')
    BY <1>6 DEF WellShaped, shutdown_and_wait
  <2>3. WellShaped(k, Len(session'))
    BY <1>6, <2>2 DEF WellShaped, shutdown_and_wait, CallerState
  <2>4. Calm(c, k)
    BY <1>6 DEF Calm, shutdown_and_wait, slotVars, CallerState
  <2> QED BY <2>1, <2>3, <2>4
<1>7. ASSUME remove_unloaded_thread(c)
      PROVE  \E k \in CallerState : CallerMove(c, k)
  <2> DEFINE k == [r EXCEPT !.pc = "reserve", !.candidate = None, !.handle = None]
  <2>0. r.candidate \in Agents /\ r.message \in Messages
    BY <1>7 DEF WellShaped, remove_unloaded_thread
  <2>1. k \in CallerState /\ caller' = [caller EXCEPT ![c] = k]
    BY <1>7 DEF CallerState, ProgramCounters, remove_unloaded_thread
  <2>2. WellShaped(k, Len(session'))
    BY <2>0 DEF WellShaped, CallerState
  <2>3. GivenUp(c, k)
    BY <1>7, <2>0 DEF GivenUp, remove_unloaded_thread, slotVars, CallerState
  <2> QED BY <2>1, <2>2, <2>3
<1>8. ASSUME is_unloadable(c)
      PROVE  \E k \in CallerState : CallerMove(c, k)
  BY <1>5, <1>8 DEF is_unloadable
<1> QED BY <1>1, <1>2, <1>3, <1>4, <1>6, <1>7, <1>8

\* Creating the thread with the slot in hand.
LEMMA CreateMoves ==
    ASSUME TypeOK, CallersShaped, ThreadsExist, NEW c \in Callers,
           \/ \E a \in Agents : create_thread(c, a)
           \/ reload_raced(c) \/ create_failed(c) \/ commit_slot(c),
           Len(session') \in Nat, Len(session) <= Len(session')
    PROVE  \E k \in CallerState : CallerMove(c, k)
<1> USE NoneFacts, CallerFacts DEF CallerMove, Effect, Outside, Slotted, Committing, Unloading, At
<1> DEFINE r == caller[c]
<1>1. ASSUME NEW a \in Agents, create_thread(c, a)
      PROVE  \E k \in CallerState : CallerMove(c, k)
  <2> DEFINE pc == IF r.agent = None THEN "commit_spawn" ELSE "commit_reload"
             k == [r EXCEPT !.agent = a, !.pc = pc]
  <2>0. /\ r.pc = "create" /\ r.message \in Messages /\ r.candidate = None
        /\ UNCHANGED slotVars /\ Len(session) < MaxSessions
        /\ session' = Append(session, NewSession(a))
        /\ threads' = [threads EXCEPT ![a] = Len(session) + 1]
    BY <1>1 DEF WellShaped, create_thread, CallerState
  <2>1. k \in CallerState /\ caller' = [caller EXCEPT ![c] = k]
    <3>1. pc \in ProgramCounters
      BY DEF ProgramCounters
    <3>2. caller' = [caller EXCEPT ![c].agent = a, ![c].pc = pc]
      BY <1>1 DEF create_thread
    <3> HIDE DEF pc
    <3>3. k \in CallerState
      BY <3>1 DEF CallerState
    <3> QED BY <3>2, <3>3 DEF TypeOK
  <2>2. k.pc \in Committing /\ k.agent = a /\ k.candidate = None /\ k.message = r.message
    BY <2>0 DEF CallerState
  <2>3. Len(session') = Len(session) + 1
    <3>1. session \in Seq(SessionState) /\ NewSession(a) \in SessionState
      BY EmptySeq DEF TypeOK, NewSession, SessionState
    <3> QED BY <2>0, <3>1, AppendProperties
  <2> HIDE DEF k
  <2>4. WellShaped(k, Len(session'))
    BY <2>0, <2>2 DEF WellShaped
  <2>5. Created(c, k)
    BY <2>0, <2>2, <2>3 DEF Created
  <2> QED BY <2>1, <2>4, <2>5
<1>2. ASSUME reload_raced(c)
      PROVE  \E k \in CallerState : CallerMove(c, k)
  <2> DEFINE k == [r EXCEPT !.pc = "touch"]
  <2>0. /\ r.pc = "create" /\ r.message \in Messages /\ r.candidate = None /\ r.agent \in Agents
    BY <1>2 DEF WellShaped, reload_raced, CallerState
  <2>1. k \in CallerState /\ caller' = [caller EXCEPT ![c] = k]
    BY <1>2 DEF CallerState, ProgramCounters, reload_raced, Goto
  <2>2. WellShaped(k, Len(session'))
    BY <2>0 DEF WellShaped, CallerState
  <2>3. Released(c, k)
    BY <1>2, <2>0 DEF Released, reload_raced, release_pending_slot, CallerState
  <2> QED BY <2>1, <2>2, <2>3
<1>3. ASSUME create_failed(c)
      PROVE  \E k \in CallerState : CallerMove(c, k)
  <2>1. caller' = [caller EXCEPT ![c] = IdleCaller]
    BY <1>3 DEF create_failed, Return
  <2>2. WellShaped(IdleCaller, Len(session'))
    BY DEF WellShaped, IdleCaller
  <2>3. Released(c, IdleCaller)
    BY <1>3 DEF Released, create_failed, release_pending_slot, IdleCaller
  <2> QED BY <2>1, <2>2, <2>3
<1>4. ASSUME commit_slot(c)
      PROVE  \E k \in CallerState : CallerMove(c, k)
  <2> DEFINE pc == IF At(c, "commit_spawn") THEN "submit" ELSE "capacity"
             k == [r EXCEPT !.pc = pc]
  <2>0. /\ r.pc \in Committing /\ r.message \in Messages /\ r.candidate = None /\ r.agent \in Agents
    BY <1>4 DEF WellShaped, commit_slot, CallerState
  <2>1. k \in CallerState /\ caller' = [caller EXCEPT ![c] = k]
    BY <1>4 DEF CallerState, ProgramCounters, commit_slot, Goto
  <2>2. /\ k.pc \in {"submit", "capacity"} /\ k.agent = r.agent /\ k.candidate = None
        /\ k.message = r.message
    BY <2>0 DEF CallerState
  <2> HIDE DEF k
  <2>3. WellShaped(k, Len(session'))
    BY <2>0, <2>2 DEF WellShaped
  <2>4. Committed(c, k)
    BY <1>4, <2>0, <2>2 DEF Committed, commit_slot, release_pending_slot
  <2> QED BY <2>1, <2>3, <2>4
<1> QED BY <1>1, <1>2, <1>3, <1>4

\* Sending the message.
LEMMA SendMoves ==
    ASSUME TypeOK, CallersShaped, ThreadsExist, NEW c \in Callers,
           \/ ensure_execution_capacity(c) \/ send_op(c) \/ submit_with_trace(c)
           \/ handle_thread_request_result(c),
           Len(session') \in Nat, Len(session) <= Len(session')
    PROVE  \E k \in CallerState : CallerMove(c, k)
<1> USE NoneFacts, CallerFacts DEF CallerMove, Effect, Outside, Slotted, Committing, Unloading, At
<1> DEFINE r == caller[c]
<1>0. WellShaped(IdleCaller, Len(session')) /\ IdleCaller.candidate = None /\ IdleCaller.pc = "idle"
  BY DEF WellShaped, IdleCaller
<1>1. ASSUME ensure_execution_capacity(c)
      PROVE  \E k \in CallerState : CallerMove(c, k)
  <2> DEFINE k == [r EXCEPT !.pc = "submit"]
  <2>0. /\ r.pc = "capacity" /\ r.message \in Messages /\ r.candidate = None /\ r.agent \in Agents
        /\ UNCHANGED <<slotVars, threads>>
    BY <1>1 DEF WellShaped, ensure_execution_capacity, CallerState
  <2>1. caller' = [caller EXCEPT ![c] = IdleCaller] \/ caller' = [caller EXCEPT ![c] = k]
    BY <1>1 DEF ensure_execution_capacity, Goto, Return
  <2>2. /\ k \in CallerState
        /\ k.pc = "submit" /\ k.agent = r.agent /\ k.candidate = None /\ k.message = r.message
    BY <2>0 DEF CallerState, ProgramCounters
  <2> HIDE DEF k
  <2>3. WellShaped(k, Len(session'))
    BY <2>0, <2>2 DEF WellShaped
  <2>4. Calm(c, k) /\ Calm(c, IdleCaller)
    BY <1>0, <2>0, <2>2 DEF Calm, slotVars
  <2> QED BY <1>0, <2>1, <2>2, <2>3, <2>4
<1>2. ASSUME send_op(c)
      PROVE  \E k \in CallerState : CallerMove(c, k)
  <2> DEFINE i == threads[r.agent]
             k == [r EXCEPT !.pc = "send", !.handle = i]
  <2>0. /\ r.pc = "submit" /\ r.message \in Messages /\ r.candidate = None /\ r.agent \in Agents
        /\ UNCHANGED <<slotVars, threads, session>>
    BY <1>2 DEF WellShaped, send_op, CallerState
  <2>1. CASE i = None
    <3>1. caller' = [caller EXCEPT ![c] = IdleCaller]
      BY <1>2, <2>1 DEF send_op
    <3>2. Calm(c, IdleCaller)
      BY <1>0, <2>0 DEF Calm, slotVars
    <3> QED BY <1>0, <3>1, <3>2
  <2>2. CASE i # None
    <3>1. caller' = [caller EXCEPT ![c] = k]
      BY <1>2, <2>2 DEF send_op
    <3>2. i \in 1 .. Len(session) /\ i \in Sessions
      BY <2>0, <2>2 DEF ThreadsExist, TypeOK
    <3> HIDE DEF i
    <3>3. /\ k \in CallerState /\ k.pc = "send" /\ k.agent = r.agent /\ k.candidate = None
          /\ k.message = r.message /\ k.handle = i
      BY <2>0, <3>2 DEF CallerState, ProgramCounters
    <3> HIDE DEF k
    <3>4. WellShaped(k, Len(session'))
      BY <2>0, <3>2, <3>3 DEF WellShaped
    <3>5. Calm(c, k)
      BY <2>0, <3>3 DEF Calm, slotVars
    <3> QED BY <3>1, <3>3, <3>4, <3>5
  <2> QED BY <2>1, <2>2
<1>3. ASSUME submit_with_trace(c)
      PROVE  \E k \in CallerState : CallerMove(c, k)
  <2> DEFINE k == [r EXCEPT !.pc = "died"]
  <2>0. /\ r.pc = "send" /\ r.message \in Messages /\ r.candidate = None /\ r.agent \in Agents
        /\ UNCHANGED <<slotVars, threads>>
    BY <1>3 DEF WellShaped, submit_with_trace, CallerState
  <2>1. caller' = [caller EXCEPT ![c] = IdleCaller] \/ caller' = [caller EXCEPT ![c] = k]
    BY <1>3 DEF submit_with_trace, Goto, Return
  <2>2. /\ k \in CallerState
        /\ k.pc = "died" /\ k.agent = r.agent /\ k.candidate = None /\ k.message = r.message
    BY <2>0 DEF CallerState, ProgramCounters
  <2> HIDE DEF k
  <2>3. WellShaped(k, Len(session'))
    BY <2>0, <2>2 DEF WellShaped
  <2>4. Calm(c, k) /\ Calm(c, IdleCaller)
    BY <1>0, <2>0, <2>2 DEF Calm, slotVars
  <2> QED BY <1>0, <2>1, <2>2, <2>3, <2>4
<1>4. ASSUME handle_thread_request_result(c)
      PROVE  \E k \in CallerState : CallerMove(c, k)
  <2>0. /\ r.pc = "died" /\ r.candidate = None /\ r.agent \in Agents
        /\ caller' = [caller EXCEPT ![c] = IdleCaller]
    BY <1>4 DEF WellShaped, handle_thread_request_result, CallerState, Return
  <2>1. Forgotten(c, IdleCaller)
    BY <1>0, <1>4, <2>0 DEF Forgotten, handle_thread_request_result
  <2> QED BY <1>0, <2>0, <2>1
<1> QED BY <1>1, <1>2, <1>3, <1>4

\* Every step is one of these.
LEMMA Moves ==
    ASSUME TypeOK, CallersShaped, ThreadsExist, Next
    PROVE  Move
<1>0. Len(session') \in Nat /\ Len(session) <= Len(session')
  BY SessionsStep
<1>1. CASE Calls
  BY <1>1, EntryMoves DEF Calls, Move
<1>2. ASSUME NEW c \in Callers, CallerStep(c)
      PROVE  Move
  BY <1>0, <1>2, EntryMoves, ReserveMoves, CreateMoves, SendMoves DEF CallerStep, Move
<1>3. ASSUME NEW i \in DOMAIN session, LoopStep(i) \/ TurnStep(i)
      PROVE  Move
  BY <1>3 DEF LoopStep, TurnStep, Move, process_communication, process_shutdown,
              turn_takes_mail, turn_finishes, turn_clears
<1> QED BY <1>1, <1>2, <1>3 DEF Next

-----------------------------------------------------------------------------
(* Types and local variables.                                              *)

\* Every step keeps the types, given that the count of slots stays a number.
LEMMA TypesStep ==
    ASSUME TypeOK, CallersShaped, ThreadsExist, Next, pending_slots' \in Nat
    PROVE  TypeOK' /\ CallersShaped' /\ ThreadsExist'
<1> USE NoneFacts
<1>1. /\ session' \in Seq(SessionState)
      /\ Len(session) \in Nat /\ Len(session') \in Nat
      /\ Len(session) <= Len(session') /\ Len(session') <= MaxSessions /\ MaxSessions \in Nat
  BY SessionsStep, ResidencyAssumption
<1>2. caller \in [Callers -> CallerState] /\ residents \in Seq(Agents)
  BY DEF TypeOK, CallerState
<1>3. \A c \in Callers : WellShaped(caller[c], Len(session'))
  BY <1>1 DEF CallersShaped, WellShaped
<1>4. caller' \in [Callers -> CallerState] /\ CallersShaped'
  BY <1>2, <1>3, Moves DEF Move, CallerMove, CallersShaped
<1>5. residents' \in Seq(Agents)
  <2>1. \/ residents' = residents
        \/ \E a \in Agents : residents' = touch_resident(residents, a)
        \/ \E a \in Agents : residents' = retain_others(residents, a)
        \/ \E i \in 1 .. Len(residents) :
              residents' = SubSeq(residents, i + 1, Len(residents)) \o SubSeq(residents, 1, i - 1)
    <3>1. ASSUME NEW c \in Callers, NEW k, Committed(c, k)
          PROVE  \E a \in Agents : residents' = touch_resident(residents, a)
      BY <3>1 DEF Committed, CallersShaped, WellShaped, Committing
    <3> QED BY <3>1, Moves DEF Move, CallerMove, Effect, Calm, Touched, Popped, PutBack, GivenUp,
                 Forgotten, Granted, Created, Released, slotVars
  <2>2. ASSUME NEW a \in Agents
        PROVE  touch_resident(residents, a) \in Seq(Agents) /\ retain_others(residents, a) \in Seq(Agents)
    BY <1>2, TouchFacts, RetainFacts
  <2>3. ASSUME NEW i \in 1 .. Len(residents)
        PROVE  SubSeq(residents, i + 1, Len(residents)) \o SubSeq(residents, 1, i - 1) \in Seq(Agents)
    BY <1>2, RotateFacts
  <2> QED BY <1>2, <2>1, <2>2, <2>3
<1>6. threads' \in [Agents -> Sessions \cup {None}] /\ ThreadsExist'
  <2>1. \/ threads' = threads
        \/ \E a \in Agents : threads' = [threads EXCEPT ![a] = None]
        \/ \E a \in Agents : /\ threads' = [threads EXCEPT ![a] = Len(session) + 1]
                             /\ Len(session') = Len(session) + 1
    BY Moves DEF Move, CallerMove, Effect, Calm, Touched, Popped, PutBack, GivenUp,
                 Forgotten, Granted, Created, Released, Committed, slotVars
  <2>2. /\ threads \in [Agents -> Sessions \cup {None}]
        /\ \A a \in Agents : threads[a] # None => threads[a] \in 1 .. Len(session)
    BY DEF TypeOK, ThreadsExist
  <2>3. ASSUME NEW a \in Agents, threads'[a] # None
        PROVE  threads'[a] \in 1 .. Len(session')
    <3>1. threads'[a] = threads[a] \/ threads'[a] = Len(session')
      BY <2>1, <2>2, <2>3
    <3>2. CASE threads'[a] = threads[a]
      BY <1>1, <2>2, <2>3, <3>2
    <3>3. CASE threads'[a] = Len(session')
      <4>1. Len(session') >= 1
        BY <1>1, <2>1, <2>2, <2>3, <3>3
      <4> QED BY <1>1, <3>3, <4>1
    <3> QED BY <3>1, <3>2, <3>3
  <2>4. ASSUME NEW a \in Agents
        PROVE  threads'[a] \in Sessions \cup {None}
    BY <1>1, <2>3 DEF Sessions
  <2>5. threads' \in [Agents -> Sessions \cup {None}]
    BY <2>1, <2>2, <2>4
  <2> QED BY <1>1, <2>3, <2>5 DEF ThreadsExist
<1>7. registered' \in [Agents -> {"fresh", "known", "forgotten"}]
  <2>1. \/ registered' = registered
        \/ \E c \in Callers : registered' = [registered EXCEPT ![caller[c].agent] = "known"]
        \/ \E c \in Callers : registered' = [registered EXCEPT ![caller[c].agent] = "forgotten"]
    BY DEF Next, Calls, CallerStep, LoopStep, TurnStep, spawn_agent, send_message,
        ensure_v2_agent_loaded, touch_loaded_v2_residency, try_reserve_pending_slot,
        resident_count, pop_lru_candidate, lookup_candidate, is_unloadable, Check,
        shutdown_and_wait, remove_unloaded_thread, create_thread, reload_raced, create_failed,
        commit_slot, ensure_execution_capacity, send_op, submit_with_trace,
        handle_thread_request_result, process_communication, process_shutdown,
        turn_takes_mail, turn_finishes, turn_clears
  <2> QED BY <2>1 DEF TypeOK
<1>8. accepted' \subseteq Followups
  <2>1. \/ accepted' = accepted
        \/ \E S : accepted' = accepted \ S
        \/ \E m : accepted' = accepted \cup ({m} \cap Followups)
    BY DEF Next, Calls, CallerStep, LoopStep, TurnStep, spawn_agent, send_message,
        ensure_v2_agent_loaded, touch_loaded_v2_residency, try_reserve_pending_slot,
        resident_count, pop_lru_candidate, lookup_candidate, is_unloadable, Check,
        shutdown_and_wait, remove_unloaded_thread, create_thread, reload_raced, create_failed,
        commit_slot, ensure_execution_capacity, send_op, submit_with_trace,
        handle_thread_request_result, process_communication, process_shutdown,
        turn_takes_mail, turn_finishes, turn_clears
  <2> QED BY <2>1 DEF TypeOK
<1> QED BY <1>1, <1>4, <1>5, <1>6, <1>7, <1>8 DEF TypeOK, CallerState, SessionState

-----------------------------------------------------------------------------
(* Slots.                                                                  *)

Holders == {c \in Callers : HoldsSlot(c)}

\* Granting, releasing and committing keep the count in step with the calls that
\* hold a slot, so the count of a call that releases is at least one.
LEMMA SlotsStep ==
    ASSUME TypeOK, CallersShaped, ThreadsExist, SlotsBalanced, Next
    PROVE  pending_slots' \in Nat /\ SlotsBalanced'
<1> USE DEF Slotted, Committing, Outside
<1>1. /\ IsFiniteSet(Holders) /\ pending_slots = Cardinality(Holders)
      /\ pending_slots \in Nat
  BY FS_Subset, ResidencyAssumption DEF Holders, SlotsBalanced, TypeOK
<1> SUFFICES pending_slots' \in Nat /\ pending_slots' = Cardinality(Holders')
  BY DEF Holders, SlotsBalanced
<1>2. CASE UNCHANGED <<slotVars, threads, caller>>
  BY <1>1, <1>2 DEF Holders, HoldsSlot, slotVars
<1>3. ASSUME NEW c \in Callers, NEW k \in CallerState, CallerMove(c, k)
      PROVE  pending_slots' \in Nat /\ pending_slots' = Cardinality(Holders')
  <2>1. /\ \A d \in Callers : caller'[d].pc = IF d = c THEN k.pc ELSE caller[d].pc
        /\ Effect(c, k)
    BY <1>3 DEF CallerMove, TypeOK
  <2>2. \A d \in Callers : d \in Holders <=> caller[d].pc \in Slotted
    BY DEF Holders, HoldsSlot
  <2>3. \A d : d \in Holders' <=> d \in Callers /\ caller'[d].pc \in Slotted
    BY DEF Holders, HoldsSlot
  <2>4. CASE \/ Calm(c, k) \/ Touched(c, k) \/ Popped(c, k) \/ PutBack(c, k) \/ GivenUp(c, k)
             \/ Forgotten(c, k) \/ Created(c, k)
    <3>1. pending_slots' = pending_slots /\ (k.pc \in Slotted <=> caller[c].pc \in Slotted)
      BY <2>4 DEF Calm, Touched, Popped, PutBack, GivenUp, Forgotten, Created, slotVars
    <3>2. Holders' = Holders
      BY <2>1, <2>2, <2>3, <3>1 DEF Holders
    <3> QED BY <1>1, <3>1, <3>2
  <2>5. CASE Granted(c, k)
    <3>1. c \notin Holders /\ Holders' = Holders \cup {c}
      BY <2>1, <2>2, <2>3, <2>5 DEF Granted, Holders
    <3>2. Cardinality(Holders') = Cardinality(Holders) + 1
      BY <1>1, <3>1, FS_AddElement
    <3> QED BY <1>1, <2>5, <3>2 DEF Granted
  <2>6. CASE Released(c, k) \/ Committed(c, k)
    <3>1. c \in Holders /\ Holders' = Holders \ {c} /\ pending_slots' = pending_slots - 1
      BY <2>1, <2>2, <2>3, <2>6 DEF Released, Committed, Holders
    <3>2. /\ Cardinality(Holders') = Cardinality(Holders) - 1
          /\ Cardinality(Holders') \in Nat
      BY <1>1, <3>1, FS_RemoveElement, FS_CardinalityType
    <3> QED BY <1>1, <3>1, <3>2
  <2> QED BY <2>1, <2>4, <2>5, <2>6 DEF Effect
<1> QED BY <1>2, <1>3, Moves DEF Move

-----------------------------------------------------------------------------
(* Who is tracked.                                                         *)

\* LoadedIsTracked says that the loaded agents are among the tracked ones.
LEMMA LoadedAsSet ==
    ASSUME TypeOK, CallersShaped
    PROVE  LoadedIsTracked <=> Open \subseteq Tracked
<1>1. Open \subseteq Agents /\ None \notin Agents
  BY NoneFacts DEF Open
<1> QED BY <1>1 DEF LoadedIsTracked, Tracked, InHand, BeingListed, Committing

\* The tracked agents are agents.
LEMMA TrackedFinite ==
    ASSUME TypeOK, CallersShaped
    PROVE  /\ Tracked \subseteq Agents /\ Creating \subseteq Callers
           /\ IsFiniteSet(Tracked) /\ IsFiniteSet(Creating)
           /\ Cardinality(Tracked) \in Nat /\ Cardinality(Creating) \in Nat
           /\ Cardinality(Callers) \in Nat
<1>1. RangeOf(residents) \subseteq Agents
  BY ElementOfSeq DEF TypeOK, RangeOf
<1>2. InHand \subseteq Agents
  BY DEF TypeOK, InHand
<1>3. BeingListed \subseteq Agents
  BY DEF CallersShaped, WellShaped, BeingListed, Committing
<1>4. Tracked \subseteq Agents /\ Creating \subseteq Callers
  BY <1>1, <1>2, <1>3 DEF Tracked, Creating
<1>5. IsFiniteSet(Tracked) /\ IsFiniteSet(Creating)
  BY <1>4, FS_Subset, ResidencyAssumption
<1> QED BY <1>4, <1>5, FS_CardinalityType, ResidencyAssumption

\* What a move of call c into state k changes of what the calls have in hand.
LEMMA HandFacts ==
    ASSUME TypeOK, NEW c \in Callers, NEW k \in CallerState, caller' = [caller EXCEPT ![c] = k]
    PROVE  /\ InHand' \subseteq InHand \cup ({k.candidate} \ {None})
           /\ InHand \subseteq InHand' \cup ({caller[c].candidate} \ {None})
           /\ {k.candidate} \ {None} \subseteq InHand'
           /\ {caller[c].candidate} \ {None} \subseteq InHand
           /\ BeingListed' \subseteq BeingListed \cup (IF k.pc \in Committing THEN {k.agent} ELSE {})
           /\ BeingListed \subseteq BeingListed' \cup
                                   (IF caller[c].pc \in Committing THEN {caller[c].agent} ELSE {})
           /\ k.pc \in Committing => k.agent \in BeingListed'
           /\ caller[c].pc \in Committing => caller[c].agent \in BeingListed
           /\ k.pc = "create" /\ caller[c].pc # "create" => Creating' = Creating \cup {c}
           /\ k.pc # "create" /\ caller[c].pc = "create" => Creating' = Creating \ {c}
           /\ (k.pc = "create" <=> caller[c].pc = "create") => Creating' = Creating
<1>1. \A d \in Callers : caller'[d] = IF d = c THEN k ELSE caller[d]
  BY DEF TypeOK
<1>2. /\ InHand' \subseteq InHand \cup ({k.candidate} \ {None})
      /\ InHand \subseteq InHand' \cup ({caller[c].candidate} \ {None})
      /\ {k.candidate} \ {None} \subseteq InHand'
      /\ {caller[c].candidate} \ {None} \subseteq InHand
  BY <1>1 DEF InHand
<1>3. /\ BeingListed' \subseteq BeingListed \cup (IF k.pc \in Committing THEN {k.agent} ELSE {})
      /\ k.pc \in Committing => k.agent \in BeingListed'
  BY <1>1 DEF BeingListed
<1>4. /\ BeingListed \subseteq BeingListed' \cup
                              (IF caller[c].pc \in Committing THEN {caller[c].agent} ELSE {})
      /\ caller[c].pc \in Committing => caller[c].agent \in BeingListed
  BY <1>1 DEF BeingListed
<1>5. /\ k.pc = "create" /\ caller[c].pc # "create" => Creating' = Creating \cup {c}
      /\ k.pc # "create" /\ caller[c].pc = "create" => Creating' = Creating \ {c}
      /\ (k.pc = "create" <=> caller[c].pc = "create") => Creating' = Creating
  BY <1>1 DEF Creating
<1> QED BY <1>2, <1>3, <1>4, <1>5

\* No step but the creation of a thread tracks another agent, and no step loses a
\* loaded one.
Footprint(c, k) ==
    \/ Tracked' \subseteq Tracked /\ Creating' \subseteq Creating
    \/ Tracked' \subseteq Tracked /\ Creating' = Creating \cup {c} /\ Granted(c, k)
    \/ c \in Creating /\ Creating' = Creating \ {c} /\ Tracked' \subseteq Tracked \cup {k.agent}

\* The effect of a caller's step on the tracked agents.
LEMMA TrackedStep ==
    ASSUME TypeOK, CallersShaped, ThreadsExist, LoadedIsTracked,
           NEW c \in Callers, NEW k \in CallerState, CallerMove(c, k)
    PROVE  Open' \subseteq Tracked' /\ Footprint(c, k)
<1> USE NoneFacts DEF Slotted, Committing, Outside
<1> DEFINE r == caller[c]
<1>0. Open \subseteq Tracked
  BY LoadedAsSet
<1>1. /\ r \in CallerState /\ residents \in Seq(Agents)
      /\ threads \in [Agents -> Sessions \cup {None}]
  BY DEF TypeOK, CallerState
<1>2. /\ InHand' \subseteq InHand \cup ({k.candidate} \ {None})
      /\ InHand \subseteq InHand' \cup ({r.candidate} \ {None})
      /\ {k.candidate} \ {None} \subseteq InHand'
      /\ {r.candidate} \ {None} \subseteq InHand
  BY HandFacts DEF CallerMove
<1>3. /\ BeingListed' \subseteq BeingListed \cup (IF k.pc \in Committing THEN {k.agent} ELSE {})
      /\ BeingListed \subseteq BeingListed' \cup (IF r.pc \in Committing THEN {r.agent} ELSE {})
      /\ k.pc \in Committing => k.agent \in BeingListed'
      /\ r.pc \in Committing => r.agent \in BeingListed
  BY HandFacts DEF CallerMove
<1>4. /\ k.pc = "create" /\ r.pc # "create" => Creating' = Creating \cup {c}
      /\ k.pc # "create" /\ r.pc = "create" => Creating' = Creating \ {c}
      /\ (k.pc = "create" <=> r.pc = "create") => Creating' = Creating
      /\ r.pc = "create" => c \in Creating
  BY HandFacts DEF CallerMove, Creating
<1> USE DEF Tracked
<1>5. CASE Calm(c, k)
  <2>1. Tracked' = Tracked /\ Creating' = Creating /\ Open' = Open
    BY <1>2, <1>3, <1>4, <1>5 DEF Calm, Open
  <2> QED BY <1>0, <2>1 DEF Footprint
<1>6. CASE Touched(c, k)
  <2>1. PICK a \in Agents : threads[a] # None /\ residents' = touch_resident(residents, a)
    BY <1>6 DEF Touched
  <2>2. RangeOf(residents') = RangeOf(residents) \cup {a} /\ a \in Tracked
    BY <1>0, <1>1, <2>1, TouchFacts DEF Open
  <2>3. Tracked' \subseteq Tracked /\ Tracked \subseteq Tracked' /\ Creating' = Creating /\ Open' = Open
    BY <1>2, <1>3, <1>4, <1>6, <2>2 DEF Touched, Open
  <2> QED BY <1>0, <2>3 DEF Footprint
<1>7. CASE Popped(c, k)
  <2>1. PICK i \in 1 .. Len(residents) :
           /\ k.candidate = residents[i]
           /\ residents' = SubSeq(residents, i + 1, Len(residents)) \o SubSeq(residents, 1, i - 1)
    BY <1>7 DEF Popped
  <2>2. /\ RangeOf(residents') \subseteq RangeOf(residents)
        /\ RangeOf(residents) \subseteq RangeOf(residents') \cup {k.candidate}
        /\ k.candidate \in RangeOf(residents) /\ k.candidate # None
    <3>1. residents[i] \in Agents
      BY <1>1, ElementOfSeq
    <3>2. /\ RangeOf(residents') \subseteq RangeOf(residents)
          /\ RangeOf(residents) \subseteq RangeOf(residents') \cup {residents[i]}
      BY <1>1, <2>1, RotateFacts
    <3>3. residents[i] \in RangeOf(residents)
      BY DEF RangeOf
    <3> QED BY <2>1, <3>1, <3>2, <3>3
  <2>3. Tracked' \subseteq Tracked /\ Tracked \subseteq Tracked' /\ Creating' = Creating /\ Open' = Open
    BY <1>2, <1>3, <1>4, <1>7, <2>2 DEF Popped, Open
  <2> QED BY <1>0, <2>3 DEF Footprint
<1>8. CASE PutBack(c, k)
  <2>1. RangeOf(residents') = RangeOf(residents) \cup {r.candidate}
    BY <1>1, <1>8, TouchFacts DEF PutBack
  <2>2. Tracked' \subseteq Tracked /\ Tracked \subseteq Tracked' /\ Creating' = Creating /\ Open' = Open
    BY <1>2, <1>3, <1>4, <1>8, <2>1 DEF PutBack, Open
  <2> QED BY <1>0, <2>2 DEF Footprint
<1>9. CASE GivenUp(c, k)
  <2>1. Tracked' \subseteq Tracked /\ Tracked \subseteq Tracked' \cup {r.candidate} /\ Creating' = Creating
    BY <1>2, <1>3, <1>4, <1>9 DEF GivenUp
  <2>2. Open' = Open \ {r.candidate}
    BY <1>1, <1>9 DEF GivenUp, Open
  <2> QED BY <1>0, <2>1, <2>2 DEF Footprint
<1>10. CASE Forgotten(c, k)
  <2>1. PICK a \in Agents : /\ threads' = [threads EXCEPT ![a] = None]
                           /\ residents' = retain_others(residents, a)
    BY <1>10 DEF Forgotten
  <2>2. RangeOf(residents') = RangeOf(residents) \ {a}
    BY <1>1, <2>1, RetainFacts
  <2>3. Tracked' \subseteq Tracked /\ Tracked \subseteq Tracked' \cup {a} /\ Creating' = Creating
    BY <1>2, <1>3, <1>4, <1>10, <2>2 DEF Forgotten
  <2>4. Open' = Open \ {a}
    BY <1>1, <2>1 DEF Open
  <2> QED BY <1>0, <2>3, <2>4 DEF Footprint
<1>11. CASE Granted(c, k)
  <2>1. Tracked' = Tracked /\ Creating' = Creating \cup {c} /\ Open' = Open
    BY <1>2, <1>3, <1>4, <1>11 DEF Granted, Open
  <2> QED BY <1>0, <1>11, <2>1 DEF Footprint
<1>12. CASE Created(c, k)
  <2>1. /\ Tracked' \subseteq Tracked \cup {k.agent} /\ Tracked \cup {k.agent} \subseteq Tracked'
        /\ c \in Creating /\ Creating' = Creating \ {c}
    BY <1>2, <1>3, <1>4, <1>12 DEF Created, slotVars
  <2>2. Open' \subseteq Open \cup {k.agent}
    BY <1>1, <1>12 DEF Created, Open
  <2> QED BY <1>0, <2>1, <2>2 DEF Footprint
<1>13. CASE Released(c, k)
  <2>1. Tracked' = Tracked /\ Creating' \subseteq Creating /\ Open' = Open
    BY <1>2, <1>3, <1>4, <1>13 DEF Released, Open
  <2> QED BY <1>0, <2>1 DEF Footprint
<1>14. CASE Committed(c, k)
  <2>1. r.agent \in Agents
    BY <1>14 DEF Committed, CallersShaped, WellShaped
  <2>2. RangeOf(residents') = RangeOf(residents) \cup {r.agent}
    BY <1>1, <1>14, <2>1, TouchFacts DEF Committed
  <2>3. Tracked' \subseteq Tracked /\ Tracked \subseteq Tracked' /\ Creating' = Creating /\ Open' = Open
    BY <1>2, <1>3, <1>4, <1>14, <2>2 DEF Committed, Open
  <2> QED BY <1>0, <2>3 DEF Footprint
<1> QED BY <1>5, <1>6, <1>7, <1>8, <1>9, <1>10, <1>11, <1>12, <1>13, <1>14 DEF CallerMove, Effect

-----------------------------------------------------------------------------
(* How far the capacity can be exceeded.                                   *)

Unloaders == {c \in Callers : caller[c].pc \in Unloading}
Committers == {c \in Callers : caller[c].pc \in Committing}

\* When a slot is free by the length of the list, what is tracked beyond the list are
\* the candidates of the other calls and the slots already counted.
LEMMA GrantBound ==
    ASSUME TypeOK, CallersShaped, SlotsBalanced, NEW c \in Callers, c \notin Unloaders,
           Len(residents) + pending_slots < Capacity
    PROVE  Cardinality(Tracked) + Cardinality(Creating) + 1 <= Capacity + Cardinality(Callers) - 1
<1> USE NoneFacts
<1>1. /\ IsFiniteSet(Unloaders) /\ IsFiniteSet(Committers) /\ IsFiniteSet(Creating)
      /\ IsFiniteSet(Callers) /\ IsFiniteSet(Callers \ {c})
  BY FS_Subset, ResidencyAssumption DEF Unloaders, Committers, Creating
<1>2. /\ Cardinality(Unloaders) \in Nat /\ Cardinality(Committers) \in Nat
      /\ Cardinality(Creating) \in Nat /\ Cardinality(Callers) \in Nat
      /\ Cardinality(Callers \ {c}) \in Nat
  BY <1>1, FS_CardinalityType
<1>3. /\ IsFiniteSet(RangeOf(residents)) /\ Cardinality(RangeOf(residents)) \in Nat
      /\ Cardinality(RangeOf(residents)) <= Len(residents) /\ Len(residents) \in Nat
  BY RangeBounded, FS_CardinalityType, LenProperties DEF TypeOK
<1>4. Cardinality(Unloaders) <= Cardinality(Callers) - 1
  <2>1. Unloaders \in SUBSET (Callers \ {c})
    BY DEF Unloaders
  <2>2. Cardinality(Unloaders) <= Cardinality(Callers \ {c})
    BY <1>1, <2>1, FS_Subset
  <2>3. Cardinality(Callers \ {c}) = Cardinality(Callers) - 1
    BY <1>1, FS_RemoveElement
  <2> QED BY <2>2, <2>3
<1>5. IsFiniteSet(InHand) /\ Cardinality(InHand) <= Cardinality(Unloaders)
  <2> DEFINE f == [d \in Unloaders |-> caller[d].candidate]
  <2>1. \A d \in Callers : /\ caller[d].candidate \in Agents \cup {None}
                           /\ d \in Unloaders <=> caller[d].candidate \in Agents
    BY DEF TypeOK, CallersShaped, WellShaped, Unloaders
  <2>2. f \in Surjection(Unloaders, InHand)
    <3>1. f \in [Unloaders -> InHand]
      BY <2>1 DEF InHand, Unloaders
    <3>2. \A x \in InHand : \E d \in Unloaders : f[d] = x
      BY <2>1 DEF InHand
    <3> HIDE DEF f
    <3> QED BY <3>1, <3>2 DEF Surjection
  <2> HIDE DEF f
  <2> QED BY <1>1, <2>2, FS_Surjection
<1>6. IsFiniteSet(BeingListed) /\ Cardinality(BeingListed) <= Cardinality(Committers)
  <2> DEFINE f == [d \in Committers |-> caller[d].agent]
  <2>1. f \in Surjection(Committers, BeingListed)
    BY DEF Surjection, BeingListed, Committers
  <2> HIDE DEF f
  <2> QED BY <1>1, <2>1, FS_Surjection
<1>7. Cardinality(Creating) + Cardinality(Committers) = pending_slots
  <2>1. Holders = Creating \cup Committers /\ Creating \cap Committers = {}
    BY DEF Holders, HoldsSlot, Creating, Committers, Committing
  <2>2. pending_slots = Cardinality(Creating \cup Committers)
    BY <2>1 DEF SlotsBalanced, Holders
  <2>3. /\ Cardinality(Creating \cup Committers) =
             Cardinality(Creating) + Cardinality(Committers) - Cardinality({})
        /\ Cardinality({}) = 0
    BY <1>1, <2>1, FS_Union, FS_EmptySet
  <2> QED BY <1>2, <2>2, <2>3
<1>8. Cardinality(InHand) \in Nat /\ Cardinality(BeingListed) \in Nat
  BY <1>5, <1>6, FS_CardinalityType
<1>9. ASSUME NEW S, NEW T, IsFiniteSet(S), IsFiniteSet(T)
      PROVE  /\ IsFiniteSet(S \cup T) /\ Cardinality(S \cup T) \in Nat
             /\ Cardinality(S \cup T) <= Cardinality(S) + Cardinality(T)
  <2>1. /\ IsFiniteSet(S \cup T)
        /\ Cardinality(S \cup T) = Cardinality(S) + Cardinality(T) - Cardinality(S \cap T)
    BY <1>9, FS_Union
  <2>2. IsFiniteSet(S \cap T)
    BY <1>9, FS_Intersection
  <2>3. /\ Cardinality(S) \in Nat /\ Cardinality(T) \in Nat /\ Cardinality(S \cap T) \in Nat
        /\ Cardinality(S \cup T) \in Nat
    BY <1>9, <2>1, <2>2, FS_CardinalityType
  <2> QED BY <2>1, <2>3
<1>10. /\ IsFiniteSet(RangeOf(residents) \cup InHand)
       /\ Cardinality(RangeOf(residents) \cup InHand) \in Nat
       /\ Cardinality(RangeOf(residents) \cup InHand)
            <= Cardinality(RangeOf(residents)) + Cardinality(InHand)
  BY <1>3, <1>5, <1>9
<1>11. /\ Cardinality(Tracked) \in Nat
       /\ Cardinality(Tracked)
            <= Cardinality(RangeOf(residents) \cup InHand) + Cardinality(BeingListed)
  BY <1>6, <1>9, <1>10 DEF Tracked
<1>12. pending_slots \in Nat /\ Capacity \in Nat
  BY ResidencyAssumption DEF TypeOK
<1>13. Cardinality(Tracked)
         <= Len(residents) + (Cardinality(Callers) - 1) + Cardinality(Committers)
  BY <1>2, <1>3, <1>4, <1>5, <1>6, <1>8, <1>10, <1>11
<1>14. Cardinality(Tracked) + Cardinality(Creating)
         <= Len(residents) + (Cardinality(Callers) - 1) + pending_slots
  BY <1>2, <1>3, <1>7, <1>11, <1>12, <1>13
<1>15. Len(residents) + pending_slots + 1 <= Capacity
  BY <1>3, <1>12
<1> QED BY <1>2, <1>3, <1>11, <1>12, <1>14, <1>15

\* No step exceeds the bound.
LEMMA FootprintStep ==
    ASSUME IInv, Next, TypeOK', CallersShaped'
    PROVE  LoadedIsTracked' /\ FootprintBounded'
<1>1. TypeOK /\ CallersShaped /\ ThreadsExist /\ SlotsBalanced /\ LoadedIsTracked /\ FootprintBounded
  BY DEF IInv
<1>2. /\ IsFiniteSet(Tracked) /\ IsFiniteSet(Creating)
      /\ Cardinality(Tracked) \in Nat /\ Cardinality(Creating) \in Nat
      /\ Cardinality(Callers) \in Nat /\ Capacity \in Nat
  BY <1>1, TrackedFinite, ResidencyAssumption
<1>3. CASE UNCHANGED <<slotVars, threads, caller>>
  BY <1>1, <1>3 DEF slotVars, LoadedIsTracked, FootprintBounded, Open, Tracked, InHand,
                    BeingListed, Creating
<1>4. ASSUME NEW c \in Callers, NEW k \in CallerState, CallerMove(c, k)
      PROVE  LoadedIsTracked' /\ FootprintBounded'
  <2>1. Open' \subseteq Tracked' /\ Footprint(c, k)
    BY <1>1, <1>4, TrackedStep
  <2>2. LoadedIsTracked'
    <3>1. Open' \subseteq Agents /\ None \notin Agents
      BY NoneFacts DEF Open
    <3> SUFFICES ASSUME NEW a \in Open'
                 PROVE  \/ a \in RangeOf(residents')
                        \/ \E d \in Callers : caller'[d].candidate = a
                        \/ \E d \in Callers : /\ caller'[d].pc \in {"commit_spawn", "commit_reload"}
                                              /\ caller'[d].agent = a
      BY DEF LoadedIsTracked
    <3>2. a \in Tracked'
      BY <2>1
    <3> QED BY <3>2 DEF Tracked, InHand, BeingListed, Committing
  <2>3. CASE Tracked' \subseteq Tracked /\ Creating' \subseteq Creating
    <3>1. /\ IsFiniteSet(Tracked') /\ IsFiniteSet(Creating')
          /\ Cardinality(Tracked') <= Cardinality(Tracked)
          /\ Cardinality(Creating') <= Cardinality(Creating)
      BY <1>2, <2>3, FS_Subset
    <3>2. Cardinality(Tracked') \in Nat /\ Cardinality(Creating') \in Nat
      BY <3>1, FS_CardinalityType
    <3> QED BY <1>1, <1>2, <2>2, <3>1, <3>2 DEF FootprintBounded
  <2>4. CASE Tracked' \subseteq Tracked /\ Creating' = Creating \cup {c} /\ Granted(c, k)
    <3>1. /\ IsFiniteSet(Tracked') /\ Cardinality(Tracked') <= Cardinality(Tracked)
          /\ IsFiniteSet(Creating') /\ Cardinality(Creating') <= Cardinality(Creating) + 1
      BY <1>2, <2>4, FS_Subset, FS_AddElement
    <3>2. Cardinality(Tracked') \in Nat /\ Cardinality(Creating') \in Nat
      BY <3>1, FS_CardinalityType
    <3>3. c \notin Unloaders
      BY <1>1, <2>4, NoneFacts DEF Granted, Unloaders, CallersShaped, WellShaped
    <3>4. Len(residents) + pending_slots < Capacity
      BY <2>4 DEF Granted
    <3>5. Cardinality(Tracked) + Cardinality(Creating) + 1 <= Capacity + Cardinality(Callers) - 1
      BY <1>1, <3>3, <3>4, GrantBound
    <3> QED BY <1>2, <2>2, <3>1, <3>2, <3>5 DEF FootprintBounded
  <2>5. CASE c \in Creating /\ Creating' = Creating \ {c} /\ Tracked' \subseteq Tracked \cup {k.agent}
    <3>1. /\ IsFiniteSet(Creating') /\ Cardinality(Creating') = Cardinality(Creating) - 1
      BY <1>2, <2>5, FS_RemoveElement
    <3>2. /\ IsFiniteSet(Tracked \cup {k.agent})
          /\ Cardinality(Tracked \cup {k.agent}) <= Cardinality(Tracked) + 1
      <4>1. /\ IsFiniteSet(Tracked \cup {k.agent})
            /\ Cardinality(Tracked \cup {k.agent})
                 = IF k.agent \in Tracked THEN Cardinality(Tracked) ELSE Cardinality(Tracked) + 1
        BY <1>2, FS_AddElement
      <4> QED BY <1>2, <4>1
    <3>3. IsFiniteSet(Tracked') /\ Cardinality(Tracked') <= Cardinality(Tracked \cup {k.agent})
      BY <2>5, <3>2, FS_Subset
    <3>4. /\ Cardinality(Tracked') \in Nat /\ Cardinality(Creating') \in Nat
          /\ Cardinality(Tracked \cup {k.agent}) \in Nat
      BY <3>1, <3>2, <3>3, FS_CardinalityType
    <3> QED BY <1>1, <1>2, <2>2, <3>1, <3>2, <3>3, <3>4 DEF FootprintBounded
  <2> QED BY <2>1, <2>3, <2>4, <2>5 DEF Footprint
<1> QED BY <1>1, <1>3, <1>4, Moves DEF Move

-----------------------------------------------------------------------------
(* The theorems.                                                           *)

\* Nobody is loaded, and no call under way.
LEMMA InitIInv == Init => IInv
<1> SUFFICES ASSUME Init PROVE IInv
  OBVIOUS
<1> USE NoneFacts
<1>1. TypeOK
  BY EmptySeq DEF Init, TypeOK, IdleCaller, ProgramCounters
<1>2. Len(session) = 0 /\ Len(residents) = 0 /\ MaxSessions \in Nat /\ Capacity \in Nat
  BY EmptySeq, ResidencyAssumption DEF Init
<1>3. CallersShaped /\ ThreadsExist
  BY <1>2 DEF Init, CallersShaped, WellShaped, IdleCaller, ThreadsExist, Unloading, Committing
<1>4. SlotsBalanced
  <2>1. {c \in Callers : HoldsSlot(c)} = {}
    BY DEF Init, HoldsSlot, IdleCaller
  <2> QED BY <2>1, FS_EmptySet DEF Init, SlotsBalanced
<1>5. LoadedIsTracked
  BY DEF Init, LoadedIsTracked, Open
<1>6. FootprintBounded
  <2>1. Creating = {}
    BY DEF Init, Creating, IdleCaller
  <2>2. Tracked = {}
    <3>1. RangeOf(residents) = {}
      <4>1. 1 .. 0 = {}
        OBVIOUS
      <4> QED BY <1>2, <4>1 DEF RangeOf
    <3>2. \A c \in Callers : caller[c].candidate = None /\ caller[c].pc = "idle"
      BY DEF Init, IdleCaller
    <3>3. InHand = {} /\ BeingListed = {}
      BY <3>2 DEF InHand, BeingListed, Committing
    <3> QED BY <3>1, <3>3 DEF Tracked
  <2>3. Cardinality(Callers) \in Nat /\ Cardinality(Callers) # 0
    BY FS_CardinalityType, FS_EmptySet, ResidencyAssumption
  <2> QED BY <1>2, <2>1, <2>2, <2>3, FS_EmptySet DEF FootprintBounded
<1> QED BY <1>1, <1>3, <1>4, <1>5, <1>6 DEF IInv

\* Every step of a tool call, a session loop or a turn keeps the invariant.
LEMMA StepIInv == IInv /\ [Next]_vars => IInv'
<1> SUFFICES ASSUME IInv, [Next]_vars PROVE IInv'
  OBVIOUS
<1>1. CASE Next
  <2>1. pending_slots' \in Nat /\ SlotsBalanced'
    BY <1>1, SlotsStep DEF IInv
  <2>2. TypeOK' /\ CallersShaped' /\ ThreadsExist'
    BY <1>1, <2>1, TypesStep DEF IInv
  <2>3. LoadedIsTracked' /\ FootprintBounded'
    BY <1>1, <2>2, FootprintStep
  <2> QED BY <2>1, <2>2, <2>3 DEF IInv
<1>2. CASE UNCHANGED vars
  BY <1>2 DEF vars, IInv, TypeOK, CallersShaped, ThreadsExist, SlotsBalanced, HoldsSlot,
              LoadedIsTracked, Open, FootprintBounded, Tracked, InHand, BeingListed, Creating
<1> QED BY <1>1, <1>2

\* The invariant holds whatever the calls, the sessions and their turns do.
THEOREM InductiveInvariant == Spec => []IInv
BY InitIInv, StepIInv, PTL DEF Spec

\* Every variable keeps its type; above all pending_slots stays a natural number, so the
\* saturating subtractions of residency.rs never saturate.
THEOREM TypeCorrect == Spec => []TypeOK
<1>1. IInv => TypeOK
  BY DEF IInv
<1> QED BY <1>1, InductiveInvariant, PTL

\* pending_slots is the number of calls between a granted slot and its release, for any
\* number of calls racing to spawn, reload, fail and commit.
THEOREM SlotsNeverLeak == Spec => []SlotsBalanced
<1>1. IInv => SlotsBalanced
  BY DEF IInv
<1> QED BY <1>1, InductiveInvariant, PTL

\* No interleaving of scans, touches, unloads, reloads and dying sessions leaves a loaded
\* sub-agent outside the list with no call about to put it back.
THEOREM LoadedAgentsStayTracked == Spec => []LoadedIsTracked
<1>1. IInv => LoadedIsTracked
  BY DEF IInv
<1> QED BY <1>1, InductiveInvariant, PTL

\* The capacity of try_reserve_pending_slot is exceeded by less than the number of
\* concurrent calls, for every capacity and every number of calls.
THEOREM OvershootIsBounded == Spec => []OvershootBounded
<1>1. IInv => OvershootBounded
  <2> SUFFICES ASSUME IInv PROVE OvershootBounded
    OBVIOUS
  <2>1. /\ IsFiniteSet(Tracked) /\ Cardinality(Tracked) \in Nat /\ Cardinality(Creating) \in Nat
        /\ Cardinality(Callers) \in Nat /\ Capacity \in Nat
    BY TrackedFinite, ResidencyAssumption DEF IInv
  <2>2. Open \in SUBSET Tracked
    BY LoadedAsSet DEF IInv
  <2>3. IsFiniteSet(Open) /\ Cardinality(Open) <= Cardinality(Tracked)
    BY <2>1, <2>2, FS_Subset
  <2>4. Cardinality(Open) \in Nat
    BY <2>3, FS_CardinalityType
  <2> QED BY <2>1, <2>3, <2>4 DEF IInv, FootprintBounded, OvershootBounded
<1> QED BY <1>1, InductiveInvariant, PTL
=============================================================================
