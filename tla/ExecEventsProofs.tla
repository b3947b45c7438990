-------------------------- MODULE ExecEventsProofs --------------------------
(***************************************************************************)
(* What a consumer of a remote process sees, for every number of streams,  *)
(* connections and events: never more events held back than allowed, and,  *)
(* as long as no chunk of output is dropped before it is read back, the    *)
(* events of the process in their order and up to the last one.            *)
(*                                                                         *)
(* The argument follows an event from its number to the consumer.  The     *)
(* server numbers each event once and closes last (EventsOrdered).  What   *)
(* is under way names existing events (MessagesTyped), an answer to        *)
(* process/read arrives only at the recovery that asked and tells the      *)
(* truth about a prefix of the events (AnswersAwaited, AnswersTruthful),   *)
(* so what the client holds back or publishes under a number is the event  *)
(* of that number (SessionTells).                                          *)
(***************************************************************************)
EXTENDS ExecSessionProofs, FiniteSetTheorems, SequenceTheorems, WellFoundedInduction

-----------------------------------------------------------------------------
(* The inductive invariant.                                                *)

\* Whatever a process prints stays available to process/read.
AllRetained == MaxOut <= Retain

Outputs == {n \in DOMAIN events : events[n] = "out"}

ServerTypes ==
    /\ events \in Seq(Kinds)
    /\ retained \subseteq Outputs
    /\ open \in 0 .. Cardinality(Streams)
    /\ present \in BOOLEAN /\ expired \in BOOLEAN
    /\ task \in [Tasks -> [pc: {"run", "send", "emit", "last", "done"}, seq: Nat]]
    /\ attached \in Conns \cup {NoConn}

\* The exit is numbered once; the closing event is numbered last, after the exit and after
\* every stream has ended.
Writing(t) == task[t].pc \in {"run", "send"}
EventsOrdered ==
    /\ \A i, j \in DOMAIN events : events[i] = "exit" /\ events[j] = "exit" => i = j
    /\ \A i \in DOMAIN events : events[i] = "exit" => task["exit"].pc # "run"
    /\ \A i \in DOMAIN events : events[i] = "closed" =>
           /\ i = Len(events)
           /\ \E j \in DOMAIN events : events[j] = "exit"
           /\ \A t \in Streams : ~Writing(t)

\* open_streams counts the streams that may still write.
StreamsCounted == present => open = Cardinality({t \in Streams : Writing(t)})

\* A task that is about to notify has an event to tell of.
TasksNumbered == \A t \in Tasks : task[t].pc \in {"send", "last"} => task[t].seq \in DOMAIN events

OutputKept == Cardinality(Outputs) <= MaxOut /\ (AllRetained => retained = Outputs)

Bodies == {"ok", "attached", "unknown", "terminated"}
          \cup [unknown: BOOLEAN, chunks: SUBSET Nat, next: Nat, exited: BOOLEAN, closed: BOOLEAN]
Messages == [k: {"note"}, seq: Nat] \cup [k: {"reply"}, body: Bodies]

\* What is under way, on the wire or in a reader's queue, are numbers of events.
Typed(con) ==
    /\ con.st \in {"unused", "up", "cut"}
    /\ con.wire \in Seq(Messages)
    /\ \A i \in DOMAIN con.wire : con.wire[i].k = "note" => con.wire[i].seq \in DOMAIN events
    /\ con.inbox \in Seq(DOMAIN events)
    /\ con.req \in {"none", "initialize", "read", "terminate"}
    /\ con.served \in BOOLEAN
    /\ con.after \in 0 .. Len(sess.pub)
MessagesTyped == \A c \in Conns : Typed(conn[c])

\* The answer to process/read tells the truth about the first events, up to its target.
Truthful(r) ==
    /\ r \in [unknown: BOOLEAN, chunks: SUBSET Nat, next: Nat, exited: BOOLEAN, closed: BOOLEAN]
    /\ Target(r) \in 0 .. Len(events)
    /\ \A n \in r.chunks : n \in 1 .. Target(r) /\ events[n] = "out"
    /\ AllRetained => \A n \in 1 .. Target(r) :
           events[n] = "out" => n \in r.chunks \/ n <= Len(sess.pub)
    /\ r.exited => \E n \in 1 .. Target(r) : events[n] = "exit"
    /\ r.closed => \E n \in 1 .. Target(r) : events[n] = "closed"

\* The recovery has one call under way at most: it is still at the server, or its answer is
\* on the wire, or the answer has arrived.
HasReply(con, i) == i \in DOMAIN con.wire /\ con.wire[i].k = "reply"
Awaited(con) ==
    /\ con.req \in {"none", rec.pc}
    /\ con.req # "none" => rec.ans = <<>>
    /\ \A i, j : HasReply(con, i) /\ HasReply(con, j) => i = j
    /\ \A i : HasReply(con, i) =>
           /\ rec.pc \in {"initialize", "read", "terminate"}
           /\ con.req = "none" /\ rec.ans = <<>>
           /\ rec.pc = "read" => Truthful(con.wire[i].body)

AnswersAwaited == rec.pc \in CandidatePcs => Awaited(conn[rec.c])
AnswersTruthful ==
    /\ rec.ans = <<>> \/ \E body \in Bodies : rec.ans = <<body>>
    /\ rec.pc = "read" /\ rec.ans # <<>> => Truthful(rec.ans[1])

\* An event is taken for what it is; only a chunk that is not retained for the exit.
Tells(v, n) == v = events[n] \/ (~AllRetained /\ v = "exit" /\ events[n] = "out")

SessionShaped(s) ==
    /\ DOMAIN s = {"pub", "pend", "failed", "routed"}
    /\ s.failed \in BOOLEAN /\ s.routed \in BOOLEAN
    /\ s.pub \in Seq(Kinds) /\ Len(s.pub) <= Len(events)
    /\ Pending(s) \subseteq Len(s.pub) + 1 .. Len(events)

SessionTells(s) ==
    /\ SessionShaped(s)
    /\ \A n \in 1 .. Len(s.pub) : Tells(s.pub[n], n)
    /\ \A n \in Pending(s) : Tells(s.pend[n], n)

HoldsFew(s) == Cardinality(Pending(s)) <= MaxPending

ServerInv == ServerTypes /\ EventsOrdered /\ StreamsCounted /\ TasksNumbered /\ OutputKept
SessionInv == SessionTells(sess) /\ HoldsFew(sess)
EventInv == ServerInv /\ MessagesTyped /\ AnswersAwaited /\ AnswersTruthful /\ SessionInv

-----------------------------------------------------------------------------
(* Sets of numbers.                                                        *)

\* A longer sequence has the entries of the old one and the new one.
LEMMA AppendEntries ==
    ASSUME NEW S, NEW w \in Seq(S), NEW m \in S
    PROVE  \A i \in DOMAIN Append(w, m) :
               (i \in DOMAIN w /\ Append(w, m)[i] = w[i]) \/ Append(w, m)[i] = m
OBVIOUS

\* A set of numbers that is not empty has a least one.
LEMMA LeastNumber ==
    ASSUME NEW S \in SUBSET Nat, S # {}
    PROVE  \E k \in S : \A l \in S : k <= l
<1> DEFINE R == {ss \in Nat \X Nat : ss[1] < ss[2]}
<1>1. IsWellFoundedOn(R, Nat)
  BY NatLessThanWellFounded, Zenon DEF OpToRel
<1> HIDE DEF R
<1>2. PICK k \in S : \A l \in S : ~(<<l, k>> \in R)
  BY <1>1, WFMin, Zenon
<1>3. \A l \in S : k <= l
  <2> SUFFICES ASSUME NEW l \in S, l < k PROVE FALSE
    BY <1>2
  <2>1. <<l, k>> \in R
    BY <1>2 DEF R
  <2> QED BY <1>2, <2>1
<1> QED BY <1>3

\* Behind k, a finite set has a first gap, no further off than it has members.
LEMMA FirstGap ==
    ASSUME NEW P \in SUBSET Nat, IsFiniteSet(P), NEW k \in Nat
    PROVE  \E g \in k + 1 .. k + 1 + Cardinality(P) : g \notin P /\ (k + 1 .. g - 1) \subseteq P
<1> DEFINE last == k + 1 + Cardinality(P)
           G == {n \in k + 1 .. last : n \notin P}
<1>1. Cardinality(P) \in Nat
  BY FS_CardinalityType
<1>2. G # {}
  <2> SUFFICES ASSUME G = {} PROVE FALSE
    OBVIOUS
  <2>1. (k + 1 .. last) \in SUBSET P
    OBVIOUS
  <2>2. Cardinality(k + 1 .. last) = Cardinality(P) + 1
    BY <1>1, FS_Interval
  <2>3. Cardinality(k + 1 .. last) <= Cardinality(P)
    BY <2>1, FS_Subset
  <2> HIDE DEF last
  <2> QED BY <1>1, <2>2, <2>3
<1>3. G \in SUBSET Nat
  BY <1>1
<1> HIDE DEF G
<1>4. PICK g \in G : \A l \in G : g <= l
  BY <1>2, <1>3, LeastNumber
<1>5. g \in k + 1 .. last /\ g \notin P
  BY <1>4 DEF G
<1>6. \A n \in k + 1 .. g - 1 : n \in P
  BY <1>1, <1>4, <1>5 DEF G
<1> QED BY <1>5, <1>6

\* A set within an interval of numbers is finite.
LEMMA IntervalFinite ==
    ASSUME NEW a \in Int, NEW b \in Int, NEW S \in SUBSET (a .. b)
    PROVE  IsFiniteSet(S) /\ Cardinality(S) \in Nat
BY FS_Interval, FS_Subset, FS_CardinalityType

-----------------------------------------------------------------------------
(* The reorder buffer.                                                     *)

\* A session as it is while events join it: what is held back lies behind what is published.
Buffer(s) ==
    /\ DOMAIN s = {"pub", "pend", "failed", "routed"}
    /\ s.failed \in BOOLEAN /\ s.routed \in BOOLEAN
    /\ s.pub \in Seq(Kinds)
    /\ Pending(s) \in SUBSET Nat /\ IsFiniteSet(Pending(s))
    /\ \A n \in Pending(s) : n > Len(s.pub) /\ s.pend[n] \in Kinds

\* Holding adds the events of one kind that are not there yet.
LEMMA HoldingFacts ==
    ASSUME NEW s, Buffer(s), NEW ns \in SUBSET Nat, IsFiniteSet(ns), NEW kind \in Kinds,
           \A n \in ns : n > Len(s.pub)
    PROVE  /\ Buffer(Holding(s, ns, kind))
           /\ Holding(s, ns, kind).pub = s.pub
           /\ Holding(s, ns, kind).failed = s.failed /\ Holding(s, ns, kind).routed = s.routed
           /\ Pending(Holding(s, ns, kind)) = Pending(s) \cup ns
           /\ \A n \in Pending(s) : Holding(s, ns, kind).pend[n] = s.pend[n]
           /\ \A n \in ns \ Pending(s) : Holding(s, ns, kind).pend[n] = kind
<1> DEFINE f == [i \in Pending(s) \cup ns |-> IF i \in Pending(s) THEN s.pend[i] ELSE kind]
           h == [s EXCEPT !.pend = f]
<1>1. Holding(s, ns, kind) = h
  BY DEF Holding
<1>2. /\ DOMAIN f = Pending(s) \cup ns
      /\ \A n \in Pending(s) : f[n] = s.pend[n]
      /\ \A n \in ns \ Pending(s) : f[n] = kind
  OBVIOUS
<1>3. /\ h.pub = s.pub /\ h.failed = s.failed /\ h.routed = s.routed /\ h.pend = f
      /\ DOMAIN h = DOMAIN s
  BY DEF Buffer
<1>4. IsFiniteSet(Pending(s) \cup ns)
  BY FS_Union DEF Buffer
<1> HIDE DEF f, h
<1>5. Pending(h) = Pending(s) \cup ns
  BY <1>2, <1>3 DEF Pending
<1>6. Buffer(h)
  BY <1>2, <1>3, <1>4, <1>5 DEF Buffer
<1> QED BY <1>1, <1>2, <1>3, <1>5, <1>6

\* t is s after everything up to m has been published.
PublishedTo(s, t, m) ==
    /\ m \in Nat /\ m >= Len(s.pub) /\ Len(t.pub) = m
    /\ \A n \in 1 .. Len(s.pub) : t.pub[n] = s.pub[n]
    /\ \A n \in Len(s.pub) + 1 .. m : n \in Pending(s) /\ t.pub[n] = s.pend[n]
    /\ m + 1 \notin Pending(s)
    /\ Pending(t) = {n \in Pending(s) : n > m}
    /\ \A n \in Pending(t) : t.pend[n] = s.pend[n]
    /\ t.failed = s.failed /\ t.routed = s.routed

\* PublishReady stops at the first gap.
LEMMA PublishFacts ==
    ASSUME NEW s, Buffer(s)
    PROVE  Buffer(PublishReady(s)) /\ \E m : PublishedTo(s, PublishReady(s), m)
<1> DEFINE k == Len(s.pub)
           P == Pending(s)
           ready == {n \in P : (NextSeq(s) .. n) \subseteq P}
           more == [i \in 1 .. Cardinality(ready) |-> s.pend[Len(s.pub) + i]]
           rest == [i \in P \ ready |-> s.pend[i]]
           t == [s EXCEPT !.pub = s.pub \o more, !.pend = rest]
<1>0. /\ s.pub \in Seq(Kinds) /\ k \in Nat /\ P \in SUBSET Nat /\ IsFiniteSet(P)
      /\ \A n \in P : n > k /\ s.pend[n] \in Kinds
  BY DEF Buffer
<1>1. PublishReady(s) = t
  BY DEF PublishReady
<1>2. PICK g \in Nat : g > k /\ g \notin P /\ (k + 1 .. g - 1) \subseteq P
  <2>1. PICK g \in k + 1 .. k + 1 + Cardinality(P) : g \notin P /\ (k + 1 .. g - 1) \subseteq P
    BY <1>0, FirstGap
  <2>2. Cardinality(P) \in Nat
    BY <1>0, FS_CardinalityType
  <2> HIDE DEF P
  <2>3. g \in Nat /\ g > k
    BY <1>0, <2>1, <2>2
  <2> QED BY <2>1, <2>3
<1>3. ready = k + 1 .. g - 1
  <2>1. ASSUME NEW n \in ready PROVE n \in k + 1 .. g - 1
    <3>1. n \in Nat /\ n > k /\ (k + 1 .. n) \subseteq P
      BY <1>0, <2>1 DEF NextSeq
    <3>2. ~(g \in k + 1 .. n)
      BY <1>2, <3>1
    <3> QED BY <1>0, <1>2, <3>1, <3>2
  <2>2. ASSUME NEW n \in k + 1 .. g - 1 PROVE n \in ready
    BY <1>0, <1>2, <2>2 DEF NextSeq
  <2> QED BY <2>1, <2>2
<1>4. Cardinality(ready) = g - 1 - k /\ g - 1 - k \in Nat
  <2> HIDE DEF k, P, ready
  <2>1. k + 1 \in Int /\ g - 1 \in Int /\ k \in Nat /\ g \in Nat /\ g > k
    BY <1>0, <1>2
  <2>2. Cardinality(k + 1 .. g - 1) = IF k + 1 > g - 1 THEN 0 ELSE g - 1 - (k + 1) + 1
    BY <2>1, FS_Interval
  <2> QED BY <1>3, <2>1, <2>2
<1> DEFINE m == g - 1
<1>5. more \in Seq(Kinds) /\ Len(more) = m - k /\ \A i \in 1 .. m - k : more[i] = s.pend[k + i]
  <2>1. DOMAIN more = 1 .. m - k
    BY <1>4
  <2>2. \A i \in 1 .. m - k : k + i \in P
    BY <1>0, <1>2
  <2>3. \A i \in 1 .. m - k : more[i] = s.pend[k + i] /\ more[i] \in Kinds
    BY <1>0, <1>4, <2>2
  <2>4. m - k \in Nat
    BY <1>4
  <2> HIDE DEF more, k, m
  <2>5. more \in [1 .. m - k -> Kinds]
    BY <2>1, <2>3 DEF more
  <2>6. more \in Seq(Kinds) /\ Len(more) = m - k
    BY <2>4, <2>5
  <2> QED BY <2>3, <2>6
<1>6. /\ rest = [i \in P \ ready |-> s.pend[i]] /\ DOMAIN rest = P \ ready
      /\ \A n \in P \ ready : rest[n] = s.pend[n]
  OBVIOUS
<1>7. /\ t.pub = s.pub \o more /\ t.pend = rest /\ t.failed = s.failed /\ t.routed = s.routed
      /\ DOMAIN t = DOMAIN s
  BY DEF Buffer
<1> HIDE DEF more, rest, t, ready
<1>8. /\ t.pub \in Seq(Kinds) /\ Len(t.pub) = m
      /\ \A n \in 1 .. k : t.pub[n] = s.pub[n]
      /\ \A n \in k + 1 .. m : t.pub[n] = s.pend[n]
  <2>1. /\ s.pub \o more \in Seq(Kinds) /\ Len(s.pub \o more) = k + (m - k)
        /\ \A n \in 1 .. k + (m - k) :
               (s.pub \o more)[n] = IF n <= k THEN s.pub[n] ELSE more[n - k]
    BY <1>0, <1>5, ConcatProperties
  <2>2. \A n \in k + 1 .. m : more[n - k] = s.pend[n]
    <3> SUFFICES ASSUME NEW n \in k + 1 .. m PROVE more[n - k] = s.pend[n]
      OBVIOUS
    <3>1. n - k \in 1 .. m - k /\ k + (n - k) = n
      BY <1>0, <1>2
    <3> QED BY <1>5, <3>1
  <2> QED BY <1>0, <1>2, <1>7, <2>1, <2>2
<1>9. Pending(t) = {n \in P : n > m} /\ \A n \in Pending(t) : t.pend[n] = s.pend[n]
  <2>1. Pending(t) = P \ ready
    BY <1>6, <1>7 DEF Pending
  <2>2. P \ ready = {n \in P : n > m}
    <3> HIDE DEF P
    <3>1. ASSUME NEW n \in P PROVE n \in ready <=> n <= m
      BY <1>0, <1>2, <1>3
    <3>2. ASSUME NEW n \in P PROVE n <= m <=> ~(n > m)
      BY <1>0, <1>2
    <3> QED BY <3>1, <3>2
  <2> QED BY <1>6, <1>7, <2>1, <2>2
<1>10. PublishedTo(s, t, m)
  <2>1. m \in Nat /\ m >= k /\ m + 1 \notin P
    BY <1>0, <1>2
  <2>2. \A n \in k + 1 .. m : n \in P
    BY <1>2
  <2> QED BY <1>7, <1>8, <1>9, <2>1, <2>2 DEF PublishedTo
<1>11. Buffer(t)
  <2>1. Pending(t) \in SUBSET P
    BY <1>9
  <2>2. IsFiniteSet(Pending(t))
    BY <1>0, <2>1, FS_Subset
  <2> QED BY <1>0, <1>7, <1>8, <1>9, <2>1, <2>2 DEF Buffer
<1> QED BY <1>1, <1>10, <1>11

\* FirstMissing is the first gap.
LEMMA MissingFacts ==
    ASSUME NEW s, Len(s.pub) \in Nat, NEW ns \in SUBSET Nat, IsFiniteSet(ns)
    PROVE  /\ FirstMissing(s, ns) \in Nat /\ FirstMissing(s, ns) > Len(s.pub)
           /\ FirstMissing(s, ns) \notin ns
           /\ \A n \in Len(s.pub) + 1 .. FirstMissing(s, ns) - 1 : n \in ns
<1> DEFINE k == Len(s.pub)
           Good(n) == n \notin ns /\ (NextSeq(s) .. n - 1) \subseteq ns
           g == CHOOSE n \in NextSeq(s) .. NextSeq(s) + Cardinality(ns) : Good(n)
<1>1. Cardinality(ns) \in Nat
  BY FS_CardinalityType
<1>2. \E n \in NextSeq(s) .. NextSeq(s) + Cardinality(ns) : Good(n)
  <2>1. PICK n \in k + 1 .. k + 1 + Cardinality(ns) : n \notin ns /\ (k + 1 .. n - 1) \subseteq ns
    BY FirstGap
  <2> QED BY <2>1 DEF NextSeq
<1>3. g \in NextSeq(s) .. NextSeq(s) + Cardinality(ns) /\ Good(g)
  BY <1>2
<1>4. FirstMissing(s, ns) = g
  BY DEF FirstMissing
<1> HIDE DEF g
<1> QED BY <1>1, <1>3, <1>4 DEF NextSeq

-----------------------------------------------------------------------------
(* What a session tells.                                                   *)

\* What has been published stays.
Grows(s, t) ==
    Len(s.pub) <= Len(t.pub) /\ \A n \in 1 .. Len(s.pub) : t.pub[n] = s.pub[n]

\* A session that tells the truth has a well-formed buffer.
LEMMA TellsBuffer ==
    ASSUME NEW s, events \in Seq(Kinds), SessionTells(s)
    PROVE  /\ Buffer(s) /\ Len(s.pub) \in Nat /\ Len(events) \in Nat
           /\ DOMAIN events = 1 .. Len(events)
           /\ Cardinality(Pending(s)) \in Nat
<1>1. /\ s.pub \in Seq(Kinds) /\ Len(s.pub) \in Nat /\ Len(events) \in Nat
      /\ DOMAIN events = 1 .. Len(events)
      /\ Pending(s) \in SUBSET (Len(s.pub) + 1 .. Len(events))
  BY DEF SessionTells, SessionShaped
<1>2. IsFiniteSet(Pending(s)) /\ Cardinality(Pending(s)) \in Nat
  <2>1. Len(s.pub) + 1 \in Int /\ Len(events) \in Int
    BY <1>1
  <2> QED BY <1>1, <2>1, IntervalFinite
<1>3. \A n \in Pending(s) : n > Len(s.pub) /\ n \in DOMAIN events /\ n \in Nat
  BY <1>1
<1>4. \A n \in Pending(s) : s.pend[n] \in Kinds
  BY <1>3 DEF SessionTells, Tells, Kinds
<1> QED BY <1>1, <1>2, <1>3, <1>4 DEF Buffer, SessionTells, SessionShaped

\* Holding back events as what they are.
LEMMA HoldTells ==
    ASSUME NEW s, events \in Seq(Kinds), SessionTells(s), NEW kind \in Kinds,
           NEW ns \in SUBSET (Len(s.pub) + 1 .. Len(events)),
           \A n \in ns \ Pending(s) : Tells(kind, n)
    PROVE  /\ SessionTells(Holding(s, ns, kind))
           /\ Holding(s, ns, kind).pub = s.pub
           /\ Pending(Holding(s, ns, kind)) = Pending(s) \cup ns
<1>1. /\ Buffer(s) /\ Len(s.pub) \in Nat /\ Len(events) \in Nat
  BY TellsBuffer
<1>2. IsFiniteSet(ns) /\ ns \in SUBSET Nat /\ \A n \in ns : n > Len(s.pub)
  <2>1. Len(s.pub) + 1 \in Int /\ Len(events) \in Int
    BY <1>1
  <2>2. IsFiniteSet(ns)
    BY <2>1, IntervalFinite
  <2> QED BY <1>1, <2>2
<1> DEFINE h == Holding(s, ns, kind)
<1>3. /\ Buffer(h) /\ h.pub = s.pub /\ Pending(h) = Pending(s) \cup ns
      /\ \A n \in Pending(s) : h.pend[n] = s.pend[n]
      /\ \A n \in ns \ Pending(s) : h.pend[n] = kind
  BY <1>1, <1>2, HoldingFacts
<1> HIDE DEF h
<1>4. SessionShaped(h)
  BY <1>3 DEF Buffer, SessionTells, SessionShaped
<1>5. SessionTells(h)
  BY <1>3, <1>4 DEF SessionTells
<1> QED BY <1>3, <1>5 DEF h

\* Publishing what is ready.
LEMMA PublishTells ==
    ASSUME NEW s, events \in Seq(Kinds), SessionTells(s)
    PROVE  /\ SessionTells(PublishReady(s)) /\ Grows(s, PublishReady(s))
           /\ \E m : PublishedTo(s, PublishReady(s), m)
<1> DEFINE t == PublishReady(s)
<1>1. Buffer(s) /\ Len(s.pub) \in Nat /\ Len(events) \in Nat
  BY TellsBuffer
<1>2. Buffer(t) /\ \E m : PublishedTo(s, t, m)
  BY <1>1, PublishFacts
<1> HIDE DEF t
<1>3. PICK m : PublishedTo(s, t, m)
  BY <1>2
<1>4. m \in Nat /\ Len(t.pub) = m /\ m >= Len(s.pub)
  BY <1>3 DEF PublishedTo
<1>5. m <= Len(events)
  <2>1. CASE m = Len(s.pub)
    BY <2>1 DEF SessionTells, SessionShaped
  <2>2. CASE m # Len(s.pub)
    <3>1. m \in Pending(s)
      BY <1>1, <1>3, <1>4, <2>2 DEF PublishedTo
    <3> QED BY <1>1, <3>1 DEF SessionTells, SessionShaped
  <2> QED BY <2>1, <2>2
<1>6. SessionShaped(t)
  <2>1. Pending(t) \subseteq m + 1 .. Len(events)
    BY <1>1, <1>3, <1>4, <1>5 DEF PublishedTo, SessionTells, SessionShaped
  <2> QED BY <1>2, <1>4, <1>5, <2>1 DEF Buffer, SessionShaped
<1>7. \A n \in 1 .. Len(t.pub) : Tells(t.pub[n], n)
  <2> SUFFICES ASSUME NEW n \in 1 .. m PROVE Tells(t.pub[n], n)
    BY <1>4
  <2>1. CASE n <= Len(s.pub)
    <3>1. n \in 1 .. Len(s.pub)
      BY <1>1, <1>4, <2>1
    <3> QED BY <1>3, <3>1 DEF PublishedTo, SessionTells
  <2>2. CASE n > Len(s.pub)
    <3>1. n \in Len(s.pub) + 1 .. m
      BY <1>1, <1>4, <2>2
    <3> QED BY <1>3, <3>1 DEF PublishedTo, SessionTells
  <2> QED BY <1>1, <1>4, <2>1, <2>2
<1>8. \A n \in Pending(t) : Tells(t.pend[n], n)
  BY <1>3 DEF PublishedTo, SessionTells
<1>9. Grows(s, t)
  BY <1>3, <1>4 DEF PublishedTo, Grows
<1> QED BY <1>2, <1>6, <1>7, <1>8, <1>9 DEF SessionTells, t

\* Fewer held back are few.
LEMMA FewerHeld ==
    ASSUME NEW s, NEW t, HoldsFew(s), Cardinality(Pending(s)) \in Nat,
           IsFiniteSet(Pending(s)), Pending(t) \subseteq Pending(s)
    PROVE  HoldsFew(t)
<1>1. /\ Cardinality(Pending(t)) <= Cardinality(Pending(s))
      /\ IsFiniteSet(Pending(t))
  BY FS_Subset
<1>2. Cardinality(Pending(t)) \in Nat /\ MaxPending \in Nat
  BY <1>1, FS_CardinalityType, ExecAssumption
<1> QED BY <1>1, <1>2 DEF HoldsFew

\* A session that leaves the routing table, or fails, tells no more and no less.
LEMMA SettledFacts ==
    ASSUME NEW s, events \in Seq(Kinds), SessionTells(s), HoldsFew(s)
    PROVE  SessionTells(Settled(s)) /\ HoldsFew(Settled(s)) /\ Grows(s, Settled(s))
<1>1. CASE Settled(s) = s
  BY <1>1, TellsBuffer DEF Grows
<1>2. CASE Settled(s) # s
  <2> DEFINE t == [s EXCEPT !.routed = FALSE]
  <2>1. Settled(s) = t
    BY <1>2 DEF Settled
  <2>2. /\ DOMAIN t = DOMAIN s /\ t.pub = s.pub /\ t.pend = s.pend /\ t.failed = s.failed
        /\ t.routed = FALSE
    BY DEF SessionTells, SessionShaped
  <2> HIDE DEF t
  <2>3. Pending(t) = Pending(s)
    BY <2>2 DEF Pending
  <2>4. SessionTells(t)
    BY <2>2, <2>3 DEF SessionTells, SessionShaped
  <2>5. HoldsFew(t) /\ Grows(s, t)
    BY <2>2, <2>3, TellsBuffer DEF HoldsFew, Grows
  <2> QED BY <2>1, <2>4, <2>5
<1> QED BY <1>1, <1>2

LEMMA FailedFacts ==
    ASSUME NEW s, events \in Seq(Kinds), SessionTells(s), HoldsFew(s)
    PROVE  /\ SessionTells(FailedAndRemoved(s)) /\ HoldsFew(FailedAndRemoved(s))
           /\ Grows(s, FailedAndRemoved(s))
<1> DEFINE t == [s EXCEPT !.failed = TRUE, !.pend = <<>>]
           f == Failed(s)
           r == [f EXCEPT !.routed = FALSE]
<1>1. /\ DOMAIN t = DOMAIN s /\ t.pub = s.pub /\ t.pend = <<>> /\ t.failed = TRUE
      /\ t.routed = s.routed
  BY DEF SessionTells, SessionShaped
<1>2. f = s \/ f = t
  BY DEF Failed
<1> HIDE DEF t, f
<1>3. /\ DOMAIN f = {"pub", "pend", "failed", "routed"} /\ f.pub = s.pub
      /\ f.pend = s.pend \/ f.pend = <<>>
      /\ f.failed \in BOOLEAN
  BY <1>1, <1>2 DEF SessionTells, SessionShaped
<1>4. /\ DOMAIN r = {"pub", "pend", "failed", "routed"} /\ r.pub = s.pub /\ r.pend = f.pend
      /\ r.failed \in BOOLEAN /\ r.routed = FALSE
  BY <1>3
<1>5. FailedAndRemoved(s) = r
  BY DEF FailedAndRemoved, f
<1> HIDE DEF r
<1>6. Pending(r) = {} \/ r.pend = s.pend
  BY <1>3, <1>4 DEF Pending
<1>7. SessionTells(r)
  BY <1>4, <1>6 DEF SessionTells, SessionShaped, Pending
<1>8. HoldsFew(r)
  <2>1. CASE Pending(r) = {}
    BY <2>1, FS_EmptySet, ExecAssumption DEF HoldsFew
  <2>2. CASE r.pend = s.pend
    BY <2>2 DEF HoldsFew, Pending
  <2> QED BY <1>6, <2>1, <2>2
<1> QED BY <1>4, <1>5, <1>7, <1>8, TellsBuffer DEF Grows

\* publish_ordered_event, for any event.
LEMMA NotificationFacts ==
    ASSUME NEW s, events \in Seq(Kinds), SessionTells(s), HoldsFew(s), NEW n \in DOMAIN events
    PROVE  /\ SessionTells(OnNotification(s, n)) /\ HoldsFew(OnNotification(s, n))
           /\ Grows(s, OnNotification(s, n))
<1>0. /\ Buffer(s) /\ Len(s.pub) \in Nat /\ Len(events) \in Nat /\ n \in 1 .. Len(events)
      /\ Cardinality(Pending(s)) \in Nat
  BY TellsBuffer
<1>1. CASE ~s.routed \/ Over(s) \/ n <= Len(s.pub)
  BY <1>0, <1>1 DEF OnNotification, Grows
<1>2. CASE ~(~s.routed \/ Over(s) \/ n <= Len(s.pub)) /\ Refused(s, n)
  BY <1>2, FailedFacts DEF OnNotification
<1>3. CASE ~(~s.routed \/ Over(s) \/ n <= Len(s.pub)) /\ ~Refused(s, n)
  <2> DEFINE h == Holding(s, {n}, events[n])
             p == PublishReady(h)
  <2>1. {n} \in SUBSET (Len(s.pub) + 1 .. Len(events))
    BY <1>0, <1>3
  <2>2. events[n] \in Kinds /\ Tells(events[n], n)
    BY DEF Tells
  <2>3. SessionTells(h) /\ h.pub = s.pub /\ Pending(h) = Pending(s) \cup {n}
    BY <2>1, <2>2, HoldTells
  <2> HIDE DEF h
  <2>4. SessionTells(p) /\ Grows(h, p) /\ \E m : PublishedTo(h, p, m)
    BY <2>3, PublishTells
  <2> HIDE DEF p
  <2>5. PICK m : PublishedTo(h, p, m)
    BY <2>4
  <2>6. HoldsFew(p)
    <3>1. CASE n \in Pending(s) \/ n = NextSeq(s)
      <4>1. n = NextSeq(s) => ~(n > m)
        <5> SUFFICES ASSUME n = Len(s.pub) + 1, n > m PROVE FALSE
          BY DEF NextSeq
        <5>1. m \in Nat /\ m >= Len(s.pub) /\ m + 1 \notin Pending(h)
          BY <2>3, <2>5 DEF PublishedTo
        <5>2. m + 1 = n
          BY <1>0, <5>1
        <5> QED BY <2>3, <5>1, <5>2
      <4>2. Pending(p) \subseteq Pending(s)
        BY <2>3, <2>5, <3>1, <4>1 DEF PublishedTo
      <4> QED BY <1>0, <4>2, FewerHeld DEF Buffer
    <3>2. CASE ~(n \in Pending(s) \/ n = NextSeq(s))
      <4>1. Cardinality(Pending(s)) < MaxPending
        BY <1>0, <1>3, <3>2, ExecAssumption DEF Refused
      <4>2. /\ IsFiniteSet(Pending(h))
            /\ Cardinality(Pending(h)) = Cardinality(Pending(s)) + 1
        <5>1. IsFiniteSet(Pending(s)) /\ n \notin Pending(s)
          BY <1>0, <3>2 DEF Buffer
        <5>2. /\ IsFiniteSet(Pending(s) \cup {n})
              /\ Cardinality(Pending(s) \cup {n}) = Cardinality(Pending(s)) + 1
          BY <5>1, FS_AddElement
        <5> QED BY <2>3, <5>2
      <4>3. HoldsFew(h) /\ Cardinality(Pending(h)) \in Nat
        BY <1>0, <4>1, <4>2, ExecAssumption DEF HoldsFew
      <4>4. Pending(p) \subseteq Pending(h)
        BY <2>5 DEF PublishedTo
      <4> QED BY <4>2, <4>3, <4>4, FewerHeld
    <3> QED BY <3>1, <3>2
  <2>7. OnNotification(s, n) = Settled(p)
    BY <1>3 DEF OnNotification, p, h
  <2>8. SessionTells(Settled(p)) /\ HoldsFew(Settled(p)) /\ Grows(p, Settled(p))
    BY <2>4, <2>6, SettledFacts
  <2>9. Len(p.pub) \in Nat /\ Len(Settled(p).pub) \in Nat
    BY <2>4, <2>8, TellsBuffer
  <2>10. Grows(s, Settled(p))
    BY <1>0, <2>3, <2>4, <2>8, <2>9 DEF Grows
  <2> QED BY <2>7, <2>8, <2>10
<1> QED BY <1>1, <1>2, <1>3

-----------------------------------------------------------------------------
(* recover_events.                                                         *)

\* A bounded set of numbers that is not empty has a greatest one.
LEMMA GreatestNumber ==
    ASSUME NEW S \in SUBSET Nat, S # {}, NEW b \in Nat, \A n \in S : n <= b
    PROVE  \E k \in S : \A l \in S : l <= k
<1> DEFINE U == {u \in Nat : \A n \in S : n <= u}
<1>1. PICK u \in U : \A v \in U : u <= v
  <2>1. b \in U
    OBVIOUS
  <2> QED BY <2>1, LeastNumber
<1>2. u \in Nat /\ \A n \in S : n <= u
  BY <1>1
<1>3. u \in S
  <2> SUFFICES ASSUME u \notin S PROVE FALSE
    OBVIOUS
  <2>1. PICK n \in S : TRUE
    OBVIOUS
  <2>2. u - 1 \in Nat /\ \A l \in S : l <= u - 1
    BY <1>2, <2>1
  <2>3. u - 1 \in U
    BY <2>2
  <2> QED BY <1>1, <1>2, <2>3
<1> QED BY <1>2, <1>3

\* An exit that is not known is neither published nor held back.
LEMMA UnknownExit ==
    ASSUME NEW s, events \in Seq(Kinds), SessionTells(s), NEW r, Truthful(r),
           r.exited, ~ExitKnown(s, r)
    PROVE  \E e \in 1 .. Target(r) : events[e] = "exit" /\ e > Len(s.pub) /\ e \notin Pending(s)
<1>1. PICK e \in 1 .. Target(r) : events[e] = "exit"
  BY DEF Truthful
<1>2. Len(s.pub) \in Nat /\ Target(r) \in Nat /\ s.pub \in Seq(Kinds)
  BY TellsBuffer DEF Truthful, SessionTells, SessionShaped
<1>3. e > Len(s.pub)
  <2> SUFFICES ASSUME e <= Len(s.pub) PROVE FALSE
    BY <1>2
  <2>1. e \in 1 .. Len(s.pub) /\ e \in DOMAIN s.pub
    BY <1>2
  <2>2. s.pub[e] = "exit"
    BY <1>1, <2>1 DEF SessionTells, Tells
  <2> QED BY <2>1, <2>2 DEF ExitKnown, Published, Range
<1>4. e \notin Pending(s)
  <2> SUFFICES ASSUME e \in Pending(s) PROVE FALSE
    OBVIOUS
  <2>1. s.pend[e] = "exit"
    BY <1>1 DEF SessionTells, Tells
  <2>2. e <= Target(r)
    BY <1>2
  <2> QED BY <2>1, <2>2 DEF ExitKnown
<1> QED BY <1>1, <1>3, <1>4

\* What WithChunks leaves behind: a session that still tells the truth, publishes up to its
\* first gap, and lacks an exit it still has to place.
Merged(m, r) ==
    /\ SessionTells(m.s) /\ HoldsFew(m.s)
    /\ m.exit => \E e \in 1 .. Target(r) :
           events[e] = "exit" /\ e > Len(m.s.pub) /\ e \notin Pending(m.s)

LEMMA ChunksFacts ==
    ASSUME events \in Seq(Kinds), EventsOrdered, SessionTells(sess), HoldsFew(sess),
           NEW r, Truthful(r)
    PROVE  Merged(WithChunks(sess, r), r) /\ Grows(sess, WithChunks(sess, r).s)
<1> DEFINE s == sess
           k == Len(s.pub)
           P == Pending(s)
           got == {n \in r.chunks : n > Len(s.pub)}
           have == P \cup got
           hole == FirstMissing(s, have)
           fill == r.exited /\ ~ExitKnown(s, r) /\ \E n \in got : n > hole
           gap == IF fill THEN FirstMissing(s, have \cup {hole}) ELSE hole
           held(n) == {m \in P : m > gap} \cup {m \in got : gap < m /\ m < n}
           kept == {n \in got : n < gap \/ n \in P \/ Cardinality(held(n)) < MaxPending}
           F == IF fill THEN {hole} ELSE {}
           h1 == Holding(s, kept, "out")
           h2 == Holding(h1, F, "exit")
           p == PublishReady(h2)
           exit == r.exited /\ ~ExitKnown(s, r) /\ ~fill
<1>1. WithChunks(sess, r).s = p /\ WithChunks(sess, r).exit = exit
  BY DEF WithChunks
<1>2. /\ k \in Nat /\ Len(events) \in Nat /\ DOMAIN events = 1 .. Len(events)
      /\ Buffer(s) /\ P \in SUBSET (k + 1 .. Len(events)) /\ Cardinality(P) \in Nat
      /\ IsFiniteSet(P)
  BY TellsBuffer DEF SessionTells, SessionShaped, Buffer
<1>3. /\ Target(r) \in 0 .. Len(events)
      /\ \A n \in got : n \in k + 1 .. Target(r) /\ n \in k + 1 .. Len(events) /\ events[n] = "out"
  <2>1. \A n \in r.chunks : n \in 1 .. Target(r) /\ events[n] = "out"
    BY DEF Truthful
  <2>2. Target(r) \in 0 .. Len(events)
    BY DEF Truthful
  <2> QED BY <1>2, <2>1, <2>2
<1>4. /\ IsFiniteSet(have) /\ have \in SUBSET Nat
      /\ IsFiniteSet(have \cup {hole})
  <2>1. have \in SUBSET (k + 1 .. Len(events)) /\ k + 1 \in Int /\ Len(events) \in Int
    BY <1>2, <1>3
  <2>2. IsFiniteSet(have)
    BY <2>1, IntervalFinite
  <2> HIDE DEF have, k
  <2> QED BY <1>2, <2>1, <2>2, FS_AddElement
<1>5. /\ hole \in Nat /\ hole > k /\ hole \notin have
      /\ \A n \in k + 1 .. hole - 1 : n \in have
  <2> HIDE DEF have
  <2> QED BY <1>2, <1>4, MissingFacts
<1> HIDE DEF hole
<1>6. /\ gap \in Nat /\ gap > k /\ gap \notin have \cup F
      /\ \A n \in k + 1 .. gap - 1 : n \in have \cup F
      /\ fill => hole < gap
  <2>1. CASE ~fill
    BY <1>5, <2>1
  <2>2. CASE fill
    <3> DEFINE g == FirstMissing(s, have \cup {hole})
    <3>1. /\ g \in Nat /\ g > k /\ g \notin have \cup {hole}
          /\ \A n \in k + 1 .. g - 1 : n \in have \cup {hole}
      <4>1. have \cup {hole} \in SUBSET Nat
        BY <1>4, <1>5
      <4> HIDE DEF have
      <4> QED BY <1>2, <1>4, <4>1, MissingFacts
    <3>2. gap = g /\ F = {hole}
      BY <2>2
    <3> HIDE DEF g, gap, F, have, k
    <3>3. hole < g
      <4> SUFFICES ASSUME g < hole PROVE FALSE
        BY <1>5, <3>1
      <4>1. g \in k + 1 .. hole - 1
        BY <1>2, <1>5, <3>1 DEF k
      <4> QED BY <1>5, <3>1, <4>1
    <3> QED BY <3>1, <3>2, <3>3
  <2> QED BY <2>1, <2>2
<1> HIDE DEF gap
<1>7. SessionTells(h1) /\ h1.pub = s.pub /\ Pending(h1) = P \cup kept
  <2>1. kept \in SUBSET (Len(s.pub) + 1 .. Len(events))
    BY <1>3
  <2>2. \A n \in kept \ Pending(s) : Tells("out", n)
    BY <1>3 DEF Tells
  <2>3. "out" \in Kinds
    BY DEF Kinds
  <2> HIDE DEF kept
  <2> QED BY <2>1, <2>2, <2>3, HoldTells
<1> HIDE DEF h1
<1>8. SessionTells(h2) /\ h2.pub = s.pub /\ Pending(h2) = P \cup kept \cup F
  <2>1. "exit" \in Kinds
    BY DEF Kinds
  <2>2. ASSUME fill
        PROVE  hole \in k + 1 .. Len(events) /\ Tells("exit", hole)
    <3>1. PICK n \in got : n > hole
      BY <2>2
    <3>2. hole \in k + 1 .. Target(r) /\ hole \in k + 1 .. Len(events) /\ hole \in DOMAIN events
          /\ hole # Len(events)
      <4>1. n \in k + 1 .. Target(r) /\ n \in k + 1 .. Len(events) /\ Target(r) \in Nat
        BY <1>2, <1>3, <3>1
      <4>2. k \in Nat /\ Len(events) \in Nat /\ hole \in Nat /\ hole > k /\ n > hole
        BY <1>2, <1>5, <3>1
      <4>3. DOMAIN events = 1 .. Len(events)
        BY <1>2
      <4> HIDE DEF k, got, have
      <4>4. hole \in k + 1 .. Target(r) /\ hole \in k + 1 .. Len(events) /\ hole # Len(events)
        BY <4>1, <4>2
      <4>5. hole \in 1 .. Len(events)
        BY <4>2, <4>4
      <4> QED BY <4>3, <4>4, <4>5
    <3>3. events[hole] \in {"out", "exit"}
      <4>1. events[hole] # "closed"
        BY <3>2 DEF EventsOrdered
      <4> QED BY <3>2, <4>1 DEF Kinds
    <3>4. AllRetained => events[hole] # "out"
      <4>1. hole \notin r.chunks /\ ~(hole <= Len(s.pub)) /\ hole \in 1 .. Target(r)
        <5>1. hole \in 1 .. Target(r) /\ ~(hole <= Len(s.pub)) /\ hole > Len(s.pub)
          <6>1. k \in Nat /\ hole \in Nat /\ hole > k /\ Target(r) \in Nat
            BY <1>2, <1>3, <1>5
          <6> QED BY <3>2, <6>1
        <5>2. hole \notin got
          BY <1>5
        <5> QED BY <5>1, <5>2
      <4> QED BY <4>1 DEF Truthful
    <3> QED BY <3>2, <3>3, <3>4 DEF Tells
  <2>3. /\ F \in SUBSET (Len(h1.pub) + 1 .. Len(events))
        /\ \A n \in F \ Pending(h1) : Tells("exit", n)
    BY <1>7, <2>2
  <2> HIDE DEF F, P, kept
  <2>4. SessionTells(h2) /\ h2.pub = h1.pub /\ Pending(h2) = Pending(h1) \cup F
    BY <1>7, <2>1, <2>3, HoldTells
  <2> HIDE DEF h2
  <2> QED BY <1>7, <2>4
<1> HIDE DEF h2
<1>9. SessionTells(p) /\ Grows(h2, p) /\ \E m : PublishedTo(h2, p, m)
  BY <1>8, PublishTells
<1> HIDE DEF p
<1>10. PICK m : PublishedTo(h2, p, m)
  BY <1>9
<1>11. /\ m \in Nat /\ m >= k /\ Len(p.pub) = m /\ m + 1 \notin Pending(h2)
       /\ Pending(p) = {n \in Pending(h2) : n > m}
       /\ \A n \in k + 1 .. m : n \in Pending(h2)
  BY <1>8, <1>10 DEF PublishedTo
<1>12. ASSUME NEW n \in Pending(p)
       PROVE  n > gap /\ n \in P \cup kept
  <2>1. \A i \in k + 1 .. gap - 1 : i \in Pending(h2)
    <3> SUFFICES ASSUME NEW i \in k + 1 .. gap - 1 PROVE i \in Pending(h2)
      OBVIOUS
    <3>1. i < gap
      BY <1>2, <1>6
    <3>2. i \in P \cup got \cup F
      BY <1>6
    <3> QED BY <1>8, <3>1, <3>2
  <2>2. m >= gap - 1
    <3> SUFFICES ASSUME m < gap - 1 PROVE FALSE
      BY <1>6, <1>11
    <3>1. m + 1 \in k + 1 .. gap - 1
      BY <1>2, <1>6, <1>11
    <3> QED BY <1>11, <2>1, <3>1
  <2>3. n \in Nat /\ n > m /\ n \in P \cup kept \cup F /\ n # gap
    <3>1. n > m /\ n \in P \cup kept \cup F
      BY <1>8, <1>11
    <3>2. n \in Nat
      BY <1>2, <1>3, <1>5, <3>1
    <3> QED BY <1>6, <3>1, <3>2
  <2>4. n > gap
    BY <1>6, <1>11, <2>2, <2>3
  <2>5. n \notin F
    BY <1>5, <1>6, <2>4
  <2> QED BY <2>3, <2>4, <2>5
<1>13. HoldsFew(p)
  <2> DEFINE K == {n \in kept : n > gap /\ n \notin P}
  <2>1. CASE K = {}
    <3>1. Pending(p) \subseteq Pending(s)
      BY <1>12, <2>1
    <3> QED BY <1>2, <3>1, FewerHeld
  <2>2. CASE K # {}
    <3>1. K \in SUBSET Nat /\ \A n \in K : n <= Len(events)
      BY <1>2, <1>3
    <3>2. PICK x \in K : \A l \in K : l <= x
      <4> HIDE DEF K
      <4> QED BY <1>2, <2>2, <3>1, GreatestNumber
    <3>3. x \in got /\ x > gap /\ x \notin P /\ x \in Nat /\ Cardinality(held(x)) < MaxPending
      BY <1>2, <1>3, <1>6, <3>2
    <3>4. held(x) \in SUBSET (k + 1 .. Len(events)) /\ k + 1 \in Int /\ Len(events) \in Int
      BY <1>2, <1>3
    <3>5. IsFiniteSet(held(x)) /\ Cardinality(held(x)) \in Nat
      <4> HIDE DEF k, held
      <4> QED BY <3>4, IntervalFinite
    <3>6. Pending(p) \subseteq held(x) \cup {x}
      <4> SUFFICES ASSUME NEW n \in Pending(p), n # x PROVE n \in held(x)
        OBVIOUS
      <4>1. n > gap /\ n \in P \cup kept
        BY <1>12
      <4>2. CASE n \in P
        BY <4>1, <4>2
      <4>3. CASE n \notin P
        <5>1. n \in kept /\ n \in K
          BY <4>1, <4>3
        <5>2. n \in got /\ n \in Nat
          BY <1>2, <1>3, <5>1
        <5>3. n < x
          <6> HIDE DEF K, got
          <6> QED BY <3>2, <3>3, <5>1, <5>2
        <5> QED BY <4>1, <5>2, <5>3
      <4> QED BY <4>2, <4>3
    <3> HIDE DEF held, K
    <3>7. /\ IsFiniteSet(held(x) \cup {x})
          /\ Cardinality(held(x) \cup {x}) <= Cardinality(held(x)) + 1
          /\ Cardinality(held(x) \cup {x}) \in Nat
      <4>1. PICK H : H = held(x)
        OBVIOUS
      <4>2. /\ IsFiniteSet(H \cup {x})
            /\ Cardinality(H \cup {x}) = IF x \in H THEN Cardinality(H) ELSE Cardinality(H) + 1
        BY <3>5, <4>1, FS_AddElement
      <4> QED BY <3>5, <4>1, <4>2
    <3>8. Cardinality(Pending(p)) <= Cardinality(held(x) \cup {x}) /\ IsFiniteSet(Pending(p))
      BY <3>6, <3>7, FS_Subset
    <3>9. Cardinality(Pending(p)) \in Nat
      BY <3>8, FS_CardinalityType
    <3> QED BY <3>3, <3>5, <3>7, <3>8, <3>9, ExecAssumption DEF HoldsFew
  <2> QED BY <2>1, <2>2
<1>14. ASSUME exit
       PROVE  \E e \in 1 .. Target(r) : events[e] = "exit" /\ e > Len(p.pub) /\ e \notin Pending(p)
  <2>1. PICK e \in 1 .. Target(r) : events[e] = "exit" /\ e > k /\ e \notin P
    BY <1>14, UnknownExit
  <2>2. e \notin Pending(h2)
    <3>1. F = {}
      BY <1>14
    <3>2. e \notin kept
      BY <1>3, <2>1
    <3> QED BY <1>8, <2>1, <3>1, <3>2
  <2>3. e > m
    <3> SUFFICES ASSUME e <= m PROVE FALSE
      BY <1>3, <1>11
    <3>1. e \in k + 1 .. m
      BY <1>2, <1>3, <1>11, <2>1
    <3> QED BY <1>11, <2>2, <3>1
  <2>4. e \notin Pending(p)
    BY <1>11, <2>2
  <2> QED BY <1>11, <2>1, <2>3, <2>4
<1>15. Grows(sess, p)
  BY <1>8, <1>9 DEF Grows
<1> QED BY <1>1, <1>9, <1>13, <1>14, <1>15 DEF Merged

\* The closing event and the exit join what the chunks have left.
LEMMA EndFacts ==
    ASSUME events \in Seq(Kinds), EventsOrdered, NEW r, Truthful(r), NEW m, Merged(m, r)
    PROVE  /\ SessionTells(WithEnd(m, r).s) /\ HoldsFew(WithEnd(m, r).s)
           /\ Grows(m.s, WithEnd(m, r).s)
<1> DEFINE s == m.s
           k == Len(s.pub)
           T == Target(r)
           close == r.closed /\ ~Published(m.s, "closed")
           full == close /\ Refused(m.s, Target(r))
           s1 == IF close THEN Holding(m.s, {Target(r)}, "closed") ELSE m.s
           missing == (NextSeq(s1) .. Target(r)) \ Pending(s1)
           lost == Cardinality(missing) # (IF m.exit THEN 1 ELSE 0)
           late == m.exit /\ ~lost /\ \E n \in missing : Refused(s1, n)
           h == Holding(s1, missing, "exit")
           p == PublishReady(h)
<1>1. WithEnd(m, r) = IF m.err \/ full
                      THEN [s |-> m.s, err |-> TRUE]
                      ELSE IF lost \/ late
                           THEN [s |-> s1, err |-> TRUE]
                           ELSE [s |-> p, err |-> FALSE]
  BY DEF WithEnd
<1>2. /\ k \in Nat /\ Len(events) \in Nat /\ DOMAIN events = 1 .. Len(events)
      /\ SessionTells(s) /\ HoldsFew(s) /\ Buffer(s) /\ s.pub \in Seq(Kinds)
      /\ Pending(s) \subseteq k + 1 .. Len(events) /\ IsFiniteSet(Pending(s))
      /\ Cardinality(Pending(s)) \in Nat
      /\ T \in 0 .. Len(events)
  BY TellsBuffer DEF Merged, SessionTells, SessionShaped, Buffer, Truthful
<1>3. ASSUME close
      PROVE  T \in k + 1 .. Len(events) /\ events[T] = "closed"
  <2>1. PICK n \in 1 .. T : events[n] = "closed"
    BY <1>3 DEF Truthful
  <2>2. n \in DOMAIN events /\ n <= T /\ T <= Len(events)
    BY <1>2
  <2>3. n = Len(events)
    BY <2>1, <2>2 DEF EventsOrdered
  <2>4. T = n
    BY <1>2, <2>2, <2>3
  <2>5. T > k
    <3> SUFFICES ASSUME T <= k PROVE FALSE
      BY <1>2
    <3>1. T \in 1 .. k /\ T \in DOMAIN s.pub
      BY <1>2, <2>1, <2>4
    <3>2. s.pub[T] = "closed"
      BY <1>2, <2>1, <2>4, <3>1 DEF SessionTells, Tells
    <3> QED BY <1>3, <3>1, <3>2 DEF Published, Range
  <2> QED BY <1>2, <2>1, <2>4, <2>5
<1> HIDE DEF T
<1>4. /\ SessionTells(s1) /\ s1.pub = s.pub
      /\ Pending(s1) = Pending(s) \cup (IF close THEN {T} ELSE {})
  <2>1. CASE close
    <3>1. "closed" \in Kinds
      BY DEF Kinds
    <3>2. {T} \in SUBSET (Len(s.pub) + 1 .. Len(events)) /\ Tells("closed", T)
      BY <1>3, <2>1 DEF Tells
    <3>3. s1 = Holding(s, {T}, "closed")
      BY <2>1 DEF T
    <3>4. \A n \in {T} \ Pending(s) : Tells("closed", n)
      BY <3>2
    <3>5. /\ SessionTells(Holding(s, {T}, "closed"))
          /\ Holding(s, {T}, "closed").pub = s.pub
          /\ Pending(Holding(s, {T}, "closed")) = Pending(s) \cup {T}
      <4> HIDE DEF s, s1
      <4> QED BY <1>2, <3>1, <3>2, <3>4, HoldTells
    <3> HIDE DEF s1
    <3> QED BY <2>1, <3>3, <3>5
  <2>2. CASE ~close
    BY <1>2, <2>2
  <2> QED BY <2>1, <2>2
<1>5. missing = {n \in k + 1 .. T : n \notin Pending(s1)}
  BY <1>4 DEF NextSeq, T
<1> HIDE DEF s1, missing
\* The exit, if it is to be placed, is missing.
<1>6. ASSUME m.exit
      PROVE  \E e \in missing : events[e] = "exit"
  <2>1. PICK e \in 1 .. T : events[e] = "exit" /\ e > k /\ e \notin Pending(s)
    BY <1>6 DEF Merged, T
  <2>2. close => e # T
    BY <1>3, <2>1
  <2>3. e \in k + 1 .. T /\ e \notin Pending(s1)
    BY <1>2, <1>4, <2>1, <2>2
  <2> QED BY <1>5, <2>1, <2>3
<1>7. IsFiniteSet(missing) /\ missing \in SUBSET (k + 1 .. Len(events))
  <2>1. missing \in SUBSET (k + 1 .. Len(events)) /\ k + 1 \in Int /\ Len(events) \in Int
    BY <1>2, <1>5
  <2> HIDE DEF k
  <2> QED BY <2>1, IntervalFinite
<1>8. CASE m.err \/ full
  <2>1. WithEnd(m, r).s = s
    BY <1>1, <1>8
  <2> QED BY <1>2, <2>1 DEF Grows
<1>9. CASE ~(m.err \/ full) /\ (lost \/ late)
  <2>1. WithEnd(m, r).s = s1
    BY <1>1, <1>9
  <2>2. HoldsFew(s1)
    <3>1. CASE Pending(s1) = Pending(s)
      BY <1>2, <3>1 DEF HoldsFew
    <3>2. CASE Pending(s1) # Pending(s)
      <4>1. close /\ T \notin Pending(s) /\ Pending(s1) = Pending(s) \cup {T}
        BY <1>4, <3>2
      <4>2. T # k + 1
        <5> SUFFICES ASSUME T = k + 1 PROVE FALSE
          OBVIOUS
        <5>1. missing = {}
          BY <1>2, <1>5, <4>1
        <5>2. ~m.exit
          BY <1>6, <5>1
        <5>3. Cardinality(missing) = 0
          BY <5>1, FS_EmptySet
        <5> QED BY <1>9, <5>2, <5>3
      <4>3. Cardinality(Pending(s)) < MaxPending
        BY <1>2, <1>9, <4>1, <4>2, ExecAssumption DEF Refused, NextSeq, T
      <4>4. Cardinality(Pending(s) \cup {T}) = Cardinality(Pending(s)) + 1
        BY <1>2, <4>1, FS_AddElement
      <4> QED BY <1>2, <4>1, <4>3, <4>4, ExecAssumption DEF HoldsFew
    <3> QED BY <3>1, <3>2
  <2> QED BY <1>2, <1>4, <2>1, <2>2 DEF Grows
<1>10. CASE ~(m.err \/ full) /\ ~(lost \/ late)
  <2>1. WithEnd(m, r).s = p
    BY <1>1, <1>10
  <2>2. \A n \in missing : Tells("exit", n)
    <3>1. CASE m.exit
      <4>1. Cardinality(missing) = 1
        BY <1>10, <3>1
      <4>2. PICK x : missing = {x}
        BY <1>7, <4>1, FS_Singleton
      <4> QED BY <1>6, <3>1, <4>2 DEF Tells
    <3>2. CASE ~m.exit
      <4>1. Cardinality(missing) = 0
        BY <1>10, <3>2
      <4> QED BY <1>7, <4>1, FS_EmptySet
    <3> QED BY <3>1, <3>2
  <2>3. SessionTells(h) /\ h.pub = s.pub /\ Pending(h) = Pending(s1) \cup missing
    <3>1. "exit" \in Kinds
      BY DEF Kinds
    <3> QED BY <1>4, <1>7, <2>2, <3>1, HoldTells
  <2> HIDE DEF h
  <2>4. SessionTells(p) /\ Grows(h, p) /\ \E i : PublishedTo(h, p, i)
    BY <2>3, PublishTells
  <2> HIDE DEF p
  <2>5. PICK i : PublishedTo(h, p, i)
    BY <2>4
  <2>6. /\ i \in Nat /\ i >= k /\ i + 1 \notin Pending(h)
        /\ Pending(p) = {n \in Pending(h) : n > i}
    BY <2>3, <2>5 DEF PublishedTo
  <2>7. i >= T
    <3> SUFFICES ASSUME i < T PROVE FALSE
      BY <1>2, <2>6
    <3>1. i + 1 \in k + 1 .. T
      BY <1>2, <2>6
    <3> QED BY <1>5, <2>3, <2>6, <3>1
  <2>8. Pending(p) \subseteq Pending(s)
    <3> SUFFICES ASSUME NEW n \in Pending(p), n \notin Pending(s) PROVE FALSE
      OBVIOUS
    <3>1. n > i /\ n \in Pending(s1) \cup missing
      BY <2>3, <2>6
    <3>2. n = T \/ n \in k + 1 .. T
      BY <1>4, <1>5, <3>1
    <3> QED BY <1>2, <2>6, <2>7, <3>1, <3>2
  <2>9. HoldsFew(p)
    BY <1>2, <2>8, FewerHeld
  <2> QED BY <2>1, <2>3, <2>4, <2>9 DEF Grows
<1> QED BY <1>8, <1>9, <1>10

\* Whatever process/read has answered, merging it keeps the session truthful.
LEMMA RecoveredFacts ==
    ASSUME events \in Seq(Kinds), EventsOrdered, SessionTells(sess), HoldsFew(sess),
           NEW r, Truthful(r), NEW result \in Recovered(sess, r)
    PROVE  SessionTells(result.s) /\ HoldsFew(result.s) /\ Grows(sess, result.s)
<1>1. CASE result.s = sess
  BY <1>1, TellsBuffer DEF Grows
<1>2. CASE result = WithEnd(WithChunks(sess, r), r)
  <2> DEFINE m == WithChunks(sess, r)
             w == WithEnd(m, r).s
  <2>1. Merged(m, r) /\ Grows(sess, m.s)
    BY ChunksFacts
  <2> HIDE DEF m
  <2>2. SessionTells(w) /\ HoldsFew(w) /\ Grows(m.s, w)
    BY <2>1, EndFacts
  <2>3. Len(sess.pub) \in Nat /\ Len(m.s.pub) \in Nat /\ Len(w.pub) \in Nat
    BY <2>1, <2>2, TellsBuffer DEF Merged
  <2> HIDE DEF w
  <2>4. Grows(sess, w)
    BY <2>1, <2>2, <2>3 DEF Grows
  <2> QED BY <1>2, <2>2, <2>4 DEF w, m
<1> QED BY <1>1, <1>2 DEF Recovered

-----------------------------------------------------------------------------
(* What is said of an event stays said.                                    *)

\* Events are numbered once, and what is published stays.
EventsGrow ==
    /\ events \in Seq(Kinds) /\ events' \in Seq(Kinds)
    /\ Len(events) <= Len(events')
    /\ \A n \in 1 .. Len(events) : events'[n] = events[n]
    /\ Len(sess.pub) \in Nat /\ Len(sess'.pub) \in Nat /\ Grows(sess, sess')

\* A sequence of members of a set is one of members of a larger set.
LEMMA SeqOfMore ==
    ASSUME NEW S, NEW T, S \subseteq T, NEW s \in Seq(S)
    PROVE  s \in Seq(T)
OBVIOUS

\* A connection's messages stay well-formed.
LEMMA TypedStays ==
    ASSUME EventsGrow, NEW con, Typed(con)
    PROVE  Typed(con)'
<1>1. Len(events) \in Nat /\ Len(events') \in Nat /\ Len(events) <= Len(events')
  BY DEF EventsGrow
<1>2. DOMAIN events \subseteq DOMAIN events'
  BY <1>1 DEF EventsGrow
<1>3. con.inbox \in Seq(DOMAIN events')
  BY <1>2, SeqOfMore DEF Typed
<1>4. con.after \in 0 .. Len(sess'.pub)
  BY DEF Typed, EventsGrow, Grows
<1> QED BY <1>2, <1>3, <1>4 DEF Typed

\* A truthful answer stays truthful.
LEMMA TruthStays ==
    ASSUME EventsGrow, NEW r, Truthful(r)
    PROVE  Truthful(r)'
<1>1. Len(events) \in Nat /\ Len(events') \in Nat /\ Len(events) <= Len(events')
  BY DEF EventsGrow
<1>2. Target(r) \in 0 .. Len(events)
  BY DEF Truthful
<1>3. \A n \in 1 .. Target(r) : n \in 1 .. Len(events) /\ events'[n] = events[n]
  BY <1>1, <1>2 DEF EventsGrow
<1>4. Len(sess.pub) \in Nat /\ Len(sess'.pub) \in Nat /\ Len(sess.pub) <= Len(sess'.pub)
  BY DEF EventsGrow, Grows
<1> DEFINE k == Target(r)
<1>5. k \in 0 .. Len(events')
  BY <1>1, <1>2
<1> HIDE DEF k
<1>6. \A n \in 1 .. k : n \in 1 .. Len(events) /\ events'[n] = events[n]
  BY <1>3 DEF k
<1>7. /\ r \in [unknown: BOOLEAN, chunks: SUBSET Nat, next: Nat, exited: BOOLEAN, closed: BOOLEAN]
      /\ \A n \in r.chunks : n \in 1 .. k /\ events[n] = "out"
      /\ AllRetained => \A n \in 1 .. k : events[n] = "out" => n \in r.chunks \/ n <= Len(sess.pub)
      /\ r.exited => \E n \in 1 .. k : events[n] = "exit"
      /\ r.closed => \E n \in 1 .. k : events[n] = "closed"
  BY DEF Truthful, k
<1>8. \A n \in r.chunks : n \in 1 .. k /\ events'[n] = "out"
  BY <1>6, <1>7
<1>9. AllRetained => \A n \in 1 .. k : events'[n] = "out" => n \in r.chunks \/ n <= Len(sess'.pub)
  <2> SUFFICES ASSUME AllRetained, NEW n \in 1 .. k, events'[n] = "out", n \notin r.chunks
               PROVE  n <= Len(sess'.pub)
    OBVIOUS
  <2>1. n \in Nat /\ n <= Len(sess.pub)
    BY <1>6, <1>7
  <2> QED BY <1>4, <2>1
<1>10. /\ r.exited => \E n \in 1 .. k : events'[n] = "exit"
       /\ r.closed => \E n \in 1 .. k : events'[n] = "closed"
  BY <1>6, <1>7
<1>11. Target(r)' = k
  BY DEF k, Target
<1>12. AllRetained' = AllRetained
  BY DEF AllRetained
<1> QED BY <1>5, <1>7, <1>8, <1>9, <1>10, <1>11, <1>12 DEF Truthful

\* A call whose connection and recovery stay as they are is awaited as before.
LEMMA AwaitedStays ==
    ASSUME EventsGrow, NEW con, Awaited(con), rec'.pc = rec.pc, rec'.ans = rec.ans
    PROVE  Awaited(con)'
<1>1. \A r : Truthful(r) => Truthful(r)'
  BY TruthStays
<1>2. \A i : HasReply(con, i)' <=> HasReply(con, i)
  BY DEF HasReply
<1> HIDE DEF HasReply
<1> QED BY <1>1, <1>2 DEF Awaited

\* An answer that has arrived stays truthful.
LEMMA AnswerStays ==
    ASSUME EventInv, EventsGrow, rec' = rec
    PROVE  AnswersTruthful'
<1>1. ASSUME rec.pc = "read", rec.ans # <<>> PROVE Truthful(rec.ans[1])'
  <2>1. PICK r : r = rec.ans[1]
    OBVIOUS
  <2>2. Truthful(r)'
    BY <1>1, <2>1, TruthStays DEF EventInv, AnswersTruthful
  <2> QED BY <2>1, <2>2 DEF Truthful, Target
<1> QED BY <1>1 DEF EventInv, AnswersTruthful

\* Nothing changes but the server's state, in which events are only added.
LEMMA EventsOnly ==
    ASSUME EventInv, IInv, EventsGrow, conn' = conn, rec' = rec, sess' = sess
    PROVE  MessagesTyped' /\ AnswersAwaited' /\ AnswersTruthful' /\ SessionInv'
<1>1. MessagesTyped'
  <2> SUFFICES ASSUME NEW c \in Conns PROVE Typed(conn[c])'
    BY DEF MessagesTyped, Conns
  <2>1. PICK con : con = conn[c]
    OBVIOUS
  <2>2. Typed(con)'
    BY <2>1, TypedStays DEF EventInv, MessagesTyped
  <2> QED BY <2>1, <2>2 DEF Typed
<1>2. AnswersAwaited'
  <2> SUFFICES ASSUME rec.pc \in CandidatePcs PROVE Awaited(conn[rec.c])'
    BY DEF AnswersAwaited, CandidatePcs
  <2>1. PICK con : con = conn[rec.c]
    OBVIOUS
  <2>2. Awaited(con)'
    BY <2>1, AwaitedStays DEF EventInv, AnswersAwaited
  <2> QED BY <2>1, <2>2 DEF Awaited, HasReply
<1>3. AnswersTruthful'
  BY AnswerStays
<1>4. SessionInv'
  <2>1. Len(events) \in Nat /\ Len(events') \in Nat /\ Len(events) <= Len(events')
    BY DEF EventsGrow
  <2>2. /\ Len(sess.pub) \in Nat /\ Len(sess.pub) <= Len(events)
        /\ Pending(sess) \subseteq Len(sess.pub) + 1 .. Len(events)
    BY TellsBuffer DEF EventInv, SessionInv, SessionTells, SessionShaped, EventsGrow
  <2>3. SessionShaped(sess)'
    BY <2>1, <2>2 DEF EventInv, SessionInv, SessionTells, SessionShaped, Pending
  <2>4. \A n \in 1 .. Len(sess.pub) : Tells(sess.pub[n], n)'
    BY <2>1, <2>2 DEF EventInv, SessionInv, SessionTells, Tells, EventsGrow, AllRetained
  <2>5. \A n \in Pending(sess) : Tells(sess.pend[n], n)'
    <3> SUFFICES ASSUME NEW n \in Pending(sess) PROVE Tells(sess.pend[n], n)'
      OBVIOUS
    <3>1. n \in 1 .. Len(events)
      BY <2>1, <2>2
    <3> QED BY <3>1 DEF EventInv, SessionInv, SessionTells, Tells, EventsGrow, AllRetained
  <2>6. Pending(sess)' = Pending(sess) /\ HoldsFew(sess)'
    BY DEF EventInv, SessionInv, HoldsFew, Pending
  <2> QED BY <2>3, <2>4, <2>5, <2>6 DEF SessionInv, SessionTells
<1> QED BY <1>1, <1>2, <1>3, <1>4

-----------------------------------------------------------------------------
(* The server's tasks.                                                     *)

TaskStates == [pc: {"run", "send", "emit", "last", "done"}, seq: Nat]

\* One task moves.
LEMMA TaskMoves ==
    ASSUME ServerTypes, NEW t \in Tasks, NEW x \in TaskStates, task' = [task EXCEPT ![t] = x]
    PROVE  /\ task' \in [Tasks -> TaskStates] /\ task'[t] = x
           /\ \A u \in Tasks \ {t} : task'[u] = task[u]
BY DEF ServerTypes, TaskStates

LEMMA PcMoves ==
    ASSUME ServerTypes, NEW t \in Tasks, NEW pc \in {"run", "send", "emit", "last", "done"},
           task' = [task EXCEPT ![t].pc = pc]
    PROVE  /\ task' \in [Tasks -> TaskStates] /\ task'[t].pc = pc /\ task'[t].seq = task[t].seq
           /\ \A u \in Tasks \ {t} : task'[u] = task[u]
<1>1. task[t] \in TaskStates
  BY DEF ServerTypes, TaskStates
<1>2. PICK x : x = [task[t] EXCEPT !.pc = pc]
  OBVIOUS
<1>3. x \in TaskStates /\ x.pc = pc /\ x.seq = task[t].seq
  BY <1>1, <1>2 DEF TaskStates
<1>4. task' = [task EXCEPT ![t] = x]
  BY <1>2
<1> QED BY <1>3, <1>4, TaskMoves

\* An event is numbered, or none is.
LEMMA Appended ==
    ASSUME EventInv, NEW k \in Kinds, events' = Append(events, k), sess' = sess
    PROVE  /\ EventsGrow /\ Len(events) \in Nat /\ DOMAIN events = 1 .. Len(events)
           /\ Len(events') = Len(events) + 1 /\ DOMAIN events' = 1 .. Len(events) + 1
           /\ events'[Len(events) + 1] = k
           /\ \A n \in DOMAIN events : n \in DOMAIN events' /\ events'[n] = events[n]
           /\ \A n \in DOMAIN events' : n \in DOMAIN events \/ n = Len(events) + 1
<1>1. events \in Seq(Kinds) /\ Len(events) \in Nat /\ DOMAIN events = 1 .. Len(events)
  BY DEF EventInv, ServerInv, ServerTypes
<1>2. Len(sess.pub) \in Nat
  BY <1>1, TellsBuffer DEF EventInv, SessionInv
<1>3. /\ events' \in Seq(Kinds) /\ Len(events') = Len(events) + 1
      /\ events'[Len(events) + 1] = k
      /\ \A n \in 1 .. Len(events) : events'[n] = events[n]
  BY <1>1
<1>4. Grows(sess, sess')
  BY <1>2 DEF Grows
<1>5. EventsGrow
  BY <1>1, <1>2, <1>3, <1>4 DEF EventsGrow
<1>6. DOMAIN events' = 1 .. Len(events) + 1
  BY <1>3
<1>7. /\ \A n \in 1 .. Len(events) : n \in 1 .. Len(events) + 1
      /\ \A n \in 1 .. Len(events) + 1 : n \in 1 .. Len(events) \/ n = Len(events) + 1
  BY <1>1
<1> QED BY <1>1, <1>3, <1>5, <1>6, <1>7

LEMMA NotAppended ==
    ASSUME EventInv, events' = events, Len(sess'.pub) \in Nat, Grows(sess, sess')
    PROVE  EventsGrow
<1>1. events \in Seq(Kinds) /\ Len(events) \in Nat
  BY DEF EventInv, ServerInv, ServerTypes
<1>2. Len(sess.pub) \in Nat
  BY <1>1, TellsBuffer DEF EventInv, SessionInv
<1> QED BY <1>1, <1>2 DEF EventsGrow

LEMMA SameSession ==
    ASSUME EventInv, sess' = sess
    PROVE  Len(sess'.pub) \in Nat /\ Grows(sess, sess')
<1>1. events \in Seq(Kinds)
  BY DEF EventInv, ServerInv, ServerTypes
<1>2. Len(sess.pub) \in Nat
  BY <1>1, TellsBuffer DEF EventInv, SessionInv
<1> QED BY <1>2 DEF Grows

\* The chunks printed so far are counted.
LEMMA OutputsFinite ==
    ASSUME EventInv
    PROVE  IsFiniteSet(Outputs) /\ Cardinality(Outputs) \in Nat
<1>1. Len(events) \in Nat /\ Outputs \in SUBSET (1 .. Len(events)) /\ 1 \in Int /\ Len(events) \in Int
  BY DEF EventInv, ServerInv, ServerTypes, Outputs
<1> QED BY <1>1, IntervalFinite

\* A stream prints a chunk: nothing has been closed, as it still writes.
LEMMA OutputStep ==
    ASSUME EventInv, IInv, NEW t \in Streams, Output(t)
    PROVE  EventInv'
<1> DEFINE n == Len(events) + 1
           kept == retained \cup {n}
           x == [pc |-> "send", seq |-> n]
<1>1. /\ events' = Append(events, "out") /\ task' = [task EXCEPT ![t] = x]
      /\ retained' = IF Cardinality(kept) > Retain THEN {i \in kept : \E j \in kept : j < i} ELSE kept
      /\ task[t].pc = "run" /\ Cardinality(Outputs) < MaxOut
      /\ open' = open /\ present' = present /\ attached' = attached /\ expired' = expired
      /\ conn' = conn /\ rec' = rec /\ sess' = sess
  BY DEF Output, Outputs, client
<1>2. t \in Tasks /\ t # "exit" /\ "exit" \in Tasks /\ Streams \subseteq Tasks
  BY ExecAssumption DEF Tasks
<1>3. /\ EventsGrow /\ Len(events) \in Nat /\ DOMAIN events = 1 .. Len(events)
      /\ Len(events') = n /\ DOMAIN events' = 1 .. n /\ events'[n] = "out"
      /\ \A i \in DOMAIN events : i \in DOMAIN events' /\ events'[i] = events[i]
      /\ \A i \in DOMAIN events' : i \in DOMAIN events \/ i = n
  BY <1>1, Appended DEF Kinds
<1>4. MessagesTyped' /\ AnswersAwaited' /\ AnswersTruthful' /\ SessionInv'
  BY <1>1, <1>3, EventsOnly
<1>5. /\ task' \in [Tasks -> TaskStates] /\ task'[t] = x
      /\ \A u \in Tasks \ {t} : task'[u] = task[u]
  <2>1. x \in TaskStates
    BY <1>3 DEF TaskStates
  <2> HIDE DEF x
  <2> QED BY <1>1, <1>2, <2>1, TaskMoves DEF EventInv, ServerInv
<1>6. Outputs' = Outputs \cup {n} /\ n \notin Outputs
  BY <1>3 DEF Outputs
<1>7. /\ IsFiniteSet(Outputs') /\ Cardinality(Outputs') = Cardinality(Outputs) + 1
      /\ Cardinality(Outputs) \in Nat
  <2>1. IsFiniteSet(Outputs) /\ Cardinality(Outputs) \in Nat
    BY OutputsFinite
  <2>2. PICK O : O = Outputs
    OBVIOUS
  <2> HIDE DEF n
  <2>3. IsFiniteSet(O \cup {n}) /\ Cardinality(O \cup {n}) = Cardinality(O) + 1
    BY <1>6, <2>1, <2>2, FS_AddElement
  <2> QED BY <1>6, <2>1, <2>2, <2>3
<1>8. retained' \subseteq Outputs'
  BY <1>1, <1>6 DEF EventInv, ServerInv, ServerTypes
<1>9. ServerTypes'
  BY <1>1, <1>3, <1>5, <1>8 DEF EventInv, ServerInv, ServerTypes, EventsGrow, TaskStates
<1>10. OutputKept'
  <2>1. Cardinality(Outputs') <= MaxOut
    BY <1>1, <1>7, ExecAssumption
  <2>2. ASSUME AllRetained PROVE retained' = Outputs'
    <3>1. kept = Outputs'
      BY <1>6, <2>2 DEF EventInv, ServerInv, OutputKept
    <3>2. ~(Cardinality(kept) > Retain)
      <4> HIDE DEF kept
      <4> QED BY <1>7, <2>1, <2>2, <3>1, ExecAssumption DEF AllRetained
    <3> HIDE DEF kept
    <3> QED BY <1>1, <3>1, <3>2
  <2>3. AllRetained' = AllRetained
    BY DEF AllRetained
  <2> QED BY <2>1, <2>2, <2>3 DEF OutputKept
<1>11. \A u \in Streams : Writing(u)' <=> Writing(u)
  BY <1>1, <1>2, <1>5 DEF Writing
<1>12. StreamsCounted'
  <2>1. {u \in Streams : Writing(u)'} = {u \in Streams : Writing(u)}
    BY <1>11
  <2> QED BY <1>1, <2>1 DEF EventInv, ServerInv, StreamsCounted
<1>13. TasksNumbered'
  <2>1. n \in DOMAIN events'
    BY <1>3
  <2> QED BY <1>3, <1>5, <2>1 DEF EventInv, ServerInv, TasksNumbered
<1>14. EventsOrdered'
  <2>1. Writing(t)
    BY <1>1 DEF Writing
  <2>2. \A i \in DOMAIN events : events[i] # "closed"
    BY <2>1 DEF EventInv, ServerInv, EventsOrdered
  <2>3. \A i \in DOMAIN events' : events'[i] # "closed"
    BY <1>3, <2>2
  <2>4. \A i \in DOMAIN events' : events'[i] = "exit" => i \in DOMAIN events /\ events[i] = "exit"
    BY <1>3
  <2>5. task'["exit"] = task["exit"]
    BY <1>2, <1>5
  <2> QED BY <2>3, <2>4, <2>5 DEF EventInv, ServerInv, EventsOrdered
<1> QED BY <1>4, <1>9, <1>10, <1>12, <1>13, <1>14 DEF EventInv, ServerInv

\* A stream ends: one writer less.
LEMMA EndOfStreamStep ==
    ASSUME EventInv, IInv, NEW t \in Streams, EndOfStream(t)
    PROVE  EventInv'
<1>1. /\ task' = [task EXCEPT ![t].pc = "emit"] /\ task[t].pc = "run"
      /\ open' = IF present THEN open - 1 ELSE open
      /\ events' = events /\ retained' = retained
      /\ present' = present /\ attached' = attached /\ expired' = expired
      /\ conn' = conn /\ rec' = rec /\ sess' = sess
  BY DEF EndOfStream, client
<1>2. t \in Tasks /\ t # "exit" /\ "exit" \in Tasks /\ Streams \subseteq Tasks
  BY ExecAssumption DEF Tasks
<1>3. EventsGrow
  BY <1>1, NotAppended, SameSession
<1>4. MessagesTyped' /\ AnswersAwaited' /\ AnswersTruthful' /\ SessionInv'
  BY <1>1, <1>3, EventsOnly
<1>5. /\ task' \in [Tasks -> TaskStates] /\ task'[t].pc = "emit"
      /\ \A u \in Tasks \ {t} : task'[u] = task[u]
  BY <1>1, <1>2, PcMoves DEF EventInv, ServerInv
<1> DEFINE W == {u \in Streams : Writing(u)}
           V == {u \in Streams : Writing(u)'}
<1>6. t \in W /\ V = W \ {t}
  BY <1>1, <1>2, <1>5 DEF Writing
<1>7. /\ IsFiniteSet(W) /\ Cardinality(V) = Cardinality(W) - 1 /\ Cardinality(W) \in Nat
      /\ Cardinality(W) <= Cardinality(Streams) /\ Cardinality(Streams) \in Nat
      /\ Cardinality(V) \in Nat
  <2>1. /\ IsFiniteSet(W) /\ Cardinality(W) <= Cardinality(Streams)
        /\ Cardinality(Streams) \in Nat /\ W \in SUBSET Streams
    BY FS_Subset, FS_CardinalityType, ExecAssumption
  <2> HIDE DEF W, V
  <2>2. Cardinality(W) \in Nat /\ Cardinality(W \ {t}) = Cardinality(W) - 1 /\ IsFiniteSet(W \ {t})
    BY <1>6, <2>1, FS_RemoveElement, FS_CardinalityType
  <2>3. Cardinality(W \ {t}) \in Nat
    BY <2>2, FS_CardinalityType
  <2> QED BY <1>6, <2>1, <2>2, <2>3
<1>8. present => open = Cardinality(W)
  BY DEF EventInv, ServerInv, StreamsCounted
<1> HIDE DEF W
<1>9. open' \in 0 .. Cardinality(Streams) /\ (present' => open' = Cardinality(V))
  <2>1. open \in 0 .. Cardinality(Streams)
    BY DEF EventInv, ServerInv, ServerTypes
  <2> HIDE DEF V
  <2> QED BY <1>1, <1>7, <1>8, <2>1
<1>10. ServerTypes'
  BY <1>1, <1>5, <1>9 DEF EventInv, ServerInv, ServerTypes, TaskStates, Outputs
<1>11. StreamsCounted'
  BY <1>9 DEF StreamsCounted
<1>12. OutputKept'
  BY <1>1 DEF EventInv, ServerInv, OutputKept, Outputs, AllRetained
<1>13. TasksNumbered'
  BY <1>1, <1>5 DEF EventInv, ServerInv, TasksNumbered
<1>14. EventsOrdered'
  <2>1. task'["exit"] = task["exit"]
    BY <1>2, <1>5
  <2>2. \A u \in Streams : Writing(u)' => Writing(u)
    BY <1>6 DEF W
  <2> QED BY <1>1, <2>1, <2>2 DEF EventInv, ServerInv, EventsOrdered
<1> QED BY <1>4, <1>10, <1>11, <1>12, <1>13, <1>14 DEF EventInv, ServerInv

\* A task moves between two states in which it does not write; events may be added.
LEMMA TaskStep ==
    ASSUME EventInv, IInv, EventsGrow, NEW t \in Tasks,
           task' \in [Tasks -> TaskStates], \A u \in Tasks \ {t} : task'[u] = task[u],
           t \in Streams => (Writing(t)' <=> Writing(t)),
           task'[t].pc \in {"send", "last"} => task'[t].seq \in DOMAIN events',
           \A i \in DOMAIN events' : i \in DOMAIN events \/ events'[i] # "out",
           EventsOrdered',
           retained' = retained, open' = open, present' \in BOOLEAN, present' => present,
           attached' \in Conns \cup {NoConn}, expired' \in BOOLEAN
    PROVE  ServerInv'
<1>1. Streams \subseteq Tasks
  BY DEF Tasks
<1>2. \A u \in Streams : Writing(u)' <=> Writing(u)
  BY <1>1 DEF Writing
<1>3. /\ Len(events) \in Nat /\ Len(events') \in Nat /\ DOMAIN events = 1 .. Len(events)
      /\ DOMAIN events' = 1 .. Len(events')
      /\ \A i \in DOMAIN events : i \in DOMAIN events' /\ events'[i] = events[i]
  BY DEF EventsGrow
<1>4. Outputs' = Outputs
  BY <1>3 DEF Outputs
<1>5. ServerTypes'
  BY <1>4 DEF EventInv, ServerInv, ServerTypes, TaskStates, EventsGrow
<1>6. StreamsCounted'
  <2>1. {u \in Streams : Writing(u)'} = {u \in Streams : Writing(u)}
    BY <1>2
  <2> QED BY <2>1 DEF EventInv, ServerInv, StreamsCounted
<1>7. OutputKept'
  BY <1>4 DEF EventInv, ServerInv, OutputKept, AllRetained
<1>8. TasksNumbered'
  BY <1>3 DEF EventInv, ServerInv, TasksNumbered
<1> QED BY <1>5, <1>6, <1>7, <1>8 DEF ServerInv

\* The process exits: nothing has been closed, as closing waits for the exit.
LEMMA ExitStep ==
    ASSUME EventInv, IInv, Exit
    PROVE  EventInv'
<1>1. /\ task["exit"].pc = "run" /\ retained' = retained /\ open' = open
      /\ present' = present /\ attached' = attached /\ expired' = expired
      /\ conn' = conn /\ rec' = rec /\ sess' = sess
  BY DEF Exit, client
<1>2. "exit" \in Tasks /\ "exit" \notin Streams
  BY ExecAssumption DEF Tasks
<1>3. /\ attached' \in Conns \cup {NoConn} /\ present' \in BOOLEAN /\ expired' \in BOOLEAN
  BY <1>1 DEF EventInv, ServerInv, ServerTypes
<1>4. \A i \in DOMAIN events : events[i] # "exit" /\ events[i] # "closed"
  BY <1>1 DEF EventInv, ServerInv, EventsOrdered
<1>5. CASE present
  <2> DEFINE n == Len(events) + 1
             x == [pc |-> "send", seq |-> n]
  <2>1. events' = Append(events, "exit") /\ task' = [task EXCEPT !["exit"] = x]
    BY <1>5 DEF Exit
  <2>2. /\ EventsGrow /\ Len(events) \in Nat /\ DOMAIN events = 1 .. Len(events)
        /\ Len(events') = n /\ DOMAIN events' = 1 .. n /\ events'[n] = "exit"
        /\ \A i \in DOMAIN events : i \in DOMAIN events' /\ events'[i] = events[i]
        /\ \A i \in DOMAIN events' : i \in DOMAIN events \/ i = n
    BY <1>1, <2>1, Appended DEF Kinds
  <2>3. /\ task' \in [Tasks -> TaskStates] /\ task'["exit"] = x
        /\ \A u \in Tasks \ {"exit"} : task'[u] = task[u]
    <3>1. x \in TaskStates
      BY <2>2 DEF TaskStates
    <3> HIDE DEF x
    <3> QED BY <1>2, <2>1, <3>1, TaskMoves DEF EventInv, ServerInv
  <2>4. EventsOrdered'
    <3>1. \A i \in DOMAIN events' : events'[i] # "closed" /\ (events'[i] = "exit" => i = n)
      BY <1>4, <2>2
    <3>2. task'["exit"].pc # "run"
      BY <2>3
    <3> QED BY <3>1, <3>2 DEF EventsOrdered
  <2>5. \A i \in DOMAIN events' : i \in DOMAIN events \/ events'[i] # "out"
    BY <2>2
  <2>6. task'["exit"].seq \in DOMAIN events'
    BY <2>2, <2>3
  <2>7. ServerInv'
    BY <1>1, <1>2, <1>3, <2>2, <2>3, <2>4, <2>5, <2>6, TaskStep
  <2> QED BY <1>1, <2>2, <2>7, EventsOnly DEF EventInv
<1>6. CASE ~present
  <2>1. events' = events /\ task' = [task EXCEPT !["exit"].pc = "emit"]
    BY <1>6 DEF Exit
  <2>2. EventsGrow
    BY <1>1, <2>1, NotAppended, SameSession
  <2>3. /\ task' \in [Tasks -> TaskStates] /\ task'["exit"].pc = "emit"
        /\ \A u \in Tasks \ {"exit"} : task'[u] = task[u]
    BY <1>2, <2>1, PcMoves DEF EventInv, ServerInv
  <2>4. EventsOrdered'
    BY <1>4, <2>1, <2>3 DEF EventsOrdered
  <2>5. ServerInv'
    BY <1>1, <1>2, <1>3, <2>1, <2>2, <2>3, <2>4, TaskStep
  <2> QED BY <1>1, <2>2, <2>5, EventsOnly DEF EventInv
<1> QED BY <1>5, <1>6

\* Events and writers stay: so does their order.
LEMMA OrderStays ==
    ASSUME EventInv, events' = events, task' \in [Tasks -> TaskStates],
           task["exit"].pc # "run" => task'["exit"].pc # "run",
           \A t \in Streams : Writing(t)' => Writing(t)
    PROVE  EventsOrdered'
BY DEF EventInv, ServerInv, EventsOrdered

\* Closing: every stream has ended, and the exit has its number.
LEMMA EmitClosedStep ==
    ASSUME EventInv, IInv, NEW t \in Tasks, EmitClosed(t)
    PROVE  EventInv'
<1>1. /\ task[t].pc = "emit" /\ retained' = retained /\ open' = open
      /\ present' = present /\ attached' = attached /\ expired' = expired
      /\ conn' = conn /\ rec' = rec /\ sess' = sess
  BY DEF EmitClosed, client
<1>2. "exit" \in Tasks /\ "exit" \notin Streams /\ Streams \subseteq Tasks
  BY ExecAssumption DEF Tasks
<1>3. /\ attached' \in Conns \cup {NoConn} /\ present' \in BOOLEAN /\ expired' \in BOOLEAN
  BY <1>1 DEF EventInv, ServerInv, ServerTypes
<1> DEFINE last == present /\ open = 0 /\ "exit" \in Range(events) /\ "closed" \notin Range(events)
<1>4. CASE last
  <2> DEFINE n == Len(events) + 1
             x == [pc |-> "last", seq |-> n]
  <2>1. events' = Append(events, "closed") /\ task' = [task EXCEPT ![t] = x]
    BY <1>4 DEF EmitClosed
  <2>2. /\ EventsGrow /\ Len(events) \in Nat /\ DOMAIN events = 1 .. Len(events)
        /\ Len(events') = n /\ DOMAIN events' = 1 .. n /\ events'[n] = "closed"
        /\ \A i \in DOMAIN events : i \in DOMAIN events' /\ events'[i] = events[i]
        /\ \A i \in DOMAIN events' : i \in DOMAIN events \/ i = n
    BY <1>1, <2>1, Appended DEF Kinds
  <2>3. /\ task' \in [Tasks -> TaskStates] /\ task'[t] = x
        /\ \A u \in Tasks \ {t} : task'[u] = task[u]
    <3>1. x \in TaskStates
      BY <2>2 DEF TaskStates
    <3> HIDE DEF x
    <3> QED BY <2>1, <3>1, TaskMoves DEF EventInv, ServerInv
  <2>4. \A u \in Streams : Writing(u)' <=> Writing(u)
    BY <1>1, <1>2, <2>3 DEF Writing
  <2>5. \A u \in Streams : ~Writing(u)
    <3> DEFINE W == {u \in Streams : Writing(u)}
    <3>1. Cardinality(W) = 0
      BY <1>4 DEF EventInv, ServerInv, StreamsCounted
    <3>2. IsFiniteSet(W)
      BY FS_Subset, ExecAssumption
    <3>3. W = {}
      <4> HIDE DEF W
      <4> QED BY <3>1, <3>2, FS_EmptySet
    <3> QED BY <3>3
  <2>6. /\ \A i \in DOMAIN events : events[i] # "closed"
        /\ \E i \in DOMAIN events : events[i] = "exit"
    BY <1>4 DEF Range
  <2>7. EventsOrdered'
    <3>1. \A i \in DOMAIN events' : events'[i] = "closed" => i = n
      BY <2>2, <2>6
    <3>2. \E i \in DOMAIN events' : events'[i] = "exit"
      BY <2>2, <2>6
    <3>3. \A i \in DOMAIN events' : events'[i] = "exit" => i \in DOMAIN events /\ events[i] = "exit"
      BY <2>2
    <3>4. task["exit"].pc # "run" => task'["exit"].pc # "run"
      BY <1>2, <2>3
    <3> QED BY <2>2, <2>4, <2>5, <3>1, <3>2, <3>3, <3>4 DEF EventInv, ServerInv, EventsOrdered
  <2>8. \A i \in DOMAIN events' : i \in DOMAIN events \/ events'[i] # "out"
    BY <2>2
  <2>9. task'[t].seq \in DOMAIN events'
    BY <2>2, <2>3
  <2>10. ServerInv'
    BY <1>1, <1>3, <2>2, <2>3, <2>4, <2>7, <2>8, <2>9, TaskStep
  <2> QED BY <1>1, <2>2, <2>10, EventsOnly DEF EventInv
<1>5. CASE ~last
  <2>1. events' = events /\ task' = [task EXCEPT ![t].pc = "done"]
    BY <1>5 DEF EmitClosed
  <2>2. EventsGrow
    BY <1>1, <2>1, NotAppended, SameSession
  <2>3. /\ task' \in [Tasks -> TaskStates] /\ task'[t].pc = "done"
        /\ \A u \in Tasks \ {t} : task'[u] = task[u]
    BY <2>1, PcMoves DEF EventInv, ServerInv
  <2>4. \A u \in Streams : Writing(u)' <=> Writing(u)
    BY <1>1, <1>2, <2>3 DEF Writing
  <2>5. EventsOrdered'
    <3>1. task["exit"].pc # "run" => task'["exit"].pc # "run"
      BY <1>2, <2>3
    <3> QED BY <2>1, <2>3, <2>4, <3>1, OrderStays
  <2>6. ServerInv'
    BY <1>1, <1>3, <2>1, <2>2, <2>3, <2>4, <2>5, TaskStep
  <2> QED BY <1>1, <2>2, <2>6, EventsOnly DEF EventInv
<1> QED BY <1>4, <1>5

\* The process is forgotten, or the session expires.
LEMMA VanishStep ==
    ASSUME EventInv, IInv, ForgetProcess \/ Expire
    PROVE  EventInv'
<1>1. /\ events' = events /\ retained' = retained /\ open' = open /\ task' = task
      /\ attached' = attached /\ present' = FALSE /\ expired' \in {expired, TRUE}
      /\ conn' = conn /\ rec' = rec /\ sess' = sess
  BY DEF ForgetProcess, Expire, client
<1>2. EventsGrow
  BY <1>1, NotAppended, SameSession
<1>3. "exit" \in Tasks /\ Streams \subseteq Tasks
  BY DEF Tasks
<1>4. task' \in [Tasks -> TaskStates] /\ attached' \in Conns \cup {NoConn} /\ expired' \in BOOLEAN
  BY <1>1 DEF EventInv, ServerInv, ServerTypes, TaskStates
<1>5. \A u \in Streams : Writing(u)' <=> Writing(u)
  BY <1>1 DEF Writing
<1>6. EventsOrdered'
  BY <1>1, <1>4, <1>5, OrderStays
<1>7. task'["exit"].pc \in {"send", "last"} => task'["exit"].seq \in DOMAIN events'
  BY <1>1, <1>3 DEF EventInv, ServerInv, TasksNumbered
<1>8. ServerInv'
  BY <1>1, <1>2, <1>3, <1>4, <1>5, <1>6, <1>7, TaskStep
<1> QED BY <1>1, <1>2, <1>8, EventsOnly DEF EventInv

-----------------------------------------------------------------------------
(* Messages and connections.                                               *)

\* The server's state stays, but for the connection it is attached to.
LEMMA ServerStays ==
    ASSUME EventInv, events' = events, retained' = retained, open' = open, present' = present,
           task' = task, expired' = expired, attached' \in Conns \cup {NoConn}
    PROVE  ServerInv'
BY DEF EventInv, ServerInv, ServerTypes, EventsOrdered, StreamsCounted, TasksNumbered,
       OutputKept, Outputs, Writing, AllRetained

\* One connection changes; its messages are well-formed.
LEMMA OneTyped ==
    ASSUME EventInv, IInv, EventsGrow, NEW c \in Conns, NEW con,
           conn' = [conn EXCEPT ![c] = con], Typed(con)'
    PROVE  MessagesTyped'
<1>1. conn'[c] = con /\ \A d \in Conns \ {c} : conn'[d] = conn[d]
  BY DEF IInv, ConnsShaped
<1>2. ASSUME NEW d \in Conns PROVE Typed(conn[d])'
  <2>1. CASE d = c
    BY <1>1, <2>1 DEF Typed
  <2>2. CASE d # c
    <3>1. PICK x : x = conn[d]
      OBVIOUS
    <3>2. Typed(x)'
      BY <3>1, TypedStays DEF EventInv, MessagesTyped
    <3>3. conn'[d] = x
      BY <1>1, <2>2, <3>1
    <3> QED BY <3>2, <3>3 DEF Typed
  <2> QED BY <2>1, <2>2
<1> QED BY <1>2 DEF MessagesTyped, Conns

\* One connection changes; the call on it, if any, is awaited.
LEMMA OneMoves ==
    ASSUME EventInv, IInv, EventsGrow, NEW c \in Conns, NEW con,
           conn' = [conn EXCEPT ![c] = con], Typed(con)',
           rec'.pc = rec.pc, rec'.c = rec.c, rec.c # c => rec'.ans = rec.ans,
           rec.pc \in CandidatePcs /\ rec.c = c => Awaited(con)'
    PROVE  MessagesTyped' /\ AnswersAwaited'
<1>1. conn'[c] = con /\ \A d \in Conns \ {c} : conn'[d] = conn[d]
  BY DEF IInv, ConnsShaped
<1>2. ASSUME rec.pc \in CandidatePcs PROVE Awaited(conn[rec.c])'
  <2>1. rec.c \in Conns
    BY <1>2 DEF IInv, RecoveryShaped
  <2>2. CASE rec.c = c
    <3>1. conn'[rec'.c] = con
      BY <1>1, <2>2
    <3> QED BY <1>2, <2>2, <3>1 DEF Awaited, HasReply
  <2>3. CASE rec.c # c
    <3>1. PICK x : x = conn[rec.c]
      OBVIOUS
    <3>2. Awaited(x)'
      BY <1>2, <2>3, <3>1, AwaitedStays DEF EventInv, AnswersAwaited
    <3>3. conn'[rec'.c] = x
      BY <1>1, <2>1, <2>3, <3>1
    <3> QED BY <3>2, <3>3 DEF Awaited, HasReply
  <2> QED BY <2>2, <2>3
<1>3. MessagesTyped'
  BY OneTyped
<1>4. AnswersAwaited'
  BY <1>2 DEF AnswersAwaited, CandidatePcs
<1> QED BY <1>3, <1>4

\* The connection has the replies it had, or fewer, by d places nearer.
LEMMA AwaitedFewer ==
    ASSUME EventsGrow, rec'.pc = rec.pc, rec'.ans = rec.ans, NEW old, Awaited(old), NEW con,
           con.wire \in Seq(Messages), con.req \in {"none", old.req}, NEW d \in {0, 1},
           \A i \in DOMAIN con.wire : HasReply(con, i) =>
               HasReply(old, i + d) /\ con.wire[i] = old.wire[i + d]
    PROVE  Awaited(con)'
<1>1. \A r : Truthful(r) => Truthful(r)'
  BY TruthStays
<1>2. \A i : HasReply(con, i)' <=> HasReply(con, i)
  BY DEF HasReply
<1>3. DOMAIN con.wire = 1 .. Len(con.wire) /\ Len(con.wire) \in Nat
  OBVIOUS
<1>4. \A i : HasReply(con, i) => i \in Nat /\ HasReply(old, i + d) /\ con.wire[i] = old.wire[i + d]
  BY <1>3 DEF HasReply
<1>5. ASSUME NEW i, NEW j, HasReply(con, i), HasReply(con, j) PROVE i = j
  <2>1. i \in Nat /\ j \in Nat /\ i + d = j + d
    BY <1>4, <1>5 DEF Awaited
  <2> QED BY <2>1
<1>6. ASSUME NEW i, HasReply(con, i)
      PROVE  /\ rec'.pc \in {"initialize", "read", "terminate"}
             /\ con.req = "none" /\ rec'.ans = <<>>
             /\ rec'.pc = "read" => Truthful(con.wire[i].body)'
  <2>1. HasReply(old, i + d) /\ con.wire[i] = old.wire[i + d]
    BY <1>4, <1>6
  <2>2. PICK r : r = con.wire[i].body
    OBVIOUS
  <2>3. /\ rec.pc \in {"initialize", "read", "terminate"}
        /\ old.req = "none" /\ rec.ans = <<>>
        /\ rec.pc = "read" => Truthful(r)
    BY <2>1, <2>2 DEF Awaited
  <2>4. Truthful(r)' = Truthful(con.wire[i].body)'
    BY <2>2
  <2> QED BY <1>1, <2>3, <2>4
<1>7. con.req \in {"none", rec'.pc} /\ (con.req # "none" => rec'.ans = <<>>)
  BY DEF Awaited
<1> QED BY <1>2, <1>5, <1>6, <1>7 DEF Awaited

\* What is sent arrives behind everything else, or not at all.
LEMMA PushedWire ==
    ASSUME NEW con, DOMAIN con = Fields, con.wire \in Seq(Messages), NEW msg \in Messages
    PROVE  /\ Pushed(con, msg).wire \in Seq(Messages)
           /\ Pushed(con, msg).wire \in {con.wire, Append(con.wire, msg)}
           /\ Pushed(con, msg).st = con.st /\ Pushed(con, msg).inbox = con.inbox
           /\ Pushed(con, msg).req = con.req /\ Pushed(con, msg).served = con.served
           /\ Pushed(con, msg).after = con.after
<1>1. Append(con.wire, msg) \in Seq(Messages)
  OBVIOUS
<1> QED BY <1>1 DEF Pushed, Fields

\* A notification joins the wire of the connection attached by now.
LEMMA NotifyStep ==
    ASSUME EventInv, IInv, NEW t \in Tasks, Notify(t)
    PROVE  EventInv'
<1>1. /\ task[t].pc \in {"send", "last"} /\ events' = events /\ retained' = retained
      /\ open' = open /\ present' = present /\ attached' = attached /\ expired' = expired
      /\ rec' = rec /\ sess' = sess
  BY DEF Notify, client
<1>2. EventsGrow
  BY <1>1, NotAppended, SameSession
<1>3. "exit" \in Tasks /\ "exit" \notin Streams /\ Streams \subseteq Tasks
  BY ExecAssumption DEF Tasks
<1>4. ServerInv'
  <2>1. PICK pc : /\ pc = IF task[t].pc = "last" THEN "done" ELSE IF t = "exit" THEN "emit" ELSE "run"
                  /\ task' = [task EXCEPT ![t].pc = pc]
    BY DEF Notify
  <2>2. pc \in {"run", "emit", "done"}
    BY <2>1
  <2>3. /\ task' \in [Tasks -> TaskStates] /\ task'[t].pc = pc
        /\ \A u \in Tasks \ {t} : task'[u] = task[u]
    BY <2>1, <2>2, PcMoves DEF EventInv, ServerInv
  <2>4. \A u \in Streams : Writing(u)' <=> Writing(u)
    <3> SUFFICES ASSUME NEW u \in Streams PROVE Writing(u)' <=> Writing(u)
      OBVIOUS
    <3>1. CASE u = t
      BY <1>1, <1>3, <2>1, <2>3, <3>1 DEF Writing
    <3>2. CASE u # t
      BY <1>3, <2>3, <3>2 DEF Writing
    <3> QED BY <3>1, <3>2
  <2>5. EventsOrdered'
    <3>1. task["exit"].pc # "run" => task'["exit"].pc # "run"
      <4>1. CASE t = "exit"
        BY <2>1, <2>3, <4>1
      <4>2. CASE t # "exit"
        BY <1>3, <2>3, <4>2
      <4> QED BY <4>1, <4>2
    <3> QED BY <1>1, <2>3, <2>4, <3>1, OrderStays
  <2>6. attached' \in Conns \cup {NoConn} /\ present' \in BOOLEAN /\ expired' \in BOOLEAN
    BY <1>1 DEF EventInv, ServerInv, ServerTypes
  <2>7. /\ task'[t].pc \notin {"send", "last"}
        /\ \A i \in DOMAIN events' : i \in DOMAIN events \/ events'[i] # "out"
    BY <1>1, <2>2, <2>3
  <2> QED BY <1>1, <1>2, <2>3, <2>4, <2>5, <2>6, <2>7, TaskStep
<1>5. SessionInv'
  BY <1>1 DEF EventInv, SessionInv, SessionTells, SessionShaped, Tells, HoldsFew, Pending, AllRetained
<1>6. AnswersTruthful'
  BY <1>1, <1>2, AnswerStays
<1>7. CASE attached = NoConn
  <2>1. conn' = conn
    BY <1>7 DEF Notify
  <2> QED BY <1>1, <1>2, <1>4, <2>1, EventsOnly DEF EventInv
<1>8. CASE attached # NoConn
  <2>1. attached \in Conns
    BY <1>8 DEF EventInv, ServerInv, ServerTypes
  <2>2. task[t].seq \in DOMAIN events /\ task[t].seq \in Nat
    BY <1>1 DEF EventInv, ServerInv, ServerTypes, TasksNumbered
  <2>3. PICK c, old, msg : /\ c \in Conns /\ c = attached /\ old = conn[c]
                           /\ msg = Note(task[t].seq)
    BY <2>1
  <2>4. PICK con : con = Pushed(old, msg)
    OBVIOUS
  <2>5. conn' = [conn EXCEPT ![c] = con]
    BY <1>8, <2>3, <2>4 DEF Notify
  <2>6. DOMAIN old = Fields /\ Typed(old)
    BY <2>3 DEF EventInv, MessagesTyped, IInv, ConnsShaped
  <2>7. msg \in Messages /\ msg.k = "note" /\ msg.seq \in DOMAIN events
    BY <2>2, <2>3 DEF Note, Messages
  <2>8. /\ con.wire \in Seq(Messages) /\ con.wire \in {old.wire, Append(old.wire, msg)}
        /\ con.st = old.st /\ con.inbox = old.inbox /\ con.req = old.req
        /\ con.served = old.served /\ con.after = old.after
    BY <2>4, <2>6, <2>7, PushedWire DEF Typed
  <2>9. \A i \in DOMAIN con.wire :
            (i \in DOMAIN old.wire /\ con.wire[i] = old.wire[i]) \/ con.wire[i] = msg
    <3>1. PICK w : w = old.wire /\ w \in Seq(Messages)
      BY <2>6 DEF Typed
    <3>2. CASE con.wire = w
      BY <3>1, <3>2
    <3>3. CASE con.wire = Append(w, msg)
      BY <2>7, <3>1, <3>3, AppendEntries
    <3> QED BY <2>8, <3>1, <3>2, <3>3
  <2>10. Typed(con)
    BY <2>6, <2>7, <2>8, <2>9 DEF Typed
  <2>11. Typed(con)'
    BY <1>2, <2>10, TypedStays
  <2>12. ASSUME rec.pc \in CandidatePcs, rec.c = c PROVE Awaited(con)'
    <3>1. Awaited(old)
      BY <2>3, <2>12 DEF EventInv, AnswersAwaited
    <3>2. \A i \in DOMAIN con.wire : HasReply(con, i) =>
              HasReply(old, i + 0) /\ con.wire[i] = old.wire[i + 0]
      BY <2>7, <2>8, <2>9 DEF HasReply
    <3> QED BY <1>1, <1>2, <2>8, <3>1, <3>2, AwaitedFewer
  <2>13. MessagesTyped' /\ AnswersAwaited'
    BY <1>1, <1>2, <2>3, <2>5, <2>11, <2>12, OneMoves
  <2> QED BY <1>4, <1>5, <1>6, <2>13 DEF EventInv
<1> QED BY <1>7, <1>8

\* A session that does not change.
LEMMA SessionStays ==
    ASSUME EventInv, events' = events, sess' = sess
    PROVE  SessionInv' /\ EventsGrow
<1>1. EventsGrow
  BY NotAppended, SameSession
<1>2. SessionInv'
  BY DEF EventInv, SessionInv, SessionTells, SessionShaped, Tells, HoldsFew, Pending, AllRetained
<1> QED BY <1>1, <1>2

\* A request is answered: if the recovery awaits it, the answer is the only one on the wire.
LEMMA AnswerSent ==
    ASSUME EventInv, IInv, NEW c \in Conns, NEW body \in Bodies, conn[c].req # "none",
           conn' = [conn EXCEPT ![c] = Pushed([conn[c] EXCEPT !.req = "none"], Reply(body))],
           events' = events, rec' = rec, sess' = sess,
           rec.pc = "read" /\ rec.c = c => Truthful(body)
    PROVE  MessagesTyped' /\ AnswersAwaited' /\ AnswersTruthful' /\ SessionInv'
<1>1. SessionInv' /\ EventsGrow
  BY SessionStays
<1>2. AnswersTruthful'
  BY <1>1, AnswerStays
<1>3. PICK old, msg, mid, con :
          /\ old = conn[c] /\ msg = Reply(body) /\ mid = [old EXCEPT !.req = "none"]
          /\ con = Pushed(mid, msg)
  OBVIOUS
<1>4. conn' = [conn EXCEPT ![c] = con]
  BY <1>3
<1>5. DOMAIN old = Fields /\ Typed(old) /\ old.wire \in Seq(Messages) /\ old.req # "none"
      /\ old.req \in {"initialize", "read", "terminate"}
  BY <1>3 DEF EventInv, MessagesTyped, IInv, ConnsShaped, Typed
<1>6. /\ DOMAIN mid = Fields /\ mid.st = old.st /\ mid.wire = old.wire /\ mid.inbox = old.inbox
      /\ mid.req = "none" /\ mid.served = old.served /\ mid.after = old.after
  BY <1>3, <1>5 DEF Fields
<1>7. msg \in Messages /\ msg.k = "reply" /\ msg.body = body
  BY <1>3 DEF Reply, Messages
<1>8. /\ con.wire \in Seq(Messages) /\ con.wire \in {old.wire, Append(old.wire, msg)}
      /\ con.st = old.st /\ con.inbox = old.inbox /\ con.req = "none"
      /\ con.served = old.served /\ con.after = old.after
  <2>1. mid.wire \in Seq(Messages) /\ con = Pushed(mid, msg)
    BY <1>3, <1>5, <1>6
  <2>2. /\ con.wire \in Seq(Messages) /\ con.wire \in {mid.wire, Append(mid.wire, msg)}
        /\ con.st = mid.st /\ con.inbox = mid.inbox /\ con.req = mid.req
        /\ con.served = mid.served /\ con.after = mid.after
    BY <1>6, <1>7, <2>1, PushedWire
  <2> QED BY <1>6, <2>2
<1>9. \A i \in DOMAIN con.wire :
          \/ i \in DOMAIN old.wire /\ con.wire[i] = old.wire[i]
          \/ i = Len(old.wire) + 1 /\ con.wire[i] = msg
  <2>1. CASE con.wire = old.wire
    BY <2>1
  <2>2. CASE con.wire = Append(old.wire, msg)
    <3>1. PICK w \in Seq(Messages) : w = old.wire
      BY <1>5
    <3>2. \A i \in DOMAIN Append(w, msg) :
              \/ i \in DOMAIN w /\ Append(w, msg)[i] = w[i]
              \/ i = Len(w) + 1 /\ Append(w, msg)[i] = msg
      OBVIOUS
    <3> QED BY <2>2, <3>1, <3>2
  <2> QED BY <1>8, <2>1, <2>2
<1>10. Typed(con)
  BY <1>5, <1>7, <1>8, <1>9 DEF Typed
<1>11. Typed(con)'
  BY <1>1, <1>10, TypedStays
<1>12. ASSUME rec.pc \in CandidatePcs, rec.c = c PROVE Awaited(con)'
  <2>1. Awaited(old)
    BY <1>3, <1>12 DEF EventInv, AnswersAwaited
  <2>2. rec.pc = old.req /\ rec.ans = <<>> /\ \A i : ~HasReply(old, i)
    BY <1>5, <2>1 DEF Awaited
  <2>3. \A i : HasReply(con, i) => i = Len(old.wire) + 1 /\ con.wire[i].body = body
    BY <1>7, <1>9, <2>2 DEF HasReply
  <2>4. rec.pc = "read" => Truthful(body)'
    BY <1>1, <1>12, TruthStays
  <2>5. \A i : HasReply(con, i)' <=> HasReply(con, i)
    BY DEF HasReply
  <2>6. ASSUME NEW i, HasReply(con, i), rec.pc = "read" PROVE Truthful(con.wire[i].body)'
    BY <2>3, <2>4, <2>6 DEF Truthful, Target
  <2> QED BY <1>5, <1>8, <2>2, <2>3, <2>5, <2>6 DEF Awaited
<1>13. MessagesTyped' /\ AnswersAwaited'
  BY <1>1, <1>4, <1>11, <1>12, OneMoves
<1> QED BY <1>1, <1>2, <1>13

\* process/read answers truthfully.
LEMMA ReadTruthful ==
    ASSUME EventInv, NEW after \in 0 .. Len(sess.pub)
    PROVE  Truthful(ReadResponse(after))
<1> DEFINE r == ReadResponse(after)
<1>1. /\ events \in Seq(Kinds) /\ Len(events) \in Nat /\ DOMAIN events = 1 .. Len(events)
      /\ retained \subseteq Outputs /\ present \in BOOLEAN
      /\ AllRetained => retained = Outputs
  BY DEF EventInv, ServerInv, ServerTypes, OutputKept
<1>2. Len(sess.pub) \in Nat
  BY <1>1, TellsBuffer DEF EventInv, SessionInv
<1>3. /\ r.unknown = ~present /\ r.chunks = {n \in retained : n > after}
      /\ r.next = Len(events) + 1
      /\ r.exited = ("exit" \in Range(events)) /\ r.closed = ("closed" \in Range(events))
  BY DEF ReadResponse
<1>4. r.chunks \in SUBSET Nat
  BY <1>1, <1>3 DEF Outputs
<1>5. r \in [unknown: BOOLEAN, chunks: SUBSET Nat, next: Nat, exited: BOOLEAN, closed: BOOLEAN]
  BY <1>1, <1>3, <1>4 DEF ReadResponse
<1>6. Target(r) = Len(events)
  BY <1>1, <1>3 DEF Target
<1> HIDE DEF r
<1>7. \A n \in r.chunks : n \in 1 .. Len(events) /\ events[n] = "out"
  BY <1>1, <1>3 DEF Outputs
<1>8. AllRetained => \A n \in 1 .. Len(events) :
          events[n] = "out" => n \in r.chunks \/ n <= Len(sess.pub)
  BY <1>1, <1>2, <1>3 DEF Outputs
<1>9. /\ r.exited => \E n \in 1 .. Len(events) : events[n] = "exit"
      /\ r.closed => \E n \in 1 .. Len(events) : events[n] = "closed"
  BY <1>1, <1>3 DEF Range
<1>10. Truthful(r)
  BY <1>1, <1>5, <1>6, <1>7, <1>8, <1>9 DEF Truthful
<1> QED BY <1>10 DEF r

\* The server answers a request.
LEMMA ServeStep ==
    ASSUME EventInv, IInv, NEW c \in Conns, ServeInitialize(c) \/ ServeRead(c) \/ ServeTerminate(c)
    PROVE  EventInv'
<1>1. CASE ServeInitialize(c)
  <2>1. PICK body \in {"unknown", "attached", "ok"} :
            conn' = [conn EXCEPT ![c] = Pushed([conn[c] EXCEPT !.req = "none"], Reply(body))]
    BY <1>1 DEF ServeInitialize
  <2>2. /\ conn[c].req = "initialize" /\ attached' \in {c, attached}
        /\ events' = events /\ retained' = retained /\ open' = open /\ present' = present
        /\ task' = task /\ expired' = expired /\ rec' = rec /\ sess' = sess
    BY <1>1 DEF ServeInitialize, client
  <2>3. rec.pc = "read" => rec.c # c
    BY <2>2 DEF EventInv, AnswersAwaited, Awaited, CandidatePcs
  <2>4. body \in Bodies
    BY DEF Bodies
  <2>5. MessagesTyped' /\ AnswersAwaited' /\ AnswersTruthful' /\ SessionInv'
    BY <2>1, <2>2, <2>3, <2>4, AnswerSent
  <2>6. ServerInv'
    BY <2>2, ServerStays DEF EventInv, ServerInv, ServerTypes
  <2> QED BY <2>5, <2>6 DEF EventInv
<1>2. CASE ServeRead(c)
  <2>1. PICK body : /\ body = ReadResponse(conn[c].after)
                    /\ conn' = [conn EXCEPT ![c] = Pushed([conn[c] EXCEPT !.req = "none"], Reply(body))]
    BY <1>2 DEF ServeRead
  <2>2. /\ conn[c].req = "read" /\ attached' = attached
        /\ events' = events /\ retained' = retained /\ open' = open /\ present' = present
        /\ task' = task /\ expired' = expired /\ rec' = rec /\ sess' = sess
    BY <1>2 DEF ServeRead, server, client
  <2>3. conn[c].after \in 0 .. Len(sess.pub)
    BY DEF EventInv, MessagesTyped, Typed
  <2>4. Truthful(body)
    BY <2>1, <2>3, ReadTruthful
  <2>5. body \in Bodies
    BY <2>4 DEF Bodies, Truthful
  <2>6. MessagesTyped' /\ AnswersAwaited' /\ AnswersTruthful' /\ SessionInv'
    BY <2>1, <2>2, <2>4, <2>5, AnswerSent
  <2>7. ServerInv'
    BY <2>2, ServerStays DEF EventInv, ServerInv, ServerTypes
  <2> QED BY <2>6, <2>7 DEF EventInv
<1>3. CASE ServeTerminate(c)
  <2>1. PICK body \in {"terminated"} :
            conn' = [conn EXCEPT ![c] = Pushed([conn[c] EXCEPT !.req = "none"], Reply(body))]
    BY <1>3 DEF ServeTerminate
  <2>2. /\ conn[c].req = "terminate" /\ attached' = attached
        /\ events' = events /\ retained' = retained /\ open' = open /\ present' = present
        /\ task' = task /\ expired' = expired /\ rec' = rec /\ sess' = sess
    BY <1>3 DEF ServeTerminate, server, client
  <2>3. rec.pc = "read" => rec.c # c
    BY <2>2 DEF EventInv, AnswersAwaited, Awaited, CandidatePcs
  <2>4. body \in Bodies
    BY DEF Bodies
  <2>5. MessagesTyped' /\ AnswersAwaited' /\ AnswersTruthful' /\ SessionInv'
    BY <2>1, <2>2, <2>3, <2>4, AnswerSent
  <2>6. ServerInv'
    BY <2>2, ServerStays DEF EventInv, ServerInv, ServerTypes
  <2> QED BY <2>5, <2>6 DEF EventInv
<1> QED BY <1>1, <1>2, <1>3

\* A connection loses messages from the end of its wire, a request or a reader, or is seen to
\* be closed: nothing else is under way than before.
LEMMA LessUnderWay ==
    ASSUME EventInv, IInv, NEW c \in Conns, NEW con, conn' = [conn EXCEPT ![c] = con],
           events' = events, rec' = rec, sess' = sess,
           con.st \in {"unused", "up", "cut"}, con.inbox = conn[c].inbox,
           con.req \in {"none", conn[c].req}, con.served \in BOOLEAN, con.after = conn[c].after,
           con.wire \in Seq(Messages),
           \A i \in DOMAIN con.wire : i \in DOMAIN conn[c].wire /\ con.wire[i] = conn[c].wire[i]
    PROVE  MessagesTyped' /\ AnswersAwaited' /\ AnswersTruthful' /\ SessionInv'
<1>1. SessionInv' /\ EventsGrow
  BY SessionStays
<1>2. AnswersTruthful'
  BY <1>1, AnswerStays
<1>3. PICK old : old = conn[c]
  OBVIOUS
<1>4. Typed(old)
  BY <1>3 DEF EventInv, MessagesTyped
<1>5. Typed(con)
  BY <1>3, <1>4 DEF Typed
<1>6. Typed(con)'
  BY <1>1, <1>5, TypedStays
<1>7. ASSUME rec.pc \in CandidatePcs, rec.c = c PROVE Awaited(con)'
  <2>1. Awaited(old)
    BY <1>3, <1>7 DEF EventInv, AnswersAwaited
  <2>2. \A i \in DOMAIN con.wire : HasReply(con, i) =>
            HasReply(old, i + 0) /\ con.wire[i] = old.wire[i + 0]
    BY <1>3 DEF HasReply
  <2> QED BY <1>1, <1>3, <2>1, <2>2, AwaitedFewer
<1>8. MessagesTyped' /\ AnswersAwaited'
  BY <1>1, <1>6, <1>7, OneMoves
<1> QED BY <1>1, <1>2, <1>8

\* The transport breaks, and both sides learn of it.
LEMMA BreakStep ==
    ASSUME EventInv, IInv, NEW c \in Conns, ServerDisconnect(c) \/ Cut(c) \/ SeeClosed(c)
    PROVE  EventInv'
<1>0. DOMAIN conn[c] = Fields /\ Typed(conn[c]) /\ DOMAIN conn = Conns
  BY DEF EventInv, MessagesTyped, IInv, ConnsShaped
<1>1. CASE ServerDisconnect(c)
  <2> DEFINE con == [conn[c] EXCEPT !.served = FALSE, !.req = "none"]
  <2>1. /\ conn' = [conn EXCEPT ![c] = con] /\ attached' \in {attached, NoConn}
        /\ events' = events /\ retained' = retained /\ open' = open /\ present' = present
        /\ task' = task /\ expired' = expired /\ rec' = rec /\ sess' = sess
    BY <1>0, <1>1 DEF ServerDisconnect, client
  <2>2. /\ con.st = conn[c].st /\ con.inbox = conn[c].inbox /\ con.req = "none"
        /\ con.served = FALSE /\ con.after = conn[c].after /\ con.wire = conn[c].wire
    BY <1>0 DEF Fields
  <2> HIDE DEF con
  <2>3. MessagesTyped' /\ AnswersAwaited' /\ AnswersTruthful' /\ SessionInv'
    BY <1>0, <2>1, <2>2, LessUnderWay DEF Typed
  <2>4. ServerInv'
    BY <2>1, ServerStays DEF EventInv, ServerInv, ServerTypes
  <2> QED BY <2>3, <2>4 DEF EventInv
<1>2. CASE Cut(c)
  <2>1. PICK k \in 0 .. Len(conn[c].wire) :
            conn' = [conn EXCEPT ![c].st = "cut", ![c].wire = SubSeq(@, 1, k)]
    BY <1>2 DEF Cut
  <2> DEFINE con == [conn[c] EXCEPT !.st = "cut", !.wire = SubSeq(conn[c].wire, 1, k)]
  <2>2. /\ conn' = [conn EXCEPT ![c] = con] /\ attached' = attached
        /\ events' = events /\ retained' = retained /\ open' = open /\ present' = present
        /\ task' = task /\ expired' = expired /\ rec' = rec /\ sess' = sess
    BY <1>0, <1>2, <2>1 DEF Cut, server, client
  <2>3. /\ con.st = "cut" /\ con.inbox = conn[c].inbox /\ con.req = conn[c].req
        /\ con.served = conn[c].served /\ con.after = conn[c].after
        /\ con.wire = SubSeq(conn[c].wire, 1, k)
    BY <1>0 DEF Fields
  <2> HIDE DEF con
  <2>4. PICK w \in Seq(Messages) : w = conn[c].wire
    BY <1>0 DEF Typed
  <2>5. /\ con.wire \in Seq(Messages)
        /\ \A i \in DOMAIN con.wire : i \in DOMAIN w /\ con.wire[i] = w[i]
    <3>1. k \in 0 .. Len(w) /\ con.wire = SubSeq(w, 1, k)
      BY <2>1, <2>3, <2>4
    <3> QED BY <3>1
  <2>6. con.served \in BOOLEAN
    BY <1>0, <2>3 DEF Typed
  <2>7. MessagesTyped' /\ AnswersAwaited' /\ AnswersTruthful' /\ SessionInv'
    BY <2>2, <2>3, <2>4, <2>5, <2>6, LessUnderWay
  <2>8. ServerInv'
    BY <2>2, ServerStays DEF EventInv, ServerInv, ServerTypes
  <2> QED BY <2>7, <2>8 DEF EventInv
<1>3. CASE SeeClosed(c)
  <2> DEFINE con == [conn[c] EXCEPT !.closed = TRUE]
  <2>1. /\ conn' = [conn EXCEPT ![c] = con] /\ attached' = attached
        /\ events' = events /\ retained' = retained /\ open' = open /\ present' = present
        /\ task' = task /\ expired' = expired /\ rec' = rec /\ sess' = sess
    BY <1>0, <1>3 DEF SeeClosed, server, client
  <2>2. /\ con.st = conn[c].st /\ con.inbox = conn[c].inbox /\ con.req = conn[c].req
        /\ con.served = conn[c].served /\ con.after = conn[c].after /\ con.wire = conn[c].wire
    BY <1>0 DEF Fields
  <2> HIDE DEF con
  <2>3. MessagesTyped' /\ AnswersAwaited' /\ AnswersTruthful' /\ SessionInv'
    BY <1>0, <2>1, <2>2, LessUnderWay DEF Typed
  <2>4. ServerInv'
    BY <2>1, ServerStays DEF EventInv, ServerInv, ServerTypes
  <2> QED BY <2>3, <2>4 DEF EventInv
<1> QED BY <1>1, <1>2, <1>3

\* A message arrives: a number joins the reader's queue, an answer reaches its caller.
LEMMA ArriveStep ==
    ASSUME EventInv, IInv, NEW c \in Conns, Arrive(c)
    PROVE  EventInv'
<1>1. /\ events' = events /\ retained' = retained /\ open' = open /\ present' = present
      /\ task' = task /\ expired' = expired /\ attached' = attached /\ sess' = sess
  BY DEF Arrive, server
<1>2. ServerInv'
  BY <1>1, ServerStays DEF EventInv, ServerInv, ServerTypes
<1>3. SessionInv' /\ EventsGrow
  BY <1>1, SessionStays
<1>4. PICK old, msg, rest : /\ old = conn[c] /\ msg = Head(old.wire)
                            /\ rest = [old EXCEPT !.wire = Tail(@)]
  OBVIOUS
<1>5. DOMAIN old = Fields /\ Typed(old) /\ old.wire # <<>> /\ old.wire \in Seq(Messages)
  BY <1>4 DEF EventInv, MessagesTyped, Typed, IInv, ConnsShaped, Arrive
<1>6. /\ DOMAIN rest = Fields /\ rest.st = old.st /\ rest.wire = Tail(old.wire)
      /\ rest.inbox = old.inbox /\ rest.req = old.req /\ rest.served = old.served
      /\ rest.after = old.after
  BY <1>4, <1>5 DEF Fields
<1>7. /\ rest.wire \in Seq(Messages) /\ 1 \in DOMAIN old.wire /\ msg = old.wire[1]
      /\ \A i \in DOMAIN rest.wire : i \in Nat /\ i > 0 /\ i + 1 \in DOMAIN old.wire
                                     /\ rest.wire[i] = old.wire[i + 1]
  BY <1>4, <1>5, <1>6
<1>8. Typed(rest)
  BY <1>5, <1>6, <1>7 DEF Typed
<1>9. CASE msg.k = "note"
  <2>1. PICK con : con = [rest EXCEPT !.inbox = Append(@, msg.seq)]
    OBVIOUS
  <2>2. conn' = [conn EXCEPT ![c] = con] /\ rec' = rec
    BY <1>4, <1>9, <2>1 DEF Arrive
  <2>3. /\ con.st = old.st /\ con.wire = rest.wire /\ con.inbox = Append(old.inbox, msg.seq)
        /\ con.req = old.req /\ con.served = old.served /\ con.after = old.after
    BY <1>6, <2>1 DEF Fields
  <2>4. con.inbox \in Seq(DOMAIN events)
    <3>1. msg.seq \in DOMAIN events /\ old.inbox \in Seq(DOMAIN events)
      BY <1>5, <1>7, <1>9 DEF Typed
    <3> QED BY <2>3, <3>1
  <2>5. Typed(con)
    BY <1>6, <1>8, <2>3, <2>4 DEF Typed
  <2>6. Typed(con)'
    BY <1>3, <2>5, TypedStays
  <2>7. ASSUME rec.pc \in CandidatePcs, rec.c = c PROVE Awaited(con)'
    <3>1. Awaited(old)
      BY <1>4, <2>7 DEF EventInv, AnswersAwaited
    <3>2. \A i \in DOMAIN con.wire : HasReply(con, i) =>
              HasReply(old, i + 1) /\ con.wire[i] = old.wire[i + 1]
      BY <1>7, <2>3 DEF HasReply
    <3> QED BY <1>3, <1>7, <2>2, <2>3, <3>1, <3>2, AwaitedFewer
  <2>8. MessagesTyped' /\ AnswersAwaited'
    BY <1>3, <2>2, <2>6, <2>7, OneMoves
  <2>9. AnswersTruthful'
    BY <1>3, <2>2, AnswerStays
  <2> QED BY <1>2, <1>3, <2>8, <2>9 DEF EventInv
<1>10. CASE msg.k = "reply"
  <2>1. /\ conn' = [conn EXCEPT ![c] = rest]
        /\ rec' = IF rec.c = c THEN [rec EXCEPT !.ans = <<msg.body>>] ELSE rec
    BY <1>4, <1>10 DEF Arrive
  <2>2. Typed(rest)'
    BY <1>3, <1>8, TypedStays
  <2>3. msg.body \in Bodies
    BY <1>5, <1>7, <1>10 DEF Messages
  <2>4. CASE rec.c # c
    <3>1. rec' = rec
      BY <2>1, <2>4
    <3>2. MessagesTyped' /\ AnswersAwaited'
      BY <1>3, <2>1, <2>2, <2>4, <3>1, OneMoves
    <3>3. AnswersTruthful'
      BY <1>3, <3>1, AnswerStays
    <3> QED BY <1>2, <1>3, <3>2, <3>3 DEF EventInv
  <2>5. CASE rec.c = c
    <3>1. rec'.pc = rec.pc /\ rec'.c = rec.c /\ rec'.ans = <<msg.body>>
      BY <2>1, <2>5 DEF IInv, RecoveryShaped
    <3>2. rec.pc \in CandidatePcs
      BY <2>5, ConnFacts DEF IInv, RecoveryShaped
    <3>3. Awaited(old) /\ HasReply(old, 1)
      BY <1>4, <1>7, <1>10, <2>5, <3>2 DEF EventInv, AnswersAwaited, HasReply
    <3>4. \A i : ~HasReply(rest, i)
      <4> SUFFICES ASSUME NEW i, HasReply(rest, i) PROVE FALSE
        OBVIOUS
      <4>1. i \in Nat /\ i > 0 /\ HasReply(old, i + 1)
        BY <1>7 DEF HasReply
      <4>2. i + 1 = 1
        BY <3>3, <4>1 DEF Awaited
      <4> QED BY <4>1, <4>2
    <3>5. rest.req = "none"
      BY <1>6, <3>3 DEF Awaited
    <3>6. \A i : ~HasReply(rest, i)'
      BY <3>4 DEF HasReply
    <3>7. Awaited(rest)'
      BY <3>5, <3>6 DEF Awaited
    <3>8. MessagesTyped' /\ AnswersAwaited'
      BY <1>3, <2>1, <2>2, <2>5, <3>1, <3>7, OneMoves
    <3>9. PICK r : r = msg.body
      OBVIOUS
    <3>10. rec.pc = "read" => Truthful(r)'
      BY <1>3, <1>7, <3>3, <3>9, TruthStays DEF Awaited
    <3>11. rec'.ans = <<r>> /\ rec'.ans[1] = r /\ r \in Bodies
      BY <2>3, <3>1, <3>9
    <3>12. rec'.pc = "read" => Truthful(rec.ans[1])'
      BY <3>1, <3>10, <3>11 DEF Truthful, Target
    <3>13. AnswersTruthful'
      BY <3>11, <3>12 DEF AnswersTruthful, Bodies
    <3> QED BY <1>2, <1>3, <3>8, <3>13 DEF EventInv
  <2> QED BY <2>4, <2>5
<1>11. msg.k = "note" \/ msg.k = "reply"
  BY <1>4 DEF Arrive
<1> QED BY <1>9, <1>10, <1>11

-----------------------------------------------------------------------------
(* The client.                                                             *)

\* The session becomes another that tells the truth.
LEMMA SessionMoves ==
    ASSUME EventInv, events' = events, NEW x, sess' = x, SessionTells(x), HoldsFew(x),
           Grows(sess, x)
    PROVE  SessionInv' /\ EventsGrow
<1>1. events \in Seq(Kinds)
  BY DEF EventInv, ServerInv, ServerTypes
<1>2. Len(x.pub) \in Nat
  BY <1>1, TellsBuffer
<1>3. EventsGrow
  BY <1>2, NotAppended
<1>4. SessionInv'
  BY DEF SessionInv, SessionTells, SessionShaped, Tells, HoldsFew, Pending, AllRetained
<1> QED BY <1>3, <1>4

\* A number that arrived is handled.
LEMMA NotificationStep ==
    ASSUME EventInv, IInv, NEW c \in Conns, HandleNotification(c)
    PROVE  EventInv'
<1>1. /\ events' = events /\ retained' = retained /\ open' = open /\ present' = present
      /\ task' = task /\ expired' = expired /\ attached' = attached /\ rec' = rec
  BY DEF HandleNotification, server
<1>2. ServerInv'
  BY <1>1, ServerStays DEF EventInv, ServerInv, ServerTypes
<1>3. PICK old, n : old = conn[c] /\ n = Head(old.inbox)
  OBVIOUS
<1>4. DOMAIN old = Fields /\ Typed(old) /\ old.inbox # <<>> /\ old.inbox \in Seq(DOMAIN events)
      /\ DOMAIN conn = Conns
  BY <1>3 DEF EventInv, MessagesTyped, Typed, IInv, ConnsShaped, HandleNotification
<1>5. n \in DOMAIN events /\ Tail(old.inbox) \in Seq(DOMAIN events)
  <2>1. PICK D, q : D = DOMAIN events /\ q = old.inbox
    OBVIOUS
  <2>2. q \in Seq(D) /\ q # <<>>
    BY <1>4, <2>1
  <2>3. Head(q) \in D /\ Tail(q) \in Seq(D)
    BY <2>2
  <2> QED BY <1>3, <2>1, <2>3
<1>6. PICK x : x = OnNotification(sess, n)
  OBVIOUS
<1>7. SessionTells(x) /\ HoldsFew(x) /\ Grows(sess, x)
  BY <1>5, <1>6, NotificationFacts DEF EventInv, ServerInv, ServerTypes, SessionInv
<1>8. sess' = x
  BY <1>3, <1>6 DEF HandleNotification
<1>9. SessionInv' /\ EventsGrow
  BY <1>1, <1>7, <1>8, SessionMoves
<1>10. AnswersTruthful'
  BY <1>1, <1>9, AnswerStays
<1>11. PICK con : con = [old EXCEPT !.inbox = Tail(@)]
  OBVIOUS
<1>12. conn' = [conn EXCEPT ![c] = con]
  BY <1>3, <1>4, <1>11 DEF HandleNotification
<1>13. /\ con.st = old.st /\ con.wire = old.wire /\ con.inbox = Tail(old.inbox)
       /\ con.req = old.req /\ con.served = old.served /\ con.after = old.after
  BY <1>4, <1>11 DEF Fields
<1>14. Typed(con)
  BY <1>4, <1>5, <1>13 DEF Typed
<1>15. Typed(con)'
  BY <1>9, <1>14, TypedStays
<1>16. ASSUME rec.pc \in CandidatePcs, rec.c = c PROVE Awaited(con)'
  <2>1. Awaited(old)
    BY <1>3, <1>16 DEF EventInv, AnswersAwaited
  <2>2. con.wire \in Seq(Messages)
    BY <1>4, <1>13 DEF Typed
  <2>3. \A i \in DOMAIN con.wire : HasReply(con, i) =>
            HasReply(old, i + 0) /\ con.wire[i] = old.wire[i + 0]
    BY <1>13, <2>2 DEF HasReply
  <2> QED BY <1>1, <1>9, <1>13, <2>1, <2>2, <2>3, AwaitedFewer
<1>17. MessagesTyped' /\ AnswersAwaited'
  BY <1>1, <1>9, <1>12, <1>15, <1>16, OneMoves
<1> QED BY <1>2, <1>9, <1>10, <1>17 DEF EventInv

\* There is no candidate any more; its connection, if there was one, is dropped.
LEMMA GivenUp ==
    ASSUME EventInv, IInv, UNCHANGED server, sess' = sess,
           rec'.pc \notin CandidatePcs, rec'.ans = <<>>,
           \/ conn' = conn
           \/ \E c \in Conns : conn' = [conn EXCEPT ![c] = Dropped(conn[c])]
    PROVE  EventInv'
<1>1. /\ events' = events /\ retained' = retained /\ open' = open /\ present' = present
      /\ task' = task /\ expired' = expired /\ attached' = attached
  BY DEF server
<1>2. ServerInv'
  BY <1>1, ServerStays DEF EventInv, ServerInv, ServerTypes
<1>3. SessionInv' /\ EventsGrow
  BY <1>1, SessionStays
<1>4. AnswersAwaited' /\ AnswersTruthful'
  <2>1. rec'.pc # "read"
    BY DEF CandidatePcs
  <2> QED BY <2>1 DEF AnswersAwaited, AnswersTruthful, CandidatePcs
<1>5. MessagesTyped'
  <2>1. CASE conn' = conn
    BY <1>1, <2>1 DEF EventInv, MessagesTyped, Typed
  <2>2. CASE \E c \in Conns : conn' = [conn EXCEPT ![c] = Dropped(conn[c])]
    <3>1. PICK c \in Conns : conn' = [conn EXCEPT ![c] = Dropped(conn[c])]
      BY <2>2
    <3>2. PICK old, con : old = conn[c] /\ con = Dropped(old)
      OBVIOUS
    <3>3. DOMAIN old = Fields /\ Typed(old)
      BY <3>2 DEF EventInv, MessagesTyped, IInv, ConnsShaped
    <3>4. /\ con.st = "cut" /\ con.wire = <<>> /\ con.inbox = <<>>
          /\ con.req = old.req /\ con.served = old.served /\ con.after = old.after
      BY <3>2, <3>3 DEF Dropped, Fields
    <3>5. Typed(con)
      BY <3>3, <3>4 DEF Typed
    <3>6. Typed(con)'
      BY <1>3, <3>5, TypedStays
    <3> QED BY <1>3, <3>1, <3>2, <3>6, OneTyped
  <2> QED BY <2>1, <2>2
<1> QED BY <1>2, <1>3, <1>4, <1>5 DEF EventInv

LEMMA RetryEvents ==
    ASSUME EventInv, IInv, UNCHANGED server, rec.pc \in CandidatePcs, Retry
    PROVE  EventInv'
<1>1. rec'.pc = "dial" /\ rec'.ans = <<>> /\ sess' = sess
  BY DEF Retry, NoRecovery
<1>2. rec.c \in Conns /\ conn' = [conn EXCEPT ![rec.c] = Dropped(conn[rec.c])]
  BY DEF Retry, IInv, RecoveryShaped
<1>3. \E c \in Conns : conn' = [conn EXCEPT ![c] = Dropped(conn[c])]
  BY <1>2
<1> QED BY <1>1, <1>3, GivenUp DEF CandidatePcs

LEMMA FailEvents ==
    ASSUME EventInv, IInv, UNCHANGED server, Fail
    PROVE  EventInv'
<1>1. rec'.pc = "failing" /\ rec'.ans = <<>> /\ sess' = sess
  BY DEF Fail, NoRecovery
<1>2. CASE rec.c = NoConn
  BY <1>1, <1>2, GivenUp DEF Fail, CandidatePcs
<1>3. CASE rec.c # NoConn
  <2>1. rec.c \in Conns /\ conn' = [conn EXCEPT ![rec.c] = Dropped(conn[rec.c])]
    BY <1>3 DEF Fail, IInv, RecoveryShaped
  <2>2. \E c \in Conns : conn' = [conn EXCEPT ![c] = Dropped(conn[c])]
    BY <2>1
  <2> QED BY <1>1, <2>2, GivenUp DEF CandidatePcs
<1> QED BY <1>2, <1>3

\* The reader of a connection stops; if the connection was in use, there is no candidate.
LEMMA DisconnectEvents ==
    ASSUME EventInv, IInv, NEW c \in Conns, HandleDisconnect(c)
    PROVE  EventInv'
<1>1. UNCHANGED server /\ sess' = sess
  BY DEF HandleDisconnect
<1>2. CASE status = "connected" /\ current = c
  <2>1. rec'.pc = "dial" /\ rec'.ans = <<>>
    BY <1>2 DEF HandleDisconnect, NoRecovery
  <2>2. conn' = [conn EXCEPT ![c] = Dropped(conn[c])]
    BY <1>2 DEF HandleDisconnect
  <2> QED BY <1>1, <2>1, <2>2, GivenUp DEF CandidatePcs
<1>3. CASE ~(status = "connected" /\ current = c)
  <2>0. DOMAIN conn[c] = Fields /\ Typed(conn[c]) /\ DOMAIN conn = Conns
    BY DEF EventInv, MessagesTyped, IInv, ConnsShaped
  <2> DEFINE con == [conn[c] EXCEPT !.reader = FALSE]
  <2>1. /\ conn' = [conn EXCEPT ![c] = con] /\ attached' = attached
        /\ events' = events /\ retained' = retained /\ open' = open /\ present' = present
        /\ task' = task /\ expired' = expired /\ rec' = rec
    BY <1>1, <1>3, <2>0 DEF HandleDisconnect, server
  <2>2. /\ con.st = conn[c].st /\ con.inbox = conn[c].inbox /\ con.req = conn[c].req
        /\ con.served = conn[c].served /\ con.after = conn[c].after /\ con.wire = conn[c].wire
    BY <2>0 DEF Fields
  <2> HIDE DEF con
  <2>3. MessagesTyped' /\ AnswersAwaited' /\ AnswersTruthful' /\ SessionInv'
    BY <1>1, <2>0, <2>1, <2>2, LessUnderWay DEF Typed
  <2>4. ServerInv'
    BY <2>1, ServerStays DEF EventInv, ServerInv, ServerTypes
  <2> QED BY <2>3, <2>4 DEF EventInv
<1> QED BY <1>2, <1>3

\* A new candidate has nothing on its wire.
LEMMA DialEvents ==
    ASSUME EventInv, IInv, Dial
    PROVE  EventInv'
<1>1. PICK c \in Conns : /\ conn' = [conn EXCEPT ![c] = [Fresh EXCEPT !.req = "initialize"]]
                         /\ rec' = [pc |-> "initialize", c |-> c, ans |-> <<>>]
  BY DEF Dial
<1>2. /\ events' = events /\ retained' = retained /\ open' = open /\ present' = present
      /\ task' = task /\ expired' = expired /\ attached' = attached /\ sess' = sess
  BY DEF Dial, server
<1>3. ServerInv'
  BY <1>2, ServerStays DEF EventInv, ServerInv, ServerTypes
<1>4. SessionInv' /\ EventsGrow
  BY <1>2, SessionStays
<1>5. PICK con : con = [Fresh EXCEPT !.req = "initialize"]
  OBVIOUS
<1>6. /\ con.st = "up" /\ con.wire = <<>> /\ con.inbox = <<>> /\ con.req = "initialize"
      /\ con.after = 0
  BY <1>5 DEF Fresh, Unused
<1>7. Typed(con)
  <2>1. Len(sess.pub) \in Nat
    BY <1>4 DEF EventsGrow
  <2>2. con.wire \in Seq(Messages) /\ con.inbox \in Seq(DOMAIN events) /\ DOMAIN con.wire = {}
    BY <1>6
  <2>3. /\ con.st \in {"unused", "up", "cut"}
        /\ con.req \in {"none", "initialize", "read", "terminate"}
        /\ con.after \in 0 .. Len(sess.pub)
    BY <1>6, <2>1
  <2>4. con.served \in BOOLEAN
    BY <1>5 DEF Fresh, Unused
  <2> QED BY <2>2, <2>3, <2>4 DEF Typed
<1>8. Typed(con)'
  BY <1>4, <1>7, TypedStays
<1>9. conn' = [conn EXCEPT ![c] = con] /\ conn'[c] = con
  BY <1>1, <1>5 DEF IInv, ConnsShaped
<1>10. MessagesTyped'
  BY <1>4, <1>8, <1>9, OneTyped
<1>11. rec'.pc = "initialize" /\ rec'.c = c /\ rec'.ans = <<>>
  BY <1>1
<1>12. AnswersAwaited'
  <2>1. \A i : ~HasReply(con, i)'
    BY <1>6 DEF HasReply
  <2>2. Awaited(con)'
    BY <1>6, <1>11, <2>1 DEF Awaited
  <2>3. conn'[rec'.c] = con
    BY <1>9, <1>11
  <2>4. Awaited(conn[rec.c])'
    BY <2>2, <2>3 DEF Awaited, HasReply
  <2> QED BY <2>4 DEF AnswersAwaited
<1>13. AnswersTruthful'
  BY <1>11 DEF AnswersTruthful
<1> QED BY <1>3, <1>4, <1>10, <1>12, <1>13 DEF EventInv

\* The next call on the candidate, with no answer under way.
LEMMA CallEvents ==
    ASSUME EventInv, IInv, UNCHANGED server, rec.pc \in CandidatePcs,
           \A i : ~HasReply(conn[rec.c], i), NEW op \in {"read", "terminate"}, Call(op)
    PROVE  EventInv'
<1>1. CASE conn[rec.c].closed
  <2>1. Retry
    BY <1>1 DEF Call
  <2> QED BY <2>1, RetryEvents
<1>2. CASE ~conn[rec.c].closed
  <2>1. PICK c \in Conns : c = rec.c
    BY DEF IInv, RecoveryShaped
  <2>2. PICK old : old = conn[c]
    OBVIOUS
  <2>3. DOMAIN old = Fields /\ Typed(old) /\ DOMAIN conn = Conns
    BY <2>1, <2>2 DEF EventInv, MessagesTyped, IInv, ConnsShaped
  <2>4. PICK req \in {"none", op} : conn' = [conn EXCEPT ![c].req = req, ![c].after = Len(sess.pub)]
    BY <1>2, <2>1 DEF Call
  <2>5. PICK con : con = [old EXCEPT !.req = req, !.after = Len(sess.pub)]
    OBVIOUS
  <2>6. conn' = [conn EXCEPT ![c] = con]
    BY <2>2, <2>3, <2>4, <2>5
  <2>7. /\ con.st = old.st /\ con.wire = old.wire /\ con.inbox = old.inbox
        /\ con.req = req /\ con.served = old.served /\ con.after = Len(sess.pub)
    BY <2>3, <2>5 DEF Fields
  <2>8. /\ events' = events /\ retained' = retained /\ open' = open /\ present' = present
        /\ task' = task /\ expired' = expired /\ attached' = attached /\ sess' = sess
    BY <1>2 DEF server, Call
  <2>9. ServerInv'
    BY <2>8, ServerStays DEF EventInv, ServerInv, ServerTypes
  <2>10. SessionInv' /\ EventsGrow
    BY <2>8, SessionStays
  <2>11. Typed(con)
    <3>1. Len(sess.pub) \in Nat
      BY <2>10 DEF EventsGrow
    <3> QED BY <2>3, <2>7, <3>1 DEF Typed
  <2>12. Typed(con)'
    BY <2>10, <2>11, TypedStays
  <2>13. MessagesTyped' /\ conn'[c] = con
    BY <2>3, <2>6, <2>10, <2>12, OneTyped
  <2>14. rec'.pc = op /\ rec'.c = c /\ rec'.ans = <<>>
    BY <1>2, <2>1 DEF Call, IInv, RecoveryShaped
  <2>15. AnswersAwaited'
    <3>1. \A i : ~HasReply(con, i)'
      BY <2>1, <2>2, <2>7 DEF HasReply
    <3>2. Awaited(con)'
      BY <2>7, <2>14, <3>1 DEF Awaited
    <3>3. conn'[rec'.c] = con
      BY <2>13, <2>14
    <3>4. Awaited(conn[rec.c])'
      BY <3>2, <3>3 DEF Awaited, HasReply
    <3> QED BY <3>4 DEF AnswersAwaited
  <2>16. AnswersTruthful'
    BY <2>14 DEF AnswersTruthful
  <2> QED BY <2>9, <2>10, <2>13, <2>15, <2>16 DEF EventInv
<1> QED BY <1>1, <1>2

\* The recovery has its answer, moves on and calls nobody yet.
LEMMA MovedOn ==
    ASSUME EventInv, IInv, UNCHANGED server, EventsGrow, SessionInv', conn' = conn,
           rec.pc \in CandidatePcs, rec.ans # <<>>, NEW pc \in {"doomed", "install"},
           rec' = [rec EXCEPT !.pc = pc, !.ans = <<>>]
    PROVE  EventInv'
<1>1. /\ events' = events /\ retained' = retained /\ open' = open /\ present' = present
      /\ task' = task /\ expired' = expired /\ attached' = attached
  BY DEF server
<1>2. ServerInv'
  BY <1>1, ServerStays DEF EventInv, ServerInv, ServerTypes
<1>3. rec'.pc = pc /\ rec'.c = rec.c /\ rec'.ans = <<>> /\ rec.c \in Conns
  BY DEF IInv, RecoveryShaped
<1>4. PICK c, con : c = rec.c /\ con = conn[c]
  OBVIOUS
<1>5. Awaited(con)
  BY <1>4 DEF EventInv, AnswersAwaited
<1>6. con.req = "none" /\ \A i : ~HasReply(con, i)
  BY <1>5 DEF Awaited
<1>7. Awaited(con)'
  <2>1. \A i : ~HasReply(con, i)'
    BY <1>6 DEF HasReply
  <2> QED BY <1>6, <2>1 DEF Awaited
<1>8. AnswersAwaited'
  <2>1. conn'[rec'.c] = con
    BY <1>3, <1>4
  <2>2. Awaited(conn[rec.c])'
    BY <1>7, <2>1 DEF Awaited, HasReply
  <2> QED BY <2>2 DEF AnswersAwaited
<1>9. AnswersTruthful'
  BY <1>3 DEF AnswersTruthful
<1>10. MessagesTyped'
  <2> SUFFICES ASSUME NEW d \in Conns PROVE Typed(conn[d])'
    BY DEF MessagesTyped, Conns
  <2>1. PICK x : x = conn[d]
    OBVIOUS
  <2>2. Typed(x)'
    BY <2>1, TypedStays DEF EventInv, MessagesTyped
  <2> QED BY <2>1, <2>2 DEF Typed
<1> QED BY <1>2, <1>8, <1>9, <1>10 DEF EventInv

\* The candidate is initialized, or not.
LEMMA InitializedEvents ==
    ASSUME EventInv, IInv, Initialized
    PROVE  EventInv'
<1>1. rec.pc \in CandidatePcs /\ rec.ans # <<>> /\ UNCHANGED server
  BY DEF Initialized, CandidatePcs
<1>2. CASE Call("read")
  <2>1. \A i : ~HasReply(conn[rec.c], i)
    BY <1>1 DEF EventInv, AnswersAwaited, Awaited
  <2> QED BY <1>1, <1>2, <2>1, CallEvents
<1>3. CASE Retry
  BY <1>1, <1>3, RetryEvents
<1>4. CASE Fail
  BY <1>1, <1>4, FailEvents
<1>5. CASE ToInstall /\ UNCHANGED <<status, current, sess, conn>>
  <2>1. SessionInv' /\ EventsGrow
    BY <1>1, <1>5, SessionStays DEF server
  <2> QED BY <1>1, <1>5, <2>1, MovedOn DEF ToInstall
<1> QED BY <1>2, <1>3, <1>4, <1>5 DEF Initialized

\* What process/read returned is merged.
LEMMA MergeEvents ==
    ASSUME EventInv, IInv, MergeRead
    PROVE  EventInv'
<1>1. /\ rec.pc = "read" /\ rec.ans # <<>> /\ UNCHANGED server /\ conn' = conn
      /\ rec.pc \in CandidatePcs
  BY DEF MergeRead, CandidatePcs
<1>2. PICK r : r = rec.ans[1]
  OBVIOUS
<1>3. PICK result \in Recovered(sess, r) :
          /\ sess' = IF result.err THEN result.s ELSE Settled(result.s)
          /\ rec' = [rec EXCEPT !.pc = IF result.err THEN "doomed" ELSE "install", !.ans = <<>>]
  BY <1>2 DEF MergeRead
<1>4. /\ events \in Seq(Kinds) /\ EventsOrdered /\ SessionTells(sess) /\ HoldsFew(sess)
      /\ Truthful(r)
  BY <1>1, <1>2 DEF EventInv, ServerInv, ServerTypes, SessionInv, AnswersTruthful
<1>5. PICK s : s = result.s
  OBVIOUS
<1>6. SessionTells(s) /\ HoldsFew(s) /\ Grows(sess, s)
  BY <1>4, <1>5, RecoveredFacts
<1>7. PICK x : sess' = x /\ (x = s \/ x = Settled(s))
  BY <1>3, <1>5
<1>8. SessionTells(x) /\ HoldsFew(x) /\ Grows(sess, x)
  <2>1. SessionTells(Settled(s)) /\ HoldsFew(Settled(s)) /\ Grows(s, Settled(s))
    BY <1>4, <1>6, SettledFacts
  <2>2. Len(sess.pub) \in Nat /\ Len(s.pub) \in Nat /\ Len(Settled(s).pub) \in Nat
    BY <1>4, <1>6, <2>1, TellsBuffer
  <2>3. Grows(sess, Settled(s))
    BY <1>6, <2>1, <2>2 DEF Grows
  <2> QED BY <1>6, <1>7, <2>1, <2>3
<1>9. SessionInv' /\ EventsGrow
  BY <1>1, <1>7, <1>8, SessionMoves DEF server
<1>10. PICK pc \in {"doomed", "install"} : rec' = [rec EXCEPT !.pc = pc, !.ans = <<>>]
  BY <1>3
<1> QED BY <1>1, <1>9, <1>10, MovedOn

\* The process that cannot be recovered is terminated and failed.
LEMMA TerminateEvents ==
    ASSUME EventInv, IInv, TerminateDoomed \/ Terminated
    PROVE  EventInv'
<1>1. CASE TerminateDoomed
  <2>1. rec.pc = "doomed" /\ rec.pc \in CandidatePcs /\ UNCHANGED server /\ Call("terminate")
    BY <1>1 DEF TerminateDoomed, CandidatePcs
  <2>2. \A i : ~HasReply(conn[rec.c], i)
    BY <2>1 DEF EventInv, AnswersAwaited, Awaited
  <2> QED BY <2>1, <2>2, CallEvents
<1>2. CASE Terminated
  <2>1. /\ rec.pc \in CandidatePcs /\ rec.ans # <<>> /\ UNCHANGED server /\ conn' = conn
        /\ rec' = [rec EXCEPT !.pc = "install", !.ans = <<>>]
        /\ sess' = FailedAndRemoved(sess)
    BY <1>2 DEF Terminated, ToInstall, CandidatePcs
  <2>2. PICK x : x = FailedAndRemoved(sess)
    OBVIOUS
  <2>3. SessionTells(x) /\ HoldsFew(x) /\ Grows(sess, x)
    BY <2>2, FailedFacts DEF EventInv, ServerInv, ServerTypes, SessionInv
  <2>4. SessionInv' /\ EventsGrow
    BY <2>1, <2>2, <2>3, SessionMoves DEF server
  <2> QED BY <2>1, <2>4, MovedOn
<1> QED BY <1>1, <1>2

\* The candidate comes into use, or a deadline passes.
LEMMA EndEvents ==
    ASSUME EventInv, IInv,
           Install \/ CallClosed \/ InitializeTimeout \/ RecoveryTimeout \/ FailSessions
    PROVE  EventInv'
<1>1. CASE Install /\ ~conn[rec.c].closed
  <2>1. UNCHANGED server /\ sess' = sess /\ conn' = conn /\ rec' = NoRecovery
    BY <1>1 DEF Install
  <2>2. rec'.pc = "none" /\ rec'.ans = <<>>
    BY <2>1 DEF NoRecovery
  <2> QED BY <2>1, <2>2, GivenUp DEF CandidatePcs
<1>2. CASE Install /\ conn[rec.c].closed
  <2>1. UNCHANGED server /\ Retry /\ rec.pc \in CandidatePcs
    BY <1>2 DEF Install, CandidatePcs
  <2> QED BY <2>1, RetryEvents
<1>3. CASE CallClosed \/ InitializeTimeout
  <2>1. UNCHANGED server /\ Retry /\ rec.pc \in CandidatePcs
    BY <1>3 DEF CallClosed, InitializeTimeout, CandidatePcs
  <2> QED BY <2>1, RetryEvents
<1>4. CASE RecoveryTimeout
  BY <1>4, FailEvents DEF RecoveryTimeout
<1>5. CASE FailSessions
  <2>1. /\ UNCHANGED server /\ conn' = conn /\ rec' = NoRecovery
        /\ sess' = IF sess.routed THEN FailedAndRemoved(sess) ELSE sess
    BY <1>5 DEF FailSessions
  <2>2. /\ events' = events /\ retained' = retained /\ open' = open /\ present' = present
        /\ task' = task /\ expired' = expired /\ attached' = attached
    BY <2>1 DEF server
  <2>3. ServerInv'
    BY <2>2, ServerStays DEF EventInv, ServerInv, ServerTypes
  <2>4. rec'.pc = "none" /\ rec'.ans = <<>>
    BY <2>1 DEF NoRecovery
  <2>5. PICK x : x = FailedAndRemoved(sess)
    OBVIOUS
  <2>6. SessionTells(x) /\ HoldsFew(x) /\ Grows(sess, x)
    BY <2>5, FailedFacts DEF EventInv, ServerInv, ServerTypes, SessionInv
  <2>7. SessionInv' /\ EventsGrow
    <3>1. CASE sess' = x
      BY <2>2, <2>6, <3>1, SessionMoves
    <3>2. CASE sess' = sess
      BY <2>2, <3>2, SessionStays
    <3> QED BY <2>1, <2>5, <3>1, <3>2
  <2>8. AnswersAwaited' /\ AnswersTruthful'
    BY <2>4 DEF AnswersAwaited, AnswersTruthful, CandidatePcs
  <2>9. MessagesTyped'
    <3> SUFFICES ASSUME NEW d \in Conns PROVE Typed(conn[d])'
      BY DEF MessagesTyped, Conns
    <3>1. PICK con : con = conn[d]
      OBVIOUS
    <3>2. Typed(con)'
      BY <2>7, <3>1, TypedStays DEF EventInv, MessagesTyped
    <3> QED BY <2>1, <3>1, <3>2 DEF Typed
  <2> QED BY <2>3, <2>7, <2>8, <2>9 DEF EventInv
<1> QED BY <1>1, <1>2, <1>3, <1>4, <1>5

-----------------------------------------------------------------------------
(* The theorems.                                                           *)

LEMMA InitEvents == Init => EventInv
<1> SUFFICES ASSUME Init PROVE EventInv
  OBVIOUS
<1>1. /\ events = <<>> /\ retained = {} /\ open = Cardinality(Streams) /\ present = TRUE
      /\ task = [t \in Tasks |-> [pc |-> "run", seq |-> 0]] /\ attached = 1 /\ expired = FALSE
      /\ conn = [c \in Conns |-> IF c = 1 THEN Fresh ELSE Unused] /\ rec = NoRecovery
      /\ sess = [pub |-> <<>>, pend |-> <<>>, failed |-> FALSE, routed |-> TRUE]
  BY DEF Init
<1>2. DOMAIN events = {} /\ Len(events) = 0 /\ events \in Seq(Kinds) /\ Outputs = {}
  BY <1>1 DEF Outputs
<1>3. \A t \in Streams : Writing(t)
  BY <1>1 DEF Writing, Tasks
<1>4. Cardinality(Streams) \in Nat
  BY FS_CardinalityType, ExecAssumption
<1>5. ServerTypes
  <2>1. task \in [Tasks -> [pc: {"run", "send", "emit", "last", "done"}, seq: Nat]]
    BY <1>1
  <2>2. retained \subseteq Outputs /\ open \in 0 .. Cardinality(Streams)
        /\ attached \in Conns \cup {NoConn}
    BY <1>1, <1>4, ConnFacts
  <2>3. present \in BOOLEAN /\ expired \in BOOLEAN
    BY <1>1
  <2> QED BY <1>2, <2>1, <2>2, <2>3 DEF ServerTypes
<1>6. EventsOrdered /\ TasksNumbered
  BY <1>1, <1>2 DEF EventsOrdered, TasksNumbered
<1>7. StreamsCounted
  <2>1. {t \in Streams : Writing(t)} = Streams
    BY <1>3
  <2> QED BY <1>1, <2>1 DEF StreamsCounted
<1>8. OutputKept
  BY <1>1, <1>2, FS_EmptySet, ExecAssumption DEF OutputKept
<1>9. sess.pub = <<>> /\ sess.pend = <<>> /\ Len(sess.pub) = 0 /\ Pending(sess) = {}
  BY <1>1 DEF Pending
<1>10. SessionInv
  <2>1. SessionTells(sess)
    <3>1. sess.failed \in BOOLEAN /\ sess.routed \in BOOLEAN
      BY <1>1
    <3>2. DOMAIN sess = {"pub", "pend", "failed", "routed"}
      BY <1>1
    <3>3. sess.pub \in Seq(Kinds) /\ 1 .. Len(sess.pub) = {}
      BY <1>9
    <3>4. Len(sess.pub) <= Len(events) /\ Pending(sess) \subseteq Len(sess.pub) + 1 .. Len(events)
      BY <1>2, <1>9
    <3> QED BY <1>9, <3>1, <3>2, <3>3, <3>4 DEF SessionTells, SessionShaped
  <2>2. HoldsFew(sess)
    BY <1>9, FS_EmptySet, ExecAssumption DEF HoldsFew
  <2> QED BY <2>1, <2>2 DEF SessionInv
<1>11. MessagesTyped
  <2> SUFFICES ASSUME NEW c \in Conns PROVE Typed(conn[c])
    BY DEF MessagesTyped
  <2>1. PICK con : con = conn[c]
    OBVIOUS
  <2>2. con = Fresh \/ con = Unused
    BY <1>1, <2>1
  <2>3. /\ con.st \in {"unused", "up"} /\ con.wire = <<>> /\ con.inbox = <<>> /\ con.req = "none"
        /\ con.after = 0
    <3>1. /\ Fresh.st = "up" /\ Fresh.wire = <<>> /\ Fresh.inbox = <<>> /\ Fresh.req = "none"
          /\ Fresh.after = 0
      BY DEF Fresh, Unused
    <3>2. /\ Unused.st = "unused" /\ Unused.wire = <<>> /\ Unused.inbox = <<>>
          /\ Unused.req = "none" /\ Unused.after = 0
      BY DEF Unused
    <3> QED BY <2>2, <3>1, <3>2
  <2>4. con.wire \in Seq(Messages) /\ con.inbox \in Seq(DOMAIN events) /\ DOMAIN con.wire = {}
    BY <2>3
  <2>5. /\ con.st \in {"unused", "up", "cut"} /\ con.after \in 0 .. Len(sess.pub)
        /\ con.req \in {"none", "initialize", "read", "terminate"}
    BY <1>9, <2>3
  <2>6. con.served \in BOOLEAN
    <3>1. Fresh.served \in BOOLEAN /\ Unused.served \in BOOLEAN
      BY DEF Fresh, Unused
    <3> QED BY <2>2, <3>1
  <2>7. Typed(con)
    BY <2>4, <2>5, <2>6 DEF Typed
  <2> QED BY <2>1, <2>7
<1>12. AnswersAwaited /\ AnswersTruthful
  <2>1. rec.pc = "none" /\ rec.ans = <<>>
    BY <1>1 DEF NoRecovery
  <2> QED BY <2>1 DEF AnswersAwaited, AnswersTruthful, CandidatePcs
<1> QED BY <1>5, <1>6, <1>7, <1>8, <1>10, <1>11, <1>12 DEF EventInv, ServerInv

\* From the server's lock to the consumer: numbers are given once, messages name existing
\* events, answers reach the recovery that asked, and a session tells what it was told.
THEOREM EventsInductive == Spec => []EventInv
<1>1. IInv /\ EventInv /\ [Next]_vars => EventInv'
  <2>1. ASSUME IInv, EventInv, Next PROVE EventInv'
    BY <2>1, OutputStep, EndOfStreamStep, ExitStep, EmitClosedStep, VanishStep, NotifyStep,
       ServeStep, BreakStep, ArriveStep, NotificationStep, DisconnectEvents, DialEvents,
       InitializedEvents, MergeEvents, TerminateEvents, EndEvents DEF Next, Machinery
  <2>2. ASSUME IInv, EventInv, UNCHANGED vars PROVE EventInv'
    <3>1. /\ events' = events /\ retained' = retained /\ open' = open /\ present' = present
          /\ task' = task /\ expired' = expired /\ attached' = attached
          /\ conn' = conn /\ rec' = rec /\ sess' = sess
      BY <2>2 DEF vars, server, client
    <3>2. ServerInv'
      BY <2>2, <3>1, ServerStays DEF EventInv, ServerInv, ServerTypes
    <3>3. EventsGrow
      BY <2>2, <3>1, SessionStays
    <3> QED BY <2>2, <3>1, <3>2, <3>3, EventsOnly DEF EventInv
  <2> QED BY <2>1, <2>2
<1> QED BY <1>1, InitEvents, InductiveInvariant, PTL DEF Spec

\* Every variable keeps its type; in particular the reorder buffer never holds back more
\* than MAX_PENDING_PROCESS_EVENTS, whatever arrives, is read back or is refused.
THEOREM TypesKept == Spec => []TypeOK
<1>1. IInv /\ EventInv => TypeOK
  <2> SUFFICES ASSUME IInv, EventInv PROVE TypeOK
    OBVIOUS
  <2>1. /\ events \in Seq(Kinds) /\ retained \subseteq DOMAIN events
        /\ open \in 0..Cardinality(Streams) /\ present \in BOOLEAN /\ expired \in BOOLEAN
        /\ task \in [Tasks -> [pc: {"run", "send", "emit", "last", "done"}, seq: Nat]]
        /\ attached \in Conns \cup {NoConn}
    BY DEF EventInv, ServerInv, ServerTypes, Outputs
  <2>2. \A c \in Conns :
           /\ conn[c].st \in {"unused", "up", "cut"}
           /\ conn[c].inbox \in Seq(DOMAIN events)
           /\ conn[c].req \in {"none", "initialize", "read", "terminate"}
           /\ conn[c].closed \in BOOLEAN /\ conn[c].reader \in BOOLEAN /\ conn[c].served \in BOOLEAN
    BY DEF EventInv, MessagesTyped, Typed, IInv, ConnsShaped
  <2>3. /\ status \in {"connected", "recovering", "failed"} /\ current \in Conns \cup {NoConn}
        /\ rec.pc \in {"none", "dial", "initialize", "read", "doomed", "terminate", "install", "failing"}
    BY DEF IInv, StatusAgrees, RecoveryShaped, CandidatePcs
  <2>4. sess.pub \in Seq(Kinds) /\ Cardinality(Pending(sess)) <= MaxPending
    BY DEF EventInv, SessionInv, SessionTells, SessionShaped, HoldsFew
  <2> QED BY <2>1, <2>2, <2>3, <2>4 DEF TypeOK
<1> QED BY <1>1, EventsInductive, InductiveInvariant, PTL

\* While every chunk is retained, what is published is the beginning of the events.
LEMMA PublishedPrefix ==
    ASSUME AllRetained, EventInv
    PROVE  /\ events \in Seq(Kinds) /\ sess.pub \in Seq(Kinds)
           /\ Len(events) \in Nat /\ Len(sess.pub) \in Nat /\ Len(sess.pub) <= Len(events)
           /\ DOMAIN events = 1 .. Len(events)
           /\ \A n \in 1 .. Len(sess.pub) : sess.pub[n] = events[n]
<1>1. events \in Seq(Kinds) /\ Len(events) \in Nat /\ DOMAIN events = 1 .. Len(events)
  BY DEF EventInv, ServerInv, ServerTypes
<1>2. sess.pub \in Seq(Kinds) /\ Len(sess.pub) \in Nat /\ Len(sess.pub) <= Len(events)
  BY <1>1 DEF EventInv, SessionInv, SessionTells, SessionShaped
<1>3. \A n \in 1 .. Len(sess.pub) : sess.pub[n] = events[n]
  BY DEF EventInv, SessionInv, SessionTells, Tells
<1> QED BY <1>1, <1>2, <1>3

\* A consumer sees the events of the process in their order, none twice and none invented,
\* across lost and late notifications and any number of reconnects, as long as process/read
\* can still return every chunk (RETAINED_OUTPUT_CHUNKS_PER_PROCESS is not exceeded).
THEOREM InOrder == AllRetained => (Spec => []PublishedInOrder)
<1>1. ASSUME AllRetained PROVE EventInv => PublishedInOrder
  <2> SUFFICES ASSUME EventInv PROVE PublishedInOrder
    OBVIOUS
  <2>1. /\ events \in Seq(Kinds) /\ sess.pub \in Seq(Kinds)
        /\ Len(events) \in Nat /\ Len(sess.pub) \in Nat /\ Len(sess.pub) <= Len(events)
        /\ \A n \in 1 .. Len(sess.pub) : sess.pub[n] = events[n]
    BY <1>1, PublishedPrefix
  <2>2. PICK k, p, e : k = Len(sess.pub) /\ p = sess.pub /\ e = events
    OBVIOUS
  <2>3. /\ p \in Seq(Kinds) /\ e \in Seq(Kinds) /\ k \in Nat /\ k = Len(p) /\ k <= Len(e)
        /\ \A n \in 1 .. k : p[n] = e[n]
    BY <2>1, <2>2
  <2>4. SubSeq(p, 1, k) = SubSeq(e, 1, k)
    <3>1. /\ SubSeq(p, 1, k) \in Seq(Kinds) /\ Len(SubSeq(p, 1, k)) = k
          /\ \A n \in 1 .. k : SubSeq(p, 1, k)[n] = p[n]
      BY <2>3
    <3>2. /\ SubSeq(e, 1, k) \in Seq(Kinds) /\ Len(SubSeq(e, 1, k)) = k
          /\ \A n \in 1 .. k : SubSeq(e, 1, k)[n] = e[n]
      BY <2>3
    <3>3. PICK a, b : a = SubSeq(p, 1, k) /\ b = SubSeq(e, 1, k)
      OBVIOUS
    <3>4. a = b
      BY <2>3, <3>1, <3>2, <3>3, SeqEqual
    <3> QED BY <3>3, <3>4
  <2> QED BY <2>2, <2>3, <2>4 DEF PublishedInOrder, IsPrefix
<1>2. ASSUME AllRetained PROVE Spec => []PublishedInOrder
  BY <1>1, <1>2, EventsInductive, PTL
<1> QED BY <1>2

\* A stream that ends with Closed is complete: the closing event has the last number, and
\* what is published is the beginning of the events.
THEOREM Complete == AllRetained => (Spec => []NoSilentLoss)
<1>1. ASSUME AllRetained PROVE EventInv => NoSilentLoss
  <2> SUFFICES ASSUME EventInv, Published(sess, "closed") PROVE sess.pub = events
    BY DEF NoSilentLoss
  <2>1. /\ events \in Seq(Kinds) /\ sess.pub \in Seq(Kinds)
        /\ Len(events) \in Nat /\ Len(sess.pub) \in Nat /\ Len(sess.pub) <= Len(events)
        /\ DOMAIN events = 1 .. Len(events)
        /\ \A n \in 1 .. Len(sess.pub) : sess.pub[n] = events[n]
    BY <1>1, PublishedPrefix
  <2>2. PICK n \in 1 .. Len(sess.pub) : sess.pub[n] = "closed"
    BY <2>1 DEF Published, Range
  <2>3. n \in DOMAIN events /\ events[n] = "closed"
    BY <2>1, <2>2
  <2>4. n = Len(events)
    BY <2>3 DEF EventInv, ServerInv, EventsOrdered
  <2>5. Len(sess.pub) = Len(events)
    BY <2>1, <2>2, <2>4
  <2> QED BY <2>1, <2>5, SeqEqual
<1>2. ASSUME AllRetained PROVE Spec => []NoSilentLoss
  BY <1>1, <1>2, EventsInductive, PTL
<1> QED BY <1>2

\* Without that condition a consumer is misled in one way only: a chunk that is no longer
\* retained may be published as the exit.  No number is skipped and nothing else is invented.
OnlyChunksMistaken ==
    \A n \in DOMAIN sess.pub :
        /\ n \in DOMAIN events
        /\ sess.pub[n] = events[n] \/ (sess.pub[n] = "exit" /\ events[n] = "out")

\* Whatever was dropped before it was read back, only a dropped chunk is ever mistaken.
THEOREM MistakesBounded == Spec => []OnlyChunksMistaken
<1>1. EventInv => OnlyChunksMistaken
  <2> SUFFICES ASSUME EventInv, NEW n \in DOMAIN sess.pub
               PROVE  /\ n \in DOMAIN events
                      /\ sess.pub[n] = events[n] \/ (sess.pub[n] = "exit" /\ events[n] = "out")
    BY DEF OnlyChunksMistaken
  <2>1. /\ events \in Seq(Kinds) /\ sess.pub \in Seq(Kinds) /\ Len(sess.pub) <= Len(events)
    BY DEF EventInv, ServerInv, ServerTypes, SessionInv, SessionTells, SessionShaped
  <2>2. n \in 1 .. Len(sess.pub) /\ n \in DOMAIN events
    BY <2>1
  <2> QED BY <2>2 DEF EventInv, SessionInv, SessionTells, Tells
<1> QED BY <1>1, EventsInductive, PTL

\* What a consumer has been shown is never taken back, by a merge or by a failure.
NothingRetracted == [][Grows(sess, sess')]_vars

\* publish_ready, recover_events and set_failure keep what has been published.
THEOREM PublishedStays == Spec => NothingRetracted
<1>1. ASSUME IInv, EventInv, [Next]_vars PROVE [Grows(sess, sess')]_vars
  <2>0. /\ events \in Seq(Kinds) /\ EventsOrdered /\ SessionTells(sess) /\ HoldsFew(sess)
        /\ Len(sess.pub) \in Nat
    BY <1>1, TellsBuffer DEF EventInv, ServerInv, ServerTypes, SessionInv
  <2>1. ASSUME sess' = sess PROVE Grows(sess, sess')
    BY <2>0, <2>1 DEF Grows
  <2>2. ASSUME NEW c \in Conns, HandleNotification(c) PROVE Grows(sess, sess')
    <3>1. PICK D, q : D = DOMAIN events /\ q = conn[c].inbox
      OBVIOUS
    <3>2. q \in Seq(D) /\ q # <<>>
      BY <1>1, <2>2, <3>1 DEF EventInv, MessagesTyped, Typed, HandleNotification
    <3>3. Head(q) \in D
      BY <3>2
    <3>4. sess' = OnNotification(sess, Head(q))
      BY <2>2, <3>1 DEF HandleNotification
    <3> QED BY <2>0, <3>1, <3>3, <3>4, NotificationFacts
  <2>3. ASSUME MergeRead PROVE Grows(sess, sess')
    <3>1. PICK r : r = rec.ans[1]
      OBVIOUS
    <3>2. Truthful(r)
      BY <1>1, <2>3, <3>1 DEF EventInv, AnswersTruthful, MergeRead
    <3>3. PICK result \in Recovered(sess, r) :
              sess' = IF result.err THEN result.s ELSE Settled(result.s)
      BY <2>3, <3>1 DEF MergeRead
    <3>4. PICK s : s = result.s
      OBVIOUS
    <3>5. SessionTells(s) /\ HoldsFew(s) /\ Grows(sess, s)
      BY <2>0, <3>2, <3>4, RecoveredFacts
    <3>6. SessionTells(Settled(s)) /\ Grows(s, Settled(s))
      BY <2>0, <3>5, SettledFacts
    <3>7. Len(s.pub) \in Nat /\ Len(Settled(s).pub) \in Nat
      BY <2>0, <3>5, <3>6, TellsBuffer
    <3>8. Grows(sess, Settled(s))
      BY <2>0, <3>5, <3>6, <3>7 DEF Grows
    <3> QED BY <3>3, <3>4, <3>5, <3>8
  <2>4. ASSUME Terminated \/ FailSessions PROVE Grows(sess, sess')
    <3>1. sess' = FailedAndRemoved(sess) \/ sess' = sess
      BY <2>4 DEF Terminated, FailSessions
    <3>2. Grows(sess, FailedAndRemoved(sess))
      BY <2>0, FailedFacts
    <3> QED BY <2>1, <3>1, <3>2
  <2>5. CASE UNCHANGED vars
    BY <2>5
  <2>6. CASE /\ Next /\ ~(\E c \in Conns : HandleNotification(c)) /\ ~MergeRead
             /\ ~Terminated /\ ~FailSessions
    <3>1. sess' = sess
      BY <2>6 DEF Next, Machinery, Notify, EmitClosed, ServeInitialize, ServeRead, ServeTerminate,
         ServerDisconnect, Arrive, SeeClosed, HandleDisconnect, Dial, Initialized, Call, Retry,
         Fail, TerminateDoomed, CallClosed, Install, InitializeTimeout, RecoveryTimeout,
         Output, EndOfStream, Exit, ForgetProcess, Expire, Cut, client
    <3> QED BY <2>1, <3>1
  <2> QED BY <1>1, <2>2, <2>3, <2>4, <2>5, <2>6
<1> QED BY <1>1, EventsInductive, InductiveInvariant, PTL DEF Spec, NothingRetracted
=============================================================================
