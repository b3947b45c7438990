----------------------- MODULE RolloutRecorderProofs -----------------------
(***************************************************************************)
(* The recorder's guarantees for every number of callers, items, faults    *)
(* and restarts, every channel capacity and every range of ordinals, and   *)
(* the proof that it implements DurableLog.                                *)
(***************************************************************************)
EXTENDS RolloutRecorder, SequenceTheorems, WellFoundedInduction, TLAPS

-----------------------------------------------------------------------------
(* The inductive invariant.                                                *)

\* The counters delimit written, buffered and queued items.
CountersOrdered == base <= written /\ written <= taken /\ taken <= sent

\* Queued commands carry the counters at which they were queued, in order.
QueueOrdered ==
    /\ ~Live => cmds = <<>>
    /\ \A i \in DOMAIN cmds : taken <= cmds[i].upto /\ cmds[i].upto <= sent
    /\ \A i, j \in DOMAIN cmds : i <= j => cmds[i].upto <= cmds[j].upto

\* The writer never appends to a line that another write has left unfinished, and
\* writes items only after the metadata.
WriterReady ==
    /\ task.pc \in {"meta", "items"} => state.open
    /\ task.pc = "items" => ~state.meta
    /\ Live /\ state.open => ~Unterminated(file)
    /\ Live /\ ~state.meta => HasMeta(file)

\* What has left the buffer is in the file.
WrittenDurable == base + 1 .. written \subseteq Durable(file)

IsItem(f, i) == Parses(f[i]) /\ f[i].rec = "item"

\* Nothing is in the file before it was handed over, and nothing but the next item
\* of a live writer, whose write may have failed at the newline, before it was written.
IdsBounded ==
    \A i \in DOMAIN file :
        IsItem(file, i) => file[i].id <= sent /\ (Live => file[i].id <= written + 1)

\* The next record of the writer: its metadata, or else the next item.
IsNextRecord(line) ==
    IF state.meta THEN line.rec = "meta" /\ line.id = 0
                  ELSE line.rec = "item" /\ line.id = written + 1

\* Every ordinal in the file is below the next one, or belongs to a failed attempt at
\* the record that will be written next.
OrdinalsBounded ==
    mode = "paginated" =>
        /\ Live => FirstOrdinal <= state.next
        /\ \A i \in DOMAIN file : Parses(file[i]) =>
               /\ file[i].ord \in FirstOrdinal .. MaxOrdinal
               /\ Live => file[i].ord <= state.next
               /\ Live /\ file[i].ord = state.next => IsNextRecord(file[i])

IInv ==
    /\ TypeOK /\ CountersOrdered /\ QueueOrdered /\ WriterReady
    /\ WrittenDurable /\ AckedDurable
    /\ IdsBounded /\ RecordsInOrder /\ MetaLeads
    /\ OrdinalsBounded /\ OrdinalsIdentify

-----------------------------------------------------------------------------
(* Files.                                                                  *)

\* g continues f: the lines of f are still there, and those that could be read still can.
Continues(f, g) ==
    /\ g \in Seq(Line)
    /\ Len(f) <= Len(g)
    /\ \A i \in 1 .. Len(f) :
           /\ Parses(g[i]) <=> Parses(f[i])
           /\ g[i].rec = f[i].rec /\ g[i].id = f[i].id /\ g[i].ord = f[i].ord

\* Repairing the tail keeps every line and leaves none unfinished.
LEMMA RepairFacts ==
    ASSUME NEW f \in Seq(Line)
    PROVE  /\ Continues(f, Terminated(f))
           /\ Len(Terminated(f)) = Len(f)
           /\ ~Unterminated(Terminated(f))
<1>1. CASE Unterminated(f)
  <2> DEFINE n == Len(f)
             e == WithState(f[n], IF f[n].st = "nonl" THEN "ok" ELSE "junk")
             g == [f EXCEPT ![n] = e]
  <2>1. n \in 1 .. Len(f) /\ f[n] \in Line
    BY <1>1, LenProperties, EmptySeq, ElementOfSeq DEF Unterminated
  <2>2. e \in Line /\ e.st \in {"ok", "junk"}
    BY <2>1 DEF Line, WithState
  <2>3. /\ Terminated(f) = g
    BY <1>1 DEF Terminated
  <2>4. /\ g \in Seq(Line) /\ Len(g) = n
        /\ \A j \in 1 .. n : g[j] = IF j = n THEN e ELSE f[j]
    BY <2>1, <2>2, ExceptSeq
  <2>5. /\ e.rec = f[n].rec /\ e.id = f[n].id /\ e.ord = f[n].ord
        /\ Parses(e) <=> Parses(f[n])
    <3>1. /\ e.rec = f[n].rec /\ e.id = f[n].id /\ e.ord = f[n].ord
          /\ e.st = IF f[n].st = "nonl" THEN "ok" ELSE "junk"
      BY DEF WithState
    <3>2. f[n].st \in {"nonl", "torn"}
      BY <1>1 DEF Unterminated
    <3> QED BY <3>1, <3>2 DEF Parses
  <2> HIDE DEF e, g
  <2>6. Continues(f, g)
    BY <2>1, <2>4, <2>5 DEF Continues, Parses
  <2>7. ~Unterminated(g)
    BY <2>1, <2>2, <2>4 DEF Unterminated
  <2> QED BY <2>3, <2>4, <2>6, <2>7
<1>2. CASE ~Unterminated(f)
  BY <1>2, LenProperties DEF Terminated, Continues
<1> QED BY <1>1, <1>2

\* A record appended to a repaired file becomes a line of its own.
LEMMA AppendFacts ==
    ASSUME NEW f \in Seq(Line), ~Unterminated(f),
           NEW rec \in [rec: {"meta", "item"}, id: Nat, ord: Int],
           NEW st \in {"ok", "nonl", "torn"}
    PROVE  LET g == AppendBytes(f, rec, st)
               n == Len(f) + 1
           IN  /\ Continues(f, g)
               /\ Len(g) = n
               /\ g[n].rec = rec.rec /\ g[n].id = rec.id /\ g[n].ord = rec.ord /\ g[n].st = st
               /\ st = "ok" => ~Unterminated(g)
<1> DEFINE e == WithState(rec, st)
           g == Append(f, e)
<1>1. e \in Line /\ e.rec = rec.rec /\ e.id = rec.id /\ e.ord = rec.ord /\ e.st = st
  BY DEF Line, WithState
<1>2. AppendBytes(f, rec, st) = g
  BY DEF AppendBytes
<1>3. /\ g \in Seq(Line) /\ Len(g) = Len(f) + 1 /\ g # <<>>
      /\ \A i \in 1 .. Len(f) : g[i] = f[i]
      /\ g[Len(f) + 1] = e
  BY <1>1, AppendProperties
<1>4. Len(f) \in Nat
  BY LenProperties
<1>5. Continues(f, g)
  BY <1>3, <1>4 DEF Continues
<1>6. st = "ok" => ~Unterminated(g)
  BY <1>1, <1>3 DEF Unterminated
<1> QED BY <1>1, <1>2, <1>3, <1>5, <1>6

\* What can be read back from a file that continues another.
LEMMA ContinueFacts ==
    ASSUME NEW f \in Seq(Line), NEW g, Continues(f, g)
    PROVE  /\ Durable(f) \subseteq Durable(g)
           /\ HasMeta(f) => HasMeta(g)
           /\ Len(g) = Len(f) => Durable(g) = Durable(f)
           /\ Len(g) = Len(f) + 1 =>
                 Durable(g) = Durable(f) \cup
                     IF IsItem(g, Len(g)) THEN {g[Len(g)].id} ELSE {}
<1>1. /\ DOMAIN f = 1 .. Len(f) /\ Len(f) \in Nat
      /\ DOMAIN g = 1 .. Len(g) /\ Len(g) \in Nat
  BY LenProperties DEF Continues
<1>2. Durable(f) \subseteq Durable(g)
  BY <1>1 DEF Durable, Continues
<1>3. HasMeta(f) => HasMeta(g)
  BY <1>1 DEF HasMeta, Continues
<1>4. ASSUME Len(g) = Len(f)
      PROVE  Durable(g) = Durable(f)
  BY <1>1, <1>4 DEF Durable, Continues
<1>5. ASSUME Len(g) = Len(f) + 1
      PROVE  Durable(g) = Durable(f) \cup IF IsItem(g, Len(g)) THEN {g[Len(g)].id} ELSE {}
  <2>1. 1 .. Len(g) = 1 .. Len(f) \cup {Len(g)}
    BY <1>1, <1>5
  <2> QED BY <1>1, <1>5, <2>1 DEF Durable, Continues, IsItem
<1> QED BY <1>2, <1>3, <1>4, <1>5
-----------------------------------------------------------------------------
(* Types.                                                                  *)

\* The records the recorder writes.
MetaRecord == [rec |-> "meta", id |-> 0, ord |-> Current]
ItemRecord == [rec |-> "item", id |-> written + 1, ord |-> Current]
UnloadedRecord == [rec |-> "item", id |-> sent + 1,
                   ord |-> IF mode = "legacy" THEN NoOrdinal ELSE OrdinalForResume(file)]

\* The metadata line and the next item are records.
LEMMA RecordTypes ==
    ASSUME TypeOK
    PROVE  /\ MetaRecord \in [rec: {"meta", "item"}, id: Nat, ord: Int]
           /\ ItemRecord \in [rec: {"meta", "item"}, id: Nat, ord: Int]
           /\ Advanced \in Int
BY DEF TypeOK, MetaRecord, ItemRecord, Current, Advanced, NoOrdinal, WriterStates

\* A file with a readable line has a last one.
LEMMA LastParsedFacts ==
    ASSUME NEW f \in Seq(Line), HasMeta(f)
    PROVE  /\ LastParsed(f) \in 1 .. Len(f)
           /\ Parses(f[LastParsed(f)])
           /\ \A j \in 1 .. Len(f) : Parses(f[j]) => j <= LastParsed(f)
<1> DEFINE n == Len(f)
           T == {k \in Nat : k <= n /\ n - k \in 1 .. n /\ Parses(f[n - k])}
<1>1. n \in Nat /\ DOMAIN f = 1 .. n
  BY LenProperties
<1>2. PICK i \in 1 .. n : Parses(f[i])
  BY <1>1 DEF HasMeta
<1>3. T # {} /\ T \subseteq Nat
  <2>1. n - i \in T
    BY <1>1, <1>2
  <2> QED BY <2>1
<1> DEFINE R == {ss \in Nat \X Nat : ss[1] < ss[2]}
<1>4. IsWellFoundedOn(R, Nat)
  BY NatLessThanWellFounded, Zenon DEF OpToRel
<1> HIDE DEF T, R
<1>5. PICK k \in T : \A l \in T : ~(<<l, k>> \in R)
  BY <1>3, <1>4, WFMin, Zenon
<1>6. ASSUME NEW l \in T
      PROVE  k <= l
  <2>1. l \in Nat /\ k \in Nat /\ <<l, k>> \notin R
    BY <1>3, <1>5
  <2>2. l < k => <<l, k>> \in R
    BY <2>1 DEF R
  <2> QED BY <2>1, <2>2
<1>7. k \in Nat /\ n - k \in 1 .. n /\ Parses(f[n - k])
  BY DEF T
<1>8. ASSUME NEW j \in 1 .. n, Parses(f[j])
      PROVE  j <= n - k
  <2>1. n - (n - j) = j /\ n - j \in Nat /\ n - j <= n
    BY <1>1, <1>8
  <2>2. n - j \in T
    BY <1>8, <2>1 DEF T
  <2> QED BY <1>1, <1>6, <1>7, <2>1, <2>2
<1>9. \E m \in DOMAIN f : Parses(f[m]) /\ \A j \in DOMAIN f : Parses(f[j]) => j <= m
  BY <1>1, <1>7, <1>8
<1> QED BY <1>1, <1>9 DEF LastParsed

-----------------------------------------------------------------------------
(* What a step does to the file.                                           *)

\* g is f with one more line.
Grown(f, g, rec, st) ==
    /\ Continues(f, g)
    /\ Len(g) = Len(f) + 1
    /\ LET line == g[Len(f) + 1]
       IN  line.rec = rec.rec /\ line.id = rec.id /\ line.ord = rec.ord /\ line.st = st

\* A failed write leaves the file as it was, or with an unfinished line.
FailedGrown(f, g, rec) ==
    \/ g = f
    \/ \E st \in {"torn", "nonl"} : Grown(f, g, rec, st)

\* A write to a repaired file adds the record, and a failed one at most a part of it.
LEMMA AppendGrows ==
    ASSUME NEW f \in Seq(Line), ~Unterminated(f),
           NEW rec \in [rec: {"meta", "item"}, id: Nat, ord: Int]
    PROVE  /\ Grown(f, AppendBytes(f, rec, "ok"), rec, "ok")
           /\ ~Unterminated(AppendBytes(f, rec, "ok"))
           /\ \A g \in FailedWrites(f, rec) : FailedGrown(f, g, rec)
<1>1. /\ Grown(f, AppendBytes(f, rec, "ok"), rec, "ok")
      /\ ~Unterminated(AppendBytes(f, rec, "ok"))
  BY AppendFacts DEF Grown
<1>2. \A st \in {"torn", "nonl"} : Grown(f, AppendBytes(f, rec, st), rec, st)
  BY AppendFacts DEF Grown
<1> QED BY <1>1, <1>2 DEF FailedWrites, FailedGrown

\* The outcomes of a step of the writer that writes a record: it is written, or not.
RecordWritten(rec) ==
    /\ OrdinalAvailable
    /\ Grown(file, file', rec, "ok") /\ ~Unterminated(file')
    /\ UNCHANGED <<task, call, faults>>

RecordFailed(rec) ==
    /\ AttemptFailed
    /\ written' = written
    /\ faults' \in Nat
    /\ file' = file \/ (OrdinalAvailable /\ FailedGrown(file, file', rec))

\* write_session_meta_if_needed skips, writes or fails to write the metadata.
LEMMA WriteMetaCases ==
    ASSUME TypeOK, WriterReady, WriteMeta
    PROVE  \/ /\ ~state.meta /\ task' = [task EXCEPT !.pc = "items"]
              /\ UNCHANGED <<file, written, state, call, faults>>
           \/ /\ state.meta /\ RecordWritten(MetaRecord) /\ written' = written
              /\ state' = [state EXCEPT !.meta = FALSE, !.next = Advanced]
           \/ state.meta /\ RecordFailed(MetaRecord)
<1>1. /\ file \in Seq(Line) /\ ~Unterminated(file) /\ faults \in Nat
  BY DEF WriteMeta, WriterReady, Live, TypeOK
<1>2. /\ Grown(file, AppendBytes(file, MetaRecord, "ok"), MetaRecord, "ok")
      /\ ~Unterminated(AppendBytes(file, MetaRecord, "ok"))
      /\ \A g \in FailedWrites(file, MetaRecord) : FailedGrown(file, g, MetaRecord)
  BY <1>1, AppendGrows, RecordTypes
<1>3. CASE ~state.meta
  BY <1>3 DEF WriteMeta
<1>4. CASE state.meta
  BY <1>1, <1>2, <1>4
     DEF WriteMeta, WriteRecord, MetaDone, Drained, IoError, RecordWritten, RecordFailed, MetaRecord
<1> QED BY <1>3, <1>4

\* write_pending_items_once writes or fails to write the next item.
LEMMA WriteItemCases ==
    ASSUME TypeOK, WriterReady, WriteItem
    PROVE  \/ /\ RecordWritten(ItemRecord) /\ written' = written + 1
              /\ state' = [state EXCEPT !.next = Advanced]
           \/ RecordFailed(ItemRecord)
<1>1. /\ file \in Seq(Line) /\ ~Unterminated(file) /\ faults \in Nat
  BY DEF WriteItem, WriterReady, Live, TypeOK
<1>2. /\ Grown(file, AppendBytes(file, ItemRecord, "ok"), ItemRecord, "ok")
      /\ ~Unterminated(AppendBytes(file, ItemRecord, "ok"))
      /\ \A g \in FailedWrites(file, ItemRecord) : FailedGrown(file, g, ItemRecord)
  BY <1>1, AppendGrows, RecordTypes
<1> QED BY <1>1, <1>2
    DEF WriteItem, WriteRecord, Drained, IoError, RecordWritten, RecordFailed, ItemRecord

\* An append to an unloaded thread repairs the file and adds at most its item.
LEMMA AppendUnloadedCases ==
    ASSUME TypeOK, AppendUnloaded
    PROVE  /\ HasMeta(file) /\ faults' \in Nat
           /\ \/ sent' = sent /\ file' = Terminated(file)
              \/ /\ sent' = sent + 1
                 /\ \/ file' = Terminated(file)
                    \/ /\ mode = "paginated" => OrdinalForResume(file) <= MaxOrdinal
                       /\ \E st \in {"ok", "torn", "nonl"} :
                             Grown(Terminated(file), file', UnloadedRecord, st)
<1> DEFINE f == Terminated(file)
<1>1. f \in Seq(Line) /\ ~Unterminated(f) /\ file \in Seq(Line) /\ HasMeta(file)
  BY RepairFacts DEF TypeOK, Continues, AppendUnloaded
<1>2. /\ UnloadedRecord \in [rec: {"meta", "item"}, id: Nat, ord: Int]
      /\ OrdinalForResume(file) \in Int
  <2>1. file[LastParsed(file)] \in Line
    BY <1>1, LastParsedFacts, ElementOfSeq
  <2>2. OrdinalForResume(file) \in Int
    BY <2>1 DEF Line, OrdinalForResume
  <2> QED BY <2>2 DEF UnloadedRecord, NoOrdinal, TypeOK
<1>3. /\ Grown(f, AppendBytes(f, UnloadedRecord, "ok"), UnloadedRecord, "ok")
      /\ \A g \in FailedWrites(f, UnloadedRecord) : FailedGrown(f, g, UnloadedRecord)
  BY <1>1, <1>2, AppendGrows
<1>4. CASE file' = f /\ UNCHANGED <<sent, faults>>
  BY <1>1, <1>4 DEF TypeOK
<1>5. CASE /\ mode = "paginated" => ~(OrdinalForResume(file) > MaxOrdinal)
           /\ file' = AppendBytes(f, UnloadedRecord, "ok")
           /\ sent' = sent + 1 /\ UNCHANGED faults
  BY <1>1, <1>2, <1>3, <1>5, RecorderAssumption DEF TypeOK
<1>6. CASE /\ mode = "paginated" => ~(OrdinalForResume(file) > MaxOrdinal)
           /\ IoError /\ file' \in FailedWrites(f, UnloadedRecord)
           /\ sent' = sent + 1
  <2>1. FailedGrown(f, file', UnloadedRecord)
    BY <1>3, <1>6
  <2> QED BY <1>1, <1>2, <1>6, <2>1, RecorderAssumption DEF TypeOK, FailedGrown, IoError
<1> QED BY <1>4, <1>5, <1>6 DEF AppendUnloaded, UnloadedRecord
-----------------------------------------------------------------------------
(* Types and control.                                                      *)

\* An answered barrier, or a repeated attempt, leaves a well-formed task and call.
LEMMA AnswerTypes ==
    ASSUME TypeOK, NEW cmd, cmd.op \in Barriers \cup {"add", "none"},
           cmd.by \in Callers \cup {NoCaller}, AnswerOk(cmd)
    PROVE  /\ promised' \in SUBSET Nat
           /\ task' \in TaskStates
           /\ call' \in [Callers -> Barriers \cup {"idle"}]
<1>1. promised' \in SUBSET Nat
  <2>1. Vouched \subseteq Nat
    BY DEF TypeOK, Vouched
  <2> QED BY <2>1 DEF TypeOK, AnswerOk
<1>2. task' \in TaskStates
  BY DEF AnswerOk, Idle, TaskStates
<1>3. call' \in [Callers -> Barriers \cup {"idle"}]
  BY DEF TypeOK, AnswerOk
<1> QED BY <1>1, <1>2, <1>3

\* A failed attempt leaves the task at its second attempt or back in the loop.
LEMMA FailedTypes ==
    ASSUME TypeOK, AttemptFailed
    PROVE  /\ state' \in WriterStates
           /\ task' \in TaskStates /\ task'.pc \in {"open", "recv"}
           /\ call' \in [Callers -> Barriers \cup {"idle"}]
<1>1. state' \in WriterStates
  BY DEF TypeOK, AttemptFailed, InRecovery, WriterStates
<1>2. task' \in TaskStates /\ task'.pc \in {"open", "recv"}
  <2> DEFINE again == [task EXCEPT !.pc = "open", !.attempt = 2]
  <2>1. task \in TaskStates
    BY DEF TypeOK
  <2>2. again \in TaskStates /\ again.pc = "open"
    BY <2>1 DEF TaskStates
  <2>3. Idle \in TaskStates /\ Idle.pc = "recv"
    BY DEF Idle, TaskStates
  <2> QED BY <2>2, <2>3 DEF AttemptFailed
<1>3. call' \in [Callers -> Barriers \cup {"idle"}]
  BY DEF TypeOK, AttemptFailed, TaskStates
<1> QED BY <1>1, <1>2, <1>3

\* Every handler keeps the types.
LEMMA TypeStep ==
    ASSUME TypeOK, WriterReady, [Next]_vars
    PROVE  TypeOK'
<1> USE DEF disk, counters
<1>1. ASSUME NEW n \in 1 .. 2, Send(n)
      PROVE  TypeOK'
  <2>1. [op |-> "add", upto |-> sent + n, by |-> NoCaller] \in Commands
    BY DEF Commands, TypeOK
  <2> QED BY <1>1, <2>1, AppendProperties DEF TypeOK, Send
<1>2. ASSUME NEW c \in Callers, NEW op \in Barriers, Barrier(c, op)
      PROVE  TypeOK'
  <2>1. [op |-> op, upto |-> sent, by |-> c] \in Commands
    BY DEF Commands, TypeOK
  <2> QED BY <1>2, <2>1, AppendProperties DEF TypeOK, Barrier
<1>3. CASE Discard
  BY <1>3 DEF TypeOK, Discard
<1>4. CASE Recv
  <2> DEFINE cmd == Head(cmds)
  <2>1. cmd \in Commands /\ Tail(cmds) \in Seq(Commands) /\ <<>> \in Seq(Commands)
    BY <1>4, HeadTailProperties, EmptySeq DEF Recv, TypeOK
  <2>2. [pc |-> "open", op |-> cmd.op, by |-> cmd.by, attempt |-> 1] \in TaskStates
    BY <2>1 DEF Commands, TaskStates
  <2>3. CASE /\ taken' = cmd.upto /\ cmds' = Tail(cmds)
             /\ task' = IF IsDeferred THEN task
                        ELSE [pc |-> "open", op |-> cmd.op, by |-> cmd.by, attempt |-> 1]
             /\ UNCHANGED <<call, promised>>
    BY <1>4, <2>1, <2>2, <2>3 DEF TypeOK, Recv, Commands
  <2>4. CASE /\ cmds' = Tail(cmds)
             /\ task' = [pc |-> "open", op |-> cmd.op, by |-> cmd.by, attempt |-> 1]
             /\ UNCHANGED <<taken, call, promised>>
    BY <1>4, <2>1, <2>2, <2>4 DEF TypeOK, Recv
  <2>5. CASE /\ cmd.op \in {"flush", "shutdown"}
             /\ cmd.op = "flush" => cmds' = Tail(cmds)
             /\ AnswerOk(cmd)
             /\ UNCHANGED taken
    <3>1. cmds' \in Seq(Commands)
      BY <2>1, <2>5 DEF AnswerOk
    <3> QED BY <1>4, <2>1, <2>5, <3>1, AnswerTypes DEF TypeOK, Recv, Commands
  <2> QED BY <1>4, <2>3, <2>4, <2>5 DEF Recv
<1>5. CASE ChannelClosed
  BY <1>5 DEF TypeOK, ChannelClosed, TaskStates
<1>6. CASE Open
  <2>1. CASE UNCHANGED <<disk, state, call, faults>> /\ task' = [task EXCEPT !.pc = "meta"]
    BY <1>6, <2>1 DEF TypeOK, Open, TaskStates
  <2>2. CASE /\ exists' = TRUE /\ file' = Terminated(file)
             /\ state' = [state EXCEPT !.open = TRUE, !.deferred = FALSE]
             /\ task' = [task EXCEPT !.pc = "meta"]
             /\ UNCHANGED <<call, faults>>
    <3>1. file' \in Seq(Line)
      BY <2>2, RepairFacts DEF TypeOK, Continues
    <3> QED BY <1>6, <2>2, <3>1 DEF TypeOK, Open, TaskStates, WriterStates
  <2>3. CASE IoError /\ exists' \in {exists, TRUE} /\ AttemptFailed /\ UNCHANGED file
    <3>1. exists' \in BOOLEAN
      BY <2>3, Zenon DEF TypeOK
    <3>2. faults' \in Nat
      BY <2>3 DEF TypeOK, IoError
    <3> QED BY <1>6, <2>3, <3>1, <3>2, FailedTypes DEF TypeOK, Open
  <2> QED BY <1>6, <2>1, <2>2, <2>3 DEF Open
<1>7. CASE WriteMeta
  <2>1. CASE RecordWritten(MetaRecord) /\ written' = written
             /\ state' = [state EXCEPT !.meta = FALSE, !.next = Advanced]
    <3>1. file' \in Seq(Line) /\ state' \in WriterStates
      BY <2>1, RecordTypes DEF TypeOK, RecordWritten, Grown, Continues, WriterStates
    <3> QED BY <1>7, <2>1, <3>1 DEF TypeOK, WriteMeta, RecordWritten
  <2>2. CASE RecordFailed(MetaRecord)
    <3>1. file' \in Seq(Line)
      BY <2>2 DEF TypeOK, RecordFailed, FailedGrown, Grown, Continues
    <3> QED BY <1>7, <2>2, <3>1, FailedTypes DEF TypeOK, WriteMeta, RecordFailed
  <2>3. CASE task' = [task EXCEPT !.pc = "items"] /\ UNCHANGED <<file, written, state, call, faults>>
    BY <1>7, <2>3 DEF TypeOK, WriteMeta, TaskStates
  <2> QED BY <1>7, <2>1, <2>2, <2>3, WriteMetaCases
<1>8. CASE WriteItem
  <2>1. CASE RecordWritten(ItemRecord) /\ written' = written + 1
             /\ state' = [state EXCEPT !.next = Advanced]
    <3>1. file' \in Seq(Line) /\ written' \in Nat
      BY <2>1 DEF TypeOK, RecordWritten, Grown, Continues
    <3>2. state' \in WriterStates
      BY <2>1, RecordTypes DEF TypeOK, WriterStates
    <3> QED BY <1>8, <2>1, <3>1, <3>2 DEF TypeOK, WriteItem, RecordWritten
  <2>2. CASE RecordFailed(ItemRecord)
    <3>1. file' \in Seq(Line)
      BY <2>2 DEF TypeOK, RecordFailed, FailedGrown, Grown, Continues
    <3> QED BY <1>8, <2>2, <3>1, FailedTypes DEF TypeOK, WriteItem, RecordFailed
  <2> QED BY <1>8, <2>1, <2>2, WriteItemCases
<1>9. CASE AllWritten
  <2>1. cmds' \in Seq(Commands)
    BY <1>9, EmptySeq DEF AllWritten, AnswerOk, TypeOK
  <2> QED BY <1>9, <2>1, AnswerTypes DEF TypeOK, AllWritten, TaskStates
<1>10. CASE Crash
  BY <1>10, EmptySeq DEF TypeOK, Crash, Idle, TaskStates, Barriers
<1>11. CASE Resume
  <2>1. file' \in Seq(Line)
    BY <1>11, RepairFacts DEF Resume, TypeOK, Continues
  <2>2. OrdinalForResume(file) \in Int
    <3>1. file[LastParsed(file)] \in Line
      BY <1>11, LastParsedFacts, ElementOfSeq DEF Resume, TypeOK
    <3> QED BY <3>1 DEF Line, OrdinalForResume
  <2>3. CASE StartsWithMeta(file)
    <3>1. [open |-> TRUE, deferred |-> FALSE, meta |-> FALSE, next |-> OrdinalForResume(file)]
              \in WriterStates
      BY <2>2 DEF WriterStates
    <3>2. Idle \in TaskStates
      BY DEF Idle, TaskStates
    <3>3. state' \in WriterStates /\ task' \in TaskStates /\ discarded' \in BOOLEAN
      BY <1>11, <2>3, <3>1, <3>2, Zenon DEF Resume
    <3>4. base' \in Nat /\ taken' \in Nat /\ written' \in Nat /\ restarts' \in Nat
      BY <1>11, <2>3 DEF Resume, TypeOK
    <3> QED BY <1>11, <2>1, <3>3, <3>4 DEF TypeOK, Resume
  <2>4. CASE ~StartsWithMeta(file)
    BY <1>11, <2>1, <2>4 DEF TypeOK, Resume
  <2> QED BY <2>3, <2>4
<1>12. CASE AppendUnloaded
  <2>1. file' \in Seq(Line) /\ faults' \in Nat /\ sent' \in Nat
    BY <1>12, AppendUnloadedCases, RepairFacts DEF TypeOK, Grown, Continues
  <2> QED BY <1>12, <2>1 DEF TypeOK, AppendUnloaded
<1>13. CASE UNCHANGED vars
  BY <1>13 DEF TypeOK, vars
<1> QED BY <1>1, <1>2, <1>3, <1>4, <1>5, <1>6, <1>7, <1>8, <1>9, <1>10, <1>11, <1>12, <1>13
    DEF Next, Writer
\* The counters stay in order, and the queue between taken and sent.
LEMMA CountersStep ==
    ASSUME TypeOK, WriterReady, CountersOrdered, QueueOrdered, [Next]_vars
    PROVE  CountersOrdered' /\ QueueOrdered'
<1> USE DEF disk, counters
<1>0. /\ sent \in Nat /\ taken \in Nat /\ written \in Nat /\ base \in Nat
      /\ cmds \in Seq(Commands) /\ DOMAIN cmds = 1 .. Len(cmds) /\ Len(cmds) \in Nat
      /\ \A i \in 1 .. Len(cmds) : cmds[i].upto \in Nat
  <2>1. /\ cmds \in Seq(Commands) /\ DOMAIN cmds = 1 .. Len(cmds) /\ Len(cmds) \in Nat
        /\ \A i \in 1 .. Len(cmds) : cmds[i] \in Commands
    BY LenProperties, ElementOfSeq DEF TypeOK
  <2> QED BY <2>1 DEF TypeOK, Commands
<1>1. ASSUME UNCHANGED <<cmds, sent, taken, base>>, written' \in written .. taken, Live' <=> Live
      PROVE  CountersOrdered' /\ QueueOrdered'
  BY <1>0, <1>1 DEF CountersOrdered, QueueOrdered
<1>2. ASSUME NEW cmd \in Commands, cmds' = Append(cmds, cmd), cmd.upto = sent',
             sent <= sent', sent' \in Nat, UNCHANGED <<taken, written, base>>, Live, Live'
      PROVE  CountersOrdered' /\ QueueOrdered'
  <2>1. /\ Len(cmds') = Len(cmds) + 1 /\ DOMAIN cmds' = 1 .. Len(cmds')
        /\ \A i \in 1 .. Len(cmds) : cmds'[i] = cmds[i]
        /\ cmds'[Len(cmds) + 1] = cmd
    BY <1>0, <1>2, AppendProperties, LenProperties
  <2> QED BY <1>0, <1>2, <2>1 DEF CountersOrdered, QueueOrdered
<1>3. ASSUME cmds' = <<>>, UNCHANGED <<taken, written, base, sent>>
      PROVE  CountersOrdered' /\ QueueOrdered'
  BY <1>0, <1>3 DEF CountersOrdered, QueueOrdered
<1>4. ASSUME cmds # <<>>, cmds' = Tail(cmds), taken' \in {taken, Head(cmds).upto},
             UNCHANGED <<written, base, sent>>, Live, Live'
      PROVE  CountersOrdered' /\ QueueOrdered'
  <2>1. /\ Len(cmds') = Len(cmds) - 1 /\ DOMAIN cmds' = 1 .. Len(cmds')
        /\ \A i \in 1 .. Len(cmds') : cmds'[i] = cmds[i + 1]
        /\ Head(cmds) = cmds[1] /\ Len(cmds) > 0
    BY <1>0, <1>4, HeadTailProperties, LenProperties, EmptySeq
  <2> QED BY <1>0, <1>4, <2>1 DEF CountersOrdered, QueueOrdered
<1>5. ASSUME NEW n \in 1 .. 2, Send(n)
      PROVE  CountersOrdered' /\ QueueOrdered'
  <2>1. [op |-> "add", upto |-> sent + n, by |-> NoCaller] \in Commands
    BY <1>0 DEF Commands
  <2> QED BY <1>0, <1>2, <1>5, <2>1 DEF Send, Live
<1>6. ASSUME NEW c \in Callers, NEW op \in Barriers, Barrier(c, op)
      PROVE  CountersOrdered' /\ QueueOrdered'
  <2>1. [op |-> op, upto |-> sent, by |-> c] \in Commands
    BY <1>0 DEF Commands
  <2> QED BY <1>0, <1>2, <1>6, <2>1 DEF Barrier, Live
<1>7. CASE Discard
  BY <1>0, <1>1, <1>7 DEF Discard, Live, CountersOrdered
<1>8. CASE Recv
  <2>1. Live /\ cmds # <<>> /\ UNCHANGED <<written, base, sent>>
    BY <1>8 DEF Recv, Live
  <2>2. CASE cmds' = Tail(cmds) /\ taken' \in {taken, Head(cmds).upto} /\ Live'
    BY <1>4, <2>1, <2>2
  <2>3. CASE cmds' = <<>> /\ taken' = taken
    BY <1>3, <2>1, <2>3
  <2> QED BY <1>8, <2>1, <2>2, <2>3 DEF Recv, AnswerOk, Live, Idle
<1>9. CASE ChannelClosed
  BY <1>3, <1>9 DEF ChannelClosed
<1>10. CASE Open
  <2>1. Live' <=> Live
    <3>1. CASE task' = [task EXCEPT !.pc = "meta"]
      BY <1>10, <3>1 DEF Open, Live, TypeOK, TaskStates
    <3>2. CASE AttemptFailed
      BY <1>10, <3>2, FailedTypes DEF Open, Live
    <3> QED BY <1>10, <3>1, <3>2 DEF Open
  <2> QED BY <1>0, <1>1, <1>10, <2>1 DEF Open, CountersOrdered
<1>11. CASE WriteMeta
  <2>1. written' = written /\ (Live' <=> Live)
    BY <1>11, WriteMetaCases, FailedTypes
       DEF RecordWritten, RecordFailed, Live, WriteMeta, TypeOK, TaskStates
  <2> QED BY <1>0, <1>1, <1>11, <2>1 DEF WriteMeta, CountersOrdered
<1>12. CASE WriteItem
  <2>1. written' \in {written, written + 1} /\ (Live' <=> Live)
    BY <1>12, WriteItemCases, FailedTypes
       DEF RecordWritten, RecordFailed, Live, WriteItem, TypeOK, TaskStates
  <2> QED BY <1>0, <1>1, <1>12, <2>1 DEF WriteItem, NothingPending, CountersOrdered
<1>13. CASE AllWritten
  <2>1. CASE task.op = "shutdown"
    BY <1>3, <1>13, <2>1 DEF AllWritten, AnswerOk
  <2>2. CASE task.op # "shutdown"
    BY <1>0, <1>1, <1>13, <2>2 DEF AllWritten, AnswerOk, Live, Idle, CountersOrdered
  <2> QED BY <2>1, <2>2
<1>14. CASE Crash
  BY <1>3, <1>14 DEF Crash
<1>15. CASE Resume
  BY <1>0, <1>15 DEF Resume, CountersOrdered, QueueOrdered, Live, Idle
<1>16. CASE AppendUnloaded
  <2>1. sent' \in {sent, sent + 1}
    BY <1>16, AppendUnloadedCases
  <2> QED BY <1>0, <1>16, <2>1 DEF AppendUnloaded, CountersOrdered, QueueOrdered, Live
<1>17. CASE UNCHANGED vars
  BY <1>17 DEF vars, CountersOrdered, QueueOrdered, Live
<1> QED BY <1>5, <1>6, <1>7, <1>8, <1>9, <1>10, <1>11, <1>12, <1>13, <1>14, <1>15, <1>16, <1>17
    DEF Next, Writer

\* A file with one more line: its readable lines are the old ones and, when the write
\* came to the end of the record, the new one.
LEMMA GrownFacts ==
    ASSUME NEW f \in Seq(Line), NEW g, NEW rec, NEW st, Grown(f, g, rec, st)
    PROVE  /\ g \in Seq(Line) /\ Continues(f, g)
           /\ DOMAIN f = 1 .. Len(f) /\ Len(f) \in Nat
           /\ DOMAIN g = 1 .. Len(f) + 1
           /\ HasMeta(f) => HasMeta(g)
           /\ st = "ok" /\ rec.rec = "meta" => HasMeta(g)
           /\ Durable(g) = Durable(f) \cup
                 IF st \in {"ok", "nonl"} /\ rec.rec = "item" THEN {rec.id} ELSE {}
<1>1. /\ g \in Seq(Line) /\ Continues(f, g)
      /\ DOMAIN f = 1 .. Len(f) /\ Len(f) \in Nat
      /\ DOMAIN g = 1 .. Len(f) + 1 /\ Len(g) = Len(f) + 1
  BY LenProperties DEF Grown, Continues
<1>2. /\ HasMeta(f) => HasMeta(g)
      /\ Durable(g) = Durable(f) \cup IF IsItem(g, Len(g)) THEN {g[Len(g)].id} ELSE {}
  BY <1>1, ContinueFacts
<1>3. st = "ok" /\ rec.rec = "meta" => HasMeta(g)
  BY <1>1 DEF Grown, HasMeta, Parses
<1>4. /\ IsItem(g, Len(g)) <=> st \in {"ok", "nonl"} /\ rec.rec = "item"
      /\ g[Len(g)].id = rec.id
  BY <1>1 DEF Grown, IsItem, Parses
<1> QED BY <1>1, <1>2, <1>3, <1>4

\* ensure_writer_open repairs the tail before anything is written, and a failed write gives
\* up the handle, so an open handle always stands behind a complete line.
LEMMA WriterReadyStep ==
    ASSUME TypeOK, WriterReady, [Next]_vars
    PROVE  WriterReady'
<1> USE DEF disk, counters
<1>0. file \in Seq(Line) /\ task \in TaskStates /\ state \in WriterStates
  BY DEF TypeOK
<1>1. ASSUME UNCHANGED <<file, state>>, task'.pc \in {task.pc, "recv", "open"}, Live
      PROVE  WriterReady'
  BY <1>1 DEF WriterReady, Live
<1>2. ASSUME ~Live'
      PROVE  WriterReady'
  BY <1>2 DEF WriterReady, Live
<1>3. ASSUME RecordFailed(MetaRecord) \/ RecordFailed(ItemRecord), Live
      PROVE  WriterReady'
  <2>1. task'.pc \in {"open", "recv"} /\ ~state'.open /\ state'.meta = state.meta
    BY <1>0, <1>3, FailedTypes DEF RecordFailed, AttemptFailed, InRecovery, WriterStates
  <2>2. HasMeta(file) => HasMeta(file)'
    BY <1>0, <1>3, GrownFacts DEF RecordFailed, FailedGrown
  <2> QED BY <1>3, <2>1, <2>2 DEF WriterReady
<1>4. CASE (\E n \in 1 .. 2 : Send(n)) \/ (\E c \in Callers, op \in Barriers : Barrier(c, op)) \/ Discard
  BY <1>1, <1>4 DEF Send, Barrier, Discard
<1>5. CASE Recv
  <2>1. UNCHANGED <<file, state>> /\ Live
    BY <1>5 DEF Recv, Live
  <2>2. CASE task'.pc = "ended"
    BY <1>2, <2>2 DEF Live
  <2>3. CASE task'.pc \in {task.pc, "recv", "open"}
    BY <1>1, <2>1, <2>3
  <2> QED BY <1>5, <2>2, <2>3 DEF Recv, AnswerOk, Idle
<1>6. CASE ChannelClosed
  BY <1>0, <1>2, <1>6 DEF ChannelClosed, Live, TaskStates
<1>7. CASE Open
  <2>1. Live
    BY <1>7 DEF Open, Live
  <2>2. CASE state.open /\ task' = [task EXCEPT !.pc = "meta"] /\ UNCHANGED <<file, state>>
    BY <1>0, <2>1, <2>2 DEF WriterReady, Live, TaskStates
  <2>3. CASE /\ file' = Terminated(file)
             /\ state' = [state EXCEPT !.open = TRUE, !.deferred = FALSE]
             /\ task' = [task EXCEPT !.pc = "meta"]
    <3>1. ~Unterminated(file') /\ (HasMeta(file) => HasMeta(file'))
      BY <1>0, <2>3, RepairFacts, ContinueFacts
    <3>2. task'.pc = "meta" /\ state'.open /\ state'.meta = state.meta
      BY <1>0, <2>3 DEF TaskStates, WriterStates
    <3> QED BY <2>1, <3>1, <3>2 DEF WriterReady
  <2>4. CASE AttemptFailed /\ UNCHANGED file
    <3>1. task'.pc \in {"open", "recv"} /\ ~state'.open /\ state'.meta = state.meta
      BY <1>0, <2>4, FailedTypes DEF AttemptFailed, InRecovery, WriterStates
    <3> QED BY <2>1, <2>4, <3>1 DEF WriterReady
  <2> QED BY <1>7, <2>2, <2>3, <2>4 DEF Open
<1>8. CASE WriteMeta
  <2>1. Live /\ state.open /\ task.pc = "meta"
    BY <1>8 DEF WriteMeta, Live, WriterReady
  <2>2. CASE ~state.meta /\ task' = [task EXCEPT !.pc = "items"] /\ UNCHANGED <<file, state>>
    BY <1>0, <2>1, <2>2 DEF WriterReady, TaskStates
  <2>3. CASE RecordWritten(MetaRecord) /\ state' = [state EXCEPT !.meta = FALSE, !.next = Advanced]
    <3>1. /\ HasMeta(file') /\ ~Unterminated(file') /\ task' = task
      BY <1>0, <2>3, GrownFacts DEF RecordWritten, MetaRecord
    <3>2. state'.open
      BY <1>0, <2>1, <2>3 DEF WriterStates
    <3> QED BY <2>1, <3>1, <3>2 DEF WriterReady
  <2> QED BY <1>3, <1>8, <2>1, <2>2, <2>3, WriteMetaCases
<1>9. CASE WriteItem
  <2>1. Live /\ state.open /\ task.pc = "items" /\ ~state.meta /\ HasMeta(file)
    BY <1>9 DEF WriteItem, Live, WriterReady
  <2>2. CASE RecordWritten(ItemRecord) /\ state' = [state EXCEPT !.next = Advanced]
    <3>1. /\ HasMeta(file') /\ ~Unterminated(file') /\ task' = task
      BY <1>0, <2>1, <2>2, GrownFacts DEF RecordWritten
    <3>2. state'.open /\ ~state'.meta
      BY <1>0, <2>1, <2>2 DEF WriterStates
    <3> QED BY <2>1, <3>1, <3>2 DEF WriterReady
  <2> QED BY <1>3, <1>9, <2>1, <2>2, WriteItemCases
<1>10. CASE AllWritten
  <2>1. UNCHANGED <<file, state>> /\ Live
    BY <1>10 DEF AllWritten, Live
  <2> QED BY <1>1, <1>2, <1>10, <2>1 DEF AllWritten, AnswerOk, Idle, Live
<1>11. CASE Crash
  BY <1>2, <1>11 DEF Crash, Idle, Live
<1>12. CASE Resume
  <2>1. CASE StartsWithMeta(file)
    <3>1. ~Unterminated(file') /\ HasMeta(file')
      BY <1>0, <1>12, RepairFacts, ContinueFacts DEF Resume
    <3> QED BY <1>12, <2>1, <3>1 DEF Resume, Idle, WriterReady
  <2>2. CASE ~StartsWithMeta(file)
    BY <1>2, <1>12, <2>2 DEF Resume, Live
  <2> QED BY <2>1, <2>2
<1>13. CASE AppendUnloaded
  BY <1>2, <1>13 DEF AppendUnloaded, Live
<1>14. CASE UNCHANGED vars
  BY <1>14 DEF vars, WriterReady, Live
<1> QED BY <1>4, <1>5, <1>6, <1>7, <1>8, <1>9, <1>10, <1>11, <1>12, <1>13, <1>14
    DEF Next, Writer
-----------------------------------------------------------------------------
(* Every step is one of five, as far as the file is concerned.             *)

\* No line is added.
FileKept ==
    /\ Continues(file, file') /\ Len(file') = Len(file)
    /\ sent <= sent' /\ UNCHANGED <<base, written>>
    /\ Live' => Live /\ state'.next = state.next /\ (state'.meta <=> state.meta)

\* A recorder takes the file over.
FileResumed ==
    /\ Continues(file, file') /\ Len(file') = Len(file)
    /\ ~Live /\ Live' /\ HasMeta(file)
    /\ sent' = sent /\ base' = sent /\ written' = sent
    /\ ~state'.meta /\ state'.next = OrdinalForResume(file)

\* The writer adds a line of its metadata, or of its next item, and goes on to the next
\* record only when the line is complete.
MetaAdded(st) ==
    /\ Live /\ Live' /\ state.meta /\ OrdinalAvailable
    /\ Grown(file, file', MetaRecord, st)
    /\ UNCHANGED <<sent, base, written>>
    /\ IF st = "ok" THEN ~state'.meta /\ state'.next = Advanced
                    ELSE state'.meta /\ state'.next = state.next

ItemAdded(st) ==
    /\ Live /\ Live' /\ ~state.meta /\ ~state'.meta /\ OrdinalAvailable
    /\ HasMeta(file) /\ written + 1 <= sent
    /\ Grown(file, file', ItemRecord, st)
    /\ UNCHANGED <<sent, base>>
    /\ IF st = "ok" THEN written' = written + 1 /\ state'.next = Advanced
                    ELSE written' = written /\ state'.next = state.next

\* Somebody else adds a line to the file of an unloaded thread.
UnloadedAdded(st) ==
    /\ ~Live /\ ~Live' /\ HasMeta(file)
    /\ mode = "paginated" => OrdinalForResume(file) <= MaxOrdinal
    /\ Grown(file, file', UnloadedRecord, st)
    /\ sent' = sent + 1 /\ UNCHANGED <<base, written>>

Written == {"ok", "torn", "nonl"}

\* What a step does to the file is one of these.
FileEffect ==
    \/ FileKept \/ FileResumed
    \/ \E st \in Written : MetaAdded(st) \/ ItemAdded(st) \/ UnloadedAdded(st)

\* A failed write keeps the file or adds an unfinished line, and the record stays the
\* writer's next one.
LEMMA FailureEffect ==
    ASSUME TypeOK, Live, NEW rec, RecordFailed(rec), UNCHANGED <<sent, base>>
    PROVE  \/ FileKept
           \/ /\ OrdinalAvailable /\ Live' /\ written' = written
              /\ state'.next = state.next /\ (state'.meta <=> state.meta)
              /\ \E st \in {"torn", "nonl"} : Grown(file, file', rec, st)
<1>1. file \in Seq(Line) /\ state \in WriterStates /\ sent \in Nat
  BY DEF TypeOK
<1>2. Live' /\ state'.next = state.next /\ (state'.meta <=> state.meta)
  BY <1>1, FailedTypes DEF RecordFailed, AttemptFailed, InRecovery, WriterStates, Live
<1>3. file' = file => Continues(file, file') /\ Len(file') = Len(file)
  BY <1>1, LenProperties DEF Continues
<1> QED BY <1>1, <1>2, <1>3 DEF RecordFailed, FailedGrown, FileKept

\* The history mode of a thread is fixed when it is created.
LEMMA ModeFixed ==
    ASSUME [Next]_vars
    PROVE  mode' = mode
BY DEF Next, Writer, Send, Barrier, Discard, Recv, ChannelClosed, AllWritten, Crash, Open,
       WriteMeta, WriteItem, Resume, AppendUnloaded, vars

\* Every handler of the recorder has one of the five effects on the file.
LEMMA Effects ==
    ASSUME TypeOK, WriterReady, CountersOrdered, QueueOrdered, [Next]_vars
    PROVE  FileEffect
<1> USE DEF disk, counters
<1>0. /\ file \in Seq(Line) /\ task \in TaskStates /\ state \in WriterStates
      /\ sent \in Nat /\ taken \in Nat /\ written \in Nat
      /\ Continues(file, file)
  BY LenProperties DEF TypeOK, Continues
<1>1. ASSUME UNCHANGED <<file, state, base, written>>, sent <= sent', Live' => Live
      PROVE  FileEffect
  BY <1>0, <1>1 DEF FileKept, FileEffect
<1>2. CASE \E n \in 1 .. 2 : Send(n)
  <2>1. PICK n \in 1 .. 2 : Send(n)
    BY <1>2
  <2> QED BY <1>0, <1>1, <2>1 DEF Send, Live
<1>3. CASE \/ \E c \in Callers, op \in Barriers : Barrier(c, op)
           \/ Discard
  <2>1. UNCHANGED <<file, state, base, written, sent, task>>
    BY <1>3 DEF Barrier, Discard
  <2> QED BY <1>0, <1>1, <2>1 DEF Live
<1>4. CASE Recv \/ ChannelClosed \/ AllWritten \/ Crash
  <2>1. UNCHANGED <<file, state, base, written, sent>> /\ Live
    BY <1>4 DEF Recv, ChannelClosed, AllWritten, Crash, Live
  <2> QED BY <1>0, <1>1, <2>1
<1>5. CASE Open
  <2>1. Live /\ UNCHANGED <<sent, base, written>>
    BY <1>5 DEF Open, Live
  <2>2. Continues(file, file') /\ Len(file') = Len(file)
    BY <1>0, <1>5, RepairFacts DEF Open
  <2>3. state'.next = state.next /\ (state'.meta <=> state.meta)
    BY <1>0, <1>5 DEF Open, AttemptFailed, InRecovery, WriterStates
  <2> QED BY <1>0, <2>1, <2>2, <2>3 DEF FileKept, FileEffect
<1>6. CASE WriteMeta
  <2>1. Live /\ UNCHANGED <<sent, base>>
    BY <1>6 DEF WriteMeta, Live
  <2>2. CASE UNCHANGED <<file, written, state>>
    BY <1>0, <1>1, <2>1, <2>2
  <2>3. CASE /\ state.meta /\ RecordWritten(MetaRecord) /\ written' = written
             /\ state' = [state EXCEPT !.meta = FALSE, !.next = Advanced]
    <3>1. ~state'.meta /\ state'.next = Advanced
      BY <1>0, <2>3 DEF WriterStates
    <3>2. MetaAdded("ok")
      BY <2>1, <2>3, <3>1 DEF RecordWritten, MetaAdded, Live
    <3> QED BY <3>2 DEF FileEffect, Written
  <2>4. CASE state.meta /\ RecordFailed(MetaRecord)
    <3>1. ASSUME OrdinalAvailable, Live', written' = written,
                 state'.next = state.next, state'.meta <=> state.meta,
                 NEW st \in {"torn", "nonl"}, Grown(file, file', MetaRecord, st)
          PROVE  FileEffect
      <4>1. MetaAdded(st)
        BY <2>1, <2>4, <3>1 DEF MetaAdded
      <4> QED BY <4>1 DEF FileEffect, Written
    <3>2. CASE FileKept
      BY <3>2 DEF FileEffect
    <3> QED BY <2>1, <2>4, <3>1, <3>2, FailureEffect
  <2> QED BY <1>6, <2>2, <2>3, <2>4, WriteMetaCases
<1>7. CASE WriteItem
  <2>1. /\ Live /\ UNCHANGED <<sent, base>> /\ ~state.meta /\ HasMeta(file)
        /\ written + 1 <= sent
    BY <1>0, <1>7 DEF WriteItem, Live, WriterReady, CountersOrdered, NothingPending
  <2>2. CASE /\ RecordWritten(ItemRecord) /\ written' = written + 1
             /\ state' = [state EXCEPT !.next = Advanced]
    <3>1. ~state'.meta /\ state'.next = Advanced
      BY <1>0, <2>1, <2>2 DEF WriterStates
    <3>2. ItemAdded("ok")
      BY <2>1, <2>2, <3>1 DEF RecordWritten, ItemAdded, Live
    <3> QED BY <3>2 DEF FileEffect, Written
  <2>3. CASE RecordFailed(ItemRecord)
    <3>1. ASSUME OrdinalAvailable, Live', written' = written,
                 state'.next = state.next, state'.meta <=> state.meta,
                 NEW st \in {"torn", "nonl"}, Grown(file, file', ItemRecord, st)
          PROVE  FileEffect
      <4>1. ItemAdded(st)
        BY <2>1, <2>3, <3>1 DEF ItemAdded
      <4> QED BY <4>1 DEF FileEffect, Written
    <3>2. CASE FileKept
      BY <3>2 DEF FileEffect
    <3> QED BY <2>1, <2>3, <3>1, <3>2, FailureEffect
  <2> QED BY <1>7, <2>2, <2>3, WriteItemCases
<1>8. CASE Resume
  <2>1. Continues(file, file') /\ Len(file') = Len(file)
    BY <1>0, <1>8, RepairFacts DEF Resume
  <2>2. CASE StartsWithMeta(file)
    <3>1. FileResumed
      BY <1>8, <2>1, <2>2 DEF Resume, FileResumed, Live, Idle
    <3> QED BY <3>1 DEF FileEffect
  <2>3. CASE ~StartsWithMeta(file)
    <3>1. UNCHANGED <<state, task, base, written, sent>>
      BY <1>8, <2>3 DEF Resume
    <3> QED BY <1>0, <2>1, <3>1 DEF FileKept, FileEffect, Live
  <2> QED BY <2>2, <2>3
<1>9. CASE AppendUnloaded
  <2> DEFINE f == Terminated(file)
  <2>1. Continues(file, f) /\ Len(f) = Len(file) /\ Len(file) \in Nat
    BY <1>0, RepairFacts, LenProperties
  <2>2. ~Live /\ ~Live' /\ UNCHANGED <<base, written>> /\ HasMeta(file)
    BY <1>9 DEF AppendUnloaded, Live
  <2>3. CASE file' = f /\ sent <= sent'
    BY <2>1, <2>2, <2>3 DEF FileKept, FileEffect
  <2>4. ASSUME sent' = sent + 1,
               mode = "paginated" => OrdinalForResume(file) <= MaxOrdinal,
               NEW st \in Written, Grown(f, file', UnloadedRecord, st)
        PROVE  FileEffect
    <3>1. Continues(file, file')
      BY <2>1, <2>4 DEF Continues, Grown
    <3>2. Grown(file, file', UnloadedRecord, st)
      BY <2>1, <2>4, <3>1 DEF Grown
    <3>3. UnloadedAdded(st)
      BY <2>2, <2>4, <3>2 DEF UnloadedAdded
    <3> QED BY <3>3 DEF FileEffect
  <2>5. CASE sent' = sent + 1 /\ file' = f
    BY <1>0, <2>3, <2>5
  <2>6. CASE sent' = sent /\ file' = f
    BY <1>0, <2>3, <2>6
  <2> HIDE DEF f
  <2> QED BY <1>9, <2>4, <2>5, <2>6, AppendUnloadedCases DEF Written, f
<1>10. CASE UNCHANGED vars
  BY <1>0, <1>1, <1>10 DEF vars, Live
<1> QED BY <1>2, <1>3, <1>4, <1>5, <1>6, <1>7, <1>8, <1>9, <1>10 DEF Next, Writer
-----------------------------------------------------------------------------
(* The file's invariants, effect by effect.                                *)

\* Line i holds the same record in both files.
SameLine(f, g, i) ==
    /\ Parses(g[i]) <=> Parses(f[i])
    /\ g[i].rec = f[i].rec /\ g[i].id = f[i].id /\ g[i].ord = f[i].ord

\* A file that continues another has all its lines, each holding the same record.
LEMMA SameLines ==
    ASSUME NEW f \in Seq(Line), NEW g, Continues(f, g)
    PROVE  /\ DOMAIN f = 1 .. Len(f) /\ Len(f) \in Nat
           /\ DOMAIN g = 1 .. Len(g) /\ Len(g) \in Nat
           /\ \A i \in 1 .. Len(f) : i \in 1 .. Len(g) /\ SameLine(f, g, i)
<1>1. /\ DOMAIN f = 1 .. Len(f) /\ Len(f) \in Nat
      /\ DOMAIN g = 1 .. Len(g) /\ Len(g) \in Nat
  BY LenProperties DEF Continues
<1> QED BY <1>1 DEF Continues, SameLine

\* A file with one more line: each line is an old one or the record just written.
LEMMA GrownLines ==
    ASSUME NEW f \in Seq(Line), NEW g, NEW rec, NEW st, Grown(f, g, rec, st)
    PROVE  \A i \in DOMAIN g :
              \/ i \in DOMAIN f /\ i <= Len(f) /\ SameLine(f, g, i)
              \/ /\ i = Len(f) + 1
                 /\ g[i].rec = rec.rec /\ g[i].id = rec.id /\ g[i].ord = rec.ord
                 /\ Parses(g[i]) <=> st \in {"ok", "nonl"}
<1>1. /\ DOMAIN f = 1 .. Len(f) /\ Len(f) \in Nat /\ DOMAIN g = 1 .. Len(f) + 1
      /\ \A i \in 1 .. Len(f) : SameLine(f, g, i)
  BY GrownFacts, SameLines
<1> QED BY <1>1 DEF Grown, Parses

\* What can be read back only grows.
LEMMA EffectContinues ==
    ASSUME TypeOK, FileEffect
    PROVE  Continues(file, file') /\ Durable(file) \subseteq Durable(file')
<1>1. Continues(file, file')
  BY DEF FileEffect, FileKept, FileResumed, MetaAdded, ItemAdded, UnloadedAdded, Grown
<1> QED BY <1>1, ContinueFacts DEF TypeOK

\* An item leaves the buffer only when it is in the file.
LEMMA WrittenDurableStep ==
    ASSUME TypeOK, WrittenDurable, FileEffect
    PROVE  WrittenDurable'
<1>0. /\ file \in Seq(Line) /\ sent \in Nat /\ written \in Nat /\ base \in Nat
      /\ Durable(file) \subseteq Durable(file')
  BY EffectContinues DEF TypeOK
<1>1. CASE UNCHANGED <<base, written>>
  BY <1>0, <1>1 DEF WrittenDurable
<1>2. CASE FileResumed
  BY <1>0, <1>2 DEF FileResumed, WrittenDurable
<1>3. CASE ItemAdded("ok")
  <2>1. written + 1 \in Durable(file')
    BY <1>0, <1>3, GrownFacts DEF ItemAdded, ItemRecord
  <2>2. base' = base /\ written' = written + 1
    BY <1>3 DEF ItemAdded
  <2>3. base + 1 .. written + 1 \subseteq (base + 1 .. written) \cup {written + 1}
    BY <1>0
  <2> QED BY <1>0, <2>1, <2>2, <2>3 DEF WrittenDurable
<1> QED BY <1>1, <1>2, <1>3
    DEF FileEffect, FileKept, MetaAdded, ItemAdded, UnloadedAdded, Written

\* The numbers in a line of the file are numbers.
LEMMA LineTypes ==
    ASSUME TypeOK, NEW i \in DOMAIN file
    PROVE  file[i].id \in Nat /\ file[i].ord \in Int
<1>1. file[i] \in Line
  BY ElementOfSeq, LenProperties DEF TypeOK
<1> QED BY <1>1 DEF Line

\* No line runs ahead of the items handed over, nor of the writer.
LEMMA IdsBoundedStep ==
    ASSUME TypeOK, TypeOK', CountersOrdered, IdsBounded, FileEffect
    PROVE  IdsBounded'
<1>0. /\ file \in Seq(Line) /\ sent \in Nat /\ sent' \in Nat /\ written \in Nat
      /\ base \in Nat /\ written <= sent
      /\ \A i \in DOMAIN file : file[i].id \in Nat
  BY LineTypes DEF TypeOK, CountersOrdered
<1>1. \A i \in DOMAIN file : IsItem(file, i) =>
          file[i].id <= sent /\ (Live => file[i].id <= written + 1)
  BY DEF IdsBounded
<1>2. CASE FileKept \/ FileResumed
  <2>1. /\ DOMAIN file' = DOMAIN file
        /\ \A i \in DOMAIN file : SameLine(file, file', i)
    BY <1>0, <1>2, SameLines DEF FileKept, FileResumed
  <2>2. \A i \in DOMAIN file' : IsItem(file', i) =>
            /\ file'[i].id = file[i].id /\ file[i].id \in Nat /\ file[i].id <= sent
            /\ Live => file[i].id <= written + 1
    BY <1>0, <1>1, <2>1 DEF SameLine, IsItem
  <2>3. CASE FileKept
    <3>1. sent <= sent' /\ written' = written /\ (Live' => Live)
      BY <2>3 DEF FileKept
    <3> QED BY <1>0, <2>2, <3>1 DEF IdsBounded
  <2>4. CASE FileResumed
    BY <1>0, <2>2, <2>4 DEF FileResumed, IdsBounded
  <2> QED BY <1>2, <2>3, <2>4
<1>3. ASSUME NEW rec, NEW st \in Written, Grown(file, file', rec, st)
      PROVE  \A i \in DOMAIN file' : IsItem(file', i) =>
                 \/ /\ file'[i].id \in Nat /\ file'[i].id <= sent
                    /\ Live => file'[i].id <= written + 1
                 \/ rec.rec = "item" /\ file'[i].id = rec.id
  BY <1>0, <1>1, <1>3, GrownLines DEF SameLine, IsItem
<1>4. ASSUME NEW st \in Written, MetaAdded(st)
      PROVE  IdsBounded'
  BY <1>0, <1>3, <1>4 DEF MetaAdded, MetaRecord, IdsBounded
<1>5. ASSUME NEW st \in Written, ItemAdded(st)
      PROVE  IdsBounded'
  <2>1. written' \in {written, written + 1} /\ Live /\ sent' = sent /\ written + 1 <= sent
    BY <1>5 DEF ItemAdded
  <2>2. \A i \in DOMAIN file' : IsItem(file', i) =>
            file'[i].id \in Nat /\ file'[i].id <= sent /\ file'[i].id <= written + 1
    BY <1>0, <1>3, <1>5, <2>1 DEF ItemAdded, ItemRecord
  <2> QED BY <1>0, <2>1, <2>2 DEF IdsBounded
<1>6. ASSUME NEW st \in Written, UnloadedAdded(st)
      PROVE  IdsBounded'
  BY <1>0, <1>3, <1>6 DEF UnloadedAdded, UnloadedRecord, IdsBounded
<1> QED BY <1>2, <1>4, <1>5, <1>6 DEF FileEffect

\* A line is added only behind lines of earlier items, or of the same one.
LEMMA RecordsInOrderStep ==
    ASSUME TypeOK, IdsBounded, RecordsInOrder, FileEffect
    PROVE  RecordsInOrder'
<1>0. /\ file \in Seq(Line) /\ sent \in Nat /\ written \in Nat
      /\ \A i \in DOMAIN file : file[i].id \in Nat
  BY LineTypes DEF TypeOK
<1>1. CASE FileKept \/ FileResumed
  <2>1. /\ DOMAIN file' = DOMAIN file
        /\ \A i \in DOMAIN file : SameLine(file, file', i)
    BY <1>0, <1>1, SameLines DEF FileKept, FileResumed
  <2> QED BY <2>1 DEF SameLine, RecordsInOrder
<1>2. ASSUME NEW rec, NEW st \in Written, Grown(file, file', rec, st),
             rec.id \in Nat,
             rec.rec = "item" => \A i \in DOMAIN file : IsItem(file, i) => file[i].id <= rec.id
      PROVE  RecordsInOrder'
  <2> SUFFICES ASSUME NEW i \in DOMAIN file', NEW j \in DOMAIN file', i < j,
                      Parses(file'[i]), Parses(file'[j]),
                      file'[i].rec = "item", file'[j].rec = "item"
               PROVE  file'[i].id <= file'[j].id
    BY DEF RecordsInOrder
  <2>1. DOMAIN file' = 1 .. Len(file) + 1 /\ DOMAIN file = 1 .. Len(file) /\ Len(file) \in Nat
    BY <1>0, <1>2, GrownFacts
  <2>2. i \in DOMAIN file /\ SameLine(file, file', i)
    BY <1>0, <1>2, <2>1, GrownLines
  <2>3. CASE j \in DOMAIN file
    <3>1. SameLine(file, file', j)
      BY <1>0, <1>2, <2>1, <2>3, GrownLines
    <3> QED BY <2>2, <2>3, <3>1 DEF SameLine, RecordsInOrder
  <2>4. CASE j \notin DOMAIN file
    <3>1. file'[j].rec = rec.rec /\ file'[j].id = rec.id
      BY <1>0, <1>2, <2>4, GrownLines
    <3> QED BY <1>2, <2>2, <3>1 DEF SameLine, IsItem
  <2> QED BY <2>3, <2>4
<1>3. ASSUME NEW st \in Written, MetaAdded(st)
      PROVE  RecordsInOrder'
  BY <1>2, <1>3 DEF MetaAdded, MetaRecord
<1>4. ASSUME NEW st \in Written, ItemAdded(st)
      PROVE  RecordsInOrder'
  <2>1. ItemRecord.id = written + 1 /\ Live /\ Grown(file, file', ItemRecord, st)
    BY <1>4 DEF ItemAdded, ItemRecord
  <2> QED BY <1>0, <1>2, <2>1 DEF IdsBounded
<1>5. ASSUME NEW st \in Written, UnloadedAdded(st)
      PROVE  RecordsInOrder'
  <2>1. UnloadedRecord.id = sent + 1 /\ Grown(file, file', UnloadedRecord, st)
    BY <1>5 DEF UnloadedAdded, UnloadedRecord
  <2>2. \A i \in DOMAIN file : IsItem(file, i) => file[i].id <= sent + 1
    BY <1>0 DEF IdsBounded
  <2> QED BY <1>0, <1>2, <2>1, <2>2
<1> QED BY <1>1, <1>3, <1>4, <1>5 DEF FileEffect

\* An item is added only to a file that holds the metadata.
LEMMA MetaLeadsStep ==
    ASSUME TypeOK, MetaLeads, FileEffect
    PROVE  MetaLeads'
<1>0. /\ file \in Seq(Line)
      /\ \A i \in DOMAIN file : Parses(file[i]) /\ file[i].rec = "item" =>
             \E j \in 1 .. i - 1 : Parses(file[j]) /\ file[j].rec = "meta"
  BY DEF TypeOK, MetaLeads
<1>1. CASE FileKept \/ FileResumed
  <2>1. /\ DOMAIN file' = DOMAIN file /\ DOMAIN file = 1 .. Len(file) /\ Len(file) \in Nat
        /\ \A i \in DOMAIN file : SameLine(file, file', i)
    BY <1>0, <1>1, SameLines DEF FileKept, FileResumed
  <2>2. \A i \in DOMAIN file : \A j \in 1 .. i - 1 : j \in DOMAIN file
    BY <2>1
  <2> QED BY <1>0, <2>1, <2>2 DEF SameLine, MetaLeads
<1>2. ASSUME NEW rec, NEW st \in Written, Grown(file, file', rec, st),
             rec.rec = "item" => HasMeta(file)
      PROVE  MetaLeads'
  <2> SUFFICES ASSUME NEW i \in DOMAIN file', Parses(file'[i]), file'[i].rec = "item"
               PROVE  \E j \in 1 .. i - 1 : Parses(file'[j]) /\ file'[j].rec = "meta"
    BY DEF MetaLeads
  <2>1. /\ DOMAIN file' = 1 .. Len(file) + 1 /\ DOMAIN file = 1 .. Len(file) /\ Len(file) \in Nat
        /\ \A j \in DOMAIN file : SameLine(file, file', j)
    BY <1>0, <1>2, GrownFacts, SameLines
  <2>2. \E j \in 1 .. i - 1 : j \in DOMAIN file /\ Parses(file[j]) /\ file[j].rec = "meta"
    <3>1. CASE i \in DOMAIN file
      BY <1>0, <2>1, <3>1 DEF SameLine
    <3>2. CASE i = Len(file) + 1 /\ rec.rec = "item"
      BY <1>2, <2>1, <3>2 DEF HasMeta
    <3> QED BY <1>0, <1>2, <3>1, <3>2, GrownLines
  <2> QED BY <2>1, <2>2 DEF SameLine
<1>3. ASSUME NEW st \in Written, MetaAdded(st)
      PROVE  MetaLeads'
  BY <1>2, <1>3 DEF MetaAdded, MetaRecord
<1>4. ASSUME NEW st \in Written, ItemAdded(st)
      PROVE  MetaLeads'
  BY <1>2, <1>4 DEF ItemAdded
<1>5. ASSUME NEW st \in Written, UnloadedAdded(st)
      PROVE  MetaLeads'
  BY <1>2, <1>5 DEF UnloadedAdded
<1> QED BY <1>1, <1>3, <1>4, <1>5 DEF FileEffect

\* ordinal_state_for_rollout gives the next recorder an ordinal above all in the file:
\* ordinals grow along the file, so that of its last readable line is the largest.
LEMMA ResumeOrdinal ==
    ASSUME TypeOK, OrdinalsBounded, OrdinalsIdentify, HasMeta(file), mode = "paginated"
    PROVE  /\ OrdinalForResume(file) \in Int
           /\ FirstOrdinal <= OrdinalForResume(file)
           /\ \A i \in DOMAIN file : Parses(file[i]) => file[i].ord < OrdinalForResume(file)
<1> DEFINE l == LastParsed(file)
<1>0. FirstOrdinal \in Nat /\ MaxOrdinal \in Nat
  BY RecorderAssumption
<1>1. /\ file \in Seq(Line) /\ DOMAIN file = 1 .. Len(file) /\ Len(file) \in Nat
      /\ \A i \in DOMAIN file : file[i].ord \in Int
  BY LenProperties, LineTypes DEF TypeOK
<1>2. l \in DOMAIN file /\ Parses(file[l]) /\ \A i \in DOMAIN file : Parses(file[i]) => i <= l
  BY <1>1, LastParsedFacts
<1>3. OrdinalForResume(file) = file[l].ord + 1
  BY DEF OrdinalForResume
<1> HIDE DEF l
<1>4. FirstOrdinal <= file[l].ord
  BY <1>0, <1>1, <1>2 DEF OrdinalsBounded
<1>5. \A i \in DOMAIN file : Parses(file[i]) => file[i].ord <= file[l].ord
  <2> SUFFICES ASSUME NEW i \in DOMAIN file, Parses(file[i])
               PROVE  file[i].ord <= file[l].ord
    OBVIOUS
  <2>1. i = l \/ i < l
    BY <1>1, <1>2
  <2> QED BY <1>1, <1>2, <2>1 DEF OrdinalsIdentify
<1> QED BY <1>0, <1>1, <1>2, <1>3, <1>4, <1>5

\* The record being written takes the next ordinal, which is not larger than u64::MAX.
LEMMA NextOrdinal ==
    ASSUME TypeOK, mode = "paginated", OrdinalAvailable
    PROVE  /\ state.next \in Int /\ state.next <= MaxOrdinal
           /\ MetaRecord.ord = state.next /\ ItemRecord.ord = state.next
           /\ Advanced = state.next + 1
BY DEF TypeOK, WriterStates, OrdinalAvailable, MetaRecord, ItemRecord, Current, Advanced

\* After every step the ordinals in the file are below the next one, but for attempts at
\* the record that comes next.
LEMMA OrdinalsBoundedStep ==
    ASSUME TypeOK, TypeOK', OrdinalsBounded, OrdinalsIdentify, FileEffect, mode' = mode
    PROVE  OrdinalsBounded'
<1> SUFFICES ASSUME mode = "paginated"
             PROVE  /\ Live' => FirstOrdinal <= state'.next
                    /\ \A i \in DOMAIN file' : Parses(file'[i]) =>
                           /\ file'[i].ord \in FirstOrdinal .. MaxOrdinal
                           /\ Live' => file'[i].ord <= state'.next
                           /\ Live' /\ file'[i].ord = state'.next => IsNextRecord(file[i])'
  BY DEF OrdinalsBounded
<1>0. /\ FirstOrdinal \in Nat /\ MaxOrdinal \in Nat /\ file \in Seq(Line)
      /\ state.next \in Int /\ written \in Nat
      /\ \A i \in DOMAIN file : file[i].ord \in Int
  BY RecorderAssumption, LineTypes DEF TypeOK, WriterStates
<1>1. /\ Live => FirstOrdinal <= state.next
      /\ \A i \in DOMAIN file : Parses(file[i]) =>
             /\ file[i].ord \in FirstOrdinal .. MaxOrdinal
             /\ Live => file[i].ord <= state.next
             /\ Live /\ file[i].ord = state.next => IsNextRecord(file[i])
  BY DEF OrdinalsBounded
<1>2. CASE FileKept \/ FileResumed
  <2>1. /\ DOMAIN file' = DOMAIN file
        /\ \A i \in DOMAIN file : SameLine(file, file', i)
    BY <1>0, <1>2, SameLines DEF FileKept, FileResumed
  <2>2. CASE FileKept
    <3>1. Live' => Live /\ state'.next = state.next /\ (state'.meta <=> state.meta)
                   /\ written' = written
      BY <2>2 DEF FileKept
    <3> QED BY <1>1, <2>1, <3>1 DEF SameLine, IsNextRecord
  <2>3. CASE FileResumed
    <3>1. /\ OrdinalForResume(file) \in Int
          /\ FirstOrdinal <= OrdinalForResume(file)
          /\ \A i \in DOMAIN file : Parses(file[i]) => file[i].ord < OrdinalForResume(file)
      BY <2>3, ResumeOrdinal DEF FileResumed
    <3>2. state'.next = OrdinalForResume(file)
      BY <2>3 DEF FileResumed
    <3> HIDE DEF OrdinalForResume
    <3> QED BY <1>0, <1>1, <2>1, <3>1, <3>2 DEF SameLine
  <2> QED BY <1>2, <2>2, <2>3
<1>3. ASSUME NEW rec, NEW st \in Written, Grown(file, file', rec, st)
      PROVE  \A i \in DOMAIN file' : Parses(file'[i]) =>
                \/ /\ i \in DOMAIN file /\ Parses(file[i])
                   /\ file'[i].rec = file[i].rec /\ file'[i].id = file[i].id
                   /\ file'[i].ord = file[i].ord
                \/ file'[i].rec = rec.rec /\ file'[i].id = rec.id /\ file'[i].ord = rec.ord
  BY <1>0, <1>3, GrownLines DEF SameLine
<1>4. ASSUME NEW st \in Written, MetaAdded(st)
      PROVE  OrdinalsBounded'
  <2>1. /\ Live /\ state.meta /\ state.next <= MaxOrdinal /\ Grown(file, file', MetaRecord, st)
        /\ MetaRecord.rec = "meta" /\ MetaRecord.id = 0 /\ MetaRecord.ord = state.next
        /\ \/ state'.next = state.next + 1
           \/ state'.next = state.next /\ state'.meta
    BY <1>4, NextOrdinal DEF MetaAdded, MetaRecord
  <2>2. \A i \in DOMAIN file' : Parses(file'[i]) =>
           /\ file'[i].ord \in FirstOrdinal .. MaxOrdinal
           /\ file'[i].ord <= state.next
           /\ file'[i].ord = state.next => file'[i].rec = "meta" /\ file'[i].id = 0
    BY <1>0, <1>1, <1>3, <2>1 DEF IsNextRecord
  <2> QED BY <1>0, <1>1, <2>1, <2>2 DEF IsNextRecord, OrdinalsBounded
<1>5. ASSUME NEW st \in Written, ItemAdded(st)
      PROVE  OrdinalsBounded'
  <2>1. /\ Live /\ ~state.meta /\ ~state'.meta
        /\ state.next <= MaxOrdinal /\ Grown(file, file', ItemRecord, st)
        /\ ItemRecord.rec = "item" /\ ItemRecord.id = written + 1 /\ ItemRecord.ord = state.next
        /\ \/ state'.next = state.next + 1
           \/ state'.next = state.next /\ written' = written
    BY <1>5, NextOrdinal DEF ItemAdded, ItemRecord
  <2>2. \A i \in DOMAIN file' : Parses(file'[i]) =>
           /\ file'[i].ord \in FirstOrdinal .. MaxOrdinal
           /\ file'[i].ord <= state.next
           /\ file'[i].ord = state.next => file'[i].rec = "item" /\ file'[i].id = written + 1
    BY <1>0, <1>1, <1>3, <2>1 DEF IsNextRecord
  <2> QED BY <1>0, <1>1, <2>1, <2>2 DEF IsNextRecord, OrdinalsBounded
<1>6. ASSUME NEW st \in Written, UnloadedAdded(st)
      PROVE  OrdinalsBounded'
  <2>1. /\ Grown(file, file', UnloadedRecord, st) /\ ~Live'
        /\ UnloadedRecord.ord = OrdinalForResume(file)
        /\ OrdinalForResume(file) \in FirstOrdinal .. MaxOrdinal
    BY <1>0, <1>6, ResumeOrdinal DEF UnloadedAdded, UnloadedRecord
  <2> QED BY <1>0, <1>1, <1>3, <2>1 DEF OrdinalsBounded
<1> QED BY <1>2, <1>4, <1>5, <1>6 DEF FileEffect, OrdinalsBounded

\* A line is added with an ordinal above all in the file, or repeats the last record.
LEMMA OrdinalsIdentifyStep ==
    ASSUME TypeOK, TypeOK', OrdinalsBounded, OrdinalsIdentify, FileEffect, mode' = mode
    PROVE  OrdinalsIdentify'
<1> SUFFICES ASSUME mode = "paginated",
                    NEW i \in DOMAIN file', NEW j \in DOMAIN file', i < j,
                    Parses(file'[i]), Parses(file'[j])
             PROVE  /\ file'[i].ord <= file'[j].ord
                    /\ file'[i].ord = file'[j].ord =>
                          file'[i].rec = file'[j].rec /\ file'[i].id = file'[j].id
                    /\ file'[i].ord \in FirstOrdinal .. MaxOrdinal
  BY DEF OrdinalsIdentify
<1>0. /\ FirstOrdinal \in Nat /\ MaxOrdinal \in Nat /\ file \in Seq(Line)
      /\ state.next \in Int /\ written \in Nat
      /\ \A k \in DOMAIN file : file[k].ord \in Int
  BY RecorderAssumption, LineTypes DEF TypeOK, WriterStates
<1>1. CASE j \in DOMAIN file
  <2>1. /\ i \in DOMAIN file /\ SameLine(file, file', i) /\ SameLine(file, file', j)
    <3>1. Continues(file, file')
      BY EffectContinues
    <3>2. /\ DOMAIN file = 1 .. Len(file) /\ Len(file) \in Nat
          /\ DOMAIN file' = 1 .. Len(file') /\ Len(file') \in Nat
          /\ \A k \in DOMAIN file : SameLine(file, file', k)
      BY <1>0, <3>1, SameLines
    <3> QED BY <1>1, <3>2
  <2> QED BY <1>1, <2>1 DEF SameLine, OrdinalsIdentify
<1>2. CASE j \notin DOMAIN file
  <2>1. ASSUME NEW rec, NEW st \in Written, Grown(file, file', rec, st)
        PROVE  /\ i \in DOMAIN file /\ Parses(file[i])
               /\ file'[i].rec = file[i].rec /\ file'[i].id = file[i].id
               /\ file'[i].ord = file[i].ord
               /\ file'[j].rec = rec.rec /\ file'[j].id = rec.id /\ file'[j].ord = rec.ord
    <3>1. DOMAIN file' = 1 .. Len(file) + 1 /\ DOMAIN file = 1 .. Len(file) /\ Len(file) \in Nat
      BY <1>0, <2>1, GrownFacts
    <3> QED BY <1>0, <1>2, <2>1, <3>1, GrownLines DEF SameLine
  <2>2. CASE FileKept \/ FileResumed
    <3>1. DOMAIN file' = DOMAIN file
      BY <1>0, <2>2, SameLines DEF FileKept, FileResumed
    <3> QED BY <1>2, <3>1
  <2>3. ASSUME NEW st \in Written, MetaAdded(st) \/ ItemAdded(st)
        PROVE  /\ file'[i].ord <= file'[j].ord
               /\ file'[i].ord = file'[j].ord =>
                     file'[i].rec = file'[j].rec /\ file'[i].id = file'[j].id
               /\ file'[i].ord \in FirstOrdinal .. MaxOrdinal
    <3>1. PICK rec \in {MetaRecord, ItemRecord} :
             /\ Grown(file, file', rec, st) /\ Live /\ rec.ord = state.next
             /\ IsNextRecord(rec)
      BY <2>3, NextOrdinal DEF MetaAdded, ItemAdded, MetaRecord, ItemRecord, IsNextRecord
    <3>2. /\ file[i].ord \in FirstOrdinal .. MaxOrdinal /\ file[i].ord <= state.next
          /\ file[i].ord = state.next => IsNextRecord(file[i])
      BY <2>1, <3>1 DEF OrdinalsBounded
    <3> QED BY <2>1, <3>1, <3>2 DEF IsNextRecord
  <2>4. ASSUME NEW st \in Written, UnloadedAdded(st)
        PROVE  /\ file'[i].ord < file'[j].ord
               /\ file'[i].ord \in FirstOrdinal .. MaxOrdinal
    <3>1. /\ Grown(file, file', UnloadedRecord, st)
          /\ UnloadedRecord.ord = OrdinalForResume(file)
          /\ \A k \in DOMAIN file : Parses(file[k]) => file[k].ord < OrdinalForResume(file)
      BY <2>4, ResumeOrdinal DEF UnloadedAdded, UnloadedRecord
    <3>2. i \in DOMAIN file /\ Parses(file[i]) /\ file[i].ord \in FirstOrdinal .. MaxOrdinal
      BY <2>1, <3>1 DEF OrdinalsBounded
    <3> QED BY <2>1, <3>1, <3>2
  <2>5. file'[i].ord \in Int /\ file'[j].ord \in Int
    <3>1. file' \in Seq(Line)
      BY DEF TypeOK
    <3>2. file'[i] \in Line /\ file'[j] \in Line
      BY <3>1, ElementOfSeq, LenProperties
    <3> QED BY <3>2 DEF Line
  <2> QED BY <2>2, <2>3, <2>4, <2>5 DEF FileEffect
<1> QED BY <1>1, <1>2

\* A barrier vouches only for what this recorder has written, and writes nothing itself.
LEMMA PromiseStep ==
    ASSUME [Next]_vars
    PROVE  promised' = promised \/ (promised' = promised \cup Vouched /\ file' = file)
<1> USE DEF disk
<1>1. CASE Recv
  BY <1>1 DEF Recv, AnswerOk
<1>2. CASE AllWritten
  BY <1>2 DEF AllWritten, AnswerOk
<1>3. CASE ~Recv /\ ~AllWritten
  BY <1>3 DEF Next, Writer, Send, Barrier, Discard, ChannelClosed, Crash, Open,
              WriteMeta, WriteItem, Resume, AppendUnloaded, vars
<1> QED BY <1>1, <1>2, <1>3

-----------------------------------------------------------------------------
(* The invariant is inductive.                                             *)

\* A new thread's recorder, with no file yet, satisfies it.
LEMMA InitIInv ==
    ASSUME Init
    PROVE  IInv
<1>1. Len(file) = 0 /\ DOMAIN file = {} /\ DOMAIN cmds = {}
  BY EmptySeq DEF Init
<1>2. TypeOK
  <2>1. file \in Seq(Line) /\ cmds \in Seq(Commands)
    BY EmptySeq DEF Init
  <2>2. state \in WriterStates /\ task \in TaskStates
    BY RecorderAssumption DEF Init, WriterStates, TaskStates, Idle
  <2> QED BY <2>1, <2>2 DEF Init, TypeOK
<1>3. CountersOrdered /\ QueueOrdered
  BY <1>1 DEF Init, CountersOrdered, QueueOrdered
<1>4. WriterReady
  BY DEF Init, WriterReady, Unterminated, Idle
<1>5. WrittenDurable /\ AckedDurable
  BY DEF Init, WrittenDurable, AckedDurable
<1>6. IdsBounded /\ RecordsInOrder /\ MetaLeads /\ OrdinalsIdentify
  BY <1>1 DEF IdsBounded, RecordsInOrder, MetaLeads, OrdinalsIdentify
<1>7. OrdinalsBounded
  BY <1>1, RecorderAssumption DEF Init, OrdinalsBounded
<1> QED BY <1>2, <1>3, <1>4, <1>5, <1>6, <1>7 DEF IInv

\* Every step of callers, writer, crash and later processes preserves it.
LEMMA StepIInv ==
    ASSUME IInv, [Next]_vars
    PROVE  IInv' /\ FileEffect
<1>1. /\ TypeOK /\ CountersOrdered /\ QueueOrdered /\ WriterReady
      /\ WrittenDurable /\ AckedDurable
      /\ IdsBounded /\ RecordsInOrder /\ MetaLeads
      /\ OrdinalsBounded /\ OrdinalsIdentify
  BY DEF IInv
<1>2. TypeOK' /\ CountersOrdered' /\ QueueOrdered' /\ WriterReady'
  BY <1>1, TypeStep, CountersStep, WriterReadyStep
<1>3. FileEffect /\ mode' = mode
  BY <1>1, Effects, ModeFixed
<1>4. WrittenDurable' /\ IdsBounded' /\ RecordsInOrder' /\ MetaLeads'
  BY <1>1, <1>2, <1>3, WrittenDurableStep, IdsBoundedStep, RecordsInOrderStep, MetaLeadsStep
<1>5. OrdinalsBounded' /\ OrdinalsIdentify'
  BY <1>1, <1>2, <1>3, OrdinalsBoundedStep, OrdinalsIdentifyStep
<1>6. AckedDurable'
  <2>1. Durable(file) \subseteq Durable(file')
    BY <1>1, <1>3, EffectContinues
  <2>2. promised' \subseteq promised \cup Vouched
    BY PromiseStep
  <2> QED BY <1>1, <2>1, <2>2 DEF AckedDurable, WrittenDurable, Vouched
<1> QED BY <1>2, <1>3, <1>4, <1>5, <1>6 DEF IInv

\* The writer task, its callers, crashes and later recorders of the thread keep the
\* counters, the queue, the writer's state and the file consistent with each other.
THEOREM InductiveInvariant == Spec => []IInv
<1>1. Init => IInv
  BY InitIInv
<1>2. IInv /\ [Next]_vars => IInv'
  BY StepIInv
<1> QED BY <1>1, <1>2, PTL DEF Spec

\* Every variable of the recorder keeps its type.
THEOREM TypeCorrect == Spec => []TypeOK
<1>1. IInv => TypeOK
  BY DEF IInv
<1> QED BY <1>1, InductiveInvariant, PTL

\* What persist(), flush() or shutdown() acknowledged is in the file for good, whatever
\* fails, crashes or is appended afterwards.
THEOREM AcknowledgedItemsAreDurable == Spec => []AckedDurable
<1>1. IInv => AckedDurable
  BY DEF IInv
<1> QED BY <1>1, InductiveInvariant, PTL

\* Retries, crashes and appends of other processes never let a record overtake another.
THEOREM RecordsStayInOrder == Spec => []RecordsInOrder
<1>1. IInv => RecordsInOrder
  BY DEF IInv
<1> QED BY <1>1, InductiveInvariant, PTL

\* No ordinal of a paginated rollout is given to two records, across write failures,
\* restarts and appends to the unloaded thread, and none exceeds u64::MAX.
THEOREM OrdinalsAreUnique == Spec => []OrdinalsIdentify
<1>1. IInv => OrdinalsIdentify
  BY DEF IInv
<1> QED BY <1>1, InductiveInvariant, PTL

\* No item is readable in a file whose metadata is not, however often the metadata line
\* failed to be written.
THEOREM MetadataComesFirst == Spec => []MetaLeads
<1>1. IInv => MetaLeads
  BY DEF IInv
<1> QED BY <1>1, InductiveInvariant, PTL

\* No step of the recorder, repairs included, removes, moves or changes a record that a
\* reader of the file could read.
THEOREM ReadableRecordsAreKept == Spec => RecordsNeverLost
<1> DEFINE Kept ==
        \A i \in DOMAIN file :
            Parses(file[i]) =>
                /\ i \in DOMAIN file'
                /\ Parses(file'[i])
                /\ file'[i].id = file[i].id /\ file'[i].rec = file[i].rec
<1>1. IInv /\ [Next]_vars => [Kept]_vars
  <2> SUFFICES ASSUME IInv, [Next]_vars
               PROVE  Kept
    OBVIOUS
  <2>1. Continues(file, file') /\ file \in Seq(Line)
    BY StepIInv, EffectContinues DEF IInv, TypeOK
  <2> QED BY <2>1, SameLines DEF SameLine
<1> QED BY <1>1, InductiveInvariant, PTL DEF Spec, RecordsNeverLost

-----------------------------------------------------------------------------
(* The recorder implements the log.                                        *)

\* The readable items are numbers of items that were handed over.
LEMMA DurableBounded ==
    ASSUME TypeOK, IdsBounded
    PROVE  \A i \in Durable(file) : i \in Nat /\ i <= sent
<1>1. \A k \in DOMAIN file : file[k].id \in Nat
  BY LineTypes
<1> QED BY <1>1 DEF Durable, IdsBounded, IsItem

\* A step that changes nothing readable and hands nothing over acknowledges something,
\* closes the log, or is invisible.
LEMMA QuietStep ==
    ASSUME IInv, [Next]_vars, Durable(file') = Durable(file),
           ~Live' \/ (Live /\ UNCHANGED <<written, sent>>)
    PROVE  Log!Promise \/ Log!Close
<1>1. promised \subseteq promised' /\ promised' \ promised \subseteq Durable(file)
  BY PromiseStep DEF IInv, WrittenDurable, Vouched
<1>2. Log!Acknowledge
  BY <1>1 DEF Log!Acknowledge
<1>3. CASE ~Live'
  BY <1>2, <1>3 DEF Log!Close, LogVolatile
<1>4. CASE Live' /\ Live /\ UNCHANGED <<written, sent>>
  BY <1>2, <1>4 DEF Log!Promise, LogVolatile
<1> QED BY <1>3, <1>4

\* Items handed over to a live recorder come after all items known so far.
LEMMA SendStep ==
    ASSUME IInv, NEW n \in 1 .. 2, Send(n)
    PROVE  Log!Accept
<1> USE DEF disk
<1>1. /\ sent \in Nat /\ written \in Nat /\ sent' = sent + n /\ UNCHANGED <<file, written, promised>>
      /\ Live /\ Live' /\ written <= sent
  BY DEF IInv, TypeOK, Send, Live, CountersOrdered
<1>2. \A i \in Durable(file) : i \in Nat /\ i <= sent
  BY DurableBounded DEF IInv
<1>3. /\ LogVolatile = (written + 1 .. sent) \ Durable(file)
      /\ LogVolatile' = (written + 1 .. sent + n) \ Durable(file)
  BY <1>1 DEF LogVolatile
<1>4. LogVolatile \subseteq LogVolatile'
  BY <1>1, <1>3
<1>5. \A i \in LogVolatile' \ LogVolatile, j \in LogVolatile \cup Durable(file) : j < i
  BY <1>1, <1>2, <1>3
<1> QED BY <1>1, <1>4, <1>5 DEF Log!Accept

\* A line of the next item makes the oldest waiting item readable, unless an earlier
\* attempt, which failed at the newline or at the flush, already did.
LEMMA ItemStep ==
    ASSUME IInv, [Next]_vars, NEW st \in {"ok", "nonl"}, ItemAdded(st)
    PROVE  Log!Write \/ UNCHANGED Log!logVars
<1> DEFINE w == written + 1
<1>1. /\ file \in Seq(Line) /\ sent \in Nat /\ written \in Nat /\ w \in Nat /\ w <= sent
      /\ Grown(file, file', ItemRecord, st) /\ Live /\ Live' /\ sent' = sent
      /\ written' \in {written, w} /\ (st = "ok" => written' = w)
  BY DEF IInv, TypeOK, ItemAdded
<1>2. Durable(file') = Durable(file) \cup {w}
  BY <1>1, GrownFacts DEF ItemRecord
<1>3. promised' = promised
  <2>1. file' # file
    BY <1>1, LenProperties DEF Grown
  <2> QED BY <2>1, PromiseStep
<1>4. /\ LogVolatile = (w .. sent) \ Durable(file)
      /\ LogVolatile' = (written' + 1 .. sent) \ (Durable(file) \cup {w})
  BY <1>1, <1>2 DEF LogVolatile
<1>5. LogVolatile' = LogVolatile \ {w}
  <2>1. (written' + 1 .. sent) \ {w} = (w .. sent) \ {w}
    BY <1>1
  <2> QED BY <1>4, <2>1
<1>6. CASE w \in Durable(file)
  <2>1. Durable(file') = Durable(file) /\ LogVolatile' = LogVolatile
    BY <1>2, <1>4, <1>5, <1>6
  <2> QED BY <1>3, <2>1 DEF Log!logVars
<1>7. CASE w \notin Durable(file)
  <2>1. w \in LogVolatile /\ \A j \in LogVolatile : w <= j
    BY <1>1, <1>4, <1>7
  <2> QED BY <1>2, <1>3, <1>5, <2>1 DEF Log!Write
<1> QED BY <1>6, <1>7

\* append_rollout_item_to_path writes through: nothing is waiting, and the item is new.
LEMMA UnloadedStep ==
    ASSUME IInv, [Next]_vars, NEW st \in {"ok", "nonl"}, UnloadedAdded(st)
    PROVE  Log!WriteThrough
<1>1. /\ file \in Seq(Line) /\ sent \in Nat /\ ~Live /\ ~Live'
      /\ Grown(file, file', UnloadedRecord, st)
  BY DEF IInv, TypeOK, UnloadedAdded
<1>2. Durable(file') = Durable(file) \cup {sent + 1}
  BY <1>1, GrownFacts DEF UnloadedRecord
<1>3. promised' = promised
  <2>1. file' # file
    BY <1>1, LenProperties DEF Grown
  <2> QED BY <2>1, PromiseStep
<1>4. LogVolatile = {} /\ LogVolatile' = {}
  BY <1>1 DEF LogVolatile
<1>5. \A j \in Durable(file) : j < sent + 1
  BY <1>1, DurableBounded DEF IInv
<1> QED BY <1>2, <1>3, <1>4, <1>5 DEF Log!WriteThrough

\* Every step of the recorder is a step of the log, or invisible to it.
LEMMA LogStep ==
    ASSUME IInv, [Next]_vars
    PROVE  [Log!Next]_(Log!logVars)
<1>0. /\ FileEffect /\ file \in Seq(Line) /\ sent \in Nat
  BY StepIInv DEF IInv, TypeOK
<1>1. ASSUME Log!Promise \/ Log!Close
      PROVE  [Log!Next]_(Log!logVars)
  BY <1>1 DEF Log!Next
<1>2. CASE FileKept
  <2>1. Durable(file') = Durable(file)
    BY <1>0, <1>2, ContinueFacts DEF FileKept
  <2>2. CASE ~Live' \/ sent' = sent
    BY <1>1, <1>2, <2>1, <2>2, QuietStep DEF FileKept
  <2>3. CASE Live' /\ sent' # sent
    <3>1. \E n \in 1 .. 2 : Send(n)
      BY <1>2, <2>3 DEF FileKept, Next, Writer, Barrier, Discard, Recv, ChannelClosed, Open,
             WriteMeta, WriteItem, AllWritten, Crash, Resume, AppendUnloaded, Live, vars, counters
    <3> QED BY <3>1, SendStep DEF Log!Next
  <2> QED BY <2>2, <2>3
<1>3. CASE FileResumed
  <2>1. Durable(file') = Durable(file)
    BY <1>0, <1>3, ContinueFacts DEF FileResumed
  <2>2. LogVolatile = {} /\ LogVolatile' = {}
    BY <1>0, <1>3 DEF FileResumed, LogVolatile
  <2>3. promised \subseteq promised' /\ promised' \ promised \subseteq Durable(file)
    BY PromiseStep DEF IInv, WrittenDurable, Vouched
  <2> QED BY <1>1, <2>1, <2>2, <2>3 DEF Log!Promise, Log!Acknowledge
<1>4. ASSUME NEW st \in Written, MetaAdded(st)
      PROVE  [Log!Next]_(Log!logVars)
  <2>1. Durable(file') = Durable(file)
    <3>1. Grown(file, file', MetaRecord, st) /\ MetaRecord.rec # "item"
      BY <1>4 DEF MetaAdded, MetaRecord
    <3>2. Durable(file') = Durable(file) \cup {}
      BY <1>0, <3>1, GrownFacts
    <3> QED BY <3>2
  <2> QED BY <1>1, <1>4, <2>1, QuietStep DEF MetaAdded
<1>5. CASE ItemAdded("torn") \/ UnloadedAdded("torn")
  <2>1. Durable(file') = Durable(file)
    BY <1>0, <1>5, GrownFacts DEF ItemAdded, UnloadedAdded
  <2>2. ~Live' \/ (Live /\ UNCHANGED <<written, sent>>)
    BY <1>5 DEF ItemAdded, UnloadedAdded
  <2> QED BY <1>1, <2>1, <2>2, QuietStep
<1>6. ASSUME NEW st \in {"ok", "nonl"}, ItemAdded(st)
      PROVE  [Log!Next]_(Log!logVars)
  BY <1>6, ItemStep DEF Log!Next
<1>7. ASSUME NEW st \in {"ok", "nonl"}, UnloadedAdded(st)
      PROVE  [Log!Next]_(Log!logVars)
  BY <1>7, UnloadedStep DEF Log!Next
<1> QED BY <1>0, <1>2, <1>3, <1>4, <1>5, <1>6, <1>7 DEF FileEffect, Written

\* Behind its channel, buffer, retries and restarts the recorder is the log it promises:
\* items become readable in the order they were handed over, acknowledgements name
\* readable items only, and nothing readable is ever lost.
THEOREM RecorderImplementsLog == Spec => LogSpec
<1>1. Init => Log!Init
  <2> SUFFICES ASSUME Init
               PROVE  Log!Init
    OBVIOUS
  <2>1. Durable(file) = {}
    <3>1. DOMAIN file = {}
      BY EmptySeq DEF Init
    <3> QED BY <3>1 DEF Durable
  <2>2. LogVolatile = {} /\ promised = {}
    BY DEF Init, LogVolatile
  <2> QED BY <2>1, <2>2 DEF Log!Init
<1>2. IInv /\ [Next]_vars => [Log!Next]_(Log!logVars)
  BY LogStep
<1> QED BY <1>1, <1>2, InductiveInvariant, PTL DEF Spec, LogSpec, Log!Spec
=============================================================================
