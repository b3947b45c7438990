------------------------- MODULE ExecSessionProofs -------------------------
(***************************************************************************)
(* The connection a client uses is always watched by a reader, for every   *)
(* number of streams, connections and events and every way a connection    *)
(* breaks, a recovery fails and a deadline passes.                         *)
(***************************************************************************)
EXTENDS ExecSession, TLAPS

-----------------------------------------------------------------------------
(* The inductive invariant.                                                *)

Fields == {"st", "wire", "inbox", "req", "after", "closed", "reader", "served"}

ConnsShaped ==
    /\ DOMAIN conn = Conns
    /\ \A c \in Conns :
           DOMAIN conn[c] = Fields /\ conn[c].closed \in BOOLEAN /\ conn[c].reader \in BOOLEAN

\* Where the recovery has a candidate connection.
CandidatePcs == {"initialize", "read", "doomed", "terminate", "install"}

RecoveryShaped ==
    /\ DOMAIN rec = {"pc", "c", "ans"}
    /\ rec.pc \in CandidatePcs \cup {"none", "dial", "failing"}
    /\ rec.pc \in CandidatePcs => rec.c \in Conns
    /\ rec.pc \notin CandidatePcs => rec.c = NoConn

\* A reader leaves the candidate of a recovery only after it has seen its end.
Watched(c) == conn[c].reader \/ conn[c].closed
CandidateWatched == rec.pc \in CandidatePcs => Watched(rec.c)

\* Status, connection in use and recovery task belong together.
StatusAgrees ==
    /\ status \in {"connected", "recovering", "failed"}
    /\ status = "connected" => current \in Conns
    /\ status # "connected" => current = NoConn
    /\ rec.pc = "failing" => status = "failed"

IInv == ConnsShaped /\ RecoveryShaped /\ CandidateWatched /\ StatusAgrees /\ InUseIsWatched

-----------------------------------------------------------------------------
(* What a step does to connections.                                        *)

\* Readers stay, and a connection known to be closed stays closed.
ReadersStay ==
    \A c \in Conns : conn'[c].reader = conn[c].reader /\ (conn[c].closed => conn'[c].closed)

\* The server, the transport and the readers' queues.
Outside ==
    \/ \E t \in Tasks : Notify(t) \/ EmitClosed(t)
    \/ \E c \in Conns :
           \/ ServeInitialize(c) \/ ServeRead(c) \/ ServeTerminate(c) \/ ServerDisconnect(c)
           \/ Arrive(c) \/ SeeClosed(c) \/ HandleNotification(c)
    \/ \E t \in Streams : Output(t) \/ EndOfStream(t)
    \/ Exit
    \/ ForgetProcess
    \/ Expire
    \/ \E c \in Conns : Cut(c)

\* Connection 0 is none.
LEMMA ConnFacts == NoConn \notin Conns /\ 1 \in Conns
BY ExecAssumption DEF NoConn, Conns

\* A connection that is replaced by another of the same shape.
LEMMA OneConn ==
    ASSUME ConnsShaped, NEW c \in Conns, NEW con,
           DOMAIN con = Fields, con.closed \in BOOLEAN, con.reader \in BOOLEAN,
           conn' = [conn EXCEPT ![c] = con]
    PROVE  /\ ConnsShaped'
           /\ conn'[c] = con
           /\ \A d \in Conns \ {c} : conn'[d] = conn[d]
BY DEF ConnsShaped

\* A message sent changes neither the reader nor the end of a connection.
LEMMA PushedFacts ==
    ASSUME NEW con, DOMAIN con = Fields, NEW msg
    PROVE  /\ DOMAIN Pushed(con, msg) = Fields
           /\ Pushed(con, msg).reader = con.reader
           /\ Pushed(con, msg).closed = con.closed
BY DEF Pushed, Fields

\* Server, transport and queues leave readers and recovery where they are.
LEMMA OutsideKeeps ==
    ASSUME ConnsShaped, RecoveryShaped, Outside
    PROVE  /\ ConnsShaped' /\ ReadersStay
           /\ status' = status /\ current' = current
           /\ rec'.pc = rec.pc /\ rec'.c = rec.c /\ DOMAIN rec' = {"pc", "c", "ans"}
<1> USE ConnFacts
<1>1. ASSUME NEW c \in Conns, NEW con, DOMAIN con = Fields, con.reader = conn[c].reader,
             con.closed \in BOOLEAN, conn[c].closed => con.closed,
             conn' = [conn EXCEPT ![c] = con]
      PROVE  ConnsShaped' /\ ReadersStay
  <2>1. con.reader \in BOOLEAN
    BY <1>1 DEF ConnsShaped
  <2>2. ConnsShaped' /\ conn'[c] = con /\ \A d \in Conns \ {c} : conn'[d] = conn[d]
    BY <1>1, <2>1, OneConn
  <2> QED BY <1>1, <2>2 DEF ReadersStay
<1>2. ASSUME conn' = conn
      PROVE  ConnsShaped' /\ ReadersStay
  BY <1>2 DEF ConnsShaped, ReadersStay
<1>3. rec' = rec \/ \E a : rec' = [rec EXCEPT !.ans = a]
  BY DEF Outside, Notify, EmitClosed, ServeInitialize, ServeRead, ServeTerminate,
         ServerDisconnect, Arrive, SeeClosed, HandleNotification, Output, EndOfStream, Exit,
         ForgetProcess, Expire, Cut, client
<1>4. status' = status /\ current' = current
  BY DEF Outside, Notify, EmitClosed, ServeInitialize, ServeRead, ServeTerminate,
         ServerDisconnect, Arrive, SeeClosed, HandleNotification, Output, EndOfStream, Exit,
         ForgetProcess, Expire, Cut, client
<1>5. ConnsShaped' /\ ReadersStay
  <2>1. ASSUME NEW t \in Tasks, Notify(t)
        PROVE  ConnsShaped' /\ ReadersStay
    <3>1. CASE attached = NoConn
      BY <1>2, <2>1, <3>1 DEF Notify
    <3>2. CASE attached \in Conns
      <4>1. conn' = [conn EXCEPT ![attached] = Pushed(conn[attached], Note(task[t].seq))]
        BY <2>1, <3>2 DEF Notify
      <4>2. /\ DOMAIN conn[attached] = Fields
            /\ conn[attached].closed \in BOOLEAN /\ conn[attached].reader \in BOOLEAN
        BY <3>2 DEF ConnsShaped
      <4>3. PICK c, con : c \in Conns /\ c = attached /\ con = Pushed(conn[c], Note(task[t].seq))
        BY <3>2
      <4>4. /\ DOMAIN con = Fields /\ con.reader = conn[c].reader
            /\ con.closed = conn[c].closed
        BY <4>2, <4>3, PushedFacts
      <4> QED BY <1>1, <4>1, <4>2, <4>3, <4>4
    <3>3. CASE attached \notin Conns \cup {NoConn}
      <4>1. conn' = [conn EXCEPT ![attached] = Pushed(conn[attached], Note(task[t].seq))]
        BY <2>1, <3>3 DEF Notify
      <4> QED BY <3>3, <4>1 DEF ConnsShaped, ReadersStay
    <3> QED BY <3>1, <3>2, <3>3
  <2>2. ASSUME NEW c \in Conns,
               ServeInitialize(c) \/ ServeRead(c) \/ ServeTerminate(c)
        PROVE  ConnsShaped' /\ ReadersStay
    <3>1. PICK msg : conn' = [conn EXCEPT ![c] = Pushed([conn[c] EXCEPT !.req = "none"], msg)]
      BY <2>2 DEF ServeInitialize, ServeRead, ServeTerminate
    <3> DEFINE con == [conn[c] EXCEPT !.req = "none"]
    <3>2. DOMAIN con = Fields /\ con.reader = conn[c].reader /\ con.closed = conn[c].closed
      BY DEF ConnsShaped, Fields
    <3> HIDE DEF con
    <3>3. conn' = [conn EXCEPT ![c] = Pushed(con, msg)]
      BY <3>1 DEF con
    <3>4. PICK new : new = Pushed(con, msg)
      OBVIOUS
    <3>5. /\ DOMAIN new = Fields /\ new.reader = conn[c].reader
          /\ new.closed = conn[c].closed /\ conn[c].closed \in BOOLEAN
      BY <3>2, <3>4, PushedFacts DEF ConnsShaped
    <3> QED BY <1>1, <3>3, <3>4, <3>5
  <2>3. ASSUME NEW c \in Conns, ServerDisconnect(c)
        PROVE  ConnsShaped' /\ ReadersStay
    <3> DEFINE con == [conn[c] EXCEPT !.served = FALSE, !.req = "none"]
    <3>1. conn' = [conn EXCEPT ![c] = con]
      BY <2>3 DEF ServerDisconnect, ConnsShaped
    <3>2. DOMAIN con = Fields /\ con.reader = conn[c].reader /\ con.closed = conn[c].closed
      BY DEF ConnsShaped, Fields
    <3> HIDE DEF con
    <3> QED BY <1>1, <3>1, <3>2 DEF ConnsShaped
  <2>4. ASSUME NEW c \in Conns, Cut(c)
        PROVE  ConnsShaped' /\ ReadersStay
    <3>1. PICK k : conn' = [conn EXCEPT ![c].st = "cut", ![c].wire = SubSeq(@, 1, k)]
      BY <2>4 DEF Cut
    <3> DEFINE con == [conn[c] EXCEPT !.st = "cut", !.wire = SubSeq(@, 1, k)]
    <3>2. conn' = [conn EXCEPT ![c] = con]
      BY <3>1 DEF ConnsShaped
    <3>3. DOMAIN con = Fields /\ con.reader = conn[c].reader /\ con.closed = conn[c].closed
      BY DEF ConnsShaped, Fields
    <3> HIDE DEF con
    <3> QED BY <1>1, <3>2, <3>3 DEF ConnsShaped
  <2>5. ASSUME NEW c \in Conns, Arrive(c)
        PROVE  ConnsShaped' /\ ReadersStay
    <3> DEFINE rest == [conn[c] EXCEPT !.wire = Tail(@)]
               more == [rest EXCEPT !.inbox = Append(@, Head(conn[c].wire).seq)]
    <3>1. conn' = [conn EXCEPT ![c] = rest] \/ conn' = [conn EXCEPT ![c] = more]
      BY <2>5 DEF Arrive
    <3>2. /\ DOMAIN rest = Fields /\ rest.reader = conn[c].reader /\ rest.closed = conn[c].closed
          /\ DOMAIN more = Fields /\ more.reader = conn[c].reader /\ more.closed = conn[c].closed
      BY DEF ConnsShaped, Fields
    <3> HIDE DEF rest, more
    <3> QED BY <1>1, <3>1, <3>2 DEF ConnsShaped
  <2>6. ASSUME NEW c \in Conns, SeeClosed(c)
        PROVE  ConnsShaped' /\ ReadersStay
    <3> DEFINE con == [conn[c] EXCEPT !.closed = TRUE]
    <3>1. conn' = [conn EXCEPT ![c] = con]
      BY <2>6 DEF SeeClosed
    <3>2. DOMAIN con = Fields /\ con.reader = conn[c].reader /\ con.closed = TRUE
      BY DEF ConnsShaped, Fields
    <3> HIDE DEF con
    <3> QED BY <1>1, <3>1, <3>2
  <2>7. ASSUME NEW c \in Conns, HandleNotification(c)
        PROVE  ConnsShaped' /\ ReadersStay
    <3> DEFINE con == [conn[c] EXCEPT !.inbox = Tail(@)]
    <3>1. conn' = [conn EXCEPT ![c] = con]
      BY <2>7 DEF HandleNotification
    <3>2. DOMAIN con = Fields /\ con.reader = conn[c].reader /\ con.closed = conn[c].closed
      BY DEF ConnsShaped, Fields
    <3> HIDE DEF con
    <3> QED BY <1>1, <3>1, <3>2 DEF ConnsShaped
  <2>8. ASSUME \/ \E t \in Tasks : EmitClosed(t)
               \/ \E t \in Streams : Output(t) \/ EndOfStream(t)
               \/ Exit \/ ForgetProcess \/ Expire
        PROVE  ConnsShaped' /\ ReadersStay
    BY <1>2, <2>8 DEF EmitClosed, Output, EndOfStream, Exit, ForgetProcess, Expire
  <2> QED BY <2>1, <2>2, <2>3, <2>4, <2>5, <2>6, <2>7, <2>8 DEF Outside
<1> QED BY <1>3, <1>4, <1>5 DEF RecoveryShaped

-----------------------------------------------------------------------------
(* The steps.                                                              *)

\* What the server and the transport do.
LEMMA OutsideStep ==
    ASSUME IInv, Outside
    PROVE  IInv'
<1>1. /\ ConnsShaped' /\ ReadersStay
      /\ status' = status /\ current' = current
      /\ rec'.pc = rec.pc /\ rec'.c = rec.c /\ DOMAIN rec' = {"pc", "c", "ans"}
  BY OutsideKeeps DEF IInv
<1>2. RecoveryShaped' /\ StatusAgrees'
  BY <1>1 DEF IInv, RecoveryShaped, StatusAgrees
<1>3. CandidateWatched'
  BY <1>1 DEF IInv, RecoveryShaped, CandidateWatched, Watched, ReadersStay
<1>4. InUseIsWatched'
  BY <1>1 DEF IInv, StatusAgrees, InUseIsWatched, ReadersStay
<1> QED BY <1>1, <1>2, <1>3, <1>4 DEF IInv

\* A dropped connection keeps its shape.
LEMMA DroppedFacts ==
    ASSUME NEW con, DOMAIN con = Fields
    PROVE  DOMAIN Dropped(con) = Fields /\ Dropped(con).closed = TRUE /\ Dropped(con).reader = FALSE
BY DEF Dropped, Fields

\* The recovery goes on without a candidate while nothing is in use.
LEMMA NoCandidate ==
    ASSUME ConnsShaped', rec' = [NoRecovery EXCEPT !.pc = "dial"], status' = "recovering",
           current' = NoConn
    PROVE  IInv'
<1>1. DOMAIN rec' = {"pc", "c", "ans"} /\ rec'.pc = "dial" /\ rec'.c = NoConn
  BY DEF NoRecovery
<1> QED BY <1>1 DEF IInv, RecoveryShaped, CandidateWatched, StatusAgrees, InUseIsWatched,
                    CandidatePcs

\* The candidate is given up.
LEMMA RetryStep ==
    ASSUME IInv, rec.pc \in CandidatePcs, Retry
    PROVE  IInv'
<1>1. rec.c \in Conns /\ DOMAIN conn[rec.c] = Fields
  BY DEF IInv, RecoveryShaped, ConnsShaped
<1>2. PICK c, con : c \in Conns /\ c = rec.c /\ con = Dropped(conn[c])
  BY <1>1
<1>3. DOMAIN con = Fields /\ con.closed \in BOOLEAN /\ con.reader \in BOOLEAN
  BY <1>1, <1>2, DroppedFacts
<1>4. conn' = [conn EXCEPT ![c] = con] /\ rec' = [NoRecovery EXCEPT !.pc = "dial"]
      /\ status' = status
  BY <1>2 DEF Retry
<1>5. ConnsShaped'
  BY <1>2, <1>3, <1>4, OneConn DEF IInv
<1>6. status = "recovering" /\ current' = NoConn
  BY DEF IInv, InUseIsWatched, StatusAgrees, CandidatePcs, Retry
<1> QED BY <1>4, <1>5, <1>6, NoCandidate

\* The environment fails.
LEMMA FailStep ==
    ASSUME IInv, rec.pc \in CandidatePcs \cup {"dial"}, Fail
    PROVE  IInv'
<1>1. ConnsShaped'
  <2>1. CASE rec.c = NoConn
    BY <2>1 DEF Fail, IInv, ConnsShaped
  <2>2. CASE rec.c # NoConn
    <3>1. rec.c \in Conns /\ DOMAIN conn[rec.c] = Fields
      BY <2>2 DEF IInv, RecoveryShaped, ConnsShaped
    <3>2. PICK c, con : c \in Conns /\ c = rec.c /\ con = Dropped(conn[c])
      BY <3>1
    <3>3. DOMAIN con = Fields /\ con.closed \in BOOLEAN /\ con.reader \in BOOLEAN
      BY <3>1, <3>2, DroppedFacts
    <3>4. conn' = [conn EXCEPT ![c] = con]
      BY <2>2, <3>2 DEF Fail
    <3> QED BY <3>2, <3>3, <3>4, OneConn DEF IInv
  <2> QED BY <2>1, <2>2
<1>2. /\ DOMAIN rec' = {"pc", "c", "ans"} /\ rec'.pc = "failing" /\ rec'.c = NoConn
      /\ status' = "failed"
  BY DEF Fail, NoRecovery
<1>3. current' = NoConn
  BY DEF Fail, IInv, InUseIsWatched, StatusAgrees, CandidatePcs
<1> QED BY <1>1, <1>2, <1>3 DEF IInv, RecoveryShaped, CandidateWatched, StatusAgrees,
                                InUseIsWatched, CandidatePcs

\* The recovery moves on with the same candidate.
LEMMA MoveStep ==
    ASSUME IInv, rec.pc \in CandidatePcs, NEW pc \in CandidatePcs,
           rec' = [rec EXCEPT !.pc = pc, !.ans = <<>>],
           ConnsShaped', ReadersStay, status' = status, current' = current
    PROVE  IInv'
<1>1. /\ DOMAIN rec' = {"pc", "c", "ans"} /\ rec'.pc = pc /\ rec'.c = rec.c
      /\ rec.c \in Conns
  BY DEF IInv, RecoveryShaped
<1>2. RecoveryShaped' /\ CandidateWatched'
  BY <1>1 DEF IInv, RecoveryShaped, CandidateWatched, Watched, ReadersStay
<1>3. status = "recovering" /\ current = NoConn
  BY DEF IInv, InUseIsWatched, StatusAgrees, CandidatePcs
<1>4. StatusAgrees' /\ InUseIsWatched'
  BY <1>1, <1>3 DEF StatusAgrees, InUseIsWatched, CandidatePcs
<1> QED BY <1>2, <1>4 DEF IInv

\* A call on the candidate.
LEMMA CallStep ==
    ASSUME IInv, rec.pc \in CandidatePcs, NEW op \in CandidatePcs, Call(op)
    PROVE  IInv'
<1>1. CASE conn[rec.c].closed
  <2>1. Retry
    BY <1>1 DEF Call
  <2> QED BY <2>1, RetryStep
<1>2. CASE ~ conn[rec.c].closed
  <2>1. rec.c \in Conns /\ DOMAIN conn[rec.c] = Fields /\ DOMAIN conn = Conns
    BY DEF IInv, RecoveryShaped, ConnsShaped
  <2>2. PICK c \in Conns : c = rec.c
    BY <2>1
  <2>3. PICK req : conn' = [conn EXCEPT ![c].req = req, ![c].after = Len(sess.pub)]
    BY <1>2, <2>2 DEF Call
  <2> DEFINE con == [conn[c] EXCEPT !.req = req, !.after = Len(sess.pub)]
  <2>4. conn' = [conn EXCEPT ![c] = con]
    BY <2>1, <2>3
  <2>5. DOMAIN con = Fields /\ con.reader = conn[c].reader /\ con.closed = conn[c].closed
    BY <2>1, <2>2 DEF Fields
  <2> HIDE DEF con
  <2>6. con.closed \in BOOLEAN /\ con.reader \in BOOLEAN
    BY <2>5 DEF IInv, ConnsShaped
  <2>7. ConnsShaped' /\ conn'[c] = con /\ \A d \in Conns \ {c} : conn'[d] = conn[d]
    BY <2>4, <2>5, <2>6, OneConn DEF IInv
  <2>8. ReadersStay
    BY <2>5, <2>7 DEF ReadersStay
  <2>9. rec' = [rec EXCEPT !.pc = op, !.ans = <<>>] /\ status' = status /\ current' = current
    BY <1>2 DEF Call
  <2> QED BY <2>7, <2>8, <2>9, MoveStep
<1> QED BY <1>1, <1>2

\* The reader of a connection has seen its end.
LEMMA DisconnectStep ==
    ASSUME IInv, NEW c \in Conns, HandleDisconnect(c)
    PROVE  IInv'
<1>0. /\ DOMAIN conn[c] = Fields /\ DOMAIN conn = Conns
      /\ conn[c].closed \in BOOLEAN /\ conn[c].closed
  BY DEF IInv, ConnsShaped, HandleDisconnect
<1>1. CASE status = "connected" /\ current = c
  <2>1. PICK con : con = Dropped(conn[c])
    OBVIOUS
  <2>2. DOMAIN con = Fields /\ con.closed \in BOOLEAN /\ con.reader \in BOOLEAN
    BY <1>0, <2>1, DroppedFacts
  <2>3. /\ conn' = [conn EXCEPT ![c] = con] /\ rec' = [NoRecovery EXCEPT !.pc = "dial"]
        /\ status' = "recovering" /\ current' = NoConn
    BY <1>1, <2>1 DEF HandleDisconnect
  <2>4. ConnsShaped'
    BY <2>2, <2>3, OneConn DEF IInv
  <2> QED BY <2>3, <2>4, NoCandidate
<1>2. CASE ~ (status = "connected" /\ current = c)
  <2> DEFINE con == [conn[c] EXCEPT !.reader = FALSE]
  <2>1. conn' = [conn EXCEPT ![c] = con] /\ status' = status /\ current' = current /\ rec' = rec
    BY <1>2 DEF HandleDisconnect
  <2>2. DOMAIN con = Fields /\ con.closed = conn[c].closed /\ con.reader = FALSE
    BY <1>0 DEF Fields
  <2> HIDE DEF con
  <2>3. con.closed \in BOOLEAN /\ con.reader \in BOOLEAN
    BY <1>0, <2>2
  <2>4. ConnsShaped' /\ conn'[c] = con /\ \A d \in Conns \ {c} : conn'[d] = conn[d]
    BY <2>1, <2>2, <2>3, OneConn DEF IInv
  <2>5. RecoveryShaped' /\ StatusAgrees'
    BY <2>1 DEF IInv, RecoveryShaped, StatusAgrees
  <2>6. CandidateWatched'
    BY <1>0, <2>1, <2>2, <2>4 DEF IInv, CandidateWatched, Watched, RecoveryShaped
  <2>7. InUseIsWatched'
    BY <1>2, <2>1, <2>4 DEF IInv, InUseIsWatched, StatusAgrees
  <2> QED BY <2>4, <2>5, <2>6, <2>7 DEF IInv
<1> QED BY <1>1, <1>2

\* A new candidate is dialled; its reader runs from the start.
LEMMA DialStep ==
    ASSUME IInv, Dial
    PROVE  IInv'
<1>1. PICK c \in Conns : /\ conn' = [conn EXCEPT ![c] = [Fresh EXCEPT !.req = "initialize"]]
                         /\ rec' = [pc |-> "initialize", c |-> c, ans |-> <<>>]
  BY DEF Dial
<1> DEFINE con == [Fresh EXCEPT !.req = "initialize"]
<1>2. DOMAIN con = Fields /\ con.closed = FALSE /\ con.reader = TRUE
  BY DEF Fresh, Unused, Fields
<1>3. conn' = [conn EXCEPT ![c] = con]
  BY <1>1
<1> HIDE DEF con
<1>4. ConnsShaped' /\ conn'[c] = con
  BY <1>2, <1>3, OneConn DEF IInv
<1>5. status' = status /\ current' = current /\ rec.pc = "dial"
  BY DEF Dial
<1>6. status = "recovering" /\ current = NoConn
  BY <1>5 DEF IInv, InUseIsWatched, StatusAgrees
<1>7. DOMAIN rec' = {"pc", "c", "ans"} /\ rec'.pc = "initialize" /\ rec'.c = c
  BY <1>1
<1>8. RecoveryShaped' /\ CandidateWatched'
  BY <1>2, <1>4, <1>7 DEF RecoveryShaped, CandidateWatched, Watched, CandidatePcs
<1>9. StatusAgrees' /\ InUseIsWatched'
  BY <1>5, <1>6, <1>7 DEF StatusAgrees, InUseIsWatched
<1> QED BY <1>4, <1>8, <1>9 DEF IInv

\* The candidate comes into use when its end has not been seen: its reader still runs.
LEMMA InstallStep ==
    ASSUME IInv, Install
    PROVE  IInv'
<1>0. rec.pc \in CandidatePcs /\ rec.c \in Conns
  BY DEF Install, IInv, RecoveryShaped, CandidatePcs
<1>1. CASE conn[rec.c].closed
  <2>1. Retry
    BY <1>1 DEF Install
  <2> QED BY <1>0, <2>1, RetryStep
<1>2. CASE ~ conn[rec.c].closed
  <2>1. status' = "connected" /\ current' = rec.c /\ rec' = NoRecovery /\ conn' = conn
    BY <1>2 DEF Install
  <2>2. conn[rec.c].reader
    BY <1>0, <1>2 DEF IInv, CandidateWatched, Watched
  <2>3. DOMAIN rec' = {"pc", "c", "ans"} /\ rec'.pc = "none" /\ rec'.c = NoConn
    BY <2>1 DEF NoRecovery
  <2>4. ConnsShaped' /\ RecoveryShaped' /\ CandidateWatched'
    BY <2>1, <2>3 DEF IInv, ConnsShaped, RecoveryShaped, CandidateWatched, CandidatePcs
  <2>5. StatusAgrees' /\ InUseIsWatched'
    BY <1>0, <2>1, <2>2, <2>3 DEF StatusAgrees, InUseIsWatched
  <2> QED BY <2>4, <2>5 DEF IInv
<1> QED BY <1>1, <1>2

\* The other steps of the recovery.
LEMMA RecoveryStep ==
    ASSUME IInv,
           \/ Initialized \/ MergeRead \/ TerminateDoomed \/ Terminated \/ CallClosed
           \/ InitializeTimeout \/ RecoveryTimeout \/ FailSessions
    PROVE  IInv'
<1>0. {"initialize", "read", "doomed", "terminate", "install"} = CandidatePcs
  BY DEF CandidatePcs
<1>1. ASSUME conn' = conn
      PROVE  ConnsShaped' /\ ReadersStay
  BY <1>1 DEF IInv, ConnsShaped, ReadersStay
<1>2. CASE Initialized
  <2>1. rec.pc \in CandidatePcs
    BY <1>0, <1>2 DEF Initialized
  <2>2. \/ Call("read") \/ Retry \/ Fail
        \/ /\ rec' = [rec EXCEPT !.pc = "install", !.ans = <<>>]
           /\ conn' = conn /\ status' = status /\ current' = current
    BY <1>2 DEF Initialized, ToInstall
  <2> QED BY <1>0, <1>1, <2>1, <2>2, CallStep, RetryStep, FailStep, MoveStep
<1>3. CASE MergeRead
  <2>1. PICK pc \in {"doomed", "install"} : rec' = [rec EXCEPT !.pc = pc, !.ans = <<>>]
    BY <1>3 DEF MergeRead
  <2>2. rec.pc \in CandidatePcs /\ conn' = conn /\ status' = status /\ current' = current
    BY <1>0, <1>3 DEF MergeRead
  <2> QED BY <1>0, <1>1, <2>1, <2>2, MoveStep
<1>4. CASE TerminateDoomed
  <2>1. rec.pc \in CandidatePcs /\ Call("terminate")
    BY <1>0, <1>4 DEF TerminateDoomed
  <2> QED BY <1>0, <2>1, CallStep
<1>5. CASE Terminated
  <2>1. /\ rec.pc \in CandidatePcs /\ rec' = [rec EXCEPT !.pc = "install", !.ans = <<>>]
        /\ conn' = conn /\ status' = status /\ current' = current
    BY <1>0, <1>5 DEF Terminated, ToInstall
  <2> QED BY <1>0, <1>1, <2>1, MoveStep
<1>6. CASE CallClosed \/ InitializeTimeout
  <2>1. rec.pc \in CandidatePcs /\ Retry
    BY <1>0, <1>6 DEF CallClosed, InitializeTimeout
  <2> QED BY <2>1, RetryStep
<1>7. CASE RecoveryTimeout
  <2>1. rec.pc \in CandidatePcs \cup {"dial"} /\ Fail
    BY <1>0, <1>7 DEF RecoveryTimeout
  <2> QED BY <2>1, FailStep
<1>8. CASE FailSessions
  <2>1. /\ rec' = NoRecovery /\ conn' = conn /\ status' = status /\ current' = current
        /\ status = "failed" /\ current = NoConn
    BY <1>8 DEF FailSessions, IInv, StatusAgrees
  <2>2. DOMAIN rec' = {"pc", "c", "ans"} /\ rec'.pc = "none" /\ rec'.c = NoConn
    BY <2>1 DEF NoRecovery
  <2>3. ConnsShaped' /\ RecoveryShaped' /\ CandidateWatched'
    BY <2>1, <2>2 DEF IInv, ConnsShaped, RecoveryShaped, CandidateWatched, CandidatePcs
  <2>4. StatusAgrees' /\ InUseIsWatched'
    BY <2>1, <2>2 DEF StatusAgrees, InUseIsWatched
  <2> QED BY <2>3, <2>4 DEF IInv
<1> QED BY <1>2, <1>3, <1>4, <1>5, <1>6, <1>7, <1>8

-----------------------------------------------------------------------------
(* The theorems.                                                           *)

\* Every step keeps the connections, the recovery and the status in agreement.
THEOREM InductiveInvariant == Spec => []IInv
<1>1. Init => IInv
  <2> SUFFICES ASSUME Init PROVE IInv
    OBVIOUS
  <2>1. \A c \in Conns : conn[c] \in {Fresh, Unused}
    BY DEF Init
  <2>2. /\ DOMAIN Fresh = Fields /\ Fresh.closed = FALSE /\ Fresh.reader = TRUE
        /\ DOMAIN Unused = Fields /\ Unused.closed = FALSE /\ Unused.reader = FALSE
    BY DEF Fresh, Unused, Fields
  <2>3. ConnsShaped
    <3>1. DOMAIN conn = Conns
      BY DEF Init
    <3> QED BY <2>1, <2>2, <3>1 DEF ConnsShaped
  <2>4. conn[1].reader /\ 1 \in Conns /\ status = "connected" /\ current = 1
    BY <2>2, ConnFacts DEF Init
  <2>5. DOMAIN rec = {"pc", "c", "ans"} /\ rec.pc = "none" /\ rec.c = NoConn
    BY DEF Init, NoRecovery
  <2> QED BY <2>3, <2>4, <2>5 DEF IInv, RecoveryShaped, CandidateWatched, StatusAgrees,
                                  InUseIsWatched, CandidatePcs
<1>2. IInv /\ [Next]_vars => IInv'
  <2>1. ASSUME IInv, Next
        PROVE  IInv'
    <3>1. CASE Outside
      BY <2>1, <3>1, OutsideStep
    <3>2. CASE ~ Outside
      BY <2>1, <3>2, DisconnectStep, DialStep, InstallStep, RecoveryStep DEF Next, Machinery, Outside
    <3> QED BY <3>1, <3>2
  <2>2. ASSUME IInv, UNCHANGED vars
        PROVE  IInv'
    BY <2>2 DEF vars, server, client, IInv, ConnsShaped, RecoveryShaped, CandidateWatched,
                Watched, StatusAgrees, InUseIsWatched
  <2> QED BY <2>1, <2>2
<1> QED BY <1>1, <1>2, PTL DEF Spec

\* The connection in use has a reader, so its end will be noticed: install_recovered_client
\* refuses a candidate whose end was seen, and only then does a reader stop early.
THEOREM UseIsWatched == Spec => []InUseIsWatched
<1>1. IInv => InUseIsWatched
  BY DEF IInv
<1> QED BY <1>1, InductiveInvariant, PTL
=============================================================================
