----------------------------- MODULE ExecSession -----------------------------
(***************************************************************************)
(* One process of a remote exec-server as its client sees it               *)
(* (codex-rs/exec-server/src).  On the server three tasks number the       *)
(* process's events under a lock and then push notifications to whatever   *)
(* connection the session is attached to.  The client publishes events in  *)
(* the order of their numbers, holds back what arrives early, and when its *)
(* connection dies reconnects, resumes the session and asks for what it    *)
(* missed.                                                                 *)
(*                                                                         *)
(* An event is its sequence number; events[n] says what it is: "out" (a    *)
(* chunk of output), "exit" or "closed".  sess.pub is what the client has  *)
(* published, so its length is last_published_seq.                         *)
(***************************************************************************)
EXTENDS Integers, Sequences, FiniteSets, SequencesExt

CONSTANTS
    Streams,      \* output streams with a task each: stdout and stderr
    MaxConns,     \* bound: connections the client opens, one after the other
    MaxOut,       \* bound: chunks of output
    Retain,       \* RETAINED_OUTPUT_CHUNKS_PER_PROCESS
    MaxPending    \* MAX_PENDING_PROCESS_EVENTS

ASSUME ExecAssumption ==
    /\ IsFiniteSet(Streams) /\ "exit" \notin Streams
    /\ MaxConns \in Nat \ {0} /\ MaxOut \in Nat
    /\ Retain \in Nat \ {0} /\ MaxPending \in Nat

Conns == 1..MaxConns
NoConn == 0
Tasks == Streams \cup {"exit"}
Kinds == {"out", "exit", "closed"}

VARIABLES
    \* The server.
    events,     \* the process's events so far, in the order of their numbers
    retained,   \* chunks that process/read can still return
    open,       \* open_streams
    present,    \* the process is in the server's map
    task,       \* stream_output of each stream and watch_exit
    attached,   \* connection the session is attached to
    expired,    \* the session was dropped from the registry
    \* The transport.
    conn,       \* each connection
    \* The client.
    status,     \* ConnectionStatus
    current,    \* the connection of status Connected
    rec,        \* the recovery task
    sess        \* SessionState of the process

server == <<events, retained, open, present, task, attached, expired>>
client == <<status, current, rec, sess>>
vars == <<server, conn, client>>

(***************************************************************************)
(* Connections.                                                            *)
(***************************************************************************)
Unused == [st |-> "unused", wire |-> <<>>, inbox |-> <<>>, req |-> "none", after |-> 0,
           closed |-> FALSE, reader |-> FALSE, served |-> FALSE]
Fresh == [Unused EXCEPT !.st = "up", !.reader = TRUE, !.served = TRUE]

\* Drop of an RpcClient: the transport ends and its reader finds nobody to report to.
Dropped(con) == [con EXCEPT !.st = "cut", !.wire = <<>>, !.inbox = <<>>,
                            !.closed = TRUE, !.reader = FALSE]

Note(n) == [k |-> "note", seq |-> n]
Reply(body) == [k |-> "reply", body |-> body]

\* Bytes sent on a connection that is down go nowhere.
Pushed(con, msg) == IF con.st = "up" THEN [con EXCEPT !.wire = Append(@, msg)] ELSE con

(***************************************************************************)
(* OrderedSessionEvents.                                                   *)
(***************************************************************************)
Published(s, kind) == kind \in Range(s.pub)
Pending(s) == DOMAIN s.pend
NextSeq(s) == Len(s.pub) + 1
Over(s) == s.failed \/ Published(s, "closed")

\* Mutant: one event too many is held back.
RefusedLate(s, n) ==
    n \notin Pending(s) /\ n # NextSeq(s) /\ Cardinality(Pending(s)) > MaxPending

\* insert_pending: the reorder buffer is bounded, except for the event that closes the gap.
Refused(s, n) == n \notin Pending(s) /\ n # NextSeq(s) /\ Cardinality(Pending(s)) >= MaxPending

\* The events of ns, all of one kind, join what is held back; what is there already stays.
Holding(s, ns, kind) ==
    [s EXCEPT !.pend = [i \in Pending(s) \cup ns |-> IF i \in Pending(s) THEN s.pend[i] ELSE kind]]

\* publish_ready: everything up to the first gap.
PublishReady(s) ==
    LET ready == {n \in Pending(s) : (NextSeq(s) .. n) \subseteq Pending(s)}
    IN  [s EXCEPT !.pub  = @ \o [i \in 1 .. Cardinality(ready) |-> s.pend[Len(s.pub) + i]],
                  !.pend = [i \in Pending(s) \ ready |-> s.pend[i]]]

\* set_failure
Failed(s) == IF Over(s) THEN s ELSE [s EXCEPT !.failed = TRUE, !.pend = <<>>]

\* The session leaves the routing table once its last event is published.
Settled(s) == IF Published(s, "closed") THEN [s EXCEPT !.routed = FALSE] ELSE s
FailedAndRemoved(s) == [Failed(s) EXCEPT !.routed = FALSE]

\* Mutant: events are published as they arrive.
OnArrival(s, n) ==
    IF ~s.routed \/ Over(s)
    THEN s
    ELSE Settled([s EXCEPT !.pub = Append(@, events[n])])

\* Mutant: an event that does not fit is dropped, and nobody is told.
OverflowDropped(s, n) ==
    IF ~s.routed \/ Over(s) \/ n <= Len(s.pub) \/ Refused(s, n)
    THEN s
    ELSE Settled(PublishReady(Holding(s, {n}, events[n])))

\* publish_ordered_event and finish_process_event
OnNotification(s, n) ==
    IF ~s.routed \/ Over(s) \/ n <= Len(s.pub)
    THEN s
    ELSE IF Refused(s, n)
         THEN FailedAndRemoved(s)
         ELSE Settled(PublishReady(Holding(s, {n}, events[n])))

(***************************************************************************)
(* recover_events: what process/read returned is merged with what arrived. *)
(***************************************************************************)
Target(r) == r.next - 1
ExitKnown(s, r) ==
    Published(s, "exit") \/ \E n \in Pending(s) : n <= Target(r) /\ s.pend[n] = "exit"

\* The first number that is neither published nor in ns.
FirstMissing(s, ns) ==
    CHOOSE n \in NextSeq(s) .. NextSeq(s) + Cardinality(ns) :
        n \notin ns /\ (NextSeq(s) .. n - 1) \subseteq ns

Conflict(s, r) ==
    /\ r.closed
    /\ \/ Target(r) \in Pending(s) /\ s.pend[Target(r)] # "closed"
       \/ Target(r) \in r.chunks

\* The chunks in their order.  An exit has no chunk: when the process has exited, the first
\* hole before a chunk is taken for it.  Behind the next hole the reorder buffer fills up.
WithChunks(s, r) ==
    LET got  == {n \in r.chunks : n > Len(s.pub)}
        have == Pending(s) \cup got
        hole == FirstMissing(s, have)
        fill == r.exited /\ ~ExitKnown(s, r) /\ \E n \in got : n > hole
        gap  == IF fill THEN FirstMissing(s, have \cup {hole}) ELSE hole
        held(n) == {m \in Pending(s) : m > gap} \cup {m \in got : gap < m /\ m < n}
        kept == {n \in got : n < gap \/ n \in Pending(s) \/ Cardinality(held(n)) < MaxPending}
    IN  [s   |-> PublishReady(Holding(Holding(s, kept, "out"),
                                      IF fill THEN {hole} ELSE {}, "exit")),
         exit |-> r.exited /\ ~ExitKnown(s, r) /\ ~fill,
         err |-> kept # got]

\* The rest: the closing event and, if no chunk revealed it, the exit in the only hole.
WithEnd(m, r) ==
    LET close   == r.closed /\ ~Published(m.s, "closed")
        full    == close /\ Refused(m.s, Target(r))
        s1      == IF close THEN Holding(m.s, {Target(r)}, "closed") ELSE m.s
        missing == (NextSeq(s1) .. Target(r)) \ Pending(s1)
        lost    == Cardinality(missing) # (IF m.exit THEN 1 ELSE 0)
        late    == m.exit /\ ~lost /\ \E n \in missing : Refused(s1, n)
    IN  IF m.err \/ full
        THEN [s |-> m.s, err |-> TRUE]
        ELSE IF lost \/ late
             THEN [s |-> s1, err |-> TRUE]
             ELSE [s |-> PublishReady(Holding(s1, missing, "exit")), err |-> FALSE]

\* The outcome, as a set of one.
Recovered(s, r) ==
    IF r.unknown
    THEN {[s |-> s, err |-> TRUE]}
    ELSE IF Over(s) \/ Target(r) <= Len(s.pub)
         THEN {[s |-> s, err |-> FALSE]}
         ELSE IF Conflict(s, r)
              THEN {[s |-> s, err |-> TRUE]}
              ELSE {WithEnd(m, r) : m \in {WithChunks(s, r)}}

(***************************************************************************)
(* Initial state: the process has been started over the first connection.  *)
(***************************************************************************)
NoRecovery == [pc |-> "none", c |-> NoConn, ans |-> <<>>]

Init ==
    /\ events = <<>>
    /\ retained = {}
    /\ open = Cardinality(Streams)
    /\ present = TRUE
    /\ task = [t \in Tasks |-> [pc |-> "run", seq |-> 0]]
    /\ attached = 1
    /\ expired = FALSE
    /\ conn = [c \in Conns |-> IF c = 1 THEN Fresh ELSE Unused]
    /\ status = "connected"
    /\ current = 1
    /\ rec = NoRecovery
    /\ sess = [pub |-> <<>>, pend |-> <<>>, failed |-> FALSE, routed |-> TRUE]

(***************************************************************************)
(* The server's tasks.                                                     *)
(***************************************************************************)
\* stream_output: a chunk is numbered and retained under the lock; the oldest goes.
Output(t) ==
    /\ t \in Streams
    /\ present
    /\ task[t].pc = "run"
    /\ Cardinality({n \in DOMAIN events : events[n] = "out"}) < MaxOut
    /\ LET n == Len(events) + 1
           kept == retained \cup {n}
       IN  /\ events' = Append(events, "out")
           /\ retained' = IF Cardinality(kept) > Retain
                          THEN {i \in kept : \E j \in kept : j < i}
                          ELSE kept
           /\ task' = [task EXCEPT ![t] = [pc |-> "send", seq |-> n]]
    /\ UNCHANGED <<open, present, attached, expired, conn, client>>

\* finish_output_stream
EndOfStream(t) ==
    /\ t \in Streams
    /\ task[t].pc = "run"
    /\ open' = IF present THEN open - 1 ELSE open
    /\ task' = [task EXCEPT ![t].pc = "emit"]
    /\ UNCHANGED <<events, retained, present, attached, expired, conn, client>>

\* watch_exit
Exit ==
    /\ task["exit"].pc = "run"
    /\ IF present
       THEN /\ events' = Append(events, "exit")
            /\ task' = [task EXCEPT !["exit"] = [pc |-> "send", seq |-> Len(events) + 1]]
       ELSE /\ task' = [task EXCEPT !["exit"].pc = "emit"]
            /\ UNCHANGED events
    /\ UNCHANGED <<retained, open, present, attached, expired, conn, client>>

\* Mutant: the process is closed while a stream may still have output.
CloseWhenExited(t) ==
    /\ task[t].pc = "emit"
    /\ IF present /\ "exit" \in Range(events) /\ "closed" \notin Range(events)
       THEN /\ events' = Append(events, "closed")
            /\ task' = [task EXCEPT ![t] = [pc |-> "last", seq |-> Len(events) + 1]]
       ELSE /\ task' = [task EXCEPT ![t].pc = "done"]
            /\ UNCHANGED events
    /\ UNCHANGED <<retained, open, present, attached, expired, conn, client>>

\* maybe_emit_closed: whoever comes last closes the process.
EmitClosed(t) ==
    /\ task[t].pc = "emit"
    /\ IF present /\ open = 0 /\ "exit" \in Range(events) /\ "closed" \notin Range(events)
       THEN /\ events' = Append(events, "closed")
            /\ task' = [task EXCEPT ![t] = [pc |-> "last", seq |-> Len(events) + 1]]
       ELSE /\ task' = [task EXCEPT ![t].pc = "done"]
            /\ UNCHANGED events
    /\ UNCHANGED <<retained, open, present, attached, expired, conn, client>>

\* Without the lock: the notification goes to the connection attached by now, if any.
Notify(t) ==
    /\ task[t].pc \in {"send", "last"}
    /\ conn' = IF attached = NoConn
               THEN conn
               ELSE [conn EXCEPT ![attached] = Pushed(@, Note(task[t].seq))]
    /\ task' = [task EXCEPT ![t].pc = IF @ = "last" THEN "done"
                                      ELSE IF t = "exit" THEN "emit" ELSE "run"]
    /\ UNCHANGED <<events, retained, open, present, attached, expired, client>>

\* EXITED_PROCESS_RETENTION has passed since the process closed.
ForgetProcess ==
    /\ present /\ "closed" \in Range(events)
    /\ present' = FALSE
    /\ UNCHANGED <<events, retained, open, task, attached, expired, conn, client>>

(***************************************************************************)
(* The server's connections and its session registry.                      *)
(***************************************************************************)
\* SessionRegistry::attach for a resumed session
ServeInitialize(c) ==
    LET answer == IF expired THEN "unknown" ELSE IF attached # NoConn THEN "attached" ELSE "ok"
    IN  /\ conn[c].served /\ conn[c].req = "initialize"
        /\ attached' = IF answer = "ok" THEN c ELSE attached
        /\ conn' = [conn EXCEPT ![c] = Pushed([@ EXCEPT !.req = "none"], Reply(answer))]
        /\ UNCHANGED <<events, retained, open, present, task, expired, client>>

\* exec_read after the last published number
ReadResponse(after) ==
    [unknown |-> ~present,
     chunks  |-> {n \in retained : n > after},
     next    |-> Len(events) + 1,
     exited  |-> "exit" \in Range(events),
     closed  |-> "closed" \in Range(events)]

ServeRead(c) ==
    /\ conn[c].served /\ conn[c].req = "read"
    /\ conn' = [conn EXCEPT ![c] = Pushed([@ EXCEPT !.req = "none"], Reply(ReadResponse(@.after)))]
    /\ UNCHANGED <<server, client>>

\* terminate_process: the child is killed; its tasks report that in their own time.
ServeTerminate(c) ==
    /\ conn[c].served /\ conn[c].req = "terminate"
    /\ conn' = [conn EXCEPT ![c] = Pushed([@ EXCEPT !.req = "none"], Reply("terminated"))]
    /\ UNCHANGED <<server, client>>

\* run_connection ends: requests are aborted, then the session is detached.
ServerDisconnect(c) ==
    /\ conn[c].st = "cut" /\ conn[c].served
    /\ conn' = [conn EXCEPT ![c].served = FALSE, ![c].req = "none"]
    /\ attached' = IF attached = c THEN NoConn ELSE attached
    /\ UNCHANGED <<events, retained, open, present, task, expired, client>>

\* expire_if_detached: the session and its processes go.
Expire ==
    /\ attached = NoConn /\ ~expired
    /\ expired' = TRUE
    /\ present' = FALSE
    /\ UNCHANGED <<events, retained, open, task, attached, conn, client>>

(***************************************************************************)
(* The transport.                                                          *)
(***************************************************************************)
\* The connection breaks; what was still under way is lost from some point on.
Cut(c) ==
    /\ conn[c].st = "up"
    /\ \E k \in 0 .. Len(conn[c].wire) :
           conn' = [conn EXCEPT ![c].st = "cut", ![c].wire = SubSeq(@, 1, k)]
    /\ UNCHANGED <<server, client>>

\* RpcClient's reader: answers complete calls, notifications queue up.
Arrive(c) ==
    /\ conn[c].wire # <<>>
    /\ LET msg == Head(conn[c].wire)
           rest == [conn[c] EXCEPT !.wire = Tail(@)]
       IN  \/ /\ msg.k = "note"
              /\ conn' = [conn EXCEPT ![c] = [rest EXCEPT !.inbox = Append(@, msg.seq)]]
              /\ UNCHANGED rec
           \/ /\ msg.k = "reply"
              /\ conn' = [conn EXCEPT ![c] = rest]
              /\ rec' = IF rec.c = c THEN [rec EXCEPT !.ans = <<msg.body>>] ELSE rec
    /\ UNCHANGED <<server, status, current, sess>>

\* The client learns that the transport is gone, before or after reading what arrived.
SeeClosed(c) ==
    /\ conn[c].st = "cut" /\ ~conn[c].closed
    /\ conn' = [conn EXCEPT ![c].closed = TRUE]
    /\ UNCHANGED <<server, client>>

(***************************************************************************)
(* The client: readers and recovery.                                       *)
(***************************************************************************)
HandleNotification(c) ==
    /\ conn[c].reader /\ conn[c].inbox # <<>>
    /\ sess' = OnNotification(sess, Head(conn[c].inbox))
    /\ conn' = [conn EXCEPT ![c].inbox = Tail(@)]
    /\ UNCHANGED <<server, status, current, rec>>

\* The Disconnected event comes behind every notification.  request_recovery starts one
\* recovery, and only for the connection in use.
HandleDisconnect(c) ==
    /\ conn[c].reader /\ conn[c].closed
    /\ conn[c].wire = <<>> /\ conn[c].inbox = <<>>
    /\ IF status = "connected" /\ current = c
       THEN /\ status' = "recovering"
            /\ current' = NoConn
            /\ rec' = [NoRecovery EXCEPT !.pc = "dial"]
            /\ conn' = [conn EXCEPT ![c] = Dropped(@)]
       ELSE /\ conn' = [conn EXCEPT ![c].reader = FALSE]
            /\ UNCHANGED <<status, current, rec>>
    /\ UNCHANGED <<server, sess>>

\* resume_once: the reader runs before initialize is sent.
Dial ==
    /\ rec.pc = "dial"
    /\ \E c \in Conns :
           /\ conn[c].st = "unused" /\ \A d \in 1 .. c - 1 : conn[d].st # "unused"
           /\ conn' = [conn EXCEPT ![c] = [Fresh EXCEPT !.req = "initialize"]]
           /\ rec' = [pc |-> "initialize", c |-> c, ans |-> <<>>]
    /\ UNCHANGED <<server, status, current, sess>>

\* The candidate is given up and another attempt is made.
Retry ==
    /\ rec' = [NoRecovery EXCEPT !.pc = "dial"]
    /\ conn' = [conn EXCEPT ![rec.c] = Dropped(@)]
    /\ UNCHANGED <<status, current, sess>>

\* Mutant: the environment fails and its sessions are left as they are.
FailQuietly ==
    /\ status' = "failed"
    /\ rec' = NoRecovery
    /\ conn' = IF rec.c = NoConn THEN conn ELSE [conn EXCEPT ![rec.c] = Dropped(@)]
    /\ UNCHANGED <<current, sess>>

\* fail: the status changes before the sessions are told.
Fail ==
    /\ status' = "failed"
    /\ rec' = [NoRecovery EXCEPT !.pc = "failing"]
    /\ conn' = IF rec.c = NoConn THEN conn ELSE [conn EXCEPT ![rec.c] = Dropped(@)]
    /\ UNCHANGED <<current, sess>>

\* The next call on the candidate.  A connection known to be closed takes none.
Call(op) ==
    IF conn[rec.c].closed
    THEN Retry
    ELSE /\ conn' = [conn EXCEPT ![rec.c].req = IF conn[rec.c].st = "up" THEN op ELSE "none",
                                 ![rec.c].after = Len(sess.pub)]
         /\ rec' = [rec EXCEPT !.pc = op, !.ans = <<>>]
         /\ UNCHANGED <<status, current, sess>>

\* A session that is still routed is asked for what it missed; then comes the installation.
ToInstall == rec' = [rec EXCEPT !.pc = "install", !.ans = <<>>]

\* initialize_rpc, then recover_processes
Initialized ==
    /\ rec.pc = "initialize" /\ rec.ans # <<>>
    /\ \/ /\ rec.ans[1] = "ok" /\ sess.routed
          /\ Call("read")
       \/ /\ rec.ans[1] = "ok" /\ ~sess.routed
          /\ ToInstall
          /\ UNCHANGED <<status, current, sess, conn>>
       \/ /\ rec.ans[1] = "attached"
          /\ Retry
       \/ /\ rec.ans[1] = "unknown"
          /\ Fail
    /\ UNCHANGED server

\* What was read is merged; a process that cannot be recovered is terminated first and
\* failed when that is answered.
MergeRead ==
    /\ rec.pc = "read" /\ rec.ans # <<>>
    /\ \E result \in Recovered(sess, rec.ans[1]) :
           /\ sess' = IF result.err THEN result.s ELSE Settled(result.s)
           /\ rec' = [rec EXCEPT !.pc = IF result.err THEN "doomed" ELSE "install", !.ans = <<>>]
    /\ UNCHANGED <<server, conn, status, current>>

TerminateDoomed ==
    /\ rec.pc = "doomed"
    /\ Call("terminate")
    /\ UNCHANGED server

Terminated ==
    /\ rec.pc = "terminate" /\ rec.ans # <<>>
    /\ sess' = FailedAndRemoved(sess)
    /\ ToInstall
    /\ UNCHANGED <<server, conn, status, current>>

\* drain_pending: the call fails when the reader has seen the end of the stream.
CallClosed ==
    /\ rec.pc \in {"initialize", "read", "terminate"} /\ rec.ans = <<>>
    /\ conn[rec.c].closed /\ conn[rec.c].wire = <<>>
    /\ Retry
    /\ UNCHANGED server

\* Mutant: the candidate is installed without asking again whether it is still connected.
InstallUnchecked ==
    /\ rec.pc = "install"
    /\ status' = "connected"
    /\ current' = rec.c
    /\ rec' = NoRecovery
    /\ UNCHANGED <<server, conn, sess>>

\* install_recovered_client
Install ==
    /\ rec.pc = "install"
    /\ \/ /\ ~conn[rec.c].closed
          /\ status' = "connected"
          /\ current' = rec.c
          /\ rec' = NoRecovery
          /\ UNCHANGED <<conn, sess>>
       \/ /\ conn[rec.c].closed
          /\ Retry
    /\ UNCHANGED server

\* InitializeTimedOut: the server may have attached the candidate all the same.
InitializeTimeout ==
    /\ rec.pc = "initialize" /\ rec.ans = <<>>
    /\ Retry
    /\ UNCHANGED server

\* SESSION_RECOVERY_TIMEOUT has passed at one of the awaits.
RecoveryTimeout ==
    /\ rec.pc \in {"dial", "initialize", "read", "terminate"}
    /\ Fail
    /\ UNCHANGED server

\* fail_all_sessions
FailSessions ==
    /\ rec.pc = "failing"
    /\ sess' = IF sess.routed THEN FailedAndRemoved(sess) ELSE sess
    /\ rec' = NoRecovery
    /\ UNCHANGED <<server, conn, status, current>>

(***************************************************************************)
(* The whole.                                                              *)
(***************************************************************************)
\* What happens by itself: notifications, requests and disconnects are handled.
Machinery ==
    \/ \E t \in Tasks : Notify(t) \/ EmitClosed(t)
    \/ \E c \in Conns :
           \/ ServeInitialize(c) \/ ServeRead(c) \/ ServeTerminate(c) \/ ServerDisconnect(c)
           \/ Arrive(c) \/ SeeClosed(c) \/ HandleNotification(c) \/ HandleDisconnect(c)
    \/ Dial \/ Initialized \/ MergeRead \/ TerminateDoomed \/ Terminated
    \/ CallClosed \/ Install \/ InitializeTimeout \/ RecoveryTimeout \/ FailSessions

Next ==
    \/ Machinery
    \/ \E t \in Streams : Output(t) \/ EndOfStream(t)
    \/ Exit
    \/ ForgetProcess
    \/ Expire
    \/ \E c \in Conns : Cut(c)

Spec == Init /\ [][Next]_vars

\* Tasks are scheduled, sockets report what happened to them, and the recovery deadline
\* passes; nothing says that a process ends, or that a connection breaks.
FairSpec == Spec /\ WF_vars(Machinery)

(***************************************************************************)
(* Properties.                                                             *)
(***************************************************************************)
\* Every variable keeps its type.
TypeOK ==
    /\ events \in Seq(Kinds)
    /\ retained \subseteq DOMAIN events
    /\ open \in 0..Cardinality(Streams)
    /\ present \in BOOLEAN /\ expired \in BOOLEAN
    /\ task \in [Tasks -> [pc: {"run", "send", "emit", "last", "done"}, seq: Nat]]
    /\ attached \in Conns \cup {NoConn}
    /\ \A c \in Conns :
           /\ conn[c].st \in {"unused", "up", "cut"}
           /\ conn[c].inbox \in Seq(DOMAIN events)
           /\ conn[c].req \in {"none", "initialize", "read", "terminate"}
           /\ conn[c].closed \in BOOLEAN /\ conn[c].reader \in BOOLEAN /\ conn[c].served \in BOOLEAN
    /\ status \in {"connected", "recovering", "failed"}
    /\ current \in Conns \cup {NoConn}
    /\ rec.pc \in {"none", "dial", "initialize", "read", "doomed", "terminate", "install", "failing"}
    /\ sess.pub \in Seq(Kinds)
    /\ Cardinality(Pending(sess)) <= MaxPending

\* A consumer sees the events of the process in their order, none twice, none invented,
\* across lost and late notifications and any number of reconnects.
PublishedInOrder == IsPrefix(sess.pub, events)

\* A stream that ends with Closed is complete: what could not be recovered is reported as
\* a failure instead ("process events are no longer retained").
NoSilentLoss == Published(sess, "closed") => sess.pub = events

\* The connection in use has a reader, so its end will be noticed.
InUseIsWatched ==
    /\ status = "connected" => conn[current].reader
    /\ status = "recovering" <=> rec.pc \notin {"none", "failing"}

\* Once a process has closed, its consumer gets the Closed event or a failure.
SessionEnds == "closed" \in Range(events) ~> Over(sess)

\* Failing the environment leaves no session waiting.
FailureIsTold == status = "failed" ~> Over(sess)
=============================================================================
