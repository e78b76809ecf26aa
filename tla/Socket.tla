------------------------------- MODULE Socket -------------------------------
(***************************************************************************)
(* One transport of transport.c with its socket private part of socket.c:  *)
(* client threads connect, submit, receive and disconnect; the dispatcher  *)
(* thread runs socket_event_handler.  Every critical section under         *)
(* priv->lock (or transport->lock) is one step; the handler takes the lock *)
(* once for each of its phases and lets the clients in between.            *)
(*                                                                         *)
(* The event pool is seen through what EventPool shows of it: the handler  *)
(* of a registered descriptor is called for a snapshot of its readiness.   *)
(* The kernel's connection and the peer are the environment.               *)
(*                                                                         *)
(* Bytes are units <<c, m, k>>: the k-th unit of message m of connection c. *)
(***************************************************************************)
EXTENDS Integers, Sequences, FiniteSets, SequencesExt

CONSTANTS
    Threads,    \* client threads
    OutVectors, \* messages that clients submit: the lengths of buf and of the vector
    InKinds,    \* messages of the peer: [valid, size1, size2]
    HdrLen,     \* sizeof (struct socket_header)
    MaxConns,   \* bound: connections of the transport
    MaxOut,     \* bound: messages submitted on a connection
    MaxIn       \* bound: messages the peer sends on a connection

ASSUME HdrLenAssumption == HdrLen \in Nat \ {0}
ASSUME BoundsAssumption == MaxConns \in Nat \ {0} /\ MaxOut \in Nat /\ MaxIn \in Nat
ASSUME MessagesAssumption ==
    /\ OutVectors \subseteq Seq(Nat)
    /\ \A k \in InKinds : k.size1 \in Nat /\ k.size2 \in Nat
ASSUME ThreadsAssumption == IsFiniteSet(Threads) /\ Threads # {}

VARIABLES
    sock,        \* priv->sock is not -1
    connected,   \* priv->connected, an unsigned char: -1 is stored as 255
    ioq,         \* priv->ioq: the pending vector of each entry
    incoming,    \* priv->incoming
    registered,  \* sock has a slot of the event pool
    pollout,     \* the slot asks for EPOLLOUT
    refcount,    \* transport->refcount
    freed,       \* transport_destroy has run
    holds,       \* the threads with a reference of their own
    pc,          \* where each thread is inside socket_connect
    hpc,         \* where the handler is
    ev,          \* poll_in, poll_out and poll_err of its event
    ret,         \* its local `ret'
    conn,        \* kernel: the connection of sock
    wire,        \* kernel: units written to the connection
    flight,      \* network: units the peer sent that did not arrive yet
    rx,          \* kernel: units that arrived and were not read yet
    accepted,    \* messages that socket_submit took on this connection
    sent,        \* messages the peer sent on this connection
    received,    \* what socket_receive returned on this connection
    conns        \* connections made so far

priv == <<sock, connected, ioq, incoming>>
pool == <<registered, pollout>>
life == <<refcount, freed, holds>>
handler == <<hpc, ev, ret>>
kernel == <<conn, wire, flight, rx>>
history == <<accepted, sent, received, conns>>
vars == <<priv, pool, life, pc, handler, kernel, history>>

-----------------------------------------------------------------------------
(* struct iovec *)

\* The length of the first j elements.
Upto(vec, j) ==
    LET sum[i \in 0 .. Len(vec)] == IF i = 0 THEN 0 ELSE sum[i - 1] + vec[i]
    IN  sum[j]

\* iov_length
Total(vec) == Upto(vec, Len(vec))

\* The inner loops of __socket_rwv: n > 0 units have moved; elements that are
\* done, and empty ones after them, are skipped.
Advance(vec, n) ==
    LET k == Cardinality({j \in DOMAIN vec : Upto(vec, j) <= n})
    IN  IF k = Len(vec) THEN <<>>
        ELSE [SubSeq(vec, k + 1, Len(vec)) EXCEPT ![1] = @ - (n - Upto(vec, k))]

\* The units lo + 1 .. hi of message m of connection c.
Units(c, m, lo, hi) == [i \in 1 .. hi - lo |-> <<c, m, lo + i>>]

-----------------------------------------------------------------------------
(* The queue of outgoing messages *)

Pending(q) == [i \in DOMAIN q |-> Total(q[i].vec)]

\* __socket_ioq_new: the header goes before the caller's vector.
Entry(v) ==
    [conn |-> conns, msg |-> Len(accepted) + 1, size |-> HdrLen + Total(v),
     vec  |-> <<HdrLen>> \o v, dead |-> FALSE]

\* The units of q that are not written yet, in the order they will be.
Rest(q) == FlattenSeq([i \in DOMAIN q |-> Units(q[i].conn, q[i].msg, q[i].size - Total(q[i].vec), q[i].size)])

\* __socket_ioq_churn: writev takes n units; the entries written whole are freed.
Churned(q, n) ==
    LET k    == Cardinality({j \in DOMAIN q : Upto(Pending(q), j) <= n})
        left == SubSeq(q, k + 1, Len(q))
        more == n - Upto(Pending(q), k)
    IN  IF more = 0 THEN left ELSE [left EXCEPT ![1].vec = Advance(@, more)]

\* A failed writev leaves pending_count = -1 in the entry.
Failed(q) == [q EXCEPT ![1].dead = TRUE]

Writable == conn \in {"up", "fin"}

-----------------------------------------------------------------------------
(* Incoming messages *)

Nada == [state |-> "NADA", hdr |-> <<>>, body |-> <<>>]

\* __socket_readv of `want' units on a non-blocking socket: 0 when all came, -1
\* at the end of the stream, 1 when more has to come.
Readv(q, want) ==
    LET n == IF want <= Len(q) THEN want ELSE Len(q)
    IN  [got  |-> SubSeq(q, 1, n),
         rest |-> SubSeq(q, n + 1, Len(q)),
         ret  |-> IF n = want THEN 0 ELSE IF conn = "up" THEN 1 ELSE -1]

\* __socket_proto_validate_header: the units are a whole header and say sizes
\* that are within the limits.
Header(m) == Units(conns, m, 0, HdrLen)
Validated(hdr) == \E m \in DOMAIN sent : hdr = Header(m) /\ sent[m].valid
Announced(hdr) == sent[hdr[1][2]]
Sizes(hdr) == Announced(hdr).size1 + Announced(hdr).size2

Outcome(i, q, r) == [inc |-> i, rx |-> q, ret |-> r]

HeaderComing(i, q) ==
    LET r == Readv(q, HdrLen - Len(i.hdr))
    IN  Outcome([i EXCEPT !.hdr = @ \o r.got,
                          !.state = IF r.ret = 0 THEN "HEADER_CAME" ELSE "HEADER_COMING"],
                r.rest, r.ret)

\* The header is refused, or iobuf_get fails (-ENOMEM), or the data can come.
HeaderCame(i, q, mem) ==
    IF Validated(i.hdr) /\ (mem \/ Announced(i.hdr).size2 = 0)
    THEN Outcome([i EXCEPT !.state = "DATA_COMING"], q, 0)
    ELSE Outcome(i, q, -1)

\* Mutant: a read that continues a message forgets what came before.
DataComingForgets(i, q) ==
    LET r == Readv(q, Sizes(i.hdr) - Len(i.body))
    IN  Outcome([i EXCEPT !.body = r.got,
                          !.state = IF r.ret = 0 THEN "COMPLETE" ELSE "DATA_COMING"],
                r.rest, r.ret)

DataComing(i, q) ==
    LET r == Readv(q, Sizes(i.hdr) - Len(i.body))
    IN  Outcome([i EXCEPT !.body = @ \o r.got,
                          !.state = IF r.ret = 0 THEN "COMPLETE" ELSE "DATA_COMING"],
                r.rest, r.ret)

\* __socket_proto_state_machine: the states one after the other while ret is 0.
\* A message that nobody has received yet makes it return its initial -1.
StateMachine(mem) ==
    LET o1 == IF incoming.state \in {"NADA", "HEADER_COMING"} THEN HeaderComing(incoming, rx)
              ELSE Outcome(incoming, rx, IF incoming.state = "COMPLETE" THEN -1 ELSE 0)
        o2 == IF o1.ret = 0 /\ o1.inc.state = "HEADER_CAME" THEN HeaderCame(o1.inc, o1.rx, mem)
              ELSE o1
    IN  IF o2.ret = 0 /\ o2.inc.state = "DATA_COMING" THEN DataComing(o2.inc, o2.rx) ELSE o2

-----------------------------------------------------------------------------
(* Starting points *)

Fresh ==
    /\ ioq = <<>> /\ incoming = Nada /\ freed = FALSE
    /\ pc = [t \in Threads |-> "idle"]
    /\ hpc = "idle" /\ ev = [in |-> FALSE, out |-> FALSE, err |-> FALSE] /\ ret = 0
    /\ wire = <<>> /\ flight = <<>> /\ rx = <<>>
    /\ accepted = <<>> /\ sent = <<>> /\ received = <<>>

\* transport_load and socket_init; every client thread took a reference.
ClientInit ==
    /\ Fresh
    /\ sock = FALSE /\ connected = 255 /\ registered = FALSE /\ pollout = FALSE
    /\ refcount = Cardinality(Threads) /\ holds = Threads
    /\ conn = "none" /\ conns = 0

\* The transport that socket_server_event_handler makes for an accepted
\* connection: only the event pool knows it, if event_register took it.
AcceptedInit ==
    /\ Fresh
    /\ sock = TRUE /\ connected = 1 /\ registered \in BOOLEAN /\ pollout = FALSE
    /\ refcount = 1 /\ holds = {}
    /\ conn = "up" /\ conns = 1

Init == ClientInit \/ AcceptedInit

-----------------------------------------------------------------------------
(* Client threads.  A thread that calls an operation has a reference. *)

Calls(t, from) == t \in holds /\ pc[t] = from

\* socket_connect up to its first unlock; a name lookup follows, without the
\* lock.
ConnectCheck(t) ==
    /\ Calls(t, "idle")
    /\ ~sock
    /\ conns < MaxConns
    /\ pc' = [pc EXCEPT ![t] = "lookup"]
    /\ UNCHANGED <<priv, pool, life, handler, kernel, history>>

\* The lookup fails, or another thread has connected meanwhile, or no socket can
\* be made, bound and connected: nothing has changed.
ConnectFails(t) ==
    /\ Calls(t, "lookup")
    /\ pc' = [pc EXCEPT ![t] = "idle"]
    /\ UNCHANGED <<priv, pool, life, handler, kernel, history>>

\* What socket_connect does with a socket whose connect() is under way.  When
\* event_register fails the socket and the reference stay.
Connecting(t, ok) ==
    /\ sock' = TRUE /\ connected' = 0
    /\ refcount' = refcount + 1
    /\ registered' = ok /\ pollout' = ok
    /\ conn' = "connecting" /\ conns' = conns + 1
    /\ pc' = [pc EXCEPT ![t] = "idle"]
    /\ UNCHANGED <<ioq, incoming, freed, holds, handler, wire, flight, rx, accepted, sent, received>>

\* Mutant: the second look at priv->sock is missing.
ConnectTwice(t, ok) ==
    /\ Calls(t, "lookup")
    /\ conns < MaxConns
    /\ Connecting(t, ok)

\* socket_connect with the lock taken again.
ConnectDo(t, ok) ==
    /\ Calls(t, "lookup")
    /\ ~sock
    /\ conns < MaxConns
    /\ Connecting(t, ok)

\* __socket_disconnect: the caller has seen an open socket.
Disconnected == connected' = 255 /\ conn' = "broken"

socket_disconnect(t) ==
    /\ Calls(t, "idle")
    /\ sock
    /\ Disconnected
    /\ UNCHANGED <<sock, ioq, incoming, pool, life, pc, handler, wire, flight, rx, history>>

\* Mutant: POLLOUT is not asked for after a partial write.
SubmitUnwatched(t, v) ==
    /\ Calls(t, "idle") /\ connected = 1 /\ Len(accepted) < MaxOut
    /\ ioq = <<>> /\ Writable
    /\ \E n \in 0 .. Entry(v).size :
           /\ wire' = wire \o SubSeq(Rest(<<Entry(v)>>), 1, n)
           /\ ioq' = Churned(<<Entry(v)>>, n)
    /\ accepted' = Append(accepted, Entry(v).size)
    /\ UNCHANGED <<sock, connected, incoming, pool, life, pc, handler, conn, flight, rx, sent, received, conns>>

\* socket_submit.  With an empty queue the message is written at once as far as
\* the kernel takes it; what is left waits for POLLOUT.  A write that fails is
\* not reported: the message is queued, dead, and the hangup will flush it.
socket_submit(t, v) ==
    /\ Calls(t, "idle")
    /\ connected = 1
    /\ Len(accepted) < MaxOut
    /\ \/ /\ ioq = <<>> /\ Writable
          /\ \E n \in 0 .. Entry(v).size :
                 /\ wire' = wire \o SubSeq(Rest(<<Entry(v)>>), 1, n)
                 /\ ioq' = Churned(<<Entry(v)>>, n)
          /\ pollout' = (pollout \/ ioq' # <<>>)
       \/ /\ ioq = <<>> /\ ~Writable
          /\ ioq' = Failed(<<Entry(v)>>)
          /\ UNCHANGED <<wire, pollout>>
       \/ /\ ioq # <<>>
          /\ ioq' = Append(ioq, Entry(v))
          /\ UNCHANGED <<wire, pollout>>
    /\ accepted' = Append(accepted, Entry(v).size)
    /\ UNCHANGED <<sock, connected, incoming, registered, life, pc, handler, conn, flight, rx,
                   sent, received, conns>>

\* socket_receive: the caller takes hdr_p and the iobuf of a complete message.
socket_receive(t) ==
    /\ Calls(t, "idle")
    /\ connected = 1
    /\ incoming.state = "COMPLETE"
    /\ received' = Append(received, incoming.hdr \o incoming.body)
    /\ incoming' = Nada
    /\ UNCHANGED <<sock, connected, ioq, pool, life, pc, handler, kernel, accepted, sent, conns>>

\* transport_unref, with transport_destroy and socket_fini at zero.
Unref == refcount' = refcount - 1 /\ freed' = (refcount = 1)

\* A client lets its reference go.
transport_unref(t) ==
    /\ Calls(t, "idle")
    /\ Unref
    /\ holds' = holds \ {t}
    /\ UNCHANGED <<priv, pool, pc, handler, kernel, history>>

-----------------------------------------------------------------------------
(* The dispatcher thread *)

\* The kernel reports the descriptor, and event_dispatch_epoll calls
\* socket_event_handler; room: a write would make progress.
Dispatch(room) ==
    /\ hpc = "idle"
    /\ registered
    /\ conn # "connecting"
    /\ room => Writable
    /\ ev' = [in  |-> rx # <<>> \/ conn \in {"fin", "broken"},
              out |-> pollout /\ (room \/ conn = "broken"),
              err |-> conn = "broken"]
    /\ ev'.in \/ ev'.out \/ ev'.err
    /\ hpc' = "finish" /\ ret' = 0
    /\ UNCHANGED <<priv, pool, life, pc, kernel, history>>

\* socket_connect_finish; it returns 0 whatever happens.
ConnectFinish(named) ==
    /\ hpc = "finish"
    /\ hpc' = "out"
    /\ \/ connected # 0 /\ UNCHANGED <<connected, conn>>
       \/ connected = 0 /\ Writable /\ named /\ connected' = 1 /\ UNCHANGED conn
       \/ connected = 0 /\ ~(Writable /\ named) /\ Disconnected
    /\ UNCHANGED <<sock, ioq, incoming, pool, life, pc, ev, ret, wire, flight, rx, history>>

\* __socket_ioq_churn when the kernel takes n of the units that wait.
Churn(n) ==
    /\ wire' = wire \o SubSeq(Rest(ioq), 1, n)
    /\ ioq' = Churned(ioq, n)
    /\ pollout' = (pollout /\ ioq' # <<>>)
    /\ ret' = IF ioq' = <<>> THEN 0 ELSE 1

\* __socket_ioq_churn fails on its first entry.
ChurnFails ==
    /\ ioq # <<>> /\ ~Writable
    /\ ioq' = Failed(ioq)
    /\ ret' = -1
    /\ Disconnected
    /\ UNCHANGED <<wire, pollout>>

\* socket_event_poll_out, when the handler gets there.
PollOut(n) ==
    /\ hpc = "out"
    /\ hpc' = "in"
    /\ \/ ~ev.out /\ n = 0 /\ UNCHANGED <<connected, ioq, pollout, wire, conn, ret>>
       \/ /\ ev.out /\ connected # 1 /\ n = 0
          /\ ret' = -1
          /\ UNCHANGED <<connected, ioq, pollout, wire, conn>>
       \/ /\ ev.out /\ connected = 1 /\ (Writable \/ ioq = <<>>)
          /\ Churn(n)
          /\ UNCHANGED <<connected, conn>>
       \/ ev.out /\ connected = 1 /\ n = 0 /\ ChurnFails
    /\ UNCHANGED <<sock, incoming, registered, life, pc, ev, flight, rx, history>>

\* socket_event_poll_in.
PollIn(mem) ==
    /\ hpc = "in"
    /\ hpc' = "err"
    /\ IF ret = 0 /\ ev.in
       THEN LET o == StateMachine(mem)
            IN  incoming' = o.inc /\ rx' = o.rx /\ ret' = o.ret
       ELSE UNCHANGED <<incoming, rx, ret>>
    /\ UNCHANGED <<sock, connected, ioq, pool, life, pc, ev, conn, wire, flight, history>>

\* __socket_reset; what the kernel and the network knew of the connection goes.
Reset ==
    /\ incoming' = Nada
    /\ sock' = FALSE /\ connected' = 255
    /\ registered' = FALSE /\ pollout' = FALSE
    /\ conn' = "none"
    /\ wire' = <<>> /\ flight' = <<>> /\ rx' = <<>>
    /\ accepted' = <<>> /\ sent' = <<>> /\ received' = <<>>

\* Mutant of MustReset: only an error or hangup that the kernel reports counts.
MustResetOnHangup == ev.err

\* The handler resets the transport when one of its parts failed or the event says so.
MustReset == ret < 0 \/ ev.err

\* Mutant: the queue is not flushed.
PollErrKeepsQueue ==
    /\ hpc = "err"
    /\ MustReset
    /\ Reset
    /\ hpc' = "unref"
    /\ UNCHANGED <<ioq, life, pc, ev, ret, conns>>

\* socket_event_poll_err: flush and reset under one lock.
PollErr ==
    /\ hpc = "err"
    /\ MustReset
    /\ ioq' = <<>>
    /\ Reset
    /\ hpc' = "unref"
    /\ UNCHANGED <<life, pc, ev, ret, conns>>

HandlerDone ==
    /\ hpc = "err"
    /\ ~MustReset
    /\ hpc' = "idle"
    /\ UNCHANGED <<priv, pool, life, pc, ev, ret, kernel, history>>

\* The handler's transport_unref, for the reference of the registration.
HandlerUnref ==
    /\ hpc = "unref"
    /\ Unref
    /\ hpc' = "idle"
    /\ UNCHANGED <<priv, pool, holds, pc, ev, ret, kernel, history>>

-----------------------------------------------------------------------------
(* The environment: the peer and the network *)

env == <<priv, pool, life, pc, handler, wire, accepted, received, conns>>

Establish == conn = "connecting" /\ conn' = "up" /\ UNCHANGED <<env, flight, rx, sent>>

\* The connection is refused, reset or times out.
Break == conn \in {"connecting", "up", "fin"} /\ conn' = "broken" /\ UNCHANGED <<env, flight, rx, sent>>

\* The peer sends a message.
PeerSend(k) ==
    /\ conn = "up" /\ flight = <<>> /\ Len(sent) < MaxIn
    /\ sent' = Append(sent, k)
    /\ flight' = Units(conns, Len(sent'), 0, HdrLen + k.size1 + k.size2)
    /\ UNCHANGED <<env, conn, rx>>

\* Some of it arrives.
Arrive(n) ==
    /\ conn = "up"
    /\ rx' = rx \o SubSeq(flight, 1, n)
    /\ flight' = SubSeq(flight, n + 1, Len(flight))
    /\ UNCHANGED <<env, conn, sent>>

\* The peer closes its side when all it sent has arrived.
PeerFin ==
    /\ conn = "up" /\ flight = <<>>
    /\ conn' = "fin"
    /\ UNCHANGED <<env, flight, rx, sent>>

-----------------------------------------------------------------------------
Client ==
    \E t \in Threads :
        \/ ConnectCheck(t)
        \/ ConnectFails(t)
        \/ \E ok \in BOOLEAN : ConnectDo(t, ok)
        \/ socket_disconnect(t)
        \/ \E v \in OutVectors : socket_submit(t, v)
        \/ socket_receive(t)
        \/ transport_unref(t)

HandlerStep ==
    \/ \E named \in BOOLEAN : ConnectFinish(named)
    \/ \E n \in 0 .. Len(Rest(ioq)) : PollOut(n)
    \/ \E mem \in BOOLEAN : PollIn(mem)
    \/ PollErr
    \/ HandlerDone
    \/ HandlerUnref

Peer ==
    \/ Establish
    \/ Break
    \/ \E k \in InKinds : PeerSend(k)
    \/ \E n \in 1 .. Len(flight) : Arrive(n)
    \/ PeerFin

Next ==
    \/ Client
    \/ \E room \in BOOLEAN : Dispatch(room)
    \/ HandlerStep
    \/ Peer

Spec == Init /\ [][Next]_vars

\* The dispatcher thread runs; a peer that stays connected reads, so that the
\* kernel has room again and again and takes some units whenever it has.
Fairness ==
    /\ WF_vars(HandlerStep)
    /\ WF_vars(\E room \in BOOLEAN : Dispatch(room))
    /\ SF_vars(Dispatch(TRUE))
    /\ SF_vars(\E n \in 1 .. Len(Rest(ioq)) : PollOut(n))

FairSpec == Spec /\ Fairness

-----------------------------------------------------------------------------
Entries ==
    [conn : 1 .. MaxConns, msg : 1 .. MaxOut, size : Nat, vec : Seq(Nat), dead : BOOLEAN]

\* The variables have their types; a queued entry always has something to
\* write, so that __socket_rwv never calls writev with nothing and takes the 0
\* it returns for a full socket.
TypeOK ==
    /\ sock \in BOOLEAN /\ registered \in BOOLEAN /\ pollout \in BOOLEAN
    /\ connected \in {0, 1, 255}
    /\ ioq \in Seq(Entries)
    /\ \A i \in DOMAIN ioq : ioq[i].vec # <<>> /\ ioq[i].vec[1] > 0
    /\ incoming.state \in {"NADA", "HEADER_COMING", "HEADER_CAME", "DATA_COMING", "COMPLETE"}
    /\ refcount \in Nat /\ freed \in BOOLEAN /\ holds \subseteq Threads
    /\ pc \in [Threads -> {"idle", "lookup"}]
    /\ hpc \in {"idle", "finish", "out", "in", "err", "unref"}
    /\ ev \in [in : BOOLEAN, out : BOOLEAN, err : BOOLEAN]
    /\ ret \in {-1, 0, 1}
    /\ conn \in {"none", "connecting", "up", "fin", "broken"}
    /\ conns \in 0 .. MaxConns

\* What clients submit goes out whole, in the order of the submits, and only on
\* the connection it was submitted on, however writes are split between
\* socket_submit and __socket_ioq_churn of the POLLOUT handler.
WireFramed ==
    sock => wire \o Rest(ioq) =
            FlattenSeq([m \in DOMAIN accepted |-> Units(conns, m, 0, accepted[m])])

\* socket_receive returns the messages of the peer whole and in order, never one
\* put together from pieces of two messages or of two connections, however the
\* units arrive at __socket_proto_state_machine.
ReceiveFramed ==
    \A m \in DOMAIN received :
        received[m] = Units(conns, m, 0, HdrLen + sent[m].size1 + sent[m].size2)

\* While messages wait, the event pool is asked for POLLOUT, or the connection
\* is broken and the hangup will come: nothing is stranded in ioq although
\* socket_submit asks for POLLOUT only when it finds ioq empty, and
\* __socket_ioq_churn takes the wish back when it has emptied ioq.
WritesWatched ==
    connected = 1 /\ ioq # <<>> => registered /\ (pollout \/ conn = "broken")

\* Every reference has an owner: a client, the registration, or the handler on
\* its way to transport_unref (a failed event_register leaks one, with the
\* socket).  So a transport is destroyed exactly when nobody can reach it, and
\* then it has no socket, queue or half-read message (transport_ref and
\* transport_unref, as socket_connect and socket_event_handler use them).
RefsAccounted ==
    /\ TypeOK
    /\ refcount = Cardinality(holds) + (IF sock THEN 1 ELSE 0) + (IF hpc = "unref" THEN 1 ELSE 0)
    /\ registered => sock
    /\ freed <=> refcount = 0
    /\ freed => hpc = "idle" /\ ioq = <<>> /\ incoming = Nada

\* A connection that ended is torn down by the handler, whatever the clients do
\* and however much output is still queued (socket_event_handler).
HangupTornDown == (registered /\ conn \in {"fin", "broken"}) ~> ~registered

\* Queued output is written or flushed in the end, however little the kernel
\* takes at a time (__socket_ioq_churn, __socket_ioq_flush).
QueueDrains == ioq # <<>> ~> ioq = <<>>
=============================================================================
