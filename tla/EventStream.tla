----------------------------- MODULE EventStream -----------------------------
(***************************************************************************)
(* The push channel for workflow events: EventRouter.emit                   *)
(* (core/event_router.py) called by concurrent threads, the                 *)
(* WorkflowEventBroadcaster that it notifies while it holds its lock, and   *)
(* the WebSocketServer with one bounded queue, writer and reader per client *)
(* (cp/ws_server.py).                                                       *)
(*                                                                          *)
(* A workflow event is its position in `log`, the workflow_events rows in   *)
(* the order of their INSERTs.  Type, message and payload are left out, and *)
(* with them the redaction of the payload, which emit makes before it takes *)
(* the lock.  The broadcaster is subscribed once, at bootstrap.             *)
(***************************************************************************)
EXTENDS Integers, Sequences, FiniteSets, SequencesExt

CONSTANTS
    Runs,       \* the workflow runs events are attributed to
    Emitters,   \* threads that call emit
    Clients,    \* WebSocket clients, each connecting at most once
    QueueSize,  \* client_queue_size
    MaxEvents   \* bound on the events emitted

ASSUME StreamAssumption ==
    /\ QueueSize \in Nat \ {0}
    /\ MaxEvents \in Nat

VARIABLES
    log,          \* workflow_events: [run, seq] in insertion order
    lock,         \* EventRouter._lock: the emitter that holds it, {} when free
    em,           \* per emitter: where its call of emit is, and its locals
    clients,      \* WorkflowEventBroadcaster._clients
    connections,  \* WebSocketServer._connections
    server,       \* the server's life
    closing,      \* the connections stop() has still to close
    phase,        \* per client: where _handle_client is
    closed,       \* _WebSocketConnection._closed
    queue,        \* _WebSocketConnection._queue
    got,          \* per client: the frames written to its socket (history)
    since         \* per client: Len(log) when it was registered (history)

routerVars == <<log, lock, em>>
serverVars == <<server, closing>>
connVars == <<closed, queue>>
historyVars == <<got, since>>
vars == <<routerVars, clients, connections, serverVars, phase, connVars, historyVars>>

Idle == [at |-> "idle", run |-> {}, row |-> 0, todo |-> {}, dead |-> {}]

Init ==
    /\ log = <<>> /\ lock = {} /\ em = [e \in Emitters |-> Idle]
    /\ clients = {} /\ connections = {}
    /\ server = "off" /\ closing = {}
    /\ phase = [c \in Clients |-> "away"]
    /\ closed = [c \in Clients |-> FALSE]
    /\ queue = [c \in Clients |-> <<>>]
    /\ got = [c \in Clients |-> <<>>]
    /\ since = [c \in Clients |-> 0]

-----------------------------------------------------------------------------
\* EventRouter.emit.

\* Mutant of LockFree: emit does not take the lock.
NoLock == TRUE

LockFree == lock = {}

\* _next_seq: MAX(seq) + 1 over the run's rows.
NextSeq(r) == Cardinality({i \in DOMAIN log : log[i].run = r}) + 1

\* A call of emit that waits for the lock.  A call without a run id raises, and
\* a kernel event that names no run is dropped, before anything happens.
Emit(e, r) ==
    /\ em[e].at = "idle"
    /\ Len(log) + Cardinality({x \in Emitters : em[x].at \in {"wait", "insert"}})
            < MaxEvents
    /\ em' = [em EXCEPT ![e] = [Idle EXCEPT !.at = "wait", !.run = {r}]]
    /\ UNCHANGED <<log, lock, clients, connections, serverVars, phase, connVars, historyVars>>

\* The lock is taken and the run's next seq is read.
TakeSeq(e) ==
    /\ em[e].at = "wait" /\ LockFree
    /\ lock' = {e}
    /\ \E r \in em[e].run :
          em' = [em EXCEPT ![e].at = "insert", ![e].row = NextSeq(r)]
    /\ UNCHANGED <<log, clients, connections, serverVars, phase, connVars, historyVars>>

\* _persist: the INSERT, after which the event is its row; or it raises (a seq
\* that is taken violates the primary key), and emit raises with it: nobody is
\* notified and no seq is used up.
Persist(e) ==
    /\ em[e].at = "insert"
    /\ \/ /\ \E r \in em[e].run :
                LET row == [run |-> r, seq |-> em[e].row]
                IN row \notin Range(log) /\ log' = Append(log, row)
          /\ em' = [em EXCEPT ![e].at = "notify", ![e].row = Len(log')]
          /\ UNCHANGED lock
       \/ /\ em' = [em EXCEPT ![e] = Idle]
          /\ lock' = {}
          /\ UNCHANGED log
    /\ UNCHANGED <<clients, connections, serverVars, phase, connVars, historyVars>>

-----------------------------------------------------------------------------
\* WorkflowEventBroadcaster.broadcast, called by _notify under the router's lock.

\* The clients of the moment are copied.
Snapshot(e) ==
    /\ em[e].at = "notify"
    /\ em' = [em EXCEPT ![e].at = "send", ![e].todo = clients]
    /\ UNCHANGED <<log, lock, clients, connections, serverVars, phase, connVars, historyVars>>

\* _WebSocketConnection.send raises: closed, or the client is too slow.
SendRaises(c) == closed[c] \/ Len(queue[c]) = QueueSize

Send(e, c) ==
    /\ em[e].at = "send" /\ c \in em[e].todo
    /\ em' = [em EXCEPT ![e].todo = @ \ {c},
                        ![e].dead = IF SendRaises(c) THEN @ \cup {c} ELSE @]
    /\ queue' = IF SendRaises(c) THEN queue
                ELSE [queue EXCEPT ![c] = Append(@, em[e].row)]
    /\ UNCHANGED <<log, lock, clients, connections, serverVars, phase, closed, historyVars>>

\* The clients that failed are taken off the list in one critical section ...
DropDead(e) ==
    /\ em[e].at = "send" /\ em[e].todo = {} /\ em[e].dead /= {}
    /\ clients' = clients \ em[e].dead
    /\ em' = [em EXCEPT ![e].at = "close"]
    /\ UNCHANGED <<log, lock, connections, serverVars, phase, connVars, historyVars>>

\* _WebSocketConnection.close, by any thread, idempotent.  Nobody reads the
\* queue of a closed connection: what is left in it is dropped, and the None
\* that wakes the writer, if there is room for it, is not modelled.
Close(c) ==
    /\ closed' = [closed EXCEPT ![c] = TRUE]
    /\ queue' = [queue EXCEPT ![c] = <<>>]

\* ... and then closed one by one.
CloseDead(e, c) ==
    /\ em[e].at = "close" /\ c \in em[e].dead
    /\ Close(c)
    /\ em' = [em EXCEPT ![e].dead = @ \ {c}]
    /\ UNCHANGED <<log, lock, clients, connections, serverVars, phase, historyVars>>

\* emit returns.
Release(e) ==
    /\ em[e].at \in {"send", "close"} /\ em[e].todo = {} /\ em[e].dead = {}
    /\ em' = [em EXCEPT ![e] = Idle]
    /\ lock' = {}
    /\ UNCHANGED <<log, clients, connections, serverVars, phase, connVars, historyVars>>

-----------------------------------------------------------------------------
\* WebSocketServer: start, the accept loop and stop.

\* start and the first part of _serve: the listener is bound, or start raises.
Start ==
    /\ server = "off"
    /\ server' \in {"listening", "failed"}
    /\ UNCHANGED <<routerVars, clients, connections, closing, phase, connVars, historyVars>>

\* _serve accepts until the listener is closed; every client gets a thread.
Accept(c) ==
    /\ server = "listening" /\ phase[c] = "away"
    /\ phase' = [phase EXCEPT ![c] = "handshake"]
    /\ UNCHANGED <<routerVars, clients, connections, serverVars, connVars, historyVars>>

\* stop: the listener is closed, the connections of the moment are copied ...
Stop ==
    /\ server = "listening"
    /\ server' = "stopping"
    /\ closing' = connections
    /\ UNCHANGED <<routerVars, clients, connections, phase, connVars, historyVars>>

\* ... and closed one by one.
StopClose(c) ==
    /\ server = "stopping" /\ c \in closing
    /\ closing' = closing \ {c}
    /\ Close(c)
    /\ UNCHANGED <<routerVars, clients, connections, server, phase, historyVars>>

StopReturns ==
    /\ server = "stopping" /\ closing = {}
    /\ server' = "stopped"
    /\ UNCHANGED <<routerVars, clients, connections, closing, phase, connVars, historyVars>>

-----------------------------------------------------------------------------
\* _handle_client, one thread per client.

Handler(c, from, to) == phase[c] = from /\ phase' = [phase EXCEPT ![c] = to]

\* _perform_handshake fails and the socket is closed.
Refuse(c) ==
    /\ Handler(c, "handshake", "refused")
    /\ UNCHANGED <<routerVars, clients, connections, serverVars, connVars, historyVars>>

\* The upgrade is answered and the new connection is put on the server's list.
Track(c) ==
    /\ Handler(c, "handshake", "tracked")
    /\ connections' = connections \cup {c}
    /\ UNCHANGED <<routerVars, clients, serverVars, connVars, historyVars>>

Register(c) ==
    /\ Handler(c, "tracked", "registered")
    /\ clients' = clients \cup {c}
    /\ since' = [since EXCEPT ![c] = Len(log)]
    /\ UNCHANGED <<routerVars, connections, serverVars, connVars, got>>

\* connection.start: from now on its writer and its reader run.
StartThreads(c) ==
    /\ Handler(c, "registered", "started")
    /\ UNCHANGED <<routerVars, clients, connections, serverVars, connVars, historyVars>>

\* Mutant of Unregister: the handler forgets the broadcaster.
ForgetUnregister(c) ==
    /\ closed[c]
    /\ Handler(c, "started", "gone")
    /\ connections' = connections \ {c}
    /\ UNCHANGED <<routerVars, clients, serverVars, connVars, historyVars>>

\* wait_closed returns, and the connection leaves both lists.  Nobody can tell
\* the two removals apart: a second close of the connection changes nothing.
Unregister(c) ==
    /\ closed[c]
    /\ Handler(c, "started", "gone")
    /\ clients' = clients \ {c}
    /\ connections' = connections \ {c}
    /\ UNCHANGED <<routerVars, serverVars, connVars, historyVars>>

-----------------------------------------------------------------------------
\* The threads of a connection, which end when it is closed.

\* _write_loop: a frame is written; or the write fails or times out, and the
\* writer closes the connection.
Write(c) ==
    /\ phase[c] = "started" /\ ~closed[c] /\ queue[c] /= <<>>
    /\ \/ /\ queue' = [queue EXCEPT ![c] = Tail(@)]
          /\ got' = [got EXCEPT ![c] = Append(@, Head(queue[c]))]
          /\ UNCHANGED closed
       \/ Close(c) /\ UNCHANGED got
    /\ UNCHANGED <<routerVars, clients, connections, serverVars, phase, since>>

\* _read_loop: the client has left, and the reader closes the connection.
Read(c) ==
    /\ phase[c] = "started" /\ ~closed[c]
    /\ Close(c)
    /\ UNCHANGED <<routerVars, clients, connections, serverVars, phase, historyVars>>

-----------------------------------------------------------------------------
EmitterNext(e) ==
    \/ TakeSeq(e) \/ Persist(e) \/ Snapshot(e) \/ DropDead(e) \/ Release(e)
    \/ \E c \in Clients : Send(e, c) \/ CloseDead(e, c)

HandlerNext(c) ==
    Refuse(c) \/ Track(c) \/ Register(c) \/ StartThreads(c) \/ Unregister(c)

Next ==
    \/ \E e \in Emitters : EmitterNext(e) \/ \E r \in Runs : Emit(e, r)
    \/ \E c \in Clients :
            HandlerNext(c) \/ Accept(c) \/ StopClose(c) \/ Write(c) \/ Read(c)
    \/ Start \/ Stop \/ StopReturns

Spec == Init /\ [][Next]_vars

\* Threads run.  Nobody is obliged to emit, to connect, to leave or to stop the
\* server.
FairSpec ==
    /\ Spec
    /\ \A e \in Emitters : WF_vars(EmitterNext(e))
    /\ \A c \in Clients :
        WF_vars(HandlerNext(c)) /\ WF_vars(StopClose(c)) /\ WF_vars(Write(c))
    /\ WF_vars(StopReturns)

-----------------------------------------------------------------------------
\* What client c has been sent: written frames, then queued ones.
Held(c) == got[c] \o queue[c]

\* The last event that a registered client must have been sent: the last row,
\* except while emit has still to hand it over.
Due(c) ==
    IF \E e \in Emitters : em[e].at = "notify" \/ c \in em[e].todo
    THEN Len(log) - 1 ELSE Len(log)

\* The rows of a run are numbered 1, 2, ... in the order of their INSERTs,
\* whatever emitters collide in emit.
RunsNumbered ==
    \A i \in DOMAIN log :
        log[i].seq = Cardinality({j \in 1..i : log[j].run = log[i].run})

\* What a client is sent is a gap-free stretch of the log in order, and as long
\* as it is registered and open it has every event emitted since: a client that
\* cannot keep up is dropped, it never misses an event silently.
StreamFaithful ==
    /\ RunsNumbered
    /\ \A c \in Clients :
        /\ \A i \in 1..(Len(Held(c)) - 1) : Held(c)[i + 1] = Held(c)[i] + 1
        /\ c \in clients /\ ~closed[c] /\ (\A e \in Emitters : c \notin em[e].dead)
              => (since[c] + 1)..Due(c) \subseteq Range(Held(c))

\* Every connection keeps up or is closed, and a closed one leaves the
\* broadcaster and the server: neither list grows with dead clients.
ConnectionsSettle ==
    \A c \in Clients :
        /\ []<>(closed[c] \/ queue[c] = <<>>)
        /\ closed[c] ~> c \notin clients \cup connections

\* "stop closes the listener, drops all clients" (WebSocketServer).
StopDropsClients ==
    \A c \in Clients : server = "stopped" ~> c \notin clients \cup connections
=============================================================================
