---------------------------- MODULE PeerNetwork ----------------------------
(***************************************************************************)
(* The TCP network of nodes that run apart: the server of each node, its   *)
(* table of peers, the connections and the tasks that serve them           *)
(* (lib_network: p2p_server.py, p2p_adapter.py, net_peer.py, net_node.py), *)
(* and the node's entry in its own registry (net_index_service.py).        *)
(*                                                                         *)
(* A connection has two ends, each with a task of its own: first the       *)
(* handshake, then the loop that reads messages. An action is what a task  *)
(* does from one line read to the next. TCP delivers in order what was     *)
(* written before an end was shut, then the end of the stream; writing     *)
(* towards an end that is shut may fail or seem to succeed.                *)
(*                                                                         *)
(* A connection that no task and no table refers to is closed by the       *)
(* runtime. Messages are well-formed. _cull_stale_peers is left out: it    *)
(* compares the loop's clock, seconds since the machine started, with the  *)
(* time of the day a peer was last seen, so nothing is ever stale. A       *)
(* broadcast is one Send to every peer in the table.                       *)
(***************************************************************************)
EXTENDS Integers, Sequences

CONSTANTS
    Nodes,       \* node ids; numbers, as only their order matters
    CloseWaits,  \* Server.wait_closed waits for the connections it accepted
    Patient,     \* whoever dials a peer waits for the outcome before dialing it again
    MaxConns,    \* bound: connections
    MaxMessages, \* bound: messages given to a node to send
    MaxCrashes   \* bound: crashes

None     == 0  \* no connection; also an unused one, and a line that is no message

ASSUME PeerNetworkAssumption ==
    /\ Nodes \subseteq Nat \ {None}
    /\ CloseWaits \in BOOLEAN /\ Patient \in BOOLEAN
    /\ {MaxConns, MaxMessages, MaxCrashes} \subseteq Nat

Conns    == 1..MaxConns
Messages == 1..MaxMessages
Sides    == {"dialer", "acceptor"}

VARIABLES
    phase,         \* of each node: "down", "registering", "ready" (registered),
                   \* "running" (started), "stopping"
    record, index, \* whether its registry has its record, and its entry
    conn,          \* who dialed whom
    end,           \* the two ends of each connection
    peers,         \* self.peers of each node: a connection for each peer
    sentOn,        \* the connection a message was written to, if any
    handled,       \* messages given to the node's services
    crashes

vars == <<phase, record, index, conn, end, peers, sentOn, handled, crashes>>
nodeVars == <<phase, record, index, crashes>>

Used     == {c \in Conns : conn[c].from # None}
Other(s) == IF s = "dialer" THEN "acceptor" ELSE "dialer"
At(c, s) == IF s = "dialer" THEN conn[c].from ELSE conn[c].to
SideOf(c, n) == IF conn[c].from = n THEN "dialer" ELSE "acceptor"
Line(kind, m) == [kind |-> kind, id |-> m]

Gone == [open |-> FALSE, task |-> "done", inbox |-> <<>>]

Init ==
    /\ phase = [n \in Nodes |-> "down"]
    /\ record = [n \in Nodes |-> FALSE] /\ index = [n \in Nodes |-> FALSE]
    /\ conn = [c \in Conns |-> [from |-> None, to |-> None]]
    /\ end = [c \in Conns |-> [s \in Sides |-> Gone]]
    /\ peers = [n \in Nodes |-> [p \in Nodes |-> None]]
    /\ sentOn = [m \in Messages |-> None]
    /\ handled = {}
    /\ crashes = 0

------------------------------------------------------------------------------
\* A node starts

Alive(n) == \E c \in Used, s \in Sides : At(c, s) = n /\ end[c][s].task # "done"

\* create_net_node: the index is rebuilt, and a node that is found in it, or
\* has a record, keeps its id.
Boot(n) ==
    /\ phase[n] = "down" /\ ~Alive(n)
    /\ index' = [index EXCEPT ![n] = record[n]]
    /\ record' = [record EXCEPT ![n] = TRUE]
    /\ phase' = [phase EXCEPT ![n] = IF record[n] THEN "ready" ELSE "registering"]
    /\ UNCHANGED <<conn, end, peers, sentOn, handled, crashes>>

IndexNode(n) ==
    /\ phase[n] = "registering"
    /\ index' = [index EXCEPT ![n] = TRUE]
    /\ phase' = [phase EXCEPT ![n] = "ready"]
    /\ UNCHANGED <<record, conn, end, peers, sentOn, handled, crashes>>

Start(n) ==
    /\ phase[n] = "ready"
    /\ phase' = [phase EXCEPT ![n] = "running"]
    /\ UNCHANGED <<record, index, conn, end, peers, sentOn, handled, crashes>>

------------------------------------------------------------------------------
\* Connections

Loop(n) == IF phase[n] = "running" THEN "loop" ELSE "ending"
Read(x, n) == [x EXCEPT !.task = Loop(n), !.inbox = Tail(@)]
Shut(e, c, s) == [e EXCEPT ![c][s] = [@ EXCEPT !.open = FALSE]]
Drop(n, p)    == [peers EXCEPT ![n][p] = None]

\* send_message_to_peer, over the ends e and the table t: towards an end that is
\* shut the line is lost, and the failure, if it shows, disconnects the peer.
SendLine(e, t, n, p, line) ==
    LET c == t[n][p]
        s == SideOf(c, n)
    IN
    IF c = None THEN end' = e /\ peers' = t
    ELSE IF e[c][Other(s)].open
         THEN /\ end' = [e EXCEPT ![c][Other(s)].inbox = Append(@, line)]
              /\ peers' = t
         ELSE \/ end' = e /\ peers' = t
              \/ end' = Shut(e, c, s) /\ peers' = [t EXCEPT ![n][p] = None]

\* connect_to_outgoing_peer, up to its handshake.
Dial(n, p) ==
    \E c \in Conns \ Used :
        /\ \A d \in Conns \ Used : c <= d
        /\ n # p /\ phase[n] = "running" /\ phase[p] = "running"
        /\ Patient => \A d \in Used : conn[d].from = n /\ conn[d].to = p
                                      => end[d]["dialer"].task # "handshake"
        /\ conn' = [conn EXCEPT ![c] = [from |-> n, to |-> p]]
        /\ end' = [end EXCEPT ![c] =
             [s \in Sides |-> [open |-> TRUE, task |-> "handshake",
                               inbox |-> IF s = "acceptor" THEN <<Line("handshake", None)>>
                                                           ELSE <<>>]]]
        /\ UNCHANGED <<nodeVars, peers, sentOn, handled>>

Shaking(c, s, kind) ==
    /\ end[c][s].task = "handshake" /\ end[c][s].inbox # <<>>
    /\ Head(end[c][s].inbox).kind = kind

\* _handle_incoming_connection: a peer it has already, and one that is to be
\* dialed from here, are refused.
Refuse(c) ==
    LET n == conn[c].to
        p == conn[c].from
    IN
    /\ Shaking(c, "acceptor", "handshake")
    /\ peers[n][p] # None \/ n < p
    /\ end' = [end EXCEPT ![c]["acceptor"] = Gone]
    /\ UNCHANGED <<nodeVars, conn, peers, sentOn, handled>>

Accept(c) ==
    LET n == conn[c].to
        p == conn[c].from
    IN
    /\ Shaking(c, "acceptor", "handshake")
    /\ peers[n][p] = None /\ n > p
    /\ SendLine([end EXCEPT ![c]["acceptor"] = Read(@, n)],
                [peers EXCEPT ![n][p] = c], n, p, Line("handshake", None))
    /\ UNCHANGED <<nodeVars, conn, sentOn, handled>>

\* The dialer enters the peer whatever it has for it already.
Connected(c) ==
    LET n == conn[c].from
        p == conn[c].to
    IN
    /\ Shaking(c, "dialer", "handshake")
    /\ n < p
    /\ peers' = [peers EXCEPT ![n][p] = c]
    /\ end' = [end EXCEPT ![c]["dialer"] = Read(@, n)]
    /\ UNCHANGED <<nodeVars, conn, sentOn, handled>>

\* Nothing more comes from the other end.
EndOfStream(c, s) == end[c][s].inbox = <<>> /\ ~end[c][Other(s)].open

NotConnected(c) ==
    /\ end[c]["dialer"].task = "handshake" /\ EndOfStream(c, "dialer")
    /\ end' = [end EXCEPT ![c]["dialer"] = Gone]
    /\ UNCHANGED <<nodeVars, conn, peers, sentOn, handled>>

------------------------------------------------------------------------------
\* Messages

\* The adapter is asked to send to a peer.
Send(n, p, m, kind) ==
    LET c == peers[n][p] IN
    /\ n # p /\ phase[n] = "running"
    /\ sentOn[m] = None /\ c # None
    /\ \A k \in 1..(m - 1) : sentOn[k] # None
    /\ sentOn' = [sentOn EXCEPT ![m] = c]
    /\ SendLine(end, peers, n, p, Line(kind, m))
    /\ UNCHANGED <<nodeVars, conn, handled>>

\* Faulty: a line is read and dropped, whatever it says, unless it is a ping.
ReceivePings(c, s) ==
    LET n == At(c, s)
        p == At(c, Other(s))
        line == Head(end[c][s].inbox)
        e == [end EXCEPT ![c][s] = Read(@, n)]
    IN
    /\ end[c][s].task = "loop" /\ end[c][s].open /\ end[c][s].inbox # <<>>
    /\ IF line.kind = "ping"
       THEN SendLine(e, peers, n, p, Line("pong", None))
       ELSE end' = e /\ UNCHANGED peers
    /\ handled' = IF line.kind = "ping" THEN handled \cup {line.id} ELSE handled
    /\ UNCHANGED <<nodeVars, conn, sentOn>>

\* _peer_message_loop and _dispatch_message: a line is dropped if the sender is
\* not in the table by now; the answer to a ping goes over the connection in
\* the table. A node that is stopping ends the loop after the line it waited for.
Receive(c, s) ==
    LET n == At(c, s)
        p == At(c, Other(s))
        line == Head(end[c][s].inbox)
        e == [end EXCEPT ![c][s] = Read(@, n)]
    IN
    /\ end[c][s].task = "loop" /\ end[c][s].open /\ end[c][s].inbox # <<>>
    /\ IF line.kind = "ping"
       THEN SendLine(e, peers, n, p, Line("pong", None))
       ELSE end' = e /\ UNCHANGED peers
    /\ handled' = IF peers[n][p] # None /\ line.id # None THEN handled \cup {line.id} ELSE handled
    /\ UNCHANGED <<nodeVars, conn, sentOn>>

\* Faulty: the peer is not taken out of the table.
LoopEndsOnly(c, s) ==
    /\ \/ end[c][s].task = "ending"
       \/ end[c][s].task = "loop" /\ (~end[c][s].open \/ EndOfStream(c, s))
    /\ end' = [end EXCEPT ![c][s] = Gone]
    /\ UNCHANGED <<nodeVars, conn, peers, sentOn, handled>>

\* However the loop ends, it disconnects the peer by name: the connection in the
\* table, which may be another one.
LoopEnds(c, s) ==
    LET n == At(c, s)
        p == At(c, Other(s))
        d == peers[n][p]
        e == [end EXCEPT ![c][s] = Gone]
    IN
    /\ \/ end[c][s].task = "ending"
       \/ end[c][s].task = "loop" /\ (~end[c][s].open \/ EndOfStream(c, s))
    /\ peers' = Drop(n, p)
    /\ end' = IF d = None THEN e ELSE Shut(e, d, SideOf(d, n))
    /\ UNCHANGED <<nodeVars, conn, sentOn, handled>>

------------------------------------------------------------------------------
\* A node stops, or its process dies

\* stop: no connection is taken any more; those in the table are shut after
\* wait_closed.
StopBegins(n) ==
    /\ phase[n] = "running"
    /\ phase' = [phase EXCEPT ![n] = "stopping"]
    /\ UNCHANGED <<record, index, conn, end, peers, sentOn, handled, crashes>>

\* Faulty: connections that were dialed from here are forgotten.
ListedAccepted(n) == {c \in Used : conn[c].to = n /\ \E p \in Nodes : peers[n][p] = c}

Listed(n) == {peers[n][p] : p \in Nodes} \ {None}
StopEnds(n) ==
    /\ phase[n] = "stopping"
    /\ CloseWaits => \A c \in Used : conn[c].to = n => ~end[c]["acceptor"].open
    /\ phase' = [phase EXCEPT ![n] = "down"]
    /\ end' = [c \in Conns |-> IF c \in Listed(n)
                               THEN [end[c] EXCEPT ![SideOf(c, n)] = [@ EXCEPT !.open = FALSE]]
                               ELSE end[c]]
    /\ peers' = [peers EXCEPT ![n] = [p \in Nodes |-> None]]
    /\ UNCHANGED <<record, index, conn, sentOn, handled, crashes>>

Crash(n) ==
    /\ crashes < MaxCrashes /\ phase[n] # "down"
    /\ crashes' = crashes + 1
    /\ phase' = [phase EXCEPT ![n] = "down"]
    /\ end' = [c \in Conns |-> [s \in Sides |->
                 IF At(c, s) = n THEN Gone ELSE end[c][s]]]
    /\ peers' = [peers EXCEPT ![n] = [p \in Nodes |-> None]]
    /\ UNCHANGED <<record, index, conn, sentOn, handled>>

------------------------------------------------------------------------------
NodeStep(n) == Boot(n) \/ IndexNode(n) \/ Start(n) \/ StopBegins(n) \/ StopEnds(n) \/ Crash(n)

TaskStep(c) == \/ Refuse(c) \/ Accept(c) \/ Connected(c) \/ NotConnected(c)
               \/ \E s \in Sides : Receive(c, s) \/ LoopEnds(c, s)

Next == \/ \E n \in Nodes : NodeStep(n)
        \/ \E c \in Used : TaskStep(c)
        \/ \E n, p \in Nodes : \/ Dial(n, p)
                               \/ \E m \in Messages, kind \in {"tx", "ping"} : Send(n, p, m, kind)

Spec == Init /\ [][Next]_vars

\* The event loop runs every task that has a line to read, and a stop that is
\* no longer waiting ends; nobody has to start, dial or send.
FairSpec ==
    /\ Spec
    /\ \A c \in Conns : /\ WF_vars(c \in Used /\ (Refuse(c) \/ Accept(c)))
                        /\ WF_vars(c \in Used /\ (Connected(c) \/ NotConnected(c)))
                        /\ \A s \in Sides :
                             WF_vars(c \in Used /\ (Receive(c, s) \/ LoopEnds(c, s)))
    /\ \A n \in Nodes : WF_vars(StopEnds(n))

------------------------------------------------------------------------------
\* Properties

\* Every connection in a table was dialed from the lower id, is open at this
\* end, and has a task that still reads it and will take it out of the table:
\* entries never outlive their loops, however connections are replaced,
\* refused, lost or stopped (p2p_server.py:66, 108, 185).
EntryWatched ==
    \A n, p \in Nodes : peers[n][p] # None =>
        LET c == peers[n][p]
            s == SideOf(c, n)
        IN /\ {conn[c].from, conn[c].to} = {n, p} /\ conn[c].from < conn[c].to
           /\ end[c][s].open /\ end[c][s].task \in {"loop", "ending"}

\* When dials, stops and crashes cease, two nodes that are up agree whether they
\* are connected, and over which connection: the loop of a replaced connection
\* takes its successor down at both ends, never at one. (It holds because a dial
\* is awaited: see Patient.)
Agreement ==
    <>[](\A n, p \in Nodes : phase[n] = "running" /\ phase[p] = "running"
                              => peers[n][p] = peers[p][n])

\* What was written to a connection is handled unless the connection is shut at
\* one of its ends: no line is dropped for want of an entry in the table.
SentIsHandled ==
    \A m \in Messages, c \in Conns :
        sentOn[m] = c ~> m \in handled \/ ~end[c]["dialer"].open \/ ~end[c]["acceptor"].open

\* Nodes that all stop, and are not started again, come to an end, although each
\* waits for the connections it accepted and only the other side shuts these:
\* the lowest id has accepted none, so no circle of waits forms.
StopsTogether ==
    <>[](\A n \in Nodes : phase[n] \in {"stopping", "down"})
        => <>[](\A n \in Nodes : phase[n] = "down")
==============================================================================
