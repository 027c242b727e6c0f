-------------------------- MODULE PeerNetwork_proofs --------------------------
(***************************************************************************)
(* Proofs about PeerNetwork, for any number of nodes, connections and      *)
(* crashes: an entry in a table of peers never outlives the task that will *)
(* take it out.                                                            *)
(*                                                                         *)
(* An action changes ends and tables of its own and then may write a line, *)
(* which may fail and take an entry out. Fit(e, t) is the invariant of the *)
(* ends e under the tables t, so that the two can be reasoned about one    *)
(* after the other. It says more than EntryWatched: an end that waits for  *)
(* its handshake is open, so that the entry it makes is.                   *)
(***************************************************************************)
EXTENDS PeerNetwork, TLAPS

Tasks == {"handshake", "loop", "ending", "done"}
Lines == [kind : {"handshake", "tx", "ping", "pong"}, id : Nat]
Ends  == [open : BOOLEAN, task : Tasks, inbox : Seq(Lines)]

ConnOK ==
    /\ conn \in [Conns -> [from : Nodes \cup {None}, to : Nodes \cup {None}]]
    /\ \A c \in Used : conn[c].to \in Nodes /\ conn[c].from # conn[c].to

Typed(e, t) ==
    /\ e \in [Conns -> [Sides -> Ends]]
    /\ t \in [Nodes -> [Nodes -> Conns \cup {None}]]

\* c joins n and p, dialed from the lower id.
Joins(c, n, p) == {conn[c].from, conn[c].to} = {n, p} /\ conn[c].from < conn[c].to

\* The entry c that n has for p.
Entered(e, n, p, c) ==
    /\ Joins(c, n, p)
    /\ e[c][SideOf(c, n)].open
    /\ e[c][SideOf(c, n)].task \in {"loop", "ending"}

Watched(e, t) ==
    \A n, p \in Nodes : t[n][p] # None => Entered(e, n, p, t[n][p])

ShakingOpen(e) ==
    \A c \in Conns, s \in Sides : e[c][s].task = "handshake" => e[c][s].open

Fit(e, t) == Typed(e, t) /\ Watched(e, t) /\ ShakingOpen(e)

IInv == ConnOK /\ Fit(end, peers)

------------------------------------------------------------------------------
\* Sides, ends and lines.

LEMMA NodeFacts == \A n \in Nodes : n \in Nat /\ n # None
  BY PeerNetworkAssumption

\* An end of a connection has one entry at most.
LEMMA SideFacts ==
    ASSUME ConnOK, NEW c \in Conns, NEW n \in Nodes, NEW p \in Nodes, Joins(c, n, p)
    PROVE  /\ SideOf(c, n) \in Sides /\ n # p
           /\ At(c, SideOf(c, n)) = n /\ At(c, Other(SideOf(c, n))) = p
           /\ Other(SideOf(c, n)) \in Sides /\ Other(SideOf(c, n)) # SideOf(c, n)
<1>1. conn[c].from \in Int /\ conn[c].to \in Int
  BY NodeFacts DEF ConnOK, None
<1>2. n # p /\ conn[c].from # conn[c].to
  BY <1>1 DEF Joins
<1>3. (conn[c].from = n /\ conn[c].to = p) \/ (conn[c].from = p /\ conn[c].to = n)
  <2>1. conn[c].from \in {n, p} /\ conn[c].to \in {n, p}
    BY Zenon DEF Joins
  <2> QED
    BY <1>2, <2>1
<1> QED
  BY <1>2, <1>3 DEF SideOf, At, Other, Sides

LEMMA LoopIsTask == \A n : Loop(n) \in {"loop", "ending"}
  BY DEF Loop

\* Changing one end.
LEMMA PutEnd ==
    ASSUME NEW e \in [Conns -> [Sides -> Ends]], NEW c \in Conns, NEW s \in Sides,
           NEW x \in Ends
    PROVE  /\ [e EXCEPT ![c][s] = x] \in [Conns -> [Sides -> Ends]]
           /\ [e EXCEPT ![c][s] = x][c][s] = x
           /\ \A d \in Conns, z \in Sides :
                 d # c \/ z # s => [e EXCEPT ![c][s] = x][d][z] = e[d][z]
  OBVIOUS

\* The ends an action may make of one end.
LEMMA EndFacts ==
    ASSUME NEW x \in Ends
    PROVE  /\ [x EXCEPT !.open = FALSE] \in Ends
           /\ \A line \in Lines : [x EXCEPT !.inbox = Append(@, line)] \in Ends
           /\ x.inbox # << >> =>
                 \A n : Read(x, n) \in Ends
           /\ Gone \in Ends
<1>1. [x EXCEPT !.open = FALSE] \in Ends
  BY DEF Ends
<1>2. \A line \in Lines : Append(x.inbox, line) \in Seq(Lines)
  BY DEF Ends
<1>3. \A line \in Lines : [x EXCEPT !.inbox = Append(@, line)] \in Ends
  BY <1>2 DEF Ends
<1>4. ASSUME x.inbox # << >>, NEW n PROVE Read(x, n) \in Ends
  <2>1. Tail(x.inbox) \in Seq(Lines)
    BY <1>4 DEF Ends
  <2> QED
    BY <2>1, LoopIsTask DEF Ends, Tasks, Read
<1>5. Gone \in Ends
  BY DEF Gone, Ends, Tasks
<1> QED
  BY <1>1, <1>3, <1>4, <1>5

------------------------------------------------------------------------------
\* Changing one end, and changing one entry.

\* An entry on an end is that of its node for the other.
LEMMA EntryPlace ==
    ASSUME ConnOK, NEW e, NEW t, Fit(e, t), NEW m \in Nodes, NEW q \in Nodes,
           t[m][q] # None
    PROVE  /\ t[m][q] \in Conns /\ Entered(e, m, q, t[m][q])
           /\ SideOf(t[m][q], m) \in Sides
           /\ At(t[m][q], SideOf(t[m][q], m)) = m
           /\ At(t[m][q], Other(SideOf(t[m][q], m))) = q
<1>1. t[m][q] \in Conns /\ Entered(e, m, q, t[m][q])
  BY DEF Fit, Typed, Watched
<1> QED
  BY <1>1, SideFacts DEF Entered

\* An end may become anything but a closed or forgotten one that has an entry.
LEMMA PutFit ==
    ASSUME ConnOK, NEW e, NEW t, Fit(e, t), NEW c \in Conns, NEW s \in Sides,
           NEW x \in Ends,
           x.task = "handshake" => x.open,
           t[At(c, s)][At(c, Other(s))] = c =>
                x.open /\ x.task \in {"loop", "ending"}
    PROVE  Fit([e EXCEPT ![c][s] = x], t)
<1> DEFINE e1 == [e EXCEPT ![c][s] = x]
<1>1. e \in [Conns -> [Sides -> Ends]] /\ t \in [Nodes -> [Nodes -> Conns \cup {None}]]
  BY DEF Fit, Typed
<1>2. /\ e1 \in [Conns -> [Sides -> Ends]]
      /\ e1[c][s] = x
      /\ \A d \in Conns, z \in Sides : d # c \/ z # s => e1[d][z] = e[d][z]
  BY <1>1, PutEnd
<1> HIDE DEF e1
<1>3. ASSUME NEW m \in Nodes, NEW q \in Nodes, t[m][q] # None
      PROVE  Entered(e1, m, q, t[m][q])
  <2> DEFINE d == t[m][q]
             z == SideOf(d, m)
  <2>1. d \in Conns /\ Entered(e, m, q, d) /\ z \in Sides
    BY <1>3, EntryPlace
  <2>2. At(d, z) = m /\ At(d, Other(z)) = q
    BY <1>3, EntryPlace
  <2>3. d = c /\ z = s => x.open /\ x.task \in {"loop", "ending"}
    BY <2>2
  <2>4. e1[d][z].open /\ e1[d][z].task \in {"loop", "ending"}
    BY <1>2, <2>1, <2>3 DEF Entered
  <2> QED
    BY <2>1, <2>4 DEF Entered
<1>4. ShakingOpen(e1)
  BY <1>2 DEF Fit, ShakingOpen
<1> QED
  BY <1>1, <1>2, <1>3, <1>4 DEF Fit, Typed, Watched, e1

LEMMA EntryFit ==
    ASSUME NEW e, NEW t, Fit(e, t), NEW n \in Nodes, NEW p \in Nodes,
           NEW c \in Conns \cup {None}, c # None => Entered(e, n, p, c)
    PROVE  Fit(e, [t EXCEPT ![n][p] = c])
<1> DEFINE t1 == [t EXCEPT ![n][p] = c]
<1>1. /\ t1 \in [Nodes -> [Nodes -> Conns \cup {None}]]
      /\ t1[n][p] = c
      /\ \A m, q \in Nodes : m # n \/ q # p => t1[m][q] = t[m][q]
  BY DEF Fit, Typed
<1> HIDE DEF t1
<1>2. Watched(e, t1)
  BY <1>1 DEF Fit, Watched
<1> QED
  BY <1>1, <1>2 DEF Fit, Typed, t1

\* Closing an end without an entry.
LEMMA ShutFit ==
    ASSUME ConnOK, NEW e, NEW t, Fit(e, t), NEW c \in Conns, NEW s \in Sides,
           t[At(c, s)][At(c, Other(s))] # c, e[c][s].task # "handshake"
    PROVE  Fit(Shut(e, c, s), t)
<1> DEFINE x == [e[c][s] EXCEPT !.open = FALSE]
<1>1. e[c][s] \in Ends
  BY DEF Fit, Typed
<1>2. x \in Ends /\ x.task # "handshake"
  BY <1>1, EndFacts DEF Ends
<1>3. Shut(e, c, s) = [e EXCEPT ![c][s] = x]
  BY DEF Shut
<1> HIDE DEF x
<1>4. x.task = "handshake" => x.open
  BY <1>2
<1>5. Fit([e EXCEPT ![c][s] = x], t)
  BY <1>2, <1>4, PutFit
<1> QED
  BY <1>3, <1>5

\* Forgetting an end without an entry.
LEMMA GoneFit ==
    ASSUME ConnOK, NEW e, NEW t, Fit(e, t), NEW c \in Conns, NEW s \in Sides,
           t[At(c, s)][At(c, Other(s))] # c
    PROVE  Fit([e EXCEPT ![c][s] = Gone], t)
<1>1. Gone \in Ends /\ Gone.task # "handshake"
  BY DEF Gone, Ends, Tasks
<1> QED
  BY <1>1, PutFit

\* Writing a line, and what comes of it.
LEMMA SendLineFit ==
    ASSUME ConnOK, NEW e, NEW t, Fit(e, t), NEW n \in Nodes, NEW p \in Nodes,
           NEW line \in Lines, SendLine(e, t, n, p, line)
    PROVE  Fit(end', peers')
<1> DEFINE c == t[n][p]
           s == SideOf(c, n)
<1>1. CASE end' = e /\ peers' = t
  BY <1>1
<1>2. CASE c # None /\ end' = [e EXCEPT ![c][Other(s)].inbox = Append(@, line)] /\ peers' = t
  <2> DEFINE o == Other(s)
             x == [e[c][o] EXCEPT !.inbox = Append(@, line)]
  <2>1. c \in Conns /\ Entered(e, n, p, c)
    BY <1>2, EntryPlace
  <2>2. o \in Sides
    BY <2>1, SideFacts DEF Entered
  <2>3. e[c][o] \in Ends
    BY <2>1, <2>2 DEF Fit, Typed
  <2>4. x \in Ends /\ x.open = e[c][o].open /\ x.task = e[c][o].task
    BY <2>3, EndFacts DEF Ends
  <2>5. end' = [e EXCEPT ![c][o] = x] /\ peers' = t
    BY <1>2
  <2> HIDE DEF c, s, o, x
  <2>6. t[At(c, o)][At(c, Other(o))] = c => x.open /\ x.task \in {"loop", "ending"}
    <3> SUFFICES ASSUME t[At(c, o)][At(c, Other(o))] = c
                 PROVE  e[c][o].open /\ e[c][o].task \in {"loop", "ending"}
      BY <2>4
    <3>1. Joins(c, n, p)
      BY <2>1 DEF Entered
    <3>2. o = Other(s) /\ s = SideOf(c, n)
      BY DEF o, s
    <3>3. At(c, s) = n /\ At(c, o) = p /\ s \in Sides /\ o # s
      BY <2>1, <3>1, <3>2, SideFacts
    <3>4. Other(o) = s
      BY <2>2, <3>3 DEF Other, Sides
    <3>5. t[p][n] = c /\ c # None
      BY <1>2, <3>3, <3>4 DEF c
    <3>6. Entered(e, p, n, c) /\ At(c, SideOf(c, p)) = p /\ SideOf(c, p) \in Sides
      BY <3>5, EntryPlace
    <3>7. SideOf(c, p) = o
      BY <2>1, <2>2, <3>1, <3>3, <3>6, SideFacts DEF Sides
    <3> QED
      BY <3>6, <3>7 DEF Entered
  <2>7. x.task = "handshake" => x.open
    BY <2>1, <2>2, <2>4 DEF Fit, ShakingOpen
  <2> QED
    BY <2>1, <2>2, <2>4, <2>5, <2>6, <2>7, PutFit
<1>3. CASE c # None /\ end' = Shut(e, c, s) /\ peers' = [t EXCEPT ![n][p] = None]
  <2>1. /\ c \in Conns /\ s \in Sides /\ Entered(e, n, p, c)
        /\ At(c, s) = n /\ At(c, Other(s)) = p
    BY <1>3, EntryPlace
  <2>2. Fit(e, peers') /\ peers'[n][p] # c
    BY <1>3, EntryFit DEF Fit, Typed
  <2>3. e[c][s].task # "handshake"
    BY <2>1 DEF Entered
  <2> HIDE DEF c, s
  <2> QED
    BY <1>3, <2>1, <2>2, <2>3, ShutFit
<1> QED
  BY <1>1, <1>2, <1>3 DEF SendLine

------------------------------------------------------------------------------
\* The actions.

LEMMA InitFit == Init => IInv
<1> SUFFICES ASSUME Init PROVE IInv
  OBVIOUS
<1>1. Gone \in Ends /\ Gone.task # "handshake"
  BY DEF Gone, Ends, Tasks
<1>2. Typed(end, peers)
  BY <1>1 DEF Init, Typed
<1>3. ConnOK
  BY DEF Init, ConnOK, Used
<1>4. Watched(end, peers)
  BY DEF Init, Watched
<1>5. ShakingOpen(end)
  BY <1>1 DEF Init, ShakingOpen
<1> QED
  BY <1>2, <1>3, <1>4, <1>5 DEF IInv, Fit

\* Whose ends a used connection has.
LEMMA UsedFacts ==
    ASSUME ConnOK, NEW c \in Used, NEW s \in Sides
    PROVE  /\ c \in Conns /\ c # None /\ Other(s) \in Sides
           /\ At(c, s) \in Nodes /\ At(c, Other(s)) \in Nodes /\ At(c, s) # At(c, Other(s))
           /\ SideOf(c, At(c, s)) = s
<1>1. c \in Conns /\ c # None
  BY DEF Used, Conns, None
<1>2. conn[c].from \in Nodes /\ conn[c].to \in Nodes /\ conn[c].from # conn[c].to
  BY <1>1 DEF Used, ConnOK
<1> QED
  BY <1>1, <1>2 DEF At, Other, SideOf, Sides

\* Only an end in a loop has an entry.
LEMMA NoEntry ==
    ASSUME ConnOK, NEW e, NEW t, Fit(e, t), NEW c \in Used, NEW s \in Sides,
           e[c][s].task \notin {"loop", "ending"}
    PROVE  t[At(c, s)][At(c, Other(s))] # c
<1> SUFFICES ASSUME t[At(c, s)][At(c, Other(s))] = c PROVE FALSE
  OBVIOUS
<1>1. /\ c # None /\ At(c, s) \in Nodes /\ At(c, Other(s)) \in Nodes
      /\ SideOf(c, At(c, s)) = s
  BY UsedFacts
<1>2. Entered(e, At(c, s), At(c, Other(s)), c)
  BY <1>1, EntryPlace
<1> QED
  BY <1>1, <1>2 DEF Entered

\* A task that reads a line goes on to its loop.
LEMMA ReadFit ==
    ASSUME IInv, NEW c \in Used, NEW s \in Sides, NEW n,
           end[c][s].open, end[c][s].inbox # << >>
    PROVE  LET e == [end EXCEPT ![c][s] = Read(@, n)]
           IN  Fit(e, peers) /\ e[c][s].open /\ e[c][s].task \in {"loop", "ending"}
<1> DEFINE x == Read(end[c][s], n)
           e == [end EXCEPT ![c][s] = Read(@, n)]
<1>1. c \in Conns
  BY UsedFacts DEF IInv
<1>2. end \in [Conns -> [Sides -> Ends]] /\ end[c][s] \in Ends
  BY <1>1 DEF IInv, Fit, Typed
<1>3. x \in Ends
  BY <1>2, EndFacts
<1>4. x.open /\ x.task \in {"loop", "ending"}
  BY <1>2, LoopIsTask DEF Ends, Read
<1>5. e = [end EXCEPT ![c][s] = x]
  OBVIOUS
<1> HIDE DEF x, e
<1>6. Fit(e, peers)
  BY <1>1, <1>3, <1>4, <1>5, PutFit DEF IInv
<1>7. e[c][s] = x
  BY <1>1, <1>2, <1>3, <1>5, PutEnd
<1>8. Fit(e, peers) /\ e[c][s].open /\ e[c][s].task \in {"loop", "ending"}
  BY <1>4, <1>6, <1>7
<1> QED
  BY <1>8 DEF e

LEMMA RefuseFit == ASSUME IInv, NEW c \in Used, Refuse(c) PROVE Fit(end', peers')
<1>1. /\ end' = [end EXCEPT ![c]["acceptor"] = Gone] /\ peers' = peers
      /\ end[c]["acceptor"].task \notin {"loop", "ending"} /\ "acceptor" \in Sides
  BY DEF Refuse, Shaking, Sides
<1>2. c \in Conns
  BY <1>1, UsedFacts DEF IInv
<1>3. peers[At(c, "acceptor")][At(c, Other("acceptor"))] # c
  BY <1>1, NoEntry DEF IInv
<1> QED
  BY <1>1, <1>2, <1>3, GoneFit DEF IInv

LEMMA NotConnectedFit == ASSUME IInv, NEW c \in Used, NotConnected(c) PROVE Fit(end', peers')
<1>1. /\ end' = [end EXCEPT ![c]["dialer"] = Gone] /\ peers' = peers
      /\ end[c]["dialer"].task \notin {"loop", "ending"} /\ "dialer" \in Sides
  BY DEF NotConnected, Sides
<1>2. c \in Conns
  BY <1>1, UsedFacts DEF IInv
<1>3. peers[At(c, "dialer")][At(c, Other("dialer"))] # c
  BY <1>1, NoEntry DEF IInv
<1> QED
  BY <1>1, <1>2, <1>3, GoneFit DEF IInv

LEMMA AcceptFit == ASSUME IInv, NEW c \in Used, Accept(c) PROVE Fit(end', peers')
<1> DEFINE n == conn[c].to
           p == conn[c].from
           s == "acceptor"
           e == [end EXCEPT ![c][s] = Read(@, n)]
<1>1. /\ end[c][s].task = "handshake" /\ end[c][s].inbox # << >> /\ s \in Sides
      /\ n > p
      /\ SendLine(e, [peers EXCEPT ![n][p] = c], n, p, Line("handshake", None))
  BY DEF Accept, Shaking, Sides
<1>2. c \in Conns /\ c # None /\ n \in Nodes /\ p \in Nodes /\ SideOf(c, n) = s
  BY <1>1, UsedFacts DEF IInv, At, Other
<1>3. end[c][s].open
  BY <1>1, <1>2 DEF IInv, Fit, ShakingOpen
<1>4. Fit(e, peers) /\ e[c][s].open /\ e[c][s].task \in {"loop", "ending"}
  BY <1>1, <1>3, ReadFit
<1>5. Joins(c, n, p)
  BY <1>1, <1>2, NodeFacts DEF Joins
<1>6. Line("handshake", None) \in Lines
  BY DEF Line, Lines, None
<1> HIDE DEF e, n, p, s
<1>7. Entered(e, n, p, c)
  BY <1>2, <1>4, <1>5 DEF Entered
<1>8. Fit(e, [peers EXCEPT ![n][p] = c])
  BY <1>2, <1>4, <1>7, EntryFit
<1> QED
  BY <1>1, <1>2, <1>6, <1>8, SendLineFit DEF IInv

LEMMA ConnectedFit == ASSUME IInv, NEW c \in Used, Connected(c) PROVE Fit(end', peers')
<1> DEFINE n == conn[c].from
           p == conn[c].to
           s == "dialer"
           e == [end EXCEPT ![c][s] = Read(@, n)]
<1>1. /\ end[c][s].task = "handshake" /\ end[c][s].inbox # << >> /\ s \in Sides
      /\ n < p
      /\ end' = e /\ peers' = [peers EXCEPT ![n][p] = c]
  BY DEF Connected, Shaking, Sides
<1>2. c \in Conns /\ c # None /\ n \in Nodes /\ p \in Nodes /\ SideOf(c, n) = s
  BY <1>1, UsedFacts DEF IInv, At, Other
<1>3. end[c][s].open
  BY <1>1, <1>2 DEF IInv, Fit, ShakingOpen
<1>4. Fit(e, peers) /\ e[c][s].open /\ e[c][s].task \in {"loop", "ending"}
  BY <1>1, <1>3, ReadFit
<1>5. Joins(c, n, p)
  BY <1>1 DEF Joins
<1> HIDE DEF e, n, p, s
<1>6. Entered(e, n, p, c)
  BY <1>2, <1>4, <1>5 DEF Entered
<1> QED
  BY <1>1, <1>2, <1>4, <1>6, EntryFit

LEMMA ReceiveFit ==
    ASSUME IInv, NEW c \in Used, NEW s \in Sides, Receive(c, s)
    PROVE  Fit(end', peers')
<1> DEFINE n == At(c, s)
           p == At(c, Other(s))
           e == [end EXCEPT ![c][s] = Read(@, n)]
<1>1. /\ end[c][s].open /\ end[c][s].inbox # << >>
      /\ \/ SendLine(e, peers, n, p, Line("pong", None))
         \/ end' = e /\ peers' = peers
  BY DEF Receive
<1>2. n \in Nodes /\ p \in Nodes
  BY UsedFacts DEF IInv
<1>3. Fit(e, peers)
  BY <1>1, ReadFit
<1>4. Line("pong", None) \in Lines
  BY DEF Line, Lines, None
<1> HIDE DEF e, n, p
<1> QED
  BY <1>1, <1>2, <1>3, <1>4, SendLineFit DEF IInv

\* The entry goes first in the proof: then neither end has one any more.
LEMMA LoopEndsFit ==
    ASSUME IInv, NEW c \in Used, NEW s \in Sides, LoopEnds(c, s)
    PROVE  Fit(end', peers')
<1> DEFINE n == At(c, s)
           p == At(c, Other(s))
           d == peers[n][p]
           e == [end EXCEPT ![c][s] = Gone]
<1>1. /\ peers' = Drop(n, p)
      /\ end' = IF d = None THEN e ELSE Shut(e, d, SideOf(d, n))
  BY DEF LoopEnds
<1>2. c \in Conns /\ c # None /\ n \in Nodes /\ p \in Nodes
  BY UsedFacts DEF IInv
<1>3. Fit(end, peers') /\ peers'[n][p] = None
  BY <1>1, <1>2, EntryFit DEF IInv, Fit, Typed, Drop
<1>4. Fit(e, peers')
  BY <1>2, <1>3, GoneFit DEF IInv
<1>5. CASE d = None
  BY <1>1, <1>4, <1>5
<1>6. CASE d # None
  <2> DEFINE z == SideOf(d, n)
  <2>1. d \in Conns /\ z \in Sides /\ At(d, z) = n /\ At(d, Other(z)) = p
        /\ end[d][z].task \in {"loop", "ending"}
    BY <1>2, <1>6, EntryPlace DEF IInv, Entered
  <2>2. e[d][z].task # "handshake"
    BY <1>2, <2>1 DEF IInv, Fit, Typed, Gone
  <2> HIDE DEF n, p, d, e, z
  <2>3. Fit(Shut(e, d, z), peers')
    BY <1>3, <1>4, <1>6, <2>1, <2>2, ShutFit DEF IInv
  <2> QED
    BY <1>1, <1>6, <2>3 DEF z
<1> QED
  BY <1>5, <1>6

LEMMA SendFit ==
    ASSUME IInv, NEW n \in Nodes, NEW p \in Nodes, NEW m \in Messages,
           NEW kind \in {"tx", "ping"}, Send(n, p, m, kind)
    PROVE  Fit(end', peers')
<1>1. Line(kind, m) \in Lines
  BY PeerNetworkAssumption DEF Line, Lines, Messages
<1>2. SendLine(end, peers, n, p, Line(kind, m))
  BY DEF Send
<1> QED
  BY <1>1, <1>2, SendLineFit DEF IInv

LEMMA DialFit ==
    ASSUME IInv, NEW n \in Nodes, NEW p \in Nodes, Dial(n, p)
    PROVE  IInv'
<1>1. PICK c \in Conns \ Used :
         /\ n # p /\ peers' = peers
         /\ conn' = [conn EXCEPT ![c] = [from |-> n, to |-> p]]
         /\ end' = [end EXCEPT ![c] =
              [s \in Sides |-> [open |-> TRUE, task |-> "handshake",
                                inbox |-> IF s = "acceptor" THEN <<Line("handshake", None)>>
                                                            ELSE <<>>]]]
  BY DEF Dial
<1> DEFINE x(s) == [open |-> TRUE, task |-> "handshake",
                    inbox |-> IF s = "acceptor" THEN <<Line("handshake", None)>> ELSE <<>>]
<1>2. Line("handshake", None) \in Lines
  BY DEF Line, Lines, None
<1>3. \A s \in Sides : x(s) \in Ends /\ x(s).open
  BY <1>2 DEF Ends, Tasks
<1>4. end \in [Conns -> [Sides -> Ends]]
  BY DEF IInv, Fit, Typed
<1>5. end' = [end EXCEPT ![c] = [s \in Sides |-> x(s)]]
  BY <1>1
<1> HIDE DEF x
<1>6. /\ end' \in [Conns -> [Sides -> Ends]]
      /\ \A s \in Sides : end'[c][s].open
      /\ \A d \in Conns, s \in Sides : d # c => end'[d][s] = end[d][s]
  BY <1>3, <1>4, <1>5
<1>7. /\ conn' \in [Conns -> [from : Nodes \cup {None}, to : Nodes \cup {None}]]
      /\ conn'[c].from = n /\ conn'[c].to = p
      /\ \A d \in Conns : d # c => conn'[d] = conn[d]
  BY <1>1 DEF IInv, ConnOK
<1>8. ConnOK'
  BY <1>1, <1>7, NodeFacts DEF IInv, ConnOK, Used
<1>9. Watched(end, peers)'
  <2> SUFFICES ASSUME NEW m \in Nodes, NEW q \in Nodes, peers[m][q] # None
               PROVE  Entered(end, m, q, peers[m][q])'
    BY ZenonT(20), <1>1 DEF Watched, Entered, Joins, SideOf
  <2> DEFINE d == peers[m][q]
  <2>1. d \in Conns /\ Entered(end, m, q, d) /\ SideOf(d, m) \in Sides
    BY EntryPlace DEF IInv
  <2>2. conn[d].from \in {m, q}
    BY <2>1, Zenon DEF Entered, Joins
  <2>3. d # c
    BY <1>1, <2>1, <2>2, NodeFacts DEF Used
  <2>4. conn'[d] = conn[d] /\ peers' = peers
    BY <1>1, <1>7, <2>1, <2>3
  <2> HIDE DEF d
  <2>5. Joins(d, m, q)' /\ SideOf(d, m)' = SideOf(d, m)
    BY <2>1, <2>4 DEF Entered, Joins, SideOf, d
  <2>6. end'[d][SideOf(d, m)] = end[d][SideOf(d, m)]
    BY <1>6, <2>1, <2>3
  <2> QED
    BY <2>1, <2>4, <2>5, <2>6 DEF Entered, d
<1>10. ShakingOpen(end)'
  BY <1>6 DEF IInv, Fit, ShakingOpen
<1>11. Typed(end, peers)'
  BY <1>1, <1>6 DEF IInv, Fit, Typed
<1> QED
  BY <1>8, <1>9, <1>10, <1>11 DEF IInv, Fit

\* A node that stops empties its table; what it closes no other node has an
\* entry on.
LEMMA StopEndsFit ==
    ASSUME IInv, NEW n \in Nodes, StopEnds(n)
    PROVE  Fit(end', peers')
<1>1. /\ end' = [c \in Conns |-> IF c \in Listed(n)
                                 THEN [end[c] EXCEPT ![SideOf(c, n)] = [@ EXCEPT !.open = FALSE]]
                                 ELSE end[c]]
      /\ peers' = [peers EXCEPT ![n] = [p \in Nodes |-> None]]
  BY DEF StopEnds
<1>2. /\ end \in [Conns -> [Sides -> Ends]]
      /\ peers \in [Nodes -> [Nodes -> Conns \cup {None}]]
  BY DEF IInv, Fit, Typed
<1>3. ASSUME NEW c \in Listed(n)
      PROVE  /\ c \in Conns /\ SideOf(c, n) \in Sides /\ At(c, SideOf(c, n)) = n
             /\ end[c][SideOf(c, n)].task \in {"loop", "ending"}
  <2>1. PICK p \in Nodes : peers[n][p] = c /\ c # None
    BY DEF Listed
  <2> QED
    BY <2>1, EntryPlace DEF IInv, Entered
<1>4. ASSUME NEW c \in Conns, NEW s \in Sides
      PROVE  /\ end'[c][s] \in Ends
             /\ end'[c][s].task = end[c][s].task
             /\ ~(c \in Listed(n) /\ s = SideOf(c, n)) => end'[c][s] = end[c][s]
  <2>1. end[c][s] \in Ends /\ [end[c][s] EXCEPT !.open = FALSE] \in Ends
    BY <1>2, EndFacts
  <2>2. [end[c][s] EXCEPT !.open = FALSE].task = end[c][s].task
    BY <2>1 DEF Ends
  <2>3. CASE c \in Listed(n) /\ s = SideOf(c, n)
    <3>1. end'[c][s] = [end[c][s] EXCEPT !.open = FALSE]
      BY <1>1, <1>2, <2>3
    <3> QED
      BY <2>1, <2>2, <2>3, <3>1
  <2>4. CASE ~(c \in Listed(n) /\ s = SideOf(c, n))
    <3>1. end'[c][s] = end[c][s]
      BY <1>1, <1>2, <1>3, <2>4
    <3> QED
      BY <2>1, <2>4, <3>1
  <2> QED
    BY <2>3, <2>4
<1>5. Typed(end', peers')
  <2>1. \A c \in Conns : end'[c] \in [Sides -> Ends]
    <3> SUFFICES ASSUME NEW c \in Conns PROVE end'[c] \in [Sides -> Ends]
      OBVIOUS
    <3>1. DOMAIN end'[c] = Sides /\ end'[c] = [s \in Sides |-> end'[c][s]]
      BY <1>1, <1>2, <1>3
    <3> QED
      BY <1>4, <3>1
  <2>2. end' = [c \in Conns |-> end'[c]]
    BY <1>1
  <2> QED
    BY <1>1, <1>2, <2>1, <2>2 DEF Typed
<1>6. ShakingOpen(end')
  BY <1>3, <1>4 DEF IInv, Fit, ShakingOpen
<1>7. Watched(end', peers')
  <2> SUFFICES ASSUME NEW m \in Nodes, NEW q \in Nodes, peers'[m][q] # None
               PROVE  Entered(end', m, q, peers'[m][q])
    BY DEF Watched
  <2>1. m # n /\ peers'[m][q] = peers[m][q]
    BY <1>1, <1>2
  <2> DEFINE d == peers[m][q]
  <2>2. d \in Conns /\ Entered(end, m, q, d) /\ SideOf(d, m) \in Sides
        /\ At(d, SideOf(d, m)) = m
    BY <2>1, EntryPlace DEF IInv
  <2>3. ~(d \in Listed(n) /\ SideOf(d, m) = SideOf(d, n))
    BY <1>3, <2>1, <2>2
  <2>4. end'[d][SideOf(d, m)] = end[d][SideOf(d, m)]
    BY <1>4, <2>2, <2>3
  <2> QED
    BY <2>1, <2>2, <2>4 DEF Entered
<1> QED
  BY <1>5, <1>6, <1>7 DEF Fit

LEMMA CrashFit ==
    ASSUME IInv, NEW n \in Nodes, Crash(n)
    PROVE  Fit(end', peers')
<1>1. /\ end' = [c \in Conns |-> [s \in Sides |-> IF At(c, s) = n THEN Gone ELSE end[c][s]]]
      /\ peers' = [peers EXCEPT ![n] = [p \in Nodes |-> None]]
  BY DEF Crash
<1>2. /\ end \in [Conns -> [Sides -> Ends]]
      /\ peers \in [Nodes -> [Nodes -> Conns \cup {None}]]
  BY DEF IInv, Fit, Typed
<1>3. Gone \in Ends /\ Gone.task = "done"
  BY DEF Gone, Ends, Tasks
<1>4. Typed(end', peers')
  BY <1>1, <1>2, <1>3 DEF Typed
<1>5. ShakingOpen(end')
  BY <1>1, <1>3 DEF IInv, Fit, ShakingOpen
<1>6. Watched(end', peers')
  <2> SUFFICES ASSUME NEW m \in Nodes, NEW q \in Nodes, peers'[m][q] # None
               PROVE  Entered(end', m, q, peers'[m][q])
    BY DEF Watched
  <2>1. m # n /\ peers'[m][q] = peers[m][q]
    BY <1>1, <1>2
  <2> DEFINE d == peers[m][q]
  <2>2. d \in Conns /\ Entered(end, m, q, d) /\ SideOf(d, m) \in Sides
        /\ At(d, SideOf(d, m)) = m
    BY <2>1, EntryPlace DEF IInv
  <2>3. end'[d][SideOf(d, m)] = end[d][SideOf(d, m)]
    BY <1>1, <2>1, <2>2
  <2> QED
    BY <2>1, <2>2, <2>3 DEF Entered
<1> QED
  BY <1>4, <1>5, <1>6 DEF Fit

------------------------------------------------------------------------------
\* The theorem.

\* Most actions leave the connections as they were dialed.
LEMMA SameConn ==
    ASSUME IInv, conn' = conn, Fit(end', peers')
    PROVE  IInv'
<1>1. ConnOK'
  BY DEF IInv, ConnOK, Used
<1>2. \A n, p \in Nodes : \A c : Entered(end', n, p, c) => Entered(end, n, p, c)'
  BY DEF Entered, Joins, SideOf
<1>3. Watched(end, peers)'
  BY <1>2 DEF Fit, Watched
<1>4. Typed(end, peers)' /\ ShakingOpen(end)'
  BY DEF Fit, Typed, ShakingOpen
<1> QED
  BY <1>1, <1>3, <1>4 DEF IInv, Fit

LEMMA NextFit == IInv /\ [Next]_vars => IInv'
<1> SUFFICES ASSUME IInv, [Next]_vars PROVE IInv'
  OBVIOUS
<1>1. CASE conn' = conn /\ end' = end /\ peers' = peers
  BY <1>1, SameConn DEF IInv
<1>2. CASE \E n \in Nodes : NodeStep(n)
  <2>1. PICK n \in Nodes : NodeStep(n)
    BY <1>2
  <2>2. CASE Boot(n) \/ IndexNode(n) \/ Start(n) \/ StopBegins(n)
    BY <1>1, <2>2 DEF Boot, IndexNode, Start, StopBegins
  <2>3. CASE StopEnds(n)
    BY <2>3, StopEndsFit, SameConn DEF StopEnds
  <2>4. CASE Crash(n)
    BY <2>4, CrashFit, SameConn DEF Crash
  <2> QED
    BY <2>1, <2>2, <2>3, <2>4 DEF NodeStep
<1>3. CASE \E c \in Used : TaskStep(c)
  <2>1. PICK c \in Used : TaskStep(c)
    BY <1>3
  <2>2. CASE Refuse(c)
    BY <2>2, RefuseFit, SameConn DEF Refuse
  <2>3. CASE Accept(c)
    BY <2>3, AcceptFit, SameConn DEF Accept
  <2>4. CASE Connected(c)
    BY <2>4, ConnectedFit, SameConn DEF Connected
  <2>5. CASE NotConnected(c)
    BY <2>5, NotConnectedFit, SameConn DEF NotConnected
  <2>6. ASSUME NEW s \in Sides, Receive(c, s) PROVE IInv'
    BY <2>6, ReceiveFit, SameConn DEF Receive
  <2>7. ASSUME NEW s \in Sides, LoopEnds(c, s) PROVE IInv'
    BY <2>7, LoopEndsFit, SameConn DEF LoopEnds
  <2> QED
    BY <2>1, <2>2, <2>3, <2>4, <2>5, <2>6, <2>7 DEF TaskStep
<1>4. ASSUME NEW n \in Nodes, NEW p \in Nodes, Dial(n, p) PROVE IInv'
  BY <1>4, DialFit
<1>5. ASSUME NEW n \in Nodes, NEW p \in Nodes, NEW m \in Messages,
             NEW kind \in {"tx", "ping"}, Send(n, p, m, kind)
      PROVE  IInv'
  BY <1>5, SendFit, SameConn DEF Send
<1>6. CASE UNCHANGED vars
  BY <1>1, <1>6 DEF vars
<1> QED
  BY <1>2, <1>3, <1>4, <1>5, <1>6 DEF Next

THEOREM NetworkInvariant == Spec => []IInv
  BY InitFit, NextFit, PTL DEF Spec

\* Whatever is dialed, refused, replaced, lost, stopped or crashes, among any number
\* of nodes: a connection in a table was dialed from the lower id, is open at this
\* end, and has a task that will take it out of the table.
THEOREM EntryWatchedTheorem == Spec => []EntryWatched
<1>1. IInv => EntryWatched
  BY DEF IInv, Fit, Watched, Entered, Joins, EntryWatched
<1> QED
  BY <1>1, NetworkInvariant, PTL
==============================================================================
