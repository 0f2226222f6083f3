-------------------------- MODULE BridgeClientProofs --------------------------
(***************************************************************************)
(* Theorems about BridgeClient for any number of connections, sessions and *)
(* faults, any set of positions and any joint limits among them.           *)
(*                                                                         *)
(* The argument has three layers: a connection carries one message at a    *)
(* time and only the interface's own is open at its end; what is in flight *)
(* on it belongs to the outstanding call; so a session that is cycling     *)
(* while commands are sent is the one whose positions were measured.       *)
(***************************************************************************)
EXTENDS BridgeClient, TLAPS

-----------------------------------------------------------------------------
(* The inductive invariant.                                                *)

\* A channel with at most one message in it.
Chan(S) == {<<>>} \cup {<<x>> : x \in S}

BoundedRequest == [op : Operations, counts : Positions, basis : 0 .. MaxSessions,
                   true_to_basis : BOOLEAN]
BoundedReply == [to : Operations, ok : BOOLEAN, counts : Positions,
                 session : 0 .. MaxSessions]

VarsOK ==
  /\ life \in {"down", "unconfigured", "inactive", "active", "finalized"}
  /\ call \in Calls \cup {"none"}
  /\ socket_fd \in Conns \cup {NoConn}
  /\ hw_positions \in Positions /\ hw_commands \in Positions
  /\ basis \in [session : 0 .. MaxSessions, counts : Positions, commanded : BOOLEAN]
  /\ serving \in Conns \cup {NoConn, Dead}
  /\ reply \in Chan(BoundedReply)
  /\ session \in {"none", "cycling", "failed", "rejected"}
  /\ target_counts \in Positions /\ latest \in Positions /\ actual \in Positions
  /\ sessions \in 0 .. MaxSessions
  /\ faults \in 0 .. MaxFaults

Connection == [state : {"unused", "backlog", "accepted", "closed"},
               peer : {"up", "fin", "rst"},
               requests : Chan(BoundedRequest), replies : Chan(BoundedReply)]

ConnsOK == conn \in [Conns -> Connection]

\* A connection is used once, its end is open while it is the interface's, and it has one
\* message in flight.
WireOK(c) ==
  /\ conn[c].state = "unused" =>
       conn[c].peer = "up" /\ conn[c].requests = <<>> /\ conn[c].replies = <<>>
  /\ conn[c].peer = "up" <=> conn[c].state = "unused" \/ c = socket_fd
  /\ c = socket_fd => conn[c].state # "unused"
  /\ conn[c].state = "accepted" <=> c = serving
  /\ conn[c].requests # <<>> =>
       conn[c].replies = <<>> /\ (c = serving => reply = <<>>)
  /\ conn[c].replies # <<>> =>
       conn[c].state \in {"accepted", "closed"} /\ (c = serving => reply = <<>>)

\* A setpoint still to be served belongs to the session that is cycling.
SetpointOK(c) ==
  conn[c].requests # <<>> /\ conn[c].requests[1].op = "CSP_SETPOINT_ALL" =>
    /\ conn[c].state \in {"accepted", "closed"}
    /\ conn[c].state = "accepted" =>
         /\ conn[c].requests[1].true_to_basis
         /\ session = "cycling" => conn[c].requests[1].basis = sessions

\* What is in flight on the interface's connection belongs to its call.
AlignedOK ==
  /\ call # "none" => socket_fd \in Conns
  /\ reply # <<>> => serving \in Conns
  /\ socket_fd \in Conns =>
       /\ conn[socket_fd].requests # <<>> =>
            call # "none" /\ conn[socket_fd].requests[1].op = Operation[call]
       /\ conn[socket_fd].replies # <<>> =>
            call # "none" /\ conn[socket_fd].replies[1].to = Operation[call]
       /\ serving = socket_fd /\ reply # <<>> =>
            call # "none" /\ reply[1].to = Operation[call]
       /\ conn[socket_fd].state = "closed" =>
            \A d \in Conns : conn[d].state \in {"unused", "closed"}

\* Which call belongs to which state of the lifecycle; once the session has been asked
\* for, the connection is one that the server has accepted.
PhaseOK ==
  /\ call = "ping" => life = "unconfigured"
  /\ call \in {"enter", "first_read", "lock"} => life = "inactive"
  /\ call \in {"read", "write", "exit"} => life = "active"
  /\ life = "active" \/ call \in {"first_read", "lock"} =>
       socket_fd \in Conns /\ conn[socket_fd].state \in {"accepted", "closed"}

\* The reply that the call is about to get, in the server's hands or on its way.
Answered(r) ==
  \/ conn[socket_fd].replies = <<r>>
  \/ serving = socket_fd /\ reply = <<r>>

\* The basis of the commands is what was measured in the session that is cycling.
BasisOK ==
  /\ life = "active" \/ call = "lock" =>
       /\ session = "cycling" => basis.session = sessions
       /\ basis.commanded \/ hw_commands \in {basis.counts, Clamp(basis.counts)}
  /\ call = "first_read" /\ session = "cycling" =>
       \A r \in BoundedReply : Answered(r) /\ r.ok => r.session = sessions
  /\ call = "lock" =>
       /\ conn[socket_fd].requests # <<>> =>
            conn[socket_fd].requests[1].counts = basis.counts
       /\ session = "cycling" =>
            \A r \in BoundedReply : Answered(r) /\ r.ok => target_counts = basis.counts

Inv ==
  /\ VarsOK /\ ConnsOK
  /\ \A c \in Conns : WireOK(c) /\ SetpointOK(c)
  /\ AlignedOK /\ PhaseOK /\ BasisOK

-----------------------------------------------------------------------------
(* Facts that the steps share.                                             *)

LEMMA Constants ==
  /\ AnyPosition \in Positions
  /\ NoConn \notin Conns /\ Dead \notin Conns /\ NoConn # Dead
  /\ MaxSessions \in Nat /\ MaxFaults \in Nat /\ MaxConns \in Nat
BY ClientAssumption DEF AnyPosition

\* Clamping a position gives a position, and clamping it again changes nothing.
LEMMA ClampFacts ==
  ASSUME NEW p \in Positions
  PROVE  Clamp(p) \in Positions /\ Clamp(Clamp(p)) = Clamp(p)
<1>1. /\ p \in Int /\ Lower \in Int /\ Upper \in Int /\ Lower <= Upper
      /\ Lower \in Positions /\ Upper \in Positions
  BY ClientAssumption
<1> QED BY <1>1 DEF Clamp

LEMMA CallFacts ==
  /\ Calls = {"ping", "enter", "first_read", "lock", "read", "write", "exit"}
  /\ Operation["ping"] = "PING" /\ Operation["enter"] = "ENTER_CSP_ALL"
  /\ Operation["first_read"] = "GET_ALL" /\ Operation["lock"] = "CSP_SETPOINT_ALL"
  /\ Operation["read"] = "GET_ALL" /\ Operation["write"] = "CSP_SETPOINT_ALL"
  /\ Operation["exit"] = "EXIT_CSP_ALL"
  /\ \A name \in Calls : Operation[name] \in Operations
BY DEF Calls, Operation, Operations

\* Sequences of one message.
LEMMA Singles ==
  \A x : /\ <<x>> # <<>> /\ <<x>>[1] = x
         /\ Append(<<>>, x) = <<x>> /\ Tail(<<x>>) = <<>>
BY Zenon, SMT

LEMMA Channels ==
  ASSUME NEW S
  PROVE  /\ <<>> \in Chan(S)
         /\ \A x \in S : <<x>> \in Chan(S)
         /\ \A s \in Chan(S) : s # <<>> => s = <<s[1]>> /\ s[1] \in S /\ Tail(s) = <<>>
<1>1. ASSUME NEW s \in Chan(S), s # <<>>
      PROVE  s = <<s[1]>> /\ s[1] \in S /\ Tail(s) = <<>>
  <2>1. PICK x \in S : s = <<x>>
    BY <1>1 DEF Chan
  <2>2. s[1] = x /\ Tail(s) = <<>>
    BY <2>1, Singles
  <2> QED BY <2>1, <2>2
<1> QED BY <1>1 DEF Chan

LEMMA InitInv == Init => Inv
<1> SUFFICES ASSUME Init PROVE Inv
  OBVIOUS
<1>1. VarsOK
  <2>1. basis \in [session : 0 .. MaxSessions, counts : Positions, commanded : BOOLEAN]
    BY Constants DEF Init
  <2> QED BY <2>1, Constants, Channels DEF Init, VarsOK
<1>2. ConnsOK
  BY Channels DEF Init, ConnsOK, Connection
<1>3. \A c \in Conns : WireOK(c) /\ SetpointOK(c)
  BY Constants DEF Init, WireOK, SetpointOK
<1>4. AlignedOK /\ PhaseOK /\ BasisOK
  BY Constants DEF Init, AlignedOK, PhaseOK, BasisOK
<1> QED BY <1>1, <1>2, <1>3, <1>4 DEF Inv

-----------------------------------------------------------------------------
(* Connections.                                                            *)

LEMMA ConnFacts ==
  ASSUME ConnsOK, NEW c \in Conns
  PROVE  /\ conn[c].state \in {"unused", "backlog", "accepted", "closed"}
         /\ conn[c].peer \in {"up", "fin", "rst"}
         /\ conn[c].requests \in Chan(BoundedRequest)
         /\ conn[c].replies \in Chan(BoundedReply)
BY DEF ConnsOK, Connection

\* One connection of k becomes another, in l.
ConnChanged(k, l, s, st, pr, rq, rp) ==
  /\ l \in [Conns -> Connection]
  /\ l[s].state = st /\ l[s].peer = pr /\ l[s].requests = rq /\ l[s].replies = rp
  /\ \A d \in Conns \ {s} : l[d] = k[d]

\* What an arrived reply says of its connection.
LEMMA RepliedFacts ==
  ASSUME Inv, NEW name \in Calls, Replied(name)
  PROVE  /\ socket_fd \in Conns /\ call = name
         /\ conn[socket_fd].replies = <<Arrived>> /\ Arrived \in BoundedReply
         /\ Tail(conn[socket_fd].replies) = <<>>
         /\ conn[socket_fd].requests = <<>>
         /\ serving = socket_fd => reply = <<>>
         /\ conn[socket_fd].state \in {"accepted", "closed"}
         /\ conn[socket_fd].peer = "up"
         /\ Answered(Arrived)
<1>1. socket_fd \in Conns /\ call = name /\ conn[socket_fd].replies # <<>>
  BY DEF Replied, Inv, VarsOK
<1>2. conn[socket_fd].replies \in Chan(BoundedReply)
  BY <1>1, ConnFacts DEF Inv
<1>3. /\ conn[socket_fd].replies = <<Arrived>> /\ Arrived \in BoundedReply
      /\ Tail(conn[socket_fd].replies) = <<>>
  BY <1>1, <1>2, Channels DEF Arrived
<1>4. /\ conn[socket_fd].requests = <<>>
      /\ serving = socket_fd => reply = <<>>
      /\ conn[socket_fd].state \in {"accepted", "closed"}
      /\ conn[socket_fd].peer = "up"
  BY <1>1 DEF Inv, WireOK
<1> QED BY <1>1, <1>3, <1>4 DEF Answered

\* An interface that waits for nothing has nothing in flight.
LEMMA IdleFacts ==
  ASSUME Inv, call = "none", socket_fd \in Conns
  PROVE  /\ conn[socket_fd].requests = <<>> /\ conn[socket_fd].replies = <<>>
         /\ serving = socket_fd => reply = <<>>
         /\ conn[socket_fd].peer = "up" /\ conn[socket_fd].state # "unused"
BY DEF Inv, AlignedOK, WireOK

\* The parts of the invariant that speak of connections, together.
Wires == ConnsOK /\ AlignedOK /\ \A c \in Conns : WireOK(c) /\ SetpointOK(c)

\* The connection of the interface changes at its end: a reply is taken from it, a request
\* is put on it, or both.
LEMMA SocketChange ==
  ASSUME Inv, NEW s \in Conns, UNCHANGED <<serving, reply, session, sessions>>,
         socket_fd = s \/ (socket_fd = NoConn /\ conn[s].state = "unused"),
         NEW rq \in Chan(BoundedRequest),
         conn[s].requests = <<>>, serving = s => reply = <<>>,
         NEW st \in {"backlog", "accepted", "closed"},
         st = IF conn[s].state = "unused" THEN "backlog" ELSE conn[s].state,
         ConnChanged(conn, conn', s, st, "up", rq, <<>>),
         socket_fd' = s, call' \in Calls \cup {"none"},
         rq # <<>> => call' # "none" /\ rq[1].op = Operation[call'],
         rq # <<>> /\ rq[1].op = "CSP_SETPOINT_ALL" =>
           /\ conn[s].state \in {"accepted", "closed"}
           /\ rq[1].true_to_basis /\ (session = "cycling" => rq[1].basis = sessions)
  PROVE  Wires'
<1>1. conn[s].peer = "up"
  BY DEF Inv, WireOK
<1>2. /\ ConnsOK'
      /\ conn'[s].state = st /\ conn'[s].peer = "up"
      /\ conn'[s].requests = rq /\ conn'[s].replies = <<>>
      /\ \A d \in Conns \ {s} : conn'[d] = conn[d]
  BY DEF ConnChanged, ConnsOK
<1>3. ASSUME NEW c \in Conns PROVE WireOK(c)'
  <2>1. CASE c = s
    BY <1>1, <1>2, <2>1 DEF Inv, WireOK
  <2>2. CASE c # s
    <3>1. conn'[c] = conn[c] /\ c # socket_fd
      BY <1>2, <2>2, Constants
    <3> QED BY <2>2, <3>1 DEF Inv, WireOK
  <2> QED BY <2>1, <2>2
<1>4. ASSUME NEW c \in Conns PROVE SetpointOK(c)'
  <2>1. CASE c = s
    BY <1>1, <1>2, <2>1, Zenon DEF SetpointOK
  <2>2. CASE c # s
    BY <1>2, <2>2, Zenon DEF Inv, SetpointOK
  <2> QED BY <2>1, <2>2
<1>5. AlignedOK'
  <2>1. reply' # <<>> => serving' \in Conns
    BY DEF Inv, AlignedOK
  <2>2. conn'[s].state = "closed" => \A d \in Conns : conn'[d].state \in {"unused", "closed"}
    <3>1. conn'[s].state = "closed" => conn[s].state = "closed" /\ socket_fd = s
      BY <1>2
    <3> QED BY <1>2, <3>1 DEF Inv, AlignedOK
  <2>3. ~(serving' = s /\ reply' # <<>>)
    BY Zenon
  <2> QED BY <1>2, <2>1, <2>2, <2>3 DEF AlignedOK
<1> QED BY <1>2, <1>3, <1>4, <1>5 DEF Wires

\* The interface closes its connection.
LEMMA SocketCloses ==
  ASSUME Inv, UNCHANGED <<serving, reply, session, sessions>>,
         socket_fd' = NoConn, call' = "none",
         \/ socket_fd = NoConn /\ conn' = conn
         \/ /\ socket_fd \in Conns
            /\ \E p \in {"fin", "rst"}, rp \in {conn[socket_fd].replies, <<>>} :
                 conn' = [conn EXCEPT ![socket_fd] = [@ EXCEPT !.peer = p, !.replies = rp]]
  PROVE  Wires'
<1>1. CASE socket_fd = NoConn /\ conn' = conn
  BY <1>1, Constants DEF Inv, Wires, ConnsOK, WireOK, SetpointOK, AlignedOK
<1>2. CASE /\ socket_fd \in Conns
           /\ \E p \in {"fin", "rst"}, rp \in {conn[socket_fd].replies, <<>>} :
                conn' = [conn EXCEPT ![socket_fd] = [@ EXCEPT !.peer = p, !.replies = rp]]
  <2> DEFINE s == socket_fd
  <2>1. PICK p \in {"fin", "rst"}, rp \in {conn[s].replies, <<>>} :
          conn' = [conn EXCEPT ![s] = [@ EXCEPT !.peer = p, !.replies = rp]]
    BY <1>2
  <2>2. /\ conn[s].state \in {"unused", "backlog", "accepted", "closed"}
        /\ conn[s].requests \in Chan(BoundedRequest) /\ rp \in Chan(BoundedReply)
        /\ s \in Conns
    BY <1>2, <2>1, ConnFacts, Channels DEF Inv
  <2>3. /\ ConnsOK'
        /\ conn'[s].state = conn[s].state /\ conn'[s].peer = p
        /\ conn'[s].requests = conn[s].requests /\ conn'[s].replies = rp
        /\ \A d \in Conns \ {s} : conn'[d] = conn[d]
    BY <1>2, <2>1, <2>2 DEF Inv, ConnsOK, Connection
  <2>4. ASSUME NEW c \in Conns PROVE WireOK(c)'
    <3>1. CASE c = s
      BY <2>1, <2>3, <3>1, Constants DEF Inv, WireOK
    <3>2. CASE c # s
      BY <2>3, <3>2, Constants DEF Inv, WireOK
    <3> QED BY <3>1, <3>2
  <2>5. ASSUME NEW c \in Conns PROVE SetpointOK(c)'
    <3>1. CASE c = s
      BY <2>3, <3>1, Zenon DEF Inv, SetpointOK
    <3>2. CASE c # s
      BY <2>3, <3>2, Zenon DEF Inv, SetpointOK
    <3> QED BY <3>1, <3>2
  <2>6. AlignedOK'
    BY Constants DEF Inv, AlignedOK
  <2> QED BY <2>3, <2>4, <2>5, <2>6 DEF Wires
<1> QED BY <1>1, <1>2

\* A request that a callback sends.
Sent(name, counts) ==
  [op |-> Operation[name], counts |-> counts, basis |-> basis'.session,
   true_to_basis |-> TrueToBasis(counts)]

BasisType == [session : 0 .. MaxSessions, counts : Positions, commanded : BOOLEAN]

LEMMA SentFacts ==
  ASSUME NEW name \in Calls, NEW counts \in Positions, basis' \in BasisType
  PROVE  /\ Sent(name, counts) \in BoundedRequest
         /\ Sent(name, counts).op = Operation[name] /\ Sent(name, counts).counts = counts
         /\ Sent(name, counts).basis = basis'.session
         /\ Sent(name, counts).true_to_basis <=> TrueToBasis(counts)
         /\ <<Sent(name, counts)>> \in Chan(BoundedRequest)
         /\ <<Sent(name, counts)>>[1] = Sent(name, counts)
<1>1. Operation[name] \in Operations /\ basis'.session \in 0 .. MaxSessions
  BY CallFacts DEF BasisType
<1>2. TrueToBasis(counts) \in BOOLEAN
  BY Zenon DEF TrueToBasis
<1>3. Sent(name, counts) \in BoundedRequest
  BY <1>1, <1>2 DEF Sent, BoundedRequest
<1>4. /\ Sent(name, counts).op = Operation[name] /\ Sent(name, counts).counts = counts
      /\ Sent(name, counts).basis = basis'.session
      /\ Sent(name, counts).true_to_basis = TrueToBasis(counts)
  BY Zenon DEF Sent
<1> QED BY <1>3, <1>4, Channels, Singles

LEMMA ReturnsWires ==
  ASSUME Inv, NEW name \in Calls, Replied(name), Returns,
         UNCHANGED <<serving, reply, session, sessions>>
  PROVE  /\ Wires' /\ socket_fd' = socket_fd /\ call' = "none"
         /\ conn'[socket_fd].state = conn[socket_fd].state
<1> DEFINE s == socket_fd
<1>1. /\ s \in Conns /\ Tail(conn[s].replies) = <<>> /\ conn[s].requests = <<>>
      /\ serving = s => reply = <<>>
      /\ conn[s].state \in {"accepted", "closed"} /\ conn[s].peer = "up"
  BY RepliedFacts
<1>2. <<>> \in Chan(BoundedRequest) /\ <<>> \in Chan(BoundedReply)
  BY Channels
<1>3. ConnChanged(conn, conn', s, conn[s].state, "up", <<>>, <<>>)
  <2>1. /\ conn' = [conn EXCEPT ![s].replies = Tail(@)]
        /\ conn \in [Conns -> Connection]
    BY DEF Returns, Inv, ConnsOK
  <2> QED BY <1>1, <1>2, <2>1 DEF ConnChanged, Connection
<1>4. socket_fd' = s /\ call' = "none"
  BY DEF Returns
<1>5. Wires'
  BY <1>1, <1>2, <1>3, <1>4, SocketChange
<1> QED BY <1>3, <1>4, <1>5 DEF ConnChanged

LEMMA ContinuesWires ==
  ASSUME Inv, NEW name \in Calls, Replied(name), NEW next \in Calls, NEW counts \in Positions,
         Continues(next, counts), basis' \in BasisType,
         UNCHANGED <<serving, reply, session, sessions>>,
         Operation[next] = "CSP_SETPOINT_ALL" =>
           /\ TrueToBasis(counts)
           /\ session = "cycling" => basis'.session = sessions
  PROVE  /\ Wires' /\ socket_fd' = socket_fd /\ call' = next
         /\ conn'[socket_fd].state = conn[socket_fd].state
         /\ conn'[socket_fd].replies = <<>> /\ (serving = socket_fd => reply = <<>>)
         /\ conn'[socket_fd].requests[1].counts = counts
<1> DEFINE s == socket_fd
           rq == <<Sent(next, counts)>>
<1>1. /\ s \in Conns /\ Tail(conn[s].replies) = <<>> /\ conn[s].requests = <<>>
      /\ serving = s => reply = <<>>
      /\ conn[s].state \in {"accepted", "closed"} /\ conn[s].peer = "up"
  BY RepliedFacts
<1>2. /\ rq \in Chan(BoundedRequest) /\ <<>> \in Chan(BoundedReply)
      /\ Append(<<>>, Sent(next, counts)) = rq
  BY SentFacts, Channels, Singles
<1>3. ConnChanged(conn, conn', s, conn[s].state, "up", rq, <<>>)
  <2>1. /\ conn' = [conn EXCEPT ![s].replies = Tail(@),
                                ![s].requests = Append(@, Sent(next, counts))]
        /\ conn \in [Conns -> Connection]
    BY DEF Continues, Inv, ConnsOK, Sent
  <2> HIDE DEF rq
  <2> QED BY <1>1, <1>2, <2>1 DEF ConnChanged, Connection
<1>4. socket_fd' = s /\ call' = next
  BY DEF Continues
<1>5. /\ rq[1].op = Operation[next] /\ rq[1].counts = counts
      /\ rq[1].op = "CSP_SETPOINT_ALL" =>
           rq[1].true_to_basis /\ (session = "cycling" => rq[1].basis = sessions)
  BY SentFacts, Zenon
<1>6. Wires'
  <2>1. rq # <<>> => call' # "none" /\ rq[1].op = Operation[call']
    BY <1>4, <1>5, CallFacts
  <2>2. rq # <<>> /\ rq[1].op = "CSP_SETPOINT_ALL" =>
           /\ conn[s].state \in {"accepted", "closed"}
           /\ rq[1].true_to_basis /\ (session = "cycling" => rq[1].basis = sessions)
    BY <1>1, <1>5, Zenon
  <2>3. call' \in Calls \cup {"none"}
    BY <1>4
  <2>4. conn[s].state = IF conn[s].state = "unused" THEN "backlog" ELSE conn[s].state
    BY <1>1
  <2>5. conn[s].state \in {"backlog", "accepted", "closed"}
    BY <1>1
  <2> HIDE DEF rq
  <2> QED BY <1>1, <1>2, <1>3, <1>4, <2>1, <2>2, <2>3, <2>4, <2>5, SocketChange
<1> QED BY <1>1, <1>3, <1>4, <1>5, <1>6 DEF ConnChanged

LEMMA SendWires ==
  ASSUME Inv, NEW c \in Conns, call = "none", Usable(c),
         NEW name \in {"ping", "enter", "read", "exit"}, Send(name, AnyPosition, c),
         basis' \in BasisType, UNCHANGED <<serving, reply, session, sessions>>
  PROVE  /\ Wires' /\ socket_fd' = c /\ call' = name
         /\ socket_fd \in Conns => c = socket_fd /\ conn'[c].state = conn[c].state
<1> DEFINE rq == <<Sent(name, AnyPosition)>>
           st == IF conn[c].state = "unused" THEN "backlog" ELSE conn[c].state
<1>1. /\ conn[c].requests = <<>> /\ conn[c].replies = <<>> /\ conn[c].peer = "up"
      /\ serving = c => reply = <<>>
      /\ socket_fd = c \/ (socket_fd = NoConn /\ conn[c].state = "unused")
      /\ name \in Calls /\ st \in {"backlog", "accepted", "closed"}
  <2>1. name \in Calls
    BY CallFacts
  <2>2. CASE socket_fd # NoConn
    <3>1. socket_fd = c
      BY <2>2 DEF Usable
    <3> QED BY <2>1, <3>1, IdleFacts, ConnFacts DEF Inv
  <2>3. CASE socket_fd = NoConn
    <3>1. conn[c].state = "unused"
      BY <2>3 DEF Usable
    <3> QED BY <2>1, <2>3, <3>1 DEF Inv, WireOK
  <2> QED BY <2>2, <2>3
<1>2. /\ rq \in Chan(BoundedRequest) /\ <<>> \in Chan(BoundedReply)
      /\ Append(<<>>, Sent(name, AnyPosition)) = rq
  BY <1>1, SentFacts, Channels, Singles, Constants
<1>3. ConnChanged(conn, conn', c, st, "up", rq, <<>>)
  <2>1. /\ conn' = [conn EXCEPT ![c].state = st,
                                ![c].requests = Append(@, Sent(name, AnyPosition))]
        /\ conn \in [Conns -> Connection]
    BY DEF Send, Inv, ConnsOK, Sent
  <2> HIDE DEF rq, st
  <2> QED BY <1>1, <1>2, <2>1 DEF ConnChanged, Connection
<1>4. socket_fd' = c /\ call' = name
  BY DEF Send
<1>5. rq[1].op = Operation[name] /\ Operation[name] # "CSP_SETPOINT_ALL"
  BY <1>1, SentFacts, CallFacts, Constants
<1>6. Wires'
  <2>1. rq # <<>> => call' # "none" /\ rq[1].op = Operation[call']
    BY <1>4, <1>5, CallFacts
  <2>2. rq[1].op # "CSP_SETPOINT_ALL" /\ call' \in Calls \cup {"none"}
    BY <1>1, <1>4, <1>5
  <2> HIDE DEF rq
  <2> QED BY <1>1, <1>2, <1>3, <1>4, <2>1, <2>2, SocketChange
<1>7. socket_fd \in Conns => socket_fd = c /\ conn[c].state # "unused"
  BY <1>1, Constants DEF Inv, WireOK
<1> QED BY <1>3, <1>4, <1>6, <1>7 DEF ConnChanged

-----------------------------------------------------------------------------
(* The interface.                                                          *)

LEMMA ClientTypes ==
  ASSUME Inv, UNCHANGED <<serving, reply, busVars>>,
         life' \in {"down", "unconfigured", "inactive", "active", "finalized"},
         call' \in Calls \cup {"none"}, socket_fd' \in Conns \cup {NoConn},
         hw_positions' \in Positions, hw_commands' \in Positions,
         basis' \in BasisType, faults' \in 0 .. MaxFaults
  PROVE  VarsOK'
BY DEF Inv, VarsOK, BasisType, busVars

\* Before the server has answered a request there is no answer to it.
LEMMA NotAnswered ==
  ASSUME conn[socket_fd].replies = <<>>, serving = socket_fd => reply = <<>>, NEW r
  PROVE  ~Answered(r)
BY Singles DEF Answered

LEMMA StartsInv ==
  ASSUME Inv, NEW from \in {"unconfigured", "inactive", "active"},
         NEW name \in {"ping", "enter", "read", "exit"},
         Starts(from, name, AnyPosition), basis' \in BasisType,
         name = "ping" => from = "unconfigured",
         name = "enter" => from = "inactive",
         name \in {"read", "exit"} => from = "active",
         from = "active" => basis' = basis
  PROVE  Inv'
<1>1. PICK c \in Conns : Usable(c) /\ Send(name, AnyPosition, c)
  BY DEF Starts
<1>2. /\ life = from /\ call = "none"
      /\ UNCHANGED <<life, hw_positions, hw_commands, serving, reply, busVars, faults>>
      /\ UNCHANGED <<session, sessions, target_counts>>
  BY DEF Starts, busVars
<1>3. /\ Wires' /\ socket_fd' = c /\ call' = name
      /\ socket_fd \in Conns => c = socket_fd /\ conn'[c].state = conn[c].state
  BY <1>1, <1>2, SendWires
<1>4. VarsOK'
  <2>1. name \in Calls
    BY CallFacts
  <2> QED BY <1>2, <1>3, <2>1, ClientTypes DEF Inv, VarsOK
<1>5. PhaseOK'
  BY <1>2, <1>3 DEF Inv, PhaseOK
<1>6. BasisOK'
  BY <1>2, <1>3 DEF Inv, BasisOK
<1> QED BY <1>3, <1>4, <1>5, <1>6 DEF Inv, Wires

\* A callback returns with its reply: all but a first read, an activation or a write that
\* go on.
LEMMA ReplyEndsInv ==
  ASSUME Inv, NEW name \in Calls, Replied(name), Returns,
         UNCHANGED <<hw_positions, hw_commands, basis, serving, reply, busVars, faults>>,
         life' \in {"inactive", "active", "finalized"},
         life' = "active" => name \in {"lock", "write"}
  PROVE  Inv'
<1>1. /\ socket_fd \in Conns /\ call = name
      /\ conn[socket_fd].state \in {"accepted", "closed"}
      /\ UNCHANGED <<session, sessions, target_counts>>
  BY RepliedFacts DEF busVars
<1>2. /\ Wires' /\ socket_fd' = socket_fd /\ call' = "none"
      /\ conn'[socket_fd].state = conn[socket_fd].state
  BY <1>1, ReturnsWires
<1>3. VarsOK'
  BY <1>2, ClientTypes DEF Inv, VarsOK, BasisType
<1>4. PhaseOK'
  BY <1>1, <1>2 DEF PhaseOK
<1>5. BasisOK'
  <2>1. name = "write" => life = "active"
    BY <1>1 DEF Inv, PhaseOK
  <2> QED BY <1>1, <1>2, <2>1 DEF Inv, BasisOK
<1> QED BY <1>2, <1>3, <1>4, <1>5 DEF Inv, Wires

\* A callback goes on to its next request.
LEMMA ReplyContinuesInv ==
  ASSUME Inv, NEW name \in Calls, Replied(name), NEW next \in {"first_read", "lock", "write"},
         NEW counts \in Positions, Continues(next, counts),
         hw_positions' \in Positions, hw_commands' \in Positions, basis' \in BasisType,
         UNCHANGED <<life, serving, reply, busVars, faults>>,
         next = "write" <=> name = "read",
         next = "lock" <=> name = "first_read",
         next = "first_read" <=> name = "enter",
         next # "first_read" =>
           /\ session = "cycling" => basis'.session = sessions
           /\ basis'.commanded \/ hw_commands' \in {basis'.counts, Clamp(basis'.counts)}
           /\ TrueToBasis(counts),
         next = "lock" => counts = basis'.counts
  PROVE  Inv'
<1>1. /\ socket_fd \in Conns /\ call = name
      /\ conn[socket_fd].state \in {"accepted", "closed"}
      /\ UNCHANGED <<session, sessions, target_counts>>
      /\ next \in Calls
  BY RepliedFacts, CallFacts DEF busVars
<1>2. /\ Wires' /\ socket_fd' = socket_fd /\ call' = next
      /\ conn'[socket_fd].state = conn[socket_fd].state
      /\ conn'[socket_fd].replies = <<>> /\ (serving = socket_fd => reply = <<>>)
      /\ conn'[socket_fd].requests[1].counts = counts
  <2>1. Operation[next] = "CSP_SETPOINT_ALL" => next # "first_read"
    BY CallFacts
  <2>2. Operation[next] = "CSP_SETPOINT_ALL" =>
          /\ TrueToBasis(counts)
          /\ session = "cycling" => basis'.session = sessions
    BY <2>1, Zenon
  <2> QED BY <1>1, <2>2, ContinuesWires
<1>3. VarsOK'
  BY <1>1, <1>2, ClientTypes DEF Inv, VarsOK
<1>4. PhaseOK'
  BY <1>1, <1>2 DEF Inv, PhaseOK
<1>5. BasisOK'
  <2>1. \A r : ~Answered(r)'
    BY <1>2, Singles DEF Answered
  <2>2. life' = "active" \/ call' = "lock" => next # "first_read"
    BY <1>1, <1>2 DEF Inv, PhaseOK
  <2>3. life' = "active" \/ call' = "lock" =>
          /\ session' = "cycling" => basis'.session = sessions'
          /\ basis'.commanded \/ hw_commands' \in {basis'.counts, Clamp(basis'.counts)}
    BY <1>1, <2>2, Zenon
  <2>4. call' = "lock" => conn'[socket_fd'].requests[1].counts = basis'.counts
    BY <1>2
  <2> QED BY <2>1, <2>3, <2>4 DEF BasisOK
<1> QED BY <1>2, <1>3, <1>4, <1>5 DEF Inv, Wires

\* A callback fails, or the process ends: the connection is closed.
LEMMA ClosesInv ==
  ASSUME Inv, UNCHANGED <<hw_positions, hw_commands, basis, serving, reply, busVars>>,
         socket_fd' = NoConn, call' = "none", faults' \in 0 .. MaxFaults,
         life' \in {"inactive", "finalized", "down"},
         \/ socket_fd = NoConn /\ conn' = conn
         \/ /\ socket_fd \in Conns
            /\ \E p \in {"fin", "rst"}, rp \in {conn[socket_fd].replies, <<>>} :
                 conn' = [conn EXCEPT ![socket_fd] = [@ EXCEPT !.peer = p, !.replies = rp]]
  PROVE  Inv'
<1>1. UNCHANGED <<session, sessions>>
  BY DEF busVars
<1>2. Wires'
  BY <1>1, SocketCloses
<1>3. VarsOK'
  BY ClientTypes DEF Inv, VarsOK, BasisType
<1>4. PhaseOK' /\ BasisOK'
  BY DEF PhaseOK, BasisOK
<1> QED BY <1>2, <1>3, <1>4 DEF Inv, Wires

LEMMA CloseSocketInv ==
  ASSUME Inv, CloseSocket, call' = "none", faults' \in 0 .. MaxFaults,
         UNCHANGED <<hw_positions, hw_commands, basis, serving, reply, busVars>>,
         life' \in {"inactive", "finalized", "down"}
  PROVE  Inv'
<1>1. CASE socket_fd = NoConn
  BY <1>1, ClosesInv DEF CloseSocket
<1>2. CASE socket_fd # NoConn
  <2> DEFINE s == socket_fd
             p == IF conn[s].replies = <<>> THEN "fin" ELSE "rst"
  <2>1. /\ s \in Conns /\ conn \in [Conns -> Connection] /\ conn[s] \in Connection
        /\ socket_fd' = NoConn /\ conn' = [conn EXCEPT ![s].peer = p]
        /\ p \in {"fin", "rst"}
    BY <1>2 DEF CloseSocket, Closed, Inv, VarsOK, ConnsOK
  <2>2. [conn[s] EXCEPT !.peer = p]
          = [conn[s] EXCEPT !.peer = p, !.replies = conn[s].replies]
    <3> HIDE DEF p
    <3> QED BY <2>1 DEF Connection
  <2>3. conn' = [conn EXCEPT ![s] = [@ EXCEPT !.peer = p, !.replies = conn[s].replies]]
    BY <2>1, <2>2, Zenon
  <2>4. \E q \in {"fin", "rst"}, rp \in {conn[s].replies, <<>>} :
          conn' = [conn EXCEPT ![s] = [@ EXCEPT !.peer = q, !.replies = rp]]
    <3> HIDE DEF p
    <3> QED BY <2>1, <2>3, Zenon
  <2> QED BY <2>1, <2>4, ClosesInv
<1> QED BY <1>1, <1>2

LEMMA ClientInv ==
  ASSUME Inv, Client
  PROVE  Inv'
<1>1. basis \in BasisType /\ faults \in 0 .. MaxFaults
  BY DEF Inv, VarsOK, BasisType
<1>2. [basis EXCEPT !.session = 0, !.commanded = FALSE] \in BasisType
  <2>1. \A b \in BOOLEAN, k \in 0 .. MaxSessions :
          [basis EXCEPT !.session = k, !.commanded = b] \in BasisType
    BY <1>1 DEF BasisType
  <2>2. 0 \in 0 .. MaxSessions /\ FALSE \in BOOLEAN
    BY Constants
  <2> QED BY <2>1, <2>2, Zenon
<1>3. CASE ClientStarts
  <2>1. /\ life = "down" /\ life' = "unconfigured" /\ basis' \in BasisType
        /\ hw_positions' \in Positions /\ hw_commands' \in Positions
        /\ UNCHANGED <<call, socket_fd, conn, serving, reply, busVars, faults>>
        /\ UNCHANGED <<session, sessions, target_counts>>
    BY <1>2, <1>3, ClampFacts DEF ClientStarts, serverVars, busVars
  <2>2. call = "none"
    BY <2>1, CallFacts DEF Inv, VarsOK, PhaseOK
  <2>3. VarsOK'
    BY <1>1, <2>1, ClientTypes DEF Inv, VarsOK
  <2>4. PhaseOK' /\ BasisOK'
    BY <2>1, <2>2 DEF PhaseOK, BasisOK
  <2>5. ConnsOK' /\ AlignedOK' /\ \A c \in Conns : WireOK(c)' /\ SetpointOK(c)'
    BY <2>1 DEF Inv, ConnsOK, AlignedOK, WireOK, SetpointOK
  <2> QED BY <2>3, <2>4, <2>5 DEF Inv
<1>4. CASE Configure
  BY <1>1, <1>4, StartsInv DEF Configure
<1>5. CASE Activate
  BY <1>2, <1>5, StartsInv DEF Activate
<1>6. CASE Cycle \/ Deactivate
  BY <1>1, <1>6, StartsInv DEF Cycle, Deactivate
<1>7. CASE ConnectFails
  <2>1. CloseSocket /\ call' = "none" /\ life' = "finalized" /\ faults' = faults
        /\ UNCHANGED <<hw_positions, hw_commands, basis, serving, reply, busVars>>
    BY <1>7 DEF ConnectFails, CloseSocket, serverVars
  <2> QED BY <1>1, <2>1, CloseSocketInv
<1>8. CASE ConfigureReturns \/ ActivateReturns \/ CycleReturns
  BY <1>8, ReplyEndsInv, CallFacts DEF ConfigureReturns, ActivateReturns, CycleReturns
<1>9. CASE ActivateReads
  <2>1. Replied("enter") /\ UNCHANGED <<basis, hw_positions, hw_commands, serving, reply, busVars, faults>>
        /\ \/ Continues("first_read", AnyPosition) /\ UNCHANGED life
           \/ Returns /\ life' = "finalized"
    BY <1>9 DEF ActivateReads
  <2>2. hw_positions' \in Positions /\ hw_commands' \in Positions /\ basis' \in BasisType
    BY <1>1, <2>1 DEF Inv, VarsOK
  <2>3. CASE Continues("first_read", AnyPosition) /\ UNCHANGED life
    BY <2>1, <2>2, <2>3, ReplyContinuesInv, CallFacts, Constants
  <2>4. CASE Returns /\ life' = "finalized"
    BY <2>1, <2>4, ReplyEndsInv, CallFacts
  <2> QED BY <2>1, <2>3, <2>4
<1>10. CASE ActivateLocks
  <2>1. Replied("first_read") /\ UNCHANGED <<serving, reply, busVars, faults>>
    BY <1>10 DEF ActivateLocks
  <2>2. CASE /\ Arrived.ok
             /\ hw_positions' = Arrived.counts /\ hw_commands' = Arrived.counts
             /\ basis' = [session |-> Arrived.session, counts |-> Arrived.counts,
                          commanded |-> FALSE]
             /\ Continues("lock", Arrived.counts) /\ UNCHANGED life
    <3>1. call = "first_read" /\ Arrived \in BoundedReply /\ Answered(Arrived)
      BY <2>1, RepliedFacts, CallFacts
    <3>2. Arrived.counts \in Positions /\ Arrived.session \in 0 .. MaxSessions
      BY <3>1 DEF BoundedReply
    <3>3. /\ basis' \in BasisType /\ basis'.session = Arrived.session
          /\ basis'.counts = Arrived.counts
      BY <2>2, <3>2 DEF BasisType
    <3>4. session = "cycling" => Arrived.session = sessions
      BY <2>2, <3>1 DEF Inv, BasisOK
    <3>5. /\ session = "cycling" => basis'.session = sessions
          /\ hw_commands' = basis'.counts /\ Arrived.counts = basis'.counts
          /\ TrueToBasis(Arrived.counts)
      BY <2>2, <3>3, <3>4 DEF TrueToBasis
    <3> QED BY <2>1, <2>2, <3>2, <3>3, <3>5, ReplyContinuesInv, CallFacts
  <2>3. CASE Returns /\ life' = "finalized" /\ UNCHANGED <<hw_positions, hw_commands, basis>>
    BY <2>1, <2>3, ReplyEndsInv, CallFacts
  <2> QED BY <1>10, <2>2, <2>3, Zenon DEF ActivateLocks
<1>11. CASE CycleWrites
  <2>1. Replied("read") /\ UNCHANGED <<serving, reply, busVars, faults>>
    BY <1>11 DEF CycleWrites
  <2>2. ASSUME hw_positions' = Arrived.counts, UNCHANGED life,
               NEW p \in Positions, hw_commands' = Clamp(p),
               basis' = [basis EXCEPT !.commanded = @ \/ p # hw_commands],
               Continues("write", Clamp(p))
        PROVE  Inv'
    <3>1. call = "read" /\ Arrived \in BoundedReply
      BY <2>1, RepliedFacts, CallFacts
    <3>2. Arrived.counts \in Positions
      BY <3>1 DEF BoundedReply
    <3>3. life = "active"
      BY <3>1 DEF Inv, PhaseOK
    <3>4. /\ session = "cycling" => basis.session = sessions
          /\ basis.commanded \/ hw_commands \in {basis.counts, Clamp(basis.counts)}
      BY <3>3 DEF Inv, BasisOK
    <3>5. (basis.commanded \/ p # hw_commands) \in BOOLEAN
      BY Zenon
    <3>6. /\ basis' \in BasisType /\ basis'.session = basis.session
          /\ basis'.counts = basis.counts
      <4> DEFINE b == basis.commanded \/ p # hw_commands
      <4>1. basis' = [basis EXCEPT !.commanded = b] /\ b \in BOOLEAN
        BY <2>2, <3>5, Zenon
      <4> HIDE DEF b
      <4> QED BY <1>1, <4>1 DEF BasisType
    <3>7. basis'.commanded = (basis.commanded \/ p # hw_commands)
      BY <1>1, <2>2, Zenon DEF BasisType
    <3>8. basis'.commanded \/ Clamp(p) = Clamp(basis'.counts)
      <4>1. CASE basis.commanded \/ p # hw_commands
        BY <3>7, <4>1
      <4>2. CASE p = basis.counts
        BY <3>6, <4>2
      <4>3. CASE p = Clamp(basis.counts)
        <5>1. basis.counts \in Positions
          BY <1>1 DEF BasisType
        <5> QED BY <3>6, <4>3, <5>1, ClampFacts
      <4> QED BY <3>4, <4>1, <4>2, <4>3
    <3>9. session = "cycling" => basis'.session = sessions
      BY <3>4, <3>6
    <3>10. /\ basis'.commanded \/ hw_commands' \in {basis'.counts, Clamp(basis'.counts)}
           /\ TrueToBasis(Clamp(p)) /\ Clamp(p) \in Positions
      BY <2>2, <3>8, ClampFacts DEF TrueToBasis
    <3> QED BY <2>1, <2>2, <3>2, <3>6, <3>9, <3>10, ReplyContinuesInv, CallFacts
  <2>3. CASE Returns /\ life' = "finalized" /\ UNCHANGED <<hw_positions, hw_commands, basis>>
    BY <2>1, <2>3, ReplyEndsInv, CallFacts
  <2> QED BY <1>11, <2>2, <2>3, Zenon DEF CycleWrites
<1>12. CASE DeactivateReturns
  <2> DEFINE s == socket_fd
  <2>1. /\ s \in Conns /\ life' = "inactive" /\ call' = "none" /\ socket_fd' = NoConn
        /\ UNCHANGED <<hw_positions, hw_commands, basis, serving, reply, busVars, faults>>
    BY <1>12, RepliedFacts, CallFacts DEF DeactivateReturns
  <2>2. conn' = [conn EXCEPT ![s] = [@ EXCEPT !.peer = "fin", !.replies = <<>>]]
    <3>1. conn \in [Conns -> Connection] /\ conn' = [conn EXCEPT ![s].replies = <<>>, ![s].peer = "fin"]
      BY <1>12 DEF DeactivateReturns, Inv, ConnsOK
    <3> QED BY <2>1, <3>1 DEF Connection
  <2>3. \E p \in {"fin", "rst"}, rp \in {conn[s].replies, <<>>} :
          conn' = [conn EXCEPT ![s] = [@ EXCEPT !.peer = p, !.replies = rp]]
    BY <2>2, Zenon
  <2> QED BY <1>1, <2>1, <2>3, ClosesInv
<1>13. CASE CallLosesConnection
  BY <1>1, <1>13, CloseSocketInv DEF CallLosesConnection, ClosesOnFailure, LifeAfterFailure
<1>14. CASE CallInterrupted
  BY <1>1, <1>14, Constants, CloseSocketInv
  DEF CallInterrupted, ClosesOnFailure, LifeAfterFailure
<1>15. CASE ClientEnds
  BY <1>1, <1>15, Constants, CloseSocketInv DEF ClientEnds
<1> QED BY <1>3, <1>4, <1>5, <1>6, <1>7, <1>8, <1>9, <1>10, <1>11, <1>12, <1>13, <1>14, <1>15
        DEF Client, ClientReply

-----------------------------------------------------------------------------
(* The server.                                                             *)

\* Once the interface has been accepted, the server serves nobody else.
LEMMA ServedIsOurs ==
  ASSUME Inv, serving \in Conns, life = "active" \/ call \in {"first_read", "lock"}
  PROVE  serving = socket_fd
<1>1. socket_fd \in Conns /\ conn[socket_fd].state \in {"accepted", "closed"}
  BY DEF Inv, PhaseOK
<1>2. conn[serving].state = "accepted"
  BY DEF Inv, WireOK
<1>3. conn[socket_fd].state # "closed"
  BY <1>1, <1>2 DEF Inv, AlignedOK
<1> QED BY <1>1, <1>3 DEF Inv, WireOK

LEMMA ServesFacts ==
  ASSUME Inv, NEW o \in Operations, Serves(o)
  PROVE  /\ serving \in Conns /\ reply = <<>>
         /\ conn[serving].requests # <<>> /\ Setpoint.op = o /\ Setpoint \in BoundedRequest
         /\ Tail(conn[serving].requests) = <<>>
         /\ conn[serving].replies = <<>> /\ conn[serving].state = "accepted"
         /\ serving = socket_fd => call \in Calls /\ o = Operation[call]
<1>1. /\ serving \in Conns /\ reply = <<>>
      /\ conn[serving].requests # <<>> /\ conn[serving].requests[1].op = o
  BY DEF Serves
<1>2. conn[serving].requests \in Chan(BoundedRequest)
  BY <1>1, ConnFacts DEF Inv
<1>3. Setpoint \in BoundedRequest /\ Tail(conn[serving].requests) = <<>>
  BY <1>1, <1>2, Channels DEF Setpoint
<1>4. conn[serving].replies = <<>> /\ conn[serving].state = "accepted"
  BY <1>1 DEF Inv, WireOK
<1>5. serving = socket_fd => call \in Calls /\ o = Operation[call]
  BY <1>1 DEF Inv, AlignedOK, VarsOK
<1> QED BY <1>1, <1>3, <1>4, <1>5 DEF Setpoint

\* A request is answered.  Only ENTER_CSP_ALL begins a session, and only a setpoint and it
\* set targets.
LEMMA AnswersInv ==
  ASSUME Inv, NEW o \in Operations, Serves(o),
         NEW ok \in BOOLEAN, NEW counts \in Positions, NEW s \in 0 .. MaxSessions,
         Answers(ok, counts, s), UNCHANGED <<clientVars, serving, faults>>,
         session' \in {"none", "cycling", "failed", "rejected"},
         target_counts' \in Positions, latest' \in Positions, actual' \in Positions,
         sessions' \in 0 .. MaxSessions,
         o # "ENTER_CSP_ALL" /\ session' = "cycling" =>
           session = "cycling" /\ sessions' = sessions,
         o = "GET_ALL" /\ ok /\ session' = "cycling" => s = sessions',
         o = "CSP_SETPOINT_ALL" /\ ok /\ session' = "cycling" => target_counts' = Setpoint.counts
  PROVE  Inv'
<1> DEFINE c == serving
           rec == [to |-> conn[c].requests[1].op, ok |-> ok, counts |-> counts, session |-> s]
<1>1. /\ c \in Conns /\ reply = <<>> /\ conn[c].requests # <<>>
      /\ Setpoint.op = o /\ Setpoint = conn[c].requests[1]
      /\ Tail(conn[c].requests) = <<>>
      /\ conn[c].replies = <<>> /\ conn[c].state = "accepted"
      /\ c = socket_fd => call \in Calls /\ o = Operation[call]
  BY ServesFacts DEF Setpoint
<1>2. /\ reply' = <<rec>> /\ rec.to = o /\ rec.session = s /\ (rec.ok <=> ok)
      /\ rec \in BoundedReply /\ <<rec>> \in Chan(BoundedReply) /\ <<rec>>[1] = rec
  <2>1. reply' = <<rec>>
    BY Zenon DEF Answers
  <2>2. rec \in BoundedReply /\ rec.to = o /\ rec.session = s
    BY <1>1 DEF BoundedReply
  <2>3. rec.ok <=> ok
    BY Zenon
  <2> HIDE DEF rec
  <2> QED BY <2>1, <2>2, <2>3, Channels, Singles
<1> HIDE DEF rec
<1>3. /\ UNCHANGED <<life, call, socket_fd, hw_positions, hw_commands, basis, faults>>
      /\ serving' = c
  BY DEF clientVars
<1>4. /\ conn' \in [Conns -> Connection]
      /\ conn'[c].state = "accepted" /\ conn'[c].peer = conn[c].peer
      /\ conn'[c].requests = <<>> /\ conn'[c].replies = <<>>
      /\ \A d \in Conns \ {c} : conn'[d] = conn[d]
  <2>1. conn' = [conn EXCEPT ![c].requests = Tail(@)] /\ conn \in [Conns -> Connection]
    BY DEF Answers, Inv, ConnsOK
  <2>2. <<>> \in Chan(BoundedRequest)
    BY Channels
  <2> QED BY <1>1, <2>1, <2>2 DEF Connection
<1>5. VarsOK'
  BY <1>2, <1>3 DEF Inv, VarsOK
<1>6. ASSUME NEW d \in Conns PROVE WireOK(d)' /\ SetpointOK(d)'
  <2>1. CASE d = c
    BY <1>1, <1>3, <1>4, <2>1 DEF Inv, WireOK, SetpointOK
  <2>2. CASE d # c
    <3>1. conn'[d] = conn[d] /\ conn[d].state # "accepted"
      BY <1>4, <2>2 DEF Inv, WireOK
    <3>2. WireOK(d)'
      BY <1>3, <2>2, <3>1 DEF Inv, WireOK
    <3>3. SetpointOK(d)'
      BY <3>1, Zenon DEF Inv, SetpointOK
    <3> QED BY <3>2, <3>3
  <2> QED BY <2>1, <2>2
<1>7. AlignedOK'
  <2>1. c = socket_fd => call # "none" /\ reply'[1].to = Operation[call]
    BY <1>1, <1>2, CallFacts
  <2>2. socket_fd \in Conns /\ conn'[socket_fd].state = "closed" => FALSE
    <3>1. socket_fd \in Conns /\ conn[socket_fd].state = "closed" => FALSE
      BY <1>1 DEF Inv, AlignedOK
    <3> QED BY <1>4, <3>1
  <2>3. socket_fd \in Conns /\ c # socket_fd => conn'[socket_fd] = conn[socket_fd]
    BY <1>4
  <2>4. call # "none" => socket_fd \in Conns
    BY DEF Inv, AlignedOK
  <2>5. socket_fd \in Conns =>
          /\ conn'[socket_fd].requests # <<>> =>
               call # "none" /\ conn'[socket_fd].requests[1].op = Operation[call]
          /\ conn'[socket_fd].replies # <<>> =>
               call # "none" /\ conn'[socket_fd].replies[1].to = Operation[call]
    BY <1>4, <2>3 DEF Inv, AlignedOK
  <2> QED BY <1>1, <1>3, <2>1, <2>2, <2>4, <2>5 DEF AlignedOK
<1>8. PhaseOK'
  <2>1. socket_fd \in Conns /\ conn[socket_fd].state \in {"accepted", "closed"} =>
          conn'[socket_fd].state \in {"accepted", "closed"}
    BY <1>4
  <2> QED BY <1>3, <2>1 DEF Inv, PhaseOK
<1>9. BasisOK'
  <2>1. CASE life = "active" \/ call \in {"first_read", "lock"}
    <3>1. c = socket_fd /\ call \in Calls /\ o = Operation[call]
      BY <1>1, <2>1, ServedIsOurs
    <3>2. o # "ENTER_CSP_ALL"
      BY <2>1, <3>1, CallFacts DEF Inv, PhaseOK
    <3>3. \A r : Answered(r)' => r = rec
      <4>1. \A r : Answered(r)' => <<rec>> = <<r>>
        BY <1>2, <1>3, <1>4, <3>1, Singles DEF Answered
      <4> QED BY <4>1
    <3>4. life' = "active" \/ call' = "lock" =>
            /\ session' = "cycling" => basis'.session = sessions'
            /\ basis'.commanded \/ hw_commands' \in {basis'.counts, Clamp(basis'.counts)}
      BY <1>3, <3>2, Zenon DEF Inv, BasisOK
    <3>5. call' = "first_read" /\ session' = "cycling" =>
            \A r \in BoundedReply : Answered(r)' /\ r.ok => r.session = sessions'
      <4>1. call = "first_read" => o = "GET_ALL"
        BY <3>1, CallFacts
      <4>2. call = "first_read" /\ session' = "cycling" /\ rec.ok => rec.session = sessions'
        BY <1>2, <4>1, Zenon
      <4> QED BY <1>3, <3>3, <4>2, Zenon
    <3>6. call' = "lock" =>
            /\ conn'[socket_fd'].requests = <<>>
            /\ session' = "cycling" =>
                 \A r \in BoundedReply : Answered(r)' /\ r.ok => target_counts' = basis'.counts
      <4>1. call = "lock" => o = "CSP_SETPOINT_ALL"
        BY <3>1, CallFacts
      <4>2. call = "lock" => Setpoint.counts = basis.counts
        BY <1>1, <3>1 DEF Inv, BasisOK
      <4>3. call = "lock" /\ session' = "cycling" /\ rec.ok => target_counts' = basis.counts
        BY <1>2, <4>1, <4>2, Zenon
      <4>4. conn'[socket_fd'].requests = <<>>
        BY <1>3, <1>4, <3>1
      <4> QED BY <1>3, <3>3, <4>3, <4>4, Zenon
    <3> QED BY <3>4, <3>5, <3>6 DEF BasisOK
  <2>2. CASE ~(life = "active" \/ call \in {"first_read", "lock"})
    BY <1>3, <2>2 DEF BasisOK
  <2> QED BY <2>1, <2>2
<1> QED BY <1>4, <1>5, <1>6, <1>7, <1>8, <1>9 DEF Inv, ConnsOK

LEMMA ServesInv ==
  ASSUME Inv, ServePing \/ ServeEnter \/ ServeGet \/ ServeSetpoint \/ ServeExit
  PROVE  Inv'
<1>1. /\ AnyPosition \in Positions /\ latest \in Positions /\ actual \in Positions
      /\ target_counts \in Positions /\ 0 \in 0 .. MaxSessions /\ sessions \in 0 .. MaxSessions
      /\ session \in {"none", "cycling", "failed", "rejected"}
      /\ TRUE \in BOOLEAN /\ FALSE \in BOOLEAN
  BY Constants DEF Inv, VarsOK
<1>2. {"PING", "ENTER_CSP_ALL", "GET_ALL", "CSP_SETPOINT_ALL", "EXIT_CSP_ALL"} = Operations
  BY DEF Operations
<1>3. CASE ServePing
  <2>1. /\ Serves("PING") /\ Answers(TRUE, AnyPosition, 0)
        /\ UNCHANGED <<clientVars, serving, faults>>
        /\ UNCHANGED <<session, target_counts, latest, actual, sessions>>
    BY <1>3 DEF ServePing, busVars
  <2> QED BY <1>1, <1>2, <2>1, AnswersInv
<1>4. CASE ServeEnter
  <2>1. Serves("ENTER_CSP_ALL") /\ UNCHANGED <<clientVars, serving, faults>>
    BY <1>4 DEF ServeEnter
  <2>2. CASE Answers(TRUE, latest, sessions) /\ UNCHANGED busVars
    BY <1>1, <1>2, <2>1, <2>2, AnswersInv DEF busVars
  <2>3. CASE /\ sessions < MaxSessions /\ session' = "cycling" /\ sessions' = sessions + 1
             /\ target_counts' = actual /\ latest' = actual
             /\ Answers(TRUE, actual, sessions') /\ UNCHANGED actual
    <3>1. sessions' \in 0 .. MaxSessions
      BY <1>1, <2>3, Constants
    <3> QED BY <1>1, <1>2, <2>1, <2>3, <3>1, AnswersInv
  <2>4. CASE /\ session' = "rejected" /\ target_counts' = actual /\ latest' = actual
             /\ Answers(FALSE, actual, 0) /\ UNCHANGED <<actual, sessions>>
    BY <1>1, <1>2, <2>1, <2>4, AnswersInv
  <2>5. CASE Answers(FALSE, actual, 0) /\ UNCHANGED busVars
    BY <1>1, <1>2, <2>1, <2>5, AnswersInv DEF busVars
  <2> QED BY <1>4, <2>2, <2>3, <2>4, <2>5, Zenon DEF ServeEnter
<1>5. CASE ServeGet
  <2>1. /\ Serves("GET_ALL") /\ UNCHANGED <<clientVars, serving, faults>>
        /\ UNCHANGED <<session, target_counts, latest, actual, sessions>>
    BY <1>5 DEF ServeGet, busVars
  <2>2. CASE session = "cycling" /\ Answers(TRUE, latest, sessions)
    BY <1>1, <1>2, <2>1, <2>2, AnswersInv
  <2>3. CASE session # "cycling" /\ Answers(FALSE, latest, 0)
    BY <1>1, <1>2, <2>1, <2>3, AnswersInv
  <2>4. CASE session # "cycling" /\ Answers(TRUE, latest, 0)
    BY <1>1, <1>2, <2>1, <2>4, AnswersInv
  <2>5. CASE session # "cycling" /\ Answers(TRUE, actual, 0)
    BY <1>1, <1>2, <2>1, <2>5, AnswersInv
  <2> QED BY <1>1, <1>5, <2>2, <2>3, <2>4, <2>5 DEF ServeGet
<1>6. CASE ServeSetpoint
  <2>1. /\ Serves("CSP_SETPOINT_ALL") /\ UNCHANGED <<clientVars, serving, faults>>
        /\ UNCHANGED <<session, latest, actual, sessions>>
    BY <1>6 DEF ServeSetpoint
  <2>2. Setpoint.counts \in Positions
    BY <1>2, <2>1, ServesFacts DEF BoundedRequest
  <2>3. CASE target_counts' = Setpoint.counts /\ Answers(TRUE, latest, sessions)
    BY <1>1, <1>2, <2>1, <2>2, <2>3, AnswersInv
  <2>4. CASE UNCHANGED target_counts /\ Answers(FALSE, latest, 0)
    BY <1>1, <1>2, <2>1, <2>4, AnswersInv
  <2> QED BY <1>6, <2>3, <2>4, Zenon DEF ServeSetpoint
<1>7. CASE ServeExit
  <2>1. /\ Serves("EXIT_CSP_ALL") /\ Answers(TRUE, latest, 0) /\ session' = "none"
        /\ UNCHANGED <<clientVars, serving, faults>>
        /\ UNCHANGED <<target_counts, latest, actual, sessions>>
    BY <1>7 DEF ServeExit
  <2> QED BY <1>1, <1>2, <2>1, AnswersInv
<1> QED BY <1>3, <1>4, <1>5, <1>6, <1>7

LEMMA WriteReplyInv ==
  ASSUME Inv, WriteReply
  PROVE  Inv'
<1> DEFINE c == serving
<1>1. /\ c \in Conns /\ reply # <<>> /\ reply' = <<>> /\ serving' = c
      /\ UNCHANGED <<life, call, socket_fd, hw_positions, hw_commands, basis>>
      /\ UNCHANGED <<session, target_counts, latest, actual, sessions, faults>>
  BY DEF WriteReply, clientVars, busVars
<1>2. /\ reply = <<reply[1]>> /\ reply[1] \in BoundedReply
      /\ Append(<<>>, reply[1]) = reply /\ <<>> \in Chan(BoundedReply)
  BY <1>1, Channels, Singles DEF Inv, VarsOK
<1>3. conn[c].requests = <<>> /\ conn[c].replies = <<>> /\ conn[c].state = "accepted"
  BY <1>1 DEF Inv, WireOK
<1>4. VarsOK'
  BY <1>1, <1>2 DEF Inv, VarsOK
<1>5. CASE conn[c].peer = "up"
  <2>1. c = socket_fd
    BY <1>1, <1>3, <1>5 DEF Inv, WireOK
  <2>2. /\ conn' \in [Conns -> Connection]
        /\ conn'[c].state = "accepted" /\ conn'[c].peer = "up"
        /\ conn'[c].requests = <<>> /\ conn'[c].replies = reply
        /\ \A d \in Conns \ {c} : conn'[d] = conn[d]
    <3>1. conn' = [conn EXCEPT ![c].replies = Append(@, reply[1])]
          /\ conn \in [Conns -> Connection] /\ reply \in Chan(BoundedReply)
      BY <1>5 DEF WriteReply, Inv, ConnsOK, VarsOK
    <3> QED BY <1>1, <1>2, <1>3, <1>5, <3>1 DEF Connection
  <2>3. ASSUME NEW d \in Conns PROVE WireOK(d)' /\ SetpointOK(d)'
    <3>1. CASE d = c
      BY <1>1, <2>1, <2>2, <3>1 DEF WireOK, SetpointOK
    <3>2. CASE d # c
      <4>1. conn'[d] = conn[d]
        BY <2>2, <3>2
      <4>2. WireOK(d)'
        BY <1>1, <3>2, <4>1 DEF Inv, WireOK
      <4>3. SetpointOK(d)'
        BY <1>1, <4>1, Zenon DEF Inv, SetpointOK
      <4> QED BY <4>2, <4>3
    <3> QED BY <3>1, <3>2
  <2>4. AlignedOK'
    BY <1>1, <2>1, <2>2 DEF Inv, AlignedOK
  <2>5. PhaseOK'
    BY <1>1, <1>3, <2>1, <2>2 DEF Inv, PhaseOK
  <2>6. BasisOK'
    <3>1. \A r : Answered(r)' => Answered(r)
      BY <1>1, <2>1, <2>2, Singles DEF Answered
    <3> QED BY <1>1, <2>1, <2>2, <3>1, Zenon DEF Inv, BasisOK
  <2> QED BY <1>4, <2>2, <2>3, <2>4, <2>5, <2>6 DEF Inv, ConnsOK
<1>6. CASE conn[c].peer # "up"
  <2>1. c # socket_fd /\ conn' = conn
    BY <1>1, <1>6 DEF Inv, WireOK, WriteReply
  <2>2. \A d \in Conns : WireOK(d)' /\ SetpointOK(d)'
    BY <1>1, <2>1 DEF Inv, WireOK, SetpointOK
  <2>3. AlignedOK' /\ PhaseOK'
    BY <1>1, <2>1 DEF Inv, AlignedOK, PhaseOK
  <2>4. BasisOK'
    <3>1. \A r : Answered(r)' => Answered(r)
      BY <1>1, <2>1 DEF Answered
    <3> QED BY <1>1, <2>1, <3>1, Zenon DEF Inv, BasisOK
  <2> QED BY <1>4, <2>1, <2>2, <2>3, <2>4 DEF Inv, ConnsOK
<1> QED BY <1>5, <1>6

LEMMA AcceptInv ==
  ASSUME Inv, NEW c \in Conns, Accept(c)
  PROVE  Inv'
<1>1. /\ serving = NoConn /\ conn[c].state = "backlog" /\ serving' = c
      /\ UNCHANGED <<life, call, socket_fd, hw_positions, hw_commands, basis, reply>>
      /\ UNCHANGED <<session, target_counts, latest, actual, sessions, faults>>
  BY DEF Accept, clientVars, busVars
<1>2. conn[c].requests # <<>> => conn[c].requests[1].op # "CSP_SETPOINT_ALL"
  BY <1>1 DEF Inv, SetpointOK
<1>3. reply = <<>>
  BY <1>1, Constants DEF Inv, AlignedOK
<1>4. /\ conn' \in [Conns -> Connection]
      /\ conn'[c].state = "accepted" /\ conn'[c].peer = conn[c].peer
      /\ conn'[c].requests = conn[c].requests /\ conn'[c].replies = conn[c].replies
      /\ \A d \in Conns \ {c} : conn'[d] = conn[d]
  BY DEF Accept, Inv, ConnsOK, Connection
<1>5. VarsOK'
  BY <1>1 DEF Inv, VarsOK
<1>6. ASSUME NEW d \in Conns PROVE WireOK(d)' /\ SetpointOK(d)'
  <2>1. CASE d = c
    <3>1. WireOK(d)'
      BY <1>1, <1>3, <1>4, <2>1 DEF Inv, WireOK
    <3>2. SetpointOK(d)'
      BY <1>2, <1>4, <2>1 DEF SetpointOK
    <3> QED BY <3>1, <3>2
  <2>2. CASE d # c
    <3>1. conn'[d] = conn[d]
      BY <1>4, <2>2
    <3>2. WireOK(d)'
      BY <1>1, <2>2, <3>1, Constants DEF Inv, WireOK
    <3>3. SetpointOK(d)'
      BY <1>1, <3>1, Zenon DEF Inv, SetpointOK
    <3> QED BY <3>2, <3>3
  <2> QED BY <2>1, <2>2
<1>7. \A d \in Conns : /\ conn'[d].requests = conn[d].requests
                       /\ conn'[d].replies = conn[d].replies
                       /\ \/ conn'[d].state = conn[d].state
                          \/ d = c /\ conn'[d].state = "accepted"
  <2> TAKE d \in Conns
  <2>1. CASE d = c
    BY <1>4, <2>1
  <2>2. CASE d # c
    <3>1. conn'[d] = conn[d]
      BY <1>4, <2>2
    <3> QED BY <3>1
  <2> QED BY <2>1, <2>2
<1>8. AlignedOK'
  <2>1. socket_fd \in Conns => conn'[socket_fd].state # "closed"
    <3>1. socket_fd \in Conns => conn[socket_fd].state # "closed"
      BY <1>1 DEF Inv, AlignedOK
    <3> QED BY <1>7, <3>1
  <2> QED BY <1>1, <1>3, <1>7, <2>1 DEF Inv, AlignedOK
<1>9. PhaseOK'
  BY <1>1, <1>7 DEF Inv, PhaseOK
<1>10. BasisOK'
  <2>1. ASSUME life = "active" \/ call \in {"first_read", "lock"}
        PROVE  socket_fd \in Conns
    BY <2>1 DEF Inv, PhaseOK
  <2>2. CASE socket_fd \in Conns
    <3>1. \A r : Answered(r)' => Answered(r)
      BY <1>1, <1>3, <1>7, <2>2, Singles DEF Answered
    <3> QED BY <1>1, <1>7, <2>2, <3>1, Zenon DEF Inv, BasisOK
  <2>3. CASE socket_fd \notin Conns
    BY <1>1, <2>1, <2>3 DEF BasisOK
  <2> QED BY <2>2, <2>3
<1> QED BY <1>4, <1>5, <1>6, <1>8, <1>9, <1>10 DEF Inv, ConnsOK

LEMMA EndOfFileInv ==
  ASSUME Inv, EndOfFile
  PROVE  Inv'
<1> DEFINE c == serving
<1>1. /\ c \in Conns /\ reply = <<>> /\ conn[c].peer = "fin" /\ conn[c].requests = <<>>
      /\ serving' = NoConn
      /\ UNCHANGED <<life, call, socket_fd, hw_positions, hw_commands, basis, reply>>
      /\ UNCHANGED <<session, target_counts, latest, actual, sessions, faults>>
  BY DEF EndOfFile, clientVars, busVars
<1>2. c # socket_fd
  BY <1>1 DEF Inv, WireOK
<1>3. /\ conn' \in [Conns -> Connection]
      /\ conn'[c].state = "closed" /\ conn'[c].peer = conn[c].peer
      /\ conn'[c].requests = conn[c].requests /\ conn'[c].replies = conn[c].replies
      /\ \A d \in Conns \ {c} : conn'[d] = conn[d]
  BY <1>1 DEF EndOfFile, Inv, ConnsOK, Connection
<1>4. VarsOK'
  BY <1>1 DEF Inv, VarsOK
<1>5. ASSUME NEW d \in Conns PROVE WireOK(d)' /\ SetpointOK(d)'
  <2>1. CASE d = c
    BY <1>1, <1>3, <2>1, Constants DEF Inv, WireOK, SetpointOK
  <2>2. CASE d # c
    <3>1. conn'[d] = conn[d]
      BY <1>3, <2>2
    <3>2. WireOK(d)'
      BY <1>1, <2>2, <3>1, Constants DEF Inv, WireOK
    <3>3. SetpointOK(d)'
      BY <1>1, <3>1, Zenon DEF Inv, SetpointOK
    <3> QED BY <3>2, <3>3
  <2> QED BY <2>1, <2>2
<1>6. socket_fd \in Conns => conn'[socket_fd] = conn[socket_fd]
  BY <1>2, <1>3
<1>7. AlignedOK'
  <2>1. \A d \in Conns : conn[d].state \in {"unused", "closed"} =>
          conn'[d].state \in {"unused", "closed"}
    <3> TAKE d \in Conns
    <3>1. CASE d = c
      BY <1>3, <3>1
    <3>2. CASE d # c
      BY <1>3, <3>2
    <3> QED BY <3>1, <3>2
  <2> QED BY <1>1, <1>6, <2>1 DEF Inv, AlignedOK
<1>8. PhaseOK'
  BY <1>1, <1>6 DEF Inv, PhaseOK
<1>9. BasisOK'
  <2>1. life = "active" \/ call \in {"first_read", "lock"} => socket_fd \in Conns
    BY DEF Inv, PhaseOK
  <2>2. CASE socket_fd \in Conns
    <3>1. \A r : Answered(r)' => Answered(r)
      BY <1>1, <1>6, <2>2, Singles DEF Answered
    <3> QED BY <1>1, <1>6, <2>2, <3>1, Zenon DEF Inv, BasisOK
  <2>3. CASE socket_fd \notin Conns
    BY <1>1, <2>1, <2>3 DEF BasisOK
  <2> QED BY <2>2, <2>3
<1> QED BY <1>3, <1>4, <1>5, <1>7, <1>8, <1>9 DEF Inv, ConnsOK

\* The listening socket and every connection of the server go down with it.
LEMMA ServerGoesInv ==
  ASSUME Inv, UNCHANGED clientVars, UNCHANGED <<actual, sessions>>,
         serving' \in {NoConn, Dead}, reply' = <<>>, faults' \in 0 .. MaxFaults,
         conn' = [c \in Conns |->
           IF conn[c].state \in {"backlog", "accepted"}
           THEN [conn[c] EXCEPT !.state = "closed", !.requests = <<>>] ELSE conn[c]],
         target_counts' \in Positions, latest' \in Positions,
         session' = "none" \/ UNCHANGED <<session, target_counts>>
  PROVE  Inv'
<1>1. /\ UNCHANGED <<life, call, socket_fd, hw_positions, hw_commands, basis>>
      /\ serving' \notin Conns
  BY Constants DEF clientVars
<1>2. conn \in [Conns -> Connection] /\ <<>> \in Chan(BoundedRequest)
  BY Channels DEF Inv, ConnsOK
<1>3. ASSUME NEW d \in Conns
      PROVE  /\ conn'[d] \in Connection
             /\ conn'[d].peer = conn[d].peer /\ conn'[d].replies = conn[d].replies
             /\ \/ conn'[d] = conn[d] /\ conn[d].state \in {"unused", "closed"}
                \/ /\ conn'[d].state = "closed" /\ conn'[d].requests = <<>>
                   /\ conn[d].state \in {"backlog", "accepted"}
  <2>1. CASE conn[d].state \in {"backlog", "accepted"}
    <3>1. conn'[d] = [conn[d] EXCEPT !.state = "closed", !.requests = <<>>]
      BY <2>1
    <3> QED BY <1>2, <2>1, <3>1 DEF Connection
  <2>2. CASE conn[d].state \notin {"backlog", "accepted"}
    <3>1. conn'[d] = conn[d]
      BY <2>2
    <3> QED BY <1>2, <2>2, <3>1, ConnFacts DEF Inv
  <2> QED BY <2>1, <2>2
<1>4. ConnsOK'
  BY <1>3 DEF ConnsOK
<1>5. VarsOK'
  <2>1. /\ session' \in {"none", "cycling", "failed", "rejected"}
        /\ serving' \in Conns \cup {NoConn, Dead}
        /\ reply' \in Chan(BoundedReply)
    BY Channels DEF Inv, VarsOK
  <2> QED BY <1>1, <2>1 DEF Inv, VarsOK
<1>6. ASSUME NEW d \in Conns PROVE WireOK(d)' /\ SetpointOK(d)'
  <2>1. CASE conn'[d] = conn[d] /\ conn[d].state \in {"unused", "closed"}
    <3>1. WireOK(d)'
      BY <1>1, <2>1 DEF Inv, WireOK
    <3>2. SetpointOK(d)'
      BY <2>1 DEF Inv, SetpointOK
    <3> QED BY <3>1, <3>2
  <2>2. CASE /\ conn'[d].state = "closed" /\ conn'[d].requests = <<>>
             /\ conn[d].state \in {"backlog", "accepted"}
    <3>1. conn'[d].peer = conn[d].peer /\ conn'[d].replies = conn[d].replies
      BY <1>3
    <3>2. WireOK(d)'
      BY <1>1, <2>2, <3>1 DEF Inv, WireOK
    <3>3. SetpointOK(d)'
      BY <2>2 DEF SetpointOK
    <3> QED BY <3>2, <3>3
  <2> QED BY <1>3, <2>1, <2>2
<1>7. AlignedOK'
  <2>1. \A d \in Conns : conn'[d].state \in {"unused", "closed"}
    BY <1>3
  <2>2. socket_fd \in Conns =>
          /\ conn'[socket_fd].requests # <<>> => conn'[socket_fd] = conn[socket_fd]
          /\ conn'[socket_fd].replies = conn[socket_fd].replies
    BY <1>3
  <2> QED BY <1>1, <2>1, <2>2 DEF Inv, AlignedOK
<1>8. PhaseOK'
  <2>1. socket_fd \in Conns => conn'[socket_fd].state \in {"unused", "closed"}
    BY <1>3
  <2>2. socket_fd \in Conns /\ conn[socket_fd].state # "unused" =>
          conn'[socket_fd].state = "closed"
    BY <1>3
  <2> QED BY <1>1, <2>2 DEF Inv, PhaseOK
<1>9. BasisOK'
  <2>1. life = "active" \/ call \in {"first_read", "lock"} => socket_fd \in Conns
    BY DEF Inv, PhaseOK
  <2>2. CASE socket_fd \in Conns
    <3>1. \A r : Answered(r)' => Answered(r)
      BY <1>1, <1>3, <2>2, Singles DEF Answered
    <3>2. conn'[socket_fd].requests # <<>> => conn'[socket_fd] = conn[socket_fd]
      BY <1>3, <2>2
    <3>3. session' = "cycling" => session = "cycling" /\ target_counts' = target_counts
      BY Zenon
    <3> QED BY <1>1, <2>2, <3>1, <3>2, <3>3, Zenon DEF Inv, BasisOK
  <2>3. CASE socket_fd \notin Conns
    BY <1>1, <2>1, <2>3 DEF BasisOK
  <2> QED BY <2>2, <2>3
<1> QED BY <1>4, <1>5, <1>6, <1>7, <1>8, <1>9 DEF Inv

-----------------------------------------------------------------------------
(* The bus.                                                                *)

\* Beside the server, a session only goes on or ends.
LEMMA BusInv ==
  ASSUME Inv, PdoCycle \/ PdoLoopFails \/ ServiceDisables \/ DriveSags
  PROVE  Inv'
<1>1. /\ UNCHANGED <<life, call, socket_fd, hw_positions, hw_commands, basis>>
      /\ UNCHANGED <<conn, serving, reply, target_counts, sessions, faults>>
      /\ actual' \in Positions /\ latest' \in Positions
      /\ session' = session \/ session' \in {"none", "failed"}
  BY DEF PdoCycle, PdoLoopFails, ServiceDisables, DriveSags, clientVars, serverVars, Inv, VarsOK
<1>2. VarsOK'
  BY <1>1 DEF Inv, VarsOK
<1>3. ConnsOK' /\ AlignedOK' /\ PhaseOK'
  BY <1>1 DEF Inv, ConnsOK, AlignedOK, PhaseOK
<1>4. \A c \in Conns : WireOK(c)' /\ SetpointOK(c)'
  BY <1>1 DEF Inv, WireOK, SetpointOK
<1>5. BasisOK'
  <2>1. \A r : Answered(r)' => Answered(r)
    BY <1>1 DEF Answered
  <2>2. session' = "cycling" => session = "cycling"
    BY <1>1
  <2> QED BY <1>1, <2>1, <2>2, Zenon DEF Inv, BasisOK
<1> QED BY <1>2, <1>3, <1>4, <1>5 DEF Inv

LEMMA StepInv ==
  ASSUME Inv, [Next]_vars
  PROVE  Inv'
<1>1. CASE UNCHANGED vars
  <2>1. /\ UNCHANGED <<life, call, socket_fd, hw_positions, hw_commands, basis, faults>>
        /\ UNCHANGED <<conn, serving, reply, session, target_counts, latest, actual, sessions>>
    BY <1>1 DEF vars, clientVars, serverVars, busVars
  <2>2. VarsOK' /\ ConnsOK' /\ AlignedOK' /\ PhaseOK'
    BY <2>1 DEF Inv, VarsOK, ConnsOK, AlignedOK, PhaseOK
  <2>3. \A c \in Conns : WireOK(c)' /\ SetpointOK(c)'
    BY <2>1 DEF Inv, WireOK, SetpointOK
  <2>4. BasisOK'
    <3>1. \A r : Answered(r)' => Answered(r)
      BY <2>1 DEF Answered
    <3> QED BY <2>1, <3>1, Zenon DEF Inv, BasisOK
  <2> QED BY <2>2, <2>3, <2>4 DEF Inv
<1>2. CASE ServerRaises \/ BridgeRestarts
  <2>1. /\ UNCHANGED clientVars /\ UNCHANGED <<actual, sessions>>
        /\ serving' \in {NoConn, Dead} /\ reply' = <<>> /\ faults' \in 0 .. MaxFaults
        /\ target_counts' \in Positions /\ latest' \in Positions
        /\ session' = "none" \/ UNCHANGED <<session, target_counts>>
    <3>1. CASE ServerRaises
      BY <3>1 DEF ServerRaises, busVars, Inv, VarsOK
    <3>2. CASE BridgeRestarts
      <4>1. faults' \in 0 .. MaxFaults
        <5>1. faults < MaxFaults /\ faults' = faults + 1
          BY <3>2, Zenon DEF BridgeRestarts
        <5>2. faults \in 0 .. MaxFaults
          BY Zenon DEF Inv, VarsOK
        <5> QED BY <5>1, <5>2, Constants
      <4>2. /\ UNCHANGED clientVars /\ UNCHANGED <<actual, sessions>>
            /\ serving' = NoConn /\ reply' = <<>> /\ session' = "none"
            /\ target_counts' = actual /\ latest' = actual
        BY <3>2 DEF BridgeRestarts
      <4>3. actual \in Positions
        BY DEF Inv, VarsOK
      <4> QED BY <4>1, <4>2, <4>3
    <3> QED BY <1>2, <3>1, <3>2
  <2>2. conn' = [c \in Conns |->
          IF conn[c].state \in {"backlog", "accepted"}
          THEN [conn[c] EXCEPT !.state = "closed", !.requests = <<>>] ELSE conn[c]]
    BY <1>2, Zenon DEF ServerRaises, BridgeRestarts
  <2> QED BY <2>1, <2>2, ServerGoesInv
<1> QED BY <1>1, <1>2, ClientInv, AcceptInv, EndOfFileInv, ServesInv, WriteReplyInv, BusInv
        DEF Next, ServerStep, Bus

-----------------------------------------------------------------------------
(* Theorems.                                                               *)

\* Over every failure, kill, reconnection and restart the connections, the outstanding
\* call and the basis of the commands stay in step (send_command, handle_tcp_command).
THEOREM ClientInvariant == Spec => []Inv
<1> QED BY InitInv, StepInv, PTL DEF Spec

\* Every variable has its type, and no connection holds more than one request or reply.
THEOREM TypeCorrect == Spec => []TypeOK
<1>1. ASSUME Inv PROVE TypeOK
  <2>1. BoundedRequest \subseteq Request /\ BoundedReply \subseteq Reply
    <3>1. 0 .. MaxSessions \subseteq Nat
      BY Constants
    <3> QED BY <3>1 DEF BoundedRequest, BoundedReply, Request, Reply
  <2>2. ASSUME NEW S, NEW T, S \subseteq T, NEW s \in Chan(S)
        PROVE  s \in Seq(T) /\ Len(s) <= 1
    <3>1. CASE s = <<>>
      BY <3>1
    <3>2. CASE \E x \in S : s = <<x>>
      <4>1. PICK x \in T : s = <<x>>
        BY <2>2, <3>2
      <4> QED BY <4>1
    <3> QED BY <3>1, <3>2 DEF Chan
  <2>3. /\ reply \in Seq(Reply) /\ Len(reply) <= 1
        /\ \A c \in Conns : /\ conn[c].requests \in Seq(Request) /\ Len(conn[c].requests) <= 1
                            /\ conn[c].replies \in Seq(Reply) /\ Len(conn[c].replies) <= 1
    BY <1>1, <2>1, <2>2, ConnFacts DEF Inv, VarsOK
  <2>4. conn \in [Conns -> [state : {"unused", "backlog", "accepted", "closed"},
                            peer : {"up", "fin", "rst"},
                            requests : Seq(Request), replies : Seq(Reply)]]
    <3>1. Chan(BoundedRequest) \subseteq Seq(Request) /\ Chan(BoundedReply) \subseteq Seq(Reply)
      BY <2>1, <2>2
    <3> QED BY <1>1, <3>1 DEF Inv, ConnsOK, Connection
  <2> QED BY <1>1, <2>3, <2>4 DEF Inv, VarsOK, TypeOK
<1> QED BY <1>1, ClientInvariant, PTL

\* The reply that a call finds on its connection answers the request of that call, over
\* any number of failures and reconnections (send_command).
THEOREM RepliesStayAligned == Spec => []RepliesAligned
<1>1. Inv => RepliesAligned
  BY DEF Inv, AlignedOK, RepliesAligned, Arrived
<1> QED BY <1>1, ClientInvariant, PTL

\* No setpoint reaches a session other than the one its activation measured, and an
\* uncommanded one is what was measured or the joint limit that write moves it to
\* (on_activate, write, CSP_SETPOINT_ALL).
THEOREM SetpointsAreFresh == Spec => NoStaleSetpoint
<1>1. Inv /\ [Next]_vars =>
        [ServeSetpoint /\ session = "cycling" =>
           Setpoint.basis = sessions /\ Setpoint.true_to_basis]_vars
  <2>1. ASSUME Inv, ServeSetpoint, session = "cycling"
        PROVE  Setpoint.basis = sessions /\ Setpoint.true_to_basis
    <3>1. /\ serving \in Conns /\ conn[serving].requests # <<>>
          /\ Setpoint.op = "CSP_SETPOINT_ALL" /\ conn[serving].state = "accepted"
      BY <2>1, ServesFacts DEF ServeSetpoint, Operations
    <3> QED BY <2>1, <3>1, Zenon DEF Inv, SetpointOK, Setpoint
  <2> QED BY <2>1
<1> QED BY <1>1, ClientInvariant, PTL DEF Spec, NoStaleSetpoint

\* When the interface becomes active, a cycling session holds the position it measured
\* (the setpoint at the end of on_activate).
THEOREM ActivationIsHeld == Spec => ActivationHolds
<1>1. Inv /\ [Next]_vars =>
        [life = "inactive" /\ life' = "active" /\ session = "cycling" =>
           target_counts = basis.counts]_vars
  <2>1. ASSUME Inv, Next, life = "inactive", life' = "active", session = "cycling"
        PROVE  target_counts = basis.counts
    <3>1. \/ Replied("lock") /\ Arrived.ok
          \/ Replied("write")
      BY <2>1 DEF Next, Client, ServerStep, Bus, ClientStarts, Configure, Activate, Cycle,
                  Deactivate, Starts, ConnectFails, ClientReply, ConfigureReturns,
                  ActivateReads, ActivateLocks, ActivateReturns, CycleWrites, CycleReturns,
                  DeactivateReturns, CallLosesConnection, LifeAfterFailure, CallInterrupted,
                  ClientEnds, Accept, ServerRaises, EndOfFile, ServePing, ServeEnter,
                  ServeGet, ServeSetpoint, ServeExit, WriteReply, PdoCycle, PdoLoopFails,
                  ServiceDisables, DriveSags, BridgeRestarts, clientVars
    <3>2. ~Replied("write")
      BY <2>1 DEF Replied, Inv, PhaseOK
    <3>3. Answered(Arrived) /\ Arrived \in BoundedReply /\ call = "lock"
      BY <2>1, <3>1, <3>2, RepliedFacts, CallFacts
    <3> QED BY <2>1, <3>1, <3>2, <3>3 DEF Inv, BasisOK
  <2> QED BY <2>1
<1> QED BY <1>1, ClientInvariant, PTL DEF Spec, ActivationHolds

=============================================================================
