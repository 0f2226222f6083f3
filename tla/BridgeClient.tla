---------------------------- MODULE BridgeClient ----------------------------
(***************************************************************************)
(* The ros2_control hardware interface (rascl_hardware_interface.cpp) as a *)
(* TCP client of the bridge, and the bridge's TCP server, in CSP mode.     *)
(*                                                                         *)
(* Every lifecycle callback and every control cycle of the interface is a  *)
(* sequence of send_command calls: a request goes out, on a new connection *)
(* if there is none, and the callback blocks for the reply.  call names    *)
(* the request that is outstanding and, with it, the rest of the callback. *)
(* The server is one thread that serves one connection at a time.  The     *)
(* process of the client may be killed, its recv interrupted, the bridge   *)
(* restarted, and the CSP session may end at any moment.                   *)
(*                                                                         *)
(* The bus is the CSP session of BridgeSession seen from its commands, for *)
(* one drive.                                                              *)
(***************************************************************************)
EXTENDS Integers, Sequences

CONSTANTS
  Positions,     \* positions of the drive
  Lower, Upper,  \* min_position and max_position; a drive may be measured outside them
  MaxConns,      \* bound: connections made in a behaviour
  MaxSessions,   \* bound: CSP sessions entered in a behaviour
  MaxFaults,     \* bound: kills and interruptions of the client, bridge restarts
  NoConn,        \* socket_fd_ < 0; the server serves nobody
  Dead           \* the server thread has ended with an exception

Conns == 1 .. MaxConns

ASSUME ClientAssumption ==
  /\ Positions \subseteq Int
  /\ Lower \in Positions /\ Upper \in Positions /\ Lower <= Upper
  /\ MaxConns \in Nat \ {0} /\ MaxSessions \in Nat \ {0} /\ MaxFaults \in Nat
  /\ NoConn \notin Conns /\ Dead \notin Conns /\ NoConn # Dead

Operations == {"PING", "ENTER_CSP_ALL", "GET_ALL", "CSP_SETPOINT_ALL", "EXIT_CSP_ALL"}

\* What the interface is waiting for, and the request it sent for it.
Operation == [ping |-> "PING", enter |-> "ENTER_CSP_ALL", first_read |-> "GET_ALL",
              lock |-> "CSP_SETPOINT_ALL", read |-> "GET_ALL",
              write |-> "CSP_SETPOINT_ALL", exit |-> "EXIT_CSP_ALL"]
Calls == DOMAIN Operation

VARIABLES
  life,          \* lifecycle state of the interface; "down" without a process
  call,          \* the outstanding call, or "none"
  socket_fd,     \* the connection of the interface, or NoConn
  hw_positions, hw_commands,
  basis,         \* history: session and position that hw_commands rests on
  conn,          \* the connections
  serving,       \* the connection that the server serves, NoConn or Dead
  reply,         \* the reply that the server is about to write: <<>> or <<reply>>
  session,       \* "none", "cycling", "failed" (pdo_error) or "rejected" (caches left)
  target_counts, latest, actual,
  sessions,      \* history: CSP sessions entered
  faults         \* history: faults so far

clientVars == <<life, call, socket_fd, hw_positions, hw_commands, basis>>
serverVars == <<conn, serving, reply>>
busVars == <<session, target_counts, latest, actual, sessions>>
vars == <<clientVars, serverVars, busVars, faults>>

Request == [op : Operations, counts : Positions, basis : Nat, true_to_basis : BOOLEAN]
Reply == [to : Operations, ok : BOOLEAN, counts : Positions, session : Nat]

TypeOK ==
  /\ life \in {"down", "unconfigured", "inactive", "active", "finalized"}
  /\ call \in Calls \cup {"none"}
  /\ socket_fd \in Conns \cup {NoConn}
  /\ hw_positions \in Positions /\ hw_commands \in Positions
  /\ basis \in [session : 0 .. MaxSessions, counts : Positions, commanded : BOOLEAN]
  /\ conn \in [Conns -> [state : {"unused", "backlog", "accepted", "closed"},
                         peer : {"up", "fin", "rst"},
                         requests : Seq(Request), replies : Seq(Reply)]]
  /\ \A c \in Conns : Len(conn[c].requests) <= 1 /\ Len(conn[c].replies) <= 1
  /\ serving \in Conns \cup {NoConn, Dead}
  /\ reply \in Seq(Reply) /\ Len(reply) <= 1
  /\ session \in {"none", "cycling", "failed", "rejected"}
  /\ {target_counts, latest, actual} \subseteq Positions
  /\ sessions \in 0 .. MaxSessions
  /\ faults \in 0 .. MaxFaults

AnyPosition == CHOOSE p \in Positions : TRUE

Init ==
  /\ life = "down"
  /\ call = "none"
  /\ socket_fd = NoConn
  /\ hw_positions = AnyPosition /\ hw_commands = AnyPosition
  /\ basis = [session |-> 0, counts |-> AnyPosition, commanded |-> FALSE]
  /\ conn = [c \in Conns |-> [state |-> "unused", peer |-> "up",
                              requests |-> <<>>, replies |-> <<>>]]
  /\ serving = NoConn
  /\ reply = <<>>
  /\ session = "none"
  /\ actual \in Positions
  /\ target_counts = actual /\ latest = actual
  /\ sessions = 0
  /\ faults = 0

\* clamp_command.
Clamp(p) == IF p < Lower THEN Lower ELSE IF p > Upper THEN Upper ELSE p

\* Counts that a request carries without a controller's command: what was measured, as
\* on_activate sends it or as write moves it into the joint limits.
TrueToBasis(counts) ==
  basis'.commanded \/ counts \in {basis'.counts, Clamp(basis'.counts)}

-----------------------------------------------------------------------------
(* send_command.                                                           *)

\* The connection that a request goes out on: connect_to_bridge makes one if there is
\* none and the server listens.
Usable(c) ==
  IF socket_fd # NoConn
  THEN c = socket_fd
  ELSE /\ serving # Dead
       /\ conn[c].state = "unused"
       /\ \A d \in Conns : d < c => conn[d].state # "unused"

\* The request of a call leaves on connection c.
Send(name, counts, c) ==
  /\ call' = name
  /\ socket_fd' = c
  /\ conn' = [conn EXCEPT
       ![c].state = IF @ = "unused" THEN "backlog" ELSE @,
       ![c].requests = Append(@,
         [op |-> Operation[name], counts |-> counts, basis |-> basis'.session,
          true_to_basis |-> TrueToBasis(counts)])]

\* close_socket: with a reply still unread, the peer sees a reset instead of an end.
Closed(c) ==
  [conn EXCEPT ![c].peer = IF conn[c].replies = <<>> THEN "fin" ELSE "rst"]

CloseSocket ==
  /\ socket_fd' = NoConn
  /\ conn' = IF socket_fd = NoConn THEN conn ELSE Closed(socket_fd)

\* Mutant: a failed command leaves its connection open for the next.
KeepsSocket == socket_fd' = socket_fd /\ conn' = conn

\* send_command closes the socket when it could not send or read.
ClosesOnFailure == CloseSocket

\* The reply that a call has been waiting for.
Arrived == conn[socket_fd].replies[1]

Replied(name) ==
  call = name /\ socket_fd # NoConn /\ conn[socket_fd].replies # <<>>

\* The reply is taken from the socket, and the callback returns.
Returns ==
  /\ call' = "none"
  /\ conn' = [conn EXCEPT ![socket_fd].replies = Tail(@)]
  /\ UNCHANGED socket_fd

\* The reply is taken from the socket, and the callback goes on to its next request.
Continues(name, counts) ==
  /\ call' = name
  /\ conn' = [conn EXCEPT
       ![socket_fd].replies = Tail(@),
       ![socket_fd].requests = Append(@,
         [op |-> Operation[name], counts |-> counts, basis |-> basis'.session,
          true_to_basis |-> TrueToBasis(counts)])]
  /\ UNCHANGED socket_fd

-----------------------------------------------------------------------------
(* Lifecycle callbacks and control cycles.                                 *)

ClientStarts ==
  /\ life = "down"
  /\ life' = "unconfigured"
  /\ \E p \in Positions : hw_positions' = Clamp(p) /\ hw_commands' = Clamp(p)
  /\ basis' = [basis EXCEPT !.session = 0, !.commanded = FALSE]
  /\ UNCHANGED <<call, socket_fd, serverVars, busVars, faults>>

\* A callback that starts with a request.
Starts(from, name, counts) ==
  /\ life = from /\ call = "none"
  /\ \E c \in Conns : Usable(c) /\ Send(name, counts, c)
  /\ UNCHANGED <<life, hw_positions, hw_commands, serving, reply, busVars, faults>>

Configure == UNCHANGED basis /\ Starts("unconfigured", "ping", AnyPosition)

Activate ==
  /\ basis' = [basis EXCEPT !.session = 0, !.commanded = FALSE]
  /\ Starts("inactive", "enter", AnyPosition)

Cycle == UNCHANGED basis /\ Starts("active", "read", AnyPosition)

Deactivate == UNCHANGED basis /\ Starts("active", "exit", AnyPosition)

\* The bridge refuses connections: every retry of connect_to_bridge fails.
ConnectFails ==
  /\ call = "none" /\ socket_fd = NoConn
  /\ life \in {"unconfigured", "inactive"}
  /\ serving = Dead
  /\ life' = "finalized"
  /\ UNCHANGED <<call, socket_fd, hw_positions, hw_commands, basis, serverVars,
                 busVars, faults>>

ConfigureReturns ==
  /\ Replied("ping")
  /\ life' = IF Arrived.ok THEN "inactive" ELSE "finalized"
  /\ Returns
  /\ UNCHANGED <<hw_positions, hw_commands, basis, serving, reply, busVars, faults>>

ActivateReads ==
  /\ Replied("enter")
  /\ UNCHANGED basis
  /\ IF Arrived.ok
     THEN Continues("first_read", AnyPosition) /\ UNCHANGED life
     ELSE Returns /\ life' = "finalized"
  /\ UNCHANGED <<hw_positions, hw_commands, serving, reply, busVars, faults>>

\* Mutant: on_activate leaves the commands of an earlier activation in place.
ActivateKeepsCommands ==
  /\ Replied("first_read")
  /\ IF Arrived.ok
     THEN /\ hw_positions' = Arrived.counts
          /\ basis' = [session |-> Arrived.session, counts |-> Arrived.counts,
                       commanded |-> FALSE]
          /\ Continues("lock", hw_commands)
          /\ UNCHANGED <<life, hw_commands>>
     ELSE Returns /\ life' = "finalized" /\ UNCHANGED <<hw_positions, hw_commands, basis>>
  /\ UNCHANGED <<serving, reply, busVars, faults>>

\* The commands are synchronised with what was measured, which becomes the first target.
ActivateLocks ==
  /\ Replied("first_read")
  /\ IF Arrived.ok
     THEN /\ hw_positions' = Arrived.counts
          /\ hw_commands' = Arrived.counts
          /\ basis' = [session |-> Arrived.session, counts |-> Arrived.counts,
                       commanded |-> FALSE]
          /\ Continues("lock", Arrived.counts)
          /\ UNCHANGED life
     ELSE Returns /\ life' = "finalized" /\ UNCHANGED <<hw_positions, hw_commands, basis>>
  /\ UNCHANGED <<serving, reply, busVars, faults>>

ActivateReturns ==
  /\ Replied("lock")
  /\ life' = IF Arrived.ok THEN "active" ELSE "finalized"
  /\ Returns
  /\ UNCHANGED <<hw_positions, hw_commands, basis, serving, reply, busVars, faults>>

\* read returns, the controllers may set a new command, write clamps and sends it.
CycleWrites ==
  /\ Replied("read")
  /\ IF Arrived.ok
     THEN /\ hw_positions' = Arrived.counts
          /\ \E p \in Positions :
               /\ hw_commands' = Clamp(p)
               /\ basis' = [basis EXCEPT !.commanded = @ \/ p # hw_commands]
               /\ Continues("write", Clamp(p))
          /\ UNCHANGED life
     ELSE Returns /\ life' = "finalized" /\ UNCHANGED <<hw_positions, hw_commands, basis>>
  /\ UNCHANGED <<serving, reply, busVars, faults>>

CycleReturns ==
  /\ Replied("write")
  /\ life' = IF Arrived.ok THEN "active" ELSE "finalized"
  /\ Returns
  /\ UNCHANGED <<hw_positions, hw_commands, basis, serving, reply, busVars, faults>>

\* on_deactivate closes the socket whatever the reply was.
DeactivateReturns ==
  /\ Replied("exit")
  /\ life' = "inactive"
  /\ call' = "none"
  /\ socket_fd' = NoConn
  /\ conn' = [conn EXCEPT ![socket_fd].replies = <<>>, ![socket_fd].peer = "fin"]
  /\ UNCHANGED <<hw_positions, hw_commands, basis, serving, reply, busVars, faults>>

\* The callback of a call that failed: only on_deactivate ignores the failure.
LifeAfterFailure == IF call = "exit" THEN "inactive" ELSE "finalized"

\* The server has closed the connection: recv returns 0, or send fails.
CallLosesConnection ==
  /\ call # "none"
  /\ conn[socket_fd].state = "closed" /\ conn[socket_fd].replies = <<>>
  /\ call' = "none"
  /\ ClosesOnFailure
  /\ life' = LifeAfterFailure
  /\ UNCHANGED <<hw_positions, hw_commands, basis, serving, reply, busVars, faults>>

\* recv fails on an open connection: a signal, or a reply that is too long.
CallInterrupted ==
  /\ call # "none"
  /\ faults < MaxFaults
  /\ faults' = faults + 1
  /\ call' = "none"
  /\ ClosesOnFailure
  /\ life' = LifeAfterFailure
  /\ UNCHANGED <<hw_positions, hw_commands, basis, serving, reply, busVars>>

\* The process of the interface ends; the operating system closes its socket.
ClientEnds ==
  /\ life # "down"
  /\ \/ life = "finalized" /\ UNCHANGED faults
     \/ faults < MaxFaults /\ faults' = faults + 1
  /\ life' = "down"
  /\ call' = "none"
  /\ CloseSocket
  /\ UNCHANGED <<hw_positions, hw_commands, basis, serving, reply, busVars>>

ClientReply ==
  \/ ConfigureReturns \/ ActivateReads \/ ActivateLocks \/ ActivateReturns
  \/ CycleWrites \/ CycleReturns \/ DeactivateReturns \/ CallLosesConnection

-----------------------------------------------------------------------------
(* The TCP server of the bridge.                                           *)

Accept(c) ==
  /\ serving = NoConn
  /\ conn[c].state = "backlog"
  /\ \A d \in Conns : d < c => conn[d].state # "backlog"
  /\ serving' = c
  /\ conn' = [conn EXCEPT ![c].state = "accepted"]
  /\ UNCHANGED <<clientVars, reply, busVars, faults>>

\* readline raises ConnectionResetError, which nothing catches: the thread ends and the
\* listening socket with it.
ServerRaises ==
  /\ serving \in Conns /\ reply = <<>>
  /\ conn[serving].peer = "rst"
  /\ serving' = Dead
  /\ conn' = [c \in Conns |->
       IF conn[c].state \in {"backlog", "accepted"}
       THEN [conn[c] EXCEPT !.state = "closed", !.requests = <<>>] ELSE conn[c]]
  /\ UNCHANGED <<clientVars, reply, busVars, faults>>

\* Mutant: an empty line does not end the connection.
IgnoresEndOfFile ==
  /\ serving \in Conns /\ reply = <<>>
  /\ conn[serving].peer = "fin" /\ conn[serving].requests = <<>>
  /\ UNCHANGED vars

\* The client has closed the connection and every request on it has been served.
EndOfFile ==
  /\ serving \in Conns /\ reply = <<>>
  /\ conn[serving].peer = "fin" /\ conn[serving].requests = <<>>
  /\ serving' = NoConn
  /\ conn' = [conn EXCEPT ![serving].state = "closed"]
  /\ UNCHANGED <<clientVars, reply, busVars, faults>>

\* handle_tcp_command is about to serve a request for op.
Serves(op) ==
  /\ serving \in Conns /\ reply = <<>>
  /\ conn[serving].peer # "rst"
  /\ conn[serving].requests # <<>>
  /\ conn[serving].requests[1].op = op

\* It answers, with counts read in session s.
Answers(ok, counts, s) ==
  /\ reply' = <<[to |-> conn[serving].requests[1].op, ok |-> ok, counts |-> counts,
                 session |-> s]>>
  /\ conn' = [conn EXCEPT ![serving].requests = Tail(@)]

ServePing ==
  /\ Serves("PING")
  /\ Answers(TRUE, AnyPosition, 0)
  /\ UNCHANGED <<clientVars, serving, busVars, faults>>

\* enter_csp: a session that is active is left as it is; a new one holds the drive where
\* it is; a rejected activation may leave its caches behind.
ServeEnter ==
  /\ Serves("ENTER_CSP_ALL")
  /\ IF session = "cycling"
     THEN Answers(TRUE, latest, sessions) /\ UNCHANGED busVars
     ELSE \/ /\ sessions < MaxSessions
             /\ session' = "cycling"
             /\ sessions' = sessions + 1
             /\ target_counts' = actual /\ latest' = actual
             /\ Answers(TRUE, actual, sessions')
             /\ UNCHANGED actual
          \/ /\ session' = "rejected"
             /\ target_counts' = actual /\ latest' = actual
             /\ Answers(FALSE, actual, 0)
             /\ UNCHANGED <<actual, sessions>>
          \/ Answers(FALSE, actual, 0) /\ UNCHANGED busVars
  /\ UNCHANGED <<clientVars, serving, faults>>

\* GET_ALL answers from the caches of the session, if there are any, else over SDO.
ServeGet ==
  /\ Serves("GET_ALL")
  /\ CASE session = "cycling" -> Answers(TRUE, latest, sessions)
       [] session = "failed" -> Answers(FALSE, latest, 0)
       [] session = "rejected" -> Answers(TRUE, latest, 0)
       [] session = "none" -> Answers(TRUE, actual, 0)
  /\ UNCHANGED <<clientVars, serving, busVars, faults>>

Setpoint == conn[serving].requests[1]

\* Mutant: set_csp_targets does not ask for an active session.
AcceptsUnlessFailed == session # "failed"

AcceptsTargets == session = "cycling"

ServeSetpoint ==
  /\ Serves("CSP_SETPOINT_ALL")
  /\ IF AcceptsTargets
     THEN target_counts' = Setpoint.counts /\ Answers(TRUE, latest, sessions)
     ELSE UNCHANGED target_counts /\ Answers(FALSE, latest, 0)
  /\ UNCHANGED <<clientVars, serving, session, latest, actual, sessions, faults>>

ServeExit ==
  /\ Serves("EXIT_CSP_ALL")
  /\ session' = "none"
  /\ Answers(TRUE, latest, 0)
  /\ UNCHANGED <<clientVars, serving, target_counts, latest, actual, sessions, faults>>

\* The reply is written; a client that has closed its end does not get it.
WriteReply ==
  /\ serving \in Conns /\ reply # <<>>
  /\ conn' = IF conn[serving].peer = "up"
             THEN [conn EXCEPT ![serving].replies = Append(@, reply[1])] ELSE conn
  /\ reply' = <<>>
  /\ UNCHANGED <<clientVars, serving, busVars, faults>>

ServerStep ==
  \/ \E c \in Conns : Accept(c)
  \/ ServerRaises \/ EndOfFile
  \/ ServePing \/ ServeEnter \/ ServeGet \/ ServeSetpoint \/ ServeExit
  \/ WriteReply

-----------------------------------------------------------------------------
(* The bus, beside the server.                                             *)

\* A PDO cycle: the drive follows and its position is cached.
PdoCycle ==
  /\ session = "cycling"
  /\ actual' \in {actual, target_counts}
  /\ latest' = actual'
  /\ UNCHANGED <<clientVars, serverVars, session, target_counts, sessions, faults>>

PdoLoopFails ==
  /\ session = "cycling"
  /\ session' = "failed"
  /\ UNCHANGED <<clientVars, serverVars, target_counts, latest, actual, sessions, faults>>

\* on_disable_all of the node, between two requests.
ServiceDisables ==
  /\ session = "cycling"
  /\ session' = "none"
  /\ UNCHANGED <<clientVars, serverVars, target_counts, latest, actual, sessions, faults>>

DriveSags ==
  /\ session # "cycling"
  /\ actual' \in Positions \ {actual}
  /\ UNCHANGED <<clientVars, serverVars, session, target_counts, latest, sessions, faults>>

\* The bridge process is restarted: a fresh session and a listening server.
BridgeRestarts ==
  /\ faults < MaxFaults
  /\ faults' = faults + 1
  /\ serving' = NoConn
  /\ reply' = <<>>
  /\ conn' = [c \in Conns |->
       IF conn[c].state \in {"backlog", "accepted"}
       THEN [conn[c] EXCEPT !.state = "closed", !.requests = <<>>] ELSE conn[c]]
  /\ session' = "none"
  /\ target_counts' = actual /\ latest' = actual
  /\ UNCHANGED <<clientVars, actual, sessions>>

Client ==
  \/ ClientStarts \/ Configure \/ Activate \/ Cycle \/ Deactivate
  \/ ConnectFails \/ ClientReply \/ CallInterrupted \/ ClientEnds

Bus == PdoCycle \/ PdoLoopFails \/ ServiceDisables \/ DriveSags \/ BridgeRestarts

Next == Client \/ ServerStep \/ Bus

Spec == Init /\ [][Next]_vars

\* The server thread runs, the interface takes its replies, and the controller manager
\* keeps cycling hardware that is active.
FairSpec ==
  /\ Spec
  /\ WF_vars(ServerStep)
  /\ WF_vars(ClientReply)
  /\ WF_vars(Cycle)

-----------------------------------------------------------------------------
(* Properties.                                                             *)

\* The reply that a call finds on its connection answers the request of that call, over
\* failures and reconnections.
RepliesAligned ==
  call # "none" /\ conn[socket_fd].replies # <<>> => Arrived.to = Operation[call]

\* A setpoint takes effect only in the session in which its activation measured the
\* drives, and until the controllers command something else it is what was measured, or
\* the joint limit that write moves it to: neither a reconnection, a killed client nor a
\* session that was left running lets an older command reach the drives.
NoStaleSetpoint ==
  [][ServeSetpoint /\ session = "cycling" =>
       Setpoint.basis = sessions /\ Setpoint.true_to_basis]_vars

\* When the interface becomes active, the session holds the position it measured, also
\* if it found a session running.
ActivationHolds ==
  [][life = "inactive" /\ life' = "active" /\ session = "cycling" =>
       target_counts = basis.counts]_vars

\* Every call returns: no kill, reset or restart leaves the interface waiting for ever.
CallReturns == call # "none" ~> call = "none"

\* An active interface whose session has ended learns of it, also if the reason of the
\* end was cleared before it asked.
LossNoticed ==
  life = "active" /\ session # "cycling" ~> life # "active" \/ session = "cycling"

=============================================================================
