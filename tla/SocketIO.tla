------------------------------ MODULE SocketIO ------------------------------
(***************************************************************************)
(* The connections between browsers and the server, as the code in         *)
(* pad.ts and PadMessageHandler.ts relies on them: per connection, ordered *)
(* delivery in both directions.  A connection may break at any time; what  *)
(* was on its way to the browser is lost, what was on its way to the       *)
(* server may still be processed until the server notices.  A reconnecting *)
(* browser gets a new socket.                                              *)
(***************************************************************************)
EXTENDS PadRevisions

CONSTANTS Flaky,      \* clients whose connection may break
          MaxConn     \* bound: connections one client opens

ASSUME ConnectionsAssumption == Flaky \subseteq Clients /\ MaxConn \in Nat \ {0}

VARIABLES conn,   \* connections each client has opened so far
          open,   \* sockets whose browser end is connected
          up,     \* messages from each socket to the server
          down    \* messages from the server to each socket

netVars == <<conn, open, up, down>>

Sockets == Clients \X (1..MaxConn)
ClientOf(s) == s[1]
SocketOf(c) == <<c, conn[c]>>
Connected(c) == conn[c] > 0 /\ SocketOf(c) \in open

(* What is emitted to a browser that is no longer there goes nowhere. *)
Emitted(d, s, msgs) == [d EXCEPT ![s] = IF s \in open THEN @ \o msgs ELSE @]
Emit(s, msg) == down' = Emitted(down, s, <<msg>>)

(* The browser takes the next message of its current socket. *)
Incoming(c) == IF Connected(c) /\ down[SocketOf(c)] # <<>>
               THEN {Head(down[SocketOf(c)])} ELSE {}
Take(c) == down' = [down EXCEPT ![SocketOf(c)] = Tail(@)]

Send(s, msg) == up' = [up EXCEPT ![s] = Append(@, msg)]

(* The browser end closes: what was on its way there is lost. *)
Close(c) ==
    /\ open' = open \ {SocketOf(c)}
    /\ down' = [down EXCEPT ![SocketOf(c)] = <<>>]

(* A new socket, on which the browser sends msg at once. *)
Open(c, msg) ==
    /\ conn[c] < MaxConn
    /\ conn' = [conn EXCEPT ![c] = @ + 1]
    /\ open' = open \cup {<<c, conn[c] + 1>>}
    /\ up' = [up EXCEPT ![<<c, conn[c] + 1>>] = Append(@, msg)]
    /\ UNCHANGED down
=============================================================================
