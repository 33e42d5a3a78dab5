------------------------------ MODULE Service ------------------------------
(***************************************************************************)
(* What the server promises each of its clients (src/HttpServer.cpp), with *)
(* its threads, descriptors and pool left out: a connection is accepted,   *)
(* gets at most one reply, which answers the request sent on this very     *)
(* connection, and is closed.  It may be closed without a reply, and the   *)
(* server may stop; HttpServer says for what reasons.                      *)
(***************************************************************************)
EXTENDS Sequences

CONSTANTS
  Conns,     \* the connections
  Requests,  \* what a client may send
  Answer     \* the status code due to each request that is handled

VARIABLES
  up,        \* the process runs
  phase,     \* "idle", "pending" or "accepted"
  request,   \* what the client has sent
  replies    \* the status codes it was sent

serviceVars == <<up, phase, request, replies>>

Init ==
  /\ up = TRUE
  /\ phase = [c \in Conns |-> "idle"]
  /\ request = [c \in Conns |-> "nothing"]
  /\ replies = [c \in Conns |-> <<>>]

Moves(c, from, to) == up /\ phase[c] = from /\ phase' = [phase EXCEPT ![c] = to]

Connect(c) == Moves(c, "idle", "pending") /\ UNCHANGED <<up, request, replies>>
Accept(c)  == Moves(c, "pending", "accepted") /\ UNCHANGED <<up, request, replies>>

\* A request may come in parts; once complete it does not change.
Ask(c, r) ==
  /\ up /\ phase[c] # "idle"
  /\ request[c] \in {"nothing", "part"}
  /\ request' = [request EXCEPT ![c] = r]
  /\ UNCHANGED <<up, phase, replies>>

\* The one reply: only to a request that was sent, and its own answer.
Reply(c) ==
  /\ up /\ phase[c] = "accepted"
  /\ request[c] \in DOMAIN Answer
  /\ replies[c] = <<>>
  /\ replies' = [replies EXCEPT ![c] = <<Answer[request[c]]>>]
  /\ UNCHANGED <<up, phase, request>>

\* The end of a connection, which makes its name free for another one.
Close(c) ==
  /\ Moves(c, "accepted", "idle")
  /\ request' = [request EXCEPT ![c] = "nothing"]
  /\ replies' = [replies EXCEPT ![c] = <<>>]
  /\ UNCHANGED up

Stop == up /\ up' = FALSE /\ UNCHANGED <<phase, request, replies>>

Next ==
  \/ Stop
  \/ \E c \in Conns :
       \/ Connect(c) \/ Accept(c) \/ Reply(c) \/ Close(c)
       \/ \E r \in Requests : Ask(c, r)

ServiceSpec == Init /\ [][Next]_serviceVars

=============================================================================
