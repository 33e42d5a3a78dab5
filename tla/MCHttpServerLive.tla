-------------------------- MODULE MCHttpServerLive --------------------------
(***************************************************************************)
(* HttpServer with more connections than two workers, the pool and the     *)
(* accepting thread can hold at once: while the workers are busy one       *)
(* connection waits in the pool and push blocks with another.              *)
(*                                                                         *)
(* Symmetry does not go with liveness, so the clients have parts to play:  *)
(* Staller sends a request and may stop reading or reset its connection,   *)
(* Asker sends a request, and Mute and Mute2 send nothing.  Mute2 does     *)
(* what Mute does, and nothing is asked of it.                             *)
(***************************************************************************)
EXTENDS HttpServer

CONSTANTS Staller, Asker, Mute, Mute2

LiveNext ==
  \/ \E c \in Conns : Connect(c)
  \/ \E c \in {Staller, Asker} : \E r \in Requests : Arrive(c, r)
  \/ \E p \in {"stalled", "reset"} : Disturb(Staller, p)
  \/ MainStep
  \/ \E w \in Workers : WorkerStep(w)

LiveSpec == Init /\ [][LiveNext]_vars /\ Fairness

\* Every connection the server has accepted is closed again, unless its own
\* client stalls or the process ends: those in service, those that wait in
\* the pool behind busy workers, and the one that run has accepted and cannot
\* push because the pool is full.  A client that stalls takes one worker, and
\* the other one serves all the rest.
AcceptedIsClosed == \A c \in {Staller, Asker, Mute} : ClosedInTheEnd(c)

=============================================================================
