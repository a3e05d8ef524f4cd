-------------------------- MODULE RequestResponse --------------------------
(***************************************************************************)
(* What the unit promises to the master of the bus, seen from outside: it  *)
(* takes one request at a time, answers it at most once, with one unbroken *)
(* transmission, and listens again only when the last byte has left.  A    *)
(* restart that a request asked for comes after the response to it and     *)
(* before any further request is executed.                                 *)
(***************************************************************************)
EXTENDS Naturals

CONSTANT MaxLength   \* longest frame

VARIABLES
  phase,    \* what the unit does
  left,     \* bytes of the response still to be sent
  restart   \* has a restart been asked for?

vars == <<phase, left, restart>>

TypeOK ==
  /\ phase \in {"listening", "request", "executing", "replying"}
  /\ left \in 0 .. MaxLength
  /\ restart \in BOOLEAN

Init == phase = "listening" /\ left = 0 /\ restart = FALSE

Arrive ==
  /\ phase = "listening" /\ phase' = "request"
  /\ UNCHANGED <<left, restart>>

Execute ==
  /\ phase = "request" /\ ~restart /\ phase' = "executing"
  /\ UNCHANGED <<left, restart>>

Answer ==
  /\ phase = "executing" /\ phase' = "replying"
  /\ left' \in 1 .. MaxLength
  /\ restart' \in BOOLEAN

Refuse ==
  /\ phase = "executing" /\ phase' = "listening"
  /\ restart' \in BOOLEAN
  /\ UNCHANGED left

SendByte ==
  /\ phase = "replying" /\ left > 0
  /\ left' = left - 1
  /\ UNCHANGED <<phase, restart>>

Finish ==
  /\ phase = "replying" /\ left = 0
  /\ phase' = "listening"
  /\ UNCHANGED <<left, restart>>

Restart ==
  /\ phase = "listening" /\ restart
  /\ restart' = FALSE
  /\ UNCHANGED <<phase, left>>

Next ==
  \/ Arrive \/ Execute \/ Answer \/ Refuse \/ SendByte \/ Finish \/ Restart

Spec ==
  /\ Init /\ [][Next]_vars
  /\ WF_vars(Execute) /\ WF_vars(Answer \/ Refuse)
  /\ WF_vars(SendByte) /\ WF_vars(Finish)

=============================================================================
