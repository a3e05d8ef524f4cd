--------------------------- MODULE UpdatePromise ---------------------------
(***************************************************************************)
(* What an update promises to whoever starts it, without flash, registers  *)
(* or messages: the new image is marked only once that was asked for, runs *)
(* on trial until it is confirmed, and is confirmed only after it was seen *)
(* to run; until then a restart may bring the old one back.  A master that *)
(* is done leaves a unit that nothing changes any more.                    *)
(***************************************************************************)

VARIABLES
  runs,    \* the image that runs, "old" or "new"
  trial,   \* may a restart bring another one back?
  marked,  \* does the next restart run the new image?
  phase    \* what the master has come to

vars == <<runs, trial, marked, phase>>

Init == runs = "old" /\ trial = FALSE /\ marked = FALSE /\ phase = "sending"

-----------------------------------------------------------------------------
(* The master.                                                             *)

Ask ==
  /\ phase = "sending" /\ phase' = "asked"
  /\ UNCHANGED <<runs, trial, marked>>

\* A new transfer begins.
Withdraw ==
  /\ phase = "asked" /\ ~marked /\ phase' = "sending"
  /\ UNCHANGED <<runs, trial, marked>>

See ==
  /\ phase = "asked" /\ ~marked /\ runs = "new" /\ phase' = "seen"
  /\ UNCHANGED <<runs, trial, marked>>

Despair ==
  /\ phase = "seen" /\ phase' = "asked"
  /\ UNCHANGED <<runs, trial, marked>>

Finish ==
  /\ phase = "seen" /\ runs = "new" /\ ~trial /\ ~marked /\ phase' = "done"
  /\ UNCHANGED <<runs, trial, marked>>

-----------------------------------------------------------------------------
(* The unit.                                                               *)

Erase ==
  /\ phase \in {"sending", "asked"} /\ marked' = FALSE
  /\ UNCHANGED <<runs, trial, phase>>

Mark ==
  /\ phase = "asked" /\ marked' = TRUE
  /\ UNCHANGED <<runs, trial, phase>>

Confirm ==
  /\ phase = "seen" /\ trial' = FALSE
  /\ UNCHANGED <<runs, marked, phase>>

\* A restart tries the image that is marked, gives up one that was on trial,
\* or keeps the one that runs, as it always does if there is neither.
Restart ==
  /\ marked' = FALSE /\ UNCHANGED phase
  /\ \/ marked /\ runs' = "new" /\ trial' = TRUE
     \/ trial /\ runs' \in {"old", "new"} /\ trial' = FALSE
     \/ UNCHANGED <<runs, trial>>

Next ==
  \/ Ask \/ Withdraw \/ See \/ Despair \/ Finish
  \/ Erase \/ Mark \/ Confirm \/ Restart

Spec == Init /\ [][Next]_vars

-----------------------------------------------------------------------------
(* Properties.                                                             *)

(***************************************************************************)
(* Types, and what they are worth: a mark is there only while one was      *)
(* asked for, and when the master is done there is neither a mark nor a    *)
(* trial, so that the new image runs for good.                             *)
(***************************************************************************)
Settled ==
  /\ runs \in {"old", "new"} /\ trial \in BOOLEAN /\ marked \in BOOLEAN
  /\ phase \in {"sending", "asked", "seen", "done"}
  /\ marked => phase = "asked"
  /\ phase = "done" => runs = "new" /\ ~trial

(***************************************************************************)
(* Once the master is done, nothing changes any more, whatever restarts    *)
(* come.                                                                   *)
(***************************************************************************)
Final == [][phase # "done"]_vars

=============================================================================
