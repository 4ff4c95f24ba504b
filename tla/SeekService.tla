----------------------------- MODULE SeekService -----------------------------
(***************************************************************************)
(* What a decoding thread promises to the owner of a MediaFetcher, whatever *)
(* counters and locks it is built from: requests to move may be answered   *)
(* together, but never with an older position than the last answer, and    *)
(* the service is at rest only when the newest request has been answered.  *)
(***************************************************************************)
EXTENDS Naturals

VARIABLES
  wanted,   \* the position asked for last, counted in user jumps
  served,   \* the position the decoder was last sent to
  pending   \* there is something left to do

Init == wanted = 0 /\ served = 0 /\ pending = FALSE

(* A new position is asked for.                                            *)
Request ==
  /\ wanted' = wanted + 1
  /\ pending' = TRUE
  /\ UNCHANGED served

(* The same position is asked for once more.                               *)
Refresh ==
  /\ pending' = TRUE
  /\ UNCHANGED <<wanted, served>>

(* The decoder is sent to a position asked for since the last answer.      *)
Serve ==
  /\ pending
  /\ served' \in served .. wanted
  /\ UNCHANGED <<wanted, pending>>

(* All is answered.                                                        *)
Settle ==
  /\ pending /\ served = wanted
  /\ pending' = FALSE
  /\ UNCHANGED <<wanted, served>>

Next == Request \/ Refresh \/ Serve \/ Settle

Spec == Init /\ [][Next]_<<wanted, served, pending>>
=============================================================================
