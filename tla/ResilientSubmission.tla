------------------------ MODULE ResilientSubmission ------------------------
(***************************************************************************)
(* What submit_resilient promises its callers, without pools, workers or   *)
(* processes.  A call is outside the gate, inside the service, parked      *)
(* behind a broken pipe, or over with one final outcome.  The gate closes  *)
(* for an outage and opens when it is over.                                *)
(*                                                                         *)
(* The promise: a call comes back from the service to be tried again, or   *)
(* is rejected as toxic, only if an outage began after it last passed the  *)
(* gate; an outcome is final; nobody passes a closed gate.                 *)
(***************************************************************************)
CONSTANT Requests

VARIABLES where,      \* [Requests -> where the call is, or its outcome]
          open,       \* server_ready
          disturbed   \* calls that an outage has met since they passed the gate

Outcomes == {"ok", "error", "timeout", "toxic"}

vars == <<where, open, disturbed>>

Init == /\ where = [r \in Requests |-> "outside"]
        /\ open = TRUE
        /\ disturbed = {}

Close == open' = FALSE /\ disturbed' = Requests /\ UNCHANGED where

Open == open' = TRUE /\ UNCHANGED <<where, disturbed>>

Move(r, from, to) == where[r] = from /\ where' = [where EXCEPT ![r] = to]

Enter(r) == /\ open /\ Move(r, "outside", "inside")
            /\ disturbed' = disturbed \ {r}
            /\ UNCHANGED open

Retry(r) == /\ r \in disturbed /\ Move(r, "inside", "outside")
            /\ UNCHANGED <<open, disturbed>>

Park(r) == Move(r, "inside", "parked") /\ UNCHANGED <<open, disturbed>>

Unpark(r) == /\ ~open /\ Move(r, "parked", "outside")
             /\ UNCHANGED <<open, disturbed>>

Return(r, outcome) == /\ outcome = "toxic" => r \in disturbed
                      /\ Move(r, "inside", outcome)
                      /\ UNCHANGED <<open, disturbed>>

Next == \/ Close \/ Open
        \/ \E r \in Requests : \/ Enter(r) \/ Retry(r) \/ Park(r) \/ Unpark(r)
                               \/ \E outcome \in Outcomes : Return(r, outcome)

Spec == Init /\ [][Next]_vars
=============================================================================
