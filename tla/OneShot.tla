------------------------------- MODULE OneShot -------------------------------
(***************************************************************************)
(* What a confirmation is, whatever replicas, stores and requests make of  *)
(* it: it is offered, somebody says yes, and then it is claimed by one     *)
(* execution or declined, once, or its validity ends first.                *)
(***************************************************************************)
CONSTANT Keys

VARIABLES
  status,   \* status[k]: where confirmation k stands
  granted   \* the confirmations somebody said yes to

vars == <<status, granted>>

Stages == {"none", "open", "claimed", "executed", "declined", "over"}

TypeOK ==
  /\ status \in [Keys -> Stages]
  /\ granted \subseteq Keys

Init ==
  /\ status = [k \in Keys |-> "none"]
  /\ granted = {}

Move(k, from, to) ==
  /\ status[k] = from
  /\ status' = [status EXCEPT ![k] = to]
  /\ UNCHANGED granted

Offer(k) == Move(k, "none", "open")

\* A yes may come late; it changes nothing then.
Grant(k) ==
  /\ status[k] # "none"
  /\ granted' = granted \cup {k}
  /\ UNCHANGED status

Claim(k) == k \in granted /\ Move(k, "open", "claimed")

Execute(k) == Move(k, "claimed", "executed")

Decline(k) == Move(k, "open", "declined")

\* The expiry passes for some confirmations, or the secret that signed them is
\* lost with its process.
End(S) ==
  /\ \A k \in S : status[k] # "none"
  /\ status' = [k \in Keys |-> IF k \in S THEN "over" ELSE status[k]]
  /\ UNCHANGED granted

Next ==
  \/ \E k \in Keys :
       Offer(k) \/ Grant(k) \/ Claim(k) \/ Execute(k) \/ Decline(k)
  \/ \E S \in SUBSET Keys : End(S)

Spec == Init /\ [][Next]_vars
=============================================================================
