--------------------------- MODULE GateRefinement ---------------------------
(* The gate implements the one-shot confirmation. *)
EXTENDS Gate

\* What the requests and the store together say about confirmation k.
StatusOf(k) ==
  CASE ~Issued(k) -> "none"
    [] Issued(k) /\ (Expired(k) \/ k \in dead) -> "over"
    [] OTHER ->
         IF \E c \in Calls : call[c].key = k /\ Confirmed(c) THEN "executed"
         ELSE IF \E c \in Calls :
                   call[c].key = k /\ call[c].took /\ call[c].mode = "accepted"
         THEN "claimed"
         ELSE IF \E c \in Calls : call[c].key = k /\ call[c].took THEN "declined"
         ELSE "open"

\* An approval over the link, or an accept that counts.
GrantedKeys ==
  {k \in Calls :
     \/ \E h \in Clicks : click[h].took /\ click[h].key = k
     \/ \E c \in Calls : /\ call[c].key = k /\ call[c].ans = "accept"
                         /\ call[c].mode = "accepted"}

Abstract ==
  INSTANCE OneShot WITH
    Keys <- Calls,
    status <- [k \in Calls |-> StatusOf(k)],
    granted <- GrantedKeys

\* Every behaviour of the replicas, the store and the approve page is one of
\* the one-shot confirmation: a key is claimed only after a yes, by one
\* execution, and a declined one is never claimed (app.py, README "once").
RefinesOneShot == Abstract!Spec
=============================================================================
