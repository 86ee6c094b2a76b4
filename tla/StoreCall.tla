------------------------------ MODULE StoreCall ------------------------------
(***************************************************************************)
(* What a call of the store is to the proxy: the statement takes effect at *)
(* most once; an answer means that it did, a refusal that it never will,   *)
(* and a failure says nothing, not even that it will not do so later.      *)
(***************************************************************************)
EXTENDS Naturals

CONSTANT Calls

VARIABLES
  applied,   \* how often the statement of a call took effect
  answer     \* what the proxy was told

vars == <<applied, answer>>

Init ==
  /\ applied = [c \in Calls |-> 0]
  /\ answer = [c \in Calls |-> "none"]

Apply(c) ==
  /\ applied[c] = 0 /\ answer[c] \in {"none", "failed"}
  /\ applied' = [applied EXCEPT ![c] = 1]
  /\ UNCHANGED answer

Answer(c, what) ==
  /\ answer[c] = "none"
  /\ what = "ok" => applied[c] = 1
  /\ what = "refused" => applied[c] = 0
  /\ answer' = [answer EXCEPT ![c] = what]
  /\ UNCHANGED applied

Next == \E c \in Calls : Apply(c) \/ \E what \in {"ok", "refused", "failed"} : Answer(c, what)

Spec == Init /\ [][Next]_vars
=============================================================================
