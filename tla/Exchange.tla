------------------------------ MODULE Exchange ------------------------------
(***************************************************************************)
(* What a request/answer transport promises its callers, whatever happens  *)
(* on the wire: a call is carried out at most once, and one that is        *)
(* reported as done was carried out before it was reported.  A call that   *)
(* is reported as failed may or may not have been carried out.             *)
(***************************************************************************)
EXTENDS Naturals

CONSTANT Calls

VARIABLES
  outcome,   \* call -> "none", "called", "ok" or "failed"
  served     \* call -> how often the other side has carried it out

xvars == <<outcome, served>>

Outcomes == {"none", "called", "ok", "failed"}

Init == outcome = [c \in Calls |-> "none"] /\ served = [c \in Calls |-> 0]

Begin(c) ==
  /\ outcome[c] = "none"
  /\ outcome' = [outcome EXCEPT ![c] = "called"]
  /\ UNCHANGED served

Serve(c) ==
  /\ outcome[c] \in {"called", "failed"} /\ served[c] = 0
  /\ served' = [served EXCEPT ![c] = 1]
  /\ UNCHANGED outcome

Succeed(c) ==
  /\ outcome[c] = "called" /\ served[c] = 1
  /\ outcome' = [outcome EXCEPT ![c] = "ok"]
  /\ UNCHANGED served

Fail(c) ==
  /\ outcome[c] = "called"
  /\ outcome' = [outcome EXCEPT ![c] = "failed"]
  /\ UNCHANGED served

Next == \E c \in Calls : Begin(c) \/ Serve(c) \/ Succeed(c) \/ Fail(c)

Spec == Init /\ [][Next]_xvars
=============================================================================
