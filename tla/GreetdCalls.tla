----------------------------- MODULE GreetdCalls -----------------------------
(***************************************************************************)
(* What the authentication actor relies on when it calls greetd: requests  *)
(* are made one at a time, a call that is answered got the answer to that  *)
(* very request, and greetd carries out no request twice.  A call that     *)
(* failed says nothing: greetd may have carried it out, or may still.      *)
(***************************************************************************)
EXTENDS Naturals

CONSTANT MaxRequests   \* bounds the requests made

VARIABLES
  status,   \* what the caller knows of each request
  served    \* requests greetd has carried out

vars == <<status, served>>

Requests == 1..MaxRequests

Init ==
  /\ status = [n \in Requests |-> "unsent"]
  /\ served = {}

Pending(n) == status[n] = "pending"

\* Requests are numbered in the order of the calls.
NextRequest(n) ==
  /\ \A m \in Requests : ~Pending(m)
  /\ \A m \in Requests : status[m] = "unsent" <=> m >= n

Ask(n) ==
  /\ NextRequest(n)
  /\ status' = [status EXCEPT ![n] = "pending"]
  /\ UNCHANGED served

\* A request that cannot be sent fails at once.
Refuse(n) ==
  /\ NextRequest(n)
  /\ status' = [status EXCEPT ![n] = "failed"]
  /\ UNCHANGED served

\* The call may have failed before greetd gets to its request.
Serve(n) ==
  /\ status[n] \in {"pending", "failed"}
  /\ n \notin served
  /\ served' = served \cup {n}
  /\ UNCHANGED status

Answer(n) ==
  /\ Pending(n)
  /\ n \in served
  /\ status' = [status EXCEPT ![n] = "answered"]
  /\ UNCHANGED served

Fail(n) ==
  /\ Pending(n)
  /\ status' = [status EXCEPT ![n] = "failed"]
  /\ UNCHANGED served

Next ==
  \E n \in Requests : Ask(n) \/ Refuse(n) \/ Serve(n) \/ Answer(n) \/ Fail(n)

Spec == Init /\ [][Next]_vars
=============================================================================
