--------------------------- MODULE LoginContract ---------------------------
(***************************************************************************)
(* What the backend promises its clients about logins, without the actor:  *)
(* one login at a time, held by the client that opened it; a session is    *)
(* started only after the holder's own conversation authenticated; a       *)
(* started session is final.  AuthActor implements this specification.     *)
(***************************************************************************)
EXTENDS Naturals

CONSTANTS
  Callers,
  NoCaller,
  MaxAttempt

VARIABLES
  stage,      \* how far the current login is
  holder,     \* the client that holds it
  current,    \* its number, 0 if there is none
  newest      \* the number of the last login

contractVars == <<stage, holder, current, newest>>

ContractInit ==
  /\ stage = "closed"
  /\ holder = NoCaller
  /\ current = 0
  /\ newest = 0

\* A login opens only when no other one is open, with a number of its own.
Open(u) ==
  /\ stage = "closed"
  /\ newest < MaxAttempt
  /\ stage' = "conversation"
  /\ holder' = u
  /\ current' = newest + 1
  /\ newest' = newest + 1

Authenticate ==
  /\ stage = "conversation"
  /\ stage' = "authenticated"
  /\ UNCHANGED <<holder, current, newest>>

\* The login is over: revoked, rejected or broken, or handed to its session.
Release(next) ==
  /\ stage' = next
  /\ holder' = NoCaller
  /\ current' = 0
  /\ UNCHANGED newest

Close == stage \in {"conversation", "authenticated"} /\ Release("closed")

\* Nothing follows: the greeter exits for the session to start.
HandOver == stage = "authenticated" /\ Release("handed")

ContractNext ==
  \/ \E u \in Callers : Open(u)
  \/ Authenticate
  \/ Close
  \/ HandOver

ContractSpec == ContractInit /\ [][ContractNext]_contractVars

=============================================================================
