----------------------------- MODULE MCAuthActor -----------------------------
(***************************************************************************)
(* Instances of AuthActor for TLC.                                         *)
(***************************************************************************)
EXTENDS AuthActor, TLC

CONSTANTS alice, bob, c1, c2

\* One client with two tasks: one holds the conversation, the other one
\* cancels it or starts over.
OneCaller == [c \in Calls |-> alice]

OwnerWorkload ==
  c1 :> {"Begin", "Respond", "Resolve"} @@ c2 :> {"Begin", "Cancel"}

\* One client whose single task begins, answers and begins again.
SingleWorkload == [c \in Calls |-> {"Begin", "Respond", "Cancel"}]

\* One login whose client may change its mind at any moment.
LoginWorkload == c1 :> {"Begin", "Resolve"} @@ c2 :> {"Cancel"}

\* Two clients: one logs in and starts a session, the other one tries to take
\* the attempt over while the session is looked up.
TwoCallers == c1 :> alice @@ c2 :> bob

RivalWorkload == c1 :> {"Begin", "Resolve"} @@ c2 :> {"Begin", "Cancel"}

=============================================================================
