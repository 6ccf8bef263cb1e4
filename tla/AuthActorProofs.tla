--------------------------- MODULE AuthActorProofs ---------------------------
(***************************************************************************)
(* Proofs about the authentication actor, for any set of clients and       *)
(* calls, any channel capacity and any attempt counter: its types, its     *)
(* safety invariants, its refinement of LoginContract, and who may end an  *)
(* attempt.                                                                *)
(***************************************************************************)
EXTENDS AuthActor, AuthStateMachineProofs

-----------------------------------------------------------------------------
(* The actor raises only events of the machine.                            *)

LEMMA HandlerEvents ==
  ASSUME ActorStep
  PROVE  [MachineNext]_machineVars
<1> USE DEF MachineNext, machineVars
<1>1. CASE HandleCommand
  <2>1. CASE HandleBegin
    BY <2>1 DEF HandleBegin, Refuse, StartCancel
  <2>2. CASE HandleRespond
    BY <2>2 DEF HandleRespond, Refuse
  <2>3. CASE HandleCancel
    BY <2>3 DEF HandleCancel, Refuse, StartCancel
  <2>4. CASE HandleResolve
    BY <2>4 DEF HandleResolve, Refuse
  <2>5. CASE HandleUnavailable
    BY <2>5 DEF HandleUnavailable, Refuse
  <2>6. CASE HandleFailResolution
    BY <2>6 DEF HandleFailResolution, Refuse
  <2>7. CASE HandleStartSession
    BY <2>7 DEF HandleStartSession, Refuse
  <2> QED
    BY <1>1, <2>1, <2>2, <2>3, <2>4, <2>5, <2>6, <2>7 DEF HandleCommand
<1>2. CASE Accept \/ AcceptFails
  BY <1>2 DEF Accept, AcceptFails, Refuse
<1>3. CASE Connected \/ IoCancelled \/ IoFails
  BY <1>3 DEF Connected, IoCancelled, StartFinishCancel, IoFails, Fail
<1>4. CASE Notice \/ Replied
  BY <1>4 DEF Notice, Replied, Answer, Consume, StartFinishCancel
<1>5. CASE Prompt \/ Ask
  BY <1>5 DEF Prompt, Ask, StartFinishCancel, Fail
<1>6. CASE Rejected \/ Started
  BY <1>6 DEF Rejected, Started, Fail
<1>7. CASE Detach \/ FinishCancel \/ Revoke \/ CancelIo
  BY <1>7 DEF Detach, FinishCancel, Revoke, CancelIo
<1>8. CASE Stop
  BY <1>8 DEF Stop, StartCancel
<1> QED
  BY <1>1, <1>2, <1>3, <1>4, <1>5, <1>6, <1>7, <1>8 DEF ActorStep

\* What the tasks around the actor do: none of it touches what the actor owns.
Surroundings ==
  \/ \E c \in Calls : ClientCall(c) \/ CallStep(c) \/ Send(c)
  \/ \E a \in Attempts : WatcherStep(a) \/ WatcherSends(a)
  \/ \E u \in Callers : Disconnect(u)
  \/ CloseBus
  \/ StopActor
  \/ UNCHANGED vars

actorOwned == <<machineVars, resourceVars, actorVars, control, greetdVars>>

LEMMA StepSplit ==
  ASSUME [Next]_vars
  PROVE  ActorStep \/ Surroundings
BY DEF Next, Surroundings, HandoffExit, Rest

LEMMA SurroundingsFrame ==
  ASSUME Surroundings
  PROVE  UNCHANGED actorOwned
<1> USE DEF actorOwned, machineVars, resourceVars, actorVars, greetdVars, sharedVars
<1>1. CASE \E c \in Calls : ClientCall(c)
  BY <1>1 DEF ClientCall, Invoke
<1>2. CASE \E c \in Calls : CallStep(c) \/ Send(c)
  BY <1>2 DEF CallStep, Interrupt, SendFails, Lookup, Return, Send
<1>3. CASE \E a \in Attempts : WatcherStep(a) \/ WatcherSends(a)
  BY <1>3 DEF WatcherStep, WatcherSubscribes, WatcherRevokes,
              WatcherDismissed, WatcherSends
<1>4. CASE \E u \in Callers : Disconnect(u)
  BY <1>4 DEF Disconnect
<1>5. CASE CloseBus \/ StopActor \/ UNCHANGED vars
  BY <1>5 DEF CloseBus, StopActor, vars
<1> QED
  BY <1>1, <1>2, <1>3, <1>4, <1>5 DEF Surroundings

\* The actor is a run of the machine: no handler, whatever it awaits between
\* two transitions, changes the phase, the attempt or the detail other than by
\* an event the table accepts (run_actor and every handler it calls).
THEOREM ActorRunsMachine == Spec => MachineSpec
<1>1. Init => MachineInit
  BY DEF Init
<1>2. [Next]_vars => [MachineNext]_machineVars
  <2> SUFFICES ASSUME [Next]_vars PROVE [MachineNext]_machineVars
    OBVIOUS
  <2> QED
    BY StepSplit, HandlerEvents, SurroundingsFrame DEF actorOwned
<1> QED
  BY <1>1, <1>2, PTL DEF Spec, MachineSpec

-----------------------------------------------------------------------------
(* Types.                                                                  *)

\* Where the actor waits, it holds the command that brought it there, and where
\* it ends an attempt there was one.
CommandFits ==
  /\ pc \in IoPoints \union {"Prompt", "Ask", "FinishCancel", "Detach"} =>
       cmd \in Command
  /\ pc = "Accept" => cmd \in Command /\ cmd.kind = "Begin"
  /\ pc \in {"Revoke", "CancelIo"} =>
       \/ cmd \in Command /\ cmd.kind \in {"Begin", "Cancel"}
       \/ cmd = StopCommand
  /\ pc \in {"FinishCancel", "Detach", "Revoke"} => lastAttempt # 0

\* The tasks around the actor name real attempts and callers: a token that is
\* cancelled, or a command that is queued, belongs to an attempt of a client.
TasksFit ==
  /\ \A c \in Calls :
       /\ call[c].pc \in {"interrupting", "sending"} => call[c].kind \in Kinds
       /\ call[c].pc = "interrupting" => call[c].attempt \in Attempts
  /\ \A a \in Attempts : watch[a].pc # "none" => watch[a].caller \in Callers
  /\ control.caller # NoCaller => control.attempt \in Attempts

TypeInv == TypeOK /\ CommandFits /\ TasksFit /\ AttemptTracksPhase

LEMMA AnsweredType ==
  ASSUME NEW cs \in CallState, NEW r \in Results
  PROVE  /\ Answered(cs, r) \in CallState
         /\ Settled(cs, r) \in CallState
<1> DEFINE lookup == [cs EXCEPT !.pc = "lookup"]
<1>1. \A s \in Results : Settled(cs, s) \in CallState
  BY DEF Settled, CallState, IdleCall, Kinds, Results
<1>2. lookup \in CallState
  BY DEF CallState
<1>3. Answered(cs, r) = lookup \/ Answered(cs, r) = Settled(cs, "failed")
        \/ Answered(cs, r) = Settled(cs, r)
  <2> HIDE DEF lookup
  <2>1. CASE cs.kind = "Resolve" /\ r = "ok"
    BY <2>1, Zenon DEF Answered, lookup
  <2>2. CASE cs.kind \in {"Unavailable", "FailResolution"} /\ r = "ok"
    BY <2>2, Zenon DEF Answered
  <2> QED
    BY <2>1, <2>2, Zenon DEF Answered
<1> QED
  BY <1>1, <1>2, <1>3 DEF Results

LEMMA ReplyType ==
  ASSUME call \in [Calls -> CallState], NEW m, m.call \in Calls \union {NoCall},
         NEW r \in Results, ReplyTo(m, r)
  PROVE  call' \in [Calls -> CallState]
BY AnsweredType DEF ReplyTo

LEMMA HeadType ==
  ASSUME TypeOK, queue # <<>>
  PROVE  Head(queue) \in Command /\ Tail(queue) \in Seq(Command)
BY DEF TypeOK

\* A step whose types other than the machine's are right.
TypesKept == TypeOK' /\ CommandFits'

LEMMA EndedAttempt ==
  ASSUME TypeInv,
         \/ CancelRequested \/ ProtocolFailure \/ AuthenticationFailed
         \/ SessionStarted \/ SessionStartFailed
  PROVE  lastAttempt' # 0
BY DEF TypeInv, AttemptTracksPhase, CancelRequested, ProtocolFailure,
   AuthenticationFailed, SessionStarted, SessionStartFailed, Transition,
   ActivePhases, Conversing, NoAttempt

LEMMA RefuseTypes ==
  ASSUME TypeInv, MachineTypeOK', NEW m \in Command, NEW r \in Results,
         Refuse(m, r), queue' \in Seq(Command),
         UNCHANGED <<shutdown, watch, online, bus, handoff>>
  PROVE  TypesKept
<1>1. call' \in [Calls -> CallState]
  BY ReplyType DEF Refuse, Finish, TypeInv, TypeOK, Command
<1> QED
  BY <1>1 DEF TypesKept, TypeInv, TypeOK, CommandFits, Refuse, Finish,
     ActorPoints, IoPoints, Results, resourceVars, greetdVars

LEMMA HandlerTypes ==
  ASSUME TypeInv, MachineTypeOK', HandleCommand
  PROVE  TypesKept
<1> DEFINE m == Head(queue)
<1> USE DEF TypeInv, TypeOK, TypesKept, CommandFits, ActorPoints, IoPoints,
            WaitAt, resourceVars, greetdVars, machineVars, Results
<1>1. m \in Command /\ queue' \in Seq(Command)
  BY HeadType DEF HandleCommand, HandleBegin, HandleRespond,
     HandleCancel, HandleResolve, HandleUnavailable, HandleFailResolution,
     HandleStartSession, Take
<1>2. m.kind \in Kinds /\ \A required : Refusal(m, required) \in Results
  BY <1>1 DEF Command, Refusal
<1>3. CASE HandleBegin
  <2>1. CASE Refuse(m, "denied")
    BY <1>1, <1>3, <2>1, RefuseTypes DEF HandleBegin
  <2>2. CASE ~Refuse(m, "denied")
    BY <1>1, <1>3, <2>2, EndedAttempt DEF HandleBegin, Take, StartCancel
  <2> QED
    BY <2>1, <2>2
<1>4. CASE HandleRespond
  <2>1. CASE Refuse(m, Refusal(m, "WaitingForInput"))
    BY <1>1, <1>2, <1>4, <2>1, RefuseTypes DEF HandleRespond
  <2>2. CASE ~Refuse(m, Refusal(m, "WaitingForInput"))
    BY <1>1, <1>4, <2>2 DEF HandleRespond
  <2> QED
    BY <2>1, <2>2
<1>5. CASE HandleCancel
  <2>1. CASE Refuse(m, LateCancel(m)) \/ Refuse(m, "denied")
    BY <1>1, <1>5, <2>1, RefuseTypes DEF HandleCancel, LateCancel
  <2>2. CASE ~(Refuse(m, LateCancel(m)) \/ Refuse(m, "denied"))
    BY <1>1, <1>5, <2>2, EndedAttempt DEF HandleCancel, Take, StartCancel
  <2> QED
    BY <2>1, <2>2
<1>6. CASE HandleResolve
  <2>1. CASE Refuse(m, Refusal(m, "Authenticated"))
    BY <1>1, <1>2, <1>6, <2>1, RefuseTypes DEF HandleResolve
  <2>2. CASE ~Refuse(m, Refusal(m, "Authenticated"))
    <3>1. Finish(m, "ok")
      BY <1>6, <2>2 DEF HandleResolve
    <3>2. call' \in [Calls -> CallState]
      BY <1>1, <3>1, ReplyType DEF Finish, Command
    <3> QED
      BY <1>1, <1>6, <2>2, <3>1, <3>2 DEF HandleResolve, Finish
  <2> QED
    BY <2>1, <2>2
<1>7. CASE HandleUnavailable
  <2>1. CASE Refuse(m, Refusal(m, "ResolvingSession"))
    BY <1>1, <1>2, <1>7, <2>1, RefuseTypes DEF HandleUnavailable
  <2>2. CASE ~Refuse(m, Refusal(m, "ResolvingSession"))
    <3>1. Finish(m, "ok")
      BY <1>7, <2>2 DEF HandleUnavailable
    <3>2. call' \in [Calls -> CallState]
      BY <1>1, <3>1, ReplyType DEF Finish, Command
    <3> QED
      BY <1>1, <1>7, <2>2, <3>1, <3>2 DEF HandleUnavailable, Finish
  <2> QED
    BY <2>1, <2>2
<1>8. CASE HandleFailResolution
  <2>1. CASE Refuse(m, Refusal(m, "ResolvingSession"))
    BY <1>1, <1>2, <1>8, <2>1, RefuseTypes DEF HandleFailResolution
  <2>2. CASE ~Refuse(m, Refusal(m, "ResolvingSession"))
    BY <1>1, <1>8, <2>2, EndedAttempt DEF HandleFailResolution
  <2> QED
    BY <2>1, <2>2
<1>9. CASE HandleStartSession
  <2>1. CASE Refuse(m, Refusal(m, "ResolvingSession"))
    BY <1>1, <1>2, <1>9, <2>1, RefuseTypes DEF HandleStartSession
  <2>2. CASE ~Refuse(m, Refusal(m, "ResolvingSession"))
    BY <1>1, <1>9, <2>2 DEF HandleStartSession
  <2> QED
    BY <2>1, <2>2
<1> QED
  BY <1>3, <1>4, <1>5, <1>6, <1>7, <1>8, <1>9 DEF HandleCommand

LEMMA GreetdTypes ==
  ASSUME TypeInv, NEW req, NEW answer,
         Serves(req, answer) \/ Abandon(req)
  PROVE  greetd' \in GreetdState
<1> USE DEF TypeInv, TypeOK, MachineTypeOK, GreetdState, NoSession, Holds
<1>1. ASSUME NEW a, Serves(req, a) PROVE greetd' \in GreetdState
  BY <1>1 DEF Serves
<1> QED
  BY <1>1 DEF Abandon

LEMMA AcceptTypes ==
  ASSUME TypeInv, MachineTypeOK', Accept \/ AcceptFails
  PROVE  TypesKept
<1> USE DEF TypeInv, TypeOK, TypesKept, CommandFits, ActorPoints, IoPoints,
            resourceVars, greetdVars, machineVars, Results
<1>1. cmd \in Command
  BY DEF Accept, AcceptFails
<1>2. CASE AcceptFails
  BY <1>1, <1>2, RefuseTypes DEF AcceptFails
<1>3. CASE Accept
  <2>1. active' \in Attempts
    BY <1>3, MaxAttemptAssumption DEF Accept, BeginAuthentication, CanBegin,
       Attempts, MachineTypeOK
  <2>2. cmd' \in Command
    BY <1>1, <1>3, <2>1 DEF Accept, Command
  <2>3. call' \in [Calls -> CallState]
    BY <1>1, <1>3, ReplyType DEF Accept, Command
  <2>4. watch' \in [Attempts -> Watcher]
    BY <1>1, <1>3, <2>1 DEF Accept, Command, Watcher
  <2>5. control' \in Control /\ owner' \in Callers
    BY <1>1, <1>3, <2>1 DEF Accept, Command, Control
  <2> QED
    BY <1>3, <2>2, <2>3, <2>4, <2>5 DEF Accept
<1> QED
  BY <1>2, <1>3

LEMMA IoTypes ==
  ASSUME TypeInv, MachineTypeOK',
         \/ Connected \/ IoCancelled \/ IoFails
         \/ Notice \/ Replied \/ Prompt \/ Ask
         \/ Rejected \/ Started
  PROVE  TypesKept
<1> USE DEF TypeInv, TypeOK, TypesKept, CommandFits, ActorPoints, IoPoints,
            WaitAt, EndWith, Fail, StartFinishCancel, IoFrame,
            resourceVars, greetdVars, machineVars, Results, Replies, Messages,
            Errors
<1> cmd \in Command
  BY DEF Connected, IoCancelled, IoFails, Notice, Replied, Answer, Prompt, Ask,
         Rejected, Started
<1> ASSUME Finish(cmd, "ok") PROVE call' \in [Calls -> CallState]
  BY ReplyType DEF Finish, Command
<1>1. CASE Connected
  BY <1>1 DEF Connected
<1>2. CASE IoCancelled \/ IoFails
  BY <1>2, GreetdTypes, EndedAttempt DEF IoCancelled, IoFails
<1>3. CASE Notice \/ Replied
  <2>1. PICK answer \in Replies : Answer(answer)
    BY <1>3 DEF Notice, Replied
  <2>2. greetd' \in GreetdState
    BY <2>1, GreetdTypes DEF Answer
  <2>3. CASE TokenCancelled(active)
    BY <2>1, <2>2, <2>3, EndedAttempt DEF Answer, Consume
  <2>4. CASE ~TokenCancelled(active) /\ answer = "success"
    BY <2>1, <2>2, <2>4 DEF Answer, Consume, Finish
  <2>5. CASE ~TokenCancelled(active) /\ answer # "success"
    BY <2>1, <2>2, <2>5 DEF Answer, Consume
  <2> QED
    BY <2>3, <2>4, <2>5
<1>4. CASE Prompt
  BY <1>4, EndedAttempt DEF Prompt
<1>5. CASE Ask
  BY <1>5, EndedAttempt DEF Ask, Finish
<1>6. CASE Rejected
  <2>1. greetd' \in GreetdState
    BY <1>6, GreetdTypes DEF Rejected
  <2>2. CASE CredentialRejected /\ Reconnect /\ reply' = "none" /\ WaitAt("Connect", cmd)
    BY <1>6, <2>1, <2>2 DEF Rejected, Reconnect
  <2>3. CASE /\ AuthenticationFailed \/ ProtocolFailure
             /\ EndWith("failed")
             /\ UNCHANGED <<transport, userResponded, request>>
    BY <1>6, <2>1, <2>3, EndedAttempt DEF Rejected
  <2> QED
    BY <1>6, <2>2, <2>3 DEF Rejected
<1>7. CASE Started
  <2>1. greetd' \in GreetdState
    BY <1>7, GreetdTypes DEF Started
  <2> QED
    BY <1>7, <2>1, EndedAttempt DEF Started
<1> QED
  BY <1>1, <1>2, <1>3, <1>4, <1>5, <1>6, <1>7

LEMMA EndTypes ==
  ASSUME TypeInv, MachineTypeOK',
         Detach \/ FinishCancel \/ Revoke
  PROVE  TypesKept
<1> USE DEF TypeInv, TypeOK, TypesKept, CommandFits, ActorPoints, IoPoints,
            IoFrame, resourceVars, greetdVars, machineVars, Results,
            DropResources
<1>1. lastAttempt \in Attempts
  BY MaxAttemptAssumption DEF MachineTypeOK, Attempts, Detach, FinishCancel,
     Revoke
<1>2. NoControl \in Control
  BY DEF NoControl, Control
<1>3. CASE Detach
  <2>1. call' \in [Calls -> CallState]
    BY <1>3, ReplyType DEF Detach, Finish, Command
  <2> QED
    BY <1>1, <1>2, <1>3, <2>1 DEF Detach, Finish
<1>4. CASE FinishCancel
  <2>1. call' \in [Calls -> CallState]
    BY <1>4, ReplyType DEF FinishCancel, Finish, Command
  <2> QED
    BY <1>1, <1>2, <1>4, <2>1 DEF FinishCancel, Finish
<1>5. CASE Revoke
  BY <1>1, <1>2, <1>5, ZenonT(40) DEF Revoke
<1> QED
  BY <1>3, <1>4, <1>5

LEMMA ExitTypes ==
  ASSUME TypeInv, Exit
  PROVE  /\ call' \in [Calls -> CallState]
         /\ queue' \in Seq(Command)
         /\ pc' = "Done" /\ cmd' = NoCommand
BY AnsweredType DEF Exit, TypeInv, TypeOK, Results

LEMMA CancelTypes ==
  ASSUME TypeInv, MachineTypeOK', CancelIo \/ Stop
  PROVE  TypesKept
<1> USE DEF TypeInv, TypeOK, TypesKept, CommandFits, ActorPoints, IoPoints,
            resourceVars, greetdVars, machineVars, Results
<1>1. CASE Stop
  <2>1. CASE StartCancel(StopCommand) /\ UNCHANGED queue
    <3>1. lastAttempt' # 0
      BY <2>1, EndedAttempt DEF StartCancel
    <3>2. UNCHANGED <<shutdown, watch, online, bus, handoff>>
      BY <1>1 DEF Stop
    <3>3. CommandFits'
      BY <2>1, <3>1 DEF StartCancel, WaitAt
    <3>4. TypeOK'
      BY <2>1, <3>2 DEF StartCancel, WaitAt
    <3> QED
      BY <3>3, <3>4
  <2>2. CASE Exit /\ UNCHANGED <<machineVars, resourceVars, control, cancelled, greetdVars>>
    BY <1>1, <2>2, ExitTypes DEF Stop, Exit
  <2> QED
    BY <1>1, <2>1, <2>2 DEF Stop
<1>2. CASE CancelIo
  <2>1. greetd' \in GreetdState
    BY <1>2, GreetdTypes DEF CancelIo
  <2>2. PICK r \in {"ok", "failed"} : AfterCancel(r)
    BY <1>2 DEF CancelIo
  <2>3. CASE Exit
    BY <1>2, <2>1, <2>3, ExitTypes, ZenonT(40) DEF CancelIo, Exit
  <2>4. CASE Finish(cmd, r) /\ cmd.kind # "Stop" /\ UNCHANGED queue
    <3>1. cmd \in Command
      BY <1>2, <2>4 DEF CancelIo, StopCommand
    <3>2. call' \in [Calls -> CallState]
      BY <3>1, <2>4, ReplyType DEF Finish, Command
    <3> QED
      BY <1>2, <2>1, <2>4, <3>2 DEF CancelIo, Finish
  <2>5. CASE cmd.kind = "Begin" /\ WaitAt("Accept", cmd) /\ UNCHANGED <<reply, queue>>
    <3>1. cmd \in Command
      BY <1>2, <2>5 DEF CancelIo, StopCommand
    <3> QED
      BY <1>2, <2>1, <2>5, <3>1 DEF CancelIo, WaitAt
  <2> QED
    BY <2>2, <2>3, <2>4, <2>5 DEF AfterCancel
<1> QED
  BY <1>1, <1>2

LEMMA SurroundingsTypes ==
  ASSUME TypeInv, Surroundings
  PROVE  TypesKept
<1> USE DEF TypeInv, TypeOK
<1>1. UNCHANGED actorOwned
  BY SurroundingsFrame
<1>2. MachineTypeOK' /\ CommandFits'
  BY <1>1 DEF actorOwned, actorVars, machineVars, MachineTypeOK, CommandFits
<1>3. CASE \E c \in Calls : ClientCall(c) \/ CallStep(c) \/ Send(c)
  <2>1. PICK c \in Calls : ClientCall(c) \/ CallStep(c) \/ Send(c)
    BY <1>3
  <2>2. call' \in [Calls -> CallState]
    <3> call[c] \in CallState
      OBVIOUS
    <3>1. CASE ClientCall(c)
      <4>1. PICK kind \in Kinds, a \in Attempts \union {NoAttempt} : Invoke(c, kind, a)
        BY <3>1, CallersAssumption DEF ClientCall, Kinds
      <4>2. control.attempt \in Attempts \union {NoAttempt}
        BY DEF Control
      <4> QED
        BY <4>1, <4>2 DEF Invoke, CallState, Results
    <3>2. CASE Interrupt(c) \/ Send(c)
      <4>1. \A point \in {"sending", "queued"} : [call[c] EXCEPT !.pc = point] \in CallState
        BY DEF CallState
      <4> QED
        BY <3>2, <4>1 DEF Interrupt, Send
    <3>5. CASE Lookup(c)
      <4>1. PICK kind \in Kinds :
              call' = [call EXCEPT ![c] = [call[c] EXCEPT !.pc = "sending", !.kind = kind]]
        BY <3>5 DEF Lookup, Kinds
      <4>2. [call[c] EXCEPT !.pc = "sending", !.kind = kind] \in CallState
        BY DEF CallState
      <4> QED
        BY <4>1, <4>2
    <3>3. CASE SendFails(c)
      BY <3>3, AnsweredType DEF SendFails, Results
    <3>4. CASE Return(c)
      BY <3>4 DEF Return, CallState, IdleCall, Results, Kinds, NoAttempt
    <3> QED
      BY <2>1, <3>1, <3>2, <3>3, <3>4, <3>5 DEF CallStep
  <2>3. cancelled' \in SUBSET Attempts
    BY <2>1 DEF TasksFit, ClientCall, Invoke, CallStep, Interrupt, SendFails,
       Lookup, Return, Send, sharedVars
  <2>4. queue' \in Seq(Command)
    <3>1. CASE Send(c)
      <4>1. call[c] \in CallState /\ CallerOf[c] \in Callers
        BY CallersAssumption
      <4> DEFINE m == [kind |-> call[c].kind, call |-> c, caller |-> CallerOf[c],
                       attempt |-> call[c].attempt, allow |-> call[c].allow]
      <4>2. call[c].kind \in Kinds
        BY <3>1 DEF Send, TasksFit
      <4>3. m \in Command
        BY <4>1, <4>2 DEF Command, CallState
      <4>4. queue' = Append(queue, m)
        BY <3>1 DEF Send
      <4> HIDE DEF m
      <4> QED
        BY <4>3, <4>4
    <3>2. CASE ~Send(c)
      BY <2>1, <3>2 DEF ClientCall, Invoke, CallStep, Interrupt, SendFails,
         Lookup, Return, sharedVars
    <3> QED
      BY <3>1, <3>2
  <2>5. UNCHANGED <<shutdown, watch, online, bus>> /\ handoff' \in BOOLEAN
    BY <2>1 DEF sharedVars, ClientCall, Invoke, CallStep, Interrupt, SendFails,
       Lookup, Return, Send
  <2> QED
    BY <1>1, <1>2, <2>2, <2>3, <2>4, <2>5
    DEF TypesKept, actorOwned, actorVars, resourceVars, greetdVars
<1>4. CASE \E a \in Attempts : WatcherStep(a) \/ WatcherSends(a)
  <2>1. PICK a \in Attempts : WatcherStep(a) \/ WatcherSends(a)
    BY <1>4
  <2>2. watch' \in [Attempts -> Watcher]
    BY <2>1 DEF WatcherStep, WatcherSubscribes, WatcherRevokes,
       WatcherDismissed, WatcherSends, Watcher
  <2>3. cancelled' \in SUBSET Attempts
    BY <2>1 DEF WatcherStep, WatcherSubscribes, WatcherRevokes,
       WatcherDismissed, WatcherSends, sharedVars
  <2>4. queue' \in Seq(Command)
    <3> DEFINE m == [kind |-> "Cancel", call |-> NoCall, caller |-> watch[a].caller,
                     attempt |-> a, allow |-> FALSE]
    <3>1. CASE WatcherSends(a)
      <4>1. m \in Command
        BY <3>1 DEF WatcherSends, TasksFit, Command, Kinds
      <4>2. queue' = Append(queue, m) \/ queue' = queue
        BY <3>1 DEF WatcherSends
      <4> HIDE DEF m
      <4> QED
        BY <4>1, <4>2
    <3>2. CASE ~WatcherSends(a)
      BY <2>1, <3>2 DEF WatcherStep, WatcherSubscribes, WatcherRevokes,
         WatcherDismissed, sharedVars
    <3> QED
      BY <3>1, <3>2
  <2> QED
    BY <1>1, <1>2, <2>1, <2>2, <2>3, <2>4
    DEF TypesKept, actorOwned, actorVars, resourceVars, greetdVars, sharedVars,
        WatcherStep, WatcherSubscribes, WatcherRevokes, WatcherDismissed,
        WatcherSends
<1>5. CASE \E u \in Callers : Disconnect(u)
  BY <1>1, <1>2, <1>5
  DEF TypesKept, actorOwned, actorVars, resourceVars, greetdVars, sharedVars,
      Disconnect
<1>6. CASE CloseBus
  BY <1>1, <1>2, <1>6
  DEF TypesKept, actorOwned, actorVars, resourceVars, greetdVars, sharedVars,
      CloseBus
<1>8. CASE StopActor
  BY <1>1, <1>2, <1>8
  DEF TypesKept, actorOwned, actorVars, resourceVars, greetdVars, clientVars,
      StopActor
<1>7. CASE UNCHANGED vars
  BY <1>1, <1>2, <1>7
  DEF TypesKept, actorOwned, actorVars, resourceVars, greetdVars, sharedVars,
      clientVars, vars
<1> QED
  BY <1>3, <1>4, <1>5, <1>6, <1>7, <1>8 DEF Surroundings

LEMMA SurroundingsTasks ==
  ASSUME TypeInv, Surroundings
  PROVE  TasksFit'
<1> USE DEF TypeInv, TypeOK, TasksFit
<1>1. control' = control
  BY SurroundingsFrame DEF actorOwned
<1>2. CASE \E c \in Calls : ClientCall(c) \/ CallStep(c) \/ Send(c)
  <2>1. PICK c \in Calls : ClientCall(c) \/ CallStep(c) \/ Send(c)
    BY <1>2
  <2>2. watch' = watch
    BY <2>1 DEF ClientCall, Invoke, CallStep, Interrupt, SendFails, Lookup,
       Return, Send
  <2>3. CASE ClientCall(c)
    <3>1. PICK kind \in Kinds, a \in Attempts \union {NoAttempt} :
            Invoke(c, kind, a) /\ (kind # "Begin" => a \in Attempts)
      BY <2>3, CallersAssumption DEF ClientCall, Kinds
    <3>2. Interrupts(c, kind, a) =>
            IF kind = "Begin" THEN control.attempt \in Attempts ELSE a \in Attempts
      BY <3>1, CallersAssumption DEF Interrupts
    <3> QED
      BY <1>1, <2>2, <3>1, <3>2 DEF Invoke
  <2>4. CASE ~ClientCall(c)
    <3>1. \A d \in Calls \ {c} : call'[d] = call[d]
      BY <2>1, <2>4 DEF CallStep, Interrupt, Lookup, Send, SendFails, Return
    <3>2. /\ call'[c].pc # "interrupting"
          /\ call'[c].pc = "sending" => call'[c].kind \in Kinds
      <4> call[c] \in CallState
        OBVIOUS
      <4>1. CASE Interrupt(c) \/ Send(c)
        BY <4>1 DEF Interrupt, Send, CallState
      <4>2. CASE Lookup(c)
        <5>1. PICK kind \in Kinds :
                call' = [call EXCEPT ![c] = [call[c] EXCEPT !.pc = "sending", !.kind = kind]]
          BY <4>2 DEF Lookup, Kinds
        <5> QED
          BY <5>1 DEF CallState
      <4>3. CASE SendFails(c)
        BY <4>3 DEF SendFails, Settled, IdleCall
      <4>4. CASE Return(c)
        BY <4>4 DEF Return, IdleCall
      <4> QED
        BY <2>1, <2>4, <4>1, <4>2, <4>3, <4>4 DEF CallStep
    <3> QED
      BY <1>1, <2>2, <3>1, <3>2
  <2> QED
    BY <2>3, <2>4
<1>3. CASE \E a \in Attempts : WatcherStep(a) \/ WatcherSends(a)
  <2>1. PICK a \in Attempts : WatcherStep(a) \/ WatcherSends(a)
    BY <1>3
  <2>2. call' = call
    BY <2>1 DEF WatcherStep, WatcherSubscribes, WatcherRevokes,
       WatcherDismissed, WatcherSends
  <2>3. PICK point \in {"watching", "revoking", "done"} :
          watch' = [watch EXCEPT ![a] = [watch[a] EXCEPT !.pc = point]]
    BY <2>1 DEF WatcherStep, WatcherSubscribes, WatcherRevokes,
       WatcherDismissed, WatcherSends
  <2>4. watch[a].pc # "none" /\ watch[a] \in Watcher
    BY <2>1 DEF WatcherStep, WatcherSubscribes, WatcherRevokes,
       WatcherDismissed, WatcherSends
  <2>5. \A b \in Attempts : watch'[b].pc # "none" => watch'[b].caller \in Callers
    BY <2>3, <2>4 DEF Watcher
  <2> QED
    BY <1>1, <2>2, <2>5
<1>4. CASE \/ \E u \in Callers : Disconnect(u)
           \/ CloseBus \/ StopActor \/ UNCHANGED vars
  BY <1>1, <1>4 DEF Disconnect, CloseBus, StopActor, clientVars, vars
<1> QED
  BY <1>2, <1>3, <1>4 DEF Surroundings

LEMMA AnswerOnly ==
  ASSUME TypeInv, ActorStep
  PROVE  \A c \in Calls :
           call'[c] = call[c] \/ call'[c].pc \in {"lookup", "replied"}
<1> USE DEF TypeInv, TypeOK
<1>1. \A c \in Calls, r \in Results :
        /\ Answered(call[c], r).pc \in {"lookup", "replied"}
        /\ Settled(call[c], r).pc = "replied"
  <2> TAKE c \in Calls, r \in Results
  <2>1. \A s : Settled(call[c], s).pc = "replied"
    BY DEF Settled, IdleCall
  <2>2. [call[c] EXCEPT !.pc = "lookup"].pc = "lookup"
    BY DEF CallState
  <2> QED
    BY <2>1, <2>2 DEF Answered
<1>2. ASSUME NEW m, m.call \in Calls \union {NoCall}, NEW r \in Results, ReplyTo(m, r)
      PROVE  \A c \in Calls : call'[c] = call[c] \/ call'[c].pc \in {"lookup", "replied"}
  BY <1>1, <1>2 DEF ReplyTo
<1>3. /\ queue # <<>> => Head(queue).call \in Calls \union {NoCall}
      /\ cmd.call \in Calls \union {NoCall}
  <2>1. \A m \in Command : m.call \in Calls \union {NoCall}
    BY DEF Command
  <2>2. StopCommand.call = NoCall /\ NoCommand.call = NoCall
    BY DEF StopCommand, NoCommand
  <2> QED
    BY HeadType, <2>1, <2>2
<1>4. \A m, required : Refusal(m, required) \in Results
  BY DEF Refusal, Results
<1>5. CASE HandleCommand
  <2>1. call' = call \/ \E r \in Results : ReplyTo(Head(queue), r)
    BY <1>4, <1>5 DEF HandleCommand, HandleBegin, HandleRespond, HandleCancel,
       HandleResolve, HandleUnavailable, HandleFailResolution,
       HandleStartSession, StartCancel, WaitAt, Refuse, Finish, LateCancel,
       Results
  <2>2. queue # <<>>
    BY <1>5 DEF HandleCommand, HandleBegin, HandleRespond, HandleCancel,
       HandleResolve, HandleUnavailable, HandleFailResolution,
       HandleStartSession, Take
  <2> QED
    BY <1>2, <1>3, <2>1, <2>2
<1>6. CASE \/ Accept \/ AcceptFails \/ Connected \/ IoCancelled \/ IoFails
           \/ Notice \/ Replied \/ Prompt \/ Ask \/ Rejected \/ Started
  <2>1. call' = call \/ \E r \in Results : ReplyTo(cmd, r)
    BY <1>6 DEF Accept, AcceptFails, Connected, IoCancelled, IoFails, Notice,
       Replied, Answer, Consume, Prompt, Ask, Rejected, Started, Refuse,
       Finish, Fail, EndWith, StartFinishCancel, WaitAt, Results
  <2> QED
    BY <1>2, <1>3, <2>1
<1>7. CASE Detach \/ FinishCancel \/ Revoke \/ CancelIo \/ Stop
  <2>1. call' = call \/ (\E r \in Results : ReplyTo(cmd, r)) \/ Exit
    BY <1>7 DEF Detach, FinishCancel, Revoke, CancelIo, Stop, StartCancel,
       AfterCancel, WaitAt, Finish, Results
  <2>2. ASSUME Exit
        PROVE  \A c \in Calls : call'[c] = call[c] \/ call'[c].pc \in {"lookup", "replied"}
    BY <1>1, <2>2 DEF Exit, Results
  <2> QED
    BY <1>2, <1>3, <2>1, <2>2
<1> QED
  BY <1>5, <1>6, <1>7 DEF ActorStep

\* What the actor does to the tasks: it answers them, starts the watcher of a
\* new attempt, and publishes or withdraws a token.
LEMMA ActorTasks ==
  ASSUME TypeInv, ActorStep
  PROVE  TasksFit'
<1> USE DEF TypeInv, TypeOK
<1>1. \A c \in Calls : call'[c] = call[c] \/ call'[c].pc \in {"lookup", "replied"}
  BY AnswerOnly
<1>2. CASE Accept
  <2>1. cmd \in Command /\ active' \in Attempts
    BY <1>2, MaxAttemptAssumption DEF Accept, BeginAuthentication, CanBegin,
       Attempts, MachineTypeOK, CommandFits
  <2>2. \A a \in Attempts : watch'[a].pc # "none" => watch'[a].caller \in Callers
    BY <1>2, <2>1 DEF Accept, TasksFit, Command
  <2>3. control'.attempt \in Attempts
    BY <1>2, <2>1 DEF Accept
  <2> QED
    BY <1>1, <2>2, <2>3 DEF TasksFit
<1>3. CASE ~Accept
  <2>1. watch' = watch /\ control' \in {control, NoControl}
    BY <1>3 DEF ActorStep, HandleCommand, HandleBegin, HandleRespond,
       HandleCancel, HandleResolve, HandleUnavailable, HandleFailResolution,
       HandleStartSession, StartCancel, Refuse, AcceptFails, Connected,
       IoCancelled, IoFails, Notice, Replied, Answer, Prompt, Ask, Rejected,
       Started, Detach, FinishCancel, Revoke, CancelIo, Stop, IoFrame,
       DropResources
  <2> QED
    BY <1>1, <2>1 DEF TasksFit, NoControl
<1> QED
  BY <1>2, <1>3

LEMMA TypeInit ==
  ASSUME Init
  PROVE  TypeInv
<1> USE DEF Init
<1>1. MachineTypeOK /\ AttemptTracksPhase
  BY MaxAttemptAssumption
  DEF MachineInit, MachineTypeOK, AttemptTracksPhase, Phases,
      ActivePhases, InvalidatingPhases, Attempts, NoAttempt
<1>2. call \in [Calls -> CallState]
  BY DEF IdleCall, CallState, Kinds, Results, NoAttempt
<1>3. watch \in [Attempts -> Watcher]
  BY DEF Watcher
<1>4. control \in Control /\ greetd \in GreetdState
  BY DEF NoControl, Control, NoSession, GreetdState
<1>5. TypeOK
  <2>1. queue \in Seq(Command)
    OBVIOUS
  <2> QED
    BY <1>1, <1>2, <1>3, <1>4, <2>1 DEF TypeOK, ActorPoints, Results
<1>6. CommandFits
  BY DEF CommandFits, IoPoints
<1>7. TasksFit
  BY DEF TasksFit, IdleCall, NoControl
<1> QED
  BY <1>1, <1>5, <1>6, <1>7 DEF TypeInv

LEMMA TypeStep ==
  ASSUME TypeInv, [Next]_vars
  PROVE  TypeInv'
<1>1. MachineInv'
  <2>1. [MachineNext]_machineVars
    BY StepSplit, HandlerEvents, SurroundingsFrame DEF actorOwned
  <2>2. MachineInv
    BY DEF TypeInv, TypeOK, MachineInv
  <2>3. CASE UNCHANGED machineVars
    BY <2>2, <2>3 DEF machineVars, MachineInv, MachineTypeOK, AttemptTracksPhase
  <2> QED
    BY <2>1, <2>2, <2>3, EventInv
<1>2. CASE ActorStep
  <2>1. TasksFit'
    BY <1>2, ActorTasks
  <2>2. TypesKept
    BY <1>1, <1>2, HandlerTypes, AcceptTypes, IoTypes, EndTypes, CancelTypes
    DEF ActorStep, MachineInv
  <2> QED
    BY <1>1, <2>1, <2>2 DEF TypeInv, TypesKept, MachineInv
<1>3. CASE Surroundings
  BY <1>1, <1>3, SurroundingsTypes, SurroundingsTasks
  DEF TypeInv, TypesKept, MachineInv
<1> QED
  BY <1>2, <1>3, StepSplit

\* Every value the actor, the method tasks, the watchers and the channels hold
\* has its type, in every reachable state and for any constants: every command
\* names a real caller, every cancelled token a real attempt.
THEOREM TypeCorrect == Spec => []TypeOK
<1>1. Init => TypeInv
  BY TypeInit
<1>2. TypeInv /\ [Next]_vars => TypeInv'
  BY TypeStep
<1>3. TypeInv => TypeOK
  BY DEF TypeInv
<1> QED
  BY <1>1, <1>2, <1>3, PTL DEF Spec

-----------------------------------------------------------------------------
(* The safety invariants, the refinement of LoginContract, and who may end  *)
(* an attempt.                                                             *)

\* None of the parts is inductive alone.  Where the actor waits (HandlersFit)
\* bounds the phase, the phase tells which resources exist, and the resources
\* tell whose command the actor may be working on and which greetd session an
\* answer speaks of.
ControlInv ==
  /\ HandlersFit
  /\ ResourcesFollowAttempt
  /\ ControlFollowsAttempt
  /\ AuthenticationIsGreetds
  /\ ForwardsOwnCallsOnly

LEMMA ControlInit ==
  ASSUME Init
  PROVE  ControlInv
BY CallersAssumption
DEF Init, MachineInit, ControlInv, HandlersFit, ResourcesFollowAttempt,
    ControlFollowsAttempt, AuthenticationIsGreetds, ForwardsOwnCallsOnly,
    NoAttemptPhases, ActivePhases, IoPoints

LEMMA SurroundingsControl ==
  ASSUME ControlInv, Surroundings
  PROVE  ControlInv'
BY SurroundingsFrame
DEF actorOwned, machineVars, resourceVars, actorVars, greetdVars, ControlInv,
    HandlersFit, ResourcesFollowAttempt, ControlFollowsAttempt,
    AuthenticationIsGreetds, ForwardsOwnCallsOnly, Retryable

LEMMA HandlerControl ==
  ASSUME TypeInv, ControlInv, HandleCommand
  PROVE  ControlInv'
<1> USE DEF ControlInv, HandlersFit, ResourcesFollowAttempt,
            ControlFollowsAttempt, AuthenticationIsGreetds,
            ForwardsOwnCallsOnly, NoAttemptPhases, ActivePhases, IoPoints,
            Conversing, Transition, InvalidatingPhases, NoAttempt,
            machineVars, resourceVars, greetdVars, Take, Refuse, Finish, WaitAt
<1> DEFINE m == Head(queue)
<1>1. m \in Command /\ m.caller \in Callers
  BY HeadType DEF TypeInv, HandleCommand, HandleBegin, HandleRespond,
     HandleCancel, HandleResolve, HandleUnavailable, HandleFailResolution,
     HandleStartSession, Command
<1>2. NoCaller \notin Callers /\ AttemptTracksPhase
  BY CallersAssumption DEF TypeInv
<1>3. CASE HandleBegin
  BY <1>1, <1>2, <1>3 DEF HandleBegin, StartCancel, CancelRequested, AttemptTracksPhase
<1>4. CASE HandleRespond
  BY <1>1, <1>2, <1>4 DEF HandleRespond, ResponseSubmitted, Owned, Refusal, AttemptTracksPhase
<1>5. CASE HandleCancel
  BY <1>1, <1>2, <1>5 DEF HandleCancel, StartCancel, CancelRequested, AttemptTracksPhase
<1>6. CASE HandleResolve
  BY <1>1, <1>2, <1>6 DEF HandleResolve, StartSessionRequested, Owned, Refusal, AttemptTracksPhase
<1>7. CASE HandleUnavailable
  BY <1>1, <1>2, <1>7 DEF HandleUnavailable, SessionUnavailable, Owned, Refusal, AttemptTracksPhase
<1>8. CASE HandleFailResolution
  BY <1>1, <1>2, <1>8 DEF HandleFailResolution, ProtocolFailure, Owned, Refusal, AttemptTracksPhase
<1>9. CASE HandleStartSession
  BY <1>1, <1>2, <1>9 DEF HandleStartSession, SessionResolved, Owned, Refusal, AttemptTracksPhase
<1> QED
  BY <1>3, <1>4, <1>5, <1>6, <1>7, <1>8, <1>9 DEF HandleCommand

LEMMA AcceptControl ==
  ASSUME TypeInv, ControlInv, Accept \/ AcceptFails
  PROVE  ControlInv'
<1> USE DEF ControlInv, HandlersFit, ResourcesFollowAttempt,
            ControlFollowsAttempt, AuthenticationIsGreetds,
            ForwardsOwnCallsOnly, NoAttemptPhases, ActivePhases, IoPoints,
            machineVars, resourceVars, greetdVars
<1>1. CASE Accept
  <2>1. cmd.caller \in Callers /\ NoCaller \notin Callers
    BY <1>1, CallersAssumption DEF Accept, TypeInv, CommandFits, Command
  <2>2. cmd'.attempt = active' /\ cmd'.caller = cmd.caller
    BY <1>1 DEF Accept, TypeInv, CommandFits, Command
  <2>3. active' = lastAttempt' /\ phase' = "CreatingSession"
    BY <1>1 DEF Accept, BeginAuthentication, TypeInv, TypeOK, MachineTypeOK
  <2> QED
    BY <1>1, <2>1, <2>2, <2>3 DEF Accept
<1>2. CASE AcceptFails
  BY <1>2 DEF AcceptFails, Refuse, Finish
<1> QED
  BY <1>1, <1>2

LEMMA IoControl ==
  ASSUME TypeInv, ControlInv,
         \/ Connected \/ IoCancelled \/ IoFails
         \/ Notice \/ Replied \/ Prompt \/ Ask
         \/ Rejected \/ Started
  PROVE  ControlInv'
<1> USE DEF ControlInv, HandlersFit, ResourcesFollowAttempt,
            ControlFollowsAttempt, AuthenticationIsGreetds,
            ForwardsOwnCallsOnly, NoAttemptPhases, ActivePhases, IoPoints,
            Conversing, Transition, InvalidatingPhases, NoAttempt,
            machineVars, resourceVars, greetdVars, Finish, WaitAt, EndWith,
            Fail, StartFinishCancel, CancelRequested, ProtocolFailure,
            AttemptTracksPhase
<1>1. AttemptTracksPhase
  BY DEF TypeInv
<1>2. CASE Connected
  BY <1>1, <1>2 DEF Connected
<1>3. CASE IoCancelled
  BY <1>1, <1>3 DEF IoCancelled
<1>4. CASE IoFails
  BY <1>1, <1>4 DEF IoFails
<1>5. CASE Notice \/ Replied
  <2>1. PICK answer \in Replies : Answer(answer)
    BY <1>5 DEF Notice, Replied, Replies, Messages
  <2>2. CASE TokenCancelled(active)
    BY <1>1, <2>1, <2>2 DEF Answer, Consume
  <2>3. CASE ~TokenCancelled(active) /\ answer = "success"
    <3>1. greetd' = [session |-> "ready", attempt |-> active]
      BY <2>1, <2>3 DEF Answer, Serves, Holds, RequestAt, Errors
    <3> QED
      BY <1>1, <2>1, <2>3, <3>1 DEF Answer, Consume, AuthenticationSucceeded,
         Messages, Errors
  <2>4. CASE ~TokenCancelled(active) /\ answer # "success"
    BY <1>1, <2>1, <2>4 DEF Answer, Consume, AuthMessage, Messages, Errors
  <2> QED
    BY <2>2, <2>3, <2>4
<1>6. CASE Prompt
  BY <1>1, <1>6 DEF Prompt, PromptNeedsInput, PromptAutoResponse
<1>7. CASE Ask
  BY <1>1, <1>7 DEF Ask
<1>8. CASE Rejected
  <2>1. CASE CredentialRejected /\ Reconnect /\ WaitAt("Connect", cmd)
    BY <1>1, <1>8, <2>1 DEF Rejected, Reconnect, CredentialRejected
  <2>2. CASE /\ AuthenticationFailed \/ ProtocolFailure
             /\ EndWith("failed")
             /\ UNCHANGED <<transport, userResponded, request>>
    BY <1>1, <1>8, <2>2 DEF Rejected, AuthenticationFailed
  <2> QED
    BY <1>8, <2>1, <2>2 DEF Rejected
<1>9. CASE Started
  <2>1. CASE SessionStarted /\ Serves("start", "success")
    <3>1. greetd' = [session |-> "scheduled", attempt |-> active]
      BY <1>9, <2>1 DEF Started, Serves, Errors
    <3> QED
      BY <1>1, <1>9, <2>1, <3>1 DEF Started, SessionStarted, SessionStartFailed
  <2>2. CASE SessionStartFailed \/ ProtocolFailure
    BY <1>1, <1>9, <2>2 DEF Started, SessionStartFailed, SessionStarted
  <2> QED
    BY <1>9, <2>1, <2>2 DEF Started
<1> QED
  BY <1>2, <1>3, <1>4, <1>5, <1>6, <1>7, <1>8, <1>9

LEMMA EndControl ==
  ASSUME TypeInv, ControlInv,
         Detach \/ FinishCancel \/ Revoke \/ CancelIo \/ Stop
  PROVE  ControlInv'
<1> USE DEF ControlInv, HandlersFit, ResourcesFollowAttempt,
            ControlFollowsAttempt, AuthenticationIsGreetds,
            ForwardsOwnCallsOnly, NoAttemptPhases, ActivePhases, IoPoints,
            Transition, InvalidatingPhases, NoAttempt, machineVars,
            resourceVars, greetdVars, Finish, WaitAt, DropResources,
            CancellationFinished, AttemptTracksPhase
<1>1. AttemptTracksPhase
  BY DEF TypeInv
<1>2. CASE Detach
  BY <1>1, <1>2 DEF Detach
<1>3. CASE FinishCancel
  BY <1>1, <1>3 DEF FinishCancel
<1>4. CASE Revoke
  BY <1>1, <1>4 DEF Revoke
<1>5. CASE CancelIo
  BY <1>1, <1>5 DEF CancelIo, AfterCancel, Exit
<1>6. CASE Stop
  BY <1>1, <1>6 DEF Stop, StartCancel, CancelRequested, Exit
<1> QED
  BY <1>2, <1>3, <1>4, <1>5, <1>6

LEMMA ControlStep ==
  ASSUME TypeInv, ControlInv, [Next]_vars
  PROVE  ControlInv'
<1>1. CASE ActorStep
  BY <1>1, HandlerControl, AcceptControl, IoControl, EndControl DEF ActorStep
<1>2. CASE Surroundings
  BY <1>2, SurroundingsControl
<1> QED
  BY <1>1, <1>2, StepSplit

LEMMA InductiveInvariant == Spec => [](TypeInv /\ ControlInv)
<1>1. Init => TypeInv /\ ControlInv
  BY TypeInit, ControlInit
<1>2. TypeInv /\ ControlInv /\ [Next]_vars => (TypeInv /\ ControlInv)'
  BY TypeStep, ControlStep
<1> QED
  BY <1>1, <1>2, PTL DEF Spec

\* No `expect` or `assert` of the actor can fire: at every await point the
\* machine accepts whatever event the handler raises after it.
THEOREM HandlersNeverPanic == Spec => []HandlersFit
<1>1. ControlInv => HandlersFit
  BY DEF ControlInv
<1> QED
  BY <1>1, InductiveInvariant, PTL

\* An attempt's resources are dropped when it ends and exist until then.
THEOREM ResourcesCorrect == Spec => []ResourcesFollowAttempt
<1>1. ControlInv => ResourcesFollowAttempt
  BY DEF ControlInv
<1> QED
  BY <1>1, InductiveInvariant, PTL

\* interrupt_current can only find the token of the attempt that is current, or
\* being ended, and only for the client that owns it.
THEOREM ControlCorrect == Spec => []ControlFollowsAttempt
<1>1. ControlInv => ControlFollowsAttempt
  BY DEF ControlInv
<1> QED
  BY <1>1, InductiveInvariant, PTL

\* Authenticated, and everything after it, is what greetd said of this attempt.
THEOREM AuthenticationCorrect == Spec => []AuthenticationIsGreetds
<1>1. ControlInv => AuthenticationIsGreetds
  BY DEF ControlInv
<1> QED
  BY <1>1, InductiveInvariant, PTL

\* greetd receives only what the owner of the current attempt sent for it.
THEOREM ForwardingCorrect == Spec => []ForwardsOwnCallsOnly
<1>1. ControlInv => ForwardsOwnCallsOnly
  BY DEF ControlInv
<1> QED
  BY <1>1, InductiveInvariant, PTL

-----------------------------------------------------------------------------
(* Refinement of LoginContract.                                            *)

\* A step that keeps the stage, the attempt and, while there is one, its owner.
LEMMA QuietStep ==
  ASSUME Stage' = Stage, active' = active, lastAttempt' = lastAttempt,
         active # NoAttempt => owner' = owner
  PROVE  UNCHANGED Contract!contractVars
BY DEF Contract!contractVars, Holder

\* Every event that ends an attempt without a session closes the login.
LEMMA ClosingStep ==
  ASSUME AttemptTracksPhase,
         \/ CancelRequested \/ ProtocolFailure
         \/ AuthenticationFailed \/ SessionStartFailed
  PROVE  Contract!Close
BY DEF AttemptTracksPhase, CancelRequested, ProtocolFailure,
   AuthenticationFailed, SessionStartFailed, Transition, Contract!Close,
   Contract!Release, Stage, Holder, ActivePhases, InvalidatingPhases,
   Conversing, NoAttempt

\* The events that neither open nor end a login, nor authenticate it.
InnerEvent ==
  \/ AuthMessage \/ PromptNeedsInput \/ PromptAutoResponse \/ ResponseSubmitted
  \/ CredentialRejected \/ StartSessionRequested \/ SessionUnavailable
  \/ SessionResolved \/ CancellationFinished \/ UNCHANGED machineVars

LEMMA InnerStep ==
  ASSUME AttemptTracksPhase, InnerEvent, active # NoAttempt => owner' = owner
  PROVE  UNCHANGED Contract!contractVars
<1>1. Stage' = Stage /\ active' = active /\ lastAttempt' = lastAttempt
  BY DEF AttemptTracksPhase, InnerEvent, AuthMessage, PromptNeedsInput,
     PromptAutoResponse, ResponseSubmitted, CredentialRejected,
     StartSessionRequested, SessionUnavailable, SessionResolved,
     CancellationFinished, Transition, Stage, ActivePhases,
     InvalidatingPhases, Conversing, NoAttempt, machineVars
<1> QED
  BY <1>1, QuietStep

LEMMA ContractStep ==
  ASSUME TypeInv, ControlInv, [Next]_vars
  PROVE  [Contract!ContractNext]_(Contract!contractVars)
<1> USE DEF Contract!ContractNext, resourceVars
<1>1. AttemptTracksPhase
  BY DEF TypeInv
<1>2. CASE Surroundings
  BY <1>1, <1>2, SurroundingsFrame, InnerStep DEF actorOwned, InnerEvent
<1>3. CASE HandleCommand
  BY <1>1, <1>3, InnerStep, ClosingStep
  DEF HandleCommand, HandleBegin, HandleRespond, HandleCancel, HandleResolve,
      HandleUnavailable, HandleFailResolution, HandleStartSession, StartCancel,
      Refuse, InnerEvent
<1>4. CASE Accept
  <2>1. cmd.caller \in Callers
    BY <1>4 DEF Accept, TypeInv, CommandFits, Command
  <2>2. phase \in {"Idle", "Failed"}
    BY <1>4 DEF Accept, BeginAuthentication, CanBegin, ControlInv, HandlersFit,
       NoAttemptPhases
  <2>3. Contract!Open(cmd.caller)
    BY <1>1, <1>4, <2>2
    DEF Accept, BeginAuthentication, CanBegin, Contract!Open, Stage, Holder,
        TypeInv, TypeOK, MachineTypeOK, NoAttempt
  <2> QED
    BY <2>1, <2>3
<1>5. CASE AcceptFails \/ Connected
  BY <1>1, <1>5, InnerStep DEF AcceptFails, Connected, Refuse, InnerEvent
<1>6. CASE IoCancelled \/ IoFails
  BY <1>1, <1>6, ClosingStep DEF IoCancelled, IoFails, StartFinishCancel, Fail
<1>7. CASE Notice \/ Replied
  <2>1. PICK answer : Answer(answer)
    BY <1>7 DEF Notice, Replied
  <2>2. CASE AuthenticationSucceeded
    <3>1. Contract!Authenticate
      BY <1>1, <2>1, <2>2 DEF AuthenticationSucceeded, Transition, Answer,
         Contract!Authenticate, Stage, Holder, Conversing, InvalidatingPhases
    <3> QED
      BY <3>1
  <2>3. CASE ~AuthenticationSucceeded
    BY <1>1, <2>1, <2>3, InnerStep, ClosingStep
    DEF Answer, Consume, StartFinishCancel, InnerEvent
  <2> QED
    BY <2>2, <2>3
<1>8. CASE Prompt \/ Ask
  BY <1>1, <1>8, InnerStep, ClosingStep
  DEF Prompt, Ask, StartFinishCancel, Fail, InnerEvent
<1>9. CASE Rejected
  BY <1>1, <1>9, InnerStep, ClosingStep DEF Rejected, Fail, InnerEvent
<1>10. CASE Started
  <2>1. CASE SessionStarted
    <3>1. Contract!HandOver
      BY <1>1, <2>1 DEF SessionStarted, Transition, Contract!HandOver,
         Contract!Release, Stage, Holder, InvalidatingPhases, NoAttempt
    <3> QED
      BY <3>1
  <2>2. CASE ~SessionStarted
    BY <1>1, <1>10, <2>2, ClosingStep DEF Started, Fail
  <2> QED
    BY <2>1, <2>2
<1>11. CASE Detach \/ FinishCancel \/ Revoke \/ CancelIo
  <2>1. active = NoAttempt
    BY <1>1, <1>11 DEF Detach, FinishCancel, Revoke, CancelIo, ControlInv,
       HandlersFit, AttemptTracksPhase, ActivePhases
  <2> QED
    BY <1>1, <1>11, <2>1, InnerStep DEF Detach, FinishCancel, Revoke, CancelIo,
       InnerEvent
<1>12. CASE Stop
  BY <1>1, <1>12, InnerStep, ClosingStep DEF Stop, StartCancel, InnerEvent
<1> QED
  BY <1>2, <1>3, <1>4, <1>5, <1>6, <1>7, <1>8, <1>9, <1>10, <1>11, <1>12,
     StepSplit DEF ActorStep

\* The actor implements the contract its clients rely on, for every number of
\* clients and every interleaving: exclusive logins, no change of holder, a
\* handoff only after the holder's authentication, and nothing after it.
THEOREM ActorKeepsContract == Spec => KeepsContract
<1>1. Init => Contract!ContractInit
  BY DEF Init, MachineInit, Contract!ContractInit, Stage, Holder, NoAttempt
<1>2. TypeInv /\ ControlInv /\ [Next]_vars => [Contract!ContractNext]_(Contract!contractVars)
  BY ContractStep
<1> QED
  BY <1>1, <1>2, InductiveInvariant, PTL DEF Spec, KeepsContract, Contract!ContractSpec

-----------------------------------------------------------------------------
(* Whose call revokes an attempt, and what a Cancel is told.               *)

\* A command carries what the task that waits for it asked.
FromItsCall(m) ==
  m.call # NoCall =>
    /\ call[m.call].pc = "queued"
    /\ call[m.call].kind = m.kind
    /\ call[m.call].attempt = m.attempt
    /\ CallerOf[m.call] = m.caller

\* Each queued call has one command, in the queue or in the actor's hands, and
\* a command without a call is the Cancel of a watcher that is done.
CommandsFit ==
  /\ FromItsCall(cmd)
  /\ \A i \in DOMAIN queue :
       /\ FromItsCall(queue[i])
       /\ queue[i].call = NoCall =>
            /\ queue[i].kind = "Cancel"
            /\ queue[i].attempt \in Attempts
            /\ watch[queue[i].attempt].pc = "done"
       /\ queue[i].call # NoCall => queue[i].call # cmd.call
  /\ \A i, j \in DOMAIN queue :
       queue[i].call = queue[j].call /\ queue[i].call # NoCall => i = j
  /\ /\ pc \in IoPoints \union {"Prompt", "Ask", "FinishCancel", "Detach"}
     /\ cmd.call # NoCall
     => cmd.kind \notin {"Begin", "Cancel"}

\* Tokens and watchers belong to attempts that were started; a watcher, and a
\* task that is about to cancel a token, act for the client that started the
\* attempt; the token of the current attempt was cancelled on its behalf.
TokensFit ==
  /\ \A a \in Attempts :
       a > lastAttempt => watch[a].pc = "none" /\ a \notin cancelled
  /\ owner # NoCaller => watch[lastAttempt].caller = owner
  /\ \A c \in Calls : call[c].pc = "interrupting" =>
       /\ call[c].kind \in {"Begin", "Cancel"}
       /\ call[c].attempt <= lastAttempt
       /\ watch[call[c].attempt].caller = CallerOf[c]
  /\ active # NoAttempt /\ active \in cancelled => Revocable

CauseInv == CommandsFit /\ TokensFit

LEMMA CauseInit ==
  ASSUME Init
  PROVE  CauseInv
BY CallersAssumption
DEF Init, MachineInit, CauseInv, CommandsFit, TokensFit, FromItsCall, NoCommand,
    StopCommand, IdleCall, NoAttempt

\* A command that has a call is typed by it.
LEMMA CommandCalls ==
  ASSUME TypeOK
  PROVE  /\ cmd.call \in Calls \union {NoCall}
         /\ \A i \in DOMAIN queue : queue[i].call \in Calls \union {NoCall}
         /\ NoCommand.call = NoCall /\ StopCommand.call = NoCall
<1>1. NoCommand.call = NoCall /\ StopCommand.call = NoCall
  BY DEF NoCommand, StopCommand
<1>2. \A m \in Command : m.call \in Calls \union {NoCall}
  BY DEF Command
<1>3. \A i \in DOMAIN queue : queue[i] \in Command
  BY DEF TypeOK
<1> QED
  BY <1>1, <1>2, <1>3 DEF TypeOK

\* Commands keep fitting their calls when one call, whose command is gone, is
\* answered, and when the actor drops its command or takes the next one.
LEMMA CommandsKept ==
  ASSUME TypeOK, CommandsFit,
         NEW STATE done, done \in Calls \union {NoCall},
         \A c \in Calls \ {done} : call'[c] = call[c],
         \A a \in Attempts : watch[a].pc = "done" => watch'[a].pc = "done",
         \/ /\ queue' = queue
            /\ done = NoCall \/ done = cmd.call
            /\ cmd'.call = NoCall \/ (cmd' = cmd /\ done = NoCall)
         \/ /\ queue # <<>> /\ queue' = Tail(queue)
            /\ done = NoCall \/ done = Head(queue).call
            /\ cmd'.call = NoCall \/ (cmd' = Head(queue) /\ done = NoCall),
         /\ pc' \in IoPoints \union {"Prompt", "Ask", "FinishCancel", "Detach"}
         /\ cmd'.call # NoCall
         => cmd'.kind \notin {"Begin", "Cancel"}
  PROVE  CommandsFit'
<1>1. /\ cmd.call \in Calls \union {NoCall}
      /\ \A i \in DOMAIN queue : queue[i].call \in Calls \union {NoCall}
  BY CommandCalls
<1>2. NoCall \notin Calls
  BY CallersAssumption
<1>3. PICK s \in {0, 1} :
        /\ \A i \in DOMAIN queue' : i + s \in DOMAIN queue /\ queue'[i] = queue[i + s]
        /\ s = 0 => /\ done = NoCall \/ done = cmd.call
                    /\ cmd'.call = NoCall \/ (cmd' = cmd /\ done = NoCall)
        /\ s = 1 => /\ 1 \in DOMAIN queue
                    /\ done = NoCall \/ done = queue[1].call
                    /\ cmd'.call = NoCall \/ (cmd' = queue[1] /\ done = NoCall)
  <2> queue \in Seq(Command)
    BY DEF TypeOK
  <2>1. CASE queue' = queue
    <3>1. \A i \in DOMAIN queue' : i + 0 = i
      BY <2>1
    <3>2. CASE /\ done = NoCall \/ done = cmd.call
               /\ cmd'.call = NoCall \/ (cmd' = cmd /\ done = NoCall)
      BY <2>1, <3>1, <3>2
    <3>3. CASE queue # <<>> /\ queue' = Tail(queue)
      BY <2>1, <3>3
    <3> QED
      BY <3>2, <3>3
  <2>2. CASE /\ queue # <<>> /\ queue' = Tail(queue)
             /\ done = NoCall \/ done = Head(queue).call
             /\ cmd'.call = NoCall \/ (cmd' = Head(queue) /\ done = NoCall)
    BY <2>2
  <2> QED
    BY <2>1, <2>2
<1>4. FromItsCall(cmd)'
  <2>1. CASE cmd'.call = NoCall
    BY <2>1 DEF FromItsCall
  <2>2. CASE cmd'.call # NoCall
    BY <1>1, <1>2, <1>3, <2>2 DEF FromItsCall, CommandsFit
  <2> QED
    BY <2>1, <2>2
<1>5. ASSUME NEW i \in DOMAIN queue', queue'[i].call # NoCall
      PROVE  queue'[i].call # cmd'.call /\ queue'[i].call # done
  <2>1. queue[i + s].call # cmd.call /\ queue[i + s].call # NoCall
    BY <1>3, <1>5 DEF CommandsFit
  <2>2. s = 1 => queue[i + s].call # queue[1].call
    <3>1. i \in Nat /\ i > 0
      BY <1>3, <1>5 DEF TypeOK
    <3> QED
      BY <1>3, <2>1, <3>1 DEF CommandsFit
  <2> QED
    BY <1>3, <1>5, <2>1, <2>2
<1>6. ASSUME NEW i \in DOMAIN queue'
      PROVE  /\ FromItsCall(queue[i])'
             /\ queue'[i].call = NoCall =>
                  /\ queue'[i].kind = "Cancel"
                  /\ queue'[i].attempt \in Attempts
                  /\ watch'[queue'[i].attempt].pc = "done"
  BY <1>1, <1>2, <1>3, <1>5, <1>6 DEF FromItsCall, CommandsFit
<1>7. ASSUME NEW i \in DOMAIN queue', NEW j \in DOMAIN queue',
             queue'[i].call = queue'[j].call, queue'[i].call # NoCall
      PROVE  i = j
  BY <1>3, <1>7 DEF CommandsFit
<1> QED
  BY <1>4, <1>5, <1>6, <1>7 DEF CommandsFit, FromItsCall

\* Tasks that wait for no answer may move on.
LEMMA CommandsUndisturbed ==
  ASSUME TypeOK, CommandsFit, UNCHANGED <<queue, cmd, pc>>,
         \A c \in Calls : call[c].pc = "queued" => call'[c] = call[c],
         \A a \in Attempts : watch[a].pc = "done" => watch'[a].pc = "done"
  PROVE  CommandsFit'
BY CommandCalls DEF CommandsFit, FromItsCall

LEMMA CommandQueued ==
  ASSUME TypeInv, CommandsFit,
         \/ \E c \in Calls : Send(c)
         \/ \E a \in Attempts : WatcherSends(a)
  PROVE  CommandsFit'
<1> USE DEF TypeInv, TypeOK
<1>1. NoCall \notin Calls
  BY CallersAssumption
<1>2. CASE \E c \in Calls : Send(c)
  <2>1. PICK c \in Calls : Send(c)
    BY <1>2
  <2> DEFINE m == [kind |-> call[c].kind, call |-> c, caller |-> CallerOf[c],
                   attempt |-> call[c].attempt, allow |-> call[c].allow]
  <2>2. /\ call[c].pc = "sending" /\ queue' = Append(queue, m)
        /\ call' = [call EXCEPT ![c] = [call[c] EXCEPT !.pc = "queued"]]
        /\ UNCHANGED <<cmd, pc, watch>>
    BY <2>1 DEF Send, machineVars, resourceVars, actorVars
  <2>3. /\ \A d \in Calls \ {c} : call'[d] = call[d]
        /\ call'[c].pc = "queued" /\ call'[c].kind = m.kind
        /\ call'[c].attempt = m.attempt
    BY <2>2 DEF CallState
  <2>4. /\ DOMAIN queue' = 1..(Len(queue) + 1) /\ DOMAIN queue = 1..Len(queue)
        /\ Len(queue) \in Nat
        /\ \A i \in DOMAIN queue : queue'[i] = queue[i]
        /\ queue'[Len(queue) + 1] = m
    BY <2>2
  <2>5. m.call = c /\ m.caller = CallerOf[c]
    OBVIOUS
  <2> HIDE DEF m
  <2>6. /\ cmd.call # c
        /\ \A i \in DOMAIN queue : queue[i].call # c
    BY <1>1, <2>2 DEF CommandsFit, FromItsCall
  <2> QED
    BY <1>1, <2>2, <2>3, <2>4, <2>5, <2>6, CommandCalls DEF CommandsFit, FromItsCall
<1>3. CASE \E a \in Attempts : WatcherSends(a)
  <2>1. PICK a \in Attempts : WatcherSends(a)
    BY <1>3
  <2>2. /\ call' = call
        /\ watch' = [watch EXCEPT ![a] = [watch[a] EXCEPT !.pc = "done"]]
        /\ UNCHANGED <<cmd, pc>>
    BY <2>1 DEF WatcherSends, machineVars, resourceVars, actorVars
  <2>3. /\ \A b \in Attempts : watch[b].pc = "done" => watch'[b].pc = "done"
        /\ watch'[a].pc = "done"
    BY <2>2 DEF Watcher
  <2>4. CASE queue' = queue
    BY <2>2, <2>3, <2>4, CommandsUndisturbed
  <2>5. CASE queue' # queue
    <3>1. PICK m : /\ queue' = Append(queue, m) /\ m.call = NoCall
                   /\ m.kind = "Cancel" /\ m.attempt = a
      BY <2>1, <2>5 DEF WatcherSends
    <3>2. /\ DOMAIN queue' = 1..(Len(queue) + 1) /\ DOMAIN queue = 1..Len(queue)
          /\ Len(queue) \in Nat
          /\ \A i \in DOMAIN queue : queue'[i] = queue[i]
          /\ queue'[Len(queue) + 1] = m
      BY <3>1
    <3> QED
      BY <1>1, <2>2, <2>3, <3>1, <3>2, CommandCalls DEF CommandsFit, FromItsCall
  <2> QED
    BY <2>4, <2>5
<1> QED
  BY <1>2, <1>3

LEMMA SurroundingsCommands ==
  ASSUME TypeInv, CommandsFit, Surroundings
  PROVE  CommandsFit'
<1> USE DEF TypeInv, TypeOK
<1>1. UNCHANGED <<cmd, pc>>
  BY SurroundingsFrame DEF actorOwned, actorVars
<1>2. CASE \E c \in Calls : Send(c)
  BY <1>2, CommandQueued
<1>3. CASE \E a \in Attempts : WatcherSends(a)
  BY <1>3, CommandQueued
<1>4. CASE \E c \in Calls : ClientCall(c) \/ CallStep(c)
  <2>1. PICK c \in Calls : ClientCall(c) \/ CallStep(c)
    BY <1>4
  <2>2. /\ UNCHANGED <<queue, watch>> /\ call[c].pc # "queued"
        /\ \A d \in Calls \ {c} : call'[d] = call[d]
    BY <2>1 DEF ClientCall, Invoke, CallStep, Interrupt, SendFails, Lookup,
       Return, sharedVars
  <2> QED
    BY <1>1, <2>2, CommandsUndisturbed
<1>5. CASE \E a \in Attempts : WatcherStep(a)
  <2>1. PICK a \in Attempts : WatcherStep(a)
    BY <1>5
  <2>2. UNCHANGED <<queue, call>> /\ watch[a].pc # "done"
    BY <2>1 DEF WatcherStep, WatcherSubscribes, WatcherRevokes,
       WatcherDismissed, sharedVars
  <2>3. \A b \in Attempts \ {a} : watch'[b] = watch[b]
    BY <2>1 DEF WatcherStep, WatcherSubscribes, WatcherRevokes, WatcherDismissed
  <2> QED
    BY <1>1, <2>2, <2>3, CommandsUndisturbed
<1>6. CASE \/ \E u \in Callers : Disconnect(u)
           \/ CloseBus \/ StopActor \/ UNCHANGED vars
  <2>1. UNCHANGED <<queue, call, watch>>
    BY <1>6 DEF Disconnect, CloseBus, StopActor, sharedVars, clientVars, vars
  <2> QED
    BY <1>1, <2>1, CommandsUndisturbed
<1> QED
  BY <1>2, <1>3, <1>4, <1>5, <1>6 DEF Surroundings

LEMMA SurroundingsTokens ==
  ASSUME TypeInv, ControlInv, TokensFit, Surroundings
  PROVE  TokensFit'
<1> USE DEF TypeInv, TypeOK
<1>1. UNCHANGED <<lastAttempt, active, owner, pc, control>>
  BY SurroundingsFrame DEF actorOwned, actorVars, machineVars, resourceVars
<1>2. active # NoAttempt => active = lastAttempt /\ owner \in Callers /\ pc # "Done"
                              /\ active \in Attempts
  BY DEF AttemptTracksPhase, ControlInv, ResourcesFollowAttempt, HandlersFit,
     NoAttemptPhases, ActivePhases, MachineTypeOK
<1>3. CASE \E c \in Calls : ClientCall(c) \/ CallStep(c) \/ Send(c)
  <2>1. PICK c \in Calls : ClientCall(c) \/ CallStep(c) \/ Send(c)
    BY <1>3
  <2>2. /\ watch' = watch /\ shutdown' = shutdown
        /\ \A d \in Calls \ {c} : call'[d] = call[d]
    BY <2>1 DEF ClientCall, Invoke, CallStep, Interrupt, SendFails, Lookup,
       Return, Send, sharedVars
  <2>3. CASE ClientCall(c)
    <3>1. PICK kind \in Kinds, a \in Attempts \union {NoAttempt} : Invoke(c, kind, a)
      BY <2>3, CallersAssumption DEF ClientCall, Kinds
    <3>2. cancelled' = cancelled /\ call[c].pc = "idle"
      BY <3>1 DEF Invoke, sharedVars
    <3>3. call'[c].pc = "interrupting" =>
            /\ Interrupts(c, kind, a)
            /\ call'[c].kind = kind
            /\ call'[c].attempt = control.attempt
      BY <3>1 DEF Invoke, Interrupts
    <3>4. call'[c].pc = "interrupting" =>
            /\ call'[c].kind \in {"Begin", "Cancel"}
            /\ call'[c].attempt = lastAttempt
            /\ owner = CallerOf[c] /\ owner # NoCaller
      BY <3>3, CallersAssumption DEF Interrupts, ControlInv, ControlFollowsAttempt,
         NoControl
    <3>5. lastAttempt <= lastAttempt
      BY DEF MachineTypeOK
    <3> QED
      BY <1>1, <2>2, <3>2, <3>4, <3>5 DEF TokensFit, Revocable
  <2>4. CASE Interrupt(c)
    <3>1. /\ call[c].pc = "interrupting"
          /\ cancelled' = cancelled \union {call[c].attempt}
          /\ call'[c].pc = "sending" /\ call'[c].kind = call[c].kind
          /\ call'[c].attempt = call[c].attempt
          /\ call[c].attempt \in Attempts
      BY <2>4 DEF Interrupt, CallState, TasksFit
    <3>2. /\ call[c].kind \in {"Begin", "Cancel"}
          /\ call[c].attempt <= lastAttempt
          /\ watch[call[c].attempt].caller = CallerOf[c]
      BY <3>1 DEF TokensFit
    <3>3. \A a \in Attempts : a > lastAttempt => a \notin cancelled'
      BY <3>1, <3>2, MaxAttemptAssumption DEF TokensFit, MachineTypeOK, Attempts
    <3>4. (active # NoAttempt /\ active \in cancelled') => Revocable'
      <4>1. CASE active = call[c].attempt /\ active # NoAttempt
        <5>1. CallerOf[c] = owner
          BY <1>2, <3>2, <4>1, CallersAssumption DEF TokensFit
        <5> QED
          BY <1>1, <2>2, <3>1, <3>2, <4>1, <5>1 DEF Revocable
      <4>2. CASE active # call[c].attempt
        BY <1>1, <2>2, <3>1, <4>2 DEF TokensFit, Revocable
      <4> QED
        BY <4>1, <4>2
    <3> QED
      BY <1>1, <2>2, <3>1, <3>3, <3>4 DEF TokensFit
  <2>5. CASE Send(c) \/ SendFails(c) \/ Lookup(c) \/ Return(c)
    <3>1. cancelled' = cancelled
      BY <2>5 DEF Send, SendFails, Lookup, Return, sharedVars
    <3>2. call'[c].pc # "interrupting"
      <4> call[c] \in CallState
        OBVIOUS
      <4>1. CASE Send(c)
        BY <4>1 DEF Send, CallState
      <4>2. CASE Lookup(c)
        <5>1. PICK kind \in Kinds :
                call' = [call EXCEPT ![c] = [call[c] EXCEPT !.pc = "sending", !.kind = kind]]
          BY <4>2 DEF Lookup, Kinds
        <5> QED
          BY <5>1 DEF CallState
      <4>3. CASE SendFails(c)
        BY <4>3 DEF SendFails, Settled, IdleCall
      <4>4. CASE Return(c)
        BY <4>4 DEF Return, IdleCall
      <4> QED
        BY <2>5, <4>1, <4>2, <4>3, <4>4
    <3>3. (pc # "Done" /\ call[c].pc \in {"sending", "queued"}) =>
            /\ call'[c].pc = "queued" /\ call'[c].kind = call[c].kind
            /\ call'[c].attempt = call[c].attempt
      BY <2>5 DEF Send, SendFails, Lookup, Return, CallState
    <3> QED
      BY <1>1, <1>2, <2>2, <3>1, <3>2, <3>3 DEF TokensFit, Revocable
  <2> QED
    BY <2>1, <2>3, <2>4, <2>5 DEF CallStep
<1>4. CASE \E a \in Attempts : WatcherStep(a) \/ WatcherSends(a)
  <2>1. PICK a \in Attempts : WatcherStep(a) \/ WatcherSends(a)
    BY <1>4
  <2>2. call' = call /\ shutdown' = shutdown
    BY <2>1 DEF WatcherStep, WatcherSubscribes, WatcherRevokes,
       WatcherDismissed, WatcherSends, sharedVars
  <2>3. PICK point \in {"watching", "revoking", "done"} :
          watch' = [watch EXCEPT ![a] = [watch[a] EXCEPT !.pc = point]]
    BY <2>1 DEF WatcherStep, WatcherSubscribes, WatcherRevokes,
       WatcherDismissed, WatcherSends
  <2>4. /\ \A b \in Attempts : watch'[b].caller = watch[b].caller
        /\ \A b \in Attempts \ {a} : watch'[b] = watch[b]
        /\ watch'[a].pc = point
    BY <2>3 DEF Watcher
  <2>5. /\ watch[a].pc # "none"
        /\ cancelled' = cancelled \/ (cancelled' = cancelled \union {a} /\ point = "revoking")
        /\ watch[a].pc \in {"revoking", "done"} => point \in {"revoking", "done"}
    <3>1. CASE WatcherSubscribes(a) \/ WatcherDismissed(a)
      BY <2>4, <3>1 DEF WatcherSubscribes, WatcherDismissed, sharedVars
    <3>2. CASE WatcherRevokes(a)
      <4>1. watch'[a].pc = "revoking"
        BY <3>2 DEF WatcherRevokes, Watcher
      <4> QED
        BY <2>4, <3>2, <4>1 DEF WatcherRevokes
    <3>3. CASE WatcherSends(a)
      <4>1. watch'[a].pc = "done"
        BY <3>3 DEF WatcherSends, Watcher
      <4> QED
        BY <2>4, <3>3, <4>1 DEF WatcherSends
    <3> QED
      BY <2>1, <3>1, <3>2, <3>3 DEF WatcherStep
  <2>6. ~(a > lastAttempt)
    BY <2>5 DEF TokensFit
  <2>7. owner # NoCaller => lastAttempt \in Attempts
    <3>1. owner # NoCaller => lastAttempt # 0
      BY DEF ControlInv, ResourcesFollowAttempt, CommandFits, AttemptTracksPhase,
         NoAttempt, ActivePhases
    <3> QED
      BY <3>1, MaxAttemptAssumption DEF MachineTypeOK, Attempts
  <2>8. \A c \in Calls : call[c].pc = "interrupting" => call[c].attempt \in Attempts
    BY DEF TasksFit
  <2>9. \A b \in Attempts : watch[b].pc \in {"revoking", "done"} =>
          watch'[b].pc \in {"revoking", "done"}
    BY <2>4, <2>5
  <2>10. (active # NoAttempt /\ active \in cancelled') => Revocable'
    BY <1>1, <1>2, <2>2, <2>4, <2>5, <2>9 DEF TokensFit, Revocable
  <2> QED
    BY <1>1, <2>2, <2>4, <2>5, <2>6, <2>7, <2>8, <2>10 DEF TokensFit
<1>5. CASE \/ \E u \in Callers : Disconnect(u)
           \/ CloseBus \/ StopActor \/ UNCHANGED vars
  <2>1. UNCHANGED <<cancelled, call, watch>> /\ (shutdown => shutdown')
    BY <1>5 DEF Disconnect, CloseBus, StopActor, sharedVars, clientVars, vars
  <2> QED
    BY <1>1, <2>1 DEF TokensFit, Revocable
<1> QED
  BY <1>3, <1>4, <1>5 DEF Surroundings

LEMMA HandlerCommands ==
  ASSUME TypeInv, CommandsFit, HandleCommand
  PROVE  CommandsFit'
<1> USE DEF TypeInv, TypeOK
<1> DEFINE m == Head(queue)
<1>1. /\ queue # <<>> /\ queue' = Tail(queue) /\ watch' = watch
      /\ m.kind \in {"Begin", "Respond", "Cancel", "Resolve", "Unavailable",
                     "FailResolution", "StartSession"}
  BY DEF HandleCommand, HandleBegin, HandleRespond, HandleCancel,
     HandleResolve, HandleUnavailable, HandleFailResolution,
     HandleStartSession, Take
<1>2. m \in Command /\ m.call \in Calls \union {NoCall}
  BY <1>1, HeadType DEF Command
<1>3. \/ cmd' = m /\ call' = call
      \/ /\ \E r : ReplyTo(m, r)
         /\ pc' = "Recv" /\ cmd' = NoCommand
  BY DEF HandleCommand, HandleBegin, HandleRespond, HandleCancel,
     HandleResolve, HandleUnavailable, HandleFailResolution,
     HandleStartSession, StartCancel, WaitAt, Refuse, Finish
<1>4. CASE cmd' = m /\ call' = call
  <2>1. pc' \in IoPoints \union {"Prompt", "Ask", "FinishCancel", "Detach"} =>
          m.kind \notin {"Begin", "Cancel"}
    BY <1>1 DEF HandleCommand, HandleBegin, HandleRespond, HandleCancel,
       HandleResolve, HandleUnavailable, HandleFailResolution,
       HandleStartSession, StartCancel, WaitAt, Refuse, Finish, Take, IoPoints
  <2>2. NoCall \in Calls \union {NoCall}
    OBVIOUS
  <2> QED
    BY <1>1, <1>4, <2>1, <2>2, CommandsKept
<1>5. CASE (\E r : ReplyTo(m, r)) /\ pc' = "Recv" /\ cmd' = NoCommand
  <2>1. \A c \in Calls \ {m.call} : call'[c] = call[c]
    BY <1>5 DEF ReplyTo
  <2>2. cmd'.call = NoCall
    BY <1>5 DEF NoCommand, StopCommand
  <2>3. pc' \notin IoPoints \union {"Prompt", "Ask", "FinishCancel", "Detach"}
    BY <1>5 DEF IoPoints
  <2> QED
    BY <1>1, <1>2, <2>1, <2>2, <2>3, CommandsKept
<1> QED
  BY <1>3, <1>4, <1>5

\* The handlers' steps, as far as calls and commands are concerned.
LEMMA StepCommands ==
  ASSUME TypeInv, ControlInv, ActorStep, ~HandleCommand
  PROVE  \/ cmd' = cmd /\ UNCHANGED <<call, queue>>
         \/ /\ \E r : ReplyTo(cmd, r)
            /\ queue' = queue /\ cmd'.call = NoCall
         \/ queue' = queue /\ call' = call /\ cmd' = StopCommand
         \/ queue' = <<>> /\ cmd' = NoCommand /\ pc' = "Done"
<1>1. NoCommand.call = NoCall /\ StopCommand.call = NoCall
  BY DEF NoCommand, StopCommand
<1>2. CASE Accept
  <2>1. cmd'.call = NoCall
    BY <1>2 DEF Accept, TypeInv, CommandFits, Command
  <2> QED
    BY <1>2, <2>1 DEF Accept
<1>3. CASE \/ AcceptFails \/ Connected \/ IoCancelled \/ IoFails
           \/ Notice \/ Replied \/ Prompt \/ Ask \/ Rejected \/ Started
  BY <1>1, <1>3 DEF AcceptFails, Connected, IoCancelled, IoFails, Notice,
     Replied, Answer, Consume, Prompt, Ask, Rejected, Started, Refuse, Finish,
     Fail, EndWith, StartFinishCancel, WaitAt, IoFrame
<1>4. CASE Detach \/ FinishCancel \/ Revoke \/ CancelIo \/ Stop
  BY <1>1, <1>4 DEF Detach, FinishCancel, Revoke, CancelIo, Stop, StartCancel,
     AfterCancel, WaitAt, Finish, Exit, IoFrame
<1> QED
  BY <1>2, <1>3, <1>4 DEF ActorStep

\* A handler of I/O was entered by no Begin and no Cancel.
LEMMA PointCommands ==
  ASSUME TypeInv, CommandsFit, ActorStep, ~HandleCommand,
         pc' \in IoPoints \union {"Prompt", "Ask", "FinishCancel", "Detach"},
         cmd'.call # NoCall
  PROVE  cmd' = cmd /\ cmd.kind \notin {"Begin", "Cancel"}
<1>1. cmd' = cmd
  <2>1. NoCommand.call = NoCall /\ StopCommand.call = NoCall
    BY DEF NoCommand, StopCommand
  <2>2. ~Accept
    BY DEF Accept, TypeInv, CommandFits, Command
  <2> QED
    BY <2>1, <2>2 DEF ActorStep, AcceptFails, Connected, IoCancelled, IoFails,
       Notice, Replied, Answer, Consume, Prompt, Ask, Rejected, Started,
       Refuse, Finish, Fail, EndWith, StartFinishCancel, WaitAt, Detach,
       FinishCancel, Revoke, CancelIo, Stop, StartCancel, AfterCancel, Exit
<1>2. pc \in IoPoints \union {"Prompt", "Ask", "FinishCancel", "Detach"}
  <2>1. ~Accept
    BY DEF Accept, TypeInv, CommandFits, Command
  <2> QED
    BY <2>1 DEF ActorStep, AcceptFails, Connected, IoCancelled, IoFails,
       Notice, Replied, Answer, Consume, Prompt, Ask, Rejected, Started,
       Refuse, Finish, Fail, EndWith, StartFinishCancel, WaitAt, Detach,
       FinishCancel, Revoke, CancelIo, Stop, StartCancel, AfterCancel, Exit,
       IoPoints
<1> QED
  BY <1>1, <1>2 DEF CommandsFit

LEMMA ActorCommands ==
  ASSUME TypeInv, ControlInv, CauseInv, ActorStep
  PROVE  CommandsFit'
<1> USE DEF CauseInv
<1>1. CASE HandleCommand
  BY <1>1, HandlerCommands
<1>2. CASE ~HandleCommand
  <2>1. \A a \in Attempts : watch[a].pc = "done" => watch'[a].pc = "done"
    <3>1. CASE Accept
      <4>1. active' = lastAttempt + 1 /\ lastAttempt \in Nat
        BY <3>1 DEF Accept, BeginAuthentication, TypeInv, TypeOK, MachineTypeOK
      <4>2. active' \in Attempts => watch[active'].pc = "none"
        BY <4>1, MaxAttemptAssumption DEF TokensFit, Attempts
      <4>3. \A a \in Attempts \ {active'} : watch'[a] = watch[a]
        BY <3>1 DEF Accept
      <4> QED
        BY <4>2, <4>3
    <3>2. CASE ~Accept
      BY <1>2, <3>2 DEF ActorStep, Refuse, AcceptFails, Connected,
         IoCancelled, IoFails, Notice, Replied, Answer, Prompt, Ask, Rejected,
         Started, Detach, FinishCancel, Revoke, CancelIo, Stop, IoFrame
    <3> QED
      BY <3>1, <3>2
  <2>2. (/\ pc' \in IoPoints \union {"Prompt", "Ask", "FinishCancel", "Detach"}
         /\ cmd'.call # NoCall)
        => cmd'.kind \notin {"Begin", "Cancel"}
    BY <1>2, PointCommands
  <2>3. NoCommand.call = NoCall /\ StopCommand.call = NoCall
    BY DEF NoCommand, StopCommand
  <2>4. TypeOK /\ cmd.call \in Calls \union {NoCall}
    BY CommandCalls DEF TypeInv
  <2>5. CASE cmd' = cmd /\ UNCHANGED <<call, queue>>
    <3>1. NoCall \in Calls \union {NoCall}
      OBVIOUS
    <3> QED
      BY <2>1, <2>2, <2>4, <2>5, <3>1, CommandsKept
  <2>6. CASE (\E r : ReplyTo(cmd, r)) /\ queue' = queue /\ cmd'.call = NoCall
    <3>1. \A c \in Calls \ {cmd.call} : call'[c] = call[c]
      BY <2>6 DEF ReplyTo
    <3> QED
      BY <2>1, <2>2, <2>4, <2>6, <3>1, CommandsKept
  <2>7. CASE queue' = queue /\ call' = call /\ cmd' = StopCommand
    <3>1. NoCall \in Calls \union {NoCall}
      OBVIOUS
    <3> QED
      BY <2>1, <2>2, <2>3, <2>4, <2>7, <3>1, CommandsKept
  <2>8. CASE queue' = <<>> /\ cmd' = NoCommand /\ pc' = "Done"
    BY <2>3, <2>8 DEF CommandsFit, FromItsCall, IoPoints
  <2> QED
    BY <1>2, <2>5, <2>6, <2>7, <2>8, StepCommands
<1> QED
  BY <1>1, <1>2

\* Only an accepted Begin starts an attempt.
LEMMA AttemptStays ==
  ASSUME ActorStep, ~Accept
  PROVE  lastAttempt' = lastAttempt /\ active' \in {active, NoAttempt}
<1>1. CASE HandleCommand
  BY <1>1 DEF HandleCommand, HandleBegin, HandleRespond, HandleCancel,
     HandleResolve, HandleUnavailable, HandleFailResolution,
     HandleStartSession, StartCancel, Refuse, machineVars, Transition,
     CancelRequested, ResponseSubmitted, StartSessionRequested,
     SessionUnavailable, ProtocolFailure, SessionResolved
<1>2. CASE \/ AcceptFails \/ Connected \/ IoCancelled \/ IoFails
           \/ Notice \/ Replied \/ Prompt \/ Ask \/ Rejected \/ Started
  BY <1>2 DEF AcceptFails, Connected, IoCancelled, IoFails, Notice, Replied,
     Answer, Consume, Prompt, Ask, Rejected, Started, Refuse, Fail,
     StartFinishCancel, machineVars, Transition, CancelRequested,
     ProtocolFailure, AuthenticationSucceeded, AuthMessage, PromptNeedsInput,
     PromptAutoResponse, CredentialRejected, AuthenticationFailed,
     SessionStarted, SessionStartFailed
<1>3. CASE Detach \/ FinishCancel \/ Revoke \/ CancelIo \/ Stop
  BY <1>3 DEF Detach, FinishCancel, Revoke, CancelIo, Stop, StartCancel,
     machineVars, Transition, CancelRequested, CancellationFinished
<1> QED
  BY <1>1, <1>2, <1>3 DEF ActorStep

\* While an attempt goes on, no call of its owner that revokes it is answered:
\* a Begin or a Cancel that reaches the actor ends the attempt first.
LEMMA RevokersWait ==
  ASSUME TypeInv, ControlInv, CommandsFit, ActorStep, ~Accept,
         active' # NoAttempt,
         NEW c \in Calls, CallerOf[c] = owner,
         call[c].kind \in {"Begin", "Cancel"},
         call[c].kind = "Cancel" => call[c].attempt = active
  PROVE  call'[c] = call[c]
<1>1. /\ active # NoAttempt
      /\ phase \in ActivePhases /\ phase' \in ActivePhases
      /\ owner # NoCaller
      /\ pc \in IoPoints \union {"Prompt", "Ask", "Recv"}
      /\ pc' # "Done"
  <2>1. active' = active
    BY AttemptStays
  <2>2. TypeInv' /\ ControlInv'
    BY TypeStep, ControlStep DEF Next
  <2>3. phase \in ActivePhases /\ phase' \in ActivePhases
    BY <2>1, <2>2 DEF TypeInv, AttemptTracksPhase
  <2> QED
    BY <2>1, <2>2, <2>3 DEF TypeInv, TypeOK, ActorPoints, ControlInv,
       HandlersFit, ResourcesFollowAttempt, NoAttemptPhases, ActivePhases
<1>2. NoCall \notin Calls
  BY CallersAssumption
<1>3. CASE HandleCommand
  <2> DEFINE m == Head(queue)
  <2>1. queue # <<>> /\ queue \in Seq(Command)
    BY <1>3 DEF HandleCommand, HandleBegin, HandleRespond, HandleCancel,
       HandleResolve, HandleUnavailable, HandleFailResolution,
       HandleStartSession, Take, TypeInv, TypeOK
  <2>2. m.call = c =>
          m.kind = call[c].kind /\ m.attempt = call[c].attempt /\ m.caller = owner
    <3>1. 1 \in DOMAIN queue /\ m = queue[1]
      BY <2>1
    <3> QED
      BY <1>2, <3>1 DEF CommandsFit, FromItsCall
  <2>3. ~CancelRequested
    BY <1>1 DEF CancelRequested, Transition, ActivePhases
  <2>4. call' = call \/ (m.call # c /\ \E r : ReplyTo(m, r))
    <3> HIDE DEF m
    <3>1. CASE HandleBegin
      BY <1>1, <2>2, <2>3, <3>1 DEF HandleBegin, StartCancel, WaitAt, Refuse,
         Finish, m
    <3>2. CASE HandleCancel
      BY <1>1, <2>2, <2>3, <3>2 DEF HandleCancel, StartCancel, Take, Refuse,
         Finish, m
    <3>3. CASE ~HandleBegin /\ ~HandleCancel
      <4>1. m.kind \notin {"Begin", "Cancel"}
        BY <1>3, <3>3 DEF HandleCommand, HandleRespond, HandleResolve,
           HandleUnavailable, HandleFailResolution, HandleStartSession, Take, m
      <4> QED
        BY <1>3, <2>2, <3>3, <4>1 DEF HandleCommand, HandleRespond,
           HandleResolve, HandleUnavailable, HandleFailResolution,
           HandleStartSession, WaitAt, Refuse, Finish, m
    <3> QED
      BY <3>1, <3>2, <3>3
  <2>5. \A r : m.call # c /\ ReplyTo(m, r) => call'[c] = call[c]
    <3> HIDE DEF m
    <3> QED
      BY DEF ReplyTo
  <2> QED
    BY <2>4, <2>5
<1>4. CASE ~HandleCommand
  <2>1. CASE pc = "Recv"
    <3>1. Stop
      BY <1>4, <2>1 DEF ActorStep, Accept, AcceptFails, Connected, IoCancelled,
         IoFails, Notice, Replied, Answer, Prompt, Ask, Rejected, Started,
         Detach, FinishCancel, Revoke, CancelIo, IoPoints
    <3> QED
      BY <1>1, <3>1 DEF Stop, StartCancel, CancelRequested, Transition, ActivePhases
  <2>2. CASE pc # "Recv"
    <3>1. cmd.call = c => call[c].kind = cmd.kind /\ cmd.kind \notin {"Begin", "Cancel"}
      BY <1>1, <1>2, <2>2 DEF CommandsFit, FromItsCall
    <3>2. \A r : cmd.call # c /\ ReplyTo(cmd, r) => call'[c] = call[c]
      BY DEF ReplyTo
    <3> QED
      BY <1>1, <1>4, <3>1, <3>2, StepCommands
  <2> QED
    BY <2>1, <2>2
<1> QED
  BY <1>3, <1>4

LEMMA ActorTokens ==
  ASSUME TypeInv, ControlInv, CauseInv, ActorStep
  PROVE  TokensFit'
<1> USE DEF CauseInv
<1>1. \A c \in Calls : call'[c] = call[c] \/ call'[c].pc \in {"lookup", "replied"}
  BY AnswerOnly
<1>2. TypeInv' /\ ControlInv'
  BY TypeStep, ControlStep DEF Next
<1>3. CASE Accept
  <2>1. /\ active' = lastAttempt + 1 /\ lastAttempt' = lastAttempt + 1
        /\ lastAttempt \in Nat /\ active' \in Attempts
        /\ cancelled' = cancelled /\ owner' = cmd.caller
        /\ watch' = [watch EXCEPT ![active'] =
                       [pc |-> "subscribing", caller |-> cmd.caller]]
    BY <1>3, MaxAttemptAssumption DEF Accept, BeginAuthentication, CanBegin,
       TypeInv, TypeOK, MachineTypeOK, Attempts
  <2>2. /\ \A a \in Attempts : a \in Nat
        /\ watch'[active'].caller = owner'
        /\ \A a \in Attempts \ {active'} : watch'[a] = watch[a]
    BY <2>1, MaxAttemptAssumption DEF TypeInv, TypeOK, Attempts
  <2>3. \A a \in Attempts : a > lastAttempt' => watch'[a].pc = "none" /\ a \notin cancelled'
    BY <2>1, <2>2 DEF TokensFit
  <2>4. active' \notin cancelled'
    BY <2>1, <2>2 DEF TokensFit
  <2>5. ASSUME NEW c \in Calls, call'[c].pc = "interrupting"
        PROVE  /\ call'[c].kind \in {"Begin", "Cancel"}
               /\ call'[c].attempt <= lastAttempt'
               /\ watch'[call'[c].attempt].caller = CallerOf[c]
    <3>1. call'[c] = call[c] /\ call[c].attempt \in Attempts
      BY <1>1, <2>5 DEF TypeInv, TasksFit
    <3>2. /\ call[c].kind \in {"Begin", "Cancel"}
          /\ call[c].attempt <= lastAttempt
          /\ watch[call[c].attempt].caller = CallerOf[c]
      BY <2>5, <3>1 DEF TokensFit
    <3>3. call[c].attempt # active' /\ call[c].attempt <= lastAttempt'
      <4>1. call[c].attempt \in Nat
        BY <2>2, <3>1
      <4>2. \A k \in Nat : k <= lastAttempt => k # active' /\ k <= lastAttempt'
        BY <2>1
      <4> QED
        BY <3>2, <4>1, <4>2
    <3> QED
      BY <2>2, <3>1, <3>2, <3>3
  <2> QED
    BY <2>1, <2>2, <2>3, <2>4, <2>5 DEF TokensFit
<1>4. CASE ~Accept
  <2>1. UNCHANGED <<watch, shutdown, lastAttempt>>
    BY <1>4, AttemptStays DEF ActorStep, HandleCommand, HandleBegin,
       HandleRespond, HandleCancel, HandleResolve, HandleUnavailable,
       HandleFailResolution, HandleStartSession, AcceptFails, Connected,
       IoCancelled, IoFails, Notice, Replied, Answer, Prompt, Ask, Rejected,
       Started, Detach, FinishCancel, Revoke, CancelIo, Stop, IoFrame
  <2>2. \/ owner' = owner /\ cancelled' = cancelled
        \/ owner' = NoCaller /\ cancelled' = cancelled \union {lastAttempt}
    BY <1>4 DEF ActorStep, HandleCommand, HandleBegin, HandleRespond,
       HandleCancel, HandleResolve, HandleUnavailable, HandleFailResolution,
       HandleStartSession, StartCancel, Refuse, AcceptFails, Connected,
       IoCancelled, IoFails, Notice, Replied, Answer, Prompt, Ask, Rejected,
       Started, Reconnect, Detach, FinishCancel, Revoke, CancelIo, Stop,
       DropResources, resourceVars
  <2>3. \A a \in Attempts : a > lastAttempt => a # lastAttempt
    BY DEF TypeInv, TypeOK, MachineTypeOK
  <2>4. ASSUME active' # NoAttempt, active' \in cancelled'
        PROVE  Revocable'
    <3>1. active' = active
      BY <1>4, <2>4, AttemptStays
    <3>2. owner' # NoCaller
      BY <1>2, <2>4 DEF TypeInv, AttemptTracksPhase, ControlInv, ResourcesFollowAttempt
    <3>3. Revocable
      BY <2>2, <2>4, <3>1, <3>2 DEF TokensFit
    <3>4. ASSUME NEW c \in Calls, CallerOf[c] = owner,
                 call[c].pc \in {"sending", "queued"},
                 call[c].kind \in {"Begin", "Cancel"},
                 call[c].kind = "Cancel" => call[c].attempt = active
          PROVE  call'[c] = call[c]
      BY <1>4, <2>4, <3>4, RevokersWait
    <3> QED
      BY <2>1, <2>2, <3>1, <3>2, <3>3, <3>4 DEF Revocable
  <2>5. ASSUME NEW c \in Calls, call'[c].pc = "interrupting"
        PROVE  call'[c] = call[c]
    BY <1>1, <2>5
  <2> QED
    BY <2>1, <2>2, <2>3, <2>4, <2>5 DEF TokensFit
<1> QED
  BY <1>3, <1>4

LEMMA CauseStep ==
  ASSUME TypeInv, ControlInv, CauseInv, [Next]_vars
  PROVE  CauseInv'
<1>1. CASE ActorStep
  BY <1>1, ActorCommands, ActorTokens DEF CauseInv
<1>2. CASE Surroundings
  BY <1>2, SurroundingsCommands, SurroundingsTokens DEF CauseInv
<1> QED
  BY <1>1, <1>2, StepSplit

LEMMA CauseInvariant == Spec => [](TypeInv /\ ControlInv /\ CauseInv)
<1>1. Init => TypeInv /\ ControlInv /\ CauseInv
  BY TypeInit, ControlInit, CauseInit
<1>2. TypeInv /\ ControlInv /\ CauseInv /\ [Next]_vars
        => (TypeInv /\ ControlInv /\ CauseInv)'
  BY TypeStep, ControlStep, CauseStep
<1> QED
  BY <1>1, <1>2, PTL DEF Spec

\* A Begin or Cancel that ends the current attempt came from its owner or from
\* the watcher of its owner.
LEMMA QueuedRevokes ==
  ASSUME TypeInv, CommandsFit, queue # <<>>, phase \in ActivePhases,
         Head(queue).caller = owner,
         \/ Head(queue).kind = "Begin"
         \/ Head(queue).kind = "Cancel" /\ Head(queue).attempt = active
  PROVE  Revocable
<1> DEFINE m == Head(queue)
<1>1. 1 \in DOMAIN queue /\ m = queue[1]
  BY DEF TypeInv, TypeOK
<1>2. CASE m.call = NoCall
  BY <1>1, <1>2 DEF CommandsFit, Revocable
<1>3. CASE m.call # NoCall
  <2>1. m.call \in Calls
    BY <1>1, <1>3, CommandCalls DEF TypeInv
  <2>2. /\ call[m.call].pc = "queued" /\ call[m.call].kind = m.kind
        /\ call[m.call].attempt = m.attempt /\ CallerOf[m.call] = m.caller
    BY <1>1, <1>3 DEF CommandsFit, FromItsCall
  <2> QED
    BY <2>1, <2>2 DEF Revocable
<1> QED
  BY <1>2, <1>3

LEMMA CancelledStep ==
  ASSUME TypeInv, ControlInv, CauseInv, [Next]_vars,
         phase \in ActivePhases, phase' = "Cancelling"
  PROVE  Revocable
<1> USE DEF CauseInv
<1>1. ActorStep
  <2>1. ~UNCHANGED machineVars
    BY DEF machineVars, ActivePhases
  <2> QED
    BY <2>1, StepSplit, SurroundingsFrame DEF actorOwned
<1>2. active # NoAttempt
  BY DEF TypeInv, AttemptTracksPhase
<1>3. CASE TokenCancelled(active)
  BY <1>2, <1>3 DEF TokenCancelled, TokensFit, Revocable
<1>4. CASE ~TokenCancelled(active)
  <2>1. CASE HandleBegin
    <3>1. /\ queue # <<>> /\ Head(queue).kind = "Begin"
          /\ Head(queue).caller = owner
      BY <2>1, CallersAssumption DEF HandleBegin, Take, Refuse, machineVars,
         ControlInv, ResourcesFollowAttempt, ActivePhases
    <3> QED
      BY <3>1, QueuedRevokes
  <2>2. CASE HandleCancel
    <3>1. /\ queue # <<>> /\ Head(queue).kind = "Cancel"
          /\ Head(queue).caller = owner /\ Head(queue).attempt = active
      BY <2>2 DEF HandleCancel, Take, Refuse, machineVars, ActivePhases
    <3> QED
      BY <3>1, QueuedRevokes
  <2>3. CASE HandleCommand /\ ~HandleBegin /\ ~HandleCancel
    BY <2>3 DEF HandleCommand, HandleRespond, HandleResolve, HandleUnavailable,
       HandleFailResolution, HandleStartSession, Refuse, machineVars,
       ActivePhases, ResponseSubmitted, StartSessionRequested,
       SessionUnavailable, ProtocolFailure, SessionResolved, Transition
  <2>4. CASE Stop
    BY <2>4 DEF Stop, Revocable
  <2>5. CASE Accept \/ AcceptFails \/ Detach \/ FinishCancel \/ Revoke \/ CancelIo
    BY <2>5 DEF Accept, BeginAuthentication, AcceptFails, Refuse, Detach,
       FinishCancel, Revoke, CancelIo, CancellationFinished, Transition,
       machineVars, ActivePhases
  <2>6. CASE \/ Connected \/ IoCancelled \/ IoFails \/ Notice \/ Replied
             \/ Prompt \/ Ask \/ Rejected \/ Started
    BY <1>4, <2>6 DEF Connected, IoCancelled, IoFails, Notice, Replied,
       Answer, Consume, Prompt, Ask, Rejected, Started, Fail, machineVars,
       Transition, ProtocolFailure, AuthenticationSucceeded, AuthMessage,
       PromptNeedsInput, PromptAutoResponse, CredentialRejected,
       AuthenticationFailed, SessionStarted, SessionStartFailed, ActivePhases
  <2> QED
    BY <1>1, <2>1, <2>2, <2>3, <2>4, <2>5, <2>6 DEF ActorStep
<1> QED
  BY <1>3, <1>4

\* No call of another client, no call for an older attempt and no late watcher
\* ever ends the current attempt: whenever cancel_current or a cancelled token
\* does, the owner asked for it, has left, or the process stops.
THEOREM CancelledForOwner == Spec => CancelledOnlyForOwner
<1>1. TypeInv /\ ControlInv /\ CauseInv /\ [Next]_vars =>
        [(phase \in ActivePhases /\ phase' = "Cancelling") => Revocable]_vars
  BY CancelledStep
<1> QED
  BY <1>1, CauseInvariant, PTL DEF Spec, CancelledOnlyForOwner

\* Only a Begin names no attempt.
CancelsNameAttempts ==
  \A c \in Calls :
    /\ call[c].kind = "Cancel"
    /\ call[c].pc \in {"interrupting", "sending", "queued"}
    => call[c].attempt # NoAttempt

LEMMA CancelsStep ==
  ASSUME TypeInv, CancelsNameAttempts, [Next]_vars
  PROVE  CancelsNameAttempts'
<1> USE DEF TypeInv, TypeOK
<1>1. CASE ActorStep
  BY <1>1, AnswerOnly DEF CancelsNameAttempts
<1>2. CASE Surroundings
  <2>1. CASE \E c \in Calls : ClientCall(c) \/ CallStep(c) \/ Send(c)
    <3>1. PICK c \in Calls : ClientCall(c) \/ CallStep(c) \/ Send(c)
      BY <2>1
    <3>2. \A d \in Calls \ {c} : call'[d] = call[d]
      BY <3>1 DEF ClientCall, Invoke, CallStep, Interrupt, SendFails, Lookup,
         Return, Send
    <3>3. CASE ClientCall(c)
      <4>1. PICK kind \in Kinds, a \in Attempts \union {NoAttempt} :
              Invoke(c, kind, a) /\ (kind # "Begin" => a \in Attempts)
        BY <3>3, CallersAssumption DEF ClientCall, Kinds
      <4>2. call'[c].kind = kind /\ (kind # "Begin" => call'[c].attempt = a)
        BY <4>1 DEF Invoke
      <4>3. NoAttempt \notin Attempts
        BY MaxAttemptAssumption DEF Attempts, NoAttempt
      <4> QED
        BY <3>2, <4>1, <4>2, <4>3 DEF CancelsNameAttempts
    <3>4. CASE Interrupt(c) \/ Send(c)
      <4>1. /\ call'[c].kind = call[c].kind /\ call'[c].attempt = call[c].attempt
            /\ call[c].pc \in {"interrupting", "sending"}
        BY <3>4 DEF Interrupt, Send, CallState
      <4> QED
        BY <3>2, <4>1 DEF CancelsNameAttempts
    <3>5. CASE SendFails(c) \/ Return(c)
      <4>1. CASE SendFails(c)
        <5>1. call'[c].pc = "replied"
          BY <4>1 DEF SendFails, Settled, IdleCall
        <5> QED
          BY <3>2, <5>1 DEF CancelsNameAttempts
      <4>2. CASE Return(c)
        <5>1. call'[c].pc = "idle"
          BY <4>2 DEF Return, IdleCall
        <5> QED
          BY <3>2, <5>1 DEF CancelsNameAttempts
      <4> QED
        BY <3>5, <4>1, <4>2
    <3>6. CASE Lookup(c)
      <4>1. PICK kind \in {"StartSession", "Unavailable", "FailResolution"} :
              call' = [call EXCEPT ![c] = [call[c] EXCEPT !.pc = "sending", !.kind = kind]]
        BY <3>6 DEF Lookup
      <4>2. call'[c].kind = kind
        BY <4>1 DEF CallState
      <4> QED
        BY <3>2, <4>2 DEF CancelsNameAttempts
    <3> QED
      BY <3>1, <3>3, <3>4, <3>5, <3>6 DEF CallStep
  <2>2. CASE \/ \E a \in Attempts : WatcherStep(a) \/ WatcherSends(a)
             \/ \E u \in Callers : Disconnect(u)
             \/ CloseBus \/ StopActor \/ UNCHANGED vars
    <3>1. call' = call
      BY <2>2 DEF WatcherStep, WatcherSubscribes, WatcherRevokes,
         WatcherDismissed, WatcherSends, Disconnect, CloseBus, StopActor,
         sharedVars, clientVars, vars
    <3> QED
      BY <3>1 DEF CancelsNameAttempts
  <2> QED
    BY <1>2, <2>1, <2>2 DEF Surroundings
<1> QED
  BY <1>1, <1>2, StepSplit

LEMMA CancelsInvariant == Spec => []CancelsNameAttempts
<1>1. Init => CancelsNameAttempts
  BY DEF Init, CancelsNameAttempts, IdleCall
<1>2. TypeInv /\ CancelsNameAttempts /\ [Next]_vars => CancelsNameAttempts'
  BY CancelsStep
<1> QED
  BY <1>1, <1>2, InductiveInvariant, PTL DEF Spec

LEMMA CancelAnswered ==
  ASSUME TypeInv, ControlInv, CauseInv, CancelsNameAttempts, [Next]_vars,
         NEW c \in Calls, call[c].kind = "Cancel", call[c].pc = "queued",
         call'[c].pc = "replied", call'[c].result = "ok"
  PROVE  active' # call[c].attempt /\ phase' = "Idle"
<1> USE DEF CauseInv
<1>1. ActorStep
  <2>1. Surroundings => call'[c] = call[c] \/ call[c].pc # "queued"
    <3>1. CASE \E d \in Calls : ClientCall(d) \/ CallStep(d) \/ Send(d)
      BY <3>1 DEF ClientCall, Invoke, CallStep, Interrupt, SendFails, Lookup,
         Return, Send, TypeInv, TypeOK
    <3>2. CASE \/ \E a \in Attempts : WatcherStep(a) \/ WatcherSends(a)
               \/ \E u \in Callers : Disconnect(u)
               \/ CloseBus \/ StopActor \/ UNCHANGED vars
      BY <3>2 DEF WatcherStep, WatcherSubscribes, WatcherRevokes,
         WatcherDismissed, WatcherSends, Disconnect, CloseBus, StopActor,
         sharedVars, clientVars, vars
    <3> QED
      BY <3>1, <3>2 DEF Surroundings
  <2> QED
    BY <2>1, StepSplit
<1>2. call \in [Calls -> CallState] /\ NoCall \notin Calls
  BY CallersAssumption DEF TypeInv, TypeOK
<1>3. \A m, r : ReplyTo(m, r) => m.call = c /\ r = "ok"
  <2> SUFFICES ASSUME NEW m, NEW r, ReplyTo(m, r)
               PROVE  m.call = c /\ r = "ok"
    OBVIOUS
  <2>1. m.call = c
    BY DEF ReplyTo
  <2>2. call'[c] = Answered(call[c], r)
    BY <1>2, <2>1 DEF ReplyTo
  <2>3. Answered(call[c], r) = Settled(call[c], r)
    BY DEF Answered
  <2> QED
    BY <2>1, <2>2, <2>3 DEF Settled, IdleCall
<1>4. CASE HandleCommand
  <2> DEFINE m == Head(queue)
  <2>1. m.call = c => m.kind = "Cancel" /\ m.attempt = call[c].attempt
    <3>1. queue # <<>> /\ queue \in Seq(Command)
      BY <1>4 DEF HandleCommand, HandleBegin, HandleRespond, HandleCancel,
         HandleResolve, HandleUnavailable, HandleFailResolution,
         HandleStartSession, Take, TypeInv, TypeOK
    <3>2. 1 \in DOMAIN queue /\ m = queue[1]
      BY <3>1
    <3> QED
      BY <1>2, <3>2 DEF CommandsFit, FromItsCall
  <2>2. \E r : Refuse(m, r) \/ Finish(m, r)
    BY <1>4 DEF HandleCommand, HandleBegin, HandleRespond, HandleCancel,
       HandleResolve, HandleUnavailable, HandleFailResolution,
       HandleStartSession, StartCancel, WaitAt
  <2>3. m.call = c
    BY <1>3, <2>2 DEF Refuse, Finish
  <2>4. HandleCancel
    BY <1>4, <2>1, <2>3 DEF HandleCommand, HandleBegin, HandleRespond,
       HandleResolve, HandleUnavailable, HandleFailResolution,
       HandleStartSession, Take
  <2>5. m.attempt # active /\ Refuse(m, LateCancel(m))
    BY <1>3, <2>4 DEF HandleCancel, Refuse, Finish, StartCancel, WaitAt
  <2>6. LateCancel(m) = "ok"
    BY <1>3, <2>5 DEF Refuse, Finish
  <2> QED
    BY <2>1, <2>3, <2>5, <2>6 DEF LateCancel, Refuse, machineVars
<1>5. CASE ~HandleCommand
  <2>1. \E r : ReplyTo(cmd, r)
    <3>1. ~Exit
      BY <1>2 DEF Exit, Settled, IdleCall
    <3> QED
      BY <1>1, <1>5, <3>1 DEF ActorStep, Accept, AcceptFails, Connected,
         IoCancelled, IoFails, Notice, Replied, Answer, Consume, Prompt, Ask,
         Rejected, Started, Refuse, Finish, Fail, EndWith, StartFinishCancel,
         WaitAt, Detach, FinishCancel, Revoke, CancelIo, AfterCancel, Stop,
         StartCancel
  <2>2. cmd.kind = "Cancel" /\ cmd.call # NoCall
    BY <1>2, <1>3, <2>1 DEF CommandsFit, FromItsCall
  <2>3. pc \notin IoPoints \union {"Prompt", "Ask", "FinishCancel", "Detach", "Accept"}
    BY <2>2 DEF CommandsFit, TypeInv, CommandFits
  <2>4. CASE CancelIo
    BY <2>4 DEF CancelIo, CancellationFinished, Transition, InvalidatingPhases,
       CancelsNameAttempts
  <2>5. CASE Revoke \/ Stop
    <3>1. call' = call \/ Exit
      BY <2>5 DEF Revoke, Stop, StartCancel, WaitAt
    <3> QED
      BY <1>2, <3>1 DEF Exit, Settled, IdleCall
  <2> QED
    BY <1>1, <1>5, <2>3, <2>4, <2>5 DEF ActorStep, Accept, AcceptFails,
       Connected, IoCancelled, IoFails, Notice, Replied, Answer, Prompt, Ask,
       Rejected, Started, Detach, FinishCancel, IoPoints
<1> QED
  BY <1>4, <1>5

\* A Cancel that reports success leaves the backend idle, and its attempt over:
\* validate_cancel_target does not claim what somebody else's failure or
\* handoff did, and cancel_current answers after the cancellation.
THEOREM CancelAnswersFinal == Spec => CancelAnswerIsFinal
<1> DEFINE Final ==
      \A c \in Calls :
        call[c].kind = "Cancel" /\ call[c].pc = "queued"
          /\ call'[c].pc = "replied" /\ call'[c].result = "ok" =>
        active' # call[c].attempt /\ phase' = "Idle"
<1>1. TypeInv /\ ControlInv /\ CauseInv /\ CancelsNameAttempts /\ [Next]_vars
        => [Final]_vars
  BY CancelAnswered
<1> QED
  BY <1>1, CauseInvariant, CancelsInvariant, PTL DEF Spec, CancelAnswerIsFinal

=============================================================================
