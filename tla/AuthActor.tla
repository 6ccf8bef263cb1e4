------------------------------ MODULE AuthActor ------------------------------
(***************************************************************************)
(* The authentication actor of the backend (auth.rs), the D-Bus method     *)
(* tasks and disconnect watchers that talk to it (auth.rs, service.rs),    *)
(* the shutdown of the process that owns it (main.rs), and greetd as the   *)
(* backend uses it (greetd.rs).                                            *)
(*                                                                         *)
(* One step of the actor runs from one await point to the next.  Between   *)
(* two such steps method tasks read the control channel, cancel the token  *)
(* of an attempt and queue commands; watchers do the same when a client    *)
(* leaves the bus.                                                         *)
(***************************************************************************)
EXTENDS AuthStateMachine, Sequences

CONSTANTS
  Callers,      \* D-Bus unique names
  Calls,        \* method tasks: how many calls are in flight at once
  CallerOf,     \* the caller of each task
  Workload,     \* the D-Bus methods each task may be used for
  MayStop,      \* may the process be told to stop at any moment?
  QueueCap,     \* COMMAND_BUFFER
  NoCaller,
  NoCall

ASSUME CallersAssumption ==
  /\ NoCaller \notin Callers
  /\ NoCall \notin Calls
  /\ CallerOf \in [Calls -> Callers]
  /\ Workload \in [Calls -> SUBSET {"Begin", "Respond", "Cancel", "Resolve"}]
  /\ MayStop \in BOOLEAN

ASSUME QueueCapAssumption == QueueCap \in Nat \ {0}

VARIABLES
  \* ActorState.attempt: Some exactly when owner # NoCaller
  owner,          \* AttemptResources.caller
  transport,      \* AttemptResources.transport.is_some()
  userResponded,  \* AttemptResources.user_response_submitted
  \* the task that runs run_actor
  pc,             \* the await point it has reached
  cmd,            \* the command it is processing
  reply,          \* the greetd reply it is acting on
  result,         \* the method result it will send
  \* shared with the method tasks
  control,        \* watch channel of AttemptControl
  cancelled,      \* attempts whose token was cancelled
  queue,          \* mpsc channel of commands
  shutdown,       \* AuthActorTask.shutdown
  \* the tasks around the actor
  call,           \* method tasks
  watch,          \* disconnect watchers, one per attempt
  online,         \* callers connected to the bus
  bus,            \* the backend's own bus connection
  handoff,        \* the handoff notification
  \* greetd
  greetd,         \* the session greetd holds
  request         \* last request written to the open greetd connection

resourceVars == <<owner, transport, userResponded>>
actorVars    == <<pc, cmd, reply, result>>
sharedVars   == <<control, cancelled, queue, shutdown>>
clientVars   == <<call, watch, online, bus, handoff>>
greetdVars   == <<greetd, request>>

vars == <<machineVars, resourceVars, actorVars, sharedVars, clientVars,
          greetdVars>>

-----------------------------------------------------------------------------
(* Types.                                                                  *)

Kinds == {"Begin", "Respond", "Cancel", "Resolve", "Unavailable",
          "FailResolution", "StartSession"}

\* AuthCommand, with the method task that waits for its reply.
Command ==
  [kind: Kinds, call: Calls \union {NoCall}, caller: Callers,
   attempt: Attempts \union {NoAttempt}, allow: BOOLEAN]

\* The cancellation run_actor performs after its loop ended.
StopCommand ==
  [kind |-> "Stop", call |-> NoCall, caller |-> NoCaller,
   attempt |-> NoAttempt, allow |-> FALSE]

NoCommand == [StopCommand EXCEPT !.kind = "None"]

Results == {"none", "ok", "stale", "denied", "invalid", "failed", "down"}

CallState ==
  [pc: {"idle", "interrupting", "sending", "queued", "lookup", "replied"},
   kind: Kinds \union {"None"}, attempt: Attempts \union {NoAttempt},
   allow: BOOLEAN, result: Results]

IdleCall ==
  [pc |-> "idle", kind |-> "None", attempt |-> NoAttempt, allow |-> FALSE,
   result |-> "none"]

Control == [caller: Callers \union {NoCaller},
            attempt: Attempts \union {NoAttempt}]

NoControl == [caller |-> NoCaller, attempt |-> NoAttempt]

Watcher == [pc: {"none", "subscribing", "watching", "revoking", "done"},
            caller: Callers \union {NoCaller}]

\* PAM messages: a question the user answers, a notice, an unsupported type.
Messages == {"question", "notice", "unsupported"}

Errors == {"auth_error", "error"}

Replies == Messages \union Errors \union {"success"}

\* What greetd holds: nothing, a session being authenticated, one that may be
\* started, one that starts when the greeter exits.
GreetdState ==
  [session: {"none", "configuring", "ready", "scheduled"},
   attempt: Attempts \union {NoAttempt}]

NoSession == [session |-> "none", attempt |-> NoAttempt]

\* Await points at which the actor waits for greetd with the attempt's token.
IoPoints == {"Connect", "Create", "Post", "Reject", "Start"}

ActorPoints ==
  IoPoints \union {"Recv", "Accept", "Prompt", "Ask", "FinishCancel",
                   "Detach", "Revoke", "CancelIo", "Done"}

TypeOK ==
  /\ MachineTypeOK
  /\ owner \in Callers \union {NoCaller}
  /\ transport \in BOOLEAN
  /\ userResponded \in BOOLEAN
  /\ pc \in ActorPoints
  /\ cmd \in Command \union {StopCommand, NoCommand}
  /\ reply \in Replies \union {"none"}
  /\ result \in Results
  /\ control \in Control
  /\ cancelled \in SUBSET Attempts
  /\ queue \in Seq(Command)
  /\ shutdown \in BOOLEAN
  /\ call \in [Calls -> CallState]
  /\ watch \in [Attempts -> Watcher]
  /\ online \in SUBSET Callers
  /\ bus \in {"open", "closed"}
  /\ handoff \in BOOLEAN
  /\ greetd \in GreetdState
  /\ request \in {"none", "create", "post", "start", "cancel"}

Init ==
  /\ MachineInit
  /\ owner = NoCaller
  /\ transport = FALSE
  /\ userResponded = FALSE
  /\ pc = "Recv"
  /\ cmd = NoCommand
  /\ reply = "none"
  /\ result = "none"
  /\ control = NoControl
  /\ cancelled = {}
  /\ queue = <<>>
  /\ shutdown = FALSE
  /\ call = [c \in Calls |-> IdleCall]
  /\ watch = [a \in Attempts |-> [pc |-> "none", caller |-> NoCaller]]
  /\ online = Callers
  /\ bus = "open"
  /\ handoff = FALSE
  /\ greetd = NoSession
  /\ request = "none"

-----------------------------------------------------------------------------
(* D-Bus method tasks.                                                     *)

\* A method task that has its result.
Settled(cs, r) == [IdleCall EXCEPT !.pc = "replied", !.kind = cs.kind, !.result = r]

\* (fault) The token of any attempt is offered to every caller.
InterruptsAnyone(c, kind, a) ==
  /\ kind \in {"Begin", "Cancel"}
  /\ control # NoControl
  /\ kind = "Cancel" => control.attempt = a

\* interrupt_current: does the control channel offer a token to this call?
Interrupts(c, kind, a) ==
  /\ kind \in {"Begin", "Cancel"}
  /\ control.caller = CallerOf[c]
  /\ kind = "Cancel" => control.attempt = a

\* A client calls BeginAuthentication, Respond, Cancel or StartSession.  Begin
\* and Cancel first look up the token of the current attempt; the call
\* remembers whose token it is going to cancel.
Invoke(c, kind, a) ==
  /\ call[c].pc = "idle"
  /\ CallerOf[c] \in online
  /\ bus = "open"
  /\ call' = [call EXCEPT ![c] =
       [pc      |-> IF Interrupts(c, kind, a) THEN "interrupting" ELSE "sending",
        kind    |-> kind,
        attempt |-> IF kind = "Begin" /\ Interrupts(c, kind, a)
                      THEN control.attempt ELSE a,
        allow   |-> kind = "Cancel" /\ Interrupts(c, kind, a),
        result  |-> "none"]]
  /\ UNCHANGED <<machineVars, resourceVars, actorVars, sharedVars, watch,
                 online, bus, handoff, greetdVars>>

\* Only a Begin names no attempt.
ClientCall(c) ==
  \/ "Begin" \in Workload[c] /\ Invoke(c, "Begin", NoAttempt)
  \/ \E kind \in Workload[c] \ {"Begin"}, a \in Attempts : Invoke(c, kind, a)

\* The token is cancelled before the command is queued.
Interrupt(c) ==
  /\ call[c].pc = "interrupting"
  /\ cancelled' = cancelled \union {call[c].attempt}
  /\ call' = [call EXCEPT ![c].pc = "sending"]
  /\ UNCHANGED <<machineVars, resourceVars, actorVars, control, queue,
                 shutdown, watch, online, bus, handoff, greetdVars>>

\* send_command waits for room in the channel; a stopped actor has closed it.
Send(c) ==
  /\ call[c].pc = "sending"
  /\ pc # "Done"
  /\ Len(queue) < QueueCap
  /\ queue' = Append(queue,
       [kind |-> call[c].kind, call |-> c, caller |-> CallerOf[c],
        attempt |-> call[c].attempt, allow |-> call[c].allow])
  /\ call' = [call EXCEPT ![c].pc = "queued"]
  /\ UNCHANGED <<machineVars, resourceVars, actorVars, control, cancelled,
                 shutdown, watch, online, bus, handoff, greetdVars>>

SendFails(c) ==
  /\ call[c].pc = "sending"
  /\ pc = "Done"
  /\ call' = [call EXCEPT ![c] = Settled(call[c], "down")]
  /\ UNCHANGED <<machineVars, resourceVars, actorVars, sharedVars, watch,
                 online, bus, handoff, greetdVars>>

\* StartSession looks the session up outside the actor, between two commands.
Lookup(c) ==
  /\ call[c].pc = "lookup"
  /\ \E kind \in {"StartSession", "Unavailable", "FailResolution"} :
       call' = [call EXCEPT ![c].pc = "sending", ![c].kind = kind]
  /\ UNCHANGED <<machineVars, resourceVars, actorVars, sharedVars, watch,
                 online, bus, handoff, greetdVars>>

\* (fault) Nobody is told that a session was started.
ReturnForgetsHandoff(c) ==
  /\ call[c].pc = "replied"
  /\ call' = [call EXCEPT ![c] = IdleCall]
  /\ UNCHANGED <<machineVars, resourceVars, actorVars, sharedVars, watch,
                 online, bus, handoff, greetdVars>>

\* The reply reaches the bus; that of a successful StartSession also asks the
\* process to exit.
Return(c) ==
  /\ call[c].pc = "replied"
  /\ handoff' = (handoff \/ (call[c].kind = "StartSession" /\ call[c].result = "ok"))
  /\ call' = [call EXCEPT ![c] = IdleCall]
  /\ UNCHANGED <<machineVars, resourceVars, actorVars, sharedVars, watch,
                 online, bus, greetdVars>>

\* A method task after the actor answered it with r: ResolveSession goes on
\* with the lookup, the two reports of a failed lookup end in an error.
Answered(cs, r) ==
  CASE cs.kind = "Resolve" /\ r = "ok" -> [cs EXCEPT !.pc = "lookup"]
    [] cs.kind \in {"Unavailable", "FailResolution"} /\ r = "ok" ->
         Settled(cs, "failed")
    [] OTHER -> Settled(cs, r)

ReplyTo(m, r) ==
  call' = IF m.call = NoCall THEN call
          ELSE [call EXCEPT ![m.call] = Answered(call[m.call], r)]

-----------------------------------------------------------------------------
(* Clients and watchers.                                                   *)

Disconnect(u) ==
  /\ u \in online
  /\ online' = online \ {u}
  /\ UNCHANGED <<machineVars, resourceVars, actorVars, sharedVars, call,
                 watch, bus, handoff, greetdVars>>

Gone(u) == u \notin online \/ bus = "closed"

\* The watcher subscribed and then still found the caller on the bus.
WatcherSubscribes(a) ==
  /\ watch[a].pc = "subscribing"
  /\ ~Gone(watch[a].caller)
  /\ watch' = [watch EXCEPT ![a].pc = "watching"]
  /\ UNCHANGED <<machineVars, resourceVars, actorVars, sharedVars, call,
                 online, bus, handoff, greetdVars>>

\* The subscription failed, or the caller is gone: the watcher cancels the
\* token, and then the attempt through the queue.
WatcherRevokes(a) ==
  /\ \/ watch[a].pc = "subscribing"
     \/ watch[a].pc = "watching" /\ Gone(watch[a].caller)
  /\ cancelled' = cancelled \union {a}
  /\ watch' = [watch EXCEPT ![a].pc = "revoking"]
  /\ UNCHANGED <<machineVars, resourceVars, actorVars, control, queue,
                 shutdown, call, online, bus, handoff, greetdVars>>

\* (fault) The watcher cancels the token and leaves the rest to the I/O.
WatcherSendsNothing(a) ==
  /\ watch[a].pc = "revoking"
  /\ watch' = [watch EXCEPT ![a].pc = "done"]
  /\ UNCHANGED <<machineVars, resourceVars, actorVars, sharedVars, call,
                 online, bus, handoff, greetdVars>>

\* A stopped actor has closed the channel: nothing is left to cancel.
WatcherSends(a) ==
  /\ watch[a].pc = "revoking"
  /\ \/ /\ pc # "Done"
        /\ Len(queue) < QueueCap
        /\ queue' = Append(queue,
             [kind |-> "Cancel", call |-> NoCall, caller |-> watch[a].caller,
              attempt |-> a, allow |-> FALSE])
     \/ pc = "Done" /\ queue' = queue
  /\ watch' = [watch EXCEPT ![a].pc = "done"]
  /\ UNCHANGED <<machineVars, resourceVars, actorVars, control, cancelled,
                 shutdown, call, online, bus, handoff, greetdVars>>

\* Dropping the resources of an attempt cancels the token of its watcher.
WatcherDismissed(a) ==
  /\ watch[a].pc = "watching"
  /\ owner = NoCaller \/ lastAttempt # a
  /\ watch' = [watch EXCEPT ![a].pc = "done"]
  /\ UNCHANGED <<machineVars, resourceVars, actorVars, sharedVars, call,
                 online, bus, handoff, greetdVars>>

-----------------------------------------------------------------------------
(* The process: run() of main.rs closes the connection, then stops the     *)
(* actor.                                                                  *)

\* SIGINT, SIGTERM or the loss of the bus; or the handoff notification.
CloseBus ==
  /\ bus = "open"
  /\ bus' = "closed"
  /\ UNCHANGED <<machineVars, resourceVars, actorVars, sharedVars, call,
                 watch, online, handoff, greetdVars>>

HandoffExit == handoff /\ CloseBus

StopActor ==
  /\ bus = "closed"
  /\ ~shutdown
  /\ shutdown' = TRUE
  /\ UNCHANGED <<machineVars, resourceVars, actorVars, control, cancelled,
                 queue, clientVars, greetdVars>>

-----------------------------------------------------------------------------
(* Pieces of the actor's handlers.                                         *)

\* The attempt tokens are children of the shutdown token.
TokenCancelled(a) == shutdown \/ a \in cancelled

\* The next command, while the biased select does not see the shutdown.
Take(kind) ==
  /\ pc = "Recv"
  /\ ~shutdown
  /\ queue # <<>>
  /\ Head(queue).kind = kind
  /\ queue' = Tail(queue)

\* The command is answered and the actor returns to its loop.
Finish(m, r) ==
  /\ pc' = "Recv"
  /\ cmd' = NoCommand
  /\ reply' = "none"
  /\ result' = "none"
  /\ ReplyTo(m, r)

\* A command is refused before it changes anything.
Refuse(m, r) ==
  /\ Finish(m, r)
  /\ UNCHANGED <<machineVars, resourceVars, control, cancelled, greetdVars>>

\* (fault) The owner's call counts for whatever attempt is current.
RefusalIgnoresAttempt(m, required) ==
  IF m.caller # owner         THEN "denied"
  ELSE IF phase # required    THEN "invalid"
  ELSE "none"

\* validate_owned_attempt, then require_state.
Refusal(m, required) ==
  IF m.attempt # active       THEN "stale"
  ELSE IF m.caller # owner    THEN "denied"
  ELSE IF phase # required    THEN "invalid"
  ELSE "none"

Owned(m, required) == Refusal(m, required) = "none"

\* The handler waits at the next await point for the command it processes.
WaitAt(point, m) ==
  /\ pc' = point
  /\ cmd' = m
  /\ UNCHANGED <<result, call>>

\* The transaction ended: the resources are detached after the signal.
EndWith(r) ==
  /\ pc' = "Detach"
  /\ reply' = "none"
  /\ result' = r
  /\ UNCHANGED <<cmd, call>>

\* fail_transaction
Fail == ProtocolFailure /\ EndWith("failed")

\* finish_cancellation, up to the signal that announces Cancelling.
StartFinishCancel ==
  /\ CancelRequested
  /\ pc' = "FinishCancel"
  /\ reply' = "none"
  /\ UNCHANGED <<cmd, result, call>>

\* (fault) The socket is left to the next attempt.
DropResourcesKeepsSocket ==
  /\ owner' = NoCaller
  /\ userResponded' = FALSE
  /\ control' = NoControl
  /\ cancelled' = cancelled \union {lastAttempt}
  /\ UNCHANGED <<transport, request>>

\* (fault) The token of the finished attempt stays published.
DropResourcesKeepsControl ==
  /\ owner' = NoCaller
  /\ transport' = FALSE
  /\ request' = "none"
  /\ userResponded' = FALSE
  /\ cancelled' = cancelled \union {lastAttempt}
  /\ UNCHANGED control

\* detach_resources: dropping them cancels the token of the attempt and closes
\* the greetd connection.
DropResources ==
  /\ owner' = NoCaller
  /\ transport' = FALSE
  /\ request' = "none"
  /\ userResponded' = FALSE
  /\ control' = NoControl
  /\ cancelled' = cancelled \union {lastAttempt}

-----------------------------------------------------------------------------
(* greetd, as the backend relies on it (external).  Dropping the socket    *)
(* does not release a session; while greetd holds one it refuses to        *)
(* create another.                                                         *)

Holds(session) == greetd' = [session |-> session, attempt |-> active]

Serves(req, answer) ==
  \/ /\ req = "create"
     /\ \/ greetd = NoSession /\ answer # "success" /\ Holds("configuring")
        \/ greetd = NoSession /\ answer = "success" /\ Holds("ready")
        \/ greetd # NoSession /\ answer = "error" /\ UNCHANGED greetd
  \/ /\ req = "post"
     /\ \/ greetd.session = "configuring" /\ answer # "success" /\ UNCHANGED greetd
        \/ greetd.session = "configuring" /\ answer = "success" /\ Holds("ready")
        \/ greetd.session # "configuring" /\ answer = "error" /\ UNCHANGED greetd
  \/ /\ req = "start"
     /\ \/ greetd.session = "ready" /\ answer = "success"
           /\ greetd' = [greetd EXCEPT !.session = "scheduled"]
        \/ answer \in Errors \union {"question"} /\ UNCHANGED greetd
  \/ /\ req = "cancel"
     /\ \/ answer = "success"
           /\ greetd' = IF greetd.session = "scheduled" THEN greetd ELSE NoSession
        \/ answer \in {"error", "question"} /\ UNCHANGED greetd

\* The backend stops waiting for its request: greetd may have served it.
Abandon(req) ==
  UNCHANGED greetd \/ \E answer \in Replies : Serves(req, answer)

RequestAt ==
  [Connect |-> "none", Create |-> "create", Post |-> "post",
   Reject |-> "cancel", Start |-> "start"]

-----------------------------------------------------------------------------
(* The actor: commands.                                                    *)

\* cancel_current begins: Cancelling is published before the resources go.
StartCancel(m) ==
  /\ CancelRequested
  /\ WaitAt("Revoke", m)
  /\ UNCHANGED <<reply, resourceVars, control, cancelled, greetdVars>>

\* (fault) An attempt is replaced without being cancelled.
HandleBeginSkipsCancel ==
  /\ Take("Begin")
  /\ LET m == Head(queue) IN
       \/ /\ owner \notin {NoCaller, m.caller}
          /\ Refuse(m, "denied")
       \/ /\ owner \in {NoCaller, m.caller}
          /\ WaitAt("Accept", m)
          /\ UNCHANGED <<machineVars, reply, resourceVars, control, cancelled,
                         greetdVars>>
  /\ UNCHANGED <<shutdown, watch, online, bus, handoff>>

\* create_attempt: another caller's attempt is left alone, one's own is
\* cancelled first.
HandleBegin ==
  /\ Take("Begin")
  /\ LET m == Head(queue) IN
       \/ /\ owner \notin {NoCaller, m.caller}
          /\ Refuse(m, "denied")
       \/ /\ owner \in {NoCaller, m.caller}
          /\ phase \in ActivePhases
          /\ StartCancel(m)
       \/ /\ owner \in {NoCaller, m.caller}
          /\ phase \notin ActivePhases
          /\ WaitAt("Accept", m)
          /\ UNCHANGED <<machineVars, reply, resourceVars, control, cancelled,
                         greetdVars>>
  /\ UNCHANGED <<shutdown, watch, online, bus, handoff>>

\* The attempt exists, its token is published, its watcher runs, and the call
\* is answered before any greetd I/O.
Accept ==
  /\ pc = "Accept"
  /\ BeginAuthentication
  /\ owner' = cmd.caller
  /\ transport' = FALSE
  /\ userResponded' = FALSE
  /\ control' = [caller |-> cmd.caller, attempt |-> active']
  /\ watch' = [watch EXCEPT ![active'] =
                 [pc |-> "subscribing", caller |-> cmd.caller]]
  /\ ReplyTo(cmd, "ok")
  /\ pc' = "Connect"
  /\ cmd' = [cmd EXCEPT !.call = NoCall, !.attempt = active']
  /\ UNCHANGED <<reply, result, cancelled, queue, shutdown, online, bus,
                 handoff, greetdVars>>

AcceptFails ==
  /\ pc = "Accept"
  /\ ~CanBegin
  /\ Refuse(cmd, "failed")
  /\ UNCHANGED <<queue, shutdown, watch, online, bus, handoff>>

HandleRespond ==
  /\ Take("Respond")
  /\ LET m == Head(queue) IN
       \/ /\ Refusal(m, "WaitingForInput") # "none"
          /\ Refuse(m, Refusal(m, "WaitingForInput"))
       \/ /\ Owned(m, "WaitingForInput")
          /\ ResponseSubmitted
          /\ userResponded' = TRUE
          /\ request' = "post"
          /\ WaitAt("Post", m)
          /\ UNCHANGED <<reply, owner, transport, control, cancelled, greetd>>
  /\ UNCHANGED <<shutdown, watch, online, bus, handoff>>

\* (fault) A Cancel that found its attempt's token never comes too late.
LateCancelAlwaysOk(m) == IF m.allow THEN "ok" ELSE "stale"

\* A Cancel whose attempt is over succeeds if it cancelled the token itself
\* and the cancellation was completed.
LateCancel(m) == IF m.allow /\ phase = "Idle" THEN "ok" ELSE "stale"

\* validate_cancel_target and the owner check of cancel_current.
HandleCancel ==
  /\ Take("Cancel")
  /\ LET m == Head(queue) IN
       \/ /\ m.attempt # active
          /\ Refuse(m, LateCancel(m))
       \/ /\ m.attempt = active
          /\ m.caller # owner
          /\ Refuse(m, "denied")
       \/ /\ m.attempt = active
          /\ m.caller = owner
          /\ StartCancel(m)
  /\ UNCHANGED <<shutdown, watch, online, bus, handoff>>

HandleResolve ==
  /\ Take("Resolve")
  /\ LET m == Head(queue) IN
       \/ /\ Refusal(m, "Authenticated") # "none"
          /\ Refuse(m, Refusal(m, "Authenticated"))
       \/ /\ Owned(m, "Authenticated")
          /\ StartSessionRequested
          /\ Finish(m, "ok")
          /\ UNCHANGED <<resourceVars, control, cancelled, greetdVars>>
  /\ UNCHANGED <<shutdown, watch, online, bus, handoff>>

HandleUnavailable ==
  /\ Take("Unavailable")
  /\ LET m == Head(queue) IN
       \/ /\ Refusal(m, "ResolvingSession") # "none"
          /\ Refuse(m, Refusal(m, "ResolvingSession"))
       \/ /\ Owned(m, "ResolvingSession")
          /\ SessionUnavailable
          /\ Finish(m, "ok")
          /\ UNCHANGED <<resourceVars, control, cancelled, greetdVars>>
  /\ UNCHANGED <<shutdown, watch, online, bus, handoff>>

HandleFailResolution ==
  /\ Take("FailResolution")
  /\ LET m == Head(queue) IN
       \/ /\ Refusal(m, "ResolvingSession") # "none"
          /\ Refuse(m, Refusal(m, "ResolvingSession"))
       \/ /\ Owned(m, "ResolvingSession")
          /\ ProtocolFailure
          /\ pc' = "Detach"
          /\ cmd' = m
          /\ result' = "ok"
          /\ UNCHANGED <<reply, call, resourceVars, control, cancelled, greetdVars>>
  /\ UNCHANGED <<shutdown, watch, online, bus, handoff>>

HandleStartSession ==
  /\ Take("StartSession")
  /\ LET m == Head(queue) IN
       \/ /\ Refusal(m, "ResolvingSession") # "none"
          /\ Refuse(m, Refusal(m, "ResolvingSession"))
       \/ /\ Owned(m, "ResolvingSession")
          /\ SessionResolved
          /\ request' = "start"
          /\ WaitAt("Start", m)
          /\ UNCHANGED <<reply, resourceVars, control, cancelled, greetd>>
  /\ UNCHANGED <<shutdown, watch, online, bus, handoff>>

-----------------------------------------------------------------------------
(* The actor: greetd I/O.                                                  *)

\* What no step of the I/O handlers touches.
IoFrame == UNCHANGED <<queue, shutdown, watch, online, bus, handoff>>

Connected ==
  /\ pc = "Connect"
  /\ transport' = TRUE
  /\ pc' = "Create"
  /\ request' = "create"
  /\ UNCHANGED <<machineVars, owner, userResponded, cmd, reply, result, call,
                 control, cancelled, greetd>>
  /\ IoFrame

\* The attempt's token won the select against the transfer.
IoCancelled ==
  /\ pc \in IoPoints
  /\ TokenCancelled(active)
  /\ Abandon(RequestAt[pc])
  /\ StartFinishCancel
  /\ UNCHANGED <<resourceVars, control, cancelled, request>>
  /\ IoFrame

\* Timeout, EOF, a malformed frame, a socket that cannot be reached.
IoFails ==
  /\ pc \in IoPoints
  /\ Abandon(RequestAt[pc])
  /\ Fail
  /\ UNCHANGED <<resourceVars, control, cancelled, request>>
  /\ IoFrame

\* The head of consume_response.
Consume(answer) ==
  \/ TokenCancelled(active) /\ StartFinishCancel /\ UNCHANGED request
  \/ /\ ~TokenCancelled(active)
     /\ answer = "success"
     /\ AuthenticationSucceeded
     /\ Finish(cmd, "ok")
     /\ UNCHANGED request
  \/ /\ ~TokenCancelled(active)
     /\ answer \in Messages
     /\ AuthMessage
     /\ reply' = answer
     /\ WaitAt("Prompt", cmd)
     /\ UNCHANGED request
  \/ /\ ~TokenCancelled(active)
     /\ answer \in Errors
     /\ reply' = answer
     /\ request' = "cancel"
     /\ WaitAt("Reject", cmd)
     /\ UNCHANGED machineVars

Answer(answer) ==
  /\ pc \in {"Create", "Post"}
  /\ Serves(RequestAt[pc], answer)
  /\ Consume(answer)
  /\ UNCHANGED <<resourceVars, control, cancelled>>
  /\ IoFrame

\* Notices are acknowledged at once; greetd decides how many there are.
Notice == Answer("notice")

Replied == \E answer \in Replies \ {"notice"} : Answer(answer)

\* The signals of PromptPending went out: the token is checked again.
Prompt ==
  /\ pc = "Prompt"
  /\ \/ TokenCancelled(active) /\ StartFinishCancel /\ UNCHANGED request
     \/ /\ ~TokenCancelled(active)
        /\ reply = "question"
        /\ PromptNeedsInput
        /\ reply' = "none"
        /\ WaitAt("Ask", cmd)
        /\ UNCHANGED request
     \/ /\ ~TokenCancelled(active)
        /\ reply = "notice"
        /\ PromptAutoResponse
        /\ reply' = "none"
        /\ request' = "post"
        /\ WaitAt("Post", cmd)
     \/ /\ ~TokenCancelled(active)
        /\ reply = "unsupported"
        /\ Fail
        /\ UNCHANGED request
  /\ UNCHANGED <<resourceVars, control, cancelled, greetd>>
  /\ IoFrame

\* WaitingForInput was announced; the command ends unless it was cancelled.
Ask ==
  /\ pc = "Ask"
  /\ \/ TokenCancelled(active) /\ StartFinishCancel
     \/ ~TokenCancelled(active) /\ Finish(cmd, "ok") /\ UNCHANGED machineVars
  /\ UNCHANGED <<resourceVars, control, cancelled, greetdVars>>
  /\ IoFrame

\* (fault) Every rejection restarts the conversation.
RetryableAlways == reply = "auth_error"

\* A rejection restarts the conversation only if the user answered in it.
Retryable == reply = "auth_error" /\ userResponded

\* (fault) The new conversation inherits the answers of the rejected one.
ReconnectKeepsAnswers ==
  /\ transport' = FALSE
  /\ request' = "none"
  /\ UNCHANGED userResponded

\* What a retry drops before it connects again.
Reconnect ==
  /\ transport' = FALSE
  /\ request' = "none"
  /\ userResponded' = FALSE

\* The rejected greetd session was cancelled: retry, or give the attempt up.
Rejected ==
  /\ pc = "Reject"
  /\ \/ /\ Serves("cancel", "success")
        /\ Retryable
        /\ CredentialRejected
        /\ Reconnect
        /\ reply' = "none"
        /\ WaitAt("Connect", cmd)
     \/ /\ Serves("cancel", "success")
        /\ ~Retryable
        /\ AuthenticationFailed
        /\ EndWith("failed")
        /\ UNCHANGED <<transport, userResponded, request>>
     \/ /\ \E answer \in Replies \ {"success"} : Serves("cancel", answer)
        /\ Fail
        /\ UNCHANGED <<transport, userResponded, request>>
  /\ UNCHANGED <<owner, control, cancelled>>
  /\ IoFrame

\* (fault) Any answer but a message counts as a started session.
StartedIgnoresErrors ==
  /\ pc = "Start"
  /\ \/ /\ \E answer \in Errors \union {"success"} : Serves("start", answer)
        /\ SessionStarted
        /\ EndWith("ok")
     \/ /\ \E answer \in Messages : Serves("start", answer)
        /\ Fail
  /\ UNCHANGED <<resourceVars, control, cancelled, request>>
  /\ IoFrame

\* start_session is not followed by a check of the token.
Started ==
  /\ pc = "Start"
  /\ \/ /\ Serves("start", "success")
        /\ SessionStarted
        /\ EndWith("ok")
     \/ /\ \E answer \in Errors : Serves("start", answer)
        /\ SessionStartFailed
        /\ EndWith("failed")
     \/ /\ \E answer \in Messages : Serves("start", answer)
        /\ Fail
  /\ UNCHANGED <<resourceVars, control, cancelled, request>>
  /\ IoFrame

-----------------------------------------------------------------------------
(* The actor: the end of an attempt.                                       *)

\* Failed or HandingOff was announced.
Detach ==
  /\ pc = "Detach"
  /\ DropResources
  /\ Finish(cmd, result)
  /\ UNCHANGED <<machineVars, greetd>>
  /\ IoFrame

\* The second half of finish_cancellation: the socket is closed, nothing more
\* is written to it.
FinishCancel ==
  /\ pc = "FinishCancel"
  /\ DropResources
  /\ CancellationFinished
  /\ Finish(cmd, "failed")
  /\ UNCHANGED greetd
  /\ IoFrame

\* cancel_current takes the resources, and keeps the socket for one exchange
\* that the cancelled token cannot interrupt.
Revoke ==
  /\ pc = "Revoke"
  /\ owner' = NoCaller
  /\ userResponded' = FALSE
  /\ control' = NoControl
  /\ cancelled' = cancelled \union {lastAttempt}
  /\ request' = IF transport THEN "cancel" ELSE request
  /\ pc' = "CancelIo"
  /\ UNCHANGED <<machineVars, transport, cmd, reply, result, call, greetd>>
  /\ IoFrame

\* (fault) The queued calls are forgotten.
ExitForgetsCalls ==
  /\ pc' = "Done"
  /\ cmd' = NoCommand
  /\ queue' = <<>>
  /\ UNCHANGED <<reply, result, call>>

\* Dropping the receiver drops the commands that are still queued, and with
\* them the reply channels their calls wait on.
Exit ==
  /\ pc' = "Done"
  /\ cmd' = NoCommand
  /\ queue' = <<>>
  /\ call' = [c \in Calls |->
       IF call[c].pc = "queued"
         THEN Settled(call[c], "down")
         ELSE call[c]]
  /\ UNCHANGED <<reply, result>>

\* What cancel_current was called for goes on with its result r.
AfterCancel(r) ==
  \/ cmd.kind = "Cancel" /\ Finish(cmd, r) /\ UNCHANGED queue
  \/ cmd.kind = "Begin" /\ r = "ok" /\ WaitAt("Accept", cmd) /\ UNCHANGED <<reply, queue>>
  \/ cmd.kind = "Begin" /\ r # "ok" /\ Finish(cmd, r) /\ UNCHANGED queue
  \/ cmd.kind = "Stop" /\ Exit

\* The exchange is bounded by CANCEL_TIMEOUT and its outcome changes nothing
\* but the reply; without a socket there is no exchange.
CancelIo ==
  /\ pc = "CancelIo"
  /\ CancellationFinished
  /\ transport' = FALSE
  /\ request' = "none"
  /\ \/ ~transport /\ UNCHANGED greetd /\ AfterCancel("ok")
     \/ transport /\ Serves("cancel", "success") /\ AfterCancel("ok")
     \/ transport /\ Abandon("cancel") /\ AfterCancel("failed")
  /\ UNCHANGED <<owner, userResponded, control, cancelled, shutdown, watch,
                 online, bus, handoff>>

\* (fault) The actor waits for the conversation to end by itself.
StopWaits ==
  /\ pc = "Recv"
  /\ shutdown
  /\ phase \notin ActivePhases
  /\ Exit
  /\ UNCHANGED <<machineVars, resourceVars, control, cancelled, greetdVars,
                 shutdown, watch, online, bus, handoff>>

\* The loop ends at the shutdown token; the last attempt is cancelled.
Stop ==
  /\ pc = "Recv"
  /\ shutdown
  /\ \/ /\ phase \in ActivePhases
        /\ StartCancel(StopCommand)
        /\ UNCHANGED queue
     \/ /\ phase \notin ActivePhases
        /\ Exit
        /\ UNCHANGED <<machineVars, resourceVars, control, cancelled, greetdVars>>
  /\ UNCHANGED <<shutdown, watch, online, bus, handoff>>

-----------------------------------------------------------------------------

HandleCommand ==
  \/ HandleBegin
  \/ HandleRespond
  \/ HandleCancel
  \/ HandleResolve
  \/ HandleUnavailable
  \/ HandleFailResolution
  \/ HandleStartSession

\* Everything the actor does on its own or because greetd or time lets it.
ActorStep ==
  \/ HandleCommand
  \/ Accept
  \/ AcceptFails
  \/ Connected
  \/ IoCancelled
  \/ IoFails
  \/ Notice
  \/ Replied
  \/ Prompt
  \/ Ask
  \/ Rejected
  \/ Started
  \/ Detach
  \/ FinishCancel
  \/ Revoke
  \/ CancelIo
  \/ Stop

CallStep(c) ==
  \/ Interrupt(c)
  \/ SendFails(c)
  \/ Lookup(c)
  \/ Return(c)

WatcherStep(a) ==
  \/ WatcherSubscribes(a)
  \/ WatcherRevokes(a)
  \/ WatcherDismissed(a)

\* Nothing is in flight: the backend may wait for clients that never come, and
\* a process that has exited stays so.
Rest ==
  /\ pc \in {"Recv", "Done"}
  /\ phase \notin ActivePhases
  /\ queue = <<>>
  /\ \A c \in Calls : call[c].pc = "idle"
  /\ \A a \in Attempts : watch[a].pc \in {"none", "done"}
  /\ UNCHANGED vars

Next ==
  \/ ActorStep
  \/ \E c \in Calls : ClientCall(c) \/ CallStep(c) \/ Send(c)
  \/ \E a \in Attempts : WatcherStep(a) \/ WatcherSends(a)
  \/ \E u \in Callers : Disconnect(u)
  \/ MayStop /\ CloseBus
  \/ HandoffExit
  \/ StopActor
  \/ Rest

Spec == Init /\ [][Next]_vars

\* Greetd I/O is bounded by timeouts, so every await of the actor ends.  The
\* channel serves blocked senders in order: a task that waits for room gets it
\* when room keeps appearing.  PAM does not send notices forever.  Clients,
\* signals and the bus are not fair.
Fairness ==
  /\ WF_vars(ActorStep)
  /\ SF_vars(Replied \/ IoFails)
  /\ \A c \in Calls : WF_vars(CallStep(c)) /\ SF_vars(Send(c))
  /\ \A a \in Attempts : WF_vars(WatcherStep(a)) /\ SF_vars(WatcherSends(a))
  /\ WF_vars(HandoffExit)
  /\ WF_vars(StopActor)

FairSpec == Spec /\ Fairness

-----------------------------------------------------------------------------
(* Safety.                                                                 *)

NoAttemptPhases == {"Idle", "Failed", "HandingOff"}

\* No handler panics: at every await point the machine is in a phase in which
\* the events the handler may raise next are accepted (the `expect`s and
\* `assert`s of auth.rs).  For a rejected credential that needs the last
\* conjunct: the flag that allows a retry is never left over from a
\* conversation that was rejected before.
HandlersFit ==
  /\ pc = "Recv" => phase \in NoAttemptPhases \union
       {"WaitingForInput", "Authenticated", "ResolvingSession"}
  /\ pc \in {"Accept", "Done"} => phase \in NoAttemptPhases
  /\ pc \in {"Connect", "Create"} => phase = "CreatingSession"
  /\ pc = "Post" => phase = "SubmittingResponse"
  /\ pc = "Reject" => reply \in Errors /\ phase \in Conversing
  /\ pc = "Prompt" => reply \in Messages /\ phase = "PromptPending"
  /\ pc = "Ask" => phase = "WaitingForInput"
  /\ pc = "Start" => phase = "StartingSession"
  /\ pc \in {"FinishCancel", "Revoke", "CancelIo"} => phase = "Cancelling"
  /\ pc = "Detach" => phase \in {"Failed", "HandingOff"}
  /\ phase = "CreatingSession" => ~userResponded

\* The resources live exactly as long as the attempt, up to the await at which
\* its end is announced, and a handler that uses the socket has one.  In
\* particular an actor at rest or stopped holds nothing of a finished attempt.
ResourcesFollowAttempt ==
  /\ owner # NoCaller <=>
       phase \in ActivePhases \/ pc \in {"Detach", "FinishCancel", "Revoke"}
  /\ phase \in ActivePhases /\ pc # "Connect" => transport
  /\ transport => owner # NoCaller \/ pc = "CancelIo"
  /\ userResponded => owner # NoCaller

\* The control channel offers the token of the attempt that holds resources to
\* the client that owns it, and nothing otherwise.
ControlFollowsAttempt ==
  control = IF owner = NoCaller THEN NoControl
            ELSE [caller |-> owner, attempt |-> lastAttempt]

\* The backend claims an authenticated attempt only while greetd holds a
\* session that authenticated in that very attempt, and a handoff only for the
\* session it started: no reply is credited to another exchange or attempt.
AuthenticationIsGreetds ==
  /\ phase \in {"Authenticated", "ResolvingSession", "StartingSession"} =>
       greetd = [session |-> "ready", attempt |-> active]
  /\ phase = "HandingOff" =>
       greetd = [session |-> "scheduled", attempt |-> lastAttempt]

\* What a client sends reaches greetd only while the attempt it names is the
\* current one and that client owns it: a lookup, a response or a begin that
\* was overtaken by a newer attempt is never carried out for the newer one.
ForwardsOwnCallsOnly ==
  /\ pc \in IoPoints \union {"Prompt", "Ask"} =>
       /\ cmd.attempt = active
       /\ cmd.caller = owner
  /\ pc = "Start" => cmd.kind = "StartSession"

\* Who may have a revocation of the current attempt under way: the shutdown,
\* the watcher of its owner, or a Begin or Cancel of the owner that is still
\* unanswered.
Revocable ==
  \/ shutdown
  \/ watch[active].pc \in {"revoking", "done"}
  \/ \E c \in Calls :
       /\ CallerOf[c] = owner
       /\ call[c].pc \in {"sending", "queued"}
       /\ call[c].kind = "Cancel" => call[c].attempt = active
       /\ call[c].kind \in {"Begin", "Cancel"}

\* Another client's calls, a call for an older attempt and the late watcher of
\* an older attempt never revoke the current one, in whatever order tokens are
\* cancelled and commands are queued.
CancelledOnlyForOwner ==
  [][(phase \in ActivePhases /\ phase' = "Cancelling") => Revocable]_vars

\* A Cancel that reports success leaves no attempt behind: not its own, and
\* not one that failed or was handed off before the command was processed.
CancelAnswerIsFinal ==
  [][\A c \in Calls :
       call[c].kind = "Cancel" /\ call[c].pc = "queued"
         /\ call'[c].pc = "replied" /\ call'[c].result = "ok" =>
       active' # call[c].attempt /\ phase' = "Idle"]_vars

-----------------------------------------------------------------------------
(* Refinement of LoginContract: the login is open while the machine has an *)
(* active attempt; failed, cancelled and idle machines look the same.      *)

Stage ==
  CASE phase \in {"CreatingSession", "PromptPending", "WaitingForInput",
                  "SubmittingResponse"} -> "conversation"
    [] phase \in {"Authenticated", "ResolvingSession", "StartingSession"} ->
         "authenticated"
    [] phase = "HandingOff" -> "handed"
    [] OTHER -> "closed"

Holder == IF active = NoAttempt THEN NoCaller ELSE owner

Contract == INSTANCE LoginContract
  WITH stage <- Stage, holder <- Holder, current <- active,
       newest <- lastAttempt

\* The actor keeps the promises of the contract: whatever the order of calls,
\* tokens, watchers and greetd's replies, a login opens only after the one
\* before it is closed, changes no holder, and nothing follows a handoff.
KeepsContract == Contract!ContractSpec

-----------------------------------------------------------------------------
(* Liveness.                                                               *)

\* Every method call is answered, whatever it waits for: room in the channel,
\* the commands before it, greetd, a stopped actor.
EveryCallReturns ==
  \A c \in Calls : (call[c].pc # "idle") ~> (call[c].pc = "idle")

\* A client that leaves the bus loses its attempt, even while greetd does not
\* answer or the channel is full.
DisconnectReleases ==
  \A u \in Callers : (owner = u /\ u \notin online) ~> (owner # u)

\* Once the token of an attempt is cancelled the attempt ends.
InterruptedAttemptEnds ==
  \A a \in Attempts : (active = a /\ a \in cancelled) ~> (active # a)

\* A process that closed its bus connection ends: the shutdown interrupts every
\* await of the actor, also the one of the attempt it has to cancel.
ShutdownCompletes == (bus = "closed") ~> (pc = "Done")

\* A session that was handed to greetd makes the process exit, which is what
\* greetd waits for; the client's departure does not prevent it.
HandoffExits == (phase = "HandingOff") ~> (pc = "Done")

\* Conversations are started over and over only if clients keep asking for it:
\* rejections that no user input caused do not restart a login.
RetriesNeedClients ==
  []<>(pc = "Connect") =>
    []<>(\E c \in Calls : call[c].kind \in {"Begin", "Respond"})

-----------------------------------------------------------------------------
(* What the documentation says and the code does not do.                   *)

\* docs/reference/dbus.md: "Any Active State | Cancel(), timeout, or UI
\* disconnect | Cancelling | Transmit cancel_session to greetd if socket is
\* open".
CancelTransmitted ==
  [][phase = "Cancelling" /\ phase' = "Idle" /\ transport =>
       request = "cancel"]_vars

\* docs/reference/dbus.md: "Upon completing cleanup, the backend returns to
\* Idle".
FailedReturnsToIdle == (phase = "Failed") ~> (phase = "Idle")

=============================================================================
