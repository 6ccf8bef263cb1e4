---------------------------- MODULE GreeterSystem ----------------------------
(***************************************************************************)
(* The greeter's user interface and the backend, connected by D-Bus.       *)
(*                                                                         *)
(* The backend is reduced to what its only client can tell apart: the      *)
(* state machine, the command being carried out, the signal each step      *)
(* emits, the reply each call gets.  AuthActor has the rest.  D-Bus keeps  *)
(* the order of signals, and of a reply after the signals emitted before   *)
(* it; a reply may be late, because the task of its call sends it.         *)
(* Where the backend would refuse or interrupt something this client never *)
(* asks for, InvitationsAreLive says that it does not.                     *)
(***************************************************************************)
EXTENDS GreeterFeature, AuthStateMachine

CONSTANTS
  WireCap,      \* bounds the signals on their way
  MaxPrompts,   \* bounds the questions PAM asks
  MayLose       \* whether the interface may lose the bus

ASSUME BoundsAssumption == WireCap \in Nat /\ MaxPrompts \in Nat

VARIABLES
  wire,      \* signals on their way to the interface
  answers,   \* replies of served calls, by slot
  serving,   \* slot of the call whose command is carried out, or 0
  asked,     \* number of the last question PAM asked
  online     \* the interface is connected

backendVars == <<machineVars, serving, asked>>
busVars == <<wire, answers, online>>
vars == <<ui, machineVars, wire, answers, serving, asked, online>>

\* A reply: its result, the value it returns, and the number of signals that go
\* before it.
Answer(result, value, signals) ==
  [result |-> result, value |-> value, after |-> Len(signals)]

NoAnswer == Answer("none", None, <<>>)

Init ==
  /\ FeatureInit
  /\ MachineInit
  /\ wire = <<>>
  /\ answers = [i \in Slots |-> NoAnswer]
  /\ serving = 0
  /\ asked = 0
  /\ online = TRUE

-----------------------------------------------------------------------------
(* The backend.                                                            *)

\* Emits signals, in order.
Emit(signals) ==
  /\ online
  /\ Len(wire) + Len(signals) + Len(ui.queued) <= WireCap
  /\ wire' = wire \o signals
  /\ UNCHANGED <<ui, online>>

\* The command that is carried out ends and its call gets `result`, after the
\* signals emitted so far.
EndCommand(result) ==
  /\ serving' = 0
  /\ answers' = IF serving = 0 THEN answers
                ELSE [answers EXCEPT ![serving] = Answer(result, None, wire')]

\* A call that has not been looked at yet.
Waiting(i, op) ==
  /\ ui.calls[i].op = op
  /\ answers[i] = NoAnswer
  /\ serving # i

\* Where the actor takes commands.  A Begin or Cancel of the owner interrupts
\* what it does elsewhere.
AtRest ==
  /\ serving = 0
  /\ phase \in {"Idle", "Failed", "HandingOff", "WaitingForInput", "Authenticated"}

Refuse(i) ==
  /\ answers' = [answers EXCEPT ![i] = Answer("error", None, wire)]
  /\ UNCHANGED <<ui, wire, online, backendVars>>

\* get_state reads the snapshot channel.
ServeGetState(i) ==
  /\ online
  /\ Waiting(i, "getState")
  /\ answers' = [answers EXCEPT ![i] = Answer("ok", phase, wire)]
  /\ UNCHANGED <<ui, wire, online, backendVars>>

\* The call that was being carried out fails, the one in slot i goes on.
Interrupt(i) ==
  /\ CancelRequested
  /\ Emit(<<StateSignal(active, "Cancelling")>>)
  /\ answers' = IF serving = 0 THEN answers
                ELSE [answers EXCEPT ![serving] = Answer("error", None, wire')]
  /\ serving' = i
  /\ UNCHANGED asked

\* It never has to replace a running conversation; the numbers may be used up.
ServeBegin(i) ==
  \/ /\ Waiting(i, "begin")
     /\ AtRest
     /\ phase \in {"Idle", "Failed"}
     /\ BeginAuthentication
     /\ Emit(<<StateSignal(active', "CreatingSession")>>)
     /\ answers' = [answers EXCEPT ![i] = Answer("ok", active', wire')]
     /\ UNCHANGED <<serving, asked>>
  \/ /\ online
     /\ Waiting(i, "begin")
     /\ AtRest
     /\ ~CanBegin
     /\ Refuse(i)

\* A Cancel that comes too late finds another attempt, or none.
ServeCancel(i) ==
  \/ /\ Waiting(i, "cancel")
     /\ ui.calls[i].key = active
     /\ Interrupt(i)
  \/ /\ online
     /\ Waiting(i, "cancel")
     /\ ui.calls[i].key # active
     /\ AtRest
     /\ Refuse(i)

\* greetd may fail to answer the cancellation, which is then reported.
FinishCancelling ==
  /\ CancellationFinished
  /\ Emit(<<StateSignal(lastAttempt, "Idle")>>)
  /\ \E result \in {"ok", "error"} : EndCommand(result)
  /\ UNCHANGED asked

ServeRespond(i) ==
  /\ Waiting(i, "respond")
  /\ AtRest
  /\ ui.calls[i].key = active
  /\ phase = "WaitingForInput"
  /\ ResponseSubmitted
  /\ Emit(<<StateSignal(active, "SubmittingResponse")>>)
  /\ serving' = i
  /\ UNCHANGED <<answers, asked>>

\* PAM asks a question.
AskInput ==
  /\ PromptNeedsInput
  /\ asked < MaxPrompts
  /\ asked' = asked + 1
  /\ Emit(<<PromptSignal(active, "input", asked'),
            StateSignal(active, "WaitingForInput")>>)
  /\ EndCommand("ok")

\* PAM tells something, which is acknowledged without the user.
Tell(kind) ==
  /\ PromptAutoResponse
  /\ Emit(<<PromptSignal(active, kind, asked),
            StateSignal(active, "SubmittingResponse")>>)
  /\ UNCHANGED <<answers, serving, asked>>

ReceiveMessage ==
  /\ AuthMessage
  /\ Emit(<<StateSignal(active, "PromptPending")>>)
  /\ UNCHANGED <<answers, serving, asked>>

Succeed ==
  /\ AuthenticationSucceeded
  /\ Emit(<<StateSignal(active, "Authenticated")>>)
  /\ EndCommand("ok")
  /\ UNCHANGED asked

\* A rejected answer starts the conversation over; which rejections do so is
\* left open here.
Reject ==
  /\ CredentialRejected
  /\ Emit(<<StateSignal(active, "CreatingSession"),
            PromptSignal(active, "error", asked)>>)
  /\ UNCHANGED <<answers, serving, asked>>

\* greetd fails, rejects the user for good, or does not answer.
Fail ==
  /\ phase \in {"CreatingSession", "PromptPending", "SubmittingResponse",
                "ResolvingSession", "StartingSession"}
  /\ ProtocolFailure
  /\ Emit(<<StateSignal(active, "Failed")>>)
  /\ EndCommand("error")
  /\ UNCHANGED asked

ServeStart(i) ==
  /\ Waiting(i, "start")
  /\ AtRest
  /\ ui.calls[i].key = active
  /\ phase = "Authenticated"
  /\ StartSessionRequested
  /\ Emit(<<StateSignal(active, "ResolvingSession")>>)
  /\ serving' = i
  /\ UNCHANGED <<answers, asked>>

\* The session is no longer listed.
Unavailable ==
  /\ SessionUnavailable
  /\ Emit(<<StateSignal(active, "Authenticated")>>)
  /\ EndCommand("error")
  /\ UNCHANGED asked

Resolve ==
  /\ SessionResolved
  /\ Emit(<<StateSignal(active, "StartingSession")>>)
  /\ UNCHANGED <<answers, serving, asked>>

HandOff ==
  /\ SessionStarted
  /\ Emit(<<StateSignal(lastAttempt, "HandingOff")>>)
  /\ EndCommand("ok")
  /\ UNCHANGED asked

-----------------------------------------------------------------------------
(* The bus.                                                                *)

OneNearer(answer) == [answer EXCEPT !.after = IF @ > 0 THEN @ - 1 ELSE 0]

\* The next event reaches the feature.
Receive ==
  /\ wire # <<>>
  /\ FreeSlots(ui) # {}
  /\ ui' = HandleEvent(ui, Head(wire))
  /\ wire' = Tail(wire)
  /\ answers' = [i \in Slots |-> OneNearer(answers[i])]
  /\ UNCHANGED <<online, backendVars>>

\* The interface loses its connection for good: the gateway opens it once.
\* What the backend does then concerns nobody.
LoseBus ==
  /\ MayLose
  /\ online
  /\ online' = FALSE
  /\ wire' = Append(wire, Disconnected)
  /\ UNCHANGED <<ui, answers, backendVars>>

\* The reply of the call in slot i has come: the backend's, or an error of a
\* connection that is lost.
Reply(i, op) ==
  /\ ui.calls[i].op = op
  /\ answers[i] # NoAnswer
  /\ answers[i].after = 0
  /\ answers' = [answers EXCEPT ![i] = NoAnswer]
  /\ UNCHANGED <<wire, online, backendVars>>

ConnectionLost(i, op) ==
  /\ ~online
  /\ ui.calls[i].op = op
  /\ answers' = [answers EXCEPT ![i] = NoAnswer]
  /\ UNCHANGED <<wire, online, backendVars>>

Succeeded(i) == answers[i].result = "ok"

GetStateReturns(i) ==
  \/ Reply(i, "getState") /\ StateRead(i, answers[i].value)
  \/ ConnectionLost(i, "getState") /\ LoadFailed(i)

BeginReturns(i) ==
  \/ Reply(i, "begin") /\ Begun(i, Succeeded(i), answers[i].value)
  \/ ConnectionLost(i, "begin") /\ Begun(i, FALSE, None)

RespondReturns(i) ==
  \/ Reply(i, "respond") /\ Responded(i, Succeeded(i))
  \/ ConnectionLost(i, "respond") /\ Responded(i, FALSE)

CancelReturns(i) ==
  \/ Reply(i, "cancel") /\ Cancelled(i, Succeeded(i))
  \/ ConnectionLost(i, "cancel") /\ Cancelled(i, FALSE)

StartReturns(i) ==
  \/ Reply(i, "start") /\ StartReturned(i, Succeeded(i))
  \/ ConnectionLost(i, "start") /\ StartReturned(i, FALSE)

\* Calls that do not concern authentication: their replies carry nothing the
\* order of signals could contradict.
Elsewhere(i, op) ==
  /\ ui.calls[i].op = op
  /\ UNCHANGED <<wire, answers, online, backendVars>>

UsersReturn(i) ==
  /\ Elsewhere(i, "listUsers")
  /\ (online /\ UsersListed(i)) \/ LoadFailed(i)

SessionsReturn(i) ==
  /\ Elsewhere(i, "listSessions")
  /\ \/ online /\ \E sessions \in SUBSET Sessions : SessionsListed(i, sessions)
     \/ SessionsFailed(i)

\* The store is a local file that may name a session of long ago.
PreferenceReturns(i) ==
  /\ Elsewhere(i, "readPreference")
  /\ \E stored \in Sessions \union {None} : PreferenceRead(i, stored)

PowerReturns(i) == Elsewhere(i, "powerAction") /\ PowerReturned(i)

-----------------------------------------------------------------------------
(* The user: what the scene offers where.  A theme may offer to load the    *)
(* sessions again at any time; here it does while no conversation is open. *)

\* The window is open and the form is on the screen.
FormVisible == ~ui.exiting /\ ~ui.dormant /\ FreeSlots(ui) # {}

\* The button of an error, or typing into it.
Recover ==
  \/ ui.service = "unavailable" /\ ReconnectService
  \/ ui.mode = "error" /\ ui.recovery = "reconnectService" /\ ReconnectService
  \/ ui.mode = "error" /\ ui.recovery = "retryAuthentication" /\ RetryAuthentication
  \/ ui.mode = "error" /\ ui.recovery = "retryPrompt" /\ RetryPrompt

UserActs ==
  /\ \/ /\ FormVisible
        /\ \/ \E u \in Users : SelectUser(u)
           \/ \E s \in Sessions : SelectSession(s)
           \/ \E blank \in BOOLEAN : RespondToPrompt(blank)
           \/ ui.mode = "sessionSelection" /\ StartSelectedSession
           \/ (ui.catalog = "failed" \/ ui.mode = "userSelection") /\ RetrySessionCatalog
           \/ Recover
           \/ RequestPowerAction
           \/ SleepGreeter
     \/ ~ui.exiting /\ FreeSlots(ui) # {} /\ WakeGreeter
  /\ UNCHANGED <<busVars, backendVars>>

-----------------------------------------------------------------------------

BackendStep ==
  \/ \E i \in Slots :
       ServeGetState(i) \/ ServeBegin(i) \/ ServeCancel(i) \/ ServeRespond(i) \/ ServeStart(i)
  \/ FinishCancelling
  \/ AskInput
  \/ \E kind \in {"info", "error"} : Tell(kind)
  \/ ReceiveMessage
  \/ Succeed
  \/ Reject
  \/ Fail
  \/ Unavailable
  \/ Resolve
  \/ HandOff

ReplyStep(i) ==
  \/ GetStateReturns(i)
  \/ BeginReturns(i)
  \/ RespondReturns(i)
  \/ CancelReturns(i)
  \/ StartReturns(i)
  \/ UsersReturn(i)
  \/ SessionsReturn(i)
  \/ PreferenceReturns(i)
  \/ PowerReturns(i)

\* Nothing is in flight: the interface waits for its user.
Rest ==
  /\ wire = <<>>
  /\ \A i \in Slots : ui.calls[i] = NoCall
  /\ UNCHANGED vars

Next ==
  \/ UserActs
  \/ BackendStep
  \/ Receive
  \/ \E i \in Slots : ReplyStep(i)
  \/ LoseBus
  \/ Rest

Spec == Init /\ [][Next]_vars

-----------------------------------------------------------------------------

CallOps == {"none", "getState", "listUsers", "listSessions", "readPreference",
            "begin", "respond", "cancel", "start", "powerAction"}

PendingCalls(op) == {i \in Slots : ui.calls[i].op = op}

TypeOK ==
  /\ MachineTypeOK
  /\ ui.service \in {"starting", "ready", "unavailable"}
  /\ ui.mode \in {"userSelection", "prompting", "submitting", "sessionSelection",
                  "handingOff", "error"}
  /\ ui.catalog \in {"empty", "loading", "ready", "failed"}
  /\ ui.power \in {"idle", "executing"}
  /\ ui.user \in Users \union {None}
  /\ ui.session \in Sessions \union {None}
  /\ ui.sessions \subseteq Sessions
  /\ ui.prompt = NoPrompt \/ (ui.prompt.attempt \in Attempts
                                /\ ui.prompt.kind \in {"input", "info"})
  /\ ui.promptError \in BOOLEAN
  /\ ui.recovery \in {"none", "retryAuthentication", "retryPrompt", "reconnectService"}
  /\ ui.dormant \in BOOLEAN
  /\ ui.attempt \in Attempts \union {None}
  /\ ui.generation \in 0..MaxLoads
  /\ \A i \in Slots : ui.calls[i].op \in CallOps
  /\ Len(wire) + Len(ui.queued) <= WireCap + 1
  /\ serving \in Slots \union {0}
  /\ asked \in 0..MaxPrompts

\* The interface never asks for something on behalf of an attempt that is over
\* or not its own: an enabled prompt was sent by the attempt the answer will be
\* sent to, and a session is only offered while an attempt is bound.  What it does
\* ask for, the backend can do: nothing is begun over a running conversation, and
\* answers and starts find the attempt they name, waiting for them.  Failures,
\* disconnects, account switches and late replies all have to keep to it.
InvitationsAreLive ==
  /\ ui.mode = "prompting" =>
       ui.attempt # None /\ ui.prompt.attempt = ui.attempt /\ ui.prompt.kind = "input"
  /\ ui.mode = "sessionSelection" => ui.attempt # None
  /\ online => \A i \in Slots :
       /\ Waiting(i, "begin") => phase \notin ActivePhases \cup {"HandingOff"}
       /\ Waiting(i, "respond") => ui.calls[i].key = active /\ phase = "WaitingForInput"
       /\ Waiting(i, "start") => ui.calls[i].key = active /\ phase = "Authenticated"

\* The interface announces a handoff, and closes its window, only when greetd
\* holds the session: whichever of signal and reply comes first.
ExitsOnlyAfterHandoff ==
  ui.exiting \/ ui.mode = "handingOff" => phase = "HandingOff"

\* The chosen session is one of those on the screen, through overlapping loads,
\* reconnects and preferences of long ago.
SelectedSessionIsListed == ui.session # None => ui.session \in ui.sessions

\* The flags that keep a second begin or start from being issued are up exactly
\* while one is pending: no early return, error or replay forgets them, and two
\* starts never overlap.  Only the loss of the bus can leave an old begin behind.
CallsMatchFlags ==
  /\ Cardinality(PendingCalls("start")) = IF ui.startInFlight THEN 1 ELSE 0
  /\ online =>
       Cardinality(PendingCalls("begin")) = IF ui.beginInFlight THEN 1 ELSE 0

\* No signal and no call that concerns authentication is on its way.
Settled ==
  /\ online
  /\ wire = <<>>
  /\ \A op \in {"getState", "listUsers", "begin", "respond", "cancel", "start"} :
       PendingCalls(op) = {}

\* Once everything that was sent has arrived, view and backend agree: the bound
\* attempt is the backend's, no conversation runs that the interface forgot
\* unless it shows an error, and each side waits for what the other one offers.
\* An authenticated attempt may be shown as busy: the start of an earlier
\* session was still pending when it authenticated (greeter_feature.dart:436).
ViewAgreesAtRest ==
  Settled /\ ui.service = "ready" =>
    /\ ui.attempt # None =>
         ui.attempt = lastAttempt /\ phase \in ActivePhases \union {"HandingOff"}
    /\ ui.attempt = None /\ ui.mode # "error" => phase \notin ActivePhases
    /\ ui.mode = "prompting" => phase = "WaitingForInput"
    /\ ui.mode = "sessionSelection" => phase = "Authenticated"
    /\ phase = "WaitingForInput" /\ ui.attempt # None => ui.mode \in {"prompting", "error"}
    /\ phase = "Authenticated" => ui.mode \in {"sessionSelection", "submitting"}
    /\ phase = "HandingOff" => ui.mode = "handingOff"

\* What the user typed answers the question it was typed for: when the backend
\* passes an answer on, it is the answer to the last question PAM asked, however
\* late the prompts, the state signals and the replies are.
AnswersMatchPrompts ==
  [][phase = "WaitingForInput" /\ phase' = "SubmittingResponse" =>
       ui.calls[serving'].arg = asked]_vars

\* A catalog load that was overtaken by a retry or a reconnect never replaces
\* what a newer one put on the screen.
NewestLoadWins == [][ui'.loaded >= ui.loaded]_vars

\* A conversation is only opened in front of a user: not while the form is
\* hidden, also if it was hidden while a cancellation or a load was awaited.
BeginsAwake ==
  [][\A i \in Slots :
       ui'.calls[i].op = "begin" /\ ui.calls[i].op # "begin" => ~ui'.dormant]_vars

-----------------------------------------------------------------------------
(* What a comment says and the code does not do.                           *)

\* greeter_feature.dart: "Keeping the current mode avoids undoing that prompt or
\* a local input error when the following state signal arrives."
InputErrorSurvives ==
  [][wire # <<>> /\ wire' = Tail(wire) /\ Head(wire).value = "WaitingForInput"
       /\ ui.mode = "error" /\ ui.recovery = "retryPrompt" =>
     ui'.recovery = "retryPrompt"]_vars

=============================================================================
