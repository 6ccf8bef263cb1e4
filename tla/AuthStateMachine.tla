-------------------------- MODULE AuthStateMachine --------------------------
(***************************************************************************)
(* The authentication state machine of the backend (state.rs): one phase,  *)
(* one display-safe failure detail, at most one active attempt, and the    *)
(* number of the last attempt.  Every event of the machine is an action;   *)
(* an event the machine rejects is an action that is not enabled.          *)
(*                                                                         *)
(* Usernames are abstracted: the machine only stores the one of the active *)
(* attempt.  A detail is either absent or present.                         *)
(***************************************************************************)
EXTENDS Naturals

CONSTANT
  MaxAttempt    \* the largest attempt number (u64::MAX in the code)

ASSUME MaxAttemptAssumption == MaxAttempt \in Nat \ {0}

VARIABLES
  phase,        \* AuthStateMachine.state
  detail,       \* AuthStateMachine.detail
  active,       \* id of AuthStateMachine.active_attempt, or NoAttempt
  lastAttempt   \* AuthStateMachine.next_attempt_number

machineVars == <<phase, detail, active, lastAttempt>>

NoAttempt == 0

\* Attempt ids are the numbers they are formatted from.
Attempts == 1..MaxAttempt

ActivePhases ==
  {"CreatingSession", "PromptPending", "WaitingForInput",
   "SubmittingResponse", "Authenticated", "ResolvingSession",
   "StartingSession"}

InvalidatingPhases == {"Cancelling", "Idle", "HandingOff", "Failed"}

Phases == ActivePhases \union InvalidatingPhases

MachineTypeOK ==
  /\ phase \in Phases
  /\ detail \in {"none", "text"}
  /\ active \in Attempts \union {NoAttempt}
  /\ lastAttempt \in 0..MaxAttempt

MachineInit ==
  /\ phase = "Idle"
  /\ detail = "none"
  /\ active = NoAttempt
  /\ lastAttempt = 0

-----------------------------------------------------------------------------

\* (fault) Ending a transaction leaves its token valid.
TransitionKeepsAttempt(from, to, newDetail) ==
  /\ phase \in from
  /\ phase' = to
  /\ detail' = newDetail
  /\ UNCHANGED <<active, lastAttempt>>

\* One row of the transition table: from one of the phases in `from` to `to`.
\* Entering an invalidating phase drops the active attempt.
Transition(from, to, newDetail) ==
  /\ phase \in from
  /\ phase' = to
  /\ detail' = newDetail
  /\ active' = IF to \in InvalidatingPhases THEN NoAttempt ELSE active
  /\ UNCHANGED lastAttempt

Conversing == {"CreatingSession", "SubmittingResponse"}

\* (fault) The rejection of the last answer is shown next to the new prompt.
AuthMessageKeepsDetail == Transition(Conversing, "PromptPending", detail)

AuthMessage == Transition(Conversing, "PromptPending", "none")

PromptNeedsInput == Transition({"PromptPending"}, "WaitingForInput", "none")

PromptAutoResponse ==
  Transition({"PromptPending"}, "SubmittingResponse", "none")

ResponseSubmitted ==
  Transition({"WaitingForInput"}, "SubmittingResponse", "none")

AuthenticationSucceeded == Transition(Conversing, "Authenticated", "none")

AuthenticationFailed == Transition(Conversing, "Failed", "text")

CredentialRejected ==
  Transition({"SubmittingResponse"}, "CreatingSession", "text")

StartSessionRequested ==
  Transition({"Authenticated"}, "ResolvingSession", "none")

SessionUnavailable ==
  Transition({"ResolvingSession"}, "Authenticated", "text")

SessionResolved ==
  Transition({"ResolvingSession"}, "StartingSession", "none")

SessionStarted == Transition({"StartingSession"}, "HandingOff", "none")

SessionStartFailed == Transition({"StartingSession"}, "Failed", "text")

CancelRequested == Transition(ActivePhases, "Cancelling", "none")

CancellationFinished == Transition({"Cancelling"}, "Idle", "none")

Reset == Transition({"Failed"}, "Idle", detail)

ProtocolFailure == Transition(ActivePhases, "Failed", "text")

\* (fault) The counter is not checked.
CanBeginUnchecked == phase # "HandingOff"

\* begin_authentication replaces whatever the machine was doing, except a
\* handoff, and refuses to wrap the attempt counter around.
CanBegin == lastAttempt < MaxAttempt /\ phase # "HandingOff"

\* (fault) The counter wraps around.
BeginWrapsAround ==
  /\ phase # "HandingOff"
  /\ phase' = "CreatingSession"
  /\ detail' = "none"
  /\ lastAttempt' = (lastAttempt % MaxAttempt) + 1
  /\ active' = lastAttempt'

BeginAuthentication ==
  /\ CanBegin
  /\ phase' = "CreatingSession"
  /\ detail' = "none"
  /\ lastAttempt' = lastAttempt + 1
  /\ active' = lastAttempt + 1

-----------------------------------------------------------------------------

\* Any event at any time: what the table alone promises, before the actor
\* restricts when each event is raised.
MachineNext ==
  \/ BeginAuthentication
  \/ AuthMessage
  \/ PromptNeedsInput
  \/ PromptAutoResponse
  \/ ResponseSubmitted
  \/ AuthenticationSucceeded
  \/ AuthenticationFailed
  \/ CredentialRejected
  \/ StartSessionRequested
  \/ SessionUnavailable
  \/ SessionResolved
  \/ SessionStarted
  \/ SessionStartFailed
  \/ CancelRequested
  \/ CancellationFinished
  \/ Reset
  \/ ProtocolFailure

MachineSpec == MachineInit /\ [][MachineNext]_machineVars

-----------------------------------------------------------------------------

\* There is an active attempt exactly in the active phases, and it is always
\* the last one that was started: no event keeps a token alive past the end of
\* its transaction, or loses it in the middle.
AttemptTracksPhase ==
  /\ active # NoAttempt <=> phase \in ActivePhases
  /\ active \in {NoAttempt, lastAttempt}

\* A token never comes back: whenever an attempt becomes active it is newer
\* than every attempt before it, at the end of the counter's range too.
AttemptsAreFresh ==
  [][active' \notin {NoAttempt, active} => active' > lastAttempt]_machineVars

\* Whatever the user is told about a failure stays readable until the next
\* attempt, and never outlives it: a phase that waits for greetd or for the
\* user after a clean step shows no stale error.
DetailBelongsToPhase ==
  /\ phase = "Failed" => detail = "text"
  /\ detail = "text" =>
       phase \in {"Failed", "Idle", "CreatingSession", "Authenticated"}

=============================================================================
