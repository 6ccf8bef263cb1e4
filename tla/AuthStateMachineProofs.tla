----------------------- MODULE AuthStateMachineProofs -----------------------
(***************************************************************************)
(* Proofs about the state machine alone: they hold for every sequence of   *)
(* events, also the ones the actor never raises.                           *)
(***************************************************************************)
EXTENDS AuthStateMachine, TLAPS

\* The rows of the table start in phases and end in phases; no attempt number
\* leaves the counter's range.  The two invariants are inductive together.
MachineInv == MachineTypeOK /\ AttemptTracksPhase

LEMMA TransitionInv ==
  ASSUME MachineInv, NEW from, NEW to \in Phases, NEW newDetail \in {"none", "text"},
         (from \subseteq ActivePhases \/ to \in InvalidatingPhases),
         Transition(from, to, newDetail)
  PROVE  MachineInv'
BY MaxAttemptAssumption
DEF MachineInv, MachineTypeOK, AttemptTracksPhase, Transition, Phases,
    ActivePhases, InvalidatingPhases, Attempts, NoAttempt

LEMMA BeginInv ==
  ASSUME MachineInv, BeginAuthentication
  PROVE  MachineInv'
BY MaxAttemptAssumption
DEF MachineInv, MachineTypeOK, AttemptTracksPhase, BeginAuthentication, CanBegin,
    Phases, ActivePhases, InvalidatingPhases, Attempts, NoAttempt

LEMMA EventInv ==
  ASSUME MachineInv, MachineNext
  PROVE  MachineInv'
<1> USE DEF Phases, ActivePhases, InvalidatingPhases, Conversing
<1> detail \in {"none", "text"}
  BY DEF MachineInv, MachineTypeOK
<1>1. CASE BeginAuthentication
  BY <1>1, BeginInv
<1>2. CASE AuthMessage
  BY <1>2, TransitionInv DEF AuthMessage
<1>3. CASE PromptNeedsInput
  BY <1>3, TransitionInv DEF PromptNeedsInput
<1>4. CASE PromptAutoResponse
  BY <1>4, TransitionInv DEF PromptAutoResponse
<1>5. CASE ResponseSubmitted
  BY <1>5, TransitionInv DEF ResponseSubmitted
<1>6. CASE AuthenticationSucceeded
  BY <1>6, TransitionInv DEF AuthenticationSucceeded
<1>7. CASE AuthenticationFailed
  BY <1>7, TransitionInv DEF AuthenticationFailed
<1>8. CASE CredentialRejected
  BY <1>8, TransitionInv DEF CredentialRejected
<1>9. CASE StartSessionRequested
  BY <1>9, TransitionInv DEF StartSessionRequested
<1>10. CASE SessionUnavailable
  BY <1>10, TransitionInv DEF SessionUnavailable
<1>11. CASE SessionResolved
  BY <1>11, TransitionInv DEF SessionResolved
<1>12. CASE SessionStarted
  BY <1>12, TransitionInv DEF SessionStarted
<1>13. CASE SessionStartFailed
  BY <1>13, TransitionInv DEF SessionStartFailed
<1>14. CASE CancelRequested
  BY <1>14, TransitionInv DEF CancelRequested
<1>15. CASE CancellationFinished
  BY <1>15, TransitionInv DEF CancellationFinished
<1>16. CASE Reset
  BY <1>16, TransitionInv DEF Reset
<1>17. CASE ProtocolFailure
  BY <1>17, TransitionInv DEF ProtocolFailure
<1> QED
  BY <1>1, <1>2, <1>3, <1>4, <1>5, <1>6, <1>7, <1>8, <1>9, <1>10, <1>11,
     <1>12, <1>13, <1>14, <1>15, <1>16, <1>17 DEF MachineNext

\* Every reachable state of the machine has an active attempt exactly in the
\* active phases, and it is the last one started: begin_authentication and
\* transition of state.rs, for any attempt counter.
THEOREM MachineCorrect == MachineSpec => [](MachineTypeOK /\ AttemptTracksPhase)
<1>1. MachineInit => MachineInv
  BY MaxAttemptAssumption
  DEF MachineInit, MachineInv, MachineTypeOK, AttemptTracksPhase, Phases,
      ActivePhases, InvalidatingPhases, Attempts, NoAttempt
<1>2. MachineInv /\ [MachineNext]_machineVars => MachineInv'
  <2> SUFFICES ASSUME MachineInv, [MachineNext]_machineVars
               PROVE  MachineInv'
    OBVIOUS
  <2>1. CASE MachineNext
    BY <2>1, EventInv
  <2>2. CASE UNCHANGED machineVars
    BY <2>2 DEF machineVars, MachineInv, MachineTypeOK, AttemptTracksPhase
  <2> QED
    BY <2>1, <2>2
<1>3. MachineInv => MachineTypeOK /\ AttemptTracksPhase
  BY DEF MachineInv
<1> QED
  BY <1>1, <1>2, <1>3, PTL DEF MachineSpec

\* The machine keeps to its phases, and its counter to its range, under every
\* sequence of events: transition and begin_authentication of state.rs.
THEOREM MachineTypes == MachineSpec => []MachineTypeOK
BY MachineCorrect, PTL

-----------------------------------------------------------------------------

LEMMA EventFresh ==
  ASSUME MachineInv, [MachineNext]_machineVars
  PROVE  active' \notin {NoAttempt, active} => active' > lastAttempt
<1>1. CASE BeginAuthentication
  BY <1>1, MaxAttemptAssumption
  DEF BeginAuthentication, MachineInv, MachineTypeOK
<1>2. CASE ~BeginAuthentication
  <2> active' \in {NoAttempt, active}
    BY <1>2
    DEF MachineNext, machineVars, Transition, AuthMessage, PromptNeedsInput,
        PromptAutoResponse, ResponseSubmitted, AuthenticationSucceeded,
        AuthenticationFailed, CredentialRejected, StartSessionRequested,
        SessionUnavailable, SessionResolved, SessionStarted,
        SessionStartFailed, CancelRequested, CancellationFinished, Reset,
        ProtocolFailure
  <2> QED
    OBVIOUS
<1> QED
  BY <1>1, <1>2

\* No attempt id is ever issued twice, up to the end of the counter: the token
\* of an attempt that ended cannot name a later one (begin_authentication).
THEOREM AttemptIdsAreFresh == MachineSpec => AttemptsAreFresh
<1>1. MachineInv /\ [MachineNext]_machineVars
        => [active' \notin {NoAttempt, active} => active' > lastAttempt]_machineVars
  BY EventFresh
<1>2. MachineSpec => []MachineInv
  BY MachineCorrect, PTL DEF MachineInv
<1> QED
  BY <1>1, <1>2, PTL DEF MachineSpec, AttemptsAreFresh

LEMMA EventDetail ==
  ASSUME DetailBelongsToPhase, [MachineNext]_machineVars
  PROVE  DetailBelongsToPhase'
<1> USE DEF DetailBelongsToPhase
<1>1. CASE BeginAuthentication
  BY <1>1 DEF BeginAuthentication
<1>2. CASE Reset
  BY <1>2 DEF Reset, Transition
<1>3. CASE AuthenticationFailed \/ CredentialRejected \/ SessionUnavailable
           \/ SessionStartFailed \/ ProtocolFailure
  BY <1>3 DEF AuthenticationFailed, CredentialRejected, SessionUnavailable,
              SessionStartFailed, ProtocolFailure, Transition
<1>4. CASE AuthMessage \/ PromptNeedsInput \/ PromptAutoResponse
           \/ ResponseSubmitted \/ AuthenticationSucceeded
           \/ StartSessionRequested \/ SessionResolved \/ SessionStarted
           \/ CancelRequested \/ CancellationFinished
  BY <1>4 DEF AuthMessage, PromptNeedsInput, PromptAutoResponse,
              ResponseSubmitted, AuthenticationSucceeded,
              StartSessionRequested, SessionResolved, SessionStarted,
              CancelRequested, CancellationFinished, Transition
<1>5. CASE UNCHANGED machineVars
  BY <1>5 DEF machineVars
<1> QED
  BY <1>1, <1>2, <1>3, <1>4, <1>5 DEF MachineNext

\* Failed always carries the reason it shows, and no clean step of a later
\* attempt still shows it: every row of transition that sets or clears detail.
THEOREM DetailCorrect == MachineSpec => []DetailBelongsToPhase
<1>1. MachineInit => DetailBelongsToPhase
  BY DEF MachineInit, DetailBelongsToPhase
<1>2. DetailBelongsToPhase /\ [MachineNext]_machineVars => DetailBelongsToPhase'
  BY EventDetail
<1> QED
  BY <1>1, <1>2, PTL DEF MachineSpec

=============================================================================
