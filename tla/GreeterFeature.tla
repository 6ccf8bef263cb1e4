--------------------------- MODULE GreeterFeature ---------------------------
(***************************************************************************)
(* The state owner of the greeter's user interface (greeter_feature.dart). *)
(*                                                                         *)
(* Dart runs one synchronous stretch of code at a time, from one `await`   *)
(* to the next.  Every operator below that takes a feature f and returns a *)
(* feature is such a stretch, or a function called within one; `copyWith`  *)
(* is EXCEPT.  What waits for a reply is a call in `f.calls`.  The module  *)
(* states what commands, events and replies do; who sends them is left to  *)
(* the modules that use it.                                                *)
(*                                                                         *)
(* Texts are abstracted: a prompt is its attempt, its kind (visible and    *)
(* secret ones are "input") and the number of the last question when it    *)
(* was sent; an error is the recovery it offers, which for the service and *)
(* the catalog is always the same.  The copy of the backend's phase is     *)
(* left out, nothing reads it.                                             *)
(***************************************************************************)
EXTENDS Naturals, FiniteSets, Sequences

CONSTANTS
  Users,      \* the accounts the backend lists
  Sessions,   \* the sessions that may be installed
  Slots,      \* 1..n: bounds the calls that wait for a reply
  MaxLoads,   \* bounds the number of catalog loads
  None        \* null

ASSUME SlotsAssumption == Slots \subseteq Nat \ {0} /\ IsFiniteSet(Slots) /\ Slots # {}

ASSUME LoadsAssumption == MaxLoads \in Nat \ {0}

ASSUME NoneAssumption == None \notin Users \cup Sessions \cup Nat

VARIABLE ui   \* the feature: its GreeterState, its private fields, its calls

NoPrompt == [attempt |-> None, kind |-> "none", number |-> 0]

\* A pending call: the method, its argument or what its continuation kept, and
\* the attempt or the generation it was made for.
Pending(op, arg, key) == [op |-> op, arg |-> arg, key |-> key]

NoCall == Pending("none", None, None)

-----------------------------------------------------------------------------
(* Calls.                                                                  *)

FreeSlots(f) == {i \in Slots : f.calls[i] = NoCall}

\* `await` on a new call.
Await(f, call) ==
  [f EXCEPT !.calls[CHOOSE i \in FreeSlots(f) : \A j \in FreeSlots(f) : i <= j] = call]

\* The call in slot i returned, or went on to wait for the next one.
Return(f, i) == [f EXCEPT !.calls[i] = NoCall]
Proceed(f, i, call) == [f EXCEPT !.calls[i] = call]

-----------------------------------------------------------------------------
(* The start of a conversation and of a session.                           *)

ShowAuthError(f, recovery) ==
  [f EXCEPT !.mode = "error", !.recovery = recovery, !.promptError = FALSE]

\* _beginAuthentication, past its guard.
BeginAuthenticationCall(f) ==
  Await([f EXCEPT !.mode = "submitting",
                  !.recovery = "none",
                  !.promptError = FALSE,
                  !.beginInFlight = TRUE,
                  !.queued = <<>>],
        Pending("begin", f.user, None))

CanBeginWith(f) ==
  /\ f.mode = "userSelection"
  /\ f.user # None
  /\ f.session # None

\* (fault) The hidden form starts conversations nobody is there to answer.
BeginIfReadyWhileDormant(f) ==
  IF CanBeginWith(f) THEN BeginAuthenticationCall(f) ELSE f

BeginIfReady(f) ==
  IF ~f.dormant /\ CanBeginWith(f) THEN BeginAuthenticationCall(f) ELSE f

\* (fault) Another start of the session may be under way.
StartSessionAgain(f) ==
  IF f.attempt = None \/ f.session = None
    THEN f
    ELSE Await([f EXCEPT !.startInFlight = TRUE, !.mode = "submitting"],
               Pending("start", f.session, f.attempt))

\* _startSelectedSession up to its await.
StartSession(f) ==
  IF f.attempt = None \/ f.session = None \/ f.startInFlight
    THEN f
    ELSE Await([f EXCEPT !.startInFlight = TRUE, !.mode = "submitting"],
               Pending("start", f.session, f.attempt))

-----------------------------------------------------------------------------
(* Events of the gateway.                                                  *)

Signal(attempt, what, value, number) ==
  [attempt |-> attempt, what |-> what, value |-> value, number |-> number]

StateSignal(attempt, state) == Signal(attempt, "state", state, 0)
PromptSignal(attempt, kind, number) == Signal(attempt, "prompt", kind, number)
Disconnected == Signal(None, "disconnected", "none", 0)

SubmittingStates ==
  {"CreatingSession", "PromptPending", "SubmittingResponse",
   "ResolvingSession", "StartingSession", "Authenticated", "Cancelling"}

\* (fault) WaitingForInput reopens the prompt.
NextModeReopens(state, mode) ==
  CASE state \in SubmittingStates -> "submitting"
    [] state = "HandingOff"       -> "handingOff"
    [] state = "Failed"           -> "error"
    [] state = "Idle"             -> "userSelection"
    [] state = "WaitingForInput"  -> "prompting"

\* (fault) The session counts as started once greetd was asked for it.
NextModeEager(state, mode) ==
  CASE state = "StartingSession" -> "handingOff"
    [] state \in SubmittingStates \ {"StartingSession"} -> "submitting"
    [] state = "HandingOff"      -> "handingOff"
    [] state = "Failed"          -> "error"
    [] state = "Idle"            -> "userSelection"
    [] state = "WaitingForInput" -> mode

\* WaitingForInput confirms progress only: the prompt came before it.
NextMode(state, mode) ==
  CASE state \in SubmittingStates -> "submitting"
    [] state = "HandingOff"       -> "handingOff"
    [] state = "Failed"           -> "error"
    [] state = "Idle"             -> "userSelection"
    [] state = "WaitingForInput"  -> mode

\* _applyBackendState
ApplyBackendState(f, state) ==
  LET over == state \in {"Authenticated", "Failed"}
      g == [f EXCEPT
              !.attempt = IF state = "Failed" THEN None ELSE @,
              !.mode = NextMode(state, f.mode),
              !.recovery = IF state = "Failed" THEN "retryAuthentication" ELSE "none",
              !.prompt = IF over THEN NoPrompt ELSE @,
              !.promptError = @ /\ ~over]
  IN  IF state # "Authenticated" THEN g
      ELSE IF g.session = None   THEN [g EXCEPT !.mode = "sessionSelection"]
      ELSE StartSession(g)

\* (fault) A rejection takes the place of the prompt.
ApplyPromptShowsErrors(f, e) ==
  IF e.value = "input"
    THEN [f EXCEPT !.mode = "prompting",
                   !.prompt = [attempt |-> e.attempt, kind |-> e.value, number |-> e.number],
                   !.recovery = "none"]
    ELSE [f EXCEPT !.mode = "submitting",
                   !.prompt = [attempt |-> e.attempt, kind |-> e.value, number |-> e.number],
                   !.recovery = "none",
                   !.promptError = FALSE]

\* The BackendPromptReceived arm of _handleEvent.
ApplyPrompt(f, e) ==
  CASE e.value = "input" ->
         [f EXCEPT !.mode = "prompting",
                   !.prompt = [attempt |-> e.attempt, kind |-> e.value, number |-> e.number],
                   !.recovery = "none"]
    [] e.value = "error" -> [f EXCEPT !.promptError = TRUE]
    [] e.value = "info" ->
         [f EXCEPT !.mode = "submitting",
                   !.prompt = [attempt |-> e.attempt, kind |-> e.value, number |-> e.number],
                   !.recovery = "none",
                   !.promptError = FALSE]

ServiceLost(f) ==
  [f EXCEPT !.service = "unavailable", !.mode = "error", !.dormant = FALSE]

\* Stale filtering: only events of the bound attempt count.
Concerns(f, e) == e.attempt = f.attempt

\* (fault) Signals that precede the reply of their begin are lost.
NeverWaitsForBegin(f) == FALSE

\* _queueEventDuringBegin: the event may belong to the attempt whose name is
\* still on its way.
WaitsForBegin(f) == f.attempt = None /\ f.beginInFlight

\* _handleEvent
HandleEvent(f, e) ==
  IF e.what = "disconnected" THEN ServiceLost([f EXCEPT !.attempt = None])
  ELSE IF WaitsForBegin(f)   THEN [f EXCEPT !.queued = Append(@, e)]
  ELSE IF ~Concerns(f, e)    THEN f
  ELSE IF e.what = "state"   THEN ApplyBackendState(f, e.value)
  ELSE ApplyPrompt(f, e)

\* The events reach the feature one after the other.
Replay(f, events) ==
  LET after[n \in 0..Len(events)] ==
        IF n = 0 THEN f ELSE HandleEvent(after[n - 1], events[n])
  IN  after[Len(events)]

\* The reply of _beginAuthentication: the attempt is bound, then the signals
\* that came before it are replayed.
BindBegin(f, attempt) ==
  Replay([f EXCEPT !.attempt = attempt, !.queued = <<>>, !.beginInFlight = FALSE], f.queued)

-----------------------------------------------------------------------------
(* Users, prompts and cancellation.                                        *)

\* Where the account picker is enabled.
CanSelectUser(f) ==
  /\ f.service = "ready"
  /\ ~f.dormant
  /\ ~f.beginInFlight
  /\ ~f.startInFlight
  /\ \/ f.mode \in {"userSelection", "prompting"}
     \/ f.mode = "submitting" /\ f.prompt.kind = "info"
     \/ f.mode = "error" /\ f.recovery \in {"retryAuthentication", "retryPrompt"}

ChooseUser(f, u) ==
  BeginIfReady([f EXCEPT !.mode = "userSelection", !.user = u, !.prompt = NoPrompt,
                         !.recovery = "none", !.promptError = FALSE])

\* _cancelAuthentication up to its await; `next` is the account _selectUser
\* goes on with.  The attempt is abandoned before the backend knows.  As a
\* command of its own it is bound to recoveries no error offers.
CancelCall(f, next) ==
  Await([f EXCEPT !.attempt = None, !.mode = "submitting", !.prompt = NoPrompt,
                  !.recovery = "none", !.promptError = FALSE],
        Pending("cancel", next, f.attempt))

\* The catalog that is on the screen counts as loaded again.
CatalogShown(f) == IF f.sessions = {} THEN f.catalog ELSE "ready"

\* _resetToUserSelection(clearSelectedUser: true)
ResetToUserSelection(f) ==
  [f EXCEPT !.mode = "userSelection", !.user = None, !.prompt = NoPrompt,
            !.recovery = "none", !.promptError = FALSE, !.catalog = CatalogShown(f)]

SelectUser(u) ==
  /\ CanSelectUser(ui)
  /\ ui.attempt # None => ui.user # u
  /\ ui' = IF ui.attempt = None THEN ChooseUser(ui, u) ELSE CancelCall(ui, u)

\* The continuations of _cancelAuthentication and _selectUser.
\* Between the two only the loss of the service could slip in.
Cancelled(i, ok) ==
  LET next == ui.calls[i].arg
      f == Return(ui, i)
      reset == ResetToUserSelection(f)
  IN  ui' = CASE ~ok -> [ServiceLost(f) EXCEPT !.recovery = "none", !.promptError = FALSE]
              [] ok /\ f.service # "ready" -> reset
              [] OTHER -> ChooseUser(reset, next)

RespondToPrompt(blank) ==
  /\ ui.attempt # None
  /\ ui.mode = "prompting"
  /\ ui' = IF blank
             THEN ShowAuthError(ui, "retryPrompt")
             ELSE Await([ui EXCEPT !.mode = "submitting", !.recovery = "none",
                                   !.promptError = FALSE],
                        Pending("respond", ui.prompt.number, ui.attempt))

Responded(i, ok) ==
  LET f == Return(ui, i)
  IN  ui' = IF ok \/ ui.calls[i].key # ui.attempt
              THEN f
              ELSE ShowAuthError(f, "retryAuthentication")

Begun(i, ok, attempt) ==
  LET f == Return(ui, i)
  IN  ui' = IF ok
              THEN BindBegin(f, attempt)
              ELSE ShowAuthError([f EXCEPT !.queued = <<>>, !.beginInFlight = FALSE],
                                 "retryAuthentication")

\* _retryAuthentication
Retry(f) ==
  BeginIfReady([f EXCEPT !.attempt = None, !.service = "ready", !.mode = "userSelection",
                         !.prompt = NoPrompt, !.recovery = "none", !.promptError = FALSE,
                         !.catalog = CatalogShown(f)])

RetryAuthentication == ui' = Retry(ui)

RetryPrompt ==
  ui' = IF ui.attempt = None \/ ui.prompt = NoPrompt
          THEN Retry(ui)
          ELSE [ui EXCEPT !.mode = "prompting", !.recovery = "none", !.promptError = FALSE]

-----------------------------------------------------------------------------
(* Sessions.                                                               *)

SelectSession(s) ==
  /\ ui.service = "ready"
  /\ ui.catalog = "ready"
  /\ s \in ui.sessions
  /\ ui' = BeginIfReady([ui EXCEPT !.session = s, !.recovery = "none",
                                   !.promptError = FALSE])

StartSelectedSession ==
  /\ ui.attempt # None
  /\ ui.session # None
  /\ ~ui.startInFlight
  /\ ui' = StartSession(ui)

\* (fault) The late reply of a failed attempt offers its session again.
StartReturnedIgnoresAttempt(i, ok) ==
  LET f == [Return(ui, i) EXCEPT !.startInFlight = FALSE]
  IN  ui' = IF ok
              THEN [f EXCEPT !.mode = "handingOff", !.recovery = "none", !.exiting = TRUE]
              ELSE [f EXCEPT !.mode = "sessionSelection", !.catalog = "ready"]

\* A Failed signal may have ended the attempt before the call returned.
StartReturned(i, ok) ==
  LET f == [Return(ui, i) EXCEPT !.startInFlight = FALSE]
  IN  ui' = CASE ok -> [f EXCEPT !.mode = "handingOff", !.recovery = "none", !.exiting = TRUE]
              [] ~ok /\ ui.calls[i].key # ui.attempt -> f
              [] OTHER -> [f EXCEPT !.mode = "sessionSelection", !.catalog = "ready"]

\* _loadSessionCatalog up to its first await.
LoadSessionCatalog(f) ==
  Await([f EXCEPT !.generation = @ + 1, !.catalog = "loading"],
        Pending("listSessions", None, f.generation + 1))

RetrySessionCatalog ==
  /\ ui.service = "ready"
  /\ ui.generation < MaxLoads
  /\ ui' = LoadSessionCatalog(ui)

\* (fault) Whoever answers last wins.
CurrentAlways(i) == TRUE

\* A retry or a reconnect invalidates the loads before it.
Current(i) == ui.calls[i].key = ui.generation

SessionsListed(i, sessions) ==
  ui' = IF Current(i)
          THEN Proceed(ui, i, Pending("readPreference", sessions, ui.calls[i].key))
          ELSE Return(ui, i)

SessionsFailed(i) ==
  ui' = IF Current(i) THEN [Return(ui, i) EXCEPT !.catalog = "failed"] ELSE Return(ui, i)

\* (fault) A choice survives the session it names.
GetSelectedSessionKeeps(current, stored, sessions) ==
  IF current # None           THEN current
  ELSE IF stored \in sessions THEN stored
  ELSE IF sessions = {}       THEN None
  ELSE CHOOSE s \in sessions : TRUE

\* _getSelectedSession; which session is preferred is not modelled.
GetSelectedSession(current, stored, sessions) ==
  CASE current \in sessions                               -> current
    [] current \notin sessions /\ stored \in sessions     -> stored
    [] {current, stored} \intersect sessions = {}         ->
         IF sessions = {} THEN None ELSE CHOOSE s \in sessions : TRUE

PreferenceRead(i, stored) ==
  LET f == Return(ui, i)
      sessions == ui.calls[i].arg
  IN  ui' = IF Current(i)
              THEN BeginIfReady(
                     [f EXCEPT !.catalog = "ready", !.sessions = sessions,
                               !.session = GetSelectedSession(ui.session, stored, sessions),
                               !.loaded = ui.calls[i].key])
              ELSE f

-----------------------------------------------------------------------------
(* The service.                                                            *)

\* _loadService up to its first await.
LoadService(f) ==
  Await([f EXCEPT !.service = "starting"], Pending("getState", None, None))

ReconnectService ==
  /\ ui.service # "starting"
  /\ ui.generation + 2 <= MaxLoads
  /\ ui' = LoadService(
       [ui EXCEPT !.attempt = None, !.queued = <<>>, !.generation = @ + 1,
                  !.mode = "userSelection", !.recovery = "none", !.catalog = "empty",
                  !.sessions = {}, !.user = None, !.session = None,
                  !.prompt = NoPrompt, !.promptError = FALSE])

StateRead(i, phase) == ui' = Proceed(ui, i, Pending("listUsers", phase, None))

\* The only account is selected at once.
SoleUser(f) == IF Cardinality(Users) = 1 THEN CHOOSE u \in Users : TRUE ELSE f.user

\* A conversation of which nobody knows the token cannot be adopted.
UsersListed(i) ==
  LET phase == ui.calls[i].arg
      f == [Return(ui, i) EXCEPT !.service = "ready", !.promptError = FALSE]
  IN  ui' = IF phase # "Idle"
              THEN [f EXCEPT !.mode = "error", !.recovery = "reconnectService",
                             !.dormant = FALSE]
              ELSE LoadSessionCatalog(
                     [f EXCEPT !.mode = "userSelection", !.recovery = "none",
                               !.user = SoleUser(f), !.sessions = {}, !.session = None])

LoadFailed(i) == ui' = ServiceLost(Return(ui, i))

WakeGreeter ==
  /\ ui.dormant
  /\ ui.service = "ready"
  /\ ui' = BeginIfReady([ui EXCEPT !.dormant = FALSE])

SleepGreeter ==
  /\ ~ui.dormant
  /\ ui.service = "ready"
  /\ ui.mode # "handingOff"
  /\ ui' = [ui EXCEPT !.dormant = TRUE]

RequestPowerAction ==
  /\ ui.power # "executing"
  /\ ui' = Await([ui EXCEPT !.power = "executing"], Pending("powerAction", None, None))

\* Whether it succeeded only changes what is shown.
PowerReturned(i) == ui' = [Return(ui, i) EXCEPT !.power = "idle"]

-----------------------------------------------------------------------------

\* The feature as initialize() leaves it at its first await.
FeatureInit ==
  ui = LoadService(
    [service |-> "starting", mode |-> "userSelection", catalog |-> "empty",
     power |-> "idle", user |-> None, session |-> None, sessions |-> {},
     prompt |-> NoPrompt, promptError |-> FALSE, recovery |-> "none",
     dormant |-> TRUE, attempt |-> None, beginInFlight |-> FALSE,
     startInFlight |-> FALSE, queued |-> <<>>, generation |-> 0, loaded |-> 0,
     exiting |-> FALSE, calls |-> [i \in Slots |-> NoCall]])

=============================================================================
