# Verification of the Akari greeter

Akari is a login greeter for Linux. A Rust backend talks to `greetd` over a
socket and owns the authentication of one user at a time; a Flutter UI talks to
the backend over D-Bus; scripts install the greeter as the login service; a
scene runtime, an SDK and a studio draw and author the themes. This directory
holds TLA+ models of the parts whose correctness depends on order, concurrency
or failure, their TLC instances, and theorems about them checked by TLAPS.

Modelled and checked are the backend's authentication, its greetd client, its
two catalogs, the user interface composed with the backend, and the scripts
that make the greeter the login service. Proofs, for all values of the constants,
exist for the authentication, the greetd client, both catalogs, the interface
with its backend, and the login service switch: every safety property of the
passing runs is a theorem.

## 1. Inventory

### Backend (`backend/src`)

| Component | State | Operations | Interacts with |
| --- | --- | --- | --- |
| `state.rs` `AuthStateMachine` | phase, failure detail, active attempt, attempt counter | `begin_authentication`, `transition` with 17 events | owned by the actor; no I/O |
| `auth.rs` `run_actor` | the machine, `AttemptResources` (owner, token, watcher token, socket, "user answered" flag) | seven commands, the greetd conversation, cancellation, the final cleanup | command channel (bounded mpsc), control and snapshot channels (watch), greetd socket, D-Bus signals |
| `auth.rs` `AuthActorHandle` and `service.rs` | none of their own; one task per D-Bus call | `BeginAuthentication`, `Respond`, `Cancel`, `StartSession`, `GetState`, ... | read the control channel, cancel a token, queue a command, wait for a reply |
| `auth.rs` disconnect watcher | one task per attempt | subscribe to the owner's departure, then cancel token and attempt | D-Bus daemon, command channel |
| `main.rs` `run` | bus connection, shutdown token, handoff notification | wait for a signal, the loss of the bus or a handoff; close the bus; stop the actor | owns the actor task |
| `greetd.rs` | one socket, a frame being written or read | `connect`, `create_session`, `post_auth_message_response`, `start_session`, `cancel_session`, each bounded by a timeout and interruptible by a token | greetd |
| `session_catalog.rs` | none between scans | list, look up; parse, unescape and split desktop entries | file system, while packages change |
| `users.rs` | a connection to the system bus, shared by concurrent queries under a lock | list login users | AccountsService |
| power actions | none | forward | logind |

The actor processes one command at a time, but nothing else stands still while
it waits for greetd, for a signal to be sent or for its queue: method tasks
cancel tokens, watchers notice departures, the process closes the bus. Hard
behaviours: tokens cancelled before the command that explains them is
processed; replies of greetd that arrive for an interrupted request; retries of
a rejected credential; a lookup that outlives its attempt; a client that leaves
at any await; a full channel; shutdown in the middle of anything.

What makes it correct: one attempt at a time, owned by one client; no token
survives its attempt; no call is carried out for another attempt or another
client than it names; what the backend says about authentication is what
greetd holds; no `expect` of a handler can fire; an interrupted attempt, a
method call and a shutdown all end; a handed-off session makes the process
exit. An answered greetd request got its own answer; a listing contains what
could be launched all the time it took, and only what a file meant meanwhile,
with the arguments of its author; a query of users fails only if the system bus
or AccountsService does.

### User interface (`packages/greeter_ui`, `lib`)

| Component | State | Operations | What makes it correct |
| --- | --- | --- | --- |
| `greeter_feature.dart` | service, authentication and catalog mode, bound attempt id, events queued during a begin, load generation | commands of the user, signals and disconnects of the gateway, replies after each `await` | a reply or signal of an abandoned attempt never changes the view; the shown recovery leads out; at most one begin and one session start in flight |
| `greeter_dbus_gateway.dart` | bus connection, event stream | method calls, signal translation | order of signals and replies is kept |
| `file_session_store.dart` | a preference file | best-effort read and write | never blocks or throws |
| `greeter_scene_adapter.dart`, `app.dart`, `linux/runner` | idle timer, focus, window | map slots to the scene | sleep and wake never abandon a conversation |

### Themes and tools

| Component | State | Hard behaviour |
| --- | --- | --- |
| `scene_runtime.dart` | presence and motion of each node | enter and exit motions interrupted by each other |
| `scene_editor.dart` | document, undo and redo history, draft, text on disk | saving against outside changes; drafts that turn into revisions |
| `scene_codec.dart`, `scene_codegen`, SDK, components, themes | none | none: pure functions and declarations |
| `scripts/login/manage.py` | installed releases, links, snapshot of the previous login service, PAM block | failures and crashes between file-system and systemd steps and inside files that are written in place; what the administrator chose and edited must survive them, and the selected login service must keep what it needs to boot |
| launch scripts, `tool/` | none | sequential process control |

`PROJECT.json` lists the same components with their status, and the hazards of
each at the line where they bite.

## 2. Modules

| Module | Models | Built on |
| --- | --- | --- |
| `AuthStateMachine` | `state.rs` | - |
| `AuthActor` | `auth.rs`, the authentication methods of `service.rs`, `run` of `main.rs`, the client of `greetd.rs`; greetd and the bus as their environment | extends `AuthStateMachine` |
| `LoginContract` | the abstract promise of the backend to its clients | implemented by `AuthActor` (`KeepsContract`) |
| `MCAuthActor` | instances for TLC | extends `AuthActor` |
| `GreeterFeature` | `greeter_feature.dart`: what its commands, events and replies do | - |
| `GreeterSystem` | the feature, the gateway, the bus and the backend | extends `GreeterFeature`, `AuthStateMachine` |
| `GreetdWire` | `greetd.rs` on a stream socket | - |
| `GreetdCalls` | the abstract promise of the greetd client to the actor | implemented by `GreetdWire` (`ImplementsCalls`) |
| `LoginSwitch` | `scripts/login/manage.py` | - |
| `DesktopEntry` | the parser of `session_catalog.rs`, as operators | - |
| `SessionCatalog` | the scan of `session_catalog.rs` | extends `DesktopEntry` |
| `UserCatalog` | `users.rs` | - |
| `Catalogs` | both catalogs, as `service.rs` serves them side by side | extends `SessionCatalog`, `UserCatalog` |
| `MCGreeterSystem`, `MCGreetdWire`, `MCLoginSwitch`, `MCCatalogs` | instances for TLC | each extends what it instantiates |
| `AuthStateMachineProofs` | theorems about the machine | extends `AuthStateMachine` |
| `AuthActorProofs` | the actor runs the machine; types; the inductive invariant, the safety theorems, the refinement of `LoginContract`, who may end an attempt | extends `AuthActor`, `AuthStateMachineProofs` |
| `GreetdWireProofs` | type correctness, the refinement of `GreetdCalls` | extends `GreetdWire` |
| `FoldProofs` | lemmas: a fold from the left is the run of a loop, for any step | parameter `Step` |
| `CatalogProofs` | the lock on the connection and the soundness of user lists; the parser, the sort and the soundness of session lists | extends `Catalogs`, instances of `FoldProofs` |
| `LoginSwitchProofs` | the theorems about files, units and the snapshot | extends `LoginSwitch` |
| `GreeterSystemProofs` | what each stretch of the feature's code preserves; the inductive invariant of interface, bus and backend, and its theorems | extends `GreeterSystem`, `AuthStateMachineProofs` |
| `GreeterAgreementProofs` | the invariant on everything that is on its way between them, and its theorems | extends `GreeterSystemProofs` |

### AuthStateMachine

`phase`, `detail`, `active` and `lastAttempt` are the four fields of the struct.
Each event of the table is an action built by `Transition(from, to, newDetail)`;
an event that `transition` rejects is an action that is not enabled.
`begin_authentication` is one action: its chain of resets ends in
`CreatingSession` with an empty detail whatever the phase was before, and is
refused in `HandingOff` and when the counter is exhausted. Usernames are left
out (the machine only stores one) and a detail is present or absent.

### AuthActor

The actor is a sequential program with awaits. `pc` names the await it has
reached; one action runs from one await to the next, so every interleaving
with other tasks that tokio allows is an interleaving of actions.

| `pc` | the actor waits for |
| --- | --- |
| `Recv` | the next command (`select!` of `run_actor`, shutdown first) |
| `Accept` | `create_attempt` after a possible cancellation |
| `Connect`, `Create`, `Post`, `Reject`, `Start` | the socket; the reply to `create_session`, `post_auth_message_response`, `cancel_session` after a rejection, `start_session` |
| `Prompt`, `Ask` | the signals of `PromptPending` and `WaitingForInput` to go out |
| `Revoke`, `CancelIo` | `cancel_current`: the signal of `Cancelling`; the bounded exchange with greetd |
| `FinishCancel` | `finish_cancellation`: the signal of `Cancelling` |
| `Detach` | the signal of a terminal phase, before `detach_resources` |
| `Done` | nothing, `run_actor` returned |

`owner`, `transport` and `userResponded` are `AttemptResources` (`NoCaller`
stands for `None`); `control`, `cancelled`, `queue` and `shutdown` are the
watch channel of `AttemptControl`, the cancelled tokens, the mpsc channel and
the shutdown token; `call` and `watch` are the method tasks and the watchers;
`bus` and `handoff` belong to `run`. `greetd` and `request` are the session
greetd holds and the last request written to the open socket.

Abstractions, and why they lose nothing the properties speak of:

- Blank usernames are refused by `service.rs` before anything is touched, and
  are not modelled. The snapshot channel is a copy of phase and detail that is
  sent in the step that changes them.
- A token belongs to the latest attempt or to an older one, so a set of
  cancelled attempts stands for all tokens. Shutdown cancels its children.
- greetd serves a request in the step in which the actor receives the reply or
  stops waiting; in the second case it may or may not have served it. Requests
  on a dropped socket are thereby covered.
- greetd is external. The model uses what the code and its documentation rely
  on: a session outlives the socket, a second one is refused, `cancel_session`
  frees a session that is not yet scheduled. Errors and unexpected messages may
  answer anything they can.
- The signals of a retry (between `CredentialRejected` and the reconnection)
  are one step with it. The actor's only other end, all handles dropped, does
  not occur: `main` keeps the service until the actor ended.
- A watcher whose subscription fails revokes the attempt, like one whose client
  is gone; `WatcherRevokes` covers both.
- `Reset` is in the machine but the actor never raises it on its own.

Definitions marked `(fault)` are defects the code might have had: a dropped
guard, a forgotten reset, a missing step. They are used by no specification.
Substituting one for the definition that follows it must break the property
`PROJECT.json` pairs it with, which shows that the property can fail.

### LoginContract

A login is `closed`, a `conversation`, `authenticated` or `handed`. It opens
only when none is open, for one holder and under a fresh number; it is closed
or handed over only from there; nothing follows a handoff. `AuthActor` maps
phases to stages, and no holder to attempts that have ended.

### GreeterFeature and GreeterSystem

The feature is one record `ui`: the fields of `GreeterState` that its code reads,
its private fields, and `calls`, the calls that are awaited with what their
continuations keep. Dart runs from `await` to `await`; each such stretch is one
operator on the record, named after its method. `GreeterSystem` adds the
backend as its only client sees it (the machine of `AuthStateMachine`, the
command being served, a signal for each transition), the bus, and the user.

- The bus keeps the order of signals, and a reply follows the signals that were
  emitted before it (`after`); a reply may come late.
- The interface may lose the bus at any moment. The gateway opens it once, so
  from then on every call fails; what the backend does then is left out.
- The user does what the scene offers in the state it shows (`FormVisible`,
  `Recover`), may hide and wake the form at any time, and may have the catalog
  loaded again while another load is running.
- The interface never begins over a running conversation, and never answers or
  starts a session for an attempt the backend is not at. `InvitationsAreLive`
  says so, and the backend's refusals of such calls, which `AuthActor` has, are
  left out here. What this client does cause, a cancel that comes too late and a
  begin when the numbers are used up, is refused.
- Whether a rejected answer is retried depends on the flag `AuthActor` has;
  here a rejection may always be retried, which adds behaviour only.
- Left out are texts, the preference among several sessions (any one is
  chosen), and the account list (it is constant; the sole account is selected).

### GreetdWire and GreetdCalls

`GreetdWire` moves single units of frames in both directions. A unit carries
the request and position it comes from, as a ghost: the client cuts frames out
of whatever arrives, and a header or payload put together from two frames
decodes to anything. greetd may answer, answer with garbage, announce a size
beyond the limit, cut a frame short, hang up, or carry out a request of a
connection that was dropped. The rule that a failed call drops its connection
is the actor's (`finish_cancellation`, `fail_transaction`).

`GreetdCalls` is what the actor may rely on: one request at a time, an answer
belongs to its request, no request is carried out twice, and a failed one may
still be carried out later. `AuthActor` uses a greetd that abides by this, but
decides in the step that abandons a request whether greetd served it.

### LoginSwitch

`disk` is what survives a crash (systemd's links, the snapshot, the unit, the
configuration, the releases and their links, the PAM policy), `local` what the
process has read and made, `pc` its next call. The next call may fail (`Fail`:
the command goes on with its handler, or ends), and any point may be the last
one (`Crash`). `manage.py` holds an exclusive lock, so commands do not overlap. A
command that is refused changes nothing and is no step.

What a call can leave half done depends on how the code writes.

- Links, JSON files, the PAM policy and the controller are written beside their
  target and renamed over it: one step.
- The unit (`manage.py:285`, and 304 in the undo) and each file of the
  configuration (277, 282) are overwritten in place: one step opens and cuts the
  file, the next one fills it, and a failure or a crash between the two leaves it
  torn (`OpenUnit`, `CopyUnit`; `ReopenUnit`, `UndoUnit`; `OpenConfig`,
  `FillConfig`). The files of the configuration are copied one by one, and one is
  noted in `created_configs` only after its `chmod` (284).
- `rmtree` deletes in any order and may stop after any part (`CutRemoveConf`,
  `CutRemoveRoot`, `UndoRelease`).
- `systemctl` may fail after it has changed the links (`EnableAkari`), refuses to
  disable a unit that does not exist, and may pass over a torn one without an
  error (`Systemctl`), for an empty unit file means that the unit is masked.

The administrator selects a login service only while no command runs, but edits
the PAM policy at any time, also between a command's reading and writing of it
(`HoldsPolicy`). The ghosts: `chosen` and `edits` are the administrator's last
choice and edit; `overtaken` says that this edit was made while a command held an
older policy; `removing` that not everything an interrupted uninstallation has
deleted is back (a deployment that ends with everything in place, `Intact`,
clears it); `stopped` that a deployment did not end well, and none has since.

### DesktopEntry, SessionCatalog, UserCatalog

`DesktopEntry` is the parser as folds over characters and lines. In
`SessionCatalog` a file is described by what its author means; `Text` writes it
down by the rules of desktop entries, with every quoting style, and the scan
sees the text only, so `ListingIsSound` compares the parsed argument vector with
the intended one. Files and programs come and go between two steps of a scan,
and each access to the file system is a step: opening a root, reading a file
(`ReadEntry`), looking for the program of `Exec` and for that of `TryExec`
(`ResolveExec`, `ResolveTryExec`), and asking again whether the program can be
executed (`CheckAvailable`). An old text can thus be resolved against newer
programs, and a session can be listed that could not be launched at any one
instant. So `ListingIsSound` does not claim that it could: it says that the
session is what its file meant at some time of the scan, and that each program
it needs was there at that time or later (`heard`, `supplied`, `Possible`), and
that every session that could be launched all the time (`steady`) is listed.
The list of an open directory may or may not show a new file, and may show a
replaced one twice, as POSIX allows. `sort_by` is stable: `InsertSession` puts a
session behind its equals.

A character is a string of length one. The model names those that the parser
treats in a way of their own: the backslash, both quotes, the letters and the four
kinds of whitespace of the escapes, and `%`, which the parser rejects. Any other
member of `Characters` stands for a character that is neither whitespace nor
special. An `Exec` value that no author writes on purpose is `Raw`: one with
an open quote, a trailing backslash or no argument at all (`SaysNothing`).

`UserCatalog` has concurrent queries share a connection. The properties of one
account are read in one step; accounts, the service and the connection change
between steps. `Catalogs` lets both be asked at the same time.

## 3. Runs

| Run | Instance | Shows |
| --- | --- | --- |
| `machine` | `AuthStateMachine`, counter up to 8 | tokens follow phases (`AttemptTracksPhase`), numbers never come back (`AttemptsAreFresh`), failure texts stay where they belong (`DetailBelongsToPhase`), for any order of events |
| `owner` | one client with two tasks, two attempts | no handler meets a phase it does not expect (`HandlersFit`); resources, control channel and greetd agree with the machine (`ResourcesFollowAttempt`, `ControlFollowsAttempt`, `AuthenticationIsGreetds`); a successful Cancel is final (`CancelAnswerIsFinal`) |
| `rivals` | two clients, two attempts | nothing is forwarded or revoked across attempts or clients (`ForwardsOwnCallsOnly`, `CancelledOnlyForOwner`); the contract is kept (`KeepsContract`) |
| `restart` | one client, one task, two attempts, fair | departed clients lose their attempt (`DisconnectReleases`), interrupted attempts end (`InterruptedAttemptEnds`), retries need clients (`RetriesNeedClients`) |
| `shutdown` | one login, shutdown at any moment, fair | every call returns (`EveryCallReturns`), a shutdown completes (`ShutdownCompletes`), a handoff makes the process exit (`HandoffExits`) |
| `transmit` | one login | expected violation, section 6 |
| `failed` | one login, fair | expected violation, section 6 |
| `greeter` | two accounts, one session, two attempts, two questions, three loads, two calls in flight | nothing is offered or asked for on behalf of an attempt that is over (`InvitationsAreLive`); the window closes only after a handoff (`ExitsOnlyAfterHandoff`); the selection is on the list (`SelectedSessionIsListed`); the in-flight flags are right (`CallsMatchFlags`); at rest both sides agree (`ViewAgreesAtRest`); answers reach the question they were typed for (`AnswersMatchPrompts`); an old load never wins (`NewestLoadWins`); nothing begins behind a hidden form (`BeginsAwake`) |
| `input` | one login | expected violation, section 6 |
| `switch` | three login services, one of each way a unit can be enabled (alias, wants, static), three releases, one edit, two failures or crashes, three if the last one is in an undo | the administrator's choice is never lost (`ChoiceRecoverable`), an edit only if a command held an older policy (`PamKeepsEdits`); a snapshot can be used (`RecoveryAvailable`); what is selected keeps its unit, a complete release and the required configuration, but for a unit torn by a deployment that did not end well (`BootableLogin`); a failed install restores all but the one configuration file whose copy failed (`FailedInstallRestores`) |
| `wire` | three requests, headers and payloads of up to two units, fair | `GreetdCalls` is implemented (`ImplementsCalls`); every call returns (`CallsReturn`) |
| `catalog` | four paths in two roots, two programs, all arguments of up to two characters in every quoting, two changes between any two accesses of a scan; two queries, two accounts of five kinds | listings and lookups are sound and complete (`ListingIsSound`); so are lists of users, and a closed connection fails no later query (`UserListIsSound`) |

Bounds:

- `MaxAttempt` stands for `u64::MAX`. Two attempts are what it takes for an
  attempt to be replaced and for late calls, tokens and watchers of the first
  one to meet the second; the exhausted counter is reached too. A third attempt
  meets the second as the second meets the first.
- `QueueCap = 1` instead of 16: with two tasks and two watchers every sender can
  find the channel full, which a capacity of 16 would hide.
- `Calls` bounds the calls in flight, not their number: a task that returned may
  call again, with any method in its `Workload` and any attempt number, existing
  or not. The workloads keep the graphs small: one task holds the conversation,
  the other one interferes.
- `MayStop` says whether the process may be told to stop at any moment. Runs
  without it still exit after a handoff.

- `Slots`, `WireCap`, `MaxLoads`, `MaxPrompts` (`greeter`): two pending calls are
  what it takes for replies to overtake each other; five signals are a whole
  round of a conversation (answer, prompt, next question) plus the next answer,
  and include those queued during a begin; three loads allow a retry during a
  reconnect; with two questions an answer can meet the wrong one.
- `Releases`, `MaxEdits` (`switch`): three releases are the current one, the
  previous one and one being installed or orphaned. Releases are symmetric.
- `MaxStops`, `MaxUndoStops` (`switch`): two calls that fail, or crashes, are a
  damaged host and a failure in what is done to it next; a third one may cut
  short the undo of the deployment that failed on the damaged host. Calls
  that cannot but fail are not counted. The policy has nothing to do with the
  other files, so `focus` in `MCLoginSwitch` explores its edits with one login
  service and without a layout, and the files without edits.
- `MaxRequests`, `HeaderSize`, `MaxFrame` (`wire`): two units are the smallest
  frame part that can be cut; three requests make two connections with an
  abandoned one between them.
- `MaxChanges`, `MaxTurns`, `MaxLength` (`catalog`): two changes during a scan
  are what it takes to replace a file after it was read and to install the
  program of its old text before that is looked for; two during queries; two
  characters cover each pair of neighbours the tokenizer distinguishes. The two
  catalogs share no state, so `focus` in `MCCatalogs` explores the scan, the users,
  or the text of one odd file on a host that does not change; while the host
  changes, lookups are for one of the sessions. The theorems are about `Catalogs`,
  where everything runs and any session is looked up. Accounts and queries are symmetric.

The `machine` run does not check for deadlock: a handoff with an exhausted
counter accepts no further event, as intended. The actor's runs do check it;
`Rest` is the step of a system with nothing in flight.

Fairness (`Fairness` in `AuthActor`), and what justifies it:

- weak fairness of `ActorStep`: every socket operation has a timeout
  (`REQUEST_TIMEOUT`, `CANCEL_TIMEOUT`), so no await of the actor lasts for ever;
- strong fairness of `Replied \/ IoFails`: PAM does not send notices, which are
  acknowledged without the user, for ever;
- strong fairness of `Send` and `WatcherSends`: tokio's channel hands free slots
  to waiting senders in order, so a sender is not overtaken for ever;
- weak fairness of the other steps of tasks and watchers, of the reaction to a
  handoff and of the stop of the actor, which are ready-to-run tasks of the
  runtime.

Clients, signals and the bus are not fair: no user has to answer a prompt.

In `GreetdWire` only `Interrupted` is weakly fair: every write and read of a
request is under `REQUEST_TIMEOUT`. greetd owes nothing. The other modules state
safety only and assume no fairness.

## 4. Theorems

TLAPS proves what follows for all values of the constants: any number of
clients, tasks, attempts, requests, accounts, files, characters, releases and calls. The only
assumptions are those the modules state about their constants (each `ASSUME`
has a name), and every one of them is evaluated by TLC in the runs. Each
inductive invariant was checked by TLC on the instance of its run before it was
proved.

Each step theorem has one case per action; steps that leave alone what an
invariant mentions are disposed of together.

### State machine (`AuthStateMachineProofs`)

`MachineTypes`, `MachineCorrect`, `AttemptIdsAreFresh`, `DetailCorrect`: the
properties of the `machine` run. `MachineTypeOK /\ AttemptTracksPhase` is
inductive; freshness needs it to know that the counter is never behind the
active attempt.

### Actor (`AuthActorProofs`)

- `ActorRunsMachine`: `Spec => MachineSpec`. Each handler is shown to raise an
  event of the machine or to leave it alone, so the theorems above hold of the
  backend.
- `TypeCorrect`: `TypeOK`. It needs `TypeInv`: the command being processed is a
  real one of the right kind wherever the actor uses it, an attempt was started
  wherever one is being ended (`CommandFits`), a task that is about to cancel a
  token or to queue a command names an existing attempt, and the control channel
  and the watchers name real clients (`TasksFit`).
- `HandlersNeverPanic`, `ResourcesCorrect`, `ControlCorrect`,
  `AuthenticationCorrect`, `ForwardingCorrect`: the safety invariants of the
  `owner` and `rivals` runs. None is inductive alone: what a handler may do at
  `pc` depends on the phase, the phase at `Recv` on what earlier handlers left,
  the token in the control channel on the owner, and the claim about greetd on
  the request that is being served. `TypeInv /\ ControlInv` conjoins them with
  the facts that connect them, is shown inductive (`InductiveInvariant`), and
  implies each.
- `ActorKeepsContract`: `Spec => KeepsContract`. Initial states map to initial
  states and each step, under the inductive invariant, to a step of
  `LoginContract` or to none.
- `CancelledForOwner` and `CancelAnswersFinal`: the action properties
  `CancelledOnlyForOwner` and `CancelAnswerIsFinal`. `CauseInv` traces what the
  actor acts on to the task behind it. `CommandsFit`: a command has one call,
  still waiting, that asked exactly this, or comes from a watcher that is done.
  `TokensFit`: a task about to cancel a token acts for the client that started
  that attempt, and behind the cancelled token of the current attempt there is
  its watcher, the shutdown, or an unanswered call of its owner. The last part is
  kept because no such call is answered while the attempt goes on
  (`RevokersWait`).

### greetd client (`GreetdWireProofs`)

`WireTypes` and `WireImplementsCalls` (`ImplementsCalls`). The invariant says
for each phase of a call where the units of its request and of its reply are: what
is written and what is left make up one frame, greetd has it or has answered it,
and what was read and what is on its way make up that answer (`CallFits`). A
frame left on an abandoned connection is of a request that failed and was not
carried out yet (`UpFits`), and no request is in two places (`FramesDistinct`).
The refinement then maps the step that decodes a frame to the answer of that very
request.

### User catalog (`CatalogProofs`)

`UserTypes` (`UserTypeOK`) and `UserListSound` (`UserListIsSound`). Exactly the
query that is connecting holds the lock (`Shared`); a query whose connection is
closed, or that runs while the service is down, has noticed it (`TroubleNoted`);
and what a query has collected and has yet to visit includes every account that
was a login user throughout (`ReadingSound`).

### Session catalog (`FoldProofs`, `CatalogProofs`)

`SessionListSound` (`ListingIsSound`), `CatalogTypes` (`TypeOK`, both catalogs
asked together) and `CatalogListSound` (`ListingIsSound` under that
specification). The argument has three parts.

1. What an author writes is read as it was meant. `EscapeIsRead`: unescaping
   undoes the escapes of a value. `WriteExecIsRead`: splitting the unescaped value
   gives back the argument vector, for any characters and any arguments, empty ones
   included, in each quoting style. `LinesAreRead`: the keys of a file are those of
   its entry group, the last assignment counts, and other groups count nothing.
   Together, `ParseIsMeant`: what `ParseSessionFile` takes from a text is exactly
   `Meant`, the command line and the program its author wrote down. Programs are
   looked for in later steps and are no part of it.
2. `SortSessionsSorts`: the sort keeps the set of sessions, puts it in order, and
   leaves no path twice that was not there twice. `FindSessionFinds`: a lookup
   returns a session with the identifier exactly if there is one.
3. No interleaving of a scan with changes of the host breaks the listing.
   `ListingIsSound` speaks of a scan that is over, so it is not inductive: what
   the result will be worth depends on what the scan still has to visit. `ScanInv`
   adds that the entry under way is one that a file meant, together with the
   programs that were looked for since, and is what the file means now unless it
   was written (`Stands`); that what was gathered was possible and what could be
   launched all the time still can (`ScanWitnessed`); that
   such a session is gathered already or under way, or its file is still to be
   read, or its root to be opened (`NothingMissed`); and that a path is gathered
   twice, or taken up and again to be read, only if it was written meanwhile
   (`NothingTwice`). `ScanShape` ties the fields of the scan to the point it has
   reached. TLC checked `ScanInv` on the instance of the `catalog` run before it
   was proved.

Parts 1 and 2 are inductions over the text, the lines and the list of sessions,
which are folds in the model. The induction theorems of the library cannot be
instantiated by the provers, so `FoldProofs` takes the step of the fold as a
constant of the module: `FoldIsRun` shows, from the definition of `FoldLeft` and
the well-foundedness of the natural numbers, that the fold is the last state of a
loop. `CatalogProofs` takes one instance for each of the four loops of the code
(unescaping, splitting, the lines, the sort) and reasons about their states.

Assumed of the constants: paths have a root, a stem and an extension
(`PathsAssumption`), programs are words (`CommandsAssumption`), the bound on
changes is a number (`BoundAssumption`), and files hold what `IsContent` describes
(`TreesAssumption`, `UpdatesAssumption`): nothing, something unreadable, an entry of
any arguments in any style, or a `Raw` value.

### Login service switch (`LoginSwitchProofs`)

`LoginTypes`, `LoginChoiceRecoverable`, `LoginRecoveryAvailable`,
`LoginBootable`, `LoginInstallRestores`, `LoginPamKeepsEdits`: every property of
the `switch` run, for any number of failures and crashes. The properties are not
inductive: what a command may leave behind depends on what it found. `Inv`
relates, for each value of `pc`, the disk to `local.before`, the disk as the
command found it. `ControlFits` says which command may be at which call;
`DisksSound` what every disk has, at rest or half way, and when its unit may be
torn; `SwitchFits` what has become of the administrator's choice; `PamFits` what
policy a command holds. A deployment and its undo are described for each thing
they change: `ReleaseFits`, `UnitFits`, `ConfigFits` (a file that is not what it
was is in `created_configs` or is the one being copied), and `UndoneFits` for
what is left at the end. `RemoveFits` is what an uninstallation and a rollback
rely on. A stop at any point leaves a disk that `DisksSound` describes, from which
the argument for the next command starts.

### Interface and backend (`GreeterSystemProofs`, `GreeterAgreementProofs`)

`GreeterTypes`, `GreeterSessionListed`, `GreeterExits`, `GreeterFlags`,
`GreeterInvitesLive`, `GreeterViewAgrees` (as invariants),
`GreeterNewestLoadWins`, `GreeterBeginsAwake`, `GreeterAnswersMatch` (of every
step): every property of the `greeter` run.

The first part of `GreeterSystemProofs` shows what each operator on the feature's record keeps,
whatever the record: its types (`Sound`), what relates its fields to its pending
calls (`Orderly`: the flags, the generation of a load, the attempt a call was
made for), and what one step may do to the loads and to the calls (`Careful`).
The replay of queued signals is a recursive function over their number; that it
keeps an invariant is shown by the least number of signals for which it would
not (`Least`).
The second part conjoins this with the backend's `MachineInv`, with which
call is being served (`ServingFits`), with the signals and answers on their way
being about started attempts (`BusFits`, `AnswersFit`), and with the fact that
an announced handoff, on the wire, queued, or as an answer, is the backend's
(`HandoffKnown`). `GoneIsForgotten` says that the interface has abandoned an
attempt whose cancellation goes on or is over, and that no reply on its way will
bind it again; so an `Idle` signal never concerns the bound attempt.

`GreeterAgreementProofs` proves what the two sides know of each other. What the
interface asks for is right only because of what has not reached it yet, so
`Agreement` speaks of the events queued during a begin followed by the signals
on the bus as of one row:

- `Steady`: the fields of the interface among themselves, with or without a bus.
  While a begin or a cancel is pending no attempt is bound, and a prompt that can
  be answered is of the bound attempt.
- `Core`: the interface and the backend. What a bound attempt allows
  (`Bound`), what the backend may be doing while none is bound (`Unbound`), what
  the number in a reply on its way is worth (`Known`), and the phase that each
  pending call will meet (`CallFits`).
- `Flows`: the row. At most one decisive event of the last attempt is in it, last
  but for the `WaitingForInput` behind a prompt, and it is still true when it
  arrives (`Decides`, `Echoes`); if the backend has decided and the interface does
  not show it, the event is in the row (`Announced`).
- `Late`: the reply to a start, and the refusal of an answer, come after the
  signals of the transitions that caused them; `Carried`, `Clean`: what a prompt and the queue hold.

Each action of the backend appends to the row, each event the interface handles
takes one from its head (`HandleCore`), and a begin that returns handles the
whole queue (`ReplayAgree`, again with the least number of events for which it
would fail). TLC checked `Agreement` on the instance of the `greeter` run, and
with three calls in flight on the first 5.5 million states, before it was
proved.

### Only model-checked

- Liveness (`DisconnectReleases`, `InterruptedAttemptEnds`, `RetriesNeedClients`,
  `EveryCallReturns`, `ShutdownCompletes`, `HandoffExits`, `CallsReturn`): the
  prover does not handle fairness and `ENABLED`.

No invariant, no action property and no refinement of a passing run is only
model-checked.

## 5. Plan

The planned models and their safety proofs are complete. What would extend them
is behaviour that is left out, named in section 7; the first candidates are the
`Cancel` command of the interface should a scene ever offer it, and commands with
absolute paths in desktop entries.

## 6. Differences between documentation and code

- `CancelTransmitted` (run `transmit`). `docs/reference/dbus.md:389` says that
  cancelling sends `cancel_session` if the socket is open. When the token
  interrupts an exchange, `finish_cancellation` closes the socket without doing
  so, on purpose (`auth.rs:1352`): the next frame boundary is unknown. greetd
  may then keep the session it was configuring, and refuse the next one.
- `FailedReturnsToIdle` (run `failed`). `docs/reference/dbus.md:393` says that the
  backend returns to `Idle` after the cleanup of a failed attempt. It stays in
  `Failed` until the next `BeginAuthentication`.
- `InputErrorSurvives` (run `input`). The comment at `greeter_feature.dart:602`
  says that the mode is kept so that a local input error is not undone by the
  `WaitingForInput` signal behind its prompt. The mode is kept, but
  `clearAuthError` (line 631) removes the error and its recovery. The view then is
  in the error mode without an error: it accepts no answer and offers no retry.

Behaviour that contradicts no text, but is worth knowing:

- Interface. Selecting another session in the error mode also clears the error
  and its recovery (`greeter_feature.dart:415`). While the failing reply of an
  earlier `StartSession` is pending, the next attempt's authentication does not
  start its session (436), and the late reply no longer concerns it: the view
  stays busy, which is why `ViewAgreesAtRest` allows for it. A start-up that
  finds the backend in any state but `Idle` offers to reconnect, which finds the
  same state again (142).
- Login switch. A first installation that is killed leaves files no later
  installation accepts (`manage.py:228`). So does one that fails while a
  configuration file is copied: the torn file is not in `created_configs`, so
  `CONFIGURATION.rmdir` (312) refuses, after the installation is gone, and the
  command ends with that refusal instead of the error that caused it;
  `test_failed_initial_install_can_be_retried` covers a failing `daemon-reload`
  only. In a managed reinstallation the torn file stays as well, and later
  installations skip it, because it exists: a torn `display-layout.json` makes
  `display-layout.py` fail, and with it the start of the greeter, which
  `BootableLogin` does not exclude (it speaks of the two required files). A crash, a full
  disk, or a failing undo while the unit is written in place (285, 304) leaves
  the selected login service with a torn unit until the next deployment that
  ends; `BootableLogin` allows for it by `stopped`. An interrupted uninstallation
  cannot be run again (`UNIT.unlink` raises, 397), and until a reinstallation the
  remains can be enabled without a unit: `BootableLogin` and `RecoveryAvailable`
  hold outside that window (`removing`). Reinstalled over such remains,
  `previous` may name a release that is gone. An edit of the PAM policy made while
  an installation runs is overwritten, by its deployment (288) or its undo (298).
  A crash between the two links of a rollback
  leaves both naming the same release (385). After a pending snapshot and another
  choice of the administrator, both `enable` and `disable` refuse.
- Catalogs. If the bus closes while users are read, the list is shorter and no
  error is reported. An unreadable directory for X11 sessions hides the Wayland
  sessions as well. A file replaced during a scan may be listed twice. A session
  that could not be launched at any one instant can be listed, and handed to
  greetd, if its file is replaced after it was read (`session_catalog.rs:151`) and
  its old program is installed before that is looked for (172).

## 7. Not modelled

- JSON and D-Bus encodings, the wiping of secrets, logging, texts and layout.
- The theme side: scene runtime, codec, code generator, SDK, components, themes
  and the studio. None of it takes part in a login; the runtime is presentation,
  the studio a sequential single-user editor. Its save compares the file on disk
  with what it read and renames afterwards, so an outside change between the two
  is lost; this hazard is listed without a property.
- Launch scripts and command line tools: sequential process control.
- Of the modelled parts: `dispose`, and `CancelAuthentication` and
  `BeginAuthentication` as commands of their own, which the scene does not offer;
  `DesktopNames`, the check of environment values and absolute command paths in
  desktop entries; the checks of the host before the first installation, the
  greeter account, the keyring packages and the copy of the controller.
- Power loss that takes back writes which had completed (nothing in `manage.py`
  syncs a file): a crash keeps what was written before it. systemd's changes of
  links are single steps; that `systemctl` passes over a damaged unit is left out
  where the host had no login service. Session directories are not created or
  removed during a scan.
- What is external (greetd, PAM, the bus, systemd, AccountsService, the file
  system) appears only as the environment of the parts that use it. Calls for
  which the bus itself gives up are not modelled: the backend has no timeout on
  them.
