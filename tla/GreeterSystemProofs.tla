------------------------- MODULE GreeterSystemProofs -------------------------
(***************************************************************************)
(* The greeter's interface and the backend, for any number of accounts,    *)
(* sessions, attempts, calls and signals on their way: first what every    *)
(* stretch of code of the feature preserves, whatever the backend sends    *)
(* it, then the two together.                                              *)
(***************************************************************************)
EXTENDS GreeterSystem, AuthStateMachineProofs, SequenceTheorems, FiniteSetTheorems,
        WellFoundedInduction, TLAPS

-----------------------------------------------------------------------------
(* What a feature, a signal, a call and a reply are.                        *)

Signals ==
  [attempt : 0..MaxAttempt, what : {"state"}, value : Phases, number : {0}]
  \cup
  [attempt : Attempts, what : {"prompt"}, value : {"input", "info", "error"}, number : Nat]

Prompts == {NoPrompt} \cup [attempt : Attempts, kind : {"input", "info"}, number : Nat]

Calls ==
  {NoCall}
  \cup [op : {"getState"}, arg : {None}, key : {None}]
  \cup [op : {"listUsers"}, arg : Phases, key : {None}]
  \cup [op : {"listSessions"}, arg : {None}, key : Nat]
  \cup [op : {"readPreference"}, arg : SUBSET Sessions, key : Nat]
  \cup [op : {"begin"}, arg : Users, key : {None}]
  \cup [op : {"respond"}, arg : Nat, key : Attempts]
  \cup [op : {"cancel"}, arg : Users, key : Attempts]
  \cup [op : {"start"}, arg : Sessions, key : Attempts]
  \cup [op : {"powerAction"}, arg : {None}, key : {None}]

Feature ==
  [service : {"starting", "ready", "unavailable"},
   mode : {"userSelection", "prompting", "submitting", "sessionSelection",
           "handingOff", "error"},
   catalog : {"empty", "loading", "ready", "failed"},
   power : {"idle", "executing"},
   user : Users \cup {None},
   session : Sessions \cup {None},
   sessions : SUBSET Sessions,
   prompt : Prompts,
   promptError : BOOLEAN,
   recovery : {"none", "retryAuthentication", "retryPrompt", "reconnectService"},
   dormant : BOOLEAN,
   attempt : Attempts \cup {None},
   beginInFlight : BOOLEAN,
   startInFlight : BOOLEAN,
   queued : Seq(Signals),
   generation : 0..MaxLoads,
   loaded : Nat,
   exiting : BOOLEAN,
   calls : [Slots -> Calls]]

-----------------------------------------------------------------------------
(* The inductive invariant: the feature.                                    *)

Has(f, op) == \E i \in Slots : f.calls[i].op = op

Once(f, op) == \A i, j \in Slots : f.calls[i].op = op /\ f.calls[j].op = op => i = j

\* What holds of the feature whatever reaches it.
Sound(f) ==
  /\ f \in Feature
  /\ f.session # None => f.session \in f.sessions
  /\ f.loaded <= f.generation
  /\ Once(f, "start")
  /\ f.startInFlight <=> Has(f, "start")

\* The service is being loaded: nothing else that concerns an attempt goes on.
Loading(f) ==
  /\ f.service = "starting"
  /\ f.generation < MaxLoads
  /\ f.user = None
  /\ f.attempt = None
  /\ ~f.beginInFlight
  /\ ~Has(f, "cancel")
  /\ f.mode \in {"userSelection", "handingOff"}

Cancelling(f) ==
  /\ f.service = "ready"
  /\ f.attempt = None
  /\ f.prompt = NoPrompt
  /\ ~f.beginInFlight
  /\ f.mode \in {"submitting", "handingOff"}

Beginning(f) ==
  /\ f.service = "ready"
  /\ f.attempt = None
  /\ f.mode \in {"submitting", "handingOff"}

OneLoad(f) ==
  \A i, j \in Slots :
    /\ f.calls[i].op \in {"getState", "listUsers"}
    /\ f.calls[j].op \in {"getState", "listUsers"}
    => i = j

\* The commands do not overlap as long as the bus is there.
Orderly(f) ==
  /\ OneLoad(f)
  /\ Once(f, "cancel") /\ Once(f, "begin")
  /\ Has(f, "getState") \/ Has(f, "listUsers") => Loading(f)
  /\ Has(f, "cancel") => Cancelling(f)
  /\ f.beginInFlight <=> Has(f, "begin")
  /\ f.beginInFlight => Beginning(f)
  /\ f.mode = "userSelection" => f.attempt = None /\ (f.service = "ready" \/ f.user = None)

-----------------------------------------------------------------------------
(* Natural numbers are well ordered.  An induction over data is carried out  *)
(* on the least counterexample.                                              *)

Below == {p \in Nat \X Nat : p[1] < p[2]}

\* A set of natural numbers has a least element.
LEMMA Least ==
  ASSUME NEW T \in SUBSET Nat, T # {}
  PROVE  \E n \in T : \A m \in T : n <= m
<1>1. IsWellFoundedOn(Below, Nat)
  BY NatLessThanWellFounded DEF OpToRel, Below
<1>2. PICK n \in T : \A m \in T : ~(<<m, n>> \in Below)
  BY <1>1, WFMin, Zenon
<1>3. \A m \in T : ~(m < n)
  BY <1>2 DEF Below
<1> QED
  BY <1>3

\* The features that a replay goes through.
IsRun(run, f, events, k) ==
  run = [n \in 0..k |-> IF n = 0 THEN f ELSE HandleEvent(run[n - 1], events[n])]

\* The recursive definition of a replay has a solution.
LEMMA RunExists ==
  ASSUME NEW f, NEW events, NEW k \in Nat
  PROVE  \E run : IsRun(run, f, events, k)
<1> DEFINE T == {n \in Nat : ~\E run : IsRun(run, f, events, n)}
<1> SUFFICES ASSUME T # {}
             PROVE  FALSE
  OBVIOUS
<1>1. PICK n \in T : \A m \in T : n <= m
  <2> HIDE DEF T
  <2>1. T \in SUBSET Nat
    BY DEF T
  <2> QED
    BY <2>1, Least
<1>2. n # 0
  <2> SUFFICES \E run : IsRun(run, f, events, 0)
    BY <1>1
  <2>1. IsRun([i \in 0..0 |-> f], f, events, 0)
    BY DEF IsRun
  <2> QED
    BY <2>1
<1>3. PICK run : IsRun(run, f, events, n - 1)
  <2>1. n - 1 \in Nat /\ ~(n <= n - 1)
    BY <1>1, <1>2
  <2> QED
    BY <1>1, <2>1
<1> DEFINE longer == [i \in 0..n |-> IF i = n THEN HandleEvent(run[n - 1], events[n]) ELSE run[i]]
<1>4. ASSUME NEW i \in 0..n
      PROVE  longer[i] = IF i = 0 THEN f ELSE HandleEvent(longer[i - 1], events[i])
  <2>1. CASE i = n
    BY <1>1, <1>2, <2>1
  <2>2. CASE i # n
    <3>1. i \in 0..(n - 1)
      BY <1>1, <2>2
    <3>2. run[i] = IF i = 0 THEN f ELSE HandleEvent(run[i - 1], events[i])
      BY <1>3, <3>1 DEF IsRun
    <3> QED
      BY <1>1, <2>2, <3>1, <3>2
  <2> QED
    BY <2>1, <2>2
<1>5. IsRun(longer, f, events, n)
  <2>1. longer = [i \in 0..n |-> longer[i]]
    OBVIOUS
  <2> HIDE DEF longer
  <2> QED
    BY <1>4, <2>1 DEF IsRun
<1> QED
  BY <1>1, <1>5

\* A replay is the last of its run.
LEMMA ReplayRuns ==
  ASSUME NEW f, NEW events, Len(events) \in Nat
  PROVE  \E run : IsRun(run, f, events, Len(events)) /\ Replay(f, events) = run[Len(events)]
<1> DEFINE k == Len(events)
           run == CHOOSE run : run = [n \in 0..k |-> IF n = 0 THEN f
                                                     ELSE HandleEvent(run[n - 1], events[n])]
<1>1. \E r : IsRun(r, f, events, k)
  BY RunExists
<1>2. IsRun(run, f, events, k)
  BY <1>1, Zenon DEF IsRun
<1>3. Replay(f, events) = run[k]
  BY Zenon DEF Replay
<1> QED
  BY <1>2, <1>3, Zenon

-----------------------------------------------------------------------------
(* Calls and the slots they wait in.                                        *)

\* What a call may be.
LEMMA CallTypes ==
  ASSUME NEW c \in Calls
  PROVE  /\ c.op \in CallOps
         /\ c.op = "none" => c = NoCall
         /\ c.op \in {"respond", "cancel", "start"} => c.key \in Attempts
         /\ c.op = "cancel" => c.arg \in Users
         /\ c.op = "listUsers" => c.arg \in Phases
         /\ c.op = "readPreference" => c.arg \subseteq Sessions
         /\ c.op \in {"listSessions", "readPreference"} => c.key \in Nat
BY DEF Calls, CallOps, NoCall, Pending

\* The calls the feature makes are calls.
LEMMA PendingTypes ==
  /\ NoCall \in Calls /\ NoCall.op = "none"
  /\ Pending("getState", None, None) \in Calls
  /\ Pending("powerAction", None, None) \in Calls
  /\ \A phase1 \in Phases : Pending("listUsers", phase1, None) \in Calls
  /\ \A n \in Nat : Pending("listSessions", None, n) \in Calls
  /\ \A n \in Nat, sessions \in SUBSET Sessions : Pending("readPreference", sessions, n) \in Calls
  /\ \A u \in Users : Pending("begin", u, None) \in Calls
  /\ \A n \in Nat, k \in Attempts : Pending("respond", n, k) \in Calls
  /\ \A u \in Users, k \in Attempts : Pending("cancel", u, k) \in Calls
  /\ \A s \in Sessions, k \in Attempts : Pending("start", s, k) \in Calls
BY DEF Calls, NoCall, Pending

\* A new call takes a free slot.
LEMMA AwaitTakes ==
  ASSUME NEW f, FreeSlots(f) # {}, NEW call
  PROVE  \E i \in Slots : f.calls[i] = NoCall /\ Await(f, call) = [f EXCEPT !.calls[i] = call]
<1> DEFINE first == CHOOSE i \in FreeSlots(f) : \A j \in FreeSlots(f) : i <= j
<1>1. FreeSlots(f) \in SUBSET Nat
  BY SlotsAssumption DEF FreeSlots
<1>2. \E i \in FreeSlots(f) : \A j \in FreeSlots(f) : i <= j
  BY <1>1, Least
<1>3. first \in FreeSlots(f)
  BY <1>2, Zenon
<1>4. Await(f, call) = [f EXCEPT !.calls[first] = call]
  BY DEF Await
<1> HIDE DEF first
<1> QED
  BY <1>3, <1>4 DEF FreeSlots

\* A call is put into a slot: nothing else changes.
LEMMA CallPut ==
  ASSUME NEW f \in Feature, NEW i \in Slots, NEW c \in Calls
  PROVE  LET g == [f EXCEPT !.calls[i] = c] IN
         /\ g \in Feature
         /\ g = [f EXCEPT !.calls = g.calls]
         /\ g.calls[i] = c
         /\ \A j \in Slots \ {i} : g.calls[j] = f.calls[j]
BY DEF Feature
-----------------------------------------------------------------------------
(* The feature: its synchronous stretches of code.                          *)

\* What a stretch may do, unless it binds an attempt or learns of the handoff.
Follows(f, g) ==
  /\ g.loaded >= f.loaded
  /\ g.exiting => f.exiting
  /\ g.attempt \in {f.attempt, None}
  /\ \A j \in Slots :
       \/ g.calls[j] = f.calls[j]
       \/ f.calls[j] = NoCall /\ (g.calls[j].op = "begin" => ~g.dormant)
  /\ g.mode = "handingOff" => f.mode = "handingOff"
  /\ g.queued \in {f.queued, <<>>}

\* What every reset of a flag or of the queue needs.
LEMMA Literals == TRUE \in BOOLEAN /\ FALSE \in BOOLEAN /\ <<>> \in Seq(Signals)
<1>1. TRUE \in BOOLEAN /\ FALSE \in BOOLEAN
  BY Zenon
<1>2. <<>> \in Seq(Signals)
  OBVIOUS
<1> QED
  BY <1>1, <1>2

\* `await` on a new call: it takes a free slot, the rest stays.
LEMMA AwaitFits ==
  ASSUME NEW f \in Feature, FreeSlots(f) # {}, NEW call \in Calls
  PROVE  LET g == Await(f, call) IN
         /\ g \in Feature
         /\ g = [f EXCEPT !.calls = g.calls]
         /\ \E i \in Slots : /\ f.calls[i] = NoCall /\ g.calls[i] = call
                             /\ \A j \in Slots \ {i} : g.calls[j] = f.calls[j]
         /\ \A op : op # "none" => (Has(g, op) <=> Has(f, op) \/ call.op = op)
         /\ \A op : op # "none" /\ Once(f, op) /\ (call.op = op => ~Has(f, op)) => Once(g, op)
         /\ OneLoad(f) /\ (call.op \in {"getState", "listUsers"} =>
                              ~Has(f, "getState") /\ ~Has(f, "listUsers"))
              => OneLoad(g)
<1> DEFINE g == Await(f, call)
<1>1. PICK i \in Slots : f.calls[i] = NoCall /\ g = [f EXCEPT !.calls[i] = call]
  BY AwaitTakes
<1>2. /\ g \in Feature
      /\ g = [f EXCEPT !.calls = g.calls]
      /\ g.calls[i] = call
      /\ \A j \in Slots \ {i} : g.calls[j] = f.calls[j]
  BY <1>1, CallPut
<1> HIDE DEF g
<1>3. NoCall.op = "none"
  BY PendingTypes
<1>4. /\ \A op : op # "none" => (Has(g, op) <=> Has(f, op) \/ call.op = op)
      /\ \A op : op # "none" /\ Once(f, op) /\ (call.op = op => ~Has(f, op)) => Once(g, op)
      /\ OneLoad(f) /\ (call.op \in {"getState", "listUsers"} =>
                           ~Has(f, "getState") /\ ~Has(f, "listUsers"))
           => OneLoad(g)
  BY <1>1, <1>2, <1>3 DEF Has, Once, OneLoad
<1> QED
  BY <1>1, <1>2, <1>4 DEF g

\* A call returns, its slot is free.
LEMMA ReturnFits ==
  ASSUME NEW f, Sound(f), NEW i \in Slots
  PROVE  LET g == Return(f, i) IN
         /\ g \in Feature
         /\ g = [f EXCEPT !.calls = g.calls]
         /\ g.calls[i] = NoCall /\ \A j \in Slots \ {i} : g.calls[j] = f.calls[j]
         /\ FreeSlots(g) # {}
         /\ f.calls[i].op # "start" => Sound(g)
         /\ f.calls[i].op # "begin" /\ Orderly(f) => Orderly(g)
<1> DEFINE g == Return(f, i)
<1>1. /\ g \in Feature
      /\ g = [f EXCEPT !.calls = g.calls]
      /\ g.calls[i] = NoCall /\ \A j \in Slots \ {i} : g.calls[j] = f.calls[j]
  BY CallPut, PendingTypes DEF Return, Sound
<1>2. NoCall.op = "none"
  BY PendingTypes
<1> HIDE DEF g
<1>3. FreeSlots(g) # {}
  BY <1>1 DEF FreeSlots
<1>4. /\ g.service = f.service /\ g.mode = f.mode /\ g.user = f.user /\ g.session = f.session
      /\ g.sessions = f.sessions /\ g.prompt = f.prompt /\ g.attempt = f.attempt
      /\ g.beginInFlight = f.beginInFlight /\ g.startInFlight = f.startInFlight
      /\ g.generation = f.generation /\ g.loaded = f.loaded
  BY <1>1 DEF Sound, Feature
<1>5. ASSUME f.calls[i].op # "start"
      PROVE  Sound(g)
  BY <1>1, <1>2, <1>4, <1>5 DEF Sound, Has, Once
<1>6. ASSUME f.calls[i].op # "begin", Orderly(f)
      PROVE  Orderly(g)
  <2>1. Once(g, "cancel") /\ Once(g, "begin") /\ (Has(g, "begin") <=> Has(f, "begin"))
        /\ (Has(g, "cancel") => Has(f, "cancel"))
        /\ (Has(g, "getState") => Has(f, "getState"))
        /\ (Has(g, "listUsers") => Has(f, "listUsers"))
    BY <1>1, <1>2, <1>6 DEF Orderly, Once, Has
  <2>2. OneLoad(g)
    BY <1>1, <1>2, <1>6 DEF Orderly, OneLoad
  <2> QED
    BY <1>4, <1>6, <2>1, <2>2 DEF Orderly, Loading, Cancelling, Beginning
<1> QED
  BY <1>1, <1>3, <1>5, <1>6 DEF g

\* A conversation is begun with a user before the screen, over none that goes on.
LEMMA BeginFits ==
  ASSUME NEW f, Sound(f), FreeSlots(f) # {}
  PROVE  LET g == BeginIfReady(f) IN
         /\ Sound(g)
         /\ Follows(f, g)
         /\ Orderly(f) => Orderly(g)
<1> DEFINE g == BeginIfReady(f)
<1>1. CASE f.dormant \/ ~CanBeginWith(f)
  BY <1>1 DEF BeginIfReady, Follows, Sound, Feature
<1>2. CASE ~f.dormant /\ CanBeginWith(f)
  <2> DEFINE h == [f EXCEPT !.mode = "submitting", !.recovery = "none", !.promptError = FALSE,
                            !.beginInFlight = TRUE, !.queued = <<>>]
             call == Pending("begin", f.user, None)
  <2>1. f \in Feature /\ f.user \in Users
    BY <1>2 DEF Sound, Feature, CanBeginWith
  <2>2. h \in Feature
    BY <2>1, Literals, ZenonT(40) DEF Feature
  <2>3. /\ h.mode = "submitting" /\ h.beginInFlight = TRUE /\ h.queued = <<>>
        /\ h.service = f.service /\ h.user = f.user /\ h.session = f.session
        /\ h.sessions = f.sessions /\ h.prompt = f.prompt /\ h.attempt = f.attempt
        /\ h.startInFlight = f.startInFlight /\ h.dormant = f.dormant /\ h.exiting = f.exiting
        /\ h.generation = f.generation /\ h.loaded = f.loaded /\ h.calls = f.calls
    BY <2>1 DEF Feature
  <2>4. g = Await(h, call)
    BY <1>2 DEF BeginIfReady, BeginAuthenticationCall
  <2>5. call \in Calls /\ call.op = "begin"
    BY <2>1, PendingTypes DEF Pending
  <2>6. FreeSlots(h) # {}
    BY <2>3 DEF FreeSlots
  <2> HIDE DEF h, call, g
  <2>7. /\ g \in Feature
        /\ g = [h EXCEPT !.calls = g.calls]
        /\ \E i \in Slots : /\ h.calls[i] = NoCall /\ g.calls[i] = call
                            /\ \A j \in Slots \ {i} : g.calls[j] = h.calls[j]
        /\ \A op : op # "none" => (Has(g, op) <=> Has(h, op) \/ call.op = op)
        /\ \A op : op # "none" /\ Once(h, op) /\ (call.op = op => ~Has(h, op)) => Once(g, op)
        /\ OneLoad(h) /\ (call.op \in {"getState", "listUsers"} =>
                             ~Has(h, "getState") /\ ~Has(h, "listUsers"))
             => OneLoad(g)
    BY <2>2, <2>4, <2>5, <2>6, AwaitFits
  <2>8. /\ g.mode = "submitting" /\ g.beginInFlight = TRUE /\ g.queued = <<>>
        /\ g.service = f.service /\ g.user = f.user /\ g.session = f.session
        /\ g.sessions = f.sessions /\ g.prompt = f.prompt /\ g.attempt = f.attempt
        /\ g.startInFlight = f.startInFlight /\ g.dormant = f.dormant /\ g.exiting = f.exiting
        /\ g.generation = f.generation /\ g.loaded = f.loaded
    BY <2>2, <2>3, <2>7 DEF Feature
  <2>9. /\ \A op : Has(h, op) <=> Has(f, op)
        /\ \A op : Once(h, op) <=> Once(f, op)
        /\ OneLoad(h) <=> OneLoad(f)
    BY <2>3 DEF Has, Once, OneLoad
  <2>10. Sound(g)
    BY <2>5, <2>7, <2>8, <2>9 DEF Sound
  <2>11. Follows(f, g)
    BY <1>2, <2>1, <2>3, <2>5, <2>7, <2>8 DEF Follows, Feature
  <2>12. ASSUME Orderly(f)
         PROVE  Orderly(g)
    <3>1. f.mode = "userSelection" /\ f.attempt = None /\ f.service = "ready"
      BY <1>2, <2>12 DEF CanBeginWith, Orderly
    <3>2. ~Has(f, "begin") /\ ~Has(f, "cancel") /\ ~Has(f, "getState") /\ ~Has(f, "listUsers")
      BY <3>1, <2>12 DEF Orderly, Loading, Cancelling, Beginning
    <3>3. /\ ~Has(g, "cancel") /\ ~Has(g, "getState") /\ ~Has(g, "listUsers")
          /\ Has(g, "begin") /\ Once(g, "begin") /\ Once(g, "cancel") /\ OneLoad(g)
      BY <2>5, <2>7, <2>9, <2>12, <3>2 DEF Orderly
    <3> QED
      BY <2>8, <3>1, <3>3 DEF Orderly, Beginning
  <2> QED
    BY <2>10, <2>11, <2>12 DEF g
<1> QED
  BY <1>1, <1>2

-----------------------------------------------------------------------------
(* The feature: the events of the gateway.                                  *)

\* What an event, or a row of events, may do.
Handled(f, g) ==
  /\ g.loaded = f.loaded /\ g.exiting = f.exiting
  /\ g.dormant = f.dormant /\ g.beginInFlight = f.beginInFlight
  /\ g.attempt \in {f.attempt, None}
  /\ \A j \in Slots :
       g.calls[j] = f.calls[j] \/ (f.calls[j] = NoCall /\ g.calls[j].op = "start")

\* A session is started at most once at a time.
LEMMA StartFits ==
  ASSUME NEW f, Sound(f), f.startInFlight \/ FreeSlots(f) # {}
  PROVE  LET g == StartSession(f) IN
         /\ Sound(g)
         /\ Handled(f, g)
         /\ g.queued = f.queued
         /\ g.startInFlight \/ FreeSlots(g) # {}
         /\ g.mode \in {f.mode, "submitting"}
         /\ Orderly(f) => Orderly(g)
<1> DEFINE g == StartSession(f)
<1>1. CASE f.attempt = None \/ f.session = None \/ f.startInFlight
  BY <1>1 DEF StartSession, Handled
<1>2. CASE ~(f.attempt = None \/ f.session = None \/ f.startInFlight)
  <2> DEFINE h == [f EXCEPT !.startInFlight = TRUE, !.mode = "submitting"]
             call == Pending("start", f.session, f.attempt)
  <2>1. f \in Feature /\ f.session \in Sessions /\ f.attempt \in Attempts
    BY <1>2 DEF Sound, Feature
  <2>2. h \in Feature
    BY <2>1, Literals DEF Feature
  <2>3. /\ h.mode = "submitting" /\ h.startInFlight = TRUE /\ h.queued = f.queued
        /\ h.service = f.service /\ h.user = f.user /\ h.session = f.session
        /\ h.sessions = f.sessions /\ h.prompt = f.prompt /\ h.attempt = f.attempt
        /\ h.beginInFlight = f.beginInFlight /\ h.dormant = f.dormant /\ h.exiting = f.exiting
        /\ h.generation = f.generation /\ h.loaded = f.loaded /\ h.calls = f.calls
    BY <2>1 DEF Feature
  <2>4. g = Await(h, call)
    BY <1>2 DEF StartSession
  <2>5. call \in Calls /\ call.op = "start"
    BY <2>1, PendingTypes DEF Pending
  <2>6. FreeSlots(h) # {}
    BY <1>2, <2>3 DEF FreeSlots
  <2> HIDE DEF h, call, g
  <2>7. /\ g \in Feature
        /\ g = [h EXCEPT !.calls = g.calls]
        /\ \E i \in Slots : /\ h.calls[i] = NoCall /\ g.calls[i] = call
                            /\ \A j \in Slots \ {i} : g.calls[j] = h.calls[j]
        /\ \A op : op # "none" => (Has(g, op) <=> Has(h, op) \/ call.op = op)
        /\ \A op : op # "none" /\ Once(h, op) /\ (call.op = op => ~Has(h, op)) => Once(g, op)
        /\ OneLoad(h) /\ (call.op \in {"getState", "listUsers"} =>
                             ~Has(h, "getState") /\ ~Has(h, "listUsers"))
             => OneLoad(g)
    BY <2>2, <2>4, <2>5, <2>6, AwaitFits
  <2>8. /\ g.mode = "submitting" /\ g.startInFlight = TRUE /\ g.queued = f.queued
        /\ g.service = f.service /\ g.user = f.user /\ g.session = f.session
        /\ g.sessions = f.sessions /\ g.prompt = f.prompt /\ g.attempt = f.attempt
        /\ g.beginInFlight = f.beginInFlight /\ g.dormant = f.dormant /\ g.exiting = f.exiting
        /\ g.generation = f.generation /\ g.loaded = f.loaded
    BY <2>2, <2>3, <2>7 DEF Feature
  <2>9. /\ \A op : Has(h, op) <=> Has(f, op)
        /\ \A op : Once(h, op) <=> Once(f, op)
        /\ OneLoad(h) <=> OneLoad(f)
    BY <2>3 DEF Has, Once, OneLoad
  <2>10. Sound(g)
    BY <1>2, <2>5, <2>7, <2>8, <2>9 DEF Sound
  <2>11. Handled(f, g)
    BY <1>2, <2>3, <2>5, <2>7, <2>8 DEF Handled
  <2>12. ASSUME Orderly(f)
         PROVE  Orderly(g)
    <3>1. ~Has(f, "cancel") /\ ~Has(f, "getState") /\ ~Has(f, "listUsers")
          /\ ~Has(f, "begin") /\ ~f.beginInFlight
      BY <1>2, <2>12 DEF Orderly, Loading, Cancelling, Beginning
    <3>2. /\ ~Has(g, "cancel") /\ ~Has(g, "getState") /\ ~Has(g, "listUsers")
          /\ ~Has(g, "begin") /\ Once(g, "begin") /\ Once(g, "cancel") /\ OneLoad(g)
      BY <2>5, <2>7, <2>9, <2>12, <3>1 DEF Orderly
    <3> QED
      BY <2>8, <3>1, <3>2 DEF Orderly
  <2> QED
    BY <2>8, <2>10, <2>11, <2>12 DEF g
<1> QED
  BY <1>1, <1>2

\* A state of the bound attempt: an authenticated one starts the chosen session.
LEMMA StateFits ==
  ASSUME NEW f, Sound(f), f.startInFlight \/ FreeSlots(f) # {}, f.attempt # None,
         NEW state \in Phases
  PROVE  LET g == ApplyBackendState(f, state) IN
         /\ Sound(g)
         /\ Handled(f, g)
         /\ g.queued = f.queued
         /\ g.startInFlight \/ FreeSlots(g) # {}
         /\ g.mode = "handingOff" => f.mode = "handingOff" \/ state = "HandingOff"
         /\ Orderly(f) /\ state # "Idle" => Orderly(g)
<1> DEFINE over == state \in {"Authenticated", "Failed"}
           h == [f EXCEPT
                   !.attempt = IF state = "Failed" THEN None ELSE @,
                   !.mode = NextMode(state, f.mode),
                   !.recovery = IF state = "Failed" THEN "retryAuthentication" ELSE "none",
                   !.prompt = IF over THEN NoPrompt ELSE @,
                   !.promptError = @ /\ ~over]
           k == [h EXCEPT !.mode = "sessionSelection"]
           g == ApplyBackendState(f, state)
<1>1. f \in Feature
  BY DEF Sound
<1>2. /\ NextMode(state, f.mode) \in {"userSelection", "prompting", "submitting",
                                      "sessionSelection", "handingOff", "error"}
      /\ NextMode(state, f.mode) = "handingOff" => f.mode = "handingOff" \/ state = "HandingOff"
      /\ NextMode(state, f.mode) = "userSelection" =>
           f.mode = "userSelection" \/ state = "Idle"
  BY <1>1 DEF NextMode, SubmittingStates, Phases, ActivePhases, InvalidatingPhases, Feature
<1>3. /\ h.mode = NextMode(state, f.mode)
      /\ h.service = f.service /\ h.user = f.user /\ h.session = f.session
      /\ h.sessions = f.sessions /\ h.attempt \in {f.attempt, None}
      /\ h.startInFlight = f.startInFlight /\ h.queued = f.queued
      /\ h.beginInFlight = f.beginInFlight /\ h.dormant = f.dormant /\ h.exiting = f.exiting
      /\ h.generation = f.generation /\ h.loaded = f.loaded /\ h.calls = f.calls
  BY <1>1 DEF Feature
<1>4. h \in Feature
  <2>1. (f.promptError /\ ~over) \in BOOLEAN
    <3>1. CASE over
      BY <3>1, Zenon
    <3>2. CASE ~over
      BY <3>2, <1>1 DEF Feature
    <3> QED
      BY <3>1, <3>2
  <2>2. NoPrompt \in Prompts
    BY DEF Prompts
  <2> DEFINE attempt == IF state = "Failed" THEN None ELSE f.attempt
             mode == NextMode(state, f.mode)
             recovery == IF state = "Failed" THEN "retryAuthentication" ELSE "none"
             prompt == IF over THEN NoPrompt ELSE f.prompt
             shown == f.promptError /\ ~over
  <2>3. /\ attempt \in Attempts \cup {None}
        /\ recovery \in {"none", "retryAuthentication", "retryPrompt", "reconnectService"}
        /\ prompt \in Prompts
    BY <1>1, <2>2 DEF Feature
  <2>4. h = [f EXCEPT !.attempt = attempt, !.mode = mode, !.recovery = recovery,
                      !.prompt = prompt, !.promptError = shown]
    OBVIOUS
  <2> HIDE DEF over, h, attempt, recovery, prompt
  <2>5. shown \in BOOLEAN /\ mode \in {"userSelection", "prompting", "submitting",
                                       "sessionSelection", "handingOff", "error"}
    BY <1>2, <2>1
  <2> HIDE DEF shown, mode
  <2> DEFINE f1 == [f EXCEPT !.attempt = attempt, !.mode = mode]
             f2 == [f1 EXCEPT !.recovery = recovery, !.prompt = prompt]
             f3 == [f2 EXCEPT !.promptError = shown]
  <2>6. h = f3
    BY <2>4
  <2>7. f1 \in Feature
    BY <1>1, <2>3, <2>5, ZenonT(40) DEF Feature
  <2> HIDE DEF f1
  <2>8. f2 \in Feature
    BY <2>3, <2>7, ZenonT(40) DEF Feature
  <2> HIDE DEF f2
  <2>9. f3 \in Feature
    BY <2>5, <2>8 DEF Feature
  <2> QED
    BY <2>6, <2>9
<1>5. k \in Feature /\ k = [h EXCEPT !.mode = "sessionSelection"]
  <2> HIDE DEF h
  <2> QED
    BY <1>4 DEF Feature
<1>6. /\ state # "Authenticated" => g = h
      /\ state = "Authenticated" /\ h.session = None => g = k
      /\ state = "Authenticated" /\ h.session # None => g = StartSession(h)
  BY DEF ApplyBackendState
<1> HIDE DEF h, k, g
<1>7. /\ k.mode = "sessionSelection"
      /\ k.service = h.service /\ k.user = h.user /\ k.session = h.session
      /\ k.sessions = h.sessions /\ k.attempt = h.attempt
      /\ k.startInFlight = h.startInFlight /\ k.queued = h.queued
      /\ k.beginInFlight = h.beginInFlight /\ k.dormant = h.dormant /\ k.exiting = h.exiting
      /\ k.generation = h.generation /\ k.loaded = h.loaded /\ k.calls = h.calls
  BY <1>4, <1>5 DEF Feature
<1>8. /\ \A op : (Has(h, op) <=> Has(f, op)) /\ (Has(k, op) <=> Has(f, op))
      /\ \A op : (Once(h, op) <=> Once(f, op)) /\ (Once(k, op) <=> Once(f, op))
      /\ (OneLoad(h) <=> OneLoad(f)) /\ (OneLoad(k) <=> OneLoad(f))
      /\ FreeSlots(h) = FreeSlots(f) /\ FreeSlots(k) = FreeSlots(f)
  BY <1>3, <1>7 DEF Has, Once, OneLoad, FreeSlots
<1>9. Sound(h) /\ Sound(k)
  BY <1>3, <1>4, <1>5, <1>7, <1>8 DEF Sound
<1>10. Handled(f, h) /\ Handled(f, k)
  BY <1>3, <1>7 DEF Handled
<1>11. ASSUME Orderly(f), state # "Idle"
       PROVE  Orderly(h) /\ Orderly(k)
  <2>1. ~Has(f, "cancel") /\ ~Has(f, "getState") /\ ~Has(f, "listUsers")
        /\ ~Has(f, "begin") /\ ~f.beginInFlight /\ f.mode # "userSelection"
    BY <1>11 DEF Orderly, Loading, Cancelling, Beginning
  <2>2. h.mode # "userSelection" /\ k.mode # "userSelection"
    BY <1>2, <1>3, <1>7, <1>11, <2>1
  <2> QED
    BY <1>3, <1>7, <1>8, <1>11, <2>1, <2>2 DEF Orderly
<1>12. CASE state # "Authenticated"
  BY <1>2, <1>3, <1>6, <1>8, <1>9, <1>10, <1>11, <1>12 DEF g
<1>13. CASE state = "Authenticated" /\ h.session = None
  BY <1>3, <1>6, <1>7, <1>8, <1>9, <1>10, <1>11, <1>13 DEF g
<1>14. CASE state = "Authenticated" /\ h.session # None
  <2>1. h.startInFlight \/ FreeSlots(h) # {}
    BY <1>3, <1>8
  <2>2. /\ Sound(g)
        /\ Handled(h, g)
        /\ g.queued = h.queued
        /\ g.startInFlight \/ FreeSlots(g) # {}
        /\ g.mode \in {h.mode, "submitting"}
        /\ Orderly(h) => Orderly(g)
    BY <1>6, <1>9, <1>14, <2>1, StartFits
  <2>3. Handled(f, g)
    BY <1>3, <2>2 DEF Handled
  <2> QED
    BY <1>2, <1>3, <1>11, <1>14, <2>2, <2>3 DEF g
<1> QED
  BY <1>12, <1>13, <1>14

\* A prompt of the bound attempt.
LEMMA PromptFits ==
  ASSUME NEW f, Sound(f), f.attempt # None, NEW e \in Signals, e.what # "state"
  PROVE  LET g == ApplyPrompt(f, e) IN
         /\ Sound(g)
         /\ Handled(f, g)
         /\ g.queued = f.queued
         /\ g.startInFlight = f.startInFlight
         /\ FreeSlots(g) = FreeSlots(f)
         /\ g.mode = "handingOff" => f.mode = "handingOff"
         /\ Orderly(f) => Orderly(g)
<1> DEFINE g == ApplyPrompt(f, e)
           new == [attempt |-> e.attempt, kind |-> e.value, number |-> e.number]
<1>1. f \in Feature /\ e.value \in {"input", "info", "error"} /\ e.attempt \in Attempts
      /\ e.number \in Nat
  BY DEF Sound, Signals
<1>2. e.value # "error" => new \in Prompts
  BY <1>1 DEF Prompts
<1> HIDE DEF new
<1>3. /\ e.value = "input" =>
           g = [f EXCEPT !.mode = "prompting", !.prompt = new, !.recovery = "none"]
      /\ e.value = "error" => g = [f EXCEPT !.promptError = TRUE]
      /\ e.value = "info" =>
           g = [f EXCEPT !.mode = "submitting", !.prompt = new, !.recovery = "none",
                         !.promptError = FALSE]
  BY <1>1 DEF ApplyPrompt, new
<1> HIDE DEF g
<1>4. g \in Feature
  <2>1. CASE e.value = "input"
    <3>1. new \in Prompts
      BY <1>2, <2>1
    <3>2. [f EXCEPT !.mode = "prompting", !.prompt = new, !.recovery = "none"] \in Feature
      BY <1>1, <3>1, ZenonT(40) DEF Feature
    <3> QED
      BY <1>3, <2>1, <3>2
  <2>2. CASE e.value = "error"
    <3>1. [f EXCEPT !.promptError = TRUE] \in Feature
      BY <1>1, Literals DEF Feature
    <3> QED
      BY <1>3, <2>2, <3>1
  <2>3. CASE e.value = "info"
    <3>1. new \in Prompts
      BY <1>2, <2>3
    <3>2. [f EXCEPT !.mode = "submitting", !.prompt = new, !.recovery = "none",
                    !.promptError = FALSE] \in Feature
      BY <1>1, <3>1, Literals, ZenonT(40) DEF Feature
    <3> QED
      BY <1>3, <2>3, <3>2
  <2> QED
    BY <1>1, <2>1, <2>2, <2>3
<1>5. /\ g.mode \in {f.mode, "prompting", "submitting"}
      /\ g.service = f.service /\ g.user = f.user /\ g.session = f.session
      /\ g.sessions = f.sessions /\ g.attempt = f.attempt
      /\ g.startInFlight = f.startInFlight /\ g.queued = f.queued
      /\ g.beginInFlight = f.beginInFlight /\ g.dormant = f.dormant /\ g.exiting = f.exiting
      /\ g.generation = f.generation /\ g.loaded = f.loaded /\ g.calls = f.calls
  BY <1>1, <1>3, ZenonT(40) DEF Feature
<1>6. /\ \A op : (Has(g, op) <=> Has(f, op)) /\ (Once(g, op) <=> Once(f, op))
      /\ (OneLoad(g) <=> OneLoad(f)) /\ FreeSlots(g) = FreeSlots(f)
  BY <1>5 DEF Has, Once, OneLoad, FreeSlots
<1>7. Sound(g)
  BY <1>4, <1>5, <1>6 DEF Sound
<1>8. Handled(f, g)
  BY <1>5 DEF Handled
<1>9. ASSUME Orderly(f)
      PROVE  Orderly(g)
  <2>1. ~Has(f, "cancel") /\ ~Has(f, "getState") /\ ~Has(f, "listUsers")
        /\ ~Has(f, "begin") /\ ~f.beginInFlight /\ f.mode # "userSelection"
    BY <1>9 DEF Orderly, Loading, Cancelling, Beginning
  <2> QED
    BY <1>5, <1>6, <1>9, <2>1 DEF Orderly
<1> QED
  BY <1>5, <1>6, <1>7, <1>8, <1>9 DEF g

\* The attempt has been cancelled: nobody is to hear of it any more.
Buries(e, attempt) == e.what = "state" /\ e.value = "Idle" /\ e.attempt = attempt

\* An event of the backend.
LEMMA HandleFits ==
  ASSUME NEW f, Sound(f), f.startInFlight \/ FreeSlots(f) # {}, NEW e \in Signals
  PROVE  LET g == HandleEvent(f, e) IN
         /\ Sound(g)
         /\ Handled(f, g)
         /\ g.queued \in {f.queued, Append(f.queued, e)}
         /\ ~f.beginInFlight => g.queued = f.queued
         /\ g.startInFlight \/ FreeSlots(g) # {}
         /\ g.mode = "handingOff" => f.mode = "handingOff" \/ e.value = "HandingOff"
         /\ Orderly(f) /\ ~Buries(e, f.attempt) => Orderly(g)
<1> DEFINE g == HandleEvent(f, e)
<1>1. f \in Feature /\ e.what \in {"state", "prompt"} /\ e.attempt \in Nat
  BY DEF Sound, Signals, Attempts
<1>2. e.attempt # None
  BY <1>1, NoneAssumption
<1>3. CASE WaitsForBegin(f)
  <2>1. g = [f EXCEPT !.queued = Append(@, e)]
    BY <1>1, <1>3 DEF HandleEvent
  <2> DEFINE q == Append(f.queued, e)
  <2>2. q \in Seq(Signals)
    BY <1>1, AppendProperties DEF Feature
  <2> HIDE DEF q
  <2>3. g = [f EXCEPT !.queued = q]
    BY <2>1 DEF q
  <2> HIDE DEF g
  <2>4. g \in Feature
    BY <1>1, <2>2, <2>3 DEF Feature
  <2>5. /\ g.mode = f.mode /\ g.service = f.service /\ g.user = f.user
        /\ g.session = f.session /\ g.sessions = f.sessions /\ g.attempt = f.attempt
        /\ g.startInFlight = f.startInFlight /\ g.queued = q /\ g.prompt = f.prompt
        /\ g.beginInFlight = f.beginInFlight /\ g.dormant = f.dormant /\ g.exiting = f.exiting
        /\ g.generation = f.generation /\ g.loaded = f.loaded /\ g.calls = f.calls
    BY <1>1, <2>3 DEF Feature
  <2>6. /\ \A op : (Has(g, op) <=> Has(f, op)) /\ (Once(g, op) <=> Once(f, op))
        /\ (OneLoad(g) <=> OneLoad(f)) /\ FreeSlots(g) = FreeSlots(f)
    BY <2>5 DEF Has, Once, OneLoad, FreeSlots
  <2>7. Sound(g)
    BY <2>4, <2>5, <2>6 DEF Sound
  <2>8. Handled(f, g)
    BY <2>5 DEF Handled
  <2>9. Orderly(f) => Orderly(g)
    BY <2>5, <2>6 DEF Orderly, Loading, Cancelling, Beginning
  <2> QED
    BY <1>3, <2>5, <2>6, <2>7, <2>8, <2>9 DEF g, q, WaitsForBegin
<1>4. CASE ~WaitsForBegin(f) /\ ~Concerns(f, e)
  <2>1. g = f
    BY <1>1, <1>4 DEF HandleEvent
  <2> QED
    BY <2>1 DEF Handled
<1>5. CASE ~WaitsForBegin(f) /\ Concerns(f, e) /\ e.what = "state"
  <2>1. g = ApplyBackendState(f, e.value) /\ f.attempt # None /\ e.value \in Phases
    BY <1>2, <1>5 DEF HandleEvent, Concerns, Signals
  <2>2. e.value = "Idle" => Buries(e, f.attempt)
    BY <1>5 DEF Buries, Concerns
  <2> HIDE DEF g
  <2>3. /\ Sound(g)
        /\ Handled(f, g)
        /\ g.queued = f.queued
        /\ g.startInFlight \/ FreeSlots(g) # {}
        /\ g.mode = "handingOff" => f.mode = "handingOff" \/ e.value = "HandingOff"
        /\ Orderly(f) /\ e.value # "Idle" => Orderly(g)
    BY <2>1, StateFits
  <2> QED
    BY <2>2, <2>3 DEF g
<1>6. CASE ~WaitsForBegin(f) /\ Concerns(f, e) /\ e.what # "state"
  <2>1. g = ApplyPrompt(f, e) /\ f.attempt # None
    BY <1>1, <1>2, <1>6 DEF HandleEvent, Concerns
  <2> HIDE DEF g
  <2>2. /\ Sound(g)
        /\ Handled(f, g)
        /\ g.queued = f.queued
        /\ g.startInFlight = f.startInFlight
        /\ FreeSlots(g) = FreeSlots(f)
        /\ g.mode = "handingOff" => f.mode = "handingOff"
        /\ Orderly(f) => Orderly(g)
    BY <1>6, <2>1, PromptFits
  <2> QED
    BY <2>2 DEF g
<1> QED
  BY <1>3, <1>4, <1>5, <1>6

\* Events that were kept are handled one after the other.
LEMMA ReplayFits ==
  ASSUME NEW f, Sound(f), f.startInFlight \/ FreeSlots(f) # {}, ~f.beginInFlight,
         NEW events \in Seq(Signals)
  PROVE  LET g == Replay(f, events) IN
         /\ Sound(g)
         /\ Handled(f, g)
         /\ g.queued = f.queued
         /\ g.mode = "handingOff" =>
              f.mode = "handingOff" \/ \E n \in DOMAIN events : events[n].value = "HandingOff"
         /\ Orderly(f) /\ (\A n \in DOMAIN events : ~Buries(events[n], f.attempt)) => Orderly(g)
<1> DEFINE k == Len(events)
           Fine(h) ==
             /\ Sound(h)
             /\ Handled(f, h)
             /\ h.queued = f.queued
             /\ h.startInFlight \/ FreeSlots(h) # {}
             /\ h.mode = "handingOff" =>
                  f.mode = "handingOff" \/ \E n \in DOMAIN events : events[n].value = "HandingOff"
             /\ Orderly(f) /\ (\A n \in DOMAIN events : ~Buries(events[n], f.attempt)) => Orderly(h)
<1>1. k \in Nat /\ DOMAIN events = 1..k /\ \A n \in 1..k : events[n] \in Signals
  BY LenProperties, ElementOfSeq
<1> HIDE DEF k
<1>2. PICK run : IsRun(run, f, events, k) /\ Replay(f, events) = run[k]
  BY <1>1, ReplayRuns DEF k
<1>3. \A n \in 0..k : run[n] = IF n = 0 THEN f ELSE HandleEvent(run[n - 1], events[n])
  BY <1>2 DEF IsRun
<1>4. Fine(f)
  BY DEF Handled
<1>5. ASSUME NEW n \in 1..k, NEW h, Fine(h)
      PROVE  Fine(HandleEvent(h, events[n]))
  <2> DEFINE e == events[n]
             g == HandleEvent(h, e)
  <2>1. e \in Signals /\ n \in DOMAIN events
    BY <1>1
  <2>2. Sound(h) /\ Handled(f, h) /\ h.queued = f.queued /\ (h.startInFlight \/ FreeSlots(h) # {})
    BY <1>5
  <2>3. ~h.beginInFlight
    BY <2>2 DEF Handled
  <2> HIDE DEF e, g, Fine
  <2>4. /\ Sound(g)
        /\ Handled(h, g)
        /\ g.queued \in {h.queued, Append(h.queued, e)}
        /\ ~h.beginInFlight => g.queued = h.queued
        /\ g.startInFlight \/ FreeSlots(g) # {}
        /\ g.mode = "handingOff" => h.mode = "handingOff" \/ e.value = "HandingOff"
        /\ Orderly(h) /\ ~Buries(e, h.attempt) => Orderly(g)
    BY <2>1, <2>2, HandleFits DEF g
  <2>5. Handled(f, g)
    BY <2>2, <2>4, PendingTypes DEF Handled
  <2>6. ASSUME ~Buries(e, f.attempt)
        PROVE  ~Buries(e, h.attempt)
    <3>1. e.attempt # None
      BY <2>1, NoneAssumption DEF Signals, Attempts
    <3> QED
      BY <2>2, <2>6, <3>1 DEF Handled, Buries
  <2> QED
    BY <1>5, <2>1, <2>2, <2>3, <2>4, <2>5, <2>6 DEF Fine, e, g
<1> HIDE DEF Fine
<1>6. \A n \in 0..k : Fine(run[n])
  <2> DEFINE T == {n \in 0..k : ~Fine(run[n])}
  <2> SUFFICES ASSUME T # {}
               PROVE  FALSE
    OBVIOUS
  <2>1. T \in SUBSET Nat
    BY <1>1
  <2>2. PICK n \in T : \A m \in T : n <= m
    <3> HIDE DEF T
    <3> QED
      BY <2>1, Least
  <2>3. n # 0
    BY <1>1, <1>3, <1>4, <2>2
  <2>4. n \in 1..k /\ n - 1 \in 0..k /\ ~(n <= n - 1)
    BY <1>1, <2>2, <2>3
  <2>5. Fine(run[n - 1])
    BY <2>2, <2>4
  <2>6. Fine(HandleEvent(run[n - 1], events[n]))
    BY <1>5, <2>4, <2>5
  <2>7. run[n] = HandleEvent(run[n - 1], events[n])
    BY <1>3, <2>3, <2>4
  <2> QED
    BY <2>2, <2>6, <2>7
<1>7. Fine(Replay(f, events))
  BY <1>1, <1>2, <1>6
<1> QED
  BY <1>7 DEF Fine

-----------------------------------------------------------------------------
(* The feature: the user's commands.                                        *)

\* Two features that differ in their calls only.
Alike(f, g) ==
  /\ g.service = f.service /\ g.mode = f.mode /\ g.catalog = f.catalog /\ g.power = f.power
  /\ g.user = f.user /\ g.session = f.session /\ g.sessions = f.sessions
  /\ g.prompt = f.prompt /\ g.promptError = f.promptError /\ g.recovery = f.recovery
  /\ g.dormant = f.dormant /\ g.attempt = f.attempt /\ g.beginInFlight = f.beginInFlight
  /\ g.startInFlight = f.startInFlight /\ g.queued = f.queued
  /\ g.generation = f.generation /\ g.loaded = f.loaded /\ g.exiting = f.exiting

\* Two features with the same calls.
SameCalls(f, g) ==
  /\ g.calls = f.calls
  /\ \A op : (Has(g, op) <=> Has(f, op)) /\ (Once(g, op) <=> Once(f, op))
  /\ OneLoad(g) <=> OneLoad(f)
  /\ FreeSlots(g) = FreeSlots(f)

\* A change of the other fields leaves what is said of the calls.
LEMMA CallsKept ==
  ASSUME NEW f, NEW g, g.calls = f.calls
  PROVE  SameCalls(f, g)
BY DEF SameCalls, Has, Once, OneLoad, FreeSlots

\* A change of the calls leaves the other fields.
LEMMA FieldsKept ==
  ASSUME NEW f \in Feature, NEW g, g = [f EXCEPT !.calls = g.calls]
  PROVE  Alike(f, g)
BY DEF Alike, Feature

\* A change of fields that keeps the chosen session listed is sound.
LEMMA ChangeSound ==
  ASSUME NEW f, Sound(f), NEW g \in Feature, g.calls = f.calls, g.startInFlight = f.startInFlight,
         g.session # None => g.session \in g.sessions, g.loaded <= g.generation
  PROVE  Sound(g)
BY CallsKept DEF SameCalls, Sound

\* A new call other than the start of a session.
LEMMA AwaitSound ==
  ASSUME NEW f, Sound(f), FreeSlots(f) # {}, NEW call \in Calls, call.op \notin {"start", "none"}
  PROVE  LET g == Await(f, call) IN
         /\ Sound(g)
         /\ Alike(f, g)
         /\ \E i \in Slots : /\ f.calls[i] = NoCall /\ g.calls[i] = call
                             /\ \A j \in Slots \ {i} : g.calls[j] = f.calls[j]
         /\ \A op : op # "none" => (Has(g, op) <=> Has(f, op) \/ call.op = op)
         /\ \A op : op # "none" /\ Once(f, op) /\ (call.op = op => ~Has(f, op)) => Once(g, op)
         /\ OneLoad(f) /\ (call.op \in {"getState", "listUsers"} =>
                              ~Has(f, "getState") /\ ~Has(f, "listUsers"))
              => OneLoad(g)
<1> DEFINE g == Await(f, call)
<1> HIDE DEF g
<1>1. f \in Feature
  BY DEF Sound
<1>2. /\ g \in Feature
      /\ g = [f EXCEPT !.calls = g.calls]
      /\ \E i \in Slots : /\ f.calls[i] = NoCall /\ g.calls[i] = call
                          /\ \A j \in Slots \ {i} : g.calls[j] = f.calls[j]
      /\ \A op : op # "none" => (Has(g, op) <=> Has(f, op) \/ call.op = op)
      /\ \A op : op # "none" /\ Once(f, op) /\ (call.op = op => ~Has(f, op)) => Once(g, op)
      /\ OneLoad(f) /\ (call.op \in {"getState", "listUsers"} =>
                           ~Has(f, "getState") /\ ~Has(f, "listUsers"))
           => OneLoad(g)
  BY <1>1, AwaitFits DEF g
<1>3. Alike(f, g)
  BY <1>1, <1>2, FieldsKept
<1>4. Sound(g)
  BY <1>2, <1>3 DEF Sound, Alike
<1> QED
  BY <1>2, <1>3, <1>4 DEF g

\* The account is chosen; the conversation begins if a session is.
LEMMA ChooseFits ==
  ASSUME NEW f, Sound(f), FreeSlots(f) # {}, NEW u \in Users
  PROVE  LET g == ChooseUser(f, u) IN
         /\ Sound(g)
         /\ Follows(f, g)
         /\ Orderly(f) /\ f.attempt = None /\ f.service = "ready" /\ ~f.beginInFlight
              /\ ~Has(f, "cancel")
              => Orderly(g)
<1> DEFINE h == [f EXCEPT !.mode = "userSelection", !.user = u, !.prompt = NoPrompt,
                          !.recovery = "none", !.promptError = FALSE]
           g == ChooseUser(f, u)
<1>1. f \in Feature /\ NoPrompt \in Prompts
  BY DEF Sound, Prompts
<1>2. h \in Feature
  BY <1>1, Literals, ZenonT(40) DEF Feature
<1>3. /\ h.mode = "userSelection" /\ h.user = u /\ h.prompt = NoPrompt
      /\ h.service = f.service /\ h.session = f.session /\ h.sessions = f.sessions
      /\ h.attempt = f.attempt /\ h.beginInFlight = f.beginInFlight
      /\ h.startInFlight = f.startInFlight /\ h.queued = f.queued /\ h.exiting = f.exiting
      /\ h.generation = f.generation /\ h.loaded = f.loaded /\ h.calls = f.calls
  BY <1>1 DEF Feature
<1>4. g = BeginIfReady(h)
  BY DEF ChooseUser
<1> HIDE DEF h, g
<1>5. SameCalls(f, h)
  BY <1>3, CallsKept
<1>6. Sound(h)
  BY <1>2, <1>3, ChangeSound DEF Sound
<1>7. Sound(g) /\ Follows(h, g) /\ (Orderly(h) => Orderly(g))
  BY <1>4, <1>5, <1>6, BeginFits DEF SameCalls
<1>8. Follows(f, g)
  BY <1>3, <1>7 DEF Follows
<1>9. Orderly(f) /\ f.attempt = None /\ f.service = "ready" /\ ~f.beginInFlight
        /\ ~Has(f, "cancel") => Orderly(h)
  BY <1>3, <1>5 DEF Orderly, Loading, SameCalls
<1> QED
  BY <1>7, <1>8, <1>9 DEF g

\* The conversation is abandoned before the backend knows.
LEMMA CancelCallFits ==
  ASSUME NEW f, Sound(f), FreeSlots(f) # {}, NEW u \in Users, f.attempt # None
  PROVE  LET g == CancelCall(f, u) IN
         /\ Sound(g)
         /\ Follows(f, g)
         /\ Orderly(f) /\ f.service = "ready" => Orderly(g)
<1> DEFINE h == [f EXCEPT !.attempt = None, !.mode = "submitting", !.prompt = NoPrompt,
                          !.recovery = "none", !.promptError = FALSE]
           call == Pending("cancel", u, f.attempt)
           g == CancelCall(f, u)
<1>1. f \in Feature /\ NoPrompt \in Prompts /\ f.attempt \in Attempts
  BY DEF Sound, Prompts, Feature
<1>2. h \in Feature
  BY <1>1, Literals, ZenonT(40) DEF Feature
<1>3. /\ h.mode = "submitting" /\ h.prompt = NoPrompt /\ h.attempt = None
      /\ h.service = f.service /\ h.session = f.session /\ h.sessions = f.sessions
      /\ h.user = f.user /\ h.beginInFlight = f.beginInFlight
      /\ h.startInFlight = f.startInFlight /\ h.queued = f.queued /\ h.exiting = f.exiting
      /\ h.generation = f.generation /\ h.loaded = f.loaded /\ h.calls = f.calls
  BY <1>1 DEF Feature
<1>4. g = Await(h, call)
  BY DEF CancelCall
<1>5. call \in Calls /\ call.op = "cancel"
  BY <1>1, PendingTypes DEF Pending
<1> HIDE DEF h, g, call
<1>6. SameCalls(f, h)
  BY <1>3, CallsKept
<1>7. Sound(h)
  BY <1>2, <1>3, ChangeSound DEF Sound
<1>8. /\ Sound(g)
      /\ Alike(h, g)
      /\ \E i \in Slots : /\ h.calls[i] = NoCall /\ g.calls[i] = call
                          /\ \A j \in Slots \ {i} : g.calls[j] = h.calls[j]
      /\ \A op : op # "none" => (Has(g, op) <=> Has(h, op) \/ call.op = op)
      /\ \A op : op # "none" /\ Once(h, op) /\ (call.op = op => ~Has(h, op)) => Once(g, op)
      /\ OneLoad(h) /\ (call.op \in {"getState", "listUsers"} =>
                           ~Has(h, "getState") /\ ~Has(h, "listUsers"))
           => OneLoad(g)
  BY <1>4, <1>5, <1>6, <1>7, AwaitSound DEF SameCalls
<1>9. Follows(f, g)
  BY <1>1, <1>3, <1>5, <1>8 DEF Follows, Alike, Feature
<1>10. ASSUME Orderly(f), f.service = "ready"
       PROVE  Orderly(g)
  <2>1. ~Has(f, "cancel") /\ ~Has(f, "begin") /\ ~f.beginInFlight
        /\ ~Has(f, "getState") /\ ~Has(f, "listUsers")
    BY <1>1, <1>10, NoneAssumption DEF Orderly, Loading, Cancelling, Beginning
  <2>2. Once(g, "cancel") /\ Once(g, "begin") /\ OneLoad(g) /\ ~Has(g, "begin")
        /\ ~Has(g, "getState") /\ ~Has(g, "listUsers")
    BY <1>5, <1>6, <1>8, <1>10, <2>1 DEF Orderly, SameCalls
  <2> QED
    BY <1>3, <1>8, <1>10, <2>1, <2>2 DEF Orderly, Cancelling, Alike
<1> QED
  BY <1>8, <1>9, <1>10 DEF g

\* Another account is selected.
LEMMA SelectUserFits ==
  ASSUME Sound(ui), FreeSlots(ui) # {}, NEW u \in Users, SelectUser(u)
  PROVE  Sound(ui') /\ Follows(ui, ui') /\ (Orderly(ui) => Orderly(ui'))
<1>1. /\ ui.service = "ready" /\ ~ui.beginInFlight
      /\ ui.attempt = None => ui' = ChooseUser(ui, u)
      /\ ui.attempt # None => ui' = CancelCall(ui, u)
  BY DEF SelectUser, CanSelectUser
<1>2. Orderly(ui) => ~Has(ui, "cancel")
  <2> SUFFICES ASSUME Orderly(ui), Has(ui, "cancel")
               PROVE  FALSE
    OBVIOUS
  <2>1. Cancelling(ui)
    BY DEF Orderly
  <2>2. ui.prompt.kind = "none"
    BY <2>1 DEF Cancelling, NoPrompt
  <2> QED
    BY <2>1, <2>2 DEF Cancelling, SelectUser, CanSelectUser
<1>3. CASE ui.attempt = None
  <2>1. LET g == ChooseUser(ui, u) IN
         /\ Sound(g)
         /\ Follows(ui, g)
         /\ Orderly(ui) /\ ui.attempt = None /\ ui.service = "ready" /\ ~ui.beginInFlight
              /\ ~Has(ui, "cancel")
              => Orderly(g)
    BY ChooseFits
  <2> QED
    BY <1>1, <1>2, <1>3, <2>1
<1>4. CASE ui.attempt # None
  <2>1. LET g == CancelCall(ui, u) IN
         /\ Sound(g)
         /\ Follows(ui, g)
         /\ Orderly(ui) /\ ui.service = "ready" => Orderly(g)
    BY <1>4, CancelCallFits
  <2> QED
    BY <1>1, <1>4, <2>1
<1> QED
  BY <1>3, <1>4

\* An error of the conversation.
LEMMA AuthErrorFits ==
  ASSUME NEW f, Sound(f),
         NEW recovery \in {"none", "retryAuthentication", "retryPrompt", "reconnectService"}
  PROVE  LET g == ShowAuthError(f, recovery) IN
         /\ Sound(g)
         /\ Follows(f, g)
         /\ Orderly(f) /\ ~f.beginInFlight /\ ~Has(f, "cancel") /\ f.service # "starting"
              => Orderly(g)
<1> DEFINE g == ShowAuthError(f, recovery)
<1>1. f \in Feature
  BY DEF Sound
<1>2. g = [f EXCEPT !.mode = "error", !.recovery = recovery, !.promptError = FALSE]
  BY DEF ShowAuthError
<1>3. g \in Feature
  <2>1. [f EXCEPT !.mode = "error", !.recovery = recovery, !.promptError = FALSE] \in Feature
    BY <1>1, Literals, ZenonT(40) DEF Feature
  <2> HIDE DEF g
  <2> QED
    BY <1>2, <2>1
<1> HIDE DEF g
<1>4. /\ g.mode = "error"
      /\ g.service = f.service /\ g.session = f.session /\ g.sessions = f.sessions
      /\ g.user = f.user /\ g.prompt = f.prompt /\ g.attempt = f.attempt
      /\ g.beginInFlight = f.beginInFlight
      /\ g.startInFlight = f.startInFlight /\ g.queued = f.queued /\ g.exiting = f.exiting
      /\ g.generation = f.generation /\ g.loaded = f.loaded /\ g.calls = f.calls
  BY <1>1, <1>2 DEF Feature
<1>5. SameCalls(f, g)
  BY <1>4, CallsKept
<1>6. Sound(g)
  BY <1>3, <1>4, ChangeSound DEF Sound
<1>7. Follows(f, g)
  BY <1>1, <1>4 DEF Follows, Feature
<1>8. Orderly(f) /\ ~f.beginInFlight /\ ~Has(f, "cancel") /\ f.service # "starting" => Orderly(g)
  BY <1>4, <1>5 DEF Orderly, Loading, SameCalls
<1> QED
  BY <1>6, <1>7, <1>8 DEF g

\* An answer is sent, or refused because it is blank.
LEMMA RespondFits ==
  ASSUME Sound(ui), FreeSlots(ui) # {}, NEW blank \in BOOLEAN, RespondToPrompt(blank)
  PROVE  Sound(ui') /\ Follows(ui, ui') /\ (Orderly(ui) => Orderly(ui'))
<1> DEFINE h == [ui EXCEPT !.mode = "submitting", !.recovery = "none", !.promptError = FALSE]
           call == Pending("respond", ui.prompt.number, ui.attempt)
<1>1. ui \in Feature /\ ui.attempt \in Attempts /\ ui.mode = "prompting" /\ ui.prompt.number \in Nat
  BY DEF RespondToPrompt, Sound, Feature, Prompts, NoPrompt
<1>2. ASSUME Orderly(ui)
      PROVE  /\ ~Has(ui, "cancel") /\ ~Has(ui, "begin") /\ ~ui.beginInFlight
             /\ ~Has(ui, "getState") /\ ~Has(ui, "listUsers")
  BY <1>1, <1>2 DEF Orderly, Loading, Cancelling, Beginning
<1>3. CASE blank
  <2>1. ui' = ShowAuthError(ui, "retryPrompt")
    BY <1>3 DEF RespondToPrompt
  <2>2. LET g == ShowAuthError(ui, "retryPrompt") IN Sound(g) /\ Follows(ui, g)
    BY AuthErrorFits
  <2>3. ASSUME Orderly(ui)
        PROVE  Orderly(ui')
    <3>1. /\ ui'.mode = "error" /\ ui'.service = ui.service /\ ui'.attempt = ui.attempt
          /\ ui'.beginInFlight = ui.beginInFlight /\ ui'.calls = ui.calls
      BY <1>1, <2>1 DEF ShowAuthError, Feature
    <3>2. SameCalls(ui, ui')
      BY <3>1, CallsKept
    <3> QED
      BY <1>2, <2>3, <3>1, <3>2 DEF Orderly, SameCalls
  <2> QED
    BY <2>1, <2>2, <2>3
<1>4. CASE ~blank
  <2>1. ui' = Await(h, call)
    BY <1>4 DEF RespondToPrompt
  <2>2. h \in Feature
    BY <1>1, Literals DEF Feature
  <2>3. /\ h.mode = "submitting" /\ h.prompt = ui.prompt /\ h.attempt = ui.attempt
        /\ h.service = ui.service /\ h.session = ui.session /\ h.sessions = ui.sessions
        /\ h.user = ui.user /\ h.beginInFlight = ui.beginInFlight
        /\ h.startInFlight = ui.startInFlight /\ h.queued = ui.queued /\ h.exiting = ui.exiting
        /\ h.generation = ui.generation /\ h.loaded = ui.loaded /\ h.calls = ui.calls
    BY <1>1 DEF Feature
  <2>4. call \in Calls /\ call.op = "respond"
    BY <1>1, PendingTypes DEF Pending
  <2> HIDE DEF h, call
  <2>5. SameCalls(ui, h)
    BY <2>3, CallsKept
  <2>6. Sound(h)
    BY <2>2, <2>3, ChangeSound DEF Sound
  <2>7. /\ Sound(ui')
        /\ Alike(h, ui')
        /\ \E i \in Slots : /\ h.calls[i] = NoCall /\ ui'.calls[i] = call
                            /\ \A j \in Slots \ {i} : ui'.calls[j] = h.calls[j]
        /\ \A op : op # "none" => (Has(ui', op) <=> Has(h, op) \/ call.op = op)
        /\ \A op : op # "none" /\ Once(h, op) /\ (call.op = op => ~Has(h, op)) => Once(ui', op)
        /\ OneLoad(h) /\ (call.op \in {"getState", "listUsers"} =>
                             ~Has(h, "getState") /\ ~Has(h, "listUsers"))
             => OneLoad(ui')
    BY <2>1, <2>4, <2>5, <2>6, AwaitSound DEF SameCalls
  <2>8. Follows(ui, ui')
    BY <1>1, <2>3, <2>4, <2>7 DEF Follows, Alike, Feature
  <2>9. ASSUME Orderly(ui)
        PROVE  Orderly(ui')
    <3>1. Once(ui', "cancel") /\ Once(ui', "begin") /\ OneLoad(ui') /\ ~Has(ui', "begin")
          /\ ~Has(ui', "getState") /\ ~Has(ui', "listUsers") /\ ~Has(ui', "cancel")
      BY <1>2, <2>4, <2>5, <2>7, <2>9 DEF Orderly, SameCalls
    <3> QED
      BY <1>2, <2>3, <2>7, <2>9, <3>1 DEF Orderly, Alike
  <2> QED
    BY <2>7, <2>8, <2>9
<1> QED
  BY <1>3, <1>4

\* An error is left: the conversation starts over.
LEMMA RetryFits ==
  ASSUME NEW f, Sound(f), FreeSlots(f) # {}, f.mode = "error"
  PROVE  LET g == Retry(f) IN
         /\ Sound(g)
         /\ Follows(f, g)
         /\ Orderly(f) => Orderly(g)
<1> DEFINE h1 == [f EXCEPT !.attempt = None, !.service = "ready", !.mode = "userSelection",
                           !.prompt = NoPrompt]
           h == [h1 EXCEPT !.recovery = "none", !.promptError = FALSE,
                           !.catalog = CatalogShown(f)]
           g == Retry(f)
<1>1. f \in Feature /\ NoPrompt \in Prompts
  BY DEF Sound, Prompts
<1>2. h1 \in Feature
  BY <1>1 DEF Feature
<1>3. CatalogShown(f) \in {"empty", "loading", "ready", "failed"}
  BY <1>1 DEF CatalogShown, Feature
<1>4. g = BeginIfReady(h)
  BY DEF Retry
<1>5. /\ h.mode = "userSelection" /\ h.attempt = None /\ h.service = "ready"
      /\ h.session = f.session /\ h.sessions = f.sessions
      /\ h.user = f.user /\ h.beginInFlight = f.beginInFlight
      /\ h.startInFlight = f.startInFlight /\ h.queued = f.queued /\ h.exiting = f.exiting
      /\ h.generation = f.generation /\ h.loaded = f.loaded /\ h.calls = f.calls
  BY <1>1 DEF Feature
<1> HIDE DEF h1
<1>6. h \in Feature
  BY <1>2, <1>3, Literals, ZenonT(40) DEF Feature
<1> HIDE DEF h, g
<1>7. SameCalls(f, h)
  BY <1>5, CallsKept
<1>8. Sound(h)
  BY <1>5, <1>6, ChangeSound DEF Sound
<1>9. Sound(g) /\ Follows(h, g) /\ (Orderly(h) => Orderly(g))
  BY <1>4, <1>7, <1>8, BeginFits DEF SameCalls
<1>10. Follows(f, g)
  BY <1>5, <1>9 DEF Follows
<1>11. ASSUME Orderly(f)
       PROVE  Orderly(h)
  <2>1. ~Has(f, "cancel") /\ ~f.beginInFlight /\ ~Has(f, "getState") /\ ~Has(f, "listUsers")
    BY <1>11 DEF Orderly, Loading, Cancelling, Beginning
  <2> QED
    BY <1>5, <1>7, <1>11, <2>1 DEF Orderly, SameCalls
<1> QED
  BY <1>9, <1>10, <1>11 DEF g

\* The prompt is shown again, if it is still there.
LEMMA RetryPromptFits ==
  ASSUME Sound(ui), FreeSlots(ui) # {}, ui.mode = "error", RetryPrompt
  PROVE  Sound(ui') /\ Follows(ui, ui') /\ (Orderly(ui) => Orderly(ui'))
<1>1. CASE ui.attempt = None \/ ui.prompt = NoPrompt
  <2>1. ui' = Retry(ui)
    BY <1>1 DEF RetryPrompt
  <2> QED
    BY <2>1, RetryFits
<1>2. CASE ~(ui.attempt = None \/ ui.prompt = NoPrompt)
  <2> DEFINE h == [ui EXCEPT !.mode = "prompting", !.recovery = "none", !.promptError = FALSE]
  <2>1. ui \in Feature /\ ui' = h
    BY <1>2 DEF RetryPrompt, Sound
  <2>2. h \in Feature
    BY <2>1, Literals DEF Feature
  <2>3. /\ h.mode = "prompting" /\ h.prompt = ui.prompt /\ h.attempt = ui.attempt
        /\ h.service = ui.service /\ h.session = ui.session /\ h.sessions = ui.sessions
        /\ h.user = ui.user /\ h.beginInFlight = ui.beginInFlight
        /\ h.startInFlight = ui.startInFlight /\ h.queued = ui.queued /\ h.exiting = ui.exiting
        /\ h.generation = ui.generation /\ h.loaded = ui.loaded /\ h.calls = ui.calls
    BY <2>1 DEF Feature
  <2> HIDE DEF h
  <2>4. SameCalls(ui, h)
    BY <2>3, CallsKept
  <2>5. Sound(h)
    BY <2>2, <2>3, ChangeSound DEF Sound
  <2>6. Follows(ui, h)
    BY <2>1, <2>3 DEF Follows, Feature
  <2>7. Orderly(ui) => Orderly(h)
    BY <1>2, <2>3, <2>4 DEF Orderly, Loading, Cancelling, Beginning, SameCalls
  <2> QED
    BY <2>1, <2>5, <2>6, <2>7
<1> QED
  BY <1>1, <1>2

\* A session is chosen; the conversation begins if an account is.
LEMMA SelectSessionFits ==
  ASSUME Sound(ui), FreeSlots(ui) # {}, NEW s \in Sessions, SelectSession(s)
  PROVE  Sound(ui') /\ Follows(ui, ui') /\ (Orderly(ui) => Orderly(ui'))
<1> DEFINE h == [ui EXCEPT !.session = s, !.recovery = "none", !.promptError = FALSE]
<1>1. ui \in Feature /\ s \in ui.sessions /\ ui' = BeginIfReady(h)
  BY DEF SelectSession, Sound
<1>2. h \in Feature
  BY <1>1, Literals, ZenonT(40) DEF Feature
<1>3. /\ h.mode = ui.mode /\ h.prompt = ui.prompt /\ h.attempt = ui.attempt
      /\ h.service = ui.service /\ h.session = s /\ h.sessions = ui.sessions
      /\ h.user = ui.user /\ h.beginInFlight = ui.beginInFlight
      /\ h.startInFlight = ui.startInFlight /\ h.queued = ui.queued /\ h.exiting = ui.exiting
      /\ h.generation = ui.generation /\ h.loaded = ui.loaded /\ h.calls = ui.calls
  BY <1>1 DEF Feature
<1> HIDE DEF h
<1>4. SameCalls(ui, h)
  BY <1>3, CallsKept
<1>5. Sound(h)
  BY <1>1, <1>2, <1>3, ChangeSound DEF Sound
<1>6. Sound(ui') /\ Follows(h, ui') /\ (Orderly(h) => Orderly(ui'))
  BY <1>1, <1>4, <1>5, BeginFits DEF SameCalls
<1>7. Follows(ui, ui')
  BY <1>3, <1>6 DEF Follows
<1>8. Orderly(ui) => Orderly(h)
  BY <1>3, <1>4 DEF Orderly, Loading, Cancelling, Beginning, SameCalls
<1> QED
  BY <1>6, <1>7, <1>8

\* The authenticated user starts the session.
LEMMA StartSelectedFits ==
  ASSUME Sound(ui), FreeSlots(ui) # {}, ui.mode # "handingOff", StartSelectedSession
  PROVE  Sound(ui') /\ Follows(ui, ui') /\ (Orderly(ui) => Orderly(ui'))
<1>1. ui' = StartSession(ui) /\ ui \in Feature
  BY DEF StartSelectedSession, Sound
<1>2. /\ Sound(ui')
      /\ Handled(ui, ui')
      /\ ui'.queued = ui.queued
      /\ ui'.mode \in {ui.mode, "submitting"}
      /\ Orderly(ui) => Orderly(ui')
  BY <1>1, StartFits
<1>3. Follows(ui, ui')
  BY <1>1, <1>2 DEF Follows, Handled, Feature
<1> QED
  BY <1>2, <1>3

\* The sessions are loaded, with the number of this load.
LEMMA LoadCatalogFits ==
  ASSUME NEW f, Sound(f), FreeSlots(f) # {}, f.generation < MaxLoads
  PROVE  LET g == LoadSessionCatalog(f) IN
         /\ Sound(g)
         /\ Follows(f, g)
         /\ Orderly(f) /\ f.service # "starting" => Orderly(g)
<1> DEFINE h == [f EXCEPT !.generation = @ + 1, !.catalog = "loading"]
           call == Pending("listSessions", None, f.generation + 1)
           g == LoadSessionCatalog(f)
<1>1. f \in Feature /\ f.generation \in Nat /\ f.loaded \in Nat /\ f.loaded <= f.generation
  BY DEF Sound, Feature
<1>2. f.generation + 1 \in 0..MaxLoads
  BY <1>1, LoadsAssumption
<1>3. h \in Feature
  BY <1>1, <1>2 DEF Feature
<1>4. /\ h.mode = f.mode /\ h.prompt = f.prompt /\ h.attempt = f.attempt
      /\ h.service = f.service /\ h.session = f.session /\ h.sessions = f.sessions
      /\ h.user = f.user /\ h.beginInFlight = f.beginInFlight
      /\ h.startInFlight = f.startInFlight /\ h.queued = f.queued /\ h.exiting = f.exiting
      /\ h.generation = f.generation + 1 /\ h.loaded = f.loaded /\ h.calls = f.calls
  BY <1>1 DEF Feature
<1>5. call \in Calls /\ call.op = "listSessions"
  BY <1>1, PendingTypes DEF Pending
<1>6. g = Await(h, call)
  BY DEF LoadSessionCatalog
<1> HIDE DEF h, call, g
<1>7. SameCalls(f, h)
  BY <1>4, CallsKept
<1>8. Sound(h)
  <2>1. h.loaded <= h.generation
    BY <1>1, <1>4
  <2> QED
    BY <1>3, <1>4, <2>1, ChangeSound DEF Sound
<1>9. /\ Sound(g)
      /\ Alike(h, g)
      /\ \E i \in Slots : /\ h.calls[i] = NoCall /\ g.calls[i] = call
                          /\ \A j \in Slots \ {i} : g.calls[j] = h.calls[j]
      /\ \A op : op # "none" => (Has(g, op) <=> Has(h, op) \/ call.op = op)
      /\ \A op : op # "none" /\ Once(h, op) /\ (call.op = op => ~Has(h, op)) => Once(g, op)
      /\ OneLoad(h) /\ (call.op \in {"getState", "listUsers"} =>
                           ~Has(h, "getState") /\ ~Has(h, "listUsers"))
           => OneLoad(g)
  BY <1>5, <1>6, <1>7, <1>8, AwaitSound DEF SameCalls
<1>10. Follows(f, g)
  BY <1>1, <1>4, <1>5, <1>9 DEF Follows, Alike
<1>11. ASSUME Orderly(f), f.service # "starting"
       PROVE  Orderly(g)
  <2>1. ~Has(f, "getState") /\ ~Has(f, "listUsers")
    BY <1>11 DEF Orderly, Loading
  <2>2. /\ ~Has(g, "getState") /\ ~Has(g, "listUsers") /\ OneLoad(g)
        /\ Once(g, "cancel") /\ Once(g, "begin")
        /\ (Has(g, "cancel") <=> Has(f, "cancel")) /\ (Has(g, "begin") <=> Has(f, "begin"))
    BY <1>5, <1>7, <1>9, <1>11, <2>1 DEF Orderly, SameCalls
  <2> QED
    BY <1>4, <1>9, <1>11, <2>2 DEF Orderly, Cancelling, Beginning, Alike
<1> QED
  BY <1>9, <1>10, <1>11 DEF g

\* The service is loaded again, from nothing.
LEMMA ReconnectFits ==
  ASSUME Sound(ui), FreeSlots(ui) # {}, ui.service = "unavailable" \/ ui.mode = "error",
         ReconnectService
  PROVE  Sound(ui') /\ Follows(ui, ui') /\ (Orderly(ui) => Orderly(ui'))
<1> DEFINE h1 == [ui EXCEPT !.attempt = None, !.queued = <<>>, !.generation = @ + 1,
                            !.mode = "userSelection"]
           h2 == [h1 EXCEPT !.recovery = "none", !.catalog = "empty",
                            !.sessions = {}, !.user = None]
           h3 == [h2 EXCEPT !.session = None, !.prompt = NoPrompt, !.promptError = FALSE]
           h == [h3 EXCEPT !.service = "starting"]
           call == Pending("getState", None, None)
<1>1. /\ ui \in Feature /\ NoPrompt \in Prompts
      /\ ui.generation \in Nat /\ ui.loaded \in Nat /\ ui.loaded <= ui.generation
  BY DEF Sound, Prompts, Feature
<1>2. ui.generation + 1 \in 0..MaxLoads /\ ui.generation + 1 < MaxLoads
  BY <1>1, LoadsAssumption DEF ReconnectService
<1>3. ui' = Await(h, call)
  BY DEF ReconnectService, LoadService
<1>4. /\ h.mode = "userSelection" /\ h.prompt = NoPrompt /\ h.attempt = None
      /\ h.service = "starting" /\ h.session = None /\ h.sessions = {}
      /\ h.user = None /\ h.beginInFlight = ui.beginInFlight
      /\ h.startInFlight = ui.startInFlight /\ h.queued = <<>> /\ h.exiting = ui.exiting
      /\ h.generation = ui.generation + 1 /\ h.loaded = ui.loaded /\ h.calls = ui.calls
  BY <1>1 DEF Feature
<1>5. h \in Feature
  <2>1. h1 \in Feature
    BY <1>1, <1>2, Literals DEF Feature
  <2> HIDE DEF h1
  <2>2. h2 \in Feature
    BY <2>1, ZenonT(40) DEF Feature
  <2> HIDE DEF h2
  <2>3. h3 \in Feature
    BY <1>1, <2>2, Literals DEF Feature
  <2> HIDE DEF h3
  <2> QED
    BY <2>3 DEF Feature
<1>6. call \in Calls /\ call.op = "getState"
  BY PendingTypes DEF Pending
<1> HIDE DEF h, call
<1>7. SameCalls(ui, h)
  BY <1>4, CallsKept
<1>8. Sound(h)
  <2>1. h.loaded <= h.generation
    BY <1>1, <1>4
  <2> QED
    BY <1>4, <1>5, <2>1, ChangeSound
<1>9. /\ Sound(ui')
      /\ Alike(h, ui')
      /\ \E i \in Slots : /\ h.calls[i] = NoCall /\ ui'.calls[i] = call
                          /\ \A j \in Slots \ {i} : ui'.calls[j] = h.calls[j]
      /\ \A op : op # "none" => (Has(ui', op) <=> Has(h, op) \/ call.op = op)
      /\ \A op : op # "none" /\ Once(h, op) /\ (call.op = op => ~Has(h, op)) => Once(ui', op)
      /\ OneLoad(h) /\ (call.op \in {"getState", "listUsers"} =>
                           ~Has(h, "getState") /\ ~Has(h, "listUsers"))
           => OneLoad(ui')
  BY <1>3, <1>6, <1>7, <1>8, AwaitSound DEF SameCalls
<1>10. Follows(ui, ui')
  BY <1>1, <1>4, <1>6, <1>9 DEF Follows, Alike
<1>11. ASSUME Orderly(ui)
       PROVE  Orderly(ui')
  <2>1. /\ ~Has(ui, "getState") /\ ~Has(ui, "listUsers")
        /\ ~Has(ui, "cancel") /\ ~Has(ui, "begin") /\ ~ui.beginInFlight
    BY <1>11 DEF Orderly, Loading, Cancelling, Beginning, ReconnectService
  <2>2. /\ OneLoad(ui') /\ Once(ui', "cancel") /\ Once(ui', "begin")
        /\ ~Has(ui', "cancel") /\ ~Has(ui', "begin")
    BY <1>6, <1>7, <1>9, <1>11, <2>1 DEF Orderly, SameCalls
  <2> QED
    BY <1>2, <1>4, <1>9, <2>1, <2>2 DEF Orderly, Loading, Alike
<1> QED
  BY <1>9, <1>10, <1>11

\* The form is shown or hidden, a power action is asked for or was.
LEMMA WakeFits ==
  ASSUME Sound(ui), FreeSlots(ui) # {}, WakeGreeter
  PROVE  Sound(ui') /\ Follows(ui, ui') /\ (Orderly(ui) => Orderly(ui'))
<1> DEFINE h == [ui EXCEPT !.dormant = FALSE]
<1>1. ui \in Feature /\ ui' = BeginIfReady(h)
  BY DEF WakeGreeter, Sound
<1>2. h \in Feature
  BY <1>1, Literals DEF Feature
<1>3. /\ h.mode = ui.mode /\ h.prompt = ui.prompt /\ h.attempt = ui.attempt
      /\ h.service = ui.service /\ h.session = ui.session /\ h.sessions = ui.sessions
      /\ h.user = ui.user /\ h.beginInFlight = ui.beginInFlight
      /\ h.startInFlight = ui.startInFlight /\ h.queued = ui.queued /\ h.exiting = ui.exiting
      /\ h.generation = ui.generation /\ h.loaded = ui.loaded /\ h.calls = ui.calls
  BY <1>1 DEF Feature
<1> HIDE DEF h
<1>4. SameCalls(ui, h)
  BY <1>3, CallsKept
<1>5. Sound(h)
  BY <1>2, <1>3, ChangeSound DEF Sound
<1>6. Sound(ui') /\ Follows(h, ui') /\ (Orderly(h) => Orderly(ui'))
  BY <1>1, <1>4, <1>5, BeginFits DEF SameCalls
<1>7. Follows(ui, ui')
  BY <1>3, <1>6 DEF Follows
<1>8. Orderly(ui) => Orderly(h)
  BY <1>3, <1>4 DEF Orderly, Loading, Cancelling, Beginning, SameCalls
<1> QED
  BY <1>6, <1>7, <1>8

\* The form is hidden: a conversation goes on behind it.
LEMMA SleepFits ==
  ASSUME Sound(ui), SleepGreeter
  PROVE  Sound(ui') /\ Follows(ui, ui') /\ (Orderly(ui) => Orderly(ui'))
<1> DEFINE h == [ui EXCEPT !.dormant = TRUE]
<1>1. ui \in Feature /\ ui' = h
  BY DEF SleepGreeter, Sound
<1>2. h \in Feature
  BY <1>1, Literals DEF Feature
<1>3. /\ h.mode = ui.mode /\ h.prompt = ui.prompt /\ h.attempt = ui.attempt
      /\ h.service = ui.service /\ h.session = ui.session /\ h.sessions = ui.sessions
      /\ h.user = ui.user /\ h.beginInFlight = ui.beginInFlight
      /\ h.startInFlight = ui.startInFlight /\ h.queued = ui.queued /\ h.exiting = ui.exiting
      /\ h.generation = ui.generation /\ h.loaded = ui.loaded /\ h.calls = ui.calls
  BY <1>1 DEF Feature
<1> HIDE DEF h
<1>4. SameCalls(ui, h)
  BY <1>3, CallsKept
<1>5. Sound(h)
  BY <1>2, <1>3, ChangeSound DEF Sound
<1>6. Follows(ui, h)
  BY <1>1, <1>3 DEF Follows, Feature
<1>7. Orderly(ui) => Orderly(h)
  BY <1>3, <1>4 DEF Orderly, Loading, Cancelling, Beginning, SameCalls
<1> QED
  BY <1>1, <1>5, <1>6, <1>7

\* A power action is requested.
LEMMA PowerFits ==
  ASSUME Sound(ui), FreeSlots(ui) # {}, RequestPowerAction
  PROVE  Sound(ui') /\ Follows(ui, ui') /\ (Orderly(ui) => Orderly(ui'))
<1> DEFINE h == [ui EXCEPT !.power = "executing"]
           call == Pending("powerAction", None, None)
<1>1. ui \in Feature /\ ui' = Await(h, call)
  BY DEF RequestPowerAction, Sound
<1>2. h \in Feature
  BY <1>1 DEF Feature
<1>3. /\ h.mode = ui.mode /\ h.prompt = ui.prompt /\ h.attempt = ui.attempt
      /\ h.service = ui.service /\ h.session = ui.session /\ h.sessions = ui.sessions
      /\ h.user = ui.user /\ h.beginInFlight = ui.beginInFlight
      /\ h.startInFlight = ui.startInFlight /\ h.queued = ui.queued /\ h.exiting = ui.exiting
      /\ h.generation = ui.generation /\ h.loaded = ui.loaded /\ h.calls = ui.calls
  BY <1>1 DEF Feature
<1>4. call \in Calls /\ call.op = "powerAction"
  BY PendingTypes DEF Pending
<1> HIDE DEF h, call
<1>5. SameCalls(ui, h)
  BY <1>3, CallsKept
<1>6. Sound(h)
  BY <1>2, <1>3, ChangeSound DEF Sound
<1>7. /\ Sound(ui')
      /\ Alike(h, ui')
      /\ \E i \in Slots : /\ h.calls[i] = NoCall /\ ui'.calls[i] = call
                          /\ \A j \in Slots \ {i} : ui'.calls[j] = h.calls[j]
      /\ \A op : op # "none" => (Has(ui', op) <=> Has(h, op) \/ call.op = op)
      /\ \A op : op # "none" /\ Once(h, op) /\ (call.op = op => ~Has(h, op)) => Once(ui', op)
      /\ OneLoad(h) /\ (call.op \in {"getState", "listUsers"} =>
                           ~Has(h, "getState") /\ ~Has(h, "listUsers"))
           => OneLoad(ui')
  BY <1>1, <1>4, <1>5, <1>6, AwaitSound DEF SameCalls
<1>8. Follows(ui, ui')
  BY <1>1, <1>3, <1>4, <1>7 DEF Follows, Alike, Feature
<1>9. ASSUME Orderly(ui)
      PROVE  Orderly(ui')
  <2>1. /\ (Has(ui', "getState") <=> Has(ui, "getState"))
        /\ (Has(ui', "listUsers") <=> Has(ui, "listUsers"))
        /\ (Has(ui', "cancel") <=> Has(ui, "cancel")) /\ (Has(ui', "begin") <=> Has(ui, "begin"))
        /\ OneLoad(ui') /\ Once(ui', "cancel") /\ Once(ui', "begin")
    BY <1>4, <1>5, <1>7, <1>9 DEF Orderly, SameCalls
  <2> QED
    BY <1>3, <1>7, <1>9, <2>1 DEF Orderly, Loading, Cancelling, Beginning, Alike
<1> QED
  BY <1>7, <1>8, <1>9

\* Whatever the user does.
LEMMA UserFits ==
  ASSUME Sound(ui), UserActs
  PROVE  Sound(ui') /\ Follows(ui, ui') /\ (Orderly(ui) => Orderly(ui'))
<1>1. FreeSlots(ui) # {}
  BY DEF UserActs, FormVisible
<1>2. CASE \E u \in Users : SelectUser(u)
  BY <1>1, <1>2, SelectUserFits
<1>3. CASE \E s \in Sessions : SelectSession(s)
  BY <1>1, <1>3, SelectSessionFits
<1>4. CASE \E blank \in BOOLEAN : RespondToPrompt(blank)
  BY <1>1, <1>4, RespondFits
<1>5. CASE ui.mode = "sessionSelection" /\ StartSelectedSession
  BY <1>1, <1>5, StartSelectedFits
<1>6. CASE RetrySessionCatalog
  <2>1. ui' = LoadSessionCatalog(ui) /\ ui.generation < MaxLoads /\ ui.service = "ready"
    BY <1>6 DEF RetrySessionCatalog
  <2>2. LET g == LoadSessionCatalog(ui) IN
          Sound(g) /\ Follows(ui, g) /\ (Orderly(ui) /\ ui.service # "starting" => Orderly(g))
    BY <1>1, <2>1, LoadCatalogFits
  <2> QED
    BY <2>1, <2>2
<1>7. CASE Recover
  <2>1. CASE (ui.service = "unavailable" \/ ui.mode = "error") /\ ReconnectService
    BY <1>1, <2>1, ReconnectFits
  <2>2. CASE ui.mode = "error" /\ RetryAuthentication
    <3>1. ui' = Retry(ui)
      BY <2>2 DEF RetryAuthentication
    <3> QED
      BY <1>1, <2>2, <3>1, RetryFits
  <2>3. CASE ui.mode = "error" /\ RetryPrompt
    BY <1>1, <2>3, RetryPromptFits
  <2> QED
    BY <1>7, <2>1, <2>2, <2>3 DEF Recover
<1>8. CASE RequestPowerAction
  BY <1>1, <1>8, PowerFits
<1>9. CASE SleepGreeter
  BY <1>9, SleepFits
<1>10. CASE WakeGreeter
  BY <1>1, <1>10, WakeFits
<1> QED
  BY <1>2, <1>3, <1>4, <1>5, <1>6, <1>7, <1>8, <1>9, <1>10 DEF UserActs

-----------------------------------------------------------------------------
(* The feature: the replies to its calls.                                   *)

\* The service is lost.
LEMMA LostFits ==
  ASSUME NEW f, Sound(f)
  PROVE  LET g == ServiceLost(f) IN
         /\ Sound(g)
         /\ Follows(f, g)
         /\ g.mode = "error" /\ g.service = "unavailable"
         /\ Orderly(f) /\ ~f.beginInFlight /\ ~Has(f, "cancel") /\ ~Has(f, "getState")
              /\ ~Has(f, "listUsers")
              => Orderly(g)
<1> DEFINE g == ServiceLost(f)
<1>1. f \in Feature
  BY DEF Sound
<1>2. g \in Feature
  BY <1>1, Literals DEF Feature, ServiceLost
<1>3. /\ g.mode = "error" /\ g.service = "unavailable"
      /\ g.session = f.session /\ g.sessions = f.sessions
      /\ g.user = f.user /\ g.prompt = f.prompt /\ g.attempt = f.attempt
      /\ g.beginInFlight = f.beginInFlight
      /\ g.startInFlight = f.startInFlight /\ g.queued = f.queued /\ g.exiting = f.exiting
      /\ g.generation = f.generation /\ g.loaded = f.loaded /\ g.calls = f.calls
  BY <1>1 DEF ServiceLost, Feature
<1> HIDE DEF g
<1>4. SameCalls(f, g)
  BY <1>3, CallsKept
<1>5. Sound(g)
  BY <1>2, <1>3, ChangeSound DEF Sound
<1>6. Follows(f, g)
  BY <1>1, <1>3 DEF Follows, Feature
<1>7. Orderly(f) /\ ~f.beginInFlight /\ ~Has(f, "cancel") /\ ~Has(f, "getState")
        /\ ~Has(f, "listUsers")
        => Orderly(g)
  BY <1>3, <1>4 DEF Orderly, SameCalls
<1> QED
  BY <1>3, <1>5, <1>6, <1>7 DEF g

\* What is left when the call in slot i has returned.
LEMMA Returned ==
  ASSUME NEW f, Sound(f), NEW i \in Slots
  PROVE  LET g == Return(f, i) IN
         /\ g \in Feature
         /\ Alike(f, g)
         /\ FreeSlots(g) # {}
         /\ g.calls[i] = NoCall /\ \A j \in Slots \ {i} : g.calls[j] = f.calls[j]
         /\ \A op : op # "none" => (Has(g, op) => Has(f, op))
         /\ \A op : op # "none" /\ op # f.calls[i].op => (Has(g, op) <=> Has(f, op))
         /\ \A op : op # "none" /\ op = f.calls[i].op /\ Once(f, op) => ~Has(g, op)
         /\ \A op : op # "none" /\ Once(f, op) => Once(g, op)
         /\ OneLoad(f) => OneLoad(g)
         /\ OneLoad(f) /\ f.calls[i].op \in {"getState", "listUsers"} =>
              ~Has(g, "getState") /\ ~Has(g, "listUsers")
         /\ f.calls[i].op # "start" => Sound(g)
         /\ f.calls[i].op # "begin" /\ Orderly(f) => Orderly(g)
<1> DEFINE g == Return(f, i)
<1> HIDE DEF g
<1>1. /\ g \in Feature
      /\ g = [f EXCEPT !.calls = g.calls]
      /\ g.calls[i] = NoCall /\ \A j \in Slots \ {i} : g.calls[j] = f.calls[j]
      /\ FreeSlots(g) # {}
      /\ f.calls[i].op # "start" => Sound(g)
      /\ f.calls[i].op # "begin" /\ Orderly(f) => Orderly(g)
  BY ReturnFits DEF g
<1>2. Alike(f, g)
  BY <1>1, FieldsKept DEF Sound
<1>3. NoCall.op = "none"
  BY PendingTypes
<1>4. /\ \A op : op # "none" => (Has(g, op) => Has(f, op))
      /\ \A op : op # "none" /\ op # f.calls[i].op => (Has(g, op) <=> Has(f, op))
      /\ \A op : op # "none" /\ op = f.calls[i].op /\ Once(f, op) => ~Has(g, op)
      /\ \A op : op # "none" /\ Once(f, op) => Once(g, op)
  BY <1>1, <1>3 DEF Has, Once
<1>5. /\ OneLoad(f) => OneLoad(g)
      /\ OneLoad(f) /\ f.calls[i].op \in {"getState", "listUsers"} =>
           ~Has(g, "getState") /\ ~Has(g, "listUsers")
  BY <1>1, <1>3 DEF Has, OneLoad
<1> QED
  BY <1>1, <1>2, <1>4, <1>5 DEF g

\* The service did not answer while it was loaded.
LEMMA LoadFailedFits ==
  ASSUME Sound(ui), NEW i \in Slots, ui.calls[i].op \in {"getState", "listUsers"}, LoadFailed(i)
  PROVE  Sound(ui') /\ Follows(Return(ui, i), ui') /\ (Orderly(ui) => Orderly(ui'))
<1> DEFINE f == Return(ui, i)
<1>1. ui' = ServiceLost(f)
  BY DEF LoadFailed
<1> HIDE DEF f
<1>2. /\ Alike(ui, f) /\ Sound(f)
      /\ \A op : op # "none" => (Has(f, op) => Has(ui, op))
      /\ OneLoad(ui) => ~Has(f, "getState") /\ ~Has(f, "listUsers")
      /\ Orderly(ui) => Orderly(f)
  BY Returned DEF f
<1>3. /\ Sound(ui')
      /\ Follows(f, ui')
      /\ Orderly(f) /\ ~f.beginInFlight /\ ~Has(f, "cancel") /\ ~Has(f, "getState")
           /\ ~Has(f, "listUsers")
           => Orderly(ui')
  BY <1>1, <1>2, LostFits
<1>4. Orderly(ui) => ~f.beginInFlight /\ ~Has(f, "cancel")
  <2>1. Has(ui, "getState") \/ Has(ui, "listUsers")
    BY DEF Has
  <2> QED
    BY <1>2, <2>1 DEF Orderly, Loading, Alike
<1> QED
  BY <1>2, <1>3, <1>4 DEF f, Orderly

\* The state is known, the users are asked for.
LEMMA StateReadFits ==
  ASSUME Sound(ui), NEW i \in Slots, ui.calls[i].op = "getState", NEW phase1 \in Phases,
         StateRead(i, phase1)
  PROVE  Sound(ui') /\ Follows(Return(ui, i), ui') /\ (Orderly(ui) => Orderly(ui'))
<1> DEFINE call == Pending("listUsers", phase1, None)
           f == Return(ui, i)
<1>1. ui \in Feature /\ call \in Calls /\ call.op = "listUsers"
  BY PendingTypes DEF Sound, Pending
<1>2. ui' = [ui EXCEPT !.calls[i] = call]
  BY DEF StateRead, Proceed
<1> HIDE DEF f, call
<1>3. /\ ui' \in Feature
      /\ ui' = [ui EXCEPT !.calls = ui'.calls]
      /\ ui'.calls[i] = call
      /\ \A j \in Slots \ {i} : ui'.calls[j] = ui.calls[j]
  BY <1>1, <1>2, CallPut
<1>4. Alike(ui, ui')
  BY <1>1, <1>3, FieldsKept
<1>5. /\ Alike(ui, f) /\ f.calls[i] = NoCall /\ \A j \in Slots \ {i} : f.calls[j] = ui.calls[j]
  BY Returned DEF f
<1>6. /\ \A op : op \notin {"getState", "listUsers"} =>
           (Has(ui', op) <=> Has(ui, op)) /\ (Once(ui, op) => Once(ui', op))
      /\ OneLoad(ui) => OneLoad(ui')
      /\ Has(ui, "getState")
  BY <1>1, <1>3 DEF Has, Once, OneLoad
<1>7. Sound(ui')
  BY <1>3, <1>4, <1>6 DEF Sound, Alike
<1>8. Follows(f, ui')
  BY <1>1, <1>3, <1>4, <1>5 DEF Follows, Alike, Feature
<1>9. ASSUME Orderly(ui)
      PROVE  Orderly(ui')
  BY <1>4, <1>6, <1>9 DEF Orderly, Loading, Cancelling, Beginning, Alike
<1> QED
  BY <1>7, <1>8, <1>9 DEF f

\* The users are known: the sessions are loaded, or an error is shown.
LEMMA UsersListedFits ==
  ASSUME Sound(ui), NEW i \in Slots, ui.calls[i].op = "listUsers", UsersListed(i), Orderly(ui)
  PROVE  Sound(ui') /\ Follows(Return(ui, i), ui') /\ Orderly(ui')
<1> DEFINE f0 == Return(ui, i)
           f == [f0 EXCEPT !.service = "ready", !.promptError = FALSE]
<1>1. Loading(ui)
  BY DEF Orderly, Has
<1> HIDE DEF f0
<1>2. /\ f0 \in Feature /\ Alike(ui, f0) /\ Sound(f0) /\ FreeSlots(f0) # {}
      /\ \A op : op # "none" => (Has(f0, op) => Has(ui, op))
      /\ ~Has(f0, "getState") /\ ~Has(f0, "listUsers")
      /\ Orderly(f0)
  BY Returned DEF Orderly, f0
<1>3. /\ f0.generation < MaxLoads /\ f0.user = None /\ f0.attempt = None /\ ~f0.beginInFlight
      /\ ~Has(f0, "cancel") /\ ~Has(f0, "begin")
  BY <1>1, <1>2 DEF Loading, Orderly, Alike
<1>4. f \in Feature
  BY <1>2, Literals DEF Feature
<1>5. CASE ui.calls[i].arg # "Idle"
  <2> DEFINE h == [f EXCEPT !.mode = "error", !.recovery = "reconnectService", !.dormant = FALSE]
  <2>1. ui' = h
    BY <1>5 DEF UsersListed, f0
  <2>2. /\ h.mode = "error" /\ h.service = "ready"
        /\ h.session = f0.session /\ h.sessions = f0.sessions
        /\ h.user = f0.user /\ h.attempt = f0.attempt /\ h.beginInFlight = f0.beginInFlight
        /\ h.startInFlight = f0.startInFlight /\ h.queued = f0.queued /\ h.exiting = f0.exiting
        /\ h.generation = f0.generation /\ h.loaded = f0.loaded /\ h.calls = f0.calls
    BY <1>2 DEF Feature
  <2> HIDE DEF f
  <2>3. h \in Feature
    BY <1>4, Literals, ZenonT(40) DEF Feature
  <2> HIDE DEF h
  <2>4. SameCalls(f0, h)
    BY <2>2, CallsKept
  <2>5. Sound(h)
    BY <1>2, <2>2, <2>3, ChangeSound DEF Sound
  <2>6. Follows(f0, h)
    BY <1>2, <2>2 DEF Follows, Feature
  <2>7. Orderly(h)
    BY <1>2, <1>3, <2>2, <2>4 DEF Orderly, SameCalls
  <2> QED
    BY <2>1, <2>5, <2>6, <2>7 DEF f0
<1>6. CASE ui.calls[i].arg = "Idle"
  <2> DEFINE user == SoleUser(f)
             h1 == [f EXCEPT !.mode = "userSelection", !.recovery = "none", !.user = user]
             h == [h1 EXCEPT !.sessions = {}, !.session = None]
  <2>1. ui' = LoadSessionCatalog(h)
    BY <1>6 DEF UsersListed, f0
  <2>2. user \in Users \cup {None}
    <3>1. CASE Cardinality(Users) = 1
      <4>1. Users # {}
        BY <3>1, FS_EmptySet
      <4> QED
        BY <3>1, <4>1 DEF SoleUser
    <3>2. CASE Cardinality(Users) # 1
      BY <1>2, <3>2 DEF SoleUser, Feature
    <3> QED
      BY <3>1, <3>2
  <2> HIDE DEF user
  <2>3. /\ h.mode = "userSelection" /\ h.service = "ready" /\ h.session = None
        /\ h.attempt = f0.attempt /\ h.beginInFlight = f0.beginInFlight
        /\ h.startInFlight = f0.startInFlight /\ h.queued = f0.queued /\ h.exiting = f0.exiting
        /\ h.generation = f0.generation /\ h.loaded = f0.loaded /\ h.calls = f0.calls
    BY <1>2 DEF Feature
  <2>4. h \in Feature
    <3> HIDE DEF f
    <3>1. h1 \in Feature
      BY <1>4, <2>2, ZenonT(40) DEF Feature
    <3> HIDE DEF h1
    <3> QED
      BY <3>1 DEF Feature
  <2> HIDE DEF h
  <2>5. SameCalls(f0, h)
    BY <2>3, CallsKept
  <2>6. Sound(h)
    BY <1>2, <2>3, <2>4, ChangeSound DEF Sound
  <2>7. FreeSlots(h) # {} /\ h.generation < MaxLoads
    BY <1>2, <1>3, <2>3, <2>5 DEF SameCalls
  <2>8. Sound(ui') /\ Follows(h, ui') /\ (Orderly(h) => Orderly(ui'))
    <3>1. h.service # "starting"
      BY <2>3
    <3> QED
      BY <2>1, <2>6, <2>7, <3>1, LoadCatalogFits
  <2>9. Follows(f0, ui')
    BY <2>3, <2>8 DEF Follows
  <2>10. Orderly(h)
    BY <1>2, <1>3, <2>3, <2>5 DEF Orderly, SameCalls
  <2> QED
    BY <2>8, <2>9, <2>10 DEF f0
<1> QED
  BY <1>5, <1>6

\* The sessions are known, the preferred one is asked for.
LEMMA SessionsListedFits ==
  ASSUME Sound(ui), NEW i \in Slots, ui.calls[i].op = "listSessions",
         NEW sessions \in SUBSET Sessions, SessionsListed(i, sessions)
  PROVE  Sound(ui') /\ Follows(Return(ui, i), ui') /\ (Orderly(ui) => Orderly(ui'))
<1> DEFINE f == Return(ui, i)
           call == Pending("readPreference", sessions, ui.calls[i].key)
<1> HIDE DEF f
<1>1. /\ ui \in Feature /\ f \in Feature /\ Alike(ui, f) /\ Sound(f)
      /\ f.calls[i] = NoCall /\ \A j \in Slots \ {i} : f.calls[j] = ui.calls[j]
      /\ Orderly(ui) => Orderly(f)
  BY Returned DEF Sound, f
<1>2. CASE ~Current(i)
  <2>1. ui' = f
    BY <1>2 DEF SessionsListed, f
  <2> QED
    BY <1>1, <2>1 DEF Follows, Feature, f
<1>3. CASE Current(i)
  <2>1. ui.calls[i].key \in Nat
    BY <1>1, CallTypes DEF Feature
  <2>2. call \in Calls /\ call.op = "readPreference"
    BY <2>1, PendingTypes DEF Pending
  <2>3. ui' = [ui EXCEPT !.calls[i] = call]
    BY <1>3 DEF SessionsListed, Proceed
  <2> HIDE DEF call
  <2>4. /\ ui' \in Feature
        /\ ui' = [ui EXCEPT !.calls = ui'.calls]
        /\ ui'.calls[i] = call
        /\ \A j \in Slots \ {i} : ui'.calls[j] = ui.calls[j]
    BY <1>1, <2>2, <2>3, CallPut
  <2>5. Alike(ui, ui')
    BY <1>1, <2>4, FieldsKept
  <2>6. /\ \A op : op \notin {"listSessions", "readPreference"} =>
             (Has(ui', op) <=> Has(ui, op)) /\ (Once(ui, op) => Once(ui', op))
        /\ OneLoad(ui) => OneLoad(ui')
    BY <2>2, <2>4 DEF Has, Once, OneLoad
  <2>7. Sound(ui')
    BY <2>4, <2>5, <2>6 DEF Sound, Alike
  <2>8. Follows(f, ui')
    BY <1>1, <2>2, <2>4, <2>5 DEF Follows, Alike, Feature
  <2>9. ASSUME Orderly(ui)
        PROVE  Orderly(ui')
    BY <2>5, <2>6, <2>9 DEF Orderly, Loading, Cancelling, Beginning, Alike
  <2> QED
    BY <2>7, <2>8, <2>9 DEF f
<1> QED
  BY <1>2, <1>3

\* The sessions could not be loaded.
LEMMA SessionsFailedFits ==
  ASSUME Sound(ui), NEW i \in Slots, ui.calls[i].op = "listSessions", SessionsFailed(i)
  PROVE  Sound(ui') /\ Follows(Return(ui, i), ui') /\ (Orderly(ui) => Orderly(ui'))
<1> DEFINE f == Return(ui, i)
           h == [f EXCEPT !.catalog = "failed"]
<1> HIDE DEF f
<1>1. f \in Feature /\ Alike(ui, f) /\ Sound(f) /\ (Orderly(ui) => Orderly(f))
  BY Returned DEF f
<1>2. ui' \in {f, h}
  BY DEF SessionsFailed, f
<1>3. /\ h.mode = f.mode /\ h.prompt = f.prompt /\ h.attempt = f.attempt
      /\ h.service = f.service /\ h.session = f.session /\ h.sessions = f.sessions
      /\ h.user = f.user /\ h.beginInFlight = f.beginInFlight
      /\ h.startInFlight = f.startInFlight /\ h.queued = f.queued /\ h.exiting = f.exiting
      /\ h.generation = f.generation /\ h.loaded = f.loaded /\ h.calls = f.calls
  BY <1>1 DEF Feature
<1>4. h \in Feature
  BY <1>1 DEF Feature
<1> HIDE DEF h
<1>5. SameCalls(f, h)
  BY <1>3, CallsKept
<1>6. Sound(h)
  BY <1>1, <1>3, <1>4, ChangeSound DEF Sound
<1>7. Follows(f, h) /\ Follows(f, f)
  BY <1>1, <1>3 DEF Follows, Feature
<1>8. Orderly(f) => Orderly(h)
  BY <1>3, <1>5 DEF Orderly, Loading, Cancelling, Beginning, SameCalls
<1> QED
  BY <1>1, <1>2, <1>6, <1>7, <1>8 DEF f

\* The sessions are shown, with one of them chosen.
LEMMA PreferenceReadFits ==
  ASSUME Sound(ui), NEW i \in Slots, ui.calls[i].op = "readPreference",
         NEW stored \in Sessions \cup {None}, PreferenceRead(i, stored)
  PROVE  Sound(ui') /\ Follows(Return(ui, i), ui') /\ (Orderly(ui) => Orderly(ui'))
<1> DEFINE f == Return(ui, i)
           sessions == ui.calls[i].arg
           key == ui.calls[i].key
           chosen == GetSelectedSession(ui.session, stored, sessions)
           h == [f EXCEPT !.catalog = "ready", !.sessions = sessions,
                          !.session = chosen, !.loaded = key]
<1> HIDE DEF f
<1>1. f \in Feature /\ Alike(ui, f) /\ Sound(f) /\ (Orderly(ui) => Orderly(f)) /\ FreeSlots(f) # {}
  BY Returned DEF f
<1>2. sessions \subseteq Sessions /\ key \in Nat
  BY CallTypes DEF Sound, Feature
<1>3. chosen \in sessions \cup {None}
  <2> HIDE DEF sessions
  <2> QED
    BY DEF GetSelectedSession
<1>4. CASE ~Current(i)
  <2>1. ui' = f
    BY <1>4 DEF PreferenceRead, f
  <2> QED
    BY <1>1, <2>1 DEF Follows, Feature, f
<1>5. CASE Current(i)
  <2>1. ui' = BeginIfReady(h)
    BY <1>5 DEF PreferenceRead, f
  <2>2. key = f.generation
    BY <1>1, <1>5 DEF Current, Alike
  <2> HIDE DEF sessions, key, chosen
  <2>3. /\ h.mode = f.mode /\ h.prompt = f.prompt /\ h.attempt = f.attempt
        /\ h.service = f.service /\ h.session = chosen /\ h.sessions = sessions
        /\ h.user = f.user /\ h.beginInFlight = f.beginInFlight
        /\ h.startInFlight = f.startInFlight /\ h.queued = f.queued /\ h.exiting = f.exiting
        /\ h.generation = f.generation /\ h.loaded = key /\ h.calls = f.calls
    BY <1>1 DEF Feature
  <2>4. chosen \in Sessions \cup {None} /\ sessions \in SUBSET Sessions
    BY <1>2, <1>3
  <2>5. h \in Feature
    BY <1>1, <1>2, <2>4 DEF Feature
  <2> HIDE DEF h
  <2>6. SameCalls(f, h)
    BY <2>3, CallsKept
  <2>7. Sound(h)
    <3>1. h.session # None => h.session \in h.sessions
      BY <1>3, <2>3
    <3>2. h.loaded <= h.generation
      BY <1>2, <2>2, <2>3
    <3> QED
      BY <1>1, <2>3, <2>5, <3>1, <3>2, ChangeSound
  <2>8. Sound(ui') /\ Follows(h, ui') /\ (Orderly(h) => Orderly(ui'))
    BY <1>1, <2>1, <2>6, <2>7, BeginFits DEF SameCalls
  <2>9. f.loaded <= key /\ f.loaded \in Nat
    BY <1>1, <2>2 DEF Sound, Feature
  <2>10. Follows(f, ui')
    <3>1. ui'.loaded >= f.loaded
      <4>1. ui'.loaded \in Nat /\ ui'.loaded >= key
        BY <2>3, <2>8 DEF Follows, Sound, Feature
      <4> QED
        BY <1>2, <2>9, <4>1
    <3> QED
      BY <2>3, <2>8, <3>1 DEF Follows
  <2>11. Orderly(f) => Orderly(h)
    BY <2>3, <2>6 DEF Orderly, Loading, Cancelling, Beginning, SameCalls
  <2> QED
    BY <1>1, <2>8, <2>10, <2>11 DEF f
<1> QED
  BY <1>4, <1>5

\* The power action has returned, which only changes what is shown.
LEMMA PowerReturnedFits ==
  ASSUME Sound(ui), NEW i \in Slots, ui.calls[i].op = "powerAction", PowerReturned(i)
  PROVE  Sound(ui') /\ Follows(Return(ui, i), ui') /\ (Orderly(ui) => Orderly(ui'))
<1> DEFINE f == Return(ui, i)
           h == [f EXCEPT !.power = "idle"]
<1> HIDE DEF f
<1>1. f \in Feature /\ Alike(ui, f) /\ Sound(f) /\ (Orderly(ui) => Orderly(f))
  BY Returned DEF f
<1>2. ui' = h
  BY DEF PowerReturned, f
<1>3. /\ h.mode = f.mode /\ h.prompt = f.prompt /\ h.attempt = f.attempt
      /\ h.service = f.service /\ h.session = f.session /\ h.sessions = f.sessions
      /\ h.user = f.user /\ h.beginInFlight = f.beginInFlight
      /\ h.startInFlight = f.startInFlight /\ h.queued = f.queued /\ h.exiting = f.exiting
      /\ h.generation = f.generation /\ h.loaded = f.loaded /\ h.calls = f.calls
  BY <1>1 DEF Feature
<1>4. h \in Feature
  BY <1>1 DEF Feature
<1> HIDE DEF h
<1>5. SameCalls(f, h)
  BY <1>3, CallsKept
<1>6. Sound(h)
  BY <1>1, <1>3, <1>4, ChangeSound DEF Sound
<1>7. Follows(f, h)
  BY <1>1, <1>3 DEF Follows, Feature
<1>8. Orderly(f) => Orderly(h)
  BY <1>3, <1>5 DEF Orderly, Loading, Cancelling, Beginning, SameCalls
<1> QED
  BY <1>1, <1>2, <1>6, <1>7, <1>8 DEF f

\* The answer has been used, or refused.
LEMMA RespondedFits ==
  ASSUME Sound(ui), NEW i \in Slots, ui.calls[i].op = "respond", NEW ok \in BOOLEAN,
         Responded(i, ok)
  PROVE  Sound(ui') /\ Follows(Return(ui, i), ui') /\ (Orderly(ui) => Orderly(ui'))
<1> DEFINE f == Return(ui, i)
<1> HIDE DEF f
<1>1. f \in Feature /\ Alike(ui, f) /\ Sound(f) /\ (Orderly(ui) => Orderly(f))
  BY Returned DEF f
<1>2. CASE ok \/ ui.calls[i].key # ui.attempt
  <2>1. ui' = f
    BY <1>2 DEF Responded, f
  <2> QED
    BY <1>1, <2>1 DEF Follows, Feature, f
<1>3. CASE ~(ok \/ ui.calls[i].key # ui.attempt)
  <2>1. ui' = ShowAuthError(f, "retryAuthentication")
    BY <1>3 DEF Responded, f
  <2>2. ui.attempt \in Attempts
    BY <1>3, CallTypes DEF Sound, Feature
  <2>3. f.attempt # None
    BY <1>1, <2>2, NoneAssumption DEF Alike, Attempts
  <2>4. Orderly(f) => ~f.beginInFlight /\ ~Has(f, "cancel") /\ ~Has(f, "getState")
                      /\ ~Has(f, "listUsers")
    BY <2>3 DEF Orderly, Loading, Cancelling, Beginning
  <2>5. Sound(ui') /\ Follows(f, ui')
    BY <1>1, <2>1, AuthErrorFits
  <2>6. /\ ui'.mode = "error" /\ ui'.service = f.service
        /\ ui'.beginInFlight = f.beginInFlight /\ ui'.calls = f.calls
    BY <1>1, <2>1 DEF ShowAuthError, Feature
  <2>7. SameCalls(f, ui')
    BY <2>6, CallsKept
  <2>8. Orderly(f) => Orderly(ui')
    BY <2>4, <2>6, <2>7 DEF Orderly, SameCalls
  <2> QED
    BY <1>1, <2>5, <2>8 DEF f
<1> QED
  BY <1>2, <1>3

\* The cancellation is over: the account that was selected is taken up.
LEMMA CancelledFits ==
  ASSUME Sound(ui), NEW i \in Slots, ui.calls[i].op = "cancel", NEW ok \in BOOLEAN,
         Cancelled(i, ok)
  PROVE  Sound(ui') /\ Follows(Return(ui, i), ui') /\ (Orderly(ui) => Orderly(ui'))
<1> DEFINE f == Return(ui, i)
           next == ui.calls[i].arg
           reset == ResetToUserSelection(f)
<1>1. /\ ~ok => ui' = [ServiceLost(f) EXCEPT !.recovery = "none", !.promptError = FALSE]
      /\ ok /\ f.service # "ready" => ui' = reset
      /\ ok /\ f.service = "ready" => ui' = ChooseUser(reset, next)
  BY DEF Cancelled
<1> HIDE DEF f
<1>2. /\ f \in Feature /\ Alike(ui, f) /\ Sound(f) /\ (Orderly(ui) => Orderly(f))
      /\ FreeSlots(f) # {}
      /\ Orderly(ui) => ~Has(f, "cancel")
  BY Returned DEF f, Orderly
<1>3. next \in Users
  BY CallTypes DEF Sound, Feature
<1>4. Orderly(ui) => Cancelling(ui) /\ Cancelling(f)
  BY <1>2 DEF Orderly, Has, Cancelling, Alike
<1>5. reset \in Feature
  <2>1. NoPrompt \in Prompts /\ CatalogShown(f) \in {"empty", "loading", "ready", "failed"}
    BY <1>2 DEF Prompts, CatalogShown, Feature
  <2> DEFINE h1 == [f EXCEPT !.mode = "userSelection", !.user = None, !.prompt = NoPrompt]
             h2 == [h1 EXCEPT !.recovery = "none", !.promptError = FALSE,
                              !.catalog = CatalogShown(f)]
  <2>2. reset = h2
    BY <1>2 DEF ResetToUserSelection, Feature
  <2>3. h1 \in Feature
    BY <1>2, <2>1 DEF Feature
  <2> HIDE DEF h1
  <2>4. h2 \in Feature
    BY <2>1, <2>3, Literals, ZenonT(40) DEF Feature
  <2> QED
    BY <2>2, <2>4
<1>6. /\ reset.mode = "userSelection" /\ reset.prompt = NoPrompt /\ reset.attempt = f.attempt
      /\ reset.service = f.service /\ reset.session = f.session /\ reset.sessions = f.sessions
      /\ reset.user = None /\ reset.beginInFlight = f.beginInFlight
      /\ reset.startInFlight = f.startInFlight /\ reset.queued = f.queued
      /\ reset.exiting = f.exiting /\ reset.generation = f.generation
      /\ reset.loaded = f.loaded /\ reset.calls = f.calls
  BY <1>2 DEF ResetToUserSelection, Feature
<1> HIDE DEF reset, next
<1>7. SameCalls(f, reset)
  BY <1>6, CallsKept
<1>8. Sound(reset)
  BY <1>2, <1>5, <1>6, ChangeSound DEF Sound
<1>9. Follows(f, reset)
  BY <1>2, <1>6 DEF Follows, Feature
<1>10. CASE ~ok
  <2> DEFINE lost == ServiceLost(f)
             h == [lost EXCEPT !.recovery = "none", !.promptError = FALSE]
  <2>1. ui' = h
    BY <1>1, <1>10
  <2> HIDE DEF lost
  <2>2. /\ Sound(lost) /\ lost \in Feature
        /\ Follows(f, lost)
        /\ lost.mode = "error" /\ lost.service = "unavailable"
        /\ Orderly(f) /\ ~f.beginInFlight /\ ~Has(f, "cancel") /\ ~Has(f, "getState")
             /\ ~Has(f, "listUsers")
             => Orderly(lost)
    BY <1>2, LostFits DEF lost, Sound
  <2>3. h \in Feature
    BY <2>2, Literals DEF Feature
  <2>4. /\ h.mode = lost.mode /\ h.prompt = lost.prompt /\ h.attempt = lost.attempt
        /\ h.service = lost.service /\ h.session = lost.session /\ h.sessions = lost.sessions
        /\ h.user = lost.user /\ h.beginInFlight = lost.beginInFlight
        /\ h.startInFlight = lost.startInFlight /\ h.queued = lost.queued
        /\ h.exiting = lost.exiting /\ h.dormant = lost.dormant
        /\ h.generation = lost.generation /\ h.loaded = lost.loaded /\ h.calls = lost.calls
    BY <2>2 DEF Feature
  <2> HIDE DEF h
  <2>5. SameCalls(lost, h)
    BY <2>4, CallsKept
  <2>6. Sound(h)
    BY <2>2, <2>3, <2>4, ChangeSound DEF Sound
  <2>7. Follows(f, h)
    BY <2>2, <2>4 DEF Follows
  <2>8. Orderly(ui) => Orderly(h)
    <3>1. Orderly(ui) => Orderly(lost)
      BY <1>2, <1>4, <2>2 DEF Orderly, Loading, Cancelling
    <3>2. Orderly(lost) => Orderly(h)
      BY <2>2, <2>4, <2>5 DEF Orderly, Loading, Cancelling, Beginning, SameCalls
    <3> QED
      BY <3>1, <3>2
  <2> QED
    BY <2>1, <2>6, <2>7, <2>8 DEF f
<1>11. CASE ok /\ f.service # "ready"
  <2>1. ~Orderly(ui)
    BY <1>4, <1>11 DEF Cancelling
  <2> QED
    BY <1>1, <1>8, <1>9, <1>11, <2>1 DEF f
<1>12. CASE ok /\ f.service = "ready"
  <2>1. /\ Sound(ui')
        /\ Follows(reset, ui')
        /\ Orderly(reset) /\ reset.attempt = None /\ reset.service = "ready"
             /\ ~reset.beginInFlight /\ ~Has(reset, "cancel")
             => Orderly(ui')
    BY <1>1, <1>2, <1>3, <1>7, <1>8, <1>12, ChooseFits DEF SameCalls
  <2>2. Follows(f, ui')
    BY <1>6, <2>1 DEF Follows
  <2>3. ASSUME Orderly(ui)
        PROVE  Orderly(ui')
    <3>1. Cancelling(f) /\ ~Has(f, "cancel") /\ Orderly(f)
      BY <1>2, <1>4, <2>3
    <3>2. Orderly(reset)
      BY <1>6, <1>7, <3>1 DEF Orderly, Loading, Cancelling, SameCalls
    <3> QED
      BY <1>6, <1>7, <2>1, <3>1, <3>2 DEF Cancelling, SameCalls
  <2> QED
    BY <2>1, <2>2, <2>3 DEF f
<1> QED
  BY <1>10, <1>11, <1>12

\* The start of a session has ended: the interface closes if it succeeded.
LEMMA StartReturnedFits ==
  ASSUME Sound(ui), NEW i \in Slots, ui.calls[i].op = "start", NEW ok \in BOOLEAN,
         StartReturned(i, ok)
  PROVE  /\ Sound(ui')
         /\ ui'.loaded = ui.loaded /\ ui'.attempt = ui.attempt /\ ui'.queued = ui.queued
         /\ ui'.calls[i] = NoCall /\ \A j \in Slots \ {i} : ui'.calls[j] = ui.calls[j]
         /\ ~ok /\ ui'.mode = "handingOff" => ui.mode = "handingOff"
         /\ ~ok /\ ui'.exiting => ui.exiting
         /\ Orderly(ui) => Orderly(ui')
<1> DEFINE f0 == Return(ui, i)
           f == [f0 EXCEPT !.startInFlight = FALSE]
           h1 == [f EXCEPT !.mode = "handingOff", !.recovery = "none", !.exiting = TRUE]
           h2 == [f EXCEPT !.mode = "sessionSelection", !.catalog = "ready"]
<1>1. /\ ok => ui' = h1
      /\ ~ok /\ ui.calls[i].key # ui.attempt => ui' = f
      /\ ~ok /\ ui.calls[i].key = ui.attempt => ui' = h2
  BY DEF StartReturned
<1> HIDE DEF f0
<1>2. /\ f0 \in Feature /\ Alike(ui, f0)
      /\ f0.calls[i] = NoCall /\ \A j \in Slots \ {i} : f0.calls[j] = ui.calls[j]
      /\ \A op : op # "none" => (Has(f0, op) => Has(ui, op))
      /\ ~Has(f0, "start")
      /\ Orderly(ui) => Orderly(f0)
  BY Returned DEF f0, Sound
<1>3. /\ f \in Feature
      /\ f.startInFlight = FALSE
      /\ f.mode = f0.mode /\ f.prompt = f0.prompt /\ f.attempt = f0.attempt
      /\ f.service = f0.service /\ f.session = f0.session /\ f.sessions = f0.sessions
      /\ f.user = f0.user /\ f.beginInFlight = f0.beginInFlight
      /\ f.queued = f0.queued /\ f.exiting = f0.exiting
      /\ f.generation = f0.generation /\ f.loaded = f0.loaded /\ f.calls = f0.calls
  BY <1>2, Literals DEF Feature
<1> HIDE DEF f
<1>4. /\ h1 \in Feature /\ h2 \in Feature
      /\ h1.mode = "handingOff" /\ h2.mode = "sessionSelection" /\ h2.exiting = f.exiting
  <2>1. h1 \in Feature
    BY <1>3, Literals, ZenonT(40) DEF Feature
  <2>2. h2 \in Feature
    BY <1>3 DEF Feature
  <2>3. h1.mode = "handingOff" /\ h2.mode = "sessionSelection" /\ h2.exiting = f.exiting
    BY <1>3 DEF Feature
  <2> QED
    BY <2>1, <2>2, <2>3
<1>5. ASSUME NEW h \in {h1, h2}
      PROVE  /\ h.startInFlight = FALSE /\ h.prompt = f.prompt /\ h.attempt = f.attempt
             /\ h.service = f.service /\ h.session = f.session /\ h.sessions = f.sessions
             /\ h.user = f.user /\ h.beginInFlight = f.beginInFlight /\ h.queued = f.queued
             /\ h.generation = f.generation /\ h.loaded = f.loaded /\ h.calls = f.calls
  <2>1. CASE h = h1
    BY <1>3, <2>1 DEF Feature
  <2>2. CASE h = h2
    BY <1>3, <2>2 DEF Feature
  <2> QED
    BY <2>1, <2>2
<1> HIDE DEF h1, h2
<1> ui' \in {f, h1, h2}
  BY <1>1
<1>6. /\ ui' \in Feature /\ ui'.calls = f0.calls /\ ui'.startInFlight = FALSE
      /\ ui'.prompt = ui.prompt /\ ui'.attempt = ui.attempt
      /\ ui'.service = ui.service /\ ui'.session = ui.session /\ ui'.sessions = ui.sessions
      /\ ui'.user = ui.user /\ ui'.beginInFlight = ui.beginInFlight /\ ui'.queued = ui.queued
      /\ ui'.generation = ui.generation /\ ui'.loaded = ui.loaded
  <2>1. CASE ui' = f
    BY <1>2, <1>3, <2>1 DEF Alike
  <2>2. CASE ui' \in {h1, h2}
    <3> DEFINE h == ui'
    <3>1. /\ h.startInFlight = FALSE /\ h.prompt = f.prompt /\ h.attempt = f.attempt
          /\ h.service = f.service /\ h.session = f.session /\ h.sessions = f.sessions
          /\ h.user = f.user /\ h.beginInFlight = f.beginInFlight /\ h.queued = f.queued
          /\ h.generation = f.generation /\ h.loaded = f.loaded /\ h.calls = f.calls
      BY <1>5, <2>2
    <3> QED
      BY <1>2, <1>3, <1>4, <2>2, <3>1 DEF Alike
  <2> QED
    BY <2>1, <2>2
<1>7. SameCalls(f0, ui')
  BY <1>6, CallsKept
<1>8. Sound(ui')
  BY <1>2, <1>6, <1>7 DEF Sound, SameCalls, Once, Has
<1>9. /\ ~ok /\ ui'.mode = "handingOff" => ui.mode = "handingOff"
      /\ ~ok /\ ui'.exiting => ui.exiting
  BY <1>1, <1>2, <1>3, <1>4 DEF Alike
<1>10. ASSUME Orderly(ui)
       PROVE  Orderly(ui')
  <2>1. CASE ok
    BY <1>1, <1>2, <1>4, <1>6, <1>7, <1>10, <2>1
    DEF Orderly, Loading, Cancelling, Beginning, SameCalls, Alike
  <2>2. CASE ~ok /\ ui.calls[i].key # ui.attempt
    BY <1>1, <1>2, <1>3, <1>6, <1>7, <1>10, <2>2
    DEF Orderly, Loading, Cancelling, Beginning, SameCalls, Alike
  <2>3. CASE ~ok /\ ui.calls[i].key = ui.attempt
    <3>1. ui.attempt # None
      BY <2>3, CallTypes, NoneAssumption DEF Sound, Feature, Attempts
    <3> QED
      BY <1>1, <1>2, <1>4, <1>6, <1>7, <1>10, <2>3, <3>1
      DEF Orderly, Loading, Cancelling, Beginning, SameCalls, Alike
  <2> QED
    BY <2>1, <2>2, <2>3
<1> QED
  BY <1>2, <1>6, <1>8, <1>9, <1>10

\* The conversation has begun: its attempt is bound, and the signals that came
\* before the reply are replayed.
LEMMA BegunFits ==
  ASSUME Sound(ui), NEW i \in Slots, ui.calls[i].op = "begin", NEW attempt \in Attempts,
         Begun(i, TRUE, attempt)
  PROVE  /\ Sound(ui')
         /\ ui'.loaded = ui.loaded /\ ui'.exiting = ui.exiting /\ ui'.queued = <<>>
         /\ ui'.attempt \in {attempt, None}
         /\ \A j \in Slots :
              \/ ui'.calls[j] = Return(ui, i).calls[j]
              \/ Return(ui, i).calls[j] = NoCall /\ ui'.calls[j].op = "start"
         /\ ui'.mode = "handingOff" =>
              ui.mode = "handingOff" \/ \E n \in DOMAIN ui.queued : ui.queued[n].value = "HandingOff"
         /\ Orderly(ui) /\ (\A n \in DOMAIN ui.queued : ~Buries(ui.queued[n], attempt))
              => Orderly(ui')
<1> DEFINE f == Return(ui, i)
           h == [f EXCEPT !.attempt = attempt, !.queued = <<>>, !.beginInFlight = FALSE]
<1>1. ui' = Replay(h, f.queued)
  BY DEF Begun, BindBegin
<1> HIDE DEF f
<1>2. /\ f \in Feature /\ Alike(ui, f) /\ Sound(f) /\ FreeSlots(f) # {}
      /\ \A op : op # "none" => (Has(f, op) => Has(ui, op)) /\ (Once(ui, op) => Once(f, op))
      /\ Orderly(ui) => ~Has(f, "begin") /\ OneLoad(f)
  BY Returned DEF f, Orderly
<1>3. h \in Feature
  BY <1>2, Literals DEF Feature
<1>4. /\ h.attempt = attempt /\ h.queued = <<>> /\ h.beginInFlight = FALSE
      /\ h.mode = f.mode /\ h.prompt = f.prompt
      /\ h.service = f.service /\ h.session = f.session /\ h.sessions = f.sessions
      /\ h.user = f.user /\ h.startInFlight = f.startInFlight /\ h.exiting = f.exiting
      /\ h.generation = f.generation /\ h.loaded = f.loaded /\ h.calls = f.calls
  BY <1>2 DEF Feature
<1> HIDE DEF h
<1>5. SameCalls(f, h)
  BY <1>4, CallsKept
<1>6. Sound(h)
  BY <1>2, <1>3, <1>4, ChangeSound DEF Sound
<1>7. f.queued = ui.queued /\ ui.queued \in Seq(Signals)
  BY <1>2 DEF Alike, Feature
<1>8. /\ Sound(ui')
      /\ Handled(h, ui')
      /\ ui'.queued = h.queued
      /\ ui'.mode = "handingOff" =>
           h.mode = "handingOff" \/ \E n \in DOMAIN ui.queued : ui.queued[n].value = "HandingOff"
      /\ Orderly(h) /\ (\A n \in DOMAIN ui.queued : ~Buries(ui.queued[n], h.attempt))
           => Orderly(ui')
  <2>1. h.startInFlight \/ FreeSlots(h) # {}
    BY <1>2, <1>5 DEF SameCalls
  <2>2. ~h.beginInFlight
    BY <1>4
  <2> QED
    BY <1>1, <1>6, <1>7, <2>1, <2>2, ReplayFits
<1>9. ASSUME Orderly(ui)
      PROVE  Orderly(h)
  <2>1. Has(ui, "begin")
    BY DEF Has
  <2>2. /\ ~Has(ui, "cancel") /\ ~Has(ui, "getState") /\ ~Has(ui, "listUsers")
        /\ ui.mode \in {"submitting", "handingOff"}
    BY <1>9, <2>1 DEF Orderly, Loading, Cancelling, Beginning
  <2>3. /\ ~Has(f, "cancel") /\ ~Has(f, "getState") /\ ~Has(f, "listUsers")
        /\ Once(f, "cancel") /\ Once(f, "begin") /\ OneLoad(f) /\ ~Has(f, "begin")
    BY <1>2, <1>9, <2>2 DEF Orderly
  <2> QED
    BY <1>2, <1>4, <1>5, <2>2, <2>3 DEF Orderly, SameCalls, Alike
<1> QED
  BY <1>2, <1>4, <1>8, <1>9 DEF Handled, Alike, f

\* The conversation could not be begun: the signals held back are dropped.
LEMMA BeginFailedFits ==
  ASSUME Sound(ui), NEW i \in Slots, ui.calls[i].op = "begin", NEW attempt,
         Begun(i, FALSE, attempt)
  PROVE  Sound(ui') /\ Follows(Return(ui, i), ui') /\ (Orderly(ui) => Orderly(ui'))
<1> DEFINE f == Return(ui, i)
           h == [f EXCEPT !.queued = <<>>, !.beginInFlight = FALSE]
<1>1. ui' = ShowAuthError(h, "retryAuthentication")
  BY DEF Begun
<1> HIDE DEF f
<1>2. /\ f \in Feature /\ Alike(ui, f) /\ Sound(f)
      /\ \A op : op # "none" => (Has(f, op) => Has(ui, op)) /\ (Once(ui, op) => Once(f, op))
      /\ Orderly(ui) => ~Has(f, "begin") /\ OneLoad(f)
  BY Returned DEF f, Orderly
<1>3. h \in Feature
  BY <1>2, Literals DEF Feature
<1>4. /\ h.attempt = f.attempt /\ h.queued = <<>> /\ h.beginInFlight = FALSE
      /\ h.mode = f.mode /\ h.prompt = f.prompt
      /\ h.service = f.service /\ h.session = f.session /\ h.sessions = f.sessions
      /\ h.user = f.user /\ h.startInFlight = f.startInFlight /\ h.exiting = f.exiting
      /\ h.generation = f.generation /\ h.loaded = f.loaded /\ h.calls = f.calls
  BY <1>2 DEF Feature
<1> HIDE DEF h
<1>5. SameCalls(f, h)
  BY <1>4, CallsKept
<1>6. Sound(h)
  BY <1>2, <1>3, <1>4, ChangeSound DEF Sound
<1>7. /\ Sound(ui')
      /\ Follows(h, ui')
      /\ Orderly(h) /\ ~h.beginInFlight /\ ~Has(h, "cancel") /\ h.service # "starting"
           => Orderly(ui')
  BY <1>1, <1>6, AuthErrorFits
<1>8. Follows(f, ui')
  BY <1>4, <1>7 DEF Follows
<1>9. ASSUME Orderly(ui)
      PROVE  Orderly(ui')
  <2>1. Has(ui, "begin")
    BY DEF Has
  <2>2. /\ ~Has(ui, "cancel") /\ ~Has(ui, "getState") /\ ~Has(ui, "listUsers")
        /\ ui.mode \in {"submitting", "handingOff"} /\ ui.service = "ready"
    BY <1>9, <2>1 DEF Orderly, Loading, Cancelling, Beginning
  <2>3. /\ ~Has(f, "cancel") /\ ~Has(f, "getState") /\ ~Has(f, "listUsers")
        /\ Once(f, "cancel") /\ Once(f, "begin") /\ OneLoad(f) /\ ~Has(f, "begin")
    BY <1>2, <1>9, <2>2 DEF Orderly
  <2>4. Orderly(h)
    BY <1>2, <1>4, <1>5, <2>2, <2>3 DEF Orderly, SameCalls, Alike
  <2> QED
    BY <1>2, <1>4, <1>5, <1>7, <2>2, <2>3, <2>4 DEF SameCalls, Alike
<1> QED
  BY <1>7, <1>8, <1>9 DEF f

-----------------------------------------------------------------------------
(* The inductive invariant: the backend and the bus.                        *)

Elements(seq) == {seq[n] : n \in DOMAIN seq}

InFlight == Elements(wire) \cup Elements(ui.queued)

BusFits ==
  /\ wire \in Seq(Signals \cup {Disconnected})
  /\ answers = [i \in Slots |-> [result |-> answers[i].result, value |-> answers[i].value,
                                  after |-> answers[i].after]]
  /\ serving \in Slots \cup {0}
  /\ asked \in 0..MaxPrompts
  /\ online \in BOOLEAN
  /\ Len(wire) + Len(ui.queued) <= IF online THEN WireCap ELSE WireCap + 1
  /\ online => Disconnected \notin InFlight
  /\ \A e \in InFlight : e # Disconnected => e.attempt <= lastAttempt

\* A reply belongs to the call that waits for it.
AnswersFit ==
  \A i \in Slots :
    answers[i] # NoAnswer =>
      /\ ui.calls[i].op \in {"getState", "begin", "respond", "cancel", "start"}
      /\ ui.calls[i].op = "getState" => answers[i].value \in Phases
      /\ ui.calls[i].op = "begin" /\ answers[i].result = "ok" =>
           answers[i].value \in Attempts /\ answers[i].value <= lastAttempt

\* The command that is carried out is the one the phase belongs to.
ServingFits ==
  serving # 0 =>
    /\ ui.calls[serving].op \in {"respond", "cancel", "start"}
    /\ answers[serving] = NoAnswer
    /\ ui.calls[serving].op = "start" => phase \in {"ResolvingSession", "StartingSession"}

\* The handoff is only announced when it has happened.
HandoffKnown ==
  phase # "HandingOff" =>
    /\ ~ui.exiting
    /\ ui.mode # "handingOff"
    /\ \A e \in InFlight : e.value # "HandingOff"
    /\ \A i \in Slots : ui.calls[i].op = "start" => answers[i].result # "ok"

\* An attempt whose cancellation is over, or about to be.
Gone(k) ==
  \/ phase \in {"Cancelling", "Idle"} /\ k = lastAttempt
  \/ \E e \in InFlight : e.what = "state" /\ e.value = "Idle" /\ e.attempt = k

\* The interface has abandoned it, and will not take it up again.
GoneIsForgotten ==
  \A k \in Attempts :
    Gone(k) =>
      /\ ui.attempt # k
      /\ \A i \in Slots :
           ui.calls[i].op = "begin" /\ answers[i].result = "ok" => answers[i].value # k

Inv ==
  /\ MachineInv
  /\ Sound(ui)
  /\ BusFits
  /\ AnswersFit
  /\ HandoffKnown
  /\ GoneIsForgotten
  /\ online => Orderly(ui) /\ ServingFits

-----------------------------------------------------------------------------
(* The system: what the steps of the interface preserve.                    *)

Replies == [i \in Slots |-> [result |-> answers[i].result, value |-> answers[i].value,
                             after |-> answers[i].after]]

\* The record that stands for no reply.
LEMMA NoAnswerIs ==
  NoAnswer = [result |-> "none", value |-> None, after |-> 0]
<1>1. Len(<<>>) = 0
  OBVIOUS
<1> QED
  BY <1>1 DEF NoAnswer, Answer

\* A step of the interface that takes nothing up it has abandoned.
LEMMA FeatureInv ==
  ASSUME Inv, Sound(ui'), online => Orderly(ui'),
         UNCHANGED <<online, backendVars>>,
         wire' \in Seq(Signals \cup {Disconnected}),
         Len(wire') + Len(ui'.queued) <= Len(wire) + Len(ui.queued),
         InFlight' \subseteq InFlight,
         answers' = Replies',
         \A j \in Slots :
           \/ /\ ui'.calls[j] = ui.calls[j]
              /\ answers'[j].result = answers[j].result /\ answers'[j].value = answers[j].value
              /\ answers[j] = NoAnswer => answers'[j] = NoAnswer
           \/ answers'[j] = NoAnswer /\ (online => serving # j),
         phase # "HandingOff" => ui'.mode # "handingOff" /\ ~ui'.exiting,
         \A k \in Attempts : Gone(k) => ui'.attempt # k
  PROVE  Inv'
<1> /\ phase' = phase /\ detail' = detail /\ active' = active /\ lastAttempt' = lastAttempt
    /\ serving' = serving /\ asked' = asked /\ online' = online
  BY DEF backendVars, machineVars
<1>0. NoAnswer.result = "none"
  BY NoAnswerIs
<1>1. MachineInv'
  BY DEF Inv, MachineInv, MachineTypeOK, AttemptTracksPhase
<1>2. BusFits'
  <2>1. Len(wire') + Len(ui'.queued) <= IF online THEN WireCap ELSE WireCap + 1
    <3> DEFINE now == Len(wire) + Len(ui.queued)
               then == Len(wire') + Len(ui'.queued)
               cap == IF online THEN WireCap ELSE WireCap + 1
    <3>1. now <= cap
      BY DEF Inv, BusFits
    <3>2. now \in Int /\ then \in Int /\ cap \in Int
      <4>1. Len(wire) \in Nat /\ Len(ui.queued) \in Nat
        BY LenProperties DEF Inv, BusFits, Sound, Feature
      <4>2. Len(wire') \in Nat /\ Len(ui'.queued) \in Nat
        BY LenProperties DEF Sound, Feature
      <4> QED
        BY <4>1, <4>2, BoundsAssumption
    <3>3. then <= now
      OBVIOUS
    <3> HIDE DEF now, then, cap
    <3>4. then <= cap
      BY <3>1, <3>2, <3>3
    <3> QED
      BY <3>4 DEF then, cap
  <2>2. answers' = [i \in Slots |-> [result |-> answers'[i].result, value |-> answers'[i].value,
                                     after |-> answers'[i].after]]
    BY DEF Replies
  <2> QED
    BY <2>1, <2>2 DEF Inv, BusFits
<1>3. AnswersFit'
  BY DEF Inv, AnswersFit
<1>4. HandoffKnown'
  BY <1>0 DEF Inv, HandoffKnown
<1>5. ASSUME online
      PROVE  ServingFits'
  <2> SUFFICES ASSUME serving # 0
               PROVE  /\ ui'.calls[serving].op \in {"respond", "cancel", "start"}
                      /\ answers'[serving] = NoAnswer
                      /\ ui'.calls[serving].op = "start" =>
                           phase \in {"ResolvingSession", "StartingSession"}
    BY DEF ServingFits
  <2>1. serving \in Slots
    BY DEF Inv, BusFits
  <2>2. ServingFits
    BY <1>5 DEF Inv
  <2>3. ui'.calls[serving] = ui.calls[serving] /\ answers'[serving] = NoAnswer
    BY <1>5, <2>1, <2>2 DEF ServingFits
  <2> QED
    BY <2>2, <2>3 DEF ServingFits
<1>6. GoneIsForgotten'
  <2>1. \A k \in Attempts : Gone(k)' => Gone(k)
    BY DEF Gone
  <2> QED
    BY <1>0, <2>1 DEF Inv, GoneIsForgotten
<1> QED
  BY <1>1, <1>2, <1>3, <1>4, <1>5, <1>6 DEF Inv

\* No load gives way to an older one, and no conversation is opened in front of
\* nobody.
Careful ==
  /\ ui'.loaded >= ui.loaded
  /\ \A i \in Slots : ui'.calls[i].op = "begin" /\ ui.calls[i].op # "begin" => ~ui'.dormant

\* The common case: the calls of f go on, the interface does not learn anything.
LEMMA FollowInv ==
  ASSUME Inv, NEW f, Alike(ui, f), Sound(ui'), Follows(f, ui'), online => Orderly(ui'),
         UNCHANGED <<wire, online, backendVars>>,
         answers' = Replies',
         \A j \in Slots : answers'[j] \in {answers[j], NoAnswer},
         \A j \in Slots :
           \/ f.calls[j] = ui.calls[j]
           \/ f.calls[j] = NoCall /\ answers'[j] = NoAnswer /\ (online => serving # j)
  PROVE  Inv' /\ Careful
<1>1. NoCall.op = "none"
  BY PendingTypes
<1>2. \A j \in Slots :
           \/ /\ ui'.calls[j] = ui.calls[j]
              /\ answers'[j].result = answers[j].result /\ answers'[j].value = answers[j].value
              /\ answers[j] = NoAnswer => answers'[j] = NoAnswer
           \/ answers'[j] = NoAnswer /\ (online => serving # j)
  <2> SUFFICES ASSUME NEW j \in Slots
               PROVE  \/ /\ ui'.calls[j] = ui.calls[j]
                         /\ answers'[j].result = answers[j].result
                         /\ answers'[j].value = answers[j].value
                         /\ answers[j] = NoAnswer => answers'[j] = NoAnswer
                      \/ answers'[j] = NoAnswer /\ (online => serving # j)
    OBVIOUS
  <2>1. CASE ~(f.calls[j] = ui.calls[j])
    BY <2>1
  <2>2. CASE f.calls[j] = ui.calls[j] /\ ui'.calls[j] # f.calls[j]
    <3>1. ui.calls[j] = NoCall
      BY <2>2 DEF Follows
    <3>2. answers[j] = NoAnswer
      BY <1>1, <3>1 DEF Inv, AnswersFit
    <3>3. online => serving # j
      BY <1>1, <3>1, SlotsAssumption DEF Inv, ServingFits
    <3> QED
      BY <3>2, <3>3
  <2>3. CASE f.calls[j] = ui.calls[j] /\ ui'.calls[j] = f.calls[j] /\ answers'[j] = answers[j]
    BY <2>3
  <2>4. CASE f.calls[j] = ui.calls[j] /\ ui'.calls[j] = f.calls[j] /\ answers'[j] # answers[j]
    <3>1. answers'[j] = NoAnswer /\ answers[j] # NoAnswer
      BY <2>4
    <3>2. online => serving # j
      BY <3>1, SlotsAssumption DEF Inv, ServingFits
    <3> QED
      BY <3>1, <3>2
  <2> QED
    BY <2>1, <2>2, <2>3, <2>4
<1>3. ui'.queued = ui.queued \/ ui'.queued = <<>>
  BY DEF Follows, Alike
<1>4. Len(wire') + Len(ui'.queued) <= Len(wire) + Len(ui.queued)
  <2>1. wire' = wire /\ Len(wire) \in Nat /\ Len(ui.queued) \in Nat
    BY LenProperties DEF Inv, BusFits, Sound, Feature
  <2>2. CASE ui'.queued = ui.queued
    BY <2>1, <2>2
  <2>3. CASE ui'.queued = <<>>
    <3>1. Len(ui'.queued) = 0
      BY <2>3
    <3> QED
      BY <2>1, <3>1
  <2> QED
    BY <1>3, <2>2, <2>3
<1>5. InFlight' \subseteq InFlight
  <2>1. Elements(ui'.queued) \subseteq Elements(ui.queued)
    BY <1>3 DEF Elements
  <2>2. InFlight' = Elements(wire') \cup Elements(ui'.queued)
    BY DEF InFlight
  <2> QED
    BY <2>1, <2>2 DEF InFlight
<1>6. phase # "HandingOff" => ui'.mode # "handingOff" /\ ~ui'.exiting
  BY DEF Inv, HandoffKnown, Follows, Alike
<1>7. ASSUME NEW k \in Attempts, Gone(k)
      PROVE  ui'.attempt # k
  <2>1. ui.attempt # k /\ None # k
    BY <1>7, NoneAssumption DEF Inv, GoneIsForgotten, Attempts
  <2> QED
    BY <2>1 DEF Follows, Alike
<1>8. wire' \in Seq(Signals \cup {Disconnected})
  BY DEF Inv, BusFits
<1> HIDE DEF Inv
<1>9. Careful
  <2>1. ui'.loaded >= ui.loaded
    BY DEF Follows, Alike
  <2> QED
    BY <1>1, <2>1 DEF Careful, Follows
<1> QED
  BY <1>2, <1>4, <1>5, <1>6, <1>7, <1>8, <1>9, FeatureInv

\* What the user does.
LEMMA UserInv ==
  ASSUME Inv, UserActs
  PROVE  Inv' /\ Careful
<1>1. Sound(ui) /\ (online => Orderly(ui))
  BY DEF Inv
<1>2. Sound(ui') /\ Follows(ui, ui') /\ (Orderly(ui) => Orderly(ui'))
  BY <1>1, UserFits
<1>3. UNCHANGED <<wire, answers, online, backendVars>>
  BY DEF UserActs, busVars
<1>4. Alike(ui, ui)
  BY DEF Alike
<1>5. answers' = Replies'
  BY <1>3 DEF Inv, BusFits, Replies
<1> HIDE DEF Inv
<1> QED
  BY <1>1, <1>2, <1>3, <1>4, <1>5, FollowInv

\* The reply of a call that concerns authentication, or the loss of it.
Answered(i) ==
  /\ answers' = [answers EXCEPT ![i] = NoAnswer]
  /\ online => answers[i] # NoAnswer
  /\ UNCHANGED <<wire, online, backendVars>>

\* A reply leaves its slot, which the backend no longer serves.
LEMMA AnsweredFits ==
  ASSUME Inv, NEW i \in Slots, Answered(i)
  PROVE  /\ answers' = Replies'
         /\ \A j \in Slots : answers'[j] \in {answers[j], NoAnswer}
         /\ answers'[i] = NoAnswer /\ (online => serving # i)
<1>1. answers = [j \in Slots |-> [result |-> answers[j].result, value |-> answers[j].value,
                                  after |-> answers[j].after]]
  BY DEF Inv, BusFits
<1>2. answers' = [answers EXCEPT ![i] = NoAnswer]
  BY DEF Answered
<1>3. DOMAIN answers = Slots
  BY <1>1
<1>4. answers' = [j \in Slots |-> IF j = i THEN NoAnswer ELSE answers[j]]
  BY <1>2, <1>3, <1>1
<1>5. \A j \in Slots : answers[j] = [result |-> answers[j].result, value |-> answers[j].value,
                                     after |-> answers[j].after]
  BY <1>1
<1>6. \A j \in Slots :
        (IF j = i THEN NoAnswer ELSE answers[j])
          = [result |-> answers'[j].result, value |-> answers'[j].value,
             after |-> answers'[j].after]
  BY <1>4, <1>5, NoAnswerIs
<1>7. answers' = Replies'
  BY <1>4, <1>6 DEF Replies
<1>8. online => serving # i
  BY SlotsAssumption DEF Inv, ServingFits, Answered
<1> QED
  BY <1>4, <1>7, <1>8

\* A reply whose stretch of code binds nothing and learns of no handoff.
LEMMA ReplyFollowInv ==
  ASSUME Inv, NEW i \in Slots, Answered(i), Sound(ui'), Follows(Return(ui, i), ui'),
         Orderly(ui) => Orderly(ui')
  PROVE  Inv' /\ Careful
<1> DEFINE f == Return(ui, i)
<1> HIDE DEF f
<1>1. Sound(ui) /\ (online => Orderly(ui))
  BY DEF Inv
<1>2. /\ Alike(ui, f)
      /\ f.calls[i] = NoCall /\ \A j \in Slots \ {i} : f.calls[j] = ui.calls[j]
  BY <1>1, Returned DEF f
<1>3. /\ answers' = Replies'
      /\ \A j \in Slots : answers'[j] \in {answers[j], NoAnswer}
      /\ answers'[i] = NoAnswer /\ (online => serving # i)
  BY AnsweredFits
<1>4. UNCHANGED <<wire, online, backendVars>>
  BY DEF Answered
<1>5. Follows(f, ui')
  BY DEF f
<1>6. \A j \in Slots :
           \/ f.calls[j] = ui.calls[j]
           \/ f.calls[j] = NoCall /\ answers'[j] = NoAnswer /\ (online => serving # j)
  BY <1>2, <1>3
<1> HIDE DEF Inv
<1> QED
  BY <1>1, <1>2, <1>3, <1>4, <1>5, <1>6, FollowInv

\* The reply of a call that does not concern authentication.
LEMMA ElsewhereInv ==
  ASSUME Inv, NEW i \in Slots, NEW op, Elsewhere(i, op),
         op \in {"listUsers", "listSessions", "readPreference", "powerAction"},
         Sound(ui'), Follows(Return(ui, i), ui'), online => Orderly(ui')
  PROVE  Inv' /\ Careful
<1> DEFINE f == Return(ui, i)
<1> HIDE DEF f
<1>1. Sound(ui) /\ (online => Orderly(ui))
  BY DEF Inv
<1>2. /\ Alike(ui, f)
      /\ f.calls[i] = NoCall /\ \A j \in Slots \ {i} : f.calls[j] = ui.calls[j]
  BY <1>1, Returned DEF f
<1>3. UNCHANGED <<wire, answers, online, backendVars>> /\ ui.calls[i].op = op
  BY DEF Elsewhere
<1>4. answers' = Replies'
  BY <1>3 DEF Inv, BusFits, Replies
<1>5. answers[i] = NoAnswer /\ (online => serving # i)
  BY <1>3, SlotsAssumption DEF Inv, AnswersFit, ServingFits
<1>6. Follows(f, ui')
  BY DEF f
<1>7. \A j \in Slots :
           \/ f.calls[j] = ui.calls[j]
           \/ f.calls[j] = NoCall /\ answers'[j] = NoAnswer /\ (online => serving # j)
  BY <1>2, <1>3, <1>5
<1>8. \A j \in Slots : answers'[j] \in {answers[j], NoAnswer}
  BY <1>3
<1> HIDE DEF Inv
<1> QED
  BY <1>2, <1>3, <1>4, <1>6, <1>7, <1>8, FollowInv

\* A reply comes from the backend, or stands for the lost connection.
LEMMA AnsweredIs ==
  ASSUME NEW i \in Slots, NEW op
  PROVE  /\ Reply(i, op) => Answered(i) /\ ui.calls[i].op = op /\ answers[i] # NoAnswer
         /\ ConnectionLost(i, op) => Answered(i) /\ ui.calls[i].op = op /\ ~online
BY DEF Reply, ConnectionLost, Answered

\* The state has been read, or the service is lost.
LEMMA GetStateReturnsInv ==
  ASSUME Inv, NEW i \in Slots, GetStateReturns(i)
  PROVE  Inv' /\ Careful
<1>1. Sound(ui)
  BY DEF Inv
<1>2. CASE Reply(i, "getState") /\ StateRead(i, answers[i].value)
  <2>1. Answered(i) /\ ui.calls[i].op = "getState" /\ answers[i] # NoAnswer
    BY <1>2, AnsweredIs
  <2>2. answers[i].value \in Phases
    BY <2>1 DEF Inv, AnswersFit
  <2>3. Sound(ui') /\ Follows(Return(ui, i), ui') /\ (Orderly(ui) => Orderly(ui'))
    BY <1>1, <1>2, <2>1, <2>2, StateReadFits
  <2> QED
    BY <2>1, <2>3, ReplyFollowInv
<1>3. CASE ConnectionLost(i, "getState") /\ LoadFailed(i)
  <2>1. Answered(i) /\ ui.calls[i].op = "getState"
    BY <1>3, AnsweredIs
  <2>2. Sound(ui') /\ Follows(Return(ui, i), ui') /\ (Orderly(ui) => Orderly(ui'))
    BY <1>1, <1>3, <2>1, LoadFailedFits
  <2> QED
    BY <2>1, <2>2, ReplyFollowInv
<1> QED
  BY <1>2, <1>3 DEF GetStateReturns

\* The result of a call is a truth value.
LEMMA SucceededIs ==
  ASSUME NEW i
  PROVE  Succeeded(i) \in BOOLEAN /\ (Succeeded(i) = TRUE \/ Succeeded(i) = FALSE)
<1>1. CASE Succeeded(i)
  BY <1>1, Zenon
<1>2. CASE ~Succeeded(i)
  BY <1>2 DEF Succeeded
<1> QED
  BY <1>1, <1>2

\* An answer was taken or refused.
LEMMA RespondReturnsInv ==
  ASSUME Inv, NEW i \in Slots, RespondReturns(i)
  PROVE  Inv' /\ Careful
<1>1. Sound(ui)
  BY DEF Inv
<1>2. Answered(i) /\ ui.calls[i].op = "respond"
  BY AnsweredIs DEF RespondReturns
<1>3. PICK ok \in BOOLEAN : Responded(i, ok)
  BY SucceededIs, Literals, Zenon DEF RespondReturns
<1>4. Sound(ui') /\ Follows(Return(ui, i), ui') /\ (Orderly(ui) => Orderly(ui'))
  BY <1>1, <1>2, <1>3, RespondedFits
<1> QED
  BY <1>2, <1>4, ReplyFollowInv

\* A cancellation is over: the interface goes on with the account it kept.
LEMMA CancelReturnsInv ==
  ASSUME Inv, NEW i \in Slots, CancelReturns(i)
  PROVE  Inv' /\ Careful
<1>1. Sound(ui)
  BY DEF Inv
<1>2. Answered(i) /\ ui.calls[i].op = "cancel"
  BY AnsweredIs DEF CancelReturns
<1>3. PICK ok \in BOOLEAN : Cancelled(i, ok)
  BY SucceededIs, Literals, Zenon DEF CancelReturns
<1>4. Sound(ui') /\ Follows(Return(ui, i), ui') /\ (Orderly(ui) => Orderly(ui'))
  BY <1>1, <1>2, <1>3, CancelledFits
<1> QED
  BY <1>2, <1>4, ReplyFollowInv

\* The interface closes when the start succeeded: greetd holds the session.
LEMMA StartReturnsInv ==
  ASSUME Inv, NEW i \in Slots, StartReturns(i)
  PROVE  Inv' /\ Careful
<1>1. Sound(ui) /\ (online => Orderly(ui))
  BY DEF Inv
<1>2. Answered(i) /\ ui.calls[i].op = "start"
  BY AnsweredIs DEF StartReturns
<1>3. \E ok \in BOOLEAN : StartReturned(i, ok) /\ (ok => answers[i].result = "ok")
  <2>1. CASE Reply(i, "start") /\ StartReturned(i, Succeeded(i))
    <3>1. Succeeded(i) => answers[i].result = "ok"
      BY DEF Succeeded
    <3> QED
      BY <2>1, <3>1, SucceededIs, Zenon
  <2>2. CASE ConnectionLost(i, "start") /\ StartReturned(i, FALSE)
    BY <2>2, Literals, Zenon
  <2> QED
    BY <2>1, <2>2 DEF StartReturns
<1>4. PICK ok \in BOOLEAN : StartReturned(i, ok) /\ (ok => answers[i].result = "ok")
  BY <1>3
<1>5. /\ Sound(ui')
      /\ ui'.loaded = ui.loaded /\ ui'.attempt = ui.attempt /\ ui'.queued = ui.queued
      /\ ui'.calls[i] = NoCall /\ \A j \in Slots \ {i} : ui'.calls[j] = ui.calls[j]
      /\ ~ok /\ ui'.mode = "handingOff" => ui.mode = "handingOff"
      /\ ~ok /\ ui'.exiting => ui.exiting
      /\ Orderly(ui) => Orderly(ui')
  BY <1>1, <1>2, <1>4, StartReturnedFits
<1>6. /\ answers' = Replies'
      /\ \A j \in Slots : answers'[j] \in {answers[j], NoAnswer}
      /\ answers'[i] = NoAnswer /\ (online => serving # i)
  BY <1>2, AnsweredFits
<1>7. UNCHANGED <<wire, online, backendVars>>
  BY <1>2 DEF Answered
<1>8. \A j \in Slots :
        \/ /\ ui'.calls[j] = ui.calls[j]
           /\ answers'[j].result = answers[j].result /\ answers'[j].value = answers[j].value
           /\ answers[j] = NoAnswer => answers'[j] = NoAnswer
        \/ answers'[j] = NoAnswer /\ (online => serving # j)
  <2> SUFFICES ASSUME NEW j \in Slots \ {i}, answers'[j] # answers[j]
               PROVE  online => serving # j
    BY <1>5, <1>6
  <2>1. answers[j] # NoAnswer
    BY <1>6
  <2> QED
    BY <2>1, SlotsAssumption DEF Inv, ServingFits
<1>9. phase # "HandingOff" => ui'.mode # "handingOff" /\ ~ui'.exiting
  BY <1>2, <1>4, <1>5 DEF Inv, HandoffKnown
<1>10. \A k \in Attempts : Gone(k) => ui'.attempt # k
  BY <1>5 DEF Inv, GoneIsForgotten
<1>11. /\ wire' \in Seq(Signals \cup {Disconnected})
       /\ Len(wire') + Len(ui'.queued) <= Len(wire) + Len(ui.queued)
  <2>1. wire' = wire /\ Len(wire) \in Nat /\ Len(ui.queued) \in Nat
    BY <1>7, LenProperties DEF Inv, BusFits, Sound, Feature
  <2> QED
    BY <1>5, <2>1 DEF Inv, BusFits
<1>12. InFlight' \subseteq InFlight
  BY <1>5, <1>7 DEF InFlight
<1>13. Careful
  <2>1. ui'.loaded >= ui.loaded
    BY <1>1, <1>5 DEF Sound, Feature
  <2>2. NoCall.op = "none"
    BY PendingTypes
  <2> QED
    BY <1>5, <2>1, <2>2 DEF Careful
<1> HIDE DEF Inv
<1> QED
  BY <1>1, <1>5, <1>6, <1>7, <1>8, <1>9, <1>10, <1>11, <1>12, <1>13, FeatureInv

\* The attempt that is bound has not been abandoned meanwhile.
LEMMA BeginReturnsInv ==
  ASSUME Inv, NEW i \in Slots, BeginReturns(i)
  PROVE  Inv' /\ Careful
<1>1. Sound(ui) /\ (online => Orderly(ui))
  BY DEF Inv
<1>2. Answered(i) /\ ui.calls[i].op = "begin"
  BY AnsweredIs DEF BeginReturns
<1>3. ASSUME NEW attempt, Begun(i, FALSE, attempt)
      PROVE  Inv' /\ Careful
  <2>1. Sound(ui') /\ Follows(Return(ui, i), ui') /\ (Orderly(ui) => Orderly(ui'))
    BY <1>1, <1>2, <1>3, BeginFailedFits
  <2> QED
    BY <1>2, <2>1, ReplyFollowInv
<1>4. ASSUME Reply(i, "begin"), Succeeded(i), Begun(i, TRUE, answers[i].value)
      PROVE  Inv' /\ Careful
  <2> DEFINE attempt == answers[i].value
             f == Return(ui, i)
  <2>1. /\ answers[i] # NoAnswer /\ answers[i].result = "ok"
        /\ attempt \in Attempts
    BY <1>4, <1>2, AnsweredIs DEF Succeeded, Inv, AnswersFit
  <2> HIDE DEF attempt
  <2>2. /\ Sound(ui')
        /\ ui'.loaded = ui.loaded /\ ui'.exiting = ui.exiting /\ ui'.queued = <<>>
        /\ ui'.attempt \in {attempt, None}
        /\ \A j \in Slots :
             \/ ui'.calls[j] = Return(ui, i).calls[j]
             \/ Return(ui, i).calls[j] = NoCall /\ ui'.calls[j].op = "start"
        /\ ui'.mode = "handingOff" =>
             ui.mode = "handingOff" \/ \E n \in DOMAIN ui.queued : ui.queued[n].value = "HandingOff"
        /\ Orderly(ui) /\ (\A n \in DOMAIN ui.queued : ~Buries(ui.queued[n], attempt))
             => Orderly(ui')
    BY <1>1, <1>2, <1>4, <2>1, BegunFits DEF attempt
  <2> HIDE DEF f
  <2>3. f.calls[i] = NoCall /\ \A j \in Slots \ {i} : f.calls[j] = ui.calls[j]
    BY <1>1, Returned DEF f
  <2>4. /\ answers' = Replies'
        /\ \A j \in Slots : answers'[j] = answers[j] \/ answers'[j] = NoAnswer
        /\ answers'[i] = NoAnswer /\ (online => serving # i)
    BY <1>2, AnsweredFits
  <2>5. UNCHANGED <<wire, online, backendVars>>
    BY <1>2 DEF Answered
  <2>6. NoCall.op = "none"
    BY PendingTypes
  <2>7. \A j \in Slots :
          \/ /\ ui'.calls[j] = ui.calls[j]
             /\ answers'[j].result = answers[j].result /\ answers'[j].value = answers[j].value
             /\ answers[j] = NoAnswer => answers'[j] = NoAnswer
          \/ answers'[j] = NoAnswer /\ (online => serving # j)
    <3> SUFFICES ASSUME NEW j \in Slots \ {i}
                 PROVE  \/ /\ ui'.calls[j] = ui.calls[j]
                           /\ answers'[j].result = answers[j].result
                           /\ answers'[j].value = answers[j].value
                           /\ answers[j] = NoAnswer => answers'[j] = NoAnswer
                        \/ answers'[j] = NoAnswer /\ (online => serving # j)
      BY <2>4
    <3>1. CASE ui'.calls[j] = ui.calls[j] /\ answers'[j] = answers[j]
      BY <3>1
    <3>2. CASE ui'.calls[j] = ui.calls[j] /\ answers'[j] # answers[j]
      <4>1. answers'[j] = NoAnswer /\ answers[j] # NoAnswer
        BY <2>4, <3>2
      <4> QED
        BY <4>1, SlotsAssumption DEF Inv, ServingFits
    <3>3. CASE ui'.calls[j] # ui.calls[j]
      <4>1. ui.calls[j] = NoCall
        BY <2>2, <2>3, <3>3 DEF f
      <4>2. answers[j] = NoAnswer /\ (online => serving # j)
        BY <2>6, <4>1, SlotsAssumption DEF Inv, AnswersFit, ServingFits
      <4> QED
        BY <2>4, <4>2
    <3> QED
      BY <3>1, <3>2, <3>3
  <2>8. \A n \in DOMAIN ui.queued : ui.queued[n] \in InFlight
    BY DEF InFlight, Elements
  <2>9. phase # "HandingOff" => ui'.mode # "handingOff" /\ ~ui'.exiting
    BY <2>2, <2>8 DEF Inv, HandoffKnown
  <2>10. ~Gone(attempt)
    BY <1>2, <2>1 DEF Inv, GoneIsForgotten, attempt
  <2>11. \A n \in DOMAIN ui.queued : ~Buries(ui.queued[n], attempt)
    BY <2>8, <2>10 DEF Gone, Buries
  <2>12. \A k \in Attempts : Gone(k) => ui'.attempt # k
    <3>1. None \notin Attempts
      BY NoneAssumption DEF Attempts
    <3> QED
      BY <2>2, <2>10, <3>1
  <2>13. /\ wire' \in Seq(Signals \cup {Disconnected})
         /\ Len(wire') + Len(ui'.queued) <= Len(wire) + Len(ui.queued)
    <3>1. wire' = wire /\ Len(wire) \in Nat /\ Len(ui.queued) \in Nat
      BY <2>5, LenProperties DEF Inv, BusFits, Sound, Feature
    <3>2. Len(ui'.queued) = 0
      BY <2>2
    <3> QED
      BY <3>1, <3>2 DEF Inv, BusFits
  <2>14. InFlight' \subseteq InFlight
    <3>1. Elements(ui'.queued) = {}
      BY <2>2 DEF Elements
    <3>2. InFlight' = Elements(wire') \cup Elements(ui'.queued)
      BY DEF InFlight
    <3> QED
      BY <2>5, <3>1, <3>2 DEF InFlight
  <2>15. online => Orderly(ui')
    BY <1>1, <2>2, <2>11
  <2>16. Careful
    <3>1. ui'.loaded >= ui.loaded
      BY <1>1, <2>2 DEF Sound, Feature
    <3> QED
      BY <2>2, <2>3, <2>6, <3>1 DEF Careful, f
  <2> HIDE DEF Inv
  <2> QED
    BY <2>2, <2>4, <2>5, <2>7, <2>9, <2>12, <2>13, <2>14, <2>15, <2>16, FeatureInv
<1>5. CASE Reply(i, "begin") /\ Begun(i, Succeeded(i), answers[i].value)
  <2>1. CASE Succeeded(i)
    <3>1. Succeeded(i) = TRUE
      BY <2>1, Zenon
    <3> QED
      BY <1>4, <1>5, <2>1, <3>1, Zenon
  <2>2. CASE ~Succeeded(i)
    <3>1. Succeeded(i) = FALSE
      BY <2>2, SucceededIs
    <3> QED
      BY <1>3, <1>5, <3>1, Zenon
  <2> QED
    BY <2>1, <2>2
<1>6. CASE ConnectionLost(i, "begin") /\ Begun(i, FALSE, None)
  BY <1>3, <1>6
<1> QED
  BY <1>5, <1>6 DEF BeginReturns

\* The replies that do not concern authentication.
LEMMA OtherReturnsInv ==
  ASSUME Inv, NEW i \in Slots,
         UsersReturn(i) \/ SessionsReturn(i) \/ PreferenceReturns(i) \/ PowerReturns(i)
  PROVE  Inv' /\ Careful
<1>1. Sound(ui) /\ (online => Orderly(ui))
  BY DEF Inv
<1>2. CASE UsersReturn(i)
  <2>1. Elsewhere(i, "listUsers") /\ ui.calls[i].op = "listUsers"
    BY <1>2 DEF UsersReturn, Elsewhere
  <2>2. CASE online /\ UsersListed(i)
    <3>1. Sound(ui') /\ Follows(Return(ui, i), ui') /\ Orderly(ui')
      BY <1>1, <2>1, <2>2, UsersListedFits
    <3> QED
      BY <2>1, <3>1, ElsewhereInv
  <2>3. CASE LoadFailed(i)
    <3>1. Sound(ui') /\ Follows(Return(ui, i), ui') /\ (Orderly(ui) => Orderly(ui'))
      BY <1>1, <2>1, <2>3, LoadFailedFits
    <3> QED
      BY <1>1, <2>1, <3>1, ElsewhereInv
  <2> QED
    BY <1>2, <2>2, <2>3 DEF UsersReturn
<1>3. CASE SessionsReturn(i)
  <2>1. Elsewhere(i, "listSessions") /\ ui.calls[i].op = "listSessions"
    BY <1>3 DEF SessionsReturn, Elsewhere
  <2>2. Sound(ui') /\ Follows(Return(ui, i), ui') /\ (Orderly(ui) => Orderly(ui'))
    <3>1. CASE \E sessions \in SUBSET Sessions : SessionsListed(i, sessions)
      BY <1>1, <2>1, <3>1, SessionsListedFits
    <3>2. CASE SessionsFailed(i)
      BY <1>1, <2>1, <3>2, SessionsFailedFits
    <3> QED
      BY <1>3, <3>1, <3>2 DEF SessionsReturn
  <2> QED
    BY <1>1, <2>1, <2>2, ElsewhereInv
<1>4. CASE PreferenceReturns(i)
  <2>1. Elsewhere(i, "readPreference") /\ ui.calls[i].op = "readPreference"
    BY <1>4 DEF PreferenceReturns, Elsewhere
  <2>2. Sound(ui') /\ Follows(Return(ui, i), ui') /\ (Orderly(ui) => Orderly(ui'))
    BY <1>1, <1>4, <2>1, PreferenceReadFits DEF PreferenceReturns
  <2> QED
    BY <1>1, <2>1, <2>2, ElsewhereInv
<1>5. CASE PowerReturns(i)
  <2>1. Elsewhere(i, "powerAction") /\ ui.calls[i].op = "powerAction" /\ PowerReturned(i)
    BY <1>5 DEF PowerReturns, Elsewhere
  <2>2. Sound(ui') /\ Follows(Return(ui, i), ui') /\ (Orderly(ui) => Orderly(ui'))
    BY <1>1, <2>1, PowerReturnedFits
  <2> QED
    BY <1>1, <2>1, <2>2, ElsewhereInv
<1> QED
  BY <1>2, <1>3, <1>4, <1>5

\* The replies together.
LEMMA ReplyInv ==
  ASSUME Inv, NEW i \in Slots, ReplyStep(i)
  PROVE  Inv' /\ Careful
BY GetStateReturnsInv, BeginReturnsInv, RespondReturnsInv, CancelReturnsInv, StartReturnsInv,
   OtherReturnsInv, Zenon DEF ReplyStep

\* The next event leaves the wire.
LEMMA TailElements ==
  ASSUME NEW S, NEW seq \in Seq(S), seq # <<>>
  PROVE  /\ Head(seq) \in Elements(seq) /\ Head(seq) \in S
         /\ Tail(seq) \in Seq(S) /\ Elements(Tail(seq)) \subseteq Elements(seq)
         /\ Len(Tail(seq)) + 1 = Len(seq) /\ Len(Tail(seq)) \in Nat
<1>1. /\ Head(seq) \in S /\ Tail(seq) \in Seq(S)
      /\ Len(Tail(seq)) = Len(seq) - 1
      /\ \A n \in 1..Len(Tail(seq)) : Tail(seq)[n] = seq[n + 1]
  BY HeadTailProperties
<1>2. Len(seq) \in Nat /\ Len(seq) >= 1 /\ DOMAIN seq = 1..Len(seq)
      /\ DOMAIN Tail(seq) = 1..Len(Tail(seq))
  BY <1>1, EmptySeq, LenProperties
<1>3. Head(seq) = seq[1]
  OBVIOUS
<1>4. Elements(Tail(seq)) \subseteq Elements(seq)
  <2> SUFFICES ASSUME NEW n \in 1..Len(Tail(seq))
               PROVE  Tail(seq)[n] \in Elements(seq)
    BY <1>2 DEF Elements
  <2>1. n + 1 \in DOMAIN seq
    BY <1>1, <1>2
  <2> QED
    BY <1>1, <2>1 DEF Elements
<1>5. Head(seq) \in Elements(seq)
  <2>1. 1 \in DOMAIN seq
    BY <1>2
  <2> QED
    BY <1>3, <2>1 DEF Elements
<1> QED
  BY <1>1, <1>2, <1>4, <1>5

\* An event joins a queue.
LEMMA AppendElements ==
  ASSUME NEW S, NEW seq \in Seq(S), NEW e \in S
  PROVE  /\ Elements(Append(seq, e)) \subseteq Elements(seq) \cup {e}
         /\ Len(Append(seq, e)) = Len(seq) + 1 /\ Len(seq) \in Nat
<1>1. /\ Len(Append(seq, e)) = Len(seq) + 1 /\ Append(seq, e) \in Seq(S)
      /\ \A n \in 1..Len(seq) : Append(seq, e)[n] = seq[n]
      /\ Append(seq, e)[Len(seq) + 1] = e
  BY AppendProperties
<1>2. Len(seq) \in Nat /\ DOMAIN seq = 1..Len(seq)
      /\ DOMAIN Append(seq, e) = 1..(Len(seq) + 1)
  BY <1>1, LenProperties
<1>3. ASSUME NEW n \in 1..(Len(seq) + 1)
      PROVE  Append(seq, e)[n] \in Elements(seq) \cup {e}
  <2>1. CASE n = Len(seq) + 1
    BY <1>1, <2>1
  <2>2. CASE n # Len(seq) + 1
    <3>1. n \in 1..Len(seq)
      BY <1>2, <2>2
    <3> QED
      BY <1>1, <1>2, <3>1 DEF Elements
  <2> QED
    BY <2>1, <2>2
<1> QED
  BY <1>1, <1>2, <1>3 DEF Elements

\* A reply comes nearer when a signal before it has arrived.
LEMMA NearerIs ==
  ASSUME Inv, answers' = [i \in Slots |-> OneNearer(answers[i])]
  PROVE  /\ answers' = Replies'
         /\ \A j \in Slots :
              /\ answers'[j].result = answers[j].result /\ answers'[j].value = answers[j].value
              /\ answers[j] = NoAnswer => answers'[j] = NoAnswer
<1>1. \A j \in Slots : answers[j] = [result |-> answers[j].result, value |-> answers[j].value,
                                     after |-> answers[j].after]
  BY DEF Inv, BusFits
<1>2. \A j \in Slots :
        OneNearer(answers[j]) = [result |-> answers[j].result, value |-> answers[j].value,
                                 after |-> IF answers[j].after > 0 THEN answers[j].after - 1 ELSE 0]
  <2> TAKE j \in Slots
  <2> DEFINE r == answers[j].result
             v == answers[j].value
             a == answers[j].after
  <2>1. answers[j] = [result |-> r, value |-> v, after |-> a]
    BY <1>1
  <2> HIDE DEF r, v, a
  <2>2. OneNearer([result |-> r, value |-> v, after |-> a])
          = [result |-> r, value |-> v, after |-> IF a > 0 THEN a - 1 ELSE 0]
    BY DEF OneNearer
  <2>3. OneNearer(answers[j]) = [result |-> r, value |-> v, after |-> IF a > 0 THEN a - 1 ELSE 0]
    BY <2>1, <2>2
  <2> QED
    BY <2>3 DEF r, v, a
<1>3. \A j \in Slots :
        /\ answers'[j].result = answers[j].result /\ answers'[j].value = answers[j].value
        /\ answers'[j] = [result |-> answers'[j].result, value |-> answers'[j].value,
                          after |-> answers'[j].after]
        /\ answers[j] = NoAnswer => answers'[j] = NoAnswer
  <2> TAKE j \in Slots
  <2>1. answers'[j] = [result |-> answers[j].result, value |-> answers[j].value,
                       after |-> IF answers[j].after > 0 THEN answers[j].after - 1 ELSE 0]
    BY <1>2
  <2>2. /\ answers'[j].result = answers[j].result /\ answers'[j].value = answers[j].value
        /\ answers'[j] = [result |-> answers'[j].result, value |-> answers'[j].value,
                          after |-> answers'[j].after]
    BY <2>1
  <2>3. ASSUME answers[j] = NoAnswer
        PROVE  answers'[j] = NoAnswer
    <3>1. answers[j].result = "none" /\ answers[j].value = None /\ answers[j].after = 0
      BY <2>3, NoAnswerIs
    <3>2. answers'[j] = [result |-> "none", value |-> None, after |-> 0]
      BY <2>1, <3>1
    <3> QED
      BY <3>2, NoAnswerIs
  <2> QED
    BY <2>2, <2>3
<1>4. answers' = Replies'
  BY <1>3 DEF Replies
<1> QED
  BY <1>3, <1>4

\* An event arrives.
LEMMA ReceiveInv ==
  ASSUME Inv, Receive
  PROVE  Inv' /\ Careful
<1> DEFINE e == Head(wire)
<1>1. /\ wire \in Seq(Signals \cup {Disconnected}) /\ wire # <<>> /\ FreeSlots(ui) # {}
      /\ ui' = HandleEvent(ui, e) /\ wire' = Tail(wire)
      /\ UNCHANGED <<online, backendVars>>
  BY DEF Inv, BusFits, Receive
<1>2. /\ e \in Elements(wire) /\ e \in Signals \cup {Disconnected}
      /\ wire' \in Seq(Signals \cup {Disconnected}) /\ Elements(wire') \subseteq Elements(wire)
      /\ Len(wire') + 1 = Len(wire) /\ Len(wire') \in Nat
  BY <1>1, TailElements
<1>3. e \in InFlight
  BY <1>2 DEF InFlight
<1>4. /\ answers' = Replies'
      /\ \A j \in Slots :
           /\ answers'[j].result = answers[j].result /\ answers'[j].value = answers[j].value
           /\ answers[j] = NoAnswer => answers'[j] = NoAnswer
  BY NearerIs DEF Receive
<1>5. Sound(ui) /\ (online => Orderly(ui)) /\ ui \in Feature
  BY DEF Inv, Sound
<1>6. NoCall.op = "none" /\ None \notin Nat
  BY PendingTypes, NoneAssumption
<1> HIDE DEF e
<1>7. CASE e = Disconnected
  <2>1. ~online
    BY <1>3, <1>7 DEF Inv, BusFits
  <2> DEFINE f == [ui EXCEPT !.attempt = None]
  <2>2. ui' = ServiceLost(f)
    BY <1>1, <1>7 DEF HandleEvent, Disconnected, Signal
  <2>3. f \in Feature
    BY <1>5 DEF Feature
  <2>4. /\ f.mode = ui.mode /\ f.prompt = ui.prompt /\ f.attempt = None
        /\ f.service = ui.service /\ f.session = ui.session /\ f.sessions = ui.sessions
        /\ f.user = ui.user /\ f.beginInFlight = ui.beginInFlight
        /\ f.startInFlight = ui.startInFlight /\ f.queued = ui.queued /\ f.exiting = ui.exiting
        /\ f.generation = ui.generation /\ f.loaded = ui.loaded /\ f.calls = ui.calls
    BY <1>5 DEF Feature
  <2> HIDE DEF f
  <2>5. Sound(f)
    BY <1>5, <2>3, <2>4, ChangeSound DEF Sound
  <2>6. Sound(ui') /\ ui'.mode = "error"
    BY <2>2, <2>5, LostFits
  <2>7. ui'.queued = ui.queued /\ ui'.exiting = ui.exiting /\ ui'.calls = ui.calls
    BY <2>2, <2>3, <2>4 DEF ServiceLost, Feature
  <2>8. Len(wire') + Len(ui'.queued) <= Len(wire) + Len(ui.queued)
    <3>1. Len(ui.queued) \in Nat
      BY <1>5, LenProperties DEF Feature
    <3> QED
      BY <1>2, <2>7, <3>1
  <2>9. InFlight' \subseteq InFlight
    BY <1>2, <2>7 DEF InFlight
  <2>10. phase # "HandingOff" => ui'.mode # "handingOff" /\ ~ui'.exiting
    BY <2>6, <2>7 DEF Inv, HandoffKnown
  <2>11. \A j \in Slots :
           \/ /\ ui'.calls[j] = ui.calls[j]
              /\ answers'[j].result = answers[j].result /\ answers'[j].value = answers[j].value
              /\ answers[j] = NoAnswer => answers'[j] = NoAnswer
           \/ answers'[j] = NoAnswer /\ (online => serving # j)
    BY <1>4, <2>7
  <2>12. Careful
    <3>1. ui'.loaded = ui.loaded
      BY <2>2, <2>3, <2>4 DEF ServiceLost, Feature
    <3>2. ui'.loaded >= ui.loaded
      BY <1>5, <3>1 DEF Feature
    <3> QED
      BY <2>7, <3>2 DEF Careful
  <2>13. \A k \in Attempts : Gone(k) => ui'.attempt # k
    <3>1. ui'.attempt = None
      BY <2>2, <2>3, <2>4 DEF ServiceLost, Feature
    <3> QED
      BY <1>6, <3>1 DEF Attempts
  <2> HIDE DEF Inv
  <2> QED
    BY <1>1, <1>2, <1>4, <2>1, <2>6, <2>8, <2>9, <2>10, <2>11, <2>12, <2>13, FeatureInv
<1>8. CASE e \in Signals
  <2>1. /\ Sound(ui')
        /\ Handled(ui, ui')
        /\ ui'.queued \in {ui.queued, Append(ui.queued, e)}
        /\ ui'.mode = "handingOff" => ui.mode = "handingOff" \/ e.value = "HandingOff"
        /\ Orderly(ui) /\ ~Buries(e, ui.attempt) => Orderly(ui')
    BY <1>1, <1>5, <1>8, HandleFits
  <2>2. ~Buries(e, ui.attempt)
    <3> SUFFICES ASSUME Buries(e, ui.attempt)
                 PROVE  FALSE
      OBVIOUS
    <3>1. ui.attempt \in Nat /\ ui.attempt \in Attempts \cup {None}
      BY <1>5, <1>8 DEF Buries, Signals, Attempts, Feature
    <3>2. ui.attempt \in Attempts
      BY <1>6, <3>1
    <3>3. Gone(ui.attempt)
      BY <1>3 DEF Buries, Gone
    <3> QED
      BY <3>2, <3>3 DEF Inv, GoneIsForgotten
  <2>3. ui.queued \in Seq(Signals)
    BY <1>5 DEF Feature
  <2>4. /\ Elements(Append(ui.queued, e)) \subseteq Elements(ui.queued) \cup {e}
        /\ Len(Append(ui.queued, e)) = Len(ui.queued) + 1 /\ Len(ui.queued) \in Nat
    BY <1>8, <2>3, AppendElements
  <2>5. Len(wire') + Len(ui'.queued) <= Len(wire) + Len(ui.queued)
    <3>1. Len(ui'.queued) = Len(ui.queued) \/ Len(ui'.queued) = Len(ui.queued) + 1
      BY <2>1, <2>4
    <3> QED
      BY <1>2, <2>4, <3>1
  <2>6. InFlight' \subseteq InFlight
    <3>1. Elements(ui'.queued) \subseteq Elements(ui.queued) \cup {e}
      BY <2>1, <2>4
    <3>2. InFlight' = Elements(wire') \cup Elements(ui'.queued)
      BY DEF InFlight
    <3> QED
      BY <1>2, <3>1, <3>2 DEF InFlight
  <2>7. phase # "HandingOff" => ui'.mode # "handingOff" /\ ~ui'.exiting
    BY <1>3, <2>1 DEF Inv, HandoffKnown, Handled
  <2>8. \A k \in Attempts : Gone(k) => ui'.attempt # k
    BY <1>6, <2>1 DEF Inv, GoneIsForgotten, Handled, Attempts
  <2>9. \A j \in Slots :
           \/ /\ ui'.calls[j] = ui.calls[j]
              /\ answers'[j].result = answers[j].result /\ answers'[j].value = answers[j].value
              /\ answers[j] = NoAnswer => answers'[j] = NoAnswer
           \/ answers'[j] = NoAnswer /\ (online => serving # j)
    <3> SUFFICES ASSUME NEW j \in Slots, ui'.calls[j] # ui.calls[j]
                 PROVE  answers'[j] = NoAnswer /\ (online => serving # j)
      BY <1>4
    <3>1. ui.calls[j] = NoCall
      BY <2>1 DEF Handled
    <3>2. answers[j] = NoAnswer
      BY <1>6, <3>1 DEF Inv, AnswersFit
    <3>3. online => serving # j
      BY <1>6, <3>1, SlotsAssumption DEF Inv, ServingFits
    <3> QED
      BY <1>4, <3>2, <3>3
  <2>10. online => Orderly(ui')
    BY <1>5, <2>1, <2>2
  <2>11. Careful
    <3>1. ui'.loaded >= ui.loaded
      BY <1>5, <2>1 DEF Handled, Feature
    <3> QED
      BY <2>1, <3>1 DEF Careful, Handled
  <2> HIDE DEF Inv
  <2> QED
    BY <1>1, <1>2, <1>4, <2>1, <2>5, <2>6, <2>7, <2>8, <2>9, <2>10, <2>11, FeatureInv
<1> QED
  BY <1>2, <1>7, <1>8

\* The bus is lost: the backend's further steps concern nobody.
LEMMA LoseBusInv ==
  ASSUME Inv, LoseBus
  PROVE  Inv'
<1>1. /\ online /\ online' = FALSE /\ wire' = Append(wire, Disconnected)
      /\ ui' = ui /\ answers' = answers /\ phase' = phase /\ detail' = detail
      /\ active' = active /\ lastAttempt' = lastAttempt /\ serving' = serving /\ asked' = asked
  BY DEF LoseBus, backendVars, machineVars
<1>2. wire \in Seq(Signals \cup {Disconnected}) /\ Len(ui.queued) \in Nat
  BY LenProperties DEF Inv, BusFits, Sound, Feature
<1>3. /\ Elements(wire') \subseteq Elements(wire) \cup {Disconnected}
      /\ Len(wire') = Len(wire) + 1 /\ Len(wire) \in Nat
      /\ wire' \in Seq(Signals \cup {Disconnected})
  BY <1>1, <1>2, AppendElements, AppendProperties
<1>4. InFlight' \subseteq InFlight \cup {Disconnected}
  <2>1. InFlight' = Elements(wire') \cup Elements(ui'.queued)
    BY DEF InFlight
  <2> QED
    BY <1>1, <1>3, <2>1 DEF InFlight
<1>5. Disconnected.value = "none"
  BY DEF Disconnected, Signal
<1>6. MachineInv' /\ Sound(ui')
  BY <1>1 DEF Inv, MachineInv, MachineTypeOK, AttemptTracksPhase
<1>7. BusFits'
  <2>1. Len(wire') + Len(ui'.queued) <= WireCap + 1
    <3> DEFINE before == Len(wire)
               held == Len(ui.queued)
    <3>1. before + held <= WireCap
      BY <1>1 DEF Inv, BusFits
    <3>2. before \in Nat /\ held \in Nat /\ Len(wire') = before + 1 /\ Len(ui'.queued) = held
      BY <1>1, <1>2, <1>3
    <3> HIDE DEF before, held
    <3>3. (before + 1) + held <= WireCap + 1
      BY <3>1, <3>2, BoundsAssumption
    <3> QED
      BY <3>2, <3>3
  <2> QED
    BY <1>1, <1>3, <1>4, <2>1 DEF Inv, BusFits
<1>8. AnswersFit'
  BY <1>1 DEF Inv, AnswersFit
<1>9. HandoffKnown'
  BY <1>1, <1>4, <1>5 DEF Inv, HandoffKnown
<1>10. GoneIsForgotten'
  <2>1. Disconnected.what # "state"
    BY DEF Disconnected, Signal
  <2>2. \A k \in Attempts : Gone(k)' => Gone(k)
    BY <1>1, <1>4, <2>1 DEF Gone
  <2> QED
    BY <1>1, <2>2 DEF Inv, GoneIsForgotten
<1> QED
  BY <1>1, <1>6, <1>7, <1>8, <1>9, <1>10 DEF Inv

-----------------------------------------------------------------------------
(* The system: what the steps of the backend preserve.                      *)

\* The signals of a step name its attempt, and tell of no end it is not.
Announces(signals) ==
  /\ wire' = wire \o signals
  /\ Len(wire) + Len(signals) + Len(ui.queued) <= WireCap
  /\ signals \in Seq(Signals)
  /\ \A e \in Elements(signals) :
       /\ e.attempt <= lastAttempt'
       /\ e.value = "HandingOff" => phase' = "HandingOff"
       /\ e.what = "state" /\ e.value = "Idle" =>
            phase' \in {"Cancelling", "Idle"} /\ e.attempt = lastAttempt'

\* The replies of a step: no start succeeds without a handoff, and an attempt
\* that is given out is the last one and goes on.
Settles ==
  /\ answers' = Replies'
  /\ AnswersFit'
  /\ ServingFits'
  /\ \A i \in Slots :
       ui.calls[i].op = "start" /\ answers'[i].result = "ok" =>
         phase' = "HandingOff" \/ answers'[i] = answers[i]
  /\ \A i \in Slots :
       ui.calls[i].op = "begin" /\ answers'[i].result = "ok" =>
         \/ answers'[i] = answers[i]
         \/ /\ answers'[i].value = lastAttempt' /\ lastAttempt < lastAttempt'
            /\ phase' \notin {"Cancelling", "Idle"}

\* The machine moves on; what it cancels, the interface has abandoned.
Moves ==
  /\ MachineInv'
  /\ lastAttempt <= lastAttempt'
  /\ phase = "HandingOff" => phase' = "HandingOff"
  /\ phase' \in {"Cancelling", "Idle"} =>
       \/ /\ phase \in {"Cancelling", "Idle"}
          /\ lastAttempt' = lastAttempt
       \/ ui.attempt = None /\ ~Has(ui, "begin")

\* The signals of a step join the wire.
LEMMA ConcatElements ==
  ASSUME NEW S, NEW T, NEW s \in Seq(S), NEW t \in Seq(T)
  PROVE  /\ s \o t \in Seq(S \cup T)
         /\ Elements(s \o t) \subseteq Elements(s) \cup Elements(t)
         /\ Len(s \o t) = Len(s) + Len(t) /\ Len(s) \in Nat /\ Len(t) \in Nat
<1>0. s \in Seq(S \cup T) /\ t \in Seq(S \cup T)
  OBVIOUS
<1>1. /\ s \o t \in Seq(S \cup T)
      /\ Len(s \o t) = Len(s) + Len(t)
      /\ \A i \in 1..(Len(s) + Len(t)) : (s \o t)[i] = IF i <= Len(s) THEN s[i] ELSE t[i - Len(s)]
  BY <1>0, ConcatProperties
<1>2. /\ Len(s) \in Nat /\ DOMAIN s = 1..Len(s) /\ Len(t) \in Nat /\ DOMAIN t = 1..Len(t)
      /\ DOMAIN (s \o t) = 1..(Len(s) + Len(t))
  BY <1>1, LenProperties
<1>3. ASSUME NEW i \in 1..(Len(s) + Len(t))
      PROVE  (s \o t)[i] \in Elements(s) \cup Elements(t)
  <2>1. CASE i <= Len(s)
    <3>1. i \in DOMAIN s /\ (s \o t)[i] = s[i]
      BY <1>1, <1>2, <2>1
    <3> QED
      BY <3>1 DEF Elements
  <2>2. CASE ~(i <= Len(s))
    <3>1. i - Len(s) \in DOMAIN t /\ (s \o t)[i] = t[i - Len(s)]
      BY <1>1, <1>2, <2>2
    <3> QED
      BY <3>1 DEF Elements
  <2> QED
    BY <2>1, <2>2
<1> QED
  BY <1>1, <1>2, <1>3 DEF Elements

\* A step of the backend that announces, settles and moves as above keeps the
\* invariant.
LEMMA BackendInv ==
  ASSUME Inv, online, UNCHANGED <<ui, online>>, NEW signals, Announces(signals), Settles, Moves,
         serving' \in Slots \cup {0}, asked' \in 0..MaxPrompts
  PROVE  Inv'
<1>1. /\ ui' = ui /\ online' = online /\ online
      /\ wire \in Seq(Signals \cup {Disconnected}) /\ signals \in Seq(Signals)
      /\ Disconnected \notin InFlight
  BY DEF Inv, BusFits, Announces
<1>2. /\ wire' \in Seq(Signals \cup {Disconnected})
      /\ Elements(wire') \subseteq Elements(wire) \cup Elements(signals)
      /\ Len(wire') = Len(wire) + Len(signals) /\ Len(wire) \in Nat /\ Len(signals) \in Nat
  <2>1. wire' = wire \o signals /\ Signals \cup {Disconnected} = (Signals \cup {Disconnected}) \cup Signals
    BY DEF Announces
  <2> QED
    BY <1>1, <2>1, ConcatElements
<1>3. InFlight' \subseteq InFlight \cup Elements(signals)
  <2>1. InFlight' = Elements(wire') \cup Elements(ui'.queued)
    BY DEF InFlight
  <2> QED
    BY <1>1, <1>2, <2>1 DEF InFlight
<1>4. \A e \in Elements(signals) : e \in Signals /\ e # Disconnected
  <2>1. \A e \in Elements(signals) : e \in Signals
    BY <1>1, LenProperties, ElementOfSeq DEF Elements
  <2>2. Disconnected \notin Signals
    BY DEF Disconnected, Signal, Signals
  <2> QED
    BY <2>1, <2>2
<1>5. BusFits'
  <2>1. Len(wire') + Len(ui'.queued) <= WireCap
    <3> DEFINE before == Len(wire)
               new == Len(signals)
               held == Len(ui.queued)
    <3>1. before + new + held <= WireCap
      BY DEF Announces
    <3>2. before \in Nat /\ new \in Nat /\ held \in Nat /\ Len(wire') = before + new
          /\ Len(ui'.queued) = held
      BY <1>1, <1>2, LenProperties DEF Inv, Sound, Feature
    <3> HIDE DEF before, new, held
    <3>3. (before + new) + held <= WireCap
      BY <3>1, <3>2
    <3> QED
      BY <3>2, <3>3
  <2>2. \A e \in InFlight' : e # Disconnected => e.attempt <= lastAttempt'
    <3> SUFFICES ASSUME NEW e \in InFlight, e # Disconnected
                 PROVE  e.attempt <= lastAttempt'
      BY <1>3 DEF Announces
    <3>1. e.attempt <= lastAttempt
      BY DEF Inv, BusFits
    <3>2. e \in Signals
      BY <1>1, LenProperties, ElementOfSeq DEF InFlight, Elements, Inv, Sound, Feature
    <3>3. e.attempt \in Int /\ lastAttempt \in Int /\ lastAttempt' \in Int
      BY <3>2 DEF Signals, Attempts, Inv, Moves, MachineInv, MachineTypeOK
    <3> QED
      BY <3>1, <3>3 DEF Moves
  <2>3. Disconnected \notin InFlight'
    BY <1>1, <1>3, <1>4
  <2>4. answers' = [i \in Slots |-> [result |-> answers'[i].result, value |-> answers'[i].value,
                                     after |-> answers'[i].after]]
    BY DEF Replies, Settles
  <2>5. online' \in BOOLEAN /\ serving' \in Slots \cup {0} /\ asked' \in 0..MaxPrompts
    BY <1>1, Zenon DEF Inv, BusFits
  <2>6. Len(wire') + Len(ui'.queued) <= IF online' THEN WireCap ELSE WireCap + 1
    <3>1. online'
      BY <1>1
    <3> QED
      BY <2>1, <3>1
  <2> QED
    BY <1>2, <2>2, <2>3, <2>4, <2>5, <2>6, Zenon DEF BusFits
<1>6. HandoffKnown'
  <2> SUFFICES ASSUME phase' # "HandingOff"
               PROVE  /\ ~ui.exiting
                      /\ ui.mode # "handingOff"
                      /\ \A e \in InFlight' : e.value # "HandingOff"
                      /\ \A i \in Slots : ui.calls[i].op = "start" => answers'[i].result # "ok"
    BY <1>1 DEF HandoffKnown
  <2>1. phase # "HandingOff" /\ HandoffKnown
    BY DEF Moves, Inv
  <2>2. \A e \in Elements(signals) : e.value # "HandingOff"
    BY DEF Announces
  <2>3. \A i \in Slots : ui.calls[i].op = "start" => answers'[i].result # "ok"
    BY <2>1 DEF Settles, HandoffKnown
  <2> QED
    BY <1>3, <2>1, <2>2, <2>3 DEF HandoffKnown
<1>7. GoneIsForgotten'
  <2>1. GoneIsForgotten
    BY DEF Inv
  <2>2. ASSUME NEW k \in Attempts, Gone(k)'
        PROVE  Gone(k) \/ (ui.attempt = None /\ ~Has(ui, "begin"))
    <3>1. \/ phase' \in {"Cancelling", "Idle"} /\ k = lastAttempt'
          \/ \E e \in InFlight : e.what = "state" /\ e.value = "Idle" /\ e.attempt = k
      BY <1>3, <2>2 DEF Gone, Announces
    <3> QED
      BY <3>1 DEF Gone, Moves
  <2> SUFFICES ASSUME NEW k \in Attempts, Gone(k)'
               PROVE  /\ ui.attempt # k
                      /\ \A i \in Slots :
                           ui.calls[i].op = "begin" /\ answers'[i].result = "ok" =>
                             answers'[i].value # k
    BY <1>1 DEF GoneIsForgotten
  <2>3. ui.attempt # k
    <3>1. None # k
      BY NoneAssumption DEF Attempts
    <3> QED
      BY <2>1, <2>2, <3>1 DEF GoneIsForgotten
  <2>4. ASSUME NEW i \in Slots, ui.calls[i].op = "begin", answers'[i].result = "ok"
        PROVE  answers'[i].value # k
    <3>1. Gone(k)
      BY <2>2, <2>4 DEF Has
    <3>2. CASE answers'[i] = answers[i]
      BY <2>1, <2>4, <3>1, <3>2 DEF GoneIsForgotten
    <3>3. CASE /\ answers'[i].value = lastAttempt' /\ lastAttempt < lastAttempt'
               /\ phase' \notin {"Cancelling", "Idle"}
      <4>1. PICK e \in InFlight' : e.what = "state" /\ e.value = "Idle" /\ e.attempt = k
        BY <3>3 DEF Gone
      <4>2. e \in InFlight
        BY <1>3, <3>3, <4>1 DEF Announces
      <4>3. k <= lastAttempt
        BY <1>1, <4>1, <4>2 DEF Inv, BusFits
      <4>4. k \in Int /\ lastAttempt \in Int /\ lastAttempt' \in Int
        BY DEF Attempts, Inv, Moves, MachineInv, MachineTypeOK
      <4> QED
        BY <3>3, <4>3, <4>4
    <3> QED
      BY <2>4, <3>2, <3>3 DEF Settles
  <2> QED
    BY <2>3, <2>4
<1>8. Sound(ui') /\ Orderly(ui')
  BY <1>1 DEF Inv
<1>9. MachineInv' /\ AnswersFit' /\ ServingFits'
  BY DEF Moves, Settles
<1> QED
  BY <1>5, <1>6, <1>7, <1>8, <1>9 DEF Inv

-----------------------------------------------------------------------------
(* The steps of the backend.                                                *)

\* A sequence of one or two.
LEMMA ShortSequences ==
  ASSUME NEW S, NEW a \in S, NEW b \in S
  PROVE  /\ <<a>> \in Seq(S) /\ Elements(<<a>>) = {a}
         /\ <<a, b>> \in Seq(S) /\ Elements(<<a, b>>) = {a, b}
<1>1. <<a>> \in Seq(S) /\ <<a, b>> \in Seq(S)
  OBVIOUS
<1>2. DOMAIN <<a>> = 1..1 /\ DOMAIN <<a, b>> = 1..2
  OBVIOUS
<1>3. <<a>>[1] = a /\ <<a, b>>[1] = a /\ <<a, b>>[2] = b
  OBVIOUS
<1>4. 1..1 = {1} /\ 1..2 = {1, 2}
  OBVIOUS
<1> QED
  BY <1>1, <1>2, <1>3, <1>4 DEF Elements

\* What a step may announce of its attempt.
Fair(e) ==
  /\ e \in Signals
  /\ e.attempt <= lastAttempt'
  /\ e.value = "HandingOff" => phase' = "HandingOff"
  /\ e.what = "state" /\ e.value = "Idle" =>
       phase' \in {"Cancelling", "Idle"} /\ e.attempt = lastAttempt'

\* A step with one signal.
LEMMA AnnounceOne ==
  ASSUME NEW a, Fair(a), Emit(<<a>>)
  PROVE  Announces(<<a>>) /\ online /\ UNCHANGED <<ui, online>>
<1>1. <<a>> \in Seq(Signals) /\ Elements(<<a>>) = {a}
  BY ShortSequences DEF Fair
<1>2. \A e \in Elements(<<a>>) : Fair(e)
  BY <1>1
<1> QED
  BY <1>1, <1>2, Zenon DEF Fair, Emit, Announces

\* A step with two signals.
LEMMA AnnounceTwo ==
  ASSUME NEW a, NEW b, Fair(a), Fair(b), Emit(<<a, b>>)
  PROVE  Announces(<<a, b>>) /\ online /\ UNCHANGED <<ui, online>>
<1>0. a \in Signals /\ b \in Signals
  BY DEF Fair
<1>1. <<a, b>> \in Seq(Signals) /\ Elements(<<a, b>>) = {a, b}
  BY <1>0, ShortSequences, Zenon
<1>2. \A e \in Elements(<<a, b>>) : Fair(e)
  BY <1>1
<1> QED
  BY <1>1, <1>2, Zenon DEF Fair, Emit, Announces

\* A call may be refused or answered without a signal.
LEMMA AnnounceNothing ==
  ASSUME Inv, online, wire' = wire
  PROVE  Announces(<<>>)
<1>1. wire \in Seq(Signals \cup {Disconnected}) /\ Len(wire) + Len(ui.queued) <= WireCap
  BY DEF Inv, BusFits
<1>2. Len(wire) \in Nat /\ Len(ui.queued) \in Nat
  BY <1>1, LenProperties DEF Inv, Sound, Feature
<1>3. wire \o <<>> = wire /\ Len(<<>>) = 0 /\ <<>> \in Seq(Signals) /\ Elements(<<>>) = {}
  BY <1>1 DEF Elements
<1> QED
  BY <1>1, <1>2, <1>3 DEF Announces

\* A signal of the attempt that goes on, or has just ended.
LEMMA StateIsFair ==
  ASSUME NEW k \in 0..MaxAttempt, k <= lastAttempt', NEW state \in Phases,
         state = "HandingOff" => phase' = "HandingOff",
         state = "Idle" => phase' = "Idle" /\ k = lastAttempt'
  PROVE  Fair(StateSignal(k, state))
BY DEF Fair, Signals, StateSignal, Signal

\* A prompt of the attempt that goes on.
LEMMA PromptIsFair ==
  ASSUME NEW k \in Attempts, k <= lastAttempt', NEW kind \in {"input", "info", "error"},
         NEW number \in Nat
  PROVE  Fair(PromptSignal(k, kind, number))
BY DEF Fair, Signals, PromptSignal, Signal

\* A row of the transition table moves the machine on.
LEMMA TransitionMoves ==
  ASSUME Inv, NEW from, NEW to \in Phases, NEW newDetail \in {"none", "text"},
         (from \subseteq ActivePhases \/ to \in InvalidatingPhases),
         "HandingOff" \notin from,
         to \in {"Cancelling", "Idle"} =>
           from = {"Cancelling"} \/ (ui.attempt = None /\ ~Has(ui, "begin")),
         Transition(from, to, newDetail)
  PROVE  /\ Moves
         /\ phase \in from /\ phase' = to /\ lastAttempt' = lastAttempt
         /\ lastAttempt \in 0..MaxAttempt
         /\ phase \in ActivePhases => active \in Attempts /\ active = lastAttempt
<1>1. MachineInv'
  BY TransitionInv DEF Inv
<1>2. phase \in from /\ phase' = to /\ lastAttempt' = lastAttempt /\ MachineInv
  BY DEF Transition, Inv
<1>3. lastAttempt \in 0..MaxAttempt /\ lastAttempt <= lastAttempt'
  BY <1>2, MaxAttemptAssumption DEF MachineInv, MachineTypeOK
<1>4. phase \in ActivePhases => active \in Attempts /\ active = lastAttempt
  BY <1>2 DEF MachineInv, MachineTypeOK, AttemptTracksPhase, NoAttempt, Attempts
<1>5. Moves
  BY <1>1, <1>2, <1>3 DEF Moves
<1> QED
  BY <1>2, <1>3, <1>4, <1>5

\* A reply is put into the slot of its call.
LEMMA AnswerPut ==
  ASSUME Inv, ui' = ui, Moves, NEW i \in Slots, NEW result \in {"ok", "error"}, NEW value, NEW signals,
         answers' = [answers EXCEPT ![i] = Answer(result, value, signals)],
         ui.calls[i].op \in {"getState", "begin", "respond", "cancel", "start"},
         ui.calls[i].op = "getState" => value \in Phases,
         ui.calls[i].op = "begin" /\ result = "ok" => value \in Attempts /\ value <= lastAttempt'
  PROVE  /\ answers' = Replies' /\ AnswersFit'
         /\ answers'[i].result = result /\ answers'[i].value = value
         /\ \A j \in Slots \ {i} : answers'[j] = answers[j]
<1>1. answers = Replies
  BY DEF Inv, BusFits, Replies
<1>2. /\ answers'[i] = Answer(result, value, signals)
      /\ \A j \in Slots \ {i} : answers'[j] = answers[j]
      /\ answers' = [j \in Slots |-> answers'[j]]
  BY <1>1 DEF Replies
<1>3. \A j \in Slots : answers'[j] = [result |-> answers'[j].result, value |-> answers'[j].value,
                                      after |-> answers'[j].after]
  <2> TAKE j \in Slots
  <2>1. CASE j = i
    BY <1>2, <2>1 DEF Answer
  <2>2. CASE j # i
    BY <1>1, <1>2, <2>2 DEF Replies
  <2> QED
    BY <2>1, <2>2
<1>4. answers' = Replies'
  BY <1>2, <1>3 DEF Replies
<1>5. answers'[i].result = result /\ answers'[i].value = value
  BY <1>2 DEF Answer
<1>6. lastAttempt <= lastAttempt' /\ lastAttempt \in Int /\ lastAttempt' \in Int
  BY DEF Moves, Inv, MachineInv, MachineTypeOK
<1>7. AnswersFit'
  <2> SUFFICES ASSUME NEW j \in Slots, answers'[j] # NoAnswer
               PROVE  /\ ui.calls[j].op \in {"getState", "begin", "respond", "cancel", "start"}
                      /\ ui.calls[j].op = "getState" => answers'[j].value \in Phases
                      /\ ui.calls[j].op = "begin" /\ answers'[j].result = "ok" =>
                           answers'[j].value \in Attempts /\ answers'[j].value <= lastAttempt'
    BY DEF AnswersFit
  <2>1. CASE j = i
    BY <1>5, <2>1
  <2>2. CASE j # i
    BY <1>2, <1>6, <2>2 DEF Inv, AnswersFit, Attempts
  <2> QED
    BY <2>1, <2>2
<1> QED
  BY <1>2, <1>4, <1>5, <1>7

\* No reply is given.
LEMMA KeepsAnswers ==
  ASSUME Inv, ui' = ui, Moves, UNCHANGED answers, ServingFits'
  PROVE  Settles
<1>1. answers = Replies
  BY DEF Inv, BusFits, Replies
<1>2. answers' = Replies'
  BY <1>1 DEF Replies
<1>3. lastAttempt <= lastAttempt' /\ lastAttempt \in Int /\ lastAttempt' \in Int
  BY DEF Moves, Inv, MachineInv, MachineTypeOK
<1>4. AnswersFit'
  BY <1>3 DEF Inv, AnswersFit, Attempts
<1> QED
  BY <1>2, <1>4 DEF Settles

\* The command goes on.
LEMMA GoesOn ==
  ASSUME Inv, online, ui' = ui, Moves, UNCHANGED <<answers, serving>>,
         phase' = "StartingSession" \/ phase \notin {"ResolvingSession", "StartingSession"}
  PROVE  Settles /\ serving' \in Slots \cup {0}
<1>1. ServingFits'
  BY DEF Inv, ServingFits
<1> QED
  BY <1>1, KeepsAnswers DEF Inv, BusFits

\* The command ends: its call gets its reply.
LEMMA EndFits ==
  ASSUME Inv, online, ui' = ui, Moves, NEW result \in {"ok", "error"}, EndCommand(result),
         result = "ok" =>
           phase' = "HandingOff" \/ phase \notin {"ResolvingSession", "StartingSession"}
  PROVE  Settles /\ serving' \in Slots \cup {0}
<1>1. serving' = 0 /\ ServingFits'
  BY DEF EndCommand, ServingFits
<1>2. CASE serving = 0
  <2>1. UNCHANGED answers
    BY <1>2 DEF EndCommand
  <2> QED
    BY <1>1, <2>1, KeepsAnswers
<1>3. CASE serving # 0
  <2>1. /\ answers' = [answers EXCEPT ![serving] = Answer(result, None, wire')]
        /\ serving \in Slots
    BY <1>3 DEF EndCommand, Inv, BusFits
  <2>2. /\ ui.calls[serving].op \in {"respond", "cancel", "start"}
        /\ ui.calls[serving].op = "start" => phase \in {"ResolvingSession", "StartingSession"}
    BY <1>3 DEF Inv, ServingFits
  <2>3. /\ answers' = Replies' /\ AnswersFit'
        /\ answers'[serving].result = result
        /\ \A j \in Slots \ {serving} : answers'[j] = answers[j]
    BY <2>1, <2>2, AnswerPut
  <2> QED
    BY <1>1, <2>2, <2>3 DEF Settles
<1> QED
  BY <1>2, <1>3

\* A call that waits to be looked at asks for what it was made for.
LEMMA ServeGetStateInv ==
  ASSUME Inv, NEW i \in Slots, ServeGetState(i)
  PROVE  Inv'
<1>1. /\ online /\ UNCHANGED <<ui, wire, online, backendVars>>
      /\ answers' = [answers EXCEPT ![i] = Answer("ok", phase, wire)]
      /\ ui.calls[i].op = "getState" /\ answers[i] = NoAnswer /\ serving # i
  BY DEF ServeGetState, Waiting
<1>2. Announces(<<>>)
  BY <1>1, AnnounceNothing
<1>3. Moves
  <2>1. MachineInv /\ UNCHANGED machineVars
    BY <1>1 DEF Inv, backendVars
  <2> QED
    BY <2>1 DEF Moves, MachineInv, MachineTypeOK, AttemptTracksPhase, machineVars
<1>4. phase \in Phases
  BY DEF Inv, MachineInv, MachineTypeOK
<1>5. /\ answers' = Replies' /\ AnswersFit'
      /\ \A j \in Slots \ {i} : answers'[j] = answers[j]
  BY <1>1, <1>3, <1>4, AnswerPut
<1>6. ServingFits'
  BY <1>1, <1>5 DEF Inv, ServingFits, BusFits, backendVars, machineVars
<1>7. Settles
  BY <1>1, <1>5, <1>6 DEF Settles
<1>8. serving' \in Slots \cup {0} /\ asked' \in 0..MaxPrompts
  BY <1>1 DEF Inv, BusFits, backendVars
<1> QED
  BY <1>1, <1>2, <1>3, <1>7, <1>8, BackendInv

\* What the backend cannot do, it refuses.
LEMMA RefuseInv ==
  ASSUME Inv, online, NEW i \in Slots, Refuse(i), ui.calls[i].op \in {"begin", "cancel"}, serving = 0
  PROVE  Inv'
<1>1. /\ UNCHANGED <<ui, wire, online, backendVars>>
      /\ answers' = [answers EXCEPT ![i] = Answer("error", None, wire)]
  BY DEF Refuse
<1>2. Announces(<<>>)
  BY <1>1, AnnounceNothing
<1>3. Moves
  <2>1. MachineInv /\ UNCHANGED machineVars
    BY <1>1 DEF Inv, backendVars
  <2> QED
    BY <2>1 DEF Moves, MachineInv, MachineTypeOK, AttemptTracksPhase, machineVars
<1>4. /\ answers' = Replies' /\ AnswersFit' /\ answers'[i].result = "error"
      /\ \A j \in Slots \ {i} : answers'[j] = answers[j]
  BY <1>1, <1>3, AnswerPut
<1>5. ServingFits'
  BY <1>1 DEF ServingFits, backendVars
<1>6. Settles
  BY <1>4, <1>5 DEF Settles
<1>7. serving' \in Slots \cup {0} /\ asked' \in 0..MaxPrompts
  BY <1>1 DEF Inv, BusFits, backendVars
<1> QED
  BY <1>1, <1>2, <1>3, <1>6, <1>7, BackendInv

\* A conversation is opened under a new number, or refused.
LEMMA ServeBeginInv ==
  ASSUME Inv, NEW i \in Slots, ServeBegin(i)
  PROVE  Inv'
<1>1. CASE /\ Waiting(i, "begin")
           /\ AtRest
           /\ phase \in {"Idle", "Failed"}
           /\ BeginAuthentication
           /\ Emit(<<StateSignal(active', "CreatingSession")>>)
           /\ answers' = [answers EXCEPT ![i] = Answer("ok", active', wire')]
           /\ UNCHANGED <<serving, asked>>
  <2>1. MachineInv'
    BY <1>1, BeginInv DEF Inv
  <2>2. /\ phase' = "CreatingSession" /\ lastAttempt' = lastAttempt + 1 /\ active' = lastAttempt'
        /\ lastAttempt \in 0..MaxAttempt /\ lastAttempt < MaxAttempt /\ MaxAttempt \in Nat
    BY <1>1, MaxAttemptAssumption
    DEF BeginAuthentication, CanBegin, Inv, MachineInv, MachineTypeOK
  <2>3. active' \in Attempts /\ lastAttempt < lastAttempt' /\ active' <= lastAttempt'
        /\ lastAttempt <= lastAttempt' /\ active' \in 0..MaxAttempt
    BY <2>2 DEF Attempts
  <2>4. Moves
    BY <1>1, <2>1, <2>2, <2>3 DEF Moves
  <2>5. Fair(StateSignal(active', "CreatingSession"))
    BY <2>3, StateIsFair DEF Phases, ActivePhases
  <2>6. Announces(<<StateSignal(active', "CreatingSession")>>) /\ online /\ UNCHANGED <<ui, online>>
    BY <1>1, <2>5, AnnounceOne
  <2>7. ui.calls[i].op = "begin" /\ serving' = 0
    BY <1>1 DEF Waiting, AtRest
  <2>8. /\ answers' = Replies' /\ AnswersFit' /\ answers'[i].value = active'
        /\ \A j \in Slots \ {i} : answers'[j] = answers[j]
    BY <1>1, <2>3, <2>4, <2>6, <2>7, AnswerPut
  <2>9. ServingFits'
    BY <2>7 DEF ServingFits
  <2>10. Settles
    BY <2>2, <2>3, <2>7, <2>8, <2>9 DEF Settles
  <2>11. serving' \in Slots \cup {0} /\ asked' \in 0..MaxPrompts
    BY <1>1, <2>7 DEF Inv, BusFits
  <2> QED
    BY <2>4, <2>6, <2>10, <2>11, BackendInv
<1>2. CASE online /\ Waiting(i, "begin") /\ AtRest /\ ~CanBegin /\ Refuse(i)
  BY <1>2, RefuseInv DEF Waiting, AtRest
<1> QED
  BY <1>1, <1>2 DEF ServeBegin

\* The attempt that is cancelled is one the interface has abandoned.
LEMMA ServeCancelInv ==
  ASSUME Inv, NEW i \in Slots, ServeCancel(i)
  PROVE  Inv'
<1>1. CASE Waiting(i, "cancel") /\ ui.calls[i].key = active /\ Interrupt(i)
  <2>1. /\ ui.calls[i].op = "cancel" /\ answers[i] = NoAnswer /\ serving # i
        /\ CancelRequested /\ Emit(<<StateSignal(active, "Cancelling")>>)
        /\ answers' = IF serving = 0 THEN answers
                      ELSE [answers EXCEPT ![serving] = Answer("error", None, wire')]
        /\ serving' = i /\ UNCHANGED <<asked, ui, online>> /\ online
    BY <1>1 DEF Waiting, Interrupt, Emit
  <2>2. ui.attempt = None /\ ~Has(ui, "begin")
    BY <2>1 DEF Inv, Orderly, Cancelling, Has
  <2>3. /\ Moves /\ phase \in ActivePhases /\ phase' = "Cancelling" /\ lastAttempt' = lastAttempt
        /\ lastAttempt \in 0..MaxAttempt
        /\ active \in Attempts /\ active = lastAttempt
    <3>1. "Cancelling" \in Phases /\ "HandingOff" \notin ActivePhases /\ "none" \in {"none", "text"}
      BY DEF Phases, ActivePhases, InvalidatingPhases
    <3> QED
      BY <2>1, <2>2, <3>1, TransitionMoves DEF CancelRequested
  <2>4. Fair(StateSignal(active, "Cancelling"))
    BY <2>3, StateIsFair DEF Phases, ActivePhases, InvalidatingPhases
  <2>5. Announces(<<StateSignal(active, "Cancelling")>>)
    BY <2>1, <2>4, AnnounceOne
  <2>6. /\ answers' = Replies' /\ AnswersFit' /\ answers'[i] = NoAnswer
        /\ \A j \in Slots :
             answers'[j] = answers[j]
             \/ (ui.calls[j].op \notin {"begin"} /\ answers'[j].result = "error")
    <3>1. CASE serving = 0
      <4>1. answers' = answers
        BY <2>1, <3>1
      <4> QED
        BY <2>1, <2>3, <4>1 DEF Inv, BusFits, Replies, AnswersFit
    <3>2. CASE serving # 0
      <4>1. /\ answers' = [answers EXCEPT ![serving] = Answer("error", None, wire')]
            /\ serving \in Slots /\ ui.calls[serving].op \in {"respond", "cancel", "start"}
        BY <2>1, <3>2 DEF Inv, BusFits, ServingFits
      <4>2. /\ answers' = Replies' /\ AnswersFit' /\ answers'[serving].result = "error"
            /\ \A j \in Slots \ {serving} : answers'[j] = answers[j]
        <5>1. ui' = ui
          BY <2>1
        <5> QED
          BY <2>3, <4>1, <5>1, AnswerPut
      <4> QED
        BY <2>1, <4>1, <4>2
    <3> QED
      BY <3>1, <3>2
  <2>7. ServingFits'
    BY <2>1, <2>6 DEF ServingFits
  <2>8. Settles
    BY <2>6, <2>7 DEF Settles
  <2>9. serving' \in Slots \cup {0} /\ asked' \in 0..MaxPrompts
    BY <2>1 DEF Inv, BusFits
  <2> QED
    BY <2>1, <2>3, <2>5, <2>8, <2>9, BackendInv
<1>2. CASE online /\ Waiting(i, "cancel") /\ ui.calls[i].key # active /\ AtRest /\ Refuse(i)
  BY <1>2, RefuseInv DEF Waiting, AtRest
<1> QED
  BY <1>1, <1>2 DEF ServeCancel

\* A command that begins to be carried out, or one whose machine event needs no
\* reply: answers, sessions to be started.
LEMMA TakeInv ==
  ASSUME Inv, NEW i \in Slots, NEW op \in {"respond", "start"}, Waiting(i, op),
         NEW from \in {"WaitingForInput", "Authenticated"},
         NEW to \in {"SubmittingResponse", "ResolvingSession"},
         op = "start" => to = "ResolvingSession",
         Transition({from}, to, "none"), Emit(<<StateSignal(active, to)>>),
         serving' = i, UNCHANGED <<answers, asked>>
  PROVE  Inv'
<1>1. /\ ui.calls[i].op = op /\ answers[i] = NoAnswer /\ online /\ UNCHANGED <<ui, online>>
  BY DEF Waiting, Emit
<1>2. /\ Moves /\ phase = from /\ phase' = to /\ lastAttempt' = lastAttempt
      /\ lastAttempt \in 0..MaxAttempt
      /\ active \in Attempts /\ active = lastAttempt
  <2>1. {from} \subseteq ActivePhases /\ to \in Phases /\ "HandingOff" \notin {from}
        /\ to \notin {"Cancelling", "Idle"} /\ "none" \in {"none", "text"}
    BY DEF Phases, ActivePhases
  <2> QED
    BY <2>1, TransitionMoves
<1>3. Fair(StateSignal(active, to))
  BY <1>2, StateIsFair DEF Phases, ActivePhases
<1>4. Announces(<<StateSignal(active, to)>>)
  BY <1>3, AnnounceOne
<1>5. ServingFits'
  BY <1>1, <1>2 DEF ServingFits
<1>6. Settles
  BY <1>1, <1>2, <1>5, KeepsAnswers
<1>7. serving' \in Slots \cup {0} /\ asked' \in 0..MaxPrompts
  BY DEF Inv, BusFits
<1> QED
  BY <1>1, <1>2, <1>4, <1>6, <1>7, BackendInv

\* An answer is passed on.
LEMMA ServeRespondInv ==
  ASSUME Inv, NEW i \in Slots, ServeRespond(i)
  PROVE  Inv'
BY TakeInv DEF ServeRespond, ResponseSubmitted

\* A session is asked for.
LEMMA ServeStartInv ==
  ASSUME Inv, NEW i \in Slots, ServeStart(i)
  PROVE  Inv'
BY TakeInv DEF ServeStart, StartSessionRequested

\* A step of the conversation: the command goes on, or ends with it.
LEMMA ConversationInv ==
  ASSUME Inv, NEW from \in SUBSET ActivePhases, NEW to \in Phases, NEW newDetail \in {"none", "text"},
         to \notin {"Cancelling", "Idle", "HandingOff"},
         Transition(from, to, newDetail),
         NEW signals, Announces(signals), online, UNCHANGED <<ui, online>>, asked' \in 0..MaxPrompts,
         \/ /\ UNCHANGED <<answers, serving>>
            /\ to = "StartingSession" \/ from \cap {"ResolvingSession", "StartingSession"} = {}
         \/ /\ EndCommand("ok")
            /\ from \cap {"ResolvingSession", "StartingSession"} = {}
         \/ EndCommand("error")
  PROVE  Inv'
<1>1. "HandingOff" \notin from
  BY DEF ActivePhases
<1>2. Moves /\ phase \in from /\ phase' = to
  BY <1>1, TransitionMoves
<1>3. ui' = ui
  OBVIOUS
<1>4. Settles /\ serving' \in Slots \cup {0}
  <2>1. CASE /\ UNCHANGED <<answers, serving>>
             /\ to = "StartingSession" \/ from \cap {"ResolvingSession", "StartingSession"} = {}
    <3>1. phase' = "StartingSession" \/ phase \notin {"ResolvingSession", "StartingSession"}
      BY <1>2, <2>1
    <3> QED
      BY <1>2, <1>3, <2>1, <3>1, GoesOn
  <2>2. CASE /\ EndCommand("ok")
             /\ from \cap {"ResolvingSession", "StartingSession"} = {}
    <3>1. phase \notin {"ResolvingSession", "StartingSession"}
      BY <1>2, <2>2
    <3> QED
      BY <1>2, <1>3, <2>2, <3>1, EndFits
  <2>3. CASE EndCommand("error")
    BY <1>2, <1>3, <2>3, EndFits
  <2> QED
    BY <2>1, <2>2, <2>3
<1> QED
  BY <1>2, <1>4, BackendInv

\* The attempt a step of the conversation names.
LEMMA ActiveIs ==
  ASSUME Inv, NEW from \in SUBSET ActivePhases, NEW to, NEW newDetail,
         Transition(from, to, newDetail)
  PROVE  /\ active \in Attempts /\ active \in 0..MaxAttempt /\ active <= lastAttempt'
         /\ asked \in Nat /\ asked \in 0..MaxPrompts /\ MaxPrompts \in Nat
         /\ \A state \in Phases \ {"HandingOff", "Idle"} : Fair(StateSignal(active, state))
         /\ \A kind \in {"input", "info", "error"}, number \in Nat :
              Fair(PromptSignal(active, kind, number))
<1>1. phase \in ActivePhases /\ lastAttempt' = lastAttempt /\ MachineInv
  BY DEF Transition, Inv
<1>2. active \in Attempts /\ active = lastAttempt /\ lastAttempt \in 0..MaxAttempt
  BY <1>1 DEF MachineInv, MachineTypeOK, AttemptTracksPhase, NoAttempt, Attempts
<1>3. active <= lastAttempt'
  BY <1>1, <1>2
<1>4. asked \in Nat /\ asked \in 0..MaxPrompts /\ MaxPrompts \in Nat
  BY BoundsAssumption DEF Inv, BusFits
<1>5. \A state \in Phases \ {"HandingOff", "Idle"} : Fair(StateSignal(active, state))
  BY <1>2, <1>3, StateIsFair
<1>6. \A kind \in {"input", "info", "error"}, number \in Nat : Fair(PromptSignal(active, kind, number))
  BY <1>2, <1>3, PromptIsFair
<1> QED
  BY <1>2, <1>3, <1>4, <1>5, <1>6

\* A conversation asks, tells, goes on, succeeds and fails.
LEMMA TalkInv ==
  ASSUME Inv,
         \/ AskInput
         \/ \E kind \in {"info", "error"} : Tell(kind)
         \/ ReceiveMessage
         \/ Succeed
         \/ Reject
         \/ Fail
         \/ Unavailable
         \/ Resolve
  PROVE  Inv'
<1> USE DEF Phases, ActivePhases, Conversing
<1>1. CASE AskInput
  <2>1. /\ Transition({"PromptPending"}, "WaitingForInput", "none")
        /\ asked < MaxPrompts /\ asked' = asked + 1
        /\ Emit(<<PromptSignal(active, "input", asked'), StateSignal(active, "WaitingForInput")>>)
        /\ EndCommand("ok")
    BY <1>1 DEF AskInput, PromptNeedsInput
  <2>2. asked' \in 0..MaxPrompts /\ asked' \in Nat
    BY <2>1, ActiveIs
  <2>3. /\ Fair(PromptSignal(active, "input", asked'))
        /\ Fair(StateSignal(active, "WaitingForInput"))
    BY <2>1, <2>2, ActiveIs
  <2>4. /\ Announces(<<PromptSignal(active, "input", asked'), StateSignal(active, "WaitingForInput")>>)
        /\ online /\ UNCHANGED <<ui, online>>
    BY <2>1, <2>3, AnnounceTwo
  <2>5. {"PromptPending"} \cap {"ResolvingSession", "StartingSession"} = {}
    OBVIOUS
  <2> QED
    BY <2>1, <2>2, <2>4, <2>5, ConversationInv
<1>2. ASSUME NEW kind \in {"info", "error"}, Tell(kind)
      PROVE  Inv'
  <2>1. /\ Transition({"PromptPending"}, "SubmittingResponse", "none")
        /\ Emit(<<PromptSignal(active, kind, asked), StateSignal(active, "SubmittingResponse")>>)
        /\ UNCHANGED <<answers, serving, asked>>
    BY <1>2 DEF Tell, PromptAutoResponse
  <2>2. /\ Fair(PromptSignal(active, kind, asked)) /\ asked' \in 0..MaxPrompts
        /\ Fair(StateSignal(active, "SubmittingResponse"))
    BY <2>1, ActiveIs
  <2>3. /\ Announces(<<PromptSignal(active, kind, asked), StateSignal(active, "SubmittingResponse")>>)
        /\ online /\ UNCHANGED <<ui, online>>
    BY <2>1, <2>2, AnnounceTwo
  <2>4. {"PromptPending"} \cap {"ResolvingSession", "StartingSession"} = {}
    OBVIOUS
  <2> QED
    BY <2>1, <2>2, <2>3, <2>4, ConversationInv
<1>3. CASE ReceiveMessage
  <2>1. /\ Transition(Conversing, "PromptPending", "none")
        /\ Emit(<<StateSignal(active, "PromptPending")>>)
        /\ UNCHANGED <<answers, serving, asked>>
    BY <1>3 DEF ReceiveMessage, AuthMessage
  <2>2. Fair(StateSignal(active, "PromptPending")) /\ asked' \in 0..MaxPrompts
    BY <2>1, ActiveIs
  <2>3. /\ Announces(<<StateSignal(active, "PromptPending")>>)
        /\ online /\ UNCHANGED <<ui, online>>
    BY <2>1, <2>2, AnnounceOne
  <2>4. Conversing \cap {"ResolvingSession", "StartingSession"} = {}
    OBVIOUS
  <2> QED
    BY <2>1, <2>2, <2>3, <2>4, ConversationInv
<1>4. CASE Succeed
  <2>1. /\ Transition(Conversing, "Authenticated", "none")
        /\ Emit(<<StateSignal(active, "Authenticated")>>)
        /\ EndCommand("ok") /\ UNCHANGED asked
    BY <1>4 DEF Succeed, AuthenticationSucceeded
  <2>2. Fair(StateSignal(active, "Authenticated")) /\ asked' \in 0..MaxPrompts
    BY <2>1, ActiveIs
  <2>3. /\ Announces(<<StateSignal(active, "Authenticated")>>)
        /\ online /\ UNCHANGED <<ui, online>>
    BY <2>1, <2>2, AnnounceOne
  <2>4. Conversing \cap {"ResolvingSession", "StartingSession"} = {}
    OBVIOUS
  <2> QED
    BY <2>1, <2>2, <2>3, <2>4, ConversationInv
<1>5. CASE Reject
  <2>1. /\ Transition({"SubmittingResponse"}, "CreatingSession", "text")
        /\ Emit(<<StateSignal(active, "CreatingSession"), PromptSignal(active, "error", asked)>>)
        /\ UNCHANGED <<answers, serving, asked>>
    BY <1>5 DEF Reject, CredentialRejected
  <2>2. /\ Fair(PromptSignal(active, "error", asked)) /\ asked' \in 0..MaxPrompts
        /\ Fair(StateSignal(active, "CreatingSession"))
    BY <2>1, ActiveIs
  <2>3. /\ Announces(<<StateSignal(active, "CreatingSession"), PromptSignal(active, "error", asked)>>)
        /\ online /\ UNCHANGED <<ui, online>>
    BY <2>1, <2>2, AnnounceTwo
  <2>4. {"SubmittingResponse"} \cap {"ResolvingSession", "StartingSession"} = {}
    OBVIOUS
  <2> QED
    BY <2>1, <2>2, <2>3, <2>4, ConversationInv
<1>6. CASE Fail
  <2>1. /\ Transition(ActivePhases, "Failed", "text")
        /\ Emit(<<StateSignal(active, "Failed")>>)
        /\ EndCommand("error") /\ UNCHANGED asked
    BY <1>6 DEF Fail, ProtocolFailure
  <2>2. "Failed" \in Phases
    BY DEF InvalidatingPhases
  <2>3. Fair(StateSignal(active, "Failed")) /\ asked' \in 0..MaxPrompts
    BY <2>1, <2>2, ActiveIs
  <2>4. /\ Announces(<<StateSignal(active, "Failed")>>)
        /\ online /\ UNCHANGED <<ui, online>>
    BY <2>1, <2>3, AnnounceOne
  <2> QED
    BY <2>1, <2>2, <2>3, <2>4, ConversationInv
<1>7. CASE Unavailable
  <2>1. /\ Transition({"ResolvingSession"}, "Authenticated", "text")
        /\ Emit(<<StateSignal(active, "Authenticated")>>)
        /\ EndCommand("error") /\ UNCHANGED asked
    BY <1>7 DEF Unavailable, SessionUnavailable
  <2>2. Fair(StateSignal(active, "Authenticated")) /\ asked' \in 0..MaxPrompts
    BY <2>1, ActiveIs
  <2>3. /\ Announces(<<StateSignal(active, "Authenticated")>>)
        /\ online /\ UNCHANGED <<ui, online>>
    BY <2>1, <2>2, AnnounceOne
  <2> QED
    BY <2>1, <2>2, <2>3, ConversationInv
<1>8. CASE Resolve
  <2>1. /\ Transition({"ResolvingSession"}, "StartingSession", "none")
        /\ Emit(<<StateSignal(active, "StartingSession")>>)
        /\ UNCHANGED <<answers, serving, asked>>
    BY <1>8 DEF Resolve, SessionResolved
  <2>2. Fair(StateSignal(active, "StartingSession")) /\ asked' \in 0..MaxPrompts
    BY <2>1, ActiveIs
  <2>3. /\ Announces(<<StateSignal(active, "StartingSession")>>)
        /\ online /\ UNCHANGED <<ui, online>>
    BY <2>1, <2>2, AnnounceOne
  <2> QED
    BY <2>1, <2>2, <2>3, ConversationInv
<1> QED
  BY <1>1, <1>2, <1>3, <1>4, <1>5, <1>6, <1>7, <1>8

\* A cancellation is over: Idle is what the interface no longer waits for.
LEMMA FinishCancellingInv ==
  ASSUME Inv, FinishCancelling
  PROVE  Inv'
<1>1. /\ Transition({"Cancelling"}, "Idle", "none")
      /\ Emit(<<StateSignal(lastAttempt, "Idle")>>)
      /\ UNCHANGED asked
  BY DEF FinishCancelling, CancellationFinished
<1>2. PICK result \in {"ok", "error"} : EndCommand(result)
  BY DEF FinishCancelling
<1>3. /\ Moves /\ phase = "Cancelling" /\ phase' = "Idle" /\ lastAttempt' = lastAttempt
      /\ lastAttempt \in 0..MaxAttempt
  <2>1. "Idle" \in Phases \cap InvalidatingPhases
    BY DEF Phases, InvalidatingPhases
  <2> QED
    BY <1>1, <2>1, TransitionMoves
<1>4. Fair(StateSignal(lastAttempt, "Idle"))
  BY <1>3, StateIsFair DEF Phases, InvalidatingPhases
<1>5. Announces(<<StateSignal(lastAttempt, "Idle")>>) /\ online /\ ui' = ui /\ UNCHANGED <<ui, online>>
  BY <1>1, <1>4, AnnounceOne
<1>6. Settles /\ serving' \in Slots \cup {0}
  BY <1>2, <1>3, <1>5, EndFits
<1>7. asked' \in 0..MaxPrompts
  BY <1>1 DEF Inv, BusFits
<1> QED
  BY <1>3, <1>5, <1>6, <1>7, BackendInv

\* greetd holds the session: from here on the handoff may be announced.
LEMMA HandOffInv ==
  ASSUME Inv, HandOff
  PROVE  Inv'
<1>1. /\ Transition({"StartingSession"}, "HandingOff", "none")
      /\ Emit(<<StateSignal(lastAttempt, "HandingOff")>>)
      /\ EndCommand("ok") /\ UNCHANGED asked
  BY DEF HandOff, SessionStarted
<1>2. /\ Moves /\ phase' = "HandingOff" /\ lastAttempt' = lastAttempt
      /\ lastAttempt \in 0..MaxAttempt
  <2>1. "HandingOff" \in Phases \cap InvalidatingPhases
    BY DEF Phases, InvalidatingPhases
  <2> QED
    BY <1>1, <2>1, TransitionMoves
<1>3. Fair(StateSignal(lastAttempt, "HandingOff"))
  BY <1>2, StateIsFair DEF Phases, InvalidatingPhases
<1>4. Announces(<<StateSignal(lastAttempt, "HandingOff")>>) /\ online /\ ui' = ui /\ UNCHANGED <<ui, online>>
  BY <1>1, <1>3, AnnounceOne
<1>5. Settles /\ serving' \in Slots \cup {0}
  BY <1>1, <1>2, <1>4, EndFits
<1>6. asked' \in 0..MaxPrompts
  BY <1>1 DEF Inv, BusFits
<1> QED
  BY <1>2, <1>4, <1>5, <1>6, BackendInv

\* The steps of the backend together.
LEMMA BackendStepInv ==
  ASSUME Inv, BackendStep
  PROVE  Inv'
<1>1. ASSUME NEW i \in Slots,
             ServeGetState(i) \/ ServeBegin(i) \/ ServeCancel(i) \/ ServeRespond(i) \/ ServeStart(i)
      PROVE  Inv'
  BY <1>1, ServeGetStateInv, ServeBeginInv, ServeCancelInv, ServeRespondInv, ServeStartInv
<1>2. CASE FinishCancelling \/ HandOff
  BY <1>2, FinishCancellingInv, HandOffInv
<1>3. CASE \/ AskInput
           \/ \E kind \in {"info", "error"} : Tell(kind)
           \/ ReceiveMessage
           \/ Succeed
           \/ Reject
           \/ Fail
           \/ Unavailable
           \/ Resolve
  BY <1>3, TalkInv
<1> QED
  BY <1>1, <1>2, <1>3 DEF BackendStep

\* A step of the backend does not touch the interface.
LEMMA BackendKeepsFeature ==
  ASSUME BackendStep
  PROVE  ui' = ui
BY DEF BackendStep, ServeGetState, ServeBegin, ServeCancel, ServeRespond, ServeStart, Interrupt,
       Refuse, FinishCancelling, AskInput, Tell, ReceiveMessage, Succeed, Reject, Fail,
       Unavailable, Resolve, HandOff, Emit

-----------------------------------------------------------------------------
(* The specification.                                                       *)

\* The interface starts by loading the service.
LEMMA FeatureInitFits ==
  ASSUME FeatureInit
  PROVE  /\ Sound(ui) /\ Orderly(ui)
         /\ ui.queued = <<>> /\ ui.attempt = None /\ ~ui.exiting /\ ui.mode = "userSelection"
         /\ ui.service = "starting" /\ ui.recovery = "none"
         /\ \A i \in Slots : ui.calls[i].op \in {"none", "getState"}
<1> DEFINE calls0 == [i \in Slots |-> NoCall]
           f == [service |-> "starting", mode |-> "userSelection", catalog |-> "empty",
                 power |-> "idle", user |-> None, session |-> None, sessions |-> {},
                 prompt |-> NoPrompt, promptError |-> FALSE, recovery |-> "none",
                 dormant |-> TRUE, attempt |-> None, beginInFlight |-> FALSE,
                 startInFlight |-> FALSE, queued |-> <<>>, generation |-> 0, loaded |-> 0,
                 exiting |-> FALSE, calls |-> calls0]
           h == [f EXCEPT !.service = "starting"]
           call == Pending("getState", None, None)
<1>1. ui = Await(h, call)
  BY DEF FeatureInit, LoadService
<1>2. calls0 \in [Slots -> Calls] /\ \A i \in Slots : calls0[i] = NoCall /\ calls0[i].op = "none"
  BY PendingTypes
<1> HIDE DEF calls0
<1>3. 0 \in 0..MaxLoads /\ 0 < MaxLoads
  BY LoadsAssumption
<1>4. /\ f.service = "starting" /\ f.mode = "userSelection" /\ f.user = None /\ f.session = None
      /\ f.attempt = None /\ f.beginInFlight = FALSE /\ f.startInFlight = FALSE
      /\ f.queued = <<>> /\ f.generation = 0 /\ f.loaded = 0 /\ f.exiting = FALSE
      /\ f.calls = calls0 /\ f.recovery = "none"
  OBVIOUS
<1>5. f \in Feature
  BY <1>2, <1>3, Literals DEF Feature, Prompts
<1> HIDE DEF f
<1>6. h = f
  BY <1>4, <1>5 DEF Feature
<1> HIDE DEF h
<1>7. \A op : op # "none" => ~Has(f, op) /\ Once(f, op)
  BY <1>2, <1>4 DEF Has, Once
<1>8. Sound(f) /\ FreeSlots(f) # {} /\ OneLoad(f)
  <2>1. OneLoad(f)
    BY <1>2, <1>4 DEF OneLoad
  <2>2. FreeSlots(f) # {}
    BY <1>2, <1>4, SlotsAssumption DEF FreeSlots
  <2>3. Sound(f)
    BY <1>4, <1>5, <1>7 DEF Sound
  <2> QED
    BY <2>1, <2>2, <2>3
<1>9. call \in Calls /\ call.op = "getState"
  BY PendingTypes DEF Pending
<1> HIDE DEF call
<1>10. /\ Sound(ui) /\ Alike(f, ui)
       /\ \E i \in Slots : /\ f.calls[i] = NoCall /\ ui.calls[i] = call
                           /\ \A j \in Slots \ {i} : ui.calls[j] = f.calls[j]
       /\ \A op : op # "none" => (Has(ui, op) <=> Has(f, op) \/ call.op = op)
       /\ \A op : op # "none" /\ Once(f, op) /\ (call.op = op => ~Has(f, op)) => Once(ui, op)
       /\ OneLoad(f) /\ (call.op \in {"getState", "listUsers"} =>
                            ~Has(f, "getState") /\ ~Has(f, "listUsers")) => OneLoad(ui)
  BY <1>1, <1>6, <1>8, <1>9, AwaitSound
<1>11. /\ ui.service = "starting" /\ ui.mode = "userSelection" /\ ui.user = None
       /\ ui.attempt = None /\ ui.beginInFlight = FALSE
       /\ ui.queued = <<>> /\ ui.generation = 0 /\ ui.exiting = FALSE
       /\ ui.recovery = "none"
  BY <1>4, <1>10 DEF Alike
<1>12. Orderly(ui)
  <2>1. OneLoad(ui) /\ Once(ui, "cancel") /\ Once(ui, "begin")
        /\ ~Has(ui, "cancel") /\ ~Has(ui, "begin")
    BY <1>7, <1>8, <1>9, <1>10
  <2> QED
    BY <1>3, <1>11, <2>1 DEF Orderly, Loading
<1>13. \A i \in Slots : ui.calls[i].op \in {"none", "getState"}
  BY <1>2, <1>4, <1>9, <1>10
<1> QED
  BY <1>10, <1>11, <1>12, <1>13

\* Nothing has been sent, asked or begun at first.
LEMMA InitInv ==
  ASSUME Init
  PROVE  Inv
<1>1. /\ Sound(ui) /\ Orderly(ui)
      /\ ui.queued = <<>> /\ ui.attempt = None /\ ~ui.exiting /\ ui.mode = "userSelection"
      /\ \A i \in Slots : ui.calls[i].op \in {"none", "getState"}
  BY FeatureInitFits DEF Init
<1>2. MachineInv
  BY MaxAttemptAssumption
  DEF Init, MachineInit, MachineInv, MachineTypeOK, AttemptTracksPhase, Phases,
      ActivePhases, InvalidatingPhases, Attempts, NoAttempt
<1>3. wire = <<>> /\ serving = 0 /\ asked = 0 /\ online = TRUE /\ phase = "Idle" /\ lastAttempt = 0
  BY DEF Init, MachineInit
<1>4. /\ answers = [i \in Slots |-> NoAnswer]
      /\ \A i \in Slots : answers[i] = NoAnswer /\ NoAnswer.result = "none"
  BY NoAnswerIs DEF Init
<1>5. InFlight = {} /\ Len(wire) = 0 /\ Len(ui.queued) = 0 /\ wire \in Seq(Signals \cup {Disconnected})
  BY <1>1, <1>3 DEF InFlight, Elements
<1>6. BusFits
  <2>1. answers = [i \in Slots |-> [result |-> answers[i].result, value |-> answers[i].value,
                                    after |-> answers[i].after]]
    BY <1>4, NoAnswerIs
  <2>2. serving \in Slots \cup {0} /\ asked \in 0..MaxPrompts
    BY <1>3, BoundsAssumption
  <2>3. online \in BOOLEAN
    BY <1>3, Zenon
  <2>4. Len(wire) + Len(ui.queued) <= IF online THEN WireCap ELSE WireCap + 1
    BY <1>3, <1>5, BoundsAssumption
  <2> QED
    BY <1>5, <2>1, <2>2, <2>3, <2>4, Zenon DEF BusFits
<1>7. AnswersFit /\ ServingFits
  BY <1>3, <1>4 DEF AnswersFit, ServingFits
<1>8. HandoffKnown
  BY <1>1, <1>5 DEF HandoffKnown
<1>9. GoneIsForgotten
  BY <1>1, <1>5, NoneAssumption DEF GoneIsForgotten, Attempts
<1> QED
  BY <1>1, <1>2, <1>6, <1>7, <1>8, <1>9 DEF Inv

\* A step of somebody else changes nothing.
LEMMA StutterInv ==
  ASSUME Inv, UNCHANGED vars
  PROVE  Inv'
<1>1. /\ ui' = ui /\ wire' = wire /\ answers' = answers /\ serving' = serving /\ asked' = asked
      /\ online' = online
      /\ phase' = phase /\ detail' = detail /\ active' = active /\ lastAttempt' = lastAttempt
  BY DEF vars, machineVars
<1>2. MachineInv' /\ Sound(ui') /\ (online' => Orderly(ui'))
  BY <1>1 DEF Inv, MachineInv, MachineTypeOK, AttemptTracksPhase
<1>3. InFlight' = InFlight
  BY <1>1 DEF InFlight
<1>4. BusFits' /\ AnswersFit' /\ HandoffKnown' /\ (online' => ServingFits')
  BY <1>1, <1>3 DEF Inv, BusFits, AnswersFit, HandoffKnown, ServingFits
<1>5. GoneIsForgotten'
  BY <1>1, <1>3 DEF Inv, GoneIsForgotten, Gone
<1> QED
  BY <1>2, <1>4, <1>5 DEF Inv

\* Every step keeps the invariant.
LEMMA NextInv ==
  ASSUME Inv, [Next]_vars
  PROVE  Inv'
<1>1. CASE UserActs
  BY <1>1, UserInv
<1>2. CASE BackendStep
  BY <1>2, BackendStepInv
<1>3. CASE Receive
  BY <1>3, ReceiveInv
<1>4. ASSUME NEW i \in Slots, ReplyStep(i)
      PROVE  Inv'
  BY <1>4, ReplyInv
<1>5. CASE LoseBus
  BY <1>5, LoseBusInv
<1>6. CASE UNCHANGED vars
  BY <1>6, StutterInv
<1>7. Rest => UNCHANGED vars
  BY Zenon DEF Rest
<1> QED
  BY <1>1, <1>2, <1>3, <1>4, <1>5, <1>6, <1>7, Zenon DEF Next

\* The inductive invariant.
LEMMA Invariant == Spec => []Inv
<1>1. Init => Inv
  BY InitInv
<1>2. Inv /\ [Next]_vars => Inv'
  BY NextInv
<1> QED
  BY <1>1, <1>2, PTL DEF Spec

\* Every step of the interface and of the backend is careful.
LEMMA NextCareful ==
  ASSUME Inv, [Next]_vars
  PROVE  Careful
<1>1. CASE UserActs
  BY <1>1, UserInv
<1>2. CASE Receive
  BY <1>2, ReceiveInv
<1>3. ASSUME NEW i \in Slots, ReplyStep(i)
      PROVE  Careful
  BY <1>3, ReplyInv
<1>4. ASSUME ui' = ui
      PROVE  Careful
  <2>1. ui'.loaded >= ui.loaded
    BY <1>4 DEF Inv, Sound, Feature
  <2> QED
    BY <1>4, <2>1 DEF Careful
<1>5. CASE BackendStep \/ LoseBus \/ Rest \/ UNCHANGED vars
  <2>1. ui' = ui
    BY <1>5, BackendKeepsFeature DEF LoseBus, Rest, vars
  <2> QED
    BY <1>4, <2>1
<1> QED
  BY <1>1, <1>2, <1>3, <1>5, Zenon DEF Next

\* How many calls of a method wait for their reply.
LEMMA CountCalls ==
  ASSUME NEW op, Once(ui, op)
  PROVE  Cardinality(PendingCalls(op)) = IF Has(ui, op) THEN 1 ELSE 0
<1>1. CASE Has(ui, op)
  <2>1. PICK i \in Slots : ui.calls[i].op = op
    BY <1>1 DEF Has
  <2>2. PendingCalls(op) = {i}
    BY <2>1 DEF PendingCalls, Once
  <2> QED
    BY <1>1, <2>2, FS_Singleton
<1>2. CASE ~Has(ui, op)
  <2>1. PendingCalls(op) = {}
    BY <1>2 DEF PendingCalls, Has
  <2> QED
    BY <1>2, <2>1, FS_EmptySet
<1> QED
  BY <1>1, <1>2

\* The interface, the backend and the bus between them keep to their types, and
\* the signals on their way to the capacity of the bus, through every step.
THEOREM GreeterTypes == Spec => []TypeOK
<1>1. Inv => TypeOK
  <2> SUFFICES ASSUME Inv
               PROVE  TypeOK
    OBVIOUS
  <2>1. ui \in Feature /\ MachineTypeOK
    BY DEF Inv, Sound, MachineInv
  <2>2. \A i \in Slots : ui.calls[i].op \in CallOps
    BY <2>1, CallTypes DEF Feature
  <2>3. ui.prompt = NoPrompt \/ (ui.prompt.attempt \in Attempts /\ ui.prompt.kind \in {"input", "info"})
    BY <2>1 DEF Feature, Prompts
  <2>4. Len(wire) + Len(ui.queued) <= WireCap + 1
    <3> DEFINE load == Len(wire) + Len(ui.queued)
    <3>1. load <= WireCap \/ load <= WireCap + 1
      BY DEF Inv, BusFits
    <3>2. Len(wire) \in Nat /\ Len(ui.queued) \in Nat
      BY <2>1, LenProperties DEF Inv, BusFits, Feature
    <3>3. load \in Nat
      BY <3>2
    <3> HIDE DEF load
    <3>4. load <= WireCap + 1
      BY <3>1, <3>3, BoundsAssumption
    <3> QED
      BY <3>4 DEF load
  <2>5. serving \in Slots \cup {0} /\ asked \in 0..MaxPrompts
    BY DEF Inv, BusFits
  <2>6. ui.promptError \in BOOLEAN /\ ui.dormant \in BOOLEAN
    BY <2>1, Zenon DEF Feature
  <2>7. /\ ui.service \in {"starting", "ready", "unavailable"}
        /\ ui.mode \in {"userSelection", "prompting", "submitting", "sessionSelection",
                        "handingOff", "error"}
        /\ ui.catalog \in {"empty", "loading", "ready", "failed"}
        /\ ui.power \in {"idle", "executing"}
        /\ ui.user \in Users \cup {None}
        /\ ui.session \in Sessions \cup {None}
        /\ ui.sessions \subseteq Sessions
        /\ ui.recovery \in {"none", "retryAuthentication", "retryPrompt", "reconnectService"}
        /\ ui.attempt \in Attempts \cup {None}
        /\ ui.generation \in 0..MaxLoads
    BY <2>1 DEF Feature
  <2> QED
    BY <2>1, <2>2, <2>3, <2>4, <2>5, <2>6, <2>7, Zenon DEF TypeOK
<1> QED
  BY <1>1, Invariant, PTL

\* The chosen session is one of those on the screen, whichever of overlapping
\* loads, reconnects and stored preferences comes last.
THEOREM GreeterSessionListed == Spec => []SelectedSessionIsListed
<1>1. Inv => SelectedSessionIsListed
  BY DEF Inv, Sound, SelectedSessionIsListed
<1> QED
  BY <1>1, Invariant, PTL

\* The interface says that it hands over, and closes, only when greetd holds the
\* session: whichever of the signal and the reply of start_session comes first.
THEOREM GreeterExits == Spec => []ExitsOnlyAfterHandoff
<1>1. Inv => ExitsOnlyAfterHandoff
  BY DEF Inv, HandoffKnown, ExitsOnlyAfterHandoff
<1> QED
  BY <1>1, Invariant, PTL

\* The flags of the feature that keep a second begin or start from being issued
\* are up exactly while one is pending, so that two starts never overlap.
THEOREM GreeterFlags == Spec => []CallsMatchFlags
<1>1. Inv => CallsMatchFlags
  <2> SUFFICES ASSUME Inv
               PROVE  CallsMatchFlags
    OBVIOUS
  <2>1. Cardinality(PendingCalls("start")) = IF ui.startInFlight THEN 1 ELSE 0
    <3>1. Once(ui, "start") /\ (ui.startInFlight <=> Has(ui, "start"))
      BY DEF Inv, Sound
    <3>2. Cardinality(PendingCalls("start")) = IF Has(ui, "start") THEN 1 ELSE 0
      BY <3>1, CountCalls
    <3> QED
      BY <3>1, <3>2
  <2>2. ASSUME online
        PROVE  Cardinality(PendingCalls("begin")) = IF ui.beginInFlight THEN 1 ELSE 0
    <3>1. Once(ui, "begin") /\ (ui.beginInFlight <=> Has(ui, "begin"))
      BY <2>2 DEF Inv, Orderly
    <3>2. Cardinality(PendingCalls("begin")) = IF Has(ui, "begin") THEN 1 ELSE 0
      BY <3>1, CountCalls
    <3> QED
      BY <3>1, <3>2
  <2> QED
    BY <2>1, <2>2 DEF CallsMatchFlags
<1> QED
  BY <1>1, Invariant, PTL

\* What a newer load of the sessions has put on the screen is never replaced by
\* an older one, although their replies come in any order.
THEOREM GreeterNewestLoadWins == Spec => NewestLoadWins
<1>1. Inv /\ [Next]_vars => [ui'.loaded >= ui.loaded]_vars
  BY NextCareful DEF Careful
<1> QED
  BY <1>1, Invariant, PTL DEF Spec, NewestLoadWins

\* No conversation is opened while the form is hidden, also if it was hidden
\* while a cancellation or a load was awaited.
THEOREM GreeterBeginsAwake == Spec => BeginsAwake
<1>1. Inv /\ [Next]_vars
        => [\A i \in Slots :
              ui'.calls[i].op = "begin" /\ ui.calls[i].op # "begin" => ~ui'.dormant]_vars
  BY NextCareful DEF Careful
<1> QED
  BY <1>1, Invariant, PTL DEF Spec, BeginsAwake
=============================================================================
