----------------------- MODULE GreeterAgreementProofs -----------------------
(***************************************************************************)
(* What the interface shows and what the backend does agree: the interface *)
(* only asks for what the backend can do, whatever is still on its way.    *)
(***************************************************************************)
EXTENDS GreeterSystemProofs

-----------------------------------------------------------------------------
(* The inductive invariant: the interface by itself.                        *)

\* What the fields of the interface say of each other, also without the bus.
Steady(f) ==
  /\ Once(f, "begin") /\ Once(f, "cancel")
  /\ Has(f, "begin") => f.beginInFlight /\ ~Has(f, "cancel")
  /\ Has(f, "cancel") => f.prompt = NoPrompt
  /\ Has(f, "begin") \/ Has(f, "cancel") =>
       /\ f.attempt = None
       /\ f.recovery \in {"none", "reconnectService"}
       /\ f.mode = "userSelection" => f.service # "ready"
  /\ f.mode = "userSelection" =>
       /\ (f.attempt = None /\ f.service = "ready") \/ f.user = None
       /\ f.recovery = "none"
  /\ f.mode \in {"prompting", "sessionSelection"} => f.attempt # None
  /\ f.attempt # None /\ (f.mode = "prompting" \/ (f.recovery = "retryPrompt" /\ f.prompt # NoPrompt)) =>
       f.prompt.attempt = f.attempt /\ f.prompt.kind = "input"

-----------------------------------------------------------------------------
(* The inductive invariant: the interface and the backend.                  *)

\* No conversation runs.
Quiet == phase \in {"Idle", "Failed", "Cancelling"}

\* A call the backend has still to look at.
Waits(f, a, i, op) == f.calls[i].op = op /\ a[i].result = "none" /\ serving # i

\* The number of a conversation is on its way.
Given(f, a) == \E i \in Slots : f.calls[i].op = "begin" /\ a[i].result = "ok"

\* Signals of the last attempt will be looked at.
Live(f, a) == f.attempt # None \/ Given(f, a)

\* The interface has learned what the attempt waits for, and it is the user's, or
\* the backend's, turn.
Taken(f, a) ==
  /\ f.attempt # None
  /\ \/ f.mode \in {"prompting", "error", "sessionSelection", "handingOff"}
     \/ \E i \in Slots : Waits(f, a, i, "respond") \/ Waits(f, a, i, "start")

\* What a bound attempt shows.
Bound(f) ==
  f.attempt # None =>
    /\ f.attempt = lastAttempt
    /\ f.service = "ready"
    /\ f.mode # "userSelection"
    /\ f.mode \in {"prompting", "error"} =>
         /\ phase = "WaitingForInput"
         /\ f.prompt = [attempt |-> lastAttempt, kind |-> "input", number |-> asked]
    /\ f.mode = "error" => f.recovery \in {"retryPrompt", "none"}
    /\ f.mode = "sessionSelection" => phase = "Authenticated"

\* What is shown while none is bound.
Unbound(f) ==
  f.attempt = None =>
    /\ f.mode \in {"userSelection", "submitting", "error"}
    /\ f.mode = "submitting" => Has(f, "begin") \/ Has(f, "cancel")
    /\ f.mode = "error" => f.recovery # "retryPrompt"
    /\ f.mode = "error" /\ f.recovery = "retryAuthentication" => Quiet
    /\ f.mode = "userSelection" /\ f.service = "ready" => Quiet

\* What a call asks for is what the backend can do.
CallFits(f, a, i) ==
  /\ f.calls[i].op = "getState" /\ a[i].result # "none" /\ a[i].value = "Idle" => phase = "Idle"
  /\ f.calls[i].op = "listUsers" /\ f.calls[i].arg = "Idle" => phase = "Idle"
  /\ f.calls[i].op = "begin" =>
       /\ a[i].result = "ok" => a[i].value = lastAttempt
       /\ a[i].result # "ok" => Quiet
  /\ f.calls[i].op = "cancel" /\ a[i].result = "ok" => phase = "Idle"
  /\ f.calls[i].op \in {"respond", "start"} =>
       /\ f.calls[i].key <= lastAttempt
       /\ Given(f, a) => f.calls[i].key # lastAttempt
  /\ Waits(f, a, i, "respond") =>
       /\ f.calls[i].key = f.attempt
       /\ f.calls[i].arg = asked
       /\ f.mode = "submitting"
       /\ f.prompt.kind = "input"
       /\ phase = "WaitingForInput"
       /\ \A j \in Slots : Waits(f, a, j, "respond") => j = i
  /\ Waits(f, a, i, "start") => f.mode = "submitting" /\ phase = "Authenticated"
  /\ f.calls[i].op = "start" /\ a[i].result # "error" => f.calls[i].key = f.attempt

\* A conversation runs for the interface, or is about to be cancelled; a session
\* that was started is announced, or about to be.
Known(f, a) ==
  /\ phase \in ActivePhases =>
       \/ Live(f, a)
       \/ \E i \in Slots : Waits(f, a, i, "cancel") /\ f.calls[i].key = lastAttempt
  /\ phase = "HandingOff" =>
       /\ f.attempt # None
       /\ \/ f.mode = "handingOff"
          \/ \E i \in Slots : f.calls[i].op = "start" /\ a[i].result = "ok"

\* The command that is carried out is the one the phase belongs to.
Carried(f) ==
  /\ serving # 0 /\ f.calls[serving].op = "cancel" => phase = "Cancelling"
  /\ phase \in {"ResolvingSession", "StartingSession"} =>
       serving # 0 /\ f.calls[serving].op = "start"

\* Events are only held back while a begin is in flight.
Clean(f) == f.beginInFlight \/ f.queued = <<>>

-----------------------------------------------------------------------------
(* The inductive invariant: the signals on their way.  Below, p is a row of  *)
(* events of which the first s have been looked at.                         *)

Mine(e) == e.attempt = lastAttempt

Asks(e) == e.what = "prompt" /\ e.value = "input"

\* The state signal that follows a question.
Echo(e) == phase = "WaitingForInput" /\ e.what = "state" /\ e.value = "WaitingForInput"

\* An event that makes it somebody's turn.
Decisive(e) ==
  Asks(e) \/ (e.what = "state" /\ e.value \in {"Authenticated", "Failed", "HandingOff"})

\* It tells what is still true.
Confirmed(e) ==
  /\ Asks(e) => phase = "WaitingForInput" /\ e.number = asked
  /\ ~Asks(e) => e.value = phase

\* At most one decisive event is on its way, it is the last one but for its echo,
\* and it is still true.
Decides(f, a, p, s) ==
  Live(f, a) =>
    \A n \in Nat : s < n /\ n <= Len(p) /\ Mine(p[n]) /\ Decisive(p[n]) =>
       /\ Confirmed(p[n])
       /\ \A m \in Nat : n < m /\ m <= Len(p) /\ Mine(p[m]) => Echo(p[m])

\* Once the interface has learned of it, nothing else is on its way.
Echoes(f, a, p, s) ==
  Taken(f, a) => \A n \in Nat : s < n /\ n <= Len(p) /\ Mine(p[n]) => Echo(p[n])

\* Until then, it is.
Announced(f, a, p, s) ==
  Live(f, a) /\ phase \in {"WaitingForInput", "Failed"} =>
    \/ Taken(f, a)
    \/ \E n \in Nat : s < n /\ n <= Len(p) /\ Mine(p[n]) /\ Decisive(p[n])

Flows(f, a, p, s) == Decides(f, a, p, s) /\ Echoes(f, a, p, s) /\ Announced(f, a, p, s)

\* The end of the conversation is among the first k signals of w.
FailedWithin(w, k) ==
  \E n \in Nat : 0 < n /\ n <= k /\ n <= Len(w) /\ w[n] = StateSignal(lastAttempt, "Failed")

\* A reply comes after what it is about.
Late(f, a, w) ==
  \A i \in Slots :
    f.attempt # None /\ f.calls[i].key = f.attempt =>
      /\ f.calls[i].op = "respond" /\ a[i].result = "error" => FailedWithin(w, a[i].after)
      /\ f.calls[i].op = "start" /\ a[i].result # "none" =>
           \A n \in Nat : 0 < n /\ n <= Len(w) /\ Mine(w[n]) => n <= a[i].after
      /\ f.calls[i].op = "start" /\ a[i].result = "error" =>
           phase = "Authenticated" \/ FailedWithin(w, a[i].after)

\* What holds between two events.
Core(f, a) ==
  /\ Bound(f)
  /\ Unbound(f)
  /\ Known(f, a)
  /\ \A i \in Slots : CallFits(f, a, i)

Accord(f, a, w) ==
  /\ Core(f, a)
  /\ Flows(f, a, f.queued \o w, 0)
  /\ Late(f, a, w)
  /\ Carried(f)
  /\ Clean(f)

\* Replies are results.
Replied(a) ==
  \A i \in Slots :
    /\ a[i].after \in Nat
    /\ a[i].result \in {"none", "ok", "error"}
    /\ a[i].result = "none" => a[i] = NoAnswer

Agreement ==
  /\ Replied(answers)
  /\ Steady(ui)
  /\ online => Accord(ui, answers, wire)

-----------------------------------------------------------------------------
(* What a stretch of code does to the fields that decide what the interface *)
(* offers, and to the calls.                                                *)

Shape(g, attempt, service, mode, recovery, prompt, user) ==
  /\ g.attempt = attempt
  /\ g.service = service
  /\ g.mode = mode
  /\ g.recovery = recovery
  /\ g.prompt = prompt
  /\ g.user = user

\* A new call.
Takes(f, g, call) ==
  \E i \in Slots :
    f.calls[i] = NoCall /\ g.calls[i] = call /\ \A j \in Slots \ {i} : g.calls[j] = f.calls[j]

\* Nothing becomes of the events held back for a begin.
Holds(f, g) == g.queued = f.queued /\ g.beginInFlight = f.beginInFlight

\* The fields do not change.
Stays(f, g) ==
  /\ Shape(g, f.attempt, f.service, f.mode, f.recovery, f.prompt, f.user)
  /\ Holds(f, g)

\* A conversation begins.
Begins(f, g) ==
  /\ f.mode = "userSelection" /\ f.user # None
  /\ Shape(g, f.attempt, f.service, "submitting", "none", f.prompt, f.user)
  /\ g.queued = <<>> /\ g.beginInFlight
  /\ Takes(f, g, Pending("begin", f.user, None))

\* A new call takes a free slot; the other fields stay.
LEMMA AwaitForm ==
  ASSUME NEW f \in Feature, FreeSlots(f) # {}, NEW call \in Calls
  PROVE  Stays(f, Await(f, call)) /\ Takes(f, Await(f, call), call)
<1> DEFINE g == Await(f, call)
<1> HIDE DEF g
<1>1. /\ g = [f EXCEPT !.calls = g.calls]
      /\ \E i \in Slots : /\ f.calls[i] = NoCall /\ g.calls[i] = call
                          /\ \A j \in Slots \ {i} : g.calls[j] = f.calls[j]
  BY AwaitFits DEF g
<1>2. Alike(f, g)
  BY <1>1, FieldsKept
<1> QED
  BY <1>1, <1>2 DEF g, Stays, Shape, Holds, Takes, Alike

\* A call that is made after the fields were set.
LEMMA AwaitAfter ==
  ASSUME NEW f, NEW h \in Feature, h.calls = f.calls, FreeSlots(f) # {}, NEW call \in Calls
  PROVE  Stays(h, Await(h, call)) /\ Takes(f, Await(h, call), call)
<1>1. FreeSlots(h) # {}
  BY DEF FreeSlots
<1>2. Stays(h, Await(h, call)) /\ Takes(h, Await(h, call), call)
  BY <1>1, AwaitForm
<1> QED
  BY <1>2, Zenon DEF Takes

\* A conversation begins from the account picker, or not at all.
LEMMA BeginForm ==
  ASSUME NEW f \in Feature, FreeSlots(f) # {}
  PROVE  BeginIfReady(f) = f \/ Begins(f, BeginIfReady(f))
<1> DEFINE g == BeginIfReady(f)
<1>1. CASE f.dormant \/ ~CanBeginWith(f)
  BY <1>1 DEF BeginIfReady
<1>2. CASE ~f.dormant /\ CanBeginWith(f)
  <2> DEFINE h == [f EXCEPT !.mode = "submitting", !.recovery = "none", !.promptError = FALSE,
                            !.beginInFlight = TRUE, !.queued = <<>>]
             call == Pending("begin", f.user, None)
  <2>1. f.user \in Users /\ f.mode = "userSelection" /\ f.user # None
    BY <1>2 DEF Feature, CanBeginWith
  <2>2. h \in Feature
    BY Literals, ZenonT(40) DEF Feature
  <2>3. /\ Shape(h, f.attempt, f.service, "submitting", "none", f.prompt, f.user)
        /\ h.beginInFlight /\ h.queued = <<>> /\ h.calls = f.calls
    BY DEF Feature, Shape
  <2>4. g = Await(h, call)
    BY <1>2 DEF BeginIfReady, BeginAuthenticationCall
  <2>5. call \in Calls
    BY <2>1, PendingTypes
  <2> HIDE DEF h, g
  <2>6. Stays(h, g) /\ Takes(f, g, call)
    BY <2>2, <2>3, <2>4, <2>5, AwaitAfter
  <2> QED
    BY <2>1, <2>3, <2>6 DEF Begins, Stays, Shape, Holds, g
<1> QED
  BY <1>1, <1>2

\* The start of a session, unless one is under way.
LEMMA StartForm ==
  ASSUME NEW f \in Feature, f.startInFlight \/ FreeSlots(f) # {}
  PROVE  LET g == StartSession(f) IN
         \/ g = f
         \/ /\ f.attempt # None /\ f.session # None /\ ~f.startInFlight
            /\ Shape(g, f.attempt, f.service, "submitting", f.recovery, f.prompt, f.user)
            /\ Holds(f, g)
            /\ Takes(f, g, Pending("start", f.session, f.attempt))
<1> DEFINE g == StartSession(f)
<1>1. CASE f.attempt = None \/ f.session = None \/ f.startInFlight
  BY <1>1 DEF StartSession
<1>2. CASE ~(f.attempt = None \/ f.session = None \/ f.startInFlight)
  <2> DEFINE h == [f EXCEPT !.startInFlight = TRUE, !.mode = "submitting"]
             call == Pending("start", f.session, f.attempt)
  <2>1. f.session \in Sessions /\ f.attempt \in Attempts
    BY <1>2 DEF Feature
  <2>2. h \in Feature
    BY Literals DEF Feature
  <2>3. /\ Shape(h, f.attempt, f.service, "submitting", f.recovery, f.prompt, f.user)
        /\ Holds(f, h) /\ h.calls = f.calls
    BY DEF Feature, Shape, Holds
  <2>4. g = Await(h, call)
    BY <1>2 DEF StartSession
  <2>5. call \in Calls
    BY <2>1, PendingTypes
  <2> HIDE DEF h, g
  <2>6. Stays(h, g) /\ Takes(f, g, call)
    BY <1>2, <2>2, <2>3, <2>4, <2>5, AwaitAfter
  <2> QED
    BY <1>2, <2>3, <2>6 DEF Stays, Shape, Holds, g
<1> QED
  BY <1>1, <1>2

-----------------------------------------------------------------------------
(* The interface by itself.                                                 *)

\* The calls that Steady speaks of.
Conversations(c) == c.op \in {"begin", "cancel"}

\* What Steady needs of the calls: none is made.
LEMMA SteadyKept ==
  ASSUME NEW f, NEW g, Steady(f),
         \A j \in Slots : g.calls[j] = f.calls[j] \/ ~Conversations(g.calls[j]),
         g.beginInFlight \/ ~f.beginInFlight \/ ~Has(g, "begin")
  PROVE  /\ Once(g, "begin") /\ Once(g, "cancel")
         /\ Has(g, "begin") => Has(f, "begin") /\ g.beginInFlight /\ ~Has(g, "cancel")
         /\ Has(g, "cancel") => Has(f, "cancel")
BY DEF Steady, Once, Has, Conversations

\* The fields stay, no conversation is asked for or given up.
LEMMA SteadyStays ==
  ASSUME NEW f, NEW g, Steady(f), Stays(f, g),
         \A j \in Slots : g.calls[j] = f.calls[j] \/ ~Conversations(g.calls[j])
  PROVE  Steady(g)
<1>1. /\ Once(g, "begin") /\ Once(g, "cancel")
      /\ Has(g, "begin") => Has(f, "begin") /\ g.beginInFlight /\ ~Has(g, "cancel")
      /\ Has(g, "cancel") => Has(f, "cancel")
  BY SteadyKept DEF Stays, Holds
<1> QED
  BY <1>1 DEF Steady, Stays, Shape

\* A conversation begins when nothing is in its way.
LEMMA SteadyBegin ==
  ASSUME NEW f \in Feature, FreeSlots(f) # {}, Steady(f)
  PROVE  Steady(BeginIfReady(f))
<1> DEFINE g == BeginIfReady(f)
<1> SUFFICES Steady(g)
  OBVIOUS
<1> HIDE DEF g
<1>1. CASE g = f
  BY <1>1
<1>2. CASE Begins(f, g)
  <2> DEFINE call == Pending("begin", f.user, None)
  <2>1. call.op = "begin" /\ NoCall.op = "none"
    BY PendingTypes DEF Pending
  <2> HIDE DEF call
  <2>2. PICK i \in Slots : /\ f.calls[i] = NoCall /\ g.calls[i] = call
                           /\ \A j \in Slots \ {i} : g.calls[j] = f.calls[j]
    BY <1>2 DEF Begins, Takes, call
  <2>3. f.attempt = None /\ ~Has(f, "begin") /\ ~Has(f, "cancel")
    BY <1>2 DEF Begins, Steady
  <2>4. Once(g, "begin") /\ ~Has(g, "cancel") /\ Once(g, "cancel")
    BY <2>1, <2>2, <2>3 DEF Once, Has
  <2> QED
    BY <1>2, <2>3, <2>4 DEF Steady, Begins, Shape
<1> QED
  BY <1>1, <1>2, BeginForm DEF g

-----------------------------------------------------------------------------
(* What keeps the interface and the backend in accord.                      *)

\* The slots keep their calls and replies, or are taken or left.
Turns(f, a, g, b) ==
  \A j \in Slots :
    \/ g.calls[j] = f.calls[j] /\ b[j] = a[j]
    \/ g.calls[j] # f.calls[j] /\ b[j].result = "none" /\ serving # j

\* Calls that do not concern a conversation.
Dull == {"none", "getState", "listUsers", "listSessions", "readPreference", "powerAction"}

\* No conversation is bound, before or after.
LEMMA LooseTurn ==
  ASSUME NEW f, NEW g, NEW a, NEW b, NEW w,
         Accord(f, a, w), Turns(f, a, g, b),
         \A j \in Slots : f.calls[j] \in Calls,
         serving \in Slots \cup {0},
         f.attempt = None, g.attempt = None,
         g.queued = f.queued \/ ~Given(f, a),
         Clean(g), Unbound(g),
         \A j \in Slots :
           \/ g.calls[j] = f.calls[j]
           \/ /\ g.calls[j].op \in Dull \/ (g.calls[j].op = "begin" /\ Quiet)
              /\ g.calls[j].op = "listUsers" /\ g.calls[j].arg = "Idle" => phase = "Idle"
              /\ ~Waits(f, a, j, "cancel")
              /\ f.calls[j].op = "begin" => a[j].result # "ok"
  PROVE  Accord(g, b, w)
<1>1. \A j \in Slots :
        \/ g.calls[j] = f.calls[j] /\ b[j] = a[j]
        \/ /\ b[j].result = "none" /\ serving # j
           /\ ~Waits(f, a, j, "cancel")
           /\ f.calls[j].op = "begin" => a[j].result # "ok"
  BY DEF Turns, Waits
<1>2. Given(g, b) <=> Given(f, a)
  BY <1>1 DEF Given
<1>3. None \notin Attempts /\ \A j \in Slots : f.calls[j].op \in {"respond", "start"} => f.calls[j].key # None
  BY NoneAssumption, CallTypes DEF Attempts
<1>4. Known(g, b)
  <2>1. phase # "HandingOff"
    BY DEF Accord, Core, Known
  <2> SUFFICES ASSUME phase \in ActivePhases, ~Given(g, b)
               PROVE  \E i \in Slots : Waits(g, b, i, "cancel") /\ g.calls[i].key = lastAttempt
    BY <2>1 DEF Known, Live
  <2>2. PICK i \in Slots : Waits(f, a, i, "cancel") /\ f.calls[i].key = lastAttempt
    BY <1>2 DEF Accord, Core, Known, Live
  <2>3. g.calls[i] = f.calls[i] /\ b[i] = a[i]
    BY <1>1, <2>2
  <2> QED
    BY <2>2, <2>3 DEF Waits
<1>5. ASSUME NEW i \in Slots
      PROVE  CallFits(g, b, i)
  <2>1. CallFits(f, a, i)
    BY DEF Accord, Core
  <2>2. CASE g.calls[i] = f.calls[i] /\ b[i] = a[i]
    BY <1>2, <1>3, <2>1, <2>2 DEF CallFits, Waits
  <2>4. CASE g.calls[i] # f.calls[i]
    <3>1. /\ g.calls[i].op \in Dull \/ (g.calls[i].op = "begin" /\ Quiet)
          /\ g.calls[i].op = "listUsers" /\ g.calls[i].arg = "Idle" => phase = "Idle"
          /\ b[i].result = "none"
      BY <2>4 DEF Turns
    <3> QED
      BY <3>1 DEF CallFits, Waits, Dull
  <2> QED
    BY <2>2, <2>4 DEF Turns
<1>6. Bound(g) /\ Late(g, b, w) /\ ~Taken(g, b) /\ ~Taken(f, a)
  BY DEF Bound, Late, Taken
<1>7. Flows(g, b, g.queued \o w, 0)
  <2>1. CASE ~Given(g, b)
    BY <1>6, <2>1 DEF Flows, Decides, Echoes, Announced, Live
  <2>2. CASE Given(g, b)
    <3>1. g.queued = f.queued
      BY <1>2, <2>2
    <3>2. Flows(f, a, f.queued \o w, 0)
      BY DEF Accord
    <3> QED
      BY <1>2, <1>6, <3>1, <3>2 DEF Flows, Decides, Echoes, Announced, Live
  <2> QED
    BY <2>1, <2>2
<1>8. Carried(g)
  <2>1. serving \in Slots => g.calls[serving] = f.calls[serving]
    BY DEF Turns
  <2> QED
    BY <2>1 DEF Accord, Carried
<1> QED
  BY <1>4, <1>5, <1>6, <1>7, <1>8 DEF Accord, Core


\* The conversation that is bound goes on.
LEMMA BoundTurn ==
  ASSUME NEW f, NEW g, NEW a, NEW b, NEW w,
         Accord(f, a, w), Turns(f, a, g, b),
         serving \in Slots \cup {0},
         f.attempt # None, g.attempt = f.attempt,
         ~Has(f, "begin"), ~Has(f, "cancel"),
         Holds(f, g), Bound(g),
         \A j \in Slots :
           \/ g.calls[j] = f.calls[j]
           \/ g.calls[j].op \in Dull \ {"getState", "listUsers"}
           \/ /\ g.calls[j].op \in {"respond", "start"}
              /\ CallFits(g, b, j),
         \A j \in Slots :
           Waits(f, a, j, "respond") \/ Waits(f, a, j, "start") =>
             g.calls[j] = f.calls[j] /\ g.mode = f.mode /\ g.prompt = f.prompt,
         Taken(f, a) \/ Echoes(g, b, f.queued \o w, 0),
         Taken(f, a) => Taken(g, b) \/ phase \notin {"WaitingForInput", "Failed"},
         f.mode = "handingOff" => g.mode = "handingOff",
         \A j \in Slots :
           f.calls[j].op = "start" /\ a[j].result = "ok" =>
             g.calls[j] = f.calls[j] \/ g.mode = "handingOff"
  PROVE  Accord(g, b, w)
<1>1. ~Given(f, a) /\ ~Given(g, b)
  BY DEF Given, Has, Turns, Dull
<1>2. Unbound(g) /\ Live(g, b) /\ Live(f, a)
  BY DEF Unbound, Live
<1>3. Known(g, b)
  <2> SUFFICES ASSUME phase = "HandingOff"
               PROVE  \/ g.mode = "handingOff"
                      \/ \E i \in Slots : g.calls[i].op = "start" /\ b[i].result = "ok"
    BY <1>2 DEF Known
  <2>1. CASE f.mode = "handingOff"
    BY <2>1
  <2>2. CASE f.mode # "handingOff"
    <3>1. PICK i \in Slots : f.calls[i].op = "start" /\ a[i].result = "ok"
      BY <2>2 DEF Accord, Core, Known
    <3> QED
      BY <3>1 DEF Turns
  <2> QED
    BY <2>1, <2>2
<1>4. ASSUME NEW i \in Slots
      PROVE  CallFits(g, b, i)
  <2>1. CASE g.calls[i] # f.calls[i] /\ g.calls[i].op \in {"respond", "start"}
    BY <2>1 DEF Dull
  <2>2. CASE g.calls[i] # f.calls[i] /\ g.calls[i].op \in Dull \ {"getState", "listUsers"}
    BY <2>2 DEF CallFits, Waits, Dull
  <2>3. CASE g.calls[i] = f.calls[i]
    <3>1. CallFits(f, a, i) /\ b[i] = a[i]
      BY <2>3 DEF Accord, Core, Turns
    <3>2. ASSUME Waits(g, b, i, "respond")
          PROVE  \A j \in Slots : Waits(g, b, j, "respond") => j = i
      <4> SUFFICES ASSUME NEW j \in Slots, Waits(g, b, j, "respond")
                   PROVE  j = i
        OBVIOUS
      <4>1. CASE g.calls[j] = f.calls[j]
        BY <2>3, <3>1, <3>2, <4>1 DEF Turns, CallFits, Waits
      <4>2. CASE g.calls[j] # f.calls[j]
        <5>1. CallFits(g, b, j)
          BY <4>2 DEF Dull, Waits
        <5> QED
          BY <3>2, <5>1 DEF CallFits
      <4> QED
        BY <4>1, <4>2
    <3>3. Waits(g, b, i, "respond") \/ Waits(g, b, i, "start") => g.mode = f.mode /\ g.prompt = f.prompt
      BY <2>3, <3>1 DEF Waits
    <3> QED
      BY <1>1, <2>3, <3>1, <3>2, <3>3 DEF CallFits, Waits
  <2> QED
    BY <2>1, <2>2, <2>3
<1>5. Flows(g, b, g.queued \o w, 0)
  <2>1. Flows(f, a, f.queued \o w, 0) /\ g.queued = f.queued
    BY DEF Accord, Holds
  <2>2. Taken(g, b) => Echoes(g, b, f.queued \o w, 0)
    BY <2>1 DEF Flows, Echoes
  <2> QED
    BY <1>2, <2>1, <2>2 DEF Flows, Decides, Echoes, Announced
<1>6. Late(g, b, w)
  <2> SUFFICES ASSUME NEW i \in Slots, g.calls[i].key = g.attempt
               PROVE  /\ g.calls[i].op = "respond" /\ b[i].result = "error" => FailedWithin(w, b[i].after)
                      /\ g.calls[i].op = "start" /\ b[i].result # "none" =>
                           \A n \in Nat : 0 < n /\ n <= Len(w) /\ Mine(w[n]) => n <= b[i].after
                      /\ g.calls[i].op = "start" /\ b[i].result = "error" =>
                           phase = "Authenticated" \/ FailedWithin(w, b[i].after)
    BY DEF Late
  <2>1. CASE g.calls[i] = f.calls[i] /\ b[i] = a[i]
    <3>1. Late(f, a, w)
      BY DEF Accord
    <3> QED
      BY <2>1, <3>1 DEF Late
  <2>2. CASE b[i].result = "none"
    BY <2>2
  <2> QED
    BY <2>1, <2>2 DEF Turns
<1>7. Carried(g) /\ Clean(g)
  <2>1. serving \in Slots => g.calls[serving] = f.calls[serving]
    BY DEF Turns
  <2> QED
    BY <2>1 DEF Accord, Carried, Clean, Holds
<1> QED
  BY <1>2, <1>3, <1>4, <1>5, <1>6, <1>7 DEF Accord, Core

\* The fields stay, and only calls that concern no conversation come and go.
LEMMA StaysTurn ==
  ASSUME NEW f, NEW g, NEW a, NEW b, NEW w,
         Accord(f, a, w), Turns(f, a, g, b), Steady(f),
         \A j \in Slots : f.calls[j] \in Calls,
         serving \in Slots \cup {0},
         Stays(f, g),
         \A j \in Slots :
           \/ g.calls[j] = f.calls[j]
           \/ /\ g.calls[j].op \in Dull
              /\ f.attempt # None => g.calls[j].op \notin {"getState", "listUsers"}
              /\ g.calls[j].op = "listUsers" /\ g.calls[j].arg = "Idle" => phase = "Idle"
              /\ \/ f.calls[j].op \in Dull \cup {"respond"}
                 \/ f.calls[j].op = "start" /\ a[j].result = "error"
              /\ ~Waits(f, a, j, "respond")
  PROVE  Accord(g, b, w)
<1>1. CASE f.attempt = None
  <2>1. \A op \in {"begin", "cancel"} : Has(g, op) <=> Has(f, op)
    BY DEF Has, Dull
  <2>2. Unbound(g) /\ Clean(g) /\ g.attempt = None /\ g.queued = f.queued
    BY <1>1, <2>1 DEF Accord, Core, Unbound, Clean, Stays, Shape, Holds
  <2>3. \A j \in Slots :
           \/ g.calls[j] = f.calls[j]
           \/ /\ g.calls[j].op \in Dull \/ (g.calls[j].op = "begin" /\ Quiet)
              /\ g.calls[j].op = "listUsers" /\ g.calls[j].arg = "Idle" => phase = "Idle"
              /\ ~Waits(f, a, j, "cancel")
              /\ f.calls[j].op = "begin" => a[j].result # "ok"
    BY DEF Dull, Waits
  <2> QED
    BY <1>1, <2>2, <2>3, LooseTurn
<1>2. CASE f.attempt # None
  <2>1. ~Has(f, "begin") /\ ~Has(f, "cancel")
    BY <1>2 DEF Steady
  <2>2. Bound(g) /\ Holds(f, g) /\ g.attempt = f.attempt /\ g.mode = f.mode /\ g.prompt = f.prompt
    BY DEF Accord, Core, Bound, Stays, Shape
  <2>3. \A j \in Slots : Waits(f, a, j, "respond") \/ Waits(f, a, j, "start") => g.calls[j] = f.calls[j]
    BY DEF Waits, Dull
  <2>4. Taken(f, a) => Taken(g, b)
    BY <2>2, <2>3 DEF Taken, Waits, Turns
  <2>5. Taken(f, a) \/ ~Taken(g, b)
    BY <2>2 DEF Taken, Waits, Turns, Dull
  <2>6. \A j \in Slots : g.calls[j] = f.calls[j] \/ g.calls[j].op \in Dull \ {"getState", "listUsers"}
    BY <1>2
  <2>7. \A j \in Slots : f.calls[j].op = "start" /\ a[j].result = "ok" => g.calls[j] = f.calls[j]
    BY DEF Dull
  <2> QED
    BY <1>2, <2>1, <2>2, <2>3, <2>4, <2>5, <2>6, <2>7, BoundTurn DEF Echoes
<1> QED
  BY <1>1, <1>2

\* A conversation begins when none runs.
LEMMA AccordBegin ==
  ASSUME NEW f \in Feature, NEW a, NEW w, FreeSlots(f) # {}, Steady(f), Accord(f, a, w),
         serving \in Slots \cup {0},
         \A j \in Slots : f.calls[j] = NoCall => a[j].result = "none" /\ serving # j
  PROVE  Accord(BeginIfReady(f), a, w)
<1> DEFINE g == BeginIfReady(f)
<1> SUFFICES Accord(g, a, w)
  OBVIOUS
<1> HIDE DEF g
<1>1. CASE g = f
  BY <1>1
<1>2. CASE Begins(f, g)
  <2> DEFINE call == Pending("begin", f.user, None)
  <2>1. call.op = "begin" /\ NoCall.op = "none"
    BY PendingTypes DEF Pending
  <2> HIDE DEF call
  <2>2. PICK i \in Slots : /\ f.calls[i] = NoCall /\ g.calls[i] = call
                           /\ \A j \in Slots \ {i} : g.calls[j] = f.calls[j]
    BY <1>2 DEF Begins, Takes, call
  <2>3. f.attempt = None /\ g.attempt = None /\ ~Has(f, "begin") /\ Quiet /\ ~Given(f, a)
    BY <1>2 DEF Begins, Steady, Accord, Core, Unbound, Shape, Given, Has
  <2>4. Has(g, "begin") /\ Clean(g)
    BY <1>2, <2>1, <2>2 DEF Has, Clean, Begins
  <2>5. Unbound(g)
    BY <1>2, <2>4 DEF Unbound, Begins, Shape
  <2>6. Turns(f, a, g, a)
    BY <2>1, <2>2 DEF Turns
  <2>7. \A j \in Slots : f.calls[j] \in Calls
    BY DEF Feature
  <2>8. \A j \in Slots :
           \/ g.calls[j] = f.calls[j]
           \/ /\ g.calls[j].op \in Dull \/ (g.calls[j].op = "begin" /\ Quiet)
              /\ g.calls[j].op = "listUsers" /\ g.calls[j].arg = "Idle" => phase = "Idle"
              /\ ~Waits(f, a, j, "cancel")
              /\ f.calls[j].op = "begin" => a[j].result # "ok"
    BY <2>1, <2>2, <2>3 DEF Waits
  <2> QED
    BY <2>3, <2>4, <2>5, <2>6, <2>7, <2>8, LooseTurn
<1> QED
  BY <1>1, <1>2, BeginForm DEF g


\* A new call takes a free slot, which the backend does not look at.
LEMMA TakesTurns ==
  ASSUME NEW f, NEW g, NEW a, NEW call, Takes(f, g, call), call.op # "none",
         \A j \in Slots : f.calls[j] = NoCall => a[j].result = "none" /\ serving # j
  PROVE  Turns(f, a, g, a)
<1>1. NoCall.op = "none"
  BY PendingTypes
<1> QED
  BY <1>1 DEF Takes, Turns

\* The other slots keep their calls.
LEMMA TakesCalls ==
  ASSUME NEW f, NEW g, NEW call, Takes(f, g, call)
  PROVE  /\ \A j \in Slots :
              g.calls[j] = f.calls[j] \/ (g.calls[j] = call /\ f.calls[j] = NoCall)
         /\ Has(g, call.op)
BY DEF Takes, Has

\* The bound conversation is given up.
LEMMA CancelTurn ==
  ASSUME NEW f, NEW g, NEW a, NEW w, NEW u,
         Accord(f, a, w), Steady(f), f.attempt # None, ~Has(f, "start"),
         serving \in Slots \cup {0},
         \A j \in Slots : f.calls[j] = NoCall => a[j].result = "none" /\ serving # j,
         f.mode \in {"prompting", "error"} \/ (f.mode = "submitting" /\ f.prompt.kind = "info"),
         Shape(g, None, f.service, "submitting", "none", NoPrompt, f.user), Holds(f, g),
         Takes(f, g, Pending("cancel", u, f.attempt))
  PROVE  Accord(g, a, w)
<1> DEFINE call == Pending("cancel", u, f.attempt)
<1>1. call.op = "cancel" /\ call.key = f.attempt /\ Takes(f, g, call)
  BY DEF Pending
<1> HIDE DEF call
<1>2. /\ Turns(f, a, g, a) /\ Has(g, "cancel")
      /\ \A j \in Slots : g.calls[j] = f.calls[j] \/ (g.calls[j] = call /\ f.calls[j] = NoCall)
  BY <1>1, TakesTurns, TakesCalls
<1>3. PICK k \in Slots : g.calls[k] = call /\ f.calls[k] = NoCall
  BY <1>1 DEF Takes
<1>4. f.attempt = lastAttempt /\ ~Given(f, a)
  BY DEF Accord, Core, Bound, Steady, Given, Has
<1>5. g.attempt = None /\ ~Given(g, a) /\ ~Live(g, a) /\ ~Taken(g, a)
  BY <1>1, <1>2, <1>4 DEF Given, Live, Taken, Shape
<1>6. Known(g, a)
  <2>1. phase # "HandingOff"
    BY DEF Accord, Core, Known, Has
  <2>2. Waits(g, a, k, "cancel") /\ g.calls[k].key = lastAttempt
    BY <1>1, <1>3, <1>4 DEF Waits
  <2> QED
    BY <2>1, <2>2 DEF Known
<1>7. ASSUME NEW i \in Slots
      PROVE  CallFits(g, a, i)
  <2>1. CASE g.calls[i] = f.calls[i]
    <3>1. CallFits(f, a, i) /\ f.calls[i].op # "start"
      BY DEF Accord, Core, Has
    <3>2. ~Waits(f, a, i, "respond")
      BY <3>1 DEF CallFits
    <3> QED
      BY <1>5, <2>1, <3>1, <3>2 DEF CallFits, Waits
  <2>2. CASE g.calls[i] = call /\ f.calls[i] = NoCall
    BY <1>1, <2>2 DEF CallFits, Waits
  <2> QED
    BY <1>2, <2>1, <2>2
<1>8. Flows(g, a, g.queued \o w, 0)
  BY <1>5 DEF Flows, Decides, Echoes, Announced
<1>9. Unbound(g) /\ Bound(g) /\ Late(g, a, w)
  BY <1>2, <1>5 DEF Unbound, Bound, Late, Shape
<1>10. Carried(g) /\ Clean(g)
  <2>1. serving \in Slots => g.calls[serving] = f.calls[serving]
    BY <1>2 DEF Turns
  <2> QED
    BY <2>1 DEF Accord, Carried, Clean, Holds
<1> QED
  BY <1>6, <1>7, <1>8, <1>9, <1>10 DEF Accord, Core

-----------------------------------------------------------------------------
(* What the user does.                                                      *)

\* What the steps of the interface start from.
LEMMA Grounds ==
  ASSUME Inv, Agreement
  PROVE  /\ ui \in Feature /\ Sound(ui) /\ Steady(ui) /\ Replied(answers)
         /\ serving \in Slots \cup {0}
         /\ \A j \in Slots : ui.calls[j] \in Calls
         /\ ui.startInFlight <=> Has(ui, "start")
         /\ Once(ui, "start")
         /\ online =>
              /\ Orderly(ui) /\ Accord(ui, answers, wire) /\ ServingFits
              /\ \A j \in Slots : ui.calls[j] = NoCall => answers[j].result = "none" /\ serving # j
<1>1. ui \in Feature /\ Sound(ui) /\ Steady(ui) /\ Replied(answers) /\ serving \in Slots \cup {0}
      /\ (ui.startInFlight <=> Has(ui, "start")) /\ Once(ui, "start")
  BY DEF Inv, Sound, BusFits, Agreement
<1>2. \A j \in Slots : ui.calls[j] \in Calls
  BY <1>1 DEF Feature
<1>3. NoCall.op = "none" /\ NoAnswer.result = "none"
  BY PendingTypes, NoAnswerIs
<1>4. ASSUME online
      PROVE  /\ Orderly(ui) /\ Accord(ui, answers, wire) /\ ServingFits
             /\ \A j \in Slots : ui.calls[j] = NoCall => answers[j].result = "none" /\ serving # j
  <2>1. Orderly(ui) /\ ServingFits /\ AnswersFit /\ Accord(ui, answers, wire)
    BY <1>4 DEF Inv, Agreement
  <2>2. ASSUME NEW j \in Slots, ui.calls[j] = NoCall
        PROVE  answers[j].result = "none" /\ serving # j
    <3>1. answers[j] = NoAnswer
      BY <1>3, <2>1, <2>2 DEF AnswersFit
    <3>2. serving # j
      BY <1>3, <2>1, <2>2, SlotsAssumption DEF ServingFits
    <3> QED
      BY <1>3, <3>1, <3>2
  <2> QED
    BY <2>1, <2>2
<1> QED
  BY <1>1, <1>2, <1>4

\* The account picker with an account chosen.
Chosen(f, u) ==
  [f EXCEPT !.mode = "userSelection", !.user = u, !.prompt = NoPrompt,
            !.recovery = "none", !.promptError = FALSE]

\* Choosing an account shows it, and opens its conversation if that can be done.
LEMMA ChosenIs ==
  ASSUME NEW f \in Feature, NEW u \in Users
  PROVE  /\ Chosen(f, u) \in Feature
         /\ Shape(Chosen(f, u), f.attempt, f.service, "userSelection", "none", NoPrompt, u)
         /\ Holds(f, Chosen(f, u)) /\ Chosen(f, u).calls = f.calls
         /\ ChooseUser(f, u) = BeginIfReady(Chosen(f, u))
<1> DEFINE h == Chosen(f, u)
<1>1. f \in Feature /\ NoPrompt \in Prompts
  BY DEF Prompts
<1>2. h \in Feature
  BY <1>1, Literals, ZenonT(40) DEF Feature, Chosen
<1>3. /\ Shape(h, f.attempt, f.service, "userSelection", "none", NoPrompt, u)
      /\ Holds(f, h) /\ h.calls = f.calls
  BY <1>1 DEF Feature, Shape, Holds, Chosen
<1>4. ChooseUser(f, u) = BeginIfReady(h)
  BY DEF ChooseUser, Chosen
<1> QED
  BY <1>2, <1>3, <1>4

\* An account is chosen while no conversation runs.
LEMMA ChooseAgree ==
  ASSUME NEW f \in Feature, NEW a, NEW w, NEW u \in Users, FreeSlots(f) # {}, Steady(f),
         ~Has(f, "begin"), ~Has(f, "cancel"), f.attempt = None, f.service = "ready",
         serving \in Slots \cup {0},
         online =>
           /\ Accord(f, a, w) /\ Quiet
           /\ \A j \in Slots : f.calls[j] = NoCall => a[j].result = "none" /\ serving # j
  PROVE  Steady(ChooseUser(f, u)) /\ (online => Accord(ChooseUser(f, u), a, w))
<1> DEFINE g == ChooseUser(f, u)
           h == Chosen(f, u)
<1>1. h \in Feature /\ g = BeginIfReady(h)
  BY ChosenIs
<1>4. /\ Shape(h, None, "ready", "userSelection", "none", NoPrompt, u)
      /\ Holds(f, h) /\ h.calls = f.calls
  BY ChosenIs
<1> HIDE DEF h, g
<1>5. FreeSlots(h) # {} /\ (\A op : (Has(h, op) <=> Has(f, op)) /\ (Once(h, op) <=> Once(f, op)))
  BY <1>4 DEF FreeSlots, Has, Once
<1>6. Steady(h)
  BY <1>4, <1>5 DEF Steady, Shape
<1>7. ASSUME online
      PROVE  Accord(h, a, w)
  <2>1. Unbound(h) /\ Clean(h)
    BY <1>4, <1>7 DEF Unbound, Clean, Shape, Holds, Accord
  <2>2. Turns(f, a, h, a)
    BY <1>4 DEF Turns
  <2>3. h.attempt = None /\ h.queued = f.queued
    BY <1>4 DEF Shape, Holds
  <2>4. \A j \in Slots : f.calls[j] \in Calls
    BY DEF Feature
  <2> QED
    BY <1>4, <1>7, <2>1, <2>2, <2>3, <2>4, LooseTurn
<1>8. \A j \in Slots : online /\ h.calls[j] = NoCall => a[j].result = "none" /\ serving # j
  BY <1>4
<1>9. Steady(g) /\ (online => Accord(g, a, w))
  BY <1>1, <1>5, <1>6, <1>7, <1>8, SteadyBegin, AccordBegin
<1> QED
  BY <1>9 DEF g

\* The account is chosen.
LEMMA SelectUserAgree ==
  ASSUME Inv, Agreement, FreeSlots(ui) # {}, NEW u \in Users, SelectUser(u)
  PROVE  Steady(ui') /\ (online => Accord(ui', answers, wire))
<1>0. ui \in Feature /\ NoPrompt \in Prompts /\ NoPrompt.kind = "none"
  BY Grounds DEF Prompts, NoPrompt
<1>1. /\ Steady(ui) /\ serving \in Slots \cup {0}
      /\ ui.startInFlight <=> Has(ui, "start")
      /\ online =>
           /\ Orderly(ui) /\ Accord(ui, answers, wire)
           /\ \A j \in Slots : ui.calls[j] = NoCall => answers[j].result = "none" /\ serving # j
  BY Grounds
<1> HIDE DEF Inv, Agreement
<1>2. CanSelectUser(ui)
  BY DEF SelectUser
<1>3. ~Has(ui, "begin") /\ ~Has(ui, "cancel")
  BY <1>0, <1>1, <1>2 DEF CanSelectUser, Steady
<1>4. CASE ui.attempt = None
  <2>1. ui' = ChooseUser(ui, u) /\ ui.service = "ready"
    BY <1>2, <1>4 DEF SelectUser, CanSelectUser
  <2>2. online => Quiet
    BY <1>1, <1>2, <1>3, <1>4 DEF Accord, Core, Unbound, CanSelectUser
  <2> QED
    BY <1>0, <1>1, <1>3, <1>4, <2>1, <2>2, ChooseAgree
<1>5. CASE ui.attempt # None
  <2> DEFINE h == [ui EXCEPT !.attempt = None, !.mode = "submitting", !.prompt = NoPrompt,
                             !.recovery = "none", !.promptError = FALSE]
             call == Pending("cancel", u, ui.attempt)
  <2>1. ui' = Await(h, call)
    BY <1>5 DEF SelectUser, CancelCall
  <2>2. h \in Feature
    BY <1>0, Literals, ZenonT(40) DEF Feature
  <2>3. /\ Shape(h, None, ui.service, "submitting", "none", NoPrompt, ui.user)
        /\ Holds(ui, h) /\ h.calls = ui.calls
    BY <1>0 DEF Feature, Shape, Holds
  <2>4. call \in Calls
    BY <1>0, <1>5, PendingTypes DEF Feature
  <2>5. call.op = "cancel"
    BY DEF Pending
  <2> HIDE DEF h
  <2>6. Stays(h, ui') /\ Takes(ui, ui', call)
    BY <2>1, <2>2, <2>3, <2>4, AwaitAfter
  <2>7. Shape(ui', None, ui.service, "submitting", "none", NoPrompt, ui.user) /\ Holds(ui, ui')
    BY <2>3, <2>6 DEF Stays, Shape, Holds
  <2>8. Steady(ui')
    <3>0. NoCall.op = "none"
      BY PendingTypes
    <3> HIDE DEF call
    <3>1. ~Has(ui', "begin") /\ Once(ui', "begin") /\ Once(ui', "cancel")
      BY <1>3, <2>5, <2>6, <3>0 DEF Takes, Has, Once
    <3> QED
      BY <2>7, <3>1 DEF Steady, Shape
  <2>9. ASSUME online
        PROVE  Accord(ui', answers, wire)
    <3>1. ~Has(ui, "start")
      BY <1>1, <1>2 DEF CanSelectUser
    <3>2. ui.mode \in {"prompting", "error"} \/ (ui.mode = "submitting" /\ ui.prompt.kind = "info")
      BY <1>1, <1>2, <1>5, <2>9 DEF CanSelectUser, Accord, Core, Bound
    <3> QED
      BY <1>1, <1>5, <2>6, <2>7, <2>9, <3>1, <3>2, CancelTurn
  <2> QED
    BY <2>8, <2>9
<1> QED
  BY <1>4, <1>5


\* The recovery that was offered is withdrawn.
LEMMA WithdrawAgree ==
  ASSUME NEW f, NEW h, NEW a, NEW w, Steady(f), \A j \in Slots : f.calls[j] \in Calls,
         serving \in Slots \cup {0}, online => Accord(f, a, w),
         Shape(h, f.attempt, f.service, f.mode, "none", f.prompt, f.user), Holds(f, h),
         h.calls = f.calls
  PROVE  Steady(h) /\ (online => Accord(h, a, w))
<1>1. \A op : (Has(h, op) <=> Has(f, op)) /\ (Once(h, op) <=> Once(f, op))
  BY DEF Has, Once
<1>2. Steady(h)
  BY <1>1 DEF Steady, Shape, Holds
<1>3. ASSUME online
      PROVE  Accord(h, a, w)
  <2>1. Turns(f, a, h, a)
    BY DEF Turns
  <2>2. CASE f.attempt = None
    <3>1. Unbound(h) /\ Clean(h) /\ h.attempt = None /\ h.queued = f.queued
      BY <1>1, <1>3, <2>2 DEF Accord, Core, Unbound, Clean, Shape, Holds
    <3> QED
      BY <1>3, <2>1, <2>2, <3>1, LooseTurn
  <2>3. CASE f.attempt # None
    <3>1. ~Has(f, "begin") /\ ~Has(f, "cancel")
      BY <2>3 DEF Steady
    <3>2. Bound(h) /\ h.attempt = f.attempt /\ h.mode = f.mode /\ h.prompt = f.prompt
      BY <1>3 DEF Accord, Core, Bound, Shape
    <3>3. Taken(h, a) <=> Taken(f, a)
      BY <3>2 DEF Taken, Waits
    <3> QED
      BY <1>3, <2>1, <2>3, <3>1, <3>2, <3>3, BoundTurn DEF Echoes
  <2> QED
    BY <2>2, <2>3
<1> QED
  BY <1>2, <1>3

\* A session is chosen.
LEMMA SelectSessionAgree ==
  ASSUME Inv, Agreement, FreeSlots(ui) # {}, NEW s \in Sessions, SelectSession(s)
  PROVE  Steady(ui') /\ (online => Accord(ui', answers, wire))
<1>0. ui \in Feature /\ s \in Sessions
  BY Grounds
<1>1. /\ Steady(ui) /\ serving \in Slots \cup {0} /\ \A j \in Slots : ui.calls[j] \in Calls
      /\ online =>
           /\ Accord(ui, answers, wire)
           /\ \A j \in Slots : ui.calls[j] = NoCall => answers[j].result = "none" /\ serving # j
  BY Grounds
<1> HIDE DEF Inv, Agreement
<1> DEFINE h == [ui EXCEPT !.session = s, !.recovery = "none", !.promptError = FALSE]
<1>2. ui' = BeginIfReady(h)
  BY DEF SelectSession
<1>3. h \in Feature
  BY <1>0, Literals, ZenonT(40) DEF Feature
<1>4. /\ Shape(h, ui.attempt, ui.service, ui.mode, "none", ui.prompt, ui.user)
      /\ Holds(ui, h) /\ h.calls = ui.calls
  BY <1>0 DEF Feature, Shape, Holds
<1> HIDE DEF h
<1>5. Steady(h) /\ (online => Accord(h, answers, wire))
  BY <1>1, <1>4, WithdrawAgree
<1>6. FreeSlots(h) # {}
  BY <1>4 DEF FreeSlots
<1>7. \A j \in Slots : online /\ h.calls[j] = NoCall => answers[j].result = "none" /\ serving # j
  BY <1>1, <1>4
<1> QED
  BY <1>1, <1>2, <1>3, <1>5, <1>6, <1>7, SteadyBegin, AccordBegin

\* The answer is sent, or found to be blank.
LEMMA RespondAgree ==
  ASSUME Inv, Agreement, FreeSlots(ui) # {}, NEW blank \in BOOLEAN, RespondToPrompt(blank)
  PROVE  Steady(ui') /\ (online => Accord(ui', answers, wire))
<1>0. ui \in Feature
  BY Grounds
<1>1. /\ Steady(ui) /\ serving \in Slots \cup {0} /\ \A j \in Slots : ui.calls[j] \in Calls
      /\ online =>
           /\ Accord(ui, answers, wire)
           /\ \A j \in Slots : ui.calls[j] = NoCall => answers[j].result = "none" /\ serving # j
  BY Grounds
<1>2. ui.attempt # None /\ ui.mode = "prompting" /\ ui.attempt \in Attempts
  BY <1>0 DEF RespondToPrompt, Feature
<1>3. ~Has(ui, "begin") /\ ~Has(ui, "cancel") /\ ui.prompt.attempt = ui.attempt /\ ui.prompt.kind = "input"
  BY <1>1, <1>2 DEF Steady
<1>4. online => /\ phase = "WaitingForInput" /\ ui.attempt = lastAttempt /\ ui.service = "ready"
                /\ ui.prompt = [attempt |-> lastAttempt, kind |-> "input", number |-> asked]
  BY <1>1, <1>2 DEF Accord, Core, Bound
<1>5. online => \A j \in Slots : ~Waits(ui, answers, j, "respond") /\ ~Waits(ui, answers, j, "start")
  BY <1>1, <1>2 DEF Accord, Core, CallFits
<1>6. Taken(ui, answers)
  BY <1>2 DEF Taken
<1>7. CASE blank
  <2> DEFINE g == [ui EXCEPT !.mode = "error", !.recovery = "retryPrompt", !.promptError = FALSE]
  <2>1. ui' = g
    BY <1>7 DEF RespondToPrompt, ShowAuthError
  <2>2. /\ Shape(g, ui.attempt, ui.service, "error", "retryPrompt", ui.prompt, ui.user)
        /\ Holds(ui, g) /\ g.calls = ui.calls
    BY <1>0 DEF Feature, Shape, Holds
  <2> HIDE DEF g
  <2>3. \A op : (Has(g, op) <=> Has(ui, op)) /\ (Once(g, op) <=> Once(ui, op))
    BY <2>2 DEF Has, Once
  <2>4. Steady(g)
    BY <1>1, <1>2, <1>3, <2>2, <2>3 DEF Steady, Shape
  <2>5. ASSUME online
        PROVE  Accord(g, answers, wire)
    <3>1. Turns(ui, answers, g, answers)
      BY <2>2 DEF Turns
    <3>2. Bound(g) /\ Taken(g, answers) /\ g.attempt = ui.attempt
      BY <1>2, <1>4, <2>2, <2>5 DEF Bound, Shape, Taken
    <3> QED
      BY <1>1, <1>2, <1>3, <1>5, <1>6, <2>2, <2>5, <3>1, <3>2, BoundTurn
  <2> QED
    BY <2>1, <2>4, <2>5
<1>8. CASE ~blank
  <2> DEFINE h == [ui EXCEPT !.mode = "submitting", !.recovery = "none", !.promptError = FALSE]
             call == Pending("respond", ui.prompt.number, ui.attempt)
  <2>0. PICK g : g = ui'
    OBVIOUS
  <2>1. g = Await(h, call)
    BY <1>8, <2>0 DEF RespondToPrompt
  <2>2. h \in Feature
    BY <1>0, Literals, ZenonT(40) DEF Feature
  <2>3. /\ Shape(h, ui.attempt, ui.service, "submitting", "none", ui.prompt, ui.user)
        /\ Holds(ui, h) /\ h.calls = ui.calls
    BY <1>0 DEF Feature, Shape, Holds
  <2>4. call \in Calls
    <3>1. ui.prompt \in Prompts /\ ui.prompt # NoPrompt
      BY <1>0, <1>3 DEF Feature, NoPrompt
    <3>2. ui.prompt.number \in Nat
      BY <3>1 DEF Prompts
    <3> QED
      BY <1>2, <3>2, PendingTypes
  <2>5. call.op = "respond" /\ call.arg = ui.prompt.number /\ call.key = ui.attempt
    BY DEF Pending
  <2> HIDE DEF h, call
  <2>6. Stays(h, g) /\ Takes(ui, g, call)
    BY <2>1, <2>2, <2>3, <2>4, AwaitAfter
  <2>7. Shape(g, ui.attempt, ui.service, "submitting", "none", ui.prompt, ui.user) /\ Holds(ui, g)
    BY <2>3, <2>6 DEF Stays, Shape, Holds
  <2>8. Steady(g)
    <3>1. \A j \in Slots : g.calls[j] = ui.calls[j] \/ ~Conversations(g.calls[j])
      BY <2>5, <2>6 DEF Takes, Conversations
    <3>2. /\ Once(g, "begin") /\ Once(g, "cancel") /\ ~Has(g, "begin") /\ ~Has(g, "cancel")
      BY <1>1, <1>3, <2>7, <3>1, SteadyKept DEF Holds
    <3> QED
      BY <2>7, <3>2 DEF Steady, Shape
  <2>9. ASSUME online
        PROVE  Accord(g, answers, wire)
    <3>1. /\ Turns(ui, answers, g, answers)
          /\ \A j \in Slots :
               g.calls[j] = ui.calls[j] \/ (g.calls[j] = call /\ ui.calls[j] = NoCall)
      <4>1. \A j \in Slots : ui.calls[j] = NoCall => answers[j].result = "none" /\ serving # j
        BY <1>1, <2>9
      <4>2. Takes(ui, g, call) /\ call.op # "none"
        BY <2>5, <2>6
      <4> QED
        BY <4>1, <4>2, TakesTurns, TakesCalls
    <3>2. PICK k \in Slots : g.calls[k] = call /\ ui.calls[k] = NoCall
                             /\ \A j \in Slots \ {k} : g.calls[j] = ui.calls[j]
      BY <2>6 DEF Takes
    <3>3. Waits(g, answers, k, "respond")
      BY <1>1, <2>5, <2>9, <3>2 DEF Waits
    <3>4. \A j \in Slots : Waits(g, answers, j, "respond") => j = k
      BY <1>5, <2>9, <3>2 DEF Waits
    <3>5. ~Given(g, answers)
      BY <1>3, <2>5, <3>1 DEF Given, Has
    <3>6. lastAttempt <= lastAttempt
      BY <1>2, <1>4, <2>9 DEF Attempts
    <3>7. CallFits(g, answers, k)
      BY <1>3, <1>4, <2>5, <2>7, <2>9, <3>2, <3>4, <3>5, <3>6 DEF CallFits, Waits, Shape
    <3>8. Bound(g) /\ Taken(g, answers) /\ g.attempt = ui.attempt
      BY <1>2, <1>4, <2>7, <2>9, <3>3 DEF Bound, Shape, Taken
    <3>9. \A j \in Slots :
            \/ g.calls[j] = ui.calls[j]
            \/ g.calls[j].op \in {"respond", "start"} /\ CallFits(g, answers, j)
      BY <2>5, <3>2, <3>7
    <3>10. \A j \in Slots : ui.calls[j].op = "start" => g.calls[j] = ui.calls[j]
      BY <3>1, PendingTypes
    <3> QED
      BY <1>1, <1>2, <1>3, <1>5, <1>6, <2>7, <2>9, <3>1, <3>8, <3>9, <3>10, BoundTurn
  <2> QED
    BY <2>0, <2>8, <2>9
<1> QED
  BY <1>7, <1>8


\* Fields nobody here looks at are set.
LEMMA StaysAgree ==
  ASSUME NEW f, NEW h, NEW a, NEW w, Steady(f), \A j \in Slots : f.calls[j] \in Calls,
         serving \in Slots \cup {0}, online => Accord(f, a, w), Stays(f, h), h.calls = f.calls
  PROVE  Steady(h) /\ (online => Accord(h, a, w))
<1>1. Steady(h)
  BY SteadyStays
<1>2. Turns(f, a, h, a)
  BY DEF Turns
<1> QED
  BY <1>1, <1>2, StaysTurn

\* A call that concerns no conversation is made.
LEMMA AsideAgree ==
  ASSUME NEW f, NEW h \in Feature, NEW a, NEW w, NEW call \in Calls, Steady(f),
         \A j \in Slots : f.calls[j] \in Calls, FreeSlots(f) # {},
         serving \in Slots \cup {0},
         online =>
           /\ Accord(f, a, w)
           /\ \A j \in Slots : f.calls[j] = NoCall => a[j].result = "none" /\ serving # j,
         Stays(f, h), h.calls = f.calls, call.op \in {"listSessions", "powerAction"}
  PROVE  Steady(Await(h, call)) /\ (online => Accord(Await(h, call), a, w))
<1> DEFINE g == Await(h, call)
<1>1. Stays(h, g) /\ Takes(f, g, call)
  BY AwaitAfter
<1> HIDE DEF g
<1>2. Stays(f, g)
  BY <1>1 DEF Stays, Shape, Holds
<1>3. \A j \in Slots : g.calls[j] = f.calls[j] \/ (g.calls[j] = call /\ f.calls[j] = NoCall)
  BY <1>1, TakesCalls
<1>4. NoCall.op = "none"
  BY PendingTypes
<1>5. Steady(g)
  BY <1>2, <1>3, SteadyStays DEF Conversations
<1>6. ASSUME online
      PROVE  Accord(g, a, w)
  <2>1. Turns(f, a, g, a)
    BY <1>1, <1>6, TakesTurns
  <2>2. \A j \in Slots :
           \/ g.calls[j] = f.calls[j]
           \/ /\ g.calls[j].op \in Dull
              /\ f.attempt # None => g.calls[j].op \notin {"getState", "listUsers"}
              /\ g.calls[j].op = "listUsers" /\ g.calls[j].arg = "Idle" => phase = "Idle"
              /\ \/ f.calls[j].op \in Dull \cup {"respond"}
                 \/ f.calls[j].op = "start" /\ a[j].result = "error"
              /\ ~Waits(f, a, j, "respond")
    BY <1>3, <1>4 DEF Dull, Waits
  <2> QED
    BY <1>2, <1>6, <2>1, <2>2, StaysTurn
<1> QED
  BY <1>5, <1>6 DEF g

\* The sessions are loaded again.
LEMMA RetryCatalogAgree ==
  ASSUME Inv, Agreement, FreeSlots(ui) # {}, RetrySessionCatalog
  PROVE  Steady(ui') /\ (online => Accord(ui', answers, wire))
<1>0. ui \in Feature
  BY Grounds
<1>1. /\ Steady(ui) /\ serving \in Slots \cup {0} /\ \A j \in Slots : ui.calls[j] \in Calls
      /\ online =>
           /\ Accord(ui, answers, wire)
           /\ \A j \in Slots : ui.calls[j] = NoCall => answers[j].result = "none" /\ serving # j
  BY Grounds
<1> HIDE DEF Inv, Agreement
<1> DEFINE h == [ui EXCEPT !.generation = @ + 1, !.catalog = "loading"]
           call == Pending("listSessions", None, ui.generation + 1)
<1>2. ui' = Await(h, call) /\ ui.generation < MaxLoads
  BY DEF RetrySessionCatalog, LoadSessionCatalog
<1>3. ui.generation + 1 \in 0..MaxLoads /\ ui.generation + 1 \in Nat
  BY <1>0, <1>2, LoadsAssumption DEF Feature
<1>4. h \in Feature
  BY <1>0, <1>3 DEF Feature
<1>5. Stays(ui, h) /\ h.calls = ui.calls
  BY <1>0 DEF Feature, Stays, Shape, Holds
<1>6. call \in Calls /\ call.op = "listSessions"
  BY <1>3, PendingTypes DEF Pending
<1> HIDE DEF h, call
<1> QED
  BY <1>1, <1>2, <1>4, <1>5, <1>6, AsideAgree

\* A power action is asked for.
LEMMA PowerAgree ==
  ASSUME Inv, Agreement, FreeSlots(ui) # {}, RequestPowerAction
  PROVE  Steady(ui') /\ (online => Accord(ui', answers, wire))
<1>0. ui \in Feature
  BY Grounds
<1>1. /\ Steady(ui) /\ serving \in Slots \cup {0} /\ \A j \in Slots : ui.calls[j] \in Calls
      /\ online =>
           /\ Accord(ui, answers, wire)
           /\ \A j \in Slots : ui.calls[j] = NoCall => answers[j].result = "none" /\ serving # j
  BY Grounds
<1> HIDE DEF Inv, Agreement
<1> DEFINE h == [ui EXCEPT !.power = "executing"]
           call == Pending("powerAction", None, None)
<1>2. ui' = Await(h, call)
  BY DEF RequestPowerAction
<1>4. h \in Feature
  BY <1>0 DEF Feature
<1>5. Stays(ui, h) /\ h.calls = ui.calls
  BY <1>0 DEF Feature, Stays, Shape, Holds
<1>6. call \in Calls /\ call.op = "powerAction"
  BY PendingTypes DEF Pending
<1> HIDE DEF h, call
<1> QED
  BY <1>1, <1>2, <1>4, <1>5, <1>6, AsideAgree

\* The form is hidden.
LEMMA SleepAgree ==
  ASSUME Inv, Agreement, SleepGreeter
  PROVE  Steady(ui') /\ (online => Accord(ui', answers, wire))
<1>0. ui \in Feature
  BY Grounds
<1>1. /\ Steady(ui) /\ serving \in Slots \cup {0} /\ \A j \in Slots : ui.calls[j] \in Calls
      /\ online => Accord(ui, answers, wire)
  BY Grounds
<1> HIDE DEF Inv, Agreement
<1>2. Stays(ui, ui') /\ ui'.calls = ui.calls
  BY <1>0 DEF SleepGreeter, Feature, Stays, Shape, Holds
<1> QED
  BY <1>1, <1>2, StaysAgree

\* The form is shown, which may begin a conversation.
LEMMA WakeAgree ==
  ASSUME Inv, Agreement, FreeSlots(ui) # {}, WakeGreeter
  PROVE  Steady(ui') /\ (online => Accord(ui', answers, wire))
<1>0. ui \in Feature
  BY Grounds
<1>1. /\ Steady(ui) /\ serving \in Slots \cup {0} /\ \A j \in Slots : ui.calls[j] \in Calls
      /\ online =>
           /\ Accord(ui, answers, wire)
           /\ \A j \in Slots : ui.calls[j] = NoCall => answers[j].result = "none" /\ serving # j
  BY Grounds
<1> HIDE DEF Inv, Agreement
<1> DEFINE h == [ui EXCEPT !.dormant = FALSE]
<1>2. ui' = BeginIfReady(h)
  BY DEF WakeGreeter
<1>3. h \in Feature
  BY <1>0, Literals DEF Feature
<1>4. Stays(ui, h) /\ h.calls = ui.calls
  BY <1>0 DEF Feature, Stays, Shape, Holds
<1> HIDE DEF h
<1>5. Steady(h) /\ (online => Accord(h, answers, wire))
  BY <1>1, <1>4, StaysAgree
<1>6. FreeSlots(h) # {}
  BY <1>4 DEF FreeSlots
<1>7. \A j \in Slots : online /\ h.calls[j] = NoCall => answers[j].result = "none" /\ serving # j
  BY <1>1, <1>4
<1> QED
  BY <1>1, <1>2, <1>3, <1>5, <1>6, <1>7, SteadyBegin, AccordBegin

\* The user starts the session.
LEMMA StartSelectedAgree ==
  ASSUME Inv, Agreement, FreeSlots(ui) # {}, ui.mode = "sessionSelection", StartSelectedSession
  PROVE  Steady(ui') /\ (online => Accord(ui', answers, wire))
<1>0. ui \in Feature
  BY Grounds
<1>1. /\ Steady(ui) /\ serving \in Slots \cup {0} /\ \A j \in Slots : ui.calls[j] \in Calls
      /\ online =>
           /\ Accord(ui, answers, wire)
           /\ \A j \in Slots : ui.calls[j] = NoCall => answers[j].result = "none" /\ serving # j
  BY Grounds
<1> HIDE DEF Inv, Agreement
<1>2. PICK g : g = StartSession(ui) /\ g = ui'
  BY DEF StartSelectedSession
<1>3. ui.attempt # None /\ ui.attempt \in Attempts /\ ~Has(ui, "begin") /\ ~Has(ui, "cancel")
  BY <1>0, <1>1 DEF Steady, Feature
<1> DEFINE call == Pending("start", ui.session, ui.attempt)
<1>4. call.op = "start" /\ call.key = ui.attempt
  BY DEF Pending
<1>5. \/ g = ui
      \/ /\ Shape(g, ui.attempt, ui.service, "submitting", ui.recovery, ui.prompt, ui.user)
         /\ Holds(ui, g) /\ Takes(ui, g, call)
  BY <1>0, <1>2, StartForm
<1> HIDE DEF call
<1>6. CASE g = ui
  BY <1>1, <1>2, <1>6
<1>7. CASE g # ui
  <2>1. /\ Shape(g, ui.attempt, ui.service, "submitting", ui.recovery, ui.prompt, ui.user)
        /\ Holds(ui, g) /\ Takes(ui, g, call)
    BY <1>5, <1>7
  <2>2. \A j \in Slots : g.calls[j] = ui.calls[j] \/ (g.calls[j] = call /\ ui.calls[j] = NoCall)
    BY <2>1, TakesCalls
  <2>3. Steady(g)
    <3>1. \A j \in Slots : g.calls[j] = ui.calls[j] \/ ~Conversations(g.calls[j])
      BY <1>4, <2>2 DEF Conversations
    <3>2. /\ Once(g, "begin") /\ Once(g, "cancel") /\ ~Has(g, "begin") /\ ~Has(g, "cancel")
      BY <1>1, <1>3, <2>1, <3>1, SteadyKept DEF Holds
    <3> QED
      BY <1>1, <1>3, <2>1, <3>2 DEF Steady, Shape
  <2>4. ASSUME online
        PROVE  Accord(g, answers, wire)
    <3>1. Turns(ui, answers, g, answers)
      BY <1>1, <1>4, <2>1, <2>4, TakesTurns
    <3>2. PICK k \in Slots : g.calls[k] = call /\ ui.calls[k] = NoCall
                             /\ \A j \in Slots \ {k} : g.calls[j] = ui.calls[j]
      BY <2>1 DEF Takes
    <3>3. Waits(g, answers, k, "start")
      BY <1>1, <1>4, <2>4, <3>2 DEF Waits
    <3>4. phase = "Authenticated" /\ ui.attempt = lastAttempt
      BY <1>1, <1>3, <2>4 DEF Accord, Core, Bound
    <3>5. ~Given(g, answers)
      BY <1>3, <1>4, <2>2 DEF Given, Has
    <3>6. lastAttempt <= lastAttempt
      BY <1>3, <3>4 DEF Attempts
    <3>7. CallFits(g, answers, k)
      BY <1>4, <2>1, <3>2, <3>4, <3>5, <3>6 DEF CallFits, Waits, Shape
    <3>8. Bound(g) /\ Taken(g, answers) /\ Taken(ui, answers) /\ g.attempt = ui.attempt
      BY <1>1, <1>3, <2>1, <2>4, <3>3 DEF Bound, Shape, Taken, Accord, Core
    <3>9. \A j \in Slots :
            \/ g.calls[j] = ui.calls[j]
            \/ g.calls[j].op \in {"respond", "start"} /\ CallFits(g, answers, j)
      BY <1>4, <3>2, <3>7
    <3>10. \A j \in Slots : ui.calls[j].op = "start" => g.calls[j] = ui.calls[j]
      BY <2>2, PendingTypes
    <3>11. \A j \in Slots : ~Waits(ui, answers, j, "respond") /\ ~Waits(ui, answers, j, "start")
      BY <1>1, <2>4 DEF Accord, Core, CallFits
    <3> QED
      BY <1>1, <1>3, <2>1, <2>4, <3>1, <3>8, <3>9, <3>10, <3>11, BoundTurn
  <2> QED
    BY <1>2, <2>3, <2>4
<1> QED
  BY <1>6, <1>7


\* The form as it is when the user starts over.
Retried(f) ==
  [f EXCEPT !.attempt = None, !.service = "ready", !.mode = "userSelection",
            !.prompt = NoPrompt, !.recovery = "none", !.promptError = FALSE,
            !.catalog = CatalogShown(f)]

\* What it shows.
LEMMA RetriedIs ==
  ASSUME NEW f \in Feature
  PROVE  /\ Retried(f) \in Feature
         /\ Shape(Retried(f), None, "ready", "userSelection", "none", NoPrompt, f.user)
         /\ Holds(f, Retried(f)) /\ Retried(f).calls = f.calls
         /\ Retry(f) = BeginIfReady(Retried(f))
<1> DEFINE h1 == [f EXCEPT !.attempt = None, !.service = "ready", !.mode = "userSelection",
                           !.recovery = "none"]
           h2 == [h1 EXCEPT !.prompt = NoPrompt, !.promptError = FALSE]
           h == [h2 EXCEPT !.catalog = CatalogShown(f)]
<1>1. NoPrompt \in Prompts
  BY DEF Prompts
<1>2. h1 \in Feature
  BY ZenonT(40) DEF Feature
<1>3. CatalogShown(f) \in {"empty", "loading", "ready", "failed"}
  BY DEF CatalogShown, Feature
<1>4. h \in Feature
  <2> HIDE DEF h1
  <2>1. h2 \in Feature
    BY <1>1, <1>2, Literals DEF Feature
  <2> HIDE DEF h2
  <2> QED
    BY <1>3, <2>1 DEF Feature
<1>5. /\ Shape(h, None, "ready", "userSelection", "none", NoPrompt, f.user)
      /\ Holds(f, h) /\ h.calls = f.calls
  BY DEF Feature, Shape, Holds
<1>6. Retried(f) = h
  BY DEF Retried
<1>7. Retry(f) = BeginIfReady(Retried(f))
  BY DEF Retry, Retried
<1> HIDE DEF h
<1> QED
  BY <1>4, <1>5, <1>6, <1>7

\* The user starts over.
LEMMA RetryAgree ==
  ASSUME NEW f \in Feature, NEW a, NEW w, FreeSlots(f) # {}, Steady(f),
         f.recovery \in {"retryAuthentication", "retryPrompt"},
         serving \in Slots \cup {0},
         online =>
           /\ Accord(f, a, w) /\ f.attempt = None /\ Quiet
           /\ \A j \in Slots : f.calls[j] = NoCall => a[j].result = "none" /\ serving # j
  PROVE  Steady(Retry(f)) /\ (online => Accord(Retry(f), a, w))
<1> DEFINE h == Retried(f)
           g == Retry(f)
<1>4. g = BeginIfReady(h)
  BY RetriedIs
<1>5. /\ Shape(h, None, "ready", "userSelection", "none", NoPrompt, f.user)
      /\ Holds(f, h) /\ h.calls = f.calls
  BY RetriedIs
<1>6. h \in Feature
  BY RetriedIs
<1> HIDE DEF h, g
<1>7. ~Has(f, "begin") /\ ~Has(f, "cancel")
  BY DEF Steady
<1>8. FreeSlots(h) # {} /\ (\A op : (Has(h, op) <=> Has(f, op)) /\ (Once(h, op) <=> Once(f, op)))
  BY <1>5 DEF FreeSlots, Has, Once
<1>9. Steady(h)
  BY <1>5, <1>7, <1>8 DEF Steady, Shape
<1>10. ASSUME online
       PROVE  Accord(h, a, w)
  <2>1. Unbound(h) /\ Clean(h) /\ h.attempt = None /\ h.queued = f.queued
    BY <1>5, <1>10 DEF Unbound, Clean, Shape, Holds, Accord
  <2>2. Turns(f, a, h, a)
    BY <1>5 DEF Turns
  <2>3. \A j \in Slots : f.calls[j] \in Calls
    BY DEF Feature
  <2> QED
    BY <1>5, <1>10, <2>1, <2>2, <2>3, LooseTurn
<1>11. \A j \in Slots : online /\ h.calls[j] = NoCall => a[j].result = "none" /\ serving # j
  BY <1>5
<1>12. Steady(g) /\ (online => Accord(g, a, w))
  BY <1>4, <1>6, <1>8, <1>9, <1>10, <1>11, SteadyBegin, AccordBegin
<1> QED
  BY <1>12 DEF g

\* The button of a conversation that failed.
LEMMA RetryAuthenticationAgree ==
  ASSUME Inv, Agreement, FreeSlots(ui) # {}, ui.mode = "error",
         ui.recovery = "retryAuthentication", RetryAuthentication
  PROVE  Steady(ui') /\ (online => Accord(ui', answers, wire))
<1>0. ui \in Feature /\ ui' = Retry(ui)
  BY Grounds DEF RetryAuthentication
<1>1. /\ Steady(ui) /\ serving \in Slots \cup {0}
      /\ online =>
           /\ Accord(ui, answers, wire)
           /\ \A j \in Slots : ui.calls[j] = NoCall => answers[j].result = "none" /\ serving # j
  BY Grounds
<1> HIDE DEF Inv, Agreement
<1>2. online => ui.attempt = None /\ Quiet
  BY <1>1 DEF Accord, Core, Bound, Unbound
<1> QED
  BY <1>0, <1>1, <1>2, RetryAgree

\* The button of an answer that was blank.
LEMMA RetryPromptAgree ==
  ASSUME Inv, Agreement, FreeSlots(ui) # {}, ui.mode = "error", ui.recovery = "retryPrompt",
         RetryPrompt
  PROVE  Steady(ui') /\ (online => Accord(ui', answers, wire))
<1>0. ui \in Feature
  BY Grounds
<1>1. /\ Steady(ui) /\ serving \in Slots \cup {0}
      /\ online =>
           /\ Accord(ui, answers, wire)
           /\ \A j \in Slots : ui.calls[j] = NoCall => answers[j].result = "none" /\ serving # j
  BY Grounds
<1> HIDE DEF Inv, Agreement
<1>2. ASSUME online
      PROVE  ui.attempt # None /\ ui.prompt # NoPrompt
  BY <1>1, <1>2 DEF Accord, Core, Bound, Unbound, NoPrompt
<1>3. CASE ui.attempt = None \/ ui.prompt = NoPrompt
  <2>1. ui' = Retry(ui) /\ ~online
    BY <1>2, <1>3 DEF RetryPrompt
  <2>2. Steady(Retry(ui))
    BY <1>0, <1>1, <2>1, RetryAgree
  <2> QED
    BY <2>1, <2>2
<1>4. CASE ui.attempt # None /\ ui.prompt # NoPrompt
  <2> DEFINE h == [ui EXCEPT !.mode = "prompting", !.recovery = "none", !.promptError = FALSE]
  <2>0. PICK g : g = h
    OBVIOUS
  <2>1. ui' = g
    BY <1>4, <2>0 DEF RetryPrompt
  <2>2. /\ Shape(g, ui.attempt, ui.service, "prompting", "none", ui.prompt, ui.user)
        /\ Holds(ui, g) /\ g.calls = ui.calls
    BY <1>0, <2>0 DEF Feature, Shape, Holds
  <2> HIDE DEF h
  <2>3. \A op : (Has(g, op) <=> Has(ui, op)) /\ (Once(g, op) <=> Once(ui, op))
    BY <2>2 DEF Has, Once
  <2>4. Steady(g) /\ ~Has(ui, "begin") /\ ~Has(ui, "cancel")
    BY <1>1, <1>4, <2>2, <2>3 DEF Steady, Shape
  <2>5. ASSUME online
        PROVE  Accord(g, answers, wire)
    <3>1. Turns(ui, answers, g, answers)
      BY <2>2 DEF Turns
    <3>2. Bound(g) /\ Taken(ui, answers) /\ Taken(g, answers) /\ g.attempt = ui.attempt
      BY <1>1, <1>4, <2>2, <2>5 DEF Bound, Shape, Taken, Accord, Core
    <3>3. \A j \in Slots : ~Waits(ui, answers, j, "respond") /\ ~Waits(ui, answers, j, "start")
      BY <1>1, <2>5 DEF Accord, Core, CallFits
    <3> QED
      BY <1>1, <1>4, <2>2, <2>4, <2>5, <3>1, <3>2, <3>3, BoundTurn
  <2> QED
    BY <2>1, <2>4, <2>5
<1> QED
  BY <1>3, <1>4

\* The service is loaded again.
LEMMA ReconnectAgree ==
  ASSUME Inv, Agreement, FreeSlots(ui) # {},
         ui.service = "unavailable" \/ (ui.mode = "error" /\ ui.recovery = "reconnectService"),
         ReconnectService
  PROVE  Steady(ui') /\ (online => Accord(ui', answers, wire))
<1>1. /\ ui \in Feature /\ NoPrompt \in Prompts
      /\ ui.generation \in Nat
  BY Grounds DEF Prompts, Feature
<1>2. ui.generation + 1 \in 0..MaxLoads
  BY <1>1, LoadsAssumption DEF ReconnectService
<1>3. /\ Steady(ui) /\ serving \in Slots \cup {0} /\ \A j \in Slots : ui.calls[j] \in Calls
      /\ online =>
           /\ Orderly(ui) /\ Accord(ui, answers, wire)
           /\ \A j \in Slots : ui.calls[j] = NoCall => answers[j].result = "none" /\ serving # j
  BY Grounds
<1> HIDE DEF Inv, Agreement
<1> DEFINE h1 == [ui EXCEPT !.attempt = None, !.queued = <<>>, !.generation = @ + 1,
                            !.mode = "userSelection"]
           h2 == [h1 EXCEPT !.recovery = "none", !.catalog = "empty",
                            !.sessions = {}, !.user = None]
           h3 == [h2 EXCEPT !.session = None, !.prompt = NoPrompt, !.promptError = FALSE]
           h == [h3 EXCEPT !.service = "starting"]
           call == Pending("getState", None, None)
<1>4. PICK g : g = Await(h, call) /\ ui' = g
  BY DEF ReconnectService, LoadService
<1>5. /\ Shape(h, None, "starting", "userSelection", "none", NoPrompt, None)
      /\ h.beginInFlight = ui.beginInFlight /\ h.queued = <<>> /\ h.calls = ui.calls
  BY <1>1 DEF Feature, Shape
<1>6. h \in Feature
  <2>1. h1 \in Feature
    BY <1>1, <1>2, Literals DEF Feature
  <2> HIDE DEF h1
  <2>2. h2 \in Feature
    BY <2>1, ZenonT(40) DEF Feature
  <2> HIDE DEF h2
  <2>3. h3 \in Feature
    BY <1>1, <2>2, Literals DEF Feature
  <2> HIDE DEF h3
  <2> QED
    BY <2>3 DEF Feature
<1>7. call \in Calls /\ call.op = "getState"
  BY PendingTypes DEF Pending
<1> HIDE DEF h, call
<1>8. Stays(h, g) /\ Takes(ui, g, call)
  BY <1>4, <1>5, <1>6, <1>7, AwaitAfter
<1>9. /\ Shape(g, None, "starting", "userSelection", "none", NoPrompt, None)
      /\ g.beginInFlight = ui.beginInFlight /\ g.queued = <<>>
  BY <1>5, <1>8 DEF Stays, Shape, Holds
<1>10. \A j \in Slots : g.calls[j] = ui.calls[j] \/ (g.calls[j] = call /\ ui.calls[j] = NoCall)
  BY <1>8, TakesCalls
<1>11. Steady(g)
  <2>1. \A j \in Slots : g.calls[j] = ui.calls[j] \/ ~Conversations(g.calls[j])
    BY <1>7, <1>10 DEF Conversations
  <2>2. /\ Once(g, "begin") /\ Once(g, "cancel")
        /\ Has(g, "begin") => g.beginInFlight /\ ~Has(g, "cancel")
    BY <1>3, <1>9, <2>1, SteadyKept
  <2> QED
    BY <1>9, <2>2 DEF Steady, Shape
<1>12. ASSUME online
       PROVE  Accord(g, answers, wire)
  <2>1. ui.attempt = None /\ g.attempt = None
    BY <1>3, <1>9, <1>12 DEF Accord, Core, Bound, Shape
  <2>2. ~Given(ui, answers) /\ ~ui.beginInFlight
    BY <1>3, <1>12 DEF Orderly, Beginning, Given, Has
  <2>3. Clean(g) /\ Unbound(g)
    BY <1>9 DEF Clean, Unbound, Shape
  <2>4. Turns(ui, answers, g, answers)
    BY <1>3, <1>7, <1>8, <1>12, TakesTurns
  <2>5. NoCall.op = "none"
    BY PendingTypes
  <2>6. \A j \in Slots :
           \/ g.calls[j] = ui.calls[j]
           \/ /\ g.calls[j].op \in Dull \/ (g.calls[j].op = "begin" /\ Quiet)
              /\ g.calls[j].op = "listUsers" /\ g.calls[j].arg = "Idle" => phase = "Idle"
              /\ ~Waits(ui, answers, j, "cancel")
              /\ ui.calls[j].op = "begin" => answers[j].result # "ok"
    BY <1>7, <1>10, <2>5 DEF Waits, Dull
  <2> QED
    BY <1>3, <1>12, <2>1, <2>2, <2>3, <2>4, <2>6, LooseTurn
<1> QED
  BY <1>4, <1>11, <1>12

\* The user keeps the interface and the backend in accord.
LEMMA UserAgree ==
  ASSUME Inv, Agreement, UserActs
  PROVE  Steady(ui') /\ (online => Accord(ui', answers, wire))
<1>1. FreeSlots(ui) # {}
  BY DEF UserActs, FormVisible
<1> HIDE DEF Inv, Agreement
<1>2. CASE \E u \in Users : SelectUser(u)
  BY <1>1, <1>2, SelectUserAgree
<1>3. CASE \E s \in Sessions : SelectSession(s)
  BY <1>1, <1>3, SelectSessionAgree
<1>4. CASE \E blank \in BOOLEAN : RespondToPrompt(blank)
  BY <1>1, <1>4, RespondAgree
<1>5. CASE ui.mode = "sessionSelection" /\ StartSelectedSession
  BY <1>1, <1>5, StartSelectedAgree
<1>6. CASE RetrySessionCatalog
  BY <1>1, <1>6, RetryCatalogAgree
<1>7. CASE Recover
  <2>1. CASE \/ ui.service = "unavailable" /\ ReconnectService
             \/ ui.mode = "error" /\ ui.recovery = "reconnectService" /\ ReconnectService
    BY <1>1, <2>1, ReconnectAgree
  <2>2. CASE ui.mode = "error" /\ ui.recovery = "retryAuthentication" /\ RetryAuthentication
    BY <1>1, <2>2, RetryAuthenticationAgree
  <2>3. CASE ui.mode = "error" /\ ui.recovery = "retryPrompt" /\ RetryPrompt
    BY <1>1, <2>3, RetryPromptAgree
  <2> QED
    BY <1>7, <2>1, <2>2, <2>3 DEF Recover
<1>8. CASE RequestPowerAction
  BY <1>1, <1>8, PowerAgree
<1>9. CASE SleepGreeter
  BY <1>9, SleepAgree
<1>10. CASE WakeGreeter
  BY <1>1, <1>10, WakeAgree
<1> QED
  BY <1>2, <1>3, <1>4, <1>5, <1>6, <1>7, <1>8, <1>9, <1>10 DEF UserActs

-----------------------------------------------------------------------------
(* What the signals show.                                                   *)

\* A state signal of the bound attempt.
LEMMA StateForm ==
  ASSUME NEW f, Sound(f), f.startInFlight \/ FreeSlots(f) # {}, f.attempt # None,
         NEW state \in Phases \ {"Idle"}
  PROVE  LET g == ApplyBackendState(f, state) IN
         /\ Holds(f, g)
         /\ state \notin {"Authenticated"} => g.calls = f.calls
         /\ state \in SubmittingStates \ {"Authenticated"} =>
              Shape(g, f.attempt, f.service, "submitting", "none", f.prompt, f.user)
         /\ state = "WaitingForInput" =>
              Shape(g, f.attempt, f.service, f.mode, "none", f.prompt, f.user)
         /\ state = "HandingOff" =>
              Shape(g, f.attempt, f.service, "handingOff", "none", f.prompt, f.user)
         /\ state = "Failed" =>
              Shape(g, None, f.service, "error", "retryAuthentication", NoPrompt, f.user)
         /\ state = "Authenticated" =>
              /\ \E mode \in {"sessionSelection", "submitting"} :
                   Shape(g, f.attempt, f.service, mode, "none", NoPrompt, f.user)
              /\ \/ g.calls = f.calls
                 \/ /\ g.mode = "submitting"
                    /\ Takes(f, g, Pending("start", f.session, f.attempt))
<1> DEFINE over == state \in {"Authenticated", "Failed"}
           attempt == IF state = "Failed" THEN None ELSE f.attempt
           mode == NextMode(state, f.mode)
           recovery == IF state = "Failed" THEN "retryAuthentication" ELSE "none"
           prompt == IF over THEN NoPrompt ELSE f.prompt
           shown == f.promptError /\ ~over
           h == [f EXCEPT !.attempt = attempt, !.mode = mode, !.recovery = recovery,
                          !.prompt = prompt, !.promptError = shown]
           k == [h EXCEPT !.mode = "sessionSelection"]
           g == ApplyBackendState(f, state)
<1>1. f \in Feature
  BY DEF Sound
<1>2. /\ state \in SubmittingStates => mode = "submitting"
      /\ state = "WaitingForInput" => mode = f.mode
      /\ state = "HandingOff" => mode = "handingOff"
      /\ state = "Failed" => mode = "error"
  BY DEF NextMode, SubmittingStates, Phases, ActivePhases, InvalidatingPhases
<1>3. /\ Shape(h, attempt, f.service, mode, recovery, prompt, f.user)
      /\ Holds(f, h) /\ h.calls = f.calls /\ h.session = f.session
      /\ h.startInFlight = f.startInFlight
  <2> HIDE DEF attempt, mode, recovery, prompt, shown
  <2> QED
    BY <1>1 DEF Feature, Shape, Holds
<1>4. h \in Feature
  <2>1. shown \in BOOLEAN
    <3>1. CASE over
      BY <3>1, Zenon
    <3>2. CASE ~over
      BY <3>2, <1>1 DEF Feature
    <3> QED
      BY <3>1, <3>2
  <2>2. NoPrompt \in Prompts
    BY DEF Prompts
  <2>3. /\ attempt \in Attempts \cup {None}
        /\ recovery \in {"none", "retryAuthentication", "retryPrompt", "reconnectService"}
        /\ prompt \in Prompts
    BY <1>1, <2>2 DEF Feature
  <2>4. mode \in {"userSelection", "prompting", "submitting",
                  "sessionSelection", "handingOff", "error"}
    BY <1>1 DEF NextMode, SubmittingStates, Phases, ActivePhases, InvalidatingPhases, Feature
  <2> HIDE DEF over, attempt, mode, recovery, prompt, shown, h
  <2> DEFINE f1 == [f EXCEPT !.attempt = attempt, !.mode = mode]
             f2 == [f1 EXCEPT !.recovery = recovery, !.prompt = prompt]
             f3 == [f2 EXCEPT !.promptError = shown]
  <2>6. h = f3
    BY DEF h
  <2>7. f1 \in Feature
    BY <1>1, <2>3, <2>4 DEF Feature
  <2> HIDE DEF f1
  <2>8. f2 \in Feature
    BY <2>3, <2>7, ZenonT(40) DEF Feature
  <2> HIDE DEF f2
  <2>9. f3 \in Feature
    BY <2>1, <2>8 DEF Feature
  <2> QED
    BY <2>6, <2>9
<1>5. /\ state # "Authenticated" => g = h
      /\ state = "Authenticated" /\ h.session = None => g = k
      /\ state = "Authenticated" /\ h.session # None => g = StartSession(h)
  BY DEF ApplyBackendState
<1>6. /\ state # "Failed" => attempt = f.attempt /\ recovery = "none"
      /\ state = "Failed" => attempt = None /\ recovery = "retryAuthentication"
      /\ over => prompt = NoPrompt
      /\ ~over => prompt = f.prompt
  OBVIOUS
<1>7. over <=> state \in {"Authenticated", "Failed"}
  OBVIOUS
<1> HIDE DEF h, g, over, attempt, mode, recovery, prompt, shown
<1>8. CASE state # "Authenticated"
  <2>1. g = h
    BY <1>5, <1>8
  <2> QED
    BY <1>2, <1>3, <1>6, <1>7, <1>8, <2>1 DEF g, Shape
<1>9. CASE state = "Authenticated"
  <2>0. "Authenticated" \in SubmittingStates
    BY DEF SubmittingStates
  <2>1. Shape(h, f.attempt, f.service, "submitting", "none", NoPrompt, f.user)
    BY <1>2, <1>3, <1>6, <1>7, <1>9, <2>0
  <2>2. CASE h.session = None
    <3>1. /\ Shape(k, f.attempt, f.service, "sessionSelection", "none", NoPrompt, f.user)
          /\ Holds(h, k) /\ k.calls = h.calls
      BY <1>4, <2>1 DEF Feature, Shape, Holds
    <3> QED
      BY <1>3, <1>5, <1>9, <2>2, <3>1 DEF Holds, g
  <2>3. CASE h.session # None
    <3>1. g = StartSession(h)
      BY <1>5, <1>9, <2>3
    <3>2. h.startInFlight \/ FreeSlots(h) # {}
      BY <1>3 DEF FreeSlots
    <3>3. \/ g = h
          \/ /\ Shape(g, h.attempt, h.service, "submitting", h.recovery, h.prompt, h.user)
             /\ Holds(h, g)
             /\ Takes(h, g, Pending("start", h.session, h.attempt))
      BY <1>4, <3>1, <3>2, StartForm
    <3>4. Pending("start", h.session, h.attempt) = Pending("start", f.session, f.attempt)
      BY <1>3, <2>1 DEF Shape
    <3>5. CASE g = h
      BY <1>3, <1>9, <2>1, <3>5 DEF g
    <3>6. CASE g # h
      <4>1. /\ Shape(g, f.attempt, f.service, "submitting", "none", NoPrompt, f.user)
            /\ Holds(f, g) /\ g.mode = "submitting"
        BY <1>3, <2>1, <3>3, <3>6 DEF Shape, Holds
      <4>2. Takes(f, g, Pending("start", f.session, f.attempt))
        BY <1>3, <3>3, <3>4, <3>6, Zenon DEF Takes
      <4> QED
        BY <1>9, <4>1, <4>2 DEF g
    <3> QED
      BY <3>5, <3>6
  <2> QED
    BY <2>2, <2>3
<1> QED
  BY <1>8, <1>9

\* A prompt of the bound attempt.
LEMMA PromptForm ==
  ASSUME NEW f \in Feature, NEW e \in Signals, e.what # "state"
  PROVE  LET g == ApplyPrompt(f, e)
             new == [attempt |-> e.attempt, kind |-> e.value, number |-> e.number] IN
         /\ Holds(f, g) /\ g.calls = f.calls
         /\ e.value \in {"input", "error", "info"}
         /\ e.value = "input" =>
              Shape(g, f.attempt, f.service, "prompting", "none", new, f.user)
         /\ e.value = "error" =>
              Shape(g, f.attempt, f.service, f.mode, f.recovery, f.prompt, f.user)
         /\ e.value = "info" =>
              Shape(g, f.attempt, f.service, "submitting", "none", new, f.user)
<1> DEFINE g == ApplyPrompt(f, e)
           new == [attempt |-> e.attempt, kind |-> e.value, number |-> e.number]
<1>1. e.value \in {"info", "error", "input"}
  BY DEF Signals
<1> HIDE DEF new
<1>2. /\ e.value = "input" =>
           g = [f EXCEPT !.mode = "prompting", !.prompt = new, !.recovery = "none"]
      /\ e.value = "error" => g = [f EXCEPT !.promptError = TRUE]
      /\ e.value = "info" =>
           g = [f EXCEPT !.mode = "submitting", !.prompt = new, !.recovery = "none",
                         !.promptError = FALSE]
  BY <1>1 DEF ApplyPrompt, new
<1> HIDE DEF g
<1>3. /\ Holds(f, g) /\ g.calls = f.calls
      /\ e.value = "input" =>
           Shape(g, f.attempt, f.service, "prompting", "none", new, f.user)
      /\ e.value = "error" =>
           Shape(g, f.attempt, f.service, f.mode, f.recovery, f.prompt, f.user)
      /\ e.value = "info" =>
           Shape(g, f.attempt, f.service, "submitting", "none", new, f.user)
  <2>1. f \in Feature
    OBVIOUS
  <2>2. CASE e.value = "input"
    <3>1. g = [f EXCEPT !.mode = "prompting", !.prompt = new, !.recovery = "none"]
      BY <1>2, <2>2
    <3> QED
      BY <2>1, <2>2, <3>1 DEF Feature, Shape, Holds
  <2>3. CASE e.value = "error"
    <3>1. g = [f EXCEPT !.promptError = TRUE]
      BY <1>2, <2>3
    <3> QED
      BY <2>1, <2>3, <3>1 DEF Feature, Shape, Holds
  <2>4. CASE e.value = "info"
    <3>1. g = [f EXCEPT !.mode = "submitting", !.prompt = new, !.recovery = "none",
                        !.promptError = FALSE]
      BY <1>2, <2>4
    <3> QED
      BY <2>1, <2>4, <3>1 DEF Feature, Shape, Holds
  <2> QED
    BY <1>1, <2>2, <2>3, <2>4
<1> QED
  BY <1>1, <1>3 DEF g, new

\* An event that is held back.
LEMMA HeldForm ==
  ASSUME NEW f, Sound(f), NEW e \in Signals, WaitsForBegin(f)
  PROVE  LET g == HandleEvent(f, e) IN
         /\ Shape(g, f.attempt, f.service, f.mode, f.recovery, f.prompt, f.user)
         /\ g.calls = f.calls /\ g.beginInFlight = f.beginInFlight
         /\ g.queued = Append(f.queued, e)
<1> DEFINE g == HandleEvent(f, e)
           q == Append(f.queued, e)
<1>1. f \in Feature /\ e.what \in {"state", "prompt"}
  BY DEF Sound, Signals
<1> HIDE DEF q
<1>2. g = [f EXCEPT !.queued = q]
  BY <1>1 DEF HandleEvent, q
<1> HIDE DEF g
<1> QED
  BY <1>1, <1>2 DEF Feature, Shape, g, q

\* The connection is lost.
LEMMA LostForm ==
  ASSUME NEW f \in Feature
  PROVE  LET g == HandleEvent(f, Disconnected) IN
         /\ Shape(g, None, "unavailable", "error", f.recovery, f.prompt, f.user)
         /\ g.calls = f.calls /\ Holds(f, g)
<1> DEFINE h == [f EXCEPT !.attempt = None]
           g == HandleEvent(f, Disconnected)
<1>1. g = ServiceLost(h)
  BY DEF HandleEvent, Disconnected, Signal
<1>2. h \in Feature
  BY DEF Feature
<1>3. /\ Shape(h, None, f.service, f.mode, f.recovery, f.prompt, f.user)
      /\ h.calls = f.calls /\ Holds(f, h)
  BY DEF Feature, Shape, Holds
<1> HIDE DEF h
<1>4. /\ Shape(g, None, "unavailable", "error", h.recovery, h.prompt, h.user)
      /\ g.calls = h.calls /\ Holds(h, g)
  BY <1>1, <1>2, <1>3 DEF ServiceLost, Feature, Shape, Holds
<1> QED
  BY <1>3, <1>4 DEF Shape, Holds

\* Whatever reaches the interface, its fields agree with each other.
LEMMA SteadyHandle ==
  ASSUME NEW f, Sound(f), Steady(f), f.startInFlight \/ FreeSlots(f) # {},
         NEW e \in Signals \cup {Disconnected}, ~Buries(e, f.attempt)
  PROVE  Steady(HandleEvent(f, e))
<1>0. f \in Feature
  BY DEF Sound
<1>1. PICK g : g = HandleEvent(f, e)
  OBVIOUS
<1> SUFFICES Steady(g)
  BY <1>1
<1>2. CASE e = Disconnected
  <2>1. /\ Shape(g, None, "unavailable", "error", f.recovery, f.prompt, f.user)
        /\ g.calls = f.calls /\ Holds(f, g)
    BY <1>0, <1>1, <1>2, LostForm
  <2>2. \A op : (Has(g, op) <=> Has(f, op)) /\ (Once(g, op) <=> Once(f, op))
    BY <2>1 DEF Has, Once
  <2> QED
    BY <2>1, <2>2 DEF Steady, Shape, Holds
<1>3. CASE e \in Signals /\ WaitsForBegin(f)
  <2>1. /\ Shape(g, f.attempt, f.service, f.mode, f.recovery, f.prompt, f.user)
        /\ g.calls = f.calls /\ g.beginInFlight = f.beginInFlight
    BY <1>1, <1>3, HeldForm
  <2>2. \A op : (Has(g, op) <=> Has(f, op)) /\ (Once(g, op) <=> Once(f, op))
    BY <2>1 DEF Has, Once
  <2> QED
    BY <2>1, <2>2 DEF Steady, Shape, Holds
<1>4. CASE e \in Signals /\ ~WaitsForBegin(f)
  <2>0. e.what \in {"state", "prompt"} /\ e.attempt \in Nat /\ e.attempt # None
    BY <1>4, NoneAssumption DEF Signals, Attempts
  <2>1. CASE ~Concerns(f, e)
    <3>1. g = f
      BY <1>1, <1>4, <2>0, <2>1 DEF HandleEvent
    <3> QED
      BY <3>1
  <2>2. CASE Concerns(f, e)
    <3>1. f.attempt # None /\ ~Has(f, "begin") /\ ~Has(f, "cancel") /\ e.attempt = f.attempt
      BY <2>0, <2>2 DEF Concerns, Steady
    <3>2. CASE e.what = "state"
      <4>1. g = ApplyBackendState(f, e.value) /\ e.value \in Phases \ {"Idle"}
        BY <1>1, <1>4, <2>0, <2>2, <3>1, <3>2 DEF HandleEvent, Signals, Buries
      <4>2. /\ \A j \in Slots : g.calls[j] = f.calls[j] \/ g.calls[j].op = "start"
            /\ \/ /\ g.attempt = f.attempt /\ g.recovery = "none"
                  /\ g.mode \in {"submitting", "handingOff", "sessionSelection"}
               \/ Shape(g, f.attempt, f.service, f.mode, "none", f.prompt, f.user)
               \/ Shape(g, None, f.service, "error", "retryAuthentication", NoPrompt, f.user)
        <5>1. e.value \in SubmittingStates \cup {"WaitingForInput", "HandingOff", "Failed"}
          BY <4>1 DEF SubmittingStates, Phases, ActivePhases, InvalidatingPhases
        <5>2. Pending("start", f.session, f.attempt).op = "start"
          BY DEF Pending
        <5>3. CASE e.value = "Authenticated"
          BY <3>1, <4>1, <5>2, <5>3, StateForm DEF Takes, Shape
        <5>4. CASE e.value # "Authenticated"
          BY <3>1, <4>1, <5>1, <5>4, StateForm DEF Shape
        <5> QED
          BY <5>3, <5>4
      <4>3. ~Has(g, "begin") /\ ~Has(g, "cancel")
        BY <3>1, <4>2 DEF Has
      <4>4. Once(g, "begin") /\ Once(g, "cancel")
        BY <4>3 DEF Has, Once
      <4> QED
        BY <3>1, <4>2, <4>3, <4>4 DEF Steady, Shape
    <3>3. CASE e.what # "state"
      <4> DEFINE new == [attempt |-> e.attempt, kind |-> e.value, number |-> e.number]
      <4>0. new.attempt = e.attempt /\ new.kind = e.value
        OBVIOUS
      <4> HIDE DEF new
      <4>1. g = ApplyPrompt(f, e)
        BY <1>1, <1>4, <2>0, <2>2, <3>3 DEF HandleEvent
      <4>2. /\ g.calls = f.calls
            /\ e.value \in {"input", "error", "info"}
            /\ e.value = "input" =>
                 Shape(g, f.attempt, f.service, "prompting", "none", new, f.user)
            /\ e.value = "error" =>
                 Shape(g, f.attempt, f.service, f.mode, f.recovery, f.prompt, f.user)
            /\ e.value = "info" =>
                 Shape(g, f.attempt, f.service, "submitting", "none", new, f.user)
        BY <1>0, <1>4, <3>3, <4>1, PromptForm DEF new
      <4>3. \A op : (Has(g, op) <=> Has(f, op)) /\ (Once(g, op) <=> Once(f, op))
        BY <4>2 DEF Has, Once
      <4> QED
        BY <3>1, <4>0, <4>2, <4>3 DEF Steady, Shape
    <3> QED
      BY <3>2, <3>3
  <2> QED
    BY <2>1, <2>2
<1> QED
  BY <1>2, <1>3, <1>4

-----------------------------------------------------------------------------
(* What the signals leave in accord.                                        *)

\* The interface looks at the event after the s-th; nothing it shows depends on it.
LEMMA Passes ==
  ASSUME NEW f, NEW g, NEW a, NEW p, NEW s \in Nat, Len(p) \in Nat, s < Len(p),
         Flows(f, a, p, s), g.calls = f.calls, g.attempt = f.attempt,
         Taken(g, a) <=> Taken(f, a),
         ~Mine(p[s + 1]) \/ ~Decisive(p[s + 1]) \/ Taken(f, a)
  PROVE  Flows(g, a, p, s + 1)
<1>1. Given(g, a) <=> Given(f, a)
  BY DEF Given
<1>2. \A n \in Nat : s + 1 < n => s < n
  OBVIOUS
<1>3. \A n \in Nat : s < n /\ n # s + 1 => s + 1 < n
  OBVIOUS
<1>4. Decides(g, a, p, s + 1)
  BY <1>1, <1>2 DEF Flows, Decides, Live
<1>5. Echoes(g, a, p, s + 1)
  BY <1>2 DEF Flows, Echoes
<1>6. Announced(g, a, p, s + 1)
  BY <1>1, <1>3 DEF Flows, Announced, Live
<1> QED
  BY <1>4, <1>5, <1>6 DEF Flows

\* The interface looks at an event that makes it somebody's turn.
LEMMA Decided ==
  ASSUME NEW f, NEW g, NEW a, NEW p, NEW s \in Nat, Len(p) \in Nat, s < Len(p),
         Flows(f, a, p, s), Live(f, a), Mine(p[s + 1]), Decisive(p[s + 1]),
         Live(g, a) => Taken(g, a) \/ phase \notin {"WaitingForInput", "Failed"}
  PROVE  Confirmed(p[s + 1]) /\ Flows(g, a, p, s + 1)
<1>0. s + 1 \in Nat /\ s < s + 1 /\ s + 1 <= Len(p)
  OBVIOUS
<1>1. /\ Confirmed(p[s + 1])
      /\ \A m \in Nat : s + 1 < m /\ m <= Len(p) /\ Mine(p[m]) => Echo(p[m])
  BY <1>0 DEF Flows, Decides
<1>2. \A m \in Nat : s + 1 < m /\ m <= Len(p) /\ Mine(p[m]) => ~Decisive(p[m])
  BY <1>1 DEF Echo, Decisive, Asks
<1>3. Decides(g, a, p, s + 1)
  BY <1>2 DEF Decides
<1>4. Echoes(g, a, p, s + 1)
  BY <1>1 DEF Echoes
<1>5. Announced(g, a, p, s + 1)
  BY DEF Announced
<1> QED
  BY <1>1, <1>3, <1>4, <1>5 DEF Flows

\* The bound attempt goes on, with the calls it had.
LEMMA SameCallsCore ==
  ASSUME NEW f, NEW g, NEW a, Core(f, a), f.attempt # None,
         g.calls = f.calls, g.attempt = f.attempt, g.service = f.service, Bound(g),
         f.mode = "handingOff" => g.mode = "handingOff",
         \A j \in Slots : Waits(f, a, j, "respond") \/ Waits(f, a, j, "start") =>
           g.mode = f.mode /\ g.prompt = f.prompt
  PROVE  Core(g, a)
<1>1. Given(g, a) <=> Given(f, a)
  BY DEF Given
<1>2. \A op : \A j \in Slots : Waits(g, a, j, op) <=> Waits(f, a, j, op)
  BY DEF Waits
<1>3. Known(g, a)
  BY <1>2 DEF Core, Known, Live
<1>4. ASSUME NEW i \in Slots
      PROVE  CallFits(g, a, i)
  <2>1. CallFits(f, a, i)
    BY DEF Core
  <2> QED
    BY <1>1, <1>2, <2>1 DEF CallFits
<1>5. Unbound(g)
  BY DEF Unbound
<1> QED
  BY <1>3, <1>4, <1>5 DEF Core

\* What is assumed of a feature that looks at the event after the s-th of p.
Looks(f, a, p, s) ==
  /\ Sound(f) /\ (f.startInFlight \/ FreeSlots(f) # {})
  /\ ~f.beginInFlight /\ ~Has(f, "begin")
  /\ Core(f, a) /\ Flows(f, a, p, s)
  /\ s \in Nat /\ Len(p) \in Nat /\ s < Len(p)
  /\ p[s + 1] \in Signals /\ ~Buries(p[s + 1], f.attempt)
  /\ \A i \in Slots : a[i].result \in {"none", "ok", "error"}
  /\ \A i \in Slots : f.calls[i] = NoCall => a[i].result = "none" /\ serving # i
  /\ phase = "Failed" =>
       \A i \in Slots : f.calls[i].op = "start" => a[i].result # "ok" /\ serving # i

\* A state signal of the bound attempt, whose turn it was not.
LEMMA StateCore ==
  ASSUME NEW f, NEW a, NEW p, NEW s, Looks(f, a, p, s), f.attempt # None,
         Mine(p[s + 1]), p[s + 1].what = "state", ~Taken(f, a)
  PROVE  LET g == ApplyBackendState(f, p[s + 1].value) IN
         Core(g, a) /\ Flows(g, a, p, s + 1)
<1> DEFINE e == p[s + 1]
<1>0. PICK g : g = ApplyBackendState(f, e.value)
  OBVIOUS
<1> SUFFICES Core(g, a) /\ Flows(g, a, p, s + 1)
  BY <1>0
<1>1. /\ Sound(f) /\ (f.startInFlight \/ FreeSlots(f) # {}) /\ f \in Feature
      /\ Core(f, a) /\ Flows(f, a, p, s) /\ Bound(f)
      /\ s \in Nat /\ Len(p) \in Nat /\ s < Len(p)
      /\ e.value \in Phases \ {"Idle"} /\ e.attempt = f.attempt /\ f.attempt = lastAttempt
      /\ f.attempt \in Attempts /\ f.attempt \in Nat
  BY DEF Looks, Buries, Signals, Core, Bound, Mine, Sound, Feature, Attempts
<1>2. ~Given(f, a) /\ Live(f, a)
  BY DEF Looks, Given, Has, Live
<1>3. f.mode = "submitting" /\ \A j \in Slots : ~Waits(f, a, j, "respond") /\ ~Waits(f, a, j, "start")
  BY <1>1 DEF Taken, Bound, Sound, Feature
<1>4. CASE e.value \in SubmittingStates \ {"Authenticated"}
  <2>1. /\ Shape(g, f.attempt, f.service, "submitting", "none", f.prompt, f.user)
        /\ g.calls = f.calls
    BY <1>0, <1>1, <1>4, StateForm
  <2>2. Bound(g) /\ ~Taken(g, a)
    BY <1>1, <1>3, <2>1 DEF Bound, Shape, Taken, Waits
  <2>3. Core(g, a)
    BY <1>1, <1>3, <2>1, <2>2, SameCallsCore DEF Shape
  <2>4. ~Decisive(e)
    BY <1>4 DEF Decisive, Asks, SubmittingStates
  <2> QED
    BY <1>1, <2>1, <2>2, <2>3, <2>4, Passes DEF Shape
<1>5. CASE e.value = "WaitingForInput"
  <2>1. /\ Shape(g, f.attempt, f.service, f.mode, "none", f.prompt, f.user)
        /\ g.calls = f.calls
    BY <1>0, <1>1, <1>5, StateForm
  <2>2. Bound(g) /\ ~Taken(g, a)
    BY <1>1, <1>3, <2>1 DEF Bound, Shape, Taken, Waits
  <2>3. Core(g, a)
    BY <1>1, <1>3, <2>1, <2>2, SameCallsCore DEF Shape
  <2>4. ~Decisive(e)
    BY <1>5 DEF Decisive, Asks
  <2> QED
    BY <1>1, <2>1, <2>2, <2>3, <2>4, Passes DEF Shape
<1>6. CASE e.value = "HandingOff"
  <2>1. /\ Shape(g, f.attempt, f.service, "handingOff", "none", f.prompt, f.user)
        /\ g.calls = f.calls
    BY <1>0, <1>1, <1>6, StateForm
  <2>2. Bound(g) /\ Taken(g, a)
    BY <1>1, <2>1 DEF Bound, Shape, Taken
  <2>3. Core(g, a)
    BY <1>1, <1>3, <2>1, <2>2, SameCallsCore DEF Shape
  <2>4. Decisive(e)
    BY <1>6 DEF Decisive
  <2> QED
    BY <1>1, <1>2, <2>2, <2>3, <2>4, Decided
<1>7. CASE e.value = "Failed"
  <2>1. /\ Shape(g, None, f.service, "error", "retryAuthentication", NoPrompt, f.user)
        /\ g.calls = f.calls
    BY <1>0, <1>1, <1>7, StateForm
  <2>2. ~Given(g, a) /\ ~Live(g, a) /\ ~Taken(g, a)
    BY <1>2, <2>1 DEF Shape, Given, Live, Taken
  <2>3. Decisive(e) /\ ~Asks(e)
    BY <1>7 DEF Decisive, Asks
  <2>4. Confirmed(e) /\ Flows(g, a, p, s + 1)
    BY <1>1, <1>2, <2>2, <2>3, Decided
  <2>5. phase = "Failed"
    BY <1>7, <2>3, <2>4 DEF Confirmed
  <2>6. Bound(g) /\ Unbound(g)
    BY <2>1, <2>5 DEF Bound, Unbound, Shape, Quiet
  <2>7. Known(g, a)
    BY <2>5 DEF Known, ActivePhases
  <2>8. ASSUME NEW i \in Slots
        PROVE  CallFits(g, a, i)
    <3>1. CallFits(f, a, i)
      BY <1>1 DEF Core
    <3>2. ~Waits(g, a, i, "respond") /\ ~Waits(g, a, i, "start")
      BY <1>3, <2>1 DEF Waits
    <3>3. f.calls[i].op = "start" => a[i].result = "error"
      BY <1>3, <2>5 DEF Looks, Waits
    <3> QED
      BY <1>2, <2>1, <2>2, <3>1, <3>2, <3>3 DEF CallFits
  <2> QED
    BY <2>4, <2>6, <2>7, <2>8 DEF Core
<1>8. CASE e.value = "Authenticated"
  <2> DEFINE call == Pending("start", f.session, f.attempt)
  <2>0. call.op = "start" /\ call.key = f.attempt
    BY DEF Pending
  <2>1. /\ g.attempt = f.attempt /\ g.service = f.service
        /\ g.mode \in {"sessionSelection", "submitting"}
        /\ g.calls = f.calls \/ (g.mode = "submitting" /\ Takes(f, g, call))
    BY <1>0, <1>1, <1>8, StateForm DEF Shape
  <2> HIDE DEF call
  <2>2. Decisive(e) /\ ~Asks(e)
    BY <1>8 DEF Decisive, Asks
  <2>3. Confirmed(e) /\ phase = "Authenticated" /\ Flows(g, a, p, s + 1)
    <3>1. Flows(g, a, p, s + 1) \/ phase # "Authenticated"
      BY <1>1, <1>2, <2>2, Decided
    <3>2. Confirmed(e)
      <4>1. s + 1 \in Nat /\ s < s + 1 /\ s + 1 <= Len(p)
        BY <1>1
      <4> QED
        BY <1>1, <1>2, <2>2, <4>1 DEF Flows, Decides
    <3> QED
      BY <1>8, <2>2, <3>1, <3>2 DEF Confirmed
  <2>4. Bound(g)
    BY <1>1, <2>1, <2>3 DEF Bound
  <2>5. CASE g.calls = f.calls
    BY <1>1, <1>3, <2>1, <2>3, <2>4, <2>5, SameCallsCore
  <2>6. CASE g.mode = "submitting" /\ Takes(f, g, call)
    <3>1. PICK k \in Slots : /\ f.calls[k] = NoCall /\ g.calls[k] = call
                             /\ \A j \in Slots \ {k} : g.calls[j] = f.calls[j]
      BY <2>6 DEF Takes
    <3>2. ~Given(g, a)
      BY <1>2, <2>0, <3>1 DEF Given
    <3>3. lastAttempt <= lastAttempt
      BY <1>1
    <3>4. ASSUME NEW i \in Slots
          PROVE  CallFits(g, a, i)
      <4>1. CASE i = k
        BY <1>1, <2>0, <2>1, <2>3, <2>6, <3>1, <3>2, <3>3, <4>1 DEF CallFits, Waits
      <4>2. CASE i # k
        <5>1. CallFits(f, a, i) /\ g.calls[i] = f.calls[i]
          BY <1>1, <3>1, <4>2 DEF Core
        <5> QED
          BY <1>2, <1>3, <2>1, <3>2, <5>1 DEF CallFits, Waits
      <4> QED
        BY <4>1, <4>2
    <3>5. Known(g, a) /\ Unbound(g)
      BY <1>1, <2>1, <2>3 DEF Known, Unbound, Live, Mine
    <3> QED
      BY <2>3, <2>4, <3>4, <3>5 DEF Core
  <2> QED
    BY <2>1, <2>3, <2>5, <2>6
<1>9. e.value \in SubmittingStates \cup {"WaitingForInput", "HandingOff", "Failed"}
  BY <1>1 DEF SubmittingStates, Phases, ActivePhases, InvalidatingPhases
<1> QED
  BY <1>4, <1>5, <1>6, <1>7, <1>8, <1>9

\* A prompt of the bound attempt, whose turn it was not.
LEMMA PromptCore ==
  ASSUME NEW f, NEW a, NEW p, NEW s, Looks(f, a, p, s), f.attempt # None,
         Mine(p[s + 1]), p[s + 1].what # "state", ~Taken(f, a)
  PROVE  LET g == ApplyPrompt(f, p[s + 1]) IN
         Core(g, a) /\ Flows(g, a, p, s + 1)
<1> DEFINE e == p[s + 1]
           new == [attempt |-> e.attempt, kind |-> e.value, number |-> e.number]
<1>0. PICK g : g = ApplyPrompt(f, e)
  OBVIOUS
<1> SUFFICES Core(g, a) /\ Flows(g, a, p, s + 1)
  BY <1>0
<1>1. /\ f \in Feature /\ e \in Signals /\ e.what = "prompt"
      /\ Core(f, a) /\ Flows(f, a, p, s) /\ Bound(f)
      /\ s \in Nat /\ Len(p) \in Nat /\ s < Len(p)
      /\ e.attempt = f.attempt /\ f.attempt = lastAttempt
  BY DEF Looks, Signals, Core, Bound, Mine, Sound
<1>2. ~Given(f, a) /\ Live(f, a)
  BY DEF Looks, Given, Has, Live
<1>3. f.mode = "submitting" /\ \A j \in Slots : ~Waits(f, a, j, "respond") /\ ~Waits(f, a, j, "start")
  BY <1>1 DEF Taken, Bound, Feature
<1>4. /\ g.calls = f.calls
      /\ e.value \in {"input", "error", "info"}
      /\ e.value = "input" =>
           Shape(g, f.attempt, f.service, "prompting", "none", new, f.user)
      /\ e.value = "error" =>
           Shape(g, f.attempt, f.service, f.mode, f.recovery, f.prompt, f.user)
      /\ e.value = "info" =>
           Shape(g, f.attempt, f.service, "submitting", "none", new, f.user)
  BY <1>0, <1>1, PromptForm
<1>5. CASE e.value = "input"
  <2>1. Shape(g, f.attempt, f.service, "prompting", "none", new, f.user)
    BY <1>4, <1>5
  <2>2. Decisive(e) /\ Asks(e)
    BY <1>1, <1>5 DEF Decisive, Asks
  <2>3. Taken(g, a)
    BY <2>1 DEF Taken, Shape
  <2>4. Confirmed(e) /\ Flows(g, a, p, s + 1)
    BY <1>1, <1>2, <2>2, <2>3, Decided
  <2>5. phase = "WaitingForInput" /\ e.number = asked
    BY <2>2, <2>4 DEF Confirmed
  <2>6. g.prompt = [attempt |-> lastAttempt, kind |-> "input", number |-> asked]
    BY <1>1, <1>5, <2>1, <2>5 DEF Shape
  <2> HIDE DEF new
  <2>7. Bound(g)
    BY <1>1, <2>1, <2>5, <2>6 DEF Bound, Shape
  <2>8. Core(g, a)
    BY <1>1, <1>3, <1>4, <2>1, <2>7, SameCallsCore DEF Shape
  <2> QED
    BY <2>4, <2>8
<1>6. CASE e.value # "input"
  <2> HIDE DEF new
  <2>1. g.attempt = f.attempt /\ g.service = f.service /\ g.mode = "submitting"
    BY <1>3, <1>4, <1>6 DEF Shape
  <2>2. Bound(g) /\ ~Taken(g, a)
    BY <1>1, <1>3, <1>4, <2>1 DEF Bound, Taken, Waits
  <2>3. Core(g, a)
    BY <1>1, <1>3, <1>4, <2>1, <2>2, SameCallsCore
  <2>4. ~Decisive(e)
    BY <1>1, <1>6 DEF Decisive, Asks
  <2> QED
    BY <1>1, <1>4, <2>1, <2>2, <2>3, <2>4, Passes
<1> QED
  BY <1>5, <1>6

\* The interface looks at the next event.
LEMMA HandleCore ==
  ASSUME NEW f, NEW a, NEW p, NEW s, Looks(f, a, p, s)
  PROVE  LET g == HandleEvent(f, p[s + 1]) IN
         Core(g, a) /\ Flows(g, a, p, s + 1)
<1> DEFINE e == p[s + 1]
<1>0. PICK g : g = HandleEvent(f, e)
  OBVIOUS
<1> SUFFICES Core(g, a) /\ Flows(g, a, p, s + 1)
  BY <1>0
<1>1. /\ Sound(f) /\ (f.startInFlight \/ FreeSlots(f) # {}) /\ f \in Feature
      /\ Core(f, a) /\ Flows(f, a, p, s) /\ Bound(f)
      /\ s \in Nat /\ Len(p) \in Nat /\ s < Len(p)
      /\ e \in Signals /\ ~WaitsForBegin(f)
  BY DEF Looks, Core, Sound, WaitsForBegin
<1>2. e.what \in {"state", "prompt"} /\ e.attempt # None
  BY <1>1, NoneAssumption DEF Signals, Attempts
<1>3. CASE ~Concerns(f, e)
  <2>1. g = f
    BY <1>0, <1>1, <1>2, <1>3 DEF HandleEvent
  <2>2. CASE f.attempt # None
    <3>1. ~Mine(e)
      BY <1>1, <1>3, <2>2 DEF Concerns, Bound, Mine
    <3> QED
      BY <1>1, <2>1, <3>1, Passes
  <2>3. CASE f.attempt = None
    <3>1. ~Live(f, a) /\ ~Taken(f, a)
      BY <2>3 DEF Looks, Live, Given, Has, Taken
    <3> QED
      BY <1>1, <2>1, <3>1 DEF Flows, Decides, Echoes, Announced
  <2> QED
    BY <2>2, <2>3
<1>4. CASE Concerns(f, e)
  <2>1. f.attempt # None /\ Mine(e) /\ e.attempt = f.attempt
    BY <1>1, <1>2, <1>4 DEF Concerns, Bound, Mine
  <2>2. CASE Taken(f, a)
    <3>1. e.what = "state" /\ e.value = "WaitingForInput" /\ phase = "WaitingForInput"
      <4>1. s + 1 \in Nat /\ s < s + 1 /\ s + 1 <= Len(p)
        BY <1>1
      <4> QED
        BY <1>1, <2>1, <2>2, <4>1 DEF Flows, Echoes, Echo
    <3>2. g = ApplyBackendState(f, e.value) /\ e.value \in Phases \ {"Idle"}
      BY <1>0, <1>1, <1>2, <1>4, <3>1 DEF HandleEvent, Signals
    <3>3. /\ Shape(g, f.attempt, f.service, f.mode, "none", f.prompt, f.user)
          /\ g.calls = f.calls
      BY <1>1, <2>1, <3>1, <3>2, StateForm
    <3>4. Bound(g) /\ Taken(g, a)
      BY <1>1, <2>2, <3>3 DEF Bound, Shape, Taken, Waits
    <3>5. Core(g, a)
      BY <1>1, <2>1, <3>3, <3>4, SameCallsCore DEF Shape
    <3> QED
      BY <1>1, <2>2, <3>3, <3>4, <3>5, Passes DEF Shape
  <2>3. CASE ~Taken(f, a)
    <3>1. CASE e.what = "state"
      <4>1. g = ApplyBackendState(f, e.value)
        BY <1>0, <1>1, <1>2, <1>4, <3>1 DEF HandleEvent
      <4> QED
        BY <2>1, <2>3, <3>1, <4>1, StateCore
    <3>2. CASE e.what # "state"
      <4>1. g = ApplyPrompt(f, e)
        BY <1>0, <1>1, <1>2, <1>4, <3>2 DEF HandleEvent
      <4> QED
        BY <2>1, <2>3, <3>2, <4>1, PromptCore
    <3> QED
      BY <3>1, <3>2
  <2> QED
    BY <2>2, <2>3
<1> QED
  BY <1>3, <1>4

-----------------------------------------------------------------------------
(* The row of events that have still to be looked at.                       *)

\* Two rows, one after the other.
LEMMA RowIs ==
  ASSUME NEW S, NEW T, NEW s \in Seq(S), NEW t \in Seq(T)
  PROVE  /\ Len(s \o t) = Len(s) + Len(t) /\ Len(s) \in Nat /\ Len(t) \in Nat
         /\ \A n \in Nat : 0 < n /\ n <= Len(s) => (s \o t)[n] = s[n]
         /\ \A n \in Nat : Len(s) < n /\ n <= Len(s) + Len(t) => (s \o t)[n] = t[n - Len(s)]
<1>0. s \in Seq(S \cup T) /\ t \in Seq(S \cup T)
  OBVIOUS
<1>1. /\ Len(s \o t) = Len(s) + Len(t)
      /\ \A i \in 1..(Len(s) + Len(t)) : (s \o t)[i] = IF i <= Len(s) THEN s[i] ELSE t[i - Len(s)]
  BY <1>0, ConcatProperties
<1>2. Len(s) \in Nat /\ Len(t) \in Nat
  BY LenProperties
<1> QED
  BY <1>1, <1>2

\* Nothing comes before.
LEMMA EmptyRow ==
  ASSUME NEW T, NEW t \in Seq(T)
  PROVE  /\ Len(<<>> \o t) = Len(t) /\ Len(t) \in Nat
         /\ \A n \in Nat : 0 < n /\ n <= Len(t) => (<<>> \o t)[n] = t[n]
<1>1. <<>> \in Seq(T) /\ Len(<<>>) = 0
  OBVIOUS
<1>2. /\ Len(<<>> \o t) = Len(<<>>) + Len(t) /\ Len(t) \in Nat
      /\ \A n \in Nat : Len(<<>>) < n /\ n <= Len(<<>>) + Len(t) => (<<>> \o t)[n] = t[n - Len(<<>>)]
  BY <1>1, RowIs
<1> QED
  BY <1>1, <1>2

\* The events that have been looked at leave the row.
LEMMA Shifted ==
  ASSUME NEW f, NEW a, NEW p, NEW q, NEW s \in Nat, Flows(f, a, p, s),
         Len(q) \in Nat, Len(p) = Len(q) + s,
         \A n \in Nat : 0 < n /\ n <= Len(q) => q[n] = p[n + s]
  PROVE  Flows(f, a, q, 0)
<1>1. \A n \in Nat : 0 < n /\ n <= Len(q) =>
        n + s \in Nat /\ s < n + s /\ n + s <= Len(p) /\ q[n] = p[n + s]
  OBVIOUS
<1>2. \A n, m \in Nat : n < m => n + s < m + s
  OBVIOUS
<1>3. \A n \in Nat : s < n /\ n <= Len(p) =>
        n - s \in Nat /\ 0 < n - s /\ n - s <= Len(q) /\ q[n - s] = p[n]
  OBVIOUS
<1>4. Decides(f, a, q, 0)
  <2> SUFFICES ASSUME Live(f, a), NEW n \in Nat, 0 < n, n <= Len(q), Mine(q[n]), Decisive(q[n])
               PROVE  /\ Confirmed(q[n])
                      /\ \A m \in Nat : n < m /\ m <= Len(q) /\ Mine(q[m]) => Echo(q[m])
    BY DEF Decides
  <2>1. /\ Confirmed(p[n + s])
        /\ \A m \in Nat : n + s < m /\ m <= Len(p) /\ Mine(p[m]) => Echo(p[m])
    BY <1>1 DEF Flows, Decides
  <2>2. ASSUME NEW m \in Nat, n < m, m <= Len(q), Mine(q[m])
        PROVE  Echo(q[m])
    <3>1. m + s \in Nat /\ n + s < m + s /\ m + s <= Len(p) /\ q[m] = p[m + s]
      BY <1>1, <1>2, <2>2
    <3> QED
      BY <2>1, <2>2, <3>1
  <2> QED
    BY <1>1, <2>1, <2>2
<1>5. Echoes(f, a, q, 0)
  BY <1>1 DEF Flows, Echoes
<1>6. Announced(f, a, q, 0)
  <2> SUFFICES ASSUME Live(f, a), phase \in {"WaitingForInput", "Failed"}, ~Taken(f, a)
               PROVE  \E n \in Nat : 0 < n /\ n <= Len(q) /\ Mine(q[n]) /\ Decisive(q[n])
    BY DEF Announced
  <2>1. PICK n \in Nat : s < n /\ n <= Len(p) /\ Mine(p[n]) /\ Decisive(p[n])
    BY DEF Flows, Announced
  <2>2. n - s \in Nat /\ 0 < n - s /\ n - s <= Len(q) /\ q[n - s] = p[n]
    BY <1>3, <2>1
  <2>3. Mine(q[n - s]) /\ Decisive(q[n - s])
    BY <2>1, <2>2
  <2> QED
    BY <2>2, <2>3
<1> QED
  BY <1>4, <1>5, <1>6 DEF Flows

\* Only how a reply is late may differ.
LEMMA SameReplies ==
  ASSUME NEW f, NEW a, NEW b,
         \A j \in Slots : b[j].result = a[j].result /\ b[j].value = a[j].value
  PROVE  /\ Core(f, a) => Core(f, b)
         /\ \A p, s : Flows(f, a, p, s) => Flows(f, b, p, s)
<1>1. \A op : \A j \in Slots : Waits(f, b, j, op) <=> Waits(f, a, j, op)
  BY DEF Waits
<1>2. (Given(f, b) <=> Given(f, a)) /\ (Live(f, b) <=> Live(f, a)) /\ (Taken(f, b) <=> Taken(f, a))
  BY <1>1 DEF Given, Live, Taken
<1>3. \A i \in Slots : CallFits(f, a, i) => CallFits(f, b, i)
  BY <1>1, <1>2 DEF CallFits
<1>4. Known(f, a) => Known(f, b)
  BY <1>1, <1>2 DEF Known
<1>5. ASSUME NEW p, NEW s, Flows(f, a, p, s)
      PROVE  Flows(f, b, p, s)
  BY <1>2, <1>5 DEF Flows, Decides, Echoes, Announced
<1> QED
  BY <1>3, <1>4, <1>5 DEF Core

\* A step of the interface that keeps the parts keeps the whole.
LEMMA Unmoved ==
  ASSUME UNCHANGED <<online, backendVars>>, Replied(answers'), Steady(ui'),
         online => Accord(ui', answers', wire')
  PROVE  Agreement'
<1> /\ phase' = phase /\ lastAttempt' = lastAttempt /\ serving' = serving
    /\ asked' = asked /\ online' = online
  BY DEF backendVars, machineVars
<1>1. Replied(answers)' /\ Steady(ui)'
  BY DEF Replied, Steady
<1>2. ASSUME online
      PROVE  Accord(ui, answers, wire)'
  <2>1. Bound(ui)' /\ Unbound(ui)' /\ Carried(ui)' /\ Clean(ui)'
    BY <1>2 DEF Accord, Core, Bound, Unbound, Quiet, Carried, Clean
  <2>2. Known(ui, answers)'
    BY <1>2 DEF Accord, Core, Known, Live, Given, Waits
  <2>3. (\A i \in Slots : CallFits(ui, answers, i))'
    <3>1. \A i \in Slots : CallFits(ui', answers', i)
      BY <1>2 DEF Accord, Core
    <3> QED
      BY <3>1 DEF CallFits, Given, Waits, Quiet
  <2>4. Late(ui, answers, wire)'
    BY <1>2 DEF Accord, Late, FailedWithin, Mine
  <2>5. Flows(ui, answers, ui.queued \o wire, 0)'
    <3> DEFINE p == ui.queued \o wire
    <3>1. Flows(ui', answers', p', 0)
      BY <1>2 DEF Accord
    <3> HIDE DEF p
    <3>2. Decides(ui, answers, p, 0)'
      BY <3>1 DEF Flows, Decides, Live, Given, Mine, Decisive, Asks, Confirmed, Echo
    <3>3. Echoes(ui, answers, p, 0)'
      BY <3>1 DEF Flows, Echoes, Taken, Waits, Mine, Echo
    <3>4. Announced(ui, answers, p, 0)'
      BY <3>1 DEF Flows, Announced, Live, Given, Taken, Waits, Mine, Decisive, Asks
    <3> QED
      BY <3>2, <3>3, <3>4 DEF Flows, p
  <2> QED
    BY <2>1, <2>2, <2>3, <2>4, <2>5 DEF Accord, Core
<1> QED
  BY <1>1, <1>2 DEF Agreement


\* Replies come nearer as the events before them are looked at.
LEMMA LateNearer ==
  ASSUME NEW f, NEW g, NEW a, NEW b, NEW w, NEW v, Late(f, a, w),
         g.attempt \in {f.attempt, None},
         \A j \in Slots :
           /\ g.calls[j] = f.calls[j] \/ a[j].result = "none"
           /\ b[j].result = a[j].result
           /\ a[j].after \in Nat
           /\ b[j].after = IF a[j].after > 0 THEN a[j].after - 1 ELSE 0,
         Len(v) \in Nat, Len(w) = Len(v) + 1,
         \A n \in Nat : 0 < n /\ n <= Len(v) => v[n] = w[n + 1],
         w[1] = StateSignal(lastAttempt, "Failed") => g.attempt = None
  PROVE  Late(g, b, v)
<1> SUFFICES ASSUME NEW i \in Slots, g.attempt # None, g.calls[i].key = g.attempt
             PROVE  /\ g.calls[i].op = "respond" /\ b[i].result = "error" => FailedWithin(v, b[i].after)
                    /\ g.calls[i].op = "start" /\ b[i].result # "none" =>
                         \A n \in Nat : 0 < n /\ n <= Len(v) /\ Mine(v[n]) => n <= b[i].after
                    /\ g.calls[i].op = "start" /\ b[i].result = "error" =>
                         phase = "Authenticated" \/ FailedWithin(v, b[i].after)
  BY DEF Late
<1>1. /\ b[i].result = a[i].result /\ a[i].after \in Nat
      /\ b[i].after = IF a[i].after > 0 THEN a[i].after - 1 ELSE 0
      /\ g.calls[i] = f.calls[i] \/ a[i].result = "none"
      /\ f.attempt # None /\ g.attempt = f.attempt
  OBVIOUS
<1>2. ASSUME FailedWithin(w, a[i].after)
      PROVE  FailedWithin(v, b[i].after)
  <2>1. PICK n \in Nat : 0 < n /\ n <= a[i].after /\ n <= Len(w) /\ w[n] = StateSignal(lastAttempt, "Failed")
    BY <1>2 DEF FailedWithin
  <2>2. n # 1
    BY <2>1
  <2>3. n - 1 \in Nat /\ 0 < n - 1 /\ n - 1 <= Len(v) /\ n - 1 <= b[i].after /\ v[n - 1] = w[n]
    BY <1>1, <2>1, <2>2, SMTT(30)
  <2> QED
    BY <2>1, <2>3 DEF FailedWithin
<1>3. CASE a[i].result = "none"
  BY <1>1, <1>3
<1>4. CASE g.calls[i] = f.calls[i]
  <2>1. /\ g.calls[i].op = "respond" /\ a[i].result = "error" => FailedWithin(w, a[i].after)
        /\ g.calls[i].op = "start" /\ a[i].result # "none" =>
             \A n \in Nat : 0 < n /\ n <= Len(w) /\ Mine(w[n]) => n <= a[i].after
        /\ g.calls[i].op = "start" /\ a[i].result = "error" =>
             phase = "Authenticated" \/ FailedWithin(w, a[i].after)
    BY <1>1, <1>4 DEF Late
  <2>2. ASSUME g.calls[i].op = "start", b[i].result # "none",
               NEW n \in Nat, 0 < n, n <= Len(v), Mine(v[n])
        PROVE  n <= b[i].after
    <3>1. n + 1 \in Nat /\ n + 1 <= Len(w) /\ v[n] = w[n + 1] /\ 0 < n + 1
      BY <2>2
    <3>2. n + 1 <= a[i].after
      BY <1>1, <2>1, <2>2, <3>1
    <3> QED
      BY <1>1, <2>2, <3>2
  <2> QED
    BY <1>1, <1>2, <2>1, <2>2
<1> QED
  BY <1>1, <1>3, <1>4

\* The end of the bound attempt unbinds it.
LEMMA FailedUnbinds ==
  ASSUME NEW f, Sound(f), f.startInFlight \/ FreeSlots(f) # {}, NEW k \in Attempts,
         StateSignal(k, "Failed") \in Signals, f.attempt \in {k, None}
  PROVE  HandleEvent(f, StateSignal(k, "Failed")).attempt = None
<1> DEFINE e == StateSignal(k, "Failed")
           g == HandleEvent(f, e)
<1>1. e.attempt = k /\ e.what = "state" /\ e.value = "Failed" /\ k # None
  BY NoneAssumption DEF StateSignal, Signal, Attempts
<1>2. "Failed" \in Phases \ {"Idle"}
  BY DEF Phases, ActivePhases, InvalidatingPhases
<1> HIDE DEF e
<1>3. CASE f.attempt = None
  <2>1. CASE WaitsForBegin(f)
    BY <1>3, <2>1, HeldForm DEF e, Shape
  <2>2. CASE ~WaitsForBegin(f)
    <3>1. g = f
      BY <1>1, <1>3, <2>2 DEF HandleEvent, Concerns
    <3> QED
      BY <1>3, <3>1 DEF e
  <2> QED
    BY <2>1, <2>2
<1>4. CASE f.attempt = k
  <2>1. g = ApplyBackendState(f, "Failed")
    BY <1>1, <1>4 DEF HandleEvent, Concerns, WaitsForBegin
  <2>2. Shape(ApplyBackendState(f, "Failed"), None, f.service, "error", "retryAuthentication", NoPrompt, f.user)
    BY <1>1, <1>2, <1>4, StateForm
  <2> QED
    BY <2>1, <2>2 DEF Shape, e
<1> QED
  BY <1>3, <1>4

\* The next event reaches the interface.
LEMMA ReceiveAgree ==
  ASSUME Inv, Agreement, Receive
  PROVE  Agreement'
<1> DEFINE e == Head(wire)
<1>1. /\ wire \in Seq(Signals \cup {Disconnected}) /\ wire # <<>> /\ FreeSlots(ui) # {}
      /\ ui' = HandleEvent(ui, e) /\ wire' = Tail(wire)
      /\ UNCHANGED <<online, backendVars>>
      /\ answers' = [i \in Slots |-> OneNearer(answers[i])]
  BY DEF Inv, BusFits, Receive
<1>2. /\ Len(wire) \in Nat /\ Len(wire') \in Nat /\ Len(wire) = Len(wire') + 1 /\ e = wire[1]
      /\ e \in Signals \cup {Disconnected} /\ e \in InFlight
      /\ \A n \in Nat : 0 < n /\ n <= Len(wire') => wire'[n] = wire[n + 1]
  <2>1. /\ Len(Tail(wire)) = Len(wire) - 1 /\ e \in Signals \cup {Disconnected}
        /\ \A n \in 1..Len(Tail(wire)) : Tail(wire)[n] = wire[n + 1]
        /\ Len(Tail(wire)) \in Nat /\ Len(wire) \in Nat
    BY <1>1, HeadTailProperties, LenProperties
  <2>2. e \in InFlight
    BY <1>1, TailElements DEF InFlight
  <2>3. e = wire[1]
    BY <1>1
  <2> QED
    BY <1>1, <2>1, <2>2, <2>3
<1> HIDE DEF e
<1>3. /\ Sound(ui) /\ ui \in Feature /\ Steady(ui) /\ Replied(answers)
      /\ serving \in Slots \cup {0}
      /\ online =>
           /\ Orderly(ui) /\ Accord(ui, answers, wire) /\ ServingFits
           /\ \A j \in Slots : ui.calls[j] = NoCall => answers[j].result = "none" /\ serving # j
  BY Grounds
<1>4. ~Buries(e, ui.attempt)
  <2> SUFFICES ASSUME Buries(e, ui.attempt)
               PROVE  FALSE
    OBVIOUS
  <2>1. e.attempt = ui.attempt /\ e.what = "state"
    BY DEF Buries
  <2>2. e \in Signals
    BY <1>2, <2>1 DEF Disconnected, Signal
  <2>3. ui.attempt \in Attempts
    BY <1>3, <2>1, <2>2, NoneAssumption DEF Feature, Signals, Attempts
  <2>4. Gone(ui.attempt)
    BY <1>2 DEF Buries, Gone
  <2> QED
    BY <2>3, <2>4 DEF Inv, GoneIsForgotten
<1>5. Steady(ui')
  BY <1>1, <1>2, <1>3, <1>4, SteadyHandle
<1>6. \A j \in Slots :
        /\ answers'[j].result = answers[j].result /\ answers'[j].value = answers[j].value
        /\ answers'[j].after = IF answers[j].after > 0 THEN answers[j].after - 1 ELSE 0
        /\ answers[j].after \in Nat
        /\ answers[j] = NoAnswer => answers'[j] = NoAnswer
  <2>1. \A j \in Slots :
          /\ answers'[j].result = answers[j].result /\ answers'[j].value = answers[j].value
          /\ answers[j] = NoAnswer => answers'[j] = NoAnswer
    BY <1>1, NearerIs
  <2>2. \A j \in Slots : answers[j] = [result |-> answers[j].result, value |-> answers[j].value,
                                       after |-> answers[j].after]
    BY DEF Inv, BusFits
  <2>3. ASSUME NEW j \in Slots
        PROVE  answers'[j].after = IF answers[j].after > 0 THEN answers[j].after - 1 ELSE 0
    <3>1. answers'[j] = OneNearer(answers[j])
      BY <1>1
    <3> QED
      BY <2>2, <3>1 DEF OneNearer
  <2> QED
    BY <1>3, <2>1, <2>3 DEF Replied
<1>7. Replied(answers')
  <2>1. \A j \in Slots :
          /\ answers[j].result \in {"none", "ok", "error"}
          /\ answers[j].result = "none" => answers[j] = NoAnswer
    BY <1>3 DEF Replied
  <2>2. ASSUME NEW j \in Slots
        PROVE  answers'[j].after \in Nat
    BY <1>6
  <2> QED
    BY <1>6, <2>1, <2>2 DEF Replied
<1>8. ASSUME online
      PROVE  Accord(ui', answers', wire')
  <2>0. e \in Signals
    BY <1>2, <1>8 DEF Inv, BusFits
  <2>1. /\ Orderly(ui) /\ Accord(ui, answers, wire) /\ ServingFits
        /\ \A j \in Slots : ui.calls[j] = NoCall => answers[j].result = "none" /\ serving # j
    BY <1>3, <1>8
  <2>2. /\ Sound(ui') /\ Handled(ui, ui')
        /\ ~ui.beginInFlight => ui'.queued = ui.queued
    BY <1>1, <1>3, <2>0, HandleFits
  <2>3. ui.queued \in Seq(Signals)
    BY <1>3 DEF Feature
  <2>4. Carried(ui') /\ Clean(ui')
    <3>1. serving \in Slots => ui'.calls[serving] = ui.calls[serving]
      BY <2>1, <2>2 DEF Handled
    <3>2. serving # 0 => serving \in Slots
      BY <1>3
    <3>3. Carried(ui) /\ Clean(ui)
      BY <2>1 DEF Accord
    <3> HIDE DEF Inv, Agreement
    <3> QED
      BY <2>2, <3>1, <3>2, <3>3 DEF Carried, Clean, Handled
  <2>5. Late(ui', answers', wire')
    <3>1. \A j \in Slots : ui'.calls[j] = ui.calls[j] \/ answers[j].result = "none"
      BY <2>1, <2>2 DEF Handled
    <3>2. wire[1] = StateSignal(lastAttempt, "Failed") => ui'.attempt = None
      <4> SUFFICES ASSUME e = StateSignal(lastAttempt, "Failed")
                   PROVE  ui'.attempt = None
        BY <1>2
      <4>1. ui.attempt \in {lastAttempt, None}
        BY <2>1 DEF Accord, Core, Bound
      <4>2. CASE lastAttempt \in Attempts
        BY <1>1, <1>3, <2>0, <4>1, <4>2, FailedUnbinds
      <4>3. CASE lastAttempt \notin Attempts
        BY <1>3, <2>2, <4>1, <4>3 DEF Feature, Handled
      <4> QED
        BY <4>2, <4>3
    <3>3. ui'.attempt \in {ui.attempt, None}
      BY <2>2 DEF Handled
    <3>4. Late(ui, answers, wire)
      BY <2>1 DEF Accord
    <3> HIDE DEF Inv, Agreement
    <3> QED
      BY <1>2, <1>6, <3>1, <3>2, <3>3, <3>4, LateNearer
  <2>6. CASE ui.beginInFlight
    <3>1. WaitsForBegin(ui)
      BY <1>3, <2>1, <2>6 DEF Orderly, Steady, WaitsForBegin
    <3>2. /\ Shape(ui', ui.attempt, ui.service, ui.mode, ui.recovery, ui.prompt, ui.user)
          /\ ui'.calls = ui.calls /\ ui'.beginInFlight = ui.beginInFlight
          /\ ui'.queued = Append(ui.queued, e)
      BY <1>1, <1>3, <2>0, <3>1, HeldForm
    <3> DEFINE p == ui.queued \o wire
               q == ui'.queued \o wire'
    <3>3. Core(ui, answers) /\ Flows(ui, answers, p, 0)
      BY <2>1 DEF Accord
    <3>4. Core(ui', answers) /\ Flows(ui', answers, p, 0)
      <4> HIDE DEF p
      <4>1. (\A op : \A j \in Slots : Waits(ui', answers, j, op) <=> Waits(ui, answers, j, op))
            /\ \A op : Has(ui', op) <=> Has(ui, op)
        BY <3>2 DEF Waits, Has
      <4>2. /\ Given(ui', answers) <=> Given(ui, answers)
            /\ Live(ui', answers) <=> Live(ui, answers)
            /\ Taken(ui', answers) <=> Taken(ui, answers)
        BY <3>2, <4>1 DEF Given, Live, Taken, Shape
      <4>3. \A i \in Slots : CallFits(ui', answers, i)
        BY <3>2, <3>3, <4>1, <4>2 DEF Core, CallFits, Shape
      <4>4. Known(ui', answers) /\ Bound(ui') /\ Unbound(ui')
        BY <3>2, <3>3, <4>1, <4>2 DEF Core, Known, Bound, Unbound, Shape
      <4>5. Flows(ui', answers, p, 0)
        BY <3>3, <4>2 DEF Flows, Decides, Echoes, Announced
      <4> QED
        BY <4>3, <4>4, <4>5 DEF Core
    <3>5. /\ Len(q) \in Nat /\ Len(p) = Len(q) + 0
          /\ \A n \in Nat : 0 < n /\ n <= Len(q) => q[n] = p[n + 0]
      <4> DEFINE s == ui.queued
                 r == Append(s, e)
      <4>1. /\ r \in Seq(Signals) /\ Len(r) = Len(s) + 1 /\ r[Len(s) + 1] = e
            /\ \A n \in 1..Len(s) : r[n] = s[n]
        BY <2>0, <2>3, AppendProperties
      <4>2. wire' \in Seq(Signals \cup {Disconnected})
        BY <1>1, HeadTailProperties
      <4>3. /\ Len(p) = Len(s) + Len(wire) /\ Len(s) \in Nat /\ Len(wire) \in Nat
            /\ \A n \in Nat : 0 < n /\ n <= Len(s) => p[n] = s[n]
            /\ \A n \in Nat : Len(s) < n /\ n <= Len(s) + Len(wire) => p[n] = wire[n - Len(s)]
        BY <1>1, <2>3, RowIs
      <4>4. /\ Len(q) = Len(r) + Len(wire') /\ Len(r) \in Nat /\ Len(wire') \in Nat
            /\ \A n \in Nat : 0 < n /\ n <= Len(r) => q[n] = r[n]
            /\ \A n \in Nat : Len(r) < n /\ n <= Len(r) + Len(wire') => q[n] = wire'[n - Len(r)]
        BY <3>2, <4>1, <4>2, RowIs
      <4> HIDE DEF p, q, r, s
      <4>5. Len(q) \in Nat /\ Len(p) = Len(q) + 0
        BY <1>2, <4>1, <4>3, <4>4
      <4>6. ASSUME NEW n \in Nat, 0 < n, n <= Len(q)
            PROVE  q[n] = p[n + 0]
        <5>0. n + 0 = n
          OBVIOUS
        <5>1. CASE n <= Len(s)
          BY <4>1, <4>3, <4>4, <4>6, <5>0, <5>1
        <5>2. CASE n = Len(s) + 1
          <6>1. q[n] = e
            BY <4>1, <4>3, <4>4, <5>2
          <6>2. p[n] = wire[1]
            <7>1. n - Len(s) = 1 /\ Len(s) < n /\ n <= Len(s) + Len(wire)
              BY <1>2, <4>3, <5>2
            <7> QED
              BY <4>3, <7>1
          <6> QED
            BY <1>2, <5>0, <6>1, <6>2
        <5>3. CASE Len(s) + 1 < n
          <6>1. /\ Len(r) < n /\ n <= Len(r) + Len(wire') /\ Len(s) < n /\ n <= Len(s) + Len(wire)
                /\ n - Len(r) \in Nat /\ 0 < n - Len(r) /\ n - Len(r) <= Len(wire')
                /\ n - Len(r) + 1 = n - Len(s)
            BY <1>2, <4>1, <4>3, <4>4, <4>6, <5>3
          <6>2. q[n] = wire'[n - Len(r)] /\ p[n] = wire[n - Len(s)]
            BY <4>3, <4>4, <6>1
          <6>3. wire'[n - Len(r)] = wire[n - Len(r) + 1]
            BY <1>2, <6>1
          <6> QED
            BY <5>0, <6>1, <6>2, <6>3
        <5> QED
          BY <4>3, <4>6, <5>1, <5>2, <5>3
      <4> QED
        BY <4>5, <4>6
    <3>6. Flows(ui', answers, q, 0)
      <4> HIDE DEF p, q
      <4> QED
        BY <3>4, <3>5, Shifted
    <3>7. Core(ui', answers') /\ Flows(ui', answers', q, 0)
      <4> HIDE DEF q
      <4> QED
        BY <1>6, <3>4, <3>6, SameReplies
    <3> QED
      BY <2>4, <2>5, <3>7 DEF Accord
  <2>7. CASE ~ui.beginInFlight
    <3> DEFINE p == ui.queued \o wire
               q == ui'.queued \o wire'
    <3>1. ui.queued = <<>> /\ ui'.queued = <<>> /\ ~Has(ui, "begin")
      BY <2>1, <2>2, <2>7 DEF Accord, Clean, Orderly
    <3>2. /\ Len(p) = Len(wire) /\ \A n \in Nat : 0 < n /\ n <= Len(wire) => p[n] = wire[n]
      BY <1>1, <3>1, EmptyRow
    <3>3. /\ Len(q) = Len(wire') /\ \A n \in Nat : 0 < n /\ n <= Len(wire') => q[n] = wire'[n]
      <4>1. wire' \in Seq(Signals \cup {Disconnected})
        BY <1>1, HeadTailProperties
      <4> QED
        BY <3>1, <4>1, EmptyRow
    <3>4. Core(ui, answers) /\ Flows(ui, answers, p, 0)
      BY <2>1 DEF Accord
    <3> HIDE DEF p, q
    <3>5. p[0 + 1] = e /\ 0 < Len(p) /\ Len(p) \in Nat
      BY <1>2, <3>2
    <3>6. Looks(ui, answers, p, 0)
      <4>1. \A i \in Slots : answers[i].result \in {"none", "ok", "error"}
        BY <1>3 DEF Replied
      <4>2. ASSUME phase = "Failed", NEW i \in Slots, ui.calls[i].op = "start"
            PROVE  answers[i].result # "ok" /\ serving # i
        <5>1. answers[i].result # "ok"
          BY <4>2 DEF Inv, HandoffKnown
        <5>2. serving # i
          BY <2>1, <4>2, SlotsAssumption DEF ServingFits
        <5> QED
          BY <5>1, <5>2
      <4> QED
        BY <1>1, <1>3, <1>4, <2>0, <2>1, <2>7, <3>1, <3>4, <3>5, <4>1, <4>2 DEF Looks
    <3>7. Core(ui', answers) /\ Flows(ui', answers, p, 1)
      <4>1. ui' = HandleEvent(ui, p[0 + 1]) /\ 0 + 1 = 1
        BY <1>1, <3>5
      <4> QED
        BY <3>6, <4>1, HandleCore
    <3>8. Flows(ui', answers, q, 0)
      <4>1. Len(q) \in Nat /\ Len(p) = Len(q) + 1
        BY <1>2, <3>2, <3>3
      <4>2. ASSUME NEW n \in Nat, 0 < n, n <= Len(q)
            PROVE  q[n] = p[n + 1]
        <5>1. n + 1 \in Nat /\ 0 < n + 1 /\ n + 1 <= Len(wire)
          BY <1>2, <3>3, <4>2
        <5> QED
          BY <1>2, <3>2, <3>3, <4>2, <5>1
      <4> QED
        BY <3>7, <4>1, <4>2, Shifted
    <3>9. Core(ui', answers') /\ Flows(ui', answers', q, 0)
      BY <1>6, <3>7, <3>8, SameReplies
    <3> QED
      BY <2>4, <2>5, <3>9 DEF Accord, q
  <2> QED
    BY <2>6, <2>7
<1> HIDE DEF Inv, Agreement
<1> QED
  BY <1>1, <1>5, <1>7, <1>8, Unmoved

-----------------------------------------------------------------------------
(* What the replies do.                                                     *)

\* The reply of slot i leaves the bus, and what concerns the others stays.
Leaves(i) ==
  /\ UNCHANGED <<wire, online, backendVars>>
  /\ Replied(answers')
  /\ answers'[i].result = "none" /\ (online => serving # i)
  /\ \A j \in Slots \ {i} : answers'[j] = answers[j]

\* The reply of a call that concerns authentication.
LEMMA AnsweredLeaves ==
  ASSUME Inv, Agreement, NEW i \in Slots, Answered(i)
  PROVE  Leaves(i)
<1>1. /\ answers'[i] = NoAnswer /\ (online => serving # i)
      /\ answers' = [answers EXCEPT ![i] = NoAnswer]
  BY AnsweredFits DEF Answered
<1>2. NoAnswer.result = "none" /\ NoAnswer.after \in Nat
  BY NoAnswerIs
<1>3. \A j \in Slots \ {i} : answers'[j] = answers[j]
  BY <1>1
<1>4. Replied(answers)
  BY Grounds
<1>5. Replied(answers')
  BY <1>1, <1>2, <1>3, <1>4 DEF Replied
<1> QED
  BY <1>1, <1>2, <1>3, <1>5 DEF Leaves, Answered

\* The reply of one that does not.
LEMMA ElsewhereLeaves ==
  ASSUME Inv, Agreement, NEW i \in Slots, NEW op, Elsewhere(i, op),
         op \in {"listUsers", "listSessions", "readPreference", "powerAction"}
  PROVE  Leaves(i)
<1>1. UNCHANGED <<wire, answers, online, backendVars>> /\ ui.calls[i].op = op
  BY DEF Elsewhere
<1>2. answers[i] = NoAnswer /\ (online => serving # i)
  BY <1>1, SlotsAssumption DEF Inv, AnswersFit, ServingFits
<1>3. NoAnswer.result = "none"
  BY NoAnswerIs
<1>4. Replied(answers)
  BY Grounds
<1> HIDE DEF Inv, Agreement
<1>5. Replied(answers')
  BY <1>1, <1>4
<1> QED
  BY <1>1, <1>2, <1>3, <1>5 DEF Leaves

\* The call has returned, nothing else has happened yet.
LEMMA ReturnedGround ==
  ASSUME Inv, Agreement, NEW i \in Slots, Leaves(i), ui.calls[i].op # "none"
  PROVE  LET f == Return(ui, i) IN
         /\ f \in Feature /\ FreeSlots(f) # {} /\ Stays(ui, f)
         /\ f.calls[i] = NoCall /\ NoCall.op = "none"
         /\ \A j \in Slots \ {i} : f.calls[j] = ui.calls[j]
         /\ \A op : op # "none" => (Has(f, op) => Has(ui, op)) /\ (Once(ui, op) => Once(f, op))
         /\ \A op : op # "none" /\ op = ui.calls[i].op /\ Once(ui, op) => ~Has(f, op)
         /\ online => \A j \in Slots : f.calls[j] = NoCall => answers'[j].result = "none" /\ serving # j
<1> DEFINE f == Return(ui, i)
<1>1. Sound(ui)
  BY Grounds
<1> HIDE DEF f
<1>2. /\ f \in Feature /\ Alike(ui, f) /\ FreeSlots(f) # {}
      /\ f.calls[i] = NoCall /\ \A j \in Slots \ {i} : f.calls[j] = ui.calls[j]
      /\ \A op : op # "none" => (Has(f, op) => Has(ui, op)) /\ (Once(ui, op) => Once(f, op))
      /\ \A op : op # "none" /\ op = ui.calls[i].op /\ Once(ui, op) => ~Has(f, op)
  BY <1>1, Returned DEF f
<1>3. Stays(ui, f)
  BY <1>2 DEF Alike, Stays, Shape, Holds
<1>4. ASSUME online, NEW j \in Slots, f.calls[j] = NoCall
      PROVE  answers'[j].result = "none" /\ serving # j
  <2>1. CASE j = i
    BY <1>4, <2>1 DEF Leaves
  <2>2. CASE j # i
    <3>1. ui.calls[j] = NoCall /\ answers'[j] = answers[j]
      BY <1>2, <1>4, <2>2 DEF Leaves
    <3> QED
      BY <1>4, <3>1, Grounds
  <2> QED
    BY <2>1, <2>2
<1> QED
  BY <1>2, <1>3, <1>4, PendingTypes DEF f

\* A reply that changes nothing a conversation depends on.
LEMMA StaysReply ==
  ASSUME Inv, Agreement, NEW i \in Slots, Leaves(i), NEW g, Stays(ui, g),
         \A j \in Slots \ {i} : g.calls[j] = ui.calls[j],
         g.calls[i].op # ui.calls[i].op,
         g.calls[i].op \in {"none", "listUsers", "readPreference"},
         online =>
           /\ \/ ui.calls[i].op \in Dull
              \/ ui.calls[i].op = "respond" /\ answers[i].result # "none"
              \/ ui.calls[i].op = "start" /\ answers[i].result = "error"
           /\ g.calls[i].op = "listUsers" =>
                ui.attempt = None /\ (g.calls[i].arg = "Idle" => phase = "Idle")
  PROVE  Steady(g) /\ (online => Accord(g, answers', wire))
<1>1. Steady(ui) /\ serving \in Slots \cup {0} /\ \A j \in Slots : ui.calls[j] \in Calls
  BY Grounds
<1>2. Steady(g)
  BY <1>1, SteadyStays DEF Conversations
<1>3. ASSUME online
      PROVE  Accord(g, answers', wire)
  <2>1. Accord(ui, answers, wire)
    BY <1>3, Grounds
  <2> HIDE DEF Inv, Agreement
  <2>2. Turns(ui, answers, g, answers')
    BY <1>3 DEF Turns, Leaves
  <2>3. g.calls[i].op \in Dull
    BY DEF Dull
  <2>4. ~Waits(ui, answers, i, "respond")
    BY <1>3 DEF Waits, Dull
  <2>5. \A j \in Slots :
           \/ g.calls[j] = ui.calls[j]
           \/ /\ g.calls[j].op \in Dull
              /\ ui.attempt # None => g.calls[j].op \notin {"getState", "listUsers"}
              /\ g.calls[j].op = "listUsers" /\ g.calls[j].arg = "Idle" => phase = "Idle"
              /\ \/ ui.calls[j].op \in Dull \cup {"respond"}
                 \/ ui.calls[j].op = "start" /\ answers[j].result = "error"
              /\ ~Waits(ui, answers, j, "respond")
    BY <1>3, <2>3, <2>4
  <2> QED
    BY <1>1, <2>1, <2>2, <2>5, StaysTurn
<1> QED
  BY <1>2, <1>3

\* While the service is loaded no conversation is bound.
LEMMA LoadingGround ==
  ASSUME Inv, Agreement, online, NEW i \in Slots, ui.calls[i].op \in {"getState", "listUsers"}
  PROVE  /\ Loading(ui) /\ ui.attempt = None /\ ui.mode = "userSelection" /\ ui.recovery = "none"
         /\ ~Has(ui, "begin") /\ ~Has(ui, "cancel")
<1>1. Orderly(ui) /\ Accord(ui, answers, wire) /\ Steady(ui)
  BY Grounds
<1> HIDE DEF Inv, Agreement
<1>2. Loading(ui) /\ ~Has(ui, "begin") /\ ~Has(ui, "cancel")
  BY <1>1 DEF Orderly, Has, Loading
<1>3. ui.mode = "userSelection"
  BY <1>1, <1>2 DEF Loading, Accord, Core, Unbound
<1> QED
  BY <1>1, <1>2, <1>3 DEF Loading, Steady

\* The service is lost before it was loaded.
LEMMA LoadFailedAgree ==
  ASSUME Inv, Agreement, NEW i \in Slots, Leaves(i), ui.calls[i].op \in {"getState", "listUsers"},
         LoadFailed(i)
  PROVE  Steady(ui') /\ (online => Accord(ui', answers', wire))
<1>0. PICK f : f = Return(ui, i)
  OBVIOUS
<1>1. /\ f \in Feature /\ Stays(ui, f)
      /\ f.calls[i] = NoCall /\ NoCall.op = "none"
      /\ \A j \in Slots \ {i} : f.calls[j] = ui.calls[j]
      /\ \A op : op # "none" => (Has(f, op) => Has(ui, op)) /\ (Once(ui, op) => Once(f, op))
  BY <1>0, ReturnedGround
<1>2. Steady(ui) /\ serving \in Slots \cup {0} /\ \A j \in Slots : ui.calls[j] \in Calls
  BY Grounds
<1>3. ui' = ServiceLost(f)
  BY <1>0 DEF LoadFailed
<1>4. PICK g : g = ui'
  OBVIOUS
<1>5. /\ Shape(g, f.attempt, "unavailable", "error", f.recovery, f.prompt, f.user)
      /\ Holds(f, g) /\ g.calls = f.calls
  BY <1>1, <1>3, <1>4 DEF Feature, ServiceLost, Shape, Holds
<1>6. /\ Shape(g, ui.attempt, "unavailable", "error", ui.recovery, ui.prompt, ui.user)
      /\ Holds(ui, g)
  BY <1>1, <1>5 DEF Stays, Shape, Holds
<1>7. \A op : op # "none" => (Has(g, op) => Has(ui, op)) /\ (Once(ui, op) => Once(g, op))
  BY <1>1, <1>5 DEF Has, Once
<1>8. Steady(g)
  BY <1>2, <1>6, <1>7 DEF Steady, Shape, Holds
<1>9. ASSUME online
      PROVE  Accord(g, answers', wire)
  <2>1. Accord(ui, answers, wire) /\ ui.attempt = None /\ ui.recovery = "none"
    BY <1>9, Grounds, LoadingGround
  <2> HIDE DEF Inv, Agreement
  <2>2. Turns(ui, answers, g, answers')
    BY <1>1, <1>5, <1>9 DEF Turns, Leaves
  <2>3. Clean(g) /\ Unbound(g) /\ g.attempt = None /\ g.queued = ui.queued
    BY <1>6, <2>1 DEF Accord, Clean, Unbound, Shape, Holds
  <2>4. \A j \in Slots :
           \/ g.calls[j] = ui.calls[j]
           \/ /\ g.calls[j].op \in Dull \/ (g.calls[j].op = "begin" /\ Quiet)
              /\ g.calls[j].op = "listUsers" /\ g.calls[j].arg = "Idle" => phase = "Idle"
              /\ ~Waits(ui, answers, j, "cancel")
              /\ ui.calls[j].op = "begin" => answers[j].result # "ok"
    BY <1>1, <1>5 DEF Waits, Dull
  <2> QED
    BY <1>2, <2>1, <2>2, <2>3, <2>4, LooseTurn
<1> QED
  BY <1>4, <1>8, <1>9

\* The state is known, or the service lost.
LEMMA GetStateAgree ==
  ASSUME Inv, Agreement, NEW i \in Slots, GetStateReturns(i)
  PROVE  Leaves(i) /\ Steady(ui') /\ (online => Accord(ui', answers', wire))
<1>1. Answered(i) /\ ui.calls[i].op = "getState"
  BY AnsweredIs DEF GetStateReturns
<1>2. Leaves(i)
  BY <1>1, AnsweredLeaves
<1>3. CASE Reply(i, "getState") /\ StateRead(i, answers[i].value)
  <2> DEFINE call == Pending("listUsers", answers[i].value, None)
  <2>1. call.op = "listUsers" /\ call.arg = answers[i].value
    BY DEF Pending
  <2>2. ui \in Feature /\ call \in Calls /\ answers[i].result # "none"
    <3>1. answers[i] # NoAnswer
      BY <1>3, AnsweredIs
    <3>2. answers[i].value \in Phases
      BY <1>1, <3>1 DEF Inv, AnswersFit
    <3> QED
      BY <3>1, <3>2, Grounds, PendingTypes DEF Replied
  <2>3. PICK g : g = ui' /\ g = [ui EXCEPT !.calls[i] = call]
    BY <1>3 DEF StateRead, Proceed
  <2> HIDE DEF call
  <2>4. /\ g = [ui EXCEPT !.calls = g.calls] /\ g.calls[i] = call
        /\ \A j \in Slots \ {i} : g.calls[j] = ui.calls[j]
    BY <2>2, <2>3, CallPut
  <2>5. Stays(ui, g)
    BY <2>2, <2>4, FieldsKept DEF Alike, Stays, Shape, Holds
  <2>6. ASSUME online
        PROVE  ui.attempt = None /\ (g.calls[i].arg = "Idle" => phase = "Idle")
    <3>1. ui.attempt = None /\ Accord(ui, answers, wire)
      BY <1>1, <2>6, LoadingGround, Grounds
    <3> QED
      BY <1>1, <2>1, <2>2, <2>4, <3>1 DEF Accord, Core, CallFits
  <2>7. ui.calls[i].op \in Dull
    BY <1>1 DEF Dull
  <2> HIDE DEF Inv, Agreement
  <2> QED
    BY <1>1, <1>2, <2>1, <2>3, <2>4, <2>5, <2>6, <2>7, StaysReply
<1>4. CASE ConnectionLost(i, "getState") /\ LoadFailed(i)
  BY <1>1, <1>2, <1>4, LoadFailedAgree
<1> QED
  BY <1>2, <1>3, <1>4 DEF GetStateReturns

\* An answer was taken, or the attempt it belongs to is over.
LEMMA RespondReturnsAgree ==
  ASSUME Inv, Agreement, NEW i \in Slots, RespondReturns(i)
  PROVE  Leaves(i) /\ Steady(ui') /\ (online => Accord(ui', answers', wire))
<1>1. Answered(i) /\ ui.calls[i].op = "respond"
  BY AnsweredIs DEF RespondReturns
<1>2. Leaves(i)
  BY <1>1, AnsweredLeaves
<1>3. PICK ok \in BOOLEAN :
        /\ Responded(i, ok)
        /\ online => answers[i].after = 0 /\ answers[i].result \in {"ok", "error"}
                       /\ (~ok => answers[i].result = "error")
  <2>1. CASE Reply(i, "respond") /\ Responded(i, Succeeded(i))
    <3>1. answers[i] # NoAnswer /\ answers[i].after = 0
      BY <2>1 DEF Reply
    <3>2. answers[i].result \in {"ok", "error"}
      BY <3>1, Grounds DEF Replied
    <3>3. ~Succeeded(i) => answers[i].result = "error"
      BY <3>2 DEF Succeeded
    <3> QED
      BY <2>1, <3>1, <3>2, <3>3, SucceededIs, Zenon
  <2>2. CASE ConnectionLost(i, "respond") /\ Responded(i, FALSE)
    <3>1. ~online
      BY <2>2 DEF ConnectionLost
    <3> QED
      BY <2>2, <3>1, Literals, Zenon
  <2> QED
    BY <2>1, <2>2 DEF RespondReturns
<1>4. PICK f : f = Return(ui, i)
  OBVIOUS
<1>5. /\ f \in Feature /\ Stays(ui, f)
      /\ f.calls[i] = NoCall /\ NoCall.op = "none"
      /\ \A j \in Slots \ {i} : f.calls[j] = ui.calls[j]
      /\ \A op : op # "none" => (Has(f, op) => Has(ui, op)) /\ (Once(ui, op) => Once(f, op))
  BY <1>1, <1>2, <1>4, ReturnedGround
<1>6. Steady(ui) /\ \A j \in Slots : ui.calls[j] \in Calls
  BY Grounds
<1>7. CASE ok \/ ui.calls[i].key # ui.attempt
  <2>1. ui' = f
    BY <1>3, <1>4, <1>7 DEF Responded
  <2> QED
    BY <1>1, <1>2, <1>3, <1>5, <2>1, StaysReply
<1>8. CASE ~ok /\ ui.calls[i].key = ui.attempt
  <2>1. ui.attempt # None
    BY <1>1, <1>6, <1>8, CallTypes, NoneAssumption DEF Attempts
  <2>2. ~online
    <3> SUFFICES ASSUME online
                 PROVE  FALSE
      OBVIOUS
    <3>1. Accord(ui, answers, wire) /\ answers[i].result = "error" /\ answers[i].after = 0
      BY <1>3, <1>8, Grounds
    <3>2. FailedWithin(wire, 0)
      BY <1>1, <1>8, <2>1, <3>1 DEF Accord, Late
    <3> QED
      BY <3>2 DEF FailedWithin
  <2>3. PICK g : g = ui' /\ g = ShowAuthError(f, "retryAuthentication")
    BY <1>3, <1>4, <1>8 DEF Responded
  <2>4. /\ Shape(g, f.attempt, f.service, "error", "retryAuthentication", f.prompt, f.user)
        /\ Holds(f, g) /\ g.calls = f.calls
    BY <1>5, <2>3 DEF Feature, ShowAuthError, Shape, Holds
  <2>5. \A op : op # "none" => (Has(g, op) => Has(ui, op)) /\ (Once(ui, op) => Once(g, op))
    BY <1>5, <2>4 DEF Has, Once
  <2>6. ~Has(g, "begin") /\ ~Has(g, "cancel") /\ Once(g, "begin") /\ Once(g, "cancel")
    BY <1>6, <2>1, <2>5 DEF Steady
  <2>7. Steady(g)
    BY <2>4, <2>6 DEF Steady, Shape
  <2> QED
    BY <1>2, <2>2, <2>3, <2>7
<1> QED
  BY <1>7, <1>8

\* The sessions were listed, or not.
LEMMA SessionsReturnAgree ==
  ASSUME Inv, Agreement, NEW i \in Slots, SessionsReturn(i)
  PROVE  Leaves(i) /\ Steady(ui') /\ (online => Accord(ui', answers', wire))
<1>1. Elsewhere(i, "listSessions") /\ ui.calls[i].op = "listSessions"
  BY DEF SessionsReturn, Elsewhere
<1>2. Leaves(i)
  BY <1>1, ElsewhereLeaves
<1>3. PICK f : f = Return(ui, i)
  OBVIOUS
<1>4. /\ f \in Feature /\ Stays(ui, f)
      /\ f.calls[i] = NoCall /\ NoCall.op = "none"
      /\ \A j \in Slots \ {i} : f.calls[j] = ui.calls[j]
  BY <1>1, <1>2, <1>3, ReturnedGround
<1>5. ui.calls[i].op \in Dull
  BY <1>1 DEF Dull
<1>6. ui \in Feature /\ \A j \in Slots : ui.calls[j] \in Calls
  BY Grounds
<1>7. CASE ui' = f
  BY <1>1, <1>2, <1>4, <1>5, <1>7, StaysReply
<1>8. ASSUME NEW sessions \in SUBSET Sessions, SessionsListed(i, sessions), Current(i)
      PROVE  Steady(ui') /\ (online => Accord(ui', answers', wire))
  <2> DEFINE call == Pending("readPreference", sessions, ui.calls[i].key)
  <2>1. call.op = "readPreference" /\ call \in Calls
    <3>1. ui.calls[i].key \in Nat
      BY <1>1, <1>6, CallTypes
    <3> QED
      BY <3>1, PendingTypes DEF Pending
  <2>2. PICK g : g = ui' /\ g = [ui EXCEPT !.calls[i] = call]
    BY <1>8 DEF SessionsListed, Proceed
  <2> HIDE DEF call
  <2>3. /\ g = [ui EXCEPT !.calls = g.calls] /\ g.calls[i] = call
        /\ \A j \in Slots \ {i} : g.calls[j] = ui.calls[j]
    BY <1>6, <2>1, <2>2, CallPut
  <2>4. Stays(ui, g)
    BY <1>6, <2>3, FieldsKept DEF Alike, Stays, Shape, Holds
  <2> QED
    BY <1>1, <1>2, <1>5, <2>1, <2>2, <2>3, <2>4, StaysReply
<1>9. CASE SessionsFailed(i) /\ Current(i)
  <2>1. PICK g : g = ui' /\ g = [f EXCEPT !.catalog = "failed"]
    BY <1>3, <1>9 DEF SessionsFailed
  <2>2. Stays(f, g) /\ g.calls = f.calls
    BY <1>4, <2>1 DEF Feature, Stays, Shape, Holds
  <2>3. Stays(ui, g)
    BY <1>4, <2>2 DEF Stays, Shape, Holds
  <2>4. /\ \A j \in Slots \ {i} : g.calls[j] = ui.calls[j]
        /\ g.calls[i].op = "none" /\ g.calls[i].op # ui.calls[i].op
    BY <1>1, <1>4, <2>2
  <2> HIDE DEF Inv, Agreement
  <2> QED
    BY <1>1, <1>2, <1>5, <2>1, <2>3, <2>4, StaysReply
<1>10. ui' = f \/ Current(i)
  BY <1>3 DEF SessionsReturn, SessionsListed, SessionsFailed
<1> QED
  BY <1>2, <1>7, <1>8, <1>9, <1>10 DEF SessionsReturn

\* The power action is over.
LEMMA PowerReturnsAgree ==
  ASSUME Inv, Agreement, NEW i \in Slots, PowerReturns(i)
  PROVE  Leaves(i) /\ Steady(ui') /\ (online => Accord(ui', answers', wire))
<1>1. Elsewhere(i, "powerAction") /\ ui.calls[i].op = "powerAction"
  BY DEF PowerReturns, Elsewhere
<1>2. Leaves(i)
  BY <1>1, ElsewhereLeaves
<1>3. PICK f : f = Return(ui, i)
  OBVIOUS
<1>4. /\ f \in Feature /\ Stays(ui, f)
      /\ f.calls[i] = NoCall /\ NoCall.op = "none"
      /\ \A j \in Slots \ {i} : f.calls[j] = ui.calls[j]
  BY <1>1, <1>2, <1>3, ReturnedGround
<1>5. PICK g : g = ui' /\ g = [f EXCEPT !.power = "idle"]
  BY <1>3 DEF PowerReturns, PowerReturned
<1>6. Stays(f, g) /\ g.calls = f.calls
  BY <1>4, <1>5 DEF Feature, Stays, Shape, Holds
<1>7. Stays(ui, g) /\ ui.calls[i].op \in Dull
  BY <1>1, <1>4, <1>6 DEF Stays, Shape, Holds, Dull
<1>8. /\ \A j \in Slots \ {i} : g.calls[j] = ui.calls[j]
      /\ g.calls[i].op = "none" /\ g.calls[i].op # ui.calls[i].op
  BY <1>1, <1>4, <1>6
<1> HIDE DEF Inv, Agreement
<1> QED
  BY <1>1, <1>2, <1>5, <1>7, <1>8, StaysReply

\* The catalog is complete: a conversation may begin.
LEMMA PreferenceReturnsAgree ==
  ASSUME Inv, Agreement, NEW i \in Slots, PreferenceReturns(i)
  PROVE  Leaves(i) /\ Steady(ui') /\ (online => Accord(ui', answers', wire))
<1>1. Elsewhere(i, "readPreference") /\ ui.calls[i].op = "readPreference"
  BY DEF PreferenceReturns, Elsewhere
<1>2. Leaves(i)
  BY <1>1, ElsewhereLeaves
<1>3. PICK f : f = Return(ui, i)
  OBVIOUS
<1>4. /\ f \in Feature /\ Stays(ui, f) /\ FreeSlots(f) # {}
      /\ f.calls[i] = NoCall /\ NoCall.op = "none"
      /\ \A j \in Slots \ {i} : f.calls[j] = ui.calls[j]
      /\ online => \A j \in Slots : f.calls[j] = NoCall => answers'[j].result = "none" /\ serving # j
  BY <1>1, <1>2, <1>3, ReturnedGround
<1>5. ui.calls[i].op \in Dull
  BY <1>1 DEF Dull
<1>6. ui \in Feature /\ serving \in Slots \cup {0} /\ \A j \in Slots : ui.calls[j] \in Calls
  BY Grounds
<1>7. CASE ~Current(i)
  <2>1. ui' = f
    BY <1>3, <1>7 DEF PreferenceReturns, PreferenceRead
  <2> QED
    BY <1>1, <1>2, <1>4, <1>5, <2>1, StaysReply
<1>8. CASE Current(i)
  <2>1. PICK stored \in Sessions \cup {None} : PreferenceRead(i, stored)
    BY DEF PreferenceReturns
  <2> DEFINE sessions == ui.calls[i].arg
             key == ui.calls[i].key
             chosen == GetSelectedSession(ui.session, stored, sessions)
             h == [f EXCEPT !.catalog = "ready", !.sessions = sessions,
                            !.session = chosen, !.loaded = key]
  <2>2. sessions \in SUBSET Sessions /\ key \in Nat
    BY <1>1, <1>6, CallTypes
  <2>3. ui' = BeginIfReady(h)
    BY <1>3, <1>8, <2>1 DEF PreferenceRead
  <2>4. chosen \in Sessions \cup {None}
    <3>1. chosen \in sessions \cup {None}
      <4> HIDE DEF sessions
      <4> QED
        BY DEF GetSelectedSession
    <3> QED
      BY <2>2, <3>1
  <2> HIDE DEF sessions, key, chosen
  <2>5. h \in Feature
    BY <1>4, <2>2, <2>4 DEF Feature
  <2>6. Stays(f, h) /\ h.calls = f.calls
    BY <1>4 DEF Feature, Stays, Shape, Holds
  <2> HIDE DEF h
  <2>7. Stays(ui, h)
    BY <1>4, <2>6 DEF Stays, Shape, Holds
  <2>8. Steady(h) /\ (online => Accord(h, answers', wire))
    BY <1>1, <1>2, <1>4, <1>5, <2>6, <2>7, StaysReply
  <2>9. FreeSlots(h) # {}
    BY <1>4, <2>6 DEF FreeSlots
  <2>10. \A j \in Slots : online /\ h.calls[j] = NoCall => answers'[j].result = "none" /\ serving # j
    BY <1>4, <2>6
  <2> HIDE DEF Inv, Agreement
  <2> QED
    BY <1>2, <1>6, <2>3, <2>5, <2>8, <2>9, <2>10, SteadyBegin, AccordBegin
<1> QED
  BY <1>7, <1>8

\* The accounts are known: the service is ready, or its backend is busy.
LEMMA UsersListedAgree ==
  ASSUME Inv, Agreement, NEW i \in Slots, Leaves(i), ui.calls[i].op = "listUsers", online,
         UsersListed(i)
  PROVE  Steady(ui') /\ Accord(ui', answers', wire)
<1>1. PICK f0 : f0 = Return(ui, i)
  OBVIOUS
<1>2. /\ f0 \in Feature /\ Stays(ui, f0) /\ FreeSlots(f0) # {}
      /\ f0.calls[i] = NoCall /\ NoCall.op = "none"
      /\ \A j \in Slots \ {i} : f0.calls[j] = ui.calls[j]
      /\ \A op : op # "none" => (Has(f0, op) => Has(ui, op)) /\ (Once(ui, op) => Once(f0, op))
      /\ \A j \in Slots : f0.calls[j] = NoCall => answers'[j].result = "none" /\ serving # j
  BY <1>1, ReturnedGround
<1>3. /\ Steady(ui) /\ Accord(ui, answers, wire)
      /\ serving \in Slots \cup {0} /\ \A j \in Slots : ui.calls[j] \in Calls
  BY Grounds
<1>4. /\ ui.attempt = None /\ ~Has(ui, "begin") /\ ~Has(ui, "cancel")
      /\ ui.generation \in 0..MaxLoads /\ ui.generation < MaxLoads /\ f0.generation = ui.generation
  BY <1>1, Grounds, LoadingGround, Returned DEF Loading, Feature, Alike
<1> DEFINE f == [f0 EXCEPT !.service = "ready", !.promptError = FALSE]
<1>5. f \in Feature
  BY <1>2, Literals DEF Feature
<1>6. Holds(f0, f) /\ f.calls = f0.calls
  BY <1>2 DEF Feature, Holds
<1>7. \A j \in Slots :
           \/ f0.calls[j] = ui.calls[j]
           \/ /\ f0.calls[j].op \in Dull \/ (f0.calls[j].op = "begin" /\ Quiet)
              /\ f0.calls[j].op = "listUsers" /\ f0.calls[j].arg = "Idle" => phase = "Idle"
              /\ ~Waits(ui, answers, j, "cancel")
              /\ ui.calls[j].op = "begin" => answers[j].result # "ok"
  BY <1>2 DEF Waits, Dull
<1>8. CASE ui.calls[i].arg # "Idle"
  <2>1. PICK g : g = ui' /\ g = [f EXCEPT !.mode = "error", !.recovery = "reconnectService",
                                         !.dormant = FALSE]
    BY <1>1, <1>8 DEF UsersListed
  <2>2. /\ Shape(g, f0.attempt, "ready", "error", "reconnectService", f0.prompt, f0.user)
        /\ Holds(f0, g) /\ g.calls = f0.calls
    BY <1>2, <2>1 DEF Feature, Shape, Holds
  <2>3. /\ Shape(g, None, "ready", "error", "reconnectService", ui.prompt, ui.user)
        /\ Holds(ui, g)
    BY <1>2, <1>4, <2>2 DEF Stays, Shape, Holds
  <2>4. \A op : op # "none" => (Has(g, op) => Has(ui, op)) /\ (Once(ui, op) => Once(g, op))
    BY <1>2, <2>2 DEF Has, Once
  <2>5. Steady(g)
    BY <1>3, <1>4, <2>3, <2>4 DEF Steady, Shape
  <2> HIDE DEF Inv, Agreement, f
  <2>6. Turns(ui, answers, g, answers')
    BY <1>2, <2>2 DEF Turns, Leaves
  <2>7. Clean(g) /\ Unbound(g) /\ g.attempt = None /\ g.queued = ui.queued
    BY <1>3, <2>3 DEF Accord, Clean, Unbound, Shape, Holds
  <2>8. \A j \in Slots :
           \/ g.calls[j] = ui.calls[j]
           \/ /\ g.calls[j].op \in Dull \/ (g.calls[j].op = "begin" /\ Quiet)
              /\ g.calls[j].op = "listUsers" /\ g.calls[j].arg = "Idle" => phase = "Idle"
              /\ ~Waits(ui, answers, j, "cancel")
              /\ ui.calls[j].op = "begin" => answers[j].result # "ok"
    BY <1>7, <2>2
  <2>9. Accord(g, answers', wire)
    BY <1>3, <1>4, <2>6, <2>7, <2>8, LooseTurn
  <2> QED
    BY <2>1, <2>5, <2>9
<1>9. CASE ui.calls[i].arg = "Idle"
  <2>0. phase = "Idle"
    BY <1>3, <1>9 DEF Accord, Core, CallFits
  <2> DEFINE user == SoleUser(f)
             h1 == [f EXCEPT !.mode = "userSelection", !.recovery = "none", !.user = user]
             h == [h1 EXCEPT !.sessions = {}, !.session = None]
             loaded == h.generation + 1
             k == [h EXCEPT !.generation = loaded, !.catalog = "loading"]
             call == Pending("listSessions", None, loaded)
  <2>1. ui' = Await(k, call)
    BY <1>1, <1>9 DEF UsersListed, LoadSessionCatalog
  <2>2. user \in Users \cup {None}
    <3>1. CASE Cardinality(Users) = 1
      <4>1. Users # {}
        BY <3>1, FS_EmptySet
      <4> QED
        BY <3>1, <4>1 DEF SoleUser
    <3>2. CASE Cardinality(Users) # 1
      BY <1>5, <3>2 DEF SoleUser, Feature
    <3> QED
      BY <3>1, <3>2
  <2> HIDE DEF user, loaded
  <2>3. /\ Shape(h, f0.attempt, "ready", "userSelection", "none", f0.prompt, user)
        /\ Holds(f0, h) /\ h.calls = f0.calls /\ h.generation = f0.generation
    BY <1>2 DEF Feature, Shape, Holds
  <2>4. h \in Feature
    <3> HIDE DEF f
    <3>1. h1 \in Feature
      BY <1>5, <2>2, ZenonT(40) DEF Feature
    <3> HIDE DEF h1
    <3> QED
      BY <3>1 DEF Feature
  <2> HIDE DEF f, h1, h
  <2>5. loaded \in 0..MaxLoads /\ loaded \in Nat
    BY <1>4, <2>3, LoadsAssumption DEF loaded
  <2>6. k \in Feature
    BY <2>4, <2>5 DEF Feature
  <2>7. Stays(h, k) /\ k.calls = h.calls
    BY <2>4 DEF Feature, Stays, Shape, Holds
  <2> HIDE DEF k
  <2>8. call \in Calls /\ call.op = "listSessions"
    BY <2>5, PendingTypes DEF Pending
  <2> HIDE DEF call
  <2>9. /\ Shape(h, None, "ready", "userSelection", "none", ui.prompt, user)
        /\ Holds(ui, h)
    BY <1>2, <1>4, <2>3 DEF Stays, Shape, Holds
  <2>10. \A op : op # "none" => (Has(h, op) => Has(ui, op)) /\ (Once(ui, op) => Once(h, op))
    BY <1>2, <2>3 DEF Has, Once
  <2>11. Steady(h)
    BY <1>3, <1>4, <2>9, <2>10 DEF Steady, Shape
  <2> HIDE DEF Inv, Agreement
  <2>12. Accord(h, answers', wire)
    <3>1. Turns(ui, answers, h, answers')
      BY <1>2, <2>3 DEF Turns, Leaves
    <3>2. Clean(h) /\ Unbound(h) /\ h.attempt = None /\ h.queued = ui.queued
      BY <1>3, <2>0, <2>9 DEF Accord, Clean, Unbound, Shape, Holds, Quiet
    <3> QED
      BY <1>3, <1>4, <1>7, <2>3, <3>1, <3>2, LooseTurn
  <2>13. /\ \A j \in Slots : h.calls[j] \in Calls
         /\ FreeSlots(h) # {}
         /\ \A j \in Slots : h.calls[j] = NoCall => answers'[j].result = "none" /\ serving # j
    BY <1>2, <2>3, <2>4 DEF FreeSlots, Feature
  <2> QED
    BY <1>3, <2>1, <2>6, <2>7, <2>8, <2>11, <2>12, <2>13, AsideAgree
<1> QED
  BY <1>8, <1>9

\* The accounts are known, or the service lost.
LEMMA UsersReturnAgree ==
  ASSUME Inv, Agreement, NEW i \in Slots, UsersReturn(i)
  PROVE  Leaves(i) /\ Steady(ui') /\ (online => Accord(ui', answers', wire))
<1>1. Elsewhere(i, "listUsers") /\ ui.calls[i].op = "listUsers"
  BY DEF UsersReturn, Elsewhere
<1>2. Leaves(i)
  BY <1>1, ElsewhereLeaves
<1> HIDE DEF Inv, Agreement
<1> QED
  BY <1>1, <1>2, UsersListedAgree, LoadFailedAgree DEF UsersReturn

\* The account picker without an account.
LEMMA ResetIs ==
  ASSUME NEW f \in Feature
  PROVE  LET h == ResetToUserSelection(f) IN
         /\ h \in Feature
         /\ Shape(h, f.attempt, f.service, "userSelection", "none", NoPrompt, None)
         /\ Holds(f, h) /\ h.calls = f.calls
<1> DEFINE h == ResetToUserSelection(f)
           catalog == CatalogShown(f)
           h1 == [f EXCEPT !.mode = "userSelection", !.user = None, !.prompt = NoPrompt]
           h2 == [h1 EXCEPT !.recovery = "none", !.promptError = FALSE, !.catalog = catalog]
<1>1. NoPrompt \in Prompts /\ catalog \in {"empty", "loading", "ready", "failed"}
  BY DEF Prompts, CatalogShown, Feature
<1>2. h = h2
  BY DEF ResetToUserSelection, Feature
<1> HIDE DEF catalog
<1>3. /\ Shape(h2, f.attempt, f.service, "userSelection", "none", NoPrompt, None)
      /\ Holds(f, h2) /\ h2.calls = f.calls
  BY DEF Feature, Shape, Holds
<1>4. h1 \in Feature
  BY <1>1 DEF Feature
<1> HIDE DEF h1
<1>5. h2 \in Feature
  <2> DEFINE k1 == [h1 EXCEPT !.catalog = catalog]
             k2 == [k1 EXCEPT !.recovery = "none"]
             k3 == [k2 EXCEPT !.promptError = FALSE]
  <2>0. h2 = k3
    BY <1>4 DEF Feature
  <2>1. k1 \in Feature
    BY <1>1, <1>4, SMTT(30) DEF Feature
  <2> HIDE DEF k1
  <2>2. k2 \in Feature
    BY <2>1 DEF Feature
  <2> HIDE DEF k2
  <2>3. k3 \in Feature
    BY <2>2, Literals DEF Feature
  <2> HIDE DEF k3, h2
  <2> QED
    BY <2>0, <2>3
<1> QED
  BY <1>2, <1>3, <1>5

\* The cancellation is over, or the service is lost.
LEMMA CancelReturnsAgree ==
  ASSUME Inv, Agreement, NEW i \in Slots, CancelReturns(i)
  PROVE  Leaves(i) /\ Steady(ui') /\ (online => Accord(ui', answers', wire))
<1>1. Answered(i) /\ ui.calls[i].op = "cancel"
  BY AnsweredIs DEF CancelReturns
<1>2. Leaves(i)
  BY <1>1, AnsweredLeaves
<1>3. PICK ok \in BOOLEAN :
        /\ Cancelled(i, ok)
        /\ online => answers[i].result # "none" /\ (ok => answers[i].result = "ok")
  <2>1. CASE Reply(i, "cancel") /\ Cancelled(i, Succeeded(i))
    <3>1. answers[i].result # "none"
      BY <2>1, Grounds DEF Reply, Replied
    <3>2. Succeeded(i) => answers[i].result = "ok"
      BY DEF Succeeded
    <3> QED
      BY <2>1, <3>1, <3>2, SucceededIs, Zenon
  <2>2. CASE ConnectionLost(i, "cancel") /\ Cancelled(i, FALSE)
    <3>1. ~online
      BY <2>2 DEF ConnectionLost
    <3> QED
      BY <2>2, <3>1, Literals, Zenon
  <2> QED
    BY <2>1, <2>2 DEF CancelReturns
<1>4. PICK f : f = Return(ui, i)
  OBVIOUS
<1>5. PICK next : next = ui.calls[i].arg
  OBVIOUS
<1>6. /\ Steady(ui) /\ serving \in Slots \cup {0} /\ \A j \in Slots : ui.calls[j] \in Calls
      /\ online => Accord(ui, answers, wire)
  BY Grounds
<1>7. next \in Users
  BY <1>1, <1>5, <1>6, CallTypes
<1>8. /\ f \in Feature /\ FreeSlots(f) # {} /\ Stays(ui, f)
      /\ f.calls[i] = NoCall /\ NoCall.op = "none"
      /\ \A j \in Slots \ {i} : f.calls[j] = ui.calls[j]
      /\ \A op : op # "none" => (Has(f, op) => Has(ui, op)) /\ (Once(ui, op) => Once(f, op))
      /\ \A op : op # "none" /\ op = ui.calls[i].op /\ Once(ui, op) => ~Has(f, op)
      /\ online => \A j \in Slots : f.calls[j] = NoCall => answers'[j].result = "none" /\ serving # j
  BY <1>1, <1>2, <1>4, ReturnedGround
<1>9. Has(ui, "cancel")
  BY <1>1 DEF Has
<1>10. /\ ui.attempt = None /\ ~Has(f, "begin") /\ ~Has(f, "cancel")
       /\ Once(f, "begin") /\ Once(f, "cancel")
  BY <1>1, <1>6, <1>8, <1>9 DEF Steady
<1>11. online => answers[i].result # "none" /\ (ok => phase = "Idle")
  BY <1>1, <1>3, <1>6 DEF Accord, Core, CallFits
<1>12. f.attempt = None /\ f.service = ui.service /\ Holds(ui, f)
  BY <1>8, <1>10 DEF Stays, Shape
<1>13. /\ ~ok => ui' = [ServiceLost(f) EXCEPT !.recovery = "none", !.promptError = FALSE]
       /\ ok /\ f.service # "ready" => ui' = ResetToUserSelection(f)
       /\ ok /\ f.service = "ready" => ui' = ChooseUser(ResetToUserSelection(f), next)
  BY <1>3, <1>4, <1>5 DEF Cancelled
<1>14. \A j \in Slots :
         online =>
           \/ f.calls[j] = ui.calls[j]
           \/ /\ f.calls[j].op \in Dull \/ (f.calls[j].op = "begin" /\ Quiet)
              /\ f.calls[j].op = "listUsers" /\ f.calls[j].arg = "Idle" => phase = "Idle"
              /\ ~Waits(ui, answers, j, "cancel")
              /\ ui.calls[j].op = "begin" => answers[j].result # "ok"
  BY <1>1, <1>8, <1>11 DEF Waits, Dull
<1>15. online => Turns(ui, answers, f, answers')
  BY <1>1, <1>2, <1>8 DEF Turns, Leaves
<1> HIDE DEF Inv, Agreement
<1>16. CASE ~ok
  <2> DEFINE lost == ServiceLost(f)
  <2>1. PICK g : g = ui' /\ g = [lost EXCEPT !.recovery = "none", !.promptError = FALSE]
    BY <1>13, <1>16
  <2>2. /\ lost \in Feature /\ lost.attempt = f.attempt /\ lost.service = "unavailable"
        /\ lost.mode = "error" /\ lost.prompt = f.prompt /\ lost.user = f.user
        /\ lost.calls = f.calls /\ Holds(f, lost)
    BY <1>8, Literals, ZenonT(40) DEF ServiceLost, Feature, Holds
  <2> HIDE DEF lost
  <2>3. /\ Shape(g, None, "unavailable", "error", "none", f.prompt, f.user)
        /\ g.calls = f.calls /\ Holds(f, g)
    BY <1>12, <2>1, <2>2 DEF Feature, Shape, Holds
  <2>4. /\ ~Has(g, "begin") /\ ~Has(g, "cancel") /\ Once(g, "begin") /\ Once(g, "cancel")
    BY <1>10, <2>3 DEF Has, Once
  <2>5. Steady(g)
    BY <2>3, <2>4 DEF Steady, Shape
  <2>6. ASSUME online
        PROVE  Accord(g, answers', wire)
    <3>1. Clean(g) /\ Unbound(g) /\ g.attempt = None /\ g.queued = ui.queued
      BY <1>6, <1>12, <2>3, <2>6 DEF Accord, Clean, Unbound, Shape, Holds
    <3>2. Turns(ui, answers, g, answers')
      BY <1>15, <2>3, <2>6 DEF Turns
    <3>3. \A j \in Slots :
           \/ g.calls[j] = ui.calls[j]
           \/ /\ g.calls[j].op \in Dull \/ (g.calls[j].op = "begin" /\ Quiet)
              /\ g.calls[j].op = "listUsers" /\ g.calls[j].arg = "Idle" => phase = "Idle"
              /\ ~Waits(ui, answers, j, "cancel")
              /\ ui.calls[j].op = "begin" => answers[j].result # "ok"
      BY <1>14, <2>3, <2>6
    <3> QED
      BY <1>6, <1>10, <2>6, <3>1, <3>2, <3>3, LooseTurn
  <2> QED
    BY <1>2, <2>1, <2>5, <2>6
<1>17. CASE ok
  <2>1. PICK h : h = ResetToUserSelection(f)
    OBVIOUS
  <2>2. /\ h \in Feature
        /\ Shape(h, None, ui.service, "userSelection", "none", NoPrompt, None)
        /\ Holds(ui, h) /\ h.calls = f.calls
    BY <1>8, <1>12, <2>1, ResetIs DEF Shape, Holds
  <2>3. /\ ~Has(h, "begin") /\ ~Has(h, "cancel") /\ Once(h, "begin") /\ Once(h, "cancel")
        /\ FreeSlots(h) # {}
    BY <1>8, <1>10, <2>2 DEF Has, Once, FreeSlots
  <2>4. Steady(h)
    BY <2>2, <2>3 DEF Steady, Shape
  <2>5. ASSUME online
        PROVE  Accord(h, answers', wire)
    <3>1. Clean(h) /\ Unbound(h) /\ h.attempt = None /\ h.queued = ui.queued
      BY <1>6, <1>11, <1>17, <2>2, <2>5 DEF Accord, Clean, Unbound, Shape, Holds, Quiet
    <3>2. Turns(ui, answers, h, answers')
      BY <1>15, <2>2, <2>5 DEF Turns
    <3>3. \A j \in Slots :
           \/ h.calls[j] = ui.calls[j]
           \/ /\ h.calls[j].op \in Dull \/ (h.calls[j].op = "begin" /\ Quiet)
              /\ h.calls[j].op = "listUsers" /\ h.calls[j].arg = "Idle" => phase = "Idle"
              /\ ~Waits(ui, answers, j, "cancel")
              /\ ui.calls[j].op = "begin" => answers[j].result # "ok"
      BY <1>14, <2>2, <2>5
    <3> QED
      BY <1>6, <1>10, <2>5, <3>1, <3>2, <3>3, LooseTurn
  <2>6. CASE f.service # "ready"
    BY <1>2, <1>13, <1>17, <2>1, <2>4, <2>5, <2>6
  <2>7. CASE f.service = "ready"
    <3>1. ui' = ChooseUser(h, next) /\ h.attempt = None /\ h.service = "ready"
      BY <1>12, <1>13, <1>17, <2>1, <2>2, <2>7 DEF Shape
    <3>2. online => Quiet
      BY <1>11, <1>17 DEF Quiet
    <3>3. online => \A j \in Slots : h.calls[j] = NoCall => answers'[j].result = "none" /\ serving # j
      BY <1>8, <2>2
    <3> QED
      BY <1>2, <1>6, <1>7, <2>2, <2>3, <2>4, <2>5, <3>1, <3>2, <3>3, ChooseAgree
  <2> QED
    BY <2>6, <2>7
<1> QED
  BY <1>16, <1>17

\* The conversation could not be begun.
LEMMA BeginFailedAgree ==
  ASSUME Inv, Agreement, NEW i \in Slots, Leaves(i), ui.calls[i].op = "begin", NEW attempt,
         Begun(i, FALSE, attempt), online => answers[i].result = "error"
  PROVE  Steady(ui') /\ (online => Accord(ui', answers', wire))
<1>1. PICK f : f = Return(ui, i)
  OBVIOUS
<1>2. /\ Steady(ui) /\ serving \in Slots \cup {0} /\ \A j \in Slots : ui.calls[j] \in Calls
      /\ online => Accord(ui, answers, wire) /\ Orderly(ui)
  BY Grounds
<1>3. /\ f \in Feature /\ Stays(ui, f)
      /\ f.calls[i] = NoCall /\ NoCall.op = "none"
      /\ \A j \in Slots \ {i} : f.calls[j] = ui.calls[j]
      /\ \A op : op # "none" => (Has(f, op) => Has(ui, op)) /\ (Once(ui, op) => Once(f, op))
      /\ \A op : op # "none" /\ op = ui.calls[i].op /\ Once(ui, op) => ~Has(f, op)
  BY <1>1, ReturnedGround
<1>4. Has(ui, "begin")
  BY DEF Has
<1>5. /\ ui.attempt = None /\ ~Has(f, "begin") /\ ~Has(f, "cancel")
      /\ Once(f, "begin") /\ Once(f, "cancel") /\ Once(ui, "begin")
  BY <1>2, <1>3, <1>4 DEF Steady
<1> DEFINE h == [f EXCEPT !.queued = <<>>, !.beginInFlight = FALSE]
<1>6. PICK g : g = ui' /\ g = ShowAuthError(h, "retryAuthentication")
  BY <1>1 DEF Begun
<1>7. /\ h \in Feature
      /\ Shape(h, f.attempt, f.service, f.mode, f.recovery, f.prompt, f.user)
      /\ h.queued = <<>> /\ h.calls = f.calls
  BY <1>3, Literals DEF Feature, Shape
<1> HIDE DEF h
<1>8. /\ Shape(g, h.attempt, h.service, "error", "retryAuthentication", h.prompt, h.user)
      /\ g.queued = h.queued /\ g.calls = h.calls
  BY <1>6, <1>7 DEF ShowAuthError, Feature, Shape
<1>9. /\ Shape(g, None, ui.service, "error", "retryAuthentication", ui.prompt, ui.user)
      /\ g.queued = <<>> /\ g.calls = f.calls
  BY <1>3, <1>5, <1>7, <1>8 DEF Stays, Shape
<1>10. /\ ~Has(g, "begin") /\ ~Has(g, "cancel") /\ Once(g, "begin") /\ Once(g, "cancel")
  BY <1>5, <1>9 DEF Has, Once
<1>11. Steady(g)
  BY <1>9, <1>10 DEF Steady, Shape
<1> HIDE DEF Inv, Agreement
<1>12. ASSUME online
       PROVE  Accord(g, answers', wire)
  <2>1. Quiet
    BY <1>2, <1>12 DEF Accord, Core, CallFits
  <2>2. Clean(g) /\ Unbound(g) /\ g.attempt = None
    BY <1>9, <2>1 DEF Clean, Unbound, Shape
  <2>3. ~Given(ui, answers)
    BY <1>5, <1>12 DEF Given, Once
  <2>4. Turns(ui, answers, g, answers')
    BY <1>3, <1>9, <1>12 DEF Turns, Leaves
  <2>5. \A j \in Slots :
           \/ g.calls[j] = ui.calls[j]
           \/ /\ g.calls[j].op \in Dull \/ (g.calls[j].op = "begin" /\ Quiet)
              /\ g.calls[j].op = "listUsers" /\ g.calls[j].arg = "Idle" => phase = "Idle"
              /\ ~Waits(ui, answers, j, "cancel")
              /\ ui.calls[j].op = "begin" => answers[j].result # "ok"
    BY <1>3, <1>9, <1>12 DEF Waits, Dull
  <2> QED
    BY <1>2, <1>5, <1>12, <2>2, <2>3, <2>4, <2>5, LooseTurn
<1> QED
  BY <1>6, <1>11, <1>12

\* The bound attempt, when the start of its session has ended: the reply comes after
\* every signal of the attempt.
LEMMA StartTurn ==
  ASSUME NEW f, NEW g, NEW a, NEW b, NEW w, NEW i \in Slots, w \in Seq(Signals \cup {Disconnected}),
         Accord(f, a, w), Turns(f, a, g, b), Steady(f), Once(f, "start"),
         f.beginInFlight => Has(f, "begin"),
         serving \in Slots \cup {0},
         f.attempt # None, f.calls[i].op = "start", f.calls[i].key = f.attempt,
         a[i].result # "none", a[i].after = 0,
         g.attempt = f.attempt, Holds(f, g), Bound(g),
         g.mode = IF a[i].result = "ok" THEN "handingOff" ELSE "sessionSelection",
         phase = IF a[i].result = "ok" THEN "HandingOff" ELSE "Authenticated",
         phase # "HandingOff" => f.mode # "handingOff",
         g.calls[i].op = "none", \A j \in Slots \ {i} : g.calls[j] = f.calls[j]
  PROVE  Accord(g, b, w)
<1>1. ~Has(f, "begin") /\ ~Has(f, "cancel") /\ f.queued = <<>>
  BY DEF Steady, Accord, Clean
<1>2. \A j \in Slots \ {i} : f.calls[j].op # "start"
  BY DEF Once
<1>3. \A j \in Slots : ~Waits(f, a, j, "respond") /\ ~Waits(f, a, j, "start")
  <2> SUFFICES ASSUME NEW j \in Slots
               PROVE  ~Waits(f, a, j, "respond") /\ ~Waits(f, a, j, "start")
    OBVIOUS
  <2>1. CallFits(f, a, j)
    BY DEF Accord, Core
  <2>2. ~Waits(f, a, j, "respond")
    BY <2>1 DEF CallFits
  <2> QED
    BY <1>2, <2>2 DEF Waits
<1>4. Taken(g, b)
  BY DEF Taken
<1>5. Echoes(g, b, f.queued \o w, 0)
  <2> DEFINE p == f.queued \o w
  <2>1. Len(p) = Len(w) /\ \A n \in Nat : 0 < n /\ n <= Len(w) => p[n] = w[n]
    BY <1>1, EmptyRow
  <2> HIDE DEF p
  <2>2. \A n \in Nat : 0 < n /\ n <= Len(w) /\ Mine(w[n]) => n <= 0
    BY DEF Accord, Late
  <2>3. \A n \in Nat : ~(0 < n /\ n <= 0)
    OBVIOUS
  <2>4. Echoes(g, b, p, 0)
    BY <2>1, <2>2, <2>3 DEF Echoes
  <2> QED
    BY <2>4 DEF p
<1>6. \A j \in Slots :
           \/ g.calls[j] = f.calls[j]
           \/ g.calls[j].op \in Dull \ {"getState", "listUsers"}
           \/ /\ g.calls[j].op \in {"respond", "start"}
              /\ CallFits(g, b, j)
  BY DEF Dull
<1>7. f.mode = "handingOff" => g.mode = "handingOff"
  OBVIOUS
<1>8. \A j \in Slots :
           f.calls[j].op = "start" /\ a[j].result = "ok" =>
             g.calls[j] = f.calls[j] \/ g.mode = "handingOff"
  OBVIOUS
<1> QED
  BY <1>1, <1>3, <1>4, <1>5, <1>6, <1>7, <1>8, BoundTurn

\* The start of a session has ended.
LEMMA StartReturnsAgree ==
  ASSUME Inv, Agreement, NEW i \in Slots, StartReturns(i)
  PROVE  Leaves(i) /\ Steady(ui') /\ (online => Accord(ui', answers', wire))
<1>1. Answered(i) /\ ui.calls[i].op = "start"
  BY AnsweredIs DEF StartReturns
<1>2. Leaves(i)
  BY <1>1, AnsweredLeaves
<1>3. PICK ok \in BOOLEAN :
        /\ StartReturned(i, ok)
        /\ online => answers[i].after = 0
                       /\ answers[i].result = IF ok THEN "ok" ELSE "error"
  <2>1. CASE Reply(i, "start") /\ StartReturned(i, Succeeded(i))
    <3>1. answers[i] # NoAnswer /\ answers[i].after = 0
      BY <2>1 DEF Reply
    <3>2. answers[i].result \in {"ok", "error"}
      BY <3>1, Grounds DEF Replied
    <3>3. answers[i].result = IF Succeeded(i) THEN "ok" ELSE "error"
      BY <3>2 DEF Succeeded
    <3> QED
      BY <2>1, <3>1, <3>3, SucceededIs, Zenon
  <2>2. CASE ConnectionLost(i, "start") /\ StartReturned(i, FALSE)
    <3>1. ~online
      BY <2>2 DEF ConnectionLost
    <3> QED
      BY <2>2, <3>1, Literals, Zenon
  <2> QED
    BY <2>1, <2>2 DEF StartReturns
<1>4. PICK f0 : f0 = Return(ui, i)
  OBVIOUS
<1>5. /\ Steady(ui) /\ serving \in Slots \cup {0} /\ \A j \in Slots : ui.calls[j] \in Calls
      /\ Once(ui, "start")
      /\ online => Accord(ui, answers, wire) /\ Orderly(ui)
  BY Grounds
<1>6. /\ f0 \in Feature /\ Stays(ui, f0)
      /\ f0.calls[i] = NoCall /\ NoCall.op = "none"
      /\ \A j \in Slots \ {i} : f0.calls[j] = ui.calls[j]
      /\ \A op : op # "none" => (Has(f0, op) => Has(ui, op)) /\ (Once(ui, op) => Once(f0, op))
  BY <1>1, <1>2, <1>4, ReturnedGround
<1> DEFINE f == [f0 EXCEPT !.startInFlight = FALSE]
<1>7. f \in Feature /\ Stays(f0, f) /\ f.calls = f0.calls
  BY <1>6, Literals DEF Feature, Stays, Shape, Holds
<1>8. /\ ok => ui' = [f EXCEPT !.mode = "handingOff", !.recovery = "none", !.exiting = TRUE]
      /\ ~ok /\ ui.calls[i].key # ui.attempt => ui' = f
      /\ ~ok /\ ui.calls[i].key = ui.attempt =>
           ui' = [f EXCEPT !.mode = "sessionSelection", !.catalog = "ready"]
  BY <1>3, <1>4 DEF StartReturned
<1> HIDE DEF f
<1>9. Stays(ui, f) /\ f.calls[i].op = "none" /\ \A j \in Slots \ {i} : f.calls[j] = ui.calls[j]
  BY <1>6, <1>7 DEF Stays, Shape, Holds
<1>10. \A op : op # "none" => (Has(f, op) => Has(ui, op)) /\ (Once(ui, op) => Once(f, op))
  BY <1>6, <1>7 DEF Has, Once
<1>11. /\ wire \in Seq(Signals \cup {Disconnected})
       /\ phase # "HandingOff" =>
            ui.mode # "handingOff" /\ (ui.calls[i].op = "start" => answers[i].result # "ok")
  BY DEF Inv, BusFits, HandoffKnown
<1>12. CASE ~ok /\ ui.calls[i].key # ui.attempt
  <2>1. ui' = f /\ (online => answers[i].result = "error")
    BY <1>3, <1>8, <1>12
  <2> QED
    BY <1>1, <1>2, <1>9, <2>1, StaysReply
<1> HIDE DEF Inv, Agreement
<1>13. ASSUME NEW g, g = ui', NEW mode \in {"handingOff", "sessionSelection"}, NEW recovery,
              mode = IF ok THEN "handingOff" ELSE "sessionSelection",
              Shape(g, f.attempt, f.service, mode, recovery, f.prompt, f.user),
              recovery \in {f.recovery, "none"},
              Holds(f, g), g.calls = f.calls, ok \/ ui.calls[i].key = ui.attempt
       PROVE  Steady(g) /\ (online => Accord(g, answers', wire))
  <2>1. /\ Shape(g, ui.attempt, ui.service, mode, recovery, ui.prompt, ui.user)
        /\ Holds(ui, g) /\ recovery \in {ui.recovery, "none"}
    BY <1>9, <1>13 DEF Stays, Shape, Holds
  <2>2. \A op : op # "none" => (Has(g, op) => Has(ui, op)) /\ (Once(ui, op) => Once(g, op))
    BY <1>10, <1>13 DEF Has, Once
  <2>3. mode = "sessionSelection" => ui.attempt # None
    BY <1>1, <1>5, <1>13, CallTypes, NoneAssumption DEF Attempts
  <2>4. Steady(g)
    BY <1>5, <2>1, <2>2, <2>3 DEF Steady, Shape, Holds
  <2>5. ASSUME online
        PROVE  Accord(g, answers', wire)
    <3>1. /\ answers[i].after = 0 /\ answers[i].result = IF ok THEN "ok" ELSE "error"
          /\ Accord(ui, answers, wire) /\ CallFits(ui, answers, i) /\ Bound(ui) /\ Late(ui, answers, wire)
          /\ ui.beginInFlight => Has(ui, "begin")
      BY <1>3, <1>5, <2>5 DEF Accord, Core, Orderly
    <3>2. ui.calls[i].key = ui.attempt
      BY <1>1, <1>13, <3>1 DEF CallFits
    <3>3. ui.attempt # None
      BY <1>1, <1>5, <3>2, CallTypes, NoneAssumption DEF Attempts
    <3>4. phase = IF ok THEN "HandingOff" ELSE "Authenticated"
      <4>1. ok => phase = "HandingOff"
        BY <1>1, <1>11, <3>1
      <4>2. ~ok => phase = "Authenticated"
        <5>1. ~FailedWithin(wire, 0)
          BY DEF FailedWithin
        <5> QED
          BY <1>1, <3>1, <3>2, <3>3, <5>1 DEF Late
      <4> QED
        BY <4>1, <4>2
    <3>5. Bound(g)
      BY <1>13, <2>1, <3>1, <3>3, <3>4 DEF Bound, Shape
    <3>6. g.mode = mode /\ g.attempt = ui.attempt
      BY <2>1 DEF Shape
    <3>7. Turns(ui, answers, g, answers')
      BY <1>1, <1>2, <1>9, <1>13, <2>5 DEF Turns, Leaves
    <3>8. g.calls[i].op = "none" /\ \A j \in Slots \ {i} : g.calls[j] = ui.calls[j]
      BY <1>9, <1>13
    <3>9. ok <=> answers[i].result = "ok"
      BY <3>1
    <3> QED
      BY <1>1, <1>5, <1>11, <1>13, <2>1, <3>1, <3>2, <3>3, <3>4, <3>5, <3>6, <3>7, <3>8, <3>9, StartTurn
  <2> QED
    BY <2>4, <2>5
<1>14. CASE ok
  <2>1. PICK g : g = ui' /\ g = [f EXCEPT !.mode = "handingOff", !.recovery = "none", !.exiting = TRUE]
    BY <1>8, <1>14
  <2>2. /\ Shape(g, f.attempt, f.service, "handingOff", "none", f.prompt, f.user)
        /\ Holds(f, g) /\ g.calls = f.calls
    BY <1>7, <2>1 DEF Feature, Shape, Holds
  <2> QED
    BY <1>2, <1>13, <1>14, <2>1, <2>2
<1>15. CASE ~ok /\ ui.calls[i].key = ui.attempt
  <2>1. PICK g : g = ui' /\ g = [f EXCEPT !.mode = "sessionSelection", !.catalog = "ready"]
    BY <1>8, <1>15
  <2>2. /\ Shape(g, f.attempt, f.service, "sessionSelection", f.recovery, f.prompt, f.user)
        /\ Holds(f, g) /\ g.calls = f.calls
    BY <1>7, <2>1 DEF Feature, Shape, Holds
  <2> QED
    BY <1>2, <1>13, <1>15, <2>1, <2>2
<1> QED
  BY <1>12, <1>14, <1>15

-----------------------------------------------------------------------------
(* A conversation has begun: what was held back is looked at.               *)

\* What is assumed of a feature before it looks at events, and the replies.
Replays(f, a) ==
  /\ Core(f, a)
  /\ \A i \in Slots : a[i].result \in {"none", "ok", "error"}
  /\ \A i \in Slots : f.calls[i] = NoCall => a[i].result = "none" /\ serving # i
  /\ phase = "Failed" =>
       \A i \in Slots : f.calls[i].op = "start" => a[i].result # "ok" /\ serving # i

\* The events are the first ones of a row; each leaves the interface and the
\* backend in accord.
LEMMA ReplayAgree ==
  ASSUME NEW f, Sound(f), Steady(f), f.startInFlight \/ FreeSlots(f) # {}, ~f.beginInFlight,
         ~Has(f, "begin"), NEW events \in Seq(Signals),
         \A n \in 1..Len(events) : ~Buries(events[n], f.attempt),
         NEW a, NEW p, Len(p) \in Nat, Len(events) <= Len(p),
         \A n \in 1..Len(events) : p[n] = events[n],
         online => Replays(f, a) /\ Flows(f, a, p, 0)
  PROVE  LET g == Replay(f, events) IN
         /\ Sound(g) /\ Handled(f, g) /\ g.queued = f.queued
         /\ Steady(g)
         /\ online => Core(g, a) /\ Flows(g, a, p, Len(events))
<1> DEFINE k == Len(events)
           Fine(h, n) ==
             /\ Sound(h) /\ Handled(f, h) /\ h.queued = f.queued
             /\ h.startInFlight \/ FreeSlots(h) # {}
             /\ Steady(h)
             /\ online => Core(h, a) /\ Flows(h, a, p, n)
<1>1. k \in Nat /\ \A n \in 1..k : events[n] \in Signals
  BY LenProperties, ElementOfSeq
<1> HIDE DEF k
<1>2. PICK run : IsRun(run, f, events, k) /\ Replay(f, events) = run[k]
  BY <1>1, ReplayRuns DEF k
<1>3. \A n \in 0..k : run[n] = IF n = 0 THEN f ELSE HandleEvent(run[n - 1], events[n])
  BY <1>2 DEF IsRun
<1>4. Fine(f, 0)
  BY DEF Handled, Replays
<1>5. ASSUME NEW n \in 1..k, NEW h, Fine(h, n - 1)
      PROVE  Fine(HandleEvent(h, events[n]), n)
  <2>0. PICK e : e = events[n]
    OBVIOUS
  <2>1. PICK g : g = HandleEvent(h, e)
    OBVIOUS
  <2>2. e \in Signals /\ ~Buries(e, f.attempt) /\ p[n] = e /\ n <= Len(p)
    BY <1>1, <2>0 DEF k
  <2>3. n - 1 \in Nat /\ (n - 1) + 1 = n /\ n \in Nat /\ n - 1 < Len(p)
    BY <1>1, <2>2
  <2>4. /\ Sound(h) /\ Handled(f, h) /\ h.queued = f.queued
        /\ (h.startInFlight \/ FreeSlots(h) # {}) /\ Steady(h)
        /\ online => Core(h, a) /\ Flows(h, a, p, n - 1)
    BY <1>5
  <2> HIDE DEF Fine
  <2>5. ~h.beginInFlight /\ ~Has(h, "begin")
    BY <2>4 DEF Handled, Has
  <2>6. ~Buries(e, h.attempt)
    <3>1. e.attempt # None
      BY <2>2, NoneAssumption DEF Signals, Attempts
    <3> QED
      BY <2>2, <2>4, <3>1 DEF Handled, Buries
  <2>7. /\ Sound(g) /\ Handled(h, g) /\ g.queued = h.queued
        /\ g.startInFlight \/ FreeSlots(g) # {}
    BY <2>1, <2>2, <2>4, <2>5, HandleFits
  <2>8. Handled(f, g)
    BY <2>4, <2>7, PendingTypes DEF Handled
  <2>9. Steady(g)
    BY <2>1, <2>2, <2>4, <2>6, SteadyHandle
  <2>10. ASSUME online
         PROVE  Core(g, a) /\ Flows(g, a, p, n)
    <3>1. \A j \in Slots : h.calls[j] = f.calls[j] \/ (f.calls[j] = NoCall /\ h.calls[j].op = "start")
      BY <2>4 DEF Handled
    <3>2. \A j \in Slots : h.calls[j] = NoCall => a[j].result = "none" /\ serving # j
      BY <2>10, <3>1 DEF Replays
    <3>3. phase = "Failed" =>
            \A j \in Slots : h.calls[j].op = "start" => a[j].result # "ok" /\ serving # j
      BY <2>10, <3>1 DEF Replays
    <3>4. \A j \in Slots : a[j].result \in {"none", "ok", "error"}
      BY <2>10 DEF Replays
    <3>5. Looks(h, a, p, n - 1)
      BY <2>2, <2>3, <2>4, <2>5, <2>6, <2>10, <3>2, <3>3, <3>4 DEF Looks
    <3>6. p[(n - 1) + 1] = e
      BY <2>2, <2>3
    <3>7. Core(g, a) /\ Flows(g, a, p, (n - 1) + 1)
      BY <2>1, <3>5, <3>6, HandleCore
    <3> QED
      BY <2>3, <3>7
  <2>11. Fine(g, n)
    BY <2>4, <2>7, <2>8, <2>9, <2>10 DEF Fine
  <2> QED
    BY <2>0, <2>1, <2>11
<1> HIDE DEF Fine
<1>6. \A n \in 0..k : Fine(run[n], n)
  <2> DEFINE T == {n \in 0..k : ~Fine(run[n], n)}
  <2> SUFFICES ASSUME T # {}
               PROVE  FALSE
    OBVIOUS
  <2>1. T \in SUBSET Nat
    BY <1>1
  <2>2. PICK n \in T : \A m \in T : n <= m
    <3> HIDE DEF T
    <3> QED
      BY <2>1, Least
  <2>3. n # 0
    BY <1>1, <1>3, <1>4, <2>2
  <2>4. n \in 1..k /\ n - 1 \in 0..k /\ ~(n <= n - 1)
    BY <1>1, <2>2, <2>3
  <2>5. Fine(run[n - 1], n - 1)
    BY <2>2, <2>4
  <2>6. Fine(HandleEvent(run[n - 1], events[n]), n)
    BY <1>5, <2>4, <2>5
  <2>7. run[n] = HandleEvent(run[n - 1], events[n])
    BY <1>3, <2>3, <2>4
  <2> QED
    BY <2>2, <2>6, <2>7
<1>7. Fine(Replay(f, events), k)
  BY <1>1, <1>2, <1>6
<1> QED
  BY <1>7 DEF Fine, k

\* The interface once the attempt is bound.
LEMMA BindGround ==
  ASSUME Inv, Agreement, NEW i \in Slots, Leaves(i), ui.calls[i].op = "begin", NEW k \in Attempts
  PROVE  LET h == [Return(ui, i) EXCEPT !.attempt = k, !.queued = <<>>, !.beginInFlight = FALSE] IN
         /\ Sound(h) /\ Steady(h) /\ FreeSlots(h) # {} /\ ~h.beginInFlight /\ h.queued = <<>>
         /\ Shape(h, k, ui.service, ui.mode, ui.recovery, ui.prompt, ui.user)
         /\ ~Has(h, "begin") /\ ~Has(h, "cancel")
         /\ h.calls[i] = NoCall /\ \A j \in Slots \ {i} : h.calls[j] = ui.calls[j]
<1> DEFINE h == [Return(ui, i) EXCEPT !.attempt = k, !.queued = <<>>, !.beginInFlight = FALSE]
<1>1. PICK f : f = Return(ui, i)
  OBVIOUS
<1>2. h = [f EXCEPT !.attempt = k, !.queued = <<>>, !.beginInFlight = FALSE]
  BY <1>1
<1> HIDE DEF h
<1>3. /\ Steady(ui) /\ Sound(ui) /\ ui.attempt = None /\ Has(ui, "begin") /\ ~Has(ui, "cancel")
      /\ ui.recovery \in {"none", "reconnectService"}
      /\ ui.mode = "userSelection" => ui.service # "ready"
  <2>1. Has(ui, "begin")
    BY DEF Has
  <2> QED
    BY <2>1, Grounds DEF Steady
<1>4. /\ f \in Feature /\ FreeSlots(f) # {} /\ Stays(ui, f)
      /\ f.calls[i] = NoCall /\ NoCall.op = "none"
      /\ \A j \in Slots \ {i} : f.calls[j] = ui.calls[j]
      /\ \A op : op # "none" => (Has(f, op) => Has(ui, op)) /\ (Once(ui, op) => Once(f, op))
      /\ \A op : op # "none" /\ op = ui.calls[i].op /\ Once(ui, op) => ~Has(f, op)
  BY <1>1, ReturnedGround
<1>5. Sound(f)
  BY <1>1, <1>3, Returned DEF Alike, Sound
<1> HIDE DEF Inv, Agreement
<1>6. h \in Feature
  BY <1>2, <1>4, Literals DEF Feature
<1>7. /\ Shape(h, k, f.service, f.mode, f.recovery, f.prompt, f.user)
      /\ h.queued = <<>> /\ h.beginInFlight = FALSE
      /\ h.session = f.session /\ h.sessions = f.sessions /\ h.startInFlight = f.startInFlight
      /\ h.generation = f.generation /\ h.loaded = f.loaded /\ h.calls = f.calls
  BY <1>2, <1>4 DEF Feature, Shape
<1>8. \A op : (Has(h, op) <=> Has(f, op)) /\ (Once(h, op) <=> Once(f, op))
  BY <1>7 DEF Has, Once
<1>9. FreeSlots(h) # {}
  BY <1>4, <1>7 DEF FreeSlots
<1>10. Sound(h)
  BY <1>5, <1>6, <1>7, <1>8 DEF Sound
<1>11. ~Has(h, "begin") /\ ~Has(h, "cancel") /\ Once(h, "begin") /\ Once(h, "cancel")
  BY <1>3, <1>4, <1>8 DEF Steady
<1>12. Shape(h, k, ui.service, ui.mode, ui.recovery, ui.prompt, ui.user)
  BY <1>4, <1>7 DEF Stays, Shape
<1>13. Steady(h)
  <2>1. k # None
    BY NoneAssumption DEF Attempts
  <2> QED
    BY <1>3, <1>11, <1>12, <2>1 DEF Steady, Shape
<1> QED
  BY <1>4, <1>7, <1>9, <1>10, <1>11, <1>12, <1>13 DEF h

\* It is the backend's attempt that is bound.
LEMMA BindAgree ==
  ASSUME Inv, Agreement, online, NEW i \in Slots, Leaves(i), ui.calls[i].op = "begin",
         answers[i].result = "ok", NEW h,
         Shape(h, answers[i].value, ui.service, ui.mode, ui.recovery, ui.prompt, ui.user),
         ~Has(h, "begin"), ~Has(h, "cancel"),
         h.calls[i] = NoCall, \A j \in Slots \ {i} : h.calls[j] = ui.calls[j]
  PROVE  /\ answers[i].value = lastAttempt
         /\ Replays(h, answers') /\ Flows(h, answers', ui.queued \o wire, 0)
         /\ \A j \in Slots : h.calls[j].op \in {"respond", "start"} => h.calls[j].key # lastAttempt
<1> DEFINE a == answers
           b == answers'
<1>1. /\ Steady(ui) /\ ui \in Feature
      /\ Orderly(ui) /\ Accord(ui, a, wire) /\ ServingFits
      /\ \A j \in Slots : ui.calls[j] \in Calls
      /\ \A j \in Slots : ui.calls[j] = NoCall => a[j].result = "none" /\ serving # j
  BY Grounds
<1>2. Has(ui, "begin")
  BY DEF Has
<1>3. ui.attempt = None /\ ui.service = "ready"
  BY <1>1, <1>2 DEF Steady, Orderly, Beginning
<1>4. ui.mode = "submitting"
  BY <1>1, <1>2, <1>3 DEF Orderly, Beginning, Accord, Core, Unbound
<1>5. /\ \A j \in Slots : CallFits(ui, a, j)
      /\ Known(ui, a) /\ Flows(ui, a, ui.queued \o wire, 0)
  BY <1>1 DEF Accord, Core
<1>6. a[i].value = lastAttempt /\ Given(ui, a) /\ lastAttempt # None
  <2>1. a[i].value = lastAttempt /\ Given(ui, a)
    BY <1>5 DEF CallFits, Given
  <2> QED
    BY <2>1, NoneAssumption DEF Inv, MachineInv, MachineTypeOK, Attempts
<1>7. /\ NoCall.op = "none" /\ b[i].result = "none" /\ serving # i
      /\ \A j \in Slots \ {i} : b[j] = a[j]
      /\ \A j \in Slots : b[j].result \in {"none", "ok", "error"}
  BY PendingTypes DEF Leaves, Replied
<1>8. ASSUME NEW j \in Slots, ui.calls[j].op \in {"respond", "start"}
      PROVE  ui.calls[j].key # lastAttempt /\ ui.calls[j].key # None /\ ui.calls[j].key <= lastAttempt
  <2>1. ui.calls[j].key \in Attempts
    BY <1>1, <1>8, CallTypes
  <2> QED
    BY <1>5, <1>6, <1>8, <2>1, NoneAssumption DEF CallFits, Attempts
<1>9. \A j \in Slots : ~Waits(h, b, j, "respond") /\ ~Waits(h, b, j, "start")
  <2> SUFFICES ASSUME NEW j \in Slots \ {i}
               PROVE  ~Waits(ui, a, j, "respond") /\ ~Waits(ui, a, j, "start")
    BY <1>7 DEF Waits
  <2>1. CallFits(ui, a, j)
    BY <1>5
  <2> QED
    BY <1>3, <1>8, <2>1 DEF Waits, CallFits
<1>10. h.attempt = lastAttempt /\ h.mode = "submitting" /\ h.service = "ready"
  BY <1>3, <1>4, <1>6 DEF Shape
<1>11. ~Given(h, b) /\ Live(h, b) /\ Live(ui, a) /\ ~Taken(h, b) /\ ~Taken(ui, a)
  BY <1>3, <1>6, <1>9, <1>10 DEF Given, Has, Live, Taken
<1>12. Bound(h) /\ Unbound(h)
  BY <1>6, <1>10 DEF Bound, Unbound
<1>13. Known(h, b)
  BY <1>3, <1>5, <1>11 DEF Known
<1>14. ASSUME NEW j \in Slots
       PROVE  CallFits(h, b, j)
  <2>1. CASE j = i
    BY <1>7, <2>1 DEF CallFits, Waits
  <2>2. CASE j # i
    <3>1. CallFits(ui, a, j) /\ h.calls[j] = ui.calls[j] /\ b[j] = a[j]
      BY <1>5, <1>7, <2>2
    <3>2. ui.calls[j].op # "begin"
      BY <3>1 DEF Has
    <3>3. ui.calls[j].op = "start" => a[j].result = "error"
      BY <1>3, <1>8, <3>1 DEF CallFits
    <3> QED
      BY <1>8, <1>9, <1>11, <3>1, <3>2, <3>3 DEF CallFits
  <2> QED
    BY <2>1, <2>2
<1>15. Flows(h, b, ui.queued \o wire, 0)
  BY <1>5, <1>11 DEF Flows, Decides, Echoes, Announced
<1>16. ASSUME phase = "Failed", NEW j \in Slots, h.calls[j].op = "start"
       PROVE  b[j].result # "ok" /\ serving # j
  <2>1. j # i /\ ui.calls[j].op = "start"
    BY <1>7, <1>16
  <2>2. a[j].result # "ok"
    BY <1>16, <2>1 DEF Inv, HandoffKnown
  <2>3. serving # j
    BY <1>1, <1>16, <2>1, SlotsAssumption DEF ServingFits
  <2> QED
    BY <1>7, <2>1, <2>2, <2>3
<1>17. \A j \in Slots : h.calls[j] = NoCall => b[j].result = "none" /\ serving # j
  BY <1>1, <1>7
<1> HIDE DEF Inv, Agreement
<1> QED
  BY <1>6, <1>7, <1>8, <1>12, <1>13, <1>14, <1>15, <1>16, <1>17 DEF Replays, Core

\* The conversation has begun, or not.
LEMMA BeginReturnsAgree ==
  ASSUME Inv, Agreement, NEW i \in Slots, BeginReturns(i)
  PROVE  Leaves(i) /\ Steady(ui') /\ (online => Accord(ui', answers', wire))
<1>1. Answered(i) /\ ui.calls[i].op = "begin"
  BY AnsweredIs DEF BeginReturns
<1>2. Leaves(i)
  BY <1>1, AnsweredLeaves
<1>3. CASE ConnectionLost(i, "begin") /\ Begun(i, FALSE, None)
  <2>1. ~online
    BY <1>3 DEF ConnectionLost
  <2> QED
    BY <1>1, <1>2, <1>3, <2>1, BeginFailedAgree
<1>4. CASE Reply(i, "begin") /\ Begun(i, Succeeded(i), answers[i].value) /\ ~Succeeded(i)
  <2>1. Succeeded(i) = FALSE
    BY <1>4, SucceededIs
  <2>2. answers[i].result = "error"
    <3>1. answers[i].result # "none"
      BY <1>4, Grounds DEF Reply, Replied
    <3> QED
      BY <1>4, <3>1, Grounds DEF Succeeded, Replied
  <2>3. Begun(i, FALSE, answers[i].value)
    BY <1>4, <2>1, Zenon
  <2> QED
    BY <1>1, <1>2, <2>2, <2>3, BeginFailedAgree
<1>5. CASE Reply(i, "begin") /\ Begun(i, Succeeded(i), answers[i].value) /\ Succeeded(i)
  <2>1. Succeeded(i) = TRUE
    BY <1>5, Zenon
  <2>2. Begun(i, TRUE, answers[i].value) /\ answers[i].result = "ok" /\ answers[i] # NoAnswer
    BY <1>5, <2>1, Zenon DEF Succeeded, Reply
  <2>3. PICK k : k = answers[i].value
    OBVIOUS
  <2>4. k \in Attempts
    BY <1>1, <2>2, <2>3 DEF Inv, AnswersFit
  <2>5. PICK h : h = [Return(ui, i) EXCEPT !.attempt = k, !.queued = <<>>, !.beginInFlight = FALSE]
    OBVIOUS
  <2>6. /\ Sound(h) /\ Steady(h) /\ FreeSlots(h) # {} /\ ~h.beginInFlight /\ h.queued = <<>>
        /\ Shape(h, k, ui.service, ui.mode, ui.recovery, ui.prompt, ui.user)
        /\ ~Has(h, "begin") /\ ~Has(h, "cancel")
        /\ h.calls[i] = NoCall /\ \A j \in Slots \ {i} : h.calls[j] = ui.calls[j]
    BY <1>1, <1>2, <2>4, <2>5, BindGround
  <2>7. PICK events : events = ui.queued
    OBVIOUS
  <2>8. Return(ui, i).queued = ui.queued
    BY <1>1, <1>2, ReturnedGround, CallTypes DEF Stays, Holds
  <2>9. ui' = Replay(h, events)
    BY <2>2, <2>3, <2>5, <2>7, <2>8 DEF Begun, BindBegin
  <2>10. events \in Seq(Signals) /\ wire \in Seq(Signals \cup {Disconnected})
    BY <2>7, Grounds DEF Feature, Inv, BusFits
  <2>11. \A n \in 1..Len(events) : ~Buries(events[n], k)
    <3>1. ~Gone(k)
      BY <1>1, <2>2, <2>3, <2>4 DEF Inv, GoneIsForgotten
    <3>2. \A n \in 1..Len(events) : events[n] \in InFlight
      BY <2>7, <2>10 DEF InFlight, Elements
    <3> QED
      BY <3>1, <3>2 DEF Gone, Buries
  <2>12. PICK p : p = ui.queued \o wire
    OBVIOUS
  <2>13. /\ Len(p) = Len(events) + Len(wire) /\ Len(events) \in Nat /\ Len(wire) \in Nat
         /\ \A n \in Nat : 0 < n /\ n <= Len(events) => p[n] = events[n]
         /\ \A n \in Nat : Len(events) < n /\ n <= Len(events) + Len(wire) =>
              p[n] = wire[n - Len(events)]
    BY <2>7, <2>10, <2>12, RowIs
  <2>14. online =>
           /\ k = lastAttempt /\ Replays(h, answers') /\ Flows(h, answers', p, 0)
           /\ \A j \in Slots : h.calls[j].op \in {"respond", "start"} => h.calls[j].key # lastAttempt
    BY <1>1, <1>2, <2>2, <2>3, <2>6, <2>12, BindAgree
  <2>15. h.attempt = k
    BY <2>6 DEF Shape
  <2>16. /\ Sound(ui') /\ Handled(h, ui') /\ ui'.queued = <<>>
         /\ Steady(ui')
         /\ online => Core(ui', answers') /\ Flows(ui', answers', p, Len(events))
    <3>1. Len(p) \in Nat /\ Len(events) <= Len(p) /\ \A n \in 1..Len(events) : p[n] = events[n]
      BY <2>13
    <3> HIDE DEF Inv, Agreement
    <3>2. PICK g : g = Replay(h, events)
      OBVIOUS
    <3>3. /\ Sound(g) /\ Handled(h, g) /\ g.queued = h.queued
          /\ Steady(g)
          /\ online => Core(g, answers') /\ Flows(g, answers', p, Len(events))
      BY <2>6, <2>10, <2>11, <2>14, <2>15, <3>1, <3>2, ReplayAgree
    <3> QED
      BY <2>6, <2>9, <3>2, <3>3
  <2>17. ASSUME online
         PROVE  Accord(ui', answers', wire)
    <3>1. PICK q : q = ui'.queued \o wire
      OBVIOUS
    <3>2. Len(q) = Len(wire) /\ \A n \in Nat : 0 < n /\ n <= Len(wire) => q[n] = wire[n]
      BY <2>10, <2>16, <3>1, EmptyRow
    <3>3. Flows(ui', answers', q, 0)
      <4>1. Len(q) \in Nat /\ Len(p) = Len(q) + Len(events)
        BY <2>13, <3>2
      <4>2. ASSUME NEW n \in Nat, 0 < n, n <= Len(q)
            PROVE  q[n] = p[n + Len(events)]
        <5>1. /\ n + Len(events) \in Nat /\ Len(events) < n + Len(events)
              /\ n + Len(events) <= Len(events) + Len(wire) /\ (n + Len(events)) - Len(events) = n
          BY <2>13, <3>2, <4>2
        <5> QED
          BY <2>13, <3>2, <4>2, <5>1
      <4> QED
        BY <2>13, <2>16, <2>17, <4>1, <4>2, Shifted
    <3>4. \A j \in Slots :
            ui'.calls[j] = h.calls[j] \/ (h.calls[j] = NoCall /\ ui'.calls[j].op = "start")
      BY <2>16 DEF Handled
    <3>5. \A j \in Slots : h.calls[j] = NoCall => answers'[j].result = "none" /\ serving # j
      BY <2>14, <2>17 DEF Replays
    <3>6. Late(ui', answers', wire)
      <4>1. ui'.attempt # None => ui'.attempt = lastAttempt
        BY <2>14, <2>15, <2>16, <2>17 DEF Handled
      <4>2. ASSUME NEW j \in Slots, ui'.attempt # None, ui'.calls[j].key = ui'.attempt
            PROVE  /\ ui'.calls[j].op = "respond" => answers'[j].result # "error"
                   /\ ui'.calls[j].op = "start" => answers'[j].result = "none"
        BY <2>14, <2>17, <3>4, <3>5, <4>1, <4>2
      <4> QED
        BY <4>2 DEF Late
    <3>7. Carried(ui')
      <4>1. Carried(ui) /\ serving \in Slots \cup {0} /\ ~Has(ui, "cancel") /\ serving # i
        BY <1>1, <1>2, <2>17, Grounds DEF Accord, Leaves, Steady, Has
      <4>2. ~Has(ui', "cancel")
        BY <2>6, <3>4 DEF Has
      <4>3. serving \in Slots => ui'.calls[serving] = ui.calls[serving]
        BY <2>6, <3>4, <3>5, <4>1
      <4> QED
        BY <4>1, <4>2, <4>3 DEF Carried, Has
    <3>8. Clean(ui')
      BY <2>16 DEF Clean
    <3> QED
      BY <2>16, <2>17, <3>1, <3>3, <3>6, <3>7, <3>8 DEF Accord
  <2> QED
    BY <1>2, <2>16, <2>17
<1> QED
  BY <1>3, <1>4, <1>5 DEF BeginReturns

-----------------------------------------------------------------------------
(* The steps of the interface.                                              *)

\* A reply.
LEMMA ReplyAgree ==
  ASSUME Inv, Agreement, NEW i \in Slots, ReplyStep(i)
  PROVE  Agreement'
<1>1. Leaves(i) /\ Steady(ui') /\ (online => Accord(ui', answers', wire))
  <2> HIDE DEF Inv, Agreement
  <2>1. CASE GetStateReturns(i)
    BY <2>1, GetStateAgree
  <2>2. CASE BeginReturns(i)
    BY <2>2, BeginReturnsAgree
  <2>3. CASE RespondReturns(i)
    BY <2>3, RespondReturnsAgree
  <2>4. CASE CancelReturns(i)
    BY <2>4, CancelReturnsAgree
  <2>5. CASE StartReturns(i)
    BY <2>5, StartReturnsAgree
  <2>6. CASE UsersReturn(i)
    BY <2>6, UsersReturnAgree
  <2>7. CASE SessionsReturn(i)
    BY <2>7, SessionsReturnAgree
  <2>8. CASE PreferenceReturns(i)
    BY <2>8, PreferenceReturnsAgree
  <2>9. CASE PowerReturns(i)
    BY <2>9, PowerReturnsAgree
  <2> QED
    BY <2>1, <2>2, <2>3, <2>4, <2>5, <2>6, <2>7, <2>8, <2>9 DEF ReplyStep
<1> HIDE DEF Inv, Agreement
<1>2. UNCHANGED <<online, backendVars>> /\ wire' = wire /\ Replied(answers')
  BY <1>1 DEF Leaves
<1> QED
  BY <1>1, <1>2, Unmoved

\* A command of the user.
LEMMA UserStepAgree ==
  ASSUME Inv, Agreement, UserActs
  PROVE  Agreement'
<1>1. Steady(ui') /\ (online => Accord(ui', answers, wire))
  BY UserAgree
<1>2. Replied(answers)
  BY DEF Agreement
<1> HIDE DEF Inv, Agreement
<1>3. UNCHANGED <<online, backendVars>> /\ wire' = wire /\ answers' = answers
  BY DEF UserActs, busVars
<1> QED
  BY <1>1, <1>2, <1>3, Unmoved

-----------------------------------------------------------------------------
(* The steps of the backend: signals join the row.                          *)

\* New signals come last.
LEMMA RowGrows ==
  ASSUME Inv, ui' = ui, NEW signals \in Seq(Signals), wire' = wire \o signals
  PROVE  LET p == ui.queued \o wire IN
         /\ Len(p) \in Nat /\ Len(signals) \in Nat /\ Len(p') = Len(p) + Len(signals)
         /\ \A n \in Nat : 0 < n /\ n <= Len(p) => p'[n] = p[n]
         /\ \A n \in Nat : Len(p) < n /\ n <= Len(p) + Len(signals) => p'[n] = signals[n - Len(p)]
         /\ Len(wire) \in Nat /\ Len(wire') = Len(wire) + Len(signals)
         /\ \A n \in Nat : 0 < n /\ n <= Len(wire) =>
              /\ wire'[n] = wire[n]
              /\ \E m \in Nat : 0 < m /\ m <= Len(p) /\ p[m] = wire[n]
         /\ \A n \in Nat : Len(wire) < n /\ n <= Len(wire) + Len(signals) =>
              wire'[n] = signals[n - Len(wire)]
<1> DEFINE p == ui.queued \o wire
           S == Signals \cup {Disconnected}
<1>1. ui.queued \in Seq(Signals) /\ wire \in Seq(S)
  BY DEF Inv, BusFits, Sound, Feature
<1> HIDE DEF Inv
<1>2. /\ Len(p) = Len(ui.queued) + Len(wire) /\ Len(ui.queued) \in Nat /\ Len(wire) \in Nat
      /\ \A n \in Nat : 0 < n /\ n <= Len(ui.queued) => p[n] = ui.queued[n]
      /\ \A n \in Nat : Len(ui.queued) < n /\ n <= Len(ui.queued) + Len(wire) =>
           p[n] = wire[n - Len(ui.queued)]
  BY <1>1, RowIs
<1>3. PICK w : w = wire'
  OBVIOUS
<1>4. /\ Len(w) = Len(wire) + Len(signals) /\ Len(signals) \in Nat
      /\ \A n \in Nat : 0 < n /\ n <= Len(wire) => w[n] = wire[n]
      /\ \A n \in Nat : Len(wire) < n /\ n <= Len(wire) + Len(signals) => w[n] = signals[n - Len(wire)]
  BY <1>1, <1>3, RowIs
<1>5. w \in Seq(S)
  <2>1. signals \in Seq(S)
    OBVIOUS
  <2> QED
    BY <1>1, <1>3, <2>1, ConcatProperties
<1>6. PICK q : q = ui.queued \o w
  OBVIOUS
<1>7. /\ Len(q) = Len(ui.queued) + Len(w)
      /\ \A n \in Nat : 0 < n /\ n <= Len(ui.queued) => q[n] = ui.queued[n]
      /\ \A n \in Nat : Len(ui.queued) < n /\ n <= Len(ui.queued) + Len(w) =>
           q[n] = w[n - Len(ui.queued)]
  BY <1>1, <1>5, <1>6, RowIs
<1>8. p' = q
  BY <1>3, <1>6
<1> HIDE DEF p
<1> DEFINE k == Len(ui.queued)
           l == Len(wire)
           new == Len(signals)
<1>0. /\ k \in Nat /\ l \in Nat /\ new \in Nat
      /\ Len(p) = k + l /\ Len(w) = l + new /\ Len(q) = k + Len(w)
  BY <1>2, <1>4, <1>7
<1> HIDE DEF k, l, new
<1>9. Len(p) \in Nat /\ Len(q) = Len(p) + new
  BY <1>0
<1>10. ASSUME NEW n \in Nat, 0 < n, n <= Len(p)
       PROVE  q[n] = p[n]
  <2>1. CASE n <= k
    BY <1>2, <1>7, <1>10, <2>1 DEF k
  <2>2. CASE ~(n <= k)
    <3>1. /\ n - k \in Nat /\ 0 < n - k /\ n - k <= l /\ k < n
          /\ n <= k + l /\ n <= k + Len(w)
      BY <1>0, <1>10, <2>2
    <3> QED
      BY <1>2, <1>4, <1>7, <3>1 DEF k, l
  <2> QED
    BY <2>1, <2>2
<1>11. ASSUME NEW n \in Nat, Len(p) < n, n <= Len(p) + Len(signals)
       PROVE  q[n] = signals[n - Len(p)]
  <2>0. n <= Len(p) + new
    BY <1>11 DEF new
  <2>1. /\ n - k \in Nat /\ l < n - k /\ n - k <= l + new
        /\ k < n /\ n <= k + Len(w) /\ (n - k) - l = n - Len(p)
    BY <1>0, <1>11, <2>0
  <2> QED
    BY <1>4, <1>7, <2>1 DEF k, l, new
<1>12. ASSUME NEW n \in Nat, 0 < n, n <= Len(wire)
       PROVE  \E m \in Nat : 0 < m /\ m <= Len(p) /\ p[m] = wire[n]
  <2>1. /\ k + n \in Nat /\ 0 < k + n /\ k + n <= Len(p) /\ (k + n) - k = n /\ k < k + n
        /\ k + n <= k + l
    <3>1. n <= l
      BY <1>12 DEF l
    <3> QED
      BY <1>0, <1>12, <3>1
  <2>2. p[k + n] = wire[n]
    BY <1>2, <2>1 DEF k, l
  <2> QED
    BY <2>1, <2>2
<1> QED
  BY <1>2, <1>3, <1>4, <1>8, <1>9, <1>10, <1>11, <1>12 DEF p, new

\* While the backend is busy, the interface waits for it.
Busy ==
  {"CreatingSession", "PromptPending", "SubmittingResponse", "ResolvingSession", "StartingSession"}

\* The interface offers nothing, no signal on its way lets it, and no reply of the
\* attempt is late.
LEMMA BusyGround ==
  ASSUME Inv, Agreement, online, phase \in Busy
  PROVE  /\ ~Taken(ui, answers)
         /\ \A j \in Slots : ~Waits(ui, answers, j, "respond") /\ ~Waits(ui, answers, j, "start")
         /\ ui.attempt # None =>
              ui.attempt = lastAttempt /\ ui.service = "ready" /\ ui.mode = "submitting"
         /\ Live(ui, answers) =>
              \A n \in Nat : 0 < n /\ n <= Len(ui.queued \o wire) /\ Mine((ui.queued \o wire)[n]) =>
                ~Decisive((ui.queued \o wire)[n])
         /\ \A j \in Slots : ui.attempt # None /\ ui.calls[j].key = ui.attempt =>
              /\ ui.calls[j].op = "respond" => answers[j].result # "error"
              /\ ui.calls[j].op = "start" => answers[j].result = "none"
         /\ serving # 0 => serving \in Slots /\ ui.calls[serving].op \in {"respond", "start"}
<1>1. /\ ui \in Feature /\ Steady(ui) /\ Replied(answers) /\ serving \in Slots \cup {0}
      /\ Accord(ui, answers, wire) /\ ServingFits
  BY Grounds
<1>2. \A j \in Slots : ~Waits(ui, answers, j, "respond") /\ ~Waits(ui, answers, j, "start")
  BY <1>1 DEF Accord, Core, CallFits, Busy
<1>3. ui.attempt # None =>
        ui.attempt = lastAttempt /\ ui.service = "ready" /\ ui.mode = "submitting"
  <2>1. ui.mode # "handingOff"
    BY DEF Inv, HandoffKnown, Busy
  <2> QED
    BY <1>1, <2>1 DEF Accord, Core, Bound, Busy, Feature
<1>4. ~Taken(ui, answers)
  BY <1>2, <1>3 DEF Taken
<1> DEFINE p == ui.queued \o wire
<1>5. ASSUME Live(ui, answers), NEW n \in Nat, 0 < n, n <= Len(p), Mine(p[n])
      PROVE  ~Decisive(p[n])
  <2>1. Flows(ui, answers, p, 0)
    BY <1>1 DEF Accord
  <2> HIDE DEF p
  <2>2. Decisive(p[n]) => Confirmed(p[n])
    BY <1>5, <2>1 DEF Flows, Decides
  <2> QED
    BY <2>2 DEF Confirmed, Decisive, Busy
<1>6. ASSUME ui.attempt # None
      PROVE  \A k : ~FailedWithin(wire, k)
  <2> SUFFICES ASSUME NEW n \in Nat, 0 < n, n <= Len(wire), wire[n] = StateSignal(lastAttempt, "Failed")
               PROVE  FALSE
    BY DEF FailedWithin
  <2>1. PICK m \in Nat : 0 < m /\ m <= Len(p) /\ p[m] = wire[n]
    <3>1. ui.queued \in Seq(Signals) /\ wire \in Seq(Signals \cup {Disconnected})
      BY <1>1 DEF Inv, BusFits, Feature
    <3>2. /\ Len(p) = Len(ui.queued) + Len(wire) /\ Len(ui.queued) \in Nat /\ Len(wire) \in Nat
          /\ \A x \in Nat : Len(ui.queued) < x /\ x <= Len(ui.queued) + Len(wire) =>
               p[x] = wire[x - Len(ui.queued)]
      BY <3>1, RowIs
    <3> HIDE DEF p
    <3>3. /\ Len(ui.queued) + n \in Nat /\ Len(ui.queued) < Len(ui.queued) + n
          /\ Len(ui.queued) + n <= Len(p) /\ (Len(ui.queued) + n) - Len(ui.queued) = n
          /\ 0 < Len(ui.queued) + n
      BY <3>2
    <3>4. p[Len(ui.queued) + n] = wire[n]
      BY <3>2, <3>3
    <3> QED
      BY <3>3, <3>4
  <2>2. Mine(wire[n]) /\ Decisive(wire[n])
    BY DEF Mine, Decisive, StateSignal, Signal
  <2>3. Live(ui, answers)
    BY <1>6 DEF Live
  <2> HIDE DEF p
  <2> QED
    BY <1>5, <2>1, <2>2, <2>3
<1>7. ASSUME NEW j \in Slots, ui.attempt # None, ui.calls[j].key = ui.attempt
      PROVE  /\ ui.calls[j].op = "respond" => answers[j].result # "error"
             /\ ui.calls[j].op = "start" => answers[j].result = "none"
  <2>1. /\ ui.calls[j].op = "respond" /\ answers[j].result = "error" =>
             FailedWithin(wire, answers[j].after)
        /\ ui.calls[j].op = "start" /\ answers[j].result = "error" =>
             phase = "Authenticated" \/ FailedWithin(wire, answers[j].after)
    BY <1>1, <1>7 DEF Accord, Late
  <2>2. ui.calls[j].op = "start" => answers[j].result # "ok"
    BY DEF Inv, HandoffKnown, Busy
  <2>3. answers[j].result \in {"none", "ok", "error"}
    BY <1>1 DEF Replied
  <2> QED
    BY <1>6, <1>7, <2>1, <2>2, <2>3 DEF Busy
<1>8. serving # 0 => serving \in Slots /\ ui.calls[serving].op \in {"respond", "start"}
  BY <1>1 DEF ServingFits, Accord, Carried, Busy
<1> HIDE DEF Inv, Agreement
<1> QED
  BY <1>2, <1>3, <1>4, <1>5, <1>7, <1>8

-----------------------------------------------------------------------------
(* The steps of the backend: the conversation goes on.                      *)

\* What the new signals tell: the last one that makes it somebody's turn, but for
\* its echo, is true now.
Told(signals) ==
  /\ signals \in Seq(Signals)
  /\ wire' = wire \o signals
  /\ \A n \in Nat : 0 < n /\ n <= Len(signals) /\ Decisive(signals[n]) =>
       /\ Asks(signals[n]) => phase' = "WaitingForInput" /\ signals[n].number = asked'
       /\ ~Asks(signals[n]) => signals[n].value = phase'
       /\ \A m \in Nat : n < m /\ m <= Len(signals) =>
            /\ phase' = "WaitingForInput"
            /\ signals[m].what = "state" /\ signals[m].value = "WaitingForInput"
  /\ phase' \in {"WaitingForInput", "Failed"} =>
       \E n \in Nat : 0 < n /\ n <= Len(signals) /\ Mine(signals[n]) /\ Decisive(signals[n])

\* What becomes of the command: it goes on, or it ends, and an error is told.
Ends(signals) ==
  \/ UNCHANGED <<answers, serving>>
  \/ EndCommand("ok") /\ phase' \notin {"ResolvingSession", "StartingSession"}
  \/ /\ EndCommand("error")
     /\ \/ /\ phase' = "Failed"
           /\ 0 < Len(signals) /\ signals[Len(signals)] = StateSignal(lastAttempt, "Failed")
        \/ phase = "ResolvingSession" /\ phase' = "Authenticated"

\* The row of events stays in accord when the backend has spoken, and nothing on
\* its way was decisive.
LEMMA TalkFlows ==
  ASSUME Inv, ui' = ui, NEW signals, Told(signals), ~Taken(ui, answers)',
         phase' \in {"WaitingForInput", "Failed"} => lastAttempt' = lastAttempt,
         Live(ui, answers)' =>
           \A n \in Nat : 0 < n /\ n <= Len(ui.queued \o wire)
                           /\ (ui.queued \o wire)[n].attempt = lastAttempt' =>
             ~Decisive((ui.queued \o wire)[n])
  PROVE  Flows(ui, answers, ui.queued \o wire, 0)'
<1> DEFINE p == ui.queued \o wire
<1>1. /\ signals \in Seq(Signals) /\ wire' = wire \o signals
      /\ \A n \in Nat : 0 < n /\ n <= Len(signals) /\ Decisive(signals[n]) =>
           /\ Asks(signals[n]) => phase' = "WaitingForInput" /\ signals[n].number = asked'
           /\ ~Asks(signals[n]) => signals[n].value = phase'
           /\ \A m \in Nat : n < m /\ m <= Len(signals) =>
                /\ phase' = "WaitingForInput"
                /\ signals[m].what = "state" /\ signals[m].value = "WaitingForInput"
      /\ phase' \in {"WaitingForInput", "Failed"} =>
           \E n \in Nat : 0 < n /\ n <= Len(signals) /\ Mine(signals[n]) /\ Decisive(signals[n])
  BY DEF Told
<1>2. /\ Len(p) \in Nat /\ Len(signals) \in Nat /\ Len(p') = Len(p) + Len(signals)
      /\ \A n \in Nat : 0 < n /\ n <= Len(p) => p'[n] = p[n]
      /\ \A n \in Nat : Len(p) < n /\ n <= Len(p) + Len(signals) => p'[n] = signals[n - Len(p)]
  BY <1>1, RowGrows
<1>3. Live(ui, answers)' =>
        \A n \in Nat : 0 < n /\ n <= Len(p) /\ p[n].attempt = lastAttempt' => ~Decisive(p[n])
  OBVIOUS
<1> HIDE DEF Inv, p
<1>4. PICK q : q = p'
  OBVIOUS
<1>5. PICK k : k = Len(p)
  OBVIOUS
<1>6. PICK l : l = Len(signals)
  OBVIOUS
<1>7. /\ k \in Nat /\ l \in Nat /\ Len(q) = k + l
      /\ \A n \in Nat : 0 < n /\ n <= k => q[n] = p[n]
      /\ \A n \in Nat : k < n /\ n <= k + l => q[n] = signals[n - k]
  BY <1>2, <1>4, <1>5, <1>6
<1>8. ASSUME Live(ui, answers)', NEW n \in Nat, 0 < n, n <= Len(q),
             q[n].attempt = lastAttempt', Decisive(q[n])
      PROVE  /\ Asks(q[n]) => phase' = "WaitingForInput" /\ q[n].number = asked'
             /\ ~Asks(q[n]) => q[n].value = phase'
             /\ \A m \in Nat : n < m /\ m <= Len(q) =>
                  phase' = "WaitingForInput" /\ q[m].what = "state" /\ q[m].value = "WaitingForInput"
  <2>1. k < n
    <3>1. CASE n <= k
      <4>1. q[n] = p[n] /\ n <= Len(p)
        BY <1>5, <1>7, <1>8, <3>1
      <4> QED
        BY <1>3, <1>8, <4>1
    <3> QED
      BY <1>7, <3>1
  <2>2. n - k \in Nat /\ 0 < n - k /\ n - k <= l /\ q[n] = signals[n - k]
    BY <1>7, <1>8, <2>1
  <2>3. ASSUME NEW m \in Nat, n < m, m <= Len(q)
        PROVE  phase' = "WaitingForInput" /\ q[m].what = "state" /\ q[m].value = "WaitingForInput"
    <3>1. m - k \in Nat /\ n - k < m - k /\ m - k <= l /\ q[m] = signals[m - k]
      BY <1>7, <2>1, <2>3
    <3> QED
      BY <1>1, <1>6, <1>8, <2>2, <3>1
  <2>4. /\ Asks(q[n]) => phase' = "WaitingForInput" /\ q[n].number = asked'
        /\ ~Asks(q[n]) => q[n].value = phase'
    BY <1>1, <1>6, <1>8, <2>2
  <2> QED
    BY <2>3, <2>4
<1>9. Decides(ui, answers, p, 0)'
  BY <1>4, <1>8 DEF Decides, Confirmed, Echo, Mine, Decisive, Asks
<1>10. Echoes(ui, answers, p, 0)'
  BY DEF Echoes
<1>11. Announced(ui, answers, p, 0)'
  <2>1. ASSUME phase' \in {"WaitingForInput", "Failed"}
        PROVE  \E n \in Nat : 0 < n /\ n <= Len(q) /\ q[n].attempt = lastAttempt' /\ Decisive(q[n])
    <3>1. PICK n \in Nat : 0 < n /\ n <= l /\ Mine(signals[n]) /\ Decisive(signals[n])
      BY <1>1, <1>6, <2>1
    <3>2. k + n \in Nat /\ 0 < k + n /\ k + n <= Len(q) /\ q[k + n] = signals[(k + n) - k]
          /\ (k + n) - k = n
      BY <1>7, <3>1
    <3>3. q[k + n].attempt = lastAttempt' /\ Decisive(q[k + n])
      BY <2>1, <3>1, <3>2 DEF Mine
    <3> QED
      BY <3>2, <3>3
  <2> QED
    BY <1>4, <2>1 DEF Announced, Mine, Decisive, Asks
<1> QED
  BY <1>9, <1>10, <1>11 DEF Flows, p

\* What is left of the old replies, and the new one.
LEMMA EndIs ==
  ASSUME Inv, Agreement, NEW result \in {"ok", "error"}, EndCommand(result), Len(wire') \in Nat
  PROVE  /\ serving' = 0
         /\ Replied(answers')
         /\ \A j \in Slots :
              \/ j # serving /\ answers'[j] = answers[j]
              \/ /\ j = serving /\ serving # 0
                 /\ answers'[j].result = result /\ answers'[j].after = Len(wire')
<1>1. /\ answers = [j \in Slots |-> answers[j]] /\ Replied(answers) /\ serving \in Slots \cup {0}
  BY DEF Inv, BusFits, Agreement
<1> HIDE DEF Inv, Agreement
<1>2. 0 \notin Slots
  BY SlotsAssumption
<1>3. CASE serving = 0
  BY <1>1, <1>2, <1>3 DEF EndCommand
<1>4. CASE serving # 0
  <2>1. answers' = [answers EXCEPT ![serving] = Answer(result, None, wire')] /\ serving' = 0
    BY <1>4 DEF EndCommand
  <2>2. answers'[serving] = Answer(result, None, wire')
    BY <1>1, <1>4, <2>1
  <2>3. answers'[serving].result = result /\ answers'[serving].after = Len(wire')
    BY <2>2 DEF Answer
  <2>4. \A j \in Slots : j # serving => answers'[j] = answers[j]
    BY <1>1, <2>1
  <2>5. Replied(answers')
    <3> SUFFICES ASSUME NEW j \in Slots
                 PROVE  /\ answers'[j].after \in Nat
                        /\ answers'[j].result \in {"none", "ok", "error"}
                        /\ answers'[j].result = "none" => answers'[j] = NoAnswer
      BY DEF Replied
    <3>1. CASE j = serving
      BY <2>3, <3>1
    <3>2. CASE j # serving
      BY <1>1, <2>4, <3>2 DEF Replied
    <3> QED
      BY <3>1, <3>2
  <2> QED
    BY <1>4, <2>1, <2>3, <2>4, <2>5
<1> QED
  BY <1>3, <1>4

\* A busy backend goes on.
LEMMA TalkAgree ==
  ASSUME Inv, Agreement, online, UNCHANGED <<ui, online>>, phase \in Busy, lastAttempt' = lastAttempt,
         NEW signals, Told(signals), Ends(signals),
         phase' = "HandingOff" => phase = "StartingSession" /\ EndCommand("ok"),
         phase' \in {"ResolvingSession", "StartingSession"} =>
           phase = "ResolvingSession" /\ UNCHANGED serving
  PROVE  Agreement'
<1>1. /\ ui \in Feature /\ Steady(ui) /\ Replied(answers) /\ serving \in Slots \cup {0}
      /\ Accord(ui, answers, wire) /\ ServingFits /\ \A j \in Slots : ui.calls[j] \in Calls
  BY Grounds
<1>2. /\ ~Taken(ui, answers)
      /\ \A j \in Slots : ~Waits(ui, answers, j, "respond") /\ ~Waits(ui, answers, j, "start")
      /\ ui.attempt # None =>
           ui.attempt = lastAttempt /\ ui.service = "ready" /\ ui.mode = "submitting"
      /\ \A j \in Slots : ui.attempt # None /\ ui.calls[j].key = ui.attempt =>
           /\ ui.calls[j].op = "respond" => answers[j].result # "error"
           /\ ui.calls[j].op = "start" => answers[j].result = "none"
      /\ serving # 0 => serving \in Slots /\ ui.calls[serving].op \in {"respond", "start"}
  BY BusyGround
<1>3. PICK w : w = wire'
  OBVIOUS
<1>4. /\ Len(wire) \in Nat /\ Len(signals) \in Nat /\ Len(w) = Len(wire) + Len(signals)
      /\ \A n \in Nat : 0 < n /\ n <= Len(wire) => w[n] = wire[n]
      /\ \A n \in Nat : Len(wire) < n /\ n <= Len(wire) + Len(signals) => w[n] = signals[n - Len(wire)]
  BY <1>3, RowGrows DEF Told
<1>5. Len(w) \in Nat
  BY <1>4
<1>6. /\ serving' \in {serving, 0}
      /\ Replied(answers')
      /\ \A j \in Slots :
           \/ answers'[j] = answers[j] /\ (serving' = serving \/ j # serving)
           \/ /\ j = serving /\ serving # 0 /\ serving' = 0
              /\ answers'[j].result \in {"ok", "error"} /\ answers'[j].after = Len(w)
  <2>1. CASE UNCHANGED <<answers, serving>>
    BY <1>1, <2>1 DEF Replied
  <2>2. CASE EndCommand("ok")
    BY <1>3, <1>5, <2>2, EndIs
  <2>3. CASE EndCommand("error")
    BY <1>3, <1>5, <2>3, EndIs
  <2> QED
    BY <2>1, <2>2, <2>3 DEF Ends
<1>7. ASSUME NEW j \in Slots, answers'[j].result = "error", answers[j].result # "error"
      PROVE  /\ j = serving /\ answers'[j].after = Len(w)
             /\ \/ phase' = "Failed" /\ w[Len(w)] = StateSignal(lastAttempt, "Failed") /\ 0 < Len(w)
                \/ phase' = "Authenticated" /\ ui.calls[j].op = "start"
  <2>0. j = serving /\ serving # 0 /\ answers'[j].after = Len(w)
    BY <1>6, <1>7
  <2>1. ~EndCommand("ok") /\ ~(UNCHANGED <<answers, serving>>)
    <3>1. ~EndCommand("ok")
      BY <1>3, <1>5, <1>7, <2>0, EndIs
    <3> QED
      BY <1>7, <3>1
  <2>2. CASE phase' = "Failed" /\ 0 < Len(signals) /\ signals[Len(signals)] = StateSignal(lastAttempt, "Failed")
    <3>1. /\ Len(w) \in Nat /\ Len(wire) < Len(w) /\ Len(w) <= Len(wire) + Len(signals)
          /\ Len(w) - Len(wire) = Len(signals) /\ 0 < Len(w)
      BY <1>4, <2>2
    <3>2. w[Len(w)] = signals[Len(signals)]
      BY <1>4, <3>1
    <3> QED
      BY <2>0, <2>2, <3>1, <3>2
  <2>3. CASE phase = "ResolvingSession" /\ phase' = "Authenticated"
    <3>1. ui.calls[serving].op = "start"
      BY <1>1, <2>3 DEF Accord, Carried
    <3> QED
      BY <2>0, <2>3, <3>1
  <2> QED
    BY <2>1, <2>2, <2>3 DEF Ends
<1>8. /\ Accord(ui, answers, wire) /\ \A j \in Slots : CallFits(ui, answers, j)
      /\ Known(ui, answers) /\ Unbound(ui) /\ Carried(ui) /\ Clean(ui) /\ Bound(ui)
  BY <1>1 DEF Accord, Core
<1>9. /\ 0 \notin Slots
      /\ phase = "StartingSession" => serving # 0 /\ ui.calls[serving].op = "start"
  BY <1>8, SlotsAssumption DEF Carried
<1>10. phase' = "HandingOff" =>
         /\ serving \in Slots /\ ui.calls[serving].op = "start" /\ answers'[serving].result = "ok"
         /\ ui.attempt # None
  <2> SUFFICES ASSUME phase' = "HandingOff"
               PROVE  /\ serving \in Slots /\ ui.calls[serving].op = "start"
                      /\ answers'[serving].result = "ok" /\ ui.attempt # None
    OBVIOUS
  <2>1. serving \in Slots /\ ui.calls[serving].op = "start" /\ EndCommand("ok")
    BY <1>1, <1>9
  <2>2. answers'[serving].result = "ok"
    BY <1>3, <1>5, <1>9, <2>1, EndIs
  <2>3. ui.calls[serving].key \in Attempts
    BY <1>1, <2>1, CallTypes
  <2>4. answers[serving] = NoAnswer
    BY <2>1, <1>9 DEF Inv, ServingFits
  <2>5. ui.calls[serving].key = ui.attempt
    BY <1>8, <2>1, <2>4, NoAnswerIs DEF CallFits
  <2> QED
    BY <2>1, <2>2, <2>3, <2>5, NoneAssumption DEF Attempts
<1>11. \A j \in Slots : ui.calls[j].op \notin {"respond", "start"} =>
         answers'[j] = answers[j] /\ (serving' # j <=> serving # j)
  BY <1>2, <1>6, <1>9
<1>12. (Given(ui, answers)' <=> Given(ui, answers)) /\ (Live(ui, answers)' <=> Live(ui, answers))
  BY <1>11 DEF Given, Live
<1>13. \A j \in Slots : ~Waits(ui, answers, j, "respond")' /\ ~Waits(ui, answers, j, "start")'
  BY <1>2, <1>6 DEF Waits
<1>14. ~Taken(ui, answers)'
  BY <1>2, <1>13 DEF Taken
<1>15. Flows(ui, answers, ui.queued \o wire, 0)'
  <2>1. Live(ui, answers) =>
          \A n \in Nat : 0 < n /\ n <= Len(ui.queued \o wire) /\ Mine((ui.queued \o wire)[n]) =>
            ~Decisive((ui.queued \o wire)[n])
    BY BusyGround
  <2>2. Live(ui, answers)' =>
          \A n \in Nat : 0 < n /\ n <= Len(ui.queued \o wire)
                          /\ (ui.queued \o wire)[n].attempt = lastAttempt' =>
            ~Decisive((ui.queued \o wire)[n])
    BY <1>12, <2>1 DEF Mine
  <2> QED
    BY <1>14, <2>2, TalkFlows
<1> HIDE DEF Inv, Agreement
<1>16. Bound(ui)' /\ Unbound(ui)' /\ Clean(ui)'
  BY <1>2, <1>8 DEF Bound, Unbound, Clean, Quiet, Busy
<1>17. Known(ui, answers)'
  <2>1. phase \in ActivePhases
    BY DEF Busy, ActivePhases
  <2>2. Live(ui, answers) \/ \E i \in Slots : Waits(ui, answers, i, "cancel") /\ ui.calls[i].key = lastAttempt
    BY <1>8, <2>1 DEF Known
  <2>3. Live(ui, answers)' \/ \E i \in Slots : Waits(ui, answers, i, "cancel")' /\ ui.calls[i].key = lastAttempt
    BY <1>11, <1>12, <2>2 DEF Waits
  <2> QED
    BY <1>10, <2>3 DEF Known
<1>18. ASSUME NEW j \in Slots
       PROVE  CallFits(ui, answers, j)'
  <2>1. CallFits(ui, answers, j)
    BY <1>8
  <2>2. CASE ui.calls[j].op \notin {"respond", "start"}
    BY <1>11, <2>1, <2>2 DEF CallFits, Busy, Quiet, Waits
  <2>3. CASE ui.calls[j].op = "respond"
    BY <1>12, <1>13, <2>1, <2>3 DEF CallFits
  <2>4. CASE ui.calls[j].op = "start"
    <3>1. answers'[j].result # "error" => answers[j].result # "error"
      <4>1. CASE answers'[j] = answers[j]
        BY <4>1
      <4>2. CASE j = serving
        BY <1>1, <1>9, <4>2, NoAnswerIs DEF ServingFits
      <4> QED
        BY <1>6, <4>1, <4>2
    <3> QED
      BY <1>12, <1>13, <2>1, <2>4, <3>1 DEF CallFits
  <2> QED
    BY <2>2, <2>3, <2>4
<1>19. Late(ui, answers, wire)'
  <2> SUFFICES ASSUME NEW j \in Slots, ui.attempt # None, ui.calls[j].key = ui.attempt
               PROVE  /\ ui.calls[j].op = "respond" /\ answers'[j].result = "error" =>
                           FailedWithin(w, answers'[j].after)
                      /\ ui.calls[j].op = "start" /\ answers'[j].result # "none" =>
                           \A n \in Nat : 0 < n /\ n <= Len(w) /\ Mine(w[n]) => n <= answers'[j].after
                      /\ ui.calls[j].op = "start" /\ answers'[j].result = "error" =>
                           phase' = "Authenticated" \/ FailedWithin(w, answers'[j].after)
    BY <1>3 DEF Late, FailedWithin, Mine
  <2>1. /\ ui.calls[j].op = "respond" => answers[j].result # "error"
        /\ ui.calls[j].op = "start" => answers[j].result = "none"
    BY <1>2
  <2>2. ASSUME answers'[j].result = "error", answers[j].result # "error"
        PROVE  FailedWithin(w, answers'[j].after) \/ (phase' = "Authenticated" /\ ui.calls[j].op = "start")
    BY <1>5, <1>7, <2>2 DEF FailedWithin
  <2>3. ASSUME ui.calls[j].op = "start", answers'[j].result # "none"
        PROVE  answers'[j].after = Len(w)
    BY <1>6, <2>1, <2>3
  <2> QED
    BY <2>1, <2>2, <2>3
<1>20. Carried(ui)'
  BY <1>2, <1>6, <1>8 DEF Carried
<1>21. Accord(ui, answers, wire)'
  BY <1>15, <1>16, <1>17, <1>18, <1>19, <1>20 DEF Accord, Core
<1>22. Replied(answers)' /\ Steady(ui)'
  BY <1>1, <1>6 DEF Replied, Steady
<1> QED
  BY <1>21, <1>22 DEF Agreement

-----------------------------------------------------------------------------
(* The steps of the backend, one by one.                                    *)

\* One signal.
LEMMA TellsOne ==
  ASSUME NEW a \in Signals, wire' = wire \o <<a>>,
         Decisive(a) =>
           /\ Asks(a) => phase' = "WaitingForInput" /\ a.number = asked'
           /\ ~Asks(a) => a.value = phase',
         phase' \in {"WaitingForInput", "Failed"} => Mine(a) /\ Decisive(a)
  PROVE  Told(<<a>>) /\ Len(<<a>>) = 1 /\ <<a>>[1] = a
<1>1. PICK s : s = <<a>>
  OBVIOUS
<1>2. s \in Seq(Signals) /\ Len(s) = 1 /\ s[1] = a
  BY <1>1
<1>3. /\ \A n \in Nat : 0 < n /\ n <= 1 => n = 1
      /\ \A m \in Nat : ~(1 < m /\ m <= 1)
      /\ 1 \in Nat /\ 0 < 1 /\ 1 <= 1
  OBVIOUS
<1>4. Told(s)
  BY <1>1, <1>2, <1>3 DEF Told
<1> QED
  BY <1>1, <1>2, <1>4

\* Two signals; the second makes it nobody's turn.
LEMMA TellsTwo ==
  ASSUME NEW a \in Signals, NEW b \in Signals, wire' = wire \o <<a, b>>, ~Decisive(b),
         Decisive(a) =>
           /\ Asks(a) /\ phase' = "WaitingForInput" /\ a.number = asked'
           /\ b.what = "state" /\ b.value = "WaitingForInput",
         phase' \in {"WaitingForInput", "Failed"} => Mine(a) /\ Decisive(a)
  PROVE  Told(<<a, b>>)
<1>1. PICK s : s = <<a, b>>
  OBVIOUS
<1>2. s \in Seq(Signals) /\ Len(s) = 2 /\ s[1] = a /\ s[2] = b
  BY <1>1
<1>3. /\ \A n \in Nat : 0 < n /\ n <= 2 => n = 1 \/ n = 2
      /\ \A m \in Nat : 1 < m /\ m <= 2 => m = 2
      /\ 1 \in Nat /\ 0 < 1 /\ 1 <= 2
  OBVIOUS
<1>4. Told(s)
  BY <1>1, <1>2, <1>3 DEF Told
<1> QED
  BY <1>1, <1>4

\* A state signal is what it was made of.
LEMMA StateSignalIs ==
  ASSUME NEW k, NEW value, NEW e, e = StateSignal(k, value)
  PROVE  /\ Mine(e) <=> k = lastAttempt
         /\ ~Asks(e) /\ e.what = "state" /\ e.value = value /\ e.attempt = k
         /\ Decisive(e) <=> value \in {"Authenticated", "Failed", "HandingOff"}
BY DEF Mine, Asks, Decisive, StateSignal, Signal

\* A prompt signal too.
LEMMA PromptSignalIs ==
  ASSUME NEW k, NEW value, NEW number, NEW e, e = PromptSignal(k, value, number)
  PROVE  /\ Mine(e) <=> k = lastAttempt
         /\ Asks(e) <=> value = "input"
         /\ Decisive(e) <=> value = "input"
         /\ e.what = "prompt" /\ e.value = value /\ e.number = number /\ e.attempt = k
BY DEF Mine, Asks, Decisive, PromptSignal, Signal

\* The phases of a conversation that goes on.
LEMMA BusyIs ==
  /\ Busy \subseteq ActivePhases /\ ActivePhases \subseteq Phases /\ "Failed" \in Phases
  /\ Conversing \subseteq Busy
  /\ {"PromptPending", "SubmittingResponse", "ResolvingSession", "StartingSession"} \subseteq Busy
  /\ "Authenticated" \in ActivePhases /\ "WaitingForInput" \in ActivePhases
BY DEF Busy, ActivePhases, InvalidatingPhases, Phases, Conversing

\* What a step of the conversation is made of.
LEMMA TalkGround ==
  ASSUME Inv, NEW from \in SUBSET Busy, NEW to, NEW newDetail, Transition(from, to, newDetail)
  PROVE  /\ phase \in Busy /\ phase \in from /\ phase' = to /\ lastAttempt' = lastAttempt
         /\ active = lastAttempt
         /\ \A state \in Phases \ {"HandingOff", "Idle"} : StateSignal(active, state) \in Signals
         /\ \A kind \in {"input", "info", "error"}, number \in Nat :
              PromptSignal(active, kind, number) \in Signals
<1>1. from \in SUBSET ActivePhases
  BY BusyIs
<1>2. /\ \A state \in Phases \ {"HandingOff", "Idle"} : Fair(StateSignal(active, state))
      /\ \A kind \in {"input", "info", "error"}, number \in Nat : Fair(PromptSignal(active, kind, number))
  BY <1>1, ActiveIs
<1>3. phase \in from /\ phase' = to /\ lastAttempt' = lastAttempt
  BY DEF Transition
<1>4. active = lastAttempt
  BY <1>1, <1>3 DEF Inv, MachineInv, AttemptTracksPhase
<1> QED
  BY <1>2, <1>3, <1>4 DEF Fair

\* A conversation asks, tells, goes on, succeeds and fails.
LEMMA TalkStepAgree ==
  ASSUME Inv, Agreement,
         \/ AskInput
         \/ \E kind \in {"info", "error"} : Tell(kind)
         \/ ReceiveMessage
         \/ Succeed
         \/ Reject
         \/ Fail
         \/ Unavailable
         \/ Resolve
  PROVE  Agreement'
<1>0. asked \in Nat /\ asked + 1 \in Nat
  BY BoundsAssumption DEF Inv, BusFits
<1>00. /\ {"PromptPending"} \in SUBSET Busy /\ Conversing \in SUBSET Busy
       /\ {"SubmittingResponse"} \in SUBSET Busy /\ {"ResolvingSession"} \in SUBSET Busy
       /\ {"StartingSession"} \in SUBSET Busy
       /\ {"WaitingForInput", "SubmittingResponse", "PromptPending", "Authenticated",
           "CreatingSession", "Failed", "StartingSession"} \subseteq Phases \ {"HandingOff", "Idle"}
  BY DEF Busy, ActivePhases, InvalidatingPhases, Phases, Conversing
<1>1. CASE AskInput
  <2>1. /\ Transition({"PromptPending"}, "WaitingForInput", "none")
        /\ asked' = asked + 1
        /\ Emit(<<PromptSignal(active, "input", asked'), StateSignal(active, "WaitingForInput")>>)
        /\ EndCommand("ok")
    BY <1>1 DEF AskInput, PromptNeedsInput
  <2>2. PICK a : a = PromptSignal(active, "input", asked')
    OBVIOUS
  <2>3. PICK b : b = StateSignal(active, "WaitingForInput")
    OBVIOUS
  <2>4. /\ a \in Signals /\ b \in Signals /\ active = lastAttempt /\ lastAttempt' = lastAttempt
        /\ phase = "PromptPending" /\ phase' = "WaitingForInput"
    BY <1>0, <1>00, <2>1, <2>2, <2>3, TalkGround
  <2>5. /\ ~Decisive(b) /\ b.what = "state" /\ b.value = "WaitingForInput"
        /\ Decisive(a) /\ Asks(a) /\ Mine(a) /\ a.number = asked'
    BY <2>2, <2>3, <2>4, StateSignalIs, PromptSignalIs
  <2>6. wire' = wire \o <<a, b>> /\ online /\ UNCHANGED <<ui, online>>
    BY <2>1, <2>2, <2>3 DEF Emit
  <2>7. Told(<<a, b>>)
    BY <2>4, <2>5, <2>6, TellsTwo
  <2>8. Ends(<<a, b>>)
    BY <2>1, <2>4 DEF Ends
  <2> QED
    BY <2>4, <2>6, <2>7, <2>8, TalkAgree DEF Busy
<1>2. ASSUME NEW kind \in {"info", "error"}, Tell(kind)
      PROVE  Agreement'
  <2>1. /\ Transition({"PromptPending"}, "SubmittingResponse", "none")
        /\ Emit(<<PromptSignal(active, kind, asked), StateSignal(active, "SubmittingResponse")>>)
        /\ UNCHANGED <<answers, serving, asked>>
    BY <1>2 DEF Tell, PromptAutoResponse
  <2>2. PICK a : a = PromptSignal(active, kind, asked)
    OBVIOUS
  <2>3. PICK b : b = StateSignal(active, "SubmittingResponse")
    OBVIOUS
  <2>4. /\ a \in Signals /\ b \in Signals /\ active = lastAttempt /\ lastAttempt' = lastAttempt
        /\ phase = "PromptPending" /\ phase' = "SubmittingResponse"
    BY <1>0, <1>00, <2>1, <2>2, <2>3, TalkGround
  <2>5. ~Decisive(b) /\ ~Decisive(a)
    BY <2>2, <2>3, StateSignalIs, PromptSignalIs
  <2>6. wire' = wire \o <<a, b>> /\ online /\ UNCHANGED <<ui, online>>
    BY <2>1, <2>2, <2>3 DEF Emit
  <2>7. Told(<<a, b>>)
    BY <2>4, <2>5, <2>6, TellsTwo
  <2>8. Ends(<<a, b>>)
    BY <2>1 DEF Ends
  <2> QED
    BY <2>4, <2>6, <2>7, <2>8, TalkAgree DEF Busy
<1>3. CASE ReceiveMessage
  <2>1. /\ Transition(Conversing, "PromptPending", "none")
        /\ Emit(<<StateSignal(active, "PromptPending")>>)
        /\ UNCHANGED <<answers, serving, asked>>
    BY <1>3 DEF ReceiveMessage, AuthMessage
  <2>2. PICK a : a = StateSignal(active, "PromptPending")
    OBVIOUS
  <2>4. /\ a \in Signals /\ lastAttempt' = lastAttempt
        /\ phase \in Busy /\ phase' = "PromptPending"
    BY <1>00, <2>1, <2>2, TalkGround
  <2>5. ~Decisive(a)
    BY <2>2, StateSignalIs, PromptSignalIs
  <2>6. wire' = wire \o <<a>> /\ online /\ UNCHANGED <<ui, online>>
    BY <2>1, <2>2 DEF Emit
  <2>7. Told(<<a>>)
    BY <2>4, <2>5, <2>6, TellsOne
  <2>8. Ends(<<a>>)
    BY <2>1 DEF Ends
  <2> QED
    BY <2>4, <2>6, <2>7, <2>8, TalkAgree
<1>4. CASE Succeed
  <2>1. /\ Transition(Conversing, "Authenticated", "none")
        /\ Emit(<<StateSignal(active, "Authenticated")>>)
        /\ EndCommand("ok")
    BY <1>4 DEF Succeed, AuthenticationSucceeded
  <2>2. PICK a : a = StateSignal(active, "Authenticated")
    OBVIOUS
  <2>4. /\ a \in Signals /\ lastAttempt' = lastAttempt
        /\ phase \in Busy /\ phase' = "Authenticated"
    BY <1>00, <2>1, <2>2, TalkGround
  <2>5. ~Asks(a) /\ a.value = "Authenticated"
    BY <2>2, StateSignalIs, PromptSignalIs
  <2>6. wire' = wire \o <<a>> /\ online /\ UNCHANGED <<ui, online>>
    BY <2>1, <2>2 DEF Emit
  <2>7. Told(<<a>>)
    BY <2>4, <2>5, <2>6, TellsOne
  <2>8. Ends(<<a>>)
    BY <2>1, <2>4 DEF Ends
  <2> QED
    BY <2>4, <2>6, <2>7, <2>8, TalkAgree
<1>5. CASE Reject
  <2>1. /\ Transition({"SubmittingResponse"}, "CreatingSession", "text")
        /\ Emit(<<StateSignal(active, "CreatingSession"), PromptSignal(active, "error", asked)>>)
        /\ UNCHANGED <<answers, serving, asked>>
    BY <1>5 DEF Reject, CredentialRejected
  <2>2. PICK a : a = StateSignal(active, "CreatingSession")
    OBVIOUS
  <2>3. PICK b : b = PromptSignal(active, "error", asked)
    OBVIOUS
  <2>4. /\ a \in Signals /\ b \in Signals /\ lastAttempt' = lastAttempt
        /\ phase = "SubmittingResponse" /\ phase' = "CreatingSession"
    BY <1>0, <1>00, <2>1, <2>2, <2>3, TalkGround
  <2>5. ~Decisive(b) /\ ~Decisive(a)
    BY <2>2, <2>3, StateSignalIs, PromptSignalIs
  <2>6. wire' = wire \o <<a, b>> /\ online /\ UNCHANGED <<ui, online>>
    BY <2>1, <2>2, <2>3 DEF Emit
  <2>7. Told(<<a, b>>)
    BY <2>4, <2>5, <2>6, TellsTwo
  <2>8. Ends(<<a, b>>)
    BY <2>1 DEF Ends
  <2> QED
    BY <2>4, <2>6, <2>7, <2>8, TalkAgree DEF Busy
<1>6. CASE Fail
  <2>1. /\ Transition(ActivePhases, "Failed", "text")
        /\ phase \in Busy
        /\ Emit(<<StateSignal(active, "Failed")>>)
        /\ EndCommand("error")
    BY <1>6 DEF Fail, ProtocolFailure, Busy
  <2>2. PICK a : a = StateSignal(active, "Failed")
    OBVIOUS
  <2>3. Transition(Busy, "Failed", "text") /\ Busy \in SUBSET Busy
    BY <2>1 DEF Transition
  <2>4. /\ a \in Signals /\ active = lastAttempt /\ lastAttempt' = lastAttempt
        /\ phase \in Busy /\ phase' = "Failed"
    BY <1>00, <2>2, <2>3, TalkGround
  <2>5. ~Asks(a) /\ a.value = "Failed" /\ Mine(a) /\ Decisive(a)
    BY <2>2, <2>4, StateSignalIs, PromptSignalIs
  <2>6. wire' = wire \o <<a>> /\ online /\ UNCHANGED <<ui, online>>
    BY <2>1, <2>2 DEF Emit
  <2>7. Told(<<a>>) /\ Len(<<a>>) = 1 /\ <<a>>[1] = a
    BY <2>4, <2>5, <2>6, TellsOne
  <2>8. a = StateSignal(lastAttempt, "Failed")
    BY <2>2, <2>4
  <2>9. Ends(<<a>>)
    <3>1. PICK s : s = <<a>>
      OBVIOUS
    <3>2. 0 < Len(s) /\ s[Len(s)] = StateSignal(lastAttempt, "Failed")
      BY <2>7, <2>8, <3>1
    <3>3. Ends(s)
      BY <2>1, <2>4, <3>2 DEF Ends
    <3> QED
      BY <3>1, <3>3
  <2> QED
    BY <2>4, <2>6, <2>7, <2>9, TalkAgree
<1>7. CASE Unavailable
  <2>1. /\ Transition({"ResolvingSession"}, "Authenticated", "text")
        /\ Emit(<<StateSignal(active, "Authenticated")>>)
        /\ EndCommand("error")
    BY <1>7 DEF Unavailable, SessionUnavailable
  <2>2. PICK a : a = StateSignal(active, "Authenticated")
    OBVIOUS
  <2>4. /\ a \in Signals /\ lastAttempt' = lastAttempt
        /\ phase \in Busy /\ phase = "ResolvingSession" /\ phase' = "Authenticated"
    BY <1>00, <2>1, <2>2, TalkGround
  <2>5. ~Asks(a) /\ a.value = "Authenticated"
    BY <2>2, StateSignalIs, PromptSignalIs
  <2>6. wire' = wire \o <<a>> /\ online /\ UNCHANGED <<ui, online>>
    BY <2>1, <2>2 DEF Emit
  <2>7. Told(<<a>>)
    BY <2>4, <2>5, <2>6, TellsOne
  <2>8. Ends(<<a>>)
    BY <2>1, <2>4 DEF Ends
  <2> QED
    BY <2>4, <2>6, <2>7, <2>8, TalkAgree
<1>8. CASE Resolve
  <2>1. /\ Transition({"ResolvingSession"}, "StartingSession", "none")
        /\ Emit(<<StateSignal(active, "StartingSession")>>)
        /\ UNCHANGED <<answers, serving, asked>>
    BY <1>8 DEF Resolve, SessionResolved
  <2>2. PICK a : a = StateSignal(active, "StartingSession")
    OBVIOUS
  <2>4. /\ a \in Signals /\ lastAttempt' = lastAttempt
        /\ phase \in Busy /\ phase = "ResolvingSession" /\ phase' = "StartingSession"
    BY <1>00, <2>1, <2>2, TalkGround
  <2>5. ~Decisive(a)
    BY <2>2, StateSignalIs, PromptSignalIs
  <2>6. wire' = wire \o <<a>> /\ online /\ UNCHANGED <<ui, online>>
    BY <2>1, <2>2 DEF Emit
  <2>7. Told(<<a>>)
    BY <2>4, <2>5, <2>6, TellsOne
  <2>8. Ends(<<a>>)
    BY <2>1 DEF Ends
  <2> QED
    BY <2>1, <2>4, <2>6, <2>7, <2>8, TalkAgree
<1> QED
  BY <1>1, <1>2, <1>3, <1>4, <1>5, <1>6, <1>7, <1>8

\* The session has been started.
LEMMA HandOffAgree ==
  ASSUME Inv, Agreement, HandOff
  PROVE  Agreement'
<1>1. /\ Transition({"StartingSession"}, "HandingOff", "none")
      /\ Emit(<<StateSignal(lastAttempt, "HandingOff")>>)
      /\ EndCommand("ok")
  BY DEF HandOff, SessionStarted
<1>2. PICK a : a = StateSignal(lastAttempt, "HandingOff")
  OBVIOUS
<1>3. /\ lastAttempt' = lastAttempt /\ phase \in Busy /\ phase = "StartingSession"
      /\ phase' = "HandingOff"
  BY <1>1 DEF Transition, Busy
<1>4. a \in Signals
  BY <1>2 DEF Inv, MachineInv, MachineTypeOK, Signals, StateSignal, Signal, Phases, InvalidatingPhases
<1>5. ~Asks(a) /\ a.value = "HandingOff"
  BY <1>2, StateSignalIs
<1>6. wire' = wire \o <<a>> /\ online /\ UNCHANGED <<ui, online>>
  BY <1>1, <1>2 DEF Emit
<1>7. Told(<<a>>)
  BY <1>3, <1>4, <1>5, <1>6, TellsOne
<1>8. Ends(<<a>>)
  BY <1>1, <1>3 DEF Ends
<1> QED
  BY <1>1, <1>3, <1>6, <1>7, <1>8, TalkAgree

-----------------------------------------------------------------------------
(* The steps of the backend: what the user has asked for is taken up.       *)

\* The end of an attempt stays among the signals.
LEMMA FailedGrows ==
  ASSUME Inv, ui' = ui, NEW signals \in Seq(Signals), wire' = wire \o signals,
         lastAttempt' = lastAttempt, NEW k
  PROVE  FailedWithin(wire, k) => FailedWithin(wire', k)
<1>1. /\ Len(wire) \in Nat /\ Len(signals) \in Nat /\ Len(wire') = Len(wire) + Len(signals)
      /\ \A n \in Nat : 0 < n /\ n <= Len(wire) => wire'[n] = wire[n]
  BY RowGrows
<1>2. PICK w : w = wire'
  OBVIOUS
<1>3. PICK l : l = Len(signals)
  OBVIOUS
<1>4. l \in Nat /\ Len(w) = Len(wire) + l /\ \A n \in Nat : 0 < n /\ n <= Len(wire) => w[n] = wire[n]
  BY <1>1, <1>2, <1>3
<1>5. \A n \in Nat : n <= Len(wire) => n <= Len(w)
  BY <1>1, <1>4
<1>6. FailedWithin(wire, k) => FailedWithin(w, k)
  BY <1>4, <1>5 DEF FailedWithin
<1> QED
  BY <1>2, <1>6

\* While a call waits that the user made, nothing that was sent can overtake it.
LEMMA TurnGround ==
  ASSUME Inv, Agreement, online, NEW i \in Slots, NEW op \in {"respond", "start"}, Waiting(i, op),
         phase \in {"WaitingForInput", "Authenticated"}, serving = 0
  PROVE  /\ ui.attempt # None /\ ui.attempt = lastAttempt /\ ui.mode = "submitting"
         /\ Taken(ui, answers)
         /\ ui.calls[i].key = ui.attempt /\ (op = "respond" => ui.calls[i].arg = asked)
         /\ phase = IF op = "respond" THEN "WaitingForInput" ELSE "Authenticated"
         /\ \A j \in Slots : Waits(ui, answers, j, "respond") \/ Waits(ui, answers, j, "start") => j = i
         /\ \A n \in Nat : 0 < n /\ n <= Len(ui.queued \o wire) /\ Mine((ui.queued \o wire)[n]) =>
              ~Decisive((ui.queued \o wire)[n])
         /\ \A n \in Nat : 0 < n /\ n <= Len(ui.queued \o wire) =>
              (ui.queued \o wire)[n] # StateSignal(lastAttempt, "Failed")
<1>1. /\ ui \in Feature /\ Replied(answers) /\ Accord(ui, answers, wire)
      /\ \A j \in Slots : ui.calls[j] \in Calls
      /\ Once(ui, "start")
  BY Grounds
<1>2. /\ Bound(ui) /\ \A j \in Slots : CallFits(ui, answers, j)
      /\ Echoes(ui, answers, ui.queued \o wire, 0)
  BY <1>1 DEF Accord, Core, Flows
<1> HIDE DEF Inv, Agreement
<1>3. ui.calls[i].op = op /\ answers[i].result = "none" /\ serving # i
  BY NoAnswerIs DEF Waiting
<1>4. Waits(ui, answers, i, op)
  BY <1>3 DEF Waits
<1>5. /\ ui.calls[i].key = ui.attempt /\ (op = "respond" => ui.calls[i].arg = asked)
      /\ ui.mode = "submitting"
      /\ phase = IF op = "respond" THEN "WaitingForInput" ELSE "Authenticated"
  <2>1. CASE op = "respond"
    BY <1>2, <1>4, <2>1 DEF CallFits
  <2>2. CASE op = "start"
    BY <1>2, <1>3, <1>4, <2>2 DEF CallFits
  <2> QED
    BY <2>1, <2>2
<1>6. ui.attempt # None
  BY <1>1, <1>3, <1>5, CallTypes, NoneAssumption DEF Attempts
<1>7. ui.attempt = lastAttempt
  BY <1>2, <1>6 DEF Bound
<1>8. Taken(ui, answers)
  BY <1>4, <1>6 DEF Taken
<1>9. ASSUME NEW j \in Slots, Waits(ui, answers, j, "respond") \/ Waits(ui, answers, j, "start")
      PROVE  j = i
  <2>1. CASE op = "respond"
    <3>1. Waits(ui, answers, j, "respond")
      BY <1>2, <1>5, <1>9, <2>1 DEF CallFits
    <3> QED
      BY <1>2, <1>4, <2>1, <3>1 DEF CallFits
  <2>2. CASE op = "start"
    <3>1. Waits(ui, answers, j, "start")
      BY <1>2, <1>5, <1>9, <2>2 DEF CallFits
    <3> QED
      BY <1>1, <1>3, <2>2, <3>1 DEF Waits, Once
  <2> QED
    BY <2>1, <2>2
<1> DEFINE p == ui.queued \o wire
<1>10. Echoes(ui, answers, p, 0)
  BY <1>2
<1> HIDE DEF p
<1>11. ASSUME NEW n \in Nat, 0 < n, n <= Len(p), Mine(p[n])
       PROVE  p[n].what = "state" /\ p[n].value = "WaitingForInput"
  BY <1>8, <1>10, <1>11 DEF Echoes, Echo
<1>12. ASSUME NEW n \in Nat, 0 < n, n <= Len(p), Mine(p[n])
       PROVE  ~Decisive(p[n])
  BY <1>11, <1>12 DEF Decisive, Asks
<1>13. ASSUME NEW n \in Nat, 0 < n, n <= Len(p), p[n] = StateSignal(lastAttempt, "Failed")
       PROVE  FALSE
  <2>1. Mine(p[n]) /\ p[n].value = "Failed"
    BY <1>13, StateSignalIs
  <2> QED
    BY <1>11, <1>13, <2>1
<1> QED
  BY <1>5, <1>6, <1>7, <1>8, <1>9, <1>12, <1>13 DEF p

\* An answer is passed on, or a session is looked up.
LEMMA TakeAgree ==
  ASSUME Inv, Agreement, NEW i \in Slots, NEW op \in {"respond", "start"}, Waiting(i, op),
         AtRest,
         NEW from \in {"WaitingForInput", "Authenticated"}, from = "WaitingForInput" <=> op = "respond",
         NEW to \in {"SubmittingResponse", "ResolvingSession"}, to = "ResolvingSession" <=> op = "start",
         Transition({from}, to, "none"), Emit(<<StateSignal(active, to)>>),
         serving' = i, UNCHANGED <<answers, asked>>
  PROVE  Agreement'
<1>1. /\ phase = from /\ phase' = to /\ lastAttempt' = lastAttempt /\ serving = 0 /\ online
      /\ ui' = ui /\ online' = online /\ answers' = answers /\ asked' = asked
  BY DEF Transition, AtRest, Emit
<1>2. /\ ui.attempt # None /\ ui.attempt = lastAttempt /\ ui.mode = "submitting"
      /\ ui.calls[i].key = ui.attempt
      /\ \A j \in Slots : Waits(ui, answers, j, "respond") \/ Waits(ui, answers, j, "start") => j = i
      /\ \A n \in Nat : 0 < n /\ n <= Len(ui.queued \o wire) /\ Mine((ui.queued \o wire)[n]) =>
           ~Decisive((ui.queued \o wire)[n])
      /\ \A n \in Nat : 0 < n /\ n <= Len(ui.queued \o wire) =>
           (ui.queued \o wire)[n] # StateSignal(lastAttempt, "Failed")
  BY <1>1, TurnGround
<1>3. /\ ui \in Feature /\ Steady(ui) /\ Replied(answers) /\ Accord(ui, answers, wire)
      /\ Once(ui, "start") /\ ui.calls[i].op = op /\ answers[i].result = "none"
  BY <1>1, Grounds, NoAnswerIs DEF Waiting
<1>4. PICK a : a = StateSignal(active, to)
  OBVIOUS
<1>5. a \in Signals /\ wire' = wire \o <<a>>
  <2>1. {from} \in SUBSET ActivePhases /\ to \in Phases \ {"HandingOff", "Idle"}
    BY DEF ActivePhases, Phases
  <2>2. Fair(a)
    BY <1>4, <2>1, ActiveIs
  <2> QED
    BY <1>4, <2>2 DEF Fair, Emit
<1>6. ~Decisive(a)
  BY <1>4, StateSignalIs
<1>7. Told(<<a>>)
  BY <1>1, <1>5, <1>6, TellsOne
<1>8. 0 \notin Slots
  BY SlotsAssumption
<1>9. \A j \in Slots : ~Waits(ui, answers, j, "respond")' /\ ~Waits(ui, answers, j, "start")'
  BY <1>1, <1>2, <1>8 DEF Waits
<1>10. ~Taken(ui, answers)'
  BY <1>1, <1>2, <1>9 DEF Taken
<1>11. (Given(ui, answers)' <=> Given(ui, answers)) /\ Live(ui, answers)
  BY <1>1, <1>2 DEF Given, Live
<1>12. Flows(ui, answers, ui.queued \o wire, 0)'
  <2>1. \A n \in Nat : 0 < n /\ n <= Len(ui.queued \o wire)
                          /\ (ui.queued \o wire)[n].attempt = lastAttempt' =>
          ~Decisive((ui.queued \o wire)[n])
    BY <1>1, <1>2 DEF Mine
  <2> QED
    BY <1>1, <1>7, <1>10, <2>1, TalkFlows
<1>13. /\ \A k : ~FailedWithin(wire, k)
       /\ \A j \in Slots : ui.calls[j].op = "start" => answers[j].result # "ok"
  <2>1. \A n \in Nat : 0 < n /\ n <= Len(wire) =>
          \E m \in Nat : 0 < m /\ m <= Len(ui.queued \o wire) /\ (ui.queued \o wire)[m] = wire[n]
    <3>1. <<a>> \in Seq(Signals)
      BY <1>5
    <3> QED
      BY <1>1, <1>5, <3>1, RowGrows
  <2>2. \A k : ~FailedWithin(wire, k)
    BY <1>2, <2>1 DEF FailedWithin
  <2> QED
    BY <1>1, <2>2 DEF Inv, HandoffKnown
<1>14. /\ Bound(ui) /\ Known(ui, answers) /\ Clean(ui) /\ Late(ui, answers, wire)
       /\ \A j \in Slots : CallFits(ui, answers, j)
  BY <1>3 DEF Accord, Core
<1> HIDE DEF Inv, Agreement
<1>15. ASSUME NEW j \in Slots, ui.calls[j].key = ui.attempt
       PROVE  /\ ui.calls[j].op = "respond" => answers[j].result # "error"
              /\ ui.calls[j].op = "start" => answers[j].result = "none"
  <2>1. CASE ui.calls[j].op = "respond"
    BY <1>2, <1>13, <1>14, <1>15, <2>1 DEF Late
  <2>2. CASE ui.calls[j].op = "start"
    <3>1. answers[j].result \in {"none", "ok", "error"}
      BY <1>3 DEF Replied
    <3>2. answers[j].result = "error" => phase = "Authenticated"
      BY <1>2, <1>13, <1>14, <1>15, <2>2 DEF Late
    <3>3. phase = "Authenticated" => j = i
      BY <1>1, <1>3, <2>2 DEF Once
    <3> QED
      BY <1>3, <1>13, <2>2, <3>1, <3>2, <3>3
  <2> QED
    BY <2>1, <2>2
<1>16. Bound(ui)' /\ Unbound(ui)' /\ Clean(ui)'
  BY <1>1, <1>2, <1>14 DEF Bound, Unbound, Clean
<1>17. Known(ui, answers)'
  BY <1>1, <1>2 DEF Known, Live
<1>18. ASSUME NEW j \in Slots
       PROVE  CallFits(ui, answers, j)'
  <2>1. CallFits(ui, answers, j)
    BY <1>14
  <2>2. phase \notin {"Idle", "Failed", "Cancelling"}
    BY <1>1
  <2> QED
    BY <1>1, <1>9, <1>11, <2>1, <2>2 DEF CallFits, Quiet
<1>19. Late(ui, answers, wire)'
  BY <1>1, <1>15 DEF Late
<1>20. Carried(ui)'
  BY <1>1, <1>3, <1>8 DEF Carried
<1>21. Accord(ui, answers, wire)'
  BY <1>12, <1>16, <1>17, <1>18, <1>19, <1>20 DEF Accord, Core
<1>22. Replied(answers)' /\ Steady(ui)'
  BY <1>1, <1>3 DEF Replied, Steady
<1> QED
  BY <1>21, <1>22 DEF Agreement

\* An answer is passed on.
LEMMA ServeRespondAgree ==
  ASSUME Inv, Agreement, NEW i \in Slots, ServeRespond(i)
  PROVE  Agreement'
BY TakeAgree DEF ServeRespond, ResponseSubmitted

\* A session is asked for.
LEMMA ServeStartAgree ==
  ASSUME Inv, Agreement, NEW i \in Slots, ServeStart(i)
  PROVE  Agreement'
BY TakeAgree DEF ServeStart, StartSessionRequested

-----------------------------------------------------------------------------
(* The steps of the backend: replies without a step of the conversation.    *)

\* The state is read, or what cannot be done is refused.
LEMMA AnswerAgree ==
  ASSUME Inv, Agreement, online, UNCHANGED <<ui, wire, online, backendVars>>, NEW i \in Slots,
         NEW r, answers' = [answers EXCEPT ![i] = r], r.result \in {"ok", "error"}, r.after \in Nat,
         Waiting(i, ui.calls[i].op),
         \/ ui.calls[i].op = "getState" /\ r.value = phase
         \/ ui.calls[i].op = "begin" /\ r.result = "error"
         \/ ui.calls[i].op = "cancel" /\ r.result = "error" /\ ui.calls[i].key # active
  PROVE  Agreement'
<1>1. PICK b : b = answers' /\ b = [answers EXCEPT ![i] = r]
  OBVIOUS
<1>2. /\ Steady(ui) /\ Replied(answers) /\ Accord(ui, answers, wire)
      /\ answers = Replies
  BY Grounds DEF Inv, BusFits, Replies
<1>3. b[i] = r /\ \A j \in Slots \ {i} : b[j] = answers[j]
  BY <1>1, <1>2 DEF Replies
<1>4. answers[i].result = "none" /\ serving # i
  BY NoAnswerIs DEF Waiting
<1>5. phase \in ActivePhases => active = lastAttempt
  BY DEF Inv, MachineInv, AttemptTracksPhase
<1>6. /\ Bound(ui) /\ Unbound(ui) /\ Known(ui, answers) /\ Carried(ui) /\ Clean(ui)
      /\ Late(ui, answers, wire) /\ \A j \in Slots : CallFits(ui, answers, j)
      /\ Flows(ui, answers, ui.queued \o wire, 0)
  BY <1>2 DEF Accord, Core
<1> HIDE DEF Inv, Agreement
<1>7. /\ Given(ui, b) <=> Given(ui, answers)
      /\ Live(ui, b) <=> Live(ui, answers)
      /\ \A j \in Slots : /\ Waits(ui, b, j, "respond") <=> Waits(ui, answers, j, "respond")
                          /\ Waits(ui, b, j, "start") <=> Waits(ui, answers, j, "start")
  <2>1. Given(ui, b) <=> Given(ui, answers)
    BY <1>3, <1>4 DEF Given
  <2> QED
    BY <1>3, <2>1 DEF Live, Waits
<1>8. Taken(ui, b) <=> Taken(ui, answers)
  BY <1>7 DEF Taken
<1>9. Flows(ui, b, ui.queued \o wire, 0)
  BY <1>6, <1>7, <1>8 DEF Flows, Decides, Echoes, Announced
<1>10. Known(ui, b)
  <2>1. ASSUME phase \in ActivePhases
        PROVE  Live(ui, b) \/ \E j \in Slots : Waits(ui, b, j, "cancel") /\ ui.calls[j].key = lastAttempt
    <3>1. CASE Live(ui, answers)
      BY <1>7, <3>1
    <3>2. ASSUME NEW j \in Slots, Waits(ui, answers, j, "cancel"), ui.calls[j].key = lastAttempt
          PROVE  Waits(ui, b, j, "cancel")
      <4>1. j # i
        BY <1>5, <2>1, <3>2 DEF Waits
      <4> QED
        BY <1>3, <3>2, <4>1 DEF Waits
    <3> QED
      BY <1>6, <2>1, <3>1, <3>2 DEF Known
  <2>2. \A j \in Slots : ui.calls[j].op = "start" => b[j] = answers[j]
    BY <1>3
  <2> QED
    BY <1>6, <2>1, <2>2 DEF Known
<1>11. ASSUME NEW j \in Slots
       PROVE  CallFits(ui, b, j)
  <2>1. CallFits(ui, answers, j)
    BY <1>6
  <2>2. CASE j = i
    BY <1>3, <1>4, <1>7, <2>1, <2>2 DEF CallFits
  <2>3. CASE j # i
    BY <1>3, <1>7, <2>1, <2>3 DEF CallFits
  <2> QED
    BY <2>2, <2>3
<1>12. Late(ui, b, wire)
  BY <1>3, <1>6 DEF Late
<1>13. Accord(ui, b, wire)
  BY <1>6, <1>9, <1>10, <1>11, <1>12 DEF Accord, Core
<1>14. Replied(b)
  <2>1. \A j \in Slots : j # i => b[j] = answers[j]
    BY <1>3
  <2> QED
    BY <1>2, <1>3, <2>1 DEF Replied
<1>15. ui' = ui /\ wire' = wire /\ UNCHANGED <<online, backendVars>>
  OBVIOUS
<1> QED
  BY <1>1, <1>2, <1>13, <1>14, <1>15, Unmoved

\* The state is read.
LEMMA ServeGetStateAgree ==
  ASSUME Inv, Agreement, NEW i \in Slots, ServeGetState(i)
  PROVE  Agreement'
<1>1. /\ online /\ Waiting(i, "getState") /\ UNCHANGED <<ui, wire, online, backendVars>>
      /\ answers' = [answers EXCEPT ![i] = Answer("ok", phase, wire)]
  BY DEF ServeGetState
<1>2. PICK r : r = Answer("ok", phase, wire)
  OBVIOUS
<1>3. Len(wire) \in Nat
  BY LenProperties DEF Inv, BusFits
<1>4. r.result = "ok" /\ r.value = phase /\ r.after \in Nat
  BY <1>2, <1>3 DEF Answer
<1>5. ui.calls[i].op = "getState"
  BY <1>1 DEF Waiting
<1> QED
  BY <1>1, <1>2, <1>4, <1>5, AnswerAgree

\* What cannot be done is refused.
LEMMA RefuseAgree ==
  ASSUME Inv, Agreement, online, NEW i \in Slots, Refuse(i),
         Waiting(i, "begin") \/ (Waiting(i, "cancel") /\ ui.calls[i].key # active)
  PROVE  Agreement'
<1>1. /\ UNCHANGED <<ui, wire, online, backendVars>>
      /\ answers' = [answers EXCEPT ![i] = Answer("error", None, wire)]
  BY DEF Refuse
<1>2. PICK r : r = Answer("error", None, wire)
  OBVIOUS
<1>3. Len(wire) \in Nat
  BY LenProperties DEF Inv, BusFits
<1>4. r.result = "error" /\ r.after \in Nat
  BY <1>2, <1>3 DEF Answer
<1>5. Waiting(i, ui.calls[i].op) /\ ui.calls[i].op \in {"begin", "cancel"}
  BY DEF Waiting
<1>6. ui.calls[i].op = "cancel" => ui.calls[i].key # active
  BY DEF Waiting
<1> QED
  BY <1>1, <1>2, <1>4, <1>5, <1>6, AnswerAgree

-----------------------------------------------------------------------------
(* The steps of the backend: a conversation is cancelled.                   *)

\* While nobody listens, a conversation comes to an end.
LEMMA QuietAgree ==
  ASSUME Inv, Agreement, online, UNCHANGED <<ui, online>>, lastAttempt' = lastAttempt,
         phase' \in {"Cancelling", "Idle"}, ~Live(ui, answers),
         phase' = "Cancelling" =>
           /\ phase # "Idle"
           /\ \A j \in Slots : ui.calls[j].op \notin {"getState", "listUsers"},
         serving' # 0 => phase' = "Cancelling" /\ ui.calls[serving'].op = "cancel",
         Replied(answers'),
         \A j \in Slots :
           \/ answers'[j] = answers[j] /\ j # serving
           \/ /\ j = serving
              /\ answers'[j].result = "error" \/ (answers'[j].result = "ok" /\ phase' = "Idle")
  PROVE  Agreement'
<1>1. /\ Steady(ui) /\ Accord(ui, answers, wire) /\ ServingFits
      /\ \A j \in Slots : ui.calls[j] \in Calls
  BY Grounds
<1>2. /\ Unbound(ui) /\ Known(ui, answers) /\ Clean(ui) /\ \A j \in Slots : CallFits(ui, answers, j)
  BY <1>1 DEF Accord, Core
<1>3. 0 \notin Slots
  BY SlotsAssumption
<1> HIDE DEF Inv, Agreement
<1>4. ui.attempt = None /\ ~Given(ui, answers)
  BY DEF Live
<1>5. ASSUME NEW j \in Slots
      PROVE  /\ ~Waits(ui, answers, j, "respond") /\ ~Waits(ui, answers, j, "start")
             /\ ui.calls[j].op = "start" => answers[j].result = "error"
  <2>1. CallFits(ui, answers, j)
    BY <1>2
  <2>2. ui.calls[j].op \in {"respond", "start"} => ui.calls[j].key # None
    BY <1>1, CallTypes, NoneAssumption DEF Attempts
  <2>3. ~Waits(ui, answers, j, "respond")
    BY <1>4, <2>1, <2>2 DEF CallFits, Waits
  <2>4. ui.calls[j].op = "start" => answers[j].result = "error"
    BY <1>4, <2>1, <2>2 DEF CallFits
  <2> QED
    BY <2>3, <2>4 DEF Waits
<1>6. \A j \in Slots : j = serving => ui.calls[j].op \in {"respond", "cancel"}
  <2> SUFFICES ASSUME NEW j \in Slots, j = serving
               PROVE  ui.calls[j].op \in {"respond", "cancel"}
    OBVIOUS
  <2>1. ui.calls[j].op \in {"respond", "cancel", "start"} /\ answers[j] = NoAnswer
    BY <1>1, <1>3 DEF ServingFits
  <2> QED
    BY <1>5, <2>1, NoAnswerIs
<1>7. \A j \in Slots : ui.calls[j].op \notin {"respond", "cancel"} => answers'[j] = answers[j]
  BY <1>6
<1>8. ~Given(ui, answers)' /\ ~Live(ui, answers)' /\ ~Taken(ui, answers)'
  <2>1. ~Given(ui, answers)'
    BY <1>4, <1>7 DEF Given
  <2> QED
    BY <1>4, <2>1 DEF Live, Taken
<1>9. Flows(ui, answers, ui.queued \o wire, 0)'
  BY <1>8 DEF Flows, Decides, Echoes, Announced
<1>10. Bound(ui)' /\ Clean(ui)' /\ Unbound(ui)'
  <2>1. Quiet'
    BY DEF Quiet
  <2> QED
    BY <1>2, <1>4, <2>1 DEF Bound, Clean, Unbound
<1>11. Known(ui, answers)'
  BY DEF Known, ActivePhases
<1>12. ASSUME NEW j \in Slots
       PROVE  CallFits(ui, answers, j)'
  <2>1. CallFits(ui, answers, j)
    BY <1>2
  <2>2. Quiet'
    BY DEF Quiet
  <2>3. ~Waits(ui, answers, j, "respond")' /\ ~Waits(ui, answers, j, "start")'
    <3>1. CASE answers'[j] = answers[j] /\ j # serving
      BY <1>5, <3>1 DEF Waits
    <3>2. CASE answers'[j].result \in {"ok", "error"}
      BY <3>2 DEF Waits
    <3> QED
      BY <3>1, <3>2
  <2>4. CASE ui.calls[j].op \in {"getState", "listUsers"}
    BY <2>1, <2>4 DEF CallFits, Waits
  <2>5. CASE ui.calls[j].op = "begin"
    BY <1>7, <2>1, <2>2, <2>5 DEF CallFits, Waits
  <2>6. CASE ui.calls[j].op = "cancel"
    BY <2>1, <2>6 DEF CallFits, Waits
  <2>7. CASE ui.calls[j].op \in {"respond", "start"}
    BY <1>5, <1>7, <1>8, <2>1, <2>3, <2>7 DEF CallFits
  <2>8. CASE ui.calls[j].op \notin {"getState", "listUsers", "begin", "cancel", "respond", "start"}
    BY <2>8 DEF CallFits, Waits
  <2> QED
    BY <2>4, <2>5, <2>6, <2>7, <2>8
<1>13. Late(ui, answers, wire)'
  BY <1>4 DEF Late
<1>14. Carried(ui)'
  BY DEF Carried
<1>15. Accord(ui, answers, wire)'
  BY <1>9, <1>10, <1>11, <1>12, <1>13, <1>14 DEF Accord, Core
<1>16. Replied(answers)' /\ Steady(ui)'
  BY <1>1 DEF Replied, Steady
<1> QED
  BY <1>15, <1>16 DEF Agreement

\* A conversation is interrupted by the one it was cancelled for.
LEMMA ServeCancelAgree ==
  ASSUME Inv, Agreement, NEW i \in Slots, ServeCancel(i)
  PROVE  Agreement'
<1>1. CASE Waiting(i, "cancel") /\ ui.calls[i].key = active /\ Interrupt(i)
  <2>1. /\ Transition(ActivePhases, "Cancelling", "none") /\ Emit(<<StateSignal(active, "Cancelling")>>)
        /\ answers' = IF serving = 0 THEN answers
                      ELSE [answers EXCEPT ![serving] = Answer("error", None, wire')]
        /\ serving' = i /\ ui.calls[i].op = "cancel"
    BY <1>1 DEF Interrupt, CancelRequested, Waiting
  <2>2. /\ phase \in ActivePhases /\ phase' = "Cancelling" /\ lastAttempt' = lastAttempt
        /\ online /\ UNCHANGED <<ui, online>>
    BY <2>1 DEF Transition, Emit
  <2>3. /\ Orderly(ui) /\ Replied(answers) /\ serving \in Slots \cup {0} /\ answers = Replies
    BY <2>2, Grounds DEF Inv, BusFits, Replies
  <2>4. Cancelling(ui)
    BY <2>1, <2>3 DEF Orderly, Has
  <2>5. /\ ~Live(ui, answers)
        /\ \A j \in Slots : ui.calls[j].op \notin {"getState", "listUsers"}
    BY <2>3, <2>4 DEF Live, Given, Orderly, Cancelling, Loading, Has
  <2>6. 0 \notin Slots
    BY SlotsAssumption
  <2>7. PICK w : w = wire'
    OBVIOUS
  <2>8. Len(w) \in Nat
    <3>1. {StateSignal(active, "Cancelling")} \subseteq Signals
      <4>1. ActivePhases \in SUBSET ActivePhases /\ "Cancelling" \in Phases \ {"HandingOff", "Idle"}
        BY DEF Phases, InvalidatingPhases
      <4>2. Fair(StateSignal(active, "Cancelling"))
        BY <2>1, <4>1, ActiveIs
      <4> QED
        BY <4>2 DEF Fair
    <3>2. <<StateSignal(active, "Cancelling")>> \in Seq(Signals)
      BY <3>1
    <3>3. wire \in Seq(Signals \cup {Disconnected})
      BY DEF Inv, BusFits
    <3> QED
      BY <2>1, <2>7, <3>2, <3>3, RowIs DEF Emit
  <2>9. PICK b : b = answers'
    OBVIOUS
  <2>10. PICK r : r = Answer("error", None, w)
    OBVIOUS
  <2>11. r.result = "error" /\ r.after \in Nat
    BY <2>8, <2>10 DEF Answer
  <2>12. \A j \in Slots :
           \/ b[j] = answers[j] /\ j # serving
           \/ j = serving /\ b[j] = r
    <3>1. CASE serving = 0
      BY <2>1, <2>6, <2>9, <3>1
    <3>2. CASE serving # 0
      <4>1. b = [answers EXCEPT ![serving] = r]
        BY <2>1, <2>7, <2>9, <2>10, <3>2
      <4> QED
        BY <2>3, <4>1 DEF Replies
    <3> QED
      BY <3>1, <3>2
  <2>13. Replied(b)
    BY <2>3, <2>11, <2>12 DEF Replied
  <2>14. phase # "Idle"
    BY <2>2 DEF ActivePhases
  <2>15. \A j \in Slots :
           \/ b[j] = answers[j] /\ j # serving
           \/ j = serving /\ b[j].result = "error"
    BY <2>11, <2>12
  <2> QED
    BY <2>1, <2>2, <2>5, <2>9, <2>13, <2>14, <2>15, QuietAgree
<1>2. CASE online /\ Waiting(i, "cancel") /\ ui.calls[i].key # active /\ AtRest /\ Refuse(i)
  BY <1>2, RefuseAgree
<1> QED
  BY <1>1, <1>2 DEF ServeCancel

\* The cancellation is over.
LEMMA FinishCancellingAgree ==
  ASSUME Inv, Agreement, FinishCancelling
  PROVE  Agreement'
<1>1. /\ Transition({"Cancelling"}, "Idle", "none")
      /\ Emit(<<StateSignal(lastAttempt, "Idle")>>)
  BY DEF FinishCancelling, CancellationFinished
<1>2. PICK result \in {"ok", "error"} : EndCommand(result)
  BY DEF FinishCancelling
<1>3. /\ phase = "Cancelling" /\ phase' = "Idle" /\ lastAttempt' = lastAttempt
      /\ online /\ UNCHANGED <<ui, online>> /\ serving' = 0
  BY <1>1, <1>2 DEF Transition, Emit, EndCommand
<1>4. Accord(ui, answers, wire) /\ ui \in Feature
  BY <1>3, Grounds
<1>5. ui.attempt = None
  <2>1. ui.attempt # None => ui.attempt \in Attempts
    BY <1>4 DEF Feature
  <2>2. ui.attempt # None => ui.attempt = lastAttempt
    BY <1>4 DEF Accord, Core, Bound
  <2> QED
    BY <1>3, <2>1, <2>2 DEF Inv, GoneIsForgotten, Gone
<1>6. ~Given(ui, answers)
  <2> SUFFICES ASSUME NEW j \in Slots, ui.calls[j].op = "begin", answers[j].result = "ok"
               PROVE  FALSE
    BY DEF Given
  <2>1. answers[j].value = lastAttempt
    BY <1>4 DEF Accord, Core, CallFits
  <2>2. answers[j].value \in Attempts
    BY NoAnswerIs DEF Inv, AnswersFit
  <2> QED
    BY <1>3, <2>1, <2>2 DEF Inv, GoneIsForgotten, Gone
<1>7. PICK w : w = wire'
  OBVIOUS
<1>8. Len(w) \in Nat
  <2>1. StateSignal(lastAttempt, "Idle") \in Signals
    <3>1. "Idle" \in Phases \cap InvalidatingPhases
      BY DEF Phases, InvalidatingPhases
    <3>2. lastAttempt \in 0..MaxAttempt
      BY DEF Inv, MachineInv, MachineTypeOK
    <3> QED
      BY <3>1, <3>2 DEF Signals, StateSignal, Signal
  <2>2. <<StateSignal(lastAttempt, "Idle")>> \in Seq(Signals)
    BY <2>1
  <2>3. wire \in Seq(Signals \cup {Disconnected})
    BY DEF Inv, BusFits
  <2> QED
    BY <1>1, <1>7, <2>2, <2>3, RowIs DEF Emit
<1>9. /\ Replied(answers')
      /\ \A j \in Slots :
           \/ answers'[j] = answers[j] /\ j # serving
           \/ j = serving /\ answers'[j].result \in {"ok", "error"}
  <2>1. 0 \notin Slots
    BY SlotsAssumption
  <2>2. Len(wire') \in Nat
    BY <1>7, <1>8
  <2> QED
    BY <1>2, <1>3, <2>1, <2>2, EndIs
<1> QED
  BY <1>3, <1>5, <1>6, <1>9, QuietAgree DEF Live

-----------------------------------------------------------------------------
(* The steps of the backend: a conversation is opened.                      *)

\* An event on its way belongs to an attempt that has begun.
LEMMA RowFits ==
  ASSUME Inv, online, NEW n \in Nat, 0 < n, n <= Len(ui.queued \o wire)
  PROVE  (ui.queued \o wire)[n].attempt <= lastAttempt
<1> DEFINE p == ui.queued \o wire
           S == Signals \cup {Disconnected}
<1>1. /\ ui.queued \in Seq(Signals) /\ wire \in Seq(S)
      /\ Disconnected \notin InFlight
      /\ \A e \in InFlight : e # Disconnected => e.attempt <= lastAttempt
  BY DEF Inv, BusFits, Sound, Feature
<1> HIDE DEF Inv
<1>2. /\ p \in Seq(Signals \cup S) /\ Elements(p) \subseteq InFlight
  BY <1>1, ConcatElements DEF InFlight
<1> HIDE DEF p
<1>3. n \in DOMAIN p
  <2>1. Len(p) \in Nat /\ DOMAIN p = 1..Len(p)
    BY <1>2, LenProperties
  <2> QED
    BY <2>1 DEF p
<1>4. p[n] \in InFlight
  BY <1>2, <1>3 DEF Elements
<1> QED
  BY <1>1, <1>4 DEF p

\* A new conversation: what is on its way belongs to older ones.
LEMMA ServeBeginAgree ==
  ASSUME Inv, Agreement, NEW i \in Slots, ServeBegin(i)
  PROVE  Agreement'
<1>1. CASE /\ Waiting(i, "begin")
           /\ AtRest
           /\ phase \in {"Idle", "Failed"}
           /\ BeginAuthentication
           /\ Emit(<<StateSignal(active', "CreatingSession")>>)
           /\ answers' = [answers EXCEPT ![i] = Answer("ok", active', wire')]
           /\ UNCHANGED <<serving, asked>>
  <2>1. /\ phase' = "CreatingSession" /\ lastAttempt' = lastAttempt + 1 /\ active' = lastAttempt'
        /\ lastAttempt \in Nat /\ lastAttempt < MaxAttempt
        /\ phase \in {"Idle", "Failed"} /\ online /\ UNCHANGED <<ui, online>>
        /\ serving = 0 /\ serving' = 0 /\ ui.calls[i].op = "begin" /\ answers[i] = NoAnswer
    BY <1>1 DEF BeginAuthentication, CanBegin, Inv, MachineInv, MachineTypeOK, Emit, AtRest, Waiting
  <2>2. /\ Steady(ui) /\ Orderly(ui) /\ Replied(answers) /\ Accord(ui, answers, wire)
        /\ answers = Replies /\ \A j \in Slots : ui.calls[j] \in Calls
    BY <2>1, Grounds DEF Inv, BusFits, Replies
  <2>3. PICK a : a = StateSignal(active', "CreatingSession")
    OBVIOUS
  <2>4. a \in Signals /\ wire' = wire \o <<a>>
    <3>1. active' \in 0..MaxAttempt
      BY <2>1, MaxAttemptAssumption
    <3>2. "CreatingSession" \in Phases
      BY DEF Phases, ActivePhases
    <3>3. a \in Signals
      BY <2>3, <3>1, <3>2 DEF Signals, StateSignal, Signal
    <3> QED
      BY <1>1, <2>3, <3>3 DEF Emit
  <2>5. ~Decisive(a)
    BY <2>3, StateSignalIs
  <2>6. Told(<<a>>)
    BY <2>1, <2>4, <2>5, TellsOne
  <2>7. PICK w : w = wire'
    OBVIOUS
  <2>8. Len(w) \in Nat
    <3>1. <<a>> \in Seq(Signals) /\ wire \in Seq(Signals \cup {Disconnected})
      BY <2>4 DEF Inv, BusFits
    <3> QED
      BY <2>4, <2>7, <3>1, RowIs
  <2>9. PICK k : k = active'
    OBVIOUS
  <2>10. PICK r : r = Answer("ok", k, w)
    OBVIOUS
  <2>11. r.result = "ok" /\ r.value = k /\ r.after \in Nat
    BY <2>8, <2>10 DEF Answer
  <2>12. PICK b : b = answers'
    OBVIOUS
  <2>13. b[i] = r /\ \A j \in Slots : j # i => b[j] = answers[j]
    <3>1. b = [answers EXCEPT ![i] = r]
      BY <1>1, <2>7, <2>9, <2>10, <2>12
    <3> QED
      BY <2>2, <3>1 DEF Replies
  <2>14. \A n \in Nat : 0 < n /\ n <= Len(ui.queued \o wire) =>
           (ui.queued \o wire)[n].attempt # lastAttempt'
    <3>1. ~(lastAttempt' <= lastAttempt)
      BY <2>1
    <3> QED
      BY <2>1, <3>1, RowFits
  <2>15. /\ Unbound(ui) /\ Clean(ui) /\ \A j \in Slots : CallFits(ui, answers, j)
    BY <2>2 DEF Accord, Core
  <2> HIDE DEF Inv, Agreement
  <2>16. /\ ui.attempt = None /\ ~Has(ui, "cancel") /\ ~Has(ui, "getState") /\ ~Has(ui, "listUsers")
         /\ ui.recovery \in {"none", "reconnectService"}
         /\ ui.mode = "userSelection" => ui.service # "ready"
         /\ Has(ui, "begin") /\ \A j \in Slots : ui.calls[j].op = "begin" => j = i
    BY <2>1, <2>2 DEF Steady, Orderly, Beginning, Loading, Once, Has
  <2>17. ~Taken(ui, answers)'
    BY <2>1, <2>16 DEF Taken
  <2>18. Flows(ui, answers, ui.queued \o wire, 0)'
    BY <2>1, <2>6, <2>14, <2>17, TalkFlows
  <2>19. Live(ui, answers)'
    BY <2>1, <2>11, <2>12, <2>13 DEF Live, Given
  <2>20. Bound(ui)' /\ Unbound(ui)' /\ Clean(ui)' /\ Carried(ui)' /\ Known(ui, answers)'
    BY <2>1, <2>15, <2>16, <2>19 DEF Bound, Unbound, Clean, Carried, Known
  <2>21. Late(ui, answers, wire)'
    BY <2>1, <2>16 DEF Late
  <2>22. ASSUME NEW j \in Slots
         PROVE  CallFits(ui, answers, j)'
    <3>1. CallFits(ui, answers, j)
      BY <2>15
    <3>2. ui.calls[j].op \notin {"getState", "listUsers", "cancel"}
      BY <2>16 DEF Has
    <3>3. CASE ui.calls[j].op = "begin"
      BY <2>1, <2>9, <2>11, <2>12, <2>13, <2>16, <3>3 DEF CallFits, Waits
    <3>4. CASE ui.calls[j].op \in {"respond", "start"}
      <4>1. b[j] = answers[j]
        BY <2>1, <2>13, <3>4
      <4>2. ~Waits(ui, answers, j, "respond") /\ ~Waits(ui, answers, j, "start")
        BY <2>1, <3>1 DEF CallFits
      <4>3. ~Waits(ui, answers, j, "respond")' /\ ~Waits(ui, answers, j, "start")'
        BY <2>1, <2>12, <4>1, <4>2 DEF Waits
      <4>4. ui.calls[j].key \in Attempts
        BY <2>2, <3>4, CallTypes
      <4>5. ui.calls[j].key <= lastAttempt /\ ui.calls[j].key \in Nat
        BY <3>1, <3>4, <4>4, MaxAttemptAssumption DEF CallFits, Attempts
      <4>6. ui.calls[j].key <= lastAttempt' /\ ui.calls[j].key # lastAttempt'
        BY <2>1, <4>5
      <4> QED
        BY <2>1, <2>12, <3>1, <3>4, <4>1, <4>3, <4>6 DEF CallFits
    <3>5. CASE ui.calls[j].op \notin {"begin", "respond", "start"}
      BY <3>2, <3>5, <2>1 DEF CallFits, Waits
    <3> QED
      BY <3>3, <3>4, <3>5
  <2>23. Accord(ui, answers, wire)'
    BY <2>18, <2>20, <2>21, <2>22 DEF Accord, Core
  <2>24. Replied(answers)' /\ Steady(ui)'
    <3>1. Replied(b)
      BY <2>2, <2>11, <2>13 DEF Replied
    <3> QED
      BY <2>1, <2>2, <2>12, <3>1 DEF Replied, Steady
  <2> QED
    BY <2>23, <2>24 DEF Agreement
<1>2. CASE online /\ Waiting(i, "begin") /\ AtRest /\ ~CanBegin /\ Refuse(i)
  BY <1>2, RefuseAgree
<1> QED
  BY <1>1, <1>2 DEF ServeBegin

\* The steps of the backend together.
LEMMA BackendStepAgree ==
  ASSUME Inv, Agreement, BackendStep
  PROVE  Agreement'
<1>1. ASSUME NEW i \in Slots,
             ServeGetState(i) \/ ServeBegin(i) \/ ServeCancel(i) \/ ServeRespond(i) \/ ServeStart(i)
      PROVE  Agreement'
  BY <1>1, ServeGetStateAgree, ServeBeginAgree, ServeCancelAgree, ServeRespondAgree, ServeStartAgree
<1>2. CASE FinishCancelling \/ HandOff
  BY <1>2, FinishCancellingAgree, HandOffAgree
<1>3. CASE \/ AskInput
           \/ \E kind \in {"info", "error"} : Tell(kind)
           \/ ReceiveMessage
           \/ Succeed
           \/ Reject
           \/ Fail
           \/ Unavailable
           \/ Resolve
  BY <1>3, TalkStepAgree
<1> QED
  BY <1>1, <1>2, <1>3 DEF BackendStep

-----------------------------------------------------------------------------
(* The specification.                                                       *)

\* Nothing has been sent or asked for at first.
LEMMA InitAgree ==
  ASSUME Init
  PROVE  Agreement
<1>1. /\ Sound(ui)
      /\ ui.queued = <<>> /\ ui.attempt = None /\ ui.mode = "userSelection"
      /\ ui.service = "starting" /\ ui.recovery = "none"
      /\ \A i \in Slots : ui.calls[i].op \in {"none", "getState"}
  BY FeatureInitFits DEF Init
<1>2. wire = <<>> /\ serving = 0 /\ phase = "Idle"
  BY DEF Init, MachineInit
<1>3. ui.user = None
  BY FeatureInitFits DEF Init, Orderly
<1>4. Replied(answers) /\ \A i \in Slots : answers[i].result = "none"
  <2>1. \A i \in Slots : answers[i] = NoAnswer
    BY DEF Init
  <2>2. NoAnswer.after \in Nat /\ NoAnswer.result = "none"
    BY NoAnswerIs
  <2> QED
    BY <2>1, <2>2 DEF Replied
<1>5. Steady(ui)
  BY <1>1, <1>3 DEF Steady, Once, Has
<1>6. ~Given(ui, answers) /\ ~Live(ui, answers) /\ ~Taken(ui, answers) /\ Quiet
  BY <1>1, <1>2 DEF Given, Live, Taken, Quiet
<1>7. Flows(ui, answers, ui.queued \o wire, 0)
  BY <1>6 DEF Flows, Decides, Echoes, Announced
<1>8. Bound(ui) /\ Unbound(ui) /\ Known(ui, answers) /\ Carried(ui) /\ Clean(ui)
  BY <1>1, <1>2, <1>6 DEF Bound, Unbound, Known, Carried, Clean, ActivePhases
<1>9. \A i \in Slots : CallFits(ui, answers, i)
  BY <1>1, <1>2 DEF CallFits, Waits
<1>10. Late(ui, answers, wire)
  BY <1>1 DEF Late
<1> QED
  BY <1>4, <1>5, <1>7, <1>8, <1>9, <1>10 DEF Agreement, Accord, Core

\* Without the bus nothing is promised.
LEMMA LoseBusAgree ==
  ASSUME Agreement, LoseBus
  PROVE  Agreement'
<1>1. Replied(answers)' /\ Steady(ui)' /\ ~online'
  BY DEF LoseBus, Agreement, Replied, Steady
<1> QED
  BY <1>1 DEF Agreement

\* A step of somebody else changes nothing.
LEMMA StutterAgree ==
  ASSUME Agreement, UNCHANGED vars
  PROVE  Agreement'
<1>1. UNCHANGED <<online, backendVars>> /\ ui' = ui /\ wire' = wire /\ answers' = answers
  BY DEF vars, backendVars
<1>2. Replied(answers) /\ Steady(ui) /\ (online => Accord(ui, answers, wire))
  BY DEF Agreement
<1> QED
  BY <1>1, <1>2, Unmoved

\* Every step keeps interface and backend in agreement.
LEMMA NextAgree ==
  ASSUME Inv, Agreement, [Next]_vars
  PROVE  Agreement'
<1>1. CASE UserActs
  BY <1>1, UserStepAgree
<1>2. CASE BackendStep
  BY <1>2, BackendStepAgree
<1>3. CASE Receive
  BY <1>3, ReceiveAgree
<1>4. ASSUME NEW i \in Slots, ReplyStep(i)
      PROVE  Agreement'
  BY <1>4, ReplyAgree
<1>5. CASE LoseBus
  BY <1>5, LoseBusAgree
<1>6. CASE UNCHANGED vars
  BY <1>6, StutterAgree
<1>7. Rest => UNCHANGED vars
  BY Zenon DEF Rest
<1> QED
  BY <1>1, <1>2, <1>3, <1>4, <1>5, <1>6, <1>7, Zenon DEF Next

\* The inductive invariant.
LEMMA Agrees == Spec => [](Inv /\ Agreement)
<1>1. Init => Inv /\ Agreement
  BY InitInv, InitAgree
<1>2. Inv /\ Agreement /\ [Next]_vars => Inv' /\ Agreement'
  BY NextInv, NextAgree
<1> QED
  BY <1>1, <1>2, PTL DEF Spec

-----------------------------------------------------------------------------
(* What follows.                                                            *)

\* What the interface has asked for, the backend can do.
LEMMA CallsAreLive ==
  ASSUME Inv, Agreement, online, NEW i \in Slots
  PROVE  /\ Waiting(i, "begin") => phase \notin ActivePhases \cup {"HandingOff"}
         /\ Waiting(i, "respond") => ui.calls[i].key = active /\ phase = "WaitingForInput"
         /\ Waiting(i, "start") => ui.calls[i].key = active /\ phase = "Authenticated"
<1>1. CallFits(ui, answers, i) /\ Bound(ui) /\ ui.calls[i] \in Calls
  BY Grounds DEF Accord, Core
<1>2. phase \in ActivePhases => active = lastAttempt
  BY DEF Inv, MachineInv, AttemptTracksPhase
<1> HIDE DEF Inv, Agreement
<1>3. \A op : Waiting(i, op) =>
        ui.calls[i].op = op /\ answers[i].result = "none" /\ Waits(ui, answers, i, op)
  BY NoAnswerIs DEF Waiting, Waits
<1>4. Waiting(i, "begin") => phase \notin ActivePhases \cup {"HandingOff"}
  <2>1. Waiting(i, "begin") => Quiet
    BY <1>1, <1>3 DEF CallFits
  <2> QED
    BY <2>1 DEF Quiet, ActivePhases
<1>5. ui.calls[i].op \in {"respond", "start"} /\ ui.calls[i].key = ui.attempt =>
        ui.calls[i].key = lastAttempt
  BY <1>1, CallTypes, NoneAssumption DEF Bound, Attempts
<1>6. Waiting(i, "respond") => ui.calls[i].key = active /\ phase = "WaitingForInput"
  BY <1>1, <1>2, <1>3, <1>5 DEF CallFits, ActivePhases
<1>7. Waiting(i, "start") => ui.calls[i].key = active /\ phase = "Authenticated"
  BY <1>1, <1>2, <1>3, <1>5 DEF CallFits, ActivePhases
<1> QED
  BY <1>4, <1>6, <1>7

\* The interface offers a prompt only of the attempt the answer will be sent to,
\* and a session only while an attempt is bound; what it has asked for, the
\* backend can do: whatever failures, disconnects, account switches and late
\* replies come between.
THEOREM GreeterInvitesLive == Spec => []InvitationsAreLive
<1>1. Inv /\ Agreement => InvitationsAreLive
  <2> SUFFICES ASSUME Inv, Agreement
               PROVE  InvitationsAreLive
    OBVIOUS
  <2>1. Steady(ui)
    BY DEF Agreement
  <2>2. /\ ui.mode = "prompting" =>
             ui.attempt # None /\ ui.prompt.attempt = ui.attempt /\ ui.prompt.kind = "input"
        /\ ui.mode = "sessionSelection" => ui.attempt # None
    BY <2>1 DEF Steady
  <2> QED
    BY <2>2, CallsAreLive DEF InvitationsAreLive
<1> QED
  BY <1>1, Agrees, PTL

\* The answer the backend passes on to greetd was typed for the last question PAM
\* asked, however late prompts, state signals and replies are.
THEOREM GreeterAnswersMatch == Spec => AnswersMatchPrompts
<1>1. ASSUME Inv, Agreement, [Next]_vars, phase = "WaitingForInput", phase' = "SubmittingResponse"
      PROVE  ui.calls[serving'].arg = asked
  <2>1. ASSUME NEW i \in Slots, ServeRespond(i)
        PROVE  ui.calls[serving'].arg = asked
    <3>1. Waiting(i, "respond") /\ serving = 0 /\ serving' = i /\ online
      BY <2>1 DEF ServeRespond, AtRest, Emit
    <3> QED
      BY <1>1, <3>1, TurnGround
  <2>2. phase' # phase
    BY <1>1
  <2> HIDE DEF Inv, Agreement
  <2>3. ~UserActs /\ ~Receive /\ ~LoseBus /\ ~Rest /\ ~UNCHANGED vars
    BY <2>2 DEF UserActs, Receive, LoseBus, Rest, vars, backendVars, machineVars
  <2>4. \A i \in Slots : ~ReplyStep(i)
    BY <2>2
    DEF ReplyStep, GetStateReturns, BeginReturns, RespondReturns, CancelReturns, StartReturns,
        UsersReturn, SessionsReturn, PreferenceReturns, PowerReturns, Reply, ConnectionLost,
        Elsewhere, backendVars, machineVars
  <2>5. BackendStep
    BY <1>1, <2>3, <2>4 DEF Next
  <2>6. \A i \in Slots : ~ServeGetState(i) /\ ~ServeBegin(i) /\ ~ServeCancel(i) /\ ~ServeStart(i)
    BY <1>1
    DEF ServeGetState, ServeBegin, ServeCancel, ServeStart, Interrupt, Refuse, CancelRequested,
        BeginAuthentication, StartSessionRequested, Transition, backendVars, machineVars
  <2>7. /\ ~FinishCancelling /\ ~AskInput /\ ~(\E kind \in {"info", "error"} : Tell(kind))
        /\ ~ReceiveMessage /\ ~Succeed /\ ~Reject /\ ~Fail /\ ~Unavailable /\ ~Resolve /\ ~HandOff
    BY <1>1
    DEF FinishCancelling, AskInput, Tell, ReceiveMessage, Succeed, Reject, Fail, Unavailable,
        Resolve, HandOff, CancellationFinished, PromptNeedsInput, PromptAutoResponse, AuthMessage,
        AuthenticationSucceeded, CredentialRejected, ProtocolFailure, SessionUnavailable,
        SessionResolved, SessionStarted, Transition, Conversing
  <2> QED
    BY <2>1, <2>5, <2>6, <2>7 DEF BackendStep
<1>2. Inv /\ Agreement /\ [Next]_vars
        => [phase = "WaitingForInput" /\ phase' = "SubmittingResponse" =>
              ui.calls[serving'].arg = asked]_vars
  BY <1>1
<1> QED
  BY <1>2, Agrees, PTL DEF Spec, AnswersMatchPrompts

\* When everything that was sent has arrived, the interface and the backend agree:
\* on the attempt, on what it waits for, and on whose turn it is.
THEOREM GreeterViewAgrees == Spec => []ViewAgreesAtRest
<1>1. ASSUME Inv, Agreement, Settled, ui.service = "ready"
      PROVE  /\ ui.attempt # None =>
                  ui.attempt = lastAttempt /\ phase \in ActivePhases \cup {"HandingOff"}
             /\ ui.attempt = None /\ ui.mode # "error" => phase \notin ActivePhases
             /\ ui.mode = "prompting" => phase = "WaitingForInput"
             /\ ui.mode = "sessionSelection" => phase = "Authenticated"
             /\ phase = "WaitingForInput" /\ ui.attempt # None => ui.mode \in {"prompting", "error"}
             /\ phase = "Authenticated" => ui.mode \in {"sessionSelection", "submitting"}
             /\ phase = "HandingOff" => ui.mode = "handingOff"
  <2>1. /\ online /\ wire = <<>>
        /\ \A i \in Slots :
             ui.calls[i].op \notin {"getState", "listUsers", "begin", "respond", "cancel", "start"}
    BY <1>1 DEF Settled, PendingCalls
  <2>2. /\ Steady(ui) /\ Orderly(ui) /\ Accord(ui, answers, wire) /\ ui \in Feature
        /\ phase # "HandingOff" => ui.mode # "handingOff"
        /\ phase \in Phases
    BY <1>1, <2>1, Grounds DEF Inv, HandoffKnown, MachineInv, MachineTypeOK
  <2>3. ui.attempt # None => ui.attempt \in Attempts /\ (phase \in {"Cancelling", "Idle"} => ui.attempt # lastAttempt)
    <3>1. ui.attempt # None => ui.attempt \in Attempts
      BY <2>2 DEF Feature
    <3> QED
      BY <1>1, <3>1 DEF Inv, GoneIsForgotten, Gone
  <2> HIDE DEF Inv, Agreement
  <2>4. /\ ~Given(ui, answers) /\ (Live(ui, answers) <=> ui.attempt # None)
        /\ Taken(ui, answers) =>
             ui.attempt # None /\ ui.mode \in {"prompting", "error", "sessionSelection", "handingOff"}
        /\ \A i \in Slots : ~Waits(ui, answers, i, "cancel")
    <3>1. ~Given(ui, answers)
      BY <2>1 DEF Given
    <3> QED
      BY <2>1, <3>1 DEF Live, Taken, Waits
  <2>5. ui.queued = <<>>
    BY <2>1, <2>2 DEF Accord, Clean, Orderly, Has
  <2>6. \A n \in Nat : ~(0 < n /\ n <= Len(ui.queued \o wire))
    <3>1. PICK p : p = ui.queued \o wire
      OBVIOUS
    <3>2. p = <<>>
      BY <2>1, <2>5, <3>1
    <3>3. Len(p) = 0
      BY <3>2
    <3>4. \A n \in Nat : ~(0 < n /\ n <= Len(p))
      BY <3>3
    <3> QED
      BY <3>1, <3>4
  <2>7. phase \in {"WaitingForInput", "Failed"} /\ ui.attempt # None => Taken(ui, answers)
    BY <2>2, <2>4, <2>6 DEF Accord, Flows, Announced
  <2>8. Bound(ui) /\ Known(ui, answers)
    BY <2>2 DEF Accord, Core
  <2>9. phase \in ActivePhases => ui.attempt # None
    BY <2>4, <2>8 DEF Known
  <2>10. phase = "HandingOff" => ui.mode = "handingOff"
    BY <2>1, <2>8 DEF Known
  <2>11. ui.mode \in {"prompting", "sessionSelection"} => ui.attempt # None
    BY <2>2 DEF Steady
  <2>12. ui.attempt # None => phase # "Failed"
    BY <2>2, <2>4, <2>7, <2>8 DEF Bound
  <2>13. ui.attempt # None =>
           ui.attempt = lastAttempt /\ phase \in ActivePhases \cup {"HandingOff"}
    BY <2>2, <2>3, <2>8, <2>12 DEF Bound, Phases, InvalidatingPhases
  <2>14. phase = "WaitingForInput" /\ ui.attempt # None => ui.mode \in {"prompting", "error"}
    BY <2>2, <2>4, <2>7, <2>8 DEF Bound
  <2>15. phase = "Authenticated" => ui.mode \in {"sessionSelection", "submitting"}
    BY <2>2, <2>8, <2>9 DEF Bound, Feature, ActivePhases
  <2> QED
    BY <2>8, <2>9, <2>10, <2>11, <2>13, <2>14, <2>15 DEF Bound
<1>2. Inv /\ Agreement => ViewAgreesAtRest
  BY <1>1 DEF ViewAgreesAtRest
<1> QED
  BY <1>2, Agrees, PTL

=============================================================================
