-------------------------- MODULE GreetdWireProofs --------------------------
(***************************************************************************)
(* The greetd client implements the calls that the authentication actor    *)
(* relies on, for any sizes and any number of requests.                    *)
(***************************************************************************)
EXTENDS GreetdWire, SequenceTheorems, TLAPS

-----------------------------------------------------------------------------
(* The inductive invariant.  Only one request can have units in flight on   *)
(* the open connection; each closed connection holds at most one more.      *)

\* The units are of request n and of a frame of this size.
OfFrame(units, n, size) ==
  \A i \in DOMAIN units : units[i].of = n /\ units[i].size = size

\* They are consecutive, too.
Consecutive(units, first) ==
  \A i \in DOMAIN units : units[i].at = first + i - 1

\* What was read and what has arrived are a part of the reply that begins at `first`.
Replying(first, size) ==
  /\ OfFrame(call.got, call.n, size)
  /\ OfFrame(down, call.n, size)
  /\ Consecutive(call.got, first)
  /\ Consecutive(down, first + Len(call.got))
  /\ Len(call.got) + Len(down) <= HeaderSize + size + 1 - first

\* The request is on its way; greetd has not all of it.
Writing ==
  /\ call.left # <<>>
  /\ call.got = <<>>
  /\ down = <<>>
  /\ call.n \notin served
  /\ \E size \in Sizes :
       /\ OfFrame(call.left, call.n, size)
       /\ OfFrame(up[conn], call.n, size)
       /\ Len(up[conn]) + Len(call.left) = HeaderSize + size

\* Greetd has all of the request, or has answered it.
AwaitingHeader ==
  /\ Len(call.got) < HeaderSize
  /\ \/ up[conn] # <<>> /\ call.got = <<>> /\ down = <<>>
     \/ /\ up[conn] = <<>>
        /\ call.n \in served
        /\ \E size \in Sizes : Replying(1, size)

AwaitingPayload ==
  /\ up[conn] = <<>>
  /\ call.n \in served
  /\ Len(call.got) < call.size
  /\ Replying(HeaderSize + 1, call.size)

CallFits ==
  /\ call.phase = "idle" => call = Idle /\ down = <<>>
  /\ call.phase # "idle" => /\ conn # 0
                            /\ call.n \in Requests
                            /\ results[call.n] = None
  /\ call.phase = "write" => Writing
  /\ call.phase = "header" => AwaitingHeader
  /\ call.phase = "payload" => AwaitingPayload

\* The frame that greetd has not taken yet from a connection: one at most, of a
\* request that was not carried out.
UpFits(c) ==
  up[c] # <<>> =>
    LET n == up[c][1].of IN
    /\ OfFrame(up[c], n, up[c][1].size)
    /\ Len(up[c]) <= HeaderSize + up[c][1].size
    /\ n \notin served
    /\ c <= n
    /\ IF n = call.n THEN c = conn ELSE c # conn /\ results[n] = Failed

FramesDistinct ==
  \A c, d \in Connections :
    up[c] # <<>> /\ up[d] # <<>> /\ up[c][1].of = up[d][1].of => c = d

ResultsFit ==
  /\ \A n \in Requests : results[n] \in {None, Failed, n}
  /\ \A n \in served : results[n] # None \/ n = call.n
  /\ \A n \in Requests : n < conn => results[n] # None

Inv ==
  /\ TypeOK
  /\ CallFits
  /\ \A c \in Connections : UpFits(c)
  /\ FramesDistinct
  /\ ResultsFit

-----------------------------------------------------------------------------
(* Frames.                                                                  *)

\* A frame is its units.
LEMMA FrameUnits ==
  ASSUME NEW n \in Requests, NEW size \in Sizes, NEW sound \in BOOLEAN
  PROVE  /\ Frame(n, size, sound) \in Seq(Units)
         /\ Len(Frame(n, size, sound)) = HeaderSize + size
         /\ OfFrame(Frame(n, size, sound), n, size)
         /\ Consecutive(Frame(n, size, sound), 1)
<1> DEFINE f == Frame(n, size, sound)
<1>1. HeaderSize + size \in Nat
  BY WireAssumption DEF Sizes
<1>2. \A i \in 1..(HeaderSize + size) : [of |-> n, at |-> i, size |-> size, sound |-> sound] \in Units
  BY WireAssumption DEF Sizes, Units
<1>3. f \in [1..(HeaderSize + size) -> Units]
  BY <1>2 DEF Frame
<1>4. f \in Seq(Units) /\ Len(f) = HeaderSize + size
  BY <1>1, <1>3
<1>5. \A i \in DOMAIN f : f[i].of = n /\ f[i].size = size /\ f[i].at = i
  BY DEF Frame
<1> QED
  BY <1>1, <1>3, <1>4, <1>5 DEF OfFrame, Consecutive

\* The part of a frame that arrives before the connection is cut.
LEMMA FramePrefix ==
  ASSUME NEW n \in Requests, NEW size \in Sizes, NEW sound \in BOOLEAN,
         NEW cut \in Nat, cut <= Len(Frame(n, size, sound))
  PROVE  LET f == Frame(n, size, sound)
             p == SubSeq(f, 1, Len(f) - cut) IN
         /\ p \in Seq(Units)
         /\ Len(p) <= HeaderSize + size
         /\ OfFrame(p, n, size)
         /\ Consecutive(p, 1)
<1> DEFINE f == Frame(n, size, sound)
           p == SubSeq(f, 1, Len(f) - cut)
<1>1. f \in Seq(Units) /\ Len(f) \in Nat /\ Len(f) = HeaderSize + size /\ cut <= Len(f)
  BY FrameUnits, WireAssumption DEF Sizes
<1>2. /\ p \in Seq(Units)
      /\ Len(p) = Len(f) - cut
      /\ \A i \in 1..(Len(f) - cut) : p[i] = f[i]
  <2> HIDE DEF f
  <2>1. /\ 1 \in 1..(Len(f) + 1)
        /\ Len(f) - cut \in 0..Len(f)
    BY <1>1
  <2>2. /\ p \in Seq(Units)
        /\ Len(p) = IF 1 <= Len(f) - cut THEN Len(f) - cut - 1 + 1 ELSE 0
        /\ \A i \in 1..(Len(f) - cut - 1 + 1) : p[i] = f[1 + i - 1]
    BY <1>1, <2>1, SubSeqProperties
  <2> QED
    BY <1>1, <2>1, <2>2
<1>3. \A i \in DOMAIN p : i \in DOMAIN f /\ p[i] = f[i]
  BY <1>1, <1>2
<1> QED
  BY <1>1, <1>2, <1>3, FrameUnits DEF OfFrame, Consecutive

\* Sequences of units grow and shrink one unit at a time.
LEMMA HeadUnit ==
  ASSUME NEW s \in Seq(Units), s # <<>>
  PROVE  /\ Head(s) \in Units
         /\ Head(s) = s[1]
         /\ Tail(s) \in Seq(Units)
         /\ Len(s) \in Nat \ {0}
         /\ Len(Tail(s)) = Len(s) - 1
         /\ \A i \in 1..(Len(s) - 1) : Tail(s)[i] = s[i + 1]
OBVIOUS

\* A unit that is appended comes last.
LEMMA AppendUnit ==
  ASSUME NEW s \in Seq(Units), NEW u \in Units
  PROVE  /\ Append(s, u) \in Seq(Units)
         /\ Len(Append(s, u)) = Len(s) + 1
         /\ \A i \in 1..Len(s) : Append(s, u)[i] = s[i]
         /\ Append(s, u)[Len(s) + 1] = u
OBVIOUS

\* A sequence of no units is the empty one.
LEMMA NoUnits ==
  ASSUME NEW s \in Seq(Units), Len(s) = 0
  PROVE  s = <<>>
OBVIOUS

\* Nothing is left of a frame that was taken whole.
LEMMA NothingLeft ==
  ASSUME NEW s \in Seq(Units), NEW first \in Nat \ {0}, Len(s) < first
  PROVE  SubSeq(s, first, Len(s)) = <<>>
OBVIOUS

\* Reading the next unit of a reply.
LEMMA NextUnit ==
  ASSUME NEW first \in Nat, NEW size \in Nat, NEW n, NEW got \in Seq(Units), NEW rest \in Seq(Units),
         rest # <<>>,
         OfFrame(got, n, size), OfFrame(rest, n, size),
         Consecutive(got, first), Consecutive(rest, first + Len(got))
  PROVE  /\ OfFrame(Append(got, Head(rest)), n, size)
         /\ OfFrame(Tail(rest), n, size)
         /\ Consecutive(Append(got, Head(rest)), first)
         /\ Consecutive(Tail(rest), first + Len(got) + 1)
<1>1. /\ Head(rest) = rest[1] /\ rest[1] \in Units /\ Len(rest) >= 1 /\ 1 \in DOMAIN rest
      /\ rest[1].of = n /\ rest[1].size = size /\ rest[1].at = first + Len(got)
  BY DEF OfFrame, Consecutive
<1>2. /\ DOMAIN Append(got, Head(rest)) = 1..(Len(got) + 1)
      /\ \A i \in 1..Len(got) : Append(got, Head(rest))[i] = got[i]
      /\ Append(got, Head(rest))[Len(got) + 1] = rest[1]
  BY <1>1
<1>3. /\ DOMAIN Tail(rest) = 1..(Len(rest) - 1)
      /\ \A i \in 1..(Len(rest) - 1) : Tail(rest)[i] = rest[i + 1] /\ i + 1 \in DOMAIN rest
  BY HeadUnit
<1>4. \A i \in 1..Len(got) : i \in DOMAIN got
  OBVIOUS
<1>5. OfFrame(Append(got, Head(rest)), n, size) /\ Consecutive(Append(got, Head(rest)), first)
  BY <1>1, <1>2, <1>4, SMTT(30) DEF OfFrame, Consecutive
<1>6. OfFrame(Tail(rest), n, size) /\ Consecutive(Tail(rest), first + Len(got) + 1)
  BY <1>3, SMTT(30) DEF OfFrame, Consecutive
<1> QED
  BY <1>5, <1>6

\* One unit moves from what is left to what was sent.
LEMMA OneMoved ==
  ASSUME NEW sent \in Nat, NEW left \in Nat \ {0}
  PROVE  /\ (sent + 1) + (left - 1) = sent + left
         /\ sent + 1 <= sent + left
OBVIOUS

-----------------------------------------------------------------------------
(* Every step keeps the invariant.                                          *)

\* Nothing has been sent or asked: the invariant holds at first.
LEMMA InvInit ==
  ASSUME Init
  PROVE  Inv
<1> USE WireAssumption DEF Init, Idle, Requests, Connections
<1>1. TypeOK
  BY DEF TypeOK
<1>2. CallFits
  BY DEF CallFits
<1>3. \A c \in Connections : UpFits(c)
  BY DEF UpFits
<1>4. FramesDistinct /\ ResultsFit
  BY DEF FramesDistinct, ResultsFit
<1> QED
  BY <1>1, <1>2, <1>3, <1>4 DEF Inv

\* Connecting and disconnecting, between calls: a new connection is named by a
\* request that was not made, so that nothing is left on it.
LEMMA IdleInv ==
  ASSUME Inv, Connect \/ DropConnection
  PROVE  Inv'
<1> USE WireAssumption DEF Connect, DropConnection, Inv
<1>1. /\ call = Idle
      /\ call.n = 0
      /\ call.phase = "idle"
      /\ down' = <<>>
      /\ conn' \in Connections \cup {0}
      /\ UNCHANGED <<call, results, up, hungup, served>>
  BY DEF NextRequest, Idle, Connections
<1>2. TypeOK'
  BY <1>1 DEF TypeOK
<1>3. CallFits'
  BY <1>1 DEF CallFits
<1>4. \A c \in Connections : UpFits(c)'
  <2> SUFFICES ASSUME NEW c \in Connections, up[c] # <<>>
               PROVE  UpFits(c)'
    BY <1>1 DEF UpFits
  <2> DEFINE n == up[c][1].of
  <2>1. n \in Requests
    BY HeadUnit DEF TypeOK, Units
  <2>2. n # 0 /\ c <= n /\ c # conn /\ results[n] = Failed
    BY <1>1, <2>1 DEF UpFits, Requests
  <2>3. conn' # c
    <3>1. CASE Connect
      <4>1. PICK m \in Requests : conn' = m /\ \A k \in Requests : results[k] = None <=> k >= m
        BY <3>1 DEF NextRequest
      <4> QED
        BY <2>1, <2>2, <4>1 DEF Requests, Connections
    <3>2. CASE DropConnection
      BY <3>2 DEF Connections, Requests
    <3> QED
      BY <3>1, <3>2
  <2> QED
    BY <1>1, <2>1, <2>2, <2>3 DEF UpFits, Requests
<1>5. FramesDistinct'
  BY <1>1 DEF FramesDistinct
<1>6. ResultsFit'
  BY <1>1 DEF ResultsFit, NextRequest, Requests
<1> QED
  BY <1>2, <1>3, <1>4, <1>5, <1>6

\* A call that returns an error leaves its request, at most, on the connection
\* that is dropped with it.
LEMMA FailureInv ==
  ASSUME Inv, NEW n \in Requests, results[n] = None,
         call = Idle \/ call.n = n,
         call' = Idle, results' = [results EXCEPT ![n] = Failed], conn' = 0, down' = <<>>,
         UNCHANGED <<up, hungup, served>>
  PROVE  Inv'
<1> USE WireAssumption DEF Inv
<1>1. TypeOK'
  BY DEF TypeOK, Idle
<1>2. CallFits'
  BY DEF CallFits, Idle
<1>3. \A m \in Requests : results'[m] = IF m = n THEN Failed ELSE results[m]
  BY DEF TypeOK
<1>4. \A c \in Connections : UpFits(c)'
  <2> SUFFICES ASSUME NEW c \in Connections, up[c] # <<>>
               PROVE  UpFits(c)'
    BY DEF UpFits
  <2>1. up[c][1].of \in Requests
    BY HeadUnit DEF TypeOK, Units
  <2> QED
    BY <1>3, <2>1 DEF UpFits, Idle, Connections, Requests
<1>5. FramesDistinct'
  BY DEF FramesDistinct
<1>6. ResultsFit'
  BY <1>3 DEF ResultsFit, Requests, Idle, TypeOK
<1> QED
  BY <1>1, <1>2, <1>4, <1>5, <1>6

\* A request is made on a connection on which nothing is left.
LEMMA RequestInv ==
  ASSUME Inv, NEW size \in Sizes \ {0}, Request(size)
  PROVE  Inv'
<1> USE WireAssumption DEF Inv
<1>1. PICK n \in Requests :
        /\ conn # 0
        /\ NextRequest(n)
        /\ size <= MaxFrame
        /\ call' = [Idle EXCEPT !.phase = "write", !.n = n, !.left = Frame(n, size, TRUE)]
        /\ UNCHANGED <<conn, results, up, down, hungup, served>>
  BY DEF Request
<1> DEFINE f == Frame(n, size, TRUE)
<1>2. f \in Seq(Units) /\ Len(f) = HeaderSize + size /\ OfFrame(f, n, size)
  <2>1. TRUE \in BOOLEAN
    OBVIOUS
  <2> QED
    BY <2>1, FrameUnits
<1>3. /\ call'.phase = "write" /\ call'.n = n /\ call'.left = f /\ call'.got = <<>>
      /\ call'.size = 0
      /\ call = Idle /\ call.n = 0 /\ call.phase = "idle"
      /\ results[n] = None
  BY <1>1 DEF Idle, NextRequest, Requests
<1> HIDE DEF f
<1>4. TypeOK'
  BY <1>1, <1>2, <1>3 DEF TypeOK, Idle
<1>5. n \notin served
  BY <1>3 DEF ResultsFit, Requests
<1>6. up[conn] = <<>>
  <2>1. conn \in Connections
    BY <1>1 DEF TypeOK
  <2> SUFFICES ASSUME up[conn] # <<>>
               PROVE  FALSE
    OBVIOUS
  <2>2. up[conn][1].of \in Requests
    BY <2>1, HeadUnit DEF TypeOK, Units
  <2> QED
    BY <1>3, <2>1, <2>2 DEF UpFits, Requests
<1>7. CallFits'
  <2>1. down = <<>>
    BY <1>3 DEF CallFits
  <2>2. f # <<>>
    BY <1>2 DEF Sizes
  <2>3. OfFrame(up[conn], n, size) /\ Len(up[conn]) = 0
    BY <1>6 DEF OfFrame
  <2>4. Writing'
    <3>1. Len(up[conn]) + Len(f) = HeaderSize + size
      BY <1>2, <2>3 DEF Sizes
    <3>2. /\ OfFrame(call.left, call.n, size)'
          /\ OfFrame(up[conn], call.n, size)'
          /\ (Len(up[conn]) + Len(call.left) = HeaderSize + size)'
      BY <1>1, <1>2, <1>3, <2>3, <3>1 DEF OfFrame
    <3>3. call'.left # <<>>
      BY <1>3, <2>2
    <3>4. call'.got = <<>> /\ down' = <<>>
      BY <1>1, <1>3, <2>1
    <3>5. call'.n \notin served'
      BY <1>1, <1>3, <1>5
    <3> QED
      BY <3>2, <3>3, <3>4, <3>5 DEF Writing, OfFrame
  <2> QED
    BY <1>1, <1>3, <2>4 DEF CallFits
<1>8. \A c \in Connections : UpFits(c)'
  <2> SUFFICES ASSUME NEW c \in Connections, up[c] # <<>>
               PROVE  UpFits(c)'
    BY <1>1 DEF UpFits
  <2>1. up[c][1].of \in Requests
    BY HeadUnit DEF TypeOK, Units
  <2> QED
    BY <1>1, <1>3, <2>1 DEF UpFits, Requests
<1>9. FramesDistinct'
  BY <1>1 DEF FramesDistinct
<1>10. ResultsFit'
  <2>1. \A m \in served : m \in Requests /\ m # 0
    BY DEF TypeOK, Requests
  <2> QED
    BY <1>1, <1>3, <2>1 DEF ResultsFit
<1> QED
  BY <1>4, <1>7, <1>8, <1>9, <1>10

\* Writing moves a unit from what is left of the request to its connection.
LEMMA WriteInv ==
  ASSUME Inv, Write
  PROVE  Inv'
<1>0. HeaderSize \in Nat \ {0} /\ MaxRequests \in Nat /\ MaxFrame \in Nat
  BY WireAssumption
<1> USE <1>0 DEF Inv
<1> DEFINE n == call.n
           u == Head(call.left)
           sent == Append(up[conn], u)
<1>1. /\ call.phase = "write"
      /\ conn \in Connections /\ n \in Requests /\ results[n] = None
      /\ up[conn] \in Seq(Units) /\ call.left \in Seq(Units) /\ call.left # <<>>
      /\ up' = [up EXCEPT ![conn] = sent]
      /\ call' = [call EXCEPT !.left = Tail(@),
                              !.phase = IF Len(call.left) = 1 THEN "header" ELSE "write"]
      /\ UNCHANGED <<conn, results, down, hungup, served>>
      /\ call.got = <<>> /\ down = <<>> /\ n \notin served
  BY DEF Write, CallFits, Writing, TypeOK
<1>2. PICK size \in Sizes :
        /\ OfFrame(call.left, n, size)
        /\ OfFrame(up[conn], n, size)
        /\ Len(up[conn]) + Len(call.left) = HeaderSize + size
  BY <1>1 DEF CallFits, Writing
<1>3. /\ u \in Units /\ u.of = n /\ u.size = size
      /\ Tail(call.left) \in Seq(Units)
      /\ Len(Tail(call.left)) = Len(call.left) - 1
      /\ Len(call.left) \in Nat \ {0}
      /\ OfFrame(Tail(call.left), n, size)
  <2>1. 1 \in DOMAIN call.left
    BY <1>1
  <2>2. \A i \in DOMAIN Tail(call.left) : i + 1 \in DOMAIN call.left
    BY <1>1
  <2> QED
    BY <1>1, <1>2, <2>1, <2>2, HeadUnit DEF OfFrame
<1>4. /\ sent \in Seq(Units)
      /\ sent # <<>>
      /\ Len(sent) = Len(up[conn]) + 1
      /\ OfFrame(sent, n, size)
  <2>1. sent \in Seq(Units) /\ Len(sent) = Len(up[conn]) + 1
    BY <1>1, <1>3, AppendUnit
  <2>2. \A i \in DOMAIN sent : sent[i].of = n /\ sent[i].size = size
    <3> SUFFICES ASSUME NEW i \in DOMAIN sent
                 PROVE  sent[i].of = n /\ sent[i].size = size
      OBVIOUS
    <3>1. i \in 1..Len(up[conn]) \/ i = Len(up[conn]) + 1
      BY <1>1, <2>1
    <3> QED
      BY <1>1, <1>2, <1>3, <3>1, AppendUnit DEF OfFrame
  <2> QED
    BY <1>1, <2>1, <2>2 DEF OfFrame
<1> HIDE DEF sent, u
<1>5. /\ sent[1].of = n /\ sent[1].size = size
      /\ Len(sent) <= HeaderSize + size
      /\ Len(sent) + Len(Tail(call.left)) = HeaderSize + size
  <2>1. sent[1].of = n /\ sent[1].size = size
    <3>1. 1 \in DOMAIN sent
      BY <1>1, <1>4
    <3> QED
      BY <1>4, <3>1 DEF OfFrame
  <2>2. Len(up[conn]) \in Nat
    BY <1>1
  <2>4. /\ Len(sent) = Len(up[conn]) + 1
        /\ Len(Tail(call.left)) = Len(call.left) - 1
        /\ Len(call.left) \in Nat \ {0}
    BY <1>3, <1>4, Zenon
  <2>5. Len(up[conn]) + Len(call.left) = HeaderSize + size
    BY <1>2
  <2>6. Len(sent) <= HeaderSize + size
    <3>1. Len(up[conn]) + 1 <= Len(up[conn]) + Len(call.left)
      BY <2>2, <2>4, OneMoved, Zenon
    <3> QED
      BY <2>4, <2>5, <3>1, Zenon
  <2>7. Len(sent) + Len(Tail(call.left)) = HeaderSize + size
    <3>1. (Len(up[conn]) + 1) + (Len(call.left) - 1) = Len(up[conn]) + Len(call.left)
      BY <2>2, <2>4, OneMoved, Zenon
    <3> QED
      BY <2>4, <2>5, <3>1, Zenon
  <2> QED
    BY <2>1, <2>6, <2>7
<1>6. /\ call'.n = n /\ call'.left = Tail(call.left) /\ call'.got = <<>> /\ call'.size = call.size
      /\ call'.phase = IF Len(call.left) = 1 THEN "header" ELSE "write"
  BY <1>1 DEF TypeOK
<1>7. /\ up'[conn] = sent
      /\ \A c \in Connections : c # conn => up'[c] = up[c]
  BY <1>1 DEF TypeOK
<1>8. TypeOK'
  BY <1>1, <1>3, <1>4, <1>6 DEF TypeOK
<1>9. conn <= n
  BY <1>1 DEF ResultsFit, Connections, Requests
<1>10. CallFits'
  <2>1. CASE Len(call.left) = 1
    <3>1. AwaitingHeader'
      BY <1>1, <1>4, <1>6, <1>7 DEF AwaitingHeader
    <3> QED
      BY <1>1, <1>6, <2>1, <3>1 DEF CallFits, Connections, Requests
  <2>2. CASE Len(call.left) # 1
    <3>1. call'.left # <<>>
      <4>1. Len(call'.left) # 0
        BY <1>3, <1>6, <2>2
      <4> QED
        BY <4>1
    <3>2. OfFrame(call'.left, call'.n, size)
      BY <1>3, <1>6 DEF OfFrame
    <3>4. OfFrame(up'[conn], call'.n, size)
      BY <1>4, <1>6, <1>7 DEF OfFrame
    <3>5. Len(up'[conn]) + Len(call'.left) = HeaderSize + size
      BY <1>5, <1>6, <1>7
    <3>6. /\ OfFrame(call.left, call.n, size)'
          /\ OfFrame(up[conn], call.n, size)'
          /\ (Len(up[conn]) + Len(call.left) = HeaderSize + size)'
      BY <1>1, <3>2, <3>4, <3>5 DEF OfFrame
    <3>7. call'.got = <<>> /\ down' = <<>>
      BY <1>1, <1>6
    <3>8. call'.n \notin served'
      BY <1>1, <1>6
    <3>3. Writing'
      BY <3>1, <3>6, <3>7, <3>8 DEF Writing, OfFrame
    <3> QED
      BY <1>1, <1>6, <2>2, <3>3 DEF CallFits, Connections, Requests
  <2> QED
    BY <2>1, <2>2
<1>11. \A c \in Connections : UpFits(c)'
  <2> SUFFICES ASSUME NEW c \in Connections
               PROVE  UpFits(c)'
    OBVIOUS
  <2>1. CASE c = conn
    BY <1>1, <1>4, <1>5, <1>6, <1>7, <1>9, <2>1 DEF UpFits, OfFrame
  <2>2. CASE c # conn
    BY <1>1, <1>6, <1>7, <2>2 DEF UpFits, OfFrame
  <2> QED
    BY <2>1, <2>2
<1>12. FramesDistinct'
  <2>1. \A c \in Connections : c # conn /\ up[c] # <<>> => up[c][1].of # n
    BY DEF UpFits
  <2> QED
    BY <1>1, <1>5, <1>7, <2>1 DEF FramesDistinct
<1>13. ResultsFit'
  BY <1>1, <1>6 DEF ResultsFit
<1> QED
  BY <1>8, <1>10, <1>11, <1>12, <1>13

\* Reading on: the part of a reply that was read grows by what has arrived.
LEMMA ReadOn ==
  ASSUME Inv, NEW first \in Nat, NEW size \in Sizes, Replying(first, size), down # <<>>
  PROVE  LET got == Append(call.got, Head(down)) IN
         /\ got \in Seq(Units)
         /\ Tail(down) \in Seq(Units)
         /\ Len(got) = Len(call.got) + 1
         /\ Len(Tail(down)) = Len(down) - 1
         /\ OfFrame(got, call.n, size)
         /\ OfFrame(Tail(down), call.n, size)
         /\ Consecutive(got, first)
         /\ Consecutive(Tail(down), first + Len(got))
         /\ Len(got) + Len(Tail(down)) = Len(call.got) + Len(down)
<1>1. call.got \in Seq(Units) /\ down \in Seq(Units) /\ size \in Nat
  BY DEF Inv, TypeOK, Sizes
<1>2. Head(down) \in Units
  BY <1>1, HeadUnit
<1>3. /\ Append(call.got, Head(down)) \in Seq(Units)
      /\ Len(Append(call.got, Head(down))) = Len(call.got) + 1
  BY <1>1, <1>2, AppendUnit
<1>4. /\ OfFrame(Append(call.got, Head(down)), call.n, size)
      /\ OfFrame(Tail(down), call.n, size)
      /\ Consecutive(Append(call.got, Head(down)), first)
      /\ Consecutive(Tail(down), first + Len(call.got) + 1)
  BY <1>1, NextUnit DEF Replying
<1>5. Consecutive(Tail(down), first + Len(Append(call.got, Head(down))))
  BY <1>1, <1>3, <1>4 DEF Consecutive
<1>6. Len(down) \in Nat \ {0} /\ Len(Tail(down)) = Len(down) - 1 /\ Tail(down) \in Seq(Units)
  BY <1>1, HeadUnit
<1>7. Len(Append(call.got, Head(down))) + Len(Tail(down)) = Len(call.got) + Len(down)
  <2>1. (Len(call.got) + 1) + (Len(down) - 1) = Len(call.got) + Len(down)
    <3>1. Len(call.got) \in Nat
      BY <1>1
    <3> QED
      BY <1>6, <3>1, OneMoved, Zenon
  <2> QED
    BY <1>3, <1>6, <2>1, Zenon
<1> QED
  BY <1>3, <1>4, <1>5, <1>6, <1>7

\* Of a whole header the client learns the very size of the reply, and no payload
\* that the limit forbids is waited for.
LEMMA ReadHeaderInv ==
  ASSUME Inv, ReadHeader
  PROVE  Inv'
<1> DEFINE n == call.n
           got == Append(call.got, Head(down))
<1>0. /\ call.phase = "header" /\ down # <<>>
      /\ conn \in Connections /\ n \in Requests /\ results[n] = None
      /\ call.got \in Seq(Units) /\ Len(call.got) \in Nat /\ Len(call.got) < HeaderSize
      /\ HeaderSize \in Nat \ {0} /\ MaxFrame \in Nat
      /\ up[conn] = <<>> /\ n \in served
      /\ UNCHANGED <<up, hungup, served>>
  <2>1. /\ call.phase = "header" /\ down # <<>>
        /\ UNCHANGED <<up, hungup, served>>
    BY DEF ReadHeader
  <2>2. /\ conn \in Connections /\ n \in Requests /\ results[n] = None
        /\ AwaitingHeader
    BY <2>1 DEF Inv, CallFits, TypeOK
  <2>3. call.got \in Seq(Units)
    BY DEF Inv, TypeOK
  <2>4. /\ Len(call.got) < HeaderSize
        /\ up[conn] = <<>> /\ n \in served
    BY <2>1, <2>2 DEF AwaitingHeader
  <2> QED
    BY <2>1, <2>2, <2>3, <2>4, WireAssumption
<1>1. PICK size \in Sizes : Replying(1, size)
  BY <1>0 DEF Inv, CallFits, AwaitingHeader
<1>2. /\ got \in Seq(Units)
      /\ Tail(down) \in Seq(Units)
      /\ Len(got) = Len(call.got) + 1
      /\ OfFrame(got, n, size)
      /\ OfFrame(Tail(down), n, size)
      /\ Consecutive(got, 1)
      /\ Consecutive(Tail(down), 1 + Len(got))
      /\ Len(got) + Len(Tail(down)) = Len(call.got) + Len(down)
  BY <1>0, <1>1, ReadOn
<1>3. Len(got) + Len(Tail(down)) <= HeaderSize + size
  <2>1. Len(call.got) + Len(down) <= HeaderSize + size + 1 - 1
    BY <1>1 DEF Replying
  <2>2. HeaderSize + size + 1 - 1 = HeaderSize + size
    BY <1>0 DEF Sizes
  <2> QED
    BY <1>2, <2>1, <2>2, Zenon
<1>4. \A c \in Connections : UpFits(c)
  BY DEF Inv
<1>5. CASE Len(got) < HeaderSize
  <2>1. call' = [call EXCEPT !.got = got] /\ down' = Tail(down) /\ UNCHANGED <<conn, results>>
    BY <1>5 DEF ReadHeader, GoOn
  <2>2. /\ call'.phase = "header" /\ call'.n = n /\ call'.got = got
        /\ call'.left = call.left /\ call'.size = call.size
    BY <1>0, <2>1 DEF Inv, TypeOK
  <2> HIDE DEF got
  <2>3. TypeOK'
    BY <1>0, <1>2, <2>1, <2>2 DEF Inv, TypeOK
  <2>4. Replying(1, size)'
    BY <1>2, <1>3, <2>1, <2>2, <1>0 DEF Replying, OfFrame, Consecutive, Sizes
  <2>5. AwaitingHeader'
    BY <1>0, <1>5, <2>1, <2>2, <2>4 DEF AwaitingHeader
  <2>6. CallFits'
    BY <1>0, <2>1, <2>2, <2>5 DEF CallFits, Connections, Requests
  <2>7. (\A c \in Connections : UpFits(c))' /\ FramesDistinct' /\ ResultsFit'
    BY <1>0, <2>1, <2>2 DEF Inv, UpFits, FramesDistinct, ResultsFit
  <2> QED
    BY <2>3, <2>6, <2>7 DEF Inv
<1>6. CASE ~(Len(got) < HeaderSize)
  <2>1. Len(got) = HeaderSize
    BY <1>0, <1>2, <1>6
  <2>2. /\ 1 \in DOMAIN got
        /\ got[1].size = size
        /\ Whole(got, 1, HeaderSize)
    BY <1>0, <1>2, <2>1, SMTT(30) DEF OfFrame, Consecutive, Whole
  <2>3. IF size > MaxFrame \/ size = 0
        THEN Return(n, Failed, <<>>)
        ELSE GoOn([call EXCEPT !.phase = "payload", !.got = <<>>, !.size = size])
    BY <1>6, <2>2 DEF ReadHeader, SizesRead
  <2>4. CASE size > MaxFrame \/ size = 0
    BY <1>0, <2>3, <2>4, FailureInv DEF Return
  <2>5. CASE ~(size > MaxFrame \/ size = 0)
    <3>1. /\ call' = [call EXCEPT !.phase = "payload", !.got = <<>>, !.size = size]
          /\ down' = Tail(down)
          /\ UNCHANGED <<conn, results>>
      BY <2>3, <2>5 DEF GoOn
    <3>2. /\ call'.phase = "payload" /\ call'.n = n /\ call'.got = <<>>
          /\ call'.left = call.left /\ call'.size = size
      BY <1>0, <3>1 DEF Inv, TypeOK
    <3>3. size \in 0..MaxFrame /\ size # 0 /\ size \in Nat
      BY <1>0, <2>5 DEF Sizes
    <3> HIDE DEF got
    <3>4. TypeOK'
      BY <1>0, <1>2, <3>1, <3>2, <3>3 DEF Inv, TypeOK
    <3>5. Replying(HeaderSize + 1, size)'
      <4>1. Len(down') <= size
        <5>1. Len(down') \in Nat
          BY <1>2, <3>1
        <5>2. HeaderSize + Len(down') <= HeaderSize + size
          BY <1>3, <2>1, <3>1
        <5> DEFINE l == Len(down')
        <5> HIDE DEF l
        <5> QED
          BY <1>0, <3>3, <5>1, <5>2 DEF l
      <4>2. Consecutive(down, HeaderSize + 1)'
        BY <1>0, <1>2, <2>1, <3>1, SMTT(30) DEF Consecutive
      <4>3. OfFrame(down, call.n, size)'
        BY <1>2, <3>1, <3>2 DEF OfFrame
      <4> QED
        BY <1>0, <3>2, <3>3, <4>1, <4>2, <4>3 DEF Replying, OfFrame, Consecutive
    <3>6. AwaitingPayload'
      BY <1>0, <3>1, <3>2, <3>3, <3>5 DEF AwaitingPayload
    <3>7. CallFits'
      BY <1>0, <3>1, <3>2, <3>6 DEF CallFits, Connections, Requests
    <3>8. (\A c \in Connections : UpFits(c))' /\ FramesDistinct' /\ ResultsFit'
      BY <1>0, <3>1, <3>2 DEF Inv, UpFits, FramesDistinct, ResultsFit
    <3> QED
      BY <3>4, <3>7, <3>8 DEF Inv
  <2> QED
    BY <2>4, <2>5
<1> QED
  BY <1>5, <1>6

\* A call that succeeds has read all of the reply to its own request, and no unit
\* of it is left for the next call.
LEMMA ReadPayloadInv ==
  ASSUME Inv, ReadPayload
  PROVE  Inv'
<1> DEFINE n == call.n
           got == Append(call.got, Head(down))
<1>1. /\ call.phase = "payload" /\ down # <<>>
      /\ UNCHANGED <<up, hungup, served>>
  BY DEF ReadPayload
<1>2. /\ conn \in Connections /\ n \in Requests /\ results[n] = None
      /\ AwaitingPayload
      /\ call.got \in Seq(Units) /\ Len(call.got) \in Nat
      /\ call.size \in 0..MaxFrame
  BY <1>1 DEF Inv, CallFits, TypeOK
<1>3. /\ HeaderSize \in Nat \ {0} /\ MaxFrame \in Nat /\ call.size \in Nat /\ call.size \in Sizes
  BY <1>2, WireAssumption DEF Sizes
<1>4. /\ up[conn] = <<>> /\ n \in served
      /\ Len(call.got) < call.size
      /\ Replying(HeaderSize + 1, call.size)
  BY <1>2 DEF AwaitingPayload
<1>5. /\ got \in Seq(Units)
      /\ Tail(down) \in Seq(Units)
      /\ Len(got) = Len(call.got) + 1
      /\ OfFrame(got, n, call.size)
      /\ OfFrame(Tail(down), n, call.size)
      /\ Consecutive(got, HeaderSize + 1)
      /\ Consecutive(Tail(down), HeaderSize + 1 + Len(got))
      /\ Len(got) + Len(Tail(down)) = Len(call.got) + Len(down)
  <2>1. HeaderSize + 1 \in Nat
    BY <1>3
  <2> QED
    BY <1>1, <1>3, <1>4, <2>1, ReadOn
<1>6. Len(got) + Len(Tail(down)) <= call.size
  <2>1. HeaderSize + call.size + 1 - (HeaderSize + 1) = call.size
    BY <1>3
  <2> QED
    BY <1>4, <1>5, <2>1, Zenon DEF Replying
<1>7. CASE Len(got) < call.size
  <2>1. call' = [call EXCEPT !.got = got] /\ down' = Tail(down) /\ UNCHANGED <<conn, results>>
    BY <1>7 DEF ReadPayload, GoOn
  <2>2. /\ call'.phase = "payload" /\ call'.n = n /\ call'.got = got
        /\ call'.left = call.left /\ call'.size = call.size
    BY <1>1, <2>1 DEF Inv, TypeOK
  <2> HIDE DEF got
  <2>3. TypeOK'
    BY <1>1, <1>5, <2>1, <2>2 DEF Inv, TypeOK
  <2>4. Replying(HeaderSize + 1, call.size)'
    <3>1. HeaderSize + call.size + 1 - (HeaderSize + 1) = call.size
      BY <1>3
    <3> QED
      BY <1>3, <1>5, <1>6, <2>1, <2>2, <3>1 DEF Replying, OfFrame, Consecutive
  <2>5. AwaitingPayload'
    BY <1>1, <1>4, <1>7, <2>1, <2>2, <2>4 DEF AwaitingPayload
  <2>6. CallFits'
    BY <1>1, <1>2, <2>1, <2>2, <2>5 DEF CallFits, Connections, Requests
  <2>7. (\A c \in Connections : UpFits(c))' /\ FramesDistinct' /\ ResultsFit'
    BY <1>1, <2>1, <2>2 DEF Inv, UpFits, FramesDistinct, ResultsFit
  <2> QED
    BY <2>3, <2>6, <2>7 DEF Inv
<1>8. CASE ~(Len(got) < call.size)
  <2>1. Return(n, Decode(got, call.size), Tail(down))
    BY <1>8 DEF ReadPayload
  <2>2. Decode(got, call.size) \in {n, Failed}
    <3>1. 1 \in DOMAIN got
      BY <1>2, <1>5
    <3> QED
      BY <1>5, <3>1 DEF OfFrame, Decode
  <2>3. CASE Decode(got, call.size) = Failed
    BY <1>1, <1>2, <2>1, <2>3, FailureInv DEF Return
  <2>4. CASE Decode(got, call.size) = n /\ n # Failed
    <3>1. /\ call' = Idle /\ results' = [results EXCEPT ![n] = n]
          /\ conn' = conn /\ down' = Tail(down)
      BY <2>1, <2>4 DEF Return
    <3>2. Tail(down) = <<>>
      <4>1. Len(Tail(down)) = 0
        <5> DEFINE g == Len(got)
                   l == Len(Tail(down))
        <5>1. g = call.size
          BY <1>2, <1>3, <1>4, <1>5, <1>8
        <5>2. l \in Nat /\ g + l <= call.size
          BY <1>5, <1>6
        <5> HIDE DEF g, l
        <5>3. l = 0
          BY <1>3, <5>1, <5>2
        <5> QED
          BY <5>3 DEF l
      <4> QED
        BY <1>5, <4>1, NoUnits
    <3>3. \A m \in Requests : results'[m] = IF m = n THEN n ELSE results[m]
      BY <3>1 DEF Inv, TypeOK
    <3>4. TypeOK'
      <4>1. call' \in [phase : {"idle", "write", "header", "payload"}, n : Requests \cup {0},
                       left : Seq(Units), got : Seq(Units), size : 0..MaxFrame]
        BY <1>3, <3>1 DEF Idle
      <4>2. results' \in [Requests -> Requests \cup {None, Failed}]
        BY <1>2, <3>1 DEF Inv, TypeOK
      <4>3. down' \in Seq(Units)
        BY <1>5, <3>1
      <4> QED
        BY <1>1, <3>1, <4>1, <4>2, <4>3 DEF Inv, TypeOK
    <3>5. CallFits'
      BY <3>1, <3>2 DEF CallFits, Idle
    <3>6. (\A c \in Connections : UpFits(c))'
      <4> SUFFICES ASSUME NEW c \in Connections, up[c] # <<>>
                   PROVE  UpFits(c)'
        BY <1>1 DEF UpFits
      <4>1. up[c][1].of \in Requests
        BY HeadUnit DEF Inv, TypeOK, Units
      <4>2. c # conn
        BY <1>4
      <4> QED
        BY <1>1, <3>1, <3>3, <4>1, <4>2 DEF Inv, UpFits, Idle, Requests
    <3>7. FramesDistinct'
      BY <1>1 DEF Inv, FramesDistinct
    <3>8. ResultsFit'
      <4>1. n # None
        BY <1>2, WireAssumption DEF Requests
      <4> QED
        BY <1>1, <1>2, <3>1, <3>3, <4>1 DEF Inv, TypeOK, ResultsFit, Idle, Requests
    <3> QED
      BY <3>4, <3>5, <3>6, <3>7, <3>8 DEF Inv
  <2> QED
    BY <2>2, <2>3, <2>4
<1> QED
  BY <1>7, <1>8

\* Greetd takes a request whole; its answer reaches the call that is waiting for
\* it, or nobody.
LEMMA ServeInv ==
  ASSUME Inv, NEW c \in Connections, Serve(c)
  PROVE  Inv'
<1> DEFINE n == up[c][1].of
           rest == SubSeq(up[c], HeaderSize + up[c][1].size + 1, Len(up[c]))
<1>1. PICK size \in Sizes, sound \in BOOLEAN, cut \in 0..(HeaderSize + MaxFrame + 1) :
        LET reply == Frame(n, size, sound) IN
        /\ cut <= Len(reply)
        /\ down' = IF c = conn THEN down \o SubSeq(reply, 1, Len(reply) - cut) ELSE down
        /\ hungup' = IF cut > 0 THEN hungup \cup {c} ELSE hungup
  BY DEF Serve
<1>2. /\ HasFrame(up[c])
      /\ served' = served \cup {n}
      /\ up' = [up EXCEPT ![c] = rest]
      /\ UNCHANGED <<conn, call, results>>
  BY DEF Serve
<1>3. HeaderSize \in Nat \ {0} /\ MaxFrame \in Nat
  BY WireAssumption
<1>4. /\ up[c] \in Seq(Units) /\ Len(up[c]) \in Nat
      /\ up[c] # <<>>
      /\ n \in Requests /\ up[c][1].size \in Nat
      /\ Len(up[c]) >= HeaderSize + up[c][1].size
  <2>1. up[c] \in Seq(Units) /\ Len(up[c]) \in Nat
    BY DEF Inv, TypeOK
  <2>2. Len(up[c]) >= HeaderSize /\ Len(up[c]) >= HeaderSize + up[c][1].size
    BY <1>2 DEF HasFrame
  <2>3. up[c] # <<>>
    BY <1>3, <2>1, <2>2
  <2>4. up[c][1] \in Units
    BY <2>1, <2>3, HeadUnit
  <2> QED
    BY <2>1, <2>2, <2>3, <2>4, <1>3, SMTT(30) DEF Units, Sizes
<1>5. /\ OfFrame(up[c], n, up[c][1].size)
      /\ Len(up[c]) <= HeaderSize + up[c][1].size
      /\ n \notin served /\ c <= n
      /\ IF n = call.n THEN c = conn ELSE c # conn /\ results[n] = Failed
  BY <1>4 DEF Inv, UpFits
<1>6. rest = <<>>
  <2>1. Len(up[c]) < HeaderSize + up[c][1].size + 1
    BY <1>3, <1>4, <1>5
  <2>2. HeaderSize + up[c][1].size + 1 \in Nat \ {0}
    BY <1>3, <1>4, SMTT(30)
  <2> QED
    BY <1>4, <2>1, <2>2, NothingLeft
<1> HIDE DEF rest
<1>7. /\ up'[c] = <<>>
      /\ \A d \in Connections : d # c => up'[d] = up[d]
      /\ up' \in [Connections -> Seq(Units)]
  BY <1>2, <1>6 DEF Inv, TypeOK
<1>8. (\A d \in Connections : UpFits(d))'
  <2> SUFFICES ASSUME NEW d \in Connections, d # c, up[d] # <<>>
               PROVE  UpFits(d)'
    BY <1>7 DEF UpFits
  <2>1. up[d][1].of # n
    BY <1>4 DEF Inv, FramesDistinct
  <2> QED
    BY <1>2, <1>7, <2>1 DEF Inv, UpFits
<1>9. FramesDistinct'
  BY <1>7 DEF Inv, FramesDistinct
<1>10. ResultsFit'
  <2>1. results[n] # None \/ n = call.n
    BY <1>5, WireAssumption
  <2> QED
    BY <1>2, <2>1 DEF Inv, ResultsFit
<1>11. CASE c # conn
  <2>1. n # call.n /\ down' = down
    BY <1>1, <1>5, <1>11
  <2>2. TypeOK'
    BY <1>1, <1>2, <1>4, <1>7, <2>1 DEF Inv, TypeOK
  <2>3. call.phase # "idle" => up'[conn] = up[conn] /\ (call.n \in served' <=> call.n \in served)
    BY <1>2, <1>7, <1>11, <2>1 DEF Inv, CallFits, TypeOK
  <2>4. call.phase = "write" => Writing'
    <3> SUFFICES ASSUME call.phase = "write"
                 PROVE  Writing'
      OBVIOUS
    <3>1. PICK s \in Sizes :
            /\ OfFrame(call.left, call.n, s)
            /\ OfFrame(up[conn], call.n, s)
            /\ Len(up[conn]) + Len(call.left) = HeaderSize + s
      BY DEF Inv, CallFits, Writing
    <3>2. call.left # <<>> /\ call.got = <<>> /\ down = <<>> /\ call.n \notin served
      BY DEF Inv, CallFits, Writing
    <3>3. /\ OfFrame(call.left, call.n, s)'
          /\ OfFrame(up[conn], call.n, s)'
          /\ (Len(up[conn]) + Len(call.left) = HeaderSize + s)'
      BY <1>2, <2>3, <3>1 DEF OfFrame
    <3>4. (call.left # <<>> /\ call.got = <<>> /\ down = <<>> /\ call.n \notin served)'
      BY <1>2, <2>1, <2>3, <3>2
    <3> QED
      BY <3>3, <3>4 DEF Writing, OfFrame
  <2>5. call.phase = "header" => AwaitingHeader'
    BY <1>2, <2>1, <2>3 DEF Inv, CallFits, AwaitingHeader, Replying, OfFrame, Consecutive
  <2>6. call.phase = "payload" => AwaitingPayload'
    BY <1>2, <2>1, <2>3 DEF Inv, CallFits, AwaitingPayload, Replying, OfFrame, Consecutive
  <2>7. CallFits'
    BY <1>2, <2>1, <2>4, <2>5, <2>6 DEF Inv, CallFits
  <2> QED
    BY <1>8, <1>9, <1>10, <2>2, <2>7 DEF Inv
<1>12. CASE c = conn
  <2>1. n = call.n
    BY <1>5, <1>12
  <2>2. call.phase = "header" /\ call.got = <<>> /\ down = <<>>
    <3>1. call.phase # "idle"
      BY <1>4, <2>1 DEF Inv, CallFits, Idle, Requests
    <3>2. call.phase # "payload"
      BY <1>4, <1>12 DEF Inv, CallFits, AwaitingPayload
    <3>3. call.phase # "write"
      <4> SUFFICES ASSUME call.phase = "write"
                   PROVE  FALSE
        OBVIOUS
      <4>1. PICK s \in Sizes :
              /\ OfFrame(up[c], n, s)
              /\ Len(up[c]) + Len(call.left) = HeaderSize + s
        BY <1>12, <2>1 DEF Inv, CallFits, Writing
      <4>2. 1 \in DOMAIN up[c]
        BY <1>4
      <4>3. up[c][1].size = s
        BY <4>1, <4>2 DEF OfFrame
      <4>4. call.left \in Seq(Units) /\ call.left # <<>>
        BY DEF Inv, TypeOK, CallFits, Writing
      <4>5. Len(call.left) \in Nat \ {0}
        BY <4>4, HeadUnit
      <4>6. Len(up[c]) + 1 <= HeaderSize + s
        <5>1. Len(up[c]) + 1 <= Len(up[c]) + Len(call.left)
          BY <1>4, <4>5, OneMoved, Zenon
        <5> QED
          BY <4>1, <5>1, Zenon
      <4> DEFINE l == Len(up[c])
                 t == HeaderSize + s
      <4>7. l \in Nat /\ t \in Nat /\ l >= t /\ l + 1 <= t
        BY <1>3, <1>4, <4>3, <4>6 DEF Sizes
      <4> HIDE DEF l, t
      <4> QED
        BY <4>7
    <3>4. call.phase \in {"idle", "write", "header", "payload"}
      BY DEF Inv, TypeOK
    <3>5. call.phase = "header"
      BY <3>1, <3>2, <3>3, <3>4
    <3> QED
      BY <1>4, <1>12, <3>5 DEF Inv, CallFits, AwaitingHeader
  <2> DEFINE reply == Frame(n, size, sound)
             part == SubSeq(reply, 1, Len(reply) - cut)
  <2>3. /\ part \in Seq(Units)
        /\ Len(part) <= HeaderSize + size
        /\ OfFrame(part, n, size)
        /\ Consecutive(part, 1)
    <3>1. cut \in Nat /\ cut <= Len(reply)
      BY <1>1
    <3> QED
      BY <1>4, <3>1, FramePrefix
  <2>4. down' = down \o part /\ hungup' \subseteq Connections
    BY <1>1, <1>12 DEF Inv, TypeOK
  <2> HIDE DEF part, reply
  <2>5. down' = part
    BY <2>2, <2>3, <2>4
  <2>6. TypeOK'
    BY <1>2, <1>4, <1>7, <2>3, <2>4, <2>5 DEF Inv, TypeOK
  <2>7. Replying(1, size)'
    <3>1. Len(call.got) = 0 /\ DOMAIN call.got = {}
      BY <2>2
    <3>2. Len(part) \in Nat
      BY <2>3
    <3>3. 0 + Len(part) = Len(part) /\ HeaderSize + size + 1 - 1 = HeaderSize + size /\ 1 + 0 = 1
      BY <1>3, <3>2 DEF Sizes
    <3> QED
      BY <1>2, <2>1, <2>2, <2>3, <2>5, <3>1, <3>3 DEF Replying, OfFrame, Consecutive
  <2>8. AwaitingHeader'
    <3>1. Len(call.got) < HeaderSize
      BY <1>3, <2>2
    <3> QED
      BY <1>2, <1>7, <1>12, <2>1, <2>7, <3>1 DEF AwaitingHeader
  <2>9. CallFits'
    BY <1>2, <2>2, <2>8 DEF Inv, CallFits
  <2> QED
    BY <1>8, <1>9, <1>10, <2>6, <2>9 DEF Inv
<1> QED
  BY <1>11, <1>12

\* A call that fails before it was made, that breaks, or that is given up.
LEMMA GivenUpInv ==
  ASSUME Inv, (\E size \in Sizes \ {0} : RequestTooLarge(size)) \/ Broken \/ Interrupted
  PROVE  Inv'
<1>1. CASE \E size \in Sizes \ {0} : RequestTooLarge(size)
  <2>1. PICK n \in Requests :
          /\ NextRequest(n)
          /\ Return(n, Failed, <<>>)
          /\ UNCHANGED <<up, hungup, served>>
    BY <1>1 DEF RequestTooLarge
  <2>2. call = Idle /\ results[n] = None
    BY <2>1 DEF NextRequest, Requests
  <2> QED
    BY <2>1, <2>2, FailureInv DEF Return
<1>2. CASE Broken \/ Interrupted
  <2>1. /\ call # Idle
        /\ Return(call.n, Failed, <<>>)
        /\ UNCHANGED <<up, hungup, served>>
    BY <1>2 DEF Broken, Interrupted
  <2>2. call.n \in Requests /\ results[call.n] = None
    BY <2>1 DEF Inv, CallFits
  <2> QED
    BY <2>1, <2>2, FailureInv DEF Return
<1> QED
  BY <1>1, <1>2

\* A connection that greetd closes, and a step that changes nothing.
LEMMA QuietInv ==
  ASSUME Inv, (\E c \in Connections : HangUp(c)) \/ UNCHANGED vars
  PROVE  Inv'
<1>1. UNCHANGED <<conn, call, results, up, down, served>> /\ hungup' \subseteq Connections
  BY DEF HangUp, vars, Inv, TypeOK
<1>2. TypeOK'
  BY <1>1 DEF Inv, TypeOK
<1>3. CallFits'
  BY <1>1 DEF Inv, CallFits, Writing, AwaitingHeader, AwaitingPayload, Replying, OfFrame, Consecutive
<1>4. (\A c \in Connections : UpFits(c))' /\ FramesDistinct' /\ ResultsFit'
  BY <1>1 DEF Inv, UpFits, FramesDistinct, ResultsFit, OfFrame
<1> QED
  BY <1>2, <1>3, <1>4 DEF Inv

\* Every step keeps the invariant.
LEMMA InvStep ==
  ASSUME Inv, [Next]_vars
  PROVE  Inv'
<1>1. CASE Connect \/ DropConnection
  BY <1>1, IdleInv
<1>2. CASE \E size \in Sizes \ {0} : Request(size)
  BY <1>2, RequestInv
<1>3. CASE (\E size \in Sizes \ {0} : RequestTooLarge(size)) \/ Broken \/ Interrupted
  BY <1>3, GivenUpInv
<1>4. CASE Write
  BY <1>4, WriteInv
<1>5. CASE ReadHeader
  BY <1>5, ReadHeaderInv
<1>6. CASE ReadPayload
  BY <1>6, ReadPayloadInv
<1>7. CASE \E c \in Connections : Serve(c)
  BY <1>7, ServeInv
<1>8. CASE (\E c \in Connections : HangUp(c)) \/ Rest \/ UNCHANGED vars
  BY <1>8, QuietInv DEF Rest
<1> QED
  BY <1>1, <1>2, <1>3, <1>4, <1>5, <1>6, <1>7, <1>8 DEF Next, Client, Greetd

\* Whatever arrives and whenever a call is given up, what is on the wire belongs
\* to the call that is being made, or is a request that greetd has yet to find on
\* a connection that the client has left.
THEOREM InvHolds == Spec => []Inv
<1>1. Init => Inv
  BY InvInit
<1>2. Inv /\ [Next]_vars => Inv'
  BY InvStep
<1> QED
  BY <1>1, <1>2, PTL DEF Spec

\* Every variable has its type: in particular the size of which the payload's
\* buffer is allocated never exceeds MAX_FRAME_SIZE (GreetdClient::read_response).
THEOREM WireTypes == Spec => []TypeOK
<1>1. Inv => TypeOK
  BY DEF Inv
<1> QED
  BY <1>1, InvHolds, PTL

-----------------------------------------------------------------------------
(* The calls of GreetdCalls: what a caller knows of each request.           *)

\* Nothing that a caller or greetd's account knows has changed.
LEMMA CallStutters ==
  ASSUME call'.n = call.n, UNCHANGED <<results, served>>
  PROVE  UNCHANGED Calls!vars
BY DEF Calls!vars, Status

\* What is known of the requests while no call is being made.
LEMMA IdleStatus ==
  ASSUME Inv, NEW n \in Requests, NextRequest(n)
  PROVE  /\ call.n = 0
         /\ Calls!NextRequest(n)
<1>1. call = Idle /\ call.n = 0
  BY DEF NextRequest, Idle
<1>2. \A m \in Requests : call.n # m /\ (results[m] = None <=> m >= n)
  BY <1>1, WireAssumption DEF NextRequest, Requests
<1>3. \A m \in Requests : Status[m] # "pending" /\ (Status[m] = "unsent" <=> results[m] = None)
  BY <1>2 DEF Status
<1> QED
  BY <1>1, <1>2, <1>3 DEF Calls!NextRequest, Calls!Pending, Calls!Requests, Requests

\* A call returns with an error.
LEMMA CallFails ==
  ASSUME Inv, NEW n \in Requests, call.n = n \/ call.n = 0,
         call' = Idle, results' = [results EXCEPT ![n] = Failed]
  PROVE  Status' = [Status EXCEPT ![n] = "failed"]
<1>1. \A m \in Requests : results'[m] = IF m = n THEN Failed ELSE results[m]
  BY DEF Inv, TypeOK
<1>2. Failed # None /\ Failed # n /\ \A m \in Requests : m # 0
  BY WireAssumption DEF Requests
<1> QED
  BY <1>1, <1>2 DEF Status, Idle

\* A request whose first unit may now be written is asked.
LEMMA RequestCalls ==
  ASSUME Inv, NEW size \in Sizes, Request(size)
  PROVE  Calls!Next
<1>1. PICK n \in Requests :
        /\ NextRequest(n)
        /\ call' = [Idle EXCEPT !.phase = "write", !.n = n, !.left = Frame(n, size, TRUE)]
        /\ UNCHANGED <<results, served>>
  BY DEF Request
<1>2. call'.n = n
  BY <1>1 DEF Idle
<1>3. call.n = 0 /\ Calls!NextRequest(n)
  BY <1>1, IdleStatus
<1>4. Status' = [Status EXCEPT ![n] = "pending"]
  <2>1. \A m \in Requests : call.n # m /\ results'[m] = results[m]
    BY <1>1, <1>3, WireAssumption DEF Requests
  <2>2. \A m \in Requests : Status'[m] = IF m = n THEN "pending" ELSE Status[m]
    BY <1>2, <2>1 DEF Status
  <2> QED
    BY <2>2 DEF Status
<1> QED
  BY <1>1, <1>3, <1>4 DEF Calls!Next, Calls!Ask, Calls!Requests, Requests

\* A request beyond the limit is refused.
LEMMA TooLargeCalls ==
  ASSUME Inv, NEW size \in Sizes, RequestTooLarge(size)
  PROVE  Calls!Next
<1>1. PICK n \in Requests :
        /\ NextRequest(n)
        /\ Return(n, Failed, <<>>)
        /\ UNCHANGED served
  BY DEF RequestTooLarge
<1>2. call.n = 0 /\ Calls!NextRequest(n)
  BY <1>1, IdleStatus
<1>3. Status' = [Status EXCEPT ![n] = "failed"]
  BY <1>1, <1>2, CallFails DEF Return
<1> QED
  BY <1>1, <1>2, <1>3 DEF Calls!Next, Calls!Refuse, Calls!Requests, Requests

\* A call that returns an error fails.
LEMMA FailureCalls ==
  ASSUME Inv, call.phase # "idle",
         call' = Idle, results' = [results EXCEPT ![call.n] = Failed], UNCHANGED served
  PROVE  Calls!Next
<1>1. call.n \in Requests
  BY DEF Inv, CallFits
<1>2. Status' = [Status EXCEPT ![call.n] = "failed"]
  BY <1>1, CallFails
<1>3. Status[call.n] = "pending"
  BY <1>1 DEF Status
<1> QED
  BY <1>1, <1>2, <1>3 DEF Calls!Next, Calls!Fail, Calls!Pending, Calls!Requests, Requests

\* A header fails the call, or only goes on with it.
LEMMA ReadHeaderCalls ==
  ASSUME Inv, ReadHeader
  PROVE  Calls!Next \/ UNCHANGED Calls!vars
<1>1. call.phase = "header" /\ UNCHANGED served
  BY DEF ReadHeader
<1>2. CASE Return(call.n, Failed, <<>>)
  BY <1>1, <1>2, FailureCalls DEF Return
<1>3. CASE UNCHANGED results /\ call'.n = call.n
  BY <1>1, <1>3, CallStutters
<1>4. \/ Return(call.n, Failed, <<>>)
      \/ UNCHANGED results /\ call'.n = call.n
  <2>1. \/ Return(call.n, Failed, <<>>)
        \/ \E got : GoOn([call EXCEPT !.got = got])
        \/ \E size : GoOn([call EXCEPT !.phase = "payload", !.got = <<>>, !.size = size])
    BY DEF ReadHeader
  <2> QED
    BY <2>1 DEF GoOn, Inv, TypeOK
<1> QED
  BY <1>2, <1>3, <1>4

\* A payload that was read whole answers or fails the call.
LEMMA ReadPayloadCalls ==
  ASSUME Inv, ReadPayload
  PROVE  Calls!Next \/ UNCHANGED Calls!vars
<1> DEFINE n == call.n
           got == Append(call.got, Head(down))
<1>1. /\ call.phase = "payload" /\ UNCHANGED served
      /\ n \in Requests /\ n \in served /\ results[n] = None
  BY DEF ReadPayload, Inv, CallFits, AwaitingPayload
<1>2. CASE Len(got) < call.size
  <2>1. UNCHANGED results /\ call'.n = n
    BY <1>2 DEF ReadPayload, GoOn, Inv, TypeOK
  <2> QED
    BY <1>1, <2>1, CallStutters
<1>3. CASE ~(Len(got) < call.size)
  <2>1. Return(n, Decode(got, call.size), Tail(down))
    BY <1>3 DEF ReadPayload
  <2>2. Decode(got, call.size) \in {n, Failed}
    <3>1. PICK first \in Nat : Replying(first, call.size) /\ call.size \in Sizes
      <4>1. HeaderSize + 1 \in Nat /\ call.size \in Sizes
        BY WireAssumption DEF Inv, TypeOK, Sizes
      <4> QED
        BY <1>1, <4>1 DEF Inv, CallFits, AwaitingPayload
    <3>2. down # <<>>
      BY DEF ReadPayload
    <3>3. got \in Seq(Units) /\ Len(got) = Len(call.got) + 1 /\ OfFrame(got, n, call.size)
      BY <3>1, <3>2, ReadOn
    <3>4. Len(call.got) \in Nat
      BY DEF Inv, TypeOK
    <3>5. 1 \in DOMAIN got
      BY <3>3, <3>4
    <3> QED
      BY <3>3, <3>5 DEF OfFrame, Decode
  <2>3. CASE Decode(got, call.size) = Failed
    BY <1>1, <2>1, <2>3, FailureCalls DEF Return
  <2>4. CASE Decode(got, call.size) = n
    <3>1. call' = Idle /\ results' = [results EXCEPT ![n] = n]
      BY <2>1, <2>4 DEF Return
    <3>2. \A m \in Requests : results'[m] = IF m = n THEN n ELSE results[m]
      BY <3>1 DEF Inv, TypeOK
    <3>3. n # None /\ \A m \in Requests : m # 0
      BY <1>1, WireAssumption DEF Requests
    <3>4. Status' = [Status EXCEPT ![n] = "answered"]
      BY <1>1, <3>1, <3>2, <3>3 DEF Status, Idle
    <3>5. Status[n] = "pending"
      BY <1>1 DEF Status
    <3> QED
      BY <1>1, <3>4, <3>5 DEF Calls!Next, Calls!Answer, Calls!Pending, Calls!Requests, Requests
  <2> QED
    BY <2>2, <2>3, <2>4
<1> QED
  BY <1>2, <1>3

\* Greetd carries out a request that is pending or has failed, for the first time.
LEMMA ServeCalls ==
  ASSUME Inv, NEW c \in Connections, Serve(c)
  PROVE  Calls!Next
<1> DEFINE n == up[c][1].of
<1>1. served' = served \cup {n} /\ UNCHANGED <<call, results>> /\ HasFrame(up[c])
  BY DEF Serve
<1>2. up[c] # <<>> /\ n \in Requests
  <2>1. up[c] \in Seq(Units)
    BY DEF Inv, TypeOK
  <2>2. up[c] # <<>>
    BY <1>1, <2>1, WireAssumption DEF HasFrame
  <2> QED
    BY <2>1, <2>2, HeadUnit DEF Units
<1>3. n \notin served /\ (n = call.n \/ results[n] = Failed)
  BY <1>2 DEF Inv, UpFits
<1>4. Status[n] \in {"pending", "failed"}
  <2>1. Failed # None /\ Failed # n
    BY <1>2, WireAssumption DEF Requests
  <2> QED
    BY <1>2, <1>3, <2>1 DEF Status
<1>5. Status' = Status
  BY <1>1 DEF Status
<1> QED
  BY <1>1, <1>2, <1>3, <1>4, <1>5 DEF Calls!Next, Calls!Serve, Calls!Requests, Requests

\* Every step of the client and of greetd is one of the abstract calls, or none.
LEMMA CallsStep ==
  ASSUME Inv, [Next]_vars
  PROVE  [Calls!Next]_(Calls!vars)
<1>1. CASE \E size \in Sizes \ {0} : Request(size)
  BY <1>1, RequestCalls
<1>2. CASE \E size \in Sizes \ {0} : RequestTooLarge(size)
  BY <1>2, TooLargeCalls
<1>3. CASE ReadHeader
  BY <1>3, ReadHeaderCalls
<1>4. CASE ReadPayload
  BY <1>4, ReadPayloadCalls
<1>5. CASE Broken \/ Interrupted
  <2>1. call.phase # "idle"
    BY <1>5 DEF Broken, Interrupted, Inv, CallFits
  <2> QED
    BY <1>5, <2>1, FailureCalls DEF Broken, Interrupted, Return
<1>6. CASE \E c \in Connections : Serve(c)
  BY <1>6, ServeCalls
<1>7. CASE \/ Connect \/ DropConnection \/ Write
           \/ \E c \in Connections : HangUp(c)
           \/ Rest \/ UNCHANGED vars
  <2>1. call'.n = call.n /\ UNCHANGED <<results, served>>
    BY <1>7 DEF Connect, DropConnection, Write, HangUp, Rest, vars, Inv, TypeOK
  <2> QED
    BY <2>1, CallStutters
<1> QED
  BY <1>1, <1>2, <1>3, <1>4, <1>5, <1>6, <1>7 DEF Next, Client, Greetd

\* The client implements the calls the actor relies on: whatever is interrupted,
\* times out, is cut short or is malformed, a call that succeeds returned the
\* response to its own request, and greetd carried no request out twice.
THEOREM WireImplementsCalls == Spec => ImplementsCalls
<1>1. Init => Calls!Init
  BY DEF Init, Calls!Init, Status, Idle, Calls!Requests, Requests
<1>2. Inv /\ [Next]_vars => [Calls!Next]_(Calls!vars)
  BY CallsStep
<1> QED
  BY <1>1, <1>2, InvHolds, PTL DEF Spec, ImplementsCalls, Calls!Spec
=============================================================================
