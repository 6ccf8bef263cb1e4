----------------------------- MODULE GreetdWire ------------------------------
(***************************************************************************)
(* The greetd client (greetd.rs) on a stream socket, with the rule of the  *)
(* authentication actor that a connection whose call failed is dropped.    *)
(*                                                                         *)
(* A frame is HeaderSize units that hold the size of the payload, then the *)
(* payload.  A unit says where it comes from, which only a ghost may know: *)
(* the client reads a header or a payload from whatever arrives next, and  *)
(* a read that mixes frames yields garbage.                                *)
(***************************************************************************)
EXTENDS Naturals, Sequences

CONSTANTS
  MaxRequests,      \* bounds the requests made
  HeaderSize,       \* bytes of the length prefix
  MaxFrame,         \* MAX_FRAME_SIZE
  None, Failed      \* no result yet; an error

ASSUME WireAssumption ==
  /\ MaxRequests \in Nat
  /\ HeaderSize \in Nat \ {0}
  /\ MaxFrame \in Nat
  /\ None # Failed
  /\ {None, Failed} \cap Nat = {}

Requests == 1..MaxRequests

\* A connection is named by the first request that may be made on it.
Connections == Requests

VARIABLES
  conn,      \* the client's connection, or 0
  call,      \* the call that is being made
  results,   \* what each call returned
  up,        \* units sent to greetd, by connection
  down,      \* units greetd sent on `conn`; what it sends on a closed one is lost
  hungup,    \* connections greetd has closed
  served     \* ghost: requests greetd has carried out

vars == <<conn, call, results, up, down, hungup, served>>

Sizes == 0..(MaxFrame + 1)

Frame(n, size, sound) ==
  [i \in 1..(HeaderSize + size) |-> [of |-> n, at |-> i, size |-> size, sound |-> sound]]

Idle == [phase |-> "idle", n |-> 0, left |-> <<>>, got |-> <<>>, size |-> 0]

Init ==
  /\ conn = 0
  /\ call = Idle
  /\ results = [n \in Requests |-> None]
  /\ up = [c \in Connections |-> <<>>]
  /\ down = <<>>
  /\ hungup = {}
  /\ served = {}

NextRequest(n) ==
  /\ call = Idle
  /\ \A m \in Requests : results[m] = None <=> m >= n

-----------------------------------------------------------------------------
(* The client.                                                             *)

Connect ==
  \E n \in Requests :
    /\ conn = 0
    /\ NextRequest(n)
    /\ conn' = n
    /\ down' = <<>>
    /\ UNCHANGED <<call, results, up, hungup, served>>

\* The attempt ends, or is about to connect again.
DropConnection ==
  /\ conn # 0
  /\ call = Idle
  /\ conn' = 0
  /\ down' = <<>>
  /\ UNCHANGED <<call, results, up, hungup, served>>

\* The call returns, `rest` is left unread; with an error, the actor drops the
\* connection.
Return(n, result, rest) ==
  /\ call' = Idle
  /\ results' = [results EXCEPT ![n] = result]
  /\ conn' = IF result = Failed THEN 0 ELSE conn
  /\ down' = IF result = Failed THEN <<>> ELSE rest

Request(size) ==
  \E n \in Requests :
    /\ conn # 0
    /\ NextRequest(n)
    /\ size <= MaxFrame
    /\ call' = [Idle EXCEPT !.phase = "write", !.n = n, !.left = Frame(n, size, TRUE)]
    /\ UNCHANGED <<conn, results, up, down, hungup, served>>

RequestTooLarge(size) ==
  \E n \in Requests :
    /\ conn # 0
    /\ NextRequest(n)
    /\ size > MaxFrame
    /\ Return(n, Failed, <<>>)
    /\ UNCHANGED <<up, hungup, served>>

\* write_all makes progress.
Write ==
  /\ call.phase = "write"
  /\ conn \notin hungup
  /\ up' = [up EXCEPT ![conn] = Append(@, Head(call.left))]
  /\ call' = [call EXCEPT !.left = Tail(@),
                          !.phase = IF Len(call.left) = 1 THEN "header" ELSE "write"]
  /\ UNCHANGED <<conn, results, down, hungup, served>>

\* The units are one header, or one payload, from its first unit to its last.
Whole(units, first, size) ==
  /\ Len(units) = size
  /\ \A i \in DOMAIN units : units[i].at = first + i - 1 /\ units[i].of = units[1].of

\* What a header may say: a garbled one may say anything.
SizesRead(units) ==
  IF Whole(units, 1, HeaderSize) THEN {units[1].size} ELSE Sizes

\* serde_json::from_slice: an empty or garbled payload is no reply.
Decode(units, size) ==
  IF size > 0 /\ Whole(units, HeaderSize + 1, size) /\ units[1].sound
  THEN units[1].of
  ELSE Failed

\* A call goes on with what it has read so far.
GoOn(next) ==
  /\ call' = next
  /\ down' = Tail(down)
  /\ UNCHANGED <<conn, results>>

\* (fault) the size is not compared with the limit
ReadHeaderOfAnySize ==
  LET got == Append(call.got, Head(down)) IN
  /\ call.phase = "header"
  /\ down # <<>>
  /\ IF Len(got) < HeaderSize
     THEN GoOn([call EXCEPT !.got = got])
     ELSE \E size \in SizesRead(got) :
            IF size = 0
            THEN Return(call.n, Failed, <<>>)
            ELSE GoOn([call EXCEPT !.phase = "payload", !.got = <<>>, !.size = size])
  /\ UNCHANGED <<up, hungup, served>>

\* The size is checked before the buffer of the payload is allocated.
ReadHeader ==
  LET got == Append(call.got, Head(down)) IN
  /\ call.phase = "header"
  /\ down # <<>>
  /\ IF Len(got) < HeaderSize
     THEN GoOn([call EXCEPT !.got = got])
     ELSE \E size \in SizesRead(got) :
            IF size > MaxFrame \/ size = 0
            THEN Return(call.n, Failed, <<>>)
            ELSE GoOn([call EXCEPT !.phase = "payload", !.got = <<>>, !.size = size])
  /\ UNCHANGED <<up, hungup, served>>

ReadPayload ==
  LET got == Append(call.got, Head(down)) IN
  /\ call.phase = "payload"
  /\ down # <<>>
  /\ IF Len(got) < call.size
     THEN GoOn([call EXCEPT !.got = got])
     ELSE Return(call.n, Decode(got, call.size), Tail(down))
  /\ UNCHANGED <<up, hungup, served>>

\* greetd closed the connection: the write fails, or the response is truncated.
Broken ==
  /\ call # Idle
  /\ conn \in hungup
  /\ call.phase = "write" \/ down = <<>>
  /\ Return(call.n, Failed, <<>>)
  /\ UNCHANGED <<up, hungup, served>>

\* (fault) the connection is used again after an interruption
InterruptedReuses ==
  /\ call # Idle
  /\ call' = Idle
  /\ results' = [results EXCEPT ![call.n] = Failed]
  /\ UNCHANGED <<conn, up, down, hungup, served>>

\* (fault) the wait for a header has no limit
InterruptedExceptHeader ==
  /\ call.phase \in {"write", "payload"}
  /\ Return(call.n, Failed, <<>>)
  /\ UNCHANGED <<up, hungup, served>>

\* The attempt's token is cancelled, or a write or read takes too long.
Interrupted ==
  /\ call # Idle
  /\ Return(call.n, Failed, <<>>)
  /\ UNCHANGED <<up, hungup, served>>

-----------------------------------------------------------------------------
(* greetd.                                                                 *)

HasFrame(units) ==
  /\ Len(units) >= HeaderSize
  /\ Whole(SubSeq(units, 1, HeaderSize), 1, HeaderSize)
  /\ Len(units) >= HeaderSize + units[1].size

\* greetd carries out a request it has received whole, also when its client has
\* gone, and answers: with a reply, or with what the tests of the client send, a
\* payload that is no reply, a size beyond the limit, a frame cut short.
Serve(c) ==
  /\ c \notin hungup
  /\ HasFrame(up[c])
  /\ LET n == up[c][1].of IN
     /\ served' = served \cup {n}
     /\ up' = [up EXCEPT ![c] = SubSeq(@, HeaderSize + @[1].size + 1, Len(@))]
     /\ \E size \in Sizes, sound \in BOOLEAN, cut \in 0..(HeaderSize + MaxFrame + 1) :
          LET reply == Frame(n, size, sound) IN
          /\ cut <= Len(reply)
          /\ down' = IF c = conn THEN down \o SubSeq(reply, 1, Len(reply) - cut) ELSE down
          /\ hungup' = IF cut > 0 THEN hungup \cup {c} ELSE hungup
  /\ UNCHANGED <<conn, call, results>>

\* greetd stops, or closes an idle connection.
HangUp(c) ==
  /\ c \notin hungup
  /\ hungup' = hungup \cup {c}
  /\ UNCHANGED <<conn, call, results, up, down, served>>

Rest ==
  /\ call = Idle
  /\ UNCHANGED vars

Client ==
  \/ Connect \/ DropConnection
  \/ \E size \in Sizes \ {0} : Request(size) \/ RequestTooLarge(size)
  \/ Write \/ ReadHeader \/ ReadPayload \/ Broken \/ Interrupted

Greetd == \E c \in Connections : Serve(c) \/ HangUp(c)

Next == Client \/ Greetd \/ Rest

\* Every write and read has a time limit.
Spec == Init /\ [][Next]_vars /\ WF_vars(Interrupted)

-----------------------------------------------------------------------------
(* Properties.                                                             *)

Units ==
  [of : Requests, at : 1..(HeaderSize + MaxFrame + 1), size : Sizes, sound : BOOLEAN]

\* Every variable has its type; the buffer of a payload is within the limit.
TypeOK ==
  /\ conn \in Connections \cup {0}
  /\ call \in [phase : {"idle", "write", "header", "payload"}, n : Requests \cup {0},
               left : Seq(Units), got : Seq(Units), size : 0..MaxFrame]
  /\ results \in [Requests -> Requests \cup {None, Failed}]
  /\ up \in [Connections -> Seq(Units)]
  /\ down \in Seq(Units)
  /\ hungup \subseteq Connections
  /\ served \subseteq Requests

\* What a caller knows of a request; an answer to another request is no status.
Status ==
  [n \in Requests |->
     IF call.n = n THEN "pending"
     ELSE IF results[n] = None THEN "unsent"
     ELSE IF results[n] = n THEN "answered"
     ELSE IF results[n] = Failed THEN "failed"
     ELSE "mispaired"]

Calls == INSTANCE GreetdCalls WITH status <- Status

\* Over any interleaving of partial writes and reads, cancellations, time-outs,
\* malformed and late responses and reconnections, a call that succeeds returns
\* the response to its own request, which greetd carried out once (the contract in
\* the comment of GreetdClient::request).
ImplementsCalls == Calls!Spec

\* Every call returns, whatever greetd does: each wait of a request is bounded.
CallsReturn == call # Idle ~> call = Idle
=============================================================================
