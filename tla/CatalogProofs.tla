--------------------------- MODULE CatalogProofs ----------------------------
(***************************************************************************)
(* The lists of login users and of sessions are right for any number of    *)
(* concurrent queries, accounts, files, programs and changes.              *)
(*                                                                         *)
(* The part on sessions has three steps: what an author writes down is     *)
(* read as it was meant, whatever the characters; what was found is sorted *)
(* without loss; and no interleaving of a scan with changes of the host    *)
(* loses, invents or doubles a session.                                    *)
(***************************************************************************)
EXTENDS Catalogs, FiniteSetTheorems, SequenceTheorems, WellFoundedInduction, TLAPS

\* The loops of the catalog.
Unescaping == INSTANCE FoldProofs WITH Step <- UnescapeStep
Tokenizing == INSTANCE FoldProofs WITH Step <- TokenizeStep
Parsing == INSTANCE FoldProofs WITH Step <- ParseLine
Sorting == INSTANCE FoldProofs WITH Step <- InsertSession

-----------------------------------------------------------------------------
(* Login users: the inductive invariant.                                    *)

Query ==
  [at : {"idle", "connect", "connecting", "list", "read"}, conn : Nat,
   pending : SUBSET Accounts, users : SUBSET Accounts, outcome : {"none", "ok", "failed"}]

\* The types, and the lock of the shared connection.
Shared ==
  /\ made \in Nat
  /\ cached \in 0..made
  /\ open \subseteq 1..made
  /\ query \in [Queries -> Query]
  /\ accounts \in [Accounts -> Kinds]
  /\ up \in BOOLEAN
  /\ trouble \subseteq Queries
  /\ always \in [Queries -> SUBSET Accounts]
  /\ ever \in [Queries -> SUBSET Accounts]
  /\ lock = {} \/ \E q \in Queries : lock = {q}
  /\ \A q \in Queries :
       /\ query[q].at = "connecting" <=> q \in lock
       /\ query[q].conn \in 0..made
       /\ query[q].at \in {"list", "read"} => query[q].conn # 0

\* What goes wrong is noticed by every query that runs.
TroubleNoted(q) ==
  query[q].at # "idle" =>
    /\ query[q].outcome = "none"
    /\ up \/ q \in trouble
    /\ query[q].at \in {"list", "read"} => query[q].conn \in open \/ q \in trouble

\* A query has read, or has yet to read, every account that was a login user all
\* the time, and what it kept was a login user at some time.
ReadingSound(q) ==
  query[q].at # "idle" =>
    /\ always[q] \subseteq LoginUsers
    /\ LoginUsers \subseteq ever[q]
    /\ query[q].users \subseteq ever[q]
    /\ query[q].at = "read" =>
         \/ q \in trouble
         \/ always[q] \subseteq query[q].users \cup query[q].pending

UserInv ==
  /\ Shared
  /\ \A q \in Queries : TroubleNoted(q) /\ ReadingSound(q)

-----------------------------------------------------------------------------
(* Every step keeps the invariant.                                          *)

\* Nothing runs at first.
LEMMA UserInvInit ==
  ASSUME UserInit
  PROVE  UserInv
<1>1. Shared
  BY DEF UserInit, Shared, Query, Asleep
<1>2. \A q \in Queries : TroubleNoted(q) /\ ReadingSound(q)
  BY DEF UserInit, TroubleNoted, ReadingSound, Asleep
<1> QED
  BY <1>1, <1>2 DEF UserInv

\* A query that begins, or is over, has nothing to answer for.
LEMMA ListInv ==
  ASSUME UserInv, NEW q \in Queries, List(q)
  PROVE  UserInv'
<1> DEFINE next == [Asleep EXCEPT !.at = "connect"]
<1>1. /\ query[q].at = "idle"
      /\ query' = [query EXCEPT ![q] = next]
      /\ trouble' = IF up THEN trouble ELSE trouble \cup {q}
      /\ always' = [always EXCEPT ![q] = LoginUsers]
      /\ ever' = [ever EXCEPT ![q] = LoginUsers]
      /\ UNCHANGED <<cached, open, made, lock, accounts, up>>
  BY DEF List, Move, busVars, accountVars
<1>2. /\ next \in Query /\ next.at = "connect" /\ next.conn = 0
      /\ next.outcome = "none" /\ next.users = {}
  BY DEF Query, Asleep
<1> HIDE DEF next
<1>3. /\ query'[q] = next /\ always'[q] = LoginUsers /\ ever'[q] = LoginUsers
      /\ \A p \in Queries : p # q =>
           query'[p] = query[p] /\ always'[p] = always[p] /\ ever'[p] = ever[p]
  BY <1>1 DEF UserInv, Shared
<1>4. LoginUsers' = LoginUsers /\ LoginUsers \subseteq Accounts
  BY <1>1 DEF LoginUsers
<1>5. Shared'
  BY <1>1, <1>2, <1>3, <1>4 DEF UserInv, Shared
<1>6. \A p \in Queries : TroubleNoted(p)'
  BY <1>1, <1>2, <1>3 DEF UserInv, TroubleNoted
<1>7. \A p \in Queries : ReadingSound(p)'
  BY <1>1, <1>2, <1>3, <1>4 DEF UserInv, ReadingSound
<1> QED
  BY <1>5, <1>6, <1>7 DEF UserInv

\* A query that is over gives the lock back, and nothing is noted of it any more.
LEMMA AnswerInv ==
  ASSUME UserInv, NEW q \in Queries, NEW users \in SUBSET Accounts,
         NEW outcome \in {"ok", "failed"},
         Answer(q, outcome, users), lock' = lock \ {q}, UNCHANGED <<cached, open, made>>
  PROVE  UserInv'
<1> DEFINE next == [Asleep EXCEPT !.outcome = outcome, !.users = users]
<1>1. /\ query' = [query EXCEPT ![q] = next]
      /\ trouble' = trouble \ {q}
      /\ always' = [always EXCEPT ![q] = {}]
      /\ ever' = [ever EXCEPT ![q] = {}]
      /\ UNCHANGED <<accounts, up>>
  BY DEF Answer, Move, accountVars
<1>2. next \in Query /\ next.at = "idle" /\ next.conn = 0
  BY DEF Query, Asleep
<1> HIDE DEF next
<1>3. /\ query'[q] = next
      /\ \A p \in Queries : p # q =>
           query'[p] = query[p] /\ always'[p] = always[p] /\ ever'[p] = ever[p]
  BY <1>1 DEF UserInv, Shared
<1>4. LoginUsers' = LoginUsers
  BY <1>1 DEF LoginUsers
<1>5. Shared'
  BY <1>1, <1>2, <1>3 DEF UserInv, Shared
<1>6. \A p \in Queries : TroubleNoted(p)'
  BY <1>1, <1>2, <1>3 DEF UserInv, TroubleNoted
<1>7. \A p \in Queries : ReadingSound(p)'
  BY <1>1, <1>2, <1>3, <1>4 DEF UserInv, ReadingSound
<1> QED
  BY <1>5, <1>6, <1>7 DEF UserInv

\* A query goes on; other queries are not concerned.
LEMMA MoveInv ==
  ASSUME UserInv, NEW q \in Queries, NEW next \in Query, Move(q, next),
         query[q].at # "idle", next.at # "idle", next.outcome = "none",
         made' \in Nat, made <= made', cached' \in 0..made',
         open' \subseteq 1..made', open \subseteq open',
         next.conn \in 0..made',
         next.at \in {"list", "read"} => next.conn # 0 /\ (next.conn \in open' \/ q \in trouble),
         lock' = IF next.at = "connecting" THEN {q} ELSE lock \ {q},
         next.at = "connecting" => lock = {},
         next.users \subseteq ever[q],
         next.at = "read" => q \in trouble \/ always[q] \subseteq next.users \cup next.pending,
         UNCHANGED <<accounts, up, trouble, always, ever>>
  PROVE  UserInv'
<1>1. query' = [query EXCEPT ![q] = next]
  BY DEF Move
<1>2. query'[q] = next /\ \A p \in Queries : p # q => query'[p] = query[p]
  BY <1>1 DEF UserInv, Shared
<1>3. LoginUsers' = LoginUsers
  BY DEF LoginUsers
<1>4. Shared'
  BY <1>1, <1>2 DEF UserInv, Shared
<1>5. \A p \in Queries : TroubleNoted(p)'
  BY <1>2 DEF UserInv, TroubleNoted
<1>6. \A p \in Queries : ReadingSound(p)'
  BY <1>2, <1>3 DEF UserInv, ReadingSound
<1> QED
  BY <1>4, <1>5, <1>6 DEF UserInv

\* The connection: it is shared as long as it is open.
LEMMA ConnectingInv ==
  ASSUME UserInv, NEW q \in Queries, Reuse(q) \/ Connect(q) \/ Connected(q) \/ ConnectFails(q)
  PROVE  UserInv'
<1>1. CASE Reuse(q)
  <2> DEFINE next == [query[q] EXCEPT !.at = "list", !.conn = cached]
  <2>1. /\ query[q].at = "connect" /\ lock = {} /\ cached \in open /\ Move(q, next)
        /\ UNCHANGED <<cached, open, made, lock, accounts, up, trouble, always, ever>>
    BY <1>1 DEF Reuse, busVars, accountVars, noteVars
  <2>2. query[q] \in Query /\ cached \in Nat
    BY DEF UserInv, Shared
  <2>3. next \in Query /\ next.at = "list" /\ next.conn = cached /\ next.outcome = query[q].outcome
        /\ next.users = query[q].users
    BY <2>2 DEF Query
  <2> HIDE DEF next
  <2> QED
    BY <2>1, <2>3, MoveInv DEF UserInv, Shared, TroubleNoted, ReadingSound
<1>2. CASE Connect(q)
  <2> DEFINE next == [query[q] EXCEPT !.at = "connecting"]
  <2>1. /\ query[q].at = "connect" /\ lock = {} /\ cached' = 0 /\ lock' = {q} /\ Move(q, next)
        /\ UNCHANGED <<open, made, accounts, up, trouble, always, ever>>
    BY <1>2 DEF Connect, accountVars, noteVars
  <2>2. query[q] \in Query
    BY DEF UserInv, Shared
  <2>3. /\ next \in Query /\ next.at = "connecting"
        /\ next.conn = query[q].conn /\ next.outcome = query[q].outcome
        /\ next.users = query[q].users
    BY <2>2 DEF Query
  <2> HIDE DEF next
  <2> QED
    BY <2>1, <2>3, MoveInv DEF UserInv, Shared, TroubleNoted, ReadingSound
<1>3. CASE Connected(q)
  <2> DEFINE next == [query[q] EXCEPT !.at = "list", !.conn = made']
  <2>1. /\ query[q].at = "connecting" /\ made' = made + 1 /\ open' = open \cup {made'}
        /\ cached' = made' /\ lock' = {} /\ Move(q, next)
        /\ UNCHANGED <<accounts, up, trouble, always, ever>>
    BY <1>3 DEF Connected, accountVars, noteVars
  <2>2. query[q] \in Query /\ made \in Nat /\ lock = {q} /\ query[q].outcome = "none"
    BY <2>1 DEF UserInv, Shared, TroubleNoted
  <2>3. next \in Query /\ next.at = "list" /\ next.conn = made' /\ next.outcome = query[q].outcome
        /\ next.users = query[q].users
    <3>1. made' \in Nat
      BY <2>1, <2>2
    <3> HIDE <2>1
    <3> QED
      BY <2>2, <3>1 DEF Query
  <2> HIDE DEF next
  <2>4. open \subseteq 1..made
    BY DEF UserInv, Shared
  <2> QED
    BY <2>1, <2>2, <2>3, <2>4, MoveInv DEF UserInv, ReadingSound
<1>4. CASE ConnectFails(q)
  <2>1. query[q].at = "connecting" /\ lock' = {} /\ Answer(q, "failed", {})
        /\ UNCHANGED <<cached, open, made>>
    BY <1>4 DEF ConnectFails
  <2>2. lock = {q}
    BY <2>1 DEF UserInv, Shared
  <2> QED
    BY <2>1, <2>2, AnswerInv
<1> QED
  BY <1>1, <1>2, <1>3, <1>4

\* Reading: an account that cannot be read although it was a login user all the
\* time is one that the query has noted trouble for.
LEMMA ReadingInv ==
  ASSUME UserInv, NEW q \in Queries, Listed(q) \/ ListFails(q) \/ ReadUser(q) \/ AllRead(q)
  PROVE  UserInv'
<1>0. query[q] \in Query /\ query[q].conn \in 0..made /\ made \in Nat
  BY DEF UserInv, Shared
<1>1. CASE Listed(q)
  <2> DEFINE next == [query[q] EXCEPT !.at = "read", !.pending = Accounts]
  <2>1. /\ query[q].at = "list" /\ query[q].conn \in open /\ Move(q, next)
        /\ UNCHANGED <<cached, open, made, lock, accounts, up, trouble, always, ever>>
    BY <1>1 DEF Listed, busVars, accountVars, noteVars
  <2>2. /\ next \in Query /\ next.at = "read" /\ next.conn = query[q].conn
        /\ next.outcome = query[q].outcome /\ next.pending = Accounts
        /\ next.users = query[q].users
    BY <1>0 DEF Query
  <2> HIDE DEF next
  <2>3. always[q] \subseteq Accounts /\ q \notin lock /\ query[q].outcome = "none"
    BY <2>1 DEF UserInv, Shared, TroubleNoted
  <2>4. cached \in 0..made /\ open \subseteq 1..made /\ query[q].conn # 0
    BY <2>1 DEF UserInv, Shared
  <2> QED
    <3>1. next.users \subseteq ever[q]
      BY <2>1, <2>2 DEF UserInv, ReadingSound
    <3>2. always[q] \subseteq next.users \cup next.pending
      BY <2>2, <2>3
    <3>3. lock \ {q} = lock
      BY <2>3
    <3>4. made' \in Nat /\ made <= made' /\ cached' \in 0..made' /\ open' \subseteq 1..made'
          /\ open \subseteq open' /\ next.conn \in 0..made' /\ next.conn # 0
          /\ next.conn \in open'
      BY <1>0, <2>1, <2>2, <2>4
    <3> QED
      BY <2>1, <2>2, <2>3, <3>1, <3>2, <3>3, <3>4, MoveInv
<1>2. CASE ListFails(q)
  <2>1. query[q].at = "list" /\ Answer(q, "failed", {}) /\ UNCHANGED <<cached, open, made, lock>>
    BY <1>2 DEF ListFails, busVars
  <2>2. q \notin lock
    BY <2>1 DEF UserInv, Shared
  <2> QED
    BY <2>1, <2>2, AnswerInv
<1>3. CASE ReadUser(q)
  <2>1. PICK a \in query[q].pending :
          /\ query[q].at = "read"
          /\ Move(q, [query[q] EXCEPT !.pending = @ \ {a},
                                      !.users = IF query[q].conn \in open /\ up /\ a \in LoginUsers
                                                THEN @ \cup {a} ELSE @])
          /\ UNCHANGED <<cached, open, made, lock, accounts, up, trouble, always, ever>>
    BY <1>3 DEF ReadUser, busVars, accountVars, noteVars
  <2> DEFINE users == IF query[q].conn \in open /\ up /\ a \in LoginUsers
                      THEN query[q].users \cup {a} ELSE query[q].users
             next == [query[q] EXCEPT !.pending = @ \ {a}, !.users = users]
  <2>2. Move(q, next)
    BY <2>1
  <2>3. users \in SUBSET Accounts
    BY <1>0, <2>1 DEF Query
  <2>4. /\ next \in Query /\ next.at = "read" /\ next.conn = query[q].conn
        /\ next.outcome = query[q].outcome
        /\ next.pending = query[q].pending \ {a} /\ next.users = users
    BY <1>0, <2>1, <2>3 DEF Query
  <2> HIDE DEF next
  <2>5. users \subseteq ever[q]
    BY <2>1 DEF UserInv, ReadingSound
  <2>6. q \in trouble \/ always[q] \subseteq users \cup (query[q].pending \ {a})
    BY <2>1 DEF UserInv, ReadingSound, TroubleNoted
  <2> HIDE DEF users
  <2>7. /\ cached \in 0..made /\ open \subseteq 1..made /\ query[q].conn # 0
        /\ q \notin lock /\ query[q].outcome = "none"
        /\ query[q].conn \in open \/ q \in trouble
    BY <2>1 DEF UserInv, Shared, TroubleNoted
  <2> QED
    BY <1>0, <2>1, <2>2, <2>4, <2>5, <2>6, <2>7, MoveInv
<1>4. CASE AllRead(q)
  <2>1. /\ query[q].at = "read" /\ Answer(q, "ok", query[q].users)
        /\ UNCHANGED <<cached, open, made, lock>>
    BY <1>4 DEF AllRead, busVars
  <2>2. q \notin lock
    BY <2>1 DEF UserInv, Shared
  <2>3. query[q].users \in SUBSET Accounts
    BY <1>0 DEF Query
  <2> QED
    BY <2>1, <2>2, <2>3, AnswerInv
<1> QED
  BY <1>1, <1>2, <1>3, <1>4

\* What happens to the bus, the service and the accounts.
LEMMA SurroundingsInv ==
  ASSUME UserInv,
         \/ \E c \in open : BusCloses(c)
         \/ \E a \in Accounts, kind \in Kinds : AccountChanges(a, kind)
         \/ ServiceChanges
         \/ UNCHANGED userVars
  PROVE  UserInv'
<1>1. CASE \E c \in open : BusCloses(c)
  <2>1. PICK c \in open :
          /\ open' = open \ {c}
          /\ trouble' = trouble \cup Running
          /\ UNCHANGED <<cached, made, lock, query, accounts, up, always, ever>>
    BY <1>1 DEF BusCloses
  <2>2. LoginUsers' = LoginUsers
    BY <2>1 DEF LoginUsers
  <2>3. Shared'
    BY <2>1 DEF UserInv, Shared, Running
  <2>4. \A q \in Queries : TroubleNoted(q)' /\ ReadingSound(q)'
    BY <2>1, <2>2 DEF UserInv, TroubleNoted, ReadingSound, Running
  <2> QED
    BY <2>3, <2>4 DEF UserInv
<1>2. CASE \E a \in Accounts, kind \in Kinds : AccountChanges(a, kind)
  <2>1. PICK a \in Accounts, kind \in Kinds :
          /\ accounts' = [accounts EXCEPT ![a] = kind]
          /\ always' = [q \in Queries |-> always[q] \cap LoginUsers']
          /\ ever' = [q \in Queries |-> IF q \in Running THEN ever[q] \cup LoginUsers' ELSE {}]
          /\ UNCHANGED <<cached, open, made, lock, query, up, trouble>>
    BY <1>2 DEF AccountChanges, busVars
  <2>2. LoginUsers' \subseteq Accounts
    BY DEF LoginUsers
  <2>3. Shared'
    BY <2>1, <2>2 DEF UserInv, Shared
  <2>4. \A q \in Queries : TroubleNoted(q)'
    BY <2>1 DEF UserInv, TroubleNoted
  <2>5. \A q \in Queries : ReadingSound(q)'
    <3> SUFFICES ASSUME NEW q \in Queries, query[q].at # "idle"
                 PROVE  ReadingSound(q)'
      BY <2>1 DEF ReadingSound
    <3>1. always'[q] = always[q] \cap LoginUsers' /\ ever'[q] = ever[q] \cup LoginUsers'
      BY <2>1 DEF Running
    <3> QED
      BY <2>1, <3>1 DEF UserInv, ReadingSound
  <2> QED
    BY <2>3, <2>4, <2>5 DEF UserInv
<1>3. CASE ServiceChanges
  <2>1. /\ up' = ~up
        /\ trouble' = trouble \cup Running
        /\ UNCHANGED <<cached, open, made, lock, query, accounts, always, ever>>
    BY <1>3 DEF ServiceChanges, busVars
  <2>2. LoginUsers' = LoginUsers
    BY <2>1 DEF LoginUsers
  <2>3. up' \in BOOLEAN
    BY <2>1, Zenon
  <2>4. Shared'
    BY <2>1, <2>3 DEF UserInv, Shared, Running
  <2>5. \A q \in Queries : TroubleNoted(q)' /\ ReadingSound(q)'
    BY <2>1, <2>2 DEF UserInv, TroubleNoted, ReadingSound, Running
  <2> QED
    BY <2>4, <2>5 DEF UserInv
<1>4. CASE UNCHANGED userVars
  <2>1. UNCHANGED <<cached, open, made, lock, query, accounts, up, trouble, always, ever>>
    BY <1>4 DEF userVars, busVars, accountVars, noteVars
  <2>2. LoginUsers' = LoginUsers
    BY <2>1 DEF LoginUsers
  <2> QED
    BY <2>1, <2>2 DEF UserInv, Shared, TroubleNoted, ReadingSound
<1> QED
  BY <1>1, <1>2, <1>3, <1>4

\* Every step keeps the invariant.
LEMMA UserInvStep ==
  ASSUME UserInv, [UserStep]_userVars
  PROVE  UserInv'
BY ListInv, ConnectingInv, ReadingInv, SurroundingsInv DEF UserStep

\* The bookkeeping of each running query is right.
THEOREM UserInvHolds == UserSpec => []UserInv
<1>1. UserInit => UserInv
  BY UserInvInit
<1>2. UserInv /\ [UserStep]_userVars => UserInv'
  BY UserInvStep
<1> QED
  BY <1>1, <1>2, PTL DEF UserSpec

-----------------------------------------------------------------------------
(* The properties.                                                          *)

\* The invariant contains the types.
LEMMA UserInvTypes == UserInv => UserTypeOK
<1> SUFFICES ASSUME UserInv
             PROVE  UserTypeOK
  OBVIOUS
<1>1. Cardinality(lock) <= 1
  <2>1. lock = {} \/ \E q \in Queries : lock = {q}
    BY DEF UserInv, Shared
  <2>2. Cardinality({}) = 0 /\ \A q \in Queries : Cardinality({q}) = 1
    BY FS_EmptySet, FS_Singleton
  <2> QED
    BY <2>1, <2>2
<1> QED
  BY <1>1 DEF UserInv, Shared, UserTypeOK, Query

\* The lock of the shared connection is held exactly by the query that connects,
\* one at a time (UserCatalog::connection).
THEOREM UserTypes == UserSpec => []UserTypeOK
BY UserInvTypes, UserInvHolds, PTL

\* ListUsers fails only if the bus or AccountsService failed while it ran; else it
\* returns all accounts that were login users all the time, and only accounts that
\* were so at some time, whatever else is broken, replaced or asked meanwhile.
THEOREM UserListSound == UserSpec => UserListIsSound
<1> DEFINE Sound ==
      \A q \in Running :
        /\ query'[q].outcome = "failed" => q \in trouble
        /\ query'[q].outcome = "ok" =>
             /\ query'[q].users \subseteq ever[q]
             /\ q \in trouble \/ always[q] \subseteq query'[q].users
<1>1. UserInv /\ [UserStep]_userVars => [Sound]_userVars
  <2> SUFFICES ASSUME UserInv, UserStep, NEW q \in Queries, query[q].at # "idle",
                      query'[q].outcome # "none"
               PROVE  /\ query'[q].outcome = "failed" => q \in trouble
                      /\ query'[q].outcome = "ok" =>
                           /\ query'[q].users \subseteq ever[q]
                           /\ q \in trouble \/ always[q] \subseteq query'[q].users
    BY DEF Running
  <2>1. query[q] \in Query /\ query[q].outcome = "none" /\ query \in [Queries -> Query]
    BY DEF UserInv, Shared, TroubleNoted
  <2>2. query'[q] # query[q]
    BY <2>1
  <2>3. \A p \in Queries : \A next : p # q /\ Move(p, next) => query'[q] = query[q]
    BY <2>1 DEF Move
  <2>4. \A next : Move(q, next) => query'[q] = next
    BY <2>1 DEF Move
  <2>5. ~(\E p \in Queries : List(p) /\ p = q)
    BY DEF List
  <2>6. ~(Reuse(q) \/ Connect(q) \/ Connected(q) \/ Listed(q) \/ ReadUser(q))
    BY <2>1, <2>4 DEF Reuse, Connect, Connected, Listed, ReadUser, Query
  <2>7. CASE ConnectFails(q) \/ ListFails(q)
    <3>1. query'[q] = [Asleep EXCEPT !.outcome = "failed", !.users = {}]
      BY <2>4, <2>7 DEF ConnectFails, ListFails, Answer
    <3>2. query'[q].outcome = "failed"
      BY <3>1 DEF Asleep
    <3>3. q \in trouble
      BY <2>7 DEF ConnectFails, ListFails, UserInv, TroubleNoted
    <3> QED
      BY <3>2, <3>3
  <2>8. CASE AllRead(q)
    <3>1. query'[q] = [Asleep EXCEPT !.outcome = "ok", !.users = query[q].users]
      BY <2>4, <2>8 DEF AllRead, Answer
    <3>2. query'[q].outcome = "ok" /\ query'[q].users = query[q].users
      BY <3>1 DEF Asleep
    <3> QED
      BY <2>8, <3>2 DEF AllRead, UserInv, ReadingSound
  <2>9. ~(\/ \E c \in open : BusCloses(c)
          \/ \E a \in Accounts, kind \in Kinds : AccountChanges(a, kind)
          \/ ServiceChanges)
    BY <2>2 DEF BusCloses, AccountChanges, ServiceChanges
  <2>10. \A p \in Queries : p # q =>
           ~(\/ List(p) \/ Reuse(p) \/ Connect(p) \/ Connected(p) \/ ConnectFails(p)
             \/ Listed(p) \/ ListFails(p) \/ ReadUser(p) \/ AllRead(p))
    BY <2>2, <2>3 DEF List, Reuse, Connect, Connected, ConnectFails, Listed, ListFails,
                      ReadUser, AllRead, Answer
  <2> QED
    BY <2>5, <2>6, <2>7, <2>8, <2>9, <2>10 DEF UserStep
<1> QED
  BY <1>1, UserInvHolds, PTL DEF UserSpec, UserListIsSound

-----------------------------------------------------------------------------
(* FlattenSeq.                                                              *)

\* The texts that are put together, up to the n-th piece.
Joins(flat, pieces, n) ==
  flat = [i \in 1..n |-> IF i = 1 THEN pieces[i] ELSE flat[i - 1] \o pieces[i]]

\* Sequences can be put one behind the other, with the pieces told apart.
LEMMA JoinExists ==
  ASSUME NEW pieces, NEW n \in Nat
  PROVE  \E flat : Joins(flat, pieces, n)
<1> DEFINE T == {k \in Nat : \E flat : Joins(flat, pieces, k)}
<1>1. 0 \in T
  <2>1. Joins([i \in 1..0 |-> i], pieces, 0)
    BY DEF Joins
  <2> QED
    BY <2>1
<1>2. ASSUME NEW k \in Nat, k \in T
      PROVE  k + 1 \in T
  <2>1. PICK old : Joins(old, pieces, k)
    BY <1>2
  <2> DEFINE last == IF k = 0 THEN pieces[1] ELSE old[k] \o pieces[k + 1]
             new == [i \in 1..(k + 1) |-> IF i = k + 1 THEN last ELSE old[i]]
  <2>2. ASSUME NEW i \in 1..(k + 1)
        PROVE  new[i] = IF i = 1 THEN pieces[i] ELSE new[i - 1] \o pieces[i]
    <3>1. CASE i = k + 1
      <4>1. new[i] = last
        BY <3>1
      <4>2. k # 0 => new[i - 1] = old[k]
        BY <3>1
      <4> HIDE DEF new
      <4> QED
        BY <3>1, <4>1, <4>2
    <3>2. CASE i # k + 1
      <4>1. i \in 1..k
        BY <3>2
      <4>2. old[i] = IF i = 1 THEN pieces[i] ELSE old[i - 1] \o pieces[i]
        BY <2>1, <4>1 DEF Joins
      <4>3. new[i] = old[i] /\ (i # 1 => new[i - 1] = old[i - 1])
        BY <4>1
      <4> HIDE DEF new
      <4> QED
        BY <4>2, <4>3
    <3> QED
      BY <3>1, <3>2
  <2>3. new = [i \in 1..(k + 1) |-> new[i]]
    OBVIOUS
  <2> HIDE DEF new
  <2>4. Joins(new, pieces, k + 1)
    BY <2>2, <2>3 DEF Joins
  <2> QED
    BY <2>4
<1> HIDE DEF T
<1>3. n \in T
  BY <1>1, <1>2, Unescaping!Induction
<1> QED
  BY <1>3 DEF T

\* Where each piece lies within the whole: it begins behind at[k - 1].
Placed(at, whole, pieces, n) ==
  \A k \in 1..n :
    /\ at[k - 1] \in Nat
    /\ at[k] \in 0..Len(whole)
    /\ at[k] = at[k - 1] + Len(pieces[k])
    /\ \A j \in 1..Len(pieces[k]) : whole[at[k - 1] + j] = pieces[k][j]

Lies(at, whole, pieces) ==
  /\ at[0] = 0
  /\ at[Len(pieces)] = Len(whole)
  /\ Placed(at, whole, pieces, Len(pieces))

\* One piece more.
LEMMA PlacedMore ==
  ASSUME NEW C, NEW pieces \in Seq(Seq(C)), NEW k \in Nat, k + 1 \in 1..Len(pieces),
         NEW old \in Seq(C), NEW new, new = old \o pieces[k + 1],
         NEW at, Placed(at, old, pieces, k), at[k] = Len(old), at[k + 1] = Len(new)
  PROVE  new \in Seq(C) /\ Placed(at, new, pieces, k + 1)
<1>1. pieces[k + 1] \in Seq(C)
  OBVIOUS
<1>2. /\ new \in Seq(C)
      /\ Len(new) = Len(old) + Len(pieces[k + 1])
      /\ \A j \in 1..Len(old) : new[j] = old[j]
      /\ \A j \in 1..Len(pieces[k + 1]) : new[Len(old) + j] = pieces[k + 1][j]
      /\ Len(old) \in Nat /\ Len(pieces[k + 1]) \in Nat
  BY <1>1
<1>3. ASSUME NEW i \in 1..k
      PROVE  /\ at[i - 1] \in Nat
             /\ at[i] \in 0..Len(new)
             /\ at[i] = at[i - 1] + Len(pieces[i])
             /\ \A j \in 1..Len(pieces[i]) : new[at[i - 1] + j] = pieces[i][j]
  <2>1. /\ at[i - 1] \in Nat
        /\ at[i] \in 0..Len(old)
        /\ at[i] = at[i - 1] + Len(pieces[i])
        /\ \A j \in 1..Len(pieces[i]) : old[at[i - 1] + j] = pieces[i][j]
    BY DEF Placed
  <2>2. Len(pieces[i]) \in Nat
    <3>1. i \in 1..Len(pieces)
      OBVIOUS
    <3> QED
      BY <3>1
  <2> DEFINE from == at[i - 1]
             to == at[i]
             size == Len(pieces[i])
  <2>4. from \in Nat /\ to \in Nat /\ size \in Nat /\ to = from + size /\ to <= Len(old)
    BY <1>2, <2>1, <2>2
  <2>3. ASSUME NEW j \in 1..Len(pieces[i])
        PROVE  new[at[i - 1] + j] = pieces[i][j]
    <3>1. from + j \in 1..Len(old)
      <4>1. j \in Nat /\ 1 <= j /\ j <= size
        BY <2>2
      <4> HIDE DEF from, to, size
      <4> QED
        BY <1>2, <2>4, <4>1
    <3> QED
      BY <1>2, <2>1, <3>1
  <2>5. to \in 0..Len(new)
    <3> HIDE DEF from, to, size
    <3> QED
      BY <1>2, <2>4
  <2> QED
    BY <2>1, <2>3, <2>5
<1>4. /\ at[k] \in Nat
      /\ at[k + 1] \in 0..Len(new)
      /\ at[k + 1] = at[k] + Len(pieces[k + 1])
      /\ \A j \in 1..Len(pieces[k + 1]) : new[at[k] + j] = pieces[k + 1][j]
  BY <1>2
<1>5. \A i \in 1..(k + 1) : i \in 1..k \/ (i = k + 1 /\ i - 1 = k)
  OBVIOUS
<1>6. Placed(at, new, pieces, k + 1)
  <2> SUFFICES ASSUME NEW i \in 1..(k + 1)
               PROVE  /\ at[i - 1] \in Nat
                      /\ at[i] \in 0..Len(new)
                      /\ at[i] = at[i - 1] + Len(pieces[i])
                      /\ \A j \in 1..Len(pieces[i]) : new[at[i - 1] + j] = pieces[i][j]
    BY DEF Placed
  <2>1. CASE i \in 1..k
    BY <1>3, <2>1
  <2>2. CASE i = k + 1 /\ i - 1 = k
    BY <1>4, <2>2
  <2> QED
    BY <1>5, <2>1, <2>2
<1> QED
  BY <1>2, <1>6

\* What is flattened has the pieces one behind the other.
LEMMA Flattened ==
  ASSUME NEW C, NEW pieces \in Seq(Seq(C))
  PROVE  /\ FlattenSeq(pieces) \in Seq(C)
         /\ \E at : Lies(at, FlattenSeq(pieces), pieces)
<1> DEFINE n == Len(pieces)
<1>1. CASE n = 0
  <2>1. FlattenSeq(pieces) = <<>>
    BY <1>1 DEF FlattenSeq
  <2>2. Lies([k \in 0..0 |-> 0], <<>>, pieces)
    BY <1>1 DEF Lies, Placed
  <2> QED
    BY <2>1, <2>2
<1>2. CASE n # 0
  <2> DEFINE flat == CHOOSE flat : Joins(flat, pieces, n)
             text(k) == IF k = 0 THEN <<>> ELSE flat[k]
             at == [k \in 0..n |-> Len(text(k))]
             T == {k \in Nat : k <= n => text(k) \in Seq(C) /\ Placed(at, text(k), pieces, k)}
  <2>1. n \in Nat
    OBVIOUS
  <2>2. Joins(flat, pieces, n)
    BY <2>1, JoinExists, Zenon
  <2>3. FlattenSeq(pieces) = flat[n]
    BY <1>2, Zenon DEF FlattenSeq, Joins
  <2> HIDE DEF flat
  <2>4. 0 \in T
    BY DEF Placed
  <2>5. ASSUME NEW k \in Nat, k \in T
        PROVE  k + 1 \in T
    <3> SUFFICES ASSUME k + 1 <= n
                 PROVE  text(k + 1) \in Seq(C) /\ Placed(at, text(k + 1), pieces, k + 1)
      OBVIOUS
    <3>1. k + 1 \in 1..n /\ k + 1 # 0 /\ (k + 1) - 1 = k /\ k <= n
      BY <2>1
    <3>2. text(k) \in Seq(C) /\ Placed(at, text(k), pieces, k)
      BY <2>5, <3>1
    <3>3. at[k] = Len(text(k)) /\ at[k + 1] = Len(text(k + 1))
      BY <3>1
    <3>4. text(k + 1) = text(k) \o pieces[k + 1]
      <4>1. flat[k + 1] = IF k + 1 = 1 THEN pieces[k + 1] ELSE flat[(k + 1) - 1] \o pieces[k + 1]
        BY <2>2, <3>1 DEF Joins
      <4>2. CASE k = 0
        <5>1. pieces[1] \in Seq(C)
          BY <3>1
        <5>2. <<>> \o pieces[1] = pieces[1]
          BY <5>1, ConcatEmptySeq
        <5> QED
          BY <4>1, <4>2, <5>2
      <4>3. CASE k # 0
        <5>1. k + 1 # 1 /\ text(k) = flat[k] /\ text(k + 1) = flat[k + 1]
          BY <4>3
        <5> QED
          BY <3>1, <4>1, <5>1
      <4> QED
        BY <4>2, <4>3
    <3> HIDE DEF text, at
    <3> QED
      BY <3>1, <3>2, <3>3, <3>4, PlacedMore
  <2> HIDE DEF T
  <2>6. Nat \subseteq T
    BY <2>4, <2>5, Unescaping!Induction
  <2>7. text(n) = flat[n] /\ at[0] = 0 /\ at[n] = Len(flat[n])
    BY <1>2
  <2>8. text(n) \in Seq(C) /\ Placed(at, text(n), pieces, n)
    BY <2>1, <2>6 DEF T
  <2> HIDE DEF text, at
  <2>9. Lies(at, flat[n], pieces)
    BY <2>7, <2>8 DEF Lies
  <2> QED
    BY <2>3, <2>7, <2>8, <2>9
<1> QED
  BY <1>1, <1>2

\* Each piece is a part of the whole.
LEMMA PieceIsPart ==
  ASSUME NEW C, NEW pieces \in Seq(Seq(C)), NEW whole \in Seq(C), NEW at,
         Lies(at, whole, pieces), NEW k \in Nat, k + 1 \in 1..Len(pieces)
  PROVE  /\ Unescaping!Part(whole, at[k], pieces[k + 1])
         /\ Tokenizing!Part(whole, at[k], pieces[k + 1])
         /\ at[k] \in Nat
         /\ at[k + 1] = at[k] + Len(pieces[k + 1])
<1> DEFINE piece == pieces[k + 1]
<1>1. Len(piece) \in Nat /\ Len(whole) \in Nat /\ (k + 1) - 1 = k
  BY DEF Lies
<1>2. /\ at[k] \in Nat
      /\ at[k + 1] \in 0..Len(whole)
      /\ at[k + 1] = at[k] + Len(piece)
      /\ \A j \in 1..Len(piece) : whole[at[k] + j] = piece[j]
  BY <1>1 DEF Lies, Placed
<1>3. at[k] + Len(piece) <= Len(whole)
  BY <1>1, <1>2
<1> HIDE DEF piece
<1>4. Unescaping!Part(whole, at[k], piece)
  BY <1>2, <1>3 DEF Unescaping!Part
<1>5. Tokenizing!Part(whole, at[k], piece)
  BY <1>2, <1>3 DEF Tokenizing!Part
<1> QED
  BY <1>2, <1>4, <1>5 DEF piece

-----------------------------------------------------------------------------
(* Values: what is escaped is read as it was.                               *)

Escapes == {"\\", "s", "n", "t", "r"}

\* An escaped character consists of characters.
LEMMA EscapeCharType ==
  ASSUME NEW C, NEW char \in C
  PROVE  EscapeChar(char) \in Seq(C \cup Escapes)
<1> DEFINE D == C \cup Escapes
<1>1. char \in D /\ "\\" \in D /\ \A code \in Escapes : code \in D
  BY DEF Escapes
<1> HIDE DEF D
<1>2. <<char>> \in Seq(D) /\ \A code \in Escapes : <<"\\", code>> \in Seq(D)
  BY <1>1
<1>3. EscapeChar(char) \in Seq(D)
  BY <1>2 DEF EscapeChar, Escapes
<1> QED
  BY <1>3 DEF D

Read(out) == [out |-> out, escaped |-> FALSE]

Escaping(out) == [out |-> out, escaped |-> TRUE]

\* What one character does to what was read.
LEMMA UnescapeSteps ==
  ASSUME NEW C, NEW out \in Seq(C), NEW char
  PROVE  /\ char \in C /\ char # "\\" =>
              UnescapeStep(Read(out), char) = Read(Append(out, char))
         /\ UnescapeStep(Read(out), "\\") = Escaping(out)
         /\ Unescaped(char) \in C =>
              UnescapeStep(Escaping(out), char) = Read(Append(out, Unescaped(char)))
<1> DEFINE state == Read(out)
           escape == Escaping(out)
<1>1. state \in [out : Seq(C), escaped : BOOLEAN] /\ state.escaped = FALSE /\ state.out = out
  BY DEF Read
<1>2. escape \in [out : Seq(C), escaped : BOOLEAN] /\ escape.escaped = TRUE /\ escape.out = out
  BY DEF Escaping
<1> HIDE DEF state, escape
<1>3. char \in C /\ char # "\\" => UnescapeStep(state, char) = Read(Append(out, char))
  BY <1>1 DEF UnescapeStep, Read
<1>4. UnescapeStep(state, "\\") = Escaping(out)
  BY <1>1 DEF UnescapeStep, Escaping
<1>5. Unescaped(char) \in C => UnescapeStep(escape, char) = Read(Append(out, Unescaped(char)))
  BY <1>2 DEF UnescapeStep, Read
<1> QED
  BY <1>3, <1>4, <1>5 DEF state, escape

\* Reading what stands for a character adds the character.
LEMMA UnescapeChar ==
  ASSUME NEW C, NEW out \in Seq(C), NEW char \in C, NEW run, NEW a \in Nat,
         Unescaping!Along(run, a, EscapeChar(char)), run[a] = Read(out)
  PROVE  run[a + Len(EscapeChar(char))] = Read(Append(out, char))
<1>1. CASE char \notin {"\\", " ", "\n", "\t", "\r"}
  <2>1. EscapeChar(char) = <<char>>
    BY <1>1 DEF EscapeChar
  <2>2. run[a + 1] = UnescapeStep(Read(out), char)
    BY <2>1, Unescaping!AlongOne
  <2>3. char # "\\" /\ Len(<<char>>) = 1
    BY <1>1
  <2> QED
    BY <2>1, <2>2, <2>3, UnescapeSteps
<1>2. CASE char \in {"\\", " ", "\n", "\t", "\r"}
  <2>1. PICK code : EscapeChar(char) = <<"\\", code>> /\ Unescaped(code) = char
    <3>1. CASE char = "\\"
      BY <3>1 DEF EscapeChar, Unescaped
    <3>2. CASE char = " "
      BY <3>2 DEF EscapeChar, Unescaped
    <3>3. CASE char = "\n"
      BY <3>3 DEF EscapeChar, Unescaped
    <3>4. CASE char = "\t"
      BY <3>4 DEF EscapeChar, Unescaped
    <3>5. CASE char = "\r"
      BY <3>5 DEF EscapeChar, Unescaped
    <3> QED
      BY <1>2, <3>1, <3>2, <3>3, <3>4, <3>5
  <2>2. run[a + 2] = UnescapeStep(UnescapeStep(Read(out), "\\"), code)
    BY <2>1, Unescaping!AlongTwo
  <2>3. run[a + 2] = Read(Append(out, char))
    BY <2>1, <2>2, UnescapeSteps
  <2>4. Len(<<"\\", code>>) = 2
    OBVIOUS
  <2> QED
    BY <2>1, <2>3, <2>4
<1> QED
  BY <1>1, <1>2

\* Reading a text is a run over its characters.
LEMMA UnescapeRuns ==
  ASSUME NEW D, NEW text \in Seq(D)
  PROVE  \E run :
           /\ Unescaping!IsRun(run, Read(<<>>), text)
           /\ UnescapeDesktopValue(text) =
                IF run[Len(text)].escaped THEN Append(run[Len(text)].out, "\\")
                ELSE run[Len(text)].out
<1> DEFINE b == [out |-> <<>>, escaped |-> FALSE]
           end == FoldLeft(UnescapeStep, b, text)
<1>1. end = Unescaping!Fold(b, text)
  BY Zenon DEF FoldLeft, Unescaping!FoldLeft, MapThenFoldSet, Unescaping!MapThenFoldSet,
               Max, Unescaping!Max, Unescaping!Fold
<1>2. UnescapeDesktopValue(text) = IF end.escaped THEN Append(end.out, "\\") ELSE end.out
  BY DEF UnescapeDesktopValue
<1>3. PICK run : Unescaping!IsRun(run, b, text) /\ Unescaping!Fold(b, text) = run[Len(text)]
  BY Unescaping!FoldIsRun, Zenon
<1>4. end = run[Len(text)]
  BY <1>1, <1>3
<1> HIDE DEF end
<1> QED
  BY <1>2, <1>3, <1>4 DEF Read

\* The text of a value is read as the value.
LEMMA EscapeIsRead ==
  ASSUME NEW C, NEW value \in Seq(C)
  PROVE  /\ EscapeValue(value) \in Seq(C \cup Escapes)
         /\ UnescapeDesktopValue(EscapeValue(value)) = value
<1> DEFINE n == Len(value)
           pieces == [i \in DOMAIN value |-> EscapeChar(value[i])]
           text == EscapeValue(value)
           D == C \cup Escapes
<1>1. n \in Nat /\ DOMAIN value = 1..n
  OBVIOUS
<1>2. pieces \in Seq(Seq(D)) /\ Len(pieces) = n
  <2>1. \A i \in 1..n : EscapeChar(value[i]) \in Seq(D)
    BY EscapeCharType
  <2> HIDE DEF D
  <2> QED
    BY <1>1, <2>1
<1>3. text = FlattenSeq(pieces)
  BY DEF EscapeValue
<1>4. text \in Seq(D) /\ \E at : Lies(at, text, pieces)
  <2> HIDE DEF pieces, text, D
  <2> QED
    BY <1>2, <1>3, Flattened
<1>5. PICK at : Lies(at, text, pieces)
  BY <1>4
<1>6. PICK run : /\ Unescaping!IsRun(run, Read(<<>>), text)
                 /\ UnescapeDesktopValue(text) =
                      IF run[Len(text)].escaped THEN Append(run[Len(text)].out, "\\")
                      ELSE run[Len(text)].out
  <2> HIDE DEF text, D
  <2> QED
    BY <1>4, UnescapeRuns
<1> DEFINE T == {k \in Nat : k <= n => run[at[k]] = Read(SubSeq(value, 1, k))}
<1>7. 0 \in T
  <2>1. SubSeq(value, 1, 0) = <<>> /\ at[0] = 0
    BY <1>5, SubSeqEmpty DEF Lies
  <2>2. run[0] = Read(<<>>)
    BY <1>6 DEF Unescaping!IsRun
  <2> QED
    BY <2>1, <2>2
<1>8. ASSUME NEW k \in Nat, k \in T
      PROVE  k + 1 \in T
  <2> SUFFICES ASSUME k + 1 <= n
               PROVE  run[at[k + 1]] = Read(SubSeq(value, 1, k + 1))
    OBVIOUS
  <2> DEFINE char == value[k + 1]
             a == at[k]
             out == SubSeq(value, 1, k)
  <2>1. k + 1 \in 1..n /\ k <= n /\ char \in C /\ out \in Seq(C)
    BY <1>1
  <2>2. run[a] = Read(out)
    BY <1>8, <2>1
  <2>3. pieces[k + 1] = EscapeChar(char)
    BY <1>1, <2>1
  <2>4. EscapeChar(char) \in Seq(D)
    BY <2>1, EscapeCharType
  <2>5. /\ Unescaping!Part(text, a, EscapeChar(char))
        /\ a \in Nat
        /\ at[k + 1] = a + Len(EscapeChar(char))
    <3> HIDE DEF text, pieces, D, char
    <3> QED
      BY <1>2, <1>4, <1>5, <2>1, <2>3, PieceIsPart
  <2>6. Unescaping!Along(run, a, EscapeChar(char))
    <3> HIDE DEF text, D, char, a
    <3> QED
      BY <1>4, <1>6, <2>4, <2>5, Unescaping!RunAlong
  <2>7. run[a + Len(EscapeChar(char))] = Read(Append(out, char))
    <3> HIDE DEF char, a, out
    <3> QED
      BY <2>1, <2>2, <2>5, <2>6, UnescapeChar
  <2>8. SubSeq(value, 1, k + 1) = Append(out, char)
    BY <2>1
  <2> QED
    BY <2>5, <2>7, <2>8
<1> HIDE DEF T
<1>9. Nat \subseteq T
  BY <1>7, <1>8, Unescaping!Induction
<1>10. run[Len(text)] = Read(value)
  <2>1. at[n] = Len(text)
    BY <1>2, <1>5 DEF Lies
  <2>2. SubSeq(value, 1, n) = value
    BY SubSeqFull
  <2>3. run[at[n]] = Read(SubSeq(value, 1, n))
    <3>1. n \in T /\ n <= n
      BY <1>1, <1>9
    <3> QED
      BY <3>1 DEF T
  <2> QED
    BY <2>1, <2>2, <2>3
<1> HIDE DEF text
<1> QED
  BY <1>4, <1>6, <1>10 DEF Read, text

-----------------------------------------------------------------------------
(* Arguments: what is quoted is one argument, as it was.                    *)

Marks == Quotes \cup {NoQuote}

\* The states of the reader: between arguments, within one, and behind a
\* backslash.
Between(tokens, token, quote) ==
  [tokens |-> tokens, token |-> token, quote |-> quote, escaped |-> FALSE, started |-> FALSE]

Within(tokens, token, quote) ==
  [tokens |-> tokens, token |-> token, quote |-> quote, escaped |-> FALSE, started |-> TRUE]

Behind(tokens, token, quote) ==
  [tokens |-> tokens, token |-> token, quote |-> quote, escaped |-> TRUE, started |-> TRUE]

Unescapeds(tokens, token, quote) ==
  {Between(tokens, token, quote), Within(tokens, token, quote)}

\* What must be escaped under a quote.
Special(mark) == {"\\"} \cup IF mark = NoQuote THEN Whitespace \cup Quotes ELSE {mark}

ReaderStates(C) ==
  [tokens : Seq(Seq(C)), token : Seq(C), quote : Marks, escaped : BOOLEAN, started : BOOLEAN]

\* What all states in which a bare or quoted word goes on have in common.
LEMMA UnescapedsFields ==
  ASSUME NEW C, NEW tokens \in Seq(Seq(C)), NEW token \in Seq(C), NEW quote \in Marks,
         NEW state \in Unescapeds(tokens, token, quote)
  PROVE  /\ state \in ReaderStates(C) /\ ~state.escaped /\ state.quote = quote
         /\ state.tokens = tokens /\ state.token = token
<1>1. CASE state = Between(tokens, token, quote)
  BY <1>1 DEF Between, ReaderStates
<1>2. CASE state = Within(tokens, token, quote)
  BY <1>2 DEF Within, ReaderStates
<1> QED
  BY <1>1, <1>2 DEF Unescapeds

\* What the state within a word consists of.
LEMMA WithinFields ==
  ASSUME NEW C, NEW tokens \in Seq(Seq(C)), NEW token \in Seq(C), NEW quote \in Marks
  PROVE  LET state == Within(tokens, token, quote) IN
         /\ state \in ReaderStates(C) /\ ~state.escaped /\ state.quote = quote
         /\ state.tokens = tokens /\ state.token = token /\ state.started = TRUE
BY DEF Within, ReaderStates

\* What the state behind a backslash consists of.
LEMMA BehindFields ==
  ASSUME NEW C, NEW tokens \in Seq(Seq(C)), NEW token \in Seq(C), NEW quote \in Marks
  PROVE  LET state == Behind(tokens, token, quote) IN
         /\ state \in ReaderStates(C) /\ state.escaped /\ state.quote = quote
         /\ state.tokens = tokens /\ state.token = token /\ state.started = TRUE
BY DEF Behind, ReaderStates

\* An ordinary character is added to the argument.
LEMMA ReadOrdinary ==
  ASSUME NEW C, NEW tokens \in Seq(Seq(C)), NEW token \in Seq(C), NEW quote \in Marks,
         NEW state \in Unescapeds(tokens, token, quote),
         NEW char \in C, char \notin Special(quote)
  PROVE  TokenizeStep(state, char) = Within(tokens, Append(token, char), quote)
<1>1. /\ state \in ReaderStates(C) /\ ~state.escaped /\ state.quote = quote
      /\ state.tokens = tokens /\ state.token = token
  BY UnescapedsFields
<1> QED
  BY <1>1 DEF TokenizeStep, Within, Special, Whitespace, Quotes, NoQuote, Marks, ReaderStates

\* A character behind a backslash is added, whatever it is.
LEMMA ReadBackslash ==
  ASSUME NEW C, NEW tokens \in Seq(Seq(C)), NEW token \in Seq(C), NEW quote \in Marks,
         NEW state \in Unescapeds(tokens, token, quote)
  PROVE  TokenizeStep(state, "\\") = Behind(tokens, token, quote)
<1>1. /\ state \in ReaderStates(C) /\ ~state.escaped /\ state.quote = quote
      /\ state.tokens = tokens /\ state.token = token
  BY UnescapedsFields
<1> QED
  BY <1>1 DEF TokenizeStep, Behind, Whitespace, ReaderStates

\* The character behind a backslash is taken as it is.
LEMMA ReadBehind ==
  ASSUME NEW C, NEW tokens \in Seq(Seq(C)), NEW token \in Seq(C), NEW quote \in Marks,
         NEW char \in C
  PROVE  TokenizeStep(Behind(tokens, token, quote), char) =
           Within(tokens, Append(token, char), quote)
<1> DEFINE state == Behind(tokens, token, quote)
<1>1. /\ state \in ReaderStates(C) /\ state.escaped /\ state.quote = quote
      /\ state.tokens = tokens /\ state.token = token /\ state.started = TRUE
  BY BehindFields
<1> HIDE DEF state
<1>2. TokenizeStep(state, char) = Within(tokens, Append(token, char), quote)
  BY <1>1 DEF TokenizeStep, Within, ReaderStates
<1> QED
  BY <1>2 DEF state

\* A quote begins an argument, and the same quote ends what is quoted.
LEMMA ReadOpening ==
  ASSUME NEW C, NEW tokens \in Seq(Seq(C)), NEW token \in Seq(C), NEW quote \in Quotes,
         NEW state \in Unescapeds(tokens, token, NoQuote)
  PROVE  TokenizeStep(state, quote) = Within(tokens, token, quote)
<1>1. /\ state \in ReaderStates(C) /\ ~state.escaped /\ state.quote = NoQuote
      /\ state.tokens = tokens /\ state.token = token
  <2>1. NoQuote \in Marks
    BY DEF Marks
  <2> QED
    BY <2>1, UnescapedsFields
<1> QED
  BY <1>1 DEF TokenizeStep, Within, Whitespace, Quotes, NoQuote, Marks, ReaderStates

\* The quote that began a part of an argument ends it.
LEMMA ReadClosing ==
  ASSUME NEW C, NEW tokens \in Seq(Seq(C)), NEW token \in Seq(C), NEW quote \in Quotes
  PROVE  TokenizeStep(Within(tokens, token, quote), quote) = Within(tokens, token, NoQuote)
<1> DEFINE state == Within(tokens, token, quote)
<1>1. /\ state \in ReaderStates(C) /\ ~state.escaped /\ state.quote = quote
      /\ state.tokens = tokens /\ state.token = token /\ state.started = TRUE
  <2>1. quote \in Marks
    BY DEF Marks
  <2> QED
    BY <2>1, WithinFields
<1> HIDE DEF state
<1>2. TokenizeStep(state, quote) = Within(tokens, token, NoQuote)
  BY <1>1 DEF TokenizeStep, Within, Whitespace, Quotes, NoQuote, Marks, ReaderStates
<1> QED
  BY <1>2 DEF state

\* A space ends the argument.
LEMMA ReadSpace ==
  ASSUME NEW C, NEW tokens \in Seq(Seq(C)), NEW token \in Seq(C)
  PROVE  TokenizeStep(Within(tokens, token, NoQuote), " ") =
           Between(Append(tokens, token), <<>>, NoQuote)
<1> DEFINE state == Within(tokens, token, NoQuote)
<1>1. /\ state \in ReaderStates(C) /\ ~state.escaped /\ state.quote = NoQuote
      /\ state.tokens = tokens /\ state.token = token /\ state.started = TRUE
  <2>1. NoQuote \in Marks
    BY DEF Marks
  <2> QED
    BY <2>1, WithinFields
<1> HIDE DEF state
<1>2. TokenizeStep(state, " ") = Between(Append(tokens, token), <<>>, NoQuote)
  BY <1>1 DEF TokenizeStep, Between, Whitespace, Quotes, NoQuote, Marks, ReaderStates
<1> QED
  BY <1>2 DEF state

\* A character of an argument is read as itself.
LEMMA TokenizeChar ==
  ASSUME NEW C, NEW tokens \in Seq(Seq(C)), NEW token \in Seq(C), NEW mark \in Marks,
         NEW char \in C, NEW run, NEW a \in Nat,
         Tokenizing!Along(run, a, QuoteChar(char, Special(mark))),
         run[a] \in Unescapeds(tokens, token, mark)
  PROVE  run[a + Len(QuoteChar(char, Special(mark)))] = Within(tokens, Append(token, char), mark)
<1>1. CASE char \notin Special(mark)
  <2>1. QuoteChar(char, Special(mark)) = <<char>>
    BY <1>1 DEF QuoteChar
  <2>2. run[a + 1] = TokenizeStep(run[a], char)
    BY <2>1, Tokenizing!AlongOne
  <2>3. Len(<<char>>) = 1
    OBVIOUS
  <2>4. TokenizeStep(run[a], char) = Within(tokens, Append(token, char), mark)
    BY <1>1, ReadOrdinary
  <2> QED
    BY <2>1, <2>2, <2>3, <2>4
<1>2. CASE char \in Special(mark)
  <2>1. QuoteChar(char, Special(mark)) = <<"\\", char>>
    BY <1>2 DEF QuoteChar
  <2>2. run[a + 2] = TokenizeStep(TokenizeStep(run[a], "\\"), char)
    <3> DEFINE piece == QuoteChar(char, Special(mark))
    <3>1. Tokenizing!Along(run, a, piece) /\ piece = <<"\\", char>>
      BY <2>1
    <3> HIDE DEF piece
    <3> QED
      BY <3>1, Tokenizing!AlongTwo
  <2>3. Len(<<"\\", char>>) = 2
    OBVIOUS
  <2>4. TokenizeStep(run[a], "\\") = Behind(tokens, token, mark)
    BY ReadBackslash
  <2>5. TokenizeStep(Behind(tokens, token, mark), char) = Within(tokens, Append(token, char), mark)
    BY ReadBehind
  <2> QED
    BY <2>1, <2>2, <2>3, <2>4, <2>5
<1> QED
  BY <1>1, <1>2

\* The characters that a text of words consists of.
Letters(C) == C \cup {"\\", " "} \cup Quotes

\* A quoted character consists of letters.
LEMMA QuoteCharType ==
  ASSUME NEW C, NEW char \in C, NEW special
  PROVE  QuoteChar(char, special) \in Seq(Letters(C))
<1> DEFINE D == Letters(C)
<1>1. char \in D /\ "\\" \in D
  BY DEF Letters
<1> HIDE DEF D
<1>2. <<"\\", char>> \in Seq(D) /\ <<char>> \in Seq(D)
  BY <1>1
<1>3. QuoteChar(char, special) \in Seq(D)
  BY <1>2 DEF QuoteChar
<1> QED
  BY <1>3 DEF D

\* The characters of an argument.
Body(argument, mark) ==
  FlattenSeq([i \in DOMAIN argument |-> QuoteChar(argument[i], Special(mark))])

\* The reader stands behind the first k characters of the argument, at p.
ReadUpTo(run, a, p, tokens, argument, mark, k) ==
  /\ run[p] \in Unescapeds(tokens, SubSeq(argument, 1, k), mark)
  /\ k # 0 => run[p] = Within(tokens, SubSeq(argument, 1, k), mark)
  /\ k = 0 => run[p] = run[a]

\* The body of a quoted argument consists of its characters, quoted one by one.
LEMMA BodyType ==
  ASSUME NEW C, NEW argument \in Seq(C), NEW mark
  PROVE  /\ Body(argument, mark) \in Seq(Letters(C))
         /\ \E at : /\ Lies(at, Body(argument, mark),
                            [i \in DOMAIN argument |-> QuoteChar(argument[i], Special(mark))])
                    /\ at[Len(argument)] = Len(Body(argument, mark))
<1> DEFINE n == Len(argument)
           pieces == [i \in DOMAIN argument |-> QuoteChar(argument[i], Special(mark))]
           D == Letters(C)
<1>1. n \in Nat /\ DOMAIN argument = 1..n
  OBVIOUS
<1>2. pieces \in Seq(Seq(D)) /\ Len(pieces) = n
  <2>1. \A i \in 1..n : QuoteChar(argument[i], Special(mark)) \in Seq(D)
    BY QuoteCharType
  <2> HIDE DEF D
  <2> QED
    BY <1>1, <2>1
<1>3. Body(argument, mark) = FlattenSeq(pieces)
  BY DEF Body
<1> HIDE DEF pieces, D
<1>4. FlattenSeq(pieces) \in Seq(D) /\ \E at : Lies(at, FlattenSeq(pieces), pieces)
  BY <1>2, Flattened
<1> QED
  BY <1>2, <1>3, <1>4 DEF Lies, pieces, D

\* Reading the body of a quoted argument gives the argument.
LEMMA TokenizeBody ==
  ASSUME NEW C, NEW tokens \in Seq(Seq(C)), NEW argument \in Seq(C), NEW mark \in Marks,
         NEW run, NEW a \in Nat,
         Tokenizing!Along(run, a, Body(argument, mark)),
         run[a] \in Unescapeds(tokens, <<>>, mark),
         run[a] = Within(tokens, <<>>, mark) \/ argument # <<>>
  PROVE  run[a + Len(Body(argument, mark))] = Within(tokens, argument, mark)
<1> DEFINE n == Len(argument)
           pieces == [i \in DOMAIN argument |-> QuoteChar(argument[i], Special(mark))]
           body == Body(argument, mark)
           D == Letters(C)
<1>1. n \in Nat /\ DOMAIN argument = 1..n
  OBVIOUS
<1>2. pieces \in Seq(Seq(D)) /\ Len(pieces) = n
  <2>1. \A i \in 1..n : QuoteChar(argument[i], Special(mark)) \in Seq(D)
    BY QuoteCharType
  <2> HIDE DEF D
  <2> QED
    BY <1>1, <2>1
<1>4. body \in Seq(D)
  BY BodyType
<1>5. PICK at : Lies(at, body, pieces) /\ at[n] = Len(body)
  <2> HIDE DEF D
  <2> QED
    BY BodyType, Zenon
<1> DEFINE T == {k \in Nat : k <= n =>
                   ReadUpTo(run, a, a + at[k], tokens, argument, mark, k)}
<1>6. 0 \in T
  <2>1. SubSeq(argument, 1, 0) = <<>> /\ at[0] = 0 /\ a + 0 = a
    BY <1>5, SubSeqEmpty DEF Lies
  <2>2. ReadUpTo(run, a, a + at[0], tokens, argument, mark, 0)
    BY <2>1 DEF ReadUpTo
  <2> QED
    BY <2>2
<1>7. ASSUME NEW k \in Nat, k \in T
      PROVE  k + 1 \in T
  <2> SUFFICES ASSUME k + 1 <= n
               PROVE  ReadUpTo(run, a, a + at[k + 1], tokens, argument, mark, k + 1)
    OBVIOUS
  <2> DEFINE char == argument[k + 1]
             p == at[k]
             token == SubSeq(argument, 1, k)
             piece == QuoteChar(char, Special(mark))
  <2>1. k + 1 \in 1..n /\ k <= n /\ char \in C /\ token \in Seq(C)
    BY <1>1
  <2>2. run[a + p] \in Unescapeds(tokens, token, mark)
    BY <1>7, <2>1 DEF ReadUpTo
  <2>3. pieces[k + 1] = piece
    BY <1>1, <2>1
  <2>4. piece \in Seq(D)
    BY <2>1, QuoteCharType
  <2>5. /\ Tokenizing!Part(body, p, piece)
        /\ p \in Nat
        /\ at[k + 1] = p + Len(piece)
    <3> HIDE DEF body, pieces, D, char, piece
    <3> QED
      BY <1>2, <1>4, <1>5, <2>1, <2>3, PieceIsPart
  <2>6. Tokenizing!Along(run, a + p, piece)
    <3> HIDE DEF body, D, piece, p
    <3> QED
      BY <1>4, <2>4, <2>5, Tokenizing!AlongPart DEF body
  <2>7. a + p \in Nat /\ Len(piece) \in Nat
    BY <2>4, <2>5
  <2>8. run[(a + p) + Len(piece)] = Within(tokens, Append(token, char), mark)
    <3> HIDE DEF char, p, token
    <3> QED
      BY <2>1, <2>2, <2>6, <2>7, TokenizeChar DEF piece
  <2>9. SubSeq(argument, 1, k + 1) = Append(token, char)
    BY <2>1
  <2>10. (a + p) + Len(piece) = a + at[k + 1]
    <3> HIDE DEF p, piece
    <3> QED
      BY <2>5, <2>7
  <2> HIDE DEF p, piece, token, char
  <2>11. run[a + at[k + 1]] = Within(tokens, SubSeq(argument, 1, k + 1), mark)
    BY <2>8, <2>9, <2>10, Zenon
  <2> QED
    BY <2>1, <2>11 DEF ReadUpTo, Unescapeds
<1> HIDE DEF T
<1>8. Nat \subseteq T
  BY <1>6, <1>7, Unescaping!Induction
<1>9. ReadUpTo(run, a, a + at[n], tokens, argument, mark, n)
  <2>1. n \in T /\ n <= n
    BY <1>1, <1>8
  <2> QED
    BY <2>1 DEF T
<1>10. SubSeq(argument, 1, n) = argument
  BY SubSeqFull
<1>11. n # 0 \/ run[a] = Within(tokens, <<>>, mark)
  BY <1>1
<1> HIDE DEF n, body, pieces
<1>12. run[a + Len(body)] = Within(tokens, argument, mark)
  <2>1. /\ run[a + Len(body)] \in Unescapeds(tokens, argument, mark)
        /\ n # 0 => run[a + Len(body)] = Within(tokens, argument, mark)
        /\ n = 0 => run[a + Len(body)] = run[a]
    BY <1>5, <1>9, <1>10 DEF ReadUpTo
  <2>2. n = 0 => argument = <<>>
    BY DEF n
  <2> QED
    BY <1>11, <2>1, <2>2
<1> QED
  BY <1>12 DEF body

\* What is written for an argument is a text of letters.
LEMMA QuoteArgumentType ==
  ASSUME NEW C, NEW argument \in Seq(C), NEW style \in Marks
  PROVE  /\ QuoteArgument(argument, style) \in Seq(Letters(C))
         /\ \E mark \in Marks :
              /\ mark = NoQuote => argument # <<>>
              /\ QuoteArgument(argument, style) =
                   IF mark = NoQuote THEN Body(argument, mark)
                   ELSE <<mark>> \o (Body(argument, mark) \o <<mark>>)
<1> DEFINE mark == IF argument = <<>> /\ style = NoQuote THEN "'" ELSE style
           body == Body(argument, mark)
           D == Letters(C)
<1>1. mark \in Marks /\ (mark = NoQuote => argument # <<>>)
  BY DEF Marks, Quotes, NoQuote
<1>2. body \in Seq(D)
  BY BodyType
<1>3. QuoteArgument(argument, style) = IF mark = NoQuote THEN body ELSE <<mark>> \o body \o <<mark>>
  BY DEF QuoteArgument, Body, Special
<1>4. mark # NoQuote => mark \in D
  BY <1>1 DEF Marks, Letters
<1> HIDE DEF mark, D, body
<1>5. CASE mark = NoQuote
  <2>1. QuoteArgument(argument, style) \in Seq(D)
    BY <1>2, <1>3, <1>5
  <2> QED
    BY <1>1, <1>3, <1>5, <2>1 DEF D, body
<1>6. CASE mark # NoQuote
  <2>1. <<mark>> \in Seq(D)
    BY <1>4, <1>6
  <2>2. <<mark>> \o body \o <<mark>> = <<mark>> \o (body \o <<mark>>)
    BY <1>2, <2>1
  <2>3. <<mark>> \o (body \o <<mark>>) \in Seq(D)
    BY <1>2, <2>1
  <2> QED
    BY <1>1, <1>3, <1>6, <2>2, <2>3 DEF D, body
<1> QED
  BY <1>5, <1>6

\* An argument that is written down is read as it was.
LEMMA TokenizeArgument ==
  ASSUME NEW C, NEW tokens \in Seq(Seq(C)), NEW argument \in Seq(C), NEW style \in Marks,
         NEW run, NEW a \in Nat,
         Tokenizing!Along(run, a, QuoteArgument(argument, style)),
         run[a] = Between(tokens, <<>>, NoQuote)
  PROVE  run[a + Len(QuoteArgument(argument, style))] = Within(tokens, argument, NoQuote)
<1> DEFINE D == Letters(C)
           whole == QuoteArgument(argument, style)
<1>1. PICK mark \in Marks :
        /\ mark = NoQuote => argument # <<>>
        /\ whole = IF mark = NoQuote THEN Body(argument, mark)
                   ELSE <<mark>> \o (Body(argument, mark) \o <<mark>>)
  BY QuoteArgumentType
<1> DEFINE body == Body(argument, mark)
<1>2. body \in Seq(D) /\ Len(body) \in Nat
  BY BodyType
<1>3. CASE mark = NoQuote
  <2>1. whole = body /\ argument # <<>>
    BY <1>1, <1>3
  <2>2. run[a] \in Unescapeds(tokens, <<>>, mark)
    BY <1>3 DEF Unescapeds
  <2>3. Tokenizing!Along(run, a, body)
    BY <2>1
  <2>4. run[a + Len(body)] = Within(tokens, argument, mark)
    BY <2>1, <2>2, <2>3, TokenizeBody
  <2> QED
    BY <1>3, <2>1, <2>4
<1>4. CASE mark # NoQuote
  <2>1. mark \in Quotes /\ mark \in D
    BY <1>4 DEF Marks, Letters
  <2>2. whole = <<mark>> \o (body \o <<mark>>)
    BY <1>1, <1>4
  <2> HIDE DEF body, D, whole
  <2>3. /\ <<mark>> \in Seq(D) /\ Len(<<mark>>) = 1
        /\ body \o <<mark>> \in Seq(D) /\ Len(body \o <<mark>>) = Len(body) + 1
        /\ <<>> \in Seq(C)
    BY <1>2, <2>1
  <2>4. Tokenizing!Along(run, a, <<mark>> \o (body \o <<mark>>))
    BY <2>2 DEF whole
  <2>5. /\ Tokenizing!Along(run, a, <<mark>>)
        /\ Tokenizing!Along(run, a + 1, body \o <<mark>>)
    BY <2>3, <2>4, Tokenizing!AlongBoth
  <2>6. /\ Tokenizing!Along(run, a + 1, body)
        /\ Tokenizing!Along(run, (a + 1) + Len(body), <<mark>>)
    <3> DEFINE c == a + 1
    <3>1. c \in Nat /\ Tokenizing!Along(run, c, body \o <<mark>>)
      BY <2>5
    <3> HIDE DEF c
    <3>2. Tokenizing!Along(run, c, body) /\ Tokenizing!Along(run, c + Len(body), <<mark>>)
      BY <1>2, <2>3, <3>1, Tokenizing!AlongBoth
    <3> QED
      BY <3>2 DEF c
  <2>7. run[a + 1] = Within(tokens, <<>>, mark)
    <3>1. run[a + 1] = TokenizeStep(run[a], mark)
      BY <2>5, Tokenizing!AlongOne
    <3>2. run[a] \in Unescapeds(tokens, <<>>, NoQuote)
      BY DEF Unescapeds
    <3> QED
      BY <2>1, <2>3, <3>1, <3>2, ReadOpening
  <2>8. run[(a + 1) + Len(body)] = Within(tokens, argument, mark)
    <3>1. run[a + 1] \in Unescapeds(tokens, <<>>, mark)
      BY <2>7 DEF Unescapeds
    <3> DEFINE c == a + 1
    <3>2. /\ c \in Nat /\ run[c] \in Unescapeds(tokens, <<>>, mark)
          /\ run[c] = Within(tokens, <<>>, mark)
          /\ Tokenizing!Along(run, c, Body(argument, mark))
      BY <2>6, <2>7, <3>1 DEF body
    <3> HIDE DEF c
    <3>3. run[c + Len(Body(argument, mark))] = Within(tokens, argument, mark)
      BY <3>2, TokenizeBody
    <3> QED
      BY <3>3 DEF c, body
  <2>9. run[((a + 1) + Len(body)) + 1] = Within(tokens, argument, NoQuote)
    <3>1. (a + 1) + Len(body) \in Nat
      BY <1>2
    <3>2. run[((a + 1) + Len(body)) + 1] = TokenizeStep(run[(a + 1) + Len(body)], mark)
      BY <2>6, <3>1, Tokenizing!AlongOne
    <3> QED
      BY <2>1, <2>8, <3>2, ReadClosing
  <2>10. a + Len(whole) = ((a + 1) + Len(body)) + 1
    <3>1. Len(whole) = 1 + (Len(body) + 1)
      BY <1>2, <2>2, <2>3
    <3> QED
      BY <1>2, <3>1
  <2> QED
    BY <2>9, <2>10 DEF whole
<1> QED
  BY <1>3, <1>4

-----------------------------------------------------------------------------
(* The argument vector.                                                     *)

Words(argv, style) ==
  FlattenSeq([i \in DOMAIN argv |-> Separator(i) \o QuoteArgument(argv[i], style)])

\* Reading a text is a run over its characters.
LEMMA TokenizeRuns ==
  ASSUME NEW D, NEW text \in Seq(D)
  PROVE  \E run :
           /\ Tokenizing!IsRun(run, Between(<<>>, <<>>, NoQuote), text)
           /\ LET end == run[Len(text)] IN
              TokenizeExec(text) =
                [ ok   |-> ~end.escaped /\ end.quote = NoQuote,
                  argv |-> IF end.started THEN Append(end.tokens, end.token) ELSE end.tokens ]
<1> DEFINE b == Between(<<>>, <<>>, NoQuote)
           end == FoldLeft(TokenizeStep, b, text)
<1>1. end = Tokenizing!Fold(b, text)
  BY Zenon DEF FoldLeft, Tokenizing!FoldLeft, MapThenFoldSet, Tokenizing!MapThenFoldSet,
               Max, Tokenizing!Max, Tokenizing!Fold
<1>2. TokenizeExec(text) =
        [ ok   |-> ~end.escaped /\ end.quote = NoQuote,
          argv |-> IF end.started THEN Append(end.tokens, end.token) ELSE end.tokens ]
  BY DEF TokenizeExec, Between
<1>3. PICK run : Tokenizing!IsRun(run, b, text) /\ Tokenizing!Fold(b, text) = run[Len(text)]
  BY Tokenizing!FoldIsRun, Zenon
<1>4. end = run[Len(text)]
  BY <1>1, <1>3
<1> HIDE DEF end
<1> QED
  BY <1>2, <1>3, <1>4

\* The reader stands behind the first k words.
BehindWords(state, argv, k) ==
  state = IF k = 0 THEN Between(<<>>, <<>>, NoQuote)
          ELSE Within(SubSeq(argv, 1, k - 1), argv[k], NoQuote)

\* What separates two arguments consists of letters.
LEMMA SeparatorType ==
  ASSUME NEW C, NEW i
  PROVE  Separator(i) \in Seq(Letters(C))
<1> DEFINE D == Letters(C)
<1> DEFINE space == " "
<1>1. space \in D
  BY DEF Letters
<1> HIDE DEF D, space
<1>2. <<>> \in Seq(D)
  OBVIOUS
<1>3. <<space>> \in Seq(D)
  BY <1>1
<1> QED
  BY <1>2, <1>3 DEF Separator, D, space

\* The arguments that are written down, and their line, consist of letters.
LEMMA WordsType ==
  ASSUME NEW C, NEW argv \in Seq(Seq(C)), NEW style \in Marks
  PROVE  /\ [i \in DOMAIN argv |-> Separator(i) \o QuoteArgument(argv[i], style)]
              \in Seq(Seq(Letters(C)))
         /\ Words(argv, style) \in Seq(Letters(C))
<1> DEFINE n == Len(argv)
           D == Letters(C)
           pieces == [i \in DOMAIN argv |-> Separator(i) \o QuoteArgument(argv[i], style)]
<1>1. n \in Nat /\ DOMAIN argv = 1..n
  OBVIOUS
<1>2. ASSUME NEW i \in 1..n
      PROVE  Separator(i) \o QuoteArgument(argv[i], style) \in Seq(D)
  <2>1. QuoteArgument(argv[i], style) \in Seq(D)
    BY <1>1, QuoteArgumentType
  <2>2. Separator(i) \in Seq(D)
    BY SeparatorType
  <2> HIDE DEF D
  <2> QED
    BY <2>1, <2>2
<1>3. pieces \in Seq(Seq(D)) /\ Words(argv, style) = FlattenSeq(pieces)
  <2>1. pieces \in Seq(Seq(D))
    <3> HIDE DEF D
    <3> QED
      BY <1>1, <1>2
  <2> QED
    BY <2>1 DEF Words
<1> HIDE DEF pieces, D
<1>4. FlattenSeq(pieces) \in Seq(D)
  BY <1>3, Flattened
<1> QED
  BY <1>3, <1>4 DEF pieces, D

\* One word more.
LEMMA TokenizeWord ==
  ASSUME NEW C, NEW argv \in Seq(Seq(C)), NEW style \in Marks,
         NEW k \in Nat, k + 1 \in 1..Len(argv), NEW run, NEW a \in Nat,
         Tokenizing!Along(run, a, Separator(k + 1) \o QuoteArgument(argv[k + 1], style)),
         BehindWords(run[a], argv, k)
  PROVE  BehindWords(run[a + Len(Separator(k + 1) \o QuoteArgument(argv[k + 1], style))],
                     argv, k + 1)
<1> DEFINE D == Letters(C)
           separator == Separator(k + 1)
           argument == argv[k + 1]
           word == QuoteArgument(argument, style)
           tokens == SubSeq(argv, 1, k)
<1>1. argument \in Seq(C) /\ tokens \in Seq(Seq(C))
  OBVIOUS
<1>2. word \in Seq(D) /\ Len(word) \in Nat
  <2>1. word \in Seq(D)
    BY <1>1, QuoteArgumentType
  <2> HIDE DEF word, D
  <2> QED
    BY <2>1
<1>3. separator \in Seq(D) /\ Len(separator) \in Nat
  <2>1. separator \in Seq(D)
    BY SeparatorType
  <2> HIDE DEF separator, D
  <2> QED
    BY <2>1
<1>4. /\ Tokenizing!Along(run, a, separator)
      /\ Tokenizing!Along(run, a + Len(separator), word)
  <2> HIDE DEF D, separator, word
  <2> QED
    BY <1>2, <1>3, Tokenizing!AlongBoth DEF separator, word
<1>5. run[a + Len(separator)] = Between(tokens, <<>>, NoQuote)
  <2>1. CASE k = 0
    <3>1. separator = <<>> /\ tokens = <<>> /\ a + Len(<<>>) = a
      BY <2>1, SubSeqEmpty DEF Separator
    <3>2. run[a] = Between(<<>>, <<>>, NoQuote)
      BY <2>1 DEF BehindWords
    <3> HIDE DEF separator, tokens
    <3> QED
      BY <3>1, <3>2
  <2>2. CASE k # 0
    <3> DEFINE old == SubSeq(argv, 1, k - 1)
    <3>1. separator = <<" ">> /\ Len(<<" ">>) = 1
      <4>1. k + 1 # 1
        BY <2>2
      <4> QED
        BY <4>1 DEF Separator
    <3>2. old \in Seq(Seq(C)) /\ argv[k] \in Seq(C) /\ tokens = Append(old, argv[k])
      BY <2>2
    <3>3. run[a] = Within(old, argv[k], NoQuote)
      BY <2>2 DEF BehindWords
    <3> HIDE DEF separator, tokens, old
    <3>4. run[a + 1] = TokenizeStep(run[a], " ")
      BY <1>4, <3>1, Tokenizing!AlongOne
    <3>5. TokenizeStep(Within(old, argv[k], NoQuote), " ") =
            Between(Append(old, argv[k]), <<>>, NoQuote)
      BY <3>2, ReadSpace
    <3> QED
      BY <3>1, <3>2, <3>3, <3>4, <3>5
  <2> QED
    BY <2>1, <2>2
<1>6. run[(a + Len(separator)) + Len(word)] = Within(tokens, argument, NoQuote)
  <2>1. a + Len(separator) \in Nat
    BY <1>3
  <2> HIDE DEF separator, argument, tokens
  <2> QED
    BY <1>1, <1>4, <1>5, <2>1, TokenizeArgument
<1>7. a + Len(separator \o word) = (a + Len(separator)) + Len(word)
  <2> HIDE DEF separator, word, D
  <2> QED
    BY <1>2, <1>3
<1>8. k + 1 # 0 /\ (k + 1) - 1 = k
  OBVIOUS
<1>9. run[a + Len(separator \o word)] = Within(tokens, argument, NoQuote)
  BY <1>6, <1>7
<1> HIDE DEF separator, word
<1>10. BehindWords(run[a + Len(separator \o word)], argv, k + 1)
  BY <1>8, <1>9 DEF BehindWords
<1> QED
  BY <1>10 DEF separator, word

\* The text of an argument vector is read as the argument vector.
LEMMA WordsAreRead ==
  ASSUME NEW C, NEW argv \in Seq(Seq(C)), NEW style \in Marks
  PROVE  TokenizeExec(Words(argv, style)).ok /\ TokenizeExec(Words(argv, style)).argv = argv
<1> DEFINE n == Len(argv)
           D == Letters(C)
           text == Words(argv, style)
           pieces == [i \in DOMAIN argv |-> Separator(i) \o QuoteArgument(argv[i], style)]
<1>1. n \in Nat /\ DOMAIN argv = 1..n
  OBVIOUS
<1>2. pieces \in Seq(Seq(D)) /\ text \in Seq(D) /\ Len(pieces) = n
  <2>1. pieces \in Seq(Seq(D)) /\ text \in Seq(D)
    BY WordsType, Zenon
  <2>2. Len(pieces) = n
    BY <1>1
  <2> QED
    BY <2>1, <2>2
<1>3. PICK at : Lies(at, text, pieces)
  <2>1. text = FlattenSeq(pieces)
    BY DEF Words
  <2> HIDE DEF text, pieces, D
  <2> QED
    BY <1>2, <2>1, Flattened
<1>4. PICK run :
        /\ Tokenizing!IsRun(run, Between(<<>>, <<>>, NoQuote), text)
        /\ LET end == run[Len(text)] IN
           TokenizeExec(text) =
             [ ok   |-> ~end.escaped /\ end.quote = NoQuote,
               argv |-> IF end.started THEN Append(end.tokens, end.token) ELSE end.tokens ]
  <2> HIDE DEF text, D
  <2> QED
    BY <1>2, TokenizeRuns
<1> DEFINE T == {k \in Nat : k <= n => BehindWords(run[at[k]], argv, k)}
<1>5. 0 \in T
  <2>1. run[at[0]] = Between(<<>>, <<>>, NoQuote)
    BY <1>3, <1>4 DEF Lies, Tokenizing!IsRun
  <2> QED
    BY <2>1 DEF BehindWords
<1>6. ASSUME NEW k \in Nat, k \in T
      PROVE  k + 1 \in T
  <2> SUFFICES ASSUME k + 1 <= n
               PROVE  BehindWords(run[at[k + 1]], argv, k + 1)
    OBVIOUS
  <2> DEFINE a == at[k]
             piece == Separator(k + 1) \o QuoteArgument(argv[k + 1], style)
  <2>1. k + 1 \in 1..n /\ k <= n
    BY <1>1
  <2>2. BehindWords(run[a], argv, k)
    BY <1>6, <2>1
  <2>3. pieces[k + 1] = piece
    BY <1>1, <2>1
  <2>4. piece \in Seq(D)
    <3> HIDE DEF piece, D
    <3> QED
      <4> HIDE DEF pieces
      <4>1. k + 1 \in 1..Len(pieces) /\ pieces \in Seq(Seq(D))
        BY <1>2, <2>1
      <4>2. pieces[k + 1] \in Seq(D)
        BY <4>1
      <4> QED
        BY <2>3, <4>2
  <2>5. /\ Tokenizing!Part(text, a, piece)
        /\ a \in Nat
        /\ at[k + 1] = a + Len(piece)
    <3> HIDE DEF text, pieces, D, piece
    <3> QED
      BY <1>2, <1>3, <2>1, <2>3, PieceIsPart
  <2>6. Tokenizing!Along(run, a, piece)
    <3> HIDE DEF text, D, piece, a
    <3> QED
      BY <1>2, <1>4, <2>4, <2>5, Tokenizing!RunAlong
  <2>7. BehindWords(run[a + Len(piece)], argv, k + 1)
    <3> HIDE DEF a
    <3> QED
      BY <2>1, <2>2, <2>5, <2>6, TokenizeWord
  <2> QED
    BY <2>5, <2>7
<1> HIDE DEF T
<1>7. Nat \subseteq T
  BY <1>5, <1>6, Unescaping!Induction
<1> DEFINE end == run[Len(text)]
<1>8. BehindWords(end, argv, n)
  <2>1. n \in T /\ n <= n
    BY <1>1, <1>7
  <2>2. at[n] = Len(text)
    BY <1>2, <1>3 DEF Lies
  <2> QED
    BY <2>1, <2>2 DEF T
<1>9. TokenizeExec(text) =
        [ ok   |-> ~end.escaped /\ end.quote = NoQuote,
          argv |-> IF end.started THEN Append(end.tokens, end.token) ELSE end.tokens ]
  BY <1>4
<1> HIDE DEF end, text
<1>12. /\ ~end.escaped /\ end.quote = NoQuote => TokenizeExec(text).ok
       /\ end.started => TokenizeExec(text).argv = Append(end.tokens, end.token)
       /\ ~end.started => TokenizeExec(text).argv = end.tokens
  <2> DEFINE ok == ~end.escaped /\ end.quote = NoQuote
             vector == IF end.started THEN Append(end.tokens, end.token) ELSE end.tokens
  <2>1. TokenizeExec(text) = [ok |-> ok, argv |-> vector]
    BY <1>9
  <2> HIDE DEF ok, vector
  <2>2. TokenizeExec(text).ok = ok /\ TokenizeExec(text).argv = vector
    BY <2>1
  <2> QED
    BY <2>2, Zenon DEF ok, vector
<1>10. CASE n = 0
  <2>1. end = Between(<<>>, <<>>, NoQuote) /\ argv = <<>>
    BY <1>8, <1>10 DEF BehindWords
  <2>2. ~end.escaped /\ end.quote = NoQuote /\ ~end.started /\ end.tokens = <<>>
    BY <2>1 DEF Between
  <2> QED
    BY <1>12, <2>1, <2>2 DEF text
<1>11. CASE n # 0
  <2> DEFINE old == SubSeq(argv, 1, n - 1)
  <2>1. end = Within(old, argv[n], NoQuote)
    BY <1>8, <1>11 DEF BehindWords
  <2>2. Append(old, argv[n]) = argv
    BY <1>11
  <2> HIDE DEF old
  <2>3. /\ ~end.escaped /\ end.quote = NoQuote /\ end.started
        /\ end.tokens = old /\ end.token = argv[n]
    BY <2>1 DEF Within
  <2> QED
    BY <1>12, <2>2, <2>3 DEF text
<1> QED
  BY <1>10, <1>11

\* What is written for an argument vector is read as the argument vector.
THEOREM WriteExecIsRead ==
  ASSUME NEW C, NEW argv \in Seq(Seq(C)), NEW style \in Marks
  PROVE  LET exec == TokenizeExec(UnescapeDesktopValue(WriteExec(argv, style))) IN
         exec.ok /\ exec.argv = argv
<1>1. Words(argv, style) \in Seq(Letters(C))
  BY WordsType
<1>2. WriteExec(argv, style) = EscapeValue(Words(argv, style))
  BY DEF WriteExec, Words
<1>3. UnescapeDesktopValue(EscapeValue(Words(argv, style))) = Words(argv, style)
  BY <1>1, EscapeIsRead
<1> QED
  BY <1>2, <1>3, WordsAreRead

-----------------------------------------------------------------------------
(* The keys of an entry.                                                    *)

\* The fields have the key with that value, or with no value not at all.
Says(fields, key, values) ==
  /\ key \in DOMAIN fields <=> values # {}
  /\ \A value \in values : fields[key] = value

\* A value of one character that is no backslash.
LEMMA UnescapeOne ==
  ASSUME NEW char, char # "\\"
  PROVE  UnescapeDesktopValue(<<char>>) = <<char>>
<1>1. <<char>> \in Seq({char}) /\ Len(<<char>>) = 1 /\ <<char>>[1] = char /\ 1 \in 1..1
  OBVIOUS
<1>2. PICK run :
        /\ Unescaping!IsRun(run, Read(<<>>), <<char>>)
        /\ UnescapeDesktopValue(<<char>>) =
             IF run[Len(<<char>>)].escaped THEN Append(run[Len(<<char>>)].out, "\\")
             ELSE run[Len(<<char>>)].out
  BY <1>1, UnescapeRuns
<1>3. run[1] = UnescapeStep(Read(<<>>), char)
  <2>1. run[0] = Read(<<>>) /\ run[1] = UnescapeStep(run[1 - 1], <<char>>[1])
    BY <1>1, <1>2 DEF Unescaping!IsRun
  <2> QED
    BY <1>1, <2>1
<1>4. run[1] = Read(<<char>>)
  <2>1. <<>> \in Seq({char}) /\ Append(<<>>, char) = <<char>> /\ char \in {char}
    OBVIOUS
  <2>2. UnescapeStep(Read(<<>>), char) = Read(Append(<<>>, char))
    BY <2>1, UnescapeSteps
  <2> QED
    BY <1>3, <2>1, <2>2
<1> QED
  BY <1>1, <1>2, <1>4 DEF Read

\* What the parser knows within the group of the entry, and outside of it.
Inside(fields) == [inside |-> TRUE, fields |-> fields]
Outside(fields) == [inside |-> FALSE, fields |-> fields]

Put(fields, key, value) ==
  [k \in DOMAIN fields \cup {key} |-> IF k = key THEN value ELSE fields[k]]

\* An assignment counts within the group of the entry only.
LEMMA ParseField ==
  ASSUME NEW fields, NEW key, NEW value
  PROVE  /\ ParseLine(Inside(fields), FieldLine(key, value)) =
              Inside(Put(fields, key, UnescapeDesktopValue(value)))
         /\ ParseLine(Outside(fields), FieldLine(key, value)) = Outside(fields)
<1> DEFINE line == FieldLine(key, value)
<1>1. line.kind = "field" /\ line.key = key /\ line.value = value
  BY DEF FieldLine
<1> HIDE DEF line
<1>2. Inside(fields).inside /\ Inside(fields).fields = fields
  BY DEF Inside
<1>3. ~Outside(fields).inside
  BY DEF Outside
<1> DEFINE next == Put(fields, key, UnescapeDesktopValue(value))
<1>4. ParseLine(Inside(fields), line) = [Inside(fields) EXCEPT !.fields = next]
  BY <1>1, <1>2, Zenon DEF ParseLine, Put
<1>5. [Inside(fields) EXCEPT !.fields = next] = Inside(next)
  <2> HIDE DEF next
  <2>1. Inside(fields) \in [inside : BOOLEAN, fields : {fields, next}]
    BY DEF Inside
  <2> DEFINE r == Inside(fields)
  <2>2. r \in [inside : BOOLEAN, fields : {fields, next}] /\ r.inside = TRUE
    BY <2>1 DEF Inside
  <2> HIDE DEF r
  <2>3. [r EXCEPT !.fields = next] = [inside |-> r.inside, fields |-> next]
    BY <2>2
  <2>4. r.inside = TRUE
    BY <2>2
  <2>5. [r EXCEPT !.fields = next] = [inside |-> TRUE, fields |-> next]
    BY <2>3, <2>4, Zenon
  <2> QED
    BY <2>5, Zenon DEF Inside, r
<1>6. ParseLine(Outside(fields), line) = Outside(fields)
  BY <1>1, <1>3 DEF ParseLine
<1> QED
  BY <1>4, <1>5, <1>6 DEF line

\* The header of the group of the entry begins what counts, another one ends it.
LEMMA ParseGroup ==
  ASSUME NEW fields
  PROVE  /\ ParseLine(Outside(fields), GroupLine(EntryGroup)) = Inside(fields)
         /\ ParseLine(Inside(fields), GroupLine("[Desktop Action]")) = Outside(fields)
         /\ ParseLine(Outside(fields), IgnoredLine) = Outside(fields)
BY DEF ParseLine, Outside, Inside, GroupLine, IgnoredLine, EntryGroup

If(present, value) == IF present THEN {value} ELSE {}

Maybe(present, line) == IF present THEN <<line>> ELSE <<>>

\* What is read from the lines of the group are these keys and nothing else.
ReadsAs(lines, keys, facts) ==
  \E fields :
    /\ Parsing!Fold(Outside(<<>>), lines) = Inside(fields)
    /\ DOMAIN fields \subseteq keys
    /\ \A fact \in facts : fact[1] \in keys /\ Says(fields, fact[1], fact[2])

\* A line that may be there adds its key.
LEMMA ParseMaybe ==
  ASSUME NEW E, NEW lines \in Seq(E), NEW key, NEW value, FieldLine(key, value) \in E,
         NEW present, NEW keys, NEW facts, ReadsAs(lines, keys, facts), key \notin keys
  PROVE  LET more == lines \o Maybe(present, FieldLine(key, value)) IN
         /\ more \in Seq(E)
         /\ ReadsAs(more, keys \cup {key},
                    facts \cup {<<key, If(present, UnescapeDesktopValue(value))>>})
<1> DEFINE line == FieldLine(key, value)
           b == Outside(<<>>)
           text == UnescapeDesktopValue(value)
           more == lines \o Maybe(present, line)
           known == facts \cup {<<key, If(present, text)>>}
<1>1. PICK fields :
        /\ Parsing!Fold(b, lines) = Inside(fields)
        /\ DOMAIN fields \subseteq keys
        /\ \A fact \in facts : fact[1] \in keys /\ Says(fields, fact[1], fact[2])
  BY DEF ReadsAs
<1>2. SUFFICES ASSUME NEW new,
                      more \in Seq(E),
                      Parsing!Fold(b, more) = Inside(new),
                      DOMAIN new \subseteq keys \cup {key},
                      Says(new, key, If(present, text)),
                      \A k \in keys : k \in DOMAIN new <=> k \in DOMAIN fields,
                      \A k \in DOMAIN fields : new[k] = fields[k]
               PROVE  ReadsAs(more, keys \cup {key}, known)
  <2>1. CASE present
    <3> DEFINE new == Put(fields, key, text)
    <3>1. more = Append(lines, line)
      <4> HIDE DEF line
      <4> QED
        BY <2>1 DEF Maybe
    <3>2. Append(lines, line) \in Seq(E)
      <4> HIDE DEF line
      <4> QED
        BY DEF line
    <3>3. Parsing!Fold(b, Append(lines, line)) = ParseLine(Parsing!Fold(b, lines), line)
      BY Parsing!FoldAppend
    <3>4. Parsing!Fold(b, Append(lines, line)) = Inside(new)
      BY <1>1, <3>3, ParseField
    <3> HIDE DEF text, line
    <3>5. /\ DOMAIN new = DOMAIN fields \cup {key}
          /\ new[key] = text
          /\ \A k \in DOMAIN fields : k # key => new[k] = fields[k]
      BY DEF Put
    <3> HIDE DEF new
    <3>6. Says(new, key, If(present, text))
      BY <2>1, <3>5 DEF Says, If
    <3> HIDE DEF more, known
    <3>7. /\ more \in Seq(E) /\ Parsing!Fold(b, more) = Inside(new)
          /\ DOMAIN new \subseteq keys \cup {key}
          /\ \A k \in keys : k \in DOMAIN new <=> k \in DOMAIN fields
          /\ \A k \in DOMAIN fields : new[k] = fields[k]
      BY <1>1, <3>1, <3>2, <3>4, <3>5
    <3> QED
      BY <3>6, <3>7 DEF more, known, line, text
  <2>2. CASE ~present
    <3>1. more = lines
      BY <2>2 DEF Maybe
    <3>2. Says(fields, key, If(present, text))
      BY <1>1, <2>2 DEF Says, If
    <3> HIDE DEF more, known, text
    <3>3. DOMAIN fields \subseteq keys \cup {key}
      BY <1>1
    <3> QED
      BY <1>1, <3>1, <3>2, <3>3 DEF more, known, text
  <2> QED
    BY <2>1, <2>2
<1>3. ASSUME NEW fact \in known
      PROVE  fact[1] \in keys \cup {key} /\ Says(new, fact[1], fact[2])
  <2>1. CASE fact \in facts
    BY <1>1, <1>2, <2>1 DEF Says
  <2>2. CASE fact = <<key, If(present, text)>>
    <3> HIDE DEF text
    <3>1. fact[1] = key /\ fact[2] = If(present, text)
      BY <2>2
    <3> QED
      BY <1>2, <3>1
  <2> QED
    BY <2>1, <2>2
<1> QED
  BY <1>2, <1>3 DEF ReadsAs

\* Another group.
Rest ==
  <<GroupLine("[Desktop Action]"), FieldLine("Exec", <<"%">>), FieldLine("Hidden", <<"true">>)>>

\* The lines of an entry.
Lines(type, named, hidden, noDisplay, exec, trying, try, other) ==
  <<IgnoredLine, GroupLine(EntryGroup)>>
  \o Maybe(TRUE, FieldLine("Type", type))
  \o Maybe(named, FieldLine("Name", <<"Name">>))
  \o Maybe(hidden, FieldLine("Hidden", <<"true">>))
  \o Maybe(noDisplay, FieldLine("NoDisplay", <<"true">>))
  \o Maybe(TRUE, FieldLine("Exec", exec))
  \o Maybe(trying, FieldLine("TryExec", try))
  \o (IF other THEN Rest ELSE <<>>)

\* What another group says does not matter.
LEMMA ParseOther ==
  ASSUME NEW E, NEW lines \in Seq(E), NEW fields,
         Parsing!Fold(Outside(<<>>), lines) = Inside(fields)
  PROVE  Parsing!Fold(Outside(<<>>), lines \o Rest) = Outside(fields)
<1> DEFINE b == Outside(<<>>)
           g == GroupLine("[Desktop Action]")
           x == FieldLine("Exec", <<"%">>)
           h == FieldLine("Hidden", <<"true">>)
           D == E \cup {g, x, h}
           l1 == Append(lines, g)
           l2 == Append(l1, x)
           l3 == Append(l2, h)
<1>1. /\ lines \in Seq(D) /\ l1 \in Seq(D) /\ l2 \in Seq(D)
      /\ lines \o <<g, x, h>> = l3
      /\ g \in D /\ x \in D /\ h \in D
  <2> HIDE DEF g, x, h
  <2> QED
    OBVIOUS
<1> HIDE DEF D, l1, l2, l3
<1>2. Parsing!Fold(b, l1) = ParseLine(Parsing!Fold(b, lines), g)
  <2> HIDE DEF g, b
  <2> QED
    BY <1>1, Parsing!FoldAppend DEF l1
<1>3. Parsing!Fold(b, l2) = ParseLine(Parsing!Fold(b, l1), x)
  <2>1. l1 \in Seq(D) /\ x \in D
    BY <1>1
  <2>2. l2 = Append(l1, x)
    BY DEF l2
  <2> HIDE DEF x, b
  <2> QED
    BY <2>1, <2>2, Parsing!FoldAppend
<1>4. Parsing!Fold(b, l3) = ParseLine(Parsing!Fold(b, l2), h)
  <2>1. l2 \in Seq(D) /\ h \in D
    BY <1>1
  <2>2. l3 = Append(l2, h)
    BY DEF l3
  <2> HIDE DEF h, b
  <2> QED
    BY <2>1, <2>2, Parsing!FoldAppend
<1>5. Parsing!Fold(b, l1) = Outside(fields)
  BY <1>2, ParseGroup
<1>6. Parsing!Fold(b, l2) = Outside(fields)
  BY <1>3, <1>5, ParseField
<1>7. Parsing!Fold(b, l3) = Outside(fields)
  BY <1>4, <1>6, ParseField
<1>8. Rest = <<g, x, h>>
  BY DEF Rest
<1> HIDE DEF g, x, h, b
<1> QED
  BY <1>1, <1>7, <1>8 DEF b

\* The keys are read with their values, and what another group says is not.
LEMMA LinesAreRead ==
  ASSUME NEW type, NEW named, NEW hidden, NEW noDisplay, NEW exec, NEW trying, NEW try, NEW other
  PROVE  LET fields == ParseDesktopEntry(
                         Lines(type, named, hidden, noDisplay, exec, trying, try, other)) IN
         /\ Says(fields, "Type", {UnescapeDesktopValue(type)})
         /\ Says(fields, "Name", If(named, UnescapeDesktopValue(<<"Name">>)))
         /\ Says(fields, "Hidden", If(hidden, UnescapeDesktopValue(<<"true">>)))
         /\ Says(fields, "NoDisplay", If(noDisplay, UnescapeDesktopValue(<<"true">>)))
         /\ Says(fields, "Exec", {UnescapeDesktopValue(exec)})
         /\ Says(fields, "TryExec", If(trying, UnescapeDesktopValue(try)))
<1> DEFINE b == Outside(<<>>)
           U(v) == UnescapeDesktopValue(v)
           i == IgnoredLine
           j == GroupLine(EntryGroup)
           n1 == FieldLine("Type", type)
           n2 == FieldLine("Name", <<"Name">>)
           n3 == FieldLine("Hidden", <<"true">>)
           n4 == FieldLine("NoDisplay", <<"true">>)
           n5 == FieldLine("Exec", exec)
           n6 == FieldLine("TryExec", try)
           E == {i, j, n1, n2, n3, n4, n5, n6}
           l0 == <<i, j>>
           l1 == l0 \o Maybe(TRUE, n1)
           l2 == l1 \o Maybe(named, n2)
           l3 == l2 \o Maybe(hidden, n3)
           l4 == l3 \o Maybe(noDisplay, n4)
           l5 == l4 \o Maybe(TRUE, n5)
           l6 == l5 \o Maybe(trying, n6)
           l7 == l6 \o (IF other THEN Rest ELSE <<>>)
           k1 == {} \cup {<<"Type", If(TRUE, U(type))>>}
           k2 == k1 \cup {<<"Name", If(named, U(<<"Name">>))>>}
           k3 == k2 \cup {<<"Hidden", If(hidden, U(<<"true">>))>>}
           k4 == k3 \cup {<<"NoDisplay", If(noDisplay, U(<<"true">>))>>}
           k5 == k4 \cup {<<"Exec", If(TRUE, U(exec))>>}
           k6 == k5 \cup {<<"TryExec", If(trying, U(try))>>}
<1>0. i \in E /\ j \in E /\ n1 \in E /\ n2 \in E /\ n3 \in E /\ n4 \in E /\ n5 \in E /\ n6 \in E
  <2> HIDE DEF i, j, n1, n2, n3, n4, n5, n6
  <2> QED
    OBVIOUS
<1> HIDE DEF E
<1>1. l0 \in Seq(E) /\ ReadsAs(l0, {}, {})
  <2> DEFINE e == <<>>
  <2>1. /\ e \in Seq(E) /\ Append(e, i) \in Seq(E)
        /\ l0 = Append(Append(e, i), j) /\ l0 \in Seq(E)
    <3> HIDE DEF i, j
    <3> QED
      BY <1>0
  <2>2. Parsing!Fold(b, e) = b
    BY Parsing!FoldEmpty
  <2>3. Parsing!Fold(b, Append(e, i)) = ParseLine(Parsing!Fold(b, e), i)
    <3> HIDE DEF e, i, b
    <3> QED
      BY <1>0, <2>1, Parsing!FoldAppend
  <2>4. Parsing!Fold(b, Append(Append(e, i), j)) = ParseLine(Parsing!Fold(b, Append(e, i)), j)
    <3> DEFINE f == Append(e, i)
    <3>1. f \in Seq(E) /\ j \in E
      BY <1>0, <2>1
    <3> HIDE DEF e, i, j, b, f
    <3>2. Parsing!Fold(b, Append(f, j)) = ParseLine(Parsing!Fold(b, f), j)
      BY <3>1, Parsing!FoldAppend
    <3> QED
      BY <3>2 DEF f
  <2>5. Parsing!Fold(b, l0) = Inside(<<>>)
    BY <2>1, <2>2, <2>3, <2>4, ParseGroup
  <2>6. DOMAIN <<>> = {}
    OBVIOUS
  <2> QED
    BY <2>1, <2>5, <2>6 DEF ReadsAs
<1> HIDE DEF l0
<1>2. l1 \in Seq(E) /\ ReadsAs(l1, {} \cup {"Type"}, k1)
  BY <1>0, <1>1, ParseMaybe
<1> HIDE DEF l1, k1
<1>3. l2 \in Seq(E) /\ ReadsAs(l2, {"Type"} \cup {"Name"}, k2)
  BY <1>0, <1>2, ParseMaybe
<1> HIDE DEF l2, k2
<1>4. l3 \in Seq(E) /\ ReadsAs(l3, {"Type", "Name"} \cup {"Hidden"}, k3)
  BY <1>0, <1>3, ParseMaybe
<1> HIDE DEF l3, k3
<1>5. l4 \in Seq(E) /\ ReadsAs(l4, {"Type", "Name", "Hidden"} \cup {"NoDisplay"}, k4)
  BY <1>0, <1>4, ParseMaybe
<1> HIDE DEF l4, k4
<1>6. l5 \in Seq(E) /\ ReadsAs(l5, {"Type", "Name", "Hidden", "NoDisplay"} \cup {"Exec"}, k5)
  BY <1>0, <1>5, ParseMaybe
<1> HIDE DEF l5, k5
<1>7. l6 \in Seq(E) /\ ReadsAs(l6, {"Type", "Name", "Hidden", "NoDisplay", "Exec"} \cup {"TryExec"}, k6)
  BY <1>0, <1>6, ParseMaybe
<1> HIDE DEF l6, k6
<1>8. PICK fields : /\ Parsing!Fold(b, l6) = Inside(fields)
                    /\ \A fact \in k6 : Says(fields, fact[1], fact[2])
  BY <1>7 DEF ReadsAs
<1>9. Parsing!Fold(b, l7) \in {Inside(fields), Outside(fields)}
  <2>1. CASE other
    <3>1. l6 \in Seq(E) /\ Parsing!Fold(b, l6) = Inside(fields)
      BY <1>7, <1>8
    <3>2. Parsing!Fold(b, l6 \o Rest) = Outside(fields)
      BY <3>1, ParseOther
    <3>3. l7 = l6 \o Rest
      BY <2>1, Zenon
    <3> QED
      BY <3>2, <3>3, Zenon
  <2>2. CASE ~other
    <3>1. l7 = l6
      BY <1>7, <2>2
    <3> QED
      BY <1>8, <3>1
  <2> QED
    BY <2>1, <2>2
<1>10. ParseDesktopEntry(l7) = fields
  <2>1. FoldLeft(ParseLine, b, l7) = Parsing!Fold(b, l7)
    BY Zenon DEF FoldLeft, Parsing!FoldLeft, MapThenFoldSet, Parsing!MapThenFoldSet,
                 Max, Parsing!Max, Parsing!Fold
  <2>2. ParseDesktopEntry(l7) = FoldLeft(ParseLine, b, l7).fields
    BY DEF ParseDesktopEntry, Outside
  <2> HIDE DEF l7
  <2> QED
    BY <1>9, <2>1, <2>2 DEF Inside, Outside
<1>11. l7 = Lines(type, named, hidden, noDisplay, exec, trying, try, other)
  BY Zenon DEF Lines, l6, l5, l4, l3, l2, l1, l0
<1>12. /\ <<"Type", If(TRUE, U(type))>> \in k6
       /\ <<"Name", If(named, U(<<"Name">>))>> \in k6
       /\ <<"Hidden", If(hidden, U(<<"true">>))>> \in k6
       /\ <<"NoDisplay", If(noDisplay, U(<<"true">>))>> \in k6
       /\ <<"Exec", If(TRUE, U(exec))>> \in k6
       /\ <<"TryExec", If(trying, U(try))>> \in k6
  BY DEF k1, k2, k3, k4, k5, k6
<1>13. \A key, values : <<key, values>> \in k6 => Says(fields, key, values)
  <2> SUFFICES ASSUME NEW key, NEW values, <<key, values>> \in k6
               PROVE  Says(fields, key, values)
    OBVIOUS
  <2>1. Says(fields, <<key, values>>[1], <<key, values>>[2])
    BY <1>8
  <2> QED
    BY <2>1
<1>14. If(TRUE, U(type)) = {U(type)} /\ If(TRUE, U(exec)) = {U(exec)}
  BY DEF If
<1> HIDE DEF l7, U
<1> QED
  BY <1>10, <1>11, <1>12, <1>13, <1>14 DEF U

-----------------------------------------------------------------------------
(* A file is read as it is meant.                                           *)

\* What is looked up is what was said of the key.
LEMMA FieldSays ==
  ASSUME NEW fields, NEW key
  PROVE  /\ \A value : Says(fields, key, {value}) => Field(fields, key) = value
         /\ Says(fields, key, {}) => Field(fields, key) = <<>>
BY DEF Says, Field

\* The text of a readable entry says what its author means, the arguments and the
\* program it is only for, and that of an entry that means nothing says nothing.
THEOREM ParseIsMeant ==
  ASSUME NEW path, path.desktop, NEW content, IsContent(content),
         content \notin {Absent, Unreadable}
  PROVE  ParseSessionFile(path, content) = Meant(path, content)
<1> DEFINE raw == content.sort = "raw"
           exec == IF raw THEN content.exec ELSE WriteExec(content.argv, content.style)
           flag == IF raw THEN "plain" ELSE content.flag
           type == IF flag = "link" THEN <<"Link">> ELSE <<"Application">>
           try == EscapeValue(IF raw THEN NoCommand ELSE content.try)
           trying == content.sort = "entry" /\ content.try # NoCommand
           named == flag # "unnamed"
           hidden == flag = "hidden"
           quiet == flag = "noDisplay"
           other == flag = "otherGroup"
           fields == ParseDesktopEntry(Text(content))
           U(v) == UnescapeDesktopValue(v)
<1>1. Text(content) = Lines(type, named, hidden, quiet, exec, trying, try, other)
  BY Zenon DEF Text, Lines, Maybe, Rest
<1>2. /\ Says(fields, "Type", {U(type)})
      /\ Says(fields, "Name", If(named, U(<<"Name">>)))
      /\ Says(fields, "Hidden", If(hidden, U(<<"true">>)))
      /\ Says(fields, "NoDisplay", If(quiet, U(<<"true">>)))
      /\ Says(fields, "Exec", {U(exec)})
      /\ Says(fields, "TryExec", If(trying, U(try)))
  <2> HIDE DEF raw, exec, flag, type, try, trying, named, hidden, quiet, other
  <2> QED
    BY <1>1, LinesAreRead
<1>3. U(type) = type /\ U(<<"true">>) = <<"true">>
  <2>1. U(<<"Link">>) = <<"Link">> /\ U(<<"Application">>) = <<"Application">>
    BY UnescapeOne
  <2>2. U(<<"true">>) = <<"true">>
    BY UnescapeOne
  <2> HIDE DEF U
  <2> QED
    BY <2>1, <2>2
<1> DEFINE result == TokenizeExec(Field(fields, "Exec"))
<1>4. result = TokenizeExec(U(exec)) /\ Field(fields, "Type") = type
  BY <1>2, <1>3, FieldSays
<1>5. content.sort \in {"raw", "entry"}
  <2>1. content.sort # "entry" /\ content.sort # "raw" => content \in {Absent, Unreadable}
    BY DEF IsContent
  <2> QED
    BY <2>1
<1>6. CASE raw
  <2>1. ~result.ok \/ result.argv = <<>>
    BY <1>4, <1>6 DEF IsContent, SaysNothing
  <2>2. ParseSessionFile(path, content) = {}
    BY <2>1 DEF ParseSessionFile
  <2>3. Meant(path, content) = {}
    BY <1>6 DEF Meant
  <2> QED
    BY <2>2, <2>3
<1>7. CASE content.sort = "entry"
  <2>0. ~raw
    BY <1>7
  <2>1. /\ content.argv \in Seq(Seq(Characters)) /\ content.style \in Marks
        /\ content.flag \in Flags /\ content.try \in Seq(Characters)
    BY <1>7 DEF IsContent, Marks
  <2>2. result.ok /\ result.argv = content.argv
    <3>1. exec = WriteExec(content.argv, content.style)
      BY <2>0
    <3> QED
      BY <1>4, <2>1, <3>1, WriteExecIsRead
  <2>3. U(try) = content.try
    <3>1. try = EscapeValue(content.try)
      BY <2>0
    <3> QED
      <4> HIDE DEF try
      <4> QED
        BY <2>1, <3>1, EscapeIsRead
  <2>4. flag = content.flag
    BY <2>0
  <2> HIDE DEF result, fields, U, try, exec, raw, flag
  <2>5. Field(fields, "Type") = <<"Application">> <=> content.flag # "link"
    <3>1. <<"Link">> # <<"Application">>
      OBVIOUS
    <3> QED
      BY <1>4, <2>4, <3>1
  <2>6. <<"true">> \notin {Field(fields, "Hidden"), Field(fields, "NoDisplay")}
          <=> content.flag \notin {"hidden", "noDisplay"}
    <3>1. <<"true">> # <<>>
      OBVIOUS
    <3>2. Field(fields, "Hidden") = IF content.flag = "hidden" THEN <<"true">> ELSE <<>>
      BY <1>2, <1>3, <2>4, FieldSays DEF If
    <3>3. Field(fields, "NoDisplay") = IF content.flag = "noDisplay" THEN <<"true">> ELSE <<>>
      BY <1>2, <1>3, <2>4, FieldSays DEF If
    <3> QED
      BY <3>1, <3>2, <3>3
  <2>7. "Name" \in DOMAIN fields <=> content.flag # "unnamed"
    BY <1>2, <2>4 DEF Says, If
  <2> DEFINE tries == IF "TryExec" \in DOMAIN fields THEN {fields["TryExec"]} ELSE {}
  <2>8. tries = {content.try} \ {NoCommand}
    <3>1. "TryExec" \in DOMAIN fields <=> content.try # NoCommand
      BY <1>2, <1>7 DEF Says, If
    <3>2. content.try # NoCommand => fields["TryExec"] = content.try
      BY <1>2, <1>7, <2>3 DEF Says, If
    <3> QED
      BY <3>1, <3>2
  <2>9. content.flag \in {"plain", "otherGroup"} <=>
          content.flag \notin {"link", "hidden", "noDisplay", "unnamed"}
    BY <2>1 DEF Flags
  <2> DEFINE argv == content.argv
             good == /\ content.flag \in {"plain", "otherGroup"}
                     /\ argv # <<>>
                     /\ \A i \in DOMAIN argv : "%" \notin Range(argv[i])
  <2>10. ParseSessionFile(path, content) =
           IF good THEN {[path |-> path, exec |-> argv, try |-> tries]} ELSE {}
    <3>1. (/\ Field(fields, "Type") = <<"Application">>
           /\ <<"true">> \notin {Field(fields, "Hidden"), Field(fields, "NoDisplay")}
           /\ "Name" \in DOMAIN fields
           /\ result.ok
           /\ result.argv # <<>>
           /\ \A i \in DOMAIN result.argv : "%" \notin Range(result.argv[i])) <=> good
      BY <2>2, <2>5, <2>6, <2>7, <2>9
    <3> HIDE DEF good
    <3> QED
      BY <2>2, <3>1, Zenon DEF ParseSessionFile, fields, result
  <2>11. Meant(path, content) =
           IF good THEN {[path |-> path, exec |-> argv, try |-> {content.try} \ {NoCommand}]}
           ELSE {}
    BY <1>7 DEF Meant
  <2> HIDE DEF good, tries
  <2> QED
    BY <2>8, <2>10, <2>11
<1> QED
  BY <1>5, <1>6, <1>7

-----------------------------------------------------------------------------
(* The order of sessions.                                                   *)

\* The order of sessions is transitive and total.
LEMMA PrecedesOrders ==
  ASSUME NEW p \in Paths, NEW q \in Paths, NEW r \in Paths
  PROVE  /\ Precedes(p, q) /\ Precedes(q, r) => Precedes(p, r)
         /\ ~Precedes(p, q) => Precedes(q, p)
<1>1. /\ p \in [root : {"wayland", "x11"}, stem : Nat, desktop : BOOLEAN]
      /\ q \in [root : {"wayland", "x11"}, stem : Nat, desktop : BOOLEAN]
      /\ r \in [root : {"wayland", "x11"}, stem : Nat, desktop : BOOLEAN]
  BY PathsAssumption
<1>2. /\ p.root \in {"wayland", "x11"} /\ q.root \in {"wayland", "x11"}
      /\ r.root \in {"wayland", "x11"}
      /\ p.stem \in Nat /\ q.stem \in Nat /\ r.stem \in Nat
  BY <1>1
<1> QED
  BY <1>2 DEF Precedes

\* The sessions in order, and none twice except in the paths of D.
Ordered(sessions, D) ==
  \A i, j \in DOMAIN sessions : i < j =>
    /\ Precedes(sessions[i].path, sessions[j].path)
    /\ sessions[i].path = sessions[j].path => sessions[i].path \in D

\* No session is there twice except in the paths of D.
Distinct(sessions, D) ==
  \A i, j \in DOMAIN sessions :
    i < j /\ sessions[i].path = sessions[j].path => sessions[i].path \in D

\* The smallest of a set of positions.
LEMMA MinOf ==
  ASSUME NEW n \in Nat, NEW I \in SUBSET (1..n), I # {}
  PROVE  Min(I) \in I /\ \A i \in I : Min(I) <= i
<1>1. I \in SUBSET Nat
  OBVIOUS
<1>2. PICK x \in I : \A y \in I : ~(<<y, x>> \in Sorting!Below)
  <2>1. IsWellFoundedOn(Sorting!Below, Nat)
    BY NatLessThanWellFounded DEF OpToRel, Sorting!Below
  <2> QED
    BY <1>1, <2>1, WFMin, Zenon
<1>3. \A y \in I : x <= y
  <2> SUFFICES ASSUME NEW y \in I
               PROVE  ~(y < x)
    BY <1>1
  <2>1. ~(<<y, x>> \in Sorting!Below)
    BY <1>2
  <2>2. <<y, x>> \in Nat \X Nat /\ <<y, x>>[1] = y /\ <<y, x>>[2] = x
    BY <1>1
  <2> QED
    BY <2>1, <2>2 DEF Sorting!Below
<1>4. \E z \in I : \A y \in I : y >= z
  BY <1>1, <1>3
<1>5. Min(I) \in I /\ \A y \in I : y >= Min(I)
  BY <1>4, Zenon DEF Min
<1> QED
  BY <1>1, <1>5

\* Where a session is put: behind those that do not come after it.
LEMMA InsertPlace ==
  ASSUME NEW S, NEW sorted \in Seq(S), NEW session \in S
  PROVE  \E m \in 1..(Len(sorted) + 1) :
           LET new == InsertSession(sorted, session) IN
           /\ new \in Seq(S) /\ Len(new) = Len(sorted) + 1
           /\ new[m] = session
           /\ \A i \in 1..Len(sorted) : i < m =>
                new[i] = sorted[i] /\ Precedes(sorted[i].path, session.path)
           /\ \A i \in 1..Len(sorted) : m <= i => new[i + 1] = sorted[i]
           /\ m <= Len(sorted) => ~Precedes(sorted[m].path, session.path)
<1> DEFINE I == {i \in 1..Len(sorted) : ~Precedes(sorted[i].path, session.path)}
           later == IF I # {} THEN Min(I) ELSE 0
           new == InsertSession(sorted, session)
<1>1. Len(sorted) \in Nat
  OBVIOUS
<1>2. new = IF later = 0 THEN Append(sorted, session) ELSE InsertAt(sorted, later, session)
  BY Zenon DEF InsertSession, SelectInSeq
<1>3. CASE I = {}
  <2>1. new = Append(sorted, session)
    BY <1>2, <1>3
  <2>2. \A i \in 1..Len(sorted) : Precedes(sorted[i].path, session.path)
    BY <1>3
  <2> HIDE DEF new
  <2> WITNESS Len(sorted) + 1 \in 1..(Len(sorted) + 1)
  <2> QED
    BY <1>1, <2>1, <2>2 DEF new
<1>4. CASE I # {}
  <2> DEFINE m == Min(I)
  <2>1. m \in I /\ \A i \in I : m <= i
    <3>1. I \in SUBSET (1..Len(sorted))
      OBVIOUS
    <3> HIDE DEF I
    <3> QED
      BY <1>1, <1>4, <3>1, MinOf
  <2> HIDE DEF m
  <2>2. m \in 1..Len(sorted) /\ ~Precedes(sorted[m].path, session.path)
    BY <2>1
  <2>3. \A i \in 1..Len(sorted) : i < m => Precedes(sorted[i].path, session.path)
    BY <2>1
  <2>4. new = SubSeq(sorted, 1, m - 1) \o <<session>> \o SubSeq(sorted, m, Len(sorted))
    <3>1. later = m /\ later # 0
      BY <1>4, <2>2 DEF m
    <3> HIDE DEF later, new
    <3> QED
      BY <1>2, <3>1 DEF InsertAt
  <2> DEFINE front == SubSeq(sorted, 1, m - 1)
             back == SubSeq(sorted, m, Len(sorted))
  <2>5. /\ front \in Seq(S) /\ Len(front) = m - 1
        /\ \A i \in 1..(m - 1) : front[i] = sorted[i]
    BY <1>1, <2>2
  <2>6. /\ back \in Seq(S) /\ Len(back) = Len(sorted) - m + 1
        /\ \A i \in 1..(Len(sorted) - m + 1) : back[i] = sorted[m + i - 1]
    BY <1>1, <2>2
  <2> HIDE DEF front, back
  <2> DEFINE start == front \o <<session>>
  <2>7. /\ start \in Seq(S) /\ Len(start) = m /\ start[m] = session
        /\ \A i \in 1..(m - 1) : start[i] = sorted[i]
    BY <1>1, <2>2, <2>5
  <2>8. new = start \o back
    BY <2>4 DEF front, back
  <2> HIDE DEF start, new
  <2>9. new \in Seq(S) /\ Len(new) = Len(sorted) + 1
    <3>1. new \in Seq(S) /\ Len(new) = Len(start) + Len(back)
      BY <2>6, <2>7, <2>8
    <3>2. m + (Len(sorted) - m + 1) = Len(sorted) + 1
      BY <1>1, <2>2
    <3> QED
      BY <2>6, <2>7, <3>1, <3>2
  <2>10. \A i \in 1..m : new[i] = start[i]
    BY <1>1, <2>2, <2>6, <2>7, <2>8
  <2>11. \A i \in 1..Len(back) : new[m + i] = back[i]
    BY <1>1, <2>2, <2>6, <2>7, <2>8
  <2>12. ASSUME NEW i \in 1..Len(sorted), m <= i
         PROVE  new[i + 1] = sorted[i]
    <3>1. i - m + 1 \in 1..Len(back) /\ m + (i - m + 1) = i + 1 /\ m + (i - m + 1) - 1 = i
      BY <1>1, <2>2, <2>6, <2>12
    <3> QED
      BY <2>6, <2>11, <3>1
  <2>13. new[m] = session /\ \A i \in 1..Len(sorted) : i < m => new[i] = sorted[i]
    BY <1>1, <2>2, <2>7, <2>10
  <2>14. m \in 1..(Len(sorted) + 1)
    BY <1>1, <2>2
  <2> QED
    BY <2>2, <2>3, <2>9, <2>12, <2>13, <2>14 DEF new
<1> QED
  BY <1>3, <1>4

\* What is sorted so far, of the first k sessions.
SortedUpTo(sorted, found, S, D, k) ==
  /\ sorted \in Seq(S)
  /\ Range(sorted) = {found[i] : i \in 1..k}
  /\ Ordered(sorted, D)

\* A session more is put where it belongs, behind its equals.
LEMMA InsertOrdered ==
  ASSUME NEW S, \A s \in S : s.path \in Paths, NEW found \in Seq(S), NEW D, Distinct(found, D),
         NEW k \in Nat, k + 1 \in 1..Len(found),
         NEW sorted, SortedUpTo(sorted, found, S, D, k)
  PROVE  SortedUpTo(InsertSession(sorted, found[k + 1]), found, S, D, k + 1)
<1> DEFINE session == found[k + 1]
           new == InsertSession(sorted, session)
           n == Len(sorted)
<1>1. session \in S /\ sorted \in Seq(S) /\ n \in Nat /\ DOMAIN sorted = 1..n
  BY DEF SortedUpTo
<1>2. PICK m \in 1..(n + 1) :
        /\ new \in Seq(S) /\ Len(new) = n + 1
        /\ new[m] = session
        /\ \A i \in 1..n : i < m => new[i] = sorted[i] /\ Precedes(sorted[i].path, session.path)
        /\ \A i \in 1..n : m <= i => new[i + 1] = sorted[i]
        /\ m <= n => ~Precedes(sorted[m].path, session.path)
  <2> HIDE DEF n, session
  <2> QED
    BY <1>1, InsertPlace DEF n
<1> HIDE DEF new, session
<1>3. DOMAIN new = 1..(n + 1)
  BY <1>1, <1>2
\* Where an element of the new sequence was before.
<1>4. \A j \in 1..(n + 1) : \/ j = m
                            \/ j < m /\ j \in 1..n /\ new[j] = sorted[j]
                            \/ m < j /\ j - 1 \in 1..n /\ m <= j - 1 /\ new[j] = sorted[j - 1]
  <2> SUFFICES ASSUME NEW j \in 1..(n + 1)
               PROVE  \/ j = m
                      \/ j < m /\ j \in 1..n /\ new[j] = sorted[j]
                      \/ m < j /\ j - 1 \in 1..n /\ m <= j - 1 /\ new[j] = sorted[j - 1]
    OBVIOUS
  <2>1. CASE j < m
    BY <1>1, <1>2, <2>1
  <2>2. CASE j > m
    <3>1. j - 1 \in 1..n /\ m <= j - 1 /\ (j - 1) + 1 = j
      BY <1>1, <2>2
    <3> QED
      BY <1>2, <2>2, <3>1
  <2> QED
    BY <1>1, <2>1, <2>2
<1>5. \A i \in 1..n : sorted[i] \in S /\ sorted[i].path \in Paths
  BY <1>1
<1>6. session.path \in Paths
  BY <1>1
<1>7. ASSUME NEW i \in 1..n
      PROVE  /\ i < m => Precedes(sorted[i].path, session.path)
             /\ m <= i => Precedes(session.path, sorted[i].path)
             /\ sorted[i].path = session.path => session.path \in D
  <2>1. i < m => Precedes(sorted[i].path, session.path)
    BY <1>2
  <2>2. ASSUME m <= i
        PROVE  Precedes(session.path, sorted[i].path)
    <3>1. m \in 1..n
      BY <1>1, <2>2
    <3>2. Precedes(session.path, sorted[m].path)
      BY <1>2, <1>5, <1>6, <3>1, PrecedesOrders
    <3>3. m < i => Precedes(sorted[m].path, sorted[i].path)
      BY <1>1, <3>1 DEF SortedUpTo, Ordered
    <3> QED
      BY <1>5, <1>6, <2>2, <3>1, <3>2, <3>3, PrecedesOrders
  <2>3. ASSUME sorted[i].path = session.path
        PROVE  session.path \in D
    <3>1. sorted[i] \in Range(sorted)
      BY <1>1 DEF Range
    <3>2. PICK j \in 1..k : sorted[i] = found[j]
      BY <3>1 DEF SortedUpTo
    <3>3. j \in DOMAIN found /\ k + 1 \in DOMAIN found /\ j < k + 1
      OBVIOUS
    <3> QED
      BY <2>3, <3>2, <3>3 DEF Distinct, session
  <2> QED
    BY <2>1, <2>2, <2>3
<1>8. \A i, j \in 1..n : i < j =>
        /\ Precedes(sorted[i].path, sorted[j].path)
        /\ sorted[i].path = sorted[j].path => sorted[i].path \in D
  BY <1>1 DEF SortedUpTo, Ordered
<1>9. Ordered(new, D)
  <2> SUFFICES ASSUME NEW i \in 1..(n + 1), NEW j \in 1..(n + 1), i < j
               PROVE  /\ Precedes(new[i].path, new[j].path)
                      /\ new[i].path = new[j].path => new[i].path \in D
    BY <1>3 DEF Ordered
  <2>1. CASE i = m
    <3>1. m < j /\ j - 1 \in 1..n /\ m <= j - 1 /\ new[j] = sorted[j - 1]
      BY <1>4, <2>1
    <3> QED
      BY <1>2, <1>7, <2>1, <3>1
  <2>2. CASE j = m
    <3>1. i < m /\ i \in 1..n /\ new[i] = sorted[i]
      BY <1>4, <2>2
    <3> QED
      BY <1>2, <1>7, <2>2, <3>1
  <2>3. CASE i # m /\ j # m
    <3>1. PICK a \in 1..n : new[i] = sorted[a] /\ ((i < m /\ a = i) \/ (m < i /\ a = i - 1))
      <4>1. i < m => i \in 1..n /\ new[i] = sorted[i]
        BY <1>4
      <4>2. m < i => i - 1 \in 1..n /\ new[i] = sorted[i - 1]
        BY <1>4
      <4>3. CASE i < m
        <5>1. i \in 1..n /\ new[i] = sorted[i]
          BY <4>1, <4>3
        <5> WITNESS i \in 1..n
        <5> QED
          BY <4>3, <5>1
      <4>4. CASE m < i
        <5>1. i - 1 \in 1..n /\ new[i] = sorted[i - 1]
          BY <4>2, <4>4
        <5> WITNESS i - 1 \in 1..n
        <5> QED
          BY <4>4, <5>1
      <4> QED
        BY <1>1, <2>3, <4>3, <4>4
    <3>2. PICK b \in 1..n : new[j] = sorted[b] /\ ((j < m /\ b = j) \/ (m < j /\ b = j - 1))
      <4>1. j < m => j \in 1..n /\ new[j] = sorted[j]
        BY <1>4
      <4>2. m < j => j - 1 \in 1..n /\ new[j] = sorted[j - 1]
        BY <1>4
      <4>3. CASE j < m
        <5>1. j \in 1..n /\ new[j] = sorted[j]
          BY <4>1, <4>3
        <5> WITNESS j \in 1..n
        <5> QED
          BY <4>3, <5>1
      <4>4. CASE m < j
        <5>1. j - 1 \in 1..n /\ new[j] = sorted[j - 1]
          BY <4>2, <4>4
        <5> WITNESS j - 1 \in 1..n
        <5> QED
          BY <4>4, <5>1
      <4> QED
        BY <1>1, <2>3, <4>3, <4>4
    <3>3. a < b
      BY <1>1, <3>1, <3>2
    <3> QED
      BY <1>8, <3>1, <3>2, <3>3
  <2> QED
    BY <2>1, <2>2, <2>3
<1>10. Range(new) = Range(sorted) \cup {session}
  <2>1. ASSUME NEW x \in Range(new)
        PROVE  x \in Range(sorted) \cup {session}
    <3>1. PICK j \in 1..(n + 1) : x = new[j]
      BY <1>3 DEF Range
    <3> QED
      BY <1>1, <1>2, <1>4, <3>1 DEF Range
  <2>2. session \in Range(new)
    BY <1>2, <1>3 DEF Range
  <2>3. ASSUME NEW x \in Range(sorted)
        PROVE  x \in Range(new)
    <3>1. PICK i \in 1..n : x = sorted[i]
      BY <1>1 DEF Range
    <3>2. i \in 1..(n + 1) /\ i + 1 \in 1..(n + 1)
      BY <1>1
    <3>3. x = new[i] \/ x = new[i + 1]
      BY <1>1, <1>2, <3>1
    <3> QED
      BY <1>3, <3>2, <3>3 DEF Range
  <2> QED
    BY <2>1, <2>2, <2>3
<1>11. {found[i] : i \in 1..(k + 1)} = {found[i] : i \in 1..k} \cup {session}
  BY DEF session
<1>12. SortedUpTo(new, found, S, D, k + 1)
  BY <1>2, <1>9, <1>10, <1>11 DEF SortedUpTo
<1> QED
  BY <1>12 DEF new, session

\* Sorting puts the same sessions in order.
THEOREM SortSessionsSorts ==
  ASSUME NEW S, \A s \in S : s.path \in Paths, NEW found \in Seq(S), NEW D, Distinct(found, D)
  PROVE  /\ SortSessions(found) \in Seq(S)
         /\ Range(SortSessions(found)) = Range(found)
         /\ Ordered(SortSessions(found), D)
<1> DEFINE n == Len(found)
<1>1. SortSessions(found) = Sorting!Fold(<<>>, found)
  BY Zenon DEF SortSessions, FoldLeft, Sorting!FoldLeft, MapThenFoldSet, Sorting!MapThenFoldSet,
               Max, Sorting!Max, Sorting!Fold
<1>2. PICK run : Sorting!IsRun(run, <<>>, found) /\ Sorting!Fold(<<>>, found) = run[n]
  BY Sorting!FoldIsRun, Zenon
<1>3. n \in Nat /\ DOMAIN found = 1..n
  OBVIOUS
<1> DEFINE T == {k \in Nat : k <= n => SortedUpTo(run[k], found, S, D, k)}
<1>4. 0 \in T
  <2>1. run[0] = <<>>
    BY <1>2 DEF Sorting!IsRun
  <2>2. <<>> \in Seq(S) /\ DOMAIN <<>> = {} /\ 1..0 = {}
    OBVIOUS
  <2>3. Range(<<>>) = {}
    BY <2>2 DEF Range
  <2>4. SortedUpTo(<<>>, found, S, D, 0)
    BY <2>2, <2>3 DEF SortedUpTo, Ordered
  <2> QED
    BY <2>1, <2>4
<1>5. ASSUME NEW k \in Nat, k \in T
      PROVE  k + 1 \in T
  <2> SUFFICES ASSUME k + 1 <= n
               PROVE  SortedUpTo(run[k + 1], found, S, D, k + 1)
    OBVIOUS
  <2>1. k + 1 \in 1..n /\ k <= n /\ (k + 1) - 1 = k
    BY <1>3
  <2>2. run[k + 1] = InsertSession(run[(k + 1) - 1], found[k + 1])
    BY <1>2, <2>1 DEF Sorting!IsRun
  <2>3. SortedUpTo(run[k], found, S, D, k)
    BY <1>5, <2>1
  <2>4. SortedUpTo(InsertSession(run[k], found[k + 1]), found, S, D, k + 1)
    BY <2>1, <2>3, InsertOrdered
  <2> QED
    BY <2>1, <2>2, <2>4
<1> HIDE DEF T
<1>6. SortedUpTo(run[n], found, S, D, n)
  <2>1. Nat \subseteq T
    BY <1>4, <1>5, Unescaping!Induction
  <2>2. n \in T /\ n <= n
    BY <1>3, <2>1
  <2> QED
    BY <2>2 DEF T
<1>7. Range(found) = {found[i] : i \in 1..n}
  BY <1>3 DEF Range
<1> QED
  BY <1>1, <1>2, <1>6, <1>7 DEF SortedUpTo

\* A lookup returns the first session with the identifier, if there is one.
THEOREM FindSessionFinds ==
  ASSUME NEW S, NEW sessions \in Seq(S), NEW id
  PROVE  LET found == FindSession(sessions, id) IN
         \/ found = <<>> /\ \A s \in Range(sessions) : s.path \notin id
         \/ \E s \in Range(sessions) : found = <<s>> /\ s.path \in id
<1> DEFINE I == {i \in 1..Len(sessions) : sessions[i].path \in id}
           first == IF I # {} THEN Min(I) ELSE 0
<1>1. FindSession(sessions, id) = IF first = 0 THEN <<>> ELSE <<sessions[first]>>
  BY Zenon DEF FindSession, SelectInSeq
<1>2. Len(sessions) \in Nat /\ DOMAIN sessions = 1..Len(sessions)
  OBVIOUS
<1>3. CASE I = {}
  <2>1. FindSession(sessions, id) = <<>>
    BY <1>1, <1>3
  <2>2. \A s \in Range(sessions) : s.path \notin id
    BY <1>2, <1>3 DEF Range
  <2> QED
    BY <2>1, <2>2
<1>4. CASE I # {}
  <2> DEFINE m == Min(I)
  <2>1. m \in I
    <3>1. I \in SUBSET (1..Len(sessions))
      OBVIOUS
    <3> HIDE DEF I
    <3> QED
      BY <1>2, <1>4, <3>1, MinOf
  <2> HIDE DEF m
  <2>2. m \in 1..Len(sessions) /\ sessions[m].path \in id /\ m # 0
    BY <2>1
  <2>3. first = m
    BY <1>4 DEF m
  <2> HIDE DEF first
  <2>4. FindSession(sessions, id) = <<sessions[m]>>
    BY <1>1, <2>2, <2>3
  <2>5. sessions[m] \in Range(sessions)
    BY <1>2, <2>2 DEF Range
  <2> QED
    BY <2>2, <2>4, <2>5
<1> QED
  BY <1>3, <1>4

-----------------------------------------------------------------------------
(* The invariant of the scan.                                               *)

Marked == Characters \cup {"/"}

\* Sessions as the scan makes them.
Session == {s \in [path : Paths, exec : Seq(Seq(Marked))] : IsSession(s)}

\* Entries under way, with the name or the file of their program.
Entries ==
  {e \in [path : Paths, exec : Seq(Seq(Marked)), try : SUBSET Seq(Characters)] :
     e.path.desktop /\ e.exec # <<>>}

Names == {"wayland", "x11"}

Underway == {"resolve", "tryExec", "check"}

ScanState ==
  [at : {"idle", "open", "read"} \cup Underway, roots : {Roots, <<"x11">>, <<>>},
   todo : SUBSET Paths, candidate : SUBSET Entries, found : Seq(Session), id : SUBSET Paths]

\* The roots that are still to be opened.
ToCome ==
  CASE scan.at = "open" -> Range(scan.roots)
    [] scan.at \in {"read"} \cup Underway -> Range(Tail(scan.roots))
    [] OTHER -> {}

\* The sessions that the scan has found, and the files it has taken up.
Gathered == Range(scan.found)
Taken == {c.path : c \in scan.candidate} \cup {s.path : s \in Gathered}

ScanTypes ==
  /\ DOMAIN files = Paths /\ \A p \in Paths : IsContent(files[p])
  /\ installed \subseteq Commands
  /\ dir \in [Names -> {"ok", "missing", "unreadable"}]
  /\ changes \in 0..MaxChanges
  /\ scan \in ScanState
  /\ heard \subseteq Entries
  /\ listing \in [outcome : {"none", "ok", "error"}, sessions : Seq(Session), id : SUBSET Paths]
  /\ listing.outcome # "ok" => listing.sessions = <<>>

\* A root is gone through while it is open; an entry is under way alone.
ScanShape ==
  /\ scan.at \in Underway <=> scan.candidate # {}
  /\ \A c, d \in scan.candidate : c = d
  /\ scan.at # "resolve" => \A c \in scan.candidate : c.exec[1][1] = "/"
  /\ \A p, q \in scan.id : p = q
  /\ scan.at \in {"read"} \cup Underway => scan.roots # <<>>
  /\ scan.at \notin {"read"} \cup Underway => scan.todo = {}
  /\ \A p \in scan.todo : p.root = Head(scan.roots)
  /\ scan.at # "idle" => listing = NoListing

\* An entry with the file of its program.
ResolvedOf(e) == [path |-> e.path, exec |-> SessionOf(e).exec, try |-> e.try]

\* What is under way is what a file meant, with the programs that were looked for; it
\* is what the file means now unless it was written.
Stands(c, e) ==
  /\ c = IF scan.at = "resolve" THEN e ELSE ResolvedOf(e)
  /\ scan.at # "resolve" => <<e, e.exec[1]>> \in supplied
  /\ scan.at = "check" => \A p \in e.try : <<e, p>> \in supplied
  /\ e.path \notin touched => e \in Said

\* What the scan has found was possible; what could be launched all the time can be
\* launched now and was not written.
ScanWitnessed ==
  /\ \A c \in scan.candidate : \E e \in heard : Stands(c, e)
  /\ Gathered \subseteq Possible
  /\ steady \subseteq Launchable
  /\ \A s \in steady : s.path \notin touched
  /\ scan.at # "idle" => Said \subseteq heard /\ Supplies(heard, installed) \subseteq supplied

\* What could be launched all the time was found, is under way or is still to be read.
NothingMissed ==
  scan.at # "idle" =>
    \A s \in steady : dir[s.path.root] = "ok" =>
      \/ s \in Gathered \/ \E c \in scan.candidate : c.path = s.path
      \/ s.path \in scan.todo \/ s.path.root \in ToCome

\* No file is read twice that was not written in between.
NothingTwice ==
  /\ Distinct(scan.found, touched)
  /\ \A c \in scan.candidate, t \in Gathered : c.path = t.path => c.path \in touched
  /\ \A p \in Taken : (p \in scan.todo => p \in touched) /\ p.root \notin ToCome

ScanInv ==
  ScanTypes /\ ScanShape /\ ScanWitnessed /\ NothingMissed /\ NothingTwice /\ ListingIsSound

-----------------------------------------------------------------------------

RootLists == {Roots, <<"x11">>, <<>>}

\* The lists of roots.
LEMMA RootFacts ==
  ASSUME NEW roots \in RootLists
  PROVE  /\ Range(Roots) = Names
         /\ roots = <<>> => Range(roots) = {}
         /\ roots # <<>> =>
              /\ Head(roots) \in Names
              /\ Tail(roots) \in RootLists
              /\ Range(roots) = {Head(roots)} \cup Range(Tail(roots))
              /\ Head(roots) \notin Range(Tail(roots))
<1>1. Range(Roots) = Names /\ Head(Roots) = "wayland" /\ Tail(Roots) = <<"x11">>
  BY DEF Range, Roots, Names
<1>2. Range(<<"x11">>) = {"x11"} /\ Head(<<"x11">>) = "x11" /\ Tail(<<"x11">>) = <<>>
  BY DEF Range
<1>3. Range(<<>>) = {}
  BY DEF Range
<1> HIDE DEF Roots
<1>4. CASE roots = Roots
  <2>1. Tail(Roots) \in RootLists
    BY <1>1 DEF RootLists
  <2>2. Range(Roots) = {"wayland"} \cup {"x11"} /\ "wayland" \in Names
    BY <1>1 DEF Names
  <2>3. roots # <<>>
    BY <1>4 DEF Roots
  <2> QED
    BY <1>1, <1>2, <1>4, <2>1, <2>2, <2>3
<1>5. CASE roots = <<"x11">>
  BY <1>1, <1>2, <1>3, <1>5 DEF Names, RootLists
<1>6. CASE roots = <<>>
  BY <1>1, <1>3, <1>6
<1> QED
  BY <1>4, <1>5, <1>6 DEF RootLists

\* What a file means is about that file, and not about one that is absent.
LEMMA MeantIs ==
  ASSUME NEW path, NEW content, NEW e \in Meant(path, content)
  PROVE  /\ e.path = path /\ path.desktop
         /\ content.sort = "entry" /\ content \notin {Absent, Unreadable}
         /\ content.argv # <<>>
         /\ e = [path |-> path, exec |-> content.argv, try |-> {content.try} \ {NoCommand}]
<1> DEFINE meant == [path |-> path, exec |-> content.argv, try |-> {content.try} \ {NoCommand}]
<1>1. path.desktop /\ content.sort = "entry" /\ content.argv # <<>> /\ e = meant
  BY Zenon DEF Meant
<1>2. meant.path = path
  OBVIOUS
<1>3. content \notin {Absent, Unreadable}
  BY <1>1 DEF Absent, Unreadable
<1> HIDE DEF meant
<1>4. e.path = path
  BY <1>1, <1>2
<1>5. e = [path |-> path, exec |-> content.argv, try |-> {content.try} \ {NoCommand}]
  BY <1>1 DEF meant
<1> QED
  BY <1>1, <1>3, <1>4, <1>5, Zenon

\* A file means one entry at most.
LEMMA MeantOne ==
  ASSUME NEW path, NEW content, NEW d \in Meant(path, content), NEW e \in Meant(path, content)
  PROVE  d = e
<1> DEFINE meant == [path |-> path, exec |-> content.argv, try |-> {content.try} \ {NoCommand}]
<1>1. d = meant /\ e = meant
  BY MeantIs
<1> QED
  BY <1>1, Zenon

\* What a file means is an entry.
LEMMA MeantType ==
  ASSUME NEW path \in Paths, NEW content, IsContent(content), NEW e \in Meant(path, content)
  PROVE  e \in Entries
<1> DEFINE argv == content.argv
           try == {content.try} \ {NoCommand}
<1>1. /\ path.desktop /\ content.sort = "entry" /\ argv # <<>>
      /\ e = [path |-> path, exec |-> argv, try |-> try]
  BY MeantIs
<1>2. argv \in Seq(Seq(Characters)) /\ content.try \in Seq(Characters)
  BY <1>1 DEF IsContent
<1>3. argv \in Seq(Seq(Marked))
  <2>1. \A x \in Seq(Characters) : x \in Seq(Marked)
    BY DEF Marked
  <2> HIDE DEF argv
  <2> QED
    BY <1>2, <2>1
<1>4. try \in SUBSET Seq(Characters)
  BY <1>2
<1> HIDE DEF argv, try
<1> QED
  BY <1>1, <1>3, <1>4 DEF Entries

\* An entry with the file of its program is an entry, and makes a session.
LEMMA ResolvedType ==
  ASSUME NEW e \in Entries
  PROVE  /\ ResolvedOf(e) \in Entries
         /\ ResolvedOf(e).path = e.path /\ ResolvedOf(e).try = e.try
         /\ ResolvedOf(e).exec = <<<<"/">> \o e.exec[1]>> \o Tail(e.exec)
         /\ SessionOf(e) = [path |-> e.path, exec |-> ResolvedOf(e).exec]
         /\ SessionOf(e) \in Session /\ SessionOf(e).path = e.path
         /\ SessionOf(e).exec[1] = <<"/">> \o e.exec[1]
         /\ ResolvedOf(e).exec[1] = <<"/">> \o e.exec[1]
         /\ ResolvedOf(e).exec[1][1] = "/"
<1> DEFINE argv == e.exec
           program == <<"/">> \o argv[1]
           rest == Tail(argv)
           exec == <<program>> \o rest
<1>1. /\ e.path \in Paths /\ e.path.desktop /\ argv \in Seq(Seq(Marked)) /\ argv # <<>>
      /\ e.try \in SUBSET Seq(Characters)
  BY DEF Entries
<1>2. argv[1] \in Seq(Marked) /\ rest \in Seq(Seq(Marked))
  <2> HIDE DEF argv
  <2> QED
    BY <1>1
<1>3. program \in Seq(Marked) /\ program[1] = "/"
  <2> DEFINE slash == "/"
  <2>1. slash \in Marked
    BY DEF Marked
  <2> HIDE DEF argv, slash
  <2> QED
    BY <1>2, <2>1 DEF slash
<1> HIDE DEF program, rest
<1>4. exec \in Seq(Seq(Marked)) /\ exec[1] = program /\ exec # <<>>
  BY <1>2, <1>3
<1>5. SessionOf(e) = [path |-> e.path, exec |-> exec]
  BY DEF SessionOf, program, rest
<1> HIDE DEF exec
<1>6. ResolvedOf(e) = [path |-> e.path, exec |-> exec, try |-> e.try]
  BY <1>5 DEF ResolvedOf
<1>7. ResolvedOf(e) \in Entries
  BY <1>1, <1>4, <1>6 DEF Entries
<1>8. SessionOf(e) \in Session
  BY <1>1, <1>3, <1>4, <1>5 DEF Session, IsSession
<1> QED
  BY <1>3, <1>4, <1>5, <1>6, <1>7, <1>8 DEF exec, program, rest

\* What is said now.
LEMMA SaidMeant ==
  ASSUME NEW e \in Said
  PROVE  e.path \in Paths /\ e \in Meant(e.path, files[e.path])
<1>1. PICK p \in Paths : e \in Meant(p, files[p])
  BY DEF Said
<1>2. e.path = p
  BY <1>1, MeantIs
<1> QED
  BY <1>1, <1>2

\* One file says one thing at a time.
LEMMA SaidOne ==
  ASSUME NEW d \in Said, NEW e \in Said, d.path = e.path
  PROVE  d = e
BY SaidMeant, MeantOne

\* What is said now are entries of files that are there.
LEMMA SaidType ==
  ASSUME ScanTypes, NEW e \in Said
  PROVE  e \in Entries /\ e.path \in Paths /\ files[e.path] \notin {Absent, Unreadable}
<1>1. e.path \in Paths /\ e \in Meant(e.path, files[e.path])
  BY SaidMeant
<1>2. IsContent(files[e.path])
  BY <1>1 DEF ScanTypes
<1>3. files[e.path] \notin {Absent, Unreadable}
  BY <1>1, MeantIs
<1> QED
  BY <1>1, <1>2, <1>3, MeantType

\* What can be launched are sessions of files that are there, with programs that can
\* be executed.
LEMMA LaunchableType ==
  ASSUME ScanTypes, NEW s \in Launchable
  PROVE  /\ s \in Session /\ s.path \in Paths /\ s.path.root \in Names
         /\ files[s.path] \notin {Absent, Unreadable}
         /\ \E e \in Said : s = SessionOf(e) /\ e.path = s.path /\ Needs(e) \subseteq installed
<1>1. PICK e \in Said : s = SessionOf(e) /\ Needs(e) \subseteq installed
  BY DEF Launchable
<1>2. e \in Entries /\ e.path \in Paths /\ files[e.path] \notin {Absent, Unreadable}
  BY SaidType
<1>3. s \in Session /\ s.path = e.path
  BY <1>1, <1>2, ResolvedType
<1>4. s.path.root \in Names
  BY <1>2, <1>3, PathsAssumption DEF Names
<1> QED
  BY <1>1, <1>2, <1>3, <1>4

-----------------------------------------------------------------------------

\* As long as there is no result there is nothing wrong with it.
LEMMA NoListingIsSound ==
  ASSUME listing = NoListing
  PROVE  ListingIsSound
<1>1. listing.outcome = "none"
  BY DEF NoListing
<1> QED
  BY <1>1 DEF ListingIsSound

\* What there is instead of a result.
LEMMA NoListingType ==
  /\ NoListing \in [outcome : {"none", "ok", "error"}, sessions : Seq(Session), id : SUBSET Paths]
  /\ NoListing.outcome = "none" /\ NoListing.sessions = <<>>
BY DEF NoListing

\* What there is instead of a scan.
LEMMA NoScanFields ==
  /\ NoScan \in ScanState
  /\ NoScan.at = "idle" /\ NoScan.roots = <<>> /\ NoScan.todo = {} /\ NoScan.candidate = {}
  /\ NoScan.found = <<>> /\ NoScan.id = {}
BY DEF NoScan, ScanState

\* Nothing is there twice in an empty sequence.
LEMMA EmptyFound ==
  /\ Range(<<>>) = {}
  /\ \A D : Distinct(<<>>, D)
BY DEF Range, Distinct

\* Nothing is scanned at first.
LEMMA ScanInvInit == SessionInit => ScanInv
<1> SUFFICES ASSUME SessionInit
             PROVE  ScanInv
  OBVIOUS
<1>1. /\ scan = NoScan /\ listing = NoListing
      /\ steady = {} /\ heard = {} /\ supplied = {} /\ touched = {}
  BY DEF SessionInit
<1>2. ScanTypes
  <2>1. DOMAIN files = Paths /\ \A p \in Paths : IsContent(files[p])
    <3>1. IsContent(Absent)
      BY DEF IsContent, Absent
    <3> QED
      BY <3>1, TreesAssumption DEF SessionInit
  <2>2. /\ installed \subseteq Commands
        /\ dir \in [Names -> {"ok", "missing", "unreadable"}]
        /\ changes \in 0..MaxChanges
    BY BoundAssumption DEF SessionInit, Names
  <2> QED
    BY <1>1, <2>1, <2>2, NoScanFields, NoListingType DEF ScanTypes
<1>3. ScanShape
  BY <1>1, NoScanFields DEF ScanShape, Underway
<1>4. Gathered = {} /\ Taken = {}
  BY <1>1, NoScanFields, EmptyFound DEF Gathered, Taken
<1>5. ScanWitnessed
  BY <1>1, <1>4, NoScanFields DEF ScanWitnessed
<1>6. NothingMissed
  BY <1>1, NoScanFields DEF NothingMissed
<1>7. NothingTwice
  BY <1>1, <1>4, NoScanFields, EmptyFound DEF NothingTwice
<1>8. ListingIsSound
  BY <1>1, NoListingIsSound
<1> QED
  BY <1>2, <1>3, <1>5, <1>6, <1>7, <1>8 DEF ScanInv

\* What is said and what can be launched do not change unless the host does.
LEMMA LaunchableSame == UNCHANGED hostVars => Said' = Said /\ Launchable' = Launchable
BY DEF hostVars, Said, Launchable

\* A scan begins with nothing missed, as every root is still to be opened.
LEMMA StartScanInv ==
  ASSUME ScanInv, NEW id, id = {} \/ \E p \in Paths : id = {p}, StartScan(id)
  PROVE  ScanInv'
<1>1. UNCHANGED hostVars /\ listing' = NoListing
  BY DEF StartScan
<1>2. /\ scan' \in ScanState
      /\ scan'.at = "open" /\ scan'.roots = Roots /\ scan'.todo = {} /\ scan'.candidate = {}
      /\ scan'.found = <<>> /\ scan'.id = id
  <2>1. scan' = [NoScan EXCEPT !.at = "open", !.roots = Roots, !.id = id]
    BY DEF StartScan
  <2>2. id \in SUBSET Paths
    OBVIOUS
  <2> QED
    BY <2>1, <2>2, NoScanFields DEF ScanState
<1>3. ScanTypes'
  <2>1. heard' \subseteq Entries
    BY SaidType DEF StartScan, ScanInv
  <2> QED
    BY <1>1, <1>2, <2>1, NoListingType DEF ScanInv, ScanTypes, hostVars
<1>4. ScanShape'
  BY <1>1, <1>2 DEF ScanShape, Underway
<1>5. Gathered' = {} /\ Taken' = {}
  BY <1>2, EmptyFound DEF Gathered, Taken
<1>6. /\ steady' = Launchable' /\ heard' = Said' /\ touched' = {}
      /\ supplied' = Supplies(heard', installed')
  BY <1>1, LaunchableSame DEF StartScan, hostVars
<1>7. ScanWitnessed'
  BY <1>2, <1>5, <1>6 DEF ScanWitnessed
<1>8. ToCome' = Names
  <2>1. Roots \in RootLists
    BY DEF RootLists
  <2> QED
    BY <1>2, <2>1, RootFacts DEF ToCome, Underway
<1>9. NothingMissed'
  <2>1. \A s \in Launchable : s.path.root \in Names
    BY LaunchableType DEF ScanInv
  <2> QED
    BY <1>1, <1>6, <1>8, <2>1, LaunchableSame DEF NothingMissed
<1>10. NothingTwice'
  BY <1>2, <1>5, EmptyFound DEF NothingTwice
<1>11. ListingIsSound'
  <2>1. listing'.outcome = "none"
    BY <1>1, NoListingType
  <2> QED
    BY <2>1 DEF ListingIsSound
<1> QED
  BY <1>3, <1>4, <1>7, <1>9, <1>10, <1>11 DEF ScanInv

\* The end of a scan keeps the invariant if what it returns is right.
LEMMA EndScanInv ==
  ASSUME ScanInv, NEW outcome \in {"none", "ok", "error"}, NEW sessions \in Seq(Session),
         outcome # "ok" => sessions = <<>>,
         EndScan(outcome, sessions), ListingIsSound'
  PROVE  ScanInv'
<1>1. UNCHANGED hostVars /\ UNCHANGED ghostVars /\ scan' = NoScan
  BY DEF EndScan
<1>2. /\ listing' \in [outcome : {"none", "ok", "error"}, sessions : Seq(Session), id : SUBSET Paths]
      /\ listing'.outcome = outcome /\ listing'.sessions = sessions
  <2>1. scan.id \in SUBSET Paths
    BY DEF ScanInv, ScanTypes, ScanState
  <2> QED
    BY <2>1 DEF EndScan
<1>3. ScanTypes'
  BY <1>1, <1>2, NoScanFields DEF ScanInv, ScanTypes, hostVars, ghostVars
<1>4. ScanShape'
  BY <1>1, NoScanFields DEF ScanShape, Underway
<1>5. Gathered' = {} /\ Taken' = {}
  BY <1>1, NoScanFields, EmptyFound DEF Gathered, Taken
<1>6. ScanWitnessed'
  BY <1>1, <1>5, NoScanFields, LaunchableSame DEF ScanInv, ScanWitnessed, ghostVars
<1>7. NothingMissed'
  BY <1>1, NoScanFields DEF NothingMissed
<1>8. NothingTwice'
  BY <1>1, <1>5, NoScanFields, EmptyFound DEF NothingTwice
<1> QED
  BY <1>3, <1>4, <1>6, <1>7, <1>8 DEF ScanInv

\* A step within a scan keeps what is said of the host.
LEMMA ContinueInv ==
  ASSUME ScanInv, NEW next \in ScanState, scan.at # "idle", Continue(next)
  PROVE  /\ ScanTypes' /\ listing' = NoListing /\ ListingIsSound'
         /\ scan' = next /\ UNCHANGED <<steady, heard, supplied, touched, dir, installed>>
         /\ Said' = Said /\ Launchable' = Launchable /\ Possible' = Possible
<1>1. /\ UNCHANGED hostVars /\ UNCHANGED ghostVars /\ scan' = next /\ listing' = listing
      /\ listing = NoListing
  BY DEF Continue, ScanInv, ScanShape
<1>2. ScanTypes'
  BY <1>1 DEF ScanInv, ScanTypes, hostVars, ghostVars
<1>3. ListingIsSound'
  <2>1. listing'.outcome = "none"
    BY <1>1, NoListingType
  <2> QED
    BY <2>1 DEF ListingIsSound
<1>4. Possible' = Possible
  BY <1>1 DEF ghostVars, Possible
<1> QED
  BY <1>1, <1>2, <1>3, <1>4, LaunchableSame DEF hostVars, ghostVars

\* The parts of a scan.
LEMMA ScanParts ==
  ASSUME ScanInv
  PROVE  /\ scan.at \in {"idle", "open", "read"} \cup Underway /\ scan.roots \in RootLists
         /\ scan.todo \in SUBSET Paths /\ scan.candidate \in SUBSET Entries
         /\ scan.found \in Seq(Session) /\ scan.id \in SUBSET Paths
         /\ scan.at = "open" => ToCome = Range(scan.roots)
         /\ scan.at \in {"read"} \cup Underway => ToCome = Range(Tail(scan.roots))
<1>1. scan \in ScanState
  BY DEF ScanInv, ScanTypes
<1>2. /\ scan.at \in {"idle", "open", "read"} \cup Underway /\ scan.roots \in RootLists
      /\ scan.todo \in SUBSET Paths /\ scan.candidate \in SUBSET Entries
      /\ scan.found \in Seq(Session) /\ scan.id \in SUBSET Paths
  BY <1>1 DEF ScanState, RootLists
<1>3. /\ scan.at = "open" => ToCome = Range(scan.roots)
      /\ scan.at \in {"read"} \cup Underway => ToCome = Range(Tail(scan.roots))
  BY DEF ToCome, Underway
<1> QED
  BY <1>2, <1>3

\* Sessions have a root.
LEMMA SessionFacts ==
  ASSUME NEW s \in Session
  PROVE  s.path \in Paths /\ s.path.root \in Names /\ IsSession(s)
<1>1. s.path \in Paths /\ IsSession(s)
  BY DEF Session
<1> QED
  BY <1>1, PathsAssumption DEF Names

\* A root is left or passed over.
LEMMA NextRootInv ==
  ASSUME ScanInv, NEW next, scan.roots # <<>>,
         next = [scan EXCEPT !.at = "open", !.roots = Tail(@)],
         scan.at \in {"open", "read"}, scan.todo = {},
         scan.at = "open" => dir[Head(scan.roots)] # "ok",
         Continue(next)
  PROVE  ScanInv'
<1>0. scan \in ScanState
  BY DEF ScanInv, ScanTypes
<1>1. /\ Tail(scan.roots) \in RootLists
      /\ Range(scan.roots) = {Head(scan.roots)} \cup Range(Tail(scan.roots))
  BY ScanParts, RootFacts
<1>2. /\ next \in ScanState
      /\ next.at = "open" /\ next.roots = Tail(scan.roots)
      /\ next.todo = scan.todo /\ next.candidate = scan.candidate
      /\ next.found = scan.found /\ next.id = scan.id
  BY <1>0, <1>1 DEF ScanState, RootLists
<1>3. /\ ScanTypes' /\ listing' = NoListing /\ ListingIsSound'
      /\ scan' = next /\ UNCHANGED <<steady, heard, supplied, touched, dir, installed>>
      /\ Said' = Said /\ Launchable' = Launchable /\ Possible' = Possible
  BY <1>2, ContinueInv
<1>4. scan.candidate = {} /\ scan.at \notin Underway
  BY DEF ScanInv, ScanShape, Underway
<1>5. ScanShape'
  BY <1>2, <1>3, <1>4 DEF ScanInv, ScanShape, Underway
<1>6. /\ Gathered' = Gathered /\ Taken' = Taken
      /\ ToCome' = Range(Tail(scan.roots)) /\ ToCome' \subseteq ToCome
  BY <1>1, <1>2, <1>3, ScanParts DEF Gathered, Taken, ToCome, Underway
<1>7. ScanWitnessed'
  <2>1. scan.at # "idle"
    OBVIOUS
  <2> QED
    BY <1>2, <1>3, <1>4, <1>6, <2>1 DEF ScanInv, ScanWitnessed
<1>8. NothingMissed'
  <2> SUFFICES ASSUME NEW s \in steady, dir[s.path.root] = "ok"
               PROVE  s \in Gathered \/ s.path \in scan'.todo \/ s.path.root \in ToCome'
    BY <1>3, <1>6 DEF NothingMissed
  <2>1. s \in Gathered \/ s.path.root \in ToCome
    BY <1>4 DEF ScanInv, NothingMissed
  <2>2. scan.at = "open" => s.path.root # Head(scan.roots)
    OBVIOUS
  <2>3. ToCome \subseteq ToCome' \cup {Head(scan.roots)}
    BY <1>1, <1>6, ScanParts
  <2>4. scan.at = "read" => ToCome = ToCome'
    BY <1>6, ScanParts
  <2> QED
    BY <2>1, <2>2, <2>3, <2>4
<1>9. NothingTwice'
  BY <1>2, <1>3, <1>4, <1>6 DEF ScanInv, NothingTwice
<1> QED
  BY <1>3, <1>5, <1>7, <1>8, <1>9 DEF ScanInv

\* The files of a root that is opened are to be read; one that is missing holds nothing,
\* and one that cannot be read ends the scan.
LEMMA OpenRootInv == ScanInv /\ OpenRoot => ScanInv'
<1> SUFFICES ASSUME ScanInv, OpenRoot
             PROVE  ScanInv'
  OBVIOUS
<1> DEFINE root == Head(scan.roots)
           present == {p \in Paths : p.root = root /\ files[p] # Absent}
<1>0. scan \in ScanState
  BY DEF ScanInv, ScanTypes
<1>1. scan.at = "open" /\ scan.roots # <<>> /\ scan.todo = {} /\ scan.candidate = {}
  BY DEF OpenRoot, ScanInv, ScanShape, Underway
<1>2. /\ root \in Names /\ Tail(scan.roots) \in RootLists
      /\ Range(scan.roots) = {root} \cup Range(Tail(scan.roots))
      /\ root \notin Range(Tail(scan.roots))
  BY <1>1, ScanParts, RootFacts
<1>3. dir[root] \in {"ok", "missing", "unreadable"}
  BY <1>2 DEF ScanInv, ScanTypes
<1>4. CASE dir[root] = "missing"
  <2> DEFINE next == [scan EXCEPT !.at = "open", !.roots = Tail(@)]
  <2>1. Continue([scan EXCEPT !.roots = Tail(@)])
    BY <1>4 DEF OpenRoot
  <2>2. next = [scan EXCEPT !.roots = Tail(@)]
    BY <1>0, <1>1, <1>2 DEF ScanState, RootLists
  <2>3. Continue(next)
    BY <2>1, <2>2
  <2> QED
    BY <1>1, <1>4, <2>3, NextRootInv
<1>5. CASE dir[root] = "unreadable"
  <2>1. EndScan("error", <<>>)
    BY <1>5 DEF OpenRoot
  <2>2. listing'.outcome = "error" /\ dir' = dir
    BY <2>1 DEF EndScan, hostVars
  <2>3. ListingIsSound'
    BY <1>2, <1>5, <2>2 DEF ListingIsSound, Names
  <2>4. <<>> \in Seq(Session)
    OBVIOUS
  <2> QED
    BY <2>1, <2>3, <2>4, EndScanInv
<1>6. CASE dir[root] = "ok"
  <2> DEFINE next == [scan EXCEPT !.at = "read", !.todo = present]
  <2>1. Continue(next)
    BY <1>6 DEF OpenRoot
  <2>2. present \in SUBSET Paths
    OBVIOUS
  <2> HIDE DEF present
  <2>3. /\ next \in ScanState
        /\ next.at = "read" /\ next.roots = scan.roots
        /\ next.todo = present /\ next.candidate = scan.candidate
        /\ next.found = scan.found /\ next.id = scan.id
    BY <1>0, <2>2 DEF ScanState
  <2> HIDE DEF next
  <2>4. /\ ScanTypes' /\ listing' = NoListing /\ ListingIsSound'
        /\ scan' = next /\ UNCHANGED <<steady, heard, supplied, touched, dir, installed>>
        /\ Said' = Said /\ Launchable' = Launchable /\ Possible' = Possible
    BY <1>1, <2>1, <2>3, ContinueInv
  <2>5. \A p \in present : p.root = root
    BY DEF present
  <2>6. ScanShape'
    BY <1>1, <2>3, <2>4, <2>5 DEF ScanInv, ScanShape, Underway
  <2>7. /\ Gathered' = Gathered /\ Taken' = Taken
        /\ ToCome' = Range(Tail(scan.roots)) /\ ToCome = {root} \cup ToCome'
    BY <1>1, <1>2, <2>3, <2>4, ScanParts DEF Gathered, Taken, ToCome
  <2>8. ScanWitnessed'
    BY <1>1, <2>3, <2>4, <2>7 DEF ScanInv, ScanWitnessed
  <2>9. NothingMissed'
    <3> SUFFICES ASSUME NEW s \in steady, dir[s.path.root] = "ok"
                 PROVE  s \in Gathered \/ s.path \in present \/ s.path.root \in ToCome'
      BY <2>3, <2>4, <2>7 DEF NothingMissed
    <3>1. s \in Gathered \/ s.path.root = root \/ s.path.root \in ToCome'
      BY <1>1, <2>7 DEF ScanInv, NothingMissed
    <3>2. s \in Launchable
      BY DEF ScanInv, ScanWitnessed
    <3>3. s.path \in Paths /\ files[s.path] # Absent
      BY <3>2, LaunchableType DEF ScanInv
    <3> QED
      BY <3>1, <3>3 DEF present
  <2>10. NothingTwice'
    <3>1. \A p \in Taken : p \notin present /\ p.root \notin ToCome'
      BY <2>5, <2>7 DEF ScanInv, NothingTwice
    <3> QED
      BY <1>1, <2>3, <2>4, <2>7, <3>1 DEF ScanInv, NothingTwice
  <2> QED
    BY <2>4, <2>6, <2>8, <2>9, <2>10 DEF ScanInv
<1> QED
  BY <1>3, <1>4, <1>5, <1>6

\* A root is closed when all its files were read.
LEMMA CloseRootInv == ScanInv /\ CloseRoot => ScanInv'
<1> SUFFICES ASSUME ScanInv, CloseRoot
             PROVE  ScanInv'
  OBVIOUS
<1>1. /\ scan.at = "read" /\ scan.todo = {} /\ scan.roots # <<>>
      /\ Continue([scan EXCEPT !.at = "open", !.roots = Tail(@)])
  BY DEF CloseRoot, ScanInv, ScanShape
<1> QED
  BY <1>1, NextRootInv

\* What a file means is under way, and nothing is lost by skipping other files.
LEMMA ReadEntryInv == ScanInv /\ ReadEntry => ScanInv'
<1> SUFFICES ASSUME ScanInv, ReadEntry
             PROVE  ScanInv'
  OBVIOUS
<1>0. scan \in ScanState
  BY DEF ScanInv, ScanTypes
<1>1. PICK p \in scan.todo :
        ReadText(p, IF p.desktop /\ files[p] \notin {Absent, Unreadable}
                    THEN ParseSessionFile(p, files[p]) ELSE {})
  BY DEF ReadEntry
<1> DEFINE said == IF p.desktop /\ files[p] \notin {Absent, Unreadable}
                   THEN ParseSessionFile(p, files[p]) ELSE {}
           read == [scan EXCEPT !.todo = @ \ {p}]
           next == IF said = {} THEN read
                   ELSE [read EXCEPT !.at = "resolve", !.candidate = said]
<1>2. scan.at = "read" /\ Continue(next)
  BY <1>1, Zenon DEF ReadText
<1>3. scan.candidate = {} /\ scan.roots # <<>> /\ p \in Paths
  BY <1>1, <1>2, ScanParts DEF ScanInv, ScanShape, Underway
<1>4. IsContent(files[p])
  BY <1>3 DEF ScanInv, ScanTypes
<1>5. said = Meant(p, files[p])
  <2>1. CASE p.desktop /\ files[p] \notin {Absent, Unreadable}
    BY <1>4, <2>1, ParseIsMeant
  <2>2. CASE ~(p.desktop /\ files[p] \notin {Absent, Unreadable})
    <3>1. Meant(p, files[p]) = {}
      BY <2>2, MeantIs
    <3> QED
      BY <2>2, <3>1
  <2> QED
    BY <2>1, <2>2
<1> HIDE DEF said
<1>6. ASSUME NEW e \in said
      PROVE  e \in Entries /\ e.path = p /\ e \in Said
  <2>1. e \in Entries /\ e.path = p
    BY <1>3, <1>4, <1>5, MeantType, MeantIs
  <2> QED
    BY <1>3, <1>5, <2>1 DEF Said
<1>7. \A d, e \in said : d = e
  BY <1>5, MeantOne
<1>8. /\ next \in ScanState
      /\ next.at = IF said = {} THEN "read" ELSE "resolve"
      /\ next.roots = scan.roots
      /\ next.todo = scan.todo \ {p} /\ next.candidate = said
      /\ next.found = scan.found /\ next.id = scan.id
  <2>1. /\ read \in ScanState /\ read.at = "read" /\ read.roots = scan.roots
        /\ read.todo = scan.todo \ {p} /\ read.candidate = {}
        /\ read.found = scan.found /\ read.id = scan.id
    BY <1>0, <1>2, <1>3 DEF ScanState
  <2>2. said \in SUBSET Entries
    BY <1>6
  <2> HIDE DEF read
  <2>3. CASE said = {}
    BY <2>1, <2>3
  <2>4. CASE said # {}
    BY <2>1, <2>2, <2>4 DEF ScanState, Underway
  <2> QED
    BY <2>3, <2>4
<1> HIDE DEF next
<1>9. /\ ScanTypes' /\ listing' = NoListing /\ ListingIsSound'
      /\ scan' = next /\ UNCHANGED <<steady, heard, supplied, touched, dir, installed>>
      /\ Said' = Said /\ Launchable' = Launchable /\ Possible' = Possible
  BY <1>2, <1>8, ContinueInv
<1>10. /\ scan'.at \in {"read", "resolve"}
       /\ scan'.at \in Underway <=> said # {}
  BY <1>8, <1>9 DEF Underway
<1>11. ScanShape'
  BY <1>2, <1>3, <1>7, <1>8, <1>9, <1>10 DEF ScanInv, ScanShape
<1>12. Gathered' = Gathered /\ ToCome' = ToCome /\ Taken' \subseteq Taken \cup {p}
  BY <1>2, <1>3, <1>6, <1>8, <1>9, <1>10, ScanParts DEF Gathered, Taken, ToCome, Underway
<1>13. ScanWitnessed'
  <2>1. ASSUME NEW e \in said
        PROVE  e \in heard' /\ Stands(e, e)'
    <3>1. e \in heard /\ e \in Said /\ scan'.at = "resolve"
      BY <1>2, <1>6, <1>8, <1>9, <2>1 DEF ScanInv, ScanWitnessed
    <3> QED
      BY <1>9, <3>1 DEF Stands
  <2>2. \A c \in scan'.candidate : \E e \in heard' : Stands(c, e)'
    BY <1>8, <1>9, <2>1
  <2>3. Said \subseteq heard /\ Supplies(heard, installed) \subseteq supplied
    BY <1>2 DEF ScanInv, ScanWitnessed
  <2> QED
    BY <1>9, <1>12, <2>2, <2>3 DEF ScanInv, ScanWitnessed
<1>14. NothingMissed'
  <2> SUFFICES ASSUME NEW s \in steady, dir[s.path.root] = "ok"
               PROVE  \/ s \in Gathered' \/ \E c \in scan'.candidate : c.path = s.path
                      \/ s.path \in scan'.todo \/ s.path.root \in ToCome'
    BY <1>9 DEF NothingMissed
  <2>1. s \in Gathered \/ s.path \in scan.todo \/ s.path.root \in ToCome
    BY <1>2, <1>3 DEF ScanInv, NothingMissed
  <2>2. ASSUME s.path = p
        PROVE  \E c \in said : c.path = s.path
    <3>1. PICK e \in Said : e.path = s.path
      BY LaunchableType DEF ScanInv, ScanWitnessed
    <3> QED
      BY <1>5, <2>2, <3>1, SaidMeant
  <2> QED
    BY <1>8, <1>9, <1>12, <2>1, <2>2
<1>15. NothingTwice'
  <2>1. \A s \in Gathered : s.path = p => p \in touched
    BY <1>1 DEF ScanInv, NothingTwice, Taken
  <2>2. p.root \notin ToCome
    <3>1. p.root = Head(scan.roots)
      BY <1>1 DEF ScanInv, ScanShape
    <3>2. Head(scan.roots) \notin Range(Tail(scan.roots))
      BY <1>3, ScanParts, RootFacts
    <3> QED
      BY <1>2, <3>1, <3>2, ScanParts
  <2>3. Distinct(scan'.found, touched')
    BY <1>8, <1>9 DEF ScanInv, NothingTwice
  <2>4. \A c \in scan'.candidate, t \in Gathered' : c.path = t.path => c.path \in touched'
    BY <1>6, <1>8, <1>9, <1>12, <2>1
  <2>5. \A q \in Taken' : (q \in scan'.todo => q \in touched') /\ q.root \notin ToCome'
    BY <1>8, <1>9, <1>12, <2>2 DEF ScanInv, NothingTwice
  <2> QED
    BY <2>3, <2>4, <2>5 DEF NothingTwice
<1> QED
  BY <1>9, <1>11, <1>13, <1>14, <1>15 DEF ScanInv

\* What is under way, and what is said of it.
LEMMA UnderwayIs ==
  ASSUME ScanInv, NEW c \in scan.candidate
  PROVE  /\ scan.at \in Underway /\ scan.roots # <<>> /\ scan.candidate = {c} /\ c \in Entries
         /\ \E e \in heard : e \in Entries /\ Stands(c, e) /\ c.path = e.path /\ c.try = e.try
<1>1. scan.at \in Underway /\ scan.roots # <<>> /\ scan.candidate = {c} /\ c \in Entries
  BY ScanParts DEF ScanInv, ScanShape
<1>2. PICK e \in heard : Stands(c, e)
  BY DEF ScanInv, ScanWitnessed
<1>3. e \in Entries
  BY DEF ScanInv, ScanTypes
<1>4. c.path = e.path /\ c.try = e.try
  BY <1>2, <1>3, ResolvedType DEF Stands
<1> QED
  BY <1>1, <1>2, <1>3, <1>4

\* A session that could be launched all the time is what its entry under way makes.
LEMMA SteadyStands ==
  ASSUME ScanInv, NEW c \in scan.candidate, NEW e \in heard, e \in Entries, Stands(c, e),
         NEW s \in steady, s.path = e.path
  PROVE  s = SessionOf(e) /\ Needs(e) \subseteq installed
<1>1. s \in Launchable /\ s.path \notin touched
  BY DEF ScanInv, ScanWitnessed
<1>2. e \in Said
  BY <1>1 DEF Stands
<1>3. PICK d \in Said : s = SessionOf(d) /\ d.path = s.path /\ Needs(d) \subseteq installed
  BY <1>1, LaunchableType DEF ScanInv
<1>4. d = e
  BY <1>2, <1>3, SaidOne
<1> QED
  BY <1>3, <1>4

\* An entry may be skipped whose program or whose tried program is not there.
LEMMA SkipEntryInv ==
  ASSUME ScanInv, NEW c \in scan.candidate, SkipEntry, \A s \in steady : s.path # c.path
  PROVE  ScanInv'
<1> DEFINE next == [scan EXCEPT !.at = "read", !.candidate = {}]
<1>0. scan \in ScanState
  BY DEF ScanInv, ScanTypes
<1>1. scan.at \in Underway /\ scan.roots # <<>> /\ scan.candidate = {c}
  BY UnderwayIs
<1>2. Continue(next)
  BY DEF SkipEntry
<1>3. /\ next \in ScanState
      /\ next.at = "read" /\ next.roots = scan.roots
      /\ next.todo = scan.todo /\ next.candidate = {}
      /\ next.found = scan.found /\ next.id = scan.id
  BY <1>0 DEF ScanState
<1> HIDE DEF next
<1>4. scan.at # "idle"
  BY <1>1 DEF Underway
<1>5. /\ ScanTypes' /\ listing' = NoListing /\ ListingIsSound'
      /\ scan' = next /\ UNCHANGED <<steady, heard, supplied, touched, dir, installed>>
      /\ Said' = Said /\ Launchable' = Launchable /\ Possible' = Possible
  BY <1>2, <1>3, <1>4, ContinueInv
<1>6. ScanShape'
  BY <1>1, <1>3, <1>5 DEF ScanInv, ScanShape, Underway
<1>7. Gathered' = Gathered /\ Taken' \subseteq Taken /\ ToCome' = ToCome
  BY <1>1, <1>3, <1>5, ScanParts DEF Gathered, Taken, ToCome
<1>8. ScanWitnessed'
  BY <1>3, <1>4, <1>5, <1>7 DEF ScanInv, ScanWitnessed
<1>9. NothingMissed'
  BY <1>1, <1>3, <1>4, <1>5, <1>7 DEF ScanInv, NothingMissed
<1>10. NothingTwice'
  BY <1>3, <1>5, <1>7 DEF ScanInv, NothingTwice
<1> QED
  BY <1>5, <1>6, <1>8, <1>9, <1>10 DEF ScanInv

\* An entry goes on to the next look with what it needs found.
LEMMA EntryGoesOn ==
  ASSUME ScanInv, NEW c \in scan.candidate, NEW d \in Entries, d.path = c.path,
         d.exec[1][1] = "/", NEW at \in {"tryExec", "check"},
         Continue([scan EXCEPT !.at = at, !.candidate = {d}]),
         NEW e \in heard, d = ResolvedOf(e), <<e, e.exec[1]>> \in supplied,
         at = "check" => \A p \in e.try : <<e, p>> \in supplied,
         e.path \notin touched => e \in Said
  PROVE  ScanInv'
<1> DEFINE next == [scan EXCEPT !.at = at, !.candidate = {d}]
<1>0. scan \in ScanState
  BY DEF ScanInv, ScanTypes
<1>1. scan.at \in Underway /\ scan.roots # <<>> /\ scan.candidate = {c}
  BY UnderwayIs
<1>3. /\ next \in ScanState
      /\ next.at = at /\ next.roots = scan.roots
      /\ next.todo = scan.todo /\ next.candidate = {d}
      /\ next.found = scan.found /\ next.id = scan.id
  BY <1>0 DEF ScanState, Underway
<1>2. Continue(next)
  OBVIOUS
<1> HIDE DEF next
<1>4. scan.at # "idle" /\ at \in Underway /\ at # "resolve"
  BY <1>1 DEF Underway
<1>5. /\ ScanTypes' /\ listing' = NoListing /\ ListingIsSound'
      /\ scan' = next /\ UNCHANGED <<steady, heard, supplied, touched, dir, installed>>
      /\ Said' = Said /\ Launchable' = Launchable /\ Possible' = Possible
  BY <1>2, <1>3, <1>4, ContinueInv
<1>6. ScanShape'
  BY <1>1, <1>3, <1>4, <1>5 DEF ScanInv, ScanShape
<1>7. Gathered' = Gathered /\ Taken' = Taken /\ ToCome' = ToCome
  <2>1. {x.path : x \in {d}} = {x.path : x \in {c}}
    OBVIOUS
  <2> QED
    BY <1>1, <1>3, <1>4, <1>5, <2>1, ScanParts DEF Gathered, Taken, ToCome
<1>8. ScanWitnessed'
  <2>1. Stands(d, e)'
    BY <1>3, <1>4, <1>5 DEF Stands
  <2>2. \A x \in scan'.candidate : \E y \in heard' : Stands(x, y)'
    BY <1>3, <1>5, <2>1
  <2>3. Said \subseteq heard /\ Supplies(heard, installed) \subseteq supplied
    BY <1>4 DEF ScanInv, ScanWitnessed
  <2> QED
    BY <1>5, <1>7, <2>2, <2>3 DEF ScanInv, ScanWitnessed
<1>9. NothingMissed'
  BY <1>1, <1>3, <1>4, <1>5, <1>7 DEF ScanInv, NothingMissed
<1>10. NothingTwice'
  BY <1>1, <1>3, <1>5, <1>7 DEF ScanInv, NothingTwice
<1> QED
  BY <1>5, <1>6, <1>8, <1>9, <1>10 DEF ScanInv

\* What is installed supplies what was said and needs it.
LEMMA SuppliedNow ==
  ASSUME ScanInv, scan.at # "idle", NEW e \in heard, NEW p \in Needs(e), p \in installed
  PROVE  <<e, p>> \in supplied
<1>1. Supplies(heard, installed) \subseteq supplied
  BY DEF ScanInv, ScanWitnessed
<1>2. <<e, p>> \in Supplies(heard, installed)
  BY DEF Supplies
<1> QED
  BY <1>1, <1>2

\* An entry whose program is not there now was not launchable all the time.
LEMMA ResolveExecInv == ScanInv /\ ResolveExec => ScanInv'
<1> SUFFICES ASSUME ScanInv, ResolveExec
             PROVE  ScanInv'
  OBVIOUS
<1>1. PICK c \in scan.candidate :
        \/ Resolve(c.exec[1]) = {} /\ SkipEntry
        \/ \E file \in Resolve(c.exec[1]) :
             Continue([scan EXCEPT !.at = IF c.try = {} THEN "check" ELSE "tryExec",
                                   !.candidate = {[c EXCEPT !.exec = <<file>> \o Tail(@)]}])
  BY DEF ResolveExec
<1>2. scan.at = "resolve"
  BY DEF ResolveExec
<1>3. PICK e \in heard : e \in Entries /\ Stands(c, e) /\ c.path = e.path /\ c.try = e.try
  BY UnderwayIs
<1>4. c = e /\ (e.path \notin touched => e \in Said)
  BY <1>2, <1>3 DEF Stands
<1>5. CASE Resolve(c.exec[1]) = {} /\ SkipEntry
  <2>1. c.exec[1] \notin installed
    BY <1>5 DEF Resolve
  <2>2. \A s \in steady : s.path # c.path
    <3> SUFFICES ASSUME NEW s \in steady, s.path = c.path
                 PROVE  FALSE
      OBVIOUS
    <3>1. Needs(e) \subseteq installed
      BY <1>3, SteadyStands
    <3> QED
      BY <1>4, <2>1, <3>1 DEF Needs
  <2> QED
    BY <1>5, <2>2, SkipEntryInv
<1>6. CASE \E file \in Resolve(c.exec[1]) :
             Continue([scan EXCEPT !.at = IF c.try = {} THEN "check" ELSE "tryExec",
                                   !.candidate = {[c EXCEPT !.exec = <<file>> \o Tail(@)]}])
  <2> DEFINE file == <<"/">> \o c.exec[1]
             d == ResolvedOf(e)
             at == IF c.try = {} THEN "check" ELSE "tryExec"
  <2>1. /\ c.exec[1] \in installed
        /\ Continue([scan EXCEPT !.at = at, !.candidate = {[c EXCEPT !.exec = <<file>> \o Tail(@)]}])
    BY <1>6 DEF Resolve
  <2>2. [c EXCEPT !.exec = <<file>> \o Tail(@)] = d
    <3>1. d = [path |-> e.path, exec |-> <<file>> \o Tail(e.exec), try |-> e.try]
      BY <1>4 DEF ResolvedOf, SessionOf
    <3> HIDE DEF file, d
    <3>2. /\ c \in [path : Paths, exec : Seq(Seq(Marked)), try : SUBSET Seq(Characters)]
          /\ d = [path |-> c.path, exec |-> <<file>> \o Tail(c.exec), try |-> c.try]
      BY <1>3, <1>4, <3>1 DEF Entries
    <3>3. ASSUME NEW x
          PROVE  [c EXCEPT !.exec = x] = [path |-> c.path, exec |-> x, try |-> c.try]
      BY <3>2
    <3> QED
      BY <3>2, <3>3
  <2>3. d \in Entries /\ d.path = c.path /\ d.exec[1][1] = "/"
    BY <1>3, ResolvedType
  <2>4. <<e, e.exec[1]>> \in supplied
    BY <1>2, <1>3, <1>4, <2>1, SuppliedNow DEF Needs
  <2>5. at \in {"tryExec", "check"} /\ (at = "check" => \A p \in e.try : <<e, p>> \in supplied)
    BY <1>3
  <2> HIDE DEF d, at, file
  <2>6. Continue([scan EXCEPT !.at = at, !.candidate = {d}])
    BY <2>1, <2>2
  <2> QED
    BY <1>3, <1>4, <2>3, <2>4, <2>5, <2>6, EntryGoesOn DEF d
<1> QED
  BY <1>1, <1>5, <1>6

\* An entry that is for a program that is not there now was not launchable all the time.
LEMMA ResolveTryExecInv == ScanInv /\ ResolveTryExec => ScanInv'
<1> SUFFICES ASSUME ScanInv, ResolveTryExec
             PROVE  ScanInv'
  OBVIOUS
<1>1. PICK c \in scan.candidate :
        IF \E command \in c.try : Resolve(command) = {}
        THEN SkipEntry ELSE Continue([scan EXCEPT !.at = "check"])
  BY DEF ResolveTryExec
<1>2. scan.at = "tryExec" /\ scan.candidate = {c} /\ c \in Entries
  BY <1>1, UnderwayIs DEF ResolveTryExec
<1>3. PICK e \in heard : e \in Entries /\ Stands(c, e) /\ c.path = e.path /\ c.try = e.try
  BY UnderwayIs
<1>4. /\ c = ResolvedOf(e) /\ <<e, e.exec[1]>> \in supplied
      /\ e.path \notin touched => e \in Said
  BY <1>2, <1>3 DEF Stands
<1>5. CASE \E command \in c.try : Resolve(command) = {}
  <2>1. \E command \in e.try : command \notin installed
    BY <1>3, <1>5 DEF Resolve
  <2>2. \A s \in steady : s.path # c.path
    <3> SUFFICES ASSUME NEW s \in steady, s.path = c.path
                 PROVE  FALSE
      OBVIOUS
    <3>1. Needs(e) \subseteq installed
      BY <1>3, SteadyStands
    <3> QED
      BY <2>1, <3>1 DEF Needs
  <2>3. SkipEntry
    BY <1>1, <1>5
  <2> QED
    BY <2>2, <2>3, SkipEntryInv
<1>6. CASE ~ \E command \in c.try : Resolve(command) = {}
  <2>1. \A p \in e.try : p \in installed
    BY <1>3, <1>6 DEF Resolve
  <2>2. \A p \in e.try : <<e, p>> \in supplied
    BY <1>2, <2>1, SuppliedNow DEF Needs
  <2>3. Continue([scan EXCEPT !.at = "check", !.candidate = {c}])
    <3>1. [scan EXCEPT !.at = "check", !.candidate = {c}] = [scan EXCEPT !.at = "check"]
      BY <1>2 DEF ScanInv, ScanTypes, ScanState
    <3> QED
      BY <1>1, <1>6, <3>1
  <2>4. c.exec[1][1] = "/"
    BY <1>3, <1>4, ResolvedType
  <2> QED
    BY <1>2, <1>4, <2>2, <2>3, <2>4, EntryGoesOn
<1> QED
  BY <1>5, <1>6

\* One session more.
LEMMA RangeAppend ==
  ASSUME NEW S, NEW found \in Seq(S), NEW s
  PROVE  Range(Append(found, s)) = Range(found) \cup {s}
<1> DEFINE n == Len(found)
           new == Append(found, s)
<1>1. n \in Nat /\ DOMAIN found = 1..n
  OBVIOUS
<1>2. /\ DOMAIN new = 1..(n + 1) /\ new[n + 1] = s
      /\ \A i \in 1..n : new[i] = found[i]
  OBVIOUS
<1> HIDE DEF new, n
<1>3. 1..(n + 1) = 1..n \cup {n + 1}
  BY <1>1
<1>4. Range(new) = Range(found) \cup {s}
  BY <1>1, <1>2, <1>3 DEF Range
<1> QED
  BY <1>4 DEF new

\* An entry that is dropped was not launchable all the time, and one that is kept was
\* possible.
LEMMA CheckAvailableInv == ScanInv /\ CheckAvailable => ScanInv'
<1> SUFFICES ASSUME ScanInv, CheckAvailable
             PROVE  ScanInv'
  OBVIOUS
<1>0. scan \in ScanState
  BY DEF ScanInv, ScanTypes
<1>1. PICK c \in scan.candidate :
        Continue([scan EXCEPT !.at = "read", !.candidate = {},
                              !.found = IF IsExecutable(c.exec[1])
                                        THEN Append(@, [path |-> c.path, exec |-> c.exec])
                                        ELSE @])
  BY DEF CheckAvailable
<1>2. scan.at = "check" /\ scan.roots # <<>> /\ scan.candidate = {c}
  BY <1>1, UnderwayIs DEF CheckAvailable
<1>3. PICK e \in heard : e \in Entries /\ Stands(c, e) /\ c.path = e.path /\ c.try = e.try
  BY UnderwayIs
<1> DEFINE session == [path |-> c.path, exec |-> c.exec]
           found == IF IsExecutable(c.exec[1]) THEN Append(scan.found, session)
                    ELSE scan.found
           next == [scan EXCEPT !.at = "read", !.candidate = {}, !.found = found]
<1>a. /\ session = SessionOf(e) /\ session \in Session /\ session.path = c.path
      /\ c.exec[1] = <<"/">> \o e.exec[1]
  <2>1. c = ResolvedOf(e)
    BY <1>2, <1>3 DEF Stands
  <2> QED
    BY <1>3, <2>1, ResolvedType
<1>b. session \in Possible
  <2>1. \A p \in Needs(e) : <<e, p>> \in supplied
    BY <1>2, <1>3 DEF Stands, Needs
  <2> QED
    BY <1>a, <2>1 DEF Possible
<1> HIDE DEF session
<1>c. scan.found \in Seq(Session)
  BY ScanParts
<1>4. found \in Seq(Session)
  BY <1>a, <1>c
<1>5. Continue(next)
  BY <1>1 DEF session
<1> HIDE DEF found
<1>6. /\ next \in ScanState
      /\ next.at = "read" /\ next.roots = scan.roots
      /\ next.todo = scan.todo /\ next.candidate = {}
      /\ next.found = found /\ next.id = scan.id
  BY <1>0, <1>4 DEF ScanState
<1> HIDE DEF next
<1>7. /\ ScanTypes' /\ listing' = NoListing /\ ListingIsSound'
      /\ scan' = next /\ UNCHANGED <<steady, heard, supplied, touched, dir, installed>>
      /\ Said' = Said /\ Launchable' = Launchable /\ Possible' = Possible
  BY <1>2, <1>5, <1>6, ContinueInv
<1>8. ScanShape'
  BY <1>2, <1>6, <1>7 DEF ScanInv, ScanShape, Underway
<1>9. /\ Range(found) \subseteq Range(scan.found) \cup {session}
      /\ Range(scan.found) \subseteq Range(found)
      /\ IsExecutable(c.exec[1]) => session \in Range(found)
  BY <1>a, <1>c, RangeAppend DEF found
<1>10. /\ Gathered' = Range(found) /\ Gathered' \subseteq Gathered \cup {session}
       /\ Gathered \subseteq Gathered' /\ ToCome' = ToCome
       /\ Taken' \subseteq Taken
  <2>1. /\ Gathered' = Range(found) /\ Gathered' \subseteq Gathered \cup {session}
        /\ Gathered \subseteq Gathered' /\ ToCome' = ToCome
    BY <1>2, <1>6, <1>7, <1>9, ScanParts DEF Gathered, ToCome, Underway
  <2>2. Taken' = {s.path : s \in Gathered'}
    BY <1>6, <1>7 DEF Taken
  <2>3. session.path \in Taken
    BY <1>2, <1>a DEF Taken
  <2>4. {s.path : s \in Gathered} \subseteq Taken
    BY DEF Taken
  <2> QED
    BY <2>1, <2>2, <2>3, <2>4
<1>11. ScanWitnessed'
  <2>1. Said \subseteq heard /\ Supplies(heard, installed) \subseteq supplied
    BY <1>2 DEF ScanInv, ScanWitnessed
  <2> QED
    BY <1>b, <1>6, <1>7, <1>10, <2>1 DEF ScanInv, ScanWitnessed
<1>12. NothingMissed'
  <2> SUFFICES ASSUME NEW s \in steady, dir[s.path.root] = "ok"
               PROVE  s \in Gathered' \/ s.path \in scan'.todo \/ s.path.root \in ToCome'
    BY <1>7 DEF NothingMissed
  <2>1. s \in Gathered \/ s.path = c.path \/ s.path \in scan.todo \/ s.path.root \in ToCome
    BY <1>2 DEF ScanInv, NothingMissed
  <2>2. ASSUME s.path = c.path
        PROVE  s \in Gathered'
    <3>1. s = SessionOf(e) /\ Needs(e) \subseteq installed
      BY <1>3, <2>2, SteadyStands
    <3>2. IsExecutable(c.exec[1])
      BY <1>a, <3>1 DEF IsExecutable, Needs
    <3> QED
      BY <1>a, <1>9, <1>10, <3>1, <3>2
  <2> QED
    BY <1>6, <1>7, <1>10, <2>1, <2>2
<1>13. NothingTwice'
  <2>1. Distinct(scan.found, touched)
    BY DEF ScanInv, NothingTwice
  <2>2. \A t \in Range(scan.found) : t.path = session.path => t.path \in touched
    BY <1>1, <1>a DEF ScanInv, NothingTwice, Gathered
  <2>3. Distinct(found, touched)
    <3>1. CASE IsExecutable(c.exec[1])
      <4> DEFINE n == Len(scan.found)
      <4>1. found = Append(scan.found, session)
        BY <3>1 DEF found
      <4>2. /\ n \in Nat /\ DOMAIN scan.found = 1..n /\ DOMAIN found = 1..(n + 1)
            /\ found[n + 1] = session
            /\ \A i \in 1..n : found[i] = scan.found[i]
        BY <1>c, <1>a, <4>1
      <4> HIDE DEF n
      <4> SUFFICES ASSUME NEW i \in 1..(n + 1), NEW j \in 1..(n + 1),
                          i < j, found[i].path = found[j].path
                   PROVE  found[i].path \in touched
        BY <4>2 DEF Distinct
      <4>3. i \in 1..n
        BY <4>2
      <4>4. CASE j \in 1..n
        BY <2>1, <4>2, <4>3, <4>4 DEF Distinct
      <4>5. CASE j = n + 1
        <5>1. found[i] \in Range(scan.found)
          BY <4>2, <4>3 DEF Range
        <5> QED
          BY <2>2, <4>2, <4>5, <5>1
      <4> QED
        BY <4>2, <4>4, <4>5
    <3>2. CASE ~IsExecutable(c.exec[1])
      BY <2>1, <3>2 DEF found
    <3> QED
      BY <3>1, <3>2
  <2> QED
    BY <1>6, <1>7, <1>10, <2>3 DEF ScanInv, NothingTwice
<1> QED
  BY <1>7, <1>8, <1>11, <1>12, <1>13 DEF ScanInv

\* A found session that was never written is there once.
LEMMA FinishInv == ScanInv /\ Finish => ScanInv'
<1> SUFFICES ASSUME ScanInv, Finish
             PROVE  ScanInv'
  OBVIOUS
<1> DEFINE sorted == SortSessions(scan.found)
           result == IF scan.id = {} THEN sorted ELSE FindSession(sorted, scan.id)
<1>1. scan.at = "open" /\ scan.roots = <<>> /\ EndScan("ok", result)
  BY DEF Finish
<1>2. scan.todo = {} /\ scan.candidate = {} /\ ToCome = {} /\ scan.found \in Seq(Session)
  BY <1>1, ScanParts, RootFacts DEF ScanInv, ScanShape, Underway
<1>3. /\ sorted \in Seq(Session) /\ Range(sorted) = Range(scan.found)
      /\ Ordered(sorted, touched)
  <2>1. \A s \in Session : s.path \in Paths
    BY SessionFacts
  <2>2. Distinct(scan.found, touched)
    BY DEF ScanInv, NothingTwice
  <2> QED
    BY <1>2, <2>1, <2>2, SortSessionsSorts
<1> HIDE DEF sorted
<1>4. Gathered = Range(sorted)
  BY <1>2, <1>3 DEF Gathered
<1>5. Range(sorted) \subseteq Possible
  BY <1>4 DEF ScanInv, ScanWitnessed
<1>6. \A s \in steady : dir[s.path.root] = "ok" => s \in Range(sorted)
  BY <1>1, <1>2, <1>4 DEF ScanInv, NothingMissed
<1>7. /\ listing'.outcome = "ok" /\ listing'.sessions = result /\ listing'.id = scan.id
      /\ steady' = steady /\ Possible' = Possible /\ touched' = touched /\ dir' = dir
  BY <1>1 DEF EndScan, hostVars, ghostVars, Possible
<1>8. CASE scan.id = {}
  <2>1. result = sorted
    BY <1>8
  <2> HIDE DEF result
  <2>2. \A i, j \in DOMAIN sorted : i < j =>
          /\ Precedes(sorted[i].path, sorted[j].path)
          /\ sorted[i].path = sorted[j].path => sorted[i].path \in touched
    BY <1>3 DEF Ordered
  <2>3. ListingIsSound'
    BY <1>5, <1>6, <1>7, <1>8, <2>1, <2>2 DEF ListingIsSound
  <2>4. result \in Seq(Session)
    BY <1>3, <2>1
  <2> QED
    BY <1>1, <2>3, <2>4, EndScanInv
<1>9. CASE scan.id # {}
  <2>1. result = FindSession(sorted, scan.id)
    BY <1>9
  <2> HIDE DEF result
  <2>2. \/ result = <<>> /\ \A s \in Range(sorted) : s.path \notin scan.id
        \/ \E s \in Range(sorted) : result = <<s>> /\ s.path \in scan.id
    BY <1>3, <2>1, FindSessionFinds
  <2>3. ASSUME NEW s \in steady, dir[s.path.root] = "ok", s.path \in scan.id
        PROVE  result = <<s>>
    <3>1. s \in Range(sorted) /\ s.path \notin touched
      BY <1>6, <2>3 DEF ScanInv, ScanWitnessed
    <3>2. PICK t \in Range(sorted) : result = <<t>> /\ t.path \in scan.id
      BY <2>2, <2>3, <3>1
    <3>3. t.path = s.path
      BY <2>3, <3>2 DEF ScanInv, ScanShape
    <3>4. PICK i \in DOMAIN sorted, j \in DOMAIN sorted : sorted[i] = s /\ sorted[j] = t
      BY <3>1, <3>2 DEF Range
    <3>5. i = j
      <4>1. DOMAIN sorted = 1..Len(sorted) /\ Len(sorted) \in Nat
        BY <1>3
      <4>2. i \in Nat /\ j \in Nat
        BY <4>1
      <4>3. ~(i < j) /\ ~(j < i)
        BY <1>3, <3>1, <3>3, <3>4 DEF Ordered
      <4> QED
        BY <4>2, <4>3
    <3> QED
      BY <3>2, <3>4, <3>5
  <2>4. /\ Len(result) <= 1 /\ DOMAIN result = 1..Len(result) /\ Len(result) \in Nat
        /\ Range(result) \subseteq Range(sorted)
        /\ \A s \in Range(result) : s.path \in scan.id
    <3>1. CASE result = <<>>
      BY <3>1, EmptyFound
    <3>2. CASE \E s \in Range(sorted) : result = <<s>> /\ s.path \in scan.id
      <4>1. PICK s \in Range(sorted) : result = <<s>> /\ s.path \in scan.id
        BY <3>2
      <4>2. Range(<<s>>) = {s} /\ Len(<<s>>) = 1
        BY DEF Range
      <4> QED
        BY <4>1, <4>2
    <3> QED
      BY <2>2, <3>1, <3>2
  <2>5. \A i, j \in DOMAIN result : ~(i < j)
    BY <2>4
  <2>6. {s \in steady : dir[s.path.root] = "ok" /\ s.path \in scan.id} \subseteq Range(result)
    <3> SUFFICES ASSUME NEW s \in steady, dir[s.path.root] = "ok", s.path \in scan.id
                 PROVE  s \in Range(result)
      OBVIOUS
    <3>1. result = <<s>>
      BY <2>3
    <3>2. s \in Range(<<s>>)
      BY DEF Range
    <3> QED
      BY <3>1, <3>2
  <2>7. ListingIsSound'
    BY <1>5, <1>7, <1>9, <2>4, <2>5, <2>6 DEF ListingIsSound
  <2>8. result \in Seq(Session)
    <3>1. \A s \in Range(sorted) : s \in Session
      BY <1>3 DEF Range
    <3>2. \A s \in Session : <<s>> \in Seq(Session)
      OBVIOUS
    <3>3. <<>> \in Seq(Session)
      OBVIOUS
    <3> QED
      BY <2>2, <3>1, <3>2, <3>3
  <2> QED
    BY <1>1, <2>7, <2>8, EndScanInv
<1> QED
  BY <1>8, <1>9

\* A change of the host makes the sessions that remain and are written less, and
\* those that were possible more.
LEMMA ChangedInv ==
  ASSUME ScanInv, NEW path \in SUBSET Paths, scan.at # "idle", Changed(path), scan' \in ScanState,
         scan'.at = scan.at, scan'.roots = scan.roots, scan'.candidate = scan.candidate,
         scan'.found = scan.found, scan'.id = scan.id,
         scan.todo \subseteq scan'.todo, scan'.todo \subseteq scan.todo \cup path,
         scan'.todo # scan.todo => scan.at \in {"read"} \cup Underway,
         \A p \in scan'.todo \ scan.todo : p.root = Head(scan.roots),
         \A p \in Paths \ path : files'[p] = files[p],
         DOMAIN files' = Paths, \A p \in Paths : IsContent(files'[p]), installed' \subseteq Commands
  PROVE  ScanInv'
<1>1. /\ changes < MaxChanges /\ changes' = changes + 1 /\ dir' = dir /\ listing' = listing
      /\ heard' = heard \cup Said'
      /\ supplied' = supplied \cup Supplies(heard', installed')
      /\ steady' \subseteq steady /\ steady' \subseteq Launchable'
      /\ \A s \in steady' : s.path \notin path
      /\ touched' = touched \cup path
  BY DEF Changed
<1>2. listing = NoListing
  BY DEF ScanInv, ScanShape
<1>3. ScanTypes'
  <2>1. changes' \in 0..MaxChanges
    BY <1>1, BoundAssumption DEF ScanInv, ScanTypes
  <2>2. \A e \in Said' : e \in Entries
    <3> SUFFICES ASSUME NEW e \in Said'
                 PROVE  e \in Entries
      OBVIOUS
    <3>1. PICK p \in Paths : e \in Meant(p, files'[p])
      BY DEF Said
    <3> QED
      BY <3>1, MeantType
  <2>3. heard' \subseteq Entries
    BY <1>1, <2>2 DEF ScanInv, ScanTypes
  <2> QED
    BY <1>1, <2>1, <2>3 DEF ScanInv, ScanTypes
<1>4. ScanShape'
  BY <1>1, <1>2 DEF ScanInv, ScanShape
<1>5. Gathered' = Gathered /\ Taken' = Taken /\ ToCome' = ToCome
  BY DEF Gathered, Taken, ToCome
<1>6. ScanWitnessed'
  <2>1. ASSUME NEW c \in scan.candidate
        PROVE  \E e \in heard' : Stands(c, e)'
    <3>1. PICK e \in heard : e \in Entries /\ Stands(c, e) /\ c.path = e.path /\ c.try = e.try
      BY UnderwayIs
    <3>2. e.path \notin touched' => e \in Said'
      <4> SUFFICES ASSUME e.path \notin touched'
                   PROVE  e \in Said'
        OBVIOUS
      <4>1. e.path \notin touched /\ e.path \notin path
        BY <1>1
      <4>2. e.path \in Paths /\ e \in Meant(e.path, files[e.path])
        BY <3>1, <4>1, SaidMeant DEF Stands
      <4>3. e \in Meant(e.path, files'[e.path])
        BY <4>1, <4>2
      <4> QED
        BY <4>2, <4>3 DEF Said
    <3>3. Stands(c, e)'
      BY <1>1, <3>1, <3>2 DEF Stands
    <3> QED
      BY <1>1, <3>3
  <2>2. Possible \subseteq Possible'
    BY <1>1 DEF Possible
  <2> QED
    BY <1>1, <1>5, <2>1, <2>2 DEF ScanInv, ScanWitnessed
<1>7. NothingMissed'
  <2> SUFFICES ASSUME NEW s \in steady', dir[s.path.root] = "ok"
               PROVE  \/ s \in Gathered \/ \E c \in scan.candidate : c.path = s.path
                      \/ s.path \in scan'.todo \/ s.path.root \in ToCome
    BY <1>1, <1>5 DEF NothingMissed
  <2> QED
    BY <1>1 DEF ScanInv, NothingMissed
<1>8. NothingTwice'
  <2>1. Distinct(scan.found, touched')
    BY <1>1 DEF ScanInv, NothingTwice, Distinct
  <2> QED
    BY <1>1, <1>5, <2>1 DEF ScanInv, NothingTwice
<1>9. ListingIsSound'
  <2>1. listing'.outcome = "none"
    BY <1>1, <1>2, NoListingType
  <2> QED
    BY <2>1 DEF ListingIsSound
<1> QED
  BY <1>3, <1>4, <1>6, <1>7, <1>8, <1>9 DEF ScanInv

\* A file that is replaced is touched, and what it meant is steady no more.
LEMMA WriteFileInv ==
  ASSUME ScanInv, NEW path \in Paths, NEW content \in Updates, WriteFile(path, content)
  PROVE  ScanInv'
<1>1. /\ scan.at # "idle" /\ files' = [files EXCEPT ![path] = content] /\ installed' = installed
      /\ Changed({path})
  BY DEF WriteFile
<1>2. scan \in ScanState /\ DOMAIN files = Paths /\ \A p \in Paths : IsContent(files[p])
  BY DEF ScanInv, ScanTypes
<1>3. /\ DOMAIN files' = Paths /\ \A p \in Paths : IsContent(files'[p])
      /\ \A p \in Paths \ {path} : files'[p] = files[p]
  BY <1>1, <1>2, UpdatesAssumption
<1>4. installed' \subseteq Commands
  BY <1>1 DEF ScanInv, ScanTypes
<1>5. CASE scan' = scan
  <2>1. {path} \in SUBSET Paths
    OBVIOUS
  <2> QED
    BY <1>1, <1>2, <1>3, <1>4, <1>5, <2>1, ChangedInv
<1>6. CASE /\ scan.at \notin {"idle", "open"}
           /\ Head(scan.roots) = path.root
           /\ scan' = [scan EXCEPT !.todo = @ \cup {path}]
  <2>1. /\ scan' \in ScanState
        /\ scan'.at = scan.at /\ scan'.roots = scan.roots /\ scan'.candidate = scan.candidate
        /\ scan'.found = scan.found /\ scan'.id = scan.id
        /\ scan'.todo = scan.todo \cup {path}
    BY <1>2, <1>6 DEF ScanState
  <2>2. {path} \in SUBSET Paths
    OBVIOUS
  <2>3. \A p \in scan'.todo \ scan.todo : p.root = Head(scan.roots)
    BY <1>6, <2>1
  <2>4. scan.at \in {"read"} \cup Underway
    BY <1>6, ScanParts
  <2> QED
    BY <1>1, <1>3, <1>4, <1>6, <2>1, <2>2, <2>3, <2>4, ChangedInv
<1> QED
  BY <1>5, <1>6 DEF WriteFile

\* What a program takes with it is steady no more.
LEMMA ChangeProgramInv ==
  ASSUME ScanInv, NEW command \in Commands, ChangeProgram(command)
  PROVE  ScanInv'
<1>1. scan.at # "idle" /\ files' = files /\ scan' = scan /\ Changed({})
  BY DEF ChangeProgram
<1>2. scan \in ScanState /\ DOMAIN files = Paths /\ \A p \in Paths : IsContent(files[p])
  BY DEF ScanInv, ScanTypes
<1>3. installed' \subseteq Commands
  BY DEF ChangeProgram, ScanInv, ScanTypes
<1>4. {} \in SUBSET Paths
  OBVIOUS
<1> QED
  BY <1>1, <1>2, <1>3, <1>4, ChangedInv

\* Every step of the catalog and of the host keeps the invariant.
LEMMA ScanInvStep == ScanInv /\ [SessionStep]_sessionVars => ScanInv'
<1> SUFFICES ASSUME ScanInv, [SessionStep]_sessionVars
             PROVE  ScanInv'
  OBVIOUS
<1>1. CASE StartScan({})
  BY <1>1, StartScanInv
<1>2. CASE \E p \in Paths : StartScan({p})
  BY <1>2, StartScanInv
<1>3. CASE OpenRoot \/ ReadEntry \/ ResolveExec \/ ResolveTryExec \/ CheckAvailable
              \/ CloseRoot \/ Finish
  BY <1>3, OpenRootInv, ReadEntryInv, ResolveExecInv, ResolveTryExecInv, CheckAvailableInv,
     CloseRootInv, FinishInv
<1>4. CASE \E p \in Paths, c \in Updates : WriteFile(p, c)
  BY <1>4, WriteFileInv
<1>5. CASE \E c \in Commands : ChangeProgram(c)
  BY <1>5, ChangeProgramInv
<1>6. CASE UNCHANGED sessionVars
  <2>1. /\ UNCHANGED <<files, installed, dir, changes, scan, listing>>
        /\ UNCHANGED <<steady, heard, supplied, touched>>
    BY <1>6 DEF sessionVars, hostVars, ghostVars
  <2>2. /\ Said' = Said /\ Launchable' = Launchable /\ Possible' = Possible
        /\ Gathered' = Gathered /\ Taken' = Taken /\ ToCome' = ToCome
    BY <2>1 DEF Said, Launchable, Possible, Gathered, Taken, ToCome
  <2>3. \A c, e : Stands(c, e)' <=> Stands(c, e)
    BY <2>1, <2>2 DEF Stands
  <2>4. ScanTypes' /\ ScanShape'
    BY <2>1 DEF ScanInv, ScanTypes, ScanShape
  <2>5. ScanWitnessed'
    BY <2>1, <2>2, <2>3 DEF ScanInv, ScanWitnessed
  <2>6. NothingMissed' /\ NothingTwice'
    BY <2>1, <2>2 DEF ScanInv, NothingMissed, NothingTwice
  <2>7. ListingIsSound'
    BY <2>1, <2>2 DEF ScanInv, ListingIsSound
  <2> QED
    BY <2>4, <2>5, <2>6, <2>7 DEF ScanInv
<1> QED
  BY <1>1, <1>2, <1>3, <1>4, <1>5, <1>6 DEF SessionStep

\* Every state of a scan keeps the invariant.
THEOREM ScanInvHolds == SessionSpec => []ScanInv
BY ScanInvInit, ScanInvStep, PTL DEF SessionSpec

\* What a scan of the sessions returns is right: nothing that could be launched all the
\* time is missing, and nothing is there that no file said or no program was there for.
THEOREM SessionListSound == SessionSpec => []ListingIsSound
<1>1. ScanInv => ListingIsSound
  BY DEF ScanInv
<1> QED
  BY <1>1, ScanInvHolds, PTL

\* The sessions are sessions of desktop files with resolved programs.
LEMMA ScanInvTypes == ScanInv => SessionTypeOK
<1> SUFFICES ASSUME ScanInv
             PROVE  SessionTypeOK
  OBVIOUS
<1>1. /\ DOMAIN files = Paths /\ installed \subseteq Commands /\ changes \in 0..MaxChanges
      /\ scan.at \in {"idle", "open", "read", "resolve", "tryExec", "check"}
      /\ listing.outcome # "ok" => listing.sessions = <<>>
      /\ scan.at \in {"resolve", "tryExec", "check"} <=> scan.candidate # {}
  BY ScanParts DEF ScanInv, ScanTypes, ScanShape, Underway
<1>2. scan.todo \subseteq {p \in Paths : scan.roots # <<>> /\ p.root = Head(scan.roots)}
  BY ScanParts DEF ScanInv, ScanShape, Underway
<1>3. Range(scan.found) \subseteq Session
  BY ScanParts DEF Range
<1>4. Range(listing.sessions) \subseteq Session
  <2>1. listing.sessions \in Seq(Session)
    BY DEF ScanInv, ScanTypes
  <2> QED
    BY <2>1 DEF Range
<1>5. \A s \in Range(scan.found) \cup Range(listing.sessions) : IsSession(s)
  BY <1>3, <1>4, SessionFacts
<1>6. \A c \in scan.candidate :
        IF scan.at = "resolve" THEN c.path.desktop /\ c.exec # <<>> ELSE IsSession(c)
  <2> SUFFICES ASSUME NEW c \in scan.candidate
               PROVE  IF scan.at = "resolve" THEN c.path.desktop /\ c.exec # <<>> ELSE IsSession(c)
    OBVIOUS
  <2>1. c.path \in Paths /\ c.path.desktop /\ c.exec # <<>>
    BY ScanParts DEF Entries
  <2>2. scan.at # "resolve" => c.exec[1][1] = "/"
    BY DEF ScanInv, ScanShape
  <2> QED
    BY <2>1, <2>2 DEF IsSession
<1> QED
  BY <1>1, <1>2, <1>5, <1>6 DEF SessionTypeOK

-----------------------------------------------------------------------------
(* Both catalogs.                                                           *)

\* Both invariants hold side by side, as neither catalog writes what the other reads.
LEMMA CatalogInvHolds == Spec => [](ScanInv /\ UserInv)
<1>1. Init => ScanInv /\ UserInv
  BY ScanInvInit, UserInvInit DEF Init
<1>2. ScanInv /\ UserInv /\ [Next]_<<sessionVars, userVars>> => (ScanInv /\ UserInv)'
  <2> SUFFICES ASSUME ScanInv, UserInv, [Next]_<<sessionVars, userVars>>
               PROVE  ScanInv' /\ UserInv'
    OBVIOUS
  <2>1. [SessionStep]_sessionVars /\ [UserStep]_userVars
    BY DEF Next, SessionsNext, UsersNext
  <2> QED
    BY <2>1, ScanInvStep, UserInvStep
<1> QED
  BY <1>1, <1>2, PTL DEF Spec

\* The states of both catalogs are of their types, however they are asked together:
\* sessions are those of desktop files with resolved programs, and the lock of the
\* connection is held exactly by the query that connects.
THEOREM CatalogTypes == Spec => []TypeOK
<1>1. ScanInv /\ UserInv => TypeOK
  BY ScanInvTypes, UserInvTypes DEF TypeOK
<1> QED
  BY <1>1, CatalogInvHolds, PTL

\* What a scan returns is right too while login users are asked for.
THEOREM CatalogListSound == Spec => []ListingIsSound
<1>1. ScanInv /\ UserInv => ListingIsSound
  BY DEF ScanInv
<1> QED
  BY <1>1, CatalogInvHolds, PTL
=============================================================================
