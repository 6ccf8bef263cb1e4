----------------------------- MODULE FoldProofs -----------------------------
(***************************************************************************)
(* A fold from the left is the loop it stands for: there is a state for    *)
(* each number of elements seen, and each comes from the one before.  What *)
(* a fold computes is then shown by induction along that run.              *)
(*                                                                         *)
(* The body of the loop is a parameter of the module, because a lemma that *)
(* has an operator as a parameter cannot be used by the provers.           *)
(***************************************************************************)
EXTENDS SequencesExt, SequenceTheorems, WellFoundedInduction, TLAPS

CONSTANT Step(_, _)

\* The run of the loop over s from the state b.
IsRun(run, b, s) ==
  /\ run[0] = b
  /\ \A k \in 1..Len(s) : run[k] = Step(run[k - 1], s[k])

Fold(b, s) == FoldLeft(Step, b, s)

-----------------------------------------------------------------------------
(* Induction, stated for a set of natural numbers.                          *)

Below == {p \in Nat \X Nat : p[1] < p[2]}

\* A set that contains zero and with each number the next contains them all.
LEMMA Induction ==
  ASSUME NEW T, 0 \in T, \A n \in Nat : n \in T => n + 1 \in T
  PROVE  Nat \subseteq T
<1> DEFINE U == Nat \ T
<1> SUFFICES ASSUME U # {}
             PROVE  FALSE
  OBVIOUS
<1>1. IsWellFoundedOn(Below, Nat)
  BY NatLessThanWellFounded DEF OpToRel, Below
<1>2. PICK n \in U : \A m \in U : ~(<<m, n>> \in Below)
  <2>1. U \in SUBSET Nat
    OBVIOUS
  <2> HIDE DEF U
  <2> QED
    BY <1>1, <2>1, WFMin, Zenon
<1>3. n # 0 /\ n - 1 \in Nat /\ n - 1 < n
  OBVIOUS
<1>4. n - 1 \notin U
  BY <1>2, <1>3 DEF Below
<1> QED
  BY <1>3, <1>4

-----------------------------------------------------------------------------
(* The definition of FoldLeft.                                              *)

\* What the recursive function behind the fold is, on the sets of positions up
\* to k.
Solves(iter, b, s, k) ==
  iter = [t \in SUBSET (1..k) |->
            IF t = {} THEN b ELSE Step(iter[t \ {Max(t)}], s[Max(t)])]

\* The largest position is the one last added.
LEMMA MaxOf ==
  ASSUME NEW k \in Nat, NEW t \in SUBSET (1..(k + 1)), k + 1 \in t
  PROVE  Max(t) = k + 1
<1>1. \A y \in t : k + 1 >= y
  OBVIOUS
<1>2. \E x \in t : \A y \in t : x >= y
  BY <1>1
<1>3. Max(t) \in t /\ \A y \in t : Max(t) >= y
  BY <1>2 DEF Max
<1>4. Max(t) \in 1..(k + 1)
  BY <1>3
<1> QED
  BY <1>1, <1>3, <1>4

\* The recursive definition has a solution.
LEMMA SolutionExists ==
  ASSUME NEW b, NEW s, NEW k \in Nat
  PROVE  \E iter : Solves(iter, b, s, k)
<1> DEFINE T == {n \in Nat : \E iter : Solves(iter, b, s, n)}
<1>1. 0 \in T
  <2> DEFINE iter == [t \in SUBSET (1..0) |-> b]
  <2>1. SUBSET (1..0) = {{}}
    OBVIOUS
  <2>2. Solves(iter, b, s, 0)
    BY <2>1 DEF Solves
  <2> HIDE DEF iter
  <2> QED
    BY <2>2
<1>2. ASSUME NEW n \in Nat, n \in T
      PROVE  n + 1 \in T
  <2>1. PICK old : Solves(old, b, s, n)
    BY <1>2
  <2> DEFINE Up(t) == Step(old[t \ {n + 1}], s[n + 1])
             new == [t \in SUBSET (1..(n + 1)) |->
                       IF n + 1 \in t THEN Up(t) ELSE old[t]]
  <2>2. ASSUME NEW t \in SUBSET (1..(n + 1))
        PROVE  new[t] = IF t = {} THEN b ELSE Step(new[t \ {Max(t)}], s[Max(t)])
    <3>1. CASE n + 1 \in t
      <4>1. Max(t) = n + 1
        BY <3>1, MaxOf
      <4>2. new[t] = Step(old[t \ {n + 1}], s[n + 1])
        BY <3>1
      <4>3. new[t \ {n + 1}] = old[t \ {n + 1}]
        OBVIOUS
      <4> QED
        BY <3>1, <4>1, <4>2, <4>3
    <3>2. CASE n + 1 \notin t
      <4>1. t \in SUBSET (1..n)
        BY <3>2
      <4>2. new[t] = old[t]
        BY <3>2
      <4>3. old[t] = IF t = {} THEN b ELSE Step(old[t \ {Max(t)}], s[Max(t)])
        BY <2>1, <4>1 DEF Solves
      <4>4. new[t \ {Max(t)}] = old[t \ {Max(t)}]
        BY <3>2
      <4> QED
        BY <4>2, <4>3, <4>4
    <3> QED
      BY <3>1, <3>2
  <2>3. Solves(new, b, s, n + 1)
    <3> HIDE DEF Up
    <3>1. new = [t \in SUBSET (1..(n + 1)) |-> new[t]]
      OBVIOUS
    <3> HIDE DEF new
    <3> QED
      BY <2>2, <3>1 DEF Solves
  <2> HIDE DEF new
  <2> QED
    BY <2>3
<1> HIDE DEF T
<1>3. k \in T
  BY <1>1, <1>2, Induction
<1> QED
  BY <1>3 DEF T

\* The fold is the value of the solution for all positions.
LEMMA FoldSolves ==
  ASSUME NEW E, NEW b, NEW s \in Seq(E)
  PROVE  \E iter : Solves(iter, b, s, Len(s)) /\ Fold(b, s) = iter[1..Len(s)]
<1> DEFINE it == CHOOSE iter : Solves(iter, b, s, Len(s))
<1>1. Len(s) \in Nat /\ DOMAIN s = 1..Len(s)
  OBVIOUS
<1>2. Solves(it, b, s, Len(s))
  BY <1>1, SolutionExists, Zenon
<1>3. Fold(b, s) = it[DOMAIN s]
  BY <1>1, Zenon DEF Fold, FoldLeft, MapThenFoldSet, Solves
<1> HIDE DEF it
<1> QED
  BY <1>1, <1>2, <1>3

\* A fold is the end of the run of its loop.
LEMMA FoldIsRun ==
  ASSUME NEW E, NEW b, NEW s \in Seq(E)
  PROVE  \E run : IsRun(run, b, s) /\ Fold(b, s) = run[Len(s)]
<1>1. PICK iter : Solves(iter, b, s, Len(s)) /\ Fold(b, s) = iter[1..Len(s)]
  BY FoldSolves
<1> DEFINE run == [k \in 0..Len(s) |-> iter[1..k]]
<1>2. Len(s) \in Nat
  OBVIOUS
<1>3. run[0] = b
  <2>1. 1..0 = {} /\ 1..0 \in SUBSET (1..Len(s))
    OBVIOUS
  <2>2. iter[1..0] = b
    BY <1>1, <2>1 DEF Solves
  <2> QED
    BY <1>2, <2>2
<1>4. ASSUME NEW k \in 1..Len(s)
      PROVE  run[k] = Step(run[k - 1], s[k])
  <2>1. 1..k \in SUBSET (1..Len(s)) /\ 1..k # {}
    BY <1>2, SMTT(30)
  <2>2. Max(1..k) = k
    <3>1. k - 1 \in Nat /\ 1..k \in SUBSET (1..((k - 1) + 1)) /\ (k - 1) + 1 \in 1..k
      BY <1>2
    <3>2. Max(1..k) = (k - 1) + 1
      BY <3>1, MaxOf
    <3> QED
      BY <3>2
  <2>3. (1..k) \ {k} = 1..(k - 1)
    OBVIOUS
  <2>4. iter[1..k] = Step(iter[(1..k) \ {Max(1..k)}], s[Max(1..k)])
    BY <1>1, <2>1 DEF Solves
  <2>5. iter[1..k] = Step(iter[1..(k - 1)], s[k])
    BY <2>2, <2>3, <2>4
  <2>6. run[k] = iter[1..k] /\ run[k - 1] = iter[1..(k - 1)]
    BY <1>2
  <2> QED
    BY <2>5, <2>6
<1>5. run[Len(s)] = iter[1..Len(s)]
  BY <1>2
<1>6. IsRun(run, b, s)
  <2> HIDE DEF run
  <2> QED
    BY <1>3, <1>4 DEF IsRun
<1> HIDE DEF run
<1> QED
  BY <1>1, <1>5, <1>6

\* A fold over nothing is its base.
THEOREM FoldEmpty ==
  ASSUME NEW b
  PROVE  Fold(b, <<>>) = b
<1>1. PICK run : IsRun(run, b, <<>>) /\ Fold(b, <<>>) = run[Len(<<>>)]
  <2>1. <<>> \in Seq({})
    OBVIOUS
  <2> QED
    BY <2>1, FoldIsRun
<1>2. Len(<<>>) = 0
  OBVIOUS
<1> QED
  BY <1>1, <1>2 DEF IsRun

\* A fold over one element more is one step more.
THEOREM FoldAppend ==
  ASSUME NEW E, NEW b, NEW s \in Seq(E), NEW x \in E
  PROVE  Fold(b, Append(s, x)) = Step(Fold(b, s), x)
<1> DEFINE t == Append(s, x)
<1>1. /\ t \in Seq(E) /\ Len(t) = Len(s) + 1 /\ t[Len(s) + 1] = x
      /\ \A k \in 1..Len(s) : s[k] = t[k]
      /\ Len(s) \in Nat
  OBVIOUS
<1> HIDE DEF t
<1>2. PICK q : IsRun(q, b, s) /\ Fold(b, s) = q[Len(s)]
  BY FoldIsRun
<1>3. PICK r : IsRun(r, b, t) /\ Fold(b, t) = r[Len(t)]
  BY <1>1, FoldIsRun
<1>4. q[Len(s)] = r[Len(s)]
  <2> DEFINE T == {k \in Nat : k <= Len(s) => q[k] = r[k]}
  <2>1. 0 \in T
    BY <1>2, <1>3 DEF IsRun
  <2>2. ASSUME NEW k \in Nat, k \in T
        PROVE  k + 1 \in T
    <3> SUFFICES ASSUME k + 1 <= Len(s)
                 PROVE  q[k + 1] = r[k + 1]
      OBVIOUS
    <3>1. k + 1 \in 1..Len(s) /\ k + 1 \in 1..Len(t) /\ (k + 1) - 1 = k
      BY <1>1
    <3>2. q[k + 1] = Step(q[k], s[k + 1])
      BY <1>2, <3>1 DEF IsRun
    <3>3. r[k + 1] = Step(r[k], t[k + 1])
      BY <1>3, <3>1 DEF IsRun
    <3>4. q[k] = r[k]
      BY <1>1, <2>2, <3>1
    <3> QED
      BY <1>1, <3>1, <3>2, <3>3, <3>4
  <2> HIDE DEF T
  <2>3. Nat \subseteq T
    BY <2>1, <2>2, Induction
  <2> QED
    BY <1>1, <2>3 DEF T
<1>5. r[Len(s) + 1] = Step(r[Len(s)], t[Len(s) + 1])
  <2>1. Len(s) + 1 \in 1..Len(t) /\ (Len(s) + 1) - 1 = Len(s)
    BY <1>1
  <2> QED
    BY <1>3, <2>1 DEF IsRun
<1> QED
  BY <1>1, <1>2, <1>3, <1>4, <1>5 DEF t

-----------------------------------------------------------------------------
(* Parts of a sequence.                                                     *)

\* The part w of the whole begins behind the position a.
Part(whole, a, w) ==
  /\ a \in Nat
  /\ a + Len(w) <= Len(whole)
  /\ \A j \in 1..Len(w) : whole[a + j] = w[j]

\* From the position a on, the run goes through w.
Along(run, a, w) ==
  \A j \in 1..Len(w) : run[a + j] = Step(run[a + (j - 1)], w[j])

\* A run over the whole goes through its parts.
THEOREM RunAlong ==
  ASSUME NEW E, NEW b, NEW whole \in Seq(E), NEW w \in Seq(E),
         NEW run, IsRun(run, b, whole), NEW a, Part(whole, a, w)
  PROVE  Along(run, a, w)
<1> SUFFICES ASSUME NEW j \in 1..Len(w)
             PROVE  run[a + j] = Step(run[a + (j - 1)], w[j])
  BY DEF Along
<1>1. Len(w) \in Nat /\ Len(whole) \in Nat /\ a \in Nat /\ a + Len(w) <= Len(whole)
  BY DEF Part
<1>2. a + j \in 1..Len(whole) /\ (a + j) - 1 = a + (j - 1)
  BY <1>1
<1>3. run[a + j] = Step(run[(a + j) - 1], whole[a + j])
  BY <1>2 DEF IsRun
<1>4. whole[a + j] = w[j]
  BY DEF Part
<1> QED
  BY <1>2, <1>3, <1>4

\* A run over one element is one step.
THEOREM AlongOne ==
  ASSUME NEW run, NEW a \in Nat, NEW x, Along(run, a, <<x>>)
  PROVE  run[a + 1] = Step(run[a], x)
<1>1. 1 \in 1..Len(<<x>>) /\ a + (1 - 1) = a /\ <<x>>[1] = x
  OBVIOUS
<1>2. run[a + 1] = Step(run[a + (1 - 1)], <<x>>[1])
  BY <1>1 DEF Along
<1> QED
  BY <1>1, <1>2

\* A run over two elements is two steps.
THEOREM AlongTwo ==
  ASSUME NEW run, NEW a \in Nat, NEW x, NEW y, Along(run, a, <<x, y>>)
  PROVE  run[a + 2] = Step(Step(run[a], x), y)
<1> DEFINE w == <<x, y>>
<1>1. /\ 1 \in 1..Len(w) /\ 2 \in 1..Len(w)
      /\ a + (1 - 1) = a /\ a + (2 - 1) = a + 1
      /\ w[1] = x /\ w[2] = y
  OBVIOUS
<1>2. Along(run, a, w)
  OBVIOUS
<1> HIDE DEF w
<1>3. run[a + 1] = Step(run[a + (1 - 1)], w[1])
  BY <1>1, <1>2 DEF Along
<1>4. run[a + 2] = Step(run[a + (2 - 1)], w[2])
  BY <1>1, <1>2 DEF Along
<1> QED
  BY <1>1, <1>3, <1>4

\* A run over two sequences, one behind the other, is a run over each.
THEOREM AlongBoth ==
  ASSUME NEW E, NEW v \in Seq(E), NEW w \in Seq(E),
         NEW run, NEW a \in Nat, Along(run, a, v \o w)
  PROVE  Along(run, a, v) /\ Along(run, a + Len(v), w)
<1> DEFINE u == v \o w
<1>1. /\ Len(u) = Len(v) + Len(w) /\ Len(v) \in Nat /\ Len(w) \in Nat
      /\ \A j \in 1..Len(v) : u[j] = v[j]
      /\ \A j \in 1..Len(w) : u[Len(v) + j] = w[j]
  OBVIOUS
<1>2. \A j \in 1..Len(u) : run[a + j] = Step(run[a + (j - 1)], u[j])
  BY DEF Along
<1> HIDE DEF u
<1>3. Along(run, a, v)
  <2> SUFFICES ASSUME NEW j \in 1..Len(v)
               PROVE  run[a + j] = Step(run[a + (j - 1)], v[j])
    BY DEF Along
  <2>1. j \in 1..Len(u)
    BY <1>1
  <2> QED
    BY <1>1, <1>2, <2>1
<1>4. Along(run, a + Len(v), w)
  <2> SUFFICES ASSUME NEW j \in 1..Len(w)
               PROVE  run[(a + Len(v)) + j] = Step(run[(a + Len(v)) + (j - 1)], w[j])
    BY DEF Along
  <2>1. Len(v) + j \in 1..Len(u)
    BY <1>1
  <2>2. run[a + (Len(v) + j)] = Step(run[a + ((Len(v) + j) - 1)], u[Len(v) + j])
    BY <1>2, <2>1
  <2>3. /\ a + (Len(v) + j) = (a + Len(v)) + j
        /\ a + ((Len(v) + j) - 1) = (a + Len(v)) + (j - 1)
    BY <1>1
  <2> QED
    BY <1>1, <2>2, <2>3
<1> QED
  BY <1>3, <1>4

\* A run through the whole goes through its parts.
THEOREM AlongPart ==
  ASSUME NEW E, NEW whole \in Seq(E), NEW w \in Seq(E), NEW run, NEW a \in Nat,
         Along(run, a, whole), NEW p, Part(whole, p, w)
  PROVE  Along(run, a + p, w)
<1> SUFFICES ASSUME NEW j \in 1..Len(w)
             PROVE  run[(a + p) + j] = Step(run[(a + p) + (j - 1)], w[j])
  BY DEF Along
<1>1. Len(w) \in Nat /\ Len(whole) \in Nat /\ p \in Nat /\ p + Len(w) <= Len(whole)
  BY DEF Part
<1>2. p + j \in 1..Len(whole)
  BY <1>1
<1>3. run[a + (p + j)] = Step(run[a + ((p + j) - 1)], whole[p + j])
  BY <1>2 DEF Along
<1>4. whole[p + j] = w[j]
  BY DEF Part
<1>5. a + (p + j) = (a + p) + j /\ a + ((p + j) - 1) = (a + p) + (j - 1)
  BY <1>1
<1> QED
  BY <1>3, <1>4, <1>5
=============================================================================
