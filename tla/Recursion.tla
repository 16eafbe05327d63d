----------------------------- MODULE Recursion -----------------------------
(***************************************************************************)
(* Division, induction over the natural numbers and the functions it       *)
(* defines, stated with sets and functions as parameters.  The modules     *)
(* with recursive functions prove with it what those compute for every     *)
(* input.                                                                  *)
(***************************************************************************)
EXTENDS Integers, SequencesExt, SequenceTheorems, WellFoundedInduction, TLAPS

\* A set of natural numbers has a least one.
LEMMA LeastNat ==
  ASSUME NEW T \in SUBSET Nat, T # {}
  PROVE  \E x \in T : \A y \in T : x <= y
<1>1. PICK x \in T : \A y \in T : ~(<<y, x>> \in OpToRel(<, Nat))
  BY NatLessThanWellFounded, WFMin
<1>2. ASSUME NEW y \in T PROVE x <= y
  <2>1. ~(y < x)
    BY <1>1, <1>2 DEF OpToRel
  <2> QED BY <2>1
<1> QED BY <1>2

\* Division by a positive number.
LEMMA DivMod ==
  ASSUME NEW a \in Int, NEW b \in Nat \ {0}
  PROVE  /\ a \div b \in Int /\ (a % b) \in 0..(b - 1) /\ a = b * (a \div b) + (a % b)
         /\ a >= 0 => a \div b >= 0
OBVIOUS

\* Multiples grow.
LEMMA Multiples ==
  ASSUME NEW b \in Nat \ {0}, NEW p \in Int, NEW q \in Int, p < q
  PROVE  /\ b * p \in Int /\ b * q \in Int /\ b * (p + 1) = b * p + b
         /\ b * p + b <= b * q
<1>1. b * (p + 1) = b * p + b /\ b * p \in Int /\ b * q \in Int
  OBVIOUS
<1>2. b * (p + 1) <= b * q
  OBVIOUS
<1> QED BY <1>1, <1>2

\* A number is a multiple and a remainder in one way only.
LEMMA DivUnique ==
  ASSUME NEW b \in Nat \ {0}, NEW q \in Int, NEW r \in 0..(b - 1)
  PROVE  (b * q + r) \div b = q /\ (b * q + r) % b = r
<1> DEFINE a == b * q + r
           p == a \div b
           s == a % b
<1>1. a \in Int /\ p \in Int /\ s \in 0..(b - 1) /\ a = b * p + s
  BY DivMod
<1>2. b * p + s = b * q + r
  BY <1>1
<1> HIDE DEF p, s
<1>3. ~ p < q
  BY <1>1, <1>2, Multiples
<1>4. ~ q < p
  BY <1>1, <1>2, Multiples
<1>5. p = q
  BY <1>1, <1>3, <1>4
<1>6. s = r
  BY <1>1, <1>2, <1>5
<1> QED BY <1>5, <1>6 DEF p, s

\* A set with 0 and the successor of each of its numbers has them all.
LEMMA SetInduction ==
  ASSUME NEW S, 0 \in S, \A n \in Nat : n \in S => n + 1 \in S
  PROVE  \A n \in Nat : n \in S
<1> SUFFICES ASSUME NEW n \in Nat, n \notin S PROVE FALSE
  OBVIOUS
<1> DEFINE T == Nat \ S
<1>1. PICK x \in T : \A y \in T : x <= y
  BY LeastNat
<1>2. x # 0 /\ x - 1 \in Nat
  OBVIOUS
<1>3. x - 1 \in S
  BY <1>1, <1>2
<1>4. (x - 1) + 1 = x
  OBVIOUS
<1> QED BY <1>2, <1>3, <1>4

\* A set P with every element of S whose smaller ones, by the measure m, are in P,
\* contains S.
THEOREM MeasureInduction ==
  ASSUME NEW S, NEW P, NEW m \in [S -> Nat],
         \A s \in S : (\A t \in S : m[t] < m[s] => t \in P) => s \in P
  PROVE  S \subseteq P
<1> DEFINE N == {n \in Nat : \A s \in S : m[s] < n => s \in P}
<1>1. 0 \in N
  OBVIOUS
<1>2. ASSUME NEW n \in Nat, n \in N PROVE n + 1 \in N
  <2> SUFFICES ASSUME NEW s \in S, m[s] < n + 1 PROVE s \in P
    OBVIOUS
  <2>1. ASSUME NEW t \in S, m[t] < m[s] PROVE t \in P
    BY <1>2, <2>1
  <2> QED BY <2>1
<1>3. \A n \in Nat : n \in N
  <2> HIDE DEF N
  <2> QED BY <1>1, <1>2, SetInduction
<1>4. ASSUME NEW s \in S PROVE s \in P
  <2>1. m[s] + 1 \in N
    BY <1>3
  <2> QED BY <2>1
<1> QED BY <1>4

\* The body of a recursive function from S to V looks at smaller arguments only.
Contractive(S, V, m, body) ==
  /\ body \in [[S -> V] \X S -> V]
  /\ \A g, h \in [S -> V], s \in S :
       (\A t \in S : m[t] < m[s] => g[t] = h[t]) => body[<<g, s>>] = body[<<h, s>>]

\* f is the function from S to V the body defines.
Solves(S, V, body, f) == f \in [S -> V] /\ \A s \in S : f[s] = body[<<f, s>>]

\* f is what the body says wherever the measure is below n.
Obeys(S, m, body, f, n) == \A s \in S : m[s] < n => f[s] = body[<<f, s>>]

\* Two functions the body describes below n are the same there.
LEMMA UniqueBelow ==
  ASSUME NEW S, NEW V, NEW m \in [S -> Nat], NEW body,
         Contractive(S, V, m, body), NEW n \in Nat,
         NEW g \in [S -> V], NEW h \in [S -> V],
         Obeys(S, m, body, g, n), Obeys(S, m, body, h, n)
  PROVE  \A s \in S : m[s] < n => g[s] = h[s]
<1> DEFINE P == {s \in S : m[s] < n => g[s] = h[s]}
<1>1. ASSUME NEW s \in S, \A t \in S : m[t] < m[s] => t \in P PROVE s \in P
  <2> SUFFICES ASSUME m[s] < n PROVE g[s] = h[s]
    OBVIOUS
  <2>1. \A t \in S : m[t] < m[s] => g[t] = h[t]
    <3> TAKE t \in S
    <3> HAVE m[t] < m[s]
    <3>1. m[t] < n
      OBVIOUS
    <3> QED BY <1>1, <3>1
  <2>2. body[<<g, s>>] = body[<<h, s>>]
    BY <2>1 DEF Contractive
  <2> QED BY <2>2 DEF Obeys
<1>2. S \subseteq P
  <2> HIDE DEF P
  <2> QED BY <1>1, MeasureInduction
<1> QED BY <1>2

\* Below every n there is one.
LEMMA ExistsBelow ==
  ASSUME NEW S, NEW V, V # {}, NEW m \in [S -> Nat], NEW body,
         Contractive(S, V, m, body)
  PROVE  \A n \in Nat : \E f \in [S -> V] : Obeys(S, m, body, f, n)
<1> DEFINE N == {n \in Nat : \E f \in [S -> V] : Obeys(S, m, body, f, n)}
<1>1. 0 \in N
  <2>1. PICK v \in V : TRUE
    OBVIOUS
  <2>2. [s \in S |-> v] \in [S -> V]
    OBVIOUS
  <2>3. Obeys(S, m, body, [s \in S |-> v], 0)
    BY DEF Obeys
  <2> QED BY <2>2, <2>3
<1>2. ASSUME NEW n \in Nat, n \in N PROVE n + 1 \in N
  <2>1. PICK f \in [S -> V] : Obeys(S, m, body, f, n)
    BY <1>2
  <2> DEFINE g == [s \in S |-> body[<<f, s>>]]
  <2>2. g \in [S -> V]
    BY DEF Contractive
  <2>3. ASSUME NEW s \in S, m[s] < n + 1 PROVE g[s] = body[<<g, s>>]
    <3>1. \A t \in S : m[t] < m[s] => f[t] = g[t]
      <4> TAKE t \in S
      <4> HAVE m[t] < m[s]
      <4>1. m[t] < n
        BY <2>3
      <4> QED BY <2>1, <4>1 DEF Obeys
    <3> HIDE DEF g
    <3>2. body[<<f, s>>] = body[<<g, s>>]
      BY <2>2, <3>1 DEF Contractive
    <3> QED BY <3>2 DEF g
  <2>4. Obeys(S, m, body, g, n + 1)
    BY <2>3 DEF Obeys
  <2> HIDE DEF g
  <2> QED BY <2>2, <2>4
<1>3. \A n \in Nat : n \in N
  <2> HIDE DEF N
  <2> QED BY <1>1, <1>2, SetInduction
<1> QED BY <1>3

\* A recursive definition whose body looks at smaller arguments only has a function.
THEOREM RecursiveFunctionExists ==
  ASSUME NEW S, NEW V, V # {}, NEW m \in [S -> Nat], NEW body,
         Contractive(S, V, m, body)
  PROVE  \E f : Solves(S, V, body, f)
<1> DEFINE Good(f, n) == f \in [S -> V] /\ Obeys(S, m, body, f, n)
           at(n) == CHOOSE f \in [S -> V] : Obeys(S, m, body, f, n)
           F == [s \in S |-> at(m[s] + 1)[s]]
<1>1. \A n \in Nat : Good(at(n), n)
  BY ExistsBelow
<1>2. F \in [S -> V]
  BY <1>1
<1>3. ASSUME NEW s \in S PROVE F[s] = body[<<F, s>>]
  <2>1. m[s] + 1 \in Nat /\ m[s] < m[s] + 1
    OBVIOUS
  <2>2. Good(at(m[s] + 1), m[s] + 1)
    BY <1>1, <2>1
  <2>3. ASSUME NEW t \in S, m[t] < m[s] PROVE at(m[s] + 1)[t] = F[t]
    <3>1. m[t] + 1 \in Nat /\ m[t] < m[t] + 1 /\ m[t] + 1 <= m[s] + 1
      BY <2>3
    <3>2. Good(at(m[t] + 1), m[t] + 1)
      BY <1>1, <3>1
    <3>3. Obeys(S, m, body, at(m[s] + 1), m[t] + 1)
      <4> HIDE DEF at
      <4> SUFFICES ASSUME NEW u \in S, m[u] < m[t] + 1
                   PROVE  at(m[s] + 1)[u] = body[<<at(m[s] + 1), u>>]
        BY DEF Obeys
      <4>1. m[u] < m[s] + 1
        BY <3>1
      <4> QED BY <2>2, <4>1 DEF Obeys
    <3> HIDE DEF at
    <3>4. \A u \in S : m[u] < m[t] + 1 => at(m[s] + 1)[u] = at(m[t] + 1)[u]
      BY <2>2, <3>1, <3>2, <3>3, UniqueBelow
    <3>5. at(m[s] + 1)[t] = at(m[t] + 1)[t]
      BY <3>1, <3>4
    <3> QED BY <3>5
  <2> HIDE DEF F, at
  <2>4. body[<<at(m[s] + 1), s>>] = body[<<F, s>>]
    BY <1>2, <2>2, <2>3 DEF Contractive
  <2>5. at(m[s] + 1)[s] = body[<<at(m[s] + 1), s>>]
    BY <2>1, <2>2 DEF Obeys
  <2> QED BY <2>4, <2>5 DEF F
<1> HIDE DEF F
<1> QED BY <1>2, <1>3 DEF Solves

\* f is what a loop on the states S computes: "out" of the state it halts in.
LoopComputes(S, V, halt, next, out, f) ==
  f \in [S -> V] /\ \A s \in S : f[s] = IF s \in halt THEN out[s] ELSE f[next[s]]

\* A loop that takes steps to smaller states until it halts computes a function.
LEMMA LoopFunctionExists ==
  ASSUME NEW S, NEW V, V # {}, NEW m \in [S -> Nat], NEW halt, NEW next \in [S -> S],
         NEW out \in [S -> V], \A s \in S : s \notin halt => m[next[s]] < m[s]
  PROVE  \E f : LoopComputes(S, V, halt, next, out, f)
<1> DEFINE body == [x \in [S -> V] \X S |->
                      IF x[2] \in halt THEN out[x[2]] ELSE x[1][next[x[2]]]]
<1>1. \A f \in [S -> V], s \in S :
        body[<<f, s>>] = IF s \in halt THEN out[s] ELSE f[next[s]]
  OBVIOUS
<1>2. body \in [[S -> V] \X S -> V]
  OBVIOUS
<1> HIDE DEF body
<1>3. Contractive(S, V, m, body)
  BY <1>1, <1>2 DEF Contractive
<1>4. PICK f : Solves(S, V, body, f)
  BY <1>3, RecursiveFunctionExists
<1>5. f \in [S -> V] /\ \A s \in S : f[s] = body[<<f, s>>]
  BY <1>4 DEF Solves
<1>6. \A s \in S : f[s] = IF s \in halt THEN out[s] ELSE f[next[s]]
  BY <1>1, <1>5
<1> QED BY <1>5, <1>6 DEF LoopComputes

(***************************************************************************)
(* FlattenSeq of SequencesExt.                                             *)
(***************************************************************************)
\* The texts up to one, joined.
Joined(seqs) ==
  CHOOSE f : f = [i \in 1..Len(seqs) |-> IF i = 1 THEN seqs[i] ELSE f[i - 1] \o seqs[i]]

\* FlattenSeq is the last of the joined texts,
LEMMA FlattenIsJoined ==
  ASSUME NEW seqs
  PROVE  FlattenSeq(seqs) = IF Len(seqs) = 0 THEN seqs ELSE Joined(seqs)[Len(seqs)]
BY DEF FlattenSeq, Joined

\* each of which is the one before it and the next text.
LEMMA JoinedIs ==
  ASSUME NEW S, NEW seqs \in Seq(Seq(S))
  PROVE  /\ Joined(seqs) \in [1..Len(seqs) -> Seq(S)]
         /\ \A i \in 1..Len(seqs) :
              Joined(seqs)[i] = IF i = 1 THEN seqs[i] ELSE Joined(seqs)[i - 1] \o seqs[i]
<1> DEFINE D == 1..Len(seqs)
           V == Seq(S)
           m == [i \in D |-> i]
           body == [x \in [D -> V] \X D |-> IF x[2] = 1 THEN seqs[x[2]] ELSE x[1][x[2] - 1] \o seqs[x[2]]]
           Body(f) == [i \in D |-> IF i = 1 THEN seqs[i] ELSE f[i - 1] \o seqs[i]]
<1>0. \A a, b \in V : a \o b \in V
  BY ConcatProperties
<1>1. \A f \in [D -> V], i \in D :
        /\ body[<<f, i>>] = (IF i = 1 THEN seqs[i] ELSE f[i - 1] \o seqs[i])
        /\ body[<<f, i>>] \in V
  <2> TAKE f \in [D -> V], i \in D
  <2>1. body[<<f, i>>] = (IF i = 1 THEN seqs[i] ELSE f[i - 1] \o seqs[i])
    OBVIOUS
  <2>2. seqs[i] \in V /\ (i # 1 => f[i - 1] \in V)
    <3>1. seqs[i] \in V /\ (i # 1 => i - 1 \in D)
      OBVIOUS
    <3> HIDE DEF V, D, body
    <3> QED BY <3>1
  <2> HIDE DEF body, V
  <2> QED BY <1>0, <2>1, <2>2
<1>2. body \in [[D -> V] \X D -> V]
  <2>1. DOMAIN body = [D -> V] \X D /\ body = [x \in [D -> V] \X D |-> body[x]]
    OBVIOUS
  <2>2. \A x \in [D -> V] \X D : body[x] \in V
    <3> TAKE x \in [D -> V] \X D
    <3>1. x = <<x[1], x[2]>> /\ x[1] \in [D -> V] /\ x[2] \in D
      OBVIOUS
    <3> HIDE DEF body, V, D
    <3> QED BY <1>1, <3>1
  <2> HIDE DEF body, V, D
  <2> QED BY <2>1, <2>2
<1>3. m \in [D -> Nat] /\ \A i \in D : m[i] = i
  OBVIOUS
<1>4. Contractive(D, V, m, body)
  <2>1. ASSUME NEW g \in [D -> V], NEW h \in [D -> V], NEW i \in D,
               \A j \in D : m[j] < m[i] => g[j] = h[j]
        PROVE  body[<<g, i>>] = body[<<h, i>>]
    <3>1. i # 1 => i - 1 \in D /\ m[i - 1] < m[i]
      OBVIOUS
    <3>2. i # 1 => g[i - 1] = h[i - 1]
      BY <2>1, <3>1
    <3> HIDE DEF body, m, V, D
    <3> QED BY <1>1, <3>2
  <2> HIDE DEF body, m, V, D
  <2> QED BY <1>2, <2>1 DEF Contractive
<1>5. V # {}
  <2>1. <<>> \in V
    OBVIOUS
  <2> QED BY <2>1
<1>6. PICK f : Solves(D, V, body, f)
  <2> HIDE DEF body, m, V, D
  <2> QED BY <1>3, <1>4, <1>5, RecursiveFunctionExists
<1>7. f \in [D -> V] /\ \A i \in D : f[i] = IF i = 1 THEN seqs[i] ELSE f[i - 1] \o seqs[i]
  <2> HIDE DEF body, V, D
  <2> QED BY <1>1, <1>6 DEF Solves
<1>8. f = Body(f)
  <2> HIDE DEF V, D
  <2> QED BY <1>7
<1>9. Joined(seqs) = Body(Joined(seqs))
  <2>1. Joined(seqs) = CHOOSE g : g = Body(g)
    BY DEF Joined
  <2> HIDE DEF Body
  <2> QED BY <1>8, <2>1
<1> DEFINE J == Joined(seqs)
<1>10. \A i \in D : J[i] = IF i = 1 THEN seqs[i] ELSE J[i - 1] \o seqs[i]
  BY <1>9
<1>11. DOMAIN J = D /\ J = [i \in D |-> J[i]]
  <2> HIDE DEF J
  <2>1. J = Body(J)
    BY <1>9 DEF J
  <2>2. DOMAIN Body(J) = D /\ Body(J) = [i \in D |-> Body(J)[i]]
    OBVIOUS
  <2> HIDE DEF Body, D
  <2> QED BY <2>1, <2>2
<1> HIDE DEF J
<1> DEFINE N == {n \in Nat : n \in D => J[n] \in V}
<1>12. ASSUME NEW n \in Nat, n \in N PROVE n + 1 \in N
  <2> SUFFICES ASSUME n + 1 \in D PROVE J[n + 1] \in V
    OBVIOUS
  <2>1. seqs[n + 1] \in V
    OBVIOUS
  <2>2. CASE n = 0
    BY <1>10, <2>1, <2>2
  <2>3. CASE n # 0
    <3>1. n \in D /\ n + 1 # 1 /\ (n + 1) - 1 = n
      BY <2>3
    <3>2. J[n] \in V
      BY <1>12, <3>1
    <3>3. J[n + 1] = J[n] \o seqs[n + 1]
      BY <1>10, <3>1
    <3> HIDE DEF V, D
    <3> QED BY <1>0, <2>1, <3>2, <3>3
  <2> QED BY <2>2, <2>3
<1>13. \A n \in Nat : n \in N
  <2>1. 0 \in N
    OBVIOUS
  <2> HIDE DEF N
  <2> QED BY <1>12, <2>1, SetInduction
<1>14. J \in [D -> V]
  <2>1. \A i \in D : J[i] \in V
    BY <1>13
  <2> HIDE DEF V, D
  <2> QED BY <1>11, <2>1
<1> QED BY <1>10, <1>14 DEF J

\* The joined text of the texts up to the n-th.
Upto(seqs, n) == IF n = 0 THEN <<>> ELSE Joined(seqs)[n]

\* The joined text grows by one text at a time, from the empty one to FlattenSeq.
LEMMA UptoAdds ==
  ASSUME NEW S, NEW seqs \in Seq(Seq(S))
  PROVE  /\ \A n \in 0..Len(seqs) : Upto(seqs, n) \in Seq(S)
         /\ Upto(seqs, 0) = <<>>
         /\ \A n \in 1..Len(seqs) : Upto(seqs, n) = Upto(seqs, n - 1) \o seqs[n]
         /\ FlattenSeq(seqs) = Upto(seqs, Len(seqs))
<1> DEFINE J == Joined(seqs)
<1>1. /\ J \in [1..Len(seqs) -> Seq(S)]
      /\ \A i \in 1..Len(seqs) : J[i] = IF i = 1 THEN seqs[i] ELSE J[i - 1] \o seqs[i]
  BY JoinedIs
<1>2. FlattenSeq(seqs) = Upto(seqs, Len(seqs))
  <2>1. Len(seqs) = 0 => seqs = <<>>
    OBVIOUS
  <2> QED BY <2>1, FlattenIsJoined DEF Upto
<1> HIDE DEF J
<1>3. ASSUME NEW n \in 0..Len(seqs) PROVE Upto(seqs, n) \in Seq(S)
  <2>1. CASE n = 0
    BY <2>1, EmptySeq DEF Upto
  <2>2. CASE n # 0
    <3>1. n \in 1..Len(seqs)
      BY <2>2
    <3>2. J[n] \in Seq(S)
      BY <1>1, <3>1
    <3> QED BY <2>2, <3>2 DEF Upto, J
  <2> QED BY <2>1, <2>2
<1>4. ASSUME NEW n \in 1..Len(seqs) PROVE Upto(seqs, n) = Upto(seqs, n - 1) \o seqs[n]
  <2>1. Upto(seqs, n) = J[n]
    BY DEF Upto, J
  <2>2. CASE n = 1
    <3>1. seqs[n] \in Seq(S) /\ <<>> \o seqs[n] = seqs[n]
      BY ConcatEmptySeq
    <3>2. Upto(seqs, n - 1) = <<>> /\ J[n] = seqs[n]
      <4>1. n - 1 = 0
        BY <2>2
      <4> QED BY <1>1, <2>2, <4>1 DEF Upto
    <3> QED BY <2>1, <3>1, <3>2
  <2>3. CASE n # 1
    <3>1. n - 1 # 0
      BY <2>3
    <3>2. Upto(seqs, n - 1) = J[n - 1]
      BY <3>1 DEF Upto, J
    <3> QED BY <1>1, <2>1, <2>3, <3>2
  <2> QED BY <2>2, <2>3
<1> QED BY <1>2, <1>3, <1>4 DEF Upto

(***************************************************************************)
(* Sequences one after the other.  The provers reason about Cat and One by *)
(* these lemmas, without the elements.                                     *)
(***************************************************************************)
Cat(a, b) == a \o b
One(c)    == <<c>>

\* Two texts one after the other are a text,
LEMMA CatTyped ==
  ASSUME NEW S, NEW a \in Seq(S), NEW b \in Seq(S)
  PROVE  Cat(a, b) \in Seq(S)
BY ConcatProperties DEF Cat

\* it does not matter which two are joined first,
LEMMA CatAssoc ==
  ASSUME NEW S, NEW a \in Seq(S), NEW b \in Seq(S), NEW c \in Seq(S)
  PROVE  Cat(Cat(a, b), c) = Cat(a, Cat(b, c))
BY ConcatAssociative DEF Cat

\* and the empty text adds nothing.
LEMMA CatEmpty ==
  ASSUME NEW S, NEW a \in Seq(S)
  PROVE  Cat(a, <<>>) = a /\ Cat(<<>>, a) = a
BY ConcatEmptySeq DEF Cat

\* A symbol is a text.
LEMMA OneTyped ==
  ASSUME NEW S, NEW c \in S
  PROVE  One(c) \in Seq(S)
BY DEF One
=============================================================================
