--------------------------- MODULE Answers_proofs ---------------------------
(***************************************************************************)
(* Whatever the handlers answer fits into the memory the printers          *)
(* allocate, in both formats and at every depth; whoever parses its JSON   *)
(* with the parser of cJSON gets the tree the handler built, with the      *)
(* bytes of every image; and a list of games is complete, for any number   *)
(* of games, users and changes of the table while the cursor is on its     *)
(* way.                                                                    *)
(***************************************************************************)
EXTENDS Answers, Recursion, SequenceTheorems, FiniteSetTheorems, TLAPS

(***************************************************************************)
(* The levels of trees.                                                    *)
(***************************************************************************)
\* f has the trees of the levels up to the n-th.
Levels(f, n) == \A i \in 0..n : f[i] = IF i = 0 THEN Grown({}) ELSE Grown(f[i - 1])

\* The level below determines a level.
LEMMA LevelsSame ==
  ASSUME NEW f, NEW g, NEW k \in Nat, Levels(f, k), Levels(g, k)
  PROVE  \A n \in 0..k : f[n] = g[n]
<1> DEFINE N == {n \in Nat : n <= k => f[n] = g[n]}
<1>1. 0 \in N
  BY DEF Levels
<1>2. ASSUME NEW n \in Nat, n \in N PROVE n + 1 \in N
  <2> SUFFICES ASSUME n + 1 <= k PROVE f[n + 1] = g[n + 1]
    OBVIOUS
  <2>1. n + 1 \in 0..k /\ n + 1 # 0 /\ (n + 1) - 1 = n /\ n <= k
    OBVIOUS
  <2>2. f[n + 1] = Grown(f[n]) /\ g[n + 1] = Grown(g[n])
    BY <2>1 DEF Levels
  <2> QED BY <1>2, <2>1, <2>2
<1>3. \A n \in Nat : n \in N
  <2> HIDE DEF N
  <2> QED BY <1>1, <1>2, SetInduction
<1> QED BY <1>3

\* There are levels up to any.
LEMMA LevelsExist == \A n \in Nat : \E f : Levels(f, n)
<1> DEFINE N == {n \in Nat : \E f : Levels(f, n)}
<1>1. 0 \in N
  <2> DEFINE f == [i \in {0} |-> Grown({})]
  <2>1. \A i \in 0..0 : i = 0 /\ f[i] = Grown({})
    OBVIOUS
  <2> HIDE DEF f
  <2>2. Levels(f, 0)
    BY <2>1 DEF Levels
  <2> QED BY <2>2
<1>2. ASSUME NEW n \in Nat, n \in N PROVE n + 1 \in N
  <2>1. PICK f : Levels(f, n)
    BY <1>2
  <2> DEFINE g == [i \in 0..(n + 1) |-> IF i = n + 1 THEN Grown(f[n]) ELSE f[i]]
  <2>2. \A i \in 0..(n + 1) : g[i] = IF i = n + 1 THEN Grown(f[n]) ELSE f[i]
    OBVIOUS
  <2> HIDE DEF g
  <2>3. ASSUME NEW i \in 0..(n + 1)
        PROVE  g[i] = IF i = 0 THEN Grown({}) ELSE Grown(g[i - 1])
    <3>1. CASE i = n + 1
      <4>1. n \in 0..(n + 1) /\ n # n + 1 /\ i - 1 = n /\ i # 0
        BY <3>1
      <4>2. g[n] = f[n] /\ g[i] = Grown(f[n])
        BY <2>2, <3>1, <4>1
      <4> QED BY <4>1, <4>2
    <3>2. CASE i # n + 1
      <4>1. i \in 0..n /\ g[i] = f[i]
        BY <2>2, <3>2
      <4>2. i # 0 => i - 1 \in 0..(n + 1) /\ i - 1 # n + 1
        OBVIOUS
      <4>3. i # 0 => g[i - 1] = f[i - 1]
        BY <2>2, <4>2
      <4> QED BY <2>1, <4>1, <4>3 DEF Levels
    <3> QED BY <3>1, <3>2
  <2>4. Levels(g, n + 1)
    BY <2>3 DEF Levels
  <2> QED BY <2>4
<1>3. \A n \in Nat : n \in N
  <2> HIDE DEF N
  <2> QED BY <1>1, <1>2, SetInduction
<1> QED BY <1>3

\* Each level is grown from the one below.
LEMMA TreeIs == \A n \in Nat : Tree[n] = IF n = 0 THEN Grown({}) ELSE Grown(Tree[n - 1])
<1> DEFINE at(n) == CHOOSE f : Levels(f, n)
           F == [n \in Nat |-> at(n)[n]]
           Body(f) == [n \in Nat |-> IF n = 0 THEN Grown({}) ELSE Grown(f[n - 1])]
<1>1. \A n \in Nat : Levels(at(n), n)
  BY LevelsExist
<1>2. \A n \in Nat : F[n] = at(n)[n]
  OBVIOUS
<1>3. \A n \in Nat : F[n] = IF n = 0 THEN Grown({}) ELSE Grown(F[n - 1])
  <2> HIDE DEF at, F
  <2> TAKE n \in Nat
  <2>1. n \in 0..n /\ at(n)[n] = IF n = 0 THEN Grown({}) ELSE Grown(at(n)[n - 1])
    BY <1>1 DEF Levels
  <2>2. n # 0 => at(n)[n - 1] = at(n - 1)[n - 1]
    <3> SUFFICES ASSUME n # 0 PROVE at(n)[n - 1] = at(n - 1)[n - 1]
      OBVIOUS
    <3>1. n - 1 \in Nat /\ 0..(n - 1) \subseteq 0..n /\ n - 1 \in 0..(n - 1)
      OBVIOUS
    <3>2. Levels(at(n), n) /\ Levels(at(n - 1), n - 1)
      BY <1>1, <3>1
    <3>3. Levels(at(n), n - 1)
      BY <3>1, <3>2 DEF Levels
    <3> QED BY <3>1, <3>2, <3>3, LevelsSame
  <2> QED BY <1>2, <2>1, <2>2
<1>4. F = Body(F)
  <2>1. F = [n \in Nat |-> F[n]]
    OBVIOUS
  <2> HIDE DEF F
  <2> QED BY <1>3, <2>1
<1>5. Tree = Body(Tree)
  <2> HIDE DEF F
  <2>1. Tree = CHOOSE g : g = Body(g)
    BY DEF Tree
  <2> HIDE DEF Body
  <2> QED BY <1>4, <2>1
<1> DEFINE T == Tree
<1>6. T = Body(T)
  BY <1>5
<1> HIDE DEF T
<1>7. \A n \in Nat : Body(T)[n] = IF n = 0 THEN Grown({}) ELSE Grown(T[n - 1])
  OBVIOUS
<1>8. \A n \in Nat : T[n] = IF n = 0 THEN Grown({}) ELSE Grown(T[n - 1])
  <2> HIDE DEF Body
  <2> QED BY <1>6, <1>7
<1> QED BY <1>8 DEF T

\* More elements make more sequences.
LEMMA SeqMonotone == ASSUME NEW A, NEW B, A \subseteq B PROVE Seq(A) \subseteq Seq(B)
OBVIOUS

\* What grows from more trees has more.
LEMMA GrownMonotone ==
  ASSUME NEW A, NEW B, A \subseteq B
  PROVE  Grown(A) \subseteq Grown(B)
<1>1. Unnamed(A) \subseteq Unnamed(B)
  BY DEF Unnamed
<1>2. Seq(A) \subseteq Seq(B) /\ Seq(Unnamed(A)) \subseteq Seq(Unnamed(B))
  BY <1>1, SeqMonotone
<1> QED BY <1>2 DEF Grown, Nodes

\* A level has the trees of the one below,
LEMMA TreeGrows == \A n \in Nat : Tree[n] \subseteq Tree[n + 1]
<1> DEFINE N == {n \in Nat : Tree[n] \subseteq Tree[n + 1]}
<1>0. \A n \in Nat : n + 1 \in Nat /\ n + 1 # 0 /\ (n + 1) - 1 = n
  OBVIOUS
<1>1. \A n \in Nat : Tree[n + 1] = Grown(Tree[n])
  BY <1>0, TreeIs
<1>2. 0 \in N
  <2>1. Tree[0] = Grown({}) /\ Tree[0 + 1] = Grown(Tree[0])
    BY <1>1, TreeIs
  <2>2. Grown({}) \subseteq Grown(Tree[0])
    BY GrownMonotone
  <2> QED BY <2>1, <2>2
<1>3. ASSUME NEW n \in Nat, n \in N PROVE n + 1 \in N
  <2>1. Grown(Tree[n]) \subseteq Grown(Tree[n + 1])
    BY <1>3, GrownMonotone
  <2>2. Tree[(n + 1) + 1] = Grown(Tree[n + 1]) /\ Tree[n + 1] = Grown(Tree[n])
    BY <1>0, <1>1
  <2> QED BY <2>1, <2>2
<1>4. \A n \in Nat : n \in N
  <2> HIDE DEF N
  <2> QED BY <1>2, <1>3, SetInduction
<1> QED BY <1>4

\* and of all below.
LEMMA TreeMonotone ==
  ASSUME NEW n \in Nat, NEW k \in Nat, k <= n
  PROVE  Tree[k] \subseteq Tree[n]
<1> DEFINE N == {j \in Nat : Tree[k] \subseteq Tree[k + j]}
<1>1. 0 \in N
  OBVIOUS
<1>2. ASSUME NEW j \in Nat, j \in N PROVE j + 1 \in N
  <2>1. k + j \in Nat /\ (k + j) + 1 = k + (j + 1)
    OBVIOUS
  <2>2. Tree[k + j] \subseteq Tree[(k + j) + 1]
    BY <2>1, TreeGrows
  <2> QED BY <1>2, <2>1, <2>2
<1>3. \A j \in Nat : j \in N
  <2> HIDE DEF N
  <2> QED BY <1>1, <1>2, SetInduction
<1>4. n - k \in Nat /\ k + (n - k) = n
  OBVIOUS
<1> QED BY <1>3, <1>4

(***************************************************************************)
(* What a tree is.                                                         *)
(***************************************************************************)
\* A number is a symbol.
LEMMA NumeralsAre == Numerals \subseteq Symbols
BY JsonConstants

\* A text of one numeral, and the empty texts.
LEMMA SmallTexts ==
  /\ \A n \in Numerals : <<n>> \in Texts
  /\ <<>> \in Texts /\ <<>> \in Seq(Byte) /\ \A B : <<>> \in Seq(B)
BY NumeralsAre DEF Texts

\* What a tree is whose children are in B.
IsTree(t, B) ==
  /\ t = [type |-> t.type, name |-> t.name, text |-> t.text, data |-> t.data, child |-> t.child]
  /\ t.name \in Symbols /\ t.text \in Texts /\ t.data \in Seq(Byte) /\ t.child \in Seq(B)
  /\ t.type \in {"string", "number", "true", "false", "binary", "array", "object"}
  /\ t.type # "string" /\ t.type # "number" => t.text = <<>>
  /\ t.type = "number" => \E n \in Numerals : t.text = <<n>>
  /\ t.type # "binary" => t.data = <<>>
  /\ t.type # "array" /\ t.type # "object" => t.child = <<>>
  /\ t.type = "array" => t.child \in Seq(Unnamed(B))

\* It is one of the kinds,
LEMMA GrownIs ==
  ASSUME NEW B, NEW t
  PROVE  t \in Grown(B) <=> IsTree(t, B)
<1>1. Seq(Unnamed(B)) \subseteq Seq(B)
  <2>1. Unnamed(B) \subseteq B
    BY DEF Unnamed
  <2> QED BY <2>1, SeqMonotone
<1>2. t \in Grown(B) => IsTree(t, B)
  BY <1>1, SmallTexts DEF Grown, Nodes, IsTree
<1>3. IsTree(t, B) => t \in Grown(B)
  BY <1>1, SmallTexts DEF Grown, Nodes, IsTree
<1> QED BY <1>2, <1>3

\* and on a level its children are on the level below.
LEMMA TreeOf ==
  ASSUME NEW n \in Nat, NEW t \in Tree[n]
  PROVE  /\ IsTree(t, Tree[n])
         /\ IsTree(t, IF n = 0 THEN {} ELSE Tree[n - 1])
         /\ \A i \in DOMAIN t.child : n # 0 /\ t.child[i] \in Tree[n - 1]
<1> DEFINE B == IF n = 0 THEN {} ELSE Tree[n - 1]
<1>1. t \in Grown(B)
  BY TreeIs
<1>2. B \subseteq Tree[n]
  <2>1. n # 0 => n - 1 \in Nat /\ (n - 1) + 1 = n
    OBVIOUS
  <2> QED BY <2>1, TreeGrows
<1> HIDE DEF B
<1>3. t \in Grown(Tree[n])
  BY <1>1, <1>2, GrownMonotone
<1>4. IsTree(t, Tree[n]) /\ IsTree(t, B)
  BY <1>1, <1>3, GrownIs
<1>5. \A i \in DOMAIN t.child : t.child[i] \in B
  BY <1>4 DEF IsTree
<1> QED BY <1>4, <1>5 DEF B

\* The lowest level a tree is on.
Height(t) == CHOOSE n \in Nat : t \in Tree[n] /\ \A k \in Nat : t \in Tree[k] => n <= k

\* There is one.
LEMMA HeightIs ==
  ASSUME NEW n \in Nat, NEW t \in Tree[n]
  PROVE  /\ Height(t) \in Nat /\ t \in Tree[Height(t)]
         /\ \A k \in Nat : t \in Tree[k] => Height(t) <= k
<1> DEFINE T == {k \in Nat : t \in Tree[k]}
<1>1. \E x \in T : \A y \in T : x <= y
  <2>1. n \in T /\ T \subseteq Nat
    OBVIOUS
  <2> HIDE DEF T
  <2> QED BY <2>1, LeastNat
<1>2. \E k \in Nat : t \in Tree[k] /\ \A j \in Nat : t \in Tree[j] => k <= j
  BY <1>1
<1> QED BY <1>2 DEF Height

\* How deep an answer may be.
LEMMA DepthIs == MaxDepth \in Nat
BY JsonConstants

\* The children of a tree are lower.
LEMMA ChildLower ==
  ASSUME NEW t \in Trees, NEW i \in DOMAIN t.child
  PROVE  t.child[i] \in Trees /\ Height(t.child[i]) < Height(t)
<1> DEFINE h == Height(t)
<1>1. /\ h \in Nat /\ t \in Tree[h] /\ h <= MaxDepth
  BY HeightIs, DepthIs DEF Trees
<1> HIDE DEF h
<1>2. h # 0 /\ t.child[i] \in Tree[h - 1]
  BY <1>1, TreeOf
<1>3. h - 1 \in Nat /\ h - 1 <= MaxDepth /\ h - 1 < h
  BY <1>1, <1>2, DepthIs
<1>4. t.child[i] \in Trees
  BY <1>2, <1>3, TreeMonotone, DepthIs DEF Trees
<1>5. Height(t.child[i]) \in Nat /\ Height(t.child[i]) <= h - 1
  BY <1>2, <1>3, HeightIs
<1>6. Height(t.child[i]) < h
  BY <1>1, <1>5
<1> QED BY <1>4, <1>6 DEF h

\* A tree of an answer.
LEMMA TreesAre ==
  ASSUME NEW t \in Trees
  PROVE  IsTree(t, Trees) /\ Height(t) \in Nat
BY TreeOf, HeightIs, DepthIs DEF Trees

\* A set P with every tree whose children are in P has all trees.
LEMMA TreeInduction ==
  ASSUME NEW P, \A t \in Trees : (\A i \in DOMAIN t.child : t.child[i] \in P) => t \in P
  PROVE  Trees \subseteq P
<1> DEFINE m == [t \in Trees |-> Height(t)]
<1>1. m \in [Trees -> Nat] /\ \A t \in Trees : m[t] = Height(t)
  BY TreesAre
<1> HIDE DEF m
<1>2. ASSUME NEW t \in Trees, \A u \in Trees : m[u] < m[t] => u \in P PROVE t \in P
  <2>1. ASSUME NEW i \in DOMAIN t.child PROVE t.child[i] \in P
    <3>1. t.child[i] \in Trees /\ Height(t.child[i]) < Height(t)
      BY ChildLower
    <3>2. m[t.child[i]] < m[t]
      BY <1>1, <3>1
    <3> QED BY <1>2, <3>1, <3>2
  <2> QED BY <2>1
<1> QED BY <1>1, <1>2, MeasureInduction

(***************************************************************************)
(* Texts.                                                                  *)
(***************************************************************************)
\* A sequence that is not empty is its first element and the rest.
LEMMA HeadAndTail ==
  ASSUME NEW S, NEW s \in Seq(S), s # <<>>
  PROVE  /\ s[1] \in S /\ Tail(s) \in Seq(S) /\ Len(s) \in Nat \ {0} /\ Len(Tail(s)) = Len(s) - 1
         /\ \A i \in 1..(Len(s) - 1) : Tail(s)[i] = s[i + 1]
         /\ s = Cat(One(s[1]), Tail(s)) /\ DOMAIN s = 1..Len(s)
<1>1. /\ s[1] \in S /\ Tail(s) \in Seq(S) /\ Len(s) \in Nat \ {0} /\ Len(Tail(s)) = Len(s) - 1
      /\ \A i \in 1..(Len(s) - 1) : Tail(s)[i] = s[i + 1]
      /\ DOMAIN s = 1..Len(s)
  OBVIOUS
<1> DEFINE u == <<s[1]>> \o Tail(s)
<1>2. <<s[1]>> \in Seq(S) /\ Len(<<s[1]>>) = 1 /\ <<s[1]>>[1] = s[1]
  BY <1>1
<1>3. /\ u \in Seq(S) /\ Len(u) = 1 + Len(Tail(s))
      /\ \A i \in 1..(1 + Len(Tail(s))) : u[i] = IF i <= 1 THEN <<s[1]>>[i] ELSE Tail(s)[i - 1]
  BY <1>1, <1>2, ConcatProperties
<1> HIDE DEF u
<1>4. Len(u) = Len(s)
  BY <1>1, <1>3
<1>5. ASSUME NEW i \in 1..Len(s) PROVE u[i] = s[i]
  <2>1. CASE i = 1
    BY <1>1, <1>2, <1>3, <2>1
  <2>2. CASE i # 1
    <3>1. i - 1 \in 1..(Len(s) - 1) /\ (i - 1) + 1 = i /\ i \in 1..(1 + Len(Tail(s))) /\ ~ (i <= 1)
      BY <1>1, <2>2
    <3> QED BY <1>1, <1>3, <3>1
  <2> QED BY <2>1, <2>2
<1>6. u = s
  BY <1>3, <1>4, <1>5, SeqEqual
<1> QED BY <1>1, <1>6 DEF Cat, One, u

\* What is in front and what is behind of a symbol.
LEMMA OneInFront ==
  ASSUME NEW S, NEW c \in S, NEW s \in Seq(S)
  PROVE  /\ Cat(One(c), s) \in Seq(S) /\ Cat(One(c), s) # <<>> /\ Cat(One(c), s)[1] = c
         /\ Tail(Cat(One(c), s)) = s /\ Len(Cat(One(c), s)) = Len(s) + 1
<1> DEFINE u == <<c>> \o s
<1>1. /\ u \in Seq(S) /\ Len(u) = 1 + Len(s) /\ Len(s) \in Nat
      /\ \A i \in 1..(1 + Len(s)) : u[i] = IF i <= 1 THEN <<c>>[i] ELSE s[i - 1]
  <2>1. <<c>> \in Seq(S) /\ Len(<<c>>) = 1
    OBVIOUS
  <2> QED BY <2>1, ConcatProperties
<1>2. u[1] = c /\ u # <<>>
  <2>1. 1 \in 1..(1 + Len(s)) /\ <<c>>[1] = c
    BY <1>1
  <2>2. u[1] = <<c>>[1]
    BY <1>1, <2>1
  <2>3. Len(u) # 0
    BY <1>1
  <2> HIDE DEF u
  <2> QED BY <2>1, <2>2, <2>3
<1> HIDE DEF u
<1>3. Tail(u) = s
  <2>1. /\ Tail(u) \in Seq(S) /\ Len(Tail(u)) = Len(u) - 1
        /\ \A i \in 1..(Len(u) - 1) : Tail(u)[i] = u[i + 1]
    BY <1>1, <1>2, HeadAndTail
  <2>2. ASSUME NEW i \in 1..Len(s) PROVE Tail(u)[i] = s[i]
    <3>1. i \in 1..(Len(u) - 1) /\ i + 1 \in 1..(1 + Len(s)) /\ ~ (i + 1 <= 1) /\ (i + 1) - 1 = i
      BY <1>1
    <3> QED BY <1>1, <2>1, <3>1
  <2>3. Len(Tail(u)) = Len(s)
    BY <1>1, <2>1
  <2> QED BY <2>1, <2>2, <2>3, SeqEqual
<1> QED BY <1>1, <1>2, <1>3 DEF u, Cat, One

\* A text with another one in front is not empty, and its rest is known.
LEMMA CatInFront ==
  ASSUME NEW S, NEW s \in Seq(S), NEW r \in Seq(S), s # <<>>
  PROVE  /\ Cat(s, r) # <<>> /\ Cat(s, r)[1] = s[1] /\ Tail(Cat(s, r)) = Cat(Tail(s), r)
<1>1. s[1] \in S /\ Tail(s) \in Seq(S) /\ s = Cat(One(s[1]), Tail(s))
  BY HeadAndTail
<1> DEFINE c == s[1]
           h == One(c)
           t == Tail(s)
<1>2. c \in S /\ h \in Seq(S) /\ t \in Seq(S) /\ s = Cat(h, t)
  BY <1>1, OneTyped
<1> HIDE DEF c, h, t
<1>3. Cat(t, r) \in Seq(S) /\ Cat(Cat(h, t), r) = Cat(h, Cat(t, r))
  BY <1>2, CatTyped, CatAssoc
<1> DEFINE u == Cat(t, r)
<1>4. Cat(s, r) = Cat(One(c), u) /\ u \in Seq(S)
  BY <1>2, <1>3 DEF h
<1> HIDE DEF u
<1>5. Cat(s, r) # <<>> /\ Cat(s, r)[1] = c /\ Tail(Cat(s, r)) = u
  BY <1>2, <1>4, OneInFront
<1> QED BY <1>5 DEF u, t, c

\* The length of two texts one after the other.
LEMMA CatLen ==
  ASSUME NEW S, NEW s \in Seq(S), NEW t \in Seq(S)
  PROVE  Len(Cat(s, t)) = Len(s) + Len(t) /\ Len(s) \in Nat /\ Len(t) \in Nat
BY ConcatProperties DEF Cat

\* FlattenSeq from the left.
LEMMA FlattenHead ==
  ASSUME NEW S, NEW p \in Seq(Seq(S)), p # <<>>
  PROVE  /\ FlattenSeq(p) = Cat(p[1], FlattenSeq(Tail(p)))
         /\ FlattenSeq(p) \in Seq(S) /\ FlattenSeq(Tail(p)) \in Seq(S)
<1> DEFINE q == Tail(p)
           N == {n \in Nat : n <= Len(q) => Upto(p, n + 1) = Cat(p[1], Upto(q, n))}
<1>1. /\ p[1] \in Seq(S) /\ q \in Seq(Seq(S)) /\ Len(p) \in Nat \ {0} /\ Len(q) = Len(p) - 1
      /\ \A i \in 1..(Len(p) - 1) : q[i] = p[i + 1] /\ p[i + 1] \in Seq(S)
  BY HeadAndTail
<1> HIDE DEF q
<1>2. /\ \A n \in 0..Len(p) : Upto(p, n) \in Seq(S)
      /\ Upto(p, 0) = <<>>
      /\ \A n \in 1..Len(p) : Upto(p, n) = Upto(p, n - 1) \o p[n]
      /\ FlattenSeq(p) = Upto(p, Len(p))
  BY UptoAdds
<1>3. /\ \A n \in 0..Len(q) : Upto(q, n) \in Seq(S)
      /\ Upto(q, 0) = <<>>
      /\ \A n \in 1..Len(q) : Upto(q, n) = Upto(q, n - 1) \o q[n]
      /\ FlattenSeq(q) = Upto(q, Len(q))
  BY <1>1, UptoAdds
<1>4. 0 \in N
  <2>1. 1 \in 1..Len(p) /\ 1 - 1 = 0 /\ 0 + 1 = 1
    BY <1>1
  <2>2. Upto(p, 1) = Upto(p, 0) \o p[1]
    BY <1>2, <2>1
  <2>3. Upto(p, 1) = Cat(<<>>, p[1])
    BY <1>2, <2>2 DEF Cat
  <2>4. Cat(<<>>, p[1]) = p[1] /\ Cat(p[1], <<>>) = p[1]
    BY <1>1, CatEmpty
  <2> QED BY <1>3, <2>1, <2>3, <2>4
<1>5. ASSUME NEW n \in Nat, n \in N PROVE n + 1 \in N
  <2> SUFFICES ASSUME n + 1 <= Len(q) PROVE Upto(p, (n + 1) + 1) = Cat(p[1], Upto(q, n + 1))
    OBVIOUS
  <2>1. /\ (n + 1) + 1 \in 1..Len(p) /\ ((n + 1) + 1) - 1 = n + 1 /\ n + 1 \in 1..(Len(p) - 1)
        /\ n <= Len(q) /\ n \in 0..Len(q) /\ n + 1 \in 1..Len(q) /\ (n + 1) - 1 = n
    BY <1>1
  <2>2. Upto(p, n + 1) = Cat(p[1], Upto(q, n))
    BY <1>5, <2>1
  <2>3. Upto(p, (n + 1) + 1) = Cat(Upto(p, n + 1), p[(n + 1) + 1])
    BY <1>2, <2>1 DEF Cat
  <2>4. Upto(q, n + 1) = Cat(Upto(q, n), p[(n + 1) + 1])
    <3>1. Upto(q, n + 1) = Upto(q, n) \o q[n + 1]
      BY <1>3, <2>1
    <3> QED BY <1>1, <2>1, <3>1 DEF Cat
  <2>5. Upto(q, n) \in Seq(S) /\ p[(n + 1) + 1] \in Seq(S)
    BY <1>1, <1>3, <2>1
  <2>6. Cat(Cat(p[1], Upto(q, n)), p[(n + 1) + 1]) = Cat(p[1], Cat(Upto(q, n), p[(n + 1) + 1]))
    BY <1>1, <2>5, CatAssoc
  <2> QED BY <2>2, <2>3, <2>4, <2>6
<1>6. \A n \in Nat : n \in N
  <2> HIDE DEF N
  <2> QED BY <1>4, <1>5, SetInduction
<1>7. Len(q) \in Nat /\ Len(q) + 1 = Len(p) /\ Len(q) \in 0..Len(q) /\ Len(p) \in 0..Len(p)
  BY <1>1
<1>8. FlattenSeq(p) = Cat(p[1], FlattenSeq(q))
  <2>1. Upto(p, Len(q) + 1) = Cat(p[1], Upto(q, Len(q)))
    BY <1>6, <1>7
  <2> QED BY <1>2, <1>3, <1>7, <2>1
<1> QED BY <1>2, <1>3, <1>7, <1>8 DEF q

\* Nothing joined is nothing.
LEMMA FlattenNothing == FlattenSeq(<<>>) = <<>>
BY DEF FlattenSeq

\* Joined texts are a text.
LEMMA FlattenTyped ==
  ASSUME NEW S, NEW p \in Seq(Seq(S))
  PROVE  FlattenSeq(p) \in Seq(S)
<1>1. <<>> \in Seq(S)
  OBVIOUS
<1> QED BY <1>1, FlattenHead, FlattenNothing

(***************************************************************************)
(* Sums.                                                                   *)
(***************************************************************************)
Numbers == Seq(Nat)
\* The measure of a list.
Length(s) == Len(s)
\* One step of Total.
TotalStep(f, s) == IF s = <<>> THEN 0 ELSE Head(s) + f[Tail(s)]

\* Numbers that are not none: the first and the rest.
LEMMA NumbersAre ==
  ASSUME NEW s \in Numbers
  PROVE  /\ Length(s) \in Nat
         /\ s # <<>> => Head(s) \in Nat /\ Tail(s) \in Numbers /\ Length(Tail(s)) < Length(s)
BY DEF Numbers, Length

\* A step gives a number,
LEMMA TotalTyped ==
  ASSUME NEW s \in Numbers, NEW f, \A t \in Numbers : Length(t) < Length(s) => f[t] \in Nat
  PROVE  TotalStep(f, s) \in Nat
<1>1. CASE s = <<>>
  BY <1>1 DEF TotalStep
<1>2. CASE s # <<>>
  <2>1. Head(s) \in Nat /\ f[Tail(s)] \in Nat
    BY <1>2, NumbersAre
  <2> QED BY <1>2, <2>1 DEF TotalStep
<1> QED BY <1>1, <1>2

\* and looks at a shorter list only.
LEMMA TotalSame ==
  ASSUME NEW s \in Numbers, NEW f, NEW g,
         \A t \in Numbers : Length(t) < Length(s) => f[t] = g[t]
  PROVE  TotalStep(f, s) = TotalStep(g, s)
BY NumbersAre DEF TotalStep

\* The sum is that of the first number and of the rest.
LEMMA TotalIs == Total \in [Numbers -> Nat] /\ \A s \in Numbers : Total[s] = TotalStep(Total, s)
<1> DEFINE D == Numbers
           W == Nat
           m == [s \in D |-> Length(s)]
           body == [x \in [D -> W] \X D |-> TotalStep(x[1], x[2])]
           Body(f) == [s \in D |-> TotalStep(f, s)]
<1>1. m \in [D -> Nat] /\ \A s \in D : m[s] = Length(s)
  BY NumbersAre
<1>2. ASSUME NEW s \in D, NEW f, \A t \in D : m[t] < m[s] => f[t] \in W
      PROVE  TotalStep(f, s) \in W
  BY <1>1, <1>2, TotalTyped
<1>3. ASSUME NEW s \in D, NEW f, NEW g, \A t \in D : m[t] < m[s] => f[t] = g[t]
      PROVE  TotalStep(f, s) = TotalStep(g, s)
  BY <1>1, <1>3, TotalSame
<1>4. W # {}
  BY SMT
<1>5. Total = CHOOSE f : f = Body(f)
  BY DEF Total, TotalStep, Numbers
<1> HIDE DEF D, W, m
<1>6. \A f \in [D -> W], s \in D :
        body[<<f, s>>] = TotalStep(f, s) /\ body[<<f, s>>] \in W
  <2> TAKE f \in [D -> W], s \in D
  <2>1. body[<<f, s>>] = TotalStep(f, s)
    OBVIOUS
  <2>2. TotalStep(f, s) \in W
    BY <1>2
  <2> QED BY <2>1, <2>2
<1>7. body \in [[D -> W] \X D -> W]
  <2>1. DOMAIN body = [D -> W] \X D /\ body = [x \in [D -> W] \X D |-> body[x]]
    OBVIOUS
  <2>2. \A x \in [D -> W] \X D : body[x] \in W
    <3> TAKE x \in [D -> W] \X D
    <3>1. x = <<x[1], x[2]>> /\ x[1] \in [D -> W] /\ x[2] \in D
      OBVIOUS
    <3> HIDE DEF body
    <3> QED BY <1>6, <3>1
  <2> HIDE DEF body
  <2> QED BY <2>1, <2>2
<1> HIDE DEF body
<1>8. Contractive(D, W, m, body)
  <2>1. ASSUME NEW g \in [D -> W], NEW h \in [D -> W], NEW s \in D,
               \A t \in D : m[t] < m[s] => g[t] = h[t]
        PROVE  body[<<g, s>>] = body[<<h, s>>]
    <3>1. TotalStep(g, s) = TotalStep(h, s)
      BY <1>3, <2>1
    <3> QED BY <1>6, <3>1
  <2> QED BY <1>7, <2>1 DEF Contractive
<1>9. PICK f : Solves(D, W, body, f)
  BY <1>1, <1>4, <1>8, RecursiveFunctionExists
<1>10. f \in [D -> W] /\ \A s \in D : f[s] = TotalStep(f, s)
  BY <1>6, <1>9 DEF Solves
<1>11. f = Body(f)
  BY <1>10
<1> DEFINE F == Total
<1>12. F = Body(F)
  <2> HIDE DEF Body
  <2> QED BY <1>5, <1>11
<1> HIDE DEF F
<1>13. DOMAIN F = D /\ F = [s \in D |-> F[s]] /\ \A s \in D : F[s] = TotalStep(F, s)
  <2>1. /\ DOMAIN Body(F) = D /\ Body(F) = [s \in D |-> Body(F)[s]]
        /\ \A s \in D : Body(F)[s] = TotalStep(F, s)
    OBVIOUS
  <2> HIDE DEF Body
  <2> QED BY <1>12, <2>1
<1> DEFINE P == {s \in D : F[s] = f[s]}
<1>14. ASSUME NEW s \in D, \A t \in D : m[t] < m[s] => t \in P PROVE s \in P
  <2>1. TotalStep(F, s) = TotalStep(f, s)
    BY <1>3, <1>14
  <2> QED BY <1>10, <1>13, <2>1
<1>15. D \subseteq P
  <2> HIDE DEF P
  <2> QED BY <1>1, <1>14, MeasureInduction
<1>16. F \in [D -> W]
  BY <1>10, <1>13, <1>15
<1> QED BY <1>13, <1>16 DEF D, W, F

\* Joined texts are not longer than the sum of what each is not longer than.
LEMMA FlattenFits ==
  ASSUME NEW S
  PROVE  \A p \in Seq(Seq(S)), s \in Seq(Nat) :
           Len(p) = Len(s) /\ (\A i \in 1..Len(p) : Len(p[i]) <= s[i])
           => Len(FlattenSeq(p)) <= Total[s]
<1> DEFINE Q(p, s) == Len(p) = Len(s) /\ \A i \in 1..Len(p) : Len(p[i]) <= s[i]
           N == {n \in Nat : \A p \in Seq(Seq(S)), s \in Seq(Nat) :
                               Len(p) = n /\ Q(p, s) => Len(FlattenSeq(p)) <= Total[s]}
<1>1. 0 \in N
  <2> SUFFICES ASSUME NEW p \in Seq(Seq(S)), NEW s \in Seq(Nat), Len(p) = 0, Q(p, s)
               PROVE  Len(FlattenSeq(p)) <= Total[s]
    OBVIOUS
  <2>1. p = <<>> /\ s = <<>>
    BY EmptySeq
  <2>2. Total[<<>>] = 0
    BY <2>1, TotalIs DEF Numbers, TotalStep
  <2> QED BY <2>1, <2>2, FlattenNothing
<1>2. ASSUME NEW n \in Nat, n \in N PROVE n + 1 \in N
  <2> SUFFICES ASSUME NEW p \in Seq(Seq(S)), NEW s \in Seq(Nat), Len(p) = n + 1, Q(p, s)
               PROVE  Len(FlattenSeq(p)) <= Total[s]
    OBVIOUS
  <2>1. p # <<>> /\ s # <<>> /\ Len(s) = n + 1
    BY EmptySeq
  <2>2. /\ p[1] \in Seq(S) /\ Tail(p) \in Seq(Seq(S)) /\ Len(Tail(p)) = n
        /\ \A i \in 1..n : Tail(p)[i] = p[i + 1]
    BY <2>1, HeadAndTail
  <2>3. /\ s[1] \in Nat /\ Tail(s) \in Seq(Nat) /\ Len(Tail(s)) = n
        /\ \A i \in 1..n : Tail(s)[i] = s[i + 1]
    BY <2>1, HeadAndTail
  <2>4. Len(p[1]) <= s[1]
    OBVIOUS
  <2>5. \A i \in 1..n : Len(p[i + 1]) <= s[i + 1]
    OBVIOUS
  <2>6. Q(Tail(p), Tail(s))
    BY <2>2, <2>3, <2>5
  <2> HIDE DEF Q
  <2>7. Len(FlattenSeq(Tail(p))) <= Total[Tail(s)]
    BY <1>2, <2>2, <2>3, <2>6
  <2>8. /\ FlattenSeq(p) = Cat(p[1], FlattenSeq(Tail(p))) /\ FlattenSeq(Tail(p)) \in Seq(S)
    BY <2>1, FlattenHead
  <2>9. Len(FlattenSeq(p)) = Len(p[1]) + Len(FlattenSeq(Tail(p)))
        /\ Len(p[1]) \in Nat /\ Len(FlattenSeq(Tail(p))) \in Nat
    BY <2>2, <2>8, CatLen
  <2>10. Total[s] = s[1] + Total[Tail(s)] /\ Total[Tail(s)] \in Nat
    <3>1. Head(s) = s[1] /\ s \in Numbers /\ Tail(s) \in Numbers
      BY <2>1, <2>3 DEF Numbers
    <3>2. Total[s] = TotalStep(Total, s) /\ Total[Tail(s)] \in Nat
      BY <3>1, TotalIs
    <3>3. TotalStep(Total, s) = Head(s) + Total[Tail(s)]
      BY <2>1 DEF TotalStep
    <3> QED BY <3>1, <3>2, <3>3
  <2> QED BY <2>3, <2>4, <2>7, <2>9, <2>10
<1>3. \A n \in Nat : n \in N
  <2> HIDE DEF N
  <2> QED BY <1>1, <1>2, SetInduction
<1>4. \A p \in Seq(Seq(S)) : Len(p) \in Nat
  OBVIOUS
<1> QED BY <1>3, <1>4

(***************************************************************************)
(* The symbols and texts that are printed.                                 *)
(***************************************************************************)
\* Nothing but the name of a text is known to the provers where it is not needed.
LEMMA TextsAre ==
  /\ <<>> \in Texts
  /\ \A c \in Symbols : One(c) \in Texts /\ Len(One(c)) = 1
  /\ \A s \in Texts : Len(s) \in Nat
  /\ \A s \in Texts, t \in Texts :
       Cat(s, t) \in Texts /\ Len(Cat(s, t)) = Len(s) + Len(t)
<1>1. <<>> \in Texts /\ \A c \in Symbols : One(c) \in Texts /\ Len(One(c)) = 1
  BY DEF Texts, One
<1>2. \A s \in Texts : Len(s) \in Nat
  BY DEF Texts
<1>3. ASSUME NEW s \in Texts, NEW t \in Texts
      PROVE  Cat(s, t) \in Texts /\ Len(Cat(s, t)) = Len(s) + Len(t)
  BY CatTyped, CatLen DEF Texts
<1> QED BY <1>1, <1>2, <1>3

\* The same symbol so many times.
LEMMA RepeatIs ==
  ASSUME NEW c \in Symbols, NEW n \in Int
  PROVE  /\ Repeat(n, c) \in Texts
         /\ Len(Repeat(n, c)) = IF n > 0 THEN n ELSE 0
         /\ \A i \in 1..Len(Repeat(n, c)) : Repeat(n, c)[i] = c
BY DEF Repeat, Texts

\* The symbols the code writes.
LEMMA SymbolsAre ==
  /\ {NoName, Blank, Newline, Tab, Quote, Backslash, Separator} \subseteq Symbols
  /\ Spaces \cup Brackets \cup Escapable \cup DOMAIN Keyword \subseteq Symbols
  /\ {":", "b", "f", "n", "r", "t", "u", "0", "1", "ctl"} \subseteq Symbols
BY JsonConstants DEF Spaces, Escapable

\* A text written down is one.
LEMMA Written ==
  /\ \A a \in Symbols : <<a>> \in Texts /\ Len(<<a>>) = 1
  /\ \A a \in Symbols, b \in Symbols : <<a, b>> \in Texts /\ Len(<<a, b>>) = 2
BY DEF Texts

\* What an escape has behind the backslash.
LEMMA EscapesAre == \A c \in Escapable : Escapes[c] \in Symbols
<1> SUFFICES ASSUME NEW c \in Escapable PROVE Escapes[c] \in Symbols
  OBVIOUS
<1>1. \/ Escapes[c] = "b" \/ Escapes[c] = "f" \/ Escapes[c] = "n" \/ Escapes[c] = "r"
      \/ Escapes[c] = "t" \/ Escapes[c] = c
  BY DEF Escapes
<1> QED BY <1>1, SymbolsAre

\* How much longer a character gets.
More(c) == (IF c \in Escapable THEN 1 ELSE 0) + 5 * (IF c \in {"ctl"} THEN 1 ELSE 0)

\* A control character has no letter of its own.
LEMMA CtlIs == "ctl" \notin Escapable
<1>1. "ctl" # Quote /\ "ctl" # Backslash /\ "ctl" # Newline /\ "ctl" # Tab
  BY ZenonT(60) DEF Quote, Backslash, Newline, Tab
<1>2. "ctl" # "bs" /\ "ctl" # "\f" /\ "ctl" # "\r"
  BY ZenonT(60)
<1> QED BY <1>1, <1>2 DEF Escapable

\* A character is escaped to a text of so many symbols.
LEMMA EscapeIs ==
  ASSUME NEW c \in Symbols
  PROVE  Escape(c) \in Texts /\ Len(Escape(c)) = 1 + More(c)
<1>1. CASE c \in Escapable
  <2>1. Escape(c) = <<Backslash, Escapes[c]>>
    BY <1>1, CtlIs DEF Escape
  <2>2. Escape(c) \in Texts /\ Len(Escape(c)) = 2
    BY <1>1, <2>1, EscapesAre, SymbolsAre, Written
  <2>3. More(c) = 1
    BY <1>1, CtlIs DEF More
  <2> QED BY <2>2, <2>3
<1>2. CASE c = "ctl"
  <2>1. c \notin Escapable
    BY <1>2, CtlIs
  <2>2. Escape(c) = <<Backslash, "u", "0", "0", "0", "1">>
    BY <1>2, <2>1 DEF Escape
  <2>3. Escape(c) \in Texts /\ Len(Escape(c)) = 6
    BY <2>2, SymbolsAre DEF Texts
  <2>4. More(c) = 5
    BY <1>2, <2>1 DEF More
  <2> QED BY <2>3, <2>4
<1>3. CASE c \notin Escapable /\ c # "ctl"
  <2>1. Escape(c) = <<c>> /\ More(c) = 0
    BY <1>3 DEF Escape, More
  <2> QED BY <2>1, Written
<1> QED BY <1>1, <1>2, <1>3

\* The positions up to n of the symbols in S.
Places(s, n, S) == {i \in 1..n : s[i] \in S}

\* One more symbol adds at most one.
LEMMA PlacesAdd ==
  ASSUME NEW s, NEW S, NEW n \in Nat
  PROVE  /\ IsFiniteSet(Places(s, n, S)) /\ Cardinality(Places(s, n, S)) \in Nat
         /\ Cardinality(Places(s, n + 1, S)) =
              Cardinality(Places(s, n, S)) + (IF s[n + 1] \in S THEN 1 ELSE 0)
         /\ Cardinality(Places(s, 0, S)) = 0
<1>1. IsFiniteSet(1..n) /\ Places(s, n, S) \subseteq 1..n
  BY FS_Interval DEF Places
<1>2. IsFiniteSet(Places(s, n, S)) /\ Cardinality(Places(s, n, S)) \in Nat
  BY <1>1, FS_Subset, FS_CardinalityType
<1>3. n + 1 \notin Places(s, n, S)
  BY DEF Places
<1>4. Cardinality(Places(s, n, S) \cup {n + 1}) = Cardinality(Places(s, n, S)) + 1
  BY <1>2, <1>3, FS_AddElement
<1>5. Places(s, n + 1, S) = IF s[n + 1] \in S THEN Places(s, n, S) \cup {n + 1} ELSE Places(s, n, S)
  BY DEF Places
<1>6. Places(s, 0, S) = {}
  BY DEF Places
<1> QED BY <1>2, <1>4, <1>5, <1>6, FS_EmptySet

\* print_string_ptr: the escaped string with its quotes and the zero is exactly as long as
\* the memory allocated for it.
LEMMA EscapedIs ==
  ASSUME NEW s \in Texts
  PROVE  Escaped(s) \in Texts /\ Len(Escaped(s)) + 3 = StringRoom(s)
<1> DEFINE p == [i \in DOMAIN s |-> Escape(s[i])]
           E(n) == Cardinality(Places(s, n, Escapable))
           C(n) == Cardinality(Places(s, n, {"ctl"}))
           N == {n \in Nat : n <= Len(s) => Len(Upto(p, n)) = n + E(n) + 5 * C(n)}
<1>1. Len(s) \in Nat /\ DOMAIN s = 1..Len(s) /\ \A i \in 1..Len(s) : s[i] \in Symbols
  BY DEF Texts
<1>2. p \in Seq(Seq(Symbols)) /\ Len(p) = Len(s) /\ \A i \in 1..Len(s) : p[i] = Escape(s[i])
  <2>1. \A i \in 1..Len(s) : Escape(s[i]) \in Seq(Symbols)
    BY <1>1, EscapeIs DEF Texts
  <2>2. p = [i \in 1..Len(s) |-> Escape(s[i])]
    BY <1>1
  <2> QED BY <1>1, <2>1, <2>2
<1>3. Escaped(s) = FlattenSeq(p)
  BY DEF Escaped
<1> HIDE DEF p
<1>4. /\ \A n \in 0..Len(p) : Upto(p, n) \in Seq(Symbols)
      /\ Upto(p, 0) = <<>>
      /\ \A n \in 1..Len(p) : Upto(p, n) = Upto(p, n - 1) \o p[n]
      /\ FlattenSeq(p) = Upto(p, Len(p))
  BY <1>2, UptoAdds
<1>5. \A n \in Nat : E(n) \in Nat /\ C(n) \in Nat
                     /\ E(n + 1) = E(n) + (IF s[n + 1] \in Escapable THEN 1 ELSE 0)
                     /\ C(n + 1) = C(n) + (IF s[n + 1] \in {"ctl"} THEN 1 ELSE 0)
  BY PlacesAdd
<1>12. E(0) = 0 /\ C(0) = 0
  BY PlacesAdd
<1>6. StringRoom(s) = Len(s) + E(Len(s)) + 5 * C(Len(s)) + 3
  BY <1>1 DEF StringRoom, Places
<1> HIDE DEF E, C
<1>7. 0 \in N
  <2>1. Len(Upto(p, 0)) = 0
    BY <1>4
  <2>2. 0 + E(0) + 5 * C(0) = 0
    BY <1>12
  <2> QED BY <2>1, <2>2
<1>8. ASSUME NEW n \in Nat, n \in N PROVE n + 1 \in N
  <2> SUFFICES ASSUME n + 1 <= Len(s) PROVE Len(Upto(p, n + 1)) = (n + 1) + E(n + 1) + 5 * C(n + 1)
    OBVIOUS
  <2>1. n \in 0..Len(p) /\ n + 1 \in 1..Len(s) /\ n + 1 \in 1..Len(p) /\ (n + 1) - 1 = n /\ n <= Len(s)
    BY <1>1, <1>2
  <2>2. Upto(p, n + 1) = Cat(Upto(p, n), p[n + 1]) /\ p[n + 1] = Escape(s[n + 1])
    BY <1>2, <1>4, <2>1 DEF Cat
  <2>3. Escape(s[n + 1]) \in Seq(Symbols) /\ Len(Escape(s[n + 1])) = 1 + More(s[n + 1])
    BY <1>1, <2>1, EscapeIs DEF Texts
  <2>4. Len(Upto(p, n + 1)) = Len(Upto(p, n)) + 1 + More(s[n + 1])
        /\ Len(Upto(p, n)) \in Nat
    <3>1. Upto(p, n) \in Seq(Symbols)
      BY <1>4, <2>1
    <3>2. Len(Cat(Upto(p, n), Escape(s[n + 1]))) = Len(Upto(p, n)) + Len(Escape(s[n + 1]))
          /\ Len(Upto(p, n)) \in Nat
      BY <2>3, <3>1, CatLen
    <3>3. More(s[n + 1]) \in Nat
      BY DEF More
    <3> QED BY <2>2, <2>3, <3>2, <3>3
  <2>5. Len(Upto(p, n)) = n + E(n) + 5 * C(n)
    BY <1>8, <2>1
  <2>6. More(s[n + 1]) = (IF s[n + 1] \in Escapable THEN 1 ELSE 0)
                         + 5 * (IF s[n + 1] \in {"ctl"} THEN 1 ELSE 0)
    BY DEF More
  <2> DEFINE e == IF s[n + 1] \in Escapable THEN 1 ELSE 0
             d == IF s[n + 1] \in {"ctl"} THEN 1 ELSE 0
             u == Len(Upto(p, n))
             a == E(n)
             b == C(n)
  <2>7. /\ E(n + 1) = a + e /\ C(n + 1) = b + d /\ a \in Nat /\ b \in Nat /\ e \in Nat /\ d \in Nat
        /\ Len(Upto(p, n + 1)) = u + 1 + (e + 5 * d) /\ u = n + a + 5 * b /\ u \in Nat
    BY <1>5, <2>4, <2>5, <2>6
  <2> HIDE DEF e, d, u, a, b, N
  <2>8. u + 1 + (e + 5 * d) = (n + 1) + (a + e) + 5 * (b + d)
    BY <2>7
  <2> QED BY <2>7, <2>8
<1>9. \A n \in Nat : n \in N
  <2> HIDE DEF N
  <2> QED BY <1>7, <1>8, SetInduction
<1>10. Len(Upto(p, Len(s))) = Len(s) + E(Len(s)) + 5 * C(Len(s))
  BY <1>1, <1>9
<1>11. Escaped(s) \in Texts /\ Len(Escaped(s)) = Len(Upto(p, Len(s)))
  BY <1>1, <1>2, <1>3, <1>4 DEF Texts
<1> QED BY <1>1, <1>5, <1>6, <1>10, <1>11

\* A string is printed into its memory, exactly.
LEMMA PrintStringIs ==
  ASSUME NEW s \in Texts
  PROVE  /\ PrintString(s) \in Texts /\ Len(PrintString(s)) + 1 = StringRoom(s)
         /\ Len(s) + 3 <= StringRoom(s) /\ PrintString(s) # <<>>
<1>1. Escaped(s) \in Texts /\ Len(Escaped(s)) + 3 = StringRoom(s)
  BY EscapedIs
<1>2. PrintString(s) = Cat(Cat(One(Quote), Escaped(s)), One(Quote))
  BY DEF PrintString, Cat, One
<1>3. One(Quote) \in Texts /\ Len(One(Quote)) = 1 /\ Len(Escaped(s)) \in Nat
  BY <1>1, SymbolsAre, TextsAre
<1>4. PrintString(s) \in Texts /\ Len(PrintString(s)) = 2 + Len(Escaped(s))
  <2> DEFINE q == One(Quote)
             e == Escaped(s)
  <2>1. q \in Texts /\ e \in Texts /\ Len(q) = 1 /\ Len(e) \in Nat
    BY <1>1, <1>3
  <2> HIDE DEF q, e
  <2>2. Cat(q, e) \in Texts /\ Len(Cat(q, e)) = 1 + Len(e)
    BY <2>1, TextsAre
  <2> DEFINE c == Cat(q, e)
  <2>3. c \in Texts /\ Len(c) = 1 + Len(e) /\ PrintString(s) = Cat(c, q)
    BY <1>2, <2>2 DEF q, e
  <2> HIDE DEF c
  <2>4. Cat(c, q) \in Texts /\ Len(Cat(c, q)) = Len(c) + Len(q)
    BY <2>1, <2>3, TextsAre
  <2> QED BY <2>1, <2>3, <2>4 DEF e
<1>5. Len(s) + 3 <= StringRoom(s)
  <2> DEFINE E == Cardinality(Places(s, Len(s), Escapable))
             C == Cardinality(Places(s, Len(s), {"ctl"}))
  <2>1. Len(s) \in Nat /\ DOMAIN s = 1..Len(s)
    BY DEF Texts
  <2>2. StringRoom(s) = Len(s) + E + 5 * C + 3
    BY <2>1 DEF StringRoom, Places
  <2>3. E \in Nat /\ C \in Nat
    BY <2>1, PlacesAdd
  <2> HIDE DEF E, C
  <2> QED BY <2>1, <2>2, <2>3
<1>6. PrintString(s) # <<>>
  BY <1>3, <1>4
<1> QED BY <1>1, <1>3, <1>4, <1>5, <1>6

(***************************************************************************)
(* Base64.                                                                 *)
(***************************************************************************)
\* The symbols of the encoded text.
Written64 == DOMAIN B64 \cup {"="}

\* The alphabet of base64.
LEMMA AlphabetIs ==
  /\ \A i \in 1..64 : Alphabet[i] \in DOMAIN B64
  /\ Written64 \subseteq Symbols
BY Base64Constants DEF B64, Written64

\* A byte of the data, or the zero that pads it.
ByteAt(data, i) == IF i <= Len(data) THEN data[i] ELSE 0

\* The group of characters with the number g.
GroupAt(data, g) ==
  EncodedGroup([i \in 1..3 |-> ByteAt(data, 3 * g + i)], Len(data) - 3 * g)

\* What base64_encode writes, in parts.
LEMMA EncodeUnfolded ==
  ASSUME NEW data
  PROVE  Encode(data) = [k \in 1..EncodedLength(Len(data)) |->
                           GroupAt(data, (k - 1) \div 4)[((k - 1) % 4) + 1]]
BY DEF Encode, GroupAt, ByteAt

\* A byte behind the end is 0.
LEMMA ByteTyped ==
  ASSUME NEW data \in Seq(Byte), NEW i \in Nat \ {0}
  PROVE  ByteAt(data, i) \in 0..255
<1>1. Len(data) \in Nat /\ \A j \in 1..Len(data) : data[j] \in Byte
  OBVIOUS
<1>2. CASE i <= Len(data)
  <2>1. i \in 1..Len(data)
    BY <1>1, <1>2
  <2> QED BY <1>1, <1>2, <2>1 DEF ByteAt, Byte
<1>3. CASE ~ (i <= Len(data))
  BY <1>3 DEF ByteAt
<1> QED BY <1>2, <1>3

\* The characters of a group.
LEMMA GroupTyped ==
  ASSUME NEW in, in[1] \in 0..255, in[2] \in 0..255, in[3] \in 0..255, NEW n \in Int
  PROVE  /\ \A j \in 1..4 : EncodedGroup(in, n)[j] \in Written64
         /\ EncodedGroup(in, n)[1] \in DOMAIN B64 /\ EncodedGroup(in, n)[2] \in DOMAIN B64
<1> DEFINE char(v) == Alphabet[(v % 64) + 1]
           a == in[1]
           b == in[2]
           c == in[3]
           g == EncodedGroup(in, n)
<1>1. a \in Nat /\ b \in Nat /\ c \in Nat
  OBVIOUS
<1>2. g = << char(a \div 4), char(a * 16 + (b \div 16)),
             IF n >= 2 THEN char(b * 4 + (c \div 64)) ELSE "=",
             IF n >= 3 THEN char(c) ELSE "=" >>
  BY DEF EncodedGroup
<1> HIDE DEF a, b, c, g
<1>3. \A v \in Nat : char(v) \in DOMAIN B64
  <2> TAKE v \in Nat
  <2>1. (v % 64) + 1 \in 1..64
    OBVIOUS
  <2> QED BY <2>1, AlphabetIs
<1>4. a \div 4 \in Nat /\ a * 16 + (b \div 16) \in Nat /\ b * 4 + (c \div 64) \in Nat
  BY <1>1
<1> HIDE DEF char
<1>5. /\ g[1] \in DOMAIN B64 /\ g[2] \in DOMAIN B64 /\ g[3] \in Written64 /\ g[4] \in Written64
  BY <1>1, <1>2, <1>3, <1>4 DEF Written64
<1>6. \A j \in 1..4 : j = 1 \/ j = 2 \/ j = 3 \/ j = 4
  OBVIOUS
<1>7. \A j \in 1..4 : g[j] \in Written64
  BY <1>5, <1>6 DEF Written64
<1> QED BY <1>5, <1>7 DEF g

\* The length of the encoded text.
LEMMA EncodedLengthIs == \A n \in Nat : EncodedLength(n) \in Nat
BY DEF EncodedLength

\* The encoded text is one.
LEMMA EncodeIs ==
  ASSUME NEW data \in Seq(Byte)
  PROVE  /\ Encode(data) \in Texts /\ Len(Encode(data)) = EncodedLength(Len(data))
         /\ Encode(data) \in Seq(Written64)
<1> DEFINE n == Len(data)
           e == EncodedLength(n)
           F(k) == GroupAt(data, (k - 1) \div 4)[((k - 1) % 4) + 1]
<1>1. n \in Nat /\ e \in Nat
  BY EncodedLengthIs
<1>2. ASSUME NEW k \in 1..e PROVE F(k) \in Written64
  <2> DEFINE g == (k - 1) \div 4
             j == ((k - 1) % 4) + 1
             in == [i \in 1..3 |-> ByteAt(data, 3 * g + i)]
  <2>1. g \in Nat /\ j \in 1..4
    BY <1>1
  <2> HIDE DEF g, j
  <2>2. in[1] = ByteAt(data, 3 * g + 1) /\ in[2] = ByteAt(data, 3 * g + 2)
        /\ in[3] = ByteAt(data, 3 * g + 3)
    OBVIOUS
  <2>3. 3 * g + 1 \in Nat \ {0} /\ 3 * g + 2 \in Nat \ {0} /\ 3 * g + 3 \in Nat \ {0}
        /\ n - 3 * g \in Int
    BY <1>1, <2>1
  <2>4. in[1] \in 0..255 /\ in[2] \in 0..255 /\ in[3] \in 0..255
    BY <2>2, <2>3, ByteTyped
  <2>5. GroupAt(data, g) = EncodedGroup(in, n - 3 * g)
    BY DEF GroupAt
  <2> HIDE DEF in, n
  <2>6. EncodedGroup(in, n - 3 * g)[j] \in Written64
    BY <2>1, <2>3, <2>4, GroupTyped
  <2> QED BY <2>5, <2>6 DEF g, j
<1>3. Encode(data) = [k \in 1..e |-> F(k)]
  BY EncodeUnfolded
<1> HIDE DEF F, e
<1>4. Encode(data) \in Seq(Written64) /\ Len(Encode(data)) = e
  BY <1>1, <1>2, <1>3
<1>5. Seq(Written64) \subseteq Texts
  BY AlphabetIs, SeqMonotone DEF Texts
<1> QED BY <1>4, <1>5 DEF e, n

(***************************************************************************)
(* Printing.                                                               *)
(***************************************************************************)
\* Sequences of texts, and the pieces of a text are as many as the entries.
Entries == Seq(Texts)

\* The printed children have lengths.
LEMMA EntriesAre ==
  ASSUME NEW e \in Entries
  PROVE  /\ Len(e) \in Nat /\ DOMAIN e = 1..Len(e)
         /\ \A i \in 1..Len(e) : e[i] \in Texts /\ Len(e[i]) \in Nat
         /\ (e = <<>>) = (Len(e) = 0)
<1>1. Len(e) \in Nat /\ DOMAIN e = 1..Len(e) /\ \A i \in 1..Len(e) : e[i] \in Texts
  BY DEF Entries
<1>2. (e = <<>>) = (Len(e) = 0)
  BY EmptySeq DEF Entries
<1> QED BY <1>1, <1>2, TextsAre

\* Joined pieces are a text, not longer than the sum of what each is not longer than.
LEMMA PiecesFit ==
  ASSUME NEW n \in Nat, NEW p, p = [i \in 1..n |-> p[i]], \A i \in 1..n : p[i] \in Texts
  PROVE  /\ FlattenSeq(p) \in Texts /\ Len(FlattenSeq(p)) \in Nat
         /\ \A s \in Seq(Nat) : Len(s) = n /\ (\A i \in 1..n : Len(p[i]) <= s[i])
                                => Len(FlattenSeq(p)) <= Total[s] /\ Total[s] \in Nat
<1>1. p \in Seq(Seq(Symbols)) /\ Len(p) = n
  BY DEF Texts
<1>2. FlattenSeq(p) \in Texts
  BY <1>1, FlattenTyped DEF Texts
<1>3. \A s \in Seq(Nat) : Total[s] \in Nat
  BY TotalIs DEF Numbers
<1> QED BY <1>1, <1>2, <1>3, FlattenFits, TextsAre

\* Two texts, and three.
LEMMA Cats ==
  ASSUME NEW a \in Texts, NEW b \in Texts, NEW c \in Texts
  PROVE  /\ Cat(a, b) \in Texts /\ Len(Cat(a, b)) = Len(a) + Len(b)
         /\ Cat(Cat(a, b), c) \in Texts /\ Len(Cat(Cat(a, b), c)) = Len(a) + Len(b) + Len(c)
         /\ Len(a) \in Nat /\ Len(b) \in Nat /\ Len(c) \in Nat
<1>1. /\ Cat(a, b) \in Texts /\ Len(Cat(a, b)) = Len(a) + Len(b)
      /\ Len(a) \in Nat /\ Len(b) \in Nat /\ Len(c) \in Nat
  BY TextsAre
<1> DEFINE u == Cat(a, b)
<1>2. u \in Texts /\ Len(u) = Len(a) + Len(b)
  BY <1>1
<1> HIDE DEF u
<1>3. Cat(u, c) \in Texts /\ Len(Cat(u, c)) = Len(u) + Len(c)
  BY <1>2, TextsAre
<1> QED BY <1>1, <1>2, <1>3 DEF u

\* print_array, formatted.
LEMMA JsonArrayIs ==
  ASSUME NEW e \in Entries
  PROVE  /\ JsonArray(e) \in Texts
         /\ e = <<>> => Len(JsonArray(e)) = 2
         /\ \A s \in Seq(Nat) :
              Len(s) = Len(e) /\ (\A i \in 1..Len(e) : Len(e[i]) + 2 <= s[i])
              => Len(JsonArray(e)) <= 2 + Total[s] /\ Total[s] \in Nat
<1> DEFINE n == Len(e)
           sep == <<Separator, Blank>>
           last(i) == IF i = n THEN <<>> ELSE sep
           p == [i \in 1..n |-> Cat(e[i], last(i))]
           a == <<"[">>
           b == <<"]">>
<1>1. n \in Nat /\ DOMAIN e = 1..n /\ (\A i \in 1..n : e[i] \in Texts /\ Len(e[i]) \in Nat)
      /\ (e = <<>>) = (n = 0)
  BY EntriesAre
<1>2. JsonArray(e) = Cat(Cat(a, FlattenSeq(p)), b)
  BY <1>1 DEF JsonArray, Cat
<1>3. sep \in Texts /\ Len(sep) = 2 /\ <<>> \in Texts /\ Len(<<>>) = 0
  BY SymbolsAre, Written, TextsAre
<1>4. a \in Texts /\ b \in Texts /\ Len(a) = 1 /\ Len(b) = 1
  BY SymbolsAre, Written DEF Brackets
<1> HIDE DEF sep, a, b
<1>5. \A i \in 1..n : last(i) \in Texts /\ Len(last(i)) <= 2 /\ Len(last(i)) \in Nat
  BY <1>3
<1> HIDE DEF last
<1>6. \A i \in 1..n : p[i] \in Texts /\ Len(p[i]) <= Len(e[i]) + 2 /\ Len(p[i]) \in Nat
  <2> TAKE i \in 1..n
  <2>1. Cat(e[i], last(i)) \in Texts /\ Len(Cat(e[i], last(i))) = Len(e[i]) + Len(last(i))
    BY <1>1, <1>5, TextsAre
  <2> QED BY <1>1, <1>5, <2>1
<1>7. p = [i \in 1..n |-> p[i]] /\ (n = 0 => p = <<>>)
  OBVIOUS
<1> DEFINE w == FlattenSeq(p)
<1> HIDE DEF p, n
<1>8. /\ w \in Texts /\ Len(w) \in Nat
      /\ \A s \in Seq(Nat) : Len(s) = n /\ (\A i \in 1..n : Len(p[i]) <= s[i])
                             => Len(w) <= Total[s] /\ Total[s] \in Nat
  BY <1>1, <1>6, <1>7, PiecesFit
<1>9. n = 0 => Len(w) = 0
  BY <1>3, <1>7, FlattenNothing
<1> HIDE DEF w
<1>10. JsonArray(e) \in Texts /\ Len(JsonArray(e)) = 1 + Len(w) + 1
  <2>1. JsonArray(e) = Cat(Cat(a, w), b)
    BY <1>2 DEF w
  <2>2. a \in Texts /\ w \in Texts /\ b \in Texts
    BY <1>4, <1>8
  <2>3. JsonArray(e) \in Texts /\ Len(JsonArray(e)) = Len(a) + Len(w) + Len(b)
    BY <2>1, <2>2, Cats
  <2> QED BY <1>4, <2>3
<1>11. ASSUME NEW s \in Seq(Nat), Len(s) = n, \A i \in 1..n : Len(e[i]) + 2 <= s[i]
       PROVE  Len(JsonArray(e)) <= 2 + Total[s] /\ Total[s] \in Nat
  <2>1. \A i \in 1..n : s[i] \in Nat
    BY <1>1, <1>11
  <2>2. \A i \in 1..n : Len(p[i]) <= s[i]
    BY <1>1, <1>6, <1>11, <2>1
  <2>3. Len(w) <= Total[s] /\ Total[s] \in Nat
    BY <1>8, <1>11, <2>2
  <2> QED BY <1>8, <1>10, <2>3
<1> QED BY <1>1, <1>8, <1>9, <1>10, <1>11 DEF n

\* A member of an object.
LEMMA JsonMemberIs ==
  ASSUME NEW c \in Symbols, NEW t \in Texts, NEW d \in Nat
  PROVE  /\ JsonMember(c, t, d) \in Texts /\ Len(JsonMember(c, t, d)) \in Nat
         /\ Len(JsonMember(c, t, d)) = d + 1 + Len(PrintString(<<c>>)) + 2 + Len(t)
         /\ Len(PrintString(<<c>>)) \in Nat /\ PrintString(<<c>>) \in Texts
<1> DEFINE r == Repeat(d + 1, Tab)
           q == PrintString(<<c>>)
           z == <<":", Tab>>
<1>1. r \in Texts /\ Len(r) = d + 1
  <2>1. d + 1 \in Int /\ d + 1 > 0
    OBVIOUS
  <2> QED BY <2>1, RepeatIs, SymbolsAre
<1>2. z \in Texts /\ Len(z) = 2
  BY SymbolsAre, Written
<1>3. q \in Texts
  BY Written, PrintStringIs
<1>4. JsonMember(c, t, d) = Cat(Cat(Cat(r, q), z), t)
  BY DEF JsonMember, Cat
<1> HIDE DEF r, q, z
<1> DEFINE u == Cat(Cat(r, q), z)
<1>5. u \in Texts /\ Len(u) = Len(r) + Len(q) + Len(z) /\ Len(q) \in Nat
  <2>1. r \in Texts /\ q \in Texts /\ z \in Texts
    BY <1>1, <1>2, <1>3
  <2> QED BY <2>1, Cats
<1>6. JsonMember(c, t, d) = Cat(u, t)
  BY <1>4
<1> HIDE DEF u
<1>7. Cat(u, t) \in Texts /\ Len(Cat(u, t)) = Len(u) + Len(t) /\ Len(t) \in Nat
  BY <1>5, TextsAre
<1>8. Len(JsonMember(c, t, d)) = d + 1 + Len(q) + 2 + Len(t)
  BY <1>1, <1>2, <1>5, <1>6, <1>7
<1>9. d + 1 + Len(q) + 2 + Len(t) \in Nat
  BY <1>5, <1>7
<1> QED BY <1>3, <1>5, <1>6, <1>7, <1>8, <1>9 DEF q

\* print_object, formatted.
LEMMA JsonObjectIs ==
  ASSUME NEW e \in Entries, NEW names \in Seq(Symbols), Len(names) = Len(e), NEW d \in Nat
  PROVE  /\ JsonObject(names, e, d) \in Texts
         /\ e = <<>> => Len(JsonObject(names, e, d)) <= 3 + d
         /\ \A s \in Seq(Nat) :
              Len(s) = Len(e)
              /\ (\A i \in 1..Len(e) :
                    Len(e[i]) + Len(PrintString(<<names[i]>>)) + 2 + 2 + d + 1 <= s[i])
              => Len(JsonObject(names, e, d)) <= 3 + d + Total[s] /\ Total[s] \in Nat
<1> DEFINE n == Len(e)
           nl == <<Newline>>
           m(i) == JsonMember(names[i], e[i], d)
           p == [i \in 1..n |-> Cat(Cat(m(i), Comma(i, n)), nl)]
           a == <<"{", Newline>>
           b == <<"}">>
           k == IF e = <<>> THEN d - 1 ELSE d
           r == Repeat(k, Tab)
           q(i) == Len(PrintString(<<names[i]>>))
<1>1. n \in Nat /\ DOMAIN e = 1..n /\ (\A i \in 1..n : e[i] \in Texts /\ Len(e[i]) \in Nat)
      /\ (e = <<>>) = (n = 0)
  BY EntriesAre
<1>2. JsonObject(names, e, d) = Cat(Cat(Cat(a, FlattenSeq(p)), r), b)
  BY <1>1 DEF JsonObject, Cat
<1>3. \A i \in 1..n : Comma(i, n) \in Texts /\ Len(Comma(i, n)) \in 0..1
  <2>1. <<>> \in Texts /\ Len(<<>>) = 0 /\ <<Separator>> \in Texts /\ Len(<<Separator>>) = 1
    BY SymbolsAre, Written, TextsAre
  <2> QED BY <2>1 DEF Comma
<1>4. a \in Texts /\ b \in Texts /\ nl \in Texts /\ Len(a) = 2 /\ Len(b) = 1 /\ Len(nl) = 1
  BY SymbolsAre, Written DEF Brackets
<1>5. r \in Texts /\ Len(r) <= d /\ Len(r) \in Nat
  <2>1. k \in Int /\ k <= d
    OBVIOUS
  <2> HIDE DEF k
  <2>2. r \in Texts /\ Len(r) = IF k > 0 THEN k ELSE 0
    BY <2>1, RepeatIs, SymbolsAre
  <2> HIDE DEF r
  <2> QED BY <2>1, <2>2
<1>6. \A i \in 1..n : /\ m(i) \in Texts /\ q(i) \in Nat
                      /\ Len(m(i)) = d + 1 + q(i) + 2 + Len(e[i])
  <2> TAKE i \in 1..n
  <2>1. names[i] \in Symbols
    OBVIOUS
  <2> QED BY <1>1, <2>1, JsonMemberIs
<1> HIDE DEF a, b, nl, r, m, q
<1>7. \A i \in 1..n : p[i] \in Texts /\ Len(p[i]) \in Nat
                      /\ Len(p[i]) <= Len(e[i]) + q(i) + 2 + 2 + d + 1
  <2> TAKE i \in 1..n
  <2> DEFINE z == Cat(Cat(m(i), Comma(i, n)), nl)
             c == Comma(i, n)
             x == m(i)
  <2>1. c \in Texts /\ Len(c) \in 0..1 /\ x \in Texts /\ Len(x) = d + 1 + q(i) + 2 + Len(e[i])
    BY <1>3, <1>6
  <2>2. z = Cat(Cat(x, c), nl)
    OBVIOUS
  <2>3. p[i] = z
    OBVIOUS
  <2> HIDE DEF z, c, x
  <2>4. z \in Texts /\ Len(z) = Len(x) + Len(c) + Len(nl)
    <3>1. x \in Texts /\ c \in Texts /\ nl \in Texts
      BY <1>4, <2>1
    <3> QED BY <2>2, <3>1, Cats
  <2> DEFINE g == q(i)
             h == Len(e[i])
  <2>5. g \in Nat /\ h \in Nat /\ Len(x) = d + 1 + g + 2 + h /\ Len(nl) = 1 /\ Len(c) \in 0..1
    BY <1>1, <1>4, <1>6, <2>1
  <2> DEFINE y == Len(z)
             v == Len(x)
             o == Len(c)
             l == Len(nl)
  <2> HIDE DEF g, h, p, n, k
  <2>7. /\ y = v + o + l /\ g \in Nat /\ h \in Nat /\ v = d + 1 + g + 2 + h /\ l = 1
        /\ o \in 0..1
    BY <2>4, <2>5
  <2> HIDE DEF y, v, o, l
  <2>8. y \in Nat /\ y <= h + g + 2 + 2 + d + 1
    BY <2>7
  <2>6. Len(z) \in Nat /\ Len(z) <= h + g + 2 + 2 + d + 1
    BY <2>8 DEF y
  <2> QED BY <2>3, <2>4, <2>6 DEF g, h
<1>8. p = [i \in 1..n |-> p[i]] /\ (n = 0 => p = <<>>)
  OBVIOUS
<1> DEFINE w == FlattenSeq(p)
<1> HIDE DEF p, n
<1>9. /\ w \in Texts /\ Len(w) \in Nat
      /\ \A s \in Seq(Nat) : Len(s) = n /\ (\A i \in 1..n : Len(p[i]) <= s[i])
                             => Len(w) <= Total[s] /\ Total[s] \in Nat
  BY <1>1, <1>7, <1>8, PiecesFit
<1>10. n = 0 => Len(w) = 0
  BY <1>8, FlattenNothing, EmptySeq
<1> DEFINE J == JsonObject(names, e, d)
<1>11. J \in Texts /\ Len(J) = 2 + Len(w) + Len(r) + 1
  <2> DEFINE u == Cat(Cat(a, w), r)
  <2>1. J = Cat(u, b)
    BY <1>2
  <2> HIDE DEF w, J
  <2>2. u \in Texts /\ Len(u) = Len(a) + Len(w) + Len(r)
    <3>1. a \in Texts /\ w \in Texts /\ r \in Texts
      BY <1>4, <1>5, <1>9
    <3> QED BY <3>1, Cats
  <2> HIDE DEF u
  <2>3. Cat(u, b) \in Texts /\ Len(Cat(u, b)) = Len(u) + Len(b)
    BY <1>4, <2>2, TextsAre
  <2> QED BY <1>4, <1>5, <1>9, <2>1, <2>2, <2>3
<1> HIDE DEF J, w
<1>12. ASSUME NEW s \in Seq(Nat), Len(s) = n,
              \A i \in 1..n : Len(e[i]) + q(i) + 2 + 2 + d + 1 <= s[i]
       PROVE  Len(J) <= 3 + d + Total[s] /\ Total[s] \in Nat
  <2>1. \A i \in 1..n : s[i] \in Nat
    BY <1>1, <1>12
  <2>2. \A i \in 1..n : Len(p[i]) <= s[i]
    <3> TAKE i \in 1..n
    <3> DEFINE g == Len(e[i]) + q(i) + 2 + 2 + d + 1
    <3>1. Len(p[i]) <= g /\ g <= s[i] /\ s[i] \in Nat /\ Len(p[i]) \in Nat
      BY <1>7, <1>12, <2>1
    <3> DEFINE a1 == Len(e[i])
               a2 == q(i)
    <3>3. a1 \in Nat /\ a2 \in Nat
      BY <1>1, <1>6
    <3> HIDE DEF a1, a2, k
    <3>4. a1 + a2 + 2 + 2 + d + 1 \in Nat
      BY <3>3
    <3>2. g \in Nat
      BY <3>4 DEF a1, a2
    <3> HIDE DEF g
    <3> QED BY <3>1, <3>2
  <2>3. Len(w) <= Total[s] /\ Total[s] \in Nat
    BY <1>9, <1>12, <2>2
  <2> QED BY <1>5, <1>9, <1>11, <2>3
<1>13. e = <<>> => Len(J) <= 3 + d
  BY <1>1, <1>5, <1>10, <1>11
<1> QED BY <1>11, <1>12, <1>13 DEF n, J, q

\* Joined pieces, none of them longer than m.
LEMMA FlattenAtMost ==
  ASSUME NEW n \in Nat, NEW p, p = [i \in 1..n |-> p[i]], \A i \in 1..n : p[i] \in Texts,
         NEW m \in Nat, \A i \in 1..n : Len(p[i]) <= m
  PROVE  FlattenSeq(p) \in Texts /\ Len(FlattenSeq(p)) <= m * n
<1> DEFINE U(k) == Upto(p, k)
           l(k) == Len(U(k))
           N == {k \in Nat : k <= n => l(k) <= m * k}
<1>1. p \in Seq(Seq(Symbols)) /\ Len(p) = n
  BY DEF Texts
<1>2. /\ \A k \in 0..n : U(k) \in Texts
      /\ U(0) = <<>>
      /\ \A k \in 1..n : U(k) = Cat(U(k - 1), p[k])
      /\ FlattenSeq(p) = U(n)
  BY <1>1, UptoAdds DEF Texts, Cat
<1> HIDE DEF U
<1>3. 0 \in N
  BY <1>2
<1>4. ASSUME NEW k \in Nat, k \in N PROVE k + 1 \in N
  <2> SUFFICES ASSUME k + 1 <= n PROVE l(k + 1) <= m * (k + 1)
    OBVIOUS
  <2>1. k \in 0..n /\ k + 1 \in 1..n /\ (k + 1) - 1 = k /\ k <= n
    OBVIOUS
  <2>2. U(k) \in Texts /\ p[k + 1] \in Texts /\ U(k + 1) = Cat(U(k), p[k + 1])
    BY <1>2, <2>1
  <2>3. l(k + 1) = l(k) + Len(p[k + 1]) /\ l(k) \in Nat /\ Len(p[k + 1]) \in Nat
    BY <2>2, TextsAre
  <2>4. l(k) <= m * k /\ Len(p[k + 1]) <= m
    BY <1>4, <2>1
  <2>5. m * (k + 1) = m * k + m /\ m * k \in Nat
    OBVIOUS
  <2> DEFINE x == l(k)
             y == Len(p[k + 1])
             z == m * k
  <2>6. l(k + 1) = x + y /\ x \in Nat /\ y \in Nat /\ x <= z /\ y <= m /\ z \in Nat
        /\ m * (k + 1) = z + m
    BY <2>3, <2>4, <2>5
  <2> HIDE DEF x, y, z
  <2> QED BY <2>6
<1>5. \A k \in Nat : k \in N
  <2> HIDE DEF N
  <2> QED BY <1>3, <1>4, SetInduction
<1>6. l(n) <= m * n /\ U(n) \in Texts
  BY <1>2, <1>5
<1> QED BY <1>2, <1>6

\* A part of a text is a text.
LEMMA PartIs ==
  ASSUME NEW s \in Texts, NEW m \in Nat \ {0}, NEW n \in Int, n <= Len(s)
  PROVE  SubSeq(s, m, n) \in Texts /\ Len(SubSeq(s, m, n)) = IF m <= n THEN n - m + 1 ELSE 0
<1>1. \A i \in m..n : s[i] \in Symbols
  BY DEF Texts
<1> QED BY <1>1, SubSeqProperties DEF Texts

\* print_array of cYAML.
LEMMA YamlArrayIs ==
  ASSUME NEW e \in Entries, NEW d \in Nat
  PROVE  /\ YamlArray(e, d) \in Texts
         /\ e = <<>> => Len(YamlArray(e, d)) = 2
         /\ \A s \in Seq(Nat) :
              e # <<>> /\ Len(s) = Len(e) /\ (\A i \in 1..Len(e) : Len(e[i]) + 3 + 2 * d <= s[i])
              => Len(YamlArray(e, d)) <= Total[s] /\ Total[s] \in Nat
<1> DEFINE n == Len(e)
           nl == <<Newline>>
           r == Repeat(2 * d, Blank)
           b == <<"-", Blank>>
           p == [i \in 1..n |-> Cat(Cat(Cat(nl, r), b), e[i])]
<1>1. n \in Nat /\ DOMAIN e = 1..n /\ (\A i \in 1..n : e[i] \in Texts /\ Len(e[i]) \in Nat)
      /\ (e = <<>>) = (n = 0)
  BY EntriesAre
<1>2. e # <<>> => YamlArray(e, d) = FlattenSeq(p)
  BY <1>1 DEF YamlArray, Cat
<1>3. nl \in Texts /\ Len(nl) = 1
  BY SymbolsAre, Written
<1>4. b \in Texts /\ Len(b) = 2
  <2>1. "-" \in Symbols
    BY YamlConstants
  <2> QED BY <2>1, SymbolsAre, Written
<1>5. r \in Texts /\ Len(r) = 2 * d
  <2>1. 2 * d \in Int /\ (IF 2 * d > 0 THEN 2 * d ELSE 0) = 2 * d
    OBVIOUS
  <2> QED BY <2>1, RepeatIs, SymbolsAre
<1>6. e = <<>> => YamlArray(e, d) \in Texts /\ Len(YamlArray(e, d)) = 2
  BY SymbolsAre, Written DEF YamlArray, Brackets
<1> HIDE DEF nl, r, b
<1> DEFINE h == Cat(Cat(nl, r), b)
<1>7. h \in Texts /\ Len(h) = Len(nl) + Len(r) + Len(b)
  <2>1. nl \in Texts /\ r \in Texts /\ b \in Texts
    BY <1>3, <1>4, <1>5
  <2> QED BY <2>1, Cats
<1>8. \A i \in 1..n : p[i] = Cat(h, e[i])
  OBVIOUS
<1>9. p = [i \in 1..n |-> p[i]]
  OBVIOUS
<1> HIDE DEF h, p, n
<1>10. \A i \in 1..n : p[i] \in Texts /\ Len(p[i]) = Len(h) + Len(e[i])
  BY <1>1, <1>7, <1>8, TextsAre
<1> DEFINE w == FlattenSeq(p)
<1>11. /\ w \in Texts /\ Len(w) \in Nat
       /\ \A s \in Seq(Nat) : Len(s) = n /\ (\A i \in 1..n : Len(p[i]) <= s[i])
                              => Len(w) <= Total[s] /\ Total[s] \in Nat
  BY <1>1, <1>9, <1>10, PiecesFit
<1> HIDE DEF w
<1>12. ASSUME NEW s \in Seq(Nat), Len(s) = n, \A i \in 1..n : Len(e[i]) + 3 + 2 * d <= s[i]
       PROVE  Len(w) <= Total[s] /\ Total[s] \in Nat
  <2>1. ASSUME NEW i \in 1..n PROVE Len(p[i]) <= s[i]
    <3> DEFINE x == Len(p[i])
               y == Len(e[i])
               z == Len(h)
    <3>1. x = z + y /\ y \in Nat /\ z = 1 + 2 * d + 2
      BY <1>1, <1>3, <1>4, <1>5, <1>7, <1>10
    <3>2. y + 3 + 2 * d <= s[i]
      BY <1>12
    <3> HIDE DEF x, y, z
    <3>3. x = y + 3 + 2 * d
      BY <3>1
    <3> QED BY <3>2, <3>3 DEF x
  <2> QED BY <1>11, <1>12, <2>1
<1> QED BY <1>2, <1>6, <1>11, <1>12 DEF n, w

\* print_object of cYAML.
LEMMA YamlObjectIs ==
  ASSUME NEW e \in Entries, NEW names \in Seq(Symbols), Len(names) = Len(e), NEW d \in Nat
  PROVE  /\ YamlObject(names, e, d) \in Texts
         /\ e = <<>> => Len(YamlObject(names, e, d)) <= 2 * d
         /\ \A s \in Seq(Nat) :
              e # <<>> /\ Len(s) = Len(e)
              /\ (\A i \in 1..Len(e) : Len(e[i]) + 4 + 2 * d <= s[i])
              => Len(YamlObject(names, e, d)) <= 1 + Total[s] /\ Total[s] \in Nat
<1> DEFINE n == Len(e)
           nl == <<Newline>>
           r == Repeat(2 * d, Blank)
           c(i) == <<names[i], ":", Blank>>
           z(i) == IF i = n THEN <<>> ELSE nl
           p == [i \in 1..n |-> Cat(Cat(Cat(r, c(i)), e[i]), z(i))]
           a == IF d > 0 THEN nl ELSE <<>>
<1>1. n \in Nat /\ DOMAIN e = 1..n /\ (\A i \in 1..n : e[i] \in Texts /\ Len(e[i]) \in Nat)
      /\ (e = <<>>) = (n = 0)
  BY EntriesAre
<1>2. e # <<>> => YamlObject(names, e, d) = Cat(a, FlattenSeq(p))
  BY <1>1 DEF YamlObject, Cat
<1>3. nl \in Texts /\ Len(nl) = 1 /\ <<>> \in Texts /\ Len(<<>>) = 0
  BY SymbolsAre, Written, TextsAre
<1>4. \A i \in 1..n : c(i) \in Texts /\ Len(c(i)) = 3
  BY SymbolsAre DEF Texts
<1>5. r \in Texts /\ Len(r) = 2 * d
  <2>1. 2 * d \in Int /\ (IF 2 * d > 0 THEN 2 * d ELSE 0) = 2 * d
    OBVIOUS
  <2> QED BY <2>1, RepeatIs, SymbolsAre
<1>6. e = <<>> => YamlObject(names, e, d) \in Texts /\ Len(YamlObject(names, e, d)) <= 2 * d
  <2>1. 2 * (d - 1) \in Int /\ (IF 2 * (d - 1) > 0 THEN 2 * (d - 1) ELSE 0) <= 2 * d
    OBVIOUS
  <2>2. e = <<>> => YamlObject(names, e, d) = Repeat(2 * (d - 1), Blank)
    BY DEF YamlObject
  <2> QED BY <2>1, <2>2, RepeatIs, SymbolsAre
<1>7. \A i \in 1..n : z(i) \in Texts /\ Len(z(i)) \in 0..1
  BY <1>3
<1>8. a \in Texts /\ Len(a) \in 0..1
  BY <1>3
<1> HIDE DEF nl, r, c, z, a
<1>9. \A i \in 1..n : p[i] = Cat(Cat(Cat(r, c(i)), e[i]), z(i))
  OBVIOUS
<1>10. p = [i \in 1..n |-> p[i]]
  OBVIOUS
<1> HIDE DEF p, n
<1>11. ASSUME NEW i \in 1..n
       PROVE  p[i] \in Texts /\ Len(p[i]) <= Len(e[i]) + 4 + 2 * d /\ Len(p[i]) \in Nat
  <2> DEFINE x == c(i)
             y == e[i]
             v == z(i)
             u == Cat(Cat(r, x), y)
  <2>1. r \in Texts /\ x \in Texts /\ y \in Texts /\ v \in Texts
    BY <1>1, <1>4, <1>5, <1>7
  <2>2. p[i] = Cat(u, v)
    BY <1>9
  <2> HIDE DEF x, y, v
  <2>3. u \in Texts /\ Len(u) = Len(r) + Len(x) + Len(y)
    BY <2>1, Cats
  <2> HIDE DEF u
  <2>4. Cat(u, v) \in Texts /\ Len(Cat(u, v)) = Len(u) + Len(v)
    BY <2>1, <2>3, TextsAre
  <2> DEFINE i1 == Len(r)
             i2 == Len(x)
             i3 == Len(y)
             i4 == Len(v)
             i5 == Len(p[i])
  <2>5. i1 = 2 * d /\ i2 = 3 /\ i3 \in Nat /\ i4 \in 0..1 /\ i5 = i1 + i2 + i3 + i4
    BY <1>1, <1>4, <1>5, <1>7, <2>2, <2>3, <2>4 DEF x, y, v
  <2> HIDE DEF i1, i2, i3, i4, i5
  <2>6. i5 <= i3 + 4 + 2 * d /\ i5 \in Nat
    BY <2>5
  <2> QED BY <2>2, <2>4, <2>6 DEF i5, i3, y
<1> DEFINE w == FlattenSeq(p)
<1>12. /\ w \in Texts /\ Len(w) \in Nat
       /\ \A s \in Seq(Nat) : Len(s) = n /\ (\A i \in 1..n : Len(p[i]) <= s[i])
                              => Len(w) <= Total[s] /\ Total[s] \in Nat
  BY <1>1, <1>10, <1>11, PiecesFit
<1> HIDE DEF w
<1>13. Cat(a, w) \in Texts /\ Len(Cat(a, w)) <= 1 + Len(w)
  <2>1. a \in Texts /\ w \in Texts
    BY <1>8, <1>12
  <2>2. Cat(a, w) \in Texts /\ Len(Cat(a, w)) = Len(a) + Len(w)
    BY <2>1, TextsAre
  <2> DEFINE x == Len(a)
             y == Len(w)
  <2>3. x \in 0..1 /\ y \in Nat /\ Len(Cat(a, w)) = x + y
    BY <1>8, <1>12, <2>2
  <2> HIDE DEF x, y
  <2>4. x + y <= 1 + y
    BY <2>3
  <2> QED BY <2>2, <2>3, <2>4 DEF y
<1>14. ASSUME NEW s \in Seq(Nat), Len(s) = n, \A i \in 1..n : Len(e[i]) + 4 + 2 * d <= s[i]
       PROVE  Len(Cat(a, w)) <= 1 + Total[s] /\ Total[s] \in Nat
  <2>1. ASSUME NEW i \in 1..n PROVE Len(p[i]) <= s[i]
    <3> DEFINE x == Len(p[i])
               y == Len(e[i]) + 4 + 2 * d
               v == Len(e[i])
    <3>4. x <= y /\ x \in Nat
      BY <1>11
    <3>5. y <= s[i]
      BY <1>14
    <3>6. s[i] \in Nat
      BY <1>14
    <3>7. v \in Nat
      BY <1>1
    <3>1. x <= y /\ x \in Nat /\ y <= s[i] /\ s[i] \in Nat /\ v \in Nat
      BY <3>4, <3>5, <3>6, <3>7
    <3>2. y \in Nat
      <4> HIDE DEF v
      <4>1. v + 4 + 2 * d \in Nat
        BY <3>1
      <4> QED BY <4>1 DEF v
    <3> HIDE DEF x, y, v
    <3>3. x <= s[i]
      BY <3>1, <3>2
    <3> QED BY <3>3 DEF x
  <2>2. Len(w) <= Total[s] /\ Total[s] \in Nat
    BY <1>12, <1>14, <2>1
  <2>3. Len(Cat(a, w)) \in Nat
    BY <1>13, TextsAre
  <2> QED BY <1>12, <1>13, <2>2, <2>3
<1> QED BY <1>2, <1>6, <1>13, <1>14 DEF n, w

\* The lines of a binary are one more than the full ones at most.
LEMMA LinesAre ==
  ASSUME NEW b \in Nat \ {0}, NEW l \in Nat
  PROVE  /\ (l + b - 1) \div b \in Nat /\ l \div b \in Nat
         /\ (l + b - 1) \div b <= (l \div b) + 1
<1> DEFINE x == l + b - 1
           p == x \div b
           q == l \div b
           r == x % b
           t == l % b
<1>1. x \in Int /\ x >= 0
  OBVIOUS
<1>2. p \in Int /\ r \in 0..(b - 1) /\ x = b * p + r /\ p >= 0
  BY <1>1, DivMod
<1>3. q \in Int /\ t \in 0..(b - 1) /\ l = b * q + t /\ q >= 0
  <2>1. l \in Int /\ l >= 0
    OBVIOUS
  <2> HIDE DEF x, p, r
  <2> QED BY <2>1, DivMod
<1> HIDE DEF p, q, r, t
<1>4. ~ (q + 1 < p)
  <2> SUFFICES ASSUME q + 1 < p PROVE FALSE
    OBVIOUS
  <2>1. q + 1 \in Int
    BY <1>3
  <2>2. b * (q + 1) + b <= b * p /\ b * (q + 1) \in Int /\ b * p \in Int
    BY <1>2, <2>1, Multiples
  <2>3. b * (q + 1) = b * q + b /\ b * q \in Int
    BY <1>3
  <2> DEFINE u == b * q
             v == b * p
             z == b * (q + 1)
  <2>4. z + b <= v /\ z = u + b /\ u \in Int /\ v \in Int /\ l = u + t /\ l + b - 1 = v + r
    BY <1>2, <1>3, <2>2, <2>3
  <2> HIDE DEF u, v, z
  <2> QED BY <1>2, <1>3, <2>4
<1>5. p \in Nat /\ q \in Nat /\ p <= q + 1
  BY <1>2, <1>3, <1>4
<1> QED BY <1>5 DEF p, q

\* What the lines need.
LEMMA LinesFit ==
  ASSUME NEW m \in Nat, NEW n \in Nat, NEW k \in Nat, n <= k + 1, NEW w \in Nat, w <= m * n
  PROVE  11 + w + 1 <= (k + 1) * (m + 4) + 11
<1>1. m * n <= m * (k + 1) /\ m * n \in Nat /\ m * (k + 1) \in Nat
  <2>1. CASE n = k + 1
    BY <2>1
  <2>2. CASE n # k + 1
    <3>1. m = 0 => m * n <= m * (k + 1)
      OBVIOUS
    <3>2. m # 0 => m * n <= m * (k + 1)
      <4> SUFFICES ASSUME m # 0 PROVE m * n <= m * (k + 1)
        OBVIOUS
      <4>1. m \in Nat \ {0} /\ n \in Int /\ k + 1 \in Int /\ n < k + 1
        BY <2>2
      <4>2. m * n + m <= m * (k + 1) /\ m * n \in Int /\ m * (k + 1) \in Int
        BY <4>1, Multiples
      <4> DEFINE x == m * n
                 y == m * (k + 1)
      <4>3. x + m <= y /\ x \in Int /\ y \in Int
        BY <4>2
      <4> HIDE DEF x, y
      <4>4. x <= y
        BY <4>3
      <4> QED BY <4>4 DEF x, y
    <3> QED BY <3>1, <3>2
  <2> QED BY <2>1, <2>2
<1>2. (k + 1) * (m + 4) = m * (k + 1) + 4 * (k + 1)
  OBVIOUS
<1> DEFINE x == m * n
           y == m * (k + 1)
           z == (k + 1) * (m + 4)
<1>3. x \in Nat /\ y \in Nat /\ x <= y /\ z = y + 4 * (k + 1) /\ w <= x
  BY <1>1, <1>2
<1> HIDE DEF x, y, z
<1>4. 11 + w + 1 <= z + 11
  BY <1>3
<1> QED BY <1>4 DEF z

\* print_binary: the tag and the lines, of which the last need not be full, fit.
LEMMA YamlBinaryIs ==
  ASSUME NEW data \in Seq(Byte), NEW d \in Nat
  PROVE  /\ YamlBinary(data, d) \in Texts
         /\ Len(YamlBinary(data, d)) + 1 <= BinaryRoom(EncodedLength(Len(data)), d)
<1> DEFINE s == Encode(data)
           l == Len(s)
           b == BinLine
           n == (l + b - 1) \div b
           k == l \div b
           end(i) == IF b * i < l THEN b * i ELSE l
           part(i) == SubSeq(s, b * (i - 1) + 1, end(i))
           r == Repeat(2 * d + 2, Blank)
           nl == <<Newline>>
           p == [i \in 1..n |-> Cat(Cat(r, part(i)), nl)]
           m == 2 * d + 3 + b
<1>1. s \in Texts /\ l \in Nat /\ l = EncodedLength(Len(data))
  <2>1. Len(data) \in Nat
    OBVIOUS
  <2> QED BY <2>1, EncodeIs, EncodedLengthIs
<1>2. b \in Nat \ {0}
  BY YamlConstants
<1>3. YamlBinary(data, d) = Cat(BinaryTag, FlattenSeq(p))
  BY DEF YamlBinary, Cat
<1>4. BinaryRoom(l, d) = (k + 1) * (2 * d + 6 + b + 1) + 11
  BY DEF BinaryRoom
<1> HIDE DEF s, l, b
<1>5. n \in Nat /\ k \in Nat /\ n <= k + 1
  BY <1>1, <1>2, LinesAre
<1> HIDE DEF n, k
<1>6. nl \in Texts /\ Len(nl) = 1
  BY SymbolsAre, Written
<1>7. r \in Texts /\ Len(r) = 2 * d + 2
  <2>1. 2 * d + 2 \in Int /\ (IF 2 * d + 2 > 0 THEN 2 * d + 2 ELSE 0) = 2 * d + 2
    OBVIOUS
  <2> QED BY <2>1, RepeatIs, SymbolsAre
<1>8. \A i \in 1..n : part(i) \in Texts /\ Len(part(i)) <= b /\ Len(part(i)) \in Nat
  <2> TAKE i \in 1..n
  <2> DEFINE u == b * (i - 1)
             v == b * i
             z == end(i)
  <2>1. u \in Nat /\ v = u + b /\ v \in Nat
    <3>1. i - 1 \in Nat
      BY <1>5
    <3> QED BY <1>2, <3>1
  <2>2. z \in Int /\ z <= l /\ z <= v /\ part(i) = SubSeq(s, u + 1, z)
    BY <1>1, <2>1
  <2> HIDE DEF u, v, z, part
  <2>3. u + 1 \in Nat \ {0} /\ z <= Len(s)
    BY <2>1, <2>2 DEF l
  <2>4. part(i) \in Texts /\ Len(part(i)) = IF u + 1 <= z THEN z - (u + 1) + 1 ELSE 0
    BY <1>1, <2>2, <2>3, PartIs
  <2> QED BY <1>2, <2>1, <2>2, <2>4
<1> HIDE DEF part, end, r, nl
<1>9. p = [i \in 1..n |-> p[i]] /\ \A i \in 1..n : p[i] = Cat(Cat(r, part(i)), nl)
  OBVIOUS
<1> HIDE DEF p
<1>10. ASSUME NEW i \in 1..n PROVE p[i] \in Texts /\ Len(p[i]) <= m
  <2> DEFINE x == part(i)
  <2>1. r \in Texts /\ x \in Texts /\ nl \in Texts /\ p[i] = Cat(Cat(r, x), nl)
    BY <1>6, <1>7, <1>8, <1>9
  <2> HIDE DEF x
  <2>2. p[i] \in Texts /\ Len(p[i]) = Len(r) + Len(x) + Len(nl)
    BY <2>1, Cats
  <2> DEFINE j == Len(x)
  <2>3. j <= b /\ j \in Nat /\ Len(p[i]) = 2 * d + 2 + j + 1
    BY <1>6, <1>7, <1>8, <2>2 DEF x
  <2> HIDE DEF j
  <2>4. Len(p[i]) <= m
    BY <1>2, <2>3
  <2> QED BY <2>2, <2>4
<1>11. m \in Nat
  BY <1>2
<1> DEFINE w == FlattenSeq(p)
<1>12. m + 4 = 2 * d + 6 + b + 1
  BY <1>2
<1> HIDE DEF m
<1>13. w \in Texts /\ Len(w) <= m * n
  BY <1>5, <1>9, <1>10, <1>11, FlattenAtMost
<1>14. BinaryTag \in Texts /\ Len(BinaryTag) = 11
  <2>1. {"-", "!", "i", "a", "y", "|"} \subseteq Symbols
    BY YamlConstants
  <2> QED BY <2>1, SymbolsAre DEF BinaryTag, Texts
<1> HIDE DEF w
<1>15. Cat(BinaryTag, w) \in Texts /\ Len(Cat(BinaryTag, w)) = 11 + Len(w) /\ Len(w) \in Nat
  BY <1>13, <1>14, TextsAre
<1>16. 11 + Len(w) + 1 <= (k + 1) * (m + 4) + 11
  BY <1>5, <1>11, <1>13, <1>15, LinesFit
<1>17. Len(Cat(BinaryTag, w)) + 1 <= BinaryRoom(l, d)
  BY <1>4, <1>12, <1>15, <1>16
<1> QED BY <1>1, <1>3, <1>15, <1>17 DEF w

(***************************************************************************)
(* Trees printed.                                                          *)
(***************************************************************************)
\* An item printed at every depth.
Printed == [Nat -> Texts]

\* What f prints of the children of t.
Below(f, t, d) == [i \in DOMAIN t.child |-> f[t.child[i]][d + 1]]

\* One step of Json,
JsonStep(f, t) == [d \in Nat |-> JsonOf(t, Below(f, t, d), d)]
\* and one of Yaml.
YamlStep(f, t) == [d \in Nat |-> YamlOf(t, Below(f, t, d), d)]

\* The parts of a tree.
LEMMA PartsAre ==
  ASSUME NEW t \in Trees
  PROVE  /\ t.name \in Symbols /\ t.text \in Texts /\ t.data \in Seq(Byte)
         /\ t.child \in Seq(Trees) /\ Len(t.child) \in Nat /\ DOMAIN t.child = 1..Len(t.child)
         /\ \A i \in 1..Len(t.child) : t.child[i] \in Trees /\ t.child[i].name \in Symbols
         /\ (t.child = <<>>) = (Len(t.child) = 0)
         /\ t.type \in {"string", "number", "true", "false", "binary", "array", "object"}
         /\ t.type = "number" => \E n \in Numerals : t.text = <<n>>
         /\ t.type # "array" /\ t.type # "object" => t.child = <<>>
         /\ t.type = "array" => \A i \in 1..Len(t.child) : t.child[i].name = NoName
<1>1. IsTree(t, Trees)
  BY TreesAre
<1> DEFINE c == t.child
<1>2. c \in Seq(Trees)
  BY <1>1 DEF IsTree
<1>3. t.type = "array" => c \in Seq(Unnamed(Trees))
  BY <1>1 DEF IsTree
<1> HIDE DEF c
<1>4. Len(c) \in Nat /\ DOMAIN c = 1..Len(c) /\ \A i \in 1..Len(c) : c[i] \in Trees
  BY <1>2
<1>5. \A u \in Trees : u.name \in Symbols
  BY TreesAre DEF IsTree
<1>6. (c = <<>>) = (Len(c) = 0)
  BY <1>2, EmptySeq
<1>7. t.type = "array" => \A i \in 1..Len(c) : c[i].name = NoName
  <2> SUFFICES ASSUME t.type = "array", NEW i \in 1..Len(c) PROVE c[i].name = NoName
    OBVIOUS
  <2>1. c[i] \in Unnamed(Trees)
    BY <1>3
  <2> QED BY <2>1 DEF Unnamed
<1> QED BY <1>1, <1>2, <1>4, <1>5, <1>6, <1>7 DEF IsTree, c

\* The printed children are texts.
LEMMA BelowIs ==
  ASSUME NEW t \in Trees, NEW f, \A i \in DOMAIN t.child : f[t.child[i]] \in Printed, NEW d \in Nat
  PROVE  /\ Below(f, t, d) \in Entries /\ Len(Below(f, t, d)) = Len(t.child)
         /\ \A i \in 1..Len(t.child) : Below(f, t, d)[i] = f[t.child[i]][d + 1]
<1> DEFINE c == t.child
           n == Len(c)
<1>1. n \in Nat /\ DOMAIN c = 1..n
  BY PartsAre
<1>2. Below(f, t, d) = [i \in 1..n |-> f[c[i]][d + 1]]
  BY <1>1 DEF Below
<1>3. \A i \in 1..n : f[c[i]] \in Printed
  BY <1>1
<1> HIDE DEF c, n
<1>4. \A i \in 1..n : f[c[i]][d + 1] \in Texts
  BY <1>3 DEF Printed
<1>5. Below(f, t, d) \in Seq(Texts) /\ Len(Below(f, t, d)) = n
      /\ \A i \in 1..n : Below(f, t, d)[i] = f[c[i]][d + 1]
  BY <1>1, <1>2, <1>4
<1> QED BY <1>5 DEF Entries, c, n

\* The names of the members.
LEMMA NamesAre ==
  ASSUME NEW t \in Trees
  PROVE  /\ NamesOf(t) \in Seq(Symbols) /\ Len(NamesOf(t)) = Len(t.child)
         /\ \A i \in 1..Len(t.child) : NamesOf(t)[i] = t.child[i].name
<1> DEFINE c == t.child
           n == Len(c)
<1>1. n \in Nat /\ DOMAIN c = 1..n /\ \A i \in 1..n : c[i].name \in Symbols
  BY PartsAre
<1>2. NamesOf(t) = [i \in 1..n |-> c[i].name]
  BY <1>1 DEF NamesOf
<1> HIDE DEF c, n
<1>3. NamesOf(t) \in Seq(Symbols) /\ Len(NamesOf(t)) = n
      /\ \A i \in 1..n : NamesOf(t)[i] = c[i].name
  BY <1>1, <1>2
<1> QED BY <1>3 DEF c, n

\* The words.
LEMMA KeywordsAre ==
  /\ Keyword["true"] \in Texts /\ Keyword["false"] \in Texts
  /\ Len(Keyword["true"]) = 1 /\ Len(Keyword["false"]) = 1
  /\ Keyword["true"] = <<"true">> /\ Keyword["false"] = <<"false">>
<1>1. Keyword["true"] = <<"true">> /\ Keyword["false"] = <<"false">>
  BY DEF Keyword
<1>2. "true" \in Symbols /\ "false" \in Symbols
  BY SymbolsAre DEF Keyword
<1> QED BY <1>1, <1>2, Written

\* print_value prints a text,
LEMMA JsonOfTyped ==
  ASSUME NEW t \in Trees, NEW e \in Entries, Len(e) = Len(t.child), NEW d \in Nat
  PROVE  /\ JsonOf(t, e, d) \in Texts
         /\ t.type = "string" => JsonOf(t, e, d) = PrintString(t.text)
         /\ t.type = "number" => JsonOf(t, e, d) = t.text
         /\ t.type = "binary" => JsonOf(t, e, d) = PrintString(Encode(t.data))
         /\ t.type = "array"  => JsonOf(t, e, d) = JsonArray(e)
         /\ t.type = "object" => JsonOf(t, e, d) = JsonObject(NamesOf(t), e, d)
         /\ t.type \in {"true", "false"} => JsonOf(t, e, d) = Keyword[t.type]
<1>1. CASE t.type = "string"
  <2>1. JsonOf(t, e, d) = PrintString(t.text)
    BY <1>1 DEF JsonOf
  <2> QED BY <1>1, <2>1, PartsAre, PrintStringIs
<1>2. CASE t.type = "number"
  <2>1. JsonOf(t, e, d) = t.text
    BY <1>2 DEF JsonOf
  <2> QED BY <1>2, <2>1, PartsAre
<1>3. CASE t.type = "binary"
  <2>1. JsonOf(t, e, d) = PrintString(Encode(t.data))
    BY <1>3 DEF JsonOf
  <2> QED BY <1>3, <2>1, PartsAre, EncodeIs, PrintStringIs
<1>4. CASE t.type = "array"
  <2>1. JsonOf(t, e, d) = JsonArray(e)
    BY <1>4 DEF JsonOf
  <2> QED BY <1>4, <2>1, JsonArrayIs
<1>5. CASE t.type = "object"
  <2>1. JsonOf(t, e, d) = JsonObject(NamesOf(t), e, d)
    BY <1>5 DEF JsonOf
  <2>2. NamesOf(t) \in Seq(Symbols) /\ Len(NamesOf(t)) = Len(e)
    BY NamesAre
  <2> QED BY <1>5, <2>1, <2>2, JsonObjectIs
<1>6. CASE t.type \in {"true", "false"}
  <2>1. JsonOf(t, e, d) = Keyword[t.type]
    BY <1>6 DEF JsonOf
  <2> QED BY <1>6, <2>1, KeywordsAre
<1> QED BY <1>1, <1>2, <1>3, <1>4, <1>5, <1>6, PartsAre

\* What an item is printed as in YAML.
LEMMA YamlOfTyped ==
  ASSUME NEW t \in Trees, NEW e \in Entries, Len(e) = Len(t.child), NEW d \in Nat
  PROVE  /\ YamlOf(t, e, d) \in Texts
         /\ t.type = "string" => YamlOf(t, e, d) = YamlString(t.text)
         /\ t.type = "number" => YamlOf(t, e, d) = t.text
         /\ t.type = "binary" => YamlOf(t, e, d) = YamlBinary(t.data, d)
         /\ t.type = "array"  => YamlOf(t, e, d) = YamlArray(e, d)
         /\ t.type = "object" => YamlOf(t, e, d) = YamlObject(NamesOf(t), e, d)
         /\ t.type \in {"true", "false"} => YamlOf(t, e, d) = Keyword[t.type]
<1>1. CASE t.type = "string"
  <2>1. YamlOf(t, e, d) = YamlString(t.text)
    BY <1>1 DEF YamlOf
  <2>2. t.text \in Texts /\ PrintString(t.text) \in Texts
    BY PartsAre, PrintStringIs
  <2>3. YamlString(t.text) \in Texts
    BY <2>2 DEF YamlString
  <2> QED BY <1>1, <2>1, <2>3
<1>2. CASE t.type = "number"
  <2>1. YamlOf(t, e, d) = t.text
    BY <1>2 DEF YamlOf
  <2> QED BY <1>2, <2>1, PartsAre
<1>3. CASE t.type = "binary"
  <2>1. YamlOf(t, e, d) = YamlBinary(t.data, d)
    BY <1>3 DEF YamlOf
  <2> QED BY <1>3, <2>1, PartsAre, YamlBinaryIs
<1>4. CASE t.type = "array"
  <2>1. YamlOf(t, e, d) = YamlArray(e, d)
    BY <1>4 DEF YamlOf
  <2> QED BY <1>4, <2>1, YamlArrayIs
<1>5. CASE t.type = "object"
  <2>1. YamlOf(t, e, d) = YamlObject(NamesOf(t), e, d)
    BY <1>5 DEF YamlOf
  <2>2. NamesOf(t) \in Seq(Symbols) /\ Len(NamesOf(t)) = Len(e)
    BY NamesAre
  <2> QED BY <1>5, <2>1, <2>2, YamlObjectIs
<1>6. CASE t.type \in {"true", "false"}
  <2>1. YamlOf(t, e, d) = Keyword[t.type]
    BY <1>6 DEF YamlOf
  <2> QED BY <1>6, <2>1, KeywordsAre
<1> QED BY <1>1, <1>2, <1>3, <1>4, <1>5, <1>6, PartsAre


\* There are functions to texts.
LEMMA PrintedIs == Printed # {}
<1>1. [d \in Nat |-> <<>>] \in Printed
  BY TextsAre DEF Printed
<1> QED BY <1>1

\* A step of Json prints texts,
LEMMA JsonTyped ==
  ASSUME NEW t \in Trees, NEW f, \A u \in Trees : Height(u) < Height(t) => f[u] \in Printed
  PROVE  JsonStep(f, t) \in Printed
<1>1. \A i \in DOMAIN t.child : f[t.child[i]] \in Printed
  BY ChildLower
<1>2. \A d \in Nat : JsonOf(t, Below(f, t, d), d) \in Texts
  BY <1>1, BelowIs, JsonOfTyped
<1> QED BY <1>2 DEF JsonStep, Printed

\* The printed children are those of the functions that print them.
LEMMA BelowSame ==
  ASSUME NEW t \in Trees, NEW f, NEW g,
         \A u \in Trees : Height(u) < Height(t) => f[u] = g[u]
  PROVE  \A d \in Nat : Below(f, t, d) = Below(g, t, d)
<1>1. \A i \in DOMAIN t.child : f[t.child[i]] = g[t.child[i]]
  BY ChildLower
<1> QED BY <1>1 DEF Below

\* and looks at the children only.
LEMMA JsonSame ==
  ASSUME NEW t \in Trees, NEW f, NEW g,
         \A u \in Trees : Height(u) < Height(t) => f[u] = g[u]
  PROVE  JsonStep(f, t) = JsonStep(g, t)
BY BelowSame DEF JsonStep

\* The JSON text of a tree is made of those of its children.
LEMMA JsonIs == Json \in [Trees -> Printed] /\ \A s \in Trees : Json[s] = JsonStep(Json, s)
<1> DEFINE D == Trees
           W == Printed
           m == [s \in D |-> Height(s)]
           body == [x \in [D -> W] \X D |-> JsonStep(x[1], x[2])]
           Body(f) == [s \in D |-> JsonStep(f, s)]
<1>1. m \in [D -> Nat] /\ \A s \in D : m[s] = Height(s)
  BY TreesAre
<1>2. ASSUME NEW s \in D, NEW f, \A t \in D : m[t] < m[s] => f[t] \in W
      PROVE  JsonStep(f, s) \in W
  BY <1>1, <1>2, JsonTyped
<1>3. ASSUME NEW s \in D, NEW f, NEW g, \A t \in D : m[t] < m[s] => f[t] = g[t]
      PROVE  JsonStep(f, s) = JsonStep(g, s)
  BY <1>1, <1>3, JsonSame
<1>4. W # {}
  BY PrintedIs
<1>5. Json = CHOOSE f : f = Body(f)
  BY DEF Json, JsonStep, Below
<1> HIDE DEF D, W, m
<1>6. \A f \in [D -> W], s \in D :
        body[<<f, s>>] = JsonStep(f, s) /\ body[<<f, s>>] \in W
  <2> TAKE f \in [D -> W], s \in D
  <2>1. body[<<f, s>>] = JsonStep(f, s)
    OBVIOUS
  <2>2. JsonStep(f, s) \in W
    BY <1>2
  <2> QED BY <2>1, <2>2
<1>7. body \in [[D -> W] \X D -> W]
  <2>1. DOMAIN body = [D -> W] \X D /\ body = [x \in [D -> W] \X D |-> body[x]]
    OBVIOUS
  <2>2. \A x \in [D -> W] \X D : body[x] \in W
    <3> TAKE x \in [D -> W] \X D
    <3>1. x = <<x[1], x[2]>> /\ x[1] \in [D -> W] /\ x[2] \in D
      OBVIOUS
    <3> HIDE DEF body
    <3> QED BY <1>6, <3>1
  <2> HIDE DEF body
  <2> QED BY <2>1, <2>2
<1> HIDE DEF body
<1>8. Contractive(D, W, m, body)
  <2>1. ASSUME NEW g \in [D -> W], NEW h \in [D -> W], NEW s \in D,
               \A t \in D : m[t] < m[s] => g[t] = h[t]
        PROVE  body[<<g, s>>] = body[<<h, s>>]
    <3>1. JsonStep(g, s) = JsonStep(h, s)
      BY <1>3, <2>1
    <3> QED BY <1>6, <3>1
  <2> QED BY <1>7, <2>1 DEF Contractive
<1>9. PICK f : Solves(D, W, body, f)
  BY <1>1, <1>4, <1>8, RecursiveFunctionExists
<1>10. f \in [D -> W] /\ \A s \in D : f[s] = JsonStep(f, s)
  BY <1>6, <1>9 DEF Solves
<1>11. f = Body(f)
  BY <1>10
<1> DEFINE F == Json
<1>12. F = Body(F)
  <2> HIDE DEF Body
  <2> QED BY <1>5, <1>11
<1> HIDE DEF F
<1>13. DOMAIN F = D /\ F = [s \in D |-> F[s]] /\ \A s \in D : F[s] = JsonStep(F, s)
  <2>1. /\ DOMAIN Body(F) = D /\ Body(F) = [s \in D |-> Body(F)[s]]
        /\ \A s \in D : Body(F)[s] = JsonStep(F, s)
    OBVIOUS
  <2> HIDE DEF Body
  <2> QED BY <1>12, <2>1
<1> DEFINE P == {s \in D : F[s] = f[s]}
<1>14. ASSUME NEW s \in D, \A t \in D : m[t] < m[s] => t \in P PROVE s \in P
  <2>1. JsonStep(F, s) = JsonStep(f, s)
    BY <1>3, <1>14
  <2> QED BY <1>10, <1>13, <2>1
<1>15. D \subseteq P
  <2> HIDE DEF P
  <2> QED BY <1>1, <1>14, MeasureInduction
<1>16. F \in [D -> W]
  BY <1>10, <1>13, <1>15
<1> QED BY <1>13, <1>16 DEF D, W, F

\* A step of Yaml prints texts,
LEMMA YamlTyped ==
  ASSUME NEW t \in Trees, NEW f, \A u \in Trees : Height(u) < Height(t) => f[u] \in Printed
  PROVE  YamlStep(f, t) \in Printed
<1>1. \A i \in DOMAIN t.child : f[t.child[i]] \in Printed
  BY ChildLower
<1>2. \A d \in Nat : YamlOf(t, Below(f, t, d), d) \in Texts
  BY <1>1, BelowIs, YamlOfTyped
<1> QED BY <1>2 DEF YamlStep, Printed

\* and looks at the children only.
LEMMA YamlSame ==
  ASSUME NEW t \in Trees, NEW f, NEW g,
         \A u \in Trees : Height(u) < Height(t) => f[u] = g[u]
  PROVE  YamlStep(f, t) = YamlStep(g, t)
BY BelowSame DEF YamlStep

\* The YAML text of a tree is made of those of its children.
LEMMA YamlIs == Yaml \in [Trees -> Printed] /\ \A s \in Trees : Yaml[s] = YamlStep(Yaml, s)
<1> DEFINE D == Trees
           W == Printed
           m == [s \in D |-> Height(s)]
           body == [x \in [D -> W] \X D |-> YamlStep(x[1], x[2])]
           Body(f) == [s \in D |-> YamlStep(f, s)]
<1>1. m \in [D -> Nat] /\ \A s \in D : m[s] = Height(s)
  BY TreesAre
<1>2. ASSUME NEW s \in D, NEW f, \A t \in D : m[t] < m[s] => f[t] \in W
      PROVE  YamlStep(f, s) \in W
  BY <1>1, <1>2, YamlTyped
<1>3. ASSUME NEW s \in D, NEW f, NEW g, \A t \in D : m[t] < m[s] => f[t] = g[t]
      PROVE  YamlStep(f, s) = YamlStep(g, s)
  BY <1>1, <1>3, YamlSame
<1>4. W # {}
  BY PrintedIs
<1>5. Yaml = CHOOSE f : f = Body(f)
  BY DEF Yaml, YamlStep, Below
<1> HIDE DEF D, W, m
<1>6. \A f \in [D -> W], s \in D :
        body[<<f, s>>] = YamlStep(f, s) /\ body[<<f, s>>] \in W
  <2> TAKE f \in [D -> W], s \in D
  <2>1. body[<<f, s>>] = YamlStep(f, s)
    OBVIOUS
  <2>2. YamlStep(f, s) \in W
    BY <1>2
  <2> QED BY <2>1, <2>2
<1>7. body \in [[D -> W] \X D -> W]
  <2>1. DOMAIN body = [D -> W] \X D /\ body = [x \in [D -> W] \X D |-> body[x]]
    OBVIOUS
  <2>2. \A x \in [D -> W] \X D : body[x] \in W
    <3> TAKE x \in [D -> W] \X D
    <3>1. x = <<x[1], x[2]>> /\ x[1] \in [D -> W] /\ x[2] \in D
      OBVIOUS
    <3> HIDE DEF body
    <3> QED BY <1>6, <3>1
  <2> HIDE DEF body
  <2> QED BY <2>1, <2>2
<1> HIDE DEF body
<1>8. Contractive(D, W, m, body)
  <2>1. ASSUME NEW g \in [D -> W], NEW h \in [D -> W], NEW s \in D,
               \A t \in D : m[t] < m[s] => g[t] = h[t]
        PROVE  body[<<g, s>>] = body[<<h, s>>]
    <3>1. YamlStep(g, s) = YamlStep(h, s)
      BY <1>3, <2>1
    <3> QED BY <1>6, <3>1
  <2> QED BY <1>7, <2>1 DEF Contractive
<1>9. PICK f : Solves(D, W, body, f)
  BY <1>1, <1>4, <1>8, RecursiveFunctionExists
<1>10. f \in [D -> W] /\ \A s \in D : f[s] = YamlStep(f, s)
  BY <1>6, <1>9 DEF Solves
<1>11. f = Body(f)
  BY <1>10
<1> DEFINE F == Yaml
<1>12. F = Body(F)
  <2> HIDE DEF Body
  <2> QED BY <1>5, <1>11
<1> HIDE DEF F
<1>13. DOMAIN F = D /\ F = [s \in D |-> F[s]] /\ \A s \in D : F[s] = YamlStep(F, s)
  <2>1. /\ DOMAIN Body(F) = D /\ Body(F) = [s \in D |-> Body(F)[s]]
        /\ \A s \in D : Body(F)[s] = YamlStep(F, s)
    OBVIOUS
  <2> HIDE DEF Body
  <2> QED BY <1>12, <2>1
<1> DEFINE P == {s \in D : F[s] = f[s]}
<1>14. ASSUME NEW s \in D, \A t \in D : m[t] < m[s] => t \in P PROVE s \in P
  <2>1. YamlStep(F, s) = YamlStep(f, s)
    BY <1>3, <1>14
  <2> QED BY <1>10, <1>13, <2>1
<1>15. D \subseteq P
  <2> HIDE DEF P
  <2> QED BY <1>1, <1>14, MeasureInduction
<1>16. F \in [D -> W]
  BY <1>10, <1>13, <1>15
<1> QED BY <1>13, <1>16 DEF D, W, F

(***************************************************************************)
(* The items of a tree.                                                    *)
(***************************************************************************)
Placements == [Nat -> SUBSET (Trees \X Nat)]

\* One step of Within.
WithinStep(f, t) ==
  [d \in Nat |-> {<<t, d>>} \cup UNION {f[t.child[i]][d + 1] : i \in DOMAIN t.child}]

\* A step of Within gives items with depths,
LEMMA WithinTyped ==
  ASSUME NEW t \in Trees, NEW f, \A u \in Trees : Height(u) < Height(t) => f[u] \in Placements
  PROVE  WithinStep(f, t) \in Placements
<1>1. \A i \in DOMAIN t.child : f[t.child[i]] \in Placements
  BY ChildLower
<1>2. \A i \in DOMAIN t.child : \A d \in Nat : f[t.child[i]][d + 1] \subseteq Trees \X Nat
  BY <1>1 DEF Placements
<1>3. \A d \in Nat : {<<t, d>>} \cup UNION {f[t.child[i]][d + 1] : i \in DOMAIN t.child}
                     \in SUBSET (Trees \X Nat)
  BY <1>2
<1> QED BY <1>3 DEF WithinStep, Placements

\* and looks at the children only.
LEMMA WithinSame ==
  ASSUME NEW t \in Trees, NEW f, NEW g,
         \A u \in Trees : Height(u) < Height(t) => f[u] = g[u]
  PROVE  WithinStep(f, t) = WithinStep(g, t)
<1>1. \A i \in DOMAIN t.child : f[t.child[i]] = g[t.child[i]]
  BY ChildLower
<1> QED BY <1>1 DEF WithinStep

\* There are such functions.
LEMMA PlacementsAre == Placements # {}
<1>1. [d \in Nat |-> {}] \in Placements
  BY DEF Placements
<1> QED BY <1>1

\* The items of a tree are it and those of its children.
LEMMA WithinIs == Within \in [Trees -> Placements] /\ \A s \in Trees : Within[s] = WithinStep(Within, s)
<1> DEFINE D == Trees
           W == Placements
           m == [s \in D |-> Height(s)]
           body == [x \in [D -> W] \X D |-> WithinStep(x[1], x[2])]
           Body(f) == [s \in D |-> WithinStep(f, s)]
<1>1. m \in [D -> Nat] /\ \A s \in D : m[s] = Height(s)
  BY TreesAre
<1>2. ASSUME NEW s \in D, NEW f, \A t \in D : m[t] < m[s] => f[t] \in W
      PROVE  WithinStep(f, s) \in W
  BY <1>1, <1>2, WithinTyped
<1>3. ASSUME NEW s \in D, NEW f, NEW g, \A t \in D : m[t] < m[s] => f[t] = g[t]
      PROVE  WithinStep(f, s) = WithinStep(g, s)
  BY <1>1, <1>3, WithinSame
<1>4. W # {}
  BY PlacementsAre
<1>5. Within = CHOOSE f : f = Body(f)
  BY DEF Within, WithinStep
<1> HIDE DEF D, W, m
<1>6. \A f \in [D -> W], s \in D :
        body[<<f, s>>] = WithinStep(f, s) /\ body[<<f, s>>] \in W
  <2> TAKE f \in [D -> W], s \in D
  <2>1. body[<<f, s>>] = WithinStep(f, s)
    OBVIOUS
  <2>2. WithinStep(f, s) \in W
    BY <1>2
  <2> QED BY <2>1, <2>2
<1>7. body \in [[D -> W] \X D -> W]
  <2>1. DOMAIN body = [D -> W] \X D /\ body = [x \in [D -> W] \X D |-> body[x]]
    OBVIOUS
  <2>2. \A x \in [D -> W] \X D : body[x] \in W
    <3> TAKE x \in [D -> W] \X D
    <3>1. x = <<x[1], x[2]>> /\ x[1] \in [D -> W] /\ x[2] \in D
      OBVIOUS
    <3> HIDE DEF body
    <3> QED BY <1>6, <3>1
  <2> HIDE DEF body
  <2> QED BY <2>1, <2>2
<1> HIDE DEF body
<1>8. Contractive(D, W, m, body)
  <2>1. ASSUME NEW g \in [D -> W], NEW h \in [D -> W], NEW s \in D,
               \A t \in D : m[t] < m[s] => g[t] = h[t]
        PROVE  body[<<g, s>>] = body[<<h, s>>]
    <3>1. WithinStep(g, s) = WithinStep(h, s)
      BY <1>3, <2>1
    <3> QED BY <1>6, <3>1
  <2> QED BY <1>7, <2>1 DEF Contractive
<1>9. PICK f : Solves(D, W, body, f)
  BY <1>1, <1>4, <1>8, RecursiveFunctionExists
<1>10. f \in [D -> W] /\ \A s \in D : f[s] = WithinStep(f, s)
  BY <1>6, <1>9 DEF Solves
<1>11. f = Body(f)
  BY <1>10
<1> DEFINE F == Within
<1>12. F = Body(F)
  <2> HIDE DEF Body
  <2> QED BY <1>5, <1>11
<1> HIDE DEF F
<1>13. DOMAIN F = D /\ F = [s \in D |-> F[s]] /\ \A s \in D : F[s] = WithinStep(F, s)
  <2>1. /\ DOMAIN Body(F) = D /\ Body(F) = [s \in D |-> Body(F)[s]]
        /\ \A s \in D : Body(F)[s] = WithinStep(F, s)
    OBVIOUS
  <2> HIDE DEF Body
  <2> QED BY <1>12, <2>1
<1> DEFINE P == {s \in D : F[s] = f[s]}
<1>14. ASSUME NEW s \in D, \A t \in D : m[t] < m[s] => t \in P PROVE s \in P
  <2>1. WithinStep(F, s) = WithinStep(f, s)
    BY <1>3, <1>14
  <2> QED BY <1>10, <1>13, <2>1
<1>15. D \subseteq P
  <2> HIDE DEF P
  <2> QED BY <1>1, <1>14, MeasureInduction
<1>16. F \in [D -> W]
  BY <1>10, <1>13, <1>15
<1> QED BY <1>13, <1>16 DEF D, W, F

\* An item of a tree is a tree, and only the tree itself is as high up as it is.
LEMMA WithinAre ==
  ASSUME NEW t \in Trees, NEW d \in Nat, NEW x \in Within[t][d]
  PROVE  x[1] \in Trees /\ x[2] \in Nat /\ (x = <<t, d>> \/ x[2] > d)
<1> DEFINE Q(u, k) == \A y \in Within[u][k] :
                        y[1] \in Trees /\ y[2] \in Nat /\ (y = <<u, k>> \/ y[2] > k)
           P == {u \in Trees : \A k \in Nat : Q(u, k)}
<1>1. ASSUME NEW u \in Trees, \A i \in DOMAIN u.child : u.child[i] \in P PROVE u \in P
  <2> SUFFICES ASSUME NEW k \in Nat, NEW y \in Within[u][k]
               PROVE  y[1] \in Trees /\ y[2] \in Nat /\ (y = <<u, k>> \/ y[2] > k)
    OBVIOUS
  <2>1. Within[u][k] = {<<u, k>>} \cup UNION {Within[u.child[i]][k + 1] : i \in DOMAIN u.child}
    BY WithinIs DEF WithinStep
  <2>2. CASE y = <<u, k>>
    BY <2>2
  <2>3. CASE y # <<u, k>>
    <3>1. PICK i \in DOMAIN u.child : y \in Within[u.child[i]][k + 1]
      BY <2>1, <2>3
    <3>2. k + 1 \in Nat /\ Q(u.child[i], k + 1)
      BY <1>1
    <3>3. y[1] \in Trees /\ y[2] \in Nat /\ (y = <<u.child[i], k + 1>> \/ y[2] > k + 1)
      BY <3>1, <3>2
    <3>4. y[2] > k
      BY <3>3
    <3> QED BY <3>3, <3>4
  <2> QED BY <2>2, <2>3
<1>2. Trees \subseteq P
  <2> HIDE DEF P
  <2> QED BY <1>1, TreeInduction
<1> QED BY <1>2

(***************************************************************************)
(* No byte is written past the memory.                                     *)
(***************************************************************************)
\* A printed item, from what is printed of its children.
LEMMA JsonPrints ==
  ASSUME NEW t \in Trees, NEW d \in Nat
  PROVE  /\ Json[t][d] = JsonOf(t, Below(Json, t, d), d)
         /\ Below(Json, t, d) \in Entries /\ Len(Below(Json, t, d)) = Len(t.child)
         /\ \A i \in 1..Len(t.child) : Below(Json, t, d)[i] = Json[t.child[i]][d + 1]
<1>1. \A u \in Trees : Json[u] \in Printed
  BY JsonIs
<1>2. \A i \in DOMAIN t.child : Json[t.child[i]] \in Printed
  BY <1>1, PartsAre
<1>3. Json[t][d] = JsonOf(t, Below(Json, t, d), d)
  BY JsonIs DEF JsonStep
<1> QED BY <1>2, <1>3, BelowIs

\* What cYAML prints of an item.
LEMMA YamlPrints ==
  ASSUME NEW t \in Trees, NEW d \in Nat
  PROVE  /\ Yaml[t][d] = YamlOf(t, Below(Yaml, t, d), d)
         /\ Below(Yaml, t, d) \in Entries /\ Len(Below(Yaml, t, d)) = Len(t.child)
         /\ \A i \in 1..Len(t.child) : Below(Yaml, t, d)[i] = Yaml[t.child[i]][d + 1]
<1>1. \A u \in Trees : Yaml[u] \in Printed
  BY YamlIs
<1>2. \A i \in DOMAIN t.child : Yaml[t.child[i]] \in Printed
  BY <1>1, PartsAre
<1>3. Yaml[t][d] = YamlOf(t, Below(Yaml, t, d), d)
  BY YamlIs DEF YamlStep
<1> QED BY <1>2, <1>3, BelowIs

\* print_array fits.
LEMMA JsonArrayFits ==
  ASSUME NEW t \in Trees, t.type = "array", NEW d \in Nat
  PROVE  Len(Json[t][d]) + 1 <= JsonRoom(t, d)
<1> DEFINE e == Below(Json, t, d)
           n == Len(t.child)
           s == [i \in 1..n |-> Len(Json[t.child[i]][d + 1]) + 2 + 1]
           j == JsonArray(e)
<1>1. e \in Entries /\ Len(e) = n /\ \A i \in 1..n : e[i] = Json[t.child[i]][d + 1]
  BY JsonPrints
<1>2. Json[t][d] = j
  BY <1>1, JsonPrints, JsonOfTyped
<1>3. n \in Nat /\ DOMAIN t.child = 1..n /\ (t.child = <<>>) = (n = 0)
  BY PartsAre
<1>4. JsonRoom(t, d) = IF t.child = <<>> THEN 3 ELSE 5 + Total[s]
  BY <1>3 DEF JsonRoom, JsonArrayRoom
<1>5. \A i \in 1..n : Len(e[i]) \in Nat /\ s[i] = Len(e[i]) + 3
  <2> TAKE i \in 1..n
  <2>1. Len(e[i]) \in Nat
    BY <1>1, EntriesAre
  <2>2. s[i] = Len(e[i]) + 2 + 1
    BY <1>1
  <2> DEFINE x == Len(e[i])
  <2>3. x \in Nat /\ s[i] = x + 2 + 1
    BY <2>1, <2>2
  <2> HIDE DEF x, e, s
  <2>4. s[i] = x + 3
    BY <2>3
  <2> QED BY <2>3, <2>4 DEF x
<1>6. s = [i \in 1..n |-> s[i]]
  OBVIOUS
<1>7. (e = <<>>) = (n = 0)
  BY <1>1, EntriesAre
<1> HIDE DEF e, n, s
<1>8. j \in Texts /\ (n = 0 => Len(j) = 2)
  BY <1>1, <1>7, JsonArrayIs
<1>9. s \in Seq(Nat) /\ Len(s) = n
  BY <1>3, <1>5, <1>6
<1>10. \A i \in 1..Len(e) : Len(e[i]) + 2 <= s[i]
  BY <1>1, <1>5
<1>11. Len(s) = Len(e)
  BY <1>1, <1>9
<1>12. Len(j) <= 2 + Total[s] /\ Total[s] \in Nat /\ Len(j) \in Nat
  BY <1>1, <1>8, <1>9, <1>10, <1>11, JsonArrayIs, TextsAre
<1> HIDE DEF j
<1> DEFINE x == Len(j)
           y == Total[s]
<1>13. /\ JsonRoom(t, d) = (IF n = 0 THEN 3 ELSE 5 + y) /\ (n = 0 => x = 2)
       /\ x <= 2 + y /\ x \in Nat /\ y \in Nat /\ Json[t][d] = j
  BY <1>2, <1>3, <1>4, <1>8, <1>12
<1> HIDE DEF x, y
<1>14. x + 1 <= JsonRoom(t, d)
  BY <1>3, <1>13
<1> QED BY <1>13, <1>14 DEF x

\* print_object fits.
LEMMA JsonObjectFits ==
  ASSUME NEW t \in Trees, t.type = "object", NEW d \in Nat
  PROVE  Len(Json[t][d]) + 1 <= JsonRoom(t, d)
<1> DEFINE e == Below(Json, t, d)
           n == Len(t.child)
           q(i) == Len(PrintString(<<t.child[i].name>>))
           s == [i \in 1..n |-> Len(Json[t.child[i]][d + 1]) + q(i) + 2 + 2 + d + 1]
           names == NamesOf(t)
           j == JsonObject(names, e, d)
<1>1. e \in Entries /\ Len(e) = n /\ \A i \in 1..n : e[i] = Json[t.child[i]][d + 1]
  BY JsonPrints
<1>2. Json[t][d] = j
  BY <1>1, JsonPrints, JsonOfTyped
<1>3. n \in Nat /\ DOMAIN t.child = 1..n /\ (t.child = <<>>) = (n = 0)
  BY PartsAre
<1>4. JsonRoom(t, d) = IF t.child = <<>> THEN d + 4 ELSE 7 + d + 1 + Total[s]
  BY <1>3 DEF JsonRoom, JsonObjectRoom
<1>5. names \in Seq(Symbols) /\ Len(names) = n
  BY NamesAre
<1>6. ASSUME NEW i \in 1..n
      PROVE  /\ Len(e[i]) \in Nat /\ q(i) \in Nat /\ q(i) = Len(PrintString(<<names[i]>>))
             /\ s[i] = Len(e[i]) + q(i) + 2 + 2 + d + 1 /\ s[i] \in Nat
  <2>1. Len(e[i]) \in Nat /\ e[i] \in Texts
    BY <1>1, EntriesAre
  <2>2. names[i] = t.child[i].name /\ names[i] \in Symbols
    BY <1>5, NamesAre
  <2>3. q(i) \in Nat
    BY <2>1, <2>2, JsonMemberIs
  <2>4. s[i] = Len(e[i]) + q(i) + 2 + 2 + d + 1
    BY <1>1
  <2> DEFINE x == Len(e[i])
             y == q(i)
  <2>5. x \in Nat /\ y \in Nat
    BY <2>1, <2>3
  <2> HIDE DEF x, y
  <2>6. x + y + 2 + 2 + d + 1 \in Nat
    BY <2>5
  <2> QED BY <2>1, <2>2, <2>3, <2>4, <2>6 DEF x, y
<1>7. s = [i \in 1..n |-> s[i]]
  OBVIOUS
<1>8. (e = <<>>) = (n = 0)
  BY <1>1, EntriesAre
<1> HIDE DEF e, n, s, q, names
<1>9. j \in Texts /\ (n = 0 => Len(j) <= 3 + d)
  BY <1>1, <1>5, <1>8, JsonObjectIs
<1>10. s \in Seq(Nat) /\ Len(s) = n
  <2>1. \A i \in 1..n : s[i] \in Nat
    BY <1>6
  <2> QED BY <1>3, <1>7, <2>1
<1>11. \A i \in 1..Len(e) : Len(e[i]) + Len(PrintString(<<names[i]>>)) + 2 + 2 + d + 1 <= s[i]
  <2> TAKE i \in 1..Len(e)
  <2>1. s[i] = Len(e[i]) + Len(PrintString(<<names[i]>>)) + 2 + 2 + d + 1 /\ s[i] \in Nat
    BY <1>1, <1>6
  <2> QED BY <2>1
<1>12. Len(s) = Len(e) /\ Len(names) = Len(e)
  BY <1>1, <1>5, <1>10
<1>13. Len(j) <= 3 + d + Total[s] /\ Total[s] \in Nat
  BY <1>1, <1>5, <1>10, <1>11, <1>12, JsonObjectIs
<1>14. Len(j) \in Nat
  BY <1>9, TextsAre
<1> HIDE DEF j
<1> QED BY <1>2, <1>3, <1>4, <1>9, <1>13, <1>14

\* Every item is printed as JSON into its memory.
LEMMA JsonFits ==
  ASSUME NEW t \in Trees, NEW d \in Nat
  PROVE  Len(Json[t][d]) + 1 <= JsonRoom(t, d)
<1> DEFINE e == Below(Json, t, d)
<1>1. e \in Entries /\ Len(e) = Len(t.child) /\ Json[t][d] = JsonOf(t, e, d)
  BY JsonPrints
<1> HIDE DEF e
<1>2. CASE t.type = "string"
  <2>1. Json[t][d] = PrintString(t.text) /\ JsonRoom(t, d) = StringRoom(t.text) /\ t.text \in Texts
    BY <1>1, <1>2, JsonOfTyped, PartsAre DEF JsonRoom
  <2> DEFINE x == t.text
  <2>2. x \in Texts /\ Json[t][d] = PrintString(x) /\ JsonRoom(t, d) = StringRoom(x)
    BY <2>1
  <2> HIDE DEF x
  <2>3. Len(PrintString(x)) + 1 = StringRoom(x) /\ PrintString(x) \in Texts
    BY <2>2, PrintStringIs
  <2>4. Len(PrintString(x)) \in Nat
    BY <2>3, TextsAre
  <2> QED BY <2>2, <2>3, <2>4
<1>3. CASE t.type = "number"
  <2>1. Json[t][d] = t.text /\ JsonRoom(t, d) = 21 /\ \E n \in Numerals : t.text = <<n>>
    BY <1>1, <1>3, JsonOfTyped, PartsAre DEF JsonRoom
  <2>2. Len(t.text) = 1
    BY <2>1
  <2> QED BY <2>1, <2>2
<1>4. CASE t.type = "binary"
  <2>1. /\ Json[t][d] = PrintString(Encode(t.data)) /\ JsonRoom(t, d) = StringRoom(Encode(t.data))
        /\ t.data \in Seq(Byte)
    BY <1>1, <1>4, JsonOfTyped, PartsAre DEF JsonRoom
  <2> DEFINE x == Encode(t.data)
  <2>2. x \in Texts /\ Json[t][d] = PrintString(x) /\ JsonRoom(t, d) = StringRoom(x)
    BY <2>1, EncodeIs
  <2> HIDE DEF x
  <2>3. Len(PrintString(x)) + 1 = StringRoom(x) /\ PrintString(x) \in Texts
    BY <2>2, PrintStringIs
  <2>4. Len(PrintString(x)) \in Nat
    BY <2>3, TextsAre
  <2> QED BY <2>2, <2>3, <2>4
<1>5. CASE t.type \in {"true", "false"}
  <2>1. Json[t][d] = Keyword[t.type] /\ JsonRoom(t, d) = Len(Keyword[t.type]) + 1
    BY <1>1, <1>5, JsonOfTyped DEF JsonRoom
  <2>2. Len(Keyword[t.type]) = 1
    BY <1>5, KeywordsAre
  <2> QED BY <2>1, <2>2
<1> QED BY <1>2, <1>3, <1>4, <1>5, JsonArrayFits, JsonObjectFits, PartsAre

\* print_array of cYAML fits below the root.
LEMMA YamlArrayFits ==
  ASSUME NEW t \in Trees, t.type = "array", NEW d \in Nat \ {0}
  PROVE  Len(Yaml[t][d]) + 1 <= YamlRoom(t, d)
<1> DEFINE e == Below(Yaml, t, d)
           n == Len(t.child)
           s == [i \in 1..n |-> Len(Yaml[t.child[i]][d + 1]) + 2 + 3 * d]
           j == YamlArray(e, d)
<1>1. e \in Entries /\ Len(e) = n /\ \A i \in 1..n : e[i] = Yaml[t.child[i]][d + 1]
  BY YamlPrints
<1>2. Yaml[t][d] = j
  BY <1>1, YamlPrints, YamlOfTyped
<1>3. n \in Nat /\ DOMAIN t.child = 1..n /\ (t.child = <<>>) = (n = 0)
  BY PartsAre
<1>4. YamlRoom(t, d) = IF t.child = <<>> THEN 3 ELSE 5 + Total[s]
  BY <1>3 DEF YamlRoom, YamlArrayRoom
<1>5. \A i \in 1..n : Len(e[i]) \in Nat /\ s[i] \in Nat /\ Len(e[i]) + 3 + 2 * d <= s[i]
  <2> TAKE i \in 1..n
  <2>1. Len(e[i]) \in Nat
    BY <1>1, EntriesAre
  <2>2. s[i] = Len(e[i]) + 2 + 3 * d
    BY <1>1
  <2> DEFINE x == Len(e[i])
  <2>3. x \in Nat /\ s[i] = x + 2 + 3 * d
    BY <2>1, <2>2
  <2> HIDE DEF x, e, s
  <2>4. s[i] \in Nat /\ x + 3 + 2 * d <= s[i]
    BY <2>3
  <2> QED BY <2>3, <2>4 DEF x
<1>6. s = [i \in 1..n |-> s[i]]
  OBVIOUS
<1>7. (e = <<>>) = (n = 0)
  BY <1>1, EntriesAre
<1> HIDE DEF e, n, s
<1>8. j \in Texts /\ (n = 0 => Len(j) = 2)
  BY <1>1, <1>7, YamlArrayIs
<1>9. s \in Seq(Nat) /\ Len(s) = n
  <2>1. \A i \in 1..n : s[i] \in Nat
    BY <1>5
  <2> QED BY <1>3, <1>6, <2>1
<1>10. \A i \in 1..Len(e) : Len(e[i]) + 3 + 2 * d <= s[i]
  BY <1>1, <1>5
<1>11. Len(s) = Len(e)
  BY <1>1, <1>9
<1>12. n # 0 => Len(j) <= Total[s] /\ Total[s] \in Nat
  BY <1>1, <1>7, <1>9, <1>10, <1>11, YamlArrayIs
<1>13. Len(j) \in Nat
  BY <1>8, TextsAre
<1> HIDE DEF j
<1> DEFINE x == Len(j)
           y == Total[s]
<1>14. /\ YamlRoom(t, d) = (IF n = 0 THEN 3 ELSE 5 + y) /\ (n = 0 => x = 2)
       /\ (n # 0 => x <= y /\ y \in Nat) /\ x \in Nat /\ Yaml[t][d] = j
  BY <1>2, <1>3, <1>4, <1>8, <1>12, <1>13
<1> HIDE DEF x, y
<1>15. x + 1 <= YamlRoom(t, d)
  BY <1>3, <1>14
<1> QED BY <1>14, <1>15 DEF x

\* print_object of cYAML fits.
LEMMA YamlObjectFits ==
  ASSUME NEW t \in Trees, t.type = "object", NEW d \in Nat
  PROVE  Len(Yaml[t][d]) + 1 <= YamlRoom(t, d)
<1> DEFINE e == Below(Yaml, t, d)
           n == Len(t.child)
           s == [i \in 1..n |-> Len(Yaml[t.child[i]][d + 1]) + Len(<<t.child[i].name>>)
                                + 2 + 3 * (d + 1)]
           names == NamesOf(t)
           j == YamlObject(names, e, d)
<1>1. e \in Entries /\ Len(e) = n /\ \A i \in 1..n : e[i] = Yaml[t.child[i]][d + 1]
  BY YamlPrints
<1>2. Yaml[t][d] = j
  BY <1>1, YamlPrints, YamlOfTyped
<1>3. n \in Nat /\ DOMAIN t.child = 1..n /\ (t.child = <<>>) = (n = 0)
  BY PartsAre
<1>4. YamlRoom(t, d) = IF t.child = <<>> THEN 3 * d + 4 ELSE 7 + d + 1 + Total[s]
  BY <1>3 DEF YamlRoom, YamlObjectRoom
<1>5. names \in Seq(Symbols) /\ Len(names) = n
  BY NamesAre
<1>6. ASSUME NEW i \in 1..n
      PROVE  Len(e[i]) \in Nat /\ s[i] \in Nat /\ Len(e[i]) + 4 + 2 * d <= s[i]
  <2>1. Len(e[i]) \in Nat
    BY <1>1, EntriesAre
  <2>2. s[i] = Len(e[i]) + 1 + 2 + 3 * (d + 1)
    <3>1. Len(<<t.child[i].name>>) = 1
      OBVIOUS
    <3> QED BY <1>1, <3>1
  <2> DEFINE x == Len(e[i])
  <2>3. x \in Nat /\ s[i] = x + 1 + 2 + 3 * (d + 1)
    BY <2>1, <2>2
  <2> HIDE DEF x, e, s
  <2>4. s[i] \in Nat /\ x + 4 + 2 * d <= s[i]
    BY <2>3
  <2> QED BY <2>3, <2>4 DEF x
<1>7. s = [i \in 1..n |-> s[i]]
  OBVIOUS
<1>8. (e = <<>>) = (n = 0)
  BY <1>1, EntriesAre
<1> HIDE DEF e, n, s, names
<1>9. j \in Texts /\ (n = 0 => Len(j) <= 2 * d)
  BY <1>1, <1>5, <1>8, YamlObjectIs
<1>10. s \in Seq(Nat) /\ Len(s) = n
  <2>1. \A i \in 1..n : s[i] \in Nat
    BY <1>6
  <2> QED BY <1>3, <1>7, <2>1
<1>11. \A i \in 1..Len(e) : Len(e[i]) + 4 + 2 * d <= s[i]
  BY <1>1, <1>6
<1>12. Len(s) = Len(e) /\ Len(names) = Len(e)
  BY <1>1, <1>5, <1>10
<1>13. n # 0 => Len(j) <= 1 + Total[s] /\ Total[s] \in Nat
  BY <1>1, <1>5, <1>8, <1>10, <1>11, <1>12, YamlObjectIs
<1>14. Len(j) \in Nat
  BY <1>9, TextsAre
<1> HIDE DEF j
<1> DEFINE x == Len(j)
           y == Total[s]
<1>15. /\ YamlRoom(t, d) = (IF n = 0 THEN 3 * d + 4 ELSE 7 + d + 1 + y) /\ (n = 0 => x <= 2 * d)
       /\ (n # 0 => x <= 1 + y /\ y \in Nat) /\ x \in Nat /\ Yaml[t][d] = j
  BY <1>2, <1>3, <1>4, <1>9, <1>13, <1>14
<1> HIDE DEF x, y
<1>16. x + 1 <= YamlRoom(t, d)
  BY <1>3, <1>15
<1> QED BY <1>15, <1>16 DEF x

\* Every item but an array at the root is printed as YAML into its memory.
LEMMA YamlFits ==
  ASSUME NEW t \in Trees, NEW d \in Nat, t.type = "array" => d # 0
  PROVE  Len(Yaml[t][d]) + 1 <= YamlRoom(t, d)
<1> DEFINE e == Below(Yaml, t, d)
<1>1. e \in Entries /\ Len(e) = Len(t.child) /\ Yaml[t][d] = YamlOf(t, e, d)
  BY YamlPrints
<1> HIDE DEF e
<1>2. CASE t.type = "string"
  <2>1. Yaml[t][d] = YamlString(t.text) /\ YamlRoom(t, d) = StringRoom(t.text) /\ t.text \in Texts
    BY <1>1, <1>2, YamlOfTyped, PartsAre DEF YamlRoom
  <2> DEFINE x == t.text
             p == PrintString(x)
  <2>2. x \in Texts /\ YamlRoom(t, d) = StringRoom(x) /\ (Yaml[t][d] = x \/ Yaml[t][d] = p)
    BY <2>1 DEF YamlString
  <2> HIDE DEF x
  <2>3. Len(p) + 1 = StringRoom(x) /\ p \in Texts /\ Len(x) + 3 <= StringRoom(x)
    BY <2>2, PrintStringIs
  <2>4. Len(p) \in Nat /\ Len(x) \in Nat
    BY <2>2, <2>3, TextsAre
  <2> DEFINE a == Len(p)
             b == Len(x)
  <2>5. /\ YamlRoom(t, d) = a + 1 /\ b + 3 <= a + 1 /\ a \in Nat /\ b \in Nat
        /\ (Len(Yaml[t][d]) = a \/ Len(Yaml[t][d]) = b)
    BY <2>2, <2>3, <2>4
  <2> HIDE DEF a, b
  <2> QED BY <2>5
<1>3. CASE t.type = "number"
  <2>1. Yaml[t][d] = t.text /\ YamlRoom(t, d) = 21 /\ \E n \in Numerals : t.text = <<n>>
    BY <1>1, <1>3, YamlOfTyped, PartsAre DEF YamlRoom
  <2>2. Len(t.text) = 1
    BY <2>1
  <2> QED BY <2>1, <2>2
<1>4. CASE t.type = "binary"
  <2>1. /\ Yaml[t][d] = YamlBinary(t.data, d) /\ t.data \in Seq(Byte)
        /\ YamlRoom(t, d) = BinaryRoom(EncodedLength(Len(t.data)), d)
    BY <1>1, <1>4, YamlOfTyped, PartsAre DEF YamlRoom
  <2> QED BY <2>1, YamlBinaryIs
<1>5. CASE t.type \in {"true", "false"}
  <2>1. Yaml[t][d] = Keyword[t.type] /\ YamlRoom(t, d) = Len(Keyword[t.type]) + 1
    BY <1>1, <1>5, YamlOfTyped DEF YamlRoom
  <2>2. Len(Keyword[t.type]) = 1
    BY <1>5, KeywordsAre
  <2> QED BY <2>1, <2>2
<1>6. CASE t.type = "array"
  BY <1>6, YamlArrayFits
<1> QED BY <1>2, <1>3, <1>4, <1>5, <1>6, YamlObjectFits, PartsAre

\* An object and everything in it is printed into its memory in both formats.
LEMMA ObjectFits ==
  ASSUME NEW t \in Trees, t.type = "object", NEW x \in Within[t][0]
  PROVE  /\ Len(Json[x[1]][x[2]]) + 1 <= JsonRoom(x[1], x[2])
         /\ Len(Yaml[x[1]][x[2]]) + 1 <= YamlRoom(x[1], x[2])
<1>1. x[1] \in Trees /\ x[2] \in Nat /\ (x = <<t, 0>> \/ x[2] > 0)
  BY WithinAre
<1>2. x[1].type = "array" => x[2] # 0
  <2>1. CASE x = <<t, 0>>
    <3>1. x[1].type = "object"
      BY <2>1
    <3> QED BY <3>1
  <2> QED BY <1>1, <2>1
<1> QED BY <1>1, <1>2, JsonFits, YamlFits

(***************************************************************************)
(* The trees the handlers build.                                           *)
(***************************************************************************)
\* The items without items,
Leaves == Tree[0]

\* and lists of them.
Members == Seq(Leaves)

\* The leaves.
LEMMA LeavesAre ==
  /\ \A c \in Symbols, s \in Texts : AddString(c, s) \in Leaves
  /\ \A c \in Symbols, n \in Numerals : AddNumber(c, n) \in Leaves
  /\ \A c \in Symbols, b \in BOOLEAN : AddBool(c, b) \in Leaves
  /\ \A c \in Symbols, d \in Seq(Byte) : AddBinary(c, d) \in Leaves
  /\ \A s \in Texts : CreateString(s) \in Leaves /\ CreateString(s).name = NoName
<1>1. Leaves = Grown({})
  BY TreeIs DEF Leaves
<1>2. ASSUME NEW c \in Symbols, NEW s \in Texts PROVE AddString(c, s) \in Grown({})
  <2>1. AddString(c, s) =
          [type |-> "string", name |-> c, text |-> s, data |-> <<>>, child |-> <<>>]
    <3>1. CreateString(s) =
            [type |-> "string", name |-> NoName, text |-> s, data |-> <<>>, child |-> <<>>]
      BY DEF CreateString, Item
    <3>2. AddString(c, s) = [CreateString(s) EXCEPT !.name = c]
      BY DEF AddString, Named
    <3> QED BY <3>1, <3>2
  <2> QED BY <2>1 DEF Grown, Nodes
<1>3. ASSUME NEW c \in Symbols, NEW n \in Numerals PROVE AddNumber(c, n) \in Grown({})
  <2>1. AddNumber(c, n) =
          [type |-> "number", name |-> c, text |-> <<n>>, data |-> <<>>, child |-> <<>>]
    <3>1. CreateNumber(n) =
            [type |-> "number", name |-> NoName, text |-> <<n>>, data |-> <<>>, child |-> <<>>]
      BY DEF CreateNumber, Item
    <3>2. AddNumber(c, n) = [CreateNumber(n) EXCEPT !.name = c]
      BY DEF AddNumber, Named
    <3> QED BY <3>1, <3>2
  <2> QED BY <2>1 DEF Grown, Nodes
<1>4. ASSUME NEW c \in Symbols, NEW b \in BOOLEAN PROVE AddBool(c, b) \in Grown({})
  <2>1. \E t \in {"true", "false"} :
          AddBool(c, b) = [type |-> t, name |-> c, text |-> <<>>, data |-> <<>>, child |-> <<>>]
    BY DEF AddBool, Named, CreateBool, Item
  <2> QED BY <2>1 DEF Grown, Nodes
<1>5. ASSUME NEW c \in Symbols, NEW d \in Seq(Byte) PROVE AddBinary(c, d) \in Grown({})
  <2>1. AddBinary(c, d) =
          [type |-> "binary", name |-> c, text |-> <<>>, data |-> d, child |-> <<>>]
    <3>1. CreateBinary(d) =
            [type |-> "binary", name |-> NoName, text |-> <<>>, data |-> d, child |-> <<>>]
      BY DEF CreateBinary, Item
    <3>2. AddBinary(c, d) = [CreateBinary(d) EXCEPT !.name = c]
      BY DEF AddBinary, Named
    <3> QED BY <3>1, <3>2
  <2> QED BY <2>1 DEF Grown, Nodes
<1>6. ASSUME NEW s \in Texts PROVE CreateString(s) \in Grown({}) /\ CreateString(s).name = NoName
  <2>1. CreateString(s) =
          [type |-> "string", name |-> NoName, text |-> s, data |-> <<>>, child |-> <<>>]
    BY DEF CreateString, Item
  <2>2. NoName \in Symbols
    BY SymbolsAre
  <2> QED BY <2>1, <2>2 DEF Grown, Nodes
<1> QED BY <1>1, <1>2, <1>3, <1>4, <1>5, <1>6

\* A level holds what is made of the one below.
LEMMA NodesAre ==
  ASSUME NEW n \in Nat
  PROVE  /\ \A m \in Seq(Tree[n]) : /\ CreateObject(m) \in Tree[n + 1]
                                    /\ CreateObject(m).name = NoName
                                    /\ CreateObject(m).type = "object"
         /\ \A m \in Seq(Unnamed(Tree[n])) : CreateArray(m) \in Tree[n + 1]
<1>1. Tree[n + 1] = Grown(Tree[n])
  <2>1. n + 1 \in Nat /\ n + 1 # 0 /\ (n + 1) - 1 = n
    OBVIOUS
  <2> QED BY <2>1, TreeIs
<1>2. NoName \in Symbols
  BY SymbolsAre
<1> DEFINE B == Tree[n]
<1>3. ASSUME NEW m \in Seq(B)
      PROVE  /\ CreateObject(m) \in Grown(B) /\ CreateObject(m).name = NoName
             /\ CreateObject(m).type = "object"
  <2>1. CreateObject(m) =
          [type |-> "object", name |-> NoName, text |-> <<>>, data |-> <<>>, child |-> m]
    BY DEF CreateObject, Item
  <2> HIDE DEF B
  <2> QED BY <1>2, <2>1 DEF Grown, Nodes
<1>4. ASSUME NEW m \in Seq(Unnamed(B)) PROVE CreateArray(m) \in Grown(B)
  <2>1. CreateArray(m) =
          [type |-> "array", name |-> NoName, text |-> <<>>, data |-> <<>>, child |-> m]
    BY DEF CreateArray, Item
  <2> HIDE DEF B
  <2> QED BY <1>2, <2>1 DEF Grown, Nodes
<1> QED BY <1>1, <1>3, <1>4

\* An item with another name is on the same level.
LEMMA NamedIs ==
  ASSUME NEW n \in Nat, NEW t \in Tree[n], NEW c \in Symbols
  PROVE  Named(c, t) \in Tree[n]
<1> DEFINE B == IF n = 0 THEN {} ELSE Tree[n - 1]
           u == Named(c, t)
<1>1. IsTree(t, B)
  BY TreeOf
<1>2. Tree[n] = Grown(B)
  BY TreeIs
<1> HIDE DEF B
<1>3. t = [type |-> t.type, name |-> t.name, text |-> t.text, data |-> t.data, child |-> t.child]
  BY <1>1 DEF IsTree
<1>4. u = [type |-> t.type, name |-> c, text |-> t.text, data |-> t.data, child |-> t.child]
  BY <1>3 DEF Named
<1> HIDE DEF u
<1>5. /\ u.type = t.type /\ u.name = c /\ u.text = t.text /\ u.data = t.data
      /\ u.child = t.child
      /\ u = [type |-> u.type, name |-> u.name, text |-> u.text, data |-> u.data,
              child |-> u.child]
  BY <1>4
<1>6. IsTree(u, B)
  BY <1>1, <1>5 DEF IsTree
<1> QED BY <1>2, <1>6, GrownIs DEF u

\* The items of a list that is built from another, and an object of them.
LEMMA ArrayIs ==
  ASSUME NEW n \in Nat, NEW k \in Nat, NEW e, e = [i \in 1..k |-> e[i]],
         \A i \in 1..k : e[i] \in Tree[n] /\ e[i].name = NoName
  PROVE  e \in Seq(Tree[n]) /\ CreateArray(e) \in Tree[n + 1]
<1>1. \A i \in 1..k : e[i] \in Unnamed(Tree[n])
  BY DEF Unnamed
<1>2. e \in Seq(Tree[n]) /\ e \in Seq(Unnamed(Tree[n]))
  BY <1>1
<1> QED BY <1>2, NodesAre

\* A list of members behind another is one.
LEMMA MembersAre ==
  /\ <<>> \in Members
  /\ \A t \in Leaves : <<t>> \in Members
  /\ \A a \in Members, b \in Members : Cat(a, b) \in Members
<1>1. <<>> \in Members /\ \A t \in Leaves : <<t>> \in Members
  BY DEF Members
<1> QED BY <1>1, CatTyped DEF Members

\* A string that may be missing.
LEMMA OptionalIs ==
  ASSUME NEW c \in Symbols, NEW s \in MaybeText
  PROVE  /\ Optional(c, s) \in Members
         /\ \A u \in Texts : Or(s, u) \in Texts
<1>1. s = None \/ s \in Texts
  BY DEF MaybeText
<1>2. s \in Texts => AddString(c, s) \in Leaves
  BY LeavesAre
<1> QED BY <1>1, <1>2, MembersAre DEF Optional, Or

\* A text of one word.
LEMMA TextIs == \A w \in Symbols : Text(w) \in Texts
BY Written DEF Text

\* A number that is counted.
LEMMA NumeralIs == \A n \in 0..MaxCount : Numeral(n) \in Numerals
BY AnswerConstants DEF Numeral

\* game_to_cJSON
LEMMA GameMembers ==
  ASSUME NEW g \in Games
  PROVE  GameToCJSON(g) \in Members
<1>1. IsGame(g)
  BY AnswerConstants
<1>2. /\ g.id \in Texts /\ g.type \in Texts /\ g.moves \in Numerals /\ g.final \in Numerals
      /\ g.continues \in BOOLEAN
      /\ g.color \in MaybeText /\ g.state \in MaybeText /\ g.notation \in MaybeText
      /\ g.targets \in MaybeText
  BY <1>1 DEF IsGame
<1>3. {"game_id", "tipo_juego", "color", "cantidad_movidas", "final_estado",
       "descripcion_estado", "es_continuacion", "ultima_jugada", "ultimos_destino", "-"}
      \subseteq Symbols
  BY AnswerWords
<1>4. Text("-") \in Texts
  BY <1>3, TextIs
<1> DEFINE a == AddString("game_id", g.id)
           b == AddString("tipo_juego", g.type)
           c == AddString("color", Or(g.color, Text("-")))
           d == AddNumber("cantidad_movidas", g.moves)
           e == AddNumber("final_estado", g.final)
           f == AddString("descripcion_estado", Or(g.state, Text("-")))
           h == AddBool("es_continuacion", g.continues)
           y == Optional("ultima_jugada", g.notation)
           z == Optional("ultimos_destino", g.targets)
<1>5. GameToCJSON(g) = Cat(Cat(<<a, b, c, d, e, f, h>>, y), z)
  BY DEF GameToCJSON, Cat
<1>6. Or(g.color, Text("-")) \in Texts /\ Or(g.state, Text("-")) \in Texts
  BY <1>2, <1>3, <1>4, OptionalIs
<1>7. y \in Members /\ z \in Members
  BY <1>2, <1>3, OptionalIs
<1>8. a \in Leaves /\ b \in Leaves /\ c \in Leaves /\ d \in Leaves /\ e \in Leaves
      /\ f \in Leaves /\ h \in Leaves
  BY <1>2, <1>3, <1>6, LeavesAre
<1> HIDE DEF a, b, c, d, e, f, h, y, z
<1>9. <<a, b, c, d, e, f, h>> \in Members
  BY <1>8 DEF Members
<1>10. Cat(<<a, b, c, d, e, f, h>>, y) \in Members
  BY <1>7, <1>9, MembersAre
<1> QED BY <1>5, <1>7, <1>10, MembersAre

\* Short lists.
LEMMA ShortLists ==
  ASSUME NEW S
  PROVE  /\ <<>> \in Seq(S)
         /\ \A a \in S : <<a>> \in Seq(S)
         /\ \A a \in S, b \in S : <<a, b>> \in Seq(S)
         /\ \A a \in S, b \in S, c \in S : <<a, b, c>> \in Seq(S)
OBVIOUS

\* Lists of items up to a level.
Row(n) == Seq(Tree[n])

\* What a row may be built of, and an object of a row.
LEMMA RowsAre ==
  ASSUME NEW n \in Nat
  PROVE  /\ <<>> \in Row(n)
         /\ \A t \in Tree[n] : <<t>> \in Row(n)
         /\ \A t \in Tree[n], u \in Tree[n] : <<t, u>> \in Row(n)
         /\ \A t \in Tree[n], u \in Tree[n], v \in Tree[n] : <<t, u, v>> \in Row(n)
         /\ \A a \in Row(n), b \in Row(n) : Cat(a, b) \in Row(n)
         /\ Members \subseteq Row(n) /\ Leaves \subseteq Tree[n]
         /\ \A m \in Row(n) : /\ CreateObject(m) \in Tree[n + 1]
                              /\ CreateObject(m).name = NoName
                              /\ CreateObject(m).type = "object"
<1>1. /\ <<>> \in Row(n)
      /\ \A t \in Tree[n] : <<t>> \in Row(n)
      /\ \A t \in Tree[n], u \in Tree[n] : <<t, u>> \in Row(n)
      /\ \A t \in Tree[n], u \in Tree[n], v \in Tree[n] : <<t, u, v>> \in Row(n)
  BY ShortLists DEF Row
<1>2. \A a \in Row(n), b \in Row(n) : Cat(a, b) \in Row(n)
  BY CatTyped DEF Row
<1>3. Leaves \subseteq Tree[n]
  BY TreeMonotone DEF Leaves
<1>4. Members \subseteq Row(n)
  BY <1>3, SeqMonotone DEF Members, Row
<1> QED BY <1>1, <1>2, <1>3, <1>4, NodesAre DEF Row

\* A level is in those above.
LEMMA Higher ==
  ASSUME NEW n \in Nat, NEW k \in Nat, k <= n
  PROVE  Tree[k] \subseteq Tree[n] /\ Row(k) \subseteq Row(n)
BY TreeMonotone, SeqMonotone DEF Row

\* An array built from a list.
LEMMA ArrayOf ==
  ASSUME NEW n \in Nat, NEW S, NEW data \in Seq(S), NEW e, e = [i \in DOMAIN data |-> e[i]],
         \A i \in DOMAIN data : e[i] \in Tree[n] /\ e[i].name = NoName
  PROVE  e \in Row(n) /\ CreateArray(e) \in Tree[n + 1]
<1>1. DOMAIN data = 1..Len(data) /\ Len(data) \in Nat
  OBVIOUS
<1>2. e = [i \in 1..Len(data) |-> e[i]] /\ \A i \in 1..Len(data) : e[i] \in Tree[n] /\ e[i].name = NoName
  BY <1>1
<1> QED BY <1>1, <1>2, ArrayIs DEF Row

\* The targets of a move.
LEMMA JoinIs == ASSUME NEW s \in Seq(Texts) PROVE Join(s) \in Texts
<1> DEFINE n == Len(s)
           p == [i \in 1..n |-> IF i = 1 THEN s[i] ELSE Cat(<<Separator>>, s[i])]
<1>1. n \in Nat /\ DOMAIN s = 1..n /\ \A i \in 1..n : s[i] \in Texts
  OBVIOUS
<1>2. Join(s) = FlattenSeq(p)
  BY <1>1 DEF Join, Cat
<1>3. \A i \in 1..n : p[i] \in Texts
  <2> TAKE i \in 1..n
  <2>1. <<Separator>> \in Texts
    BY SymbolsAre, Written
  <2>2. Cat(<<Separator>>, s[i]) \in Texts
    BY <1>1, <2>1, TextsAre
  <2> QED BY <1>1, <2>2
<1>4. p = [i \in 1..n |-> p[i]]
  OBVIOUS
<1> HIDE DEF p, n
<1> QED BY <1>1, <1>2, <1>3, <1>4, PiecesFit

\* Nor is any other text than theirs in what is kept of them.
LEMMA TargetsAre == ASSUME NEW s \in Seq(Texts) PROVE JoinTargets(s) \in Texts
<1> DEFINE long == {i \in DOMAIN s : Len(s[i]) + 1 > TargetSize} \cup {Len(s) + 1}
           m    == Min(long)
<1>1. long \subseteq 1..(Len(s) + 1) /\ long # {} /\ Len(s) \in Nat
  OBVIOUS
<1> HIDE DEF long
<1>2. m \in long
  <2>1. \E x \in long : \A y \in long : x <= y
    BY <1>1, LeastNat
  <2> QED BY <2>1 DEF Min
<1> HIDE DEF m
<1>3. m - 1 \in 0..Len(s)
  BY <1>1, <1>2
<1> DEFINE z == SubSeq(s, 1, m - 1)
<1>4. z \in Seq(Texts)
  BY <1>3
<1>5. JoinTargets(s) = Join(z)
  BY DEF JoinTargets, long, m
<1> HIDE DEF z
<1> QED BY <1>4, <1>5, JoinIs

\* game_to_cJSON with a Partida
LEMMA PartidaMembers ==
  ASSUME NEW g \in Games, NEW p \in Boards
  PROVE  PartidaToCJSON(g, p) \in Members
<1>1. g.id \in Texts /\ g.type \in Texts
  BY AnswerConstants DEF IsGame
<1>2. /\ p.color \in Texts /\ p.history \in Lists(Moves) /\ p.result \in MaybeText
      /\ p.continues \in BOOLEAN /\ p.targets \in Seq(Texts)
  BY DEF Boards
<1>3. {"game_id", "tipo_juego", "color", "cantidad_movidas", "descripcion_estado",
       "es_continuacion", "ultimos_destino", "Jugando"} \subseteq Symbols
  BY AnswerWords
<1>4. Text("Jugando") \in Texts
  BY <1>3, TextIs
<1>5. Numeral(Len(p.history)) \in Numerals
  <2>1. Len(p.history) \in 0..MaxCount
    BY <1>2, AnswerConstants DEF Lists
  <2> QED BY <2>1, NumeralIs
<1> DEFINE a == AddString("game_id", g.id)
           b == AddString("tipo_juego", g.type)
           c == AddString("color", p.color)
           d == AddNumber("cantidad_movidas", Numeral(Len(p.history)))
           e == AddString("descripcion_estado", Or(p.result, Text("Jugando")))
           f == AddBool("es_continuacion", p.continues)
           h == AddString("ultimos_destino", JoinTargets(p.targets))
           z == IF p.history = <<>> THEN <<>> ELSE <<h>>
<1>6. PartidaToCJSON(g, p) = Cat(<<a, b, c, d, e, f>>, z)
  BY DEF PartidaToCJSON, Cat
<1>7. Or(p.result, Text("Jugando")) \in Texts /\ JoinTargets(p.targets) \in Texts
  BY <1>2, <1>3, <1>4, OptionalIs, TargetsAre
<1>8. a \in Leaves /\ b \in Leaves /\ c \in Leaves /\ d \in Leaves /\ e \in Leaves
      /\ f \in Leaves /\ h \in Leaves
  BY <1>1, <1>2, <1>3, <1>5, <1>7, LeavesAre
<1> HIDE DEF a, b, c, d, e, f, h
<1>9. <<a, b, c, d, e, f>> \in Members
  BY <1>8 DEF Members
<1>10. z \in Members
  BY <1>8, MembersAre
<1> QED BY <1>6, <1>9, <1>10, MembersAre

\* Three strings.
LEMMA ThreeStrings ==
  ASSUME NEW a \in Symbols, NEW b \in Symbols, NEW c \in Symbols,
         NEW x \in Texts, NEW y \in Texts, NEW z \in Texts
  PROVE  /\ CreateObject(<<AddString(a, x), AddString(b, y), AddString(c, z)>>) \in Tree[1]
         /\ CreateObject(<<AddString(a, x), AddString(b, y), AddString(c, z)>>).name = NoName
<1> DEFINE s == <<AddString(a, x), AddString(b, y), AddString(c, z)>>
<1>1. AddString(a, x) \in Leaves /\ AddString(b, y) \in Leaves /\ AddString(c, z) \in Leaves
  BY LeavesAre
<1>2. s \in Row(0)
  BY <1>1, RowsAre DEF Leaves
<1> HIDE DEF s
<1>3. 0 + 1 = 1 /\ 0 \in Nat
  OBVIOUS
<1>4. CreateObject(s) \in Tree[0 + 1] /\ CreateObject(s).name = NoName
  BY <1>2, <1>3, RowsAre
<1> QED BY <1>3, <1>4 DEF s

\* A piece on a square.
LEMMA PieceIs ==
  ASSUME NEW x, x.square \in Texts, x.piece \in Texts, x.color \in Texts
  PROVE  Piece(x) \in Tree[1] /\ Piece(x).name = NoName
<1>1. {"casillero", "tipo", "color"} \subseteq Symbols
  BY AnswerWords
<1> QED BY <1>1, ThreeStrings DEF Piece

\* A piece that was captured.
LEMMA CapturedIs ==
  ASSUME NEW x, x.piece \in Texts, x.color \in Texts
  PROVE  Captured(x) \in Tree[1] /\ Captured(x).name = NoName
<1> DEFINE y == [square |-> <<":", "captured">>, piece |-> x.piece, color |-> x.color]
<1>1. {":", "captured"} \subseteq Symbols
  BY AnswerWords
<1>2. <<":", "captured">> \in Texts
  BY <1>1, Written
<1>3. y.square \in Texts /\ y.piece \in Texts /\ y.color \in Texts
  BY <1>2
<1> HIDE DEF y
<1>4. Piece(y) \in Tree[1] /\ Piece(y).name = NoName
  BY <1>3, PieceIs
<1> QED BY <1>4 DEF Captured, y

\* A piece that a move creates.
LEMMA CreatedIs ==
  ASSUME NEW c \in Placed
  PROVE  Created(c) \in Tree[1] /\ Created(c).name = NoName
<1>1. {"pieza", "casillero", "color"} \subseteq Symbols
  BY AnswerWords
<1>2. c.square \in Texts /\ c.piece \in Texts /\ c.color \in Texts
  BY DEF Placed
<1> QED BY <1>1, <1>2, ThreeStrings DEF Created

\* A detail of a move.
LEMMA DetailIs ==
  ASSUME NEW d \in [from : MaybeText, to : MaybeText]
  PROVE  Detail(d) \in Tree[1] /\ Detail(d).name = NoName
<1>1. {"origen", "destino"} \subseteq Symbols
  BY AnswerWords
<1>2. d.from \in MaybeText /\ d.to \in MaybeText
  OBVIOUS
<1>3. Or(d.from, <<>>) \in Texts /\ Or(d.to, <<>>) \in Texts
  BY <1>1, <1>2, OptionalIs, TextsAre
<1> DEFINE a == AddString("origen", Or(d.from, <<>>))
           b == AddString("destino", Or(d.to, <<>>))
           s == <<a, b>>
<1>4. a \in Tree[0] /\ b \in Tree[0]
  BY <1>1, <1>3, LeavesAre DEF Leaves
<1>5. Detail(d) = CreateObject(s)
  BY DEF Detail
<1> HIDE DEF a, b
<1>6. s \in Row(0)
  BY <1>4, RowsAre
<1> HIDE DEF s
<1>7. 0 + 1 = 1 /\ 0 \in Nat
  OBVIOUS
<1>8. CreateObject(s) \in Tree[0 + 1] /\ CreateObject(s).name = NoName
  BY <1>6, <1>7, RowsAre
<1> QED BY <1>5, <1>7, <1>8

\* The parts of a move.
LEMMA DetailsAre ==
  ASSUME NEW l \in Seq([from : MaybeText, to : MaybeText]), NEW i \in DOMAIN l
  PROVE  Detail(l[i]) \in Tree[1] /\ Detail(l[i]).name = NoName
<1> DEFINE S == [from : MaybeText, to : MaybeText]
<1>1. l \in Seq(S)
  OBVIOUS
<1> HIDE DEF S
<1>2. l[i] \in S
  BY <1>1
<1> QED BY <1>2, DetailIs DEF S

\* movida_to_cJSON
LEMMA MovidaIs ==
  ASSUME NEW m \in Moves
  PROVE  MovidaToCJSON(m) \in Tree[3] /\ MovidaToCJSON(m).name = NoName
<1>1. /\ m.number \in Numerals /\ m.text \in Texts /\ m.piece \in Texts /\ m.color \in Texts
      /\ m.capture \in [piece : Texts, square : Texts] \cup {None}
      /\ m.from \in MaybeText /\ m.to \in Texts /\ m.notation \in Texts
      /\ m.becomes \in [piece : Texts, color : Texts] \cup {None}
      /\ m.details \in Seq([from : MaybeText, to : MaybeText]) /\ m.creates \in Seq(Placed)
  BY DEF Moves
<1>2. {"numero", "descripcion", "pieza", "color", "es_captura", "captura", "captura_cas", "origen",
       "destino", "notacion", "transforma_tipo", "transforma_color", "detalle", "crea"}
      \subseteq Symbols
  BY AnswerWords
<1> DEFINE a1 == AddNumber("numero", m.number)
           a2 == AddString("descripcion", m.text)
           a3 == AddString("pieza", m.piece)
           a4 == AddString("color", m.color)
           b1 == AddBool("es_captura", TRUE)
           b2 == AddString("captura", m.capture.piece)
           b3 == AddString("captura_cas", m.capture.square)
           c1 == AddString("origen", Or(m.from, <<>>))
           c2 == AddString("destino", m.to)
           c3 == AddString("notacion", m.notation)
           d1 == AddString("transforma_tipo", m.becomes.piece)
           d2 == AddString("transforma_color", m.becomes.color)
           e1 == Named("detalle", Array(Detail, m.details))
           f1 == Named("crea", Array(Created, m.creates))
           b == IF m.capture = None THEN <<>> ELSE <<b1, b2, b3>>
           d == IF m.becomes = None THEN <<>> ELSE <<d1, d2>>
           e == IF m.details = <<>> THEN <<>> ELSE <<e1>>
           f == IF m.creates = <<>> THEN <<>> ELSE <<f1>>
           c == <<c1, c2, c3>>
           a == <<a1, a2, a3, a4>>
<1>3. MovidaToCJSON(m) = CreateObject(Cat(Cat(Cat(Cat(Cat(a, b), c), d), e), f))
  BY DEF MovidaToCJSON, Cat
<1>4. 2 \in Nat /\ 2 + 1 = 3 /\ 1 + 1 = 2 /\ 1 \in Nat
  OBVIOUS
<1>5. Or(m.from, <<>>) \in Texts
  BY <1>1, <1>2, OptionalIs, TextsAre
<1>6. a \in Row(2)
  <2>1. a1 \in Leaves /\ a2 \in Leaves /\ a3 \in Leaves /\ a4 \in Leaves
    BY <1>1, <1>2, LeavesAre
  <2> HIDE DEF a1, a2, a3, a4
  <2>2. <<a1, a2, a3, a4>> \in Members
    BY <2>1 DEF Members
  <2> QED BY <1>4, <2>2, RowsAre
<1>7. b \in Row(2)
  <2>1. CASE m.capture = None
    BY <1>4, <2>1, RowsAre
  <2>2. CASE m.capture # None
    <3>1. m.capture.piece \in Texts /\ m.capture.square \in Texts
      BY <1>1, <2>2
    <3>2. b1 \in Leaves /\ b2 \in Leaves /\ b3 \in Leaves
      BY <1>2, <3>1, LeavesAre
    <3> HIDE DEF b1, b2, b3
    <3>3. b1 \in Tree[2] /\ b2 \in Tree[2] /\ b3 \in Tree[2]
      BY <1>4, <3>2, RowsAre
    <3>4. <<b1, b2, b3>> \in Row(2)
      BY <1>4, <3>3, RowsAre
    <3> QED BY <2>2, <3>4
  <2> QED BY <2>1, <2>2
<1>8. c \in Row(2)
  <2>1. c1 \in Leaves /\ c2 \in Leaves /\ c3 \in Leaves
    BY <1>1, <1>2, <1>5, LeavesAre
  <2> HIDE DEF c1, c2, c3
  <2>2. c1 \in Tree[2] /\ c2 \in Tree[2] /\ c3 \in Tree[2]
    BY <1>4, <2>1, RowsAre
  <2> QED BY <1>4, <2>2, RowsAre
<1>9. d \in Row(2)
  <2>1. CASE m.becomes = None
    BY <1>4, <2>1, RowsAre
  <2>2. CASE m.becomes # None
    <3>1. m.becomes.piece \in Texts /\ m.becomes.color \in Texts
      BY <1>1, <2>2
    <3>2. d1 \in Leaves /\ d2 \in Leaves
      BY <1>2, <3>1, LeavesAre
    <3> HIDE DEF d1, d2
    <3>3. d1 \in Tree[2] /\ d2 \in Tree[2]
      BY <1>4, <3>2, RowsAre
    <3>4. <<d1, d2>> \in Row(2)
      BY <1>4, <3>3, RowsAre
    <3> QED BY <2>2, <3>4
  <2> QED BY <2>1, <2>2
<1>10. e \in Row(2)
  <2> DEFINE l == m.details
             z == [i \in DOMAIN l |-> Detail(l[i])]
  <2>1. e1 = Named("detalle", CreateArray(z))
    BY DEF Array
  <2>2. \A i \in DOMAIN l : z[i] \in Tree[1] /\ z[i].name = NoName
    <3>1. l \in Seq([from : MaybeText, to : MaybeText])
      BY <1>1
    <3>2. \A i \in DOMAIN l : Detail(l[i]) \in Tree[1] /\ Detail(l[i]).name = NoName
      BY <3>1, DetailsAre
    <3> QED BY <3>2
  <2>3. z = [i \in DOMAIN l |-> z[i]] /\ l \in Seq([from : MaybeText, to : MaybeText])
    BY <1>1
  <2> HIDE DEF z, l
  <2>4. CreateArray(z) \in Tree[1 + 1]
    BY <1>4, <2>2, <2>3, ArrayOf
  <2>5. e1 \in Tree[2]
    BY <1>2, <1>4, <2>1, <2>4, NamedIs
  <2> HIDE DEF e1
  <2> QED BY <1>4, <2>5, RowsAre
<1>11. f \in Row(2)
  <2> DEFINE l == m.creates
             z == [i \in DOMAIN l |-> Created(l[i])]
  <2>1. f1 = Named("crea", CreateArray(z))
    BY DEF Array
  <2>2. \A i \in DOMAIN l : z[i] \in Tree[1] /\ z[i].name = NoName
    BY <1>1, CreatedIs
  <2>3. z = [i \in DOMAIN l |-> z[i]] /\ l \in Seq(Placed)
    BY <1>1
  <2> HIDE DEF z, l
  <2>4. CreateArray(z) \in Tree[1 + 1]
    BY <1>4, <2>2, <2>3, ArrayOf
  <2>5. f1 \in Tree[2]
    BY <1>2, <1>4, <2>1, <2>4, NamedIs
  <2> HIDE DEF f1
  <2> QED BY <1>4, <2>5, RowsAre
<1> HIDE DEF a, b, c, d, e, f
<1> DEFINE x == Cat(Cat(Cat(a, b), c), d)
           y == Cat(Cat(x, e), f)
<1>12. x \in Row(2)
  <2>1. \A u \in Row(2), v \in Row(2) : Cat(u, v) \in Row(2)
    BY <1>4, RowsAre
  <2> QED BY <1>6, <1>7, <1>8, <1>9, <2>1
<1>13. MovidaToCJSON(m) = CreateObject(y)
  BY <1>3
<1> HIDE DEF x
<1>14. y \in Row(2)
  <2>1. \A u \in Row(2), v \in Row(2) : Cat(u, v) \in Row(2)
    BY <1>4, RowsAre
  <2> QED BY <1>10, <1>11, <1>12, <2>1
<1> HIDE DEF y
<1>15. CreateObject(y) \in Tree[2 + 1] /\ CreateObject(y).name = NoName
  BY <1>4, <1>14, RowsAre
<1> QED BY <1>4, <1>13, <1>15

\* An object of a string and of what is there behind it.
LEMMA ColorIs ==
  ASSUME NEW c \in [name : Texts, rotated : BOOLEAN]
  PROVE  Color(c) \in Tree[1] /\ Color(c).name = NoName
<1>1. {"nombre", "rotado"} \subseteq Symbols
  BY AnswerWords
<1>2. c.name \in Texts
  OBVIOUS
<1> DEFINE a == AddString("nombre", c.name)
           b == AddBool("rotado", TRUE)
           z == IF c.rotated THEN <<b>> ELSE <<>>
<1>3. a \in Leaves /\ b \in Leaves
  BY <1>1, <1>2, LeavesAre
<1>4. Color(c) = CreateObject(Cat(<<a>>, z))
  BY DEF Color, Cat
<1> HIDE DEF a, b
<1>5. 0 \in Nat /\ 0 + 1 = 1
  OBVIOUS
<1>6. Cat(<<a>>, z) \in Row(0)
  <2>1. <<a>> \in Members /\ z \in Members
    BY <1>3, MembersAre
  <2> HIDE DEF z
  <2>2. Cat(<<a>>, z) \in Members
    BY <2>1, MembersAre
  <2> QED BY <1>5, <2>2, RowsAre
<1>7. CreateObject(Cat(<<a>>, z)) \in Tree[0 + 1] /\ CreateObject(Cat(<<a>>, z)).name = NoName
  BY <1>5, <1>6, RowsAre
<1> QED BY <1>4, <1>5, <1>7

\* A square of a game type.
LEMMA SquareIs ==
  ASSUME NEW q \in [name : Texts, pos : Lists(Numerals)]
  PROVE  Square(q) \in Tree[1] /\ Square(q).name = NoName
<1>1. "nombre" \in Symbols
  BY AnswerWords
<1> DEFINE l == q.pos
           a == AddString("nombre", q.name)
           z == [i \in DOMAIN l |-> AddNumber(Coords[i - 1], l[i])]
<1>2. q.name \in Texts /\ l \in Seq(Numerals) /\ Len(l) <= MaxCount
  BY DEF Lists
<1>3. a \in Leaves
  BY <1>1, <1>2, LeavesAre
<1>4. Square(q) = CreateObject(Cat(<<a>>, z))
  BY DEF Square, Cat
<1> HIDE DEF a, l
<1>5. DOMAIN l = 1..Len(l) /\ Len(l) \in Nat /\ \A i \in 1..Len(l) : l[i] \in Numerals
  BY <1>2
<1>6. \A i \in 1..Len(l) : i - 1 \in 0..MaxCount
  BY <1>2, <1>5, AnswerConstants
<1>7. \A i \in 1..Len(l) : Coords[i - 1] \in Symbols
  BY <1>6, AnswerConstants
<1>8. \A i \in 1..Len(l) : AddNumber(Coords[i - 1], l[i]) \in Leaves
  BY <1>5, <1>7, LeavesAre
<1>9. z \in Members
  <2>1. z = [i \in 1..Len(l) |-> z[i]] /\ \A i \in 1..Len(l) : z[i] \in Leaves
    BY <1>5, <1>8
  <2> HIDE DEF z
  <2> QED BY <1>5, <2>1 DEF Members
<1> HIDE DEF z
<1>10. 0 \in Nat /\ 0 + 1 = 1
  OBVIOUS
<1>11. Cat(<<a>>, z) \in Row(0)
  <2>1. <<a>> \in Members
    BY <1>3, MembersAre
  <2>2. Cat(<<a>>, z) \in Members
    BY <1>9, <2>1, MembersAre
  <2> QED BY <1>10, <2>2, RowsAre
<1>12. CreateObject(Cat(<<a>>, z)) \in Tree[0 + 1] /\ CreateObject(Cat(<<a>>, z)).name = NoName
  BY <1>10, <1>11, RowsAre
<1> QED BY <1>4, <1>10, <1>12

\* An image and the image of a piece.
LEMMA ImageIs ==
  ASSUME NEW x \in Pictures
  PROVE  Image(x) \in Members
<1>1. {"height", "width", "imagen"} \subseteq Symbols
  BY AnswerWords
<1>2. x.h \in Numerals /\ x.w \in Numerals /\ x.png \in Seq(Byte)
  BY DEF Pictures
<1> DEFINE a == AddNumber("height", x.h)
           b == AddNumber("width", x.w)
           c == AddBinary("imagen", x.png)
<1>3. a \in Leaves /\ b \in Leaves /\ c \in Leaves
  BY <1>1, <1>2, LeavesAre
<1>4. Image(x) = <<a, b, c>>
  BY DEF Image
<1> HIDE DEF a, b, c
<1> QED BY <1>3, <1>4, ShortLists DEF Members

\* The image of a piece.
LEMMA PieceImageIs ==
  ASSUME NEW x \in [piece : Texts, color : Texts, captured : BOOLEAN,
                    h : Numerals, w : Numerals, png : Seq(Byte)]
  PROVE  PieceImage(x) \in Tree[1] /\ PieceImage(x).name = NoName
<1>1. {"tipo_pieza", "color", "height", "width", "imagen", "capturada"} \subseteq Symbols
  BY AnswerWords
<1>2. x.piece \in Texts /\ x.color \in Texts /\ x.h \in Numerals /\ x.w \in Numerals
      /\ x.png \in Seq(Byte)
  OBVIOUS
<1> DEFINE a == AddString("tipo_pieza", x.piece)
           b == AddString("color", x.color)
           c == AddNumber("width", x.w)
           d == AddNumber("height", x.h)
           e == AddBinary("imagen", x.png)
           f == AddBool("capturada", TRUE)
           y == <<a, b, c, d, e>>
           z == IF x.captured THEN <<f>> ELSE <<>>
<1>3. a \in Leaves /\ b \in Leaves /\ c \in Leaves /\ d \in Leaves /\ e \in Leaves /\ f \in Leaves
  BY <1>1, <1>2, LeavesAre
<1>4. PieceImage(x) = CreateObject(Cat(y, z))
  BY DEF PieceImage, Cat
<1> HIDE DEF a, b, c, d, e, f
<1>5. y \in Members
  BY <1>3 DEF Members
<1>6. z \in Members
  BY <1>3, MembersAre
<1> HIDE DEF y, z
<1>7. 0 \in Nat /\ 0 + 1 = 1
  OBVIOUS
<1>8. Cat(y, z) \in Row(0)
  <2>1. Cat(y, z) \in Members
    BY <1>5, <1>6, MembersAre
  <2> QED BY <1>7, <2>1, RowsAre
<1>9. CreateObject(Cat(y, z)) \in Tree[0 + 1] /\ CreateObject(Cat(y, z)).name = NoName
  BY <1>7, <1>8, RowsAre
<1> QED BY <1>4, <1>7, <1>9

\* The colors, the kinds of piece, the squares and the images of a game type.
LEMMA ColorsAre ==
  ASSUME NEW l \in Seq([name : Texts, rotated : BOOLEAN])
  PROVE  Array(Color, l) \in Tree[2]
<1> DEFINE S == [name : Texts, rotated : BOOLEAN]
           z == [i \in DOMAIN l |-> Color(l[i])]
<1>1. Array(Color, l) = CreateArray(z)
  BY DEF Array
<1>2. l \in Seq(S)
  OBVIOUS
<1>3. \A c \in S : Color(c) \in Tree[1] /\ Color(c).name = NoName
  BY ColorIs
<1> HIDE DEF S
<1>4. \A i \in DOMAIN l : z[i] \in Tree[1] /\ z[i].name = NoName
  BY <1>2, <1>3
<1>5. z = [i \in DOMAIN l |-> z[i]] /\ 1 \in Nat /\ 1 + 1 = 2
  OBVIOUS
<1> HIDE DEF z
<1>6. CreateArray(z) \in Tree[1 + 1]
  BY <1>2, <1>4, <1>5, ArrayOf
<1> QED BY <1>1, <1>5, <1>6

\* The names of the kinds of piece.
LEMMA KindsAre ==
  ASSUME NEW l \in Seq(Texts)
  PROVE  Array(CreateString, l) \in Tree[2]
<1> DEFINE z == [i \in DOMAIN l |-> CreateString(l[i])]
<1>1. Array(CreateString, l) = CreateArray(z)
  BY DEF Array
<1>2. \A i \in DOMAIN l : l[i] \in Texts
  OBVIOUS
<1>3. \A i \in DOMAIN l : CreateString(l[i]) \in Tree[0] /\ CreateString(l[i]).name = NoName
  BY <1>2, LeavesAre DEF Leaves
<1>4. \A i \in DOMAIN l : z[i] \in Tree[0] /\ z[i].name = NoName
  BY <1>3
<1>5. z = [i \in DOMAIN l |-> z[i]] /\ 0 \in Nat /\ 0 + 1 = 1 /\ 1 <= 2 /\ 1 \in Nat /\ 2 \in Nat
  OBVIOUS
<1> HIDE DEF z
<1>6. CreateArray(z) \in Tree[0 + 1]
  BY <1>4, <1>5, ArrayOf
<1> QED BY <1>1, <1>5, <1>6, Higher

\* The squares.
LEMMA SquaresAre ==
  ASSUME NEW l \in Seq([name : Texts, pos : Lists(Numerals)])
  PROVE  Array(Square, l) \in Tree[2]
<1> DEFINE S == [name : Texts, pos : Lists(Numerals)]
           z == [i \in DOMAIN l |-> Square(l[i])]
<1>1. Array(Square, l) = CreateArray(z)
  BY DEF Array
<1>2. l \in Seq(S)
  OBVIOUS
<1>3. \A c \in S : Square(c) \in Tree[1] /\ Square(c).name = NoName
  BY SquareIs
<1> HIDE DEF S
<1>4. \A i \in DOMAIN l : z[i] \in Tree[1] /\ z[i].name = NoName
  BY <1>2, <1>3
<1>5. z = [i \in DOMAIN l |-> z[i]] /\ 1 \in Nat /\ 1 + 1 = 2
  OBVIOUS
<1> HIDE DEF z
<1>6. CreateArray(z) \in Tree[1 + 1]
  BY <1>2, <1>4, <1>5, ArrayOf
<1> QED BY <1>1, <1>5, <1>6

\* The images of the pieces.
LEMMA ImagesAre ==
  ASSUME NEW l \in Seq([piece : Texts, color : Texts, captured : BOOLEAN,
                        h : Numerals, w : Numerals, png : Seq(Byte)])
  PROVE  Array(PieceImage, l) \in Tree[2]
<1> DEFINE S == [piece : Texts, color : Texts, captured : BOOLEAN,
                 h : Numerals, w : Numerals, png : Seq(Byte)]
           z == [i \in DOMAIN l |-> PieceImage(l[i])]
<1>1. Array(PieceImage, l) = CreateArray(z)
  BY DEF Array
<1>2. l \in Seq(S)
  OBVIOUS
<1>3. \A c \in S : PieceImage(c) \in Tree[1] /\ PieceImage(c).name = NoName
  BY PieceImageIs
<1> HIDE DEF S
<1>4. \A i \in DOMAIN l : z[i] \in Tree[1] /\ z[i].name = NoName
  BY <1>2, <1>3
<1>5. z = [i \in DOMAIN l |-> z[i]] /\ 1 \in Nat /\ 1 + 1 = 2
  OBVIOUS
<1> HIDE DEF z
<1>6. CreateArray(z) \in Tree[1 + 1]
  BY <1>2, <1>4, <1>5, ArrayOf
<1> QED BY <1>1, <1>5, <1>6

\* An image in an object of its own.
LEMMA PictureIs ==
  ASSUME NEW x \in Pictures, NEW c \in Symbols
  PROVE  Named(c, CreateObject(Image(x))) \in Tree[2]
<1>1. Image(x) \in Row(0)
  <2>1. 0 \in Nat
    OBVIOUS
  <2> QED BY <2>1, ImageIs, RowsAre
<1>2. 0 \in Nat /\ 0 + 1 = 1 /\ 1 <= 2 /\ 1 \in Nat /\ 2 \in Nat
  OBVIOUS
<1>3. CreateObject(Image(x)) \in Tree[0 + 1]
  BY <1>1, <1>2, RowsAre
<1>4. CreateObject(Image(x)) \in Tree[2]
  BY <1>2, <1>3, Higher
<1> QED BY <1>2, <1>4, NamedIs

\* What is listed of a game type.
LEMMA TypeIs ==
  ASSUME NEW t \in Types, NEW detailed \in BOOLEAN
  PROVE  TypeToCJSON(t, detailed) \in Tree[4]
<1>1. /\ t.name \in Symbols
      /\ t.colors \in Seq([name : Texts, rotated : BOOLEAN]) /\ t.pieces \in Seq(Texts)
      /\ t.squares \in Seq([name : Texts, pos : Lists(Numerals)])
      /\ t.board \in Pictures \cup {None} /\ t.logo \in Pictures \cup {None}
      /\ t.images \in Seq([piece : Texts, color : Texts, captured : BOOLEAN,
                           h : Numerals, w : Numerals, png : Seq(Byte)])
  BY DEF Types
<1>2. {"colores", "tipos_pieza", "casilleros", "imagenes", "tablero", "logo", "piezas"}
      \subseteq Symbols
  BY AnswerWords
<1> DEFINE a == Named("colores", Array(Color, t.colors))
           b == Named("tipos_pieza", Array(CreateString, t.pieces))
           c == Named("casilleros", Array(Square, t.squares))
           f == Named("tablero", CreateObject(Image(t.board)))
           g == Named("logo", CreateObject(Image(t.logo)))
           h == Named("piezas", Array(PieceImage, t.images))
           gs == IF t.logo = None THEN <<>> ELSE <<g>>
           ms == Cat(Cat(<<f>>, gs), <<h>>)
           d == Named("imagenes", CreateObject(ms))
           cs == IF ~ detailed THEN <<>> ELSE <<c>>
           ds == IF ~ detailed \/ t.board = None THEN <<>> ELSE <<d>>
           z == Cat(Cat(<<a, b>>, cs), ds)
<1>3. TypeToCJSON(t, detailed) = Named(t.name, CreateObject(z))
  BY DEF TypeToCJSON, Cat
<1>4. 2 \in Nat /\ 3 \in Nat /\ 4 \in Nat /\ 2 + 1 = 3 /\ 3 + 1 = 4 /\ 2 <= 3
  OBVIOUS
<1>5. a \in Tree[2] /\ b \in Tree[2] /\ c \in Tree[2] /\ h \in Tree[2]
  <2>1. /\ Array(Color, t.colors) \in Tree[2] /\ Array(CreateString, t.pieces) \in Tree[2]
        /\ Array(Square, t.squares) \in Tree[2] /\ Array(PieceImage, t.images) \in Tree[2]
    BY <1>1, ColorsAre, KindsAre, SquaresAre, ImagesAre
  <2> QED BY <1>2, <1>4, <2>1, NamedIs
<1>6. a \in Tree[3] /\ b \in Tree[3] /\ c \in Tree[3]
  BY <1>4, <1>5, Higher
<1>7. t.board # None => d \in Tree[3]
  <2> SUFFICES ASSUME t.board # None PROVE d \in Tree[3]
    OBVIOUS
  <2>1. f \in Tree[2]
    BY <1>1, <1>2, PictureIs
  <2>2. t.logo # None => g \in Tree[2]
    BY <1>1, <1>2, PictureIs
  <2> HIDE DEF f, g, h
  <2>3. <<f>> \in Row(2) /\ gs \in Row(2) /\ <<h>> \in Row(2)
    BY <1>4, <1>5, <2>1, <2>2, RowsAre
  <2>4. \A u \in Row(2), v \in Row(2) : Cat(u, v) \in Row(2)
    BY <1>4, RowsAre
  <2> HIDE DEF gs
  <2>5. Cat(<<f>>, gs) \in Row(2)
    BY <2>3, <2>4
  <2>6. ms \in Row(2)
    BY <2>3, <2>4, <2>5
  <2> HIDE DEF ms
  <2>7. CreateObject(ms) \in Tree[2 + 1]
    BY <1>4, <2>6, RowsAre
  <2> QED BY <1>2, <1>4, <2>7, NamedIs
<1> HIDE DEF a, b, c, d
<1>8. <<a, b>> \in Row(3) /\ cs \in Row(3) /\ ds \in Row(3)
  BY <1>4, <1>6, <1>7, RowsAre
<1>9. \A u \in Row(3), v \in Row(3) : Cat(u, v) \in Row(3)
  BY <1>4, RowsAre
<1> HIDE DEF cs, ds
<1>10. Cat(<<a, b>>, cs) \in Row(3)
  BY <1>8, <1>9
<1>11. z \in Row(3)
  BY <1>8, <1>9, <1>10
<1> HIDE DEF z
<1>12. CreateObject(z) \in Tree[3 + 1]
  BY <1>4, <1>11, RowsAre
<1> QED BY <1>1, <1>3, <1>4, <1>12, NamedIs

\* What a handler may answer.
IsAnswer(x) == x \in Trees /\ x.type = "object" /\ x.name = NoName

\* The handlers build objects of lists of items with at most four levels below them.
LEMMA AnswerOf ==
  ASSUME NEW n \in Nat, n <= 4, NEW m \in Row(n)
  PROVE  IsAnswer(CreateObject(m))
<1>1. n + 1 \in Nat /\ MaxDepth \in Nat /\ n + 1 <= MaxDepth
  BY AnswerConstants, JsonConstants
<1>2. CreateObject(m) \in Tree[n + 1] /\ CreateObject(m).type = "object" /\ CreateObject(m).name = NoName
  BY RowsAre
<1>3. Tree[n + 1] \subseteq Tree[MaxDepth]
  BY <1>1, Higher
<1> QED BY <1>2, <1>3 DEF IsAnswer, Trees

\* The members a handler gives to Answer.
LEMMA AnswerIs ==
  ASSUME NEW n \in Nat, n <= 4, NEW m \in Row(n), NEW f, Answer(m, f)
  PROVE  IsAnswer(answer')
<1>1. answer' = CreateObject(m)
  BY DEF Answer
<1> QED BY <1>1, AnswerOf

\* Leaves are on every level.
LEMMA RowOfLeaves ==
  /\ \A a \in Leaves, b \in Leaves : <<a, b>> \in Row(0)
  /\ \A a \in Leaves, b \in Leaves, c \in Leaves : <<a, b, c>> \in Row(0)
  /\ \A m \in Members : m \in Row(0)
BY ShortLists DEF Row, Leaves, Members

\* The session is not in a list: login, logout, ping, the welcome and the help.
LEMMA LoginIs == ASSUME NEW f, Login(f) PROVE IsAnswer(answer')
<1> DEFINE a == AddString("respuesta", Text("OK"))
           b == AddString("sesion", Text("session"))
           c == AddString("version", Text("version"))
           m == <<a, b, c>>
<1>1. {"respuesta", "sesion", "version", "OK", "session"} \subseteq Symbols
  BY AnswerWords
<1>2. a \in Leaves /\ b \in Leaves /\ c \in Leaves
  BY <1>1, TextIs, LeavesAre
<1>3. Answer(m, f)
  BY DEF Login
<1> HIDE DEF a, b, c
<1>4. m \in Row(0)
  BY <1>2, RowOfLeaves
<1> HIDE DEF m
<1>5. 0 \in Nat /\ 0 <= 4
  OBVIOUS
<1> QED BY <1>3, <1>4, <1>5, AnswerIs

\* An answer with a text.
LEMMA SaidIs ==
  ASSUME NEW w \in Texts, NEW f, Answer(Said(w), f)
  PROVE  IsAnswer(answer')
<1> DEFINE a == AddString("respuesta", Text("OK"))
           b == AddString("texto", w)
           m == <<a, b>>
<1>1. {"respuesta", "texto", "OK"} \subseteq Symbols
  BY AnswerWords
<1>2. a \in Leaves /\ b \in Leaves
  BY <1>1, TextIs, LeavesAre
<1>3. Answer(m, f)
  BY DEF Said
<1> HIDE DEF a, b
<1>4. m \in Row(0)
  BY <1>2, RowOfLeaves
<1> HIDE DEF m
<1>5. 0 \in Nat /\ 0 <= 4
  OBVIOUS
<1> QED BY <1>3, <1>4, <1>5, AnswerIs

\* The texts of those answers.
LEMMA WordsSaid ==
  /\ <<"Session", Blank, "cerrada">> \in Texts
  /\ <<"pong">> \in Texts
  /\ <<"Welcome", Newline, "Use", ":", Blank, "/help">> \in Texts
  /\ <<"Envio", Blank, "(", "POST", ")">> \in Texts
  /\ <<"Lista", Blank, "los", Blank, "tipos">> \in Texts
<1>1. {"Session", "cerrada", "pong", "Welcome", "Use", ":", "/help", "Envio", "(", "POST", ")", "Lista",
       "los", "tipos"} \subseteq Symbols
  BY AnswerWords
<1>2. Blank \in Symbols /\ Newline \in Symbols
  BY SymbolsAre
<1> HIDE DEF Blank, Newline
<1> QED BY <1>1, <1>2 DEF Texts

\* The three that say a text.
LEMMA LogoutIs == ASSUME NEW f, Logout(f) \/ Ping(f) \/ Welcome(f) PROVE IsAnswer(answer')
BY WordsSaid, SaidIs DEF Logout, Ping, Welcome

\* The help has an object in its object.
LEMMA HelpIs == ASSUME NEW f, Help(f) PROVE IsAnswer(answer')
<1> DEFINE x == <<"Envio", Blank, "(", "POST", ")">>
           y == <<"Lista", Blank, "los", Blank, "tipos">>
           a == AddString("/login", x)
           b == AddString("/{sesion}/lista", y)
           d == AddString("respuesta", Text("OK"))
           e == Named("comandos", CreateObject(<<a, b>>))
           m == <<d, e>>
<1>1. Answer(m, f)
  BY DEF Help
<1>2. {"/login", "/{sesion}/lista", "respuesta", "comandos", "OK"} \subseteq Symbols
  BY AnswerWords
<1>3. x \in Texts /\ y \in Texts
  BY WordsSaid
<1> HIDE DEF x, y
<1>4. a \in Leaves /\ b \in Leaves /\ d \in Leaves
  BY <1>2, <1>3, TextIs, LeavesAre
<1> HIDE DEF a, b, d
<1>5. 0 \in Nat /\ 1 \in Nat /\ 0 + 1 = 1 /\ 1 <= 4
  OBVIOUS
<1>6. <<a, b>> \in Row(0)
  BY <1>4, RowOfLeaves
<1>7. CreateObject(<<a, b>>) \in Tree[0 + 1]
  BY <1>5, <1>6, RowsAre
<1>8. e \in Tree[1] /\ d \in Tree[1]
  BY <1>2, <1>4, <1>5, <1>7, NamedIs, RowsAre
<1> HIDE DEF e
<1>9. m \in Row(1)
  BY <1>5, <1>8, RowsAre
<1> HIDE DEF m
<1> QED BY <1>1, <1>5, <1>9, AnswerIs

\* A game of the table.
LEMMA RecordIs == ASSUME NEW g \in Games, NEW f, Record(g, f) PROVE IsAnswer(answer')
<1>1. 0 \in Nat /\ 0 <= 4
  OBVIOUS
<1>2. GameToCJSON(g) \in Row(0)
  BY GameMembers, RowOfLeaves
<1> QED BY <1>1, <1>2, AnswerIs DEF Record

\* A game in the format of the library.
LEMMA PartidaIs == ASSUME NEW g \in Games, NEW f, Partida(g, f) PROVE IsAnswer(answer')
<1>1. CASE f = "qgame"
  <2> DEFINE a == AddString("game_id", g.id)
             b == AddBinary("data", g.data)
             m == <<a, b>>
  <2>1. {"game_id", "data"} \subseteq Symbols
    BY AnswerWords
  <2>2. g.id \in Texts /\ g.data \in Seq(Byte)
    BY AnswerConstants DEF IsGame
  <2>3. a \in Leaves /\ b \in Leaves
    BY <2>1, <2>2, LeavesAre
  <2>4. Answer(m, f)
    BY <1>1 DEF Partida
  <2> HIDE DEF a, b
  <2>5. m \in Row(0)
    BY <2>3, RowOfLeaves
  <2> HIDE DEF m
  <2>6. 0 \in Nat /\ 0 <= 4
    OBVIOUS
  <2> QED BY <2>4, <2>5, <2>6, AnswerIs
<1>2. CASE f # "qgame"
  BY <1>2, RecordIs DEF Partida
<1> QED BY <1>1, <1>2

\* A game of the library, and two lists or a number and a list behind it.
LEMMA MueveIs == ASSUME NEW g \in Games, NEW p \in Partidas, NEW f, Mueve(g, p, f) PROVE IsAnswer(answer')
<1>1. 0 \in Nat /\ 0 <= 4
  OBVIOUS
<1>2. p \in Boards
  BY AnswerConstants
<1>3. PartidaToCJSON(g, p) \in Row(0)
  BY <1>2, PartidaMembers, RowOfLeaves
<1> QED BY <1>1, <1>3, AnswerIs DEF Mueve

\* What is behind the game in an answer.
LEMMA BehindIs ==
  ASSUME NEW g \in Games, NEW p \in Boards, NEW n \in Nat, n <= 4, NEW a \in Tree[n], NEW b \in Tree[n],
         NEW f, Answer(PartidaToCJSON(g, p) \o <<a, b>>, f)
  PROVE  IsAnswer(answer')
<1> DEFINE m == Cat(PartidaToCJSON(g, p), <<a, b>>)
<1>1. PartidaToCJSON(g, p) \in Row(n)
  BY PartidaMembers, RowsAre
<1>2. <<a, b>> \in Row(n)
  BY RowsAre
<1>3. m \in Row(n)
  BY <1>1, <1>2, RowsAre
<1>4. Answer(m, f)
  BY DEF Cat
<1> HIDE DEF m
<1> QED BY <1>3, <1>4, AnswerIs

\* The moves of a list.
LEMMA MovidasAre ==
  ASSUME NEW l \in Seq(Moves)
  PROVE  Named("movidas", Array(MovidaToCJSON, l)) \in Tree[4]
<1> DEFINE z == [i \in DOMAIN l |-> MovidaToCJSON(l[i])]
<1>1. Array(MovidaToCJSON, l) = CreateArray(z)
  BY DEF Array
<1>2. \A i \in DOMAIN l : l[i] \in Moves
  <2> DEFINE S == Moves
  <2>1. l \in Seq(S)
    OBVIOUS
  <2> HIDE DEF S
  <2>2. \A i \in DOMAIN l : l[i] \in S
    BY <2>1
  <2> QED BY <2>2 DEF S
<1>3. \A i \in DOMAIN l : z[i] \in Tree[3] /\ z[i].name = NoName
  BY <1>2, MovidaIs
<1>4. z = [i \in DOMAIN l |-> z[i]] /\ 3 \in Nat /\ 3 + 1 = 4 /\ 4 \in Nat
  OBVIOUS
<1> HIDE DEF z
<1>5. CreateArray(z) \in Tree[3 + 1]
  BY <1>3, <1>4, ArrayOf
<1>6. "movidas" \in Symbols
  BY AnswerWords
<1> QED BY <1>1, <1>4, <1>5, <1>6, NamedIs

\* The pieces of a list.
LEMMA PiezasAre ==
  ASSUME NEW l \in Seq(Placed)
  PROVE  \A i \in DOMAIN l : Piece(l[i]) \in Tree[1] /\ Piece(l[i]).name = NoName
<1> TAKE i \in DOMAIN l
<1>1. l[i] \in Placed
  OBVIOUS
<1>2. l[i].square \in Texts /\ l[i].piece \in Texts /\ l[i].color \in Texts
  BY <1>1 DEF Placed
<1> QED BY <1>2, PieceIs

\* The number of things in a list.
LEMMA TotalLeaf ==
  ASSUME NEW n \in Nat, n <= MaxCount
  PROVE  AddNumber("total", Numeral(n)) \in Leaves
<1>1. n \in 0..MaxCount
  BY AnswerConstants
<1>2. Numeral(n) \in Numerals
  BY <1>1, NumeralIs
<1>3. "total" \in Symbols
  BY AnswerWords
<1> QED BY <1>2, <1>3, LeavesAre

\* The board: a number, and the pieces on it and beside it.
LEMMA TableroIs ==
  ASSUME NEW g \in Games, NEW p \in Partidas, NEW f, Tablero(g, p, f)
  PROVE  IsAnswer(answer')
<1> DEFINE x == [i \in DOMAIN p.board |-> Piece(p.board[i])]
           y == [i \in DOMAIN p.captured |-> Captured(p.captured[i])]
           a == AddNumber("total", Numeral(Len(p.board)))
           b == Named("piezas", CreateArray(Cat(x, y)))
<1>1. Answer(PartidaToCJSON(g, p) \o <<a, b>>, f)
  BY DEF Tablero, Cat
<1>2. p \in Boards
  BY AnswerConstants
<1>3. p.board \in Seq(Placed) /\ Len(p.board) <= MaxCount
      /\ p.captured \in Seq([piece : Texts, color : Texts])
  BY <1>2 DEF Boards, Lists
<1>4. a \in Tree[2]
  <2>1. Len(p.board) \in Nat /\ 2 \in Nat
    BY <1>3
  <2> QED BY <1>3, <2>1, TotalLeaf, RowsAre
<1>5. x \in Seq(Unnamed(Tree[1]))
  <2>1. \A i \in DOMAIN p.board : Piece(p.board[i]) \in Unnamed(Tree[1])
    BY <1>3, PiezasAre DEF Unnamed
  <2>2. DOMAIN p.board = 1..Len(p.board) /\ Len(p.board) \in Nat
    BY <1>3
  <2> DEFINE k == Len(p.board)
  <2>3. k \in Nat /\ x = [i \in 1..k |-> x[i]] /\ \A i \in 1..k : x[i] \in Unnamed(Tree[1])
    BY <2>1, <2>2
  <2> HIDE DEF x, k
  <2> QED BY <2>3
<1>6. y \in Seq(Unnamed(Tree[1]))
  <2> DEFINE l == p.captured
             k == Len(l)
  <2>1. \A i \in DOMAIN l : l[i].piece \in Texts /\ l[i].color \in Texts
    <3> DEFINE S == [piece : Texts, color : Texts]
    <3>1. l \in Seq(S) /\ \A c \in S : c.piece \in Texts /\ c.color \in Texts
      BY <1>3
    <3> HIDE DEF S, l
    <3> QED BY <3>1
  <2>2. \A i \in DOMAIN l : Captured(l[i]) \in Unnamed(Tree[1])
    BY <2>1, CapturedIs DEF Unnamed
  <2>3. DOMAIN l = 1..k /\ k \in Nat
    BY <1>3
  <2>4. k \in Nat /\ y = [i \in 1..k |-> y[i]] /\ \A i \in 1..k : y[i] \in Unnamed(Tree[1])
    BY <2>2, <2>3
  <2> HIDE DEF y, k
  <2> QED BY <2>4
<1> HIDE DEF x, y
<1>7. Cat(x, y) \in Seq(Unnamed(Tree[1]))
  <2> DEFINE U == Unnamed(Tree[1])
  <2>1. x \in Seq(U) /\ y \in Seq(U)
    BY <1>5, <1>6
  <2> HIDE DEF U
  <2>2. Cat(x, y) \in Seq(U)
    BY <2>1, CatTyped
  <2> QED BY <2>2 DEF U
<1>8. CreateArray(Cat(x, y)) \in Tree[1 + 1] /\ 1 + 1 = 2 /\ 2 \in Nat /\ 2 <= 4
  BY <1>7, NodesAre
<1>9. "piezas" \in Symbols
  BY AnswerWords
<1>10. b \in Tree[2]
  BY <1>8, <1>9, NamedIs
<1> HIDE DEF a, b
<1> QED BY <1>1, <1>2, <1>4, <1>8, <1>10, BehindIs

\* The initial board and the moves.
LEMMA HistorialIs ==
  ASSUME NEW g \in Games, NEW p \in Partidas, NEW f, Historial(g, p, f)
  PROVE  IsAnswer(answer')
<1> DEFINE x == [i \in DOMAIN p.initial |-> Piece(p.initial[i])]
           a == Named("tablero_inicial", CreateArray(x))
           b == Named("movidas", Array(MovidaToCJSON, p.history))
<1>1. Answer(PartidaToCJSON(g, p) \o <<a, b>>, f)
  BY DEF Historial, Array
<1>2. p \in Boards
  BY AnswerConstants
<1>3. p.initial \in Seq(Placed) /\ p.history \in Seq(Moves)
  BY <1>2 DEF Boards, Lists
<1>4. \A i \in DOMAIN p.initial : x[i] \in Tree[1] /\ x[i].name = NoName
  BY <1>3, PiezasAre
<1>5. x = [i \in DOMAIN p.initial |-> x[i]] /\ 1 \in Nat /\ 2 \in Nat /\ 4 \in Nat /\ 1 + 1 = 2
      /\ 2 <= 4 /\ 4 <= 4
  OBVIOUS
<1> HIDE DEF x
<1>6. CreateArray(x) \in Tree[1 + 1]
  BY <1>3, <1>4, <1>5, ArrayOf
<1>7. "tablero_inicial" \in Symbols
  BY AnswerWords
<1>8. a \in Tree[4]
  <2>1. a \in Tree[2]
    BY <1>5, <1>6, <1>7, NamedIs
  <2> QED BY <1>5, <2>1, Higher
<1>9. b \in Tree[4]
  BY <1>3, MovidasAre
<1> HIDE DEF a, b
<1> QED BY <1>1, <1>2, <1>5, <1>8, <1>9, BehindIs

\* The possible moves.
LEMMA PosiblesIs ==
  ASSUME NEW g \in Games, NEW p \in Partidas, NEW f, Posibles(g, p, f)
  PROVE  IsAnswer(answer')
<1> DEFINE a == AddNumber("total", Numeral(Len(p.possible)))
           b == Named("movidas", Array(MovidaToCJSON, p.possible))
<1>1. Answer(PartidaToCJSON(g, p) \o <<a, b>>, f)
  BY DEF Posibles
<1>2. p \in Boards
  BY AnswerConstants
<1>3. p.possible \in Seq(Moves) /\ Len(p.possible) <= MaxCount
  BY <1>2 DEF Boards, Lists
<1>4. Len(p.possible) \in Nat /\ 4 \in Nat /\ 4 <= 4
  BY <1>3
<1>5. a \in Tree[4] /\ b \in Tree[4]
  BY <1>3, <1>4, TotalLeaf, RowsAre, MovidasAre
<1> HIDE DEF a, b
<1> QED BY <1>1, <1>2, <1>4, <1>5, BehindIs

\* The list of game types.
LEMMA TipoJuegosIs ==
  ASSUME NEW types \in GameTypes, NEW asked, NEW f, TipoJuegos(types, asked, f)
  PROVE  IsAnswer(answer')
<1> DEFINE S == Types
           shown(t) == t.loads /\ (asked = None \/ t.name = asked)
           det == (asked # None)
           p == [i \in DOMAIN types |-> IF shown(types[i]) THEN <<TypeToCJSON(types[i], det)>> ELSE <<>>]
<1>1. Answer(FlattenSeq(p), f)
  BY DEF TipoJuegos
<1>2. types \in Seq(S)
  BY AnswerConstants
<1>3. \A t \in S : TypeToCJSON(t, det) \in Tree[4]
  <2>1. det \in BOOLEAN
    OBVIOUS
  <2> HIDE DEF det
  <2> QED BY <2>1, TypeIs
<1> HIDE DEF S, det, shown
<1>4. DOMAIN types = 1..Len(types) /\ Len(types) \in Nat /\ \A i \in DOMAIN types : types[i] \in S
  BY <1>2
<1>5. \A i \in DOMAIN types : p[i] \in Row(4)
  <2>1. \A i \in DOMAIN types : TypeToCJSON(types[i], det) \in Tree[4]
    BY <1>3, <1>4
  <2>2. 4 \in Nat
    OBVIOUS
  <2> QED BY <2>1, <2>2, RowsAre
<1> DEFINE k == Len(types)
<1>6. k \in Nat /\ p = [i \in 1..k |-> p[i]] /\ \A i \in 1..k : p[i] \in Seq(Tree[4])
  BY <1>4, <1>5 DEF Row
<1> HIDE DEF p, k
<1>7. p \in Seq(Seq(Tree[4]))
  BY <1>6
<1> DEFINE m == FlattenSeq(p)
<1>8. m \in Row(4)
  BY <1>7, FlattenTyped DEF Row
<1>9. 4 \in Nat /\ 4 <= 4
  OBVIOUS
<1>10. Answer(m, f)
  BY <1>1
<1> HIDE DEF m
<1> QED BY <1>8, <1>9, <1>10, AnswerIs

(***************************************************************************)
(* The walk over the table of games.                                       *)
(***************************************************************************)
USE DEF Tables, walkVars

\* Every game of a table is in its contents, and nothing else is.
LEMMA ContentsOf ==
  ASSUME NEW t \in Tables, NEW k \in Ids, t[k] # NoRecord
  PROVE  /\ [id |-> k, game |-> t[k]] \in Contents(t)
         /\ t[k] \in Records
BY DEF Contents

\* What a list holds once one more game is at its end.
LEMMA Appended ==
  ASSUME NEW S, NEW l \in Seq(S), NEW x \in S
  PROVE  /\ Append(l, x) \in Seq(S)
         /\ DOMAIN Append(l, x) = DOMAIN l \cup {Len(l) + 1}
         /\ \A i \in DOMAIN l : Append(l, x)[i] = l[i] /\ i \in Nat /\ i < Len(l) + 1
         /\ Append(l, x)[Len(l) + 1] = x
         /\ Len(l) + 1 \in Nat
OBVIOUS

\* The empty list.
LEMMA EmptyList == \A S : <<>> \in Seq(S)
OBVIOUS

\* It has no places.
LEMMA NothingListed == DOMAIN <<>> = {}
OBVIOUS

\* What a list holds.
LEMMA Listed ==
  ASSUME NEW S, NEW l \in Seq(S), NEW i \in DOMAIN l
  PROVE  l[i] \in S
OBVIOUS

\* The invariant holds before the first walk.
LEMMA WalkInitially == WalkInit => WalkInv
<1> SUFFICES ASSUME WalkInit PROVE WalkInv
  OBVIOUS
<1>1. WalkTypeOK
  BY EmptyList DEF WalkInit, WalkTypeOK, Empty
<1>2. ListInOrder /\ ListIsTrue
  BY NothingListed DEF WalkInit, ListInOrder, ListIsTrue
<1>3. TableSeen /\ ListedBehind
  BY DEF WalkInit, TableSeen, ListedBehind
<1> QED BY <1>1, <1>2, <1>3 DEF WalkInv

\* A walk begins with an empty list, before every key.
LEMMA BeginKeeps == WalkInv /\ Begin => WalkInv'
<1> SUFFICES ASSUME Begin PROVE WalkInv'
  OBVIOUS
<1>1. WalkTypeOK'
  BY EmptyList DEF Begin, WalkTypeOK
<1>2. ListInOrder' /\ ListIsTrue'
  BY NothingListed DEF Begin, ListInOrder, ListIsTrue
<1>3. TableSeen'
  BY DEF Begin, TableSeen
<1>4. ListedBehind'
  <2>1. \A k \in steady' : k \in Nat /\ k # 0 /\ HasRight(user', table', k)
    BY WalkConstants DEF Begin
  <2>2. pos' = 0 /\ walk' = "walking"
    BY DEF Begin
  <2>3. \A k \in steady' : ~ (k <= pos')
    BY <2>1, <2>2
  <2>4. \A k \in steady' : HasRight(user, table, k)'
    BY <2>1 DEF HasRight, MayList
  <2> QED BY <2>2, <2>3, <2>4 DEF ListedBehind
<1> QED BY <1>1, <1>2, <1>3, <1>4 DEF WalkInv

\* A walk without a cursor lists nothing, and neither does a start.
LEMMA NoCursorKeeps == WalkInv /\ (NoCursor \/ Started) => WalkInv'
<1> SUFFICES ASSUME WalkInv, NoCursor \/ Started PROVE WalkInv'
  OBVIOUS
<1>1. /\ walk \in {"idle", "down"} /\ walk' \in {"idle", "down"}
      /\ UNCHANGED <<user, table, pos, list, steady, seen, failed>>
  BY DEF NoCursor, Started
<1>2. WalkTypeOK' /\ ListInOrder' /\ ListIsTrue'
  BY <1>1 DEF WalkInv, WalkTypeOK, ListInOrder, ListIsTrue, MayList
<1>3. TableSeen' /\ ListedBehind'
  BY <1>1 DEF WalkInv, TableSeen, ListedBehind
<1> QED BY <1>2, <1>3 DEF WalkInv

\* The cursor goes to the next key: no key of steady lies between.
LEMMA AdvanceKeeps == WalkInv /\ Advance => WalkInv'
<1> SUFFICES ASSUME WalkInv, Advance PROVE WalkInv'
  OBVIOUS
<1>1. PICK k \in Ids :
        /\ Ahead(k) /\ \A j \in Ids : Ahead(j) => k <= j
        /\ pos' = k
        /\ list' = IF MayList(user, table[k]) THEN Append(list, [id |-> k, game |-> table[k]])
                   ELSE list
  BY DEF Advance
<1>2. /\ walk = "walking"
      /\ walk' = walk /\ user' = user /\ table' = table
      /\ steady' = steady /\ seen' = seen /\ failed' = failed
  BY DEF Advance
<1> DEFINE x == [id |-> k, game |-> table[k]]
<1>3. /\ k \in Nat /\ pos \in Nat /\ pos < k /\ table[k] # NoRecord
      /\ x \in [id : Ids, game : Records] /\ x \in seen
  BY <1>1, <1>2, WalkConstants, ContentsOf DEF WalkInv, WalkTypeOK, TableSeen, Ahead
<1>4. \A i \in DOMAIN list : list[i].id \in Nat /\ list[i].id <= pos
  <2> TAKE i \in DOMAIN list
  <2>1. list[i] \in [id : Ids, game : Records]
    BY Listed DEF WalkInv, WalkTypeOK
  <2> QED BY <2>1, WalkConstants DEF WalkInv, ListInOrder
<1>5. \A j \in steady : j \in Nat /\ HasRight(user, table, j) /\ (pos < j => k <= j)
  BY <1>1, <1>2, WalkConstants DEF WalkInv, WalkTypeOK, ListedBehind, Ahead, HasRight
<1>6. CASE MayList(user, table[k])
  <2> HIDE DEF x
  <2>1. /\ list' = Append(list, x) /\ list' \in Seq([id : Ids, game : Records])
        /\ DOMAIN list' = DOMAIN list \cup {Len(list) + 1}
        /\ \A i \in DOMAIN list : list'[i] = list[i] /\ i \in Nat /\ i < Len(list) + 1
        /\ list'[Len(list) + 1] = x /\ Len(list) + 1 \in Nat
    <3>1. list' = Append(list, x)
      BY <1>1, <1>6 DEF x
    <3> QED BY <3>1, <1>3, Appended DEF WalkInv, WalkTypeOK
  <2>2. x.id = k /\ x.game = table[k]
    BY DEF x
  <2>3. WalkTypeOK'
    BY <1>1, <1>2, <2>1 DEF WalkInv, WalkTypeOK
  <2>4. ListInOrder'
    BY <1>1, <1>3, <1>4, <2>1, <2>2 DEF WalkInv, ListInOrder
  <2>5. ListIsTrue'
    BY <1>2, <1>3, <1>6, <2>1, <2>2 DEF WalkInv, ListIsTrue, MayList
  <2>6. ListedBehind'
    <3>1. ASSUME NEW j \in steady, j <= k
          PROVE  \E i \in DOMAIN list' : list'[i].id = j
      <4>1. CASE j <= pos
        BY <4>1, <2>1 DEF WalkInv, ListedBehind
      <4>2. CASE j = k
        BY <4>2, <2>1, <2>2
      <4> QED BY <1>3, <1>5, <3>1, <4>1, <4>2
    <3> QED BY <1>1, <1>2, <1>5, <3>1 DEF ListedBehind, HasRight, MayList
  <2> QED BY <1>2, <2>3, <2>4, <2>5, <2>6 DEF WalkInv, TableSeen
<1>7. CASE ~ MayList(user, table[k])
  <2>1. list' = list /\ k \notin steady
    BY <1>1, <1>5, <1>7 DEF HasRight
  <2>2. WalkTypeOK' /\ ListIsTrue'
    BY <1>1, <1>2, <2>1 DEF WalkInv, WalkTypeOK, ListIsTrue, MayList
  <2>3. ListInOrder'
    <3>1. ASSUME NEW i \in DOMAIN list PROVE list[i].id <= k
      BY <1>3, <1>4, <3>1
    <3> QED BY <1>1, <2>1, <3>1 DEF WalkInv, ListInOrder
  <2>4. ListedBehind'
    <3>1. ASSUME NEW j \in steady, j <= k
          PROVE  \E i \in DOMAIN list : list[i].id = j
      <4>1. j <= pos
        BY <1>3, <1>5, <2>1, <3>1
      <4> QED BY <4>1 DEF WalkInv, ListedBehind
    <3> QED BY <1>1, <1>2, <1>5, <2>1, <3>1 DEF ListedBehind, HasRight, MayList
  <2> QED BY <1>2, <2>2, <2>3, <2>4 DEF WalkInv, TableSeen
<1> QED BY <1>6, <1>7

\* At the end no key of steady is ahead.
LEMMA FinishKeeps == WalkInv /\ Finish => WalkInv'
<1> SUFFICES ASSUME WalkInv, Finish PROVE WalkInv'
  OBVIOUS
<1>1. \A k \in steady : k \in Ids /\ k \in Nat /\ pos \in Nat /\ table[k] # NoRecord
  BY WalkConstants DEF WalkInv, WalkTypeOK, ListedBehind, HasRight, Finish
<1>2. \A k \in steady : k <= pos
  BY <1>1 DEF Finish, Ahead
<1> QED
  BY <1>2 DEF Finish, WalkInv, WalkTypeOK, ListInOrder, ListIsTrue, TableSeen, ListedBehind, MayList

\* A failure promises less.
LEMMA ReadErrorKeeps == WalkInv /\ ReadError => WalkInv'
BY DEF ReadError, WalkInv, WalkTypeOK, ListInOrder, ListIsTrue, TableSeen, ListedBehind, MayList

\* A change elsewhere: what is not the user's any more leaves steady.
LEMMA ChangeKeeps == WalkInv /\ Change => WalkInv'
<1> SUFFICES ASSUME WalkInv, Change PROVE WalkInv'
  OBVIOUS
<1>1. PICK k \in Ids, r \in Records \cup {NoRecord} :
        /\ table' = [table EXCEPT ![k] = r]
        /\ steady' = IF HasRight(user, table', k) THEN steady ELSE steady \ {k}
        /\ seen' = seen \cup Contents(table')
  BY DEF Change
<1>2. /\ walk = "walking" /\ walk' = walk /\ user' = user /\ pos' = pos /\ list' = list
      /\ failed' = failed /\ steady' \subseteq steady /\ table' \in Tables
  BY <1>1 DEF Change, WalkInv, WalkTypeOK
<1>3. WalkTypeOK' /\ ListInOrder' /\ ListIsTrue'
  BY <1>1, <1>2 DEF WalkInv, WalkTypeOK, ListInOrder, ListIsTrue, MayList
<1>4. TableSeen'
  BY <1>1 DEF TableSeen
<1>5. ListedBehind'
  <2>1. ASSUME NEW j \in steady' PROVE HasRight(user, table', j)
    <3>1. j \in Ids /\ HasRight(user, table, j)
      BY <1>2, <2>1 DEF WalkInv, WalkTypeOK, ListedBehind
    <3>2. CASE j = k
      BY <1>1, <2>1, <3>2
    <3>3. CASE j # k
      BY <1>1, <3>1, <3>3 DEF WalkInv, WalkTypeOK, HasRight
    <3> QED BY <3>2, <3>3
  <2>2. \A j \in steady' : HasRight(user', table', j)
    BY <1>2, <2>1
  <2> QED BY <1>2, <2>2 DEF WalkInv, ListedBehind
<1> QED BY <1>3, <1>4, <1>5 DEF WalkInv

\* Nothing is left of a walk that is over.
LEMMA CloseKeeps == WalkInv /\ Close => WalkInv'
<1> SUFFICES ASSUME Close PROVE WalkInv'
  OBVIOUS
<1>1. WalkTypeOK'
  BY EmptyList DEF Close, WalkTypeOK, Empty
<1>2. ListInOrder' /\ ListIsTrue'
  BY NothingListed DEF Close, ListInOrder, ListIsTrue
<1>3. TableSeen' /\ ListedBehind'
  BY DEF Close, TableSeen, ListedBehind
<1> QED BY <1>1, <1>2, <1>3 DEF WalkInv

\* WalkInv is inductive.
THEOREM WalkInvariance == WalkSpec => []WalkInv
<1>1. WalkInv /\ UNCHANGED walkVars => WalkInv'
  BY DEF WalkInv, WalkTypeOK, ListInOrder, ListIsTrue, TableSeen, ListedBehind, HasRight, MayList
<1>2. WalkInv /\ [Walk \/ Close]_walkVars => WalkInv'
  BY <1>1, BeginKeeps, NoCursorKeeps, AdvanceKeeps, FinishKeeps, ReadErrorKeeps, ChangeKeeps, CloseKeeps DEF Walk
<1> QED BY WalkInitially, <1>2, PTL DEF WalkSpec

\* A list names every game the user had a right on all the time, none twice, and only
\* games of that user that were there, however the table changes under the cursor.
THEOREM ListsAreComplete == WalkSpec => []WalkIsComplete
<1>1. WalkInv => WalkIsComplete
  BY DEF WalkInv, WalkIsComplete, ListInOrder, ListIsTrue, ListedBehind
<1> QED BY WalkInvariance, <1>1, PTL

HIDE DEF Tables, walkVars

\* An ordered list of different keys is no longer than there are keys.
LEMMA ListIsShort ==
  ASSUME WalkInv, walk = "done"
  PROVE  list \in Seq([id : Ids, game : Records]) /\ Len(list) \in 0..MaxCount
<1> DEFINE n == Len(list)
           S == [id : Ids, game : Records]
<1>1. list \in Seq(S) /\ \A i, j \in DOMAIN list : i < j => list[i].id < list[j].id
  BY DEF WalkInv, WalkTypeOK, ListInOrder
<1>2. \A x \in S : x.id \in 1..MaxCount
  BY AnswerConstants
<1>3. MaxCount \in Nat
  BY AnswerConstants
<1> HIDE DEF S
<1>4. n \in Nat /\ DOMAIN list = 1..n /\ \A i \in 1..n : list[i].id \in 1..MaxCount
  BY <1>1, <1>2
<1> DEFINE Low == {i \in Nat : i \in 1..n /\ list[i].id < i}
<1>5. Low = {}
  <2> SUFFICES ASSUME Low # {} PROVE FALSE
    OBVIOUS
  <2>1. Low \subseteq Nat
    OBVIOUS
  <2>2. PICK i \in Low : \A j \in Low : i <= j
    BY <2>1, LeastNat
  <2>3. i \in 1..n /\ list[i].id < i /\ list[i].id \in 1..MaxCount
    BY <1>4, <2>2
  <2>4. i # 1
    BY <1>3, <2>3
  <2>5. i - 1 \in 1..n /\ i - 1 < i
    BY <1>4, <2>3, <2>4
  <2>6. i - 1 \notin Low
    BY <2>1, <2>2, <2>5
  <2>7. list[i - 1].id >= i - 1 /\ list[i - 1].id \in 1..MaxCount
    BY <1>4, <2>5, <2>6
  <2>8. list[i - 1].id < list[i].id
    BY <1>1, <1>4, <2>3, <2>5
  <2> HIDE DEF Low
  <2> QED BY <1>3, <2>3, <2>5, <2>7, <2>8
<1>6. n <= MaxCount
  <2>1. CASE n = 0
    BY <1>3, <2>1
  <2>2. CASE n # 0
    <3>1. n \in 1..n
      BY <1>4, <2>2
    <3>2. list[n].id >= n /\ list[n].id \in 1..MaxCount
      BY <1>4, <1>5, <3>1
    <3> QED BY <1>3, <1>4, <3>2
  <2> QED BY <2>1, <2>2
<1> QED BY <1>1, <1>3, <1>4, <1>6 DEF S

\* The games of a user.
LEMMA RegistracionesIs ==
  ASSUME WalkInv, NEW f, Registraciones(f)
  PROVE  IsAnswer(answer')
<1> DEFINE k == Len(list)
           n == Numeral(k)
           w == <<"Cantidad", Blank, "de", Blank, "juegos", ":", Blank, n>>
           z == [i \in DOMAIN list |-> CreateObject(GameToCJSON(list[i].game))]
           a == AddNumber("cantidad", n)
           b == AddString("respuesta", Text("OK"))
           c == AddString("texto", w)
           e == Named("games", CreateArray(z))
           m == <<a, b, c, e>>
<1>1. Answer(m, f)
  BY DEF Registraciones
<1>2. {"cantidad", "respuesta", "texto", "games", "OK", "Cantidad", "de", "juegos", ":"}
      \subseteq Symbols
  BY AnswerWords
<1>3. walk = "done"
  BY DEF Registraciones, Close
<1>4. list \in Seq([id : Ids, game : Records]) /\ k \in 0..MaxCount
  BY <1>3, ListIsShort
<1>5. n \in Numerals
  BY <1>4, NumeralIs
<1> HIDE DEF n
<1>6. w \in Texts
  <2>1. n \in Symbols
    BY <1>5, JsonConstants
  <2>2. Blank \in Symbols
    BY SymbolsAre
  <2> HIDE DEF Blank
  <2> QED BY <1>2, <2>1, <2>2 DEF Texts
<1> HIDE DEF w
<1>7. a \in Leaves /\ b \in Leaves /\ c \in Leaves
  BY <1>2, <1>5, <1>6, TextIs, LeavesAre
<1>8. e \in Tree[2]
  <2> DEFINE S == [id : Ids, game : Records]
  <2>1. list \in Seq(S)
    BY <1>4
  <2>2. \A x \in S : x.game \in Games
    BY AnswerConstants
  <2> HIDE DEF S
  <2>3. \A i \in DOMAIN list : list[i].game \in Games
    BY <2>1, <2>2
  <2>4. 0 \in Nat /\ 0 + 1 = 1 /\ 1 \in Nat /\ 1 + 1 = 2 /\ 2 \in Nat
    OBVIOUS
  <2>5. \A i \in DOMAIN list : z[i] \in Tree[1] /\ z[i].name = NoName
    <3> TAKE i \in DOMAIN list
    <3>1. GameToCJSON(list[i].game) \in Row(0)
      BY <2>3, GameMembers, RowOfLeaves
    <3>2. CreateObject(GameToCJSON(list[i].game)) \in Tree[0 + 1]
          /\ CreateObject(GameToCJSON(list[i].game)).name = NoName
      BY <2>4, <3>1, RowsAre
    <3> QED BY <2>4, <3>2
  <2>6. z = [i \in DOMAIN list |-> z[i]]
    OBVIOUS
  <2> HIDE DEF z
  <2>7. CreateArray(z) \in Tree[1 + 1]
    BY <2>1, <2>4, <2>5, <2>6, ArrayOf
  <2> QED BY <1>2, <2>4, <2>7, NamedIs
<1> HIDE DEF a, b, c, e
<1>9. 2 \in Nat /\ 2 <= 4
  OBVIOUS
<1>10. m \in Row(2)
  <2>1. a \in Tree[2] /\ b \in Tree[2] /\ c \in Tree[2]
    BY <1>7, <1>9, RowsAre
  <2> DEFINE S == Tree[2]
  <2>2. a \in S /\ b \in S /\ c \in S /\ e \in S
    BY <1>8, <2>1
  <2> HIDE DEF S
  <2>3. <<a, b, c, e>> \in Seq(S)
    BY <2>2
  <2> QED BY <2>3 DEF Row, S
<1> HIDE DEF m
<1> QED BY <1>1, <1>9, <1>10, AnswerIs

\* The answer is of that kind, whatever the handler.
AnswerTypeOK == answer = None \/ IsAnswer(answer)

\* Every handler but registraciones.
LEMMA OtherIs == AnswerTypeOK /\ Other => AnswerTypeOK'
<1> SUFFICES ASSUME AnswerTypeOK, Other PROVE AnswerTypeOK'
  OBVIOUS
<1>1. CASE Sent
  BY <1>1 DEF Sent, AnswerTypeOK
<1>2. ASSUME NEW f \in Formats,
             \/ Login(f) \/ Logout(f) \/ Ping(f) \/ Welcome(f) \/ Help(f)
             \/ \E g \in Games : Record(g, f) \/ Partida(g, f)
             \/ \E g \in Games, p \in Partidas :
                  Mueve(g, p, f) \/ Tablero(g, p, f) \/ Historial(g, p, f) \/ Posibles(g, p, f)
             \/ \E types \in GameTypes :
                  \E asked \in {None} \cup {types[i].name : i \in DOMAIN types} :
                    TipoJuegos(types, asked, f)
      PROVE  AnswerTypeOK'
  <2>1. IsAnswer(answer')
    BY <1>2, LoginIs, LogoutIs, HelpIs, RecordIs, PartidaIs, MueveIs, TableroIs, HistorialIs,
       PosiblesIs, TipoJuegosIs
  <2> QED BY <2>1 DEF AnswerTypeOK, IsAnswer
<1> QED BY <1>1, <1>2 DEF Other

\* Every step.
LEMMA NextIs == WalkInv /\ AnswerTypeOK /\ [Next]_vars => AnswerTypeOK'
<1> SUFFICES ASSUME WalkInv, AnswerTypeOK, [Next]_vars PROVE AnswerTypeOK'
  OBVIOUS
<1>1. CASE walk = "idle" /\ Other /\ UNCHANGED walkVars
  BY <1>1, OtherIs
<1>2. CASE answer = None /\ Walk /\ UNCHANGED <<answer, format>>
  BY <1>2 DEF AnswerTypeOK
<1>3. ASSUME NEW f \in Formats, Registraciones(f) PROVE AnswerTypeOK'
  BY <1>3, RegistracionesIs DEF AnswerTypeOK, IsAnswer
<1>4. CASE UNCHANGED vars
  BY <1>4 DEF vars, AnswerTypeOK, IsAnswer
<1> QED BY <1>1, <1>2, <1>3, <1>4 DEF Next

\* The walk is the one of GamesWalk: no handler disturbs it.
THEOREM WalkRefined == Spec => WalkSpec
<1>1. Init => WalkInit
  BY DEF Init
<1>2. [Next]_vars => [Walk \/ Close]_walkVars
  BY DEF Next, vars, Registraciones
<1> QED BY <1>1, <1>2, PTL DEF Spec, WalkSpec

\* A list of games in an answer is complete, as WalkIsComplete says.
THEOREM AnswersListCompletely == Spec => []WalkIsComplete
BY WalkRefined, ListsAreComplete, PTL

\* Whatever is answered is an object of trees.
THEOREM AnswersTyped == Spec => []AnswerTypeOK
<1>1. Init => AnswerTypeOK
  BY DEF Init, AnswerTypeOK
<1>2. Spec => []WalkInv
  BY WalkRefined, WalkInvariance, PTL
<1>3. WalkInv /\ AnswerTypeOK /\ [Next]_vars => AnswerTypeOK'
  BY NextIs
<1> QED BY <1>1, <1>2, <1>3, PTL DEF Spec

\* Whatever is answered, the printers write no byte past the memory they allocated.
THEOREM AnswersFit == Spec => []AnswerFits
<1>1. AnswerTypeOK => AnswerFits
  BY ObjectFits DEF AnswerTypeOK, IsAnswer, AnswerFits
<1> QED BY <1>1, AnswersTyped, PTL

\* No character is twice in the alphabet, and "=" is not in it.
LEMMA AlphabetDiffers ==
  /\ \A i, j \in 1..64 : Alphabet[i] = Alphabet[j] => i = j
  /\ \A i \in 1..64 : Alphabet[i] # "="
BY SMTT(120) DEF Alphabet

\* Lists of one, joined.
LEMMA OnesJoined ==
  ASSUME NEW S, NEW a \in S, NEW b \in S, NEW c \in S
  PROVE  /\ <<a>> \o <<>> \o <<>> = <<a>>
         /\ <<a>> \o <<b>> \o <<>> = <<a, b>>
         /\ <<a>> \o <<b>> \o <<c>> = <<a, b, c>>
<1>1. <<a>> \in Seq(S) /\ <<b>> \in Seq(S) /\ <<c>> \in Seq(S) /\ <<a, b>> \in Seq(S)
      /\ <<b, c>> \in Seq(S) /\ <<a, b, c>> \in Seq(S)
  OBVIOUS
<1>2. ASSUME NEW x \in S, NEW y \in S PROVE Cat(<<x>>, <<y>>) = <<x, y>>
  <2> DEFINE s == <<x, y>>
  <2>1. s \in Seq(S) /\ s # <<>> /\ s[1] = x /\ Tail(s) = <<y>>
    OBVIOUS
  <2> HIDE DEF s
  <2>2. s = Cat(One(x), <<y>>)
    BY <2>1, HeadAndTail
  <2> QED BY <2>2 DEF s, One
<1>3. Cat(<<a>>, <<b, c>>) = <<a, b, c>>
  <2> DEFINE s == <<a, b, c>>
             t == <<b, c>>
  <2>1. s \in Seq(S) /\ s # <<>> /\ s[1] = a /\ Tail(s) = t
    OBVIOUS
  <2> HIDE DEF s, t
  <2>2. s = Cat(One(a), t)
    BY <2>1, HeadAndTail
  <2> QED BY <2>2 DEF s, t, One
<1>4. Cat(<<a, b>>, <<c>>) = <<a, b, c>>
  <2> DEFINE x == <<a>>
             y == <<b>>
             z == <<c>>
  <2>1. x \in Seq(S) /\ y \in Seq(S) /\ z \in Seq(S)
    BY <1>1
  <2>2. Cat(x, y) = <<a, b>> /\ Cat(y, z) = <<b, c>> /\ Cat(x, <<b, c>>) = <<a, b, c>>
    BY <1>2, <1>3
  <2> HIDE DEF x, y, z
  <2>3. Cat(Cat(x, y), z) = Cat(x, Cat(y, z))
    BY <2>1, CatAssoc
  <2> QED BY <2>2, <2>3 DEF z
<1>5. Cat(<<a>>, <<>>) = <<a>> /\ Cat(<<a, b>>, <<>>) = <<a, b>>
  BY <1>1, CatEmpty
<1> QED BY <1>2, <1>4, <1>5 DEF Cat

\* One step of Decode.
DecodeStep(f, text) ==
  LET c    == SubSeq(text, 1, 4)
      rest == SubSeq(text, 5, Len(text))
  IN IF text = <<>> THEN [ok |-> TRUE, bytes |-> <<>>]
     ELSE IF Len(text) < 4 THEN [ok |-> FALSE, bytes |-> <<>>]
     ELSE IF ~ Accepted(c, rest = <<>>) THEN [ok |-> FALSE, bytes |-> <<>>]
     ELSE [ok |-> f[rest].ok, bytes |-> DecodedGroup(c) \o f[rest].bytes]

\* What is behind the first symbols of a text is shorter.
LEMMA RestIs ==
  ASSUME NEW s \in Texts, NEW k \in Nat, k <= Len(s)
  PROVE  /\ SubSeq(s, k + 1, Len(s)) \in Texts
         /\ Len(SubSeq(s, k + 1, Len(s))) = Len(s) - k
         /\ \A i \in 1..(Len(s) - k) : SubSeq(s, k + 1, Len(s))[i] = s[k + i]
         /\ Length(SubSeq(s, k + 1, Len(s))) = Len(s) - k
  BY SubSeqProperties DEF Texts, Length

\* A step looks at what is behind the first group only.
LEMMA DecodeSame ==
  ASSUME NEW s \in Texts, NEW f, NEW g, \A t \in Texts : Length(t) < Length(s) => f[t] = g[t]
  PROVE  DecodeStep(f, s) = DecodeStep(g, s)
<1>1. CASE s = <<>> \/ Len(s) < 4
  BY <1>1 DEF DecodeStep
<1>2. CASE ~ (s = <<>> \/ Len(s) < 4)
  <2> DEFINE rest == SubSeq(s, 5, Len(s))
  <2>1. Len(s) \in Nat /\ 4 + 1 = 5 /\ 4 <= Len(s) /\ 4 \in Nat
    BY <1>2, TextsAre
  <2>2. rest \in Texts /\ Length(rest) = Len(s) - 4
    BY <2>1, RestIs
  <2>3. Length(rest) < Length(s)
    BY <2>1, <2>2 DEF Length
  <2>4. f[rest] = g[rest]
    BY <2>2, <2>3
  <2> HIDE DEF rest
  <2> QED BY <2>4 DEF DecodeStep, rest
<1> QED BY <1>1, <1>2

\* The measure of a text.
LEMMA TextLength == \A s \in Texts : Length(s) \in Nat
BY TextsAre DEF Length

\* What base64_decode makes of a text.
LEMMA DecodeIs == DOMAIN Decode = Texts /\ \A s \in Texts : Decode[s] = DecodeStep(Decode, s)
<1> DEFINE D == Texts
           m == [s \in D |-> Length(s)]
           Body(f) == [s \in D |-> DecodeStep(f, s)]
           Upon(f, n) == \A s \in D : m[s] < n => f[s] = DecodeStep(f, s)
<1>1. m \in [D -> Nat] /\ \A s \in D : m[s] = Length(s)
  BY TextLength
<1>2. ASSUME NEW s \in D, NEW f, NEW g, \A t \in D : m[t] < m[s] => f[t] = g[t]
      PROVE  DecodeStep(f, s) = DecodeStep(g, s)
  BY <1>1, <1>2, DecodeSame
<1>3. Decode = CHOOSE f : f = Body(f)
  BY DEF Decode, DecodeStep
<1> HIDE DEF D, m
<1>4. ASSUME NEW n \in Nat, NEW f, NEW g, Upon(f, n), Upon(g, n), NEW s \in D, m[s] < n
      PROVE  f[s] = g[s]
  <2> DEFINE P == {x \in D : m[x] < n => f[x] = g[x]}
  <2>1. ASSUME NEW x \in D, \A t \in D : m[t] < m[x] => t \in P PROVE x \in P
    <3>1. CASE m[x] < n
      <4>1. \A t \in D : m[t] < m[x] => f[t] = g[t]
        BY <1>1, <2>1, <3>1
      <4>2. DecodeStep(f, x) = DecodeStep(g, x)
        BY <1>2, <4>1
      <4> QED BY <1>4, <3>1, <4>2
    <3> QED BY <3>1
  <2>2. D \subseteq P
    <3> HIDE DEF P
    <3> QED BY <1>1, <2>1, MeasureInduction
  <2> QED BY <1>4, <2>2
<1>5. \A n \in Nat : \E f : Upon(f, n)
  <2> DEFINE N == {n \in Nat : \E f : Upon(f, n)}
  <2>1. 0 \in N
    <3>1. \A s \in D : ~ (m[s] < 0)
      BY <1>1
    <3> QED BY <3>1
  <2>2. ASSUME NEW n \in Nat, n \in N PROVE n + 1 \in N
    <3>1. PICK f : Upon(f, n)
      BY <2>2
    <3> DEFINE g == Body(f)
    <3>2. \A s \in D : g[s] = DecodeStep(f, s)
      OBVIOUS
    <3>3. \A s \in D : m[s] < n => f[s] = g[s]
      BY <3>1, <3>2
    <3> HIDE DEF g
    <3>4. ASSUME NEW s \in D, m[s] < n + 1 PROVE g[s] = DecodeStep(g, s)
      <4>1. \A t \in D : m[t] < m[s] => f[t] = g[t]
        BY <1>1, <3>3, <3>4
      <4>2. DecodeStep(f, s) = DecodeStep(g, s)
        BY <1>2, <4>1
      <4> QED BY <3>2, <4>2
    <3>5. Upon(g, n + 1)
      BY <3>4
    <3> HIDE DEF Upon
    <3> QED BY <3>5
  <2> HIDE DEF N
  <2>3. \A n \in Nat : n \in N
    BY <2>1, <2>2, SetInduction
  <2> QED BY <2>3 DEF N
<1> DEFINE Some(s) == CHOOSE f : Upon(f, m[s] + 1)
           F == [s \in D |-> Some(s)[s]]
<1>6. \A s \in D : Upon(Some(s), m[s] + 1) /\ m[s] + 1 \in Nat /\ m[s] \in Nat
  <2> TAKE s \in D
  <2>1. m[s] + 1 \in Nat /\ m[s] \in Nat
    BY <1>1
  <2>2. \E f : Upon(f, m[s] + 1)
    BY <1>5, <2>1
  <2> HIDE DEF Upon
  <2> QED BY <2>1, <2>2
<1>7. \A s \in D : F[s] = Some(s)[s]
  OBVIOUS
<1> HIDE DEF F, Some
<1>8. ASSUME NEW s \in D PROVE F[s] = DecodeStep(F, s)
  <2>1. ASSUME NEW t \in D, m[t] < m[s] PROVE Some(s)[t] = F[t]
    <3>1. Upon(Some(s), m[t] + 1)
      BY <1>1, <1>6, <2>1
    <3>2. Upon(Some(t), m[t] + 1) /\ m[t] < m[t] + 1 /\ m[t] + 1 \in Nat
      BY <1>6
    <3> HIDE DEF Upon
    <3>3. Some(s)[t] = Some(t)[t]
      BY <1>4, <3>1, <3>2
    <3> QED BY <1>7, <3>3
  <2>2. DecodeStep(Some(s), s) = DecodeStep(F, s)
    BY <1>2, <2>1
  <2>3. m[s] < m[s] + 1
    BY <1>6
  <2>4. Some(s)[s] = DecodeStep(Some(s), s)
    BY <1>6, <2>3
  <2> QED BY <1>7, <2>2, <2>4
<1>9. F = Body(F)
  <2>1. F = [s \in D |-> F[s]]
    BY DEF F
  <2> QED BY <1>8, <2>1
<1> DEFINE G == Decode
<1>10. G = Body(G)
  <2> HIDE DEF Body
  <2> QED BY <1>3, <1>9
<1> HIDE DEF G
<1>11. DOMAIN G = D /\ \A s \in D : G[s] = DecodeStep(G, s)
  <2>1. DOMAIN Body(G) = D /\ \A s \in D : Body(G)[s] = DecodeStep(G, s)
    OBVIOUS
  <2> HIDE DEF Body
  <2> QED BY <1>10, <2>1
<1> QED BY <1>11 DEF D, G

\* A number below 64 is written as a character, which stands for it.
Char(v) == Alphabet[(v % 64) + 1]

\* The decoder knows it.
LEMMA CharIs ==
  ASSUME NEW v \in Nat
  PROVE  IsBase64(Char(v)) /\ B64[Char(v)] = v % 64 /\ Char(v) # "=" /\ v % 64 \in 0..63
<1> DEFINE k == (v % 64) + 1
           S == {Alphabet[i] : i \in 1..64}
           x == Alphabet[k]
<1>1. k \in 1..64 /\ k - 1 = v % 64 /\ v % 64 \in 0..63
  OBVIOUS
<1>2. Char(v) = x
  BY DEF Char
<1> HIDE DEF k
<1>3. x \in S /\ x # "="
  BY <1>1, AlphabetDiffers
<1>4. DOMAIN B64 = S /\ B64[x] = (CHOOSE i \in 1..64 : Alphabet[i] = x) - 1
  BY <1>3 DEF B64
<1>5. \A i \in 1..64 : Alphabet[i] = x => i = k
  BY <1>1, AlphabetDiffers
<1>6. (CHOOSE i \in 1..64 : Alphabet[i] = x) = k
  BY <1>1, <1>5
<1> QED BY <1>1, <1>2, <1>3, <1>4, <1>6 DEF IsBase64

\* A group is accepted and gives its bytes back.
LEMMA GroupDecoded ==
  ASSUME NEW in, in[1] \in 0..255, in[2] \in 0..255, in[3] \in 0..255, NEW n \in Nat \ {0},
         NEW last \in BOOLEAN, n < 3 => last
  PROVE  /\ Accepted(EncodedGroup(in, n), last)
         /\ DecodedGroup(EncodedGroup(in, n)) =
              (IF n = 1 THEN <<in[1]>> ELSE IF n = 2 THEN <<in[1], in[2]>>
               ELSE <<in[1], in[2], in[3]>>)
<1> DEFINE a == in[1]
           b == in[2]
           c == in[3]
           g == EncodedGroup(in, n)
           w1 == a \div 4
           w2 == a * 16 + (b \div 16)
           w3 == b * 4 + (c \div 64)
<1>1. a \in 0..255 /\ b \in 0..255 /\ c \in 0..255
  OBVIOUS
<1>2. g = << Char(w1), Char(w2), IF n >= 2 THEN Char(w3) ELSE "=", IF n >= 3 THEN Char(c) ELSE "=" >>
  BY DEF EncodedGroup, Char
<1> HIDE DEF a, b, c, g
<1>3. w1 \in Nat /\ w2 \in Nat /\ w3 \in Nat /\ c \in Nat
  BY <1>1
<1> DEFINE v1 == w1 % 64
           v2 == w2 % 64
           v3 == w3 % 64
           v4 == c % 64
<1>14. v1 = (a \div 4) % 64 /\ v2 = (a * 16 + (b \div 16)) % 64 /\ v3 = (b * 4 + (c \div 64)) % 64
       /\ v4 = c % 64
  OBVIOUS
<1>4. /\ (v1 * 4 + (v2 \div 16)) % 256 = a
      /\ (v2 * 16 + (v3 \div 4)) % 256 = b
      /\ (v3 * 64 + v4) % 256 = c
  <2> HIDE DEF v1, v2, v3, v4, w1, w2, w3
  <2>1. (v1 * 4 + (v2 \div 16)) % 256 = a
    <3>1. v1 = a \div 4
      BY <1>1, <1>14
    <3>2. v2 = (a % 4) * 16 + (b \div 16)
      BY <1>1, <1>14
    <3>3. v2 \div 16 = a % 4
      BY <1>1, <3>2
    <3>4. v1 * 4 + (v2 \div 16) = a
      BY <1>1, <3>1, <3>3
    <3> QED BY <1>1, <3>4
  <2>2. (v2 * 16 + (v3 \div 4)) % 256 = b
    <3>1. v2 = (a % 4) * 16 + (b \div 16)
      BY <1>1, <1>14
    <3>2. v3 = (b % 16) * 4 + (c \div 64)
      BY <1>1, <1>14
    <3>3. v3 \div 4 = b % 16
      BY <1>1, <3>2
    <3>4. v2 * 16 + (v3 \div 4) = 256 * (a % 4) + b
      BY <1>1, <3>1, <3>3
    <3> QED BY <1>1, <3>4
  <2>3. (v3 * 64 + v4) % 256 = c
    BY <1>1, <1>14
  <2> QED BY <2>1, <2>2, <2>3
<1>5. /\ IsBase64(Char(w1)) /\ B64[Char(w1)] = v1
      /\ IsBase64(Char(w2)) /\ B64[Char(w2)] = v2
      /\ IsBase64(Char(w3)) /\ B64[Char(w3)] = v3 /\ Char(w3) # "="
      /\ IsBase64(Char(c)) /\ B64[Char(c)] = v4 /\ Char(c) # "="
  BY <1>3, CharIs
<1> HIDE DEF w1, w2, w3, v1, v2, v3, v4
<1>6. /\ g[1] = Char(w1) /\ g[2] = Char(w2)
      /\ g[3] = (IF n >= 2 THEN Char(w3) ELSE "=") /\ g[4] = (IF n >= 3 THEN Char(c) ELSE "=")
  BY <1>2
<1> HIDE DEF Char
<1>7. Accepted(g, last)
  BY <1>5, <1>6 DEF Accepted
<1>8. DecodedGroup(g) = << (B64[g[1]] * 4 + (B64[g[2]] \div 16)) % 256 >>
        \o (IF g[3] = "=" THEN <<>> ELSE << (B64[g[2]] * 16 + (B64[g[3]] \div 4)) % 256 >>)
        \o (IF g[4] = "=" THEN <<>> ELSE << (B64[g[3]] * 64 + B64[g[4]]) % 256 >>)
  BY DEF DecodedGroup
<1> DEFINE p == (B64[g[1]] * 4 + (B64[g[2]] \div 16)) % 256
           q == (B64[g[2]] * 16 + (B64[g[3]] \div 4)) % 256
           r == (B64[g[3]] * 64 + B64[g[4]]) % 256
<1>12. /\ p = a /\ (n >= 2 => q = b /\ g[3] # "=") /\ (n >= 3 => r = c /\ g[4] # "=")
       /\ (n < 2 => g[3] = "=") /\ (n < 3 => g[4] = "=")
  BY <1>4, <1>5, <1>6
<1>13. DecodedGroup(g) = <<p>> \o (IF g[3] = "=" THEN <<>> ELSE <<q>>) \o (IF g[4] = "=" THEN <<>> ELSE <<r>>)
  BY <1>8
<1> HIDE DEF p, q, r
<1>9. CASE n = 1
  <2>1. g[3] = "=" /\ g[4] = "=" /\ p = a
    BY <1>9, <1>12
  <2>2. DecodedGroup(g) = <<p>> \o <<>> \o <<>>
    BY <1>13, <2>1, Zenon
  <2>3. <<a>> \o <<>> \o <<>> = <<a>>
    BY <1>1, OnesJoined
  <2> QED BY <1>7, <1>9, <2>1, <2>2, <2>3 DEF a, g
<1>10. CASE n = 2
  <2>1. DecodedGroup(g) = <<p>> \o <<q>> \o <<>> /\ p = a /\ q = b
    BY <1>10, <1>12, <1>13
  <2>2. <<a>> \o <<b>> \o <<>> = <<a, b>>
    BY <1>1, OnesJoined
  <2> QED BY <1>7, <1>10, <2>1, <2>2 DEF a, b, g
<1>11. CASE n # 1 /\ n # 2
  <2>1. n >= 3
    BY <1>11
  <2>2. DecodedGroup(g) = <<p>> \o <<q>> \o <<r>> /\ p = a /\ q = b /\ r = c
    BY <1>12, <1>13, <2>1
  <2>3. <<a>> \o <<b>> \o <<c>> = <<a, b, c>>
    BY <1>1, OnesJoined
  <2> QED BY <1>7, <1>11, <2>2, <2>3 DEF a, b, c, g
<1> QED BY <1>9, <1>10, <1>11

\* The bytes behind the first group.
After(data) == SubSeq(data, 4, Len(data))

\* They are three less.
LEMMA AfterIs ==
  ASSUME NEW data \in Seq(Byte)
  PROVE  /\ After(data) \in Seq(Byte)
         /\ Len(After(data)) = IF Len(data) >= 3 THEN Len(data) - 3 ELSE 0
         /\ \A i \in Nat \ {0} : Len(data) >= 3 => ByteAt(After(data), i) = ByteAt(data, i + 3)
         /\ data # <<>> => Length(After(data)) < Length(data)
<1> DEFINE n == Len(data)
           s == After(data)
<1>1. n \in Nat /\ (data # <<>> => n > 0)
  OBVIOUS
<1>2. /\ s \in Seq(Byte) /\ Len(s) = (IF n >= 3 THEN n - 3 ELSE 0)
      /\ \A i \in 1..Len(s) : s[i] = data[i + 3]
  BY SubSeqProperties DEF After
<1> HIDE DEF s
<1>3. ASSUME NEW i \in Nat \ {0}, n >= 3 PROVE ByteAt(s, i) = ByteAt(data, i + 3)
  <2>1. i <= Len(s) => i \in 1..Len(s)
    BY <1>2
  <2> QED BY <1>1, <1>2, <1>3, <2>1 DEF ByteAt
<1> QED BY <1>1, <1>2, <1>3 DEF s, Length

\* The text is a group and the text of the bytes behind it.
LEMMA EncodeParts ==
  ASSUME NEW data \in Seq(Byte), data # <<>>
  PROVE  /\ Len(Encode(data)) \in Nat /\ Len(Encode(data)) >= 4
         /\ SubSeq(Encode(data), 5, Len(Encode(data))) = Encode(After(data))
         /\ (Encode(After(data)) = <<>>) = (Len(data) <= 3)
         /\ \A i \in 1..4 : SubSeq(Encode(data), 1, 4)[i] = GroupAt(data, 0)[i]
<1> DEFINE n == Len(data)
           x == Encode(data)
           t == After(data)
           y == Encode(t)
           z == SubSeq(x, 5, Len(x))
           e == EncodedLength(n)
<1>1. n \in Nat /\ n > 0
  OBVIOUS
<1>2. t \in Seq(Byte) /\ Len(t) = (IF n >= 3 THEN n - 3 ELSE 0)
  BY AfterIs
<1>3. x \in Texts /\ Len(x) = e /\ y \in Texts /\ Len(y) = EncodedLength(Len(t))
  BY <1>2, EncodeIs
<1> HIDE DEF t
<1>4. e \in Nat /\ e >= 4 /\ (n >= 3 => EncodedLength(n - 3) = e - 4) /\ (n <= 3 => e = 4)
      /\ EncodedLength(0) = 0 /\ (n > 3 => e > 4)
  BY <1>1 DEF EncodedLength
<1>5. Len(y) = e - 4
  BY <1>1, <1>2, <1>3, <1>4
<1>6. /\ \A k \in 1..e : x[k] = GroupAt(data, (k - 1) \div 4)[((k - 1) % 4) + 1]
      /\ \A k \in 1..(e - 4) : y[k] = GroupAt(t, (k - 1) \div 4)[((k - 1) % 4) + 1]
  <2>1. x = [k \in 1..e |-> GroupAt(data, (k - 1) \div 4)[((k - 1) % 4) + 1]]
    BY EncodeUnfolded
  <2>2. y = [k \in 1..(e - 4) |-> GroupAt(t, (k - 1) \div 4)[((k - 1) % 4) + 1]]
    BY <1>3, <1>5, EncodeUnfolded
  <2> HIDE DEF x, y, e
  <2> QED BY <2>1, <2>2
<1> HIDE DEF x, y, e
<1>7. z \in Texts /\ Len(z) = e - 4 /\ \A k \in 1..(e - 4) : z[k] = x[4 + k]
  <2>1. 4 \in Nat /\ 4 <= Len(x) /\ 4 + 1 = 5
    BY <1>3, <1>4
  <2> QED BY <1>3, <2>1, RestIs
<1> HIDE DEF z
<1>8. ASSUME NEW k \in 1..(e - 4) PROVE z[k] = y[k]
  <2> DEFINE g == (k - 1) \div 4
             j == ((k - 1) % 4) + 1
  <2>1. 4 + k \in 1..e /\ g \in Nat /\ (4 + k - 1) \div 4 = g + 1 /\ ((4 + k - 1) % 4) + 1 = j
    BY <1>4
  <2>2. z[k] = GroupAt(data, g + 1)[j] /\ y[k] = GroupAt(t, g)[j]
    BY <1>6, <1>7, <2>1
  <2>3. n >= 3
    BY <1>1, <1>4
  <2> HIDE DEF g, j
  <2>4. \A i \in 1..3 : ByteAt(data, 3 * (g + 1) + i) = ByteAt(t, 3 * g + i)
    <3> TAKE i \in 1..3
    <3>1. 3 * g + i \in Nat \ {0} /\ 3 * g + i + 3 = 3 * (g + 1) + i
      BY <2>1
    <3> QED BY <2>3, <3>1, AfterIs DEF t
  <2>5. Len(data) - 3 * (g + 1) = Len(t) - 3 * g
    BY <1>1, <1>2, <2>1, <2>3
  <2>6. [i \in 1..3 |-> ByteAt(data, 3 * (g + 1) + i)] = [i \in 1..3 |-> ByteAt(t, 3 * g + i)]
    BY <2>4
  <2>7. GroupAt(data, g + 1) = GroupAt(t, g)
    BY <2>5, <2>6 DEF GroupAt
  <2> QED BY <2>2, <2>7
<1>9. z = y
  <2>1. y \in Seq(Symbols) /\ z \in Seq(Symbols) /\ Len(z) = Len(y) /\ \A k \in 1..Len(z) : z[k] = y[k]
    BY <1>3, <1>5, <1>7, <1>8 DEF Texts
  <2> QED BY <2>1, SeqEqual
<1>10. (y = <<>>) = (n <= 3)
  <2>1. (y = <<>>) = (Len(y) = 0)
    BY <1>3 DEF Texts
  <2> QED BY <1>1, <1>4, <1>5, <2>1
<1>11. ASSUME NEW i \in 1..4 PROVE SubSeq(x, 1, 4)[i] = GroupAt(data, 0)[i]
  <2>1. SubSeq(x, 1, 4)[i] = x[i]
    BY <1>3, <1>4, SubSeqProperties DEF Texts
  <2>2. (i - 1) \div 4 = 0 /\ ((i - 1) % 4) + 1 = i /\ i \in 1..e
    BY <1>4
  <2> QED BY <1>6, <2>1, <2>2
<1> QED BY <1>3, <1>4, <1>9, <1>10, <1>11 DEF x, y, z, t

\* The bytes of the first group and those behind it.
LEMMA BytesInTwo ==
  ASSUME NEW data \in Seq(Byte), data # <<>>,
         NEW g, g = IF Len(data) = 1 THEN <<ByteAt(data, 1)>>
                    ELSE IF Len(data) = 2 THEN <<ByteAt(data, 1), ByteAt(data, 2)>>
                    ELSE <<ByteAt(data, 1), ByteAt(data, 2), ByteAt(data, 3)>>
  PROVE  Cat(g, After(data)) = data
<1> DEFINE n == Len(data)
           k == IF n >= 3 THEN 3 ELSE n
           t == After(data)
<1>1. n \in Nat /\ n > 0
  OBVIOUS
<1>2. t \in Seq(Byte) /\ Len(t) = (IF n >= 3 THEN n - 3 ELSE 0)
  BY AfterIs
<1>3. /\ ByteAt(data, 1) = data[1] /\ (n >= 2 => ByteAt(data, 2) = data[2])
      /\ (n >= 3 => ByteAt(data, 3) = data[3])
  BY <1>1 DEF ByteAt
<1>4. \A i \in 1..n : data[i] \in Byte
  OBVIOUS
<1>5. g \in Seq(Byte) /\ Len(g) = k /\ \A i \in 1..k : g[i] = data[i]
  <2>1. CASE n = 1
    <3>1. g = <<data[1]>> /\ data[1] \in Byte /\ k = 1
      BY <1>3, <1>4, <2>1
    <3> QED BY <3>1
  <2>2. CASE n = 2
    <3>1. g = <<data[1], data[2]>> /\ data[1] \in Byte /\ data[2] \in Byte /\ k = 2
      BY <1>3, <1>4, <2>2
    <3> QED BY <3>1
  <2>3. CASE n >= 3
    <3>1. g = <<data[1], data[2], data[3]>> /\ k = 3
          /\ data[1] \in Byte /\ data[2] \in Byte /\ data[3] \in Byte
      BY <1>1, <1>3, <1>4, <2>3
    <3> QED BY <3>1
  <2> QED BY <1>1, <2>1, <2>2, <2>3
<1>6. \A i \in 1..Len(t) : t[i] = data[i + 3]
  BY SubSeqProperties DEF After
<1> HIDE DEF t
<1> DEFINE u == g \o t
<1>7. /\ u \in Seq(Byte) /\ Len(u) = Len(g) + Len(t)
      /\ \A i \in 1..(Len(g) + Len(t)) : u[i] = IF i <= Len(g) THEN g[i] ELSE t[i - Len(g)]
  <2> HIDE DEF k
  <2>1. g \in Seq(Byte) /\ t \in Seq(Byte)
    BY <1>2, <1>5
  <2> QED BY <2>1, ConcatProperties
<1> HIDE DEF u
<1>8. Len(u) = n
  BY <1>1, <1>2, <1>5, <1>7
<1>9. ASSUME NEW i \in 1..n PROVE u[i] = data[i]
  <2>1. CASE i <= k
    <3>2. Len(g) = k /\ k \in Nat /\ Len(t) \in Nat
      BY <1>1, <1>2, <1>5
    <3>1. i \in 1..k /\ i <= Len(g) /\ i \in 1..(Len(g) + Len(t))
      <4> DEFINE p == Len(g)
                 q == Len(t)
      <4>1. p = k /\ k \in Nat /\ q \in Nat
        BY <3>2
      <4> HIDE DEF k, p, q
      <4>2. i \in 1..k /\ i <= p /\ i \in 1..(p + q)
        BY <1>1, <2>1, <4>1
      <4> QED BY <4>2 DEF p, q
    <3> HIDE DEF k
    <3> QED BY <1>5, <1>7, <3>1
  <2>2. CASE ~ (i <= k)
    <3>1. n >= 3 /\ k = 3 /\ i - 3 \in 1..Len(t) /\ (i - 3) + 3 = i
      BY <1>1, <1>2, <2>2
    <3>2. u[i] = t[i - 3]
      BY <1>1, <1>2, <1>5, <1>7, <1>8, <2>2, <3>1
    <3> QED BY <1>6, <3>1, <3>2
  <2> QED BY <2>1, <2>2
<1>10. u = data
  BY <1>7, <1>8, <1>9, SeqEqual
<1> QED BY <1>10 DEF Cat, u, t

\* base64_decode gives back the bytes that base64_encode wrote.
THEOREM DecodeEncode ==
  ASSUME NEW data \in Seq(Byte)
  PROVE  Decode[Encode(data)] = [ok |-> TRUE, bytes |-> data]
<1> DEFINE D == Seq(Byte)
           m == [d \in D |-> Length(d)]
           P == {d \in D : Decode[Encode(d)] = [ok |-> TRUE, bytes |-> d]}
<1>1. m \in [D -> Nat] /\ \A d \in D : m[d] = Length(d)
  <2>1. \A d \in D : Length(d) \in Nat
    BY DEF Length
  <2> QED BY <2>1
<1>2. ASSUME NEW d \in D, \A t \in D : m[t] < m[d] => t \in P
      PROVE  d \in P
  <2> DEFINE n == Len(d)
             x == Encode(d)
             t == After(d)
             y == Encode(t)
             c == SubSeq(x, 1, 4)
             g == GroupAt(d, 0)
             in == [i \in 1..3 |-> ByteAt(d, 3 * 0 + i)]
  <2>1. x \in Texts /\ Len(x) = EncodedLength(n) /\ n \in Nat
    BY EncodeIs
  <2>2. Decode[x] = DecodeStep(Decode, x)
    BY <2>1, DecodeIs
  <2>3. CASE d = <<>>
    <3>1. n = 0 /\ EncodedLength(0) = 0
      BY <2>3 DEF EncodedLength
    <3>2. x = <<>>
      BY <2>1, <3>1 DEF Texts
    <3>3. Decode[x] = [ok |-> TRUE, bytes |-> <<>>]
      BY <2>2, <3>2 DEF DecodeStep
    <3> QED BY <2>3, <3>3
  <2>4. CASE d # <<>>
    <3>1. /\ Len(x) \in Nat /\ Len(x) >= 4 /\ SubSeq(x, 5, Len(x)) = y /\ (y = <<>>) = (n <= 3)
          /\ \A i \in 1..4 : c[i] = g[i]
      BY <2>4, EncodeParts
    <3>2. t \in D /\ Length(t) < Length(d)
      BY <2>4, AfterIs
    <3>3. Decode[y] = [ok |-> TRUE, bytes |-> t]
      BY <1>1, <1>2, <3>2
    <3>4. in[1] = ByteAt(d, 1) /\ in[2] = ByteAt(d, 2) /\ in[3] = ByteAt(d, 3)
      OBVIOUS
    <3>5. in[1] \in 0..255 /\ in[2] \in 0..255 /\ in[3] \in 0..255
      BY <3>4, ByteTyped
    <3>6. g = EncodedGroup(in, n)
      <4>1. n - 3 * 0 = n
        BY <2>1
      <4> QED BY <4>1 DEF GroupAt
    <3> DEFINE last == (y = <<>>)
    <3>7. last \in BOOLEAN /\ (n < 3 => last) /\ n \in Nat \ {0}
      BY <2>1, <2>4, <3>1
    <3> HIDE DEF in, last, x, y, t, n, g, c
    <3> DEFINE b == IF n = 1 THEN <<in[1]>> ELSE IF n = 2 THEN <<in[1], in[2]>>
                    ELSE <<in[1], in[2], in[3]>>
    <3>8. Accepted(g, last) /\ DecodedGroup(g) = b
      BY <3>5, <3>6, <3>7, GroupDecoded
    <3>9. Accepted(c, last) = Accepted(g, last) /\ DecodedGroup(c) = DecodedGroup(g)
      <4>1. c[1] = g[1] /\ c[2] = g[2] /\ c[3] = g[3] /\ c[4] = g[4]
        BY <3>1
      <4> QED BY <4>1 DEF Accepted, DecodedGroup
    <3>10. Cat(b, t) = d
      <4> DEFINE h == IF Len(d) = 1 THEN <<ByteAt(d, 1)>>
                      ELSE IF Len(d) = 2 THEN <<ByteAt(d, 1), ByteAt(d, 2)>>
                      ELSE <<ByteAt(d, 1), ByteAt(d, 2), ByteAt(d, 3)>>
      <4>1. b = h
        BY <3>4 DEF n
      <4> HIDE DEF b
      <4>2. Cat(h, After(d)) = d
        BY <2>4, BytesInTwo
      <4> QED BY <4>1, <4>2 DEF t
    <3> HIDE DEF b
    <3>11. x # <<>> /\ ~ (Len(x) < 4)
      BY <3>1
    <3>12. Decode[x] = [ok |-> Decode[y].ok, bytes |-> DecodedGroup(c) \o Decode[y].bytes]
      BY <2>2, <3>1, <3>8, <3>9, <3>11 DEF DecodeStep, c, last
    <3>13. Decode[x] = [ok |-> TRUE, bytes |-> Cat(b, t)]
      BY <3>3, <3>8, <3>9, <3>12 DEF Cat
    <3> QED BY <3>10, <3>13 DEF x
  <2> QED BY <2>3, <2>4
<1> HIDE DEF P, D, m
<1>3. D \subseteq P
  BY <1>1, <1>2, MeasureInduction
<1> QED BY <1>3 DEF P, D

(***************************************************************************)
(* Strings are read as they were written.                                  *)
(***************************************************************************)
\* What is behind a place of a text.
LEMMA FromIs ==
  ASSUME NEW s \in Texts, NEW i \in Nat \ {0}
  PROVE  /\ From(s, i) \in Texts
         /\ i <= Len(s) + 1 => Len(From(s, i)) = Len(s) + 1 - i
         /\ i > Len(s) + 1 => Len(From(s, i)) = 0
<1>1. Len(s) \in Nat
  BY TextsAre
<1>2. CASE i <= Len(s) + 1
  BY <1>1, <1>2, SubSeqProperties DEF Texts, From
<1>3. CASE i > Len(s) + 1
  BY <1>1, <1>3, SubSeqProperties DEF Texts, From
<1> QED BY <1>1, <1>2, <1>3

\* A text in front of another.
LEMMA BehindText ==
  ASSUME NEW a \in Texts, NEW b \in Texts
  PROVE  /\ From(Cat(a, b), Len(a) + 1) = b
         /\ \A i \in 1..Len(a) : Cat(a, b)[i] = a[i]
         /\ Len(Cat(a, b)) = Len(a) + Len(b)
<1> DEFINE w == a \o b
           n == Len(a)
           k == Len(b)
<1>1. n \in Nat /\ k \in Nat
  BY TextsAre
<1>2. /\ w \in Texts /\ Len(w) = n + k
      /\ \A i \in 1..(n + k) : w[i] = IF i <= n THEN a[i] ELSE b[i - n]
  BY ConcatProperties DEF Texts
<1> HIDE DEF w, n, k
<1> DEFINE z == SubSeq(w, n + 1, Len(w))
<1>3. z \in Texts /\ Len(z) = k /\ \A i \in 1..k : z[i] = w[n + i]
  <2>1. w \in Texts /\ n \in Nat /\ n <= Len(w) /\ Len(w) - n = k
    BY <1>1, <1>2
  <2> DEFINE x == Len(w) - n
  <2>2. z \in Texts /\ Len(z) = x /\ \A i \in 1..x : z[i] = w[n + i]
    BY <2>1, RestIs
  <2>3. x = k
    BY <2>1
  <2> HIDE DEF x, z
  <2> QED BY <2>2, <2>3
<1> HIDE DEF z
<1>4. ASSUME NEW i \in 1..k PROVE z[i] = b[i]
  <2>1. n + i \in 1..(n + k) /\ ~ (n + i <= n) /\ (n + i) - n = i
    BY <1>1
  <2> QED BY <1>2, <1>3, <2>1
<1>5. z = b
  <2>1. z \in Seq(Symbols) /\ b \in Seq(Symbols) /\ Len(z) = Len(b) /\ \A i \in 1..Len(z) : z[i] = b[i]
    BY <1>3, <1>4 DEF Texts, k
  <2> QED BY <2>1, SeqEqual
<1>6. \A i \in 1..n : w[i] = a[i]
  BY <1>1, <1>2
<1> QED BY <1>2, <1>5, <1>6 DEF Cat, From, n, k, w, z

\* What each character is escaped to.
LEMMA EscapesTable ==
  /\ Escapes[Quote] = Quote /\ Escapes[Backslash] = Backslash /\ Escapes["bs"] = "b"
  /\ Escapes["\f"] = "f" /\ Escapes[Newline] = "n" /\ Escapes["\r"] = "r" /\ Escapes[Tab] = "t"
BY ZenonT(60) DEF Escapes, Escapable, Quote, Backslash, Newline, Tab

\* No two are escaped to the same, and none to the letter of a code.
LEMMA EscapesDiffer ==
  /\ \A x, y \in Escapable : Escapes[x] = Escapes[y] => x = y
  /\ \A x \in Escapable : Escapes[x] # "u"
<1>1. /\ Quote # Backslash /\ Quote # "b" /\ Quote # "f" /\ Quote # "n" /\ Quote # "r" /\ Quote # "t"
      /\ Backslash # "b" /\ Backslash # "f" /\ Backslash # "n" /\ Backslash # "r" /\ Backslash # "t"
      /\ Quote # "u" /\ Backslash # "u"
  BY ZenonT(60) DEF Quote, Backslash
<1>2. Escapable = {Quote, Backslash, "bs", "\f", Newline, "\r", Tab}
  BY DEF Escapable
<1> DEFINE ff == "\f"
           cr == "\r"
<1>3. /\ Escapes[Quote] = Quote /\ Escapes[Backslash] = Backslash /\ Escapes["bs"] = "b"
      /\ Escapes[ff] = "f" /\ Escapes[Newline] = "n" /\ Escapes[cr] = "r" /\ Escapes[Tab] = "t"
      /\ Escapable = {Quote, Backslash, "bs", ff, Newline, cr, Tab}
  BY <1>2, EscapesTable
<1> HIDE DEF ff, cr
<1> QED BY <1>1, <1>3

\* The first character of an escaped text is read as the one that was escaped.
LEMMA UnescapedIs ==
  ASSUME NEW c \in Symbols, NEW u \in Texts
  PROVE  LET w == Cat(Escape(c), u)
         IN  /\ w \in Texts /\ w # <<>> /\ w[1] # Quote
             /\ Unescaped(w).is = c /\ Unescaped(w).len \in Nat \ {0}
             /\ From(w, Unescaped(w).len + 1) = u
<1> DEFINE e == Escape(c)
           w == Cat(e, u)
           k == Len(e)
<1>1. e \in Texts /\ k = 1 + More(c)
  BY EscapeIs
<1>2. /\ From(w, k + 1) = u /\ (\A i \in 1..k : w[i] = e[i]) /\ Len(w) = k + Len(u)
      /\ Len(u) \in Nat /\ w \in Texts
  BY <1>1, BehindText, TextsAre
<1> HIDE DEF w, e, k
<1>3. Backslash # Quote
  BY ZenonT(60) DEF Backslash, Quote
<1>4. CASE c \in Escapable
  <2>1. e = <<Backslash, Escapes[c]>>
    BY <1>4, CtlIs DEF Escape, e
  <2>2. k = 2 /\ e[1] = Backslash /\ e[2] = Escapes[c]
    BY <2>1 DEF k
  <2>3. w[1] = Backslash /\ w[2] = Escapes[c] /\ Len(w) >= 2 /\ Len(w) # 1 /\ w # <<>>
    BY <1>2, <2>2
  <2>4. {x \in Escapable : Escapes[x] = w[2]} = {c}
    BY <1>4, <2>3, EscapesDiffer
  <2>5. w[2] # "u"
    BY <1>4, <2>3, EscapesDiffer
  <2>6. Unescaped(w) = [is |-> c, len |-> 2]
    BY <2>3, <2>4, <2>5 DEF Unescaped
  <2> QED BY <1>2, <1>3, <2>2, <2>3, <2>6 DEF w, e
<1>5. CASE c = "ctl"
  <2>1. e = <<Backslash, "u", "0", "0", "0", "1">>
    BY <1>5, CtlIs DEF Escape, e
  <2>2. k = 6 /\ e[1] = Backslash /\ e[2] = "u"
    BY <2>1 DEF k
  <2>3. w[1] = Backslash /\ w[2] = "u" /\ Len(w) >= 6 /\ Len(w) # 1 /\ w # <<>>
    BY <1>2, <2>2
  <2>4. Unescaped(w) = [is |-> "ctl", len |-> 6]
    BY <2>3 DEF Unescaped
  <2> QED BY <1>2, <1>3, <1>5, <2>2, <2>3, <2>4 DEF w, e
<1>6. CASE c \notin Escapable /\ c # "ctl"
  <2>1. e = <<c>> /\ c # Backslash /\ c # Quote
    BY <1>6 DEF Escape, Escapable, e
  <2>2. k = 1 /\ e[1] = c
    BY <2>1 DEF k
  <2>3. w[1] = c /\ Len(w) >= 1 /\ w # <<>>
    BY <1>2, <2>2
  <2>4. Unescaped(w) = [is |-> c, len |-> 1]
    BY <2>1, <2>3 DEF Unescaped
  <2> QED BY <1>2, <2>1, <2>2, <2>3, <2>4 DEF w, e
<1> QED BY <1>4, <1>5, <1>6

\* How long an escape may be.
LEMMA UnescapedLen == \A s : Unescaped(s).len \in {1, 2, 6}
<1> TAKE s
<1>1. CASE s[1] # Backslash
  BY <1>1 DEF Unescaped
<1>2. CASE s[1] = Backslash /\ Len(s) = 1
  BY <1>2 DEF Unescaped
<1>3. CASE s[1] = Backslash /\ Len(s) # 1
  <2> DEFINE c == {x \in Escapable : Escapes[x] = s[2]}
  <2>1. Unescaped(s) = IF s[2] = "u" THEN [is |-> "ctl", len |-> 6]
                       ELSE [is |-> IF c = {} THEN s[2] ELSE CHOOSE x \in c : TRUE, len |-> 2]
    BY <1>3 DEF Unescaped
  <2> HIDE DEF c
  <2> QED BY <2>1
<1> QED BY <1>1, <1>2, <1>3

\* One step of StringBody.
StringBodyStep(f, s) ==
  IF s = <<>> \/ StartsWith(s, Quote) THEN [text |-> <<>>, rest |-> From(s, 2)]
  ELSE LET more == f[From(s, Unescaped(s).len + 1)]
       IN [text |-> <<Unescaped(s).is>> \o more.text, rest |-> more.rest]

\* A step looks at what is behind the first character only.
LEMMA StringBodySame ==
  ASSUME NEW s \in Texts, NEW f, NEW g, \A t \in Texts : Length(t) < Length(s) => f[t] = g[t]
  PROVE  StringBodyStep(f, s) = StringBodyStep(g, s)
<1>1. CASE s = <<>> \/ StartsWith(s, Quote)
  BY <1>1 DEF StringBodyStep
<1>2. CASE ~ (s = <<>> \/ StartsWith(s, Quote))
  <2> DEFINE k == Unescaped(s).len
             t == From(s, k + 1)
  <2>1. k \in {1, 2, 6}
    BY UnescapedLen
  <2>2. Len(s) \in Nat \ {0}
    BY <1>2 DEF Texts
  <2> HIDE DEF k
  <2>3. k + 1 \in Nat \ {0}
    BY <2>1
  <2>4. t \in Texts /\ (k + 1 <= Len(s) + 1 => Len(t) = Len(s) + 1 - (k + 1))
        /\ (k + 1 > Len(s) + 1 => Len(t) = 0)
    BY <2>3, FromIs
  <2> HIDE DEF t
  <2>5. Len(t) < Len(s)
    BY <2>1, <2>2, <2>4
  <2>6. f[t] = g[t]
    BY <2>4, <2>5 DEF Length
  <2> QED BY <1>2, <2>6 DEF StringBodyStep, t, k
<1> QED BY <1>1, <1>2

\* What parse_string reads behind the quote.
LEMMA StringBodyIs == DOMAIN StringBody = Texts /\ \A s \in Texts : StringBody[s] = StringBodyStep(StringBody, s)
<1> DEFINE D == Texts
           m == [s \in D |-> Length(s)]
           Body(f) == [s \in D |-> StringBodyStep(f, s)]
           Upon(f, n) == \A s \in D : m[s] < n => f[s] = StringBodyStep(f, s)
<1>1. m \in [D -> Nat] /\ \A s \in D : m[s] = Length(s)
  BY TextLength
<1>2. ASSUME NEW s \in D, NEW f, NEW g, \A t \in D : m[t] < m[s] => f[t] = g[t]
      PROVE  StringBodyStep(f, s) = StringBodyStep(g, s)
  BY <1>1, <1>2, StringBodySame
<1>3. StringBody = CHOOSE f : f = Body(f)
  BY DEF StringBody, StringBodyStep
<1> HIDE DEF D, m
<1>4. ASSUME NEW n \in Nat, NEW f, NEW g, Upon(f, n), Upon(g, n), NEW s \in D, m[s] < n
      PROVE  f[s] = g[s]
  <2> DEFINE P == {x \in D : m[x] < n => f[x] = g[x]}
  <2>1. ASSUME NEW x \in D, \A t \in D : m[t] < m[x] => t \in P PROVE x \in P
    <3>1. CASE m[x] < n
      <4>1. \A t \in D : m[t] < m[x] => f[t] = g[t]
        BY <1>1, <2>1, <3>1
      <4>2. StringBodyStep(f, x) = StringBodyStep(g, x)
        BY <1>2, <4>1
      <4> QED BY <1>4, <3>1, <4>2
    <3> QED BY <3>1
  <2>2. D \subseteq P
    <3> HIDE DEF P
    <3> QED BY <1>1, <2>1, MeasureInduction
  <2> QED BY <1>4, <2>2
<1>5. \A n \in Nat : \E f : Upon(f, n)
  <2> DEFINE N == {n \in Nat : \E f : Upon(f, n)}
  <2>1. 0 \in N
    <3>1. \A s \in D : ~ (m[s] < 0)
      BY <1>1
    <3> QED BY <3>1
  <2>2. ASSUME NEW n \in Nat, n \in N PROVE n + 1 \in N
    <3>1. PICK f : Upon(f, n)
      BY <2>2
    <3> DEFINE g == Body(f)
    <3>2. \A s \in D : g[s] = StringBodyStep(f, s)
      OBVIOUS
    <3>3. \A s \in D : m[s] < n => f[s] = g[s]
      BY <3>1, <3>2
    <3> HIDE DEF g
    <3>4. ASSUME NEW s \in D, m[s] < n + 1 PROVE g[s] = StringBodyStep(g, s)
      <4>1. \A t \in D : m[t] < m[s] => f[t] = g[t]
        BY <1>1, <3>3, <3>4
      <4>2. StringBodyStep(f, s) = StringBodyStep(g, s)
        BY <1>2, <4>1
      <4> QED BY <3>2, <4>2
    <3>5. Upon(g, n + 1)
      BY <3>4
    <3> HIDE DEF Upon
    <3> QED BY <3>5
  <2> HIDE DEF N
  <2>3. \A n \in Nat : n \in N
    BY <2>1, <2>2, SetInduction
  <2> QED BY <2>3 DEF N
<1> DEFINE Some(s) == CHOOSE f : Upon(f, m[s] + 1)
           F == [s \in D |-> Some(s)[s]]
<1>6. \A s \in D : Upon(Some(s), m[s] + 1) /\ m[s] + 1 \in Nat /\ m[s] \in Nat
  <2> TAKE s \in D
  <2>1. m[s] + 1 \in Nat /\ m[s] \in Nat
    BY <1>1
  <2>2. \E f : Upon(f, m[s] + 1)
    BY <1>5, <2>1
  <2> HIDE DEF Upon
  <2> QED BY <2>1, <2>2
<1>7. \A s \in D : F[s] = Some(s)[s]
  OBVIOUS
<1> HIDE DEF F, Some
<1>8. ASSUME NEW s \in D PROVE F[s] = StringBodyStep(F, s)
  <2>1. ASSUME NEW t \in D, m[t] < m[s] PROVE Some(s)[t] = F[t]
    <3>1. Upon(Some(s), m[t] + 1)
      BY <1>1, <1>6, <2>1
    <3>2. Upon(Some(t), m[t] + 1) /\ m[t] < m[t] + 1 /\ m[t] + 1 \in Nat
      BY <1>6
    <3> HIDE DEF Upon
    <3>3. Some(s)[t] = Some(t)[t]
      BY <1>4, <3>1, <3>2
    <3> QED BY <1>7, <3>3
  <2>2. StringBodyStep(Some(s), s) = StringBodyStep(F, s)
    BY <1>2, <2>1
  <2>3. m[s] < m[s] + 1
    BY <1>6
  <2>4. Some(s)[s] = StringBodyStep(Some(s), s)
    BY <1>6, <2>3
  <2> QED BY <1>7, <2>2, <2>4
<1>9. F = Body(F)
  <2>1. F = [s \in D |-> F[s]]
    BY DEF F
  <2> QED BY <1>8, <2>1
<1> DEFINE G == StringBody
<1>10. G = Body(G)
  <2> HIDE DEF Body
  <2> QED BY <1>3, <1>9
<1> HIDE DEF G
<1>11. DOMAIN G = D /\ \A s \in D : G[s] = StringBodyStep(G, s)
  <2>1. DOMAIN Body(G) = D /\ \A s \in D : Body(G)[s] = StringBodyStep(G, s)
    OBVIOUS
  <2> HIDE DEF Body
  <2> QED BY <1>10, <2>1
<1> QED BY <1>11 DEF D, G

\* A string that is not empty is its first character and the rest, escaped.
LEMMA EscapedParts ==
  /\ Escaped(<<>>) = <<>>
  /\ \A s \in Texts : s # <<>> =>
       /\ Tail(s) \in Texts /\ s[1] \in Symbols /\ Len(Tail(s)) < Len(s)
       /\ Escaped(s) = Cat(Escape(s[1]), Escaped(Tail(s)))
<1>1. Escaped(<<>>) = <<>>
  <2>1. [i \in DOMAIN <<>> |-> Escape(<<>>[i])] = <<>>
    OBVIOUS
  <2> QED BY <2>1, FlattenNothing DEF Escaped
<1>2. ASSUME NEW s \in Texts, s # <<>>
      PROVE  /\ Tail(s) \in Texts /\ s[1] \in Symbols /\ Len(Tail(s)) < Len(s)
             /\ Escaped(s) = Cat(Escape(s[1]), Escaped(Tail(s)))
  <2> DEFINE n == Len(s)
             t == Tail(s)
             p == [i \in 1..n |-> Escape(s[i])]
             q == [i \in 1..(n - 1) |-> Escape(t[i])]
  <2>1. /\ s[1] \in Symbols /\ t \in Texts /\ n \in Nat \ {0} /\ Len(t) = n - 1
        /\ \A i \in 1..(n - 1) : t[i] = s[i + 1]
        /\ DOMAIN s = 1..n
    BY <1>2, HeadAndTail DEF Texts
  <2>2. \A i \in 1..n : s[i] \in Symbols
    BY DEF Texts
  <2> HIDE DEF t, n
  <2>3. p \in Seq(Seq(Symbols)) /\ p # <<>> /\ p[1] = Escape(s[1])
    <3>1. \A i \in 1..n : Escape(s[i]) \in Seq(Symbols)
      BY <2>2, EscapeIs DEF Texts
    <3>2. p = [i \in 1..n |-> p[i]] /\ \A i \in 1..n : p[i] \in Seq(Symbols)
      BY <3>1
    <3>3. p[1] = Escape(s[1])
      BY <2>1
    <3> HIDE DEF p
    <3>4. p \in Seq(Seq(Symbols)) /\ Len(p) = n
      BY <2>1, <3>2
    <3>5. p # <<>>
      BY <2>1, <3>4
    <3> QED BY <3>3, <3>4, <3>5
  <2>4. Tail(p) = q
    <3>1. \A i \in 1..(n - 1) : Escape(t[i]) = Escape(s[i + 1])
      BY <2>1
    <3>2. \A i \in 1..(n - 1) : i + 1 \in 1..n
      BY <2>1
    <3>3. Len(p) = n /\ \A i \in 1..n : p[i] = Escape(s[i])
      BY <2>1
    <3> HIDE DEF p
    <3>4. Tail(p) \in Seq(Seq(Symbols)) /\ Len(Tail(p)) = n - 1 /\ \A i \in 1..(n - 1) : Tail(p)[i] = p[i + 1]
      BY <2>3, <3>3, HeadAndTail
    <3>5. \A i \in 1..(n - 1) : Tail(p)[i] = Escape(t[i])
      BY <3>1, <3>2, <3>3, <3>4
    <3> DEFINE x == Tail(p)
    <3>6. x \in Seq(Seq(Symbols)) /\ Len(x) = n - 1 /\ \A i \in 1..(n - 1) : x[i] = Escape(t[i])
      BY <3>4, <3>5
    <3> HIDE DEF x
    <3>7. x = [i \in 1..(n - 1) |-> x[i]]
      BY <3>6
    <3>8. x = q
      BY <3>6, <3>7
    <3> QED BY <3>8 DEF x
  <2>5. Escaped(s) = FlattenSeq(p)
    BY <2>1 DEF Escaped
  <2>6. DOMAIN t = 1..(n - 1)
    BY <2>1 DEF Texts
  <2>7. Escaped(t) = FlattenSeq(q)
    BY <2>6 DEF Escaped
  <2> HIDE DEF p, q
  <2>8. FlattenSeq(p) = Cat(p[1], FlattenSeq(Tail(p)))
    BY <2>3, FlattenHead
  <2>9. Len(t) < n
    BY <2>1
  <2> QED BY <2>1, <2>3, <2>4, <2>5, <2>7, <2>8, <2>9 DEF t, n
<1> QED BY <1>1, <1>2

\* What is escaped and ends with a quote is read as it was.
LEMMA StringBodyReads ==
  ASSUME NEW s \in Texts, NEW r \in Texts
  PROVE  StringBody[Cat(Escaped(s), Cat(One(Quote), r))] = [text |-> s, rest |-> r]
<1> DEFINE z == Cat(One(Quote), r)
           P == {x \in Texts : StringBody[Cat(Escaped(x), z)] = [text |-> x, rest |-> r]}
           m == [x \in Texts |-> Length(x)]
<1>1. m \in [Texts -> Nat] /\ \A x \in Texts : m[x] = Length(x)
  BY TextLength
<1>2. z \in Texts /\ z # <<>> /\ z[1] = Quote /\ From(z, 2) = r
  <2>1. Quote \in Symbols
    BY SymbolsAre
  <2>2. z \in Texts /\ z # <<>> /\ z[1] = Quote
    BY <2>1, OneInFront DEF Texts
  <2>3. One(Quote) \in Texts /\ Len(One(Quote)) = 1 /\ 1 + 1 = 2
    BY <2>1, Written DEF One
  <2>4. From(z, 2) = r
    <3> DEFINE q == One(Quote)
    <3>1. q \in Texts /\ Len(q) + 1 = 2 /\ z = Cat(q, r)
      BY <2>3
    <3> HIDE DEF q, z
    <3>2. From(Cat(q, r), Len(q) + 1) = r
      BY <3>1, BehindText
    <3> QED BY <3>1, <3>2
  <2> QED BY <2>2, <2>4
<1> HIDE DEF z, m
<1>3. ASSUME NEW x \in Texts, \A t \in Texts : m[t] < m[x] => t \in P PROVE x \in P
  <2>1. CASE x = <<>>
    <3>1. Cat(Escaped(x), z) = z
      BY <1>2, <2>1, EscapedParts, CatEmpty DEF Texts
    <3>2. StringBody[z] = StringBodyStep(StringBody, z)
      BY <1>2, StringBodyIs
    <3>3. StringBody[z] = [text |-> <<>>, rest |-> r]
      BY <1>2, <3>2 DEF StringBodyStep, StartsWith
    <3> QED BY <2>1, <3>1, <3>3
  <2>2. CASE x # <<>>
    <3> DEFINE c == x[1]
               t == Tail(x)
               u == Cat(Escaped(t), z)
               w == Cat(Escape(c), u)
    <3>1. t \in Texts /\ c \in Symbols /\ Len(t) < Len(x) /\ Escaped(x) = Cat(Escape(c), Escaped(t))
      BY <2>2, EscapedParts
    <3>2. x = Cat(One(c), t)
      BY <2>2, HeadAndTail DEF Texts
    <3> HIDE DEF c, t
    <3>3. Escape(c) \in Texts /\ Escaped(t) \in Texts
      BY <3>1, EscapeIs, EscapedIs
    <3>4. u \in Texts
      BY <1>2, <3>3, TextsAre
    <3>5. Cat(Escaped(x), z) = w
      BY <1>2, <3>1, <3>3, CatAssoc DEF Texts
    <3> HIDE DEF u
    <3>6. /\ w \in Texts /\ w # <<>> /\ w[1] # Quote
          /\ Unescaped(w).is = c /\ From(w, Unescaped(w).len + 1) = u
      BY <3>1, <3>4, UnescapedIs
    <3> HIDE DEF w
    <3>7. StringBody[w] = StringBodyStep(StringBody, w)
      BY <3>6, StringBodyIs
    <3>8. StringBody[u] = [text |-> t, rest |-> r]
      BY <1>1, <1>3, <3>1 DEF Length, u
    <3>9. StringBody[w] = [text |-> <<c>> \o t, rest |-> r]
      <4> DEFINE v == From(w, Unescaped(w).len + 1)
                 more == StringBody[v]
      <4>1. ~ (w = <<>> \/ StartsWith(w, Quote))
        BY <3>6 DEF StartsWith
      <4>2. StringBody[w] = [text |-> <<Unescaped(w).is>> \o more.text, rest |-> more.rest]
        BY <3>7, <4>1 DEF StringBodyStep
      <4>3. more = [text |-> t, rest |-> r]
        BY <3>6, <3>8
      <4> HIDE DEF more
      <4>4. more.text = t /\ more.rest = r /\ Unescaped(w).is = c
        BY <3>6, <4>3
      <4> QED BY <4>2, <4>4, Zenon
    <3> QED BY <3>2, <3>5, <3>9 DEF Cat, One
  <2> QED BY <2>1, <2>2
<1>4. Texts \subseteq P
  <2> HIDE DEF P
  <2> QED BY <1>1, <1>3, MeasureInduction
<1> QED BY <1>4 DEF z

\* A printed string is parsed as it was.
THEOREM ParseStringReads ==
  ASSUME NEW s \in Texts, NEW r \in Texts
  PROVE  LET w == Cat(PrintString(s), r)
         IN  /\ w \in Texts /\ w # <<>> /\ w[1] = Quote
             /\ ParseString(w) = Success(CreateString(s), r)
<1> DEFINE q == One(Quote)
           z == Cat(q, r)
           e == Escaped(s)
           u == Cat(e, z)
           w == Cat(PrintString(s), r)
<1>1. q \in Texts /\ e \in Texts /\ Quote \in Symbols
  <2>1. Quote \in Symbols
    BY SymbolsAre
  <2> QED BY <2>1, Written, EscapedIs DEF One
<1>2. z \in Texts
  BY <1>1, TextsAre
<1>3. u \in Texts
  BY <1>1, <1>2, TextsAre
<1>4. StringBody[u] = [text |-> s, rest |-> r]
  BY StringBodyReads
<1>5. PrintString(s) = Cat(Cat(q, e), q)
  BY DEF PrintString, Cat, One
<1>6. w = Cat(q, u)
  <2> HIDE DEF q, e
  <2>1. Cat(q, e) \in Texts
    BY <1>1, TextsAre
  <2> DEFINE a == Cat(q, e)
  <2>2. a \in Texts
    BY <2>1
  <2> HIDE DEF a
  <2>3. Cat(Cat(a, q), r) = Cat(a, z)
    BY <1>1, <2>2, CatAssoc DEF Texts
  <2> HIDE DEF z
  <2>4. Cat(Cat(q, e), z) = Cat(q, Cat(e, z))
    BY <1>1, <1>2, CatAssoc DEF Texts
  <2> QED BY <1>5, <2>3, <2>4 DEF a
<1> HIDE DEF u, w, e, z
<1>7. w \in Texts /\ w # <<>> /\ w[1] = Quote /\ Tail(w) = u
  BY <1>1, <1>3, <1>6, OneInFront DEF Texts
<1>8. ParseString(w) = Success(CreateString(s), r)
  <2> DEFINE b == StringBody[Tail(w)]
  <2>1. StartsWith(w, Quote)
    BY <1>7 DEF StartsWith
  <2>2. ParseString(w) = Success(CreateString(b.text), b.rest)
    BY <2>1 DEF ParseString
  <2>3. b = [text |-> s, rest |-> r]
    BY <1>4, <1>7
  <2> HIDE DEF b
  <2> QED BY <2>2, <2>3
<1> QED BY <1>7, <1>8 DEF w

(***************************************************************************)
(* A parse function gives a text that is no longer than the one it read,   *)
(* so that cJSON_Parse comes to an end on any text.                        *)
(***************************************************************************)
\* The first place of a text that is not a space.
Stop(s, i) ==
  /\ i \in 1..(Len(s) + 1)
  /\ \A j \in 1..(i - 1) : s[j] \in Spaces
  /\ i <= Len(s) => s[i] \notin Spaces

\* There is one, and skip stops there.
LEMMA StopIs ==
  ASSUME NEW s \in Texts
  PROVE  /\ \E i : Stop(s, i)
         /\ \A i : Stop(s, i) => Skip(s) = From(s, i)
<1>1. Len(s) \in Nat
  BY TextsAre
<1> DEFINE Ends == {i \in Nat : i \in 1..(Len(s) + 1) /\ (i <= Len(s) => s[i] \notin Spaces)}
<1>2. \E i : Stop(s, i)
  <2>1. Len(s) + 1 \in Ends /\ Ends \subseteq Nat
    BY <1>1
  <2>2. PICK i \in Ends : \A j \in Ends : i <= j
    <3> HIDE DEF Ends
    <3> QED BY <2>1, LeastNat
  <2>3. \A j \in 1..(i - 1) : s[j] \in Spaces
    <3> TAKE j \in 1..(i - 1)
    <3>1. j \in Nat /\ j \in 1..(Len(s) + 1) /\ j <= Len(s) /\ ~ (i <= j)
      BY <1>1, <2>2
    <3>2. j \notin Ends
      BY <2>2, <3>1
    <3> QED BY <3>1, <3>2
  <2>4. Stop(s, i)
    BY <2>2, <2>3 DEF Stop
  <2> QED BY <2>4
<1>3. \A i, j : Stop(s, i) /\ Stop(s, j) => i = j
  <2>1. \A i, j : Stop(s, i) /\ Stop(s, j) => ~ (i < j)
    <3> SUFFICES ASSUME NEW i, NEW j, Stop(s, i), Stop(s, j), i < j PROVE FALSE
      OBVIOUS
    <3>1. i \in 1..(j - 1) /\ i <= Len(s)
      BY <1>1 DEF Stop
    <3> QED BY <3>1 DEF Stop
  <2>2. \A i : Stop(s, i) => i \in Nat
    BY DEF Stop
  <2>3. \A i \in Nat, j \in Nat : ~ (i < j) /\ ~ (j < i) => i = j
    OBVIOUS
  <2> QED BY <2>1, <2>2, <2>3
<1>4. Skip(s) = From(s, CHOOSE i : Stop(s, i))
  <2> DEFINE Q(i) == /\ \A j \in 1..(i - 1) : s[j] \in Spaces
                     /\ i <= Len(s) => s[i] \notin Spaces
  <2>1. PICK k : Stop(s, k)
    BY <1>2
  <2>2. k \in 1..(Len(s) + 1) /\ Q(k)
    BY <2>1 DEF Stop
  <2>3. \A i \in 1..(Len(s) + 1) : Q(i) => i = k
    BY <1>3, <2>1 DEF Stop
  <2>4. Skip(s) = From(s, CHOOSE i \in 1..(Len(s) + 1) : Q(i))
    BY DEF Skip
  <2> HIDE DEF Q
  <2>5. (CHOOSE i \in 1..(Len(s) + 1) : Q(i)) = k
    BY <2>2, <2>3
  <2>6. (CHOOSE i : Stop(s, i)) = k
    BY <1>3, <2>1
  <2> QED BY <2>4, <2>5, <2>6
<1>5. ASSUME NEW i, Stop(s, i) PROVE (CHOOSE k : Stop(s, k)) = i
  BY <1>3, <1>5
<1> QED BY <1>2, <1>4, <1>5

\* Nothing is skipped but spaces.
LEMMA SkipIs ==
  ASSUME NEW s \in Texts
  PROVE  /\ Skip(s) \in Texts /\ Len(Skip(s)) <= Len(s) /\ Len(Skip(s)) \in Nat
         /\ s # <<>> /\ s[1] \notin Spaces => Skip(s) = s
<1>1. Len(s) \in Nat
  BY TextsAre
<1>2. PICK i : Stop(s, i)
  BY StopIs
<1>3. i \in Nat \ {0} /\ i <= Len(s) + 1 /\ Skip(s) = From(s, i)
  BY <1>1, <1>2, StopIs DEF Stop
<1>4. Skip(s) \in Texts /\ Len(Skip(s)) = Len(s) + 1 - i
  BY <1>3, FromIs
<1>5. ASSUME s # <<>>, s[1] \notin Spaces PROVE Skip(s) = s
  <2>1. Stop(s, 1)
    BY <1>1, <1>5 DEF Stop
  <2>2. Skip(s) = SubSeq(s, 1, Len(s))
    BY <2>1, StopIs DEF From
  <2>3. SubSeq(s, 1, Len(s)) = s
    BY DEF Texts
  <2> QED BY <2>2, <2>3
<1> QED BY <1>1, <1>3, <1>4, <1>5

\* A space in front is skipped.
LEMMA SkipSpace ==
  ASSUME NEW c \in Spaces, NEW s \in Texts
  PROVE  /\ Cat(One(c), s) \in Texts
         /\ Skip(Cat(One(c), s)) = Skip(s)
<1> DEFINE w == Cat(One(c), s)
           n == Len(s)
<1>1. c \in Symbols /\ n \in Nat
  BY SymbolsAre, TextsAre
<1>2. One(c) \in Texts /\ Len(One(c)) = 1
  BY <1>1, Written DEF One
<1>3. w \in Texts /\ Len(w) = 1 + n /\ w[1] = c /\ \A i \in 1..n : w[i + 1] = s[i]
  <2>1. w \in Seq(Symbols) /\ w # <<>> /\ w[1] = c /\ Tail(w) = s /\ Len(w) = n + 1
    BY <1>1, OneInFront DEF Texts
  <2> HIDE DEF w
  <2>2. \A i \in 1..(Len(w) - 1) : Tail(w)[i] = w[i + 1]
    BY <2>1, HeadAndTail
  <2> QED BY <1>1, <2>1, <2>2 DEF Texts
<1> HIDE DEF w
<1>4. PICK i : Stop(s, i)
  BY StopIs
<1>5. i \in 1..(n + 1)
  BY <1>4 DEF Stop
<1>6. Stop(w, i + 1)
  <2>1. i + 1 \in 1..(Len(w) + 1)
    BY <1>1, <1>3, <1>5
  <2>2. \A j \in 1..((i + 1) - 1) : w[j] \in Spaces
    <3> TAKE j \in 1..((i + 1) - 1)
    <3>1. CASE j = 1
      BY <1>3, <3>1
    <3>2. CASE j # 1
      <4>1. j - 1 \in 1..(i - 1) /\ j - 1 \in 1..n /\ (j - 1) + 1 = j
        BY <1>1, <1>5, <3>2
      <4>2. s[j - 1] \in Spaces
        BY <1>4, <4>1 DEF Stop
      <4>3. w[(j - 1) + 1] = s[j - 1]
        BY <1>3, <4>1
      <4> QED BY <4>1, <4>2, <4>3
    <3> QED BY <3>1, <3>2
  <2>3. i + 1 <= Len(w) => w[i + 1] \notin Spaces
    <3>1. i + 1 <= Len(w) => i <= n /\ i \in 1..n
      BY <1>1, <1>3, <1>5
    <3> QED BY <1>3, <1>4, <3>1 DEF Stop, n
  <2> QED BY <2>1, <2>2, <2>3 DEF Stop
<1>7. Skip(w) = From(w, i + 1) /\ Skip(s) = From(s, i)
  BY <1>3, <1>4, <1>6, StopIs
<1>8. From(w, i + 1) = From(s, i)
  <2> DEFINE x == SubSeq(w, i + 1, Len(w))
             y == SubSeq(s, i, n)
             k == n + 1 - i
  <2>1. /\ i \in Nat \ {0} /\ i <= n + 1 /\ i + 1 \in Nat \ {0} /\ i + 1 <= Len(w) + 1
        /\ k \in Nat /\ Len(w) + 1 - (i + 1) = k
    BY <1>1, <1>3, <1>5
  <2>2. x \in Texts /\ y \in Texts /\ Len(x) = k /\ Len(y) = k
    BY <1>3, <2>1, FromIs DEF From
  <2>3. /\ \A j \in 1..(Len(w) - (i + 1) + 1) : x[j] = w[(i + 1) + j - 1]
        /\ \A j \in 1..(n - i + 1) : y[j] = s[i + j - 1]
    <3>1. \A j \in (i + 1)..Len(w) : w[j] \in Symbols
      BY <1>3, <2>1 DEF Texts
    <3>2. \A j \in i..n : s[j] \in Symbols
      BY <2>1 DEF Texts
    <3>3. i + 1 \in Int /\ Len(w) \in Int /\ i \in Int /\ n \in Int
      BY <1>1, <1>3, <2>1
    <3> HIDE DEF n, k
    <3> QED BY <3>1, <3>2, <3>3, SubSeqProperties
  <2> HIDE DEF x, y
  <2>4. ASSUME NEW j \in 1..k PROVE x[j] = y[j]
    <3>1. /\ j \in 1..(Len(w) - (i + 1) + 1) /\ j \in 1..(n - i + 1)
          /\ (i + 1) + j - 1 = (i + j - 1) + 1 /\ i + j - 1 \in 1..n
      BY <1>1, <1>3, <2>1
    <3>2. x[j] = w[(i + j - 1) + 1] /\ y[j] = s[i + j - 1]
      BY <2>3, <3>1
    <3> QED BY <1>3, <3>1, <3>2
  <2>5. x = y
    <3>1. x \in Seq(Symbols) /\ y \in Seq(Symbols) /\ Len(x) = Len(y) /\ \A j \in 1..Len(x) : x[j] = y[j]
      BY <2>2, <2>4 DEF Texts
    <3> QED BY <3>1, SeqEqual
  <2> QED BY <2>5 DEF From, x, y
<1> QED BY <1>3, <1>7, <1>8 DEF w

\* A text without its first symbol.
LEMMA TailIs ==
  ASSUME NEW s \in Texts, s # <<>>
  PROVE  Tail(s) \in Texts /\ Len(s) \in Nat \ {0} /\ Len(Tail(s)) = Len(s) - 1 /\ s[1] \in Symbols
BY HeadAndTail DEF Texts

\* What is behind a string is a text, and no longer than the string and all behind it.
LEMMA StringBodyRest ==
  \A s \in Texts : StringBody[s].rest \in Texts /\ Len(StringBody[s].rest) <= Len(s)
<1> DEFINE P == {s \in Texts : StringBody[s].rest \in Texts /\ Len(StringBody[s].rest) <= Len(s)}
           m == [s \in Texts |-> Length(s)]
<1>1. m \in [Texts -> Nat] /\ \A s \in Texts : m[s] = Length(s)
  BY TextLength
<1> HIDE DEF m
<1>2. ASSUME NEW s \in Texts, \A t \in Texts : m[t] < m[s] => t \in P PROVE s \in P
  <2>1. StringBody[s] = StringBodyStep(StringBody, s) /\ Len(s) \in Nat
    BY StringBodyIs, TextsAre
  <2>2. CASE s = <<>> \/ StartsWith(s, Quote)
    <3>1. StringBody[s].rest = From(s, 2)
      BY <2>1, <2>2 DEF StringBodyStep
    <3>2. /\ From(s, 2) \in Texts
          /\ 2 <= Len(s) + 1 => Len(From(s, 2)) = Len(s) + 1 - 2
          /\ 2 > Len(s) + 1 => Len(From(s, 2)) = 0
      BY FromIs
    <3>3. Len(From(s, 2)) <= Len(s)
      BY <2>1, <3>2
    <3> QED BY <3>1, <3>2, <3>3
  <2>3. CASE ~ (s = <<>> \/ StartsWith(s, Quote))
    <3> DEFINE k == Unescaped(s).len
               t == From(s, k + 1)
    <3>1. k \in {1, 2, 6}
      BY UnescapedLen
    <3>2. Len(s) \in Nat \ {0}
      BY <2>3 DEF Texts
    <3>3. StringBody[s].rest = StringBody[t].rest
      BY <2>1, <2>3 DEF StringBodyStep
    <3> HIDE DEF k
    <3>4. k + 1 \in Nat \ {0}
      BY <3>1
    <3>5. t \in Texts /\ (k + 1 <= Len(s) + 1 => Len(t) = Len(s) + 1 - (k + 1))
          /\ (k + 1 > Len(s) + 1 => Len(t) = 0)
      BY <3>4, FromIs
    <3> HIDE DEF t
    <3>6. Len(t) < Len(s) /\ Len(t) \in Nat
      BY <3>1, <3>2, <3>5
    <3>7. t \in P
      BY <1>1, <1>2, <3>5, <3>6 DEF Length
    <3> DEFINE u == StringBody[t].rest
    <3>8. u \in Texts /\ Len(u) <= Len(t) /\ StringBody[s].rest = u
      BY <3>3, <3>7
    <3> HIDE DEF u
    <3>9. Len(u) \in Nat
      BY <3>8, TextsAre
    <3>10. Len(u) <= Len(s)
      BY <3>2, <3>6, <3>8, <3>9
    <3> QED BY <3>8, <3>10
  <2> QED BY <2>2, <2>3
<1>3. Texts \subseteq P
  <2> HIDE DEF P
  <2> QED BY <1>1, <1>2, MeasureInduction
<1> QED BY <1>3

\* Behind a string that was read there is less than before it.
LEMMA ParseStringRest ==
  ASSUME NEW s \in Texts, ParseString(s).ok
  PROVE  /\ ParseString(s).rest \in Texts /\ Len(ParseString(s).rest) < Len(s)
         /\ Len(ParseString(s).rest) \in Nat /\ Len(s) \in Nat
<1>1. StartsWith(s, Quote)
  <2>1. Failure.ok = FALSE
    BY DEF Failure
  <2> QED BY <2>1 DEF ParseString
<1>2. Tail(s) \in Texts /\ Len(s) \in Nat \ {0} /\ Len(Tail(s)) = Len(s) - 1
  BY <1>1, TailIs DEF StartsWith
<1> DEFINE u == StringBody[Tail(s)].rest
<1>3. ParseString(s).rest = u
  BY <1>1 DEF ParseString, Success
<1>4. u \in Texts /\ Len(u) <= Len(Tail(s))
  BY <1>2, StringBodyRest
<1> HIDE DEF u
<1>5. Len(u) \in Nat
  BY <1>4, TextsAre
<1> QED BY <1>2, <1>3, <1>4, <1>5

\* What parse_value, parse_array and parse_object are given.
Inputs == {"value", "items", "members"} \X Texts

\* How much is left to read: an array or an object reads a value of the same text.
Weight(x) == 2 * Len(x[2]) + (IF x[1] = "value" THEN 0 ELSE 1)

\* It is a number.
LEMMA WeightIs == \A x \in Inputs : Weight(x) \in Nat
<1> TAKE x \in Inputs
<1> DEFINE n == Len(x[2])
<1>1. n \in Nat
  BY TextsAre DEF Inputs
<1>2. Weight(x) = 2 * n + (IF x[1] = "value" THEN 0 ELSE 1)
  BY DEF Weight
<1> HIDE DEF n
<1> QED BY <1>1, <1>2

\* What is left is a part of what was given.
Shorter(v, x) == v.ok => v.rest \in Texts /\ Len(v.rest) <= Len(x[2])

\* One step of the parser.
ParsedStep(f, x) ==
  CASE x[1] = "value"   -> ParseValue(f, x[2])
    [] x[1] = "items"   -> ParseItems(f, x[2])
    [] x[1] = "members" -> ParseMembers(f, x[2])

\* The texts inside an array or an object weigh less than it.
LEMMA Lighter ==
  ASSUME NEW s \in Texts, NEW t \in Texts
  PROVE  /\ <<"value", t>> \in Inputs /\ <<"items", t>> \in Inputs /\ <<"members", t>> \in Inputs
         /\ \A what \in {"items", "members"} :
              /\ Len(t) <= Len(s) => Weight(<<"value", t>>) < Weight(<<what, s>>)
              /\ Len(t) < Len(s) => /\ Weight(<<what, t>>) < Weight(<<what, s>>)
                                    /\ Weight(<<what, t>>) < Weight(<<"value", s>>)
<1>1. Len(s) \in Nat /\ Len(t) \in Nat
  BY TextsAre
<1> QED BY <1>1 DEF Weight, Inputs

\* f and g agree on the texts that weigh less than x, and read a part of each.
Agree(f, g, x) == \A y \in Inputs : Weight(y) < Weight(x) => f[y] = g[y] /\ Shorter(f[y], y)

\* What follows an item,
LEMMA MoreSame ==
  ASSUME NEW s \in Texts, NEW what \in {"items", "members"}, NEW close, NEW one, NEW value,
         value.ok => value.rest \in Texts /\ Len(value.rest) <= Len(s),
         NEW f, NEW g, Agree(f, g, <<what, s>>)
  PROVE  /\ ParseMore(f, what, close, one, value) = ParseMore(g, what, close, one, value)
         /\ Shorter(ParseMore(f, what, close, one, value), <<what, s>>)
<1> DEFINE rest == Skip(value.rest)
           x    == <<what, Tail(rest)>>
           F    == ParseMore(f, what, close, one, value)
<1>1. Failure.ok = FALSE
  BY DEF Failure
<1>2. CASE ~ value.ok
  BY <1>1, <1>2 DEF ParseMore, Shorter
<1>3. CASE value.ok /\ rest = <<>>
  <2>1. ~ StartsWith(rest, Separator) /\ ~ StartsWith(rest, close)
    BY <1>3 DEF StartsWith
  <2>2. F = Failure /\ ParseMore(g, what, close, one, value) = Failure
    BY <1>3, <2>1 DEF ParseMore
  <2> QED BY <1>1, <2>2 DEF Shorter
<1>4. CASE value.ok /\ rest # <<>>
  <2>1. rest \in Texts /\ Len(rest) <= Len(value.rest)
    BY <1>4, SkipIs
  <2> DEFINE t == Tail(rest)
  <2>2. t \in Texts /\ Len(t) = Len(rest) - 1 /\ Len(rest) \in Nat
    BY <1>4, <2>1, TailIs
  <2> DEFINE n == Len(value.rest)
             l == Len(rest)
  <2>3. n <= Len(s) /\ l <= n /\ l \in Nat /\ Len(t) = l - 1 /\ Len(s) \in Nat /\ n \in Nat
    BY <1>4, <2>1, <2>2, TextsAre
  <2> HIDE DEF n, l
  <2>4. Len(t) < Len(s) /\ Len(t) \in Nat
    <3> HIDE DEF t
    <3> DEFINE k == Len(t)
    <3>1. k = l - 1
      BY <2>3
    <3> HIDE DEF k
    <3>2. k < Len(s)
      BY <2>3, <3>1
    <3>3. k \in Nat
      BY <2>2, TextsAre DEF k
    <3> QED BY <3>2, <3>3 DEF k
  <2>5. x \in Inputs /\ Weight(x) < Weight(<<what, s>>)
    BY <2>2, <2>4, Lighter
  <2> DEFINE more == f[x]
  <2>6. more = g[x] /\ Shorter(more, x)
    BY <2>5 DEF Agree
  <2> DEFINE M(m) == IF StartsWith(rest, Separator) THEN (IF m.ok THEN WithMore(one, m) ELSE Failure)
                     ELSE IF StartsWith(rest, close) THEN Success(one, Tail(rest))
                     ELSE Failure
  <2>7. F = M(f[x]) /\ ParseMore(g, what, close, one, value) = M(g[x])
    BY <1>4 DEF ParseMore
  <2>8. M(more).ok => M(more).rest \in Texts /\ Len(M(more).rest) < Len(s)
    <3>1. CASE StartsWith(rest, Separator) /\ more.ok
      <4>1. M(more).rest = more.rest
        BY <3>1 DEF WithMore, Success
      <4>2. more.rest \in Texts /\ Len(more.rest) <= Len(t)
        BY <2>6, <3>1 DEF Shorter
      <4> DEFINE k == Len(more.rest)
      <4>3. k \in Nat /\ k <= Len(t)
        BY <4>2, TextsAre
      <4> HIDE DEF k, more, t, M
      <4>4. k < Len(s)
        BY <2>3, <2>4, <4>3
      <4> QED BY <4>1, <4>2, <4>4 DEF k
    <3>2. CASE StartsWith(rest, Separator) /\ ~ more.ok
      BY <1>1, <3>2
    <3>3. CASE ~ StartsWith(rest, Separator) /\ StartsWith(rest, close)
      <4>1. M(more).rest = t
        BY <3>3 DEF Success
      <4> HIDE DEF M
      <4> QED BY <2>2, <2>4, <4>1
    <3>4. CASE ~ StartsWith(rest, Separator) /\ ~ StartsWith(rest, close)
      BY <1>1, <3>4
    <3> QED BY <3>1, <3>2, <3>3, <3>4
  <2> HIDE DEF M, more, x
  <2>9. Shorter(M(more), <<what, s>>)
    <3> DEFINE v == M(more)
    <3>1. v.ok => v.rest \in Texts /\ Len(v.rest) < Len(s)
      BY <2>8
    <3> HIDE DEF v
    <3>2. ASSUME v.ok PROVE v.rest \in Texts /\ Len(v.rest) <= Len(s)
      <4> DEFINE k == Len(v.rest)
      <4>1. v.rest \in Texts /\ k < Len(s) /\ k \in Nat
        BY <3>1, <3>2, TextsAre
      <4> HIDE DEF k
      <4>2. k <= Len(s)
        BY <2>3, <4>1
      <4> QED BY <4>1, <4>2 DEF k
    <3> QED BY <3>2 DEF Shorter, v
  <2> QED BY <2>6, <2>7, <2>9 DEF more
<1> QED BY <1>2, <1>3, <1>4

\* an array behind its bracket,
LEMMA ItemsSame ==
  ASSUME NEW s \in Texts, NEW f, NEW g, Agree(f, g, <<"items", s>>)
  PROVE  ParseItems(f, s) = ParseItems(g, s) /\ Shorter(ParseItems(f, s), <<"items", s>>)
<1> DEFINE t == Skip(s)
           x == <<"value", t>>
           value == f[x]
           one == CreateArray(<<value.item>>)
<1>1. t \in Texts /\ Len(t) <= Len(s) /\ Len(s) \in Nat /\ Len(t) \in Nat
  BY SkipIs, TextsAre
<1> HIDE DEF t
<1>2. x \in Inputs /\ Weight(x) < Weight(<<"items", s>>)
  BY <1>1, Lighter
<1>3. value = g[x] /\ Shorter(value, x)
  BY <1>2 DEF Agree
<1>4. value.ok => value.rest \in Texts /\ Len(value.rest) <= Len(t)
  BY <1>3 DEF Shorter
<1>5. ParseItems(f, s) = ParseMore(f, "items", "]", one, value)
  BY DEF ParseItems, t
<1>6. ParseItems(g, s) = ParseMore(g, "items", "]", one, value)
  BY <1>3 DEF ParseItems, t
<1> HIDE DEF value, one
<1>7. value.ok => value.rest \in Texts /\ Len(value.rest) <= Len(s)
  <2> DEFINE k == Len(value.rest)
  <2>1. value.ok => k \in Nat /\ k <= Len(t)
    BY <1>4, TextsAre
  <2> HIDE DEF k
  <2>2. value.ok => k <= Len(s)
    BY <1>1, <2>1
  <2> QED BY <1>4, <2>2 DEF k
<1>8. "items" \in {"items", "members"}
  OBVIOUS
<1>9. /\ ParseMore(f, "items", "]", one, value) = ParseMore(g, "items", "]", one, value)
      /\ Shorter(ParseMore(f, "items", "]", one, value), <<"items", s>>)
  BY <1>7, <1>8, MoreSame
<1> QED BY <1>5, <1>6, <1>9

\* an object behind its bracket,
LEMMA MembersSame ==
  ASSUME NEW s \in Texts, NEW f, NEW g, Agree(f, g, <<"members", s>>)
  PROVE  ParseMembers(f, s) = ParseMembers(g, s) /\ Shorter(ParseMembers(f, s), <<"members", s>>)
<1> DEFINE n == ParseString(Skip(s))
           colon == Skip(n.rest)
           t == Skip(Tail(colon))
           x == <<"value", t>>
           value == f[x]
           one == CreateObject(<<Named(NameIn(n.item.text), value.item)>>)
           Q == ~ n.ok \/ ~ StartsWith(colon, ":")
<1>0. Failure.ok = FALSE
  BY DEF Failure
<1>1. ParseMembers(f, s) = IF Q THEN Failure ELSE ParseMore(f, "members", "}", one, value)
  BY DEF ParseMembers
<1>2. CASE Q
  <2>1. ParseMembers(f, s) = Failure /\ ParseMembers(g, s) = Failure
    BY <1>2 DEF ParseMembers
  <2> QED BY <1>0, <2>1 DEF Shorter
<1>3. CASE ~ Q
  <2>1. Skip(s) \in Texts /\ Len(Skip(s)) <= Len(s) /\ Len(s) \in Nat /\ Len(Skip(s)) \in Nat
    BY SkipIs, TextsAre
  <2>2. n.rest \in Texts /\ Len(n.rest) < Len(Skip(s)) /\ Len(n.rest) \in Nat
    BY <1>3, <2>1, ParseStringRest
  <2>3. colon # <<>>
    BY <1>3 DEF StartsWith
  <2>4. colon \in Texts /\ Len(colon) <= Len(n.rest) /\ Len(colon) \in Nat
    BY <2>2, SkipIs
  <2>5. Tail(colon) \in Texts /\ Len(Tail(colon)) = Len(colon) - 1
    BY <2>3, <2>4, TailIs
  <2>6. t \in Texts /\ Len(t) <= Len(Tail(colon)) /\ Len(t) \in Nat
    BY <2>5, SkipIs
  <2>7. Len(t) <= Len(s)
    <3> DEFINE a == Len(t)
               b == Len(Tail(colon))
               c == Len(colon)
               d == Len(n.rest)
               e == Len(Skip(s))
               h == Len(s)
    <3>1. a \in Nat /\ a <= b /\ b = c - 1 /\ c \in Nat /\ c <= d /\ d \in Nat /\ d < e /\ e <= h /\ e \in Nat /\ h \in Nat
      BY <2>1, <2>2, <2>4, <2>5, <2>6
    <3> HIDE DEF a, b, c, d, e, h
    <3>2. a <= h
      BY <3>1
    <3> QED BY <3>2 DEF a, h
  <2>8. t \in Texts /\ Len(t) <= Len(s) /\ Len(s) \in Nat /\ Len(t) \in Nat
    BY <2>1, <2>6, <2>7
  <2> HIDE DEF t
  <2>9. x \in Inputs /\ Weight(x) < Weight(<<"members", s>>)
    BY <2>8, Lighter
  <2>10. value = g[x] /\ Shorter(value, x)
    BY <2>9 DEF Agree
  <2>11. value.ok => value.rest \in Texts /\ Len(value.rest) <= Len(t)
    BY <2>10 DEF Shorter
  <2>12. ParseMembers(g, s) = ParseMore(g, "members", "}", one, value)
    BY <1>3, <2>10 DEF ParseMembers, t
  <2> HIDE DEF value, one, Q
  <2>13. value.ok => value.rest \in Texts /\ Len(value.rest) <= Len(s)
    <3> DEFINE k == Len(value.rest)
    <3>1. value.ok => k \in Nat /\ k <= Len(t)
      BY <2>11, TextsAre
    <3> HIDE DEF k
    <3>2. value.ok => k <= Len(s)
      BY <2>8, <3>1
    <3> QED BY <2>11, <3>2 DEF k
  <2>14. "members" \in {"items", "members"}
    OBVIOUS
  <2>15. /\ ParseMore(f, "members", "}", one, value) = ParseMore(g, "members", "}", one, value)
         /\ Shorter(ParseMore(f, "members", "}", one, value), <<"members", s>>)
    BY <2>13, <2>14, MoreSame
  <2> QED BY <1>1, <1>3, <2>12, <2>15
<1> QED BY <1>2, <1>3

\* The words of JSON.
LEMMA WordsAre == DOMAIN Keyword = {"true", "false", "null"}
BY DEF Keyword

\* The characters that mean something to the parser.
LEMMA SignsDiffer ==
  /\ Quote \notin DOMAIN Keyword \cup Brackets \cup Spaces
  /\ Separator \notin Brackets \cup Spaces /\ ":" \notin Spaces
  /\ Brackets \cap (DOMAIN Keyword \cup Spaces) = {}
  /\ DOMAIN Keyword \cap Spaces = {}
<1>1. /\ Quote # "true" /\ Quote # "false" /\ Quote # "null"
      /\ Quote # "[" /\ Quote # "]" /\ Quote # "{" /\ Quote # "}"
      /\ Quote # Blank /\ Quote # Newline /\ Quote # Tab /\ Quote # "\r"
  BY ZenonT(60) DEF Quote, Blank, Newline, Tab
<1>2. /\ Separator # "[" /\ Separator # "]" /\ Separator # "{" /\ Separator # "}"
      /\ Separator # Blank /\ Separator # Newline /\ Separator # Tab /\ Separator # "\r"
  BY ZenonT(60) DEF Separator, Blank, Newline, Tab
<1>3. ":" # Blank /\ ":" # Newline /\ ":" # Tab /\ ":" # "\r"
  BY ZenonT(60) DEF Blank, Newline, Tab
<1>4. ASSUME NEW c \in {"[", "]", "{", "}", "true", "false", "null"}
      PROVE  c # Blank /\ c # Newline /\ c # Tab /\ c # "\r"
  <2>1. /\ "[" # Blank /\ "[" # Newline /\ "[" # Tab /\ "[" # "\r"
        /\ "]" # Blank /\ "]" # Newline /\ "]" # Tab /\ "]" # "\r"
        /\ "{" # Blank /\ "{" # Newline /\ "{" # Tab /\ "{" # "\r"
        /\ "}" # Blank /\ "}" # Newline /\ "}" # Tab /\ "}" # "\r"
    BY ZenonT(60) DEF Blank, Newline, Tab
  <2>2. /\ "true" # Blank /\ "true" # Newline /\ "true" # Tab /\ "true" # "\r"
        /\ "false" # Blank /\ "false" # Newline /\ "false" # Tab /\ "false" # "\r"
        /\ "null" # Blank /\ "null" # Newline /\ "null" # Tab /\ "null" # "\r"
    BY ZenonT(60) DEF Blank, Newline, Tab
  <2> QED BY <2>1, <2>2
<1> DEFINE cr == "\r"
<1>5. Spaces = {Blank, Newline, Tab, cr}
  BY DEF Spaces
<1>6. /\ Quote \notin Spaces /\ Separator \notin Spaces /\ ":" \notin Spaces
      /\ \A c \in {"[", "]", "{", "}", "true", "false", "null"} : c \notin Spaces
  BY <1>1, <1>2, <1>3, <1>4, <1>5
<1>7. Brackets = {"[", "]", "{", "}"}
  BY DEF Brackets
<1>8. Quote \notin DOMAIN Keyword \cup Brackets /\ Separator \notin Brackets
  BY <1>1, <1>2, <1>7, WordsAre
<1>9. Brackets \cap DOMAIN Keyword = {}
  BY <1>7, WordsAre
<1> QED BY <1>6, <1>7, <1>8, <1>9, WordsAre

\* A number is none of them.
LEMMA NumeralDiffers ==
  Numerals \cap (Spaces \cup Brackets \cup DOMAIN Keyword \cup {Quote}) = {}
BY JsonConstants

\* What parse_value does, by the first character.
LEMMA ParsesAs ==
  ASSUME NEW f, NEW s \in Texts, s # <<>>
  PROVE  LET inner == Skip(Tail(s)) IN
         /\ s[1] \in DOMAIN Keyword => ParseValue(f, s) = Success(Item(s[1]), Tail(s))
         /\ s[1] = Quote            => ParseValue(f, s) = ParseString(s)
         /\ s[1] \in Numerals       => ParseValue(f, s) = ParseNumber(s)
         /\ s[1] = "[" => ParseValue(f, s) = IF StartsWith(inner, "]")
                                             THEN Success(CreateArray(<<>>), Tail(inner))
                                             ELSE f[<<"items", Tail(s)>>]
         /\ s[1] = "{" => ParseValue(f, s) = IF StartsWith(inner, "}")
                                             THEN Success(CreateObject(<<>>), Tail(inner))
                                             ELSE f[<<"members", Tail(s)>>]
         /\ s[1] \notin DOMAIN Keyword \cup {Quote} \cup Numerals \cup {"[", "{"}
            => ParseValue(f, s) = Failure
<1> DEFINE c == s[1]
           inner == Skip(Tail(s))
           I == IF StartsWith(inner, "]") THEN Success(CreateArray(<<>>), Tail(inner))
                ELSE f[<<"items", Tail(s)>>]
           M == IF StartsWith(inner, "}") THEN Success(CreateObject(<<>>), Tail(inner))
                ELSE f[<<"members", Tail(s)>>]
<1>1. /\ Quote \notin DOMAIN Keyword \cup Brackets
      /\ Numerals \cap (Brackets \cup DOMAIN Keyword \cup {Quote}) = {}
      /\ Brackets \cap DOMAIN Keyword = {} /\ "[" \in Brackets /\ "{" \in Brackets /\ "[" # "{"
  BY SignsDiffer, NumeralDiffers DEF Brackets
<1>2. ParseValue(f, s) = CASE s = <<>>               -> Failure
    [] s # <<>> /\ c \in DOMAIN Keyword -> Success(Item(c), Tail(s))
    [] s # <<>> /\ c = Quote            -> ParseString(s)
    [] s # <<>> /\ c \in Numerals       -> ParseNumber(s)
    [] s # <<>> /\ c = "["              -> I
    [] s # <<>> /\ c = "{"              -> M
    [] OTHER                            -> Failure
  BY DEF ParseValue, StartsWith
<1> DEFINE W == DOMAIN Keyword
           V == ParseValue(f, s)
           w == Success(Item(c), Tail(s))
           p == ParseString(s)
           n == ParseNumber(s)
           F == Failure
           E == s = <<>>
<1>3. ~ E
  OBVIOUS
<1>4. V = CASE E -> F [] ~ E /\ c \in W -> w [] ~ E /\ c = Quote -> p [] ~ E /\ c \in Numerals -> n
          [] ~ E /\ c = "[" -> I [] ~ E /\ c = "{" -> M [] OTHER -> F
  BY <1>2
<1> HIDE DEF c, I, M, W, V, w, p, n, F, E
<1>5. /\ c \in W => V = w
      /\ c = Quote => V = p
      /\ c \in Numerals => V = n
      /\ c = "[" => V = I
      /\ c = "{" => V = M
      /\ c \notin W \cup {Quote} \cup Numerals \cup {"[", "{"} => V = F
  BY <1>1, <1>3, <1>4 DEF W
<1> QED BY <1>5 DEF c, I, M, W, V, w, p, n, F

\* and a value.
LEMMA ValueSame ==
  ASSUME NEW s \in Texts, NEW f, NEW g, Agree(f, g, <<"value", s>>)
  PROVE  ParseValue(f, s) = ParseValue(g, s) /\ Shorter(ParseValue(f, s), <<"value", s>>)
<1> DEFINE x == <<"value", s>>
<1>0. Failure.ok = FALSE
  BY DEF Failure
<1>1. CASE s = <<>>
  <2>1. ParseValue(f, s) = Failure /\ ParseValue(g, s) = Failure
    BY <1>1 DEF ParseValue, StartsWith
  <2> QED BY <1>0, <2>1 DEF Shorter
<1>2. CASE s # <<>>
  <2> DEFINE t == Tail(s)
             c == s[1]
             inner == Skip(t)
             K == DOMAIN Keyword \cup {Quote} \cup Numerals \cup {"[", "{"}
  <2>1. t \in Texts /\ Len(s) \in Nat \ {0} /\ Len(t) = Len(s) - 1 /\ Len(t) < Len(s) /\ Len(t) <= Len(s)
    BY <1>2, TailIs
  <2>2. ASSUME NEW item PROVE Shorter(Success(item, t), x)
    BY <2>1 DEF Success, Shorter
  <2>3. CASE c \in DOMAIN Keyword
    BY <1>2, <2>2, <2>3, ParsesAs
  <2>4. CASE c = Quote
    <3>1. ParseValue(f, s) = ParseString(s) /\ ParseValue(g, s) = ParseString(s)
      BY <1>2, <2>4, ParsesAs
    <3>2. ParseString(s).ok => ParseString(s).rest \in Texts /\ Len(ParseString(s).rest) <= Len(s)
      <4> DEFINE v == ParseString(s)
      <4>1. v.ok => v.rest \in Texts /\ Len(v.rest) < Len(s) /\ Len(v.rest) \in Nat /\ Len(s) \in Nat
        BY ParseStringRest
      <4> HIDE DEF v
      <4> QED BY <4>1 DEF v
    <3> QED BY <3>1, <3>2 DEF Shorter
  <2>5. CASE c \in Numerals
    <3>1. ParseValue(f, s) = ParseNumber(s) /\ ParseValue(g, s) = ParseNumber(s)
      BY <1>2, <2>5, ParsesAs
    <3> QED BY <2>2, <3>1 DEF ParseNumber
  <2>6. ASSUME NEW what \in {"items", "members"} 
        PROVE  f[<<what, t>>] = g[<<what, t>>] /\ Shorter(f[<<what, t>>], x)
    <3>1. <<what, t>> \in Inputs /\ Weight(<<what, t>>) < Weight(x)
      BY <2>1, Lighter
    <3>2. f[<<what, t>>] = g[<<what, t>>] /\ Shorter(f[<<what, t>>], <<what, t>>)
      BY <3>1 DEF Agree
    <3> DEFINE v == f[<<what, t>>]
    <3>3. v.ok => v.rest \in Texts /\ Len(v.rest) <= Len(t)
      BY <3>2 DEF Shorter
    <3> HIDE DEF v
    <3>4. v.ok => v.rest \in Texts /\ Len(v.rest) <= Len(s)
      <4> DEFINE k == Len(v.rest)
      <4>1. v.ok => k \in Nat /\ k <= Len(t)
        BY <3>3, TextsAre
      <4> HIDE DEF k
      <4>2. v.ok => k <= Len(s)
        BY <2>1, <4>1
      <4> QED BY <3>3, <4>2 DEF k
    <3>5. Shorter(v, x)
      BY <3>4 DEF Shorter
    <3> QED BY <3>2, <3>5 DEF v
  <2>7. ASSUME NEW item, inner # <<>> PROVE Shorter(Success(item, Tail(inner)), x)
    <3>1. inner \in Texts /\ Len(inner) <= Len(t)
      BY <2>1, SkipIs
    <3>2. Tail(inner) \in Texts /\ Len(Tail(inner)) = Len(inner) - 1 /\ Len(inner) \in Nat
      BY <2>7, <3>1, TailIs
    <3> DEFINE a == Len(inner)
               b == Len(Tail(inner))
    <3>3. a <= Len(t) /\ b = a - 1 /\ a \in Nat
      BY <3>1, <3>2
    <3> HIDE DEF a, b
    <3>4. b <= Len(s)
      <4> DEFINE k == Len(t)
      <4>1. k < Len(s) /\ k \in Nat /\ Len(s) \in Nat /\ a <= k
        BY <2>1, <3>3, TextsAre
      <4> HIDE DEF k
      <4> QED BY <3>3, <4>1
    <3> QED BY <3>2, <3>4 DEF b, Success, Shorter
  <2>8. CASE c = "["
    <3>1. CASE StartsWith(inner, "]")
      <4>1. /\ ParseValue(f, s) = Success(CreateArray(<<>>), Tail(inner))
            /\ ParseValue(g, s) = Success(CreateArray(<<>>), Tail(inner))
        BY <1>2, <2>8, <3>1, ParsesAs
      <4>2. inner # <<>>
        BY <3>1 DEF StartsWith
      <4> QED BY <2>7, <4>1, <4>2
    <3>2. CASE ~ StartsWith(inner, "]")
      <4>1. ParseValue(f, s) = f[<<"items", t>>] /\ ParseValue(g, s) = g[<<"items", t>>]
        BY <1>2, <2>8, <3>2, ParsesAs
      <4> QED BY <2>6, <4>1
    <3> QED BY <3>1, <3>2
  <2>9. CASE c = "{"
    <3>1. CASE StartsWith(inner, "}")
      <4>1. /\ ParseValue(f, s) = Success(CreateObject(<<>>), Tail(inner))
            /\ ParseValue(g, s) = Success(CreateObject(<<>>), Tail(inner))
        BY <1>2, <2>9, <3>1, ParsesAs
      <4>2. inner # <<>>
        BY <3>1 DEF StartsWith
      <4> QED BY <2>7, <4>1, <4>2
    <3>2. CASE ~ StartsWith(inner, "}")
      <4>1. ParseValue(f, s) = f[<<"members", t>>] /\ ParseValue(g, s) = g[<<"members", t>>]
        BY <1>2, <2>9, <3>2, ParsesAs
      <4> QED BY <2>6, <4>1
    <3> QED BY <3>1, <3>2
  <2>10. CASE c \notin K
    <3>1. ParseValue(f, s) = Failure /\ ParseValue(g, s) = Failure
      BY <1>2, <2>10, ParsesAs
    <3> QED BY <1>0, <3>1 DEF Shorter
  <2> QED BY <2>3, <2>4, <2>5, <2>8, <2>9, <2>10
<1> QED BY <1>1, <1>2

\* What the parser is given is one of these.
LEMMA InputIs ==
  ASSUME NEW x \in Inputs
  PROVE  \E s \in Texts : x = <<"value", s>> \/ x = <<"items", s>> \/ x = <<"members", s>>
BY DEF Inputs

\* One step of the parser, and what it keeps.
LEMMA StepSame ==
  ASSUME NEW x \in Inputs, NEW f, NEW g, Agree(f, g, x)
  PROVE  ParsedStep(f, x) = ParsedStep(g, x) /\ Shorter(ParsedStep(f, x), x)
<1>1. PICK s \in Texts : x = <<"value", s>> \/ x = <<"items", s>> \/ x = <<"members", s>>
  BY InputIs
<1>2. CASE x = <<"value", s>>
  <2>1. ParsedStep(f, x) = ParseValue(f, s) /\ ParsedStep(g, x) = ParseValue(g, s)
    BY <1>2 DEF ParsedStep
  <2>2. Agree(f, g, <<"value", s>>)
    BY <1>2
  <2>3. ParseValue(f, s) = ParseValue(g, s) /\ Shorter(ParseValue(f, s), <<"value", s>>)
    BY <2>2, ValueSame
  <2> QED BY <1>2, <2>1, <2>3
<1>3. CASE x = <<"items", s>>
  <2>1. ParsedStep(f, x) = ParseItems(f, s) /\ ParsedStep(g, x) = ParseItems(g, s)
    BY <1>3 DEF ParsedStep
  <2>2. Agree(f, g, <<"items", s>>)
    BY <1>3
  <2>3. ParseItems(f, s) = ParseItems(g, s) /\ Shorter(ParseItems(f, s), <<"items", s>>)
    BY <2>2, ItemsSame
  <2> QED BY <1>3, <2>1, <2>3
<1>4. CASE x = <<"members", s>>
  <2>1. ParsedStep(f, x) = ParseMembers(f, s) /\ ParsedStep(g, x) = ParseMembers(g, s)
    BY <1>4 DEF ParsedStep
  <2>2. Agree(f, g, <<"members", s>>)
    BY <1>4
  <2>3. ParseMembers(f, s) = ParseMembers(g, s) /\ Shorter(ParseMembers(f, s), <<"members", s>>)
    BY <2>2, MembersSame
  <2> QED BY <1>4, <2>1, <2>3
<1> QED BY <1>1, <1>2, <1>3, <1>4

\* One step is the same for parsers that agree on what is lighter.
LEMMA ParsedSame ==
  ASSUME NEW x \in Inputs, NEW f, NEW g,
         \A y \in Inputs : Weight(y) < Weight(x) => f[y] = g[y] /\ Shorter(f[y], y)
  PROVE  ParsedStep(f, x) = ParsedStep(g, x) /\ Shorter(ParsedStep(f, x), x)
BY StepSame DEF Agree

\* The parser does what it says on any text, and gives what is left of it.
LEMMA ParsedIs == DOMAIN Parsed = Inputs /\ \A s \in Inputs : Parsed[s] = ParsedStep(Parsed, s) /\ Shorter(Parsed[s], s)
<1> DEFINE D == Inputs
           m == [s \in D |-> Weight(s)]
           Body(f) == [s \in D |-> ParsedStep(f, s)]
           Upon(f, n) == \A s \in D : m[s] < n => f[s] = ParsedStep(f, s)
<1>1. m \in [D -> Nat] /\ \A s \in D : m[s] = Weight(s)
  BY WeightIs
<1>2. ASSUME NEW s \in D, NEW f, NEW g, \A t \in D : m[t] < m[s] => f[t] = g[t] /\ Shorter(f[t], t)
      PROVE  ParsedStep(f, s) = ParsedStep(g, s) /\ Shorter(ParsedStep(f, s), s)
  BY <1>1, <1>2, ParsedSame
<1>3. Parsed = CHOOSE f : f = Body(f)
  BY DEF Parsed, ParsedStep, Inputs
<1> HIDE DEF D, m
<1> DEFINE Good(f, n) == \A s \in D : m[s] < n => Shorter(f[s], s)
<1>0. ASSUME NEW n \in Nat, NEW f, Upon(f, n) PROVE Good(f, n)
  <2> DEFINE P == {x \in D : m[x] < n => Shorter(f[x], x)}
  <2>1. ASSUME NEW x \in D, \A t \in D : m[t] < m[x] => t \in P PROVE x \in P
    <3>1. CASE m[x] < n
      <4>1. \A t \in D : m[t] < m[x] => f[t] = f[t] /\ Shorter(f[t], t)
        BY <1>1, <2>1, <3>1
      <4>2. Shorter(ParsedStep(f, x), x)
        BY <1>2, <4>1
      <4> QED BY <1>0, <3>1, <4>2
    <3> QED BY <3>1
  <2>2. D \subseteq P
    <3> HIDE DEF P
    <3> QED BY <1>1, <2>1, MeasureInduction
  <2> QED BY <2>2
<1>4. ASSUME NEW n \in Nat, NEW f, NEW g, Upon(f, n), Upon(g, n), NEW s \in D, m[s] < n
      PROVE  f[s] = g[s]
  <2> DEFINE P == {x \in D : m[x] < n => f[x] = g[x]}
  <2>1. ASSUME NEW x \in D, \A t \in D : m[t] < m[x] => t \in P PROVE x \in P
    <3>1. CASE m[x] < n
      <4>1. \A t \in D : m[t] < m[x] => f[t] = g[t] /\ Shorter(f[t], t)
        <5>1. Good(f, n)
          BY <1>0, <1>4
        <5> QED BY <1>1, <2>1, <3>1, <5>1
      <4>2. ParsedStep(f, x) = ParsedStep(g, x)
        BY <1>2, <4>1
      <4> QED BY <1>4, <3>1, <4>2
    <3> QED BY <3>1
  <2>2. D \subseteq P
    <3> HIDE DEF P
    <3> QED BY <1>1, <2>1, MeasureInduction
  <2> QED BY <1>4, <2>2
<1>5. \A n \in Nat : \E f : Upon(f, n)
  <2> DEFINE N == {n \in Nat : \E f : Upon(f, n)}
  <2>1. 0 \in N
    <3>1. \A s \in D : ~ (m[s] < 0)
      BY <1>1
    <3> QED BY <3>1
  <2>2. ASSUME NEW n \in Nat, n \in N PROVE n + 1 \in N
    <3>1. PICK f : Upon(f, n)
      BY <2>2
    <3> DEFINE g == Body(f)
    <3>2. \A s \in D : g[s] = ParsedStep(f, s)
      OBVIOUS
    <3>3. \A s \in D : m[s] < n => f[s] = g[s]
      BY <3>1, <3>2
    <3> HIDE DEF g
    <3>4. ASSUME NEW s \in D, m[s] < n + 1 PROVE g[s] = ParsedStep(g, s)
      <4>1. \A t \in D : m[t] < m[s] => f[t] = g[t] /\ Shorter(f[t], t)
        <5>1. Good(f, n)
          BY <1>0, <3>1
        <5> QED BY <1>1, <3>3, <3>4, <5>1
      <4>2. ParsedStep(f, s) = ParsedStep(g, s)
        BY <1>2, <4>1
      <4> QED BY <3>2, <4>2
    <3>5. Upon(g, n + 1)
      BY <3>4
    <3> HIDE DEF Upon
    <3> QED BY <3>5
  <2> HIDE DEF N
  <2>3. \A n \in Nat : n \in N
    BY <2>1, <2>2, SetInduction
  <2> QED BY <2>3 DEF N
<1> DEFINE Some(s) == CHOOSE f : Upon(f, m[s] + 1)
           F == [s \in D |-> Some(s)[s]]
<1>6. \A s \in D : Upon(Some(s), m[s] + 1) /\ m[s] + 1 \in Nat /\ m[s] \in Nat
  <2> TAKE s \in D
  <2>1. m[s] + 1 \in Nat /\ m[s] \in Nat
    BY <1>1
  <2>2. \E f : Upon(f, m[s] + 1)
    BY <1>5, <2>1
  <2> HIDE DEF Upon
  <2> QED BY <2>1, <2>2
<1>7. \A s \in D : F[s] = Some(s)[s]
  OBVIOUS
<1> HIDE DEF F, Some
<1>8. ASSUME NEW s \in D PROVE F[s] = ParsedStep(F, s)
  <2>1. ASSUME NEW t \in D, m[t] < m[s] PROVE Some(s)[t] = F[t]
    <3>1. Upon(Some(s), m[t] + 1)
      BY <1>1, <1>6, <2>1
    <3>2. Upon(Some(t), m[t] + 1) /\ m[t] < m[t] + 1 /\ m[t] + 1 \in Nat
      BY <1>6
    <3> HIDE DEF Upon
    <3>3. Some(s)[t] = Some(t)[t]
      BY <1>4, <3>1, <3>2
    <3> QED BY <1>7, <3>3
  <2>5. Good(Some(s), m[s] + 1)
    <3> HIDE DEF Upon, Good
    <3> QED BY <1>0, <1>6
  <2>6. \A t \in D : m[t] < m[s] => Shorter(Some(s)[t], t)
    BY <1>1, <2>5
  <2>2. ParsedStep(Some(s), s) = ParsedStep(F, s)
    BY <1>2, <2>1, <2>6
  <2>3. m[s] < m[s] + 1
    BY <1>6
  <2>4. Some(s)[s] = ParsedStep(Some(s), s)
    BY <1>6, <2>3
  <2> QED BY <1>7, <2>2, <2>4
<1>9. F = Body(F)
  <2>1. F = [s \in D |-> F[s]]
    BY DEF F
  <2> QED BY <1>8, <2>1
<1> DEFINE G == Parsed
<1>10. G = Body(G)
  <2> HIDE DEF Body
  <2> QED BY <1>3, <1>9
<1> HIDE DEF G
<1>11. DOMAIN G = D /\ \A s \in D : G[s] = ParsedStep(G, s)
  <2>1. DOMAIN Body(G) = D /\ \A s \in D : Body(G)[s] = ParsedStep(G, s)
    OBVIOUS
  <2> HIDE DEF Body
  <2> QED BY <1>10, <2>1
<1> DEFINE Q == {s \in D : Shorter(G[s], s)}
<1>12. ASSUME NEW s \in D, \A t \in D : m[t] < m[s] => t \in Q PROVE s \in Q
  <2>1. Shorter(ParsedStep(G, s), s)
    BY <1>2, <1>12
  <2> QED BY <1>11, <2>1
<1>13. D \subseteq Q
  <2> HIDE DEF Q
  <2> QED BY <1>1, <1>12, MeasureInduction
<1> QED BY <1>11, <1>13 DEF D, G

(***************************************************************************)
(* What is printed is parsed as it was.                                    *)
(***************************************************************************)
\* A symbol in front of a text.
LEMMA FrontIs ==
  ASSUME NEW c \in Symbols, NEW s \in Texts
  PROVE  LET w == Cat(One(c), s)
         IN  /\ w \in Texts /\ w # <<>> /\ w[1] = c /\ Tail(w) = s
             /\ \A x : StartsWith(w, x) <=> c = x
             /\ c \notin Spaces => Skip(w) = w
             /\ c \in Spaces => Skip(w) = Skip(s)
<1> DEFINE w == Cat(One(c), s)
<1>1. w \in Texts /\ w # <<>> /\ w[1] = c /\ Tail(w) = s
  BY OneInFront DEF Texts
<1>2. c \in Spaces => Skip(w) = Skip(s)
  BY SkipSpace
<1> HIDE DEF w
<1>3. \A x : StartsWith(w, x) <=> c = x
  BY <1>1 DEF StartsWith
<1>4. c \notin Spaces => Skip(w) = w
  BY <1>1, SkipIs
<1> QED BY <1>1, <1>2, <1>3, <1>4 DEF w

\* What a printed value begins with: neither with a space nor with a closing bracket.
Opens(s) == s # <<>> /\ s[1] \notin Spaces /\ s[1] # "]" /\ s[1] # "}"

\* Nothing of it is skipped.
LEMMA OpensIs ==
  ASSUME NEW e \in Texts, Opens(e), NEW r \in Texts
  PROVE  /\ Cat(e, r) \in Texts /\ Opens(Cat(e, r)) /\ Skip(Cat(e, r)) = Cat(e, r)
         /\ ~ StartsWith(Cat(e, r), "]") /\ ~ StartsWith(Cat(e, r), "}")
<1> DEFINE w == Cat(e, r)
<1>1. w # <<>> /\ w[1] = e[1]
  BY CatInFront DEF Texts, Opens
<1>2. w \in Texts
  BY TextsAre
<1> HIDE DEF w
<1>3. Opens(w)
  BY <1>1 DEF Opens
<1>4. Skip(w) = w
  BY <1>2, <1>3, SkipIs DEF Opens
<1> QED BY <1>2, <1>3, <1>4 DEF w, Opens, StartsWith

\* The three functions of the parser.
LEMMA ParsedAt ==
  ASSUME NEW s \in Texts
  PROVE  /\ Parsed[<<"value", s>>] = ParseValue(Parsed, s)
         /\ Parsed[<<"items", s>>] = ParseItems(Parsed, s)
         /\ Parsed[<<"members", s>>] = ParseMembers(Parsed, s)
<1>1. <<"value", s>> \in Inputs /\ <<"items", s>> \in Inputs /\ <<"members", s>> \in Inputs
  BY DEF Inputs
<1>2. /\ Parsed[<<"value", s>>] = ParsedStep(Parsed, <<"value", s>>)
      /\ Parsed[<<"items", s>>] = ParsedStep(Parsed, <<"items", s>>)
      /\ Parsed[<<"members", s>>] = ParsedStep(Parsed, <<"members", s>>)
  BY <1>1, ParsedIs
<1>3. /\ ParsedStep(Parsed, <<"value", s>>) = ParseValue(Parsed, s)
      /\ ParsedStep(Parsed, <<"items", s>>) = ParseItems(Parsed, s)
      /\ ParsedStep(Parsed, <<"members", s>>) = ParseMembers(Parsed, s)
  BY DEF ParsedStep
<1> QED BY <1>2, <1>3

\* A text that is parsed as v, whatever is behind it.
ReadsAs(e, v) ==
  /\ e \in Texts /\ Opens(e)
  /\ \A r \in Texts : Parsed[<<"value", Cat(e, r)>>] = Success(v, r)

\* A space in front of the items of an array or an object is skipped.
LEMMA SpaceSkipped ==
  ASSUME NEW c \in Spaces, NEW s \in Texts, NEW what \in {"items", "members"}
  PROVE  /\ Cat(One(c), s) \in Texts
         /\ Parsed[<<what, Cat(One(c), s)>>] = Parsed[<<what, s>>]
<1> DEFINE w == Cat(One(c), s)
<1>1. w \in Texts /\ Skip(w) = Skip(s)
  BY SkipSpace
<1> HIDE DEF w
<1>2. /\ Parsed[<<"items", w>>] = ParseItems(Parsed, w)
      /\ Parsed[<<"members", w>>] = ParseMembers(Parsed, w)
      /\ Parsed[<<"items", s>>] = ParseItems(Parsed, s)
      /\ Parsed[<<"members", s>>] = ParseMembers(Parsed, s)
  BY <1>1, ParsedAt
<1>3. ParseItems(Parsed, w) = ParseItems(Parsed, s) /\ ParseMembers(Parsed, w) = ParseMembers(Parsed, s)
  BY <1>1 DEF ParseItems, ParseMembers
<1>4. what = "items" \/ what = "members"
  OBVIOUS
<1> QED BY <1>1, <1>2, <1>3, <1>4 DEF w

\* An array or an object with the items of another one behind its own.
WithItems(one, more) == [one EXCEPT !.child = @ \o more.child]

\* What follows an item: the end,
LEMMA MoreEnds ==
  ASSUME NEW what, NEW close \in Brackets, NEW one, NEW item, NEW w \in Texts, NEW r \in Texts,
         Skip(w) = Cat(One(close), r)
  PROVE  ParseMore(Parsed, what, close, one, Success(item, w)) = Success(one, r)
<1> DEFINE rest == Skip(w)
<1>1. close \in Symbols /\ close # Separator
  BY SymbolsAre, SignsDiffer
<1>2. ~ StartsWith(rest, Separator) /\ StartsWith(rest, close) /\ Tail(rest) = r
  <2> DEFINE q == Cat(One(close), r)
  <2>1. Tail(q) = r /\ \A x : StartsWith(q, x) <=> close = x
    BY <1>1, FrontIs
  <2>2. rest = q
    OBVIOUS
  <2> HIDE DEF q, rest
  <2> QED BY <1>1, <2>1, <2>2
<1>3. Success(item, w).ok /\ Success(item, w).rest = w
  BY DEF Success
<1> QED BY <1>2, <1>3 DEF ParseMore

\* or more items.
LEMMA MoreFollows ==
  ASSUME NEW what, NEW close \in Brackets, NEW one, NEW item, NEW w \in Texts, NEW u \in Texts,
         Skip(w) = Cat(One(Separator), u),
         NEW more, NEW r, Parsed[<<what, u>>] = Success(more, r)
  PROVE  ParseMore(Parsed, what, close, one, Success(item, w))
         = Success(WithItems(one, more), r)
<1> DEFINE rest == Skip(w)
<1>1. Separator \in Symbols
  BY SymbolsAre
<1>2. StartsWith(rest, Separator) /\ Tail(rest) = u
  <2> DEFINE q == Cat(One(Separator), u)
  <2>1. Tail(q) = u /\ \A x : StartsWith(q, x) <=> Separator = x
    BY <1>1, FrontIs
  <2>2. rest = q
    OBVIOUS
  <2> HIDE DEF q, rest
  <2> QED BY <2>1, <2>2
<1>3. Success(item, w).ok /\ Success(item, w).rest = w
  BY DEF Success
<1>4. ParseMore(Parsed, what, close, one, Success(item, w)) = WithMore(one, Success(more, r))
  <2> DEFINE m == Success(more, r)
  <2>1. m.ok
    BY DEF Success
  <2> HIDE DEF m, rest
  <2>2. Parsed[<<what, Tail(rest)>>] = m
    BY <1>2 DEF m
  <2> QED BY <1>2, <1>3, <2>1, <2>2 DEF ParseMore, rest, m
<1>5. Success(more, r).item = more /\ Success(more, r).rest = r
  BY DEF Success
<1> QED BY <1>4, <1>5 DEF WithMore, WithItems

\* Joined pieces are the first one and the others.
LEMMA PiecesParts ==
  ASSUME NEW n \in Nat \ {0}, NEW p, NEW q, p = [i \in 1..n |-> p[i]], q = [i \in 1..(n - 1) |-> q[i]],
         \A i \in 1..n : p[i] \in Texts, \A i \in 1..(n - 1) : q[i] = p[i + 1]
  PROVE  /\ FlattenSeq(p) = Cat(p[1], FlattenSeq(q))
         /\ FlattenSeq(p) \in Texts /\ FlattenSeq(q) \in Texts
<1>1. p \in Seq(Seq(Symbols)) /\ Len(p) = n
  BY DEF Texts
<1>2. p # <<>>
  BY <1>1
<1>3. Tail(p) \in Seq(Seq(Symbols)) /\ Len(Tail(p)) = n - 1 /\ \A i \in 1..(n - 1) : Tail(p)[i] = p[i + 1]
  BY <1>1, <1>2, HeadAndTail
<1>4. Tail(p) = q
  <2> DEFINE x == Tail(p)
  <2>1. x \in Seq(Seq(Symbols)) /\ Len(x) = n - 1 /\ \A i \in 1..(n - 1) : x[i] = q[i]
    BY <1>3
  <2> HIDE DEF x
  <2>2. x = [i \in 1..(n - 1) |-> x[i]]
    BY <2>1
  <2>3. x = q
    BY <2>1, <2>2
  <2> QED BY <2>3 DEF x
<1> QED BY <1>1, <1>2, <1>4, FlattenHead DEF Texts

\* Texts joined one after the other.
LEMMA CatTexts ==
  ASSUME NEW a \in Texts, NEW b \in Texts, NEW c \in Texts
  PROVE  Cat(a, b) \in Texts /\ Cat(b, c) \in Texts /\ Cat(Cat(a, b), c) = Cat(a, Cat(b, c))
BY TextsAre, CatAssoc DEF Texts

\* What print_array writes between the brackets.
ArrayBody(e) ==
  FlattenSeq([i \in DOMAIN e |-> Cat(e[i], IF i = Len(e) THEN <<>> ELSE <<Separator, Blank>>)])

\* It is the first item, and the others behind a comma.
LEMMA ArrayBodyParts ==
  ASSUME NEW e \in Entries, e # <<>>
  PROVE  /\ e[1] \in Texts /\ ArrayBody(e) \in Texts
         /\ Len(e) = 1 => ArrayBody(e) = e[1]
         /\ Len(e) # 1 =>
              /\ Tail(e) \in Entries /\ Len(Tail(e)) = Len(e) - 1 /\ Len(e) - 1 \in Nat \ {0}
              /\ \A i \in 1..(Len(e) - 1) : Tail(e)[i] = e[i + 1]
              /\ ArrayBody(Tail(e)) \in Texts
              /\ ArrayBody(e) = Cat(e[1], Cat(One(Separator), Cat(One(Blank), ArrayBody(Tail(e)))))
<1> DEFINE n == Len(e)
           t == Tail(e)
           sep == <<Separator, Blank>>
           p == [i \in 1..n |-> Cat(e[i], IF i = n THEN <<>> ELSE sep)]
           q == [i \in 1..(n - 1) |-> Cat(t[i], IF i = n - 1 THEN <<>> ELSE sep)]
<1>1. /\ n \in Nat \ {0} /\ DOMAIN e = 1..n /\ e[1] \in Texts /\ \A i \in 1..n : e[i] \in Texts
      /\ t \in Entries /\ Len(t) = n - 1 /\ \A i \in 1..(n - 1) : t[i] = e[i + 1]
      /\ n - 1 \in Nat /\ DOMAIN t = 1..(n - 1)
  <2>1. /\ e[1] \in Texts /\ t \in Entries /\ n \in Nat \ {0} /\ Len(t) = n - 1
        /\ \A i \in 1..(n - 1) : t[i] = e[i + 1]
    BY HeadAndTail DEF Entries
  <2> HIDE DEF n, t
  <2>2. n - 1 \in Nat
    BY <2>1
  <2>3. DOMAIN e = 1..n /\ \A i \in 1..n : e[i] \in Texts
    BY EntriesAre DEF n
  <2>4. DOMAIN t = 1..(n - 1)
    BY <2>1, EntriesAre
  <2> QED BY <2>1, <2>2, <2>3, <2>4
<1>2. ArrayBody(e) = FlattenSeq(p)
  BY <1>1 DEF ArrayBody
<1>3. ArrayBody(t) = FlattenSeq(q)
  <2> HIDE DEF n, t
  <2> QED BY <1>1 DEF ArrayBody
<1>4. sep \in Texts /\ <<>> \in Texts /\ sep = Cat(One(Separator), One(Blank))
      /\ Separator \in Symbols /\ Blank \in Symbols
  <2>1. sep = Cat(One(Separator), One(Blank))
    BY DEF Cat, One
  <2> QED BY <2>1, SymbolsAre, Written, TextsAre
<1> HIDE DEF n, t, sep
<1>5. \A i \in 1..n : p[i] \in Texts
  <2> TAKE i \in 1..n
  <2> DEFINE l == IF i = n THEN <<>> ELSE sep
  <2>1. l \in Texts /\ e[i] \in Texts
    BY <1>1, <1>4
  <2> HIDE DEF l
  <2>2. Cat(e[i], l) \in Texts
    BY <2>1, TextsAre
  <2> QED BY <2>2 DEF l
<1>6. \A i \in 1..(n - 1) : q[i] = p[i + 1]
  <2> TAKE i \in 1..(n - 1)
  <2>1. i + 1 \in 1..n /\ (i + 1 = n <=> i = n - 1) /\ t[i] = e[i + 1]
    BY <1>1
  <2> QED BY <2>1
<1>7. p = [i \in 1..n |-> p[i]] /\ q = [i \in 1..(n - 1) |-> q[i]]
  OBVIOUS
<1>8. p[1] = Cat(e[1], IF 1 = n THEN <<>> ELSE sep)
  BY <1>1
<1>9. n = 1 => q = <<>>
  <2> SUFFICES ASSUME n = 1 PROVE q = <<>>
    OBVIOUS
  <2>1. 1..(n - 1) = {}
    OBVIOUS
  <2> HIDE DEF q
  <2>2. q = [i \in {} |-> q[i]]
    BY <1>7, <2>1
  <2> QED BY <2>2
<1> HIDE DEF p, q
<1>10. /\ FlattenSeq(p) = Cat(p[1], FlattenSeq(q))
       /\ FlattenSeq(p) \in Texts /\ FlattenSeq(q) \in Texts
  BY <1>1, <1>5, <1>6, <1>7, PiecesParts
<1>11. CASE n = 1
  <2>1. p[1] = e[1] /\ FlattenSeq(q) = <<>>
    BY <1>1, <1>8, <1>9, <1>11, CatEmpty, FlattenNothing DEF Texts
  <2>2. ArrayBody(e) = e[1]
    BY <1>1, <1>2, <1>10, <2>1, CatEmpty DEF Texts
  <2> QED BY <1>1, <1>2, <1>10, <1>11, <2>2 DEF n
<1>12. CASE n # 1
  <2> DEFINE b == FlattenSeq(q)
  <2>1. p[1] = Cat(e[1], sep)
    BY <1>8, <1>12
  <2> HIDE DEF b
  <2>2. b \in Texts /\ e[1] \in Texts /\ One(Separator) \in Texts /\ One(Blank) \in Texts
    BY <1>1, <1>4, <1>10, TextsAre DEF b
  <2>3. Cat(p[1], b) = Cat(e[1], Cat(sep, b))
    BY <1>4, <2>1, <2>2, CatTexts
  <2>4. Cat(sep, b) = Cat(One(Separator), Cat(One(Blank), b))
    BY <1>4, <2>2, CatTexts
  <2>5. n - 1 \in Nat \ {0}
    BY <1>1, <1>12
  <2> QED BY <1>1, <1>2, <1>3, <1>10, <2>2, <2>3, <2>4, <2>5, <1>12 DEF b, n, t
<1> QED BY <1>11, <1>12

\* An array or an object of an item and the items of another one.
LEMMA ArrayGrows ==
  ASSUME NEW V, NEW v \in Seq(V), v # <<>>
  PROVE  /\ CreateArray(v) = WithItems(CreateArray(<<v[1]>>), CreateArray(Tail(v)))
         /\ CreateObject(v) = WithItems(CreateObject(<<v[1]>>), CreateObject(Tail(v)))
<1>1. v = <<v[1]>> \o Tail(v)
  BY HeadAndTail DEF Cat, One
<1> DEFINE t == Tail(v)
           h == <<v[1]>>
<1> HIDE DEF t, h
<1>2. /\ CreateArray(v) = [type |-> "array", name |-> NoName, text |-> <<>>, data |-> <<>>, child |-> v]
      /\ CreateArray(h) = [type |-> "array", name |-> NoName, text |-> <<>>, data |-> <<>>, child |-> h]
      /\ CreateArray(t) = [type |-> "array", name |-> NoName, text |-> <<>>, data |-> <<>>, child |-> t]
  BY DEF CreateArray, Item
<1>3. /\ CreateObject(v) = [type |-> "object", name |-> NoName, text |-> <<>>, data |-> <<>>, child |-> v]
      /\ CreateObject(h) = [type |-> "object", name |-> NoName, text |-> <<>>, data |-> <<>>, child |-> h]
      /\ CreateObject(t) = [type |-> "object", name |-> NoName, text |-> <<>>, data |-> <<>>, child |-> t]
  BY DEF CreateObject, Item
<1> HIDE DEF CreateArray, CreateObject
<1>4. v = h \o t
  BY <1>1 DEF h, t
<1>5. CreateArray(t).child = t /\ CreateObject(t).child = t
  BY <1>2, <1>3
<1>6. /\ [CreateArray(h) EXCEPT !.child = @ \o t] = [type |-> "array", name |-> NoName, text |-> <<>>, data |-> <<>>, child |-> h \o t]
      /\ [CreateObject(h) EXCEPT !.child = @ \o t] = [type |-> "object", name |-> NoName, text |-> <<>>, data |-> <<>>, child |-> h \o t]
  <2> DEFINE x == CreateArray(h)
             y == CreateObject(h)
             c == h \o t
  <2>1. /\ x = [type |-> "array", name |-> NoName, text |-> <<>>, data |-> <<>>, child |-> h]
        /\ y = [type |-> "object", name |-> NoName, text |-> <<>>, data |-> <<>>, child |-> h]
    BY <1>2, <1>3
  <2>2. x.child = h /\ y.child = h
    BY <2>1
  <2> HIDE DEF x, y, c
  <2>3. [x EXCEPT !.child = c] = [type |-> "array", name |-> NoName, text |-> <<>>, data |-> <<>>, child |-> c]
    BY <2>1
  <2>4. [y EXCEPT !.child = c] = [type |-> "object", name |-> NoName, text |-> <<>>, data |-> <<>>, child |-> c]
    BY <2>1
  <2> QED BY <2>2, <2>3, <2>4 DEF x, y, c
<1> QED BY <1>2, <1>3, <1>4, <1>5, <1>6 DEF t, h, WithItems

\* An item of an array is read first,
LEMMA ItemRead ==
  ASSUME NEW e, NEW v, ReadsAs(e, v), NEW w \in Texts
  PROVE  /\ Cat(e, w) \in Texts
         /\ Parsed[<<"items", Cat(e, w)>>]
            = ParseMore(Parsed, "items", "]", CreateArray(<<v>>), Success(v, w))
<1> DEFINE s == Cat(e, w)
<1>1. e \in Texts /\ Opens(e) /\ Parsed[<<"value", s>>] = Success(v, w)
  BY DEF ReadsAs
<1>2. s \in Texts /\ Skip(s) = s
  BY <1>1, OpensIs
<1> HIDE DEF s
<1>3. Parsed[<<"items", s>>] = ParseItems(Parsed, s)
  BY <1>2, ParsedAt
<1> DEFINE m == Success(v, w)
<1>4. m.item = v
  BY DEF Success
<1>5. Parsed[<<"value", Skip(s)>>] = m
  BY <1>1, <1>2
<1> HIDE DEF m
<1>6. ParseItems(Parsed, s) = ParseMore(Parsed, "items", "]", CreateArray(<<v>>), m)
  BY <1>4, <1>5 DEF ParseItems
<1> QED BY <1>2, <1>3, <1>6 DEF s, m

\* an array of one item,
LEMMA OneItemRead ==
  ASSUME NEW e, NEW v, ReadsAs(e, v), NEW z \in Texts, NEW r \in Texts, Skip(z) = Cat(One("]"), r)
  PROVE  Parsed[<<"items", Cat(e, z)>>] = Success(CreateArray(<<v>>), r)
<1> DEFINE one == CreateArray(<<v>>)
<1>1. Parsed[<<"items", Cat(e, z)>>] = ParseMore(Parsed, "items", "]", one, Success(v, z))
  BY ItemRead
<1>2. "]" \in Brackets
  BY DEF Brackets
<1> HIDE DEF one
<1>3. ParseMore(Parsed, "items", "]", one, Success(v, z)) = Success(one, r)
  BY <1>2, MoreEnds
<1> QED BY <1>1, <1>3 DEF one

\* an item and more of them,
LEMMA MoreItemsRead ==
  ASSUME NEW e, NEW v, ReadsAs(e, v), NEW u \in Texts, NEW more, NEW r,
         Parsed[<<"items", u>>] = Success(more, r)
  PROVE  Parsed[<<"items", Cat(e, Cat(One(Separator), Cat(One(Blank), u)))>>]
         = Success(WithItems(CreateArray(<<v>>), more), r)
<1> DEFINE one == CreateArray(<<v>>)
           k == Cat(One(Blank), u)
           w == Cat(One(Separator), k)
<1>1. Separator \in Symbols /\ Separator \notin Spaces /\ Blank \in Spaces
  BY SymbolsAre, SignsDiffer DEF Spaces
<1>2. k \in Texts /\ Parsed[<<"items", k>>] = Parsed[<<"items", u>>]
  <2>1. "items" \in {"items", "members"}
    OBVIOUS
  <2> QED BY <1>1, <2>1, SpaceSkipped
<1>3. Parsed[<<"items", k>>] = Success(more, r)
  BY <1>2
<1> HIDE DEF k
<1>4. w \in Texts /\ Skip(w) = w
  BY <1>1, <1>2, FrontIs
<1>5. Skip(w) = Cat(One(Separator), k)
  BY <1>4
<1> HIDE DEF w
<1>6. Parsed[<<"items", Cat(e, w)>>] = ParseMore(Parsed, "items", "]", one, Success(v, w))
  BY <1>4, ItemRead
<1>7. "]" \in Brackets
  BY DEF Brackets
<1> HIDE DEF one
<1>8. ParseMore(Parsed, "items", "]", one, Success(v, w))
      = Success(WithItems(one, more), r)
  BY <1>2, <1>3, <1>4, <1>5, <1>7, MoreFollows
<1> QED BY <1>6, <1>8 DEF one, w, k

\* and then the others, to the end of the array.
LEMMA ItemsRead ==
  ASSUME NEW V, NEW e \in Entries, NEW v \in Seq(V), e # <<>>, Len(v) = Len(e),
         \A i \in 1..Len(e) : ReadsAs(e[i], v[i]), NEW r \in Texts
  PROVE  Parsed[<<"items", Cat(ArrayBody(e), Cat(One("]"), r))>>] = Success(CreateArray(v), r)
<1> DEFINE z == Cat(One("]"), r)
           Q(n, a, b) == Len(a) = n + 1 /\ Len(b) = n + 1 /\ \A i \in 1..(n + 1) : ReadsAs(a[i], b[i])
           N == {n \in Nat : \A a \in Entries, b \in Seq(V) :
                   Q(n, a, b) => Parsed[<<"items", Cat(ArrayBody(a), z)>>] = Success(CreateArray(b), r)}
<1>1. z \in Texts /\ Skip(z) = Cat(One("]"), r)
  <2>1. "]" \in Symbols /\ "]" \notin Spaces
    BY SymbolsAre, SignsDiffer DEF Brackets
  <2> QED BY <2>1, FrontIs
<1> HIDE DEF z
<1>2. 0 \in N
  <2>0. \A a \in Entries : Len(a) # 0 => a # <<>>
    OBVIOUS
  <2> SUFFICES ASSUME NEW a \in Entries, NEW b \in Seq(V), Q(0, a, b)
               PROVE  Parsed[<<"items", Cat(ArrayBody(a), z)>>] = Success(CreateArray(b), r)
    OBVIOUS
  <2>1. Len(a) = 1 /\ Len(b) = 1 /\ ReadsAs(a[1], b[1])
    BY 0 + 1 = 1, 1 \in 1..1
  <2> HIDE DEF N, Q
  <2>2. a # <<>>
    <3>1. Len(a) # 0
      BY <2>1
    <3> QED BY <2>0, <3>1, Zenon
  <2>3. ArrayBody(a) = a[1]
    BY <2>1, <2>2, ArrayBodyParts
  <2>4. Parsed[<<"items", Cat(a[1], z)>>] = Success(CreateArray(<<b[1]>>), r)
    BY <1>1, <2>1, OneItemRead
  <2>6. b = <<b[1]>>
    BY <2>1
  <2> QED BY <2>3, <2>4, <2>6
<1>3. ASSUME NEW n \in Nat, n \in N PROVE n + 1 \in N
  <2> SUFFICES ASSUME NEW a \in Entries, NEW b \in Seq(V), Q(n + 1, a, b)
               PROVE  Parsed[<<"items", Cat(ArrayBody(a), z)>>] = Success(CreateArray(b), r)
    OBVIOUS
  <2> DEFINE x == Tail(a)
             y == Tail(b)
             u == Cat(ArrayBody(x), z)
             w == Cat(One(Separator), Cat(One(Blank), u))
  <2>1. /\ Len(a) = n + 2 /\ Len(b) = n + 2 /\ \A i \in 1..(n + 2) : ReadsAs(a[i], b[i])
        /\ Len(a) # 1
    <3>1. (n + 1) + 1 = n + 2
      OBVIOUS
    <3> QED BY <3>1
  <2>2. a # <<>> /\ b # <<>>
    BY <2>1
  <2>3. /\ a[1] \in Texts /\ x \in Entries /\ Len(x) = Len(a) - 1
        /\ \A i \in 1..(Len(a) - 1) : x[i] = a[i + 1]
        /\ ArrayBody(x) \in Texts
        /\ ArrayBody(a) = Cat(a[1], Cat(One(Separator), Cat(One(Blank), ArrayBody(x))))
    BY <2>1, <2>2, ArrayBodyParts
  <2>4. y \in Seq(V) /\ Len(y) = Len(b) - 1 /\ \A i \in 1..(Len(b) - 1) : y[i] = b[i + 1]
    BY <2>2, HeadAndTail
  <2>5. Q(n, x, y)
    <3>1. Len(x) = n + 1 /\ Len(y) = n + 1
      BY <2>1, <2>3, <2>4
    <3>2. ASSUME NEW i \in 1..(n + 1) PROVE ReadsAs(x[i], y[i])
      <4>1. i + 1 \in 1..(n + 2) /\ i \in 1..(Len(a) - 1) /\ i \in 1..(Len(b) - 1)
        BY <2>1
      <4>2. x[i] = a[i + 1] /\ y[i] = b[i + 1]
        BY <2>3, <2>4, <4>1
      <4> QED BY <2>1, <4>1, <4>2
    <3> QED BY <3>1, <3>2
  <2>6. Parsed[<<"items", u>>] = Success(CreateArray(y), r)
    BY <1>3, <2>3, <2>4, <2>5
  <2>7. ReadsAs(a[1], b[1])
    <3>1. 1 \in 1..(n + 2)
      OBVIOUS
    <3> QED BY <2>1, <3>1
  <2> HIDE DEF x, y, Q
  <2>8. /\ One(Separator) \in Texts /\ One(Blank) \in Texts /\ Separator \in Symbols
        /\ Separator \notin Spaces /\ Blank \in Spaces
    BY SymbolsAre, SignsDiffer, TextsAre DEF Spaces
  <2>9. u \in Texts
    BY <1>1, <2>3, TextsAre
  <2>10. Cat(ArrayBody(a), z) = Cat(a[1], w)
    <3> DEFINE B == ArrayBody(x)
               c == One(Separator)
               d == One(Blank)
    <3>1. B \in Texts /\ c \in Texts /\ d \in Texts /\ ArrayBody(a) = Cat(a[1], Cat(c, Cat(d, B)))
      BY <2>3, <2>8
    <3> HIDE DEF B, c, d
    <3>2. Cat(d, B) \in Texts /\ Cat(Cat(d, B), z) = Cat(d, Cat(B, z))
      BY <1>1, <3>1, CatTexts
    <3> DEFINE D == Cat(d, B)
    <3>3. D \in Texts
      BY <3>2
    <3> HIDE DEF D
    <3>4. Cat(c, D) \in Texts /\ Cat(Cat(c, D), z) = Cat(c, Cat(D, z))
      BY <1>1, <3>1, <3>3, CatTexts
    <3> DEFINE C == Cat(c, D)
    <3>5. C \in Texts
      BY <3>4
    <3> HIDE DEF C
    <3>6. Cat(Cat(a[1], C), z) = Cat(a[1], Cat(C, z))
      BY <1>1, <2>3, <3>5, CatTexts
    <3> QED BY <3>1, <3>2, <3>4, <3>6 DEF C, D, B, c, d
  <2>11. Parsed[<<"items", Cat(a[1], w)>>]
         = Success(WithItems(CreateArray(<<b[1]>>), CreateArray(y)), r)
    <3> DEFINE more == CreateArray(y)
    <3>1. Parsed[<<"items", u>>] = Success(more, r)
      BY <2>6
    <3> HIDE DEF more, u
    <3>2. Parsed[<<"items", Cat(a[1], Cat(One(Separator), Cat(One(Blank), u)))>>]
          = Success(WithItems(CreateArray(<<b[1]>>), more), r)
      BY <2>7, <2>9, <3>1, MoreItemsRead
    <3> QED BY <3>2 DEF more
  <2>12. CreateArray(b) = WithItems(CreateArray(<<b[1]>>), CreateArray(y))
    BY <2>2, ArrayGrows DEF y
  <2> QED BY <2>10, <2>11, <2>12
<1>4. \A n \in Nat : n \in N
  <2> HIDE DEF N
  <2> QED BY <1>2, <1>3, SetInduction
<1>5. Len(e) - 1 \in Nat /\ Q(Len(e) - 1, e, v)
  <2> DEFINE n == Len(e)
  <2>1. n \in Nat \ {0}
    BY DEF Entries
  <2>2. Len(v) = n /\ \A i \in 1..n : ReadsAs(e[i], v[i])
    OBVIOUS
  <2> HIDE DEF n
  <2>3. (n - 1) + 1 = n /\ n - 1 \in Nat
    BY <2>1
  <2> QED BY <2>2, <2>3 DEF n
<1> HIDE DEF Q
<1>6. Parsed[<<"items", Cat(ArrayBody(e), z)>>] = Success(CreateArray(v), r)
  BY <1>4, <1>5
<1> QED BY <1>6 DEF z

\* Indentation is skipped.
LEMMA SkipRepeat ==
  ASSUME NEW c \in Spaces, NEW n \in Nat, NEW s \in Texts
  PROVE  Cat(Repeat(n, c), s) \in Texts /\ Skip(Cat(Repeat(n, c), s)) = Skip(s)
<1> DEFINE N == {k \in Nat : Cat(Repeat(k, c), s) \in Texts /\ Skip(Cat(Repeat(k, c), s)) = Skip(s)}
<1>1. c \in Symbols
  BY SymbolsAre
<1>2. 0 \in N
  <2>1. Repeat(0, c) \in Texts /\ Len(Repeat(0, c)) = 0
    BY <1>1, RepeatIs
  <2> DEFINE t == Repeat(0, c)
  <2> HIDE DEF t
  <2>2. t = <<>>
    BY <2>1, EmptySeq DEF Texts, t
  <2>3. Cat(t, s) = s
    BY <2>2, CatEmpty DEF Texts
  <2> QED BY <2>3 DEF t
<1>3. ASSUME NEW k \in Nat, k \in N PROVE k + 1 \in N
  <2> DEFINE a == Repeat(k, c)
             b == Repeat(k + 1, c)
  <2>1. a \in Texts /\ Len(a) = k /\ b \in Texts /\ Len(b) = k + 1
        /\ (\A i \in 1..k : a[i] = c) /\ \A i \in 1..(k + 1) : b[i] = c
    <3>1. k \in Int /\ k + 1 \in Int /\ (k > 0 \/ k = 0) /\ k + 1 > 0
      OBVIOUS
    <3> QED BY <1>1, <3>1, RepeatIs
  <2> HIDE DEF a, b
  <2>2. b = Cat(One(c), a)
    <3> DEFINE t == Tail(b)
    <3>1. b # <<>>
      <4>1. Len(b) # 0
        BY <2>1
      <4> QED BY <2>1, <4>1, EmptySeq DEF Texts
    <3>2. b = Cat(One(b[1]), t) /\ t \in Seq(Symbols) /\ Len(t) = Len(b) - 1
          /\ \A i \in 1..(Len(b) - 1) : t[i] = b[i + 1]
      BY <2>1, <3>1, HeadAndTail DEF Texts
    <3> HIDE DEF t
    <3>3. b[1] = c
      <4>1. 1 \in 1..(k + 1)
        OBVIOUS
      <4> QED BY <2>1, <4>1
    <3>4. Len(t) = Len(a)
      BY <2>1, <3>2
    <3>5. ASSUME NEW i \in 1..k PROVE t[i] = a[i]
      <4>1. i \in 1..(Len(b) - 1) /\ i + 1 \in 1..(k + 1)
        BY <2>1
      <4> QED BY <2>1, <3>2, <4>1
    <3>6. t = a
      <4>1. a \in Seq(Symbols) /\ \A i \in 1..Len(t) : t[i] = a[i]
        BY <2>1, <3>4, <3>5 DEF Texts
      <4> QED BY <3>2, <3>4, <4>1, SeqEqual
    <3> QED BY <3>2, <3>3, <3>6
  <2> DEFINE u == Cat(a, s)
  <2>3. u \in Texts /\ Skip(u) = Skip(s)
    BY <1>3 DEF a
  <2>4. Cat(b, s) = Cat(One(c), u)
    BY <1>1, <2>1, <2>2, CatTexts, TextsAre
  <2> HIDE DEF u
  <2>5. Cat(One(c), u) \in Texts /\ Skip(Cat(One(c), u)) = Skip(u)
    BY <2>3, SkipSpace
  <2>6. k + 1 \in Nat /\ Cat(b, s) \in Texts /\ Skip(Cat(b, s)) = Skip(s)
    BY <2>3, <2>4, <2>5
  <2> QED BY <2>6 DEF b
<1>4. \A k \in Nat : k \in N
  <2> HIDE DEF N
  <2> QED BY <1>2, <1>3, SetInduction
<1> QED BY <1>4

\* What is before and behind the name of a member.
LEMMA MemberParts ==
  ASSUME NEW c \in Symbols, NEW e \in Texts, NEW d \in Nat, NEW w \in Texts
  PROVE  LET x == Cat(One(":"), Cat(One(Tab), Cat(e, w)))
             s == Cat(JsonMember(c, e, d), w)
         IN  /\ x \in Texts /\ s \in Texts /\ <<c>> \in Texts
             /\ Skip(s) = Cat(PrintString(<<c>>), x)
             /\ Cat(e, w) \in Texts /\ Skip(Tail(x)) = Skip(Cat(e, w))
             /\ Skip(x) = x /\ StartsWith(x, ":")
<1> DEFINE ew == Cat(e, w)
           y == Cat(One(Tab), ew)
           x == Cat(One(":"), y)
           r == Repeat(d + 1, Tab)
           q == PrintString(<<c>>)
           z == <<":", Tab>>
           s == Cat(JsonMember(c, e, d), w)
<1>1. Tab \in Symbols /\ Tab \in Spaces /\ ":" \in Symbols /\ ":" \notin Spaces
  BY SymbolsAre, SignsDiffer DEF Spaces
<1>2. ew \in Texts
  BY TextsAre
<1> HIDE DEF ew
<1>3. y \in Texts /\ Skip(y) = Skip(ew)
  BY <1>1, <1>2, FrontIs
<1> HIDE DEF y
<1>4. x \in Texts /\ Tail(x) = y /\ Skip(x) = x /\ StartsWith(x, ":")
  BY <1>1, <1>3, FrontIs
<1> HIDE DEF x
<1>5. <<c>> \in Texts /\ q \in Texts
  BY Written, PrintStringIs
<1>6. r \in Texts /\ d + 1 \in Nat
  <2>1. d + 1 \in Int /\ d + 1 \in Nat
    OBVIOUS
  <2> QED BY <1>1, <2>1, RepeatIs
<1>7. JsonMember(c, e, d) = Cat(Cat(Cat(r, q), z), e)
  BY DEF JsonMember, Cat
<1>8. z = Cat(One(":"), One(Tab)) /\ One(":") \in Texts /\ One(Tab) \in Texts
  <2>1. z = Cat(One(":"), One(Tab))
    BY DEF Cat, One
  <2> QED BY <1>1, <2>1, TextsAre
<1> DEFINE a == One(":")
           b == One(Tab)
<1> HIDE DEF r, q, z, a, b
<1>9. s = Cat(r, Cat(q, x))
  <2>1. /\ r \in Texts /\ q \in Texts /\ a \in Texts /\ b \in Texts /\ z = Cat(a, b)
        /\ x = Cat(a, Cat(b, ew))
    BY <1>5, <1>6, <1>8 DEF a, b, x, y
  <2>2. z \in Texts
    BY <2>1, TextsAre
  <2>3. Cat(r, q) \in Texts
    BY <2>1, TextsAre
  <2> DEFINE f == Cat(r, q)
             g == Cat(f, z)
  <2>4. g \in Texts
    BY <2>2, <2>3, TextsAre
  <2> HIDE DEF g
  <2>5. s = Cat(g, ew)
    <3>1. s = Cat(Cat(g, e), w)
      BY <1>7 DEF g
    <3>2. Cat(Cat(g, e), w) = Cat(g, Cat(e, w))
      BY <2>4, CatTexts
    <3> QED BY <3>1, <3>2 DEF ew
  <2> HIDE DEF f
  <2>6. f \in Texts /\ Cat(g, ew) = Cat(f, Cat(z, ew))
    <3>1. f \in Texts
      BY <2>3 DEF f
    <3> QED BY <1>2, <2>2, <3>1, CatTexts DEF g
  <2>7. Cat(z, ew) = x
    BY <1>2, <2>1, CatTexts
  <2>8. Cat(f, x) = Cat(r, Cat(q, x))
    BY <1>4, <2>1, CatTexts DEF f
  <2> QED BY <2>5, <2>6, <2>7, <2>8
<1> DEFINE u == Cat(q, x)
<1>10. u \in Texts /\ u # <<>> /\ u[1] = Quote
  BY <1>4, <1>5, ParseStringReads DEF q
<1> HIDE DEF u
<1>11. Skip(u) = u
  BY <1>10, SkipIs, SignsDiffer
<1>12. Cat(r, u) \in Texts /\ Skip(Cat(r, u)) = Skip(u)
  BY <1>1, <1>6, <1>10, SkipRepeat DEF r
<1>13. s \in Texts /\ Skip(s) = u
  BY <1>9, <1>11, <1>12 DEF u
<1> HIDE DEF s
<1>14. Skip(Tail(x)) = Skip(ew)
  BY <1>3, <1>4
<1> QED BY <1>2, <1>4, <1>5, <1>13, <1>14 DEF x, y, ew, u, q, s

\* What ends an object.
Brace == "}"

\* A member of an object is read first,
LEMMA MemberRead ==
  ASSUME NEW c \in Symbols, NEW e, NEW v, ReadsAs(e, v), NEW d \in Nat, NEW w \in Texts
  PROVE  /\ Cat(JsonMember(c, e, d), w) \in Texts
         /\ Parsed[<<"members", Cat(JsonMember(c, e, d), w)>>]
            = ParseMore(Parsed, "members", Brace, CreateObject(<<Named(c, v)>>), Success(v, w))
<1> DEFINE s == Cat(JsonMember(c, e, d), w)
           ew == Cat(e, w)
           x == Cat(One(":"), Cat(One(Tab), ew))
           q == Cat(PrintString(<<c>>), x)
           m == Success(v, w)
<1>1. e \in Texts /\ Opens(e) /\ Parsed[<<"value", ew>>] = m
  BY DEF ReadsAs
<1>2. /\ x \in Texts /\ s \in Texts /\ <<c>> \in Texts
      /\ Skip(s) = q
      /\ ew \in Texts /\ Skip(Tail(x)) = Skip(ew)
      /\ Skip(x) = x /\ StartsWith(x, ":")
  BY <1>1, MemberParts
<1>3. Skip(ew) = ew
  BY <1>1, OpensIs
<1> HIDE DEF x, s, ew
<1>4. ParseString(q) = Success(CreateString(<<c>>), x)
  BY <1>2, ParseStringReads
<1> HIDE DEF q
<1>5. Parsed[<<"members", s>>] = ParseMembers(Parsed, s)
  BY <1>2, ParsedAt
<1> DEFINE name == ParseString(Skip(s))
<1>6. name.ok /\ name.rest = x /\ NameIn(name.item.text) = c
  <2>1. name = [ok |-> TRUE, item |-> CreateString(<<c>>), rest |-> x]
    BY <1>2, <1>4 DEF Success
  <2>2. CreateString(<<c>>) =
          [type |-> "string", name |-> NoName, text |-> <<c>>, data |-> <<>>, child |-> <<>>]
    BY DEF CreateString, Item
  <2> DEFINE t == CreateString(<<c>>)
             l == <<c>>
  <2>3. l # <<>> /\ l[1] = c
    OBVIOUS
  <2> HIDE DEF name, l
  <2>4. t.text = l
    BY <2>2 DEF l
  <2> HIDE DEF t
  <2>5. name.ok /\ name.rest = x /\ name.item = t
    BY <2>1 DEF t
  <2> QED BY <2>3, <2>4, <2>5 DEF NameIn
<1>7. m.item = v
  BY DEF Success
<1>8. Parsed[<<"value", Skip(Tail(x))>>] = m
  BY <1>1, <1>2, <1>3
<1> HIDE DEF m
<1>9. ParseMembers(Parsed, s) = ParseMore(Parsed, "members", Brace, CreateObject(<<Named(c, v)>>), m)
  <2> HIDE DEF name
  <2> DEFINE nm == NameIn(name.item.text)
             it == m.item
  <2>1. ParseMembers(Parsed, s)
        = IF ~ name.ok \/ ~ StartsWith(Skip(name.rest), ":") THEN Failure
          ELSE ParseMore(Parsed, "members", Brace,
                 CreateObject(<<Named(nm, Parsed[<<"value", Skip(Tail(Skip(name.rest)))>>].item)>>),
                 Parsed[<<"value", Skip(Tail(Skip(name.rest)))>>])
    BY DEF ParseMembers, name, Brace
  <2> HIDE DEF nm
  <2>2. Skip(name.rest) = x
    BY <1>2, <1>6
  <2>3. nm = c
    BY <1>6 DEF nm
  <2>4. ParseMembers(Parsed, s)
        = IF ~ name.ok \/ ~ StartsWith(x, ":") THEN Failure
          ELSE ParseMore(Parsed, "members", Brace, CreateObject(<<Named(c, m.item)>>), m)
    BY <1>8, <2>1, <2>2, <2>3
  <2> QED BY <1>2, <1>6, <1>7, <2>4
<1> QED BY <1>2, <1>5, <1>9 DEF s, m

\* an object of one member,
LEMMA OneMemberRead ==
  ASSUME NEW c \in Symbols, NEW e, NEW v, ReadsAs(e, v), NEW d \in Nat,
         NEW z \in Texts, NEW r \in Texts, Skip(z) = Cat(One(Brace), r)
  PROVE  Parsed[<<"members", Cat(JsonMember(c, e, d), Cat(One(Newline), z))>>]
         = Success(CreateObject(<<Named(c, v)>>), r)
<1> DEFINE one == CreateObject(<<Named(c, v)>>)
           w == Cat(One(Newline), z)
<1>1. w \in Texts /\ Skip(w) = Cat(One(Brace), r)
  <2>1. Newline \in Spaces
    BY DEF Spaces
  <2> QED BY <2>1, SkipSpace
<1> HIDE DEF w
<1>2. Parsed[<<"members", Cat(JsonMember(c, e, d), w)>>]
      = ParseMore(Parsed, "members", Brace, one, Success(v, w))
  BY <1>1, MemberRead
<1>3. Brace \in Brackets
  BY DEF Brackets, Brace
<1> HIDE DEF one
<1>4. ParseMore(Parsed, "members", Brace, one, Success(v, w)) = Success(one, r)
  BY <1>1, <1>3, MoreEnds
<1> QED BY <1>2, <1>4 DEF one, w

\* a member and more of them,
LEMMA MoreMembersRead ==
  ASSUME NEW c \in Symbols, NEW e, NEW v, ReadsAs(e, v), NEW d \in Nat, NEW u \in Texts, NEW more, NEW r,
         Parsed[<<"members", u>>] = Success(more, r)
  PROVE  Parsed[<<"members", Cat(JsonMember(c, e, d), Cat(One(Separator), Cat(One(Newline), u)))>>]
         = Success(WithItems(CreateObject(<<Named(c, v)>>), more), r)
<1> DEFINE one == CreateObject(<<Named(c, v)>>)
           k == Cat(One(Newline), u)
           w == Cat(One(Separator), k)
<1>1. Separator \in Symbols /\ Separator \notin Spaces /\ Newline \in Spaces
  BY SymbolsAre, SignsDiffer DEF Spaces
<1>2. k \in Texts /\ Parsed[<<"members", k>>] = Parsed[<<"members", u>>]
  <2>1. "members" \in {"items", "members"}
    OBVIOUS
  <2> QED BY <1>1, <2>1, SpaceSkipped
<1>3. Parsed[<<"members", k>>] = Success(more, r)
  BY <1>2
<1> HIDE DEF k
<1>4. w \in Texts /\ Skip(w) = w
  BY <1>1, <1>2, FrontIs
<1>5. Skip(w) = Cat(One(Separator), k)
  BY <1>4
<1> HIDE DEF w
<1>6. Parsed[<<"members", Cat(JsonMember(c, e, d), w)>>]
      = ParseMore(Parsed, "members", Brace, one, Success(v, w))
  BY <1>4, MemberRead
<1>7. Brace \in Brackets
  BY DEF Brackets, Brace
<1> HIDE DEF one
<1>8. ParseMore(Parsed, "members", Brace, one, Success(v, w)) = Success(WithItems(one, more), r)
  BY <1>2, <1>3, <1>4, <1>5, <1>7, MoreFollows
<1> QED BY <1>6, <1>8 DEF one, w, k

\* What print_object writes between the brackets, behind the first newline.
ObjectBody(names, e, d) ==
  FlattenSeq([i \in DOMAIN e |->
                Cat(Cat(JsonMember(names[i], e[i], d), Comma(i, Len(e))), One(Newline))])

\* It is the first member, and the others behind a comma.
LEMMA ObjectBodyParts ==
  ASSUME NEW e \in Entries, e # <<>>, NEW names \in Seq(Symbols), Len(names) = Len(e), NEW d \in Nat
  PROVE  LET m == JsonMember(names[1], e[1], d)
             b == ObjectBody(Tail(names), Tail(e), d)
         IN  /\ e[1] \in Texts /\ names[1] \in Symbols /\ m \in Texts /\ ObjectBody(names, e, d) \in Texts
             /\ Len(e) = 1 => ObjectBody(names, e, d) = Cat(m, One(Newline))
             /\ Len(e) # 1 =>
                  /\ Tail(e) \in Entries /\ Len(Tail(e)) = Len(e) - 1
                  /\ Tail(names) \in Seq(Symbols) /\ Len(Tail(names)) = Len(e) - 1
                  /\ Len(e) - 1 \in Nat \ {0}
                  /\ \A i \in 1..(Len(e) - 1) : Tail(e)[i] = e[i + 1] /\ Tail(names)[i] = names[i + 1]
                  /\ b \in Texts
                  /\ ObjectBody(names, e, d) = Cat(m, Cat(One(Separator), Cat(One(Newline), b)))
<1> DEFINE n == Len(e)
           t == Tail(e)
           ts == Tail(names)
           nl == One(Newline)
           p == [i \in 1..n |-> Cat(Cat(JsonMember(names[i], e[i], d), Comma(i, n)), nl)]
           q == [i \in 1..(n - 1) |-> Cat(Cat(JsonMember(ts[i], t[i], d), Comma(i, n - 1)), nl)]
           m == JsonMember(names[1], e[1], d)
<1>1. /\ n \in Nat \ {0} /\ DOMAIN e = 1..n /\ e[1] \in Texts /\ \A i \in 1..n : e[i] \in Texts
      /\ t \in Entries /\ Len(t) = n - 1 /\ \A i \in 1..(n - 1) : t[i] = e[i + 1]
      /\ n - 1 \in Nat /\ DOMAIN t = 1..(n - 1)
  <2>1. /\ e[1] \in Texts /\ t \in Entries /\ n \in Nat \ {0} /\ Len(t) = n - 1
        /\ \A i \in 1..(n - 1) : t[i] = e[i + 1]
    BY HeadAndTail DEF Entries
  <2> HIDE DEF n, t
  <2>2. n - 1 \in Nat
    BY <2>1
  <2>3. DOMAIN e = 1..n /\ \A i \in 1..n : e[i] \in Texts
    BY EntriesAre DEF n
  <2>4. DOMAIN t = 1..(n - 1)
    BY <2>1, EntriesAre
  <2> QED BY <2>1, <2>2, <2>3, <2>4
<1>2. /\ Len(names) = n /\ names[1] \in Symbols /\ \A i \in 1..n : names[i] \in Symbols
      /\ ts \in Seq(Symbols) /\ Len(ts) = n - 1 /\ \A i \in 1..(n - 1) : ts[i] = names[i + 1]
  <2>1. Len(names) = n /\ names # <<>>
    <3>1. Len(names) # 0
      BY <1>1
    <3> QED BY <3>1, EmptySeq
  <2>2. /\ names[1] \in Symbols /\ ts \in Seq(Symbols) /\ Len(ts) = Len(names) - 1
        /\ \A i \in 1..(Len(names) - 1) : ts[i] = names[i + 1]
    BY <2>1, HeadAndTail
  <2>3. \A i \in 1..Len(names) : names[i] \in Symbols
    OBVIOUS
  <2> HIDE DEF n, ts
  <2> QED BY <2>1, <2>2, <2>3
<1>3. ObjectBody(names, e, d) = FlattenSeq(p)
  BY <1>1 DEF ObjectBody
<1>4. ObjectBody(ts, t, d) = FlattenSeq(q)
  <2> HIDE DEF n, t, ts
  <2> QED BY <1>1 DEF ObjectBody
<1>5. nl \in Texts /\ One(Separator) \in Texts /\ <<>> \in Texts
  BY SymbolsAre, TextsAre
<1>6. /\ \A i \in 1..n : Comma(i, n) \in Texts
      /\ Comma(1, 1) = <<>> /\ (n # 1 => Comma(1, n) = One(Separator))
  BY <1>5 DEF Comma, One
<1> HIDE DEF n, t, ts, nl, m
<1>7. \A i \in 1..n : p[i] \in Texts
  <2> TAKE i \in 1..n
  <2> DEFINE x == JsonMember(names[i], e[i], d)
             y == Comma(i, n)
  <2>1. x \in Texts /\ y \in Texts
    BY <1>1, <1>2, <1>6, JsonMemberIs
  <2> HIDE DEF x, y
  <2>2. Cat(Cat(x, y), nl) \in Texts
    BY <1>5, <2>1, TextsAre
  <2> QED BY <2>2 DEF x, y
<1>8. \A i \in 1..(n - 1) : q[i] = p[i + 1]
  <2> TAKE i \in 1..(n - 1)
  <2>1. i + 1 \in 1..n /\ (i + 1 = n <=> i = n - 1) /\ t[i] = e[i + 1] /\ ts[i] = names[i + 1]
    BY <1>1, <1>2
  <2>2. Comma(i + 1, n) = Comma(i, n - 1)
    BY <2>1 DEF Comma
  <2> QED BY <2>1, <2>2
<1>9. p = [i \in 1..n |-> p[i]] /\ q = [i \in 1..(n - 1) |-> q[i]]
  OBVIOUS
<1>10. p[1] = Cat(Cat(m, Comma(1, n)), nl)
  BY <1>1 DEF m
<1>11. n = 1 => q = <<>>
  <2> SUFFICES ASSUME n = 1 PROVE q = <<>>
    OBVIOUS
  <2>1. 1..(n - 1) = {}
    OBVIOUS
  <2> HIDE DEF q
  <2>2. q = [i \in {} |-> q[i]]
    BY <1>9, <2>1
  <2> QED BY <2>2
<1> HIDE DEF p, q
<1>12. /\ FlattenSeq(p) = Cat(p[1], FlattenSeq(q))
       /\ FlattenSeq(p) \in Texts /\ FlattenSeq(q) \in Texts
  BY <1>1, <1>7, <1>8, <1>9, PiecesParts
<1>13. m \in Texts
  BY <1>1, <1>2, JsonMemberIs DEF m
<1>14. CASE n = 1
  <2>1. p[1] = Cat(m, nl) /\ FlattenSeq(q) = <<>>
    BY <1>6, <1>10, <1>11, <1>13, <1>14, CatEmpty, FlattenNothing DEF Texts
  <2>2. Cat(m, nl) \in Texts
    BY <1>5, <1>13, TextsAre
  <2>3. ObjectBody(names, e, d) = Cat(m, nl)
    BY <1>3, <1>12, <2>1, <2>2, CatEmpty DEF Texts
  <2> QED BY <1>1, <1>2, <1>3, <1>12, <1>13, <1>14, <2>3 DEF n, m, nl
<1>15. CASE n # 1
  <2> DEFINE b == FlattenSeq(q)
             c == One(Separator)
  <2> HIDE DEF b, c
  <2>1. p[1] = Cat(Cat(m, c), nl)
    BY <1>6, <1>10, <1>15 DEF c
  <2>2. b \in Texts /\ c \in Texts /\ m \in Texts /\ nl \in Texts
    BY <1>5, <1>12, <1>13 DEF b, c
  <2>3. Cat(m, c) \in Texts /\ Cat(nl, b) \in Texts
    BY <2>2, TextsAre
  <2> DEFINE mc == Cat(m, c)
             nb == Cat(nl, b)
  <2>4. Cat(Cat(mc, nl), b) = Cat(mc, nb)
    BY <2>2, <2>3, CatTexts
  <2> HIDE DEF nb
  <2>5. Cat(Cat(m, c), nb) = Cat(m, Cat(c, nb))
    BY <2>2, <2>3, CatTexts DEF nb
  <2>6. ObjectBody(names, e, d) = Cat(m, Cat(c, nb))
    BY <1>3, <1>12, <2>1, <2>4, <2>5 DEF b
  <2>7. n - 1 \in Nat \ {0}
    BY <1>1, <1>15
  <2> QED BY <1>1, <1>2, <1>3, <1>4, <1>12, <1>13, <1>15, <2>6, <2>7 DEF n, m, nl, nb, b, c, t, ts
<1> QED BY <1>14, <1>15

\* The text e of a member with the name c is parsed as v.
MemberAs(c, e, v) == \E u : ReadsAs(e, u) /\ v = Named(c, u)

\* and then the others, to the end of the object.
LEMMA MembersRead ==
  ASSUME NEW V, NEW e \in Entries, NEW names \in Seq(Symbols), NEW v \in Seq(V), e # <<>>,
         Len(names) = Len(e), Len(v) = Len(e), \A i \in 1..Len(e) : MemberAs(names[i], e[i], v[i]),
         NEW d \in Nat, NEW z \in Texts, NEW r \in Texts, Skip(z) = Cat(One(Brace), r)
  PROVE  Parsed[<<"members", Cat(ObjectBody(names, e, d), z)>>] = Success(CreateObject(v), r)
<1> DEFINE Q(n, m, a, b) == /\ Len(m) = n + 1 /\ Len(a) = n + 1 /\ Len(b) = n + 1
                            /\ \A i \in 1..(n + 1) : MemberAs(m[i], a[i], b[i])
           N == {n \in Nat : \A m \in Seq(Symbols), a \in Entries, b \in Seq(V) :
                   Q(n, m, a, b) =>
                     Parsed[<<"members", Cat(ObjectBody(m, a, d), z)>>] = Success(CreateObject(b), r)}
<1>1. One(Newline) \in Texts /\ One(Separator) \in Texts
  BY SymbolsAre, TextsAre
<1>2. 0 \in N
  <2>0. \A a \in Entries : Len(a) # 0 => a # <<>>
    OBVIOUS
  <2> SUFFICES ASSUME NEW m \in Seq(Symbols), NEW a \in Entries, NEW b \in Seq(V), Q(0, m, a, b)
               PROVE  Parsed[<<"members", Cat(ObjectBody(m, a, d), z)>>] = Success(CreateObject(b), r)
    OBVIOUS
  <2>1. Len(m) = 1 /\ Len(a) = 1 /\ Len(b) = 1 /\ MemberAs(m[1], a[1], b[1])
    BY 0 + 1 = 1, 1 \in 1..1
  <2> HIDE DEF N, Q
  <2>2. a # <<>>
    <3>1. Len(a) # 0
      BY <2>1
    <3> QED BY <2>0, <3>1, Zenon
  <2> DEFINE x == JsonMember(m[1], a[1], d)
             nl == One(Newline)
  <2>3. /\ ObjectBody(m, a, d) = Cat(x, nl) /\ m[1] \in Symbols /\ x \in Texts
    BY <2>1, <2>2, ObjectBodyParts
  <2>4. PICK u : ReadsAs(a[1], u) /\ b[1] = Named(m[1], u)
    BY <2>1 DEF MemberAs
  <2>5. Parsed[<<"members", Cat(x, Cat(nl, z))>>] = Success(CreateObject(<<Named(m[1], u)>>), r)
    BY <2>3, <2>4, OneMemberRead
  <2>6. b = <<b[1]>>
    BY <2>1
  <2> HIDE DEF x, nl
  <2>7. Cat(Cat(x, nl), z) = Cat(x, Cat(nl, z))
    BY <1>1, <2>3, CatTexts DEF nl
  <2> QED BY <2>3, <2>4, <2>5, <2>6, <2>7
<1>3. ASSUME NEW n \in Nat, n \in N PROVE n + 1 \in N
  <2> SUFFICES ASSUME NEW m \in Seq(Symbols), NEW a \in Entries, NEW b \in Seq(V), Q(n + 1, m, a, b)
               PROVE  Parsed[<<"members", Cat(ObjectBody(m, a, d), z)>>] = Success(CreateObject(b), r)
    OBVIOUS
  <2> DEFINE x == Tail(a)
             y == Tail(b)
             l == Tail(m)
             B == ObjectBody(l, x, d)
             g == JsonMember(m[1], a[1], d)
             c == One(Separator)
             nl == One(Newline)
             u == Cat(B, z)
  <2>1. /\ Len(m) = n + 2 /\ Len(a) = n + 2 /\ Len(b) = n + 2 /\ Len(a) # 1
        /\ \A i \in 1..(n + 2) : MemberAs(m[i], a[i], b[i])
    <3>1. (n + 1) + 1 = n + 2
      OBVIOUS
    <3> QED BY <3>1
  <2>2. a # <<>> /\ b # <<>>
    BY <2>1
  <2>3. /\ m[1] \in Symbols /\ g \in Texts
        /\ x \in Entries /\ Len(x) = Len(a) - 1 /\ l \in Seq(Symbols) /\ Len(l) = Len(a) - 1
        /\ \A i \in 1..(Len(a) - 1) : x[i] = a[i + 1] /\ l[i] = m[i + 1]
        /\ B \in Texts
        /\ ObjectBody(m, a, d) = Cat(g, Cat(c, Cat(nl, B)))
    <3>1. Len(m) = Len(a)
      BY <2>1
    <3> QED BY <2>1, <2>2, <3>1, ObjectBodyParts
  <2>4. y \in Seq(V) /\ Len(y) = Len(b) - 1 /\ \A i \in 1..(Len(b) - 1) : y[i] = b[i + 1]
    BY <2>2, HeadAndTail
  <2>5. Q(n, l, x, y)
    <3>1. Len(x) = n + 1 /\ Len(y) = n + 1 /\ Len(l) = n + 1
      BY <2>1, <2>3, <2>4
    <3>2. ASSUME NEW i \in 1..(n + 1) PROVE MemberAs(l[i], x[i], y[i])
      <4>1. i + 1 \in 1..(n + 2) /\ i \in 1..(Len(a) - 1) /\ i \in 1..(Len(b) - 1)
        BY <2>1
      <4>2. x[i] = a[i + 1] /\ l[i] = m[i + 1] /\ y[i] = b[i + 1]
        BY <2>3, <2>4, <4>1
      <4> QED BY <2>1, <4>1, <4>2
    <3> QED BY <3>1, <3>2
  <2>6. Parsed[<<"members", u>>] = Success(CreateObject(y), r)
    BY <1>3, <2>3, <2>4, <2>5
  <2>7. PICK w : ReadsAs(a[1], w) /\ b[1] = Named(m[1], w)
    <3>1. 1 \in 1..(n + 2)
      OBVIOUS
    <3> QED BY <2>1, <3>1 DEF MemberAs
  <2> HIDE DEF x, y, l, Q, B, g, c, nl
  <2>8. u \in Texts /\ c \in Texts /\ nl \in Texts
    BY <1>1, <2>3, TextsAre DEF c, nl
  <2>9. Cat(ObjectBody(m, a, d), z) = Cat(g, Cat(c, Cat(nl, u)))
    <3>1. Cat(nl, B) \in Texts /\ Cat(Cat(nl, B), z) = Cat(nl, Cat(B, z))
      BY <2>3, <2>8, CatTexts
    <3> DEFINE D == Cat(nl, B)
    <3>2. D \in Texts
      BY <3>1
    <3> HIDE DEF D
    <3>3. Cat(c, D) \in Texts /\ Cat(Cat(c, D), z) = Cat(c, Cat(D, z))
      BY <2>8, <3>2, CatTexts
    <3> DEFINE C == Cat(c, D)
    <3>4. C \in Texts
      BY <3>3
    <3> HIDE DEF C
    <3>5. Cat(Cat(g, C), z) = Cat(g, Cat(C, z))
      BY <2>3, <3>4, CatTexts
    <3> QED BY <2>3, <3>1, <3>3, <3>5 DEF C, D
  <2> HIDE DEF u
  <2>10. Parsed[<<"members", Cat(g, Cat(c, Cat(nl, u)))>>]
         = Success(WithItems(CreateObject(<<Named(m[1], w)>>), CreateObject(y)), r)
    <3> DEFINE more == CreateObject(y)
               f == a[1]
               h == m[1]
    <3>1. Parsed[<<"members", u>>] = Success(more, r) /\ ReadsAs(f, w) /\ h \in Symbols /\ u \in Texts
      BY <2>3, <2>6, <2>7, <2>8
    <3> HIDE DEF more, f, h
    <3>2. Parsed[<<"members", Cat(JsonMember(h, f, d), Cat(One(Separator), Cat(One(Newline), u)))>>]
          = Success(WithItems(CreateObject(<<Named(h, w)>>), more), r)
      BY <3>1, MoreMembersRead
    <3> QED BY <3>2 DEF more, f, h, g, c, nl
  <2>11. CreateObject(b) = WithItems(CreateObject(<<b[1]>>), CreateObject(y))
    BY <2>2, ArrayGrows DEF y
  <2> QED BY <2>7, <2>9, <2>10, <2>11
<1>4. \A n \in Nat : n \in N
  <2> HIDE DEF N
  <2> QED BY <1>2, <1>3, SetInduction
<1>5. Len(e) - 1 \in Nat /\ Q(Len(e) - 1, names, e, v)
  <2> DEFINE n == Len(e)
  <2>1. n \in Nat \ {0}
    BY DEF Entries
  <2>2. Len(v) = n /\ Len(names) = n /\ \A i \in 1..n : MemberAs(names[i], e[i], v[i])
    OBVIOUS
  <2> HIDE DEF n
  <2>3. (n - 1) + 1 = n /\ n - 1 \in Nat
    BY <2>1
  <2> QED BY <2>2, <2>3 DEF n
<1> HIDE DEF Q
<1> QED BY <1>4, <1>5

\* What opens an array,
Bracket == "["

\* and an object.
OpenBrace == "{"

\* Behind an opening bracket there are items or the end.
LEMMA BracketRead ==
  ASSUME NEW x \in Texts
  PROVE  LET inner == Skip(x) IN
         /\ Parsed[<<"value", Cat(One(Bracket), x)>>]
            = IF StartsWith(inner, "]") THEN Success(CreateArray(<<>>), Tail(inner))
              ELSE Parsed[<<"items", x>>]
         /\ Parsed[<<"value", Cat(One(OpenBrace), x)>>]
            = IF StartsWith(inner, Brace) THEN Success(CreateObject(<<>>), Tail(inner))
              ELSE Parsed[<<"members", x>>]
<1> DEFINE a == Cat(One(Bracket), x)
           b == Cat(One(OpenBrace), x)
<1>1. Bracket \in Symbols /\ OpenBrace \in Symbols
  BY SymbolsAre DEF Brackets, Bracket, OpenBrace
<1>2. a \in Texts /\ a # <<>> /\ a[1] = Bracket /\ Tail(a) = x
      /\ b \in Texts /\ b # <<>> /\ b[1] = OpenBrace /\ Tail(b) = x
  BY <1>1, FrontIs
<1> HIDE DEF a, b
<1>3. Parsed[<<"value", a>>] = ParseValue(Parsed, a) /\ Parsed[<<"value", b>>] = ParseValue(Parsed, b)
  BY <1>2, ParsedAt
<1>4. ParseValue(Parsed, a)
      = IF StartsWith(Skip(x), "]") THEN Success(CreateArray(<<>>), Tail(Skip(x)))
        ELSE Parsed[<<"items", x>>]
  <2>1. a[1] = "["
    BY <1>2 DEF Bracket
  <2> QED BY <1>2, <2>1, ParsesAs
<1>5. ParseValue(Parsed, b)
      = IF StartsWith(Skip(x), Brace) THEN Success(CreateObject(<<>>), Tail(Skip(x)))
        ELSE Parsed[<<"members", x>>]
  <2>1. b[1] = "{"
    BY <1>2 DEF OpenBrace
  <2> QED BY <1>2, <2>1, ParsesAs DEF Brace
<1> QED BY <1>3, <1>4, <1>5 DEF a, b

\* Brackets are symbols, and what opens differs from what closes.
LEMMA BracketsAre ==
  /\ {"]", Bracket, OpenBrace, Brace} \subseteq Symbols
  /\ "]" \notin Spaces /\ Brace \notin Spaces /\ Bracket \notin Spaces /\ OpenBrace \notin Spaces
  /\ Bracket # "]" /\ Bracket # Brace /\ OpenBrace # "]" /\ OpenBrace # Brace
  /\ Quote # Brace /\ Quote # "]"
<1>1. {"]", Bracket, OpenBrace, Brace} \subseteq Brackets
  BY DEF Brackets, Bracket, OpenBrace, Brace
<1>2. Bracket # "]" /\ Bracket # Brace /\ OpenBrace # "]" /\ OpenBrace # Brace
  BY ZenonT(60) DEF Bracket, OpenBrace, Brace
<1> QED BY <1>1, <1>2, SignsDiffer, SymbolsAre

\* A text with an opening bracket in front begins like a value.
LEMMA OpensAs ==
  ASSUME NEW c \in {Bracket, OpenBrace}, NEW s \in Texts
  PROVE  Cat(One(c), s) \in Texts /\ Opens(Cat(One(c), s))
<1> DEFINE w == Cat(One(c), s)
<1>1. c \in Symbols /\ c \notin Spaces /\ c # "]" /\ c # Brace
  BY BracketsAre
<1>2. w \in Texts /\ w # <<>> /\ w[1] = c
  BY <1>1, FrontIs
<1> HIDE DEF w
<1>3. w[1] \notin Spaces /\ w[1] # "]" /\ w[1] # Brace
  BY <1>1, <1>2
<1> QED BY <1>2, <1>3 DEF w, Opens, Brace

\* An array is parsed as what its items are parsed as.
LEMMA ArrayReads ==
  ASSUME NEW V, NEW e \in Entries, NEW v \in Seq(V), Len(v) = Len(e),
         \A i \in 1..Len(e) : ReadsAs(e[i], v[i])
  PROVE  ReadsAs(JsonArray(e), CreateArray(v))
<1> DEFINE b == ArrayBody(e)
           h == One(Bracket)
           z == One("]")
           t == JsonArray(e)
<1>1. t = Cat(Cat(h, b), z)
  BY DEF JsonArray, ArrayBody, Cat, One, Bracket
<1>2. h \in Texts /\ z \in Texts
  BY BracketsAre, TextsAre
<1>3. b \in Texts /\ (e = <<>> => b = <<>>)
  <2>1. CASE e = <<>>
    <3>1. ArrayBody(<<>>) = FlattenSeq(<<>>)
      <4>1. [i \in DOMAIN <<>> |-> Cat(<<>>[i], IF i = Len(<<>>) THEN <<>> ELSE <<Separator, Blank>>)] = <<>>
        OBVIOUS
      <4> QED BY <4>1 DEF ArrayBody
    <3> QED BY <2>1, <3>1, FlattenNothing, TextsAre
  <2>2. CASE e # <<>>
    BY <2>2, ArrayBodyParts
  <2> QED BY <2>1, <2>2
<1> HIDE DEF t, b, h, z
<1>4. ASSUME NEW r \in Texts
      PROVE  /\ Cat(t, r) = Cat(h, Cat(b, Cat(z, r))) /\ Cat(z, r) \in Texts /\ Cat(b, Cat(z, r)) \in Texts
             /\ t = Cat(h, Cat(b, z)) /\ Cat(b, z) \in Texts
  <2>1. Cat(h, b) \in Texts /\ Cat(z, r) \in Texts /\ Cat(Cat(h, b), z) = Cat(h, Cat(b, z)) /\ Cat(b, z) \in Texts
    BY <1>2, <1>3, CatTexts
  <2> DEFINE hb == Cat(h, b)
             zr == Cat(z, r)
  <2>2. Cat(Cat(hb, z), r) = Cat(hb, zr)
    BY <1>2, <2>1, CatTexts
  <2>3. Cat(Cat(h, b), zr) = Cat(h, Cat(b, zr)) /\ Cat(b, zr) \in Texts
    <3> HIDE DEF zr
    <3>1. zr \in Texts
      BY <2>1 DEF zr
    <3> QED BY <1>2, <1>3, <3>1, CatTexts
  <2> QED BY <1>1, <2>1, <2>2, <2>3
<1>5. t \in Texts /\ Opens(t)
  <2>1. t = Cat(h, Cat(b, z)) /\ Cat(b, z) \in Texts
    BY <1>4, TextsAre
  <2> DEFINE bz == Cat(b, z)
  <2> HIDE DEF bz
  <2>2. bz \in Texts /\ t = Cat(h, bz)
    BY <2>1 DEF bz
  <2> QED BY <2>2, OpensAs DEF h
<1>6. ASSUME NEW r \in Texts PROVE Parsed[<<"value", Cat(t, r)>>] = Success(CreateArray(v), r)
  <2> DEFINE zr == Cat(z, r)
             x == Cat(b, zr)
  <2>1. Cat(t, r) = Cat(h, x) /\ zr \in Texts /\ x \in Texts
    BY <1>4
  <2>2. Parsed[<<"value", Cat(h, x)>>]
        = IF StartsWith(Skip(x), "]") THEN Success(CreateArray(<<>>), Tail(Skip(x)))
          ELSE Parsed[<<"items", x>>]
    <3> HIDE DEF x
    <3> QED BY <2>1, BracketRead DEF h
  <2>3. CASE e = <<>>
    <3>1. x = zr
      BY <1>3, <2>1, <2>3, CatEmpty DEF Texts
    <3>2. Skip(zr) = zr /\ StartsWith(zr, "]") /\ Tail(zr) = r
      BY BracketsAre, FrontIs DEF z
    <3>3. v = <<>>
      <4>1. Len(v) = 0
        BY <2>3
      <4> QED BY <4>1, EmptySeq
    <3> HIDE DEF x, zr
    <3> QED BY <2>1, <2>2, <3>1, <3>2, <3>3
  <2>4. CASE e # <<>>
    <3>1. Parsed[<<"items", x>>] = Success(CreateArray(v), r)
      BY <2>4, ItemsRead DEF b, z
    <3>2. ~ StartsWith(Skip(x), "]")
      <4>1. ReadsAs(e[1], v[1])
        <5>1. 1 \in 1..Len(e)
          BY <2>4, EntriesAre
        <5> QED BY <5>1
      <4> DEFINE f == e[1]
      <4>2. f \in Texts /\ Opens(f)
        BY <4>1 DEF ReadsAs
      <4>3. PICK y \in Texts : b = Cat(f, y)
        <5>1. CASE Len(e) = 1
          <6>1. b = f
            BY <2>4, <5>1, ArrayBodyParts DEF b
          <6> HIDE DEF f
          <6>2. Cat(f, <<>>) = f
            BY <4>2, CatEmpty DEF Texts
          <6> QED BY <6>1, <6>2, TextsAre
        <5>2. CASE Len(e) # 1
          <6> DEFINE k == ArrayBody(Tail(e))
          <6>1. k \in Texts /\ b = Cat(f, Cat(One(Separator), Cat(One(Blank), k)))
            BY <2>4, <5>2, ArrayBodyParts DEF b
          <6> HIDE DEF k, f
          <6>2. One(Separator) \in Texts /\ One(Blank) \in Texts
            BY SymbolsAre, TextsAre
          <6>3. Cat(One(Separator), Cat(One(Blank), k)) \in Texts
            BY <6>1, <6>2, TextsAre
          <6> QED BY <6>1, <6>3
        <5> QED BY <5>1, <5>2
      <4> HIDE DEF f
      <4>4. x = Cat(f, Cat(y, zr)) /\ Cat(y, zr) \in Texts
        <5> HIDE DEF zr
        <5> QED BY <2>1, <4>2, <4>3, CatTexts
      <4> DEFINE yz == Cat(y, zr)
      <4> HIDE DEF yz
      <4>5. yz \in Texts /\ x = Cat(f, yz)
        BY <4>4 DEF yz
      <4> HIDE DEF x
      <4>6. Skip(x) = x /\ ~ StartsWith(x, "]")
        BY <4>2, <4>5, OpensIs
      <4> QED BY <4>6
    <3> HIDE DEF x
    <3> QED BY <2>1, <2>2, <3>1, <3>2
  <2> QED BY <2>3, <2>4
<1> QED BY <1>5, <1>6 DEF ReadsAs, t

\* Indentation is skipped, also where the depth is that of no item.
LEMMA IndentSkipped ==
  ASSUME NEW k \in Int, NEW s \in Texts
  PROVE  /\ Repeat(k, Tab) \in Texts /\ Cat(Repeat(k, Tab), s) \in Texts
         /\ Skip(Cat(Repeat(k, Tab), s)) = Skip(s)
<1>1. Tab \in Symbols /\ Tab \in Spaces
  BY SymbolsAre DEF Spaces
<1>2. CASE k > 0
  <2>1. k \in Nat
    BY <1>2
  <2> QED BY <1>1, <2>1, RepeatIs, SkipRepeat
<1>3. CASE ~ k > 0
  <2> DEFINE x == Repeat(k, Tab)
  <2>1. x \in Texts /\ Len(x) = 0
    BY <1>1, <1>3, RepeatIs
  <2> HIDE DEF x
  <2>2. x = <<>>
    BY <2>1, EmptySeq DEF Texts
  <2>3. Cat(x, s) = s
    BY <2>2, CatEmpty DEF Texts
  <2> QED BY <2>1, <2>3 DEF x
<1> QED BY <1>2, <1>3

\* Where the members of an object begin there is a name, not the end.
LEMMA ObjectBegins ==
  ASSUME NEW V, NEW e \in Entries, NEW names \in Seq(Symbols), NEW v \in Seq(V), e # <<>>,
         Len(names) = Len(e), Len(v) = Len(e), \A i \in 1..Len(e) : MemberAs(names[i], e[i], v[i]),
         NEW d \in Nat, NEW z \in Texts
  PROVE  /\ ~ StartsWith(Skip(Cat(ObjectBody(names, e, d), z)), Brace)
         /\ Cat(ObjectBody(names, e, d), z) \in Texts
<1> DEFINE b == ObjectBody(names, e, d)
           m == JsonMember(names[1], e[1], d)
<1>1. m \in Texts /\ b \in Texts /\ \E y \in Texts : b = Cat(m, y)
  <2>0. m \in Texts /\ b \in Texts
    BY ObjectBodyParts
  <2>1. CASE Len(e) = 1
    <3>1. b = Cat(m, One(Newline)) /\ One(Newline) \in Texts
      BY <2>1, ObjectBodyParts, SymbolsAre, TextsAre
    <3> QED BY <2>0, <3>1
  <2>2. CASE Len(e) # 1
    <3> DEFINE k == ObjectBody(Tail(names), Tail(e), d)
    <3>1. k \in Texts /\ b = Cat(m, Cat(One(Separator), Cat(One(Newline), k)))
      BY <2>2, ObjectBodyParts
    <3> HIDE DEF k, b, m
    <3>2. One(Separator) \in Texts /\ One(Newline) \in Texts
      BY SymbolsAre, TextsAre
    <3>3. Cat(One(Separator), Cat(One(Newline), k)) \in Texts
      BY <3>1, <3>2, TextsAre
    <3> QED BY <2>0, <3>1, <3>3
  <2> QED BY <2>1, <2>2
<1>2. names[1] \in Symbols /\ e[1] \in Texts
  BY ObjectBodyParts
<1> HIDE DEF b
<1>3. PICK y \in Texts : b = Cat(m, y)
  BY <1>1
<1> DEFINE w == Cat(y, z)
<1>4. Cat(b, z) = Cat(m, w) /\ w \in Texts
  <2> HIDE DEF m
  <2> QED BY <1>1, <1>3, CatTexts
<1> HIDE DEF w
<1> DEFINE x == Cat(One(":"), Cat(One(Tab), Cat(e[1], w)))
           q == Cat(PrintString(<<names[1]>>), x)
<1>5. /\ x \in Texts /\ <<names[1]>> \in Texts /\ Skip(Cat(m, w)) = q /\ Cat(m, w) \in Texts
  BY <1>2, <1>4, MemberParts
<1> HIDE DEF x
<1>6. q # <<>> /\ q[1] = Quote
  BY <1>5, ParseStringReads
<1> HIDE DEF q, m
<1>7. ~ StartsWith(q, Brace)
  BY <1>6, BracketsAre DEF StartsWith
<1> QED BY <1>4, <1>5, <1>7 DEF b

\* Two symbols.
LEMMA PairIs ==
  ASSUME NEW a \in Symbols, NEW c \in Symbols
  PROVE  <<a, c>> = Cat(One(a), One(c)) /\ <<c>> = One(c)
<1> DEFINE s == <<a, c>>
<1>1. s \in Seq(Symbols) /\ s # <<>> /\ s[1] = a /\ Tail(s) = <<c>>
  OBVIOUS
<1> HIDE DEF s
<1>2. s = Cat(One(a), <<c>>)
  BY <1>1, HeadAndTail
<1> QED BY <1>2 DEF s, One

\* An object is parsed as what its members are parsed as.
LEMMA ObjectReads ==
  ASSUME NEW V, NEW e \in Entries, NEW names \in Seq(Symbols), NEW v \in Seq(V),
         Len(names) = Len(e), Len(v) = Len(e), \A i \in 1..Len(e) : MemberAs(names[i], e[i], v[i]),
         NEW d \in Nat
  PROVE  ReadsAs(JsonObject(names, e, d), CreateObject(v))
<1> DEFINE k == IF e = <<>> THEN d - 1 ELSE d
           b == ObjectBody(names, e, d)
           h == One(OpenBrace)
           nl == One(Newline)
           i == Repeat(k, Tab)
           z == One(Brace)
           t == JsonObject(names, e, d)
<1>1. t = Cat(Cat(Cat(Cat(h, nl), b), i), z)
  <2>1. t = <<"{", Newline>> \o ObjectBody(names, e, d) \o Repeat(k, Tab) \o <<"}">>
    BY DEF JsonObject, ObjectBody, Cat, One
  <2>2. <<"{", Newline>> = Cat(h, nl) /\ <<"}">> = z
    <3>1. OpenBrace \in Symbols /\ Newline \in Symbols /\ Brace \in Symbols
      BY BracketsAre, SymbolsAre
    <3> QED BY <3>1, PairIs, Zenon DEF OpenBrace, Brace
  <2> HIDE DEF t, h, nl, z, b, i
  <2>3. t = Cat(Cat(Cat(<<"{", Newline>>, b), i), <<"}">>)
    BY <2>1 DEF Cat, b, i
  <2> QED BY <2>2, <2>3
<1>2. k \in Int
  OBVIOUS
<1> HIDE DEF k
<1>3. h \in Texts /\ nl \in Texts /\ z \in Texts /\ i \in Texts
  BY <1>2, BracketsAre, TextsAre, SymbolsAre, IndentSkipped
<1>4. b \in Texts /\ (e = <<>> => b = <<>>)
  <2>1. CASE e = <<>>
    <3>1. b = FlattenSeq(<<>>)
      <4>1. [j \in DOMAIN e |-> Cat(Cat(JsonMember(names[j], e[j], d), Comma(j, Len(e))), One(Newline))] = <<>>
        BY <2>1
      <4> QED BY <4>1 DEF ObjectBody
    <3> QED BY <3>1, FlattenNothing, TextsAre
  <2>2. CASE e # <<>>
    BY <2>2, ObjectBodyParts
  <2> QED BY <2>1, <2>2
<1> HIDE DEF t, b, h, z, nl, i
<1>5. ASSUME NEW r \in Texts
      PROVE  LET zr == Cat(z, r)
                 y == Cat(i, zr)
                 x == Cat(nl, Cat(b, y))
             IN  Cat(t, r) = Cat(h, x) /\ x \in Texts /\ y \in Texts /\ zr \in Texts /\ Cat(b, y) \in Texts
  <2> DEFINE zr == Cat(z, r)
             y == Cat(i, zr)
             by == Cat(b, y)
             x == Cat(nl, by)
             h1 == Cat(h, nl)
             h2 == Cat(h1, b)
             h3 == Cat(h2, i)
  <2>1. h1 \in Texts /\ zr \in Texts
    BY <1>3, TextsAre
  <2> HIDE DEF h1, zr
  <2>2. h2 \in Texts /\ y \in Texts
    BY <1>3, <1>4, <2>1, TextsAre
  <2> HIDE DEF h2, y
  <2>3. h3 \in Texts /\ by \in Texts
    BY <1>3, <1>4, <2>2, TextsAre
  <2> HIDE DEF h3, by
  <2>4. x \in Texts
    BY <1>3, <2>3, TextsAre
  <2>5. Cat(Cat(h3, z), r) = Cat(h3, zr)
    BY <1>3, <2>3, CatTexts DEF zr
  <2>6. Cat(h3, zr) = Cat(h2, y)
    BY <1>3, <2>1, <2>2, CatTexts DEF h3, y
  <2>7. Cat(h2, y) = Cat(h1, by)
    BY <1>4, <2>1, <2>2, CatTexts DEF h2, by
  <2>8. Cat(h1, by) = Cat(h, x)
    BY <1>3, <2>3, CatTexts DEF h1
  <2>9. t = Cat(h3, z)
    BY <1>1 DEF h3, h2, h1
  <2>10. Cat(t, r) = Cat(h, x)
    BY <2>5, <2>6, <2>7, <2>8, <2>9
  <2> QED BY <2>1, <2>2, <2>3, <2>4, <2>10 DEF by, y, zr
<1>6. t \in Texts /\ Opens(t)
  <2>1. <<>> \in Texts
    BY TextsAre
  <2> DEFINE x == Cat(nl, Cat(b, Cat(i, Cat(z, <<>>))))
  <2>2. Cat(t, <<>>) = Cat(h, x) /\ x \in Texts
    BY <1>5, <2>1
  <2> HIDE DEF x
  <2>3. t \in Texts
    BY <1>1, <1>3, <1>4, TextsAre
  <2>4. t = Cat(h, x)
    BY <2>2, <2>3, CatEmpty DEF Texts
  <2> QED BY <2>2, <2>3, <2>4, OpensAs DEF h
<1>7. ASSUME NEW r \in Texts PROVE Parsed[<<"value", Cat(t, r)>>] = Success(CreateObject(v), r)
  <2> DEFINE zr == Cat(z, r)
             y == Cat(i, zr)
             by == Cat(b, y)
             x == Cat(nl, by)
  <2>1. Cat(t, r) = Cat(h, x) /\ x \in Texts /\ y \in Texts /\ zr \in Texts /\ by \in Texts
    BY <1>5
  <2>2. Skip(zr) = zr /\ StartsWith(zr, Brace) /\ Tail(zr) = r
    BY BracketsAre, FrontIs DEF z
  <2>3. Skip(y) = zr
    <3> HIDE DEF zr
    <3> QED BY <1>2, <2>1, <2>2, IndentSkipped DEF i
  <2> HIDE DEF zr, y
  <2>4. Newline \in Symbols /\ Newline \in Spaces
    BY SymbolsAre DEF Spaces
  <2>5. Skip(x) = Skip(by)
    <3> HIDE DEF by
    <3> QED BY <2>1, <2>4, FrontIs DEF nl
  <2>6. Parsed[<<"members", x>>] = Parsed[<<"members", by>>]
    <3> HIDE DEF by
    <3>1. "members" \in {"items", "members"}
      OBVIOUS
    <3> QED BY <2>1, <2>4, <3>1, SpaceSkipped DEF nl
  <2> HIDE DEF x
  <2>7. Parsed[<<"value", Cat(h, x)>>]
        = IF StartsWith(Skip(x), Brace) THEN Success(CreateObject(<<>>), Tail(Skip(x)))
          ELSE Parsed[<<"members", x>>]
    BY <2>1, BracketRead DEF h
  <2>8. CASE e = <<>>
    <3>1. by = y
      BY <1>4, <2>1, <2>8, CatEmpty DEF Texts
    <3>2. v = <<>>
      <4>1. Len(v) = 0
        BY <2>8
      <4> QED BY <4>1, EmptySeq
    <3> QED BY <2>1, <2>2, <2>3, <2>5, <2>7, <3>1, <3>2
  <2>9. CASE e # <<>>
    <3>1. Skip(y) = Cat(One(Brace), r)
      BY <2>3 DEF zr, z
    <3>2. Parsed[<<"members", by>>] = Success(CreateObject(v), r)
      BY <2>1, <2>9, <3>1, MembersRead DEF b
    <3>3. ~ StartsWith(Skip(by), Brace)
      BY <2>1, <2>9, ObjectBegins DEF b
    <3> HIDE DEF by
    <3> QED BY <2>1, <2>5, <2>6, <2>7, <3>2, <3>3
  <2> QED BY <2>8, <2>9
<1> QED BY <1>6, <1>7 DEF ReadsAs, t

\* What f makes of the children of t.
Children(f, t) == [i \in DOMAIN t.child |-> f[t.child[i]]]

\* One step of InJson looks at the children only.
InJsonStep(f, item) ==
  IF item.type = "binary" THEN AddString(item.name, Encode(item.data))
  ELSE [item EXCEPT !.child = Children(f, item)]

\* It is the same for functions that agree on them.
LEMMA InJsonSame ==
  ASSUME NEW t \in Trees, NEW f, NEW g,
         \A u \in Trees : Height(u) < Height(t) => f[u] = g[u]
  PROVE  InJsonStep(f, t) = InJsonStep(g, t)
<1>1. \A i \in DOMAIN t.child : f[t.child[i]] = g[t.child[i]]
  BY ChildLower
<1>2. Children(f, t) = Children(g, t)
  BY <1>1 DEF Children
<1> QED BY <1>2 DEF InJsonStep

\* What JSON tells of a tree is made of what it tells of its children.
LEMMA InJsonIs == DOMAIN InJson = Trees /\ \A s \in Trees : InJson[s] = InJsonStep(InJson, s)
<1> DEFINE D == Trees
           m == [s \in D |-> Height(s)]
           Body(f) == [s \in D |-> InJsonStep(f, s)]
           Upon(f, n) == \A s \in D : m[s] < n => f[s] = InJsonStep(f, s)
<1>1. m \in [D -> Nat] /\ \A s \in D : m[s] = Height(s)
  BY TreesAre
<1>2. ASSUME NEW s \in D, NEW f, NEW g, \A t \in D : m[t] < m[s] => f[t] = g[t]
      PROVE  InJsonStep(f, s) = InJsonStep(g, s)
  BY <1>1, <1>2, InJsonSame
<1>3. InJson = CHOOSE f : f = Body(f)
  BY DEF InJson, InJsonStep, Children
<1> HIDE DEF D, m
<1>4. ASSUME NEW n \in Nat, NEW f, NEW g, Upon(f, n), Upon(g, n), NEW s \in D, m[s] < n
      PROVE  f[s] = g[s]
  <2> DEFINE P == {x \in D : m[x] < n => f[x] = g[x]}
  <2>1. ASSUME NEW x \in D, \A t \in D : m[t] < m[x] => t \in P PROVE x \in P
    <3>1. CASE m[x] < n
      <4>1. \A t \in D : m[t] < m[x] => f[t] = g[t]
        BY <1>1, <2>1, <3>1
      <4>2. InJsonStep(f, x) = InJsonStep(g, x)
        BY <1>2, <4>1
      <4> QED BY <1>4, <3>1, <4>2
    <3> QED BY <3>1
  <2>2. D \subseteq P
    <3> HIDE DEF P
    <3> QED BY <1>1, <2>1, MeasureInduction
  <2> QED BY <1>4, <2>2
<1>5. \A n \in Nat : \E f : Upon(f, n)
  <2> DEFINE N == {n \in Nat : \E f : Upon(f, n)}
  <2>1. 0 \in N
    <3>1. \A s \in D : ~ (m[s] < 0)
      BY <1>1
    <3> QED BY <3>1
  <2>2. ASSUME NEW n \in Nat, n \in N PROVE n + 1 \in N
    <3>1. PICK f : Upon(f, n)
      BY <2>2
    <3> DEFINE g == Body(f)
    <3>2. \A s \in D : g[s] = InJsonStep(f, s)
      OBVIOUS
    <3>3. \A s \in D : m[s] < n => f[s] = g[s]
      BY <3>1, <3>2
    <3> HIDE DEF g
    <3>4. ASSUME NEW s \in D, m[s] < n + 1 PROVE g[s] = InJsonStep(g, s)
      <4>1. \A t \in D : m[t] < m[s] => f[t] = g[t]
        BY <1>1, <3>3, <3>4
      <4>2. InJsonStep(f, s) = InJsonStep(g, s)
        BY <1>2, <4>1
      <4> QED BY <3>2, <4>2
    <3>5. Upon(g, n + 1)
      BY <3>4
    <3> HIDE DEF Upon
    <3> QED BY <3>5
  <2> HIDE DEF N
  <2>3. \A n \in Nat : n \in N
    BY <2>1, <2>2, SetInduction
  <2> QED BY <2>3 DEF N
<1> DEFINE Some(s) == CHOOSE f : Upon(f, m[s] + 1)
           F == [s \in D |-> Some(s)[s]]
<1>6. \A s \in D : Upon(Some(s), m[s] + 1) /\ m[s] + 1 \in Nat /\ m[s] \in Nat
  <2> TAKE s \in D
  <2>1. m[s] + 1 \in Nat /\ m[s] \in Nat
    BY <1>1
  <2>2. \E f : Upon(f, m[s] + 1)
    BY <1>5, <2>1
  <2> HIDE DEF Upon
  <2> QED BY <2>1, <2>2
<1>7. \A s \in D : F[s] = Some(s)[s]
  OBVIOUS
<1> HIDE DEF F, Some
<1>8. ASSUME NEW s \in D PROVE F[s] = InJsonStep(F, s)
  <2>1. ASSUME NEW t \in D, m[t] < m[s] PROVE Some(s)[t] = F[t]
    <3>1. Upon(Some(s), m[t] + 1)
      BY <1>1, <1>6, <2>1
    <3>2. Upon(Some(t), m[t] + 1) /\ m[t] < m[t] + 1 /\ m[t] + 1 \in Nat
      BY <1>6
    <3> HIDE DEF Upon
    <3>3. Some(s)[t] = Some(t)[t]
      BY <1>4, <3>1, <3>2
    <3> QED BY <1>7, <3>3
  <2>2. InJsonStep(Some(s), s) = InJsonStep(F, s)
    BY <1>2, <2>1
  <2>3. m[s] < m[s] + 1
    BY <1>6
  <2>4. Some(s)[s] = InJsonStep(Some(s), s)
    BY <1>6, <2>3
  <2> QED BY <1>7, <2>2, <2>4
<1>9. F = Body(F)
  <2>1. F = [s \in D |-> F[s]]
    BY DEF F
  <2> QED BY <1>8, <2>1
<1> DEFINE G == InJson
<1>10. G = Body(G)
  <2> HIDE DEF Body
  <2> QED BY <1>3, <1>9
<1> HIDE DEF G
<1>11. DOMAIN G = D /\ \A s \in D : G[s] = InJsonStep(G, s)
  <2>1. DOMAIN Body(G) = D /\ \A s \in D : Body(G)[s] = InJsonStep(G, s)
    OBVIOUS
  <2> HIDE DEF Body
  <2> QED BY <1>10, <2>1
<1> QED BY <1>11 DEF D, G

\* A tree as JSON tells it, without the name.
Bare(t) == Named(NoName, InJson[t])

\* What JSON tells of a tree.
LEMMA InJsonParts ==
  ASSUME NEW t \in Trees
  PROVE  /\ t.type = "binary" =>
              InJson[t] = [type |-> "string", name |-> t.name, text |-> Encode(t.data),
                           data |-> <<>>, child |-> <<>>]
         /\ t.type # "binary" =>
              InJson[t] = [type |-> t.type, name |-> t.name, text |-> t.text,
                           data |-> t.data, child |-> Children(InJson, t)]
<1> DEFINE J == InJson[t]
           c == Children(InJson, t)
           x == Encode(t.data)
           n == t.name
<1>1. J = InJsonStep(InJson, t)
  BY InJsonIs
<1>2. t = [type |-> t.type, name |-> t.name, text |-> t.text, data |-> t.data, child |-> t.child]
  BY TreesAre DEF IsTree
<1>3. J = IF t.type = "binary" THEN AddString(n, x) ELSE [t EXCEPT !.child = c]
  BY <1>1 DEF InJsonStep
<1> HIDE DEF J, c, x, n
<1>4. [t EXCEPT !.child = c] = [type |-> t.type, name |-> t.name, text |-> t.text, data |-> t.data, child |-> c]
  BY <1>2
<1>5. AddString(n, x) = [type |-> "string", name |-> n, text |-> x, data |-> <<>>, child |-> <<>>]
  <2>1. CreateString(x) = [type |-> "string", name |-> NoName, text |-> x, data |-> <<>>, child |-> <<>>]
    BY DEF CreateString, Item
  <2> DEFINE y == CreateString(x)
  <2>2. y = [type |-> "string", name |-> NoName, text |-> x, data |-> <<>>, child |-> <<>>]
    BY <2>1
  <2> HIDE DEF y
  <2>3. [y EXCEPT !.name = n] = [type |-> "string", name |-> n, text |-> x, data |-> <<>>, child |-> <<>>]
    BY <2>2
  <2> QED BY <2>3 DEF y, AddString, Named
<1> QED BY <1>3, <1>4, <1>5 DEF J, c, x, n

\* An item of five parts, and another name.
LEMMA NamedParts ==
  ASSUME NEW r, NEW ty, NEW n, NEW x, NEW d, NEW c, NEW k,
         r = [type |-> ty, name |-> n, text |-> x, data |-> d, child |-> c]
  PROVE  /\ Named(k, r) = [type |-> ty, name |-> k, text |-> x, data |-> d, child |-> c]
         /\ r.name = n
BY DEF Named

\* The name is left as it was.
LEMMA BareIs ==
  ASSUME NEW t \in Trees
  PROVE  /\ Named(t.name, Bare(t)) = InJson[t]
         /\ t.name = NoName => Bare(t) = InJson[t]
<1> DEFINE J == InJson[t]
<1>1. \E ty, x, d, c : J = [type |-> ty, name |-> t.name, text |-> x, data |-> d, child |-> c]
  BY InJsonParts, Zenon
<1>2. PICK ty, x, d, c : J = [type |-> ty, name |-> t.name, text |-> x, data |-> d, child |-> c]
  BY <1>1
<1> HIDE DEF J
<1>3. Named(NoName, J) = [type |-> ty, name |-> NoName, text |-> x, data |-> d, child |-> c]
  BY <1>2, NamedParts
<1> DEFINE B == Named(NoName, J)
<1>4. B = [type |-> ty, name |-> NoName, text |-> x, data |-> d, child |-> c]
  BY <1>3
<1> HIDE DEF B
<1>5. Named(t.name, B) = [type |-> ty, name |-> t.name, text |-> x, data |-> d, child |-> c]
  BY <1>4, NamedParts
<1>6. Named(t.name, B) = J
  BY <1>2, <1>5
<1>7. t.name = NoName => B = J
  BY <1>2, <1>4
<1> QED BY <1>6, <1>7 DEF B, J, Bare

\* What it is, by the type.
LEMMA BareParts ==
  ASSUME NEW t \in Trees
  PROVE  /\ t.type = "string" => Bare(t) = CreateString(t.text)
         /\ t.type = "binary" => Bare(t) = CreateString(Encode(t.data))
         /\ t.type = "number" => Bare(t) = [Item("number") EXCEPT !.text = t.text]
         /\ t.type \in {"true", "false"} => Bare(t) = Item(t.type)
         /\ t.type = "array"  => Bare(t) = CreateArray(Children(InJson, t))
         /\ t.type = "object" => Bare(t) = CreateObject(Children(InJson, t))
<1> DEFINE c == Children(InJson, t)
           R(ty, x, d, k) == [type |-> ty, name |-> NoName, text |-> x, data |-> d, child |-> k]
           w == Encode(t.data)
<1>1. IsTree(t, Trees)
  BY TreesAre
<1>2. t.type = "binary" => Bare(t) = R("string", w, <<>>, <<>>)
  <2> SUFFICES ASSUME t.type = "binary" PROVE Bare(t) = R("string", w, <<>>, <<>>)
    OBVIOUS
  <2> DEFINE J == InJson[t]
             n == t.name
  <2>1. J = [type |-> "string", name |-> n, text |-> w, data |-> <<>>, child |-> <<>>]
    BY InJsonParts
  <2> HIDE DEF J, w, n
  <2>2. Named(NoName, J) = R("string", w, <<>>, <<>>)
    BY <2>1, NamedParts
  <2> QED BY <2>2 DEF Bare, J
<1>3. t.type # "binary" => Bare(t) = R(t.type, t.text, t.data, c)
  <2> SUFFICES ASSUME t.type # "binary" PROVE Bare(t) = R(t.type, t.text, t.data, c)
    OBVIOUS
  <2> DEFINE J == InJson[t]
             n == t.name
             ty == t.type
             x == t.text
             d == t.data
  <2>1. J = [type |-> ty, name |-> n, text |-> x, data |-> d, child |-> c]
    BY InJsonParts
  <2> HIDE DEF J, c, n, ty, x, d
  <2>2. Named(NoName, J) = R(ty, x, d, c)
    BY <2>1, NamedParts
  <2> QED BY <2>2 DEF Bare, J, ty, x, d
<1>4. t.child = <<>> => c = <<>>
  BY DEF Children
<1> HIDE DEF c, w
<1>5. /\ t.type # "string" /\ t.type # "number" => t.text = <<>>
      /\ t.type # "binary" => t.data = <<>>
      /\ t.type # "array" /\ t.type # "object" => t.child = <<>>
  BY <1>1 DEF IsTree
<1>6. t.type = "string" => Bare(t) = R("string", t.text, <<>>, <<>>)
  BY <1>3, <1>4, <1>5
<1>7. t.type = "number" => Bare(t) = R("number", t.text, <<>>, <<>>)
  BY <1>3, <1>4, <1>5
<1>8. t.type \in {"true", "false"} => Bare(t) = R(t.type, <<>>, <<>>, <<>>)
  BY <1>3, <1>4, <1>5
<1>9. t.type = "array" => Bare(t) = R("array", <<>>, <<>>, c)
  BY <1>3, <1>5
<1>10. t.type = "object" => Bare(t) = R("object", <<>>, <<>>, c)
  BY <1>3, <1>5
<1>11. \A s : CreateString(s) = R("string", s, <<>>, <<>>)
  BY DEF CreateString, Item
<1>12. \A ty : Item(ty) = R(ty, <<>>, <<>>, <<>>)
  BY DEF Item
<1>13. [Item("number") EXCEPT !.text = t.text] = R("number", t.text, <<>>, <<>>)
  BY DEF Item
<1>14. CreateArray(c) = R("array", <<>>, <<>>, c) /\ CreateObject(c) = R("object", <<>>, <<>>, c)
  BY DEF CreateArray, CreateObject, Item
<1> HIDE DEF R
<1> DEFINE B == Bare(t)
           I == [Item("number") EXCEPT !.text = t.text]
<1> HIDE DEF B, I
<1>15. /\ t.type = "string" => B = CreateString(t.text)
       /\ t.type = "binary" => B = CreateString(w)
       /\ t.type = "number" => B = I
       /\ t.type \in {"true", "false"} => B = Item(t.type)
       /\ t.type = "array"  => B = CreateArray(c)
       /\ t.type = "object" => B = CreateObject(c)
  BY <1>2, <1>6, <1>7, <1>8, <1>9, <1>10, <1>11, <1>12, <1>13, <1>14 DEF B, I
<1> QED BY <1>15 DEF B, I, c, w

\* A string is parsed as it was,
LEMMA StringReads ==
  ASSUME NEW s \in Texts
  PROVE  ReadsAs(PrintString(s), CreateString(s))
<1> DEFINE e == PrintString(s)
<1>1. ASSUME NEW r \in Texts
      PROVE  /\ Cat(e, r) \in Texts /\ Cat(e, r) # <<>> /\ Cat(e, r)[1] = Quote
             /\ ParseString(Cat(e, r)) = Success(CreateString(s), r)
  BY ParseStringReads
<1>2. e \in Texts /\ <<>> \in Texts
  BY PrintStringIs, TextsAre
<1> HIDE DEF e
<1>3. e # <<>> /\ e[1] = Quote
  <2>1. Cat(e, <<>>) = e
    BY <1>2, CatEmpty DEF Texts
  <2> QED BY <1>1, <1>2, <2>1
<1>4. Opens(e)
  <2>1. Quote \notin Spaces /\ Quote # "]" /\ Quote # Brace
    BY BracketsAre, SignsDiffer
  <2> QED BY <1>3, <2>1 DEF Opens, Brace
<1>5. ASSUME NEW r \in Texts PROVE Parsed[<<"value", Cat(e, r)>>] = Success(CreateString(s), r)
  <2> DEFINE w == Cat(e, r)
  <2>1. w \in Texts /\ w # <<>> /\ w[1] = Quote /\ ParseString(w) = Success(CreateString(s), r)
    BY <1>1
  <2> HIDE DEF w
  <2>2. ParseValue(Parsed, w) = ParseString(w)
    BY <2>1, ParsesAs
  <2> QED BY <2>1, <2>2, ParsedAt DEF w
<1> QED BY <1>2, <1>4, <1>5 DEF ReadsAs, e

\* a number,
LEMMA NumberReads ==
  ASSUME NEW n \in Numerals
  PROVE  ReadsAs(<<n>>, [Item("number") EXCEPT !.text = <<n>>])
<1> DEFINE v == [Item("number") EXCEPT !.text = <<n>>]
           e == One(n)
<1>1. n \in Symbols /\ n \notin Spaces /\ n \notin Brackets
  BY NumeralDiffers, NumeralsAre
<1>2. e \in Texts /\ e # <<>> /\ e[1] = n
  BY <1>1, TextsAre DEF One
<1>3. Opens(e)
  <2>1. n # "]" /\ n # Brace
    BY <1>1 DEF Brackets, Brace
  <2> QED BY <1>1, <1>2, <2>1 DEF Opens, Brace
<1> HIDE DEF v
<1>4. ASSUME NEW r \in Texts PROVE Parsed[<<"value", Cat(e, r)>>] = Success(v, r)
  <2> DEFINE w == Cat(e, r)
  <2>1. w \in Texts /\ w # <<>> /\ w[1] = n /\ Tail(w) = r
    BY <1>1, FrontIs
  <2> HIDE DEF w
  <2>2. ParseValue(Parsed, w) = ParseNumber(w)
    BY <2>1, ParsesAs
  <2>3. ParseNumber(w) = Success(v, r)
    BY <2>1 DEF ParseNumber, CreateNumber, v
  <2> QED BY <2>1, <2>2, <2>3, ParsedAt DEF w
<1>5. e = <<n>>
  BY DEF One
<1> HIDE DEF e
<1> QED BY <1>2, <1>3, <1>4, <1>5 DEF ReadsAs, v

\* and a word.
LEMMA WordReads ==
  ASSUME NEW k \in {"true", "false"}
  PROVE  ReadsAs(Keyword[k], Item(k))
<1> DEFINE e == One(k)
<1>1. k \in Symbols /\ k \in DOMAIN Keyword /\ k \notin Spaces /\ k \notin Brackets
  <2>1. k \in DOMAIN Keyword
    BY WordsAre
  <2> QED BY <2>1, SignsDiffer, SymbolsAre
<1>2. e \in Texts /\ e # <<>> /\ e[1] = k
  BY <1>1, TextsAre DEF One
<1>3. Opens(e)
  <2>1. k # "]" /\ k # Brace
    BY <1>1 DEF Brackets, Brace
  <2> QED BY <1>1, <1>2, <2>1 DEF Opens, Brace
<1>4. ASSUME NEW r \in Texts PROVE Parsed[<<"value", Cat(e, r)>>] = Success(Item(k), r)
  <2> DEFINE w == Cat(e, r)
  <2>1. w \in Texts /\ w # <<>> /\ w[1] = k /\ Tail(w) = r
    BY <1>1, FrontIs
  <2> HIDE DEF w
  <2>2. ParseValue(Parsed, w) = Success(Item(k), r)
    BY <1>1, <2>1, ParsesAs
  <2> QED BY <2>1, <2>2, ParsedAt DEF w
<1>5. Keyword[k] = e
  BY KeywordsAre DEF One
<1> HIDE DEF e
<1> QED BY <1>2, <1>3, <1>4, <1>5 DEF ReadsAs

\* What JSON tells of the children of a tree.
LEMMA ChildrenAre ==
  ASSUME NEW t \in Trees
  PROVE  /\ Children(InJson, t) \in Seq({InJson[u] : u \in Trees})
         /\ Len(Children(InJson, t)) = Len(t.child)
         /\ \A i \in 1..Len(t.child) : Children(InJson, t)[i] = InJson[t.child[i]]
<1> DEFINE c == t.child
           n == Len(c)
           V == {InJson[u] : u \in Trees}
<1>1. n \in Nat /\ DOMAIN c = 1..n /\ \A i \in 1..n : c[i] \in Trees
  BY PartsAre
<1>2. Children(InJson, t) = [i \in 1..n |-> InJson[c[i]]]
  BY <1>1 DEF Children
<1>3. \A i \in 1..n : InJson[c[i]] \in V
  BY <1>1
<1> HIDE DEF c, n, V
<1> QED BY <1>1, <1>2, <1>3 DEF c, n, V

\* A tree is parsed as what its children are parsed as.
LEMMA TreeStepReads ==
  ASSUME NEW t \in Trees, NEW d \in Nat,
         \A i \in DOMAIN t.child : \A k \in Nat : ReadsAs(Json[t.child[i]][k], Bare(t.child[i]))
  PROVE  ReadsAs(Json[t][d], Bare(t))
<1> DEFINE c == t.child
           n == Len(c)
           e == Below(Json, t, d)
           V == {InJson[u] : u \in Trees}
           v == Children(InJson, t)
           x == Json[t][d]
<1>1. /\ n \in Nat /\ DOMAIN c = 1..n /\ \A i \in 1..n : c[i] \in Trees
      /\ t.text \in Texts /\ t.data \in Seq(Byte)
      /\ t.type \in {"string", "number", "true", "false", "binary", "array", "object"}
      /\ t.type = "number" => \E k \in Numerals : t.text = <<k>>
      /\ t.type = "array" => \A i \in 1..n : c[i].name = NoName
  BY PartsAre
<1>2. /\ x = JsonOf(t, e, d) /\ e \in Entries /\ Len(e) = n
      /\ \A i \in 1..n : e[i] = Json[c[i]][d + 1]
  BY JsonPrints
<1>3. v \in Seq(V) /\ Len(v) = n /\ \A i \in 1..n : v[i] = InJson[c[i]]
  BY ChildrenAre
<1>4. \A i \in 1..n : ReadsAs(e[i], Bare(c[i]))
  <2>1. d + 1 \in Nat
    OBVIOUS
  <2> QED BY <1>1, <1>2, <2>1
<1> HIDE DEF e, V, v, x
<1>5. /\ t.type = "string" => x = PrintString(t.text)
      /\ t.type = "number" => x = t.text
      /\ t.type = "binary" => x = PrintString(Encode(t.data))
      /\ t.type = "array"  => x = JsonArray(e)
      /\ t.type = "object" => x = JsonObject(NamesOf(t), e, d)
      /\ t.type \in {"true", "false"} => x = Keyword[t.type]
  BY <1>2, JsonOfTyped
<1>6. CASE t.type = "string"
  BY <1>1, <1>5, <1>6, BareParts, StringReads DEF x
<1>7. CASE t.type = "binary"
  <2>1. Encode(t.data) \in Texts
    BY <1>1, EncodeIs
  <2> QED BY <1>5, <1>7, <2>1, BareParts, StringReads DEF x
<1>8. CASE t.type = "number"
  <2>1. PICK k \in Numerals : t.text = <<k>>
    BY <1>1, <1>8
  <2>2. Bare(t) = [Item("number") EXCEPT !.text = t.text]
    BY <1>8, BareParts
  <2>3. ReadsAs(<<k>>, [Item("number") EXCEPT !.text = <<k>>])
    BY NumberReads
  <2> QED BY <1>5, <1>8, <2>1, <2>2, <2>3, Zenon DEF x
<1>9. CASE t.type \in {"true", "false"}
  BY <1>5, <1>9, BareParts, WordReads DEF x
<1>10. CASE t.type = "array"
  <2>1. \A i \in 1..Len(e) : ReadsAs(e[i], v[i])
    <3> TAKE i \in 1..Len(e)
    <3>1. i \in 1..n /\ c[i].name = NoName /\ c[i] \in Trees
      BY <1>1, <1>2, <1>10
    <3>2. v[i] = Bare(c[i])
      BY <1>3, <3>1, BareIs
    <3> QED BY <1>4, <3>1, <3>2
  <2>2. Len(v) = Len(e)
    BY <1>2, <1>3
  <2>3. ReadsAs(JsonArray(e), CreateArray(v))
    BY <1>2, <1>3, <2>1, <2>2, ArrayReads
  <2> QED BY <1>5, <1>10, <2>3, BareParts DEF x, v
<1>11. CASE t.type = "object"
  <2> DEFINE names == NamesOf(t)
  <2>1. names \in Seq(Symbols) /\ Len(names) = n /\ \A i \in 1..n : names[i] = c[i].name
    BY NamesAre
  <2> HIDE DEF names
  <2>2. \A i \in 1..Len(e) : MemberAs(names[i], e[i], v[i])
    <3> TAKE i \in 1..Len(e)
    <3>1. i \in 1..n /\ c[i] \in Trees
      BY <1>1, <1>2
    <3>2. v[i] = Named(names[i], Bare(c[i])) /\ ReadsAs(e[i], Bare(c[i]))
      BY <1>3, <1>4, <2>1, <3>1, BareIs
    <3> QED BY <3>2 DEF MemberAs
  <2>3. Len(v) = Len(e) /\ Len(names) = Len(e)
    BY <1>2, <1>3, <2>1
  <2>4. ReadsAs(JsonObject(names, e, d), CreateObject(v))
    BY <1>2, <1>3, <2>1, <2>2, <2>3, ObjectReads
  <2> QED BY <1>5, <1>11, <2>4, BareParts DEF x, v, names
<1> QED BY <1>1, <1>6, <1>7, <1>8, <1>9, <1>10, <1>11

\* Whatever tree is printed at whatever depth, cJSON_Parse reads the tree.
THEOREM TreeReads == \A t \in Trees, d \in Nat : ReadsAs(Json[t][d], Bare(t))
<1> DEFINE P == {t \in Trees : \A d \in Nat : ReadsAs(Json[t][d], Bare(t))}
<1>1. ASSUME NEW t \in Trees, \A i \in DOMAIN t.child : t.child[i] \in P PROVE t \in P
  <2>1. \A i \in DOMAIN t.child : \A k \in Nat : ReadsAs(Json[t.child[i]][k], Bare(t.child[i]))
    BY <1>1
  <2> QED BY <2>1, TreeStepReads
<1>2. Trees \subseteq P
  <2> HIDE DEF P
  <2> QED BY <1>1, TreeInduction
<1> QED BY <1>2

\* The JSON of an answer is parsed to its end, and gives what JSON tells of the answer.
LEMMA PrintedReads ==
  ASSUME NEW t \in Trees, t.name = NoName
  PROVE  Parse(PrintJson(t)) = Success(InJson[t], <<>>)
<1> DEFINE e == Json[t][0]
<1>1. ReadsAs(e, Bare(t)) /\ Bare(t) = InJson[t]
  <2>1. 0 \in Nat
    OBVIOUS
  <2> QED BY <2>1, TreeReads, BareIs
<1> HIDE DEF e
<1>2. e \in Texts /\ Opens(e) /\ Parsed[<<"value", Cat(e, <<>>)>>] = Success(Bare(t), <<>>)
  BY <1>1, TextsAre DEF ReadsAs
<1>3. Cat(e, <<>>) = e
  BY <1>2, CatEmpty DEF Texts
<1>4. Skip(e) = e
  <2>1. Skip(Cat(e, <<>>)) = Cat(e, <<>>)
    BY <1>2, OpensIs, TextsAre
  <2> QED BY <1>3, <2>1
<1> QED BY <1>1, <1>2, <1>3, <1>4 DEF Parse, PrintJson, e

\* A tree with bytes is made by cJSON_AddBinaryToObject.
LEMMA BinaryMember ==
  ASSUME NEW t \in Trees, t.type = "binary"
  PROVE  t = AddBinary(t.name, t.data)
<1> DEFINE n == t.name
           d == t.data
           b == CreateBinary(d)
<1>1. t = [type |-> "binary", name |-> n, text |-> <<>>, data |-> d, child |-> <<>>]
  BY TreesAre DEF IsTree
<1>2. b = [type |-> "binary", name |-> NoName, text |-> <<>>, data |-> d, child |-> <<>>]
  BY DEF CreateBinary, Item
<1> HIDE DEF b, n, d
<1>3. Named(n, b) = [type |-> "binary", name |-> n, text |-> <<>>, data |-> d, child |-> <<>>]
  BY <1>2, NamedParts
<1>4. t = Named(n, b)
  BY <1>1, <1>3
<1> QED BY <1>4 DEF AddBinary, n, d, b

\* What cJSON_GetObjectItem finds has the name and is a member.
LEMMA ItemFound ==
  ASSUME NEW t \in Trees, NEW c, GetObjectItem(t, c) # <<>>
  PROVE  \E i \in DOMAIN t.child : t.child[i].name = c /\ GetObjectItem(t, c) = <<t.child[i]>>
<1> DEFINE at == {i \in DOMAIN t.child : t.child[i].name = c}
           k == CHOOSE i \in at : \A j \in at : i <= j
<1>1. at # {} /\ GetObjectItem(t, c) = <<t.child[k]>>
  BY DEF GetObjectItem
<1>2. \E i \in at : \A j \in at : i <= j
  <2>1. at \subseteq Nat
    BY PartsAre
  <2> HIDE DEF at
  <2> QED BY <1>1, <2>1, LeastNat
<1>3. k \in at
  <2> HIDE DEF at
  <2> QED BY <1>2
<1> QED BY <1>1, <1>3

\* What is sent in the format of the library is the bytes of a member.
LEMMA QgameReads ==
  ASSUME NEW t \in Trees, Response(t, "qgame").status = 200
  PROVE  AddBinary("data", Response(t, "qgame").body) \in ToSet(t.child)
<1> DEFINE data == GetObjectItem(t, "data")
           r == Response(t, "qgame")
           f == "qgame"
           ok == data # <<>> /\ data[1].type = "binary"
<1>1. r = IF ok THEN [status |-> 200, body |-> data[1].data]
          ELSE [status |-> 500, body |-> <<"Sin", Blank, "datos">>]
  BY DEF Response
<1> HIDE DEF data, r
<1>2. ok /\ r.body = data[1].data
  BY <1>1 DEF r
<1>3. PICK i \in DOMAIN t.child : t.child[i].name = "data" /\ data = <<t.child[i]>>
  BY <1>2, ItemFound DEF data
<1> DEFINE m == t.child[i]
<1>4. m \in Trees /\ m.type = "binary" /\ m.name = "data" /\ r.body = m.data
  BY <1>2, <1>3, PartsAre
<1>5. m \in ToSet(t.child)
  BY DEF ToSet
<1> HIDE DEF m
<1>6. m = AddBinary("data", m.data)
  BY <1>4, BinaryMember
<1> QED BY <1>4, <1>5, <1>6 DEF r

\* Whatever is answered, a client reads back what the handler built, as JsonReadsBack says.
THEOREM AnswersReadBack == Spec => []JsonReadsBack
<1>1. AnswerTypeOK => JsonReadsBack
  <2> SUFFICES ASSUME answer \in Trees, answer.name = NoName
               PROVE  LET r == Response(answer, format) IN
                      /\ format = "json" => r.status = 200 /\ Parse(r.body) = Success(InJson[answer], <<>>)
                      /\ format = "qgame" /\ r.status = 200 =>
                           AddBinary("data", r.body) \in ToSet(answer.child)
                      /\ \A x \in Within[answer][0] :
                           x[1].type = "binary" =>
                             Decode[Encode(x[1].data)] = [ok |-> TRUE, bytes |-> x[1].data]
    BY DEF AnswerTypeOK, IsAnswer, JsonReadsBack
  <2> DEFINE r == Response(answer, format)
  <2>1. format = "json" => r.status = 200 /\ Parse(r.body) = Success(InJson[answer], <<>>)
    <3>1. format = "json" => r = [status |-> 200, body |-> PrintJson(answer)]
      BY DEF Response
    <3> HIDE DEF r
    <3> QED BY <3>1, PrintedReads
  <2>2. format = "qgame" /\ r.status = 200 => AddBinary("data", r.body) \in ToSet(answer.child)
    BY QgameReads
  <2>3. ASSUME NEW x \in Within[answer][0], x[1].type = "binary"
        PROVE  Decode[Encode(x[1].data)] = [ok |-> TRUE, bytes |-> x[1].data]
    <3>1. 0 \in Nat
      OBVIOUS
    <3>2. x[1] \in Trees
      BY <2>3, <3>1, WithinAre
    <3>3. x[1].data \in Seq(Byte)
      BY <3>2, PartsAre
    <3> QED BY <3>3, DecodeEncode
  <2> QED BY <2>1, <2>2, <2>3
<1> QED BY <1>1, AnswersTyped, PTL
=============================================================================
