--------------------------- MODULE ModelLemmas ---------------------------
(***************************************************************************)
(* Facts that several of the proofs rest on: the least of a set of numbers, *)
(* induction, functions defined by recursion, sequences without an element, *)
(* the arithmetic of PagingOps (what division keeps, and when the start of *)
(* a page is a multiple of the page length), and numbers in order.         *)
(***************************************************************************)
EXTENDS PagingOps, FiniteSetTheorems, SequenceTheorems, WellFoundedInduction, TLAPS

(***************************************************************************)
(* Numbers and recursion.                                                  *)
(***************************************************************************)

\* Of numbers there is a least one.
LEMMA Least ==
  ASSUME NEW T \in SUBSET Nat, T # {}
  PROVE  \E x \in T : \A y \in T : x <= y
<1> DEFINE R == OpToRel(<, Nat)
<1>1. IsWellFoundedOn(R, Nat)
  BY NatLessThanWellFounded, Zenon
<1>2. \A x, y \in Nat : <<x, y>> \in R <=> x < y
  BY DEF OpToRel
<1> HIDE DEF R
<1>3. PICK x \in T : \A y \in T : ~(<<y, x>> \in R)
  BY <1>1, WFMin
<1>4. x \in Nat /\ \A y \in T : y \in Nat /\ ~(y < x)
  BY <1>2, <1>3
<1>5. \A y \in T : x <= y
  BY <1>4
<1> QED
  BY <1>5

\* Induction, for a set.
LEMMA Induct ==
  ASSUME NEW T, 0 \in T, \A n \in Nat : n \in T => n + 1 \in T
  PROVE  \A n \in Nat : n \in T
<1> DEFINE F == {n \in Nat : n \notin T}
<1> SUFFICES ASSUME F # {} PROVE FALSE
  OBVIOUS
<1>1. PICK x \in F : \A y \in F : x <= y
  BY Least
<1>2. x # 0 /\ x \in Nat
  BY <1>1
<1>3. x - 1 \in Nat /\ x - 1 \notin F
  BY <1>1, <1>2
<1>4. x - 1 \in T /\ (x - 1) + 1 = x
  BY <1>2, <1>3
<1>5. x \in T
  BY <1>3, <1>4
<1> QED
  BY <1>1, <1>5

\* A function defined by primitive recursion exists.
Steps(step, S) == step \in [Nat -> [S -> S]]
Follows(f, S, base, step) ==
  f \in [Nat -> S] /\ f[0] = base /\ \A n \in Nat : f[n + 1] = step[n][f[n]]

LEMMA Recursion ==
  ASSUME NEW S, NEW base \in S, NEW step, Steps(step, S)
  PROVE  \E f : Follows(f, S, base, step)
<1> USE DEF Steps
<1> DEFINE Upto(n, f) == f[0] = base /\ \A i \in 0 .. n - 1 : f[i + 1] = step[i][f[i]]
           T == {n \in Nat : \E f \in [Nat -> S] : Upto(n, f)}
<1>1. 0 \in T
  <2>1. Upto(0, [i \in Nat |-> base])
    OBVIOUS
  <2> QED BY <2>1
<1>2. ASSUME NEW n \in Nat, n \in T PROVE n + 1 \in T
  <2>1. PICK f \in [Nat -> S] : Upto(n, f)
    BY <1>2
  <2> DEFINE g == [f EXCEPT ![n + 1] = step[n][f[n]]]
  <2>2. g \in [Nat -> S] /\ g[0] = base
    BY <2>1
  <2>3. ASSUME NEW i \in 0 .. n PROVE g[i + 1] = step[i][g[i]]
    <3>1. CASE i = n
      BY <3>1
    <3>2. CASE i # n
      <4>1. i \in 0 .. n - 1 /\ i + 1 # n + 1 /\ i # n + 1
        BY <3>2
      <4> QED BY <4>1, <2>1
    <3> QED BY <3>1, <3>2
  <2>4. Upto(n + 1, g)
    BY <2>2, <2>3
  <2> HIDE DEF g
  <2> QED BY <2>2, <2>4
<1>3. \A n \in Nat : \E f \in [Nat -> S] : Upto(n, f)
  <2> HIDE DEF T
  <2>1. \A n \in Nat : n \in T
    BY <1>1, <1>2, Induct
  <2> QED BY <2>1 DEF T
<1>4. ASSUME NEW n \in Nat, NEW f, NEW g, Upto(n, f), Upto(n, g)
      PROVE \A i \in 0 .. n : f[i] = g[i]
  <2> DEFINE E == {i \in Nat : i <= n => f[i] = g[i]}
  <2>1. 0 \in E
    BY <1>4
  <2>2. ASSUME NEW i \in Nat, i \in E PROVE i + 1 \in E
    <3> SUFFICES ASSUME i + 1 <= n PROVE f[i + 1] = g[i + 1]
      OBVIOUS
    <3>1. i \in 0 .. n - 1 /\ f[i] = g[i]
      BY <2>2
    <3> QED BY <3>1, <1>4
  <2>3. \A i \in Nat : i \in E
    <3> HIDE DEF E
    <3> QED BY <2>1, <2>2, Induct
  <2> QED BY <2>3
<1>5. \A n \in Nat : \E f \in [Nat -> S] : Upto(n, f)
  BY <1>3
<1> DEFINE F == [n \in Nat |-> CHOOSE f \in [Nat -> S] : Upto(n, f)]
<1>6. \A n \in Nat : F[n] \in [Nat -> S] /\ Upto(n, F[n])
  BY <1>5
<1>7. \A n \in Nat : \A f, g : Upto(n, f) /\ Upto(n, g) => \A i \in 0 .. n : f[i] = g[i]
  BY <1>4
<1>8. ASSUME NEW n \in Nat PROVE F[n + 1][n] = F[n][n] /\ F[n + 1][n + 1] = step[n][F[n + 1][n]]
  <2> HIDE DEF F
  <2>1. Upto(n + 1, F[n + 1]) /\ Upto(n, F[n])
    BY <1>6
  <2>2. Upto(n, F[n + 1])
    BY <2>1
  <2>3. \A i \in 0 .. n : F[n + 1][i] = F[n][i]
    <3> HIDE DEF Upto
    <3> QED BY <1>7, <2>1, <2>2
  <2>4. n \in 0 .. n /\ n \in 0 .. (n + 1) - 1
    OBVIOUS
  <2> QED BY <2>1, <2>3, <2>4
<1>9. F[0][0] = base
  <2> HIDE DEF F
  <2> QED BY <1>6
<1> DEFINE h == [n \in Nat |-> F[n][n]]
<1>10. h \in [Nat -> S]
  <2> HIDE DEF F, Upto
  <2> QED BY <1>6
<1>11. h[0] = base /\ \A n \in Nat : h[n + 1] = step[n][h[n]]
  <2> HIDE DEF F, Upto
  <2> QED BY <1>8, <1>9
<1> HIDE DEF h
<1> QED BY <1>10, <1>11 DEF Follows

(***************************************************************************)
(* Sequences.                                                              *)
(***************************************************************************)

\* Counting up to a number.
LEMMA Counted ==
  ASSUME NEW size \in Nat, NEW T, 0 \in T, \A k \in 1 .. size : k - 1 \in T => k \in T
  PROVE  size \in T
<1> DEFINE G == {k \in Nat : k <= size => k \in T}
<1>1. 0 \in G
  OBVIOUS
<1>2. ASSUME NEW n \in Nat, n \in G PROVE n + 1 \in G
  <2> SUFFICES ASSUME n + 1 <= size PROVE n + 1 \in T
    OBVIOUS
  <2>1. n + 1 \in 1 .. size /\ (n + 1) - 1 = n /\ n \in T
    BY <1>2
  <2> QED
    BY <2>1
<1>3. \A n \in Nat : n \in G
  <2> HIDE DEF G
  <2> QED BY <1>1, <1>2, Induct
<1> QED
  BY <1>3

\* What a loop over 1 .. size makes of what it begins with, turn by turn.
Loops(b, base, size, do) ==
  /\ b = [k \in 0 .. size |-> b[k]] /\ b[0] = base
  /\ \A k \in 1 .. size : b[k] = do[k][b[k - 1]]

LEMMA Loop ==
  ASSUME NEW S, NEW base \in S, NEW size \in Nat, NEW do \in [1 .. size -> [S -> S]]
  PROVE  \E b : Loops(b, base, size, do) /\ \A k \in 0 .. size : b[k] \in S
<1> DEFINE step == [k \in Nat |-> IF k + 1 \in 1 .. size THEN do[k + 1] ELSE [h \in S |-> h]]
<1>1. Steps(step, S)
  BY DEF Steps
<1>2. PICK F : Follows(F, S, base, step)
  <2> HIDE DEF step
  <2> QED BY <1>1, Recursion
<1>3. \A n \in Nat : F[n] \in S /\ F[n + 1] = step[n][F[n]]
  <2> HIDE DEF step
  <2> QED BY <1>2 DEF Follows
<1> DEFINE b == [k \in 0 .. size |-> F[k]]
<1>4. b[0] = base
  BY <1>2 DEF Follows
<1>5. ASSUME NEW k \in 1 .. size PROVE b[k] = do[k][b[k - 1]]
  <2>1. k - 1 \in Nat /\ (k - 1) + 1 = k /\ k - 1 \in 0 .. size /\ k \in 0 .. size
    OBVIOUS
  <2>2. F[k] = do[k][F[k - 1]]
    BY <2>1, <1>3
  <2> QED
    BY <2>1, <2>2
<1>6. \A k \in 0 .. size : b[k] = F[k] /\ b[k] \in S
  <2> TAKE k \in 0 .. size
  <2>1. k \in Nat
    OBVIOUS
  <2> QED BY <2>1, <1>3
<1>7. b = [k \in 0 .. size |-> b[k]]
  BY <1>6
<1> HIDE DEF b
<1> QED
  BY <1>4, <1>5, <1>6, <1>7 DEF Loops

LEMMA Removed ==
  ASSUME NEW S, NEW s \in Seq(S), NEW p \in 1 .. Len(s),
         NEW r, r = Cut(s, p)
  PROVE  /\ r \in Seq(S) /\ Len(r) = Len(s) - 1
         /\ \A i \in 1 .. Len(r) : r[i] = IF i < p THEN s[i] ELSE s[i + 1]
<1> DEFINE a == SubSeq(s, 1, p - 1)
           b == SubSeq(s, p + 1, Len(s))
<1>1. a \in Seq(S) /\ Len(a) = p - 1 /\ \A i \in 1 .. p - 1 : a[i] = s[i]
  OBVIOUS
<1>2. b \in Seq(S) /\ Len(b) = Len(s) - p
      /\ \A i \in 1 .. Len(s) - p : b[i] = s[p + i]
  OBVIOUS
<1>3. r = a \o b
  BY DEF Cut
<1> HIDE DEF a, b
<1>4. r \in Seq(S) /\ Len(r) = Len(s) - 1
  <2>1. r \in Seq(S) /\ Len(r) = Len(a) + Len(b)
    BY <1>1, <1>2, <1>3, ConcatProperties
  <2>3. Len(s) \in Nat /\ p \in Nat
    OBVIOUS
  <2> QED BY <2>1, <2>3, <1>1, <1>2
<1>5. ASSUME NEW i \in 1 .. Len(r) PROVE r[i] = IF i < p THEN s[i] ELSE s[i + 1]
  <2>1. CASE i < p
    BY <2>1, <1>1, <1>2, <1>3, <1>4
  <2>2. CASE i >= p
    <3>1. r[i] = b[i - (p - 1)]
      BY <2>2, <1>1, <1>2, <1>3, <1>4
    <3>2. i - (p - 1) \in 1 .. Len(s) - p /\ p + (i - (p - 1)) = i + 1
      BY <2>2, <1>4
    <3> QED BY <2>2, <3>1, <3>2, <1>2
  <2> QED BY <2>1, <2>2
<1> QED BY <1>4, <1>5

(***************************************************************************)
(* Sequences: the elements that are in a set, each replaced by another, one *)
(* taken out.                                                              *)
(***************************************************************************)

\* Induction on sequences, for a set.
LEMMA SeqInduct ==
  ASSUME NEW X, NEW T, <<>> \in T, \A s \in Seq(X), x \in X : s \in T => Append(s, x) \in T
  PROVE  \A s \in Seq(X) : s \in T
<1> DEFINE G == {n \in Nat : \A s \in Seq(X) : Len(s) = n => s \in T}
<1>1. 0 \in G
  <2>1. \A s \in Seq(X) : Len(s) = 0 => s = <<>>
    BY EmptySeq
  <2> QED BY <2>1
<1>2. ASSUME NEW n \in Nat, n \in G PROVE n + 1 \in G
  <2> SUFFICES ASSUME NEW s \in Seq(X), Len(s) = n + 1 PROVE s \in T
    OBVIOUS
  <2>1. s # <<>>
    BY EmptySeq
  <2>2. PICK r \in Seq(X), x \in X : s = Append(r, x)
    BY <2>1, SequenceEmptyOrAppend
  <2>3. Len(s) = Len(r) + 1 /\ Len(r) \in Nat
    BY <2>2, AppendProperties
  <2>4. r \in T
    BY <2>3, <1>2
  <2> QED BY <2>2, <2>4
<1>3. \A n \in Nat : n \in G
  <2> HIDE DEF G
  <2> QED BY <1>1, <1>2, Induct
<1> QED
  <2> TAKE s \in Seq(X)
  <2>1. Len(s) \in Nat
    OBVIOUS
  <2> QED BY <2>1, <1>3

\* The turns of the loop of Only.
Keeps(b, a, S) ==
  b = [k \in 0 .. Len(a) |->
         IF k = 0 THEN <<>> ELSE IF a[k] \in S THEN Append(b[k - 1], a[k]) ELSE b[k - 1]]

KeptOf(a, S) == CHOOSE b : Keeps(b, a, S)
Turns(b, a, S, size) ==
  b[0] = <<>>
  /\ \A k \in 1 .. size : b[k] = IF a[k] \in S THEN Append(b[k - 1], a[k]) ELSE b[k - 1]

LEMMA KeptTurns ==
  ASSUME NEW X, NEW a \in Seq(X), NEW S
  PROVE  /\ Only(a, S) = KeptOf(a, S)[Len(a)]
         /\ Turns(KeptOf(a, S), a, S, Len(a)) /\ \A k \in 0 .. Len(a) : KeptOf(a, S)[k] \in Seq(X)
<1> DEFINE size == Len(a)
           b == KeptOf(a, S)
           do == [k \in 1 .. size |-> [h \in Seq(X) |-> IF a[k] \in S THEN Append(h, a[k]) ELSE h]]
<1>0. size \in Nat /\ \A k \in 1 .. size : a[k] \in X
  OBVIOUS
<1>r. /\ 0 \in 0 .. size /\ \A k \in 0 .. size : k = 0 \/ k \in 1 .. size
      /\ \A k \in 1 .. size : k # 0 /\ k \in 0 .. size /\ k - 1 \in 0 .. size
  <2> HIDE DEF size
  <2> QED BY <1>0
<1>1. Only(a, S) = b[size]
  BY DEF Only, Keeps, KeptOf
<1>2. do \in [1 .. size -> [Seq(X) -> Seq(X)]]
  <2> HIDE DEF size
  <2> SUFFICES ASSUME NEW k \in 1 .. size, NEW h \in Seq(X)
               PROVE (IF a[k] \in S THEN Append(h, a[k]) ELSE h) \in Seq(X)
    OBVIOUS
  <2> QED BY <1>0, AppendProperties
<1>3. PICK c : Loops(c, <<>>, size, do) /\ \A k \in 0 .. size : c[k] \in Seq(X)
  <2> HIDE DEF do, size
  <2>1. <<>> \in Seq(X)
    OBVIOUS
  <2> QED BY <1>0, <1>2, <2>1, Loop
<1>4. Keeps(c, a, S)
  <2>1. c = [k \in 0 .. size |-> c[k]] /\ c[0] = <<>>
        /\ \A k \in 1 .. size : c[k] = do[k][c[k - 1]]
    BY <1>3 DEF Loops
  <2> HIDE DEF size
  <2>2. \A k \in 1 .. size : c[k] = IF a[k] \in S THEN Append(c[k - 1], a[k]) ELSE c[k - 1]
    BY <2>1, <1>3, <1>r
  <2>3. \A k \in 0 .. size : c[k] = IF k = 0 THEN <<>>
            ELSE IF a[k] \in S THEN Append(c[k - 1], a[k]) ELSE c[k - 1]
    BY <2>1, <2>2, <1>r
  <2> QED BY <2>1, <2>3 DEF Keeps, size
<1>5. Keeps(b, a, S)
  BY <1>4 DEF KeptOf
<1> HIDE DEF do, b
<1>6. b[0] = <<>> /\ \A k \in 1 .. size : b[k] = IF a[k] \in S THEN Append(b[k - 1], a[k]) ELSE b[k - 1]
  <2>1. \A k \in 0 .. size : b[k] = IF k = 0 THEN <<>>
            ELSE IF a[k] \in S THEN Append(b[k - 1], a[k]) ELSE b[k - 1]
    BY <1>5 DEF Keeps
  <2> HIDE DEF size
  <2> QED BY <2>1, <1>r
<1> DEFINE T == {k \in 0 .. size : b[k] \in Seq(X)}
<1> HIDE DEF size
<1>7. 0 \in T
  <2>1. <<>> \in Seq(X)
    OBVIOUS
  <2> QED BY <2>1, <1>6, <1>r
<1>8. ASSUME NEW k \in 1 .. size, k - 1 \in T PROVE k \in T
  <2>1. a[k] \in X /\ b[k - 1] \in Seq(X) /\ k \in 0 .. size
    BY <1>8, <1>0, <1>r
  <2>2. Append(b[k - 1], a[k]) \in Seq(X)
    BY <2>1, AppendProperties
  <2> QED BY <2>1, <2>2, <1>6
<1>9. \A n \in 0 .. size : n \in T
  <2> SUFFICES ASSUME NEW n \in 0 .. size PROVE n \in T
    OBVIOUS
  <2>1. n \in Nat /\ \A k \in 1 .. n : k \in 1 .. size
    BY <1>0
  <2>2. \A k \in 1 .. n : k - 1 \in T => k \in T
    BY <2>1, <1>8
  <2> HIDE DEF T
  <2> QED BY <1>7, <2>1, <2>2, Counted
<1> QED BY <1>1, <1>6, <1>9 DEF size, b, Turns

LEMMA OnlyNone ==
  ASSUME NEW S
  PROVE  Only(<<>>, S) = <<>>
<1>1. <<>> \in Seq({}) /\ Len(<<>>) = 0
  OBVIOUS
<1>2. Only(<<>>, S) = KeptOf(<<>>, S)[Len(<<>>)] /\ Turns(KeptOf(<<>>, S), <<>>, S, Len(<<>>))
  BY <1>1, KeptTurns
<1> QED BY <1>1, <1>2 DEF Turns

LEMMA OnlyOne ==
  ASSUME NEW X, NEW a \in Seq(X), NEW x \in X, NEW S
  PROVE  Only(Append(a, x), S) = IF x \in S THEN Append(Only(a, S), x) ELSE Only(a, S)
<1> DEFINE w == Append(a, x)
           b == KeptOf(a, S)
           d == KeptOf(w, S)
           size == Len(a)
<1>1. w \in Seq(X) /\ Len(w) = size + 1 /\ (\A i \in 1 .. size : w[i] = a[i]) /\ w[size + 1] = x
  BY AppendProperties
<1>2. Only(a, S) = b[size] /\ Turns(b, a, S, size)
  BY KeptTurns
<1>0. size \in Nat
  OBVIOUS
<1> HIDE DEF w, b, size
<1>3. Only(w, S) = d[size + 1] /\ Turns(d, w, S, size + 1)
  <2>1. Only(w, S) = d[Len(w)] /\ Turns(d, w, S, Len(w))
    BY <1>1, KeptTurns
  <2> QED BY <2>1, <1>1
<1> HIDE DEF d
<1> DEFINE T == {k \in 0 .. size : d[k] = b[k]}
<1>4. 0 \in T
  BY <1>2, <1>3, <1>0 DEF Turns
<1>5. \A k \in 1 .. size : k - 1 \in T => k \in T
  <2> SUFFICES ASSUME NEW k \in 1 .. size, k - 1 \in T PROVE k \in T
    OBVIOUS
  <2>1. k \in 1 .. size + 1 /\ k \in 0 .. size /\ d[k - 1] = b[k - 1]
    BY <1>0
  <2> QED BY <2>1, <1>1, <1>2, <1>3 DEF Turns
<1>6. size \in T
  <2> HIDE DEF T
  <2> QED BY <1>0, <1>4, <1>5, Counted
<1>7. size + 1 \in 1 .. size + 1 /\ (size + 1) - 1 = size
  BY <1>0
<1> QED BY <1>1, <1>2, <1>3, <1>6, <1>7 DEF w, Turns

\* One element more.
LEMMA Appended ==
  ASSUME NEW X, NEW a \in Seq(X), NEW x \in X
  PROVE  /\ Range(Append(a, x)) = Range(a) \cup {x}
         /\ IsInjective(Append(a, x)) <=> IsInjective(a) /\ x \notin Range(a)
<1> DEFINE w == Append(a, x)
           n == Len(a)
<1>1. n \in Nat /\ DOMAIN a = 1 .. n /\ DOMAIN w = 1 .. n + 1
      /\ (\A i \in 1 .. n : w[i] = a[i]) /\ w[n + 1] = x
  BY AppendProperties
<1> HIDE DEF w, n
<1>2. /\ \A i \in 1 .. n + 1 : i \in 1 .. n \/ i = n + 1
      /\ \A i \in 1 .. n : i \in 1 .. n + 1 /\ i # n + 1
      /\ n + 1 \in 1 .. n + 1
  BY <1>1
<1>3. Range(w) = Range(a) \cup {x}
  BY <1>1, <1>2 DEF Range
<1>4. ASSUME IsInjective(a), x \notin Range(a) PROVE IsInjective(w)
  <2> SUFFICES ASSUME NEW i \in 1 .. n + 1, NEW j \in 1 .. n + 1, w[i] = w[j] PROVE i = j
    BY <1>1 DEF IsInjective
  <2>1. \A k \in 1 .. n : w[k] \in Range(a)
    BY <1>1 DEF Range
  <2>2. CASE i \in 1 .. n /\ j \in 1 .. n
    BY <1>1, <1>4, <2>2 DEF IsInjective
  <2>3. CASE i = n + 1 \/ j = n + 1
    BY <1>1, <1>2, <1>4, <2>1, <2>3
  <2> QED BY <1>2, <2>2, <2>3
<1>5. ASSUME IsInjective(w) PROVE IsInjective(a) /\ x \notin Range(a)
  <2>1. \A i, j \in 1 .. n : a[i] = a[j] => i = j
    BY <1>1, <1>2, <1>5 DEF IsInjective
  <2>2. \A i \in 1 .. n : a[i] # x
    BY <1>1, <1>2, <1>5 DEF IsInjective
  <2> QED BY <1>1, <2>1, <2>2 DEF IsInjective, Range
<1> QED BY <1>3, <1>4, <1>5 DEF w

LEMMA NoElement == Range(<<>>) = {} /\ IsInjective(<<>>)
<1>1. DOMAIN <<>> = {}
  OBVIOUS
<1> QED BY <1>1 DEF Range, IsInjective

\* What Only gives: elements of both, none twice if none was.
LEMMA OnlyTyped ==
  ASSUME NEW X, NEW a \in Seq(X), NEW S
  PROVE  /\ Only(a, S) \in Seq(X) /\ Range(Only(a, S)) = Range(a) \cap S
         /\ IsInjective(a) => IsInjective(Only(a, S))
<1> DEFINE o(s) == Only(s, S)
           Good(s) == /\ o(s) \in Seq(X) /\ Range(o(s)) = Range(s) \cap S
                      /\ IsInjective(s) => IsInjective(o(s))
           T == {s \in Seq(X) : Good(s)}
<1>1. <<>> \in T
  <2>1. <<>> \in Seq(X)
    OBVIOUS
  <2> QED BY <2>1, OnlyNone, NoElement
<1>2. ASSUME NEW s \in Seq(X), NEW x \in X, s \in T PROVE Append(s, x) \in T
  <2>1. o(Append(s, x)) = IF x \in S THEN Append(o(s), x) ELSE o(s)
    BY OnlyOne
  <2>2. o(s) \in Seq(X) /\ Append(s, x) \in Seq(X)
    BY <1>2, AppendProperties
  <2>3. /\ Range(Append(s, x)) = Range(s) \cup {x}
        /\ IsInjective(Append(s, x)) <=> IsInjective(s) /\ x \notin Range(s)
    BY Appended
  <2>4. /\ Append(o(s), x) \in Seq(X) /\ Range(Append(o(s), x)) = Range(o(s)) \cup {x}
        /\ IsInjective(Append(o(s), x)) <=> IsInjective(o(s)) /\ x \notin Range(o(s))
    <3> HIDE DEF o
    <3> QED BY <2>2, Appended, AppendProperties
  <2> HIDE DEF o
  <2>5. CASE x \in S
    BY <1>2, <2>1, <2>2, <2>3, <2>4, <2>5
  <2>6. CASE x \notin S
    BY <1>2, <2>1, <2>2, <2>3, <2>4, <2>6
  <2> QED BY <2>5, <2>6
<1>3. a \in T
  <2> HIDE DEF T
  <2> QED BY <1>1, <1>2, SeqInduct
<1> QED BY <1>3

LEMMA OnlyTwice ==
  ASSUME NEW X, NEW a \in Seq(X), NEW S, NEW R
  PROVE  Only(Only(a, S), R) = Only(a, S \cap R)
<1> DEFINE T == {s \in Seq(X) : Only(Only(s, S), R) = Only(s, S \cap R)}
<1>1. <<>> \in T
  <2>1. <<>> \in Seq(X)
    OBVIOUS
  <2> QED BY <2>1, OnlyNone
<1>2. ASSUME NEW s \in Seq(X), NEW x \in X, s \in T PROVE Append(s, x) \in T
  <2> DEFINE o == Only(s, S)
             w == Append(s, x)
  <2>1. Only(w, S) = (IF x \in S THEN Append(o, x) ELSE o)
        /\ Only(w, S \cap R) = (IF x \in S \cap R THEN Append(Only(s, S \cap R), x) ELSE Only(s, S \cap R))
    BY OnlyOne
  <2>2. o \in Seq(X) /\ w \in Seq(X)
    BY OnlyTyped, AppendProperties
  <2>3. Only(o, R) = Only(s, S \cap R)
    BY <1>2
  <2> HIDE DEF o
  <2>4. Only(Append(o, x), R) = IF x \in R THEN Append(Only(o, R), x) ELSE Only(o, R)
    BY <2>2, OnlyOne
  <2> HIDE DEF w
  <2>5. Only(Only(w, S), R) = Only(w, S \cap R)
    <3>1. CASE x \in S
      <4>1. Only(w, S) = Append(o, x) /\ (x \in R <=> x \in S \cap R)
        BY <2>1, <3>1
      <4> QED BY <4>1, <2>1, <2>3, <2>4
    <3>2. CASE x \notin S
      BY <2>1, <2>3, <3>2
    <3> QED BY <3>1, <3>2
  <2> QED BY <2>2, <2>5 DEF w
<1>3. a \in T
  <2> HIDE DEF T
  <2> QED BY <1>1, <1>2, SeqInduct
<1> QED BY <1>3

LEMMA OnlySame ==
  ASSUME NEW X, NEW a \in Seq(X), NEW S, NEW R, Range(a) \cap S = Range(a) \cap R
  PROVE  Only(a, S) = Only(a, R)
<1> DEFINE T == {s \in Seq(X) : Range(s) \cap S = Range(s) \cap R => Only(s, S) = Only(s, R)}
<1>1. <<>> \in T
  <2>1. <<>> \in Seq(X)
    OBVIOUS
  <2> QED BY <2>1, OnlyNone
<1>2. ASSUME NEW s \in Seq(X), NEW x \in X, s \in T PROVE Append(s, x) \in T
  <2> DEFINE w == Append(s, x)
  <2>1. /\ Only(w, S) = IF x \in S THEN Append(Only(s, S), x) ELSE Only(s, S)
        /\ Only(w, R) = IF x \in R THEN Append(Only(s, R), x) ELSE Only(s, R)
    BY OnlyOne
  <2>2. w \in Seq(X) /\ Range(w) = Range(s) \cup {x}
    BY Appended, AppendProperties
  <2> HIDE DEF w
  <2>3. ASSUME Range(w) \cap S = Range(w) \cap R PROVE Only(w, S) = Only(w, R)
    <3>1. Range(s) \cap S = Range(s) \cap R /\ (x \in S <=> x \in R)
      BY <2>2, <2>3
    <3>2. Only(s, S) = Only(s, R)
      BY <3>1, <1>2
    <3> QED BY <3>1, <3>2, <2>1
  <2> QED BY <2>2, <2>3 DEF w
<1>3. a \in T
  <2> HIDE DEF T
  <2> QED BY <1>1, <1>2, SeqInduct
<1> QED BY <1>3

LEMMA OnlyWhole ==
  ASSUME NEW X, NEW a \in Seq(X), NEW S, Range(a) \subseteq S
  PROVE  Only(a, S) = a
<1> DEFINE T == {s \in Seq(X) : Range(s) \subseteq S => Only(s, S) = s}
<1>1. <<>> \in T
  <2>1. <<>> \in Seq(X)
    OBVIOUS
  <2> QED BY <2>1, OnlyNone
<1>2. ASSUME NEW s \in Seq(X), NEW x \in X, s \in T PROVE Append(s, x) \in T
  <2> DEFINE w == Append(s, x)
  <2>1. Only(w, S) = IF x \in S THEN Append(Only(s, S), x) ELSE Only(s, S)
    BY OnlyOne
  <2>2. w \in Seq(X) /\ Range(w) = Range(s) \cup {x}
    BY Appended, AppendProperties
  <2>3. ASSUME Range(w) \subseteq S PROVE Only(w, S) = w
    <3>1. Range(s) \subseteq S /\ x \in S
      BY <2>2, <2>3
    <3> QED BY <3>1, <1>2, <2>1
  <2> HIDE DEF w
  <2> QED BY <2>2, <2>3 DEF w
<1>3. a \in T
  <2> HIDE DEF T
  <2> QED BY <1>1, <1>2, SeqInduct
<1> QED BY <1>3

\* Each element replaced by another.
Mapped(a, f) == [k \in DOMAIN a |-> f[a[k]]]
MapsTo(m, a, f) == \A k \in 1 .. Len(a) : m[k] = f[a[k]]

LEMMA MappedTyped ==
  ASSUME NEW X, NEW Y, NEW f \in [X -> Y], NEW a \in Seq(X)
  PROVE  /\ Mapped(a, f) \in Seq(Y) /\ Len(Mapped(a, f)) = Len(a)
         /\ MapsTo(Mapped(a, f), a, f)
<1> DEFINE m == Mapped(a, f)
           n == Len(a)
<1>1. n \in Nat /\ DOMAIN a = 1 .. n /\ \A i \in 1 .. n : a[i] \in X
  OBVIOUS
<1> HIDE DEF n
<1>2. m = [k \in 1 .. n |-> f[a[k]]]
  BY <1>1 DEF Mapped
<1>3. m \in [1 .. n -> Y]
  BY <1>1, <1>2
<1>4. m \in Seq(Y) /\ Len(m) = n
  BY <1>1, <1>3
<1>5. DOMAIN m = 1 .. n /\ \A k \in 1 .. n : m[k] = f[a[k]]
  BY <1>2
<1> HIDE DEF m
<1> QED BY <1>4, <1>5 DEF m, n, MapsTo

LEMMA MappedRange ==
  ASSUME NEW X, NEW Y, NEW f \in [X -> Y], NEW a \in Seq(X)
  PROVE  Range(Mapped(a, f)) = {f[x] : x \in Range(a)}
<1> DEFINE m == Mapped(a, f)
           n == Len(a)
<1>1. n \in Nat /\ DOMAIN a = 1 .. n
  OBVIOUS
<1>2. DOMAIN m = 1 .. n /\ \A k \in 1 .. n : m[k] = f[a[k]]
  BY <1>1 DEF Mapped
<1> HIDE DEF n, m
<1> QED BY <1>1, <1>2 DEF Range, m

LEMMA MappedOne ==
  ASSUME NEW X, NEW Y, NEW f \in [X -> Y], NEW a \in Seq(X), NEW x \in X
  PROVE  Mapped(Append(a, x), f) = Append(Mapped(a, f), f[x])
<1> DEFINE w == Append(a, x)
           m == Mapped(a, f)
           v == Mapped(w, f)
           n == Len(a)
<1>1. n \in Nat /\ w \in Seq(X) /\ Len(w) = n + 1
      /\ (\A i \in 1 .. n : a[i] \in X /\ w[i] = a[i]) /\ w[n + 1] = x
  BY AppendProperties
<1>2. m \in Seq(Y) /\ Len(m) = n /\ \A k \in 1 .. n : m[k] = f[a[k]]
  <2> HIDE DEF m, n
  <2>1. m \in Seq(Y) /\ Len(m) = Len(a) /\ MapsTo(m, a, f)
    BY MappedTyped DEF m
  <2> QED BY <2>1 DEF n, MapsTo
<1> HIDE DEF w, n, m
<1>3. v \in Seq(Y) /\ Len(v) = n + 1 /\ \A k \in 1 .. n + 1 : v[k] = f[w[k]]
  <2> HIDE DEF v
  <2>1. v \in Seq(Y) /\ Len(v) = Len(w) /\ MapsTo(v, w, f)
    BY <1>1, MappedTyped DEF v
  <2> QED BY <2>1, <1>1 DEF MapsTo
<1>4. f[x] \in Y
  OBVIOUS
<1> HIDE DEF v
<1>5. Append(m, f[x]) \in Seq(Y) /\ Len(Append(m, f[x])) = n + 1
      /\ (\A i \in 1 .. n : Append(m, f[x])[i] = m[i]) /\ Append(m, f[x])[n + 1] = f[x]
  BY <1>2, <1>4, AppendProperties
<1>6. \A i \in 1 .. n + 1 : v[i] = Append(m, f[x])[i]
  <2>1. \A i \in 1 .. n + 1 : i \in 1 .. n \/ i = n + 1
    BY <1>1
  <2>2. \A i \in 1 .. n : i \in 1 .. n + 1
    BY <1>1
  <2>3. n + 1 \in 1 .. n + 1
    BY <1>1
  <2> QED BY <2>1, <2>2, <2>3, <1>1, <1>2, <1>3, <1>5
<1>7. v = Append(m, f[x])
  BY <1>3, <1>5, <1>6, SeqEqual
<1> QED BY <1>7 DEF m, v, w

\* Replacing and choosing can be done in either order.
From(f, X, S) == {x \in X : f[x] \in S}

LEMMA OnlyMapped ==
  ASSUME NEW X, NEW Y, NEW f \in [X -> Y], NEW a \in Seq(X), NEW S
  PROVE  Only(Mapped(a, f), S) = Mapped(Only(a, From(f, X, S)), f)
<1> DEFINE P == From(f, X, S)
           T == {s \in Seq(X) : Only(Mapped(s, f), S) = Mapped(Only(s, P), f)}
<1>1. <<>> \in T
  <2>1. <<>> \in Seq(X)
    OBVIOUS
  <2>2. Mapped(<<>>, f) = <<>>
    BY DEF Mapped
  <2> QED BY <2>1, <2>2, OnlyNone
<1>2. ASSUME NEW s \in Seq(X), NEW x \in X, s \in T PROVE Append(s, x) \in T
  <2> DEFINE w == Append(s, x)
             m == Mapped(s, f)
             o == Only(s, P)
  <2>1. Only(w, P) = (IF f[x] \in S THEN Append(o, x) ELSE o)
    BY OnlyOne DEF From
  <2>2. w \in Seq(X) /\ o \in Seq(X) /\ m \in Seq(Y) /\ f[x] \in Y
    BY MappedTyped, OnlyTyped, AppendProperties
  <2>3. Mapped(w, f) = Append(m, f[x])
    BY MappedOne
  <2>4. Only(m, S) = Mapped(o, f)
    BY <1>2
  <2> HIDE DEF m, o, P
  <2>5. Only(Append(m, f[x]), S) = IF f[x] \in S THEN Append(Only(m, S), f[x]) ELSE Only(m, S)
    BY <2>2, OnlyOne
  <2>6. Mapped(Append(o, x), f) = Append(Mapped(o, f), f[x])
    BY <2>2, MappedOne
  <2> HIDE DEF w
  <2>7. Only(Mapped(w, f), S) = Mapped(Only(w, P), f)
    BY <2>1, <2>3, <2>4, <2>5, <2>6
  <2> QED BY <2>2, <2>7 DEF w
<1>3. a \in T
  <2> HIDE DEF T
  <2> QED BY <1>1, <1>2, SeqInduct
<1> QED BY <1>3

\* An index goes: the others behind it count one less.
Down(i) == [x \in Int |-> IF x > i THEN x - 1 ELSE x]
Up(i, x) == IF x >= i THEN x + 1 ELSE x
Undoes(f, i) == /\ \A x \in Int : Up(i, x) \in Int /\ Up(i, x) # i /\ f[Up(i, x)] = x
                /\ \A x \in Int : x # i => Up(i, f[x]) = x
Deleted(a, i) == Mapped(Only(a, Int \ {i}), Down(i))

LEMMA DownUp ==
  ASSUME NEW i \in Int
  PROVE  Down(i) \in [Int -> Int] /\ Undoes(Down(i), i)
BY DEF Down, Up, Undoes

LEMMA DeletedTyped ==
  ASSUME NEW n \in Nat, NEW i \in 1 .. n, NEW a \in Seq(Int), Range(a) \subseteq 1 .. n
  PROVE  /\ Deleted(a, i) \in Seq(Int) /\ Range(Deleted(a, i)) \subseteq 1 .. n - 1
         /\ \A x \in Int : x \in Range(Deleted(a, i)) <=> Up(i, x) \in Range(a)
         /\ IsInjective(a) => IsInjective(Deleted(a, i))
<1> DEFINE f == Down(i)
           o == Only(a, Int \ {i})
           r == Deleted(a, i)
<1>i. i \in Int
  OBVIOUS
<1>1. f \in [Int -> Int] /\ Undoes(f, i)
  BY <1>i, DownUp
<1>2. /\ o \in Seq(Int) /\ Range(o) = Range(a) \cap (Int \ {i})
      /\ IsInjective(a) => IsInjective(o)
  BY OnlyTyped
<1>u. \A x \in 1 .. n : x # i => f[x] \in 1 .. n - 1
  BY DEF Down
<1> HIDE DEF f, o
<1>3. r = Mapped(o, f)
  BY DEF Deleted, o, f
<1> HIDE DEF r
<1>o. o \in Seq(Int)
  BY <1>2
<1>4. r \in Seq(Int) /\ Len(r) = Len(o) /\ MapsTo(r, o, f)
  <2>1. Mapped(o, f) \in Seq(Int) /\ Len(Mapped(o, f)) = Len(o) /\ MapsTo(Mapped(o, f), o, f)
    BY <1>1, <1>o, MappedTyped
  <2> QED BY <2>1, <1>3
<1>5. Range(r) = {f[x] : x \in Range(o)}
  BY <1>1, <1>o, <1>3, MappedRange
<1>6. \A x \in Int : x \in Range(r) <=> Up(i, x) \in Range(a)
  <2>1. \A x \in Int : x \in Range(r) => Up(i, x) \in Range(a)
    BY <1>1, <1>2, <1>5 DEF Undoes
  <2>2. \A x \in Int : Up(i, x) \in Range(a) => x \in Range(r)
    BY <1>1, <1>2, <1>5 DEF Undoes
  <2> QED BY <2>1, <2>2
<1>7. Range(r) \subseteq 1 .. n - 1
  BY <1>2, <1>5, <1>u
<1>8. ASSUME IsInjective(a) PROVE IsInjective(r)
  <2>1. DOMAIN r = 1 .. Len(r) /\ DOMAIN o = 1 .. Len(r)
    BY <1>2, <1>4
  <2>2. \A k \in DOMAIN o : o[k] \in Int /\ o[k] # i /\ r[k] = f[o[k]]
    <3>1. \A k \in DOMAIN o : o[k] \in Range(o)
      BY DEF Range
    <3> QED BY <3>1, <2>1, <1>2, <1>4 DEF MapsTo
  <2>3. IsInjective(o)
    BY <1>2, <1>8
  <2>4. ASSUME NEW k \in DOMAIN o, NEW j \in DOMAIN o, r[k] = r[j] PROVE k = j
    <3>2. Up(i, f[o[k]]) = o[k] /\ Up(i, f[o[j]]) = o[j]
      BY <2>2, <1>1 DEF Undoes
    <3>1. o[k] = o[j]
      BY <3>2, <2>2, <2>4
    <3> QED BY <3>1, <2>3 DEF IsInjective
  <2> QED BY <2>1, <2>4 DEF IsInjective
<1> QED BY <1>4, <1>6, <1>7, <1>8 DEF r

\* What is left of a part is that part of what is left.
LEMMA DeletedOnly ==
  ASSUME NEW n \in Nat, NEW i \in 1 .. n, NEW m \in Seq(Int), Range(m) \subseteq 1 .. n,
         NEW a, a = Only(m, Range(a))
  PROVE  Deleted(a, i) = Only(Deleted(m, i), Range(Deleted(a, i)))
<1> DEFINE f == Down(i)
           J == Int \ {i}
           D == Range(a)
           R == Range(Deleted(a, i))
           P == From(f, Int, R)
<1>1. a \in Seq(Int) /\ Range(a) \subseteq 1 .. n
  BY OnlyTyped
<1>i. i \in Int
  OBVIOUS
<1>2. f \in [Int -> Int] /\ Undoes(f, i)
  BY <1>i, DownUp
<1>3. \A x \in Int : x \in R <=> Up(i, x) \in D
  BY <1>1, DeletedTyped
<1> HIDE DEF f, D, R
<1>4. \A x \in J : x \in P <=> x \in D
  BY <1>2, <1>3 DEF Undoes, From
<1>5. Only(m, J) \in Seq(Int)
  BY OnlyTyped
<1>6. Only(Mapped(Only(m, J), f), R) = Mapped(Only(Only(m, J), P), f)
  <2> DEFINE g == Only(m, J)
             Z == Int
  <2>1. g \in Seq(Z) /\ f \in [Z -> Z]
    BY <1>2, <1>5
  <2> HIDE DEF g, J, Z
  <2>2. Only(Mapped(g, f), R) = Mapped(Only(g, From(f, Z, R)), f)
    BY <2>1, OnlyMapped
  <2> QED BY <2>2 DEF g, P, Z
<1> HIDE DEF P, J
<1>7. Only(Only(m, J), P) = Only(m, J \cap P) /\ Only(Only(m, D), J) = Only(m, D \cap J)
  BY OnlyTwice
<1>8. J \cap P = D \cap J
  BY <1>1, <1>4 DEF D, P, J, From
<1>9. Deleted(a, i) = Mapped(Only(a, J), f) /\ Deleted(m, i) = Mapped(Only(m, J), f)
  BY DEF Deleted, J, f
<1>10. a = Only(m, D)
  BY DEF D
<1>11. Deleted(a, i) = Only(Deleted(m, i), R)
  BY <1>6, <1>7, <1>8, <1>9, <1>10
<1> QED BY <1>11 DEF R

\* Sequences alike wherever an element counts have the same elements of it.
LEMMA OnlyAlike ==
  ASSUME NEW X, NEW a \in Seq(X), NEW b \in Seq(X), NEW S, Len(a) = Len(b),
         \A k \in 1 .. Len(a) : a[k] = b[k] \/ (a[k] \notin S /\ b[k] \notin S)
  PROVE  Only(a, S) = Only(b, S)
<1> DEFINE size == Len(a)
           t == KeptOf(a, S)
           u == KeptOf(b, S)
           T == {k \in 0 .. size : t[k] = u[k]}
<1>0. size \in Nat
  OBVIOUS
<1>1. Only(a, S) = t[size] /\ Turns(t, a, S, size)
  BY KeptTurns
<1>2. Only(b, S) = u[size] /\ Turns(u, b, S, size)
  BY KeptTurns
<1>3. \A k \in 1 .. size : a[k] = b[k] \/ (a[k] \notin S /\ b[k] \notin S)
  OBVIOUS
<1> HIDE DEF size, t, u
<1>4. 0 \in T
  BY <1>0, <1>1, <1>2 DEF Turns
<1>5. \A k \in 1 .. size : k - 1 \in T => k \in T
  <2> SUFFICES ASSUME NEW k \in 1 .. size, k - 1 \in T PROVE k \in T
    OBVIOUS
  <2>1. k \in 0 .. size /\ t[k - 1] = u[k - 1]
    BY <1>0
  <2> QED BY <2>1, <1>1, <1>2, <1>3 DEF Turns
<1>6. size \in T
  <2> HIDE DEF T
  <2> QED BY <1>0, <1>4, <1>5, Counted
<1> QED BY <1>1, <1>2, <1>6

\* Nothing is missed of a set by a sequence cut where its element is not of it.
LEMMA OnlyCut ==
  ASSUME NEW X, NEW a \in Seq(X), NEW p \in 1 .. Len(a), NEW S, a[p] \notin S,
         NEW b, b = Cut(a, p)
  PROVE  Only(b, S) = Only(a, S)
<1> DEFINE size == Len(a)
           t == KeptOf(b, S)
           u == KeptOf(a, S)
           T == {k \in 0 .. size - 1 : t[k] = IF k < p THEN u[k] ELSE u[k + 1]}
<1>1. b \in Seq(X) /\ Len(b) = size - 1
      /\ \A k \in 1 .. size - 1 : b[k] = IF k < p THEN a[k] ELSE a[k + 1]
  <2>1. b \in Seq(X) /\ Len(b) = Len(a) - 1
        /\ \A k \in 1 .. Len(b) : b[k] = IF k < p THEN a[k] ELSE a[k + 1]
    BY Removed
  <2> QED BY <2>1
<1>0. size \in Nat /\ p \in 1 .. size /\ p \in Nat /\ size - 1 \in Nat
  <2>1. size \in Nat /\ p \in 1 .. size
    OBVIOUS
  <2> HIDE DEF size
  <2> QED BY <2>1
<1>2. Only(a, S) = u[size] /\ Turns(u, a, S, size)
  BY KeptTurns
<1>3. Only(b, S) = t[size - 1] /\ Turns(t, b, S, size - 1)
  <2>1. Only(b, S) = t[Len(b)] /\ Turns(t, b, S, Len(b))
    BY <1>1, KeptTurns
  <2> QED BY <2>1, <1>1
<1> HIDE DEF size, t, u
<1>4. 0 \in T
  BY <1>0, <1>2, <1>3 DEF Turns
<1>5. u[p] = u[p - 1]
  BY <1>0, <1>2 DEF Turns
<1>6. ASSUME NEW k \in 1 .. size - 1, k - 1 \in T PROVE k \in T
  <2>0. k \in Nat /\ k \in 0 .. size - 1 /\ k \in 1 .. size /\ k + 1 \in 1 .. size /\ (k + 1) - 1 = k
    BY <1>0
  <2>1. t[k] = IF b[k] \in S THEN Append(t[k - 1], b[k]) ELSE t[k - 1]
    BY <1>3 DEF Turns
  <2>2. u[k] = IF a[k] \in S THEN Append(u[k - 1], a[k]) ELSE u[k - 1]
    BY <1>2, <2>0 DEF Turns
  <2>3. u[k + 1] = IF a[k + 1] \in S THEN Append(u[k], a[k + 1]) ELSE u[k]
    <3>1. u[k + 1] = IF a[k + 1] \in S THEN Append(u[(k + 1) - 1], a[k + 1]) ELSE u[(k + 1) - 1]
      BY <1>2, <2>0 DEF Turns
    <3> QED BY <2>0, <3>1
  <2>4. t[k - 1] = IF k - 1 < p THEN u[k - 1] ELSE u[k]
    <3>1. t[k - 1] = IF k - 1 < p THEN u[k - 1] ELSE u[(k - 1) + 1]
      BY <1>6
    <3> QED BY <2>0, <3>1
  <2>5. CASE k < p
    <3>1. b[k] = a[k] /\ t[k - 1] = u[k - 1]
      BY <1>0, <1>1, <2>0, <2>4, <2>5
    <3> QED BY <2>0, <2>1, <2>2, <2>5, <3>1
  <2>6. CASE k >= p
    <3>1. b[k] = a[k + 1]
      BY <1>0, <1>1, <2>0, <2>6
    <3>2. t[k - 1] = u[k]
      <4>1. CASE k = p
        BY <1>0, <1>5, <2>4, <4>1
      <4>2. CASE k # p
        <5>1. ~(k - 1 < p)
          BY <1>0, <2>0, <2>6, <4>2
        <5> QED BY <2>4, <5>1
      <4> QED BY <4>1, <4>2
    <3>3. t[k] = u[k + 1]
      BY <2>1, <2>3, <3>1, <3>2
    <3> QED BY <1>0, <2>0, <2>6, <3>3
  <2> QED BY <1>0, <2>0, <2>5, <2>6
<1>7. size - 1 \in T
  <2> HIDE DEF T
  <2> QED BY <1>0, <1>4, <1>6, Counted
<1>8. t[size - 1] = u[size]
  <2>1. CASE size - 1 < p
    <3>1. p = size
      BY <1>0, <2>1
    <3> QED BY <1>5, <1>7, <2>1, <3>1
  <2>2. CASE ~(size - 1 < p)
    <3>1. (size - 1) + 1 = size
      BY <1>0
    <3> QED BY <1>7, <2>2, <3>1
  <2> QED BY <2>1, <2>2
<1> QED BY <1>2, <1>3, <1>8

(***************************************************************************)
(* Page lengths.                                                           *)
(***************************************************************************)

\* A page length that is a number of rows.
Counts == Nat \ {0}

(***************************************************************************)
(* Arithmetic.                                                             *)
(***************************************************************************)

LEMMA DivFacts ==
  ASSUME NEW a \in Nat, NEW b \in Counts
  PROVE  /\ a \div b \in Nat /\ a % b \in 0 .. b - 1
         /\ a = b * (a \div b) + (a % b)
  BY DEF Counts

\* The quotient is the only number with a small remainder.
LEMMA DivUnique ==
  ASSUME NEW p \in Nat, NEW b \in Counts, NEW r \in 0 .. b - 1
  PROVE  (p * b + r) \div b = p
<1> DEFINE a == p * b + r
           q == a \div b
           s == a % b
<1>1. a \in Nat
  BY DEF Counts
<1>2. q \in Nat /\ s \in 0 .. b - 1 /\ a = b * q + s
  BY <1>1, DivFacts
<1>3. b * (p - q) = s - r
  BY <1>2 DEF Counts
<1>4. s - r < b /\ s - r > -b
  BY <1>2 DEF Counts
<1>5. ~(p - q >= 1)
  BY <1>2, <1>3, <1>4 DEF Counts
<1>6. ~(p - q <= -1)
  BY <1>2, <1>3, <1>4 DEF Counts
<1> QED
  BY <1>2, <1>5, <1>6

\* A number of rows and a rest, rounded up.
LEMMA CeilDivType ==
  ASSUME NEW a \in Nat, NEW b \in Counts
  PROVE  CeilDiv(a, b) \in Nat
<1>1. a + b - 1 \in Nat
  BY DEF Counts
<1> QED
  BY <1>1, DivFacts DEF CeilDiv

\* Rounding to a multiple that a start already is, either way.
LEMMA AlignedRounds ==
  ASSUME NEW p \in Nat, NEW b \in Counts
  PROVE  (p * b) \div b = p /\ CeilDiv(p * b, b) = p
<1>1. (p * b + 0) \div b = p
  BY DivUnique DEF Counts
<1>2. (p * b + (b - 1)) \div b = p
  BY DivUnique DEF Counts
<1>3. p * b + 0 = p * b /\ p * b + (b - 1) = p * b + b - 1
  BY DEF Counts
<1> QED
  BY <1>1, <1>2, <1>3 DEF CeilDiv

(***************************************************************************)
(* The operators of PagingOps.                                             *)
(***************************************************************************)

\* A page starts at a multiple of the length; the page of all rows at 0.
Aligned(start, len) ==
  IF len = All THEN start = 0 ELSE \E p \in Nat : start = p * len

\* A page length: a number of rows, or all of them.
PageLengths == Counts \cup {All}

\* What the callers of _fnPageChange ask for.
Asked == [to : {"first", "previous", "next", "last", "page"}, page : Nat]

LEMMA LengthCases ==
  ASSUME NEW len \in PageLengths
  PROVE  len = All \/ (len # All /\ len \in Counts)
BY DEF PageLengths, All, Counts

LEMMA AlignedType ==
  ASSUME NEW start, NEW len \in PageLengths, Aligned(start, len)
  PROVE  start \in Nat
BY LengthCases DEF Aligned, Counts

LEMMA DisplayEndType ==
  ASSUME NEW start \in Nat, NEW len \in PageLengths, NEW n \in Nat
  PROVE  DisplayEnd(start, len, n) \in 0 .. n
BY LengthCases DEF DisplayEnd, Counts

\* A multiple of the length is found by taking the remainder away.
LEMMA CutAligned ==
  ASSUME NEW a \in Nat, NEW b \in Counts
  PROVE  /\ a - (a % b) \in Nat
         /\ \E p \in Nat : a - (a % b) = p * b
         /\ a - (a % b) <= a /\ a < a - (a % b) + b
<1>1. a \div b \in Nat /\ a % b \in 0 .. b - 1 /\ a = b * (a \div b) + (a % b)
  BY DivFacts
<1>2. a - (a % b) = (a \div b) * b
  BY <1>1 DEF Counts
<1>3. (a \div b) * b \in Nat
  BY <1>1 DEF Counts
<1> QED
  BY <1>1, <1>2, <1>3 DEF Counts

LEMMA PageStartAligned ==
  ASSUME NEW start, NEW len \in PageLengths, NEW n \in Nat, NEW action \in Asked,
         Aligned(start, len)
  PROVE  Aligned(PageStart(start, len, n, action), len)
<1> DEFINE next == PageStart(start, len, n, action)
<1>1. CASE len = All
  BY <1>1 DEF PageStart, Aligned
<1>2. CASE len # All /\ n = 0
  BY <1>2, LengthCases, 0 * len = 0 DEF PageStart, Aligned, Counts
<1>3. CASE len # All /\ n # 0
  <2>1. len \in Counts
    BY <1>3, LengthCases
  <2>2. PICK p \in Nat : start = p * len
    BY <1>3 DEF Aligned
  <2>3. 0 = 0 * len
    BY <2>1 DEF Counts
  <2>4. CASE action.to = "page"
    BY <1>3, <2>3, <2>4 DEF PageStart, Aligned, Asked
  <2>5. CASE action.to = "first"
    BY <1>3, <2>3, <2>5 DEF PageStart, Aligned
  <2>6. CASE action.to = "previous"
    <3>1. next = IF start < len THEN 0 ELSE start - len
      BY <1>3, <2>6 DEF PageStart
    <3>2. p = 0 => start < len
      BY <2>1, <2>2 DEF Counts
    <3>3. p # 0 => p - 1 \in Nat /\ start - len = (p - 1) * len
      BY <2>1, <2>2 DEF Counts
    <3> QED
      BY <1>3, <2>3, <3>1, <3>2, <3>3 DEF Aligned
  <2>7. CASE action.to = "next"
    <3>1. next = IF start + len < n THEN start + len ELSE start
      BY <1>3, <2>7 DEF PageStart
    <3>2. start + len = (p + 1) * len
      BY <2>1, <2>2 DEF Counts
    <3> QED
      BY <1>3, <2>2, <3>1, <3>2 DEF Aligned
  <2>8. CASE action.to = "last"
    <3>1. next = ((n - 1) \div len) * len
      BY <1>3, <2>8 DEF PageStart
    <3>2. (n - 1) \div len \in Nat
      BY <1>3, <2>1, DivFacts
    <3> QED
      BY <1>3, <3>1, <3>2 DEF Aligned
  <2> QED
    BY <2>4, <2>5, <2>6, <2>7, <2>8 DEF Asked
<1> QED
  BY <1>1, <1>2, <1>3

\* _fnLengthOverflow of a row on the page leaves it on the page; of a page past
\* the end it goes to one that is not, if there are rows.
LEMMA OverflowAligned ==
  ASSUME NEW start \in Nat, NEW len \in PageLengths, NEW end \in Nat
  PROVE  LET s == LengthOverflow(start, len, end)
         IN  /\ Aligned(s, len)
             /\ s \in Nat /\ s <= start
             /\ end # 0 => s < end
             /\ start < end /\ len # All => start < s + len
<1> DEFINE backed == IF start >= end THEN end - len ELSE start
           s == LengthOverflow(start, len, end)
<1>1. CASE len = All
  BY <1>1 DEF LengthOverflow, Aligned
<1>2. CASE len # All
  <2>1. len \in Counts
    BY <1>2, LengthCases
  <2>2. backed \in Int /\ backed <= start /\ (start < end => backed = start)
         /\ backed < end
    BY <2>1 DEF Counts
  <2>3. CASE backed < 0
    <3>1. s = 0
      BY <2>3 DEF LengthOverflow
    <3>2. 0 = 0 * len
      BY <2>1 DEF Counts
    <3>3. ~(start < end)
      BY <2>2, <2>3
    <3> QED
      BY <1>2, <3>1, <3>2, <3>3 DEF Aligned
  <2>4. CASE ~(backed < 0)
    <3>1. s = backed - (backed % len)
      BY <1>2, <2>4 DEF LengthOverflow
    <3>2. backed \in Nat
      BY <2>2, <2>4
    <3>3. s \in Nat /\ s <= backed /\ backed < s + len /\ \E p \in Nat : s = p * len
      BY <2>1, <3>1, <3>2, CutAligned
    <3>4. Aligned(s, len)
      BY <1>2, <3>3 DEF Aligned
    <3>5. s <= start /\ s < end
      BY <2>2, <3>2, <3>3
    <3>6. start < end => start < s + len
      BY <2>2, <3>3
    <3> QED
      BY <3>3, <3>4, <3>5, <3>6
  <2> QED
    BY <2>3, <2>4
<1> QED
  BY <1>1, <1>2

(***************************************************************************)
(* Numbers in order, and those of them that are in a set.                  *)
(***************************************************************************)

\* Only goes through a sequence and then through another.
LEMMA OnlyJoined ==
  ASSUME NEW X, NEW a \in Seq(X), NEW b \in Seq(X), NEW S
  PROVE  Only(a \o b, S) = Only(a, S) \o Only(b, S)
<1> DEFINE o == Only(a, S)
           T == {t \in Seq(X) : Only(a \o t, S) = o \o Only(t, S)}
<1>0. o \in Seq(X)
  BY OnlyTyped
<1>1. <<>> \in T
  <2>1. <<>> \in Seq(X)
    OBVIOUS
  <2>2. a \o <<>> = a /\ Only(<<>>, S) = <<>>
    BY ConcatEmptySeq, OnlyNone
  <2> HIDE DEF o
  <2>3. o \o <<>> = o
    BY <1>0, ConcatEmptySeq
  <2> QED BY <2>1, <2>2, <2>3 DEF o
<1>2. ASSUME NEW t \in Seq(X), NEW x \in X, t \in T PROVE Append(t, x) \in T
  <2> DEFINE w == Append(t, x)
             u == Only(t, S)
             ab == a \o t
  <2>1. w \in Seq(X) /\ u \in Seq(X) /\ ab \in Seq(X)
    BY OnlyTyped, AppendProperties, ConcatProperties
  <2>2. Only(w, S) = IF x \in S THEN Append(u, x) ELSE u
    BY OnlyOne
  <2>3. a \o w = Append(ab, x)
    <3>1. w = t \o <<x>> /\ <<x>> \in Seq(X)
      BY AppendIsConcat
    <3>2. a \o (t \o <<x>>) = (a \o t) \o <<x>>
      BY <3>1, ConcatAssociative
    <3> HIDE DEF ab
    <3>3. Append(ab, x) = ab \o <<x>>
      BY <2>1, AppendIsConcat
    <3> QED BY <3>1, <3>2, <3>3 DEF ab
  <2>4. Only(ab, S) = o \o u
    BY <1>2
  <2> HIDE DEF ab, u, o, w
  <2>5. Only(Append(ab, x), S) = IF x \in S THEN Append(Only(ab, S), x) ELSE Only(ab, S)
    BY <2>1, OnlyOne
  <2>6. Append(o \o u, x) = o \o Append(u, x)
    <3> DEFINE ou == o \o u
               e == <<x>>
    <3>0. e \in Seq(X)
      OBVIOUS
    <3>1. u \o e = Append(u, x)
      BY <2>1, AppendIsConcat
    <3> HIDE DEF e
    <3>2. (o \o u) \o e = o \o (u \o e)
      <4>1. \A v, y, z \in Seq(X) : (v \o y) \o z = v \o (y \o z)
        BY ConcatAssociative
      <4> QED BY <4>1, <2>1, <1>0, <3>0
    <3>3. ou \in Seq(X)
      BY <2>1, <1>0, ConcatProperties
    <3> HIDE DEF ou
    <3>4. Append(ou, x) = ou \o e
      BY <3>3, AppendIsConcat DEF e
    <3> QED BY <3>1, <3>2, <3>4 DEF ou
  <2>7. Only(a \o w, S) = o \o Only(w, S)
    BY <2>2, <2>3, <2>4, <2>5, <2>6
  <2> QED BY <2>1, <2>7 DEF w
<1>3. b \in T
  <2> HIDE DEF T
  <2> QED BY <1>1, <1>2, SeqInduct
<1> QED BY <1>3

\* Numbers that get larger, and so do those of them that are chosen.
Ascending(w) == \A p, q \in 1 .. Len(w) : p < q => w[p] < w[q]

LEMMA OnlyAscending ==
  ASSUME NEW a \in Seq(Int), Ascending(a), NEW S
  PROVE  Ascending(Only(a, S))
<1> DEFINE Z == Int
           T == {s \in Seq(Z) : Ascending(s) => Ascending(Only(s, S))}
<1>1. <<>> \in T
  <2>1. <<>> \in Seq(Z) /\ Len(<<>>) = 0
    OBVIOUS
  <2>2. Ascending(<<>>)
    BY <2>1 DEF Ascending
  <2> QED BY <2>1, <2>2, OnlyNone
<1>2. ASSUME NEW s \in Seq(Z), NEW x \in Z, s \in T PROVE Append(s, x) \in T
  <2> DEFINE w == Append(s, x)
             o == Only(s, S)
             n == Len(s)
  <2>1. w \in Seq(Z) /\ Len(w) = n + 1 /\ n \in Nat
        /\ (\A i \in 1 .. n : w[i] = s[i]) /\ w[n + 1] = x
    BY AppendProperties
  <2>2. Only(w, S) = IF x \in S THEN Append(o, x) ELSE o
    BY OnlyOne
  <2>3. o \in Seq(Z) /\ Range(o) = Range(s) \cap S
    BY OnlyTyped
  <2>4. Range(s) = {s[i] : i \in 1 .. n}
    <3>1. DOMAIN s = 1 .. n
      OBVIOUS
    <3> QED BY <3>1 DEF Range
  <2> HIDE DEF w, n, o
  <2>5. ASSUME Ascending(w) PROVE Ascending(Only(w, S))
    <3>1. \A p, q \in 1 .. n : p < q => s[p] < s[q]
      <4>1. \A p \in 1 .. n : p \in 1 .. Len(w)
        BY <2>1
      <4> QED BY <4>1, <2>1, <2>5 DEF Ascending
    <3>2. \A p \in 1 .. n : s[p] < x
      <4>1. \A p \in 1 .. n : p \in 1 .. Len(w) /\ p < n + 1
        BY <2>1
      <4>2. n + 1 \in 1 .. Len(w)
        BY <2>1
      <4> QED BY <4>1, <4>2, <2>1, <2>5 DEF Ascending
    <3>3. Ascending(o)
      <4>1. Ascending(s)
        BY <3>1 DEF Ascending, n
      <4> QED BY <4>1, <1>2 DEF o
    <3>4. \A y \in Range(o) : y < x
      BY <2>3, <2>4, <3>2
    <3> DEFINE m == Len(o)
               v == Append(o, x)
    <3>5. v \in Seq(Z) /\ Len(v) = m + 1 /\ m \in Nat
          /\ (\A i \in 1 .. m : v[i] = o[i]) /\ v[m + 1] = x
      BY <2>3, AppendProperties
    <3>6. \A i \in 1 .. m : o[i] \in Range(o)
      BY <2>3 DEF Range
    <3>7. \A p, q \in 1 .. m : p < q => o[p] < o[q]
      BY <3>3 DEF Ascending
    <3> HIDE DEF m, v
    <3>8. Ascending(v)
      <4> SUFFICES ASSUME NEW p \in 1 .. Len(v), NEW q \in 1 .. Len(v), p < q
                   PROVE v[p] < v[q]
        BY DEF Ascending
      <4>1. p \in 1 .. m /\ (q \in 1 .. m \/ q = m + 1)
        BY <3>5
      <4> QED BY <4>1, <3>4, <3>5, <3>6, <3>7
    <3> QED BY <2>2, <3>3, <3>8 DEF v
  <2> QED BY <2>1, <2>5 DEF w
<1>3. a \in T
  <2>1. a \in Seq(Z)
    OBVIOUS
  <2> HIDE DEF T, Z
  <2> QED BY <1>1, <1>2, <2>1, SeqInduct
<1> QED BY <1>3

\* The numbers up to n, and those of them beyond j.
Counting(n) == [k \in 1 .. n |-> k]
Beyond(j, n) == [k \in 1 .. n - j |-> j + k]

LEMMA CountingTyped ==
  ASSUME NEW n \in Nat
  PROVE  /\ Counting(n) \in Seq(Int) /\ Len(Counting(n)) = n /\ Ascending(Counting(n))
         /\ Range(Counting(n)) = 1 .. n /\ IsInjective(Counting(n))
         /\ \A k \in 1 .. n : Counting(n)[k] = k
<1> DEFINE c == Counting(n)
<1>1. c \in [1 .. n -> Int] /\ DOMAIN c = 1 .. n /\ \A k \in 1 .. n : c[k] = k
  BY DEF Counting
<1> HIDE DEF c
<1>2. c \in Seq(Int) /\ Len(c) = n
  BY <1>1
<1>3. Ascending(c)
  BY <1>1, <1>2 DEF Ascending
<1>4. Range(c) = 1 .. n /\ IsInjective(c)
  BY <1>1 DEF Range, IsInjective
<1> QED BY <1>1, <1>2, <1>3, <1>4 DEF c

LEMMA CountingSplit ==
  ASSUME NEW n \in Nat, NEW j \in 1 .. n
  PROVE  /\ Beyond(j, n) \in Seq(Int) /\ Range(Beyond(j, n)) = j + 1 .. n
         /\ Counting(n) = Append(Counting(j - 1), j) \o Beyond(j, n)
<1> DEFINE b == Beyond(j, n)
           a == Counting(j - 1)
           c == Counting(n)
           h == Append(a, j)
<1>0. j \in Nat /\ j - 1 \in Nat /\ n - j \in Nat
  OBVIOUS
<1>1. b \in [1 .. n - j -> Int] /\ DOMAIN b = 1 .. n - j /\ \A k \in 1 .. n - j : b[k] = j + k
  BY DEF Beyond
<1>2. /\ a \in Seq(Int) /\ Len(a) = j - 1 /\ \A k \in 1 .. j - 1 : a[k] = k
  BY <1>0, CountingTyped
<1>3. /\ c \in Seq(Int) /\ Len(c) = n /\ \A k \in 1 .. n : c[k] = k
  BY CountingTyped
<1> HIDE DEF a, b, c
<1>4. b \in Seq(Int) /\ Len(b) = n - j
  BY <1>0, <1>1
<1>5. Range(b) = j + 1 .. n
  <2>1. Range(b) \subseteq j + 1 .. n
    BY <1>0, <1>1 DEF Range
  <2>2. ASSUME NEW x \in j + 1 .. n PROVE x \in Range(b)
    <3>1. x - j \in 1 .. n - j /\ j + (x - j) = x
      BY <1>0
    <3> QED BY <3>1, <1>1 DEF Range
  <2> QED BY <2>1, <2>2
<1>6. h \in Seq(Int) /\ Len(h) = j /\ \A k \in 1 .. j : h[k] = k
  <2>1. h \in Seq(Int) /\ Len(h) = Len(a) + 1 /\ (\A k \in 1 .. Len(a) : h[k] = a[k])
        /\ h[Len(a) + 1] = j
    BY <1>2, <1>0, AppendProperties
  <2> HIDE DEF h
  <2>2. Len(a) + 1 = j
    BY <1>2, <1>0
  <2> QED BY <2>1, <2>2, <1>2, <1>0
<1> HIDE DEF h
<1> DEFINE d == h \o b
<1>7. d \in Seq(Int) /\ Len(d) = n /\ \A k \in 1 .. n : d[k] = k
  <2>1. d \in Seq(Int) /\ Len(d) = Len(h) + Len(b)
        /\ \A k \in 1 .. Len(h) + Len(b) : d[k] = IF k <= Len(h) THEN h[k] ELSE b[k - Len(h)]
    BY <1>4, <1>6, ConcatProperties
  <2> HIDE DEF d
  <2>2. Len(h) + Len(b) = n
    BY <1>0, <1>4, <1>6
  <2>3. ASSUME NEW k \in 1 .. n PROVE d[k] = k
    <3>1. CASE k <= j
      BY <3>1, <2>1, <2>2, <1>6, <1>0
    <3>2. CASE k > j
      <4>1. d[k] = b[k - j] /\ k - j \in 1 .. n - j
        BY <3>2, <2>1, <2>2, <1>6, <1>0
      <4> QED BY <4>1, <1>1, <1>0
    <3> QED BY <3>1, <3>2, <1>0
  <2> QED BY <2>1, <2>2, <2>3
<1> HIDE DEF d
<1>8. c = d
  BY <1>3, <1>7, SeqEqual
<1> QED BY <1>4, <1>5, <1>8 DEF a, b, c, d, h

\* The numbers of a set in order, and how many there are.
Those(V, n) == Only(Counting(n), V)

LEMMA ThoseTyped ==
  ASSUME NEW n \in Nat, NEW V
  PROVE  /\ Those(V, n) \in Seq(Int) /\ Range(Those(V, n)) = V \cap (1 .. n)
         /\ IsInjective(Those(V, n)) /\ Ascending(Those(V, n))
         /\ Len(Those(V, n)) = Cardinality(V \cap (1 .. n)) /\ IsFiniteSet(V \cap (1 .. n))
<1> DEFINE w == Those(V, n)
           c == Counting(n)
           W == V \cap (1 .. n)
<1>1. /\ c \in Seq(Int) /\ Ascending(c) /\ Range(c) = 1 .. n /\ IsInjective(c)
  BY CountingTyped
<1> HIDE DEF c
<1>2. /\ w \in Seq(Int) /\ Range(w) = V \cap (1 .. n) /\ IsInjective(w) /\ Ascending(w)
  <2>1. /\ Only(c, V) \in Seq(Int) /\ Range(Only(c, V)) = Range(c) \cap V
        /\ IsInjective(c) => IsInjective(Only(c, V))
    BY <1>1, OnlyTyped
  <2>2. Ascending(Only(c, V))
    BY <1>1, OnlyAscending
  <2> QED BY <2>1, <2>2, <1>1 DEF Those, c
<1> HIDE DEF w
<1> DEFINE l == Len(w)
<1>3. l \in Nat /\ DOMAIN w = 1 .. l
  BY <1>2
<1> HIDE DEF l
<1>4. w \in Bijection(1 .. l, W)
  <2>1. w \in [1 .. l -> W]
    <3>1. w = [k \in 1 .. l |-> w[k]]
      BY <1>2, <1>3 DEF l
    <3>2. \A k \in 1 .. l : w[k] \in W
      BY <1>2, <1>3 DEF Range
    <3> QED BY <3>1, <3>2
  <2>2. \A x, y \in 1 .. l : w[x] = w[y] => x = y
    BY <1>2, <1>3 DEF IsInjective
  <2>3. \A x \in W : \E k \in 1 .. l : w[k] = x
    BY <1>2, <1>3 DEF Range
  <2> QED BY <2>1, <2>2, <2>3 DEF Bijection, Injection, Surjection, IsInjective
<1> HIDE DEF W
<1>5. ExistsBijection(1 .. l, W)
  BY <1>4 DEF ExistsBijection
<1>6. Cardinality(W) = l /\ IsFiniteSet(W)
  BY <1>3, <1>5, FS_CountingElements, FS_NatBijection
<1> QED BY <1>2, <1>6 DEF w, l, W

\* Those before j, j itself if it is one, and those beyond it.
LEMMA ThoseSplit ==
  ASSUME NEW n \in Nat, NEW j \in 1 .. n, NEW V
  PROVE  /\ Only(Beyond(j, n), V) \in Seq(Int)
         /\ Range(Only(Beyond(j, n), V)) = V \cap (j + 1 .. n)
         /\ Those(V, n) = (IF j \in V THEN Append(Those(V, j - 1), j) ELSE Those(V, j - 1))
                          \o Only(Beyond(j, n), V)
<1> DEFINE a == Counting(j - 1)
           b == Beyond(j, n)
           c == Counting(n)
           h == Append(a, j)
<1>0. j - 1 \in Nat /\ j \in Int
  OBVIOUS
<1>1. a \in Seq(Int)
  BY <1>0, CountingTyped
<1>2. b \in Seq(Int) /\ Range(b) = j + 1 .. n /\ c = h \o b
  BY CountingSplit
<1> HIDE DEF a, b, c
<1>3. h \in Seq(Int)
  BY <1>0, <1>1, AppendProperties
<1>4. Only(h, V) = IF j \in V THEN Append(Only(a, V), j) ELSE Only(a, V)
  BY <1>0, <1>1, OnlyOne
<1> HIDE DEF h
<1>5. Only(h \o b, V) = Only(h, V) \o Only(b, V)
  BY <1>2, <1>3, OnlyJoined
<1>6. Only(b, V) \in Seq(Int) /\ Range(Only(b, V)) = Range(b) \cap V
  BY <1>2, OnlyTyped
<1> QED BY <1>2, <1>4, <1>5, <1>6 DEF Those, a, b, c

\* A sequence joined of two is cut in two again.
LEMMA JoinedParts ==
  ASSUME NEW X, NEW a \in Seq(X), NEW b \in Seq(X), NEW w, w = a \o b
  PROVE  /\ w \in Seq(X) /\ Len(w) = Len(a) + Len(b)
         /\ \A i \in 1 .. Len(a) : w[i] = a[i]
         /\ \A i \in 1 .. Len(b) : w[Len(a) + i] = b[i]
         /\ SubSeq(w, 1, Len(a)) = a /\ SubSeq(w, Len(a) + 1, Len(w)) = b
<1> DEFINE p == Len(a)
           q == Len(b)
<1>0. p \in Nat /\ q \in Nat
  OBVIOUS
<1>1. w \in Seq(X) /\ Len(w) = p + q
      /\ \A i \in 1 .. p + q : w[i] = IF i <= p THEN a[i] ELSE b[i - p]
  BY ConcatProperties
<1>2. /\ \A i \in 1 .. p : a[i] \in X
      /\ \A i \in 1 .. q : b[i] \in X
  OBVIOUS
<1>3. a \in Seq(X) /\ b \in Seq(X) /\ Len(a) = p /\ Len(b) = q
  OBVIOUS
<1> HIDE DEF p, q
<1>4. \A i \in 1 .. p : w[i] = a[i]
  BY <1>0, <1>1
<1>5. \A i \in 1 .. q : w[p + i] = b[i]
  BY <1>0, <1>1
<1> DEFINE s == SubSeq(w, 1, p)
           t == SubSeq(w, p + 1, Len(w))
<1>6. s \in Seq(X) /\ Len(s) = p /\ \A i \in 1 .. p : s[i] = w[i]
  BY <1>0, <1>1
<1>7. t \in Seq(X) /\ Len(t) = q /\ \A i \in 1 .. q : t[i] = w[p + i]
  BY <1>0, <1>1
<1> HIDE DEF s, t
<1>8. s = a
  BY <1>3, <1>4, <1>6, SeqEqual
<1>9. t = b
  BY <1>3, <1>5, <1>7, SeqEqual
<1> QED BY <1>1, <1>4, <1>5, <1>8, <1>9 DEF s, t, p, q

\* A number more goes before the next of the numbers, or behind all of them.
Above(V, j) == {c \in V : c > j}
OneMore(V, j, n, w) ==
  /\ Above(V, j) = {} => Those(V \cup {j}, n) = Append(w, j)
  /\ \A x \in Above(V, j), k \in 1 .. Len(w) :
       (\A d \in Above(V, j) : x <= d) /\ w[k] = x
         => Those(V \cup {j}, n) = SubSeq(w, 1, k - 1) \o <<j>> \o SubSeq(w, k, Len(w))
LEMMA ThoseMore ==
  ASSUME NEW n \in Nat, NEW V \in SUBSET (1 .. n), NEW j \in 1 .. n, j \notin V
  PROVE  OneMore(V, j, n, Those(V, n))
<1> DEFINE w == Those(V, n)
           a == Those(V, j - 1)
           b == Only(Beyond(j, n), V)
           U == V \cup {j}
           u == Those(U, n)
           p == Len(a)
           aj == Append(a, j)
<1>0. j \in Int /\ j - 1 \in Nat
  OBVIOUS
<1>v. \A c \in V : c \in Int /\ c <= n
  OBVIOUS
<1>1. a \in Seq(Int)
  BY <1>0, ThoseTyped
<1>2. b \in Seq(Int) /\ Range(b) = V \cap (j + 1 .. n) /\ w = a \o b
  BY ThoseSplit
<1>3. Those(U, j - 1) = a
  <2> DEFINE c == Counting(j - 1)
  <2>1. c \in Seq(Int) /\ Range(c) = 1 .. j - 1
    BY <1>0, CountingTyped
  <2>2. Range(c) \cap U = Range(c) \cap V
    BY <2>1
  <2> HIDE DEF c, U
  <2>3. Only(c, U) = Only(c, V)
    BY <2>1, <2>2, OnlySame
  <2> QED BY <2>3 DEF Those, c
<1>4. Only(Beyond(j, n), U) = b
  <2> DEFINE c == Beyond(j, n)
  <2>1. c \in Seq(Int) /\ Range(c) = j + 1 .. n
    BY CountingSplit
  <2>2. Range(c) \cap U = Range(c) \cap V
    BY <2>1
  <2> HIDE DEF c, U
  <2>3. Only(c, U) = Only(c, V)
    BY <2>1, <2>2, OnlySame
  <2> QED BY <2>3 DEF c
<1>5. u = aj \o b
  <2>1. u = (IF j \in U THEN Append(Those(U, j - 1), j) ELSE Those(U, j - 1))
            \o Only(Beyond(j, n), U)
    BY ThoseSplit
  <2> QED BY <2>1, <1>3, <1>4
<1>6. Range(b) = Above(V, j)
  <2>1. \A c \in V : c \in j + 1 .. n <=> c > j
    BY <1>v, <1>0
  <2> QED BY <2>1, <1>2 DEF Above
<1>7. Ascending(w) /\ IsInjective(w)
  BY ThoseTyped
<1> HIDE DEF a, b, u, U, w
<1>8. Above(V, j) = {} => u = Append(w, j)
  <2> SUFFICES ASSUME Above(V, j) = {} PROVE u = Append(w, j)
    OBVIOUS
  <2>1. b = <<>>
    <3>1. DOMAIN b = 1 .. Len(b) /\ Len(b) \in Nat
      BY <1>2
    <3>2. Len(b) = 0
      <4> SUFFICES ASSUME Len(b) # 0 PROVE FALSE
        OBVIOUS
      <4>1. 1 \in DOMAIN b
        BY <3>1
      <4>2. b[1] \in Range(b)
        BY <4>1 DEF Range
      <4> QED BY <4>2, <1>6
    <3> QED BY <3>2, <1>2, EmptySeq
  <2>2. w = a
    BY <1>1, <1>2, <2>1, ConcatEmptySeq
  <2>3. aj \in Seq(Int)
    BY <1>0, <1>1, AppendProperties
  <2> HIDE DEF aj
  <2>4. aj \o <<>> = aj
    BY <2>3, ConcatEmptySeq
  <2> QED BY <1>5, <2>1, <2>2, <2>4 DEF aj
<1>9. ASSUME NEW x \in Above(V, j), NEW k \in 1 .. Len(w),
             \A d \in Above(V, j) : x <= d, w[k] = x
      PROVE  u = SubSeq(w, 1, k - 1) \o <<j>> \o SubSeq(w, k, Len(w))
  <2>p. p \in Nat
    BY <1>1
  <2>1. /\ w \in Seq(Int) /\ Len(w) = p + Len(b)
        /\ \A i \in 1 .. p : w[i] = a[i]
        /\ \A i \in 1 .. Len(b) : w[p + i] = b[i]
        /\ SubSeq(w, 1, p) = a /\ SubSeq(w, p + 1, Len(w)) = b
    BY <1>1, <1>2, JoinedParts
  <2>2. Len(b) \in Nat /\ DOMAIN b = 1 .. Len(b)
    BY <1>2
  <2>3. PICK m \in 1 .. Len(b) : b[m] = x
    BY <2>2, <1>6 DEF Range
  <2>4. k = p + m
    <3>1. p + m \in 1 .. Len(w) /\ w[p + m] = x
      BY <2>p, <2>1, <2>2, <2>3
    <3>2. DOMAIN w = 1 .. Len(w)
      BY <2>1
    <3> QED BY <3>1, <3>2, <1>7, <1>9 DEF IsInjective
  <2>5. b[1] \in Above(V, j)
    <3>1. 1 \in DOMAIN b
      BY <2>2, <2>3
    <3> QED BY <3>1, <1>6 DEF Range
  <2>6. m = 1
    <3> SUFFICES ASSUME m > 1 PROVE FALSE
      BY <2>2
    <3> HIDE DEF p
    <3>1. p + 1 \in 1 .. Len(w) /\ p + m \in 1 .. Len(w) /\ p + 1 < p + m
          /\ w[p + 1] = b[1] /\ w[p + m] = x
      BY <2>p, <2>1, <2>2, <2>3
    <3>2. b[1] < x
      BY <3>1, <1>7 DEF Ascending
    <3>3. x <= b[1] /\ x \in Int /\ b[1] \in Int
      BY <2>5, <1>9, <1>v DEF Above
    <3> QED BY <3>2, <3>3
  <2>7. k - 1 = p /\ k = p + 1
    BY <2>p, <2>4, <2>6
  <2>8. aj = a \o <<j>>
    BY <1>0, <1>1, AppendIsConcat
  <2> HIDE DEF p
  <2> QED BY <1>5, <2>1, <2>7, <2>8
<1> QED BY <1>8, <1>9 DEF u, U, w, OneMore

\* The place of a number is how many are before it.
LEMMA ThosePlaced ==
  ASSUME NEW n \in Nat, NEW V \in SUBSET (1 .. n), NEW j \in V, NEW w, w = Those(V, n)
  PROVE  /\ Cardinality({c \in V : c < j}) + 1 \in 1 .. Len(w)
         /\ w[Cardinality({c \in V : c < j}) + 1] = j
<1> DEFINE a == Those(V, j - 1)
           b == Only(Beyond(j, n), V)
           aj == Append(a, j)
           p == Len(a)
<1>0. j \in 1 .. n /\ j \in Int /\ j - 1 \in Nat
  OBVIOUS
<1>1. a \in Seq(Int) /\ p = Cardinality(V \cap (1 .. j - 1))
  BY <1>0, ThoseTyped
<1>2. V \cap (1 .. j - 1) = {c \in V : c < j}
  <2>1. \A c \in V : c \in 1 .. n
    OBVIOUS
  <2>2. \A c \in V : c \in 1 .. j - 1 <=> c < j
    BY <2>1, <1>0
  <2> QED BY <2>2
<1>3. b \in Seq(Int) /\ w = aj \o b
  BY <1>0, ThoseSplit
<1> HIDE DEF a, b
<1>4. aj \in Seq(Int) /\ Len(aj) = p + 1 /\ aj[p + 1] = j /\ p \in Nat
  BY <1>0, <1>1, AppendProperties
<1> HIDE DEF aj, p
<1>5. /\ w \in Seq(Int) /\ Len(w) = Len(aj) + Len(b)
      /\ \A i \in 1 .. Len(aj) : w[i] = aj[i]
      /\ \A i \in 1 .. Len(b) : w[Len(aj) + i] = b[i]
      /\ SubSeq(w, 1, Len(aj)) = aj /\ SubSeq(w, Len(aj) + 1, Len(w)) = b
  <2> DEFINE Z == Int
  <2>1. aj \in Seq(Z) /\ b \in Seq(Z) /\ w = aj \o b
    BY <1>3, <1>4
  <2> HIDE DEF Z
  <2>2. /\ w \in Seq(Z) /\ Len(w) = Len(aj) + Len(b)
        /\ \A i \in 1 .. Len(aj) : w[i] = aj[i]
        /\ \A i \in 1 .. Len(b) : w[Len(aj) + i] = b[i]
        /\ SubSeq(w, 1, Len(aj)) = aj /\ SubSeq(w, Len(aj) + 1, Len(w)) = b
    BY <2>1, JoinedParts
  <2> QED BY <2>2 DEF Z
<1>6. Len(b) \in Nat
  BY <1>3
<1>7. p + 1 \in 1 .. Len(aj) /\ p + 1 \in 1 .. Len(w)
  BY <1>4, <1>5, <1>6
<1>8. w[p + 1] = j
  BY <1>4, <1>5, <1>7
<1> QED BY <1>1, <1>2, <1>7, <1>8
=============================================================================
