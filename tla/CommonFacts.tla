---------------------------- MODULE CommonFacts ----------------------------
(***************************************************************************)
(* What the proofs keep needing: least and greatest numbers, sequences,    *)
(* stacks, and functions that are defined by recursion.                    *)
(***************************************************************************)
EXTENDS Integers, SequencesExt, FiniteSetsExt, SequenceTheorems, FiniteSetTheorems,
        WellFoundedInduction, TLAPS

-----------------------------------------------------------------------------
(* A set of natural numbers that is not empty has a smallest element. *)
LEMMA Smallest ==
  ASSUME NEW T \in SUBSET Nat, T # {}
  PROVE  \E m \in T : \A n \in T : m <= n
<1> DEFINE R == {ss \in Nat \X Nat : ss[1] < ss[2]}
<1>1. IsWellFoundedOn(R, Nat)
  BY NatLessThanWellFounded, Zenon DEF OpToRel
<1>2. PICK m \in T : \A n \in T : ~ (<<n, m>> \in R)
  <2> HIDE DEF R
  <2>1. T \subseteq Nat
    OBVIOUS
  <2> QED
    BY <1>1, <2>1, WFMin, Zenon
<1>3. \A n \in T : ~ (n < m)
  BY <1>2
<1> QED
  BY <1>3

(* A set of natural numbers with a bound has a greatest one. *)
LEMMA Greatest ==
  ASSUME NEW T \in SUBSET Nat, T # {}, NEW b \in Nat, \A n \in T : n <= b
  PROVE  \E m \in T : \A n \in T : n <= m
<1> DEFINE B == {m \in Nat : \A n \in T : n <= m}
<1>1. PICK m \in B : \A n \in B : m <= n
  BY Smallest
<1>2. CASE m \in T
  BY <1>1, <1>2
<1>3. CASE m \notin T
  <2>1. \A n \in T : n <= m - 1
    BY <1>1, <1>3
  <2>2. m - 1 \in Nat
    <3>1. PICK n \in T : n <= m - 1
      BY <2>1
    <3> QED
      BY <3>1, <1>1
  <2> QED
    BY <1>1, <2>1, <2>2
<1> QED
  BY <1>2, <1>3

(* What Min and Max are. *)
LEMMA MinIs ==
  ASSUME NEW T \in SUBSET Nat, NEW m \in T, \A n \in T : m <= n
  PROVE  Min(T) = m
<1>1. Min(T) \in T /\ \A n \in T : Min(T) <= n
  BY Zenon DEF Min
<1>2. Min(T) \in Nat /\ m \in Nat /\ Min(T) <= m /\ m <= Min(T)
  BY <1>1
<1> QED
  BY <1>2

LEMMA MinFacts ==
  ASSUME NEW T \in SUBSET Nat, T # {}
  PROVE  Min(T) \in T /\ \A n \in T : Min(T) <= n
BY Smallest, MinIs

LEMMA MaxIs ==
  ASSUME NEW T \in SUBSET Nat, NEW m \in T, \A n \in T : n <= m
  PROVE  Max(T) = m
<1>1. Max(T) \in T /\ \A n \in T : Max(T) >= n
  <2>1. \E x \in T : \A y \in T : x >= y
    BY SMT
  <2> QED
    BY <2>1, Zenon DEF Max
<1>2. Max(T) \in Nat /\ m \in Nat /\ Max(T) <= m /\ m <= Max(T)
  BY <1>1
<1> QED
  BY <1>2

LEMMA MaxFacts ==
  ASSUME NEW T \in SUBSET Nat, T # {}, NEW b \in Nat, \A n \in T : n <= b
  PROVE  Max(T) \in T /\ \A n \in T : n <= Max(T)
BY Greatest, MaxIs

(* Going on from k to the greater s[k], until s[k] is k, defines a function. *)
LEMMA GoesOnToEnd ==
  ASSUME NEW N \in Nat \ {0}, NEW s \in [1..N -> 1..N], \A k \in 1..N : k <= s[k]
  PROVE  \E g : g = [k \in 1..N |-> IF s[k] = k THEN k ELSE g[s[k]]]
<1> DEFINE Good(g, m) == /\ g = [k \in m..N |-> g[k]]
                         /\ \A k \in m..N : g[k] = IF s[k] = k THEN k ELSE g[s[k]]
           T == {m \in 1..N : \E g : Good(g, m)}
<1>1. N \in T
  <2> DEFINE g == [k \in N..N |-> N]
  <2>1. s[N] = N /\ N..N = {N}
    OBVIOUS
  <2>2. Good(g, N)
    BY <2>1
  <2> HIDE DEF g
  <2> QED
    BY <2>2
<1>2. ASSUME NEW m \in T, m # 1 PROVE m - 1 \in T
  <2>1. PICK g : Good(g, m)
    OBVIOUS
  <2> DEFINE h == [k \in m - 1..N |->
                     IF k = m - 1 THEN IF s[k] = k THEN k ELSE g[s[k]] ELSE g[k]]
  <2>2. \A k \in m..N : h[k] = g[k]
    OBVIOUS
  <2>3. ASSUME NEW k \in m - 1..N PROVE h[k] = IF s[k] = k THEN k ELSE h[s[k]]
    <3>1. s[k] # k => s[k] \in m..N
      <4>1. k \in 1..N
        BY <1>2
      <4>2. k <= s[k] /\ s[k] \in 1..N
        BY <4>1
      <4> QED
        BY <4>2
    <3>2. s[k] # k => h[s[k]] = g[s[k]]
      BY <2>2, <3>1
    <3>3. CASE k = m - 1
      BY <3>2, <3>3
    <3>4. CASE k # m - 1
      <4>1. k \in m..N
        BY <3>4
      <4>2. h[k] = g[k] /\ g[k] = IF s[k] = k THEN k ELSE g[s[k]]
        BY <2>1, <2>2, <4>1
      <4> HIDE DEF h
      <4> QED
        BY <3>2, <4>2
    <3> QED
      BY <3>3, <3>4
  <2>4. h = [k \in m - 1..N |-> h[k]]
    OBVIOUS
  <2> HIDE DEF h
  <2>5. Good(h, m - 1)
    BY <2>3, <2>4
  <2>6. m - 1 \in 1..N
    BY <1>2
  <2> QED
    BY <2>5, <2>6
<1> HIDE DEF Good
<1>3. PICK m \in T : \A n \in T : m <= n
  <2>1. T \in SUBSET Nat /\ T # {}
    BY <1>1
  <2> QED
    BY <2>1, Smallest
<1>4. m = 1
  <2>1. m # 1 => m - 1 \in T
    BY <1>2
  <2> QED
    BY <1>3, <2>1
<1>5. PICK g : Good(g, 1)
  BY <1>4
<1>6. [k \in 1..N |-> g[k]] = [k \in 1..N |-> IF s[k] = k THEN k ELSE g[s[k]]]
  BY <1>5 DEF Good
<1>7. g = [k \in 1..N |-> IF s[k] = k THEN k ELSE g[s[k]]]
  BY <1>5, <1>6, Zenon DEF Good
<1> QED
  BY <1>7

-----------------------------------------------------------------------------
(* A sequence of anything *)
IsSeq(s) == \E S : s \in Seq(S)

LEMMA SeqFacts ==
  ASSUME NEW s, IsSeq(s)
  PROVE  Len(s) \in Nat /\ DOMAIN s = 1..Len(s)
BY LenProperties DEF IsSeq

LEMMA Appended ==
  ASSUME NEW s, IsSeq(s), NEW e
  PROVE  /\ IsSeq(Append(s, e))
         /\ Len(Append(s, e)) = Len(s) + 1
         /\ DOMAIN Append(s, e) = 1..Len(s) + 1
         /\ \A i \in 1..Len(s) : Append(s, e)[i] = s[i]
         /\ Append(s, e)[Len(s) + 1] = e
<1>1. PICK S : s \in Seq(S)
  BY DEF IsSeq
<1>2. s \in Seq(S \cup {e}) /\ e \in S \cup {e}
  BY <1>1, SeqMonotonic
<1>3. /\ Append(s, e) \in Seq(S \cup {e})
      /\ Len(Append(s, e)) = Len(s) + 1
      /\ \A i \in 1..Len(s) : Append(s, e)[i] = s[i]
      /\ Append(s, e)[Len(s) + 1] = e
  BY <1>2, AppendProperties
<1>4. DOMAIN Append(s, e) = 1..Len(Append(s, e))
  BY <1>3, LenProperties
<1> QED
  BY <1>3, <1>4 DEF IsSeq

(* The sequence without its last element. *)
LEMMA Popped ==
  ASSUME NEW S, NEW s \in Seq(S), s # <<>>
  PROVE  /\ Len(s) \in Nat \ {0}
         /\ SubSeq(s, 1, Len(s) - 1) \in Seq(S)
         /\ Len(SubSeq(s, 1, Len(s) - 1)) = Len(s) - 1
         /\ \A i \in 1..Len(s) - 1 : SubSeq(s, 1, Len(s) - 1)[i] = s[i]
<1> DEFINE n == Len(s)
<1>1. n \in Nat \ {0}
  BY EmptySeq
<1>2. \A i \in 1..n - 1 : s[i] \in S
  BY <1>1, ElementOfSeq
<1> HIDE DEF n
<1>3. /\ SubSeq(s, 1, n - 1) \in Seq(S)
      /\ Len(SubSeq(s, 1, n - 1)) = IF 1 <= n - 1 THEN n - 1 - 1 + 1 ELSE 0
      /\ \A i \in 1..n - 1 - 1 + 1 : SubSeq(s, 1, n - 1)[i] = s[1 + i - 1]
  BY <1>1, <1>2, SubSeqProperties
<1>4. /\ SubSeq(s, 1, n - 1) \in Seq(S)
      /\ Len(SubSeq(s, 1, n - 1)) = n - 1
      /\ \A i \in 1..n - 1 : SubSeq(s, 1, n - 1)[i] = s[i]
  BY <1>1, <1>3
<1> QED
  BY <1>1, <1>4 DEF n

-----------------------------------------------------------------------------
(* A stack whose neighbours are all in L *)
Linked(s, L) == \A i \in 1..Len(s) - 1 : <<s[i], s[i + 1]>> \in L

(* Stacks *)
LEMMA PushFacts ==
  ASSUME NEW S, NEW s \in Seq(S), NEW f \in S
  PROVE  /\ Append(s, f) \in Seq(S) /\ Append(s, f) # <<>>
         /\ Len(Append(s, f)) = Len(s) + 1 /\ Len(s) \in Nat
         /\ Last(Append(s, f)) = f
         /\ \A i \in 1..Len(s) : Append(s, f)[i] = s[i]
<1>1. /\ Append(s, f) \in Seq(S) /\ Append(s, f) # <<>>
      /\ Len(Append(s, f)) = Len(s) + 1 /\ Append(s, f)[Len(s) + 1] = f
      /\ \A i \in 1..Len(s) : Append(s, f)[i] = s[i]
  BY AppendProperties
<1>2. Len(s) \in Nat
  BY LenProperties
<1> QED
  BY <1>1, <1>2 DEF Last

LEMMA FrontFacts ==
  ASSUME NEW S, NEW s \in Seq(S), s # <<>>
  PROVE  /\ Front(s) \in Seq(S) /\ Len(Front(s)) = Len(s) - 1
         /\ Len(s) \in Nat \ {0} /\ Last(s) \in S /\ Last(s) = s[Len(s)]
         /\ \A i \in 1..Len(s) - 1 : Front(s)[i] = s[i]
         /\ \A i \in 1..Len(s) : s[i] \in S
         /\ Front(s) = <<>> <=> Len(s) = 1
<1> DEFINE n == Len(s)
<1>1. n \in Nat \ {0} /\ \A i \in 1..n : s[i] \in S
  BY EmptySeq, LenProperties, ElementOfSeq
<1> HIDE DEF n
<1>2. /\ SubSeq(s, 1, n - 1) \in Seq(S)
      /\ Len(SubSeq(s, 1, n - 1)) = IF 1 <= n - 1 THEN n - 1 - 1 + 1 ELSE 0
      /\ \A i \in 1..n - 1 - 1 + 1 : SubSeq(s, 1, n - 1)[i] = s[1 + i - 1]
  BY <1>1, SubSeqProperties
<1>3. /\ SubSeq(s, 1, n - 1) \in Seq(S) /\ Len(SubSeq(s, 1, n - 1)) = n - 1
      /\ \A i \in 1..n - 1 : SubSeq(s, 1, n - 1)[i] = s[i]
  BY <1>1, <1>2
<1>4. SubSeq(s, 1, n - 1) = <<>> <=> n - 1 = 0
  BY <1>3, EmptySeq
<1> QED
  BY <1>1, <1>3, <1>4 DEF Front, Last, n

LEMMA LinkedFront ==
  ASSUME NEW S, NEW L, NEW s \in Seq(S), s # <<>>, Linked(s, L)
  PROVE  /\ Linked(Front(s), L)
         /\ Front(s) # <<>> => <<Last(Front(s)), Last(s)>> \in L
<1>1. /\ Len(Front(s)) = Len(s) - 1 /\ Len(s) \in Nat \ {0} /\ Front(s) \in Seq(S)
      /\ \A i \in 1..Len(s) - 1 : Front(s)[i] = s[i]
      /\ Front(s) = <<>> <=> Len(s) = 1
      /\ Last(s) = s[Len(s)]
  BY FrontFacts
<1>2. Linked(Front(s), L)
  BY <1>1 DEF Linked
<1>3. ASSUME Front(s) # <<>> PROVE <<Last(Front(s)), Last(s)>> \in L
  <2>1. Last(Front(s)) = Front(s)[Len(s) - 1]
    BY <1>1, <1>3, FrontFacts
  <2>2. Len(s) - 1 \in 1..Len(s) - 1
    BY <1>1, <1>3
  <2> QED
    BY <1>1, <2>1, <2>2 DEF Linked
<1> QED
  BY <1>2, <1>3

LEMMA LinkedPush ==
  ASSUME NEW S, NEW L, NEW s \in Seq(S), NEW f \in S, Linked(s, L), s # <<>> => <<Last(s), f>> \in L
  PROVE  Linked(Append(s, f), L)
<1> SUFFICES ASSUME NEW i \in 1..Len(s) PROVE <<Append(s, f)[i], Append(s, f)[i + 1]>> \in L
  BY PushFacts DEF Linked
<1>1. Len(s) \in Nat /\ Append(s, f)[i] = s[i] /\ Append(s, f)[Len(s) + 1] = f
  BY PushFacts DEF Last
<1>2. CASE i = Len(s)
  <2>1. s # <<>>
    BY <1>1, <1>2, EmptySeq
  <2>2. Last(s) = s[i]
    BY <1>2, <2>1, FrontFacts
  <2> QED
    BY <1>1, <1>2, <2>1, <2>2
<1>3. CASE i < Len(s)
  <2>1. i \in 1..Len(s) - 1 /\ i + 1 \in 1..Len(s)
    BY <1>1, <1>3
  <2>2. Append(s, f)[i + 1] = s[i + 1]
    BY <2>1, PushFacts
  <2> QED
    BY <1>1, <2>1, <2>2 DEF Linked
<1> QED
  BY <1>1, <1>2, <1>3

-----------------------------------------------------------------------------
(* A function over trees: what it yields for a node depends on what it yields for *)
(* the parts of the node, which are not as high.                                  *)
ByParts(S, V, height, parts, step) ==
  /\ height \in [S -> Nat] /\ parts \in [S -> SUBSET S]
  /\ \A e \in S : \A s \in parts[e] : height[s] < height[e]
  /\ step \in [[S -> V] -> [S -> V]]
  /\ \A f, g \in [S -> V] : \A e \in S :
       (\A s \in parts[e] : f[s] = g[s]) => step[f][e] = step[g][e]

LEMMA TreeRecursion ==
  ASSUME NEW S, NEW V, NEW height, NEW parts, NEW step,
         ByParts(S, V, height, parts, step), V # {}
  PROVE  \E f \in [S -> V] : f = step[f]
<1> USE DEF ByParts
<1> PICK v0 \in V : TRUE
  OBVIOUS
<1> DEFINE Good(g, n) == \A e \in S : height[e] < n => g[e] = step[g][e]
           Some(n) == \E g \in [S -> V] : Good(g, n)
<1>1. ASSUME NEW n \in Nat PROVE Some(n)
  <2> DEFINE T == {m \in Nat : ~Some(m)}
  <2>1. SUFFICES ASSUME T # {} PROVE FALSE
    BY <2>1
  <2>2. PICK m \in T : \A k \in T : m <= k
    BY <2>1, Smallest
  <2>3. m # 0
    <3> DEFINE g == [e \in S |-> v0]
    <3>1. g \in [S -> V]
      OBVIOUS
    <3>2. \A e \in S : ~(height[e] < 0)
      OBVIOUS
    <3> HIDE DEF g
    <3>3. Some(0)
      BY <3>1, <3>2
    <3> HIDE DEF Some
    <3> QED
      BY <2>2, <3>3
  <2>4. PICK g \in [S -> V] : Good(g, m - 1)
    <3>1. m - 1 \in Nat /\ m - 1 \notin T
      BY <2>2, <2>3
    <3> HIDE DEF Good
    <3> QED
      BY <3>1
  <2> DEFINE h == step[g]
  <2>5. h \in [S -> V]
    OBVIOUS
  <2>6. ASSUME NEW e \in S, height[e] < m PROVE h[e] = step[h][e]
    <3>1. ASSUME NEW s \in parts[e] PROVE h[s] = g[s]
      <4>1. s \in S /\ height[s] < height[e] /\ height[s] \in Nat /\ height[e] \in Nat
        OBVIOUS
      <4>2. height[s] < m - 1
        BY <2>2, <2>6, <4>1
      <4> QED
        BY <2>4, <4>1, <4>2
    <3> HIDE DEF h
    <3>2. step[h][e] = step[g][e]
      BY <2>5, <3>1
    <3> QED
      BY <3>2 DEF h
  <2>7. Some(m)
    <3> HIDE DEF h
    <3> QED
      BY <2>5, <2>6
  <2> QED
    BY <2>2, <2>7
<1> DEFINE G == [n \in Nat |-> CHOOSE g \in [S -> V] : Good(g, n)]
<1>2. ASSUME NEW n \in Nat PROVE G[n] \in [S -> V] /\ Good(G[n], n)
  <2> HIDE DEF Good
  <2> QED
    BY <1>1
<1> HIDE DEF G
\* two of them agree as far as both reach
<1>3. ASSUME NEW n \in Nat, NEW m \in Nat, NEW e \in S, height[e] < n, height[e] < m
      PROVE  G[n][e] = G[m][e]
  <2> DEFINE T == {height[s] : s \in {s \in S : height[s] < n /\ height[s] < m
                                                  /\ G[n][s] # G[m][s]}}
  <2>1. SUFFICES ASSUME T # {} PROVE FALSE
    BY <1>3, <2>1
  <2>2. T \in SUBSET Nat
    OBVIOUS
  <2>3. PICK k \in T : \A j \in T : k <= j
    <3> HIDE DEF T
    <3> QED
      BY <2>1, <2>2, Smallest
  <2>4. PICK s \in S : /\ height[s] = k /\ height[s] < n /\ height[s] < m
                       /\ G[n][s] # G[m][s]
    BY <2>3
  <2>5. ASSUME NEW r \in parts[s] PROVE G[n][r] = G[m][r]
    <3>1. r \in S /\ height[r] < height[s] /\ height[r] \in Nat /\ height[s] \in Nat
      OBVIOUS
    <3>2. height[r] < n /\ height[r] < m /\ ~(k <= height[r])
      BY <2>4, <3>1
    <3> QED
      BY <2>3, <3>1, <3>2
  <2>6. step[G[n]][s] = step[G[m]][s]
    BY <1>2, <2>5
  <2> QED
    BY <1>2, <2>4, <2>6
<1> DEFINE f == [e \in S |-> G[height[e] + 1][e]]
<1>4. f \in [S -> V]
  BY <1>2
<1>5. ASSUME NEW e \in S PROVE f[e] = step[f][e]
  <2>1. height[e] + 1 \in Nat /\ height[e] < height[e] + 1
    OBVIOUS
  <2> DEFINE g == G[height[e] + 1]
  <2>2. g \in [S -> V] /\ g[e] = step[g][e] /\ f[e] = g[e]
    BY <1>2, <2>1
  <2>3. ASSUME NEW s \in parts[e] PROVE f[s] = g[s]
    <3>1. s \in S /\ height[s] < height[e] /\ height[s] \in Nat /\ height[e] \in Nat
      OBVIOUS
    <3>2. height[s] < height[s] + 1 /\ height[s] < height[e] + 1 /\ height[s] + 1 \in Nat
      BY <3>1
    <3> QED
      BY <1>3, <2>1, <3>1, <3>2
  <2> HIDE DEF f, g
  <2>4. step[f][e] = step[g][e]
    BY <1>4, <2>2, <2>3
  <2> QED
    BY <2>2, <2>4
<1> HIDE DEF f
<1>6. f = step[f]
  <2>1. step[f] \in [S -> V]
    BY <1>4
  <2> QED
    BY <1>4, <1>5, <2>1
<1> QED
  BY <1>4, <1>6
=============================================================================
