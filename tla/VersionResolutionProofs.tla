----------------------- MODULE VersionResolutionProofs -----------------------
(* Proofs about VersionResolution, for any catalog, plugins and delay.       *)
EXTENDS VersionResolution, WellFoundedInduction, TLAPS

-----------------------------------------------------------------------------
(* Positions and loops.                                                    *)

\* A set of natural numbers has a least one.
LEMMA LeastNatural ==
    ASSUME NEW T, T \subseteq Nat, T # {}
    PROVE  \E m \in T : \A y \in T : m <= y
<1> DEFINE R == {ss \in Nat \X Nat : ss[1] < ss[2]}
<1>1. IsWellFoundedOn(R, Nat)
    BY NatLessThanWellFounded, Zenon DEF OpToRel
<1>2. PICK x \in T : \A y \in T : ~ (<<y, x>> \in R)
    <2> HIDE DEF R
    <2> QED
        BY <1>1, WFMin, Zenon
<1>3. ASSUME NEW y \in T
      PROVE  x <= y
    <2>1. x \in Nat /\ y \in Nat
        OBVIOUS
    <2>2. <<y, x>> \notin R
        BY <1>2, Zenon
    <2>3. y < x => <<y, x>> \in R
        BY <2>1
    <2> HIDE DEF R
    <2> QED
        BY <2>1, <2>2, <2>3
<1> QED
    BY <1>3, Zenon

\* What holds at m and passes from each position to the next holds up to n.
LEMMA RangeInduction ==
    ASSUME NEW m \in Nat, NEW n \in Nat, NEW S,
           m \in S, \A j \in m..n : j # m /\ j - 1 \in S => j \in S
    PROVE  \A j \in m..n : j \in S
<1> DEFINE T == (m..n) \ S
<1> SUFFICES ASSUME T # {} PROVE FALSE
  OBVIOUS
<1>1. T \subseteq Nat
  OBVIOUS
<1>2. PICK x \in T : \A y \in T : x <= y
  <2> HIDE DEF T
  <2> QED
    BY <1>1, LeastNatural, Zenon
<1>3. x # m /\ x \in m..n /\ x - 1 \in m..n
  OBVIOUS
<1>4. x - 1 \notin T
  BY <1>1, <1>2
<1> QED
  BY <1>3, <1>4

\* A loop from m to n that starts with a, and the values f it goes through; every
\* round j turns one member of X into another, as G[j] says.
Rounds(G, m, n, X) == G \in [m..n -> [X -> X]]

GoesThrough(f, m, n, X, a, G) ==
    /\ f \in [m..n -> X]
    /\ f[m] = a
    /\ \A j \in m..n : j # m => f[j] = G[j][f[j - 1]]

\* The values a loop goes through exist.
LEMMA Recursion ==
    ASSUME NEW m \in Nat, NEW n \in Nat, m <= n, NEW X, NEW a \in X,
           NEW G, Rounds(G, m, n, X)
    PROVE  \E f : GoesThrough(f, m, n, X, a, G)
<1> USE DEF Rounds
<1> DEFINE Good(k, f) == f[m] = a /\ \A j \in m..k : j # m => f[j] = G[j][f[j - 1]]
           S == {k \in m..n : \E f \in [m..k -> X] : Good(k, f)}
<1>1. m \in S
  <2> DEFINE f == [j \in m..m |-> a]
  <2>1. f \in [m..m -> X] /\ f[m] = a /\ m \in m..n
    OBVIOUS
  <2>2. Good(m, f)
    BY <2>1
  <2> HIDE DEF f, Good
  <2> QED
    BY <2>1, <2>2
<1>2. ASSUME NEW k \in m..n, k # m, k - 1 \in S PROVE k \in S
  <2>1. PICK f \in [m..(k - 1) -> X] : Good(k - 1, f)
    BY <1>2
  <2> DEFINE g == [j \in m..k |-> IF j = k THEN G[k][f[k - 1]] ELSE f[j]]
  <2>2. k \in Nat /\ k - 1 \in m..(k - 1)
    BY <1>2
  <2>3. G[k][f[k - 1]] \in X
    BY <2>2
  <2>4. g \in [m..k -> X]
    BY <2>2, <2>3
  <2>5. Good(k, g)
    <3>1. g[m] = a
      BY <2>1, <2>2
    <3>2. ASSUME NEW j \in m..k, j # m PROVE g[j] = G[j][g[j - 1]]
      <4>1. CASE j = k
        BY <4>1, <2>2
      <4>2. CASE j # k
        <5>1. j \in m..(k - 1) /\ j - 1 \in m..(k - 1) /\ j - 1 # k
          BY <3>2, <4>2, <2>2
        <5>2. f[j] = G[j][f[j - 1]]
          BY <2>1, <3>2, <5>1
        <5> QED
          BY <5>1, <5>2
      <4> QED
        BY <4>1, <4>2
    <3> QED
      BY <3>1, <3>2
  <2> HIDE DEF g, Good
  <2> QED
    BY <2>4, <2>5
<1>3. n \in S
  <2> HIDE DEF S
  <2>1. \A j \in m..n : j \in S
    BY <1>1, <1>2, RangeInduction
  <2> QED
    BY <2>1
<1> QED
  BY <1>3 DEF GoesThrough

-----------------------------------------------------------------------------
(* The lists.                                                              *)

\* The entries of a list with one more.
LEMMA AppendRange ==
    ASSUME NEW E, NEW t \in Seq(E), NEW e \in E
    PROVE  Append(t, e) \in Seq(E) /\ Range(Append(t, e)) = Range(t) \cup {e}
<1>1. /\ Append(t, e) \in Seq(E)
      /\ Len(Append(t, e)) = Len(t) + 1
      /\ DOMAIN t = 1..Len(t) /\ Len(t) \in Nat
      /\ DOMAIN Append(t, e) = 1..(Len(t) + 1)
  OBVIOUS
<1>2. \A i \in 1..(Len(t) + 1) : Append(t, e)[i] = IF i = Len(t) + 1 THEN e ELSE t[i]
  OBVIOUS
<1> QED
  BY <1>1, <1>2 DEF Range

\* Only the empty list has no entries.
LEMMA EmptyRange ==
    ASSUME NEW E, NEW t \in Seq(E)
    PROVE  t = <<>> <=> Range(t) = {}
<1>1. Len(t) \in Nat /\ DOMAIN t = 1..Len(t) /\ (t = <<>> <=> Len(t) = 0)
  OBVIOUS
<1>2. Len(t) = 0 => Range(t) = {}
  BY <1>1 DEF Range
<1>3. Len(t) # 0 => t[1] \in Range(t)
  BY <1>1 DEF Range
<1> QED
  BY <1>1, <1>2, <1>3

\* What is kept of a list: its entries at the positions kept, and nothing else.
LEMMA SublistRange ==
    ASSUME NEW E, NEW s \in Seq(E), NEW keep \in SUBSET (1..Len(s))
    PROVE  /\ Sublist(s, keep) \in Seq(E)
           /\ Range(Sublist(s, keep)) = {s[k] : k \in keep}
<1> DEFINE n == Len(s)
           Def(f) == f = [k \in 0..n |-> IF k = 0 THEN <<>> ELSE
                                         IF k \in keep THEN Append(f[k - 1], s[k])
                                         ELSE f[k - 1]]
           upto == CHOOSE f : Def(f)
<1>1. n \in Nat /\ \A k \in 1..n : s[k] \in E
  OBVIOUS
<1>2. Sublist(s, keep) = upto[n]
  BY Zenon DEF Sublist
<1> HIDE DEF n
<1>3. \E f : Def(f)
  <2> DEFINE G == [k \in 0..n |-> [t \in Seq(E) |-> IF k \in keep /\ k # 0
                                                    THEN Append(t, s[k]) ELSE t]]
  <2>1. \A k \in 0..n : \A t \in Seq(E) :
            (IF k \in keep /\ k # 0 THEN Append(t, s[k]) ELSE t) \in Seq(E)
    BY <1>1, AppendRange
  <2>2. Rounds(G, 0, n, Seq(E))
    BY <2>1 DEF Rounds
  <2>3. <<>> \in Seq(E) /\ 0 \in Nat /\ 0 <= n
    BY <1>1
  <2>4. PICK f : GoesThrough(f, 0, n, Seq(E), <<>>, G)
    <3> HIDE DEF G
    <3> QED
      BY <1>1, <2>2, <2>3, Recursion
  <2>5. ASSUME NEW k \in 0..n, k # 0
        PROVE  f[k] = IF k \in keep THEN Append(f[k - 1], s[k]) ELSE f[k - 1]
    <3>1. k - 1 \in 0..n /\ f[k - 1] \in Seq(E)
      BY <1>1, <2>4, <2>5 DEF GoesThrough
    <3>2. f[k] = G[k][f[k - 1]]
      BY <2>4, <2>5 DEF GoesThrough
    <3> QED
      BY <2>5, <3>1, <3>2
  <2>6. Def(f)
    <3> HIDE DEF G
    <3> QED
      BY <2>4, <2>5 DEF GoesThrough
  <2> QED
    BY <2>6
<1>4. Def(upto)
  <2> HIDE DEF Def
  <2> QED
    BY <1>3, Zenon
<1> HIDE DEF upto
<1> DEFINE Kept(k) == {s[j] : j \in keep \cap (1..k)}
           S == {k \in 0..n : upto[k] \in Seq(E) /\ Range(upto[k]) = Kept(k)}
<1>5. 0 \in S
  <2>1. upto[0] = <<>>
    BY <1>1, <1>4
  <2>2. Range(<<>>) = {} /\ Kept(0) = {}
    BY DEF Range
  <2>3. <<>> \in Seq(E) /\ 0 \in 0..n
    BY <1>1
  <2> HIDE DEF Kept
  <2> QED
    BY <2>1, <2>2, <2>3, Zenon
<1>6. ASSUME NEW k \in 0..n, k # 0, k - 1 \in S PROVE k \in S
  <2>1. upto[k] = IF k \in keep THEN Append(upto[k - 1], s[k]) ELSE upto[k - 1]
    BY <1>1, <1>4, <1>6
  <2>2. k \in 1..n /\ s[k] \in E
    BY <1>1, <1>6
  <2>3. upto[k - 1] \in Seq(E) /\ Range(upto[k - 1]) = Kept(k - 1)
    BY <1>6
  <2>4. CASE k \in keep
    <3>1. upto[k] = Append(upto[k - 1], s[k])
      BY <2>1, <2>4
    <3>2. keep \cap (1..k) = (keep \cap (1..(k - 1))) \cup {k}
      BY <1>1, <2>2, <2>4
    <3>3. Kept(k) = Kept(k - 1) \cup {s[k]}
      BY <3>2
    <3> HIDE DEF Kept
    <3> DEFINE prev == upto[k - 1]
    <3> HIDE DEF prev
    <3>4. Append(prev, s[k]) \in Seq(E) /\ Range(Append(prev, s[k])) = Range(prev) \cup {s[k]}
      BY <2>2, <2>3, AppendRange DEF prev
    <3> QED
      BY <2>3, <3>1, <3>3, <3>4 DEF prev
  <2>5. CASE k \notin keep
    <3>1. keep \cap (1..k) = keep \cap (1..(k - 1))
      BY <1>1, <2>2, <2>5
    <3>2. Kept(k) = Kept(k - 1)
      BY <3>1
    <3> HIDE DEF Kept
    <3> QED
      BY <2>1, <2>3, <2>5, <3>2
  <2> QED
    BY <2>4, <2>5
<1>7. n \in S
  <2> HIDE DEF S
  <2>1. \A j \in 0..n : j \in S
    BY <1>1, <1>5, <1>6, RangeInduction
  <2> QED
    BY <1>1, <2>1
<1>8. keep \cap (1..n) = keep
  BY DEF n
<1> QED
  BY <1>2, <1>7, <1>8

-----------------------------------------------------------------------------
(* The sort.                                                               *)

\* The lists of length n with entries in E.
Lists(n, E) == [1..n -> E]

\* None of the first i entries has a newer one behind it.
SortedTo(s, i, n, rank) ==
    \A k \in 1..i : \A l \in (k + 1)..n : ~NewerRank(rank[s[l]], rank[s[k]])

\* Entry i has no newer one behind it up to j.
AheadTo(s, i, j, rank) == \A l \in (i + 1)..j : ~NewerRank(rank[s[l]], rank[s[i]])

\* One exchange: entry i is now ahead of entry j too, and nothing before i is disturbed,
\* whether or not the versions of both entries parse.
LEMMA ExchangeEffect ==
    ASSUME NEW n \in Nat, NEW E, NEW rank, \A e \in E : rank[e] \in Int,
           NEW i \in 1..n, NEW j \in 1..n, i < j,
           NEW s \in Lists(n, E), NEW t, t = Exchange(Lists(n, E), i, j, rank)[s]
    PROVE  /\ t \in Lists(n, E)
           /\ Range(t) = Range(s)
           /\ SortedTo(s, i - 1, n, rank) => SortedTo(t, i - 1, n, rank)
           /\ AheadTo(s, i, j - 1, rank) => AheadTo(t, i, j, rank)
<1> USE DEF Lists
<1>1. t = IF NewerRank(rank[s[j]], rank[s[i]])
          THEN [s EXCEPT ![i] = s[j], ![j] = s[i]] ELSE s
  BY DEF Exchange
<1>2. CASE ~NewerRank(rank[s[j]], rank[s[i]])
  <2>1. t = s
    BY <1>1, <1>2
  <2>2. AheadTo(s, i, j - 1, rank) => AheadTo(s, i, j, rank)
    BY <1>2 DEF AheadTo
  <2> QED
    BY <2>1, <2>2
<1>3. CASE NewerRank(rank[s[j]], rank[s[i]])
  <2>1. t \in [1..n -> E]
    BY <1>1, <1>3
  <2>2. t[i] = s[j] /\ t[j] = s[i] /\ \A k \in 1..n : k # i /\ k # j => t[k] = s[k]
    BY <1>1, <1>3
  <2>3. Range(t) = Range(s)
    BY <2>1, <2>2 DEF Range
  <2>4. \A k \in 1..n : rank[s[k]] \in Int /\ rank[t[k]] \in Int
    BY <2>1
  <2>5. ASSUME SortedTo(s, i - 1, n, rank) PROVE SortedTo(t, i - 1, n, rank)
    <3> SUFFICES ASSUME NEW k \in 1..(i - 1), NEW l \in (k + 1)..n
                 PROVE  ~NewerRank(rank[t[l]], rank[t[k]])
      BY DEF SortedTo
    <3>1. /\ k \in 1..n /\ l \in 1..n /\ k # i /\ k # j
          /\ i \in (k + 1)..n /\ j \in (k + 1)..n
      OBVIOUS
    <3>2. t[k] = s[k]
      BY <2>2, <3>1
    <3>3. \A q \in (k + 1)..n : ~NewerRank(rank[s[q]], rank[s[k]])
      BY <2>5 DEF SortedTo
    <3>4. t[l] \in {s[i], s[j], s[l]}
      BY <2>2, <3>1
    <3> QED
      BY <3>1, <3>2, <3>3, <3>4
  <2>6. ASSUME AheadTo(s, i, j - 1, rank) PROVE AheadTo(t, i, j, rank)
    <3> SUFFICES ASSUME NEW l \in (i + 1)..j PROVE ~NewerRank(rank[t[l]], rank[t[i]])
      BY DEF AheadTo
    <3>1. l \in 1..n /\ l # i
      OBVIOUS
    <3>2. CASE l = j
      BY <1>3, <2>2, <2>4, <3>2 DEF NewerRank
    <3>3. CASE l # j
      <4>1. l \in (i + 1)..(j - 1)
        BY <3>3
      <4>2. ~NewerRank(rank[s[l]], rank[s[i]])
        BY <2>6, <4>1 DEF AheadTo
      <4>3. t[l] = s[l] /\ t[i] = s[j]
        BY <2>2, <3>1, <3>3
      <4>4. rank[s[l]] \in Int /\ rank[s[i]] \in Int /\ rank[s[j]] \in Int
        BY <2>4, <3>1
      <4> QED
        BY <1>3, <4>2, <4>3, <4>4 DEF NewerRank
    <3> QED
      BY <3>2, <3>3
  <2> QED
    BY <2>1, <2>3, <2>5, <2>6
<1> QED
  BY <1>2, <1>3

\* One pass of the inner loop puts entry i in its place.
LEMMA PassEffect ==
    ASSUME NEW n \in Nat, NEW E, NEW rank, \A e \in E : rank[e] \in Int,
           NEW i \in 1..n, NEW s \in Lists(n, E),
           NEW t, t = Pass(Lists(n, E), i, n, rank)[s]
    PROVE  /\ t \in Lists(n, E)
           /\ Range(t) = Range(s)
           /\ SortedTo(s, i - 1, n, rank) => SortedTo(t, i, n, rank)
<1> DEFINE L == Lists(n, E)
           G == [j \in i..n |-> Exchange(L, i, j, rank)]
           Def(f) == f = [j \in i..n |-> IF j = i THEN s
                                         ELSE Exchange(L, i, j, rank)[f[j - 1]]]
           upto == CHOOSE f : Def(f)
<1>1. t = upto[n]
  BY Zenon DEF Pass
<1>2. i \in Nat /\ n \in i..n /\ i <= n
  OBVIOUS
<1>3. \E f : Def(f)
  <2>1. Rounds(G, i, n, L)
    <3> SUFFICES ASSUME NEW j \in i..n PROVE Exchange(L, i, j, rank) \in [L -> L]
      BY DEF Rounds
    <3>1. ASSUME NEW u \in L PROVE [u EXCEPT ![i] = u[j], ![j] = u[i]] \in L
      BY DEF Lists
    <3> HIDE DEF L
    <3> QED
      BY <3>1 DEF Exchange
  <2>2. PICK f : GoesThrough(f, i, n, L, s, G)
    <3> HIDE DEF G
    <3>1. s \in L
      OBVIOUS
    <3> HIDE DEF L
    <3> QED
      BY <1>2, <2>1, <3>1, Recursion
  <2> HIDE DEF L
  <2>3. Def(f)
    BY <2>2 DEF GoesThrough
  <2> QED
    BY <2>3
<1>4. Def(upto)
  <2> HIDE DEF Def
  <2> QED
    BY <1>3, Zenon
<1> HIDE DEF upto
<1> DEFINE Good(u, j) == /\ u \in L
                         /\ Range(u) = Range(s)
                         /\ SortedTo(s, i - 1, n, rank) => SortedTo(u, i - 1, n, rank)
                         /\ AheadTo(u, i, j, rank)
           S == {j \in i..n : Good(upto[j], j)}
<1>5. i \in S
  <2>1. upto[i] = s
    BY <1>2, <1>4
  <2>2. AheadTo(s, i, i, rank)
    BY DEF AheadTo
  <2>3. Good(upto[i], i)
    BY <2>1, <2>2
  <2> HIDE DEF Good
  <2> QED
    BY <1>2, <2>3
<1>6. ASSUME NEW j \in i..n, j # i, j - 1 \in S PROVE j \in S
  <2>1. upto[j] = Exchange(L, i, j, rank)[upto[j - 1]]
    BY <1>4, <1>6
  <2>2. j \in 1..n /\ i < j
    BY <1>6
  <2>3. Good(upto[j - 1], j - 1)
    BY <1>6
  <2>4. Good(upto[j], j)
    BY <2>1, <2>2, <2>3, ExchangeEffect
  <2> HIDE DEF Good
  <2> QED
    BY <2>4
<1>7. n \in S
  <2> HIDE DEF S
  <2>1. \A j \in i..n : j \in S
    BY <1>2, <1>5, <1>6, RangeInduction
  <2> QED
    BY <1>2, <2>1
<1>8. Good(t, n)
  <2> HIDE DEF Good
  <2> QED
    BY <1>1, <1>7
<1>9. ASSUME SortedTo(s, i - 1, n, rank) PROVE SortedTo(t, i, n, rank)
  <2> SUFFICES ASSUME NEW k \in 1..i, NEW l \in (k + 1)..n
               PROVE  ~NewerRank(rank[t[l]], rank[t[k]])
    BY DEF SortedTo
  <2>1. CASE k = i
    <3>1. AheadTo(t, i, n, rank)
      BY <1>8
    <3> QED
      BY <2>1, <3>1 DEF AheadTo
  <2>2. CASE k # i
    <3>1. SortedTo(t, i - 1, n, rank) /\ k \in 1..(i - 1)
      BY <1>8, <1>9, <2>2
    <3> QED
      BY <3>1 DEF SortedTo
  <2> QED
    BY <2>1, <2>2
<1> QED
  BY <1>8, <1>9

\* The sort, for every list and whatever entries do not parse: it keeps exactly the
\* entries of the list, and no entry ends up behind an older one.
THEOREM SortEffect ==
    ASSUME NEW D, NEW s \in Seq(D), NEW rank, \A e \in Range(s) : rank[e] \in Int
    PROVE  /\ SortDesc(s, rank) \in [1..Len(s) -> Range(s)]
           /\ Range(SortDesc(s, rank)) = Range(s)
           /\ SortedTo(SortDesc(s, rank), Len(s), Len(s), rank)
<1> DEFINE n == Len(s)
           E == Range(s)
           L == Lists(n, E)
           G == [i \in 0..n |-> IF i = 0 THEN [u \in L |-> u] ELSE Pass(L, i, n, rank)]
           Def(f) == f = [i \in 0..n |-> IF i = 0 THEN s ELSE Pass(L, i, n, rank)[f[i - 1]]]
           after == CHOOSE f : Def(f)
<1>1. SortDesc(s, rank) = after[n]
  BY DEF SortDesc, Lists
<1>2. n \in Nat /\ 0 \in Nat /\ 0 <= n /\ n \in 0..n
  OBVIOUS
<1>3. s \in L
  BY DEF Range, Lists
<1>4. \A e \in E : rank[e] \in Int
  OBVIOUS
<1> HIDE DEF n, E
<1>5. ASSUME NEW i \in 0..n, i # 0 PROVE Pass(L, i, n, rank) \in [L -> L]
  <2>1. i \in 1..n
    BY <1>2, <1>5
  <2>2. ASSUME NEW u \in L PROVE Pass(L, i, n, rank)[u] \in L
    BY <1>2, <1>4, <2>1, PassEffect
  <2>3. Pass(L, i, n, rank) = [u \in L |-> Pass(L, i, n, rank)[u]]
    <3> DEFINE e(u) == LET upto[j \in i..n] == IF j = i THEN u
                                 ELSE Exchange(L, i, j, rank)[upto[j - 1]]
                       IN  upto[n]
    <3> HIDE DEF L
    <3>1. Pass(L, i, n, rank) = [u \in L |-> e(u)]
      BY Zenon DEF Pass
    <3> HIDE DEF e
    <3> QED
      BY <3>1
  <2> HIDE DEF L
  <2> QED
    BY <2>2, <2>3
<1>6. \E f : Def(f)
  <2>1. Rounds(G, 0, n, L)
    <3> HIDE DEF L
    <3> QED
      BY <1>5 DEF Rounds
  <2>2. PICK f : GoesThrough(f, 0, n, L, s, G)
    <3> HIDE DEF G, L
    <3> QED
      BY <1>2, <1>3, <2>1, Recursion
  <2> HIDE DEF L
  <2>3. Def(f)
    BY <2>2 DEF GoesThrough
  <2> QED
    BY <2>3
<1>7. Def(after)
  <2> HIDE DEF Def
  <2> QED
    BY <1>6, Zenon
<1> HIDE DEF after
<1> DEFINE Good(u, i) == u \in L /\ Range(u) = E /\ SortedTo(u, i, n, rank)
           S == {i \in 0..n : Good(after[i], i)}
<1>8. 0 \in S
  <2>1. after[0] = s
    BY <1>2, <1>7
  <2>2. SortedTo(s, 0, n, rank)
    BY DEF SortedTo
  <2>3. Good(after[0], 0)
    BY <1>3, <2>1, <2>2 DEF E
  <2> HIDE DEF Good
  <2> QED
    BY <1>2, <2>3
<1>9. ASSUME NEW i \in 0..n, i # 0, i - 1 \in S PROVE i \in S
  <2>1. after[i] = Pass(L, i, n, rank)[after[i - 1]]
    BY <1>7, <1>9
  <2>2. i \in 1..n
    BY <1>2, <1>9
  <2>3. Good(after[i - 1], i - 1)
    BY <1>9
  <2>4. Good(after[i], i)
    BY <1>2, <1>4, <2>1, <2>2, <2>3, PassEffect
  <2> HIDE DEF Good
  <2> QED
    BY <2>4
<1>10. n \in S
  <2> HIDE DEF S
  <2>1. \A j \in 0..n : j \in S
    BY <1>2, <1>8, <1>9, RangeInduction
  <2> QED
    BY <1>2, <2>1
<1>11. Good(after[n], n)
  <2> HIDE DEF Good
  <2> QED
    BY <1>10
<1> QED
  BY <1>1, <1>11 DEF n, E, Lists

-----------------------------------------------------------------------------
(* The search.                                                             *)

\* Among positions of a list there is a first one.
LEMMA FirstPosition ==
    ASSUME NEW n \in Nat, NEW ok, ok \subseteq 1..n, ok # {}
    PROVE  \E i \in ok : \A k \in 1..(i - 1) : k \notin ok
<1>1. ok \subseteq Nat
  OBVIOUS
<1>2. PICK i \in ok : \A y \in ok : i <= y
  BY <1>1, LeastNatural, Zenon
<1>3. ASSUME NEW k \in 1..(i - 1) PROVE k \notin ok
  BY <1>1, <1>2
<1> QED
  BY <1>3

\* The versions Paper lists, sorted: each of them, and a lower one never first.
LEMMA SortedPaperList ==
    ASSUME api \subseteq Catalog, NEW S, S = {c[1] : c \in api}, NEW s, s = SortedPaper[S]
    PROVE  \E n \in Nat : /\ s \in [1..n -> S]
                          /\ Range(s) = S
                          /\ \A k, l \in 1..n : k < l => Weight[s[l]] <= Weight[s[k]]
<1> DEFINE keep == {i \in DOMAIN PaperVersions : PaperVersions[i] \in S}
           list == Sublist(PaperVersions, keep)
<1>1. S \in SUBSET {c[1] : c \in Catalog}
  OBVIOUS
<1>2. s = SortDesc(list, Weight)
  BY <1>1 DEF SortedPaper
<1>3. PaperVersions \in Seq(Versions) /\ keep \in SUBSET (1..Len(PaperVersions))
  BY ResolutionAssumption
<1>4. list \in Seq(Versions) /\ Range(list) = {PaperVersions[k] : k \in keep}
  <2> HIDE DEF keep
  <2> QED
    BY <1>3, SublistRange
<1>5. {PaperVersions[k] : k \in keep} = S
  BY <1>1, ResolutionAssumption
<1>6. Range(list) = S
  BY <1>4, <1>5
<1> HIDE DEF list
<1>7. \A e \in S : Weight[e] \in Int /\ Weight[e] > 0
  BY <1>1, ResolutionAssumption DEF Versions
<1>8. /\ s \in [1..Len(list) -> S]
      /\ Range(s) = S
      /\ SortedTo(s, Len(list), Len(list), Weight)
  BY <1>2, <1>4, <1>6, <1>7, SortEffect
<1>9. Len(list) \in Nat
  BY <1>4
<1>10. ASSUME NEW k \in 1..Len(list), NEW l \in 1..Len(list), k < l
       PROVE  Weight[s[l]] <= Weight[s[k]]
  <2>1. l \in (k + 1)..Len(list)
    BY <1>9, <1>10
  <2>2. ~NewerRank(Weight[s[l]], Weight[s[k]])
    BY <1>8, <2>1 DEF SortedTo
  <2>3. s[k] \in S /\ s[l] \in S
    BY <1>8
  <2> QED
    BY <1>7, <2>2, <2>3 DEF NewerRank
<1> QED
  BY <1>8, <1>9, <1>10

\* FindBestPaperVersion: what it finds is published and compatible, and no compatible
\* version that is published is higher.
LEMMA BestPaper ==
    ASSUME api \subseteq Catalog, NEW b, b = FindBestPaperVersion
    PROVE  /\ b \in {c[1] : c \in api} \cup {NoVersion}
           /\ b # NoVersion =>
                 \A c \in api : SolverAllows(c[1]) => Weight[c[1]] <= Weight[b]
<1> DEFINE S == {c[1] : c \in api}
           s == SortedPaper[S]
<1>1. PICK n \in Nat : /\ s \in [1..n -> S]
                       /\ Range(s) = S
                       /\ \A k, l \in 1..n : k < l => Weight[s[l]] <= Weight[s[k]]
  <2> HIDE DEF s
  <2> QED
    BY SortedPaperList DEF s
<1>2. b = IF \E i \in DOMAIN s : SolverAllows(s[i])
          THEN s[CHOOSE i \in DOMAIN s :
                    SolverAllows(s[i]) /\ \A k \in 1..(i - 1) : ~SolverAllows(s[k])]
          ELSE NoVersion
  BY Zenon DEF FindBestPaperVersion, FirstAllowed
<1> HIDE DEF s
<1>3. CASE ~ \E i \in DOMAIN s : SolverAllows(s[i])
  BY <1>2, <1>3
<1>4. CASE \E i \in DOMAIN s : SolverAllows(s[i])
  <2> DEFINE ok == {i \in 1..n : SolverAllows(s[i])}
             Is(i) == SolverAllows(s[i]) /\ \A k \in 1..(i - 1) : ~SolverAllows(s[k])
             i == CHOOSE x \in DOMAIN s : Is(x)
  <2>1. DOMAIN s = 1..n
    BY <1>1
  <2>2. ok \subseteq 1..n /\ ok # {}
    BY <1>4, <2>1
  <2>3. PICK x \in ok : \A k \in 1..(x - 1) : k \notin ok
    <3> HIDE DEF ok
    <3> QED
      BY <2>2, FirstPosition
  <2>4. x \in DOMAIN s /\ Is(x)
    BY <2>1, <2>3
  <2>5. i \in DOMAIN s /\ Is(i) /\ b = s[i]
    <3>1. b = s[i]
      BY <1>2, <1>4
    <3> HIDE DEF Is
    <3> QED
      BY <2>4, <3>1
  <2> HIDE DEF i
  <2>6. b \in S
    BY <1>1, <2>1, <2>5
  <2>7. ASSUME NEW c \in api, SolverAllows(c[1]) PROVE Weight[c[1]] <= Weight[b]
    <3>1. PICK k \in 1..n : s[k] = c[1]
      BY <1>1, <2>1 DEF Range
    <3>2. ~(k < i)
      BY <2>1, <2>5, <2>7, <3>1
    <3>3. CASE k = i
      <4>1. Weight[b] \in Nat
        BY <2>6, ResolutionAssumption DEF Versions
      <4> QED
        BY <2>5, <3>1, <3>3, <4>1
    <3>4. CASE k # i
      <4>1. i \in 1..n /\ i < k
        BY <2>1, <2>5, <3>2, <3>4
      <4> QED
        BY <1>1, <2>5, <3>1, <4>1
    <3> QED
      BY <3>3, <3>4
  <2> QED
    BY <2>6, <2>7
<1> QED
  BY <1>3, <1>4

\* The versions of a plugin that are old enough, sorted: each of them, and of two that
\* parse the higher one first.
LEMMA SortedPluginList ==
    ASSUME NEW p \in UNION {Profiles[n] : n \in PluginNames},
           NEW keep, keep = {i \in DOMAIN p.versions : ~p.delay \/ p.versions[i].aged},
           NEW s, s = SortedPlugin[p]
    PROVE  /\ \A e \in Range(p.versions) : e.version \in Int /\ e.version # 0
           /\ DOMAIN p.versions = 1..Len(p.versions)
           /\ Range(Mature(p)) = {p.versions[k] : k \in keep}
           /\ \E n \in Nat :
                 /\ s \in [1..n -> {p.versions[k] : k \in keep}]
                 /\ Range(s) = {p.versions[k] : k \in keep}
                 /\ \A k, l \in 1..n : k < l => ~NewerRank(s[l].version, s[k].version)
<1> DEFINE E == Range(p.versions)
           list == Mature(p)
           rank == [e \in E |-> e.version]
           R == {p.versions[k] : k \in keep}
<1>1. p.versions \in Seq(E) /\ \A e \in E : e.version \in Int /\ e.version # 0
  BY ProfileAssumption
<1>2. DOMAIN p.versions = 1..Len(p.versions) /\ keep \in SUBSET (1..Len(p.versions))
  BY <1>1
<1>3. list \in Seq(E) /\ Range(list) = R
  <2> HIDE DEF E
  <2> QED
    BY <1>1, <1>2, SublistRange DEF Mature
<1>4. R \subseteq E
  BY <1>2 DEF Range
<1>5. s = SortDesc(list, rank)
  BY DEF SortedPlugin
<1> HIDE DEF list, R, E
<1>6. \A e \in R : rank[e] = e.version /\ rank[e] \in Int
  BY <1>1, <1>4
<1> HIDE DEF rank
<1>7. /\ s \in [1..Len(list) -> R]
      /\ Range(s) = R
      /\ SortedTo(s, Len(list), Len(list), rank)
  BY <1>3, <1>5, <1>6, SortEffect
<1>8. Len(list) \in Nat
  BY <1>3
<1>9. ASSUME NEW k \in 1..Len(list), NEW l \in 1..Len(list), k < l
      PROVE  ~NewerRank(s[l].version, s[k].version)
  <2>1. l \in (k + 1)..Len(list)
    BY <1>8, <1>9
  <2>2. ~NewerRank(rank[s[l]], rank[s[k]])
    BY <1>7, <2>1 DEF SortedTo
  <2>3. s[k] \in R /\ s[l] \in R
    BY <1>7
  <2> QED
    BY <1>6, <2>2, <2>3
<1>10. \E n \in Nat : /\ s \in [1..n -> R]
                      /\ Range(s) = R
                      /\ \A k, l \in 1..n : k < l => ~NewerRank(s[l].version, s[k].version)
  BY <1>7, <1>8, <1>9
<1> QED
  BY <1>1, <1>2, <1>3, <1>10 DEF E, R, list

\* resolvePluginVersionForServer for a plugin that follows the latest version: the result
\* is a version that is old enough and suits the server, none if there is none, and no
\* such version ranks above it.
LEMMA BestPlugin ==
    ASSUME NEW p \in UNION {Profiles[n] : n \in PluginNames}, NEW v, p.strategy = "latest",
           NEW Good, Good = {i \in DOMAIN p.versions :
                               /\ ~p.delay \/ p.versions[i].aged
                               /\ PluginVersionCompatible(p, p.versions[i], v)},
           NEW r, r = ResolvePluginVersion(p, v)
    PROVE  /\ r = 0 => Good = {}
           /\ r # 0 => \E i \in Good : p.versions[i].version = r
           /\ r > 0 => \A i \in Good : p.versions[i].version <= r
<1> DEFINE keep == {i \in DOMAIN p.versions : ~p.delay \/ p.versions[i].aged}
           R == {p.versions[k] : k \in keep}
           s == SortedPlugin[p]
           Suits(e) == PluginVersionCompatible(p, e, v)
<1>1. /\ \A e \in Range(p.versions) : e.version \in Int /\ e.version # 0
      /\ DOMAIN p.versions = 1..Len(p.versions)
      /\ Range(Mature(p)) = R
      /\ \E n \in Nat : /\ s \in [1..n -> R]
                        /\ Range(s) = R
                        /\ \A k, l \in 1..n : k < l => ~NewerRank(s[l].version, s[k].version)
  <2> HIDE DEF keep, s
  <2> QED
    BY SortedPluginList DEF keep, s
<1>2. PICK n \in Nat : /\ s \in [1..n -> R]
                       /\ Range(s) = R
                       /\ \A k, l \in 1..n : k < l => ~NewerRank(s[l].version, s[k].version)
  BY <1>1
<1>3. Good = {i \in keep : Suits(p.versions[i])}
  OBVIOUS
<1>4. \A i \in keep : p.versions[i] \in Range(p.versions) /\ p.versions[i] \in R
  BY DEF Range
<1>0. p.versions \in Seq(Range(p.versions)) /\ Mature(p) \in Seq(Range(p.versions))
  <2>1. p.versions \in Seq(Range(p.versions))
    BY ProfileAssumption
  <2>2. keep \in SUBSET (1..Len(p.versions))
    BY <1>1
  <2> HIDE DEF keep
  <2> QED
    BY <2>1, <2>2, SublistRange DEF Mature, keep
<1> HIDE DEF Suits, keep
<1>5. CASE R = {}
  <2>1. Good = {}
    BY <1>3, <1>4, <1>5
  <2>2. Mature(p) = <<>>
    BY <1>0, <1>1, <1>5, EmptyRange
  <2> QED
    BY <2>1, <2>2 DEF ResolvePluginVersion
<1>6. CASE R # {}
  <2>1. Mature(p) # <<>> /\ p.versions # <<>>
    <3>1. Range(Mature(p)) # {} /\ Range(p.versions) # {}
      BY <1>1, <1>4, <1>6
    <3> QED
      BY <1>0, <3>1, EmptyRange
  <2>2. r = FindBestPluginVersion(p, v)
    BY <2>1 DEF ResolvePluginVersion
  <2>3. r = IF \E i \in DOMAIN s : Suits(s[i])
            THEN s[CHOOSE i \in DOMAIN s :
                      Suits(s[i]) /\ \A k \in 1..(i - 1) : ~Suits(s[k])].version
            ELSE 0
    BY <2>1, <2>2, Zenon DEF FindBestPluginVersion, FindCompatiblePluginVersion, Suits
  <2> HIDE DEF s
  <2>4. DOMAIN s = 1..n
    BY <1>2
  <2>5. ASSUME NEW g \in Good PROVE \E k \in 1..n : s[k] = p.versions[g] /\ Suits(s[k])
    BY <1>2, <1>3, <1>4, <2>4 DEF Range
  <2>6. CASE ~ \E i \in DOMAIN s : Suits(s[i])
    <3>1. r = 0
      BY <2>3, <2>6
    <3>2. Good = {}
      BY <2>4, <2>5, <2>6
    <3> QED
      BY <3>1, <3>2
  <2>7. CASE \E i \in DOMAIN s : Suits(s[i])
    <3> DEFINE ok == {i \in 1..n : Suits(s[i])}
               Is(i) == Suits(s[i]) /\ \A k \in 1..(i - 1) : ~Suits(s[k])
               i == CHOOSE x \in DOMAIN s : Is(x)
    <3>1. ok \subseteq 1..n /\ ok # {}
      BY <2>4, <2>7
    <3>2. PICK x \in ok : \A k \in 1..(x - 1) : k \notin ok
      <4> HIDE DEF ok
      <4> QED
        BY <3>1, FirstPosition
    <3>3. x \in DOMAIN s /\ Is(x)
      BY <2>4, <3>2
    <3>4. i \in DOMAIN s /\ Is(i) /\ r = s[i].version
      <4>1. r = s[i].version
        BY <2>3, <2>7
      <4> HIDE DEF Is
      <4> QED
        BY <3>3, <4>1
    <3> HIDE DEF i
    <3>5. s[i] \in R
      BY <1>2, <3>4
    <3>6. PICK h \in keep : p.versions[h] = s[i]
      BY <3>5
    <3>7. h \in Good /\ p.versions[h].version = r
      BY <1>3, <3>4, <3>6
    <3>8. r \in Int /\ r # 0
      BY <1>1, <1>4, <3>6, <3>7
    <3>9. ASSUME r > 0, NEW g \in Good PROVE p.versions[g].version <= r
      <4>1. PICK k \in 1..n : s[k] = p.versions[g] /\ Suits(s[k])
        BY <2>5
      <4>2. p.versions[g].version \in Int
        BY <1>1, <1>3, <1>4
      <4>3. ~(k < i)
        BY <2>4, <3>4, <4>1
      <4>4. CASE k = i
        BY <3>4, <3>8, <4>1, <4>4
      <4>5. CASE k # i
        <5>1. i \in 1..n /\ i < k
          BY <2>4, <3>4, <4>3, <4>5
        <5>2. ~NewerRank(s[k].version, s[i].version)
          BY <1>2, <5>1
        <5> QED
          BY <3>4, <3>8, <3>9, <4>1, <4>2, <5>2 DEF NewerRank
      <4> QED
        BY <4>4, <4>5
    <3> QED
      BY <3>7, <3>8, <3>9
  <2> QED
    BY <2>6, <2>7
<1> QED
  BY <1>5, <1>6

-----------------------------------------------------------------------------
(* The invariant.                                                          *)

\* The fields of a status, and the parts of it the proofs are about.
Fields == {"desired", "current", "blocked", "resolved", "update", "err", "noOffer", "ready"}

IsUpdate(u) == u = [f \in {"version", "build", "age", "pairs"} |-> u[f]]

IsStatus(s) == s = [f \in Fields |-> s[f]] /\ IsUpdate(s.update)

\* An image at least as new as the one on record, if there is one.
NotBelow(i, j) == j = NoImage \/ Weight[i[1]] >= Weight[j[1]]

\* What is on record: images of the registry, and never a current version above the
\* desired one or above the image, however many writes were lost between them.
Recorded ==
    /\ status.desired \in images \cup {NoImage}
    /\ status.current \in images \cup {NoImage}
    /\ sts \in images \cup {NoImage, Legacy}
    /\ status.current # NoImage => status.desired \in images /\ sts \in images
    /\ NotBelow(status.desired, status.current)
    /\ NotBelow(sts, status.current)

ResolutionInv ==
    /\ images \subseteq api /\ api \subseteq Catalog
    /\ spec \in Specs
    /\ IsStatus(status)
    /\ Recorded
    /\ status.update.age \in Nat /\ offered \in 0..UpdateDelay
    /\ status.update.age <= offered

-----------------------------------------------------------------------------

\* What a highest build is good for: it is one of the builds.
LEMMA NewestIn ==
    ASSUME NEW S \in SUBSET {c[2] : c \in Catalog}, S # {}
    PROVE Newest(S) \in S
BY NewestAssumption DEF Newest

\* The newest tag is a tag.
LEMMA LatestTag ==
    ASSUME images \subseteq Catalog
    PROVE FindLatestVersionFromTags \in images \cup {NoImage}
<1> DEFINE tags == {i \in images : Len(i[1]) = 3}
<1>1. CASE tags = {}
  BY <1>1 DEF FindLatestVersionFromTags
<1>2. CASE tags # {}
  <2>1. tags \in SUBSET Catalog
    OBVIOUS
  <2>2. \E i \in tags : \A j \in tags : Above(i, j)
    BY <1>2, <2>1, NewestAssumption
  <2> QED
    BY <1>2, <2>2 DEF FindLatestVersionFromTags
<1> QED
  BY <1>1, <1>2

\* An image that passes both checks exists, is not older than the one on record and can
\* run every matched plugin.
Sound(i) ==
    /\ i \in images
    /\ Verdict[i[1]] = "no"

\* The absent image is in no registry.
LEMMA NoImageNotAnImage ==
    ASSUME images \subseteq Catalog
    PROVE NoImage \notin images /\ Legacy \notin images
BY ResolutionAssumption DEF NoImage, Legacy

\* What "latest" resolves to exists, suits the plugins and is no downgrade.
LEMMA ResolveLatestSound ==
    ASSUME images \subseteq Catalog, NEW fail, ResolveLatestVersion(fail).ok
    PROVE Sound(ResolveLatestVersion(fail).image)
BY LatestTag DEF ResolveLatestVersion, Checked, Resolved, Unresolved, Sound

\* The same for "auto", whose image is checked in the registry.
LEMMA ResolveAutoSound ==
    ASSUME NEW fail, NEW lost, ResolveAutoVersion(fail, lost).ok
    PROVE Sound(ResolveAutoVersion(fail, lost).image)
BY DEF ResolveAutoVersion, Checked, Resolved, Unresolved, Sound, ImageExists

\* The same for "pin": the version is given, the build is searched.
LEMMA ResolveVersionOnlySound ==
    ASSUME images \subseteq api, api \subseteq Catalog, NEW fail, NEW lost,
           ResolveVersionOnlyMode(fail, lost).ok
    PROVE Sound(ResolveVersionOnlyMode(fail, lost).image)
<1> DEFINE found == {b \in Builds[spec.version] : ImageExists(<<spec.version, b>>, lost)}
<1>1. found # {} /\ Verdict[spec.version] = "no"
      /\ ResolveVersionOnlyMode(fail, lost).image = <<spec.version, Newest(found)>>
  BY DEF ResolveVersionOnlyMode, Checked, Resolved, Unresolved
<1>2. found \in SUBSET {c[2] : c \in Catalog}
  <2> SUFFICES ASSUME NEW b \in found PROVE b \in {c[2] : c \in Catalog}
    OBVIOUS
  <2>1. <<spec.version, b>> \in Catalog
    BY DEF ImageExists
  <2> QED
    BY <2>1
<1>3. Newest(found) \in found
  BY <1>1, <1>2, NewestIn
<1> QED
  BY <1>1, <1>3 DEF Sound, ImageExists

\* The same for "build-pin".
LEMMA ResolvePinnedSound ==
    ASSUME NEW lost, ResolvePinnedVersionBuild(lost).ok
    PROVE Sound(ResolvePinnedVersionBuild(lost).image)
<1> DEFINE i == <<spec.version, spec.build>>
<1>1. CASE i \in images /\ i # lost
  BY <1>1 DEF ResolvePinnedVersionBuild, Checked, Resolved, Unresolved, Sound
<1>2. CASE i \notin images /\ i # lost
  BY <1>2 DEF ResolvePinnedVersionBuild, Checked, Resolved, Unresolved, Sound
<1>3. CASE i = lost
  BY <1>3 DEF ResolvePinnedVersionBuild, Checked, Resolved, Unresolved, Sound
<1> QED
  BY <1>1, <1>2, <1>3

\* The same for whichever strategy the server has.
LEMMA ResolveSound ==
    ASSUME ResolutionInv, NEW fail, NEW lost, ResolveDesiredPaperVersion(fail, lost).ok
    PROVE Sound(ResolveDesiredPaperVersion(fail, lost).image)
<1>1. spec.strategy \in {"latest", "auto", "pin", "build-pin"}
  BY ResolutionAssumption DEF ResolutionInv
<1>2. images \subseteq api /\ api \subseteq Catalog /\ images \subseteq Catalog
  BY DEF ResolutionInv
<1> QED
  BY <1>1, <1>2, ResolveLatestSound, ResolveAutoSound, ResolveVersionOnlySound,
     ResolvePinnedSound DEF ResolveDesiredPaperVersion

-----------------------------------------------------------------------------
(* Records of a status.                                                    *)

\* What is offered has the fields of an update.
LEMMA OfferIsUpdate ==
    ASSUME spec \in Specs, NEW current, NEW fail
    PROVE IsUpdate(FindAvailableUpdate(current, fail).update)
<1>1. spec.strategy \in {"latest", "auto", "pin", "build-pin"}
  BY ResolutionAssumption
<1>2. IsUpdate(NoUpdate)
  BY DEF IsUpdate, NoUpdate
<1>3. ASSUME NEW v PROVE IsUpdate(Offer(v).update)
  BY DEF IsUpdate, Offer
<1>4. IsUpdate(FindVersionUpdate(current, fail).update)
  <2> DEFINE best == IF fail = "versions" THEN NoVersion ELSE FindBestPaperVersion
  <2> HIDE DEF best
  <2>1. FindVersionUpdate(current, fail) \in {OfferError, NothingOffered, Offer(best)}
    BY DEF FindVersionUpdate, best
  <2> QED
    BY <2>1, <1>2, <1>3 DEF OfferError, NothingOffered
<1>5. IsUpdate(FindBuildUpdate(current, fail).update)
  <2>1. FindBuildUpdate(current, fail) \in {OfferError, NothingOffered, Offer(spec.version)}
    BY DEF FindBuildUpdate
  <2> QED
    BY <2>1, <1>2, <1>3 DEF OfferError, NothingOffered
<1>6. IsUpdate(NothingOffered.update)
  BY <1>2 DEF NothingOffered
<1> QED
  BY <1>1, <1>4, <1>5, <1>6 DEF FindAvailableUpdate

\* A stamped status has age 0 and is otherwise what it was.
LEMMA Stamped ==
    ASSUME NEW s, IsStatus(s)
    PROVE /\ IsStatus(Stamp(s)) /\ Stamp(s).update.age = 0
          /\ Stamp(s).desired = s.desired /\ Stamp(s).current = s.current
BY DEF IsStatus, IsUpdate, Stamp, Fields

\* A status that is not written has the versions of the one on record.
LEMMA EqualStatus ==
    ASSUME NEW a, NEW b, IsStatus(a), IsStatus(b), ServerStatusEqual(a, b)
    PROVE a.desired = b.desired /\ a.current = b.current
<1> DEFINE p == [a EXCEPT !.update.age = 0]
           q == [b EXCEPT !.update.age = 0]
<1>1. p.desired = a.desired /\ p.current = a.current
  BY DEF IsStatus, Fields
<1>2. q.desired = b.desired /\ q.current = b.current
  BY DEF IsStatus, Fields
<1>3. p = q
  BY DEF ServerStatusEqual
<1> QED
  BY <1>1, <1>2, <1>3

-----------------------------------------------------------------------------
(* The steps.                                                              *)

\* Initially nothing is desired, installed or offered.
LEMMA ResolutionInit == Init => ResolutionInv
<1> SUFFICES ASSUME Init PROVE ResolutionInv
  OBVIOUS
<1>1. IsStatus(NewStatus) /\ NewStatus.update.age = 0
      /\ NewStatus.desired = NoImage /\ NewStatus.current = NoImage
  BY DEF IsStatus, IsUpdate, NewStatus, NoUpdate, Fields
<1> QED
  BY <1>1, ResolutionAssumption DEF Init, ResolutionInv, Recorded, NotBelow

\* An image that passes both checks is not older than the current version on record.
LEMMA SoundNotBelow ==
    ASSUME ResolutionInv, NEW i, Sound(i)
    PROVE  NotBelow(i, status.current) /\ CanRun(i[1]) /\ i[1] \in Versions
<1>1. i[1] \in Versions /\ i \in images
  BY DEF Sound, ResolutionInv, Versions
<1>2. ~CheckDowngrade(i[1]) /\ CheckPluginCompatibility(i[1])
  BY <1>1 DEF Sound, Verdict
<1>3. CanRun(i[1])
  BY <1>2 DEF CheckPluginCompatibility, PluginAllows, CanRun
<1>4. ASSUME status.current # NoImage
      PROVE  Weight[i[1]] >= Weight[status.current[1]]
  <2>1. status.current \in Catalog
    BY <1>4 DEF ResolutionInv, Recorded
  <2>2. status.current[1] \in Versions /\ status.current[1] \notin {NoVersion, Latest}
    BY <2>1, ResolutionAssumption DEF Versions
  <2>3. ~(Weight[i[1]] < Weight[status.current[1]])
    BY <1>2, <2>2 DEF CheckDowngrade
  <2>4. Weight[i[1]] \in Nat /\ Weight[status.current[1]] \in Nat
    BY <1>1, <2>2, ResolutionAssumption
  <2> QED
    BY <2>3, <2>4
<1> QED
  BY <1>1, <1>3, <1>4 DEF NotBelow

\* The image a reconcile works with, if it has one.
Chosen(i) == i \in images /\ (Sound(i) \/ i = status.desired)

\* What becomes of image i in a step: it is written or not, recorded or not, and it is
\* the current one only where it is all three.
Follows(i) ==
    /\ sts' \in {sts, i}
    /\ status'.desired \in {status.desired, i}
    /\ \/ status'.current = status.current
       \/ status'.current = i /\ status'.desired = i /\ sts' = i

Idle ==
    /\ sts' = sts
    /\ status'.desired = status.desired /\ status'.current = status.current

\* What a reconcile does to image, status and offer, whichever of its calls fails.
LEMMA ReconcileEffect ==
    ASSUME ResolutionInv, NEW fail, NEW lost, NEW fault, Reconcile(fail, lost, fault)
    PROVE  /\ Idle \/ \E i : Chosen(i) /\ Follows(i)
           /\ IsStatus(status')
           /\ status'.update.age \in Nat /\ offered' \in 0..UpdateDelay
           /\ status'.update.age <= offered'
<1> DEFINE r == ResolveDesiredPaperVersion(fail, lost)
           image == IF r.ok THEN r.image ELSE status.desired
           new == Record(r, image, fail, fault)
<1>1. /\ sts' = IF image = NoImage \/ fault = "image" THEN sts ELSE image
      /\ IF fault = "status" \/ ServerStatusEqual(new, status) THEN UNCHANGED <<status, offered>>
         ELSE /\ status' = new
              /\ offered' = IF SameOffer(new.update, status.update) THEN offered ELSE 0
  BY DEF Reconcile
<1>2. r.ok => Sound(r.image)
  BY ResolveSound
<1>3. NoImage \notin images /\ 0 \in 0..UpdateDelay /\ UpdateDelay \in Nat
  BY NoImageNotAnImage, ResolutionAssumption DEF ResolutionInv
<1> HIDE DEF r
<1>4. image # NoImage => Chosen(image)
  BY <1>2 DEF Chosen, Sound, ResolutionInv, Recorded
<1>5. CASE image = NoImage
  <2>0. new = [status EXCEPT !.blocked = r.blocked, !.err = TRUE]
    BY <1>5 DEF Record
  <2>1. /\ IsStatus(new) /\ new.desired = status.desired /\ new.current = status.current
        /\ new.update = status.update
    BY <2>0 DEF ResolutionInv, IsStatus, IsUpdate, Fields
  <2>2. sts' = sts
    BY <1>1, <1>5
  <2> HIDE DEF new, image
  <2> QED
    BY <1>1, <2>1, <2>2 DEF ResolutionInv, Idle, SameOffer
<1>6. CASE image # NoImage /\ fault \in {"image", "rest"}
  <2>0. new = [status EXCEPT !.desired = image, !.blocked = r.blocked, !.err = TRUE]
    BY <1>6 DEF Record
  <2>1. /\ IsStatus(new) /\ new.desired = image /\ new.current = status.current
        /\ new.update = status.update
    BY <2>0 DEF ResolutionInv, IsStatus, IsUpdate, Fields
  <2>2. sts' \in {sts, image}
    BY <1>1, <1>6
  <2> HIDE DEF new, image
  <2>3. Follows(image)
    BY <1>1, <2>1, <2>2 DEF Follows
  <2> QED
    BY <1>1, <1>4, <1>6, <2>1, <2>3 DEF ResolutionInv, SameOffer
<1>7. CASE image # NoImage /\ fault \notin {"image", "rest"}
  <2>0. new = Stamp(StatusAfter(r, image, fail))
    BY <1>7 DEF Record
  <2>1. IsStatus(StatusAfter(r, image, fail))
        /\ StatusAfter(r, image, fail).desired = image
        /\ StatusAfter(r, image, fail).current = image
    BY OfferIsUpdate DEF StatusAfter, IsStatus, Fields, ResolutionInv
  <2>2. IsStatus(new) /\ new.desired = image /\ new.current = image /\ new.update.age = 0
    BY <2>0, <2>1, Stamped
  <2>3. sts' = image
    BY <1>1, <1>7
  <2> HIDE DEF new, image
  <2>4. CASE fault = "status" \/ ServerStatusEqual(new, status)
    BY <1>1, <1>4, <1>7, <2>3, <2>4 DEF ResolutionInv, Follows
  <2>5. CASE ~(fault = "status" \/ ServerStatusEqual(new, status))
    <3>1. status' = new /\ offered' \in 0..UpdateDelay
      BY <1>1, <1>3, <2>5 DEF ResolutionInv
    <3>2. Follows(image)
      BY <2>2, <2>3, <3>1 DEF Follows
    <3> QED
      BY <1>3, <1>4, <1>7, <2>2, <3>1, <3>2
  <2> QED
    BY <2>4, <2>5
<1> QED
  BY <1>5, <1>6, <1>7

\* The update controller writes, and records as current, what is on record as desired.
LEMMA ApplyEffect ==
    ASSUME ResolutionInv, ApplyUpdate
    PROVE  /\ Idle \/ \E i : Chosen(i) /\ Follows(i)
           /\ IsStatus(status') /\ status'.update.age = 0
<1>1. IsStatus(status') /\ status'.update.age = 0
      /\ status'.desired = status.desired /\ status'.current = status.desired
  BY DEF ApplyUpdate, ResolutionInv, IsStatus, IsUpdate, Fields, NoUpdate
<1>2. CASE status.desired = status.current
  BY <1>1, <1>2 DEF ApplyUpdate, Idle
<1>3. CASE status.desired # status.current
  <2>1. status.desired \in images
    BY <1>3 DEF ResolutionInv, Recorded
  <2>2. sts' = status.desired
    BY <1>3 DEF ApplyUpdate
  <2>3. Chosen(status.desired) /\ Follows(status.desired)
    BY <1>1, <2>1, <2>2 DEF Chosen, Follows
  <2> QED
    BY <1>1, <2>3
<1> QED
  BY <1>2, <1>3

\* Whatever of a choice is written and recorded, the current version on record is above
\* neither the desired one nor the image.
LEMMA RecordedKept ==
    ASSUME ResolutionInv, images' = images, Idle \/ \E i : Chosen(i) /\ Follows(i)
    PROVE  Recorded'
<1>1. CASE Idle
  BY <1>1 DEF Idle, ResolutionInv, Recorded, NotBelow
<1>2. ASSUME NEW i, Chosen(i), Follows(i) PROVE Recorded'
  <2>1. i \in images /\ NotBelow(i, status.current)
    BY <1>2, SoundNotBelow DEF Chosen, ResolutionInv, Recorded
  <2>2. i[1] \in Versions /\ Weight[i[1]] \in Nat
    BY <2>1, ResolutionAssumption DEF ResolutionInv, Versions
  <2>3. CASE status'.current = status.current
    BY <1>2, <2>1, <2>3 DEF Follows, ResolutionInv, Recorded, NotBelow
  <2>4. CASE status'.current = i /\ status'.desired = i /\ sts' = i
    BY <2>1, <2>2, <2>4 DEF ResolutionInv, Recorded, NotBelow
  <2> QED
    BY <1>2, <2>3, <2>4 DEF Follows
<1> QED
  BY <1>1, <1>2

\* No step lets the record run ahead of the image.
LEMMA ResolutionStep == ResolutionInv /\ [Next]_vars => ResolutionInv'
<1> SUFFICES ASSUME ResolutionInv, [Next]_vars PROVE ResolutionInv'
  OBVIOUS
<1>0. ASSUME NEW fail, NEW lost, NEW fault, Reconcile(fail, lost, fault)
      PROVE  ResolutionInv'
  <2>1. UNCHANGED <<api, images, spec>>
    BY <1>0 DEF Reconcile
  <2>2. Recorded'
    BY <1>0, <2>1, ReconcileEffect, RecordedKept
  <2> QED
    BY <1>0, <2>1, <2>2, ReconcileEffect DEF ResolutionInv
<1>1. CASE CleanReconcile
  BY <1>0, <1>1 DEF CleanReconcile
<1>2. CASE FaultyReconcile
  BY <1>0, <1>2 DEF FaultyReconcile
<1>3. CASE ApplyUpdate
  <2>1. UNCHANGED <<api, images, spec>> /\ offered' = 0
    BY <1>3 DEF ApplyUpdate
  <2>2. Recorded'
    BY <1>3, <2>1, ApplyEffect, RecordedKept
  <2> QED
    BY <1>3, <2>1, <2>2, ApplyEffect, ResolutionAssumption DEF ResolutionInv
<1>4. CASE Tick
  <2> DEFINE Older(t) == IF t < UpdateDelay THEN t + 1 ELSE t
  <2>1. status' = [status EXCEPT !.update.age = Older(status.update.age)]
        /\ offered' = Older(offered)
    BY <1>4 DEF Tick
  <2>2. IsStatus(status') /\ status'.update.age = Older(status.update.age)
        /\ status'.desired = status.desired /\ status'.current = status.current
    BY <2>1 DEF ResolutionInv, IsStatus, IsUpdate, Fields
  <2>3. status'.update.age \in Nat /\ offered' \in 0..UpdateDelay
        /\ status'.update.age <= offered'
    BY <2>1, <2>2, ResolutionAssumption DEF ResolutionInv
  <2>4. Recorded'
    BY <1>4, <2>2 DEF Tick, ResolutionInv, Recorded, NotBelow
  <2> QED
    BY <1>4, <2>2, <2>3, <2>4 DEF Tick, ResolutionInv
<1>5. CASE PublishBuild
  BY <1>5 DEF PublishBuild, ResolutionInv, Recorded, NotBelow
<1>6. CASE PushImage
  BY <1>6 DEF PushImage, ResolutionInv, Recorded, NotBelow
<1>7. CASE Edit
  BY <1>7 DEF Edit, ResolutionInv, Recorded, NotBelow
<1>8. CASE UNCHANGED vars
  BY <1>8 DEF vars, ResolutionInv, Recorded, NotBelow
<1> QED
  BY <1>1, <1>2, <1>3, <1>4, <1>5, <1>6, <1>7, <1>8 DEF Next

\* Whatever write is lost between image and status: what is on record are images of the
\* registry, the current version on record is above neither the desired one nor the
\* image, and an offer is never older in the status than it really is
\* (updateDesiredVersion, ensureStatefulSet, updateServerStatus, Reconcile).
THEOREM ResolutionInvariant == Spec => []ResolutionInv
  BY ResolutionInit, ResolutionStep, PTL DEF Spec

\* The update controller waits for updateDelay, for every delay and every order of
\* status writes (shouldApplyUpdate, serverStatusEqual); the image, which a reconcile
\* writes at once, does not.
THEOREM UpdaterWaitsSafe == Spec => UpdaterWaits
<1>1. ResolutionInv /\ [Next]_vars => [ApplyUpdate => offered >= UpdateDelay]_vars
  BY ResolutionAssumption DEF ResolutionInv, ApplyUpdate, ShouldApplyUpdate
<1> QED
  BY <1>1, ResolutionInvariant, PTL DEF Spec, UpdaterWaits

\* A step that follows a choice is a move of the contract.
LEMMA ChosenMove ==
    ASSUME ResolutionInv, NEW i, Chosen(i), Follows(i)
    PROVE  Contract!Move
<1>1. i \in images
  BY DEF Chosen
<1>2. i = status.desired \/ Contract!Choosable(i)
  <2>1. CASE Sound(i)
    BY <1>1, <2>1, SoundNotBelow DEF NotBelow, Contract!Choosable
  <2> QED
    BY <2>1 DEF Chosen
<1>3. /\ sts' \in {sts, i} /\ status'.desired \in {status.desired, i}
      /\ status'.current = status.current \/ (status'.current = i /\ sts' = i /\ status'.desired = i)
  BY DEF Follows
<1> QED
  BY <1>1, <1>2, <1>3 DEF Contract!Move

\* A step of any kind is idle or follows a choice.
LEMMA StepEffect ==
    ASSUME ResolutionInv, [Next]_vars
    PROVE  Idle \/ \E i : Chosen(i) /\ Follows(i)
<1>1. CASE \E fail, lost, fault : Reconcile(fail, lost, fault)
  BY <1>1, ReconcileEffect
<1>2. CASE ApplyUpdate
  BY <1>2, ApplyEffect
<1>3. CASE Tick
  BY <1>3 DEF Tick, Idle, ResolutionInv, IsStatus, Fields
<1>4. CASE PublishBuild \/ PushImage \/ Edit \/ UNCHANGED vars
  BY <1>4 DEF PublishBuild, PushImage, Edit, vars, Idle
<1> QED
  BY <1>1, <1>2, <1>3, <1>4 DEF Next, CleanReconcile, FaultyReconcile

\* Version resolution implements VersionContract: whatever the strategy, the failing
\* lookups and the lost writes, the image is replaced only by one that exists, suits
\* every matched plugin and is not older than the current version on record, or by the
\* desired one on record; the current version on record never goes back
\* (resolveDesiredPaperVersion, updateDesiredVersion, Reconcile).
THEOREM Refinement == Spec => ImplementsContract
<1>1. Init => Contract!Init
  BY DEF Init, NewStatus, Contract!Init
<1>2. ResolutionInv /\ [Next]_vars
        => [Contract!Move \/ Contract!Keep]_<<sts, status.desired, status.current, images,
                                             {v \in Versions : CanRun(v)}>>
  BY StepEffect, ChosenMove DEF Contract!Keep, Idle
<1> QED
  BY <1>1, <1>2, ResolutionInvariant, PTL DEF Spec, ImplementsContract, Contract!Spec

-----------------------------------------------------------------------------
(* The best version.                                                       *)

\* A reconcile that moves the image elsewhere than to the one on record moves it to what
\* it has just resolved.
LEMMA MoveIsResolved ==
    ASSUME NEW fail, NEW lost, NEW fault, Reconcile(fail, lost, fault),
           sts' \notin {sts, status.desired}
    PROVE  /\ ResolveDesiredPaperVersion(fail, lost).ok
           /\ sts' = ResolveDesiredPaperVersion(fail, lost).image
<1> DEFINE r == ResolveDesiredPaperVersion(fail, lost)
           image == IF r.ok THEN r.image ELSE status.desired
<1>1. sts' = IF image = NoImage \/ fault = "image" THEN sts ELSE image
  BY DEF Reconcile
<1> HIDE DEF r
<1>2. sts' = image
  BY <1>1
<1> QED
  BY <1>2 DEF r

\* What may be on offer where the solver chooses: nothing, or the version it found.
LEMMA AutoOffer ==
    ASSUME NEW current, NEW fail, spec.strategy = "auto",
           NEW o, o = FindAvailableUpdate(current, fail)
    PROVE  \/ o \in {OfferError, NothingOffered}
           \/ FindBestPaperVersion # NoVersion /\ o = Offer(FindBestPaperVersion)
<1>1. o = FindVersionUpdate(current, fail)
  BY DEF FindAvailableUpdate
<1> DEFINE b == FindBestPaperVersion
<1> HIDE DEF b
<1>2. o = LET best == IF fail = "versions" THEN NoVersion ELSE b
          IN  CASE best = NoVersion -> OfferError
                [] best = current[1] -> NothingOffered
                [] OTHER -> IF fail = "build" THEN OfferError ELSE Offer(best)
  BY <1>1, Zenon DEF FindVersionUpdate, b
<1>3. CASE fail = "versions"
  BY <1>2, <1>3
<1>4. CASE fail # "versions"
  BY <1>2, <1>4 DEF b
<1> QED
  BY <1>3, <1>4

\* What "auto" resolves to is the version the solver found.
LEMMA AutoImage ==
    ASSUME NEW fail, NEW lost, spec.strategy = "auto", ResolveAutoVersion(fail, lost).ok
    PROVE  /\ FindBestPaperVersion # NoVersion
           /\ ResolveAutoVersion(fail, lost).image[1] = FindBestPaperVersion
<1> DEFINE o == FindAvailableUpdate(status.current, fail)
<1>1. /\ ~o.err /\ o.update # NoUpdate
      /\ ResolveAutoVersion(fail, lost).image = <<o.update.version, o.update.build>>
  BY DEF ResolveAutoVersion, Checked, Resolved, Unresolved
<1>2. \/ o \in {OfferError, NothingOffered}
      \/ FindBestPaperVersion # NoVersion /\ o = Offer(FindBestPaperVersion)
  <2> HIDE DEF o
  <2> QED
    BY AutoOffer DEF o
<1> HIDE DEF o
<1>3. o \notin {OfferError, NothingOffered}
  BY <1>1 DEF OfferError, NothingOffered
<1>4. \A v : Offer(v).update.version = v
  BY DEF Offer
<1> QED
  BY <1>1, <1>2, <1>3, <1>4

\* Under auto no published version that every matched plugin can run with, by override or
\* by metadata, is higher than the one the server is newly given, unless only an override
\* admits it; for every list of versions in every order and whatever write fails
\* (sortPaperVersionsDesc, FindBestPaperVersion, resolveAutoVersion).
THEOREM AutoIsBest == Spec => AutoTakesTheBest
<1>1. ASSUME ResolutionInv, [Next]_vars, sts' \notin {sts, status.desired},
             spec.strategy = "auto", NEW c \in api, CanRun(c[1]), AlsoListed(c[1])
      PROVE  Weight[c[1]] <= Weight[sts'[1]]
  <2>0. SolverAllows(c[1])
    BY <1>1 DEF SolverAllows, CanRun, AlsoListed
  <2>1. PICK fail, lost, fault : Reconcile(fail, lost, fault)
    BY <1>1 DEF Next, vars, CleanReconcile, FaultyReconcile, ApplyUpdate, Tick, PublishBuild,
       PushImage, Edit
  <2>2. /\ ResolveDesiredPaperVersion(fail, lost).ok
        /\ sts' = ResolveDesiredPaperVersion(fail, lost).image
    BY <1>1, <2>1, MoveIsResolved
  <2>3. ResolveDesiredPaperVersion(fail, lost) = ResolveAutoVersion(fail, lost)
    BY <1>1 DEF ResolveDesiredPaperVersion
  <2>4. FindBestPaperVersion # NoVersion /\ sts'[1] = FindBestPaperVersion
    BY <1>1, <2>2, <2>3, AutoImage
  <2>5. api \subseteq Catalog
    BY <1>1 DEF ResolutionInv
  <2> QED
    BY <2>0, <2>4, <2>5, BestPaper
<1>2. ResolutionInv /\ [Next]_vars =>
        [spec.strategy = "auto" /\ sts' \notin {sts, status.desired} =>
           \A c \in api : CanRun(c[1]) /\ AlsoListed(c[1])
                              => Weight[c[1]] <= Weight[sts'[1]]]_vars
  BY <1>1
<1> QED
  BY <1>2, ResolutionInvariant, PTL DEF Spec, AutoTakesTheBest

-----------------------------------------------------------------------------
(* The types.                                                              *)

Blocks == {"no", "downgrade", "plugin", "image"}

\* The rest of what TypeOK says, with the parts of the status that ResolutionInv leaves
\* open.
TypesInv ==
    /\ Published \subseteq images
    /\ plugins \in PluginStates
    /\ status.blocked \in Blocks
    /\ status.err \in BOOLEAN /\ status.noOffer \in BOOLEAN /\ status.ready \in BOOLEAN
    /\ ready \in BOOLEAN /\ edits \in 0..MaxEdits /\ faults \in 0..MaxFaults

\* A version that is checked is allowed or blocked for one of two reasons.
LEMMA CheckedBlocks ==
    ASSUME NEW v \in Versions, NEW rest, rest.blocked \in Blocks
    PROVE  Checked(v, rest).blocked \in Blocks
<1>1. Verdict[v] \in {"downgrade", "plugin", "no"}
  BY DEF Verdict
<1> HIDE DEF Verdict
<1> QED
  BY <1>1 DEF Checked, Unresolved, Blocks

\* Whatever becomes of a resolution, status.updateBlocked is one of the reasons there are.
LEMMA ResolveBlocks ==
    ASSUME ResolutionInv, status.blocked \in Blocks, NEW fail, NEW lost
    PROVE  ResolveDesiredPaperVersion(fail, lost).blocked \in Blocks
<1>1. spec.strategy \in {"latest", "auto", "pin", "build-pin"} /\ spec.version \in Versions
  BY ResolutionAssumption DEF ResolutionInv, Versions
<1>2. images \subseteq api /\ api \subseteq Catalog /\ images \subseteq Catalog
  BY DEF ResolutionInv
<1>3. /\ \A i : Resolved(i).blocked \in Blocks
      /\ Unresolved(status.blocked).blocked \in Blocks
      /\ Unresolved("image").blocked \in Blocks
  BY DEF Resolved, Unresolved, Blocks
<1>4. CASE spec.strategy = "latest"
  <2> DEFINE i == IF fail = "tags" THEN NoImage ELSE FindLatestVersionFromTags
  <2>1. i \in images \cup {NoImage}
    BY <1>2, LatestTag
  <2>2. ResolveDesiredPaperVersion(fail, lost) =
          IF i = NoImage THEN Unresolved(status.blocked) ELSE Checked(i[1], Resolved(i))
    BY <1>4 DEF ResolveDesiredPaperVersion, ResolveLatestVersion
  <2> HIDE DEF i
  <2>3. i # NoImage => i[1] \in Versions
    BY <1>2, <2>1 DEF Versions
  <2> QED
    BY <1>3, <2>2, <2>3, CheckedBlocks
<1>5. CASE spec.strategy = "auto"
  <2> DEFINE o == FindAvailableUpdate(status.current, fail)
             i == <<o.update.version, o.update.build>>
             rest == IF ImageExists(i, lost) THEN Resolved(i) ELSE Unresolved(status.blocked)
  <2>1. ResolveDesiredPaperVersion(fail, lost) =
          IF o.err \/ o.update = NoUpdate THEN Unresolved(status.blocked)
          ELSE Checked(o.update.version, rest)
    BY <1>5 DEF ResolveDesiredPaperVersion, ResolveAutoVersion
  <2>2. rest.blocked \in Blocks
    BY <1>3
  <2>3. \/ o \in {OfferError, NothingOffered}
        \/ FindBestPaperVersion # NoVersion /\ o = Offer(FindBestPaperVersion)
    <3> HIDE DEF o
    <3> QED
      BY <1>5, AutoOffer DEF o
  <2>4. FindBestPaperVersion \in Versions
    <3>1. FindBestPaperVersion \in {c[1] : c \in api} \cup {NoVersion}
      BY <1>2, BestPaper
    <3> QED
      BY <1>2, <3>1 DEF Versions
  <2> HIDE DEF o, rest
  <2>5. CASE o \in {OfferError, NothingOffered}
    BY <1>3, <2>1, <2>5 DEF OfferError, NothingOffered
  <2>6. CASE o = Offer(FindBestPaperVersion)
    <3>1. o.update.version = FindBestPaperVersion
      BY <2>6 DEF Offer
    <3> QED
      BY <1>3, <2>1, <2>2, <2>4, <3>1, CheckedBlocks
  <2> QED
    BY <2>3, <2>5, <2>6
<1>6. CASE spec.strategy = "pin"
  <2> DEFINE found == {b \in Builds[spec.version] : ImageExists(<<spec.version, b>>, lost)}
             rest == IF fail = "builds" \/ found = {} THEN Unresolved(status.blocked)
                     ELSE Resolved(<<spec.version, Newest(found)>>)
  <2>1. ResolveDesiredPaperVersion(fail, lost) = Checked(spec.version, rest)
    BY <1>6 DEF ResolveDesiredPaperVersion, ResolveVersionOnlyMode
  <2>2. rest.blocked \in Blocks
    BY <1>3
  <2> HIDE DEF rest
  <2> QED
    BY <1>1, <2>1, <2>2, CheckedBlocks
<1>7. CASE spec.strategy = "build-pin"
  <2> DEFINE i == <<spec.version, spec.build>>
             rest == CASE i = lost -> Unresolved(status.blocked)
                       [] i # lost /\ i \in images -> Resolved(i)
                       [] i # lost /\ i \notin images -> Unresolved("image")
  <2>1. ResolveDesiredPaperVersion(fail, lost) = Checked(spec.version, rest)
    BY <1>7 DEF ResolveDesiredPaperVersion, ResolvePinnedVersionBuild
  <2>2. rest.blocked \in Blocks
    BY <1>3
  <2> HIDE DEF rest
  <2> QED
    BY <1>1, <2>1, <2>2, CheckedBlocks
<1> QED
  BY <1>1, <1>4, <1>5, <1>6, <1>7

\* An error is an error or not.
LEMMA OfferErr ==
    ASSUME spec \in Specs, NEW current, NEW fail
    PROVE  FindAvailableUpdate(current, fail).err \in BOOLEAN
<1>1. spec.strategy \in {"latest", "auto", "pin", "build-pin"}
  BY ResolutionAssumption
<1>2. OfferError.err \in BOOLEAN /\ NothingOffered.err \in BOOLEAN
      /\ \A v : Offer(v).err \in BOOLEAN
  BY DEF OfferError, NothingOffered, Offer
<1>3. FindVersionUpdate(current, fail).err \in BOOLEAN
  <2> DEFINE best == IF fail = "versions" THEN NoVersion ELSE FindBestPaperVersion
  <2> HIDE DEF best
  <2>1. FindVersionUpdate(current, fail) \in {OfferError, NothingOffered, Offer(best)}
    BY DEF FindVersionUpdate, best
  <2> QED
    BY <1>2, <2>1
<1>4. FindBuildUpdate(current, fail).err \in BOOLEAN
  <2>1. FindBuildUpdate(current, fail) \in {OfferError, NothingOffered, Offer(spec.version)}
    BY DEF FindBuildUpdate
  <2> QED
    BY <1>2, <2>1
<1> QED
  BY <1>1, <1>2, <1>3, <1>4 DEF FindAvailableUpdate

\* What a reconcile writes into the parts of the status that the types are about, and
\* that it resolves the plugins against the version it has just given the server.
LEMMA ReconcileStatus ==
    ASSUME ResolutionInv, TypesInv, NEW fail, NEW lost, NEW fault, Reconcile(fail, lost, fault)
    PROVE  /\ status'.blocked \in Blocks
           /\ status'.err \in BOOLEAN /\ status'.noOffer \in BOOLEAN
           /\ status'.ready \in BOOLEAN
           /\ \/ status'.resolved = status.resolved
              \/ status'.resolved = [n \in Matched |-> ResolvePluginVersion(plugins[n], sts'[1])]
<1> DEFINE r == ResolveDesiredPaperVersion(fail, lost)
           image == IF r.ok THEN r.image ELSE status.desired
           new == Record(r, image, fail, fault)
<1>1. /\ sts' = IF image = NoImage \/ fault = "image" THEN sts ELSE image
      /\ status' \in {status, new}
  BY DEF Reconcile
<1>2. r.blocked \in Blocks
  BY ResolveBlocks DEF TypesInv
<1> HIDE DEF r
<1>3. CASE image = NoImage \/ fault \in {"image", "rest"}
  <2>0. \/ new = [status EXCEPT !.blocked = r.blocked, !.err = TRUE]
        \/ new = [status EXCEPT !.desired = image, !.blocked = r.blocked, !.err = TRUE]
    BY <1>3 DEF Record
  <2>1. /\ new.blocked = r.blocked /\ new.err = TRUE /\ new.noOffer = status.noOffer
        /\ new.ready = status.ready /\ new.resolved = status.resolved
    BY <2>0 DEF ResolutionInv, IsStatus, Fields
  <2> HIDE DEF new
  <2> QED
    BY <1>1, <1>2, <2>1 DEF TypesInv
<1>4. CASE image # NoImage /\ fault \notin {"image", "rest"}
  <2> DEFINE o == FindAvailableUpdate(image, fail)
             res == [n \in Matched |-> ResolvePluginVersion(plugins[n], image[1])]
             after == StatusAfter(r, image, fail)
  <2>1. o.err \in BOOLEAN /\ IsUpdate(o.update)
    BY OfferErr, OfferIsUpdate DEF ResolutionInv
  <2>2. after = [desired |-> image, current |-> image, blocked |-> r.blocked,
                 resolved |-> res, update |-> o.update, err |-> FALSE, noOffer |-> o.err,
                 ready |-> ready]
    BY DEF StatusAfter
  <2>3. new = Stamp(after)
    BY <1>4 DEF Record
  <2>4. sts' = image
    BY <1>1, <1>4
  <2> HIDE DEF new, image, o, res, after
  <2>5. /\ new.blocked = r.blocked /\ new.err = FALSE /\ new.noOffer = o.err
        /\ new.ready = ready /\ new.resolved = res
    BY <2>2, <2>3 DEF Stamp
  <2> QED
    BY <1>1, <1>2, <2>1, <2>4, <2>5 DEF TypesInv, res
<1> QED
  BY <1>3, <1>4

\* Initially.
LEMMA TypesInit == Init => TypesInv
<1> SUFFICES ASSUME Init PROVE TypesInv
  OBVIOUS
<1>1. /\ NewStatus.blocked \in Blocks /\ NewStatus.err \in BOOLEAN
      /\ NewStatus.noOffer \in BOOLEAN /\ NewStatus.ready \in BOOLEAN
  BY DEF NewStatus, Blocks
<1>2. 0 \in 0..MaxEdits /\ 0 \in 0..MaxFaults
  BY ResolutionAssumption
<1> QED
  BY <1>1, <1>2 DEF Init, TypesInv

\* Every step keeps the types.
LEMMA TypesStep == ResolutionInv /\ TypesInv /\ [Next]_vars => TypesInv'
<1> SUFFICES ASSUME ResolutionInv, TypesInv, [Next]_vars PROVE TypesInv'
  OBVIOUS
<1>0. MaxEdits \in Nat /\ MaxFaults \in Nat
  BY ResolutionAssumption
<1>1. ASSUME NEW fail, NEW lost, NEW fault, Reconcile(fail, lost, fault),
             faults' \in 0..MaxFaults
      PROVE  TypesInv'
  <2>1. UNCHANGED <<images, plugins, ready, edits>>
    BY <1>1 DEF Reconcile
  <2> QED
    BY <1>1, <2>1, ReconcileStatus DEF TypesInv
<1>2. CASE CleanReconcile
  BY <1>1, <1>2 DEF CleanReconcile, TypesInv
<1>3. CASE FaultyReconcile
  <2>1. faults' \in 0..MaxFaults
    BY <1>0, <1>3 DEF FaultyReconcile, TypesInv
  <2> QED
    BY <1>1, <1>3, <2>1 DEF FaultyReconcile
<1>4. CASE ApplyUpdate
  <2>1. /\ status'.blocked = status.blocked /\ status'.err = status.err
        /\ status'.noOffer = status.noOffer /\ status'.ready = status.ready
    BY <1>4 DEF ApplyUpdate, ResolutionInv, IsStatus, Fields
  <2> QED
    BY <1>4, <2>1 DEF ApplyUpdate, TypesInv
<1>5. CASE Tick
  <2>1. /\ status'.blocked = status.blocked /\ status'.err = status.err
        /\ status'.noOffer = status.noOffer /\ status'.ready = status.ready
    BY <1>5 DEF Tick, ResolutionInv, IsStatus, Fields
  <2> QED
    BY <1>5, <2>1 DEF Tick, TypesInv
<1>6. CASE PublishBuild
  BY <1>6 DEF PublishBuild, TypesInv
<1>7. CASE PushImage
  BY <1>7 DEF PushImage, TypesInv
<1>8. CASE Edit
  <2>1. edits' \in 0..MaxEdits
    BY <1>0, <1>8 DEF Edit, TypesInv
  <2>2. plugins' \in PluginStates
    <3>1. CASE plugins' = plugins
      BY <3>1 DEF TypesInv
    <3>2. ASSUME NEW n \in PluginNames, NEW p \in Profiles[n],
                 plugins' = [plugins EXCEPT ![n] = p]
          PROVE  plugins' \in PluginStates
      BY <3>2 DEF TypesInv, PluginStates
    <3> QED
      BY <1>8, <3>1, <3>2 DEF Edit
  <2>3. ready' \in BOOLEAN
    BY <1>8 DEF Edit, TypesInv
  <2> QED
    BY <1>8, <2>1, <2>2, <2>3 DEF Edit, TypesInv
<1>9. CASE UNCHANGED vars
  BY <1>9 DEF vars, TypesInv
<1> QED
  BY <1>2, <1>3, <1>4, <1>5, <1>6, <1>7, <1>8, <1>9 DEF Next

\* The reasons recorded, the flags and the plugins are what they may be, whatever
\* lookup fails (updateServerStatus, reconcileVersion).
THEOREM ResolutionTypesInvariant == Spec => [](ResolutionInv /\ TypesInv)
  BY ResolutionInit, ResolutionStep, TypesInit, TypesStep, PTL DEF Spec

\* Image, desired and current version are ones the registry has, for every catalog,
\* every plugin and every strategy.
THEOREM ResolutionTypesOK == Spec => []TypeOK
<1>1. ResolutionInv /\ TypesInv => TypeOK
  <2> SUFFICES ASSUME ResolutionInv, TypesInv PROVE TypeOK
    OBVIOUS
  <2>1. /\ status.desired \in images \cup {NoImage} /\ status.current \in images \cup {NoImage}
        /\ sts \in images \cup {NoImage, Legacy}
    BY DEF ResolutionInv, Recorded
  <2>2. DOMAIN status \ {"resolved", "update"} =
          {"desired", "current", "blocked", "err", "noOffer", "ready"}
    <3>1. DOMAIN status = Fields
      BY DEF ResolutionInv, IsStatus
    <3> QED
      BY <3>1 DEF Fields
  <2>3. [f \in DOMAIN status \ {"resolved", "update"} |-> status[f]] \in Statuses
    BY <2>1, <2>2 DEF TypesInv, Statuses, Blocks
  <2>4. status.update.age \in 0..UpdateDelay
    BY ResolutionAssumption DEF ResolutionInv
  <2> QED
    BY <2>1, <2>3, <2>4 DEF ResolutionInv, TypesInv, TypeOK
<1> QED
  BY <1>1, ResolutionTypesInvariant, PTL

-----------------------------------------------------------------------------
(* The plugins.                                                            *)

\* A plugin that follows the latest version gets the best of its versions that is old
\* enough and suits the version the server is given, whatever the order of its list and
\* whatever entries do not parse (sortVersionsDesc, FindBestPluginVersion,
\* resolvePluginVersionForServer).
THEOREM PluginsAtTheirBest == Spec => PluginAtItsBest
<1> DEFINE Good(n) == {i \in DOMAIN plugins[n].versions :
                         /\ ~plugins[n].delay \/ plugins[n].versions[i].aged
                         /\ PluginVersionCompatible(plugins[n], plugins[n].versions[i], sts'[1])}
           r(n) == status'.resolved[n]
           Best(n) == /\ r(n) = 0 => Good(n) = {}
                      /\ r(n) # 0 => \E i \in Good(n) : plugins[n].versions[i].version = r(n)
                      /\ r(n) > 0 => \A i \in Good(n) : plugins[n].versions[i].version <= r(n)
<1>1. ASSUME ResolutionInv, TypesInv, [Next]_vars, NEW n \in DOMAIN status'.resolved,
             status'.resolved # status.resolved, plugins[n].strategy = "latest"
      PROVE  Best(n)
  <2>1. PICK fail, lost, fault : Reconcile(fail, lost, fault)
    <3>1. ApplyUpdate \/ Tick => status'.resolved = status.resolved
      BY <1>1 DEF ApplyUpdate, Tick, ResolutionInv, IsStatus, Fields
    <3> QED
      BY <1>1, <3>1 DEF Next, vars, CleanReconcile, FaultyReconcile, PublishBuild, PushImage, Edit
  <2>2. status'.resolved = [m \in Matched |-> ResolvePluginVersion(plugins[m], sts'[1])]
    BY <1>1, <2>1, ReconcileStatus
  <2>3. n \in PluginNames /\ r(n) = ResolvePluginVersion(plugins[n], sts'[1])
    BY <2>2 DEF Matched
  <2>4. plugins[n] \in UNION {Profiles[m] : m \in PluginNames}
    BY <1>1, <2>3 DEF TypesInv, PluginStates
  <2>5. ASSUME NEW p, p = plugins[n], NEW v, v = sts'[1], NEW x, x = r(n),
               NEW G, G = {i \in DOMAIN p.versions :
                             /\ ~p.delay \/ p.versions[i].aged
                             /\ PluginVersionCompatible(p, p.versions[i], v)}
        PROVE  /\ x = 0 => G = {}
               /\ x # 0 => \E i \in G : p.versions[i].version = x
               /\ x > 0 => \A i \in G : p.versions[i].version <= x
    <3>1. /\ p \in UNION {Profiles[m] : m \in PluginNames} /\ p.strategy = "latest"
          /\ x = ResolvePluginVersion(p, v)
      BY <1>1, <2>3, <2>4, <2>5
    <3> HIDE DEF r
    <3> QED
      BY ONLY <2>5, <3>1, BestPlugin
  <2>6. \A p, v, x, G :
           /\ p = plugins[n] /\ v = sts'[1] /\ x = r(n)
           /\ G = {i \in DOMAIN p.versions :
                     /\ ~p.delay \/ p.versions[i].aged
                     /\ PluginVersionCompatible(p, p.versions[i], v)}
           => /\ x = 0 => G = {}
              /\ x # 0 => \E i \in G : p.versions[i].version = x
              /\ x > 0 => \A i \in G : p.versions[i].version <= x
    BY <2>5
  <2> QED
    BY <2>6, Zenon
<1>2. ResolutionInv /\ TypesInv /\ [Next]_vars =>
        [\A n \in DOMAIN status'.resolved :
           status'.resolved # status.resolved /\ plugins[n].strategy = "latest" => Best(n)]_vars
  <2> HIDE DEF Best
  <2> QED
    BY <1>1
<1> QED
  BY <1>2, ResolutionTypesInvariant, PTL DEF Spec, PluginAtItsBest
=============================================================================
