--------------------------- MODULE StorageProofs ---------------------------
(***************************************************************************)
(* What the program writes to disk, for every value of the constants.       *)
(*                                                                          *)
(* Migratory, for every list of files, features and chunk sizes: output.me  *)
(* rearranges what the backups read (Rearranged), group by group (Grouped), *)
(* the baseline is made from the same bytes (SameInput), and a size that is *)
(* reported stands for a whole file (WholeFile).                            *)
(*                                                                          *)
(* ContainerStore, for every container and cache size, every mix of chunks  *)
(* and every set of files left by an earlier run: what was inserted is read *)
(* back (ReadBack), the cache mirrors the files (CacheCoherent), pointers   *)
(* in use stay valid (HeldIntact), and files and places of chunks are final *)
(* (WriteOnce).                                                             *)
(***************************************************************************)
EXTENDS Migratory, ContainerStore, SequenceTheorems, WellFoundedInduction, TLAPS

-----------------------------------------------------------------------------
(* Migratory: a least counterexample *)

\* A nonempty set of naturals has a least element: the induction of this module.
LEMMA LeastOf ==
  ASSUME NEW S \in SUBSET Nat, S # {}
  PROVE  \E x \in S : \A y \in S : x <= y
<1>1. PICK x \in S : \A y \in S : <<y, x>> \notin OpToRel(<, Nat)
  BY NatLessThanWellFounded, WFMin
<1>2. ASSUME NEW y \in S PROVE x <= y
  <2>1. ~(y < x)
    BY <1>1, <1>2 DEF OpToRel
  <2> QED BY <2>1
<1> QED BY <1>2

-----------------------------------------------------------------------------
(* Sums *)

\* The partial sums of s.
Sums(f, s) == f[0] = 0 /\ \A k \in 1 .. Len(s) : f[k] = f[k - 1] + s[k]

\* The recursive function that defines FoldLeft exists.
LEMMA FoldExists ==
  ASSUME NEW s, NEW n \in Nat
  PROVE  \E f : f = [S \in SUBSET (1 .. n) |->
                       IF S = {} THEN 0 ELSE f[S \ {Max(S)}] + s[Max(S)]]
<1> DEFINE Body(f, m) == [S \in SUBSET (1 .. m) |->
                            IF S = {} THEN 0 ELSE f[S \ {Max(S)}] + s[Max(S)]]
           Without == {m \in Nat : ~ \E f : f = Body(f, m)}
<1> SUFFICES ASSUME Without # {} PROVE FALSE
  <2>1. n \notin Without
    OBVIOUS
  <2> QED BY <2>1
<1>1. PICK m \in Without : \A j \in Without : m <= j
  <2>1. Without \in SUBSET Nat
    OBVIOUS
  <2> HIDE DEF Without
  <2> QED BY <2>1, LeastOf
<1>2. m \in Nat /\ ~ \E f : f = Body(f, m)
  OBVIOUS
<1>3. m # 0
  <2> SUFFICES ASSUME m = 0 PROVE FALSE
    OBVIOUS
  <2> DEFINE g == [S \in SUBSET (1 .. 0) |-> 0]
  <2>1. 1 .. 0 = {}
    OBVIOUS
  <2>2. \A S \in SUBSET (1 .. 0) : S = {}
    BY <2>1
  <2>3. Body(g, 0) = [S \in SUBSET (1 .. 0) |-> 0]
    BY <2>2
  <2>4. g = Body(g, 0)
    BY <2>3
  <2> QED BY <1>2, <2>4
<1>4. m - 1 \in Nat /\ m - 1 \notin Without
  <2>1. m - 1 \in Nat /\ ~(m <= m - 1)
    BY <1>2, <1>3
  <2> HIDE DEF Without
  <2> QED BY <1>1, <2>1
<1>5. PICK g : g = Body(g, m - 1)
  BY <1>4
<1>6. \A S \in SUBSET (1 .. (m - 1)) : g[S] = IF S = {} THEN 0 ELSE g[S \ {Max(S)}] + s[Max(S)]
  BY <1>5
<1> DEFINE f == [S \in SUBSET (1 .. m) |-> IF m \in S THEN g[S \ {m}] + s[m] ELSE g[S]]
<1>7. ASSUME NEW S \in SUBSET (1 .. m)
      PROVE  f[S] = IF S = {} THEN 0 ELSE f[S \ {Max(S)}] + s[Max(S)]
  <2>1. CASE m \in S
    <3>1. Max(S) = m
      <4>1. m \in S /\ \A y \in S : m >= y
        BY <1>2, <2>1
      <4>2. \A x \in S : (\A y \in S : x >= y) => x = m
        BY <1>2, <2>1
      <4> QED BY <4>1, <4>2 DEF Max
    <3>2. m \notin S \ {m} /\ S \ {m} \in SUBSET (1 .. m)
      OBVIOUS
    <3>3. f[S \ {m}] = g[S \ {m}]
      BY <3>2
    <3> QED BY <2>1, <3>1, <3>3
  <2>2. CASE m \notin S
    <3> DEFINE R == S \ {Max(S)}
    <3>1. S \in SUBSET (1 .. (m - 1)) /\ R \in SUBSET (1 .. m) /\ m \notin R
      <4>1. \A x \in 1 .. m : x # m => x \in 1 .. (m - 1)
        BY <1>2
      <4> QED BY <2>2, <4>1
    <3>2. f[R] = g[R] /\ f[S] = g[S]
      BY <2>2, <3>1
    <3> QED BY <1>6, <3>1, <3>2
  <2> QED BY <2>1, <2>2
<1>8. f = [S \in SUBSET (1 .. m) |-> f[S]]
  OBVIOUS
<1>9. f = Body(f, m)
  <2> HIDE DEF f
  <2> QED BY <1>7, <1>8
<1> QED BY <1>2, <1>9

\* The total of a sequence is the last of its partial sums.
LEMMA TotalSums ==
  ASSUME NEW s \in Seq(Nat)
  PROVE  \E f : Sums(f, s) /\ Total(s) = f[Len(s)]
<1> DEFINE n == Len(s)
           Body(f) == [S \in SUBSET (1 .. n) |-> IF S = {} THEN 0 ELSE f[S \ {Max(S)}] + s[Max(S)]]
           iter == CHOOSE f : f = Body(f)
<1>1. n \in Nat /\ DOMAIN s = 1 .. n
  OBVIOUS
<1>2. Total(s) = iter[1 .. n]
  BY <1>1 DEF Total, FoldLeft, MapThenFoldSet, Add
<1>3. iter = Body(iter)
  <2>1. \E f : f = Body(f)
    BY <1>1, FoldExists
  <2> HIDE DEF Body
  <2> QED BY <2>1
<1> HIDE DEF iter
<1> DEFINE f == [k \in 0 .. n |-> iter[1 .. k]]
<1> HIDE DEF n
<1>4. \A S \in SUBSET (1 .. n) : iter[S] = IF S = {} THEN 0 ELSE iter[S \ {Max(S)}] + s[Max(S)]
  BY <1>3
<1>5. f[0] = 0
  <2>1. 1 .. 0 = {} /\ 0 \in 0 .. n
    BY <1>1
  <2>2. iter[{}] = 0
    BY <1>4
  <2> QED BY <2>1, <2>2
<1>6. ASSUME NEW k \in 1 .. n
      PROVE  f[k] = f[k - 1] + s[k]
  <2>1. /\ 1 .. k \in SUBSET (1 .. n) /\ 1 .. k # {} /\ (1 .. k) \ {k} = 1 .. (k - 1)
        /\ k - 1 \in 0 .. n /\ k \in 0 .. n
    <3>1. \A x \in 1 .. k : x \in 1 .. n /\ (x # k => x \in 1 .. (k - 1))
      BY <1>1
    <3>2. \A x \in 1 .. (k - 1) : x \in 1 .. k /\ x # k
      BY <1>1
    <3>3. k \in 1 .. k /\ k - 1 \in 0 .. n /\ k \in 0 .. n
      BY <1>1
    <3> QED BY <3>1, <3>2, <3>3, Zenon
  <2>2. Max(1 .. k) = k
    <3>1. k \in 1 .. k /\ \A y \in 1 .. k : k >= y
      BY <1>1
    <3>2. \A x \in 1 .. k : (\A y \in 1 .. k : x >= y) => x = k
      BY <1>1
    <3> QED BY <3>1, <3>2 DEF Max
  <2>3. iter[1 .. k] = iter[1 .. (k - 1)] + s[k]
    BY <1>4, <2>1, <2>2
  <2> QED BY <2>1, <2>3
<1>7. Total(s) = f[n]
  BY <1>1, <1>2
<1> HIDE DEF f
<1>8. Sums(f, s)
  BY <1>5, <1>6 DEF Sums, n
<1> QED BY <1>7, <1>8 DEF n

\* Partial sums are sums, and those of sequences that begin alike are alike.
LEMMA SumsType ==
  ASSUME NEW s \in Seq(Nat), NEW f, Sums(f, s)
  PROVE  \A k \in 0 .. Len(s) : f[k] \in Nat
<1> DEFINE n == Len(s)
           Bad == {k \in 0 .. n : f[k] \notin Nat}
<1>1. n \in Nat /\ f[0] = 0 /\ \A k \in 1 .. n : f[k] = f[k - 1] + s[k] /\ s[k] \in Nat
  BY DEF Sums
<1> HIDE DEF n
<1> SUFFICES ASSUME Bad # {} PROVE FALSE
  BY DEF n
<1>2. PICK k \in Bad : \A j \in Bad : k <= j
  <2>1. Bad \in SUBSET Nat
    BY <1>1
  <2> HIDE DEF Bad
  <2> QED BY <2>1, LeastOf
<1>3. k \in 1 .. n /\ k - 1 \in 0 .. n /\ ~(k <= k - 1)
  BY <1>1
<1>4. f[k - 1] \in Nat
  BY <1>2, <1>3
<1>5. f[k] = f[k - 1] + s[k] /\ s[k] \in Nat
  BY <1>1, <1>3
<1>6. f[k] \in Nat
  <2>1. PICK a \in Nat : a = f[k - 1]
    BY <1>4
  <2>2. PICK b \in Nat : b = s[k]
    BY <1>5
  <2> QED BY ONLY <1>5, <2>1, <2>2, a \in Nat, b \in Nat
<1> QED BY <1>6

\* A total of naturals is a natural.
LEMMA TotalType ==
  ASSUME NEW s \in Seq(Nat)
  PROVE  Total(s) \in Nat
<1>1. PICK f : Sums(f, s) /\ Total(s) = f[Len(s)]
  BY TotalSums
<1>2. Len(s) \in 0 .. Len(s)
  <2>1. Len(s) \in Nat
    OBVIOUS
  <2> QED BY <2>1
<1> QED BY <1>1, <1>2, SumsType

\* In its first m places t differs from s, if at all, by d in place i; the
\* partial sums then differ from there on.
Grown(s, t, m, i, d) == \A k \in 1 .. m : t[k] = IF k = i THEN s[k] + d ELSE s[k]
\* Partial sums that are larger by d from item i on.
GrownSums(f, g, m, i, d) == \A k \in 0 .. m : g[k] = f[k] + (IF i \in 1 .. k THEN d ELSE 0)

\* Where one item of t is larger by d than that of s and the others are equal,
\* the partial sums of t are larger by d from that item on.
LEMMA SumsDiffer ==
  ASSUME NEW s \in Seq(Nat), NEW t \in Seq(Nat), NEW f, NEW g, Sums(f, s), Sums(g, t),
         NEW m \in Nat, m <= Len(s), m <= Len(t), NEW i \in Nat, NEW d \in Nat,
         Grown(s, t, m, i, d)
  PROVE  GrownSums(f, g, m, i, d)
<1> DEFINE Bad == {k \in 0 .. m : g[k] # f[k] + (IF i \in 1 .. k THEN d ELSE 0)}
<1>1. Len(s) \in Nat /\ Len(t) \in Nat
  OBVIOUS
<1>2. f[0] = 0 /\ g[0] = 0
  BY DEF Sums
<1>3. \A k \in 1 .. m : f[k] = f[k - 1] + s[k] /\ g[k] = g[k - 1] + t[k] /\ s[k] \in Nat
  <2>1. \A k \in 1 .. m : k \in 1 .. Len(s) /\ k \in 1 .. Len(t)
    BY <1>1
  <2>2. /\ \A k \in 1 .. Len(s) : f[k] = f[k - 1] + s[k]
        /\ \A k \in 1 .. Len(t) : g[k] = g[k - 1] + t[k]
    BY DEF Sums
  <2>3. \A k \in 1 .. Len(s) : s[k] \in Nat
    OBVIOUS
  <2> QED BY ONLY <2>1, <2>2, <2>3
<1>4. \A k \in 0 .. m : f[k] \in Nat
  <2>1. \A k \in 0 .. m : k \in 0 .. Len(s)
    BY <1>1
  <2> QED BY <2>1, SumsType
<1> SUFFICES ASSUME Bad # {} PROVE FALSE
  BY DEF GrownSums
<1>5. PICK k \in Bad : \A j \in Bad : k <= j
  <2>1. Bad \in SUBSET Nat
    OBVIOUS
  <2> HIDE DEF Bad
  <2> QED BY <2>1, LeastOf
<1>6. k \in 1 .. m /\ k - 1 \in 0 .. m /\ ~(k <= k - 1)
  <2>1. k # 0
    BY <1>2
  <2> QED BY <2>1
<1>7. g[k - 1] = f[k - 1] + (IF i \in 1 .. (k - 1) THEN d ELSE 0)
  BY <1>5, <1>6
<1>8. f[k - 1] \in Nat /\ s[k] \in Nat /\ f[k] = f[k - 1] + s[k] /\ g[k] = g[k - 1] + t[k]
  BY <1>3, <1>4, <1>6
<1>12. t[k] = IF k = i THEN s[k] + d ELSE s[k]
  BY <1>6 DEF Grown
<1>9. i \in 1 .. k <=> (i \in 1 .. (k - 1) \/ k = i)
  BY <1>6
<1>10. ~(i \in 1 .. (k - 1) /\ k = i)
  BY <1>6
<1>11. g[k] = f[k] + (IF i \in 1 .. k THEN d ELSE 0)
  <2>1. CASE k = i
    <3>1. g[k - 1] = f[k - 1] + 0 /\ t[k] = s[k] + d
      BY <1>7, <1>10, <1>12, <2>1
    <3>2. i \in 1 .. k
      BY <1>9, <2>1
    <3>3. g[k] = f[k] + d
      <4>1. PICK a \in Nat : a = f[k - 1]
        BY <1>8
      <4>2. PICK b \in Nat : b = s[k]
        BY <1>8
      <4>3. f[k] = a + b /\ g[k - 1] = a /\ t[k] = b + d
        BY ONLY <1>8, <3>1, <4>1, <4>2, a \in Nat
      <4>4. g[k] = a + (b + d)
        BY ONLY <1>8, <4>3
      <4> QED BY ONLY <4>3, <4>4, a \in Nat, b \in Nat, d \in Nat
    <3> QED BY <3>2, <3>3
  <2>2. CASE k # i
    <3>1. t[k] = s[k] /\ (i \in 1 .. k <=> i \in 1 .. (k - 1))
      BY <1>9, <1>12, <2>2
    <3>2. CASE i \in 1 .. k
      <4>1. g[k - 1] = f[k - 1] + d
        BY <1>7, <3>1, <3>2
      <4>2. g[k] = f[k] + d
        <5>1. PICK a \in Nat : a = f[k - 1]
          BY <1>8
        <5>2. PICK b \in Nat : b = s[k]
          BY <1>8
        <5>3. f[k] = a + b /\ g[k] = (a + d) + b
          BY ONLY <1>8, <3>1, <4>1, <5>1, <5>2
        <5> QED BY ONLY <5>3, a \in Nat, b \in Nat, d \in Nat
      <4> QED BY <3>2, <4>2
    <3>3. CASE i \notin 1 .. k
      <4>1. g[k - 1] = f[k - 1] + 0
        BY <1>7, <3>1, <3>3
      <4>2. PICK a \in Nat : a = f[k - 1]
        BY <1>8
      <4>3. PICK b \in Nat : b = s[k]
        BY <1>8
      <4>4. f[k] = a + b /\ g[k] = (a + 0) + b
        BY ONLY <1>8, <3>1, <4>1, <4>2, <4>3
      <4>5. g[k] = f[k] + 0
        BY ONLY <4>4, a \in Nat, b \in Nat
      <4> QED BY <3>3, <4>5
    <3> QED BY <3>2, <3>3
  <2> QED BY <2>1, <2>2
<1> QED BY <1>11

\* One more number.
LEMMA TotalAppend ==
  ASSUME NEW s \in Seq(Nat), NEW x \in Nat
  PROVE  Total(Append(s, x)) = Total(s) + x
<1> DEFINE t == Append(s, x)
           n == Len(s)
<1>1. t \in Seq(Nat) /\ n \in Nat /\ Len(t) = n + 1 /\ t[n + 1] = x /\ \A k \in 1 .. n : t[k] = s[k]
  OBVIOUS
<1>2. PICK f : Sums(f, s) /\ Total(s) = f[n]
  BY TotalSums
<1> HIDE DEF t
<1>3. PICK g : Sums(g, t) /\ Total(t) = g[n + 1]
  BY <1>1, TotalSums
<1> HIDE DEF n
<1>4. GrownSums(f, g, n, n + 1, 0)
  <2>1. n <= Len(s) /\ n <= Len(t) /\ n + 1 \in Nat
    BY <1>1 DEF n
  <2>2. Grown(s, t, n, n + 1, 0)
    BY <1>1 DEF Grown
  <2> QED BY ONLY <1>1, <1>2, <1>3, <2>1, <2>2, SumsDiffer, s \in Seq(Nat), 0 \in Nat
<1>5. g[n] = f[n] /\ f[n] \in Nat
  <2>1. n \in 0 .. n /\ n \in 0 .. Len(s)
    BY <1>1 DEF n
  <2>2. f[n] \in Nat
    BY <1>2, <2>1, SumsType
  <2>3. g[n] = f[n] + (IF n + 1 \in 1 .. n THEN 0 ELSE 0)
    BY <1>4, <2>1 DEF GrownSums
  <2> QED BY <2>2, <2>3
<1>6. g[n + 1] = g[n] + x
  <2>1. n + 1 \in 1 .. Len(t) /\ n + 1 - 1 = n
    BY <1>1
  <2>2. PICK j \in 1 .. Len(t) : j = n + 1
    BY <2>1
  <2>3. g[j] = g[j - 1] + t[j] /\ j - 1 = n
    BY <1>1, <1>3, <2>2 DEF Sums
  <2> QED BY <1>1, <2>2, <2>3
<1> QED BY <1>2, <1>3, <1>5, <1>6 DEF t

\* One number grows.
LEMMA TotalGrows ==
  ASSUME NEW s \in Seq(Nat), NEW t \in Seq(Nat), Len(t) = Len(s), NEW i \in 1 .. Len(s), NEW d \in Nat,
         Grown(s, t, Len(s), i, d)
  PROVE  Total(t) = Total(s) + d
<1> DEFINE n == Len(s)
<1>1. n \in Nat /\ i \in 1 .. n /\ n <= Len(s) /\ n <= Len(t) /\ i \in Nat /\ n \in 0 .. n
  <2>1. Len(s) \in Nat
    OBVIOUS
  <2> QED BY <2>1
<1>2. PICK f : Sums(f, s) /\ Total(s) = f[n]
  BY TotalSums
<1>3. PICK g : Sums(g, t) /\ Total(t) = g[n]
  BY TotalSums
<1>4. GrownSums(f, g, n, i, d)
  <2>1. Grown(s, t, n, i, d)
    OBVIOUS
  <2> HIDE DEF n
  <2> QED BY ONLY <1>1, <1>2, <1>3, <2>1, SumsDiffer, s \in Seq(Nat), t \in Seq(Nat), d \in Nat
<1> QED BY <1>1, <1>2, <1>3, <1>4 DEF GrownSums

\* Two sequences.
LEMMA TotalConcat ==
  ASSUME NEW s \in Seq(Nat), NEW t \in Seq(Nat)
  PROVE  Total(s \o t) = Total(s) + Total(t)
<1> DEFINE u == s \o t
           m == Len(s)
           n == Len(t)
<1>1. /\ u \in Seq(Nat) /\ m \in Nat /\ n \in Nat /\ Len(u) = m + n
      /\ (\A k \in 1 .. m : u[k] = s[k]) /\ (\A k \in 1 .. n : u[m + k] = t[k] /\ t[k] \in Nat)
  OBVIOUS
<1>2. PICK f : Sums(f, s) /\ Total(s) = f[m]
  BY TotalSums
<1>3. PICK g : Sums(g, t) /\ Total(t) = g[n]
  BY TotalSums
<1> HIDE DEF u
<1>4. PICK h : Sums(h, u) /\ Total(u) = h[m + n]
  BY <1>1, TotalSums
<1>5. GrownSums(f, h, m, 0, 0)
  <2>1. m <= Len(s) /\ m <= Len(u)
    BY <1>1
  <2>2. Grown(s, u, m, 0, 0)
    BY <1>1 DEF Grown
  <2> HIDE DEF m, n
  <2> QED BY ONLY <1>1, <1>2, <1>4, <2>1, <2>2, SumsDiffer, s \in Seq(Nat), 0 \in Nat
<1>6. (\A k \in 0 .. m : f[k] \in Nat) /\ \A k \in 0 .. n : g[k] \in Nat
  BY <1>2, <1>3, SumsType
<1>7. g[0] = 0 /\ \A k \in 1 .. n : g[k] = g[k - 1] + t[k]
  BY <1>3 DEF Sums
<1>8. ASSUME NEW k \in 1 .. n PROVE h[m + k] = h[m + k - 1] + t[k]
  <2>1. m + k \in 1 .. Len(u)
    BY <1>1
  <2>2. h[m + k] = h[m + k - 1] + u[m + k]
    BY <1>4, <2>1 DEF Sums
  <2> QED BY <1>1, <2>2
<1> HIDE DEF m, n
<1>9. h[m] = f[m] /\ f[m] \in Nat
  <2>1. m \in 0 .. m
    BY <1>1
  <2>2. f[m] \in Nat /\ h[m] = f[m] + (IF 0 \in 1 .. m THEN 0 ELSE 0)
    BY <1>5, <1>6, <2>1 DEF GrownSums
  <2> QED BY <2>2
<1> DEFINE Bad == {k \in 0 .. n : h[m + k] # f[m] + g[k]}
<1>10. Bad = {}
  <2> SUFFICES ASSUME Bad # {} PROVE FALSE
    OBVIOUS
  <2>1. PICK k \in Bad : \A j \in Bad : k <= j
    <3>1. Bad \in SUBSET Nat
      BY <1>1
    <3> HIDE DEF Bad
    <3> QED BY <3>1, LeastOf
  <2>2. k \in 1 .. n /\ k - 1 \in 0 .. n /\ ~(k <= k - 1) /\ m + (k - 1) = m + k - 1
    <3>1. k # 0
      <4>1. m + 0 = m
        BY <1>1
      <4>2. f[m] + 0 = f[m]
        BY <1>9
      <4> QED BY <1>7, <1>9, <4>1, <4>2
    <3> QED BY <1>1, <3>1
  <2>3. h[m + (k - 1)] = f[m] + g[k - 1]
    BY <2>1, <2>2
  <2>4. h[m + k] = h[m + k - 1] + t[k] /\ g[k] = g[k - 1] + t[k] /\ t[k] \in Nat /\ g[k - 1] \in Nat
    BY <1>1, <1>6, <1>7, <1>8, <2>2
  <2>5. h[m + k] = f[m] + g[k]
    BY <1>9, <2>2, <2>3, <2>4
  <2> QED BY <2>5
<1>11. n \in 0 .. n
  BY <1>1
<1>12. h[m + n] = f[m] + g[n]
  BY <1>10, <1>11
<1> QED BY <1>2, <1>3, <1>4, <1>12 DEF u

\* The total of no blocks is 0: CompressLargeFile starts at offset 0.
LEMMA TotalEmpty == Total(<<>>) = 0
<1>1. <<>> \in Seq(Nat) /\ Len(<<>>) = 0
  OBVIOUS
<1>2. PICK f : Sums(f, <<>>) /\ Total(<<>>) = f[Len(<<>>)]
  BY <1>1, TotalSums
<1> QED BY <1>1, <1>2 DEF Sums

\* There is only one sum.
LEMMA TotalIs ==
  ASSUME NEW s \in Seq(Nat), NEW g, Sums(g, s)
  PROVE  Total(s) = g[Len(s)]
<1> DEFINE n == Len(s)
<1>1. n \in Nat /\ n <= Len(s) /\ n \in 0 .. n /\ n \in 0 .. Len(s)
  <2>1. Len(s) \in Nat
    OBVIOUS
  <2> QED BY <2>1
<1>2. PICK f : Sums(f, s) /\ Total(s) = f[n]
  BY TotalSums
<1>3. Grown(s, s, n, 0, 0)
  <2>1. \A k \in 1 .. n : s[k] \in Nat /\ k # 0
    OBVIOUS
  <2> QED BY <2>1 DEF Grown
<1>4. GrownSums(f, g, n, 0, 0)
  <2> HIDE DEF n
  <2> QED BY ONLY <1>1, <1>2, <1>3, SumsDiffer, s \in Seq(Nat), 0 \in Nat, Sums(g, s)
<1>5. g[n] = f[n] + (IF 0 \in 1 .. n THEN 0 ELSE 0) /\ f[n] \in Nat
  BY <1>1, <1>2, <1>4, SumsType DEF GrownSums
<1> QED BY <1>2, <1>5

-----------------------------------------------------------------------------
(* FlattenSeq *)

\* The sequences of ss, joined one after the other.
Joins(g, ss) == g[0] = <<>> /\ \A k \in 1 .. Len(ss) : g[k] = g[k - 1] \o ss[k]

\* The recursive function that defines FlattenSeq exists.
LEMMA FlattenExists ==
  ASSUME NEW ss, NEW n \in Nat
  PROVE  \E f : f = [i \in 1 .. n |-> IF i = 1 THEN ss[i] ELSE f[i - 1] \o ss[i]]
<1> DEFINE Step(x, k) == x \o ss[k]
           Body(f, m) == [i \in 1 .. m |-> IF i = 1 THEN ss[i] ELSE Step(f[i - 1], i)]
           Without == {m \in Nat : ~ \E f : f = Body(f, m)}
<1> SUFFICES ASSUME Without # {} PROVE FALSE
  <2>1. n \notin Without
    OBVIOUS
  <2> QED BY <2>1
<1> HIDE DEF Step
<1>1. PICK m \in Without : \A j \in Without : m <= j
  <2>1. Without \in SUBSET Nat
    OBVIOUS
  <2> HIDE DEF Without
  <2> QED BY <2>1, LeastOf
<1>2. m \in Nat /\ ~ \E f : f = Body(f, m)
  OBVIOUS
<1>3. m # 0
  <2> SUFFICES ASSUME m = 0 PROVE FALSE
    OBVIOUS
  <2> DEFINE g == [k \in 1 .. 0 |-> ss[1]]
  <2>1. \A k \in 1 .. 0 : FALSE
    OBVIOUS
  <2>2. g = Body(g, 0)
    BY <2>1
  <2> QED BY <1>2, <2>2
<1>4. m - 1 \in Nat /\ m - 1 \notin Without
  <2>1. m - 1 \in Nat /\ ~(m <= m - 1)
    BY <1>2, <1>3
  <2> HIDE DEF Without
  <2> QED BY <1>1, <2>1
<1>5. PICK g : g = Body(g, m - 1)
  BY <1>4
<1> DEFINE f == [k \in 1 .. m |-> IF k # m THEN g[k] ELSE IF k = 1 THEN ss[k] ELSE Step(g[k - 1], k)]
<1>6. \A k \in 1 .. (m - 1) : g[k] = IF k = 1 THEN ss[k] ELSE Step(g[k - 1], k)
  BY <1>4, <1>5
<1>7. ASSUME NEW k \in 1 .. m
      PROVE  f[k] = IF k = 1 THEN ss[k] ELSE Step(f[k - 1], k)
  <2>1. k # 1 => k - 1 \in 1 .. m /\ k - 1 # m
    BY <1>2
  <2>2. k # m => k \in 1 .. (m - 1)
    BY <1>2
  <2>3. k # 1 => f[k - 1] = g[k - 1]
    BY <2>1
  <2> QED BY <1>6, <2>2, <2>3
<1>8. f = [k \in 1 .. m |-> f[k]]
  OBVIOUS
<1>9. f = Body(f, m)
  <2> HIDE DEF f
  <2> QED BY <1>7, <1>8
<1> QED BY <1>2, <1>9

\* FlattenSeq is the last stage of joining the sequences one by one.
LEMMA FlattenJoins ==
  ASSUME NEW T, NEW ss \in Seq(Seq(T))
  PROVE  \E g : Joins(g, ss) /\ FlattenSeq(ss) = g[Len(ss)]
<1> DEFINE n == Len(ss)
           Body(f) == [i \in 1 .. n |-> IF i = 1 THEN ss[i] ELSE f[i - 1] \o ss[i]]
           flatten == CHOOSE f : f = Body(f)
           g == [k \in 0 .. n |-> IF k = 0 THEN <<>> ELSE flatten[k]]
<1>1. n \in Nat
  OBVIOUS
<1>2. flatten = Body(flatten)
  <2>1. \E f : f = Body(f)
    BY <1>1, FlattenExists
  <2> HIDE DEF Body
  <2> QED BY <2>1
<1>3. n # 0 => FlattenSeq(ss) = flatten[n]
  BY DEF FlattenSeq
<1>4. n = 0 => FlattenSeq(ss) = <<>>
  <2>1. n = 0 => ss = <<>>
    OBVIOUS
  <2> QED BY <2>1 DEF FlattenSeq
<1> HIDE DEF flatten
<1>5. \A k \in 1 .. n : flatten[k] = IF k = 1 THEN ss[k] ELSE flatten[k - 1] \o ss[k]
  BY <1>2
<1>6. ASSUME NEW k \in 1 .. n
      PROVE  g[k] = g[k - 1] \o ss[k]
  <2>1. ss[k] \in Seq(T) /\ k \in 0 .. n /\ k # 0 /\ k - 1 \in 0 .. n
    BY <1>1
  <2>2. g[k] = flatten[k]
    BY <2>1
  <2>3. CASE k = 1
    <3>1. g[k - 1] = <<>>
      BY <2>1, <2>3
    <3> QED BY <1>5, <2>1, <2>2, <2>3, <3>1, ConcatEmptySeq
  <2>4. CASE k # 1
    <3>1. g[k - 1] = flatten[k - 1]
      BY <2>1, <2>4
    <3> QED BY <1>5, <2>2, <2>4, <3>1
  <2> QED BY <2>3, <2>4
<1>7. g[0] = <<>>
  BY <1>1
<1>8. FlattenSeq(ss) = g[n]
  <2>1. n \in 0 .. n
    BY <1>1
  <2> QED BY <1>3, <1>4, <2>1
<1> HIDE DEF g
<1>9. Joins(g, ss)
  BY <1>6, <1>7 DEF Joins
<1> QED BY <1>8, <1>9

\* The stages are sequences.
LEMMA JoinsType ==
  ASSUME NEW T, NEW ss \in Seq(Seq(T)), NEW g, Joins(g, ss)
  PROVE  \A k \in 0 .. Len(ss) : g[k] \in Seq(T)
<1> DEFINE n == Len(ss)
           Bad == {k \in 0 .. n : g[k] \notin Seq(T)}
<1>1. n \in Nat /\ \A k \in 1 .. n : ss[k] \in Seq(T)
  OBVIOUS
<1>6. g[0] = <<>> /\ \A k \in 1 .. n : g[k] = g[k - 1] \o ss[k]
  BY DEF Joins
<1>7. <<>> \in Seq(T) /\ \A a, b \in Seq(T) : a \o b \in Seq(T)
  OBVIOUS
<1> HIDE DEF n
<1> SUFFICES ASSUME Bad # {} PROVE FALSE
  BY DEF n
<1>2. PICK k \in Bad : \A j \in Bad : k <= j
  <2>1. Bad \in SUBSET Nat
    BY <1>1
  <2> HIDE DEF Bad
  <2> QED BY <2>1, LeastOf
<1>3. k \in 1 .. n /\ k - 1 \in 0 .. n /\ ~(k <= k - 1)
  <2>1. k # 0
    BY <1>6, <1>7
  <2> QED BY <1>1, <2>1
<1>4. g[k - 1] \in Seq(T)
  BY <1>2, <1>3
<1>5. g[k] \in Seq(T)
  <2>1. ss[k] \in Seq(T) /\ g[k] = g[k - 1] \o ss[k]
    BY <1>1, <1>3, <1>6
  <2> QED BY <1>4, <1>7, <2>1
<1> QED BY <1>5

\* Stages of two sequences that begin alike.
BeginAlike(ss, tt, m) == \A k \in 1 .. m : tt[k] = ss[k]

\* Lists that begin alike are joined alike that far.
LEMMA JoinsAgree ==
  ASSUME NEW ss, NEW tt, NEW f, NEW g, Joins(f, ss), Joins(g, tt), NEW m \in Nat,
         Len(ss) \in Nat, Len(tt) \in Nat, m <= Len(ss), m <= Len(tt),
         BeginAlike(ss, tt, m)
  PROVE  g[m] = f[m]
<1> DEFINE Bad == {k \in 0 .. m : g[k] # f[k]}
<1>1. \A k \in 1 .. m : g[k] = g[k - 1] \o ss[k] /\ f[k] = f[k - 1] \o ss[k]
  <2>1. \A k \in 1 .. m : k \in 1 .. Len(ss) /\ k \in 1 .. Len(tt)
    OBVIOUS
  <2>2. \A k \in 1 .. m : tt[k] = ss[k]
    BY DEF BeginAlike
  <2>3. (\A k \in 1 .. Len(ss) : f[k] = f[k - 1] \o ss[k]) /\ \A k \in 1 .. Len(tt) : g[k] = g[k - 1] \o tt[k]
    BY DEF Joins
  <2> QED BY ONLY <2>1, <2>2, <2>3
<1>2. g[0] = f[0]
  BY DEF Joins
<1>3. Bad = {}
  <2> SUFFICES ASSUME Bad # {} PROVE FALSE
    OBVIOUS
  <2>1. PICK k \in Bad : \A j \in Bad : k <= j
    <3>1. Bad \in SUBSET Nat
      OBVIOUS
    <3> HIDE DEF Bad
    <3> QED BY <3>1, LeastOf
  <2>2. k \in 1 .. m /\ k - 1 \in 0 .. m /\ ~(k <= k - 1)
    <3>1. k # 0
      BY <1>2
    <3> QED BY <3>1
  <2>3. g[k - 1] = f[k - 1]
    BY <2>1, <2>2
  <2> QED BY <1>1, <2>2, <2>3
<1>4. m \in 0 .. m
  OBVIOUS
<1> QED BY <1>3, <1>4

\* One more group, or file, goes to the end of the join.
LEMMA FlattenAppend ==
  ASSUME NEW T, NEW ss \in Seq(Seq(T)), NEW t \in Seq(T)
  PROVE  FlattenSeq(Append(ss, t)) = FlattenSeq(ss) \o t
<1> DEFINE tt == Append(ss, t)
           n == Len(ss)
<1>1. /\ tt \in Seq(Seq(T)) /\ n \in Nat /\ Len(tt) = n + 1 /\ tt[n + 1] = t
      /\ \A k \in 1 .. n : tt[k] = ss[k]
  OBVIOUS
<1>2. PICK f : Joins(f, ss) /\ FlattenSeq(ss) = f[n]
  BY FlattenJoins
<1> HIDE DEF tt
<1>3. PICK g : Joins(g, tt) /\ FlattenSeq(tt) = g[n + 1]
  BY <1>1, FlattenJoins
<1>4. g[n] = f[n]
  <2>1. n <= Len(ss) /\ n <= Len(tt) /\ Len(ss) \in Nat /\ Len(tt) \in Nat
    BY <1>1
  <2>2. BeginAlike(ss, tt, n)
    BY <1>1 DEF BeginAlike
  <2>3. Joins(f, ss) /\ Joins(g, tt) /\ n \in Nat
    BY <1>1, <1>2, <1>3
  <2> HIDE DEF n
  <2> QED BY ONLY <2>1, <2>2, <2>3, JoinsAgree
<1> HIDE DEF n
<1>5. g[n + 1] = g[n] \o t
  <2>1. PICK j \in 1 .. Len(tt) : j = n + 1
    BY <1>1
  <2>3. \A k \in 1 .. Len(tt) : g[k] = g[k - 1] \o tt[k]
    BY <1>3 DEF Joins
  <2>4. j - 1 = n
    BY <1>1, <2>1
  <2>2. g[j] = g[j - 1] \o tt[j] /\ j - 1 = n
    BY <2>3, <2>4
  <2> QED BY <1>1, <2>1, <2>2
<1> QED BY <1>2, <1>3, <1>4, <1>5 DEF tt

\* A join of sequences over T is one over T.
LEMMA FlattenType ==
  ASSUME NEW T, NEW ss \in Seq(Seq(T))
  PROVE  FlattenSeq(ss) \in Seq(T)
<1>1. PICK f : Joins(f, ss) /\ FlattenSeq(ss) = f[Len(ss)]
  BY FlattenJoins
<1>2. Len(ss) \in 0 .. Len(ss)
  <2>1. Len(ss) \in Nat
    OBVIOUS
  <2> QED BY <2>1
<1> QED BY <1>1, <1>2, JoinsType

\* Nothing joined is nothing.
LEMMA FlattenEmpty == FlattenSeq(<<>>) = <<>>
BY DEF FlattenSeq

\* Where the sequences of ss are in their join F: the k-th ends at o[k].
Places(o, F, ss) ==
  /\ o[0] = 0 /\ o[Len(ss)] = Len(F)
  /\ \A k \in 1 .. Len(ss) :
       /\ o[k - 1] \in Nat /\ o[k] = o[k - 1] + Len(ss[k])
       /\ \A j \in 1 .. Len(ss[k]) : F[o[k - 1] + j] = ss[k][j]

\* The first m of them are in the m-th stage.
PlacedUpto(g, ss, m) ==
  \A k \in 1 .. m : /\ Len(g[k]) <= Len(g[m])
                     /\ \A j \in 1 .. Len(ss[k]) : g[m][Len(g[k - 1]) + j] = ss[k][j]

\* The m-th sequence goes behind the first m - 1, which stay where they are.
LEMMA JoinsPlaced ==
  ASSUME NEW T, NEW ss \in Seq(Seq(T)), NEW g, Joins(g, ss), NEW m \in 1 .. Len(ss),
         PlacedUpto(g, ss, m - 1)
  PROVE  PlacedUpto(g, ss, m)
<1> DEFINE n == Len(ss)
<1>1. n \in Nat /\ (\A k \in 1 .. n : ss[k] \in Seq(T)) /\ m \in 1 .. n /\ m \in Nat
  OBVIOUS
<1>2. \A k \in 0 .. n : g[k] \in Seq(T)
  BY JoinsType
<1>3. \A k \in 1 .. n : g[k] = g[k - 1] \o ss[k]
  BY DEF Joins
<1> HIDE DEF n
<1>4. \A a, b \in Seq(T) : /\ Len(a) \in Nat /\ Len(b) \in Nat /\ Len(a \o b) = Len(a) + Len(b)
                            /\ (\A i \in 1 .. Len(a) : (a \o b)[i] = a[i])
                            /\ \A i \in 1 .. Len(b) : (a \o b)[Len(a) + i] = b[i]
  OBVIOUS
<1>5. PICK a \in Seq(T) : a = g[m - 1]
  <2>1. m - 1 \in 0 .. n
    BY <1>1
  <2> QED BY <1>2, <2>1
<1>6. PICK b \in Seq(T) : b = ss[m]
  BY <1>1
<1>7. g[m] = a \o b
  BY <1>1, <1>3, <1>5, <1>6
<1>8. /\ Len(a) \in Nat /\ Len(b) \in Nat /\ Len(g[m]) = Len(a) + Len(b)
      /\ (\A i \in 1 .. Len(a) : g[m][i] = a[i])
      /\ \A i \in 1 .. Len(b) : g[m][Len(a) + i] = b[i]
  BY <1>4, <1>7
<1>9. ASSUME NEW k \in 1 .. m
      PROVE  /\ Len(g[k]) <= Len(g[m])
             /\ \A j \in 1 .. Len(ss[k]) : g[m][Len(g[k - 1]) + j] = ss[k][j]
  <2>1. CASE k = m
    <3>1. Len(g[m]) \in Nat
      BY <1>8
    <3>2. \A j \in 1 .. Len(ss[k]) : g[m][Len(g[k - 1]) + j] = ss[k][j]
      BY ONLY <1>5, <1>6, <1>8, <2>1
    <3>3. Len(g[k]) <= Len(g[m])
      BY ONLY <2>1, <3>1
    <3> QED BY ONLY <3>2, <3>3
  <2>2. CASE k # m
    <3>1. k \in 1 .. (m - 1) /\ k \in 1 .. n /\ k - 1 \in 0 .. n /\ k \in 0 .. n
      BY <1>1, <2>2
    <3>2. Len(g[k]) <= Len(a) /\ \A j \in 1 .. Len(ss[k]) : a[Len(g[k - 1]) + j] = ss[k][j]
      BY <1>5, <3>1 DEF PlacedUpto
    <3>3. PICK c \in Seq(T) : c = g[k - 1]
      BY <1>2, <3>1
    <3>4. PICK e \in Seq(T) : e = ss[k]
      BY <1>1, <3>1
    <3>5. Len(g[k]) = Len(c) + Len(e) /\ Len(c) \in Nat /\ Len(e) \in Nat
      <4>1. g[k] = c \o e
        BY <1>3, <3>1, <3>3, <3>4
      <4> QED BY ONLY <1>4, <4>1, c \in Seq(T), e \in Seq(T)
    <3>6. ASSUME NEW j \in 1 .. Len(e)
          PROVE  g[m][Len(c) + j] = e[j]
      <4>1. Len(c) + j \in 1 .. Len(a)
        BY ONLY <1>8, <3>2, <3>5, j \in 1 .. Len(e)
      <4>2. g[m][Len(c) + j] = a[Len(c) + j]
        BY ONLY <1>8, <4>1
      <4>3. a[Len(c) + j] = e[j]
        BY ONLY <3>2, <3>3, <3>4, j \in 1 .. Len(e)
      <4> QED BY ONLY <4>2, <4>3
    <3>7. Len(g[k]) <= Len(g[m])
      BY ONLY <1>8, <3>2, <3>5
    <3> QED BY ONLY <3>3, <3>4, <3>6, <3>7
  <2> QED BY <2>1, <2>2
<1> QED BY <1>9 DEF PlacedUpto

\* Every group has its place in output.me, every file its place in ori.
LEMMA FlattenPlaces ==
  ASSUME NEW T, NEW ss \in Seq(Seq(T))
  PROVE  \E o : Places(o, FlattenSeq(ss), ss)
<1> DEFINE n == Len(ss)
<1>1. PICK g : Joins(g, ss) /\ FlattenSeq(ss) = g[n]
  BY FlattenJoins
<1>2. n \in Nat /\ (\A k \in 1 .. n : ss[k] \in Seq(T))
  OBVIOUS
<1>3. g[0] = <<>> /\ \A k \in 1 .. n : g[k] = g[k - 1] \o ss[k]
  BY <1>1 DEF Joins
<1>4. \A k \in 0 .. n : g[k] \in Seq(T)
  BY <1>1, JoinsType
<1> DEFINE Bad == {k \in 0 .. n : ~PlacedUpto(g, ss, k)}
<1>5. Bad = {}
  <2> SUFFICES ASSUME Bad # {} PROVE FALSE
    OBVIOUS
  <2>1. PICK k \in Bad : \A j \in Bad : k <= j
    <3>1. Bad \in SUBSET Nat
      BY <1>2
    <3> HIDE DEF Bad
    <3> QED BY <3>1, LeastOf
  <2>2. k \in 1 .. n /\ k - 1 \in 0 .. n /\ ~(k <= k - 1)
    <3>1. k # 0
      <4>1. PlacedUpto(g, ss, 0)
        BY DEF PlacedUpto
      <4> QED BY <4>1
    <3> QED BY <1>2, <3>1
  <2>3. PlacedUpto(g, ss, k - 1)
    BY <2>1, <2>2
  <2>4. PlacedUpto(g, ss, k)
    BY <1>1, <2>2, <2>3, JoinsPlaced
  <2> QED BY <2>4
<1>6. PlacedUpto(g, ss, n)
  <2>1. n \in 0 .. n
    BY <1>2
  <2> QED BY <1>5, <2>1
<1> DEFINE o == [k \in 0 .. n |-> Len(g[k])]
           F == FlattenSeq(ss)
<1>7. o[0] = 0 /\ o[n] = Len(F)
  BY <1>1, <1>2, <1>3
<1>8. ASSUME NEW k \in 1 .. n
      PROVE  /\ o[k - 1] \in Nat /\ o[k] = o[k - 1] + Len(ss[k])
             /\ \A j \in 1 .. Len(ss[k]) : F[o[k - 1] + j] = ss[k][j]
  <2>1. k \in 0 .. n /\ k - 1 \in 0 .. n
    BY <1>2
  <2>2. PICK c \in Seq(T) : c = g[k - 1]
    BY <1>4, <2>1
  <2>3. PICK e \in Seq(T) : e = ss[k]
    BY <1>2
  <2>4. g[k] = c \o e
    BY <1>3, <2>2, <2>3
  <2>5. Len(g[k]) = Len(c) + Len(e) /\ Len(c) \in Nat
    BY <2>4
  <2>6. o[k - 1] = Len(c) /\ o[k] = Len(g[k])
    BY <2>1, <2>2
  <2>7. \A j \in 1 .. Len(ss[k]) : g[n][Len(c) + j] = ss[k][j]
    BY <1>6, <2>2 DEF PlacedUpto
  <2> HIDE DEF o
  <2> QED BY <1>1, <2>3, <2>5, <2>6, <2>7
<1> HIDE DEF o
<1>9. Places(o, F, ss)
  BY <1>7, <1>8 DEF Places
<1> QED BY <1>9

\* What Places says of the order of the sequences, and that they cover F.
Covered(o, F, ss) ==
  \A p \in 1 .. Len(F) : \E k \in 1 .. Len(ss) : \E j \in 1 .. Len(ss[k]) : p = o[k - 1] + j

\* Places are ordered, and every index of the join is in one of them.
LEMMA PlacesFacts ==
  ASSUME NEW T, NEW ss \in Seq(Seq(T)), NEW o, NEW F, Places(o, F, ss)
  PROVE  /\ \A k \in 0 .. Len(ss) : o[k] \in Nat
         /\ \A a, b \in 0 .. Len(ss) : a <= b => o[a] <= o[b]
         /\ Covered(o, F, ss)
<1> DEFINE n == Len(ss)
           L(k) == Len(ss[k])
<1>1. n \in Nat /\ \A k \in 1 .. n : L(k) \in Nat
  <2>1. \A k \in 1 .. n : ss[k] \in Seq(T)
    OBVIOUS
  <2>2. \A e \in Seq(T) : Len(e) \in Nat
    OBVIOUS
  <2> QED BY <2>1, <2>2
<1>2. /\ o[0] = 0 /\ o[n] = Len(F)
      /\ \A k \in 1 .. n : o[k - 1] \in Nat /\ o[k] = o[k - 1] + L(k)
  BY DEF Places
<1> HIDE DEF n, L
<1>3. \A k \in 0 .. n : o[k] \in Nat
  <2> TAKE k \in 0 .. n
  <2>1. k = 0 \/ k \in 1 .. n
    BY <1>1
  <2>2. ASSUME k \in 1 .. n PROVE o[k] \in Nat
    <3>1. o[k - 1] \in Nat /\ L(k) \in Nat /\ o[k] = o[k - 1] + L(k)
      BY <1>1, <1>2, <2>2
    <3> QED BY <3>1
  <2> QED BY <1>2, <2>1, <2>2
<1>4. ASSUME NEW a \in 0 .. n, NEW b \in 0 .. n, a <= b, o[a] > o[b] PROVE FALSE
  <2> DEFINE Bad == {k \in a .. n : o[a] > o[k]}
  <2>1. PICK k \in Bad : \A j \in Bad : k <= j
    <3>1. Bad \in SUBSET Nat /\ b \in Bad
      BY <1>1, <1>4
    <3> HIDE DEF Bad
    <3> QED BY <3>1, LeastOf
  <2>2. k # a
    <3>1. o[a] \in Nat
      BY <1>3
    <3> QED BY <3>1
  <2>3. k \in 1 .. n /\ k - 1 \in a .. n /\ ~(k <= k - 1)
    BY <1>1, <2>2
  <2>4. ~(o[a] > o[k - 1])
    BY <2>1, <2>3
  <2>5. o[a] \in Nat /\ o[k - 1] \in Nat /\ o[k] = o[k - 1] + L(k) /\ L(k) \in Nat
    BY <1>1, <1>2, <1>3, <2>3
  <2>6. o[a] > o[k]
    OBVIOUS
  <2> QED BY <2>4, <2>5, <2>6
<1>5. ASSUME NEW a \in 0 .. n, NEW b \in 0 .. n, a <= b PROVE o[a] <= o[b]
  <2>1. o[a] \in Nat /\ o[b] \in Nat
    BY <1>3
  <2> QED BY <1>4, <1>5, <2>1
<1>6. ASSUME NEW p \in 1 .. Len(F)
      PROVE  \E k \in 1 .. n : \E j \in 1 .. L(k) : p = o[k - 1] + j
  <2> DEFINE Reach == {k \in 0 .. n : p <= o[k]}
  <2>1. PICK k \in Reach : \A j \in Reach : k <= j
    <3>1. Reach \in SUBSET Nat
      BY <1>1
    <3>2. n \in Reach
      <4>1. n \in 0 .. n
        BY <1>1
      <4>2. o[n] \in Nat
        BY <1>3, <4>1
      <4> QED BY <1>2, <4>1, <4>2
    <3> HIDE DEF Reach
    <3> QED BY <3>1, <3>2, LeastOf
  <2>2. p \in Nat /\ p > 0
    <3>1. Len(F) \in Nat
      <4>1. n \in 0 .. n
        BY <1>1
      <4> QED BY <1>2, <1>3, <4>1
    <3> QED BY <3>1
  <2>3. k # 0
    BY <1>2, <2>2
  <2>4. k \in 1 .. n /\ k - 1 \in 0 .. n /\ ~(k <= k - 1)
    BY <1>1, <2>3
  <2>5. ~(p <= o[k - 1]) /\ p <= o[k]
    BY <2>1, <2>4
  <2>6. o[k - 1] \in Nat /\ o[k] = o[k - 1] + L(k) /\ L(k) \in Nat
    BY <1>1, <1>2, <2>4
  <2>7. p - o[k - 1] \in 1 .. L(k) /\ p = o[k - 1] + (p - o[k - 1])
    BY <2>2, <2>5, <2>6
  <2> QED BY <2>4, <2>7
<1> QED BY <1>3, <1>5, <1>6 DEF n, L, Covered


-----------------------------------------------------------------------------
(* Sizes *)

\* Chunks, and what is counted of groups and contents.
Chunks == Nat \X Contents
Lengths(ss) == [k \in DOMAIN ss |-> Len(ss[k])]
GroupSizes(ss) == [k \in DOMAIN ss |-> Size(ContentsOf(ss[k]))]
SizesIn(s) == [k \in DOMAIN s |-> ChunkSize[s[k]]]

\* The size of a file grows by the chunks appended to it.
LEMMA SizeFacts ==
  /\ Size(<<>>) = 0
  /\ \A s \in Seq(Contents) : Size(s) \in Nat
  /\ \A s \in Seq(Contents), c \in Contents : Size(Append(s, c)) = Size(s) + ChunkSize[c]
  /\ \A s, t \in Seq(Contents) : Size(s \o t) = Size(s) + Size(t)
<1>0. \A c \in Contents : ChunkSize[c] \in Nat
  BY MigratoryAssumption DEF MigratoryAssumption
<1>1. \A s : Size(s) = Total(SizesIn(s))
  BY DEF Size, SizesIn
<1>2. ASSUME NEW s \in Seq(Contents) PROVE SizesIn(s) \in Seq(Nat) /\ Len(SizesIn(s)) = Len(s)
  <2>1. Len(s) \in Nat /\ DOMAIN s = 1 .. Len(s) /\ \A k \in 1 .. Len(s) : s[k] \in Contents
    OBVIOUS
  <2> QED BY <1>0, <2>1 DEF SizesIn
<1>3. Size(<<>>) = 0
  <2>1. SizesIn(<<>>) = <<>>
    <3>1. <<>> \in Seq(Contents) /\ Len(<<>>) = 0
      OBVIOUS
    <3>2. SizesIn(<<>>) \in Seq(Nat) /\ Len(SizesIn(<<>>)) = 0
      BY <1>2, <3>1
    <3> QED BY <3>2, EmptySeq
  <2> QED BY <1>1, <2>1, TotalEmpty
<1>4. ASSUME NEW s \in Seq(Contents) PROVE Size(s) \in Nat
  BY <1>1, <1>2, TotalType
<1>5. ASSUME NEW s \in Seq(Contents), NEW c \in Contents
      PROVE  Size(Append(s, c)) = Size(s) + ChunkSize[c]
  <2>1. SizesIn(Append(s, c)) = Append(SizesIn(s), ChunkSize[c])
    <3>1. Append(s, c) \in Seq(Contents) /\ Len(Append(s, c)) = Len(s) + 1 /\ Len(s) \in Nat
      OBVIOUS
    <3>2. SizesIn(Append(s, c)) \in Seq(Nat) /\ Len(SizesIn(Append(s, c))) = Len(s) + 1
      BY <1>2, <3>1
    <3>3. Append(SizesIn(s), ChunkSize[c]) \in Seq(Nat) /\ Len(Append(SizesIn(s), ChunkSize[c])) = Len(s) + 1
      BY <1>0, <1>2
    <3>4. ASSUME NEW k \in 1 .. (Len(s) + 1)
          PROVE  SizesIn(Append(s, c))[k] = Append(SizesIn(s), ChunkSize[c])[k]
      <4>1. CASE k = Len(s) + 1
        BY <1>0, <1>2, <3>1, <4>1 DEF SizesIn
      <4>2. CASE k # Len(s) + 1
        <5>1. k \in 1 .. Len(s) /\ k \in DOMAIN s /\ k \in DOMAIN Append(s, c) /\ Append(s, c)[k] = s[k]
          BY <3>1, <4>2
        <5>2. Append(SizesIn(s), ChunkSize[c])[k] = SizesIn(s)[k]
          BY <1>0, <1>2, <5>1
        <5> QED BY <5>1, <5>2 DEF SizesIn
      <4> QED BY <4>1, <4>2
    <3> QED BY <3>2, <3>3, <3>4, SeqEqual
  <2> QED BY <1>0, <1>1, <1>2, <2>1, TotalAppend
<1>6. ASSUME NEW s \in Seq(Contents), NEW t \in Seq(Contents)
      PROVE  Size(s \o t) = Size(s) + Size(t)
  <2>1. SizesIn(s \o t) = SizesIn(s) \o SizesIn(t)
    <3>1. s \o t \in Seq(Contents) /\ Len(s \o t) = Len(s) + Len(t) /\ Len(s) \in Nat /\ Len(t) \in Nat
      OBVIOUS
    <3>2. SizesIn(s \o t) \in Seq(Nat) /\ Len(SizesIn(s \o t)) = Len(s) + Len(t)
      BY <1>2, <3>1
    <3>3. SizesIn(s) \o SizesIn(t) \in Seq(Nat) /\ Len(SizesIn(s) \o SizesIn(t)) = Len(s) + Len(t)
      <4>1. /\ SizesIn(s) \in Seq(Nat) /\ Len(SizesIn(s)) = Len(s)
            /\ SizesIn(t) \in Seq(Nat) /\ Len(SizesIn(t)) = Len(t)
        BY <1>2
      <4>2. \A a, b \in Seq(Nat) : a \o b \in Seq(Nat) /\ Len(a \o b) = Len(a) + Len(b)
        OBVIOUS
      <4> QED BY ONLY <4>1, <4>2
    <3>4. ASSUME NEW k \in 1 .. (Len(s) + Len(t))
          PROVE  SizesIn(s \o t)[k] = (SizesIn(s) \o SizesIn(t))[k]
      <4>1. CASE k \in 1 .. Len(s)
        <5>1. k \in DOMAIN s /\ k \in DOMAIN (s \o t) /\ (s \o t)[k] = s[k]
          BY <3>1, <4>1
        <5>2. (SizesIn(s) \o SizesIn(t))[k] = SizesIn(s)[k]
          <6>1. \A a, b \in Seq(Nat) : \A i \in 1 .. Len(a) : (a \o b)[i] = a[i]
            OBVIOUS
          <6>2. SizesIn(s) \in Seq(Nat) /\ Len(SizesIn(s)) = Len(s) /\ SizesIn(t) \in Seq(Nat)
            BY <1>2
          <6> QED BY ONLY <4>1, <6>1, <6>2
        <5> QED BY <5>1, <5>2 DEF SizesIn
      <4>2. CASE k \notin 1 .. Len(s)
        <5>1. PICK j \in 1 .. Len(t) : k = Len(s) + j /\ j = k - Len(s)
          <6>1. k - Len(s) \in 1 .. Len(t) /\ k = Len(s) + (k - Len(s))
            BY <3>1, <4>2
          <6> QED BY <6>1
        <5>2. j \in DOMAIN t /\ k \in DOMAIN (s \o t) /\ (s \o t)[k] = t[j]
          BY <3>1, <5>1
        <5>3. (SizesIn(s) \o SizesIn(t))[k] = SizesIn(t)[j]
          <6>1. \A a, b \in Seq(Nat) : \A i \in 1 .. Len(b) : (a \o b)[Len(a) + i] = b[i]
            <7>1. \A T : \A a, b \in Seq(T) : \A i \in 1 .. Len(b) : (a \o b)[Len(a) + i] = b[i]
              OBVIOUS
            <7> QED BY <7>1
          <6>2. /\ SizesIn(s) \in Seq(Nat) /\ Len(SizesIn(s)) = Len(s)
                /\ SizesIn(t) \in Seq(Nat) /\ Len(SizesIn(t)) = Len(t)
            BY <1>2
          <6> QED BY ONLY <5>1, <6>1, <6>2
        <5> QED BY <5>2, <5>3 DEF SizesIn
      <4> QED BY <4>1, <4>2
    <3> QED BY <3>2, <3>3, <3>4, SeqEqual
  <2> QED BY <1>1, <1>2, <2>1, TotalConcat
<1> QED BY <1>3, <1>4, <1>5, <1>6

\* ContentsOf goes through Append and \o.
LEMMA ContentsOfFacts ==
  /\ ContentsOf(<<>>) = <<>>
  /\ \A s \in Seq(Chunks) : ContentsOf(s) \in Seq(Contents) /\ Len(ContentsOf(s)) = Len(s)
  /\ \A s \in Seq(Chunks), id \in Nat, c \in Contents :
       ContentsOf(Append(s, <<id, c>>)) = Append(ContentsOf(s), c)
  /\ \A s, t \in Seq(Chunks) : ContentsOf(s \o t) = ContentsOf(s) \o ContentsOf(t)
<1>2. ASSUME NEW s \in Seq(Chunks) PROVE ContentsOf(s) \in Seq(Contents) /\ Len(ContentsOf(s)) = Len(s)
  <2>1. Len(s) \in Nat /\ DOMAIN s = 1 .. Len(s) /\ \A k \in 1 .. Len(s) : s[k] \in Nat \X Contents
    BY DEF Chunks
  <2> QED BY <2>1 DEF ContentsOf
<1>3. ContentsOf(<<>>) = <<>>
  <2>1. <<>> \in Seq(Chunks) /\ Len(<<>>) = 0
    OBVIOUS
  <2>2. ContentsOf(<<>>) \in Seq(Contents) /\ Len(ContentsOf(<<>>)) = 0
    BY <1>2, <2>1
  <2> QED BY <2>2, EmptySeq
<1>5. ASSUME NEW s \in Seq(Chunks), NEW id \in Nat, NEW c \in Contents
      PROVE  ContentsOf(Append(s, <<id, c>>)) = Append(ContentsOf(s), c)
  <2> DEFINE x == <<id, c>>
  <2>1. x \in Chunks /\ x[2] = c
    BY DEF Chunks
  <2> HIDE DEF x
  <2>2. Append(s, x) \in Seq(Chunks) /\ Len(Append(s, x)) = Len(s) + 1 /\ Len(s) \in Nat
    BY <2>1
  <2>3. ContentsOf(Append(s, x)) \in Seq(Contents) /\ Len(ContentsOf(Append(s, x))) = Len(s) + 1
    BY <1>2, <2>2
  <2>4. Append(ContentsOf(s), c) \in Seq(Contents) /\ Len(Append(ContentsOf(s), c)) = Len(s) + 1
    BY <1>2
  <2>5. ASSUME NEW k \in 1 .. (Len(s) + 1)
        PROVE  ContentsOf(Append(s, x))[k] = Append(ContentsOf(s), c)[k]
    <3>1. CASE k = Len(s) + 1
      BY <1>2, <2>1, <2>2, <3>1 DEF ContentsOf
    <3>2. CASE k # Len(s) + 1
      <4>1. k \in 1 .. Len(s) /\ k \in DOMAIN s /\ k \in DOMAIN Append(s, x) /\ Append(s, x)[k] = s[k]
        BY <2>1, <2>2, <3>2
      <4>2. Append(ContentsOf(s), c)[k] = ContentsOf(s)[k]
        BY <1>2, <4>1
      <4> QED BY <4>1, <4>2 DEF ContentsOf
    <3> QED BY <3>1, <3>2
  <2> QED BY <2>3, <2>4, <2>5, SeqEqual DEF x
<1>6. ASSUME NEW s \in Seq(Chunks), NEW t \in Seq(Chunks)
      PROVE  ContentsOf(s \o t) = ContentsOf(s) \o ContentsOf(t)
  <2>1. s \o t \in Seq(Chunks) /\ Len(s \o t) = Len(s) + Len(t) /\ Len(s) \in Nat /\ Len(t) \in Nat
    OBVIOUS
  <2>2. ContentsOf(s \o t) \in Seq(Contents) /\ Len(ContentsOf(s \o t)) = Len(s) + Len(t)
    BY <1>2, <2>1
  <2>3. ContentsOf(s) \o ContentsOf(t) \in Seq(Contents) /\ Len(ContentsOf(s) \o ContentsOf(t)) = Len(s) + Len(t)
    BY <1>2
  <2>4. ASSUME NEW k \in 1 .. (Len(s) + Len(t))
        PROVE  ContentsOf(s \o t)[k] = (ContentsOf(s) \o ContentsOf(t))[k]
    <3>1. CASE k \in 1 .. Len(s)
      <4>1. k \in DOMAIN s /\ k \in DOMAIN (s \o t) /\ (s \o t)[k] = s[k]
        BY <2>1, <3>1
      <4>2. (ContentsOf(s) \o ContentsOf(t))[k] = ContentsOf(s)[k]
        BY <1>2, <3>1
      <4> QED BY <4>1, <4>2 DEF ContentsOf
    <3>2. CASE k \notin 1 .. Len(s)
      <4>1. PICK j \in 1 .. Len(t) : k = Len(s) + j /\ j = k - Len(s)
        <5>1. k - Len(s) \in 1 .. Len(t) /\ k = Len(s) + (k - Len(s))
          BY <2>1, <3>2
        <5> QED BY <5>1
      <4>2. j \in DOMAIN t /\ k \in DOMAIN (s \o t) /\ (s \o t)[k] = t[j]
        BY <2>1, <4>1
      <4>3. (ContentsOf(s) \o ContentsOf(t))[k] = ContentsOf(t)[j]
        <5>1. \A T : \A a, b \in Seq(T) : \A i \in 1 .. Len(b) : (a \o b)[Len(a) + i] = b[i]
          OBVIOUS
        <5>2. \A a, b \in Seq(Contents) : \A i \in 1 .. Len(b) : (a \o b)[Len(a) + i] = b[i]
          BY <5>1
        <5>3. /\ ContentsOf(s) \in Seq(Contents) /\ Len(ContentsOf(s)) = Len(s)
              /\ ContentsOf(t) \in Seq(Contents) /\ Len(ContentsOf(t)) = Len(t)
          BY <1>2
        <5> QED BY ONLY <4>1, <5>2, <5>3
      <4> QED BY <4>2, <4>3 DEF ContentsOf
    <3> QED BY <3>1, <3>2
  <2> QED BY <2>2, <2>3, <2>4, SeqEqual
<1> QED BY <1>2, <1>3, <1>5, <1>6

\* The size of a join is the sum of the sizes, in chunks and in bytes.
LEMMA FlattenMeasures ==
  ASSUME NEW ss \in Seq(Seq(Chunks))
  PROVE  /\ Lengths(ss) \in Seq(Nat) /\ GroupSizes(ss) \in Seq(Nat)
         /\ Len(FlattenSeq(ss)) = Total(Lengths(ss))
         /\ Size(ContentsOf(FlattenSeq(ss))) = Total(GroupSizes(ss))
<1> DEFINE n == Len(ss)
<1>1. n \in Nat /\ DOMAIN ss = 1 .. n /\ \A k \in 1 .. n : ss[k] \in Seq(Chunks)
  OBVIOUS
<1>2. PICK g : Joins(g, ss) /\ FlattenSeq(ss) = g[n]
  BY FlattenJoins
<1>3. g[0] = <<>> /\ \A k \in 1 .. n : g[k] = g[k - 1] \o ss[k]
  BY <1>2 DEF Joins
<1>4. \A k \in 0 .. n : g[k] \in Seq(Chunks)
  BY <1>2, JoinsType
<1> HIDE DEF n
<1>5. \A a, b \in Seq(Chunks) : /\ Len(a \o b) = Len(a) + Len(b)
                                /\ Size(ContentsOf(a \o b)) = Size(ContentsOf(a)) + Size(ContentsOf(b))
  <2> TAKE a, b \in Seq(Chunks)
  <2>1. ContentsOf(a) \in Seq(Contents) /\ ContentsOf(b) \in Seq(Contents)
        /\ ContentsOf(a \o b) = ContentsOf(a) \o ContentsOf(b)
    BY ContentsOfFacts
  <2>2. Size(ContentsOf(a) \o ContentsOf(b)) = Size(ContentsOf(a)) + Size(ContentsOf(b))
    BY <2>1, SizeFacts
  <2>3. Len(a \o b) = Len(a) + Len(b)
    OBVIOUS
  <2> QED BY ONLY <2>1, <2>2, <2>3
<1>6. \A a \in Seq(Chunks) : Len(a) \in Nat /\ Size(ContentsOf(a)) \in Nat
  <2> TAKE a \in Seq(Chunks)
  <2>1. ContentsOf(a) \in Seq(Contents)
    BY ContentsOfFacts
  <2> QED BY <2>1, SizeFacts
<1>7. Lengths(ss) \in Seq(Nat) /\ Len(Lengths(ss)) = n /\ GroupSizes(ss) \in Seq(Nat) /\ Len(GroupSizes(ss)) = n
      /\ \A k \in 1 .. n : Lengths(ss)[k] = Len(ss[k]) /\ GroupSizes(ss)[k] = Size(ContentsOf(ss[k]))
  <2>1. \A k \in 1 .. n : Len(ss[k]) \in Nat /\ Size(ContentsOf(ss[k])) \in Nat
    BY <1>1, <1>6
  <2> QED BY <1>1, <2>1 DEF Lengths, GroupSizes
<1> DEFINE o == [k \in 0 .. n |-> Len(g[k])]
           q == [k \in 0 .. n |-> Size(ContentsOf(g[k]))]
<1>8. ASSUME NEW k \in 1 .. n
      PROVE  o[k] = o[k - 1] + Lengths(ss)[k] /\ q[k] = q[k - 1] + GroupSizes(ss)[k]
  <2>1. k \in 0 .. n /\ k - 1 \in 0 .. n
    BY <1>1
  <2>2. PICK a \in Seq(Chunks) : a = g[k - 1]
    BY <1>4, <2>1
  <2>3. PICK b \in Seq(Chunks) : b = ss[k]
    BY <1>1
  <2>4. g[k] = a \o b
    BY <1>3, <2>2, <2>3
  <2>5. /\ o[k] = Len(g[k]) /\ o[k - 1] = Len(a)
        /\ q[k] = Size(ContentsOf(g[k])) /\ q[k - 1] = Size(ContentsOf(a))
    BY <2>1, <2>2
  <2>6. Lengths(ss)[k] = Len(b) /\ GroupSizes(ss)[k] = Size(ContentsOf(b))
    BY <1>7, <2>3
  <2> QED BY ONLY <1>5, <2>4, <2>5, <2>6, a \in Seq(Chunks), b \in Seq(Chunks)
<1>9. o[0] = 0 /\ q[0] = 0
  <2>1. 0 \in 0 .. n /\ Len(<<>>) = 0
    BY <1>1
  <2> QED BY <1>3, <2>1, ContentsOfFacts, SizeFacts
<1>10. o[n] = Len(g[n]) /\ q[n] = Size(ContentsOf(g[n]))
  BY <1>1
<1> HIDE DEF o, q
<1>11. Sums(o, Lengths(ss)) /\ Sums(q, GroupSizes(ss))
  BY <1>7, <1>8, <1>9 DEF Sums
<1>12. Total(Lengths(ss)) = o[n] /\ Total(GroupSizes(ss)) = q[n]
  BY <1>7, <1>11, TotalIs
<1> QED BY <1>2, <1>7, <1>10, <1>12

-----------------------------------------------------------------------------
(* The groups *)

\* The groups in the order of insertionOrder: what Migratory writes.
GroupsIn(order, table) == [k \in DOMAIN order |-> table[order[k]]]

\* order lists the features of the table, each once.
Listed(order, table) ==
  /\ order \in Seq(DOMAIN table)
  /\ \A a, b \in 1 .. Len(order) : order[a] = order[b] => a = b
  /\ \A f \in DOMAIN table : \E a \in 1 .. Len(order) : order[a] = f

\* A group has chunks that came, with its feature, in the order they came.
HeldIn(came, table) ==
  \A f \in DOMAIN table :
    /\ table[f] \in Seq(Chunks) /\ Len(table[f]) >= 1
    /\ \A j \in 1 .. Len(table[f]) :
         /\ table[f][j][1] < Len(came) /\ table[f][j][2] = came[table[f][j][1] + 1]
         /\ Feature[table[f][j][2]] = f
    /\ \A i, j \in 1 .. Len(table[f]) : i < j => table[f][i][1] < table[f][j][1]

\* Every chunk that came is in a group.
Present(came, table) ==
  \A id \in 0 .. (Len(came) - 1) :
    \E f \in DOMAIN table : \E j \in 1 .. Len(table[f]) : table[f][j] = <<id, came[id + 1]>>

\* The groups are in the order of their first chunks.
FirstsRise(order, table) ==
  \A a, b \in 1 .. Len(order) : a < b => table[order[a]][1][1] < table[order[b]][1][1]

\* No chunk is in two groups: the numbers of chunks and of bytes add up.
Measured(came, order, table) ==
  /\ Total(Lengths(GroupsIn(order, table))) = Len(came)
  /\ Total(GroupSizes(GroupsIn(order, table))) = Size(came)

\* All there is to say of the groups when came is what came.
GroupedAs(came, order, table) ==
  /\ Listed(order, table) /\ HeldIn(came, table) /\ Present(came, table)
  /\ FirstsRise(order, table) /\ Measured(came, order, table)

\* The chunks that came so far.
Came ==
  FlattenSeq(SubSeq(files, 1, backup)) \o
    (IF backup < BackupNum THEN SubSeq(files[backup + 1], 1, read) ELSE <<>>)

\* Where ProcessTrace is: ids are given in the order chunks came.
ReadInv ==
  /\ files \in FileLists /\ backup \in 0 .. BackupNum /\ read \in Nat
  /\ backup < BackupNum => read <= Len(files[backup + 1])
  /\ Came \in Seq(Contents)
  /\ uniquechunkNum = Len(Came) /\ logicalchunkSize = Size(Came)

\* The groups hold what came.
GroupsInv == GroupedAs(Came, insertionOrder, hashTable)

\* output.me is written once, after the last backup, from the groups.
MeInv ==
  /\ phase = "backups" => me = <<>>
  /\ phase # "backups" => backup = BackupNum
  /\ me = <<>> \/ me = FlattenSeq(GroupsIn(insertionOrder, hashTable))

\* ori holds the files merged; while none was skipped, those before file.
OriInv ==
  /\ file \in Nat /\ count \in Nat /\ skipped \in Nat /\ file = count + skipped
  /\ count <= BackupNum /\ file <= Len(files)
  /\ skipped = 0 => ori = FlattenSeq(SubSeq(files, 1, file))
  /\ phase \in {"OriLC", "done"} /\ skipped = 0 /\ file > 0 => file = BackupNum

\* CompressLargeFile: the blocks so far are no more than the input, and a result
\* is 0 until it returns.
LcInv ==
  /\ blocks \in Seq(Nat) /\ ans \in Nat /\ MLCSize \in Nat /\ oriLCSize \in Nat
  /\ me \in Seq(Chunks) /\ ori \in Seq(Contents)
  /\ phase \in {"backups", "MLC", "OriGenerate", "OriLC", "done"}
  /\ Compressing => Offset <= Input
  /\ ~Compressing => blocks = <<>>
  /\ phase \in {"backups", "MLC"} => MLCSize = 0
  /\ phase # "done" => oriLCSize = 0

\* The inductive invariant.
MigratoryInv == ReadInv /\ GroupsInv /\ MeInv /\ OriInv /\ LcInv

-----------------------------------------------------------------------------
(* One more chunk *)

\* table2 is table with x at the end of the group of f.
Joined(table, f, x, table2) ==
  /\ DOMAIN table2 = DOMAIN table \union {f}
  /\ \A g \in DOMAIN table : g # f => table2[g] = table[g]
  /\ table2[f] = Append(IF f \in DOMAIN table THEN table[f] ELSE <<>>, x)

\* The chunks already there stay in place.
InPlace(table, f, x, table2) ==
  /\ \A g \in DOMAIN table2 : table2[g] \in Seq(Chunks) /\ Len(table2[g]) >= 1
  /\ \A g \in DOMAIN table : /\ g \in DOMAIN table2 /\ Len(table[g]) <= Len(table2[g])
                              /\ Len(table[g]) \in Nat
                              /\ \A j \in 1 .. Len(table[g]) : table2[g][j] = table[g][j]
  /\ table2[f][Len(table2[f])] = x
  /\ \A g \in DOMAIN table2 : \A j \in 1 .. Len(table2[g]) :
       \/ g \in DOMAIN table /\ j \in 1 .. Len(table[g])
       \/ g = f /\ j = Len(table2[f])

\* A chunk that joins its group leaves all others in their place.
LEMMA JoinedFacts ==
  ASSUME NEW came, NEW table, HeldIn(came, table), NEW f, NEW x \in Chunks, NEW table2,
         Joined(table, f, x, table2)
  PROVE  InPlace(table, f, x, table2)
<1> DEFINE G0 == IF f \in DOMAIN table THEN table[f] ELSE <<>>
           G == Append(G0, x)
<1>1. G0 \in Seq(Chunks)
  BY DEF HeldIn
<1>2. \A g \in DOMAIN table : table[g] \in Seq(Chunks) /\ Len(table[g]) >= 1
  BY DEF HeldIn
<1>3. table2[f] = G /\ f \in DOMAIN table2
  BY DEF Joined
<1>4. \A g \in DOMAIN table : g # f => table2[g] = table[g]
  BY DEF Joined
<1>5. \A g \in DOMAIN table2 : g # f => g \in DOMAIN table
  BY DEF Joined
<1>6. \A g \in DOMAIN table : g \in DOMAIN table2
  BY DEF Joined
<1>7. f \in DOMAIN table => G0 = table[f]
  OBVIOUS
<1>8. f \notin DOMAIN table => Len(G0) = 0
  OBVIOUS
<1> HIDE DEF G0
<1>9. /\ G \in Seq(Chunks) /\ Len(G0) \in Nat /\ Len(G) = Len(G0) + 1 /\ G[Len(G0) + 1] = x
      /\ \A j \in 1 .. Len(G0) : G[j] = G0[j]
  BY <1>1
<1> HIDE DEF G
<1>10. ASSUME NEW g \in DOMAIN table2 PROVE table2[g] \in Seq(Chunks) /\ Len(table2[g]) >= 1
  <2>1. CASE g = f
    BY <1>3, <1>9, <2>1
  <2>2. CASE g # f
    BY <1>2, <1>4, <1>5, <2>2
  <2> QED BY <2>1, <2>2
<1>11. ASSUME NEW g \in DOMAIN table
       PROVE  /\ g \in DOMAIN table2 /\ Len(table[g]) <= Len(table2[g]) /\ Len(table[g]) \in Nat
              /\ \A j \in 1 .. Len(table[g]) : table2[g][j] = table[g][j]
  <2>1. CASE g = f
    BY <1>3, <1>7, <1>9, <2>1
  <2>2. CASE g # f
    <3>1. table2[g] = table[g] /\ table[g] \in Seq(Chunks)
      BY <1>2, <1>4, <2>2
    <3>2. Len(table[g]) \in Nat
      BY <3>1
    <3> QED BY <1>6, <3>1, <3>2
  <2> QED BY <2>1, <2>2
<1>12. ASSUME NEW g \in DOMAIN table2, NEW j \in 1 .. Len(table2[g])
       PROVE  \/ g \in DOMAIN table /\ j \in 1 .. Len(table[g])
              \/ g = f /\ j = Len(table2[f])
  <2>1. CASE g = f
    <3>1. j \in 1 .. Len(G0) \/ j = Len(G)
      BY <1>3, <1>9, <2>1
    <3>2. j \in 1 .. Len(G0) => f \in DOMAIN table
      BY <1>8
    <3> QED BY <1>3, <1>7, <2>1, <3>1, <3>2
  <2>2. CASE g # f
    BY <1>4, <1>5, <2>2
  <2> QED BY <2>1, <2>2
<1>13. table2[f][Len(table2[f])] = x
  BY <1>3, <1>9
<1> QED BY <1>10, <1>11, <1>12, <1>13 DEF InPlace

\* ProcessTrace keeps the groups pure and in order.
LEMMA HeldGrows ==
  ASSUME NEW came \in Seq(Contents), NEW table, HeldIn(came, table), NEW c \in Contents,
         NEW x, x = <<Len(came), c>>, NEW table2, Joined(table, Feature[c], x, table2)
  PROVE  HeldIn(Append(came, c), table2)
<1> DEFINE f == Feature[c]
           more == Append(came, c)
<1>1. /\ x \in Chunks /\ x[1] = Len(came) /\ x[2] = c /\ Len(came) \in Nat /\ Len(more) = Len(came) + 1
      /\ more[Len(came) + 1] = c /\ \A i \in 1 .. Len(came) : more[i] = came[i]
  BY DEF Chunks
<1>2. /\ \A g \in DOMAIN table2 : table2[g] \in Seq(Chunks) /\ Len(table2[g]) >= 1
      /\ \A g \in DOMAIN table : /\ g \in DOMAIN table2 /\ Len(table[g]) <= Len(table2[g])
                                  /\ Len(table[g]) \in Nat
                                  /\ \A j \in 1 .. Len(table[g]) : table2[g][j] = table[g][j]
      /\ table2[f][Len(table2[f])] = x
      /\ \A g \in DOMAIN table2 : \A j \in 1 .. Len(table2[g]) :
           \/ g \in DOMAIN table /\ j \in 1 .. Len(table[g])
           \/ g = f /\ j = Len(table2[f])
  <2>1. InPlace(table, f, x, table2)
    BY <1>1, JoinedFacts
  <2> QED BY <2>1 DEF InPlace
<1>3. \A g \in DOMAIN table : \A j \in 1 .. Len(table[g]) :
        /\ table[g][j][1] \in Nat /\ table[g][j][1] < Len(came)
        /\ table[g][j][2] = came[table[g][j][1] + 1] /\ Feature[table[g][j][2]] = g
  <2> TAKE g \in DOMAIN table
  <2> TAKE j \in 1 .. Len(table[g])
  <2>1. table[g] \in Seq(Chunks)
    BY DEF HeldIn
  <2>2. table[g][j] \in Chunks
    BY <2>1
  <2>3. table[g][j][1] \in Nat
    BY <2>2 DEF Chunks
  <2> QED BY <2>3 DEF HeldIn
<1>4. \A g \in DOMAIN table : \A i, j \in 1 .. Len(table[g]) : i < j => table[g][i][1] < table[g][j][1]
  BY DEF HeldIn
<1> HIDE DEF f, more
<1>5. ASSUME NEW g \in DOMAIN table2, NEW j \in 1 .. Len(table2[g])
      PROVE  /\ table2[g][j][1] < Len(more) /\ table2[g][j][2] = more[table2[g][j][1] + 1]
             /\ Feature[table2[g][j][2]] = g /\ table2[g][j][1] \in Nat /\ table2[g][j][1] <= Len(came)
  <2>1. CASE g \in DOMAIN table /\ j \in 1 .. Len(table[g])
    <3>1. table2[g][j] = table[g][j]
      BY <1>2, <2>1
    <3>2. PICK id \in Nat : id = table[g][j][1]
      BY <1>3, <2>1
    <3>3. id < Len(came) /\ table[g][j][2] = came[id + 1] /\ Feature[table[g][j][2]] = g
      BY <1>3, <2>1, <3>2
    <3>4. id + 1 \in 1 .. Len(came)
      BY <1>1, <3>3
    <3>5. more[id + 1] = came[id + 1]
      BY <1>1, <3>4
    <3>6. id < Len(more) /\ id <= Len(came)
      BY <1>1, <3>3
    <3> QED BY ONLY <3>1, <3>2, <3>3, <3>5, <3>6
  <2>2. CASE g = f /\ j = Len(table2[f])
    <3>1. table2[g][j] = x
      BY <1>2, <2>2
    <3>2. Len(came) < Len(more) /\ Len(came) <= Len(came)
      BY <1>1
    <3> QED BY ONLY <1>1, <2>2, <3>1, <3>2 DEF f
  <2> QED BY <1>2, <2>1, <2>2
<1>6. ASSUME NEW g \in DOMAIN table2, NEW i \in 1 .. Len(table2[g]), NEW j \in 1 .. Len(table2[g]), i < j
      PROVE  table2[g][i][1] < table2[g][j][1]
  <2>1. Len(table2[g]) \in Nat
    BY <1>2
  <2>2. CASE g \in DOMAIN table /\ j \in 1 .. Len(table[g])
    <3>1. i \in 1 .. Len(table[g])
      BY <1>2, <1>6, <2>1, <2>2
    <3>2. table2[g][i] = table[g][i] /\ table2[g][j] = table[g][j]
      BY <1>2, <2>2, <3>1
    <3> QED BY <1>4, <1>6, <2>2, <3>1, <3>2
  <2>3. CASE g = f /\ j = Len(table2[f])
    <3>1. table2[g][j][1] = Len(came)
      BY <1>1, <1>2, <2>3
    <3>2. g \in DOMAIN table /\ i \in 1 .. Len(table[g])
      <4>1. ~(g = f /\ i = Len(table2[f]))
        BY <1>6, <2>1, <2>3
      <4> QED BY <1>2, <4>1
    <3>3. table2[g][i] = table[g][i]
      BY <1>2, <3>2
    <3> QED BY <1>3, <3>1, <3>2, <3>3
  <2>4. (g \in DOMAIN table /\ j \in 1 .. Len(table[g])) \/ (g = f /\ j = Len(table2[f]))
    BY <1>2
  <2> QED BY <2>2, <2>3, <2>4
<1>7. \A g \in DOMAIN table2 : table2[g] \in Seq(Chunks) /\ Len(table2[g]) >= 1
  BY <1>2
<1> QED BY ONLY <1>5, <1>6, <1>7 DEF HeldIn, more

\* ProcessTrace loses no chunk: the ones that came before are still in a group,
\* and so is the new one.
LEMMA PresentGrows ==
  ASSUME NEW came \in Seq(Contents), NEW table, HeldIn(came, table), Present(came, table),
         NEW c \in Contents, NEW x, x = <<Len(came), c>>, NEW table2,
         Joined(table, Feature[c], x, table2)
  PROVE  Present(Append(came, c), table2)
<1> DEFINE f == Feature[c]
           more == Append(came, c)
<1>1. /\ x \in Chunks /\ Len(came) \in Nat /\ Len(more) = Len(came) + 1
      /\ more[Len(came) + 1] = c /\ \A i \in 1 .. Len(came) : more[i] = came[i]
  BY DEF Chunks
<1>2. /\ \A g \in DOMAIN table2 : table2[g] \in Seq(Chunks) /\ Len(table2[g]) >= 1
      /\ \A g \in DOMAIN table : /\ g \in DOMAIN table2 /\ Len(table[g]) <= Len(table2[g])
                                  /\ Len(table[g]) \in Nat
                                  /\ \A j \in 1 .. Len(table[g]) : table2[g][j] = table[g][j]
      /\ table2[f][Len(table2[f])] = x
  <2>1. InPlace(table, f, x, table2)
    BY <1>1, JoinedFacts
  <2> QED BY <2>1 DEF InPlace
<1>3. f \in DOMAIN table2
  BY DEF Joined
<1> HIDE DEF f, more
<1>4. ASSUME NEW id \in 0 .. (Len(more) - 1)
      PROVE  \E g \in DOMAIN table2 : \E j \in 1 .. Len(table2[g]) : table2[g][j] = <<id, more[id + 1]>>
  <2>1. CASE id = Len(came)
    <3>1. x = <<id, more[id + 1]>>
      BY <1>1, <2>1
    <3>2. Len(table2[f]) \in 1 .. Len(table2[f])
      <4>1. table2[f] \in Seq(Chunks) /\ Len(table2[f]) >= 1
        BY <1>2, <1>3
      <4>2. Len(table2[f]) \in Nat
        BY <4>1
      <4> QED BY <4>1, <4>2
    <3> QED BY <1>2, <1>3, <3>1, <3>2
  <2>2. CASE id # Len(came)
    <3>1. id \in 0 .. (Len(came) - 1) /\ id + 1 \in 1 .. Len(came)
      BY <1>1, <2>2
    <3>2. PICK g \in DOMAIN table : \E j \in 1 .. Len(table[g]) : table[g][j] = <<id, came[id + 1]>>
      BY <3>1 DEF Present
    <3>3. PICK j \in 1 .. Len(table[g]) : table[g][j] = <<id, came[id + 1]>>
      BY <3>2
    <3>4. g \in DOMAIN table2 /\ table2[g][j] = table[g][j] /\ table2[g] \in Seq(Chunks)
          /\ Len(table[g]) <= Len(table2[g]) /\ Len(table[g]) \in Nat
      BY <1>2
    <3>5. Len(table2[g]) \in Nat
      BY <3>4
    <3>6. j \in 1 .. Len(table2[g])
      BY <3>4, <3>5
    <3>7. more[id + 1] = came[id + 1]
      BY <1>1, <3>1
    <3> QED BY ONLY <3>3, <3>4, <3>6, <3>7
  <2> QED BY <2>1, <2>2
<1> QED BY <1>4 DEF Present, more

\* order2 is order, with f at its end if it is new.
Entered(order, table, f, order2) ==
  order2 = IF f \in DOMAIN table THEN order ELSE Append(order, f)

\* insertionOrder still has every feature once: a feature enters with its first
\* chunk only.
LEMMA ListedGrows ==
  ASSUME NEW order, NEW table, Listed(order, table), NEW f, NEW x, NEW order2, NEW table2,
         Joined(table, f, x, table2), Entered(order, table, f, order2)
  PROVE  Listed(order2, table2)
<1>1. /\ order \in Seq(DOMAIN table)
      /\ \A a, b \in 1 .. Len(order) : order[a] = order[b] => a = b
      /\ \A g \in DOMAIN table : \E a \in 1 .. Len(order) : order[a] = g
  BY DEF Listed
<1>2. DOMAIN table2 = DOMAIN table \union {f}
  BY DEF Joined
<1>3. CASE f \in DOMAIN table
  <2>1. order2 = order /\ DOMAIN table2 = DOMAIN table
    BY <1>2, <1>3 DEF Entered
  <2> QED BY <1>1, <2>1 DEF Listed
<1>4. CASE f \notin DOMAIN table
  <2> DEFINE D == DOMAIN table2
  <2>1. order2 = Append(order, f)
    BY <1>4 DEF Entered
  <2>2. order \in Seq(D) /\ f \in D
    <3>1. \A i \in 1 .. Len(order) : order[i] \in D
      BY <1>1, <1>2
    <3>2. Len(order) \in Nat /\ order \in [1 .. Len(order) -> DOMAIN table]
      BY <1>1
    <3>3. order \in [1 .. Len(order) -> D]
      BY <3>1, <3>2
    <3> QED BY <1>2, <3>2, <3>3
  <2> HIDE DEF D
  <2>3. /\ order2 \in Seq(D) /\ Len(order) \in Nat /\ Len(order2) = Len(order) + 1
        /\ order2[Len(order) + 1] = f /\ \A i \in 1 .. Len(order) : order2[i] = order[i]
    BY <2>1, <2>2
  <2>4. \A i \in 1 .. Len(order) : order[i] # f
    BY <1>1, <1>4
  <2>5. ASSUME NEW a \in 1 .. Len(order2), NEW b \in 1 .. Len(order2), order2[a] = order2[b]
        PROVE  a = b
    <3>1. (a \in 1 .. Len(order) \/ a = Len(order) + 1) /\ (b \in 1 .. Len(order) \/ b = Len(order) + 1)
      BY <2>3
    <3>2. Len(order) + 1 \notin 1 .. Len(order)
      BY <2>3
    <3>3. CASE a \in 1 .. Len(order) /\ b \in 1 .. Len(order)
      <4>1. order[a] = order[b]
        BY <2>3, <2>5, <3>3
      <4> QED BY <1>1, <3>3, <4>1
    <3>4. CASE a \in 1 .. Len(order) /\ b = Len(order) + 1
      <4>1. order[a] = f
        BY <2>3, <2>5, <3>4
      <4> QED BY <2>4, <3>4, <4>1
    <3>5. CASE a = Len(order) + 1 /\ b \in 1 .. Len(order)
      <4>1. order[b] = f
        BY <2>3, <2>5, <3>5
      <4> QED BY <2>4, <3>5, <4>1
    <3> QED BY <3>1, <3>3, <3>4, <3>5
  <2>6. ASSUME NEW g \in D PROVE \E a \in 1 .. Len(order2) : order2[a] = g
    <3>1. CASE g = f
      <4>1. Len(order) + 1 \in 1 .. Len(order2)
        BY <2>3
      <4> QED BY <2>3, <3>1, <4>1
    <3>2. CASE g # f
      <4>1. PICK a \in 1 .. Len(order) : order[a] = g
        BY <1>1, <1>2, <3>2 DEF D
      <4>2. a \in 1 .. Len(order2)
        BY <2>3
      <4> QED BY <2>3, <4>1, <4>2
    <3> QED BY <3>1, <3>2
  <2> QED BY <2>3, <2>5, <2>6 DEF Listed, D
<1> QED BY <1>3, <1>4

\* A new feature comes after all those that have chunks.
LEMMA FirstsGrow ==
  ASSUME NEW came \in Seq(Contents), NEW order, NEW table, HeldIn(came, table), Listed(order, table),
         FirstsRise(order, table), NEW c \in Contents, NEW x, x = <<Len(came), c>>,
         NEW order2, NEW table2, Joined(table, Feature[c], x, table2),
         Entered(order, table, Feature[c], order2)
  PROVE  FirstsRise(order2, table2)
<1> DEFINE f == Feature[c]
<1>1. x \in Chunks /\ x[1] = Len(came) /\ Len(came) \in Nat
  BY DEF Chunks
<1>2. order \in Seq(DOMAIN table) /\ Len(order) \in Nat /\ \A i \in 1 .. Len(order) : order[i] \in DOMAIN table
  BY DEF Listed
<1>3. \A a, b \in 1 .. Len(order) : a < b => table[order[a]][1][1] < table[order[b]][1][1]
  BY DEF FirstsRise
<1>4. \A g \in DOMAIN table : table2[g][1] = table[g][1] /\ table[g][1][1] < Len(came)
  <2> TAKE g \in DOMAIN table
  <2>1. InPlace(table, f, x, table2)
    BY <1>1, JoinedFacts
  <2>2. Len(table[g]) \in Nat /\ Len(table[g]) >= 1
    BY <2>1 DEF InPlace, HeldIn
  <2>3. 1 \in 1 .. Len(table[g])
    BY <2>2
  <2> QED BY <2>1, <2>3 DEF InPlace, HeldIn
<1>5. ASSUME NEW a \in 1 .. Len(order), NEW b \in 1 .. Len(order), a < b
      PROVE  table2[order[a]][1][1] < table2[order[b]][1][1]
  BY <1>2, <1>3, <1>4, <1>5
<1>6. CASE f \in DOMAIN table
  <2>1. order2 = order
    BY <1>6 DEF Entered
  <2> QED BY <1>5, <2>1 DEF FirstsRise
<1>7. CASE f \notin DOMAIN table
  <2>1. order2 = Append(order, f)
    BY <1>7 DEF Entered
  <2>2. /\ Len(order2) = Len(order) + 1 /\ order2[Len(order) + 1] = f
        /\ \A i \in 1 .. Len(order) : order2[i] = order[i]
    <3> HIDE DEF f
    <3>1. PICK D : order \in Seq(D) /\ f \in D
      <4>1. order \in Seq(DOMAIN table \union {f})
        <5>1. order \in [1 .. Len(order) -> DOMAIN table]
          BY <1>2
        <5>2. order \in [1 .. Len(order) -> DOMAIN table \union {f}]
          BY <5>1
        <5> QED BY <1>2, <5>2
      <4> QED BY <4>1
    <3> QED BY <2>1, <3>1
  <2>3. table2[f][1][1] = Len(came)
    <3>1. table2[f] = Append(<<>>, x)
      BY <1>7 DEF Joined
    <3>2. table2[f][1] = x
      BY <3>1
    <3> QED BY <1>1, <3>2
  <2>4. ASSUME NEW a \in 1 .. Len(order2), NEW b \in 1 .. Len(order2), a < b
        PROVE  table2[order2[a]][1][1] < table2[order2[b]][1][1]
    <3>1. a \in 1 .. Len(order) /\ (b \in 1 .. Len(order) \/ b = Len(order) + 1)
      BY <1>2, <2>2, <2>4
    <3>2. CASE b \in 1 .. Len(order)
      BY <1>5, <2>2, <2>4, <3>1, <3>2
    <3>3. CASE b = Len(order) + 1
      <4>1. table2[order2[b]][1][1] = Len(came) /\ order2[a] = order[a]
        BY <2>2, <2>3, <3>1, <3>3
      <4>2. order[a] \in DOMAIN table
        BY <1>2, <3>1
      <4> QED BY <1>4, <4>1, <4>2
    <3> QED BY <3>1, <3>2, <3>3
  <2> QED BY <2>4 DEF FirstsRise
<1> QED BY <1>6, <1>7

\* The groups, listed by insertionOrder.
LEMMA GroupsInSeq ==
  ASSUME NEW came, NEW order, NEW table, HeldIn(came, table), Listed(order, table)
  PROVE  /\ GroupsIn(order, table) \in Seq(Seq(Chunks)) /\ Len(GroupsIn(order, table)) = Len(order)
         /\ Len(order) \in Nat /\ DOMAIN order = 1 .. Len(order)
         /\ \A k \in 1 .. Len(order) : /\ order[k] \in DOMAIN table /\ table[order[k]] \in Seq(Chunks)
                                        /\ GroupsIn(order, table)[k] = table[order[k]]
<1>1. /\ Len(order) \in Nat /\ DOMAIN order = 1 .. Len(order)
      /\ \A k \in 1 .. Len(order) : order[k] \in DOMAIN table
  BY DEF Listed
<1>2. \A k \in 1 .. Len(order) : table[order[k]] \in Seq(Chunks)
  BY <1>1 DEF HeldIn
<1> QED BY <1>1, <1>2 DEF GroupsIn

\* Groups hold one chunk more in all, and its bytes.
LEMMA MeasuredGrows ==
  ASSUME NEW came \in Seq(Contents), NEW order, NEW table, HeldIn(came, table), Listed(order, table),
         Measured(came, order, table), NEW c \in Contents, NEW x, x = <<Len(came), c>>,
         NEW order2, NEW table2, Joined(table, Feature[c], x, table2),
         Entered(order, table, Feature[c], order2)
  PROVE  Measured(Append(came, c), order2, table2)
<1> DEFINE f == Feature[c]
           ss == GroupsIn(order, table)
           tt == GroupsIn(order2, table2)
           more == Append(came, c)
           n == Len(order)
<1>1. /\ x \in Chunks /\ Len(came) \in Nat /\ Len(more) = Len(came) + 1
  BY DEF Chunks
<1>2. ChunkSize[c] \in Nat
  BY MigratoryAssumption DEF MigratoryAssumption
<1>3. Size(more) = Size(came) + ChunkSize[c] /\ Size(came) \in Nat
  BY SizeFacts
<1>4. Total(Lengths(ss)) = Len(came) /\ Total(GroupSizes(ss)) = Size(came)
  BY DEF Measured
<1>5. HeldIn(more, table2) /\ Listed(order2, table2)
  BY HeldGrows, ListedGrows
<1>6. /\ ss \in Seq(Seq(Chunks)) /\ Len(ss) = n /\ n \in Nat
      /\ \A k \in 1 .. n : /\ order[k] \in DOMAIN table /\ table[order[k]] \in Seq(Chunks)
                            /\ ss[k] = table[order[k]]
  BY GroupsInSeq
<1>7. /\ tt \in Seq(Seq(Chunks)) /\ Len(tt) = Len(order2)
      /\ \A k \in 1 .. Len(order2) : tt[k] = table2[order2[k]]
  BY <1>5, GroupsInSeq
<1>8. \A s \in Seq(Chunks) : /\ Append(s, x) \in Seq(Chunks) /\ Len(Append(s, x)) = Len(s) + 1
                              /\ Size(ContentsOf(Append(s, x))) = Size(ContentsOf(s)) + ChunkSize[c]
  <2> TAKE s \in Seq(Chunks)
  <2>1. ContentsOf(Append(s, x)) = Append(ContentsOf(s), c) /\ ContentsOf(s) \in Seq(Contents)
    BY <1>1, ContentsOfFacts
  <2>2. Size(Append(ContentsOf(s), c)) = Size(ContentsOf(s)) + ChunkSize[c]
    BY <2>1, SizeFacts
  <2>3. Append(s, x) \in Seq(Chunks) /\ Len(Append(s, x)) = Len(s) + 1
    BY <1>1
  <2> QED BY ONLY <2>1, <2>2, <2>3
<1>9. \A uu \in Seq(Seq(Chunks)) :
        /\ Lengths(uu) \in Seq(Nat) /\ GroupSizes(uu) \in Seq(Nat)
        /\ Len(Lengths(uu)) = Len(uu) /\ Len(GroupSizes(uu)) = Len(uu)
        /\ \A k \in 1 .. Len(uu) : Lengths(uu)[k] = Len(uu[k]) /\ GroupSizes(uu)[k] = Size(ContentsOf(uu[k]))
  <2> TAKE uu \in Seq(Seq(Chunks))
  <2>1. Lengths(uu) \in Seq(Nat) /\ GroupSizes(uu) \in Seq(Nat)
    BY FlattenMeasures
  <2>2. DOMAIN uu = 1 .. Len(uu) /\ Len(uu) \in Nat
    OBVIOUS
  <2>3. DOMAIN Lengths(uu) = 1 .. Len(uu) /\ DOMAIN GroupSizes(uu) = 1 .. Len(uu)
    BY <2>2 DEF Lengths, GroupSizes
  <2>4. Len(Lengths(uu)) = Len(uu) /\ Len(GroupSizes(uu)) = Len(uu)
    BY <2>1, <2>2, <2>3
  <2>5. \A k \in 1 .. Len(uu) : Lengths(uu)[k] = Len(uu[k]) /\ GroupSizes(uu)[k] = Size(ContentsOf(uu[k]))
    BY <2>2 DEF Lengths, GroupSizes
  <2> QED BY <2>1, <2>4, <2>5
<1>10. \A g \in DOMAIN table : g # f => table2[g] = table[g]
  BY DEF Joined
<1> HIDE DEF ss, tt, more, n, f
<1>11. CASE f \in DOMAIN table
  <2>1. order2 = order
    BY <1>11 DEF Entered, f
  <2>2. PICK i \in 1 .. n : order[i] = f /\ \A k \in 1 .. n : order[k] = f => k = i
    BY <1>11 DEF Listed, n
  <2>3. table2[f] = Append(table[f], x)
    BY <1>11 DEF Joined, f
  <2>4. ASSUME NEW k \in 1 .. n
        PROVE  /\ Len(tt[k]) = IF k = i THEN Len(ss[k]) + 1 ELSE Len(ss[k])
               /\ Size(ContentsOf(tt[k])) =
                    IF k = i THEN Size(ContentsOf(ss[k])) + ChunkSize[c] ELSE Size(ContentsOf(ss[k]))
    <3>1. tt[k] = table2[order[k]] /\ ss[k] = table[order[k]] /\ ss[k] \in Seq(Chunks)
      BY <1>6, <1>7, <2>1 DEF n
    <3>2. CASE k = i
      <4>1. tt[k] = Append(ss[k], x)
        BY <2>2, <2>3, <3>1, <3>2
      <4> QED BY <1>8, <3>1, <3>2, <4>1
    <3>3. CASE k # i
      <4>1. tt[k] = ss[k]
        BY <1>6, <1>10, <2>2, <3>1, <3>3
      <4> QED BY <3>3, <4>1
    <3> QED BY <3>2, <3>3
  <2>5. Len(tt) = n
    BY <1>7, <2>1 DEF n
  <2>6. /\ Lengths(ss) \in Seq(Nat) /\ Lengths(tt) \in Seq(Nat) /\ Len(Lengths(ss)) = n
        /\ Len(Lengths(tt)) = n
        /\ GroupSizes(ss) \in Seq(Nat) /\ GroupSizes(tt) \in Seq(Nat) /\ Len(GroupSizes(ss)) = n /\ Len(GroupSizes(tt)) = n
    BY <1>6, <1>7, <1>9, <2>5
  <2>7. ASSUME NEW k \in 1 .. n
        PROVE  /\ Lengths(tt)[k] = IF k = i THEN Lengths(ss)[k] + 1 ELSE Lengths(ss)[k]
               /\ GroupSizes(tt)[k] = IF k = i THEN GroupSizes(ss)[k] + ChunkSize[c] ELSE GroupSizes(ss)[k]
    <3>1. k \in 1 .. Len(tt) /\ k \in 1 .. Len(ss)
      BY <1>6, <2>5
    <3>2. /\ Lengths(tt)[k] = Len(tt[k]) /\ GroupSizes(tt)[k] = Size(ContentsOf(tt[k]))
          /\ Lengths(ss)[k] = Len(ss[k]) /\ GroupSizes(ss)[k] = Size(ContentsOf(ss[k]))
      BY <1>6, <1>7, <1>9, <3>1
    <3> QED BY ONLY <2>4, <3>2, k \in 1 .. n
  <2>8. Grown(Lengths(ss), Lengths(tt), n, i, 1) /\ Grown(GroupSizes(ss), GroupSizes(tt), n, i, ChunkSize[c])
    BY <2>7 DEF Grown
  <2>9. Total(Lengths(tt)) = Total(Lengths(ss)) + 1
    BY <2>6, <2>8, TotalGrows
  <2>10. Total(GroupSizes(tt)) = Total(GroupSizes(ss)) + ChunkSize[c]
    BY <1>2, <2>6, <2>8, TotalGrows
  <2> QED BY <1>1, <1>3, <1>4, <2>9, <2>10 DEF Measured, tt, more
<1>12. CASE f \notin DOMAIN table
  <2>1. order2 = Append(order, f)
    BY <1>12 DEF Entered, f
  <2>2. table2[f] = Append(<<>>, x) /\ <<>> \in Seq(Chunks)
    BY <1>12 DEF Joined, f
  <2>3. /\ Len(order2) = n + 1 /\ order2[n + 1] = f
        /\ \A i \in 1 .. n : order2[i] = order[i]
    <3>1. order \in Seq(DOMAIN table \union {f})
      <4>1. order \in [1 .. n -> DOMAIN table]
        BY DEF Listed, n
      <4>2. order \in [1 .. n -> DOMAIN table \union {f}]
        BY <4>1
      <4> QED BY <1>6, <4>2
    <3>2. PICK D : order \in Seq(D) /\ f \in D
      BY <3>1
    <3> QED BY <2>1, <3>2 DEF n
  <2>4. /\ Len(tt) = n + 1 /\ tt[n + 1] = Append(<<>>, x) /\ Len(tt[n + 1]) = 1
        /\ Size(ContentsOf(tt[n + 1])) = ChunkSize[c]
    <3>1. Len(tt) = n + 1 /\ n + 1 \in 1 .. Len(order2)
      BY <1>6, <1>7, <2>3
    <3>2. tt[n + 1] = Append(<<>>, x)
      BY <1>7, <2>2, <2>3, <3>1
    <3>3. Len(<<>>) = 0 /\ Size(ContentsOf(<<>>)) = 0
      BY ContentsOfFacts, SizeFacts
    <3>4. Len(Append(<<>>, x)) = 0 + 1 /\ Size(ContentsOf(Append(<<>>, x))) = 0 + ChunkSize[c]
      BY <1>8, <2>2, <3>3
    <3> QED BY <1>2, <3>1, <3>2, <3>4
  <2>5. ASSUME NEW k \in 1 .. n PROVE tt[k] = ss[k]
    <3>1. k \in 1 .. Len(order2)
      BY <1>6, <2>3
    <3>2. tt[k] = table2[order[k]] /\ order[k] \in DOMAIN table
      BY <1>6, <1>7, <2>3, <3>1
    <3> QED BY <1>6, <1>10, <1>12, <3>2
  <2>6. /\ Lengths(ss) \in Seq(Nat) /\ Lengths(tt) \in Seq(Nat) /\ Len(Lengths(ss)) = n
        /\ Len(Lengths(tt)) = n + 1 /\ GroupSizes(ss) \in Seq(Nat) /\ GroupSizes(tt) \in Seq(Nat)
        /\ Len(GroupSizes(ss)) = n /\ Len(GroupSizes(tt)) = n + 1
    BY <1>6, <1>7, <1>9, <2>4
  <2>7. \A k \in 1 .. n : Lengths(tt)[k] = Lengths(ss)[k] /\ GroupSizes(tt)[k] = GroupSizes(ss)[k]
    <3> TAKE k \in 1 .. n
    <3>1. k \in 1 .. Len(tt) /\ k \in 1 .. Len(ss) /\ tt[k] = ss[k]
      BY <1>6, <2>4, <2>5
    <3>2. /\ Lengths(tt)[k] = Len(tt[k]) /\ GroupSizes(tt)[k] = Size(ContentsOf(tt[k]))
          /\ Lengths(ss)[k] = Len(ss[k]) /\ GroupSizes(ss)[k] = Size(ContentsOf(ss[k]))
      BY <1>6, <1>7, <1>9, <3>1
    <3> QED BY ONLY <3>1, <3>2
  <2>8. Lengths(tt)[n + 1] = 1 /\ GroupSizes(tt)[n + 1] = ChunkSize[c]
    <3>1. n + 1 \in 1 .. Len(tt)
      BY <1>6, <2>4
    <3> QED BY <1>7, <1>9, <2>4, <3>1
  <2>9. Lengths(tt) = Append(Lengths(ss), 1) /\ GroupSizes(tt) = Append(GroupSizes(ss), ChunkSize[c])
    <3>1. \A s \in Seq(Nat), t \in Seq(Nat), y \in Nat :
            (Len(s) = n /\ Len(t) = n + 1 /\ t[n + 1] = y /\ \A k \in 1 .. n : t[k] = s[k]) => t = Append(s, y)
      <4> SUFFICES ASSUME NEW s \in Seq(Nat), NEW t \in Seq(Nat), NEW y \in Nat,
                          Len(s) = n, Len(t) = n + 1, t[n + 1] = y, \A k \in 1 .. n : t[k] = s[k]
                   PROVE  t = Append(s, y)
        OBVIOUS
      <4>1. Append(s, y) \in Seq(Nat) /\ Len(Append(s, y)) = n + 1 /\ Append(s, y)[n + 1] = y
            /\ \A k \in 1 .. n : Append(s, y)[k] = s[k]
        OBVIOUS
      <4>2. \A k \in 1 .. (n + 1) : k \in 1 .. n \/ k = n + 1
        BY <1>6
      <4>3. \A k \in 1 .. (n + 1) : t[k] = Append(s, y)[k]
        BY <4>1, <4>2
      <4> QED BY <4>1, <4>3, SeqEqual
    <3> QED BY <1>2, <2>6, <2>7, <2>8, <3>1
  <2>10. /\ Total(Lengths(tt)) = Total(Lengths(ss)) + 1
         /\ Total(GroupSizes(tt)) = Total(GroupSizes(ss)) + ChunkSize[c]
    BY <1>2, <2>6, <2>9, TotalAppend
  <2> QED BY <1>1, <1>3, <1>4, <2>10 DEF Measured, tt, more
<1> QED BY <1>11, <1>12

\* One chunk through ProcessTrace keeps all there is to say of the groups.
LEMMA GroupsGrow ==
  ASSUME NEW came \in Seq(Contents), NEW order, NEW table, GroupedAs(came, order, table),
         NEW c \in Contents, NEW x, x = <<Len(came), c>>, NEW order2, NEW table2,
         Joined(table, Feature[c], x, table2), Entered(order, table, Feature[c], order2)
  PROVE  GroupedAs(Append(came, c), order2, table2)
<1>1. /\ Listed(order, table) /\ HeldIn(came, table) /\ Present(came, table)
      /\ FirstsRise(order, table) /\ Measured(came, order, table)
  BY DEF GroupedAs
<1>2. HeldIn(Append(came, c), table2) /\ Listed(order2, table2)
  BY <1>1, HeldGrows, ListedGrows
<1>3. Present(Append(came, c), table2)
  BY <1>1, PresentGrows
<1>4. FirstsRise(order2, table2)
  BY <1>1, FirstsGrow
<1>5. Measured(Append(came, c), order2, table2)
  BY <1>1, MeasuredGrows
<1> QED BY <1>2, <1>3, <1>4, <1>5 DEF GroupedAs

-----------------------------------------------------------------------------
(* What is read *)

\* The first n items of a sequence.
LEMMA PrefixFacts ==
  ASSUME NEW S, NEW s \in Seq(S)
  PROVE  /\ \A n \in 0 .. Len(s) : SubSeq(s, 1, n) \in Seq(S)
         /\ SubSeq(s, 1, 0) = <<>> /\ SubSeq(s, 1, Len(s)) = s
         /\ \A n \in 0 .. (Len(s) - 1) :
              s[n + 1] \in S /\ SubSeq(s, 1, n + 1) = Append(SubSeq(s, 1, n), s[n + 1])
<1>1. Len(s) \in Nat /\ \A k \in 1 .. Len(s) : s[k] \in S
  OBVIOUS
<1>2. ASSUME NEW n \in 0 .. Len(s)
      PROVE  /\ SubSeq(s, 1, n) \in Seq(S) /\ Len(SubSeq(s, 1, n)) = n
             /\ \A k \in 1 .. n : SubSeq(s, 1, n)[k] = s[k]
  BY <1>1
<1>3. SubSeq(s, 1, 0) = <<>>
  <2>1. SubSeq(s, 1, 0) \in Seq(S) /\ Len(SubSeq(s, 1, 0)) = 0
    BY <1>1, <1>2
  <2> QED BY <2>1, EmptySeq
<1>4. SubSeq(s, 1, Len(s)) = s
  <2>1. /\ SubSeq(s, 1, Len(s)) \in Seq(S) /\ Len(SubSeq(s, 1, Len(s))) = Len(s)
        /\ \A k \in 1 .. Len(s) : SubSeq(s, 1, Len(s))[k] = s[k]
    BY <1>1, <1>2
  <2> QED BY <2>1, SeqEqual
<1>5. ASSUME NEW n \in 0 .. (Len(s) - 1)
      PROVE  s[n + 1] \in S /\ SubSeq(s, 1, n + 1) = Append(SubSeq(s, 1, n), s[n + 1])
  <2>1. n \in 0 .. Len(s) /\ n + 1 \in 0 .. Len(s) /\ n + 1 \in 1 .. Len(s) /\ n \in Nat
    BY <1>1
  <2>2. s[n + 1] \in S
    BY <1>1, <2>1
  <2> DEFINE u == SubSeq(s, 1, n)
             v == SubSeq(s, 1, n + 1)
             w == Append(u, s[n + 1])
  <2>3. /\ u \in Seq(S) /\ Len(u) = n /\ (\A k \in 1 .. n : u[k] = s[k])
        /\ v \in Seq(S) /\ Len(v) = n + 1 /\ (\A k \in 1 .. (n + 1) : v[k] = s[k])
    BY <1>2, <2>1
  <2> HIDE DEF u, v
  <2>4. w \in Seq(S) /\ Len(w) = n + 1 /\ w[n + 1] = s[n + 1] /\ \A k \in 1 .. n : w[k] = u[k]
    BY <2>2, <2>3
  <2>5. \A k \in 1 .. (n + 1) : v[k] = w[k]
    <3>1. \A k \in 1 .. (n + 1) : k \in 1 .. n \/ k = n + 1
      BY <2>1
    <3> QED BY <2>3, <2>4, <3>1
  <2> HIDE DEF w
  <2>6. v = w
    BY <2>3, <2>4, <2>5, SeqEqual
  <2> QED BY <2>2, <2>6 DEF u, v, w
<1> QED BY <1>2, <1>3, <1>4, <1>5

\* What MigratoryAssumption says of the list of files.
LEMMA FilesFacts ==
  ASSUME files \in FileLists
  PROVE  /\ files \in Seq(Seq(Contents)) /\ BackupNum \in Nat /\ BackupNum <= Len(files) /\ Len(files) \in Nat
         /\ \A n \in 1 .. Len(files) : files[n] \in Seq(Contents)
<1>1. files \in Seq(Seq(Contents)) /\ BackupNum \in Nat /\ BackupNum <= Len(files)
  BY MigratoryAssumption DEF MigratoryAssumption
<1> QED BY <1>1

\* The first n files.
Upto(n) == FlattenSeq(SubSeq(files, 1, n))

\* The first n + 1 files are the first n and one more.
LEMMA UptoFacts ==
  ASSUME files \in FileLists
  PROVE  /\ \A n \in 0 .. Len(files) : Upto(n) \in Seq(Contents)
         /\ Upto(0) = <<>>
         /\ \A n \in 0 .. (Len(files) - 1) : Upto(n + 1) = Upto(n) \o files[n + 1]
<1>1. files \in Seq(Seq(Contents))
  BY FilesFacts
<1>2. \A n \in 0 .. Len(files) : SubSeq(files, 1, n) \in Seq(Seq(Contents))
  BY <1>1, PrefixFacts
<1>3. SubSeq(files, 1, 0) = <<>>
  BY <1>1, PrefixFacts
<1>4. ASSUME NEW n \in 0 .. (Len(files) - 1) PROVE Upto(n + 1) = Upto(n) \o files[n + 1]
  <2>1. /\ files[n + 1] \in Seq(Contents)
        /\ SubSeq(files, 1, n + 1) = Append(SubSeq(files, 1, n), files[n + 1])
    BY <1>1, PrefixFacts
  <2>2. n \in 0 .. Len(files)
    BY FilesFacts
  <2>3. SubSeq(files, 1, n) \in Seq(Seq(Contents))
    BY <1>2, <2>2
  <2> QED BY <2>1, <2>3, FlattenAppend DEF Upto
<1> QED BY <1>2, <1>3, <1>4, FlattenType, FlattenEmpty DEF Upto

\* A chunk appended to a file is appended to all that came.
LEMMA AppendToJoin ==
  ASSUME NEW S, NEW u \in Seq(S), NEW v \in Seq(S), NEW c \in S
  PROVE  u \o Append(v, c) = Append(u \o v, c)
<1> DEFINE w == Append(v, c)
           x == u \o w
           y == u \o v
           z == Append(y, c)
<1>1. /\ Len(u) \in Nat /\ Len(v) \in Nat /\ w \in Seq(S) /\ Len(w) = Len(v) + 1 /\ w[Len(v) + 1] = c
      /\ \A k \in 1 .. Len(v) : w[k] = v[k]
  OBVIOUS
<1> HIDE DEF w
<1>2. /\ x \in Seq(S) /\ Len(x) = Len(u) + Len(w) /\ (\A k \in 1 .. Len(u) : x[k] = u[k])
      /\ \A k \in 1 .. Len(w) : x[Len(u) + k] = w[k]
  BY <1>1
<1>3. /\ y \in Seq(S) /\ Len(y) = Len(u) + Len(v) /\ (\A k \in 1 .. Len(u) : y[k] = u[k])
      /\ \A k \in 1 .. Len(v) : y[Len(u) + k] = v[k]
  OBVIOUS
<1> HIDE DEF x, y
<1>4. /\ z \in Seq(S) /\ Len(z) = Len(y) + 1 /\ z[Len(y) + 1] = c /\ \A k \in 1 .. Len(y) : z[k] = y[k]
  BY <1>3
<1> HIDE DEF z
<1>5. ASSUME NEW k \in 1 .. Len(x) PROVE x[k] = z[k]
  <2>1. CASE k \in 1 .. Len(u)
    <3>1. k \in 1 .. Len(y)
      BY <1>1, <1>3, <2>1
    <3> QED BY <1>2, <1>3, <1>4, <2>1, <3>1
  <2>2. CASE k \notin 1 .. Len(u)
    <3>1. PICK j \in 1 .. (Len(v) + 1) : k = Len(u) + j
      <4>1. k - Len(u) \in 1 .. (Len(v) + 1) /\ k = Len(u) + (k - Len(u))
        BY <1>1, <1>2, <2>2
      <4> QED BY <4>1
    <3>2. x[k] = w[j]
      BY <1>1, <1>2, <3>1
    <3>3. CASE j = Len(v) + 1
      <4>1. k = Len(y) + 1
        BY <1>1, <1>3, <3>1, <3>3
      <4> QED BY <1>1, <1>4, <3>2, <3>3, <4>1
    <3>4. CASE j # Len(v) + 1
      <4>1. j \in 1 .. Len(v) /\ k \in 1 .. Len(y)
        BY <1>1, <1>3, <3>1, <3>4
      <4>2. y[k] = v[j]
        BY <1>3, <3>1, <4>1
      <4> QED BY <1>1, <1>4, <3>2, <4>1, <4>2
    <3> QED BY <3>3, <3>4
  <2> QED BY <2>1, <2>2
<1>6. Len(x) = Len(z)
  BY <1>1, <1>2, <1>3, <1>4
<1>7. x = z
  BY <1>2, <1>4, <1>5, <1>6, SeqEqual
<1> QED BY <1>7 DEF x, y, z, w

\* Process takes the next chunk of the file.
LEMMA ProcessReads ==
  ASSUME ReadInv, Process
  PROVE  /\ files[backup + 1][read + 1] \in Contents
         /\ Came' = Append(Came, files[backup + 1][read + 1])
         /\ ReadInv'
<1> DEFINE F == files[backup + 1]
           c == F[read + 1]
<1>1. /\ files \in FileLists /\ backup \in Nat /\ backup < BackupNum /\ read \in Nat /\ read < Len(F)
      /\ Came \in Seq(Contents) /\ uniquechunkNum = Len(Came) /\ logicalchunkSize = Size(Came)
      /\ backup \in 0 .. BackupNum
  BY FilesFacts DEF ReadInv, Process
<1>2. BackupNum \in Nat /\ BackupNum <= Len(files) /\ Len(files) \in Nat
  BY <1>1, FilesFacts
<1>3. F \in Seq(Contents) /\ Len(F) \in Nat
  <2>1. backup + 1 \in 1 .. Len(files)
    BY <1>1, <1>2
  <2>2. F \in Seq(Contents)
    BY <1>1, <2>1, FilesFacts
  <2> QED BY <2>2
<1>4. UNCHANGED <<files, backup>> /\ read' = read + 1 /\ uniquechunkNum' = uniquechunkNum + 1
      /\ logicalchunkSize' = logicalchunkSize + ChunkSize[c]
  BY DEF Process
<1>5. Came = Upto(backup) \o SubSeq(F, 1, read) /\ Came' = Upto(backup) \o SubSeq(F, 1, read + 1)
  BY <1>1, <1>4 DEF Came, Upto
<1> HIDE DEF F
<1>6. /\ read \in 0 .. (Len(F) - 1) /\ read \in 0 .. Len(F)
  BY <1>1, <1>3
<1>7. c \in Contents /\ SubSeq(F, 1, read + 1) = Append(SubSeq(F, 1, read), c)
      /\ SubSeq(F, 1, read) \in Seq(Contents)
  BY <1>3, <1>6, PrefixFacts
<1>8. Upto(backup) \in Seq(Contents)
  <2>1. backup \in 0 .. Len(files)
    BY <1>1, <1>2
  <2> QED BY <1>1, <2>1, UptoFacts
<1> HIDE DEF c
<1>9. Came' = Append(Came, c)
  BY <1>5, <1>7, <1>8, AppendToJoin
<1>10. /\ Came' \in Seq(Contents) /\ Len(Came') = Len(Came) + 1
       /\ Size(Came') = Size(Came) + ChunkSize[c]
  <2>1. Append(Came, c) \in Seq(Contents) /\ Len(Append(Came, c)) = Len(Came) + 1
    BY <1>1, <1>7
  <2>2. Size(Append(Came, c)) = Size(Came) + ChunkSize[c]
    BY <1>1, <1>7, SizeFacts
  <2> QED BY <1>9, <2>1, <2>2
<1>11. read' \in Nat /\ read' <= Len(files[backup + 1])
  BY <1>1, <1>3, <1>4 DEF F
<1>12. uniquechunkNum' = Len(Came') /\ logicalchunkSize' = Size(Came')
  <2>1. uniquechunkNum' = Len(Came')
    BY <1>1, <1>4, <1>10
  <2>2. logicalchunkSize' = Size(Came) + ChunkSize[c]
    BY <1>1, <1>4 DEF c
  <2>3. logicalchunkSize' = Size(Came')
    BY <1>10, <2>2
  <2> QED BY <2>1, <2>3
<1>13. Size(Came)' = Size(Came')
  BY DEF Size, Total, SizesIn
<1>14. ReadInv'
  <2>1. Came' \in Seq(Contents) /\ uniquechunkNum' = Len(Came') /\ logicalchunkSize' = Size(Came)'
    BY <1>10, <1>12, <1>13
  <2>2. /\ files' \in FileLists /\ backup' \in 0 .. BackupNum /\ read' \in Nat
        /\ backup' < BackupNum => read' <= Len(files'[backup' + 1])
    BY <1>1, <1>4, <1>11
  <2> QED BY <2>1, <2>2 DEF ReadInv
<1> QED BY <1>7, <1>9, <1>14 DEF F, c

\* The end of a file adds nothing to what came.
LEMMA EndBackupReads ==
  ASSUME ReadInv, EndBackup
  PROVE  Came' = Came /\ ReadInv'
<1> DEFINE F == files[backup + 1]
<1>1. /\ files \in FileLists /\ backup \in Nat /\ backup < BackupNum /\ read \in Nat /\ read = Len(F)
      /\ Came \in Seq(Contents) /\ uniquechunkNum = Len(Came) /\ logicalchunkSize = Size(Came)
  BY FilesFacts DEF ReadInv, EndBackup
<1>2. BackupNum \in Nat /\ BackupNum <= Len(files) /\ Len(files) \in Nat
  BY <1>1, FilesFacts
<1>3. /\ F \in Seq(Contents) /\ backup + 1 \in 0 .. Len(files) /\ backup \in 0 .. (Len(files) - 1)
      /\ backup + 1 \in 0 .. BackupNum
  <2>1. backup + 1 \in 1 .. Len(files) /\ backup + 1 \in 0 .. Len(files) /\ backup \in 0 .. (Len(files) - 1)
        /\ backup + 1 \in 0 .. BackupNum
    BY <1>1, <1>2
  <2> QED BY <1>1, <2>1, FilesFacts
<1>4. UNCHANGED <<files, uniquechunkNum, logicalchunkSize>> /\ read' = 0 /\ backup' = backup + 1
  BY DEF EndBackup
<1>5. Came = Upto(backup) \o SubSeq(F, 1, Len(F))
  BY <1>1 DEF Came, Upto
<1>6. Came = Upto(backup + 1)
  <2>1. SubSeq(F, 1, Len(F)) = F
    BY <1>3, PrefixFacts
  <2>2. Upto(backup + 1) = Upto(backup) \o F
    BY <1>1, <1>3, UptoFacts
  <2> QED BY <1>5, <2>1, <2>2
<1>7. Came' = Upto(backup + 1) \o (IF backup + 1 < BackupNum THEN SubSeq(files[backup + 1 + 1], 1, 0) ELSE <<>>)
  BY <1>4 DEF Came, Upto
<1>8. ASSUME backup + 1 < BackupNum PROVE SubSeq(files[backup + 1 + 1], 1, 0) = <<>>
  <2>1. backup + 1 + 1 \in 1 .. Len(files)
    BY <1>1, <1>2, <1>8
  <2>2. files[backup + 1 + 1] \in Seq(Contents)
    BY <1>1, <2>1, FilesFacts
  <2> QED BY <2>2, PrefixFacts
<1>9. Came' = Upto(backup + 1) \o <<>>
  BY <1>7, <1>8
<1>10. Came' = Came
  BY <1>1, <1>6, <1>9, ConcatEmptySeq
<1>11. ReadInv'
  <2>1. backup' < BackupNum => read' <= Len(files'[backup' + 1])
    <3> SUFFICES ASSUME backup + 1 < BackupNum PROVE 0 <= Len(files[backup + 1 + 1])
      BY <1>4
    <3>1. backup + 1 + 1 \in 1 .. Len(files)
      BY <1>1, <1>2
    <3>2. files[backup + 1 + 1] \in Seq(Contents)
      BY <1>1, <3>1, FilesFacts
    <3>3. Len(files[backup + 1 + 1]) \in Nat
      BY <3>2
    <3> QED BY <3>3
  <2>2. Size(Came)' = Size(Came')
    BY DEF Size, Total, SizesIn
  <2> QED BY <1>1, <1>3, <1>4, <1>10, <2>1, <2>2 DEF ReadInv
<1> QED BY <1>10, <1>11

-----------------------------------------------------------------------------
(* What is written *)

\* Rearranged and Grouped of any sequence of chunks.
RearrangedAs(F, came) ==
  /\ Len(F) = Len(came)
  /\ \A id \in 0 .. (Len(came) - 1) : \E k \in DOMAIN F : F[k] = <<id, came[id + 1]>>

\* The first super feature of the k-th chunk.
FeatureAt(F, k) == Feature[F[k][2]]

\* What Grouped says of two places.
Together(F, k, l) ==
  /\ FeatureAt(F, k) = FeatureAt(F, l) =>
       /\ F[k][1] < F[l][1]
       /\ \A j \in k .. l : FeatureAt(F, j) = FeatureAt(F, k)
  /\ \E j \in 1 .. k : FeatureAt(F, j) = FeatureAt(F, k) /\ F[j][1] <= F[l][1]

\* Writing group after group writes what came, each chunk once.
LEMMA JoinRearranges ==
  ASSUME NEW came \in Seq(Contents), NEW order, NEW table, GroupedAs(came, order, table),
         NEW F, F = FlattenSeq(GroupsIn(order, table))
  PROVE  /\ F \in Seq(Chunks) /\ RearrangedAs(F, came) /\ Size(ContentsOf(F)) = Size(came)
<1> DEFINE ss == GroupsIn(order, table)
           n == Len(order)
<1>1. HeldIn(came, table) /\ Listed(order, table) /\ Present(came, table) /\ Measured(came, order, table)
  BY DEF GroupedAs
<1>2. /\ ss \in Seq(Seq(Chunks)) /\ Len(ss) = n /\ n \in Nat
      /\ \A k \in 1 .. n : ss[k] = table[order[k]]
  BY <1>1, GroupsInSeq
<1>3. F \in Seq(Chunks) /\ Len(F) \in Nat /\ DOMAIN F = 1 .. Len(F)
  <2>1. F \in Seq(Chunks)
    BY <1>2, FlattenType
  <2> QED BY <2>1
<1>4. Len(F) = Len(came) /\ Size(ContentsOf(F)) = Size(came)
  BY <1>1, <1>2, FlattenMeasures DEF Measured
<1>5. PICK o : Places(o, F, ss)
  BY <1>2, FlattenPlaces
<1> HIDE DEF ss, n
<1>6. /\ \A k \in 0 .. n : o[k] \in Nat
      /\ \A a, b \in 0 .. n : a <= b => o[a] <= o[b]
  BY <1>2, <1>5, PlacesFacts
<1>7. /\ o[n] = Len(F) /\ \A k \in 1 .. n : /\ o[k] = o[k - 1] + Len(ss[k])
                                           /\ \A j \in 1 .. Len(ss[k]) : F[o[k - 1] + j] = ss[k][j]
  BY <1>2, <1>5 DEF Places
<1>8. ASSUME NEW id \in 0 .. (Len(came) - 1) PROVE \E k \in DOMAIN F : F[k] = <<id, came[id + 1]>>
  <2>1. PICK f \in DOMAIN table : \E j \in 1 .. Len(table[f]) : table[f][j] = <<id, came[id + 1]>>
    BY <1>1 DEF Present
  <2>2. PICK j \in 1 .. Len(table[f]) : table[f][j] = <<id, came[id + 1]>>
    BY <2>1
  <2>3. PICK a \in 1 .. n : order[a] = f
    BY <1>1 DEF Listed, n
  <2>4. ss[a] = table[f]
    BY <1>2, <2>3
  <2>5. /\ F[o[a - 1] + j] = table[f][j] /\ o[a] = o[a - 1] + Len(table[f])
    BY <1>7, <2>4
  <2>6. o[a - 1] \in Nat /\ o[a] \in Nat /\ o[a] <= Len(F)
    <3>1. a - 1 \in 0 .. n /\ a \in 0 .. n /\ n \in 0 .. n /\ a <= n
      BY <1>2
    <3> QED BY <1>6, <1>7, <3>1
  <2>7. Len(table[f]) \in Nat
    <3>1. table[f] \in Seq(Chunks)
      BY <1>1 DEF HeldIn
    <3> QED BY <3>1
  <2>8. o[a - 1] + j \in DOMAIN F
    <3>1. PICK u \in Nat : u = o[a - 1]
      BY <2>6
    <3>2. PICK v \in Nat : v = Len(table[f])
      BY <2>7
    <3>3. u + v <= Len(F) /\ j \in 1 .. v
      BY ONLY <2>5, <2>6, <3>1, <3>2, j \in 1 .. Len(table[f])
    <3>4. u + j \in 1 .. Len(F)
      BY ONLY <1>3, <3>3, u \in Nat, v \in Nat
    <3> QED BY ONLY <1>3, <3>1, <3>4
  <2> QED BY <2>2, <2>5, <2>8
<1> QED BY <1>3, <1>4, <1>8 DEF RearrangedAs

\* ... and similar chunks next to each other, the earlier before the later.
LEMMA JoinGroups ==
  ASSUME NEW came \in Seq(Contents), NEW order, NEW table, GroupedAs(came, order, table),
         NEW F, F = FlattenSeq(GroupsIn(order, table)),
         NEW k \in 1 .. Len(F), NEW l \in 1 .. Len(F), k < l
  PROVE  Together(F, k, l)
<1> DEFINE ss == GroupsIn(order, table)
           n == Len(order)
<1>1. HeldIn(came, table) /\ Listed(order, table) /\ FirstsRise(order, table)
  BY DEF GroupedAs
<1>2. /\ ss \in Seq(Seq(Chunks)) /\ Len(ss) = n /\ n \in Nat
      /\ \A a \in 1 .. n : order[a] \in DOMAIN table /\ table[order[a]] \in Seq(Chunks) /\ ss[a] = table[order[a]]
  <2>1. /\ GroupsIn(order, table) \in Seq(Seq(Chunks)) /\ Len(GroupsIn(order, table)) = Len(order)
        /\ Len(order) \in Nat
    BY <1>1, GroupsInSeq
  <2>2. \A a \in 1 .. Len(order) : /\ order[a] \in DOMAIN table /\ table[order[a]] \in Seq(Chunks)
                                   /\ GroupsIn(order, table)[a] = table[order[a]]
    BY <1>1, GroupsInSeq
  <2> QED BY ONLY <2>1, <2>2
<1>3. F \in Seq(Chunks) /\ Len(F) \in Nat
  <2>1. F \in Seq(Chunks)
    BY <1>2, FlattenType
  <2> QED BY <2>1
<1>4. PICK o : Places(o, F, ss)
  BY <1>2, FlattenPlaces
<1> HIDE DEF ss, n
<1>5. /\ \A a \in 0 .. n : o[a] \in Nat
      /\ \A a, b \in 0 .. n : a <= b => o[a] <= o[b]
      /\ \A p \in 1 .. Len(F) : \E a \in 1 .. n : \E j \in 1 .. Len(ss[a]) : p = o[a - 1] + j
  <2>1. /\ \A a \in 0 .. Len(ss) : o[a] \in Nat
        /\ \A a, b \in 0 .. Len(ss) : a <= b => o[a] <= o[b]
    BY <1>2, <1>4, PlacesFacts
  <2>3. Covered(o, F, ss)
    BY <1>2, <1>4, PlacesFacts
  <2>2. \A p \in 1 .. Len(F) : \E a \in 1 .. Len(ss) : \E j \in 1 .. Len(ss[a]) : p = o[a - 1] + j
    BY <2>3 DEF Covered
  <2> QED BY ONLY <1>2, <2>1, <2>2
<1>6. \A a \in 1 .. n : /\ o[a] = o[a - 1] + Len(ss[a])
                        /\ \A j \in 1 .. Len(ss[a]) : F[o[a - 1] + j] = ss[a][j]
  BY <1>2, <1>4 DEF Places
<1>7. ASSUME NEW a \in 1 .. n
      PROVE  /\ Len(ss[a]) \in Nat /\ Len(ss[a]) >= 1
             /\ \A j \in 1 .. Len(ss[a]) : ss[a][j][1] \in Nat /\ Feature[ss[a][j][2]] = order[a]
             /\ \A i, j \in 1 .. Len(ss[a]) : i < j => ss[a][i][1] < ss[a][j][1]
  <2>1. order[a] \in DOMAIN table /\ ss[a] = table[order[a]] /\ ss[a] \in Seq(Chunks)
    BY <1>2
  <2>2. Len(ss[a]) \in Nat /\ \A j \in 1 .. Len(ss[a]) : ss[a][j] \in Chunks
    BY <2>1
  <2>3. \A j \in 1 .. Len(ss[a]) : ss[a][j][1] \in Nat
    BY <2>2 DEF Chunks
  <2>4. /\ Len(ss[a]) >= 1
        /\ \A j \in 1 .. Len(ss[a]) : Feature[ss[a][j][2]] = order[a]
        /\ \A i, j \in 1 .. Len(ss[a]) : i < j => ss[a][i][1] < ss[a][j][1]
    BY <1>1, <2>1 DEF HeldIn
  <2> QED BY <2>2, <2>3, <2>4
<1>8. \A a, b \in 1 .. n : a < b => ss[a][1][1] < ss[b][1][1]
  BY <1>1, <1>2 DEF FirstsRise, n
<1>9. \A a, b \in 1 .. n : order[a] = order[b] => a = b
  BY <1>1 DEF Listed, n
<1>10. PICK a \in 1 .. n : \E i \in 1 .. Len(ss[a]) : k = o[a - 1] + i
  BY <1>5
<1>11. PICK i \in 1 .. Len(ss[a]) : k = o[a - 1] + i
  BY <1>10
<1>12. PICK b \in 1 .. n : \E j \in 1 .. Len(ss[b]) : l = o[b - 1] + j
  BY <1>5
<1>13. PICK j \in 1 .. Len(ss[b]) : l = o[b - 1] + j
  BY <1>12
<1>14. /\ o[a - 1] \in Nat /\ o[b - 1] \in Nat /\ Len(ss[a]) \in Nat /\ Len(ss[b]) \in Nat
       /\ o[a] = o[a - 1] + Len(ss[a]) /\ o[b] = o[b - 1] + Len(ss[b]) /\ i \in Nat /\ j \in Nat
  <2>1. a - 1 \in 0 .. n /\ b - 1 \in 0 .. n
    BY <1>2
  <2>2. Len(ss[a]) \in Nat /\ Len(ss[b]) \in Nat
    BY <1>7
  <2> QED BY <1>5, <1>6, <2>1, <2>2
<1>15. a <= b
  <2> SUFFICES ASSUME b < a PROVE FALSE
    BY <1>2
  <2>1. b \in 0 .. n /\ a - 1 \in 0 .. n /\ b <= a - 1
    BY <1>2
  <2>2. o[b] <= o[a - 1]
    BY <1>5, <2>1
  <2>3. PICK u \in Nat : u = o[a - 1]
    BY <1>14
  <2>4. PICK v \in Nat : v = o[b - 1]
    BY <1>14
  <2>5. PICK w \in Nat : w = Len(ss[b])
    BY <1>14
  <2>6. k = u + i /\ l = v + j /\ v + w <= u /\ j <= w /\ i >= 1
    BY <1>11, <1>13, <1>14, <2>2, <2>3, <2>4, <2>5
  <2> QED BY ONLY <1>14, <2>6, k < l, u \in Nat, v \in Nat, w \in Nat
<1>16. F[k] = ss[a][i] /\ F[l] = ss[b][j]
  BY <1>6, <1>11, <1>13
<1>17. FeatureAt(F, k) = order[a] /\ FeatureAt(F, l) = order[b]
  BY <1>7, <1>16 DEF FeatureAt
<1>18. ASSUME FeatureAt(F, k) = FeatureAt(F, l)
       PROVE  F[k][1] < F[l][1] /\ \A m \in k .. l : FeatureAt(F, m) = FeatureAt(F, k)
  <2>1. a = b
    BY <1>9, <1>17, <1>18
  <2>2. i < j
    BY <1>11, <1>13, <1>14, <2>1
  <2>3. F[k][1] < F[l][1]
    BY <1>7, <1>16, <2>1, <2>2
  <2>4. ASSUME NEW m \in k .. l PROVE FeatureAt(F, m) = order[a]
    <3>1. PICK h \in 1 .. Len(ss[a]) : m = o[a - 1] + h
      <4>1. PICK u \in Nat : u = o[a - 1]
        BY <1>14
      <4>2. PICK v \in Nat : v = Len(ss[a])
        BY <1>14
      <4>3. k = u + i /\ l = u + j /\ i \in 1 .. v /\ j \in 1 .. v
        BY ONLY <1>11, <1>13, <2>1, <4>1, <4>2, i \in 1 .. Len(ss[a]), j \in 1 .. Len(ss[b])
      <4>4. m - u \in 1 .. v /\ m = u + (m - u)
        BY ONLY <4>3, u \in Nat, v \in Nat, m \in k .. l
      <4> QED BY ONLY <4>1, <4>2, <4>4
    <3>2. F[m] = ss[a][h]
      BY <1>6, <3>1
    <3> QED BY <1>7, <3>2 DEF FeatureAt
  <2> QED BY <1>17, <2>3, <2>4
<1>19. \E m \in 1 .. k : FeatureAt(F, m) = FeatureAt(F, k) /\ F[m][1] <= F[l][1]
  <2>1. 1 \in 1 .. Len(ss[a]) /\ 1 \in 1 .. Len(ss[b])
    BY <1>7
  <2>2. PICK m \in 1 .. k : m = o[a - 1] + 1
    <3>1. PICK u \in Nat : u = o[a - 1]
      BY <1>14
    <3>2. k = u + i /\ i \in Nat /\ i >= 1
      BY <1>11, <1>14, <3>1
    <3>3. u + 1 \in 1 .. k
      BY ONLY <3>2, u \in Nat
    <3> QED BY ONLY <3>1, <3>3
  <2>3. F[m] = ss[a][1]
    BY <1>6, <2>1, <2>2
  <2>4. FeatureAt(F, m) = order[a]
    BY <1>7, <2>1, <2>3 DEF FeatureAt
  <2>5. PICK x \in Nat : x = ss[a][1][1]
    BY <1>7, <2>1
  <2>6. PICK y \in Nat : y = ss[b][1][1]
    BY <1>7, <2>1
  <2>7. PICK z \in Nat : z = ss[b][j][1]
    BY <1>7
  <2>8. y <= z
    <3>1. CASE j = 1
      BY <2>6, <2>7, <3>1
    <3>2. CASE j # 1
      <4>1. 1 < j
        BY <1>14, <3>2
      <4>2. ss[b][1][1] < ss[b][j][1]
        BY <1>7, <2>1, <4>1
      <4>3. y < z
        BY ONLY <2>6, <2>7, <4>2
      <4> QED BY ONLY <4>3, y \in Nat, z \in Nat
    <3> QED BY <3>1, <3>2
  <2>9. x <= y
    <3>1. CASE a = b
      BY <2>5, <2>6, <3>1
    <3>2. CASE a # b
      <4>1. a < b
        BY <1>2, <1>15, <3>2
      <4>2. ss[a][1][1] < ss[b][1][1]
        BY <1>8, <4>1
      <4>3. x < y
        BY ONLY <2>5, <2>6, <4>2
      <4> QED BY ONLY <4>3, x \in Nat, y \in Nat
    <3> QED BY <3>1, <3>2
  <2>10. x <= z
    BY <2>8, <2>9
  <2>11. F[m][1] <= F[l][1]
    BY ONLY <1>16, <2>3, <2>5, <2>7, <2>10
  <2> QED BY <1>17, <2>4, <2>11
<1> QED BY <1>18, <1>19 DEF Together

\* With all backups done, what came is the stream.
LEMMA CameIsStream ==
  ASSUME ReadInv, backup = BackupNum
  PROVE  Came = Stream /\ Came = Upto(BackupNum)
<1>1. files \in FileLists /\ BackupNum \in Nat /\ BackupNum <= Len(files) /\ Len(files) \in Nat
  BY FilesFacts DEF ReadInv
<1>2. Upto(BackupNum) \in Seq(Contents)
  <2>1. BackupNum \in 0 .. Len(files)
    BY <1>1
  <2> QED BY <1>1, <2>1, UptoFacts
<1>3. ~(BackupNum < BackupNum)
  BY <1>1
<1>4. Came = Upto(BackupNum) \o <<>>
  BY <1>3 DEF Came, Upto
<1>5. Came = Upto(BackupNum)
  BY <1>2, <1>4, ConcatEmptySeq
<1> QED BY <1>5 DEF Upto, Stream

\* Once the backups are done, what came is the stream of all backups.
LEMMA InvRearranged ==
  ASSUME MigratoryInv
  PROVE  Rearranged
<1> SUFFICES ASSUME me # <<>> PROVE RearrangedAs(me, Stream)
  BY DEF Rearranged, RearrangedAs
<1>1. backup = BackupNum /\ me = FlattenSeq(GroupsIn(insertionOrder, hashTable))
  BY DEF MigratoryInv, MeInv
<1>2. ReadInv /\ Came \in Seq(Contents) /\ GroupedAs(Came, insertionOrder, hashTable)
  BY DEF MigratoryInv, ReadInv, GroupsInv
<1>3. Came = Stream
  BY <1>1, <1>2, CameIsStream
<1> QED BY <1>1, <1>2, <1>3, JoinRearranges

\* output.me is empty or the join of the groups.
LEMMA InvGrouped ==
  ASSUME MigratoryInv
  PROVE  Grouped
<1>1. me = <<>> \/ me = FlattenSeq(GroupsIn(insertionOrder, hashTable))
  BY DEF MigratoryInv, MeInv
<1>2. Came \in Seq(Contents) /\ GroupedAs(Came, insertionOrder, hashTable) /\ me \in Seq(Chunks)
  BY DEF MigratoryInv, ReadInv, GroupsInv, LcInv
<1>3. DOMAIN me = 1 .. Len(me)
  BY <1>2
<1>4. ASSUME NEW k \in 1 .. Len(me), NEW l \in 1 .. Len(me), k < l PROVE Together(me, k, l)
  <2>1. me # <<>>
    <3> SUFFICES ASSUME me = <<>> PROVE FALSE
      OBVIOUS
    <3> QED OBVIOUS
  <2> QED BY <1>1, <1>2, <1>4, <2>1, JoinGroups
<1> QED BY <1>3, <1>4 DEF Grouped, Together, FeatureAt

\* Without a skipped file ori is the join of the files backed up.
LEMMA InvSameInput ==
  ASSUME MigratoryInv
  PROVE  SameInput
<1> SUFFICES ASSUME phase \in {"OriLC", "done"}, skipped = 0, file > 0
             PROVE  /\ ori = Stream /\ Size(ori) = logicalchunkSize
                    /\ me # <<>> => Size(ContentsOf(me)) = Size(ori)
  BY DEF SameInput
<1>1. file = BackupNum /\ ori = FlattenSeq(SubSeq(files, 1, file))
  BY DEF MigratoryInv, OriInv
<1>2. backup = BackupNum /\ ReadInv
  BY DEF MigratoryInv, MeInv
<1>3. Came = Stream /\ ori = Stream
  BY <1>1, <1>2, CameIsStream DEF Upto
<1>4. logicalchunkSize = Size(Came)
  BY <1>2 DEF ReadInv
<1>5. ASSUME me # <<>> PROVE Size(ContentsOf(me)) = Size(Came)
  <2>1. me = FlattenSeq(GroupsIn(insertionOrder, hashTable))
    BY <1>5 DEF MigratoryInv, MeInv
  <2>2. Came \in Seq(Contents) /\ GroupedAs(Came, insertionOrder, hashTable)
    BY DEF MigratoryInv, ReadInv, GroupsInv
  <2> QED BY <2>1, <2>2, JoinRearranges
<1> QED BY <1>3, <1>4, <1>5

-----------------------------------------------------------------------------
(* The invariant is inductive *)

\* Sizes and offsets of CompressLargeFile are naturals.
LEMMA InputType ==
  ASSUME LcInv
  PROVE  Input \in Nat /\ Offset \in Nat /\ Size(ContentsOf(me)) \in Nat /\ Size(ori) \in Nat
<1>1. me \in Seq(Chunks) /\ ori \in Seq(Contents) /\ blocks \in Seq(Nat)
  BY DEF LcInv
<1>2. ContentsOf(me) \in Seq(Contents)
  BY <1>1, ContentsOfFacts
<1>3. Size(ContentsOf(me)) \in Nat /\ Size(ori) \in Nat
  BY <1>1, <1>2, SizeFacts
<1> QED BY <1>1, <1>3, TotalType DEF Input, Offset

\* The invariant holds at the start of main.
LEMMA MigratoryInitInv == MigratoryInit => MigratoryInv
<1> SUFFICES ASSUME MigratoryInit PROVE MigratoryInv
  OBVIOUS
<1>1. files \in FileLists /\ BackupNum \in Nat /\ BackupNum <= Len(files) /\ Len(files) \in Nat
  BY FilesFacts DEF MigratoryInit
<1>2. backup = 0 /\ read = 0 /\ Upto(0) = <<>>
  BY <1>1, UptoFacts DEF MigratoryInit
<1>3. Came = <<>>
  <2>1. 0 < BackupNum => SubSeq(files[0 + 1], 1, 0) = <<>>
    <3> SUFFICES ASSUME 0 < BackupNum PROVE SubSeq(files[1], 1, 0) = <<>>
      OBVIOUS
    <3>1. 1 \in 1 .. Len(files)
      BY <1>1
    <3>2. files[1] \in Seq(Contents)
      BY <1>1, <3>1, FilesFacts
    <3> QED BY <3>2, PrefixFacts
  <2>2. Came = <<>> \o <<>>
    BY <1>2, <2>1 DEF Came, Upto
  <2>3. <<>> \in Seq(Contents)
    OBVIOUS
  <2> QED BY <2>2, <2>3, ConcatEmptySeq
<1>4. <<>> \in Seq(Contents) /\ Len(<<>>) = 0 /\ Size(<<>>) = 0
  BY SizeFacts
<1>5. ReadInv
  <2>1. backup < BackupNum => read <= Len(files[backup + 1])
    <3> SUFFICES ASSUME 0 < BackupNum PROVE 0 <= Len(files[0 + 1])
      BY <1>2
    <3>1. 0 + 1 \in 1 .. Len(files)
      BY <1>1
    <3>2. files[0 + 1] \in Seq(Contents)
      BY <1>1, <3>1, FilesFacts
    <3>3. Len(files[0 + 1]) \in Nat
      BY <3>2
    <3> QED BY <3>3
  <2>2. 0 \in 0 .. BackupNum
    BY <1>1
  <2> QED BY <1>1, <1>2, <1>3, <1>4, <2>1, <2>2 DEF ReadInv, MigratoryInit
<1>6. GroupsInv
  <2>1. hashTable = [f \in {} |-> <<>>] /\ insertionOrder = <<>>
    BY DEF MigratoryInit
  <2>2. DOMAIN hashTable = {}
    BY <2>1
  <2>3. Listed(insertionOrder, hashTable)
    <3>1. <<>> \in Seq(DOMAIN hashTable) /\ Len(<<>>) = 0
      OBVIOUS
    <3> QED BY <2>1, <2>2, <3>1 DEF Listed
  <2>4. HeldIn(<<>>, hashTable) /\ Present(<<>>, hashTable)
    BY <1>4, <2>2 DEF HeldIn, Present
  <2>5. FirstsRise(<<>>, hashTable)
    BY <1>4 DEF FirstsRise
  <2>6. Measured(<<>>, <<>>, hashTable)
    <3>1. Listed(<<>>, hashTable)
      BY <2>1, <2>3
    <3>2. GroupsIn(<<>>, hashTable) \in Seq(Seq(Chunks)) /\ Len(GroupsIn(<<>>, hashTable)) = 0
      BY <1>4, <2>4, <3>1, GroupsInSeq
    <3>3. GroupsIn(<<>>, hashTable) = <<>>
      BY <3>2, EmptySeq
    <3>4. <<>> \in Seq(Seq(Chunks))
      OBVIOUS
    <3>5. Total(Lengths(<<>>)) = Len(FlattenSeq(<<>>)) /\ Total(GroupSizes(<<>>)) = Size(ContentsOf(FlattenSeq(<<>>)))
      BY <3>4, FlattenMeasures
    <3> QED BY <1>4, <3>3, <3>5, FlattenEmpty, ContentsOfFacts DEF Measured
  <2> QED BY <1>3, <2>1, <2>3, <2>4, <2>5, <2>6 DEF GroupsInv, GroupedAs
<1>7. MeInv
  BY DEF MeInv, MigratoryInit
<1>8. OriInv
  <2>1. ori = Upto(0) /\ file = 0 /\ count = 0 /\ skipped = 0 /\ phase = "backups"
    BY <1>2 DEF MigratoryInit
  <2> QED BY <1>1, <2>1 DEF OriInv, Upto
<1>9. LcInv
  <2>1. <<>> \in Seq(Nat) /\ <<>> \in Seq(Chunks)
    OBVIOUS
  <2> QED BY <1>4, <2>1 DEF LcInv, MigratoryInit, Compressing
<1> QED BY <1>5, <1>6, <1>7, <1>8, <1>9 DEF MigratoryInv

\* Steps that leave the state of Odess alone keep what is said of it.
LEMMA OdessKeeps ==
  ASSUME ReadInv, GroupsInv, UNCHANGED odessVars
  PROVE  ReadInv' /\ GroupsInv'
<1>1. UNCHANGED <<files, backup, read, hashTable, insertionOrder, uniquechunkNum, logicalchunkSize>>
  BY DEF odessVars
<1>2. Came' = Came
  BY <1>1 DEF Came
<1> QED BY <1>1, <1>2 DEF ReadInv, GroupsInv

\* ProcessTrace with one chunk.
LEMMA ProcessInv ==
  ASSUME MigratoryInv, Process
  PROVE  MigratoryInv'
<1> DEFINE c == files[backup + 1][read + 1]
           x == <<uniquechunkNum, c>>
<1>1. ReadInv /\ GroupedAs(Came, insertionOrder, hashTable) /\ MeInv /\ OriInv /\ LcInv
      /\ Came \in Seq(Contents) /\ uniquechunkNum = Len(Came)
  BY DEF MigratoryInv, GroupsInv, ReadInv
<1>2. c \in Contents /\ Came' = Append(Came, c) /\ ReadInv'
  BY <1>1, ProcessReads
<1>3. /\ hashTable' = [g \in DOMAIN hashTable \union {Feature[c]} |->
                        IF g = Feature[c] THEN Group(Feature[c], x) ELSE hashTable[g]]
      /\ insertionOrder' = Order(Feature[c])
  BY DEF Process
<1> HIDE DEF c
<1>4. Joined(hashTable, Feature[c], x, hashTable')
  <2>1. DOMAIN hashTable' = DOMAIN hashTable \union {Feature[c]}
    BY <1>3
  <2>2. \A g \in DOMAIN hashTable : g # Feature[c] => hashTable'[g] = hashTable[g]
    BY <1>3
  <2>3. hashTable'[Feature[c]] = Group(Feature[c], x)
    BY <1>3
  <2> QED BY <2>1, <2>2, <2>3 DEF Joined, Group
<1>5. Entered(insertionOrder, hashTable, Feature[c], insertionOrder')
  BY <1>3 DEF Entered, Order
<1>6. GroupedAs(Append(Came, c), insertionOrder', hashTable')
  BY <1>1, <1>2, <1>4, <1>5, GroupsGrow
<1>7. GroupsInv'
  BY <1>2, <1>6 DEF GroupsInv
<1>8. UNCHANGED <<files, phase, backup, me, ori, file, count, skipped, blocks, ans, MLCSize, oriLCSize>>
      /\ phase = "backups"
  BY DEF Process, oriVars, lcVars
<1>9. MeInv'
  BY <1>1, <1>8 DEF MeInv
<1>10. OriInv'
  BY <1>1, <1>8 DEF OriInv
<1>11. LcInv'
  BY <1>1, <1>8 DEF LcInv, Compressing
<1> QED BY <1>2, <1>7, <1>9, <1>10, <1>11 DEF MigratoryInv

\* The end of a backup.
LEMMA EndBackupInv ==
  ASSUME MigratoryInv, EndBackup
  PROVE  MigratoryInv'
<1>1. ReadInv /\ GroupedAs(Came, insertionOrder, hashTable) /\ MeInv /\ OriInv /\ LcInv
  BY DEF MigratoryInv, GroupsInv
<1>2. Came' = Came /\ ReadInv'
  BY <1>1, EndBackupReads
<1>3. UNCHANGED <<files, phase, hashTable, insertionOrder, me, ori, file, count, skipped, blocks, ans, MLCSize,
                  oriLCSize>> /\ phase = "backups"
  BY DEF EndBackup, oriVars, lcVars
<1>4. GroupsInv'
  BY <1>1, <1>2, <1>3 DEF GroupsInv
<1>5. MeInv'
  BY <1>1, <1>3 DEF MeInv
<1>6. OriInv'
  BY <1>1, <1>3 DEF OriInv
<1>7. LcInv'
  BY <1>1, <1>3 DEF LcInv, Compressing
<1> QED BY <1>2, <1>4, <1>5, <1>6, <1>7 DEF MigratoryInv

\* Migratory writes output.me, or cannot.
LEMMA MigratoryStepInv ==
  ASSUME MigratoryInv, MigratoryStep
  PROVE  MigratoryInv'
<1>1. ReadInv /\ GroupsInv /\ MeInv /\ OriInv /\ LcInv
  BY DEF MigratoryInv
<1>2. /\ phase = "backups" /\ backup = BackupNum /\ UNCHANGED <<odessVars, oriVars, lcVars>>
      /\ UNCHANGED <<files, backup, hashTable, insertionOrder, ori, file, count, skipped, blocks, ans, MLCSize,
                      oriLCSize>>
  BY DEF MigratoryStep, odessVars, oriVars, lcVars
<1>3. ReadInv' /\ GroupsInv'
  BY <1>1, <1>2, OdessKeeps
<1>4. \/ phase' = "MLC" /\ me' = FlattenSeq(GroupsIn(insertionOrder, hashTable))
      \/ phase' = "OriGenerate" /\ me' = me
  BY DEF MigratoryStep, GroupsIn
<1>5. MeInv'
  BY <1>1, <1>2, <1>4 DEF MeInv
<1>6. OriInv'
  BY <1>1, <1>2, <1>4 DEF OriInv
<1>7. me' \in Seq(Chunks)
  <2>1. Came \in Seq(Contents) /\ GroupedAs(Came, insertionOrder, hashTable)
    BY <1>1 DEF ReadInv, GroupsInv
  <2>2. FlattenSeq(GroupsIn(insertionOrder, hashTable)) \in Seq(Chunks)
    BY <2>1, JoinRearranges
  <2> QED BY <1>1, <1>4, <2>2 DEF LcInv
<1>8. LcInv'
  <2>1. blocks = <<>> /\ MLCSize = 0 /\ oriLCSize = 0
    BY <1>1, <1>2 DEF LcInv, Compressing
  <2>2. Offset' = 0
    BY <1>2, <2>1, TotalEmpty DEF Offset
  <2>3. Compressing' => Offset' <= Input'
    <3>1. Compressing' => Input' = Size(ContentsOf(me'))
      BY <1>4 DEF Compressing, Input
    <3>2. Size(ContentsOf(me')) \in Nat
      <4>1. ContentsOf(me') \in Seq(Contents)
        BY <1>7, ContentsOfFacts
      <4> QED BY <4>1, SizeFacts
    <3> QED BY <2>2, <3>1, <3>2
  <2>4. phase' \in {"MLC", "OriGenerate"}
    BY <1>4
  <2> QED BY <1>1, <1>2, <1>7, <2>1, <2>3, <2>4 DEF LcInv
<1> QED BY <1>3, <1>5, <1>6, <1>8 DEF MigratoryInv

\* OriGenerate merges a file.
LEMMA MergeFileInv ==
  ASSUME MigratoryInv, MergeFile
  PROVE  MigratoryInv'
<1>1. ReadInv /\ GroupsInv /\ MeInv /\ OriInv /\ LcInv
  BY DEF MigratoryInv
<1>2. /\ phase = "OriGenerate" /\ file < Len(files) /\ count < BackupNum
      /\ ori' = ori \o files[file + 1] /\ file' = file + 1 /\ count' = count + 1
      /\ UNCHANGED odessVars
      /\ UNCHANGED <<phase, files, backup, hashTable, insertionOrder, me, skipped, blocks, ans, MLCSize, oriLCSize>>
  BY DEF MergeFile, Merging, odessVars, lcVars
<1>3. ReadInv' /\ GroupsInv'
  BY <1>1, <1>2, OdessKeeps
<1>4. MeInv'
  BY <1>1, <1>2 DEF MeInv
<1>5. files \in FileLists /\ Len(files) \in Nat /\ BackupNum \in Nat
  BY <1>1, FilesFacts DEF ReadInv
<1>6. file \in Nat /\ count \in Nat /\ skipped \in Nat /\ file = count + skipped
      /\ count <= BackupNum /\ file <= Len(files)
  BY <1>1 DEF OriInv
<1>7. file \in 0 .. (Len(files) - 1) /\ file + 1 \in 1 .. Len(files)
  BY <1>2, <1>5, <1>6
<1>8. skipped = 0 => ori' = FlattenSeq(SubSeq(files, 1, file + 1))
  <2> SUFFICES ASSUME skipped = 0 PROVE ori' = Upto(file + 1)
    BY DEF Upto
  <2>1. ori = Upto(file)
    BY <1>1 DEF OriInv, Upto
  <2>2. Upto(file + 1) = Upto(file) \o files[file + 1]
    BY <1>5, <1>7, UptoFacts
  <2> QED BY <1>2, <2>1, <2>2
<1>9. OriInv'
  <2>1. /\ file + 1 \in Nat /\ count + 1 \in Nat /\ file + 1 = count + 1 + skipped
        /\ count + 1 <= BackupNum /\ file + 1 <= Len(files)
    BY <1>2, <1>5, <1>6
  <2> QED BY <1>2, <1>6, <1>8, <2>1 DEF OriInv
<1>10. ori' \in Seq(Contents)
  <2>1. files[file + 1] \in Seq(Contents) /\ ori \in Seq(Contents)
    BY <1>1, <1>5, <1>7, FilesFacts DEF LcInv
  <2>2. \A a, b \in Seq(Contents) : a \o b \in Seq(Contents)
    OBVIOUS
  <2> QED BY ONLY <1>2, <2>1, <2>2
<1>11. LcInv'
  BY <1>1, <1>2, <1>10 DEF LcInv, Compressing
<1> QED BY <1>3, <1>4, <1>9, <1>11 DEF MigratoryInv

\* OriGenerate skips a file it cannot read.
LEMMA SkipFileInv ==
  ASSUME MigratoryInv, SkipFile
  PROVE  MigratoryInv'
<1>1. ReadInv /\ GroupsInv /\ MeInv /\ OriInv /\ LcInv
  BY DEF MigratoryInv
<1>2. /\ phase = "OriGenerate" /\ file < Len(files) /\ file' = file + 1 /\ skipped' = skipped + 1
      /\ UNCHANGED odessVars
      /\ UNCHANGED <<phase, files, backup, hashTable, insertionOrder, me, ori, count, blocks, ans, MLCSize, oriLCSize>>
  BY DEF SkipFile, Merging, odessVars, lcVars
<1>3. ReadInv' /\ GroupsInv'
  BY <1>1, <1>2, OdessKeeps
<1>4. MeInv'
  BY <1>1, <1>2 DEF MeInv
<1>5. Len(files) \in Nat
  BY <1>1, FilesFacts DEF ReadInv
<1>6. OriInv'
  <2>1. file \in Nat /\ count \in Nat /\ skipped \in Nat /\ file = count + skipped /\ count <= BackupNum
    BY <1>1 DEF OriInv
  <2>2. /\ file + 1 \in Nat /\ skipped + 1 \in Nat /\ file + 1 = count + (skipped + 1) /\ file + 1 <= Len(files)
        /\ skipped + 1 # 0
    BY <1>2, <1>5, <2>1
  <2> QED BY <1>2, <2>1, <2>2 DEF OriInv
<1>7. LcInv'
  BY <1>1, <1>2 DEF LcInv, Compressing
<1> QED BY <1>3, <1>4, <1>6, <1>7 DEF MigratoryInv

\* OriGenerate returns.
LEMMA EndMergeInv ==
  ASSUME MigratoryInv, EndMerge
  PROVE  MigratoryInv'
<1>1. ReadInv /\ GroupsInv /\ MeInv /\ OriInv /\ LcInv
  BY DEF MigratoryInv
<1>2. /\ phase = "OriGenerate" /\ UNCHANGED odessVars
      /\ UNCHANGED <<files, backup, hashTable, insertionOrder, me, ori, file, count, skipped, blocks, ans, MLCSize,
                      oriLCSize>>
      /\ \/ ~(file < Len(files) /\ count < BackupNum) /\ phase' = "OriLC"
         \/ file = 0 /\ phase' = "done"
  BY DEF EndMerge, Merging, odessVars, oriVars, lcVars
<1>3. ReadInv' /\ GroupsInv'
  BY <1>1, <1>2, OdessKeeps
<1>4. MeInv'
  BY <1>1, <1>2 DEF MeInv
<1>5. BackupNum \in Nat /\ BackupNum <= Len(files) /\ Len(files) \in Nat
  BY <1>1, FilesFacts DEF ReadInv
<1>6. OriInv'
  <2>1. file \in Nat /\ count \in Nat /\ skipped \in Nat /\ file = count + skipped
        /\ count <= BackupNum /\ file <= Len(files)
    BY <1>1 DEF OriInv
  <2>2. skipped = 0 /\ file > 0 => file = BackupNum
    BY <1>2, <1>5, <2>1
  <2>3. skipped = 0 => ori = FlattenSeq(SubSeq(files, 1, file))
    BY <1>1 DEF OriInv
  <2> QED BY <1>2, <2>1, <2>2, <2>3 DEF OriInv
<1>7. LcInv'
  <2>1. blocks = <<>> /\ oriLCSize = 0
    BY <1>1, <1>2 DEF LcInv, Compressing
  <2>2. Offset' = 0
    BY <1>2, <2>1, TotalEmpty DEF Offset
  <2>3. Compressing' => Input' = Size(ori)
    BY <1>2 DEF Compressing, Input
  <2>4. Size(ori) \in Nat
    BY <1>1, InputType
  <2>5. Compressing' => Offset' <= Input'
    BY <2>2, <2>3, <2>4
  <2>6. phase' \in {"OriLC", "done"}
    BY <1>2
  <2> QED BY <1>1, <1>2, <2>1, <2>5, <2>6 DEF LcInv
<1> QED BY <1>3, <1>4, <1>6, <1>7 DEF MigratoryInv

\* A block is compressed: the offset moves by its length, never past the input.
LEMMA CompressBlockInv ==
  ASSUME MigratoryInv, CompressBlock
  PROVE  MigratoryInv'
<1> DEFINE d == IF Input - Offset < BlockSize THEN Input - Offset ELSE BlockSize
<1>1. ReadInv /\ GroupsInv /\ MeInv /\ OriInv /\ LcInv
  BY DEF MigratoryInv
<1>2. /\ Compressing /\ Offset < Input /\ blocks' = Append(blocks, d)
      /\ UNCHANGED odessVars
      /\ UNCHANGED <<phase, files, backup, hashTable, insertionOrder, me, ori, file, count, skipped, MLCSize, oriLCSize>>
  BY DEF CompressBlock, MoreBlocks, odessVars, oriVars
<1>3. ReadInv' /\ GroupsInv'
  BY <1>1, <1>2, OdessKeeps
<1>4. MeInv'
  BY <1>1, <1>2 DEF MeInv
<1>5. OriInv'
  BY <1>1, <1>2 DEF OriInv
<1>6. Input \in Nat /\ Offset \in Nat /\ BlockSize \in Nat
  BY <1>1, InputType, MigratoryAssumption DEF MigratoryAssumption
<1>7. d \in Nat /\ Offset + d <= Input
  BY <1>2, <1>6
<1> HIDE DEF d
<1>8. blocks \in Seq(Nat)
  BY <1>1 DEF LcInv
<1>9. blocks' \in Seq(Nat) /\ Offset' = Offset + d
  BY <1>2, <1>7, <1>8, TotalAppend DEF Offset
<1>10. Input' = Input
  BY <1>2 DEF Input
<1>11. ans' \in Nat
  <2>1. PICK z \in LZ4Sizes : ans' = ans + z
    BY DEF CompressBlock
  <2>2. z \in Nat
    BY MigratoryAssumption DEF MigratoryAssumption
  <2>3. ans \in Nat
    BY <1>1 DEF LcInv
  <2> QED BY <2>1, <2>2, <2>3
<1>12. Offset' <= Input'
  BY <1>7, <1>9, <1>10
<1>13. Compressing'
  BY <1>2 DEF Compressing
<1>14. LcInv'
  BY <1>1, <1>2, <1>9, <1>11, <1>12, <1>13 DEF LcInv
<1> QED BY <1>3, <1>4, <1>5, <1>14 DEF MigratoryInv

\* CompressLargeFile returns, with any result.
LEMMA FinishInv ==
  ASSUME MigratoryInv, NEW result \in Nat, Compressing, Finish(result)
  PROVE  MigratoryInv'
<1>1. ReadInv /\ GroupsInv /\ MeInv /\ OriInv /\ LcInv
  BY DEF MigratoryInv
<1>2. /\ UNCHANGED odessVars /\ blocks' = <<>> /\ ans' = 0
      /\ UNCHANGED <<files, backup, hashTable, insertionOrder, me, ori, file, count, skipped>>
      /\ \/ phase = "MLC" /\ phase' = "OriGenerate" /\ MLCSize' = result /\ oriLCSize' = oriLCSize
         \/ phase = "OriLC" /\ phase' = "done" /\ oriLCSize' = result /\ MLCSize' = MLCSize
  BY DEF Finish, Compressing, odessVars, oriVars
<1>3. ReadInv' /\ GroupsInv'
  BY <1>1, <1>2, OdessKeeps
<1>4. MeInv'
  BY <1>1, <1>2 DEF MeInv
<1>5. OriInv'
  BY <1>1, <1>2 DEF OriInv
<1>6. LcInv'
  <2>1. <<>> \in Seq(Nat) /\ 0 \in Nat
    OBVIOUS
  <2> QED BY <1>1, <1>2, <2>1 DEF LcInv, Compressing
<1> QED BY <1>3, <1>4, <1>5, <1>6 DEF MigratoryInv

\* Every step of main keeps the invariant.
LEMMA MigratoryInductive == MigratoryInv /\ [MigratoryNext]_migratoryVars => MigratoryInv'
<1> SUFFICES ASSUME MigratoryInv, [MigratoryNext]_migratoryVars PROVE MigratoryInv'
  OBVIOUS
<1>1. CASE CompressFails
  <2>1. Compressing /\ Finish(0) /\ 0 \in Nat
    BY <1>1 DEF CompressFails
  <2> QED BY <2>1, FinishInv
<1>2. CASE EndCompress
  <2>1. Compressing /\ Finish(ans) /\ ans \in Nat
    BY <1>2 DEF EndCompress, MigratoryInv, LcInv
  <2> QED BY <2>1, FinishInv
<1>3. CASE UNCHANGED migratoryVars
  <2>1. UNCHANGED <<phase, me, ori, file, count, skipped, blocks, ans, MLCSize, oriLCSize>> /\ UNCHANGED odessVars
        /\ UNCHANGED <<files, backup, hashTable, insertionOrder>>
    BY <1>3 DEF migratoryVars, odessVars, oriVars, lcVars
  <2>2. ReadInv' /\ GroupsInv'
    BY <2>1, OdessKeeps DEF MigratoryInv
  <2>3. MeInv'
    BY <2>1 DEF MigratoryInv, MeInv
  <2>4. OriInv'
    BY <2>1 DEF MigratoryInv, OriInv
  <2>5. LcInv'
    BY <2>1 DEF MigratoryInv, LcInv, Compressing, Offset, Input
  <2> QED BY <2>2, <2>3, <2>4, <2>5 DEF MigratoryInv
<1> QED BY <1>1, <1>2, <1>3, ProcessInv, EndBackupInv, MigratoryStepInv, MergeFileInv, SkipFileInv, EndMergeInv,
        CompressBlockInv DEF MigratoryNext, Stopped

-----------------------------------------------------------------------------
\* The inductive invariant holds in every run of main, for every list of files.
THEOREM MigratoryInvHolds == MigratorySpec => []MigratoryInv
BY MigratoryInitInv, MigratoryInductive, PTL DEF MigratorySpec

\* Odess::Migratory writes to output.me every chunk of every backup, once,
\* whatever the features and however many backups share a group.
THEOREM RearrangedHolds == MigratorySpec => []Rearranged
BY MigratoryInvHolds, InvRearranged, PTL

\* In output.me chunks with the same first super feature lie together, in the
\* order they came, and groups in the order of their first chunks.
THEOREM GroupedHolds == MigratorySpec => []Grouped
BY MigratoryInvHolds, InvGrouped, PTL

\* While every file stays readable, MLC and OriLC compress the same bytes: ori is
\* the stream that was chunked, and output.me has its size.
THEOREM SameInputHolds == MigratorySpec => []SameInput
BY MigratoryInvHolds, InvSameInput, PTL

\* A result other than a failure comes with the last byte of the input.
LEMMA FinishWhole ==
  ASSUME MigratoryInv, MigratoryNext, Compressing, ~Compressing',
         MLCSize' # MLCSize \/ oriLCSize' # oriLCSize
  PROVE  Offset = Input
<1>1. LcInv
  BY DEF MigratoryInv
<1>2. ~CompressFails
  <2> SUFFICES ASSUME CompressFails PROVE FALSE
    OBVIOUS
  <2>1. Finish(0)
    BY DEF CompressFails
  <2> QED BY <1>1, <2>1 DEF Finish, LcInv, Compressing
<1>3. EndCompress
  BY <1>2 DEF MigratoryNext, Process, EndBackup, MigratoryStep, MergeFile, SkipFile, EndMerge, CompressBlock,
     Stopped, Compressing, migratoryVars
<1>4. ~(Offset < Input) /\ Offset <= Input /\ Offset \in Nat /\ Input \in Nat
  BY <1>1, <1>3, InputType DEF EndCompress, MoreBlocks, LcInv
<1> QED BY <1>4

\* A size CompressLargeFile reports stands for the whole file, for every block
\* size, also where the last block is short.
THEOREM WholeFileHolds == MigratorySpec => WholeFile
<1>1. MigratoryInv /\ [MigratoryNext]_migratoryVars =>
        [Compressing /\ ~Compressing' /\ (MLCSize' # MLCSize \/ oriLCSize' # oriLCSize)
           => Offset = Input]_migratoryVars
  BY FinishWhole
<1> QED BY <1>1, MigratoryInvHolds, PTL DEF MigratorySpec, WholeFile

-----------------------------------------------------------------------------
(* ContainerStore *)

USE StoreAssumption DEF StoreAssumption

-----------------------------------------------------------------------------
(* The inductive invariant *)

Entries == [deltaFlag : Flags, chunkSize : Nat, saveSize : Nat, containerID : Nat,
            offset : Nat]

\* The cells of chunk c lie at its offset, below limit.
PlacedIn(data, limit, id, c) ==
  /\ c.offset + c.saveSize <= limit
  /\ \A k \in 1 .. c.saveSize : data[c.offset + k - 1] = <<id, Form(c.deltaFlag), k>>

\* Chunk c is in the current container (number num, filled up to off), in its
\* container's file, or lost.
StoredIn(id, c, num, data, off, written, gone) ==
  /\ c.deltaFlag = "NO_LZ4" => c.saveSize = c.chunkSize
  /\ c.containerID <= num
  /\ c.containerID = num => PlacedIn(data, off, id, c)
  /\ c.containerID # num /\ c.containerID \notin gone =>
       /\ c.containerID \in DOMAIN written
       /\ PlacedIn(written[c.containerID].data, written[c.containerID].size, id, c)

Stored(id, c) ==
  StoredIn(id, c, containerNum, curContainer.data, curOffset, disk, lost)

WriteInv ==
  /\ chunklist \in Seq(Entries)
  /\ containerNum \in Nat /\ curOffset \in 0 .. ContainerMax
  /\ curContainer \in [containerID : {containerNum}, size : {curOffset},
                       data : {curContainer.data}]
  /\ \A c \in DOMAIN disk : disk[c].size \in 0 .. ContainerMax
  /\ \A c \in lost : c \in Nat /\ c < containerNum
  /\ \A id \in ChunkIds : Stored(id, Chunk(id))

\* Slots are handed out in order; only containers that are complete are cached.
CacheInv ==
  /\ keys \in Seq([key : Nat, slot : Slots])
  /\ Len(keys) = currentIndex /\ currentIndex <= CacheSize
  /\ DOMAIN pool = Slots
  /\ \A j \in 1 .. Len(keys) : keys[j].slot < currentIndex /\ keys[j].key < containerNum
  /\ CacheCoherent

\* A pointer into the cache belongs to a key that is still in the list.
InList(h, list) ==
  \E j \in 1 .. Len(list) : /\ list[j].key = Chunk(h.id).containerID
                            /\ list[j].slot = h.slot

ValidIn(h, list) ==
  /\ h.id \in ChunkIds
  /\ h.at \in {"heap", "cache", "current"}
  /\ h.loadFromDisk <=> h.at = "heap"
  /\ h.at = "heap" => \/ Chunk(h.id).containerID \in lost
                      \/ h.copy = Content(h.id, Chunk(h.id))
  /\ h.at # "heap" => Chunk(h.id).deltaFlag # "NO_DELTA"
  /\ h.at = "cache" => InList(h, list)
  /\ h.at = "current" => Chunk(h.id).containerID = containerNum

\* The chunk fetched last is the most recent in the list, so that fetching one
\* more evicts another: this is where CacheSize > 1 is needed.
InFront(h, list) ==
  /\ Len(list) >= 1
  /\ list[1].key = Chunk(h.id).containerID /\ list[1].slot = h.slot

HeldInv ==
  /\ held = <<>> \/ \E h : held = <<h>> \/ \E g : held = <<g, h>>
  /\ \A j \in 1 .. Len(held) : ValidIn(held[j], keys)
  /\ Len(held) = 1 /\ held[1].at = "cache" => InFront(held[1], keys)

StoreInv == WriteInv /\ CacheInv /\ HeldInv

-----------------------------------------------------------------------------
(* Reading *)

LEMMA EntryOf ==
  ASSUME WriteInv, NEW id \in ChunkIds
  PROVE  Chunk(id) \in Entries
<1>1. id + 1 \in 1 .. Len(chunklist) /\ chunklist \in Seq(Entries)
  BY DEF WriteInv, ChunkIds
<1> QED BY <1>1, ElementOfSeq DEF Chunk

\* Cells that are in place give the bytes that were stored.
LEMMA SliceStored ==
  ASSUME NEW data, NEW limit, NEW id, NEW c, PlacedIn(data, limit, id, c)
  PROVE  Slice(data, c.offset, c.saveSize) = StoredBytes(id, c)
BY DEF PlacedIn, Slice, StoredBytes, Bytes

LEMMA PosOfKey ==
  ASSUME CacheInv, NEW key, InCache(key)
  PROVE  /\ PosOf(key) \in 1 .. Len(keys) /\ keys[PosOf(key)].key = key
         /\ SlotOf(key) = keys[PosOf(key)].slot
<1>1. DOMAIN keys = 1 .. Len(keys)
  BY DEF CacheInv
<1> QED BY <1>1 DEF InCache, PosOf, SlotOf

\* The slot of a key shows the chunks of its container.
LEMMA SlotHoldsChunk ==
  ASSUME WriteInv, CacheInv, NEW id \in ChunkIds, NEW j \in 1 .. Len(keys),
         keys[j].key = Chunk(id).containerID, Chunk(id).containerID \notin lost
  PROVE  PlacedIn(pool[keys[j].slot], ContainerMax, id, Chunk(id))
<1> DEFINE c == Chunk(id)
           f == disk[c.containerID]
<1>1. c \in Entries
  BY EntryOf
<1>2. c.containerID # containerNum
  BY DEF CacheInv, WriteInv
<1>3. c.containerID \in DOMAIN disk /\ PlacedIn(f.data, f.size, id, c)
  BY <1>2 DEF WriteInv, Stored, StoredIn
<1>4. f.size \in 0 .. ContainerMax
  BY <1>3 DEF WriteInv
<1>5. \A a \in 0 .. (f.size - 1) : pool[keys[j].slot][a] = f.data[a]
  <2>1. j \in DOMAIN keys
    BY DEF CacheInv
  <2>2. CacheCoherent /\ f = disk[keys[j].key]
    BY DEF CacheInv
  <2> HIDE DEF f
  <2> QED BY <2>1, <2>2 DEF CacheCoherent
<1>6. c.offset \in Nat /\ c.saveSize \in Nat
  BY <1>1 DEF Entries
<1> HIDE DEF c, f
<1>7. c.offset + c.saveSize <= ContainerMax
  BY ONLY <1>3, <1>4, <1>6, StoreAssumption DEF PlacedIn, StoreAssumption
<1>8. ASSUME NEW k \in 1 .. c.saveSize
      PROVE  pool[keys[j].slot][c.offset + k - 1] = <<id, Form(c.deltaFlag), k>>
  <2>1. c.offset + k - 1 \in 0 .. (f.size - 1)
    <3>1. f.size \in Nat /\ c.offset + c.saveSize <= f.size
      BY ONLY <1>3, <1>4, StoreAssumption DEF PlacedIn, StoreAssumption
    <3> QED BY ONLY <1>6, <3>1, k \in 1 .. c.saveSize
  <2> QED BY <1>3, <1>5, <2>1 DEF PlacedIn
<1> QED BY <1>7, <1>8 DEF PlacedIn, c

\* Whatever branch Get_Chunk_Info takes, the cells it reads are the chunk's.
LEMMA BufferHoldsChunk ==
  ASSUME WriteInv, CacheInv, NEW id \in ChunkIds, Chunk(id).containerID \notin lost
  PROVE  Slice(Buffer(id), Chunk(id).offset, Chunk(id).saveSize) = StoredBytes(id, Chunk(id))
<1> DEFINE c == Chunk(id)
<1>1. Stored(id, c)
  BY DEF WriteInv
<1>2. CASE InCache(c.containerID)
  <2>1. Buffer(id) = pool[keys[PosOf(c.containerID)].slot]
    BY <1>2, PosOfKey DEF Buffer, Source
  <2>2. PlacedIn(Buffer(id), ContainerMax, id, c)
    BY <1>2, <2>1, PosOfKey, SlotHoldsChunk
  <2> QED BY <2>2, SliceStored
<1>3. CASE ~InCache(c.containerID) /\ c.containerID = containerNum
  <2>1. Buffer(id) = curContainer.data
    BY <1>3 DEF Buffer, Source
  <2>2. PlacedIn(Buffer(id), curOffset, id, c)
    BY <1>1, <1>3, <2>1 DEF Stored, StoredIn
  <2> QED BY <2>2, SliceStored
<1>4. CASE ~InCache(c.containerID) /\ c.containerID # containerNum
  <2>1. c.containerID \in DOMAIN disk
    BY <1>1, <1>4 DEF Stored, StoredIn
  <2>2. Buffer(id) = disk[c.containerID].data
    BY <1>4, <2>1 DEF Buffer, Source
  <2>3. PlacedIn(Buffer(id), disk[c.containerID].size, id, c)
    BY <1>1, <1>4, <2>2 DEF Stored, StoredIn
  <2> QED BY <2>3, SliceStored
<1> QED BY <1>2, <1>3, <1>4

\* Base chunks are decompressed, others are what was stored.
LEMMA StoredIsContent ==
  ASSUME WriteInv, NEW id \in ChunkIds, Chunk(id).deltaFlag # "NO_DELTA"
  PROVE  StoredBytes(id, Chunk(id)) = Content(id, Chunk(id))
<1>1. Chunk(id) \in Entries /\ Stored(id, Chunk(id))
  BY EntryOf DEF WriteInv
<1>2. Chunk(id).deltaFlag \in {"NO_LZ4", "DELTA"}
  BY <1>1 DEF Entries, Flags
<1> QED BY <1>1, <1>2 DEF StoredBytes, Content, Form, Stored, StoredIn

LEMMA FetchedIsContent ==
  ASSUME WriteInv, CacheInv, NEW id \in ChunkIds, Chunk(id).containerID \notin lost
  PROVE  Fetched(id) = Content(id, Chunk(id))
<1> DEFINE c == Chunk(id)
<1>1. Slice(Buffer(id), c.offset, c.saveSize) = StoredBytes(id, c)
  BY BufferHoldsChunk
<1>2. CASE c.deltaFlag = "NO_DELTA"
  <2>1. StoredBytes(id, c) = Bytes(id, "lz4", c.saveSize)
    BY <1>2 DEF StoredBytes, Form
  <2>2. Fetched(id) = Bytes(id, "raw", c.chunkSize)
    BY <1>1, <1>2, <2>1 DEF Fetched, Decompress
  <2> QED BY <1>2, <2>2 DEF Content
<1>3. CASE c.deltaFlag # "NO_DELTA"
  <2>1. Fetched(id) = StoredBytes(id, c)
    BY <1>1, <1>3 DEF Fetched
  <2> QED BY <1>3, <2>1, StoredIsContent
<1> QED BY <1>2, <1>3

-----------------------------------------------------------------------------
(* Chunk_Insert *)

\* memcpy to offset off leaves what is below and puts the source there.
LEMMA OverlayPlaces ==
  ASSUME NEW n \in Nat, NEW off \in Nat, NEW dst, NEW src, off + n <= ContainerMax
  PROVE  /\ \A a \in Nat : a < off => Overlay(dst, off, src, n)[a] = dst[a]
         /\ \A k \in 1 .. n : Overlay(dst, off, src, n)[off + k - 1] = src[k - 1]
<1> DEFINE D == Overlay(dst, off, src, n)
<1>1. ASSUME NEW a \in Nat, a < off  PROVE D[a] = dst[a]
  <2>1. a \in Addr /\ a \notin off .. (off + n - 1)
    BY <1>1 DEF Addr
  <2> QED BY <2>1 DEF Overlay
<1>2. ASSUME NEW k \in 1 .. n  PROVE D[off + k - 1] = src[k - 1]
  <2>1. /\ off + k - 1 \in Addr /\ off + k - 1 \in off .. (off + n - 1)
        /\ (off + k - 1) - off = k - 1
    BY DEF Addr
  <2> QED BY <2>1 DEF Overlay
<1> QED BY <1>1, <1>2

\* Two buffers agree on the cells below l.
AgreeBelow(d1, d2, l) == \A a \in Nat : a < l => d2[a] = d1[a]

\* What is placed below a limit stays placed in a buffer that agrees below it.
LEMMA PlacedBelow ==
  ASSUME NEW d1, NEW d2, NEW l1 \in Nat, NEW l2 \in Nat, l1 <= l2, NEW id,
         NEW c \in Entries, PlacedIn(d1, l1, id, c),
         AgreeBelow(d1, d2, l1)
  PROVE  PlacedIn(d2, l2, id, c)
<1>1. c.offset \in Nat /\ c.saveSize \in Nat
  BY DEF Entries
<1>2. c.offset + c.saveSize <= l2
  BY <1>1 DEF PlacedIn
<1>3. ASSUME NEW k \in 1 .. c.saveSize
      PROVE  d2[c.offset + k - 1] = <<id, Form(c.deltaFlag), k>>
  <2>1. c.offset + k - 1 \in Nat /\ c.offset + k - 1 < l1
    BY <1>1 DEF PlacedIn
  <2> QED BY <2>1 DEF PlacedIn, AgreeBelow
<1> QED BY <1>2, <1>3 DEF PlacedIn

\* The chunks that may be handed over.
LEMMA Offered ==
  ASSUME NEW chunk \in OfferedChunks, Storable(chunk)
  PROVE  /\ chunk.deltaFlag \in Flags
         /\ chunk.chunkSize \in Nat /\ chunk.saveSize \in 1 .. ContainerMax
         /\ chunk.deltaFlag = "NO_LZ4" => chunk.saveSize = chunk.chunkSize
<1>1. PICK f \in Flags, z \in Sizes :
        chunk = [deltaFlag |-> f, chunkSize |-> z[1], saveSize |-> z[2]]
  BY DEF OfferedChunks
<1>2. z[1] \in 1 .. ContainerMax /\ z[2] \in 1 .. ContainerMax
  OBVIOUS
<1> QED BY <1>1, <1>2 DEF Storable

\* Place, spelt out.
LEMMA PlaceResult ==
  ASSUME WriteInv, NEW chunk \in OfferedChunks, Storable(chunk),
         NEW container, NEW offset \in Nat, offset + chunk.saveSize <= ContainerMax,
         container = [containerID |-> containerNum', size |-> offset,
                      data |-> curContainer.data],
         containerNum' \in Nat, Place(chunk, container, offset)
  PROVE  LET e == [deltaFlag |-> chunk.deltaFlag, chunkSize |-> chunk.chunkSize,
                   saveSize |-> chunk.saveSize, containerID |-> containerNum',
                   offset |-> offset]
         IN  /\ e \in Entries /\ chunklist' = Append(chunklist, e)
             /\ curOffset' = offset + chunk.saveSize
             /\ curContainer' = [containerID |-> containerNum', size |-> curOffset',
                                 data |-> curContainer'.data]
             /\ AgreeBelow(curContainer.data, curContainer'.data, offset)
             /\ PlacedIn(curContainer'.data, curOffset', Len(chunklist), e)
<1> DEFINE n == chunk.saveSize
           e == [deltaFlag |-> chunk.deltaFlag, chunkSize |-> chunk.chunkSize,
                 saveSize |-> n, containerID |-> containerNum', offset |-> offset]
           src == [a \in 0 .. (n - 1) |-> StoredBytes(Len(chunklist), chunk)[a + 1]]
           D == Overlay(curContainer.data, offset, src, n)
<1>1. /\ chunk.deltaFlag \in Flags /\ chunk.chunkSize \in Nat /\ n \in Nat
  BY Offered
<1>2. e \in Entries
  BY <1>1 DEF Entries
<1>3. chunklist' = Append(chunklist, e) /\ curOffset' = offset + n
  BY DEF Place
<1>4. curContainer' = [container EXCEPT !.size = @ + n, !.data = Overlay(@, offset, src, n)]
  BY DEF Place
<1>5. /\ curContainer' = [containerID |-> containerNum', size |-> curOffset', data |-> D]
      /\ curContainer'.data = D
  <2> HIDE DEF D, n
  <2>1. Overlay(curContainer.data, offset, src, n) = D
    BY DEF D
  <2> HIDE DEF src
  <2> QED BY ONLY <1>3, <1>4, <2>1,
             container = [containerID |-> containerNum', size |-> offset,
                      data |-> curContainer.data]
<1>6. \A k \in 1 .. n : src[k - 1] = <<Len(chunklist), Form(chunk.deltaFlag), k>>
  BY <1>1 DEF StoredBytes, Bytes
<1>7. /\ AgreeBelow(curContainer.data, D, offset)
      /\ \A k \in 1 .. n : D[offset + k - 1] = <<Len(chunklist), Form(chunk.deltaFlag), k>>
  <2>1. n \in Nat /\ offset + n <= ContainerMax
    BY <1>1
  <2> HIDE DEF src, n
  <2>2. /\ AgreeBelow(curContainer.data, D, offset)
        /\ \A k \in 1 .. n : D[offset + k - 1] = src[k - 1]
    BY <2>1, OverlayPlaces DEF AgreeBelow
  <2> QED BY <1>6, <2>2
<1>8. PlacedIn(curContainer'.data, curOffset', Len(chunklist), e)
  <2>1. e.offset = offset /\ e.saveSize = n /\ e.deltaFlag = chunk.deltaFlag
    OBVIOUS
  <2>2. offset + n <= curOffset'
    BY <1>1, <1>3
  <2> HIDE DEF D, e, n
  <2> QED BY <1>5, <1>7, <2>1, <2>2 DEF PlacedIn
<1> QED BY <1>2, <1>3, <1>5, <1>7, <1>8

\* The list grows by a chunk that is stored, next to chunks that still are.
LEMMA AppendStored ==
  ASSUME WriteInv, NEW e \in Entries, chunklist' = Append(chunklist, e),
         \A id \in ChunkIds : StoredIn(id, Chunk(id), containerNum', curContainer'.data,
                                       curOffset', disk', lost'),
         StoredIn(Len(chunklist), e, containerNum', curContainer'.data, curOffset',
                  disk', lost')
  PROVE  chunklist' \in Seq(Entries) /\ \A id \in ChunkIds' : Stored(id, Chunk(id))'
<1>1. /\ chunklist \in Seq(Entries) /\ Len(chunklist) \in Nat
      /\ chunklist' \in Seq(Entries) /\ Len(chunklist') = Len(chunklist) + 1
  BY DEF WriteInv
<1>2. ASSUME NEW id \in 0 .. (Len(chunklist') - 1)
      PROVE  StoredIn(id, chunklist'[id + 1], containerNum', curContainer'.data,
                      curOffset', disk', lost')
  <2>1. CASE id = Len(chunklist)
    <3>1. chunklist'[id + 1] = e
      BY <1>1, <2>1
    <3> QED BY <2>1, <3>1
  <2>2. CASE id # Len(chunklist)
    <3>1. id \in ChunkIds
      BY <1>1, <2>2 DEF ChunkIds
    <3>2. chunklist'[id + 1] = Chunk(id)
      BY <1>1, <3>1 DEF ChunkIds, Chunk
    <3> QED BY <3>1, <3>2
  <2> QED BY <2>1, <2>2
<1> QED BY <1>1, <1>2 DEF ChunkIds, Chunk, Stored

LEMMA CurrentContainer ==
  ASSUME WriteInv
  PROVE  /\ curContainer = [containerID |-> containerNum, size |-> curOffset,
                            data |-> curContainer.data]
         /\ curContainer.containerID = containerNum /\ curContainer.size = curOffset
BY DEF WriteInv

\* There is room: chunks of other containers are untouched, those of this one
\* lie below the offset.
LEMMA InsertInCurrentWrites ==
  ASSUME WriteInv, NEW chunk \in OfferedChunks, Storable(chunk), InsertInCurrent(chunk)
  PROVE  WriteInv'
<1> DEFINE e == [deltaFlag |-> chunk.deltaFlag, chunkSize |-> chunk.chunkSize,
                 saveSize |-> chunk.saveSize, containerID |-> containerNum',
                 offset |-> curOffset]
<1>1. /\ chunk.saveSize \in Nat /\ curOffset \in Nat /\ containerNum \in Nat
      /\ chunk.deltaFlag = "NO_LZ4" => chunk.saveSize = chunk.chunkSize
  BY Offered DEF WriteInv
<1>2. /\ curOffset + chunk.saveSize <= ContainerMax
      /\ containerNum' = containerNum /\ disk' = disk /\ lost' = lost
      /\ Place(chunk, curContainer, curOffset)
  BY <1>1, CurrentContainer DEF InsertInCurrent, NoRoomFor
<1>3. /\ e \in Entries /\ chunklist' = Append(chunklist, e)
      /\ curOffset' = curOffset + chunk.saveSize
      /\ curContainer' = [containerID |-> containerNum', size |-> curOffset',
                          data |-> curContainer'.data]
      /\ AgreeBelow(curContainer.data, curContainer'.data, curOffset)
      /\ PlacedIn(curContainer'.data, curOffset', Len(chunklist), e)
  BY <1>1, <1>2, CurrentContainer, PlaceResult
<1>4. StoredIn(Len(chunklist), e, containerNum', curContainer'.data, curOffset', disk', lost')
  BY <1>1, <1>2, <1>3 DEF StoredIn
<1>5. ASSUME NEW id \in ChunkIds
      PROVE  StoredIn(id, Chunk(id), containerNum', curContainer'.data, curOffset',
                      disk', lost')
  <2>1. Stored(id, Chunk(id)) /\ Chunk(id) \in Entries
    BY EntryOf DEF WriteInv
  <2>2. curOffset' \in Nat /\ curOffset <= curOffset'
    BY <1>1, <1>3
  <2>3. PlacedIn(curContainer.data, curOffset, id, Chunk(id)) =>
          PlacedIn(curContainer'.data, curOffset', id, Chunk(id))
    BY <1>1, <1>3, <2>1, <2>2, PlacedBelow
  <2> QED BY <1>2, <2>1, <2>3 DEF Stored, StoredIn
<1>6. chunklist' \in Seq(Entries) /\ \A id \in ChunkIds' : Stored(id, Chunk(id))'
  <2> HIDE DEF e
  <2> QED BY <1>3, <1>4, <1>5, AppendStored
<1>7. curOffset' \in 0 .. ContainerMax
  BY <1>1, <1>2, <1>3
<1>8. curContainer' \in [containerID : {containerNum'}, size : {curOffset'},
                         data : {curContainer'.data}]
  BY <1>3
<1> QED BY <1>1, <1>2, <1>6, <1>7, <1>8 DEF WriteInv

\* The container is written or given up; either way no other file changes.
LEMMA FlushKeeps ==
  ASSUME WriteInv, WriteContainer \/ OpenFails
  PROVE  /\ \A c \in DOMAIN disk : c # containerNum => c \in DOMAIN disk' /\ disk'[c] = disk[c]
         /\ \A c \in DOMAIN disk' : disk'[c].size \in 0 .. ContainerMax
         /\ lost \subseteq lost' /\ lost' \subseteq lost \union {containerNum}
         /\ \/ containerNum \in lost'
            \/ /\ containerNum \in DOMAIN disk' /\ disk'[containerNum].size = curOffset
               /\ AgreeBelow(curContainer.data, disk'[containerNum].data, curOffset)
<1>1. CASE WriteContainer
  <2> DEFINE f == [size |-> curOffset, data |-> Overlay(Blank, 0, curContainer.data, curOffset)]
  <2>1. /\ disk' = [c \in DOMAIN disk \union {containerNum} |->
                      IF c = containerNum THEN f ELSE disk[c]]
        /\ lost' = lost
    BY <1>1, CurrentContainer DEF WriteContainer
  <2>2. curOffset \in 0 .. ContainerMax /\ \A c \in DOMAIN disk : disk[c].size \in 0 .. ContainerMax
    BY DEF WriteInv
  <2>3. ASSUME NEW a \in Nat, a < curOffset
        PROVE  f.data[a] = curContainer.data[a]
    <3>1. a \in Addr /\ a \in 0 .. (0 + curOffset - 1) /\ a - 0 = a
      BY <2>2, <2>3 DEF Addr
    <3> QED BY <3>1 DEF Overlay
  <2>4. f.size = curOffset
    OBVIOUS
  <2>5. AgreeBelow(curContainer.data, f.data, curOffset)
    BY <2>3 DEF AgreeBelow
  <2> HIDE DEF f
  <2> QED BY <2>1, <2>2, <2>4, <2>5
<1>2. CASE OpenFails
  <2>1. lost' = lost \union {containerNum} /\ disk' = disk
    BY <1>2, CurrentContainer DEF OpenFails
  <2> QED BY <2>1 DEF WriteInv
<1> QED BY <1>1, <1>2

\* There is none: what was current is now in its file, or lost.
LEMMA InsertInNextWrites ==
  ASSUME WriteInv, NEW chunk \in OfferedChunks, Storable(chunk), InsertInNext(chunk)
  PROVE  WriteInv'
<1> DEFINE next == [curContainer EXCEPT !.size = 0, !.containerID = containerNum']
           e == [deltaFlag |-> chunk.deltaFlag, chunkSize |-> chunk.chunkSize,
                 saveSize |-> chunk.saveSize, containerID |-> containerNum',
                 offset |-> 0]
<1>1. /\ chunk.saveSize \in 1 .. ContainerMax /\ curOffset \in Nat /\ containerNum \in Nat
      /\ chunk.deltaFlag = "NO_LZ4" => chunk.saveSize = chunk.chunkSize
  BY Offered DEF WriteInv
<1>2. /\ containerNum' = containerNum + 1
      /\ WriteContainer \/ OpenFails
      /\ Place(chunk, next, 0)
  BY DEF InsertInNext
<1>3. next = [containerID |-> containerNum', size |-> 0, data |-> curContainer.data]
  <2>1. next \in [containerID : {containerNum'}, size : {0}, data : {curContainer.data}]
    BY DEF WriteInv
  <2> HIDE DEF next
  <2> QED BY <2>1
<1>4. /\ e \in Entries /\ chunklist' = Append(chunklist, e)
      /\ curOffset' = 0 + chunk.saveSize
      /\ curContainer' = [containerID |-> containerNum', size |-> curOffset',
                          data |-> curContainer'.data]
      /\ PlacedIn(curContainer'.data, curOffset', Len(chunklist), e)
  <2>1. 0 \in Nat /\ 0 + chunk.saveSize <= ContainerMax /\ containerNum' \in Nat
    BY <1>1, <1>2
  <2> HIDE DEF next
  <2> QED BY <1>2, <1>3, <2>1, PlaceResult
<1>5. StoredIn(Len(chunklist), e, containerNum', curContainer'.data, curOffset', disk', lost')
  BY <1>1, <1>2, <1>4 DEF StoredIn
<1>6. ASSUME NEW id \in ChunkIds
      PROVE  StoredIn(id, Chunk(id), containerNum', curContainer'.data, curOffset',
                      disk', lost')
  <2> DEFINE c == Chunk(id)
  <2>1. Stored(id, c) /\ c \in Entries /\ c.containerID \in Nat
    BY EntryOf DEF WriteInv, Entries
  <2>2. c.containerID <= containerNum /\ c.containerID # containerNum'
    BY <1>1, <1>2, <2>1 DEF Stored, StoredIn
  <2>3. ASSUME c.containerID \notin lost'
        PROVE  /\ c.containerID \in DOMAIN disk'
               /\ PlacedIn(disk'[c.containerID].data, disk'[c.containerID].size, id, c)
    <3>1. CASE c.containerID = containerNum
      <4>1. /\ containerNum \in DOMAIN disk' /\ disk'[containerNum].size = curOffset
            /\ AgreeBelow(curContainer.data, disk'[containerNum].data, curOffset)
        BY <1>2, <2>3, <3>1, FlushKeeps
      <4>2. PlacedIn(curContainer.data, curOffset, id, c)
        BY <2>1, <3>1 DEF Stored, StoredIn
      <4> HIDE DEF c
      <4>3. PlacedIn(disk'[containerNum].data, curOffset, id, c)
        BY <1>1, <2>1, <4>1, <4>2, PlacedBelow
      <4> QED BY <3>1, <4>1, <4>3
    <3>2. CASE c.containerID # containerNum
      <4>1. c.containerID \notin lost
        BY <1>2, <2>3, FlushKeeps
      <4>2. /\ c.containerID \in DOMAIN disk
            /\ PlacedIn(disk[c.containerID].data, disk[c.containerID].size, id, c)
        BY <2>1, <3>2, <4>1 DEF Stored, StoredIn
      <4> QED BY <1>2, <3>2, <4>2, FlushKeeps
    <3> QED BY <3>1, <3>2
  <2>4. c.containerID <= containerNum'
    BY <1>1, <1>2, <2>1, <2>2
  <2> QED BY <2>1, <2>2, <2>3, <2>4 DEF Stored, StoredIn
<1>7. chunklist' \in Seq(Entries) /\ \A id \in ChunkIds' : Stored(id, Chunk(id))'
  <2> HIDE DEF e
  <2> QED BY <1>4, <1>5, <1>6, AppendStored
<1>8. curOffset' \in 0 .. ContainerMax /\ containerNum' \in Nat
  BY <1>1, <1>2, <1>4
<1>9. curContainer' \in [containerID : {containerNum'}, size : {curOffset'},
                         data : {curContainer'.data}]
  BY <1>4
<1>10. \A c \in DOMAIN disk' : disk'[c].size \in 0 .. ContainerMax
  BY <1>2, FlushKeeps
<1>11. \A c \in lost' : c \in Nat /\ c < containerNum'
  <2>1. \A c \in lost' : c \in Nat /\ c <= containerNum
    BY <1>1, <1>2, FlushKeeps DEF WriteInv
  <2> QED BY ONLY <1>1, <1>2, <2>1
<1> QED BY <1>7, <1>8, <1>9, <1>10, <1>11 DEF WriteInv

\* A file of a container below the current one is not written again.
LEMMA InsertKeepsFiles ==
  ASSUME WriteInv, NEW chunk \in OfferedChunks, InsertInCurrent(chunk) \/ InsertInNext(chunk)
  PROVE  /\ containerNum' \in Nat /\ containerNum <= containerNum'
         /\ \A c \in DOMAIN disk : c < containerNum => c \in DOMAIN disk' /\ disk'[c] = disk[c]
<1>1. containerNum \in Nat
  BY DEF WriteInv
<1>2. CASE InsertInCurrent(chunk)
  BY <1>1, <1>2 DEF InsertInCurrent
<1>3. CASE InsertInNext(chunk)
  <2>1. containerNum' = containerNum + 1 /\ (WriteContainer \/ OpenFails)
    BY <1>3 DEF InsertInNext
  <2>2. \A c \in DOMAIN disk : c # containerNum => c \in DOMAIN disk' /\ disk'[c] = disk[c]
    BY <2>1, FlushKeeps
  <2> QED BY <1>1, <2>1, <2>2
<1> QED BY <1>2, <1>3

\* Only complete containers are cached, so that the cache stays a mirror.
LEMMA InsertCaches ==
  ASSUME WriteInv, CacheInv, NEW chunk \in OfferedChunks,
         InsertInCurrent(chunk) \/ InsertInNext(chunk), UNCHANGED cacheVars
  PROVE  CacheInv'
<1>1. keys' = keys /\ pool' = pool /\ currentIndex' = currentIndex
  BY DEF cacheVars
<1>2. /\ containerNum \in Nat /\ containerNum' \in Nat /\ containerNum <= containerNum'
      /\ \A c \in DOMAIN disk : c < containerNum => c \in DOMAIN disk' /\ disk'[c] = disk[c]
  BY InsertKeepsFiles DEF WriteInv
<1>3. /\ DOMAIN keys = 1 .. Len(keys)
      /\ \A j \in 1 .. Len(keys) : keys[j].key \in Nat /\ keys[j].key < containerNum
  <2>1. \A j \in 1 .. Len(keys) : keys[j] \in [key : Nat, slot : Slots]
    BY ElementOfSeq DEF CacheInv
  <2>2. \A j \in 1 .. Len(keys) : keys[j].key \in Nat
    BY ONLY <2>1
  <2> QED BY <2>2 DEF CacheInv
<1>4. CacheCoherent'
  <2> SUFFICES ASSUME NEW j \in 1 .. Len(keys)
               PROVE  /\ \A l \in 1 .. Len(keys) :
                           l # j => keys[l].key # keys[j].key /\ keys[l].slot # keys[j].slot
                      /\ keys[j].key \in DOMAIN disk'
                      /\ \A a \in 0 .. (disk'[keys[j].key].size - 1) :
                           pool[keys[j].slot][a] = disk'[keys[j].key].data[a]
    BY <1>1, <1>3 DEF CacheCoherent
  <2>1. /\ \A l \in 1 .. Len(keys) :
             l # j => keys[l].key # keys[j].key /\ keys[l].slot # keys[j].slot
        /\ keys[j].key \in DOMAIN disk
        /\ \A a \in 0 .. (disk[keys[j].key].size - 1) :
             pool[keys[j].slot][a] = disk[keys[j].key].data[a]
    BY <1>3 DEF CacheInv, CacheCoherent
  <2>2. keys[j].key \in DOMAIN disk' /\ disk'[keys[j].key] = disk[keys[j].key]
    BY <1>2, <1>3, <2>1
  <2> QED BY <2>1, <2>2
<1>5. \A j \in 1 .. Len(keys) : keys[j].key < containerNum'
  BY <1>2, <1>3
<1> QED BY <1>1, <1>4, <1>5 DEF CacheInv

-----------------------------------------------------------------------------
(* Get_Chunk_Info *)

\* Where the n-th element of a list comes from whose p-th was moved to the front.
From(p, n) == IF n > p THEN n ELSE IF n > 1 THEN n - 1 ELSE p

LEMMA FunctionIsSeq ==
  ASSUME NEW S, NEW n \in Nat, NEW g \in [1 .. n -> S]
  PROVE  g \in Seq(S)
BY SeqDef

\* get() keeps all keys with their slots and puts the one it found in front.
LEMMA TouchPermutes ==
  ASSUME CacheInv, NEW key, InCache(key)
  PROVE  /\ Touch(key) \in Seq([key : Nat, slot : Slots]) /\ Len(Touch(key)) = Len(keys)
         /\ \A n \in 1 .. Len(keys) :
              From(PosOf(key), n) \in 1 .. Len(keys) /\ Touch(key)[n] = keys[From(PosOf(key), n)]
         /\ Len(keys) >= 1 /\ Touch(key)[1] = keys[PosOf(key)]
         /\ \A j \in 1 .. Len(keys) : \E n \in 1 .. Len(keys) : Touch(key)[n] = keys[j]
<1> DEFINE p == PosOf(key)
           L == Len(keys)
<1>1. /\ p \in 1 .. L /\ L \in Nat /\ DOMAIN keys = 1 .. L
  BY PosOfKey DEF CacheInv
<1>2. Touch(key) = [n \in 1 .. L |-> keys[From(p, n)]]
  BY <1>1 DEF Touch, From
<1> HIDE DEF p, L
<1>3. \A n \in 1 .. L : From(p, n) \in 1 .. L
  BY <1>1 DEF From
<1>4. \A n \in 1 .. L : keys[n] \in [key : Nat, slot : Slots]
  BY <1>1, ElementOfSeq DEF CacheInv, L
<1>5. Touch(key) \in Seq([key : Nat, slot : Slots]) /\ Len(Touch(key)) = L
  <2>1. Touch(key) \in [1 .. L -> [key : Nat, slot : Slots]]
    BY <1>2, <1>3, <1>4
  <2>2. Touch(key) \in Seq([key : Nat, slot : Slots])
    BY <1>1, <2>1, FunctionIsSeq
  <2>3. DOMAIN Touch(key) = 1 .. L
    BY ONLY <2>1
  <2> QED BY <1>1, <2>2, <2>3, LenProperties
<1>6. L >= 1 /\ From(p, 1) = p
  BY <1>1 DEF From
<1>7. ASSUME NEW j \in 1 .. L  PROVE \E n \in 1 .. L : Touch(key)[n] = keys[j]
  <2> DEFINE n == IF j > p THEN j ELSE IF j = p THEN 1 ELSE j + 1
  <2>1. n \in 1 .. L /\ From(p, n) = j
    BY <1>1 DEF From
  <2> QED BY <1>2, <2>1
<1> QED BY <1>1, <1>2, <1>3, <1>5, <1>6, <1>7 DEF p, L

LEMMA TouchCaches ==
  ASSUME WriteInv, CacheInv, NEW key, InCache(key), keys' = Touch(key),
         UNCHANGED <<pool, currentIndex>>, UNCHANGED writeVars
  PROVE  CacheInv'
<1> DEFINE L == Len(keys)
           q(n) == From(PosOf(key), n)
<1>1. /\ keys' \in Seq([key : Nat, slot : Slots]) /\ Len(keys') = L
      /\ \A n \in 1 .. L : q(n) \in 1 .. L /\ keys'[n] = keys[q(n)]
  BY TouchPermutes
<1>2. /\ DOMAIN keys = 1 .. L /\ DOMAIN keys' = 1 .. L
      /\ disk' = disk /\ containerNum' = containerNum
      /\ pool' = pool /\ currentIndex' = currentIndex
  BY <1>1 DEF CacheInv, writeVars
<1>3. \A n, m \in 1 .. L : n # m => q(n) # q(m)
  <2>1. PosOf(key) \in 1 .. L /\ L \in Nat
    BY PosOfKey DEF CacheInv
  <2> HIDE DEF L
  <2> QED BY <2>1 DEF From
<1> HIDE DEF q
<1>4. CacheCoherent'
  <2> SUFFICES ASSUME NEW j \in 1 .. L
               PROVE  /\ \A l \in 1 .. L :
                           l # j => keys'[l].key # keys'[j].key /\ keys'[l].slot # keys'[j].slot
                      /\ keys'[j].key \in DOMAIN disk
                      /\ \A a \in 0 .. (disk[keys'[j].key].size - 1) :
                           pool[keys'[j].slot][a] = disk[keys'[j].key].data[a]
    BY <1>2 DEF CacheCoherent
  <2>1. /\ \A l \in 1 .. L :
             l # q(j) => keys[l].key # keys[q(j)].key /\ keys[l].slot # keys[q(j)].slot
        /\ keys[q(j)].key \in DOMAIN disk
        /\ \A a \in 0 .. (disk[keys[q(j)].key].size - 1) :
             pool[keys[q(j)].slot][a] = disk[keys[q(j)].key].data[a]
    BY <1>1, <1>2 DEF CacheInv, CacheCoherent
  <2>2. q(j) \in 1 .. L /\ keys'[j] = keys[q(j)]
    BY ONLY <1>1, j \in 1 .. L
  <2>3. ASSUME NEW l \in 1 .. L, l # j
        PROVE  keys'[l].key # keys'[j].key /\ keys'[l].slot # keys'[j].slot
    <3>1. q(l) \in 1 .. L /\ q(l) # q(j) /\ keys'[l] = keys[q(l)]
      BY ONLY <1>1, <1>3, <2>3, j \in 1 .. L
    <3> QED BY ONLY <2>1, <2>2, <3>1
  <2> QED BY ONLY <2>1, <2>2, <2>3
<1>5. \A j \in 1 .. L : keys'[j].slot < currentIndex /\ keys'[j].key < containerNum
  BY <1>1 DEF CacheInv
<1> QED BY <1>1, <1>2, <1>4, <1>5 DEF CacheInv

\* The new key comes first; what is kept of the list is its first m elements.
InsertedAt(key, src, slot, m) ==
  /\ keys' \in Seq({[key |-> key, slot |-> slot]} \union [key : Nat, slot : Slots])
  /\ Len(keys') = m + 1 /\ Len(keys') = currentIndex' /\ currentIndex' <= CacheSize
  /\ keys'[1] = [key |-> key, slot |-> slot] /\ slot < currentIndex'
  /\ \A n \in 1 .. m : keys'[n + 1] = keys[n] /\ keys[n].slot # slot
  /\ currentIndex <= currentIndex'
  /\ Len(keys) >= 1 => m >= 1
  /\ pool' = [pool EXCEPT ![slot] = Overlay(@, 0, src.data, src.size)]

LEMMA AfterInsert ==
  ASSUME WriteInv, CacheInv, NEW key, ~InCache(key), NEW src, InsertToCache(key, src)
  PROVE  \E slot \in Slots, m \in 0 .. Len(keys) : InsertedAt(key, src, slot, m)
<1> DEFINE L == Len(keys)
           R == [key : Nat, slot : Slots]
           full == L + 1 > CacheSize
           slot == IF full THEN keys[L].slot ELSE currentIndex
           kept == IF full THEN SubSeq(keys, 1, L - 1) ELSE keys
           m == IF full THEN L - 1 ELSE L
           e == [key |-> key, slot |-> slot]
<1>1. /\ keys \in Seq(R) /\ L \in Nat /\ L = currentIndex /\ L <= CacheSize
      /\ DOMAIN keys = 1 .. L
  BY DEF CacheInv
<1>2. \A j \in 1 .. L : keys[j] \in R /\ keys[j].slot \in Slots
  <2>1. \A j \in 1 .. L : keys[j] \in R
    BY <1>1, ElementOfSeq
  <2> QED BY ONLY <2>1
<1>3. \A j \in 1 .. L : keys[j].slot < currentIndex
  BY DEF CacheInv
<1>4. \A j, l \in 1 .. L : l # j => keys[l].slot # keys[j].slot
  BY <1>1 DEF CacheInv, CacheCoherent
<1>5. /\ pool' = [pool EXCEPT ![slot] = Overlay(@, 0, src.data, src.size)]
      /\ keys' = <<e>> \o kept
      /\ currentIndex' = IF full THEN currentIndex ELSE currentIndex + 1
  BY DEF InsertToCache
<1>6. /\ slot \in Slots /\ slot < currentIndex' /\ m \in 0 .. L
      /\ currentIndex' = m + 1 /\ currentIndex' <= CacheSize /\ currentIndex <= currentIndex'
      /\ L >= 1 => m >= 1
      /\ \A n \in 1 .. m : keys[n].slot # slot
  <2> HIDE DEF L, R
  <2>1. CASE full
    <3>1. L = CacheSize /\ L \in 1 .. L
      BY <1>1, <2>1
    <3>2. \A n \in 1 .. (L - 1) : n \in 1 .. L /\ n # L
      BY <1>1
    <3>3. \A n \in 1 .. (L - 1) : keys[n].slot # keys[L].slot
      BY <1>4, <3>1, <3>2
    <3> QED BY <1>1, <1>2, <1>3, <1>5, <2>1, <3>1, <3>3
  <2>2. CASE ~full
    <3>1. currentIndex \in Slots
      BY <1>1, <2>2 DEF Slots
    <3>2. \A n \in 1 .. L : keys[n].slot # currentIndex
      <4>1. \A n \in 1 .. L : keys[n].slot \in Int /\ keys[n].slot < currentIndex
        BY <1>2, <1>3 DEF Slots
      <4> QED BY <1>1, <4>1
    <3> QED BY <1>1, <1>5, <2>2, <3>1, <3>2
  <2> QED BY <2>1, <2>2
<1>7. kept \in Seq({e} \union R) /\ Len(kept) = m /\ \A n \in 1 .. m : kept[n] = keys[n]
  <2> HIDE DEF L, R, e
  <2>1. CASE full
    <3>1. /\ SubSeq(keys, 1, L - 1) \in Seq(R)
          /\ Len(SubSeq(keys, 1, L - 1)) = IF 1 <= L - 1 THEN (L - 1) - 1 + 1 ELSE 0
          /\ \A i \in 1 .. (L - 1) - 1 + 1 : SubSeq(keys, 1, L - 1)[i] = keys[1 + i - 1]
      <4>1. \A i \in 1 .. (L - 1) : keys[i] \in R
        BY <1>1, <1>2
      <4>2. 1 \in Int /\ L - 1 \in Int
        BY <1>1
      <4> HIDE DEF full, slot, kept, m
      <4> QED BY <4>1, <4>2, SubSeqProperties
    <3>2. L = CacheSize /\ (L - 1) - 1 + 1 = L - 1
      BY <1>1, <2>1
    <3>3. \A i \in 1 .. (L - 1) : 1 + i - 1 = i
      OBVIOUS
    <3>4. kept = SubSeq(keys, 1, L - 1) /\ m = L - 1 /\ L - 1 >= 1
      BY <1>1, <2>1, <3>2
    <3> HIDE DEF kept, m, full, slot
    <3>5. Len(kept) = m /\ \A n \in 1 .. m : kept[n] = keys[n]
      BY <1>1, <3>1, <3>2, <3>3, <3>4
    <3>6. kept \in Seq({e} \union R)
      BY <3>1, <3>4, SeqMonotonic
    <3> QED BY <3>5, <3>6
  <2>2. CASE ~full
    <3>1. keys \in Seq({e} \union R)
      BY <1>1, SeqMonotonic
    <3> QED BY <1>1, <2>2, <3>1 DEF L
  <2> QED BY <2>1, <2>2
<1>8. /\ keys' \in Seq({e} \union R) /\ Len(keys') = m + 1 /\ keys'[1] = e
      /\ \A n \in 1 .. m : keys'[n + 1] = keys[n]
  <2>1. <<e>> \in Seq({e} \union R) /\ Len(<<e>>) = 1 /\ <<e>>[1] = e
    OBVIOUS
  <2> HIDE DEF kept, m, R, e
  <2>2. /\ <<e>> \o kept \in Seq({e} \union R)
        /\ Len(<<e>> \o kept) = 1 + m
        /\ \A i \in 1 .. 1 + m : (<<e>> \o kept)[i] = IF i <= 1 THEN <<e>>[i] ELSE kept[i - 1]
    BY <1>7, <2>1, ConcatProperties
  <2>3. m \in Nat
    BY <1>1, <1>6
  <2>4. 1 \in 1 .. 1 + m /\ \A n \in 1 .. m : n + 1 \in 1 .. 1 + m /\ ~(n + 1 <= 1) /\ (n + 1) - 1 = n
    BY <2>3
  <2>5. (<<e>> \o kept)[1] = e
    BY <2>1, <2>2, <2>4
  <2>6. \A n \in 1 .. m : (<<e>> \o kept)[n + 1] = keys[n]
    BY <1>7, <2>2, <2>4
  <2> QED BY <1>5, <2>2, <2>3, <2>5, <2>6
<1> HIDE DEF slot, m, full, kept
<1>9. InsertedAt(key, src, slot, m)
  BY <1>5, <1>6, <1>8 DEF InsertedAt
<1> QED BY <1>6, <1>9

\* The slot is overlaid with the file and belongs to no other key.
LEMMA InsertToCacheCaches ==
  ASSUME WriteInv, CacheInv, NEW key \in Nat, key < containerNum, ~InCache(key),
         key \in DOMAIN disk, InsertToCache(key, disk[key]), UNCHANGED writeVars
  PROVE  CacheInv'
<1> DEFINE R == [key : Nat, slot : Slots]
           L == Len(keys)
           src == disk[key]
<1>0. PICK slot \in Slots, m \in 0 .. Len(keys) : InsertedAt(key, src, slot, m)
  <2> HIDE DEF L, R
  <2> QED BY AfterInsert
<1>1. /\ keys' \in Seq({[key |-> key, slot |-> slot]} \union [key : Nat, slot : Slots])
      /\ Len(keys') = m + 1 /\ Len(keys') = currentIndex' /\ currentIndex' <= CacheSize
      /\ keys'[1] = [key |-> key, slot |-> slot] /\ slot < currentIndex'
      /\ \A n \in 1 .. m : keys'[n + 1] = keys[n] /\ keys[n].slot # slot
      /\ currentIndex <= currentIndex'
      /\ Len(keys) >= 1 => m >= 1
      /\ pool' = [pool EXCEPT ![slot] = Overlay(@, 0, src.data, src.size)]
  BY <1>0 DEF InsertedAt
<1>2. /\ DOMAIN keys = 1 .. L /\ DOMAIN pool = Slots /\ m \in Nat /\ L \in Nat
      /\ disk' = disk /\ containerNum' = containerNum
  BY DEF CacheInv, writeVars
<1>3. keys' \in Seq(R) /\ DOMAIN keys' = 1 .. m + 1
  <2>1. [key |-> key, slot |-> slot] \in R
    OBVIOUS
  <2>2. {[key |-> key, slot |-> slot]} \union R = R
    BY <2>1
  <2> HIDE DEF R
  <2>3. keys' \in Seq(R)
    BY <1>1, <2>2 DEF R
  <2> QED BY <1>1, <2>3, LenProperties
<1>4. keys'[1].key = key /\ keys'[1].slot = slot
  BY <1>1
<1>5. \A n \in 2 .. m + 1 : /\ n - 1 \in 1 .. m /\ n - 1 \in 1 .. L
                            /\ keys'[n] = keys[n - 1] /\ keys[n - 1].slot # slot
  <2>1. \A n \in 2 .. m + 1 : n - 1 \in 1 .. m /\ n - 1 \in 1 .. L /\ (n - 1) + 1 = n
    BY <1>2
  <2> QED BY <1>1, <2>1
<1>6. \A n \in 1 .. m + 1 : n = 1 \/ n \in 2 .. m + 1
  BY <1>2
<1>7. /\ \A n \in 1 .. L : /\ keys[n].key # key /\ keys[n].key \in DOMAIN disk
                           /\ keys[n].slot < currentIndex /\ keys[n].key < containerNum
                           /\ keys[n].slot \in Slots
      /\ \A n, l \in 1 .. L : n # l => keys[n].key # keys[l].key /\ keys[n].slot # keys[l].slot
      /\ \A n \in 1 .. L : \A a \in 0 .. (disk[keys[n].key].size - 1) :
           pool[keys[n].slot][a] = disk[keys[n].key].data[a]
  <2>1. \A n \in 1 .. L : keys[n] \in R
    BY ElementOfSeq DEF CacheInv
  <2>2. \A n \in 1 .. L : keys[n].slot \in Slots
    BY ONLY <2>1
  <2>3. \A n \in 1 .. L : keys[n].key # key
    BY <1>2 DEF InCache
  <2>4. CacheCoherent /\ \A n \in 1 .. L : keys[n].slot < currentIndex /\ keys[n].key < containerNum
    BY DEF CacheInv
  <2>5. \A n, l \in 1 .. L : n # l => keys[n].key # keys[l].key /\ keys[n].slot # keys[l].slot
    BY <1>2, <2>4 DEF CacheCoherent
  <2>6. \A n \in 1 .. L : /\ keys[n].key \in DOMAIN disk
                          /\ \A a \in 0 .. (disk[keys[n].key].size - 1) :
                               pool[keys[n].slot][a] = disk[keys[n].key].data[a]
    BY <1>2, <2>4 DEF CacheCoherent
  <2> QED BY <2>2, <2>3, <2>4, <2>5, <2>6
<1>8. \A a \in 0 .. (src.size - 1) : pool'[slot][a] = src.data[a]
  <2>1. src.size \in 0 .. ContainerMax
    BY DEF WriteInv
  <2>2. pool'[slot] = Overlay(pool[slot], 0, src.data, src.size)
    BY <1>1, <1>2
  <2>3. ASSUME NEW a \in 0 .. (src.size - 1)
        PROVE  a \in Addr /\ a \in 0 .. (0 + src.size - 1) /\ a - 0 = a
    BY <2>1 DEF Addr
  <2> QED BY <2>2, <2>3 DEF Overlay
<1>9. \A s \in Slots : s # slot => pool'[s] = pool[s]
  BY <1>1, <1>2
<1>10. DOMAIN pool' = Slots
  BY <1>1, <1>2
<1> HIDE DEF L, R, src
<1>11. CacheCoherent'
  <2> SUFFICES ASSUME NEW j \in 1 .. m + 1
               PROVE  /\ \A l \in 1 .. m + 1 :
                           l # j => keys'[l].key # keys'[j].key /\ keys'[l].slot # keys'[j].slot
                      /\ keys'[j].key \in DOMAIN disk
                      /\ \A a \in 0 .. (disk[keys'[j].key].size - 1) :
                           pool'[keys'[j].slot][a] = disk[keys'[j].key].data[a]
    BY <1>2, <1>3 DEF CacheCoherent
  <2>1. ASSUME NEW l \in 1 .. m + 1, l # j
        PROVE  keys'[l].key # keys'[j].key /\ keys'[l].slot # keys'[j].slot
    <3>1. \A n \in 2 .. m + 1 : keys'[n].key # key /\ keys'[n].slot # slot
      BY <1>5, <1>7
    <3>2. CASE l = 1 /\ j # 1
      BY <1>4, <1>6, <3>1, <3>2
    <3>3. CASE l # 1 /\ j = 1
      BY <1>4, <1>6, <3>1, <3>3
    <3>4. CASE l # 1 /\ j # 1
      <4>1. l \in 2 .. m + 1 /\ j \in 2 .. m + 1 /\ l - 1 # j - 1
        BY <1>6, <2>1, <3>4
      <4>2. /\ keys'[l] = keys[l - 1] /\ l - 1 \in 1 .. L
            /\ keys'[j] = keys[j - 1] /\ j - 1 \in 1 .. L
        BY <1>5, <4>1
      <4>3. keys[l - 1].key # keys[j - 1].key /\ keys[l - 1].slot # keys[j - 1].slot
        BY <1>7, <4>1, <4>2
      <4> QED BY <4>2, <4>3
    <3> QED BY <2>1, <3>2, <3>3, <3>4
  <2>2. CASE j = 1
    BY <1>4, <1>8, <2>1, <2>2 DEF src
  <2>3. CASE j # 1
    <3>1. j \in 2 .. m + 1
      BY <1>6, <2>3
    <3>2. /\ keys'[j] = keys[j - 1] /\ j - 1 \in 1 .. L
          /\ pool'[keys[j - 1].slot] = pool[keys[j - 1].slot]
      BY <1>5, <1>7, <1>9, <3>1
    <3> QED BY <1>7, <2>1, <3>2
  <2> QED BY <2>2, <2>3
<1>12. ASSUME NEW j \in 1 .. m + 1
       PROVE  keys'[j].slot < currentIndex' /\ keys'[j].key < containerNum
  <2>1. CASE j = 1
    BY <1>1, <1>4, <2>1
  <2>2. CASE j # 1
    <3>1. keys'[j] = keys[j - 1] /\ j - 1 \in 1 .. L
      BY <1>5, <1>6, <2>2
    <3>2. keys[j - 1].slot \in Int /\ currentIndex \in Int /\ currentIndex' \in Int
      BY <1>1, <1>2, <1>7, <3>1 DEF Slots, CacheInv
    <3> QED BY <1>1, <1>7, <3>1, <3>2
  <2> QED BY <2>1, <2>2
<1> QED BY <1>1, <1>2, <1>3, <1>10, <1>11, <1>12 DEF CacheInv, R

\* Only a container that is complete is read from its file.
LEMMA FileBelow ==
  ASSUME WriteInv, NEW id \in ChunkIds, Source(id) = "file"
  PROVE  /\ Chunk(id).containerID \in Nat /\ Chunk(id).containerID < containerNum
         /\ ~InCache(Chunk(id).containerID) /\ Chunk(id).containerID \in DOMAIN disk
<1>1. Chunk(id) \in Entries /\ Stored(id, Chunk(id)) /\ containerNum \in Nat
  BY EntryOf DEF WriteInv
<1>2. Chunk(id).containerID \in Nat /\ Chunk(id).containerID <= containerNum
  BY <1>1 DEF Entries, Stored, StoredIn
<1>3. /\ ~InCache(Chunk(id).containerID) /\ Chunk(id).containerID \in DOMAIN disk
      /\ Chunk(id).containerID # containerNum
  BY DEF Source
<1> QED BY <1>1, <1>2, <1>3

\* Whatever branch is taken, the cache stays a mirror, a key that is found is
\* first afterwards, and the key that was first is still in the list.
LEMMA GetCaches ==
  ASSUME WriteInv, CacheInv, NEW id \in ChunkIds, Get_Chunk_Info(id)
  PROVE  /\ CacheInv'
         /\ Source(id) = "cache" =>
              Len(keys') >= 1 /\ keys'[1] = keys[PosOf(Chunk(id).containerID)]
         /\ Len(keys) >= 1 => \E n \in 1 .. Len(keys') : keys'[n] = keys[1]
<1> DEFINE cid == Chunk(id).containerID
<1>1. UNCHANGED writeVars
  BY DEF Get_Chunk_Info
<1>2. CASE Source(id) = "cache"
  <2>1. InCache(cid) /\ keys' = Touch(cid) /\ UNCHANGED <<pool, currentIndex>>
    BY <1>2 DEF Source, Get_Chunk_Info
  <2> HIDE DEF cid
  <2>2. CacheInv'
    BY <1>1, <2>1, TouchCaches
  <2>3. /\ Len(keys') = Len(keys) /\ Len(keys) >= 1 /\ keys'[1] = keys[PosOf(cid)]
        /\ \A j \in 1 .. Len(keys) : \E n \in 1 .. Len(keys) : keys'[n] = keys[j]
    BY ONLY <2>1, CacheInv, TouchPermutes
  <2>4. 1 \in 1 .. Len(keys)
    BY <2>3 DEF CacheInv
  <2> QED BY <2>2, <2>3, <2>4 DEF cid
<1>3. CASE Source(id) = "file"
  <2>1. InsertToCache(cid, disk[cid])
    BY <1>3 DEF Get_Chunk_Info
  <2>2. cid \in Nat /\ cid < containerNum /\ ~InCache(cid) /\ cid \in DOMAIN disk
    BY <1>3, FileBelow
  <2> HIDE DEF cid
  <2>3. CacheInv'
    BY <1>1, <2>1, <2>2, InsertToCacheCaches
  <2>4. PICK slot \in Slots, m \in 0 .. Len(keys) : InsertedAt(cid, disk[cid], slot, m)
    BY <2>1, <2>2, AfterInsert
  <2>5. ASSUME Len(keys) >= 1
        PROVE  \E n \in 1 .. Len(keys') : keys'[n] = keys[1]
    <3>1. m >= 1 /\ Len(keys') = m + 1 /\ \A n \in 1 .. m : keys'[n + 1] = keys[n]
      BY <2>4, <2>5 DEF InsertedAt
    <3>2. m \in Nat
      BY DEF CacheInv
    <3>3. 1 \in 1 .. m /\ 1 + 1 \in 1 .. Len(keys')
      BY <3>1, <3>2
    <3> QED BY <3>1, <3>3
  <2> QED BY <1>3, <2>3, <2>5
<1>4. CASE Source(id) \notin {"cache", "file"}
  <2>1. keys' = keys /\ pool' = pool /\ currentIndex' = currentIndex
        /\ disk' = disk /\ containerNum' = containerNum
    BY <1>1, <1>4 DEF Get_Chunk_Info, cacheVars, writeVars
  <2>2. CacheInv'
    BY ONLY <2>1, CacheInv DEF CacheInv, CacheCoherent
  <2>3. Len(keys) >= 1 => 1 \in 1 .. Len(keys)
    BY DEF CacheInv
  <2> QED BY <1>4, <2>1, <2>2, <2>3
<1> QED BY <1>2, <1>3, <1>4

\* What is returned: a heap copy of the content, a pointer into the slot of the
\* key now first in the list, or a pointer into the current container.
LEMMA PointerValid ==
  ASSUME WriteInv, CacheInv, NEW id \in ChunkIds, NEW list,
         Source(id) = "cache" =>
           Len(list) >= 1 /\ Len(list) \in Nat /\ list[1] = keys[PosOf(Chunk(id).containerID)]
  PROVE  /\ ValidIn(Pointer(id), list)
         /\ Pointer(id).at = "cache" => InFront(Pointer(id), list)
<1> DEFINE c == Chunk(id)
           heap == c.deltaFlag = "NO_DELTA" \/ Source(id) \in {"file", "missing"}
           h == Pointer(id)
<1>1. /\ h.id = id /\ h.loadFromDisk = heap
      /\ h.at = IF heap THEN "heap" ELSE Source(id)
      /\ h.slot = IF ~heap /\ Source(id) = "cache" THEN SlotOf(c.containerID) ELSE 0
      /\ h.copy = IF heap THEN Fetched(id) ELSE <<>>
  BY DEF Pointer
<1>2. Source(id) \in {"cache", "current", "file", "missing"}
  BY DEF Source
<1> HIDE DEF h
<1>3. CASE heap
  <2>1. h.at = "heap" /\ h.loadFromDisk /\ h.copy = Fetched(id)
    BY <1>1, <1>3
  <2>2. c.containerID \in lost \/ h.copy = Content(id, c)
    BY <2>1, FetchedIsContent
  <2> QED BY <1>1, <2>1, <2>2 DEF ValidIn, h
<1>4. CASE ~heap /\ Source(id) = "current"
  <2>1. h.at = "current" /\ ~h.loadFromDisk /\ c.deltaFlag # "NO_DELTA"
    BY <1>1, <1>4
  <2>2. c.containerID = containerNum
    BY <1>4 DEF Source
  <2> QED BY <1>1, <2>1, <2>2 DEF ValidIn, h
<1>5. CASE ~heap /\ Source(id) = "cache"
  <2>1. h.at = "cache" /\ ~h.loadFromDisk /\ c.deltaFlag # "NO_DELTA"
        /\ h.slot = SlotOf(c.containerID)
    BY <1>1, <1>5
  <2>2. InCache(c.containerID)
    BY <1>5 DEF Source
  <2>3. /\ keys[PosOf(c.containerID)].key = c.containerID
        /\ keys[PosOf(c.containerID)].slot = h.slot
    BY <2>1, <2>2, PosOfKey
  <2>4. InFront(h, list)
    BY <1>1, <1>5, <2>3 DEF InFront
  <2>5. InList(h, list)
    <3>1. 1 \in 1 .. Len(list)
      BY <1>5
    <3> QED BY <2>4, <3>1 DEF InFront, InList
  <2> QED BY <1>1, <2>1, <2>4, <2>5 DEF ValidIn, h
<1> QED BY <1>2, <1>3, <1>4, <1>5

LEMMA AppendToOne ==
  ASSUME NEW h, NEW p
  PROVE  Append(<<h>>, p) = <<h, p>>
<1> DEFINE a == Append(<<h>>, p)
           b == <<h, p>>
<1>1. a \in Seq({h, p}) /\ Len(a) = 2 /\ a[1] = h /\ a[2] = p
  OBVIOUS
<1>2. b \in Seq({h, p}) /\ Len(b) = 2 /\ b[1] = h /\ b[2] = p
  OBVIOUS
<1>3. \A i \in 1 .. 2 : i = 1 \/ i = 2
  OBVIOUS
<1> HIDE DEF a, b
<1>4. \A i \in 1 .. Len(a) : a[i] = b[i]
  BY <1>1, <1>2, <1>3
<1>5. a = b
  BY <1>1, <1>2, <1>4, SeqEqual
<1> QED BY <1>5 DEF a, b

\* Fetching one more chunk leaves the one in use valid.
LEMMA GetHolds ==
  ASSUME StoreInv, NEW id \in ChunkIds, Get_Chunk_Info(id)
  PROVE  HeldInv'
<1> DEFINE p == Pointer(id)
<1>1. /\ chunklist' = chunklist /\ containerNum' = containerNum /\ lost' = lost
      /\ held' = Append(held, p) /\ Len(held) < 2
  BY DEF Get_Chunk_Info, writeVars
<1>2. WriteInv /\ CacheInv /\ HeldInv /\ CacheInv'
  BY GetCaches DEF StoreInv
<1>3. Len(keys') \in Nat
  BY <1>2 DEF CacheInv
<1>4. ValidIn(p, keys') /\ (p.at = "cache" => InFront(p, keys'))
  BY <1>2, <1>3, GetCaches, PointerValid
<1>5. (\A j \in 1 .. Len(held) : ValidIn(held[j], keys))' <=>
        \A j \in 1 .. Len(held') : ValidIn(held'[j], keys')
  BY <1>1 DEF ValidIn, InList, Chunk, ChunkIds
<1>6. InFront(held[1], keys)' <=> InFront(held'[1], keys')
  BY <1>1 DEF InFront, Chunk
<1> HIDE DEF p
<1>7. CASE held = <<>>
  <2>1. held' = <<p>>
    BY <1>1, <1>7
  <2> QED BY <1>4, <1>5, <1>6, <2>1 DEF HeldInv
<1>8. ASSUME NEW h, held = <<h>>
      PROVE  HeldInv'
  <2>1. held' = <<h, p>>
    BY ONLY <1>1, <1>8, AppendToOne
  <2>2. ValidIn(h, keys) /\ (h.at = "cache" => InFront(h, keys))
    BY <1>2, <1>8 DEF HeldInv
  <2>3. h.at = "cache" => InList(h, keys')
    <3> SUFFICES ASSUME h.at = "cache" PROVE InList(h, keys')
      OBVIOUS
    <3>1. InFront(h, keys)
      BY <2>2
    <3>2. PICK n \in 1 .. Len(keys') : keys'[n] = keys[1]
      BY <1>2, <3>1, GetCaches DEF InFront
    <3> QED BY <3>1, <3>2 DEF InFront, InList
  <2>4. ValidIn(h, keys')
    BY <2>2, <2>3 DEF ValidIn
  <2>5. /\ Len(held') = 2 /\ \A j \in 1 .. Len(held') : held'[j] = h \/ held'[j] = p
    BY <2>1
  <2> QED BY <1>4, <1>5, <2>1, <2>4, <2>5 DEF HeldInv
<1> QED BY <1>1, <1>2, <1>7, <1>8 DEF HeldInv

-----------------------------------------------------------------------------
(* The theorems *)

LEMMA InitStore == Init => StoreInv
<1> SUFFICES ASSUME Init PROVE StoreInv
  OBVIOUS
<1>1. WriteInv
  <2>1. chunklist = <<>> /\ ChunkIds = {}
    BY DEF Init, ChunkIds
  <2>2. /\ containerNum = 0 /\ curOffset = 0 /\ lost = {}
        /\ curContainer = [containerID |-> 0, size |-> 0, data |-> Blank]
    BY DEF Init
  <2>3. \A c \in DOMAIN disk : disk[c].size \in 0 .. ContainerMax
    BY DEF Init
  <2> QED BY <2>1, <2>2, <2>3 DEF WriteInv
<1>2. CacheInv
  <2>1. keys = <<>> /\ DOMAIN keys = {} /\ Len(keys) = 0 /\ currentIndex = 0
    BY DEF Init
  <2>2. DOMAIN pool = Slots
    BY DEF Init
  <2> QED BY <2>1, <2>2 DEF CacheInv, CacheCoherent
<1>3. HeldInv
  BY DEF Init, HeldInv
<1> QED BY <1>1, <1>2, <1>3 DEF StoreInv

LEMMA EmptyHolds == held' = <<>> => HeldInv'
BY DEF HeldInv

LEMMA StoreInductive == StoreInv /\ [Next]_vars => StoreInv'
<1> SUFFICES ASSUME StoreInv, [Next]_vars PROVE StoreInv'
  OBVIOUS
<1>1. WriteInv /\ CacheInv /\ HeldInv
  BY DEF StoreInv
<1>2. ASSUME NEW chunk \in OfferedChunks, Storable(chunk), Chunk_Insert(chunk)
      PROVE  StoreInv'
  <2>1. /\ InsertInCurrent(chunk) \/ InsertInNext(chunk)
        /\ held' = <<>> /\ UNCHANGED cacheVars
    BY <1>2 DEF Chunk_Insert
  <2>2. WriteInv'
    BY <1>1, <1>2, <2>1, InsertInCurrentWrites, InsertInNextWrites
  <2>3. CacheInv'
    BY <1>1, <2>1, InsertCaches
  <2> QED BY <2>1, <2>2, <2>3, EmptyHolds DEF StoreInv
<1>3. ASSUME UNCHANGED writeVars
      PROVE  WriteInv'
  <2>1. /\ chunklist' = chunklist /\ containerNum' = containerNum /\ disk' = disk
        /\ curContainer' = curContainer /\ curOffset' = curOffset /\ lost' = lost
    BY <1>3 DEF writeVars
  <2> QED BY <1>1, <2>1 DEF WriteInv, ChunkIds, Chunk, Stored
<1>4. ASSUME NEW id \in ChunkIds, Get_Chunk_Info(id)
      PROVE  StoreInv'
  <2>1. WriteInv'
    BY <1>3, <1>4 DEF Get_Chunk_Info
  <2>2. CacheInv'
    BY <1>1, <1>4, GetCaches
  <2> QED BY <1>4, <2>1, <2>2, GetHolds DEF StoreInv
<1>5. ASSUME UNCHANGED writeVars, UNCHANGED cacheVars
      PROVE  CacheInv'
  BY <1>1, <1>5 DEF writeVars, cacheVars, CacheInv, CacheCoherent
<1>6. CASE Release
  BY <1>3, <1>5, <1>6, EmptyHolds DEF Release, StoreInv
<1>7. CASE UNCHANGED vars
  <2>1. UNCHANGED writeVars /\ UNCHANGED cacheVars /\ held' = held
    BY <1>7 DEF vars, writeVars, cacheVars
  <2>2. HeldInv'
    BY <1>1, <2>1
       DEF writeVars, cacheVars, HeldInv, ValidIn, InList, InFront, Chunk, ChunkIds
  <2> QED BY <1>3, <1>5, <2>1, <2>2 DEF StoreInv
<1> QED BY <1>2, <1>4, <1>6, <1>7 DEF Next

\* The inductive invariant of the store holds.
THEOREM StoreInvHolds == Spec => []StoreInv
BY InitStore, StoreInductive, PTL DEF Spec

\* A chunk that was inserted, and whose container was not lost, is read back
\* from wherever Get_Chunk_Info finds it.
THEOREM ReadBackHolds == Spec => []ReadBack
<1>1. StoreInv => ReadBack
  BY FetchedIsContent DEF StoreInv, ReadBack
<1> QED BY <1>1, StoreInvHolds, PTL

\* Each slot of the read cache mirrors the file of its key, and no two keys
\* share one, although InsertToCache reuses and overlays slots.
THEOREM CacheCoherentHolds == Spec => []CacheCoherent
<1>1. StoreInv => CacheCoherent
  BY DEF StoreInv, CacheInv
<1> QED BY <1>1, StoreInvHolds, PTL

\* A pointer that Get_Chunk_Info returned shows its chunk while it is in use.
THEOREM HeldIntactHolds == Spec => []HeldIntact
<1>1. ASSUME StoreInv  PROVE HeldIntact
  <2>1. WriteInv /\ CacheInv /\ HeldInv
    BY <1>1 DEF StoreInv
  <2>2. DOMAIN held = 1 .. Len(held)
    <3>1. CASE held = <<>>
      BY <3>1
    <3>2. ASSUME NEW h, held = <<h>>  PROVE DOMAIN held = 1 .. Len(held)
      BY <3>2
    <3>3. ASSUME NEW h, NEW g, held = <<g, h>>  PROVE DOMAIN held = 1 .. Len(held)
      BY <3>3
    <3> QED BY <2>1, <3>1, <3>2, <3>3 DEF HeldInv
  <2>3. ASSUME NEW j \in DOMAIN held
        PROVE  /\ held[j].loadFromDisk <=> held[j].at = "heap"
               /\ Chunk(held[j].id).containerID \notin lost =>
                    Deref(held[j]) = Content(held[j].id, Chunk(held[j].id))
    <3> DEFINE h == held[j]
               c == Chunk(h.id)
    <3>1. ValidIn(h, keys)
      BY <2>1, <2>2 DEF HeldInv
    <3> HIDE DEF h
    <3>2. h.id \in ChunkIds /\ (h.loadFromDisk <=> h.at = "heap")
      BY <3>1 DEF ValidIn
    <3>3. ASSUME c.containerID \notin lost
          PROVE  Deref(h) = Content(h.id, c)
      <4>1. CASE h.at = "heap"
        BY <3>1, <3>3, <4>1 DEF ValidIn, Deref
      <4>2. CASE h.at = "cache"
        <5>1. PICK l \in 1 .. Len(keys) : keys[l].key = c.containerID /\ keys[l].slot = h.slot
          BY <3>1, <4>2 DEF ValidIn, InList
        <5>2. PlacedIn(pool[h.slot], ContainerMax, h.id, c)
          BY <2>1, <3>2, <3>3, <5>1, SlotHoldsChunk
        <5>3. Deref(h) = StoredBytes(h.id, c)
          BY <4>2, <5>2, SliceStored DEF Deref
        <5>4. c.deltaFlag # "NO_DELTA"
          BY <3>1, <4>2 DEF ValidIn
        <5> QED BY <2>1, <3>2, <5>3, <5>4, StoredIsContent
      <4>3. CASE h.at = "current"
        <5>1. c.containerID = containerNum /\ c.deltaFlag # "NO_DELTA"
          BY <3>1, <4>3 DEF ValidIn
        <5>2. PlacedIn(curContainer.data, curOffset, h.id, c)
          BY <2>1, <3>2, <5>1 DEF WriteInv, Stored, StoredIn
        <5>3. Deref(h) = StoredBytes(h.id, c)
          BY <4>3, <5>2, SliceStored DEF Deref
        <5> QED BY <2>1, <3>2, <5>1, <5>3, StoredIsContent
      <4> QED BY <3>1, <4>1, <4>2, <4>3 DEF ValidIn
    <3> QED BY <3>2, <3>3 DEF h
  <2> QED BY <2>3 DEF HeldIntact
<1> QED BY <1>1, StoreInvHolds, PTL

\* A container file is written once and a chunk keeps its place for good.
THEOREM WriteOnceHolds == Spec => WriteOnce
<1> DEFINE Kept == /\ \A c \in DOMAIN disk :
                        c < containerNum => c \in DOMAIN disk' /\ disk'[c] = disk[c]
                   /\ \A id \in ChunkIds :
                        /\ chunklist'[id + 1].containerID = Chunk(id).containerID
                        /\ chunklist'[id + 1].offset = Chunk(id).offset
<1>1. ASSUME WriteInv, [Next]_vars  PROVE [Kept]_vars
  <2>1. ASSUME NEW chunk \in OfferedChunks, Storable(chunk), Chunk_Insert(chunk)
        PROVE  Kept
    <3>1. InsertInCurrent(chunk) \/ InsertInNext(chunk)
      BY <2>1 DEF Chunk_Insert
    <3>2. PICK e : chunklist' = Append(chunklist, e)
      BY <3>1 DEF InsertInCurrent, InsertInNext, Place
    <3>3. \A id \in ChunkIds : chunklist'[id + 1] = Chunk(id)
      <4>1. chunklist \in Seq(Entries \union {e}) /\ Len(chunklist) \in Nat
        BY <1>1, SeqMonotonic DEF WriteInv
      <4>2. \A id \in ChunkIds : id + 1 \in 1 .. Len(chunklist)
        BY <4>1 DEF ChunkIds
      <4> QED BY <3>2, <4>1, <4>2 DEF Chunk
    <3> QED BY <1>1, <3>1, <3>3, InsertKeepsFiles
  <2>2. ASSUME UNCHANGED writeVars  PROVE Kept
    BY <2>2 DEF writeVars, Chunk
  <2>3. ASSUME NEW id \in ChunkIds, Get_Chunk_Info(id)  PROVE Kept
    BY <2>2, <2>3 DEF Get_Chunk_Info
  <2>4. CASE Release
    BY <2>2, <2>4 DEF Release
  <2> QED BY <1>1, <2>1, <2>3, <2>4 DEF Next
<1>2. StoreInv => WriteInv
  BY DEF StoreInv
<1> QED BY <1>1, <1>2, StoreInvHolds, PTL DEF Spec, WriteOnce
=============================================================================
