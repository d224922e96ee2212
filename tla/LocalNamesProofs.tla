-------------------------- MODULE LocalNamesProofs --------------------------
(***************************************************************************)
(* The properties of LocalNames for any directories, manifests, names and  *)
(* lines: what a write of the block does to any well-formed file, and that *)
(* commands which run one at a time keep the block, the leaf and the       *)
(* registry in step.                                                       *)
(***************************************************************************)
EXTENDS LocalNames, FiniteSetTheorems, TLAPS

-----------------------------------------------------------------------------
(* Subsequences.  Rank and Nth are inverse to each other.                  *)

Rank(K, i) == Cardinality({j \in K : j <= i})

(* A larger element has a larger rank.                                     *)
LEMMA RankIncreases ==
    ASSUME NEW m \in Nat, NEW K \in SUBSET (1..m)
    PROVE  /\ IsFiniteSet(K) /\ Cardinality(K) \in Nat
           /\ \A i \in K : Rank(K, i) \in 1..Cardinality(K)
           /\ \A i, k \in K : i < k => Rank(K, i) < Rank(K, k)
<1>1. IsFiniteSet(1..m) /\ \A k \in K : k \in Int
    BY FS_Interval
<1>2. IsFiniteSet(K)
    BY <1>1, FS_Subset
<1>3. Cardinality(K) \in Nat
    BY <1>2, FS_CardinalityType
<1>4. ASSUME NEW i \in K
      PROVE  Rank(K, i) \in 1..Cardinality(K)
    <2> DEFINE S == {j \in K : j <= i}
    <2>1. S \in SUBSET K /\ i \in S
        BY <1>1
    <2>2. IsFiniteSet(S) /\ Cardinality(S) <= Cardinality(K)
        BY <1>2, <2>1, FS_Subset
    <2>3. Cardinality(S) \in Nat /\ Cardinality(S) # 0
        BY <2>1, <2>2, FS_CardinalityType, FS_EmptySet
    <2> QED BY <1>3, <2>2, <2>3 DEF Rank
<1>5. ASSUME NEW i \in K, NEW k \in K, i < k
      PROVE  Rank(K, i) < Rank(K, k)
    <2> DEFINE S == {j \in K : j <= i}
               T == {j \in K : j <= k}
    <2>1. S \in SUBSET T
        <3>1. \A j \in K : j <= i => j <= k
            BY <1>1, <1>5
        <3> QED BY <3>1
    <2>2. k \in T /\ k \notin S
        BY <1>1, <1>5
    <2>3. T \in SUBSET K
        OBVIOUS
    <2>4. IsFiniteSet(T)
        BY <1>2, <2>3, FS_Subset
    <2>5. /\ Cardinality(S) <= Cardinality(T)
          /\ Cardinality(S) # Cardinality(T)
        BY <2>1, <2>2, <2>4, FS_Subset
    <2>6. Cardinality(S) \in Nat /\ Cardinality(T) \in Nat
        BY <1>4 DEF Rank
    <2> QED BY <2>5, <2>6 DEF Rank
<1> QED BY <1>2, <1>3, <1>4, <1>5

(* Nth enumerates a set of indices in increasing order.                    *)
LEMMA NthEnumerates ==
    ASSUME NEW m \in Nat, NEW K \in SUBSET (1..m)
    PROVE  /\ Cardinality(K) \in Nat
           /\ \A n \in 1..Cardinality(K) : Nth(K, n) \in K /\ Rank(K, Nth(K, n)) = n
           /\ \A i \in K : Rank(K, i) \in 1..Cardinality(K) /\ Nth(K, Rank(K, i)) = i
           /\ \A a, b \in 1..Cardinality(K) : a < b => Nth(K, a) < Nth(K, b)
<1> DEFINE c == Cardinality(K)
           f == [i \in K |-> Rank(K, i)]
<1>1. /\ IsFiniteSet(K) /\ c \in Nat
      /\ \A i \in K : Rank(K, i) \in 1..c
      /\ \A i, k \in K : i < k => Rank(K, i) < Rank(K, k)
    BY RankIncreases
<1>2. \A i, k \in K : Rank(K, i) = Rank(K, k) => i = k
    <2> SUFFICES ASSUME NEW i \in K, NEW k \in K, i # k
                 PROVE  Rank(K, i) # Rank(K, k)
        OBVIOUS
    <2>1. i < k \/ k < i
        OBVIOUS
    <2> QED BY <1>1, <2>1
<1>3. IsFiniteSet(1..c) /\ Cardinality(1..c) = c
    BY <1>1, FS_Interval
<1>4. f \in Injection(K, 1..c)
    BY <1>1, <1>2 DEF Injection, IsInjective
<1>5. f \in Surjection(K, 1..c)
    BY <1>3, <1>4, FS_Injection
<1>6. \A n \in 1..c : \E i \in K : Rank(K, i) = n
    BY <1>5 DEF Surjection
<1>7. \A n \in 1..c : Nth(K, n) \in K /\ Rank(K, Nth(K, n)) = n
    BY <1>6 DEF Nth, Rank
<1>8. \A i \in K : Nth(K, Rank(K, i)) = i
    BY <1>1, <1>2, <1>7
<1>9. ASSUME NEW a \in 1..c, NEW b \in 1..c, a < b
      PROVE  Nth(K, a) < Nth(K, b)
    <2> DEFINE x == Nth(K, a)
               y == Nth(K, b)
    <2>1. x \in K /\ y \in K /\ Rank(K, x) = a /\ Rank(K, y) = b
        BY <1>7
    <2> HIDE DEF x, y
    <2>2. x \in Nat /\ y \in Nat
        BY <2>1
    <2>3. ~(y < x) /\ x # y
        BY <1>1, <1>9, <2>1
    <2> QED BY <2>2, <2>3 DEF x, y
<1> QED BY <1>1, <1>7, <1>8, <1>9

(* f lists the c elements of K from the least to the greatest.             *)
Enumerates(f, c, K) ==
    /\ f \in [1..c -> K]
    /\ \A a, b \in 1..c : a < b => f[a] < f[b]
    /\ \A k \in K : \E a \in 1..c : f[a] = k

(* Whatever enumerates K in increasing order is Nth.                       *)
LEMMA NthIs ==
    ASSUME NEW m \in Nat, NEW K \in SUBSET (1..m),
           NEW c \in Nat, NEW f, Enumerates(f, c, K)
    PROVE  /\ Cardinality(K) = c
           /\ \A n \in 1..c : Nth(K, n) = f[n]
<1> /\ f \in [1..c -> K]
    /\ \A a, b \in 1..c : a < b => f[a] < f[b]
    /\ \A k \in K : \E a \in 1..c : f[a] = k
    BY DEF Enumerates
<1> \A k \in K : k \in Nat
    OBVIOUS
<1>1. \A a, b \in 1..c : f[a] = f[b] => a = b
    <2> SUFFICES ASSUME NEW a \in 1..c, NEW b \in 1..c, a # b
                 PROVE  f[a] # f[b]
        OBVIOUS
    <2>1. a < b \/ b < a
        OBVIOUS
    <2>2. f[a] \in Nat /\ f[b] \in Nat
        OBVIOUS
    <2> QED BY <2>1, <2>2
<1>2. ASSUME NEW n \in 0..c
      PROVE  Cardinality({k \in K : \E a \in 1..n : k = f[a]}) = n
    <2> DEFINE S == {k \in K : \E a \in 1..n : k = f[a]}
               g == [a \in 1..n |-> f[a]]
    <2>1. g \in [1..n -> S]
        OBVIOUS
    <2>2. \A a, b \in 1..n : g[a] = g[b] => a = b
        BY <1>1
    <2>3. \A k \in S : \E a \in 1..n : g[a] = k
        OBVIOUS
    <2>4. g \in Bijection(1..n, S)
        BY <2>1, <2>2, <2>3 DEF Bijection, Injection, Surjection, IsInjective
    <2>5. ExistsBijection(1..n, S)
        BY <2>4 DEF ExistsBijection
    <2> QED BY <2>5, FS_CountingElements
<1>3. Cardinality(K) = c
    <2>1. K = {k \in K : \E a \in 1..c : k = f[a]}
        OBVIOUS
    <2> QED BY <1>2, <2>1
<1>4. ASSUME NEW n \in 1..c
      PROVE  Nth(K, n) = f[n]
    <2>1. \A a \in 1..c : f[a] <= f[n] <=> a <= n
        <3> SUFFICES ASSUME NEW a \in 1..c
                     PROVE  f[a] <= f[n] <=> a <= n
            OBVIOUS
        <3>1. f[a] \in Nat /\ f[n] \in Nat
            OBVIOUS
        <3>2. a < n \/ a = n \/ n < a
            OBVIOUS
        <3> QED BY <3>1, <3>2
    <2>2. {j \in K : j <= f[n]} = {k \in K : \E a \in 1..n : k = f[a]}
        <3>1. ASSUME NEW j \in K
              PROVE  j <= f[n] <=> \E a \in 1..n : j = f[a]
            <4>1. PICK a \in 1..c : f[a] = j
                OBVIOUS
            <4>2. \A b \in 1..n : b \in 1..c
                OBVIOUS
            <4> QED BY <2>1, <4>1, <4>2
        <3> QED BY <3>1
    <2>3. Rank(K, f[n]) = n /\ f[n] \in K
        BY <1>2, <2>2 DEF Rank
    <2> QED BY <2>3, NthEnumerates
<1> QED BY <1>3, <1>4

-----------------------------------------------------------------------------
(* Every element of a subsequence stands at one of its indices.            *)
LEMMA SubsequenceProperties ==
    ASSUME NEW S, NEW s \in Seq(S), NEW K \in SUBSET (1..Len(s))
    PROVE  /\ Subsequence(s, K) \in Seq(S)
           /\ Len(Subsequence(s, K)) = Cardinality(K)
           /\ \A n \in 1..Cardinality(K) :
                 Nth(K, n) \in K /\ Subsequence(s, K)[n] = s[Nth(K, n)]
<1>0. Len(s) \in Nat /\ \A i \in 1..Len(s) : s[i] \in S
    OBVIOUS
<1>1. /\ Cardinality(K) \in Nat
      /\ \A n \in 1..Cardinality(K) : Nth(K, n) \in K
    BY <1>0, NthEnumerates
<1>2. \A n \in 1..Cardinality(K) : s[Nth(K, n)] \in S
    <2>1. \A k \in K : s[k] \in S
        BY <1>0
    <2> QED BY <1>1, <2>1
<1> DEFINE c == Cardinality(K)
           r == [n \in 1..c |-> s[Nth(K, n)]]
<1>3. Subsequence(s, K) = r
    BY DEF Subsequence
<1> HIDE DEF c
<1>4. c \in Nat /\ \A n \in 1..c : s[Nth(K, n)] \in S
    BY <1>1, <1>2 DEF c
<1>5. r \in Seq(S) /\ Len(r) = c /\ \A n \in 1..c : r[n] = s[Nth(K, n)]
    BY <1>4
<1> QED BY <1>1, <1>3, <1>5 DEF c

(* Only what stands at the indices counts.                                 *)
LEMMA SameSubsequence ==
    ASSUME NEW s, NEW t, NEW m \in Nat, NEW K \in SUBSET (1..m),
           \A k \in K : s[k] = t[k]
    PROVE  Subsequence(s, K) = Subsequence(t, K)
<1>1. \A n \in 1..Cardinality(K) : Nth(K, n) \in K
    BY NthEnumerates
<1> QED BY <1>1 DEF Subsequence

(* All the indices give the whole sequence.                                *)
LEMMA WholeSubsequence ==
    ASSUME NEW S, NEW s \in Seq(S)
    PROVE  Subsequence(s, 1..Len(s)) = s
<1> DEFINE m == Len(s)
           K == 1..m
           f == [n \in 1..m |-> n]
<1>1. m \in Nat /\ s = [n \in 1..m |-> s[n]]
    OBVIOUS
<1> HIDE DEF m
<1>2. K \in SUBSET (1..m) /\ Enumerates(f, m, K)
    BY <1>1 DEF Enumerates
<1>3. Cardinality(K) = m /\ \A n \in 1..m : Nth(K, n) = f[n]
    <2> HIDE DEF K, f
    <2> QED BY <1>1, <1>2, NthIs
<1> QED BY <1>1, <1>3 DEF Subsequence, m

(* The elements in P can be picked before or after others are dropped.     *)
Picked(s, P) == Subsequence(s, {i \in 1..Len(s) : s[i] \in P})

(* A subsequence that leaves no member of P out has those of the whole.    *)
LEMMA SubsequenceKeeps ==
    ASSUME NEW S, NEW s \in Seq(S), NEW K \in SUBSET (1..Len(s)), NEW P,
           \A k \in 1..Len(s) : s[k] \in P => k \in K
    PROVE  Picked(Subsequence(s, K), P) = Picked(s, P)
<1> DEFINE r == Subsequence(s, K)
           m == Len(s)
           A == {k \in 1..m : s[k] \in P}
           c == Cardinality(K)
           J == {j \in 1..c : r[j] \in P}
           d == Cardinality(J)
           f == [n \in 1..d |-> Nth(K, Nth(J, n))]
<1>1. m \in Nat /\ A \in SUBSET (1..m) /\ A \subseteq K
    OBVIOUS
<1>2. /\ Len(r) = c
      /\ \A n \in 1..c : r[n] = s[Nth(K, n)]
    BY SubsequenceProperties
<1>3. /\ c \in Nat
      /\ \A n \in 1..c : Nth(K, n) \in K
      /\ \A i \in K : Rank(K, i) \in 1..c /\ Nth(K, Rank(K, i)) = i
      /\ \A a, b \in 1..c : a < b => Nth(K, a) < Nth(K, b)
    BY <1>1, NthEnumerates
<1>4. J \in SUBSET (1..c)
    OBVIOUS
<1> HIDE DEF J, c, A, m, r
<1>5. /\ d \in Nat
      /\ \A n \in 1..d : Nth(J, n) \in J
      /\ \A i \in J : Rank(J, i) \in 1..d /\ Nth(J, Rank(J, i)) = i
      /\ \A a, b \in 1..d : a < b => Nth(J, a) < Nth(J, b)
    BY <1>3, <1>4, NthEnumerates
<1> HIDE DEF d
<1>6. ASSUME NEW n \in 1..d
      PROVE  Nth(J, n) \in 1..c /\ f[n] \in A /\ r[Nth(J, n)] = s[f[n]]
    <2>1. Nth(J, n) \in J /\ Nth(J, n) \in 1..c
        BY <1>4, <1>5
    <2>2. Nth(K, Nth(J, n)) \in K /\ r[Nth(J, n)] = s[Nth(K, Nth(J, n))]
        BY <1>2, <1>3, <2>1
    <2>3. r[Nth(J, n)] \in P
        BY <2>1 DEF J
    <2> QED BY <2>1, <2>2, <2>3 DEF A, m
<1>7. f \in [1..d -> A]
    BY <1>6
<1>8. \A a, b \in 1..d : a < b => f[a] < f[b]
    BY <1>3, <1>5, <1>6
<1>9. ASSUME NEW k \in A
      PROVE  \E a \in 1..d : f[a] = k
    <2>1. k \in K /\ s[k] \in P
        BY <1>1 DEF A
    <2>2. Rank(K, k) \in J
        BY <1>2, <1>3, <2>1 DEF J
    <2>3. Rank(J, Rank(K, k)) \in 1..d /\ Nth(J, Rank(J, Rank(K, k))) = Rank(K, k)
        BY <1>5, <2>2
    <2> QED BY <1>3, <2>1, <2>3
<1>10. Cardinality(A) = d /\ \A n \in 1..d : Nth(A, n) = f[n]
    <2> HIDE DEF f
    <2>1. Enumerates(f, d, A)
        BY <1>7, <1>8, <1>9 DEF Enumerates
    <2> QED BY <1>1, <1>5, <2>1, NthIs
<1>11. Subsequence(r, J) = Subsequence(s, A)
    <2>1. \A n \in 1..d : r[Nth(J, n)] = s[Nth(A, n)]
        BY <1>6, <1>10
    <2> QED BY <1>10, <2>1 DEF Subsequence, d
<1> QED BY <1>2, <1>11 DEF Picked, J, A, m, r

-----------------------------------------------------------------------------
(* The block of /etc/hosts                                                 *)

Clean(file) == \A i \in 1..Len(file) : file[i] \notin {BeginLine, EndLine}

Writable(file) == file \in Seq(Line) /\ Clean(file)

(* The lines of a file are told apart.                                     *)
LEMMA Markers ==
    /\ BeginLine # EndLine /\ BeginLine # Blank /\ EndLine # Blank
    /\ \A n \in FQDN \cup AdminLine : n \notin {BeginLine, EndLine, Blank}
    /\ \A n \in FQDN : n \notin AdminLine
    /\ {BeginLine, EndLine, Blank} \cup FQDN \cup AdminLine \subseteq Line
<1>1. \A x, y : Cardinality({x, y}) <= 2 /\ Cardinality({x, y}) \in Nat
    <2> TAKE x, y
    <2>1. IsFiniteSet({x}) /\ Cardinality({x}) = 1
        BY FS_Singleton
    <2>2. /\ IsFiniteSet({x} \cup {y})
          /\ Cardinality({x} \cup {y}) = IF y \in {x} THEN 1 ELSE 2
        BY <2>1, FS_AddElement
    <2>3. {x} \cup {y} = {x, y}
        OBVIOUS
    <2> QED BY <2>2, <2>3
<1>2. BeginLine # EndLine /\ BeginLine # Blank /\ EndLine # Blank
    <2>1. CASE BeginLine = EndLine
        <3>1. {BeginLine, EndLine, Blank} = {EndLine, Blank}
            BY <2>1
        <3> QED BY <1>1, <3>1, HostsAssumption
    <2>2. CASE BeginLine = Blank
        <3>1. {BeginLine, EndLine, Blank} = {EndLine, Blank}
            BY <2>2
        <3> QED BY <1>1, <3>1, HostsAssumption
    <2>3. CASE EndLine = Blank
        <3>1. {BeginLine, EndLine, Blank} = {BeginLine, Blank}
            BY <2>3
        <3> QED BY <1>1, <3>1, HostsAssumption
    <2> QED BY <2>1, <2>2, <2>3
<1> QED BY <1>2, NamesAssumption DEF Line

(* What is outside the blocks has no markers.                              *)
LEMMA KeptIsClean ==
    ASSUME NEW file \in Seq(Line)
    PROVE  Writable(Kept(file))
<1> DEFINE K == {i \in DOMAIN file : file[i] # EndLine /\ ~InBlock(file, i)}
<1>1. K \in SUBSET (1..Len(file)) /\ Kept(file) = Subsequence(file, K)
    BY DEF Kept
<1>2. \A i \in K : file[i] # BeginLine /\ file[i] # EndLine
    <2> SUFFICES ASSUME NEW i \in K, file[i] = BeginLine
                 PROVE  FALSE
        OBVIOUS
    <2>1. i \in 1..i /\ file[i] # EndLine /\ \A j \in i..i : j = i
        OBVIOUS
    <2>2. InBlock(file, i)
        BY <2>1 DEF InBlock
    <2> QED BY <2>2
<1> HIDE DEF K
<1>3. /\ Kept(file) \in Seq(Line) /\ Len(Kept(file)) = Cardinality(K)
      /\ \A n \in 1..Cardinality(K) : Nth(K, n) \in K /\ Kept(file)[n] = file[Nth(K, n)]
    BY <1>1, SubsequenceProperties
<1> QED BY <1>2, <1>3 DEF Writable, Clean

(* A file without markers is kept whole.                                   *)
LEMMA KeptOfClean ==
    ASSUME NEW file, Writable(file)
    PROVE  Kept(file) = file
<1>1. \A i \in 1..Len(file) : ~InBlock(file, i)
    <2> SUFFICES ASSUME NEW i \in 1..Len(file), NEW b \in 1..i, file[b] = BeginLine
                 PROVE  FALSE
        BY DEF InBlock
    <2>1. b \in 1..Len(file)
        BY DEF Writable
    <2> QED BY <2>1 DEF Writable, Clean
<1>2. {i \in DOMAIN file : file[i] # EndLine /\ ~InBlock(file, i)} = 1..Len(file)
    BY <1>1 DEF Writable, Clean
<1> QED BY <1>2, WholeSubsequence DEF Kept, Writable

(* Every non-empty set of indices has a greatest element.                  *)
LEMMA GreatestIndex ==
    ASSUME NEW m \in Nat, NEW K \in SUBSET (1..m), K # {}
    PROVE  \E i \in K : \A j \in K : j <= i
<1>1. /\ Cardinality(K) \in Nat
      /\ \A i \in K : Rank(K, i) \in 1..Cardinality(K) /\ Nth(K, Rank(K, i)) = i
      /\ \A n \in 1..Cardinality(K) : Nth(K, n) \in K
      /\ \A a, b \in 1..Cardinality(K) : a < b => Nth(K, a) < Nth(K, b)
    BY NthEnumerates
<1> DEFINE c == Cardinality(K)
<1>2. c \in 1..c /\ Nth(K, c) \in K
    <2>1. PICK k \in K : TRUE
        OBVIOUS
    <2>2. c \in Nat /\ Rank(K, k) \in 1..c
        BY <1>1
    <2>3. c \in 1..c
        BY <2>2
    <2> QED BY <1>1, <2>3
<1>3. \A j \in K : j \in Nat
    OBVIOUS
<1>4. ASSUME NEW j \in K
      PROVE  j <= Nth(K, c)
    <2>1. Rank(K, j) \in 1..c /\ Nth(K, Rank(K, j)) = j
        BY <1>1
    <2>2. Rank(K, j) = c \/ Rank(K, j) < c
        BY <1>1, <2>1
    <2>3. Rank(K, j) < c => j < Nth(K, c)
        BY <1>1, <1>2, <2>1
    <2>4. j \in Nat /\ Nth(K, c) \in Nat
        BY <1>2, <1>3
    <2> QED BY <2>1, <2>2, <2>3, <2>4
<1> QED BY <1>1, <1>2, <1>4

(* Only empty lines are trimmed.                                           *)
LEMMA TrimmedProperties ==
    ASSUME NEW file \in Seq(Line), file # <<>>
    PROVE  \E n \in 1..Len(file) :
              /\ Trimmed(file) = SubSeq(file, 1, n)
              /\ \A i \in n+1..Len(file) : file[i] = Blank
<1> DEFINE K == {i \in 1..Len(file) : i = 1 \/ file[i] # Blank}
           Good(n) == /\ n = 1 \/ file[n] # Blank
                      /\ \A i \in n+1..Len(file) : file[i] = Blank
<1>1. Len(file) \in Nat /\ Len(file) >= 1
    OBVIOUS
<1>2. K \in SUBSET (1..Len(file)) /\ 1 \in K
    BY <1>1
<1>3. PICK n \in K : \A j \in K : j <= n
    <2> HIDE DEF K
    <2> QED BY <1>1, <1>2, GreatestIndex
<1>4. Good(n) /\ n \in 1..Len(file)
    <2>1. ASSUME NEW i \in n+1..Len(file), file[i] # Blank
          PROVE  FALSE
        <3>1. i \in K /\ ~(i <= n)
            BY <1>1, <1>2, <2>1
        <3> QED BY <1>3, <3>1
    <2> QED BY <1>3, <2>1
<1>5. PICK k \in 1..Len(file) : Good(k) /\ Trimmed(file) = SubSeq(file, 1, k)
    BY <1>4 DEF Trimmed
<1> QED BY <1>5

(* Two files that agree up to a line, with none of the administrator's     *)
(* lines below it, have the same lines of the administrator.               *)
LEMMA SameAdminsLines ==
    ASSUME NEW f \in Seq(Line), NEW g \in Seq(Line), NEW n \in Nat,
           n <= Len(f), n <= Len(g),
           \A i \in 1..n : f[i] = g[i],
           \A i \in n+1..Len(f) : f[i] \notin AdminLine,
           \A i \in n+1..Len(g) : g[i] \notin AdminLine
    PROVE  AdminsLines(f) = AdminsLines(g)
<1> DEFINE K == {i \in 1..n : f[i] \in AdminLine}
<1>1. \A i \in 1..Len(f) : i \in 1..n \/ i \in n+1..Len(f)
    OBVIOUS
<1>2. \A i \in 1..Len(g) : i \in 1..n \/ i \in n+1..Len(g)
    OBVIOUS
<1>3. {i \in DOMAIN f : f[i] \in AdminLine} = K
    BY <1>1
<1>4. {i \in DOMAIN g : g[i] \in AdminLine} = K
    BY <1>2
<1>5. Subsequence(f, K) = Subsequence(g, K)
    <2>1. K \in SUBSET (1..n) /\ \A k \in K : f[k] = g[k]
        OBVIOUS
    <2> HIDE DEF K
    <2> QED BY <2>1, SameSubsequence
<1> QED BY <1>3, <1>4, <1>5 DEF AdminsLines

(* A file that is set off: an empty line, or one that ends in two.         *)
IsSetOff(file) == Writable(file) /\ (file = <<Blank>> \/ EndsBlank(file))

(* Setting off leaves the lines and ends the file blank.                   *)
LEMMA SetOffProperties ==
    ASSUME NEW file, Writable(file)
    PROVE  /\ IsSetOff(SetOff(file))
           /\ AdminsLines(SetOff(file)) = AdminsLines(file)
<1>1. file \in Seq(Line) /\ Blank \in Line /\ Blank \notin {BeginLine, EndLine}
      /\ Blank \notin AdminLine
    BY Markers DEF Writable
<1>2. CASE file \in {<<>>, <<Blank>>}
    <2>1. SetOff(file) = <<Blank>>
        <3>1. ~EndsBlank(file)
            BY <1>2 DEF EndsBlank
        <3> QED BY <1>2, <3>1 DEF SetOff
    <2>2. IsSetOff(<<Blank>>)
        BY <1>1 DEF IsSetOff, Writable, Clean
    <2>3. AdminsLines(<<Blank>>) = AdminsLines(file)
        <3>1. /\ <<Blank>> \in Seq(Line) /\ 0 \in Nat
              /\ 0 <= Len(file) /\ 0 <= Len(<<Blank>>)
              /\ \A i \in 1..0 : file[i] = <<Blank>>[i]
              /\ \A i \in 0+1..Len(file) : file[i] \notin AdminLine
              /\ \A i \in 0+1..Len(<<Blank>>) : <<Blank>>[i] \notin AdminLine
            BY <1>1, <1>2
        <3> QED BY <1>1, <3>1, SameAdminsLines
    <2> QED BY <2>1, <2>2, <2>3
<1>3. CASE file \notin {<<>>, <<Blank>>} /\ EndsBlank(file)
    <2>1. SetOff(file) = file
        BY <1>3 DEF SetOff
    <2> QED BY <1>3, <2>1 DEF IsSetOff
<1>4. CASE file \notin {<<>>, <<Blank>>} /\ ~EndsBlank(file)
    <2>1. SetOff(file) = Trimmed(file) \o <<Blank, Blank>>
        BY <1>4 DEF SetOff
    <2>2. PICK n \in 1..Len(file) :
              /\ Trimmed(file) = SubSeq(file, 1, n)
              /\ \A i \in n+1..Len(file) : file[i] = Blank
        BY <1>1, <1>4, TrimmedProperties
    <2> DEFINE g == SubSeq(file, 1, n) \o <<Blank, Blank>>
    <2>3. n \in Nat /\ n >= 1 /\ n <= Len(file)
        BY <1>1
    <2>4. /\ SubSeq(file, 1, n) \in Seq(Line) /\ Len(SubSeq(file, 1, n)) = n
          /\ \A i \in 1..n : SubSeq(file, 1, n)[i] = file[i]
        BY <1>1, <2>3
    <2>5. /\ g \in Seq(Line) /\ Len(g) = n + 2
          /\ \A i \in 1..n : g[i] = file[i]
          /\ g[n + 1] = Blank /\ g[n + 2] = Blank
        BY <1>1, <2>3, <2>4
    <2> HIDE DEF g
    <2>6. \A i \in 1..Len(g) : i \in 1..n \/ i = n + 1 \/ i = n + 2
        BY <2>3, <2>5
    <2>7. Clean(g)
        BY <1>1, <2>3, <2>5, <2>6 DEF Clean, Writable
    <2>8. EndsBlank(g)
        BY <2>3, <2>5 DEF EndsBlank
    <2>9. AdminsLines(g) = AdminsLines(file)
        <3>1. \A i \in n+1..Len(g) : g[i] \notin AdminLine
            BY <1>1, <2>3, <2>5
        <3>2. \A i \in n+1..Len(file) : file[i] \notin AdminLine
            BY <1>1, <2>2
        <3> QED BY <1>1, <2>3, <2>5, <3>1, <3>2, SameAdminsLines
    <2> QED BY <2>1, <2>2, <2>5, <2>7, <2>8, <2>9 DEF IsSetOff, Writable, g
<1> QED BY <1>2, <1>3, <1>4

(* Setting off what was set off changes nothing.                           *)
LEMMA SetOffTwice ==
    ASSUME NEW file, IsSetOff(file)
    PROVE  /\ SetOff(file) = file
           /\ Len(file) \in Nat /\ Len(file) >= 1 /\ file[Len(file)] = Blank
           /\ Writable(Front(file))
           /\ Len(Front(file)) = Len(file) - 1
           /\ Front(file) \o <<Blank>> = file
<1>1. file \in Seq(Line) /\ Clean(file)
    BY DEF IsSetOff, Writable
<1>2. CASE file = <<Blank>>
    <2>1. SetOff(file) = file
        BY <1>2 DEF SetOff
    <2>2. Len(file) = 1 /\ file[1] = Blank
        BY <1>2
    <2>3. Front(file) = <<>>
        BY <1>1, <1>2 DEF Front
    <2> QED BY <1>2, <2>1, <2>2, <2>3 DEF Writable, Clean
<1>3. CASE EndsBlank(file)
    <2>1. Len(file) \in Nat /\ Len(file) > 2 /\ file[Len(file)] = Blank
        BY <1>1, <1>3 DEF EndsBlank
    <2>2. file \notin {<<>>, <<Blank>>}
        BY <2>1
    <2>3. SetOff(file) = file
        BY <1>3, <2>2 DEF SetOff
    <2>4. /\ Front(file) \in Seq(Line) /\ Len(Front(file)) = Len(file) - 1
          /\ \A i \in 1..Len(file)-1 : Front(file)[i] = file[i]
        BY <1>1, <2>1 DEF Front
    <2>5. Clean(Front(file))
        BY <1>1, <2>1, <2>4 DEF Clean
    <2> DEFINE g == Front(file) \o <<Blank>>
    <2>6. /\ g \in Seq(Line) /\ Len(g) = Len(file)
          /\ \A i \in 1..Len(file)-1 : g[i] = file[i]
          /\ g[Len(file)] = Blank
        BY <2>1, <2>4, Markers
    <2>7. g = file
        <3> HIDE DEF g
        <3>1. \A i \in 1..Len(file) : i \in 1..Len(file)-1 \/ i = Len(file)
            BY <2>1
        <3>2. \A i \in 1..Len(file) : g[i] = file[i]
            BY <2>1, <2>6, <3>1
        <3> QED BY <1>1, <2>6, <3>2
    <2> QED BY <2>1, <2>3, <2>4, <2>5, <2>7 DEF Writable
<1> QED BY <1>2, <1>3 DEF IsSetOff

(* The block is between its markers, after the lines P and before an empty *)
(* line.                                                                   *)
WithBlock(P, q) == P \o (<<BeginLine>> \o q \o <<EndLine>>) \o <<Blank>>

(* What stands where in the concatenation of two sequences.                *)
LEMMA Concatenation ==
    ASSUME NEW S, NEW s \in Seq(S), NEW t \in Seq(S)
    PROVE  /\ s \o t \in Seq(S) /\ Len(s \o t) = Len(s) + Len(t)
           /\ \A i \in 1..Len(s) : (s \o t)[i] = s[i]
           /\ \A i \in 1..Len(t) : (s \o t)[Len(s) + i] = t[i]
OBVIOUS

(* Where the lines of a file with a block stand.                           *)
LEMMA BlockLayout ==
    ASSUME NEW P, Writable(P), NEW q \in Seq(FQDN), NEW g, g = WithBlock(P, q)
    PROVE  /\ Len(P) \in Nat /\ Len(q) \in Nat /\ Len(g) = Len(P) + Len(q) + 3
           /\ g \in Seq(Line)
           /\ \A i \in 1..Len(P) : g[i] = P[i] /\ g[i] \notin {BeginLine, EndLine}
           /\ g[Len(P) + 1] = BeginLine
           /\ \A i \in 1..Len(q) : g[Len(P) + 1 + i] = q[i]
           /\ g[Len(P) + Len(q) + 2] = EndLine
           /\ g[Len(P) + Len(q) + 3] = Blank
<1>1. P \in Seq(Line) /\ q \in Seq(Line)
    BY Markers DEF Writable
<1> DEFINE p == Len(P)
           k == Len(q)
           b == <<BeginLine>> \o q \o <<EndLine>>
<1>2. p \in Nat /\ k \in Nat
    BY <1>1
<1>3. /\ b \in Seq(Line) /\ Len(b) = k + 2
      /\ b[1] = BeginLine /\ b[k + 2] = EndLine
      /\ \A i \in 1..k : b[i + 1] = q[i]
    BY <1>1, <1>2, Markers
<1>4. g = P \o b \o <<Blank>>
    BY DEF WithBlock
<1> HIDE DEF b
<1>5. /\ g \in Seq(Line) /\ Len(g) = p + k + 3
      /\ \A i \in 1..p : g[i] = P[i]
      /\ \A i \in 1..k+2 : g[p + i] = b[i]
      /\ g[p + k + 3] = Blank
    <2> DEFINE h == P \o b
    <2>1. /\ h \in Seq(Line) /\ Len(h) = p + k + 2
          /\ \A i \in 1..p : h[i] = P[i]
          /\ \A i \in 1..k+2 : h[p + i] = b[i]
        <3>1. b \in Seq(Line)
            BY <1>3
        <3>2. /\ h \in Seq(Line) /\ Len(h) = Len(P) + Len(b)
              /\ \A i \in 1..Len(P) : h[i] = P[i]
              /\ \A i \in 1..Len(b) : h[Len(P) + i] = b[i]
            BY <1>1, <3>1, Concatenation
        <3> HIDE DEF h
        <3> QED BY <1>2, <1>3, <3>2
    <2> HIDE DEF h
    <2>2. /\ <<Blank>> \in Seq(Line) /\ Len(<<Blank>>) = 1 /\ <<Blank>>[1] = Blank
          /\ 1 \in 1..Len(<<Blank>>)
        BY Markers
    <2>3. /\ g \in Seq(Line) /\ Len(g) = p + k + 2 + 1
          /\ \A i \in 1..p+k+2 : g[i] = h[i]
          /\ g[p + k + 2 + 1] = Blank
        <3> DEFINE o == <<Blank>>
        <3>1. o \in Seq(Line) /\ h \in Seq(Line)
            BY <2>1, <2>2
        <3>2. g = h \o o
            BY <1>4 DEF h
        <3> HIDE DEF o
        <3>3. /\ h \o o \in Seq(Line) /\ Len(h \o o) = Len(h) + Len(o)
              /\ \A i \in 1..Len(h) : (h \o o)[i] = h[i]
              /\ \A i \in 1..Len(o) : (h \o o)[Len(h) + i] = o[i]
            BY <3>1, Concatenation
        <3>4. Len(o) = 1 /\ o[1] = Blank /\ 1 \in 1..Len(o)
            BY <2>2 DEF o
        <3> QED BY <2>1, <3>2, <3>3, <3>4
    <2>4. /\ \A i \in 1..p : i \in 1..p+k+2
          /\ \A i \in 1..k+2 : p + i \in 1..p+k+2
          /\ p + k + 2 + 1 = p + k + 3
        BY <1>2
    <2> HIDE DEF p, k
    <2> QED BY <2>1, <2>3, <2>4
<1>6. /\ g[p + 1] = BeginLine
      /\ g[p + k + 2] = EndLine
      /\ \A i \in 1..k : g[p + 1 + i] = q[i]
    <2> HIDE DEF p, k
    <2>1. /\ 1 \in 1..k+2 /\ k + 2 \in 1..k+2 /\ p + (k + 2) = p + k + 2
          /\ \A i \in 1..k : i + 1 \in 1..k+2 /\ p + (i + 1) = p + 1 + i
        BY <1>2
    <2>2. /\ g[p + 1] = b[1] /\ g[p + (k + 2)] = b[k + 2]
          /\ \A i \in 1..k : g[p + (i + 1)] = b[i + 1]
        BY <1>5, <2>1
    <2> QED BY <1>3, <2>1, <2>2
<1>7. \A i \in 1..p : g[i] \notin {BeginLine, EndLine}
    BY <1>5 DEF Writable, Clean
<1> QED BY <1>2, <1>5, <1>6, <1>7

(* Which of its lines are in the block, and what each line is.             *)
LEMMA BlockLines ==
    ASSUME NEW P, Writable(P), NEW q \in Seq(FQDN), NEW g, g = WithBlock(P, q)
    PROVE  /\ \A i \in 1..Len(g) :
                 InBlock(g, i) <=> i \in Len(P)+1..Len(P)+Len(q)+1
           /\ \A i \in 1..Len(g) :
                 \/ i \in 1..Len(P) \/ i = Len(P) + 1
                 \/ i - (Len(P) + 1) \in 1..Len(q) /\ g[i] = q[i - (Len(P) + 1)]
                 \/ i = Len(P) + Len(q) + 2 \/ i = Len(P) + Len(q) + 3
<1> DEFINE p == Len(P)
           k == Len(q)
<1>1. /\ p \in Nat /\ k \in Nat /\ Len(g) = p + k + 3
      /\ \A i \in 1..p : g[i] \notin {BeginLine, EndLine}
      /\ g[p + 1] = BeginLine
      /\ \A i \in 1..k : g[p + 1 + i] = q[i]
      /\ g[p + k + 2] = EndLine
      /\ g[p + k + 3] = Blank
    BY BlockLayout
<1>2. \A i \in 1..k : q[i] \notin {BeginLine, EndLine}
    BY Markers
<1> HIDE DEF p, k
<1>3. ASSUME NEW i \in 1..Len(g)
      PROVE  \/ i \in 1..p \/ i = p + 1
             \/ i - (p + 1) \in 1..k /\ g[i] = q[i - (p + 1)]
             \/ i = p + k + 2 \/ i = p + k + 3
    <2>1. CASE i \in p+2..p+k+1
        <3>1. i - (p + 1) \in 1..k /\ p + 1 + (i - (p + 1)) = i
            BY <1>1, <2>1
        <3> QED BY <1>1, <3>1
    <2>2. i \in 1..p \/ i = p + 1 \/ i \in p+2..p+k+1 \/ i = p + k + 2 \/ i = p + k + 3
        BY <1>1
    <2> QED BY <2>1, <2>2
<1>4. ASSUME NEW i \in p+1..p+k+1
      PROVE  InBlock(g, i)
    <2>1. p + 1 \in 1..i
        BY <1>1
    <2>2. ASSUME NEW j \in p+1..i, g[j] = EndLine
          PROVE  FALSE
        <3>1. j = p + 1 \/ (j - (p + 1) \in 1..k /\ p + 1 + (j - (p + 1)) = j)
            BY <1>1
        <3>2. CASE j = p + 1
            BY <1>1, <2>2, <3>2, Markers
        <3>3. CASE j - (p + 1) \in 1..k /\ p + 1 + (j - (p + 1)) = j
            <4>1. g[j] = q[j - (p + 1)]
                BY <1>1, <3>3
            <4> QED BY <1>2, <2>2, <3>3, <4>1
        <3> QED BY <3>1, <3>2, <3>3
    <2> QED BY <1>1, <2>1, <2>2 DEF InBlock
<1>5. ASSUME NEW i \in 1..Len(g), InBlock(g, i)
      PROVE  i \in p+1..p+k+1
    <2>1. PICK b \in 1..i : g[b] = BeginLine /\ \A j \in b..i : g[j] # EndLine
        BY <1>5 DEF InBlock
    <2>2. b \in 1..Len(g)
        BY <1>1
    <2>3. b = p + 1
        BY <1>1, <1>2, <1>3, <2>1, <2>2, Markers
    <2>4. ~(i >= p + k + 2)
        BY <1>1, <2>1, <2>3
    <2> QED BY <1>1, <2>3, <2>4
<1> QED BY <1>3, <1>4, <1>5 DEF p, k

(* What is read back of such a file.                                       *)
LEMMA BlockProperties ==
    ASSUME NEW P, Writable(P), NEW q \in Seq(FQDN), NEW g, g = WithBlock(P, q)
    PROVE  /\ WellFormed(g)
           /\ Managed(g) = {q[i] : i \in 1..Len(q)}
           /\ Kept(g) = P \o <<Blank>>
           /\ AdminsLines(g) = AdminsLines(P \o <<Blank>>)
           /\ Count(BeginLine, g) = 1 /\ Count(EndLine, g) = 1
<1> DEFINE p == Len(P)
           k == Len(q)
           r == P \o <<Blank>>
<1>1. /\ p \in Nat /\ k \in Nat /\ Len(g) = p + k + 3
      /\ g \in Seq(Line)
      /\ \A i \in 1..p : g[i] = P[i] /\ g[i] \notin {BeginLine, EndLine}
      /\ g[p + 1] = BeginLine
      /\ \A i \in 1..k : g[p + 1 + i] = q[i]
      /\ g[p + k + 2] = EndLine
      /\ g[p + k + 3] = Blank
    BY BlockLayout
<1>2. \A i \in 1..k : q[i] \in FQDN
    OBVIOUS
<1>3. /\ r \in Seq(Line) /\ Len(r) = p + 1 /\ r[p + 1] = Blank
      /\ \A i \in 1..p : r[i] = P[i]
    BY <1>1, Markers DEF Writable
<1>4. \A i \in 1..Len(g) : InBlock(g, i) <=> i \in p+1..p+k+1
    BY BlockLines
<1>5. \A i \in 1..Len(g) :
          \/ i \in 1..p \/ i = p + 1
          \/ i - (p + 1) \in 1..k /\ g[i] = q[i - (p + 1)]
          \/ i = p + k + 2 \/ i = p + k + 3
    BY BlockLines
<1> HIDE DEF p, k, r
<1>6. WellFormed(g)
    <2>1. g # <<>>
        BY <1>1
    <2>2. ASSUME NEW i \in 1..Len(g), InBlock(g, i)
          PROVE  i # Len(g) /\ g[i] \notin AdminLine
        <3>1. i \in p+1..p+k+1
            BY <1>4, <2>2
        <3>2. i = p + 1 \/ g[i] \in FQDN
            BY <1>1, <1>2, <1>5, <3>1
        <3> QED BY <1>1, <3>1, <3>2, Markers
    <2> QED BY <1>1, <2>1, <2>2 DEF WellFormed
<1>7. Managed(g) = {q[i] : i \in 1..k}
    <2> DEFINE M == {g[i] : i \in {j \in 1..Len(g) : InBlock(g, j)}}
    <2>1. ASSUME NEW x \in M, x # BeginLine
          PROVE  x \in {q[i] : i \in 1..k}
        <3>1. PICK i \in 1..Len(g) : InBlock(g, i) /\ x = g[i]
            OBVIOUS
        <3>2. i \in p+1..p+k+1
            BY <1>4, <3>1
        <3>3. i # p + 1
            BY <1>1, <2>1, <3>1
        <3>4. i - (p + 1) \in 1..k /\ g[i] = q[i - (p + 1)]
            BY <1>1, <1>5, <3>2, <3>3
        <3> QED BY <3>1, <3>4
    <2>2. ASSUME NEW i \in 1..k
          PROVE  q[i] \in M /\ q[i] # BeginLine
        <3>1. p + 1 + i \in 1..Len(g) /\ p + 1 + i \in p+1..p+k+1
            BY <1>1
        <3>2. InBlock(g, p + 1 + i) /\ g[p + 1 + i] = q[i]
            BY <1>1, <1>4, <3>1
        <3> QED BY <1>2, <3>1, <3>2, Markers
    <2>3. Managed(g) = M \ {BeginLine}
        BY DEF Managed
    <2> QED BY <2>1, <2>2, <2>3
<1>8. Kept(g) = r
    <2> DEFINE K == {i \in DOMAIN g : g[i] # EndLine /\ ~InBlock(g, i)}
               f == [n \in 1..p+1 |-> IF n = p + 1 THEN p + k + 3 ELSE n]
    <2>1. K \in SUBSET (1..Len(g)) /\ Len(g) \in Nat /\ p + 1 \in Nat
        BY <1>1
    <2>2. \A i \in 1..Len(g) : i \in K <=> i \in 1..p \/ i = p + k + 3
        <3> SUFFICES ASSUME NEW i \in 1..Len(g)
                     PROVE  i \in K <=> i \in 1..p \/ i = p + k + 3
            OBVIOUS
        <3>1. CASE i \in 1..p \/ i = p + k + 3
            <4>1. ~InBlock(g, i)
                <5>1. i \notin p+1..p+k+1
                    BY <1>1, <3>1
                <5> QED BY <1>4, <5>1
            <4>2. g[i] # EndLine
                BY <1>1, <3>1, Markers
            <4> QED BY <1>1, <3>1, <4>1, <4>2
        <3>2. CASE ~(i \in 1..p \/ i = p + k + 3)
            <4>1. i \in p+1..p+k+1 \/ i = p + k + 2
                BY <1>1, <3>2
            <4> QED BY <1>1, <1>4, <3>2, <4>1
        <3> QED BY <3>1, <3>2
    <2>3. f \in [1..p+1 -> K]
        <3>1. ASSUME NEW n \in 1..p+1
              PROVE  f[n] \in 1..Len(g) /\ (f[n] \in 1..p \/ f[n] = p + k + 3)
            BY <1>1
        <3> QED BY <2>2, <3>1
    <2>4. \A a, b \in 1..p+1 : a < b => f[a] < f[b]
        BY <1>1
    <2>5. \A i \in K : \E a \in 1..p+1 : f[a] = i
        <3> SUFFICES ASSUME NEW i \in K
                     PROVE  \E a \in 1..p+1 : f[a] = i
            OBVIOUS
        <3>1. i \in 1..p \/ i = p + k + 3
            BY <2>1, <2>2
        <3>2. CASE i \in 1..p
            <4>1. i \in 1..p+1 /\ i # p + 1
                BY <1>1, <3>2
            <4> QED BY <4>1
        <3>3. CASE i = p + k + 3
            <4>1. p + 1 \in 1..p+1
                BY <1>1
            <4> QED BY <3>3, <4>1
        <3> QED BY <3>1, <3>2, <3>3
    <2>6. Cardinality(K) = p + 1 /\ \A n \in 1..p+1 : Nth(K, n) = f[n]
        <3> HIDE DEF K, f
        <3>1. Enumerates(f, p + 1, K)
            BY <2>3, <2>4, <2>5 DEF Enumerates
        <3> QED BY <2>1, <3>1, NthIs
    <2>7. /\ Kept(g) \in Seq(Line) /\ Len(Kept(g)) = p + 1
          /\ \A n \in 1..p+1 : Kept(g)[n] = g[f[n]]
        <3> HIDE DEF K, f
        <3>1. Kept(g) = Subsequence(g, K)
            BY DEF Kept, K
        <3> QED BY <1>1, <2>1, <2>6, <3>1, SubsequenceProperties
    <2>8. ASSUME NEW n \in 1..p+1
          PROVE  Kept(g)[n] = r[n]
        <3>1. CASE n = p + 1
            BY <1>1, <1>3, <2>7, <3>1
        <3>2. CASE n # p + 1
            <4>1. n \in 1..p
                BY <1>1, <3>2
            <4> QED BY <1>1, <1>3, <2>7, <3>2, <4>1
        <3> QED BY <3>1, <3>2
    <2> QED BY <1>3, <2>7, <2>8
<1>9. AdminsLines(g) = AdminsLines(r)
    <2>1. \A i \in 1..p : g[i] = r[i]
        BY <1>1, <1>3
    <2>2. ASSUME NEW i \in p+1..Len(g)
          PROVE  g[i] \notin AdminLine
        <3>1. i \in 1..Len(g) /\ i \notin 1..p
            BY <1>1
        <3> QED BY <1>1, <1>2, <1>5, <3>1, Markers
    <2>3. \A i \in p+1..Len(r) : r[i] \notin AdminLine
        BY <1>1, <1>3, Markers
    <2>4. p <= Len(g) /\ p <= Len(r)
        BY <1>1, <1>3
    <2> QED BY <1>1, <1>3, <2>1, <2>2, <2>3, <2>4, SameAdminsLines
<1>10. Count(BeginLine, g) = 1
    <2>1. \A i \in 1..Len(g) : g[i] = BeginLine <=> i = p + 1
        BY <1>1, <1>2, <1>5, Markers
    <2>2. {i \in 1..Len(g) : g[i] = BeginLine} = {p + 1}
        BY <1>1, <2>1
    <2> QED BY <2>2, FS_Singleton DEF Count
<1>11. Count(EndLine, g) = 1
    <2>1. \A i \in 1..Len(g) : g[i] = EndLine <=> i = p + k + 2
        BY <1>1, <1>2, <1>5, Markers
    <2>2. {i \in 1..Len(g) : g[i] = EndLine} = {p + k + 2}
        BY <1>1, <2>1
    <2> QED BY <2>2, FS_Singleton DEF Count
<1> QED BY <1>6, <1>7, <1>8, <1>9, <1>10, <1>11 DEF p, k, r

(* The block has a line for every name.                                    *)
LEMMA NamesInOrder ==
    ASSUME NEW names \in SUBSET FQDN, IsFiniteSet(names)
    PROVE  /\ SetToSeq(names) \in Seq(FQDN)
           /\ names = {SetToSeq(names)[i] : i \in 1..Len(SetToSeq(names))}
<1> DEFINE c == Cardinality(names)
           q == SetToSeq(names)
<1>1. c \in Nat /\ IsFiniteSet(1..c) /\ Cardinality(1..c) = c
    BY FS_CardinalityType, FS_Interval
<1>2. PICK f : f \in Bijection(1..c, names)
    BY FS_CardinalityType DEF ExistsBijection
<1>3. f \in [1..c -> names] /\ IsInjective(f)
    BY <1>2 DEF Bijection, Injection, IsInjective
<1>4. q \in [1..c -> names] /\ IsInjective(q)
    BY <1>3 DEF SetToSeq
<1> HIDE DEF q, c
<1>5. q \in Injection(1..c, names)
    BY <1>4 DEF Injection
<1>6. q \in Surjection(1..c, names)
    BY <1>1, <1>5, FS_Injection DEF c
<1>7. q \in Seq(FQDN) /\ Len(q) = c
    BY <1>1, <1>4
<1>8. names = {q[i] : i \in 1..c}
    BY <1>4, <1>6 DEF Surjection
<1> QED BY <1>7, <1>8 DEF q

(* In a file without markers nothing is in a block.                        *)
LEMMA CleanProperties ==
    ASSUME NEW file, Writable(file), file # <<>>
    PROVE  /\ WellFormed(file) /\ Managed(file) = {}
           /\ Count(BeginLine, file) = 0 /\ Count(EndLine, file) = 0
<1>1. \A i \in 1..Len(file) : ~InBlock(file, i)
    <2> SUFFICES ASSUME NEW i \in 1..Len(file), NEW b \in 1..i, file[b] = BeginLine
                 PROVE  FALSE
        BY DEF InBlock
    <2>1. b \in 1..Len(file)
        BY DEF Writable
    <2> QED BY <2>1 DEF Writable, Clean
<1>2. WellFormed(file) /\ Managed(file) = {}
    BY <1>1 DEF WellFormed, Managed, Writable
<1>3. /\ {i \in 1..Len(file) : file[i] = BeginLine} = {}
      /\ {i \in 1..Len(file) : file[i] = EndLine} = {}
    BY DEF Writable, Clean
<1> QED BY <1>2, <1>3, FS_EmptySet DEF Count

(* No line of the administrator is cut out with the block.                 *)
LEMMA KeptAdminsLines ==
    ASSUME NEW file, WellFormed(file)
    PROVE  AdminsLines(Kept(file)) = AdminsLines(file)
<1> DEFINE K == {i \in DOMAIN file : file[i] # EndLine /\ ~InBlock(file, i)}
           r == Kept(file)
<1>1. file \in Seq(Line) /\ K \in SUBSET (1..Len(file)) /\ r = Subsequence(file, K)
      /\ DOMAIN file = 1..Len(file)
    BY DEF Kept, WellFormed
<1>2. \A k \in 1..Len(file) : file[k] \in AdminLine => k \in K
    BY <1>1, Markers DEF WellFormed
<1>3. r \in Seq(Line)
    BY <1>1, KeptIsClean DEF Writable
<1> HIDE DEF K, r
<1>4. Picked(r, AdminLine) = Picked(file, AdminLine)
    <2>1. K \in SUBSET (1..Len(file)) /\ r = Subsequence(file, K) /\ file \in Seq(Line)
        BY <1>1
    <2> QED BY <1>2, <2>1, SubsequenceKeeps
<1>5. DOMAIN r = 1..Len(r)
    BY <1>3
<1> QED BY <1>1, <1>4, <1>5 DEF AdminsLines, Picked, r

(* Whatever the file was, the block that is written maps the names given,  *)
(* it is the only one, the other lines stay as they were, and writing the  *)
(* same names again changes nothing.                                       *)
LEMMA WriteHostsProperties ==
    ASSUME NEW file, WellFormed(file),
           NEW names \in SUBSET FQDN, IsFiniteSet(names),
           NEW g, g = WriteHosts(file, names)
    PROVE  /\ WellFormed(g)
           /\ Managed(g) = names
           /\ AdminsLines(g) = AdminsLines(file)
           /\ Count(BeginLine, g) = Count(EndLine, g)
           /\ Count(BeginLine, g) <= 1
           /\ WriteHosts(g, names) = g
<1> DEFINE content == SetOff(Kept(file))
           P == Front(content)
           q == SetToSeq(names)
<1>1. Writable(Kept(file))
    BY KeptIsClean DEF WellFormed
<1>2. IsSetOff(content) /\ AdminsLines(content) = AdminsLines(file)
    BY <1>1, SetOffProperties, KeptAdminsLines
<1> HIDE DEF content
<1>3. /\ SetOff(content) = content
      /\ Len(content) >= 1 /\ Len(content) \in Nat
      /\ Writable(P) /\ P \o <<Blank>> = content
    BY <1>2, SetOffTwice
<1>4. CASE names = {}
    <2>1. RenderBlock(names) = <<>>
        BY <1>4 DEF RenderBlock
    <2>2. \A f : WriteHosts(f, names) = SetOff(Kept(f))
        BY <2>1 DEF WriteHosts, MergeHostsBlock
    <2>3. g = content
        BY <2>2 DEF content
    <2>4. Writable(content) /\ content # <<>>
        BY <1>2, <1>3 DEF IsSetOff
    <2>5. Kept(content) = content
        BY <2>4, KeptOfClean
    <2> QED BY <1>2, <1>3, <1>4, <2>2, <2>3, <2>4, <2>5, CleanProperties
<1>5. CASE names # {}
    <2>1. q \in Seq(FQDN) /\ names = {q[i] : i \in 1..Len(q)}
        BY NamesInOrder
    <2> DEFINE b == <<BeginLine>> \o q \o <<EndLine>>
    <2>2. RenderBlock(names) = b
        BY <1>5 DEF RenderBlock
    <2>3. b # <<>>
        <3>1. Len(b) = Len(q) + 2 /\ Len(q) \in Nat
            BY <2>1
        <3> QED BY <3>1
    <2> HIDE DEF b
    <2>4. \A f : WriteHosts(f, names) = Front(SetOff(Kept(f))) \o b \o <<Blank>>
        BY <2>2, <2>3 DEF WriteHosts, MergeHostsBlock
    <2>5. g = WithBlock(P, q)
        BY <2>4 DEF WithBlock, b, content
    <2> HIDE DEF P, q
    <2>6. /\ WellFormed(g)
          /\ Managed(g) = {q[i] : i \in 1..Len(q)}
          /\ Kept(g) = P \o <<Blank>>
          /\ AdminsLines(g) = AdminsLines(P \o <<Blank>>)
          /\ Count(BeginLine, g) = 1 /\ Count(EndLine, g) = 1
        BY <1>3, <2>1, <2>5, BlockProperties
    <2>7. WriteHosts(g, names) = g
        <3>1. WriteHosts(g, names) = Front(content) \o b \o <<Blank>>
            BY <1>3, <2>4, <2>6
        <3> QED BY <2>5, <3>1 DEF WithBlock, b, P
    <2>8. Managed(g) = names
        BY <2>1, <2>6
    <2>9. AdminsLines(g) = AdminsLines(file)
        BY <1>2, <1>3, <2>6
    <2> QED BY <2>6, <2>7, <2>8, <2>9
<1> QED BY <1>4, <1>5

(* A line that the administrator adds at the end is not in a block.        *)
LEMMA EditProperties ==
    ASSUME NEW file, WellFormed(file), NEW l \in AdminLine,
           NEW g, g = (IF Last(file) = Blank THEN Front(file) ELSE file) \o <<l, Blank>>
    PROVE  WellFormed(g) /\ Managed(g) = Managed(file)
<1> DEFINE h == IF Last(file) = Blank THEN Front(file) ELSE file
           n == Len(h)
           m == Len(file)
<1>1. file \in Seq(Line) /\ m \in Nat /\ m >= 1
      /\ \A i \in 1..m : file[i] \in Line
    BY DEF WellFormed
<1>2. /\ h \in Seq(Line) /\ n \in Nat
      /\ n = m \/ (n = m - 1 /\ file[m] = Blank)
      /\ \A i \in 1..n : h[i] = file[i]
    <2>1. CASE Last(file) = Blank
        <3>1. h = SubSeq(file, 1, m - 1) /\ file[m] = Blank
            BY <2>1 DEF Front, Last
        <3>2. /\ SubSeq(file, 1, m - 1) \in Seq(Line)
              /\ Len(SubSeq(file, 1, m - 1)) = m - 1
              /\ \A i \in 1..m-1 : SubSeq(file, 1, m - 1)[i] = file[i]
            <4> DEFINE k == m - 1
            <4>1. k \in Nat /\ k <= Len(file)
                BY <1>1
            <4> HIDE DEF k
            <4>2. /\ SubSeq(file, 1, k) \in Seq(Line) /\ Len(SubSeq(file, 1, k)) = k
                  /\ \A i \in 1..k : SubSeq(file, 1, k)[i] = file[i]
                BY <1>1, <4>1
            <4> QED BY <4>2 DEF k
        <3> HIDE DEF h
        <3> QED BY <1>1, <3>1, <3>2
    <2>2. CASE Last(file) # Blank
        BY <1>1, <2>2
    <2> QED BY <2>1, <2>2
<1> DEFINE o == <<l, Blank>>
<1>3. o \in Seq(Line) /\ Len(o) = 2 /\ o[1] = l /\ o[2] = Blank
    BY Markers
<1> HIDE DEF h
<1>4. /\ g \in Seq(Line) /\ Len(g) = n + 2
      /\ \A i \in 1..n : g[i] = file[i]
      /\ g[n + 1] = l /\ g[n + 2] = Blank
    <2>1. g = h \o o
        BY DEF h
    <2> HIDE DEF o
    <2>2. o \in Seq(Line) /\ h \in Seq(Line)
        BY <1>2, <1>3
    <2>3. /\ h \o o \in Seq(Line) /\ Len(h \o o) = Len(h) + Len(o)
          /\ \A i \in 1..Len(h) : (h \o o)[i] = h[i]
          /\ \A i \in 1..Len(o) : (h \o o)[Len(h) + i] = o[i]
        BY <2>2, Concatenation
    <2>4. 1 \in 1..Len(o) /\ 2 \in 1..Len(o)
        BY <1>3
    <2> QED BY <1>2, <1>3, <2>1, <2>3, <2>4
<1> HIDE DEF n, m
<1>5. ~InBlock(file, m)
    BY <1>1 DEF WellFormed, m
<1>6. ASSUME NEW i \in 1..n
      PROVE  InBlock(g, i) <=> InBlock(file, i)
    <2>1. \A j \in 1..i : g[j] = file[j]
        BY <1>2, <1>4
    <2>2. \A b \in 1..i : \A j \in b..i : j \in 1..i
        BY <1>2
    <2>3. ASSUME NEW b \in 1..i
          PROVE  (g[b] = BeginLine /\ \A j \in b..i : g[j] # EndLine)
                 <=> (file[b] = BeginLine /\ \A j \in b..i : file[j] # EndLine)
        BY <2>1, <2>2
    <2> QED BY <2>3 DEF InBlock
<1>7. ASSUME NEW i \in n+1..n+2, InBlock(g, i)
      PROVE  FALSE
    <2>1. PICK b \in 1..i : g[b] = BeginLine /\ \A j \in b..i : g[j] # EndLine
        BY <1>7 DEF InBlock
    <2>2. b \in 1..n
        <3>1. b # n + 1 /\ b # n + 2
            BY <1>4, <2>1, Markers
        <3> QED BY <1>2, <3>1
    <2>3. b \in 1..m /\ file[b] = BeginLine
        BY <1>1, <1>2, <1>4, <2>1, <2>2
    <2>4. ASSUME NEW j \in b..m
          PROVE  file[j] # EndLine
        <3>1. CASE j \in 1..n
            <4>1. j \in b..i
                BY <1>2, <2>2, <3>1
            <4> QED BY <1>4, <2>1, <3>1, <4>1
        <3>2. CASE j \notin 1..n
            <4>1. j = m /\ file[m] = Blank
                BY <1>1, <1>2, <2>2, <3>2
            <4> QED BY <4>1, Markers
        <3> QED BY <3>1, <3>2
    <2>5. InBlock(file, m)
        BY <2>3, <2>4 DEF InBlock
    <2> QED BY <1>5, <2>5
<1>8. \A i \in 1..n+2 : InBlock(g, i) => i \in 1..n /\ InBlock(file, i)
    <2>1. \A i \in 1..n+2 : i \in 1..n \/ i \in n+1..n+2
        BY <1>2
    <2> QED BY <1>6, <1>7, <2>1
<1>9. \A i \in 1..m : InBlock(file, i) => i \in 1..n /\ InBlock(g, i)
    <2> SUFFICES ASSUME NEW i \in 1..m, InBlock(file, i)
                 PROVE  i \in 1..n /\ InBlock(g, i)
        OBVIOUS
    <2>1. i # m
        BY <1>5
    <2>2. i \in 1..n
        BY <1>1, <1>2, <2>1
    <2> QED BY <1>6, <2>2
<1>10. \A i \in 1..n : i \in 1..m /\ i \in 1..n+2 /\ i # n + 2 /\ g[i] = file[i]
    BY <1>1, <1>2, <1>4
<1>11. WellFormed(g)
    <2>1. g # <<>>
        BY <1>2, <1>4
    <2>2. \A i \in 1..n+2 : InBlock(g, i) => i # n + 2 /\ g[i] \notin AdminLine
        BY <1>8, <1>10 DEF WellFormed, m
    <2> QED BY <1>4, <2>1, <2>2 DEF WellFormed
<1>12. Managed(g) = Managed(file)
    <2>1. {g[i] : i \in {k \in 1..n+2 : InBlock(g, k)}} =
          {file[i] : i \in {k \in 1..m : InBlock(file, k)}}
        BY <1>8, <1>9, <1>10
    <2> QED BY <1>4, <2>1 DEF Managed, m
<1> QED BY <1>11, <1>12

-----------------------------------------------------------------------------
(* The state is well typed and /etc/hosts well formed, however many        *)
(* commands run at once.                                                   *)

(* up and down have a directory and its manifest.                          *)
HasProject(st) == st.op \in {"up", "down"} => st.dir \in Dir /\ st.manifest \in Manifest

TypeInv ==
    /\ projects \in Registry
    /\ cli \in [Command -> CommandState \cup {Idle}]
    /\ \A c \in Command : cli[c] # Idle => HasProject(cli[c])
    /\ WellFormed(hosts)

(* The names of the registered projects are finitely many.                 *)
LEMMA LocalNamesFinite ==
    ASSUME NEW reg \in Registry
    PROVE  LocalFQDNs(reg) \in SUBSET FQDN /\ IsFiniteSet(LocalFQDNs(reg))
<1> DEFINE N == {n \in Name : reg[n] \in LocalEntries(reg)}
           T == {e.manifest.names : e \in LocalEntries(reg)}
           f == [n \in N |-> reg[n].manifest.names]
<1>1. \A e \in LocalEntries(reg) : \E n \in Name : e = reg[n]
    BY DEF LocalEntries, Entries
<1>2. \A e \in LocalEntries(reg) : e \in Entry
    BY DEF LocalEntries, Entries, Registry
<1>3. \A e \in Entry : e.manifest \in Manifest
    BY DEF Entry
<1>4. \A m \in Manifest : m.names \in SUBSET FQDN /\ IsFiniteSet(m.names)
    BY DEF Manifest
<1>5. \A S \in T : S \in SUBSET FQDN /\ IsFiniteSet(S)
    BY <1>2, <1>3, <1>4
<1>6. IsFiniteSet(Name)
    <2>1. MaxNames \in Int
        BY NamesAssumption
    <2> QED BY <2>1, FS_Interval DEF Name
<1>7. IsFiniteSet(N)
    <2>1. N \in SUBSET Name
        OBVIOUS
    <2> QED BY <1>6, <2>1, FS_Subset
<1>8. f \in Surjection(N, T)
    <2>1. f \in [N -> T]
        OBVIOUS
    <2>2. \A S \in T : \E n \in N : f[n] = S
        <3> SUFFICES ASSUME NEW e \in LocalEntries(reg)
                     PROVE  \E n \in N : f[n] = e.manifest.names
            OBVIOUS
        <3>1. PICK n \in Name : e = reg[n]
            BY <1>1
        <3> QED BY <3>1
    <2> QED BY <2>1, <2>2 DEF Surjection
<1>9. IsFiniteSet(T)
    BY <1>7, <1>8, FS_Surjection
<1>10. LocalFQDNs(reg) = UNION T
    BY DEF LocalFQDNs
<1> HIDE DEF T
<1>11. IsFiniteSet(UNION T)
    BY <1>5, <1>9, FS_UNION
<1> QED BY <1>5, <1>10, <1>11

(* So are those a command provisions, which are those names and no more,   *)
(* but for a reconcile's and where the TLD is localhost.                   *)
LEMMA HostNamesFinite ==
    ASSUME NEW st, st.reg \in Registry
    PROVE  HostNames(st) \in SUBSET FQDN /\ IsFiniteSet(HostNames(st))
<1> DEFINE L == LocalFQDNs(st.reg)
<1>1. L \in SUBSET FQDN /\ IsFiniteSet(L)
    BY LocalNamesFinite
<1>2. HostNames(st) = L \/ HostNames(st) = L \cup {BareName}
    <2>1. Reconciled(st.reg) = L \/ Reconciled(st.reg) = L \cup {BareName}
        BY DEF Reconciled
    <2> QED BY <2>1 DEF HostNames
<1> HIDE DEF L
<1>3. IsFiniteSet(L \cup {BareName})
    BY <1>1, FS_AddElement
<1> QED BY <1>1, <1>2, <1>3, NamesAssumption

LEMMA HostNamesCover ==
    ASSUME NEW st
    PROVE  LocalFQDNs(st.reg) \subseteq HostNames(st)
BY DEF HostNames, Reconciled

LEMMA WrittenNames ==
    ASSUME NEW c \in Command, WritesBlock(c)
    PROVE  HostNames(cli[c]) = IF cli[c].op = "reconcile" THEN Reconciled(cli[c].reg)
                                                         ELSE LocalFQDNs(cli[c].reg)
<1>1. cli[c].op = "up" => cli[c].manifest.tld # Localhost
    BY NamesAssumption DEF WritesBlock, NeedsHosts
<1> QED BY <1>1 DEF HostNames

(* Forget leaves a registry.                                               *)
LEMMA WithoutType ==
    ASSUME NEW reg \in Registry, NEW S
    PROVE  Without(reg, S) \in Registry
BY DEF Without, Registry

(* Register makes a registry.                                              *)
LEMMA RegisteredType ==
    ASSUME NEW reg \in Registry, NEW d \in Dir, NEW m \in Manifest
    PROVE  Registered(reg, d, m) \in Registry
<1> DEFINE e == [dir |-> d, manifest |-> m, auto |-> FALSE]
<1>1. e \in Entry
    BY DEF Entry
<1>2. Registered(reg, d, m) = [reg EXCEPT ![NameFor(reg, d)] = e]
    BY DEF Registered
<1> HIDE DEF e
<1> QED BY <1>1, <1>2 DEF Registry

(* How a step leaves /etc/hosts: as it was, with the names of a command's  *)
(* copy of the registry, or with one more line of the administrator.       *)
Rewrites ==
    \E c \in Command : /\ cli[c] # Idle /\ cli[c].pc = "publish"
                       /\ hosts' = WriteHosts(hosts, HostNames(cli[c]))

(* What a step does to the hosts file.                                     *)
LEMMA HostsSteps ==
    ASSUME [Next]_vars
    PROVE  hosts' = hosts \/ Rewrites \/ (cli' = cli /\ \E l \in AdminLine : Edit(l))
<1>1. ASSUME NEW c \in Command, CommandStep(c)
      PROVE  hosts' = hosts \/ Rewrites
    <2>1. CASE Register(c)
        BY <2>1 DEF Register
    <2>2. CASE Issue(c)
        BY <2>2 DEF Issue
    <2>3. CASE Forget(c)
        BY <2>3 DEF Forget
    <2>4. CASE Skip(c)
        BY <2>4 DEF Skip
    <2>5. CASE Publish(c)
        BY <2>5 DEF Publish, Rewrites
    <2>6. CASE PublishSudo(c)
        BY <2>6 DEF PublishSudo, Rewrites
    <2>7. CASE PublishFails(c)
        BY <2>7 DEF PublishFails
    <2>8. CASE ForgetName(c) \/ Prune(c) \/ Autostart(c) \/ Uninstall(c) \/ UpdateFails(c)
        BY <2>8 DEF ForgetName, Prune, Autostart, Uninstall, UpdateFails
    <2> QED BY <1>1, <2>1, <2>2, <2>3, <2>4, <2>5, <2>6, <2>7, <2>8 DEF CommandStep
<1>2. ASSUME NEW c \in Command, Begin(c) \/ BeginGlobal(c) \/ Kill(c)
      PROVE  hosts' = hosts
    BY <1>2 DEF Begin, BeginGlobal, Loads, Kill
<1>3. ASSUME NEW d \in Dir, RemoveDir(d)
      PROVE  hosts' = hosts
    BY <1>3 DEF RemoveDir
<1>4. ASSUME NEW l \in AdminLine, Edit(l)
      PROVE  cli' = cli
    BY <1>4 DEF Edit
<1>5. CASE UNCHANGED vars
    BY <1>5 DEF vars
<1> QED BY <1>1, <1>2, <1>3, <1>4, <1>5 DEF Next

(* What a rewrite does.                                                    *)
LEMMA RewriteProperties ==
    ASSUME TypeInv, NEW c \in Command, cli[c] # Idle,
           hosts' = WriteHosts(hosts, HostNames(cli[c]))
    PROVE  /\ WellFormed(hosts)'
           /\ Managed(hosts') = HostNames(cli[c])
           /\ AdminsLines(hosts') = AdminsLines(hosts)
           /\ Count(BeginLine, hosts') = Count(EndLine, hosts')
           /\ Count(BeginLine, hosts') <= 1
           /\ WriteHosts(hosts', Managed(hosts')) = hosts'
<1> DEFINE S == HostNames(cli[c])
<1>1. cli[c].reg \in Registry
    BY DEF TypeInv, CommandState
<1>2. S \in SUBSET FQDN /\ IsFiniteSet(S)
    BY <1>1, HostNamesFinite
<1>3. WellFormed(hosts)
    BY DEF TypeInv
<1> HIDE DEF S
<1>4. hosts' = WriteHosts(hosts, S)
    BY DEF S
<1>5. /\ WellFormed(hosts')
      /\ Managed(hosts') = S
      /\ AdminsLines(hosts') = AdminsLines(hosts)
      /\ Count(BeginLine, hosts') = Count(EndLine, hosts')
      /\ Count(BeginLine, hosts') <= 1
      /\ WriteHosts(hosts', S) = hosts'
    BY <1>2, <1>3, <1>4, WriteHostsProperties
<1> QED BY <1>5 DEF S

(* No step loses or doubles a marker.                                      *)
LEMMA WellFormedStays ==
    ASSUME TypeInv, [Next]_vars
    PROVE  WellFormed(hosts)'
<1>1. CASE hosts' = hosts
    BY <1>1 DEF TypeInv, WellFormed, InBlock
<1>2. CASE Rewrites
    BY <1>2, RewriteProperties DEF Rewrites
<1>3. ASSUME NEW l \in AdminLine, Edit(l)
      PROVE  WellFormed(hosts)'
    <2>1. WellFormed(hosts)
        BY DEF TypeInv
    <2>2. hosts' = (IF Last(hosts) = Blank THEN Front(hosts) ELSE hosts) \o <<l, Blank>>
        BY <1>3 DEF Edit
    <2>3. WellFormed(hosts')
        BY <2>1, <2>2, EditProperties
    <2> QED BY <2>3
<1> QED BY <1>1, <1>2, <1>3, HostsSteps

LEMMA InitTypeInv == Init => TypeInv
<1> SUFFICES ASSUME Init PROVE TypeInv
    OBVIOUS
<1>1. projects \in Registry
    BY DEF Init, Empty, Registry
<1>2. WellFormed(hosts)
    BY FirstHostsAssumption DEF Init
<1> QED BY <1>1, <1>2 DEF Init, TypeInv

(* What is left of TypeInv, for a step of command c.                       *)
LEMMA CommandType ==
    ASSUME TypeInv, NEW c \in Command, NEW st,
           cli' = [cli EXCEPT ![c] = st],
           st \in CommandState \cup {Idle},
           st # Idle => HasProject(st),
           projects' \in Registry, WellFormed(hosts)'
    PROVE  TypeInv'
<1>1. cli' \in [Command -> CommandState \cup {Idle}]
    BY DEF TypeInv
<1>2. \A d \in Command : cli'[d] = IF d = c THEN st ELSE cli[d]
    BY DEF TypeInv
<1>3. \A d \in Command : cli'[d] # Idle => HasProject(cli'[d])
    BY <1>2 DEF TypeInv
<1> QED BY <1>1, <1>3 DEF TypeInv, HasProject

(* A command that ends keeps the types.                                    *)
LEMMA EndsType ==
    ASSUME TypeInv, NEW c \in Command, NEW wrote, NEW ok, Ends(c, wrote, ok),
           projects' \in Registry, WellFormed(hosts)'
    PROVE  TypeInv'
<1>1. cli' = [cli EXCEPT ![c] = Idle]
    BY DEF Ends
<1> QED BY <1>1, CommandType

(* A command that goes on keeps them.                                      *)
LEMMA GoesType ==
    ASSUME TypeInv, NEW c \in Command, cli[c] # Idle, NEW reg \in Registry,
           NEW pc \in {"issue", "publish"}, Goes(c, pc, reg),
           projects' \in Registry, WellFormed(hosts)'
    PROVE  TypeInv'
<1> DEFINE st == [cli[c] EXCEPT !.pc = pc, !.reg = reg]
<1>1. cli[c] \in CommandState /\ HasProject(cli[c])
    BY DEF TypeInv
<1>2. st \in CommandState /\ st.op = cli[c].op /\ st.dir = cli[c].dir
      /\ st.manifest = cli[c].manifest
    BY <1>1 DEF CommandState
<1>3. HasProject(st)
    BY <1>1, <1>2 DEF HasProject
<1>4. cli' = [cli EXCEPT ![c] = st]
    BY DEF Goes, TypeInv
<1> HIDE DEF st
<1> QED BY <1>2, <1>3, <1>4, CommandType

(* A command that loads the registry keeps them.                           *)
LEMMA LoadsType ==
    ASSUME TypeInv, NEW c \in Command, NEW op \in Ops,
           NEW d \in Dir \cup {Nothing}, NEW m \in Manifest \cup {Nothing},
           op \in {"up", "down"} => d \in Dir /\ m \in Manifest,
           Loads(c, op, d, m), WellFormed(hosts)'
    PROVE  TypeInv'
<1> DEFINE st == [op |-> op, dir |-> d, manifest |-> m, pc |-> AfterLoad(op),
                  reg |-> projects]
<1>1. AfterLoad(op) \in {"register", "forget", "issue", "publish", "update"}
    BY DEF AfterLoad, Ops
<1>2. st \in CommandState
    BY <1>1 DEF CommandState, TypeInv
<1>3. HasProject(st)
    BY DEF HasProject
<1>4. cli' = [cli EXCEPT ![c] = st] /\ projects' = projects
    BY DEF Loads
<1>5. projects' \in Registry
    BY <1>4 DEF TypeInv
<1> HIDE DEF st
<1> QED BY <1>2, <1>3, <1>4, <1>5, CommandType

(* Every step keeps them.                                                  *)
LEMMA NextTypeInv == TypeInv /\ [Next]_vars => TypeInv'
<1> SUFFICES ASSUME TypeInv, [Next]_vars
             PROVE  TypeInv'
    OBVIOUS
<1>1. WellFormed(hosts)'
    BY WellFormedStays
<1>2. projects \in Registry
    BY DEF TypeInv
<1>3. ASSUME NEW c \in Command, cli[c] # Idle
      PROVE  cli[c] \in CommandState /\ HasProject(cli[c]) /\ cli[c].reg \in Registry
    BY <1>3 DEF TypeInv, CommandState
<1>4. ASSUME NEW c \in Command, Begin(c)
      PROVE  TypeInv'
    <2>1. PICK op \in {"up", "down"}, d \in Dir \ gone :
              \E m \in Manifests[d] : Loads(c, op, d, m)
        BY <1>4 DEF Begin
    <2>2. PICK m \in Manifests[d] : Loads(c, op, d, m)
        BY <2>1
    <2>3. m \in Manifest /\ op \in Ops
        BY NamesAssumption DEF Ops
    <2> QED BY <1>1, <2>2, <2>3, LoadsType
<1>5. ASSUME NEW c \in Command, BeginGlobal(c)
      PROVE  TypeInv'
    <2>1. PICK op \in Ops \ {"up", "down"} : Loads(c, op, Nothing, Nothing)
        BY <1>5 DEF BeginGlobal
    <2> QED BY <1>1, <2>1, LoadsType
<1>6. ASSUME NEW c \in Command, Register(c)
      PROVE  TypeInv'
    <2> DEFINE reg == Registered(cli[c].reg, cli[c].dir, cli[c].manifest)
    <2>1. cli[c] # Idle /\ cli[c].op = "up"
        BY <1>6 DEF Register, At
    <2>2. reg \in Registry
        BY <1>3, <2>1, RegisteredType DEF HasProject
    <2>3. projects' = reg /\ (Goes(c, "issue", reg) \/ Ends(c, FALSE, TRUE))
        BY <1>6 DEF Register, Saves, Done
    <2> HIDE DEF reg
    <2> QED BY <1>1, <2>1, <2>2, <2>3, GoesType, EndsType
<1>7. ASSUME NEW c \in Command, Issue(c)
      PROVE  TypeInv'
    <2>1. cli[c] # Idle /\ Goes(c, "publish", cli[c].reg) /\ projects' = projects
        BY <1>7 DEF Issue
    <2> QED BY <1>1, <1>2, <1>3, <2>1, GoesType
<1>8. ASSUME NEW c \in Command, Forget(c)
      PROVE  TypeInv'
    <2> DEFINE reg == Without(cli[c].reg, NamesOfDir(cli[c].reg, cli[c].dir))
    <2>1. cli[c] # Idle
        BY <1>8 DEF Forget, At
    <2>2. reg \in Registry
        BY <1>3, <2>1, WithoutType
    <2>3. /\ projects' \in {projects, reg}
          /\ Goes(c, "publish", reg) \/ Ends(c, FALSE, TRUE)
        BY <1>8 DEF Forget, Saves, Done
    <2> HIDE DEF reg
    <2> QED BY <1>1, <1>2, <2>1, <2>2, <2>3, GoesType, EndsType
<1>9. ASSUME NEW c \in Command,
             Skip(c) \/ Publish(c) \/ PublishSudo(c) \/ PublishFails(c)
             \/ Uninstall(c) \/ UpdateFails(c) \/ Kill(c)
      PROVE  TypeInv'
    <2>1. /\ projects' = projects
          /\ \E wrote, ok \in BOOLEAN : Ends(c, wrote, ok)
        BY <1>9 DEF Skip, Publish, PublishSudo, PublishFails, Uninstall, UpdateFails, Kill,
                    Done, Fails
    <2> QED BY <1>1, <1>2, <2>1, EndsType
<1>10. ASSUME NEW c \in Command, ForgetName(c) \/ Prune(c)
       PROVE  TypeInv'
    <2>1. cli[c] # Idle /\ Ends(c, FALSE, TRUE)
        BY <1>10 DEF ForgetName, Prune, At, Done
    <2>2. projects' = projects \/ \E S : projects' = Without(cli[c].reg, S)
        BY <1>10 DEF ForgetName, Prune, Saves
    <2>3. projects' \in Registry
        BY <1>2, <1>3, <2>1, <2>2, WithoutType
    <2> QED BY <1>1, <2>1, <2>3, EndsType
<1>11. ASSUME NEW c \in Command, Autostart(c)
       PROVE  TypeInv'
    <2>1. cli[c] # Idle /\ Ends(c, FALSE, TRUE)
        BY <1>11 DEF Autostart, At, Done
    <2>2. PICK n \in Name, on \in BOOLEAN :
              cli[c].reg[n] # NoEntry /\ projects' = [cli[c].reg EXCEPT ![n].auto = on]
        BY <1>11 DEF Autostart, Saves
    <2> DEFINE e == [cli[c].reg[n] EXCEPT !.auto = on]
    <2>3. cli[c].reg \in Registry /\ cli[c].reg[n] \in Entry
        BY <1>3, <2>1, <2>2 DEF Registry
    <2>4. e \in Entry
        BY <2>3 DEF Entry
    <2>5. projects' = [cli[c].reg EXCEPT ![n] = e]
        BY <2>2
    <2> HIDE DEF e
    <2>6. projects' \in Registry
        BY <2>3, <2>4, <2>5 DEF Registry
    <2> QED BY <1>1, <2>1, <2>6, EndsType
<1>12. CASE cli' = cli /\ projects' = projects
    BY <1>1, <1>12 DEF TypeInv, HasProject
<1>13. ASSUME NEW d \in Dir, RemoveDir(d)
       PROVE  TypeInv'
    BY <1>12, <1>13 DEF RemoveDir
<1>14. ASSUME NEW l \in AdminLine, Edit(l)
       PROVE  TypeInv'
    BY <1>12, <1>14 DEF Edit
<1>15. CASE UNCHANGED vars
    BY <1>12, <1>15 DEF vars
<1> QED
    BY <1>4, <1>5, <1>6, <1>7, <1>8, <1>9, <1>10, <1>11, <1>13, <1>14, <1>15
    DEF Next, CommandStep

(* The types hold throughout, for any number of commands.                  *)
LEMMA TypeInvariance == Spec => []TypeInv
BY InitTypeInv, NextTypeInv, PTL DEF Spec

(* However many commands rewrite the block from whatever copies of the     *)
(* registry, and die anywhere: no line of the administrator is lost or     *)
(* moved, there is one block at most, and writing what it maps again       *)
(* changes nothing.                                                        *)
THEOREM NamesAdminsLinesStay == Spec => AdminsLinesStay
<1>1. ASSUME TypeInv, [Next]_vars, NEW c \in Command, cli[c] # Idle, cli'[c] # cli[c]
      PROVE  /\ AdminsLines(hosts') = AdminsLines(hosts)
             /\ hosts' # hosts =>
                   /\ Count(BeginLine, hosts') = Count(EndLine, hosts')
                   /\ Count(BeginLine, hosts') <= 1
                   /\ WriteHosts(hosts', Managed(hosts')) = hosts'
    <2>1. CASE Rewrites
        <3>1. PICK d \in Command :
                  cli[d] # Idle /\ hosts' = WriteHosts(hosts, HostNames(cli[d]))
            BY <2>1 DEF Rewrites
        <3> QED BY <1>1, <3>1, RewriteProperties
    <2>2. CASE hosts' = hosts
        BY <2>2
    <2> QED BY <1>1, <2>1, <2>2, HostsSteps
<1>2. TypeInv /\ [Next]_vars =>
          [\A c \in Command : cli[c] # Idle /\ cli'[c] # cli[c] =>
              /\ AdminsLines(hosts') = AdminsLines(hosts)
              /\ hosts' # hosts =>
                    /\ Count(BeginLine, hosts') = Count(EndLine, hosts')
                    /\ Count(BeginLine, hosts') <= 1
                    /\ WriteHosts(hosts', Managed(hosts')) = hosts']_vars
    BY <1>1
<1> QED BY TypeInvariance, <1>2, PTL DEF Spec, AdminsLinesStay

-----------------------------------------------------------------------------
(* Commands that run one at a time.  The copy of the registry is the       *)
(* registry; when an up comes to publish, the leaf covers the names, and   *)
(* when a down does, its directory is forgotten.                           *)

InStep(c) ==
    cli[c] # Idle =>
        /\ last = Nothing
        /\ cli[c].reg = projects
        /\ cli[c].pc = "issue" => cli[c].op # "down"
        /\ cli[c].pc = "publish" /\ cli[c].op = "up" => LocalFQDNs(projects) \subseteq leaf
        /\ cli[c].pc = "publish" /\ cli[c].op = "down" =>
              NamesOfDir(projects, cli[c].dir) = {}

AloneInv ==
    OneAtATime =>
        (\A c \in Command : InStep(c)) /\ BlockIsRegistry /\ DownForgetsEverything

LEMMA InitAloneInv == Init => AloneInv
BY DEF Init, AloneInv, InStep, BlockIsRegistry, DownForgetsEverything, LastDid

(* A command that ends leaves nobody running, and what last says of it.    *)
LEMMA EndsProperties ==
    ASSUME TypeInv, OneAtATime, NEW c \in Command,
           NEW wrote \in BOOLEAN, NEW ok \in BOOLEAN, Ends(c, wrote, ok)
    PROVE  /\ \A d \in Command : cli'[d] = Idle
           /\ last' # Nothing =>
                 /\ last'.wrote => wrote
                 /\ last'.op = cli[c].op /\ last'.dir = cli[c].dir
                 /\ last'.op = "down" => wrote \/ ok
<1>1. cli' = [cli EXCEPT ![c] = Idle]
    BY DEF Ends
<1>2. \A d \in Command : d = c
    BY DEF OneAtATime
<1>3. \A d \in Command : cli'[d] = Idle
    BY <1>1, <1>2 DEF TypeInv
<1> DEFINE st == [op |-> cli[c].op, dir |-> cli[c].dir, wrote |-> wrote]
<1>4. last' # Nothing => last' = st /\ (wrote \/ (cli[c].op = "down" /\ ok))
    BY DEF Ends
<1>5. st.op = cli[c].op /\ st.dir = cli[c].dir /\ st.wrote = wrote
    OBVIOUS
<1> HIDE DEF st
<1>6. last' # Nothing =>
          /\ last'.wrote => wrote
          /\ last'.op = cli[c].op /\ last'.dir = cli[c].dir
          /\ last'.op = "down" => wrote \/ ok
    BY <1>4, <1>5
<1> QED BY <1>3, <1>6

(* A command that ends keeps the invariant of commands one at a time.      *)
LEMMA EndsAlone ==
    ASSUME TypeInv, OneAtATime, NEW c \in Command,
           NEW wrote \in BOOLEAN, NEW ok \in BOOLEAN, Ends(c, wrote, ok),
           wrote => /\ Managed(hosts') = IF cli[c].op = "reconcile"
                                          THEN Reconciled(projects')
                                          ELSE LocalFQDNs(projects')
                    /\ cli[c].op = "up" => LocalFQDNs(projects') \subseteq leaf',
           cli[c].op = "down" /\ (wrote \/ ok) => NamesOfDir(projects', cli[c].dir) = {}
    PROVE  AloneInv'
<1>1. /\ \A d \in Command : cli'[d] = Idle
      /\ last' # Nothing =>
            /\ last'.wrote => wrote
            /\ last'.op = cli[c].op /\ last'.dir = cli[c].dir
            /\ last'.op = "down" => wrote \/ ok
    BY EndsProperties
<1>2. \A d \in Command : InStep(d)'
    BY <1>1 DEF InStep
<1>3. BlockIsRegistry'
    BY <1>1 DEF BlockIsRegistry, LastDid
<1>4. DownForgetsEverything'
    BY <1>1 DEF DownForgetsEverything, LastDid
<1> QED BY <1>2, <1>3, <1>4 DEF AloneInv

(* While a command runs last is Nothing and claims nothing.                *)
LEMMA RunningAlone ==
    ASSUME OneAtATime, NEW c \in Command, last' = Nothing,
           cli'[c].reg = projects',
           cli'[c].pc = "issue" => cli'[c].op # "down",
           cli'[c].pc = "publish" /\ cli'[c].op = "up" =>
               LocalFQDNs(projects') \subseteq leaf',
           cli'[c].pc = "publish" /\ cli'[c].op = "down" =>
               NamesOfDir(projects', cli'[c].dir) = {}
    PROVE  AloneInv'
<1>1. \A d \in Command : d = c
    BY DEF OneAtATime
<1>2. \A d \in Command : InStep(d)'
    BY <1>1 DEF InStep
<1>3. BlockIsRegistry' /\ DownForgetsEverything'
    BY DEF BlockIsRegistry, DownForgetsEverything, LastDid
<1> QED BY <1>2, <1>3 DEF AloneInv

(* A command that loads the registry keeps it.                             *)
LEMMA LoadsAlone ==
    ASSUME TypeInv, OneAtATime, NEW c \in Command, NEW op \in Ops, NEW d, NEW m,
           Loads(c, op, d, m)
    PROVE  AloneInv'
<1> DEFINE st == [op |-> op, dir |-> d, manifest |-> m, pc |-> AfterLoad(op),
                  reg |-> projects]
<1>1. st.op = op /\ st.pc = AfterLoad(op) /\ st.reg = projects
    OBVIOUS
<1>2. cli' = [cli EXCEPT ![c] = st] /\ last' = Nothing /\ projects' = projects
    BY DEF Loads
<1> HIDE DEF st
<1>3. cli'[c] = st
    BY <1>2 DEF TypeInv
<1>4. AfterLoad(op) # "publish" /\ (AfterLoad(op) = "issue" => op # "down")
    BY DEF AfterLoad, Ops
<1> QED BY <1>1, <1>2, <1>3, <1>4, RunningAlone

(* What Goes leaves of the command's state.                                *)
LEMMA GoesProperties ==
    ASSUME TypeInv, NEW c \in Command, cli[c] # Idle, NEW pc, NEW reg, Goes(c, pc, reg)
    PROVE  /\ cli'[c].pc = pc /\ cli'[c].reg = reg
           /\ cli'[c].op = cli[c].op /\ cli'[c].dir = cli[c].dir
           /\ last' = last
<1>1. cli[c] \in CommandState
    BY DEF TypeInv
<1> DEFINE st == [cli[c] EXCEPT !.pc = pc, !.reg = reg]
<1>2. st.pc = pc /\ st.reg = reg /\ st.op = cli[c].op /\ st.dir = cli[c].dir
    BY <1>1 DEF CommandState
<1>3. cli' = [cli EXCEPT ![c] = st] /\ last' = last
    BY DEF Goes, TypeInv
<1> HIDE DEF st
<1>4. cli'[c] = st
    BY <1>3 DEF TypeInv
<1> QED BY <1>2, <1>3, <1>4

(* Forgetting the names of a directory leaves it none.                     *)
LEMMA ForgottenDir ==
    ASSUME NEW reg \in Registry, NEW d
    PROVE  /\ NamesOfDir(Without(reg, NamesOfDir(reg, d)), d) = {}
           /\ NamesOfDir(reg, d) = {} => Without(reg, NamesOfDir(reg, d)) = reg
BY DEF NamesOfDir, Without, Registry

(* Every step keeps it.                                                    *)
LEMMA NextAloneInv == TypeInv /\ AloneInv /\ [Next]_vars => AloneInv'
<1> SUFFICES ASSUME TypeInv, AloneInv, [Next]_vars, OneAtATime
             PROVE  AloneInv'
    BY DEF AloneInv, OneAtATime
<1>1. \A c \in Command : InStep(c)
    BY DEF AloneInv
<1>2. ASSUME NEW c \in Command, cli[c] # Idle
      PROVE  /\ last = Nothing
             /\ cli[c].reg = projects /\ projects \in Registry
             /\ cli[c].pc = "issue" => cli[c].op # "down"
             /\ cli[c].pc = "publish" /\ cli[c].op = "up" =>
                   LocalFQDNs(projects) \subseteq leaf
             /\ cli[c].pc = "publish" /\ cli[c].op = "down" =>
                   NamesOfDir(projects, cli[c].dir) = {}
    BY <1>1, <1>2 DEF InStep, TypeInv
<1>3. ASSUME NEW c \in Command, Begin(c)
      PROVE  AloneInv'
    <2>1. PICK op \in {"up", "down"}, d \in Dir \ gone :
              \E m \in Manifests[d] : Loads(c, op, d, m)
        BY <1>3 DEF Begin
    <2>2. op \in Ops
        BY DEF Ops
    <2> QED BY <2>1, <2>2, LoadsAlone
<1>4. ASSUME NEW c \in Command, BeginGlobal(c)
      PROVE  AloneInv'
    <2>1. PICK op \in Ops \ {"up", "down"} : Loads(c, op, Nothing, Nothing)
        BY <1>4 DEF BeginGlobal
    <2> QED BY <2>1, LoadsAlone
<1>5. ASSUME NEW c \in Command, Register(c)
      PROVE  AloneInv'
    <2> DEFINE reg == Registered(cli[c].reg, cli[c].dir, cli[c].manifest)
    <2>1. cli[c] # Idle /\ cli[c].op = "up"
        BY <1>5 DEF Register, At
    <2>2. projects' = reg /\ (Goes(c, "issue", reg) \/ Ends(c, FALSE, TRUE))
        BY <1>5 DEF Register, Saves, Done
    <2> HIDE DEF reg
    <2>3. CASE Goes(c, "issue", reg)
        <3>1. /\ cli'[c].pc = "issue" /\ cli'[c].reg = projects' /\ cli'[c].op = "up"
              /\ last' = Nothing
            BY <1>2, <2>1, <2>2, <2>3, GoesProperties
        <3> QED BY <3>1, RunningAlone
    <2>4. CASE Ends(c, FALSE, TRUE)
        BY <2>1, <2>4, EndsAlone
    <2> QED BY <2>2, <2>3, <2>4
<1>6. ASSUME NEW c \in Command, Issue(c)
      PROVE  AloneInv'
    <2>1. /\ cli[c] # Idle /\ cli[c].pc = "issue"
          /\ Goes(c, "publish", cli[c].reg) /\ projects' = projects
          /\ leaf' = IF HostNames(cli[c]) \subseteq leaf THEN leaf ELSE HostNames(cli[c])
        BY <1>6 DEF Issue
    <2>2. /\ cli[c].reg = projects /\ last = Nothing /\ cli[c].op # "down"
        BY <1>2, <2>1
    <2>3. LocalFQDNs(projects') \subseteq leaf'
        BY <2>1, <2>2, HostNamesCover
    <2>4. /\ cli'[c].reg = projects' /\ cli'[c].op # "down" /\ cli'[c].pc = "publish"
          /\ last' = Nothing
        BY <2>1, <2>2, GoesProperties
    <2> QED BY <2>3, <2>4, RunningAlone
<1>7. ASSUME NEW c \in Command, Forget(c)
      PROVE  AloneInv'
    <2> DEFINE mine == NamesOfDir(cli[c].reg, cli[c].dir)
               reg == Without(cli[c].reg, mine)
    <2>1. cli[c] # Idle /\ cli[c].op = "down"
        BY <1>7 DEF Forget, At
    <2>2. /\ IF mine = {} THEN projects' = projects ELSE projects' = reg
          /\ Goes(c, "publish", reg) \/ Ends(c, FALSE, TRUE)
        BY <1>7 DEF Forget, Saves, Done
    <2>3. cli[c].reg = projects /\ projects \in Registry /\ last = Nothing
        BY <1>2, <2>1
    <2>4. NamesOfDir(reg, cli[c].dir) = {} /\ (mine = {} => reg = projects)
        BY <2>3, ForgottenDir
    <2> HIDE DEF mine, reg
    <2>5. projects' = reg
        BY <2>2, <2>4
    <2>6. CASE Goes(c, "publish", reg)
        <3>1. /\ cli'[c].pc = "publish" /\ cli'[c].reg = projects'
              /\ cli'[c].op = "down" /\ cli'[c].dir = cli[c].dir /\ last' = Nothing
            BY <2>1, <2>3, <2>5, <2>6, GoesProperties
        <3> QED BY <2>4, <2>5, <3>1, RunningAlone
    <2>7. CASE Ends(c, FALSE, TRUE)
        BY <2>4, <2>5, <2>7, EndsAlone
    <2> QED BY <2>2, <2>6, <2>7
<1>8. ASSUME NEW c \in Command, cli[c] # Idle, cli[c].pc = "publish",
             WritesBlock(c), projects' = projects, leaf' = leaf, Ends(c, TRUE, TRUE),
             hosts' = WriteHosts(hosts, HostNames(cli[c]))
      PROVE  AloneInv'
    <2>1. Managed(hosts') = IF cli[c].op = "reconcile" THEN Reconciled(projects')
                                                      ELSE LocalFQDNs(projects')
        <3>1. Managed(hosts') = HostNames(cli[c])
            BY <1>8, RewriteProperties
        <3>2. cli[c].reg = projects'
            BY <1>2, <1>8
        <3> QED BY <1>8, <3>1, <3>2, WrittenNames
    <2>2. cli[c].op = "up" => LocalFQDNs(projects') \subseteq leaf'
        BY <1>2, <1>8
    <2>3. cli[c].op = "down" => NamesOfDir(projects', cli[c].dir) = {}
        BY <1>2, <1>8
    <2> QED BY <1>8, <2>1, <2>2, <2>3, EndsAlone
<1>9. ASSUME NEW c \in Command, cli[c] # Idle, NEW ok \in BOOLEAN, Ends(c, FALSE, ok),
             cli[c].op = "down" /\ ok => cli[c].pc = "publish" /\ projects' = projects
      PROVE  AloneInv'
    <2>1. cli[c].op = "down" /\ ok => NamesOfDir(projects', cli[c].dir) = {}
        BY <1>2, <1>9
    <2> QED BY <1>9, <2>1, EndsAlone
<1>10. ASSUME NEW c \in Command, Skip(c)
       PROVE  AloneInv'
    <2>1. /\ cli[c] # Idle /\ cli[c].pc = "publish" /\ projects' = projects
          /\ Ends(c, FALSE, TRUE)
        BY <1>10 DEF Skip, Done
    <2> QED BY <1>9, <2>1
<1>11. ASSUME NEW c \in Command, Publish(c)
       PROVE  AloneInv'
    BY <1>8, <1>11 DEF Publish
<1>12. ASSUME NEW c \in Command, PublishSudo(c)
       PROVE  AloneInv'
    <2>1. /\ cli[c] # Idle /\ cli[c].pc = "publish" /\ WritesBlock(c)
          /\ projects' = projects /\ leaf' = leaf
          /\ \/ Ends(c, FALSE, TRUE)
             \/ Ends(c, TRUE, TRUE) /\ hosts' = WriteHosts(hosts, HostNames(cli[c]))
        BY <1>12 DEF PublishSudo, Done
    <2> QED BY <1>8, <1>9, <2>1
<1>13. ASSUME NEW c \in Command, PublishFails(c)
       PROVE  AloneInv'
    <2>1. /\ cli[c] # Idle /\ cli[c].pc = "publish" /\ projects' = projects
          /\ \E ok \in BOOLEAN : Ends(c, FALSE, ok)
        BY <1>13 DEF PublishFails
    <2> QED BY <1>9, <2>1
<1>14. ASSUME NEW c \in Command,
              ForgetName(c) \/ Prune(c) \/ Autostart(c) \/ Uninstall(c) \/ UpdateFails(c)
       PROVE  AloneInv'
    <2>1. cli[c] # Idle /\ cli[c].op # "down"
        BY <1>14 DEF ForgetName, Prune, Autostart, Uninstall, UpdateFails, At
    <2>2. \E ok \in BOOLEAN : Ends(c, FALSE, ok)
        BY <1>14 DEF ForgetName, Prune, Autostart, Uninstall, UpdateFails, Done, Fails
    <2> QED BY <1>9, <2>1, <2>2
<1>15. ASSUME NEW c \in Command, Kill(c)
       PROVE  AloneInv'
    <2>1. cli[c] # Idle /\ Ends(c, FALSE, FALSE)
        BY <1>15 DEF Kill, Fails
    <2> QED BY <1>9, <2>1
<1>16. ASSUME cli' = cli, projects' = projects, last' = last, leaf' = leaf,
              Managed(hosts') = Managed(hosts)
       PROVE  AloneInv'
    BY <1>16 DEF AloneInv, InStep, BlockIsRegistry, DownForgetsEverything, LastDid
<1>17. ASSUME NEW d \in Dir, RemoveDir(d)
       PROVE  AloneInv'
    <2>1. /\ cli' = cli /\ projects' = projects /\ last' = last /\ leaf' = leaf
          /\ hosts' = hosts
        BY <1>17 DEF RemoveDir
    <2> QED BY <1>16, <2>1
<1>18. ASSUME NEW l \in AdminLine, Edit(l)
       PROVE  AloneInv'
    <2>1. /\ cli' = cli /\ projects' = projects /\ last' = last /\ leaf' = leaf
          /\ hosts' = (IF Last(hosts) = Blank THEN Front(hosts) ELSE hosts) \o <<l, Blank>>
        BY <1>18 DEF Edit
    <2>2. Managed(hosts') = Managed(hosts)
        BY <2>1, EditProperties DEF TypeInv
    <2> QED BY <1>16, <2>1, <2>2
<1>19. CASE UNCHANGED vars
    BY <1>16, <1>19 DEF vars
<1> QED
    BY <1>3, <1>4, <1>5, <1>6, <1>7, <1>10, <1>11, <1>12, <1>13, <1>14, <1>15, <1>17,
       <1>18, <1>19
    DEF Next, CommandStep

(* It holds throughout.                                                    *)
LEMMA AloneInvariance == Spec => [](TypeInv /\ AloneInv)
BY InitTypeInv, NextTypeInv, InitAloneInv, NextAloneInv, PTL DEF Spec

(* One at a time, whatever commands were cut short before: a command that  *)
(* wrote the block leaves in it the names of the registered local projects *)
(* and, after a reconcile under localhost, the bare name, and nothing      *)
(* else; and an up leaves a leaf that covers the names.                    *)
THEOREM NamesBlockIsRegistry == Spec => []BlockIsRegistry
<1>1. AloneInv => BlockIsRegistry
    BY DEF AloneInv, BlockIsRegistry
<1> QED BY AloneInvariance, <1>1, PTL

(* One at a time, a down leaves no entry of its directory, under any name. *)
THEOREM NamesDownForgetsEverything == Spec => []DownForgetsEverything
<1>1. AloneInv => DownForgetsEverything
    BY DEF AloneInv, DownForgetsEverything
<1> QED BY AloneInvariance, <1>1, PTL

(* One at a time, no command unmaps a name of another registered project.  *)
THEOREM NamesOthersKeepTheirs ==
    ASSUME OneAtATime
    PROVE  Spec => OthersKeepTheirNames
<1>1. ASSUME TypeInv, AloneInv, [Next]_vars,
             NEW c \in Command, cli[c] # Idle, cli'[c] # cli[c]
      PROVE  OthersMapped(c) \subseteq Managed(hosts')
    <2>1. CASE hosts' = hosts
        BY <2>1 DEF OthersMapped
    <2>2. CASE Rewrites
        <3>1. PICK d \in Command :
                  cli[d] # Idle /\ hosts' = WriteHosts(hosts, HostNames(cli[d]))
            BY <2>2 DEF Rewrites
        <3>2. cli[d].reg = projects
            BY <1>1, <3>1 DEF AloneInv, InStep
        <3>3. LocalFQDNs(projects) \subseteq Managed(hosts')
            BY <1>1, <3>1, <3>2, RewriteProperties, HostNamesCover
        <3>4. OthersMapped(c) \subseteq LocalFQDNs(projects)
            BY DEF OthersMapped, LocalFQDNs
        <3> QED BY <3>3, <3>4
    <2> QED BY <1>1, <2>1, <2>2, HostsSteps
<1>2. TypeInv /\ AloneInv /\ [Next]_vars =>
          [\A c \in Command : cli[c] # Idle /\ cli'[c] # cli[c] =>
              OthersMapped(c) \subseteq Managed(hosts')]_vars
    BY <1>1
<1> QED BY AloneInvariance, <1>2, PTL DEF Spec, OthersKeepTheirNames
=============================================================================
