------------------------- MODULE TcpClientPoolProofs -------------------------
(***************************************************************************)
(* What the operations of the pool do to its deques, for every set of      *)
(* clients and peers: the facts that the proofs about the pool's users     *)
(* rest on.                                                                *)
(***************************************************************************)
EXTENDS TcpClientPool, FiniteSetTheorems, SequenceTheorems, TLAPS

(* A set of naturals that is not empty has a least element.                *)
LEMMA LeastElement ==
  ASSUME NEW T \in SUBSET Nat, T # {}
  PROVE  \E i \in T : \A j \in T : i <= j
<1>1. PICK x \in T : \A y \in T : ~(<<y, x>> \in OpToRel(<, Nat))
  BY WFMin, NatLessThanWellFounded
<1>2. ASSUME NEW y \in T
      PROVE  x <= y
  <2>1. x \in Nat /\ y \in Nat
    OBVIOUS
  <2>2. ~(<<y, x>> \in {s \in Nat \X Nat : s[1] < s[2]})
    BY <1>1 DEF OpToRel
  <2>3. ~(y < x)
    BY <2>1, <2>2
  <2> QED BY <2>1, <2>3
<1> QED BY <1>2

(* get_client's loop pops at most the whole deque, and stops at a usable   *)
(* client if there is one.                                                 *)
LEMMA PopCountRange ==
  ASSUME NEW q \in Seq(Client)
  PROVE  /\ PopCount(q) \in 0..Len(q)
         /\ UsableAt(q) # {} => /\ PopCount(q) \in 1..Len(q)
                                /\ Usable(q[PopCount(q)])
<1>1. CASE UsableAt(q) = {}
  BY <1>1, LenProperties DEF PopCount
<1>2. CASE UsableAt(q) # {}
  <2>1. UsableAt(q) \subseteq 1..Len(q)
    BY LenProperties DEF UsableAt
  <2>2. \E i \in UsableAt(q) : \A j \in UsableAt(q) : i <= j
    BY <1>2, <2>1, LeastElement
  <2>3. PopCount(q) \in UsableAt(q)
    BY <1>2, <2>2 DEF PopCount
  <2>4. Usable(q[PopCount(q)])
    BY <2>3 DEF UsableAt
  <2> QED BY <1>2, <2>1, <2>3, <2>4
<1> QED BY <1>1, <1>2

(* What get_client leaves of a deque is its tail.                          *)
LEMMA RemainingIsTail ==
  ASSUME NEW p \in Peer, free_clients \in [Peer -> Seq(Client)]
  PROVE  LET q == free_clients[p]
         IN  /\ Remaining(p) \in Seq(Client)
             /\ Len(Remaining(p)) = Len(q) - PopCount(q)
             /\ \A j \in 1..Len(Remaining(p)) : Remaining(p)[j] = q[PopCount(q) + j]
<1> DEFINE q == free_clients[p]
<1>1. q \in Seq(Client) /\ Len(q) \in Nat
  BY LenProperties
<1>2. PopCount(q) \in 0..Len(q)
  BY <1>1, PopCountRange
<1>3. \A i \in PopCount(q) + 1 .. Len(q) : q[i] \in Client
  BY <1>1, <1>2, ElementOfSeq
<1> HIDE DEF q
<1>4. /\ SubSeq(q, PopCount(q) + 1, Len(q)) \in Seq(Client)
      /\ Len(SubSeq(q, PopCount(q) + 1, Len(q)))
           = IF PopCount(q) + 1 <= Len(q) THEN Len(q) - (PopCount(q) + 1) + 1 ELSE 0
      /\ \A i \in 1 .. Len(q) - (PopCount(q) + 1) + 1 :
           SubSeq(q, PopCount(q) + 1, Len(q))[i] = q[PopCount(q) + 1 + i - 1]
  BY <1>1, <1>2, <1>3, SubSeqProperties
<1>5. Remaining(p) = SubSeq(q, PopCount(q) + 1, Len(q))
  BY DEF Remaining, q
<1>6. Len(Remaining(p)) = Len(q) - PopCount(q)
  BY <1>1, <1>2, <1>4, <1>5
<1>7. ASSUME NEW j \in 1..Len(Remaining(p))
      PROVE  Remaining(p)[j] = q[PopCount(q) + j]
  <2>1. j \in 1 .. Len(q) - (PopCount(q) + 1) + 1 /\ j \in Int
    BY <1>1, <1>2, <1>6
  <2>2. PopCount(q) + 1 + j - 1 = PopCount(q) + j
    BY <1>2, <2>1
  <2> QED BY <1>4, <1>5, <2>1, <2>2
<1> QED BY <1>4, <1>5, <1>6, <1>7 DEF q

(* Kept positions have different ranks, and at most as many as there are.  *)
LEMMA RankInjective ==
  ASSUME NEW q \in Seq(Client)
  PROVE  /\ IsFiniteSet(KeptAt(q)) /\ Cardinality(KeptAt(q)) \in Nat
         /\ \A i \in KeptAt(q) : Rank(q, i) \in 1..Cardinality(KeptAt(q))
         /\ \A i, k \in KeptAt(q) : Rank(q, i) = Rank(q, k) => i = k
<1> DEFINE K == KeptAt(q)
           Upto(i) == {k \in K : k <= i}
           N == Cardinality(K)
<1>1. K \subseteq 1..Len(q) /\ Len(q) \in Nat /\ K \subseteq Nat
  BY LenProperties DEF KeptAt
<1>2. IsFiniteSet(K) /\ N \in Nat
  <2>1. IsFiniteSet(1..Len(q))
    BY <1>1, FS_Interval
  <2> QED BY <1>1, <2>1, FS_Subset, FS_CardinalityType
<1>3. ASSUME NEW i \in K
      PROVE  /\ Rank(q, i) = Cardinality(Upto(i))
             /\ IsFiniteSet(Upto(i))
             /\ Rank(q, i) \in 1..N
  <2>1. IsFiniteSet(Upto(i)) /\ Cardinality(Upto(i)) <= N
    BY <1>2, FS_Subset
  <2>2. Cardinality(Upto(i)) \in Nat
    BY <2>1, FS_CardinalityType
  <2>3. i \in Upto(i)
    BY <1>1
  <2>4. Cardinality(Upto(i)) # 0
    BY <2>1, <2>3, FS_EmptySet
  <2>5. Rank(q, i) = Cardinality(Upto(i))
    BY DEF Rank
  <2> QED BY <1>2, <2>1, <2>2, <2>4, <2>5
<1>4. ASSUME NEW i \in K, NEW k \in K, i < k
      PROVE  Rank(q, i) # Rank(q, k)
  <2>1. Upto(i) \in SUBSET Upto(k)
    BY <1>1, <1>4
  <2>2. k \in Upto(k) /\ k \notin Upto(i)
    BY <1>1, <1>4
  <2>3. Upto(i) # Upto(k)
    BY <2>2
  <2> HIDE DEF Upto
  <2>4. Cardinality(Upto(k)) # Cardinality(Upto(i))
    BY <1>3, <2>1, <2>3, FS_Subset
  <2> QED BY <1>3, <2>4
<1>5. ASSUME NEW i \in K, NEW k \in K, Rank(q, i) = Rank(q, k)
      PROVE  i = k
  <2>1. i \in Nat /\ k \in Nat
    BY <1>1
  <2> QED BY <1>4, <1>5, <2>1
<1> QED BY <1>2, <1>3, <1>5

(* Every rank up to the number of kept clients belongs to a kept position: *)
(* an injection into a set of the same size is onto.                       *)
LEMMA RankOnto ==
  ASSUME NEW q \in Seq(Client)
  PROVE  /\ Cardinality(KeptAt(q)) \in Nat
         /\ \A j \in 1..Cardinality(KeptAt(q)) : \E i \in KeptAt(q) : Rank(q, i) = j
<1> DEFINE K == KeptAt(q)
           N == Cardinality(K)
           f == [i \in K |-> Rank(q, i)]
<1>1. IsFiniteSet(K) /\ N \in Nat
  BY RankInjective
<1>2. f \in Injection(K, 1..N)
  <2>1. f \in [K -> 1..N]
    BY RankInjective
  <2>2. \A i, k \in K : f[i] = f[k] => i = k
    BY RankInjective
  <2> HIDE DEF f
  <2> QED BY <2>1, <2>2 DEF Injection, IsInjective
<1>3. IsFiniteSet(1..N) /\ Cardinality(1..N) = N
  BY <1>1, FS_Interval
<1>4. f \in Surjection(K, 1..N)
  <2> HIDE DEF f, K
  <2> QED BY <1>2, <1>3, FS_Injection
<1>5. \A j \in 1..N : \E i \in K : f[i] = j
  <2> HIDE DEF f, K
  <2> QED BY <1>4 DEF Surjection
<1> QED BY <1>1, <1>5

(* check_clients leaves of a deque some of its positions, each once.       *)
LEMMA KeptIsThinning ==
  ASSUME NEW q \in Seq(Client)
  PROVE  /\ Kept(q) \in Seq(Client)
         /\ \A j \in 1..Len(Kept(q)) :
              \E i \in 1..Len(q) : /\ Kept(q)[j] = q[i]
                                   /\ Keep(q[i])
                                   /\ Rank(q, i) = j
<1> DEFINE N == Cardinality(KeptAt(q))
           at(j) == CHOOSE i \in KeptAt(q) : Rank(q, i) = j
<1>1. N \in Nat /\ \A j \in 1..N : at(j) \in KeptAt(q) /\ Rank(q, at(j)) = j
  BY RankOnto
<1>2. \A i \in KeptAt(q) : i \in 1..Len(q) /\ Keep(q[i]) /\ q[i] \in Client
  BY LenProperties, ElementOfSeq DEF KeptAt
<1>3. Kept(q) = [j \in 1..N |-> q[at(j)]]
  BY DEF Kept
<1> HIDE DEF N, at
<1>4. \A j \in 1..N : q[at(j)] \in Client
  BY <1>1, <1>2
<1>5. Kept(q) \in Seq(Client)
  BY <1>1, <1>3, <1>4, IsASeq
<1>6. Len(Kept(q)) = N
  BY <1>1, <1>3, <1>5, LenProperties
<1>7. ASSUME NEW j \in 1..Len(Kept(q))
      PROVE  \E i \in 1..Len(q) : Kept(q)[j] = q[i] /\ Keep(q[i]) /\ Rank(q, i) = j
  <2>1. at(j) \in 1..Len(q) /\ Keep(q[at(j)]) /\ Rank(q, at(j)) = j
    BY <1>1, <1>2, <1>6
  <2>2. Kept(q)[j] = q[at(j)]
    BY <1>3, <1>6
  <2> QED BY <2>1, <2>2
<1> QED BY <1>5, <1>7
(* No client that is to be kept is erased.                                 *)
LEMMA KeptHasAll ==
  ASSUME NEW q \in Seq(Client), NEW i \in KeptAt(q)
  PROVE  \E j \in DOMAIN Kept(q) : Kept(q)[j] = q[i]
<1> DEFINE K == KeptAt(q)
           j == Rank(q, i)
<1>1. j \in 1..Cardinality(K) /\ \A k \in K : Rank(q, k) = j => k = i
  BY RankInjective
<1>2. (CHOOSE k \in K : Rank(q, k) = j) = i
  BY <1>1
<1> HIDE DEF j
<1> QED BY <1>1, <1>2 DEF Kept
-----------------------------------------------------------------------------
(* A client is pooled if and only if it is at some place of some deque.    *)
LEMMA PooledPlace ==
  /\ \A c : c \in Pooled
       <=> \E p \in Peer : \E i \in DOMAIN free_clients[p] : free_clients[p][i] = c
  /\ \A c : c \in Pooled'
       <=> \E p \in Peer : \E i \in DOMAIN free_clients'[p] : free_clients'[p][i] = c
BY DEF Pooled, Elems

(* Only clients are pooled.                                                *)
LEMMA PooledIsClient ==
  ASSUME free_clients \in [Peer -> Seq(Client)]
  PROVE  Pooled \subseteq Client
<1> SUFFICES ASSUME NEW c, NEW p \in Peer, NEW i \in DOMAIN free_clients[p],
                    free_clients[p][i] = c
             PROVE  c \in Client
  BY PooledPlace
<1>1. free_clients[p] \in Seq(Client) /\ i \in 1..Len(free_clients[p])
  BY LenProperties
<1> QED BY <1>1, ElementOfSeq

(* No client is at two places of the pool.                                 *)
Distinct ==
  \A p1, p2 \in Peer :
    \A i \in DOMAIN free_clients[p1], j \in DOMAIN free_clients[p2] :
      free_clients[p1][i] = free_clients[p2][j] => p1 = p2 /\ i = j

(* recollect puts the client into the pool, once.                          *)
LEMMA RecollectPool ==
  ASSUME free_clients \in [Peer -> Seq(Client)], peer_id \in [Client -> Peer], Distinct,
         NEW c \in Client, c \notin Pooled, recollect(c)
  PROVE  /\ free_clients' \in [Peer -> Seq(Client)]
         /\ Distinct'
         /\ Pooled' = Pooled \cup {c}
         /\ \A p \in Peer : \A i \in DOMAIN free_clients'[p] :
              \/ i \in DOMAIN free_clients[p] /\ free_clients'[p][i] = free_clients[p][i]
              \/ p = peer_id[c] /\ free_clients'[p][i] = c
<1> DEFINE pc == peer_id[c]
           q == free_clients[pc]
<1>1. pc \in Peer /\ q \in Seq(Client) /\ free_clients \in [Peer -> Seq(Client)]
  OBVIOUS
<1>2. /\ free_clients' \in [Peer -> Seq(Client)]
      /\ \A p \in Peer : p # pc => free_clients'[p] = free_clients[p]
      /\ free_clients'[pc] = Append(q, c)
  BY <1>1, AppendProperties DEF recollect
<1>3. /\ DOMAIN q = 1..Len(q) /\ Len(q) \in Nat
      /\ DOMAIN free_clients'[pc] = 1..Len(q) + 1
      /\ \A i \in 1..Len(q) : free_clients'[pc][i] = q[i]
      /\ free_clients'[pc][Len(q) + 1] = c
  BY <1>1, <1>2, AppendProperties, LenProperties
<1> HIDE DEF pc, q
<1>4. ASSUME NEW p \in Peer, NEW i \in DOMAIN free_clients'[p]
      PROVE  \/ i \in DOMAIN free_clients[p] /\ free_clients'[p][i] = free_clients[p][i]
             \/ p = pc /\ i = Len(q) + 1 /\ free_clients'[p][i] = c
  <2>1. CASE p # pc
    BY <2>1, <1>2
  <2>2. CASE p = pc
    BY <2>2, <1>3 DEF q
  <2> QED BY <2>1, <2>2
<1>5. \A p \in Peer : \A i \in DOMAIN free_clients[p] : free_clients[p][i] # c
  BY PooledPlace
<1>6. Pooled' = Pooled \cup {c}
  <2>1. ASSUME NEW d \in Pooled' PROVE d \in Pooled \cup {c}
    BY <1>4, PooledPlace
  <2>2. ASSUME NEW d \in Pooled PROVE d \in Pooled'
    <3>1. PICK p \in Peer : \E i \in DOMAIN free_clients[p] : free_clients[p][i] = d
      BY PooledPlace
    <3>2. PICK i \in DOMAIN free_clients[p] : free_clients[p][i] = d
      BY <3>1
    <3>3. i \in DOMAIN free_clients'[p] /\ free_clients'[p][i] = d
      <4>1. CASE p # pc
        BY <1>2, <3>2, <4>1
      <4>2. CASE p = pc
        <5>1. i \in 1..Len(q) /\ q[i] = d
          BY <1>3, <3>2, <4>2 DEF q
        <5> QED BY <1>3, <4>2, <5>1
      <4> QED BY <4>1, <4>2
    <3> QED BY <3>3, PooledPlace
  <2>3. c \in Pooled'
    <3>1. Len(q) + 1 \in DOMAIN free_clients'[pc]
      BY <1>3
    <3> QED BY <1>1, <1>3, <3>1, PooledPlace
  <2> QED BY <2>1, <2>2, <2>3
<1>7. Distinct'
  <2>1. ASSUME NEW p1 \in Peer, NEW p2 \in Peer,
               NEW i \in DOMAIN free_clients'[p1], NEW j \in DOMAIN free_clients'[p2],
               free_clients'[p1][i] = free_clients'[p2][j]
        PROVE  p1 = p2 /\ i = j
    <3>1. \/ i \in DOMAIN free_clients[p1] /\ free_clients'[p1][i] = free_clients[p1][i]
          \/ p1 = pc /\ i = Len(q) + 1 /\ free_clients'[p1][i] = c
      BY <1>4
    <3>2. \/ j \in DOMAIN free_clients[p2] /\ free_clients'[p2][j] = free_clients[p2][j]
          \/ p2 = pc /\ j = Len(q) + 1 /\ free_clients'[p2][j] = c
      BY <1>4
    <3>3. CASE free_clients'[p1][i] = c
      BY <1>5, <2>1, <3>1, <3>2, <3>3
    <3>4. CASE free_clients'[p1][i] # c
      <4>1. /\ i \in DOMAIN free_clients[p1] /\ j \in DOMAIN free_clients[p2]
            /\ free_clients[p1][i] = free_clients[p2][j]
        BY <2>1, <3>1, <3>2, <3>4
      <4> QED BY <4>1 DEF Distinct
    <3> QED BY <3>3, <3>4
  <2> QED BY <2>1 DEF Distinct
<1>8. \A p \in Peer : \A i \in DOMAIN free_clients'[p] :
        \/ i \in DOMAIN free_clients[p] /\ free_clients'[p][i] = free_clients[p][i]
        \/ p = pc /\ free_clients'[p][i] = c
  BY <1>4
<1>9. pc = peer_id[c]
  BY DEF pc
<1> QED BY ONLY <1>2, <1>6, <1>7, <1>8, <1>9

(* get_client takes what it pops out of the pool, and returns one of those *)
(* clients, which is usable, or none.                                      *)
LEMMA GetClientPool ==
  ASSUME free_clients \in [Peer -> Seq(Client)], Distinct,
         NEW p \in Peer, get_client(p)
  PROVE  /\ free_clients' \in [Peer -> Seq(Client)]
         /\ Distinct'
         /\ Popped(p) \subseteq Pooled
         /\ Pooled' = Pooled \ Popped(p)
         /\ \/ GetResult(p) = NoClient
            \/ GetResult(p) \in Popped(p) /\ Usable(GetResult(p))
         /\ \A r \in Peer : \A i \in DOMAIN free_clients'[r] :
              \E k \in DOMAIN free_clients[r] : free_clients'[r][i] = free_clients[r][k]
<1> DEFINE q == free_clients[p]
           n == PopCount(q)
<1>1. q \in Seq(Client) /\ Len(q) \in Nat /\ DOMAIN q = 1..Len(q)
      /\ free_clients \in [Peer -> Seq(Client)]
  BY LenProperties
<1>2. n \in 0..Len(q)
  BY <1>1, PopCountRange
<1>3. /\ Remaining(p) \in Seq(Client)
      /\ DOMAIN Remaining(p) = 1..Len(q) - n
      /\ \A j \in 1..Len(q) - n : Remaining(p)[j] = q[n + j]
  BY <1>1, RemainingIsTail, LenProperties
<1>4. Popped(p) = {q[i] : i \in 1..n}
  BY DEF Popped
<1>5. Popped(p) \subseteq Pooled
  BY <1>1, <1>2, <1>4, PooledPlace
<1>6. \/ GetResult(p) = NoClient
      \/ GetResult(p) \in Popped(p) /\ Usable(GetResult(p))
  <2>1. CASE UsableAt(q) = {}
    BY <2>1 DEF GetResult
  <2>2. CASE UsableAt(q) # {}
    <3>1. n \in 1..Len(q) /\ Usable(q[n])
      BY <1>1, <2>2, PopCountRange
    <3>2. GetResult(p) = q[n]
      BY <2>2 DEF GetResult
    <3> QED BY <1>4, <3>1, <3>2
  <2> QED BY <2>1, <2>2
<1>7. free_clients' = [free_clients EXCEPT ![p] = Remaining(p)]
  BY DEF get_client
<1> HIDE DEF n, q
<1>8. ASSUME NEW r \in Peer, NEW i \in DOMAIN free_clients'[r]
      PROVE  LET k == IF r = p THEN n + i ELSE i
             IN  k \in DOMAIN free_clients[r] /\ free_clients'[r][i] = free_clients[r][k]
                 /\ i \in Int
  <2>1. CASE r = p
    BY <1>1, <1>2, <1>3, <1>7, <2>1 DEF q
  <2>2. CASE r # p
    <3>1. free_clients'[r] = free_clients[r] /\ free_clients[r] \in Seq(Client)
      BY <1>1, <1>7, <2>2
    <3>2. i \in 1..Len(free_clients[r])
      BY <3>1, LenProperties
    <3> QED BY <2>2, <3>1, <3>2
  <2> QED BY <2>1, <2>2
<1>9. Pooled' \subseteq Pooled
  BY <1>8, PooledPlace
<1>10. Pooled' \cap Popped(p) = {}
  <2> SUFFICES ASSUME NEW c \in Pooled', c \in Popped(p)
               PROVE  FALSE
    OBVIOUS
  <2>1. PICK j \in 1..n : q[j] = c
    BY <1>4
  <2>2a. PICK r \in Peer : \E i \in DOMAIN free_clients'[r] : free_clients'[r][i] = c
    BY PooledPlace
  <2>2. PICK i \in DOMAIN free_clients'[r] : free_clients'[r][i] = c
    BY <2>2a
  <2>3. j \in DOMAIN free_clients[p] /\ free_clients[p][j] = c
    BY <1>1, <1>2, <2>1 DEF q
  <2>4. CASE r # p
    BY <1>8, <2>2, <2>3, <2>4 DEF Distinct
  <2>5. CASE r = p
    <3>1. /\ n + i \in DOMAIN free_clients[p]
          /\ free_clients[p][n + i] = c
          /\ i \in 1..Len(q) - n
      BY <1>1, <1>3, <1>7, <1>8, <2>2, <2>5
    <3>2. n + i = j
      BY <2>3, <3>1 DEF Distinct
    <3> QED BY <1>1, <1>2, <2>1, <3>1, <3>2
  <2> QED BY <2>4, <2>5
<1>11. ASSUME NEW c \in Pooled, c \notin Popped(p)
       PROVE  c \in Pooled'
  <2>1. PICK r \in Peer : \E i \in DOMAIN free_clients[r] : free_clients[r][i] = c
    BY PooledPlace
  <2>2. PICK i \in DOMAIN free_clients[r] : free_clients[r][i] = c
    BY <2>1
  <2>3. CASE r # p
    BY <1>1, <1>7, <2>2, <2>3, PooledPlace
  <2>4. CASE r = p
    <3>1. i \in 1..Len(q) /\ i \notin 1..n /\ q[i] = c
      BY <1>1, <1>4, <1>11, <2>2, <2>4 DEF q
    <3>2. i - n \in 1..Len(q) - n /\ n + (i - n) = i
      BY <1>1, <1>2, <3>1
    <3>3. free_clients'[p] = Remaining(p)
      BY <1>1, <1>7
    <3>4. i - n \in DOMAIN free_clients'[p] /\ free_clients'[p][i - n] = c
      BY <1>3, <3>1, <3>2, <3>3
    <3> QED BY <3>4, PooledPlace
  <2> QED BY <2>3, <2>4
<1>12. Distinct'
  <2>1. ASSUME NEW p1 \in Peer, NEW p2 \in Peer,
               NEW i \in DOMAIN free_clients'[p1], NEW j \in DOMAIN free_clients'[p2],
               free_clients'[p1][i] = free_clients'[p2][j]
        PROVE  p1 = p2 /\ i = j
    <3> DEFINE k1 == IF p1 = p THEN n + i ELSE i
               k2 == IF p2 = p THEN n + j ELSE j
    <3>1. /\ k1 \in DOMAIN free_clients[p1] /\ k2 \in DOMAIN free_clients[p2]
          /\ free_clients[p1][k1] = free_clients[p2][k2]
          /\ i \in Int /\ j \in Int
      BY <1>8, <2>1
    <3>2. p1 = p2 /\ k1 = k2
      BY <3>1 DEF Distinct
    <3> QED BY <1>2, <3>1, <3>2
  <2> QED BY <2>1 DEF Distinct
<1>13. free_clients' \in [Peer -> Seq(Client)]
  BY <1>1, <1>3, <1>7
<1>14. Pooled' = Pooled \ Popped(p)
  BY <1>9, <1>10, <1>11
<1> QED BY <1>5, <1>6, <1>8, <1>12, <1>13, <1>14

(* check_clients takes out the clients that are not to be kept, and no     *)
(* others.                                                                 *)
LEMMA CheckClientsPool ==
  ASSUME free_clients \in [Peer -> Seq(Client)], Distinct, check_clients
  PROVE  /\ free_clients' \in [Peer -> Seq(Client)]
         /\ Distinct'
         /\ \A c : c \in Pooled' <=> c \in Pooled /\ Keep(c)
         /\ \A p \in Peer : \A j \in DOMAIN free_clients'[p] :
              \E i \in DOMAIN free_clients[p] : free_clients'[p][j] = free_clients[p][i]
<1>1. /\ \A p \in Peer : free_clients'[p] = Kept(free_clients[p])
      /\ free_clients' \in [Peer -> Seq(Client)]
  BY KeptIsThinning DEF check_clients
<1>2. ASSUME NEW p \in Peer, NEW j \in DOMAIN free_clients'[p]
      PROVE  \E i \in DOMAIN free_clients[p] :
               /\ free_clients'[p][j] = free_clients[p][i]
               /\ Keep(free_clients[p][i])
               /\ Rank(free_clients[p], i) = j
  <2>1. free_clients[p] \in Seq(Client) /\ Kept(free_clients[p]) \in Seq(Client)
    BY <1>1
  <2>2. j \in 1..Len(Kept(free_clients[p])) /\ free_clients'[p] = Kept(free_clients[p])
    BY <1>1, <2>1, LenProperties
  <2>3. DOMAIN free_clients[p] = 1..Len(free_clients[p])
    BY <2>1, LenProperties
  <2> QED BY <2>1, <2>2, <2>3, KeptIsThinning
<1>3. \A c \in Pooled' : c \in Pooled /\ Keep(c)
  BY <1>2, PooledPlace
<1>4. ASSUME NEW c \in Pooled, Keep(c)
      PROVE  c \in Pooled'
  <2>1. PICK p \in Peer : \E i \in DOMAIN free_clients[p] : free_clients[p][i] = c
    BY PooledPlace
  <2>2. PICK i \in DOMAIN free_clients[p] : free_clients[p][i] = c
    BY <2>1
  <2> DEFINE q == free_clients[p]
  <2>3. i \in KeptAt(q) /\ q \in Seq(Client)
    BY <1>1, <1>4, <2>2 DEF KeptAt
  <2>4. \E j \in DOMAIN Kept(q) : Kept(q)[j] = c
    BY <2>2, <2>3, KeptHasAll
  <2> QED BY <1>1, <2>4, PooledPlace
<1>5. Distinct'
  <2>1. ASSUME NEW p1 \in Peer, NEW p2 \in Peer,
               NEW j1 \in DOMAIN free_clients'[p1], NEW j2 \in DOMAIN free_clients'[p2],
               free_clients'[p1][j1] = free_clients'[p2][j2]
        PROVE  p1 = p2 /\ j1 = j2
    <3>1. PICK i1 \in DOMAIN free_clients[p1] :
            free_clients'[p1][j1] = free_clients[p1][i1] /\ Rank(free_clients[p1], i1) = j1
      BY <1>2
    <3>2. PICK i2 \in DOMAIN free_clients[p2] :
            free_clients'[p2][j2] = free_clients[p2][i2] /\ Rank(free_clients[p2], i2) = j2
      BY <1>2
    <3>3. free_clients[p1][i1] = free_clients[p2][i2]
      BY <2>1, <3>1, <3>2
    <3>4. p1 = p2 /\ i1 = i2
      BY <3>3 DEF Distinct
    <3> QED BY <3>1, <3>2, <3>4
  <2> QED BY <2>1 DEF Distinct
<1>6. \A c : c \in Pooled' <=> c \in Pooled /\ Keep(c)
  BY <1>3, <1>4
<1>7. \A p \in Peer : \A j \in DOMAIN free_clients'[p] :
        \E i \in DOMAIN free_clients[p] : free_clients'[p][j] = free_clients[p][i]
  BY <1>2
<1> QED BY ONLY <1>1, <1>5, <1>6, <1>7
=============================================================================
