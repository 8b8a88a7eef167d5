--------------------------- MODULE MemPathProofs ---------------------------
(***************************************************************************)
(* Proofs about the memory path, for any SMs, requests and sectors, and any *)
(* sizes of caches, MSHRs and buffers.                                      *)
(*                                                                          *)
(* A mem_fetch is a pointer that may be in several queues at a time.  The   *)
(* invariant says where: a write in one place, a load in one place of its   *)
(* SM while copies of the pointer travel beyond the L1.  The destructors    *)
(* meet a pointer as often as it is in a place they delete (WriteDeletes,   *)
(* LoadDeletes).                                                            *)
(***************************************************************************)
EXTENDS MemPath, FiniteSetTheorems, TLAPS

Writes == {m \in Fetches : is_write(m)}

\* The members of T occur in a queue once.
Once(q, T) == \A i, j \in DOMAIN q : q[i] = q[j] /\ q[i] \in T => i = j

\* Where a mem_fetch may be.
New(m) == \/ Req(m) \in unsent
          \/ m[2] = "wt" /\ Self(Req(m)) \in ToSet(sm_to_l1[Home(m)][Sector(m)])
Bank(m) == m \in ToSet(sm_to_l1[Home(m)][Sector(m)])
Hit(m) == m \in ToSet(l1_to_sm[Home(m)])
Mshr(m) == m \in ToSet(l1_mshr[Home(m)][Sector(m)])
Miss(m) == m \in ToSet(miss_queue[Home(m)])
Up(m) == m \in ToSet(up[Home(m)])
L2In(m) == m \in ToSet(l1_to_l2)
L2Mshr(m) == m \in ToSet(l2_mshr[Sector(m)])
L2Hit(m) == m \in l2_to_sms
Dram(m) == m \in ToSet(dram)
Down(m) == m \in ToSet(down[Home(m)])

\* Every queue holds what belongs there.
PlaceInv ==
  /\ \A c \in SMs : \A a \in Sectors :
       /\ \A m \in ToSet(sm_to_l1[c][a]) : Home(m) = c /\ Sector(m) = a /\ m = Self(Req(m))
       /\ \A m \in ToSet(l1_mshr[c][a]) : Home(m) = c /\ Sector(m) = a /\ m[2] = "load" /\ m = Self(Req(m))
  /\ \A c \in SMs :
       /\ \A m \in ToSet(l1_to_sm[c]) : Home(m) = c /\ m = Self(Req(m)) /\ needs_reply(m)
       /\ \A m \in ToSet(down[c]) : Home(m) = c /\ m = Self(Req(m)) /\ needs_reply(m)
       /\ \A m \in ToSet(miss_queue[c]) : Home(m) = c /\ (needs_reply(m) => m = Self(Req(m)))
       /\ \A m \in ToSet(up[c]) : Home(m) = c /\ (needs_reply(m) => m = Self(Req(m)))
  /\ \A m \in ToSet(l1_to_l2) : needs_reply(m) => m = Self(Req(m))
  /\ \A m \in ToSet(dram) : needs_reply(m) => m = Self(Req(m))
  /\ \A m \in l2_to_sms : m = Self(Req(m)) /\ needs_reply(m)
  /\ \A a \in Sectors : \A m \in ToSet(l2_mshr[a]) : Sector(m) = a /\ m[2] = "load" /\ m = Self(Req(m))

OnceInv ==
  /\ \A c \in SMs : \A a \in Sectors : Once(sm_to_l1[c][a], Fetches)
  /\ \A c \in SMs : /\ Once(l1_to_sm[c], Fetches)
                    /\ Once(miss_queue[c], Writes)
                    /\ Once(up[c], Writes)
                    /\ Once(down[c], Writes)
  /\ Once(l1_to_l2, Writes)
  /\ Once(dram, Writes)

\* A write is in one place.
WriteInv ==
  \A m \in Writes :
    /\ New(m) => ~(Bank(m) \/ Hit(m) \/ Miss(m) \/ Up(m) \/ L2In(m) \/ Dram(m) \/ L2Hit(m) \/ Down(m) \/ m \in deleted)
    /\ Bank(m) => ~(Hit(m) \/ Miss(m) \/ Up(m) \/ L2In(m) \/ Dram(m) \/ L2Hit(m) \/ Down(m) \/ m \in deleted)
    /\ Hit(m) => ~(Miss(m) \/ Up(m) \/ L2In(m) \/ Dram(m) \/ L2Hit(m) \/ Down(m) \/ m \in deleted)
    /\ Miss(m) => ~(Up(m) \/ L2In(m) \/ Dram(m) \/ L2Hit(m) \/ Down(m) \/ m \in deleted)
    /\ Up(m) => ~(L2In(m) \/ Dram(m) \/ L2Hit(m) \/ Down(m) \/ m \in deleted)
    /\ L2In(m) => ~(Dram(m) \/ L2Hit(m) \/ Down(m) \/ m \in deleted)
    /\ Dram(m) => ~(L2Hit(m) \/ Down(m) \/ m \in deleted)
    /\ L2Hit(m) => ~(Down(m) \/ m \in deleted)
    /\ Down(m) => ~(m \in deleted)
    /\ m \notin retired

\* A load is in one place too, but for the copies of a pointer to it that are on
\* their way while it waits in the MSHRs of the L1, and later.
LoadInv ==
  \A m \in Fetches \ Writes :
    /\ New(m) => ~(Bank(m) \/ Hit(m) \/ Mshr(m) \/ m \in deleted \/ m \in retired)
    /\ Bank(m) => ~(Hit(m) \/ Mshr(m) \/ m \in deleted \/ m \in retired)
    /\ Hit(m) => ~(Mshr(m) \/ m \in deleted \/ m \in retired)
    /\ Mshr(m) => ~(m \in deleted \/ m \in retired)
    /\ m \in deleted => m \notin retired
    /\ Miss(m) \/ Up(m) \/ L2In(m) \/ L2Mshr(m) \/ Dram(m) \/ L2Hit(m) \/ Down(m) => Mshr(m) \/ m \in retired

\* Whoever is to be answered is waited for ...
WaitInv ==
  \A m \in Fetches : needs_reply(m) =>
    /\ Bank(m) \/ Hit(m) \/ Mshr(m) => Req(m) \in pending
    /\ m \in Writes => (Miss(m) \/ Up(m) \/ L2In(m) \/ Dram(m) \/ L2Hit(m) \/ Down(m) => Req(m) \in pending)

\* ... and a load that is waited for will be.
PendInv == \A m \in Fetches \ Writes : m = Self(Req(m)) /\ Req(m) \in pending => Bank(m) \/ Hit(m) \/ Mshr(m)

\* The request that opened an entry of an L1's MSHRs is still under way, and the
\* one that opened an entry of the L2's is in the DRAM.
L1EntryInv ==
  \A c \in SMs : \A a \in Sectors : \A m \in Fetches :
    probe(l1_mshr[c], a) /\ m = Head(l1_mshr[c][a]) =>
      Miss(m) \/ Up(m) \/ L2In(m) \/ L2Mshr(m) \/ L2Hit(m) \/ Down(m)

L2EntryInv ==
  \A a \in Sectors : \A m \in Fetches : probe(l2_mshr, a) /\ m = Head(l2_mshr[a]) => Dram(m)

Inv == /\ CyclesOK /\ PlaceInv /\ OnceInv /\ WriteInv /\ LoadInv /\ WaitInv /\ PendInv
       /\ L1EntryInv /\ L2EntryInv /\ NoReplyFault
-----------------------------------------------------------------------------
(* Queues.                                                                  *)

LEMMA PopFacts ==
  ASSUME NEW S, NEW q \in Seq(S), q # <<>>
  PROVE  /\ Head(q) \in S /\ Head(q) \in ToSet(q)
         /\ Tail(q) \in Seq(S) /\ Len(Tail(q)) <= Len(q)
         /\ ToSet(Tail(q)) \subseteq ToSet(q)
         /\ \A m \in ToSet(q) : m = Head(q) \/ m \in ToSet(Tail(q))
         /\ \A T : Once(q, T) => Once(Tail(q), T) /\ (Head(q) \in T => Head(q) \notin ToSet(Tail(q)))
<1>1. /\ Len(q) \in Nat \ {0} /\ DOMAIN q = 1 .. Len(q) /\ Head(q) = q[1] /\ Head(q) \in S
      /\ Tail(q) \in Seq(S) /\ Len(Tail(q)) = Len(q) - 1
      /\ DOMAIN Tail(q) = 1 .. (Len(q) - 1)
      /\ \A i \in 1 .. (Len(q) - 1) : Tail(q)[i] = q[i + 1]
  OBVIOUS
<1>. DEFINE t == Tail(q)
<1>. HIDE DEF t
<1>2. /\ \A i \in DOMAIN t : i + 1 \in DOMAIN q /\ t[i] = q[i + 1] /\ i \in Nat /\ i + 1 # 1
      /\ \A i \in DOMAIN q : i = 1 \/ (i - 1 \in DOMAIN t /\ t[i - 1] = q[i])
      /\ 1 \in DOMAIN q
  <2>1. /\ Len(q) \in Nat \ {0} /\ DOMAIN q = 1 .. Len(q) /\ DOMAIN t = 1 .. (Len(q) - 1)
        /\ \A i \in 1 .. (Len(q) - 1) : t[i] = q[i + 1]
    BY <1>1 DEF t
  <2>2. \A i \in DOMAIN t : i + 1 \in DOMAIN q /\ t[i] = q[i + 1] /\ i \in Nat /\ i + 1 # 1
    BY <2>1
  <2>3. ASSUME NEW i \in DOMAIN q, i # 1 PROVE i - 1 \in DOMAIN t /\ t[i - 1] = q[i]
    <3>1. i - 1 \in 1 .. (Len(q) - 1) /\ (i - 1) + 1 = i
      BY <2>1, <2>3
    <3>. QED
      BY <2>1, <3>1
  <2>. QED
    BY <2>1, <2>2, <2>3
<1>3. ToSet(t) \subseteq ToSet(q) /\ Head(q) \in ToSet(q) /\ \A m \in ToSet(q) : m = Head(q) \/ m \in ToSet(t)
  <2>1. Head(q) = q[1]
    BY <1>1
  <2>2. ToSet(t) \subseteq ToSet(q) /\ Head(q) \in ToSet(q)
    BY <1>2, <2>1 DEF ToSet
  <2>3. ASSUME NEW i \in DOMAIN q PROVE q[i] = Head(q) \/ q[i] \in ToSet(t)
    BY <1>2, <2>1, <2>3 DEF ToSet
  <2>. QED
    BY <2>2, <2>3 DEF ToSet
<1>4. ASSUME NEW T, Once(q, T)
      PROVE  Once(t, T) /\ (Head(q) \in T => Head(q) \notin ToSet(t))
  <2>1. \A i, j \in DOMAIN t : t[i] = t[j] /\ t[i] \in T => i = j
    <3>. SUFFICES ASSUME NEW i \in DOMAIN t, NEW j \in DOMAIN t, t[i] = t[j], t[i] \in T
                  PROVE  i = j
      OBVIOUS
    <3>1. i + 1 = j + 1
      BY <1>2, <1>4 DEF Once
    <3>. QED
      BY <1>2, <3>1
  <2>2. Head(q) \in T => \A i \in DOMAIN t : t[i] # q[1]
    BY <1>1, <1>2, <1>4 DEF Once
  <2>. QED
    BY <1>1, <2>1, <2>2 DEF Once, ToSet
<1>5. Len(Tail(q)) <= Len(q)
  BY <1>1
<1>. QED
  BY <1>1, <1>3, <1>4, <1>5 DEF t

LEMMA PushFacts ==
  ASSUME NEW S, NEW q \in Seq(S), NEW x \in S
  PROVE  /\ Append(q, x) \in Seq(S) /\ Append(q, x) # <<>> /\ Len(Append(q, x)) = Len(q) + 1
         /\ ToSet(Append(q, x)) = ToSet(q) \cup {x}
         /\ q # <<>> => Head(Append(q, x)) = Head(q)
         /\ q = <<>> => Head(Append(q, x)) = x
         /\ \A T : Once(q, T) /\ (x \in T => x \notin ToSet(q)) => Once(Append(q, x), T)
<1>. DEFINE p == Append(q, x)
<1>1. /\ Len(q) \in Nat /\ DOMAIN q = 1 .. Len(q) /\ DOMAIN p = 1 .. (Len(q) + 1)
      /\ p \in Seq(S) /\ Len(p) = Len(q) + 1 /\ p # <<>>
      /\ q # <<>> => Head(p) = Head(q)
      /\ q = <<>> => Head(p) = x
      /\ \A i \in 1 .. Len(q) : p[i] = q[i]
      /\ p[Len(q) + 1] = x
  OBVIOUS
<1>. HIDE DEF p
<1>2. \A i \in DOMAIN p : (i \in DOMAIN q /\ p[i] = q[i]) \/ (i = Len(q) + 1 /\ p[i] = x)
  BY <1>1
<1>3. ToSet(p) = ToSet(q) \cup {x}
  <2>1. DOMAIN q \subseteq DOMAIN p /\ Len(q) + 1 \in DOMAIN p
    BY <1>1
  <2>. QED
    BY <1>1, <1>2, <2>1 DEF ToSet
<1>4. ASSUME NEW T, Once(q, T), x \in T => x \notin ToSet(q)
      PROVE  Once(p, T)
  <2>1. x \in T => \A i \in DOMAIN q : q[i] # x
    BY <1>4 DEF ToSet
  <2>. QED
    BY <1>2, <1>4, <2>1 DEF Once
<1>. QED
  BY <1>1, <1>3, <1>4 DEF p

LEMMA ConcatFacts ==
  ASSUME NEW S, NEW p \in Seq(S), NEW q \in Seq(S)
  PROVE  /\ p \o q \in Seq(S)
         /\ ToSet(p \o q) = ToSet(p) \cup ToSet(q)
         /\ \A T : /\ Once(p, T) /\ Once(q, T)
                   /\ \A m \in ToSet(p) \cap ToSet(q) : m \notin T
                   => Once(p \o q, T)
<1>. DEFINE r == p \o q
            k == Len(p)
<1>1. /\ k \in Nat /\ Len(q) \in Nat /\ DOMAIN p = 1 .. k /\ DOMAIN q = 1 .. Len(q)
      /\ r \in Seq(S) /\ DOMAIN r = 1 .. (k + Len(q))
      /\ \A i \in 1 .. (k + Len(q)) : r[i] = IF i <= k THEN p[i] ELSE q[i - k]
  OBVIOUS
<1>. HIDE DEF r, k
<1>2. \A i \in DOMAIN r : \/ i \in DOMAIN p /\ r[i] = p[i]
                          \/ i - k \in DOMAIN q /\ r[i] = q[i - k]
  BY <1>1
<1>3. /\ \A i \in DOMAIN p : i \in DOMAIN r /\ r[i] = p[i]
      /\ \A i \in DOMAIN q : i + k \in DOMAIN r /\ r[i + k] = q[i]
  <2>1. \A i \in DOMAIN q : i + k \in DOMAIN r /\ ~(i + k <= k) /\ (i + k) - k = i
    BY <1>1
  <2>. QED
    BY <1>1, <2>1
<1>4. ToSet(r) = ToSet(p) \cup ToSet(q)
  BY <1>2, <1>3 DEF ToSet
<1>5. ASSUME NEW T, Once(p, T), Once(q, T), \A m \in ToSet(p) \cap ToSet(q) : m \notin T
      PROVE  Once(r, T)
  <2>1. SUFFICES ASSUME NEW i \in DOMAIN r, NEW j \in DOMAIN r, r[i] = r[j], r[i] \in T
                 PROVE  i = j
    BY DEF Once
  <2>2. i \in Int /\ j \in Int
    BY <1>1
  <2>3. \A x \in DOMAIN p, y \in DOMAIN q : p[x] = q[y] => p[x] \notin T
    BY <1>5 DEF ToSet
  <2>4. CASE i \in DOMAIN p /\ r[i] = p[i] /\ j \in DOMAIN p /\ r[j] = p[j]
    BY <1>5, <2>1, <2>4 DEF Once
  <2>5. CASE i - k \in DOMAIN q /\ r[i] = q[i - k] /\ j - k \in DOMAIN q /\ r[j] = q[j - k]
    <3>1. i - k = j - k
      BY <1>5, <2>1, <2>5 DEF Once
    <3>. QED
      BY <1>1, <2>2, <3>1
  <2>. QED
    BY <1>2, <2>1, <2>3, <2>4, <2>5
<1>. QED
  BY <1>1, <1>4, <1>5 DEF r

\* How many members of S are not greater than k.
Rank(S, k) == Cardinality({j \in S : j <= k})

\* Counting the members of a set of numbers in their order numbers them from 1
\* to the size of the set.
LEMMA RankCounts ==
  ASSUME NEW n \in Nat, NEW S \in SUBSET (1 .. n)
  PROVE  /\ IsFiniteSet(S) /\ Cardinality(S) \in Nat
         /\ \A k \in S : Rank(S, k) \in 1 .. Cardinality(S)
         /\ \A k, l \in S : k < l => Rank(S, k) < Rank(S, l)
         /\ \A i \in 1 .. Cardinality(S) : \E k \in S : Rank(S, k) = i
<1>. DEFINE Upto(k) == {j \in S : j <= k}
            N == Cardinality(S)
<1>1. IsFiniteSet(S) /\ N \in Nat
  <2>1. IsFiniteSet(1 .. n)
    BY FS_Interval
  <2>. QED
    BY <2>1, FS_Subset, FS_CardinalityType
<1>2. \A k \in S : IsFiniteSet(Upto(k)) /\ Cardinality(Upto(k)) \in Nat /\ Cardinality(Upto(k)) <= N
  <2>. TAKE k \in S
  <2>1. Upto(k) \in SUBSET S
    OBVIOUS
  <2>. HIDE DEF Upto
  <2>. QED
    BY <1>1, <2>1, FS_Subset, FS_CardinalityType
<1>3. \A k \in S : Cardinality(Upto(k)) # 0
  <2>. TAKE k \in S
  <2>1. k \in Upto(k)
    OBVIOUS
  <2>. HIDE DEF Upto
  <2>. QED
    BY <1>2, <2>1, FS_EmptySet
<1>4. \A k, l \in S : k < l => Cardinality(Upto(k)) < Cardinality(Upto(l))
  <2>. SUFFICES ASSUME NEW k \in S, NEW l \in S, k < l
                PROVE  Cardinality(Upto(k)) < Cardinality(Upto(l))
    OBVIOUS
  <2>0. \A j \in S : j <= k => j <= l
    OBVIOUS
  <2>1. Upto(k) \in SUBSET Upto(l) /\ l \in Upto(l) /\ l \notin Upto(k)
    <3>1. Upto(k) \in SUBSET Upto(l)
      BY <2>0
    <3>2. l <= l /\ ~(l <= k)
      OBVIOUS
    <3>. QED
      BY <3>1, <3>2
  <2>2. Upto(k) # Upto(l)
    BY <2>1
  <2>. HIDE DEF Upto
  <2>3. IsFiniteSet(Upto(l)) /\ Cardinality(Upto(l)) \in Nat /\ Cardinality(Upto(k)) \in Nat
    BY <1>2
  <2>4. Cardinality(Upto(k)) <= Cardinality(Upto(l)) /\ Cardinality(Upto(k)) # Cardinality(Upto(l))
    BY <2>1, <2>2, <2>3, FS_Subset
  <2>. QED
    BY <2>3, <2>4
<1>5. \A i \in 1 .. N : \E k \in S : Cardinality(Upto(k)) = i
  <2>. DEFINE f == [k \in S |-> Cardinality(Upto(k))]
  <2>. HIDE DEF Upto
  <2>1. f \in [S -> 1 .. N]
    <3>1. \A k \in S : Cardinality(Upto(k)) \in 1 .. N
      BY <1>1, <1>2, <1>3
    <3>. QED
      BY <3>1
  <2>2. f \in Injection(S, 1 .. N)
    <3>1. \A k, l \in S : f[k] = f[l] => k = l
      <4>1. \A k, l \in S : k < l => f[k] < f[l]
        BY <1>4
      <4>2. \A k \in S : k \in Nat /\ f[k] \in Nat
        BY <2>1
      <4>. HIDE DEF f
      <4>. QED
        BY <4>1, <4>2
    <3>. QED
      BY <2>1, <3>1 DEF Injection, IsInjective
  <2>3. IsFiniteSet(1 .. N) /\ Cardinality(1 .. N) = N
    BY <1>1, FS_Interval
  <2>4. f \in Surjection(S, 1 .. N)
    BY <2>2, <2>3, FS_Injection
  <2>. QED
    BY <2>4 DEF Surjection
<1>. QED
  BY <1>1, <1>2, <1>3, <1>4, <1>5 DEF Rank

\* The replies to an SM are those of the replies that belong to it.
LEMMA RepliesFacts ==
  ASSUME NEW c \in SMs, NEW q \in Seq(Fetches)
  PROVE  /\ RepliesTo(c, q) \in Seq(Fetches)
         /\ ToSet(RepliesTo(c, q)) = {m \in ToSet(q) : Home(m) = c}
         /\ \A T : Once(q, T) => Once(RepliesTo(c, q), T)
<1>. DEFINE I == {i \in DOMAIN q : Home(q[i]) = c}
            nth(k) == CHOOSE i \in I : Cardinality({j \in I : j <= i}) = k
            N == Cardinality(I)
            r == RepliesTo(c, q)
<1>1. Len(q) \in Nat /\ DOMAIN q = 1 .. Len(q) /\ I \in SUBSET (1 .. Len(q))
      /\ \A i \in I : i \in DOMAIN q /\ q[i] \in Fetches /\ Home(q[i]) = c
  OBVIOUS
<1>2. r = [k \in 1 .. N |-> q[nth(k)]]
  BY DEF RepliesTo
<1>3. \A k : nth(k) = CHOOSE i \in I : Rank(I, i) = k
  BY DEF Rank
<1>4. \A i \in DOMAIN q : i \in I <=> Home(q[i]) = c
  OBVIOUS
<1>. HIDE DEF I, nth
<1>5. /\ N \in Nat
      /\ \A i \in I : Rank(I, i) \in 1 .. N
      /\ \A i, j \in I : i < j => Rank(I, i) < Rank(I, j)
      /\ \A k \in 1 .. N : \E i \in I : Rank(I, i) = k
  BY <1>1, RankCounts
<1>6. \A i, j \in I : Rank(I, i) = Rank(I, j) => i = j
  <2>1. \A i, j \in I : i \in Nat /\ j \in Nat /\ Rank(I, i) \in Nat /\ Rank(I, j) \in Nat
    BY <1>1, <1>5
  <2>. QED
    BY <1>5, <2>1
<1>7. \A k \in 1 .. N : nth(k) \in I /\ Rank(I, nth(k)) = k
  BY <1>3, <1>5
<1>8. \A i \in I : nth(Rank(I, i)) = i
  BY <1>5, <1>6, <1>7
<1>9. DOMAIN r = 1 .. N /\ \A k \in 1 .. N : r[k] = q[nth(k)]
  BY <1>2
<1>10. r \in Seq(Fetches)
  <2>1. \A k \in 1 .. N : q[nth(k)] \in Fetches
    BY <1>1, <1>7
  <2>2. r \in [1 .. N -> Fetches]
    BY <1>2, <2>1
  <2>. HIDE DEF r, N
  <2>. QED
    BY <1>5, <2>2
<1>. HIDE DEF r, N
<1>11. ToSet(r) = {m \in ToSet(q) : Home(m) = c}
  <2>1. \A m \in ToSet(r) : m \in ToSet(q) /\ Home(m) = c
    BY <1>1, <1>7, <1>9 DEF ToSet
  <2>2. ASSUME NEW m \in ToSet(q), Home(m) = c
        PROVE  m \in ToSet(r)
    <3>1. PICK i \in DOMAIN q : q[i] = m
      BY DEF ToSet
    <3>2. i \in I
      BY <1>4, <2>2, <3>1
    <3>3. Rank(I, i) \in DOMAIN r /\ r[Rank(I, i)] = m
      BY <1>5, <1>8, <1>9, <3>1, <3>2
    <3>. QED
      BY <3>3 DEF ToSet
  <2>. QED
    BY <2>1, <2>2
<1>12. ASSUME NEW T, Once(q, T)
       PROVE  Once(r, T)
  <2>1. SUFFICES ASSUME NEW k \in 1 .. N, NEW l \in 1 .. N, r[k] = r[l], r[k] \in T
                 PROVE  k = l
    BY <1>9 DEF Once
  <2>2. nth(k) = nth(l)
    BY <1>1, <1>7, <1>9, <1>12, <2>1 DEF Once
  <2>. QED
    BY <1>7, <2>2
<1>. QED
  BY <1>10, <1>11, <1>12 DEF r

\* The same for the queues that every SM has: g is what is left of the queues f
\* when h leaves that of c, or joins it.
Popped(f, g, c, h, T) ==
  /\ g \in [SMs -> Seq(Fetches)]
  /\ h \in Fetches /\ h \in ToSet(f[c])
  /\ \A d \in SMs : ToSet(g[d]) \subseteq ToSet(f[d]) /\ Len(g[d]) <= Len(f[d])
  /\ \A d \in SMs : \A m \in ToSet(f[d]) : m \in ToSet(g[d]) \/ (d = c /\ m = h)
  /\ (\A d \in SMs : Once(f[d], T)) => /\ \A d \in SMs : Once(g[d], T)
                                       /\ h \in T => h \notin ToSet(g[c])

Pushed(f, g, c, h, T) ==
  /\ g \in [SMs -> Seq(Fetches)]
  /\ \A d \in SMs : \A m : m \in ToSet(g[d]) <=> m \in ToSet(f[d]) \/ (d = c /\ m = h)
  /\ \A d \in SMs : Len(g[d]) = IF d = c THEN Len(f[d]) + 1 ELSE Len(f[d])
  /\ (\A d \in SMs : Once(f[d], T)) /\ (h \in T => h \notin ToSet(f[c])) => \A d \in SMs : Once(g[d], T)

LEMMA PopQueue ==
  ASSUME NEW f \in [SMs -> Seq(Fetches)], NEW c \in SMs, f[c] # <<>>,
         NEW g, g = [f EXCEPT ![c] = Tail(f[c])], NEW T
  PROVE  Popped(f, g, c, Head(f[c]), T)
<1>. DEFINE h == Head(f[c])
<1>1. f[c] \in Seq(Fetches) /\ \A d \in SMs : Len(f[d]) \in Nat
  OBVIOUS
<1>2. /\ h \in Fetches /\ h \in ToSet(f[c])
      /\ Tail(f[c]) \in Seq(Fetches) /\ Len(Tail(f[c])) <= Len(f[c])
      /\ ToSet(Tail(f[c])) \subseteq ToSet(f[c])
      /\ \A m \in ToSet(f[c]) : m = h \/ m \in ToSet(Tail(f[c]))
      /\ Once(f[c], T) => Once(Tail(f[c]), T) /\ (h \in T => h \notin ToSet(Tail(f[c])))
  BY <1>1, PopFacts
<1>. HIDE DEF h
<1>3. g \in [SMs -> Seq(Fetches)] /\ \A d \in SMs : g[d] = IF d = c THEN Tail(f[c]) ELSE f[d]
  BY <1>2
<1>4. \A d \in SMs : Len(g[d]) <= Len(f[d])
  BY <1>1, <1>2, <1>3
<1>. QED
  BY <1>2, <1>3, <1>4 DEF h, Popped

LEMMA PushQueue ==
  ASSUME NEW f \in [SMs -> Seq(Fetches)], NEW c \in SMs, NEW h \in Fetches,
         NEW g, g = [f EXCEPT ![c] = Append(f[c], h)], NEW T
  PROVE  Pushed(f, g, c, h, T)
<1>1. f[c] \in Seq(Fetches)
  OBVIOUS
<1>2. /\ Append(f[c], h) \in Seq(Fetches) /\ Len(Append(f[c], h)) = Len(f[c]) + 1
      /\ ToSet(Append(f[c], h)) = ToSet(f[c]) \cup {h}
      /\ Once(f[c], T) /\ (h \in T => h \notin ToSet(f[c])) => Once(Append(f[c], h), T)
  BY <1>1, PushFacts
<1>3. g \in [SMs -> Seq(Fetches)] /\ \A d \in SMs : g[d] = IF d = c THEN Append(f[c], h) ELSE f[d]
  BY <1>2
<1>. QED
  BY <1>2, <1>3 DEF Pushed

LEMMA FetchFacts ==
  ASSUME CyclesOK
  PROVE  \A m \in Fetches : Home(m) \in SMs /\ Sector(m) \in Sectors /\ Req(m) \in Reqs
BY DEF CyclesOK, Fetches, Home, Sector, Req

\* A place that no step touches keeps its mem_fetches.
LEMMA PlacesStay ==
  ASSUME UNCHANGED <<sm, kind, addr>>
  PROVE  /\ \A m : Home(m)' = Home(m) /\ Sector(m)' = Sector(m)
         /\ \A r : Self(r)' = Self(r)
         /\ UNCHANGED <<unsent, sm_to_l1>> => \A m : New(m)' <=> New(m)
         /\ UNCHANGED sm_to_l1 => \A m : Bank(m)' <=> Bank(m)
         /\ UNCHANGED l1_to_sm => \A m : Hit(m)' <=> Hit(m)
         /\ UNCHANGED l1_mshr => \A m : Mshr(m)' <=> Mshr(m)
         /\ UNCHANGED miss_queue => \A m : Miss(m)' <=> Miss(m)
         /\ UNCHANGED up => \A m : Up(m)' <=> Up(m)
         /\ UNCHANGED l1_to_l2 => \A m : L2In(m)' <=> L2In(m)
         /\ UNCHANGED l2_mshr => \A m : L2Mshr(m)' <=> L2Mshr(m)
         /\ UNCHANGED l2_to_sms => \A m : L2Hit(m)' <=> L2Hit(m)
         /\ UNCHANGED dram => \A m : Dram(m)' <=> Dram(m)
         /\ UNCHANGED down => \A m : Down(m)' <=> Down(m)
<1>1. \A m : Home(m)' = Home(m) /\ Sector(m)' = Sector(m)
  BY DEF Home, Sector
<1>2. \A r : Self(r)' = Self(r)
  BY DEF Self
<1>3. UNCHANGED <<unsent, sm_to_l1>> => \A m : New(m)' <=> New(m)
  BY <1>1, <1>2 DEF New
<1>4. UNCHANGED sm_to_l1 => \A m : Bank(m)' <=> Bank(m)
  BY <1>1 DEF Bank
<1>5. UNCHANGED l1_to_sm => \A m : Hit(m)' <=> Hit(m)
  BY <1>1 DEF Hit
<1>6. UNCHANGED l1_mshr => \A m : Mshr(m)' <=> Mshr(m)
  BY <1>1 DEF Mshr
<1>7. UNCHANGED miss_queue => \A m : Miss(m)' <=> Miss(m)
  BY <1>1 DEF Miss
<1>8. UNCHANGED up => \A m : Up(m)' <=> Up(m)
  BY <1>1 DEF Up
<1>9. UNCHANGED l2_mshr => \A m : L2Mshr(m)' <=> L2Mshr(m)
  BY <1>1 DEF L2Mshr
<1>10. UNCHANGED down => \A m : Down(m)' <=> Down(m)
  BY <1>1 DEF Down
<1>11. /\ UNCHANGED l1_to_l2 => \A m : L2In(m)' <=> L2In(m)
       /\ UNCHANGED l2_to_sms => \A m : L2Hit(m)' <=> L2Hit(m)
       /\ UNCHANGED dram => \A m : Dram(m)' <=> Dram(m)
  BY DEF L2In, L2Hit, Dram
<1>. QED
  BY <1>1, <1>2, <1>3, <1>4, <1>5, <1>6, <1>7, <1>8, <1>9, <1>10, <1>11
-----------------------------------------------------------------------------
(* Limits.                                                                  *)

LEMMA FillFacts ==
  ASSUME NEW S \in SUBSET Sectors, NEW a \in Sectors, NEW lines \in Nat, Cardinality(S) <= lines,
         NEW R \in Filled(S, a, lines)
  PROVE  R \in SUBSET Sectors /\ Cardinality(R) <= lines
<1>1. IsFiniteSet(S) /\ Cardinality(S) \in Nat
  BY MemPathAssumption, FS_Subset, FS_CardinalityType
<1>2. CASE R = S
  BY <1>2
<1>3. CASE a \notin S /\ \E v \in S : R = (S \ {v}) \cup {a}
  <2>1. PICK v \in S : R = (S \ {v}) \cup {a}
    BY <1>3
  <2>2. IsFiniteSet(S \ {v}) /\ Cardinality(S \ {v}) = Cardinality(S) - 1
    BY <1>1, FS_RemoveElement
  <2>3. Cardinality((S \ {v}) \cup {a}) = Cardinality(S \ {v}) + 1
    BY <1>3, <2>2, FS_AddElement
  <2>. QED
    BY <1>1, <2>1, <2>2, <2>3
<1>4. CASE a \notin S /\ Cardinality(S) < lines /\ R = S \cup {a}
  <2>1. Cardinality(S \cup {a}) = Cardinality(S) + 1
    BY <1>1, <1>4, FS_AddElement
  <2>. QED
    BY <1>1, <1>4, <2>1
<1>. QED
  BY <1>2, <1>3, <1>4 DEF Filled

\* The entries of an MSHR table.
Entries(t) == {a \in Sectors : probe(t, a)}

Limited(t, entries, merge) ==
  /\ \A a \in Sectors : Len(t[a]) <= merge
  /\ Cardinality(Entries(t)) <= entries

LEMMA ClearFacts ==
  ASSUME NEW t \in [Sectors -> Seq(Fetches)], NEW a \in Sectors, NEW entries \in Nat, NEW merge \in Nat,
         Limited(t, entries, merge), NEW u, u = [t EXCEPT ![a] = <<>>]
  PROVE  u \in [Sectors -> Seq(Fetches)] /\ Limited(u, entries, merge)
<1>1. u \in [Sectors -> Seq(Fetches)] /\ \A b \in Sectors : u[b] = IF b = a THEN <<>> ELSE t[b]
  OBVIOUS
<1>2. \A b \in Sectors : Len(u[b]) <= merge
  BY <1>1 DEF Limited
<1>3. Entries(u) \in SUBSET Entries(t)
  BY <1>1 DEF Entries, probe
<1>4. IsFiniteSet(Entries(t))
  BY MemPathAssumption, FS_Subset DEF Entries
<1>5. Cardinality(Entries(u)) <= Cardinality(Entries(t)) /\ Cardinality(Entries(u)) \in Nat /\ Cardinality(Entries(t)) \in Nat
  BY <1>3, <1>4, FS_Subset, FS_CardinalityType
<1>. QED
  BY <1>1, <1>2, <1>5 DEF Limited

LEMMA MergeFacts ==
  ASSUME NEW t \in [Sectors -> Seq(Fetches)], NEW a \in Sectors, NEW entries \in Nat, NEW merge \in Nat,
         merge # 0, Limited(t, entries, merge), ~full(t, a, entries, merge),
         NEW m \in Fetches, NEW u, u = [t EXCEPT ![a] = Append(t[a], m)]
  PROVE  u \in [Sectors -> Seq(Fetches)] /\ Limited(u, entries, merge)
<1>0. t[a] \in Seq(Fetches) /\ Len(t[a]) \in Nat /\ (t[a] = <<>> => Len(t[a]) = 0)
  OBVIOUS
<1>1. /\ Append(t[a], m) \in Seq(Fetches) /\ Append(t[a], m) # <<>>
      /\ Len(Append(t[a], m)) = Len(t[a]) + 1
  BY <1>0, PushFacts
<1>2. u \in [Sectors -> Seq(Fetches)] /\ \A b \in Sectors : u[b] = IF b = a THEN Append(t[a], m) ELSE t[b]
  BY <1>1
<1>3. \A b \in Sectors : Len(u[b]) <= merge
  <2>1. Len(t[a]) < merge
    BY <1>0 DEF full, probe
  <2>. QED
    BY <1>0, <1>1, <1>2, <2>1 DEF Limited
<1>4. Entries(u) = Entries(t) \cup {a}
  BY <1>1, <1>2 DEF Entries, probe
<1>5. IsFiniteSet(Entries(t)) /\ Cardinality(Entries(t)) \in Nat
  BY MemPathAssumption, FS_Subset, FS_CardinalityType DEF Entries
<1>6. CASE probe(t, a)
  <2>1. Entries(u) = Entries(t)
    BY <1>4, <1>6 DEF Entries
  <2>. QED
    BY <1>2, <1>3, <2>1 DEF Limited
<1>7. CASE ~probe(t, a)
  <2>1. a \notin Entries(t) /\ Cardinality(Entries(t)) < entries
    BY <1>5, <1>7 DEF Entries, full
  <2>2. Cardinality(Entries(t) \cup {a}) = Cardinality(Entries(t)) + 1
    BY <1>5, <2>1, FS_AddElement
  <2>3. Cardinality(Entries(t)) + 1 <= entries
    BY <1>5, <2>1
  <2>4. Cardinality(Entries(u)) <= entries
    BY <1>4, <2>2, <2>3
  <2>. QED
    BY <1>2, <1>3, <2>4 DEF Limited
<1>. QED
  BY <1>6, <1>7

LEMMA LimitsAre ==
  WithinLimits <=> /\ \A c \in SMs : /\ Limited(l1_mshr[c], L1Entries, L1Merge)
                                     /\ Len(up[c]) <= InBufferLimit
                                     /\ Cardinality(l1[c]) <= L1Lines
                   /\ Limited(l2_mshr, L2Entries, L2Merge)
                   /\ Cardinality(l2) <= L2Lines
BY DEF WithinLimits, Limited, Entries
-----------------------------------------------------------------------------
(* From the L1 to the L2.                                                   *)

LEMMA SendMissStep ==
  ASSUME Inv, NEW c \in SMs, SendMiss(c)
  PROVE  Inv'
<1>. DEFINE h == Head(miss_queue[c])
<1>0. CyclesOK /\ PlaceInv /\ OnceInv /\ WriteInv /\ LoadInv /\ WaitInv /\ PendInv /\ L1EntryInv /\ L2EntryInv /\ NoReplyFault
  BY DEF Inv
<1>u. UNCHANGED <<sm, kind, addr, unsent, pending, sm_to_l1, l1, l1_mshr, l1_to_sm, down, l1_to_l2, l2, l2_mshr,
                  l2_to_sms, dram, deleted, retired, fault>>
  BY DEF SendMiss, l2Vars
<1>t. \A m \in Fetches : Home(m) \in SMs /\ Sector(m) \in Sectors /\ Req(m) \in Reqs
  BY <1>0, FetchFacts
<1>1. /\ miss_queue \in [SMs -> Seq(Fetches)] /\ miss_queue[c] # <<>>
      /\ up \in [SMs -> Seq(Fetches)] /\ Len(up[c]) < InBufferLimit
      /\ miss_queue' = [miss_queue EXCEPT ![c] = Tail(miss_queue[c])]
      /\ up' = [up EXCEPT ![c] = Append(up[c], h)]
  BY <1>0 DEF CyclesOK, SendMiss
<1>2. /\ miss_queue' \in [SMs -> Seq(Fetches)]
      /\ h \in Fetches /\ h \in ToSet(miss_queue[c])
      /\ \A d \in SMs : ToSet(miss_queue'[d]) \subseteq ToSet(miss_queue[d])
      /\ \A d \in SMs : \A m \in ToSet(miss_queue[d]) : m \in ToSet(miss_queue'[d]) \/ (d = c /\ m = h)
      /\ \A d \in SMs : Once(miss_queue'[d], Writes)
      /\ h \in Writes => h \notin ToSet(miss_queue'[c])
  <2>1. \A d \in SMs : Once(miss_queue[d], Writes)
    BY <1>0 DEF OnceInv
  <2>2. Popped(miss_queue, miss_queue', c, h, Writes)
    BY <1>1, PopQueue
  <2>. QED
    BY <1>1, <2>1, <2>2 DEF Popped
<1>. HIDE DEF h
<1>3. Home(h) = c /\ (needs_reply(h) => h = Self(Req(h))) /\ Miss(h)
  BY <1>0, <1>2 DEF PlaceInv, Miss
<1>4. /\ up' \in [SMs -> Seq(Fetches)]
      /\ \A d \in SMs : \A m : m \in ToSet(up'[d]) <=> m \in ToSet(up[d]) \/ (d = c /\ m = h)
      /\ \A d \in SMs : Len(up'[d]) = IF d = c THEN Len(up[d]) + 1 ELSE Len(up[d])
      /\ \A d \in SMs : Once(up'[d], Writes)
  <2>1. h \in Writes => h \notin ToSet(up[c])
    BY <1>0, <1>3 DEF WriteInv, Up
  <2>2. \A d \in SMs : Once(up[d], Writes)
    BY <1>0 DEF OnceInv
  <2>3. Pushed(up, up', c, h, Writes)
    BY <1>1, <1>2, PushQueue
  <2>. QED
    BY <2>1, <2>2, <2>3 DEF Pushed
<1>5. \A m \in Fetches : /\ New(m)' <=> New(m)
                         /\ Bank(m)' <=> Bank(m)
                         /\ Hit(m)' <=> Hit(m)
                         /\ Mshr(m)' <=> Mshr(m)
                         /\ Miss(m)' => Miss(m) /\ (m \in Writes => m # h)
                         /\ Miss(m) => Miss(m)' \/ m = h
                         /\ Up(m)' <=> Up(m) \/ m = h
                         /\ L2In(m)' <=> L2In(m)
                         /\ L2Mshr(m)' <=> L2Mshr(m)
                         /\ L2Hit(m)' <=> L2Hit(m)
                         /\ Dram(m)' <=> Dram(m)
                         /\ Down(m)' <=> Down(m)
  <2>1. \A m : Home(m)' = Home(m) /\ Sector(m)' = Sector(m)
    BY <1>u, PlacesStay
  <2>2. \A m \in Fetches : /\ Miss(m)' => Miss(m) /\ (m \in Writes => m # h)
                           /\ Miss(m) => Miss(m)' \/ m = h
    BY <1>t, <1>2, <1>3, <2>1 DEF Miss
  <2>3. \A m \in Fetches : Up(m)' <=> Up(m) \/ m = h
    BY <1>t, <1>3, <1>4, <2>1 DEF Up
  <2>. QED
    BY <1>u, <2>2, <2>3, PlacesStay
<1>6. CyclesOK'
  <2>0. InBufferLimit \in Nat
    BY MemPathAssumption
  <2>w. WithinLimits
    BY <1>0 DEF CyclesOK
  <2>1. Len(up[c]) \in Nat /\ \A d \in SMs : Len(up[d]) <= InBufferLimit
    <3>1. Len(up[c]) \in Nat
      BY <1>1
    <3>. QED
      BY <2>w, <3>1 DEF WithinLimits
  <2>2. \A d \in SMs : Len(up'[d]) <= InBufferLimit
    BY <1>1, <1>4, <2>0, <2>1
  <2>3. WithinLimits'
    BY <2>w, <1>u, <2>2 DEF WithinLimits, probe
  <2>. QED
    BY <1>0, <1>u, <1>2, <1>4, <2>3 DEF CyclesOK
<1>7. PlaceInv'
  BY <1>0, <1>u, <1>2, <1>3, <1>4, PlacesStay DEF PlaceInv
<1>8. OnceInv'
  BY <1>0, <1>u, <1>2, <1>4 DEF OnceInv
<1>9. WriteInv' /\ LoadInv' /\ WaitInv'
  BY <1>0, <1>u, <1>2, <1>3, <1>5 DEF WriteInv, LoadInv, WaitInv, Writes
<1>10. PendInv'
  BY <1>0, <1>u, <1>5, PlacesStay DEF PendInv
<1>11. L1EntryInv' /\ L2EntryInv' /\ NoReplyFault'
  BY <1>0, <1>u, <1>5 DEF L1EntryInv, L2EntryInv, NoReplyFault, probe
<1>. QED
  BY <1>6, <1>7, <1>8, <1>9, <1>10, <1>11 DEF Inv

LEMMA L2ReceiveStep ==
  ASSUME Inv, NEW c \in SMs, L2Receive(c)
  PROVE  Inv'
<1>. DEFINE h == Head(up[c])
<1>0. CyclesOK /\ PlaceInv /\ OnceInv /\ WriteInv /\ LoadInv /\ WaitInv /\ PendInv /\ L1EntryInv /\ L2EntryInv /\ NoReplyFault
  BY DEF Inv
<1>u. UNCHANGED <<sm, kind, addr, unsent, pending, sm_to_l1, l1, l1_mshr, miss_queue, l1_to_sm, down, l2, l2_mshr,
                  l2_to_sms, dram, deleted, retired, fault>>
  BY DEF L2Receive, l1Vars
<1>t. \A m \in Fetches : Home(m) \in SMs /\ Sector(m) \in Sectors /\ Req(m) \in Reqs
  BY <1>0, FetchFacts
<1>1. /\ up \in [SMs -> Seq(Fetches)] /\ up[c] # <<>>
      /\ l1_to_l2 \in Seq(Fetches)
      /\ up' = [up EXCEPT ![c] = Tail(up[c])]
      /\ l1_to_l2' = Append(l1_to_l2, h)
  BY <1>0 DEF CyclesOK, L2Receive
<1>2. /\ up' \in [SMs -> Seq(Fetches)]
      /\ h \in Fetches /\ h \in ToSet(up[c])
      /\ \A d \in SMs : ToSet(up'[d]) \subseteq ToSet(up[d]) /\ Len(up'[d]) <= Len(up[d])
      /\ \A d \in SMs : \A m \in ToSet(up[d]) : m \in ToSet(up'[d]) \/ (d = c /\ m = h)
      /\ \A d \in SMs : Once(up'[d], Writes)
      /\ h \in Writes => h \notin ToSet(up'[c])
  <2>1. \A d \in SMs : Once(up[d], Writes)
    BY <1>0 DEF OnceInv
  <2>2. Popped(up, up', c, h, Writes)
    BY <1>1, PopQueue
  <2>. QED
    BY <1>1, <2>1, <2>2 DEF Popped
<1>. HIDE DEF h
<1>3. Home(h) = c /\ (needs_reply(h) => h = Self(Req(h))) /\ Up(h)
  BY <1>0, <1>2 DEF PlaceInv, Up
<1>4. /\ l1_to_l2' \in Seq(Fetches)
      /\ ToSet(l1_to_l2') = ToSet(l1_to_l2) \cup {h}
      /\ Once(l1_to_l2', Writes)
  <2>1. h \in Writes => h \notin ToSet(l1_to_l2)
    BY <1>0, <1>3 DEF WriteInv, L2In
  <2>2. Once(l1_to_l2, Writes)
    BY <1>0 DEF OnceInv
  <2>. QED
    BY <1>1, <1>2, <2>1, <2>2, PushFacts
<1>5. \A m \in Fetches : /\ New(m)' <=> New(m)
                         /\ Bank(m)' <=> Bank(m)
                         /\ Hit(m)' <=> Hit(m)
                         /\ Mshr(m)' <=> Mshr(m)
                         /\ Miss(m)' <=> Miss(m)
                         /\ Up(m)' => Up(m) /\ (m \in Writes => m # h)
                         /\ Up(m) => Up(m)' \/ m = h
                         /\ L2In(m)' <=> L2In(m) \/ m = h
                         /\ L2Mshr(m)' <=> L2Mshr(m)
                         /\ L2Hit(m)' <=> L2Hit(m)
                         /\ Dram(m)' <=> Dram(m)
                         /\ Down(m)' <=> Down(m)
  <2>1. \A m : Home(m)' = Home(m) /\ Sector(m)' = Sector(m)
    BY <1>u, PlacesStay
  <2>2. \A m \in Fetches : /\ Up(m)' => Up(m) /\ (m \in Writes => m # h)
                           /\ Up(m) => Up(m)' \/ m = h
    BY <1>t, <1>2, <1>3, <2>1 DEF Up
  <2>3. \A m \in Fetches : L2In(m)' <=> L2In(m) \/ m = h
    BY <1>4 DEF L2In
  <2>. QED
    BY <1>u, <2>2, <2>3, PlacesStay
<1>6. CyclesOK'
  <2>w. WithinLimits
    BY <1>0 DEF CyclesOK
  <2>1. \A d \in SMs : Len(up'[d]) <= InBufferLimit
    <3>1. InBufferLimit \in Nat
      BY MemPathAssumption
    <3>2. \A d \in SMs : Len(up[d]) \in Nat /\ Len(up'[d]) \in Nat
      BY <1>1, <1>2
    <3>3. \A d \in SMs : Len(up[d]) <= InBufferLimit
      BY <2>w DEF WithinLimits
    <3>. QED
      BY <1>2, <3>1, <3>2, <3>3
  <2>2. WithinLimits'
    BY <1>u, <2>w, <2>1 DEF WithinLimits, probe
  <2>. QED
    BY <1>0, <1>u, <1>2, <1>4, <2>2 DEF CyclesOK
<1>7. PlaceInv'
  BY <1>0, <1>u, <1>2, <1>3, <1>4, PlacesStay DEF PlaceInv
<1>8. OnceInv'
  BY <1>0, <1>u, <1>2, <1>4 DEF OnceInv
<1>9. WriteInv' /\ LoadInv' /\ WaitInv'
  BY <1>0, <1>u, <1>2, <1>3, <1>5 DEF WriteInv, LoadInv, WaitInv, Writes
<1>10. PendInv'
  BY <1>0, <1>u, <1>5, PlacesStay DEF PendInv
<1>11. L1EntryInv' /\ L2EntryInv' /\ NoReplyFault'
  BY <1>0, <1>u, <1>5 DEF L1EntryInv, L2EntryInv, NoReplyFault, probe
<1>. QED
  BY <1>6, <1>7, <1>8, <1>9, <1>10, <1>11 DEF Inv
-----------------------------------------------------------------------------
(* What comes back to the SM.                                               *)

LEMMA WriteBackStep ==
  ASSUME Inv, NEW c \in SMs, WriteBack(c)
  PROVE  Inv'
<1>. DEFINE h == Head(l1_to_sm[c])
<1>0. CyclesOK /\ PlaceInv /\ OnceInv /\ WriteInv /\ LoadInv /\ WaitInv /\ PendInv /\ L1EntryInv /\ L2EntryInv /\ NoReplyFault
  BY DEF Inv
<1>u. UNCHANGED <<sm, kind, addr, unsent, sm_to_l1, l1, l1_mshr, miss_queue, up, down, l1_to_l2, l2, l2_mshr,
                  l2_to_sms, dram, retired, fault>>
  BY DEF WriteBack, l2Vars
<1>t. \A m \in Fetches : Home(m) \in SMs /\ Sector(m) \in Sectors /\ Req(m) \in Reqs
  BY <1>0, FetchFacts
<1>1. /\ l1_to_sm \in [SMs -> Seq(Fetches)] /\ l1_to_sm[c] # <<>>
      /\ l1_to_sm' = [l1_to_sm EXCEPT ![c] = Tail(l1_to_sm[c])]
      /\ pending' = pending \ {Req(h)}
      /\ deleted' = deleted \cup {h}
  BY <1>0 DEF CyclesOK, WriteBack
<1>2. /\ l1_to_sm' \in [SMs -> Seq(Fetches)]
      /\ h \in Fetches /\ h \in ToSet(l1_to_sm[c])
      /\ \A d \in SMs : ToSet(l1_to_sm'[d]) \subseteq ToSet(l1_to_sm[d])
      /\ \A d \in SMs : \A m \in ToSet(l1_to_sm[d]) : m \in ToSet(l1_to_sm'[d]) \/ (d = c /\ m = h)
      /\ \A d \in SMs : Once(l1_to_sm'[d], Fetches)
      /\ h \notin ToSet(l1_to_sm'[c])
  <2>1. \A d \in SMs : Once(l1_to_sm[d], Fetches)
    BY <1>0 DEF OnceInv
  <2>2. Popped(l1_to_sm, l1_to_sm', c, h, Fetches)
    BY <1>1, PopQueue
  <2>. QED
    BY <1>1, <2>1, <2>2 DEF Popped
<1>. HIDE DEF h
<1>3. Home(h) = c /\ h = Self(Req(h)) /\ needs_reply(h) /\ Hit(h)
  BY <1>0, <1>2 DEF PlaceInv, Hit
<1>5. \A m \in Fetches : /\ New(m)' <=> New(m)
                         /\ Bank(m)' <=> Bank(m)
                         /\ Hit(m)' <=> Hit(m) /\ m # h
                         /\ Mshr(m)' <=> Mshr(m)
                         /\ Miss(m)' <=> Miss(m)
                         /\ Up(m)' <=> Up(m)
                         /\ L2In(m)' <=> L2In(m)
                         /\ L2Mshr(m)' <=> L2Mshr(m)
                         /\ L2Hit(m)' <=> L2Hit(m)
                         /\ Dram(m)' <=> Dram(m)
                         /\ Down(m)' <=> Down(m)
  <2>1. \A m : Home(m)' = Home(m) /\ Sector(m)' = Sector(m)
    BY <1>u, PlacesStay
  <2>2. \A m \in Fetches : Hit(m)' <=> Hit(m) /\ m # h
    BY <1>t, <1>2, <1>3, <2>1 DEF Hit
  <2>. QED
    BY <1>u, <2>2, PlacesStay
<1>r. \A m \in Fetches : m = Self(Req(m)) /\ Req(m) = Req(h) => m = h
  BY <1>3
<1>s. \A m \in Fetches : Bank(m) \/ Hit(m) \/ Mshr(m) \/ L2Hit(m) \/ Down(m) => m = Self(Req(m))
  BY <1>0, <1>t DEF PlaceInv, Bank, Hit, Mshr, L2Hit, Down
<1>q. \A m \in Fetches : needs_reply(m) /\ (Miss(m) \/ Up(m) \/ L2In(m) \/ Dram(m)) => m = Self(Req(m))
  BY <1>0, <1>t DEF PlaceInv, Miss, Up, L2In, Dram
<1>6. CyclesOK'
  <2>w. WithinLimits'
    BY <1>0, <1>u DEF CyclesOK, WithinLimits, probe
  <2>. QED
    BY <1>0, <1>u, <1>1, <1>2, <2>w DEF CyclesOK
<1>7. PlaceInv'
  BY <1>0, <1>u, <1>2, PlacesStay DEF PlaceInv
<1>8. OnceInv'
  BY <1>0, <1>u, <1>2 DEF OnceInv
<1>9. WriteInv' /\ LoadInv'
  <2>1. WriteInv'
    BY <1>0, <1>u, <1>1, <1>2, <1>3, <1>5 DEF WriteInv, Writes
  <2>2. LoadInv'
    BY <1>0, <1>u, <1>1, <1>2, <1>3, <1>5 DEF LoadInv, Writes
  <2>. QED
    BY <2>1, <2>2
<1>10. WaitInv'
  <2>1. \A m \in Fetches : Mshr(m) => m \notin Writes
    BY <1>0, <1>t DEF PlaceInv, Mshr, Writes, is_write
  <2>2. /\ ~Bank(h) /\ ~Mshr(h)
        /\ h \in Writes => ~(Miss(h) \/ Up(h) \/ L2In(h) \/ Dram(h) \/ L2Hit(h) \/ Down(h))
    BY <1>0, <1>2, <1>3, <2>1 DEF WriteInv, LoadInv
  <2>. QED
    BY <1>0, <1>1, <1>2, <1>3, <1>5, <1>r, <1>s, <1>q, <2>2 DEF WaitInv
<1>11. PendInv'
  BY <1>0, <1>u, <1>1, <1>5, PlacesStay DEF PendInv
<1>12. L1EntryInv' /\ L2EntryInv' /\ NoReplyFault'
  BY <1>0, <1>u, <1>5 DEF L1EntryInv, L2EntryInv, NoReplyFault, probe
<1>. QED
  BY <1>6, <1>7, <1>8, <1>9, <1>10, <1>11, <1>12 DEF Inv

LEMMA AtomicReplyStep ==
  ASSUME Inv, NEW c \in SMs, AtomicReply(c)
  PROVE  Inv'
<1>. DEFINE h == Head(down[c])
<1>0. CyclesOK /\ PlaceInv /\ OnceInv /\ WriteInv /\ LoadInv /\ WaitInv /\ PendInv /\ L1EntryInv /\ L2EntryInv /\ NoReplyFault
  BY DEF Inv
<1>u. UNCHANGED <<sm, kind, addr, unsent, sm_to_l1, l1, l1_mshr, miss_queue, l1_to_sm, up, l1_to_l2, l2, l2_mshr,
                  l2_to_sms, dram, retired>>
  BY DEF AtomicReply, l1Vars, l2Vars
<1>t. \A m \in Fetches : Home(m) \in SMs /\ Sector(m) \in Sectors /\ Req(m) \in Reqs
  BY <1>0, FetchFacts
<1>1. /\ down \in [SMs -> Seq(Fetches)] /\ down[c] # <<>> /\ is_write(h)
      /\ down' = [down EXCEPT ![c] = Tail(down[c])]
      /\ pending' = pending \ {Req(h)}
      /\ fault' = (Req(h) \notin pending)
      /\ deleted' = deleted \cup {h}
  BY <1>0 DEF CyclesOK, AtomicReply
<1>2. /\ down' \in [SMs -> Seq(Fetches)]
      /\ h \in Fetches /\ h \in ToSet(down[c])
      /\ \A d \in SMs : ToSet(down'[d]) \subseteq ToSet(down[d])
      /\ \A d \in SMs : \A m \in ToSet(down[d]) : m \in ToSet(down'[d]) \/ (d = c /\ m = h)
      /\ \A d \in SMs : Once(down'[d], Writes)
      /\ h \in Writes => h \notin ToSet(down'[c])
  <2>1. \A d \in SMs : Once(down[d], Writes)
    BY <1>0 DEF OnceInv
  <2>2. Popped(down, down', c, h, Writes)
    BY <1>1, PopQueue
  <2>. QED
    BY <1>1, <2>1, <2>2 DEF Popped
<1>. HIDE DEF h
<1>3. Home(h) = c /\ h = Self(Req(h)) /\ needs_reply(h) /\ Down(h) /\ h \in Writes
  BY <1>0, <1>1, <1>2 DEF PlaceInv, Down, Writes
<1>4. Req(h) \in pending
  BY <1>0, <1>2, <1>3 DEF WaitInv
<1>5. \A m \in Fetches : /\ New(m)' <=> New(m)
                         /\ Bank(m)' <=> Bank(m)
                         /\ Hit(m)' <=> Hit(m)
                         /\ Mshr(m)' <=> Mshr(m)
                         /\ Miss(m)' <=> Miss(m)
                         /\ Up(m)' <=> Up(m)
                         /\ L2In(m)' <=> L2In(m)
                         /\ L2Mshr(m)' <=> L2Mshr(m)
                         /\ L2Hit(m)' <=> L2Hit(m)
                         /\ Dram(m)' <=> Dram(m)
                         /\ Down(m)' <=> Down(m) /\ m # h
  <2>1. \A m : Home(m)' = Home(m) /\ Sector(m)' = Sector(m)
    BY <1>u, PlacesStay
  <2>2. \A m \in Fetches : Down(m)' <=> Down(m) /\ m # h
    BY <1>t, <1>2, <1>3, <2>1 DEF Down
  <2>. QED
    BY <1>u, <2>2, PlacesStay
<1>r. \A m \in Fetches : m = Self(Req(m)) /\ Req(m) = Req(h) => m = h
  BY <1>3
<1>s. \A m \in Fetches : Bank(m) \/ Hit(m) \/ Mshr(m) \/ L2Hit(m) \/ Down(m) => m = Self(Req(m))
  BY <1>0, <1>t DEF PlaceInv, Bank, Hit, Mshr, L2Hit, Down
<1>q. \A m \in Fetches : needs_reply(m) /\ (Miss(m) \/ Up(m) \/ L2In(m) \/ Dram(m)) => m = Self(Req(m))
  BY <1>0, <1>t DEF PlaceInv, Miss, Up, L2In, Dram
<1>6. CyclesOK'
  <2>w. WithinLimits'
    BY <1>0, <1>u DEF CyclesOK, WithinLimits, probe
  <2>1. deleted' \subseteq Fetches
    BY <1>0, <1>1, <1>2 DEF CyclesOK
  <2>2. fault' \in BOOLEAN
    BY <1>1
  <2>3. pending' \subseteq Reqs
    BY <1>0, <1>1 DEF CyclesOK
  <2>4. \A q \in {miss_queue', l1_to_sm', up', down'} : q \in [SMs -> Seq(Fetches)]
    BY <1>0, <1>u, <1>2 DEF CyclesOK
  <2>. QED
    BY <1>0, <1>u, <2>w, <2>1, <2>2, <2>3, <2>4 DEF CyclesOK
<1>7. PlaceInv'
  BY <1>0, <1>u, <1>2, PlacesStay DEF PlaceInv
<1>8. OnceInv'
  BY <1>0, <1>u, <1>2 DEF OnceInv
<1>9. WriteInv' /\ LoadInv'
  <2>1. WriteInv'
    BY <1>0, <1>u, <1>1, <1>2, <1>3, <1>5 DEF WriteInv, Writes
  <2>2. LoadInv'
    BY <1>0, <1>u, <1>1, <1>2, <1>3, <1>5 DEF LoadInv, Writes
  <2>. QED
    BY <2>1, <2>2
<1>10. WaitInv'
  <2>1. \A m \in Fetches : Mshr(m) => m \notin Writes
    BY <1>0, <1>t DEF PlaceInv, Mshr, Writes, is_write
  <2>2. /\ ~Bank(h) /\ ~Mshr(h) /\ ~Hit(h)
        /\ h \in Writes => ~(Miss(h) \/ Up(h) \/ L2In(h) \/ Dram(h) \/ L2Hit(h))
    BY <1>0, <1>2, <1>3, <2>1 DEF WriteInv, LoadInv
  <2>. QED
    BY <1>0, <1>1, <1>2, <1>3, <1>5, <1>r, <1>s, <1>q, <2>2 DEF WaitInv
<1>11. PendInv'
  BY <1>0, <1>u, <1>1, <1>5, PlacesStay DEF PendInv
<1>12. L1EntryInv'
  <2>1. \A d \in SMs : \A a \in Sectors : \A m \in Fetches : probe(l1_mshr[d], a) /\ m = Head(l1_mshr[d][a]) => m # h
    <3>. SUFFICES ASSUME NEW d \in SMs, NEW a \in Sectors, probe(l1_mshr[d], a)
                  PROVE  Head(l1_mshr[d][a]) # h
      OBVIOUS
    <3>1. l1_mshr[d][a] \in Seq(Fetches) /\ l1_mshr[d][a] # <<>>
      BY <1>0 DEF CyclesOK, probe
    <3>2. Head(l1_mshr[d][a]) \in ToSet(l1_mshr[d][a])
      BY <3>1, PopFacts
    <3>. QED
      BY <1>0, <1>1, <3>2 DEF PlaceInv, is_write
  <2>. QED
    BY <1>0, <1>u, <1>5, <2>1 DEF L1EntryInv, probe
<1>13. L2EntryInv' /\ NoReplyFault'
  BY <1>0, <1>u, <1>1, <1>4, <1>5 DEF L2EntryInv, NoReplyFault, probe
<1>. QED
  BY <1>6, <1>7, <1>8, <1>9, <1>10, <1>11, <1>12, <1>13 DEF Inv

\* A hit of the L2 joins the replies.
LEMMA L2HitReplyStep ==
  ASSUME Inv, NEW h \in l2_to_sms, L2HitReply(h)
  PROVE  Inv'
<1>. DEFINE c == Home(h)
<1>0. CyclesOK /\ PlaceInv /\ OnceInv /\ WriteInv /\ LoadInv /\ WaitInv /\ PendInv /\ L1EntryInv /\ L2EntryInv /\ NoReplyFault
  BY DEF Inv
<1>u. UNCHANGED <<sm, kind, addr, unsent, pending, sm_to_l1, l1, l1_mshr, miss_queue, l1_to_sm, up, l1_to_l2, l2, l2_mshr,
                  dram, deleted, retired, fault>>
  BY DEF L2HitReply, l1Vars
<1>t. \A m \in Fetches : Home(m) \in SMs /\ Sector(m) \in Sectors /\ Req(m) \in Reqs
  BY <1>0, FetchFacts
<1>1. /\ down \in [SMs -> Seq(Fetches)] /\ h \in Fetches /\ l2_to_sms \subseteq Fetches
      /\ l2_to_sms' = l2_to_sms \ {h}
      /\ down' = [down EXCEPT ![c] = Append(down[c], h)]
      /\ h = Self(Req(h)) /\ needs_reply(h) /\ L2Hit(h)
  BY <1>0 DEF CyclesOK, L2HitReply, PlaceInv, L2Hit
<1>2. c \in SMs /\ Home(h) = c
  BY <1>t, <1>1
<1>. HIDE DEF c
<1>4. /\ down' \in [SMs -> Seq(Fetches)]
      /\ \A d \in SMs : \A m : m \in ToSet(down'[d]) <=> m \in ToSet(down[d]) \/ (d = c /\ m = h)
      /\ \A d \in SMs : Once(down'[d], Writes)
  <2>1. h \in Writes => h \notin ToSet(down[c])
    BY <1>0, <1>1, <1>2 DEF WriteInv, Down
  <2>2. \A d \in SMs : Once(down[d], Writes)
    BY <1>0 DEF OnceInv
  <2>3. Pushed(down, down', c, h, Writes)
    BY <1>1, <1>2, PushQueue
  <2>. QED
    BY <2>1, <2>2, <2>3 DEF Pushed
<1>5. \A m \in Fetches : /\ New(m)' <=> New(m)
                         /\ Bank(m)' <=> Bank(m)
                         /\ Hit(m)' <=> Hit(m)
                         /\ Mshr(m)' <=> Mshr(m)
                         /\ Miss(m)' <=> Miss(m)
                         /\ Up(m)' <=> Up(m)
                         /\ L2In(m)' <=> L2In(m)
                         /\ L2Mshr(m)' <=> L2Mshr(m)
                         /\ L2Hit(m)' <=> L2Hit(m) /\ m # h
                         /\ Dram(m)' <=> Dram(m)
                         /\ Down(m)' <=> Down(m) \/ m = h
  <2>1. \A m : Home(m)' = Home(m) /\ Sector(m)' = Sector(m)
    BY <1>u, PlacesStay
  <2>2. \A m \in Fetches : Down(m)' <=> Down(m) \/ m = h
    BY <1>t, <1>2, <1>4, <2>1 DEF Down
  <2>3. \A m \in Fetches : L2Hit(m)' <=> L2Hit(m) /\ m # h
    BY <1>1 DEF L2Hit
  <2>. QED
    BY <1>u, <2>2, <2>3, PlacesStay
<1>6. CyclesOK'
  <2>w. WithinLimits'
    BY <1>0, <1>u DEF CyclesOK, WithinLimits, probe
  <2>. QED
    BY <1>0, <1>u, <1>1, <1>4, <2>w DEF CyclesOK
<1>7. PlaceInv'
  BY <1>0, <1>u, <1>1, <1>2, <1>4, PlacesStay DEF PlaceInv
<1>8. OnceInv'
  BY <1>0, <1>u, <1>4 DEF OnceInv
<1>9. WriteInv' /\ LoadInv' /\ WaitInv'
  BY <1>0, <1>u, <1>1, <1>5 DEF WriteInv, LoadInv, WaitInv, Writes
<1>10. PendInv'
  BY <1>0, <1>u, <1>5, PlacesStay DEF PendInv
<1>11. L1EntryInv' /\ L2EntryInv' /\ NoReplyFault'
  BY <1>0, <1>u, <1>5 DEF L1EntryInv, L2EntryInv, NoReplyFault, probe
<1>. QED
  BY <1>6, <1>7, <1>8, <1>9, <1>10, <1>11 DEF Inv

\* A reply to a load releases everything that waits for its sector.
LEMMA ReadReplyStep ==
  ASSUME Inv, NEW c \in SMs, ReadReply(c)
  PROVE  Inv'
<1>. DEFINE h == Head(down[c])
            a == Sector(h)
            waiting == ToSet(l1_mshr[c][a])
<1>0. CyclesOK /\ PlaceInv /\ OnceInv /\ WriteInv /\ LoadInv /\ WaitInv /\ PendInv /\ L1EntryInv /\ L2EntryInv /\ NoReplyFault
  BY DEF Inv
<1>u. UNCHANGED <<sm, kind, addr, unsent, sm_to_l1, miss_queue, l1_to_sm, up, l1_to_l2, l2, l2_mshr,
                  l2_to_sms, dram, deleted>>
  BY DEF ReadReply, l2Vars
<1>t. \A m \in Fetches : Home(m) \in SMs /\ Sector(m) \in Sectors /\ Req(m) \in Reqs
  BY <1>0, FetchFacts
<1>1. /\ down \in [SMs -> Seq(Fetches)] /\ down[c] # <<>>
      /\ down' = [down EXCEPT ![c] = Tail(down[c])]
      /\ pending' = pending \ {Req(m) : m \in waiting}
      /\ fault' = \E m \in waiting : Req(m) \notin pending
      /\ retired' = retired \cup waiting
      /\ l1_mshr' = [l1_mshr EXCEPT ![c][a] = <<>>]
      /\ l1' = l1 \/ \E lines \in Filled(l1[c], a, L1Lines) : l1' = [l1 EXCEPT ![c] = lines]
  BY <1>0 DEF CyclesOK, ReadReply
<1>2. /\ down' \in [SMs -> Seq(Fetches)]
      /\ h \in Fetches /\ h \in ToSet(down[c])
      /\ \A d \in SMs : ToSet(down'[d]) \subseteq ToSet(down[d])
      /\ \A d \in SMs : \A m \in ToSet(down[d]) : m \in ToSet(down'[d]) \/ (d = c /\ m = h)
      /\ \A d \in SMs : Once(down'[d], Writes)
  <2>1. \A d \in SMs : Once(down[d], Writes)
    BY <1>0 DEF OnceInv
  <2>2. Popped(down, down', c, h, Writes)
    BY <1>1, PopQueue
  <2>. QED
    BY <1>1, <2>1, <2>2 DEF Popped
<1>. HIDE DEF h
<1>3. Home(h) = c /\ a \in Sectors /\ Sector(h) = a
  BY <1>0, <1>t, <1>2 DEF PlaceInv
<1>. HIDE DEF a
<1>m. /\ l1_mshr \in [SMs -> [Sectors -> Seq(Fetches)]]
      /\ l1_mshr[c] \in [Sectors -> Seq(Fetches)]
      /\ \A d \in SMs : l1_mshr'[d] = IF d = c THEN [l1_mshr[c] EXCEPT ![a] = <<>>] ELSE l1_mshr[d]
  BY <1>0, <1>1, <1>3 DEF CyclesOK
<1>n. \A d \in SMs : \A b \in Sectors : l1_mshr'[d][b] = IF d = c /\ b = a THEN <<>> ELSE l1_mshr[d][b]
  BY <1>m, <1>3
<1>e. ToSet(<<>>) = {}
  BY DEF ToSet
<1>4. \A m \in waiting : /\ m \in Fetches /\ m = Self(Req(m)) /\ Home(m) = c /\ Sector(m) = a /\ m \notin Writes
                         /\ needs_reply(m) /\ Mshr(m) /\ Req(m) \in pending
  <2>1. \A m \in waiting : m \in Fetches
    BY <1>m, <1>3 DEF ToSet
  <2>2. \A m \in waiting : /\ m = Self(Req(m)) /\ Home(m) = c /\ Sector(m) = a /\ m \notin Writes
                           /\ needs_reply(m) /\ Mshr(m)
    BY <1>0, <1>3 DEF PlaceInv, Writes, is_write, needs_reply, Mshr
  <2>. QED
    BY <1>0, <2>1, <2>2 DEF WaitInv
<1>v. waiting \subseteq Fetches
  BY <1>4
<1>w. \A m \in Fetches : m \in waiting <=> Mshr(m) /\ Home(m) = c /\ Sector(m) = a
  BY <1>4 DEF Mshr
<1>. HIDE DEF waiting
<1>5. \A m \in Fetches : /\ New(m)' <=> New(m)
                         /\ Bank(m)' <=> Bank(m)
                         /\ Hit(m)' <=> Hit(m)
                         /\ Mshr(m)' <=> Mshr(m) /\ m \notin waiting
                         /\ Miss(m)' <=> Miss(m)
                         /\ Up(m)' <=> Up(m)
                         /\ L2In(m)' <=> L2In(m)
                         /\ L2Mshr(m)' <=> L2Mshr(m)
                         /\ L2Hit(m)' <=> L2Hit(m)
                         /\ Dram(m)' <=> Dram(m)
                         /\ Down(m)' => Down(m)
                         /\ Down(m) => Down(m)' \/ m = h
  <2>1. \A m : Home(m)' = Home(m) /\ Sector(m)' = Sector(m)
    BY <1>u, PlacesStay
  <2>2. \A m \in Fetches : /\ Down(m)' => Down(m)
                           /\ Down(m) => Down(m)' \/ m = h
    BY <1>t, <1>2, <2>1 DEF Down
  <2>3. ASSUME NEW m \in Fetches
        PROVE  Mshr(m)' <=> Mshr(m) /\ m \notin waiting
    <3>1. Mshr(m)' <=> m \in ToSet(l1_mshr'[Home(m)][Sector(m)])
      BY <2>1 DEF Mshr
    <3>. QED
      BY <1>t, <1>n, <1>e, <1>w, <3>1 DEF Mshr
  <2>. QED
    BY <1>u, <2>2, <2>3, PlacesStay
<1>r. \A m \in Fetches : m = Self(Req(m)) => \A k \in waiting : Req(m) = Req(k) => m = k
  BY <1>4
<1>s. \A m \in Fetches : Bank(m) \/ Hit(m) \/ Mshr(m) \/ L2Hit(m) \/ Down(m) => m = Self(Req(m))
  BY <1>0, <1>t DEF PlaceInv, Bank, Hit, Mshr, L2Hit, Down
<1>q. \A m \in Fetches : needs_reply(m) /\ (Miss(m) \/ Up(m) \/ L2In(m) \/ Dram(m)) => m = Self(Req(m))
  BY <1>0, <1>t DEF PlaceInv, Miss, Up, L2In, Dram
<1>6. CyclesOK'
  <2>l. WithinLimits
    BY <1>0 DEF CyclesOK
  <2>k. L1Entries \in Nat /\ L1Merge \in Nat /\ L1Lines \in Nat
    BY MemPathAssumption
  <2>1. \A d \in SMs : l1_mshr'[d] \in [Sectors -> Seq(Fetches)] /\ Limited(l1_mshr'[d], L1Entries, L1Merge)
    <3>. DEFINE z == [l1_mshr[c] EXCEPT ![a] = <<>>]
    <3>1. z \in [Sectors -> Seq(Fetches)] /\ Limited(z, L1Entries, L1Merge)
      <4>1. Limited(l1_mshr[c], L1Entries, L1Merge)
        BY <2>l, LimitsAre
      <4>. QED
        BY <1>m, <1>3, <2>k, <4>1, ClearFacts
    <3>. HIDE DEF z
    <3>2. \A d \in SMs : l1_mshr'[d] = IF d = c THEN z ELSE l1_mshr[d]
      BY <1>m DEF z
    <3>. QED
      BY <1>m, <2>l, <3>1, <3>2, LimitsAre
  <2>2. l1_mshr' \in [SMs -> [Sectors -> Seq(Fetches)]]
    BY <1>m, <1>1, <2>1
  <2>3. l1' \in [SMs -> SUBSET Sectors] /\ \A d \in SMs : Cardinality(l1'[d]) <= L1Lines
    <3>1. l1 \in [SMs -> SUBSET Sectors] /\ \A d \in SMs : Cardinality(l1[d]) <= L1Lines
      BY <1>0, <2>l, LimitsAre DEF CyclesOK
    <3>2. CASE l1' = l1
      BY <3>1, <3>2
    <3>3. CASE \E lines \in Filled(l1[c], a, L1Lines) : l1' = [l1 EXCEPT ![c] = lines]
      <4>1. PICK R \in Filled(l1[c], a, L1Lines) : l1' = [l1 EXCEPT ![c] = R]
        BY <3>3
      <4>2. R \in SUBSET Sectors /\ Cardinality(R) <= L1Lines
        <5>1. l1[c] \in SUBSET Sectors /\ Cardinality(l1[c]) <= L1Lines
          BY <3>1
        <5>. QED
          BY <1>3, <2>k, <5>1, FillFacts
      <4>. QED
        BY <3>1, <4>1, <4>2
    <3>. QED
      BY <1>1, <3>2, <3>3
  <2>4. WithinLimits'
    <3>1. /\ \A d \in SMs : Len(up'[d]) <= InBufferLimit
          /\ Limited(l2_mshr', L2Entries, L2Merge)
          /\ Cardinality(l2') <= L2Lines
      BY <1>u, <2>l, LimitsAre
    <3>2. \A d \in SMs : Limited(l1_mshr[d], L1Entries, L1Merge)'
      BY <2>1 DEF Limited, Entries, probe
    <3>3. Limited(l2_mshr, L2Entries, L2Merge)'
      BY <3>1 DEF Limited, Entries, probe
    <3>. QED
      BY <2>3, <3>1, <3>2, <3>3 DEF WithinLimits, Limited, Entries
  <2>5. pending' \subseteq Reqs /\ retired' \subseteq Fetches /\ fault' \in BOOLEAN
    BY <1>0, <1>1, <1>v DEF CyclesOK
  <2>. QED
    BY <1>0, <1>u, <1>2, <2>2, <2>3, <2>4, <2>5 DEF CyclesOK
<1>7. PlaceInv'
  <2>1. \A d \in SMs : \A b \in Sectors : ToSet(l1_mshr'[d][b]) \subseteq ToSet(l1_mshr[d][b])
    BY <1>n, <1>e
  <2>2. (\A m : Home(m)' = Home(m) /\ Sector(m)' = Sector(m)) /\ \A q : Self(q)' = Self(q)
    BY <1>u, PlacesStay
  <2>3. \A m : needs_reply(m)' <=> needs_reply(m)
    BY DEF needs_reply
  <2>4. \A d \in SMs : \A b \in Sectors :
          /\ \A m \in ToSet(sm_to_l1'[d][b]) : Home(m)' = d /\ Sector(m)' = b /\ m = Self(Req(m))'
          /\ \A m \in ToSet(l1_mshr'[d][b]) : Home(m)' = d /\ Sector(m)' = b /\ m[2] = "load" /\ m = Self(Req(m))'
    BY <1>0, <1>u, <2>1, <2>2 DEF PlaceInv, Req
  <2>5. \A d \in SMs : \A m \in ToSet(down'[d]) : Home(m)' = d /\ m = Self(Req(m))' /\ needs_reply(m)'
    BY <1>0, <1>2, <2>2, <2>3 DEF PlaceInv, Req
  <2>. QED
    BY <1>0, <1>u, <2>2, <2>3, <2>4, <2>5 DEF PlaceInv, Req
<1>8. OnceInv'
  BY <1>0, <1>u, <1>2 DEF OnceInv
<1>9. WriteInv' /\ LoadInv'
  BY <1>0, <1>u, <1>1, <1>4, <1>5 DEF WriteInv, LoadInv, Writes
<1>10. WaitInv'
  <2>1. \A k \in waiting : ~Bank(k) /\ ~Hit(k)
    BY <1>0, <1>4 DEF LoadInv
  <2>2. \A m \in Fetches : m = Self(Req(m)) /\ m \notin waiting /\ Req(m) \in pending => Req(m) \in pending'
    BY <1>1, <1>r
  <2>. QED
    BY <1>0, <1>4, <1>5, <1>s, <1>q, <2>1, <2>2 DEF WaitInv
<1>11. PendInv'
  <2>1. \A m \in Fetches : m \in waiting => Req(m) \notin pending'
    BY <1>1
  <2>2. pending' \subseteq pending
    BY <1>1
  <2>. QED
    BY <1>0, <1>u, <1>5, <2>1, <2>2, PlacesStay DEF PendInv
<1>12. L1EntryInv'
  <2>1. SUFFICES ASSUME NEW d \in SMs, NEW b \in Sectors, NEW m \in Fetches, probe(l1_mshr'[d], b), m = Head(l1_mshr'[d][b])
                 PROVE  Miss(m)' \/ Up(m)' \/ L2In(m)' \/ L2Mshr(m)' \/ L2Hit(m)' \/ Down(m)'
    BY DEF L1EntryInv, probe
  <2>2. ~(d = c /\ b = a) /\ l1_mshr'[d][b] = l1_mshr[d][b] /\ probe(l1_mshr[d], b) /\ l1_mshr[d][b] # <<>>
    BY <1>n, <2>1 DEF probe
  <2>3. m \in ToSet(l1_mshr[d][b])
    BY <1>m, <2>1, <2>2, PopFacts
  <2>4. Home(m) = d /\ Sector(m) = b
    BY <1>0, <2>3 DEF PlaceInv
  <2>5. m # h
    BY <1>3, <2>2, <2>4
  <2>6. Miss(m) \/ Up(m) \/ L2In(m) \/ L2Mshr(m) \/ L2Hit(m) \/ Down(m)
    BY <1>0, <2>1, <2>2 DEF L1EntryInv
  <2>. QED
    BY <1>5, <2>5, <2>6
<1>13. L2EntryInv' /\ NoReplyFault'
  BY <1>0, <1>u, <1>1, <1>4, <1>5 DEF L2EntryInv, NoReplyFault, probe
<1>. QED
  BY <1>6, <1>7, <1>8, <1>9, <1>10, <1>11, <1>12, <1>13 DEF Inv
-----------------------------------------------------------------------------
(* From the SM to the L1.                                                   *)

\* Every queue still holds what belongs there if all that is new in it does.
LEMMA PlaceStep ==
  ASSUME PlaceInv, UNCHANGED <<sm, kind, addr>>,
         \A d \in SMs : \A b \in Sectors :
           /\ \A m \in ToSet(sm_to_l1'[d][b]) :
                m \in ToSet(sm_to_l1[d][b]) \/ (Home(m) = d /\ Sector(m) = b /\ m = Self(Req(m)))
           /\ \A m \in ToSet(l1_mshr'[d][b]) :
                m \in ToSet(l1_mshr[d][b]) \/ (Home(m) = d /\ Sector(m) = b /\ m[2] = "load" /\ m = Self(Req(m))),
         \A d \in SMs :
           /\ \A m \in ToSet(l1_to_sm'[d]) :
                m \in ToSet(l1_to_sm[d]) \/ (Home(m) = d /\ m = Self(Req(m)) /\ needs_reply(m))
           /\ \A m \in ToSet(down'[d]) :
                m \in ToSet(down[d]) \/ (Home(m) = d /\ m = Self(Req(m)) /\ needs_reply(m))
           /\ \A m \in ToSet(miss_queue'[d]) :
                m \in ToSet(miss_queue[d]) \/ (Home(m) = d /\ (needs_reply(m) => m = Self(Req(m))))
           /\ ToSet(up'[d]) \subseteq ToSet(up[d]),
         ToSet(l1_to_l2') \subseteq ToSet(l1_to_l2),
         \A m \in ToSet(dram') : m \in ToSet(dram) \/ (needs_reply(m) => m = Self(Req(m))),
         \A m \in l2_to_sms' : m \in l2_to_sms \/ (m = Self(Req(m)) /\ needs_reply(m)),
         \A b \in Sectors : \A m \in ToSet(l2_mshr'[b]) :
           m \in ToSet(l2_mshr[b]) \/ (Sector(m) = b /\ m[2] = "load" /\ m = Self(Req(m)))
  PROVE  PlaceInv'
<1>1. (\A m : Home(m)' = Home(m) /\ Sector(m)' = Sector(m)) /\ \A q : Self(q)' = Self(q)
  BY PlacesStay
<1>2. \A d \in SMs : \A b \in Sectors :
        /\ \A m \in ToSet(sm_to_l1'[d][b]) : Home(m)' = d /\ Sector(m)' = b /\ m = Self(Req(m))'
        /\ \A m \in ToSet(l1_mshr'[d][b]) : Home(m)' = d /\ Sector(m)' = b /\ m[2] = "load" /\ m = Self(Req(m))'
  BY <1>1 DEF PlaceInv, Req
<1>3. \A d \in SMs :
        /\ \A m \in ToSet(l1_to_sm'[d]) : Home(m)' = d /\ m = Self(Req(m))' /\ needs_reply(m)
        /\ \A m \in ToSet(down'[d]) : Home(m)' = d /\ m = Self(Req(m))' /\ needs_reply(m)
  BY <1>1 DEF PlaceInv, Req
<1>4. \A d \in SMs :
        /\ \A m \in ToSet(miss_queue'[d]) : Home(m)' = d /\ (needs_reply(m) => m = Self(Req(m))')
        /\ \A m \in ToSet(up'[d]) : Home(m)' = d /\ (needs_reply(m) => m = Self(Req(m))')
  BY <1>1 DEF PlaceInv, Req
<1>5. /\ \A m \in ToSet(l1_to_l2') : needs_reply(m) => m = Self(Req(m))'
      /\ \A m \in ToSet(dram') : needs_reply(m) => m = Self(Req(m))'
      /\ \A m \in l2_to_sms' : m = Self(Req(m))' /\ needs_reply(m)
  BY <1>1 DEF PlaceInv, Req
<1>6. \A b \in Sectors : \A m \in ToSet(l2_mshr'[b]) : Sector(m)' = b /\ m[2] = "load" /\ m = Self(Req(m))'
  BY <1>1 DEF PlaceInv, Req
<1>. QED
  BY <1>2, <1>3, <1>4, <1>5, <1>6 DEF PlaceInv, Req, needs_reply

\* What Popped and Pushed say of the bank queues of every SM.
BankPopped(f, g, c, a, h) ==
  /\ g \in [SMs -> [Sectors -> Seq(Fetches)]]
  /\ h \in Fetches /\ h \in ToSet(f[c][a])
  /\ \A d \in SMs : \A b \in Sectors : ToSet(g[d][b]) \subseteq ToSet(f[d][b])
  /\ \A d \in SMs : \A b \in Sectors : \A m \in ToSet(f[d][b]) : m \in ToSet(g[d][b]) \/ (d = c /\ b = a /\ m = h)
  /\ (\A d \in SMs : \A b \in Sectors : Once(f[d][b], Fetches))
       => /\ \A d \in SMs : \A b \in Sectors : Once(g[d][b], Fetches)
          /\ h \notin ToSet(g[c][a])

BankPushed(f, g, c, a, h) ==
  /\ g \in [SMs -> [Sectors -> Seq(Fetches)]]
  /\ \A d \in SMs : \A b \in Sectors : \A m : m \in ToSet(g[d][b]) <=> m \in ToSet(f[d][b]) \/ (d = c /\ b = a /\ m = h)
  /\ (\A d \in SMs : \A b \in Sectors : Once(f[d][b], Fetches)) /\ h \notin ToSet(f[c][a])
       => \A d \in SMs : \A b \in Sectors : Once(g[d][b], Fetches)

LEMMA BankPop ==
  ASSUME NEW f \in [SMs -> [Sectors -> Seq(Fetches)]], NEW c \in SMs, NEW a \in Sectors, f[c][a] # <<>>,
         NEW g, g = [f EXCEPT ![c][a] = Tail(f[c][a])]
  PROVE  BankPopped(f, g, c, a, Head(f[c][a]))
<1>. DEFINE h == Head(f[c][a])
            t == Tail(f[c][a])
<1>1. f[c][a] \in Seq(Fetches) /\ f[c] \in [Sectors -> Seq(Fetches)]
  OBVIOUS
<1>2. /\ h \in Fetches /\ h \in ToSet(f[c][a])
      /\ t \in Seq(Fetches)
      /\ ToSet(t) \subseteq ToSet(f[c][a])
      /\ \A m \in ToSet(f[c][a]) : m = h \/ m \in ToSet(t)
      /\ Once(f[c][a], Fetches) => Once(t, Fetches) /\ (h \in Fetches => h \notin ToSet(t))
  BY <1>1, PopFacts
<1>g. g = [f EXCEPT ![c][a] = t]
  OBVIOUS
<1>. HIDE DEF h, t
<1>3. g \in [SMs -> [Sectors -> Seq(Fetches)]]
  BY <1>1, <1>2, <1>g
<1>4. \A d \in SMs : \A b \in Sectors : g[d][b] = IF d = c /\ b = a THEN t ELSE f[d][b]
  <2>1. \A d \in SMs : g[d] = IF d = c THEN [f[c] EXCEPT ![a] = t] ELSE f[d]
    BY <1>g
  <2>2. \A b \in Sectors : [f[c] EXCEPT ![a] = t][b] = IF b = a THEN t ELSE f[c][b]
    BY <1>1
  <2>. QED
    BY <2>1, <2>2
<1>. QED
  BY <1>2, <1>3, <1>4 DEF h, BankPopped

LEMMA BankPush ==
  ASSUME NEW f \in [SMs -> [Sectors -> Seq(Fetches)]], NEW c \in SMs, NEW a \in Sectors, NEW h \in Fetches,
         NEW g, g = [f EXCEPT ![c][a] = Append(f[c][a], h)]
  PROVE  BankPushed(f, g, c, a, h)
<1>. DEFINE t == Append(f[c][a], h)
<1>1. f[c][a] \in Seq(Fetches) /\ f[c] \in [Sectors -> Seq(Fetches)]
  OBVIOUS
<1>2. /\ t \in Seq(Fetches)
      /\ ToSet(t) = ToSet(f[c][a]) \cup {h}
      /\ Once(f[c][a], Fetches) /\ (h \in Fetches => h \notin ToSet(f[c][a])) => Once(t, Fetches)
  BY <1>1, PushFacts
<1>g. g = [f EXCEPT ![c][a] = t]
  OBVIOUS
<1>. HIDE DEF t
<1>3. g \in [SMs -> [Sectors -> Seq(Fetches)]]
  BY <1>1, <1>2, <1>g
<1>4. \A d \in SMs : \A b \in Sectors : g[d][b] = IF d = c /\ b = a THEN t ELSE f[d][b]
  <2>1. \A d \in SMs : g[d] = IF d = c THEN [f[c] EXCEPT ![a] = t] ELSE f[d]
    BY <1>g
  <2>2. \A b \in Sectors : [f[c] EXCEPT ![a] = t][b] = IF b = a THEN t ELSE f[c][b]
    BY <1>1
  <2>. QED
    BY <2>1, <2>2
<1>. QED
  BY <1>2, <1>3, <1>4 DEF BankPushed

LEMMA SendStep ==
  ASSUME Inv, NEW r \in Reqs, Send(r)
  PROVE  Inv'
<1>. DEFINE h == Self(r)
            c == Home(h)
            a == Sector(h)
<1>0. CyclesOK /\ PlaceInv /\ OnceInv /\ WriteInv /\ LoadInv /\ WaitInv /\ PendInv /\ L1EntryInv /\ L2EntryInv /\ NoReplyFault
  BY DEF Inv
<1>u. UNCHANGED <<sm, kind, addr, l1, l1_mshr, miss_queue, l1_to_sm, up, down, l1_to_l2, l2, l2_mshr,
                  l2_to_sms, dram, deleted, retired, fault>>
  BY DEF Send, l2Vars
<1>t. \A m \in Fetches : Home(m) \in SMs /\ Sector(m) \in Sectors /\ Req(m) \in Reqs
  BY <1>0, FetchFacts
<1>1. /\ h \in Fetches /\ h[2] # "wt" /\ Req(h) = r /\ c \in SMs /\ a \in Sectors
      /\ h = Self(Req(h)) /\ Home(h) = c /\ Sector(h) = a
  BY <1>0 DEF CyclesOK, Self, Fetches, Req, Home, Sector
<1>2. /\ sm_to_l1 \in [SMs -> [Sectors -> Seq(Fetches)]]
      /\ sm_to_l1' = [sm_to_l1 EXCEPT ![c][a] = Append(sm_to_l1[c][a], h)]
      /\ r \in unsent /\ unsent' = unsent \ {r}
      /\ pending' = IF needs_reply(h) THEN pending \cup {r} ELSE pending
  BY <1>0 DEF CyclesOK, Send, Self, Home, Sector
<1>. HIDE DEF h, c, a
<1>3. New(h)
  BY <1>1, <1>2 DEF New
<1>4. /\ sm_to_l1' \in [SMs -> [Sectors -> Seq(Fetches)]]
      /\ \A d \in SMs : \A b \in Sectors : \A m :
           m \in ToSet(sm_to_l1'[d][b]) <=> m \in ToSet(sm_to_l1[d][b]) \/ (d = c /\ b = a /\ m = h)
      /\ \A d \in SMs : \A b \in Sectors : Once(sm_to_l1'[d][b], Fetches)
  <2>1. h \notin ToSet(sm_to_l1[c][a])
    <3>1. h \in Writes \/ h \in Fetches \ Writes
      BY <1>1
    <3>. QED
      BY <1>0, <1>1, <1>3, <3>1 DEF WriteInv, LoadInv, Bank
  <2>2. \A d \in SMs : \A b \in Sectors : Once(sm_to_l1[d][b], Fetches)
    BY <1>0 DEF OnceInv
  <2>3. BankPushed(sm_to_l1, sm_to_l1', c, a, h)
    BY <1>1, <1>2, BankPush
  <2>. QED
    BY <2>1, <2>2, <2>3 DEF BankPushed
<1>5. \A m \in Fetches : /\ New(m)' => New(m) /\ m # h
                         /\ Bank(m)' <=> Bank(m) \/ m = h
                         /\ Hit(m)' <=> Hit(m)
                         /\ Mshr(m)' <=> Mshr(m)
                         /\ Miss(m)' <=> Miss(m)
                         /\ Up(m)' <=> Up(m)
                         /\ L2In(m)' <=> L2In(m)
                         /\ L2Mshr(m)' <=> L2Mshr(m)
                         /\ L2Hit(m)' <=> L2Hit(m)
                         /\ Dram(m)' <=> Dram(m)
                         /\ Down(m)' <=> Down(m)
  <2>1. (\A m : Home(m)' = Home(m) /\ Sector(m)' = Sector(m)) /\ \A q : Self(q)' = Self(q)
    BY <1>u, PlacesStay
  <2>2. ASSUME NEW m \in Fetches PROVE Bank(m)' <=> Bank(m) \/ m = h
    <3>1. Bank(m)' <=> m \in ToSet(sm_to_l1'[Home(m)][Sector(m)])
      BY <2>1 DEF Bank
    <3>2. Home(m) \in SMs /\ Sector(m) \in Sectors
      BY <1>t
    <3>3. m = h => Home(m) = c /\ Sector(m) = a
      BY <1>1
    <3>4. m \in ToSet(sm_to_l1'[Home(m)][Sector(m)])
            <=> m \in ToSet(sm_to_l1[Home(m)][Sector(m)]) \/ (Home(m) = c /\ Sector(m) = a /\ m = h)
      BY <1>4, <3>2
    <3>. QED
      BY <3>1, <3>3, <3>4 DEF Bank
  <2>3. ASSUME NEW m \in Fetches, New(m)'
        PROVE  New(m) /\ m # h
    <3>1. \/ Req(m) \in unsent'
          \/ m[2] = "wt" /\ Self(Req(m)) \in ToSet(sm_to_l1'[Home(m)][Sector(m)])
      BY <2>1, <2>3 DEF New, Req
    <3>2. m # h
      BY <1>1, <1>2, <3>1
    <3>3. Self(Req(m)) = h => Req(m) = r
      BY <1>1 DEF Self, Req
    <3>. QED
      BY <1>t, <1>2, <1>4, <3>1, <3>2, <3>3 DEF New
  <2>. QED
    BY <1>u, <2>2, <2>3, PlacesStay
<1>6. CyclesOK'
  <2>w. WithinLimits'
    BY <1>0, <1>u DEF CyclesOK, WithinLimits, probe
  <2>. QED
    BY <1>0, <1>u, <1>2, <1>4, <2>w DEF CyclesOK
<1>7. PlaceInv'
  <2>1. \A d \in SMs : \A b \in Sectors :
          \A m \in ToSet(sm_to_l1'[d][b]) : m \in ToSet(sm_to_l1[d][b]) \/ (Home(m) = d /\ Sector(m) = b /\ m = Self(Req(m)))
    <3>1. Home(h) = c /\ Sector(h) = a /\ h = Self(Req(h))
      BY <1>1
    <3>. QED
      BY <1>4, <3>1
  <2>. QED
    BY <1>0, <1>u, <2>1, PlaceStep
<1>8. OnceInv'
  BY <1>0, <1>u, <1>4 DEF OnceInv
<1>9. WriteInv' /\ LoadInv'
  BY <1>0, <1>u, <1>1, <1>3, <1>5 DEF WriteInv, LoadInv, Writes
<1>10. WaitInv'
  BY <1>0, <1>1, <1>2, <1>5 DEF WaitInv
<1>11. PendInv'
  <2>1. \A m \in Fetches : m = Self(Req(m)) /\ Req(m) = r => m = h
    BY <1>1
  <2>. QED
    BY <1>0, <1>u, <1>2, <1>5, <2>1, PlacesStay DEF PendInv
<1>12. L1EntryInv' /\ L2EntryInv' /\ NoReplyFault'
  BY <1>0, <1>u, <1>5 DEF L1EntryInv, L2EntryInv, NoReplyFault, probe
<1>. QED
  BY <1>6, <1>7, <1>8, <1>9, <1>10, <1>11, <1>12 DEF Inv

\* What every access of the L1 does to its bank queue.
Taken(c, a, h) ==
  /\ sm_to_l1' \in [SMs -> [Sectors -> Seq(Fetches)]]
  /\ h \in Fetches /\ Home(h) = c /\ Sector(h) = a /\ h = Self(Req(h)) /\ Bank(h) /\ h[2] # "wt"
  /\ <<Req(h), "wt">> \in Fetches /\ New(<<Req(h), "wt">>)
  /\ \A d \in SMs : \A b \in Sectors : Once(sm_to_l1'[d][b], Fetches)
  /\ \A d \in SMs : \A b \in Sectors : ToSet(sm_to_l1'[d][b]) \subseteq ToSet(sm_to_l1[d][b])
  /\ \A m \in Fetches : Bank(m)' <=> Bank(m) /\ m # h
  /\ \A m \in Fetches : New(m)' => New(m) /\ m # <<Req(h), "wt">>

LEMMA L1Takes ==
  ASSUME Inv, NEW c \in SMs, NEW a \in Sectors, L1Access(c, a)
  PROVE  Taken(c, a, Head(sm_to_l1[c][a]))
<1>. DEFINE h == Head(sm_to_l1[c][a])
            w == <<Req(h), "wt">>
<1>0. CyclesOK /\ PlaceInv /\ OnceInv /\ WriteInv /\ LoadInv
  BY DEF Inv
<1>u. UNCHANGED <<sm, kind, addr, unsent>>
  BY DEF L1Access
<1>t. \A m \in Fetches : Home(m) \in SMs /\ Sector(m) \in Sectors /\ Req(m) \in Reqs
  BY <1>0, FetchFacts
<1>1. /\ sm_to_l1 \in [SMs -> [Sectors -> Seq(Fetches)]] /\ sm_to_l1[c][a] # <<>>
      /\ sm_to_l1' = [sm_to_l1 EXCEPT ![c][a] = Tail(sm_to_l1[c][a])]
  BY <1>0 DEF CyclesOK, L1Access
<1>2. /\ sm_to_l1' \in [SMs -> [Sectors -> Seq(Fetches)]]
      /\ h \in Fetches /\ h \in ToSet(sm_to_l1[c][a])
      /\ \A d \in SMs : \A b \in Sectors : ToSet(sm_to_l1'[d][b]) \subseteq ToSet(sm_to_l1[d][b])
      /\ \A d \in SMs : \A b \in Sectors : \A m \in ToSet(sm_to_l1[d][b]) :
           m \in ToSet(sm_to_l1'[d][b]) \/ (d = c /\ b = a /\ m = h)
      /\ \A d \in SMs : \A b \in Sectors : Once(sm_to_l1'[d][b], Fetches)
      /\ h \notin ToSet(sm_to_l1'[c][a])
  <2>1. \A d \in SMs : \A b \in Sectors : Once(sm_to_l1[d][b], Fetches)
    BY <1>0 DEF OnceInv
  <2>2. BankPopped(sm_to_l1, sm_to_l1', c, a, h)
    BY <1>1, BankPop
  <2>. QED
    BY <2>1, <2>2 DEF BankPopped
<1>. HIDE DEF h
<1>3. Home(h) = c /\ Sector(h) = a /\ h = Self(Req(h)) /\ Bank(h)
  BY <1>0, <1>2 DEF PlaceInv, Bank
<1>4. Req(h) \in Reqs /\ kind[Req(h)] # "wt" /\ h[2] # "wt" /\ w \in Fetches /\ Req(w) = Req(h) /\ w[2] = "wt"
  <2>1. Req(h) \in Reqs
    BY <1>t, <1>2
  <2>2. kind[Req(h)] # "wt"
    BY <1>0, <2>1 DEF CyclesOK
  <2>3. h[2] # "wt"
    BY <1>3, <2>2 DEF Self
  <2>4. w \in Fetches /\ Req(w) = Req(h) /\ w[2] = "wt"
    BY <2>1 DEF Fetches, Req
  <2>. QED
    BY <2>1, <2>2, <2>3, <2>4
<1>5. Home(w) = c /\ Sector(w) = a
  BY <1>3, <1>4 DEF Home, Sector, Req
<1>. HIDE DEF w
<1>6. New(w)
  BY <1>2, <1>3, <1>4, <1>5 DEF New
<1>7. (\A m : Home(m)' = Home(m) /\ Sector(m)' = Sector(m)) /\ \A q : Self(q)' = Self(q)
  BY <1>u, PlacesStay
<1>8. \A m \in Fetches : Bank(m)' <=> Bank(m) /\ m # h
  BY <1>t, <1>2, <1>3, <1>7 DEF Bank
<1>9. Req(h) \notin unsent
  <2>1. ~New(h)
    <3>1. h \in Writes \/ h \in Fetches \ Writes
      BY <1>2
    <3>. QED
      BY <1>0, <1>3, <3>1 DEF WriteInv, LoadInv
  <2>. QED
    BY <2>1 DEF New
<1>10. ASSUME NEW m \in Fetches, New(m)'
       PROVE  New(m) /\ m # w
  <2>1. \/ Req(m) \in unsent
        \/ m[2] = "wt" /\ Self(Req(m)) \in ToSet(sm_to_l1'[Home(m)][Sector(m)])
    BY <1>u, <1>7, <1>10 DEF New, Req
  <2>2. m # w
    BY <1>2, <1>3, <1>4, <1>5, <1>9, <2>1
  <2>. QED
    BY <1>t, <1>2, <2>1, <2>2 DEF New
<1>. QED
  BY <1>2, <1>3, <1>4, <1>6, <1>8, <1>10 DEF Taken, h, w

\* A write that hits: its copy goes on, the request itself back or away.
LEMMA L1WriteHitStep ==
  ASSUME Inv, NEW c \in SMs, NEW a \in Sectors, NEW h, Taken(c, a, h), L1WriteHit(c, a, h),
         UNCHANGED <<sm, kind, addr, unsent, pending, l1, up, down, l2Vars, retired, fault>>
  PROVE  Inv'
<1>. DEFINE w == <<Req(h), "wt">>
<1>0. CyclesOK /\ PlaceInv /\ OnceInv /\ WriteInv /\ LoadInv /\ WaitInv /\ PendInv /\ L1EntryInv /\ L2EntryInv /\ NoReplyFault
  BY DEF Inv
<1>u. UNCHANGED <<sm, kind, addr, unsent, pending, l1, l1_mshr, up, down, l1_to_l2, l2, l2_mshr,
                  l2_to_sms, dram, retired, fault>>
  BY DEF L1WriteHit, l2Vars
<1>t. \A m \in Fetches : Home(m) \in SMs /\ Sector(m) \in Sectors /\ Req(m) \in Reqs
  BY <1>0, FetchFacts
<1>1. /\ miss_queue \in [SMs -> Seq(Fetches)] /\ l1_to_sm \in [SMs -> Seq(Fetches)]
      /\ miss_queue' = [miss_queue EXCEPT ![c] = Append(miss_queue[c], w)]
      /\ l1_to_sm' = IF needs_reply(h) THEN [l1_to_sm EXCEPT ![c] = Append(l1_to_sm[c], h)] ELSE l1_to_sm
      /\ deleted' = IF needs_reply(h) THEN deleted ELSE deleted \cup {h}
      /\ is_write(h)
  BY <1>0 DEF CyclesOK, L1WriteHit
<1>2. /\ h \in Fetches /\ Home(h) = c /\ Sector(h) = a /\ h = Self(Req(h)) /\ Bank(h) /\ h \in Writes
      /\ w \in Fetches /\ w \in Writes /\ New(w) /\ Home(w) = c /\ ~needs_reply(w) /\ w # h
  <2>1. /\ h \in Fetches /\ Home(h) = c /\ Sector(h) = a /\ h = Self(Req(h)) /\ Bank(h) /\ h[2] # "wt"
        /\ w \in Fetches /\ New(w)
    BY DEF Taken
  <2>2. Home(w) = c /\ w[2] = "wt"
    BY <2>1 DEF Home, Req
  <2>. QED
    BY <1>1, <2>1, <2>2 DEF Writes, is_write, needs_reply
<1>. HIDE DEF w
<1>3. /\ miss_queue' \in [SMs -> Seq(Fetches)]
      /\ \A d \in SMs : \A m : m \in ToSet(miss_queue'[d]) <=> m \in ToSet(miss_queue[d]) \/ (d = c /\ m = w)
      /\ \A d \in SMs : Once(miss_queue'[d], Writes)
  <2>1. w \in Writes => w \notin ToSet(miss_queue[c])
    BY <1>0, <1>2 DEF WriteInv, Miss
  <2>2. \A d \in SMs : Once(miss_queue[d], Writes)
    BY <1>0 DEF OnceInv
  <2>3. Pushed(miss_queue, miss_queue', c, w, Writes)
    BY <1>1, <1>2, PushQueue
  <2>. QED
    BY <2>1, <2>2, <2>3 DEF Pushed
<1>4. /\ l1_to_sm' \in [SMs -> Seq(Fetches)]
      /\ \A d \in SMs : \A m : m \in ToSet(l1_to_sm'[d]) <=> m \in ToSet(l1_to_sm[d]) \/ (d = c /\ m = h /\ needs_reply(h))
      /\ \A d \in SMs : Once(l1_to_sm'[d], Fetches)
  <2>1. h \in Fetches => h \notin ToSet(l1_to_sm[c])
    BY <1>0, <1>2 DEF WriteInv, Hit
  <2>2. \A d \in SMs : Once(l1_to_sm[d], Fetches)
    BY <1>0 DEF OnceInv
  <2>3. CASE needs_reply(h)
    <3>1. l1_to_sm' = [l1_to_sm EXCEPT ![c] = Append(l1_to_sm[c], h)]
      BY <1>1, <2>3
    <3>2. Pushed(l1_to_sm, l1_to_sm', c, h, Fetches)
      BY <1>1, <1>2, <3>1, PushQueue
    <3>. QED
      BY <2>1, <2>2, <2>3, <3>2 DEF Pushed
  <2>4. CASE ~needs_reply(h)
    BY <1>1, <2>2, <2>4
  <2>. QED
    BY <2>3, <2>4
<1>5. \A m \in Fetches : /\ New(m)' => New(m) /\ m # w
                         /\ Bank(m)' <=> Bank(m) /\ m # h
                         /\ Hit(m)' <=> Hit(m) \/ (m = h /\ needs_reply(h))
                         /\ Mshr(m)' <=> Mshr(m)
                         /\ Miss(m)' <=> Miss(m) \/ m = w
                         /\ Up(m)' <=> Up(m)
                         /\ L2In(m)' <=> L2In(m)
                         /\ L2Mshr(m)' <=> L2Mshr(m)
                         /\ L2Hit(m)' <=> L2Hit(m)
                         /\ Dram(m)' <=> Dram(m)
                         /\ Down(m)' <=> Down(m)
  <2>1. \A m : Home(m)' = Home(m) /\ Sector(m)' = Sector(m)
    BY <1>u, PlacesStay
  <2>2. \A m \in Fetches : Miss(m)' <=> Miss(m) \/ m = w
    BY <1>t, <1>2, <1>3, <2>1 DEF Miss
  <2>3. \A m \in Fetches : Hit(m)' <=> Hit(m) \/ (m = h /\ needs_reply(h))
    BY <1>t, <1>2, <1>4, <2>1 DEF Hit
  <2>4. \A m \in Fetches : (Bank(m)' <=> Bank(m) /\ m # h) /\ (New(m)' => New(m) /\ m # w)
    BY DEF Taken, w
  <2>. QED
    BY <1>u, <2>2, <2>3, <2>4, PlacesStay
<1>6. CyclesOK'
  <2>w. WithinLimits'
    BY <1>0, <1>u DEF CyclesOK, WithinLimits, probe
  <2>1. sm_to_l1' \in [SMs -> [Sectors -> Seq(Fetches)]]
    BY DEF Taken
  <2>2. deleted' \subseteq Fetches
    BY <1>0, <1>1, <1>2 DEF CyclesOK
  <2>. QED
    BY <1>0, <1>u, <1>3, <1>4, <2>w, <2>1, <2>2 DEF CyclesOK
<1>7. PlaceInv'
  <2>1. \A d \in SMs : \A b \in Sectors : ToSet(sm_to_l1'[d][b]) \subseteq ToSet(sm_to_l1[d][b])
    BY DEF Taken
  <2>2. \A d \in SMs : \A m \in ToSet(l1_to_sm'[d]) : m \in ToSet(l1_to_sm[d]) \/ (Home(m) = d /\ m = Self(Req(m)) /\ needs_reply(m))
    BY <1>2, <1>4
  <2>3. \A d \in SMs : \A m \in ToSet(miss_queue'[d]) : m \in ToSet(miss_queue[d]) \/ (Home(m) = d /\ (needs_reply(m) => m = Self(Req(m))))
    BY <1>2, <1>3
  <2>. QED
    BY <1>0, <1>u, <2>1, <2>2, <2>3, PlaceStep
<1>8. OnceInv'
  <2>1. \A d \in SMs : \A b \in Sectors : Once(sm_to_l1'[d][b], Fetches)
    BY DEF Taken
  <2>. QED
    BY <1>0, <1>u, <1>3, <1>4, <2>1 DEF OnceInv
<1>9. WriteInv' /\ LoadInv'
  BY <1>0, <1>u, <1>1, <1>2, <1>5 DEF WriteInv, LoadInv, Writes
<1>10. WaitInv'
  BY <1>0, <1>u, <1>2, <1>5 DEF WaitInv
<1>11. PendInv'
  BY <1>0, <1>u, <1>2, <1>5, PlacesStay DEF PendInv
<1>12. L1EntryInv' /\ L2EntryInv' /\ NoReplyFault'
  BY <1>0, <1>u, <1>5 DEF L1EntryInv, L2EntryInv, NoReplyFault, probe
<1>. QED
  BY <1>6, <1>7, <1>8, <1>9, <1>10, <1>11, <1>12 DEF Inv

\* A write that misses goes on.
LEMMA L1WriteMissStep ==
  ASSUME Inv, NEW c \in SMs, NEW a \in Sectors, NEW h, Taken(c, a, h), L1WriteMiss(c, a, h),
         UNCHANGED <<sm, kind, addr, unsent, pending, l1, up, down, l2Vars, retired, fault>>
  PROVE  Inv'
<1>0. CyclesOK /\ PlaceInv /\ OnceInv /\ WriteInv /\ LoadInv /\ WaitInv /\ PendInv /\ L1EntryInv /\ L2EntryInv /\ NoReplyFault
  BY DEF Inv
<1>u. UNCHANGED <<sm, kind, addr, unsent, pending, l1, l1_mshr, l1_to_sm, up, down, l1_to_l2, l2, l2_mshr,
                  l2_to_sms, dram, deleted, retired, fault>>
  BY DEF L1WriteMiss, l2Vars
<1>t. \A m \in Fetches : Home(m) \in SMs /\ Sector(m) \in Sectors /\ Req(m) \in Reqs
  BY <1>0, FetchFacts
<1>1. /\ miss_queue \in [SMs -> Seq(Fetches)]
      /\ miss_queue' = [miss_queue EXCEPT ![c] = Append(miss_queue[c], h)]
      /\ is_write(h)
  BY <1>0 DEF CyclesOK, L1WriteMiss
<1>2. h \in Fetches /\ Home(h) = c /\ Sector(h) = a /\ h = Self(Req(h)) /\ Bank(h) /\ h \in Writes
  BY <1>1 DEF Taken, Writes
<1>3. /\ miss_queue' \in [SMs -> Seq(Fetches)]
      /\ \A d \in SMs : \A m : m \in ToSet(miss_queue'[d]) <=> m \in ToSet(miss_queue[d]) \/ (d = c /\ m = h)
      /\ \A d \in SMs : Once(miss_queue'[d], Writes)
  <2>1. h \in Writes => h \notin ToSet(miss_queue[c])
    BY <1>0, <1>2 DEF WriteInv, Miss
  <2>2. \A d \in SMs : Once(miss_queue[d], Writes)
    BY <1>0 DEF OnceInv
  <2>3. Pushed(miss_queue, miss_queue', c, h, Writes)
    BY <1>1, <1>2, PushQueue
  <2>. QED
    BY <2>1, <2>2, <2>3 DEF Pushed
<1>5. \A m \in Fetches : /\ New(m)' => New(m)
                         /\ Bank(m)' <=> Bank(m) /\ m # h
                         /\ Hit(m)' <=> Hit(m)
                         /\ Mshr(m)' <=> Mshr(m)
                         /\ Miss(m)' <=> Miss(m) \/ m = h
                         /\ Up(m)' <=> Up(m)
                         /\ L2In(m)' <=> L2In(m)
                         /\ L2Mshr(m)' <=> L2Mshr(m)
                         /\ L2Hit(m)' <=> L2Hit(m)
                         /\ Dram(m)' <=> Dram(m)
                         /\ Down(m)' <=> Down(m)
  <2>1. \A m : Home(m)' = Home(m) /\ Sector(m)' = Sector(m)
    BY <1>u, PlacesStay
  <2>2. \A m \in Fetches : Miss(m)' <=> Miss(m) \/ m = h
    BY <1>t, <1>2, <1>3, <2>1 DEF Miss
  <2>3. \A m \in Fetches : (Bank(m)' <=> Bank(m) /\ m # h) /\ (New(m)' => New(m))
    BY DEF Taken
  <2>. QED
    BY <1>u, <2>2, <2>3, PlacesStay
<1>6. CyclesOK'
  <2>w. WithinLimits'
    BY <1>0, <1>u DEF CyclesOK, WithinLimits, probe
  <2>1. sm_to_l1' \in [SMs -> [Sectors -> Seq(Fetches)]]
    BY DEF Taken
  <2>. QED
    BY <1>0, <1>u, <1>3, <2>w, <2>1 DEF CyclesOK
<1>7. PlaceInv'
  <2>1. \A d \in SMs : \A b \in Sectors : ToSet(sm_to_l1'[d][b]) \subseteq ToSet(sm_to_l1[d][b])
    BY DEF Taken
  <2>2. \A d \in SMs : \A m \in ToSet(miss_queue'[d]) : m \in ToSet(miss_queue[d]) \/ (Home(m) = d /\ (needs_reply(m) => m = Self(Req(m))))
    BY <1>2, <1>3
  <2>. QED
    BY <1>0, <1>u, <2>1, <2>2, PlaceStep
<1>8. OnceInv'
  <2>1. \A d \in SMs : \A b \in Sectors : Once(sm_to_l1'[d][b], Fetches)
    BY DEF Taken
  <2>. QED
    BY <1>0, <1>u, <1>3, <2>1 DEF OnceInv
<1>9. WriteInv' /\ LoadInv'
  BY <1>0, <1>u, <1>1, <1>2, <1>5 DEF WriteInv, LoadInv, Writes
<1>10. WaitInv'
  BY <1>0, <1>u, <1>2, <1>5 DEF WaitInv
<1>11. PendInv'
  BY <1>0, <1>u, <1>2, <1>5, PlacesStay DEF PendInv
<1>12. L1EntryInv' /\ L2EntryInv' /\ NoReplyFault'
  BY <1>0, <1>u, <1>5 DEF L1EntryInv, L2EntryInv, NoReplyFault, probe
<1>. QED
  BY <1>6, <1>7, <1>8, <1>9, <1>10, <1>11, <1>12 DEF Inv

\* A load that hits goes back.
LEMMA L1ReadHitStep ==
  ASSUME Inv, NEW c \in SMs, NEW a \in Sectors, NEW h, Taken(c, a, h), L1ReadHit(c, a, h),
         UNCHANGED <<sm, kind, addr, unsent, pending, l1, up, down, l2Vars, retired, fault>>
  PROVE  Inv'
<1>0. CyclesOK /\ PlaceInv /\ OnceInv /\ WriteInv /\ LoadInv /\ WaitInv /\ PendInv /\ L1EntryInv /\ L2EntryInv /\ NoReplyFault
  BY DEF Inv
<1>u. UNCHANGED <<sm, kind, addr, unsent, pending, l1, l1_mshr, miss_queue, up, down, l1_to_l2, l2, l2_mshr,
                  l2_to_sms, dram, deleted, retired, fault>>
  BY DEF L1ReadHit, l2Vars
<1>t. \A m \in Fetches : Home(m) \in SMs /\ Sector(m) \in Sectors /\ Req(m) \in Reqs
  BY <1>0, FetchFacts
<1>1. /\ l1_to_sm \in [SMs -> Seq(Fetches)]
      /\ l1_to_sm' = [l1_to_sm EXCEPT ![c] = Append(l1_to_sm[c], h)]
      /\ ~is_write(h)
  BY <1>0 DEF CyclesOK, L1ReadHit
<1>2. h \in Fetches /\ Home(h) = c /\ Sector(h) = a /\ h = Self(Req(h)) /\ Bank(h) /\ h \notin Writes /\ needs_reply(h)
  <2>1. h \in Fetches /\ Home(h) = c /\ Sector(h) = a /\ h = Self(Req(h)) /\ Bank(h)
    BY DEF Taken
  <2>. QED
    BY <1>1, <2>1 DEF Writes, is_write, needs_reply
<1>3. /\ l1_to_sm' \in [SMs -> Seq(Fetches)]
      /\ \A d \in SMs : \A m : m \in ToSet(l1_to_sm'[d]) <=> m \in ToSet(l1_to_sm[d]) \/ (d = c /\ m = h)
      /\ \A d \in SMs : Once(l1_to_sm'[d], Fetches)
  <2>1. h \in Fetches => h \notin ToSet(l1_to_sm[c])
    BY <1>0, <1>2 DEF LoadInv, Hit
  <2>2. \A d \in SMs : Once(l1_to_sm[d], Fetches)
    BY <1>0 DEF OnceInv
  <2>3. Pushed(l1_to_sm, l1_to_sm', c, h, Fetches)
    BY <1>1, <1>2, PushQueue
  <2>. QED
    BY <2>1, <2>2, <2>3 DEF Pushed
<1>5. \A m \in Fetches : /\ New(m)' => New(m)
                         /\ Bank(m)' <=> Bank(m) /\ m # h
                         /\ Hit(m)' <=> Hit(m) \/ m = h
                         /\ Mshr(m)' <=> Mshr(m)
                         /\ Miss(m)' <=> Miss(m)
                         /\ Up(m)' <=> Up(m)
                         /\ L2In(m)' <=> L2In(m)
                         /\ L2Mshr(m)' <=> L2Mshr(m)
                         /\ L2Hit(m)' <=> L2Hit(m)
                         /\ Dram(m)' <=> Dram(m)
                         /\ Down(m)' <=> Down(m)
  <2>1. \A m : Home(m)' = Home(m) /\ Sector(m)' = Sector(m)
    BY <1>u, PlacesStay
  <2>2. \A m \in Fetches : Hit(m)' <=> Hit(m) \/ m = h
    BY <1>t, <1>2, <1>3, <2>1 DEF Hit
  <2>3. \A m \in Fetches : (Bank(m)' <=> Bank(m) /\ m # h) /\ (New(m)' => New(m))
    BY DEF Taken
  <2>. QED
    BY <1>u, <2>2, <2>3, PlacesStay
<1>6. CyclesOK'
  <2>w. WithinLimits'
    BY <1>0, <1>u DEF CyclesOK, WithinLimits, probe
  <2>1. sm_to_l1' \in [SMs -> [Sectors -> Seq(Fetches)]]
    BY DEF Taken
  <2>. QED
    BY <1>0, <1>u, <1>3, <2>w, <2>1 DEF CyclesOK
<1>7. PlaceInv'
  <2>1. \A d \in SMs : \A b \in Sectors : ToSet(sm_to_l1'[d][b]) \subseteq ToSet(sm_to_l1[d][b])
    BY DEF Taken
  <2>2. \A d \in SMs : \A m \in ToSet(l1_to_sm'[d]) : m \in ToSet(l1_to_sm[d]) \/ (Home(m) = d /\ m = Self(Req(m)) /\ needs_reply(m))
    BY <1>2, <1>3
  <2>. QED
    BY <1>0, <1>u, <2>1, <2>2, PlaceStep
<1>8. OnceInv'
  <2>1. \A d \in SMs : \A b \in Sectors : Once(sm_to_l1'[d][b], Fetches)
    BY DEF Taken
  <2>. QED
    BY <1>0, <1>u, <1>3, <2>1 DEF OnceInv
<1>9. WriteInv' /\ LoadInv'
  BY <1>0, <1>u, <1>1, <1>2, <1>5 DEF WriteInv, LoadInv, Writes
<1>10. WaitInv'
  BY <1>0, <1>u, <1>2, <1>5 DEF WaitInv
<1>11. PendInv'
  BY <1>0, <1>u, <1>2, <1>5, PlacesStay DEF PendInv
<1>12. L1EntryInv' /\ L2EntryInv' /\ NoReplyFault'
  BY <1>0, <1>u, <1>5 DEF L1EntryInv, L2EntryInv, NoReplyFault, probe
<1>. QED
  BY <1>6, <1>7, <1>8, <1>9, <1>10, <1>11, <1>12 DEF Inv

\* A load that misses waits in the MSHRs, and goes on if it opened the entry.
LEMMA L1ReadMissStep ==
  ASSUME Inv, NEW c \in SMs, NEW a \in Sectors, NEW h, Taken(c, a, h), L1ReadMiss(c, a, h),
         UNCHANGED <<sm, kind, addr, unsent, pending, l1, up, down, l2Vars, retired, fault>>
  PROVE  Inv'
<1>. DEFINE opens == ~probe(l1_mshr[c], a)
<1>0. CyclesOK /\ PlaceInv /\ OnceInv /\ WriteInv /\ LoadInv /\ WaitInv /\ PendInv /\ L1EntryInv /\ L2EntryInv /\ NoReplyFault
  BY DEF Inv
<1>u. UNCHANGED <<sm, kind, addr, unsent, pending, l1, l1_to_sm, up, down, l1_to_l2, l2, l2_mshr,
                  l2_to_sms, dram, deleted, retired, fault>>
  BY DEF L1ReadMiss, l2Vars
<1>t. \A m \in Fetches : Home(m) \in SMs /\ Sector(m) \in Sectors /\ Req(m) \in Reqs
  BY <1>0, FetchFacts
<1>1. /\ miss_queue \in [SMs -> Seq(Fetches)] /\ l1_mshr \in [SMs -> [Sectors -> Seq(Fetches)]]
      /\ miss_queue' = IF opens THEN [miss_queue EXCEPT ![c] = Append(miss_queue[c], h)] ELSE miss_queue
      /\ l1_mshr' = [l1_mshr EXCEPT ![c][a] = Append(l1_mshr[c][a], h)]
      /\ ~is_write(h) /\ ~full(l1_mshr[c], a, L1Entries, L1Merge)
  BY <1>0 DEF CyclesOK, L1ReadMiss
<1>2. /\ h \in Fetches /\ Home(h) = c /\ Sector(h) = a /\ h = Self(Req(h)) /\ Bank(h) /\ h \notin Writes
      /\ needs_reply(h) /\ h[2] = "load"
  <2>1. h \in Fetches /\ Home(h) = c /\ Sector(h) = a /\ h = Self(Req(h)) /\ Bank(h)
    BY DEF Taken
  <2>. QED
    BY <1>1, <2>1 DEF Writes, is_write, needs_reply
<1>3. /\ miss_queue' \in [SMs -> Seq(Fetches)]
      /\ \A d \in SMs : \A m : m \in ToSet(miss_queue'[d]) <=> m \in ToSet(miss_queue[d]) \/ (d = c /\ m = h /\ opens)
      /\ \A d \in SMs : Once(miss_queue'[d], Writes)
  <2>2. \A d \in SMs : Once(miss_queue[d], Writes)
    BY <1>0 DEF OnceInv
  <2>3. CASE opens
    <3>1. miss_queue' = [miss_queue EXCEPT ![c] = Append(miss_queue[c], h)]
      BY <1>1, <2>3
    <3>2. Pushed(miss_queue, miss_queue', c, h, Writes)
      BY <1>1, <1>2, <3>1, PushQueue
    <3>. QED
      BY <1>2, <2>2, <2>3, <3>2 DEF Pushed
  <2>4. CASE ~opens
    BY <1>1, <2>2, <2>4
  <2>. QED
    BY <2>3, <2>4
<1>4. /\ l1_mshr' \in [SMs -> [Sectors -> Seq(Fetches)]]
      /\ \A d \in SMs : \A b \in Sectors : \A m :
           m \in ToSet(l1_mshr'[d][b]) <=> m \in ToSet(l1_mshr[d][b]) \/ (d = c /\ b = a /\ m = h)
  <2>1. BankPushed(l1_mshr, l1_mshr', c, a, h)
    BY <1>1, <1>2, BankPush
  <2>. QED
    BY <2>1 DEF BankPushed
<1>. DEFINE z == [l1_mshr[c] EXCEPT ![a] = Append(l1_mshr[c][a], h)]
<1>m. /\ l1_mshr[c] \in [Sectors -> Seq(Fetches)]
      /\ \A d \in SMs : l1_mshr'[d] = IF d = c THEN z ELSE l1_mshr[d]
      /\ \A b \in Sectors : z[b] = IF b = a THEN Append(l1_mshr[c][a], h) ELSE l1_mshr[c][b]
  BY <1>1
<1>5. \A m \in Fetches : /\ New(m)' => New(m)
                         /\ Bank(m)' <=> Bank(m) /\ m # h
                         /\ Hit(m)' <=> Hit(m)
                         /\ Mshr(m)' <=> Mshr(m) \/ m = h
                         /\ Miss(m)' <=> Miss(m) \/ (m = h /\ opens)
                         /\ Up(m)' <=> Up(m)
                         /\ L2In(m)' <=> L2In(m)
                         /\ L2Mshr(m)' <=> L2Mshr(m)
                         /\ L2Hit(m)' <=> L2Hit(m)
                         /\ Dram(m)' <=> Dram(m)
                         /\ Down(m)' <=> Down(m)
  <2>1. \A m : Home(m)' = Home(m) /\ Sector(m)' = Sector(m)
    BY <1>u, PlacesStay
  <2>2. \A m \in Fetches : Miss(m)' <=> Miss(m) \/ (m = h /\ opens)
    BY <1>t, <1>2, <1>3, <2>1 DEF Miss
  <2>3. \A m \in Fetches : Mshr(m)' <=> Mshr(m) \/ m = h
    <3>. TAKE m \in Fetches
    <3>1. Mshr(m)' <=> m \in ToSet(l1_mshr'[Home(m)][Sector(m)])
      BY <2>1 DEF Mshr
    <3>2. m \in ToSet(l1_mshr'[Home(m)][Sector(m)])
            <=> m \in ToSet(l1_mshr[Home(m)][Sector(m)]) \/ (Home(m) = c /\ Sector(m) = a /\ m = h)
      <4>1. Home(m) \in SMs /\ Sector(m) \in Sectors
        BY <1>t
      <4>2. \A d \in SMs : \A b \in Sectors :
              m \in ToSet(l1_mshr'[d][b]) <=> m \in ToSet(l1_mshr[d][b]) \/ (d = c /\ b = a /\ m = h)
        BY <1>4
      <4>. QED
        BY <4>1, <4>2
    <3>. QED
      BY <1>2, <3>1, <3>2 DEF Mshr
  <2>4. \A m \in Fetches : (Bank(m)' <=> Bank(m) /\ m # h) /\ (New(m)' => New(m))
    BY DEF Taken
  <2>. QED
    BY <1>u, <2>2, <2>3, <2>4, PlacesStay
<1>6. CyclesOK'
  <2>l. WithinLimits
    BY <1>0 DEF CyclesOK
  <2>k. L1Entries \in Nat /\ L1Merge \in Nat /\ L1Merge # 0
    BY MemPathAssumption
  <2>1. Limited(z, L1Entries, L1Merge)
    <3>1. Limited(l1_mshr[c], L1Entries, L1Merge)
      BY <2>l, LimitsAre
    <3>. QED
      BY <1>1, <1>2, <1>m, <2>k, <3>1, MergeFacts
  <2>. HIDE DEF z
  <2>2. \A d \in SMs : Limited(l1_mshr'[d], L1Entries, L1Merge)
    BY <1>m, <2>l, <2>1, LimitsAre
  <2>3. WithinLimits'
    <3>1. /\ \A d \in SMs : Len(up'[d]) <= InBufferLimit /\ Cardinality(l1'[d]) <= L1Lines
          /\ Limited(l2_mshr', L2Entries, L2Merge)
          /\ Cardinality(l2') <= L2Lines
      BY <1>u, <2>l, LimitsAre
    <3>2. \A d \in SMs : Limited(l1_mshr[d], L1Entries, L1Merge)'
      BY <2>2 DEF Limited, Entries, probe
    <3>3. Limited(l2_mshr, L2Entries, L2Merge)'
      BY <3>1 DEF Limited, Entries, probe
    <3>. QED
      BY <3>1, <3>2, <3>3 DEF WithinLimits, Limited, Entries
  <2>4. sm_to_l1' \in [SMs -> [Sectors -> Seq(Fetches)]]
    BY DEF Taken
  <2>. QED
    BY <1>0, <1>u, <1>3, <1>4, <2>3, <2>4 DEF CyclesOK
<1>7. PlaceInv'
  <2>1. \A d \in SMs : \A b \in Sectors : ToSet(sm_to_l1'[d][b]) \subseteq ToSet(sm_to_l1[d][b])
    BY DEF Taken
  <2>2. \A d \in SMs : \A m \in ToSet(miss_queue'[d]) : m \in ToSet(miss_queue[d]) \/ (Home(m) = d /\ (needs_reply(m) => m = Self(Req(m))))
    BY <1>2, <1>3
  <2>3. \A d \in SMs : \A b \in Sectors : \A m \in ToSet(l1_mshr'[d][b]) :
          m \in ToSet(l1_mshr[d][b]) \/ (Home(m) = d /\ Sector(m) = b /\ m[2] = "load" /\ m = Self(Req(m)))
    <3>. TAKE d \in SMs
    <3>. TAKE b \in Sectors
    <3>. TAKE m \in ToSet(l1_mshr'[d][b])
    <3>1. m \in ToSet(l1_mshr[d][b]) \/ (d = c /\ b = a /\ m = h)
      BY <1>4
    <3>. QED
      BY <1>2, <3>1
  <2>. QED
    BY <1>0, <1>u, <2>1, <2>2, <2>3, PlaceStep
<1>8. OnceInv'
  <2>1. \A d \in SMs : \A b \in Sectors : Once(sm_to_l1'[d][b], Fetches)
    BY DEF Taken
  <2>. QED
    BY <1>0, <1>u, <1>3, <2>1 DEF OnceInv
<1>9. WriteInv' /\ LoadInv'
  BY <1>0, <1>u, <1>2, <1>5 DEF WriteInv, LoadInv, Writes
<1>10. WaitInv'
  BY <1>0, <1>u, <1>2, <1>5 DEF WaitInv
<1>11. PendInv'
  BY <1>0, <1>u, <1>2, <1>5, PlacesStay DEF PendInv
<1>12. L1EntryInv'
  <2>1. SUFFICES ASSUME NEW d \in SMs, NEW b \in Sectors, NEW m \in Fetches, probe(l1_mshr'[d], b), m = Head(l1_mshr'[d][b])
                 PROVE  Miss(m)' \/ Up(m)' \/ L2In(m)' \/ L2Mshr(m)' \/ L2Hit(m)' \/ Down(m)'
    BY DEF L1EntryInv, probe
  <2>2. CASE d = c /\ b = a /\ opens
    <3>1. l1_mshr[c][a] \in Seq(Fetches) /\ l1_mshr[c][a] = <<>> /\ l1_mshr'[d][b] = Append(l1_mshr[c][a], h)
      BY <1>m, <2>2 DEF probe
    <3>2. m = h
      BY <1>2, <2>1, <3>1, PushFacts
    <3>. QED
      BY <1>2, <1>5, <2>2, <3>2
  <2>3. CASE ~(d = c /\ b = a /\ opens)
    <3>1. probe(l1_mshr[d], b) /\ m = Head(l1_mshr[d][b])
      <4>1. CASE d = c /\ b = a
        <5>1. l1_mshr[c][a] \in Seq(Fetches) /\ l1_mshr[c][a] # <<>> /\ l1_mshr'[d][b] = Append(l1_mshr[c][a], h)
          BY <1>m, <2>3, <4>1 DEF probe
        <5>2. Head(l1_mshr'[d][b]) = Head(l1_mshr[c][a])
          BY <1>2, <5>1, PushFacts
        <5>. QED
          BY <2>1, <4>1, <5>1, <5>2 DEF probe
      <4>2. CASE ~(d = c /\ b = a)
        <5>1. l1_mshr'[d][b] = l1_mshr[d][b]
          BY <1>m, <4>2
        <5>. QED
          BY <2>1, <5>1 DEF probe
      <4>. QED
        BY <4>1, <4>2
    <3>2. Miss(m) \/ Up(m) \/ L2In(m) \/ L2Mshr(m) \/ L2Hit(m) \/ Down(m)
      BY <1>0, <3>1 DEF L1EntryInv
    <3>. QED
      BY <1>5, <3>2
  <2>. QED
    BY <2>2, <2>3
<1>13. L2EntryInv' /\ NoReplyFault'
  BY <1>0, <1>u, <1>5 DEF L2EntryInv, NoReplyFault, probe
<1>. QED
  BY <1>6, <1>7, <1>8, <1>9, <1>10, <1>11, <1>12, <1>13 DEF Inv

LEMMA L1AccessStep ==
  ASSUME Inv, NEW c \in SMs, NEW a \in Sectors, L1Access(c, a)
  PROVE  Inv'
<1>. DEFINE h == Head(sm_to_l1[c][a])
<1>1. Taken(c, a, h)
  BY L1Takes
<1>2. /\ L1WriteHit(c, a, h) \/ L1WriteMiss(c, a, h) \/ L1ReadHit(c, a, h) \/ L1ReadMiss(c, a, h)
      /\ UNCHANGED <<sm, kind, addr, unsent, pending, l1, up, down, l2Vars, retired, fault>>
  BY DEF L1Access
<1>. QED
  BY <1>1, <1>2, L1WriteHitStep, L1WriteMissStep, L1ReadHitStep, L1ReadMissStep
-----------------------------------------------------------------------------
(* The L2.                                                                  *)

\* What every access of the L2 does to its queue.
L2Taken(h) ==
  /\ l1_to_l2' \in Seq(Fetches)
  /\ h \in Fetches /\ L2In(h) /\ (needs_reply(h) => h = Self(Req(h)))
  /\ ToSet(l1_to_l2') \subseteq ToSet(l1_to_l2)
  /\ Once(l1_to_l2', Writes)
  /\ \A m \in Fetches : L2In(m)' => L2In(m) /\ (m \in Writes => m # h)
  /\ \A m \in Fetches : L2In(m) => L2In(m)' \/ m = h

LEMMA L2Takes ==
  ASSUME Inv, L2Access
  PROVE  L2Taken(Head(l1_to_l2))
<1>. DEFINE h == Head(l1_to_l2)
<1>0. CyclesOK /\ PlaceInv /\ OnceInv
  BY DEF Inv
<1>1. l1_to_l2 \in Seq(Fetches) /\ l1_to_l2 # <<>> /\ l1_to_l2' = Tail(l1_to_l2)
  BY <1>0 DEF CyclesOK, L2Access
<1>2. /\ h \in Fetches /\ h \in ToSet(l1_to_l2)
      /\ l1_to_l2' \in Seq(Fetches)
      /\ ToSet(l1_to_l2') \subseteq ToSet(l1_to_l2)
      /\ \A m \in ToSet(l1_to_l2) : m = h \/ m \in ToSet(l1_to_l2')
      /\ Once(l1_to_l2', Writes) /\ (h \in Writes => h \notin ToSet(l1_to_l2'))
  <2>1. Once(l1_to_l2, Writes)
    BY <1>0 DEF OnceInv
  <2>. QED
    BY <1>1, <2>1, PopFacts
<1>. HIDE DEF h
<1>3. needs_reply(h) => h = Self(Req(h))
  BY <1>0, <1>2 DEF PlaceInv
<1>. QED
  BY <1>2, <1>3 DEF L2Taken, L2In, h

\* The opening request of an L1's entry is a load.
LEMMA HeadIsLoad ==
  ASSUME CyclesOK, PlaceInv, NEW d \in SMs, NEW b \in Sectors, probe(l1_mshr[d], b)
  PROVE  Head(l1_mshr[d][b]) \notin Writes
<1>1. l1_mshr[d][b] \in Seq(Fetches) /\ l1_mshr[d][b] # <<>>
  BY DEF CyclesOK, probe
<1>2. Head(l1_mshr[d][b]) \in ToSet(l1_mshr[d][b])
  BY <1>1, PopFacts
<1>. QED
  BY <1>2 DEF PlaceInv, Writes, is_write

\* A write that hits in the L2 is answered or done.
LEMMA L2WriteHitStep ==
  ASSUME Inv, NEW h, L2Taken(h), L2WriteHit(Sector(h), h),
         UNCHANGED <<sm, kind, addr, unsent, pending, l1Vars, up, down, retired, fault>>
  PROVE  Inv'
<1>0. CyclesOK /\ PlaceInv /\ OnceInv /\ WriteInv /\ LoadInv /\ WaitInv /\ PendInv /\ L1EntryInv /\ L2EntryInv /\ NoReplyFault
  BY DEF Inv
<1>u. UNCHANGED <<sm, kind, addr, unsent, pending, sm_to_l1, l1, l1_mshr, miss_queue, l1_to_sm, up, down, l2, l2_mshr,
                  dram, retired, fault>>
  BY DEF L2WriteHit, l1Vars
<1>1. /\ l2_to_sms \subseteq Fetches /\ deleted \subseteq Fetches
      /\ l2_to_sms' = IF needs_reply(h) THEN l2_to_sms \cup {h} ELSE l2_to_sms
      /\ deleted' = IF needs_reply(h) THEN deleted ELSE deleted \cup {h}
      /\ is_write(h)
  BY <1>0 DEF CyclesOK, L2WriteHit
<1>2. h \in Fetches /\ L2In(h) /\ (needs_reply(h) => h = Self(Req(h))) /\ h \in Writes
  BY <1>1 DEF L2Taken, Writes
<1>5. \A m \in Fetches : /\ New(m)' <=> New(m)
                         /\ Bank(m)' <=> Bank(m)
                         /\ Hit(m)' <=> Hit(m)
                         /\ Mshr(m)' <=> Mshr(m)
                         /\ Miss(m)' <=> Miss(m)
                         /\ Up(m)' <=> Up(m)
                         /\ L2In(m)' => L2In(m) /\ (m \in Writes => m # h)
                         /\ L2In(m) => L2In(m)' \/ m = h
                         /\ L2Mshr(m)' <=> L2Mshr(m)
                         /\ L2Hit(m)' <=> L2Hit(m) \/ (m = h /\ needs_reply(h))
                         /\ Dram(m)' <=> Dram(m)
                         /\ Down(m)' <=> Down(m)
  <2>1. \A m \in Fetches : L2Hit(m)' <=> L2Hit(m) \/ (m = h /\ needs_reply(h))
    BY <1>1 DEF L2Hit
  <2>2. \A m \in Fetches : /\ L2In(m)' => L2In(m) /\ (m \in Writes => m # h)
                           /\ L2In(m) => L2In(m)' \/ m = h
    BY DEF L2Taken
  <2>. QED
    BY <1>u, <2>1, <2>2, PlacesStay
<1>6. CyclesOK'
  <2>w. WithinLimits'
    BY <1>0, <1>u DEF CyclesOK, WithinLimits, probe
  <2>1. l1_to_l2' \in Seq(Fetches)
    BY DEF L2Taken
  <2>2. l2_to_sms' \subseteq Fetches /\ deleted' \subseteq Fetches
    BY <1>1, <1>2
  <2>. QED
    BY <1>0, <1>u, <2>w, <2>1, <2>2 DEF CyclesOK
<1>7. PlaceInv'
  <2>1. ToSet(l1_to_l2') \subseteq ToSet(l1_to_l2)
    BY DEF L2Taken
  <2>2. \A m \in l2_to_sms' : m \in l2_to_sms \/ (m = Self(Req(m)) /\ needs_reply(m))
    BY <1>1, <1>2
  <2>. QED
    BY <1>0, <1>u, <2>1, <2>2, PlaceStep
<1>8. OnceInv'
  <2>1. Once(l1_to_l2', Writes)
    BY DEF L2Taken
  <2>. QED
    BY <1>0, <1>u, <2>1 DEF OnceInv
<1>9. WriteInv' /\ LoadInv'
  BY <1>0, <1>u, <1>1, <1>2, <1>5 DEF WriteInv, LoadInv, Writes
<1>10. WaitInv'
  BY <1>0, <1>u, <1>2, <1>5 DEF WaitInv
<1>11. PendInv'
  BY <1>0, <1>u, <1>5, PlacesStay DEF PendInv
<1>12. L1EntryInv' /\ L2EntryInv' /\ NoReplyFault'
  <2>1. \A d \in SMs : \A b \in Sectors : \A m \in Fetches : probe(l1_mshr[d], b) /\ m = Head(l1_mshr[d][b]) => m # h
    BY <1>0, <1>2, HeadIsLoad
  <2>. QED
    BY <1>0, <1>u, <1>5, <2>1 DEF L1EntryInv, L2EntryInv, NoReplyFault, probe
<1>. QED
  BY <1>6, <1>7, <1>8, <1>9, <1>10, <1>11, <1>12 DEF Inv

\* A write that misses in the L2 goes to the DRAM, or is done.
LEMMA L2WriteMissStep ==
  ASSUME Inv, NEW h, L2Taken(h), L2WriteMiss(Sector(h), h),
         UNCHANGED <<sm, kind, addr, unsent, pending, l1Vars, up, down, retired, fault>>
  PROVE  Inv'
<1>. DEFINE copy == h[2] = "wt"
<1>0. CyclesOK /\ PlaceInv /\ OnceInv /\ WriteInv /\ LoadInv /\ WaitInv /\ PendInv /\ L1EntryInv /\ L2EntryInv /\ NoReplyFault
  BY DEF Inv
<1>u. UNCHANGED <<sm, kind, addr, unsent, pending, sm_to_l1, l1, l1_mshr, miss_queue, l1_to_sm, up, down, l2_mshr,
                  l2_to_sms, retired, fault>>
  BY DEF L2WriteMiss, l1Vars
<1>1. /\ dram \in Seq(Fetches) /\ deleted \subseteq Fetches
      /\ dram' = IF copy THEN dram ELSE Append(dram, h)
      /\ deleted' = IF copy THEN deleted \cup {h} ELSE deleted
      /\ l2' = l2 \/ (Cardinality(l2) < L2Lines /\ l2' = l2 \cup {Sector(h)} /\ Sector(h) \notin l2)
      /\ is_write(h)
  BY <1>0 DEF CyclesOK, L2WriteMiss
<1>2. h \in Fetches /\ L2In(h) /\ (needs_reply(h) => h = Self(Req(h))) /\ h \in Writes /\ (copy => ~needs_reply(h))
  BY <1>1 DEF L2Taken, Writes, needs_reply
<1>. HIDE DEF copy
<1>3. /\ dram' \in Seq(Fetches)
      /\ \A m : m \in ToSet(dram') <=> m \in ToSet(dram) \/ (m = h /\ ~copy)
      /\ Once(dram', Writes)
  <2>1. h \notin ToSet(dram)
    BY <1>0, <1>2 DEF WriteInv, Dram
  <2>2. Once(dram, Writes)
    BY <1>0 DEF OnceInv
  <2>3. CASE copy
    BY <1>1, <2>2, <2>3
  <2>4. CASE ~copy
    <3>1. /\ Append(dram, h) \in Seq(Fetches) /\ ToSet(Append(dram, h)) = ToSet(dram) \cup {h}
          /\ Once(dram, Writes) /\ (h \in Writes => h \notin ToSet(dram)) => Once(Append(dram, h), Writes)
      BY <1>1, <1>2, PushFacts
    <3>. QED
      BY <1>1, <2>1, <2>2, <2>4, <3>1
  <2>. QED
    BY <2>3, <2>4
<1>5. \A m \in Fetches : /\ New(m)' <=> New(m)
                         /\ Bank(m)' <=> Bank(m)
                         /\ Hit(m)' <=> Hit(m)
                         /\ Mshr(m)' <=> Mshr(m)
                         /\ Miss(m)' <=> Miss(m)
                         /\ Up(m)' <=> Up(m)
                         /\ L2In(m)' => L2In(m) /\ (m \in Writes => m # h)
                         /\ L2In(m) => L2In(m)' \/ m = h
                         /\ L2Mshr(m)' <=> L2Mshr(m)
                         /\ L2Hit(m)' <=> L2Hit(m)
                         /\ Dram(m)' <=> Dram(m) \/ (m = h /\ ~copy)
                         /\ Down(m)' <=> Down(m)
  <2>1. \A m \in Fetches : Dram(m)' <=> Dram(m) \/ (m = h /\ ~copy)
    BY <1>3 DEF Dram
  <2>2. \A m \in Fetches : /\ L2In(m)' => L2In(m) /\ (m \in Writes => m # h)
                           /\ L2In(m) => L2In(m)' \/ m = h
    BY DEF L2Taken
  <2>. QED
    BY <1>u, <2>1, <2>2, PlacesStay
<1>6. CyclesOK'
  <2>l. WithinLimits /\ l2 \subseteq Sectors
    BY <1>0 DEF CyclesOK
  <2>1. l2' \subseteq Sectors /\ Cardinality(l2') <= L2Lines
    <3>1. Sector(h) \in Sectors
      BY <1>0, <1>2, FetchFacts
    <3>2. IsFiniteSet(l2) /\ Cardinality(l2) \in Nat /\ L2Lines \in Nat
      BY <2>l, MemPathAssumption, FS_Subset, FS_CardinalityType
    <3>3. CASE l2' = l2
      BY <2>l, <3>3 DEF WithinLimits
    <3>4. CASE Cardinality(l2) < L2Lines /\ l2' = l2 \cup {Sector(h)} /\ Sector(h) \notin l2
      <4>1. Cardinality(l2') = Cardinality(l2) + 1
        BY <3>2, <3>4, FS_AddElement
      <4>. QED
        BY <2>l, <3>1, <3>2, <3>4, <4>1
    <3>. QED
      BY <1>1, <3>3, <3>4
  <2>w. WithinLimits'
    BY <2>l, <1>u, <2>1 DEF WithinLimits, probe
  <2>2. l1_to_l2' \in Seq(Fetches)
    BY DEF L2Taken
  <2>3. deleted' \subseteq Fetches
    BY <1>1, <1>2
  <2>. QED
    BY <1>0, <1>u, <1>3, <2>w, <2>1, <2>2, <2>3 DEF CyclesOK
<1>7. PlaceInv'
  <2>1. ToSet(l1_to_l2') \subseteq ToSet(l1_to_l2)
    BY DEF L2Taken
  <2>2. \A m \in ToSet(dram') : m \in ToSet(dram) \/ (needs_reply(m) => m = Self(Req(m)))
    BY <1>2, <1>3
  <2>. QED
    BY <1>0, <1>u, <2>1, <2>2, PlaceStep
<1>8. OnceInv'
  <2>1. Once(l1_to_l2', Writes)
    BY DEF L2Taken
  <2>. QED
    BY <1>0, <1>u, <1>3, <2>1 DEF OnceInv
<1>9. WriteInv' /\ LoadInv'
  BY <1>0, <1>u, <1>1, <1>2, <1>5 DEF WriteInv, LoadInv, Writes
<1>10. WaitInv'
  BY <1>0, <1>u, <1>2, <1>5 DEF WaitInv
<1>11. PendInv'
  BY <1>0, <1>u, <1>5, PlacesStay DEF PendInv
<1>12. L1EntryInv' /\ L2EntryInv' /\ NoReplyFault'
  <2>1. \A d \in SMs : \A b \in Sectors : \A m \in Fetches : probe(l1_mshr[d], b) /\ m = Head(l1_mshr[d][b]) => m # h
    BY <1>0, <1>2, HeadIsLoad
  <2>. QED
    BY <1>0, <1>u, <1>5, <2>1 DEF L1EntryInv, L2EntryInv, NoReplyFault, probe
<1>. QED
  BY <1>6, <1>7, <1>8, <1>9, <1>10, <1>11, <1>12 DEF Inv

\* A load that hits in the L2 is answered.
LEMMA L2ReadHitStep ==
  ASSUME Inv, NEW h, L2Taken(h), L2ReadHit(Sector(h), h),
         UNCHANGED <<sm, kind, addr, unsent, pending, l1Vars, up, down, retired, fault>>
  PROVE  Inv'
<1>0. CyclesOK /\ PlaceInv /\ OnceInv /\ WriteInv /\ LoadInv /\ WaitInv /\ PendInv /\ L1EntryInv /\ L2EntryInv /\ NoReplyFault
  BY DEF Inv
<1>u. UNCHANGED <<sm, kind, addr, unsent, pending, sm_to_l1, l1, l1_mshr, miss_queue, l1_to_sm, up, down, l2, l2_mshr,
                  dram, deleted, retired, fault>>
  BY DEF L2ReadHit, l1Vars
<1>1. l2_to_sms \subseteq Fetches /\ l2_to_sms' = l2_to_sms \cup {h} /\ ~is_write(h)
  BY <1>0 DEF CyclesOK, L2ReadHit
<1>2. h \in Fetches /\ L2In(h) /\ h = Self(Req(h)) /\ h \notin Writes /\ needs_reply(h)
  <2>1. h \in Fetches /\ L2In(h) /\ (needs_reply(h) => h = Self(Req(h)))
    BY DEF L2Taken
  <2>. QED
    BY <1>1, <2>1 DEF Writes, is_write, needs_reply
<1>5. \A m \in Fetches : /\ New(m)' <=> New(m)
                         /\ Bank(m)' <=> Bank(m)
                         /\ Hit(m)' <=> Hit(m)
                         /\ Mshr(m)' <=> Mshr(m)
                         /\ Miss(m)' <=> Miss(m)
                         /\ Up(m)' <=> Up(m)
                         /\ L2In(m)' => L2In(m)
                         /\ L2In(m) => L2In(m)' \/ m = h
                         /\ L2Mshr(m)' <=> L2Mshr(m)
                         /\ L2Hit(m)' <=> L2Hit(m) \/ m = h
                         /\ Dram(m)' <=> Dram(m)
                         /\ Down(m)' <=> Down(m)
  <2>1. \A m \in Fetches : L2Hit(m)' <=> L2Hit(m) \/ m = h
    BY <1>1 DEF L2Hit
  <2>2. \A m \in Fetches : /\ L2In(m)' => L2In(m)
                           /\ L2In(m) => L2In(m)' \/ m = h
    BY DEF L2Taken
  <2>. QED
    BY <1>u, <2>1, <2>2, PlacesStay
<1>6. CyclesOK'
  <2>w. WithinLimits'
    BY <1>0, <1>u DEF CyclesOK, WithinLimits, probe
  <2>1. l1_to_l2' \in Seq(Fetches)
    BY DEF L2Taken
  <2>2. l2_to_sms' \subseteq Fetches
    BY <1>1, <1>2
  <2>. QED
    BY <1>0, <1>u, <2>w, <2>1, <2>2 DEF CyclesOK
<1>7. PlaceInv'
  <2>1. ToSet(l1_to_l2') \subseteq ToSet(l1_to_l2)
    BY DEF L2Taken
  <2>2. \A m \in l2_to_sms' : m \in l2_to_sms \/ (m = Self(Req(m)) /\ needs_reply(m))
    BY <1>1, <1>2
  <2>. QED
    BY <1>0, <1>u, <2>1, <2>2, PlaceStep
<1>8. OnceInv'
  <2>1. Once(l1_to_l2', Writes)
    BY DEF L2Taken
  <2>. QED
    BY <1>0, <1>u, <2>1 DEF OnceInv
<1>9. WriteInv' /\ LoadInv'
  BY <1>0, <1>u, <1>2, <1>5 DEF WriteInv, LoadInv, Writes
<1>10. WaitInv'
  BY <1>0, <1>u, <1>2, <1>5 DEF WaitInv
<1>11. PendInv'
  BY <1>0, <1>u, <1>5, PlacesStay DEF PendInv
<1>12. L1EntryInv' /\ L2EntryInv' /\ NoReplyFault'
  BY <1>0, <1>u, <1>5 DEF L1EntryInv, L2EntryInv, NoReplyFault, probe
<1>. QED
  BY <1>6, <1>7, <1>8, <1>9, <1>10, <1>11, <1>12 DEF Inv

\* A load that misses in the L2 waits in its MSHRs, and goes to the DRAM if it
\* opened the entry.
LEMMA L2ReadMissStep ==
  ASSUME Inv, NEW h, L2Taken(h), L2ReadMiss(Sector(h), h),
         UNCHANGED <<sm, kind, addr, unsent, pending, l1Vars, up, down, retired, fault>>
  PROVE  Inv'
<1>. DEFINE a == Sector(h)
            opens == ~probe(l2_mshr, a)
<1>0. CyclesOK /\ PlaceInv /\ OnceInv /\ WriteInv /\ LoadInv /\ WaitInv /\ PendInv /\ L1EntryInv /\ L2EntryInv /\ NoReplyFault
  BY DEF Inv
<1>u. UNCHANGED <<sm, kind, addr, unsent, pending, sm_to_l1, l1, l1_mshr, miss_queue, l1_to_sm, up, down, l2,
                  l2_to_sms, deleted, retired, fault>>
  BY DEF L2ReadMiss, l1Vars
<1>t. \A m \in Fetches : Home(m) \in SMs /\ Sector(m) \in Sectors /\ Req(m) \in Reqs
  BY <1>0, FetchFacts
<1>1. /\ dram \in Seq(Fetches) /\ l2_mshr \in [Sectors -> Seq(Fetches)]
      /\ dram' = IF opens THEN Append(dram, h) ELSE dram
      /\ l2_mshr' = [l2_mshr EXCEPT ![a] = Append(l2_mshr[a], h)]
      /\ ~is_write(h) /\ ~full(l2_mshr, a, L2Entries, L2Merge)
  BY <1>0 DEF CyclesOK, L2ReadMiss
<1>2. /\ h \in Fetches /\ L2In(h) /\ h = Self(Req(h)) /\ h \notin Writes /\ needs_reply(h) /\ h[2] = "load"
      /\ a \in Sectors /\ Sector(h) = a
  <2>1. h \in Fetches /\ L2In(h) /\ (needs_reply(h) => h = Self(Req(h)))
    BY DEF L2Taken
  <2>. QED
    BY <1>t, <1>1, <2>1 DEF Writes, is_write, needs_reply
<1>o. opens <=> l2_mshr[a] = <<>>
  BY DEF probe
<1>. HIDE DEF a, opens
<1>3. /\ dram' \in Seq(Fetches)
      /\ \A m : m \in ToSet(dram') <=> m \in ToSet(dram) \/ (m = h /\ opens)
      /\ Once(dram', Writes)
  <2>2. Once(dram, Writes)
    BY <1>0 DEF OnceInv
  <2>3. CASE ~opens
    BY <1>1, <2>2, <2>3
  <2>4. CASE opens
    <3>1. /\ Append(dram, h) \in Seq(Fetches) /\ ToSet(Append(dram, h)) = ToSet(dram) \cup {h}
          /\ Once(dram, Writes) /\ (h \in Writes => h \notin ToSet(dram)) => Once(Append(dram, h), Writes)
      BY <1>1, <1>2, PushFacts
    <3>. QED
      BY <1>1, <1>2, <2>2, <2>4, <3>1
  <2>. QED
    BY <2>3, <2>4
<1>. DEFINE z == Append(l2_mshr[a], h)
<1>m. /\ z \in Seq(Fetches) /\ ToSet(z) = ToSet(l2_mshr[a]) \cup {h} /\ z # <<>>
      /\ ~opens => Head(z) = Head(l2_mshr[a])
      /\ opens => Head(z) = h
  <2>1. l2_mshr[a] \in Seq(Fetches)
    BY <1>1, <1>2
  <2>. QED
    BY <1>2, <1>o, <2>1, PushFacts
<1>4. Limited(l2_mshr', L2Entries, L2Merge)
  <2>k. L2Entries \in Nat /\ L2Merge \in Nat /\ L2Merge # 0
    BY MemPathAssumption
  <2>1. Limited(l2_mshr, L2Entries, L2Merge)
    BY <1>0, LimitsAre DEF CyclesOK
  <2>. QED
    BY <1>1, <1>2, <2>k, <2>1, MergeFacts
<1>n. l2_mshr' = [l2_mshr EXCEPT ![a] = z]
  BY <1>1
<1>. HIDE DEF z
<1>p. /\ l2_mshr' \in [Sectors -> Seq(Fetches)]
      /\ \A b \in Sectors : l2_mshr'[b] = IF b = a THEN z ELSE l2_mshr[b]
  <2>1. l2_mshr \in [Sectors -> Seq(Fetches)] /\ z \in Seq(Fetches)
    BY <1>1, <1>m
  <2>. QED
    BY <1>n, <2>1
<1>5. \A m \in Fetches : /\ New(m)' <=> New(m)
                         /\ Bank(m)' <=> Bank(m)
                         /\ Hit(m)' <=> Hit(m)
                         /\ Mshr(m)' <=> Mshr(m)
                         /\ Miss(m)' <=> Miss(m)
                         /\ Up(m)' <=> Up(m)
                         /\ L2In(m)' => L2In(m)
                         /\ L2In(m) => L2In(m)' \/ m = h
                         /\ L2Mshr(m)' <=> L2Mshr(m) \/ m = h
                         /\ L2Hit(m)' <=> L2Hit(m)
                         /\ Dram(m)' <=> Dram(m) \/ (m = h /\ opens)
                         /\ Down(m)' <=> Down(m)
  <2>1. \A m : Home(m)' = Home(m) /\ Sector(m)' = Sector(m)
    BY <1>u, PlacesStay
  <2>2. \A m \in Fetches : Dram(m)' <=> Dram(m) \/ (m = h /\ opens)
    BY <1>3 DEF Dram
  <2>3. \A m \in Fetches : L2Mshr(m)' <=> L2Mshr(m) \/ m = h
    <3>. TAKE m \in Fetches
    <3>1. L2Mshr(m)' <=> m \in ToSet(l2_mshr'[Sector(m)])
      BY <2>1 DEF L2Mshr
    <3>2. Sector(m) \in Sectors
      BY <1>t
    <3>. QED
      BY <1>2, <1>m, <1>p, <3>1, <3>2 DEF L2Mshr
  <2>4. \A m \in Fetches : /\ L2In(m)' => L2In(m)
                           /\ L2In(m) => L2In(m)' \/ m = h
    BY DEF L2Taken
  <2>. QED
    BY <1>u, <2>2, <2>3, <2>4, PlacesStay
<1>6. CyclesOK'
  <2>l. WithinLimits
    BY <1>0 DEF CyclesOK
  <2>w. WithinLimits'
    <3>1. Limited(l2_mshr, L2Entries, L2Merge)'
      BY <1>4 DEF Limited, Entries, probe
    <3>. QED
      BY <1>u, <2>l, <3>1 DEF WithinLimits, Limited, Entries, probe
  <2>2. l1_to_l2' \in Seq(Fetches)
    BY DEF L2Taken
  <2>. QED
    BY <1>0, <1>u, <1>3, <1>p, <2>w, <2>2 DEF CyclesOK
<1>7. PlaceInv'
  <2>1. ToSet(l1_to_l2') \subseteq ToSet(l1_to_l2)
    BY DEF L2Taken
  <2>2. \A m \in ToSet(dram') : m \in ToSet(dram) \/ (needs_reply(m) => m = Self(Req(m)))
    BY <1>2, <1>3
  <2>3. \A b \in Sectors : \A m \in ToSet(l2_mshr'[b]) :
          m \in ToSet(l2_mshr[b]) \/ (Sector(m) = b /\ m[2] = "load" /\ m = Self(Req(m)))
    <3>. TAKE b \in Sectors
    <3>. TAKE m \in ToSet(l2_mshr'[b])
    <3>1. m \in ToSet(l2_mshr[b]) \/ (b = a /\ m = h)
      BY <1>m, <1>p
    <3>. QED
      BY <1>2, <3>1
  <2>. QED
    BY <1>0, <1>u, <2>1, <2>2, <2>3, PlaceStep
<1>8. OnceInv'
  <2>1. Once(l1_to_l2', Writes)
    BY DEF L2Taken
  <2>. QED
    BY <1>0, <1>u, <1>3, <2>1 DEF OnceInv
<1>9. WriteInv' /\ LoadInv'
  BY <1>0, <1>u, <1>2, <1>5 DEF WriteInv, LoadInv, Writes
<1>10. WaitInv'
  BY <1>0, <1>u, <1>2, <1>5 DEF WaitInv
<1>11. PendInv'
  BY <1>0, <1>u, <1>5, PlacesStay DEF PendInv
<1>12. L1EntryInv' /\ NoReplyFault'
  BY <1>0, <1>u, <1>5 DEF L1EntryInv, NoReplyFault, probe
<1>13. L2EntryInv'
  <2>1. SUFFICES ASSUME NEW b \in Sectors, NEW m \in Fetches, probe(l2_mshr', b), m = Head(l2_mshr'[b])
                 PROVE  Dram(m)'
    BY DEF L2EntryInv, probe
  <2>2. CASE b = a /\ opens
    BY <1>2, <1>m, <1>p, <1>5, <2>1, <2>2
  <2>3. CASE ~(b = a /\ opens)
    <3>1. probe(l2_mshr, b) /\ m = Head(l2_mshr[b])
      BY <1>o, <1>m, <1>p, <2>1, <2>3 DEF probe
    <3>. QED
      BY <1>0, <1>5, <3>1 DEF L2EntryInv
  <2>. QED
    BY <2>2, <2>3
<1>. QED
  BY <1>6, <1>7, <1>8, <1>9, <1>10, <1>11, <1>12, <1>13 DEF Inv

LEMMA L2AccessStep ==
  ASSUME Inv, L2Access
  PROVE  Inv'
<1>. DEFINE h == Head(l1_to_l2)
<1>1. L2Taken(h)
  BY L2Takes
<1>2. /\ \/ L2WriteHit(Sector(h), h) \/ L2WriteMiss(Sector(h), h)
         \/ L2ReadHit(Sector(h), h) \/ L2ReadMiss(Sector(h), h)
      /\ UNCHANGED <<sm, kind, addr, unsent, pending, l1Vars, up, down, retired, fault>>
  BY DEF L2Access
<1>. QED
  BY <1>1, <1>2, L2WriteHitStep, L2WriteMissStep, L2ReadHitStep, L2ReadMissStep

\* A return of the DRAM answers all that waits in the entry of its sector, or
\* the request itself.
LEMMA DramReturnStep ==
  ASSUME Inv, DramReturn
  PROVE  Inv'
<1>. DEFINE h == Head(dram)
            a == Sector(h)
            replies == IF probe(l2_mshr, a) THEN l2_mshr[a] ELSE IF needs_reply(h) THEN <<h>> ELSE <<>>
            drops == ~probe(l2_mshr, a) /\ ~needs_reply(h)
            R == ToSet(replies)
<1>0. CyclesOK /\ PlaceInv /\ OnceInv /\ WriteInv /\ LoadInv /\ WaitInv /\ PendInv /\ L1EntryInv /\ L2EntryInv /\ NoReplyFault
  BY DEF Inv
<1>u. UNCHANGED <<sm, kind, addr, unsent, pending, sm_to_l1, l1, l1_mshr, miss_queue, l1_to_sm, up, l1_to_l2,
                  l2_to_sms, retired, fault>>
  BY DEF DramReturn, l1Vars
<1>t. \A m \in Fetches : Home(m) \in SMs /\ Sector(m) \in Sectors /\ Req(m) \in Reqs
  BY <1>0, FetchFacts
<1>1. /\ dram \in Seq(Fetches) /\ dram # <<>> /\ dram' = Tail(dram)
      /\ l2_mshr \in [Sectors -> Seq(Fetches)] /\ l2_mshr' = [l2_mshr EXCEPT ![a] = <<>>]
      /\ l2 \subseteq Sectors /\ l2' \in Filled(l2, a, L2Lines)
      /\ deleted \subseteq Fetches /\ deleted' = IF drops THEN deleted \cup {h} ELSE deleted
      /\ down \in [SMs -> Seq(Fetches)] /\ Answer(replies)
  BY <1>0 DEF CyclesOK, DramReturn
<1>2. /\ h \in Fetches /\ h \in ToSet(dram)
      /\ dram' \in Seq(Fetches)
      /\ ToSet(dram') \subseteq ToSet(dram)
      /\ \A m \in ToSet(dram) : m = h \/ m \in ToSet(dram')
      /\ Once(dram', Writes) /\ (h \in Writes => h \notin ToSet(dram'))
  <2>1. Once(dram, Writes)
    BY <1>0 DEF OnceInv
  <2>. QED
    BY <1>1, <2>1, PopFacts
<1>. HIDE DEF h
<1>3. a \in Sectors /\ Sector(h) = a /\ (needs_reply(h) => h = Self(Req(h))) /\ Dram(h)
  BY <1>0, <1>t, <1>2 DEF PlaceInv, Dram
<1>d. drops => ~needs_reply(h) /\ h \in Writes /\ h \notin R
  <2>1. ToSet(<<>>) = {}
    BY DEF ToSet
  <2>. QED
    BY <1>2, <2>1 DEF Writes, is_write, needs_reply
<1>p. /\ probe(l2_mshr, a) => replies = l2_mshr[a]
      /\ ~probe(l2_mshr, a) => replies = IF needs_reply(h) THEN <<h>> ELSE <<>>
      /\ probe(l2_mshr, a) <=> l2_mshr[a] # <<>>
  BY DEF probe
<1>. HIDE DEF a, replies, drops
<1>e. ToSet(<<>>) = {}
  BY DEF ToSet
<1>f. ToSet(<<h>>) = {h}
  BY DEF ToSet
<1>4. /\ replies \in Seq(Fetches) /\ Once(replies, Writes)
      /\ \A m \in R : /\ m \in Fetches /\ needs_reply(m) /\ m = Self(Req(m)) /\ Sector(m) = a
                      /\ m \in Writes => m = h
                      /\ L2Mshr(m) \/ m = h
      /\ \A m \in ToSet(l2_mshr[a]) : m \in R
  <2>1. CASE probe(l2_mshr, a)
    <3>1. l2_mshr[a] \in Seq(Fetches)
      BY <1>1, <1>3
    <3>2. \A m \in ToSet(l2_mshr[a]) : m \in Fetches
      BY <3>1 DEF ToSet
    <3>3. \A m \in ToSet(l2_mshr[a]) : Sector(m) = a /\ m[2] = "load" /\ m = Self(Req(m))
      BY <1>0, <1>3 DEF PlaceInv
    <3>4. \A m \in ToSet(l2_mshr[a]) : m \notin Writes /\ needs_reply(m) /\ L2Mshr(m)
      BY <3>3 DEF Writes, is_write, needs_reply, L2Mshr
    <3>5. Once(l2_mshr[a], Writes)
      BY <3>4 DEF Once, ToSet
    <3>. QED
      BY <1>p, <2>1, <3>1, <3>2, <3>3, <3>4, <3>5
  <2>2. CASE ~probe(l2_mshr, a)
    <3>1. CASE needs_reply(h)
      <4>1. replies = <<h>> /\ l2_mshr[a] = <<>>
        BY <1>p, <2>2, <3>1
      <4>2. <<h>> \in Seq(Fetches) /\ Once(<<h>>, Writes)
        BY <1>2 DEF Once
      <4>. QED
        BY <1>2, <1>3, <1>e, <1>f, <3>1, <4>1, <4>2
    <3>2. CASE ~needs_reply(h)
      <4>1. replies = <<>> /\ l2_mshr[a] = <<>>
        BY <1>p, <2>2, <3>2
      <4>2. <<>> \in Seq(Fetches) /\ Once(<<>>, Writes)
        BY DEF Once
      <4>. QED
        BY <1>e, <4>1, <4>2
    <3>. QED
      BY <3>1, <3>2
  <2>. QED
    BY <2>1, <2>2
<1>q. /\ down' \in [SMs -> Seq(Fetches)]
      /\ \A d \in SMs : \A m : m \in ToSet(down'[d]) <=> m \in ToSet(down[d]) \/ (Home(m) = d /\ m \in R)
      /\ \A d \in SMs : Once(down'[d], Writes)
  <2>1. down' = [d \in SMs |-> down[d] \o RepliesTo(d, replies)]
    BY <1>1 DEF Answer
  <2>2. ASSUME NEW d \in SMs
        PROVE  /\ down[d] \o RepliesTo(d, replies) \in Seq(Fetches)
               /\ \A m : m \in ToSet(down[d] \o RepliesTo(d, replies)) <=> m \in ToSet(down[d]) \/ (Home(m) = d /\ m \in R)
               /\ Once(down[d] \o RepliesTo(d, replies), Writes)
    <3>. DEFINE p == RepliesTo(d, replies)
    <3>1. /\ p \in Seq(Fetches) /\ ToSet(p) = {m \in R : Home(m) = d} /\ Once(p, Writes)
      BY <1>4, RepliesFacts
    <3>. HIDE DEF p
    <3>2. down[d] \in Seq(Fetches) /\ Once(down[d], Writes)
      BY <1>0, <1>1 DEF OnceInv
    <3>3. \A m \in ToSet(down[d]) \cap ToSet(p) : m \notin Writes
      <4>1. \A m \in ToSet(down[d]) : m \in ToSet(p) /\ m \in Writes => m = h /\ Down(h)
        BY <1>4, <3>1 DEF Down
      <4>2. h \in Writes => ~Down(h)
        BY <1>0, <1>3 DEF WriteInv
      <4>. QED
        BY <4>1, <4>2
    <3>4. /\ down[d] \o p \in Seq(Fetches)
          /\ ToSet(down[d] \o p) = ToSet(down[d]) \cup ToSet(p)
          /\ Once(down[d] \o p, Writes)
      BY <3>1, <3>2, <3>3, ConcatFacts
    <3>. QED
      BY <3>1, <3>4 DEF p
  <2>. QED
    BY <2>1, <2>2
<1>. HIDE DEF R
<1>m. /\ l2_mshr' \in [Sectors -> Seq(Fetches)]
      /\ \A b \in Sectors : l2_mshr'[b] = IF b = a THEN <<>> ELSE l2_mshr[b]
  BY <1>1, <1>3
<1>5. \A m \in Fetches : /\ New(m)' <=> New(m)
                         /\ Bank(m)' <=> Bank(m)
                         /\ Hit(m)' <=> Hit(m)
                         /\ Mshr(m)' <=> Mshr(m)
                         /\ Miss(m)' <=> Miss(m)
                         /\ Up(m)' <=> Up(m)
                         /\ L2In(m)' <=> L2In(m)
                         /\ L2Mshr(m)' => L2Mshr(m)
                         /\ L2Mshr(m) => L2Mshr(m)' \/ m \in R
                         /\ L2Hit(m)' <=> L2Hit(m)
                         /\ Dram(m)' => Dram(m) /\ (m \in Writes => m # h)
                         /\ Dram(m) => Dram(m)' \/ m = h
                         /\ Down(m)' <=> Down(m) \/ m \in R
  <2>1. \A m : Home(m)' = Home(m) /\ Sector(m)' = Sector(m)
    BY <1>u, PlacesStay
  <2>2. \A m \in Fetches : /\ Dram(m)' => Dram(m) /\ (m \in Writes => m # h)
                           /\ Dram(m) => Dram(m)' \/ m = h
    BY <1>2 DEF Dram
  <2>3. \A m \in Fetches : /\ L2Mshr(m)' => L2Mshr(m)
                           /\ L2Mshr(m) => L2Mshr(m)' \/ m \in R
    <3>. TAKE m \in Fetches
    <3>1. L2Mshr(m)' <=> m \in ToSet(l2_mshr'[Sector(m)])
      BY <2>1 DEF L2Mshr
    <3>2. Sector(m) \in Sectors
      BY <1>t
    <3>. QED
      BY <1>e, <1>m, <1>4, <3>1, <3>2 DEF L2Mshr
  <2>4. \A m \in Fetches : Down(m)' <=> Down(m) \/ m \in R
    <3>. TAKE m \in Fetches
    <3>1. Down(m)' <=> m \in ToSet(down'[Home(m)])
      BY <2>1 DEF Down
    <3>2. Home(m) \in SMs
      BY <1>t
    <3>. QED
      BY <1>q, <3>1, <3>2 DEF Down
  <2>. QED
    BY <1>u, <2>2, <2>3, <2>4, PlacesStay
<1>6. CyclesOK'
  <2>l. WithinLimits
    BY <1>0 DEF CyclesOK
  <2>k. L2Entries \in Nat /\ L2Merge \in Nat /\ L2Lines \in Nat
    BY MemPathAssumption
  <2>1. l2' \subseteq Sectors /\ Cardinality(l2') <= L2Lines
    <3>1. Cardinality(l2) <= L2Lines
      BY <2>l DEF WithinLimits
    <3>. QED
      BY <1>1, <1>3, <2>k, <3>1, FillFacts
  <2>2. Limited(l2_mshr', L2Entries, L2Merge)
    <3>1. Limited(l2_mshr, L2Entries, L2Merge)
      BY <2>l, LimitsAre
    <3>. QED
      BY <1>1, <1>3, <2>k, <3>1, ClearFacts
  <2>w. WithinLimits'
    <3>1. Limited(l2_mshr, L2Entries, L2Merge)'
      BY <2>2 DEF Limited, Entries, probe
    <3>. QED
      BY <1>u, <2>l, <2>1, <3>1 DEF WithinLimits, Limited, Entries, probe
  <2>3. deleted' \subseteq Fetches
    BY <1>1, <1>2
  <2>. QED
    BY <1>0, <1>u, <1>2, <1>m, <1>q, <2>w, <2>1, <2>3 DEF CyclesOK
<1>7. PlaceInv'
  <2>1. \A d \in SMs : \A m \in ToSet(down'[d]) : m \in ToSet(down[d]) \/ (Home(m) = d /\ m = Self(Req(m)) /\ needs_reply(m))
    BY <1>4, <1>q
  <2>2. \A b \in Sectors : ToSet(l2_mshr'[b]) \subseteq ToSet(l2_mshr[b])
    BY <1>m, <1>e
  <2>. QED
    BY <1>0, <1>u, <1>2, <2>1, <2>2, PlaceStep
<1>8. OnceInv'
  BY <1>0, <1>u, <1>2, <1>q DEF OnceInv
<1>9. WriteInv'
  BY <1>0, <1>u, <1>1, <1>2, <1>3, <1>4, <1>5, <1>d DEF WriteInv, Writes
<1>10. LoadInv'
  BY <1>0, <1>u, <1>1, <1>2, <1>3, <1>4, <1>5, <1>d DEF LoadInv, Writes
<1>11. WaitInv'
  BY <1>0, <1>u, <1>2, <1>3, <1>4, <1>5 DEF WaitInv
<1>12. PendInv'
  BY <1>0, <1>u, <1>5, PlacesStay DEF PendInv
<1>13. L1EntryInv' /\ NoReplyFault'
  BY <1>0, <1>u, <1>5 DEF L1EntryInv, NoReplyFault, probe
<1>14. L2EntryInv'
  <2>1. SUFFICES ASSUME NEW b \in Sectors, NEW m \in Fetches, probe(l2_mshr', b), m = Head(l2_mshr'[b])
                 PROVE  Dram(m)'
    BY DEF L2EntryInv, probe
  <2>2. b # a /\ l2_mshr[b] # <<>> /\ m = Head(l2_mshr[b]) /\ probe(l2_mshr, b) /\ l2_mshr[b] \in Seq(Fetches)
    BY <1>1, <1>m, <2>1 DEF probe
  <2>3. m \in ToSet(l2_mshr[b])
    BY <2>2, PopFacts
  <2>4. Sector(m) = b
    BY <1>0, <2>3 DEF PlaceInv
  <2>5. Dram(m)
    BY <1>0, <2>2 DEF L2EntryInv
  <2>. QED
    BY <1>3, <1>5, <2>2, <2>4, <2>5
<1>. QED
  BY <1>6, <1>7, <1>8, <1>9, <1>10, <1>11, <1>12, <1>13, <1>14 DEF Inv
-----------------------------------------------------------------------------
(* The theorems.                                                            *)

LEMMA InvInit == Init => Inv
<1>. SUFFICES ASSUME Init PROVE Inv
  OBVIOUS
<1>1. ToSet(<<>>) = {} /\ \A T : Once(<<>>, T)
  BY DEF ToSet, Once
<1>2. <<>> \in Seq(Fetches) /\ Len(<<>>) = 0
  OBVIOUS
<1>3. CyclesOK
  <2>1. {L1Lines, L2Lines, L1Entries, L1Merge, L2Entries, L2Merge, InBufferLimit} \subseteq Nat
    BY MemPathAssumption
  <2>2. \A c \in SMs : {b \in Sectors : probe(l1_mshr[c], b)} = {}
    BY DEF Init, probe
  <2>3. {b \in Sectors : probe(l2_mshr, b)} = {}
    BY DEF Init, probe
  <2>4. Cardinality({}) = 0
    BY FS_EmptySet
  <2>5. WithinLimits
    <3>1. \A c \in SMs : \A b \in Sectors : l1_mshr[c][b] = <<>> /\ l2_mshr[b] = <<>>
      BY DEF Init
    <3>2. \A c \in SMs : up[c] = <<>> /\ l1[c] = {}
      BY DEF Init
    <3>3. l2 = {} /\ \A b \in Sectors : l2_mshr[b] = <<>>
      BY DEF Init
    <3>4. 0 <= L1Lines /\ 0 <= L2Lines /\ 0 <= L1Entries /\ 0 <= L1Merge /\ 0 <= L2Entries /\ 0 <= L2Merge /\ 0 <= InBufferLimit
      BY <2>1
    <3>. QED
      BY <1>2, <2>2, <2>3, <2>4, <3>1, <3>2, <3>3, <3>4 DEF WithinLimits
  <2>. QED
    BY <1>2, <2>5 DEF Init, CyclesOK
<1>t. \A m \in Fetches : Home(m) \in SMs /\ Sector(m) \in Sectors
  BY <1>3, FetchFacts
<1>4. \A m \in Fetches : ~(Bank(m) \/ Hit(m) \/ Mshr(m) \/ Miss(m) \/ Up(m) \/ L2In(m) \/ L2Mshr(m) \/ L2Hit(m) \/ Dram(m) \/ Down(m))
  BY <1>1, <1>t DEF Init, Bank, Hit, Mshr, Miss, Up, L2In, L2Mshr, L2Hit, Dram, Down
<1>5. PlaceInv
  BY <1>1 DEF Init, PlaceInv
<1>6. OnceInv
  BY <1>1 DEF Init, OnceInv
<1>7. WriteInv /\ LoadInv /\ WaitInv /\ PendInv
  <2>1. deleted = {} /\ retired = {} /\ pending = {}
    BY DEF Init
  <2>. QED
    BY <1>4, <2>1 DEF WriteInv, LoadInv, WaitInv, PendInv, Writes
<1>8. L1EntryInv /\ L2EntryInv /\ NoReplyFault
  BY DEF Init, L1EntryInv, L2EntryInv, NoReplyFault, probe
<1>. QED
  BY <1>3, <1>5, <1>6, <1>7, <1>8 DEF Inv

LEMMA InvStays ==
  ASSUME Inv,
         UNCHANGED <<sm, kind, addr, unsent, pending, l1Vars, up, down, l2Vars, deleted, retired, fault>>
  PROVE  Inv'
<1>0. CyclesOK /\ PlaceInv /\ OnceInv /\ WriteInv /\ LoadInv /\ WaitInv /\ PendInv /\ L1EntryInv /\ L2EntryInv /\ NoReplyFault
  BY DEF Inv
<1>u. UNCHANGED <<sm, kind, addr, unsent, pending, sm_to_l1, l1, l1_mshr, miss_queue, l1_to_sm, up, down, l1_to_l2, l2, l2_mshr,
                  l2_to_sms, dram, deleted, retired, fault>>
  BY DEF l1Vars, l2Vars
<1>1. CyclesOK'
  BY <1>0, <1>u DEF CyclesOK, WithinLimits, probe
<1>2. PlaceInv'
  BY <1>0, <1>u, PlaceStep
<1>3. OnceInv'
  BY <1>0, <1>u DEF OnceInv
<1>4. WriteInv' /\ LoadInv' /\ WaitInv' /\ PendInv'
  BY <1>0, <1>u, PlacesStay DEF WriteInv, LoadInv, WaitInv, PendInv
<1>5. L1EntryInv' /\ L2EntryInv' /\ NoReplyFault'
  BY <1>0, <1>u, PlacesStay DEF L1EntryInv, L2EntryInv, NoReplyFault, probe
<1>. QED
  BY <1>1, <1>2, <1>3, <1>4, <1>5 DEF Inv

LEMMA InvNext ==
  ASSUME Inv, [Next]_vars
  PROVE  Inv'
<1>1. CASE \E r \in Reqs : Send(r)
  BY <1>1, SendStep
<1>2. CASE \E c \in SMs : \E a \in Sectors : L1Access(c, a)
  BY <1>2, L1AccessStep
<1>3. CASE \E c \in SMs : SendMiss(c) \/ WriteBack(c) \/ ReadReply(c) \/ AtomicReply(c) \/ L2Receive(c)
  BY <1>3, SendMissStep, WriteBackStep, ReadReplyStep, AtomicReplyStep, L2ReceiveStep
<1>4. CASE L2Access \/ DramReturn
  BY <1>4, L2AccessStep, DramReturnStep
<1>5. CASE \E m \in l2_to_sms : L2HitReply(m)
  BY <1>5, L2HitReplyStep
<1>6. CASE UNCHANGED vars
  BY <1>6, InvStays DEF vars
<1>7. CASE Destroy
  BY <1>7, InvStays DEF Destroy
<1>. QED
  BY <1>1, <1>2, <1>3, <1>4, <1>5, <1>6, <1>7 DEF Next, Step, Memory, Terminated

\* The invariant holds in every state of the memory path.
LEMMA InvAlways == Spec => []Inv
BY InvInit, InvNext, PTL DEF Spec

\* A mem_fetch that was deleted is nowhere.
LEMMA DeletedIsNowhere ==
  ASSUME Inv, NEW m \in deleted
  PROVE  /\ m \in Fetches /\ m \notin retired
         /\ ~(Bank(m) \/ Hit(m) \/ Mshr(m) \/ Miss(m) \/ Up(m) \/ L2In(m) \/ L2Mshr(m) \/ L2Hit(m) \/ Dram(m) \/ Down(m))
<1>0. CyclesOK /\ PlaceInv /\ WriteInv /\ LoadInv
  BY DEF Inv
<1>1. m \in Fetches
  BY <1>0 DEF CyclesOK
<1>2. CASE m \in Writes
  <2>1. ~Mshr(m) /\ ~L2Mshr(m)
    <3>1. Home(m) \in SMs /\ Sector(m) \in Sectors
      BY <1>0, <1>1, FetchFacts
    <3>. QED
      BY <1>0, <1>2, <3>1 DEF PlaceInv, Mshr, L2Mshr, Writes, is_write
  <2>. QED
    BY <1>0, <1>1, <1>2, <2>1 DEF WriteInv
<1>3. CASE m \notin Writes
  BY <1>0, <1>1, <1>3 DEF LoadInv
<1>. QED
  BY <1>1, <1>2, <1>3

\* In the cycles nothing is deleted that is still held.
LEMMA InvDeletes ==
  ASSUME Inv
  PROVE  \A c \in SMs : deleted \cap (Held(c) \cup retired) = {}
<1>. SUFFICES ASSUME NEW c \in SMs, NEW m \in deleted
              PROVE  m \notin Held(c) \cup retired
  OBVIOUS
<1>1. /\ m \in Fetches /\ m \notin retired
      /\ ~(Bank(m) \/ Hit(m) \/ Mshr(m) \/ Miss(m) \/ Up(m) \/ L2In(m) \/ L2Mshr(m) \/ L2Hit(m) \/ Dram(m) \/ Down(m))
  BY DeletedIsNowhere
<1>2. PlaceInv
  BY DEF Inv
<1>3. m \notin ToSet(miss_queue[c]) /\ m \notin ToSet(up[c]) /\ m \notin ToSet(down[c]) /\ m \notin ToSet(l1_to_sm[c])
  BY <1>1, <1>2 DEF PlaceInv, Miss, Up, Down, Hit
<1>4. m \notin ToSet(l1_to_l2) /\ m \notin ToSet(dram) /\ m \notin l2_to_sms
  BY <1>1 DEF L2In, Dram, L2Hit
<1>5. \A a \in Sectors : m \notin ToSet(sm_to_l1[c][a]) /\ m \notin ToSet(l1_mshr[c][a]) /\ m \notin ToSet(l2_mshr[a])
  BY <1>1, <1>2 DEF PlaceInv, Bank, Mshr, L2Mshr
<1>6. m \notin Travelling(c)
  BY <1>3, <1>4 DEF Travelling
<1>. QED
  BY <1>1, <1>3, <1>5, <1>6 DEF Held

LEMMA InvFinds == Inv => LoadNeverLost
<1>. SUFFICES ASSUME Inv PROVE LoadNeverLost
  OBVIOUS
<1>0. CyclesOK /\ PlaceInv /\ PendInv /\ L1EntryInv /\ L2EntryInv
  BY DEF Inv
<1>1. ASSUME NEW r \in pending, kind[r] = "load"
      PROVE  \/ Self(r) \in ToSet(sm_to_l1[sm[r]][addr[r]]) \cup ToSet(l1_to_sm[sm[r]])
             \/ /\ Self(r) \in ToSet(l1_mshr[sm[r]][addr[r]])
                /\ \E q \in Reqs :
                     /\ kind[q] = "load" /\ addr[q] = addr[r] /\ sm[q] = sm[r]
                     /\ Self(q) \in Travelling(sm[r]) \cup ToSet(l2_mshr[addr[r]])
  <2>. DEFINE m == Self(r)
              c == sm[r]
              a == addr[r]
  <2>1. r \in Reqs /\ c \in SMs /\ a \in Sectors
    BY <1>0 DEF CyclesOK
  <2>2. m \in Fetches /\ m \notin Writes /\ Req(m) = r /\ m = Self(Req(m)) /\ Home(m) = c /\ Sector(m) = a
    BY <1>1, <2>1 DEF Self, Fetches, Writes, is_write, Req, Home, Sector
  <2>. HIDE DEF m, c, a
  <2>3. Bank(m) \/ Hit(m) \/ Mshr(m)
    BY <1>0, <2>2 DEF PendInv
  <2>4. CASE Bank(m) \/ Hit(m)
    BY <2>2, <2>4 DEF Bank, Hit, m, c, a
  <2>5. CASE Mshr(m)
    <3>1. m \in ToSet(l1_mshr[c][a]) /\ l1_mshr[c][a] \in Seq(Fetches)
      BY <1>0, <2>1, <2>2, <2>5 DEF Mshr, CyclesOK
    <3>2. l1_mshr[c][a] # <<>>
      BY <3>1 DEF ToSet
    <3>. DEFINE k == Head(l1_mshr[c][a])
    <3>3. k \in Fetches /\ k \in ToSet(l1_mshr[c][a])
      BY <3>1, <3>2, PopFacts
    <3>4. Home(k) = c /\ Sector(k) = a /\ k[2] = "load" /\ k = Self(Req(k))
      BY <1>0, <2>1, <3>3 DEF PlaceInv
    <3>5. Miss(k) \/ Up(k) \/ L2In(k) \/ L2Mshr(k) \/ L2Hit(k) \/ Down(k)
      BY <1>0, <2>1, <3>2, <3>3 DEF L1EntryInv, probe
    <3>. HIDE DEF k
    <3>6. Self(Req(k)) \in Travelling(c) \cup ToSet(l2_mshr[a])
      BY <3>4, <3>5 DEF Miss, Up, L2In, L2Mshr, L2Hit, Down, Travelling
    <3>7. Req(k) \in Reqs /\ kind[Req(k)] = "load" /\ addr[Req(k)] = a /\ sm[Req(k)] = c
      <4>1. Req(k) \in Reqs
        BY <1>0, <3>3, FetchFacts
      <4>2. addr[Req(k)] = a /\ sm[Req(k)] = c
        BY <3>4 DEF Home, Sector, Req
      <4>3. kind[Req(k)] = "load"
        BY <3>4 DEF Self
      <4>. QED
        BY <4>1, <4>2, <4>3
    <3>. QED
      BY <3>1, <3>6, <3>7 DEF m, c, a
  <2>. QED
    BY <2>3, <2>4, <2>5
<1>2. ASSUME NEW a \in Sectors, probe(l2_mshr, a)
      PROVE  Head(l2_mshr[a]) \in ToSet(dram)
  <2>1. l2_mshr[a] \in Seq(Fetches) /\ l2_mshr[a] # <<>>
    BY <1>0, <1>2 DEF CyclesOK, probe
  <2>2. Head(l2_mshr[a]) \in Fetches
    BY <2>1, PopFacts
  <2>. QED
    BY <1>0, <1>2, <2>2 DEF L2EntryInv, Dram
<1>. QED
  BY <1>1, <1>2 DEF LoadNeverLost

\* What the destructors meet of a mem_fetch says where it is.
LEMMA DeletesSay ==
  ASSUME NEW m, NEW first, NEW last, NEW x \in Deletes(m, first, last)
  PROVE  \/ x = <<"cycle">> /\ m \in deleted
         \/ \E c \in SMs, a \in Sectors : \E k \in At(sm_to_l1[c][a], m) : x = <<"bank", c, a, k>>
         \/ \E c \in SMs : \E k \in At(miss_queue[c], m) : x = <<"miss", c, k>>
         \/ \E c \in SMs : \E k \in At(l1_to_sm[c], m) : x = <<"hit", c, k>>
         \/ x = <<"retired">> /\ m \in retired
         \/ \E k \in At(l1_to_l2, m) : x = <<"l2_in", k>>
         \/ x = <<"l2_out">> /\ m \in l2_to_sms
         \/ \E k \in At(dram, m) : x = <<"dram", k>>
<1>. DEFINE Banks(c) == UNION {{<<"bank", c, a, k>> : k \in At(sm_to_l1[c][a], m)} : a \in Sectors}
            Misses(c) == {<<"miss", c, k>> : k \in At(miss_queue[c], m)}
            Hits(c) == {<<"hit", c, k>> : k \in At(l1_to_sm[c], m)}
            Sm == UNION {Banks(c) \cup Misses(c) \cup Hits(c) : c \in SMs}
            Ends == {<<"dram", k>> : k \in At(dram, m) \ ((first + 1) .. last)}
            Cycle == {<<"cycle">> : z \in deleted \cap {m}}
            Retired == {<<"retired">> : z \in retired \cap {m}}
            In == {<<"l2_in", k>> : k \in At(l1_to_l2, m)}
            Out == {<<"l2_out">> : z \in l2_to_sms \cap {m}}
<1>1. Deletes(m, first, last) = Cycle \cup Sm \cup Retired \cup In \cup Out \cup Ends
  BY Zenon DEF Deletes
<1>2. \A c : x \in Banks(c) => \E a \in Sectors : \E k \in At(sm_to_l1[c][a], m) : x = <<"bank", c, a, k>>
  OBVIOUS
<1>3. \A c : x \in Misses(c) => \E k \in At(miss_queue[c], m) : x = <<"miss", c, k>>
  OBVIOUS
<1>4. \A c : x \in Hits(c) => \E k \in At(l1_to_sm[c], m) : x = <<"hit", c, k>>
  OBVIOUS
<1>5. /\ x \in Ends => \E k \in At(dram, m) : x = <<"dram", k>>
      /\ x \in Cycle => x = <<"cycle">> /\ m \in deleted
      /\ x \in Retired => x = <<"retired">> /\ m \in retired
      /\ x \in Out => x = <<"l2_out">> /\ m \in l2_to_sms
      /\ x \in In => \E k \in At(l1_to_l2, m) : x = <<"l2_in", k>>
  OBVIOUS
<1>. HIDE DEF Banks, Misses, Hits, Ends, Cycle, Retired, In, Out
<1>6. x \in Sm => \E c \in SMs : x \in Banks(c) \/ x \in Misses(c) \/ x \in Hits(c)
  OBVIOUS
<1>. HIDE DEF Sm
<1>. QED
  BY <1>1, <1>2, <1>3, <1>4, <1>5, <1>6

\* Two places of a queue that hold the same member of T are one.
LEMMA OnceAt ==
  ASSUME NEW q, NEW T, Once(q, T), NEW m \in T, NEW i \in At(q, m), NEW j \in At(q, m)
  PROVE  i = j
BY DEF Once, At

\* When nobody waits for a reply, a load that is not in retired_mem_fetches was deleted,
\* and it is nowhere else.
LEMMA LoadDeletes ==
  ASSUME Inv, pending = {}, unsent = {}, NEW m \in Fetches \ Writes, m \notin retired,
         NEW first, NEW last, NEW x \in Deletes(m, first, last)
  PROVE  x = <<"cycle">>
<1>0. PlaceInv /\ LoadInv /\ WaitInv
  BY DEF Inv
<1>1. needs_reply(m)
  BY DEF Fetches, Writes, is_write, needs_reply
<1>2. ~Bank(m) /\ ~Hit(m) /\ ~Mshr(m)
  BY <1>0, <1>1 DEF WaitInv
<1>3. ~Miss(m) /\ ~L2In(m) /\ ~Dram(m) /\ ~L2Hit(m)
  BY <1>0, <1>2 DEF LoadInv
<1>4. \A c \in SMs : m \notin ToSet(miss_queue[c]) /\ m \notin ToSet(l1_to_sm[c])
  BY <1>0, <1>2, <1>3 DEF PlaceInv, Miss, Hit
<1>5. \A c \in SMs : \A a \in Sectors : m \notin ToSet(sm_to_l1[c][a])
  BY <1>0, <1>2 DEF PlaceInv, Bank
<1>6. m \notin ToSet(l1_to_l2) /\ m \notin ToSet(dram) /\ m \notin l2_to_sms
  BY <1>3 DEF L2In, Dram, L2Hit
<1>7. \A q : m \notin ToSet(q) => At(q, m) = {}
  BY DEF ToSet, At
<1>. QED
  BY <1>4, <1>5, <1>6, <1>7, DeletesSay

\* A write is in one place, and once: it meets one delete.
LEMMA WriteDeletes ==
  ASSUME Inv, NEW m \in Writes, NEW first, NEW last,
         NEW x \in Deletes(m, first, last), NEW y \in Deletes(m, first, last)
  PROVE  x = y
<1>0. PlaceInv /\ WriteInv /\ OnceInv /\ m \in Fetches
  BY DEF Inv, Writes
<1>1. \A q, k : k \in At(q, m) => m \in ToSet(q)
  BY DEF ToSet, At
<1>. DEFINE IsCycle(z) == z = <<"cycle">> /\ m \in deleted
            IsBank(z) == Bank(m) /\ \E k \in At(sm_to_l1[Home(m)][Sector(m)], m) : z = <<"bank", Home(m), Sector(m), k>>
            IsMiss(z) == Miss(m) /\ \E k \in At(miss_queue[Home(m)], m) : z = <<"miss", Home(m), k>>
            IsHit(z) == Hit(m) /\ \E k \in At(l1_to_sm[Home(m)], m) : z = <<"hit", Home(m), k>>
            IsIn(z) == L2In(m) /\ \E k \in At(l1_to_l2, m) : z = <<"l2_in", k>>
            IsOut(z) == z = <<"l2_out">> /\ L2Hit(m)
            IsDram(z) == Dram(m) /\ \E k \in At(dram, m) : z = <<"dram", k>>
<1>2. ASSUME NEW z \in Deletes(m, first, last)
      PROVE  IsCycle(z) \/ IsBank(z) \/ IsMiss(z) \/ IsHit(z) \/ IsIn(z) \/ IsOut(z) \/ IsDram(z)
  <2>1. ASSUME NEW c \in SMs, NEW a \in Sectors, NEW k \in At(sm_to_l1[c][a], m), z = <<"bank", c, a, k>>
        PROVE  IsBank(z)
    <3>1. Home(m) = c /\ Sector(m) = a
      BY <1>0, <1>1, <2>1 DEF PlaceInv
    <3>. QED
      BY <1>1, <2>1, <3>1 DEF Bank
  <2>2. ASSUME NEW c \in SMs, NEW k \in At(miss_queue[c], m), z = <<"miss", c, k>>
        PROVE  IsMiss(z)
    <3>1. Home(m) = c
      BY <1>0, <1>1, <2>2 DEF PlaceInv
    <3>. QED
      BY <1>1, <2>2, <3>1 DEF Miss
  <2>3. ASSUME NEW c \in SMs, NEW k \in At(l1_to_sm[c], m), z = <<"hit", c, k>>
        PROVE  IsHit(z)
    <3>1. Home(m) = c
      BY <1>0, <1>1, <2>3 DEF PlaceInv
    <3>. QED
      BY <1>1, <2>3, <3>1 DEF Hit
  <2>4. (\E k \in At(l1_to_l2, m) : z = <<"l2_in", k>>) => IsIn(z)
    BY <1>1 DEF L2In
  <2>5. (\E k \in At(dram, m) : z = <<"dram", k>>) => IsDram(z)
    BY <1>1 DEF Dram
  <2>6. m \notin retired
    BY <1>0 DEF WriteInv
  <2>7. m \in l2_to_sms => L2Hit(m)
    BY DEF L2Hit
  <2>. HIDE DEF IsCycle, IsBank, IsMiss, IsHit, IsIn, IsOut, IsDram
  <2>8. z = <<"cycle">> /\ m \in deleted => IsCycle(z)
    BY DEF IsCycle
  <2>9. z = <<"l2_out">> /\ m \in l2_to_sms => IsOut(z)
    BY <2>7 DEF IsOut
  <2>. QED
    BY <2>1, <2>2, <2>3, <2>4, <2>5, <2>6, <2>8, <2>9, DeletesSay
<1>3. /\ IsBank(x) /\ IsBank(y) => x = y
      /\ IsMiss(x) /\ IsMiss(y) => x = y
      /\ IsHit(x) /\ IsHit(y) => x = y
      /\ IsIn(x) /\ IsIn(y) => x = y
      /\ IsDram(x) /\ IsDram(y) => x = y
  <2>1. Home(m) \in SMs /\ Sector(m) \in Sectors
    BY <1>0, FetchFacts DEF Inv
  <2>2. /\ Once(sm_to_l1[Home(m)][Sector(m)], Fetches) /\ Once(miss_queue[Home(m)], Writes)
        /\ Once(l1_to_sm[Home(m)], Fetches) /\ Once(l1_to_l2, Writes) /\ Once(dram, Writes)
    BY <1>0, <2>1 DEF OnceInv
  <2>. QED
    BY <1>0, <2>2, OnceAt
<1>4. /\ IsCycle(x) /\ IsCycle(y) => x = y
      /\ IsOut(x) /\ IsOut(y) => x = y
  OBVIOUS
<1>5. \A z : /\ IsCycle(z) => m \in deleted
             /\ IsBank(z) => Bank(m)
             /\ IsMiss(z) => Miss(m)
             /\ IsHit(z) => Hit(m)
             /\ IsIn(z) => L2In(m)
             /\ IsOut(z) => L2Hit(m)
             /\ IsDram(z) => Dram(m)
  OBVIOUS
<1>. HIDE DEF IsCycle, IsBank, IsMiss, IsHit, IsIn, IsOut, IsDram
<1>6. /\ m \in deleted => ~(Bank(m) \/ Miss(m) \/ Hit(m) \/ L2In(m) \/ L2Hit(m) \/ Dram(m))
      /\ Bank(m) => ~(Miss(m) \/ Hit(m) \/ L2In(m) \/ L2Hit(m) \/ Dram(m))
      /\ Miss(m) => ~(Hit(m) \/ L2In(m) \/ L2Hit(m) \/ Dram(m))
      /\ Hit(m) => ~(L2In(m) \/ L2Hit(m) \/ Dram(m))
      /\ L2In(m) => ~(L2Hit(m) \/ Dram(m))
      /\ L2Hit(m) => ~Dram(m)
  BY <1>0 DEF WriteInv
<1>7. /\ IsCycle(x) \/ IsBank(x) \/ IsMiss(x) \/ IsHit(x) \/ IsIn(x) \/ IsOut(x) \/ IsDram(x)
      /\ IsCycle(y) \/ IsBank(y) \/ IsMiss(y) \/ IsHit(y) \/ IsIn(y) \/ IsOut(y) \/ IsDram(y)
  BY <1>2
<1>. QED
  BY <1>3, <1>4, <1>5, <1>6, <1>7

\* What ~gpu changes: what is deleted twice is a load of retired_mem_fetches.
EndInv == destroyed \in BOOLEAN /\ twice \subseteq {m \in retired : ~is_write(m)} /\ (~destroyed => twice = {})

LEMMA DestroyEnd ==
  ASSUME Inv, Destroy
  PROVE  EndInv'
<1>1. PICK first \in 0 .. Len(dram), last \in 0 .. Len(dram) :
        twice' = {m \in Fetches : \E x, y \in Deletes(m, first, last) : x # y}
  BY DEF Destroy
<1>2. unsent = {} /\ pending = {} /\ destroyed' = TRUE /\ retired' = retired
  BY DEF Destroy
<1>3. ASSUME NEW m \in twice' PROVE m \in retired /\ ~is_write(m)
  <2>1. m \in Fetches
    BY <1>1, <1>3
  <2>2. PICK x \in Deletes(m, first, last), y \in Deletes(m, first, last) : x # y
    BY <1>1, <1>3
  <2>3. m \notin Writes
    BY <2>2, WriteDeletes
  <2>4. m \in retired
    BY <1>2, <2>1, <2>2, <2>3, LoadDeletes
  <2>. QED
    BY <2>1, <2>3, <2>4 DEF Writes
<1>4. \A m : is_write(m)' = is_write(m)
  BY DEF is_write
<1>. QED
  BY <1>2, <1>3, <1>4 DEF EndInv

LEMMA EndNext ==
  ASSUME Inv, EndInv, [Next]_vars
  PROVE  EndInv'
<1>1. CASE Destroy
  BY <1>1, DestroyEnd
<1>2. CASE UNCHANGED vars
  BY <1>2 DEF vars, endVars, EndInv, is_write
<1>3. CASE ~destroyed /\ UNCHANGED endVars
  BY <1>3 DEF endVars, EndInv
<1>. QED
  BY <1>1, <1>2, <1>3 DEF Next, Terminated

LEMMA EndAlways == Spec => []EndInv
<1>1. Init => EndInv
  BY DEF Init, EndInv
<1>. QED
  BY <1>1, InvAlways, EndNext, PTL DEF Spec

\* The tables and buffers of the memory path stay typed and within the limits
\* that full and the interconnect enforce, however large they are.
THEOREM TypeCorrect == Spec => []TypeOK
<1>1. Inv /\ EndInv => TypeOK
  BY DEF Inv, EndInv, TypeOK, CyclesOK
<1>. QED
  BY <1>1, InvAlways, EndAlways, PTL

\* write_back_request_l2 never meets a request that is not pending.
THEOREM RepliesAreExpected == Spec => []NoReplyFault
<1>1. Inv => NoReplyFault
  BY DEF Inv
<1>. QED
  BY <1>1, InvAlways, PTL

\* In the cycles no mem_fetch is deleted while a queue, an MSHR entry or
\* retired_mem_fetches still holds it, so none is deleted twice; and ~gpu deletes
\* again only loads of retired_mem_fetches, whatever is under way when it runs.
THEOREM DeletesAreSafe == Spec => []NoUseAfterDelete
<1>1. Inv /\ EndInv => NoUseAfterDelete
  BY InvDeletes DEF EndInv, NoUseAfterDelete
<1>. QED
  BY <1>1, InvAlways, EndAlways, PTL

\* A load the scoreboard waits for is never stranded in the L1's MSHRs, and an
\* entry of the L2's MSHRs has its own read in the DRAM.
THEOREM LoadsAreNeverLost == Spec => []LoadNeverLost
BY InvAlways, InvFinds, PTL
=============================================================================
