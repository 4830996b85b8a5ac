------------------------- MODULE IapProtocol_proof -------------------------
(***************************************************************************)
(* Proofs about the command interpreter, for every byte width, address     *)
(* length, queue length and set of datagrams, and for every operation in   *)
(* the place of exclusive or that yields bytes.                            *)
(***************************************************************************)
EXTENDS IapProtocol, SequenceTheorems, FiniteSetTheorems, TLAPS

-----------------------------------------------------------------------------
(* Sequences: the front and the rest of one. *)

LEMMA FirstProperties ==
  ASSUME NEW S, NEW s \in Seq(S), NEW n \in 0 .. Len(s)
  PROVE  /\ First(s, n) \in Seq(S)
         /\ Len(First(s, n)) = n
         /\ \A i \in 1 .. n : First(s, n)[i] = s[i]
<1>1. \A i \in 1 .. n : s[i] \in S
  BY ElementOfSeq
<1>2. n \in Int /\ n >= 0
  OBVIOUS
<1> QED BY <1>1, <1>2, SubSeqProperties DEF First

LEMMA RestProperties ==
  ASSUME NEW S, NEW s \in Seq(S), NEW n \in 0 .. Len(s)
  PROVE  /\ Rest(s, n) \in Seq(S)
         /\ Len(Rest(s, n)) = Len(s) - n
         /\ \A i \in 1 .. Len(s) - n : Rest(s, n)[i] = s[n + i]
<1>1. n \in Int /\ n >= 0 /\ Len(s) \in Nat /\ n <= Len(s)
  OBVIOUS
<1>2. \A i \in n + 1 .. Len(s) : s[i] \in S
  BY <1>1, ElementOfSeq
<1>3. /\ SubSeq(s, n + 1, Len(s)) \in Seq(S)
      /\ Len(SubSeq(s, n + 1, Len(s))) = IF n + 1 <= Len(s) THEN Len(s) - (n + 1) + 1 ELSE 0
      /\ \A i \in 1 .. Len(s) - (n + 1) + 1 : SubSeq(s, n + 1, Len(s))[i] = s[n + 1 + i - 1]
  BY <1>1, <1>2, SubSeqProperties
<1> QED BY <1>1, <1>3 DEF Rest

LEMMA StretchProperties ==
  ASSUME NEW S, NEW s \in Seq(S), NEW k \in Nat, k + 2 <= Len(s)
  PROVE  /\ SubSeq(s, 3, k + 2) \in Seq(S)
         /\ Len(SubSeq(s, 3, k + 2)) = k
         /\ \A i \in 1 .. k : SubSeq(s, 3, k + 2)[i] = s[i + 2]
<1>1. \A i \in 3 .. k + 2 : s[i] \in S
  BY ElementOfSeq
<1>2. /\ SubSeq(s, 3, k + 2) \in Seq(S)
      /\ Len(SubSeq(s, 3, k + 2)) = IF 3 <= k + 2 THEN (k + 2) - 3 + 1 ELSE 0
      /\ \A i \in 1 .. (k + 2) - 3 + 1 : SubSeq(s, 3, k + 2)[i] = s[3 + i - 1]
  BY <1>1, SubSeqProperties
<1>3. (k + 2) - 3 + 1 = k /\ \A i \in 1 .. k : 3 + i - 1 = i + 2
  OBVIOUS
<1> QED BY <1>2, <1>3

LEMMA RestOfConcat ==
  ASSUME NEW S, NEW f \in Seq(S), NEW g \in Seq(S), NEW n \in 0 .. Len(f)
  PROVE  Rest(f \o g, n) = Rest(f, n) \o g
<1>1. /\ Rest(f, n) \in Seq(S)
      /\ Len(Rest(f, n)) = Len(f) - n
      /\ \A i \in 1 .. Len(f) - n : Rest(f, n)[i] = f[n + i]
  BY RestProperties
<1>2. /\ f \o g \in Seq(S)
      /\ Len(f \o g) = Len(f) + Len(g)
      /\ \A i \in 1 .. Len(f) + Len(g) : (f \o g)[i] = IF i <= Len(f) THEN f[i] ELSE g[i - Len(f)]
  BY ConcatProperties
<1>3. n \in 0 .. Len(f \o g) /\ Len(f) \in Nat /\ Len(g) \in Nat
  BY <1>2
<1>4. /\ Rest(f \o g, n) \in Seq(S)
      /\ Len(Rest(f \o g, n)) = Len(f \o g) - n
      /\ \A i \in 1 .. Len(f \o g) - n : Rest(f \o g, n)[i] = (f \o g)[n + i]
  <2>1. f \o g \in Seq(S)
    BY <1>2
  <2> QED BY ONLY <2>1, <1>3, RestProperties
<1>a. Rest(f, n) \in Seq(S)
  BY <1>1
<1>b. /\ Rest(f, n) \o g \in Seq(S)
      /\ Len(Rest(f, n) \o g) = Len(Rest(f, n)) + Len(g)
      /\ \A i \in 1 .. Len(Rest(f, n)) + Len(g) :
           (Rest(f, n) \o g)[i] =
             IF i <= Len(Rest(f, n)) THEN Rest(f, n)[i] ELSE g[i - Len(Rest(f, n))]
  BY ONLY <1>a, g \in Seq(S), ConcatProperties
<1>5. /\ Rest(f, n) \o g \in Seq(S)
      /\ Len(Rest(f, n) \o g) = Len(f) - n + Len(g)
      /\ \A i \in 1 .. Len(f) - n + Len(g) :
           (Rest(f, n) \o g)[i] = IF i <= Len(f) - n THEN Rest(f, n)[i] ELSE g[i - (Len(f) - n)]
  <2>1. Len(Rest(f, n)) = Len(f) - n
    BY <1>1
  <2> QED BY ONLY <1>b, <2>1
<1>6. Len(Rest(f \o g, n)) = Len(Rest(f, n) \o g)
  BY <1>2, <1>3, <1>4, <1>5
<1>7. \A i \in 1 .. Len(Rest(f \o g, n)) : Rest(f \o g, n)[i] = (Rest(f, n) \o g)[i]
  <2> SUFFICES ASSUME NEW i \in 1 .. Len(f) + Len(g) - n
               PROVE  Rest(f \o g, n)[i] = (Rest(f, n) \o g)[i]
    <3>1. Len(f \o g) - n = Len(f) + Len(g) - n
      BY <1>2
    <3>2. Len(Rest(f \o g, n)) = Len(f) + Len(g) - n
      BY <1>4, <3>1
    <3> QED BY <3>2
  <2>0. i \in 1 .. Len(f \o g) - n /\ n + i \in 1 .. Len(f) + Len(g) /\ n \in Nat
    BY <1>2, <1>3
  <2>1. Rest(f \o g, n)[i] = (f \o g)[n + i]
    BY <1>4, <2>0
  <2>2. (f \o g)[n + i] = IF n + i <= Len(f) THEN f[n + i] ELSE g[n + i - Len(f)]
    BY <1>2, <2>0
  <2>3. CASE n + i <= Len(f)
    <3>1. i \in 1 .. Len(f) - n
      BY <1>3, <2>3
    <3> QED BY <1>1, <1>5, <2>1, <2>2, <2>3, <3>1
  <2>4. CASE n + i > Len(f)
    <3>1. i \in 1 .. Len(f) - n + Len(g) /\ ~(i <= Len(f) - n)
      BY <1>3, <2>4
    <3>2. i - (Len(f) - n) = n + i - Len(f)
      BY <1>3
    <3>3. (Rest(f, n) \o g)[i] = g[i - (Len(f) - n)]
      BY <1>5, <3>1
    <3>4. ~(n + i <= Len(f))
      BY <1>3, <2>4
    <3> QED BY <2>1, <2>2, <3>2, <3>3, <3>4
  <2>5. n + i <= Len(f) \/ n + i > Len(f)
    BY <1>3, <2>0
  <2> QED BY <2>3, <2>4, <2>5
<1> QED BY <1>4, <1>5, <1>6, <1>7, SeqEqual

LEMMA FirstAndNext ==
  ASSUME NEW S, NEW s \in Seq(S), NEW n \in Nat, n < Len(s)
  PROVE  First(s, n + 1) = First(s, n) \o <<s[n + 1]>>
<1>1. n \in 0 .. Len(s) /\ n + 1 \in 0 .. Len(s) /\ s[n + 1] \in S
  BY ElementOfSeq
<1>2. /\ First(s, n) \in Seq(S) /\ Len(First(s, n)) = n
      /\ \A i \in 1 .. n : First(s, n)[i] = s[i]
  BY <1>1, FirstProperties
<1>3. /\ First(s, n + 1) \in Seq(S) /\ Len(First(s, n + 1)) = n + 1
      /\ \A i \in 1 .. n + 1 : First(s, n + 1)[i] = s[i]
  BY <1>1, FirstProperties
<1>4. <<s[n + 1]>> \in Seq(S) /\ Len(<<s[n + 1]>>) = 1 /\ <<s[n + 1]>>[1] = s[n + 1]
  BY <1>1
<1>5. /\ First(s, n) \o <<s[n + 1]>> \in Seq(S)
      /\ Len(First(s, n) \o <<s[n + 1]>>) = n + 1
      /\ \A i \in 1 .. n + 1 : (First(s, n) \o <<s[n + 1]>>)[i] =
           IF i <= n THEN First(s, n)[i] ELSE <<s[n + 1]>>[i - n]
  BY <1>2, <1>4, ConcatProperties
<1>6. \A i \in 1 .. n + 1 : First(s, n + 1)[i] = (First(s, n) \o <<s[n + 1]>>)[i]
  <2> TAKE i \in 1 .. n + 1
  <2>1. CASE i <= n
    BY <1>2, <1>3, <1>5, <2>1
  <2>2. CASE i = n + 1
    <3>1. ~(i <= n) /\ i - n = 1
      BY <2>2
    <3>2. (First(s, n) \o <<s[n + 1]>>)[i] = <<s[n + 1]>>[i - n]
      BY <1>5, <3>1
    <3>3. <<s[n + 1]>>[i - n] = s[n + 1]
      BY <1>4, <3>1
    <3> QED BY <1>3, <2>2, <3>2, <3>3
  <2>3. i <= n \/ i = n + 1
    OBVIOUS
  <2> QED BY <2>1, <2>2, <2>3
<1> QED BY <1>3, <1>5, <1>6, SeqEqual

LEMMA NothingRead ==
  ASSUME NEW S, NEW s \in Seq(S), NEW f \in Seq(S)
  PROVE  /\ f \o First(s, 0) = f
         /\ Rest(s, 0) = s
<1>1. First(s, 0) = <<>>
  BY SubSeqEmpty DEF First
<1>2. Rest(s, 0) \in Seq(S) /\ Len(Rest(s, 0)) = Len(s)
      /\ \A i \in 1 .. Len(s) : Rest(s, 0)[i] = s[i]
  <2>1. 0 \in 0 .. Len(s)
    OBVIOUS
  <2> QED BY <2>1, RestProperties
<1>3. Rest(s, 0) = s
  BY <1>2, SeqEqual
<1> QED BY <1>1, <1>3, ConcatEmptySeq

LEMMA EmptyRest ==
  ASSUME NEW S, NEW s \in Seq(S), NEW n \in 0 .. Len(s)
  PROVE  (Rest(s, n) = <<>>) <=> (Len(s) = n)
<1>1. Rest(s, n) \in Seq(S) /\ Len(Rest(s, n)) = Len(s) - n
  BY RestProperties
<1>2. (Rest(s, n) = <<>>) <=> (Len(Rest(s, n)) = 0)
  BY <1>1, EmptySeq
<1> QED BY <1>1, <1>2

-----------------------------------------------------------------------------
(* The check sum of bytes is a byte.  XorAll folds a function over the set   *)
(* of its indices; the proof is by the least number of indices for which it  *)
(* would fail.                                                               *)

LEMMA LeastNumber ==
  ASSUME NEW T, T \subseteq Nat, T # {}
  PROVE  \E n \in T : \A m \in T : n <= m
<1>1. PICK n \in T : \A m \in T : <<m, n>> \notin OpToRel(<, Nat)
  BY WFMin, NatLessThanWellFounded, Zenon
<1>2. \A m \in T : ~(m < n)
  BY <1>1, Zenon DEF OpToRel
<1>3. \A m \in T : m \in Nat /\ n \in Nat
  OBVIOUS
<1> QED BY <1>2, <1>3

(* The index a fold takes first, one step of the fold, and all of it. *)
Taken(t) == CHOOSE i \in t : TRUE
Folded(f, s, t) == IF t = {} THEN 0 ELSE XorByte(s[Taken(t)], f[t \ {Taken(t)}])
Folding(s) == CHOOSE f : f = [t \in SUBSET DOMAIN s |-> Folded(f, s, t)]

LEMMA XorAllFolds ==
  ASSUME NEW s PROVE XorAll(s) = Folding(s)[DOMAIN s]
BY DEF XorAll, Folding, Folded, Taken, FoldFunction, FoldFunctionOnSet, MapThenFoldSet

LEMMA SmallerFold ==
  ASSUME NEW s \in Seq(Byte), NEW t \in SUBSET DOMAIN s
  PROVE  /\ IsFiniteSet(t) /\ Cardinality(t) \in Nat /\ Cardinality(t) <= Len(s)
         /\ t # {} => /\ Cardinality(t) # 0
                      /\ s[Taken(t)] \in Byte
                      /\ t \ {Taken(t)} \in SUBSET DOMAIN s
                      /\ Cardinality(t \ {Taken(t)}) = Cardinality(t) - 1
<1>1. DOMAIN s = 1 .. Len(s) /\ Len(s) \in Nat
  BY LenProperties
<1>2. IsFiniteSet(1 .. Len(s)) /\ Cardinality(1 .. Len(s)) = Len(s)
  <2>1. 1 \in Int /\ Len(s) \in Int
    BY <1>1
  <2>2. /\ IsFiniteSet(1 .. Len(s))
        /\ Cardinality(1 .. Len(s)) = IF 1 > Len(s) THEN 0 ELSE Len(s) - 1 + 1
    BY ONLY <2>1, FS_Interval
  <2> QED BY <1>1, <2>2
<1>3. IsFiniteSet(t) /\ Cardinality(t) <= Len(s)
  BY <1>1, <1>2, FS_Subset
<1>4. Cardinality(t) \in Nat
  BY <1>3, FS_CardinalityType
<1>5. ASSUME t # {}
      PROVE  /\ Cardinality(t) # 0
             /\ s[Taken(t)] \in Byte
             /\ t \ {Taken(t)} \in SUBSET DOMAIN s
             /\ Cardinality(t \ {Taken(t)}) = Cardinality(t) - 1
  <2>1. Taken(t) \in t
    BY <1>5 DEF Taken
  <2>2. Cardinality(t) # 0
    BY <1>3, <1>5, FS_EmptySet
  <2>3. Cardinality(t \ {Taken(t)}) = Cardinality(t) - 1
    BY <1>3, <2>1, FS_RemoveElement
  <2>4. s[Taken(t)] \in Byte
    BY <1>1, <2>1, ElementOfSeq
  <2> QED BY <2>2, <2>3, <2>4
<1> QED BY <1>3, <1>4, <1>5

LEMMA FoldedIsByte ==
  ASSUME NEW s \in Seq(Byte), NEW t \in SUBSET DOMAIN s, NEW f,
         t # {} => f[t \ {Taken(t)}] \in Byte
  PROVE  Folded(f, s, t) \in Byte
<1>1. 0 \in Byte
  BY IapProtocolAssumption DEF Byte
<1>2. CASE t = {}
  BY <1>1, <1>2 DEF Folded
<1>3. CASE t # {}
  <2>1. s[Taken(t)] \in Byte /\ f[t \ {Taken(t)}] \in Byte
    BY <1>3, SmallerFold
  <2>2. \A x, y \in Byte : XorByte(x, y) \in Byte
    BY IapProtocolAssumption
  <2> QED BY <1>3, <2>1, <2>2 DEF Folded
<1> QED BY <1>2, <1>3

(* There is a function that folds sets of up to n indices, for every n. *)
LEMMA FoldExists ==
  ASSUME NEW s \in Seq(Byte)
  PROVE  \E f : f = [t \in SUBSET DOMAIN s |-> Folded(f, s, t)]
<1> DEFINE D == SUBSET DOMAIN s
           Good(n) == \E f \in [D -> Byte] :
                        \A t \in D : Cardinality(t) <= n => f[t] = Folded(f, s, t)
           Bad == {n \in Nat : ~Good(n)}
<1>1. ASSUME NEW n \in Bad, \A m \in Bad : n <= m PROVE FALSE
  <2>1. CASE n = 0
    <3> DEFINE f == [t \in D |-> 0]
    <3>1. 0 \in Byte
      BY IapProtocolAssumption DEF Byte
    <3>2. f \in [D -> Byte]
      BY <3>1
    <3>3. ASSUME NEW t \in D, Cardinality(t) <= n PROVE f[t] = Folded(f, s, t)
      <4>1. t = {}
        <5>1. Cardinality(t) \in Nat /\ (t # {} => Cardinality(t) # 0)
          BY SmallerFold
        <5> QED BY <2>1, <3>3, <5>1
      <4> QED BY <4>1 DEF Folded
    <3> QED BY <3>2, <3>3
  <2>2. CASE n # 0
    <3>1. n \in Nat /\ n - 1 \in Nat /\ ~(n <= n - 1)
      BY <2>2
    <3>2. Good(n - 1)
      BY <1>1, <3>1
    <3>3. PICK f \in [D -> Byte] :
            \A t \in D : Cardinality(t) <= n - 1 => f[t] = Folded(f, s, t)
      BY <3>2
    <3> DEFINE g == [t \in D |-> IF Cardinality(t) = n THEN Folded(f, s, t) ELSE f[t]]
    <3>4. ASSUME NEW t \in D
          PROVE  Folded(f, s, t) \in Byte
      <4>1. t # {} => t \ {Taken(t)} \in D
        BY SmallerFold
      <4> QED BY <4>1, FoldedIsByte
    <3>5. g \in [D -> Byte]
      BY <3>4
    <3>6. ASSUME NEW t \in D, Cardinality(t) <= n PROVE g[t] = Folded(g, s, t)
      <4>1. /\ Cardinality(t) \in Nat
            /\ t # {} => t \ {Taken(t)} \in D /\ Cardinality(t \ {Taken(t)}) = Cardinality(t) - 1
        BY SmallerFold
      <4>2. t # {} => g[t \ {Taken(t)}] = f[t \ {Taken(t)}]
        BY <3>1, <3>6, <4>1
      <4>3. Folded(g, s, t) = Folded(f, s, t)
        BY <4>2 DEF Folded
      <4>4. g[t] = Folded(f, s, t)
        <5>1. CASE Cardinality(t) = n
          BY <5>1
        <5>2. CASE Cardinality(t) # n
          <6>1. Cardinality(t) <= n - 1
            BY <3>1, <3>6, <4>1, <5>2
          <6> QED BY <3>3, <5>2, <6>1
        <5> QED BY <5>1, <5>2
      <4> QED BY <4>3, <4>4
    <3>7. Good(n)
      BY <3>5, <3>6
    <3> QED BY <3>7
  <2> QED BY <2>1, <2>2
<1>2. Bad \subseteq Nat
  OBVIOUS
<1>3. Len(s) \in Nat
  BY LenProperties
<1>4. Good(Len(s))
  <2> HIDE DEF Good
  <2>1. Bad = {}
    <3> HIDE DEF Bad
    <3> QED BY <1>1, <1>2, LeastNumber
  <2> QED BY <1>3, <2>1
<1>5. PICK f \in [D -> Byte] :
        \A t \in D : Cardinality(t) <= Len(s) => f[t] = Folded(f, s, t)
  BY <1>4
<1>6. \A t \in D : f[t] = Folded(f, s, t)
  BY <1>5, SmallerFold
<1>7. f = [t \in D |-> Folded(f, s, t)]
  BY <1>5, <1>6
<1> QED BY <1>7

(* The check sums of the protocol (Write's runs over a whole block) are bytes *)
(* for data of every length: a shortest counterexample would leave a shorter *)
(* one when its next element is taken out.                                   *)
THEOREM XorAllIsByte ==
  ASSUME NEW s \in Seq(Byte)
  PROVE  XorAll(s) \in Byte
<1> DEFINE F == Folding(s)
           D == SUBSET DOMAIN s
           Bad == {n \in Nat : \E t \in D : Cardinality(t) = n /\ F[t] \notin Byte}
<1>1. F = [t \in D |-> Folded(F, s, t)]
  BY FoldExists DEF Folding
<1> HIDE DEF F
<1>2. ASSUME NEW n \in Bad, \A m \in Bad : n <= m PROVE FALSE
  <2>1. PICK t \in D : Cardinality(t) = n /\ F[t] \notin Byte
    OBVIOUS
  <2>2. F[t] = Folded(F, s, t)
    BY <1>1
  <2>3. ASSUME t # {} PROVE F[t \ {Taken(t)}] \in Byte
    <3>1. t \ {Taken(t)} \in D /\ Cardinality(t \ {Taken(t)}) = n - 1 /\ n # 0 /\ n \in Nat
      BY <2>1, <2>3, SmallerFold
    <3>2. n - 1 \in Nat /\ ~(n <= n - 1)
      BY <3>1
    <3>3. n - 1 \notin Bad
      BY <1>2, <3>2
    <3> QED BY <3>1, <3>2, <3>3
  <2>4. Folded(F, s, t) \in Byte
    BY <2>3, FoldedIsByte
  <2> QED BY <2>1, <2>2, <2>4
<1>3. Bad = {}
  <2>1. Bad \subseteq Nat
    OBVIOUS
  <2> HIDE DEF Bad
  <2> QED BY <1>2, <2>1, LeastNumber
<1>4. DOMAIN s \in D /\ Cardinality(DOMAIN s) \in Nat
  BY SmallerFold
<1>5. F[DOMAIN s] \in Byte
  BY <1>3, <1>4
<1> QED BY <1>5, XorAllFolds DEF F

-----------------------------------------------------------------------------
(* Type correctness. *)

LEMMA QueueAfterReading ==
  ASSUME TypeOK, NEW n \in 0 .. Len(rx_queue), Consume(n)
  PROVE  rx_queue' \in Seq(Byte) /\ Len(rx_queue') <= Cap
<1>1. rx_queue \in Seq(Byte) /\ Len(rx_queue) <= Cap /\ Cap \in Nat
  BY IapProtocolAssumption DEF TypeOK
<1>2. Rest(rx_queue, n) \in Seq(Byte) /\ Len(Rest(rx_queue, n)) = Len(rx_queue) - n
  BY <1>1, RestProperties
<1> QED BY <1>1, <1>2 DEF Consume

LEMMA FrameAfterReading ==
  ASSUME TypeOK, NEW n \in 0 .. Len(rx_queue), frame' = frame \o First(rx_queue, n)
  PROVE  frame' \in Seq(Byte)
<1>1. rx_queue \in Seq(Byte) /\ frame \in Seq(Byte)
  BY DEF TypeOK
<1>2. First(rx_queue, n) \in Seq(Byte)
  BY <1>1, FirstProperties
<1> QED BY <1>1, <1>2, ConcatProperties

LEMMA QueueAfterReceiving ==
  ASSUME TypeOK, NEW d \in Seq(Byte), Receive(d)
  PROVE  rx_queue' \in Seq(Byte) /\ Len(rx_queue') <= Cap
<1> DEFINE n == Smaller(Len(d), Cap - Len(rx_queue))
<1>1. rx_queue \in Seq(Byte) /\ Len(rx_queue) <= Cap /\ Cap \in Nat
  BY IapProtocolAssumption DEF TypeOK
<1>2. n \in 0 .. Len(d) /\ n <= Cap - Len(rx_queue)
  BY <1>1 DEF Smaller
<1>3. rx_queue' = rx_queue \o First(d, n)
  BY DEF Receive
<1> HIDE DEF n
<1>4. First(d, n) \in Seq(Byte) /\ Len(First(d, n)) = n
  BY <1>2, FirstProperties
<1>5. /\ rx_queue \o First(d, n) \in Seq(Byte)
      /\ Len(rx_queue \o First(d, n)) = Len(rx_queue) + Len(First(d, n))
  BY <1>1, <1>4, ConcatProperties
<1> QED BY <1>1, <1>2, <1>3, <1>4, <1>5

(* The bytes the statics are set from. *)
LEMMA BytesOfTheQueue ==
  ASSUME TypeOK, NEW i \in 1 .. Len(rx_queue)
  PROVE  rx_queue[i] \in Byte
BY ElementOfSeq DEF TypeOK

LEMMA TypeInit == Init => TypeOK
<1> SUFFICES ASSUME Init PROVE TypeOK
  OBVIOUS
<1>1. AllOnes \in Nat /\ AddrLen \in Nat /\ Cap \in Nat /\ MaxDatagrams \in Nat
  BY IapProtocolAssumption
<1>2. 0 \in Byte
  BY <1>1 DEF Byte
<1>3. <<>> \in Seq(Byte) /\ Len(<<>>) = 0
  BY EmptySeq
<1>4. start_addr \in Seq(Byte) /\ Len(start_addr) = AddrLen
  <2>1. start_addr \in [1 .. AddrLen -> Byte]
    BY <1>2 DEF Init
  <2> QED BY <1>1, <2>1, LenProperties, SeqDef
<1>5. rx_queue \in Seq(Byte) /\ Len(rx_queue) = 0 /\ frame \in Seq(Byte)
  BY <1>3 DEF Init
<1>6. bl_cmd \in Byte
  BY <1>2 DEF Init
<1>7. Len(rx_queue) <= Cap
  BY <1>1, <1>5
<1>8. timeUp \in BOOLEAN
  BY DEF Init
<1>9. /\ turn = "runReceiver" /\ iap_tick \in 0 .. 1 /\ exe_tick \in 0 .. 3
      /\ pack_length \in 0 .. AllOnes + 1 /\ delivered \in 0 .. MaxDatagrams
  BY <1>1 DEF Init
<1> QED BY <1>4, <1>5, <1>6, <1>7, <1>8, <1>9 DEF TypeOK

(* A step of the interpreter, whoever it is that feeds it. *)
Fed == (\E d \in Seq(Byte) : Receive(d)) \/ ReceiveNothing

FedStep == Fed \/ iap_run \/ Elapse \/ UNCHANGED vars

LEMMA NextIsFedStep ==
  ASSUME TypeOK, [Next]_vars
  PROVE  FedStep /\ delivered' \in 0 .. MaxDatagrams
<1>1. CASE runReceiver
  <2>1. delivered' \in 0 .. MaxDatagrams
    BY <1>1, IapProtocolAssumption DEF TypeOK, runReceiver
  <2> QED BY <1>1, <2>1, IapProtocolAssumption DEF runReceiver, FedStep, Fed
<1>2. CASE iap_run \/ Elapse \/ Loaded \/ UNCHANGED vars
  BY <1>2 DEF iap_run, Elapse, Loaded, vars, TypeOK, FedStep
<1> QED BY <1>1, <1>2 DEF Next

LEMMA TypeFed ==
  ASSUME TypeOK, Fed, delivered' \in 0 .. MaxDatagrams
  PROVE  TypeOK'
<1>1. ASSUME NEW d \in Seq(Byte), Receive(d) PROVE TypeOK'
  <2>1. rx_queue' \in Seq(Byte) /\ Len(rx_queue') <= Cap
    BY <1>1, QueueAfterReceiving
  <2> QED BY <1>1, <2>1 DEF TypeOK, Receive, device
<1>2. CASE ReceiveNothing
  BY <1>2 DEF TypeOK, ReceiveNothing, device
<1> QED BY <1>1, <1>2 DEF Fed

(* What the actions that read n bytes have in common. *)
LEMMA TypeGoOn ==
  ASSUME TypeOK, NEW n \in 0 .. Len(rx_queue), NEW b, GoOn(n, b), exe_tick < 3
  PROVE  /\ rx_queue' \in Seq(Byte) /\ Len(rx_queue') <= Cap
         /\ frame' \in Seq(Byte)
         /\ exe_tick' \in 0 .. 3
         /\ UNCHANGED <<timeUp, iap_tick, bl_cmd>>
<1>1. Consume(n) /\ frame' = frame \o First(rx_queue, n) /\ exe_tick' = exe_tick + 1
      /\ UNCHANGED <<timeUp, iap_tick, bl_cmd>>
  BY DEF GoOn
<1>2. exe_tick' \in 0 .. 3
  BY <1>1 DEF TypeOK
<1> QED BY <1>1, <1>2, QueueAfterReading, FrameAfterReading

LEMMA TypeLeave ==
  ASSUME TypeOK, NEW n \in 0 .. Len(rx_queue), NEW b, Leave(n, b)
  PROVE  /\ rx_queue' \in Seq(Byte) /\ Len(rx_queue') <= Cap
         /\ frame' \in Seq(Byte)
         /\ exe_tick' = 0 /\ iap_tick' = 0
         /\ UNCHANGED <<timeUp, bl_cmd>>
<1>1. Consume(n) /\ frame' = frame \o First(rx_queue, n) /\ exe_tick' = 0 /\ iap_tick' = 0
      /\ UNCHANGED <<timeUp, bl_cmd>>
  BY DEF BackToCase0, Leave
<1> QED BY <1>1, QueueAfterReading, FrameAfterReading

LEMMA TypeWaitFor ==
  ASSUME TypeOK, NEW n, WaitFor(n), turn' \in {"runReceiver", "iap_run", "iap_load_app"},
         UNCHANGED delivered
  PROVE  TypeOK'
<1>1. <<>> \in Seq(Byte) /\ Len(<<>>) = 0 /\ Cap \in Nat
  BY EmptySeq, IapProtocolAssumption
<1>2. rx_queue' \in Seq(Byte) /\ Len(rx_queue') <= Cap
  <2>1. CASE rx_queue' = rx_queue
    BY <2>1 DEF TypeOK
  <2>2. CASE rx_queue' = <<>>
    BY <1>1, <2>2
  <2> QED BY <2>1, <2>2 DEF BackToCase0, WaitFor, Stay, clear_read_buf
<1>3. timeUp' \in BOOLEAN
  BY DEF BackToCase0, TypeOK, WaitFor, Stay, clear_read_buf
<1>5. iap_tick' \in 0 .. 1 /\ exe_tick' \in 0 .. 3
  BY DEF BackToCase0, TypeOK, WaitFor
<1>4. UNCHANGED <<bl_cmd, frame, start_addr, pack_length>>
  BY DEF BackToCase0, WaitFor
<1> QED BY <1>2, <1>3, <1>4, <1>5 DEF TypeOK

LEMMA AddressType ==
  ASSUME TypeOK, Len(rx_queue) >= AddrLen + 1
  PROVE  /\ First(rx_queue, AddrLen) \in Seq(Byte)
         /\ Len(First(rx_queue, AddrLen)) = AddrLen
         /\ AddrLen + 1 \in 0 .. Len(rx_queue)
<1>1. AddrLen \in Nat /\ rx_queue \in Seq(Byte) /\ Len(rx_queue) \in Nat
  BY IapProtocolAssumption DEF TypeOK
<1>2. AddrLen \in 0 .. Len(rx_queue) /\ AddrLen + 1 \in 0 .. Len(rx_queue)
  BY <1>1
<1> QED BY <1>1, <1>2, FirstProperties

LEMMA LengthType ==
  ASSUME TypeOK, rx_queue # <<>>
  PROVE  /\ rx_queue[1] + 1 \in 0 .. AllOnes + 1
         /\ rx_queue[1] + 1 > 0
         /\ 1 \in 0 .. Len(rx_queue)
         /\ rx_queue[1] \in Byte
<1>1. AllOnes \in Nat /\ rx_queue \in Seq(Byte) /\ Len(rx_queue) \in Nat
  BY IapProtocolAssumption DEF TypeOK
<1>2. Len(rx_queue) >= 1
  BY <1>1, EmptySeq
<1>3. rx_queue[1] \in Byte
  BY <1>1, <1>2, ElementOfSeq
<1> QED BY <1>1, <1>2, <1>3 DEF Byte

LEMMA DataType ==
  ASSUME TypeOK, Len(rx_queue) >= pack_length + 1
  PROVE  pack_length + 1 \in 0 .. Len(rx_queue) /\ pack_length \in 0 .. Len(rx_queue)
<1>1. pack_length \in Nat /\ rx_queue \in Seq(Byte) /\ Len(rx_queue) \in Nat
  BY IapProtocolAssumption DEF TypeOK
<1> QED BY <1>1

LEMMA TypeIapRun ==
  ASSUME TypeOK, StepOfTheCommand, iap_run
  PROVE  TypeOK'
<1> USE DEF iap_run
<1>a. rx_queue \in Seq(Byte) /\ Len(rx_queue) \in Nat /\ 0 \in 0 .. Len(rx_queue)
  BY DEF TypeOK
<1>b. UNCHANGED delivered /\ turn' \in {"runReceiver", "iap_run", "iap_load_app"}
  BY DEF LoadApp
<1>1. CASE NoCommandYet
  <2>1. <<>> \in Seq(Byte) /\ Len(<<>>) = 0 /\ Cap \in Nat
    BY EmptySeq, IapProtocolAssumption
  <2>2. rx_queue' \in Seq(Byte) /\ Len(rx_queue') <= Cap
    <3>1. CASE rx_queue' = rx_queue
      BY <3>1 DEF TypeOK
    <3>2. CASE rx_queue' = <<>>
      BY <2>1, <3>2
    <3> QED BY <1>1, <3>1, <3>2 DEF NoCommandYet, Stay, clear_read_buf
  <2>3. timeUp' \in BOOLEAN
    BY <1>1 DEF TypeOK, NoCommandYet, Stay, clear_read_buf
  <2> QED BY <1>1, <1>b, <2>2, <2>3 DEF TypeOK, NoCommandYet, device
<1>2. CASE TakeCommand
  <2>1. 2 \in 0 .. Len(rx_queue) /\ 1 \in 1 .. Len(rx_queue)
    BY <1>2, <1>a DEF TakeCommand
  <2>2. rx_queue' \in Seq(Byte) /\ Len(rx_queue') <= Cap
    BY <1>2, <2>1, QueueAfterReading DEF TakeCommand
  <2>3. bl_cmd' \in Byte
    BY <1>2, <2>1, BytesOfTheQueue DEF TakeCommand
  <2>4. frame' \in Seq(Byte)
    BY <1>2, <1>a, <2>1, FirstProperties DEF TakeCommand
  <2>5. iap_tick' \in 0 .. 1 /\ UNCHANGED <<timeUp, exe_tick, start_addr, pack_length>>
    BY <1>2 DEF TakeCommand, TypeOK
  <2> QED BY <1>b, <2>2, <2>3, <2>4, <2>5 DEF TypeOK
<1>3. CASE UnknownCommand
  BY <1>3, <1>b DEF UnknownCommand, TypeOK
<1>4. CASE PlainCommand
  BY <1>4, <1>b DEF PlainCommand, TypeOK
<1>5. CASE BeginCommand
  <2>1. GoOn(0, <<"ACK">>) /\ exe_tick < 3 /\ UNCHANGED <<start_addr, pack_length>>
    BY <1>5 DEF BeginCommand, In
  <2> QED BY <1>a, <1>b, <2>1, TypeGoOn DEF TypeOK
<1>6. CASE WaitAddress
  BY <1>6, <1>b, TypeWaitFor DEF WaitAddress
<1>7. CASE TakeAddress
  <2>1. /\ GoOn(AddrLen + 1, <<"ACK">>) /\ exe_tick < 3 /\ UNCHANGED pack_length
        /\ Len(rx_queue) >= AddrLen + 1
        /\ start_addr' = start_addr \/ start_addr' = First(rx_queue, AddrLen)
    BY <1>7 DEF KeepAddress, AddressIn, TakeAddress, In
  <2>2. start_addr' \in Seq(Byte) /\ Len(start_addr') = AddrLen /\ AddrLen + 1 \in 0 .. Len(rx_queue)
    BY <2>1, AddressType DEF TypeOK
  <2> QED BY <1>b, <2>1, <2>2, TypeGoOn DEF TypeOK
<1>8. CASE RejectAddress
  <2>1. /\ \E b : Leave(AddrLen + 1, b) /\ UNCHANGED pack_length
        /\ Len(rx_queue) >= AddrLen + 1
        /\ start_addr' = start_addr \/ start_addr' = First(rx_queue, AddrLen)
    BY <1>8 DEF KeepAddress, AddressIn, RejectAddress
  <2>2. start_addr' \in Seq(Byte) /\ Len(start_addr') = AddrLen /\ AddrLen + 1 \in 0 .. Len(rx_queue)
    BY <2>1, AddressType DEF TypeOK
  <2> QED BY <1>b, <2>1, <2>2, TypeLeave DEF TypeOK
<1>9. CASE LoadApp
  <2>1. /\ Consume(AddrLen + 1) /\ frame' = frame \o First(rx_queue, AddrLen + 1)
        /\ Len(rx_queue) >= AddrLen + 1
        /\ UNCHANGED <<timeUp, iap_tick, bl_cmd, exe_tick, start_addr, pack_length>>
    BY <1>9 DEF LoadApp
  <2>2. AddrLen + 1 \in 0 .. Len(rx_queue)
    BY <2>1, AddressType
  <2>3. rx_queue' \in Seq(Byte) /\ Len(rx_queue') <= Cap /\ frame' \in Seq(Byte)
    BY <2>1, <2>2, QueueAfterReading, FrameAfterReading
  <2> QED BY <1>b, <2>1, <2>3 DEF TypeOK
<1>10. CASE WaitReadLength
  BY <1>10, <1>b, TypeWaitFor DEF WaitReadLength
<1>11. CASE TakeReadLength
  <2>1. \E b : Leave(2, b)
    BY <1>11 DEF TakeReadLength
  <2>2. 2 \in 0 .. Len(rx_queue) /\ UNCHANGED <<start_addr, pack_length>>
    BY <1>11, <1>a DEF TakeReadLength
  <2> QED BY <1>b, <2>1, <2>2, TypeLeave DEF TypeOK
<1>12. CASE WaitWriteLength
  BY <1>12, <1>b DEF WaitWriteLength, Stay, device, TypeOK
<1>13. CASE TakeWriteLength
  <2>1. /\ rx_queue # <<>> /\ UNCHANGED start_addr /\ exe_tick < 3
        /\ pack_length' = rx_queue[1] + 1
        /\ GoOn(1, <<>>) \/ Leave(1, <<>>)
    BY <1>13 DEF TakeWriteLength, In
  <2>2. 1 \in 0 .. Len(rx_queue) /\ pack_length' \in 0 .. AllOnes + 1
    BY <2>1, LengthType
  <2>3. CASE GoOn(1, <<>>)
    BY <1>b, <2>1, <2>2, <2>3, TypeGoOn DEF TypeOK
  <2>4. CASE Leave(1, <<>>)
    BY <1>b, <2>1, <2>2, <2>4, TypeLeave DEF TypeOK
  <2> QED BY <2>1, <2>3, <2>4
<1>14. CASE WaitData
  BY <1>14, <1>b, TypeWaitFor DEF WaitData
<1>15. CASE TakeData \/ RejectData
  <2>1. /\ \E b : Leave(pack_length + 1, b)
        /\ UNCHANGED <<start_addr, pack_length>>
        /\ Len(rx_queue) >= pack_length + 1
    BY <1>15 DEF TakeData, RejectData
  <2>2. pack_length + 1 \in 0 .. Len(rx_queue)
    BY <2>1, DataType
  <2> QED BY <1>b, <2>1, <2>2, TypeLeave DEF TypeOK
<1> QED BY <1>1, <1>2, <1>3, <1>4, <1>5, <1>6, <1>7, <1>8, <1>9, <1>10, <1>11,
           <1>12, <1>13, <1>14, <1>15

LEMMA TypeStep ==
  ASSUME TypeOK, StepOfTheCommand, FedStep, delivered' \in 0 .. MaxDatagrams
  PROVE  TypeOK'
<1>1. CASE Elapse
  BY <1>1 DEF Elapse, TypeOK, device
<1>2. CASE UNCHANGED vars
  BY <1>2 DEF TypeOK, vars, device
<1> QED BY <1>1, <1>2, TypeFed, TypeIapRun DEF FedStep

-----------------------------------------------------------------------------
(* The step counter. *)

(* A case that waits changes nothing or ends the command. *)
LEMMA WaitOrGiveUp ==
  ASSUME NEW n, WaitFor(n)
  PROVE  UNCHANGED device \/ (iap_tick' = 0 /\ exe_tick' = 0)
BY DEF BackToCase0, WaitFor, device

LEMMA StepStep ==
  ASSUME TypeOK, StepOfTheCommand, FedStep
  PROVE  StepOfTheCommand'
<1>a. exe_tick \in 0 .. 3 /\ iap_tick \in 0 .. 1
  BY DEF TypeOK
<1>1. CASE UNCHANGED device
  BY <1>1 DEF StepOfTheCommand, device
<1>2. CASE iap_tick' = 0 /\ exe_tick' = 0
  BY <1>2 DEF StepOfTheCommand
<1>3. CASE Fed \/ Elapse \/ UNCHANGED vars
  BY <1>1, <1>3 DEF Fed, Receive, ReceiveNothing, Elapse, vars
<1>4. CASE iap_run
  <2>1. CASE NoCommandYet \/ WaitWriteLength
    BY <1>1, <2>1 DEF NoCommandYet, WaitWriteLength
  <2>2. CASE TakeCommand
    BY <1>a, <2>2 DEF TakeCommand, StepOfTheCommand
  <2>3. CASE UnknownCommand \/ PlainCommand
    <3>1. bl_cmd \notin Long
      BY <2>3, IapProtocolAssumption DEF UnknownCommand, PlainCommand, Commands
    <3>2. exe_tick = 0
      BY <1>a, <3>1 DEF StepOfTheCommand
    <3> QED BY <1>2, <2>3, <3>2 DEF UnknownCommand, PlainCommand
  <2>4. CASE BeginCommand
    <3>1. iap_tick' = 1 /\ exe_tick' = 1 /\ bl_cmd' \in Long
      BY <2>4 DEF BeginCommand, In, GoOn
    <3> QED BY <3>1 DEF StepOfTheCommand
  <2>5. CASE WaitAddress \/ WaitReadLength \/ WaitData
    BY <1>1, <1>2, <2>5, WaitOrGiveUp DEF WaitAddress, WaitReadLength, WaitData
  <2>6. CASE TakeAddress
    <3>1. iap_tick' = 1 /\ exe_tick' = 2 /\ bl_cmd' \in {Write, Read}
      BY <2>6 DEF AddressIn, TakeAddress, In, GoOn
    <3> QED BY <3>1, IapProtocolAssumption DEF StepOfTheCommand, Long
  <2>7. CASE RejectAddress \/ TakeReadLength \/ TakeData \/ RejectData
    BY <1>2, <2>7 DEF BackToCase0, AddressIn, RejectAddress, TakeReadLength, TakeData, RejectData, Leave
  <2>8. CASE LoadApp
    <3>1. UNCHANGED <<iap_tick, bl_cmd, exe_tick, pack_length>>
      BY <2>8 DEF LoadApp
    <3> QED BY <3>1 DEF StepOfTheCommand
  <2>9. CASE TakeWriteLength
    <3>1. CASE Leave(1, <<>>)
      BY <1>2, <3>1 DEF BackToCase0, Leave
    <3>2. CASE pack_length' % Unit = 0 /\ GoOn(1, <<>>)
      <4>1. pack_length' > 0
        BY <2>9, LengthType DEF TakeWriteLength
      <4>2. iap_tick' = 1 /\ exe_tick' = 3 /\ bl_cmd' = Write
        BY <2>9, <3>2 DEF TakeWriteLength, In, GoOn
      <4> QED BY <3>2, <4>1, <4>2, IapProtocolAssumption DEF StepOfTheCommand, Long
    <3> QED BY <2>9, <3>1, <3>2 DEF TakeWriteLength
  <2> QED BY <1>4, <2>1, <2>2, <2>3, <2>4, <2>5, <2>6, <2>7, <2>8, <2>9 DEF iap_run
<1> QED BY <1>3, <1>4 DEF FedStep

-----------------------------------------------------------------------------
(* The bytes read since the command byte. *)

LEMMA FrameGrows ==
  ASSUME TypeOK, Started, NEW n \in 0 .. Len(rx_queue),
         frame' = frame \o First(rx_queue, n), UNCHANGED bl_cmd
  PROVE  /\ Started'
         /\ Rest(frame', 2) = Rest(frame, 2) \o First(rx_queue, n)
         /\ Len(frame') = Len(frame) + n
<1>1. frame \in Seq(Byte) /\ rx_queue \in Seq(Byte) /\ Len(frame) >= 2
  BY DEF TypeOK, Started
<1>2. First(rx_queue, n) \in Seq(Byte) /\ Len(First(rx_queue, n)) = n
  BY <1>1, FirstProperties
<1>3. 2 \in 0 .. Len(frame) /\ Len(frame) \in Nat
  BY <1>1
<1>4. Rest(frame', 2) = Rest(frame, 2) \o First(rx_queue, n)
  BY <1>1, <1>2, <1>3, RestOfConcat
<1>5. /\ Len(frame \o First(rx_queue, n)) = Len(frame) + Len(First(rx_queue, n))
      /\ \A i \in 1 .. Len(frame) + Len(First(rx_queue, n)) : (frame \o First(rx_queue, n))[i] =
           IF i <= Len(frame) THEN frame[i] ELSE First(rx_queue, n)[i - Len(frame)]
  BY <1>1, <1>2, ConcatProperties
<1>6. 1 \in 1 .. Len(frame) + Len(First(rx_queue, n)) /\ 2 \in 1 .. Len(frame) + Len(First(rx_queue, n))
  BY <1>1, <1>2
<1>7. frame'[1] = frame[1] /\ frame'[2] = frame[2]
  BY <1>1, <1>3, <1>5, <1>6
<1>8. Len(frame') = Len(frame) + n
  BY <1>2, <1>5
<1>9. Len(frame') >= 2
  BY <1>1, <1>3, <1>8
<1> QED BY <1>4, <1>7, <1>8, <1>9 DEF Started

LEMMA FrameStep ==
  ASSUME TypeOK, StepOfTheCommand, FrameMatchesStep, FedStep
  PROVE  FrameMatchesStep'
<1> SUFFICES ASSUME iap_tick' = 1, turn' # "iap_load_app"
             PROVE  /\ Started'
                    /\ exe_tick' < 2 => Rest(frame', 2) = <<>>
                    /\ exe_tick' = 2 /\ bl_cmd' = Write => Rest(frame', 2) = Address'
                    /\ exe_tick' = 3 => Rest(frame', 2) = Address' \o <<pack_length' - 1>>
  BY DEF FrameMatchesStep
<1>a. /\ rx_queue \in Seq(Byte) /\ Len(rx_queue) \in Nat /\ frame \in Seq(Byte)
      /\ exe_tick \in 0 .. 3 /\ iap_tick \in 0 .. 1 /\ AddrLen \in Nat
      /\ 0 \in 0 .. Len(rx_queue)
  BY IapProtocolAssumption DEF TypeOK
<1>b. turn # "iap_load_app"
  BY DEF FedStep, Fed, Receive, ReceiveNothing, iap_run, Elapse, vars
<1>c. iap_tick = 1 =>
        /\ Started
        /\ exe_tick < 2 => Rest(frame, 2) = <<>>
        /\ exe_tick = 2 /\ bl_cmd = Write => Rest(frame, 2) = Address
        /\ exe_tick = 3 => Rest(frame, 2) = Address \o <<pack_length - 1>>
  BY <1>b DEF FrameMatchesStep
<1>1. CASE UNCHANGED device
  <2>1. UNCHANGED <<iap_tick, bl_cmd, exe_tick, start_addr, pack_length, frame>>
    BY <1>1 DEF device
  <2> QED BY <1>c, <2>1 DEF Started, Address, Rest, XorAll
<1>2. CASE Fed \/ Elapse \/ UNCHANGED vars
  BY <1>1, <1>2 DEF Fed, Receive, ReceiveNothing, Elapse, vars
<1>3. CASE iap_run
  <2>1. CASE NoCommandYet \/ WaitWriteLength
    BY <1>1, <2>1 DEF NoCommandYet, WaitWriteLength
  <2>2. CASE TakeCommand
    <3>1. /\ Len(rx_queue) >= 2 /\ bl_cmd' = rx_queue[1] /\ frame' = First(rx_queue, 2)
          /\ iap_tick = 0 /\ UNCHANGED exe_tick
          /\ XorByte(rx_queue[1], rx_queue[2]) = AllOnes
      BY <2>2 DEF TakeCommand
    <3>2. 2 \in 0 .. Len(rx_queue)
      BY <1>a, <3>1
    <3>3. /\ frame' \in Seq(Byte) /\ Len(frame') = 2
          /\ frame'[1] = rx_queue[1] /\ frame'[2] = rx_queue[2]
      <4>1. /\ First(rx_queue, 2) \in Seq(Byte) /\ Len(First(rx_queue, 2)) = 2
            /\ \A i \in 1 .. 2 : First(rx_queue, 2)[i] = rx_queue[i]
        BY <1>a, <3>2, FirstProperties
      <4>2. 1 \in 1 .. 2 /\ 2 \in 1 .. 2
        OBVIOUS
      <4> QED BY <3>1, <4>1, <4>2
    <3>4. Started'
      BY <3>1, <3>3 DEF Started
    <3>5. Rest(frame', 2) = <<>>
      <4>1. frame' \in Seq(Byte) /\ 2 \in 0 .. Len(frame') /\ Len(frame') = 2
        BY <3>3
      <4> QED BY <4>1, EmptyRest
    <3>6. exe_tick' = 0
      BY <3>1 DEF StepOfTheCommand
    <3> QED BY <3>4, <3>5, <3>6
  <2>3. CASE UnknownCommand \/ PlainCommand \/ RejectAddress \/ TakeReadLength \/ TakeData \/ RejectData
    BY <2>3 DEF BackToCase0, AddressIn, UnknownCommand, PlainCommand, RejectAddress, TakeReadLength, TakeData, RejectData, Leave
  <2>4. CASE BeginCommand
    <3>1. /\ iap_tick = 1 /\ exe_tick = 0 /\ exe_tick' = 1 /\ UNCHANGED bl_cmd
          /\ frame' = frame \o First(rx_queue, 0)
      BY <2>4 DEF BeginCommand, In, GoOn
    <3>2. frame' = frame
      BY <1>a, <3>1, NothingRead
    <3>3. Started /\ Rest(frame, 2) = <<>>
      BY <1>c, <3>1
    <3>4. Started'
      BY <3>1, <3>2, <3>3 DEF Started
    <3>5. Rest(frame', 2) = <<>>
      BY <3>2, <3>3
    <3> QED BY <3>1, <3>4, <3>5
  <2>5. CASE WaitAddress \/ WaitReadLength \/ WaitData
    BY <1>1, <2>5, WaitOrGiveUp DEF WaitAddress, WaitReadLength, WaitData
  <2>6. CASE TakeAddress
    <3>1. /\ iap_tick = 1 /\ exe_tick = 1 /\ exe_tick' = 2 /\ UNCHANGED bl_cmd
          /\ frame' = frame \o First(rx_queue, AddrLen + 1)
          /\ Len(rx_queue) >= AddrLen + 1
          /\ bl_cmd = Write => start_addr' = First(rx_queue, AddrLen)
          /\ rx_queue[AddrLen + 1] = XorAll(First(rx_queue, AddrLen))
      BY <2>6 DEF KeepAddress, AddressIn, TakeAddress, In, GoOn, AddressSumOK
    <3>2. /\ AddrLen + 1 \in 0 .. Len(rx_queue) /\ AddrLen < Len(rx_queue)
          /\ First(rx_queue, AddrLen + 1) \in Seq(Byte)
      BY <1>a, <3>1, FirstProperties
    <3>3. Started /\ Rest(frame, 2) = <<>>
      BY <1>c, <3>1
    <3>4. Started' /\ Rest(frame', 2) = Rest(frame, 2) \o First(rx_queue, AddrLen + 1)
      BY <3>1, <3>2, <3>3, FrameGrows
    <3>5. Rest(frame', 2) = First(rx_queue, AddrLen + 1)
      BY <3>2, <3>3, <3>4, ConcatEmptySeq
    <3>6. First(rx_queue, AddrLen + 1) = First(rx_queue, AddrLen) \o <<rx_queue[AddrLen + 1]>>
      BY <1>a, <3>2, FirstAndNext
    <3>7. bl_cmd = Write => Rest(frame', 2) = start_addr' \o <<XorAll(start_addr')>>
      BY <3>1, <3>5, <3>6
    <3> QED BY <3>1, <3>4, <3>7 DEF Address
  <2>7. CASE LoadApp
    BY <2>7 DEF LoadApp
  <2>8. CASE TakeWriteLength
    <3>1. /\ rx_queue # <<>> /\ pack_length' = rx_queue[1] + 1 /\ UNCHANGED start_addr
          /\ iap_tick = 1 /\ exe_tick = 2 /\ exe_tick' = 3 /\ UNCHANGED bl_cmd
          /\ bl_cmd = Write
          /\ frame' = frame \o First(rx_queue, 1)
      BY <2>8 DEF BackToCase0, TakeWriteLength, In, GoOn, Leave
    <3>2. 1 \in 0 .. Len(rx_queue) /\ rx_queue[1] \in Byte /\ AllOnes \in Nat
      BY <3>1, LengthType, IapProtocolAssumption
    <3>3. Started /\ Rest(frame, 2) = Address
      BY <1>c, <3>1
    <3>4. Started' /\ Rest(frame', 2) = Rest(frame, 2) \o First(rx_queue, 1)
      BY <3>1, <3>2, <3>3, FrameGrows
    <3>5. First(rx_queue, 1) = <<rx_queue[1]>>
      <4>1. 0 \in Nat /\ 0 < Len(rx_queue)
        BY <1>a, <3>2
      <4>2. First(rx_queue, 0 + 1) = First(rx_queue, 0) \o <<rx_queue[0 + 1]>>
        BY <1>a, <4>1, FirstAndNext
      <4>3. First(rx_queue, 0) = <<>>
        BY SubSeqEmpty DEF First
      <4>4. <<rx_queue[1]>> \in Seq(Byte)
        BY <3>2
      <4>5. <<>> \o <<rx_queue[1]>> = <<rx_queue[1]>>
        BY <4>4, ConcatEmptySeq
      <4> QED BY <4>2, <4>3, <4>5
    <3>6. rx_queue[1] = pack_length' - 1
      BY <3>1, <3>2 DEF Byte
    <3>7. Address' = Address
      BY <3>1 DEF Address, XorAll
    <3>8. Rest(frame', 2) = Address' \o <<pack_length' - 1>>
      BY <3>3, <3>4, <3>5, <3>6, <3>7
    <3> QED BY <3>1, <3>4, <3>8
  <2> QED BY <1>3, <2>1, <2>2, <2>3, <2>4, <2>5, <2>6, <2>7, <2>8 DEF iap_run
<1> QED BY <1>2, <1>3 DEF FedStep

LEMMA InvariantStep ==
  ASSUME IInv, FedStep, delivered' \in 0 .. MaxDatagrams
  PROVE  IInv'
BY TypeStep, StepStep, FrameStep DEF IInv

LEMMA InvariantStart == Init => IInv
BY TypeInit DEF Init, IInv, StepOfTheCommand, FrameMatchesStep

(* The step counter, the statics and the bytes read so far agree, in every   *)
(* reachable state: the invariant the results below rest on.                 *)
THEOREM Invariant == Spec => []IInv
<1>1. IInv /\ [Next]_vars => IInv'
  BY NextIsFedStep, InvariantStep DEF IInv
<1> QED BY <1>1, InvariantStart, PTL DEF Spec

-----------------------------------------------------------------------------
(* What is written, and what is started. *)

LEMMA WritesStep ==
  ASSUME IInv, WritesAsFramed, FedStep
  PROVE  WritesAsFramed'
<1> SUFFICES ASSUME wrote' # NoWrite
             PROVE  /\ Started' /\ bl_cmd' = Write
                    /\ Rest(frame', 2) =
                         wrote'.addr \o <<XorAll(wrote'.addr)>>
                         \o <<Len(wrote'.data) - 1>> \o wrote'.data
                         \o <<XorByte(XorAll(wrote'.data), Len(wrote'.data) - 1)>>
  BY DEF WritesAsFramed, NoWrite, XorAll
<1>a. TypeOK /\ StepOfTheCommand /\ FrameMatchesStep
  BY DEF IInv
<1>1. CASE Fed \/ Elapse \/ UNCHANGED vars
  <2>1. UNCHANGED <<wrote, frame, bl_cmd>>
    BY <1>1 DEF Fed, Receive, ReceiveNothing, Elapse, vars, device
  <2>2. Started /\ bl_cmd = Write
        /\ Rest(frame, 2) =
             wrote.addr \o <<XorAll(wrote.addr)>> \o <<Len(wrote.data) - 1>> \o wrote.data
             \o <<XorByte(XorAll(wrote.data), Len(wrote.data) - 1)>>
    BY <2>1 DEF WritesAsFramed
  <2> QED BY <2>1, <2>2 DEF Started
<1>2. CASE iap_run
  <2>1. TakeData
    BY <1>2 DEF iap_run, LoadApp, NoCommandYet, TakeCommand, UnknownCommand, PlainCommand,
                BackToCase0, AddressIn, BeginCommand, GoOn, WaitAddress, WaitFor, TakeAddress, RejectAddress,
                WaitReadLength, TakeReadLength, WaitWriteLength, TakeWriteLength, WaitData,
                RejectData
  <2> DEFINE data == First(rx_queue, pack_length)
             sum  == rx_queue[pack_length + 1]
  <2>2. /\ iap_tick = 1 /\ exe_tick = 3 /\ bl_cmd = Write /\ bl_cmd' = Write /\ UNCHANGED bl_cmd
        /\ Len(rx_queue) >= pack_length + 1
        /\ sum = XorByte(XorAll(data), pack_length - 1)
        /\ frame' = frame \o First(rx_queue, pack_length + 1)
        /\ wrote'.addr = start_addr /\ wrote'.data = data
    BY <2>1 DEF BackToCase0, TakeData, In, DataSumOK, Leave
  <2>3. turn # "iap_load_app"
    BY <1>2 DEF iap_run
  <2>4. Started /\ Rest(frame, 2) = Address \o <<pack_length - 1>>
    BY <1>a, <2>2, <2>3 DEF FrameMatchesStep
  <2>5. /\ pack_length \in Nat /\ rx_queue \in Seq(Byte) /\ pack_length < Len(rx_queue)
        /\ pack_length + 1 \in 0 .. Len(rx_queue) /\ pack_length \in 0 .. Len(rx_queue)
    BY <1>a, <2>2, DataType, IapProtocolAssumption DEF TypeOK
  <2>6. data \in Seq(Byte) /\ Len(data) = pack_length
    BY <2>5, FirstProperties
  <2>7. Started' /\ Rest(frame', 2) = Rest(frame, 2) \o First(rx_queue, pack_length + 1)
    BY <1>a, <2>2, <2>4, <2>5, FrameGrows
  <2>8. First(rx_queue, pack_length + 1) = data \o <<sum>>
    BY <2>5, FirstAndNext
  <2>9. sum \in Byte
    BY <1>a, <2>5, BytesOfTheQueue
  <2> HIDE DEF data, sum
  <2>10. Rest(frame, 2) \in Seq(Byte)
    <3>1. frame \in Seq(Byte) /\ 2 \in 0 .. Len(frame)
      BY <1>a, <2>4 DEF TypeOK, Started
    <3> QED BY <3>1, RestProperties
  <2>11. Rest(frame, 2) \o (data \o <<sum>>) = (Rest(frame, 2) \o data) \o <<sum>>
    <3>1. <<sum>> \in Seq(Byte)
      BY <2>9
    <3> QED BY <2>6, <2>10, <3>1, ConcatAssociative
  <2>12. Rest(frame', 2) = ((Address \o <<pack_length - 1>>) \o data) \o <<sum>>
    BY <2>4, <2>7, <2>8, <2>11
  <2> QED BY <2>2, <2>6, <2>7, <2>12 DEF Address
<1> QED BY <1>1, <1>2 DEF FedStep

LEMMA StartsStep ==
  ASSUME IInv, StartsAsFramed, FedStep
  PROVE  StartsAsFramed'
<1> SUFFICES ASSUME turn' = "iap_load_app"
             PROVE  /\ Started' /\ bl_cmd' = Go
                    /\ Len(frame') = AddrLen + 3
                    /\ frame'[AddrLen + 3] = XorAll(SubSeq(frame', 3, AddrLen + 2))
  BY DEF StartsAsFramed, XorAll
<1>a. TypeOK /\ StepOfTheCommand /\ FrameMatchesStep
  BY DEF IInv
<1>1. CASE turn = "iap_load_app"
  <2>1. UNCHANGED <<frame, bl_cmd>>
    BY <1>1 DEF FedStep, Fed, Receive, ReceiveNothing, iap_run, Elapse, vars, device
  <2> QED BY <1>1, <2>1 DEF StartsAsFramed, Started
<1>2. CASE turn # "iap_load_app"
  <2>1. LoadApp
    BY <1>2 DEF FedStep, Fed, Receive, ReceiveNothing, iap_run, Elapse, vars
  <2> DEFINE n == AddrLen + 1
  <2>2. /\ iap_tick = 1 /\ exe_tick = 1 /\ bl_cmd = Go /\ UNCHANGED bl_cmd
        /\ Len(rx_queue) >= n
        /\ rx_queue[n] = XorAll(First(rx_queue, AddrLen))
        /\ frame' = frame \o First(rx_queue, n)
    BY <2>1 DEF LoadApp, In, AddressSumOK
  <2>3. Started /\ Rest(frame, 2) = <<>>
    BY <1>2, <1>a, <2>2 DEF FrameMatchesStep
  <2>4. n \in 0 .. Len(rx_queue) /\ AddrLen \in Nat /\ AddrLen \in 0 .. Len(rx_queue)
        /\ rx_queue \in Seq(Byte) /\ Len(rx_queue) \in Nat
    BY <1>a, <2>2, IapProtocolAssumption DEF TypeOK
  <2>5. Len(frame) = 2 /\ frame \in Seq(Byte)
    <3>1. frame \in Seq(Byte) /\ 2 \in 0 .. Len(frame)
      BY <1>a, <2>3 DEF TypeOK, Started
    <3> QED BY <2>3, <3>1, EmptyRest
  <2>6. Started' /\ Len(frame') = 2 + n
    BY <1>a, <2>2, <2>3, <2>4, <2>5, FrameGrows
  <2>7. /\ First(rx_queue, n) \in Seq(Byte) /\ Len(First(rx_queue, n)) = n
        /\ \A i \in 1 .. n : First(rx_queue, n)[i] = rx_queue[i]
    BY <2>4, FirstProperties
  <2> HIDE DEF n
  <2>8. /\ frame' \in Seq(Byte)
        /\ \A i \in 1 .. 2 + n : frame'[i] = IF i <= 2 THEN frame[i] ELSE First(rx_queue, n)[i - 2]
    <3>1. frame' = frame \o First(rx_queue, n)
      BY <2>2
    <3>2. frame \in Seq(Byte) /\ First(rx_queue, n) \in Seq(Byte)
      BY <2>5, <2>7
    <3>3. /\ frame \o First(rx_queue, n) \in Seq(Byte)
          /\ \A i \in 1 .. Len(frame) + Len(First(rx_queue, n)) :
               (frame \o First(rx_queue, n))[i] =
                 IF i <= Len(frame) THEN frame[i] ELSE First(rx_queue, n)[i - Len(frame)]
      BY ONLY <3>2, ConcatProperties
    <3>4. Len(frame) = 2 /\ Len(First(rx_queue, n)) = n
      BY <2>5, <2>7
    <3> QED BY ONLY <3>1, <3>3, <3>4
  <2>9. \A j \in 1 .. n : frame'[2 + j] = rx_queue[j]
    <3> TAKE j \in 1 .. n
    <3>1. 2 + j \in 1 .. 2 + n /\ ~(2 + j <= 2) /\ (2 + j) - 2 = j
      BY <2>4
    <3> QED BY <2>7, <2>8, <3>1
  <2>10. SubSeq(frame', 3, AddrLen + 2) = First(rx_queue, AddrLen)
    <3>1. /\ First(rx_queue, AddrLen) \in Seq(Byte) /\ Len(First(rx_queue, AddrLen)) = AddrLen
          /\ \A i \in 1 .. AddrLen : First(rx_queue, AddrLen)[i] = rx_queue[i]
      BY <2>4, FirstProperties
    <3>2. frame' \in Seq(Byte) /\ AddrLen + 2 <= Len(frame') /\ AddrLen \in Nat
      BY <2>4, <2>6, <2>8 DEF n
    <3>3. /\ SubSeq(frame', 3, AddrLen + 2) \in Seq(Byte)
          /\ Len(SubSeq(frame', 3, AddrLen + 2)) = AddrLen
          /\ \A i \in 1 .. AddrLen : SubSeq(frame', 3, AddrLen + 2)[i] = frame'[i + 2]
      BY <3>2, StretchProperties
    <3>4. \A i \in 1 .. AddrLen : SubSeq(frame', 3, AddrLen + 2)[i] = rx_queue[i]
      <4> TAKE i \in 1 .. AddrLen
      <4>1. i + 2 = 2 + i /\ i \in 1 .. n
        BY <2>4 DEF n
      <4> QED BY <2>9, <3>3, <4>1
    <3> QED BY <3>1, <3>3, <3>4, SeqEqual
  <2>11. frame'[AddrLen + 3] = rx_queue[n]
    <3>1. n \in 1 .. n /\ 2 + n = AddrLen + 3
      BY <2>4 DEF n
    <3> QED BY <2>9, <3>1
  <2>12. Len(frame') = AddrLen + 3
    BY <2>4, <2>6 DEF n
  <2> QED BY <2>2, <2>6, <2>10, <2>11, <2>12
<1> QED BY <1>1, <1>2

(* Flash is written only at the end of one complete and right Write frame    *)
(* and the application started only by such a Go frame, whatever the network *)
(* delivers and however the timer runs.                                      *)
THEOREM WritesAreFramed == Spec => []WritesAsFramed
<1>1. Init => WritesAsFramed
  BY DEF Init, WritesAsFramed
<1>2. IInv /\ WritesAsFramed /\ [Next]_vars => WritesAsFramed'
  BY NextIsFedStep, WritesStep DEF IInv
<1> QED BY <1>1, <1>2, Invariant, PTL DEF Spec

THEOREM StartsAreFramed == Spec => []StartsAsFramed
<1>1. Init => StartsAsFramed
  BY DEF Init, StartsAsFramed
<1>2. IInv /\ StartsAsFramed /\ [Next]_vars => StartsAsFramed'
  BY NextIsFedStep, StartsStep DEF IInv
<1> QED BY <1>1, <1>2, Invariant, PTL DEF Spec
=============================================================================
