--------------------------- MODULE RingQue_proof ---------------------------
(***************************************************************************)
(* Proofs about RingQue for every array length, every set of elements and  *)
(* every combination of member functions that SafeOps allows: the type and *)
(* pointer invariant is inductive, and the queue implements BoundedFifo.   *)
(***************************************************************************)
EXTENDS RingQue, SequenceTheorems, TLAPS

(* The number of elements never reaches the array length: one cell stays     *)
(* free, which is what tells a full queue from an empty one.                 *)
LEMMA ElemsBound ==
  ASSUME IInv
  PROVE  /\ elemsInQue \in 0 .. N - 1
         /\ emptyElemsInQue \in 0 .. N - 1
  BY RingQueAssumption DEF IInv, TypeOK, PointersOK, elemsInQue, emptyElemsInQue

LEMMA CopyInType ==
  ASSUME NEW m \in [Index -> Data], NEW s \in Seq(Data), NEW at \in Int
  PROVE  CopyIn(m, at, s) \in [Index -> Data]
  <1>1. \A i \in Index : at <= i /\ i < at + Len(s) => s[i - at + 1] \in Data
    BY RingQueAssumption, ElementOfSeq, LenProperties DEF Index
  <1>2. QED
    BY <1>1 DEF CopyIn

LEMMA PieceOfBuf ==
  ASSUME NEW s \in Seq(Data), NEW m \in Nat \ {0}, NEW n \in 0 .. Len(s)
  PROVE  /\ SubSeq(s, m, n) \in Seq(Data)
         /\ Len(SubSeq(s, m, n)) = IF m <= n THEN n - m + 1 ELSE 0
         /\ \A i \in 1 .. n - m + 1 : SubSeq(s, m, n)[i] = s[m + i - 1]
  <1>1. \A i \in m .. n : s[i] \in Data
    BY ElementOfSeq, LenProperties
  <1>2. n \in Int /\ m \in Int
    BY LenProperties
  <1>3. QED
    BY <1>1, <1>2, SubSeqProperties

LEMMA CopyOutType ==
  ASSUME NEW m \in [Index -> Data], NEW at \in Nat, NEW n \in Nat, at + n <= N
  PROVE  /\ CopyOut(m, at, n) \in Seq(Data)
         /\ Len(CopyOut(m, at, n)) = n
         /\ \A k \in 1 .. n : CopyOut(m, at, n)[k] = m[at + k - 1]
  <1>1. CopyOut(m, at, n) \in [1 .. n -> Data]
    BY RingQueAssumption DEF CopyOut, Index
  <1>2. CopyOut(m, at, n) \in Seq(Data)
    BY <1>1, SeqDef
  <1>3. QED
    BY <1>1, <1>2, LenProperties DEF CopyOut

(* Aligning keeps the array an array over Data. *)
LEMMA AlignedType ==
  ASSUME IInv, front_ptr_ < N, back_ptr_ < N
  PROVE  /\ Aligned.m \in [Index -> Data]
         /\ Aligned.f = 0
         /\ Aligned.b = elemsInQue
         /\ \A k \in 1 .. elemsInQue : Aligned.m[k - 1] = mem[Wrapped(front_ptr_ + k - 1)]
  <1> USE RingQueAssumption DEF IInv, TypeOK, PointersOK
  <1>1. CASE elemsInQue = 0
    BY <1>1 DEF Aligned, elemsInQue
  <1>2. CASE elemsInQue # 0 /\ front_ptr_ = 0
    BY <1>2 DEF Aligned, elemsInQue, Wrapped
  <1>3. CASE elemsInQue # 0 /\ front_ptr_ # 0 /\ front_ptr_ < back_ptr_
    BY <1>3 DEF Aligned, elemsInQue, Wrapped, Index
  <1>4. CASE elemsInQue # 0 /\ front_ptr_ # 0 /\ front_ptr_ > back_ptr_
    <2> DEFINE r1 == Reverse(mem, 0, front_ptr_ - 1)
               r2 == Reverse(r1, front_ptr_, N - 1)
               r3 == Reverse(r2, 0, N - 1)
    <2>1. r1 \in [Index -> Data] /\ r2 \in [Index -> Data] /\ r3 \in [Index -> Data]
      BY <1>4 DEF Reverse, Index
    <2>2. \A i \in Index : r3[i] = r2[N - 1 - i]
      BY <1>4 DEF Reverse, Index
    <2>3. \A i \in Index : r3[i] = IF N - 1 - i < front_ptr_ THEN r1[N - 1 - i]
                                   ELSE r1[front_ptr_ + i]
      <3>1. \A i \in Index : r2[i] = IF i < front_ptr_ THEN r1[i] ELSE r1[front_ptr_ + N - 1 - i]
        BY <1>4 DEF Reverse, Index
      <3> QED BY <3>1, <2>2, <1>4 DEF Index
    <2>4. \A i \in Index : r1[i] = IF i < front_ptr_ THEN mem[front_ptr_ - 1 - i] ELSE mem[i]
      BY <1>4 DEF Reverse, Index
    <2>5. \A i \in Index : r3[i] = mem[Wrapped(front_ptr_ + i)]
      BY <2>3, <2>4, <1>4 DEF Index, Wrapped
    <2>6. Aligned = [m |-> r3, f |-> 0, b |-> elemsInQue]
      BY <1>4 DEF Aligned
    <2>7. \A k \in 1 .. elemsInQue : k - 1 \in Index
      BY <1>4 DEF Index, elemsInQue
    <2> QED
      BY <2>1, <2>5, <2>6, <2>7 DEF Index
  <1> QED
    BY <1>1, <1>2, <1>3, <1>4 DEF elemsInQue

(* The condition SafeOps, member function by member function. *)
LEMMA NoPopArray ==
  ASSUME IInv, user \cap {"front", "front_ptr", "back_ptr", "call_back_push"} # {}
  PROVE  front_ptr_ < N /\ back_ptr_ < N
  BY RingQueAssumption, UsersAssumption DEF IInv, TypeOK, PointersOK, SafeOps

LEMMA NoPush ==
  ASSUME IInv, "push" \in user
  PROVE  back_ptr_ < N
  BY RingQueAssumption, UsersAssumption DEF IInv, TypeOK, PointersOK, SafeOps

-----------------------------------------------------------------------------
(* Each member function preserves the type and pointer invariant. *)

LEMMA PushArrayInv ==
  ASSUME IInv, UNCHANGED user, NEW buf \in Seq(Data), PushArray(buf)
  PROVE  IInv'
  <1> DEFINE len   == Smaller(Len(buf), emptyElemsInQue)
             toEnd == N - back_ptr_
  <1> USE RingQueAssumption
  <1>1. /\ Len(buf) \in Nat /\ len \in 0 .. Len(buf) /\ len <= emptyElemsInQue
        /\ toEnd \in 0 .. N /\ elemsInQue \in 0 .. N - 1 /\ emptyElemsInQue \in 0 .. N - 1
        /\ got' \in Seq(Data)
    BY LenProperties, ElemsBound, EmptySeq DEF Smaller, IInv, TypeOK, PushArray
  <1>2. CASE UNCHANGED <<mem, back_ptr_>>
    BY <1>1, <1>2 DEF PushArray, IInv, TypeOK, PointersOK
  <1>3. CASE /\ emptyElemsInQue # 0 /\ front_ptr_ <= back_ptr_ /\ len >= toEnd
             /\ mem' = CopyIn(CopyIn(mem, back_ptr_, SubSeq(buf, 1, toEnd)),
                              0, SubSeq(buf, toEnd + 1, len))
             /\ back_ptr_' = len - toEnd
    <2>1. mem' \in [Index -> Data]
      <3>1. toEnd \in 0 .. Len(buf) /\ len \in 0 .. Len(buf) /\ toEnd + 1 \in Nat \ {0}
        BY <1>1, <1>3
      <3>2. SubSeq(buf, 1, toEnd) \in Seq(Data) /\ SubSeq(buf, toEnd + 1, len) \in Seq(Data)
        BY <3>1, PieceOfBuf
      <3>3. mem \in [Index -> Data] /\ back_ptr_ \in Int
        BY DEF IInv, TypeOK
      <3>4. CopyIn(mem, back_ptr_, SubSeq(buf, 1, toEnd)) \in [Index -> Data]
        BY <3>2, <3>3, CopyInType
      <3>5. CopyIn(CopyIn(mem, back_ptr_, SubSeq(buf, 1, toEnd)),
                   0, SubSeq(buf, toEnd + 1, len)) \in [Index -> Data]
        BY <3>2, <3>4, CopyInType, 0 \in Int
      <3> QED
        BY <1>3, <3>5
    <2>2. back_ptr_' \in 0 .. N - 1
      BY <1>1, <1>3 DEF IInv, TypeOK
    <2> QED
      BY <1>1, <2>1, <2>2 DEF PushArray, IInv, TypeOK, PointersOK
  <1>4. CASE /\ emptyElemsInQue # 0 /\ (front_ptr_ > back_ptr_ \/ len < toEnd)
             /\ mem' = CopyIn(mem, back_ptr_, SubSeq(buf, 1, len))
             /\ back_ptr_' = back_ptr_ + len
    <2>1. mem' \in [Index -> Data]
      <3>1. SubSeq(buf, 1, len) \in Seq(Data)
        BY <1>1, PieceOfBuf
      <3>2. mem \in [Index -> Data] /\ back_ptr_ \in Int
        BY DEF IInv, TypeOK
      <3> QED
        BY <1>4, <3>1, <3>2, CopyInType
    <2>2. back_ptr_' \in 0 .. N - 1
      BY <1>1, <1>4 DEF IInv, TypeOK, PointersOK, elemsInQue, emptyElemsInQue
    <2> QED
      BY <1>1, <2>1, <2>2 DEF PushArray, IInv, TypeOK, PointersOK
  <1>5. /\ ReachesEnd(len) => front_ptr_ <= back_ptr_ /\ len >= toEnd
        /\ ~ReachesEnd(len) => front_ptr_ > back_ptr_ \/ len < toEnd
    BY <1>1 DEF ReachesEnd, IInv, TypeOK
  <1> QED
    BY <1>2, <1>3, <1>4, <1>5 DEF PushArray

LEMMA PopArrayInv ==
  ASSUME IInv, UNCHANGED user, NEW n \in Nat, PopArray(n)
  PROVE  IInv'
  <1> DEFINE len   == Smaller(n, elemsInQue)
             toEnd == N - front_ptr_
  <1> USE RingQueAssumption
  <1>1. /\ len \in Nat /\ len <= n /\ len <= elemsInQue
        /\ toEnd \in 0 .. N /\ elemsInQue \in 0 .. N - 1
    BY ElemsBound DEF Smaller, IInv, TypeOK
  <1>2. CASE elemsInQue = 0 /\ got' = <<>> /\ UNCHANGED front_ptr_
    BY <1>1, <1>2, EmptySeq DEF PopArray, IInv, TypeOK, PointersOK
  <1>3. CASE /\ elemsInQue # 0 /\ front_ptr_ > back_ptr_ /\ len > toEnd
             /\ got' = CopyOut(mem, front_ptr_, toEnd) \o CopyOut(mem, 0, len - toEnd)
             /\ front_ptr_' = len - toEnd
    <2>1. /\ toEnd \in Nat /\ len - toEnd \in Nat /\ len - toEnd <= N - 1
          /\ front_ptr_ \in Nat /\ front_ptr_ + toEnd <= N /\ 0 + (len - toEnd) <= N
          /\ mem \in [Index -> Data]
      BY <1>1, <1>3 DEF IInv, TypeOK
    <2>2. CopyOut(mem, front_ptr_, toEnd) \in Seq(Data)
      BY <2>1, CopyOutType
    <2>3. CopyOut(mem, 0, len - toEnd) \in Seq(Data)
      BY <2>1, CopyOutType
    <2>4. got' \in Seq(Data)
      BY <1>3, <2>2, <2>3, ConcatProperties
    <2>5. front_ptr_' \in 0 .. N - 1 /\ back_ptr_ # N
      BY <1>1, <1>3, <2>1 DEF IInv, TypeOK
    <2> QED
      BY <1>1, <2>4, <2>5 DEF PopArray, IInv, TypeOK, PointersOK
  <1>4. CASE /\ elemsInQue # 0 /\ (front_ptr_ <= back_ptr_ \/ len <= toEnd)
             /\ got' = CopyOut(mem, front_ptr_, len)
             /\ front_ptr_' = front_ptr_ + len
    <2>1. front_ptr_ + len \in 0 .. N /\ back_ptr_ # N
      BY <1>1, <1>4 DEF IInv, TypeOK, PointersOK, elemsInQue
    <2>2. got' \in Seq(Data)
      BY <1>1, <1>4, <2>1, CopyOutType DEF IInv, TypeOK
    <2> QED
      BY <1>1, <1>4, <2>1, <2>2 DEF PopArray, IInv, TypeOK, PointersOK
  <1> QED
    BY <1>2, <1>3, <1>4 DEF PopArray

LEMMA PushInv ==
  ASSUME IInv, UNCHANGED user, NEW value \in Data, Push(value)
  PROVE  IInv'
  BY RingQueAssumption, NoPush, EmptySeq
     DEF Push, IInv, TypeOK, PointersOK, Advanced, Index

LEMMA PopInv ==
  ASSUME IInv, UNCHANGED user, Pop
  PROVE  IInv'
  BY RingQueAssumption, EmptySeq DEF Pop, IInv, TypeOK, PointersOK, Advanced, elemsInQue

LEMMA FrontInv ==
  ASSUME IInv, UNCHANGED user, Front
  PROVE  IInv'
  <1>1. mem[front_ptr_] \in Data
    BY RingQueAssumption, NoPopArray DEF Front, IInv, TypeOK, Index
  <1>2. <<mem[front_ptr_]>> \in Seq(Data)
    BY <1>1
  <1> QED
    BY <1>2 DEF Front, IInv, TypeOK, PointersOK

LEMMA ClearInv ==
  ASSUME IInv, UNCHANGED user, Clear
  PROVE  IInv'
  BY RingQueAssumption, EmptySeq DEF Clear, IInv, TypeOK, PointersOK

LEMMA FrontPtrInv ==
  ASSUME IInv, UNCHANGED user, FrontPtr
  PROVE  IInv'
  <1> DEFINE a == IF front_ptr_ > back_ptr_ THEN Aligned ELSE Unaligned
  <1> USE RingQueAssumption
  <1>1. front_ptr_ < N /\ back_ptr_ < N
    BY NoPopArray DEF FrontPtr
  <1>2. /\ a.m \in [Index -> Data] /\ a.f \in 0 .. N - 1 /\ a.b \in 0 .. N - 1
        /\ elemsInQue \in 0 .. N - 1 /\ a.f + elemsInQue <= N
    BY <1>1, AlignedType, ElemsBound DEF Unaligned, IInv, TypeOK, elemsInQue
  <1>3. CopyOut(a.m, a.f, elemsInQue) \in Seq(Data)
    BY <1>2, CopyOutType
  <1> QED
    BY <1>1, <1>2, <1>3 DEF FrontPtr, IInv, TypeOK, PointersOK

LEMMA ForBackPtrType ==
  ASSUME IInv, front_ptr_ < N, back_ptr_ < N
  PROVE  /\ ForBackPtr.m \in [Index -> Data]
         /\ ForBackPtr.f \in 0 .. N - 1 /\ ForBackPtr.b \in 0 .. N - 1
         /\ ForBackPtr.f = 0 \/ ForBackPtr.b < ForBackPtr.f
         /\ elemsInQue = IF ForBackPtr.b < ForBackPtr.f
                         THEN ForBackPtr.b - ForBackPtr.f + N ELSE ForBackPtr.b - ForBackPtr.f
         /\ \A k \in 1 .. elemsInQue :
              ForBackPtr.m[Wrapped(ForBackPtr.f + k - 1)] = mem[Wrapped(front_ptr_ + k - 1)]
  <1> USE RingQueAssumption
  <1>1. CASE front_ptr_ = 0 \/ front_ptr_ > back_ptr_
    BY <1>1 DEF ForBackPtr, Unaligned, elemsInQue, IInv, TypeOK
  <1>2. CASE ~(front_ptr_ = 0 \/ front_ptr_ > back_ptr_)
    <2>1. ForBackPtr = Aligned
      BY <1>2 DEF ForBackPtr
    <2>2. \A k \in 1 .. elemsInQue : Wrapped(0 + k - 1) = k - 1
      BY ElemsBound DEF Wrapped
    <2>3. elemsInQue \in 0 .. N - 1
      BY ElemsBound
    <2> HIDE DEF IInv
    <2> QED
      BY <2>1, <2>2, <2>3, AlignedType
  <1> QED
    BY <1>1, <1>2

LEMMA BackPtrInv ==
  ASSUME IInv, UNCHANGED user, BackPtr
  PROVE  IInv'
  <1>1. front_ptr_ < N /\ back_ptr_ < N
    BY NoPopArray DEF BackPtr
  <1> QED
    BY <1>1, ForBackPtrType, RingQueAssumption DEF BackPtr, IInv, TypeOK, PointersOK

LEMMA CallBackPushInv ==
  ASSUME IInv, UNCHANGED user, NEW data \in Seq(Data), NEW n \in Nat, CallBackPush(data, n)
  PROVE  IInv'
  <1> DEFINE len == Smaller(n, emptyElemsInQue)
  <1> USE RingQueAssumption
  <1>1. front_ptr_ < N /\ back_ptr_ < N
    BY NoPopArray DEF CallBackPush
  <1>2. len \in 0 .. emptyElemsInQue /\ Len(data) \in 0 .. len /\ emptyElemsInQue \in 0 .. N - 1
    BY ElemsBound, LenProperties DEF Smaller, CallBackPush
  <1>3. CASE len = 0
    BY <1>2, <1>3, EmptySeq DEF CallBackPush, IInv, TypeOK, PointersOK
  <1>4. CASE len # 0
    <2>1. CopyIn(ForBackPtr.m, ForBackPtr.b, data) \in [Index -> Data]
      <3>1. ForBackPtr.m \in [Index -> Data] /\ ForBackPtr.b \in Int
        BY <1>1, ForBackPtrType
      <3> QED
        BY ONLY <3>1, CopyInType, data \in Seq(Data)
    <2>2. ForBackPtr.b + Len(data) \in 0 .. N - 1
      <3>1. /\ ForBackPtr.f \in 0 .. N - 1 /\ ForBackPtr.b \in 0 .. N - 1
            /\ ForBackPtr.f = 0 \/ ForBackPtr.b < ForBackPtr.f
            /\ elemsInQue = IF ForBackPtr.b < ForBackPtr.f
                            THEN ForBackPtr.b - ForBackPtr.f + N ELSE ForBackPtr.b - ForBackPtr.f
        BY <1>1, ForBackPtrType
      <3>2. Len(data) \in Nat /\ Len(data) <= N - 1 - elemsInQue /\ elemsInQue \in 0 .. N - 1
        BY <1>2, ElemsBound DEF emptyElemsInQue
      <3>3. ASSUME NEW f \in 0 .. N - 1, NEW b \in 0 .. N - 1, NEW e \in Int, NEW l \in Nat,
                   f = 0 \/ b < f, e = IF b < f THEN b - f + N ELSE b - f, l <= N - 1 - e
            PROVE  b + l \in 0 .. N - 1
        <4>1. f \in Int /\ b \in Int /\ N \in Int
          BY RingQueAssumption
        <4> QED
          BY <4>1, <3>3
      <3>4. elemsInQue \in Int
        BY <3>2
      <3> QED
        BY ONLY <3>1, <3>2, <3>3, <3>4
    <2>3. /\ mem' \in [Index -> Data] /\ front_ptr_' \in 0 .. N - 1 /\ back_ptr_' \in 0 .. N - 1
          /\ ret' \in Nat /\ got' = <<>>
      BY <1>1, <1>2, <1>4, <2>1, <2>2, ForBackPtrType DEF CallBackPush
    <2> QED
      BY <2>3, EmptySeq DEF IInv, TypeOK, PointersOK
  <1> QED
    BY <1>3, <1>4

(* The pointers stay in the array, or one past it where the code recovers,   *)
(* for every legal combination of calls: TypeOK and PointersOK always hold.  *)
THEOREM TypeCorrect == Spec => []IInv
  <1>1. Init => IInv
    BY RingQueAssumption, EmptySeq DEF Init, IInv, TypeOK, PointersOK, Index
  <1>2. IInv /\ [Next]_vars => IInv'
    <2> SUFFICES ASSUME IInv, [Next]_vars
                 PROVE  IInv'
      OBVIOUS
    <2> USE RingQueAssumption
    <2>1. ASSUME UNCHANGED user, NEW value \in Data, Push(value) PROVE IInv'
      BY <2>1, PushInv
    <2>2. CASE UNCHANGED user /\ Pop
      BY <2>2, PopInv
    <2>3. CASE UNCHANGED user /\ Front
      BY <2>3, FrontInv
    <2>4. CASE UNCHANGED user /\ Clear
      BY <2>4, ClearInv
    <2>5. ASSUME UNCHANGED user, NEW buf \in Bufs, PushArray(buf) PROVE IInv'
      BY <2>5, PushArrayInv
    <2>6. ASSUME UNCHANGED user, NEW n \in Sizes, PopArray(n) PROVE IInv'
      BY <2>6, PopArrayInv
    <2>7. CASE UNCHANGED user /\ FrontPtr
      BY <2>7, FrontPtrInv
    <2>8. CASE UNCHANGED user /\ BackPtr
      BY <2>8, BackPtrInv
    <2>9. ASSUME UNCHANGED user, NEW data \in Bufs, NEW n \in Sizes, CallBackPush(data, n) PROVE IInv'
      BY <2>9, CallBackPushInv
    <2>10. CASE UNCHANGED vars
      BY <2>10 DEF vars, IInv, TypeOK, PointersOK
    <2> QED
      BY <2>1, <2>2, <2>3, <2>4, <2>5, <2>6, <2>7, <2>8, <2>9, <2>10 DEF Next
  <1> QED
    BY <1>1, <1>2, PTL DEF Spec

-----------------------------------------------------------------------------
(* Recognising a concatenation and a piece of a sequence by their elements. *)

LEMMA IsConcat ==
  ASSUME NEW s \in Seq(Data), NEW t \in Seq(Data), NEW u \in Seq(Data),
         Len(u) = Len(s) + Len(t),
         \A k \in 1 .. Len(s) : u[k] = s[k],
         \A k \in 1 .. Len(t) : u[Len(s) + k] = t[k]
  PROVE  u = s \o t
  <1>1. Len(s) \in Nat /\ Len(t) \in Nat
    BY LenProperties
  <1>2. /\ s \o t \in Seq(Data) /\ Len(s \o t) = Len(s) + Len(t)
        /\ \A i \in 1 .. Len(s) + Len(t) :
             (s \o t)[i] = IF i <= Len(s) THEN s[i] ELSE t[i - Len(s)]
    BY ConcatProperties
  <1>3. ASSUME NEW i \in 1 .. Len(u) PROVE u[i] = (s \o t)[i]
    <2>1. CASE i <= Len(s)
      <3>1. i \in 1 .. Len(s) /\ i \in 1 .. Len(s) + Len(t)
        BY <1>1, <2>1
      <3> QED
        BY <3>1, <2>1, <1>2
    <2>2. CASE ~(i <= Len(s))
      <3>1. i - Len(s) \in 1 .. Len(t) /\ i \in 1 .. Len(s) + Len(t)
        BY <1>1, <2>2
      <3>2. Len(s) + (i - Len(s)) = i
        BY <1>1
      <3> DEFINE j == i - Len(s)
      <3>3. u[i] = t[j]
        BY <3>1, <3>2
      <3> QED
        BY <3>1, <3>3, <2>2, <1>2
    <2> QED
      BY <2>1, <2>2
  <1> QED
    BY <1>2, <1>3, SeqEqual

LEMMA IsPiece ==
  ASSUME NEW s \in Seq(Data), NEW u \in Seq(Data),
         NEW a \in Nat \ {0}, NEW b \in 0 .. Len(s),
         a <= b + 1, Len(u) = b - a + 1,
         \A k \in 1 .. b - a + 1 : u[k] = s[a + k - 1]
  PROVE  u = SubSeq(s, a, b)
  <1>1. b \in Nat
    BY LenProperties
  <1>2. /\ SubSeq(s, a, b) \in Seq(Data)
        /\ Len(SubSeq(s, a, b)) = b - a + 1
        /\ \A k \in 1 .. b - a + 1 : SubSeq(s, a, b)[k] = s[a + k - 1]
    BY <1>1, PieceOfBuf
  <1> QED
    BY <1>2, SeqEqual

-----------------------------------------------------------------------------
(* The contents as a function of the array, the front pointer and the count, *)
(* and what pushing and popping do to it.                                    *)

View(m, f, n) == [k \in 1 .. n |-> m[Wrapped(f + k - 1)]]

(* The n elements from f on in m are the n elements from f2 on in m2. *)
Kept(m, f, m2, f2, n) ==
  \A k \in 1 .. n : m2[Wrapped(f2 + k - 1)] = m[Wrapped(f + k - 1)]

(* The n cells from f2 on are the n cells from f1 on. *)
SameCells(f2, f1, n) == \A k \in 1 .. n : Wrapped(f2 + k - 1) = Wrapped(f1 + k - 1)

(* The first c elements of buf are in m, from offset at on. *)
Stored(m, at, buf, c) == \A k \in 1 .. c : m[Wrapped(at + k - 1)] = buf[k]

LEMMA ViewType ==
  ASSUME NEW m \in [Index -> Data], NEW f \in 0 .. N, NEW n \in 0 .. N - 1
  PROVE  /\ View(m, f, n) \in Seq(Data)
         /\ Len(View(m, f, n)) = n
         /\ \A k \in 1 .. n : View(m, f, n)[k] = m[Wrapped(f + k - 1)]
  <1>1. n \in Nat /\ \A k \in 1 .. n : Wrapped(f + k - 1) \in Index
    BY RingQueAssumption DEF Wrapped, Index
  <1>2. View(m, f, n) \in [1 .. n -> Data]
    BY <1>1 DEF View
  <1>3. View(m, f, n) \in Seq(Data)
    BY <1>1, <1>2, SeqDef
  <1> QED
    BY <1>1, <1>2, <1>3, LenProperties DEF View

LEMMA ViewTake ==
  ASSUME NEW m \in [Index -> Data], NEW f \in 0 .. N, NEW n \in 0 .. N - 1,
         NEW c \in 0 .. n
  PROVE  View(m, f, c) = SubSeq(View(m, f, n), 1, c)
  <1> DEFINE s == View(m, f, n)
             u == View(m, f, c)
  <1>0. N \in Nat /\ n \in Nat /\ c \in 0 .. N - 1
    BY RingQueAssumption
  <1>1. s \in Seq(Data) /\ Len(s) = n /\ \A k \in 1 .. n : s[k] = m[Wrapped(f + k - 1)]
    BY ViewType
  <1>2. u \in Seq(Data) /\ Len(u) = c /\ \A k \in 1 .. c : u[k] = m[Wrapped(f + k - 1)]
    BY <1>0, ViewType
  <1> HIDE DEF s, u
  <1>3. ASSUME NEW k \in 1 .. c - 1 + 1 PROVE u[k] = s[1 + k - 1]
    <2>1. k \in 1 .. c /\ k \in 1 .. n /\ 1 + k - 1 = k
      BY <1>0
    <2> QED
      BY <2>1, <1>1, <1>2
  <1>4. u = SubSeq(s, 1, c)
    BY <1>0, <1>1, <1>2, <1>3, IsPiece
  <1> QED
    BY <1>4 DEF s, u

LEMMA ViewPop ==
  ASSUME NEW m \in [Index -> Data], NEW f \in 0 .. N, NEW f2 \in 0 .. N,
         NEW n \in 0 .. N - 1, NEW c \in 0 .. n, NEW l \in 0 .. N - 1, l = n - c,
         SameCells(f2, f + c, l)
  PROVE  View(m, f2, l) = SubSeq(View(m, f, n), c + 1, Len(View(m, f, n)))
  <1> DEFINE s == View(m, f, n)
             u == View(m, f2, l)
  <1>0. N \in Nat /\ n \in Nat /\ c \in Nat /\ l = n - c
    BY RingQueAssumption
  <1>1. s \in Seq(Data) /\ Len(s) = n /\ \A k \in 1 .. n : s[k] = m[Wrapped(f + k - 1)]
    BY ViewType
  <1>2. /\ u \in Seq(Data) /\ Len(u) = l
        /\ \A k \in 1 .. l : u[k] = m[Wrapped(f2 + k - 1)]
    BY <1>0, ViewType
  <1>6. \A k \in 1 .. l : Wrapped(f2 + k - 1) = Wrapped(f + c + k - 1)
    BY DEF SameCells
  <1> HIDE DEF s, u
  <1>3. ASSUME NEW k \in 1 .. n - (c + 1) + 1 PROVE u[k] = s[c + 1 + k - 1]
    <2>1. /\ k \in 1 .. l /\ c + k \in 1 .. n /\ c + 1 + k - 1 = c + k
          /\ f + (c + k) - 1 = f + c + k - 1
      BY <1>0
    <2>2. u[k] = m[Wrapped(f + c + k - 1)]
      BY <2>1, <1>2, <1>6
    <2>3. s[c + k] = m[Wrapped(f + (c + k) - 1)]
      BY <2>1, <1>1
    <2> QED
      BY <2>1, <2>2, <2>3
  <1>4. n \in 0 .. Len(s) /\ c + 1 \in Nat \ {0} /\ Len(u) = n - (c + 1) + 1
    BY <1>0, <1>1, <1>2
  <1>5. u = SubSeq(s, c + 1, n)
    BY <1>0, <1>1, <1>2, <1>3, <1>4, IsPiece
  <1> QED
    BY <1>1, <1>5 DEF s, u

-----------------------------------------------------------------------------
(* Each member function does to Contents what BoundedFifo says. *)

LEMMA ContentsView ==
  ASSUME IInv
  PROVE  /\ Contents = View(mem, front_ptr_, elemsInQue)
         /\ Contents \in Seq(Data) /\ Len(Contents) = elemsInQue
  <1>1. Contents = View(mem, front_ptr_, elemsInQue)
    BY DEF Contents, View
  <1>2. mem \in [Index -> Data] /\ front_ptr_ \in 0 .. N
    BY DEF IInv, TypeOK
  <1> QED
    BY <1>1, <1>2, ElemsBound, ViewType

LEMMA ElemsBoundNext ==
  ASSUME IInv'
  PROVE  elemsInQue' \in 0 .. N - 1
  <1>1. front_ptr_' \in 0 .. N /\ back_ptr_' \in 0 .. N /\ (back_ptr_' = N => front_ptr_' = N)
    BY DEF IInv, TypeOK, PointersOK
  <1>2. ASSUME NEW f \in 0 .. N, NEW b \in 0 .. N, b = N => f = N
        PROVE  (IF b - f < 0 THEN b - f + N ELSE b - f) \in 0 .. N - 1
    <2>1. f \in Int /\ b \in Int /\ N \in Int /\ N > 0
      BY RingQueAssumption
    <2> QED
      BY <1>2, <2>1
  <1> QED
    BY <1>1, <1>2 DEF elemsInQue

(* Storing c elements behind those kept appends them to the contents. *)
LEMMA ContentsPush ==
  ASSUME IInv, IInv', NEW buf \in Seq(Data), NEW c \in 0 .. Len(buf),
         elemsInQue' = elemsInQue + c,
         Kept(mem, front_ptr_, mem', front_ptr_', elemsInQue),
         Stored(mem', front_ptr_' + elemsInQue, buf, c)
  PROVE  Contents' = Contents \o SubSeq(buf, 1, c)
  <1> DEFINE t == SubSeq(buf, 1, c)
             n == elemsInQue
             l == elemsInQue'
  <1>0. /\ n \in 0 .. N - 1 /\ c \in Nat /\ l = n + c /\ N \in Nat
        /\ front_ptr_' \in 0 .. N /\ mem' \in [Index -> Data]
    BY ElemsBound, LenProperties, RingQueAssumption DEF IInv, TypeOK
  <1>1. l \in 0 .. N - 1
    BY ElemsBoundNext
  <1>2. /\ Contents \in Seq(Data) /\ Len(Contents) = n
        /\ \A k \in 1 .. n : Contents[k] = mem[Wrapped(front_ptr_ + k - 1)]
    BY ContentsView DEF Contents
  <1>3. Contents' = View(mem', front_ptr_', l)
    BY DEF Contents, View
  <1>4. /\ Contents' \in Seq(Data) /\ Len(Contents') = l
        /\ \A k \in 1 .. l : Contents'[k] = mem'[Wrapped(front_ptr_' + k - 1)]
    BY <1>0, <1>1, <1>3, ViewType
  <1>5. t \in Seq(Data) /\ Len(t) = c /\ \A k \in 1 .. c : t[k] = buf[k]
    BY PieceOfBuf
  <1> HIDE DEF t, n, l
  <1>6. ASSUME NEW k \in 1 .. n PROVE Contents'[k] = Contents[k]
    <2>1. k \in 1 .. l
      BY <1>0
    <2> QED
      BY <2>1, <1>2, <1>4 DEF Kept, n
  <1>7. ASSUME NEW k \in 1 .. c PROVE Contents'[n + k] = t[k]
    <2>1. n + k \in 1 .. l /\ front_ptr_' + (n + k) - 1 = front_ptr_' + n + k - 1
      BY <1>0
    <2>2. mem'[Wrapped(front_ptr_' + n + k - 1)] = buf[k]
      BY DEF Stored, n
    <2> QED
      BY <2>1, <2>2, <1>4, <1>5
  <1>8. /\ Len(Contents') = Len(Contents) + Len(t)
        /\ \A k \in 1 .. Len(Contents) : Contents'[k] = Contents[k]
        /\ \A k \in 1 .. Len(t) : Contents'[Len(Contents) + k] = t[k]
    BY <1>0, <1>2, <1>4, <1>5, <1>6, <1>7
  <1>9. Contents' = Contents \o t
    BY <1>2, <1>4, <1>5, <1>8, IsConcat
  <1> QED
    BY <1>9 DEF t

LEMMA PushArrayFifo ==
  ASSUME IInv, IInv', NEW buf \in Seq(Data), PushArray(buf)
  PROVE  Fifo!PushArray(buf)
  <1> DEFINE len   == Smaller(Len(buf), emptyElemsInQue)
             toEnd == N - back_ptr_
  <1> USE RingQueAssumption
  <1>1. /\ Len(buf) \in Nat /\ len \in 0 .. Len(buf) /\ len <= emptyElemsInQue
        /\ toEnd \in 0 .. N /\ elemsInQue \in 0 .. N - 1 /\ emptyElemsInQue = N - 1 - elemsInQue
        /\ mem \in [Index -> Data] /\ mem' \in [Index -> Data]
        /\ front_ptr_ \in 0 .. N /\ back_ptr_ \in 0 .. N /\ front_ptr_' = front_ptr_
        /\ (back_ptr_ = N => front_ptr_ = N)
    BY LenProperties, ElemsBound
       DEF Smaller, IInv, TypeOK, PointersOK, PushArray, emptyElemsInQue
  <1>0. toEnd = N - back_ptr_
    OBVIOUS
  <1> HIDE DEF len, toEnd
  <1>2. /\ elemsInQue' = elemsInQue + len
        /\ Kept(mem, front_ptr_, mem', front_ptr_, elemsInQue)
        /\ Stored(mem', front_ptr_ + elemsInQue, buf, len)
    <2>1. CASE emptyElemsInQue = 0 /\ UNCHANGED <<mem, back_ptr_>>
      <3>1. len = 0 /\ elemsInQue' = elemsInQue /\ mem' = mem
        BY <1>1, <2>1 DEF elemsInQue
      <3> QED
        BY <3>1, <1>1 DEF Kept, Stored
    <2>2. CASE /\ emptyElemsInQue # 0 /\ front_ptr_ <= back_ptr_ /\ len >= toEnd
               /\ mem' = CopyIn(CopyIn(mem, back_ptr_, SubSeq(buf, 1, toEnd)),
                                0, SubSeq(buf, toEnd + 1, len))
               /\ back_ptr_' = len - toEnd
      <3> DEFINE a == SubSeq(buf, 1, toEnd)
                 b == SubSeq(buf, toEnd + 1, len)
      <3>1. Len(a) = toEnd /\ \A i \in 1 .. toEnd : a[i] = buf[i]
        BY <1>1, <2>2, PieceOfBuf
      <3>2. toEnd + 1 \in Nat \ {0} /\ len \in 0 .. Len(buf)
        BY <1>1
      <3>3. /\ Len(b) = IF toEnd + 1 <= len THEN len - (toEnd + 1) + 1 ELSE 0
            /\ \A i \in 1 .. len - (toEnd + 1) + 1 : b[i] = buf[toEnd + 1 + i - 1]
        BY <3>2, PieceOfBuf
      <3>4. Len(b) = len - toEnd /\ \A i \in 1 .. len - toEnd : b[i] = buf[toEnd + i]
        BY <1>1, <2>2, <3>3
      <3> HIDE DEF a, b
      <3>5. /\ \A i \in Index : i >= back_ptr_ /\ i >= len - toEnd => mem'[i] = buf[i - back_ptr_ + 1]
            /\ \A i \in Index : i < len - toEnd => mem'[i] = buf[toEnd + i + 1]
            /\ \A i \in Index : i < back_ptr_ /\ i >= len - toEnd => mem'[i] = mem[i]
        BY <1>0, <1>1, <2>2, <3>1, <3>4 DEF CopyIn, Index, a, b
      <3>6. elemsInQue = back_ptr_ - front_ptr_ /\ len <= N - 1 - elemsInQue
        BY <1>1, <2>2 DEF elemsInQue
      <3>7. elemsInQue' = elemsInQue + len
        BY <1>1, <2>2, <3>6 DEF elemsInQue, toEnd
      <3>8. ASSUME NEW k \in 1 .. elemsInQue
            PROVE  mem'[Wrapped(front_ptr_ + k - 1)] = mem[Wrapped(front_ptr_ + k - 1)]
        <4>1. /\ Wrapped(front_ptr_ + k - 1) = front_ptr_ + k - 1
              /\ front_ptr_ + k - 1 \in Index
              /\ front_ptr_ + k - 1 < back_ptr_ /\ front_ptr_ + k - 1 >= len - toEnd
          BY <1>1, <2>2, <3>6 DEF Wrapped, Index
        <4> QED
          BY <4>1, <3>5
      <3>9. ASSUME NEW k \in 1 .. len
            PROVE  mem'[Wrapped(front_ptr_ + elemsInQue + k - 1)] = buf[k]
        <4>1. front_ptr_ + elemsInQue + k - 1 = back_ptr_ + k - 1
          BY <1>1, <3>6
        <4>2. CASE k <= toEnd
          <5>1. /\ Wrapped(back_ptr_ + k - 1) = back_ptr_ + k - 1
                /\ back_ptr_ + k - 1 \in Index /\ back_ptr_ + k - 1 >= len - toEnd
                /\ (back_ptr_ + k - 1) - back_ptr_ + 1 = k
            BY <1>0, <1>1, <4>2, <2>2, <3>6 DEF Wrapped, Index
          <5> DEFINE i == back_ptr_ + k - 1
          <5>2. mem'[i] = buf[i - back_ptr_ + 1]
            BY <5>1, <3>5, <1>1
          <5> QED
            BY <4>1, <5>1, <5>2
        <4>3. CASE k > toEnd
          <5> DEFINE i == k - toEnd - 1
          <5>1. /\ Wrapped(back_ptr_ + k - 1) = i
                /\ i \in Index /\ i < len - toEnd /\ toEnd + i + 1 = k
            BY <1>0, <1>1, <4>3, <2>2, <3>6 DEF Wrapped, Index
          <5>2. mem'[i] = buf[toEnd + i + 1]
            BY <5>1, <3>5
          <5> QED
            BY <4>1, <5>1, <5>2
        <4> QED
          BY <4>2, <4>3, <1>1
      <3> QED
        BY <3>7, <3>8, <3>9 DEF Kept, Stored
    <2>3. CASE /\ emptyElemsInQue # 0 /\ (front_ptr_ > back_ptr_ \/ len < toEnd)
               /\ mem' = CopyIn(mem, back_ptr_, SubSeq(buf, 1, len))
               /\ back_ptr_' = back_ptr_ + len
      <3> DEFINE a == SubSeq(buf, 1, len)
      <3>1. Len(a) = len /\ \A i \in 1 .. len : a[i] = buf[i]
        BY <1>1, PieceOfBuf
      <3> HIDE DEF a
      <3>2. /\ \A i \in Index : i < back_ptr_ \/ i >= back_ptr_ + len => mem'[i] = mem[i]
            /\ \A i \in Index : i >= back_ptr_ /\ i < back_ptr_ + len
                                  => mem'[i] = buf[i - back_ptr_ + 1]
        BY <1>1, <2>3, <3>1 DEF CopyIn, Index, a
      <3>3. len <= N - 1 - elemsInQue /\ elemsInQue' = elemsInQue + len
        BY <1>1, <2>3 DEF elemsInQue
      <3>4. ASSUME NEW k \in 1 .. elemsInQue
            PROVE  mem'[Wrapped(front_ptr_ + k - 1)] = mem[Wrapped(front_ptr_ + k - 1)]
        <4> DEFINE i == Wrapped(front_ptr_ + k - 1)
        <4>1. i \in Index /\ (i < back_ptr_ \/ i >= back_ptr_ + len)
          BY <1>0, <1>1, <2>3, <3>3 DEF Wrapped, Index, elemsInQue
        <4> QED
          BY <4>1, <3>2
      <3>5. ASSUME NEW k \in 1 .. len
            PROVE  mem'[Wrapped(front_ptr_ + elemsInQue + k - 1)] = buf[k]
        <4> DEFINE i == back_ptr_ + k - 1
        <4>1. /\ Wrapped(front_ptr_ + elemsInQue + k - 1) = i
              /\ i \in Index /\ i >= back_ptr_ /\ i < back_ptr_ + len /\ i - back_ptr_ + 1 = k
          BY <1>0, <1>1, <2>3, <3>3 DEF Wrapped, Index, elemsInQue
        <4>2. mem'[i] = buf[i - back_ptr_ + 1]
          BY <4>1, <3>2
        <4> QED
          BY <4>1, <4>2
      <3> QED
        BY <3>3, <3>4, <3>5 DEF Kept, Stored
    <2>4. /\ ReachesEnd(len) => front_ptr_ <= back_ptr_ /\ len >= toEnd
          /\ ~ReachesEnd(len) => front_ptr_ > back_ptr_ \/ len < toEnd
      BY <1>0, <1>1 DEF ReachesEnd
    <2> QED
      BY <2>1, <2>2, <2>3, <2>4 DEF PushArray, len, toEnd
  <1>4. /\ Kept(mem, front_ptr_, mem', front_ptr_', elemsInQue)
        /\ Stored(mem', front_ptr_' + elemsInQue, buf, len)
    BY <1>1, <1>2
  <1>5. Contents' = Contents \o SubSeq(buf, 1, len)
    BY <1>1, <1>2, <1>4, ContentsPush
  <1>6. len = Fifo!Smaller(Len(buf), N - 1 - Len(Contents))
    BY <1>1, ContentsView DEF Smaller, Fifo!Smaller, len
  <1> QED
    BY <1>5, <1>6 DEF Fifo!PushArray, Fifo!Take, PushArray, len

LEMMA PopArrayFifo ==
  ASSUME IInv, IInv', NEW n \in Nat, PopArray(n)
  PROVE  Fifo!PopArray(n)
  <1> DEFINE len   == Smaller(n, elemsInQue)
             toEnd == N - front_ptr_
  <1> USE RingQueAssumption
  <1>1. /\ len \in 0 .. elemsInQue /\ toEnd \in 0 .. N /\ elemsInQue \in 0 .. N - 1
        /\ mem \in [Index -> Data] /\ mem' = mem
        /\ front_ptr_ \in 0 .. N /\ back_ptr_ \in 0 .. N /\ back_ptr_' = back_ptr_
        /\ front_ptr_' \in 0 .. N
        /\ (back_ptr_ = N => front_ptr_ = N)
        /\ toEnd = N - front_ptr_
    BY ElemsBound DEF Smaller, IInv, TypeOK, PointersOK, PopArray
  <1> HIDE DEF len, toEnd
  <1>2. /\ elemsInQue' = elemsInQue - len
        /\ \A k \in 1 .. elemsInQue - len :
             Wrapped(front_ptr_' + k - 1) = Wrapped(front_ptr_ + len + k - 1)
        /\ got' = View(mem, front_ptr_, len)
    <2>1. CASE elemsInQue = 0 /\ got' = <<>> /\ UNCHANGED front_ptr_
      <3>1. len = 0 /\ elemsInQue' = elemsInQue
        BY <1>1, <2>1 DEF elemsInQue
      <3>2. View(mem, front_ptr_, len) = <<>>
        BY <3>1 DEF View
      <3> QED
        BY <1>1, <2>1, <3>1, <3>2
    <2>2. CASE /\ elemsInQue # 0 /\ front_ptr_ > back_ptr_ /\ len > toEnd
               /\ got' = CopyOut(mem, front_ptr_, toEnd) \o CopyOut(mem, 0, len - toEnd)
               /\ front_ptr_' = len - toEnd
      <3>1. elemsInQue' = elemsInQue - len
        BY <1>1, <2>2 DEF elemsInQue
      <3>2. ASSUME NEW k \in 1 .. elemsInQue - len
            PROVE  Wrapped(front_ptr_' + k - 1) = Wrapped(front_ptr_ + len + k - 1)
        BY <1>1, <2>2 DEF elemsInQue, Wrapped
      <3> DEFINE a == CopyOut(mem, front_ptr_, toEnd)
                 b == CopyOut(mem, 0, len - toEnd)
                 u == View(mem, front_ptr_, len)
      <3>3. /\ toEnd \in Nat /\ len - toEnd \in Nat /\ len \in 0 .. N - 1
            /\ front_ptr_ \in Nat /\ front_ptr_ + toEnd <= N /\ 0 + (len - toEnd) <= N
        BY <1>1, <2>2
      <3>4. a \in Seq(Data) /\ Len(a) = toEnd /\ \A k \in 1 .. toEnd : a[k] = mem[front_ptr_ + k - 1]
        BY ONLY <1>1, <3>3, CopyOutType
      <3>5. b \in Seq(Data) /\ Len(b) = len - toEnd /\ \A k \in 1 .. len - toEnd : b[k] = mem[0 + k - 1]
        <4>1. mem \in [Index -> Data] /\ 0 \in Nat /\ len - toEnd \in Nat /\ 0 + (len - toEnd) <= N
          BY <1>1, <3>3
        <4> QED
          BY ONLY <4>1, CopyOutType
      <3>6. u \in Seq(Data) /\ Len(u) = len /\ \A k \in 1 .. len : u[k] = mem[Wrapped(front_ptr_ + k - 1)]
        BY ONLY <1>1, <3>3, ViewType
      <3> HIDE DEF a, b, u
      <3>7. ASSUME NEW k \in 1 .. Len(a) PROVE u[k] = a[k]
        <4>1. k \in 1 .. toEnd /\ k \in 1 .. len /\ Wrapped(front_ptr_ + k - 1) = front_ptr_ + k - 1
          BY <1>1, <2>2, <3>4 DEF Wrapped
        <4> QED
          BY <4>1, <3>4, <3>6
      <3>8. ASSUME NEW k \in 1 .. Len(b) PROVE u[Len(a) + k] = b[k]
        <4>1. /\ k \in 1 .. len - toEnd /\ Len(a) + k \in 1 .. len
              /\ Wrapped(front_ptr_ + (Len(a) + k) - 1) = 0 + k - 1
          BY <1>1, <2>2, <3>4, <3>5 DEF Wrapped
        <4> QED
          BY <4>1, <3>5, <3>6
      <3>9. Len(u) = Len(a) + Len(b)
        BY <3>3, <3>4, <3>5, <3>6
      <3>10. u = a \o b
        BY <3>4, <3>5, <3>6, <3>7, <3>8, <3>9, IsConcat
      <3> QED
        BY <3>1, <3>2, <3>10, <2>2 DEF a, b, u
    <2>3. CASE /\ elemsInQue # 0 /\ (front_ptr_ <= back_ptr_ \/ len <= toEnd)
               /\ got' = CopyOut(mem, front_ptr_, len)
               /\ front_ptr_' = front_ptr_ + len
      <3>1. elemsInQue' = elemsInQue - len
        BY <1>1, <2>3 DEF elemsInQue
      <3>2. ASSUME NEW k \in 1 .. elemsInQue - len
            PROVE  Wrapped(front_ptr_' + k - 1) = Wrapped(front_ptr_ + len + k - 1)
        BY <1>1, <2>3
      <3>3. \A k \in 1 .. len : Wrapped(front_ptr_ + k - 1) = front_ptr_ + k - 1
        BY <1>1, <2>3 DEF Wrapped, elemsInQue
      <3>4. CopyOut(mem, front_ptr_, len) = View(mem, front_ptr_, len)
        BY <3>3 DEF CopyOut, View
      <3> QED
        BY <3>1, <3>2, <3>4, <2>3
    <2> QED
      BY <2>1, <2>2, <2>3 DEF PopArray, len, toEnd
  <1>7. /\ mem \in [Index -> Data] /\ front_ptr_ \in 0 .. N /\ front_ptr_' \in 0 .. N
        /\ elemsInQue \in 0 .. N - 1 /\ len \in 0 .. elemsInQue
        /\ elemsInQue' \in 0 .. N - 1 /\ elemsInQue' = elemsInQue - len
        /\ SameCells(front_ptr_', front_ptr_ + len, elemsInQue')
    <2>1. elemsInQue - len \in 0 .. N - 1
      BY <1>1
    <2> QED
      BY <1>1, <1>2, <2>1 DEF SameCells
  <1>3. View(mem, front_ptr_', elemsInQue')
          = SubSeq(View(mem, front_ptr_, elemsInQue), len + 1, Len(View(mem, front_ptr_, elemsInQue)))
    BY ONLY <1>7, ViewPop
  <1>4. Contents' = SubSeq(Contents, len + 1, Len(Contents))
    BY <1>1, <1>2, <1>3, ContentsView DEF Contents, View
  <1>5. got' = SubSeq(Contents, 1, len)
    BY <1>1, <1>2, ContentsView, ViewTake
  <1>6. len = Fifo!Smaller(n, Len(Contents)) /\ ret' = len
    BY ContentsView DEF Smaller, Fifo!Smaller, len, PopArray
  <1> QED
    BY <1>4, <1>5, <1>6 DEF Fifo!PopArray, Fifo!Take, Fifo!Drop

LEMMA PushFifo ==
  ASSUME IInv, IInv', NEW value \in Data, Push(value)
  PROVE  Fifo!PushArray(<<value>>)
  <1> DEFINE buf == <<value>>
             len == IF emptyElemsInQue = 0 THEN 0 ELSE 1
  <1> USE RingQueAssumption
  <1>1. buf \in Seq(Data) /\ Len(buf) = 1 /\ buf[1] = value
    OBVIOUS
  <1>2. /\ elemsInQue \in 0 .. N - 1 /\ emptyElemsInQue = N - 1 - elemsInQue
        /\ mem \in [Index -> Data] /\ mem' \in [Index -> Data]
        /\ front_ptr_ \in 0 .. N /\ front_ptr_' = front_ptr_ /\ back_ptr_ \in 0 .. N - 1
        /\ "push" \in user
    BY ElemsBound, NoPush DEF Push, IInv, TypeOK, emptyElemsInQue
  <1>3. /\ elemsInQue' = elemsInQue + len /\ len \in 0 .. 1 /\ len <= emptyElemsInQue /\ ret' = len
        /\ Kept(mem, front_ptr_, mem', front_ptr_, elemsInQue)
        /\ Stored(mem', front_ptr_ + elemsInQue, buf, len)
    <2>1. CASE emptyElemsInQue = 0
      <3>1. mem' = mem /\ back_ptr_' = back_ptr_ /\ len = 0 /\ ret' = 0
        BY <2>1 DEF Push
      <3> QED
        BY <3>1, <2>1, <1>2 DEF elemsInQue, Kept, Stored
    <2>2. CASE emptyElemsInQue # 0
      <3>1. /\ mem' = [mem EXCEPT ![back_ptr_] = value] /\ back_ptr_' = Advanced(back_ptr_)
            /\ len = 1 /\ ret' = 1
        BY <2>2 DEF Push
      <3>2. elemsInQue' = elemsInQue + 1 /\ elemsInQue < N - 1
        BY <1>2, <2>2, <3>1 DEF elemsInQue, Advanced
      <3>3. ASSUME NEW k \in 1 .. elemsInQue
            PROVE  mem'[Wrapped(front_ptr_ + k - 1)] = mem[Wrapped(front_ptr_ + k - 1)]
        <4> DEFINE i == Wrapped(front_ptr_ + k - 1)
        <4>1. i \in Index /\ i # back_ptr_
          BY <1>2, <3>2 DEF Wrapped, Index, elemsInQue
        <4> QED
          BY <4>1, <3>1, <1>2
      <3>4. Wrapped(front_ptr_ + elemsInQue + 1 - 1) = back_ptr_ /\ mem'[back_ptr_] = value
        BY <1>2, <3>1 DEF Wrapped, Index, elemsInQue
      <3> HIDE DEF buf
      <3> QED
        BY <3>1, <3>2, <3>3, <3>4, <2>2, <1>1, <1>2 DEF Kept, Stored
    <2> QED
      BY <2>1, <2>2
  <1> HIDE DEF buf, len
  <1>4. len \in 0 .. Len(buf)
    BY <1>1, <1>3
  <1>5. /\ Kept(mem, front_ptr_, mem', front_ptr_', elemsInQue)
        /\ Stored(mem', front_ptr_' + elemsInQue, buf, len)
    BY <1>2, <1>3
  <1>6. Contents' = Contents \o SubSeq(buf, 1, len)
    BY <1>1, <1>3, <1>4, <1>5, ContentsPush
  <1>7. len = Fifo!Smaller(Len(buf), N - 1 - Len(Contents))
    BY <1>1, <1>2, ContentsView DEF Fifo!Smaller, len
  <1> QED
    BY <1>3, <1>6, <1>7 DEF Fifo!PushArray, Fifo!Take, Push, buf

LEMMA PopFifo ==
  ASSUME IInv, IInv', Pop
  PROVE  Fifo!Pop
  <1> DEFINE len == IF elemsInQue = 0 THEN 0 ELSE 1
  <1> USE RingQueAssumption
  <1>1. /\ elemsInQue \in 0 .. N - 1 /\ len \in 0 .. elemsInQue /\ mem \in [Index -> Data]
        /\ front_ptr_ \in 0 .. N /\ front_ptr_' \in 0 .. N /\ back_ptr_ \in 0 .. N
        /\ (back_ptr_ = N => front_ptr_ = N)
    BY ElemsBound DEF IInv, TypeOK, PointersOK
  <1>2. /\ elemsInQue' = elemsInQue - len
        /\ mem' = mem /\ ret' = len /\ got' = <<>>
        /\ \A k \in 1 .. elemsInQue - len :
             Wrapped(front_ptr_' + k - 1) = Wrapped(front_ptr_ + len + k - 1)
    <2>1. CASE elemsInQue = 0
      <3>1. front_ptr_' = front_ptr_ /\ back_ptr_' = back_ptr_ /\ mem' = mem /\ ret' = 0 /\ got' = <<>>
        BY <2>1 DEF Pop
      <3>2. elemsInQue' = elemsInQue
        BY <3>1 DEF elemsInQue
      <3> QED
        BY <2>1, <3>1, <3>2
    <2>2. CASE elemsInQue # 0
      <3>1. /\ front_ptr_' = Advanced(front_ptr_) /\ back_ptr_' = back_ptr_
            /\ mem' = mem /\ ret' = 1 /\ got' = <<>>
        BY <2>2 DEF Pop
      <3>2. elemsInQue' = elemsInQue - 1
        BY <1>1, <2>2, <3>1 DEF elemsInQue, Advanced
      <3>3. ASSUME NEW k \in 1 .. elemsInQue - 1
            PROVE  Wrapped(front_ptr_' + k - 1) = Wrapped(front_ptr_ + 1 + k - 1)
        BY <1>1, <2>2, <3>1 DEF elemsInQue, Advanced, Wrapped
      <3> QED
        BY <2>2, <3>1, <3>2, <3>3
    <2> QED
      BY <2>1, <2>2
  <1> HIDE DEF len
  <1>7. /\ mem \in [Index -> Data] /\ front_ptr_ \in 0 .. N /\ front_ptr_' \in 0 .. N
        /\ elemsInQue \in 0 .. N - 1 /\ len \in 0 .. elemsInQue
        /\ elemsInQue' \in 0 .. N - 1 /\ elemsInQue' = elemsInQue - len
        /\ SameCells(front_ptr_', front_ptr_ + len, elemsInQue')
    <2>1. elemsInQue - len \in 0 .. N - 1
      BY <1>1
    <2> QED
      BY <1>1, <1>2, <2>1 DEF SameCells
  <1>3. View(mem, front_ptr_', elemsInQue')
          = SubSeq(View(mem, front_ptr_, elemsInQue), len + 1, Len(View(mem, front_ptr_, elemsInQue)))
    BY ONLY <1>7, ViewPop
  <1>4. Contents' = SubSeq(Contents, len + 1, Len(Contents))
    BY <1>1, <1>2, <1>3, ContentsView DEF Contents, View
  <1>5. len = Fifo!Smaller(1, Len(Contents))
    BY <1>1, ContentsView DEF Fifo!Smaller, len
  <1> QED
    BY <1>2, <1>4, <1>5 DEF Fifo!Pop, Fifo!Drop

LEMMA FrontFifo ==
  ASSUME IInv, Front
  PROVE  Fifo!Peek(1)
  <1>1. /\ elemsInQue \in 1 .. N - 1 /\ front_ptr_ \in 0 .. N - 1
        /\ mem \in [Index -> Data]
    BY RingQueAssumption, ElemsBound, NoPopArray DEF Front, IInv, TypeOK
  <1>2. Wrapped(front_ptr_ + 1 - 1) = front_ptr_
    BY <1>1, RingQueAssumption DEF Wrapped
  <1>3. <<mem[front_ptr_]>> = View(mem, front_ptr_, 1)
    BY <1>2 DEF View
  <1>4. View(mem, front_ptr_, 1) = SubSeq(View(mem, front_ptr_, elemsInQue), 1, 1)
    <2>1. front_ptr_ \in 0 .. N /\ elemsInQue \in 0 .. N - 1 /\ 1 \in 0 .. elemsInQue
      BY <1>1, RingQueAssumption
    <2> QED
      BY <1>1, <2>1, ViewTake
  <1>5. Contents' = Contents
    BY DEF Front, Contents, elemsInQue, Wrapped
  <1>6. Contents = View(mem, front_ptr_, elemsInQue) /\ Len(Contents) = elemsInQue
    BY ContentsView
  <1> QED
    BY <1>1, <1>3, <1>4, <1>5, <1>6 DEF Front, Fifo!Peek, Fifo!Take

LEMMA ClearFifo ==
  ASSUME IInv, Clear
  PROVE  Fifo!Clear
  <1>1. elemsInQue' = 0
    BY DEF Clear, elemsInQue, IInv, TypeOK
  <1>2. Contents' = <<>>
    BY <1>1 DEF Contents
  <1> QED
    BY <1>2 DEF Clear, Fifo!Clear

(* Moving the elements to the start of the array shows them all, in order,   *)
(* and leaves the contents as they were.                                     *)
LEMMA FrontPtrFifo ==
  ASSUME IInv, FrontPtr
  PROVE  Fifo!Peek(elemsInQue)
  <1> DEFINE a == IF front_ptr_ > back_ptr_ THEN Aligned ELSE Unaligned
  <1> USE RingQueAssumption
  <1>1. /\ front_ptr_ \in 0 .. N - 1 /\ back_ptr_ \in 0 .. N - 1
        /\ elemsInQue \in 0 .. N - 1 /\ mem \in [Index -> Data]
    BY NoPopArray, ElemsBound DEF FrontPtr, IInv, TypeOK
  <1>2. /\ \A k \in 1 .. elemsInQue : a.m[a.f + k - 1] = mem[Wrapped(front_ptr_ + k - 1)]
        /\ a.f \in 0 .. N - 1 /\ a.f + elemsInQue <= N /\ a.b = a.f + elemsInQue
    <2>1. CASE front_ptr_ > back_ptr_
      <3>1. a = Aligned
        BY <2>1
      <3>2. \A k \in 1 .. elemsInQue : 0 + k - 1 = k - 1
        BY <1>1
      <3>3. /\ Aligned.f = 0 /\ Aligned.b = elemsInQue
            /\ \A k \in 1 .. elemsInQue : Aligned.m[k - 1] = mem[Wrapped(front_ptr_ + k - 1)]
        BY <1>1, AlignedType
      <3> HIDE DEF a
      <3> QED
        BY ONLY <1>1, <3>1, <3>2, <3>3, RingQueAssumption
    <2>2. CASE ~(front_ptr_ > back_ptr_)
      <3>1. a.m = mem /\ a.f = front_ptr_ /\ a.b = back_ptr_
        BY <2>2 DEF Unaligned
      <3>2. \A k \in 1 .. elemsInQue : Wrapped(front_ptr_ + k - 1) = front_ptr_ + k - 1
        BY <1>1, <2>2 DEF Wrapped, elemsInQue
      <3>3. back_ptr_ = front_ptr_ + elemsInQue /\ front_ptr_ + elemsInQue <= N
        BY <1>1, <2>2 DEF elemsInQue
      <3>4. \A k \in 1 .. elemsInQue : a.m[a.f + k - 1] = mem[front_ptr_ + k - 1]
        BY <3>1
      <3> HIDE DEF a
      <3> QED
        BY <1>1, <3>1, <3>2, <3>3, <3>4
    <2> QED
      BY <2>1, <2>2
  <1>3. /\ mem' = a.m /\ front_ptr_' = a.f /\ back_ptr_' = a.b
        /\ got' = CopyOut(a.m, a.f, elemsInQue) /\ ret' = ret
    BY DEF FrontPtr
  <1> HIDE DEF a
  <1>4. elemsInQue' = elemsInQue
    BY <1>1, <1>2, <1>3 DEF elemsInQue
  <1>5. \A k \in 1 .. elemsInQue : Wrapped(a.f + k - 1) = a.f + k - 1
    BY <1>1, <1>2 DEF Wrapped
  <1>6. Contents' = Contents
    BY <1>2, <1>3, <1>4, <1>5 DEF Contents
  <1>7. CopyOut(a.m, a.f, elemsInQue) = Contents
    BY <1>2 DEF CopyOut, Contents
  <1>8. Len(Contents) = elemsInQue /\ Contents \in Seq(Data)
    BY ContentsView
  <1>9. SubSeq(Contents, 1, elemsInQue) = Contents
    <2>1. /\ 1 \in Nat \ {0} /\ elemsInQue \in 0 .. Len(Contents) /\ 1 <= elemsInQue + 1
          /\ Len(Contents) = elemsInQue - 1 + 1
      BY <1>1, <1>8
    <2>2. \A k \in 1 .. elemsInQue - 1 + 1 : Contents[k] = Contents[1 + k - 1]
      BY <1>1
    <2> QED
      BY <1>8, <2>1, <2>2, IsPiece
  <1> QED
    BY <1>1, <1>3, <1>6, <1>7, <1>8, <1>9 DEF Fifo!Peek, Fifo!Take

LEMMA BackPtrFifo ==
  ASSUME IInv, BackPtr
  PROVE  UNCHANGED Fifo!vars
  <1>1. front_ptr_ < N /\ back_ptr_ < N
    BY NoPopArray DEF BackPtr
  <1>2. mem' = ForBackPtr.m /\ front_ptr_' = ForBackPtr.f /\ back_ptr_' = ForBackPtr.b
    BY DEF BackPtr
  <1>3. elemsInQue' = elemsInQue
    BY <1>1, <1>2, ForBackPtrType, RingQueAssumption DEF elemsInQue
  <1>4. Contents' = Contents
    BY <1>1, <1>2, <1>3, ForBackPtrType DEF Contents
  <1> QED
    BY <1>4 DEF BackPtr, Fifo!vars

LEMMA CallBackPushFifo ==
  ASSUME IInv, IInv', NEW data \in Seq(Data), NEW n \in Nat, CallBackPush(data, n)
  PROVE  Fifo!PushArray(data)
  <1> DEFINE len == Smaller(n, emptyElemsInQue)
             m   == ForBackPtr.m
             f   == ForBackPtr.f
             b   == ForBackPtr.b
  <1> USE RingQueAssumption
  <1>1. /\ front_ptr_ \in 0 .. N - 1 /\ back_ptr_ \in 0 .. N - 1 /\ elemsInQue \in 0 .. N - 1
        /\ mem \in [Index -> Data] /\ emptyElemsInQue = N - 1 - elemsInQue
    BY NoPopArray, ElemsBound DEF CallBackPush, IInv, TypeOK, emptyElemsInQue
  <1>2. Len(data) \in Nat /\ Len(data) <= emptyElemsInQue /\ ret' = Len(data) /\ got' = <<>>
    BY <1>1, LenProperties DEF CallBackPush, Smaller
  <1>3. /\ m \in [Index -> Data] /\ f \in 0 .. N - 1 /\ b \in 0 .. N - 1
        /\ elemsInQue = IF b < f THEN b - f + N ELSE b - f
        /\ f = 0 \/ b < f
        /\ \A k \in 1 .. elemsInQue : m[Wrapped(f + k - 1)] = mem[Wrapped(front_ptr_ + k - 1)]
    BY <1>1, ForBackPtrType
  <1>4. data = SubSeq(data, 1, Len(data))
    <2>1. /\ 1 \in Nat \ {0} /\ Len(data) \in 0 .. Len(data) /\ 1 <= Len(data) + 1
          /\ Len(data) = Len(data) - 1 + 1
      BY <1>2
    <2>2. \A k \in 1 .. Len(data) - 1 + 1 : data[k] = data[1 + k - 1]
      BY <1>2
    <2> QED
      BY <2>1, <2>2, IsPiece
  <1>5. Contents' = Contents \o SubSeq(data, 1, Len(data))
    <2>1. CASE len = 0
      <3>1. UNCHANGED <<mem, front_ptr_, back_ptr_>> /\ Len(data) = 0
        BY <1>2, <2>1 DEF CallBackPush
      <3>2. Contents' = Contents /\ Contents \in Seq(Data) /\ data = <<>>
        BY <3>1, ContentsView, EmptySeq DEF Contents, elemsInQue
      <3> QED
        BY <1>4, <3>2, ConcatEmptySeq
    <2>2. CASE len # 0
      <3>1. mem' = CopyIn(m, b, data) /\ front_ptr_' = f /\ back_ptr_' = b + Len(data)
        BY <2>2 DEF CallBackPush
      <3> HIDE DEF m, f, b
      <3>2. elemsInQue' = elemsInQue + Len(data)
        BY <1>1, <1>2, <1>3, <3>1 DEF elemsInQue
      <3>3. Kept(mem, front_ptr_, mem', f, elemsInQue)
        <4> SUFFICES ASSUME NEW k \in 1 .. elemsInQue
                     PROVE  mem'[Wrapped(f + k - 1)] = mem[Wrapped(front_ptr_ + k - 1)]
          BY DEF Kept
        <4> DEFINE i == Wrapped(f + k - 1)
        <4>1. i \in Index /\ ~(b <= i /\ i < b + Len(data))
          BY <1>1, <1>2, <1>3 DEF Wrapped, Index
        <4>2. mem'[i] = m[i]
          BY <3>1, <4>1 DEF CopyIn
        <4> QED
          BY <4>2, <1>3
      <3>4. Stored(mem', f + elemsInQue, data, Len(data))
        <4> SUFFICES ASSUME NEW k \in 1 .. Len(data)
                     PROVE  mem'[Wrapped(f + elemsInQue + k - 1)] = data[k]
          BY DEF Stored
        <4> DEFINE i == b + k - 1
        <4>1. /\ Wrapped(f + elemsInQue + k - 1) = i /\ i \in Index
              /\ b <= i /\ i < b + Len(data) /\ i - b + 1 = k
          BY <1>1, <1>2, <1>3 DEF Wrapped, Index
        <4>2. mem'[i] = data[i - b + 1]
          BY <3>1, <4>1 DEF CopyIn
        <4> QED
          BY <4>1, <4>2
      <3>7. Len(data) \in 0 .. Len(data)
        BY <1>2
      <3> QED
        BY <3>1, <3>2, <3>3, <3>4, <3>7, ContentsPush
    <2> QED
      BY <2>1, <2>2
  <1>6. Len(data) = Fifo!Smaller(Len(data), N - 1 - Len(Contents))
    BY <1>1, <1>2, ContentsView DEF Fifo!Smaller
  <1> QED
    BY <1>2, <1>5, <1>6 DEF Fifo!PushArray, Fifo!Take

-----------------------------------------------------------------------------
(* Whatever mix of calls SafeOps allows, a client of ringque.h sees a        *)
(* bounded first-in first-out queue: nothing is lost, reordered, duplicated  *)
(* or invented, at the wrap of the array or anywhere else.                   *)
THEOREM Refinement == Spec => ImplementsFifo
  <1> USE RingQueAssumption
  <1>1. Init => Fifo!Init
    <2> SUFFICES ASSUME Init PROVE Fifo!Init
      OBVIOUS
    <2>1. elemsInQue = 0
      BY DEF Init, elemsInQue
    <2>2. Contents = <<>>
      BY <2>1 DEF Contents
    <2> QED
      BY <2>2 DEF Init, Fifo!Init
  <1>2. IInv /\ IInv' /\ [Next]_vars => [Fifo!Next]_(Fifo!vars)
    <2> SUFFICES ASSUME IInv, IInv', [Next]_vars
                 PROVE  Fifo!Next \/ UNCHANGED Fifo!vars
      BY DEF Fifo!vars
    <2>1. ASSUME NEW value \in Data, Push(value) PROVE Fifo!Next
      BY <2>1, PushFifo DEF Fifo!Next
    <2>2. CASE Pop
      BY <2>2, PopFifo DEF Fifo!Next
    <2>3. CASE Front
      <3>1. 1 \in 0 .. N - 1
        BY <2>3, ElemsBound DEF Front
      <3> QED
        BY <2>3, <3>1, FrontFifo DEF Fifo!Next
    <2>4. CASE Clear
      BY <2>4, ClearFifo DEF Fifo!Next
    <2>5. ASSUME NEW buf \in Bufs, PushArray(buf) PROVE Fifo!Next
      BY <2>5, PushArrayFifo DEF Fifo!Next
    <2>6. ASSUME NEW n \in Sizes, PopArray(n) PROVE Fifo!Next
      BY <2>6, PopArrayFifo DEF Fifo!Next
    <2>7. CASE FrontPtr
      BY <2>7, FrontPtrFifo, ElemsBound DEF Fifo!Next
    <2>8. CASE BackPtr
      BY <2>8, BackPtrFifo
    <2>9. ASSUME NEW data \in Bufs, NEW n \in Sizes, CallBackPush(data, n) PROVE Fifo!Next
      BY <2>9, CallBackPushFifo DEF Fifo!Next
    <2>10. CASE UNCHANGED vars
      BY <2>10 DEF vars, Fifo!vars, Contents, elemsInQue, Wrapped
    <2> QED
      BY <2>1, <2>2, <2>3, <2>4, <2>5, <2>6, <2>7, <2>8, <2>9, <2>10 DEF Next
  <1> QED
    BY <1>1, <1>2, TypeCorrect, PTL DEF Spec, ImplementsFifo, Fifo!Spec
=============================================================================
