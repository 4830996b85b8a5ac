------------------------------ MODULE RingQue ------------------------------
(***************************************************************************)
(* utility/ringque.h: ringque_base, the circular queue behind the receive  *)
(* queue of the UDP device, the transmit queue of the console and the      *)
(* mailboxes of the CAN router.                                            *)
(*                                                                         *)
(* Pointers are offsets from static_array_, so N (one past the end) is a   *)
(* value a pointer can take.  One action per public member function that   *)
(* changes the queue or reads through a pointer of it.                     *)
(***************************************************************************)
EXTENDS Integers, Sequences

CONSTANTS Data,    \* the elements (bytes for every user of the array calls)
          Zero,    \* the element the constructor fills the array with
          N,       \* MEM_LEN_, the length of the static array
          Bufs,    \* the arrays a client may push
          Sizes,   \* the lengths a client may ask pop_array for
          Users    \* the users of a queue: the member functions each calls

AllOps == {"push", "pop", "front", "push_array", "pop_array",
           "call_back_push", "front_ptr", "back_ptr", "clear"}

(* pop_array may leave front_ptr_ one past the end (see there).  The member  *)
(* functions that dereference or compare a pointer in that state would leave *)
(* the array; no user of the queue in the repository mixes them.             *)
SafeOps(ops) ==
  "pop_array" \in ops =>
    /\ ops \cap {"front", "front_ptr", "back_ptr", "call_back_push"} = {}
    /\ ~({"clear", "push"} \subseteq ops)

ASSUME RingQueAssumption ==
  /\ N \in Nat \ {0}
  /\ Zero \in Data
  /\ Bufs \subseteq Seq(Data)
  /\ Sizes \subseteq Nat

ASSUME UsersAssumption == \A ops \in Users : ops \subseteq AllOps /\ SafeOps(ops)

VARIABLES user,       \* the user of this queue
          mem,        \* static_array_
          front_ptr_,
          back_ptr_,
          ret,        \* the number the last call returned
          got         \* the elements the last call copied to its caller

vars == <<user, mem, front_ptr_, back_ptr_, ret, got>>

Index == 0 .. N - 1

Smaller(m, n) == IF m <= n THEN m ELSE n

-----------------------------------------------------------------------------
(* Memory: memcpy into the array, memcpy out of it, reverse, memmove.        *)

CopyIn(m, at, s) ==
  [i \in Index |-> IF at <= i /\ i < at + Len(s) THEN s[i - at + 1] ELSE m[i]]

CopyOut(m, at, n) == [k \in 1 .. n |-> m[at + k - 1]]

Reverse(m, first, last) ==
  [i \in Index |-> IF first <= i /\ i <= last THEN m[first + last - i] ELSE m[i]]

-----------------------------------------------------------------------------
(* The queries. *)

elemsInQue ==
  IF back_ptr_ - front_ptr_ < 0 THEN back_ptr_ - front_ptr_ + N
                                ELSE back_ptr_ - front_ptr_

(* Mutant of emptyElemsInQue: the cell between back and front is not spared. *)
emptyElemsInQueNoGap == N - elemsInQue

emptyElemsInQue == N - 1 - elemsInQue

empty == back_ptr_ = front_ptr_

Init ==
  /\ user \in Users
  /\ mem = [i \in Index |-> Zero]
  /\ front_ptr_ = 0
  /\ back_ptr_ = 0
  /\ ret = 0
  /\ got = <<>>

-----------------------------------------------------------------------------
(* One element at a time. *)

(* Mutant of Advanced: off by one at the end of the array. *)
AdvancedLate(ptr) == IF ptr + 1 > N THEN ptr + 1 - N ELSE ptr + 1

Advanced(ptr) == IF ptr + 1 >= N THEN ptr + 1 - N ELSE ptr + 1

Push(value) ==
  /\ "push" \in user
  /\ got' = <<>>
  /\ UNCHANGED front_ptr_
  /\ \/ /\ emptyElemsInQue = 0
        /\ ret' = 0
        /\ UNCHANGED <<mem, back_ptr_>>
     \/ /\ emptyElemsInQue # 0
        /\ mem' = [mem EXCEPT ![back_ptr_] = value]
        /\ back_ptr_' = Advanced(back_ptr_)
        /\ ret' = 1

Pop ==
  /\ "pop" \in user
  /\ got' = <<>>
  /\ UNCHANGED <<mem, back_ptr_>>
  /\ \/ /\ elemsInQue = 0
        /\ ret' = 0
        /\ UNCHANGED front_ptr_
     \/ /\ elemsInQue # 0
        /\ front_ptr_' = Advanced(front_ptr_)
        /\ ret' = 1

(* Every caller of front() has asked for elements first. *)
Front ==
  /\ "front" \in user
  /\ elemsInQue # 0
  /\ got' = <<mem[front_ptr_]>>
  /\ UNCHANGED <<mem, front_ptr_, back_ptr_, ret>>

Clear ==
  /\ "clear" \in user
  /\ back_ptr_' = front_ptr_
  /\ got' = <<>>
  /\ UNCHANGED <<mem, front_ptr_, ret>>

-----------------------------------------------------------------------------
(* Whole arrays. *)

(* Mutant of ReachesEnd: off by one at the end of the array. *)
ReachesEndLate(len) == front_ptr_ <= back_ptr_ /\ len > N - back_ptr_

ReachesEnd(len) == front_ptr_ <= back_ptr_ /\ len >= N - back_ptr_

PushArray(buf) ==
  LET len   == Smaller(Len(buf), emptyElemsInQue)
      toEnd == N - back_ptr_
  IN  /\ "push_array" \in user
      /\ ret' = len
      /\ got' = <<>>
      /\ UNCHANGED front_ptr_
      /\ \/ /\ emptyElemsInQue = 0
            /\ UNCHANGED <<mem, back_ptr_>>
         \/ /\ emptyElemsInQue # 0
            /\ ReachesEnd(len)
            /\ mem' = CopyIn(CopyIn(mem, back_ptr_, SubSeq(buf, 1, toEnd)),
                             0, SubSeq(buf, toEnd + 1, len))
            /\ back_ptr_' = len - toEnd
         \/ /\ emptyElemsInQue # 0
            /\ ~ReachesEnd(len)
            /\ mem' = CopyIn(mem, back_ptr_, SubSeq(buf, 1, len))
            /\ back_ptr_' = back_ptr_ + len

(* When the last element taken is the last one of the array, the pointer is  *)
(* left at N: the code wraps it only if len exceeds what is left to the end. *)
PopArray(n) ==
  LET len   == Smaller(n, elemsInQue)
      toEnd == N - front_ptr_
  IN  /\ "pop_array" \in user
      /\ ret' = len
      /\ UNCHANGED <<mem, back_ptr_>>
      /\ \/ /\ elemsInQue = 0
            /\ got' = <<>>
            /\ UNCHANGED front_ptr_
         \/ /\ elemsInQue # 0
            /\ front_ptr_ > back_ptr_ /\ len > toEnd
            /\ got' = CopyOut(mem, front_ptr_, toEnd) \o CopyOut(mem, 0, len - toEnd)
            /\ front_ptr_' = len - toEnd
         \/ /\ elemsInQue # 0
            /\ front_ptr_ <= back_ptr_ \/ len <= toEnd
            /\ got' = CopyOut(mem, front_ptr_, len)
            /\ front_ptr_' = front_ptr_ + len

-----------------------------------------------------------------------------
(* Access through a pointer, after the contents were moved to the start.     *)

(* The array, the front and the back after align_que2array. *)
Aligned ==
  IF elemsInQue = 0 THEN [m |-> mem, f |-> 0, b |-> 0]
  ELSE IF front_ptr_ = 0 THEN [m |-> mem, f |-> 0, b |-> back_ptr_]
  ELSE [m |-> IF front_ptr_ > back_ptr_
              THEN Reverse(Reverse(Reverse(mem, 0, front_ptr_ - 1),
                                   front_ptr_, N - 1), 0, N - 1)
              ELSE [i \in Index |-> IF i < elemsInQue THEN mem[front_ptr_ + i] ELSE mem[i]],
        f |-> 0,
        b |-> elemsInQue]

Unaligned == [m |-> mem, f |-> front_ptr_, b |-> back_ptr_]

(* The caller of front_ptr() reads the elements from the pointer on. *)
FrontPtr ==
  LET a == IF front_ptr_ > back_ptr_ THEN Aligned ELSE Unaligned
  IN  /\ "front_ptr" \in user
      /\ mem' = a.m /\ front_ptr_' = a.f /\ back_ptr_' = a.b
      /\ got' = CopyOut(a.m, a.f, elemsInQue)
      /\ UNCHANGED ret

ForBackPtr ==
  IF front_ptr_ = 0 \/ front_ptr_ > back_ptr_ THEN Unaligned ELSE Aligned

BackPtr ==
  /\ "back_ptr" \in user
  /\ mem' = ForBackPtr.m /\ front_ptr_' = ForBackPtr.f /\ back_ptr_' = ForBackPtr.b
  /\ UNCHANGED <<ret, got>>

(* The callback writes the array data at back_ptr() and returns its length,  *)
(* at most the length it is given.                                           *)
CallBackPush(data, n) ==
  LET len == Smaller(n, emptyElemsInQue)
  IN  /\ "call_back_push" \in user
      /\ Len(data) <= len
      /\ got' = <<>>
      /\ ret' = Len(data)
      /\ \/ /\ len = 0
            /\ UNCHANGED <<mem, front_ptr_, back_ptr_>>
         \/ /\ len # 0
            /\ mem' = CopyIn(ForBackPtr.m, ForBackPtr.b, data)
            /\ front_ptr_' = ForBackPtr.f
            /\ back_ptr_' = ForBackPtr.b + Len(data)

-----------------------------------------------------------------------------
Next ==
  /\ UNCHANGED user
  /\ \/ \E value \in Data : Push(value)
     \/ Pop
     \/ Front
     \/ Clear
     \/ \E buf \in Bufs : PushArray(buf)
     \/ \E n \in Sizes : PopArray(n)
     \/ FrontPtr
     \/ BackPtr
     \/ \E data \in Bufs, n \in Sizes : CallBackPush(data, n)

Spec == Init /\ [][Next]_vars

-----------------------------------------------------------------------------
(* The elements in the queue, oldest first: the offset of the k-th is        *)
(* front + k - 1, brought back into the array once.                          *)
Wrapped(i) == IF i >= N THEN i - N ELSE i

Contents == [k \in 1 .. elemsInQue |-> mem[Wrapped(front_ptr_ + k - 1)]]

Fifo == INSTANCE BoundedFifo WITH q <- Contents, Cap <- N - 1

(* Type correctness: the pointers stay within the array or one past it. *)
TypeOK ==
  /\ user \in Users
  /\ mem \in [Index -> Data]
  /\ front_ptr_ \in 0 .. N
  /\ back_ptr_ \in 0 .. N
  /\ ret \in Nat
  /\ got \in Seq(Data)

(* The pointer arithmetic of ringque.h is consistent for its users: a        *)
(* pointer is one past the end only in the two ways the code can recover     *)
(* from (front after pop_array; back after clear, and then the queue is      *)
(* empty), so no write lands outside the array and no unread element is      *)
(* overwritten.                                                              *)
PointersOK ==
  /\ front_ptr_ = N => "pop_array" \in user
  /\ back_ptr_ = N => front_ptr_ = N /\ {"pop_array", "clear"} \subseteq user

IInv == TypeOK /\ PointersOK

(* ringque.h hands out what was put in, in order, without loss, duplication  *)
(* or invention, and says truly how many elements it took: it implements     *)
(* BoundedFifo.                                                              *)
ImplementsFifo == Fifo!Spec
=============================================================================
