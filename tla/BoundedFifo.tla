---------------------------- MODULE BoundedFifo ----------------------------
(***************************************************************************)
(* What a client of utility/ringque.h is promised: a first-in first-out    *)
(* queue that never holds more than Cap elements, that refuses what does   *)
(* not fit and hands every accepted element out once, in order.            *)
(*                                                                         *)
(* RingQue implements it with two pointers into an array; see there.       *)
(***************************************************************************)
EXTENDS Integers, Sequences

CONSTANTS Data,   \* the elements a queue can hold
          Cap,    \* capacity(): the number of elements that fit
          Bufs,   \* the arrays a client may push
          Sizes   \* the lengths a client may ask pop_array for

VARIABLES q,      \* the elements in the queue, oldest first
          ret,    \* the number the last call returned
          got     \* the elements the last call handed to its caller

vars == <<q, ret, got>>

Smaller(m, n) == IF m <= n THEN m ELSE n

Take(s, n) == SubSeq(s, 1, n)
Drop(s, n) == SubSeq(s, n + 1, Len(s))

Init == q = <<>> /\ ret = 0 /\ got = <<>>

(* An array is accepted up to the free space; the count is returned. *)
PushArray(buf) ==
  LET n == Smaller(Len(buf), Cap - Len(q))
  IN  q' = q \o Take(buf, n) /\ ret' = n /\ got' = <<>>

(* Up to len elements leave the queue, oldest first. *)
PopArray(len) ==
  LET n == Smaller(len, Len(q))
  IN  q' = Drop(q, n) /\ ret' = n /\ got' = Take(q, n)

(* The oldest element leaves the queue, if there is one. *)
Pop ==
  LET n == Smaller(1, Len(q))
  IN  q' = Drop(q, n) /\ ret' = n /\ got' = <<>>

(* The oldest elements become visible to the caller and stay in the queue. *)
Peek(n) ==
  /\ n <= Len(q)
  /\ got' = Take(q, n)
  /\ UNCHANGED <<q, ret>>

Clear == q' = <<>> /\ got' = <<>> /\ UNCHANGED ret

Next ==
  \/ \E buf \in Bufs : PushArray(buf)
  \/ \E value \in Data : PushArray(<<value>>)
  \/ \E len \in Sizes : PopArray(len)
  \/ Pop
  \/ \E n \in 0 .. Cap : Peek(n)
  \/ Clear

Spec == Init /\ [][Next]_vars
=============================================================================
