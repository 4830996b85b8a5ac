----------------------------- MODULE FixedVector -----------------------------
(***************************************************************************)
(* utility/fixed_vector.h: at most N elements in an array.  A vector is    *)
(* its size and the elements in front of it; what lies behind them (erase  *)
(* moves one word too many) is never read.  A position is an iterator:     *)
(* end() is the size.                                                      *)
(***************************************************************************)
EXTENDS Integers

Positions(n) == 0 .. n - 1

Vectors(T, N) ==
  UNION {[size : {n}, elem : [Positions(n) -> T]] : n \in 0 .. N}

EmptyVector == [size |-> 0, elem |-> [j \in {} |-> 0]]

Holds(v, obj) == \E j \in Positions(v.size) : v.elem[j] = obj

Distinct(v) ==
  \A j, k \in Positions(v.size) : v.elem[j] = v.elem[k] => j = k

(* The first position of obj, or end(). *)
find(v, obj) ==
  IF Holds(v, obj)
  THEN CHOOSE j \in Positions(v.size) :
         v.elem[j] = obj /\ \A k \in Positions(j) : v.elem[k] # obj
  ELSE v.size

(* Only where v.size < N; push_back fails if it is not. *)
push_back(v, obj) ==
  [size |-> v.size + 1,
   elem |-> [j \in Positions(v.size + 1) |-> IF j = v.size THEN obj ELSE v.elem[j]]]

erase(v, p) ==
  IF p < 0 \/ p >= v.size THEN v
  ELSE [size |-> v.size - 1,
        elem |-> [j \in Positions(v.size - 1) |->
                    IF j < p THEN v.elem[j] ELSE v.elem[j + 1]]]
=============================================================================
