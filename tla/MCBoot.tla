-------------------------------- MODULE MCBoot --------------------------------
(* Words of three bits.  The block has the boot parameter, the number and one *)
(* more variable, with a spare word; the sector of the image is one word.     *)
EXTENDS Boot

MCNumber == [v \in SUBSET {1, 2, 3} |->
               (IF 1 \in v THEN 1 ELSE 0) + (IF 2 \in v THEN 2 ELSE 0)
                                          + (IF 3 \in v THEN 4 ELSE 0)]
MCDefaults == [k \in 0 .. 2 |-> CASE k = 0 -> {2} [] k = 1 -> {1, 2} [] k = 2 -> {1}]

MCBL == {1}
MCAPP == {2}
MCLOADING == {3}
MCStackTops == {{1}}

(* Boards: of an older version with two variables, and told to start an       *)
(* application that is not there.  A new one is as erased, which any becomes. *)
FF == {1, 2, 3}
Blocks == { <<{1}, {2}, {1, 2}, FF, FF>>,
            <<{2}, {1, 2}, {1}, {}, FF>> }
MCInitialMems == { [w \in 0 .. 5 |-> Append(b, FF)[w + 1]] : b \in Blocks }

(* The host writes the image, and a block that asks for it.                   *)
MCRequests == { [addr |-> 5, data |-> <<{1}>>, own |-> FALSE],
                [addr |-> 0, data |-> <<{2}, {1, 2}, {2}, {1, 2}>>, own |-> FALSE] }

MCAppAsks == { <<0, {3}>>, <<2, {2}>> }

(* What an erase that is cut off leaves: a block that passes its check and    *)
(* starts an application, though nobody asked for it, or one that counts no   *)
(* variables.                                                                 *)
Remains == { <<{2}, {1, 2}, {1}, {}, FF, {1}>>,
             <<{2}, {}, FF, FF, FF, {2}>> }
MCLeftovers == { [w \in 0 .. 5 |-> b[w + 1]] : b \in Remains }

(* What the theorems about the variables ask of the geometry and of the      *)
(* application holds here; that the host leaves the block alone does not.    *)
ASSUME MCAssumption == BlockInOneSector /\ NumberIsKept
=============================================================================
