------------------------------- MODULE MCFlash -------------------------------
(* A small flash: sectors of three words, one for the image, one for the      *)
(* power-up variables, and one OTP word behind them.                          *)
EXTENDS Flash

MCOtp == {6}

(* What an erase that is cut off leaves: the words cleared, or one of the     *)
(* values that the requests write.                                           *)
MCLeftovers == { [w \in 0 .. 6 |-> v] : v \in {{}, {1}} }

(* The pages of one image, in any order and repeated at will. *)
Pages == { [addr |-> 0, data |-> <<{1}, {2}>>, own |-> FALSE],
           [addr |-> 2, data |-> <<{1}>>, own |-> FALSE] }

(* The power-up variables, with one value or another, and an OTP word. *)
Others == { [addr |-> 3, data |-> <<{1}, {2}>>, own |-> TRUE],
            [addr |-> 3, data |-> <<{2}, {1, 2}>>, own |-> TRUE],
            [addr |-> 6, data |-> <<{1}>>, own |-> FALSE] }

PagesAndOthers == Pages \cup Others

(* bl_write_memory takes any address, here the last word of the first sector. *)
AnyPages == Pages \cup { [addr |-> 2, data |-> <<{1}, {2}>>, own |-> FALSE] }
=============================================================================
