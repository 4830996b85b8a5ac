--------------------------- MODULE MCIapProtocol ---------------------------
(* A small instance of IapProtocol: bytes of three bits, addresses of two     *)
(* bytes, data in pairs of bytes.  The complement of a command is no command  *)
(* and the code of a long command no valid length of Write, as in the code.   *)
EXTENDS IapProtocol, Bitwise

MCXor(x, y) == x ^^ y

(* The pieces the network may deliver: command pairs, an address that is     *)
(* right and one that is not, a read length, a whole block, blocks that are  *)
(* cut short, and stray bytes, among them the first byte of a pair.          *)
MCDatagrams ==
  { <<2, 5>>, <<4, 3>>, <<0, 7>>, <<1, 6>>, <<6, 1>>,
    <<3, 1, 2>>, <<3, 1, 0>>, <<1, 1>>,
    <<1, 6, 2, 5>>, <<1, 6, 2>>, <<3, 5>>, <<2>>, <<7>> }
=============================================================================
