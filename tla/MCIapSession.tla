---------------------------- MODULE MCIapSession ----------------------------
(* One block of two or of four bytes, in the small bytes of MCIapProtocol. The *)
(* data contain a command pair and an address that may be taken for others.    *)
EXTENDS IapSession, Bitwise

MCXor(x, y) == x ^^ y
MCHostAddr == <<3, 1>>
MCHostData == <<4, 3, 2, 5>>
MCDatagrams == {}
=============================================================================
