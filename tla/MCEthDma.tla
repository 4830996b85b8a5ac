------------------------------ MODULE MCEthDma ------------------------------
(* Rings of two descriptors.  The numbers outlast the receive ring,            *)
(* so that a frame taken twice or left out is told from the next one.         *)
EXTENDS EthDma
=============================================================================
