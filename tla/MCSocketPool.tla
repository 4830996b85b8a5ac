---------------------------- MODULE MCSocketPool ----------------------------
(* Small instances of SocketPool. *)
EXTENDS SocketPool, TLC

(* lwIP's pools, the ports and the peers are interchangeable: nothing is      *)
(* asked of one but whether it is another.  (Not used with liveness.)         *)
Symmetric ==
  Permutations(Pcbs) \cup Permutations(Pbufs) \cup Permutations(Ports) \cup Permutations(Peers)

(* The bootloader opens its sockets once and never closes one. *)
BootloaderCalls == {"socket", "bind", "sendto", "recvfrom"}
ReceiverCalls == {"socket", "bind", "recvfrom"}
=============================================================================
