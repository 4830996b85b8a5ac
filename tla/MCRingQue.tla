------------------------------ MODULE MCRingQue ------------------------------
(* Small instances of RingQue: an array of N cells, every buffer of up to N   *)
(* elements over Data, every request length up to N.                          *)
EXTENDS RingQue

MCBufs == UNION {[1 .. n -> Data] : n \in 0 .. N}
MCSizes == 0 .. N

(* CUdpDevice::rx_queue_ *)
UdpOps == {"push_array", "pop_array", "clear"}
(* CConsole::txQueue_ *)
ConsoleOps == {"push_array", "pop_array", "push"}
(* The queues of the CAN router and of the SPI driver, and the calls that     *)
(* expose a pointer, which no pop_array is mixed with.                        *)
PointerOps == AllOps \ {"pop_array"}

MCUsers == {UdpOps, ConsoleOps, PointerOps}
==============================================================================
