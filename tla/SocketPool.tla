----------------------------- MODULE SocketPool -----------------------------
(***************************************************************************)
(* socket/LAN8720/socket.c: the socket calls of the network adapter, made  *)
(* by the main loop, over lwIP's raw UDP interface, whose receive callback *)
(* runs in the Ethernet interrupt (RTL8370MB.c, ETH_IRQHandler, feeds each *)
(* frame through udp_input to udp_demo_recv before it returns).            *)
(*                                                                         *)
(* The main loop makes one call at a time; an interrupt may come between   *)
(* any two of its accesses to what the two share, so recvfrom, sendto and  *)
(* close are split at those accesses.  The interrupt itself is one step.   *)
(*                                                                         *)
(* lwIP is external: its UDP control blocks (a pool of MEMP_NUM_UDP_PCB,   *)
(* and the list of those bound to a port) and its packet buffers (a pool   *)
(* of PBUF_POOL_SIZE) are modelled by what udp_new, udp_bind, udp_recv,    *)
(* udp_remove, udp_input, pbuf_alloc and pbuf_free do to them.             *)
(***************************************************************************)
EXTENDS Integers, FiniteSets

CONSTANTS NSock,    \* MEMP_NUM_UDP_PCB, the size of socketPool
          Pcbs,     \* lwIP's pool of UDP control blocks
          Pbufs,    \* lwIP's pool of packet buffers
          Ports,    \* local ports
          Peers,    \* remote addresses
          Null,     \* NULL, and the absence of a port or an address
          Calls     \* the calls the clients of this build make

Sock == 0 .. NSock - 1

AllCalls == {"socket", "bind", "sendto", "recvfrom", "close"}

Datagram == [from : Peers, to : Ports]

ASSUME SocketPoolAssumption ==
  /\ NSock \in Nat \ {0}
  /\ IsFiniteSet(Pcbs) /\ Cardinality(Pcbs) = NSock
  /\ Null \notin Pcbs \cup Pbufs \cup Ports \cup Peers \cup Datagram
  /\ Calls \subseteq AllCalls

VARIABLES
  allocated, udppcb, hasRecvCallback, recved, pp,  \* socketPool, field by field
  fds,         \* the descriptors the clients hold
  freePcbs, local_port, hasRecv, remote_ip,        \* the control blocks of lwIP
  freePbufs, content,                              \* its packet buffers
  call         \* the call the main loop is in, and its local variables

poolVars == <<allocated, udppcb, hasRecvCallback, recved, pp>>
pcbVars  == <<freePcbs, local_port, hasRecv, remote_ip>>
pbufVars == <<freePbufs, content>>
vars == <<poolVars, fds, pcbVars, pbufVars, call>>

Idle == [at |-> "idle", s |-> 0, p |-> Null, msg |-> Null, to |-> Null]

Init ==
  /\ allocated = [i \in Sock |-> FALSE]
  /\ udppcb = [i \in Sock |-> Null]
  /\ hasRecvCallback = [i \in Sock |-> FALSE]
  /\ recved = [i \in Sock |-> FALSE]
  /\ pp = [i \in Sock |-> Null]
  /\ fds = {}
  /\ freePcbs = Pcbs
  /\ local_port = [q \in Pcbs |-> Null]
  /\ hasRecv = [q \in Pcbs |-> FALSE]
  /\ remote_ip = [q \in Pcbs |-> Null]
  /\ freePbufs = Pbufs
  /\ content = [b \in Pbufs |-> Null]
  /\ call = Idle

-----------------------------------------------------------------------------
(* lwIP: udp.c *)

(* udp_bind leaves the block as it is when another one has the port. *)
PortTaken(q, port) == \E r \in Pcbs \ {q} : local_port[r] = port

Bound(q, port) ==
  IF PortTaken(q, port) THEN local_port ELSE [local_port EXCEPT ![q] = port]

-----------------------------------------------------------------------------
(* socket() and bind() *)

(* Mutants of FirstFree: any free slot; a slot that may be taken. *)
AnyFree(i) == ~allocated[i]
FirstOrTaken(i) == \A j \in Sock : j < i => allocated[j]

FirstFree(i) == ~allocated[i] /\ \A j \in Sock : j < i => allocated[j]

(* udp_new clears the block.  When it finds none the slot stays allocated. *)
Socket ==
  /\ "socket" \in Calls /\ call = Idle
  /\ \E i \in Sock :
       /\ FirstFree(i)
       /\ allocated' = [allocated EXCEPT ![i] = TRUE]
       /\ \/ /\ freePcbs = {}
             /\ udppcb' = [udppcb EXCEPT ![i] = Null]
             /\ UNCHANGED <<fds, pcbVars>>
          \/ \E q \in freePcbs :
               /\ freePcbs' = freePcbs \ {q}
               /\ udppcb' = [udppcb EXCEPT ![i] = q]
               /\ local_port' = [local_port EXCEPT ![q] = Null]
               /\ hasRecv' = [hasRecv EXCEPT ![q] = FALSE]
               /\ remote_ip' = [remote_ip EXCEPT ![q] = Null]
               /\ fds' = fds \cup {i}
  /\ UNCHANGED <<hasRecvCallback, recved, pp, pbufVars, call>>

(* Each client binds its socket once, right after it got it. *)
Bind(s, port) ==
  /\ "bind" \in Calls /\ call = Idle
  /\ local_port[udppcb[s]] = Null
  /\ local_port' = Bound(udppcb[s], port)
  /\ UNCHANGED <<poolVars, fds, freePcbs, hasRecv, remote_ip, pbufVars, call>>

-----------------------------------------------------------------------------
(* sendto(): the destination goes through the control block, where the       *)
(* interrupt stores the address of the last sender.                          *)

SendSetRemote(s, peer) ==
  /\ "sendto" \in Calls /\ call = Idle
  /\ remote_ip' = [remote_ip EXCEPT ![udppcb[s]] = peer]
  /\ call' = [Idle EXCEPT !.at = "send", !.s = s, !.to = peer]
  /\ UNCHANGED <<poolVars, fds, freePcbs, local_port, hasRecv, pbufVars>>

(* udp_sendto binds a block that has no port; without memory for the packet  *)
(* nothing is sent.                                                          *)
SendOut ==
  /\ call.at = "send"
  /\ \/ UNCHANGED local_port
     \/ /\ local_port[udppcb[call.s]] = Null
        /\ \E port \in Ports : local_port' = Bound(udppcb[call.s], port)
  /\ call' = Idle
  /\ UNCHANGED <<poolVars, fds, freePcbs, hasRecv, remote_ip, pbufVars>>

-----------------------------------------------------------------------------
(* recvfrom(): setSocketRecvCallBack, then recvSocketMsg, then the address.  *)

RecvInstall(s) ==
  /\ "recvfrom" \in Calls /\ call = Idle
  /\ \/ /\ hasRecvCallback[s]
        /\ UNCHANGED <<hasRecvCallback, hasRecv>>
     \/ /\ ~hasRecvCallback[s]
        /\ hasRecv' = [hasRecv EXCEPT ![udppcb[s]] = TRUE]
        /\ hasRecvCallback' = [hasRecvCallback EXCEPT ![s] = TRUE]
  /\ call' = [Idle EXCEPT !.at = "load", !.s = s]
  /\ UNCHANGED <<allocated, udppcb, recved, pp, fds, freePcbs, local_port, remote_ip, pbufVars>>

RecvLoad ==
  /\ call.at = "load"
  /\ call' = [call EXCEPT !.at = "check", !.p = pp[call.s]]
  /\ UNCHANGED <<poolVars, fds, pcbVars, pbufVars>>

RecvCheck ==
  /\ call.at = "check"
  /\ call' = [call EXCEPT !.at = IF recved[call.s] /\ call.p # Null THEN "copy" ELSE "address"]
  /\ UNCHANGED <<poolVars, fds, pcbVars, pbufVars>>

(* The copy to the caller's buffer is msg, until the call returns. *)
RecvCopy ==
  /\ call.at = "copy"
  /\ call' = [call EXCEPT !.at = "free", !.msg = content[call.p]]
  /\ UNCHANGED <<poolVars, fds, pcbVars, pbufVars>>

(* Mutant of FollowedBy: pp is cleared before recved. *)
FollowedByPpFirst(at) ==
  CASE at = "free" -> "clear_pp" [] at = "clear_pp" -> "clear_recved" [] at = "clear_recved" -> "address"

(* The reader frees the buffer, then clears recved, then pp. *)
FollowedBy(at) ==
  CASE at = "free" -> "clear_recved" [] at = "clear_recved" -> "clear_pp" [] at = "clear_pp" -> "address"

RecvFree ==
  /\ call.at = "free"
  /\ freePbufs' = freePbufs \cup {call.p}
  /\ call' = [call EXCEPT !.at = FollowedBy("free")]
  /\ UNCHANGED <<poolVars, fds, pcbVars, content>>

RecvClearRecved ==
  /\ call.at = "clear_recved"
  /\ recved' = [recved EXCEPT ![call.s] = FALSE]
  /\ call' = [call EXCEPT !.at = FollowedBy("clear_recved")]
  /\ UNCHANGED <<allocated, udppcb, hasRecvCallback, pp, fds, pcbVars, pbufVars>>

(* Mutant of Emptied: the slot keeps the buffer it has given back. *)
EmptiedNot(s) == pp

Emptied(s) == [pp EXCEPT ![s] = Null]

RecvClearPp ==
  /\ call.at = "clear_pp"
  /\ pp' = Emptied(call.s)
  /\ call' = [call EXCEPT !.at = FollowedBy("clear_pp")]
  /\ UNCHANGED <<allocated, udppcb, hasRecvCallback, recved, fds, pcbVars, pbufVars>>

(* The caller is told remote_ip[udppcb[s]], message or not. *)
RecvAddress ==
  /\ call.at = "address"
  /\ call' = Idle
  /\ UNCHANGED <<poolVars, fds, pcbVars, pbufVars>>

-----------------------------------------------------------------------------
(* close(): socket 0 is never freed (s > 0 is required).  freeSocket leaves  *)
(* the other fields of the slot as they are.                                 *)

(* Mutant of freeSocket: the slot stays marked. *)
freeSocketNot(s) == allocated

freeSocket(s) == [allocated EXCEPT ![s] = FALSE]

CloseMark(s) ==
  /\ "close" \in Calls /\ call = Idle
  /\ fds' = fds \ {s}
  /\ \/ /\ s = 0
        /\ UNCHANGED <<allocated, call>>
     \/ /\ s > 0
        /\ allocated' = freeSocket(s)
        /\ call' = [Idle EXCEPT !.at = "remove", !.s = s]
  /\ UNCHANGED <<udppcb, hasRecvCallback, recved, pp, pcbVars, pbufVars>>

(* udp_remove takes the block off the list and gives it back to the pool. *)
CloseRemove ==
  /\ call.at = "remove"
  /\ local_port' = [local_port EXCEPT ![udppcb[call.s]] = Null]
  /\ freePcbs' = freePcbs \cup {udppcb[call.s]}
  /\ call' = Idle
  /\ UNCHANGED <<poolVars, fds, hasRecv, remote_ip, pbufVars>>

-----------------------------------------------------------------------------
(* The interrupt: a datagram for a local port.  Without a packet buffer, a   *)
(* control block with that port, or a callback in it, nothing changes.       *)

(* Mutant of SlotOf: the slot is looked for by its mark, not by its block. *)
SlotInUse(q) ==
  CHOOSE i \in Sock : allocated[i] /\ \A j \in Sock : j < i => ~allocated[j]

(* The first slot that has the block, live or not. *)
SlotOf(q) ==
  CHOOSE i \in Sock : udppcb[i] = q /\ \A j \in Sock : j < i => udppcb[j] # q

(* Mutant of runAtSocketRecv: with the pbuf_free that is commented out. *)
runAtSocketRecvFrees(q, b, peer) ==
  /\ freePbufs' = (freePbufs \ {b}) \cup ({pp[SlotOf(q)]} \ {Null})
  /\ remote_ip' = [remote_ip EXCEPT ![udppcb[SlotOf(q)]] = peer]
  /\ pp' = [pp EXCEPT ![SlotOf(q)] = b]
  /\ recved' = [recved EXCEPT ![SlotOf(q)] = TRUE]

(* A frame that waited in the slot is dropped from it, and its packet buffer *)
(* is not given back (the pbuf_free is commented out).  The message printed  *)
(* then is left out: a sendto of the console inside the interrupt, which     *)
(* stores in the console's block the address that is always stored there.    *)
runAtSocketRecv(q, b, peer) ==
  /\ freePbufs' = freePbufs \ {b}
  /\ remote_ip' = [remote_ip EXCEPT ![udppcb[SlotOf(q)]] = peer]
  /\ pp' = [pp EXCEPT ![SlotOf(q)] = b]
  /\ recved' = [recved EXCEPT ![SlotOf(q)] = TRUE]

EthInterrupt(peer, port) ==
  \E b \in freePbufs, q \in Pcbs :
    /\ local_port[q] = port /\ hasRecv[q]
    /\ content' = [content EXCEPT ![b] = [from |-> peer, to |-> port]]
    /\ runAtSocketRecv(q, b, peer)
    /\ UNCHANGED <<allocated, udppcb, hasRecvCallback, fds, freePcbs, local_port, hasRecv, call>>

-----------------------------------------------------------------------------
Recv == RecvLoad \/ RecvCheck \/ RecvCopy \/ RecvFree \/ RecvClearRecved
          \/ RecvClearPp \/ RecvAddress

Main ==
  \/ Socket
  \/ \E s \in fds, port \in Ports : Bind(s, port)
  \/ \E s \in fds, peer \in Peers : SendSetRemote(s, peer)
  \/ SendOut
  \/ \E s \in fds : RecvInstall(s)
  \/ Recv
  \/ \E s \in fds : CloseMark(s)
  \/ CloseRemove

Next == Main \/ \E peer \in Peers, port \in Ports : EthInterrupt(peer, port)

Spec == Init /\ [][Next]_vars

(* The main loop never stops: a call it is in goes on, and a client that has *)
(* called recvfrom once calls it again and again (main.cpp:113).             *)
FairSpec ==
  /\ Spec
  /\ WF_vars(Recv) /\ WF_vars(SendOut) /\ WF_vars(CloseRemove)
  /\ \A s \in Sock : SF_vars(s \in fds /\ hasRecvCallback[s] /\ RecvInstall(s))

-----------------------------------------------------------------------------
(* A slot is live from socket() until udp_remove has given its block back. *)
Closing(s) == call.at = "remove" /\ call.s = s
Live(s) == udppcb[s] # Null /\ (allocated[s] \/ Closing(s))

Steps == {"idle", "load", "check", "copy", "free", "clear_recved", "clear_pp",
          "address", "send", "remove"}

TypeOK ==
  /\ allocated \in [Sock -> BOOLEAN]
  /\ udppcb \in [Sock -> Pcbs \cup {Null}]
  /\ hasRecvCallback \in [Sock -> BOOLEAN]
  /\ recved \in [Sock -> BOOLEAN]
  /\ pp \in [Sock -> Pbufs \cup {Null}]
  /\ fds \subseteq Sock
  /\ freePcbs \subseteq Pcbs
  /\ local_port \in [Pcbs -> Ports \cup {Null}]
  /\ hasRecv \in [Pcbs -> BOOLEAN]
  /\ remote_ip \in [Pcbs -> Peers \cup {Null}]
  /\ freePbufs \subseteq Pbufs
  /\ content \in [Pbufs -> Datagram \cup {Null}]
  /\ call \in [at : Steps, s : Sock, p : Pbufs \cup {Null},
               msg : Datagram \cup {Null}, to : Peers \cup {Null}]

(* Each descriptor a client holds is a slot with a control block of its own, *)
(* and a block that is in use is not in lwIP's pool: no two sockets receive  *)
(* on one block, whatever the order of opens and closes.                     *)
OwnPcb ==
  /\ \A s \in fds : allocated[s] /\ udppcb[s] # Null
  /\ \A s \in Sock : Live(s) =>
       /\ udppcb[s] \notin freePcbs
       /\ \A t \in Sock \ {s} : Live(t) => udppcb[t] # udppcb[s]

(* freeSocket leaves the control block in the slot, so an old slot may name  *)
(* a block that another socket was given since.  The interrupt takes the     *)
(* first slot that names it: that is always the socket the datagram is for.  *)
FrameFindsItsSocket ==
  \A q \in Pcbs : local_port[q] # Null => udppcb[SlotOf(q)] = q /\ Live(SlotOf(q))

(* allocSocket marks the slot before udp_new and does not undo it when       *)
(* udp_new fails; there is a block for each slot, so it never does.          *)
PcbForEverySlot ==
  call = Idle /\ (\E i \in Sock : ~allocated[i]) => freePcbs # {}

(* The packet buffer recvSocketMsg has loaded is not given back to the pool  *)
(* by the interrupt before it was copied, and is freed once (socket.c:252    *)
(* to 263): the interrupt that replaces it leaves it to the reader.          *)
LoadedFrameIsHeld ==
  call.at \in {"check", "copy", "free"} /\ call.p # Null => call.p \notin freePbufs

(* A packet buffer waits in one slot at most, and is not in the pool while   *)
(* it waits.  Between pbuf_free(p) and pp = NULL the reader's slot names a   *)
(* freed buffer, which may by then wait in another slot: this ends with the  *)
(* call, so no slot keeps a buffer that is in use elsewhere.                 *)
Waits(s) == pp[s] # Null /\ ~(call.at \in {"clear_recved", "clear_pp"} /\ call.s = s)

WaitingFrameIsHeld ==
  \A s \in Sock : Waits(s) =>
    /\ pp[s] \notin freePbufs
    /\ \A t \in Sock \ {s} : Waits(t) => pp[t] # pp[s]

(* What recvfrom copies out is a datagram sent to the port the socket is     *)
(* bound to.  (With close() among the calls it need not be: a new socket     *)
(* finds the frame that waited in the old one.)                              *)
DeliveredToItsPort ==
  call.msg # Null => call.msg.to = local_port[udppcb[call.s]]

(* sendto passes the destination through the control block.  As long as      *)
(* nobody has called recvfrom on the socket (the console never does), no     *)
(* received datagram changes it before the packet is sent.  (The message of  *)
(* the interrupt at socket.c:227 goes through the console's block, too, but  *)
(* to the console's one destination.  A socket that is received on may send  *)
(* to the peer of the moment instead, and nothing is claimed of it.)         *)
SentWhereAsked ==
  call.at = "send" /\ ~hasRecv[udppcb[call.s]] => remote_ip[udppcb[call.s]] = call.to

(* What the slots and the call under way are like in every reachable state:  *)
(* the part of the inductive invariant that is not a property of its own.    *)
CallOK ==
  /\ call.at \notin {"idle", "remove"} => call.s \in fds
  /\ call.at = "remove" => call.s \notin fds /\ ~allocated[call.s] /\ udppcb[call.s] # Null
  /\ call.at \in {"copy", "free", "clear_recved", "clear_pp"} => call.p # Null
  /\ call.at \in {"check", "copy", "free"} /\ call.p # Null =>
       \A t \in Sock \ {call.s} : pp[t] # call.p

LiveBeforeStale ==
  \A i, j \in Sock : ~Live(i) /\ Live(j) /\ udppcb[i] = udppcb[j] => j < i

BoundAreLive ==
  \A q \in Pcbs : local_port[q] # Null => \E s \in Sock : Live(s) /\ udppcb[s] = q

(* A block that is not in lwIP's pool belongs to a live slot. *)
PcbsAccounted ==
  /\ \A s \in Sock : allocated[s] => udppcb[s] # Null
  /\ \A q \in Pcbs \ freePcbs : \E s \in Sock : Live(s) /\ udppcb[s] = q

IInv ==
  /\ TypeOK
  /\ CallOK
  /\ OwnPcb
  /\ LiveBeforeStale
  /\ BoundAreLive
  /\ LoadedFrameIsHeld
  /\ WaitingFrameIsHeld

(* Without close: a frame that waits in a slot, or is being read from it, was *)
(* sent to the port of that slot's block, which has got its only port by then.*)
DatagramsFit ==
  /\ call.at # "remove"
  /\ \A s \in Sock : Waits(s) =>
       Live(s) /\ content[pp[s]] \in Datagram /\ content[pp[s]].to = local_port[udppcb[s]]
  /\ call.at \in {"check", "copy"} /\ call.p # Null =>
       content[call.p] \in Datagram /\ content[call.p].to = local_port[udppcb[call.s]]

(* A client that polls sees every frame off: it is read, or a newer one      *)
(* takes its place; no frame is stuck in a slot (the order of recved and pp  *)
(* at socket.c:233-234 and 264-265).                                         *)
FrameLeavesItsSlot ==
  \A s \in Sock : \A b \in Pbufs : (s \in fds /\ pp[s] = b) ~> (s \notin fds \/ pp[s] # b)

(* socket.c:227: a frame is thrown away because a new one arrived, and is    *)
(* counted.  So the one the reader drops at line 265 is the one it has read. *)
OnlyReadFramesDropped == call.at = "clear_pp" => pp[call.s] \in {call.p, Null}

-----------------------------------------------------------------------------
(* The pool as mailboxes.  A slot has the port of its block as long as it is *)
(* live.  The frame that waits in it is its mail, unless it is the one that  *)
(* is being read: it is taken when its pointer is loaded (socket.c:252).     *)
BeingRead(s) == call.at \in {"check", "copy", "free"} /\ call.s = s /\ call.p = pp[s]

PortOf(s) == IF Live(s) THEN local_port[udppcb[s]] ELSE Null

MailOf(s) ==
  IF Waits(s) /\ ~BeingRead(s) /\ pp[s] \notin freePbufs THEN content[pp[s]] ELSE Null

GotBy(s) == IF call.s = s THEN call.msg ELSE Null

TakenBy(s) ==
  IF call.at \in {"check", "copy"} /\ call.s = s /\ call.p # Null
  THEN content[call.p] ELSE GotBy(s)

Boxes == INSTANCE Mailboxes
           WITH port <- [s \in Sock |-> PortOf(s)],   mail <- [s \in Sock |-> MailOf(s)],
                taken <- [s \in Sock |-> TakenBy(s)], got <- [s \in Sock |-> GotBy(s)]

(* Each socket is a mailbox for its port: with the interrupt between any two *)
(* steps of recvfrom, and whatever was opened and closed, no datagram comes  *)
(* to another socket, comes out twice, or is replaced by an older one, and   *)
(* recvfrom hands over every datagram it takes out of the mailbox.           *)
ImplementsMailboxes == Boxes!Spec

(* Why: a buffer that is not in the pool has a datagram in it; a slot with a *)
(* frame has recved set, for the loaded frame too; and msg is what the call  *)
(* has copied.                                                               *)
MailInv ==
  /\ \A b \in Pbufs \ freePbufs : content[b] \in Datagram
  /\ \A s \in Sock : pp[s] # Null => recved[s] \/ (call.at = "clear_pp" /\ call.s = s)
  /\ call.at = "check" /\ call.p # Null => pp[call.s] # Null
  /\ call.at \in {"free", "clear_recved", "clear_pp"} => call.msg # Null
  /\ call.at \notin {"free", "clear_recved", "clear_pp", "address"} => call.msg = Null
=============================================================================
