-------------------------- MODULE SocketPool_proof --------------------------
(***************************************************************************)
(* Proofs about SocketPool for every number of sockets, packet buffers,    *)
(* ports and peers, every set of calls, and an interrupt at any point of   *)
(* them.                                                                   *)
(***************************************************************************)
EXTENDS SocketPool, FiniteSetTheorems, TLAPS

(* The first slot that names the control block of a live socket is the slot  *)
(* of that socket.                                                           *)
LEMMA SlotOfLive ==
  ASSUME IInv, NEW s \in Sock, Live(s)
  PROVE  SlotOf(udppcb[s]) = s
  <1> DEFINE P(i) == udppcb[i] = udppcb[s] /\ \A j \in Sock : j < i => udppcb[j] # udppcb[s]
  <1>1. \A i \in Sock : i \in Int
    BY SocketPoolAssumption DEF Sock
  <1>2. ASSUME NEW j \in Sock, j < s PROVE udppcb[j] # udppcb[s]
    <2>1. CASE Live(j)
      BY <1>1, <1>2, <2>1 DEF IInv, OwnPcb
    <2>2. CASE ~Live(j)
      <3> SUFFICES ASSUME udppcb[j] = udppcb[s] PROVE FALSE
        OBVIOUS
      <3>1. s < j
        BY <2>2 DEF IInv, LiveBeforeStale
      <3> QED
        BY <3>1, <1>1, <1>2
    <2> QED
      BY <2>1, <2>2
  <1>3. P(s)
    BY <1>2
  <1>4. ASSUME NEW i \in Sock, P(i) PROVE i = s
    BY <1>1, <1>2, <1>4
  <1> QED
    BY <1>3, <1>4 DEF SlotOf

(* The interrupt stores a datagram in a live slot, and finds it by the block.*)
LEMMA InterruptSlot ==
  ASSUME IInv, NEW q \in Pcbs, local_port[q] # Null
  PROVE  SlotOf(q) \in Sock /\ Live(SlotOf(q)) /\ udppcb[SlotOf(q)] = q
  BY SlotOfLive DEF IInv, BoundAreLive

-----------------------------------------------------------------------------
(* Each step preserves the invariant. *)

LEMMA InitInv == Init => IInv
  BY SocketPoolAssumption
     DEF Init, IInv, TypeOK, CallOK, OwnPcb, LiveBeforeStale, BoundAreLive, LoadedFrameIsHeld,
         WaitingFrameIsHeld, Waits, Live, Closing, Idle, Steps, Sock

LEMMA SocketInv ==
  ASSUME IInv, Socket
  PROVE  IInv'
  <1> USE SocketPoolAssumption DEF IInv, TypeOK
  <1>1. PICK i \in Sock : FirstFree(i) /\ allocated' = [allocated EXCEPT ![i] = TRUE]
                          /\ \/ /\ freePcbs = {}
                                /\ udppcb' = [udppcb EXCEPT ![i] = Null]
                                /\ UNCHANGED <<fds, pcbVars>>
                             \/ \E q \in freePcbs :
                                  /\ freePcbs' = freePcbs \ {q}
                                  /\ udppcb' = [udppcb EXCEPT ![i] = q]
                                  /\ local_port' = [local_port EXCEPT ![q] = Null]
                                  /\ hasRecv' = [hasRecv EXCEPT ![q] = FALSE]
                                  /\ remote_ip' = [remote_ip EXCEPT ![q] = Null]
                                  /\ fds' = fds \cup {i}
    BY DEF Socket
  <1>2. /\ call = Idle /\ call.at = "idle" /\ call.p = Null
        /\ UNCHANGED <<hasRecvCallback, recved, pp, pbufVars, call>>
    BY DEF Socket, Idle
  <1>3. ~allocated[i] /\ ~Live(i) /\ i \notin fds /\ \A j \in Sock : Live(j) <=> udppcb[j] # Null /\ allocated[j]
    BY <1>1, <1>2 DEF FirstFree, Live, Closing, OwnPcb
  <1>4. CASE freePcbs = {} /\ udppcb' = [udppcb EXCEPT ![i] = Null] /\ UNCHANGED <<fds, pcbVars>>
    <2>1. TypeOK'
      BY <1>1, <1>2, <1>4 DEF pcbVars, pbufVars
    <2>2. CallOK' /\ LoadedFrameIsHeld' /\ WaitingFrameIsHeld'
      BY <1>2 DEF CallOK, LoadedFrameIsHeld, WaitingFrameIsHeld, Waits, pbufVars
    <2>3. \A j \in Sock : Live(j)' <=> Live(j)
      BY <1>1, <1>2, <1>3, <1>4 DEF Live, Closing
    <2>4. \A j \in Sock : j # i => udppcb'[j] = udppcb[j] /\ allocated'[j] = allocated[j]
      BY <1>1, <1>4
    <2>5. OwnPcb'
      BY <1>3, <1>4, <2>3, <2>4 DEF OwnPcb, pcbVars
    <2>6. LiveBeforeStale'
      BY <1>1, <1>3, <1>4, <2>3, <2>4 DEF LiveBeforeStale, Live
    <2>7. BoundAreLive'
      BY <1>3, <1>4, <2>3, <2>4 DEF BoundAreLive, pcbVars
    <2> QED
      BY <2>1, <2>2, <2>5, <2>6, <2>7
  <1>5. ASSUME NEW q \in freePcbs,
               freePcbs' = freePcbs \ {q},
               udppcb' = [udppcb EXCEPT ![i] = q],
               local_port' = [local_port EXCEPT ![q] = Null],
               hasRecv' = [hasRecv EXCEPT ![q] = FALSE],
               remote_ip' = [remote_ip EXCEPT ![q] = Null],
               fds' = fds \cup {i}
        PROVE  IInv'
    <2>1. TypeOK'
      BY <1>1, <1>2, <1>5 DEF pbufVars
    <2>2. CallOK' /\ LoadedFrameIsHeld' /\ WaitingFrameIsHeld'
      BY <1>2 DEF CallOK, LoadedFrameIsHeld, WaitingFrameIsHeld, Waits, pbufVars
    <2>8. /\ udppcb'[i] = q /\ allocated'[i] = TRUE /\ q \in Pcbs /\ q # Null /\ call' = call
          /\ \A j \in Sock : j # i => udppcb'[j] = udppcb[j] /\ allocated'[j] = allocated[j]
      BY <1>1, <1>2, <1>5
    <2> HIDE DEF IInv, TypeOK
    <2>3. \A j \in Sock : j # i => /\ udppcb'[j] = udppcb[j] /\ allocated'[j] = allocated[j]
                                   /\ (Live(j)' <=> Live(j))
      BY <2>8 DEF Live, Closing
    <2>4. udppcb'[i] = q /\ q # Null /\ Live(i)' /\ \A j \in Sock : Live(j) => udppcb[j] # q
      BY <1>5, <2>8 DEF Live, Closing, IInv, OwnPcb
    <2>5. OwnPcb'
      <3>1. \A s \in fds' : allocated'[s] /\ udppcb'[s] # Null
        <4> SUFFICES ASSUME NEW s \in fds' PROVE allocated'[s] /\ udppcb'[s] # Null
          OBVIOUS
        <4>1. CASE s = i
          BY <4>1, <2>8
        <4>2. CASE s # i
          <5>1. s \in fds /\ s \in Sock
            BY <1>5, <4>2 DEF IInv, TypeOK
          <5> QED
            BY <4>2, <5>1, <2>8 DEF IInv, OwnPcb
        <4> QED
          BY <4>1, <4>2
      <3>2. ASSUME NEW s \in Sock, Live(s)'
            PROVE  /\ udppcb'[s] \notin freePcbs'
                   /\ \A t \in Sock \ {s} : Live(t)' => udppcb'[t] # udppcb'[s]
        <4>1. CASE s = i
          BY <4>1, <1>5, <2>3, <2>4
        <4>2. CASE s # i
          BY <3>2, <4>2, <1>5, <2>3, <2>4 DEF IInv, OwnPcb
        <4> QED
          BY <4>1, <4>2
      <3> QED
        BY <3>1, <3>2 DEF OwnPcb
    <2>6. LiveBeforeStale'
      <3> SUFFICES ASSUME NEW k \in Sock, NEW j \in Sock, ~Live(k)', Live(j)', udppcb'[k] = udppcb'[j]
                   PROVE  j < k
        BY DEF LiveBeforeStale
      <3>1. k # i
        BY <2>4
      <3>2. CASE j = i
        <4>1. ~(k < i)
          <5> SUFFICES ASSUME k < i PROVE FALSE
            OBVIOUS
          <5>1. allocated[k] /\ ~Live(k)
            BY <1>1, <1>2, <1>5, <2>3, <3>1 DEF FirstFree, Live, Closing
          <5>2. udppcb[k] = Null
            BY <5>1, <1>3
          <5>3. udppcb'[k] = q
            BY <2>4, <3>2
          <5> QED
            BY <5>2, <5>3, <2>3, <2>4, <3>1
        <4>2. i \in Int /\ k \in Int /\ k # i
          BY <3>1 DEF Sock
        <4> QED
          BY <3>2, <4>1, <4>2
      <3>3. CASE j # i
        BY <3>1, <3>3, <2>3 DEF IInv, LiveBeforeStale
      <3> QED
        BY <3>2, <3>3
    <2>7. BoundAreLive'
      <3> SUFFICES ASSUME NEW r \in Pcbs, local_port'[r] # Null
                   PROVE  \E s \in Sock : Live(s)' /\ udppcb'[s] = r
        BY DEF BoundAreLive
      <3>1. r # q /\ local_port[r] # Null
        BY <1>5 DEF IInv, TypeOK
      <3>2. PICK s \in Sock : Live(s) /\ udppcb[s] = r
        BY <3>1 DEF IInv, BoundAreLive
      <3>3. s # i
        BY <3>2, <1>3
      <3> QED
        BY <3>2, <3>3, <2>3
    <2> QED
      BY <2>1, <2>2, <2>5, <2>6, <2>7 DEF IInv
  <1> QED
    BY <1>1, <1>4, <1>5

(* A step that leaves the slots' ownership alone only has to keep the types, *)
(* the call and the packet buffers right.                                    *)
LEMMA SameOwnership ==
  ASSUME IInv, TypeOK', CallOK', LoadedFrameIsHeld', WaitingFrameIsHeld',
         UNCHANGED <<allocated, udppcb, fds, freePcbs, local_port>>,
         \A s \in Sock : Closing(s)' <=> Closing(s)
  PROVE  IInv'
  <1>1. \A s \in Sock : Live(s)' <=> Live(s)
    BY DEF Live
  <1>2. OwnPcb'
    BY <1>1 DEF IInv, OwnPcb, TypeOK
  <1>3. LiveBeforeStale'
    BY <1>1 DEF IInv, LiveBeforeStale
  <1>4. BoundAreLive'
    BY <1>1 DEF IInv, BoundAreLive
  <1> QED
    BY <1>2, <1>3, <1>4 DEF IInv

(* So does one that gives a block that is in use another port. *)
LEMMA PortOfLive ==
  ASSUME IInv, TypeOK', CallOK', LoadedFrameIsHeld', WaitingFrameIsHeld',
         NEW s \in fds, NEW port \in Ports \cup {Null},
         local_port' = [local_port EXCEPT ![udppcb[s]] = port],
         UNCHANGED <<allocated, udppcb, fds, freePcbs>>,
         \A t \in Sock : ~Closing(t) /\ ~Closing(t)'
  PROVE  IInv'
  <1>1. \A t \in Sock : Live(t)' <=> Live(t)
    BY DEF Live
  <1>2. OwnPcb'
    BY <1>1 DEF IInv, OwnPcb, TypeOK
  <1>3. LiveBeforeStale'
    BY <1>1 DEF IInv, LiveBeforeStale
  <1>4. s \in Sock /\ Live(s)
    BY DEF IInv, TypeOK, OwnPcb, Live
  <1>5. \A r \in Pcbs : local_port'[r] # Null => local_port[r] # Null \/ r = udppcb[s]
    BY DEF IInv, TypeOK
  <1>6. BoundAreLive'
    BY <1>1, <1>4, <1>5 DEF IInv, BoundAreLive
  <1> QED
    BY <1>2, <1>3, <1>6 DEF IInv

LEMMA BoundIs ==
  ASSUME NEW q \in Pcbs, NEW port \in Ports, local_port[q] = Null, TypeOK
  PROVE  \E pt \in Ports \cup {Null} : Bound(q, port) = [local_port EXCEPT ![q] = pt]
  <1>1. CASE PortTaken(q, port)
    <2>1. local_port = [local_port EXCEPT ![q] = Null]
      BY DEF TypeOK
    <2> QED
      BY <1>1, <2>1 DEF Bound
  <1>2. CASE ~PortTaken(q, port)
    BY <1>2 DEF Bound
  <1> QED
    BY <1>1, <1>2

LEMMA BindInv ==
  ASSUME IInv, NEW s \in fds, NEW port \in Ports, Bind(s, port)
  PROVE  IInv'
  <1>1. s \in Sock /\ udppcb[s] \in Pcbs
    BY DEF IInv, TypeOK, OwnPcb
  <1>2. PICK pt \in Ports \cup {Null} : local_port' = [local_port EXCEPT ![udppcb[s]] = pt]
    BY <1>1, BoundIs DEF Bind, IInv
  <1>3. /\ call = Idle /\ UNCHANGED <<allocated, udppcb, fds, freePcbs, call, pp, freePbufs>>
    BY DEF Bind, poolVars, pbufVars
  <1>4. TypeOK'
    BY <1>1, <1>2 DEF IInv, TypeOK, Bind, poolVars, pbufVars
  <1>5. CallOK' /\ LoadedFrameIsHeld' /\ WaitingFrameIsHeld'
    BY <1>3 DEF IInv, CallOK, LoadedFrameIsHeld, WaitingFrameIsHeld, Waits
  <1>6. \A t \in Sock : ~Closing(t) /\ ~Closing(t)'
    BY <1>3 DEF Closing, Idle
  <1> QED
    BY <1>2, <1>3, <1>4, <1>5, <1>6, PortOfLive

LEMMA SendSetRemoteInv ==
  ASSUME IInv, NEW s \in fds, NEW peer \in Peers, SendSetRemote(s, peer)
  PROVE  IInv'
  <1>1. s \in Sock /\ udppcb[s] \in Pcbs
    BY DEF IInv, TypeOK, OwnPcb
  <1>2. /\ call.at = "idle" /\ call'.at = "send" /\ call'.s = s /\ call'.p = Null
        /\ UNCHANGED <<allocated, udppcb, fds, freePcbs, local_port, pp, freePbufs>>
    BY DEF SendSetRemote, poolVars, pbufVars, Idle
  <1>3. TypeOK'
    BY <1>1, SocketPoolAssumption
       DEF IInv, TypeOK, SendSetRemote, poolVars, pbufVars, Idle, Steps, Sock
  <1>4. CallOK' /\ LoadedFrameIsHeld' /\ WaitingFrameIsHeld'
    BY <1>2 DEF IInv, CallOK, LoadedFrameIsHeld, WaitingFrameIsHeld, Waits
  <1>5. \A t \in Sock : Closing(t)' <=> Closing(t)
    BY <1>2 DEF Closing
  <1> QED
    BY <1>2, <1>3, <1>4, <1>5, SameOwnership

LEMMA SendOutInv ==
  ASSUME IInv, SendOut
  PROVE  IInv'
  <1> DEFINE s == call.s
  <1>1. s \in fds /\ s \in Sock /\ udppcb[s] \in Pcbs /\ call.at = "send"
    BY DEF IInv, TypeOK, OwnPcb, CallOK, SendOut
  <1>2. PICK pt \in Ports \cup {Null} : local_port' = [local_port EXCEPT ![udppcb[s]] = pt]
    <2>1. CASE UNCHANGED local_port
      <3>1. local_port = [local_port EXCEPT ![udppcb[s]] = local_port[udppcb[s]]]
        BY DEF IInv, TypeOK
      <3>2. local_port[udppcb[s]] \in Ports \cup {Null}
        BY <1>1 DEF IInv, TypeOK
      <3> QED
        BY <2>1, <3>1, <3>2
    <2>2. CASE /\ local_port[udppcb[s]] = Null
               /\ \E port \in Ports : local_port' = Bound(udppcb[s], port)
      BY <1>1, <2>2, BoundIs DEF IInv
    <2> QED
      BY <2>1, <2>2 DEF SendOut
  <1>3. /\ call' = Idle /\ UNCHANGED <<allocated, udppcb, fds, freePcbs, pp, freePbufs>>
    BY DEF SendOut, poolVars, pbufVars
  <1>4. TypeOK'
    BY <1>1, <1>2, SocketPoolAssumption
       DEF IInv, TypeOK, SendOut, poolVars, pbufVars, Idle, Steps, Sock
  <1>5. CallOK' /\ LoadedFrameIsHeld' /\ WaitingFrameIsHeld'
    BY <1>1, <1>3 DEF IInv, CallOK, LoadedFrameIsHeld, WaitingFrameIsHeld, Waits, Idle
  <1>6. \A t \in Sock : ~Closing(t) /\ ~Closing(t)'
    BY <1>1, <1>3 DEF Closing, Idle
  <1> HIDE DEF s
  <1> QED
    BY <1>1, <1>2, <1>3, <1>4, <1>5, <1>6, PortOfLive

LEMMA RecvInstallInv ==
  ASSUME IInv, NEW s \in fds, RecvInstall(s)
  PROVE  IInv'
  <1>1. s \in Sock /\ udppcb[s] \in Pcbs
    BY DEF IInv, TypeOK, OwnPcb
  <1>2. /\ call.at = "idle" /\ call'.at = "load" /\ call'.s = s /\ call'.p = Null
        /\ UNCHANGED <<allocated, udppcb, fds, freePcbs, local_port, pp, freePbufs>>
    BY DEF RecvInstall, pbufVars, Idle
  <1>3. TypeOK'
    <2>1. /\ hasRecv' \in [Pcbs -> BOOLEAN] /\ hasRecvCallback' \in [Sock -> BOOLEAN]
          /\ UNCHANGED <<allocated, udppcb, recved, pp, fds, freePcbs, local_port,
                         remote_ip, freePbufs, content>>
      BY <1>1 DEF IInv, TypeOK, RecvInstall, pbufVars
    <2>2. call' \in [at : Steps, s : Sock, p : Pbufs \cup {Null},
                     msg : Datagram \cup {Null}, to : Peers \cup {Null}]
      BY <1>1 DEF RecvInstall, Idle, Steps
    <2> QED
      BY <2>1, <2>2 DEF IInv, TypeOK
  <1>4. CallOK' /\ LoadedFrameIsHeld' /\ WaitingFrameIsHeld'
    BY <1>2 DEF IInv, CallOK, LoadedFrameIsHeld, WaitingFrameIsHeld, Waits
  <1>5. \A t \in Sock : Closing(t)' <=> Closing(t)
    BY <1>2 DEF Closing
  <1> QED
    BY <1>2, <1>3, <1>4, <1>5, SameOwnership

(* What the steps of recvfrom leave alone. *)
LEMMA RecvFrame ==
  ASSUME TypeOK, Recv
  PROVE  /\ call.at \notin {"idle", "send", "remove"} /\ call'.at \notin {"send", "remove"}
         /\ UNCHANGED <<allocated, udppcb, fds, pcbVars>>
  <1> USE DEF poolVars, TypeOK, FollowedBy, Emptied
  <1>1. CASE RecvLoad
    BY <1>1 DEF RecvLoad
  <1>2. CASE RecvCheck
    BY <1>2 DEF RecvCheck
  <1>3. CASE RecvCopy
    BY <1>3 DEF RecvCopy
  <1>4. CASE RecvFree
    BY <1>4 DEF RecvFree
  <1>5. CASE RecvClearRecved
    BY <1>5 DEF RecvClearRecved
  <1>6. CASE RecvClearPp
    BY <1>6 DEF RecvClearPp
  <1>7. CASE RecvAddress
    BY <1>7 DEF RecvAddress, Idle
  <1> QED
    BY <1>1, <1>2, <1>3, <1>4, <1>5, <1>6, <1>7 DEF Recv

LEMMA RecvInv ==
  ASSUME IInv, Recv
  PROVE  IInv'
  <1> USE DEF poolVars, pcbVars, pbufVars, FollowedBy, Emptied
  <1>1. /\ call.s \in fds /\ call.s \in Sock /\ call.at # "remove" /\ call'.at # "remove"
        /\ call'.at # "idle" => call'.s = call.s
        /\ call' \in [at : Steps, s : Sock, p : Pbufs \cup {Null},
                      msg : Datagram \cup {Null}, to : Peers \cup {Null}]
        /\ UNCHANGED <<allocated, udppcb, fds, freePcbs, local_port>>
    <2> DEFINE CallType == [at : Steps, s : Sock, p : Pbufs \cup {Null},
                            msg : Datagram \cup {Null}, to : Peers \cup {Null}]
    <2>0. /\ call \in CallType /\ pp \in [Sock -> Pbufs \cup {Null}]
          /\ content \in [Pbufs -> Datagram \cup {Null}]
      BY DEF IInv, TypeOK
    <2>1. CASE RecvLoad
      BY <2>0, <2>1 DEF IInv, CallOK, RecvLoad, Steps
    <2>2. CASE RecvCheck
      BY <2>0, <2>2 DEF IInv, CallOK, RecvCheck, Steps
    <2>3. CASE RecvCopy
      BY <2>0, <2>3 DEF IInv, CallOK, RecvCopy, Steps
    <2>4. CASE RecvFree
      BY <2>0, <2>4 DEF IInv, CallOK, RecvFree, Steps
    <2>5. CASE RecvClearRecved
      BY <2>0, <2>5 DEF IInv, CallOK, RecvClearRecved, Steps
    <2>6. CASE RecvClearPp
      BY <2>0, <2>6 DEF IInv, CallOK, RecvClearPp, Steps
    <2>7. CASE RecvAddress
      <3>1. call'.at = "idle" /\ call' \in CallType
        BY <2>7, SocketPoolAssumption DEF RecvAddress, Idle, Steps, Sock
      <3> QED
        BY <3>1, <2>0, <2>7 DEF IInv, CallOK, RecvAddress
    <2> QED
      BY <2>1, <2>2, <2>3, <2>4, <2>5, <2>6, <2>7 DEF Recv
  <1>2. TypeOK'
    BY <1>1 DEF IInv, TypeOK, CallOK, Recv, RecvLoad, RecvCheck, RecvCopy, RecvFree,
                RecvClearRecved, RecvClearPp, RecvAddress
  <1>3. CallOK' /\ LoadedFrameIsHeld' /\ WaitingFrameIsHeld'
    <2> USE <1>1 DEF CallOK, LoadedFrameIsHeld, WaitingFrameIsHeld, Waits
    <2>1. CASE RecvLoad
      BY <2>1 DEF IInv, RecvLoad, TypeOK
    <2>2. CASE RecvCheck
      BY <2>2 DEF IInv, RecvCheck, TypeOK
    <2>3. CASE RecvCopy
      BY <2>3 DEF IInv, RecvCopy, TypeOK
    <2>4. CASE RecvFree
      BY <2>4 DEF IInv, RecvFree, TypeOK
    <2>5. CASE RecvClearRecved
      BY <2>5 DEF IInv, RecvClearRecved, TypeOK
    <2>6. CASE RecvClearPp
      BY <2>6 DEF IInv, RecvClearPp, TypeOK
    <2>7. CASE RecvAddress
      BY <2>7 DEF IInv, RecvAddress, TypeOK, Idle
    <2> QED
      BY <2>1, <2>2, <2>3, <2>4, <2>5, <2>6, <2>7 DEF Recv
  <1>4. \A t \in Sock : Closing(t)' <=> Closing(t)
    BY <1>1 DEF Closing
  <1> QED
    BY <1>1, <1>2, <1>3, <1>4, SameOwnership

LEMMA CloseMarkFrame ==
  ASSUME IInv, NEW s \in fds, CloseMark(s)
  PROVE  /\ call.at = "idle" /\ call'.at # "send"
         /\ \A t \in Sock : Live(t)' <=> Live(t)
  <1>1. /\ s \in Sock /\ allocated[s] /\ udppcb[s] # Null /\ call = Idle /\ call.at = "idle"
        /\ UNCHANGED udppcb /\ allocated \in [Sock -> BOOLEAN]
    BY DEF IInv, TypeOK, OwnPcb, CloseMark, freeSocket, Idle
  <1>2. CASE s = 0 /\ UNCHANGED <<allocated, call>>
    BY <1>1, <1>2 DEF Live, Closing
  <1>3. CASE /\ s > 0 /\ allocated' = [allocated EXCEPT ![s] = FALSE]
             /\ call' = [Idle EXCEPT !.at = "remove", !.s = s]
    <2>1. call'.at = "remove" /\ call'.s = s
      BY <1>3 DEF Idle
    <2>2. \A t \in Sock : t # s => allocated'[t] = allocated[t]
      BY <1>1, <1>3
    <2> QED
      BY <1>1, <2>1, <2>2 DEF Live, Closing
  <1> QED
    BY <1>2, <1>3 DEF CloseMark, freeSocket

LEMMA CloseMarkInv ==
  ASSUME IInv, NEW s \in fds, CloseMark(s)
  PROVE  IInv'
  <1>1. /\ s \in Sock /\ allocated[s] /\ udppcb[s] # Null /\ call = Idle /\ call.at = "idle"
        /\ fds' = fds \ {s}
        /\ UNCHANGED <<udppcb, pp, freePcbs, local_port, freePbufs>>
    BY DEF IInv, TypeOK, OwnPcb, CloseMark, freeSocket, pcbVars, pbufVars, Idle
  <1>2. TypeOK'
    <2>1. /\ allocated' \in [Sock -> BOOLEAN] /\ fds' \subseteq Sock
          /\ UNCHANGED <<udppcb, hasRecvCallback, recved, pp, freePcbs, local_port, hasRecv,
                         remote_ip, freePbufs, content>>
      BY <1>1 DEF IInv, TypeOK, CloseMark, freeSocket, pcbVars, pbufVars
    <2>2. call' \in [at : Steps, s : Sock, p : Pbufs \cup {Null},
                     msg : Datagram \cup {Null}, to : Peers \cup {Null}]
      <3>1. CASE UNCHANGED call
        BY <3>1 DEF IInv, TypeOK
      <3>2. CASE call' = [Idle EXCEPT !.at = "remove", !.s = s]
        BY <1>1, <3>2 DEF Idle, Steps
      <3> QED
        BY <3>1, <3>2 DEF CloseMark
    <2> QED
      BY <2>1, <2>2 DEF IInv, TypeOK
  <1>3. CallOK' /\ LoadedFrameIsHeld' /\ WaitingFrameIsHeld'
    <2>1. \/ call'.at = "idle" /\ call'.p = Null
          \/ call'.at = "remove" /\ call'.s = s /\ allocated'[s] = FALSE
      <3>1. CASE s = 0 /\ UNCHANGED <<allocated, call>>
        BY <1>1, <3>1 DEF Idle
      <3>2. CASE /\ s > 0 /\ allocated' = [allocated EXCEPT ![s] = FALSE]
                 /\ call' = [Idle EXCEPT !.at = "remove", !.s = s]
        <4>1. call'.at = "remove" /\ call'.s = s
          BY <3>2 DEF Idle
        <4>2. allocated'[s] = FALSE
          BY <1>1, <3>2 DEF IInv, TypeOK
        <4> QED
          BY <4>1, <4>2
      <3> QED
        BY <3>1, <3>2 DEF CloseMark, freeSocket
    <2> QED
      BY <1>1, <2>1 DEF IInv, CallOK, LoadedFrameIsHeld, WaitingFrameIsHeld, Waits
  <1>4. \A t \in Sock : Live(t)' <=> Live(t)
    BY CloseMarkFrame
  <1>5. OwnPcb'
    <2>1. \A t \in fds' : allocated'[t] /\ udppcb'[t] # Null
      BY <1>1 DEF IInv, TypeOK, OwnPcb, CloseMark, freeSocket
    <2> QED
      BY <2>1, <1>1, <1>4 DEF IInv, OwnPcb
  <1>6. LiveBeforeStale'
    BY <1>1, <1>4 DEF IInv, LiveBeforeStale
  <1>7. BoundAreLive'
    BY <1>1, <1>4 DEF IInv, BoundAreLive
  <1> QED
    BY <1>2, <1>3, <1>5, <1>6, <1>7 DEF IInv

LEMMA CloseRemoveInv ==
  ASSUME IInv, CloseRemove
  PROVE  IInv'
  <1> DEFINE s == call.s
             q == udppcb[s]
  <1>1. /\ s \in Sock /\ s \notin fds /\ ~allocated[s] /\ q \in Pcbs /\ q # Null /\ Live(s)
        /\ call.at = "remove" /\ call' = Idle /\ call'.at = "idle"
        /\ local_port' = [local_port EXCEPT ![q] = Null] /\ freePcbs' = freePcbs \cup {q}
        /\ UNCHANGED <<allocated, udppcb, fds, pp, freePbufs>>
    BY SocketPoolAssumption
       DEF IInv, TypeOK, CallOK, CloseRemove, poolVars, pbufVars, Idle, Live, Closing
  <1>2. TypeOK'
    BY <1>1, SocketPoolAssumption
       DEF IInv, TypeOK, CloseRemove, poolVars, pbufVars, Idle, Steps, Sock
  <1>3. CallOK' /\ LoadedFrameIsHeld' /\ WaitingFrameIsHeld'
    BY <1>1 DEF IInv, CallOK, LoadedFrameIsHeld, WaitingFrameIsHeld, Waits, Idle
  <1>4. \A t \in Sock : Live(t)' <=> Live(t) /\ t # s
    BY <1>1 DEF Live, Closing
  <1>5. \A t \in Sock \ {s} : Live(t) => udppcb[t] # q
    BY <1>1 DEF IInv, OwnPcb
  <1>6. OwnPcb'
    <2>1. \A t \in fds' : allocated'[t] /\ udppcb'[t] # Null
      BY <1>1 DEF IInv, OwnPcb
    <2>2. ASSUME NEW t \in Sock, Live(t)'
          PROVE  /\ udppcb'[t] \notin freePcbs'
                 /\ \A u \in Sock \ {t} : Live(u)' => udppcb'[u] # udppcb'[t]
      BY <2>2, <1>1, <1>4, <1>5 DEF IInv, OwnPcb
    <2> QED
      BY <2>1, <2>2 DEF OwnPcb
  <1>7. LiveBeforeStale'
    <2> SUFFICES ASSUME NEW i \in Sock, NEW j \in Sock, ~Live(i)', Live(j)', udppcb'[i] = udppcb'[j]
                 PROVE  j < i
      BY DEF LiveBeforeStale
    <2>1. Live(j) /\ j # s /\ udppcb[i] = udppcb[j]
      BY <1>1, <1>4
    <2>2. i # s
      BY <2>1, <1>5
    <2> QED
      BY <2>1, <2>2, <1>4 DEF IInv, LiveBeforeStale
  <1>8. BoundAreLive'
    <2> SUFFICES ASSUME NEW r \in Pcbs, local_port'[r] # Null
                 PROVE  \E t \in Sock : Live(t)' /\ udppcb'[t] = r
      BY DEF BoundAreLive
    <2>1. r # q /\ local_port[r] # Null
      BY <1>1 DEF IInv, TypeOK
    <2>2. PICK t \in Sock : Live(t) /\ udppcb[t] = r
      BY <2>1 DEF IInv, BoundAreLive
    <2>3. t # s
      BY <2>1, <2>2
    <2> QED
      BY <2>2, <2>3, <1>1, <1>4
  <1> QED
    BY <1>2, <1>3, <1>6, <1>7, <1>8 DEF IInv

LEMMA EthInterruptInv ==
  ASSUME IInv, NEW peer \in Peers, NEW port \in Ports, EthInterrupt(peer, port)
  PROVE  IInv'
  <1>1. PICK b \in freePbufs, q \in Pcbs :
          /\ local_port[q] = port /\ hasRecv[q]
          /\ content' = [content EXCEPT ![b] = [from |-> peer, to |-> port]]
          /\ runAtSocketRecv(q, b, peer)
          /\ UNCHANGED <<allocated, udppcb, hasRecvCallback, fds, freePcbs, local_port, hasRecv, call>>
    BY DEF EthInterrupt
  <1> DEFINE s == SlotOf(q)
  <1>2. s \in Sock /\ Live(s) /\ udppcb[s] = q
    <2>1. local_port[q] # Null
      BY <1>1, SocketPoolAssumption
    <2> QED
      BY <2>1, InterruptSlot
  <1>3. /\ freePbufs' = freePbufs \ {b}
        /\ pp' = [pp EXCEPT ![s] = b] /\ recved' = [recved EXCEPT ![s] = TRUE]
        /\ remote_ip' = [remote_ip EXCEPT ![q] = peer]
    BY <1>1, <1>2 DEF runAtSocketRecv
  <1> HIDE DEF s
  <1>4. b \in Pbufs /\ b # Null /\ [from |-> peer, to |-> port] \in Datagram
    BY SocketPoolAssumption DEF IInv, TypeOK, Datagram
  <1>5. TypeOK'
    BY <1>1, <1>2, <1>3, <1>4 DEF IInv, TypeOK
  <1>6. \A t \in Sock : pp'[t] = IF t = s THEN b ELSE pp[t]
    BY <1>2, <1>3 DEF IInv, TypeOK
  <1>7. CallOK'
    BY <1>1, <1>6 DEF IInv, CallOK, LoadedFrameIsHeld
  <1>8. LoadedFrameIsHeld'
    BY <1>1, <1>3 DEF IInv, LoadedFrameIsHeld
  <1>9. WaitingFrameIsHeld'
    BY <1>1, <1>3, <1>6 DEF IInv, WaitingFrameIsHeld, Waits
  <1>10. \A t \in Sock : Closing(t)' <=> Closing(t)
    BY <1>1 DEF Closing
  <1> QED
    BY <1>1, <1>5, <1>7, <1>8, <1>9, <1>10, SameOwnership

-----------------------------------------------------------------------------
(* In every reachable state, with the interrupt at any point of a call: each *)
(* descriptor has a control block of its own, stale slots come after live    *)
(* ones, the frame being read is held and a waiting frame is held once.      *)
THEOREM Invariant == Spec => []IInv
  <1>1. IInv /\ [Next]_vars => IInv'
    <2> SUFFICES ASSUME IInv, [Next]_vars
                 PROVE  IInv'
      OBVIOUS
    <2>1. CASE Socket
      BY <2>1, SocketInv
    <2>2. ASSUME NEW s \in fds, NEW port \in Ports, Bind(s, port) PROVE IInv'
      BY <2>2, BindInv
    <2>3. ASSUME NEW s \in fds, NEW peer \in Peers, SendSetRemote(s, peer) PROVE IInv'
      BY <2>3, SendSetRemoteInv
    <2>4. CASE SendOut
      BY <2>4, SendOutInv
    <2>5. ASSUME NEW s \in fds, RecvInstall(s) PROVE IInv'
      BY <2>5, RecvInstallInv
    <2>6. CASE Recv
      BY <2>6, RecvInv
    <2>7. ASSUME NEW s \in fds, CloseMark(s) PROVE IInv'
      BY <2>7, CloseMarkInv
    <2>8. CASE CloseRemove
      BY <2>8, CloseRemoveInv
    <2>9. ASSUME NEW peer \in Peers, NEW port \in Ports, EthInterrupt(peer, port) PROVE IInv'
      BY <2>9, EthInterruptInv
    <2>10. CASE UNCHANGED vars
      BY <2>10 DEF vars, poolVars, pcbVars, pbufVars, IInv, TypeOK, CallOK, OwnPcb, LiveBeforeStale,
                  BoundAreLive, LoadedFrameIsHeld, WaitingFrameIsHeld, Waits, Live, Closing
    <2> QED
      BY <2>1, <2>2, <2>3, <2>4, <2>5, <2>6, <2>7, <2>8, <2>9, <2>10 DEF Next, Main
  <1> QED
    BY <1>1, InitInv, PTL DEF Spec

-----------------------------------------------------------------------------
(* Consequences. *)

(* The frame that recvSocketMsg reads is not given back to the pool under it *)
(* by the interrupt, and no packet buffer waits in two slots or in the pool. *)
THEOREM FramesAreHeld == Spec => [](LoadedFrameIsHeld /\ WaitingFrameIsHeld)
  <1>1. IInv => LoadedFrameIsHeld /\ WaitingFrameIsHeld
    BY DEF IInv
  <1> QED
    BY <1>1, Invariant, PTL

(* No two descriptors share a control block, and none of theirs is in lwIP's *)
(* pool, whatever the order of opens and closes.                             *)
THEOREM OwnPcbAlways == Spec => []OwnPcb
  <1>1. IInv => OwnPcb
    BY DEF IInv
  <1> QED
    BY <1>1, Invariant, PTL

(* A frame is freed once, and only after it was copied.                      *)
THEOREM LoadedFrameIsHeldAlways == Spec => []LoadedFrameIsHeld
  <1>1. IInv => LoadedFrameIsHeld
    BY DEF IInv
  <1> QED
    BY <1>1, Invariant, PTL

(* The interrupt's search by control block always ends at the live socket    *)
(* the datagram is for, whatever was opened and closed before.               *)
THEOREM FrameFindsItsSocketAlways == Spec => []FrameFindsItsSocket
  <1>1. IInv => FrameFindsItsSocket
    BY InterruptSlot DEF FrameFindsItsSocket
  <1> QED
    BY <1>1, Invariant, PTL

-----------------------------------------------------------------------------
(* There is a control block for each slot. *)

(* Blocks in use name different live slots, so they are fewer than the slots *)
(* as long as one slot is free.                                              *)
LEMMA FreeSlotFreePcb ==
  ASSUME IInv, PcbsAccounted
  PROVE  PcbForEverySlot
  <1> SUFFICES ASSUME call = Idle, NEW i \in Sock, ~allocated[i], freePcbs = {}
               PROVE  FALSE
    BY DEF PcbForEverySlot
  <1>1. call.at = "idle"
    BY DEF Idle
  <1>2. \A q \in Pcbs : \E s \in Sock \ {i} : udppcb[s] = q
    BY <1>1 DEF PcbsAccounted, Live, Closing
  <1> DEFINE T == Sock \ {i}
             f == [q \in Pcbs |-> CHOOSE s \in T : udppcb[s] = q]
  <1>3. \A q \in Pcbs : f[q] \in T /\ udppcb[f[q]] = q
    BY <1>2
  <1>4. f \in [Pcbs -> T]
    BY <1>3
  <1>5. IsFiniteSet(Sock) /\ Cardinality(Sock) = NSock
    <2>1. NSock - 1 \in Int /\ 0 \in Int /\ NSock \in Nat
      BY SocketPoolAssumption
    <2>2. IsFiniteSet(0 .. NSock - 1) /\ Cardinality(0 .. NSock - 1) = NSock
      <3> DEFINE m == NSock - 1
      <3>1. m \in Int /\ m + 1 = NSock /\ ~(0 > m) /\ m - 0 + 1 = NSock
        BY SocketPoolAssumption
      <3> HIDE DEF m
      <3>2. IsFiniteSet(0 .. m) /\ Cardinality(0 .. m) = NSock
        BY <2>1, <3>1, FS_Interval
      <3> QED
        BY <3>2 DEF m
    <2> QED
      BY <2>2 DEF Sock
  <1>6. IsFiniteSet(T) /\ Cardinality(T) = NSock - 1
    BY <1>5, FS_RemoveElement
  <1>7. IsFiniteSet(Pcbs) /\ Cardinality(T) < Cardinality(Pcbs)
    BY <1>6, SocketPoolAssumption
  <1> HIDE DEF T, f
  <1>8. PICK x \in Pcbs, y \in Pcbs : x # y /\ f[x] = f[y]
    BY <1>4, <1>6, <1>7, FS_PigeonHole
  <1> QED
    BY <1>3, <1>8

LEMMA PcbsAccountedStep ==
  ASSUME IInv, PcbsAccounted, [Next]_vars
  PROVE  PcbsAccounted'
  <1> USE DEF PcbsAccounted
  <1> DEFINE Same == /\ UNCHANGED <<allocated, udppcb, freePcbs>>
                     /\ \A s \in Sock : Closing(s)' <=> Closing(s)
  <1>1. ASSUME Same PROVE PcbsAccounted'
    BY <1>1 DEF Live
  <1>2. CASE Socket
    <2>1. PICK i \in Sock : FirstFree(i) /\ allocated' = [allocated EXCEPT ![i] = TRUE]
                            /\ \/ freePcbs = {}
                               \/ \E q \in freePcbs : /\ freePcbs' = freePcbs \ {q}
                                                      /\ udppcb' = [udppcb EXCEPT ![i] = q]
      BY <1>2 DEF Socket
    <2>2. call = Idle /\ call.at = "idle" /\ call' = call /\ ~allocated[i]
      BY <1>2, <2>1 DEF Socket, Idle, FirstFree
    <2>3. freePcbs # {}
      BY <2>2, FreeSlotFreePcb DEF PcbForEverySlot
    <2>4. PICK q \in freePcbs : freePcbs' = freePcbs \ {q} /\ udppcb' = [udppcb EXCEPT ![i] = q]
      BY <2>1, <2>3
    <2>5. /\ udppcb'[i] = q /\ allocated'[i] = TRUE /\ q # Null
          /\ \A j \in Sock : j # i => udppcb'[j] = udppcb[j] /\ allocated'[j] = allocated[j]
      BY <2>1, <2>4, SocketPoolAssumption DEF IInv, TypeOK
    <2> QED
      BY <2>2, <2>4, <2>5 DEF Live, Closing
  <1>3. ASSUME NEW s \in fds, NEW port \in Ports, Bind(s, port) PROVE Same
    BY <1>3 DEF Bind, poolVars, Closing
  <1>4. ASSUME NEW s \in fds, NEW peer \in Peers, SendSetRemote(s, peer) PROVE Same
    BY <1>4 DEF SendSetRemote, poolVars, Closing, Idle
  <1>5. CASE SendOut
    BY <1>1, <1>5 DEF SendOut, poolVars, Closing, Idle
  <1>6. ASSUME NEW s \in fds, RecvInstall(s) PROVE Same
    BY <1>6 DEF RecvInstall, Closing, Idle
  <1>7. CASE Recv
    <2>1. call.at # "remove" /\ call'.at # "remove" /\ UNCHANGED <<allocated, udppcb, freePcbs>>
      BY <1>7, RecvFrame DEF IInv, pcbVars
    <2> QED
      BY <1>1, <2>1 DEF Closing
  <1>8. ASSUME NEW s \in fds, CloseMark(s) PROVE PcbsAccounted'
    <2>1. /\ call = Idle /\ call.at = "idle" /\ UNCHANGED <<udppcb, freePcbs>>
          /\ s \in Sock /\ allocated[s] /\ udppcb[s] # Null
      BY <1>8 DEF CloseMark, freeSocket, pcbVars, Idle, IInv, TypeOK, OwnPcb
    <2>2. \A t \in Sock : allocated'[t] => allocated[t]
      BY <1>8, <2>1 DEF CloseMark, freeSocket, IInv, TypeOK
    <2>3. \A t \in Sock : Live(t)' <=> Live(t)
      BY <1>8, CloseMarkFrame
    <2> QED
      BY <2>1, <2>2, <2>3
  <1>9. CASE CloseRemove
    <2>1. /\ call.at = "remove" /\ call' = Idle /\ call'.at = "idle"
          /\ freePcbs' = freePcbs \cup {udppcb[call.s]} /\ UNCHANGED <<allocated, udppcb>>
      BY <1>9 DEF CloseRemove, poolVars, Idle
    <2>2. \A s \in Sock : Live(s) /\ s # call.s => Live(s)'
      BY <2>1 DEF Live, Closing
    <2> QED
      BY <2>1, <2>2
  <1>10. ASSUME NEW peer \in Peers, NEW port \in Ports, EthInterrupt(peer, port) PROVE Same
    BY <1>10 DEF EthInterrupt, Closing
  <1>11. CASE UNCHANGED vars
    BY <1>1, <1>11 DEF vars, poolVars, pcbVars, Closing
  <1> QED
    BY <1>1, <1>2, <1>3, <1>4, <1>5, <1>6, <1>7, <1>8, <1>9, <1>10, <1>11 DEF Next, Main

(* allocSocket never meets a failing udp_new, so it never leaves a slot      *)
(* marked without a control block.                                           *)
THEOREM PcbForEverySlotAlways == Spec => []PcbForEverySlot
  <1>1. Init => PcbsAccounted
    BY DEF Init, PcbsAccounted
  <1>2. IInv /\ PcbsAccounted /\ [Next]_vars => PcbsAccounted'
    BY PcbsAccountedStep
  <1>3. IInv /\ PcbsAccounted => PcbForEverySlot
    BY FreeSlotFreePcb
  <1> QED
    BY <1>1, <1>2, <1>3, Invariant, PTL DEF Spec

-----------------------------------------------------------------------------
(* A datagram sent on a socket that never received goes where it was sent:   *)
(* the interrupt writes only to blocks with a receive callback.              *)
THEOREM SentWhereAskedAlways == Spec => []SentWhereAsked
  <1>1. Init => SentWhereAsked
    BY DEF Init, SentWhereAsked, Idle
  <1>2. IInv /\ SentWhereAsked /\ [Next]_vars => SentWhereAsked'
    <2> SUFFICES ASSUME IInv, SentWhereAsked, [Next]_vars, call'.at = "send",
                        ~hasRecv'[udppcb'[call'.s]]
                 PROVE  remote_ip'[udppcb'[call'.s]] = call'.to
      BY DEF SentWhereAsked
    <2>1. ASSUME NEW s \in fds, NEW peer \in Peers, SendSetRemote(s, peer)
          PROVE  remote_ip'[udppcb'[call'.s]] = call'.to
      <3>1. call'.s = s /\ call'.to = peer /\ udppcb' = udppcb
        BY <2>1 DEF SendSetRemote, Idle, poolVars
      <3>2. udppcb[s] \in Pcbs
        BY DEF IInv, TypeOK, OwnPcb
      <3> QED
        BY <2>1, <3>1, <3>2 DEF SendSetRemote, IInv, TypeOK
    <2>2. ASSUME NEW peer \in Peers, NEW port \in Ports, EthInterrupt(peer, port)
          PROVE  remote_ip'[udppcb'[call'.s]] = call'.to
      <3>1. PICK b \in freePbufs, q \in Pcbs :
              local_port[q] = port /\ hasRecv[q] /\ runAtSocketRecv(q, b, peer)
        BY <2>2 DEF EthInterrupt
      <3>2. udppcb[SlotOf(q)] = q
        BY <3>1, InterruptSlot, SocketPoolAssumption
      <3>3. remote_ip' = [remote_ip EXCEPT ![q] = peer]
        BY <3>1, <3>2 DEF runAtSocketRecv
      <3>4. UNCHANGED <<call, hasRecv, udppcb>>
        BY <2>2 DEF EthInterrupt
      <3>5. udppcb[call.s] # q
        BY <3>1, <3>4
      <3> QED
        BY <3>3, <3>4, <3>5 DEF SentWhereAsked, IInv, TypeOK
    <2>3. CASE UNCHANGED vars
      BY <2>3 DEF vars, poolVars, pcbVars, SentWhereAsked
    <2>4. CASE Socket
      BY <2>4 DEF Socket, Idle
    <2>5. ASSUME NEW s \in fds, NEW port \in Ports, Bind(s, port) PROVE FALSE
      BY <2>5 DEF Bind, Idle
    <2>6. CASE SendOut
      BY <2>6 DEF SendOut, Idle
    <2>7. ASSUME NEW s \in fds, RecvInstall(s) PROVE FALSE
      BY <2>7 DEF RecvInstall, Idle
    <2>8. CASE Recv
      BY <2>8, RecvFrame DEF IInv
    <2>9. ASSUME NEW s \in fds, CloseMark(s) PROVE FALSE
      BY <2>9, CloseMarkFrame
    <2>10. CASE CloseRemove
      BY <2>10 DEF CloseRemove, Idle
    <2> QED
      BY <2>1, <2>2, <2>3, <2>4, <2>5, <2>6, <2>7, <2>8, <2>9, <2>10 DEF Next, Main
  <1> QED
    BY <1>1, <1>2, Invariant, PTL DEF Spec

-----------------------------------------------------------------------------
(* A message is for the port of the socket it is read from. *)

(* A block that gets a port had none, so no frame waits in its slot. *)
LEMMA PortsOfWaiting ==
  ASSUME IInv, DatagramsFit, call.at \in {"idle", "send"}, call'.at \in {"idle", "send", "load"},
         NEW q \in Pcbs, local_port[q] = Null \/ local_port' = local_port,
         NEW pt, local_port' = [local_port EXCEPT ![q] = pt] \/ local_port' = local_port,
         UNCHANGED <<allocated, udppcb, pp, content>>
  PROVE  DatagramsFit'
  <1> SUFFICES ASSUME NEW s \in Sock, Waits(s)'
               PROVE  /\ Live(s)' /\ content'[pp'[s]] \in Datagram
                      /\ content'[pp'[s]].to = local_port'[udppcb'[s]]
    BY DEF DatagramsFit
  <1>1. Waits(s)
    BY DEF Waits
  <1>2. Live(s) /\ content[pp[s]] \in Datagram /\ content[pp[s]].to = local_port[udppcb[s]]
    BY <1>1 DEF DatagramsFit
  <1>3. pp[s] \in Pbufs /\ content[pp[s]] \in Datagram /\ udppcb[s] \in Pcbs
    BY <1>1, <1>2 DEF Waits, Live, IInv, TypeOK
  <1>4. local_port[udppcb[s]] # Null
    BY <1>2, <1>3, SocketPoolAssumption DEF Datagram
  <1>5. local_port'[udppcb[s]] = local_port[udppcb[s]]
    BY <1>3, <1>4 DEF IInv, TypeOK
  <1>6. Live(s)'
    BY <1>2 DEF Live, Closing
  <1> QED
    BY <1>2, <1>5, <1>6

LEMMA SocketFit ==
  ASSUME IInv, DatagramsFit, Socket
  PROVE  DatagramsFit'
  <1>1. PICK i \in Sock :
          /\ FirstFree(i)
          /\ allocated' = [allocated EXCEPT ![i] = TRUE]
          /\ \/ udppcb' = [udppcb EXCEPT ![i] = Null] /\ local_port' = local_port
             \/ \E q \in freePcbs : /\ udppcb' = [udppcb EXCEPT ![i] = q]
                                    /\ local_port' = [local_port EXCEPT ![q] = Null]
    BY DEF Socket, pcbVars
  <1>2. call = Idle /\ UNCHANGED <<pp, content, call>>
    BY DEF Socket, pbufVars
  <1> SUFFICES ASSUME NEW s \in Sock, pp[s] # Null
               PROVE  /\ Live(s)' /\ content[pp[s]] \in Datagram
                      /\ content[pp[s]].to = local_port'[udppcb'[s]]
    BY <1>2 DEF DatagramsFit, Waits, Idle
  <1>3. Live(s) /\ content[pp[s]] \in Datagram /\ content[pp[s]].to = local_port[udppcb[s]]
    BY <1>2 DEF DatagramsFit, Waits, Idle
  <1>4. ~Live(i)
    BY <1>1, <1>2 DEF FirstFree, Live, Closing, Idle
  <1>5. udppcb'[s] = udppcb[s] /\ allocated'[s] = allocated[s]
    BY <1>1, <1>3, <1>4 DEF IInv, TypeOK
  <1>6. udppcb[s] \in Pcbs /\ udppcb[s] \notin freePcbs
    BY <1>3 DEF Live, IInv, TypeOK, OwnPcb
  <1>7. local_port'[udppcb[s]] = local_port[udppcb[s]]
    BY <1>1, <1>6 DEF IInv, TypeOK
  <1>8. Live(s)'
    BY <1>2, <1>3, <1>5 DEF Live, Closing
  <1> QED
    BY <1>3, <1>5, <1>7, <1>8

LEMMA InterruptFit ==
  ASSUME IInv, DatagramsFit, NEW peer \in Peers, NEW port \in Ports, EthInterrupt(peer, port)
  PROVE  DatagramsFit'
  <1>1. PICK b \in freePbufs, q \in Pcbs :
          /\ local_port[q] = port /\ hasRecv[q]
          /\ content' = [content EXCEPT ![b] = [from |-> peer, to |-> port]]
          /\ runAtSocketRecv(q, b, peer)
          /\ UNCHANGED <<allocated, udppcb, hasRecvCallback, fds, freePcbs, local_port, hasRecv, call>>
    BY DEF EthInterrupt
  <1> DEFINE s == SlotOf(q)
  <1>2. s \in Sock /\ Live(s) /\ udppcb[s] = q
    BY <1>1, InterruptSlot, SocketPoolAssumption
  <1>3. pp' = [pp EXCEPT ![s] = b]
    BY <1>1 DEF runAtSocketRecv
  <1> HIDE DEF s
  <1>4. /\ b \in Pbufs /\ content'[b] \in Datagram /\ content'[b].to = port
        /\ \A c \in Pbufs \ {b} : content'[c] = content[c]
    <2>1. b \in Pbufs /\ [from |-> peer, to |-> port] \in Datagram
      BY DEF IInv, TypeOK, Datagram
    <2> QED
      BY <1>1, <2>1 DEF IInv, TypeOK
  <1>5. ASSUME NEW t \in Sock, Waits(t)'
        PROVE  /\ Live(t)' /\ content'[pp'[t]] \in Datagram
               /\ content'[pp'[t]].to = local_port'[udppcb'[t]]
    <2>1. Live(t)' <=> Live(t)
      BY <1>1 DEF Live, Closing
    <2>2. CASE t = s
      BY <1>1, <1>2, <1>3, <1>4, <2>1, <2>2 DEF IInv, TypeOK
    <2>3. CASE t # s
      <3>1. pp'[t] = pp[t] /\ Waits(t)
        BY <1>1, <1>3, <1>5, <2>3 DEF IInv, TypeOK, Waits
      <3>2. pp[t] \in Pbufs \ {b}
        BY <3>1 DEF IInv, TypeOK, WaitingFrameIsHeld, Waits
      <3> QED
        BY <1>1, <1>4, <2>1, <3>1, <3>2 DEF DatagramsFit
    <2> QED
      BY <2>2, <2>3
  <1>6. ASSUME call.at \in {"check", "copy"}, call.p # Null
        PROVE  content'[call.p] \in Datagram /\ content'[call.p].to = local_port[udppcb[call.s]]
    <2>1. call.p \in Pbufs \ {b}
      BY <1>6 DEF IInv, TypeOK, LoadedFrameIsHeld
    <2> QED
      BY <1>4, <1>6, <2>1 DEF DatagramsFit
  <1> QED
    BY <1>1, <1>5, <1>6 DEF DatagramsFit

(* recvfrom takes a frame from its slot and copies it: the port is the same. *)
LEMMA RecvFit ==
  ASSUME IInv, DatagramsFit, DeliveredToItsPort, Recv
  PROVE  DatagramsFit' /\ DeliveredToItsPort'
  <1>1. /\ call.at \notin {"idle", "send", "remove"} /\ call'.at \notin {"send", "remove"}
        /\ UNCHANGED <<allocated, udppcb, fds, pcbVars>>
    BY RecvFrame DEF IInv
  <1>2. UNCHANGED <<allocated, udppcb, local_port, content>>
    BY <1>1 DEF pcbVars, Recv, RecvLoad, RecvCheck, RecvCopy, RecvFree, RecvClearRecved,
                RecvClearPp, RecvAddress, pbufVars
  <1>3. call.s \in Sock
    BY DEF IInv, TypeOK
  <1>4. \A t \in Sock : Live(t)' <=> Live(t)
    BY <1>1, <1>2 DEF Live, Closing
  <1>5. ASSUME \A t \in Sock : Waits(t)' => Waits(t) /\ pp'[t] = pp[t]
        PROVE  \A t \in Sock : Waits(t)' => /\ Live(t)' /\ content'[pp'[t]] \in Datagram
                                            /\ content'[pp'[t]].to = local_port'[udppcb'[t]]
    BY <1>2, <1>4, <1>5 DEF DatagramsFit
  <1> USE DEF poolVars, FollowedBy
  <1>6. CASE RecvLoad
    <2>1. call'.at = "check" /\ call'.p = pp[call.s] /\ call'.s = call.s /\ call'.msg = call.msg
          /\ pp' = pp /\ call.at = "load"
      BY <1>6 DEF RecvLoad, IInv, TypeOK
    <2>2. \A t \in Sock : Waits(t)' => Waits(t) /\ pp'[t] = pp[t]
      BY <2>1 DEF Waits
    <2>3. pp[call.s] # Null => Waits(call.s)
      BY <2>1 DEF Waits
    <2> QED
      BY <1>2, <1>3, <1>5, <2>1, <2>2, <2>3 DEF DatagramsFit, DeliveredToItsPort
  <1>7. CASE RecvCheck
    <2>1. call'.at \in {"copy", "address"} /\ call.at = "check" /\ pp' = pp
          /\ call'.p = call.p /\ call'.s = call.s /\ call'.msg = call.msg
      BY <1>7 DEF RecvCheck, IInv, TypeOK
    <2>2. \A t \in Sock : Waits(t)' => Waits(t) /\ pp'[t] = pp[t]
      BY <2>1 DEF Waits
    <2> QED
      BY <1>2, <1>5, <2>1, <2>2 DEF DatagramsFit, DeliveredToItsPort
  <1>8. CASE RecvCopy
    <2>1. call'.at = "free" /\ call.at = "copy" /\ pp' = pp /\ call.p # Null
          /\ call'.s = call.s /\ call'.msg = content[call.p]
      BY <1>8 DEF RecvCopy, IInv, TypeOK, CallOK
    <2>2. \A t \in Sock : Waits(t)' => Waits(t) /\ pp'[t] = pp[t]
      BY <2>1 DEF Waits
    <2> QED
      BY <1>2, <1>5, <2>1, <2>2 DEF DatagramsFit, DeliveredToItsPort
  <1>9. CASE RecvFree \/ RecvClearRecved
    <2>1. call'.at \in {"clear_recved", "clear_pp"} /\ call.at \in {"free", "clear_recved"}
          /\ pp' = pp /\ call'.s = call.s /\ call'.msg = call.msg
      BY <1>9 DEF RecvFree, RecvClearRecved, IInv, TypeOK
    <2>2. \A t \in Sock : Waits(t)' => Waits(t) /\ pp'[t] = pp[t]
      BY <2>1 DEF Waits
    <2> QED
      BY <1>2, <1>5, <2>1, <2>2 DEF DatagramsFit, DeliveredToItsPort
  <1>10. CASE RecvClearPp
    <2>1. call'.at = "address" /\ call.at = "clear_pp" /\ pp' = [pp EXCEPT ![call.s] = Null]
          /\ call'.s = call.s /\ call'.msg = call.msg
      BY <1>10 DEF RecvClearPp, Emptied, IInv, TypeOK
    <2>2. \A t \in Sock : Waits(t)' => Waits(t) /\ pp'[t] = pp[t]
      BY <2>1 DEF Waits, IInv, TypeOK
    <2> QED
      BY <1>2, <1>5, <2>1, <2>2 DEF DatagramsFit, DeliveredToItsPort
  <1>11. CASE RecvAddress
    <2>1. call'.at = "idle" /\ call.at = "address" /\ pp' = pp /\ call'.msg = Null
      BY <1>11 DEF RecvAddress, Idle
    <2>2. \A t \in Sock : Waits(t)' => Waits(t) /\ pp'[t] = pp[t]
      BY <2>1 DEF Waits
    <2> QED
      BY <1>2, <1>5, <2>1, <2>2 DEF DatagramsFit, DeliveredToItsPort
  <1> QED
    BY <1>6, <1>7, <1>8, <1>9, <1>10, <1>11 DEF Recv

(* As long as no socket is closed, what recvfrom copies out was sent to the  *)
(* port its socket is bound to: a slot's frame never outlives its binding.   *)
THEOREM DeliveredToItsPortAlways ==
  ASSUME "close" \notin Calls
  PROVE  Spec => []DeliveredToItsPort
  <1>1. Init => DatagramsFit /\ DeliveredToItsPort
    BY DEF Init, DatagramsFit, DeliveredToItsPort, Waits, Idle
  <1>2. IInv /\ DatagramsFit /\ DeliveredToItsPort /\ [Next]_vars
          => DatagramsFit' /\ DeliveredToItsPort'
    <2> SUFFICES ASSUME IInv, DatagramsFit, DeliveredToItsPort, [Next]_vars
                 PROVE  DatagramsFit' /\ DeliveredToItsPort'
      OBVIOUS
    <2>1. CASE Socket
      <3>1. call' = Idle
        BY <2>1 DEF Socket
      <3> QED
        BY <2>1, <3>1, SocketFit DEF DeliveredToItsPort, Idle
    <2>2. ASSUME NEW s \in fds, NEW port \in Ports, Bind(s, port)
          PROVE  DatagramsFit' /\ DeliveredToItsPort'
      <3>1. udppcb[s] \in Pcbs /\ local_port[udppcb[s]] = Null
        BY <2>2 DEF Bind, IInv, TypeOK, OwnPcb
      <3>2. PICK pt \in Ports \cup {Null} : local_port' = [local_port EXCEPT ![udppcb[s]] = pt]
        BY <2>2, <3>1, BoundIs DEF Bind, IInv
      <3>3. call = Idle /\ call' = Idle /\ UNCHANGED <<allocated, udppcb, pp, content>>
        BY <2>2 DEF Bind, poolVars, pbufVars
      <3>4. DatagramsFit'
        BY <3>1, <3>2, <3>3, PortsOfWaiting DEF Idle
      <3> QED
        BY <3>3, <3>4 DEF DeliveredToItsPort, Idle
    <2>3. ASSUME NEW s \in fds, NEW peer \in Peers, SendSetRemote(s, peer)
          PROVE  DatagramsFit' /\ DeliveredToItsPort'
      <3>1. udppcb[s] \in Pcbs
        BY DEF IInv, TypeOK, OwnPcb
      <3>2. call.at = "idle" /\ call'.at = "send" /\ call'.msg = Null
            /\ UNCHANGED <<allocated, udppcb, pp, content, local_port>>
        BY <2>3 DEF SendSetRemote, poolVars, pbufVars, Idle
      <3>3. DatagramsFit'
        BY <3>1, <3>2, PortsOfWaiting
      <3> QED
        BY <3>2, <3>3 DEF DeliveredToItsPort
    <2>4. CASE SendOut
      <3>1. udppcb[call.s] \in Pcbs
        BY <2>4 DEF SendOut, IInv, TypeOK, OwnPcb, CallOK
      <3>2. call.at = "send" /\ call' = Idle /\ UNCHANGED <<allocated, udppcb, pp, content>>
        BY <2>4 DEF SendOut, poolVars, pbufVars
      <3>3. \/ local_port' = local_port
            \/ /\ local_port[udppcb[call.s]] = Null
               /\ \E pt \in Ports \cup {Null} : local_port' = [local_port EXCEPT ![udppcb[call.s]] = pt]
        BY <2>4, <3>1, BoundIs DEF SendOut, IInv
      <3>4. DatagramsFit'
        BY <3>1, <3>2, <3>3, PortsOfWaiting DEF Idle
      <3> QED
        BY <3>2, <3>4 DEF DeliveredToItsPort, Idle
    <2>5. ASSUME NEW s \in fds, RecvInstall(s)
          PROVE  DatagramsFit' /\ DeliveredToItsPort'
      <3>1. udppcb[s] \in Pcbs
        BY DEF IInv, TypeOK, OwnPcb
      <3>2. call.at = "idle" /\ call'.at = "load" /\ call'.msg = Null
            /\ UNCHANGED <<allocated, udppcb, pp, content, local_port>>
        BY <2>5 DEF RecvInstall, pbufVars, Idle
      <3>3. DatagramsFit'
        BY <3>1, <3>2, PortsOfWaiting
      <3> QED
        BY <3>2, <3>3 DEF DeliveredToItsPort
    <2>6. CASE Recv
      BY <2>6, RecvFit
    <2>7. ASSUME NEW s \in fds, CloseMark(s) PROVE FALSE
      BY <2>7 DEF CloseMark
    <2>8. ASSUME CloseRemove PROVE FALSE
      BY <2>8 DEF CloseRemove, DatagramsFit
    <2>9. ASSUME NEW peer \in Peers, NEW port \in Ports, EthInterrupt(peer, port)
          PROVE  DatagramsFit' /\ DeliveredToItsPort'
      <3>1. UNCHANGED <<call, udppcb, local_port>>
        BY <2>9 DEF EthInterrupt
      <3> QED
        BY <2>9, <3>1, InterruptFit DEF DeliveredToItsPort
    <2>10. CASE UNCHANGED vars
      BY <2>10 DEF vars, poolVars, pcbVars, pbufVars, DatagramsFit, DeliveredToItsPort, Waits,
                   Live, Closing
    <2> QED
      BY <2>1, <2>2, <2>3, <2>4, <2>5, <2>6, <2>7, <2>8, <2>9, <2>10 DEF Next, Main
  <1> QED
    BY <1>1, <1>2, Invariant, PTL DEF Spec
-----------------------------------------------------------------------------
(* The pool implements Mailboxes.  Each step of the abstract specification   *)
(* is first put in terms of one slot at a time.                              *)

SamePorts == \A t \in Sock : PortOf(t)' = PortOf(t)
SameMail  == \A t \in Sock : MailOf(t)' = MailOf(t)
SameTaken == \A t \in Sock : TakenBy(t)' = TakenBy(t)
SameGot   == \A t \in Sock : GotBy(t)' = GotBy(t)

LEMMA BoxStutter ==
  ASSUME SamePorts, SameMail, SameTaken, SameGot
  PROVE  UNCHANGED Boxes!vars
  BY DEF Boxes!vars, SamePorts, SameMail, SameTaken, SameGot

LEMMA BoxBind ==
  ASSUME NEW s \in Sock, NEW p \in Ports, PortOf(s) = Null, \A t \in Sock : PortOf(t) # p,
         PortOf(s)' = p, \A t \in Sock \ {s} : PortOf(t)' = PortOf(t),
         SameMail, SameTaken, SameGot
  PROVE  Boxes!Next
  <1>1. Boxes!Bind(s, p)
    BY DEF Boxes!Bind, SameMail, SameTaken, SameGot
  <1> QED
    BY <1>1 DEF Boxes!Next

LEMMA BoxClose ==
  ASSUME NEW s \in Sock, PortOf(s)' = Null, \A t \in Sock \ {s} : PortOf(t)' = PortOf(t),
         SameMail, SameTaken, SameGot
  PROVE  Boxes!Next
  <1>1. Boxes!Close(s)
    BY DEF Boxes!Close, SameMail, SameTaken, SameGot
  <1> QED
    BY <1>1 DEF Boxes!Next

LEMMA BoxArrive ==
  ASSUME NEW s \in Sock, NEW d \in Datagram, PortOf(s) = d.to, MailOf(s)' = d,
         \A t \in Sock \ {s} : MailOf(t)' = MailOf(t),
         SamePorts, SameTaken, SameGot
  PROVE  Boxes!Next
  <1>1. Boxes!Arrive(s, d)
    BY DEF Boxes!Arrive, SamePorts, SameTaken, SameGot
  <1> QED
    BY <1>1 DEF Boxes!Next

LEMMA BoxTake ==
  ASSUME NEW s \in Sock, MailOf(s) # Null, TakenBy(s) = Null,
         TakenBy(s)' = MailOf(s), \A t \in Sock \ {s} : TakenBy(t)' = TakenBy(t),
         MailOf(s)' = Null, \A t \in Sock \ {s} : MailOf(t)' = MailOf(t),
         SamePorts, SameGot
  PROVE  Boxes!Next
  <1>1. Boxes!Take(s)
    BY DEF Boxes!Take, SamePorts, SameGot
  <1> QED
    BY <1>1 DEF Boxes!Next

LEMMA BoxLose ==
  ASSUME NEW s \in Sock, TakenBy(s) # Null,
         MailOf(s)' = Null, \A t \in Sock \ {s} : MailOf(t)' = MailOf(t),
         SamePorts, SameTaken, SameGot
  PROVE  Boxes!Next
  <1>1. Boxes!Lose(s)
    BY DEF Boxes!Lose, SamePorts, SameTaken, SameGot
  <1> QED
    BY <1>1 DEF Boxes!Next

LEMMA BoxHandOver ==
  ASSUME NEW s \in Sock, TakenBy(s) # Null, GotBy(s) = Null,
         GotBy(s)' = TakenBy(s), \A t \in Sock \ {s} : GotBy(t)' = GotBy(t),
         SamePorts, SameMail, SameTaken
  PROVE  Boxes!Next
  <1>1. Boxes!HandOver(s)
    BY DEF Boxes!HandOver, SamePorts, SameMail, SameTaken
  <1> QED
    BY <1>1 DEF Boxes!Next

LEMMA BoxReturn ==
  ASSUME NEW s \in Sock, GotBy(s) # Null,
         GotBy(s)' = Null, \A t \in Sock \ {s} : GotBy(t)' = GotBy(t),
         TakenBy(s)' = Null, \A t \in Sock \ {s} : TakenBy(t)' = TakenBy(t),
         SamePorts, SameMail
  PROVE  Boxes!Next
  <1>1. Boxes!Return(s)
    BY DEF Boxes!Return, SamePorts, SameMail
  <1> QED
    BY <1>1 DEF Boxes!Next

(* Outside recvfrom nothing happens to the frames. *)
Quiet ==
  /\ UNCHANGED <<recved, pp, freePbufs, content>>
  /\ call.at \in {"idle", "send", "remove"} /\ call'.at \in {"idle", "send", "load", "remove"}
  /\ call'.msg = Null

LEMMA QuietBoxes ==
  ASSUME MailInv, Quiet
  PROVE  MailInv' /\ SameMail /\ SameTaken /\ SameGot
  <1>1. MailInv'
    BY DEF MailInv, Quiet
  <1>2. call.msg = Null
    BY DEF MailInv, Quiet
  <1>3. SameGot
    BY <1>2 DEF Quiet, SameGot, GotBy
  <1>4. SameTaken
    BY <1>3 DEF Quiet, SameTaken, SameGot, TakenBy
  <1>5. SameMail
    BY DEF Quiet, SameMail, MailOf, Waits, BeingRead
  <1> QED
    BY <1>1, <1>3, <1>4, <1>5
LEMMA LivePorts ==
  ASSUME UNCHANGED <<udppcb, local_port>>, \A t \in Sock : Live(t)' <=> Live(t)
  PROVE  SamePorts
  BY DEF SamePorts, PortOf

LEMMA BoundBoxes ==
  ASSUME IInv, NEW s \in Sock, Live(s), NEW p \in Ports, local_port[udppcb[s]] = Null,
         local_port' = Bound(udppcb[s], p), UNCHANGED udppcb,
         \A t \in Sock : Live(t)' <=> Live(t),
         SameMail, SameTaken, SameGot
  PROVE  Boxes!Next \/ UNCHANGED Boxes!vars
  <1> DEFINE q == udppcb[s]
  <1>1. q \in Pcbs /\ p # Null /\ \A t \in Sock : Live(t) => udppcb[t] \in Pcbs
    BY SocketPoolAssumption DEF IInv, TypeOK, Live
  <1>2. CASE PortTaken(q, p)
    <2>1. SamePorts
      BY <1>2, LivePorts DEF Bound
    <2> QED
      BY <2>1, BoxStutter
  <1>3. CASE ~PortTaken(q, p)
    <2>1. local_port' = [local_port EXCEPT ![q] = p]
      BY <1>3 DEF Bound
    <2>2. \A t \in Sock \ {s} : Live(t) => udppcb[t] # q
      BY DEF IInv, OwnPcb
    <2>3. \A t \in Sock : PortOf(t) # p
      BY <1>1, <1>3, <2>2 DEF PortOf, PortTaken
    <2>4. PortOf(s) = Null /\ PortOf(s)' = p
      BY <1>1, <2>1 DEF PortOf, IInv, TypeOK
    <2>5. \A t \in Sock \ {s} : PortOf(t)' = PortOf(t)
      BY <1>1, <2>1, <2>2 DEF PortOf, IInv, TypeOK
    <2> QED
      BY <2>3, <2>4, <2>5, BoxBind
  <1> QED
    BY <1>2, <1>3

LEMMA SocketBoxes ==
  ASSUME IInv, MailInv, Socket
  PROVE  MailInv' /\ UNCHANGED Boxes!vars
  <1>1. PICK i \in Sock :
          /\ FirstFree(i)
          /\ allocated' = [allocated EXCEPT ![i] = TRUE]
          /\ \/ udppcb' = [udppcb EXCEPT ![i] = Null] /\ local_port' = local_port
             \/ \E q \in freePcbs : /\ udppcb' = [udppcb EXCEPT ![i] = q]
                                    /\ local_port' = [local_port EXCEPT ![q] = Null]
    BY DEF Socket, pcbVars
  <1>2. call = Idle /\ UNCHANGED <<recved, pp, freePbufs, content, call>>
    BY DEF Socket, pbufVars
  <1>3. Quiet
    BY <1>2 DEF Quiet, Idle
  <1>4. ~Live(i) /\ call.at # "remove"
    BY <1>1, <1>2 DEF FirstFree, Live, Closing, Idle
  <1>5. \A t \in Sock \ {i} : udppcb'[t] = udppcb[t] /\ (Live(t)' <=> Live(t))
    BY <1>1, <1>2 DEF IInv, TypeOK, Live, Closing
  <1>6. PortOf(i)' = PortOf(i)
    <2>1. PortOf(i) = Null
      BY <1>4 DEF PortOf
    <2>2. Live(i)' => local_port'[udppcb'[i]] = Null
      <3>1. CASE udppcb' = [udppcb EXCEPT ![i] = Null]
        BY <3>1 DEF IInv, TypeOK, Live
      <3>2. ASSUME NEW q \in freePcbs, udppcb' = [udppcb EXCEPT ![i] = q],
                   local_port' = [local_port EXCEPT ![q] = Null]
            PROVE  local_port'[udppcb'[i]] = Null
        BY <3>2 DEF IInv, TypeOK
      <3> QED
        BY <1>1, <3>1, <3>2
    <2> QED
      BY <2>1, <2>2 DEF PortOf
  <1>7. ASSUME NEW t \in Sock \ {i} PROVE PortOf(t)' = PortOf(t)
    <2>1. Live(t) => udppcb[t] \in Pcbs /\ udppcb[t] \notin freePcbs
      BY DEF IInv, TypeOK, OwnPcb, Live
    <2>2. Live(t) => local_port'[udppcb[t]] = local_port[udppcb[t]]
      BY <1>1, <2>1 DEF IInv, TypeOK
    <2> QED
      BY <1>5, <2>2 DEF PortOf
  <1>8. SamePorts
    BY <1>6, <1>7 DEF SamePorts
  <1> QED
    BY <1>3, <1>8, QuietBoxes, BoxStutter

LEMMA LiveFd ==
  ASSUME IInv, NEW s \in fds
  PROVE  s \in Sock /\ Live(s) /\ udppcb[s] \in Pcbs
  BY DEF IInv, TypeOK, OwnPcb, Live

LEMMA BindBoxes ==
  ASSUME IInv, MailInv, NEW s \in fds, NEW p \in Ports, Bind(s, p)
  PROVE  MailInv' /\ (Boxes!Next \/ UNCHANGED Boxes!vars)
  <1>1. /\ call = Idle /\ UNCHANGED <<allocated, udppcb, recved, pp, freePbufs, content, call>>
        /\ local_port[udppcb[s]] = Null /\ local_port' = Bound(udppcb[s], p)
    BY DEF Bind, poolVars, pbufVars
  <1>2. Quiet
    BY <1>1 DEF Quiet, Idle
  <1>3. \A t \in Sock : Live(t)' <=> Live(t)
    BY <1>1 DEF Live, Closing
  <1> QED
    BY <1>1, <1>2, <1>3, LiveFd, QuietBoxes, BoundBoxes

LEMMA SendSetRemoteBoxes ==
  ASSUME MailInv, NEW s \in fds, NEW peer \in Peers, SendSetRemote(s, peer)
  PROVE  MailInv' /\ UNCHANGED Boxes!vars
  <1>1. /\ call.at = "idle" /\ call'.at = "send" /\ call'.msg = Null
        /\ UNCHANGED <<allocated, udppcb, recved, pp, freePbufs, content, local_port>>
    BY DEF SendSetRemote, poolVars, pbufVars, Idle
  <1>2. Quiet
    BY <1>1 DEF Quiet
  <1>3. \A t \in Sock : Live(t)' <=> Live(t)
    BY <1>1 DEF Live, Closing
  <1> QED
    BY <1>1, <1>2, <1>3, LivePorts, QuietBoxes, BoxStutter

LEMMA SendOutBoxes ==
  ASSUME IInv, MailInv, SendOut
  PROVE  MailInv' /\ (Boxes!Next \/ UNCHANGED Boxes!vars)
  <1>1. /\ call.at = "send" /\ call' = Idle
        /\ UNCHANGED <<allocated, udppcb, recved, pp, freePbufs, content>>
    BY DEF SendOut, poolVars, pbufVars
  <1>2. Quiet
    BY <1>1 DEF Quiet, Idle
  <1>3. \A t \in Sock : Live(t)' <=> Live(t)
    BY <1>1 DEF Live, Closing, Idle
  <1>4. call.s \in Sock /\ Live(call.s)
    BY <1>1, LiveFd DEF IInv, CallOK
  <1>5. CASE UNCHANGED local_port
    BY <1>1, <1>2, <1>3, <1>5, LivePorts, QuietBoxes, BoxStutter
  <1>6. CASE /\ local_port[udppcb[call.s]] = Null
             /\ \E p \in Ports : local_port' = Bound(udppcb[call.s], p)
    BY <1>1, <1>2, <1>3, <1>4, <1>6, QuietBoxes, BoundBoxes
  <1> QED
    BY <1>5, <1>6 DEF SendOut

LEMMA RecvInstallBoxes ==
  ASSUME MailInv, NEW s \in fds, RecvInstall(s)
  PROVE  MailInv' /\ UNCHANGED Boxes!vars
  <1>1. /\ call.at = "idle" /\ call'.at = "load" /\ call'.msg = Null
        /\ UNCHANGED <<allocated, udppcb, recved, pp, freePbufs, content, local_port>>
    BY DEF RecvInstall, pbufVars, Idle
  <1>2. Quiet
    BY <1>1 DEF Quiet
  <1>3. \A t \in Sock : Live(t)' <=> Live(t)
    BY <1>1 DEF Live, Closing
  <1> QED
    BY <1>1, <1>2, <1>3, LivePorts, QuietBoxes, BoxStutter

LEMMA CloseMarkBoxes ==
  ASSUME IInv, MailInv, NEW s \in fds, CloseMark(s)
  PROVE  MailInv' /\ UNCHANGED Boxes!vars
  <1>1. /\ call = Idle /\ UNCHANGED <<udppcb, recved, pp, freePbufs, content, local_port>>
        /\ call' = Idle \/ call' = [Idle EXCEPT !.at = "remove", !.s = s]
    BY DEF CloseMark, pcbVars, pbufVars
  <1>2. call.at = "idle" /\ call'.at \in {"idle", "remove"} /\ call'.msg = Null
    <2>1. CASE call' = Idle
      BY <1>1, <2>1 DEF Idle
    <2>2. CASE call' = [Idle EXCEPT !.at = "remove", !.s = s]
      BY <1>1, <2>2 DEF Idle
    <2> QED
      BY <1>1, <2>1, <2>2
  <1>3. Quiet
    BY <1>1, <1>2 DEF Quiet
  <1> QED
    BY <1>1, <1>3, CloseMarkFrame, LivePorts, QuietBoxes, BoxStutter

LEMMA CloseRemoveBoxes ==
  ASSUME IInv, MailInv, CloseRemove
  PROVE  MailInv' /\ Boxes!Next
  <1>0. PICK s \in Sock : s = call.s
    BY DEF IInv, TypeOK
  <1>1. /\ s \in Sock /\ ~allocated[s] /\ Live(s) /\ udppcb[s] \in Pcbs
        /\ call.at = "remove" /\ call' = Idle
        /\ local_port' = [local_port EXCEPT ![udppcb[s]] = Null]
        /\ UNCHANGED <<allocated, udppcb, recved, pp, freePbufs, content>>
    BY <1>0 DEF IInv, TypeOK, CallOK, CloseRemove, poolVars, pbufVars, Live, Closing
  <1>2. Quiet
    BY <1>1 DEF Quiet, Idle
  <1>3. \A t \in Sock : Live(t)' <=> Live(t) /\ t # s
    BY <1>0, <1>1 DEF Live, Closing, Idle
  <1>4. PortOf(s)' = Null
    BY <1>3 DEF PortOf
  <1>5. ASSUME NEW t \in Sock \ {s} PROVE PortOf(t)' = PortOf(t)
    <2>1. Live(t) => udppcb[t] \in Pcbs /\ udppcb[t] # udppcb[s]
      BY <1>1 DEF IInv, TypeOK, OwnPcb, Live
    <2> QED
      BY <1>1, <1>3, <2>1 DEF PortOf, IInv, TypeOK
  <1> QED
    BY <1>1, <1>2, <1>4, <1>5, QuietBoxes, BoxClose
(* The steps of recvfrom. *)

LEMMA RecvPorts ==
  ASSUME IInv, Recv
  PROVE  SamePorts
  <1>1. /\ call.at # "remove" /\ call'.at # "remove"
        /\ UNCHANGED <<allocated, udppcb, local_port>>
    BY RecvFrame DEF IInv, pcbVars
  <1>2. \A t \in Sock : Live(t)' <=> Live(t)
    BY <1>1 DEF Live, Closing
  <1> QED
    BY <1>1, <1>2, LivePorts

(* A frame that waits is a datagram that is not in the pool. *)
LEMMA WaitingMail ==
  ASSUME IInv, MailInv, NEW s \in Sock, Waits(s)
  PROVE  /\ pp[s] \in Pbufs \ freePbufs /\ content[pp[s]] \in Datagram
         /\ MailOf(s) = IF BeingRead(s) THEN Null ELSE content[pp[s]]
  <1>1. pp[s] \in Pbufs \ freePbufs
    BY DEF IInv, TypeOK, WaitingFrameIsHeld, Waits
  <1> QED
    BY <1>1 DEF MailInv, MailOf

LEMMA LoadBoxes ==
  ASSUME IInv, MailInv, RecvLoad
  PROVE  MailInv' /\ (Boxes!Next \/ UNCHANGED Boxes!vars)
  <1>0. PICK s \in Sock : s = call.s
    BY DEF IInv, TypeOK
  <1>1. /\ call.at = "load" /\ call'.at = "check" /\ call'.s = s /\ call'.p = pp[s]
        /\ call.msg = Null /\ call'.msg = Null
        /\ UNCHANGED <<recved, pp, freePbufs, content>>
    BY <1>0 DEF RecvLoad, IInv, TypeOK, MailInv, poolVars, pbufVars
  <1>2. MailInv'
    BY <1>1 DEF MailInv
  <1>3. SamePorts
    BY RecvPorts DEF Recv
  <1>4. SameGot
    BY <1>1 DEF SameGot, GotBy
  <1>5. \A t \in Sock : /\ Waits(t) <=> pp[t] # Null
                        /\ Waits(t)' <=> pp[t] # Null
                        /\ ~BeingRead(t)
                        /\ BeingRead(t)' <=> t = s
    BY <1>1 DEF Waits, BeingRead
  <1>6. \A t \in Sock \ {s} : MailOf(t)' = MailOf(t) /\ TakenBy(t)' = TakenBy(t)
    BY <1>1, <1>5 DEF MailOf, TakenBy, GotBy
  <1>7. MailOf(s)' = Null /\ TakenBy(s) = Null
    BY <1>1, <1>5 DEF MailOf, TakenBy, GotBy
  <1>8. CASE pp[s] = Null
    <2>1. MailOf(s) = Null /\ TakenBy(s)' = Null
      BY <1>1, <1>5, <1>8 DEF MailOf, TakenBy, GotBy
    <2>2. SameMail /\ SameTaken
      BY <1>6, <1>7, <2>1 DEF SameMail, SameTaken
    <2> QED
      BY <1>2, <1>3, <1>4, <2>2, BoxStutter
  <1>9. CASE pp[s] # Null
    <2>1. MailOf(s) = content[pp[s]] /\ MailOf(s) # Null
      BY <1>5, <1>9, WaitingMail, SocketPoolAssumption
    <2>2. TakenBy(s)' = MailOf(s)
      BY <1>1, <1>9, <2>1 DEF TakenBy
    <2> QED
      BY <1>2, <1>3, <1>4, <1>6, <1>7, <2>1, <2>2, BoxTake
  <1> QED
    BY <1>8, <1>9

(* A call that has loaded a frame finds recved set: it will hand it over. *)
LEMMA CheckBoxes ==
  ASSUME IInv, MailInv, RecvCheck
  PROVE  MailInv' /\ UNCHANGED Boxes!vars
  <1>0. PICK s \in Sock : s = call.s
    BY DEF IInv, TypeOK
  <1>1. /\ call.at = "check" /\ call'.at = IF recved[s] /\ call.p # Null THEN "copy" ELSE "address"
        /\ call'.s = s /\ call'.p = call.p /\ call.msg = Null /\ call'.msg = Null
        /\ UNCHANGED <<recved, pp, freePbufs, content>>
    BY <1>0 DEF RecvCheck, IInv, TypeOK, MailInv, poolVars, pbufVars
  <1>2. call.p # Null => recved[s]
    BY <1>0, <1>1 DEF MailInv
  <1>3. MailInv'
    BY <1>1 DEF MailInv
  <1>4. SamePorts
    BY RecvPorts DEF Recv
  <1>5. SameGot
    BY <1>1 DEF SameGot, GotBy
  <1>6. SameTaken
    BY <1>0, <1>1, <1>2, <1>5 DEF SameTaken, SameGot, TakenBy
  <1>7. SameMail
    BY <1>0, <1>1, <1>2 DEF SameMail, MailOf, Waits, BeingRead
  <1> QED
    BY <1>3, <1>4, <1>5, <1>6, <1>7, BoxStutter

LEMMA CopyBoxes ==
  ASSUME IInv, MailInv, RecvCopy
  PROVE  MailInv' /\ Boxes!Next
  <1>0. PICK s \in Sock : s = call.s
    BY DEF IInv, TypeOK
  <1>1. /\ call.at = "copy" /\ call'.at = "free" /\ call'.s = s /\ call'.p = call.p
        /\ call.msg = Null /\ call'.msg = content[call.p] /\ call.p # Null
        /\ UNCHANGED <<recved, pp, freePbufs, content>>
    BY <1>0 DEF RecvCopy, IInv, TypeOK, CallOK, MailInv, poolVars, pbufVars
  <1>2. content[call.p] # Null
    <2>1. call.p \in Pbufs \ freePbufs
      BY <1>1 DEF IInv, TypeOK, LoadedFrameIsHeld
    <2> QED
      BY <2>1, SocketPoolAssumption DEF MailInv
  <1>3. MailInv'
    BY <1>1, <1>2 DEF MailInv
  <1>4. SamePorts
    BY RecvPorts DEF Recv
  <1>5. SameMail
    BY <1>0, <1>1 DEF SameMail, MailOf, Waits, BeingRead
  <1>6. SameTaken
    BY <1>0, <1>1 DEF SameTaken, TakenBy, GotBy
  <1>7. TakenBy(s) = content[call.p] /\ GotBy(s) = Null /\ GotBy(s)' = content[call.p]
    BY <1>0, <1>1 DEF TakenBy, GotBy
  <1>8. \A t \in Sock \ {s} : GotBy(t)' = GotBy(t)
    BY <1>0, <1>1 DEF GotBy
  <1> QED
    BY <1>2, <1>3, <1>4, <1>5, <1>6, <1>7, <1>8, BoxHandOver

(* What came in since the frame was loaded is given up with it. *)
LEMMA FreeBoxes ==
  ASSUME IInv, MailInv, RecvFree
  PROVE  MailInv' /\ Boxes!Next
  <1>0. PICK s \in Sock : s = call.s
    BY DEF IInv, TypeOK
  <1>1. /\ call.at = "free" /\ call'.at = "clear_recved" /\ call'.s = s /\ call'.p = call.p
        /\ call.msg # Null /\ call'.msg = call.msg /\ call.p # Null
        /\ freePbufs' = freePbufs \cup {call.p}
        /\ UNCHANGED <<recved, pp, content>>
    BY <1>0 DEF RecvFree, FollowedBy, IInv, TypeOK, CallOK, MailInv, poolVars
  <1>2. MailInv'
    BY <1>1 DEF MailInv
  <1>3. SamePorts
    BY RecvPorts DEF Recv
  <1>4. SameGot
    BY <1>0, <1>1 DEF SameGot, GotBy
  <1>5. SameTaken
    BY <1>1, <1>4 DEF SameTaken, SameGot, TakenBy
  <1>6. TakenBy(s) # Null
    BY <1>0, <1>1 DEF TakenBy, GotBy
  <1>7. MailOf(s)' = Null
    BY <1>1 DEF MailOf, Waits
  <1>8. ASSUME NEW t \in Sock \ {s} PROVE MailOf(t)' = MailOf(t)
    <2>1. pp[t] # call.p
      BY <1>0, <1>1 DEF IInv, CallOK
    <2> QED
      BY <1>0, <1>1, <2>1 DEF MailOf, Waits, BeingRead
  <1> QED
    BY <1>2, <1>3, <1>4, <1>5, <1>6, <1>7, <1>8, BoxLose

LEMMA ClearBoxes ==
  ASSUME IInv, MailInv, RecvClearRecved \/ RecvClearPp
  PROVE  MailInv' /\ UNCHANGED Boxes!vars
  <1>0. PICK s \in Sock : s = call.s
    BY DEF IInv, TypeOK
  <1>1. /\ call'.s = s /\ call'.p = call.p /\ call.msg # Null /\ call'.msg = call.msg
        /\ UNCHANGED <<freePbufs, content>>
        /\ \A t \in Sock \ {s} : pp'[t] = pp[t] /\ recved'[t] = recved[t]
        /\ \/ call.at = "clear_recved" /\ call'.at = "clear_pp"
           \/ call.at = "clear_pp" /\ call'.at = "address" /\ pp'[s] = Null
    BY <1>0 DEF RecvClearRecved, RecvClearPp, Emptied, FollowedBy, IInv, TypeOK, MailInv, pbufVars
  <1>2. MailInv'
    BY <1>0, <1>1 DEF MailInv
  <1>3. SamePorts
    BY RecvPorts DEF Recv
  <1>4. SameGot
    BY <1>0, <1>1 DEF SameGot, GotBy
  <1>5. SameTaken
    BY <1>1, <1>4 DEF SameTaken, SameGot, TakenBy
  <1>6. MailOf(s) = Null /\ MailOf(s)' = Null
    BY <1>0, <1>1 DEF MailOf, Waits
  <1>7. ASSUME NEW t \in Sock \ {s} PROVE MailOf(t)' = MailOf(t)
    BY <1>0, <1>1 DEF MailOf, Waits, BeingRead
  <1>8. SameMail
    BY <1>6, <1>7 DEF SameMail
  <1> QED
    BY <1>2, <1>3, <1>4, <1>5, <1>8, BoxStutter

LEMMA AddressBoxes ==
  ASSUME IInv, MailInv, RecvAddress
  PROVE  MailInv' /\ (Boxes!Next \/ UNCHANGED Boxes!vars)
  <1>0. PICK s \in Sock : s = call.s
    BY DEF IInv, TypeOK
  <1>1. /\ call.at = "address" /\ call'.at = "idle" /\ call'.msg = Null
        /\ UNCHANGED <<recved, pp, freePbufs, content>>
    BY DEF RecvAddress, Idle, poolVars, pbufVars
  <1>2. MailInv'
    BY <1>1 DEF MailInv
  <1>3. SamePorts
    BY RecvPorts DEF Recv
  <1>4. SameMail
    BY <1>1 DEF SameMail, MailOf, Waits, BeingRead
  <1>5. \A t \in Sock : /\ TakenBy(t) = GotBy(t) /\ TakenBy(t)' = Null /\ GotBy(t)' = Null
                        /\ t # s => GotBy(t) = Null
    BY <1>0, <1>1 DEF TakenBy, GotBy
  <1>6. CASE GotBy(s) = Null
    <2>1. SameTaken /\ SameGot
      BY <1>5, <1>6 DEF SameTaken, SameGot
    <2> QED
      BY <1>2, <1>3, <1>4, <2>1, BoxStutter
  <1>7. CASE GotBy(s) # Null
    <2>1. \A t \in Sock \ {s} : GotBy(t)' = GotBy(t) /\ TakenBy(t)' = TakenBy(t)
      BY <1>5
    <2> QED
      BY <1>2, <1>3, <1>4, <1>5, <1>7, <2>1, BoxReturn
  <1> QED
    BY <1>6, <1>7

(* The interrupt brings a datagram to the mailbox of its port.  While that   *)
(* slot gives a frame back, the datagram is lost at once.                    *)
LEMMA InterruptBoxes ==
  ASSUME IInv, MailInv, NEW peer \in Peers, NEW port \in Ports, EthInterrupt(peer, port)
  PROVE  MailInv' /\ (Boxes!Next \/ UNCHANGED Boxes!vars)
  <1>1. PICK b \in freePbufs, q \in Pcbs :
          /\ local_port[q] = port /\ hasRecv[q]
          /\ content' = [content EXCEPT ![b] = [from |-> peer, to |-> port]]
          /\ runAtSocketRecv(q, b, peer)
          /\ UNCHANGED <<allocated, udppcb, hasRecvCallback, fds, freePcbs, local_port, hasRecv, call>>
    BY DEF EthInterrupt
  <1>2. PICK s \in Sock : s = SlotOf(q)
    BY <1>1, InterruptSlot, SocketPoolAssumption
  <1>3. Live(s) /\ udppcb[s] = q
    BY <1>1, <1>2, InterruptSlot, SocketPoolAssumption
  <1> DEFINE d == [from |-> peer, to |-> port]
  <1>4. d \in Datagram /\ d # Null /\ d.to = port /\ b \in Pbufs /\ b # Null
    BY SocketPoolAssumption DEF IInv, TypeOK, Datagram
  <1>5. /\ freePbufs' = freePbufs \ {b} /\ content'[b] = d /\ pp'[s] = b /\ recved'[s] = TRUE
        /\ \A c \in Pbufs \ {b} : content'[c] = content[c]
        /\ \A t \in Sock \ {s} : pp'[t] = pp[t] /\ recved'[t] = recved[t]
        /\ UNCHANGED <<allocated, udppcb, local_port, call>>
    BY <1>1, <1>2, <1>4 DEF runAtSocketRecv, IInv, TypeOK
  <1> HIDE DEF d
  <1>6. MailInv'
    <2>1. \A c \in Pbufs \ freePbufs' : content'[c] \in Datagram
      BY <1>4, <1>5 DEF MailInv
    <2>2. \A t \in Sock : pp'[t] # Null => recved'[t] \/ (call.at = "clear_pp" /\ call.s = t)
      BY <1>5 DEF MailInv
    <2>3. call.at = "check" /\ call.p # Null => pp'[call.s] # Null
      <3>1. call.s \in Sock
        BY DEF IInv, TypeOK
      <3> QED
        BY <1>4, <1>5, <3>1 DEF MailInv
    <2> QED
      BY <1>5, <2>1, <2>2, <2>3 DEF MailInv
  <1>7. \A t \in Sock : Live(t)' <=> Live(t)
    BY <1>5 DEF Live, Closing
  <1>8. SamePorts
    BY <1>5, <1>7, LivePorts
  <1>9. SameGot
    BY <1>5 DEF SameGot, GotBy
  <1>10. SameTaken
    <2>1. call.at \in {"check", "copy"} /\ call.p # Null => call.p \in Pbufs \ {b}
      BY DEF IInv, TypeOK, LoadedFrameIsHeld
    <2> QED
      BY <1>5, <1>9, <2>1 DEF SameTaken, SameGot, TakenBy
  <1>11. ASSUME NEW t \in Sock \ {s} PROVE MailOf(t)' = MailOf(t)
    <2>1. (Waits(t)' <=> Waits(t)) /\ (BeingRead(t)' <=> BeingRead(t))
      BY <1>5 DEF Waits, BeingRead
    <2>2. Waits(t) => pp[t] \in Pbufs \ {b}
      BY WaitingMail
    <2> QED
      BY <1>5, <2>1, <2>2 DEF MailOf
  <1>12. PortOf(s) = d.to
    BY <1>1, <1>3, <1>4 DEF PortOf
  <1>13. CASE call.at \in {"clear_recved", "clear_pp"} /\ call.s = s
    <2>1. MailOf(s) = Null /\ MailOf(s)' = Null
      BY <1>5, <1>13 DEF MailOf, Waits
    <2>2. SameMail
      BY <1>11, <2>1 DEF SameMail
    <2> QED
      BY <1>6, <1>8, <1>9, <1>10, <2>2, BoxStutter
  <1>14. CASE ~(call.at \in {"clear_recved", "clear_pp"} /\ call.s = s)
    <2>1. Waits(s)'
      BY <1>4, <1>5, <1>14 DEF Waits
    <2>2. call.at \in {"check", "copy", "free"} => call.p # b
      BY <1>4 DEF IInv, LoadedFrameIsHeld
    <2>3. ~BeingRead(s)'
      BY <1>5, <2>2 DEF BeingRead
    <2>4. MailOf(s)' = d
      BY <1>5, <2>1, <2>3 DEF MailOf
    <2> QED
      BY <1>4, <1>6, <1>8, <1>9, <1>10, <1>11, <1>12, <2>4, BoxArrive
  <1> QED
    BY <1>13, <1>14

LEMMA InitBoxes == Init => MailInv /\ Boxes!Init
  <1> SUFFICES ASSUME Init PROVE MailInv /\ Boxes!Init
    OBVIOUS
  <1>1. MailInv
    BY DEF Init, MailInv, Idle
  <1>2. \A s \in Sock : PortOf(s) = Null /\ MailOf(s) = Null /\ GotBy(s) = Null /\ TakenBy(s) = Null
    BY DEF Init, PortOf, Live, MailOf, Waits, GotBy, TakenBy, Idle
  <1> QED
    BY <1>1, <1>2 DEF Boxes!Init, Boxes!None

(* With the interrupt at any point of any call, and whatever was opened and  *)
(* closed, the pool of sockets is a mailbox for each of them: a datagram     *)
(* comes to the socket of its port, out at most once, never after a newer    *)
(* one, and every one that recvfrom takes is handed over.                    *)
THEOREM Refinement == Spec => ImplementsMailboxes
  <1>1. IInv /\ MailInv /\ [Next]_vars => MailInv' /\ [Boxes!Next]_(Boxes!vars)
    <2> SUFFICES ASSUME IInv, MailInv, [Next]_vars
                 PROVE  MailInv' /\ (Boxes!Next \/ UNCHANGED Boxes!vars)
      BY DEF Boxes!vars
    <2>1. CASE Socket
      BY <2>1, SocketBoxes
    <2>2. ASSUME NEW s \in fds, NEW port \in Ports, Bind(s, port)
          PROVE  MailInv' /\ (Boxes!Next \/ UNCHANGED Boxes!vars)
      BY <2>2, BindBoxes
    <2>3. ASSUME NEW s \in fds, NEW peer \in Peers, SendSetRemote(s, peer)
          PROVE  MailInv' /\ UNCHANGED Boxes!vars
      BY <2>3, SendSetRemoteBoxes
    <2>4. CASE SendOut
      BY <2>4, SendOutBoxes
    <2>5. ASSUME NEW s \in fds, RecvInstall(s) PROVE MailInv' /\ UNCHANGED Boxes!vars
      BY <2>5, RecvInstallBoxes
    <2>6. CASE Recv
      BY <2>6, LoadBoxes, CheckBoxes, CopyBoxes, FreeBoxes, ClearBoxes, AddressBoxes DEF Recv
    <2>7. ASSUME NEW s \in fds, CloseMark(s) PROVE MailInv' /\ UNCHANGED Boxes!vars
      BY <2>7, CloseMarkBoxes
    <2>8. CASE CloseRemove
      BY <2>8, CloseRemoveBoxes
    <2>9. ASSUME NEW peer \in Peers, NEW port \in Ports, EthInterrupt(peer, port)
          PROVE  MailInv' /\ (Boxes!Next \/ UNCHANGED Boxes!vars)
      BY <2>9, InterruptBoxes
    <2>10. CASE UNCHANGED vars
      <3>1. UNCHANGED <<allocated, udppcb, recved, pp, local_port, freePbufs, content, call>>
        BY <2>10 DEF vars, poolVars, pcbVars, pbufVars
      <3>2. MailInv'
        BY <3>1 DEF MailInv
      <3>3. SamePorts /\ SameMail /\ SameTaken /\ SameGot
        BY <3>1 DEF SamePorts, SameMail, SameTaken, SameGot, PortOf, Live, Closing, MailOf, Waits,
                    BeingRead, TakenBy, GotBy
      <3> QED
        BY <3>2, <3>3, BoxStutter
    <2> QED
      BY <2>1, <2>2, <2>3, <2>4, <2>5, <2>6, <2>7, <2>8, <2>9, <2>10 DEF Next, Main
  <1> QED
    BY <1>1, InitBoxes, Invariant, PTL DEF Spec, ImplementsMailboxes, Boxes!Spec
=============================================================================
