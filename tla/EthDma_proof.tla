---------------------------- MODULE EthDma_proof ----------------------------
(* Proofs about the Ethernet driver, for rings of every size, frames of      *)
(* every number of pieces and every interleaving of interrupt, main loop and *)
(* DMA.                                                                      *)
EXTENDS EthDma, TLAPS

(* The descriptors that hold received frames are those from First up to the  *)
(* one the DMA stores into next.                                             *)
Copying == isr \in {"copy", "giveback"}
First == IF Copying THEN frame ELSE DMARxDescToGet

Within(from, to, d) ==
  IF from < to THEN from <= d /\ d < to ELSE from <= d \/ d < to

RxRing ==
  /\ Copying => DMARxDescToGet = NextRx(frame) /\ ~rxOwn[frame]
  /\ First = rxDma => (\A d \in Rx : rxOwn[d]) \/ (\A d \in Rx : ~rxOwn[d])
  /\ First # rxDma => \A d \in Rx : ~rxOwn[d] <=> Within(First, rxDma, d)

(* Their numbers follow each other from nOut up to nIn. *)
RxOrder ==
  /\ ~rxOwn[First] => rxFrame[First].num = nOut
  /\ \A d \in Rx : ~rxOwn[d] /\ NextRx(d) = rxDma => nIn = NextNum(rxFrame[d].num)
  /\ \A d \in Rx : ~rxOwn[d] /\ ~rxOwn[NextRx(d)] /\ NextRx(d) # First
                     => rxFrame[NextRx(d)].num = NextNum(rxFrame[d].num)
  /\ (\A d \in Rx : rxOwn[d]) => nIn = nOut
  /\ isr = "giveback" => copied \subseteq {nOut}

RxInv == RxRing /\ RxOrder

-----------------------------------------------------------------------------
LEMMA Sizes ==
  /\ NRx \in Nat /\ NRx > 0 /\ NTx \in Nat /\ NTx > 0
  /\ Mod \in Nat /\ Mod > 0 /\ Pieces \in Nat
  /\ AnyId \in Ids
BY EthDmaAssumption DEF AnyId

LEMMA RxTypes ==
  ASSUME TypeOK
  PROVE  /\ rxOwn \in [Rx -> BOOLEAN]
         /\ rxFrame \in [Rx -> [num : Num, broken : BOOLEAN]]
         /\ rxDma \in Rx /\ DMARxDescToGet \in Rx /\ frame \in Rx /\ First \in Rx
         /\ nIn \in Num /\ nOut \in Num
BY DEF TypeOK, First

LEMMA NextTypes ==
  /\ \A d \in Rx : NextRx(d) \in Rx
  /\ \A d \in Tx : NextTx(d) \in Tx
  /\ \A n \in Num : NextNum(n) \in Num
BY Sizes DEF Rx, Tx, Num, NextRx, NextTx, NextNum

(* A step that leaves the receive side alone, the handler's place included   *)
(* but for the steps that do not matter to it.                               *)
LEMMA RxUntouched ==
  ASSUME RxInv, UNCHANGED rxVars, Copying' = Copying,
         isr' = "giveback" => isr = "giveback"
  PROVE  RxInv'
<1>1. First' = First
  BY DEF First, rxVars
<1> QED BY <1>1 DEF RxInv, RxRing, RxOrder, rxVars

LEMMA FrameArrivesRx ==
  ASSUME TypeOK, RxInv, NEW broken \in BOOLEAN, FrameArrives(broken)
  PROVE  RxInv'
<1>a. /\ rxOwn \in [Rx -> BOOLEAN] /\ rxDma \in Rx /\ frame \in Rx /\ First \in Rx
      /\ rxFrame \in [Rx -> [num : Num, broken : BOOLEAN]]
      /\ nIn \in Num /\ NRx \in Nat /\ NRx > 0
  BY RxTypes, Sizes
<1>b. /\ rxOwn[rxDma]
      /\ rxOwn' = [rxOwn EXCEPT ![rxDma] = FALSE]
      /\ rxFrame' = [rxFrame EXCEPT ![rxDma] = [num |-> nIn, broken |-> broken]]
      /\ rxDma' = NextRx(rxDma) /\ nIn' = NextNum(nIn)
      /\ UNCHANGED <<DMARxDescToGet, frame, copied, nOut, isr>>
  BY DEF FrameArrives
<1>c. First' = First /\ Copying' = Copying
  BY <1>b DEF First, Copying
<1>1. RxRing'
  <2>1. Copying => DMARxDescToGet = NextRx(frame) /\ ~rxOwn'[frame]
    BY <1>a, <1>b DEF RxInv, RxRing
  <2>2. CASE First = rxDma
    <3>1. \A d \in Rx : rxOwn[d]
      BY <1>a, <1>b, <2>2 DEF RxInv, RxRing
    <3>2. \A d \in Rx : ~rxOwn'[d] <=> d = rxDma
      BY <1>a, <1>b, <3>1
    <3>3. \A d \in Rx : NextRx(rxDma) # rxDma =>
                          (Within(rxDma, NextRx(rxDma), d) <=> d = rxDma)
      BY <1>a DEF Within, NextRx, Rx
    <3>4. NextRx(rxDma) = rxDma => \A d \in Rx : d = rxDma
      BY <1>a DEF NextRx, Rx
    <3> QED BY <1>b, <1>c, <2>1, <2>2, <3>2, <3>3, <3>4 DEF RxRing, Copying
  <2>3. CASE First # rxDma
    <3>1. \A d \in Rx : ~rxOwn[d] <=> Within(First, rxDma, d)
      BY <2>3 DEF RxInv, RxRing
    <3>2. \A d \in Rx : ~rxOwn'[d] <=> Within(First, rxDma, d) \/ d = rxDma
      BY <1>a, <1>b, <3>1
    <3>3. NextRx(rxDma) # First =>
            \A d \in Rx : Within(First, NextRx(rxDma), d)
                            <=> Within(First, rxDma, d) \/ d = rxDma
      BY <1>a, <2>3 DEF Within, NextRx, Rx
    <3>4. NextRx(rxDma) = First =>
            \A d \in Rx : Within(First, rxDma, d) \/ d = rxDma
      BY <1>a, <2>3 DEF Within, NextRx, Rx
    <3> QED BY <1>b, <1>c, <2>1, <3>2, <3>3, <3>4 DEF RxRing, Copying
  <2> QED BY <2>2, <2>3
<1>2. RxOrder'
  <2>1. ~rxOwn'[First] => rxFrame'[First].num = nOut
    <3>1. CASE First = rxDma
      <4>1. \A d \in Rx : rxOwn[d]
        BY <1>a, <1>b, <3>1 DEF RxInv, RxRing
      <4>2. nIn = nOut
        BY <4>1 DEF RxInv, RxOrder
      <4> QED BY <1>a, <1>b, <3>1, <4>2
    <3>2. CASE First # rxDma
      BY <1>a, <1>b, <3>2 DEF RxInv, RxOrder
    <3> QED BY <3>1, <3>2
  <2>2. \A d \in Rx : ~rxOwn'[d] /\ NextRx(d) = NextRx(rxDma)
                        => NextNum(nIn) = NextNum(rxFrame'[d].num)
    <3>1. \A d \in Rx : NextRx(d) = NextRx(rxDma) => d = rxDma
      BY <1>a DEF NextRx, Rx
    <3> QED BY <1>a, <1>b, <3>1
  <2>3. ASSUME NEW d \in Rx, ~rxOwn'[d], ~rxOwn'[NextRx(d)], NextRx(d) # First
        PROVE  rxFrame'[NextRx(d)].num = NextNum(rxFrame'[d].num)
    <3>a. NextRx(d) \in Rx
      BY NextTypes
    <3>1. CASE d = rxDma
      <4>1. CASE NextRx(d) = d
        <5>1. First = d
          BY <1>a, <4>1 DEF NextRx, Rx
        <5> QED BY <2>3, <4>1, <5>1
      <4>2. CASE NextRx(d) # d
        <5>1. ~rxOwn[NextRx(d)]
          BY <1>a, <1>b, <2>3, <3>a, <3>1, <4>2
        <5>2. First # rxDma
          BY <1>a, <1>b, <3>a, <5>1 DEF RxInv, RxRing
        <5>3. Within(First, rxDma, NextRx(rxDma))
          BY <3>a, <3>1, <5>1, <5>2 DEF RxInv, RxRing
        <5> QED BY <1>a, <2>3, <3>1, <5>2, <5>3 DEF Within, NextRx, Rx
      <4> QED BY <4>1, <4>2
    <3>2. CASE d # rxDma /\ NextRx(d) = rxDma
      <4>1. ~rxOwn[d]
        BY <1>a, <1>b, <2>3, <3>2
      <4> QED BY <1>a, <1>b, <3>2, <4>1 DEF RxInv, RxOrder
    <3>3. CASE d # rxDma /\ NextRx(d) # rxDma
      BY <1>a, <1>b, <2>3, <3>a, <3>3 DEF RxInv, RxOrder
    <3> QED BY <3>1, <3>2, <3>3
  <2>4. ~ \A d \in Rx : rxOwn'[d]
    BY <1>a, <1>b
  <2>5. isr = "giveback" => copied \subseteq {nOut}
    BY DEF RxInv, RxOrder
  <2> QED BY <1>b, <1>c, <2>1, <2>2, <2>3, <2>4, <2>5 DEF RxOrder
<1> QED BY <1>1, <1>2 DEF RxInv

LEMMA TakeRx ==
  ASSUME TypeOK, RxInv, ETH_Rx_Packet
  PROVE  RxInv'
<1>1. /\ ~Copying /\ isr' = "copy" /\ ~rxOwn[DMARxDescToGet]
      /\ frame' = DMARxDescToGet /\ DMARxDescToGet' = NextRx(DMARxDescToGet)
      /\ UNCHANGED <<rxOwn, rxFrame, rxDma, nIn, nOut>>
  BY DEF ETH_Rx_Packet, HasFrame, OwnAfterTaking, Copying
<1>2. Copying' /\ First' = First /\ First = DMARxDescToGet
  BY <1>1 DEF Copying, First
<1> QED BY <1>1, <1>2 DEF RxInv, RxRing, RxOrder

LEMMA CopyRx ==
  ASSUME TypeOK, RxInv, NEW alloc \in BOOLEAN, CopyFrame(alloc)
  PROVE  RxInv'
<1>1. /\ Copying /\ isr' = "giveback"
      /\ copied' = IF alloc THEN {rxFrame[frame].num} ELSE {}
      /\ UNCHANGED <<rxOwn, rxFrame, rxDma, DMARxDescToGet, frame, nIn, nOut>>
  BY DEF CopyFrame, Copying
<1>2. Copying' /\ First' = First /\ First = frame
  BY <1>1 DEF Copying, First
<1>3. rxFrame[frame].num = nOut
  BY <1>1, <1>2 DEF RxInv, RxRing, RxOrder
<1> QED BY <1>1, <1>2, <1>3 DEF RxInv, RxRing, RxOrder

LEMMA GiveBackRx ==
  ASSUME TypeOK, RxInv, GiveDescriptorBack
  PROVE  RxInv'
<1>a. /\ rxOwn \in [Rx -> BOOLEAN] /\ rxDma \in Rx /\ frame \in Rx
      /\ rxFrame \in [Rx -> [num : Num, broken : BOOLEAN]]
      /\ nIn \in Num /\ nOut \in Num /\ NRx \in Nat /\ NRx > 0
  BY RxTypes, Sizes
<1>b. /\ Copying /\ ~Copying' /\ isr' # "giveback"
      /\ rxOwn' = [rxOwn EXCEPT ![frame] = TRUE]
      /\ nOut' = NextNum(nOut)
      /\ rxFrame' = [rxFrame EXCEPT ![frame] = NoFrame]
      /\ UNCHANGED <<rxDma, DMARxDescToGet, nIn>>
  BY DEF GiveDescriptorBack, Returned, Copying
<1>c. /\ First = frame /\ First' = DMARxDescToGet
      /\ DMARxDescToGet = NextRx(frame) /\ NextRx(frame) \in Rx
      /\ ~rxOwn[frame] /\ rxFrame[frame].num = nOut
  BY <1>a, <1>b, NextTypes DEF First, RxInv, RxRing, RxOrder
<1> DEFINE second == NextRx(frame)
<1>1. CASE frame = rxDma
  <2>1. \A d \in Rx : ~rxOwn[d]
    BY <1>a, <1>c, <1>1 DEF RxInv, RxRing
  <2>2. \A d \in Rx : rxOwn'[d] <=> d = frame
    BY <1>a, <1>b, <2>1
  <2>3. CASE second = frame
    <3>1. \A d \in Rx : d = frame
      BY <1>a, <2>3 DEF NextRx, Rx
    <3>2. nIn = NextNum(nOut)
      BY <1>a, <1>1, <1>c, <2>3 DEF RxInv, RxOrder
    <3>3. \A d \in Rx : rxOwn'[d]
      BY <2>2, <3>1
    <3>4. RxRing'
      BY <1>1, <1>b, <1>c, <2>3, <3>3 DEF RxRing
    <3> QED BY <1>b, <1>c, <3>2, <3>3, <3>4, NextTypes DEF RxInv, RxOrder
  <2>4. CASE second # frame
    <3>1. \A d \in Rx : Within(second, frame, d) <=> d # frame
      BY <1>a, <2>4 DEF Within, NextRx, Rx
    <3>2. RxRing'
      BY <1>b, <1>c, <1>1, <2>2, <2>4, <3>1 DEF RxRing
    <3>3. rxFrame'[second].num = NextNum(nOut)
      BY <1>a, <1>b, <1>c, <2>1, <2>4 DEF RxInv, RxOrder
    <3>4. \A d \in Rx : d # frame /\ NextRx(d) = rxDma => nIn = NextNum(rxFrame'[d].num)
      BY <1>a, <1>b, <2>1 DEF RxInv, RxOrder
    <3>5. \A d \in Rx : d # frame /\ NextRx(d) # frame
                          => rxFrame'[NextRx(d)].num = NextNum(rxFrame'[d].num)
      BY <1>a, <1>b, <1>c, <2>1, NextTypes DEF RxInv, RxOrder
    <3> QED BY <1>a, <1>b, <1>c, <2>2, <2>4, <3>2, <3>3, <3>4, <3>5, NextTypes
            DEF RxInv, RxOrder
  <2> QED BY <2>3, <2>4
<1>2. CASE frame # rxDma
  <2>1. \A d \in Rx : ~rxOwn[d] <=> Within(frame, rxDma, d)
    BY <1>c, <1>2 DEF RxInv, RxRing
  <2>2. \A d \in Rx : ~rxOwn'[d] <=> Within(frame, rxDma, d) /\ d # frame
    BY <1>a, <1>b, <2>1
  <2>3. CASE second = rxDma
    <3>1. \A d \in Rx : Within(frame, rxDma, d) => d = frame
      BY <1>a, <1>2, <2>3 DEF Within, NextRx, Rx
    <3>2. \A d \in Rx : rxOwn'[d]
      BY <2>2, <3>1, <1>a, <1>b
    <3>3. nIn = NextNum(nOut)
      BY <1>a, <1>c, <2>3 DEF RxInv, RxOrder
    <3> QED BY <1>b, <1>c, <2>3, <3>2, <3>3, NextTypes DEF RxInv, RxRing, RxOrder
  <2>4. CASE second # rxDma
    <3>1. \A d \in Rx : Within(second, rxDma, d) <=> Within(frame, rxDma, d) /\ d # frame
      BY <1>a, <1>2, <2>4 DEF Within, NextRx, Rx
    <3>2. RxRing'
      BY <1>b, <1>c, <2>2, <2>4, <3>1 DEF RxRing
    <3>3. ~rxOwn[second] /\ second # frame
      <4>1. second # frame /\ Within(frame, rxDma, second)
        BY <1>a, <1>2, <2>4 DEF Within, NextRx, Rx
      <4> QED BY <1>c, <2>1, <4>1
    <3>4. rxFrame'[second].num = NextNum(nOut)
      BY <1>a, <1>b, <1>c, <3>3 DEF RxInv, RxOrder
    <3>5. \A d \in Rx : ~rxOwn'[d] => d # frame /\ ~rxOwn[d]
      BY <2>1, <2>2, <1>a, <1>b
    <3>6. \A d \in Rx : ~rxOwn'[d] /\ NextRx(d) = rxDma => nIn = NextNum(rxFrame'[d].num)
      BY <1>a, <1>b, <3>5 DEF RxInv, RxOrder
    <3>7. \A d \in Rx : ~rxOwn'[d] /\ ~rxOwn'[NextRx(d)]
                          => rxFrame'[NextRx(d)].num = NextNum(rxFrame'[d].num)
      BY <1>a, <1>b, <1>c, <3>5, NextTypes DEF RxInv, RxOrder
    <3>8. ~rxOwn'[second]
      BY <1>a, <1>b, <1>c, <3>3
    <3> QED BY <1>b, <1>c, <3>2, <3>4, <3>6, <3>7, <3>8, NextTypes DEF RxInv, RxOrder
  <2> QED BY <2>3, <2>4
<1> QED BY <1>1, <1>2

(* Every step of the handler, the main loop and the DMA keeps the receive    *)
(* ring in order.                                                            *)
LEMMA RxStep ==
  ASSUME TypeOK, RxInv, [Next]_vars
  PROVE  RxInv'
<1>1. ASSUME NEW broken \in BOOLEAN, FrameArrives(broken) PROVE RxInv'
  BY <1>1, FrameArrivesRx
<1>2. CASE ETH_IRQHandler \/ NoReply
  <2>1. UNCHANGED rxVars /\ ~Copying /\ ~Copying' /\ isr' # "giveback"
    BY <1>2 DEF ETH_IRQHandler, NoReply, Copying
  <2> QED BY <2>1, RxUntouched DEF Copying
<1>3. CASE ETH_Rx_Packet
  BY <1>3, TakeRx
<1>4. ASSUME NEW alloc \in BOOLEAN, CopyFrame(alloc) PROVE RxInv'
  BY <1>4, CopyRx
<1>5. CASE GiveDescriptorBack
  BY <1>5, GiveBackRx
<1>6. CASE NoMoreFrames \/ ClearITPendingBit
  <2>1. /\ UNCHANGED <<rxOwn, rxFrame, rxDma, DMARxDescToGet, frame, copied, nIn, nOut>>
        /\ ~Copying /\ ~Copying' /\ isr' # "giveback"
    BY <1>6 DEF NoMoreFrames, ClearITPendingBit, Copying, rxVars
  <2> QED BY <2>1 DEF RxInv, RxRing, RxOrder, First
<1>7. ASSUME NEW id \in Ids, IsrSends(id) PROVE RxInv'
  <2>1. UNCHANGED rxVars /\ ~Copying /\ ~Copying' /\ isr' # "giveback"
    BY <1>7 DEF IsrSends, Begins, Copying
  <2> QED BY <2>1, RxUntouched DEF Copying
<1>8. ASSUME NEW id \in Ids, MainSends(id) PROVE RxInv'
  <2>1. UNCHANGED rxVars /\ UNCHANGED isr
    BY <1>8 DEF MainSends, Begins
  <2> QED BY <2>1, RxUntouched DEF Copying
<1>9. ASSUME NEW c \in Context, CopyPiece(c) \/ TxCheck(c) PROVE RxInv'
  <2>1. UNCHANGED rxVars /\ UNCHANGED isr
    BY <1>9 DEF CopyPiece, TxCheck
  <2> QED BY <2>1, RxUntouched DEF Copying
<1>10. ASSUME NEW c \in Context, TxError(c) \/ TxGive(c) PROVE RxInv'
  <2>1. UNCHANGED rxVars /\ (UNCHANGED isr \/ (isr = "output" /\ isr' = "check"))
    BY <1>10 DEF TxError, TxGive, Goes, Runs
  <2> QED BY <2>1, RxUntouched DEF Copying
<1>11. CASE FrameLeaves
  <2>1. UNCHANGED rxVars /\ UNCHANGED isr
    BY <1>11 DEF FrameLeaves
  <2> QED BY <2>1, RxUntouched DEF Copying
<1>12. CASE UNCHANGED vars
  BY <1>12, RxUntouched DEF vars, Copying
<1> QED BY <1>1, <1>2, <1>3, <1>4, <1>5, <1>6, <1>7, <1>8, <1>9, <1>10, <1>11, <1>12
        DEF Next, Handler, Output

-----------------------------------------------------------------------------
(* Types. *)

LEMMA TypeStep ==
  ASSUME TypeOK, CopiesOwnBuffer, [Next]_vars
  PROVE  TypeOK' /\ CopiesOwnBuffer'
<1> USE Sizes, NextTypes
<1>a. /\ rxOwn \in [Rx -> BOOLEAN]
      /\ rxFrame \in [Rx -> [num : Num, broken : BOOLEAN]]
      /\ rxDma \in Rx /\ DMARxDescToGet \in Rx /\ frame \in Rx
      /\ irq \in BOOLEAN /\ isr \in Isrs
      /\ copied \in SUBSET Num /\ nIn \in Num /\ nOut \in Num
      /\ txOwn \in [Tx -> BOOLEAN]
      /\ txBuf \in [Tx -> [Piece -> Ids]]
      /\ txDma \in Tx /\ DMATxDescToSet \in Tx
      /\ out \in [Context -> Call]
      /\ queued \in Seq(Ids) /\ disturbed \in BOOLEAN
  BY DEF TypeOK
<1>b. Idle \in Call /\ Blank \in [Piece -> Ids] /\ 0 \in Rx /\ 0 \in Tx
      /\ NoFrame \in [num : Num, broken : BOOLEAN]
  BY DEF Idle, Call, Blank, Rx, Tx, NoFrame, Num
<1>1. ASSUME NEW broken \in BOOLEAN, FrameArrives(broken)
      PROVE  TypeOK' /\ CopiesOwnBuffer'
  <2>1. rxOwn' \in [Rx -> BOOLEAN] /\ CopiesOwnBuffer'
    BY <1>1, <1>a DEF FrameArrives, CopiesOwnBuffer
  <2>2. rxFrame' \in [Rx -> [num : Num, broken : BOOLEAN]]
    BY <1>1, <1>a DEF FrameArrives
  <2> QED BY <1>1, <1>a, <2>1, <2>2 DEF FrameArrives, TypeOK, txVars
<1>2. CASE ETH_IRQHandler \/ NoReply \/ NoMoreFrames
  BY <1>2, <1>a DEF ETH_IRQHandler, NoReply, NoMoreFrames, TypeOK, Isrs,
                    CopiesOwnBuffer, rxVars, txVars
<1>3. CASE ETH_Rx_Packet
  BY <1>3, <1>a DEF ETH_Rx_Packet, HasFrame, OwnAfterTaking, TypeOK, Isrs,
                    CopiesOwnBuffer, txVars
<1>4. ASSUME NEW alloc \in BOOLEAN, CopyFrame(alloc) PROVE TypeOK' /\ CopiesOwnBuffer'
  <2>1. copied' \in SUBSET Num
    BY <1>4, <1>a DEF CopyFrame
  <2> QED BY <1>4, <1>a, <2>1 DEF CopyFrame, TypeOK, Isrs, CopiesOwnBuffer, txVars
<1>5. CASE GiveDescriptorBack
  <2>1. rxOwn' \in [Rx -> BOOLEAN] /\ isr' \in {"check", "input"}
    BY <1>5, <1>a DEF GiveDescriptorBack, Returned
  <2>2. rxFrame' \in [Rx -> [num : Num, broken : BOOLEAN]]
    BY <1>5, <1>a, <1>b DEF GiveDescriptorBack
  <2> QED BY <1>5, <1>a, <1>b, <2>1, <2>2
          DEF GiveDescriptorBack, TypeOK, Isrs, CopiesOwnBuffer, txVars
<1>6. CASE ClearITPendingBit
  BY <1>6, <1>a DEF ClearITPendingBit, TypeOK, Isrs, CopiesOwnBuffer, txVars
<1>7. ASSUME NEW c \in Context, NEW id \in Ids, Begins(c, id), isr' \in Isrs,
             isr' \notin {"copy", "giveback"}
      PROVE  TypeOK' /\ CopiesOwnBuffer'
  <2>1. out' \in [Context -> Call]
    <3>1. [Idle EXCEPT !.at = "copy", !.buffer = DMATxDescToSet, !.id = id] \in Call
      BY <1>a, <1>b DEF Idle, Call
    <3> QED BY <3>1, <1>7, <1>a DEF Begins
  <2>2. disturbed' \in BOOLEAN /\ queued' \in Seq(Ids)
    BY <1>7, <1>a DEF Begins
  <2> QED BY <1>7, <1>a, <2>1, <2>2 DEF Begins, TypeOK, CopiesOwnBuffer, rxVars
<1>8. ASSUME NEW id \in Ids, IsrSends(id) PROVE TypeOK' /\ CopiesOwnBuffer'
  BY <1>7, <1>8 DEF IsrSends, Isrs, Context
<1>9. ASSUME NEW id \in Ids, MainSends(id) PROVE TypeOK' /\ CopiesOwnBuffer'
  BY <1>7, <1>9 DEF MainSends, Isrs, Context, Runs
<1>10. ASSUME NEW c \in Context, CopyPiece(c) PROVE TypeOK' /\ CopiesOwnBuffer'
  <2>a. out[c] \in Call /\ out[c].buffer \in Tx /\ out[c].piece \in Piece /\ out[c].id \in Ids
    BY <1>10, <1>a DEF CopyPiece, Filled, Call
  <2>1. txBuf' \in [Tx -> [Piece -> Ids]]
    BY <1>10, <1>a, <2>a DEF CopyPiece
  <2>2. out' \in [Context -> Call]
    <3>1. [out[c] EXCEPT !.piece = @ + 1] \in Call
      BY <2>a DEF Call, Piece
    <3> QED BY <3>1, <1>10, <1>a DEF CopyPiece
  <2> QED BY <1>10, <1>a, <2>1, <2>2 DEF CopyPiece, TypeOK, CopiesOwnBuffer, rxVars
<1>11. ASSUME NEW c \in Context, TxError(c) PROVE TypeOK' /\ CopiesOwnBuffer'
  <2>1. out' \in [Context -> Call] /\ isr' \in Isrs
    BY <1>11, <1>a, <1>b DEF TxError, Goes, Isrs
  <2>2. isr' \in {"copy", "giveback"} => isr' = isr
    BY <1>11 DEF TxError, Goes
  <2> QED BY <1>11, <1>a, <2>1, <2>2 DEF TxError, TypeOK, CopiesOwnBuffer, rxVars
<1>12. ASSUME NEW c \in Context, TxCheck(c) PROVE TypeOK' /\ CopiesOwnBuffer'
  <2>1. out' \in [Context -> Call]
    <3>1. [out[c] EXCEPT !.at = "give", !.desc = DMATxDescToSet] \in Call
      BY <1>a DEF Call
    <3> QED BY <3>1, <1>12, <1>a DEF TxCheck
  <2> QED BY <1>12, <1>a, <2>1 DEF TxCheck, TypeOK, CopiesOwnBuffer, rxVars
<1>13. ASSUME NEW c \in Context, TxGive(c) PROVE TypeOK' /\ CopiesOwnBuffer'
  <2>a. out[c] \in Call /\ out[c].desc \in Tx /\ out[c].id \in Ids
    BY <1>a DEF Call
  <2>1. PICK d \in {out[c].desc, DMATxDescToSet} :
          txOwn' = [txOwn EXCEPT ![d] = TRUE] /\ DMATxDescToSet' = NextTx(d)
    BY <1>13 DEF TxGive, Following
  <2>2. txOwn' \in [Tx -> BOOLEAN] /\ DMATxDescToSet' \in Tx
    BY <1>a, <2>a, <2>1
  <2>3. out' \in [Context -> Call] /\ isr' \in Isrs /\ queued' \in Seq(Ids)
    BY <1>13, <1>a, <1>b, <2>a DEF TxGive, Goes, Isrs
  <2>4. isr' \in {"copy", "giveback"} => isr' = isr
    BY <1>13 DEF TxGive, Goes
  <2> QED BY <1>13, <1>a, <2>2, <2>3, <2>4 DEF TxGive, TypeOK, CopiesOwnBuffer, rxVars
<1>14. CASE FrameLeaves
  <2>1. txOwn' \in [Tx -> BOOLEAN] /\ txBuf' \in [Tx -> [Piece -> Ids]]
        /\ queued' \in Seq(Ids)
    BY <1>14, <1>a, <1>b DEF FrameLeaves
  <2> QED BY <1>14, <1>a, <2>1 DEF FrameLeaves, TypeOK, CopiesOwnBuffer, rxVars
<1>15. CASE UNCHANGED vars
  BY <1>15, <1>a DEF vars, rxVars, txVars, TypeOK, CopiesOwnBuffer
<1> QED BY <1>1, <1>2, <1>3, <1>4, <1>5, <1>6, <1>8, <1>9, <1>10, <1>11, <1>12,
           <1>13, <1>14, <1>15 DEF Next, Handler, Output

LEMMA Initially == Init => IInv /\ RxInv
<1> SUFFICES ASSUME Init PROVE IInv /\ RxInv
  OBVIOUS
<1> USE Sizes
<1>1. 0 \in Rx /\ 0 \in Tx /\ 0 \in Num /\ Idle \in Call
  BY DEF Rx, Tx, Num, Idle, Call
<1>2. /\ rxOwn \in [Rx -> BOOLEAN] /\ txOwn \in [Tx -> BOOLEAN]
      /\ rxFrame \in [Rx -> [num : Num, broken : BOOLEAN]]
      /\ txBuf \in [Tx -> [Piece -> Ids]]
      /\ out \in [Context -> Call]
  BY <1>1 DEF Init, NoFrame, Blank
<1>3. IInv
  <2>1. TypeOK
    <3>1. queued \in Seq(Ids) /\ isr \in Isrs /\ copied \in SUBSET Num
      BY DEF Init, Isrs
    <3> QED BY <1>1, <1>2, <3>1 DEF Init, TypeOK
  <2>2. CopiesOwnBuffer
    BY DEF Init, CopiesOwnBuffer
  <2> QED BY <2>1, <2>2 DEF IInv
<1>4. RxInv
  BY <1>1, <1>2 DEF Init, RxInv, RxRing, RxOrder, First, Copying
<1> QED BY <1>3, <1>4

LEMMA RxAlways == Spec => [](IInv /\ RxInv)
<1>1. IInv /\ RxInv /\ [Next]_vars => (IInv /\ RxInv)'
  BY RxStep, TypeStep DEF IInv
<1> QED BY <1>1, Initially, PTL DEF Spec

(* The interrupt handler touches only receive buffers that the DMA does not  *)
(* own.                                                                      *)
THEOREM Invariant == Spec => []IInv
BY RxAlways, PTL

(* Frames reach lwIP unchanged and in the order in which they were stored.   *)
THEOREM InOrder == Spec => []DeliveredInOrder
<1>1. RxInv => DeliveredInOrder
  BY DEF RxInv, RxOrder, DeliveredInOrder
<1> QED BY <1>1, RxAlways, PTL

-----------------------------------------------------------------------------
(* Sending. *)

(* The descriptor of the k-th frame that waits to be sent. *)
TxPos(k) ==
  IF txDma + k - 1 >= NTx THEN txDma + k - 1 - NTx ELSE txDma + k - 1

(* As long as nothing was disturbed at most one call of low_level_output is  *)
(* under way; it fills the buffer the program's pointer is at.               *)
TxCalls ==
  /\ isr # "output" => out["isr"].at = "idle"
  /\ ~disturbed => \A c \in Context : out[c].at # "idle" =>
       /\ out[c].buffer = DMATxDescToSet /\ ~txOwn[DMATxDescToSet]
       /\ \A e \in Context : e # c => out[e].at = "idle"
       /\ out[c].at = "give" => out[c].desc = DMATxDescToSet /\ out[c].piece = Pieces + 1
       /\ \A p \in Piece : p < out[c].piece => txBuf[DMATxDescToSet][p] = out[c].id

(* And the descriptors of the DMA are those of the waiting frames, in order. *)
TxRing ==
  ~disturbed =>
    /\ Len(queued) <= NTx
    /\ TxPos(Len(queued) + 1) = DMATxDescToSet
    /\ \A d \in Tx : txOwn[d] <=> \E k \in 1 .. Len(queued) : TxPos(k) = d
    /\ \A k \in 1 .. Len(queued) : \A p \in Piece : txBuf[TxPos(k)][p] = queued[k]

TxInv == TxCalls /\ TxRing

LEMMA TxTypes ==
  ASSUME TypeOK
  PROVE  /\ txOwn \in [Tx -> BOOLEAN] /\ txBuf \in [Tx -> [Piece -> Ids]]
         /\ txDma \in Tx /\ DMATxDescToSet \in Tx
         /\ out \in [Context -> Call]
         /\ queued \in Seq(Ids) /\ Len(queued) \in Nat /\ disturbed \in BOOLEAN
BY DEF TypeOK

LEMMA TxPositions ==
  ASSUME txDma \in Tx
  PROVE  /\ \A k \in 1 .. NTx : TxPos(k) \in Tx
         /\ \A j, k \in 1 .. NTx : TxPos(j) = TxPos(k) => j = k
         /\ TxPos(1) = txDma /\ TxPos(NTx + 1) = txDma
         /\ \A k \in 1 .. NTx : TxPos(k + 1) = NextTx(TxPos(k))
BY Sizes DEF TxPos, Tx, NextTx

LEMMA TxUntouched ==
  ASSUME TxInv, UNCHANGED txVars, isr' # "output" => isr # "output" \/ out["isr"].at = "idle"
  PROVE  TxInv'
BY DEF TxInv, TxCalls, TxRing, TxPos, txVars

LEMMA BeginsTx ==
  ASSUME TypeOK, TxInv, NEW c \in Context, NEW id \in Ids, Begins(c, id),
         c = "main" => isr = "none" /\ isr' = "none",
         c = "isr" => isr' = "output"
  PROVE  TxInv'
<1>a. /\ out \in [Context -> Call] /\ UNCHANGED <<txOwn, txBuf, txDma, DMATxDescToSet>>
      /\ out' = [out EXCEPT ![c] = [Idle EXCEPT !.at = "copy",
                                       !.buffer = DMATxDescToSet, !.id = id]]
  BY TxTypes DEF Begins
<1>b. out'[c].at = "copy" /\ out'[c].buffer = DMATxDescToSet /\ out'[c].piece = 1
  BY <1>a DEF Idle
<1>c. \A e \in Context : e # c => out'[e] = out[e]
  BY <1>a
<1>1. isr' # "output" => out'["isr"].at = "idle"
  BY <1>c DEF TxInv, TxCalls, Context
<1>2. ASSUME ~disturbed' PROVE TxCalls' /\ TxRing'
  <2>1. ~disturbed /\ ~txOwn[DMATxDescToSet] /\ (c = "isr" => out["main"].at = "idle")
        /\ queued' = queued
    BY <1>2 DEF Begins
  <2>2. \A e \in Context : e # c => out'[e].at = "idle"
    BY <1>c, <2>1 DEF TxInv, TxCalls, Context
  <2>3. \A p \in Piece : ~(p < 1)
    BY Sizes DEF Piece
  <2>4. TxCalls'
    BY <1>1, <1>a, <1>b, <2>1, <2>2, <2>3 DEF TxCalls
  <2>5. TxRing'
    BY <1>a, <2>1 DEF TxInv, TxRing, TxPos
  <2> QED BY <2>4, <2>5
<1>3. ASSUME disturbed' PROVE TxCalls' /\ TxRing'
  BY <1>1, <1>3 DEF TxCalls, TxRing
<1> QED BY <1>2, <1>3 DEF TxInv

LEMMA CopyPieceTx ==
  ASSUME TypeOK, TxInv, NEW c \in Context, CopyPiece(c)
  PROVE  TxInv'
<1>a. /\ out \in [Context -> Call] /\ out[c].at = "copy" /\ out[c].piece \in Piece
      /\ txBuf \in [Tx -> [Piece -> Ids]] /\ DMATxDescToSet \in Tx /\ txDma \in Tx
      /\ out[c].buffer \in Tx
      /\ Len(queued) \in Nat
      /\ UNCHANGED <<isr, txOwn, txDma, DMATxDescToSet, queued, disturbed>>
  BY TxTypes DEF CopyPiece, Filled, Call
<1>b. /\ out' = [out EXCEPT ![c].piece = @ + 1]
      /\ txBuf' = [txBuf EXCEPT ![out[c].buffer][out[c].piece] = out[c].id]
  BY DEF CopyPiece
<1>c. /\ out'[c] = [out[c] EXCEPT !.piece = @ + 1]
      /\ \A e \in Context : e # c => out'[e] = out[e]
  BY <1>a, <1>b
<1>d. out'[c].at = "copy" /\ out'[c].buffer = out[c].buffer
      /\ out'[c].piece = out[c].piece + 1 /\ out'[c].id = out[c].id
  <2>1. out[c] \in Call
    BY <1>a
  <2> QED BY <1>a, <1>c, <2>1 DEF Call
<1>1. isr' # "output" => out'["isr"].at = "idle"
  BY <1>a, <1>c, <1>d DEF TxInv, TxCalls, Context
<1>2. ASSUME ~disturbed PROVE TxCalls' /\ TxRing'
  <2>1. /\ out[c].buffer = DMATxDescToSet /\ ~txOwn[DMATxDescToSet]
        /\ \A e \in Context : e # c => out[e].at = "idle"
        /\ \A p \in Piece : p < out[c].piece => txBuf[DMATxDescToSet][p] = out[c].id
    BY <1>2, <1>a DEF TxInv, TxCalls
  <2>2. \A p \in Piece : p < out[c].piece + 1 => txBuf'[DMATxDescToSet][p] = out[c].id
    <3> TAKE p \in Piece
    <3> HAVE p < out[c].piece + 1
    <3>1. p \in Int /\ out[c].piece \in Int
      BY <1>a, Sizes DEF Piece
    <3>2. CASE p = out[c].piece
      BY <1>a, <1>b, <2>1, <3>2
    <3>3. CASE p # out[c].piece
      BY <1>a, <1>b, <2>1, <3>1, <3>3
    <3> QED BY <3>2, <3>3
  <2>3. TxCalls'
    <3>1. \A e \in Context : out'[e].at # "idle" => e = c
      BY <1>c, <2>1
    <3>2. \A e \in Context : e # c => out'[e].at = "idle"
      BY <1>c, <2>1
    <3>3. out'[c].buffer = DMATxDescToSet' /\ ~txOwn'[DMATxDescToSet']
      BY <1>a, <1>d, <2>1
    <3>4. \A p \in Piece : p < out'[c].piece => txBuf'[DMATxDescToSet'][p] = out'[c].id
      BY <1>a, <1>d, <2>2
    <3> QED BY <1>1, <1>d, <3>1, <3>2, <3>3, <3>4 DEF TxCalls
  <2>4. \A k \in 1 .. Len(queued) : TxPos(k) \in Tx /\ txBuf'[TxPos(k)] = txBuf[TxPos(k)]
    <3> TAKE k \in 1 .. Len(queued)
    <3>1. k \in 1 .. NTx
      BY <1>a, <1>2, Sizes DEF TxInv, TxRing
    <3>2. TxPos(k) \in Tx
      BY <3>1, <1>a, TxPositions
    <3>3. txOwn[TxPos(k)]
      BY <1>2, <3>2 DEF TxInv, TxRing
    <3> QED BY <1>a, <1>b, <2>1, <3>2, <3>3
  <2>5. TxRing'
    BY <1>2, <1>a, <2>4 DEF TxInv, TxRing, TxPos
  <2> QED BY <2>3, <2>5
<1>3. ASSUME disturbed PROVE TxCalls' /\ TxRing'
  BY <1>1, <1>3, <1>a DEF TxCalls, TxRing
<1> QED BY <1>2, <1>3 DEF TxInv

LEMMA TxErrorTx ==
  ASSUME TypeOK, TxInv, NEW c \in Context, TxError(c)
  PROVE  TxInv'
<1>a. /\ out \in [Context -> Call] /\ out' = [out EXCEPT ![c] = Idle]
      /\ UNCHANGED <<txOwn, txBuf, txDma, DMATxDescToSet, queued, disturbed>>
      /\ IF c = "isr" THEN TRUE ELSE UNCHANGED isr
  BY TxTypes DEF TxError, Goes
<1>b. out'[c].at = "idle" /\ \A e \in Context : e # c => out'[e] = out[e]
  BY <1>a DEF Idle
<1>1. isr' # "output" => out'["isr"].at = "idle"
  BY <1>a, <1>b DEF TxInv, TxCalls, Context
<1>2. TxCalls'
  BY <1>1, <1>a, <1>b DEF TxInv, TxCalls
<1>3. TxRing'
  BY <1>a DEF TxInv, TxRing, TxPos
<1> QED BY <1>2, <1>3 DEF TxInv

LEMMA TxCheckTx ==
  ASSUME TypeOK, TxInv, NEW c \in Context, TxCheck(c)
  PROVE  TxInv'
<1>a. /\ out \in [Context -> Call] /\ out[c].at = "copy" /\ out[c].piece \notin Piece
      /\ out' = [out EXCEPT ![c].at = "give", ![c].desc = DMATxDescToSet]
      /\ UNCHANGED <<isr, txOwn, txBuf, txDma, DMATxDescToSet, queued, disturbed>>
  BY TxTypes DEF TxCheck, Filled
<1>b. out[c] \in Call
  BY <1>a
<1>c. /\ out'[c].at = "give" /\ out'[c].desc = DMATxDescToSet
      /\ out'[c].buffer = out[c].buffer /\ out'[c].piece = out[c].piece
      /\ out'[c].id = out[c].id
      /\ \A e \in Context : e # c => out'[e] = out[e]
  BY <1>a, <1>b DEF Call
<1>d. out[c].piece = Pieces + 1
  BY <1>a, <1>b, Sizes DEF Call, Piece
<1>1. isr' # "output" => out'["isr"].at = "idle"
  BY <1>a, <1>c DEF TxInv, TxCalls, Context
<1>2. TxCalls'
  BY <1>1, <1>a, <1>c, <1>d DEF TxInv, TxCalls
<1>3. TxRing'
  BY <1>a DEF TxInv, TxRing, TxPos
<1> QED BY <1>2, <1>3 DEF TxInv

LEMMA TxGiveTx ==
  ASSUME TypeOK, TxInv, NEW c \in Context, TxGive(c)
  PROVE  TxInv'
<1>a. /\ out \in [Context -> Call] /\ out[c].at = "give" /\ txOwn \in [Tx -> BOOLEAN]
      /\ txDma \in Tx /\ DMATxDescToSet \in Tx
      /\ queued \in Seq(Ids) /\ Len(queued) \in Nat
      /\ out' = [out EXCEPT ![c] = Idle]
      /\ UNCHANGED <<txBuf, txDma, disturbed>>
      /\ IF c = "isr" THEN TRUE ELSE UNCHANGED isr
  BY TxTypes DEF TxGive, Goes
<1>b. out'[c].at = "idle" /\ \A e \in Context : e # c => out'[e] = out[e]
  BY <1>a DEF Idle
<1>c. out[c].id \in Ids
  BY <1>a DEF Call
<1>1. isr' # "output" => out'["isr"].at = "idle"
  BY <1>a, <1>b DEF TxInv, TxCalls, Context
<1>2. ASSUME ~disturbed PROVE TxCalls' /\ TxRing'
  <2> DEFINE n == Len(queued)
  <2>1. /\ out[c].desc = DMATxDescToSet /\ ~txOwn[DMATxDescToSet]
        /\ \A e \in Context : e # c => out[e].at = "idle"
        /\ out[c].piece = Pieces + 1
        /\ \A p \in Piece : p < out[c].piece => txBuf[DMATxDescToSet][p] = out[c].id
    BY <1>2, <1>a DEF TxInv, TxCalls
  <2>2. /\ txOwn' = [txOwn EXCEPT ![DMATxDescToSet] = TRUE]
        /\ DMATxDescToSet' = NextTx(DMATxDescToSet)
        /\ queued' = Append(queued, out[c].id)
    BY <1>2, <2>1 DEF TxGive, Following
  <2>3. TxCalls'
    BY <1>1, <1>b, <2>1 DEF TxCalls
  <2>4. n <= NTx /\ TxPos(n + 1) = DMATxDescToSet
    BY <1>2 DEF TxInv, TxRing
  <2>5. n # NTx
    <3> SUFFICES ASSUME n = NTx PROVE FALSE
      OBVIOUS
    <3>1. DMATxDescToSet = TxPos(1) /\ 1 \in 1 .. n
      BY <2>4, <1>a, TxPositions, Sizes
    <3> QED BY <1>2, <1>a, <2>1, <3>1 DEF TxInv, TxRing
  <2>6. n + 1 \in 1 .. NTx
    BY <1>a, <2>4, <2>5, Sizes
  <2>7. /\ Len(queued') = n + 1 /\ queued'[n + 1] = out[c].id
        /\ \A k \in 1 .. n : queued'[k] = queued[k]
    BY <1>a, <1>c, <2>2
  <2>8. TxPos(n + 2) = NextTx(DMATxDescToSet)
    BY <1>a, <2>4, <2>6, TxPositions
  <2>9. \A d \in Tx : txOwn'[d] <=> \E k \in 1 .. n + 1 : TxPos(k) = d
    <3> TAKE d \in Tx
    <3>1. txOwn[d] <=> \E k \in 1 .. n : TxPos(k) = d
      BY <1>2 DEF TxInv, TxRing
    <3>2. txOwn'[d] <=> txOwn[d] \/ d = DMATxDescToSet
      BY <1>a, <2>2
    <3>3. 1 .. n + 1 = (1 .. n) \cup {n + 1}
      BY <1>a
    <3> QED BY <2>4, <3>1, <3>2, <3>3
  <2>10. \A k \in 1 .. n + 1 : \A p \in Piece : txBuf[TxPos(k)][p] = queued'[k]
    <3> TAKE k \in 1 .. n + 1
    <3>1. CASE k = n + 1
      <4>1. \A p \in Piece : p < Pieces + 1
        BY Sizes DEF Piece
      <4> QED BY <2>1, <2>4, <2>7, <3>1, <4>1
    <3>2. CASE k # n + 1
      <4>1. k \in 1 .. n
        BY <3>2, <1>a
      <4> QED BY <1>2, <2>7, <4>1 DEF TxInv, TxRing
    <3> QED BY <3>1, <3>2
  <2>11. TxRing'
    <3>1. \A k : TxPos(k)' = TxPos(k)
      BY <1>a DEF TxPos
    <3>2. Len(queued)' + 1 = n + 2
      BY <1>a, <2>7
    <3> QED BY <1>a, <2>2, <2>6, <2>7, <2>8, <2>9, <2>10, <3>1, <3>2 DEF TxRing
  <2> QED BY <2>3, <2>11
<1>3. ASSUME disturbed PROVE TxCalls' /\ TxRing'
  BY <1>1, <1>3, <1>a DEF TxCalls, TxRing
<1> QED BY <1>2, <1>3 DEF TxInv

LEMMA FrameLeavesTx ==
  ASSUME TypeOK, TxInv, FrameLeaves
  PROVE  /\ TxInv'
         /\ ~disturbed => queued # <<>> /\ \A p \in Piece : txBuf[txDma][p] = Head(queued)
<1>a. /\ txOwn \in [Tx -> BOOLEAN] /\ txBuf \in [Tx -> [Piece -> Ids]]
      /\ txDma \in Tx /\ DMATxDescToSet \in Tx
      /\ queued \in Seq(Ids) /\ Len(queued) \in Nat
      /\ txOwn[txDma] /\ txOwn' = [txOwn EXCEPT ![txDma] = FALSE]
      /\ txDma' = NextTx(txDma) /\ txBuf' = [txBuf EXCEPT ![txDma] = Blank]
      /\ UNCHANGED <<isr, DMATxDescToSet, out, disturbed>>
  BY TxTypes DEF FrameLeaves
<1>1. ASSUME disturbed PROVE TxInv'
  BY <1>1, <1>a DEF TxInv, TxCalls, TxRing
<1>2. ASSUME ~disturbed
      PROVE  TxInv' /\ queued # <<>> /\ \A p \in Piece : txBuf[txDma][p] = Head(queued)
  <2> DEFINE n == Len(queued)
  <2>1. /\ n <= NTx /\ TxPos(n + 1) = DMATxDescToSet
        /\ \A d \in Tx : txOwn[d] <=> \E k \in 1 .. n : TxPos(k) = d
        /\ \A k \in 1 .. n : \A p \in Piece : txBuf[TxPos(k)][p] = queued[k]
    BY <1>2 DEF TxInv, TxRing
  <2>2. n >= 1 /\ TxPos(1) = txDma
    BY <1>a, <2>1, TxPositions
  <2>3. queued # <<>> /\ Head(queued) = queued[1]
    BY <1>a, <2>2
  <2>4. \A p \in Piece : txBuf[txDma][p] = Head(queued)
    BY <1>a, <2>1, <2>2, <2>3
  <2>5. /\ Len(queued') = n - 1
        /\ \A k \in 1 .. n - 1 : queued'[k] = queued[k + 1]
    BY <1>a, <2>2, <2>3 DEF FrameLeaves
  <2>6. \A k \in 1 .. n : TxPos(k)' = TxPos(k + 1)
    BY <1>a, <2>1, Sizes DEF TxPos, NextTx, Tx
  <2>7. \A k \in 1 .. n - 1 : /\ k + 1 \in 1 .. n /\ TxPos(k + 1) \in Tx
                              /\ TxPos(k + 1) # txDma
    <3> TAKE k \in 1 .. n - 1
    <3>1. k + 1 \in 1 .. n /\ k + 1 \in 1 .. NTx /\ 1 \in 1 .. NTx /\ k + 1 # 1
      BY <1>a, <2>1, Sizes
    <3> QED BY <1>a, <2>2, <3>1, TxPositions
  <2>8. TxCalls'
    <3>1. \A c \in Context : out[c].at # "idle" => DMATxDescToSet # txDma
      BY <1>2, <1>a DEF TxInv, TxCalls
    <3>2. DMATxDescToSet # txDma => /\ txOwn'[DMATxDescToSet] = txOwn[DMATxDescToSet]
                                    /\ txBuf'[DMATxDescToSet] = txBuf[DMATxDescToSet]
      BY <1>a
    <3> QED BY <1>2, <1>a, <3>1, <3>2 DEF TxInv, TxCalls
  <2>9. \A d \in Tx : txOwn'[d] <=> \E k \in 1 .. n - 1 : TxPos(k + 1) = d
    <3> TAKE d \in Tx
    <3>1. txOwn'[d] <=> txOwn[d] /\ d # txDma
      BY <1>a
    <3>2. ASSUME txOwn[d], d # txDma PROVE \E k \in 1 .. n - 1 : TxPos(k + 1) = d
      <4>1. PICK j \in 1 .. n : TxPos(j) = d
        BY <2>1, <3>2
      <4>2. j # 1 /\ j - 1 \in 1 .. n - 1 /\ (j - 1) + 1 = j
        BY <1>a, <2>2, <3>2, <4>1
      <4> QED BY <4>1, <4>2
    <3>3. ASSUME NEW k \in 1 .. n - 1, TxPos(k + 1) = d PROVE txOwn[d] /\ d # txDma
      BY <2>1, <2>7, <3>3
    <3> QED BY <3>1, <3>2, <3>3
  <2>10. \A k \in 1 .. n - 1 : \A p \in Piece : txBuf'[TxPos(k + 1)][p] = queued'[k]
    BY <1>a, <2>1, <2>5, <2>7
  <2>11. TxRing'
    <3>1. TxPos(Len(queued) + 1)' = DMATxDescToSet
      <4>1. PICK m \in 1 .. n : m = n
        BY <1>a, <2>2
      <4>2. Len(queued)' + 1 = m
        BY <1>a, <2>5, <4>1
      <4>3. TxPos(Len(queued) + 1)' = TxPos(m)'
        BY <4>2 DEF TxPos
      <4> QED BY <1>a, <2>1, <2>6, <4>1, <4>3
    <3>2. \A k \in 1 .. n - 1 : TxPos(k)' = TxPos(k + 1)
      BY <1>a, <2>6
    <3>3. Len(queued)' <= NTx
      BY <1>a, <2>1, <2>5, Sizes
    <3>4. \A d \in Tx : txOwn'[d] <=> \E k \in 1 .. Len(queued') : TxPos(k)' = d
      BY <2>5, <2>9, <3>2
    <3>5. \A k \in 1 .. Len(queued') : \A p \in Piece : txBuf'[TxPos(k)'][p] = queued'[k]
      BY <2>5, <2>10, <3>2
    <3> QED BY <1>a, <3>1, <3>3, <3>4, <3>5 DEF TxRing
  <2> QED BY <2>3, <2>4, <2>8, <2>11 DEF TxInv
<1> QED BY <1>1, <1>2, <1>a

LEMMA TxStep ==
  ASSUME TypeOK, TxInv, [Next]_vars
  PROVE  TxInv'
<1>1. CASE \E broken \in BOOLEAN : FrameArrives(broken)
  BY <1>1, TxUntouched DEF FrameArrives
<1>2. CASE \/ ETH_IRQHandler \/ ETH_Rx_Packet \/ GiveDescriptorBack
           \/ NoReply \/ NoMoreFrames \/ ClearITPendingBit
           \/ \E alloc \in BOOLEAN : CopyFrame(alloc)
  <2>1. UNCHANGED txVars /\ isr # "output"
    BY <1>2 DEF ETH_IRQHandler, ETH_Rx_Packet, GiveDescriptorBack, NoReply,
                NoMoreFrames, ClearITPendingBit, CopyFrame
  <2> QED BY <2>1, TxUntouched
<1>3. ASSUME NEW id \in Ids, IsrSends(id) PROVE TxInv'
  BY <1>3, BeginsTx DEF IsrSends, Context
<1>4. ASSUME NEW id \in Ids, MainSends(id) PROVE TxInv'
  BY <1>4, BeginsTx DEF MainSends, Runs, Context
<1>5. ASSUME NEW c \in Context, CopyPiece(c) PROVE TxInv'
  BY <1>5, CopyPieceTx
<1>6. ASSUME NEW c \in Context, TxError(c) PROVE TxInv'
  BY <1>6, TxErrorTx
<1>7. ASSUME NEW c \in Context, TxCheck(c) PROVE TxInv'
  BY <1>7, TxCheckTx
<1>8. ASSUME NEW c \in Context, TxGive(c) PROVE TxInv'
  BY <1>8, TxGiveTx
<1>9. CASE FrameLeaves
  BY <1>9, FrameLeavesTx
<1>10. CASE UNCHANGED vars
  BY <1>10, TxUntouched DEF vars
<1> QED BY <1>1, <1>2, <1>3, <1>4, <1>5, <1>6, <1>7, <1>8, <1>9, <1>10
        DEF Next, Handler, Output

LEMMA TxInitially == Init => TxInv
<1> SUFFICES ASSUME Init PROVE TxInv
  OBVIOUS
<1>1. Len(queued) = 0 /\ 1 .. 0 = {} /\ TxPos(1) = 0
  BY Sizes DEF Init, TxPos
<1>2. TxRing
  BY <1>1, Sizes DEF Init, TxRing
<1>3. TxCalls
  BY DEF Init, TxCalls, Idle, Context
<1> QED BY <1>2, <1>3 DEF TxInv

LEMMA TxAlways == Spec => [](IInv /\ RxInv /\ TxInv)
<1>1. IInv /\ TxInv /\ [Next]_vars => TxInv'
  BY TxStep DEF IInv
<1> QED BY <1>1, TxInitially, RxAlways, PTL DEF Spec

(* Frames leave whole and in the order in which they were given, unless a    *)
(* call began while the ring was full or in an interrupt of another.         *)
THEOREM LeaveAsGiven == Spec => FramesLeaveAsGiven
<1>1. IInv /\ TxInv =>
        [FrameLeaves /\ ~disturbed =>
           queued # <<>> /\ \A p \in Piece : txBuf[txDma][p] = Head(queued)]_vars
  BY FrameLeavesTx DEF IInv
<1> QED BY <1>1, TxAlways, PTL DEF FramesLeaveAsGiven

(* The program and the DMA agree where the frames are, in both rings.        *)
THEOREM RingsInStep == Spec => []InStep
<1>1. ASSUME TypeOK, RxInv, rxOwn[DMARxDescToGet], NEW d \in Rx
      PROVE  rxOwn[d] \/ (d = frame /\ isr \in {"copy", "giveback"})
  <2>a. /\ DMARxDescToGet \in Rx /\ frame \in Rx /\ rxDma \in Rx
        /\ NRx \in Nat /\ NRx > 0
    BY <1>1, RxTypes, Sizes
  <2>1. CASE Copying
    <3>1. First = frame /\ DMARxDescToGet = NextRx(frame) /\ First # rxDma
      BY <1>1, <2>1, <2>a DEF First, RxInv, RxRing
    <3>2. ~Within(frame, rxDma, NextRx(frame))
      BY <1>1, <2>a, <3>1 DEF RxInv, RxRing
    <3>3. Within(frame, rxDma, d) => d = frame
      BY <2>a, <3>1, <3>2 DEF Within, NextRx, Rx
    <3> QED BY <1>1, <2>1, <3>1, <3>3 DEF RxInv, RxRing, Copying
  <2>2. CASE ~Copying
    <3>1. First = DMARxDescToGet
      BY <2>2 DEF First
    <3>2. First = rxDma
      BY <1>1, <2>a, <3>1 DEF RxInv, RxRing, Within, Rx
    <3> QED BY <1>1, <2>a, <3>1, <3>2 DEF RxInv, RxRing
  <2> QED BY <2>1, <2>2
<1>2. ASSUME TypeOK, TxInv, ~disturbed, ~txOwn[txDma], NEW d \in Tx
      PROVE  ~txOwn[d]
  <2>1. txDma \in Tx /\ Len(queued) \in Nat /\ TxPos(1) = txDma
    BY <1>2, TxTypes, TxPositions
  <2>2. ~ 1 \in 1 .. Len(queued)
    BY <1>2, <2>1 DEF TxInv, TxRing
  <2>3. 1 .. Len(queued) = {}
    BY <2>1, <2>2
  <2> QED BY <1>2, <2>3 DEF TxInv, TxRing
<1>3. IInv /\ RxInv /\ TxInv => InStep
  BY <1>1, <1>2 DEF IInv, InStep
<1> QED BY <1>3, TxAlways, PTL
=============================================================================
