------------------------------- MODULE EthDma -------------------------------
(***************************************************************************)
(* The Ethernet driver: RTL8370MB.c, ethernetif.c and the descriptor rings *)
(* of stm32f4x7_eth.c.  A descriptor has an OWN bit: the DMA uses those    *)
(* that it owns, the program the others.  Three actors: the DMA (external),*)
(* the interrupt, which takes what was received and lets lwIP answer, and  *)
(* the main loop, which sends and is interrupted anywhere.                 *)
(*                                                                         *)
(* A received frame is its number, a frame to be sent the identity in each *)
(* of its pieces (one memcpy a pbuf).  A DMA without a descriptor goes on  *)
(* with the next frame that finds one, so RBUS and TBUS are left out.      *)
(***************************************************************************)
EXTENDS Integers, Sequences

CONSTANTS NRx, NTx,   \* descriptors: ETH_RXBUFNB, ETH_TXBUFNB
          Mod,        \* bound: received frames are numbered modulo this
          Pieces,     \* pbufs of a frame that is sent
          Ids         \* the frames that are sent

Rx == 0 .. NRx - 1
Tx == 0 .. NTx - 1
Num == 0 .. Mod - 1
Piece == 1 .. Pieces
Context == {"main", "isr"}

ASSUME EthDmaAssumption ==
  /\ NRx \in Nat \ {0} /\ NTx \in Nat \ {0}
  /\ Mod \in Nat \ {0} /\ Pieces \in Nat /\ Ids # {}

VARIABLES
  rxOwn,           \* OWN of each receive descriptor
  rxFrame,         \* what its buffer holds: num, and whether it is broken
  rxDma,           \* the descriptor the DMA stores into next
  DMARxDescToGet,
  irq,             \* the receive interrupt is pending
  isr,             \* where the interrupt handler is: see Isrs
  frame, copied,   \* the descriptor it took, and what it has of it in a pbuf
  nIn, nOut,       \* history: numbers of the frames stored and taken
  txOwn, txBuf,    \* OWN and buffer of each transmit descriptor
  txDma,           \* the descriptor the DMA sends from next
  DMATxDescToSet,
  out,             \* calls of low_level_output, in either context
  queued,          \* history: the frames given to the DMA and not yet sent
  disturbed        \* history: see Begins

rxVars == <<rxOwn, rxFrame, rxDma, DMARxDescToGet, irq, frame, copied, nIn, nOut>>
txVars == <<txOwn, txBuf, txDma, DMATxDescToSet, out, queued, disturbed>>
vars == <<rxVars, isr, txVars>>

Isrs == {"none", "check", "copy", "giveback", "input", "output", "leave"}

NextRx(d) == IF d = NRx - 1 THEN 0 ELSE d + 1
NextTx(d) == IF d = NTx - 1 THEN 0 ELSE d + 1
NextNum(n) == IF n = Mod - 1 THEN 0 ELSE n + 1

(* A buffer that was emptied: what is left in it is never used. *)
NoFrame == [num |-> 0, broken |-> FALSE]
AnyId == CHOOSE id \in Ids : TRUE
Blank == [p \in Piece |-> AnyId]

Idle == [at |-> "idle", buffer |-> 0, piece |-> 1, desc |-> 0, id |-> AnyId]

(* ETH_DMARxDescChainInit, ETH_DMATxDescChainInit. *)
Init ==
  /\ rxOwn = [d \in Rx |-> TRUE]
  /\ rxFrame = [d \in Rx |-> NoFrame]
  /\ rxDma = 0 /\ DMARxDescToGet = 0
  /\ irq = FALSE /\ isr = "none"
  /\ frame = 0 /\ copied = {} /\ nIn = 0 /\ nOut = 0
  /\ txOwn = [d \in Tx |-> FALSE]
  /\ txBuf = [d \in Tx |-> Blank]
  /\ txDma = 0 /\ DMATxDescToSet = 0
  /\ out = [c \in Context |-> Idle]
  /\ queued = <<>> /\ disturbed = FALSE

-----------------------------------------------------------------------------
(* Receiving. *)

(* The DMA stores a frame and raises the interrupt; without a descriptor the *)
(* frame is lost.  broken: with an error, or the first part of one that is   *)
(* longer than a buffer.  Between the last check of the handler and its end  *)
(* there is no time for more than one frame.                                 *)
FrameArrives(broken) ==
  /\ rxOwn[rxDma]
  /\ isr = "leave" => rxOwn[DMARxDescToGet]
  /\ rxOwn' = [rxOwn EXCEPT ![rxDma] = FALSE]
  /\ rxFrame' = [rxFrame EXCEPT ![rxDma] = [num |-> nIn, broken |-> broken]]
  /\ rxDma' = NextRx(rxDma)
  /\ nIn' = NextNum(nIn)
  /\ irq' = TRUE
  /\ UNCHANGED <<DMARxDescToGet, frame, copied, nOut, isr, txVars>>

ETH_IRQHandler ==
  /\ isr = "none" /\ irq
  /\ isr' = "check"
  /\ UNCHANGED <<rxVars, txVars>>

(* ETH_GetRxPktSize is not 0. *)
HasFrame(d) == ~rxOwn[d] /\ ~rxFrame[d].broken

(* Mutant of OwnAfterTaking: the descriptor goes back before the copy. *)
OwnAtOnce == [rxOwn EXCEPT ![DMARxDescToGet] = TRUE]

OwnAfterTaking == rxOwn

(* ETH_Rx_Packet.  It is called only where HasFrame, so it never fails. *)
ETH_Rx_Packet ==
  /\ isr = "check" /\ HasFrame(DMARxDescToGet)
  /\ frame' = DMARxDescToGet
  /\ DMARxDescToGet' = NextRx(DMARxDescToGet)
  /\ rxOwn' = OwnAfterTaking
  /\ isr' = "copy"
  /\ UNCHANGED <<rxFrame, rxDma, irq, copied, nIn, nOut, txVars>>

(* low_level_input, if there is a pbuf, and if there is none. *)
CopyFrame(alloc) ==
  /\ isr = "copy"
  /\ copied' = IF alloc THEN {rxFrame[frame].num} ELSE {}
  /\ isr' = "giveback"
  /\ UNCHANGED <<rxOwn, rxFrame, rxDma, DMARxDescToGet, irq, frame, nIn, nOut, txVars>>

(* Mutant of Returned: a frame without a pbuf keeps its descriptor. *)
ReturnedIfCopied ==
  IF copied = {} THEN rxOwn ELSE [rxOwn EXCEPT ![frame] = TRUE]

Returned == [rxOwn EXCEPT ![frame] = TRUE]

GiveDescriptorBack ==
  /\ isr = "giveback"
  /\ rxOwn' = Returned
  /\ nOut' = NextNum(nOut)
  /\ rxFrame' = [rxFrame EXCEPT ![frame] = NoFrame]
  /\ frame' = 0 /\ copied' = {}
  /\ isr' = IF copied = {} THEN "check" ELSE "input"
  /\ UNCHANGED <<rxDma, DMARxDescToGet, irq, nIn, txVars>>

(* netif->input.  It may send (IsrSends); here it does not. *)
NoReply ==
  /\ isr = "input"
  /\ isr' = "check"
  /\ UNCHANGED <<rxVars, txVars>>

NoMoreFrames ==
  /\ isr = "check" /\ ~HasFrame(DMARxDescToGet)
  /\ isr' = "leave"
  /\ UNCHANGED <<rxVars, txVars>>

(* R and NIS are cleared, those of a frame that came in between, too. *)
ClearITPendingBit ==
  /\ isr = "leave"
  /\ irq' = FALSE
  /\ isr' = "none"
  /\ UNCHANGED <<rxOwn, rxFrame, rxDma, DMARxDescToGet, frame, copied, nIn, nOut, txVars>>

-----------------------------------------------------------------------------
(* Sending: low_level_output, in the main loop or within netif->input. *)

(* The main loop moves only when no interrupt is being handled. *)
Runs(c) == IF c = "main" THEN isr = "none" ELSE isr = "output"

(* The interrupt goes on with the next frame when it has sent. *)
Goes(c) == isr' = IF c = "isr" THEN "check" ELSE isr

(* ETH_GetCurrentTxBuffer.  Nobody looks who owns the buffer, nor whether    *)
(* the main loop is filling it: from then on nothing is promised.            *)
Begins(c, id) ==
  /\ out[c].at = "idle"
  /\ out' = [out EXCEPT ![c] = [Idle EXCEPT !.at = "copy",
                                            !.buffer = DMATxDescToSet, !.id = id]]
  /\ disturbed' = (\/ disturbed
                   \/ txOwn[DMATxDescToSet]
                   \/ c = "isr" /\ out["main"].at # "idle")
  /\ queued' = IF disturbed' THEN <<>> ELSE queued
  /\ UNCHANGED <<rxVars, txOwn, txBuf, txDma, DMATxDescToSet>>

MainSends(id) == Runs("main") /\ Begins("main", id) /\ UNCHANGED isr

IsrSends(id) == isr = "input" /\ isr' = "output" /\ Begins("isr", id)

(* Mutant of Filled: the last pbuf of the chain is left out. *)
FilledButLast(c) == out[c].piece \notin Piece \ {Pieces}

Filled(c) == out[c].piece \notin Piece

CopyPiece(c) ==
  /\ Runs(c) /\ out[c].at = "copy" /\ ~Filled(c)
  /\ txBuf' = [txBuf EXCEPT ![out[c].buffer][out[c].piece] = out[c].id]
  /\ out' = [out EXCEPT ![c].piece = @ + 1]
  /\ UNCHANGED <<rxVars, isr, txOwn, txDma, DMATxDescToSet, queued, disturbed>>

(* ETH_Tx_Packet: the ring is full. *)
TxError(c) ==
  /\ Runs(c) /\ out[c].at = "copy" /\ Filled(c)
  /\ txOwn[DMATxDescToSet]
  /\ out' = [out EXCEPT ![c] = Idle]
  /\ Goes(c)
  /\ UNCHANGED <<rxVars, txOwn, txBuf, txDma, DMATxDescToSet, queued, disturbed>>

TxCheck(c) ==
  /\ Runs(c) /\ out[c].at = "copy" /\ Filled(c)
  /\ ~txOwn[DMATxDescToSet]
  /\ out' = [out EXCEPT ![c].at = "give", ![c].desc = DMATxDescToSet]
  /\ UNCHANGED <<rxVars, isr, txOwn, txBuf, txDma, DMATxDescToSet, queued, disturbed>>

(* Mutant of Following: the ring ends one descriptor early. *)
FollowingShort(d) == IF d = NTx - 2 THEN 0 ELSE d + 1

Following(d) == NextTx(d)

(* The pointer is a global that is not volatile: the build may go on with    *)
(* the value it checked, or read the pointer again.  OWN is set before the   *)
(* pointer moves on, which is one step here: the DMA does not look at the    *)
(* pointer, and an interrupt that sends in between disturbs the call, as     *)
(* whatever interrupt sends within it.                                       *)
TxGive(c) ==
  /\ Runs(c) /\ out[c].at = "give"
  /\ \E d \in {out[c].desc, DMATxDescToSet} :
       /\ txOwn' = [txOwn EXCEPT ![d] = TRUE]
       /\ DMATxDescToSet' = Following(d)
  /\ queued' = IF disturbed THEN <<>> ELSE Append(queued, out[c].id)
  /\ out' = [out EXCEPT ![c] = Idle]
  /\ Goes(c)
  /\ UNCHANGED <<rxVars, txBuf, txDma, disturbed>>

(* The DMA sends what is in the buffer and hands the descriptor back. *)
FrameLeaves ==
  /\ txOwn[txDma]
  /\ txOwn' = [txOwn EXCEPT ![txDma] = FALSE]
  /\ txDma' = NextTx(txDma)
  /\ txBuf' = [txBuf EXCEPT ![txDma] = Blank]
  /\ queued' = IF queued = <<>> THEN <<>> ELSE Tail(queued)
  /\ UNCHANGED <<rxVars, isr, DMATxDescToSet, out, disturbed>>

-----------------------------------------------------------------------------
Handler ==
  \/ ETH_IRQHandler \/ ETH_Rx_Packet
  \/ \E alloc \in BOOLEAN : CopyFrame(alloc)
  \/ GiveDescriptorBack \/ NoReply \/ NoMoreFrames \/ ClearITPendingBit
  \/ \E id \in Ids : IsrSends(id)

Output(c) == CopyPiece(c) \/ TxError(c) \/ TxCheck(c) \/ TxGive(c)

Next ==
  \/ \E broken \in BOOLEAN : FrameArrives(broken)
  \/ Handler
  \/ \E id \in Ids : MainSends(id)
  \/ \E c \in Context : Output(c)
  \/ FrameLeaves

Spec == Init /\ [][Next]_vars

(* The processor runs, the DMA sends, and frames that are whole keep coming. *)
FairSpec ==
  /\ Spec
  /\ WF_vars(Handler \/ Output("isr"))
  /\ WF_vars(FrameLeaves)
  /\ SF_vars(FrameArrives(FALSE))

-----------------------------------------------------------------------------
Call == [at : {"idle", "copy", "give"}, buffer : Tx, piece : 1 .. Pieces + 1,
         desc : Tx, id : Ids]

TypeOK ==
  /\ rxOwn \in [Rx -> BOOLEAN]
  /\ rxFrame \in [Rx -> [num : Num, broken : BOOLEAN]]
  /\ rxDma \in Rx /\ DMARxDescToGet \in Rx /\ frame \in Rx
  /\ irq \in BOOLEAN /\ isr \in Isrs
  /\ copied \in SUBSET Num /\ nIn \in Num /\ nOut \in Num
  /\ txOwn \in [Tx -> BOOLEAN]
  /\ txBuf \in [Tx -> [Piece -> Ids]]
  /\ txDma \in Tx /\ DMATxDescToSet \in Tx
  /\ out \in [Context -> Call]
  /\ queued \in Seq(Ids) /\ disturbed \in BOOLEAN

(* The handler reads, and gives back, only a buffer the DMA does not own.    *)
CopiesOwnBuffer == isr \in {"copy", "giveback"} => ~rxOwn[frame]

IInv == TypeOK /\ CopiesOwnBuffer

(* lwIP gets the frames in the order in which they were stored, none of them *)
(* twice and none of them changed by a later one; only a frame for which     *)
(* there is no pbuf is left out.                                             *)
DeliveredInOrder == isr = "giveback" => copied \subseteq {nOut}

(* The frame the handler looks for next is one that it will never take.      *)
Stalled == ~rxOwn[DMARxDescToGet] /\ rxFrame[DMARxDescToGet].broken

(* Every descriptor goes back to the DMA, although the interrupt of a frame  *)
(* that comes as the handler ends is cleared, and although pbufs run out:    *)
(* as long as frames keep coming and none of them is broken.                 *)
DescriptorsComeBack == \A d \in Rx : ~rxOwn[d] ~> rxOwn[d] \/ Stalled

(* Frames leave whole and in the order in which they were given, from        *)
(* whatever context: unless a call began while the ring was full, or in an   *)
(* interrupt of another call.                                                *)
FramesLeaveAsGiven ==
  [][FrameLeaves /\ ~disturbed =>
       queued # <<>> /\ \A p \in Piece : txBuf[txDma][p] = Head(queued)]_vars

(* The program and the DMA never lose step with each other: neither waits at *)
(* a descriptor while the other has left one for it further on.  For sending *)
(* under the same condition as above.                                        *)
InStep ==
  /\ rxOwn[DMARxDescToGet] =>
       \A d \in Rx : rxOwn[d] \/ (d = frame /\ isr \in {"copy", "giveback"})
  /\ (~disturbed /\ ~txOwn[txDma]) => \A d \in Tx : ~txOwn[d]
=============================================================================
