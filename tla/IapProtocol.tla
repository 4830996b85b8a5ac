---------------------------- MODULE IapProtocol ----------------------------
(***************************************************************************)
(* The bootloader's command interpreter: iap_run (iap/iap.c) and the       *)
(* command functions it dispatches to (iap/st_bootloader_protocol.c), fed  *)
(* by the receive queue of CUdpDevice (User/udpDevice.cpp).                *)
(*                                                                         *)
(* The main loop alternates runReceiver and iap_run; one action per case   *)
(* of the two switch statements and outcome of that case.  The three long  *)
(* commands share one step counter, exe_tick.                              *)
(*                                                                         *)
(* Numbers are scaled down: an address is AddrLen bytes, a block of data a *)
(* multiple of Unit bytes, a byte a member of 0 .. AllOnes.  Time is the   *)
(* flag timeUp: the 200 ms since the last datagram have passed.            *)
(***************************************************************************)
EXTENDS Integers, Sequences, Functions

CONSTANTS AllOnes,       \* the largest byte
          XorByte(_, _),     \* exclusive or of two bytes
          AddrLen,       \* bytes of an address
          Unit,          \* data comes in multiples of this many bytes
          Cap,           \* elements rx_queue_ can hold
          Write, Read, Go,
          Plain,         \* the commands that do nothing but answer
          Answering,     \* those of them that do answer: 0x01 and 0x02
          Datagrams,     \* what the network may deliver
          MaxDatagrams   \* bound: how many it delivers

Byte == 0 .. AllOnes
Long == {Write, Read, Go}
Commands == Long \cup Plain
Pair(c) == <<c, XorByte(c, AllOnes)>>

ASSUME IapProtocolAssumption ==
  /\ AllOnes \in Nat
  /\ \A x, y \in Byte : XorByte(x, y) \in Byte
  /\ AddrLen \in Nat \ {0} /\ Unit \in Nat \ {0}
  /\ Cap \in Nat /\ Cap >= AddrLen + 1 /\ Cap > AllOnes + 1
  /\ Commands \subseteq Byte
  /\ Write # Read /\ Write # Go /\ Read # Go /\ Long \cap Plain = {}
  /\ Answering \subseteq Plain
  /\ Datagrams \subseteq Seq(Byte)
  /\ MaxDatagrams \in Nat

VARIABLES
  turn,         \* the function the main loop calls next
  rx_queue,     \* the unread bytes, oldest first
  timeUp,       \* data_flow_break_timer_ has run out
  iap_tick, bl_cmd, exe_tick,
  start_addr, pack_length,      \* the statics of bl_write_memory
  replies,      \* what the last call of iap_run sent
  wrote,        \* the flash write the last call of iap_run made, or NoWrite
  frame,        \* history: the bytes read since the last command was begun
  delivered     \* history: datagrams delivered so far

device == <<iap_tick, bl_cmd, exe_tick, start_addr, pack_length, frame>>
vars == <<turn, rx_queue, timeUp, device, replies, wrote, delivered>>

NoWrite == [addr |-> <<>>, data |-> <<>>, ok |-> FALSE]

Init ==
  /\ turn = "runReceiver" /\ rx_queue = <<>> /\ timeUp = FALSE
  /\ iap_tick = 0 /\ bl_cmd = 0 /\ exe_tick = 0
  /\ start_addr = [i \in 1 .. AddrLen |-> 0] /\ pack_length = 0
  /\ replies = <<>> /\ wrote = NoWrite /\ frame = <<>> /\ delivered = 0

-----------------------------------------------------------------------------
(* The device under the interpreter. *)

First(s, n) == SubSeq(s, 1, n)
Rest(s, n) == SubSeq(s, n + 1, Len(s))

Smaller(m, n) == IF m <= n THEN m ELSE n

(* push_array takes what fits and drops the rest of the datagram. *)
Receive(d) ==
  /\ turn = "runReceiver"
  /\ turn' = "iap_run"
  /\ rx_queue' = rx_queue \o First(d, Smaller(Len(d), Cap - Len(rx_queue)))
  /\ timeUp' = FALSE
  /\ UNCHANGED <<device, replies, wrote>>

ReceiveNothing ==
  /\ turn = "runReceiver"
  /\ turn' = "iap_run"
  /\ UNCHANGED <<rx_queue, timeUp, device, replies, wrote>>

runReceiver ==
  \/ /\ delivered < MaxDatagrams
     /\ \E d \in Datagrams : Receive(d)
     /\ delivered' = delivered + 1
  \/ ReceiveNothing /\ UNCHANGED delivered

(* The timer runs out between two of the calls. *)
Elapse ==
  /\ ~timeUp
  /\ timeUp' = TRUE
  /\ UNCHANGED <<turn, rx_queue, device, replies, wrote, delivered>>

(* is_data_flow_break asks for the timer only when rx_queue_ is not empty.   *)
(* An empty ring whose front pointer pop_array left at the end of the array  *)
(* and whose back pointer is at its start is not empty() to the code, so     *)
(* the answer about an empty queue is the timer's or false.  A timer that    *)
(* has run out starts again when it is asked.                                *)
Broken == timeUp
NotBroken == ~timeUp \/ rx_queue = <<>>

Consume(n) == rx_queue' = Rest(rx_queue, n)
Send(bytes) == replies' = bytes

Stay == UNCHANGED <<rx_queue, timeUp>> /\ Send(<<>>)

(* Mutant of clear_read_buf: only the timer is reset. *)
clear_timer_only == UNCHANGED rx_queue /\ timeUp' = FALSE

clear_read_buf == rx_queue' = <<>> /\ timeUp' = FALSE

-----------------------------------------------------------------------------
(* iap_run, case 0: a command byte and its complement. *)

NoCommandYet ==
  /\ iap_tick = 0 /\ Len(rx_queue) < 2
  /\ \/ Broken /\ clear_read_buf /\ Send(<<>>)
     \/ NotBroken /\ Stay
  /\ wrote' = NoWrite
  /\ UNCHANGED device

TakeCommand ==
  /\ iap_tick = 0 /\ Len(rx_queue) >= 2
  /\ Consume(2)
  /\ bl_cmd' = rx_queue[1]
  /\ frame' = First(rx_queue, 2)
  /\ \/ /\ XorByte(rx_queue[1], rx_queue[2]) = AllOnes
        /\ iap_tick' = 1 /\ Send(<<>>)
     \/ /\ XorByte(rx_queue[1], rx_queue[2]) # AllOnes
        /\ Send(<<"NACK">>) /\ UNCHANGED iap_tick
  /\ wrote' = NoWrite
  /\ UNCHANGED <<timeUp, exe_tick, start_addr, pack_length>>

-----------------------------------------------------------------------------
(* The ways a case of a command function ends. *)

In(cmds, tick) == iap_tick = 1 /\ bl_cmd \in cmds /\ exe_tick = tick

(* The steps up to BL_YIELD.  n bytes were read. *)
GoOn(n, bytes) ==
  /\ Consume(n) /\ frame' = frame \o First(rx_queue, n)
  /\ exe_tick' = exe_tick + 1
  /\ Send(bytes)
  /\ wrote' = NoWrite
  /\ UNCHANGED <<timeUp, iap_tick, bl_cmd>>

(* Mutant of BackToCase0: the command leaves its step counter as it is. *)
BackToCase0KeepingStep == iap_tick' = 0 /\ UNCHANGED exe_tick

(* BL_OK or BL_ERR, before which every command clears its counter. *)
BackToCase0 == iap_tick' = 0 /\ exe_tick' = 0

(* The steps up to BL_OK or BL_ERR: iap_run returns to case 0. *)
Leave(n, bytes) ==
  /\ Consume(n) /\ frame' = frame \o First(rx_queue, n)
  /\ BackToCase0
  /\ Send(bytes)
  /\ UNCHANGED <<timeUp, bl_cmd>>

(* Not enough bytes: wait for more, or give up when none came for 200 ms. *)
WaitFor(n) ==
  /\ Len(rx_queue) < n
  /\ \/ /\ NotBroken /\ Stay
        /\ UNCHANGED <<iap_tick, bl_cmd, exe_tick, frame>>
     \/ /\ Broken /\ clear_read_buf
        /\ BackToCase0
        /\ Send(<<>>) /\ UNCHANGED <<bl_cmd, frame>>
  /\ wrote' = NoWrite
  /\ UNCHANGED <<start_addr, pack_length>>

XorAll(s) == FoldFunction(XorByte, 0, s)

-----------------------------------------------------------------------------
(* iap_run, case 1: bl_excute_cmd. *)

UnknownCommand ==
  /\ iap_tick = 1 /\ bl_cmd \notin Commands
  /\ iap_tick' = 0
  /\ Send(<<>>) /\ wrote' = NoWrite
  /\ UNCHANGED <<rx_queue, timeUp, bl_cmd, exe_tick, start_addr, pack_length, frame>>

PlainCommand ==
  /\ iap_tick = 1 /\ bl_cmd \in Plain
  /\ iap_tick' = 0
  /\ Send(IF bl_cmd \in Answering THEN <<"ACK", "info", "ACK">> ELSE <<>>)
  /\ wrote' = NoWrite
  /\ UNCHANGED <<rx_queue, timeUp, bl_cmd, exe_tick, start_addr, pack_length, frame>>

(* case 0 of the three long commands; bl_is_read_protected() is 0. *)
BeginCommand ==
  /\ In(Long, 0)
  /\ GoOn(0, <<"ACK">>)
  /\ UNCHANGED <<start_addr, pack_length>>

(* case 1 of the three: the address and its check sum. *)
WaitAddress ==
  /\ In(Long, 1)
  /\ WaitFor(AddrLen + 1)

(* Mutant of AddressSumOK: the last byte of the address is not in the sum. *)
AddressSumOKShort == rx_queue[AddrLen + 1] = XorAll(First(rx_queue, AddrLen - 1))

AddressSumOK == rx_queue[AddrLen + 1] = XorAll(First(rx_queue, AddrLen))

(* Mutant of AddressIn: the bytes are taken in the other order. *)
AddressInReversed == [k \in 1 .. AddrLen |-> rx_queue[AddrLen + 1 - k]]

AddressIn == First(rx_queue, AddrLen)

(* Read keeps its address in a static of its own, and Go in a local: they    *)
(* choose what is sent back and where to jump, and are not modelled.         *)
KeepAddress == start_addr' = IF bl_cmd = Write THEN AddressIn ELSE start_addr

TakeAddress ==
  /\ In({Write, Read}, 1) /\ Len(rx_queue) >= AddrLen + 1
  /\ AddressSumOK
  /\ KeepAddress
  /\ GoOn(AddrLen + 1, <<"ACK">>)
  /\ UNCHANGED pack_length

(* Only Write says NACK. *)
RejectAddress ==
  /\ In(Long, 1) /\ Len(rx_queue) >= AddrLen + 1
  /\ ~AddressSumOK
  /\ KeepAddress
  /\ Leave(AddrLen + 1, IF bl_cmd = Write THEN <<"NACK">> ELSE <<>>)
  /\ wrote' = NoWrite
  /\ UNCHANGED pack_length

(* Go acknowledges and calls iap_load_app, which never returns. *)
LoadApp ==
  /\ In({Go}, 1) /\ Len(rx_queue) >= AddrLen + 1
  /\ AddressSumOK
  /\ Consume(AddrLen + 1) /\ frame' = frame \o First(rx_queue, AddrLen + 1)
  /\ Send(<<"ACK">>) /\ wrote' = NoWrite
  /\ turn' = "iap_load_app"
  /\ UNCHANGED <<timeUp, iap_tick, bl_cmd, exe_tick, start_addr, pack_length, delivered>>

-----------------------------------------------------------------------------
(* Read, case 2: the length twice; the block and its check sum are sent. *)

WaitReadLength ==
  /\ In({Read}, 2)
  /\ WaitFor(2)

TakeReadLength ==
  /\ In({Read}, 2) /\ Len(rx_queue) >= 2
  /\ Leave(2, IF rx_queue[2] = rx_queue[1] THEN <<"ACK", "block", "sum">> ELSE <<>>)
  /\ wrote' = NoWrite
  /\ UNCHANGED <<start_addr, pack_length>>

(* Write, case 2: the length, waited for without a limit. *)
WaitWriteLength ==
  /\ In({Write}, 2) /\ rx_queue = <<>>
  /\ Stay /\ wrote' = NoWrite
  /\ UNCHANGED device

TakeWriteLength ==
  /\ In({Write}, 2) /\ rx_queue # <<>>
  /\ pack_length' = rx_queue[1] + 1
  /\ \/ /\ pack_length' % Unit = 0
        /\ GoOn(1, <<>>)
     \/ /\ pack_length' % Unit # 0
        /\ Leave(1, <<>>) /\ wrote' = NoWrite
  /\ UNCHANGED start_addr

(* Write, case 3: the data and the check sum of length and data. *)
WaitData ==
  /\ In({Write}, 3)
  /\ WaitFor(pack_length + 1)

(* Mutant of DataSumOK: the length is not in the sum. *)
DataSumOKNoLength == rx_queue[pack_length + 1] = XorAll(First(rx_queue, pack_length))

DataSumOK ==
  rx_queue[pack_length + 1] =
    XorByte(XorAll(First(rx_queue, pack_length)), pack_length - 1)

(* Mutant of Answer: the result of the flash write is not looked at. *)
AnswerACK(ok) == <<"ACK">>

Answer(ok) == IF ok THEN <<"ACK">> ELSE <<"NACK">>

TakeData ==
  /\ In({Write}, 3) /\ Len(rx_queue) >= pack_length + 1
  /\ DataSumOK
  /\ \E ok \in BOOLEAN :          \* what STMFLASH_write_bytes returns
       /\ wrote' = [addr |-> start_addr, data |-> First(rx_queue, pack_length), ok |-> ok]
       /\ Leave(pack_length + 1, Answer(ok))
  /\ UNCHANGED <<start_addr, pack_length>>

RejectData ==
  /\ In({Write}, 3) /\ Len(rx_queue) >= pack_length + 1
  /\ ~DataSumOK
  /\ Leave(pack_length + 1, <<"NACK">>)
  /\ wrote' = NoWrite
  /\ UNCHANGED <<start_addr, pack_length>>

-----------------------------------------------------------------------------
iap_run ==
  /\ turn = "iap_run"
  /\ UNCHANGED delivered
  /\ \/ LoadApp
     \/ /\ turn' = "runReceiver"
        /\ \/ NoCommandYet \/ TakeCommand
           \/ UnknownCommand \/ PlainCommand \/ BeginCommand
           \/ WaitAddress \/ TakeAddress \/ RejectAddress
           \/ WaitReadLength \/ TakeReadLength
           \/ WaitWriteLength \/ TakeWriteLength
           \/ WaitData \/ TakeData \/ RejectData

(* The bootloader is left for good. *)
Loaded == turn = "iap_load_app" /\ UNCHANGED vars

Next == runReceiver \/ iap_run \/ Elapse \/ Loaded

Spec == Init /\ [][Next]_vars

(* The main loop never blocks and time passes. *)
FairSpec == Spec /\ WF_vars(runReceiver) /\ WF_vars(iap_run) /\ WF_vars(Elapse)

-----------------------------------------------------------------------------
(* Type correctness. *)
TypeOK ==
  /\ turn \in {"runReceiver", "iap_run", "iap_load_app"}
  /\ rx_queue \in Seq(Byte) /\ Len(rx_queue) <= Cap
  /\ timeUp \in BOOLEAN
  /\ iap_tick \in 0 .. 1 /\ bl_cmd \in Byte /\ exe_tick \in 0 .. 3
  /\ start_addr \in Seq(Byte) /\ Len(start_addr) = AddrLen
  /\ pack_length \in 0 .. AllOnes + 1
  /\ frame \in Seq(Byte)
  /\ delivered \in 0 .. MaxDatagrams

(* The step counter is shared by the commands, so it may count only the      *)
(* steps of the command in progress: whatever made the last command end, the *)
(* next one begins at its case 0, and no command reaches a case it does not  *)
(* have (the default of its switch).                                         *)
StepOfTheCommand ==
  /\ iap_tick = 0 => exe_tick = 0
  /\ exe_tick > 0 => bl_cmd \in Long
  /\ exe_tick > 1 => bl_cmd # Go
  /\ exe_tick = 3 => bl_cmd = Write /\ pack_length > 0 /\ pack_length % Unit = 0

(* The bytes read since a command was begun are exactly those that the cases *)
(* behind the counter have read, and the statics of Write hold what was in   *)
(* them.                                                                     *)
Started == Len(frame) >= 2 /\ frame[1] = bl_cmd /\ XorByte(frame[1], frame[2]) = AllOnes
Address == start_addr \o <<XorAll(start_addr)>>

FrameMatchesStep ==
  iap_tick = 1 =>
    \/ turn = "iap_load_app"
    \/ /\ Started
       /\ exe_tick < 2 => Rest(frame, 2) = <<>>
       /\ exe_tick = 2 /\ bl_cmd = Write => Rest(frame, 2) = Address
       /\ exe_tick = 3 => Rest(frame, 2) = Address \o <<pack_length - 1>>

IInv == TypeOK /\ StepOfTheCommand /\ FrameMatchesStep

(* Flash is written only at the end of one complete Write frame, read byte   *)
(* by byte since its command byte: the address, the length and the data are  *)
(* those of that frame, and every check sum in it was right.  No command     *)
(* that was cut short, timed out or mistaken for another contributes to it.  *)
WritesAsFramed ==
  wrote # NoWrite =>
    /\ Started /\ bl_cmd = Write
    /\ Rest(frame, 2) =
         wrote.addr \o <<XorAll(wrote.addr)>>
         \o <<Len(wrote.data) - 1>> \o wrote.data
         \o <<XorByte(XorAll(wrote.data), Len(wrote.data) - 1)>>

(* The application is started only by one complete Go frame. *)
StartsAsFramed ==
  turn = "iap_load_app" =>
    /\ Started /\ bl_cmd = Go
    /\ Len(frame) = AddrLen + 3
    /\ frame[AddrLen + 3] = XorAll(SubSeq(frame, 3, AddrLen + 2))

(* When the host has fallen silent no byte stays behind that would be taken  *)
(* for the beginning of what it sends next: whatever was received is read or *)
(* dropped after 200 ms, in every case of every command.                     *)
NothingStaysBehind == <>[](rx_queue = <<>> \/ turn = "iap_load_app")
=============================================================================
