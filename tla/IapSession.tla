----------------------------- MODULE IapSession -----------------------------
(***************************************************************************)
(* A host that writes one block through the bootloader (IapProtocol), over *)
(* a network that loses datagrams in both directions and delivers some     *)
(* twice.                                                                  *)
(*                                                                         *)
(* The host program is not in the repository.  It is taken to do what the  *)
(* protocol of iap/st_bootloader_protocol.c asks of it: it sends a command *)
(* pair, an address and a block, each as one datagram, waits for the ACK   *)
(* before it sends the next, and begins again on NACK or when it has       *)
(* waited in vain.  It is prompt (it answers within the 200 ms of          *)
(* data_flow_break_timer_) and as a rule patient (it waits longer than     *)
(* that); now and then it is not (HostGivesUpEarly), and what it or the    *)
(* device sent before is still under way.                                  *)
(***************************************************************************)
EXTENDS IapProtocol

CONSTANTS HostAddr, HostData,   \* what the host wants written, and where
          MaxFaults,            \* bound: losses and failed flash writes
          MaxDisorder           \* bound: duplicates, and answers not waited for

Sum(s, extra) == XorByte(XorAll(s), extra)

Script ==
  << Pair(Write),
     HostAddr \o <<Sum(HostAddr, 0)>>,
     <<Len(HostData) - 1>> \o HostData \o <<Sum(HostData, Len(HostData) - 1)>> >>

ASSUME IapSessionAssumption ==
  /\ HostAddr \in Seq(Byte) /\ Len(HostAddr) = AddrLen
  /\ HostData \in Seq(Byte)
  /\ Len(HostData) % Unit = 0 /\ Len(HostData) \in 1 .. AllOnes + 1
  /\ MaxFaults \in Nat /\ MaxDisorder \in Nat

VARIABLES stage,     \* the line of Script the host is at; 4 when it is done
          waiting,   \* it has sent that line and waits for the answer
          wire,      \* the datagrams on their way to the device
          answer,    \* the answers on their way to the host
          faults,    \* losses and failed writes so far
          disorder,  \* duplicates, and answers not waited for, so far
          pauses,    \* the kind of host: it lets 200 ms pass after a NACK
          memory     \* history: the last block written to flash

session == <<stage, waiting, wire, answer, faults, disorder, pauses, memory>>

SessionInit ==
  /\ Init
  /\ stage = 1 /\ waiting = FALSE /\ wire = <<>> /\ answer = <<>>
  /\ faults = 0 /\ disorder = 0
  /\ pauses \in BOOLEAN
  /\ memory = NoWrite

-----------------------------------------------------------------------------
(* An answer that has arrived before is dropped; one that arrives later is   *)
(* taken for the answer to this datagram.                                    *)
HostSends ==
  /\ stage \in 1 .. Len(Script) /\ ~waiting
  /\ waiting' = TRUE
  /\ wire' = Append(wire, Script[stage])
  /\ answer' = <<>>
  /\ UNCHANGED <<vars, stage, faults, disorder, pauses, memory>>

(* After a NACK a host that pauses is at stage 0 until the pause is over. *)
HostIsAnswered ==
  /\ waiting /\ answer # <<>>
  /\ stage' = IF Head(answer) = "ACK" THEN stage + 1 ELSE IF pauses THEN 0 ELSE 1
  /\ waiting' = FALSE
  /\ answer' = Tail(answer)
  /\ UNCHANGED <<vars, wire, faults, disorder, pauses, memory>>

(* The main loop takes far less than the 200 ms in which nothing arrives.    *)
Needed ==
  CASE iap_tick = 0 -> 2
    [] iap_tick = 1 /\ exe_tick = 0 -> 0
    [] iap_tick = 1 /\ exe_tick = 1 -> AddrLen + 1
    [] iap_tick = 1 /\ exe_tick = 2 -> 1
    [] iap_tick = 1 /\ exe_tick = 3 -> pack_length + 1

NothingHappens ==
  /\ wire = <<>>
  /\ (waiting /\ answer = <<>>) \/ stage = 0
  /\ turn = "runReceiver" /\ Len(rx_queue) < Needed

(* By the time a patient host gives up, or a pause is over, the device has   *)
(* dropped what it had.                                                      *)
HostGivesUp ==
  /\ NothingHappens /\ rx_queue = <<>>
  /\ stage' = 1
  /\ waiting' = FALSE
  /\ UNCHANGED <<vars, wire, answer, faults, disorder, pauses, memory>>

HostGivesUpEarly ==
  /\ waiting /\ disorder < MaxDisorder
  /\ stage' = 1
  /\ waiting' = FALSE
  /\ disorder' = disorder + 1
  /\ UNCHANGED <<vars, wire, answer, faults, pauses, memory>>

-----------------------------------------------------------------------------
(* The network, and the device on it. *)

WireIsLost ==
  /\ wire # <<>> /\ faults < MaxFaults
  /\ wire' = Tail(wire)
  /\ faults' = faults + 1
  /\ UNCHANGED <<vars, stage, waiting, answer, disorder, pauses, memory>>

WireIsDoubled ==
  /\ wire # <<>> /\ disorder < MaxDisorder
  /\ wire' = <<Head(wire)>> \o wire
  /\ disorder' = disorder + 1
  /\ UNCHANGED <<vars, stage, waiting, answer, faults, pauses, memory>>

DeviceReceives ==
  /\ wire # <<>>
  /\ Receive(Head(wire))
  /\ wire' = Tail(wire)
  /\ UNCHANGED <<stage, waiting, answer, faults, disorder, pauses, memory, delivered>>

DeviceReceivesNothing ==
  /\ ReceiveNothing
  /\ UNCHANGED <<session, delivered>>

WriteFailed == wrote' # NoWrite /\ ~wrote'.ok

DeviceRuns ==
  /\ iap_run
  /\ memory' = IF wrote' # NoWrite THEN wrote' ELSE memory
  /\ UNCHANGED <<stage, waiting, wire, disorder, pauses>>
  /\ WriteFailed => faults < MaxFaults
  /\ LET failed == IF WriteFailed THEN faults + 1 ELSE faults
     IN  \/ answer' = answer \o replies' /\ faults' = failed
         \/ /\ replies' # <<>> /\ failed < MaxFaults      \* the answer is lost
            /\ faults' = failed + 1 /\ UNCHANGED answer

(* A prompt host and network leave the timer no time while it is their turn. *)
TimePasses ==
  /\ NothingHappens
  /\ Elapse
  /\ UNCHANGED session

HostIsDone == stage > Len(Script) /\ UNCHANGED <<vars, session>>

SessionNext ==
  \/ HostSends \/ HostIsAnswered
  \/ HostGivesUp \/ HostGivesUpEarly
  \/ WireIsLost \/ WireIsDoubled \/ DeviceReceives \/ DeviceReceivesNothing \/ DeviceRuns \/ TimePasses
  \/ HostIsDone

(* The main loop runs, time passes, a datagram that is not lost arrives, and *)
(* the host does not stop: it gives up an attempt that will not be answered. *)
SessionSpec ==
  /\ SessionInit /\ [][SessionNext]_<<vars, session>>
  /\ SF_<<vars, session>>(DeviceReceives)
  /\ WF_<<vars, session>>(DeviceReceivesNothing)
  /\ WF_<<vars, session>>(DeviceRuns)
  /\ SF_<<vars, session>>(TimePasses)
  /\ WF_<<vars, session>>(HostSends \/ HostIsAnswered)
  /\ SF_<<vars, session>>(HostGivesUp)

-----------------------------------------------------------------------------
(* When the host believes the block is written, it is: what flash got last   *)
(* is the host's block at the host's address.  No ACK of an earlier attempt, *)
(* or of a datagram the device took for something else, is taken for it.     *)
(* (Answers have no number: after a duplicate, or if it did not wait for one,*)
(* the host may take the ACK of one step for that of the next.)              *)
DoneMeansWritten ==
  disorder = 0 /\ stage > Len(Script) =>
    memory = [addr |-> HostAddr, data |-> HostData, ok |-> TRUE]

(* Nothing but the host's block is ever written, whatever is lost.  (Under   *)
(* the same condition: a device that is out of step with the host may take a *)
(* part of the block for a command.)                                         *)
OnlyTheBlockIsWritten ==
  disorder = 0 /\ memory # NoWrite => memory.addr = HostAddr /\ memory.data = HostData

(* A host that retries gets its block written: no loss leaves the device in  *)
(* a case from which it does not find back to the beginning of a command.    *)
(* If datagrams come twice, or the host repeats some too early, this needs a *)
(* host that lets 200 ms pass after a NACK: one that begins again at once    *)
(* may stay out of step with the device for ever.                            *)
HostIsServed == <>(stage > Len(Script) \/ (disorder > 0 /\ ~pauses))

-----------------------------------------------------------------------------
(* Where everything is as long as disorder = 0.  The two are in step when    *)
(* the host is about to send line n of Script and the device waits for it,   *)
(* with a timer that cannot run out before; before the first line the device *)
(* may be left in any step of an attempt the host has given up.              *)
AtCase0 == iap_tick = 0 /\ exe_tick = 0
AtStep(n) == iap_tick = 1 /\ bl_cmd = Write /\ exe_tick = n
Quiet == rx_queue = <<>> /\ (AtCase0 \/ AtStep(1) \/ AtStep(2))

HostBlock == [addr |-> HostAddr, data |-> HostData, ok |-> TRUE]

Awaits(n) ==
  /\ Quiet
  /\ n = 2 => AtStep(1) /\ ~timeUp
  /\ n = 3 => AtStep(2) /\ start_addr = HostAddr
  /\ n = 4 => AtCase0 /\ memory = HostBlock

(* Line n is in the device.  The command may be taken for a part of the      *)
(* attempt before: it is too short for an address and no valid length.       *)
Arrived(s) == First(s, Smaller(Len(s), Cap))

WorksOnCommand ==
  \/ ~timeUp /\ AtCase0 /\ rx_queue = Script[1]
  \/ ~timeUp /\ AtStep(0) /\ rx_queue = <<>>
  \/ (AtStep(1) \/ AtStep(2)) /\ rx_queue = Script[1]
  \/ AtCase0 /\ Len(rx_queue) = 1

WorksOnAddress == AtStep(1) /\ rx_queue = Script[2]

WorksOnBlock ==
  /\ start_addr = HostAddr
  /\ \/ AtStep(2) /\ rx_queue = Arrived(Script[3])
     \/ /\ AtStep(3) /\ pack_length = Len(HostData)
        /\ rx_queue = Rest(Arrived(Script[3]), 1)

Works(n) ==
  \/ n = 1 /\ WorksOnCommand
  \/ n = 2 /\ WorksOnAddress
  \/ n = 3 /\ WorksOnBlock

ToSend(n) ==
  /\ stage = n \/ (n = 1 /\ stage = 0)
  /\ ~waiting /\ wire = <<>> /\ answer = <<>>
  /\ Awaits(n)

OnWire(n)   == stage = n /\ waiting /\ wire = <<Script[n]>> /\ answer = <<>> /\ Awaits(n)
InDevice(n) == stage = n /\ waiting /\ wire = <<>> /\ answer = <<>> /\ (Quiet \/ Works(n))
Acked(n)    == stage = n /\ waiting /\ wire = <<>> /\ answer = <<"ACK">> /\ Awaits(n + 1)
Nacked(n)   == stage = n /\ waiting /\ wire = <<>> /\ answer = <<"NACK">> /\ rx_queue = <<>> /\ AtCase0

InStep ==
  \/ ToSend(4)
  \/ \E n \in 1 .. 3 : ToSend(n) \/ OnWire(n) \/ InDevice(n) \/ Acked(n) \/ Nacked(n)

SessionInv ==
  /\ disorder \in Nat
  /\ disorder = 0 => InStep /\ OnlyTheBlockIsWritten
=============================================================================
