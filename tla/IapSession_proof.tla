-------------------------- MODULE IapSession_proof --------------------------
(***************************************************************************)
(* Proofs about the session of a host with the bootloader, for every block *)
(* and address, every number of losses and failed writes, and every        *)
(* operation in the place of exclusive or that yields bytes.               *)
(*                                                                         *)
(* What they ask of the code's numbers (AddrLen = 4, Unit = 4 and Write =  *)
(* 0x31) is that a command pair is too short for an address and that its   *)
(* first byte is not the length of a block: a command that arrives in the  *)
(* middle of an attempt the host has given up is then taken for nothing.   *)
(***************************************************************************)
EXTENDS IapSession, IapProtocol_proof

-----------------------------------------------------------------------------
(* The three lines of the script. *)

LEMMA FirstOfConcat ==
  ASSUME NEW S, NEW f \in Seq(S), NEW g \in Seq(S), NEW n \in Nat, Len(f) = n
  PROVE  First(f \o g, n) = f
<1>1. /\ f \o g \in Seq(S)
      /\ Len(f \o g) = n + Len(g)
      /\ \A i \in 1 .. n + Len(g) : (f \o g)[i] = IF i <= n THEN f[i] ELSE g[i - n]
  BY ConcatProperties
<1>2. n \in 0 .. Len(f \o g) /\ Len(g) \in Nat
  BY <1>1, LenProperties
<1>3. /\ First(f \o g, n) \in Seq(S) /\ Len(First(f \o g, n)) = n
      /\ \A i \in 1 .. n : First(f \o g, n)[i] = (f \o g)[i]
  BY <1>1, <1>2, FirstProperties
<1>4. \A i \in 1 .. n : First(f \o g, n)[i] = f[i]
  BY <1>1, <1>2, <1>3
<1> QED BY <1>3, <1>4, SeqEqual

LEMMA FirstOfAll ==
  ASSUME NEW S, NEW s \in Seq(S)
  PROVE  First(s, Len(s)) = s /\ Rest(s, Len(s)) = <<>>
<1>1. Len(s) \in 0 .. Len(s)
  BY LenProperties
<1>2. /\ First(s, Len(s)) \in Seq(S) /\ Len(First(s, Len(s))) = Len(s)
      /\ \A i \in 1 .. Len(s) : First(s, Len(s))[i] = s[i]
  BY <1>1, FirstProperties
<1>3. Rest(s, Len(s)) = <<>>
  BY <1>1, EmptyRest
<1> QED BY <1>2, <1>3, SeqEqual

AddressSum == Sum(HostAddr, 0)
BlockSum   == Sum(HostData, Len(HostData) - 1)

LEMMA Lines ==
  /\ Len(Script) = 3
  /\ Script[1] = Pair(Write)
  /\ Script[2] = HostAddr \o <<AddressSum>>
  /\ Script[3] = <<Len(HostData) - 1>> \o HostData \o <<BlockSum>>
BY DEF Script, AddressSum, BlockSum

LEMMA HostNumbers ==
  /\ AllOnes \in Nat /\ AddrLen \in Nat /\ AddrLen >= 1 /\ Unit \in Nat /\ Unit >= 1
  /\ Cap \in Nat /\ Cap >= AddrLen + 1 /\ Cap > AllOnes + 1
  /\ HostAddr \in Seq(Byte) /\ Len(HostAddr) = AddrLen
  /\ HostData \in Seq(Byte) /\ Len(HostData) \in Nat /\ Len(HostData) >= 1
  /\ Len(HostData) <= AllOnes + 1 /\ Len(HostData) % Unit = 0
BY IapProtocolAssumption, IapSessionAssumption

LEMMA CommandLine ==
  /\ Pair(Write)[1] = Write
  /\ Len(Pair(Write)) = 2
  /\ Arrived(Pair(Write)) = Pair(Write)
  /\ Rest(Pair(Write), 2) = <<>>
  /\ Len(Rest(Pair(Write), 1)) = 1
<1> DEFINE S == {Write, XorByte(Write, AllOnes)}
           p == Pair(Write)
<1>1. p \in Seq(S) /\ Len(p) = 2 /\ p[1] = Write
  BY DEF Pair
<1> HIDE DEF p
<1>2. First(p, 2) = p /\ Rest(p, 2) = <<>>
  BY <1>1, FirstOfAll
<1>3. Arrived(p) = p
  BY <1>1, <1>2, HostNumbers DEF Arrived, Smaller
<1>4. 1 \in 0 .. Len(p)
  BY <1>1
<1>5. Len(Rest(p, 1)) = 1
  <2>1. p \in Seq(S) /\ 1 \in 0 .. Len(p)
    BY <1>1, <1>4
  <2>2. Len(Rest(p, 1)) = Len(p) - 1
    BY ONLY <2>1, RestProperties
  <2> QED BY <1>1, <2>2
<1> QED BY <1>1, <1>2, <1>3, <1>5 DEF p

LEMMA AddressLine ==
  /\ Len(Script[2]) = AddrLen + 1
  /\ Arrived(Script[2]) = Script[2]
  /\ First(Script[2], AddrLen) = HostAddr
  /\ Rest(Script[2], AddrLen + 1) = <<>>
<1> DEFINE S == Byte \cup {AddressSum}
           s == HostAddr \o <<AddressSum>>
<1>1. HostAddr \in Seq(S) /\ <<AddressSum>> \in Seq(S) /\ Len(<<AddressSum>>) = 1
  BY HostNumbers
<1>2. s \in Seq(S) /\ Len(s) = AddrLen + 1
  BY <1>1, HostNumbers, ConcatProperties
<1>3. First(s, AddrLen) = HostAddr
  BY <1>1, HostNumbers, FirstOfConcat
<1> HIDE DEF s, S
<1>4. First(s, AddrLen + 1) = s /\ Rest(s, AddrLen + 1) = <<>>
  BY <1>2, FirstOfAll
<1>5. Arrived(s) = s
  BY <1>2, <1>4, HostNumbers DEF Arrived, Smaller
<1>6. Script[2] = s
  BY Lines DEF s
<1> QED BY <1>2, <1>3, <1>4, <1>5, <1>6

(* A block with its length and sum may be one byte longer than the queue. *)
LEMMA BlockLine ==
  LET a == Arrived(Script[3])
      b == Rest(a, 1)
      n == Len(HostData)
  IN  /\ a # <<>> /\ a[1] = n - 1
      /\ b # <<>>
      /\ Len(b) >= n + 1 => First(b, n) = HostData /\ Rest(b, n + 1) = <<>>
<1> DEFINE n == Len(HostData)
           S == Byte \cup {n - 1, BlockSum}
           t == HostData \o <<BlockSum>>
           s == <<n - 1>> \o t
<1>1. /\ HostData \in Seq(S)
      /\ <<BlockSum>> \in Seq(S) /\ Len(<<BlockSum>>) = 1
      /\ <<n - 1>> \in Seq(S) /\ Len(<<n - 1>>) = 1 /\ <<n - 1>>[1] = n - 1
  BY HostNumbers
<1>2. t \in Seq(S) /\ Len(t) = n + 1
  BY <1>1, HostNumbers, ConcatProperties
<1>3. First(t, n) = HostData
  <2>1. n \in Nat
    BY HostNumbers
  <2> QED BY ONLY <1>1, <2>1, FirstOfConcat
<1>4. Script[3] = s
  <2>1. (<<n - 1>> \o HostData) \o <<BlockSum>> = s
    BY <1>1, ConcatAssociative
  <2> QED BY <2>1, Lines
<1> HIDE DEF t, S
<1>5. /\ s \in Seq(S) /\ Len(s) = n + 2
      /\ \A i \in 1 .. n + 2 : s[i] = IF i <= 1 THEN <<n - 1>>[i] ELSE t[i - 1]
  BY <1>1, <1>2, HostNumbers, ConcatProperties
<1> DEFINE m == Smaller(n + 2, Cap)
           a == First(s, m)
           b == Rest(a, 1)
<1> HIDE DEF s
<1>6. m \in 2 .. n + 2 /\ (m > n + 1 => m = n + 2) /\ m \in Nat /\ n \in Nat
  BY HostNumbers DEF Smaller
<1> HIDE DEF m
<1>7. Arrived(Script[3]) = a
  BY <1>4, <1>5 DEF Arrived, m
<1>8. /\ a \in Seq(S) /\ Len(a) = m
      /\ \A i \in 1 .. m : a[i] = s[i]
  <2>1. m \in 0 .. Len(s)
    BY <1>5, <1>6
  <2> QED BY <1>5, <2>1, FirstProperties
<1>9. a[1] = n - 1
  <2>1. a[1] = s[1]
    BY <1>6, <1>8
  <2>2. s[1] = <<n - 1>>[1]
    BY <1>5, <1>6
  <2> QED BY <1>1, <2>1, <2>2
<1>10. a # <<>>
  BY <1>6, <1>8, EmptySeq
<1> HIDE DEF a
<1>11. /\ b \in Seq(S) /\ Len(b) = m - 1
       /\ \A i \in 1 .. m - 1 : b[i] = a[1 + i]
  <2>1. 1 \in 0 .. Len(a)
    BY <1>6, <1>8
  <2> QED BY <1>8, <2>1, RestProperties
<1> HIDE DEF b
<1>12. b # <<>>
  BY <1>6, <1>11, EmptySeq
<1>13. ASSUME Len(b) >= n + 1 PROVE First(b, n) = HostData /\ Rest(b, n + 1) = <<>>
  <2>1. m = n + 2
    BY <1>6, <1>11, <1>13
  <2>2. Len(b) = n + 1
    BY <1>6, <1>11, <2>1
  <2>3. \A i \in 1 .. n + 1 : b[i] = t[i]
    <3> TAKE i \in 1 .. n + 1
    <3>1. i \in 1 .. m - 1 /\ 1 + i \in 1 .. m /\ 1 + i \in 1 .. n + 2
          /\ ~(1 + i <= 1) /\ (1 + i) - 1 = i
      BY <1>6, <2>1
    <3>2. b[i] = a[1 + i]
      BY <1>11, <3>1
    <3>3. a[1 + i] = s[1 + i]
      BY <1>8, <3>1
    <3>4. s[1 + i] = t[(1 + i) - 1]
      BY <1>5, <3>1
    <3> QED BY <3>1, <3>2, <3>3, <3>4
  <2>4. b = t
    BY <1>2, <1>11, <2>2, <2>3, SeqEqual
  <2>5. Rest(b, n + 1) = <<>>
    BY <1>11, <2>2, FirstOfAll
  <2> QED BY <1>3, <2>4, <2>5
<1> QED BY <1>7, <1>9, <1>10, <1>12, <1>13 DEF b

-----------------------------------------------------------------------------
(* One call of iap_run.  Which of its actions a state leaves it: *)

LEMMA Dispatch ==
  ASSUME iap_run
  PROVE  /\ AtCase0 => NoCommandYet \/ TakeCommand
         /\ AtStep(0) => BeginCommand
         /\ AtStep(1) => WaitAddress \/ TakeAddress \/ RejectAddress
         /\ AtStep(2) => WaitWriteLength \/ TakeWriteLength
         /\ AtStep(3) => WaitData \/ TakeData \/ RejectData
<1>1. Write \in Commands /\ Write \notin Plain /\ Write # Read /\ Write # Go
  BY IapProtocolAssumption DEF Commands, Long
<1>2. iap_tick = 0 => NoCommandYet \/ TakeCommand
  BY DEF iap_run, LoadApp, In, NoCommandYet, TakeCommand, UnknownCommand, PlainCommand,
         BeginCommand, WaitAddress, TakeAddress, RejectAddress, WaitReadLength,
         TakeReadLength, WaitWriteLength, TakeWriteLength, WaitData, TakeData, RejectData
<1>3. iap_tick = 1 /\ bl_cmd = Write /\ exe_tick \in 0 .. 3 =>
        /\ exe_tick = 0 => BeginCommand
        /\ exe_tick = 1 => WaitAddress \/ TakeAddress \/ RejectAddress
        /\ exe_tick = 2 => WaitWriteLength \/ TakeWriteLength
        /\ exe_tick = 3 => WaitData \/ TakeData \/ RejectData
  BY <1>1
     DEF iap_run, LoadApp, In, NoCommandYet, TakeCommand, UnknownCommand, PlainCommand,
         BeginCommand, WaitAddress, TakeAddress, RejectAddress, WaitReadLength,
         TakeReadLength, WaitWriteLength, TakeWriteLength, WaitData, TakeData, RejectData
<1> QED BY <1>2, <1>3 DEF AtCase0, AtStep

(* With nothing to read it does nothing, or gives up the command. *)
LEMMA QuietRuns ==
  ASSUME Quiet, iap_run
  PROVE  /\ replies' = <<>> /\ wrote' = NoWrite /\ UNCHANGED start_addr
         /\ Quiet'
         /\ AtCase0 => AtCase0'
         /\ AtStep(1) /\ ~timeUp => AtStep(1)' /\ ~timeUp'
         /\ AtStep(2) => AtStep(2)'
<1>1. rx_queue = <<>> /\ Len(rx_queue) = 0 /\ AddrLen \in Nat
  BY EmptySeq, HostNumbers DEF Quiet
<1>2. CASE AtCase0
  <2>1. NoCommandYet
    BY <1>1, <1>2, Dispatch DEF TakeCommand
  <2> QED BY <1>1, <1>2, <2>1
      DEF NoCommandYet, Stay, Send, clear_read_buf, Quiet, AtCase0, AtStep, device
<1>3. CASE AtStep(1)
  <2>1. WaitAddress
    BY <1>1, <1>3, Dispatch DEF TakeAddress, RejectAddress
  <2> QED BY <1>1, <1>3, <2>1
      DEF WaitAddress, WaitFor, Broken, NotBroken, Stay, Send, clear_read_buf, BackToCase0,
          Quiet, AtCase0, AtStep
<1>4. CASE AtStep(2)
  <2>1. WaitWriteLength
    BY <1>1, <1>4, Dispatch DEF TakeWriteLength
  <2> QED BY <1>1, <1>4, <2>1
      DEF WaitWriteLength, Stay, Send, Quiet, AtCase0, AtStep, device
<1> QED BY <1>2, <1>3, <1>4 DEF Quiet

(* A command pair is no address and its first byte, plus one, no length. *)
TooShort == AddrLen >= 2
NoLength == (Write + 1) % Unit # 0

LEMMA CommandRuns ==
  ASSUME TooShort, NoLength, WorksOnCommand, iap_run
  PROVE  /\ wrote' = NoWrite
         /\ \/ replies' = <<>> /\ (WorksOnCommand' \/ Quiet')
            \/ replies' = <<"NACK">> /\ rx_queue' = <<>> /\ AtCase0'
            \/ replies' = <<"ACK">> /\ rx_queue' = <<>> /\ AtStep(1)' /\ ~timeUp'
<1> DEFINE p == Pair(Write)
<1>a. p[1] = Write /\ Len(p) = 2 /\ Rest(p, 2) = <<>> /\ Len(Rest(p, 1)) = 1
  BY CommandLine
<1>b. Script[1] = p /\ AddrLen \in Nat /\ Len(<<>>) = 0
  BY Lines, HostNumbers, EmptySeq
<1> HIDE DEF p
<1>1. CASE ~timeUp /\ AtCase0 /\ rx_queue = p
  <2>1. TakeCommand
    BY <1>1, <1>a, Dispatch DEF NoCommandYet
  <2> QED BY <1>1, <1>a, <2>1 DEF TakeCommand, Consume, Send, AtCase0, AtStep, WorksOnCommand
<1>2. CASE ~timeUp /\ AtStep(0) /\ rx_queue = <<>>
  <2>1. BeginCommand
    BY <1>2, Dispatch
  <2>2. Rest(<<>>, 0) = <<>>
    BY EmptySeq, NothingRead
  <2> QED BY <1>2, <2>1, <2>2 DEF BeginCommand, GoOn, Consume, Send, AtStep
<1>3. CASE AtStep(1) /\ rx_queue = p
  <2>1. WaitAddress
    BY <1>3, <1>a, <1>b, Dispatch DEF TakeAddress, RejectAddress, TooShort
  <2> QED BY <1>3, <1>b, <2>1
      DEF WaitAddress, WaitFor, Stay, Send, clear_read_buf, BackToCase0, Quiet, AtCase0,
          AtStep, WorksOnCommand
<1>4. CASE AtStep(2) /\ rx_queue = p
  <2>1. TakeWriteLength
    BY <1>4, <1>a, <1>b, Dispatch DEF WaitWriteLength
  <2>2. Leave(1, <<>>) /\ wrote' = NoWrite
    BY <1>4, <1>a, <2>1 DEF TakeWriteLength, NoLength
  <2> QED BY <1>4, <1>a, <2>2 DEF Leave, BackToCase0, Consume, Send, AtCase0, WorksOnCommand
<1>5. CASE AtCase0 /\ Len(rx_queue) = 1
  <2>1. NoCommandYet
    BY <1>5, Dispatch DEF TakeCommand
  <2> QED BY <1>5, <2>1
      DEF NoCommandYet, Stay, Send, clear_read_buf, AtCase0, device, Quiet, WorksOnCommand
<1> QED BY <1>1, <1>2, <1>3, <1>4, <1>5, <1>b DEF WorksOnCommand

LEMMA AddressRuns ==
  ASSUME WorksOnAddress, iap_run
  PROVE  /\ wrote' = NoWrite
         /\ rx_queue' = <<>>
         /\ \/ replies' = <<"NACK">> /\ AtCase0'
            \/ replies' = <<"ACK">> /\ AtStep(2)' /\ start_addr' = HostAddr
<1>1. /\ AtStep(1) /\ Len(rx_queue) = AddrLen + 1 /\ AddrLen \in Nat
      /\ First(rx_queue, AddrLen) = HostAddr /\ Rest(rx_queue, AddrLen + 1) = <<>>
  BY AddressLine, HostNumbers DEF WorksOnAddress
<1>2. TakeAddress \/ RejectAddress
  BY <1>1, Dispatch DEF WaitAddress, WaitFor
<1>3. CASE TakeAddress
  BY <1>1, <1>3 DEF TakeAddress, KeepAddress, AddressIn, GoOn, Consume, Send, AtStep
<1>4. CASE RejectAddress
  BY <1>1, <1>4 DEF RejectAddress, Leave, BackToCase0, Consume, Send, AtStep, AtCase0
<1> QED BY <1>2, <1>3, <1>4

LEMMA BlockRuns ==
  ASSUME WorksOnBlock, iap_run
  PROVE  \/ replies' = <<>> /\ wrote' = NoWrite /\ (WorksOnBlock' \/ Quiet')
         \/ /\ replies' = <<"NACK">> /\ rx_queue' = <<>> /\ AtCase0'
            /\ wrote' = NoWrite \/ (wrote'.addr = HostAddr /\ wrote'.data = HostData)
         \/ replies' = <<"ACK">> /\ rx_queue' = <<>> /\ AtCase0' /\ wrote' = HostBlock
<1> DEFINE a == Arrived(Script[3])
           b == Rest(a, 1)
           n == Len(HostData)
<1>a. /\ a # <<>> /\ a[1] = n - 1 /\ b # <<>>
      /\ Len(b) >= n + 1 => First(b, n) = HostData /\ Rest(b, n + 1) = <<>>
  BY BlockLine
<1>b. start_addr = HostAddr /\ n \in Nat /\ n % Unit = 0
  BY HostNumbers DEF WorksOnBlock
<1>c. a' = a /\ HostBlock' = HostBlock
  BY DEF Arrived, Script, HostBlock, Pair, Sum, XorAll, First, Smaller
<1> HIDE DEF a, n
<1>1. CASE AtStep(2) /\ rx_queue = a
  <2>1. TakeWriteLength
    BY <1>1, <1>a, Dispatch DEF WaitWriteLength
  <2>2. pack_length' = n /\ UNCHANGED start_addr
    BY <1>1, <1>a, <1>b, <2>1 DEF TakeWriteLength
  <2>3. GoOn(1, <<>>)
    BY <1>b, <2>1, <2>2 DEF TakeWriteLength
  <2>4. /\ rx_queue' = b /\ exe_tick' = 3 /\ replies' = <<>> /\ wrote' = NoWrite
        /\ UNCHANGED <<iap_tick, bl_cmd>>
    BY <1>1, <2>3 DEF GoOn, Consume, Send, AtStep
  <2>5. WorksOnBlock'
    BY <1>1, <1>b, <1>c, <2>2, <2>4 DEF WorksOnBlock, AtStep, a, n, Rest
  <2> QED BY <2>4, <2>5
<1>2. CASE AtStep(3) /\ pack_length = n /\ rx_queue = b
  <2>1. CASE WaitData
    <3>1. replies' = <<>> /\ wrote' = NoWrite /\ UNCHANGED <<start_addr, pack_length>>
      BY <2>1 DEF WaitData, WaitFor, Stay, Send
    <3>2. CASE UNCHANGED <<rx_queue, iap_tick, bl_cmd, exe_tick>>
      <4>1. WorksOnBlock'
        BY <1>2, <1>b, <1>c, <3>1, <3>2 DEF WorksOnBlock, AtStep, a, n, Rest
      <4> QED BY <3>1, <4>1
    <3>3. CASE rx_queue' = <<>> /\ iap_tick' = 0 /\ exe_tick' = 0
      BY <3>1, <3>3 DEF Quiet, AtCase0
    <3> QED BY <2>1, <3>2, <3>3 DEF WaitData, WaitFor, Stay, clear_read_buf, BackToCase0
  <2>2. CASE TakeData
    <3>1. PICK ok \in BOOLEAN :
            /\ wrote' = [addr |-> start_addr, data |-> First(rx_queue, pack_length), ok |-> ok]
            /\ Leave(pack_length + 1, Answer(ok))
      BY <2>2 DEF TakeData
    <3>2. Len(b) >= n + 1
      BY <1>2, <2>2 DEF TakeData
    <3>3. wrote' = [addr |-> HostAddr, data |-> HostData, ok |-> ok]
      BY <1>2, <1>a, <1>b, <3>1, <3>2
    <3>4. rx_queue' = <<>> /\ AtCase0' /\ replies' = Answer(ok)
      BY <1>2, <1>a, <3>1, <3>2 DEF Leave, BackToCase0, Consume, Send, AtCase0
    <3>5. CASE ok
      BY <3>3, <3>4, <3>5 DEF Answer, HostBlock
    <3>6. CASE ~ok
      BY <3>3, <3>4, <3>6 DEF Answer
    <3> QED BY <3>5, <3>6
  <2>3. CASE RejectData
    <3>1. Len(b) >= n + 1
      BY <1>2, <2>3 DEF RejectData
    <3> QED BY <1>2, <1>a, <2>3, <3>1
        DEF RejectData, Leave, BackToCase0, Consume, Send, AtCase0
  <2> QED BY <1>2, <2>1, <2>2, <2>3, Dispatch
<1> QED BY <1>1, <1>2 DEF WorksOnBlock, a, b, n

-----------------------------------------------------------------------------
(* One step of the session. *)

LEMMA Replies ==
  ASSUME NEW r \in {<<>>, <<"ACK">>, <<"NACK">>}
  PROVE  <<>> \o r = r /\ r \o <<>> = r
<1> DEFINE S == {"ACK", "NACK"}
<1>1. <<>> \in Seq(S)
  BY EmptySeq
<1>2. <<"ACK">> \in Seq(S) /\ <<"NACK">> \in Seq(S)
  OBVIOUS
<1>3. r \in Seq(S)
  BY <1>1, <1>2
<1> QED BY ONLY <1>3, ConcatEmptySeq

LEMMA AnswerComes ==
  ASSUME DeviceRuns, answer = <<>>, replies' \in {<<>>, <<"ACK">>, <<"NACK">>}
  PROVE  answer' = <<>> \/ answer' = replies'
<1>1. <<>> \o replies' = replies'
  BY Replies
<1> QED BY <1>1 DEF DeviceRuns

LEMMA DeviceIsQuiet ==
  ASSUME DeviceRuns, Quiet, answer \in {<<>>, <<"ACK">>, <<"NACK">>}
  PROVE  /\ UNCHANGED <<stage, waiting, wire, answer, memory>>
         /\ Quiet' /\ (AtCase0 => AtCase0')
         /\ \A n \in 1 .. 4 : Awaits(n) => Awaits(n)'
<1>1. iap_run
  BY DEF DeviceRuns
<1>2. /\ replies' = <<>> /\ wrote' = NoWrite /\ UNCHANGED start_addr
      /\ Quiet'
      /\ AtCase0 => AtCase0'
      /\ AtStep(1) /\ ~timeUp => AtStep(1)' /\ ~timeUp'
      /\ AtStep(2) => AtStep(2)'
  BY <1>1, QuietRuns
<1>4. answer \o <<>> = answer
  BY Replies
<1>5. UNCHANGED <<stage, waiting, wire, answer, memory>>
  BY <1>2, <1>4 DEF DeviceRuns
<1>6. HostBlock' = HostBlock
  BY DEF HostBlock
<1> QED BY <1>2, <1>5, <1>6 DEF Awaits

LEMMA DeviceWorks ==
  ASSUME TooShort, NoLength, OnlyTheBlockIsWritten, disorder = 0, disorder' = 0, DeviceRuns,
         NEW n \in 1 .. 3, InDevice(n), Works(n)
  PROVE  /\ InDevice(n)' \/ Acked(n)' \/ Nacked(n)'
         /\ OnlyTheBlockIsWritten'
<1>1. iap_run /\ UNCHANGED <<stage, waiting, wire>> /\ answer = <<>>
      /\ memory' = (IF wrote' # NoWrite THEN wrote' ELSE memory)
      /\ stage = n /\ waiting /\ wire = <<>>
  BY DEF DeviceRuns, InDevice
<1>2. /\ replies' \in {<<>>, <<"ACK">>, <<"NACK">>}
      /\ replies' = <<>> => Works(n)' \/ Quiet'
      /\ replies' = <<"NACK">> => rx_queue' = <<>> /\ AtCase0'
      /\ replies' = <<"ACK">> =>
           /\ rx_queue' = <<>>
           /\ n = 1 => AtStep(1)' /\ ~timeUp'
           /\ n = 2 => AtStep(2)' /\ start_addr' = HostAddr
           /\ n = 3 => AtCase0' /\ wrote' = HostBlock
      /\ wrote' = NoWrite \/ (wrote'.addr = HostAddr /\ wrote'.data = HostData)
  <2>0. <<>> # <<"ACK">> /\ <<>> # <<"NACK">> /\ <<"ACK">> # <<"NACK">>
    OBVIOUS
  <2>1. CASE n = 1
    <3>1. WorksOnCommand
      BY <2>1 DEF Works
    <3>2. WorksOnCommand' => Works(n)'
      BY <2>1 DEF Works
    <3> QED BY <1>1, <2>0, <2>1, <3>1, <3>2, CommandRuns
  <2>2. CASE n = 2
    <3>1. WorksOnAddress
      BY <2>2 DEF Works
    <3> QED BY <1>1, <2>0, <2>2, <3>1, AddressRuns
  <2>3. CASE n = 3
    <3>1. WorksOnBlock
      BY <2>3 DEF Works
    <3>2. WorksOnBlock' => Works(n)'
      BY <2>3 DEF Works
    <3>3. HostBlock.addr = HostAddr /\ HostBlock.data = HostData
      BY DEF HostBlock
    <3> QED BY <1>1, <2>0, <2>3, <3>1, <3>2, <3>3, BlockRuns
  <2> QED BY <2>1, <2>2, <2>3
<1>3. OnlyTheBlockIsWritten'
  BY <1>1, <1>2 DEF OnlyTheBlockIsWritten
<1>4. answer' = <<>> \/ answer' = replies'
  BY <1>1, <1>2, AnswerComes
<1>5. CASE answer' = <<>>
  <2>1. Quiet' \/ Works(n)'
    BY <1>2 DEF Quiet
  <2> QED BY <1>1, <1>3, <1>5, <2>1 DEF InDevice
<1>6. CASE answer' = <<"NACK">> /\ replies' = <<"NACK">>
  BY <1>1, <1>2, <1>3, <1>6 DEF Nacked
<1>7. CASE answer' = <<"ACK">> /\ replies' = <<"ACK">>
  <2>1. Quiet'
    BY <1>2, <1>7 DEF Quiet
  <2>2. HostBlock # NoWrite /\ HostBlock' = HostBlock
    BY DEF HostBlock, NoWrite
  <2>3. n = 3 => memory' = HostBlock
    BY <1>1, <1>2, <1>7, <2>2
  <2>4. Awaits(n + 1)'
    BY <1>2, <1>7, <2>1, <2>2, <2>3 DEF Awaits
  <2> QED BY <1>1, <1>3, <1>7, <2>4 DEF Acked
<1> QED BY <1>2, <1>4, <1>5, <1>6, <1>7

LEMMA DeviceStep ==
  ASSUME TooShort, NoLength, InStep, OnlyTheBlockIsWritten, disorder = 0, disorder' = 0,
         DeviceRuns
  PROVE  InStep' /\ OnlyTheBlockIsWritten'
<1>1. CASE ToSend(4)
  <2>1. Quiet /\ answer = <<>>
    BY <1>1 DEF ToSend, Awaits
  <2>2. UNCHANGED <<stage, waiting, wire, answer, memory>> /\ (Awaits(4) => Awaits(4)')
    BY <2>1, DeviceIsQuiet
  <2> QED BY <1>1, <2>2 DEF ToSend, InStep, OnlyTheBlockIsWritten
<1>2. ASSUME NEW n \in 1 .. 3, ToSend(n) \/ OnWire(n) \/ Acked(n) \/ Nacked(n) \/ (InDevice(n) /\ Quiet)
      PROVE  InStep' /\ OnlyTheBlockIsWritten'
  <2>1. Quiet /\ answer \in {<<>>, <<"ACK">>, <<"NACK">>}
    BY <1>2 DEF ToSend, OnWire, Acked, Nacked, InDevice, Awaits, Quiet
  <2>2. /\ UNCHANGED <<stage, waiting, wire, answer, memory>>
        /\ Quiet' /\ (AtCase0 => AtCase0')
        /\ \A k \in 1 .. 4 : Awaits(k) => Awaits(k)'
    BY <2>1, DeviceIsQuiet
  <2>3. (Awaits(n) => Awaits(n)') /\ (Awaits(n + 1) => Awaits(n + 1)')
    <3>1. n \in 1 .. 4 /\ n + 1 \in 1 .. 4
      OBVIOUS
    <3> QED BY <2>2, <3>1
  <2>4. Script' = Script
    BY DEF Script, Pair, Sum, XorAll
  <2>5. rx_queue' = <<>>
    BY <2>2 DEF Quiet
  <2>6. ToSend(n)' \/ OnWire(n)' \/ InDevice(n)' \/ Acked(n)' \/ Nacked(n)'
    BY <1>2, <2>2, <2>3, <2>4, <2>5 DEF ToSend, OnWire, InDevice, Acked, Nacked
  <2> QED BY <2>2, <2>6 DEF InStep, OnlyTheBlockIsWritten
<1>3. ASSUME NEW n \in 1 .. 3, InDevice(n), Works(n)
      PROVE  InStep' /\ OnlyTheBlockIsWritten'
  BY <1>3, DeviceWorks DEF InStep
<1> QED BY <1>1, <1>2, <1>3 DEF InStep, InDevice

(* What a step that leaves the device alone, but for its turn, keeps. *)
LEMMA Unmoved ==
  ASSUME InStep,
         UNCHANGED <<rx_queue, timeUp, iap_tick, bl_cmd, exe_tick, start_addr, pack_length,
                     waiting, wire, answer, memory>>,
         UNCHANGED stage
  PROVE  InStep'
<1>1. /\ Script' = Script /\ HostBlock' = HostBlock
      /\ Arrived(Script[3])' = Arrived(Script[3])
  BY DEF Script, Pair, Sum, XorAll, HostBlock, Arrived, First, Smaller
<1>2. Quiet => Quiet'
  BY DEF Quiet, AtCase0, AtStep
<1>3. ASSUME NEW n \in 1 .. 4, Awaits(n) PROVE Awaits(n)'
  BY <1>1, <1>2, <1>3 DEF Awaits, AtCase0, AtStep
<1>4. ASSUME NEW n \in 1 .. 3, Works(n) PROVE Works(n)'
  BY <1>1, <1>4 DEF Works, WorksOnCommand, WorksOnAddress, WorksOnBlock, AtCase0, AtStep, Rest
<1>5. CASE ToSend(4)
  BY <1>3, <1>5 DEF ToSend, InStep
<1>6. ASSUME NEW n \in 1 .. 3, ToSend(n) \/ OnWire(n) \/ InDevice(n) \/ Acked(n) \/ Nacked(n)
      PROVE  InStep'
  <2>1. n \in 1 .. 4 /\ n + 1 \in 1 .. 4
    OBVIOUS
  <2>2. ToSend(n)' \/ OnWire(n)' \/ InDevice(n)' \/ Acked(n)' \/ Nacked(n)'
    BY <1>1, <1>2, <1>3, <1>4, <1>6, <2>1
       DEF ToSend, OnWire, InDevice, Acked, Nacked, AtCase0
  <2> QED BY <2>2 DEF InStep
<1> QED BY <1>5, <1>6 DEF InStep

(* The timer runs out only while the host waits in vain or pauses. *)
LEMMA TimeStep ==
  ASSUME InStep, TimePasses
  PROVE  InStep'
<1>1. /\ UNCHANGED <<rx_queue, iap_tick, bl_cmd, exe_tick, start_addr, pack_length>>
      /\ UNCHANGED <<stage, waiting, wire, answer, memory>>
      /\ wire = <<>> /\ ((waiting /\ answer = <<>>) \/ stage = 0)
      /\ Len(rx_queue) < Needed
  BY DEF TimePasses, NothingHappens, Elapse, device, session
<1>2. /\ Script' = Script
      /\ Arrived(Script[3])' = Arrived(Script[3])
  BY DEF Script, Pair, Sum, XorAll, Arrived, First, Smaller
<1>3. Quiet => Quiet'
  BY <1>1 DEF Quiet, AtCase0, AtStep
<1>4. ASSUME NEW n \in 1 .. 3, ToSend(n), stage = 0 PROVE InStep'
  <2>1. n = 1 /\ Quiet /\ ~waiting /\ answer = <<>>
    BY <1>4 DEF ToSend, Awaits
  <2>2. ToSend(1)'
    BY <1>1, <1>3, <1>4, <2>1 DEF ToSend, Awaits
  <2> QED BY <2>2 DEF InStep
<1>5. ASSUME NEW n \in 1 .. 3, InDevice(n) PROVE InStep'
  <2>1. CASE Quiet
    BY <1>1, <1>3, <1>5, <2>1 DEF InDevice, InStep
  <2>2. CASE Works(n)
    <3>1. ~(AtStep(0) /\ rx_queue = <<>>) /\ ~(AtCase0 /\ rx_queue = Script[1])
      <4>1. Len(<<>>) = 0 /\ Len(Script[1]) = 2
        BY Lines, CommandLine
      <4>2. AtStep(0) => Needed = 0
        BY DEF AtStep, Needed
      <4>3. AtCase0 => Needed = 2
        BY DEF AtCase0, Needed
      <4> QED BY <1>1, <4>1, <4>2, <4>3
    <3>2. Works(n)'
      BY <1>1, <1>2, <2>2, <3>1
         DEF Works, WorksOnCommand, WorksOnAddress, WorksOnBlock, AtCase0, AtStep, Rest
    <3> QED BY <1>1, <1>5, <3>2 DEF InDevice, InStep
  <2> QED BY <1>5, <2>1, <2>2 DEF InDevice
<1>6. \E n \in 1 .. 3 : (ToSend(n) /\ stage = 0) \/ InDevice(n)
  BY <1>1 DEF InStep, ToSend, OnWire, Acked, Nacked
<1> QED BY <1>4, <1>5, <1>6

LEMMA HostStep ==
  ASSUME InStep, HostSends \/ HostIsAnswered \/ HostGivesUp
  PROVE  InStep'
<1>a. UNCHANGED <<rx_queue, timeUp, iap_tick, bl_cmd, exe_tick, start_addr, pack_length, memory>>
  BY DEF HostSends, HostIsAnswered, HostGivesUp, vars, device
<1>b. Script' = Script /\ HostBlock' = HostBlock
  BY DEF Script, Pair, Sum, XorAll, HostBlock
<1>c. ASSUME NEW n \in 1 .. 4, Awaits(n) PROVE Awaits(n)'
  BY <1>a, <1>b, <1>c DEF Awaits, Quiet, AtCase0, AtStep
<1>1. CASE HostSends
  <2>1. /\ stage \in 1 .. 3 /\ ~waiting /\ waiting' /\ wire' = Append(wire, Script[stage])
        /\ answer' = <<>> /\ UNCHANGED stage
    BY <1>1, Lines DEF HostSends
  <2>2. PICK n \in 1 .. 3 : ToSend(n)
    BY <2>1 DEF InStep, ToSend, OnWire, InDevice, Acked, Nacked
  <2>3. stage = n /\ wire = <<>> /\ Awaits(n)
    BY <2>1, <2>2 DEF ToSend
  <2>4. Append(<<>>, Script[n]) = <<Script[n]>>
    OBVIOUS
  <2>5. OnWire(n)'
    BY <1>b, <1>c, <2>1, <2>3, <2>4 DEF OnWire
  <2> QED BY <2>5 DEF InStep
<1>2. CASE HostIsAnswered
  <2>1. /\ waiting /\ answer # <<>> /\ ~waiting' /\ answer' = Tail(answer) /\ UNCHANGED wire
        /\ stage' = (IF Head(answer) = "ACK" THEN stage + 1 ELSE IF pauses THEN 0 ELSE 1)
    BY <1>2 DEF HostIsAnswered
  <2>2. PICK n \in 1 .. 3 : Acked(n) \/ Nacked(n)
    BY <2>1 DEF InStep, ToSend, OnWire, InDevice
  <2>3. CASE Acked(n)
    <3>1. stage' = n + 1 /\ answer' = <<>> /\ wire' = <<>> /\ Awaits(n + 1)
      BY <2>1, <2>3 DEF Acked
    <3>2. n + 1 \in 1 .. 4
      OBVIOUS
    <3>3. ToSend(n + 1)'
      BY <1>c, <2>1, <3>1, <3>2 DEF ToSend
    <3>4. n + 1 = 4 \/ n + 1 \in 1 .. 3
      OBVIOUS
    <3> QED BY <3>3, <3>4 DEF InStep
  <2>4. CASE Nacked(n)
    <3>1. stage' \in 0 .. 1 /\ answer' = <<>> /\ wire' = <<>> /\ Awaits(1)
      BY <2>1, <2>4 DEF Nacked, Awaits, Quiet
    <3>2. ToSend(1)'
      BY <1>c, <2>1, <3>1 DEF ToSend
    <3> QED BY <3>2 DEF InStep
  <2> QED BY <2>2, <2>3, <2>4
<1>3. CASE HostGivesUp
  <2>1. /\ wire = <<>> /\ ((waiting /\ answer = <<>>) \/ stage = 0) /\ rx_queue = <<>>
        /\ Len(rx_queue) < Needed
        /\ stage' = 1 /\ ~waiting' /\ UNCHANGED <<wire, answer>>
    BY <1>3 DEF HostGivesUp, NothingHappens
  <2>2. PICK n \in 1 .. 3 : InDevice(n) \/ (ToSend(n) /\ stage = 0)
    BY <2>1 DEF InStep, ToSend, OnWire, Acked, Nacked
  <2>3. Quiet /\ answer = <<>>
    <3>1. CASE InDevice(n)
      <4>1. ~Works(n)
        <5>1. Len(<<>>) = 0 /\ Len(Script[1]) = 2 /\ Script[2] # <<>>
              /\ Arrived(Script[3]) # <<>> /\ Rest(Arrived(Script[3]), 1) # <<>>
          <6>1. Len(Script[2]) >= 1
            BY AddressLine, HostNumbers
          <6> QED BY <6>1, Lines, CommandLine, BlockLine
        <5>2. AtStep(0) => Needed = 0
          BY DEF AtStep, Needed
        <5> QED BY <2>1, <5>1, <5>2 DEF Works, WorksOnCommand, WorksOnAddress, WorksOnBlock
      <4> QED BY <3>1, <4>1 DEF InDevice
    <3>2. CASE ToSend(n)
      BY <3>2 DEF ToSend, Awaits
    <3> QED BY <2>2, <3>1, <3>2
  <2>4. Awaits(1)
    BY <2>3 DEF Awaits
  <2>5. ToSend(1)'
    BY <1>c, <2>1, <2>3, <2>4 DEF ToSend
  <2> QED BY <2>5 DEF InStep
<1> QED BY <1>1, <1>2, <1>3

LEMMA ArrivedAlone ==
  ASSUME NEW n \in 1 .. 3
  PROVE  <<>> \o Arrived(Script[n]) = Arrived(Script[n])
<1>1. \E S : Script[n] \in Seq(S)
  <2>1. <<Write, XorByte(Write, AllOnes)>> \in Seq({Write, XorByte(Write, AllOnes)})
    OBVIOUS
  <2>2. HostAddr \o <<AddressSum>> \in Seq(Byte \cup {AddressSum})
    <3>1. HostAddr \in Seq(Byte \cup {AddressSum}) /\ <<AddressSum>> \in Seq(Byte \cup {AddressSum})
      BY HostNumbers
    <3> QED BY ONLY <3>1, ConcatProperties
  <2>3. \E S : Script[3] \in Seq(S)
    <3> DEFINE S == Byte \cup {Len(HostData) - 1, BlockSum}
    <3>1. <<Len(HostData) - 1>> \in Seq(S) /\ HostData \in Seq(S) /\ <<BlockSum>> \in Seq(S)
      BY HostNumbers
    <3> HIDE DEF S
    <3>2. <<Len(HostData) - 1>> \o HostData \in Seq(S)
      BY ONLY <3>1, ConcatProperties
    <3>3. <<Len(HostData) - 1>> \o HostData \o <<BlockSum>> \in Seq(S)
      BY ONLY <3>1, <3>2, ConcatProperties
    <3> QED BY <3>3, Lines
  <2>4. CASE n = 1
    BY <2>1, <2>4, Lines DEF Pair
  <2>5. CASE n = 2
    BY <2>2, <2>5, Lines
  <2>6. CASE n = 3
    BY <2>3, <2>6
  <2> QED BY <2>4, <2>5, <2>6
<1>2. PICK S : Script[n] \in Seq(S)
  BY <1>1
<1>3. Smaller(Len(Script[n]), Cap) \in 0 .. Len(Script[n])
  BY <1>2, HostNumbers, LenProperties DEF Smaller
<1>4. Arrived(Script[n]) \in Seq(S)
  BY <1>2, <1>3, FirstProperties DEF Arrived
<1> QED BY ONLY <1>4, ConcatEmptySeq

LEMMA WireStep ==
  ASSUME InStep, WireIsLost \/ DeviceReceives
  PROVE  InStep'
<1>a. /\ wire # <<>> /\ wire' = Tail(wire)
      /\ UNCHANGED <<stage, waiting, answer, memory>>
      /\ UNCHANGED <<iap_tick, bl_cmd, exe_tick, start_addr, pack_length>>
  BY DEF WireIsLost, DeviceReceives, Receive, vars, device
<1>1. PICK n \in 1 .. 3 : OnWire(n)
  BY <1>a DEF InStep, ToSend, InDevice, Acked, Nacked
<1>2. wire = <<Script[n]>> /\ Tail(<<Script[n]>>) = <<>> /\ Head(wire) = Script[n]
  BY <1>1 DEF OnWire
<1>3. CASE WireIsLost
  <2>1. UNCHANGED <<rx_queue, timeUp>> /\ Quiet
    BY <1>1, <1>3 DEF WireIsLost, OnWire, Awaits, vars
  <2>2. Quiet'
    BY <1>a, <2>1 DEF Quiet, AtCase0, AtStep
  <2>3. InDevice(n)'
    BY <1>a, <1>1, <1>2, <2>2 DEF OnWire, InDevice
  <2> QED BY <2>3 DEF InStep
<1>4. CASE DeviceReceives
  <2>1. /\ ~timeUp'
        /\ rx_queue' = rx_queue \o First(Script[n], Smaller(Len(Script[n]), Cap - Len(rx_queue)))
    BY <1>2, <1>4 DEF DeviceReceives, Receive
  <2>2. rx_queue = <<>> /\ Len(rx_queue) = 0 /\ Cap - 0 = Cap
    BY <1>1, HostNumbers DEF OnWire, Awaits, Quiet
  <2>3. <<>> \o Arrived(Script[n]) = Arrived(Script[n])
    BY ArrivedAlone
  <2>4. rx_queue' = Arrived(Script[n])
    BY <2>1, <2>2, <2>3 DEF Arrived
  <2>5. /\ Arrived(Script[1]) = Script[1] /\ Arrived(Script[2]) = Script[2]
        /\ Script' = Script /\ Arrived(Script[3])' = Arrived(Script[3])
    BY Lines, CommandLine, AddressLine DEF Script, Pair, Sum, XorAll, Arrived, First, Smaller
  <2>6. Works(n)'
    <3>1. CASE n = 1
      BY <1>a, <1>1, <2>1, <2>4, <2>5, <3>1
         DEF OnWire, Awaits, Quiet, AtCase0, AtStep, Works, WorksOnCommand
    <3>2. CASE n = 2
      BY <1>a, <1>1, <2>1, <2>4, <2>5, <3>2
         DEF OnWire, Awaits, AtStep, Works, WorksOnAddress
    <3>3. CASE n = 3
      BY <1>a, <1>1, <2>1, <2>4, <2>5, <3>3
         DEF OnWire, Awaits, AtStep, Works, WorksOnBlock
    <3> QED BY <3>1, <3>2, <3>3
  <2>7. InDevice(n)'
    BY <1>a, <1>1, <1>2, <2>6 DEF OnWire, InDevice
  <2> QED BY <2>7 DEF InStep
<1> QED BY <1>3, <1>4

LEMMA SessionStep ==
  ASSUME TooShort, NoLength, SessionInv, [SessionNext]_<<vars, session>>
  PROVE  SessionInv'
<1>1. disorder' \in Nat /\ (disorder' = 0 => disorder = 0)
  BY DEF SessionInv, SessionNext, HostSends, HostIsAnswered, HostGivesUp, HostGivesUpEarly,
         WireIsLost, WireIsDoubled, DeviceReceives, DeviceReceivesNothing, DeviceRuns,
         TimePasses, HostIsDone, session
<1> SUFFICES ASSUME disorder' = 0 PROVE InStep' /\ OnlyTheBlockIsWritten'
  BY <1>1 DEF SessionInv
<1>2. disorder = 0 /\ InStep /\ OnlyTheBlockIsWritten
  BY <1>1 DEF SessionInv
<1>3. UNCHANGED memory => OnlyTheBlockIsWritten'
  BY <1>2 DEF OnlyTheBlockIsWritten
<1>4. CASE HostSends \/ HostIsAnswered \/ HostGivesUp
  BY <1>2, <1>3, <1>4, HostStep DEF HostSends, HostIsAnswered, HostGivesUp
<1>5. CASE HostGivesUpEarly \/ WireIsDoubled
  BY <1>2, <1>5 DEF HostGivesUpEarly, WireIsDoubled
<1>6. CASE WireIsLost \/ DeviceReceives
  BY <1>2, <1>3, <1>6, WireStep DEF WireIsLost, DeviceReceives
<1>7. CASE DeviceReceivesNothing \/ HostIsDone \/ UNCHANGED <<vars, session>>
  BY <1>2, <1>3, <1>7, Unmoved
     DEF DeviceReceivesNothing, ReceiveNothing, HostIsDone, vars, session, device
<1>8. CASE DeviceRuns
  BY <1>2, <1>8, DeviceStep
<1>9. CASE TimePasses
  BY <1>2, <1>3, <1>9, TimeStep DEF TimePasses, session
<1> QED BY <1>4, <1>5, <1>6, <1>7, <1>8, <1>9 DEF SessionNext

LEMMA SessionStart == SessionInit => SessionInv
<1> SUFFICES ASSUME SessionInit PROVE SessionInv
  OBVIOUS
<1>1. ToSend(1)
  BY DEF SessionInit, Init, ToSend, Awaits, Quiet, AtCase0
<1>2. 1 \in 1 .. 3 /\ disorder \in Nat /\ memory = NoWrite
  BY DEF SessionInit
<1> QED BY <1>1, <1>2 DEF SessionInv, InStep, OnlyTheBlockIsWritten

(* The host is done only in the state in which it has just been told so. *)
LEMMA DoneIsWritten == SessionInv => DoneMeansWritten
<1> SUFFICES ASSUME SessionInv, disorder = 0, stage > Len(Script)
             PROVE  memory = HostBlock
  BY DEF DoneMeansWritten, HostBlock
<1>1. InStep /\ stage > 3
  BY Lines DEF SessionInv
<1>2. ToSend(4)
  BY <1>1 DEF InStep, ToSend, OnWire, InDevice, Acked, Nacked
<1> QED BY <1>2 DEF ToSend, Awaits

-----------------------------------------------------------------------------
(* What the wire carries is bytes, whatever the disorder: to the interpreter *)
(* the session is one more way to be fed.                                    *)

LEMMA ScriptIsBytes ==
  ASSUME NEW n \in 1 .. 3
  PROVE  Script[n] \in Seq(Byte)
<1>1. Write \in Byte /\ AllOnes \in Byte /\ 0 \in Byte /\ Len(HostData) - 1 \in Byte
  <2>1. Write \in Byte
    BY IapProtocolAssumption DEF Commands, Long
  <2>2. AllOnes \in Byte /\ 0 \in Byte /\ Len(HostData) - 1 \in Byte
    BY HostNumbers DEF Byte
  <2> QED BY <2>1, <2>2
<1>2. \A x, y \in Byte : XorByte(x, y) \in Byte
  BY IapProtocolAssumption
<1>3. XorByte(Write, AllOnes) \in Byte /\ AddressSum \in Byte /\ BlockSum \in Byte
  <2>1. XorAll(HostAddr) \in Byte /\ XorAll(HostData) \in Byte
    BY HostNumbers, XorAllIsByte
  <2> QED BY <1>1, <1>2, <2>1 DEF AddressSum, BlockSum, Sum
<1>4. CASE n = 1
  <2>1. <<Write, XorByte(Write, AllOnes)>> \in Seq(Byte)
    BY <1>1, <1>3
  <2> QED BY <1>4, <2>1, Lines DEF Pair
<1>5. CASE n = 2
  <2>1. HostAddr \in Seq(Byte) /\ <<AddressSum>> \in Seq(Byte)
    BY <1>3, HostNumbers
  <2>2. HostAddr \o <<AddressSum>> \in Seq(Byte)
    BY ONLY <2>1, ConcatProperties
  <2> QED BY <1>5, <2>2, Lines
<1>6. CASE n = 3
  <2>1. <<Len(HostData) - 1>> \in Seq(Byte) /\ HostData \in Seq(Byte) /\ <<BlockSum>> \in Seq(Byte)
    BY <1>1, <1>3, HostNumbers
  <2>2. <<Len(HostData) - 1>> \o HostData \in Seq(Byte)
    BY ONLY <2>1, ConcatProperties
  <2>3. <<Len(HostData) - 1>> \o HostData \o <<BlockSum>> \in Seq(Byte)
    BY ONLY <2>1, <2>2, ConcatProperties
  <2> QED BY <1>6, <2>3, Lines
<1> QED BY <1>4, <1>5, <1>6

WireIsBytes == wire \in Seq(Seq(Byte))

LEMMA WireBytesStep ==
  ASSUME WireIsBytes, [SessionNext]_<<vars, session>>
  PROVE  WireIsBytes'
<1>1. CASE UNCHANGED wire
  BY <1>1 DEF WireIsBytes
<1>2. CASE HostSends
  <2>1. stage \in 1 .. 3 /\ wire' = Append(wire, Script[stage])
    BY <1>2, Lines DEF HostSends
  <2>2. Script[stage] \in Seq(Byte)
    BY <2>1, ScriptIsBytes
  <2> QED BY <2>1, <2>2, AppendProperties DEF WireIsBytes
<1>3. CASE WireIsLost \/ DeviceReceives
  <2>1. wire # <<>> /\ wire' = Tail(wire)
    BY <1>3 DEF WireIsLost, DeviceReceives
  <2> QED BY <2>1, HeadTailProperties DEF WireIsBytes
<1>4. CASE WireIsDoubled
  <2>1. wire # <<>> /\ wire' = <<Head(wire)>> \o wire
    BY <1>4 DEF WireIsDoubled
  <2>2. Head(wire) \in Seq(Byte)
    BY <2>1, HeadTailProperties DEF WireIsBytes
  <2>3. <<Head(wire)>> \in Seq(Seq(Byte)) /\ wire \in Seq(Seq(Byte))
    BY <2>2 DEF WireIsBytes
  <2>4. <<Head(wire)>> \o wire \in Seq(Seq(Byte))
    BY ONLY <2>3, ConcatProperties
  <2> QED BY <2>1, <2>4 DEF WireIsBytes
<1> QED BY <1>1, <1>2, <1>3, <1>4
        DEF SessionNext, HostIsAnswered, HostGivesUp, HostGivesUpEarly, DeviceReceivesNothing,
            DeviceRuns, TimePasses, HostIsDone, session

LEMMA SessionFeeds ==
  ASSUME WireIsBytes, [SessionNext]_<<vars, session>>
  PROVE  FedStep /\ UNCHANGED delivered
<1>1. CASE DeviceReceives
  <2>1. Head(wire) \in Seq(Byte)
    BY <1>1, HeadTailProperties DEF WireIsBytes, DeviceReceives
  <2> QED BY <1>1, <2>1 DEF DeviceReceives, FedStep, Fed
<1>2. CASE DeviceReceivesNothing
  BY <1>2 DEF DeviceReceivesNothing, FedStep, Fed
<1>3. CASE DeviceRuns
  BY <1>3 DEF DeviceRuns, iap_run, FedStep
<1>4. CASE TimePasses
  BY <1>4 DEF TimePasses, Elapse, FedStep
<1>5. CASE UNCHANGED vars
  BY <1>5 DEF vars, FedStep
<1> QED BY <1>1, <1>2, <1>3, <1>4, <1>5
        DEF SessionNext, HostSends, HostIsAnswered, HostGivesUp, HostGivesUpEarly, WireIsLost,
            WireIsDoubled, HostIsDone

SessionDevice == IInv /\ WireIsBytes

LEMMA SessionDeviceStep ==
  ASSUME SessionDevice, [SessionNext]_<<vars, session>>
  PROVE  SessionDevice'
<1>1. IInv /\ WireIsBytes /\ delivered \in 0 .. MaxDatagrams
  BY DEF SessionDevice, IInv, TypeOK
<1>2. FedStep /\ delivered' \in 0 .. MaxDatagrams
  BY <1>1, SessionFeeds
<1> QED BY <1>1, <1>2, InvariantStep, WireBytesStep DEF SessionDevice

LEMMA SessionDeviceStart == SessionInit => SessionDevice
<1> SUFFICES ASSUME SessionInit PROVE SessionDevice
  OBVIOUS
<1>1. IInv
  BY InvariantStart DEF SessionInit
<1>2. WireIsBytes
  BY EmptySeq DEF SessionInit, WireIsBytes
<1> QED BY <1>1, <1>2 DEF SessionDevice

-----------------------------------------------------------------------------
(* The host and the device are in step, with the losses, failed writes and   *)
(* pauses of SessionSpec: the invariant the two results rest on.             *)
THEOREM SessionInvariant ==
  ASSUME TooShort, NoLength PROVE SessionSpec => []SessionInv
<1>1. SessionInv /\ [SessionNext]_<<vars, session>> => SessionInv'
  BY SessionStep
<1> QED BY <1>1, SessionStart, PTL DEF SessionSpec

(* A host that was answered ACK three times has its block in flash. *)
THEOREM DoneMeansWrittenAlways ==
  ASSUME TooShort, NoLength PROVE SessionSpec => []DoneMeansWritten
BY SessionInvariant, DoneIsWritten, PTL

(* No loss, and no attempt given up half way, makes the device write         *)
(* anything but the host's block.                                            *)
THEOREM OnlyTheBlockIsWrittenAlways ==
  ASSUME TooShort, NoLength PROVE SessionSpec => []OnlyTheBlockIsWritten
<1>1. SessionInv => OnlyTheBlockIsWritten
  BY DEF SessionInv, OnlyTheBlockIsWritten
<1> QED BY <1>1, SessionInvariant, PTL

(* The device's step counter, statics and bytes read agree, whatever comes   *)
(* twice and however early the host gives up.                                *)
THEOREM SessionDeviceInvariant == SessionSpec => []SessionDevice
BY SessionDeviceStart, SessionDeviceStep, PTL DEF SessionSpec

(* A device that is out of step with the host may take a part of a block for *)
(* a command; but what it writes is then still the content of one complete   *)
(* Write frame with right check sums, whatever number of losses, duplicates  *)
(* and early retries is allowed, and for every block and address.            *)
THEOREM SessionWritesAreFramed == SessionSpec => []WritesAsFramed
<1>1. SessionInit => WritesAsFramed
  BY DEF SessionInit, Init, WritesAsFramed
<1>2. SessionDevice /\ WritesAsFramed /\ [SessionNext]_<<vars, session>> => WritesAsFramed'
  BY SessionFeeds, WritesStep DEF SessionDevice
<1> QED BY <1>1, <1>2, SessionDeviceInvariant, PTL DEF SessionSpec

(* And the application is started only by such a Go frame. *)
THEOREM SessionStartsAreFramed == SessionSpec => []StartsAsFramed
<1>1. SessionInit => StartsAsFramed
  BY DEF SessionInit, Init, StartsAsFramed
<1>2. SessionDevice /\ StartsAsFramed /\ [SessionNext]_<<vars, session>> => StartsAsFramed'
  BY SessionFeeds, StartsStep DEF SessionDevice
<1> QED BY <1>1, <1>2, SessionDeviceInvariant, PTL DEF SessionSpec
=============================================================================
