---------------------------- MODULE Flash_proof ----------------------------
(* Proofs about the flash driver, for sectors of any number and sizes, any    *)
(* set of requests, and whatever an erase that is cut off may leave.         *)
EXTENDS Flash, TLAPS

(* An operation that is cut off leaves words of flash in its place. *)
LEMMA CutOffType ==
  ASSUME TypeOK, CutOff
  PROVE  mem' \in [Word -> Value]
<1>1. mem \in [Word -> Value]
  BY DEF TypeOK
<1>2. CASE mem' = mem
  BY <1>1, <1>2
<1>3. CASE PartlyErased
  <2>1. PICK left \in Leftovers :
          mem' = [w \in Word |-> IF w \in WordsOf(SectorOf(req.addr)) THEN left[w] ELSE mem[w]]
    BY <1>3 DEF PartlyErased
  <2>2. left \in [Word -> Value]
    BY FlashAssumption
  <2> QED BY <1>1, <2>1, <2>2
<1>4. CASE PartlyProgrammed
  <2>1. PICK v \in SUBSET mem[req.addr + i] : mem' = [mem EXCEPT ![req.addr + i] = v]
    BY <1>4 DEF PartlyProgrammed
  <2>2. req.addr + i \in Word => v \in Value
    BY <1>1 DEF Value
  <2> QED BY <1>1, <2>1, <2>2
<1> QED BY <1>2, <1>3, <1>4 DEF CutOff

LEMMA UnderWayType ==
  ASSUME TypeOK
  PROVE  UnderWay \subseteq Word
<1>1. /\ req.addr \in Nat /\ Len(req.data) \in Nat /\ i \in Nat /\ NWords \in Nat
      /\ req.addr + Len(req.data) <= NWords
  BY FlashAssumption DEF TypeOK, Request, Word
<1>2. i < Len(req.data) => req.addr + i \in Word
  BY <1>1 DEF Word
<1> QED BY <1>2 DEF UnderWay, WordsOf

LEMMA TypeStep ==
  ASSUME TypeOK, [Next]_vars
  PROVE  TypeOK'
<1>a. /\ mem \in [Word -> Value] /\ marked \subseteq Sector
      /\ req \in Requests /\ i \in 0 .. Len(req.data)
      /\ acked \in [Word -> SUBSET Value] /\ stale \subseteq Word
      /\ failed \in BOOLEAN
  BY DEF TypeOK
<1>b. \A r \in Requests : /\ r.addr \in Word /\ r.data \in Seq(Value)
                          /\ Len(r.data) \in Nat /\ SectorOf(r.addr) \in Sector
  BY FlashAssumption DEF Request, SectorOf, Sector
<1>1. ASSUME NEW r \in Requests, Begin(r) PROVE TypeOK'
  <2>1. i' \in 0 .. Len(req'.data) /\ req' \in Requests
    BY <1>1, <1>b DEF Begin
  <2>2. acked' \in [Word -> SUBSET Value]
    BY <1>1, <1>a DEF Begin
  <2>3. at' \in {"idle", "erase", "program"}
    BY <1>1 DEF Begin
  <2> QED BY <1>1, <1>a, <2>1, <2>2, <2>3 DEF Begin, TypeOK
<1>2. CASE Erase
  <2>1. mem' \in [Word -> Value]
    BY <1>2, <1>a DEF Erase, mark_sector_erased, Value
  <2>2. marked' \subseteq Sector
    BY <1>2, <1>a, <1>b DEF Erase, mark_sector_erased
  <2>3. stale' \subseteq Word
    BY <1>2, <1>a DEF Erase, mark_sector_erased
  <2> QED BY <1>2, <1>a, <2>1, <2>2, <2>3 DEF Erase, mark_sector_erased, TypeOK
<1>3. CASE EraseFails \/ ProgramFails
  <2>1. /\ at' = "idle" /\ marked' = {} /\ failed' = TRUE /\ CutOff
        /\ stale' = stale \cup UnderWay /\ UNCHANGED <<req, i, acked>>
    BY <1>3 DEF EraseFails, ProgramFails, Fail, RESET_SECTOR_ERASE_MARK
  <2>2. mem' \in [Word -> Value] /\ stale' \subseteq Word
    BY <1>a, <2>1, CutOffType, UnderWayType
  <2> QED BY <1>a, <2>1, <2>2 DEF TypeOK
<1>4. CASE ProgramWord
  <2>1. i + 1 \in 1 .. Len(req.data) /\ i' \in 0 .. Len(req.data)
    BY <1>4, <1>a, <1>b DEF ProgramWord
  <2>2. mem' \in [Word -> Value]
    BY <1>4, <1>a DEF ProgramWord, Value
  <2> QED BY <1>4, <1>a, <2>1, <2>2 DEF ProgramWord, TypeOK
<1>5. CASE Return
  <2>1. marked' \subseteq Sector
    BY <1>5, <1>a DEF Return, ForgetOwn
  <2>2. \A w \in Covered(req) : req.data[w - req.addr + 1] \in Value
    <3> TAKE w \in Covered(req)
    <3>1. req.addr \in Int /\ Len(req.data) \in Nat /\ req.data \in Seq(Value)
      BY <1>a, <1>b, FlashAssumption DEF Word
    <3>2. w - req.addr + 1 \in 1 .. Len(req.data)
      BY <3>1 DEF Covered
    <3> QED BY <3>1, <3>2
  <2>3. acked' \in [Word -> SUBSET Value]
    BY <1>5, <1>a, <2>2 DEF Return
  <2> QED BY <1>5, <1>a, <2>1, <2>3 DEF Return, TypeOK
<1>6. CASE PowerLoss
  <2>1. mem' \in [Word -> Value]
    BY <1>6, CutOffType DEF PowerLoss
  <2> QED BY <1>6, <1>a, <2>1 DEF PowerLoss, TypeOK
<1>7. CASE UNCHANGED vars
  BY <1>7 DEF vars, TypeOK
<1> QED BY <1>1, <1>2, <1>3, <1>4, <1>5, <1>6, <1>7 DEF Next

LEMMA MarksStep ==
  ASSUME TypeOK, MarksHold, [Next]_vars
  PROVE  MarksHold'
<1>a. req \in Requests /\ marked \subseteq Sector
  BY DEF TypeOK
<1>1. ASSUME NEW r \in Requests, Begin(r) PROVE MarksHold'
  BY <1>1 DEF Begin, MarksHold
<1>2. CASE Erase
  <2> DEFINE s == SectorOf(req.addr)
  <2>1. stale' = stale \ WordsOf(s) /\ marked' = marked \cup {s} /\ UNCHANGED req
    BY <1>2 DEF Erase, mark_sector_erased
  <2>2. WordsOf(s) \cap stale' = {}
    BY <2>1
  <2>3. \A t \in marked' : WordsOf(t) \cap stale' = {}
    BY <2>1, <2>2 DEF MarksHold
  <2> QED BY <2>1, <2>2, <2>3 DEF MarksHold
<1>3. CASE EraseFails \/ ProgramFails
  BY <1>3 DEF EraseFails, ProgramFails, Fail, RESET_SECTOR_ERASE_MARK, MarksHold
<1>4. CASE ProgramWord
  BY <1>4 DEF ProgramWord, MarksHold
<1>5. CASE Return
  BY <1>5 DEF Return, ForgetOwn, MarksHold
<1>6. CASE PowerLoss
  BY <1>6 DEF PowerLoss, MarksHold
<1>7. CASE UNCHANGED vars
  BY <1>7 DEF vars, MarksHold
<1> QED BY <1>1, <1>2, <1>3, <1>4, <1>5, <1>6, <1>7 DEF Next

(* The marks in RAM never claim an erase that did not happen since power on. *)
THEOREM Invariant == Spec => []IInv
<1>1. Init => IInv
  <2> SUFFICES ASSUME Init PROVE TypeOK /\ MarksHold
    BY DEF IInv
  <2>1. mem \in [Word -> Value] /\ acked \in [Word -> SUBSET Value]
    BY DEF Init, Value
  <2>2. req \in Requests /\ i \in 0 .. Len(req.data)
    BY FlashAssumption DEF Init, Request
  <2>3. failed \in BOOLEAN
    BY DEF Init
  <2> QED BY <2>1, <2>2, <2>3 DEF Init, TypeOK, MarksHold
<1>2. IInv /\ [Next]_vars => IInv'
  BY TypeStep, MarksStep DEF IInv
<1> QED BY <1>1, <1>2, PTL DEF Spec

(* Requests that lie within one sector program erased words only, whatever   *)
(* the device reports and whenever power fails, and whatever the operations  *)
(* that fail or are cut off have left in the flash.                          *)
THEOREM OnErasedWordsOnly ==
  ASSUME PageAligned
  PROVE  Spec => ProgramsErasedWords
<1>1. IInv /\ [Next]_vars =>
        [ProgramWord => req.addr + i \in Otp \/ req.addr + i \notin stale]_vars
  <2> SUFFICES ASSUME IInv, ProgramWord
               PROVE  req.addr + i \in Otp \/ req.addr + i \notin stale
    OBVIOUS
  <2>1. /\ req \in Requests /\ i \in Nat /\ i < Len(req.data) /\ at = "program"
        /\ req.addr \in Nat /\ Len(req.data) \in Nat /\ NWords \in Nat
        /\ req.addr + Len(req.data) <= NWords
    BY FlashAssumption DEF IInv, TypeOK, ProgramWord, Request, Word
  <2>2. req.addr + i \in Covered(req) /\ req.addr + i \in Word
    BY <2>1 DEF Covered, Word
  <2>3. SectorOf(req.addr + i) = SectorOf(req.addr) /\ (req.addr \in Otp => req.addr + i \in Otp)
    BY <2>1, <2>2 DEF PageAligned
  <2>4. req.addr + i \in WordsOf(SectorOf(req.addr))
    BY <2>2, <2>3 DEF WordsOf
  <2> QED BY <2>1, <2>3, <2>4 DEF IInv, MarksHold
<1> QED BY <1>1, Invariant, PTL DEF Spec, ProgramsErasedWords

-----------------------------------------------------------------------------
(* What was acknowledged stays. *)

LEMMA RequestFacts ==
  ASSUME NEW r \in Requests
  PROVE  /\ r.addr \in Nat /\ Len(r.data) \in Nat /\ r.addr + Len(r.data) <= NWords
         /\ r.own \in BOOLEAN /\ r.data \in Seq(Value)
         /\ \A w \in Covered(r) : w \in Word /\ w \in Nat /\ DataAt(r, w) \subseteq Bits
<1>1. /\ r.addr \in Nat /\ Len(r.data) \in Nat /\ r.data \in Seq(Value)
      /\ r.own \in BOOLEAN /\ r.addr + Len(r.data) <= NWords /\ NWords \in Nat
  BY FlashAssumption DEF Request, Word
<1>2. ASSUME NEW w \in Covered(r)
      PROVE  w \in Word /\ w \in Nat /\ DataAt(r, w) \subseteq Bits
  <2>1. w \in Nat /\ w \in Word /\ w - r.addr + 1 \in 1 .. Len(r.data)
    BY <1>1 DEF Covered, Word
  <2>2. r.data[w - r.addr + 1] \in Value
    BY <1>1, <2>1
  <2> QED BY <2>1, <2>2 DEF DataAt, Value
<1> QED BY <1>1, <1>2

LEMMA InItsSector ==
  ASSUME PageAligned, NEW r \in Requests, NEW w \in Covered(r)
  PROVE  w \in WordsOf(SectorOf(r.addr)) /\ SectorOf(w) = SectorOf(r.addr)
<1>1. w \in Word /\ SectorOf(w) = SectorOf(r.addr)
  BY RequestFacts DEF PageAligned
<1> QED BY <1>1 DEF WordsOf

(* A call that programs at once finds its words erased or as they shall be:  *)
(* what another request has for them is the same.                            *)
LEMMA WordsBegin ==
  ASSUME PageAligned, OneImage, TypeOK, ~failed, MarkedSectors, OwnMarks, CallUnderWay,
         AckedWords, NEW r \in Requests, Begin(r)
  PROVE  MarkedSectors' /\ OwnMarks' /\ CallUnderWay' /\ AckedWords'
<1>1. /\ at = "idle" /\ req' = r /\ i' = 0 /\ mem' = mem /\ marked' = marked
      /\ at' = (IF r.addr \in Otp \/ SectorOf(r.addr) \in marked THEN "program" ELSE "erase")
      /\ acked' = [w \in Word |-> IF w \in Covered(r) THEN {} ELSE acked[w]]
  BY DEF Begin
<1>2. MarkedSectors'
  BY <1>1 DEF MarkedSectors
<1>3. OwnMarks'
  BY <1>1 DEF OwnMarks
<1>4. CallUnderWay'
  <2>1. ASSUME at' = "program", NEW w \in Covered(r) \ Otp
        PROVE  mem[w] \in {Bits, DataAt(r, w)} /\ ~(w < r.addr + 0)
    <3>1. w \in WordsOf(SectorOf(r.addr)) /\ w \in Nat /\ r.addr \in Nat /\ w >= r.addr
      BY <2>1, InItsSector, RequestFacts DEF Covered
    <3>2. r.addr \notin Otp
      BY <2>1 DEF PageAligned
    <3>3. SectorOf(r.addr) \in marked
      BY <1>1, <2>1, <3>2
    <3>4. ~r.own
      BY <1>1, <3>3 DEF OwnMarks
    <3>5. CASE mem[w] = Bits
      BY <3>5, <3>1
    <3>6. CASE mem[w] # Bits
      <4>1. PICK q \in Requests : w \in Covered(q) /\ ~q.own /\ mem[w] = DataAt(q, w)
        BY <1>1, <2>1, <3>1, <3>3, <3>6 DEF MarkedSectors
      <4>2. DataAt(q, w) = DataAt(r, w)
        BY <2>1, <3>4, <4>1 DEF OneImage
      <4> QED BY <3>1, <4>1, <4>2
    <3> QED BY <3>5, <3>6
  <2>2. \A w \in Covered(r) : acked'[w] = {}
    BY <1>1, RequestFacts
  <2> QED BY <1>1, <2>1, <2>2 DEF CallUnderWay
<1>5. AckedWords'
  BY <1>1 DEF AckedWords
<1> QED BY <1>2, <1>3, <1>4, <1>5

(* An erase takes nothing that was acknowledged: the sector was not marked,   *)
(* so what was acknowledged in it is the block that is being written again.   *)
LEMMA EraseTakesNothing ==
  ASSUME PageAligned, OwnSector, TypeOK, CallUnderWay, AckedWords, at = "erase",
         NEW w \in WordsOf(SectorOf(req.addr)) \ Otp
  PROVE  acked[w] = {}
<1>1. req \in Requests /\ w \in Word /\ SectorOf(w) = SectorOf(req.addr)
  BY DEF TypeOK, WordsOf
<1>2. SectorOf(w) \notin marked
  BY <1>1 DEF CallUnderWay
<1> SUFFICES ASSUME acked[w] # {} PROVE FALSE
  OBVIOUS
<1>3. PICK r \in Requests : w \in Covered(r) /\ r.own
  BY <1>1, <1>2 DEF AckedWords
<1>4. SectorOf(r.addr) = SectorOf(req.addr)
  BY <1>1, <1>3, InItsSector
<1>5. w \in Covered(req)
  BY <1>1, <1>3, <1>4 DEF OwnSector
<1> QED BY <1>5 DEF CallUnderWay

LEMMA WordsErase ==
  ASSUME PageAligned, TypeOK, ~failed, MarkedSectors, OwnMarks, CallUnderWay, AckedWords,
         Erase
  PROVE  MarkedSectors' /\ OwnMarks' /\ CallUnderWay' /\ AckedWords'
<1> DEFINE s == SectorOf(req.addr)
<1>1. /\ at = "erase" /\ at' = "program" /\ marked' = marked \cup {s}
      /\ mem' = [w \in Word |-> IF w \in WordsOf(s) THEN Bits ELSE mem[w]]
      /\ req' = req /\ i' = i /\ acked' = acked
  BY DEF Erase, mark_sector_erased
<1>2. req \in Requests /\ i = 0
  BY <1>1 DEF TypeOK, CallUnderWay
<1>3. MarkedSectors'
  <2> SUFFICES ASSUME NEW t \in marked', NEW w \in WordsOf(t) \ Otp
               PROVE  mem'[w] = Bits \/
                        \E r \in Requests : /\ w \in Covered(r)
                                            /\ ~r.own \/ (at' = "program" /\ r = req')
                                            /\ mem'[w] = DataAt(r, w)
    BY DEF MarkedSectors
  <2>1. w \in Word
    BY DEF WordsOf
  <2>2. CASE w \in WordsOf(s)
    BY <1>1, <2>1, <2>2
  <2>3. CASE w \notin WordsOf(s)
    <3>1. t \in marked /\ mem'[w] = mem[w]
      BY <1>1, <2>1, <2>3
    <3> QED BY <1>1, <3>1 DEF MarkedSectors
  <2> QED BY <2>2, <2>3
<1>4. OwnMarks'
  BY <1>1 DEF OwnMarks
<1>5. CallUnderWay'
  <2>1. ASSUME NEW w \in Covered(req) PROVE mem'[w] = Bits /\ ~(w < req.addr + 0)
    <3>1. w \in WordsOf(s) /\ w \in Word /\ w \in Nat /\ req.addr \in Nat /\ w >= req.addr
      BY <1>2, InItsSector, RequestFacts DEF Covered
    <3> QED BY <1>1, <3>1
  <2> QED BY <1>1, <1>2, <2>1 DEF CallUnderWay
<1>6. AckedWords'
  BY <1>1 DEF AckedWords
<1> QED BY <1>3, <1>4, <1>5, <1>6

LEMMA WordsProgram ==
  ASSUME PageAligned, TypeOK, ~failed, MarkedSectors, OwnMarks, CallUnderWay, AckedWords,
         ProgramWord
  PROVE  MarkedSectors' /\ OwnMarks' /\ CallUnderWay' /\ AckedWords'
<1> DEFINE v == req.addr + i
<1>1. /\ at = "program" /\ at' = at /\ marked' = marked /\ req' = req /\ acked' = acked
      /\ i < Len(req.data) /\ i' = i + 1
      /\ mem' = [mem EXCEPT ![v] = @ \cap req.data[i + 1]]
  BY DEF ProgramWord
<1>2. /\ req \in Requests /\ i \in Nat /\ req.addr \in Nat /\ Len(req.data) \in Nat
      /\ mem \in [Word -> Value]
  BY RequestFacts DEF TypeOK
<1>3. v \in Covered(req) /\ v \in Word /\ v \in Nat /\ DataAt(req, v) = req.data[i + 1]
      /\ DataAt(req, v) \subseteq Bits
  <2>1. v \in Covered(req) /\ v - req.addr + 1 = i + 1
    BY <1>1, <1>2 DEF Covered
  <2> QED BY <1>2, <2>1, RequestFacts DEF DataAt
<1>4. ASSUME v \notin Otp PROVE mem'[v] = DataAt(req, v)
  <2>1. mem[v] \in {Bits, DataAt(req, v)}
    BY <1>1, <1>2, <1>3, <1>4 DEF CallUnderWay
  <2>2. mem'[v] = mem[v] \cap DataAt(req, v)
    BY <1>1, <1>2, <1>3
  <2> QED BY <1>3, <2>1, <2>2
<1>5. \A w \in Word : w # v => mem'[w] = mem[w]
  BY <1>1, <1>2
<1>6. MarkedSectors'
  <2> SUFFICES ASSUME NEW t \in marked, NEW w \in WordsOf(t) \ Otp
               PROVE  mem'[w] = Bits \/
                        \E r \in Requests : /\ w \in Covered(r)
                                            /\ ~r.own \/ (at' = "program" /\ r = req')
                                            /\ mem'[w] = DataAt(r, w)
    BY <1>1 DEF MarkedSectors
  <2>1. CASE w = v
    BY <1>1, <1>2, <1>3, <1>4, <2>1
  <2>2. CASE w # v
    <3>1. mem'[w] = mem[w]
      BY <1>5, <2>2 DEF WordsOf
    <3> QED BY <1>1, <3>1 DEF MarkedSectors
  <2> QED BY <2>1, <2>2
<1>7. OwnMarks'
  BY <1>1 DEF OwnMarks
<1>8. CallUnderWay'
  <2>1. ASSUME NEW w \in Covered(req) \ Otp
        PROVE  IF w < req.addr + (i + 1) THEN mem'[w] = DataAt(req, w)
               ELSE mem'[w] \in {Bits, DataAt(req, w)}
    <3>1. w \in Word /\ w \in Nat
      BY <1>2, RequestFacts
    <3>2. CASE w = v
      BY <1>4, <3>2
    <3>3. CASE w # v
      <4>1. mem'[w] = mem[w] /\ (w < req.addr + (i + 1) <=> w < req.addr + i)
        BY <1>2, <1>5, <3>1, <3>3
      <4> QED BY <1>1, <4>1 DEF CallUnderWay
    <3> QED BY <3>2, <3>3
  <2> QED BY <1>1, <2>1 DEF CallUnderWay
<1>9. AckedWords'
  BY <1>1 DEF AckedWords
<1> QED BY <1>6, <1>7, <1>8, <1>9

LEMMA WordsReturn ==
  ASSUME PageAligned, OwnSector, TypeOK, ~failed, MarkedSectors, OwnMarks, CallUnderWay,
         AckedWords, Return
  PROVE  MarkedSectors' /\ OwnMarks' /\ CallUnderWay' /\ AckedWords'
<1> DEFINE s == SectorOf(req.addr)
<1>1. /\ at = "program" /\ at' = "idle" /\ mem' = mem /\ req' = req
      /\ marked' = IF req.own THEN marked \ {s} ELSE marked
      /\ acked' = [w \in Word |-> IF w \in Covered(req) THEN {req.data[w - req.addr + 1]}
                                  ELSE acked[w]]
  BY DEF Return, ForgetOwn
<1>2. req \in Requests /\ req.own \in BOOLEAN
  BY RequestFacts DEF TypeOK
<1>3. MarkedSectors'
  <2> SUFFICES ASSUME NEW t \in marked', NEW w \in WordsOf(t) \ Otp, mem[w] # Bits
               PROVE  \E r \in Requests : w \in Covered(r) /\ ~r.own /\ mem[w] = DataAt(r, w)
    BY <1>1 DEF MarkedSectors
  <2>1. PICK r \in Requests : w \in Covered(r) /\ (~r.own \/ r = req) /\ mem[w] = DataAt(r, w)
    BY <1>1, <1>2 DEF MarkedSectors
  <2>2. SectorOf(w) = t
    BY DEF WordsOf
  <2>3. ~r.own
    BY <1>1, <1>2, <2>1, <2>2, InItsSector
  <2> QED BY <2>1, <2>3
<1>4. OwnMarks'
  <2> SUFFICES ASSUME NEW r \in Requests, r.own, SectorOf(r.addr) \in marked'
               PROVE  FALSE
    BY DEF OwnMarks
  <2>1. SectorOf(r.addr) = s
    BY <1>1, <1>2 DEF OwnMarks
  <2>2. req.own
    BY <1>2, <2>1 DEF OwnSector
  <2> QED BY <1>1, <2>1, <2>2
<1>5. CallUnderWay'
  BY <1>1 DEF CallUnderWay
<1>6. AckedWords'
  <2> SUFFICES ASSUME NEW w \in Word \ Otp, acked'[w] # {}
               PROVE  \E r \in Requests : w \in Covered(r) /\ (r.own \/ SectorOf(w) \in marked')
    BY DEF AckedWords
  <2>1. CASE w \in Covered(req)
    <3>1. req.addr \notin Otp /\ SectorOf(w) = s
      BY <1>2, <2>1, InItsSector DEF PageAligned
    <3>2. s \in marked
      BY <1>1, <3>1 DEF CallUnderWay
    <3> QED BY <1>1, <1>2, <2>1, <3>1, <3>2
  <2>2. CASE w \notin Covered(req)
    <3>1. PICK r \in Requests : w \in Covered(r) /\ (r.own \/ SectorOf(w) \in marked)
      BY <1>1, <2>2 DEF AckedWords
    <3>2. SectorOf(w) = SectorOf(r.addr)
      BY <3>1, InItsSector
    <3>3. r.own \/ SectorOf(w) \in marked'
      BY <1>1, <1>2, <3>1, <3>2 DEF OwnSector
    <3> QED BY <3>1, <3>3
  <2> QED BY <2>1, <2>2
<1> QED BY <1>3, <1>4, <1>5, <1>6

LEMMA WordsStep ==
  ASSUME PageAligned, OneImage, OwnSector, TypeOK, WordsInv, [Next]_vars
  PROVE  WordsInv'
<1>1. CASE UNCHANGED vars
  BY <1>1 DEF vars, WordsInv, MarkedSectors, OwnMarks, CallUnderWay, AckedWords
<1>2. CASE PowerLoss
  BY <1>2 DEF PowerLoss, WordsInv, MarkedSectors, OwnMarks, CallUnderWay, AckedWords
<1>3. CASE EraseFails \/ ProgramFails
  BY <1>3 DEF EraseFails, ProgramFails, Fail, WordsInv
<1>4. CASE (\E r \in Requests : Begin(r)) \/ Erase \/ ProgramWord \/ Return
  <2>1. failed' = failed
    BY <1>4 DEF Begin, Erase, ProgramWord, Return
  <2> SUFFICES ASSUME ~failed
               PROVE  MarkedSectors' /\ OwnMarks' /\ CallUnderWay' /\ AckedWords'
    BY <2>1 DEF WordsInv
  <2>2. MarkedSectors /\ OwnMarks /\ CallUnderWay /\ AckedWords
    BY DEF WordsInv
  <2> QED BY <1>4, <2>2, WordsBegin, WordsErase, WordsProgram, WordsReturn
<1> QED BY <1>1, <1>2, <1>3, <1>4 DEF Next

LEMMA AckedStep ==
  ASSUME PageAligned, OwnSector, TypeOK, WordsInv, AckedHolds, [Next]_vars
  PROVE  AckedHolds'
<1> SUFFICES ASSUME ~failed', NEW w \in Word \ Otp PROVE acked'[w] \subseteq {mem'[w]}
  BY DEF AckedHolds
<1>1. CASE PowerLoss
  BY <1>1 DEF PowerLoss
<1>2. CASE EraseFails \/ ProgramFails
  BY <1>2 DEF EraseFails, ProgramFails, Fail
<1>3. CASE ~PowerLoss /\ ~EraseFails /\ ~ProgramFails
  <2>1. ~failed
    BY <1>3 DEF Next, Begin, Erase, ProgramWord, Return, vars
  <2>2. acked[w] \subseteq {mem[w]} /\ MarkedSectors /\ OwnMarks /\ CallUnderWay /\ AckedWords
    BY <2>1 DEF AckedHolds, WordsInv
  <2>3. /\ mem \in [Word -> Value] /\ req \in Requests /\ i \in Nat
        /\ req.addr \in Nat /\ Len(req.data) \in Nat
    BY RequestFacts DEF TypeOK
  <2>4. ASSUME NEW r \in Requests, Begin(r) PROVE acked'[w] \subseteq {mem'[w]}
    BY <2>2, <2>4 DEF Begin
  <2>5. CASE Erase
    <3>1. acked' = acked /\ at = "erase"
          /\ mem' = [u \in Word |-> IF u \in WordsOf(SectorOf(req.addr)) THEN Bits ELSE mem[u]]
      BY <2>5 DEF Erase
    <3>2. CASE w \in WordsOf(SectorOf(req.addr))
      BY <2>2, <3>1, <3>2, EraseTakesNothing
    <3>3. CASE w \notin WordsOf(SectorOf(req.addr))
      BY <2>2, <3>1, <3>3
    <3> QED BY <3>2, <3>3
  <2>6. CASE ProgramWord
    <3>1. /\ acked' = acked /\ at = "program" /\ i < Len(req.data)
          /\ mem' = [mem EXCEPT ![req.addr + i] = @ \cap req.data[i + 1]]
      BY <2>6 DEF ProgramWord
    <3>2. CASE w = req.addr + i
      <4>1. w \in Covered(req)
        BY <2>3, <3>1, <3>2 DEF Covered
      <4> QED BY <2>2, <3>1, <4>1 DEF CallUnderWay
    <3>3. CASE w # req.addr + i
      BY <2>2, <2>3, <3>1, <3>3
    <3> QED BY <3>2, <3>3
  <2>7. CASE Return
    <3>1. /\ at = "program" /\ i = Len(req.data) /\ mem' = mem
          /\ acked' = [u \in Word |-> IF u \in Covered(req) THEN {req.data[u - req.addr + 1]}
                                      ELSE acked[u]]
      BY <2>7 DEF Return
    <3>2. CASE w \in Covered(req)
      <4>1. w < req.addr + i
        BY <2>3, <3>1, <3>2 DEF Covered
      <4>2. mem[w] = req.data[w - req.addr + 1]
        BY <2>2, <3>1, <3>2, <4>1 DEF CallUnderWay, DataAt
      <4> QED BY <3>1, <3>2, <4>2
    <3>3. CASE w \notin Covered(req)
      BY <2>2, <3>1, <3>3
    <3> QED BY <3>2, <3>3
  <2>8. CASE UNCHANGED vars
    BY <2>2, <2>8 DEF vars
  <2> QED BY <1>3, <2>4, <2>5, <2>6, <2>7, <2>8 DEF Next
<1> QED BY <1>1, <1>2, <1>3

(* What a client was told is written reads back until power or the device    *)
(* fails, whatever is written to the same sector meanwhile, if the writes    *)
(* that share a sector agree and pvf's sector holds nothing but its block.   *)
THEOREM AckedHoldsAlways ==
  ASSUME PageAligned, OneImage, OwnSector
  PROVE  Spec => []AckedHolds
<1>1. Init => WordsInv /\ AckedHolds
  BY DEF Init, WordsInv, MarkedSectors, OwnMarks, CallUnderWay, AckedWords, AckedHolds
<1>2. IInv /\ WordsInv /\ AckedHolds /\ [Next]_vars => WordsInv' /\ AckedHolds'
  BY WordsStep, AckedStep DEF IInv
<1> QED BY <1>1, <1>2, Invariant, PTL DEF Spec
=============================================================================
