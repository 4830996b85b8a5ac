------------------------------- MODULE Flash -------------------------------
(***************************************************************************)
(* HAL/stmflash.c: writing the program flash, whose words can be cleared   *)
(* bit by bit and set only a whole sector at a time.                       *)
(*                                                                         *)
(* The driver erases a sector before the first write to it and remembers   *)
(* in RAM that it did, so that the following writes only program.  One     *)
(* call at a time is made, by bl_write_memory and by pvf::write; it is     *)
(* split at each access to the flash, because power may fail between two,  *)
(* and in the middle of one.                                               *)
(*                                                                         *)
(* A word is the set of its bits that are 1.  The device (FLASH_EraseSector*)
(* and FLASH_ProgramWord of the vendor's library) is external.             *)
(***************************************************************************)
EXTENDS Integers, Sequences

CONSTANTS NWords,       \* words of flash, OTP area included
          SectorStarts, \* the first word of each sector
          Otp,          \* the words of the OTP area, which is never erased
          MaxLen,       \* words in 256 bytes
          Bits,         \* the bits of a word
          Leftovers,    \* what an erase that is cut off may leave in the words
          Requests      \* what the clients write: addr, data, and by whom

Word == 0 .. NWords - 1

(* The sector of a word, by its first word.  The OTP area has one of its own  *)
(* here: its mark is never looked at.                                        *)
SectorOf(w) == CHOOSE s \in SectorStarts :
                 s <= w /\ \A t \in SectorStarts : t <= w => t <= s
Sector == {SectorOf(w) : w \in Word}
WordsOf(s) == {w \in Word : SectorOf(w) = s}
Value == SUBSET Bits

(* own: the request comes from pvf::write, which forgets the mark afterwards. *)
Request == {r \in [addr : Word, data : Seq(Value), own : BOOLEAN] :
              r.addr + Len(r.data) <= NWords}

ASSUME FlashAssumption ==
  /\ NWords \in Nat /\ MaxLen \in Nat
  /\ SectorStarts \subseteq Word /\ 0 \in SectorStarts
  /\ Otp \subseteq Word
  /\ Leftovers \subseteq [Word -> Value]
  /\ Requests \subseteq Request

VARIABLES
  mem,      \* the flash
  marked,   \* sector_erase_state_tab is 0xFF for these sectors; lost with power
  at,       \* where the call is: "idle", "erase", "program"
  req, i,   \* its request, and the words of it that are programmed
  acked,    \* history: what the clients were told is in a word, if anything
  stale,    \* history: the words that were not erased since power came on,
            \* or since an operation on them failed
  failed    \* history: the device has reported a failure since then

vars == <<mem, marked, at, req, i, acked, stale, failed>>

Covered(r) == r.addr .. r.addr + Len(r.data) - 1

Init ==
  /\ mem \in [Word -> {Bits, {}}]
  /\ marked = {}
  /\ at = "idle" /\ req \in Requests /\ i = 0
  /\ acked = [w \in Word |-> {}]
  /\ stale = Word
  /\ failed = FALSE

-----------------------------------------------------------------------------
(* The marks. *)

(* Mutant of mark_sector_erased: the sector is not remembered. *)
mark_nothing(s) == marked

mark_sector_erased(s) == marked \cup {s}

(* Mutant of RESET_SECTOR_ERASE_MARK: the marks survive a failure. *)
KEEP_SECTOR_ERASE_MARK(marks) == marks

RESET_SECTOR_ERASE_MARK(marks) == {}

(* rst_addr_erase_mark. *)
ForgetOwn(marks) == IF req.own THEN marks \ {SectorOf(req.addr)} ELSE marks

(* The words that the operation under way changes, and what becomes of them   *)
(* when it is cut off or fails: nothing, or part of it.  A sector half erased *)
(* may hold anything; a word half programmed has lost some of the bits.       *)
UnderWay ==
  CASE at = "erase" -> WordsOf(SectorOf(req.addr))
    [] at = "program" /\ i < Len(req.data) -> {req.addr + i}
    [] OTHER -> {}

PartlyErased ==
  \E left \in Leftovers :
    mem' = [w \in Word |-> IF w \in WordsOf(SectorOf(req.addr)) THEN left[w] ELSE mem[w]]

PartlyProgrammed ==
  \E v \in SUBSET mem[req.addr + i] :
    /\ mem[req.addr + i] \cap req.data[i + 1] \subseteq v
    /\ mem' = [mem EXCEPT ![req.addr + i] = v]

CutOff ==
  \/ mem' = mem
  \/ at = "erase" /\ PartlyErased
  \/ at = "program" /\ i < Len(req.data) /\ PartlyProgrammed

(* The call returns -1.  marks: the marks up to the failure. *)
Fail(marks) ==
  /\ at' = "idle"
  /\ marked' = RESET_SECTOR_ERASE_MARK(marks)
  /\ failed' = TRUE
  /\ CutOff
  /\ stale' = stale \cup UnderWay
  /\ UNCHANGED <<req, i, acked>>

(* The checks, and the first part of erase_sector_once.  A request that is   *)
(* too long is refused and changes nothing.                                  *)
Begin(r) ==
  /\ at = "idle"
  /\ Len(r.data) <= MaxLen
  /\ req' = r /\ i' = 0
  /\ at' = IF r.addr \in Otp \/ SectorOf(r.addr) \in marked
           THEN "program" ELSE "erase"
  /\ acked' = [w \in Word |-> IF w \in Covered(r) THEN {} ELSE acked[w]]
  /\ UNCHANGED <<mem, marked, stale, failed>>

(* The sector of the first word is erased, and marked. *)
Erase ==
  LET s == SectorOf(req.addr)
  IN  /\ at = "erase"
      /\ mem' = [w \in Word |-> IF w \in WordsOf(s) THEN Bits ELSE mem[w]]
      /\ stale' = stale \ WordsOf(s)
      /\ marked' = mark_sector_erased(s)
      /\ at' = "program"
      /\ UNCHANGED <<req, i, acked, failed>>

(* The sector is marked before the result of the erase is looked at. *)
EraseFails ==
  /\ at = "erase"
  /\ Fail(mark_sector_erased(SectorOf(req.addr)))

(* Programming a word clears the bits that are 0 in the data. *)
ProgramWord ==
  /\ at = "program" /\ i < Len(req.data)
  /\ mem' = [mem EXCEPT ![req.addr + i] = @ \cap req.data[i + 1]]
  /\ i' = i + 1
  /\ UNCHANGED <<marked, at, req, acked, stale, failed>>

ProgramFails ==
  /\ at = "program" /\ i < Len(req.data)
  /\ Fail(marked)

(* The call returns 0, and the client reports it: "write %d bytes ok". *)
Return ==
  /\ at = "program" /\ i = Len(req.data)
  /\ at' = "idle"
  /\ marked' = ForgetOwn(marked)
  /\ acked' = [w \in Word |-> IF w \in Covered(req) THEN {req.data[w - req.addr + 1]}
                              ELSE acked[w]]
  /\ UNCHANGED <<mem, req, i, stale, failed>>

(* Power goes, perhaps in the middle of an operation, and comes back: the     *)
(* marks are gone.                                                           *)
PowerLoss ==
  /\ CutOff
  /\ at' = "idle"
  /\ marked' = {}
  /\ acked' = [w \in Word |-> {}]
  /\ stale' = Word
  /\ failed' = FALSE
  /\ UNCHANGED <<req, i>>

Next ==
  \/ \E r \in Requests : Begin(r)
  \/ Erase \/ EraseFails
  \/ ProgramWord \/ ProgramFails
  \/ Return
  \/ PowerLoss

Spec == Init /\ [][Next]_vars

-----------------------------------------------------------------------------
TypeOK ==
  /\ mem \in [Word -> Value]
  /\ marked \subseteq Sector
  /\ at \in {"idle", "erase", "program"}
  /\ req \in Requests /\ i \in 0 .. Len(req.data)
  /\ acked \in [Word -> SUBSET Value]
  /\ stale \subseteq Word
  /\ failed \in BOOLEAN

(* A mark, and a call that is past the erase, stand for an erased sector.     *)
MarksHold ==
  /\ \A s \in marked : WordsOf(s) \cap stale = {}
  /\ at = "program" =>
       req.addr \in Otp \/ WordsOf(SectorOf(req.addr)) \cap stale = {}

IInv == TypeOK /\ MarksHold

(* Every request lies within one sector, and in the OTP area or outside it.  *)
PageAligned ==
  \A r \in Requests : \A w \in Covered(r) :
    SectorOf(w) = SectorOf(r.addr) /\ (r.addr \in Otp => w \in Otp)

(* No word is programmed that still holds what it held when power came on,   *)
(* or what an erase or a program that failed has left in it: it would come   *)
(* out as the AND of the old and the new content, and the write would be     *)
(* acknowledged all the same.  Holds for PageAligned requests: the marks     *)
(* never claim an erase that failed or was before a power loss, and after a  *)
(* failed program the sector is erased again.                                *)
ProgramsErasedWords ==
  [][ProgramWord => req.addr + i \in Otp \/ req.addr + i \notin stale]_vars

(* What a client was told is written is what reads back, while power lasts   *)
(* and the device works: no write to another page of the sector erases or    *)
(* changes it.  (After a failure it may: see ErasedOnce.)                    *)
AckedHolds == ~failed => \A w \in Word \ Otp : acked[w] \subseteq {mem[w]}

(* What AckedHolds needs of the requests: those that only program agree on   *)
(* what is in a word, and a sector that pvf::write erases each time holds    *)
(* nothing but its block.                                                    *)
DataAt(r, w) == r.data[w - r.addr + 1]

OneImage ==
  \A r1, r2 \in Requests : \A w \in Covered(r1) \cap Covered(r2) :
    ~r1.own /\ ~r2.own => DataAt(r1, w) = DataAt(r2, w)

OwnSector ==
  \A r1, r2 \in Requests :
    r1.own /\ SectorOf(r1.addr) = SectorOf(r2.addr) =>
      r2.own /\ Covered(r1) = Covered(r2)

(* What is in the words while the device works, from which AckedHolds        *)
(* follows: in a marked sector a word is erased or holds what a request has  *)
(* for it, and the words of the call that is under way are yet to be         *)
(* acknowledged.                                                             *)
MarkedSectors ==
  \A s \in marked : \A w \in WordsOf(s) \ Otp :
    mem[w] = Bits \/
      \E r \in Requests : /\ w \in Covered(r)
                          /\ ~r.own \/ (at = "program" /\ r = req)
                          /\ mem[w] = DataAt(r, w)

OwnMarks ==
  \A r \in Requests : r.own /\ SectorOf(r.addr) \in marked =>
    at = "program" /\ SectorOf(req.addr) = SectorOf(r.addr)

CallUnderWay ==
  /\ at = "erase" => i = 0 /\ SectorOf(req.addr) \notin marked
  /\ at = "program" /\ req.addr \notin Otp => SectorOf(req.addr) \in marked
  /\ at = "program" => \A w \in Covered(req) \ Otp :
       IF w < req.addr + i THEN mem[w] = DataAt(req, w) ELSE mem[w] \in {Bits, DataAt(req, w)}
  /\ at # "idle" => \A w \in Covered(req) : acked[w] = {}

AckedWords ==
  \A w \in Word \ Otp : acked[w] # {} =>
    \E r \in Requests : w \in Covered(r) /\ (r.own \/ SectorOf(w) \in marked)

WordsInv == ~failed => MarkedSectors /\ OwnMarks /\ CallUnderWay /\ AckedWords

(* stmflash.c:63, "Check before erasing. If erased, do nothing": a sector    *)
(* that was erased and holds an acknowledged page is not erased again.       *)
ErasedOnce ==
  [][Erase => \A w \in WordsOf(SectorOf(req.addr)) : acked[w] = {}]_vars

(* stmflash.c:98-100: the lengths accepted mean that a write "will never     *)
(* write cross sector".                                                      *)
NeverCrossesSector ==
  at = "program" => \A w \in Covered(req) : SectorOf(w) = SectorOf(req.addr)
=============================================================================
