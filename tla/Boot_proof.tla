----------------------------- MODULE Boot_proof -----------------------------
(***************************************************************************)
(* Proofs about the power-up variables and the way from power-up to the    *)
(* main loop, for sectors of any sizes, every number of variables, and     *)
(* resets, power losses and failures at any moment, in the middle of an    *)
(* erase or a program of the flash, too.                                   *)
(***************************************************************************)
EXTENDS Boot, SequenceTheorems, TLAPS

(* The part of BootTypeOK that is about the flash and the calls of pvf. *)
CallTypeOK ==
  /\ mem \in [Word -> Value]
  /\ marked \subseteq Sector
  /\ at \in {"idle", "erase", "program"}
  /\ req \in Request /\ i \in 0 .. Len(req.data)
  /\ stale \subseteq Word /\ failed \in BOOLEAN
  /\ then \in Seq(Request) /\ Len(then) <= 1
  /\ DOMAIN asks \subseteq Var /\ \A k \in DOMAIN asks : asks[k] \in Value
  /\ meant \in [Var -> SUBSET Value]
  /\ torn \in BOOLEAN /\ muddled \in BOOLEAN

LEMMA Geometry ==
  /\ POWERUP_VAR_ADDR \in Nat /\ MAX_VAR_NUM_FUTURE \in Nat /\ VarNum \in Nat /\ VarNum >= 2
  /\ \A j \in 0 .. MAX_VAR_NUM_FUTURE : POWERUP_VAR_ADDR + j \in Word
  /\ \A k \in Var : k \in 0 .. MAX_VAR_NUM_FUTURE /\ WordOf(k) \in Word
  /\ VAR_BOOT_OPTI \in Var /\ VAR_NUM_OF_VAR \in Var
  /\ Erased \in Value
  BY FlashAssumption, PowerupVarsAssumption
     DEF Word, Var, WordOf, VAR_BOOT_OPTI, VAR_NUM_OF_VAR, Erased, Value

LEMMA RequestTypes ==
  ASSUME NEW r \in Request
  PROVE  /\ r.addr \in Word /\ r.addr \in Nat /\ r.data \in Seq(Value) /\ Len(r.data) \in Nat
         /\ r.own \in BOOLEAN /\ SectorOf(r.addr) \in Sector
         /\ r.addr + Len(r.data) <= NWords
         /\ \A w \in Covered(r) : w \in Int /\ DataAt(r, w) \in Value
  <1>1. r.addr \in Word /\ r.addr \in Nat /\ r.data \in Seq(Value) /\ Len(r.data) \in Nat
        /\ r.own \in BOOLEAN /\ r.addr + Len(r.data) <= NWords
    BY DEF Request, Word
  <1>2. SectorOf(r.addr) \in Sector
    BY <1>1 DEF SectorOf, Sector
  <1>3. ASSUME NEW w \in Covered(r) PROVE w \in Int /\ DataAt(r, w) \in Value
    <2>1. w \in Int /\ w - r.addr + 1 \in 1 .. Len(r.data)
      BY <1>1 DEF Covered
    <2> QED BY <1>1, <2>1 DEF DataAt
  <1> QED BY <1>1, <1>2, <1>3

LEMMA NumberStored ==
  ASSUME CallTypeOK
  PROVE  /\ getSuitVarNum \in 0 .. MAX_VAR_NUM_FUTURE
         /\ \A j \in 0 .. MAX_VAR_NUM_FUTURE : read(j) \in Value
  <1>1. \A j \in 0 .. MAX_VAR_NUM_FUTURE : read(j) \in Value
    BY Geometry DEF CallTypeOK, read, WordOf
  <1>2. Number[read(VAR_NUM_OF_VAR)] \in Nat
    BY <1>1, Geometry, PowerupVarsAssumption
  <1>3. getSuitVarNum \in 0 .. MAX_VAR_NUM_FUTURE
    BY <1>2, PowerupVarsAssumption DEF getSuitVarNum
  <1> QED BY <1>1, <1>3

-----------------------------------------------------------------------------
(* The requests that the calls make. *)

LEMMA CheckWord ==
  ASSUME NEW words, NEW n
  PROVE  check_func(words, n) \in Value
  BY DEF check_func, Value

LEMMA CheckSame ==
  ASSUME NEW f, NEW g, NEW n, \A k \in 0 .. n - 1 : f[k] = g[k]
  PROVE  check_func(f, n) = check_func(g, n)
  <1>1. \A b : {k \in 0 .. n - 1 : b \in f[k]} = {k \in 0 .. n - 1 : b \in g[k]}
    OBVIOUS
  <1> QED BY <1>1 DEF check_func

(* write makes one request: the stored words with one of them changed, and   *)
(* the check word, which belongs to no variable that is stored.              *)
LEMMA WriteCall ==
  ASSUME CallTypeOK, NEW idx \in Var, NEW val \in Value, write(idx, val)
  PROVE  \/ UNCHANGED <<vars, pvfVars>>
         \/ \E r \in Request :
              /\ BeginCall(r, <<>>, [k \in {idx} |-> val])
              /\ r.addr = POWERUP_VAR_ADDR /\ r.own
              /\ idx < getSuitVarNum /\ Len(r.data) = getSuitVarNum + 1
              /\ \A j \in 0 .. getSuitVarNum - 1 :
                   r.data[j + 1] = IF j = idx THEN val ELSE read(j)
              /\ r.data[getSuitVarNum + 1] =
                   check_func([j \in 0 .. getSuitVarNum - 1 |-> r.data[j + 1]], getSuitVarNum)
  <1> DEFINE n == getSuitVarNum
             shadow == [ShadowOf(n) EXCEPT ![idx] = val]
             words == DataOf(shadow, n)
             block == Append(words, check_func(shadow, n))
             r == [addr |-> POWERUP_VAR_ADDR, data |-> block, own |-> TRUE]
  <1>1. n \in 0 .. MAX_VAR_NUM_FUTURE /\ n \in Nat /\ idx \in Nat
        /\ \A j \in 0 .. MAX_VAR_NUM_FUTURE : read(j) \in Value
    BY NumberStored, Geometry DEF Var
  <1> SUFFICES ASSUME ~NothingToWrite(idx, val)
               PROVE  /\ BeginCall(r, <<>>, [k \in {idx} |-> val])
                      /\ r \in Request /\ r.addr = POWERUP_VAR_ADDR /\ r.own
                      /\ idx < n /\ Len(r.data) = n + 1
                      /\ \A j \in 0 .. n - 1 : r.data[j + 1] = IF j = idx THEN val ELSE read(j)
                      /\ r.data[n + 1] = check_func([j \in 0 .. n - 1 |-> r.data[j + 1]], n)
    BY DEF write
  <1>2. BeginCall(r, <<>>, [k \in {idx} |-> val])
    BY DEF write
  <1>3. idx < n
    BY <1>1 DEF NothingToWrite
  <1>4. \A j \in 0 .. n - 1 : shadow[j] = IF j = idx THEN val ELSE read(j)
    BY <1>1 DEF ShadowOf, Stored
  <1>5. words = [j \in 1 .. n |-> shadow[j - 1]]
    BY DEF DataOf
  <1> HIDE DEF n, shadow, words
  <1>6. \A j \in 1 .. n : shadow[j - 1] \in Value
    <2> TAKE j \in 1 .. n
    <2>1. j - 1 \in 0 .. n - 1 /\ j - 1 \in 0 .. MAX_VAR_NUM_FUTURE
      BY <1>1, Geometry
    <2>2. read(j - 1) \in Value
      BY <1>1, <2>1
    <2> QED BY <1>4, <2>1, <2>2
  <1>7. words \in Seq(Value) /\ Len(words) = n /\ \A j \in 1 .. n : words[j] = shadow[j - 1]
    BY <1>1, <1>5, <1>6
  <1>8. block \in Seq(Value) /\ Len(block) = n + 1 /\ \A j \in 1 .. n : block[j] = words[j]
    BY <1>1, <1>7, CheckWord
  <1>11. block[n + 1] = check_func(shadow, n)
    BY <1>1, <1>7, CheckWord
  <1> HIDE DEF block
  <1>9. r \in Request
    <2>1. POWERUP_VAR_ADDR \in Word
      BY FlashAssumption, PowerupVarsAssumption DEF Word
    <2>2. POWERUP_VAR_ADDR + Len(block) <= NWords
      <3>1. n \in Int /\ n <= MAX_VAR_NUM_FUTURE
        BY <1>1, PowerupVarsAssumption
      <3>2. POWERUP_VAR_ADDR + (n + 1) <= NWords
        BY <3>1, PowerupVarsAssumption, FlashAssumption
      <3> QED BY <1>8, <3>2
    <2> QED BY <1>8, <2>1, <2>2 DEF Request
  <1>10. \A j \in 0 .. n - 1 : block[j + 1] = IF j = idx THEN val ELSE read(j)
    BY <1>1, <1>4, <1>7, <1>8
  <1>12. block[n + 1] = check_func([j \in 0 .. n - 1 |-> block[j + 1]], n)
    <2> DEFINE sent == [j \in 0 .. n - 1 |-> block[j + 1]]
    <2>1. \A j \in 0 .. n - 1 : sent[j] = shadow[j]
      BY <1>4, <1>10
    <2> HIDE DEF sent
    <2>2. check_func(sent, n) = check_func(shadow, n)
      BY <2>1, CheckSame
    <2> QED BY <1>11, <2>2 DEF sent
  <1> QED BY <1>1, <1>2, <1>3, <1>8, <1>9, <1>10, <1>12

(* initInApp makes two: the variables, those an older block has as they are, *)
(* and then the check word.                                                  *)
LEMMA InitCall ==
  ASSUME CallTypeOK, initInApp
  PROVE  \/ UNCHANGED <<vars, pvfVars>>
         \/ \E r, c \in Request, new \in SUBSET Var :
              /\ BeginCall(r, <<c>>, [k \in new |-> DEFAULT_POWERUP_VAL[k]])
              /\ r.addr = POWERUP_VAR_ADDR /\ ~r.own /\ Len(r.data) = VarNum
              /\ \A k \in Var : r.data[k + 1] = IF k \in new THEN DEFAULT_POWERUP_VAL[k]
                                                ELSE read(k)
              /\ VAR_NUM_OF_VAR \in new /\ IsCheck(c)
              /\ c.data[1] = check_func([k \in Var |-> r.data[k + 1]], VarNum)
              /\ \A k \in Var \ new : k < getSuitVarNum
  <1> DEFINE n == getSuitVarNum
             new == {k \in Var : k >= n} \cup {VAR_NUM_OF_VAR}
             shadow == [k \in Var |-> IF k \in new THEN DEFAULT_POWERUP_VAL[k] ELSE read(k)]
             words == DataOf(shadow, VarNum)
             r == [addr |-> POWERUP_VAR_ADDR, data |-> words, own |-> FALSE]
             c == [addr |-> POWERUP_VAR_ADDR + VarNum,
                   data |-> <<check_func(shadow, VarNum)>>, own |-> TRUE]
  <1> SUFFICES ASSUME ~(verifyPowerupField /\ n = VarNum)
               PROVE  /\ BeginCall(r, <<c>>, [k \in new |-> DEFAULT_POWERUP_VAL[k]])
                      /\ r \in Request /\ c \in Request /\ new \in SUBSET Var
                      /\ r.addr = POWERUP_VAR_ADDR /\ ~r.own /\ Len(r.data) = VarNum
                      /\ \A k \in Var : r.data[k + 1] = IF k \in new THEN DEFAULT_POWERUP_VAL[k]
                                                        ELSE read(k)
                      /\ VAR_NUM_OF_VAR \in new /\ IsCheck(c)
                      /\ c.data[1] = check_func([k \in Var |-> r.data[k + 1]], VarNum)
                      /\ \A k \in Var \ new : k < n
    BY DEF initInApp
  <1>1. BeginCall(r, <<c>>, [k \in new |-> DEFAULT_POWERUP_VAL[k]])
    BY DEF initInApp
  <1>2. /\ new \in SUBSET Var /\ VAR_NUM_OF_VAR \in new
        /\ \A k \in Var \ new : k < n
    BY NumberStored, Geometry DEF Var
  <1>3. \A k \in Var : shadow[k] \in Value
    BY NumberStored, Geometry, PowerupVarsAssumption
  <1>4. words = [j \in 1 .. VarNum |-> shadow[j - 1]]
    BY DEF DataOf
  <1>5. \A k \in Var : shadow[k] = IF k \in new THEN DEFAULT_POWERUP_VAL[k] ELSE read(k)
    OBVIOUS
  <1> HIDE DEF shadow, words, new
  <1>6. words \in Seq(Value) /\ Len(words) = VarNum
        /\ \A k \in Var : words[k + 1] = shadow[k]
    BY <1>3, <1>4, Geometry DEF Var
  <1>7. r \in Request
    BY <1>6, FlashAssumption, PowerupVarsAssumption DEF Request, Word
  <1>8. c \in Request
    <2>1. POWERUP_VAR_ADDR + VarNum \in Word
      BY FlashAssumption, PowerupVarsAssumption DEF Word
    <2>2. <<check_func(shadow, VarNum)>> \in Seq(Value)
      BY CheckWord
    <2>3. Len(c.data) = 1 /\ POWERUP_VAR_ADDR + VarNum + 1 <= NWords
      BY FlashAssumption, PowerupVarsAssumption
    <2> QED BY <2>1, <2>2, <2>3 DEF Request
  <1>9. IsCheck(c)
    BY DEF IsCheck
  <1>10. c.data[1] = check_func([k \in Var |-> r.data[k + 1]], VarNum)
    <2> DEFINE sent == [k \in Var |-> words[k + 1]]
    <2>1. \A k \in 0 .. VarNum - 1 : sent[k] = shadow[k]
      BY <1>6 DEF Var
    <2> HIDE DEF sent
    <2>2. check_func(sent, VarNum) = check_func(shadow, VarNum)
      BY <2>1, CheckSame
    <2> QED BY <2>2 DEF sent
  <1> QED BY <1>1, <1>2, <1>5, <1>6, <1>7, <1>8, <1>9, <1>10

-----------------------------------------------------------------------------
(* What a step does to the flash and the calls. *)

HostAsks(r) == [k \in {k \in Var : POWERUP_VAR_ADDR + k \in Covered(r)} |->
                  r.data[POWERUP_VAR_ADDR + k - r.addr + 1]]

LEMMA StepKinds ==
  ASSUME [BootNext]_allVars
  PROVE  \/ UNCHANGED <<vars, pvfVars>>
         \/ ~Busy /\ \E idx \in Var, val \in Value :
                       write(idx, val) /\ (NumberIsKept => idx # VAR_NUM_OF_VAR)
         \/ ~Busy /\ initInApp
         \/ ~Busy /\ \E r \in Requests : BeginCall(r, <<>>, HostAsks(r))
         \/ FlashStep
         \/ DeviceFails
         \/ RamIsLost
  <1>1. /\ VAR_BOOT_OPTI \in Var /\ VAR_BOOT_OPTI # VAR_NUM_OF_VAR /\ BOOT_PARAM_BL \in Value
    BY Geometry, BootAssumption DEF BootParams, VAR_BOOT_OPTI, VAR_NUM_OF_VAR
  <1>2. CASE UNCHANGED allVars
    BY <1>2 DEF allVars
  <1>3. CASE Main
    BY <1>1, <1>3 DEF Main, CheckBootParam, OpenNetwork, Emergency, NoEmergency, JumpToApp,
                      NoAppToLoad, SetBackToBl, StartWatchDog, AppStarts, At
  <1>4. ASSUME NEW r \in Requests, HostWrites(r)
        PROVE  ~Busy /\ BeginCall(r, <<>>, HostAsks(r))
    BY <1>4 DEF HostWrites, HostAsks, At
  <1>5. CASE HostSaysGo
    BY <1>5 DEF HostSaysGo
  <1>6. ASSUME NEW ask \in AppAsks, AppWrites(ask[1], ask[2])
        PROVE  ~Busy /\ \E idx \in Var, val \in Value :
                          write(idx, val) /\ (NumberIsKept => idx # VAR_NUM_OF_VAR)
    <2>1. ask[1] \in Var /\ ask[2] \in Value
      BY BootAssumption
    <2> QED BY <1>6, <2>1 DEF AppWrites, At, NumberIsKept
  <1>7. CASE FlashFails \/ AppResets \/ PowerFails \/ WatchdogBites \/ PowerCycle
    BY <1>7 DEF FlashFails, AppResets, PowerFails, WatchdogBites, PowerCycle, Restart
  <1> QED
    BY <1>2, <1>3, <1>4, <1>5, <1>6, <1>7 DEF BootNext

LEMMA BeginCallType ==
  ASSUME CallTypeOK, NEW r \in Request, NEW rest \in Seq(Request), Len(rest) <= 1,
         NEW changes, DOMAIN changes \subseteq Var,
         \A k \in DOMAIN changes : changes[k] \in Value,
         BeginCall(r, rest, changes)
  PROVE  CallTypeOK'
  <1>1. /\ req' = r /\ i' = 0 /\ at' \in {"erase", "program"}
        /\ UNCHANGED <<mem, marked, stale, failed>>
    BY DEF BeginCall, Begin
  <1>2. then' = rest /\ asks' = changes /\ torn' = torn /\ muddled' = muddled
        /\ meant' = [k \in Var |-> meant[k] \cup {changes[j] : j \in DOMAIN changes \cap {k}}]
    BY DEF BeginCall
  <1>3. meant' \in [Var -> SUBSET Value]
    BY <1>2 DEF CallTypeOK
  <1>4. 0 \in 0 .. Len(r.data)
    BY RequestTypes
  <1> QED
    BY <1>1, <1>2, <1>3, <1>4 DEF CallTypeOK

LEMMA HostAsksType ==
  ASSUME NEW r \in Request
  PROVE  /\ DOMAIN HostAsks(r) \subseteq Var
         /\ \A k \in DOMAIN HostAsks(r) : HostAsks(r)[k] \in Value
  <1>1. ASSUME NEW k \in Var, POWERUP_VAR_ADDR + k \in Covered(r)
        PROVE  r.data[POWERUP_VAR_ADDR + k - r.addr + 1] \in Value
    <2>1. DataAt(r, POWERUP_VAR_ADDR + k) \in Value
      BY <1>1, RequestTypes
    <2>2. POWERUP_VAR_ADDR \in Int /\ k \in Int /\ r.addr \in Int
      BY Geometry, RequestTypes
    <2> QED BY <2>1, <2>2 DEF DataAt
  <1> QED
    BY <1>1 DEF HostAsks

LEMMA FlashStepType ==
  ASSUME CallTypeOK, FlashStep
  PROVE  CallTypeOK'
  <1>a. /\ mem \in [Word -> Value] /\ marked \subseteq Sector /\ stale \subseteq Word
        /\ req \in Request /\ i \in 0 .. Len(req.data)
        /\ then \in Seq(Request) /\ Len(then) <= 1
        /\ torn \in BOOLEAN /\ muddled \in BOOLEAN
        /\ DOMAIN asks \subseteq Var /\ \A k \in DOMAIN asks : asks[k] \in Value
        /\ meant \in [Var -> SUBSET Value] /\ failed \in BOOLEAN
    BY DEF CallTypeOK
  <1>b. /\ SectorOf(req.addr) \in Sector /\ req.data \in Seq(Value) /\ Len(req.data) \in Nat
    BY <1>a, RequestTypes
  <1>1. CASE WriteNext
    <2>1. /\ req' = Head(then) /\ i' = 0 /\ at' \in {"erase", "program"} /\ then' = Tail(then)
          /\ UNCHANGED <<mem, marked, stale, failed, asks, meant, torn, muddled>> /\ then # <<>>
      BY <1>1 DEF WriteNext, Begin
    <2>2. Head(then) \in Request /\ Tail(then) \in Seq(Request) /\ Len(Tail(then)) <= 1
      BY <1>a, <2>1
    <2>3. i' \in 0 .. Len(req'.data)
      BY <2>1, <2>2, RequestTypes
    <2> QED BY <1>a, <2>1, <2>2, <2>3 DEF CallTypeOK
  <1>2. CASE BlockErased
    <2>1. /\ mem' = [w \in Word |-> IF w \in WordsOf(SectorOf(req.addr)) THEN Bits ELSE mem[w]]
          /\ stale' = stale \ WordsOf(SectorOf(req.addr))
          /\ marked' = marked \cup {SectorOf(req.addr)} /\ at' = "program"
          /\ torn' = (torn \/ SectorOf(req.addr) = Home)
          /\ muddled' = (muddled /\ SectorOf(req.addr) # Home)
          /\ UNCHANGED <<req, i, failed, then, asks, meant>>
      BY <1>2 DEF BlockErased, Erase, mark_sector_erased
    <2>2. mem' \in [Word -> Value]
      BY <1>a, <2>1 DEF Value
    <2>3. marked' \subseteq Sector /\ stale' \subseteq Word
      BY <1>a, <1>b, <2>1
    <2>4. torn' \in BOOLEAN /\ muddled' \in BOOLEAN
      BY <1>a, <2>1
    <2> QED BY <1>a, <2>1, <2>2, <2>3, <2>4 DEF CallTypeOK
  <1>3. CASE BlockProgrammed
    <2>1. /\ mem' = [mem EXCEPT ![req.addr + i] = @ \cap req.data[i + 1]]
          /\ i' = i + 1 /\ i < Len(req.data) /\ WordChanged
          /\ UNCHANGED <<marked, at, req, stale, failed, then, asks, meant>>
      BY <1>3 DEF BlockProgrammed, ProgramWord
    <2>2. mem' \in [Word -> Value]
      BY <1>a, <2>1 DEF Value
    <2>3. i' \in 0 .. Len(req'.data)
      BY <1>a, <1>b, <2>1
    <2>4. torn' \in BOOLEAN /\ muddled' \in BOOLEAN
      BY <1>a, <2>1 DEF WordChanged
    <2> QED BY <1>a, <2>1, <2>2, <2>3, <2>4 DEF CallTypeOK
  <1>5. CASE Written
    <2>1. /\ at' = "idle" /\ UNCHANGED <<mem, req, i, stale, failed, then, torn, muddled>>
          /\ marked' = IF req.own THEN marked \ {SectorOf(req.addr)} ELSE marked
      BY <1>5 DEF Written, Return, ForgetOwn
    <2>2. /\ meant' \in [Var -> SUBSET Value]
          /\ DOMAIN asks' \subseteq Var /\ \A k \in DOMAIN asks' : asks'[k] \in Value
      BY <1>a, <1>5 DEF Written, NoAsk
    <2> QED BY <1>a, <2>1, <2>2 DEF CallTypeOK
  <1> QED
    BY <1>1, <1>2, <1>3, <1>5 DEF FlashStep

(* What an operation that is cut off or fails leaves are words of flash. *)
LEMMA CutOffType ==
  ASSUME CallTypeOK, CutOff, BlockCutOff
  PROVE  /\ mem' \in [Word -> Value] /\ meant' \in [Var -> SUBSET Value]
         /\ torn' \in BOOLEAN /\ muddled' \in BOOLEAN
  <1>a. /\ mem \in [Word -> Value] /\ meant \in [Var -> SUBSET Value]
        /\ torn \in BOOLEAN /\ muddled \in BOOLEAN
    BY DEF CallTypeOK
  <1>1. CASE mem' = mem
    BY <1>1, <1>a DEF BlockCutOff, WordChanged
  <1>2. meant' \in [Var -> SUBSET Value] /\ torn' \in BOOLEAN /\ muddled' \in BOOLEAN
    BY <1>a DEF BlockCutOff, WordChanged
  <1>3. CASE PartlyErased
    <2>1. PICK left \in Leftovers :
            mem' = [w \in Word |-> IF w \in WordsOf(SectorOf(req.addr)) THEN left[w] ELSE mem[w]]
      BY <1>3 DEF PartlyErased
    <2>2. left \in [Word -> Value]
      BY FlashAssumption
    <2>3. mem' \in [Word -> Value]
      BY <1>a, <2>1, <2>2
    <2> QED BY <1>2, <2>3
  <1>4. CASE PartlyProgrammed
    <2>1. PICK v \in SUBSET mem[req.addr + i] : mem' = [mem EXCEPT ![req.addr + i] = v]
      BY <1>4 DEF PartlyProgrammed
    <2>2. req.addr + i \in Word => v \in Value
      BY <1>a DEF Value
    <2>3. mem' \in [Word -> Value]
      BY <1>a, <2>1, <2>2
    <2> QED BY <1>2, <2>3
  <1> QED
    BY <1>1, <1>3, <1>4 DEF CutOff

LEMMA UnderWayType ==
  ASSUME CallTypeOK
  PROVE  UnderWay \subseteq Word
  <1>1. /\ req.addr \in Nat /\ Len(req.data) \in Nat /\ i \in Nat
        /\ req.addr + Len(req.data) <= NWords
    BY RequestTypes DEF CallTypeOK
  <1>2. i < Len(req.data) => req.addr + i \in Word
    BY <1>1, FlashAssumption DEF Word
  <1> QED BY <1>2 DEF UnderWay, WordsOf

LEMMA DeviceFailsType ==
  ASSUME CallTypeOK, DeviceFails
  PROVE  CallTypeOK'
  <1>1. /\ at' = "idle" /\ marked' = {} /\ failed' = TRUE /\ asks' = NoAsk
        /\ CutOff /\ BlockCutOff /\ stale' = stale \cup UnderWay
        /\ UNCHANGED <<req, i, then>>
    BY DEF DeviceFails, EraseFails, ProgramFails, Fail, RESET_SECTOR_ERASE_MARK
  <1>2. DOMAIN asks' = {}
    BY <1>1 DEF NoAsk
  <1>3. /\ mem' \in [Word -> Value] /\ meant' \in [Var -> SUBSET Value]
        /\ torn' \in BOOLEAN /\ muddled' \in BOOLEAN
    BY <1>1, CutOffType
  <1>5. stale' \subseteq Word
    BY <1>1, UnderWayType DEF CallTypeOK
  <1>4. /\ req \in Request /\ i \in 0 .. Len(req.data) /\ stale \subseteq Word
        /\ then \in Seq(Request) /\ Len(then) <= 1
    BY DEF CallTypeOK
  <1> QED BY <1>1, <1>2, <1>3, <1>4, <1>5 DEF CallTypeOK

LEMMA RamIsLostType ==
  ASSUME CallTypeOK, RamIsLost
  PROVE  CallTypeOK'
  <1>1. NoRequest \in Request /\ Len(NoRequest.data) = 0
    BY Geometry, PowerupVarsAssumption, FlashAssumption DEF NoRequest, Request, Word
  <1>2. DOMAIN NoAsk = {}
    BY DEF NoAsk
  <1>3. /\ at' = "idle" /\ req' = NoRequest /\ i' = 0 /\ marked' = {} /\ stale' = Word
        /\ failed' = FALSE /\ then' = <<>> /\ asks' = NoAsk /\ CutOff /\ BlockCutOff
    BY DEF RamIsLost
  <1>7. /\ mem' \in [Word -> Value] /\ meant' \in [Var -> SUBSET Value]
        /\ torn' \in BOOLEAN /\ muddled' \in BOOLEAN
    BY <1>3, CutOffType
  <1>4. req' \in Request /\ i' \in 0 .. Len(req'.data)
    BY <1>1, <1>3
  <1>5. then' \in Seq(Request) /\ Len(then') <= 1
    BY <1>3
  <1>6. DOMAIN asks' = {}
    BY <1>2, <1>3
  <1> QED
    BY <1>3, <1>4, <1>5, <1>6, <1>7 DEF CallTypeOK

LEMMA CallTypeStep ==
  ASSUME CallTypeOK, [BootNext]_allVars
  PROVE  CallTypeOK'
  <1>1. CASE UNCHANGED <<vars, pvfVars>>
    BY <1>1 DEF vars, pvfVars, CallTypeOK
  <1>2. ASSUME NEW idx \in Var, NEW val \in Value, write(idx, val) PROVE CallTypeOK'
    <2>1. ASSUME NEW r \in Request, BeginCall(r, <<>>, [k \in {idx} |-> val])
          PROVE  CallTypeOK'
      <3> DEFINE changes == [k \in {idx} |-> val]
      <3>1. DOMAIN changes \subseteq Var /\ \A k \in DOMAIN changes : changes[k] \in Value
        OBVIOUS
      <3>2. <<>> \in Seq(Request) /\ Len(<<>>) <= 1 /\ BeginCall(r, <<>>, changes)
        BY <2>1
      <3> HIDE DEF changes
      <3> QED BY <3>1, <3>2, BeginCallType
    <2> QED BY <1>1, <1>2, <2>1, WriteCall
  <1>3. CASE initInApp
    <2>1. ASSUME NEW r \in Request, NEW c \in Request, NEW new \in SUBSET Var,
                 BeginCall(r, <<c>>, [k \in new |-> DEFAULT_POWERUP_VAL[k]])
          PROVE  CallTypeOK'
      <3> DEFINE changes == [k \in new |-> DEFAULT_POWERUP_VAL[k]]
      <3>1. DOMAIN changes \subseteq Var /\ \A k \in DOMAIN changes : changes[k] \in Value
        BY PowerupVarsAssumption
      <3>2. <<c>> \in Seq(Request) /\ Len(<<c>>) <= 1 /\ BeginCall(r, <<c>>, changes)
        BY <2>1
      <3> HIDE DEF changes
      <3> QED BY <3>1, <3>2, BeginCallType
    <2> QED BY <1>1, <1>3, <2>1, InitCall
  <1>4. ASSUME NEW r \in Requests, BeginCall(r, <<>>, HostAsks(r)) PROVE CallTypeOK'
    <2>1. r \in Request
      BY FlashAssumption
    <2>2. <<>> \in Seq(Request) /\ Len(<<>>) <= 1
      OBVIOUS
    <2>3. /\ DOMAIN HostAsks(r) \subseteq Var
          /\ \A k \in DOMAIN HostAsks(r) : HostAsks(r)[k] \in Value
      BY <2>1, HostAsksType
    <2> QED BY <1>4, <2>1, <2>2, <2>3, BeginCallType
  <1> QED
    BY <1>1, <1>2, <1>3, <1>4, StepKinds, FlashStepType, DeviceFailsType,
       RamIsLostType

-----------------------------------------------------------------------------
(* The erase marks, over resets and jumps. *)

LEMMA PcTypeStep ==
  ASSUME BootTypeOK, [BootNext]_allVars
  PROVE  pc' \in Pcs /\ open' \in BOOLEAN /\ dog' \in BOOLEAN /\ faults' \in 0 .. MaxFaults
  <1> USE DEF BootTypeOK, Pcs, GoesTo
  <1>1. CASE UNCHANGED allVars
    BY <1>1 DEF allVars, bootVars
  <1>2. CASE Main
    BY <1>2 DEF Main, CheckBootParam, OpenNetwork, Emergency, NoEmergency, JumpToApp,
                NoAppToLoad, StartWatchDog, AppStarts
  <1>3. CASE FlashStep /\ UNCHANGED bootVars
    BY <1>3 DEF bootVars
  <1>4. CASE (\E r \in Requests : HostWrites(r)) \/ HostSaysGo
    BY <1>4 DEF HostWrites, HostSaysGo, bootVars
  <1>5. CASE \E ask \in AppAsks : AppWrites(ask[1], ask[2])
    BY <1>5 DEF AppWrites, bootVars
  <1>6. CASE AppResets \/ WatchdogBites \/ PowerCycle
    BY <1>6 DEF AppResets, WatchdogBites, PowerCycle, Restart
  <1>7. CASE PowerFails
    <2>1. faults' \in 0 .. MaxFaults
      BY <1>7, BootAssumption DEF PowerFails
    <2> QED BY <1>7, <2>1 DEF PowerFails, Restart
  <1>8. CASE FlashFails
    <2>1. faults' \in 0 .. MaxFaults
      BY <1>8, BootAssumption DEF FlashFails
    <2> QED BY <1>8, <2>1 DEF FlashFails
  <1> QED
    BY <1>1, <1>2, <1>3, <1>4, <1>5, <1>6, <1>7, <1>8 DEF BootNext

LEMMA MarksAtBegin ==
  ASSUME MarksHold, NEW r, Begin(r)
  PROVE  MarksHold'
  BY DEF Begin, MarksHold

LEMMA MarksBootStep ==
  ASSUME CallTypeOK, MarksHold, [BootNext]_allVars
  PROVE  MarksHold'
  <1>1. CASE UNCHANGED <<vars, pvfVars>>
    BY <1>1 DEF vars, MarksHold
  <1>2. ASSUME NEW idx \in Var, NEW val \in Value, write(idx, val) PROVE MarksHold'
    BY <1>1, <1>2, WriteCall, MarksAtBegin DEF BeginCall
  <1>3. CASE initInApp
    BY <1>1, <1>3, InitCall, MarksAtBegin DEF BeginCall
  <1>4. ASSUME NEW r \in Requests, BeginCall(r, <<>>, HostAsks(r)) PROVE MarksHold'
    BY <1>4, MarksAtBegin DEF BeginCall
  <1>5. CASE FlashStep
    <2>1. CASE WriteNext
      BY <2>1, MarksAtBegin DEF WriteNext
    <2>2. CASE BlockErased
      <3> DEFINE s == SectorOf(req.addr)
      <3>1. stale' = stale \ WordsOf(s) /\ marked' = marked \cup {s} /\ UNCHANGED req
        BY <2>2 DEF BlockErased, Erase, mark_sector_erased
      <3>2. \A t \in marked' : WordsOf(t) \cap stale' = {}
        BY <3>1 DEF MarksHold
      <3> QED BY <3>1, <3>2 DEF MarksHold
    <2>3. CASE BlockProgrammed
      BY <2>3 DEF BlockProgrammed, ProgramWord, MarksHold
    <2>5. CASE Written
      BY <2>5 DEF Written, Return, ForgetOwn, MarksHold
    <2> QED BY <1>5, <2>1, <2>2, <2>3, <2>5 DEF FlashStep
  <1>6. CASE RamIsLost
    BY <1>6 DEF RamIsLost, MarksHold
  <1>7. CASE DeviceFails
    BY <1>7 DEF DeviceFails, EraseFails, ProgramFails, Fail, RESET_SECTOR_ERASE_MARK, MarksHold
  <1> QED
    BY <1>1, <1>2, <1>3, <1>4, <1>5, <1>6, <1>7, StepKinds

LEMMA InitType == BootInit => CallTypeOK
  <1> SUFFICES ASSUME BootInit PROVE CallTypeOK
    OBVIOUS
  <1>1. mem \in [Word -> Value]
    BY BootAssumption DEF BootInit
  <1>2. NoRequest \in Request /\ Len(NoRequest.data) = 0 /\ 0 \in 0 .. 0
    BY PowerupVarsAssumption, FlashAssumption DEF NoRequest, Request, Word
  <1>3. \A k \in Var : read(k) \in Value
    BY <1>1, Geometry DEF read, WordOf
  <1>4. meant \in [Var -> SUBSET Value]
    BY <1>3 DEF BootInit
  <1>5. DOMAIN asks = {} /\ <<>> \in Seq(Request) /\ Len(<<>>) <= 1
    BY DEF BootInit, NoAsk
  <1> QED
    BY <1>1, <1>2, <1>4, <1>5 DEF BootInit, CallTypeOK

(* Over resets, jumps into the application and back, and whatever fails: an  *)
(* erase mark stands for a sector that this program has erased, so no        *)
(* program takes over the marks of another one.                              *)
THEOREM Invariant == BootSpec => []BootIInv
  <1>1. BootTypeOK <=> /\ CallTypeOK
                       /\ pc \in Pcs /\ open \in BOOLEAN /\ dog \in BOOLEAN
                       /\ faults \in 0 .. MaxFaults
    BY DEF BootTypeOK, CallTypeOK
  <1>2. BootInit => BootIInv
    <2> SUFFICES ASSUME BootInit PROVE BootTypeOK /\ MarksHold
      BY DEF BootIInv
    <2>1. pc \in Pcs /\ open \in BOOLEAN /\ dog \in BOOLEAN /\ faults \in 0 .. MaxFaults
      <3>1. faults \in 0 .. MaxFaults
        BY BootAssumption DEF BootInit
      <3> QED BY <3>1 DEF BootInit, Pcs
    <2>2. MarksHold
      BY DEF BootInit, MarksHold
    <2> QED BY <1>1, <2>1, <2>2, InitType
  <1>3. BootIInv /\ [BootNext]_allVars => BootIInv'
    <2> SUFFICES ASSUME BootIInv, [BootNext]_allVars PROVE BootTypeOK' /\ MarksHold'
      BY DEF BootIInv
    <2>1. CallTypeOK /\ BootTypeOK /\ MarksHold
      BY <1>1 DEF BootIInv
    <2>2. CallTypeOK' /\ MarksHold'
      BY <2>1, CallTypeStep, MarksBootStep
    <2>3. pc' \in Pcs /\ open' \in BOOLEAN /\ dog' \in BOOLEAN /\ faults' \in 0 .. MaxFaults
      BY <2>1, PcTypeStep
    <2> QED BY <2>2, <2>3 DEF BootTypeOK, CallTypeOK
  <1> QED
    BY <1>2, <1>3, PTL DEF BootSpec

-----------------------------------------------------------------------------
(* The values of the variables. *)

LEMMA AtHome ==
  ASSUME BlockInOneSector
  PROVE  /\ \A k \in Var : /\ WordOf(k) \in Word /\ WordOf(k) \notin Otp
                           /\ WordOf(k) \in WordsOf(Home) /\ SectorOf(WordOf(k)) = Home
         /\ POWERUP_VAR_ADDR \notin Otp /\ SectorOf(POWERUP_VAR_ADDR) = Home
         /\ SectorOf(POWERUP_VAR_ADDR + VarNum) = Home
  <1>1. ASSUME NEW k \in Var
        PROVE  /\ WordOf(k) \in Word /\ WordOf(k) \notin Otp
               /\ WordOf(k) \in WordsOf(Home) /\ SectorOf(WordOf(k)) = Home
    BY Geometry DEF BlockInOneSector, WordOf, WordsOf
  <1>2. POWERUP_VAR_ADDR + 0 = POWERUP_VAR_ADDR /\ 0 \in 0 .. MAX_VAR_NUM_FUTURE
    BY Geometry
  <1>3. VarNum \in 0 .. MAX_VAR_NUM_FUTURE
    BY PowerupVarsAssumption
  <1> QED BY <1>1, <1>2, <1>3 DEF BlockInOneSector

(* The numbers the program itself stores, or leaves erased. *)
LEMMA NumbersThatSuit ==
  /\ Suits(Erased) = VarNum
  /\ Suits(DEFAULT_POWERUP_VAL[VAR_NUM_OF_VAR]) = VarNum
  /\ NotAskedFor(VarNum)
  /\ getSuitVarNum = Suits(read(VAR_NUM_OF_VAR))
  <1>1. NotAskedFor(VarNum)
    BY Geometry DEF NotAskedFor, Var
  <1> QED BY <1>1, PowerupVarsAssumption DEF Suits, getSuitVarNum

(* Variables and claims are as before, whatever happens to other words. *)
LEMMA SameValues ==
  ASSUME VarsInv, \A k \in Var : mem'[WordOf(k)] = mem[WordOf(k)], UNCHANGED <<meant, asks>>
  PROVE  /\ \A k \in Var : read(k)' = read(k)
         /\ \A k \in Var : read(k)' \in meant'[k] \cup {Erased}
         /\ \A k \in DOMAIN asks' : asks'[k] \in meant'[k]
         /\ NotAskedFor(getSuitVarNum)'
  <1>1. \A k \in Var : read(k)' = read(k)
    BY DEF read, WordOf
  <1>2. getSuitVarNum' = getSuitVarNum
    BY <1>1, Geometry DEF getSuitVarNum
  <1> QED BY <1>1, <1>2 DEF VarsInv, NotAskedFor

(* A call for the block begins when no other is under way: the sector is not *)
(* marked, so it will be erased.  What is to be written was there or is      *)
(* asked for.                                                                *)
LEMMA BeginOnBlock ==
  ASSUME CallTypeOK, VarsInv, BlockInOneSector, ~Busy,
         NEW r \in Request, NEW rest, NEW changes, BeginCall(r, rest, changes),
         r.addr = POWERUP_VAR_ADDR, DOMAIN changes \subseteq Var,
         \A k \in DOMAIN changes : changes[k] \in Value,
         \/ rest = <<>> /\ r.own
         \/ /\ Len(rest) = 1 /\ IsCheck(rest[1])
            /\ VAR_NUM_OF_VAR \in DOMAIN changes
            /\ changes[VAR_NUM_OF_VAR] = DEFAULT_POWERUP_VAL[VAR_NUM_OF_VAR],
         WordOf(VAR_NUM_OF_VAR) \in Covered(r),
         \A k \in DOMAIN changes : WordOf(k) \in Covered(r) /\ DataAt(r, WordOf(k)) = changes[k],
         \A k \in Var \ DOMAIN changes : WordOf(k) \in Covered(r) =>
            DataAt(r, WordOf(k)) \in meant[k] \cup {Erased},
         NEW n, n = Suits(DataAt(r, WordOf(VAR_NUM_OF_VAR))),
         NotAskedFor(n), \A k \in DOMAIN changes : k < n \/ k = VAR_BOOT_OPTI
  PROVE  VarsInv'
  <1>1. /\ at = "idle" /\ at' = (IF r.addr \in Otp \/ SectorOf(r.addr) \in marked
                                 THEN "program" ELSE "erase")
        /\ req' = r /\ i' = 0 /\ mem' = mem /\ marked' = marked
        /\ then' = rest /\ asks' = changes
        /\ meant' = [k \in Var |-> meant[k] \cup {changes[j] : j \in DOMAIN changes \cap {k}}]
    BY DEF BeginCall, Begin
  <1>2. at' = "erase"
    <2>1. Home \notin marked
      BY DEF VarsInv, NoCall, CallElsewhere, CallOnBlock, CallOnCheck, Busy
    <2> QED BY <1>1, <2>1, AtHome
  <1>3. \A k \in Var : /\ meant[k] \subseteq meant'[k] /\ meant'[k] \subseteq Value
                       /\ k \in DOMAIN changes => changes[k] \in meant'[k]
    BY <1>1 DEF CallTypeOK
  <1>5. \A k \in Var : read(k)' \in meant'[k] \cup {Erased}
    BY <1>1, <1>3 DEF VarsInv, read
  <1>6. NotAskedFor(getSuitVarNum)'
    <2>1. getSuitVarNum' = getSuitVarNum
      BY <1>1 DEF getSuitVarNum, read
    <2>2. NotAskedFor(getSuitVarNum)
      BY DEF VarsInv
    <2>3. \A k \in Var : meant[k] = Value => meant'[k] = Value
      BY <1>3
    <2> QED BY <2>1, <2>2, <2>3 DEF NotAskedFor
  <1>7. CallOnBlock'
    <2>1. (then' = <<>> /\ req'.own) \/ (Len(then') = 1 /\ IsCheck(then'[1]) /\ AsksNumber')
      BY <1>1 DEF AsksNumber
    <2>2. \A k \in Var : WordOf(k) \in Covered(r) =>
             DataAt(r, WordOf(k)) \in meant'[k] \cup {Erased}
      BY <1>3
    <2>3. NotAskedFor(n)'
      BY <1>3 DEF NotAskedFor
    <2> QED BY <1>1, <1>2, <2>1, <2>2, <2>3 DEF CallOnBlock
  <1> QED
    BY <1>1, <1>3, <1>5, <1>6, <1>7 DEF VarsInv

(* write: what is behind the stored variables, the check word, comes into a  *)
(* variable of an older block only if nobody has asked for it.               *)
LEMMA WriteVars ==
  ASSUME CallTypeOK, VarsInv, BlockInOneSector, ~Busy,
         NEW idx \in Var, NEW val \in Value, idx # VAR_NUM_OF_VAR,
         NEW r \in Request, BeginCall(r, <<>>, [k \in {idx} |-> val]),
         r.addr = POWERUP_VAR_ADDR, r.own,
         idx < getSuitVarNum, Len(r.data) = getSuitVarNum + 1,
         \A j \in 0 .. getSuitVarNum - 1 : r.data[j + 1] = IF j = idx THEN val ELSE read(j)
  PROVE  VarsInv'
  <1> DEFINE n == getSuitVarNum
             changes == [k \in {idx} |-> val]
             d == DataAt(r, WordOf(VAR_NUM_OF_VAR))
  <1>1. n \in Nat /\ n >= 1 /\ idx \in Nat /\ VarNum \in Nat /\ POWERUP_VAR_ADDR \in Nat
    BY NumberStored, Geometry DEF Var
  <1>2. NotAskedFor(n)
    BY DEF VarsInv
  <1>3. \A k \in Var : /\ k \in Nat /\ (WordOf(k) \in Covered(r) <=> k <= n)
                       /\ DataAt(r, WordOf(k)) = r.data[k + 1]
    <2> TAKE k \in Var
    <2>1. k \in Nat
      BY Geometry DEF Var
    <2>2. WordOf(k) - r.addr + 1 = k + 1
      BY <1>1, <2>1 DEF WordOf
    <2> QED BY <1>1, <2>1, <2>2 DEF WordOf, Covered, DataAt
  <1>4. VAR_NUM_OF_VAR \in Var /\ VAR_NUM_OF_VAR = 1
    BY Geometry DEF VAR_NUM_OF_VAR
  <1>5. n \in 0 .. MAX_VAR_NUM_FUTURE
    BY NumberStored
  <1> HIDE DEF n
  <1>6. \A k \in Var : k < n => r.data[k + 1] = IF k = idx THEN val ELSE read(k)
    BY <1>1, <1>3 DEF n
  <1>7. Len(r.data) = n + 1 /\ idx < n
    BY DEF n
  <1>8. \A k \in Var : k = n => meant[k] = Value /\ r.data[k + 1] \in Value
    <2> SUFFICES ASSUME NEW k \in Var, k = n PROVE meant[k] = Value /\ r.data[k + 1] \in Value
      OBVIOUS
    <2>1. meant[k] = Value
      BY <1>1, <1>2 DEF NotAskedFor, VAR_BOOT_OPTI
    <2>2. WordOf(k) \in Covered(r)
      BY <1>1, <1>3
    <2>3. DataAt(r, WordOf(k)) \in Value
      BY <2>2, RequestTypes
    <2> QED BY <1>3, <2>1, <2>3
  <1>9. \A k \in Var \ {idx} : WordOf(k) \in Covered(r) =>
           DataAt(r, WordOf(k)) \in meant[k] \cup {Erased}
    <2> SUFFICES ASSUME NEW k \in Var \ {idx}, k <= n
                 PROVE  r.data[k + 1] \in meant[k] \cup {Erased}
      BY <1>3
    <2>1. CASE k < n
      BY <1>6, <2>1 DEF VarsInv
    <2>2. CASE k = n
      BY <1>8, <2>2
    <2> QED BY <1>1, <1>3, <2>1, <2>2
  <1>10. NotAskedFor(Suits(d)) /\ (idx < Suits(d) \/ idx = VAR_BOOT_OPTI)
    <2>1. CASE n >= 2
      <3>1. d = read(VAR_NUM_OF_VAR)
        BY <1>1, <1>3, <1>4, <1>6, <2>1
      <3>2. Suits(d) = n
        BY <3>1, NumbersThatSuit DEF n
      <3> QED BY <1>2, <1>7, <3>2
    <2>2. CASE n = 1
      <3>1. idx = VAR_BOOT_OPTI
        BY <1>1, <1>7, <2>2 DEF VAR_BOOT_OPTI
      <3>2. \A k \in Var \ {VAR_BOOT_OPTI} : k >= n
        BY <1>3, <2>2 DEF VAR_BOOT_OPTI
      <3> QED BY <1>2, <3>1, <3>2 DEF NotAskedFor
    <2> QED BY <1>1, <2>1, <2>2
  <1>11. DOMAIN changes = {idx} /\ changes[idx] = val
    OBVIOUS
  <1>12. BeginCall(r, <<>>, changes)
    OBVIOUS
  <1>13. WordOf(idx) \in Covered(r) /\ DataAt(r, WordOf(idx)) = val
    BY <1>1, <1>3, <1>6, <1>7
  <1>14. WordOf(VAR_NUM_OF_VAR) \in Covered(r)
    BY <1>1, <1>3, <1>4
  <1> HIDE DEF changes
  <1> QED
    BY <1>9, <1>10, <1>11, <1>12, <1>13, <1>14, BeginOnBlock

LEMMA InitVars ==
  ASSUME CallTypeOK, VarsInv, BlockInOneSector, ~Busy,
         NEW r \in Request, NEW c \in Request, NEW new \in SUBSET Var,
         BeginCall(r, <<c>>, [k \in new |-> DEFAULT_POWERUP_VAL[k]]),
         r.addr = POWERUP_VAR_ADDR, Len(r.data) = VarNum,
         \A k \in Var : r.data[k + 1] = IF k \in new THEN DEFAULT_POWERUP_VAL[k] ELSE read(k),
         VAR_NUM_OF_VAR \in new, IsCheck(c)
  PROVE  VarsInv'
  <1> DEFINE changes == [k \in new |-> DEFAULT_POWERUP_VAL[k]]
             d == DataAt(r, WordOf(VAR_NUM_OF_VAR))
  <1>1. \A k \in Var : WordOf(k) \in Covered(r) /\ DataAt(r, WordOf(k)) = r.data[k + 1]
    <2> TAKE k \in Var
    <2>1. k \in Nat /\ k < VarNum /\ VarNum \in Nat /\ POWERUP_VAR_ADDR \in Nat
      BY Geometry DEF Var
    <2>2. WordOf(k) - r.addr + 1 = k + 1
      BY <2>1 DEF WordOf
    <2> QED BY <2>1, <2>2 DEF WordOf, Covered, DataAt
  <1>2. DOMAIN changes = new /\ \A k \in new : changes[k] = DEFAULT_POWERUP_VAL[k]
    OBVIOUS
  <1>3. \A k \in new : changes[k] \in Value
    BY PowerupVarsAssumption
  <1>4. Len(<<c>>) = 1 /\ IsCheck(<<c>>[1]) /\ BeginCall(r, <<c>>, changes)
    OBVIOUS
  <1>5. \A k \in Var \ new : DataAt(r, WordOf(k)) \in meant[k] \cup {Erased}
    BY <1>1 DEF VarsInv
  <1>6. \A k \in new : WordOf(k) \in Covered(r) /\ DataAt(r, WordOf(k)) = changes[k]
    BY <1>1
  <1>7. Suits(d) = VarNum /\ NotAskedFor(VarNum) /\ \A k \in new : k < VarNum
    <2>1. d = DEFAULT_POWERUP_VAL[VAR_NUM_OF_VAR]
      BY <1>1
    <2>2. \A k \in new : k < VarNum
      BY Geometry DEF Var
    <2> QED BY <2>1, <2>2, NumbersThatSuit
  <1> HIDE DEF changes
  <1> QED
    BY <1>1, <1>2, <1>3, <1>4, <1>5, <1>6, <1>7, BeginOnBlock

(* A request of the host leaves the block alone, and asks for no variable. *)
LEMMA HostVars ==
  ASSUME CallTypeOK, VarsInv, BlockInOneSector, ~Busy,
         NEW r \in Requests, Elsewhere(r), BeginCall(r, <<>>, HostAsks(r))
  PROVE  VarsInv'
  <1>1. /\ at' # "idle" /\ req' = r /\ mem' = mem /\ marked' = marked
        /\ then' = <<>> /\ asks' = HostAsks(r)
        /\ meant' = [k \in Var |-> meant[k] \cup {HostAsks(r)[j] : j \in DOMAIN HostAsks(r) \cap {k}}]
    BY DEF BeginCall, Begin
  <1>2. DOMAIN HostAsks(r) = {}
    BY AtHome DEF HostAsks, Elsewhere, WordOf
  <1>3. \A k \in Var : meant'[k] = meant[k]
    BY <1>1, <1>2
  <1>4. Home \notin marked
    BY DEF VarsInv, NoCall, CallElsewhere, CallOnBlock, CallOnCheck, Busy
  <1>5. CallElsewhere'
    BY <1>1, <1>2, <1>4 DEF CallElsewhere, Elsewhere, Home
  <1>6. \A k \in Var : read(k)' \in meant'[k] \cup {Erased}
    BY <1>1, <1>3 DEF VarsInv, read
  <1>7. NotAskedFor(getSuitVarNum)'
    <2>1. getSuitVarNum' = getSuitVarNum
      BY <1>1 DEF getSuitVarNum, read
    <2> QED BY <1>3, <2>1 DEF VarsInv, NotAskedFor
  <1> QED
    BY <1>1, <1>2, <1>5, <1>6, <1>7 DEF VarsInv

(* The check word's own request begins, after that of the variables. *)
LEMMA NextVars ==
  ASSUME CallTypeOK, VarsInv, BlockInOneSector, WriteNext
  PROVE  VarsInv'
  <1>1. /\ at = "idle" /\ then # <<>> /\ at' # "idle" /\ req' = Head(then) /\ then' = Tail(then)
        /\ UNCHANGED <<mem, meant, asks>>
    BY DEF WriteNext, Begin
  <1>2. CallOnCheck
    BY <1>1 DEF VarsInv, NoCall, CallElsewhere, CallOnBlock, CallOnCheck, Busy
  <1>3. Len(then) = 1 /\ IsCheck(then[1])
    BY <1>1, <1>2 DEF CallOnCheck
  <1>4. Head(then) = then[1] /\ Tail(then) = <<>>
    <2>1. then \in Seq(Request)
      BY DEF CallTypeOK
    <2>2. Tail(then) \in Seq(Request) /\ Len(Tail(then)) = 0
      BY <1>1, <1>3, <2>1
    <2>3. Tail(then) = <<>>
      BY <2>2, EmptySeq
    <2>4. Head(then) = then[1]
      BY <1>1, <2>1
    <2> QED BY <2>3, <2>4
  <1>5. CallOnCheck'
    <2>1. IsCheck(req')
      BY <1>1, <1>3, <1>4
    <2>2. \A k \in DOMAIN asks : read(k)' = read(k)
      BY <1>1 DEF read
    <2> QED BY <1>1, <1>2, <1>4, <2>1, <2>2 DEF CallOnCheck, AsksNumber
  <1> QED
    BY <1>1, <1>5, SameValues DEF VarsInv

LEMMA EraseVars ==
  ASSUME CallTypeOK, VarsInv, BlockInOneSector, BlockErased
  PROVE  VarsInv'
  <1> DEFINE s == SectorOf(req.addr)
  <1>1. /\ at = "erase" /\ at' = "program" /\ marked' = marked \cup {s}
        /\ mem' = [w \in Word |-> IF w \in WordsOf(s) THEN Bits ELSE mem[w]]
        /\ UNCHANGED <<req, i, then, asks, meant>>
    BY DEF BlockErased, Erase, mark_sector_erased
  <1>2. CASE CallElsewhere
    <2>1. \A k \in Var : WordOf(k) \notin WordsOf(s)
      BY <1>2, AtHome DEF CallElsewhere, Elsewhere, WordsOf
    <2>2. \A k \in Var : mem'[WordOf(k)] = mem[WordOf(k)]
      BY <1>1, <2>1, AtHome
    <2>3. CallElsewhere'
      BY <1>1, <1>2 DEF CallElsewhere, Elsewhere, Home
    <2> QED BY <1>1, <2>2, <2>3, SameValues DEF VarsInv
  <1>3. CASE CallOnBlock \/ CallOnCheck
    <2>1. s = Home
      BY <1>1, <1>3, AtHome DEF CallOnBlock, CallOnCheck, IsCheck
    <2>2. \A k \in Var : read(k)' = Erased
      BY <1>1, <2>1, AtHome DEF read, WordOf, Erased
    <2>3. NotAskedFor(getSuitVarNum)'
      <3>1. getSuitVarNum' = VarNum
        BY <2>2, Geometry, PowerupVarsAssumption DEF getSuitVarNum
      <3> QED BY <3>1, Geometry DEF NotAskedFor, Var
    <2>4. CASE CallOnBlock
      <3>1. i = 0 /\ \A k \in Var : ~(k < 0)
        BY <1>1, <2>4, Geometry DEF CallOnBlock
      <3>2. CallOnBlock'
        BY <1>1, <2>2, <2>4, <3>1 DEF CallOnBlock, AsksNumber, NotAskedFor
      <3> QED BY <1>1, <2>2, <2>3, <3>2 DEF VarsInv
    <2>5. CASE CallOnCheck
      <3>1. CallOnCheck'
        BY <1>1, <2>2, <2>5 DEF CallOnCheck, AsksNumber, CallTypeOK
      <3> QED BY <1>1, <2>2, <2>3, <3>1 DEF VarsInv
    <2> QED BY <1>3, <2>4, <2>5
  <1> QED
    BY <1>1, <1>2, <1>3 DEF VarsInv, NoCall, Busy

LEMMA ProgramVars ==
  ASSUME CallTypeOK, VarsInv, BlockInOneSector, BlockProgrammed
  PROVE  VarsInv'
  <1> DEFINE v == req.addr + i
  <1>1. /\ at = "program" /\ i < Len(req.data) /\ i' = i + 1
        /\ mem' = [mem EXCEPT ![v] = @ \cap req.data[i + 1]]
        /\ UNCHANGED <<at, req, marked, then, asks, meant>>
    BY DEF BlockProgrammed, ProgramWord
  <1>2. /\ req \in Request /\ i \in Nat /\ req.addr \in Nat /\ Len(req.data) \in Nat
        /\ mem \in [Word -> Value] /\ v \in Covered(req)
    BY <1>1, RequestTypes DEF CallTypeOK, Covered
  <1>3. \A k \in Var : k \in Nat /\ k < VarNum /\ WordOf(k) \in Word
                       /\ WordOf(k) = POWERUP_VAR_ADDR + k /\ POWERUP_VAR_ADDR \in Nat
    BY Geometry DEF Var, WordOf
  <1>4. CASE CallElsewhere
    <2>1. \A k \in Var : WordOf(k) # v
      BY <1>2, <1>4, AtHome DEF CallElsewhere, Elsewhere
    <2>2. \A k \in Var : mem'[WordOf(k)] = mem[WordOf(k)]
      BY <1>1, <1>2, <1>3, <2>1
    <2>3. CallElsewhere'
      BY <1>1, <1>4 DEF CallElsewhere, Elsewhere, Home
    <2> QED BY <1>1, <2>2, <2>3, SameValues DEF VarsInv
  <1>5. CASE CallOnCheck
    <2>1. \A k \in Var : WordOf(k) # v
      BY <1>1, <1>2, <1>3, <1>5, Geometry DEF CallOnCheck, IsCheck
    <2>2. \A k \in Var : mem'[WordOf(k)] = mem[WordOf(k)]
      BY <1>1, <1>2, <1>3, <2>1
    <2>3. CallOnCheck'
      <3>1. \A k \in Var : read(k)' = read(k)
        BY <2>2 DEF read, WordOf
      <3> QED BY <1>1, <1>5, <3>1 DEF CallOnCheck, AsksNumber, CallTypeOK
    <2> QED BY <1>1, <2>2, <2>3, SameValues DEF VarsInv
  <1>6. CASE CallOnBlock
    <2>1. \A k \in Var : WordOf(k) = v <=> k = i
      BY <1>2, <1>3, <1>6 DEF CallOnBlock
    <2>2. \A k \in Var : k # i => read(k)' = read(k)
      BY <1>1, <1>2, <1>3, <2>1 DEF read
    <2>3. ASSUME NEW k \in Var, k = i PROVE read(k)' = DataAt(req, WordOf(k))
      <3>1. WordOf(k) \in Covered(req) /\ WordOf(k) = v /\ v \in Word
        BY <1>2, <1>3, <2>1, <2>3
      <3>2. read(k) = Erased
        BY <1>1, <1>2, <1>6, <2>3, <3>1 DEF CallOnBlock
      <3>3. DataAt(req, v) = req.data[i + 1] /\ DataAt(req, v) \subseteq Bits
        <4>1. v - req.addr + 1 = i + 1
          BY <1>2
        <4>2. DataAt(req, v) \in Value
          BY <1>2, RequestTypes
        <4> QED BY <4>1, <4>2 DEF DataAt, Value
      <3>4. mem[v] = Bits /\ read(k)' = mem'[v]
        BY <1>3, <3>1, <3>2 DEF read, Erased
      <3>5. mem'[v] = mem[v] \cap req.data[i + 1]
        BY <1>1, <1>2, <3>1
      <3> QED BY <3>1, <3>3, <3>4, <3>5
    <2>4. \A k \in Var : WordOf(k) \in Covered(req) =>
             read(k)' = IF k < i + 1 THEN DataAt(req, WordOf(k)) ELSE Erased
      <3> SUFFICES ASSUME NEW k \in Var, WordOf(k) \in Covered(req)
                   PROVE  read(k)' = IF k < i + 1 THEN DataAt(req, WordOf(k)) ELSE Erased
        OBVIOUS
      <3>1. CASE k = i
        BY <1>2, <2>3, <3>1
      <3>2. CASE k # i
        <4>1. k < i + 1 <=> k < i
          BY <1>2, <1>3, <3>2
        <4> QED BY <1>1, <1>6, <2>2, <3>2, <4>1 DEF CallOnBlock
      <3> QED BY <3>1, <3>2
    <2>5. CallOnBlock'
      BY <1>1, <1>6, <2>4 DEF CallOnBlock, AsksNumber, NotAskedFor
    <2>6. \A k \in Var : read(k)' \in meant[k] \cup {Erased}
      <3> SUFFICES ASSUME NEW k \in Var PROVE read(k)' \in meant[k] \cup {Erased}
        OBVIOUS
      <3>1. CASE k = i
        <4>1. WordOf(k) \in Covered(req)
          BY <1>2, <2>1, <3>1
        <4> QED BY <1>6, <2>3, <3>1, <4>1 DEF CallOnBlock
      <3>2. CASE k # i
        BY <2>2, <3>2 DEF VarsInv
      <3> QED BY <3>1, <3>2
    <2>7. NotAskedFor(getSuitVarNum)'
      <3>1. CASE i = VAR_NUM_OF_VAR
        <4>1. read(VAR_NUM_OF_VAR)' = DataAt(req, WordOf(VAR_NUM_OF_VAR))
          BY <2>3, <3>1, Geometry
        <4>2. getSuitVarNum' = Suits(DataAt(req, WordOf(VAR_NUM_OF_VAR)))
          BY <4>1 DEF getSuitVarNum, Suits
        <4> QED BY <1>1, <1>6, <4>2 DEF CallOnBlock, NotAskedFor
      <3>2. CASE i # VAR_NUM_OF_VAR
        <4>1. getSuitVarNum' = getSuitVarNum
          BY <2>2, <3>2, Geometry DEF getSuitVarNum
        <4> QED BY <1>1, <4>1 DEF VarsInv, NotAskedFor
      <3> QED BY <3>1, <3>2
    <2> QED BY <1>1, <2>5, <2>6, <2>7 DEF VarsInv
  <1> QED
    BY <1>1, <1>4, <1>5, <1>6 DEF VarsInv, NoCall, Busy

(* An operation that is cut off may leave anything, but only where nothing   *)
(* is claimed of it: an erase in all words, a program in its own.  Half      *)
(* programmed, the number counts no fewer variables than it shall.           *)
LEMMA CutVars ==
  ASSUME CallTypeOK, VarsInv, BlockInOneSector, CutOff, BlockCutOff
  PROVE  /\ \A k \in Var : read(k)' \in meant'[k] \cup {Erased}
         /\ NotAskedFor(getSuitVarNum)'
  <1> DEFINE w == req.addr + i
             Same(k) == mem'[WordOf(k)] = mem[WordOf(k)] /\ meant'[k] = meant[k]
  <1>1. /\ mem \in [Word -> Value] /\ mem' \in [Word -> Value]
        /\ VAR_NUM_OF_VAR \in Var /\ VAR_NUM_OF_VAR = 1
    BY CutOffType, Geometry DEF CallTypeOK, VAR_NUM_OF_VAR
  <1>2. meant' = [k \in Var |-> IF mem' # mem /\ WordOf(k) \in UnderWay THEN Value ELSE meant[k]]
    BY DEF BlockCutOff
  <1>3. \A k \in Var : WordOf(k) \in Word /\ read(k)' = mem'[WordOf(k)] /\ read(k)' \in Value
    BY <1>1, Geometry DEF read
  <1>4. \A k \in Var : read(k) \in meant[k] \cup {Erased}
    BY DEF VarsInv
  <1>5. \A k \in Var : meant'[k] = Value \/ meant'[k] = meant[k]
    BY <1>2
  <1>6. ASSUME \A k \in Var : meant'[k] = Value \/ Same(k)
        PROVE  \A k \in Var : read(k)' \in meant'[k] \cup {Erased}
    BY <1>3, <1>4, <1>6 DEF read
  <1>7. ASSUME mem'[WordOf(VAR_NUM_OF_VAR)] = mem[WordOf(VAR_NUM_OF_VAR)]
        PROVE  NotAskedFor(getSuitVarNum)'
    <2>1. getSuitVarNum' = getSuitVarNum
      BY <1>7 DEF getSuitVarNum, read
    <2>2. NotAskedFor(getSuitVarNum)
      BY DEF VarsInv
    <2> QED BY <1>5, <2>1, <2>2 DEF NotAskedFor
  <1>8. CASE mem' = mem
    <2>1. \A k \in Var : Same(k)
      BY <1>2, <1>8
    <2> QED BY <1>6, <1>7, <1>8, <2>1
  <1>9. CASE mem' # mem /\ at = "erase" /\ PartlyErased
    <2>1. UnderWay = WordsOf(SectorOf(req.addr))
      BY <1>9 DEF UnderWay
    <2>2. CASE SectorOf(req.addr) = Home
      <3>1. \A k \in Var : meant'[k] = Value
        BY <1>2, <1>9, <2>1, <2>2, AtHome
      <3>2. NotAskedFor(getSuitVarNum)'
        BY <3>1 DEF NotAskedFor
      <3> QED BY <1>6, <3>1, <3>2
    <2>3. CASE SectorOf(req.addr) # Home
      <3>1. \A k \in Var : WordOf(k) \notin UnderWay /\ WordOf(k) \in Word
        BY <2>1, <2>3, AtHome DEF WordsOf
      <3>2. \A k \in Var : mem'[WordOf(k)] = mem[WordOf(k)]
        BY <1>9, <2>1, <3>1 DEF PartlyErased
      <3>3. \A k \in Var : Same(k)
        BY <1>2, <3>1, <3>2
      <3> QED BY <1>1, <1>6, <1>7, <3>2, <3>3
    <2> QED BY <2>2, <2>3
  <1>10. CASE mem' # mem /\ at = "program" /\ i < Len(req.data) /\ PartlyProgrammed
    <2>1. UnderWay = {w}
      BY <1>10 DEF UnderWay
    <2>2. PICK v \in SUBSET mem[w] : /\ mem[w] \cap req.data[i + 1] \subseteq v
                                     /\ mem' = [mem EXCEPT ![w] = v]
      BY <1>10 DEF PartlyProgrammed
    <2>3. \A k \in Var : WordOf(k) # w => Same(k)
      BY <1>1, <1>2, <1>3, <2>1, <2>2
    <2>4. \A k \in Var : WordOf(k) = w => meant'[k] = Value
      BY <1>2, <1>10, <2>1
    <2>5. \A k \in Var : read(k)' \in meant'[k] \cup {Erased}
      BY <1>6, <2>3, <2>4
    <2>6. CASE WordOf(VAR_NUM_OF_VAR) # w
      BY <1>1, <1>7, <2>3, <2>5, <2>6
    <2>7. CASE WordOf(VAR_NUM_OF_VAR) = w
      <3> DEFINE d == DataAt(req, WordOf(VAR_NUM_OF_VAR))
      <3>1. /\ req \in Request /\ i \in Nat /\ req.addr \in Nat /\ Len(req.data) \in Nat
            /\ w \in Covered(req)
        BY <1>10, RequestTypes DEF CallTypeOK, Covered
      <3>2. ~CallElsewhere
        BY <1>1, <2>7, <3>1, AtHome DEF CallElsewhere, Elsewhere
      <3>3. ~CallOnCheck
        BY <1>1, <1>10, <2>7, <3>1, Geometry DEF CallOnCheck, IsCheck, WordOf
      <3>4. CallOnBlock
        BY <1>10, <3>2, <3>3 DEF VarsInv, NoCall, Busy
      <3>5. i = 1 /\ d = req.data[i + 1] /\ d \in Value
        <4>1. req.addr = POWERUP_VAR_ADDR
          BY <3>4 DEF CallOnBlock
        <4>2. i = 1
          BY <1>1, <2>7, <3>1, <4>1, Geometry DEF WordOf
        <4>3. d \in Value
          BY <2>7, <3>1, RequestTypes
        <4> QED BY <1>1, <2>7, <3>1, <4>1, <4>2, <4>3 DEF DataAt
      <3>6. mem[w] = Bits
        BY <1>1, <1>10, <2>7, <3>1, <3>4, <3>5 DEF CallOnBlock, read, Erased
      <3>7. d \subseteq v /\ v \in Value /\ read(VAR_NUM_OF_VAR)' = v
        BY <1>1, <1>3, <2>2, <2>7, <3>5, <3>6 DEF Value
      <3>8. Number[d] \in Nat /\ Number[v] \in Nat /\ Number[d] <= Number[v]
        BY <3>5, <3>7, PowerupVarsAssumption
      <3>9. NotAskedFor(Suits(d))
        BY <3>4 DEF CallOnBlock
      <3> HIDE DEF d
      <3>10. getSuitVarNum' = Suits(v)
        BY <3>7 DEF getSuitVarNum, Suits
      <3>11. CASE Number[v] > MAX_VAR_NUM_FUTURE
        <4>1. \A k \in Var : ~(k >= VarNum)
          BY Geometry DEF Var
        <4>2. getSuitVarNum' = VarNum
          BY <3>10, <3>11 DEF Suits
        <4> QED BY <2>5, <4>1, <4>2 DEF NotAskedFor
      <3>12. CASE ~(Number[v] > MAX_VAR_NUM_FUTURE)
        <4>1. Suits(v) = Number[v] /\ Suits(d) = Number[d]
          BY <3>8, <3>12, Geometry DEF Suits
        <4>2. \A k \in Var : k >= Suits(v) => k >= Suits(d)
          BY <3>8, <4>1, Geometry DEF Var
        <4>3. \A k \in Var \ {VAR_BOOT_OPTI} : k >= Suits(v) => meant'[k] = Value
          BY <1>5, <3>9, <4>2 DEF NotAskedFor
        <4> QED BY <2>5, <3>10, <4>3 DEF NotAskedFor
      <3> QED BY <3>11, <3>12
    <2> QED BY <2>6, <2>7
  <1> QED
    BY <1>8, <1>9, <1>10 DEF CutOff

(* A failure ends the request and forgets the marks; the call goes on.       *)
LEMMA FailVars ==
  ASSUME CallTypeOK, VarsInv, BlockInOneSector, DeviceFails
  PROVE  VarsInv'
  <1>1. /\ at # "idle" /\ at' = "idle" /\ marked' = {} /\ asks' = NoAsk /\ then' = then
        /\ CutOff /\ BlockCutOff
    BY DEF DeviceFails, EraseFails, ProgramFails, Fail, RESET_SECTOR_ERASE_MARK
  <1>2. DOMAIN asks' = {}
    BY <1>1 DEF NoAsk
  <1>3. NoCall' \/ CallOnCheck'
    <2>1. CASE then = <<>>
      BY <1>1, <1>2, <2>1 DEF NoCall, Busy
    <2>2. CASE then # <<>>
      <3>1. Len(then) = 1 /\ IsCheck(then[1])
        BY <1>1, <2>2 DEF VarsInv, NoCall, CallElsewhere, CallOnBlock, CallOnCheck, Busy
      <3> QED BY <1>1, <1>2, <3>1 DEF CallOnCheck
    <2> QED BY <2>1, <2>2
  <1>4. /\ \A k \in Var : read(k)' \in meant'[k] \cup {Erased}
        /\ NotAskedFor(getSuitVarNum)'
    BY <1>1, CutVars
  <1> QED
    BY <1>1, <1>2, <1>3, <1>4 DEF VarsInv

LEMMA WrittenVars ==
  ASSUME CallTypeOK, VarsInv, BlockInOneSector, Written
  PROVE  VarsInv'
  <1>1. /\ at = "program" /\ i = Len(req.data) /\ at' = "idle" /\ then' = then
        /\ marked' = (IF req.own THEN marked \ {SectorOf(req.addr)} ELSE marked)
        /\ UNCHANGED <<mem, req>>
    BY DEF Written, Return, ForgetOwn
  <1>2. /\ req \in Request /\ i \in Nat /\ req.addr \in Nat /\ Len(req.data) \in Nat
    BY <1>1, RequestTypes DEF CallTypeOK
  <1>3. \A k \in Var : read(k)' = read(k)
    BY <1>1 DEF read
  <1>4. getSuitVarNum' = getSuitVarNum
    BY <1>3, Geometry DEF getSuitVarNum
  <1>5. CASE then # <<>>
    <2>1. UNCHANGED <<asks, meant>>
      BY <1>5 DEF Written
    <2>2. CallOnBlock /\ Len(then) = 1 /\ IsCheck(then[1]) /\ AsksNumber
      BY <1>1, <1>5 DEF VarsInv, NoCall, CallElsewhere, CallOnBlock, CallOnCheck, Busy
    <2>3. \A k \in DOMAIN asks : read(k) = asks[k]
      <3> TAKE k \in DOMAIN asks
      <3>1. k \in Var /\ WordOf(k) \in Covered(req) /\ DataAt(req, WordOf(k)) = asks[k]
        BY <2>2 DEF CallOnBlock, CallTypeOK
      <3>2. k < i
        BY <1>1, <1>2, <2>2, <3>1, Geometry DEF CallOnBlock, Covered, WordOf
      <3> QED BY <1>1, <2>2, <3>1, <3>2 DEF CallOnBlock
    <2>4. CallOnCheck'
      <3>1. \A k \in DOMAIN asks : read(k)' = asks[k]
        BY <1>3, <2>3 DEF CallTypeOK
      <3> QED BY <1>1, <2>1, <2>2, <3>1 DEF CallOnCheck, AsksNumber
    <2> QED BY <1>1, <2>1, <2>4, SameValues DEF VarsInv
  <1>6. CASE then = <<>>
    <2>1. /\ asks' = NoAsk /\ DOMAIN asks' = {}
          /\ meant' = [k \in Var |-> IF k \in DOMAIN asks THEN {asks[k]} ELSE meant[k]]
      BY <1>6 DEF Written, NoAsk
    <2>2. NoCall'
      <3>1. CASE CallElsewhere
        BY <1>1, <1>6, <2>1, <3>1 DEF NoCall, Busy, CallElsewhere, Home
      <3>2. CASE CallOnBlock \/ CallOnCheck
        <4>1. req.own /\ SectorOf(req.addr) = Home
          BY <1>1, <1>6, <3>2, AtHome DEF CallOnBlock, CallOnCheck, IsCheck
        <4> QED BY <1>1, <1>6, <2>1, <4>1 DEF NoCall, Busy, Home
      <3> QED BY <1>1, <3>1, <3>2 DEF VarsInv, NoCall, Busy
    <2>3. \A k \in DOMAIN asks : k \in Var /\ read(k) \in {asks[k], Erased}
      <3>1. CASE CallElsewhere
        BY <3>1 DEF CallElsewhere
      <3>2. CASE CallOnCheck
        BY <3>2 DEF CallOnCheck, CallTypeOK
      <3>3. CASE CallOnBlock
        <4> TAKE k \in DOMAIN asks
        <4>1. k \in Var /\ WordOf(k) \in Covered(req) /\ DataAt(req, WordOf(k)) = asks[k]
          BY <3>3 DEF CallOnBlock, CallTypeOK
        <4> QED BY <1>1, <3>3, <4>1 DEF CallOnBlock
      <3> QED BY <1>1, <3>1, <3>2, <3>3 DEF VarsInv, NoCall, Busy
    <2>4. \A k \in Var : read(k)' \in meant'[k] \cup {Erased}
      BY <1>3, <2>1, <2>3 DEF VarsInv
    <2>5. NotAskedFor(getSuitVarNum)'
      <3> DEFINE n == getSuitVarNum
      <3>1. NotAskedFor(n)
        BY DEF VarsInv
      <3>2. \A k \in DOMAIN asks : k < n \/ k = VAR_BOOT_OPTI
        <4>1. CASE DOMAIN asks = {}
          BY <4>1
        <4>2. CASE CallOnCheck /\ DOMAIN asks # {}
          <5>1. AsksNumber /\ read(VAR_NUM_OF_VAR) \in {asks[VAR_NUM_OF_VAR], Erased}
            BY <4>2 DEF CallOnCheck, AsksNumber
          <5>2. n = VarNum
            BY <5>1, NumbersThatSuit DEF AsksNumber
          <5> QED BY <5>2, <2>3, Geometry DEF Var
        <4>3. CASE CallOnBlock
          <5>1. WordOf(VAR_NUM_OF_VAR) \in Covered(req) /\ VAR_NUM_OF_VAR \in Var
            BY <4>3, Geometry DEF CallOnBlock
          <5>2. VAR_NUM_OF_VAR < i
            BY <1>1, <1>2, <4>3, <5>1, Geometry DEF CallOnBlock, Covered, WordOf
          <5>3. read(VAR_NUM_OF_VAR) = DataAt(req, WordOf(VAR_NUM_OF_VAR))
            BY <1>1, <4>3, <5>1, <5>2 DEF CallOnBlock
          <5>4. n = Suits(DataAt(req, WordOf(VAR_NUM_OF_VAR)))
            BY <5>3, NumbersThatSuit
          <5> QED BY <4>3, <5>4 DEF CallOnBlock
        <4> QED BY <1>1, <4>1, <4>2, <4>3 DEF VarsInv, NoCall, CallElsewhere, Busy
      <3>3. n \in Nat
        BY NumberStored, Geometry
      <3>4. \A k \in Var \ {VAR_BOOT_OPTI} : k >= n => meant'[k] = Value
        <4> SUFFICES ASSUME NEW k \in Var \ {VAR_BOOT_OPTI}, k >= n PROVE meant'[k] = Value
          OBVIOUS
        <4>1. k \notin DOMAIN asks
          BY <3>2, <3>3, Geometry
        <4> QED BY <2>1, <3>1, <4>1 DEF NotAskedFor
      <3> QED BY <1>4, <3>4 DEF NotAskedFor
    <2> QED BY <2>1, <2>2, <2>4, <2>5 DEF VarsInv
  <1> QED
    BY <1>5, <1>6

LEMMA LostVars ==
  ASSUME CallTypeOK, VarsInv, BlockInOneSector, RamIsLost
  PROVE  VarsInv'
  <1>1. /\ at' = "idle" /\ then' = <<>> /\ marked' = {} /\ DOMAIN asks' = {}
        /\ CutOff /\ BlockCutOff
    BY DEF RamIsLost, NoAsk
  <1>2. NoCall'
    BY <1>1 DEF NoCall, Busy
  <1>3. /\ \A k \in Var : read(k)' \in meant'[k] \cup {Erased}
        /\ NotAskedFor(getSuitVarNum)'
    BY <1>1, CutVars
  <1> QED
    BY <1>1, <1>2, <1>3 DEF VarsInv

LEMMA VarsStep ==
  ASSUME CallTypeOK, VarsInv, BlockInOneSector, HostLeavesTheBlock, NumberIsKept,
         [BootNext]_allVars
  PROVE  VarsInv'
  <1>1. CASE UNCHANGED <<vars, pvfVars>>
    BY <1>1 DEF vars, pvfVars, VarsInv, NoCall, CallElsewhere, CallOnBlock, CallOnCheck, Busy,
                AsksNumber, NotAskedFor, Elsewhere, Home, read, getSuitVarNum
  <1>2. ASSUME ~Busy, NEW idx \in Var, NEW val \in Value, write(idx, val), idx # VAR_NUM_OF_VAR
        PROVE  VarsInv'
    <2>1. ASSUME NEW r \in Request, BeginCall(r, <<>>, [k \in {idx} |-> val]),
                 r.addr = POWERUP_VAR_ADDR, r.own,
                 idx < getSuitVarNum, Len(r.data) = getSuitVarNum + 1,
                 \A j \in 0 .. getSuitVarNum - 1 : r.data[j + 1] = IF j = idx THEN val ELSE read(j)
          PROVE  VarsInv'
      BY <1>2, <2>1, WriteVars
    <2> QED BY <1>1, <1>2, <2>1, WriteCall
  <1>3. CASE ~Busy /\ initInApp
    BY <1>1, <1>3, InitCall, InitVars
  <1>4. ASSUME ~Busy, NEW r \in Requests, BeginCall(r, <<>>, HostAsks(r)) PROVE VarsInv'
    BY <1>4, HostVars DEF HostLeavesTheBlock
  <1>5. CASE FlashStep
    BY <1>5, NextVars, EraseVars, ProgramVars, WrittenVars DEF FlashStep
  <1>6. CASE DeviceFails \/ RamIsLost
    BY <1>6, FailVars, LostVars
  <1> QED
    BY <1>1, <1>2, <1>3, <1>4, <1>5, <1>6, StepKinds

LEMMA InitVarsInv == BootInit => VarsInv
  <1> SUFFICES ASSUME BootInit PROVE VarsInv
    OBVIOUS
  <1>1. NoCall
    BY DEF BootInit, NoCall, Busy, NoAsk
  <1>2. CallTypeOK
    BY InitType
  <1>3. \A k \in Var : read(k) \in meant[k]
    BY <1>2, NumberStored, Geometry DEF BootInit
  <1>4. NotAskedFor(getSuitVarNum)
    BY <1>2, NumberStored, Geometry DEF BootInit, NotAskedFor, Var
  <1> QED
    BY <1>1, <1>3, <1>4 DEF VarsInv, NoCall

(* Power losses, resets and failures at any moment leave in each variable    *)
(* the old value, the new one, or the erased word, on boards of any version, *)
(* if the block lies in one sector, the host does not write to that sector   *)
(* and the application leaves the number of variables to initInApp: but for  *)
(* the variable whose word was being programmed when that was cut off, and   *)
(* for all of them when it was the erase, until they are written again.      *)
THEOREM ValuesAreMeantAlways ==
  ASSUME BlockInOneSector, HostLeavesTheBlock, NumberIsKept
  PROVE  BootSpec => []ValuesAreMeant
  <1>1. BootIInv => CallTypeOK
    BY DEF BootIInv, BootTypeOK, CallTypeOK
  <1>2. BootIInv /\ VarsInv /\ [BootNext]_allVars => VarsInv'
    BY <1>1, VarsStep
  <1>3. VarsInv => ValuesAreMeant
    BY DEF VarsInv, ValuesAreMeant
  <1> QED
    BY <1>2, <1>3, InitVarsInv, Invariant, PTL DEF BootSpec

-----------------------------------------------------------------------------
(* A change of the block that breaks off. *)

LEMMA SlotWords ==
  ASSUME BlockInOneSector
  PROVE  /\ \A k \in Slot : /\ k \in Nat /\ k <= MAX_VAR_NUM_FUTURE
                            /\ WordOf(k) \in Word /\ WordOf(k) \in WordsOf(Home)
                            /\ SectorOf(WordOf(k)) = Home /\ WordOf(k) = POWERUP_VAR_ADDR + k
         /\ \A w \in Int : InBlock(w) => SectorOf(w) = Home
         /\ VAR_NUM_OF_VAR \in Slot /\ VAR_NUM_OF_VAR = 1 /\ VarNum \in Slot /\ Var \subseteq Slot
  <1>1. ASSUME NEW k \in Slot
        PROVE  /\ k \in Nat /\ k <= MAX_VAR_NUM_FUTURE
               /\ WordOf(k) \in Word /\ WordOf(k) \in WordsOf(Home)
               /\ SectorOf(WordOf(k)) = Home /\ WordOf(k) = POWERUP_VAR_ADDR + k
    BY Geometry DEF BlockInOneSector, WordOf, WordsOf, Slot
  <1>2. ASSUME NEW w \in Int, InBlock(w) PROVE SectorOf(w) = Home
    <2>1. w - POWERUP_VAR_ADDR \in 0 .. MAX_VAR_NUM_FUTURE
          /\ POWERUP_VAR_ADDR + (w - POWERUP_VAR_ADDR) = w
      BY <1>2, Geometry DEF InBlock
    <2> QED BY <2>1 DEF BlockInOneSector
  <1>3. VAR_NUM_OF_VAR \in Slot /\ VAR_NUM_OF_VAR = 1 /\ VarNum \in Slot /\ Var \subseteq Slot
    BY PowerupVarsAssumption DEF VAR_NUM_OF_VAR, Slot, Var
  <1> QED BY <1>1, <1>2, <1>3

LEMMA DataInSlot ==
  ASSUME BlockInOneSector, NEW r \in Request, r.addr = POWERUP_VAR_ADDR
  PROVE  \A k \in Slot : /\ DataAt(r, WordOf(k)) = r.data[k + 1]
                         /\ k < Len(r.data) => WordOf(k) \in Covered(r) /\ r.data[k + 1] \in Value
  <1> TAKE k \in Slot
  <1>1. k \in Nat /\ POWERUP_VAR_ADDR \in Nat /\ Len(r.data) \in Nat /\ r.data \in Seq(Value)
    BY SlotWords, Geometry, RequestTypes
  <1>2. WordOf(k) - r.addr + 1 = k + 1
    BY <1>1 DEF WordOf
  <1>3. k < Len(r.data) => k + 1 \in 1 .. Len(r.data) /\ WordOf(k) \in Covered(r)
    BY <1>1 DEF WordOf, Covered
  <1> QED BY <1>1, <1>2, <1>3 DEF DataAt

(* What the check makes of the block, told for a number that is fixed. *)
LEMMA Verified ==
  ASSUME NEW a, a = Number[read(VAR_NUM_OF_VAR)]
  PROVE  verifyPowerupField <=> /\ a \in 1 .. MAX_VAR_NUM_FUTURE
                                /\ check_func([k \in 0 .. a - 1 |-> read(k)], a) = read(a)
  BY DEF verifyPowerupField, Stored

LEMMA VerifiedNext ==
  ASSUME NEW a, a = Number[read(VAR_NUM_OF_VAR)']
  PROVE  verifyPowerupField' <=> /\ a \in 1 .. MAX_VAR_NUM_FUTURE
                                 /\ check_func([k \in 0 .. a - 1 |-> read(k)'], a) = read(a)'
  BY DEF verifyPowerupField, Stored

LEMMA OpenIsSeen ==
  ASSUME CallTypeOK, TornInv
  PROVE  TornIsSeen
  <1> SUFFICES ASSUME torn, ~muddled, verifyPowerupField
               PROVE  /\ Number[read(VAR_NUM_OF_VAR)] = getSuitVarNum
                      /\ read(getSuitVarNum) = Erased
    BY DEF TornIsSeen
  <1> DEFINE n == Number[read(VAR_NUM_OF_VAR)]
  <1>1. n \in 1 .. MAX_VAR_NUM_FUTURE
    BY DEF verifyPowerupField
  <1>2. n \in Slot \ {0} /\ ~(n > MAX_VAR_NUM_FUTURE)
    BY <1>1, PowerupVarsAssumption DEF Slot
  <1>3. read(n) = Erased
    BY <1>2 DEF TornInv, BrokenOff, CheckIsOpen
  <1>4. getSuitVarNum = n
    BY <1>2 DEF getSuitVarNum
  <1> QED BY <1>3, <1>4

(* The block is as before, whatever happens to other words. *)
LEMMA SameBlock ==
  ASSUME BrokenOff, BlockInOneSector, \A k \in Slot : mem'[WordOf(k)] = mem[WordOf(k)],
         torn' /\ ~muddled' => torn /\ ~muddled
  PROVE  /\ \A k \in Slot : read(k)' = read(k)
         /\ BrokenOff'
  <1>1. \A k \in Slot : read(k)' = read(k)
    BY DEF read, WordOf
  <1>2. read(VAR_NUM_OF_VAR)' = read(VAR_NUM_OF_VAR)
    BY <1>1, SlotWords
  <1>3. CheckIsOpen => CheckIsOpen'
    <2>1. PICK a : a = Number[read(VAR_NUM_OF_VAR)]
      OBVIOUS
    <2>2. a = Number[read(VAR_NUM_OF_VAR)']
      BY <1>2, <2>1
    <2>3. CheckIsOpen => (a \in Slot \ {0} => read(a) = Erased)
      BY <2>1 DEF CheckIsOpen
    <2>4. (a \in Slot \ {0} => read(a)' = Erased) => CheckIsOpen'
      BY <2>2 DEF CheckIsOpen
    <2> QED BY <1>1, <2>3, <2>4
  <1>4. verifyPowerupField' => verifyPowerupField
    <2>1. PICK a : a = Number[read(VAR_NUM_OF_VAR)]
      OBVIOUS
    <2>2. a = Number[read(VAR_NUM_OF_VAR)']
      BY <1>2, <2>1
    <2> SUFFICES ASSUME a \in 1 .. MAX_VAR_NUM_FUTURE,
                        check_func([k \in 0 .. a - 1 |-> read(k)'], a) = read(a)'
                 PROVE  check_func([k \in 0 .. a - 1 |-> read(k)], a) = read(a)
      BY <2>1, <2>2, Verified, VerifiedNext
    <2>3. a \in Slot /\ \A k \in 0 .. a - 1 : k \in Slot
      BY PowerupVarsAssumption DEF Slot
    <2>4. \A k \in 0 .. a - 1 : read(k)' = read(k)
      BY <1>1, <2>3
    <2>5. [k \in 0 .. a - 1 |-> read(k)'] = [k \in 0 .. a - 1 |-> read(k)]
      BY <2>4
    <2>6. read(a)' = read(a)
      BY <1>1, <2>3
    <2> QED BY <2>5, <2>6
  <1> QED BY <1>1, <1>3, <1>4 DEF BrokenOff

(* The calls are told apart by the request. *)
LEMMA OneCall ==
  /\ at = "idle" => ~CallOnBlock
  /\ at # "idle" /\ req.addr = POWERUP_VAR_ADDR => ~CallOnCheck
  /\ at # "idle" /\ IsCheck(req) => ~CallOnBlock
  /\ then = <<>> /\ at = "idle" => ~CallOnCheck
  /\ BlockInOneSector /\ CallElsewhere => ~CallOnBlock /\ ~CallOnCheck
  BY Geometry, AtHome DEF CallOnBlock, CallOnCheck, IsCheck, CallElsewhere, Elsewhere

LEMMA BeginTorn ==
  ASSUME CallTypeOK, VarsInv, TornInv, BlockInOneSector, ~Busy,
         NEW r \in Request, NEW rest, NEW changes, BeginCall(r, rest, changes),
         r.addr = POWERUP_VAR_ADDR, DOMAIN changes # {},
         NEW n \in 1 .. MAX_VAR_NUM_FUTURE,
         Len(r.data) = IF rest = <<>> THEN n + 1 ELSE n,
         n >= 2 => Number[DataAt(r, WordOf(VAR_NUM_OF_VAR))] >= n,
         rest # <<>> => n = VarNum,
         (IF rest = <<>> THEN DataAt(r, WordOf(n)) ELSE rest[1].data[1]) =
           check_func(WordsIn(r, n), n)
  PROVE  TornInv'
  <1>1. /\ at = "idle" /\ at' = (IF r.addr \in Otp \/ SectorOf(r.addr) \in marked
                                 THEN "program" ELSE "erase")
        /\ req' = r /\ i' = 0 /\ mem' = mem /\ then' = rest /\ asks' = changes
        /\ torn' = torn /\ muddled' = muddled
    BY DEF BeginCall, Begin
  <1>2. at' = "erase"
    <2>1. Home \notin marked
      BY DEF VarsInv, NoCall, CallElsewhere, CallOnBlock, CallOnCheck, Busy
    <2> QED BY <1>1, <2>1, AtHome
  <1>3. WholeBlock'
    <2>1. n = IF then' = <<>> THEN Len(req'.data) - 1 ELSE Len(req'.data)
      BY <1>1
    <2> QED BY <1>1, <1>2, <2>1 DEF WholeBlock
  <1>4. ~CallOnCheck'
    BY <1>1, <1>2, Geometry DEF CallOnCheck, IsCheck
  <1>5. BrokenOff'
    BY <1>1, SameBlock DEF TornInv
  <1> QED
    BY <1>3, <1>4, <1>5 DEF TornInv

LEMMA WriteTorn ==
  ASSUME CallTypeOK, VarsInv, TornInv, BlockInOneSector, ~Busy,
         NEW idx \in Var, NEW val \in Value, idx # VAR_NUM_OF_VAR,
         NEW r \in Request, BeginCall(r, <<>>, [k \in {idx} |-> val]),
         r.addr = POWERUP_VAR_ADDR,
         idx < getSuitVarNum, Len(r.data) = getSuitVarNum + 1,
         \A j \in 0 .. getSuitVarNum - 1 : r.data[j + 1] = IF j = idx THEN val ELSE read(j),
         r.data[getSuitVarNum + 1] =
           check_func([j \in 0 .. getSuitVarNum - 1 |-> r.data[j + 1]], getSuitVarNum)
  PROVE  TornInv'
  <1> DEFINE changes == [k \in {idx} |-> val]
  <1>1. PICK n : n = getSuitVarNum
    OBVIOUS
  <1>2. n \in 1 .. MAX_VAR_NUM_FUTURE /\ n \in Nat /\ n \in Slot
    BY <1>1, NumberStored, Geometry DEF Slot, Var
  <1>3. \A k \in Slot : DataAt(r, WordOf(k)) = r.data[k + 1]
    BY DataInSlot
  <1>4. \A k \in 0 .. n - 1 : k \in Slot
    BY <1>2, Geometry DEF Slot
  <1>5. n >= 2 => Number[DataAt(r, WordOf(VAR_NUM_OF_VAR))] >= n
    <2> SUFFICES ASSUME n >= 2 PROVE Number[DataAt(r, WordOf(VAR_NUM_OF_VAR))] >= n
      OBVIOUS
    <2>1. VAR_NUM_OF_VAR \in 0 .. n - 1 /\ VAR_NUM_OF_VAR \in Slot
      BY <1>2, SlotWords
    <2>2. DataAt(r, WordOf(VAR_NUM_OF_VAR)) = read(VAR_NUM_OF_VAR)
      BY <1>1, <1>3, <2>1
    <2>3. Number[read(VAR_NUM_OF_VAR)] \in Nat
      BY <2>1, NumberStored, PowerupVarsAssumption DEF Slot
    <2>4. Number[read(VAR_NUM_OF_VAR)] >= n
      BY <1>1, <1>2, <2>3, PowerupVarsAssumption DEF getSuitVarNum
    <2> QED BY <2>2, <2>4
  <1>6. DataAt(r, WordOf(n)) = check_func(WordsIn(r, n), n)
    <2> DEFINE sent == [j \in 0 .. n - 1 |-> r.data[j + 1]]
    <2>1. \A k \in 0 .. n - 1 : sent[k] = WordsIn(r, n)[k]
      BY <1>3, <1>4 DEF WordsIn
    <2>2. DataAt(r, WordOf(n)) = check_func(sent, n)
      BY <1>1, <1>2, <1>3
    <2> HIDE DEF sent
    <2>3. check_func(sent, n) = check_func(WordsIn(r, n), n)
      BY <2>1, CheckSame
    <2> QED BY <2>2, <2>3
  <1>7. DOMAIN changes # {} /\ BeginCall(r, <<>>, changes) /\ Len(r.data) = n + 1
    BY <1>1
  <1> HIDE DEF changes
  <1> QED
    BY <1>2, <1>5, <1>6, <1>7, BeginTorn

LEMMA InitTorn ==
  ASSUME CallTypeOK, VarsInv, TornInv, BlockInOneSector, ~Busy,
         NEW r \in Request, NEW c \in Request, NEW new \in SUBSET Var,
         BeginCall(r, <<c>>, [k \in new |-> DEFAULT_POWERUP_VAL[k]]),
         r.addr = POWERUP_VAR_ADDR, Len(r.data) = VarNum,
         \A k \in Var : r.data[k + 1] = IF k \in new THEN DEFAULT_POWERUP_VAL[k] ELSE read(k),
         VAR_NUM_OF_VAR \in new,
         c.data[1] = check_func([k \in Var |-> r.data[k + 1]], VarNum)
  PROVE  TornInv'
  <1> DEFINE changes == [k \in new |-> DEFAULT_POWERUP_VAL[k]]
             sent == [k \in Var |-> r.data[k + 1]]
             d == DataAt(r, WordOf(VAR_NUM_OF_VAR))
  <1>1. \A k \in Slot : DataAt(r, WordOf(k)) = r.data[k + 1]
    BY DataInSlot
  <1>2. d = DEFAULT_POWERUP_VAL[VAR_NUM_OF_VAR]
    BY <1>1, SlotWords
  <1>3. VarNum \in 1 .. MAX_VAR_NUM_FUTURE /\ Number[d] >= VarNum
    BY <1>2, PowerupVarsAssumption
  <1>4. \A k \in 0 .. VarNum - 1 : sent[k] = WordsIn(r, VarNum)[k]
    <2> TAKE k \in 0 .. VarNum - 1
    <2>1. k \in Var /\ k \in Slot
      BY SlotWords DEF Var
    <2> QED BY <1>1, <2>1 DEF WordsIn
  <1>5. DOMAIN changes # {} /\ BeginCall(r, <<c>>, changes) /\ <<c>> # <<>>
        /\ c.data[1] = check_func(sent, VarNum)
    OBVIOUS
  <1> HIDE DEF changes, sent, d
  <1>6. <<c>>[1].data[1] = check_func(WordsIn(r, VarNum), VarNum)
    BY <1>4, <1>5, CheckSame
  <1>7. /\ Len(r.data) = IF <<c>> = <<>> THEN VarNum + 1 ELSE VarNum
        /\ (IF <<c>> = <<>> THEN DataAt(r, WordOf(VarNum)) ELSE <<c>>[1].data[1]) =
             check_func(WordsIn(r, VarNum), VarNum)
    BY <1>5, <1>6
  <1> QED
    BY <1>3, <1>5, <1>7, BeginTorn DEF d

LEMMA HostTorn ==
  ASSUME TornInv, BlockInOneSector, NEW r \in Requests, Elsewhere(r),
         BeginCall(r, <<>>, HostAsks(r))
  PROVE  TornInv'
  <1>1. at' # "idle" /\ req' = r /\ then' = <<>> /\ mem' = mem /\ torn' = torn /\ muddled' = muddled
    BY DEF BeginCall, Begin
  <1>2. r.addr # POWERUP_VAR_ADDR /\ ~IsCheck(r)
    BY AtHome DEF Elsewhere, IsCheck
  <1>3. ~CallOnBlock' /\ ~CallOnCheck'
    BY <1>1, <1>2 DEF CallOnBlock, CallOnCheck, IsCheck
  <1>4. BrokenOff'
    BY <1>1, SameBlock DEF TornInv
  <1> QED BY <1>3, <1>4 DEF TornInv

(* The check word's request, where the marks are forgotten, erases again.    *)
LEMMA NextTorn ==
  ASSUME CallTypeOK, VarsInv, TornInv, BlockInOneSector, WriteNext
  PROVE  TornInv'
  <1>1. /\ at = "idle" /\ then # <<>> /\ req' = Head(then) /\ then' = Tail(then)
        /\ at' = (IF Head(then).addr \in Otp \/ SectorOf(Head(then).addr) \in marked
                  THEN "program" ELSE "erase")
        /\ UNCHANGED <<mem, marked, asks, torn, muddled>>
    BY DEF WriteNext, Begin
  <1>2. CallOnCheck
    BY <1>1 DEF VarsInv, NoCall, CallElsewhere, CallOnBlock, CallOnCheck, Busy
  <1>3. IsCheck(Head(then)) /\ Head(then) = then[1] /\ then' = <<>>
    BY <1>1, <1>2 DEF CallOnCheck, CallTypeOK
  <1>4. at' = (IF Home \in marked THEN "program" ELSE "erase")
    <2>1. POWERUP_VAR_ADDR + VarNum \notin Otp
      BY SlotWords DEF BlockInOneSector, Slot
    <2> QED BY <1>1, <1>3, <2>1, AtHome DEF IsCheck
  <1>5. CheckAlone'
    <2>1. read(VAR_NUM_OF_VAR)' = read(VAR_NUM_OF_VAR) /\ Stored(VarNum)' = Stored(VarNum)
      BY <1>1 DEF read, Stored
    <2>2. CASE DOMAIN asks = {}
      BY <1>1, <1>2, <1>4, <2>2 DEF TornInv, CheckAlone
    <2>3. CASE DOMAIN asks # {}
      <3>1. \/ read(VAR_NUM_OF_VAR) = Erased
            \/ then[1].data[1] = check_func(Stored(VarNum), VarNum)
        BY <1>1, <1>2, <2>3 DEF TornInv, CheckAlone
      <3> QED BY <1>1, <1>3, <2>1, <2>3, <3>1 DEF CheckAlone
    <2> QED BY <2>2, <2>3
  <1>6. ~CallOnBlock'
    BY <1>1, <1>3, Geometry DEF CallOnBlock, IsCheck
  <1>7. BrokenOff'
    BY <1>1, SameBlock DEF TornInv
  <1> QED BY <1>5, <1>6, <1>7 DEF TornInv

(* A block that counts no variables that it could hold has no check word.    *)
LEMMA OpenIfErased ==
  ASSUME read(VAR_NUM_OF_VAR)' = Erased
  PROVE  BrokenOff'
  <1>1. Number[Erased] \notin Slot
    BY PowerupVarsAssumption DEF Slot
  <1>2. CheckIsOpen'
    BY <1>1 DEF CheckIsOpen
  <1> QED BY <1>2 DEF BrokenOff

LEMMA EraseTorn ==
  ASSUME CallTypeOK, VarsInv, TornInv, BlockInOneSector, BlockErased
  PROVE  TornInv'
  <1> DEFINE s == SectorOf(req.addr)
  <1>1. /\ at = "erase" /\ at' = "program"
        /\ mem' = [w \in Word |-> IF w \in WordsOf(s) THEN Bits ELSE mem[w]]
        /\ torn' = (torn \/ s = Home) /\ muddled' = (muddled /\ s # Home)
        /\ UNCHANGED <<req, i, then, asks>>
    BY DEF BlockErased, Erase, Home
  <1>2. CASE CallElsewhere
    <2>1. s # Home /\ ~CallOnBlock' /\ ~CallOnCheck'
      BY <1>1, <1>2, AtHome DEF CallElsewhere, Elsewhere, CallOnBlock, CallOnCheck, IsCheck
    <2>2. \A k \in Slot : mem'[WordOf(k)] = mem[WordOf(k)]
      <3> TAKE k \in Slot
      <3>1. WordOf(k) \in Word /\ WordOf(k) \notin WordsOf(s)
        BY <2>1, SlotWords DEF WordsOf
      <3> QED BY <1>1, <3>1
    <2>3. torn' /\ ~muddled' => torn /\ ~muddled
      BY <1>1, <2>1
    <2>4. BrokenOff'
      BY <2>2, <2>3, SameBlock DEF TornInv
    <2> QED BY <2>1, <2>4 DEF TornInv
  <1>3. CASE CallOnBlock \/ CallOnCheck
    <2>1. s = Home
      BY <1>1, <1>3, AtHome DEF CallOnBlock, CallOnCheck, IsCheck
    <2>2. \A k \in Slot : read(k)' = Erased
      BY <1>1, <2>1, SlotWords DEF read, WordOf, Erased
    <2>3. read(VAR_NUM_OF_VAR)' = Erased
      BY <2>2, SlotWords
    <2>4. BrokenOff'
      BY <2>3, OpenIfErased
    <2>5. CallOnBlock' => WholeBlock'
      <3> SUFFICES ASSUME CallOnBlock' PROVE WholeBlock'
        OBVIOUS
      <3>1. CallOnBlock /\ i = 0
        BY <1>1, <1>3, OneCall DEF CallOnBlock, CallOnCheck, IsCheck
      <3>2. \A k \in Slot : ~(k < i)
        BY <3>1, SlotWords
      <3> QED BY <1>1, <2>2, <3>1, <3>2 DEF TornInv, WholeBlock
    <2>6. CallOnCheck' => CheckAlone'
      BY <1>1, <2>3 DEF CheckAlone
    <2> QED BY <2>4, <2>5, <2>6 DEF TornInv
  <1> QED
    BY <1>1, <1>2, <1>3 DEF VarsInv, NoCall, Busy

(* What the block holds when the word of its request has become v.           *)
LEMMA WordOfBlock ==
  ASSUME CallTypeOK, TornInv, BlockInOneSector, CallOnBlock,
         at = "program", i < Len(req.data), NEW j, j = i, NEW v,
         mem' = [mem EXCEPT ![req.addr + i] = v]
  PROVE  /\ j \in Slot /\ j \in Nat /\ InBlock(req.addr + i) /\ mem[req.addr + i] = Bits
         /\ DataAt(req, WordOf(j)) = req.data[i + 1] /\ req.data[i + 1] \in Value
         /\ \A k \in Slot : read(k)' = IF k < j THEN DataAt(req, WordOf(k))
                                       ELSE IF k = j THEN v ELSE Erased
  <1>1. /\ Len(req.data) \in Nat /\ Len(req.data) <= MAX_VAR_NUM_FUTURE + 1
        /\ \A k \in Slot : read(k) = IF k < i THEN DataAt(req, WordOf(k)) ELSE Erased
    <2>1. WholeBlock /\ Len(req.data) \in Nat
      BY RequestTypes DEF TornInv, CallTypeOK, CallOnBlock
    <2> QED BY <2>1, Geometry DEF WholeBlock
  <1>2. req \in Request /\ j \in Nat /\ req.addr = POWERUP_VAR_ADDR /\ POWERUP_VAR_ADDR \in Nat
        /\ mem \in [Word -> Value]
    BY Geometry, RequestTypes DEF CallTypeOK, CallOnBlock
  <1>3. j \in Slot /\ InBlock(req.addr + i)
    BY <1>1, <1>2, Geometry DEF Slot, InBlock
  <1>4. /\ req.addr + i = WordOf(j) /\ WordOf(j) \in Word
        /\ DataAt(req, WordOf(j)) = req.data[i + 1] /\ req.data[i + 1] \in Value
    BY <1>2, <1>3, SlotWords, DataInSlot DEF WordOf
  <1>5. mem[req.addr + i] = Bits
    <2>1. read(j) = Erased
      BY <1>1, <1>2, <1>3
    <2> QED BY <1>4, <2>1 DEF read, Erased
  <1>6. ASSUME NEW k \in Slot
        PROVE  read(k)' = IF k < j THEN DataAt(req, WordOf(k)) ELSE IF k = j THEN v ELSE Erased
    <2>1. read(k)' = mem'[WordOf(k)] /\ WordOf(k) \in Word /\ k \in Nat
      BY SlotWords DEF read, WordOf
    <2>2. CASE k = j
      BY <1>2, <1>4, <2>1, <2>2
    <2>3. CASE k # j
      <3>1. WordOf(k) # WordOf(j)
        BY <1>2, <1>3, <2>1, <2>3 DEF WordOf
      <3>2. read(k)' = read(k)
        BY <1>2, <1>4, <2>1, <3>1 DEF read
      <3> QED BY <1>1, <2>3, <3>2
    <2> QED BY <2>2, <2>3
  <1> QED BY <1>2, <1>3, <1>4, <1>5, <1>6

(* A word of the variables is programmed, or the check word of a write,      *)
(* wholly or in part.  The number counts no less when it is half programmed, *)
(* and a check word half programmed is not the one that belongs there.       *)
LEMMA PartOfBlock ==
  ASSUME CallTypeOK, TornInv, BlockInOneSector, CallOnBlock,
         at = "program", i < Len(req.data), NEW v \in Value,
         mem[req.addr + i] \cap req.data[i + 1] \subseteq v,
         mem' = [mem EXCEPT ![req.addr + i] = v], WordChanged
  PROVE  BrokenOff'
  <1>1. PICK j : j = i
    OBVIOUS
  <1>2. PICK n : n = IF then = <<>> THEN Len(req.data) - 1 ELSE Len(req.data)
    OBVIOUS
  <1>3. PICK d : d = DataAt(req, WordOf(VAR_NUM_OF_VAR))
    OBVIOUS
  <1>4. PICK data : data = req.data[i + 1]
    OBVIOUS
  <1>5. PICK a : a = Number[read(VAR_NUM_OF_VAR)']
    OBVIOUS
  <1>6. /\ j \in Slot /\ j \in Nat /\ InBlock(req.addr + i) /\ mem[req.addr + i] = Bits
        /\ DataAt(req, WordOf(j)) = data /\ data \in Value /\ data \subseteq v
        /\ \A k \in Slot : read(k)' = IF k < j THEN DataAt(req, WordOf(k))
                                      ELSE IF k = j THEN v ELSE Erased
    <2>1. /\ j \in Slot /\ j \in Nat /\ InBlock(req.addr + i) /\ mem[req.addr + i] = Bits
          /\ DataAt(req, WordOf(j)) = data /\ data \in Value
      BY <1>1, <1>4, WordOfBlock
    <2>2. \A k \in Slot : read(k)' = IF k < j THEN DataAt(req, WordOf(k))
                                     ELSE IF k = j THEN v ELSE Erased
      BY <1>1, WordOfBlock
    <2>3. data \subseteq v
      BY <1>4, <2>1 DEF Value
    <2> QED BY <2>1, <2>2, <2>3
  <1>7. /\ n \in 1 .. MAX_VAR_NUM_FUTURE /\ n \in Nat /\ DOMAIN asks # {}
        /\ n >= 2 => Number[d] >= n
        /\ then = <<>> => DataAt(req, WordOf(n)) = check_func(WordsIn(req, n), n)
    BY <1>2, <1>3, Geometry DEF TornInv, WholeBlock
  <1>8. j <= n /\ (j = n => then = <<>> /\ LastWord)
    <2>1. Len(req.data) \in Nat
      BY RequestTypes DEF CallTypeOK
    <2> QED BY <1>1, <1>2, <1>6, <1>7, <2>1 DEF LastWord
  <1>9. d \in Value
    BY <1>3, RequestTypes DEF CallTypeOK, CallOnBlock
  <1>10. Number[d] \in Nat /\ Number[v] \in Nat
    BY <1>9, PowerupVarsAssumption
  <1>11. read(VAR_NUM_OF_VAR)' = IF j = 0 THEN Erased ELSE IF j = 1 THEN v ELSE d
    BY <1>3, <1>6, SlotWords
  <1>12. CASE j = 0
    BY <1>11, <1>12, OpenIfErased
  <1>13. CASE j # 0
    <2> SUFFICES ASSUME torn', a \in 1 .. MAX_VAR_NUM_FUTURE, read(a)' # Erased,
                        check_func([k \in 0 .. a - 1 |-> read(k)'], a) = read(a)'
                 PROVE  FALSE
      <3>1. a \in 1 .. MAX_VAR_NUM_FUTURE <=> a \in Slot \ {0}
        BY Geometry DEF Slot
      <3>2. (a \in Slot \ {0} => read(a)' = Erased) => CheckIsOpen'
        BY <1>5 DEF CheckIsOpen
      <3>3. verifyPowerupField' <=> /\ a \in 1 .. MAX_VAR_NUM_FUTURE
                                    /\ check_func([k \in 0 .. a - 1 |-> read(k)'], a) = read(a)'
        BY <1>5, VerifiedNext
      <3> QED BY <3>1, <3>2, <3>3 DEF BrokenOff
    <2>1. a \in Slot /\ a \in Nat /\ a >= 1
      BY Geometry DEF Slot
    <2>2. a >= j /\ (a = j => n = j)
      <3>1. CASE j = 1
        <4>1. d = data
          BY <1>3, <1>6, <3>1, SlotWords
        <4>2. Number[d] <= Number[v]
          BY <1>6, <1>9, <4>1, PowerupVarsAssumption
        <4>3. a = Number[v]
          BY <1>5, <1>11, <3>1
        <4>4. n >= 2 => a >= 2
          BY <1>7, <1>10, <4>2, <4>3
        <4> QED BY <1>7, <2>1, <3>1, <4>4
      <3>2. CASE j # 1
        <4>1. j >= 2 /\ n >= 2
          BY <1>6, <1>7, <1>8, <1>13, <3>2
        <4>2. a = Number[d]
          BY <1>5, <1>11, <1>13, <3>2
        <4>3. a >= n
          BY <1>7, <4>1, <4>2
        <4> QED BY <1>6, <1>7, <1>8, <2>1, <4>3
      <3> QED BY <3>1, <3>2
    <2>3. a = j
      <3>1. a > j => read(a)' = Erased
        BY <1>6, <2>1
      <3> QED BY <1>6, <2>1, <2>2, <3>1
    <2>4. a = n /\ then = <<>> /\ LastWord
      BY <1>8, <2>2, <2>3
    <2>5. read(a)' = v
      BY <1>6, <2>1, <2>3
    <2>6. v = data
      <3> DEFINE held == [k \in 0 .. a - 1 |-> read(k)']
      <3>1. \A k \in 0 .. a - 1 : k \in Slot /\ k < j
        BY <2>1, <2>3, Geometry DEF Slot
      <3>2. \A k \in 0 .. a - 1 : held[k] = WordsIn(req, a)[k]
        BY <1>6, <2>4, <3>1 DEF WordsIn
      <3>3. check_func(held, a) = v
        BY <2>5
      <3> HIDE DEF held
      <3>4. check_func(held, a) = check_func(WordsIn(req, a), a)
        BY <3>2, CheckSame
      <3>5. check_func(WordsIn(req, a), a) = data
        BY <1>6, <1>7, <2>3, <2>4
      <3> QED BY <3>3, <3>4, <3>5
    <2>7. mem'[req.addr + i] = mem[req.addr + i] \cap data
      <3>1. req.addr + i \in Word /\ mem \in [Word -> Value]
        <4>1. req.addr + i = WordOf(j)
          BY <1>1 DEF CallOnBlock, WordOf
        <4> QED BY <1>6, <4>1, SlotWords DEF CallTypeOK
      <3>2. mem'[req.addr + i] = v
        BY <3>1
      <3> QED BY <1>6, <2>6, <3>2 DEF Value
    <2>8. ~torn'
      BY <1>4, <1>6, <2>4, <2>7 DEF WordChanged
    <2> QED BY <2>8
  <1> QED BY <1>12, <1>13

(* The check word of its own request: the last word behind good variables,   *)
(* or alone in an erased block.                                              *)
LEMMA CheckWordOnly ==
  ASSUME CallTypeOK, BlockInOneSector, CallOnCheck, at = "program", i < Len(req.data), NEW v,
         mem' = [mem EXCEPT ![req.addr + i] = v]
  PROVE  /\ i = 0 /\ then = <<>> /\ Len(req.data) = 1 /\ req.addr + i = WordOf(VarNum)
         /\ InBlock(req.addr + i) /\ read(VarNum)' = v
         /\ \A k \in Slot : k # VarNum => read(k)' = read(k)
         /\ read(VAR_NUM_OF_VAR)' = read(VAR_NUM_OF_VAR)
         /\ Stored(VarNum)' = Stored(VarNum)
         /\ DOMAIN asks # {} => read(VAR_NUM_OF_VAR) = Erased
                                \/ Number[read(VAR_NUM_OF_VAR)] = VarNum
  <1>1. then = <<>> /\ req.addr = POWERUP_VAR_ADDR + VarNum /\ Len(req.data) = 1
    BY DEF CallOnCheck, IsCheck
  <1>2. i = 0 /\ mem \in [Word -> Value]
    BY <1>1 DEF CallTypeOK
  <1>3. req.addr + i = WordOf(VarNum) /\ InBlock(req.addr + i)
    BY <1>1, <1>2, Geometry, PowerupVarsAssumption DEF WordOf, InBlock
  <1>4. \A k \in Slot : k # VarNum => read(k)' = read(k)
    <2> SUFFICES ASSUME NEW k \in Slot, k # VarNum PROVE mem'[WordOf(k)] = mem[WordOf(k)]
      BY DEF read, WordOf
    <2>1. WordOf(k) # req.addr + i /\ WordOf(k) \in Word
      BY <1>3, SlotWords, Geometry
    <2> QED BY <1>2, <2>1
  <1>5. read(VarNum)' = v
    BY <1>2, <1>3, SlotWords DEF read, WordOf
  <1>6. VAR_NUM_OF_VAR # VarNum /\ read(VAR_NUM_OF_VAR)' = read(VAR_NUM_OF_VAR)
    BY <1>4, SlotWords, Geometry
  <1>7. Stored(VarNum)' = Stored(VarNum)
    <2>1. \A k \in 0 .. VarNum - 1 : k \in Slot /\ k # VarNum
      BY PowerupVarsAssumption DEF Slot
    <2>2. \A k \in 0 .. VarNum - 1 : read(k)' = read(k)
      BY <1>4, <2>1
    <2> QED BY <2>2 DEF Stored
  <1>8. ASSUME DOMAIN asks # {}
        PROVE  read(VAR_NUM_OF_VAR) = Erased \/ Number[read(VAR_NUM_OF_VAR)] = VarNum
    <2>1. AsksNumber /\ read(VAR_NUM_OF_VAR) \in {asks[VAR_NUM_OF_VAR], Erased}
      BY <1>8 DEF CallOnCheck, AsksNumber
    <2> QED BY <2>1, PowerupVarsAssumption DEF AsksNumber
  <1> QED BY <1>1, <1>2, <1>3, <1>4, <1>5, <1>6, <1>7, <1>8

LEMMA PartOfCheck ==
  ASSUME CallTypeOK, TornInv, BlockInOneSector, CallOnCheck,
         at = "program", i < Len(req.data), NEW v \in Value,
         v \subseteq mem[req.addr + i],
         mem' = [mem EXCEPT ![req.addr + i] = v], WordChanged
  PROVE  BrokenOff'
  <1>1. PICK data : data = req.data[1]
    OBVIOUS
  <1>2. CheckAlone /\ i = 0 /\ then = <<>> /\ Len(req.data) = 1
        /\ InBlock(req.addr + i) /\ req.addr + i = WordOf(VarNum)
        /\ read(VarNum)' = v
    BY CheckWordOnly DEF TornInv
  <1>3. read(VAR_NUM_OF_VAR)' = read(VAR_NUM_OF_VAR) /\ Stored(VarNum)' = Stored(VarNum)
    BY CheckWordOnly
  <1>4. CASE read(VAR_NUM_OF_VAR) = Erased
    BY <1>3, <1>4, OpenIfErased
  <1>5. CASE read(VAR_NUM_OF_VAR) # Erased
    <2>1. DOMAIN asks # {} /\ data = check_func(Stored(VarNum), VarNum)
      BY <1>1, <1>2, <1>5 DEF CheckAlone
    <2>2. Number[read(VAR_NUM_OF_VAR)'] = VarNum
      BY <1>3, <1>5, <2>1, CheckWordOnly
    <2> SUFFICES ASSUME torn', ~muddled', verifyPowerupField' PROVE FALSE
      BY DEF BrokenOff
    <2>3. v = data
      <3>1. check_func([k \in 0 .. VarNum - 1 |-> read(k)'], VarNum) = read(VarNum)'
        BY <2>2, VerifiedNext
      <3>2. Stored(VarNum)' = [k \in 0 .. VarNum - 1 |-> read(k)']
        BY DEF Stored
      <3> QED BY <1>2, <1>3, <2>1, <3>1, <3>2
    <2>4. LastWord
      BY <1>2, <2>1 DEF LastWord
    <2>5. mem'[req.addr + i] = mem[req.addr + i] \cap data
      <3>1. req.addr + i \in Word /\ mem \in [Word -> Value]
        BY <1>2, SlotWords DEF CallTypeOK
      <3>2. mem'[req.addr + i] = v
        BY <3>1
      <3> QED BY <2>3, <3>2
    <2>6. ~torn'
      <3>1. req.data[i + 1] = data
        BY <1>1, <1>2
      <3> QED BY <1>2, <2>4, <2>5, <3>1 DEF WordChanged
    <2> QED BY <2>6
  <1> QED BY <1>4, <1>5

LEMMA PartTorn ==
  ASSUME CallTypeOK, VarsInv, TornInv, BlockInOneSector,
         at = "program", i < Len(req.data), NEW v \in Value,
         mem[req.addr + i] \cap req.data[i + 1] \subseteq v, v \subseteq mem[req.addr + i],
         mem' = [mem EXCEPT ![req.addr + i] = v], WordChanged
  PROVE  BrokenOff'
  <1>1. CASE CallElsewhere
    <2>1. req.addr + i \in Covered(req) /\ req.addr + i \in Int /\ mem \in [Word -> Value]
      BY RequestTypes DEF CallTypeOK, Covered
    <2>2. SectorOf(req.addr + i) # Home /\ ~InBlock(req.addr + i)
      BY <1>1, <2>1, SlotWords DEF CallElsewhere, Elsewhere
    <2>3. \A k \in Slot : mem'[WordOf(k)] = mem[WordOf(k)]
      <3> TAKE k \in Slot
      <3>1. WordOf(k) \in Word /\ WordOf(k) # req.addr + i
        BY <2>2, SlotWords
      <3> QED BY <2>1, <3>1
    <2>4. torn' = torn /\ muddled' = muddled
      BY <2>2 DEF WordChanged
    <2> QED BY <2>3, <2>4, SameBlock DEF TornInv
  <1>2. CASE CallOnBlock
    BY <1>2, PartOfBlock
  <1>3. CASE CallOnCheck
    BY <1>3, PartOfCheck
  <1> QED
    BY <1>1, <1>2, <1>3 DEF VarsInv, NoCall, Busy

LEMMA ProgramTorn ==
  ASSUME CallTypeOK, VarsInv, TornInv, BlockInOneSector, BlockProgrammed
  PROVE  TornInv'
  <1>1. PICK v : v = mem[req.addr + i] \cap req.data[i + 1]
    OBVIOUS
  <1>2. /\ at = "program" /\ i < Len(req.data) /\ i' = i + 1
        /\ mem' = [mem EXCEPT ![req.addr + i] = v]
        /\ WordChanged
        /\ UNCHANGED <<at, req, marked, then, asks>>
    BY <1>1 DEF BlockProgrammed, ProgramWord
  <1>3. v \in Value
    <2>1. i + 1 \in 1 .. Len(req.data) /\ req.data \in Seq(Value)
      BY <1>2, RequestTypes DEF CallTypeOK
    <2>2. req.data[i + 1] \in Value
      BY <2>1
    <2> QED BY <1>1, <2>2 DEF Value
  <1>4. BrokenOff'
    BY <1>1, <1>2, <1>3, PartTorn
  <1>5. CallOnBlock' => WholeBlock'
    <2> SUFFICES ASSUME CallOnBlock' PROVE WholeBlock'
      OBVIOUS
    <2>1. CallOnBlock
      <3>1. ~CallElsewhere /\ ~CallOnCheck
        BY <1>2, AtHome, Geometry DEF CallOnBlock, CallElsewhere, Elsewhere, CallOnCheck, IsCheck
      <3> QED BY <1>2, <3>1 DEF VarsInv, NoCall, Busy
    <2>2. PICK j : j = i
      OBVIOUS
    <2>3. /\ j \in Slot /\ j \in Nat /\ mem[req.addr + i] = Bits
          /\ DataAt(req, WordOf(j)) = req.data[i + 1] /\ req.data[i + 1] \in Value
          /\ \A k \in Slot : read(k)' = IF k < j THEN DataAt(req, WordOf(k))
                                        ELSE IF k = j THEN v ELSE Erased
      BY <1>2, <2>1, <2>2, WordOfBlock
    <2>4. v = DataAt(req, WordOf(j))
      BY <1>1, <2>3 DEF Value
    <2>5. \A k \in Slot : read(k)' = IF k < j + 1 THEN DataAt(req, WordOf(k)) ELSE Erased
      <3> TAKE k \in Slot
      <3>1. k \in Nat /\ (k < j + 1 <=> k < j \/ k = j)
        BY <2>3, SlotWords
      <3> QED BY <2>3, <2>4, <3>1
    <2>6. i' = j + 1
      BY <1>2, <2>2
    <2> QED BY <1>2, <2>1, <2>5, <2>6 DEF TornInv, WholeBlock
  <1>6. CallOnCheck' => CheckAlone'
    <2> SUFFICES ASSUME CallOnCheck' PROVE CheckAlone'
      OBVIOUS
    <2>1. CallOnCheck
      <3>1. ~CallElsewhere /\ ~CallOnBlock
        BY <1>2, AtHome, Geometry DEF CallOnBlock, CallElsewhere, Elsewhere, CallOnCheck, IsCheck
      <3> QED BY <1>2, <3>1 DEF VarsInv, NoCall, Busy
    <2>2. read(VAR_NUM_OF_VAR)' = read(VAR_NUM_OF_VAR) /\ Stored(VarNum)' = Stored(VarNum)
      BY <1>2, <2>1, CheckWordOnly
    <2> QED BY <1>2, <2>1, <2>2 DEF TornInv, CheckAlone
  <1> QED BY <1>4, <1>5, <1>6 DEF TornInv

(* An operation on the flash that is cut off or fails. *)
LEMMA CutTorn ==
  ASSUME CallTypeOK, VarsInv, TornInv, BlockInOneSector, CutOff, BlockCutOff
  PROVE  BrokenOff'
  <1> DEFINE lost == mem' # mem /\ SectorOf(req.addr) = Home
  <1>1. i < Len(req.data) => req.addr + i \in Word
    <2>1. /\ i \in Nat /\ req.addr \in Nat /\ Len(req.data) \in Nat
          /\ req.addr + Len(req.data) <= NWords
      BY RequestTypes DEF CallTypeOK
    <2> QED BY <2>1, FlashAssumption DEF Word
  <1>2. CASE at = "program" /\ i < Len(req.data)
    <2>1. WordChanged
      BY <1>2 DEF BlockCutOff
    <2>2. CASE mem' = mem
      <3>1. PICK v : v = mem[req.addr + i]
        OBVIOUS
      <3>2. req.addr + i \in Word /\ mem \in [Word -> Value]
        BY <1>1, <1>2 DEF CallTypeOK
      <3>3. v \in Value /\ mem' = [mem EXCEPT ![req.addr + i] = v]
        BY <2>2, <3>1, <3>2
      <3> QED BY <1>2, <2>1, <3>1, <3>3, PartTorn
    <2>3. CASE PartlyProgrammed
      <3>1. PICK v \in SUBSET mem[req.addr + i] :
               /\ mem[req.addr + i] \cap req.data[i + 1] \subseteq v
               /\ mem' = [mem EXCEPT ![req.addr + i] = v]
        BY <2>3 DEF PartlyProgrammed
      <3>2. req.addr + i \in Word /\ mem \in [Word -> Value]
        BY <1>1, <1>2 DEF CallTypeOK
      <3>3. v \in Value /\ v \subseteq mem[req.addr + i]
        BY <3>1, <3>2 DEF Value
      <3> QED BY <1>2, <2>1, <3>1, <3>3, PartTorn
    <2> QED BY <1>2, <2>2, <2>3 DEF CutOff
  <1>3. CASE ~(at = "program" /\ i < Len(req.data))
    <2>1. torn' = (torn \/ lost) /\ muddled' = (muddled \/ lost)
      BY <1>3 DEF BlockCutOff
    <2>2. CASE lost
      BY <2>1, <2>2 DEF BrokenOff
    <2>3. CASE ~lost
      <3>1. \A k \in Slot : mem'[WordOf(k)] = mem[WordOf(k)]
        <4>1. CASE mem' = mem
          BY <4>1
        <4>2. CASE mem' # mem
          <5>1. PartlyErased /\ SectorOf(req.addr) # Home
            BY <1>3, <2>3, <4>2 DEF CutOff
          <5> SUFFICES ASSUME NEW k \in Slot PROVE mem'[WordOf(k)] = mem[WordOf(k)]
            OBVIOUS
          <5>2. WordOf(k) \in Word /\ WordOf(k) \notin WordsOf(SectorOf(req.addr))
            BY <5>1, SlotWords DEF WordsOf
          <5> QED BY <5>1, <5>2 DEF PartlyErased
        <4> QED BY <4>1, <4>2
      <3>2. torn' = torn /\ muddled' = muddled
        BY <2>1, <2>3 DEF CallTypeOK
      <3> QED BY <3>1, <3>2, SameBlock DEF TornInv
    <2> QED BY <2>2, <2>3
  <1> QED BY <1>2, <1>3

LEMMA FailTorn ==
  ASSUME CallTypeOK, VarsInv, TornInv, BlockInOneSector, DeviceFails
  PROVE  TornInv'
  <1>1. at' = "idle" /\ marked' = {} /\ CutOff /\ BlockCutOff /\ DOMAIN asks' = {}
    BY DEF DeviceFails, EraseFails, ProgramFails, Fail, RESET_SECTOR_ERASE_MARK, NoAsk
  <1>2. ~CallOnBlock' /\ CheckAlone'
    BY <1>1 DEF CallOnBlock, CheckAlone
  <1>3. BrokenOff'
    BY <1>1, CutTorn
  <1> QED BY <1>2, <1>3 DEF TornInv

LEMMA LostTorn ==
  ASSUME CallTypeOK, VarsInv, TornInv, BlockInOneSector, RamIsLost
  PROVE  TornInv'
  <1>1. at' = "idle" /\ then' = <<>> /\ CutOff /\ BlockCutOff
    BY DEF RamIsLost
  <1>2. ~CallOnBlock' /\ ~CallOnCheck'
    BY <1>1 DEF CallOnBlock, CallOnCheck
  <1>3. BrokenOff'
    BY <1>1, CutTorn
  <1> QED BY <1>2, <1>3 DEF TornInv

(* The first of initInApp's requests returns: the words it has programmed    *)
(* are those that the check word was made from.                              *)
LEMMA WrittenTorn ==
  ASSUME CallTypeOK, VarsInv, TornInv, BlockInOneSector, Written
  PROVE  TornInv'
  <1>1. /\ at = "program" /\ i = Len(req.data) /\ at' = "idle" /\ mem' = mem /\ torn' = torn
        /\ muddled' = muddled /\ then' = then /\ (then # <<>> => asks' = asks)
    BY DEF Written, Return
  <1>2. ~CallOnBlock'
    BY <1>1 DEF CallOnBlock
  <1>3. CallOnCheck' => CheckAlone'
    <2>1. CASE then = <<>>
      BY <1>1, <2>1 DEF CallOnCheck
    <2>2. CASE then # <<>>
      <3>1. CallOnBlock
        BY <1>1, <2>2 DEF VarsInv, NoCall, CallElsewhere, CallOnCheck, Busy
      <3>2. /\ DOMAIN asks # {} /\ Len(req.data) = VarNum
            /\ then[1].data[1] = check_func(WordsIn(req, VarNum), VarNum)
            /\ \A k \in Slot : read(k) = IF k < VarNum THEN DataAt(req, WordOf(k)) ELSE Erased
        BY <1>1, <2>2, <3>1 DEF TornInv, WholeBlock
      <3>3. \A k \in 0 .. VarNum - 1 : k \in Slot /\ k < VarNum
        BY PowerupVarsAssumption DEF Slot
      <3>4. \A k \in 0 .. VarNum - 1 : WordsIn(req, VarNum)[k] = Stored(VarNum)[k]
        BY <3>2, <3>3 DEF WordsIn, Stored
      <3>5. then[1].data[1] = check_func(Stored(VarNum), VarNum)
        BY <3>2, <3>4, CheckSame
      <3>6. Stored(VarNum)' = Stored(VarNum)
        BY <1>1 DEF Stored, read
      <3> QED BY <1>1, <2>2, <3>2, <3>5, <3>6 DEF CheckAlone
    <2> QED BY <2>1, <2>2
  <1>4. BrokenOff'
    BY <1>1, SameBlock DEF TornInv
  <1> QED BY <1>2, <1>3, <1>4 DEF TornInv

LEMMA TornStep ==
  ASSUME CallTypeOK, VarsInv, TornInv, BlockInOneSector, HostLeavesTheBlock, NumberIsKept,
         [BootNext]_allVars
  PROVE  TornInv'
  <1>1. CASE UNCHANGED <<vars, pvfVars>>
    <2>1. /\ mem' = mem /\ at' = at /\ i' = i /\ req' = req /\ marked' = marked
          /\ then' = then /\ asks' = asks /\ meant' = meant /\ torn' = torn /\ muddled' = muddled
      BY <1>1 DEF vars, pvfVars
    <2>2. BrokenOff'
      BY <2>1, SameBlock DEF TornInv
    <2>3. CallOnBlock' => WholeBlock'
      BY <2>1 DEF TornInv, CallOnBlock, WholeBlock, AsksNumber, NotAskedFor, read
    <2>4. Stored(VarNum)' = Stored(VarNum)
      BY <2>1 DEF Stored, read
    <2>5. CallOnCheck' => CheckAlone'
      BY <2>1, <2>4 DEF TornInv, CallOnCheck, CheckAlone, AsksNumber, Home, read
    <2> QED BY <2>2, <2>3, <2>5 DEF TornInv
  <1>2. ASSUME ~Busy, NEW idx \in Var, NEW val \in Value, write(idx, val), idx # VAR_NUM_OF_VAR
        PROVE  TornInv'
    <2>1. ASSUME NEW r \in Request, BeginCall(r, <<>>, [k \in {idx} |-> val]),
                 r.addr = POWERUP_VAR_ADDR,
                 idx < getSuitVarNum, Len(r.data) = getSuitVarNum + 1,
                 \A j \in 0 .. getSuitVarNum - 1 : r.data[j + 1] = IF j = idx THEN val ELSE read(j),
                 r.data[getSuitVarNum + 1] =
                   check_func([j \in 0 .. getSuitVarNum - 1 |-> r.data[j + 1]], getSuitVarNum)
          PROVE  TornInv'
      BY <1>2, <2>1, WriteTorn
    <2> QED BY <1>1, <1>2, <2>1, WriteCall
  <1>3. CASE ~Busy /\ initInApp
    BY <1>1, <1>3, InitCall, InitTorn
  <1>4. ASSUME ~Busy, NEW r \in Requests, BeginCall(r, <<>>, HostAsks(r)) PROVE TornInv'
    BY <1>4, HostTorn DEF HostLeavesTheBlock
  <1>5. CASE FlashStep
    BY <1>5, NextTorn, EraseTorn, ProgramTorn, WrittenTorn DEF FlashStep
  <1>6. CASE DeviceFails \/ RamIsLost
    BY <1>6, FailTorn, LostTorn
  <1> QED
    BY <1>1, <1>2, <1>3, <1>4, <1>5, <1>6, StepKinds

LEMMA InitTornInv ==
  ASSUME BootInit
  PROVE  TornInv
  BY DEF BootInit, TornInv, BrokenOff, CallOnBlock, CallOnCheck

(* Wherever power, the program or the device breaks off a change of the      *)
(* block, in the middle of programming a word, too, the check fails until a  *)
(* later call is complete, on boards of any version; but for the erased word *)
(* where that happens to be the exclusive or, and for what an erase that was *)
(* cut off has left.                                                         *)
THEOREM TornIsSeenAlways ==
  ASSUME BlockInOneSector, HostLeavesTheBlock, NumberIsKept
  PROVE  BootSpec => []TornIsSeen
  <1>1. BootIInv => CallTypeOK
    BY DEF BootIInv, BootTypeOK, CallTypeOK
  <1>2. BootInit => VarsInv /\ TornInv
    BY InitVarsInv, InitTornInv
  <1>3. BootIInv /\ VarsInv /\ TornInv /\ [BootNext]_allVars => VarsInv' /\ TornInv'
    BY <1>1, VarsStep, TornStep
  <1>4. BootIInv /\ TornInv => TornIsSeen
    BY <1>1, OpenIsSeen
  <1> QED
    BY <1>2, <1>3, <1>4, Invariant, PTL DEF BootSpec
=============================================================================
