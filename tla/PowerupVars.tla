----------------------------- MODULE PowerupVars -----------------------------
(***************************************************************************)
(* HAL/powerupOption.cpp: the power-up variables, a block of words in the  *)
(* last sector of the flash: the boot parameter, the number of variables,  *)
(* the others, and behind them the exclusive or of all.  A change erases   *)
(* and rewrites the block in place, so a power loss leaves it torn, or in  *)
(* pieces when it cuts off the erase itself.                               *)
(*                                                                         *)
(* Built on Flash: a call makes requests of it, and every access to the    *)
(* flash is a step.  A number is the word that stands for it (Number).     *)
(***************************************************************************)
EXTENDS Flash, FiniteSets

CONSTANTS POWERUP_VAR_ADDR,      \* the first word of the block
          VarNum,                \* variables this program knows
          MAX_VAR_NUM_FUTURE,    \* no block holds more
          DEFAULT_POWERUP_VAL,   \* for variables an older block does not have
          Number                 \* the number that a word stands for

VAR_BOOT_OPTI == 0
VAR_NUM_OF_VAR == 1
Var == 0 .. VarNum - 1
Erased == Bits
WordOf(k) == POWERUP_VAR_ADDR + k
Home == SectorOf(POWERUP_VAR_ADDR)

ASSUME PowerupVarsAssumption ==
  /\ POWERUP_VAR_ADDR \in Nat
  /\ VarNum \in Nat /\ VarNum >= 2
  /\ MAX_VAR_NUM_FUTURE \in Nat /\ VarNum <= MAX_VAR_NUM_FUTURE
  /\ POWERUP_VAR_ADDR + MAX_VAR_NUM_FUTURE < NWords
  /\ DEFAULT_POWERUP_VAL \in [Var -> Value]
  /\ Number \in [Value -> Nat]
  /\ \A u, v \in Value : u \subseteq v => Number[u] <= Number[v]
  /\ Number[Erased] > MAX_VAR_NUM_FUTURE
  /\ Number[DEFAULT_POWERUP_VAL[VAR_NUM_OF_VAR]] = VarNum

VARIABLES
  then,   \* the requests that the running call has still to make
  asks,   \* history: the variables the running call is to change, and to what
  meant,  \* history: what each variable may be, by all that was ever asked
  torn,   \* history: the block was changed, and not wholly written since
  muddled \* history: an erase of the block was cut off, or bits of it are
          \* cleared that were to be set, and it was not wholly erased since

pvfVars == <<then, asks, meant, torn, muddled>>

NoAsk == [k \in {} |-> Erased]
NoRequest == [addr |-> POWERUP_VAR_ADDR, data |-> <<>>, own |-> TRUE]
Busy == at # "idle" \/ then # <<>>

-----------------------------------------------------------------------------
(* Reading. *)

read(k) == mem[WordOf(k)]

(* The exclusive or of the first n words. *)
check_func(words, n) ==
  {b \in Bits : Cardinality({k \in 0 .. n - 1 : b \in words[k]}) % 2 = 1}

getSuitVarNum ==
  LET actualVarNum == Number[read(VAR_NUM_OF_VAR)]
  IN  IF actualVarNum > MAX_VAR_NUM_FUTURE THEN VarNum ELSE actualVarNum

Stored(n) == [k \in 0 .. n - 1 |-> read(k)]

(* Mutant of verifyPowerupField: an erased number is not excluded. *)
verifySuit == check_func(Stored(getSuitVarNum), getSuitVarNum) = read(getSuitVarNum)

verifyPowerupField ==
  LET actualVarNum == Number[read(VAR_NUM_OF_VAR)]
  IN  /\ actualVarNum \in 1 .. MAX_VAR_NUM_FUTURE
      /\ check_func(Stored(actualVarNum), actualVarNum) = read(actualVarNum)

-----------------------------------------------------------------------------
(* Writing. *)

(* Mutant of ShadowOf: the shadow is not read from the flash first. *)
ShadowOfDefaults(n) ==
  [k \in 0 .. n - 1 |-> IF k \in Var THEN DEFAULT_POWERUP_VAL[k] ELSE read(k)]

(* powerupVarShadow: what is stored now. *)
ShadowOf(n) == Stored(n)

(* The first n words as data of a request. *)
DataOf(words, n) == [j \in 1 .. n |-> words[j - 1]]

(* A call begins, with the first of its requests. *)
BeginCall(first, rest, changes) ==
  /\ Begin(first)
  /\ then' = rest
  /\ asks' = changes
  /\ meant' = [k \in Var |-> meant[k] \cup {changes[j] : j \in DOMAIN changes \cap {k}}]
  /\ UNCHANGED <<torn, muddled>>

(* The call returns without writing: the index is beyond the block, nothing  *)
(* would change, or the driver refuses the length (its result is ignored).   *)
NothingToWrite(idx, val) ==
  \/ idx >= getSuitVarNum
  \/ read(idx) = val /\ verifyPowerupField
  \/ getSuitVarNum + 1 > MaxLen

write(idx, val) ==
  LET n == getSuitVarNum
      powerupVarShadow == [ShadowOf(n) EXCEPT ![idx] = val]
      block == Append(DataOf(powerupVarShadow, n), check_func(powerupVarShadow, n))
  IN  IF NothingToWrite(idx, val) THEN UNCHANGED <<vars, pvfVars>>
      ELSE BeginCall([addr |-> POWERUP_VAR_ADDR, data |-> block, own |-> TRUE],
                     <<>>, [k \in {idx} |-> val])

(* The variables of an older block are kept and the new ones get defaults.   *)
(* Two writes: the variables, then the check word.  The mark of the sector   *)
(* is forgotten after the second.                                            *)
initInApp ==
  LET n == getSuitVarNum
      new == {k \in Var : k >= n} \cup {VAR_NUM_OF_VAR}
      shadow == [k \in Var |-> IF k \in new THEN DEFAULT_POWERUP_VAL[k] ELSE read(k)]
      variables == [addr |-> POWERUP_VAR_ADDR, data |-> DataOf(shadow, VarNum),
                    own |-> FALSE]
      check == [addr |-> POWERUP_VAR_ADDR + VarNum,
                data |-> <<check_func(shadow, VarNum)>>, own |-> TRUE]
  IN  IF verifyPowerupField /\ n = VarNum THEN UNCHANGED <<vars, pvfVars>>
      ELSE BeginCall(variables, <<check>>, [k \in new |-> DEFAULT_POWERUP_VAL[k]])

-----------------------------------------------------------------------------
(* The steps of the flash under a call. *)

InBlock(w) == w \in POWERUP_VAR_ADDR .. POWERUP_VAR_ADDR + MAX_VAR_NUM_FUTURE

(* The last word of a call of which no access failed. *)
LastWord == then = <<>> /\ i + 1 = Len(req.data) /\ DOMAIN asks # {}

(* The next write of the call. *)
WriteNext ==
  /\ at = "idle" /\ then # <<>>
  /\ Begin(Head(then))
  /\ then' = Tail(then)
  /\ UNCHANGED <<asks, meant, torn, muddled>>

BlockErased ==
  /\ Erase
  /\ torn' = (torn \/ SectorOf(req.addr) = Home)
  /\ muddled' = (muddled /\ SectorOf(req.addr) # Home)
  /\ UNCHANGED <<then, asks, meant>>

(* The histories when a word is programmed, wholly or in part. *)
WordChanged ==
  LET w == req.addr + i
      data == req.data[i + 1]
  IN  IF InBlock(w)
      THEN /\ torn' = (~(LastWord /\ mem'[w] = mem[w] \cap data) /\ (torn \/ mem' # mem))
           /\ muddled' = (muddled \/ ~(data \subseteq mem'[w]))
      ELSE UNCHANGED <<torn, muddled>>

BlockProgrammed ==
  /\ ProgramWord
  /\ WordChanged
  /\ UNCHANGED <<then, asks, meant>>

(* The histories when an operation is cut off or fails.  A variable may be    *)
(* anything from then on if its word was part of what was changed.           *)
BlockCutOff ==
  /\ meant' = [k \in Var |-> IF mem' # mem /\ WordOf(k) \in UnderWay THEN Value
                              ELSE meant[k]]
  /\ IF at = "program" /\ i < Len(req.data) THEN WordChanged
     ELSE LET lost == mem' # mem /\ SectorOf(req.addr) = Home
          IN  torn' = (torn \/ lost) /\ muddled' = (muddled \/ lost)

(* The call goes on as if nothing had happened; it will have achieved nothing. *)
DeviceFails ==
  /\ EraseFails \/ ProgramFails
  /\ BlockCutOff
  /\ asks' = NoAsk
  /\ UNCHANGED then

(* A write returns.  If it is the last of its call, what was asked for holds. *)
Written ==
  /\ Return
  /\ IF then = <<>>
     THEN /\ meant' = [k \in Var |-> IF k \in DOMAIN asks THEN {asks[k]} ELSE meant[k]]
          /\ asks' = NoAsk
     ELSE UNCHANGED <<asks, meant>>
  /\ UNCHANGED <<then, torn, muddled>>

FlashStep == WriteNext \/ BlockErased \/ BlockProgrammed \/ Written

(* RAM is lost, in the middle of a call or not, and of an erase or a program  *)
(* or not (PowerLoss of Flash, which leaves the request of the call that was *)
(* cut off).                                                                 *)
RamIsLost ==
  /\ CutOff /\ BlockCutOff
  /\ at' = "idle" /\ req' = NoRequest /\ i' = 0
  /\ marked' = {}
  /\ acked' = [w \in Word |-> {}] /\ stale' = Word /\ failed' = FALSE
  /\ then' = <<>> /\ asks' = NoAsk
=============================================================================
