-------------------------------- MODULE Boot --------------------------------
(***************************************************************************)
(* udpBootLoader/User/main.cpp and iap.c: from power-up to the main loop   *)
(* or into the application, and back by a reset, over the power-up         *)
(* variables.  The boot parameter decides: it is kept in flash while all   *)
(* else is lost with power.  The application is external, but for its      *)
(* first call (User/main.cpp:33) and the variables it writes.              *)
(*                                                                         *)
(* main runs up to the next call of pvf in one step; no step of it is      *)
(* taken while such a call accesses the flash.                             *)
(***************************************************************************)
EXTENDS PowerupVars

CONSTANTS BOOT_PARAM_BL, BOOT_PARAM_APP, BOOT_PARAM_LOADING,
          FLASH_APP1_ADDR,   \* the word with the application's stack top
          StackTops,         \* the values that pass as a stack top
          AppAsks,           \* what the application writes: <<idx, val>>
          InitialMems,       \* the contents a board may start its life with
          MaxFaults          \* bound: power is lost, or an erase or a program
                             \* fails, so often, at any moment

BootParams == {BOOT_PARAM_BL, BOOT_PARAM_APP, BOOT_PARAM_LOADING}

ASSUME BootAssumption ==
  /\ BootParams \subseteq Value
  /\ FLASH_APP1_ADDR \in Word /\ StackTops \subseteq Value
  /\ AppAsks \subseteq Var \X Value
  /\ InitialMems \subseteq [Word -> Value]
  /\ MaxFaults \in Nat

VARIABLES
  pc,      \* where main is: see Pcs
  open,    \* the network adapter is open, and so is the socket
  dog,     \* the watchdog is running
  faults   \* how often power was lost or the flash failed

bootVars == <<pc, open, dog, faults>>
allVars == <<vars, pvfVars, bootVars>>

Pcs == {"reset", "net", "window", "load", "hung", "watchdog", "loop",
        "app", "tasks"}

BootInit ==
  /\ mem \in InitialMems
  /\ marked = {} /\ at = "idle" /\ i = 0
  /\ req = NoRequest
  /\ acked = [w \in Word |-> {}] /\ stale = Word /\ failed = FALSE
  /\ then = <<>> /\ asks = NoAsk /\ torn = FALSE /\ muddled = FALSE
  /\ meant = [k \in Var |-> IF k < getSuitVarNum THEN {read(k)} ELSE Value]
  /\ pc = "reset" /\ open = FALSE /\ dog = FALSE /\ faults = 0

(* main goes on, from one place to another. *)
At(here) == pc = here /\ ~Busy
GoesTo(there) == pc' = there

-----------------------------------------------------------------------------
(* main. *)

CheckBootParam ==
  /\ At("reset")
  /\ IF read(VAR_BOOT_OPTI) \notin BootParams
     THEN write(VAR_BOOT_OPTI, BOOT_PARAM_BL)
     ELSE UNCHANGED <<vars, pvfVars>>
  /\ GoesTo("net")
  /\ UNCHANGED <<open, dog, faults>>

(* The switch, the adapter and the socket.  doInit may fail; nobody looks,   *)
(* and the socket stays -1.                                                  *)
OpenNetwork(ok) ==
  /\ At("net")
  /\ open' = ok
  /\ GoesTo("window")
  /\ UNCHANGED <<vars, pvfVars, dog, faults>>

(* After 50 ms, the first runReceiver.  It installs the receive callback, so *)
(* only a datagram right behind that is seen (and any bytes at all without a *)
(* socket, for then it reads what lies before socketPool).  An emergency     *)
(* datagram keeps the board in the bootloader.                               *)
Emergency ==
  /\ At("window")
  /\ write(VAR_BOOT_OPTI, BOOT_PARAM_BL)
  /\ GoesTo("watchdog")
  /\ UNCHANGED <<open, dog, faults>>

(* Anything else, and nothing at all, leaves it to the boot parameter. *)
NoEmergency ==
  /\ At("window")
  /\ GoesTo(IF read(VAR_BOOT_OPTI) = BOOT_PARAM_APP THEN "load" ELSE "watchdog")
  /\ UNCHANGED <<vars, pvfVars, open, dog, faults>>

(* iap_load_app.  The application starts with RAM of its own: none of its    *)
(* erase marks is set.                                                       *)
JumpToApp ==
  /\ At("load") /\ mem[FLASH_APP1_ADDR] \in StackTops
  /\ RamIsLost
  /\ GoesTo("app")
  /\ UNCHANGED <<open, dog, faults>>

(* Mutant of SetBackToBl: the boot parameter is left as it is. *)
LeaveBootParam == UNCHANGED <<vars, pvfVars>>

SetBackToBl == write(VAR_BOOT_OPTI, BOOT_PARAM_BL)

(* while(is_printf_idel()) then waits for a console that is never busy.      *)
NoAppToLoad ==
  /\ At("load") /\ mem[FLASH_APP1_ADDR] \notin StackTops
  /\ SetBackToBl
  /\ GoesTo("hung")
  /\ UNCHANGED <<open, dog, faults>>

StartWatchDog ==
  /\ At("watchdog")
  /\ dog' = TRUE
  /\ GoesTo("loop")
  /\ UNCHANGED <<vars, pvfVars, open, faults>>

(* In the loop the host writes flash; it may write the block, too. *)
HostWrites(r) ==
  /\ At("loop") /\ open
  /\ BeginCall(r, <<>>, [k \in {k \in Var : POWERUP_VAR_ADDR + k \in Covered(r)} |->
                           r.data[POWERUP_VAR_ADDR + k - r.addr + 1]])
  /\ UNCHANGED bootVars

HostSaysGo ==
  /\ At("loop") /\ open
  /\ GoesTo("load")
  /\ UNCHANGED <<vars, pvfVars, open, dog, faults>>

-----------------------------------------------------------------------------
(* The application. *)

AppStarts ==
  /\ At("app")
  /\ initInApp
  /\ GoesTo("tasks")
  /\ UNCHANGED <<open, dog, faults>>

AppWrites(idx, val) ==
  /\ At("tasks")
  /\ write(idx, val)
  /\ UNCHANGED bootVars

-----------------------------------------------------------------------------
(* Resets and faults. *)

Restart ==
  /\ RamIsLost
  /\ pc' = "reset" /\ open' = FALSE /\ dog' = FALSE

AppResets == At("tasks") /\ Restart /\ UNCHANGED faults

PowerFails ==
  /\ faults < MaxFaults
  /\ Restart
  /\ faults' = faults + 1

FlashFails ==
  /\ faults < MaxFaults
  /\ DeviceFails
  /\ faults' = faults + 1
  /\ UNCHANGED <<pc, open, dog>>

(* The watchdog is not served where main hangs, and erasing a sector may     *)
(* take longer than its two seconds: the reset then cuts the erase off.      *)
WatchdogBites ==
  /\ dog
  /\ At("hung") \/ at = "erase"
  /\ Restart
  /\ UNCHANGED faults

(* Somebody switches a board off and on that does nothing or is not reached. *)
PowerCycle ==
  /\ \/ At("hung") /\ ~dog
     \/ At("loop") /\ ~open
  /\ Restart
  /\ UNCHANGED faults

Main ==
  \/ CheckBootParam
  \/ \E ok \in BOOLEAN : OpenNetwork(ok)
  \/ Emergency \/ NoEmergency
  \/ JumpToApp \/ NoAppToLoad
  \/ StartWatchDog
  \/ AppStarts

BootNext ==
  \/ Main
  \/ FlashStep /\ UNCHANGED bootVars
  \/ \E r \in Requests : HostWrites(r)
  \/ HostSaysGo
  \/ \E ask \in AppAsks : AppWrites(ask[1], ask[2])
  \/ FlashFails
  \/ AppResets \/ PowerFails \/ WatchdogBites \/ PowerCycle

BootSpec == BootInit /\ [][BootNext]_allVars

(* main and the flash go on, the watchdog bites, a dead board is switched    *)
(* off and on, and the adapter does not fail every time.                     *)
FairBootSpec ==
  /\ BootSpec
  /\ WF_allVars(Main)
  /\ WF_allVars(FlashStep /\ UNCHANGED bootVars)
  /\ WF_allVars(At("hung") /\ WatchdogBites)
  /\ WF_allVars(PowerCycle)
  /\ SF_allVars(OpenNetwork(TRUE))

-----------------------------------------------------------------------------
BootTypeOK ==
  /\ mem \in [Word -> Value]
  /\ marked \subseteq Sector
  /\ at \in {"idle", "erase", "program"}
  /\ req \in Request /\ i \in 0 .. Len(req.data)
  /\ stale \subseteq Word /\ failed \in BOOLEAN
  /\ then \in Seq(Request) /\ Len(then) <= 1
  /\ DOMAIN asks \subseteq Var /\ \A k \in DOMAIN asks : asks[k] \in Value
  /\ meant \in [Var -> SUBSET Value]
  /\ torn \in BOOLEAN /\ muddled \in BOOLEAN
  /\ pc \in Pcs /\ open \in BOOLEAN /\ dog \in BOOLEAN
  /\ faults \in 0 .. MaxFaults

(* An erase mark stands for a sector that this program has erased. *)
BootIInv == BootTypeOK /\ MarksHold

(* A power loss, a reset or a failing device at any moment leaves no value   *)
(* in a variable that nobody asked for: it is the old one, the new one, or   *)
(* erased.  In the middle of programming a word it costs that one variable;  *)
(* only an erase that is cut off in the middle costs them all, until they    *)
(* are written again: nothing is claimed of what the sector then holds.      *)
(* The boot parameter may come out as the AND of two, when the host wrote    *)
(* the sector before, but then as no valid parameter: so the application is  *)
(* not started from power-up unless that was asked for.                      *)
ValuesAreMeant ==
  \A k \in Var :
    \/ read(k) \in meant[k] \cup {Erased}
    \/ k = VAR_BOOT_OPTI /\ read(k) \notin BootParams

(* What keeps the values whole when the host leaves the sector of the block  *)
(* alone, the block lies in one sector, and only initInApp sets the number.  *)
BlockInOneSector ==
  \A j \in 0 .. MAX_VAR_NUM_FUTURE :
    SectorOf(POWERUP_VAR_ADDR + j) = Home /\ POWERUP_VAR_ADDR + j \notin Otp

Elsewhere(r) == SectorOf(r.addr) # Home /\ \A w \in Covered(r) : SectorOf(w) # Home

HostLeavesTheBlock == \A r \in Requests : Elsewhere(r)

NumberIsKept == \A ask \in AppAsks : ask[1] # VAR_NUM_OF_VAR

(* With n variables stored a write puts the check word behind them: into a   *)
(* variable of which nobody has asked anything since.                        *)
Suits(number) == IF Number[number] > MAX_VAR_NUM_FUTURE THEN VarNum ELSE Number[number]

NotAskedFor(n) == \A k \in Var \ {VAR_BOOT_OPTI} : k >= n => meant[k] = Value

AsksNumber ==
  /\ VAR_NUM_OF_VAR \in DOMAIN asks
  /\ asks[VAR_NUM_OF_VAR] = DEFAULT_POWERUP_VAL[VAR_NUM_OF_VAR]

(* Whatever call is under way, it brings into a variable only what was asked *)
(* for or was there before.  A request for the block finds the sector not    *)
(* marked, so it erases it first; the check word follows behind the words of *)
(* the variables, and may erase them when their request has failed.          *)
NoCall == ~Busy /\ DOMAIN asks = {} /\ Home \notin marked

CallElsewhere ==
  /\ at # "idle" /\ then = <<>> /\ DOMAIN asks = {} /\ Home \notin marked
  /\ Elsewhere(req)

IsCheck(r) == r.addr = POWERUP_VAR_ADDR + VarNum /\ Len(r.data) = 1 /\ r.own

CallOnBlock ==
  /\ at # "idle" /\ req.addr = POWERUP_VAR_ADDR /\ (at = "erase" => i = 0)
  /\ (then = <<>> /\ req.own) \/ (Len(then) = 1 /\ IsCheck(then[1]) /\ AsksNumber)
  /\ WordOf(VAR_NUM_OF_VAR) \in Covered(req)
  /\ LET n == Suits(DataAt(req, WordOf(VAR_NUM_OF_VAR)))
     IN  NotAskedFor(n) /\ \A k \in DOMAIN asks : k < n \/ k = VAR_BOOT_OPTI
  /\ \A k \in DOMAIN asks : WordOf(k) \in Covered(req) /\ DataAt(req, WordOf(k)) = asks[k]
  /\ \A k \in Var : WordOf(k) \in Covered(req) =>
       /\ DataAt(req, WordOf(k)) \in meant[k] \cup {Erased}
       /\ at = "program" => read(k) = IF k < i THEN DataAt(req, WordOf(k)) ELSE Erased

CallOnCheck ==
  /\ \/ at = "idle" /\ Len(then) = 1 /\ IsCheck(then[1])
     \/ at # "idle" /\ then = <<>> /\ IsCheck(req)
  /\ \A k \in DOMAIN asks : AsksNumber /\ read(k) \in {asks[k], Erased}

VarsInv ==
  /\ \A k \in Var : read(k) \in meant[k] \cup {Erased}
  /\ \A k \in DOMAIN asks : asks[k] \in meant[k]
  /\ NotAskedFor(getSuitVarNum)
  /\ NoCall \/ CallElsewhere \/ CallOnBlock \/ CallOnCheck

(* At whatever point a change of the block breaks off, in the middle of      *)
(* programming a word or between two operations, the check fails, and goes   *)
(* on failing over resets until a later call is complete.  It passes only    *)
(* where the erased word, which is then in the place of the check word,      *)
(* happens to be the exclusive or of the words, as many as the block counts. *)
(* Of a block that an erase which was cut off has left nothing is claimed.   *)
TornIsSeen ==
  torn /\ ~muddled /\ verifyPowerupField =>
    Number[read(VAR_NUM_OF_VAR)] = getSuitVarNum /\ read(getSuitVarNum) = Erased

(* What that rests on.  While the block is changed, the word behind as many  *)
(* variables as it counts, that is of its check word, is erased, or half     *)
(* programmed and not the exclusive or.                                      *)
Slot == 0 .. MAX_VAR_NUM_FUTURE

CheckIsOpen ==
  Number[read(VAR_NUM_OF_VAR)] \in Slot \ {0} => read(Number[read(VAR_NUM_OF_VAR)]) = Erased

BrokenOff == torn /\ ~muddled => CheckIsOpen \/ ~verifyPowerupField

(* The request for the variables: as many words as it counts, and the check  *)
(* word where no second request follows; what is not programmed is erased.   *)
WordsIn(r, n) == [k \in 0 .. n - 1 |-> DataAt(r, WordOf(k))]

WholeBlock ==
  LET n == IF then = <<>> THEN Len(req.data) - 1 ELSE Len(req.data)
      check == IF then = <<>> THEN DataAt(req, WordOf(n)) ELSE then[1].data[1]
  IN  /\ n \in 1 .. MAX_VAR_NUM_FUTURE /\ DOMAIN asks # {}
      /\ n >= 2 => Number[DataAt(req, WordOf(VAR_NUM_OF_VAR))] >= n
      /\ then # <<>> => n = VarNum
      /\ check = check_func(WordsIn(req, n), n)
      /\ at = "program" =>
           \A k \in Slot : read(k) = IF k < i THEN DataAt(req, WordOf(k)) ELSE Erased

(* The check word follows the variables, or an erased block if they failed.  *)
CheckAlone ==
  LET check == IF then = <<>> THEN req.data[1] ELSE then[1].data[1]
  IN  IF DOMAIN asks = {}
      THEN /\ at = "idle" => Home \notin marked
           /\ at = "program" => read(VAR_NUM_OF_VAR) = Erased
      ELSE \/ read(VAR_NUM_OF_VAR) = Erased
           \/ check = check_func(Stored(VarNum), VarNum)

TornInv ==
  /\ BrokenOff
  /\ CallOnBlock => WholeBlock
  /\ CallOnCheck => CheckAlone

(* Boot parameter and number may be left so that no program gets out of it:  *)
(* there is no application to start, and write refuses to change anything in *)
(* a block of no variables or of more than one request takes.                *)
Stranded ==
  /\ read(VAR_BOOT_OPTI) = BOOT_PARAM_APP /\ mem[FLASH_APP1_ADDR] \notin StackTops
  /\ getSuitVarNum = 0 \/ getSuitVarNum + 1 > MaxLen

(* Whatever is lost or fails, the board is again and again in a bootloader   *)
(* that the host reaches, or in the application: an application that is not  *)
(* there is given up for good at the latest when somebody has switched the   *)
(* board off and on.  Except where an operation on the block was cut off so  *)
(* that the board is stranded.                                               *)
BoardComesBack == []<>((At("loop") /\ open) \/ pc = "tasks" \/ Stranded)
=============================================================================
