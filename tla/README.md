# A TLA+ model of the RTL8370 UDP bootloader

The repository is the firmware of an STM32F4 board behind an RTL8370MB Ethernet
switch: a bootloader that takes a new image over UDP (`src/udpBootLoader`), and
the drivers and utilities it shares with other projects (`src/HAL`,
`src/socket`, `src/NetworkAdapter`, `src/logger`, `src/utility`,
`src/RTL8370MB`, lwIP under `src/LWIP`). It runs on one core without an
operating system: a main loop and a few interrupts. There are no tests of this
code, and the program on the host side is not in the repository.

This directory holds models of its parts, TLC configurations that check them on
small instances, and TLAPS proofs for every value of the constants.

## 1. Inventory

### 1.1 How the parts interact

    host --UDP--> Ethernet DMA --ETH_IRQHandler--> lwIP --udp_demo_recv--> socketPool[i].pp
                                   (interrupt)                             (one frame)
    main loop:  CUdpDevice::runReceiver --recvfrom--> rx_queue_ (ringque, 300 B)
                iap_run --> bl_excute_cmd --> bl_read/write_memory, bl_go, bl_get...
                              |                 |
                              |                 +-> STMFLASH_write_bytes --> flash
                              +-> CUdpDevice::write --sendto--> lwIP --> DMA --> host
                console: printf --> txQueue_ (ringque) --runTransmitter--> sendto

The main loop (`udpBootLoader/User/main.cpp:111-119`) calls the receivers,
`iap_run` and the console's transmitter in turn and never blocks. The table of
the timers is gone through (`doRun`) in the application's loop only
(`User/main.cpp:75`); the bootloader polls its timers, and lwIP's own timers do not
run in it. The Ethernet interrupt runs the whole of lwIP's input path, answers
included, so it shares `socketPool`, lwIP's control blocks, its packet buffers
and the transmit descriptors with the main loop, without any locking. SysTick
counts milliseconds.

Between power-up and the main loop, or the application, stands the boot
parameter, one of the power-up variables in the last sector of the flash.

### 1.2 Components

| Component | State | Operations | What makes it correct |
|---|---|---|---|
| **RingQue** `utility/ringque.h` | static array, front and back pointer | push, pop, front, push_array, pop_array, call_back_push, front_ptr, back_ptr, clear | it is a bounded FIFO; no access outside the array; a full queue is told from an empty one |
| **Socket pool** `socket/LAN8720/socket.c` | per slot: allocated, udppcb, hasRecvCallback, recved, pp; lwIP's pcbs and pbufs | socket, bind, sendto, recvfrom, close; the receive callback in the interrupt | no buffer used after it was given back, none in two places; a frame finds its socket; no slot and no frame is lost |
| **UDP device** `udpBootLoader/User/udpDevice.cpp` | socket number, rx_queue_, timer | open, close, read, write, runReceiver, clear_read_buf, is_data_flow_break | bytes in order; what a silent host left is dropped |
| **Bootloader protocol** `udpBootLoader/iap/*.c` | iap_tick, bl_cmd, exe_tick, statics of each command | the cases of iap_run and of the command functions | flash written and application started only by one complete, correct command |
| **Flash driver** `HAL/stmflash.c` | the flash, the erase marks in RAM | STMFLASH_write_bytes, rst_addr_erase_mark | never program a word that was not erased; an acknowledged page reads back |
| **Power-up variables** `HAL/powerupOption.cpp` | a block of variables with a check word in sector 11 | verify, write, initInApp | a variable survives the write of another, and a power loss |
| **Boot sequence** `udpBootLoader/User/main.cpp`, `iap.c` | boot parameter, time since reset | the choice between application and bootloader; the emergency window; iap_load_app | the board can always be reached again; it never jumps to a broken image |
| **Console** `logger/Console.cpp`, `CUdpConsole.cpp` | txQueue_, one format buffer | printf, puts, putc, runTransmitter, setDev | output in order, one writer at a time |
| **Software timers** `HAL/Timer.cpp`, `Timer.h` | 31-bit counter, table of timers | doUpdate (interrupt), doRun, attach, detach, isAbsoluteTimeUp, delay_ms | each timer fires once a period, across the wrap |
| **fixed_vector** `utility/fixed_vector.h` | array, size | push_back, erase, remove, find | the elements of a sequence, in order |
| **Ethernet DMA** `RTL8370MB/RTL8370MB.c`, `ethernetif.c` | receive and transmit descriptors, shared with the DMA | ETH_IRQHandler, ETH_Rx_Packet, ETH_Tx_Packet | every descriptor comes back; no buffer written while the DMA owns it |
| **Network adapter** `NetworkAdapter/RTL8370MB` | open flag | doInit, isOpen, periodHandler | sockets only when it is open |
| **Switch management** `RTL8370MB/sim_smi.c` | lines of the bus | smi read, write | an error ends the transfer |
| **CAN router** `HAL/CCan.*`, **UART driver** `HAL/CUsart.cpp`, **SPI driver**, heart LED, watchdog | | | compiled in, not used by the bootloader's core |

Left aside as vendored, generated or demonstration code: `Libraries` (CMSIS, ST's
peripheral library, the Ethernet driver), lwIP's core, `RTL8370MB/API`,
`SEGGER_RTT`, the lwIP demos, other boards' adapters (W5500, LAN8720), and the
application under `src/User`, most of whose files are missing.

### 1.3 What is hard here

* **Main loop against interrupt.** `recvSocketMsg` reads `pp`, checks `recved`,
  copies, frees, clears `recved`, clears `pp` (`socket.c:252-265`) while the
  interrupt does the opposite (`socket.c:227-234`).
* **Stale links.** A closed slot keeps its control block, callback flag and frame;
  lwIP hands the block out again.
* **One step counter for three commands**, each with statics of its own
  (`st_bootloader_protocol.c:28`), fed by a byte queue from which datagrams may
  be missing, and with a time limit in some cases only.
* **A pointer one past the end.** `pop_array` leaves the front pointer there and
  every later call has to cope (`ringque.h:197-207`).
* **Marks in RAM about the flash**, which loses nothing when they are lost.
* **Boot.** The variables that decide what is started are erased and rewritten
  in place (`powerupOption.cpp:58`); the way back from an image that cannot be
  started ends in a loop that nothing ends (`iap.c:31`).
* **Descriptors shared with the DMA.** The handler stops at a frame it does not
  take (`RTL8370MB.c:314`), clears the interrupt of one that came meanwhile (318),
  and sends in the middle of a send of the main loop.
* **A clock that wraps.** The difference to an earlier time is masked in the timers
  (`Timer.h:85-89`) and is not in `delay_ms` (`Timer.cpp:99`); callbacks change the
  table that calls them (`Timer.cpp:63`).

`PROJECT.json` lists each hazard at its line, with the properties that cover it.

## 2. Modules

| Module | Models | Notes |
|---|---|---|
| `BoundedFifo` | the promise of a queue | a sequence of at most `Cap` elements; abstract specification |
| `Mailboxes` | the promise of the sockets | a mailbox of one datagram for each; abstract specification |
| `RingQue` | `utility/ringque.h` | implements `BoundedFifo` with `q <- Contents` |
| `SocketPool` | `socket/LAN8720/socket.c` over an external lwIP | main loop in small steps, interrupt in one; implements `Mailboxes` |
| `IapProtocol` | `iap.c`, `st_bootloader_protocol.c`, receive side of `udpDevice.cpp` | one action per case and outcome |
| `IapSession` | `IapProtocol` with a host and a lossy network | composes the device with an external host |
| `Flash` | `HAL/stmflash.c` with power loss and failing device | requests of `bl_write_memory` and `pvf::write` |
| `PowerupVars` | `HAL/powerupOption.cpp` | extends `Flash`: a call makes requests of it |
| `Boot` | `udpBootLoader/User/main.cpp`, `iap_load_app` | extends `PowerupVars`; the application is external |
| `EthDma` | `RTL8370MB.c`, `ethernetif.c`, the rings of `stm32f4x7_eth.c` | the DMA is an external actor |
| `FixedVector` | `utility/fixed_vector.h` | operators only |
| `Timers` | `HAL/Timer.cpp`, `Timer.h` | extends `FixedVector` |
| `MC*` | instances for TLC | |
| `*_proof` | theorems and proofs | extend the module they are about |

### 2.1 RingQue

The pointers are offsets from `static_array_`, so `N`, one past the end, is a
value. Each member function is an action; `push`, `pop` and the rest have a
disjunct per branch of the code. `user` is the client that owns the queue: the set of
calls it makes. The three of `MCRingQue` are `CUdpDevice` (`push_array`,
`pop_array`, `clear`), `CConsole` (`push_array`, `pop_array`, `push`), and
everybody else (all calls but `pop_array`). `SafeOps` says which sets of calls
are sound: `pop_array` leaves the front pointer at `N`, where `front`,
`front_ptr`, `back_ptr` and `call_back_push` would leave the array, and after
`clear` so would `push`. The code does not forbid the mixture; no user makes it.
`memcpy` and `memmove` count bytes in `push_array`, `pop_array` and
`align_que2array`, so these calls are right for byte elements only, which is
what their users have.

The queue is used by one context at a time here. `printf` from the interrupt
breaks that for the console's queue (see the hazards, and section 6).

### 2.2 SocketPool

State: the fields of `socketPool` as functions of the slot, lwIP's control blocks
(`freePcbs`, `local_port`, `hasRecv`, `remote_ip`), its packet buffers
(`freePbufs`, `content`), and `call`, the call the main loop is in with its local
variables. `recvfrom` is seven steps, `sendto` and `close` two: they are split at
each access to something the interrupt also touches. `EthInterrupt` is one step:
nothing preempts it. Of lwIP, `udp_bind` is modelled (`Bound`) and the rest is
external: control blocks come from a pool of `NSock` blocks (`MEMP_NUM_UDP_PCB`
is 4, also the length of `socketPool`), and a frame needs a free packet buffer
and a bound block with a callback. One thing the interrupt does is left out: when it
replaces a frame it prints a message (`socket.c:227`), and the console may send it with
a `sendto` of its own, on the console's control block. Its destination is the constant
one of every other message of the console, and nobody receives on that socket, so what
`SentWhereAsked` says stands; of a socket that also receives (hazard `socket.c:48`)
it says nothing. That
`pbuf_free` in the main loop and `pbuf_alloc` in the interrupt are themselves not
protected (`SYS_LIGHTWEIGHT_PROT` 0) is not modelled; each is one atomic change
of a pool.

`Mailboxes` is what a client of the sockets may rely on. A mailbox holds one
datagram for the port of its socket; a newer one replaces it (`Arrive`); a call takes it
out, hands it over and returns (`Take`, `HandOver`, `Return`). `Lose` is
the loss of section 5, and is allowed only between `Take` and `Return`. The mailbox of
a slot is the content of `pp` as long as the slot `Waits` and the buffer is
not the one that is being read (`MailOf`). A datagram is therefore taken
when `recvSocketMsg` loads the pointer (`socket.c:252`), although the flag is looked
at later: that the flag is always set then is what makes it work. `close` does not
empty the mailbox, which is why `DeliveredToItsPort` is for clients that never close.

### 2.3 IapProtocol and IapSession

The main loop alternates `runReceiver` and `iap_run`. An action of `iap_run` is a
case of its switch, or of the switch in the command function, with one outcome:
waiting, giving up, accepting, rejecting. `GoOn` ends in `BL_YIELD`, `Leave` in
`BL_OK` or `BL_ERR`. `timeUp` is `data_flow_break_timer_`; it may run out at any
time. Asking a timer that ran out restarts it (`Timer.h:82-96`); as every true
answer is followed by `clear_read_buf`, the flag is reset there. `start_addr` and
`pack_length` are the statics of `bl_write_memory`; those of `bl_read_memory` and
the local of `bl_go` only choose what is sent back and where to jump.
`frame` is a history variable: every byte read since the command byte.

A byte has `AllOnes + 1` values (8 in the runs), an address `AddrLen` bytes (2),
a block is a multiple of `Unit` bytes (2; 4 in the code). The exclusive or is a
constant operator. Command codes are chosen so that the relations of the code
hold: the complement of a command is no command, and the code of a long command
is no valid length of Write.

`iap_load_app` is left for good in this module; its other path, an image without a
valid stack pointer, is in `Boot`.

`IapSession` adds a host that writes one block. It does what the protocol asks of it:
it sends the command pair, the address and the block in one datagram each, waits
for the ACK in between and starts over on NACK or after waiting in vain. It is
prompt (answers within 200 ms) and, as a rule, waits longer than 200 ms before it
gives up. The network may lose any datagram and flash writes may fail, `MaxFaults`
times; a datagram may come twice and the host may begin again while its last one, or
the answer to it, is still under way, `MaxDisorder` times (`disorder` counts them).
Both directions keep their order. There are two kinds of host: one lets 200 ms pass
after a NACK (`pauses`), the other begins again at once.

### 2.4 Flash

A word is the set of its bits that are 1: programming intersects, erasing fills.
A call is split at each access to the flash. Power may fail between any two and in
the middle of one, and the device may report a failure of an erase or of a word.
`CutOff` says what such an operation leaves: nothing of it, or part of it. Of an erase
that is the whole sector in any state (`PartlyErased`: any of `Leftovers`, in which the
theorems see any set of contents and the runs a few bad ones); of the program of a word, that word with
any of the bits cleared that were to be cleared or more (`PartlyProgrammed`). `acked` is what the clients were
told (a word has a value in it once its write returned 0), `stale` the words
not erased since power came on or since an operation on them failed, `failed` whether a failure was
reported since. A sector is known by its first word (`SectorStarts`), so sectors may have any
sizes; the OTP area has one of its own, whose mark nobody reads.

### 2.5 PowerupVars and Boot

A variable is a word of `Flash`; `Number` says which number a word stands for, and
the erased word stands for one that is too large. `write` and `initInApp` compute the whole block from
what is stored and hand it to the flash driver (`BeginCall`); from then on every
access to the flash is a step of `FlashStep`, and the program goes on only when
the last one is done (`Busy`). `initInApp` makes two writes. Results of the driver are
ignored, as in the code. `meant`, `torn` and `muddled` are history: what each variable may
be by all that was ever asked, whether a change of the block broke off, and whether
the block was left by an erase that was cut off, or by a program that cleared bits it
should not. A variable whose word was being erased or programmed when the operation was cut off
may be anything (`BlockCutOff`), until a later write of it is complete.

`Boot` runs `main` from one call of `pvf` to the next (`pc`): the check of
the boot parameter, the network, the window of 50 ms, `iap_load_app` or the
loop. Whether the emergency datagram is seen is left open. `OpenNetwork(FALSE)`
is a `doInit` that fails: nobody looks, and the socket stays -1. In the loop the
host writes the image, or the sector of the variables, or says Go. The
application starts with `initInApp` (`src/User/main.cpp:33`), writes variables
and resets. Power fails anywhere, in the middle of an erase or a program too (`PowerFails`), and
the flash fails (`FlashFails`), together at most `MaxFaults` times; the
watchdog bites where `main` hangs and during an erase, which may last longer than
its two seconds: the reset cuts the erase off. `PowerCycle` is external: somebody switches off and on a board
that hangs before the watchdog was started, or that is not reached. An application that has a
legal stack top is taken to run; what its code is, nobody checks, the program neither.

An erase that is cut off may leave a block that passes its check and holds values nobody
asked for, or one that counts no variables, or more than one write takes. In such a block `write`
changes nothing, so a board whose boot parameter then says "application" while there is none
comes back to `iap_load_app` for ever: that is `Stranded`, the exception in `BoardComesBack`.

### 2.6 EthDma

Three actors: the DMA (`FrameArrives`, `FrameLeaves`), the interrupt handler (`isr`
says where it is), and the main loop. `low_level_output` may run in both of the
latter (`out[c]`), and the main loop stands still while the handler runs.
`ETH_Rx_Packet`, the copy and the return of the descriptor are steps; so are
each `memcpy` of a send, the check of OWN and the handing over. Setting OWN and
advancing the pointer (`RTL8370MB.c:364` and 372) are one step: an interrupt between them could only
send, and a send inside another makes the call a disturbed one anyway. The pointer to the next
transmit descriptor is not volatile and is read again after the check or not, as
the build likes (`TxGive`). A received frame is a number, a frame that is sent
has its identity in each of its pieces. `broken` stands for every frame that
`ETH_GetRxPktSize` reports as 0. `disturbed` is history: a send began
while the DMA owned the buffer, or in an interrupt of another. The
code does not exclude either; from then on nothing holds of the frames sent.
Left out: the bits that say that the DMA ran out of descriptors (a DMA that waits
goes on by itself in the model), and the registers of the MAC.

### 2.7 FixedVector and Timers

`FixedVector` has the operations the table of the timers uses; a vector is
its size and the elements below it. `doUpdate` is the interrupt and may come
between any two steps of the main loop, in which `doRun` is a step for each
timer and each callback. A callback, and the main loop, may start, stop or
reset any timer (`Use`). `isTimeUp` polls a timer that is in no table.
`delay_ms` is a wait with its start and argument. `age` and `waited` are
history: the true time. The counter wraps at `Wrap` (2^31 in the code, a negative difference is
masked with 0x7FFFFFFF, which adds `Wrap`). The constructor takes a delay beside the
period, after which the timer is first up (`FirstDelay`, at most the period). A longer delay
would put the start into the future, whose difference is masked to a large one: such a timer is up
at once. No constructor of the repository gives a delay other than the period. The interrupt goes on during a delay
however long; otherwise `doRun` begins a round at least every `MaxLag` ms.

## 3. Runs

| Run | Question | Bounds | Result |
|---|---|---|---|
| `ringque` | bounded FIFO, pointers in bounds, for each kind of user | N = 4, 3 values, arrays of 0..4 | holds, 20 000 states |
| `socket_api` | buffers, control blocks, slots and mailboxes under all five calls | 3 sockets, 2 buffers, 2 ports (symmetric) | holds, 1.3 million states |
| `socket_bootloader` | the two sockets of the bootloader, polled; mailboxes with two peers | 2 sockets, 2 buffers, 2 ports, 2 peers | holds, 183 000 states |
| `socket_loss` | is a frame dropped only for a newer one? | 1 socket, 2 buffers | **violated**, see 5 |
| `iap_protocol` | writes, starts and silence under any pieces of traffic | 5 datagrams out of 13 | holds, 680 000 states |
| `iap_session` | a host that retries over a lossy network, and what the device writes while out of step | one block, 3 faults, 2 duplicates or early retries | holds, 293 000 states |
| `flash` | erased words, acknowledged pages | 2 sectors of 3 words and an OTP word, 2 bits | holds, 63 000 states |
| `flash_again` | is an erased sector erased again? | the same, pages only | **violated**, see 5 |
| `flash_cross` | does a write stay in its sector? | the same, a page at the boundary | **violated**, see 5 |
| `boot` | values, checks and the way back over resets, power losses and failures, at every access and in the middle of one | words of 3 bits, 3 variables, an image of one word, 2 faults, 2 kinds of board, 2 remains of an erase | holds, 305 000 states |
| `eth_dma` | are descriptors returned, frames in order and whole, pointers in step? | rings of 2, frames of 2 pieces, 2 identities | holds, 895 000 states |
| `timers` | is no timer early, none forgotten, no delay short? | 3 timers with periods of 1, 2 and 2, one of them up after 1 ms at first, a table of 2, `Wrap` 7, `MaxLag` 2 | holds, 589 000 states |

**The bounds are enough because** a ring of four cells wraps with every split of an
array of up to three elements, and the theorems hold for every `N`; three sockets
give a stale slot before, between and behind live ones, and two buffers let one
be read while the other arrives; five datagrams make two commands, the second
broken in the middle of the first, or one that is cut short, timed out and
begun again; three faults spoil three attempts in a row, or one twice, and two
disorders give a second copy of a command as well as a host that begins anew behind it; two pages in a
sector, a variable block in another and one OTP word are the kinds of request
there are. All violations need fewer steps. `MaxFaults` bounds the power
losses at arbitrary points and the failures of the flash, so that one can meet what the other left
behind; resets by the watchdog, the application and a power cycle are unbounded, and
that of the watchdog cuts off any erase. The boards `boot` begins with are one with an older version's
block, and one told to start an image it does not have; a new one is as erased as any becomes by the
first write. A failed erase of `flash` leaves words cleared, or one of the values that are written; one of
`boot` leaves a block that passes its check and that nobody asked for, or one that counts no variables.
A word half programmed may have any bits there. Rings of two are full and empty within a few steps, and numbers modulo
three tell a frame from its neighbours in them; the theorems hold for every
length. A counter that wraps at 7 with periods of up to 2 wraps within each
timer's period and within the delay, one timer begins in the middle of its period, and a table of two with three timers is
full and has one to move.

**Fairness.** `socket_bootloader` assumes that a call of the main loop goes on,
and that a client that called `recvfrom` once calls it again and again: the main
loop polls its receivers for ever (`main.cpp:111-119`). Strong fairness is needed
there because the call is possible only between other calls. `iap_protocol`
assumes that the main loop runs and that time passes. `iap_session` assumes
in addition that a datagram that is not lost arrives, and that the host goes on;
the bound on faults is what makes the network usable in the end.
`boot` assumes that `main` and the flash go on, that the
watchdog bites where it is not served, that a dead board is switched off and on
in the end, and (strongly) that the adapter does not fail every time. An erase is
not assumed to be finished before the watchdog bites: the watchdog runs from the loop on only, so a board
that it resets has been in the loop.
`eth_dma` assumes that the handler runs, the DMA sends, and (strongly) that
whole frames keep being stored: a descriptor whose frame is not taken is taken
after the next one, because its interrupt may have been cleared. `timers`
assumes that time and the loop go on and (strongly, because a delay or a use may
come first each time) that the loop comes to `doRun` every time around, which
is what it is written as.

### What the properties say

* `RingQue`: `ImplementsFifo` (refinement), `IInv` (pointers).
* `SocketPool`: `OwnPcb`, `FrameFindsItsSocket`, `PcbForEverySlot`,
  `LoadedFrameIsHeld`, `WaitingFrameIsHeld`, `DeliveredToItsPort`,
  `SentWhereAsked`, `ImplementsMailboxes` (refinement), `FrameLeavesItsSlot`
  (liveness).
* `IapProtocol`: `IInv` (step counter, statics and bytes read agree),
  `WritesAsFramed`, `StartsAsFramed`, `NothingStaysBehind` (liveness).
* `IapSession`: `DoneMeansWritten`, `OnlyTheBlockIsWritten`, `HostIsServed`
  (liveness); `WritesAsFramed` of `IapProtocol`, fed by this host.
* `Flash`: `IInv` (marks), `ProgramsErasedWords` (action property), `AckedHolds`.
* `Boot`: `BootIInv` (marks), `ValuesAreMeant` (no value nobody asked for),
  `TornIsSeen` (the check fails until a call is complete), `BoardComesBack`
  (liveness).
* `EthDma`: `IInv` (the handler's buffer is not the DMA's), `DeliveredInOrder`,
  `FramesLeaveAsGiven` (action property), `InStep`, `DescriptorsComeBack`
  (liveness).
* `Timers`: `IInv` (the table is a set, the difference is the age), `NeverEarly`,
  `DelayIsLongEnough` (action properties), `DueIsCalled` (liveness).

`ValuesAreMeant` and `TornIsSeen` name what the code does not protect from. Of a word that was
half programmed `ValuesAreMeant` says nothing until it is written again (the boot parameter
must then still be a valid one by chance to start anything), and of the words of a sector whose erase
was cut off likewise. `TornIsSeen` excepts two things: a block that an erase has left half erased
(`muddled`), whose check may come out right, and a block whose words happen to have the erased
word for their exclusive or, since the check word is erased while the block is being changed.
That is all the protection the code has: a board to which one of them happens takes the torn block for a good
one, and `initInApp` keeps it.

Each is stated in words above its definition. Each has a mutant of the code in
its module (`...Late`, `...NoGap`, `AnyFree`, `clear_timer_only` and so on) under
which TLC finds it violated.

## 4. Proofs

All theorems hold for every value of the constants that satisfies the named
assumptions of the module (`RingQueAssumption`, `UsersAssumption`,
`SocketPoolAssumption`, `IapProtocolAssumption`, `IapSessionAssumption`, `FlashAssumption`,
`PowerupVarsAssumption`, `BootAssumption`, `EthDmaAssumption`,
`TimersAssumption`).

* **RingQue_proof.** `TypeCorrect`: `IInv` is inductive as it stands: a pointer
  is at `N` only where a later call brings it back (front after `pop_array`, back after
  `clear` of such a queue). `Refinement`: the queue implements `BoundedFifo`.
  The argument goes through `View(m, f, n)`, the n elements of m from f on:
  `ContentsPush` (what is kept, and what is stored behind it, make a
  concatenation), `ViewTake` and `ViewPop` (taking from the front), `AlignedType` (three reversals, or a
  move, keep the view). Each member function is then one lemma.
* **SocketPool_proof.** `Invariant`: `IInv` needs more than its properties:
  `LiveBeforeStale` (of two slots that name one control block the live one comes
  first: `socket()` takes the first free slot and a live slot is not free) and `BoundAreLive` give
  `FrameFindsItsSocket`; `CallOK` (nobody else holds the buffer being read) gives
  `LoadedFrameIsHeld`. `FramesAreHeld`, `FrameFindsItsSocketAlways`,
  `PcbForEverySlotAlways` (by counting: as many blocks as slots),
  `SentWhereAskedAlways`, `OwnPcbAlways`, `LoadedFrameIsHeldAlways`.
  `DeliveredToItsPortAlways` is for clients that never close: `DatagramsFit` says of every
  frame that waits, and of the one being read, that it was sent to the port of its
  slot's block; a block with a waiting frame has a port and is given no other.
  `Refinement` is for all clients, those that close too: the pool implements `Mailboxes`.
  `MailInv` is what it adds to `IInv`: a slot with a frame has `recved` set (but for the moment
  between the two assignments of the reader), also when the pointer was loaded
  before the frame was replaced; a buffer outside the pool has a datagram in it. Each abstract
  action is stated for one slot (`BoxTake` and so on), and each step of the code is
  one of them or a stutter; `RecvFree`, which gives up what came in meanwhile, is `Lose`.
* **IapProtocol_proof.** `Invariant`: `FrameMatchesStep` ties the bytes read since the
  command byte to `exe_tick` and the statics; with it `WritesAreFramed`
  and `StartsAreFramed` are a step of `TakeData` and of `LoadApp`. Nothing about
  exclusive or is used but that it yields bytes. The step lemmas hold for every
  way of feeding the device (`FedStep`). `XorAllIsByte`: the check sum of every sequence of bytes
  is a byte. The fold is recursive over sets of indices; instead of induction, the
  proof takes a counterexample of least size (`LeastNumber`, from the library's
  `WFMin`), once for the existence of the recursive function and once for its values.
* **IapSession_proof.** `SessionInvariant`, `DoneMeansWrittenAlways`,
  `OnlyTheBlockIsWrittenAlways`, for every block, address and number of losses and failed
  writes. `InStep` lists where a line of the host's script can be: about to
  be sent (`ToSend`), on the wire, in the device (`InDevice`), answered. A line is sent only
  when the device awaits it (`Awaits`), and the timer cannot run out then, since the host
  does not let 200 ms pass. The first line is the exception: it may meet the rest of
  an attempt the host has given up. The theorems therefore assume what holds
  of the code's numbers: a command pair is too short for an address (`TooShort`; 2 bytes
  and 5) and its first byte is not the length of a block (`NoLength`; 0x31 + 1 is no multiple of 4).
  `SessionWritesAreFramed` and `SessionStartsAreFramed` need neither and hold for any
  disorder: the wire carries bytes (`WireIsBytes`, with `XorAllIsByte`), so every step of the session
  is one of a device that is fed (`SessionFeeds`) and `IapProtocol`'s lemmas apply. A
  device out of step may take a part of a block for a command, but writes no torn frame.
* **Flash_proof.** `Invariant`: a mark stands for an erase since power came on.
  `OnErasedWordsOnly`: then, if no request crosses a sector (`PageAligned`),
  every programmed word was erased. That condition is needed, see `flash_cross`.
  Both hold for sectors of any number and sizes, and whatever a failed erase leaves.
  `AckedHoldsAlways` adds two conditions: requests that only program agree on the words
  they share (`OneImage`), and the sector of a request that forgets its mark holds nothing
  but its block (`OwnSector`). `WordsInv` then gives the contents of the marked sectors word
  by word: erased, or what a request has for them. So programming a word a second time changes
  nothing, and an erase meets no acknowledged word but those of the block that is
  written again.
* **Boot_proof.** `Invariant`: no program takes over erase marks. `ValuesAreMeantAlways` and
  `TornIsSeenAlways` hold for blocks of every version and any values, whatever an erase that is cut off
  leaves, under three conditions: the block lies in
  one sector (`BlockInOneSector`), the host does not write to it (`HostLeavesTheBlock`) and the
  application leaves the number of variables to `initInApp` (`NumberIsKept`).
  For the first, `VarsInv` says which call is under way (`NoCall`, `CallElsewhere`, `CallOnBlock`,
  `CallOnCheck`): the first request for the block finds its sector unmarked and so
  erases it; the request for the check word, made even if the first has
  failed, at worst erases the variables. `NotAskedFor` is needed for older blocks: their check word lies
  where a newer program has a variable, and no one has asked for that variable yet. The number
  of a word is monotone in its bits, so a number that was half programmed counts no fewer
  variables than it shall, and `NotAskedFor` stands.
  (The run allows the host to write the block; the boot parameter may then be the AND of two.)
  For the second, `TornInv` says that the word where
  the check word belongs, by the number the block then counts, is erased (`CheckIsOpen`) or, if its
  program was cut off, not the exclusive or (`BrokenOff`); that a request for the block writes
  all of it (`WholeBlock`); and that the check
  word comes only behind variables that were written, or behind an erased block (`CheckAlone`).
* **EthDma_proof.** `Invariant`, `InOrder`, `LeaveAsGiven`, `InStep`. Both rings
  are described by the descriptors that lie between the pointer of the program
  and that of the DMA: `RxRing` (those not owned by the DMA are the ones from
  `DMARxDescToGet` to `rxDma`, with the one being copied before them) and
  `RxOrder` (their numbers follow each other up to `nIn`); `TxRing` (those
  owned are the ones that hold `queued`, in order, as long as nothing was disturbed) and
  `TxCalls` (a call that is under way fills the descriptor behind
  them). The positions on a ring are handled by a few lemmas on `NextRx` and `NextTx`.
* **Timers_proof.** `Invariant`: `ElapsedIsAge` is inductive with the types
  (the counter advances by one modulo `Wrap`, and so does the difference);
  `TableIsASet` through lemmas on `push_back`, `erase` and `find`; `DelayCounts` because
  a delay cannot be told from one that began a turn of the counter earlier only
  if it has waited long enough. `NeverUpEarly` and `DelayNeverShort` follow in a step each.

Only model-checked: liveness (`FrameLeavesItsSlot`, `NothingStaysBehind`,
`HostIsServed`, `BoardComesBack`, `DescriptorsComeBack`, `DueIsCalled`), which
is out of the prover's reach; `ValuesAreMeant` and `TornIsSeen` for a host that writes
the block. Of the recursive definitions only what the proofs need is proved (that a
check sum is a byte), by hand from a least counterexample, since the library's
induction theorems take an operator as a parameter. Every invariant and every action
property of a passing run is stated by a theorem.

## 5. Where the code and its words differ

* **`socket.c:265`** A frame that arrives while `recvSocketMsg` gives the last one
  back is dropped unread, its buffer is lost, and it is not counted. Line 227 says a
  frame is thrown away because a new one arrived. (`socket_loss`)
* **`stmflash.c:127`** A failing program clears every erase mark; the retry
  erases the sector with its acknowledged pages. Line 63 says "If erased, do
  nothing". (`flash_again`)
* **`stmflash.c:101`** A write of an accepted length may cross a sector boundary,
  and the second sector is programmed without being erased. Lines 98-100 say it
  "will never write cross sector". (`flash_cross`)

What the protocol does not promise shows in `IapSession` once `disorder > 0`:
an ACK has no number, so a late one is taken for the answer to the next
step (`DoneMeansWritten` is claimed while `disorder = 0`), a device that is out of
step may take a part of the block for a command (`OnlyTheBlockIsWritten` likewise), and
a host that begins again at once on a NACK may stay out of step with the device
for ever (`HostIsServed` is claimed for a host that pauses). No text of the repository
says otherwise, so these are not findings.

Smaller ones, without a run: `ringque.h:195` gives the distance to the end as
`[1, TXBUF_SIZE]`, and it is 0 when the front pointer rests at the end;
`st_bootloader_protocol.c:14` gives the complement check as XOR = 0x00 and
`iap.c:65` compares with 0xFF; `udpDevice.cpp:63` promises the length sent and
`sendto` returns 0; `powerupOption.cpp:65-66` ties initialisation to a failing
check, and lines 75-83 keep what is stored, checked or not, as long as the number of
variables looks right, so values of a torn block may be given a correct check
word; `delay_ms` does not end when the counter wraps under it.

## 6. Plan

Done: RingQue with BoundedFifo, SocketPool with Mailboxes, IapProtocol, IapSession, Flash, PowerupVars, Boot,
EthDma, FixedVector, Timers, their runs, and the theorems of section 4.

Worth doing next: `ValuesAreMeant` for a host that writes the block, from the bits of a
word (a write into a marked sector can only clear them); the queues of the CAN router over `RingQue`, if the tasks that
call them become part of the repository.

### Not modelled

* `src/RTL8370MB/API` (the switch vendor's interface) and `sim_smi.c` below it:
  sequences of register accesses by one caller during set-up; what the registers
  do is not in the repository.
* lwIP's core (third party; external in `SocketPool`), the demos beside it, the
  generated file system of its web server.
* CMSIS, ST's peripheral library and the Ethernet driver but for its descriptor
  rings: vendored; register definitions and register accesses.
* The console's race between interrupt and main loop: two `vsnprintf` into one
  buffer and two `push_array` on one queue. It is undefined behaviour from the
  first overlap on, and no property of the code survives it.
* The UART, SPI and CAN drivers, the CAN router, the CAN console, heart LED and
  watchdog register: compiled in but not started by the bootloader, or pure
  output; what calls them is not in the repository.
* `fixed_vector::remove`, `setPeriod`, `STMFLASH_write_bytes_noerase` and
  `getTime_ns`: called nowhere.
* Wording of output.

Nearly all lines of the repository belong to the first three groups (the register
file of the switch alone has 22 800), so the modelled code is a small part of them,
while it is nearly all of the code written for this board that keeps state.
