# A TLA+ development of pistorm64

pistorm64 replaces the 68000 of an Amiga by an emulator on a Raspberry Pi. The
emulator reaches the Amiga through GPIO pins, a kernel module and a CPLD that
performs 68000 bus cycles; interrupts and the reset line come back the same
way; boards of Zorro autoconfiguration and the A314 channel to Linux programs
are emulated on the Pi. All paths below are relative to the repository, which
PROJECT.json sees under `src/`.

## 1. The system

| part | where | state it keeps | how it is used | what is hard about it |
|---|---|---|---|---|
| bus access | `src/gpio/ps_protocol_kmod.c`, `kernel_module/src/pistorm.pi4.c`, `rtl/upstream/pistorm.v` | `g_opsq`, the mutex, the CPLD's latches, request, TXN, bus state | `ps_read_*`, `ps_write_*`, `ps_pulse_reset` from every thread; ioctls; register writes | threads share one set of latches; queued writes and direct reads; cycles that never end |
| threads | `src/emulator.c` (`main`) | `end_signal`, `emulator_exiting`, `load_new_config`, `cfg`, `mouse_fd` | starts and joins the CPU, IPL, keyboard and mouse threads, switches configurations | plain flags, threads that nobody joins, `cfg` freed while it is read |
| interrupts and resets | `src/emulator.c` (`ipl_task`, `cpu_task`, `keyboard_task`) | `irq`, `last_irq`, `last_last_irq`, `do_reset`, the CPU's level | the IPL thread watches pins, the CPU thread acts between slices | three threads, no lock; the emulator pulls the line it watches |
| autoconfiguration | `src/platforms/amiga/amiga-autoconf.c`, `amiga-platform.c`, `src/memory_mapped.c` | PIC numbers, bases, custom and mapped range, the CPU's ranges | registers at 0xE80000, resets | three accesses per board, each decides anew who answers; state that survives a reset |
| A314 physical channel | `src/a314/a314.cc`, `src/a314/a314device/a314driver.c`, `int_server.asm` | the communication area: two rings, `a_events`, `a_enable` | shared memory; a socket pair to the Pi; to the Amiga only `a_events`, found by a request or another device's level 2 interrupt | lost wakeups, indices read while they move |
| A314 logical channels | `src/a314/a314.cc`, `src/a314/a314device/{a314driver,sockets,device,startup}.c` | sockets, channels, two send queues, services, connections | requests of Amiga programs, packets, messages of services | closes, resets and EOS that cross; a reset of the Amiga |

The CPU thread and the A314 thread call the bus access; the keyboard thread
resets the Amiga through it; the IPL thread reads its pins under the same
mutex. The program in the emulated CPU drives everything else: it writes the
autoconfiguration registers, INTENA and INTREQ, and runs `a314.device`.
Section 8 lists the parts that are left out.

## 2. Modules

| module | models |
|---|---|
| `AmigaBus` | abstract: a memory on which a call takes effect at one instant between call and return |
| `PistormBus` | library, kernel module and CPLD, at the grain of the register writes and bus states |
| `EmulatorThreads` | `main` and the life of the threads over configuration switches |
| `Interrupts` | IPL, CPU and keyboard thread between the pins and the CPU's level |
| `Autoconfig` | the boards, their addresses, the platform's and the CPU's ranges |
| `A314Stream` | abstract: a stream of numbered items in both directions |
| `A314Common`, `A314Device`, `A314Thread` | constants; the handlers of the driver and of the A314 thread as operators on their state |
| `A314Channels` | composes both with the rings, the connections and the clients |
| `A314Link` | the rings byte by byte with their events, below the packets of `A314Channels` |
| `A314LinkProofs`, `A314ChannelsProofs`, `A314PathProofs`, `A314OrderProofs`, `PistormBusProofs`, `InterruptsProofs`, `AutoconfigProofs`, `EmulatorThreadsProofs` | theorems |
| `MC...` | instances for TLC |

### How state and actions correspond to the code

Variables have the names of the C variables where there is one; PROJECT.json
`map` gives the lines of every definition. Names of the form `X_Slip` or
`XSlip` marked "a mutant" or "slip" are wrong versions of `X` and are used by
nothing: replacing `X` by one of them breaks a property.

*PistormBus.* `pc[u]` is where thread u is: in `ps_busop` and the queue
(`push` ... `flushed`) or in the ioctl (`write` ... `unlock`). One action is one
store to a CPLD register (`LatchData`, `LatchAddress`, `LatchRequest`), one
look at TXN (`TxnDone`, `TxnTimeout`), one access to `g_opsq_n` (`LoadIndex`,
`StoreOp`, `EmptyQueue`) or one transition of the CPLD (`StartCycle`,
`DriveBus`, `Acknowledge`, `LowerTxn`, `LeaveS4`, `Advance`). The two address
registers' halves are one latch. The Amiga's memory changes on S3 -> S4. A store
past the end of `g_opsq` is undefined in C and not followed.

*Interrupts.* The slice of the 68k program is `cpu = "run"`, in which `Guest`
actions are free; `IfIrq`, `ReadStatus`, `DropIrq`, `NoReset`, `CpuPulls`,
`CpuReleases`, `CpuIsReset` are the rest of the loop of `cpu_task`, one action
for each read of a shared variable. `ReadPins`, `SetIrq`, `WatchReset` are one
turn of `ipl_task`. The kernel's lock is the boolean `mutex`, held for a pulse.

*EmulatorThreads.* `main` is the place in `main()`, `run` numbers the passes
through `switch_config`, and every pass has its own IPL, keyboard and mouse
thread. A keyboard thread that looks at `cfg` while it is NULL crashes.

*Autoconfig.* The program finds a board (`ReadType`), gives it an address in two
bytes (`WriteLow`, `WriteHigh`) or one word (`WriteWord`), or shuts it up.
`Taker` is who takes a write: it is computed again at each access, as
`custom_write_amiga` does. Addresses are in units of 64 KB.

*A314Link.* `aPc` walks through one round of `task_main`, `piPc` through one
epoll event of `main_loop`. A packet is its number; each byte of it in the ring
holds that number, so that a torn or overwritten packet is recognised.
`IntServer` is an interrupt of another device, at any time: the program raises
none for its own events (section 6). Two history variables name the two ways in
which a call is lost in this code. `moved` has the indices that the driver moved
and found where they were before the round, since they went round the ring
(`a314driver.c:489`); `missed` has the events that `IntServer` read after the
driver's last look at what they tell (`int_server.asm:14`). The properties except
these two cases and say that there is no third.

*A314Channels.* A handler is an operator from the state record of its side to
the state it leaves; the actions choose the request, packet or message. Rings
hold `A2RCap` and `R2ACap` packets and a handler is one step: `A314Link` is
where their bytes and indices interleave. A client is any program behind the
service interface; `conn` says how far a lost connection has been noticed.
`Irq` lets STARTED be taken before an earlier byte of the socket pair, an order
the code does not have: a round more or less before the channels are closed.

## 3. Runs

| run | instance | shows |
|---|---|---|
| `link` | rings of 6 bytes, 2 packets of 3 to the Pi, packets of 4, 3, 3 and 3 to the Amiga, socket pair of 1 byte, interrupts of other devices at any time | packets arrive once, whole, in order; a wakeup is lost in two ways only; everything is delivered if the driver is woken again and again |
| `link_foreign` | one packet each way; other devices interrupt for ever | *violated*: `EventsCommunicated` (section 6) |
| `chan_stream` | one socket, both directions of a stream, short reads, a client that closes or fails | data in order, EOS after data, one holder for each pending request, refinement of `A314Stream` |
| `chan_shared` | two sockets, one connection, refusals, resets by both ends, one reset of the Amiga | send queues, tables and both ends of a stream agree |
| `chan_live` | one socket, a service started on demand | a client learns of the end; if the driver is called, CONNECT is answered and a reader learns of the end |
| `chan_reset` | two CONNECTs, one reset of the Amiga | *violated*: `ConnectIsNew` |
| `bus` | two threads, four bytes, 32-bit and byte accesses that overlap, a reset pulse, one word that may stall | cycles are those asked for; calls are atomic (refinement of `AmigaBus`) and return |
| `bus_batch` | batching, one thread that writes, one that resets | reads see queued writes; the queue drains |
| `bus_batch_shared` | batching, two threads that write | *violated*: `ReadIsCurrent` |
| `interrupts` | one chip level, one press of reset, one pulse by the emulator, keys at any time | one reset per press, held resets are served, interrupts reach the CPU and leave it |
| `threads` | one switch, SIGINT and q at any time | the process ends when asked; threads that are left behind end |
| `autoconf` | 3 devices, 3 memory boards, up to 2 plugged boards, 2 resets | boards get their own addresses, memory and devices are where the program put them, all are configured |

Every property of a passing run has a mutant in PROJECT.json: a slip in one
definition that makes TLC report that property under the same configuration.

### Bounds, and why they are enough

* `link`: with rings of 6 bytes a packet of 4 and one of 3, or two of 3, do not
  fit together: the second waits for the head to come back and, to the Amiga,
  wraps. Two packets of 3 in one round are one turn of the ring, in either
  direction (`a314driver.c:489`). `PortCap` 1 lets a request arrive in a round;
  `IrqCap` 1 makes the socket pair overflow. The exceptions of the properties are
  not idle: without any one of them TLC finds the property violated.
* `chan_*`: `A2RCap` and `R2ACap` of 1 make every second packet wait. `Budget`
  bounds the requests of an application by kind, `MaxSends`, `MaxCloses` and
  `MaxReboots` the rest; two writes, two reads and one close let data, EOS and
  reset cross in either order. Two sockets are the least for which a queue has
  an order; the ids are few so that they begin anew after a reset.
* `bus*`: two words let a 32-bit access be cut by another thread; `QueueMax` 2
  fills the queue with the second write.
* `interrupts`: level 3 is above the keyboard's level 2. `MaxPresses` and
  `MaxPulses` count resets only; interrupts and keys are unbounded. One press
  with one pulse is the case in which one could be taken for the other;
  `InterruptsProofs` has any number.
* `threads`: `MaxSwitches` 1 has threads of two passes.
* `autoconf`: two boards in each of Z2 and Z3 memory, two plugged ones: a
  first, a last and one between; the third boot follows two resets at any point.

### Fairness

* *Link*: the driver task and the A314 thread are scheduled. No interrupt is fair,
  since the program raises none for the A314: a driver that waits is woken by
  requests and by other devices. `R2ADelivered`, and for packets that wait for room
  `A2RDelivered`, have that as their premise, `DriverWoken` (`Wait` returns again
  and again). That a packet which got into A2R reaches the thread needs no premise.
* *Channels*: the A314 thread is scheduled and in `chan_live` a client reads its
  messages. That the driver is called while there is something for it
  (`DriverCalled`) is a premise of `ConnectAnswered` and `ReaderLearns`, for the same
  reason; `ClientLearns` does without. Applications, services that speak of their
  own accord and resets are not fair.
* *Bus*: threads run, the clock of the CPLD ticks, addresses outside
  `MayStall` are acknowledged. `Lock` and the flush of the CPU loop are strongly
  fair: a Linux mutex hands off to a waiter, and `cpu_task` calls
  `ps_flush_batch_queue` on every turn, whatever the program does in between.
* *Interrupts*: the three threads' own steps are weakly fair (each is a Linux
  thread); the program, the keys and the chips are not.
* *Threads*: each thread is weakly fair; `poll` has a time-out of a second.
* *Autoconfig*: the boot code goes on; resets are bounded and not fair.

## 4. Assumptions

* `StoresInOrder` (A314Link): the thread that runs the emulated CPU sees the
  copy into `r2a_buffer` before the store of `r2a_tail`. The code has plain
  stores there (`a314.cc:1060-1090`), which ARM may reorder: with
  `StoresInOrder = FALSE` TLC finds `DeliveredInOrder` violated in ten steps.
* `IrqCap` (A314Link) is at least 1: a socket pair holds a byte.
* A314Common: there are finitely many applications (a task and a socket number),
  fewer than the 128 odd stream ids (`IdAssumption`; `allocate_stream_id` does
  not end otherwise), and `NoOne` is neither a client nor a request.
* PistormBus: addresses are a whole number of words from 0, `g_opsq` holds at
  least one write, calls are 8, 16 or 32 bits wide.
* `LatchAddress` (PistormBus) does not happen in S4: S4 lasts some 50 ns and a
  register write takes several GPIO stores. Otherwise the CPLD would clear the
  new TXN (`pistorm.v:239-243`).
* `Booted` (Interrupts): after a reset of the CPU the program needs longer to
  enable interrupts than the IPL and CPU threads need to see that none is left.
  `last_last_irq` survives a reset, so that without this an interrupt of the
  level before the reset would not be new. The ROM's first act is to disable
  the chips. A level that is stale over a reset is thereby left out.
* A look at the pins while TXN is high changes nothing and is no step;
  `irq_delay` is 0; level 7 (Pause) counts as heard.
* Autoconfig: PiSCSI is enabled before A314, as in the repository's
  configurations; the program gives a board the same address in every boot; an
  empty bus reads as no board. The run's `Shuts` names devices only; what becomes
  of memory that is shut up is a hazard (`amiga-autoconf.c:453`). Each board is in a
  configuration once (`NamesAssumption`): one with `setvar a314` twice is left
  out. There are at most AC_PIC_LIMIT Z3 boards, because the emulator maps at
  most 8 items (`MAX_NUM_MAPPED_ITEMS`), and every memory board has a size.
  `MaxRanges` is what ROMs and `cpu_slot_ram` leave of the CPU's tables of 8: 6 in
  the run.

## 5. Proofs

TLAPS checks them for every value of the constants. What they take from the
environment are the named assumptions of the modules (section 4) and, where a
theorem says so, hypotheses on the constants that are explained here. Each
inductive invariant, or the property it stands for, was model-checked first.

### The A314 rings

* `A314LinkProofs!TypeCorrect`: `Spec => []TypeOK`, for every ring size and
  packet stream. Indices stay in the ring and each byte names a packet that was
  sent. `TypeOK` is inductive; the arithmetic is in `LenInType`, `LenAtType`
  and `WrapType` (a packet is shorter than the ring, so `Wrap` subtracts once).
* `A314LinkProofs!NoLostWakeup`: `Spec => []EventPending` for any ring, stream and
  capacity, whatever other devices interrupt, and whether or not stores become
  visible in order. `EventPending` speaks of a driver that sleeps
  and is not inductive. `WakeInv` follows a round: events are disabled from its
  first look at the rings to its last (`Disabled`); what came since its look at
  R2A, and since its look at the room in A2R, is announced or was missed (`Covered`);
  and the A314 thread owes an event for each index it has moved (`PiOwes`). It needs no
  arithmetic on indices: only that a look that found nothing stays true until
  the other side stores an index. It says that an event is there for the next
  interrupt to find, not that an interrupt comes.
* `A314LinkProofs!PacketsInOrder`: `Spec => []DeliveredInOrder` if stores become
  visible in order. The ring is unrolled into the stream of all bytes that ever
  go through it (`At`): byte x lies at index x % RingSize, and an index stands for a
  number of packets. `RingInv` says that between what is read and what is stored
  lie exactly the packets in between, undamaged (`Stored`), and that a side's copy of
  the other's index is conservative: a head it knows is not ahead of the real
  one, nor a tail. That packet offsets grow is proved by least counterexample.
* `A314LinkProofs!DriverGivesNotice`: `Spec => []NoticePending`, without a
  hypothesis. An index that differs from the thread's copy has a byte in the
  socket pair that stands for it, whichever bytes a full socket pair dropped. A
  driver that compares an index with its value before the round sees that it
  moved, unless it went round (`RoundNoticed`, with `moved`).
* `A314LinkProofs!NoneStranded`: `Spec => []NothingStranded` if stores become
  visible in order. It puts together what a driver that sleeps knows (`EventPending`),
  what the thread knows (`NoticePending`), and why each side waits
  (`QueueBlocked`, `A2REmptied`): a full ring and an empty one cannot be the same.
  Where two equal indices must mean the same number of packets, `OnePlace` shows it
  from `RingInv`: the packets between them would fill the ring.

### The A314 channels

* `A314ChannelsProofs!TheTablesAgree`: `Spec => []TablesAgree`, for any
  applications and clients, capacities and number of resets of the Amiga.
  Handlers of `a314.cc` break the agreement of `channels`, `send_queue` and
  `associations` and mend it before they return. `TabledBut(p, i)` says that the
  tables of p agree but for channel i; each function has a lemma on what it
  does to it, and each handler's lemma is their composition.
* `A314ChannelsProofs!EachRequestIsHeld`: `Spec => []RequestsHeld`. The driver's
  functions have lemmas on the set of requests not replied to and the set of those
  in sockets, which `Sound` makes equal. It needs that a closed socket holds nothing
  (`Quiet`), that an application has one socket (`OneEach`), and that a new
  socket does not overwrite another: `IdIsFree`, by counting ids and sockets.
* `A314ChannelsProofs!ChannelsTypes`: `Spec => []TypeOK`. Besides types: no ring
  takes more packets than it has room for (`PathInv` counts those that the
  thread holds back until it publishes), and the packets that the thread counted at the
  start of a round are still there when it takes them (`LoopInv`).
* `A314OrderProofs!DataComesInOrder` and `!EosComesLast`:
  `Spec /\ [][FreshIds]_vars => []DataInOrder` and `[]EosAfterData`, for any
  applications, clients, capacities and number of resets. The two invariants compare
  the ends of a session; between them are a socket, two queues of packets, a ring and
  a queue of messages. `Order` (A314PathProofs) says where the items are: a
  path g gives each session the id of its packets, its client and the stream id of
  its messages, and along it the queues carry consecutive runs of its items, in order,
  from the last one taken to the last one sent, with the end of stream behind them
  (`Down` to the client, `Up` to the application). A session whose CONNECT has not
  been taken has nothing else under way (`Birth`). The path is not a variable:
  `Ordered` says that there is one. Handlers get a lemma each, as for the tables.
  `FreshIds` says that no socket gets a stream id that a channel of the A314 thread or
  a packet under way still has. `allocate_stream_id` (`sockets.c:38`) looks at the
  active sockets only, so this is a hypothesis on the steps and not a fact:
  without it two sessions share a path (the run `chan_reset` shows a reset that
  gives ids again).
* `A314OrderProofs!FewStreamsInOrder` and `!FewStreamsEndLast`:
  `Spec => [](FewStreams => DataInOrder)` and the same for `EosAfterData`. No
  hypothesis on the steps: until the Amiga is reset or has opened more
  streams than there are ids (128), each new id is one that nobody has had,
  because `next_stream_id` counts through all of them (`Numbered`). `FewStreams`
  holds in every state of the run `chan_stream`.
* `A314OrderProofs!OrderKeepsPromise` and `!FewStreamsKeepPromise`: the refinement,
  `Spec /\ [][FreshIds]_vars => KeepsPromise` and `Spec /\ []FewStreams =>
  KeepsPromise`. What a session has sent and got, and who has ended or been told
  (`Seen`), is compared before and after each step: a step of the driver changes it
  at one end of one session, a step of a client or of the thread likewise
  (`OneEnd`, `Becomes`), and each such change is an action of `A314Stream` or none.
  That the next item got is the next one sent, and that an end is told last, comes
  from `Order`.
* `A314OrderProofs!EndIsLast`: a receiver has a prefix of what was sent and one
  that is told the end has all of it. With the refinement this is what the two
  ends of an A314 stream may rely on. The
  invariant `Prefix` is inductive because a sender that has ended sends no more.

### The bus

* `PistormBusProofs!CyclesBelong`: `Spec => []CyclesAsAsked` for any threads,
  calls, memory and queue. `CyclesAsAsked` alone is not inductive: that a thread
  may put its request together needs that none is on, which needs that
  the mutex is held (`MutualExclusion`), that a request that is on has a thread
  waiting for it (`RequestIsAwaited`), that none is on in between
  (`LatchesAreFree`) and that a cycle in S2 or S3 has its request
  (`CycleHasRequest`). All but the first hold until a transaction is given up.
* `PistormBusProofs!ResetAlone`: `Spec => []NoCycleInReset` if nobody calls
  `PISTORM_IOC_RESET_SM`, which leaves the Amiga in reset. The reset line is low
  only while a thread sleeps in `ps_pulse_reset` with the mutex
  (`ResetByPulse`), and a cycle needs another thread that waits with it.
* `PistormBusProofs!BusTypes`: `Spec => []TypeOK`, with what a thread has still to
  do in each place (`Progress`).
* `WritesAreMade`, `ReadsAreCurrent`, `BatchesAreMade` (`PistormBusProofs`):
  `WriteIsMade`, `ReadIsCurrent` and `FlushedIsMade` hold in every state. The
  argument is what the memory still owes: a byte that is not as last written is
  covered by a write that is queued or under way, and the last such write has
  its value (`MemoryInv`). A read starts with nothing owed, and its words are those of
  the memory as they come in (`Answered`).
* `PistormBusProofs!CallsActAtOnce`: the refinement, `Spec => ActsAtOnce`. A call
  that goes to the kernel takes effect when it gets the mutex, a queued write when
  it is stored in `g_opsq`, a flush when the queue is drained; every other step is a stutter
  of `AmigaBus`.

The last four have two hypotheses. `InMemory`: accesses lie in the memory and only byte
accesses are at odd addresses, as `emulator.c:1440-1471,1628-1664` sees to.
`OneQueueUser`: with batching, one thread makes the calls that use the queue. It
says nothing without batching, and with it the run `bus_batch_shared` shows that
the theorems are false otherwise.

### Interrupts and autoconfiguration

* `InterruptsProofs!TypeCorrect`: types, and that the lock is held exactly
  while one thread pulses the line. One lemma for each named part of `TypeOK`.
* `InterruptsProofs!ResetsAreThePresses`: `Spec => []OneResetPerPress`, for any
  number of presses and pulses. The inductive `Counted` adds that whatever the
  IPL thread can still take for a falling edge (`FindsPress`), and a look that is
  older than the press (`MissedPress`), stand for a press not yet counted. The
  types are needed for one fact: pins are read under the lock that a pulse
  holds, so that a line that reads low is the user's.
* `AutoconfigProofs!AutoconfigTypes` and `!BoardsGetTheirBase`: `TypeOK` and
  `BoardsAsGiven`, for any lists of boards, plugged boards and resets. What the
  program has found is still the one who takes its writes (`FoundIsThere`), the boards
  done with are those before the present one of their list (`PastSeen`,
  `OwnTaken`), and a board that has its address keeps it (`Kept`), although the
  address of the next one is put together digit by digit (`LowKept`) and all
  memory boards share `ac_base`.
* `AutoconfigProofs!MemoryIsWhereGiven`: `MemoryWhereGiven` if no memory is shut
  up (`NoMemoryShut`: it would be mapped all the same, a listed hazard), the CPU's
  tables have room (`RangesSuffice`) and the program puts boards apart
  (`MemoriesApart`). The CPU's ranges are those of the boards
  that have their address, over resets too (`RangesAsGiven`).
* `AutoconfigProofs!DevicesAreReachable`: `DevicesReachable` if every
  configuration has PiSCSI, on the list and at the lowest address
  (`PiscsiLowest`): only PiSCSI widens the custom range (`amiga-platform.c:339`).
  The custom range is the one that the flags call for (`CustomNow`, `WindowOpen`).

### The threads of the emulator

* `EmulatorThreadsProofs!ThreadsTypes`: `Spec => []TypeOK`, for any number of
  configuration switches. The inductive `ThreadsInv` adds what `main` has not yet
  created in this pass, and that a switch is asked for only when another pass can
  come.

### Only model-checked

* Liveness: fairness and ENABLED are beyond the prover.
* Of the channels, `QueuedIffUnsent` and `StreamsAgree`, which are for the time
  before a reset of the Amiga.

The library's induction theorems take an operator as a parameter, which the
installed provers cannot instantiate. Where a proof needs induction (packet
offsets, what `WithoutAll` leaves of a queue), it takes a least counterexample with
`WFMin`.

## 6. Disagreements between code and text

* `link_foreign`: `a314.cc:65` has "Events that are communicated from Raspberry
  to Amiga". Two things are wrong with it. `a314_process_events` (`a314.cc:1431`), which
  would raise INTB_PORTS for an enabled event, has no caller: the event stays in
  `a_events` until a request or another device's interrupt makes the Amiga look.
  And `IntServer` reads `a_events`, which clears it, for every level 2
  interrupt, also when `a_enable` is 0 (`int_server.asm:14`). Between the
  driver's last look at `r2a_tail` and its store of `a_enable` that loses the
  event: the driver sleeps with a packet in the ring, even if other devices
  interrupt for ever.
* `chan_reset`: the rings keep their packets over a reset of the Amiga, so a
  CONNECT from before it opens a channel. The new session's first CONNECT has
  the same stream id and `handle_pkt_connect` ends the emulator (`a314.cc:779`),
  where the comment asks for a reset of all channels. For the same reason
  `QueuedIffUnsent` and `StreamsAgree` are stated for the time before a reset,
  and an answer to the old CONNECT can be taken by the new socket.
* `bus_batch_shared`: "writes are flushed before reads to maintain ordering"
  (`docs/BATCHING_README.md:49`), but `g_opsq` has no lock: with two threads a
  write can be overwritten or dropped, and a later read of the same thread does
  not see it.

## 7. Hazards that are not in PROJECT.json

PROJECT.json lists the ones with a property and the most serious of the others.
Seen besides them:

* `a314device/sockets.c:40`: `allocate_stream_id` does not end when all 128 odd
  ids are taken (`IdAssumption` excludes it).
* `a314device/sockets.c:71`: `add_to_send_queue` does not look whether the socket is
  in the queue. After a reset of the Amiga, an old CONNECT_RESPONSE lets the
  application write while its socket still waits to send its CONNECT: the list then
  links the socket to itself. In the model the queue has it twice; the theorems
  on the channels do not depend on the order of the queue then.
* `a314.cc:627,1027,1195,1284`: a CONNECT_RESPONSE without payload; a client
  message longer than a ring; a connection freed by a bad memory request and
  used again; a shutdown that every event postpones.
* `ps_protocol.c:108`: the user-space back end's `ps_write_16` sets 0x0200, the
  CPLD's read bit (`pistorm.v:184`), in REG_ADDR_HI.
* `pistorm.pi4.c:278`: the second word of an access at 0xFFFFFE sets bit 8 of
  REG_ADDR_HI and becomes a byte access (`ByteFlag` has it; no instance goes
  there).
* `emulator.c:1129`: nothing clears `emulator_exiting` after a switch, so the IPL
  and keyboard threads of the next pass end at once; `EmulatorThreads` shows it in
  every behaviour with a switch. `emulator.c:1138`: `mouse_fd` is closed, not -1.
* `emulator.c:653,672`: Pause and R change the CPU from the keyboard thread.
* `amiga-interrupts.c:55`, `input.c:226`: the lowest instead of the highest
  emulated interrupt; a counter of keys that two threads change.
* `amiga-platform.c:122,339,442`, `amiga-autoconf.c:332`, `m68kcpu.h:1313`: a bus
  that floats high looks like a board; only PiSCSI widens the custom range; no
  limit on Z3 boards; a Z3 count past its end; caches of ranges that stay.

## 8. Not modelled

* PiSCSI, IDE and Gayle, RTG, CDTV, pi-net: register files and drawing that run
  to their end inside one access of the CPU thread. There is nothing to
  interleave and their correctness is that of tables and file formats.
* AHI, keyboard queues and `emulated_irqs`: shared without a lock, and no
  document says what they promise.
* The user-space bus back end and the FC variant of the CPLD are other builds.
* Configuration files, hunk loader: pure functions of a file.
* Musashi and raylib are vendored. What the project adds to Musashi, the ranges
  of memory read and written directly, is in `Autoconfig`; its caches are not.
* Janus, A314 services and Amiga programs, tools, documentation: outside the
  emulator process, or clients of what is modelled.
* In the modelled parts: DEREGISTER, memory requests, SIGTERM and packet lengths
  of the A314; the Z3 window at AC_Z3_BASE (no custom range reaches it), kick13 mode and run-time
  switches of devices; the Z3 address registers by nibbles and `nib_latch`
  (`amiga-autoconf.c:252-279`); the packet that the driver sends by itself is in
  `A314Channels` only; the ranges of ROMs and of `cpu_slot_ram` are only counted
  (`MaxRanges`); the bus accesses of the R key (`emulator.c:672`), which are one more
  user of `g_opsq`; `PISTORM_IOC_RESET_SM` just before a pulse (`emulator.c:207-208`),
  which holds the Amiga in reset between two calls; priorities and affinity of threads; the E clock and the
  synchronisers of the CPLD.

The repository is mostly vendored code, graphics and documents, so the modelled
code is a small share of its lines; it is the part with several actors.

## 9. Plan

1. Done: the link and its types; channels with refinement; bus with refinement;
   interrupts; threads; autoconfiguration; the theorems of section 5.
2. Model next: SIGTERM and the 10 s shutdown of the A314 thread; memory requests
   of its clients; `emulated_irqs` with its three threads; packet lengths.
3. Prove next: `StreamsAgree` and `QueuedIffUnsent` of `A314Channels`, then that
   `FreshIds` holds where no stream outlives its id.
4. Compose: `A314Channels` over the promise of `A314Link`; several users of the
   bus with the pins of `Interrupts`.
