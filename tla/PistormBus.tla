----------------------------- MODULE PistormBus -----------------------------
(* The path of a bus access from a thread of the emulator to the Amiga: the  *)
(* library of the build with the kernel module (ps_protocol_kmod.c), the      *)
(* kernel module's ioctl under its mutex (pistorm.pi4.c) and the CPLD's      *)
(* state machine (pistorm.v), each at the grain of the register writes and   *)
(* the states the other side can see.                                        *)
EXTENDS Naturals, Sequences, FiniteSets

CONSTANTS
    Users,          \* the threads of the emulator that use the bus
    Addrs,          \* the byte addresses, 0 .. Top - 1 for an even Top
    Bytes,          \* the values of a byte
    Ops,            \* the calls each thread makes: [kind, addr, data, width]
    MayStall,       \* addresses whose cycles may never see DTACK
    Batch,          \* PISTORM_ENABLE_BATCH: writes wait in g_opsq
    QueueMax,       \* PISTORM_BATCH_MAX
    Nobody          \* holds no mutex

ASSUME UsersAssumption == Nobody \notin Users
ASSUME AddrsAssumption ==
    /\ IsFiniteSet(Addrs) /\ Addrs # {} /\ Cardinality(Addrs) % 2 = 0
    /\ Addrs = 0 .. Cardinality(Addrs) - 1
    /\ 0 \in Bytes
ASSUME BuildAssumption == Batch \in BOOLEAN
ASSUME QueueAssumption == QueueMax \in Nat \ {0}
ASSUME OpsAssumption ==
    \A u \in Users : \A o \in Ops[u] :
                   /\ o.kind \in {"read", "write", "status", "pins", "pulse", "reset_sm", "flush"}
                   /\ o.width \in {8, 16, 32} /\ o.addr \in Nat
                   /\ o.kind = "write" => o.data \in [1 .. (o.width \div 8) -> Bytes]

VARIABLES
    pc, op,     \* per thread: where it is, and the call it is in (<< >> or <<o>>)
    todo,       \* per thread: the operations its ioctl has still to perform
    half,       \* per thread: which 16-bit transaction of Head(todo)
    got,        \* per thread: the bytes read so far
    index,      \* per thread: the g_opsq_n it has loaded, to push or to flush
    flushing,   \* the threads in the ioctl of ps_busopq_flush
    slots, n,   \* g_opsq and g_opsq_n
    mutex,      \* ps_dev->lock
    latch,      \* the address and data latches: [addr, data]
    req,        \* the CPLD's op_*: [on, read, uds, lds]
    txn,        \* PI_TXN_IN_PROGRESS
    state,      \* the CPLD's state, S0 to S7; 5 stands for S5 to S0
    lines,      \* what the CPLD drives: [read, uds, lds]
    rd,         \* the read latches
    reset,      \* reset_out
    memory,     \* the Amiga's memory
    wrote,      \* history: the memory the writes made so far should leave
    broken      \* history: a transaction has been given up

call == <<op, index, flushing>>
work == <<todo, half, got>>
queue == <<slots, n>>
cpld == <<latch, req, txn, state, lines, rd, reset>>
ghosts == <<wrote, broken>>
vars == <<pc, call, work, queue, mutex, cpld, memory, ghosts>>

-----------------------------------------------------------------------------
(* The 16-bit transactions of an operation.                                  *)

Top == Cardinality(Addrs)
Odd(a) == a % 2 = 1
WordAt(a) == a - (a % 2)
Count(o) == IF o.width = 32 THEN 2 ELSE 1
Byte8(o) == o.width = 8

(* The word put on the data latches: a byte goes to both halves of an even   *)
(* address and to the low half of an odd one.                                *)
Payload(o, i) ==
    IF Byte8(o) THEN <<IF Odd(o.addr) THEN 0 ELSE o.data[1], o.data[1]>>
                ELSE <<o.data[2 * i - 1], o.data[2 * i]>>

Address(o, i) == o.addr + 2 * (i - 1)

(* Bits 9 and 8 of REG_ADDR_HI: a read, and a byte. Bit 8 is also what is    *)
(* left of an address past the 24 bits.                                      *)
ReadFlag(o) == o.kind = "read"
ByteFlag(o, i) == \/ Byte8(o) /\ o.kind = "write"
                  \/ Address(o, i) >= Top

(* The bytes a caller takes from the word it reads. *)
Taken(o, word) == IF ~Byte8(o) THEN word
                  ELSE IF Odd(o.addr) THEN <<word[2]>> ELSE <<word[1]>>

(* What a read that fails leaves the caller with. *)
Zeros(o) == IF o.kind = "read" THEN [i \in 1 .. (o.width \div 8) |-> 0] ELSE << >>

Covers(o) == {o.addr + i : i \in 0 .. (o.width \div 8) - 1}
Written(m, o) == IF o.kind # "write" THEN m
                 ELSE [a \in Addrs |-> IF a \in Covers(o) THEN o.data[a - o.addr + 1] ELSE m[a]]

-----------------------------------------------------------------------------
(* The library: ps_busop and the queue of writes.                            *)

Goto(u, to) == pc' = [pc EXCEPT ![u] = to]

Queued(o) == Batch /\ o.kind = "write"
FlushesFirst_StatusOnly(o) == Batch /\ o.kind = "status" /\ n > 0
FlushesFirst(o) == Batch /\ o.kind \in {"read", "status"} /\ n > 0

Call(u) ==
    /\ pc[u] = "idle"
    /\ \E o \in Ops[u] :
         /\ op' = [op EXCEPT ![u] = <<o>>]
         /\ Goto(u, IF Queued(o) THEN "push"
                    ELSE IF FlushesFirst(o) \/ o.kind = "flush" THEN "flush" ELSE "ioctl")
    /\ UNCHANGED <<work, index, flushing, queue, mutex, cpld, memory, ghosts>>

(* ps_busopq_push: g_opsq[g_opsq_n++] = *op, by threads that share both. *)
LoadIndex(u) ==
    /\ pc[u] = "push"
    /\ index' = [index EXCEPT ![u] = n]
    /\ Goto(u, "store")
    /\ UNCHANGED <<op, work, flushing, queue, mutex, cpld, memory, ghosts>>

StoreOp(u) ==
    /\ pc[u] = "store"
    /\ index[u] < QueueMax         \* past the array: undefined, not followed
    /\ slots' = [slots EXCEPT ![index[u]] = op[u]]
    /\ n' = index[u] + 1
    /\ index' = [index EXCEPT ![u] = 0]
    /\ wrote' = Written(wrote, Head(op[u]))
    /\ Goto(u, IF n' >= QueueMax THEN "flush" ELSE "return")
    /\ UNCHANGED <<op, flushing, work, mutex, cpld, memory, broken>>

(* ps_busopq_flush. *)
NothingToFlush_UnlessFull == ~Batch \/ n < QueueMax
NothingToFlush == ~Batch \/ n = 0

Flush(u) ==
    /\ pc[u] = "flush"
    /\ index' = [index EXCEPT ![u] = n]
    /\ Goto(u, IF NothingToFlush THEN "flushed" ELSE "batch")
    /\ UNCHANGED <<op, flushing, work, queue, mutex, cpld, memory, ghosts>>

EmptyQueue(u) ==
    /\ pc[u] = "empty"
    /\ n' = 0
    /\ index' = [index EXCEPT ![u] = 0]
    /\ flushing' = flushing \ {u}
    /\ Goto(u, "flushed")
    /\ UNCHANGED <<op, work, slots, mutex, cpld, memory, ghosts>>

Flushed(u) ==
    /\ pc[u] = "flushed"
    /\ Goto(u, IF Head(op[u]).kind \in {"read", "status"} THEN "ioctl" ELSE "return")
    /\ UNCHANGED <<call, work, queue, mutex, cpld, memory, ghosts>>

Return(u) ==
    /\ pc[u] = "return"
    /\ op' = [op EXCEPT ![u] = << >>]
    /\ got' = [got EXCEPT ![u] = << >>]
    /\ Goto(u, "idle")
    /\ UNCHANGED <<todo, half, index, flushing, queue, mutex, cpld, memory, ghosts>>

-----------------------------------------------------------------------------
(* The kernel module: ps_ioctl, ps_handle_busop and ps_handle_batch.         *)

MutexFree_Always == TRUE
MutexFree == mutex = Nobody
Copied(u) == [i \in 1 .. index[u] |-> slots[i - 1][1]]

Lock(u) ==
    /\ pc[u] \in {"ioctl", "batch"}
    /\ MutexFree
    /\ mutex' = u
    /\ todo' = [todo EXCEPT ![u] = IF pc[u] = "batch" THEN Copied(u) ELSE op[u]]
    /\ flushing' = IF pc[u] = "batch" THEN flushing \union {u} ELSE flushing
    /\ wrote' = IF pc[u] = "batch" THEN wrote ELSE Written(wrote, Head(op[u]))
    /\ half' = [half EXCEPT ![u] = 1]
    /\ Goto(u, IF pc[u] = "batch" THEN "write"
               ELSE CASE op[u][1].kind = "read"  -> "addr_lo"
                      [] op[u][1].kind = "write" -> "write"
                      [] op[u][1].kind \in {"pulse", "reset_sm"} -> op[u][1].kind
                      [] OTHER -> "unlock")
    /\ UNCHANGED <<op, got, index, queue, cpld, memory, broken>>

(* ps_write_payload to REG_DATA, of a write. *)
LatchData(u) ==
    /\ pc[u] = "write"
    /\ latch' = [latch EXCEPT !.data = Payload(Head(todo[u]), half[u])]
    /\ Goto(u, "addr_lo")
    /\ UNCHANGED <<call, work, queue, mutex,
                   req, txn, state, lines, rd, reset, memory, ghosts>>

(* REG_ADDR_LO: the CPLD raises TXN. In S4 it would be lowered again at once; *)
(* a GPIO write takes the host longer than S4 lasts.                         *)
LatchAddress(u) ==
    /\ pc[u] = "addr_lo"
    /\ state # 4
    /\ latch' = [latch EXCEPT !.addr = Address(Head(todo[u]), half[u]) % Top]
    /\ txn' = TRUE
    /\ Goto(u, "addr_hi")
    /\ UNCHANGED <<call, work, queue, mutex,
                   req, state, lines, rd, reset, memory, ghosts>>

(* REG_ADDR_HI: the request, with the strobes chosen from the latched A0. *)
Upper_Odd(byte) == ~byte \/ Odd(latch.addr)
Upper(byte) == ~byte \/ ~Odd(latch.addr)
Lower(byte) == ~byte \/ Odd(latch.addr)

LatchRequest(u) ==
    /\ pc[u] = "addr_hi"
    /\ LET byte == ByteFlag(Head(todo[u]), half[u])
       IN req' = [on |-> TRUE, read |-> ReadFlag(Head(todo[u])), uds |-> Upper(byte), lds |-> Lower(byte)]
    /\ Goto(u, "wait")
    /\ UNCHANGED <<call, work, queue, mutex,
                   latch, txn, state, lines, rd, reset, memory, ghosts>>

(* ps_wait_for_txn sees TXN low; a read then takes the word from the pins.   *)
(* The next transaction, the next operation of a batch or the end follow.    *)
NextHalf_Onward(u) == half[u] + 1
NextHalf(u) == IF half[u] < Count(Head(todo[u])) THEN half[u] + 1 ELSE 1
Following_None(u) == << >>
Following(u) == Tail(todo[u])

TxnDone(u) ==
    LET o == Head(todo[u])
    IN
    /\ pc[u] = "wait" /\ ~txn
    /\ got' = [got EXCEPT ![u] = IF o.kind = "read" THEN @ \o Taken(o, rd) ELSE @]
    /\ half' = [half EXCEPT ![u] = NextHalf(u)]
    /\ todo' = [todo EXCEPT ![u] = IF half[u] < Count(o) THEN @ ELSE Following(u)]
    /\ Goto(u, IF todo'[u] = << >> THEN "unlock"
               ELSE IF o.kind = "read" THEN "addr_lo" ELSE "write")
    /\ UNCHANGED <<call, queue, mutex, cpld, memory, ghosts>>

(* 500 ms pass: -ETIMEDOUT ends the ioctl, and the operations after it.      *)
GivesUp_Never == FALSE
GivesUp == latch.addr \in MayStall

TxnTimeout(u) ==
    /\ pc[u] = "wait" /\ txn
    /\ GivesUp
    /\ broken' = TRUE
    /\ todo' = [todo EXCEPT ![u] = << >>]
    /\ half' = [half EXCEPT ![u] = 1]
    /\ got' = [got EXCEPT ![u] = Zeros(Head(todo[u]))]
    /\ Goto(u, "unlock")
    /\ UNCHANGED <<call, queue, mutex, cpld, memory, wrote>>

(* ps_pulse_reset: status 0, 100 ms, STATUS_BIT_RESET, all under the mutex. *)
SleepsWith_None == Nobody
SleepsWith == mutex

AssertReset(u) ==
    /\ pc[u] = "pulse"
    /\ reset' = TRUE
    /\ mutex' = SleepsWith
    /\ Goto(u, "msleep")
    /\ UNCHANGED <<call, work, queue,
                   latch, req, txn, state, lines, rd, memory, ghosts>>

ReleaseReset(u) ==
    /\ pc[u] = "msleep"
    /\ reset' = FALSE
    /\ Goto(u, "unlock")
    /\ UNCHANGED <<call, work, queue, mutex,
                   latch, req, txn, state, lines, rd, memory, ghosts>>

(* ps_reset_sm: STATUS_BIT_INIT, which the CPLD does not look at, then 0:     *)
(* both writes leave STATUS_BIT_RESET low, so the Amiga stays in reset.      *)
ResetSm(u) ==
    /\ pc[u] = "reset_sm"
    /\ reset' = TRUE
    /\ Goto(u, "unlock")
    /\ UNCHANGED <<call, work, queue, mutex,
                   latch, req, txn, state, lines, rd, memory, ghosts>>

Unlock(u) ==
    /\ pc[u] = "unlock"
    /\ mutex' = Nobody
    /\ todo' = [todo EXCEPT ![u] = << >>]
    /\ Goto(u, IF u \in flushing THEN "empty" ELSE "return")
    /\ UNCHANGED <<call, half, got, queue, cpld, memory, ghosts>>

-----------------------------------------------------------------------------
(* The CPLD.                                                                 *)

(* S5, S6, S7 and S0 wait for nothing but the clock: one step, back to S1. *)
Advance ==
    /\ state \in {0, 5}
    /\ state' = 1
    /\ UNCHANGED <<pc, call, work, queue, mutex, latch, req, txn, lines, rd, reset, memory, ghosts>>

(* S1 -> S2: a request starts a cycle; S2 drives RW and the strobes from it. *)
StartCycle ==
    /\ state = 1 /\ req.on
    /\ state' = 2
    /\ UNCHANGED <<pc, call, work, queue, mutex, latch, req, txn, lines, rd, reset, memory, ghosts>>

DriveBus ==
    /\ state = 2
    /\ lines' = [read |-> req.read, uds |-> req.uds, lds |-> req.lds]
    /\ state' = 3
    /\ UNCHANGED <<pc, call, work, queue, mutex, latch, req, txn, rd, reset, memory, ghosts>>

(* S3 -> S4 on DTACK (or VMA and E): the Amiga performs the cycle on the      *)
(* addressed word. Every clock of S3 clears op_req, the last one included.   *)
RequestLeft_On == req.on
RequestLeft == FALSE

Acknowledge ==
    LET even == WordAt(latch.addr)
    IN
    /\ state = 3
    /\ state' = 4
    /\ req' = [req EXCEPT !.on = RequestLeft]
    /\ memory' = IF lines.read THEN memory
                 ELSE [memory EXCEPT ![even]     = IF lines.uds THEN latch.data[1] ELSE @,
                                     ![even + 1] = IF lines.lds THEN latch.data[2] ELSE @]
    /\ rd' = IF lines.read THEN <<IF lines.uds THEN memory[even] ELSE rd[1],
                                  IF lines.lds THEN memory[even + 1] ELSE rd[2]>>
             ELSE rd
    /\ UNCHANGED <<pc, call, work, queue, mutex, latch, txn, lines, reset, ghosts>>

(* S4: TXN falls after PI_TXN_IN_PROGRESS_delay, or at the latest with S5. *)
LowerTxn ==
    /\ state = 4 /\ txn
    /\ txn' = FALSE
    /\ UNCHANGED <<pc, call, work, queue, mutex, latch, req, state, lines, rd, reset, memory, ghosts>>

LeaveS4 ==
    /\ state = 4
    /\ state' = 5
    /\ txn' = FALSE
    /\ UNCHANGED <<pc, call, work, queue, mutex, latch, req, lines, rd, reset, memory, ghosts>>

-----------------------------------------------------------------------------
Init ==
    /\ pc = [u \in Users |-> "idle"]
    /\ op = [u \in Users |-> << >>]
    /\ todo = [u \in Users |-> << >>]
    /\ half = [u \in Users |-> 1]
    /\ got = [u \in Users |-> << >>]
    /\ index = [u \in Users |-> 0]
    /\ flushing = {}
    /\ slots = [i \in 0 .. QueueMax - 1 |-> << >>]
    /\ n = 0
    /\ mutex = Nobody
    /\ latch = [addr |-> 0, data |-> <<0, 0>>]
    /\ req = [on |-> FALSE, read |-> TRUE, uds |-> FALSE, lds |-> FALSE]
    /\ txn = FALSE
    /\ state = 0
    /\ lines = [read |-> TRUE, uds |-> FALSE, lds |-> FALSE]
    /\ rd = <<0, 0>>
    /\ reset = FALSE
    /\ memory = [a \in Addrs |-> 0]
    /\ wrote = memory
    /\ broken = FALSE

Library(u) == LoadIndex(u) \/ StoreOp(u) \/ Flush(u) \/ EmptyQueue(u) \/ Flushed(u) \/ Return(u)
Transact(u) == LatchData(u) \/ LatchAddress(u) \/ LatchRequest(u) \/ TxnDone(u)
Ioctl(u) == Transact(u) \/ TxnTimeout(u) \/ AssertReset(u) \/ ReleaseReset(u) \/ ResetSm(u) \/ Unlock(u)
Clocked == Advance \/ StartCycle \/ DriveBus \/ LowerTxn \/ LeaveS4

Next == \/ \E u \in Users : Call(u) \/ Library(u) \/ Lock(u) \/ Ioctl(u)
        \/ Clocked \/ Acknowledge

(* The thread whose loop calls ps_flush_batch_queue (cpu_task). *)
Flushers == {u \in Users : \E o \in Ops[u] : o.kind = "flush"}

(* Threads run, the kernel's mutex is handed on, the CPLD is clocked, and the *)
(* Amiga acknowledges the cycles of every address that cannot stall.         *)
Fairness ==
    /\ \A u \in Users : WF_vars(Library(u)) /\ SF_vars(Lock(u)) /\ WF_vars(Ioctl(u))
    /\ \A u \in Flushers : SF_vars(Call(u) /\ Head(op'[u]).kind = "flush")
    /\ WF_vars(Clocked)
    /\ WF_vars(latch.addr \notin MayStall /\ Acknowledge)

Spec == Init /\ [][Next]_vars /\ Fairness

-----------------------------------------------------------------------------
(* Properties.                                                               *)

Places == {"idle", "push", "store", "flush", "batch", "empty", "flushed", "return", "ioctl",
           "write", "addr_lo", "addr_hi", "wait", "pulse", "msleep", "reset_sm", "unlock"}
InIoctl == {"write", "addr_lo", "addr_hi", "wait", "pulse", "msleep", "reset_sm", "unlock"}
Requests == [on : BOOLEAN, read : BOOLEAN, uds : BOOLEAN, lds : BOOLEAN]

(* The types of the state of PistormBus. *)
TypeOK ==
    /\ pc \in [Users -> Places]
    /\ \A u \in Users : op[u] \in {<< >>} \union {<<o>> : o \in Ops[u]}
    /\ half \in [Users -> {1, 2}]
    /\ index \in [Users -> 0 .. QueueMax]
    /\ flushing \subseteq Users
    /\ n \in 0 .. QueueMax
    /\ mutex \in Users \union {Nobody}
    /\ latch.addr \in Addrs
    /\ req \in Requests
    /\ txn \in BOOLEAN /\ state \in 0 .. 5 /\ reset \in BOOLEAN
    /\ memory \in [Addrs -> Bytes] /\ wrote \in [Addrs -> Bytes]
    /\ broken \in BOOLEAN

(* A request the CPLD has taken up belongs to the thread that holds the       *)
(* kernel's mutex and waits for it, and asks for the address and direction   *)
(* of that thread's operation, until a transaction is given up.              *)
CyclesAsAsked ==
    (req.on /\ ~broken) =>
        \E u \in Users :
            /\ mutex = u /\ pc[u] = "wait" /\ txn
            /\ latch.addr = Address(Head(todo[u]), half[u]) % Top
            /\ req.read = (Head(todo[u]).kind = "read")

(* The Amiga is never reset (PISTORM_IOC_PULSE_RESET, 100 ms) while a bus     *)
(* cycle is under way: ps_ioctl holds the mutex for the whole pulse.         *)
NoCycleInReset == (reset /\ ~broken) => state \notin {2, 3}

(* What a read of an operation's bytes should give. *)
SeenBy(o) == IF o.kind # "read" THEN << >>
             ELSE [i \in 1 .. (o.width \div 8) |-> wrote[o.addr + i - 1]]

(* "For read operations, flush any pending writes first to maintain           *)
(* ordering" (ps_busop): what a thread reads is what the writes made before   *)
(* it, its own in g_opsq included, left there.                               *)
ReadIsCurrent ==
    \A u \in Users :
        (pc[u] = "unlock" /\ u \notin flushing /\ Head(op[u]).kind = "read" /\ ~broken)
            => got[u] = SeenBy(Head(op[u]))

(* When ps_write_8, ps_write_16 or ps_write_32 is through with the bus, the   *)
(* Amiga's memory holds what it wrote, and no byte beside it has changed.    *)
WriteIsMade ==
    \A u \in Users :
        (pc[u] = "unlock" /\ u \notin flushing /\ Head(op[u]).kind = "write" /\ ~broken)
            => memory = wrote

(* A batch the queue is emptied of has been performed: every write made so    *)
(* far is in the Amiga's memory when ps_busopq_flush returns.                *)
FlushedIsMade == \A u \in Users : (pc[u] = "flushed" /\ ~broken) => memory = wrote

(* The library, the kernel module and the CPLD together implement AmigaBus:   *)
(* a call takes effect at once, between its start and its return, until the   *)
(* first transaction that is given up.                                       *)
Performed ==
    {u \in Users : /\ op[u] # << >>
                   /\ \/ pc[u] = "return"
                      \/ pc[u] \in InIoctl /\ u \notin flushing
                      \/ Queued(Head(op[u])) /\ pc[u] \notin {"push", "store"}}
Promise == INSTANCE AmigaBus WITH
    memory <- wrote, asked <- op, performed <- Performed,
    answer <- [u \in Users |->
                 IF u \notin Performed THEN << >>
                 ELSE IF pc[u] = "return" THEN got[u]
                 ELSE SeenBy(Head(op[u]))]
ActsAtOnce == Promise!Spec

(* Every call returns: a transaction that the Amiga never acknowledges is     *)
(* given up after 500 ms (ps_wait_for_txn).                                  *)
CallsReturn == \A u \in Users : pc[u] # "idle" ~> pc[u] = "idle"

(* A write does not stay in g_opsq: the CPU's loop flushes it, whatever the   *)
(* program does next.                                                        *)
QueueDrains == n > 0 ~> (n = 0)
=============================================================================
