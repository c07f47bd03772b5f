--------------------------- MODULE PistormBusProofs ---------------------------
(* What PistormBus does for any number of threads, any calls and any memory.  *)
(* First what it owes to the mutex of the kernel module: the CPLD never runs *)
(* a cycle but for the thread in ps_ioctl, and a reset pulse never meets one.*)
(* Then what becomes of the words: the writes are made, the reads are        *)
(* current, and the whole implements AmigaBus. The argument of that part is  *)
(* what the memory still owes: a byte that differs from what was last        *)
(* written to it is covered by an operation that is still to be performed,   *)
(* in the queue or in the batch under way, and the last of them writes it.   *)
EXTENDS PistormBus, TLAPS, FiniteSetTheorems, SequenceTheorems

(* The form of what the steps of a transaction change. *)
Shapes ==
    /\ pc \in [Users -> Places]
    /\ DOMAIN todo = Users /\ DOMAIN half = Users
    /\ latch = [addr |-> latch.addr, data |-> latch.data]
    /\ req \in Requests

(* ps_ioctl holds the mutex from its first step to its last. *)
MutualExclusion == \A u \in Users : pc[u] \in InIoctl => mutex = u

(* The latched address is that of the transaction of u. *)
AddressOf(u) == latch.addr = Address(Head(todo[u]), half[u]) % Top

(* A cycle is begun for a request; a request is on only while its thread     *)
(* waits with TXN high; and none is on when the next is put together.        *)
CycleHasRequest == state \in {2, 3} => req.on
RequestIsAwaited ==
    req.on => \E u \in Users :
                /\ pc[u] = "wait" /\ txn /\ state # 4
                /\ AddressOf(u) /\ req.read = ReadFlag(Head(todo[u]))
LatchesAreFree ==
    \A u \in Users : pc[u] = "addr_hi" => txn /\ state # 4 /\ ~req.on /\ AddressOf(u)
OneAtATime == ~broken => CycleHasRequest /\ RequestIsAwaited /\ LatchesAreFree

BusInv == Shapes /\ MutualExclusion /\ OneAtATime

(* A thread in a call is in one of its calls, and the reset line is low only *)
(* while a thread sleeps in ps_pulse_reset.                                  *)
NoResetSm == \A u \in Users : \A o \in Ops[u] : o.kind # "reset_sm"
InACall ==
    /\ DOMAIN op = Users
    /\ \A u \in Users : pc[u] # "idle" => \E o \in Ops[u] : op[u] = <<o>>
ResetByPulse ==
    /\ \A u \in Users : pc[u] # "reset_sm"
    /\ reset => \E u \in Users : pc[u] = "msleep"

-----------------------------------------------------------------------------
LEMMA InitInv == Init => BusInv
<1> SUFFICES ASSUME Init PROVE BusInv
    OBVIOUS
<1>1. Shapes
    BY DEF Init, Shapes, Places, Requests
<1>2. MutualExclusion
    BY DEF Init, MutualExclusion, InIoctl
<1>3. OneAtATime
    BY DEF Init, OneAtATime, CycleHasRequest, RequestIsAwaited, LatchesAreFree
<1> QED BY <1>1, <1>2, <1>3 DEF BusInv

LEMMA ShapesKept == ASSUME Shapes, [Next]_vars PROVE Shapes'
<1>1. ASSUME NEW u \in Users, Call(u) PROVE Shapes'
    BY <1>1 DEF Call, Goto, call, work, queue, cpld, ghosts, Shapes, Places
<1>2. ASSUME NEW u \in Users, LoadIndex(u) PROVE Shapes'
    BY <1>2 DEF LoadIndex, Goto, call, work, queue, cpld, ghosts, Shapes, Places
<1>3. ASSUME NEW u \in Users, StoreOp(u) PROVE Shapes'
    BY <1>3 DEF StoreOp, Goto, call, work, queue, cpld, ghosts, Shapes, Places
<1>4. ASSUME NEW u \in Users, Flush(u) PROVE Shapes'
    BY <1>4 DEF Flush, Goto, call, work, queue, cpld, ghosts, Shapes, Places
<1>5. ASSUME NEW u \in Users, EmptyQueue(u) PROVE Shapes'
    BY <1>5 DEF EmptyQueue, Goto, call, work, queue, cpld, ghosts, Shapes, Places
<1>6. ASSUME NEW u \in Users, Flushed(u) PROVE Shapes'
    BY <1>6 DEF Flushed, Goto, call, work, queue, cpld, ghosts, Shapes, Places
<1>7. ASSUME NEW u \in Users, Return(u) PROVE Shapes'
    BY <1>7 DEF Return, Goto, call, work, queue, cpld, ghosts, Shapes, Places
<1>8. ASSUME NEW u \in Users, Lock(u) PROVE Shapes'
    BY <1>8 DEF Lock, Goto, call, work, queue, cpld, ghosts, Shapes, Places
<1>9. ASSUME NEW u \in Users, LatchData(u) PROVE Shapes'
    BY <1>9 DEF LatchData, Goto, call, work, queue, cpld, ghosts, Shapes, Places
<1>10. ASSUME NEW u \in Users, LatchAddress(u) PROVE Shapes'
    BY <1>10 DEF LatchAddress, Goto, call, work, queue, cpld, ghosts, Shapes, Places
<1>11. ASSUME NEW u \in Users, LatchRequest(u) PROVE Shapes'
    BY <1>11 DEF LatchRequest, Goto, call, work, queue, cpld, ghosts, Shapes, Places, Requests, ReadFlag, Upper, Lower
<1>12. ASSUME NEW u \in Users, TxnDone(u) PROVE Shapes'
    BY <1>12 DEF TxnDone, Goto, call, work, queue, cpld, ghosts, Shapes, Places
<1>13. ASSUME NEW u \in Users, TxnTimeout(u) PROVE Shapes'
    BY <1>13 DEF TxnTimeout, Goto, call, work, queue, cpld, ghosts, Shapes, Places
<1>14. ASSUME NEW u \in Users, AssertReset(u) PROVE Shapes'
    BY <1>14 DEF AssertReset, Goto, call, work, queue, cpld, ghosts, Shapes, Places
<1>15. ASSUME NEW u \in Users, ReleaseReset(u) PROVE Shapes'
    BY <1>15 DEF ReleaseReset, Goto, call, work, queue, cpld, ghosts, Shapes, Places
<1>16. ASSUME NEW u \in Users, ResetSm(u) PROVE Shapes'
    BY <1>16 DEF ResetSm, Goto, call, work, queue, cpld, ghosts, Shapes, Places
<1>17. ASSUME NEW u \in Users, Unlock(u) PROVE Shapes'
    BY <1>17 DEF Unlock, Goto, call, work, queue, cpld, ghosts, Shapes, Places
<1>18. ASSUME Advance PROVE Shapes'
    BY <1>18 DEF Advance, call, work, queue, cpld, ghosts, Shapes
<1>19. ASSUME StartCycle PROVE Shapes'
    BY <1>19 DEF StartCycle, call, work, queue, cpld, ghosts, Shapes
<1>20. ASSUME DriveBus PROVE Shapes'
    BY <1>20 DEF DriveBus, call, work, queue, cpld, ghosts, Shapes
<1>21. ASSUME LowerTxn PROVE Shapes'
    BY <1>21 DEF LowerTxn, call, work, queue, cpld, ghosts, Shapes
<1>22. ASSUME LeaveS4 PROVE Shapes'
    BY <1>22 DEF LeaveS4, call, work, queue, cpld, ghosts, Shapes
<1>23. ASSUME Acknowledge PROVE Shapes'
    BY <1>23 DEF Acknowledge, call, work, queue, cpld, ghosts, Shapes, Requests, RequestLeft
<1>24. ASSUME UNCHANGED vars PROVE Shapes'
    BY <1>24 DEF vars, call, work, queue, cpld, ghosts, Shapes
<1> QED BY <1>1, <1>2, <1>3, <1>4, <1>5, <1>6, <1>7, <1>8, <1>9, <1>10, <1>11, <1>12, <1>13, <1>14, <1>15, <1>16, <1>17, <1>18, <1>19, <1>20, <1>21, <1>22, <1>23, <1>24 DEF Next, Library, Ioctl, Transact, Clocked

LEMMA MutexKept == ASSUME Shapes, MutualExclusion, [Next]_vars PROVE MutualExclusion'
<1>1. ASSUME NEW u \in Users, Call(u) PROVE MutualExclusion'
    BY <1>1 DEF Call, Goto, call, work, queue, cpld, ghosts, MutualExclusion, InIoctl, Shapes
<1>2. ASSUME NEW u \in Users, LoadIndex(u) PROVE MutualExclusion'
    BY <1>2 DEF LoadIndex, Goto, call, work, queue, cpld, ghosts, MutualExclusion, InIoctl, Shapes
<1>3. ASSUME NEW u \in Users, StoreOp(u) PROVE MutualExclusion'
    BY <1>3 DEF StoreOp, Goto, call, work, queue, cpld, ghosts, MutualExclusion, InIoctl, Shapes
<1>4. ASSUME NEW u \in Users, Flush(u) PROVE MutualExclusion'
    BY <1>4 DEF Flush, Goto, call, work, queue, cpld, ghosts, MutualExclusion, InIoctl, Shapes
<1>5. ASSUME NEW u \in Users, EmptyQueue(u) PROVE MutualExclusion'
    BY <1>5 DEF EmptyQueue, Goto, call, work, queue, cpld, ghosts, MutualExclusion, InIoctl, Shapes
<1>6. ASSUME NEW u \in Users, Flushed(u) PROVE MutualExclusion'
    BY <1>6 DEF Flushed, Goto, call, work, queue, cpld, ghosts, MutualExclusion, InIoctl, Shapes
<1>7. ASSUME NEW u \in Users, Return(u) PROVE MutualExclusion'
    BY <1>7 DEF Return, Goto, call, work, queue, cpld, ghosts, MutualExclusion, InIoctl, Shapes
<1>8. ASSUME NEW u \in Users, Lock(u) PROVE MutualExclusion'
    BY <1>8, UsersAssumption DEF Lock, Goto, call, work, queue, cpld, ghosts, MutualExclusion, InIoctl, Shapes, MutexFree
<1>9. ASSUME NEW u \in Users, LatchData(u) PROVE MutualExclusion'
    BY <1>9 DEF LatchData, Goto, call, work, queue, cpld, ghosts, MutualExclusion, InIoctl, Shapes
<1>10. ASSUME NEW u \in Users, LatchAddress(u) PROVE MutualExclusion'
    BY <1>10 DEF LatchAddress, Goto, call, work, queue, cpld, ghosts, MutualExclusion, InIoctl, Shapes
<1>11. ASSUME NEW u \in Users, LatchRequest(u) PROVE MutualExclusion'
    BY <1>11 DEF LatchRequest, Goto, call, work, queue, cpld, ghosts, MutualExclusion, InIoctl, Shapes
<1>12. ASSUME NEW u \in Users, TxnDone(u) PROVE MutualExclusion'
    BY <1>12 DEF TxnDone, Goto, call, work, queue, cpld, ghosts, MutualExclusion, InIoctl, Shapes
<1>13. ASSUME NEW u \in Users, TxnTimeout(u) PROVE MutualExclusion'
    BY <1>13 DEF TxnTimeout, Goto, call, work, queue, cpld, ghosts, MutualExclusion, InIoctl, Shapes
<1>14. ASSUME NEW u \in Users, AssertReset(u) PROVE MutualExclusion'
    BY <1>14 DEF AssertReset, Goto, call, work, queue, cpld, ghosts, MutualExclusion, InIoctl, Shapes, SleepsWith
<1>15. ASSUME NEW u \in Users, ReleaseReset(u) PROVE MutualExclusion'
    BY <1>15 DEF ReleaseReset, Goto, call, work, queue, cpld, ghosts, MutualExclusion, InIoctl, Shapes
<1>16. ASSUME NEW u \in Users, ResetSm(u) PROVE MutualExclusion'
    BY <1>16 DEF ResetSm, Goto, call, work, queue, cpld, ghosts, MutualExclusion, InIoctl, Shapes
<1>17. ASSUME NEW u \in Users, Unlock(u) PROVE MutualExclusion'
    BY <1>17 DEF Unlock, Goto, call, work, queue, cpld, ghosts, MutualExclusion, InIoctl, Shapes
<1>18. ASSUME Advance PROVE MutualExclusion'
    BY <1>18 DEF Advance, call, work, queue, cpld, ghosts, MutualExclusion, InIoctl, Shapes
<1>19. ASSUME StartCycle PROVE MutualExclusion'
    BY <1>19 DEF StartCycle, call, work, queue, cpld, ghosts, MutualExclusion, InIoctl, Shapes
<1>20. ASSUME DriveBus PROVE MutualExclusion'
    BY <1>20 DEF DriveBus, call, work, queue, cpld, ghosts, MutualExclusion, InIoctl, Shapes
<1>21. ASSUME LowerTxn PROVE MutualExclusion'
    BY <1>21 DEF LowerTxn, call, work, queue, cpld, ghosts, MutualExclusion, InIoctl, Shapes
<1>22. ASSUME LeaveS4 PROVE MutualExclusion'
    BY <1>22 DEF LeaveS4, call, work, queue, cpld, ghosts, MutualExclusion, InIoctl, Shapes
<1>23. ASSUME Acknowledge PROVE MutualExclusion'
    BY <1>23 DEF Acknowledge, call, work, queue, cpld, ghosts, MutualExclusion, InIoctl, Shapes
<1>24. ASSUME UNCHANGED vars PROVE MutualExclusion'
    BY <1>24 DEF vars, call, work, queue, cpld, ghosts, MutualExclusion, InIoctl, Shapes
<1> QED BY <1>1, <1>2, <1>3, <1>4, <1>5, <1>6, <1>7, <1>8, <1>9, <1>10, <1>11, <1>12, <1>13, <1>14, <1>15, <1>16, <1>17, <1>18, <1>19, <1>20, <1>21, <1>22, <1>23, <1>24 DEF Next, Library, Ioctl, Transact, Clocked

LEMMA OneKept == ASSUME BusInv, [Next]_vars PROVE OneAtATime'
<1> USE DEF BusInv
<1>1. ASSUME NEW u \in Users, Call(u) PROVE OneAtATime'
    BY <1>1 DEF Call, Goto, call, work, queue, cpld, ghosts, OneAtATime, CycleHasRequest, RequestIsAwaited, LatchesAreFree, AddressOf, Shapes, MutualExclusion, InIoctl
<1>2. ASSUME NEW u \in Users, LoadIndex(u) PROVE OneAtATime'
    BY <1>2 DEF LoadIndex, Goto, call, work, queue, cpld, ghosts, OneAtATime, CycleHasRequest, RequestIsAwaited, LatchesAreFree, AddressOf, Shapes, MutualExclusion, InIoctl
<1>3. ASSUME NEW u \in Users, StoreOp(u) PROVE OneAtATime'
    BY <1>3 DEF StoreOp, Goto, call, work, queue, cpld, ghosts, OneAtATime, CycleHasRequest, RequestIsAwaited, LatchesAreFree, AddressOf, Shapes, MutualExclusion, InIoctl
<1>4. ASSUME NEW u \in Users, Flush(u) PROVE OneAtATime'
    BY <1>4 DEF Flush, Goto, call, work, queue, cpld, ghosts, OneAtATime, CycleHasRequest, RequestIsAwaited, LatchesAreFree, AddressOf, Shapes, MutualExclusion, InIoctl
<1>5. ASSUME NEW u \in Users, EmptyQueue(u) PROVE OneAtATime'
    BY <1>5 DEF EmptyQueue, Goto, call, work, queue, cpld, ghosts, OneAtATime, CycleHasRequest, RequestIsAwaited, LatchesAreFree, AddressOf, Shapes, MutualExclusion, InIoctl
<1>6. ASSUME NEW u \in Users, Flushed(u) PROVE OneAtATime'
    BY <1>6 DEF Flushed, Goto, call, work, queue, cpld, ghosts, OneAtATime, CycleHasRequest, RequestIsAwaited, LatchesAreFree, AddressOf, Shapes, MutualExclusion, InIoctl
<1>7. ASSUME NEW u \in Users, Return(u) PROVE OneAtATime'
    BY <1>7 DEF Return, Goto, call, work, queue, cpld, ghosts, OneAtATime, CycleHasRequest, RequestIsAwaited, LatchesAreFree, AddressOf, Shapes, MutualExclusion, InIoctl
<1>8. ASSUME NEW u \in Users, Lock(u) PROVE OneAtATime'
    BY <1>8 DEF Lock, Goto, call, work, queue, cpld, ghosts, OneAtATime, CycleHasRequest, RequestIsAwaited, LatchesAreFree, AddressOf, Shapes, MutualExclusion, InIoctl
<1>9. ASSUME NEW u \in Users, LatchData(u) PROVE OneAtATime'
    BY <1>9 DEF LatchData, Goto, call, work, queue, cpld, ghosts, OneAtATime, CycleHasRequest, RequestIsAwaited, LatchesAreFree, AddressOf, Shapes, MutualExclusion, InIoctl
<1>10. ASSUME NEW u \in Users, LatchAddress(u) PROVE OneAtATime'
    BY <1>10 DEF LatchAddress, Goto, call, work, queue, cpld, ghosts, OneAtATime, CycleHasRequest, RequestIsAwaited, LatchesAreFree, AddressOf, Shapes, MutualExclusion, InIoctl
<1>11. ASSUME NEW u \in Users, LatchRequest(u) PROVE OneAtATime'
    BY <1>11 DEF LatchRequest, Goto, call, work, queue, cpld, ghosts, OneAtATime, CycleHasRequest, RequestIsAwaited, LatchesAreFree, AddressOf, Shapes, MutualExclusion, InIoctl
<1>12. ASSUME NEW u \in Users, TxnDone(u) PROVE OneAtATime'
    BY <1>12 DEF TxnDone, Goto, call, work, queue, cpld, ghosts, OneAtATime, CycleHasRequest, RequestIsAwaited, LatchesAreFree, AddressOf, Shapes, MutualExclusion, InIoctl
<1>13. ASSUME NEW u \in Users, TxnTimeout(u) PROVE OneAtATime'
    BY <1>13 DEF TxnTimeout, Goto, call, work, queue, cpld, ghosts, OneAtATime, CycleHasRequest, RequestIsAwaited, LatchesAreFree, AddressOf, Shapes, MutualExclusion, InIoctl
<1>14. ASSUME NEW u \in Users, AssertReset(u) PROVE OneAtATime'
    BY <1>14 DEF AssertReset, Goto, call, work, queue, cpld, ghosts, OneAtATime, CycleHasRequest, RequestIsAwaited, LatchesAreFree, AddressOf, Shapes, MutualExclusion, InIoctl
<1>15. ASSUME NEW u \in Users, ReleaseReset(u) PROVE OneAtATime'
    BY <1>15 DEF ReleaseReset, Goto, call, work, queue, cpld, ghosts, OneAtATime, CycleHasRequest, RequestIsAwaited, LatchesAreFree, AddressOf, Shapes, MutualExclusion, InIoctl
<1>16. ASSUME NEW u \in Users, ResetSm(u) PROVE OneAtATime'
    BY <1>16 DEF ResetSm, Goto, call, work, queue, cpld, ghosts, OneAtATime, CycleHasRequest, RequestIsAwaited, LatchesAreFree, AddressOf, Shapes, MutualExclusion, InIoctl
<1>17. ASSUME NEW u \in Users, Unlock(u) PROVE OneAtATime'
    BY <1>17 DEF Unlock, Goto, call, work, queue, cpld, ghosts, OneAtATime, CycleHasRequest, RequestIsAwaited, LatchesAreFree, AddressOf, Shapes, MutualExclusion, InIoctl
<1>18. ASSUME Advance PROVE OneAtATime'
    BY <1>18 DEF Advance, call, work, queue, cpld, ghosts, OneAtATime, CycleHasRequest, RequestIsAwaited, LatchesAreFree, AddressOf, Shapes, MutualExclusion, InIoctl
<1>19. ASSUME StartCycle PROVE OneAtATime'
    BY <1>19 DEF StartCycle, call, work, queue, cpld, ghosts, OneAtATime, CycleHasRequest, RequestIsAwaited, LatchesAreFree, AddressOf, Shapes, MutualExclusion, InIoctl
<1>20. ASSUME DriveBus PROVE OneAtATime'
    BY <1>20 DEF DriveBus, call, work, queue, cpld, ghosts, OneAtATime, CycleHasRequest, RequestIsAwaited, LatchesAreFree, AddressOf, Shapes, MutualExclusion, InIoctl
<1>21. ASSUME LowerTxn PROVE OneAtATime'
    BY <1>21 DEF LowerTxn, call, work, queue, cpld, ghosts, OneAtATime, CycleHasRequest, RequestIsAwaited, LatchesAreFree, AddressOf, Shapes, MutualExclusion, InIoctl
<1>22. ASSUME LeaveS4 PROVE OneAtATime'
    BY <1>22 DEF LeaveS4, call, work, queue, cpld, ghosts, OneAtATime, CycleHasRequest, RequestIsAwaited, LatchesAreFree, AddressOf, Shapes, MutualExclusion, InIoctl
<1>23. ASSUME Acknowledge PROVE OneAtATime'
    BY <1>23 DEF Acknowledge, call, work, queue, cpld, ghosts, OneAtATime, CycleHasRequest, RequestIsAwaited, LatchesAreFree, AddressOf, Shapes, MutualExclusion, InIoctl, Requests, RequestLeft
<1>24. ASSUME UNCHANGED vars PROVE OneAtATime'
    BY <1>24 DEF vars, call, work, queue, cpld, ghosts, OneAtATime, CycleHasRequest, RequestIsAwaited, LatchesAreFree, AddressOf, Shapes, MutualExclusion, InIoctl
<1> QED BY <1>1, <1>2, <1>3, <1>4, <1>5, <1>6, <1>7, <1>8, <1>9, <1>10, <1>11, <1>12, <1>13, <1>14, <1>15, <1>16, <1>17, <1>18, <1>19, <1>20, <1>21, <1>22, <1>23, <1>24 DEF Next, Library, Ioctl, Transact, Clocked

(* A request that is on while nothing was given up is one its thread waits   *)
(* for, so that CyclesAsAsked follows.                                       *)
LEMMA InvAsAsked == BusInv => CyclesAsAsked
<1> SUFFICES ASSUME BusInv, req.on, ~broken PROVE
        \E u \in Users :
            /\ mutex = u /\ pc[u] = "wait" /\ txn
            /\ latch.addr = Address(Head(todo[u]), half[u]) % Top
            /\ req.read = (Head(todo[u]).kind = "read")
    BY DEF CyclesAsAsked
<1>1. PICK u \in Users : /\ pc[u] = "wait" /\ txn
                         /\ AddressOf(u) /\ req.read = ReadFlag(Head(todo[u]))
    BY DEF BusInv, OneAtATime, RequestIsAwaited
<1>2. mutex = u
    BY <1>1 DEF BusInv, MutualExclusion, InIoctl
<1> QED BY <1>1, <1>2 DEF AddressOf, ReadFlag

LEMMA InvKept == BusInv /\ [Next]_vars => BusInv'
    BY ShapesKept, MutexKept, OneKept DEF BusInv

LEMMA BusInvariant == Spec => []BusInv
    BY InitInv, InvKept, PTL DEF Spec

(* Until a transaction is given up, the CPLD never holds a request but the   *)
(* one that the holder of the kernel's mutex waits for, with the address and *)
(* the direction of its operation: two threads never share a cycle           *)
(* (ps_ioctl, pistorm.pi4.c:449-506).                                        *)
THEOREM CyclesBelong == Spec => []CyclesAsAsked
    BY BusInvariant, InvAsAsked, PTL

-----------------------------------------------------------------------------
LEMMA InACallKept == ASSUME Shapes, InACall, [Next]_vars PROVE InACall'
<1>1. ASSUME NEW u \in Users, Call(u) PROVE InACall'
    BY <1>1 DEF Call, Goto, call, work, queue, cpld, ghosts, InACall, Shapes
<1>2. ASSUME NEW u \in Users, LoadIndex(u) PROVE InACall'
    BY <1>2 DEF LoadIndex, Goto, call, work, queue, cpld, ghosts, InACall, Shapes
<1>3. ASSUME NEW u \in Users, StoreOp(u) PROVE InACall'
    BY <1>3 DEF StoreOp, Goto, call, work, queue, cpld, ghosts, InACall, Shapes
<1>4. ASSUME NEW u \in Users, Flush(u) PROVE InACall'
    BY <1>4 DEF Flush, Goto, call, work, queue, cpld, ghosts, InACall, Shapes
<1>5. ASSUME NEW u \in Users, EmptyQueue(u) PROVE InACall'
    BY <1>5 DEF EmptyQueue, Goto, call, work, queue, cpld, ghosts, InACall, Shapes
<1>6. ASSUME NEW u \in Users, Flushed(u) PROVE InACall'
    BY <1>6 DEF Flushed, Goto, call, work, queue, cpld, ghosts, InACall, Shapes
<1>7. ASSUME NEW u \in Users, Return(u) PROVE InACall'
    BY <1>7 DEF Return, Goto, call, work, queue, cpld, ghosts, InACall, Shapes
<1>8. ASSUME NEW u \in Users, Lock(u) PROVE InACall'
    BY <1>8 DEF Lock, Goto, call, work, queue, cpld, ghosts, InACall, Shapes
<1>9. ASSUME NEW u \in Users, LatchData(u) PROVE InACall'
    BY <1>9 DEF LatchData, Goto, call, work, queue, cpld, ghosts, InACall, Shapes
<1>10. ASSUME NEW u \in Users, LatchAddress(u) PROVE InACall'
    BY <1>10 DEF LatchAddress, Goto, call, work, queue, cpld, ghosts, InACall, Shapes
<1>11. ASSUME NEW u \in Users, LatchRequest(u) PROVE InACall'
    BY <1>11 DEF LatchRequest, Goto, call, work, queue, cpld, ghosts, InACall, Shapes
<1>12. ASSUME NEW u \in Users, TxnDone(u) PROVE InACall'
    BY <1>12 DEF TxnDone, Goto, call, work, queue, cpld, ghosts, InACall, Shapes
<1>13. ASSUME NEW u \in Users, TxnTimeout(u) PROVE InACall'
    BY <1>13 DEF TxnTimeout, Goto, call, work, queue, cpld, ghosts, InACall, Shapes
<1>14. ASSUME NEW u \in Users, AssertReset(u) PROVE InACall'
    BY <1>14 DEF AssertReset, Goto, call, work, queue, cpld, ghosts, InACall, Shapes
<1>15. ASSUME NEW u \in Users, ReleaseReset(u) PROVE InACall'
    BY <1>15 DEF ReleaseReset, Goto, call, work, queue, cpld, ghosts, InACall, Shapes
<1>16. ASSUME NEW u \in Users, ResetSm(u) PROVE InACall'
    BY <1>16 DEF ResetSm, Goto, call, work, queue, cpld, ghosts, InACall, Shapes
<1>17. ASSUME NEW u \in Users, Unlock(u) PROVE InACall'
    BY <1>17 DEF Unlock, Goto, call, work, queue, cpld, ghosts, InACall, Shapes
<1>18. ASSUME Advance PROVE InACall'
    BY <1>18 DEF Advance, call, work, queue, cpld, ghosts, InACall, Shapes
<1>19. ASSUME StartCycle PROVE InACall'
    BY <1>19 DEF StartCycle, call, work, queue, cpld, ghosts, InACall, Shapes
<1>20. ASSUME DriveBus PROVE InACall'
    BY <1>20 DEF DriveBus, call, work, queue, cpld, ghosts, InACall, Shapes
<1>21. ASSUME LowerTxn PROVE InACall'
    BY <1>21 DEF LowerTxn, call, work, queue, cpld, ghosts, InACall, Shapes
<1>22. ASSUME LeaveS4 PROVE InACall'
    BY <1>22 DEF LeaveS4, call, work, queue, cpld, ghosts, InACall, Shapes
<1>23. ASSUME Acknowledge PROVE InACall'
    BY <1>23 DEF Acknowledge, call, work, queue, cpld, ghosts, InACall, Shapes
<1>24. ASSUME UNCHANGED vars PROVE InACall'
    BY <1>24 DEF vars, call, work, queue, cpld, ghosts, InACall, Shapes
<1> QED BY <1>1, <1>2, <1>3, <1>4, <1>5, <1>6, <1>7, <1>8, <1>9, <1>10, <1>11, <1>12, <1>13, <1>14, <1>15, <1>16, <1>17, <1>18, <1>19, <1>20, <1>21, <1>22, <1>23, <1>24 DEF Next, Library, Ioctl, Transact, Clocked

LEMMA ResetKept ==
    ASSUME NoResetSm, Shapes, InACall, MutualExclusion, ResetByPulse, [Next]_vars
    PROVE  ResetByPulse'
<1>1. ASSUME NEW u \in Users, Call(u) PROVE ResetByPulse'
    BY <1>1 DEF Call, Goto, call, work, queue, cpld, ghosts, ResetByPulse, Shapes
<1>2. ASSUME NEW u \in Users, LoadIndex(u) PROVE ResetByPulse'
    BY <1>2 DEF LoadIndex, Goto, call, work, queue, cpld, ghosts, ResetByPulse, Shapes
<1>3. ASSUME NEW u \in Users, StoreOp(u) PROVE ResetByPulse'
    BY <1>3 DEF StoreOp, Goto, call, work, queue, cpld, ghosts, ResetByPulse, Shapes
<1>4. ASSUME NEW u \in Users, Flush(u) PROVE ResetByPulse'
    BY <1>4 DEF Flush, Goto, call, work, queue, cpld, ghosts, ResetByPulse, Shapes
<1>5. ASSUME NEW u \in Users, EmptyQueue(u) PROVE ResetByPulse'
    BY <1>5 DEF EmptyQueue, Goto, call, work, queue, cpld, ghosts, ResetByPulse, Shapes
<1>6. ASSUME NEW u \in Users, Flushed(u) PROVE ResetByPulse'
    BY <1>6 DEF Flushed, Goto, call, work, queue, cpld, ghosts, ResetByPulse, Shapes
<1>7. ASSUME NEW u \in Users, Return(u) PROVE ResetByPulse'
    BY <1>7 DEF Return, Goto, call, work, queue, cpld, ghosts, ResetByPulse, Shapes
<1>8. ASSUME NEW u \in Users, Lock(u) PROVE ResetByPulse'
    BY <1>8 DEF Lock, Goto, call, work, queue, cpld, ghosts, ResetByPulse, Shapes, NoResetSm, InACall
<1>9. ASSUME NEW u \in Users, LatchData(u) PROVE ResetByPulse'
    BY <1>9 DEF LatchData, Goto, call, work, queue, cpld, ghosts, ResetByPulse, Shapes
<1>10. ASSUME NEW u \in Users, LatchAddress(u) PROVE ResetByPulse'
    BY <1>10 DEF LatchAddress, Goto, call, work, queue, cpld, ghosts, ResetByPulse, Shapes
<1>11. ASSUME NEW u \in Users, LatchRequest(u) PROVE ResetByPulse'
    BY <1>11 DEF LatchRequest, Goto, call, work, queue, cpld, ghosts, ResetByPulse, Shapes
<1>12. ASSUME NEW u \in Users, TxnDone(u) PROVE ResetByPulse'
    BY <1>12 DEF TxnDone, Goto, call, work, queue, cpld, ghosts, ResetByPulse, Shapes
<1>13. ASSUME NEW u \in Users, TxnTimeout(u) PROVE ResetByPulse'
    BY <1>13 DEF TxnTimeout, Goto, call, work, queue, cpld, ghosts, ResetByPulse, Shapes
<1>14. ASSUME NEW u \in Users, AssertReset(u) PROVE ResetByPulse'
    BY <1>14 DEF AssertReset, Goto, call, work, queue, cpld, ghosts, ResetByPulse, Shapes
<1>15. ASSUME NEW u \in Users, ReleaseReset(u) PROVE ResetByPulse'
    BY <1>15 DEF ReleaseReset, Goto, call, work, queue, cpld, ghosts, ResetByPulse, Shapes, MutualExclusion, InIoctl
<1>16. ASSUME NEW u \in Users, ResetSm(u) PROVE ResetByPulse'
    BY <1>16 DEF ResetSm, Goto, call, work, queue, cpld, ghosts, ResetByPulse, Shapes
<1>17. ASSUME NEW u \in Users, Unlock(u) PROVE ResetByPulse'
    BY <1>17 DEF Unlock, Goto, call, work, queue, cpld, ghosts, ResetByPulse, Shapes
<1>18. ASSUME Advance PROVE ResetByPulse'
    BY <1>18 DEF Advance, call, work, queue, cpld, ghosts, ResetByPulse, Shapes
<1>19. ASSUME StartCycle PROVE ResetByPulse'
    BY <1>19 DEF StartCycle, call, work, queue, cpld, ghosts, ResetByPulse, Shapes
<1>20. ASSUME DriveBus PROVE ResetByPulse'
    BY <1>20 DEF DriveBus, call, work, queue, cpld, ghosts, ResetByPulse, Shapes
<1>21. ASSUME LowerTxn PROVE ResetByPulse'
    BY <1>21 DEF LowerTxn, call, work, queue, cpld, ghosts, ResetByPulse, Shapes
<1>22. ASSUME LeaveS4 PROVE ResetByPulse'
    BY <1>22 DEF LeaveS4, call, work, queue, cpld, ghosts, ResetByPulse, Shapes
<1>23. ASSUME Acknowledge PROVE ResetByPulse'
    BY <1>23 DEF Acknowledge, call, work, queue, cpld, ghosts, ResetByPulse, Shapes
<1>24. ASSUME UNCHANGED vars PROVE ResetByPulse'
    BY <1>24 DEF vars, call, work, queue, cpld, ghosts, ResetByPulse, Shapes
<1> QED BY <1>1, <1>2, <1>3, <1>4, <1>5, <1>6, <1>7, <1>8, <1>9, <1>10, <1>11, <1>12, <1>13, <1>14, <1>15, <1>16, <1>17, <1>18, <1>19, <1>20, <1>21, <1>22, <1>23, <1>24 DEF Next, Library, Ioctl, Transact, Clocked

LEMMA InvApart == BusInv /\ ResetByPulse => NoCycleInReset
<1> SUFFICES ASSUME BusInv, ResetByPulse, reset, ~broken, state \in {2, 3} PROVE FALSE
    BY DEF NoCycleInReset
<1>1. PICK u \in Users : pc[u] = "msleep"
    BY DEF ResetByPulse
<1>2. PICK v \in Users : pc[v] = "wait"
    BY DEF BusInv, OneAtATime, CycleHasRequest, RequestIsAwaited
<1>3. mutex = u /\ mutex = v
    BY <1>1, <1>2 DEF BusInv, MutualExclusion, InIoctl
<1> QED BY <1>1, <1>2, <1>3

(* The reset pulse of one thread, 100 ms under the mutex, never cuts off a    *)
(* cycle of another (ps_pulse_reset, pistorm.pi4.c:368-375), if nobody calls *)
(* PISTORM_IOC_RESET_SM, which leaves the Amiga in reset.                    *)
THEOREM ResetAlone == ASSUME NoResetSm PROVE Spec => []NoCycleInReset
<1> DEFINE Inv == BusInv /\ InACall /\ ResetByPulse
<1>1. Init => Inv
  <2>1. Init => InACall /\ ResetByPulse
      BY DEF Init, InACall, ResetByPulse
  <2> QED BY <2>1, InitInv
<1>2. Inv /\ [Next]_vars => Inv'
  <2> SUFFICES ASSUME Inv, [Next]_vars PROVE Inv'
      OBVIOUS
  <2>1. Shapes /\ MutualExclusion
      BY DEF BusInv
  <2> QED BY <2>1, NoResetSm, InvKept, InACallKept, ResetKept
<1>3. Inv => NoCycleInReset
    BY InvApart
<1> QED BY <1>1, <1>2, <1>3, PTL DEF Spec

-----------------------------------------------------------------------------
(* The types of the state. *)
(* The calls the threads make, the writes among them, and the words that     *)
(* cross the bus.                                                            *)
Calls == UNION {Ops[u] : u \in Users}
Writes == {o \in Calls : o.kind = "write"}
Pairs == Bytes \X Bytes

(* Where a thread is inside an operation that puts words on the bus. *)
Moving == {"write", "addr_lo", "addr_hi", "wait"}

(* What AddrsAssumption says of the number of addresses. *)
LEMMA TopType == Top \in Nat /\ Top > 0 /\ Top % 2 = 0 /\ Addrs = 0 .. Top - 1
<1>1. Top \in Nat
    BY AddrsAssumption, FS_CardinalityType DEF Top
<1>2. Top % 2 = 0 /\ Addrs = 0 .. Top - 1 /\ Addrs # {}
    BY AddrsAssumption DEF Top
<1>3. Top # 0
    BY <1>2
<1> QED BY <1>1, <1>2, <1>3

(* The fields of a call. *)
LEMMA CallType ==
    ASSUME NEW o \in Calls
    PROVE  /\ o.kind \in {"read", "write", "status", "pins", "pulse", "reset_sm", "flush"}
           /\ o.width \in {8, 16, 32} /\ o.addr \in Nat /\ Count(o) \in {1, 2}
           /\ o.kind = "write" => o.data \in [1 .. (o.width \div 8) -> Bytes]
    BY OpsAssumption DEF Calls, Count

LEMMA FirstHalf == ASSUME NEW o \in Calls PROVE 1 \in 1 .. Count(o)
    BY CallType

(* The word of every transaction of a write is two bytes. *)
LEMMA PayloadType ==
    ASSUME NEW o \in Calls, o.kind = "write", NEW i \in 1 .. Count(o)
    PROVE  Payload(o, i) \in Pairs
<1>1. 0 \in Bytes
    BY AddrsAssumption
<1>2. CASE o.width = 8
  <2>1. o.data[1] \in Bytes
      BY <1>2, CallType
  <2> QED BY <1>1, <1>2, <2>1 DEF Payload, Byte8, Pairs
<1>3. CASE o.width = 16
  <2>1. o.data[1] \in Bytes /\ o.data[2] \in Bytes /\ i = 1
      BY <1>3, CallType DEF Count
  <2> QED BY <1>3, <2>1 DEF Payload, Byte8, Pairs
<1>4. CASE o.width = 32
  <2>1. 32 \div 8 = 4
      OBVIOUS
  <2>2. o.data \in [1 .. 4 -> Bytes]
      BY <1>4, <2>1, CallType
  <2>3. i \in {1, 2}
      BY <1>4 DEF Count
  <2> QED BY <1>4, <2>2, <2>3 DEF Payload, Byte8, Pairs
<1> QED BY <1>2, <1>3, <1>4, CallType

(* The latch keeps every transaction's address inside the 24 bits. *)
LEMMA AddressType ==
    ASSUME NEW o \in Calls, NEW i \in 1 .. Count(o) PROVE Address(o, i) % Top \in Addrs
<1>1. Address(o, i) \in Nat
    BY CallType DEF Address
<1> QED BY <1>1, TopType

(* A thread that moves words is about the operation at the head of todo: one *)
(* of the batch it flushes, or its own call.                                 *)
Doing(u) ==
    /\ todo[u] # << >> /\ half[u] \in 1 .. Count(Head(todo[u]))
    /\ u \in flushing => todo[u] \in Seq(Writes)
    /\ u \notin flushing =>
         todo[u] = op[u] /\ Head(op[u]).kind \in {"read", "write"} /\ ~Queued(Head(op[u]))
    /\ pc[u] = "write" => Head(todo[u]).kind = "write"

(* Which calls and which threads are found where: only queued writes are     *)
(* pushed, and only the thread in the ioctl of a flush is in flushing.       *)
Progress ==
    \A u \in Users : /\ pc[u] \in {"push", "store"} => Queued(Head(op[u]))
                     /\ pc[u] = "ioctl" => ~Queued(Head(op[u])) /\ Head(op[u]).kind # "flush"
                     /\ pc[u] = "batch" => index[u] > 0 /\ Batch
                     /\ pc[u] \in Moving => Doing(u)
                     /\ u \in flushing => pc[u] \in Moving \union {"unlock", "empty"}
                     /\ pc[u] = "empty" => u \in flushing
                     /\ pc[u] \in {"pulse", "msleep", "reset_sm", "unlock"} /\ u \notin flushing =>
                          ~Queued(Head(op[u]))
(* The slots of g_opsq that are below g_opsq_n, or below a length a thread has*)
(* loaded, hold writes.                                                      *)
Filled ==
    /\ slots \in [0 .. QueueMax - 1 -> {<< >>} \union {<<o>> : o \in Writes}]
    /\ \A i \in 0 .. QueueMax - 1 : slots[i] = << >> => n <= i /\ \A u \in Users : index[u] <= i

(* The latches hold an address and words. *)
Parts ==
    /\ latch \in [addr : Addrs, data : Pairs] /\ rd \in Pairs
    /\ lines \in [read : BOOLEAN, uds : BOOLEAN, lds : BOOLEAN]
    /\ DOMAIN todo = Users /\ DOMAIN got = Users

(* The inductive form of TypeOK. *)
Typed == Shapes /\ TypeOK /\ InACall /\ Progress /\ Filled /\ Parts

(* What ps_busopq_flush hands to the kernel is a sequence of writes, not empty. *)
LEMMA CopiedType ==
    ASSUME TypeOK, Filled, NEW u \in Users
    PROVE  Copied(u) \in Seq(Writes) /\ Len(Copied(u)) = index[u] /\ (index[u] > 0 => Copied(u) # << >>)
<1>1. index[u] \in 0 .. QueueMax /\ QueueMax \in Nat
    BY QueueAssumption DEF TypeOK
<1>2. ASSUME NEW i \in 1 .. index[u] PROVE slots[i - 1][1] \in Writes
  <2>1. i - 1 \in 0 .. QueueMax - 1 /\ ~(index[u] <= i - 1)
      BY <1>1
  <2>2. slots[i - 1] # << >>
      BY <2>1 DEF Filled
  <2>3. slots[i - 1] \in {<<o>> : o \in Writes}
      BY <2>1, <2>2 DEF Filled
  <2> QED BY <2>3
<1>3. Copied(u) \in [1 .. index[u] -> Writes]
    BY <1>2 DEF Copied
<1>4. Copied(u) \in Seq(Writes) /\ Len(Copied(u)) = index[u]
    BY <1>1, <1>3
<1> QED BY <1>1, <1>4

LEMMA DoingCall ==
    ASSUME Typed, NEW u \in Users, pc[u] \in Moving
    PROVE  Head(todo[u]) \in Calls /\ Head(todo[u]).kind \in {"read", "write"}
<1>1. Doing(u)
    BY DEF Typed, Progress
<1>2. CASE u \in flushing
    BY <1>1, <1>2 DEF Doing, Writes
<1>3. CASE u \notin flushing
  <2>1. PICK o \in Ops[u] : op[u] = <<o>>
      BY DEF Typed, InACall, Moving
  <2> QED BY <1>1, <1>3, <2>1 DEF Doing, Calls
<1> QED BY <1>2, <1>3

(* A write leaves a memory. *)
LEMMA WrittenType ==
    ASSUME NEW o \in Calls, NEW m \in [Addrs -> Bytes] PROVE Written(m, o) \in [Addrs -> Bytes]
<1>1. CASE o.kind # "write"
    BY <1>1 DEF Written
<1>2. CASE o.kind = "write"
  <2>1. ASSUME NEW a \in Addrs, a \in Covers(o) PROVE o.data[a - o.addr + 1] \in Bytes
    <3>1. PICK i \in 0 .. (o.width \div 8) - 1 : a = o.addr + i
        BY <2>1 DEF Covers
    <3>2. a - o.addr + 1 \in 1 .. (o.width \div 8)
        BY <3>1, CallType
    <3> QED BY <1>2, <3>2, CallType
  <2> QED BY <1>2, <2>1 DEF Written
<1> QED BY <1>1, <1>2

LEMMA TypeKept == ASSUME Shapes', Typed, [Next]_vars PROVE TypeOK'
<1> USE DEF Goto, call, work, queue, cpld, ghosts, TypeOK
<1>0. Shapes' /\ InACall /\ TypeOK
    BY DEF Typed
<1>1. ASSUME NEW u \in Users, Call(u) PROVE TypeOK'
  <2>1. PICK o \in Ops[u] : op' = [op EXCEPT ![u] = <<o>>]
      BY <1>1, <1>0 DEF Call
  <2>2. pc' \in [Users -> Places]
      BY <1>1, <1>0 DEF Shapes
  <2> QED BY <1>1, <1>0, <2>1, <2>2 DEF Call
<1>2. ASSUME NEW u \in Users, LoadIndex(u) PROVE TypeOK'
    BY <1>2, <1>0 DEF LoadIndex, Shapes
<1>3. ASSUME NEW u \in Users, StoreOp(u) PROVE TypeOK'
  <2>1. PICK o \in Ops[u] : op[u] = <<o>>
      BY <1>3, <1>0 DEF StoreOp, InACall
  <2>2. wrote' \in [Addrs -> Bytes]
      BY <1>3, <1>0, <2>1, WrittenType DEF StoreOp, Calls
  <2> QED BY <1>3, <2>2, QueueAssumption, <1>0 DEF StoreOp, Shapes
<1>4. ASSUME NEW u \in Users, Flush(u) PROVE TypeOK'
    BY <1>4, <1>0 DEF Flush, Shapes
<1>5. ASSUME NEW u \in Users, EmptyQueue(u) PROVE TypeOK'
    BY <1>5, <1>0, QueueAssumption DEF EmptyQueue, Shapes
<1>6. ASSUME NEW u \in Users, Flushed(u) PROVE TypeOK'
    BY <1>6, <1>0 DEF Flushed, Shapes
<1>7. ASSUME NEW u \in Users, Return(u) PROVE TypeOK'
    BY <1>7, <1>0 DEF Return, Shapes
<1>8. ASSUME NEW u \in Users, Lock(u) PROVE TypeOK'
  <2>1. pc[u] = "ioctl" => \E o \in Ops[u] : op[u] = <<o>>
      BY <1>8, <1>0 DEF Lock, InACall
  <2>2. wrote' \in [Addrs -> Bytes]
    <3>1. CASE pc[u] = "batch"
        BY <1>8, <1>0, <3>1 DEF Lock
    <3>2. CASE pc[u] = "ioctl"
      <4>1. Head(op[u]) \in Calls
          BY <2>1, <3>2 DEF Calls
      <4>2. wrote' = Written(wrote, Head(op[u]))
          BY <1>8, <3>2 DEF Lock
      <4> QED BY <1>0, <4>1, <4>2, WrittenType
    <3> QED BY <1>8, <3>1, <3>2 DEF Lock
  <2>3. mutex' = u /\ flushing' \subseteq Users /\ half' \in [Users -> {1, 2}]
      BY <1>8, <1>0 DEF Lock
  <2> QED BY <1>8, <2>2, <2>3, <1>0 DEF Lock, Shapes
<1>9. ASSUME NEW u \in Users, LatchData(u) PROVE TypeOK'
    BY <1>9, <1>0 DEF LatchData, Shapes
<1>10. ASSUME NEW u \in Users, LatchAddress(u) PROVE TypeOK'
  <2>1. Head(todo[u]) \in Calls /\ half[u] \in 1 .. Count(Head(todo[u]))
      BY <1>10, DoingCall DEF LatchAddress, Moving, Typed, Progress, Doing
  <2>2. Address(Head(todo[u]), half[u]) % Top \in Addrs
      BY <2>1, AddressType
  <2> QED BY <1>10, <2>2, <1>0 DEF LatchAddress, Shapes
<1>11. ASSUME NEW u \in Users, LatchRequest(u) PROVE TypeOK'
    BY <1>11, <1>0 DEF LatchRequest, Shapes
<1>12. ASSUME NEW u \in Users, TxnDone(u) PROVE TypeOK'
  <2>1. Head(todo[u]) \in Calls
      BY <1>12, DoingCall DEF TxnDone, Moving
  <2>2. NextHalf(u) \in {1, 2}
      BY <1>0, <2>1, CallType DEF NextHalf
  <2> QED BY <1>12, <2>2, <1>0 DEF TxnDone, Shapes
<1>13. ASSUME NEW u \in Users, TxnTimeout(u) PROVE TypeOK'
    BY <1>13, <1>0 DEF TxnTimeout, Shapes
<1>14. ASSUME NEW u \in Users, AssertReset(u) PROVE TypeOK'
    BY <1>14, <1>0 DEF AssertReset, Shapes, SleepsWith
<1>15. ASSUME NEW u \in Users, ReleaseReset(u) PROVE TypeOK'
    BY <1>15, <1>0 DEF ReleaseReset, Shapes
<1>16. ASSUME NEW u \in Users, ResetSm(u) PROVE TypeOK'
    BY <1>16, <1>0 DEF ResetSm, Shapes
<1>17. ASSUME NEW u \in Users, Unlock(u) PROVE TypeOK'
    BY <1>17, <1>0 DEF Unlock, Shapes
<1>18. ASSUME Advance PROVE TypeOK'
    BY <1>18, <1>0 DEF Advance, Shapes
<1>19. ASSUME StartCycle PROVE TypeOK'
    BY <1>19, <1>0 DEF StartCycle, Shapes
<1>20. ASSUME DriveBus PROVE TypeOK'
    BY <1>20, <1>0 DEF DriveBus, Shapes
<1>21. ASSUME LowerTxn PROVE TypeOK'
    BY <1>21, <1>0 DEF LowerTxn, Shapes
<1>22. ASSUME LeaveS4 PROVE TypeOK'
  <2>1. UNCHANGED <<pc, op, half, index, flushing, n, mutex, latch, req, reset, memory, wrote, broken>>
      BY <1>22 DEF LeaveS4
  <2>2. state' = 5 /\ txn' = FALSE
      BY <1>22 DEF LeaveS4
  <2>3. state' \in 0 .. 5
      BY <2>2
  <2>4. txn' \in BOOLEAN
      BY <2>2
  <2> QED BY <1>0, <2>1, <2>3, <2>4
<1>23. ASSUME Acknowledge PROVE TypeOK'
  <2>1. latch.data[1] \in Bytes /\ latch.data[2] \in Bytes
    <3>1. latch.data \in Pairs
        BY DEF Typed, Parts
    <3> QED BY <3>1 DEF Pairs
  <2>2. memory' \in [Addrs -> Bytes]
      BY <1>23, <1>0, <2>1 DEF Acknowledge
  <2>3. UNCHANGED <<pc, op, half, index, flushing, n, mutex, latch, txn, reset, wrote, broken>>
      BY <1>23 DEF Acknowledge
  <2>4. state' \in 0 .. 5 /\ req' \in Requests
      BY <1>23, <1>0 DEF Acknowledge, Shapes
  <2> QED BY <1>0, <2>2, <2>3, <2>4
<1>24. ASSUME UNCHANGED vars PROVE TypeOK'
    BY <1>24, <1>0 DEF vars
<1> QED BY <1>1, <1>2, <1>3, <1>4, <1>5, <1>6, <1>7, <1>8, <1>9, <1>10, <1>11, <1>12,
           <1>13, <1>14, <1>15, <1>16, <1>17, <1>18, <1>19, <1>20, <1>21, <1>22, <1>23,
           <1>24
           DEF Next, Library, Ioctl, Transact, Clocked

(* A thread that is not idle is in one call. *)
LEMMA OneCall ==
    ASSUME Typed, NEW u \in Users, pc[u] # "idle"
    PROVE  \E o \in Ops[u] : op[u] = <<o>> /\ Head(op[u]) = o /\ Tail(op[u]) = << >>
<1>1. PICK o \in Ops[u] : op[u] = <<o>>
    BY DEF Typed, InACall
<1>2. Head(<<o>>) = o /\ Tail(<<o>>) = << >>
    OBVIOUS
<1> QED BY <1>1, <1>2

(* After a transaction: the second half of the same operation, the next      *)
(* operation of the batch, or the end of the ioctl.                          *)
LEMMA NextTransaction ==
    ASSUME Typed, NEW u \in Users, TxnDone(u)
    PROVE  LET o == Head(todo[u]) IN
           /\ pc[u] = "wait" /\ ~txn /\ o \in Calls /\ o.kind \in {"read", "write"}
           /\ \/ /\ half[u] = 1 /\ Count(o) = 2 /\ half'[u] = 2 /\ todo'[u] = todo[u]
                 /\ pc'[u] = IF o.kind = "read" THEN "addr_lo" ELSE "write"
              \/ /\ half[u] = Count(o) /\ half'[u] = 1 /\ Tail(todo[u]) = << >>
                 /\ todo'[u] = << >> /\ pc'[u] = "unlock"
              \/ /\ half[u] = Count(o) /\ half'[u] = 1 /\ Tail(todo[u]) # << >>
                 /\ u \in flushing /\ o.kind = "write" /\ Tail(todo[u]) \in Seq(Writes)
                 /\ Head(Tail(todo[u])) \in Writes
                 /\ todo'[u] = Tail(todo[u]) /\ pc'[u] = "write"
<1> DEFINE o == Head(todo[u])
<1>1. pc[u] = "wait" /\ ~txn
    BY DEF TxnDone
<1>2. o \in Calls /\ o.kind \in {"read", "write"} /\ Doing(u)
    BY <1>1, DoingCall DEF Typed, Progress, Moving
<1>3. Count(o) \in {1, 2} /\ half[u] \in 1 .. Count(o)
    BY <1>2, CallType DEF Doing
<1>4. DOMAIN todo = Users /\ DOMAIN half = Users /\ pc \in [Users -> Places]
    BY DEF Typed, Shapes
<1>5. todo[u] # << >>
    BY <1>2 DEF Doing
<1>6. CASE half[u] < Count(o)
  <2>1. half[u] = 1 /\ Count(o) = 2
      BY <1>3, <1>6
  <2>2. half'[u] = 2 /\ todo'[u] = todo[u]
      BY <1>4, <1>6, <2>1 DEF TxnDone, NextHalf
  <2>3. pc'[u] = IF o.kind = "read" THEN "addr_lo" ELSE "write"
      BY <1>4, <1>5, <2>2 DEF TxnDone, Goto
  <2> QED BY <1>1, <1>2, <2>1, <2>2, <2>3
<1>7. CASE ~(half[u] < Count(o))
  <2>1. half[u] = Count(o) /\ half'[u] = 1 /\ todo'[u] = Tail(todo[u])
      BY <1>3, <1>4, <1>7 DEF TxnDone, NextHalf, Following
  <2>2. CASE Tail(todo[u]) = << >>
    <3>1. pc'[u] = "unlock"
        BY <1>4, <2>1, <2>2 DEF TxnDone, Goto
    <3> QED BY <1>1, <1>2, <2>1, <2>2, <3>1
  <2>3. CASE Tail(todo[u]) # << >>
    <3>1. u \in flushing
      <4>1. PICK c : op[u] = <<c>> /\ Tail(op[u]) = << >>
          BY <1>1, OneCall
      <4> QED BY <1>2, <2>3, <4>1 DEF Doing
    <3>2. todo[u] \in Seq(Writes)
        BY <1>2, <3>1 DEF Doing
    <3>3. Tail(todo[u]) \in Seq(Writes) /\ o \in Writes /\ Head(Tail(todo[u])) \in Writes
        BY <1>5, <2>3, <3>2
    <3>4. o.kind = "write"
        BY <3>3 DEF Writes
    <3>5. pc'[u] = "write"
        BY <1>4, <2>1, <2>3, <3>4 DEF TxnDone, Goto
    <3> QED BY <1>1, <1>2, <2>1, <2>3, <3>1, <3>3, <3>4, <3>5
  <2> QED BY <2>2, <2>3
<1> QED BY <1>6, <1>7

LEMMA ProgressKept == ASSUME Shapes', Typed, [Next]_vars PROVE Progress'
<1> USE DEF Goto, call, work, queue, cpld, ghosts, Progress, Doing, Moving, Shapes
<1>0. /\ Typed /\ Progress /\ DOMAIN op = Users /\ DOMAIN todo = Users /\ DOMAIN half = Users
      /\ DOMAIN index = Users /\ pc \in [Users -> Places] /\ n \in 0 .. QueueMax
    BY DEF Typed, TypeOK, InACall, Parts
<1>1. ASSUME NEW u \in Users, Call(u) PROVE Progress'
  <2>1. PICK o \in Ops[u] :
          /\ op' = [op EXCEPT ![u] = <<o>>]
          /\ Goto(u, IF Queued(o) THEN "push"
                    ELSE IF FlushesFirst(o) \/ o.kind = "flush" THEN "flush" ELSE "ioctl")
      BY <1>1 DEF Call
  <2>2. Head(<<o>>) = o
      OBVIOUS
  <2>3. op'[u] = <<o>>
      BY <1>0, <2>1
  <2> QED BY <1>1, <1>0, <2>1, <2>2, <2>3 DEF Call
<1>2. ASSUME NEW u \in Users, LoadIndex(u) PROVE Progress'
    BY <1>2, <1>0 DEF LoadIndex
<1>3. ASSUME NEW u \in Users, StoreOp(u) PROVE Progress'
    BY <1>3, <1>0 DEF StoreOp
<1>4. ASSUME NEW u \in Users, Flush(u) PROVE Progress'
  <2>1. pc'[u] = "batch" => index'[u] > 0 /\ Batch
      BY <1>4, <1>0, QueueAssumption DEF Flush, NothingToFlush
  <2> QED BY <1>4, <1>0, <2>1 DEF Flush
<1>5. ASSUME NEW u \in Users, EmptyQueue(u) PROVE Progress'
    BY <1>5, <1>0 DEF EmptyQueue
<1>6. ASSUME NEW u \in Users, Flushed(u) PROVE Progress'
  <2>1. \E o \in Ops[u] : op[u] = <<o>> /\ Head(op[u]) = o
      BY <1>6, OneCall DEF Flushed
  <2> QED BY <1>6, <1>0, <2>1 DEF Flushed, Queued
<1>7. ASSUME NEW u \in Users, Return(u) PROVE Progress'
    BY <1>7, <1>0 DEF Return
<1>8. ASSUME NEW u \in Users, Lock(u) PROVE Progress'
  <2>1. half'[u] = 1 /\ u \in Users /\ UNCHANGED <<op, index>>
      BY <1>8, <1>0 DEF Lock
  <2>2. CASE pc[u] = "batch"
    <3>1. todo'[u] = Copied(u) /\ u \in flushing' /\ pc'[u] = "write"
        BY <1>8, <1>0, <2>2 DEF Lock
    <3>2. Copied(u) \in Seq(Writes) /\ Copied(u) # << >>
        BY <1>0, <2>2, CopiedType DEF Typed
    <3>3. Head(Copied(u)) \in Writes
        BY <3>2
    <3>4. Head(Copied(u)).kind = "write" /\ 1 \in 1 .. Count(Head(Copied(u)))
        BY <3>3, CallType DEF Writes
    <3>5. Doing(u)'
        BY <2>1, <3>1, <3>2, <3>4
    <3> QED BY <1>8, <1>0, <2>2, <3>1, <3>5 DEF Lock
  <2>3. CASE pc[u] = "ioctl"
    <3>1. PICK o \in Ops[u] : op[u] = <<o>> /\ Head(op[u]) = o
        BY <2>3, OneCall
    <3>2. todo'[u] = op[u] /\ u \notin flushing /\ flushing' = flushing /\ op[u][1] = o
        BY <1>8, <1>0, <2>3, <3>1 DEF Lock
    <3>7. ~Queued(o)
        BY <1>0, <2>3, <3>1
    <3>3. o \in Calls /\ Head(todo[u])' = o /\ op[u] # << >> /\ 1 \in 1 .. Count(o)
        BY <3>1, <3>2, CallType DEF Calls
    <3>4. pc'[u] = CASE o.kind = "read"  -> "addr_lo"
                     [] o.kind = "write" -> "write"
                     [] o.kind \in {"pulse", "reset_sm"} -> o.kind
                     [] OTHER -> "unlock"
        BY <1>8, <1>0, <2>3, <3>2 DEF Lock
    <3>5. pc'[u] \in Moving => Doing(u)'
      <4>1. CASE o.kind = "read"
          BY <2>1, <3>1, <3>2, <3>3, <3>4, <3>7, <4>1
      <4>2. CASE o.kind = "write"
          BY <2>1, <3>1, <3>2, <3>3, <3>4, <3>7, <4>2
      <4>3. CASE o.kind \in {"pulse", "reset_sm"}
          BY <3>4, <4>3
      <4>4. CASE o.kind \notin {"read", "write", "pulse", "reset_sm"}
          BY <3>4, <4>4
      <4> QED BY <4>1, <4>2, <4>3, <4>4
    <3>6. pc'[u] \in Moving \union {"unlock", "pulse", "reset_sm"}
        BY <3>4
    <3> QED BY <1>8, <1>0, <2>3, <3>1, <3>2, <3>5, <3>6, <3>7 DEF Lock
  <2> QED BY <1>8, <2>2, <2>3 DEF Lock
<1>9. ASSUME NEW u \in Users, LatchData(u) PROVE Progress'
    BY <1>9, <1>0 DEF LatchData
<1>10. ASSUME NEW u \in Users, LatchAddress(u) PROVE Progress'
    BY <1>10, <1>0 DEF LatchAddress
<1>11. ASSUME NEW u \in Users, LatchRequest(u) PROVE Progress'
    BY <1>11, <1>0 DEF LatchRequest
<1>12. ASSUME NEW u \in Users, TxnDone(u) PROVE Progress'
  <2>1. /\ pc[u] = "wait" /\ Doing(u) /\ UNCHANGED <<op, index, flushing>>
      BY <1>12, <1>0 DEF TxnDone
  <2>2. pc'[u] \in Moving => Doing(u)'
    <3> DEFINE o == Head(todo[u])
    <3>1. CASE half[u] = 1 /\ Count(o) = 2 /\ half'[u] = 2 /\ todo'[u] = todo[u]
               /\ pc'[u] = IF o.kind = "read" THEN "addr_lo" ELSE "write"
        BY <1>12, <2>1, <3>1, NextTransaction
    <3>2. CASE Head(Tail(todo[u])) \in Writes /\ Tail(todo[u]) # << >> /\ u \in flushing
               /\ Tail(todo[u]) \in Seq(Writes) /\ todo'[u] = Tail(todo[u]) /\ half'[u] = 1
      <4>1. Head(Tail(todo[u])) \in Calls /\ Head(Tail(todo[u])).kind = "write"
          BY <3>2 DEF Writes
      <4>2. 1 \in 1 .. Count(Head(Tail(todo[u])))
          BY <4>1, FirstHalf
      <4>3. u \in flushing' /\ todo'[u] = Tail(todo[u])
          BY <2>1, <3>2
      <4>4. todo'[u] # << >> /\ half'[u] \in 1 .. Count(Head(todo'[u]))
          BY <3>2, <4>2, <4>3
      <4>5. todo'[u] \in Seq(Writes) /\ Head(todo'[u]).kind = "write"
          BY <3>2, <4>1, <4>3
      <4> QED BY <4>3, <4>4, <4>5
    <3> QED BY <1>12, <3>1, <3>2, NextTransaction
  <2>3. pc'[u] \in Moving \union {"unlock"}
      BY <1>12, NextTransaction
  <2> QED BY <1>12, <1>0, <2>1, <2>2, <2>3 DEF TxnDone
<1>13. ASSUME NEW u \in Users, TxnTimeout(u) PROVE Progress'
    BY <1>13, <1>0 DEF TxnTimeout
<1>14. ASSUME NEW u \in Users, AssertReset(u) PROVE Progress'
    BY <1>14, <1>0 DEF AssertReset, SleepsWith
<1>15. ASSUME NEW u \in Users, ReleaseReset(u) PROVE Progress'
    BY <1>15, <1>0 DEF ReleaseReset
<1>16. ASSUME NEW u \in Users, ResetSm(u) PROVE Progress'
    BY <1>16, <1>0 DEF ResetSm
<1>17. ASSUME NEW u \in Users, Unlock(u) PROVE Progress'
    BY <1>17, <1>0 DEF Unlock
<1>18. ASSUME Advance PROVE Progress'
    BY <1>18, <1>0 DEF Advance
<1>19. ASSUME StartCycle PROVE Progress'
    BY <1>19, <1>0 DEF StartCycle
<1>20. ASSUME DriveBus PROVE Progress'
    BY <1>20, <1>0 DEF DriveBus
<1>21. ASSUME LowerTxn PROVE Progress'
    BY <1>21, <1>0 DEF LowerTxn
<1>22. ASSUME LeaveS4 PROVE Progress'
    BY <1>22, <1>0 DEF LeaveS4
<1>23. ASSUME Acknowledge PROVE Progress'
    BY <1>23, <1>0 DEF Acknowledge
<1>24. ASSUME UNCHANGED vars PROVE Progress'
    BY <1>24, <1>0 DEF vars
<1> QED BY <1>1, <1>2, <1>3, <1>4, <1>5, <1>6, <1>7, <1>8, <1>9, <1>10, <1>11, <1>12,
           <1>13, <1>14, <1>15, <1>16, <1>17, <1>18, <1>19, <1>20, <1>21, <1>22, <1>23,
           <1>24
           DEF Next, Library, Ioctl, Transact, Clocked

LEMMA FilledKept == ASSUME Shapes', Typed, [Next]_vars PROVE Filled'
<1> USE DEF Goto, call, work, queue, cpld, ghosts, Filled
<1>0. Filled /\ n \in 0 .. QueueMax /\ index \in [Users -> 0 .. QueueMax]
    BY DEF Typed, TypeOK
<1>1. ASSUME NEW u \in Users, Call(u) PROVE Filled'
    BY <1>1, <1>0 DEF Call
<1>2. ASSUME NEW u \in Users, LoadIndex(u) PROVE Filled'
  <2>1. \A v \in Users : index'[v] = IF v = u THEN n ELSE index[v]
      BY <1>2, <1>0 DEF LoadIndex
  <2> QED BY <1>2, <1>0, <2>1 DEF LoadIndex
<1>3. ASSUME NEW u \in Users, StoreOp(u) PROVE Filled'
  <2>1. PICK o \in Ops[u] : op[u] = <<o>> /\ Head(op[u]) = o
      BY <1>3, OneCall DEF StoreOp
  <2>2. o \in Writes
      BY <1>3, <2>1 DEF StoreOp, Typed, Progress, Queued, Writes, Calls
  <2>3. index[u] \in 0 .. QueueMax - 1
      BY <1>3, <1>0, QueueAssumption DEF StoreOp
  <2>4. \A i \in 0 .. QueueMax - 1 : slots'[i] = IF i = index[u] THEN <<o>> ELSE slots[i]
      BY <1>3, <1>0, <2>1 DEF StoreOp
  <2>5. slots' \in [0 .. QueueMax - 1 -> {<< >>} \union {<<c>> : c \in Writes}]
      BY <1>3, <1>0, <2>1, <2>2 DEF StoreOp
  <2>6. n' = index[u] + 1 /\ \A v \in Users : index'[v] = IF v = u THEN 0 ELSE index[v]
      BY <1>3, <1>0 DEF StoreOp
  <2>7. ASSUME NEW i \in 0 .. QueueMax - 1, slots'[i] = << >>
        PROVE  n' <= i /\ \A v \in Users : index'[v] <= i
    <3>1. <<o>> # << >>
        OBVIOUS
    <3>2. i # index[u] /\ slots[i] = << >>
        BY <2>4, <2>7, <3>1
    <3>3. \A v \in Users : index[v] <= i
        BY <1>0, <3>2
    <3> QED BY <1>0, <2>3, <2>6, <3>2, <3>3, QueueAssumption
  <2> QED BY <2>5, <2>7
<1>4. ASSUME NEW u \in Users, Flush(u) PROVE Filled'
  <2>1. \A v \in Users : index'[v] = IF v = u THEN n ELSE index[v]
      BY <1>4, <1>0 DEF Flush
  <2> QED BY <1>4, <1>0, <2>1 DEF Flush
<1>5. ASSUME NEW u \in Users, EmptyQueue(u) PROVE Filled'
  <2>1. n' = 0 /\ slots' = slots /\ \A v \in Users : index'[v] = IF v = u THEN 0 ELSE index[v]
      BY <1>5, <1>0 DEF EmptyQueue
  <2> QED BY <1>0, <2>1, QueueAssumption
<1>6. ASSUME NEW u \in Users, Flushed(u) PROVE Filled'
    BY <1>6, <1>0 DEF Flushed
<1>7. ASSUME NEW u \in Users, Return(u) PROVE Filled'
    BY <1>7, <1>0 DEF Return
<1>8. ASSUME NEW u \in Users, Lock(u) PROVE Filled'
    BY <1>8, <1>0 DEF Lock
<1>9. ASSUME NEW u \in Users, LatchData(u) PROVE Filled'
    BY <1>9, <1>0 DEF LatchData
<1>10. ASSUME NEW u \in Users, LatchAddress(u) PROVE Filled'
    BY <1>10, <1>0 DEF LatchAddress
<1>11. ASSUME NEW u \in Users, LatchRequest(u) PROVE Filled'
    BY <1>11, <1>0 DEF LatchRequest
<1>12. ASSUME NEW u \in Users, TxnDone(u) PROVE Filled'
    BY <1>12, <1>0 DEF TxnDone
<1>13. ASSUME NEW u \in Users, TxnTimeout(u) PROVE Filled'
    BY <1>13, <1>0 DEF TxnTimeout
<1>14. ASSUME NEW u \in Users, AssertReset(u) PROVE Filled'
    BY <1>14, <1>0 DEF AssertReset
<1>15. ASSUME NEW u \in Users, ReleaseReset(u) PROVE Filled'
    BY <1>15, <1>0 DEF ReleaseReset
<1>16. ASSUME NEW u \in Users, ResetSm(u) PROVE Filled'
    BY <1>16, <1>0 DEF ResetSm
<1>17. ASSUME NEW u \in Users, Unlock(u) PROVE Filled'
    BY <1>17, <1>0 DEF Unlock
<1>18. ASSUME Advance PROVE Filled'
    BY <1>18, <1>0 DEF Advance
<1>19. ASSUME StartCycle PROVE Filled'
    BY <1>19, <1>0 DEF StartCycle
<1>20. ASSUME DriveBus PROVE Filled'
    BY <1>20, <1>0 DEF DriveBus
<1>21. ASSUME LowerTxn PROVE Filled'
    BY <1>21, <1>0 DEF LowerTxn
<1>22. ASSUME LeaveS4 PROVE Filled'
    BY <1>22, <1>0 DEF LeaveS4
<1>23. ASSUME Acknowledge PROVE Filled'
    BY <1>23, <1>0 DEF Acknowledge
<1>24. ASSUME UNCHANGED vars PROVE Filled'
    BY <1>24, <1>0 DEF vars
<1> QED BY <1>1, <1>2, <1>3, <1>4, <1>5, <1>6, <1>7, <1>8, <1>9, <1>10, <1>11, <1>12,
           <1>13, <1>14, <1>15, <1>16, <1>17, <1>18, <1>19, <1>20, <1>21, <1>22, <1>23,
           <1>24
           DEF Next, Library, Ioctl, Transact, Clocked

LEMMA PartsKept == ASSUME Shapes', Typed, [Next]_vars PROVE Parts'
<1> USE DEF Goto, call, work, queue, cpld, ghosts, Parts
<1>0. Parts /\ memory \in [Addrs -> Bytes]
    BY DEF Typed, TypeOK
<1>1. ASSUME NEW u \in Users, Call(u) PROVE Parts'
    BY <1>1, <1>0 DEF Call
<1>2. ASSUME NEW u \in Users, LoadIndex(u) PROVE Parts'
    BY <1>2, <1>0 DEF LoadIndex
<1>3. ASSUME NEW u \in Users, StoreOp(u) PROVE Parts'
    BY <1>3, <1>0 DEF StoreOp
<1>4. ASSUME NEW u \in Users, Flush(u) PROVE Parts'
    BY <1>4, <1>0 DEF Flush
<1>5. ASSUME NEW u \in Users, EmptyQueue(u) PROVE Parts'
    BY <1>5, <1>0 DEF EmptyQueue
<1>6. ASSUME NEW u \in Users, Flushed(u) PROVE Parts'
    BY <1>6, <1>0 DEF Flushed
<1>7. ASSUME NEW u \in Users, Return(u) PROVE Parts'
    BY <1>7, <1>0 DEF Return
<1>8. ASSUME NEW u \in Users, Lock(u) PROVE Parts'
    BY <1>8, <1>0 DEF Lock
<1>9. ASSUME NEW u \in Users, LatchData(u) PROVE Parts'
  <2>1. Head(todo[u]) \in Calls /\ half[u] \in 1 .. Count(Head(todo[u]))
      BY <1>9, DoingCall DEF LatchData, Moving, Typed, Progress, Doing
  <2>2. Head(todo[u]).kind = "write"
      BY <1>9 DEF LatchData, Moving, Typed, Progress, Doing
  <2>3. Payload(Head(todo[u]), half[u]) \in Pairs
      BY <2>1, <2>2, PayloadType
  <2> QED BY <1>9, <1>0, <2>3 DEF LatchData
<1>10. ASSUME NEW u \in Users, LatchAddress(u) PROVE Parts'
  <2>1. Head(todo[u]) \in Calls /\ half[u] \in 1 .. Count(Head(todo[u]))
      BY <1>10, DoingCall DEF LatchAddress, Moving, Typed, Progress, Doing
  <2>2. Address(Head(todo[u]), half[u]) % Top \in Addrs
      BY <2>1, AddressType
  <2> QED BY <1>10, <1>0, <2>2 DEF LatchAddress
<1>11. ASSUME NEW u \in Users, LatchRequest(u) PROVE Parts'
    BY <1>11, <1>0 DEF LatchRequest
<1>12. ASSUME NEW u \in Users, TxnDone(u) PROVE Parts'
    BY <1>12, <1>0 DEF TxnDone
<1>13. ASSUME NEW u \in Users, TxnTimeout(u) PROVE Parts'
    BY <1>13, <1>0 DEF TxnTimeout
<1>14. ASSUME NEW u \in Users, AssertReset(u) PROVE Parts'
    BY <1>14, <1>0 DEF AssertReset
<1>15. ASSUME NEW u \in Users, ReleaseReset(u) PROVE Parts'
    BY <1>15, <1>0 DEF ReleaseReset
<1>16. ASSUME NEW u \in Users, ResetSm(u) PROVE Parts'
    BY <1>16, <1>0 DEF ResetSm
<1>17. ASSUME NEW u \in Users, Unlock(u) PROVE Parts'
    BY <1>17, <1>0 DEF Unlock
<1>18. ASSUME Advance PROVE Parts'
    BY <1>18, <1>0 DEF Advance
<1>19. ASSUME StartCycle PROVE Parts'
    BY <1>19, <1>0 DEF StartCycle
<1>20. ASSUME DriveBus PROVE Parts'
  <2>1. req \in Requests
      BY DEF Typed, Shapes
  <2> QED BY <1>20, <1>0, <2>1 DEF DriveBus, Requests
<1>21. ASSUME LowerTxn PROVE Parts'
    BY <1>21, <1>0 DEF LowerTxn
<1>22. ASSUME LeaveS4 PROVE Parts'
    BY <1>22, <1>0 DEF LeaveS4
<1>23. ASSUME Acknowledge PROVE Parts'
  <2>1. lines.read = FALSE \/ lines.read = TRUE
      BY <1>0
  <2>2. rd' \in Pairs
    <3>1. CASE ~lines.read
        BY <1>23, <1>0, <3>1 DEF Acknowledge
    <3>2. CASE lines.read
      <4>1. rd[1] \in Bytes /\ rd[2] \in Bytes
          BY <1>0 DEF Pairs
      <4>2. latch.addr \in 0 .. Top - 1 /\ Top \in Nat /\ Top % 2 = 0
          BY <1>0, TopType
      <4>3. WordAt(latch.addr) \in 0 .. Top - 1 /\ WordAt(latch.addr) + 1 \in 0 .. Top - 1
          BY <4>2 DEF WordAt
      <4>4. memory[WordAt(latch.addr)] \in Bytes /\ memory[WordAt(latch.addr) + 1] \in Bytes
          BY <1>0, <4>3, TopType
      <4> QED BY <1>23, <3>2, <4>1, <4>4 DEF Acknowledge, Pairs
    <3> QED BY <3>1, <3>2
  <2> QED BY <1>23, <1>0, <2>2 DEF Acknowledge
<1>24. ASSUME UNCHANGED vars PROVE Parts'
    BY <1>24, <1>0 DEF vars
<1> QED BY <1>1, <1>2, <1>3, <1>4, <1>5, <1>6, <1>7, <1>8, <1>9, <1>10, <1>11, <1>12,
           <1>13, <1>14, <1>15, <1>16, <1>17, <1>18, <1>19, <1>20, <1>21, <1>22, <1>23,
           <1>24
           DEF Next, Library, Ioctl, Transact, Clocked

LEMMA TypedKept == ASSUME Typed, [Next]_vars PROVE Typed'
<1>1. Shapes /\ InACall
    BY DEF Typed
<1>2. Shapes' /\ InACall'
    BY <1>1, ShapesKept, InACallKept
<1> QED BY <1>2, TypeKept, ProgressKept, FilledKept, PartsKept DEF Typed

LEMMA InitTyped == Init => Typed
<1> SUFFICES ASSUME Init PROVE Typed
    OBVIOUS
<1>1. 0 \in Addrs /\ 0 \in Bytes
    BY TopType, AddrsAssumption
<1>2. Shapes
    BY InitInv DEF BusInv
<1>3. TypeOK
  <2>1. memory \in [Addrs -> Bytes] /\ wrote \in [Addrs -> Bytes]
      BY <1>1 DEF Init
  <2>2. pc \in [Users -> Places] /\ req \in Requests
      BY <1>2 DEF Shapes
  <2>3. half \in [Users -> {1, 2}] /\ index \in [Users -> 0 .. QueueMax] /\ n \in 0 .. QueueMax
      BY QueueAssumption DEF Init
  <2>4. state \in 0 .. 5 /\ latch.addr \in Addrs
      BY <1>1 DEF Init
  <2>5. txn \in BOOLEAN /\ reset \in BOOLEAN /\ broken \in BOOLEAN
      BY DEF Init
  <2>6. /\ \A u \in Users : op[u] \in {<< >>} \union {<<o>> : o \in Ops[u]}
        /\ flushing \subseteq Users /\ mutex \in Users \union {Nobody}
      BY DEF Init
  <2> QED BY <2>1, <2>2, <2>3, <2>4, <2>5, <2>6 DEF TypeOK
<1>4. InACall /\ Progress
    BY DEF Init, InACall, Progress, Moving
<1>5. Filled
    BY DEF Init, Filled
<1>6. Parts
    BY <1>1 DEF Init, Parts, Pairs
<1> QED BY <1>2, <1>3, <1>4, <1>5, <1>6 DEF Typed

LEMMA TypedInvariant == Spec => []Typed
    BY InitTyped, TypedKept, PTL DEF Spec

(* Every step of the library, of ps_ioctl and of the CPLD keeps the types of  *)
(* the state: g_opsq is never indexed past what was stored, the latches never *)
(* hold an address past the 24 bits, and no thread leaves its call's places.  *)
THEOREM BusTypes == Spec => []TypeOK
    BY TypedInvariant, PTL DEF Typed

-----------------------------------------------------------------------------
(* The queue of writes, when one thread uses it. *)

(* The calls that read, fill or empty g_opsq, and the hypothesis that one    *)
(* thread makes them: g_opsq and g_opsq_n have no lock, and two threads that *)
(* share them do lose writes.                                                *)
UsesQueue(u) == \E o \in Ops[u] : o.kind \in {"read", "write", "status", "flush"}
OneQueueUser == Batch => \A u, v \in Users : UsesQueue(u) /\ UsesQueue(v) => u = v

(* Only such calls are in the library's queue functions. *)
QueueCalls ==
    \A u \in Users :
        pc[u] \in {"push", "store", "flush", "batch", "empty", "flushed"} \/ u \in flushing =>
            /\ Head(op[u]).kind \in {"read", "write", "status", "flush"}
            /\ Head(op[u]).kind = "write" => Batch

(* Without batching the queue is never used. *)
Direct ==
    ~Batch => /\ n = 0 /\ flushing = {}
              /\ \A u \in Users : pc[u] \notin {"push", "store", "batch", "empty"}

(* A read is under way in the kernel, or about to be. *)
Reading(u) ==
    /\ pc[u] \in Moving \union {"ioctl", "unlock"} /\ u \notin flushing
    /\ Head(op[u]).kind = "read"

(* With batching: a read goes to the kernel with the queue empty, and the length*)
(* the thread has loaded is that of the queue.                               *)
Drained ==
    Batch => \A u \in Users : /\ pc[u] = "flushed" \/ Reading(u) => n = 0
                              /\ pc[u] \in {"store", "batch"} => index[u] = n

(* A reset pulse is a call of its own. *)
ResetCalls ==
    \A u \in Users : pc[u] \in {"pulse", "msleep", "reset_sm"} =>
                         Head(op[u]).kind \in {"pulse", "reset_sm"}
QueueInv == QueueCalls /\ ResetCalls /\ Direct /\ Drained

(* Two threads in such calls are one. *)
LEMMA SameUser ==
    ASSUME OneQueueUser, Batch, Typed, NEW u \in Users, NEW v \in Users,
           pc[u] # "idle", pc[v] # "idle",
           Head(op[u]).kind \in {"read", "write", "status", "flush"},
           Head(op[v]).kind \in {"read", "write", "status", "flush"}
    PROVE  u = v
<1>1. UsesQueue(u)
    BY OneCall DEF UsesQueue
<1>2. UsesQueue(v)
    BY OneCall DEF UsesQueue
<1> QED BY <1>1, <1>2 DEF OneQueueUser

LEMMA QueueCallsKept == ASSUME Typed, QueueCalls, [Next]_vars PROVE QueueCalls'
<1> USE DEF Goto, call, work, queue, cpld, ghosts, QueueCalls
<1>0. /\ DOMAIN op = Users /\ DOMAIN index = Users /\ pc \in [Users -> Places] /\ Progress
    BY DEF Typed, InACall, TypeOK
<1>1. ASSUME NEW u \in Users, Call(u) PROVE QueueCalls'
  <2>1. PICK o \in Ops[u] :
          /\ op' = [op EXCEPT ![u] = <<o>>]
          /\ Goto(u, IF Queued(o) THEN "push"
                    ELSE IF FlushesFirst(o) \/ o.kind = "flush" THEN "flush" ELSE "ioctl")
      BY <1>1 DEF Call
  <2>2. Head(<<o>>) = o
      OBVIOUS
  <2>3. op'[u] = <<o>> /\ u \notin flushing /\ flushing' = flushing
      BY <1>1, <1>0, <2>1 DEF Call, Progress, Moving
  <2>4. pc'[u] \in {"push", "flush"} =>
          o.kind \in {"read", "write", "status", "flush"} /\ (o.kind = "write" => Batch)
      BY <1>0, <2>1 DEF Queued, FlushesFirst
  <2>5. pc'[u] \in {"push", "flush", "ioctl"}
      BY <1>0, <2>1
  <2> QED BY <1>0, <2>1, <2>2, <2>3, <2>4, <2>5
<1>2. ASSUME NEW u \in Users, LoadIndex(u) PROVE QueueCalls'
    BY <1>2, <1>0 DEF LoadIndex, Progress, Queued
<1>3. ASSUME NEW u \in Users, StoreOp(u) PROVE QueueCalls'
    BY <1>3, <1>0 DEF StoreOp, Progress, Queued
<1>4. ASSUME NEW u \in Users, Flush(u) PROVE QueueCalls'
    BY <1>4, <1>0 DEF Flush
<1>5. ASSUME NEW u \in Users, EmptyQueue(u) PROVE QueueCalls'
    BY <1>5, <1>0 DEF EmptyQueue
<1>6. ASSUME NEW u \in Users, Flushed(u) PROVE QueueCalls'
    BY <1>6, <1>0 DEF Flushed
<1>7. ASSUME NEW u \in Users, Return(u) PROVE QueueCalls'
  <2>1. u \notin flushing /\ flushing' = flushing
      BY <1>7, <1>0 DEF Return, Progress, Moving
  <2> QED BY <1>7, <1>0, <2>1 DEF Return
<1>8. ASSUME NEW u \in Users, Lock(u) PROVE QueueCalls'
  <2>1. PICK o \in Ops[u] : op[u] = <<o>> /\ Head(op[u]) = o
      BY <1>8, OneCall DEF Lock
  <2>2. UNCHANGED op /\ \A v \in Users : v # u => (v \in flushing' <=> v \in flushing)
      BY <1>8, <1>0 DEF Lock
  <2>3. pc'[u] \notin {"push", "store", "flush", "batch", "empty", "flushed"}
      BY <1>8, <1>0 DEF Lock
  <2>4. u \in flushing' => Head(op[u]).kind \in {"read", "write", "status", "flush"}
      BY <1>8, <1>0, <2>1 DEF Lock
  <2> QED BY <1>8, <1>0, <2>2, <2>3, <2>4 DEF Lock
<1>9. ASSUME NEW u \in Users, LatchData(u) PROVE QueueCalls'
    BY <1>9, <1>0 DEF LatchData
<1>10. ASSUME NEW u \in Users, LatchAddress(u) PROVE QueueCalls'
    BY <1>10, <1>0 DEF LatchAddress
<1>11. ASSUME NEW u \in Users, LatchRequest(u) PROVE QueueCalls'
    BY <1>11, <1>0 DEF LatchRequest
<1>12. ASSUME NEW u \in Users, TxnDone(u) PROVE QueueCalls'
  <2>1. pc'[u] \in Moving \union {"unlock"} /\ UNCHANGED <<op, flushing>>
      BY <1>12, <1>0, NextTransaction DEF TxnDone, Moving
  <2> QED BY <1>12, <1>0, <2>1 DEF TxnDone, Moving
<1>13. ASSUME NEW u \in Users, TxnTimeout(u) PROVE QueueCalls'
    BY <1>13, <1>0 DEF TxnTimeout
<1>14. ASSUME NEW u \in Users, AssertReset(u) PROVE QueueCalls'
    BY <1>14, <1>0 DEF AssertReset
<1>15. ASSUME NEW u \in Users, ReleaseReset(u) PROVE QueueCalls'
    BY <1>15, <1>0 DEF ReleaseReset
<1>16. ASSUME NEW u \in Users, ResetSm(u) PROVE QueueCalls'
    BY <1>16, <1>0 DEF ResetSm
<1>17. ASSUME NEW u \in Users, Unlock(u) PROVE QueueCalls'
    BY <1>17, <1>0 DEF Unlock
<1>18. ASSUME Advance PROVE QueueCalls'
    BY <1>18, <1>0 DEF Advance
<1>19. ASSUME StartCycle PROVE QueueCalls'
    BY <1>19, <1>0 DEF StartCycle
<1>20. ASSUME DriveBus PROVE QueueCalls'
    BY <1>20, <1>0 DEF DriveBus
<1>21. ASSUME LowerTxn PROVE QueueCalls'
    BY <1>21, <1>0 DEF LowerTxn
<1>22. ASSUME LeaveS4 PROVE QueueCalls'
    BY <1>22, <1>0 DEF LeaveS4
<1>23. ASSUME Acknowledge PROVE QueueCalls'
    BY <1>23, <1>0 DEF Acknowledge
<1>24. ASSUME UNCHANGED vars PROVE QueueCalls'
    BY <1>24, <1>0 DEF vars
<1> QED BY <1>1, <1>2, <1>3, <1>4, <1>5, <1>6, <1>7, <1>8, <1>9, <1>10, <1>11, <1>12,
           <1>13, <1>14, <1>15, <1>16, <1>17, <1>18, <1>19, <1>20, <1>21, <1>22, <1>23,
           <1>24
           DEF Next, Library, Ioctl, Transact, Clocked

LEMMA DirectKept == ASSUME Typed, Direct, [Next]_vars PROVE Direct'
<1> USE DEF Goto, call, work, queue, cpld, ghosts, Direct
<1>0. /\ pc \in [Users -> Places] /\ flushing \subseteq Users
    BY DEF Typed, TypeOK
<1>1. ASSUME NEW u \in Users, Call(u) PROVE Direct'
    BY <1>1, <1>0 DEF Call, Queued
<1>2. ASSUME NEW u \in Users, LoadIndex(u) PROVE Direct'
    BY <1>2, <1>0 DEF LoadIndex
<1>3. ASSUME NEW u \in Users, StoreOp(u) PROVE Direct'
    BY <1>3, <1>0 DEF StoreOp
<1>4. ASSUME NEW u \in Users, Flush(u) PROVE Direct'
    BY <1>4, <1>0 DEF Flush, NothingToFlush
<1>5. ASSUME NEW u \in Users, EmptyQueue(u) PROVE Direct'
    BY <1>5, <1>0 DEF EmptyQueue
<1>6. ASSUME NEW u \in Users, Flushed(u) PROVE Direct'
    BY <1>6, <1>0 DEF Flushed
<1>7. ASSUME NEW u \in Users, Return(u) PROVE Direct'
    BY <1>7, <1>0 DEF Return
<1>8. ASSUME NEW u \in Users, Lock(u) PROVE Direct'
  <2>1. pc'[u] \notin {"push", "store", "batch", "empty"}
      BY <1>8, <1>0 DEF Lock
  <2> QED BY <1>8, <1>0, <2>1 DEF Lock
<1>9. ASSUME NEW u \in Users, LatchData(u) PROVE Direct'
    BY <1>9, <1>0 DEF LatchData
<1>10. ASSUME NEW u \in Users, LatchAddress(u) PROVE Direct'
    BY <1>10, <1>0 DEF LatchAddress
<1>11. ASSUME NEW u \in Users, LatchRequest(u) PROVE Direct'
    BY <1>11, <1>0 DEF LatchRequest
<1>12. ASSUME NEW u \in Users, TxnDone(u) PROVE Direct'
  <2>1. pc'[u] \in Moving \union {"unlock"}
      BY <1>12, NextTransaction DEF Moving
  <2> QED BY <1>12, <1>0, <2>1 DEF TxnDone, Moving
<1>13. ASSUME NEW u \in Users, TxnTimeout(u) PROVE Direct'
    BY <1>13, <1>0 DEF TxnTimeout
<1>14. ASSUME NEW u \in Users, AssertReset(u) PROVE Direct'
    BY <1>14, <1>0 DEF AssertReset
<1>15. ASSUME NEW u \in Users, ReleaseReset(u) PROVE Direct'
    BY <1>15, <1>0 DEF ReleaseReset
<1>16. ASSUME NEW u \in Users, ResetSm(u) PROVE Direct'
    BY <1>16, <1>0 DEF ResetSm
<1>17. ASSUME NEW u \in Users, Unlock(u) PROVE Direct'
    BY <1>17, <1>0 DEF Unlock
<1>18. ASSUME Advance PROVE Direct'
    BY <1>18, <1>0 DEF Advance
<1>19. ASSUME StartCycle PROVE Direct'
    BY <1>19, <1>0 DEF StartCycle
<1>20. ASSUME DriveBus PROVE Direct'
    BY <1>20, <1>0 DEF DriveBus
<1>21. ASSUME LowerTxn PROVE Direct'
    BY <1>21, <1>0 DEF LowerTxn
<1>22. ASSUME LeaveS4 PROVE Direct'
    BY <1>22, <1>0 DEF LeaveS4
<1>23. ASSUME Acknowledge PROVE Direct'
    BY <1>23, <1>0 DEF Acknowledge
<1>24. ASSUME UNCHANGED vars PROVE Direct'
    BY <1>24, <1>0 DEF vars
<1> QED BY <1>1, <1>2, <1>3, <1>4, <1>5, <1>6, <1>7, <1>8, <1>9, <1>10, <1>11, <1>12,
           <1>13, <1>14, <1>15, <1>16, <1>17, <1>18, <1>19, <1>20, <1>21, <1>22, <1>23,
           <1>24
           DEF Next, Library, Ioctl, Transact, Clocked

LEMMA ResetCallsKept == ASSUME Typed, ResetCalls, [Next]_vars PROVE ResetCalls'
<1> USE DEF Goto, call, work, queue, cpld, ghosts, ResetCalls
<1>0. /\ DOMAIN op = Users /\ pc \in [Users -> Places]
    BY DEF Typed, InACall, TypeOK
<1>1. ASSUME NEW u \in Users, Call(u) PROVE ResetCalls'
    BY <1>1, <1>0 DEF Call
<1>2. ASSUME NEW u \in Users, LoadIndex(u) PROVE ResetCalls'
    BY <1>2, <1>0 DEF LoadIndex
<1>3. ASSUME NEW u \in Users, StoreOp(u) PROVE ResetCalls'
    BY <1>3, <1>0 DEF StoreOp
<1>4. ASSUME NEW u \in Users, Flush(u) PROVE ResetCalls'
    BY <1>4, <1>0 DEF Flush
<1>5. ASSUME NEW u \in Users, EmptyQueue(u) PROVE ResetCalls'
    BY <1>5, <1>0 DEF EmptyQueue
<1>6. ASSUME NEW u \in Users, Flushed(u) PROVE ResetCalls'
    BY <1>6, <1>0 DEF Flushed
<1>7. ASSUME NEW u \in Users, Return(u) PROVE ResetCalls'
    BY <1>7, <1>0 DEF Return
<1>8. ASSUME NEW u \in Users, Lock(u) PROVE ResetCalls'
  <2>1. PICK o \in Ops[u] : op[u] = <<o>> /\ Head(op[u]) = o /\ op[u][1] = o
      BY <1>8, OneCall DEF Lock
  <2> QED BY <1>8, <1>0, <2>1 DEF Lock
<1>9. ASSUME NEW u \in Users, LatchData(u) PROVE ResetCalls'
    BY <1>9, <1>0 DEF LatchData
<1>10. ASSUME NEW u \in Users, LatchAddress(u) PROVE ResetCalls'
    BY <1>10, <1>0 DEF LatchAddress
<1>11. ASSUME NEW u \in Users, LatchRequest(u) PROVE ResetCalls'
    BY <1>11, <1>0 DEF LatchRequest
<1>12. ASSUME NEW u \in Users, TxnDone(u) PROVE ResetCalls'
  <2>1. pc'[u] \in Moving \union {"unlock"}
      BY <1>12, NextTransaction DEF Moving
  <2> QED BY <1>12, <1>0, <2>1 DEF TxnDone, Moving
<1>13. ASSUME NEW u \in Users, TxnTimeout(u) PROVE ResetCalls'
    BY <1>13, <1>0 DEF TxnTimeout
<1>14. ASSUME NEW u \in Users, AssertReset(u) PROVE ResetCalls'
    BY <1>14, <1>0 DEF AssertReset
<1>15. ASSUME NEW u \in Users, ReleaseReset(u) PROVE ResetCalls'
    BY <1>15, <1>0 DEF ReleaseReset
<1>16. ASSUME NEW u \in Users, ResetSm(u) PROVE ResetCalls'
    BY <1>16, <1>0 DEF ResetSm
<1>17. ASSUME NEW u \in Users, Unlock(u) PROVE ResetCalls'
    BY <1>17, <1>0 DEF Unlock
<1>18. ASSUME Advance PROVE ResetCalls'
    BY <1>18, <1>0 DEF Advance
<1>19. ASSUME StartCycle PROVE ResetCalls'
    BY <1>19, <1>0 DEF StartCycle
<1>20. ASSUME DriveBus PROVE ResetCalls'
    BY <1>20, <1>0 DEF DriveBus
<1>21. ASSUME LowerTxn PROVE ResetCalls'
    BY <1>21, <1>0 DEF LowerTxn
<1>22. ASSUME LeaveS4 PROVE ResetCalls'
    BY <1>22, <1>0 DEF LeaveS4
<1>23. ASSUME Acknowledge PROVE ResetCalls'
    BY <1>23, <1>0 DEF Acknowledge
<1>24. ASSUME UNCHANGED vars PROVE ResetCalls'
    BY <1>24, <1>0 DEF vars
<1> QED BY <1>1, <1>2, <1>3, <1>4, <1>5, <1>6, <1>7, <1>8, <1>9, <1>10, <1>11, <1>12,
           <1>13, <1>14, <1>15, <1>16, <1>17, <1>18, <1>19, <1>20, <1>21, <1>22, <1>23,
           <1>24
           DEF Next, Library, Ioctl, Transact, Clocked

LEMMA DrainedKept ==
    ASSUME OneQueueUser, Typed, QueueCalls, ResetCalls, Drained, [Next]_vars
    PROVE  Drained'
<1> USE DEF Goto, call, work, queue, cpld, ghosts, Drained
<1>0. /\ DOMAIN op = Users /\ DOMAIN index = Users /\ pc \in [Users -> Places] /\ Progress
      /\ OneQueueUser /\ Typed /\ QueueCalls /\ Drained /\ ResetCalls /\ n \in Nat
    BY QueueAssumption DEF Typed, InACall, TypeOK
<1>1. ASSUME NEW u \in Users, Call(u) PROVE Drained'
  <2>1. PICK o \in Ops[u] :
          /\ op' = [op EXCEPT ![u] = <<o>>]
          /\ Goto(u, IF Queued(o) THEN "push"
                    ELSE IF FlushesFirst(o) \/ o.kind = "flush" THEN "flush" ELSE "ioctl")
      BY <1>1 DEF Call
  <2>2. Head(<<o>>) = o
      OBVIOUS
  <2>3. op'[u] = <<o>> /\ UNCHANGED <<flushing, n, index>>
      BY <1>1, <1>0, <2>1 DEF Call
  <2>4. pc'[u] \in {"push", "flush", "ioctl"}
      BY <1>0, <2>1
  <2>5. Batch /\ pc'[u] = "ioctl" /\ o.kind = "read" => n = 0
      BY <1>0, <2>1 DEF FlushesFirst
  <2> QED BY <1>0, <2>1, <2>2, <2>3, <2>4, <2>5 DEF Reading, Moving
<1>2. ASSUME NEW u \in Users, LoadIndex(u) PROVE Drained'
    BY <1>2, <1>0 DEF LoadIndex, Reading, Moving
<1>3. ASSUME NEW u \in Users, StoreOp(u) PROVE Drained'
  <2>1. Head(op[u]).kind = "write" /\ pc[u] # "idle"
      BY <1>3 DEF StoreOp, Typed, Progress, Queued
  <2>2. ASSUME Batch, NEW v \in Users, v # u
        PROVE  pc[v] # "flushed" /\ ~Reading(v) /\ pc[v] \notin {"store", "batch"}
      BY <1>0, <2>1, <2>2, SameUser DEF QueueCalls, Reading, Moving
  <2>3. UNCHANGED <<op, flushing>> /\ pc'[u] \in {"flush", "return"}
        /\ \A v \in Users \ {u} : pc'[v] = pc[v]
      BY <1>3, <1>0 DEF StoreOp
  <2> QED BY <2>2, <2>3 DEF Reading, Moving
<1>4. ASSUME NEW u \in Users, Flush(u) PROVE Drained'
    BY <1>4, <1>0 DEF Flush, NothingToFlush, Reading, Moving
<1>5. ASSUME NEW u \in Users, EmptyQueue(u) PROVE Drained'
  <2>1. Head(op[u]).kind \in {"read", "write", "status", "flush"} /\ pc[u] # "idle"
      BY <1>5 DEF EmptyQueue, QueueCalls
  <2>2. ASSUME Batch, NEW v \in Users, v # u
        PROVE  pc[v] \notin {"store", "batch"}
      BY <1>0, <2>1, <2>2, SameUser DEF QueueCalls
  <2>3. n' = 0 /\ pc'[u] = "flushed" /\ \A v \in Users \ {u} : pc'[v] = pc[v]
      BY <1>5, <1>0 DEF EmptyQueue
  <2> QED BY <2>2, <2>3
<1>6. ASSUME NEW u \in Users, Flushed(u) PROVE Drained'
    BY <1>6, <1>0 DEF Flushed, Reading, Moving
<1>7. ASSUME NEW u \in Users, Return(u) PROVE Drained'
    BY <1>7, <1>0 DEF Return, Reading, Moving
<1>8. ASSUME NEW u \in Users, Lock(u) PROVE Drained'
  <2>1. UNCHANGED <<op, n, index>> /\ \A v \in Users : v # u => (v \in flushing' <=> v \in flushing)
      BY <1>8, <1>0 DEF Lock
  <2>2. pc'[u] \notin {"flushed", "store", "batch"}
      BY <1>8, <1>0 DEF Lock
  <2>3. Reading(u)' => Reading(u)
      BY <1>8, <1>0, <2>1 DEF Lock, Reading
  <2> QED BY <1>8, <1>0, <2>1, <2>2, <2>3 DEF Lock, Reading
<1>9. ASSUME NEW u \in Users, LatchData(u) PROVE Drained'
    BY <1>9, <1>0 DEF LatchData, Reading, Moving
<1>10. ASSUME NEW u \in Users, LatchAddress(u) PROVE Drained'
    BY <1>10, <1>0 DEF LatchAddress, Reading, Moving
<1>11. ASSUME NEW u \in Users, LatchRequest(u) PROVE Drained'
    BY <1>11, <1>0 DEF LatchRequest, Reading, Moving
<1>12. ASSUME NEW u \in Users, TxnDone(u) PROVE Drained'
  <2>1. pc[u] = "wait" /\ pc'[u] \in Moving \union {"unlock"} /\ UNCHANGED <<op, flushing, n, index>>
      BY <1>12, NextTransaction DEF TxnDone, Moving
  <2> QED BY <1>12, <1>0, <2>1 DEF TxnDone, Reading, Moving
<1>13. ASSUME NEW u \in Users, TxnTimeout(u) PROVE Drained'
    BY <1>13, <1>0 DEF TxnTimeout, Reading, Moving
<1>14. ASSUME NEW u \in Users, AssertReset(u) PROVE Drained'
    BY <1>14, <1>0 DEF AssertReset, Reading, Moving
<1>15. ASSUME NEW u \in Users, ReleaseReset(u) PROVE Drained'
  <2>1. Head(op[u]).kind # "read"
      BY <1>15, <1>0 DEF ReleaseReset, ResetCalls
  <2> QED BY <1>15, <1>0, <2>1 DEF ReleaseReset, Reading, Moving
<1>16. ASSUME NEW u \in Users, ResetSm(u) PROVE Drained'
  <2>1. Head(op[u]).kind # "read"
      BY <1>16, <1>0 DEF ResetSm, ResetCalls
  <2> QED BY <1>16, <1>0, <2>1 DEF ResetSm, Reading, Moving
<1>17. ASSUME NEW u \in Users, Unlock(u) PROVE Drained'
    BY <1>17, <1>0 DEF Unlock, Reading, Moving
<1>18. ASSUME Advance PROVE Drained'
    BY <1>18, <1>0 DEF Advance, Reading
<1>19. ASSUME StartCycle PROVE Drained'
    BY <1>19, <1>0 DEF StartCycle, Reading
<1>20. ASSUME DriveBus PROVE Drained'
    BY <1>20, <1>0 DEF DriveBus, Reading
<1>21. ASSUME LowerTxn PROVE Drained'
    BY <1>21, <1>0 DEF LowerTxn, Reading
<1>22. ASSUME LeaveS4 PROVE Drained'
    BY <1>22, <1>0 DEF LeaveS4, Reading
<1>23. ASSUME Acknowledge PROVE Drained'
    BY <1>23, <1>0 DEF Acknowledge, Reading
<1>24. ASSUME UNCHANGED vars PROVE Drained'
    BY <1>24, <1>0 DEF vars, Reading
<1> QED BY <1>1, <1>2, <1>3, <1>4, <1>5, <1>6, <1>7, <1>8, <1>9, <1>10, <1>11, <1>12,
           <1>13, <1>14, <1>15, <1>16, <1>17, <1>18, <1>19, <1>20, <1>21, <1>22, <1>23,
           <1>24
           DEF Next, Library, Ioctl, Transact, Clocked

LEMMA QueueKept == ASSUME OneQueueUser, Typed, QueueInv, [Next]_vars PROVE QueueInv'
    BY QueueCallsKept, ResetCallsKept, DirectKept, DrainedKept DEF QueueInv

-----------------------------------------------------------------------------
(* The transactions of an access to the Amiga's memory. *)

(* Every access lies in the memory, and none but a byte access is at an odd  *)
(* address: emulator.c splits odd words and longs (1440-1471, 1628-1664) and *)
(* refuses what is past the 24 bits.                                         *)
InMemory ==
    \A u \in Users : \A o \in Ops[u] :
        o.kind \in {"read", "write"} => Covers(o) \subseteq Addrs /\ (o.width # 8 => ~Odd(o.addr))

(* The bytes transaction i of o is about. *)
Part(o, i) == {a \in Covers(o) : WordAt(a) = WordAt(Address(o, i))}

LEMMA InMemoryCall ==
    ASSUME InMemory, NEW o \in Calls, o.kind \in {"read", "write"}
    PROVE  Covers(o) \subseteq Addrs /\ (o.width # 8 => ~Odd(o.addr))
    BY DEF InMemory, Calls

(* A byte access is one transaction, of its own byte. *)
LEMMA ByteTransfer ==
    ASSUME InMemory, NEW o \in Calls, o.kind \in {"read", "write"}, o.width = 8
    PROVE  /\ Count(o) = 1 /\ Address(o, 1) = o.addr /\ o.addr \in Addrs /\ Covers(o) = {o.addr}
           /\ o.addr % Top = o.addr /\ Part(o, 1) = {o.addr}
           /\ (ByteFlag(o, 1) <=> o.kind = "write")
<1>1. Count(o) = 1 /\ o.addr \in Nat /\ 8 \div 8 = 1
    BY CallType DEF Count
<1>2. Address(o, 1) = o.addr
    BY <1>1 DEF Address
<1>3. Covers(o) = {o.addr}
  <2>1. \A i : i \in 0 .. 1 - 1 <=> i = 0
      OBVIOUS
  <2>2. Covers(o) = {o.addr + i : i \in 0 .. 1 - 1}
      BY <1>1 DEF Covers
  <2> QED BY <1>1, <2>1, <2>2
<1>4. o.addr \in Addrs
    BY <1>3, InMemoryCall
<1>5. o.addr < Top /\ Top \in Nat
    BY <1>4, TopType
<1>6. o.addr % Top = o.addr
    BY <1>1, <1>5
<1>7. Part(o, 1) = {o.addr}
    BY <1>2, <1>3 DEF Part
<1>8. ByteFlag(o, 1) <=> o.kind = "write"
  <2>1. ~(Address(o, 1) >= Top)
      BY <1>1, <1>2, <1>5
  <2> QED BY <2>1 DEF ByteFlag, Byte8
<1> QED BY <1>1, <1>2, <1>3, <1>4, <1>6, <1>7, <1>8

(* Each transaction of a wider access is one even word. *)
LEMMA WordTransfer ==
    ASSUME InMemory, NEW o \in Calls, o.kind \in {"read", "write"}, o.width # 8,
           NEW i \in 1 .. Count(o)
    PROVE  LET e == Address(o, i) IN
           /\ e \in Addrs /\ e + 1 \in Addrs /\ WordAt(e) = e /\ e % Top = e /\ ~ByteFlag(o, i)
           /\ e - o.addr + 1 = 2 * i - 1 /\ Part(o, i) = {e, e + 1}
<1> DEFINE e == Address(o, i)
<1>1. o.addr \in Nat /\ o.width \in {16, 32} /\ i \in {1, 2} /\ (i = 2 => o.width = 32)
    BY CallType DEF Count
<1>2. 16 \div 8 = 2 /\ 32 \div 8 = 4
    OBVIOUS
<1>3. e = o.addr + 2 * (i - 1) /\ e \in Nat /\ e - o.addr + 1 = 2 * i - 1
    BY <1>1 DEF Address
<1>4. ASSUME NEW a PROVE a \in Covers(o) <=> \E j \in 0 .. (o.width \div 8) - 1 : a = o.addr + j
    BY DEF Covers
<1>5. e \in Covers(o) /\ e + 1 \in Covers(o)
  <2>1. 2 * (i - 1) \in 0 .. (o.width \div 8) - 1 /\ 2 * (i - 1) + 1 \in 0 .. (o.width \div 8) - 1
      BY <1>1, <1>2
  <2>2. e + 1 = o.addr + (2 * (i - 1) + 1)
      BY <1>1, <1>3
  <2> QED BY <1>3, <1>4, <2>1, <2>2
<1>6. e \in Addrs /\ e + 1 \in Addrs
    BY <1>5, InMemoryCall
<1>7. e < Top /\ Top \in Nat
    BY <1>6, TopType
<1>8. e % Top = e
    BY <1>3, <1>7
<1>9. o.addr % 2 = 0
  <2>1. o.addr % 2 # 1
      BY <1>1, InMemoryCall DEF Odd
  <2> QED BY <1>1, <2>1
<1>10. e % 2 = 0 /\ (e + 1) % 2 = 1
    BY <1>1, <1>3, <1>9
<1>11. WordAt(e) = e /\ WordAt(e + 1) = e
    BY <1>3, <1>10 DEF WordAt
<1>12. ~ByteFlag(o, i)
  <2>1. ~(Address(o, i) >= Top)
      BY <1>3, <1>7
  <2> QED BY <2>1 DEF ByteFlag, Byte8
<1>13. ASSUME NEW a \in Covers(o), WordAt(a) = e PROVE a \in {e, e + 1}
  <2>1. a \in Nat
      BY <1>1, <1>2, <1>4
  <2>2. a - (a % 2) = e /\ a % 2 \in {0, 1}
      BY <1>13, <2>1 DEF WordAt
  <2> QED BY <1>3, <2>1, <2>2
<1>14. Part(o, i) = {e, e + 1}
    BY <1>5, <1>11, <1>13 DEF Part
<1> QED BY <1>3, <1>6, <1>8, <1>11, <1>12, <1>14

(* The transactions of an access together cover its bytes. *)
LEMMA PartsCover ==
    ASSUME InMemory, NEW o \in Calls, o.kind \in {"read", "write"}, NEW a \in Covers(o)
    PROVE  \E i \in 1 .. Count(o) : a \in Part(o, i)
<1>1. CASE o.width = 8
    BY <1>1, ByteTransfer
<1>2. CASE o.width # 8
  <2>1. o.addr \in Nat /\ o.width \in {16, 32} /\ 16 \div 8 = 2 /\ 32 \div 8 = 4
      BY <1>2, CallType
  <2>2. PICK j \in 0 .. (o.width \div 8) - 1 : a = o.addr + j
      BY DEF Covers
  <2>3. CASE j \in {0, 1}
    <3>1. 1 \in 1 .. Count(o) /\ Address(o, 1) = o.addr
        BY <2>1, FirstHalf DEF Address
    <3>2. Part(o, 1) = {o.addr, o.addr + 1}
        BY <1>2, <3>1, WordTransfer
    <3> QED BY <2>1, <2>2, <2>3, <3>1, <3>2
  <2>4. CASE j \notin {0, 1}
    <3>1. o.width = 32 /\ j \in {2, 3}
        BY <2>1, <2>2, <2>4
    <3>2. 2 \in 1 .. Count(o) /\ Address(o, 2) = o.addr + 2
        BY <2>1, <3>1 DEF Address, Count
    <3>3. Part(o, 2) = {o.addr + 2, o.addr + 2 + 1}
        BY <1>2, <3>2, WordTransfer
    <3> QED BY <2>1, <2>2, <3>1, <3>2, <3>3
  <2> QED BY <2>3, <2>4
<1> QED BY <1>1, <1>2

(* The two words of a long access do not overlap. *)
LEMMA PartsApart ==
    ASSUME InMemory, NEW o \in Calls, o.kind \in {"read", "write"}, Count(o) = 2
    PROVE  Part(o, 1) \intersect Part(o, 2) = {}
<1>1. o.width = 32 /\ o.addr \in Nat
    BY CallType DEF Count
<1>2. Address(o, 1) = o.addr /\ Address(o, 2) = o.addr + 2 /\ 1 \in 1 .. Count(o) /\ 2 \in 1 .. Count(o)
    BY <1>1 DEF Address
<1>3. Part(o, 1) = {o.addr, o.addr + 1} /\ Part(o, 2) = {o.addr + 2, o.addr + 2 + 1}
    BY <1>1, <1>2, WordTransfer
<1> QED BY <1>1, <1>3

(* The data latches hold the word of the transaction under way. *)
LatchHolds ==
    \A u \in Users :
        pc[u] \in {"addr_lo", "addr_hi", "wait"} /\ Head(todo[u]).kind = "write" =>
            latch.data = Payload(Head(todo[u]), half[u])

(* The strobes are those of the transaction asked for. *)
StrobesMatch ==
    /\ req.on => \A u \in Users : pc[u] = "wait" =>
         /\ req.uds = Upper(ByteFlag(Head(todo[u]), half[u]))
         /\ req.lds = Lower(ByteFlag(Head(todo[u]), half[u]))
    /\ state = 3 => lines = [read |-> req.read, uds |-> req.uds, lds |-> req.lds]

LEMMA LatchKept ==
    ASSUME Typed, MutualExclusion, LatchHolds, [Next]_vars
    PROVE  LatchHolds'
<1> USE DEF Goto, call, work, queue, cpld, ghosts, LatchHolds
<1>0. /\ pc \in [Users -> Places] /\ DOMAIN todo = Users /\ DOMAIN half = Users
      /\ MutualExclusion /\ LatchHolds /\ latch = [addr |-> latch.addr, data |-> latch.data]
    BY DEF Typed, Shapes
<1>1. ASSUME NEW u \in Users, Call(u) PROVE LatchHolds'
    BY <1>1, <1>0 DEF Call
<1>2. ASSUME NEW u \in Users, LoadIndex(u) PROVE LatchHolds'
    BY <1>2, <1>0 DEF LoadIndex
<1>3. ASSUME NEW u \in Users, StoreOp(u) PROVE LatchHolds'
    BY <1>3, <1>0 DEF StoreOp
<1>4. ASSUME NEW u \in Users, Flush(u) PROVE LatchHolds'
    BY <1>4, <1>0 DEF Flush
<1>5. ASSUME NEW u \in Users, EmptyQueue(u) PROVE LatchHolds'
    BY <1>5, <1>0 DEF EmptyQueue
<1>6. ASSUME NEW u \in Users, Flushed(u) PROVE LatchHolds'
    BY <1>6, <1>0 DEF Flushed
<1>7. ASSUME NEW u \in Users, Return(u) PROVE LatchHolds'
    BY <1>7, <1>0 DEF Return
<1>8. ASSUME NEW u \in Users, Lock(u) PROVE LatchHolds'
  <2>1. ASSUME pc'[u] = "addr_lo" PROVE Head(todo'[u]).kind # "write"
    <3>1. PICK o : op[u] = <<o>> /\ Head(op[u]) = o /\ op[u][1] = o
        BY <1>8, OneCall DEF Lock
    <3>2. pc[u] = "ioctl" /\ todo'[u] = op[u] /\ o.kind = "read"
        BY <1>8, <1>0, <2>1, <3>1 DEF Lock
    <3> QED BY <3>1, <3>2
  <2>2. pc'[u] \notin {"addr_hi", "wait"}
      BY <1>8, <1>0 DEF Lock
  <2> QED BY <1>8, <1>0, <2>1, <2>2 DEF Lock
<1>9. ASSUME NEW u \in Users, LatchData(u) PROVE LatchHolds'
  <2>1. latch'.data = Payload(Head(todo[u]), half[u]) /\ UNCHANGED <<todo, half>>
      BY <1>9, <1>0 DEF LatchData
  <2>2. ASSUME NEW v \in Users, v # u PROVE pc[v] \notin {"addr_lo", "addr_hi", "wait"}
      BY <1>9, <1>0, <2>2 DEF LatchData, MutualExclusion, InIoctl
  <2> QED BY <1>9, <1>0, <2>1, <2>2 DEF LatchData
<1>10. ASSUME NEW u \in Users, LatchAddress(u) PROVE LatchHolds'
    BY <1>10, <1>0 DEF LatchAddress
<1>11. ASSUME NEW u \in Users, LatchRequest(u) PROVE LatchHolds'
    BY <1>11, <1>0 DEF LatchRequest
<1>12. ASSUME NEW u \in Users, TxnDone(u) PROVE LatchHolds'
  <2>1. Head(todo[u]).kind # "write" \/ pc'[u] \notin {"addr_lo", "addr_hi", "wait"}
      BY <1>12, NextTransaction
  <2>2. pc'[u] \in {"addr_lo", "addr_hi", "wait"} => todo'[u] = todo[u]
      BY <1>12, NextTransaction
  <2> QED BY <1>12, <1>0, <2>1, <2>2 DEF TxnDone
<1>13. ASSUME NEW u \in Users, TxnTimeout(u) PROVE LatchHolds'
    BY <1>13, <1>0 DEF TxnTimeout
<1>14. ASSUME NEW u \in Users, AssertReset(u) PROVE LatchHolds'
    BY <1>14, <1>0 DEF AssertReset
<1>15. ASSUME NEW u \in Users, ReleaseReset(u) PROVE LatchHolds'
    BY <1>15, <1>0 DEF ReleaseReset
<1>16. ASSUME NEW u \in Users, ResetSm(u) PROVE LatchHolds'
    BY <1>16, <1>0 DEF ResetSm
<1>17. ASSUME NEW u \in Users, Unlock(u) PROVE LatchHolds'
    BY <1>17, <1>0 DEF Unlock
<1>18. ASSUME Advance PROVE LatchHolds'
    BY <1>18, <1>0 DEF Advance
<1>19. ASSUME StartCycle PROVE LatchHolds'
    BY <1>19, <1>0 DEF StartCycle
<1>20. ASSUME DriveBus PROVE LatchHolds'
    BY <1>20, <1>0 DEF DriveBus
<1>21. ASSUME LowerTxn PROVE LatchHolds'
    BY <1>21, <1>0 DEF LowerTxn
<1>22. ASSUME LeaveS4 PROVE LatchHolds'
    BY <1>22, <1>0 DEF LeaveS4
<1>23. ASSUME Acknowledge PROVE LatchHolds'
    BY <1>23, <1>0 DEF Acknowledge
<1>24. ASSUME UNCHANGED vars PROVE LatchHolds'
    BY <1>24, <1>0 DEF vars
<1> QED BY <1>1, <1>2, <1>3, <1>4, <1>5, <1>6, <1>7, <1>8, <1>9, <1>10, <1>11, <1>12,
           <1>13, <1>14, <1>15, <1>16, <1>17, <1>18, <1>19, <1>20, <1>21, <1>22, <1>23,
           <1>24
           DEF Next, Library, Ioctl, Transact, Clocked

LEMMA StrobesKept ==
    ASSUME Typed, BusInv, StrobesMatch, ~broken, ~broken', [Next]_vars
    PROVE  StrobesMatch'
<1> USE DEF Goto, call, work, queue, cpld, ghosts, StrobesMatch
<1>0. /\ pc \in [Users -> Places] /\ DOMAIN todo = Users /\ DOMAIN half = Users
      /\ MutualExclusion /\ StrobesMatch /\ req \in Requests /\ ~broken
      /\ CycleHasRequest /\ RequestIsAwaited /\ LatchesAreFree
    BY DEF Typed, Shapes, BusInv, OneAtATime
<1>1. ASSUME NEW u \in Users, Call(u) PROVE StrobesMatch'
    BY <1>1, <1>0 DEF Call, Upper, Lower
<1>2. ASSUME NEW u \in Users, LoadIndex(u) PROVE StrobesMatch'
    BY <1>2, <1>0 DEF LoadIndex, Upper, Lower
<1>3. ASSUME NEW u \in Users, StoreOp(u) PROVE StrobesMatch'
    BY <1>3, <1>0 DEF StoreOp, Upper, Lower
<1>4. ASSUME NEW u \in Users, Flush(u) PROVE StrobesMatch'
    BY <1>4, <1>0 DEF Flush, Upper, Lower
<1>5. ASSUME NEW u \in Users, EmptyQueue(u) PROVE StrobesMatch'
    BY <1>5, <1>0 DEF EmptyQueue, Upper, Lower
<1>6. ASSUME NEW u \in Users, Flushed(u) PROVE StrobesMatch'
    BY <1>6, <1>0 DEF Flushed, Upper, Lower
<1>7. ASSUME NEW u \in Users, Return(u) PROVE StrobesMatch'
    BY <1>7, <1>0 DEF Return, Upper, Lower
<1>8. ASSUME NEW u \in Users, Lock(u) PROVE StrobesMatch'
  <2>1. pc'[u] # "wait"
      BY <1>8, <1>0 DEF Lock
  <2> QED BY <1>8, <1>0, <2>1 DEF Lock, Upper, Lower
<1>9. ASSUME NEW u \in Users, LatchData(u) PROVE StrobesMatch'
  <2>1. ~req.on
      BY <1>9, <1>0 DEF LatchData, RequestIsAwaited, MutualExclusion, InIoctl
  <2> QED BY <1>9, <1>0, <2>1 DEF LatchData, CycleHasRequest
<1>10. ASSUME NEW u \in Users, LatchAddress(u) PROVE StrobesMatch'
  <2>1. ~req.on
      BY <1>10, <1>0 DEF LatchAddress, RequestIsAwaited, MutualExclusion, InIoctl
  <2> QED BY <1>10, <1>0, <2>1 DEF LatchAddress, CycleHasRequest
<1>11. ASSUME NEW u \in Users, LatchRequest(u) PROVE StrobesMatch'
  <2>1. state # 3
      BY <1>11, <1>0 DEF LatchRequest, CycleHasRequest, LatchesAreFree
  <2>2. ASSUME NEW v \in Users, v # u PROVE pc[v] # "wait"
      BY <1>11, <1>0, <2>2 DEF LatchRequest, MutualExclusion, InIoctl
  <2>3. /\ req'.uds = Upper(ByteFlag(Head(todo[u]), half[u]))
        /\ req'.lds = Lower(ByteFlag(Head(todo[u]), half[u]))
        /\ UNCHANGED <<todo, half, state, latch>>
      BY <1>11 DEF LatchRequest
  <2>4. \A v \in Users : pc'[v] = "wait" => v = u
      BY <1>11, <1>0, <2>2 DEF LatchRequest
  <2> QED BY <2>1, <2>3, <2>4 DEF Upper, Lower
<1>12. ASSUME NEW u \in Users, TxnDone(u) PROVE StrobesMatch'
  <2>1. ~req.on
      BY <1>12, <1>0 DEF TxnDone, RequestIsAwaited
  <2> QED BY <1>12, <1>0, <2>1 DEF TxnDone, CycleHasRequest
<1>13. ASSUME NEW u \in Users, TxnTimeout(u) PROVE StrobesMatch'
    BY <1>13, <1>0 DEF TxnTimeout
<1>14. ASSUME NEW u \in Users, AssertReset(u) PROVE StrobesMatch'
    BY <1>14, <1>0 DEF AssertReset, Upper, Lower
<1>15. ASSUME NEW u \in Users, ReleaseReset(u) PROVE StrobesMatch'
    BY <1>15, <1>0 DEF ReleaseReset, Upper, Lower
<1>16. ASSUME NEW u \in Users, ResetSm(u) PROVE StrobesMatch'
    BY <1>16, <1>0 DEF ResetSm, Upper, Lower
<1>17. ASSUME NEW u \in Users, Unlock(u) PROVE StrobesMatch'
    BY <1>17, <1>0 DEF Unlock, Upper, Lower
<1>18. ASSUME Advance PROVE StrobesMatch'
    BY <1>18, <1>0 DEF Advance, Upper, Lower
<1>19. ASSUME StartCycle PROVE StrobesMatch'
    BY <1>19, <1>0 DEF StartCycle, Upper, Lower
<1>20. ASSUME DriveBus PROVE StrobesMatch'
  <2>1. UNCHANGED <<pc, todo, half, req, latch>> /\ state = 2
      BY <1>20 DEF DriveBus
  <2>2. lines' = [read |-> req.read, uds |-> req.uds, lds |-> req.lds]
      BY <1>20 DEF DriveBus
  <2> QED BY <1>0, <2>1, <2>2 DEF Upper, Lower
<1>21. ASSUME LowerTxn PROVE StrobesMatch'
    BY <1>21, <1>0 DEF LowerTxn, Upper, Lower
<1>22. ASSUME LeaveS4 PROVE StrobesMatch'
    BY <1>22, <1>0 DEF LeaveS4, Upper, Lower
<1>23. ASSUME Acknowledge PROVE StrobesMatch'
  <2>1. state' = 4 /\ req'.on = FALSE
      BY <1>23, <1>0 DEF Acknowledge, Requests, RequestLeft
  <2> QED BY <2>1
<1>24. ASSUME UNCHANGED vars PROVE StrobesMatch'
    BY <1>24, <1>0 DEF vars, Upper, Lower
<1> QED BY <1>1, <1>2, <1>3, <1>4, <1>5, <1>6, <1>7, <1>8, <1>9, <1>10, <1>11, <1>12,
           <1>13, <1>14, <1>15, <1>16, <1>17, <1>18, <1>19, <1>20, <1>21, <1>22, <1>23,
           <1>24
           DEF Next, Library, Ioctl, Transact, Clocked

-----------------------------------------------------------------------------
(* What a cycle does to the memory, and what a read takes from it. *)

(* What is known of every cycle until one is given up. *)
CycleInv ==
    /\ Typed /\ BusInv /\ InMemory /\ LatchHolds /\ StrobesMatch /\ ~broken

(* The cycle that DTACK ends is the transaction of the one thread that waits. *)
LEMMA CycleOwner ==
    ASSUME CycleInv, Acknowledge
    PROVE  \E u \in Users :
             LET o == Head(todo[u]) IN
             /\ pc[u] = "wait" /\ Doing(u) /\ o \in Calls /\ o.kind \in {"read", "write"}
             /\ latch.addr = Address(o, half[u]) % Top
             /\ (lines.read <=> o.kind = "read")
             /\ (lines.uds <=> Upper(ByteFlag(o, half[u]))) /\ (lines.lds <=> Lower(ByteFlag(o, half[u])))
             /\ o.kind = "write" => latch.data = Payload(o, half[u])
             /\ \A v \in Users : pc[v] \in Moving => v = u
<1>1. state = 3 /\ req.on
    BY DEF Acknowledge, CycleInv, BusInv, OneAtATime, CycleHasRequest
<1>2. PICK u \in Users : pc[u] = "wait" /\ AddressOf(u) /\ req.read = ReadFlag(Head(todo[u]))
    BY <1>1 DEF CycleInv, BusInv, OneAtATime, RequestIsAwaited
<1>3. Doing(u) /\ Head(todo[u]) \in Calls /\ Head(todo[u]).kind \in {"read", "write"}
    BY <1>2, DoingCall DEF CycleInv, Typed, Progress, Moving
<1>4. lines.read = req.read /\ lines.uds = req.uds /\ lines.lds = req.lds
    BY <1>1 DEF CycleInv, StrobesMatch
<1>5. req.uds = Upper(ByteFlag(Head(todo[u]), half[u])) /\ req.lds = Lower(ByteFlag(Head(todo[u]), half[u]))
    BY <1>1, <1>2 DEF CycleInv, StrobesMatch
<1>6. Head(todo[u]).kind = "write" => latch.data = Payload(Head(todo[u]), half[u])
    BY <1>2 DEF CycleInv, LatchHolds
<1>7. \A v \in Users : pc[v] \in Moving => v = u
    BY <1>2 DEF CycleInv, BusInv, MutualExclusion, InIoctl, Moving
<1> QED BY <1>2, <1>3, <1>4, <1>5, <1>6, <1>7 DEF AddressOf, ReadFlag

(* A write cycle changes the bytes of its transaction, to what was to be written,*)
(* and no other.                                                             *)
LEMMA CycleWrites ==
    ASSUME CycleInv, Acknowledge, NEW o \in Calls, o.kind = "write", NEW i \in 1 .. Count(o),
           latch.addr = Address(o, i) % Top, ~lines.read,
           lines.uds <=> Upper(ByteFlag(o, i)), lines.lds <=> Lower(ByteFlag(o, i)),
           latch.data = Payload(o, i), NEW a \in Addrs
    PROVE  memory'[a] = IF a \in Part(o, i) THEN o.data[a - o.addr + 1] ELSE memory[a]
<1> DEFINE e == WordAt(latch.addr)
<1>1. InMemory /\ o.kind \in {"read", "write"} /\ memory \in [Addrs -> Bytes]
    BY DEF CycleInv, Typed, TypeOK
<1>2. Addrs = 0 .. Top - 1 /\ Top \in Nat
    BY TopType
<1>3. memory' = [memory EXCEPT ![e]     = IF lines.uds THEN latch.data[1] ELSE @,
                               ![e + 1] = IF lines.lds THEN latch.data[2] ELSE @]
    BY DEF Acknowledge
<1>4. CASE o.width = 8
  <2>1. i = 1 /\ latch.addr = o.addr /\ o.addr \in Addrs /\ Part(o, i) = {o.addr} /\ ByteFlag(o, i)
      BY <1>1, <1>4, ByteTransfer
  <2>2. o.addr \in Nat /\ o.addr - o.addr + 1 = 1
      BY CallType
  <2>3. CASE Odd(o.addr)
    <3>1. e + 1 = o.addr /\ e # o.addr /\ e \in Int
        BY <2>1, <2>2, <2>3 DEF WordAt, Odd
    <3>2. ~lines.uds /\ lines.lds
        BY <2>1, <2>3 DEF Upper, Lower
    <3>3. latch.data[2] = o.data[1]
        BY <1>4 DEF Payload, Byte8
    <3> QED BY <3>3, <1>1, <1>3, <2>1, <2>2, <3>1, <3>2
  <2>4. CASE ~Odd(o.addr)
    <3>1. e = o.addr /\ e + 1 # o.addr /\ e \in Int
      <4>1. o.addr % 2 = 0
          BY <2>2, <2>4 DEF Odd
      <4> QED BY <2>1, <2>2, <4>1 DEF WordAt
    <3>2. lines.uds /\ ~lines.lds
        BY <2>1, <2>4 DEF Upper, Lower
    <3>3. latch.data[1] = o.data[1]
        BY <1>4, <2>4 DEF Payload, Byte8
    <3> QED BY <3>3, <1>1, <1>3, <2>1, <2>2, <3>1, <3>2
  <2> QED BY <2>3, <2>4
<1>5. CASE o.width # 8
  <2> DEFINE w == Address(o, i)
  <2>1. /\ w \in Addrs /\ w + 1 \in Addrs /\ WordAt(w) = w /\ w % Top = w /\ ~ByteFlag(o, i)
        /\ w - o.addr + 1 = 2 * i - 1 /\ Part(o, i) = {w, w + 1}
      BY <1>1, <1>5, WordTransfer
  <2>2. e = w /\ lines.uds /\ lines.lds
      BY <2>1 DEF Upper, Lower
  <2>3. latch.data[1] = o.data[2 * i - 1] /\ latch.data[2] = o.data[2 * i]
      BY <1>5 DEF Payload, Byte8
  <2>4. w + 1 - o.addr + 1 = 2 * i /\ w # w + 1
    <3>1. o.addr \in Nat /\ w \in Int /\ i \in Int
        BY <1>2, <2>1, CallType
    <3> QED BY <2>1, <3>1
  <2>5. memory'[w] = latch.data[1] /\ memory'[w + 1] = latch.data[2]
      BY <1>1, <1>3, <2>1, <2>2, <2>4
  <2>6. a \notin {w, w + 1} => memory'[a] = memory[a]
      BY <1>1, <1>3, <2>2
  <2>7. CASE a = w
      BY <2>1, <2>3, <2>5, <2>7
  <2>8. CASE a = w + 1
    <3>3. a \in Part(o, i)
        BY <2>1, <2>8
    <3>1. a - o.addr + 1 = 2 * i
      <4>1. o.addr \in Nat /\ w \in Int /\ i \in Int
          BY <1>2, <2>1, CallType
      <4> HIDE DEF w
      <4> QED BY <2>4, <2>8, <4>1
    <3>2. memory'[a] = o.data[2 * i]
        BY <2>3, <2>5, <2>8
    <3> QED BY <3>1, <3>2, <3>3
  <2>9. CASE a \notin {w, w + 1}
      BY <2>1, <2>6, <2>9
  <2> QED BY <2>7, <2>8, <2>9
<1> QED BY <1>4, <1>5

(* Transaction i of the write o is in the memory; so are all those a thread  *)
(* has behind it.                                                            *)
Landed(o, i) == \A a \in Part(o, i) : memory[a] = o.data[a - o.addr + 1]
WordsLand ==
    \A u \in Users :
        pc[u] \in Moving /\ Head(todo[u]).kind = "write" =>
            /\ half[u] = 2 => Landed(Head(todo[u]), 1)
            /\ pc[u] = "wait" /\ ~req.on => Landed(Head(todo[u]), half[u])

(* The first word of a long read, and the word transaction i reads; what a   *)
(* thread has taken is what the memory holds.                                *)
Fetched(o) == <<memory[o.addr], memory[o.addr + 1]>>
OnPins(o, i) == <<memory[WordAt(Address(o, i))], memory[WordAt(Address(o, i)) + 1]>>
WordsRead ==
    \A u \in Users :
        pc[u] \in Moving /\ Head(todo[u]).kind = "read" =>
            /\ half[u] = 1 => got[u] = << >>
            /\ half[u] = 2 => got[u] = Fetched(Head(todo[u]))
            /\ pc[u] = "wait" /\ ~req.on => rd = OnPins(Head(todo[u]), half[u])
(* Outside a read nothing has been read. *)
NothingRead ==
    \A u \in Users :
        ~(pc[u] \in Moving \union {"unlock", "return"} /\ u \notin flushing /\ Head(op[u]).kind = "read")
            => got[u] = << >>

LEMMA WordsLandKept == ASSUME CycleInv, WordsLand, ~broken', [Next]_vars PROVE WordsLand'
<1> USE DEF Goto, call, work, queue, cpld, ghosts, WordsLand, Moving
<1>0. /\ pc \in [Users -> Places] /\ DOMAIN todo = Users /\ DOMAIN half = Users /\ DOMAIN got = Users
      /\ MutualExclusion /\ req \in Requests /\ ~broken /\ WordsLand /\ CycleInv /\ Typed
      /\ CycleHasRequest /\ RequestIsAwaited /\ LatchesAreFree
    BY DEF CycleInv, Typed, Shapes, Parts, BusInv, OneAtATime
<1>1. ASSUME NEW u \in Users, Call(u) PROVE WordsLand'
    BY <1>1, <1>0 DEF Call, Landed
<1>2. ASSUME NEW u \in Users, LoadIndex(u) PROVE WordsLand'
    BY <1>2, <1>0 DEF LoadIndex, Landed
<1>3. ASSUME NEW u \in Users, StoreOp(u) PROVE WordsLand'
    BY <1>3, <1>0 DEF StoreOp, Landed
<1>4. ASSUME NEW u \in Users, Flush(u) PROVE WordsLand'
    BY <1>4, <1>0 DEF Flush, Landed
<1>5. ASSUME NEW u \in Users, EmptyQueue(u) PROVE WordsLand'
    BY <1>5, <1>0 DEF EmptyQueue, Landed
<1>6. ASSUME NEW u \in Users, Flushed(u) PROVE WordsLand'
    BY <1>6, <1>0 DEF Flushed, Landed
<1>7. ASSUME NEW u \in Users, Return(u) PROVE WordsLand'
    BY <1>7, <1>0 DEF Return, Landed
<1>8. ASSUME NEW u \in Users, Lock(u) PROVE WordsLand'
  <2>1. half'[u] = 1 /\ pc'[u] # "wait" /\ UNCHANGED <<memory, req, rd, got>>
      BY <1>8, <1>0 DEF Lock
  <2>2. \A v \in Users : v # u => UNCHANGED <<pc[v], todo[v], half[v]>>
      BY <1>8, <1>0 DEF Lock
  <2> QED BY <1>0, <2>1, <2>2 DEF Landed
<1>9. ASSUME NEW u \in Users, LatchData(u) PROVE WordsLand'
    BY <1>9, <1>0 DEF LatchData, Landed
<1>10. ASSUME NEW u \in Users, LatchAddress(u) PROVE WordsLand'
    BY <1>10, <1>0 DEF LatchAddress, Landed
<1>11. ASSUME NEW u \in Users, LatchRequest(u) PROVE WordsLand'
  <2>1. req'.on /\ UNCHANGED <<todo, half, memory, got>> /\ pc[u] = "addr_hi"
      BY <1>11 DEF LatchRequest
  <2>2. ASSUME NEW v \in Users, v # u PROVE pc[v] # "wait" /\ pc'[v] = pc[v]
      BY <1>11, <1>0, <2>2 DEF LatchRequest, MutualExclusion, InIoctl
  <2> QED BY <1>0, <2>1, <2>2 DEF Landed
<1>12. ASSUME NEW u \in Users, TxnDone(u) PROVE WordsLand'
  <2>1. ~req.on /\ UNCHANGED <<memory, req>> /\ pc[u] = "wait"
      BY <1>12, <1>0 DEF TxnDone, RequestIsAwaited
  <2>2. \A v \in Users : v # u => UNCHANGED <<pc[v], todo[v], half[v]>>
      BY <1>12, <1>0 DEF TxnDone
  <2>3. pc'[u] # "wait"
      BY <1>12, <1>0, NextTransaction
  <2>4. half'[u] = 2 => half[u] = 1 /\ todo'[u] = todo[u]
      BY <1>12, <1>0, NextTransaction
  <2>5. Head(todo[u]).kind = "write" /\ half[u] = 1 => Landed(Head(todo[u]), 1)
      BY <1>0, <2>1
  <2> QED BY <1>0, <2>1, <2>2, <2>3, <2>4, <2>5 DEF Landed
<1>13. ASSUME NEW u \in Users, TxnTimeout(u) PROVE WordsLand'
    BY <1>13, <1>0 DEF TxnTimeout, Landed
<1>14. ASSUME NEW u \in Users, AssertReset(u) PROVE WordsLand'
    BY <1>14, <1>0 DEF AssertReset, Landed
<1>15. ASSUME NEW u \in Users, ReleaseReset(u) PROVE WordsLand'
    BY <1>15, <1>0 DEF ReleaseReset, Landed
<1>16. ASSUME NEW u \in Users, ResetSm(u) PROVE WordsLand'
    BY <1>16, <1>0 DEF ResetSm, Landed
<1>17. ASSUME NEW u \in Users, Unlock(u) PROVE WordsLand'
    BY <1>17, <1>0 DEF Unlock, Landed
<1>18. ASSUME Advance PROVE WordsLand'
    BY <1>18, <1>0 DEF Advance, Landed
<1>19. ASSUME StartCycle PROVE WordsLand'
    BY <1>19, <1>0 DEF StartCycle, Landed
<1>20. ASSUME DriveBus PROVE WordsLand'
    BY <1>20, <1>0 DEF DriveBus, Landed
<1>21. ASSUME LowerTxn PROVE WordsLand'
    BY <1>21, <1>0 DEF LowerTxn, Landed
<1>22. ASSUME LeaveS4 PROVE WordsLand'
    BY <1>22, <1>0 DEF LeaveS4, Landed
<1>23. ASSUME Acknowledge PROVE WordsLand'
  <2>1. PICK u \in Users :
          LET o == Head(todo[u]) IN
             /\ pc[u] = "wait" /\ Doing(u) /\ o \in Calls /\ o.kind \in {"read", "write"}
             /\ latch.addr = Address(o, half[u]) % Top
             /\ (lines.read <=> o.kind = "read")
             /\ (lines.uds <=> Upper(ByteFlag(o, half[u]))) /\ (lines.lds <=> Lower(ByteFlag(o, half[u])))
             /\ o.kind = "write" => latch.data = Payload(o, half[u])
             /\ \A v \in Users : pc[v] \in Moving => v = u
      BY <1>23, <1>0, CycleOwner
  <2> DEFINE o == Head(todo[u])
  <2>2. UNCHANGED <<pc, todo, half>>
      BY <1>23 DEF Acknowledge
  <2>3. CASE o.kind = "write"
    <3>1. half[u] \in 1 .. Count(o) /\ Count(o) \in {1, 2}
        BY <2>1, CallType DEF Doing
    <3>2. \A a \in Addrs : memory'[a] = IF a \in Part(o, half[u]) THEN o.data[a - o.addr + 1] ELSE memory[a]
        BY <1>23, <1>0, <2>1, <2>3, <3>1, CycleWrites
    <3>3. Part(o, 1) \subseteq Addrs /\ Part(o, 2) \subseteq Addrs
        BY <1>0, <2>1, <2>3, InMemoryCall DEF Part, CycleInv
    <3>4. Landed(o, half[u])'
        BY <2>2, <3>1, <3>2, <3>3 DEF Landed
    <3>5. half[u] = 2 => Landed(o, 1)'
      <4>1. SUFFICES ASSUME half[u] = 2 PROVE Landed(o, 1)'
          OBVIOUS
      <4>2. Landed(o, 1)
          BY <1>0, <2>1, <2>3, <4>1 DEF Moving
      <4> QED BY <2>2, <3>2, <3>3, <4>2 DEF Landed
    <3> QED BY <2>1, <2>2, <2>3, <3>4, <3>5
  <2>4. CASE o.kind # "write"
      BY <2>1, <2>2, <2>4
  <2> QED BY <2>3, <2>4
<1>24. ASSUME UNCHANGED vars PROVE WordsLand'
    BY <1>24, <1>0 DEF vars, Landed
<1> QED BY <1>1, <1>2, <1>3, <1>4, <1>5, <1>6, <1>7, <1>8, <1>9, <1>10, <1>11, <1>12,
           <1>13, <1>14, <1>15, <1>16, <1>17, <1>18, <1>19, <1>20, <1>21, <1>22, <1>23,
           <1>24
           DEF Next, Library, Ioctl, Transact, Clocked

LEMMA WordsReadKept ==
    ASSUME CycleInv, NothingRead, WordsRead, ~broken', [Next]_vars
    PROVE  WordsRead'
<1> USE DEF Goto, call, work, queue, cpld, ghosts, WordsRead, Moving
<1>0. /\ pc \in [Users -> Places] /\ DOMAIN todo = Users /\ DOMAIN half = Users /\ DOMAIN got = Users
      /\ MutualExclusion /\ req \in Requests /\ ~broken /\ WordsRead /\ NothingRead /\ Progress /\ CycleInv /\ Typed
      /\ CycleHasRequest /\ RequestIsAwaited /\ LatchesAreFree
    BY DEF CycleInv, Typed, Shapes, Parts, BusInv, OneAtATime
<1>1. ASSUME NEW u \in Users, Call(u) PROVE WordsRead'
    BY <1>1, <1>0 DEF Call, Fetched, OnPins
<1>2. ASSUME NEW u \in Users, LoadIndex(u) PROVE WordsRead'
    BY <1>2, <1>0 DEF LoadIndex, Fetched, OnPins
<1>3. ASSUME NEW u \in Users, StoreOp(u) PROVE WordsRead'
    BY <1>3, <1>0 DEF StoreOp, Fetched, OnPins
<1>4. ASSUME NEW u \in Users, Flush(u) PROVE WordsRead'
    BY <1>4, <1>0 DEF Flush, Fetched, OnPins
<1>5. ASSUME NEW u \in Users, EmptyQueue(u) PROVE WordsRead'
    BY <1>5, <1>0 DEF EmptyQueue, Fetched, OnPins
<1>6. ASSUME NEW u \in Users, Flushed(u) PROVE WordsRead'
    BY <1>6, <1>0 DEF Flushed, Fetched, OnPins
<1>7. ASSUME NEW u \in Users, Return(u) PROVE WordsRead'
    BY <1>7, <1>0, <1>0 DEF Return, Fetched, OnPins, Moving
<1>8. ASSUME NEW u \in Users, Lock(u) PROVE WordsRead'
  <2>1. half'[u] = 1 /\ pc'[u] # "wait" /\ UNCHANGED <<memory, req, rd, got>>
      BY <1>8, <1>0 DEF Lock
  <2>2. \A v \in Users : v # u => UNCHANGED <<pc[v], todo[v], half[v]>>
      BY <1>8, <1>0 DEF Lock
  <2>3. got[u] = << >>
      BY <1>8, <1>0, Z3 DEF Lock, NothingRead, Moving
  <2> QED BY <1>0, <2>1, <2>2, <2>3 DEF Fetched, OnPins
<1>9. ASSUME NEW u \in Users, LatchData(u) PROVE WordsRead'
    BY <1>9, <1>0 DEF LatchData, Fetched, OnPins
<1>10. ASSUME NEW u \in Users, LatchAddress(u) PROVE WordsRead'
    BY <1>10, <1>0 DEF LatchAddress, Fetched, OnPins
<1>11. ASSUME NEW u \in Users, LatchRequest(u) PROVE WordsRead'
  <2>1. req'.on /\ UNCHANGED <<todo, half, memory, got>> /\ pc[u] = "addr_hi"
      BY <1>11 DEF LatchRequest
  <2>2. ASSUME NEW v \in Users, v # u PROVE pc[v] # "wait" /\ pc'[v] = pc[v]
      BY <1>11, <1>0, <2>2 DEF LatchRequest, MutualExclusion, InIoctl
  <2> QED BY <1>0, <2>1, <2>2 DEF Fetched, OnPins
<1>12. ASSUME NEW u \in Users, TxnDone(u) PROVE WordsRead'
  <2> DEFINE o == Head(todo[u])
  <2>1. ~req.on /\ UNCHANGED <<memory, req, rd>> /\ pc[u] = "wait"
      BY <1>12, <1>0 DEF TxnDone, RequestIsAwaited
  <2>2. \A v \in Users : v # u => UNCHANGED <<pc[v], todo[v], half[v], got[v]>>
      BY <1>12, <1>0 DEF TxnDone
  <2>3. pc'[u] # "wait" /\ o \in Calls
      BY <1>12, <1>0, NextTransaction
  <2>4. pc'[u] \in Moving /\ Head(todo'[u]).kind = "read" =>
          o.kind = "read" /\ half[u] = 1 /\ half'[u] = 2 /\ Count(o) = 2 /\ todo'[u] = todo[u]
      BY <1>12, <1>0, NextTransaction DEF Writes, Moving
  <2>5. o.kind = "read" /\ half[u] = 1 /\ Count(o) = 2 => got'[u] = Fetched(o)
    <3>1. SUFFICES ASSUME o.kind = "read", half[u] = 1, Count(o) = 2 PROVE got'[u] = Fetched(o)
        OBVIOUS
    <3>2. got[u] = << >> /\ rd = OnPins(o, 1)
        BY <1>0, <2>1, <3>1
    <3>3. got'[u] = got[u] \o Taken(o, rd)
        BY <1>12, <1>0, <3>1 DEF TxnDone
    <3>4. o.width = 32 /\ o.addr \in Nat /\ 1 \in 1 .. Count(o)
        BY <2>3, <3>1, CallType DEF Count
    <3>5. Address(o, 1) = o.addr /\ WordAt(o.addr) = o.addr
      <4>1. Address(o, 1) = o.addr
          BY <3>4 DEF Address
      <4> QED BY <1>0, <2>3, <3>1, <3>4, <4>1, WordTransfer DEF CycleInv
    <3>6. << >> \o <<memory[o.addr], memory[o.addr + 1]>> = <<memory[o.addr], memory[o.addr + 1]>>
        OBVIOUS
    <3>7. Taken(o, rd) = rd
        BY <3>4 DEF Taken, Byte8
    <3>8. rd = <<memory[o.addr], memory[o.addr + 1]>>
        BY <3>2, <3>5 DEF OnPins
    <3>9. got'[u] = << >> \o <<memory[o.addr], memory[o.addr + 1]>>
        BY <3>2, <3>3, <3>7, <3>8
    <3> QED BY <3>6, <3>9 DEF Fetched
  <2>6. ASSUME NEW v \in Users, pc'[v] \in Moving, Head(todo'[v]).kind = "read"
        PROVE  /\ half'[v] = 1 => got'[v] = << >>
               /\ half'[v] = 2 => got'[v] = Fetched(Head(todo[v]))'
               /\ pc'[v] = "wait" /\ ~req'.on => rd' = OnPins(Head(todo[v]), half[v])'
    <3>1. CASE v = u
        BY <2>1, <2>3, <2>4, <2>5, <2>6, <3>1 DEF Fetched
    <3>2. CASE v # u
        BY <1>0, <2>1, <2>2, <2>6, <3>2 DEF Fetched, OnPins
    <3> QED BY <3>1, <3>2
  <2> QED BY <2>6
<1>13. ASSUME NEW u \in Users, TxnTimeout(u) PROVE WordsRead'
    BY <1>13, <1>0 DEF TxnTimeout, Fetched, OnPins
<1>14. ASSUME NEW u \in Users, AssertReset(u) PROVE WordsRead'
    BY <1>14, <1>0 DEF AssertReset, Fetched, OnPins
<1>15. ASSUME NEW u \in Users, ReleaseReset(u) PROVE WordsRead'
    BY <1>15, <1>0 DEF ReleaseReset, Fetched, OnPins
<1>16. ASSUME NEW u \in Users, ResetSm(u) PROVE WordsRead'
    BY <1>16, <1>0 DEF ResetSm, Fetched, OnPins
<1>17. ASSUME NEW u \in Users, Unlock(u) PROVE WordsRead'
    BY <1>17, <1>0 DEF Unlock, Fetched, OnPins
<1>18. ASSUME Advance PROVE WordsRead'
    BY <1>18, <1>0 DEF Advance, Fetched, OnPins
<1>19. ASSUME StartCycle PROVE WordsRead'
    BY <1>19, <1>0 DEF StartCycle, Fetched, OnPins
<1>20. ASSUME DriveBus PROVE WordsRead'
    BY <1>20, <1>0 DEF DriveBus, Fetched, OnPins
<1>21. ASSUME LowerTxn PROVE WordsRead'
    BY <1>21, <1>0 DEF LowerTxn, Fetched, OnPins
<1>22. ASSUME LeaveS4 PROVE WordsRead'
    BY <1>22, <1>0 DEF LeaveS4, Fetched, OnPins
<1>23. ASSUME Acknowledge PROVE WordsRead'
  <2>1. PICK u \in Users :
          LET o == Head(todo[u]) IN
             /\ pc[u] = "wait" /\ Doing(u) /\ o \in Calls /\ o.kind \in {"read", "write"}
             /\ latch.addr = Address(o, half[u]) % Top
             /\ (lines.read <=> o.kind = "read")
             /\ (lines.uds <=> Upper(ByteFlag(o, half[u]))) /\ (lines.lds <=> Lower(ByteFlag(o, half[u])))
             /\ o.kind = "write" => latch.data = Payload(o, half[u])
             /\ \A v \in Users : pc[v] \in Moving => v = u
      BY <1>23, <1>0, CycleOwner
  <2> DEFINE o == Head(todo[u])
  <2>2. UNCHANGED <<pc, todo, half, got>>
      BY <1>23 DEF Acknowledge
  <2>3. CASE o.kind = "read"
    <3>1. lines.read /\ half[u] \in 1 .. Count(o) /\ InMemory
        BY <1>0, <2>1, <2>3 DEF Doing, CycleInv
    <3>2. memory' = memory
        BY <1>23, <3>1 DEF Acknowledge
    <3>3. ~ByteFlag(o, half[u]) /\ Address(o, half[u]) % Top = Address(o, half[u])
      <4>1. CASE o.width = 8
          BY <2>1, <2>3, <3>1, <4>1, ByteTransfer
      <4>2. CASE o.width # 8
          BY <2>1, <3>1, <4>2, WordTransfer
      <4> QED BY <4>1, <4>2
    <3>4. lines.uds /\ lines.lds /\ latch.addr = Address(o, half[u])
        BY <2>1, <3>3 DEF Upper, Lower
    <3>5. rd' = OnPins(o, half[u])
        BY <1>23, <3>1, <3>4 DEF Acknowledge, OnPins
    <3> QED BY <1>0, <2>1, <2>2, <2>3, <3>2, <3>5 DEF Moving, Fetched, OnPins
  <2>4. CASE o.kind # "read"
      BY <2>1, <2>2, <2>4
  <2> QED BY <2>3, <2>4
<1>24. ASSUME UNCHANGED vars PROVE WordsRead'
    BY <1>24, <1>0 DEF vars, Fetched, OnPins
<1> QED BY <1>1, <1>2, <1>3, <1>4, <1>5, <1>6, <1>7, <1>8, <1>9, <1>10, <1>11, <1>12,
           <1>13, <1>14, <1>15, <1>16, <1>17, <1>18, <1>19, <1>20, <1>21, <1>22, <1>23,
           <1>24
           DEF Next, Library, Ioctl, Transact, Clocked

-----------------------------------------------------------------------------
(* What the writes still to be performed will make of the memory. *)

Changes(o) == IF o.kind = "write" THEN Covers(o) ELSE {}
ByteOf(o, a) == o.data[a - o.addr + 1]

(* The memory m holds at a what w does, or will when the calls of s have been*)
(* performed: the last of them that covers a writes w[a].                    *)
Owed(m, w, s, a) ==
    \/ m[a] = w[a] /\ \A i \in 1 .. Len(s) : a \notin Changes(s[i])
    \/ \E i \in 1 .. Len(s) : /\ a \in Changes(s[i]) /\ w[a] = ByteOf(s[i], a)
                              /\ \A j \in (i + 1) .. Len(s) : a \notin Changes(s[j])
Owes(m, w, s) == \A a \in Addrs : Owed(m, w, s, a)

LEMMA OwesNothing == ASSUME NEW m, NEW w PROVE Owes(m, w, << >>) <=> \A a \in Addrs : m[a] = w[a]
<1>1. Len(<< >>) = 0
    OBVIOUS
<1> QED BY <1>1 DEF Owes, Owed

(* The sequence that is s with o behind it. *)
LEMMA AppendIs ==
    ASSUME NEW S, NEW s \in Seq(S), NEW o \in S, NEW t, NEW l, l = Len(s),
           t \in [1 .. l + 1 -> S], \A i \in 1 .. l : t[i] = s[i], t[l + 1] = o
    PROVE  t = Append(s, o)
<1> DEFINE x == Append(s, o)
<1>1. l \in Nat /\ x \in Seq(S) /\ Len(x) = l + 1
    BY AppendProperties
<1>2. x \in [1 .. Len(x) -> S]
    BY <1>1, LenProperties
<1>3. \A i \in 1 .. l : x[i] = s[i]
    BY AppendProperties
<1>4. x[l + 1] = o
    BY AppendProperties
<1> HIDE DEF x
<1>5. ASSUME NEW i \in 1 .. l + 1 PROVE x[i] = t[i]
  <2>1. i \in 1 .. l \/ i = l + 1
      BY <1>1
  <2> QED BY <1>3, <1>4, <2>1
<1>6. x = [i \in 1 .. l + 1 |-> x[i]]
    BY <1>1, <1>2
<1>7. x = t
    BY <1>5, <1>6
<1> QED BY <1>7 DEF x

(* One more write, queued behind the others. *)
LEMMA OwesAppend ==
    ASSUME NEW m, NEW w \in [Addrs -> Bytes], NEW s \in Seq(Calls), NEW o \in Calls, Owes(m, w, s)
    PROVE  Owes(m, Written(w, o), Append(s, o))
<1> DEFINE t == Append(s, o)
           x == Written(w, o)
<1>1. Len(t) = Len(s) + 1 /\ Len(s) \in Nat /\ t[Len(s) + 1] = o
    OBVIOUS
<1>2. \A i \in 1 .. Len(s) : t[i] = s[i]
    OBVIOUS
<1>3. \A a \in Addrs : x[a] = IF a \in Changes(o) THEN ByteOf(o, a) ELSE w[a]
    BY DEF Written, Changes, ByteOf
<1>4. ASSUME NEW a \in Addrs PROVE Owed(m, x, t, a)
  <2> HIDE DEF t, x
  <2>1. CASE a \in Changes(o)
    <3>1. Len(t) \in 1 .. Len(t) /\ t[Len(t)] = o /\ x[a] = ByteOf(o, a)
        BY <1>1, <1>3, <2>1
    <3>2. \A j \in (Len(t) + 1) .. Len(t) : a \notin Changes(t[j])
        BY <1>1
    <3> QED BY <2>1, <3>1, <3>2 DEF Owed
  <2>2. CASE a \notin Changes(o)
    <3>1. x[a] = w[a] /\ Owed(m, w, s, a)
        BY <1>3, <2>2 DEF Owes
    <3>2. CASE m[a] = w[a] /\ \A i \in 1 .. Len(s) : a \notin Changes(s[i])
      <4>1. \A i \in 1 .. Len(t) : a \notin Changes(t[i])
          BY <1>1, <1>2, <2>2, <3>2
      <4> QED BY <3>1, <3>2, <4>1 DEF Owed
    <3>3. ASSUME NEW i \in 1 .. Len(s), a \in Changes(s[i]), w[a] = ByteOf(s[i], a),
                 \A j \in (i + 1) .. Len(s) : a \notin Changes(s[j])
          PROVE  Owed(m, x, t, a)
      <4>1. i \in 1 .. Len(t) /\ t[i] = s[i]
          BY <1>1, <1>2
      <4>2. \A j \in (i + 1) .. Len(t) : a \notin Changes(t[j])
          BY <1>1, <1>2, <2>2, <3>3
      <4> QED BY <3>1, <3>3, <4>1, <4>2 DEF Owed
    <3> QED BY <3>1, <3>2, <3>3 DEF Owed
  <2> QED BY <2>1, <2>2
<1> QED BY <1>4 DEF Owes

(* The first operation of a batch is through. *)
LEMMA OwesTail ==
    ASSUME NEW m, NEW w, NEW s \in Seq(Calls), s # << >>, Owes(m, w, s),
           \A a \in Changes(Head(s)) : m[a] = ByteOf(Head(s), a)
    PROVE  Owes(m, w, Tail(s))
<1> DEFINE t == Tail(s)
<1>1. Len(t) = Len(s) - 1 /\ Len(s) \in Nat /\ Len(s) >= 1 /\ Head(s) = s[1]
    OBVIOUS
<1>2. \A i \in 1 .. Len(t) : t[i] = s[i + 1]
    OBVIOUS
<1>3. ASSUME NEW a \in Addrs PROVE Owed(m, w, t, a)
  <2> HIDE DEF t
  <2>1. Owed(m, w, s, a)
      BY DEF Owes
  <2>2. CASE m[a] = w[a] /\ \A i \in 1 .. Len(s) : a \notin Changes(s[i])
    <3>1. \A i \in 1 .. Len(t) : a \notin Changes(t[i])
        BY <1>1, <1>2, <2>2
    <3> QED BY <2>2, <3>1 DEF Owed
  <2>3. ASSUME NEW i \in 1 .. Len(s), a \in Changes(s[i]), w[a] = ByteOf(s[i], a),
               \A j \in (i + 1) .. Len(s) : a \notin Changes(s[j])
        PROVE  Owed(m, w, t, a)
    <3>1. CASE i = 1
      <4>1. m[a] = w[a]
          BY <1>1, <2>3, <3>1
      <4>2. \A j \in 1 .. Len(t) : a \notin Changes(t[j])
          BY <1>1, <1>2, <2>3, <3>1
      <4> QED BY <4>1, <4>2 DEF Owed
    <3>2. CASE i # 1
      <4>1. i - 1 \in 1 .. Len(t) /\ t[i - 1] = s[i]
          BY <1>1, <1>2, <3>2
      <4>2. \A j \in ((i - 1) + 1) .. Len(t) : a \notin Changes(t[j])
          BY <1>1, <1>2, <2>3
      <4> QED BY <2>3, <4>1, <4>2 DEF Owed
    <3> QED BY <3>1, <3>2
  <2> QED BY <2>1, <2>2, <2>3 DEF Owed
<1> QED BY <1>3 DEF Owes

(* A cycle of the first operation may change its bytes, no other. *)
LEMMA OwesHead ==
    ASSUME NEW m, NEW x, NEW w, NEW s \in Seq(Calls), s # << >>, Owes(m, w, s),
           \A a \in Addrs : x[a] = m[a] \/ a \in Changes(Head(s))
    PROVE  Owes(x, w, s)
<1>1. Len(s) \in Nat /\ Len(s) >= 1 /\ Head(s) = s[1]
    OBVIOUS
<1>2. ASSUME NEW a \in Addrs PROVE Owed(x, w, s, a)
  <2>1. Owed(m, w, s, a)
      BY DEF Owes
  <2>2. CASE m[a] = w[a] /\ \A i \in 1 .. Len(s) : a \notin Changes(s[i])
    <3>1. a \notin Changes(Head(s))
        BY <1>1, <2>2
    <3> QED BY <2>2, <3>1 DEF Owed
  <2> QED BY <2>1, <2>2 DEF Owed
<1> QED BY <1>2 DEF Owes

(* The writes in g_opsq that no flush has handed to the kernel. *)
Waiting == IF flushing = {} THEN [i \in 1 .. n |-> slots[i - 1][1]] ELSE << >>

(* What is written is in the memory, or in the operations a thread is performing,*)
(* or, when no thread performs any, in the queue.                            *)
Debts ==
    /\ \A u \in Users : pc[u] \in Moving => Owes(memory, wrote, todo[u])
    /\ (\A u \in Users : pc[u] \notin Moving) => Owes(memory, wrote, Waiting)

(* The queue is a sequence of g_opsq_n writes. *)
LEMMA WaitingType ==
    ASSUME Typed
    PROVE  /\ [i \in 1 .. n |-> slots[i - 1][1]] \in Seq(Calls)
           /\ Len([i \in 1 .. n |-> slots[i - 1][1]]) = n
<1>1. n \in 0 .. QueueMax /\ QueueMax \in Nat
    BY QueueAssumption DEF Typed, TypeOK
<1>2. ASSUME NEW i \in 1 .. n PROVE slots[i - 1][1] \in Calls
  <2>1. i - 1 \in 0 .. QueueMax - 1 /\ ~(n <= i - 1)
      BY <1>1
  <2>2. slots[i - 1] # << >>
      BY <2>1 DEF Typed, Filled
  <2>3. slots[i - 1] \in {<<o>> : o \in Writes}
      BY <2>1, <2>2 DEF Typed, Filled
  <2> QED BY <2>3 DEF Writes
<1>3. [i \in 1 .. n |-> slots[i - 1][1]] \in [1 .. n -> Calls]
    BY <1>2
<1> QED BY <1>1, <1>3

(* What moves no word and touches no queue leaves the debts alone. *)
LEMMA DebtsFrame ==
    ASSUME Debts, UNCHANGED <<memory, wrote, slots, n, flushing>>,
           \A v \in Users : pc'[v] \in Moving <=> pc[v] \in Moving,
           \A v \in Users : pc[v] \in Moving => todo'[v] = todo[v]
    PROVE  Debts'
<1>1. Waiting' = Waiting
    BY DEF Waiting
<1>2. ASSUME NEW v \in Users, pc'[v] \in Moving PROVE Owes(memory', wrote', todo'[v])
    BY <1>2 DEF Debts
<1>3. (\A u \in Users : pc'[u] \notin Moving) => Owes(memory', wrote', Waiting')
    BY <1>1 DEF Debts
<1> QED BY <1>2, <1>3 DEF Debts

LEMMA DebtsKept ==
    ASSUME OneQueueUser, CycleInv, QueueInv, WordsLand, Debts, ~broken', [Next]_vars
    PROVE  Debts'
<1> USE DEF Goto, call, work, queue, cpld, ghosts, Debts, Moving
<1>0. /\ pc \in [Users -> Places] /\ DOMAIN todo = Users /\ DOMAIN half = Users /\ DOMAIN op = Users
      /\ OneQueueUser /\ QueueInv /\ WordsLand /\ Debts /\ CycleInv /\ Typed /\ Progress /\ TypeOK
      /\ MutualExclusion /\ ~broken /\ RequestIsAwaited
    BY DEF CycleInv, Typed, Shapes, InACall, Parts, BusInv, OneAtATime
<1>1. ASSUME NEW u \in Users, Call(u) PROVE Debts'
  <2>1. pc[u] \notin Moving /\ pc'[u] \notin Moving /\ \A v \in Users : v # u => pc'[v] = pc[v]
      BY <1>1, <1>0 DEF Call
  <2>2. UNCHANGED <<memory, wrote, slots, n, flushing, todo>>
      BY <1>1 DEF Call
  <2> QED BY <1>0, <2>1, <2>2, DebtsFrame
<1>2. ASSUME NEW u \in Users, LoadIndex(u) PROVE Debts'
  <2>1. UNCHANGED <<memory, wrote, slots, n, flushing, todo>>
      BY <1>2 DEF LoadIndex
  <2>2. \A v \in Users : pc'[v] \in Moving <=> pc[v] \in Moving
      BY <1>2, <1>0 DEF LoadIndex
  <2> QED BY <1>0, <2>1, <2>2, DebtsFrame
<1>3. ASSUME NEW u \in Users, StoreOp(u) PROVE Debts'
  <2>1. PICK o \in Ops[u] : op[u] = <<o>> /\ Head(op[u]) = o
      BY <1>3, <1>0, OneCall DEF StoreOp
  <2>2. Batch /\ o.kind = "write" /\ o \in Calls
      BY <1>3, <1>0, <2>1 DEF StoreOp, Progress, Queued, Calls
  <2>3. index[u] = n /\ u \notin flushing
      BY <1>3, <1>0, <2>2 DEF StoreOp, QueueInv, Drained, Progress
  <2>4. ASSUME NEW v \in Users PROVE pc[v] \notin Moving /\ v \notin flushing
    <3>1. CASE v = u
        BY <1>3, <2>3, <3>1 DEF StoreOp
    <3>2. CASE v # u
      <4>1. pc[u] # "idle" /\ Head(op[u]).kind = "write"
          BY <1>3, <2>1, <2>2 DEF StoreOp
      <4>2. v \notin flushing
          BY <1>0, <2>2, <3>2, <4>1, SameUser DEF QueueInv, QueueCalls, Progress
      <4>3. pc[v] \in Moving => Head(op[v]).kind \in {"read", "write"}
          BY <1>0, <4>2 DEF Progress, Doing
      <4> QED BY <1>0, <2>2, <3>2, <4>1, <4>2, <4>3, SameUser
    <3> QED BY <3>1, <3>2
  <2>5. flushing = {} /\ flushing' = flushing /\ memory' = memory /\ wrote' = Written(wrote, o)
    <3>1. flushing = {}
        BY <1>0, <2>4 DEF TypeOK
    <3>2. flushing' = flushing /\ memory' = memory /\ wrote' = Written(wrote, Head(op[u]))
        BY <1>3 DEF StoreOp
    <3> QED BY <2>1, <3>1, <3>2
  <2>6. \A v \in Users : pc'[v] \notin Moving
    <3>1. pc' = [pc EXCEPT ![u] = pc'[u]] /\ pc'[u] \in {"flush", "return"}
        BY <1>3, <1>0 DEF StoreOp
    <3> QED BY <1>0, <2>4, <3>1
  <2> DEFINE s == [i \in 1 .. n |-> slots[i - 1][1]]
             t == [i \in 1 .. n + 1 |-> slots'[i - 1][1]]
  <2>7. Waiting = s /\ Waiting' = t
      BY <1>3, <2>3, <2>5 DEF StoreOp, Waiting
  <2>8. s \in Seq(Calls) /\ Len(s) = n /\ n \in Nat
    <3>1. n \in Nat
        BY <1>0, QueueAssumption DEF TypeOK
    <3> QED BY <1>0, <3>1, WaitingType
  <2>9. t = Append(s, o)
    <3>1. \A i \in 0 .. QueueMax - 1 : slots'[i] = IF i = n THEN <<o>> ELSE slots[i]
      <4>1. slots' = [slots EXCEPT ![n] = <<o>>] /\ DOMAIN slots = 0 .. QueueMax - 1
        <5>1. slots' = [slots EXCEPT ![n] = <<o>>]
            BY <1>3, <2>1, <2>3 DEF StoreOp
        <5>2. DOMAIN slots = 0 .. QueueMax - 1
            BY <1>0 DEF Typed, Filled
        <5> QED BY <5>1, <5>2
      <4> QED BY <4>1
    <3>2. n \in 0 .. QueueMax - 1 /\ QueueMax \in Nat
        BY <1>3, <2>3, <2>8, QueueAssumption DEF StoreOp
    <3>3. ASSUME NEW i \in 1 .. n PROVE t[i] = s[i]
        BY <3>1, <3>2
    <3>4. t[n + 1] = o
        BY <3>1, <3>2
    <3>5. t \in [1 .. n + 1 -> Calls]
      <4>1. ASSUME NEW i \in 1 .. n + 1 PROVE t[i] \in Calls
        <5>1. CASE i \in 1 .. n
            BY <2>8, <3>3, <5>1, LenProperties
        <5>2. CASE i = n + 1
            BY <2>2, <3>4, <5>2
        <5> QED BY <2>8, <5>1, <5>2
      <4> QED BY <4>1
    <3> HIDE DEF s, t
    <3>6. n = Len(s) /\ \A i \in 1 .. n : t[i] = s[i]
        BY <2>8, <3>3
    <3> QED BY <2>2, <2>8, <3>4, <3>5, <3>6, AppendIs
  <2>10. Owes(memory, wrote, s)
      BY <1>0, <2>4, <2>7
  <2>11. wrote \in [Addrs -> Bytes]
      BY <1>0 DEF TypeOK
  <2>12. Owes(memory, Written(wrote, o), Append(s, o))
    <3> HIDE DEF s, t
    <3> QED BY <2>2, <2>8, <2>10, <2>11, OwesAppend
  <2>13. Owes(memory', wrote', Waiting')
      BY <2>5, <2>7, <2>9, <2>12
  <2> QED BY <2>6, <2>13
<1>4. ASSUME NEW u \in Users, Flush(u) PROVE Debts'
  <2>1. UNCHANGED <<memory, wrote, slots, n, flushing, todo>>
      BY <1>4 DEF Flush
  <2>2. \A v \in Users : pc'[v] \in Moving <=> pc[v] \in Moving
      BY <1>4, <1>0 DEF Flush
  <2> QED BY <1>0, <2>1, <2>2, DebtsFrame
<1>5. ASSUME NEW u \in Users, EmptyQueue(u) PROVE Debts'
  <2>1. UNCHANGED <<memory, wrote, todo>> /\ n' = 0 /\ u \in flushing
      BY <1>5, <1>0 DEF EmptyQueue, Progress
  <2>2. \A v \in Users : pc'[v] \in Moving <=> pc[v] \in Moving
      BY <1>5, <1>0 DEF EmptyQueue
  <2>3. Waiting = << >> /\ Waiting' = << >>
    <3>1. Waiting = << >>
        BY <2>1 DEF Waiting
    <3>2. [i \in 1 .. 0 |-> slots[i - 1][1]]' = << >>
        OBVIOUS
    <3> QED BY <2>1, <3>1, <3>2 DEF Waiting
  <2> QED BY <1>0, <2>1, <2>2, <2>3
<1>6. ASSUME NEW u \in Users, Flushed(u) PROVE Debts'
  <2>1. UNCHANGED <<memory, wrote, slots, n, flushing, todo>>
      BY <1>6 DEF Flushed
  <2>2. \A v \in Users : pc'[v] \in Moving <=> pc[v] \in Moving
      BY <1>6, <1>0 DEF Flushed
  <2> QED BY <1>0, <2>1, <2>2, DebtsFrame
<1>7. ASSUME NEW u \in Users, Return(u) PROVE Debts'
  <2>1. UNCHANGED <<memory, wrote, slots, n, flushing, todo>>
      BY <1>7 DEF Return
  <2>2. \A v \in Users : pc'[v] \in Moving <=> pc[v] \in Moving
      BY <1>7, <1>0 DEF Return
  <2> QED BY <1>0, <2>1, <2>2, DebtsFrame
<1>8. ASSUME NEW u \in Users, Lock(u) PROVE Debts'
  <2>1. UNCHANGED <<memory, slots, n>> /\ \A v \in Users : pc[v] \notin Moving
      BY <1>8, <1>0, UsersAssumption DEF Lock, MutualExclusion, InIoctl, MutexFree
  <2>2. \A v \in Users : v # u => pc'[v] = pc[v]
      BY <1>8, <1>0 DEF Lock
  <2>3. Owes(memory, wrote, Waiting)
      BY <1>0, <2>1
  <2>4. CASE pc[u] = "batch"
    <3>1. Batch /\ index[u] = n /\ Head(op[u]).kind \in {"read", "write", "status", "flush"}
        BY <1>0, <2>4 DEF QueueInv, QueueCalls, Drained, Progress
    <3>2. flushing = {}
      <4>1. ASSUME NEW v \in flushing PROVE FALSE
        <5>1. v \in Users /\ pc[v] \in {"empty", "unlock"}
            BY <1>0, <2>1, <4>1 DEF TypeOK, Progress
        <5>2. v \in Users /\ pc[v] \in {"empty", "unlock"} /\ Head(op[v]).kind \in {"read", "write", "status", "flush"}
            BY <1>0, <4>1, <5>1 DEF TypeOK, QueueInv, QueueCalls
        <5>3. v = u
            BY <1>0, <2>4, <3>1, <5>2, SameUser
        <5> QED BY <2>4, <5>2, <5>3
      <4> QED BY <4>1
    <3>3. todo'[u] = Waiting /\ wrote' = wrote /\ pc'[u] = "write"
        BY <1>8, <1>0, <2>4, <3>1, <3>2 DEF Lock, Copied, Waiting
    <3> QED BY <2>1, <2>2, <2>3, <3>3
  <2>5. CASE pc[u] = "ioctl"
    <3>1. PICK o \in Ops[u] : op[u] = <<o>> /\ Head(op[u]) = o /\ op[u][1] = o
        BY <1>0, <2>5, OneCall
    <3>2. todo'[u] = <<o>> /\ flushing' = flushing /\ wrote' = Written(wrote, o) /\ o \in Calls
        BY <1>8, <1>0, <2>5, <3>1 DEF Lock, Calls
    <3>3. Waiting' = Waiting
        BY <2>1, <3>2 DEF Waiting
    <3>4. CASE o.kind \in {"read", "write"}
      <4>1. n = 0
        <5>1. Batch => o.kind = "read"
            BY <1>0, <2>5, <3>1, <3>4 DEF Progress, Queued
        <5> QED BY <1>0, <2>5, <3>1, <5>1, BuildAssumption DEF QueueInv, Direct, Drained, Reading, Progress, Moving
      <4>2. Waiting = << >>
        <5>1. [i \in 1 .. 0 |-> slots[i - 1][1]] = << >>
            OBVIOUS
        <5> QED BY <4>1, <5>1 DEF Waiting
      <4>3. Append(<< >>, o) = <<o>> /\ << >> \in Seq(Calls)
          OBVIOUS
      <4>4. Owes(memory, Written(wrote, o), <<o>>)
          BY <1>0, <2>3, <3>2, <4>2, <4>3, OwesAppend DEF TypeOK
      <4>5. pc'[u] \in Moving
          BY <1>8, <1>0, <2>5, <3>1, <3>4 DEF Lock
      <4> QED BY <2>1, <2>2, <3>2, <4>4, <4>5
    <3>5. CASE o.kind \notin {"read", "write"}
      <4>1. wrote' = wrote
          BY <3>2, <3>5 DEF Written
      <4>2. pc'[u] \notin Moving
          BY <1>8, <1>0, <2>5, <3>1, <3>5 DEF Lock
      <4> QED BY <2>1, <2>2, <2>3, <3>3, <4>1, <4>2
    <3> QED BY <3>4, <3>5
  <2> QED BY <1>8, <2>4, <2>5 DEF Lock
<1>9. ASSUME NEW u \in Users, LatchData(u) PROVE Debts'
  <2>1. UNCHANGED <<memory, wrote, slots, n, flushing, todo>>
      BY <1>9 DEF LatchData
  <2>2. \A v \in Users : pc'[v] \in Moving <=> pc[v] \in Moving
      BY <1>9, <1>0 DEF LatchData
  <2> QED BY <1>0, <2>1, <2>2, DebtsFrame
<1>10. ASSUME NEW u \in Users, LatchAddress(u) PROVE Debts'
  <2>1. UNCHANGED <<memory, wrote, slots, n, flushing, todo>>
      BY <1>10 DEF LatchAddress
  <2>2. \A v \in Users : pc'[v] \in Moving <=> pc[v] \in Moving
      BY <1>10, <1>0 DEF LatchAddress
  <2> QED BY <1>0, <2>1, <2>2, DebtsFrame
<1>11. ASSUME NEW u \in Users, LatchRequest(u) PROVE Debts'
  <2>1. UNCHANGED <<memory, wrote, slots, n, flushing, todo>>
      BY <1>11 DEF LatchRequest
  <2>2. \A v \in Users : pc'[v] \in Moving <=> pc[v] \in Moving
      BY <1>11, <1>0 DEF LatchRequest
  <2> QED BY <1>0, <2>1, <2>2, DebtsFrame
<1>12. ASSUME NEW u \in Users, TxnDone(u) PROVE Debts'
  <2> DEFINE o == Head(todo[u])
  <2>1. /\ pc[u] = "wait" /\ ~txn /\ o \in Calls /\ o.kind \in {"read", "write"} /\ Doing(u)
        /\ UNCHANGED <<memory, wrote, slots, n, flushing>>
      BY <1>12, <1>0, NextTransaction DEF TxnDone, Progress
  <2>2. ASSUME NEW v \in Users, v # u PROVE pc[v] \notin Moving /\ pc'[v] = pc[v]
      BY <1>12, <1>0, <2>1, <2>2 DEF TxnDone, MutualExclusion, InIoctl
  <2>3. ~req.on
      BY <1>0, <2>1 DEF RequestIsAwaited
  <2>4. Owes(memory, wrote, todo[u])
      BY <1>0, <2>1
  <2>5. CASE half[u] = 1 /\ todo'[u] = todo[u] /\ pc'[u] = IF o.kind = "read" THEN "addr_lo" ELSE "write"
      BY <2>1, <2>2, <2>4, <2>5
  <2>6. CASE half[u] = Count(o) /\ todo'[u] = Tail(todo[u])
             /\ ((todo'[u] = << >> /\ pc'[u] = "unlock")
                 \/ (pc'[u] = "write" /\ todo'[u] # << >>))
    <3>1. \A a \in Changes(o) : memory[a] = ByteOf(o, a)
      <4>1. SUFFICES ASSUME NEW a \in Covers(o), o.kind = "write" PROVE memory[a] = ByteOf(o, a)
          BY DEF Changes
      <4>2. PICK i \in 1 .. Count(o) : a \in Part(o, i)
          BY <1>0, <2>1, PartsCover DEF CycleInv
      <4>3. Landed(o, i)
        <5>1. Count(o) \in {1, 2}
            BY <2>1, CallType
        <5> QED BY <1>0, <2>1, <2>3, <2>6, <4>1, <5>1 DEF WordsLand
      <4> QED BY <4>2, <4>3 DEF Landed, ByteOf
    <3>2. todo[u] \in Seq(Calls) /\ todo[u] # << >>
      <4>1. CASE u \in flushing
          BY <2>1, <4>1 DEF Doing, Writes
      <4>2. CASE u \notin flushing
        <5>1. PICK c \in Ops[u] : op[u] = <<c>>
            BY <1>0, <2>1, OneCall
        <5>2. c \in Calls /\ todo[u] = <<c>>
            BY <2>1, <4>2, <5>1 DEF Doing, Calls
        <5> QED BY <5>2
      <4> QED BY <4>1, <4>2
    <3>3. Owes(memory, wrote, Tail(todo[u]))
        BY <2>4, <3>1, <3>2, OwesTail
    <3>4. CASE pc'[u] = "write"
        BY <2>1, <2>2, <2>6, <3>3, <3>4
    <3>5. CASE todo'[u] = << >> /\ pc'[u] = "unlock"
      <4>1. Waiting' = << >>
        <5>1. CASE u \in flushing
            BY <2>1, <5>1 DEF Waiting
        <5>2. CASE u \notin flushing
          <6>1. Batch => Head(op[u]).kind = "read"
              BY <2>1, <5>2 DEF Doing, Queued
          <6>2. n = 0
              BY <1>0, <2>1, <5>2, <6>1, BuildAssumption DEF QueueInv, Direct, Drained, Reading
          <6>3. [i \in 1 .. 0 |-> slots'[i - 1][1]] = << >>
              OBVIOUS
          <6> QED BY <2>1, <6>2, <6>3 DEF Waiting
        <5> QED BY <5>1, <5>2
      <4>2. Owes(memory', wrote', Waiting')
          BY <2>1, <2>6, <3>3, <3>5, <4>1
      <4> QED BY <2>2, <3>5, <4>2
    <3> QED BY <2>6, <3>4, <3>5
  <2>7. TxnDone(u) /\ u \in Users /\ Typed
      BY <1>12, <1>0
  <2>8. LET p == Head(todo[u]) IN
        \/ half[u] = 1 /\ todo'[u] = todo[u] /\ pc'[u] = IF p.kind = "read" THEN "addr_lo" ELSE "write"
        \/ /\ half[u] = Count(p) /\ todo'[u] = Tail(todo[u])
           /\ ((todo'[u] = << >> /\ pc'[u] = "unlock")
               \/ (pc'[u] = "write" /\ todo'[u] # << >>))
      BY <2>7, NextTransaction
  <2> QED BY <2>5, <2>6, <2>8
<1>13. ASSUME NEW u \in Users, TxnTimeout(u) PROVE Debts'
    BY <1>13, <1>0 DEF TxnTimeout
<1>14. ASSUME NEW u \in Users, AssertReset(u) PROVE Debts'
  <2>1. UNCHANGED <<memory, wrote, slots, n, flushing, todo>>
      BY <1>14 DEF AssertReset
  <2>2. \A v \in Users : pc'[v] \in Moving <=> pc[v] \in Moving
      BY <1>14, <1>0 DEF AssertReset
  <2> QED BY <1>0, <2>1, <2>2, DebtsFrame
<1>15. ASSUME NEW u \in Users, ReleaseReset(u) PROVE Debts'
  <2>1. UNCHANGED <<memory, wrote, slots, n, flushing, todo>>
      BY <1>15 DEF ReleaseReset
  <2>2. \A v \in Users : pc'[v] \in Moving <=> pc[v] \in Moving
      BY <1>15, <1>0 DEF ReleaseReset
  <2> QED BY <1>0, <2>1, <2>2, DebtsFrame
<1>16. ASSUME NEW u \in Users, ResetSm(u) PROVE Debts'
  <2>1. UNCHANGED <<memory, wrote, slots, n, flushing, todo>>
      BY <1>16 DEF ResetSm
  <2>2. \A v \in Users : pc'[v] \in Moving <=> pc[v] \in Moving
      BY <1>16, <1>0 DEF ResetSm
  <2> QED BY <1>0, <2>1, <2>2, DebtsFrame
<1>17. ASSUME NEW u \in Users, Unlock(u) PROVE Debts'
  <2>1. UNCHANGED <<memory, wrote, slots, n, flushing>>
      BY <1>17 DEF Unlock
  <2>2. \A v \in Users : pc'[v] \in Moving <=> pc[v] \in Moving
      BY <1>17, <1>0 DEF Unlock
  <2>3. \A v \in Users : pc[v] \in Moving => todo'[v] = todo[v]
      BY <1>17, <1>0 DEF Unlock
  <2> QED BY <1>0, <2>1, <2>2, <2>3, DebtsFrame
<1>18. ASSUME Advance PROVE Debts'
  <2>1. UNCHANGED <<pc, memory, wrote, slots, n, flushing, todo>>
      BY <1>18 DEF Advance
  <2> QED BY <1>0, <2>1, DebtsFrame
<1>19. ASSUME StartCycle PROVE Debts'
  <2>1. UNCHANGED <<pc, memory, wrote, slots, n, flushing, todo>>
      BY <1>19 DEF StartCycle
  <2> QED BY <1>0, <2>1, DebtsFrame
<1>20. ASSUME DriveBus PROVE Debts'
  <2>1. UNCHANGED <<pc, memory, wrote, slots, n, flushing, todo>>
      BY <1>20 DEF DriveBus
  <2> QED BY <1>0, <2>1, DebtsFrame
<1>21. ASSUME LowerTxn PROVE Debts'
  <2>1. UNCHANGED <<pc, memory, wrote, slots, n, flushing, todo>>
      BY <1>21 DEF LowerTxn
  <2> QED BY <1>0, <2>1, DebtsFrame
<1>22. ASSUME LeaveS4 PROVE Debts'
  <2>1. UNCHANGED <<pc, memory, wrote, slots, n, flushing, todo>>
      BY <1>22 DEF LeaveS4
  <2> QED BY <1>0, <2>1, DebtsFrame
<1>23. ASSUME Acknowledge PROVE Debts'
  <2>1. PICK u \in Users :
          LET o == Head(todo[u]) IN
             /\ pc[u] = "wait" /\ Doing(u) /\ o \in Calls /\ o.kind \in {"read", "write"}
             /\ latch.addr = Address(o, half[u]) % Top
             /\ (lines.read <=> o.kind = "read")
             /\ (lines.uds <=> Upper(ByteFlag(o, half[u]))) /\ (lines.lds <=> Lower(ByteFlag(o, half[u])))
             /\ o.kind = "write" => latch.data = Payload(o, half[u])
             /\ \A v \in Users : pc[v] \in Moving => v = u
      BY <1>23, <1>0, CycleOwner
  <2> DEFINE o == Head(todo[u])
  <2>2. UNCHANGED <<pc, todo, wrote>> /\ Owes(memory, wrote, todo[u])
      BY <1>23, <1>0, <2>1 DEF Acknowledge
  <2>3. \A a \in Addrs : memory'[a] = memory[a] \/ a \in Changes(o)
    <3>1. CASE o.kind = "read"
        BY <1>23, <2>1, <3>1 DEF Acknowledge
    <3>2. CASE o.kind = "write"
      <4>1. half[u] \in 1 .. Count(o)
          BY <2>1 DEF Doing
      <4>2. \A a \in Addrs : memory'[a] = IF a \in Part(o, half[u]) THEN o.data[a - o.addr + 1] ELSE memory[a]
          BY <1>23, <1>0, <2>1, <3>2, <4>1, CycleWrites
      <4> QED BY <3>2, <4>2 DEF Part, Changes
    <3> QED BY <2>1, <3>1, <3>2
  <2>4. todo[u] \in Seq(Calls) /\ todo[u] # << >>
    <3>1. CASE u \in flushing
        BY <2>1, <3>1 DEF Doing, Writes
    <3>2. CASE u \notin flushing
      <4>1. PICK c \in Ops[u] : op[u] = <<c>>
          BY <1>0, <2>1, OneCall
      <4>2. c \in Calls /\ todo[u] = <<c>>
          BY <2>1, <3>2, <4>1 DEF Doing, Calls
      <4> QED BY <4>2
    <3> QED BY <3>1, <3>2
  <2>5. Owes(memory', wrote, todo[u])
      BY <2>2, <2>3, <2>4, OwesHead
  <2>6. \A v \in Users : pc'[v] \in Moving => v = u
      BY <2>1, <2>2
  <2>7. pc'[u] \in Moving
      BY <2>1, <2>2
  <2> QED BY <2>2, <2>5, <2>6, <2>7
<1>24. ASSUME UNCHANGED vars PROVE Debts'
  <2>1. UNCHANGED <<pc, memory, wrote, slots, n, flushing, todo>>
      BY <1>24 DEF vars
  <2> QED BY <1>0, <2>1, DebtsFrame
<1> QED BY <1>1, <1>2, <1>3, <1>4, <1>5, <1>6, <1>7, <1>8, <1>9, <1>10, <1>11, <1>12,
           <1>13, <1>14, <1>15, <1>16, <1>17, <1>18, <1>19, <1>20, <1>21, <1>22, <1>23,
           <1>24
           DEF Next, Library, Ioctl, Transact, Clocked

-----------------------------------------------------------------------------
(* What a read has taken when it is through is what the writes left. *)

(* Nothing is owed. *)
LEMMA AllMade ==
    ASSUME Typed, Owes(memory, wrote, << >>)
    PROVE  memory = wrote
<1>1. memory \in [Addrs -> Bytes] /\ wrote \in [Addrs -> Bytes]
    BY DEF Typed, TypeOK
<1>2. \A a \in Addrs : memory[a] = wrote[a]
    BY OwesNothing
<1> QED BY <1>1, <1>2

(* What a read should give, byte by byte. *)
LEMMA SeenBytes ==
    ASSUME NEW o \in Calls, o.kind = "read"
    PROVE  /\ o.width = 8 => SeenBy(o) = <<wrote[o.addr]>>
           /\ o.width = 16 => SeenBy(o) = <<wrote[o.addr], wrote[o.addr + 1]>>
           /\ o.width = 32 => SeenBy(o) = <<wrote[o.addr], wrote[o.addr + 1],
                                            wrote[o.addr + 2], wrote[o.addr + 3]>>
<1>1. o.addr \in Nat /\ 8 \div 8 = 1 /\ 16 \div 8 = 2 /\ 32 \div 8 = 4
    BY CallType
<1>2. ASSUME o.width = 8 PROVE SeenBy(o) = <<wrote[o.addr]>>
  <2>1. SeenBy(o) = [i \in 1 .. 1 |-> wrote[o.addr + i - 1]]
      BY <1>1, <1>2 DEF SeenBy
  <2>2. o.addr + 1 - 1 = o.addr
      BY <1>1
  <2> QED BY <2>1, <2>2
<1>3. ASSUME o.width = 16 PROVE SeenBy(o) = <<wrote[o.addr], wrote[o.addr + 1]>>
  <2>1. SeenBy(o) = [i \in 1 .. 2 |-> wrote[o.addr + i - 1]]
      BY <1>1, <1>3 DEF SeenBy
  <2>2. o.addr + 1 - 1 = o.addr /\ o.addr + 2 - 1 = o.addr + 1
      BY <1>1
  <2> QED BY <2>1, <2>2
<1>4. ASSUME o.width = 32
      PROVE  SeenBy(o) = <<wrote[o.addr], wrote[o.addr + 1], wrote[o.addr + 2], wrote[o.addr + 3]>>
  <2>1. SeenBy(o) = [i \in 1 .. 4 |-> wrote[o.addr + i - 1]]
      BY <1>1, <1>4 DEF SeenBy
  <2>2. /\ o.addr + 1 - 1 = o.addr /\ o.addr + 2 - 1 = o.addr + 1
        /\ o.addr + 3 - 1 = o.addr + 2 /\ o.addr + 4 - 1 = o.addr + 3
      BY <1>1
  <2> QED BY <2>1, <2>2
<1> QED BY <1>2, <1>3, <1>4

LEMMA TwoWords == ASSUME NEW a, NEW b, NEW c, NEW d PROVE <<a, b>> \o <<c, d>> = <<a, b, c, d>>
<1> DEFINE S == {a, b, c, d}
           x == <<a, b>> \o <<c, d>>
           y == <<a, b, c, d>>
<1>1. <<a, b>> \in Seq(S) /\ <<c, d>> \in Seq(S) /\ y \in Seq(S)
    OBVIOUS
<1>2. Len(<<a, b>>) = 2 /\ Len(<<c, d>>) = 2 /\ Len(y) = 4
    OBVIOUS
<1>3. x \in Seq(S) /\ Len(x) = 4
    BY <1>1, <1>2, ConcatProperties
<1>4. \A i \in 1 .. 4 : x[i] = IF i <= 2 THEN <<a, b>>[i] ELSE <<c, d>>[i - 2]
    BY <1>1, <1>2, ConcatProperties
<1>5. \A i \in 1 .. 4 : x[i] = y[i]
    BY <1>4
<1> HIDE DEF x, y
<1> QED BY <1>1, <1>2, <1>3, <1>5, SeqEqual DEF x, y

(* When the last word of a read is taken, the caller has what the writes left. *)
LEMMA LastHalfRead ==
    ASSUME CycleInv, WordsRead, NEW u \in Users, TxnDone(u), memory = wrote,
           Head(todo[u]).kind = "read", half[u] = Count(Head(todo[u]))
    PROVE  got'[u] = SeenBy(Head(todo[u]))
<1> DEFINE o == Head(todo[u])
<1>1. /\ pc[u] = "wait" /\ ~req.on /\ o \in Calls /\ InMemory
      /\ DOMAIN got = Users /\ o.kind \in {"read", "write"}
  <2>1. Typed /\ pc[u] = "wait" /\ InMemory /\ ~txn /\ DOMAIN got = Users
      BY DEF TxnDone, CycleInv, Typed, Parts
  <2>2. ~req.on
      BY <2>1 DEF CycleInv, BusInv, OneAtATime, RequestIsAwaited
  <2> QED BY <2>1, <2>2, NextTransaction
<1>2. got'[u] = got[u] \o Taken(o, rd)
    BY <1>1 DEF TxnDone
<1>3. /\ half[u] = 1 => got[u] = << >>
      /\ half[u] = 2 => got[u] = Fetched(o)
      /\ rd = OnPins(o, half[u])
    BY <1>1 DEF WordsRead, Moving
<1>4. CASE o.width = 8
  <2>1. Count(o) = 1 /\ Address(o, 1) = o.addr /\ o.addr \in Nat
      BY <1>1, <1>4, ByteTransfer, CallType
  <2>2. half[u] = 1 /\ got[u] = << >> /\ rd = <<wrote[WordAt(o.addr)], wrote[WordAt(o.addr) + 1]>>
      BY <1>3, <2>1 DEF OnPins
  <2>3. Taken(o, rd) = <<wrote[o.addr]>>
    <3>1. CASE Odd(o.addr)
      <4>1. WordAt(o.addr) + 1 = o.addr
          BY <2>1, <3>1 DEF WordAt, Odd
      <4> QED BY <1>4, <2>2, <3>1, <4>1 DEF Taken, Byte8
    <3>2. CASE ~Odd(o.addr)
      <4>1. WordAt(o.addr) = o.addr
          BY <2>1, <3>2 DEF WordAt, Odd
      <4> QED BY <1>4, <2>2, <3>2, <4>1 DEF Taken, Byte8
    <3> QED BY <3>1, <3>2
  <2>4. << >> \o <<wrote[o.addr]>> = <<wrote[o.addr]>>
      OBVIOUS
  <2>5. SeenBy(o) = <<wrote[o.addr]>>
      BY <1>1, <1>4, SeenBytes
  <2>6. got'[u] = << >> \o <<wrote[o.addr]>>
      BY <1>2, <2>2, <2>3
  <2> QED BY <2>4, <2>5, <2>6
<1>5. CASE o.width = 16
  <2>1. Count(o) = 1 /\ o.addr \in Nat /\ 1 \in 1 .. Count(o) /\ o.width # 8
      BY <1>1, <1>5, CallType DEF Count
  <2>2. Address(o, 1) = o.addr
      BY <2>1 DEF Address
  <2>3. WordAt(o.addr) = o.addr
      BY <1>1, <2>1, <2>2, WordTransfer
  <2>4. half[u] = 1 /\ got[u] = << >> /\ rd = <<wrote[o.addr], wrote[o.addr + 1]>>
      BY <1>3, <2>1, <2>2, <2>3 DEF OnPins
  <2>5. Taken(o, rd) = rd
      BY <2>1 DEF Taken, Byte8
  <2>6. << >> \o <<wrote[o.addr], wrote[o.addr + 1]>> = <<wrote[o.addr], wrote[o.addr + 1]>>
      OBVIOUS
  <2>7. SeenBy(o) = <<wrote[o.addr], wrote[o.addr + 1]>>
      BY <1>1, <1>5, SeenBytes
  <2>8. got'[u] = << >> \o <<wrote[o.addr], wrote[o.addr + 1]>>
      BY <1>2, <2>4, <2>5
  <2> QED BY <2>6, <2>7, <2>8
<1>6. CASE o.width = 32
  <2>1. Count(o) = 2 /\ o.addr \in Nat /\ 2 \in 1 .. Count(o) /\ o.width # 8
      BY <1>1, <1>6, CallType DEF Count
  <2>2. Address(o, 2) = o.addr + 2
      BY <2>1 DEF Address
  <2>3. WordAt(o.addr + 2) = o.addr + 2
      BY <1>1, <2>1, <2>2, WordTransfer
  <2>4. o.addr + 2 + 1 = o.addr + 3
      BY <2>1
  <2>5. /\ half[u] = 2 /\ got[u] = <<wrote[o.addr], wrote[o.addr + 1]>>
        /\ rd = <<wrote[o.addr + 2], wrote[o.addr + 3]>>
      BY <1>3, <2>1, <2>2, <2>3, <2>4 DEF OnPins, Fetched
  <2>6. Taken(o, rd) = rd
      BY <2>1 DEF Taken, Byte8
  <2>7. <<wrote[o.addr], wrote[o.addr + 1]>> \o <<wrote[o.addr + 2], wrote[o.addr + 3]>>
           = <<wrote[o.addr], wrote[o.addr + 1], wrote[o.addr + 2], wrote[o.addr + 3]>>
      BY TwoWords
  <2>8. SeenBy(o) = <<wrote[o.addr], wrote[o.addr + 1], wrote[o.addr + 2], wrote[o.addr + 3]>>
      BY <1>1, <1>6, SeenBytes
  <2>9. got'[u] = <<wrote[o.addr], wrote[o.addr + 1]>> \o <<wrote[o.addr + 2], wrote[o.addr + 3]>>
      BY <1>2, <2>5, <2>6
  <2> QED BY <2>7, <2>8, <2>9
<1> QED BY <1>1, <1>4, <1>5, <1>6, CallType

(* A thread through with a read holds what the writes left (ReadIsCurrent). *)
Answered ==
    \A u \in Users : pc[u] = "unlock" /\ u \notin flushing /\ Head(op[u]).kind = "read" =>
                         got[u] = SeenBy(Head(op[u]))

LEMMA AnsweredKept ==
    ASSUME OneQueueUser, CycleInv, QueueInv, WordsRead, Debts, Answered, ~broken', [Next]_vars
    PROVE  Answered'
<1> USE DEF Goto, call, work, queue, cpld, ghosts, Answered
<1>0. /\ pc \in [Users -> Places] /\ DOMAIN todo = Users /\ DOMAIN half = Users /\ DOMAIN op = Users
      /\ OneQueueUser /\ QueueInv /\ WordsRead /\ Debts /\ Answered /\ CycleInv /\ Typed /\ Progress
      /\ MutualExclusion /\ ~broken' /\ ResetCalls /\ DOMAIN got = Users
    BY DEF CycleInv, Typed, Shapes, InACall, Parts, BusInv, QueueInv
<1>1. ASSUME NEW u \in Users, Call(u) PROVE Answered'
  <2>1. UNCHANGED <<wrote, got>>
      BY <1>1 DEF Call
  <2>2. \A v \in Users : v # u => UNCHANGED <<pc[v], op[v]>> /\ (v \in flushing' <=> v \in flushing)
      BY <1>1, <1>0 DEF Call
  <2>3. pc'[u] = "unlock" /\ u \notin flushing' => Head(op'[u]).kind # "read"
      BY <1>1, <1>0 DEF Call
  <2>4. \A v \in Users : v # u => SeenBy(Head(op[v]))' = SeenBy(Head(op[v]))
      BY <2>1, <2>2 DEF SeenBy
  <2> QED BY <1>0, <2>1, <2>2, <2>3, <2>4
<1>2. ASSUME NEW u \in Users, LoadIndex(u) PROVE Answered'
  <2>1. UNCHANGED <<wrote, got>>
      BY <1>2 DEF LoadIndex
  <2>2. \A v \in Users : v # u => UNCHANGED <<pc[v], op[v]>> /\ (v \in flushing' <=> v \in flushing)
      BY <1>2, <1>0 DEF LoadIndex
  <2>3. pc'[u] = "unlock" /\ u \notin flushing' => Head(op'[u]).kind # "read"
      BY <1>2, <1>0 DEF LoadIndex
  <2>4. \A v \in Users : v # u => SeenBy(Head(op[v]))' = SeenBy(Head(op[v]))
      BY <2>1, <2>2 DEF SeenBy
  <2> QED BY <1>0, <2>1, <2>2, <2>3, <2>4
<1>3. ASSUME NEW u \in Users, StoreOp(u) PROVE Answered'
  <2>1. pc[u] = "store" /\ pc'[u] # "unlock" /\ UNCHANGED <<op, got, flushing>>
      BY <1>3, <1>0 DEF StoreOp
  <2>2. Batch /\ Head(op[u]).kind = "write"
      BY <1>0, <2>1 DEF Progress, Queued
  <2>3. \A v \in Users : v # u => pc'[v] = pc[v]
      BY <1>3, <1>0 DEF StoreOp
  <2>4. ASSUME NEW v \in Users, pc'[v] = "unlock" PROVE Head(op[v]).kind # "read"
      BY <1>0, <2>1, <2>2, <2>3, <2>4, SameUser
  <2> QED BY <2>1, <2>4
<1>4. ASSUME NEW u \in Users, Flush(u) PROVE Answered'
  <2>1. UNCHANGED <<wrote, got>>
      BY <1>4 DEF Flush
  <2>2. \A v \in Users : v # u => UNCHANGED <<pc[v], op[v]>> /\ (v \in flushing' <=> v \in flushing)
      BY <1>4, <1>0 DEF Flush
  <2>3. pc'[u] = "unlock" /\ u \notin flushing' => Head(op'[u]).kind # "read"
      BY <1>4, <1>0 DEF Flush
  <2>4. \A v \in Users : v # u => SeenBy(Head(op[v]))' = SeenBy(Head(op[v]))
      BY <2>1, <2>2 DEF SeenBy
  <2> QED BY <1>0, <2>1, <2>2, <2>3, <2>4
<1>5. ASSUME NEW u \in Users, EmptyQueue(u) PROVE Answered'
  <2>1. UNCHANGED <<wrote, got>>
      BY <1>5 DEF EmptyQueue
  <2>2. \A v \in Users : v # u => UNCHANGED <<pc[v], op[v]>> /\ (v \in flushing' <=> v \in flushing)
      BY <1>5, <1>0 DEF EmptyQueue
  <2>3. pc'[u] = "unlock" /\ u \notin flushing' => Head(op'[u]).kind # "read"
      BY <1>5, <1>0 DEF EmptyQueue
  <2>4. \A v \in Users : v # u => SeenBy(Head(op[v]))' = SeenBy(Head(op[v]))
      BY <2>1, <2>2 DEF SeenBy
  <2> QED BY <1>0, <2>1, <2>2, <2>3, <2>4
<1>6. ASSUME NEW u \in Users, Flushed(u) PROVE Answered'
  <2>1. UNCHANGED <<wrote, got>>
      BY <1>6 DEF Flushed
  <2>2. \A v \in Users : v # u => UNCHANGED <<pc[v], op[v]>> /\ (v \in flushing' <=> v \in flushing)
      BY <1>6, <1>0 DEF Flushed
  <2>3. pc'[u] = "unlock" /\ u \notin flushing' => Head(op'[u]).kind # "read"
      BY <1>6, <1>0 DEF Flushed
  <2>4. \A v \in Users : v # u => SeenBy(Head(op[v]))' = SeenBy(Head(op[v]))
      BY <2>1, <2>2 DEF SeenBy
  <2> QED BY <1>0, <2>1, <2>2, <2>3, <2>4
<1>7. ASSUME NEW u \in Users, Return(u) PROVE Answered'
  <2>1. UNCHANGED wrote /\ pc'[u] = "idle"
      BY <1>7, <1>0 DEF Return
  <2>2. \A v \in Users : v # u => UNCHANGED <<pc[v], op[v], got[v]>> /\ (v \in flushing' <=> v \in flushing)
      BY <1>7, <1>0 DEF Return
  <2>3. \A v \in Users : v # u => SeenBy(Head(op[v]))' = SeenBy(Head(op[v]))
      BY <2>1, <2>2 DEF SeenBy
  <2> QED BY <1>0, <2>1, <2>2, <2>3
<1>8. ASSUME NEW u \in Users, Lock(u) PROVE Answered'
  <2>1. UNCHANGED <<op, got>> /\ \A v \in Users : pc[v] # "unlock"
      BY <1>8, <1>0, UsersAssumption DEF Lock, MutualExclusion, InIoctl, MutexFree
  <2>2. \A v \in Users : v # u => pc'[v] = pc[v]
      BY <1>8, <1>0 DEF Lock
  <2>3. pc'[u] = "unlock" => Head(op[u]).kind # "read"
    <3>1. CASE pc[u] = "batch"
        BY <1>8, <1>0, <3>1 DEF Lock
    <3>2. CASE pc[u] = "ioctl"
      <4>1. op[u][1] = Head(op[u])
          BY <1>0, <3>2, OneCall
      <4> QED BY <1>8, <1>0, <3>2, <4>1 DEF Lock
    <3> QED BY <1>8, <3>1, <3>2 DEF Lock
  <2> QED BY <2>1, <2>2, <2>3
<1>9. ASSUME NEW u \in Users, LatchData(u) PROVE Answered'
  <2>1. UNCHANGED <<wrote, got>>
      BY <1>9 DEF LatchData
  <2>2. \A v \in Users : v # u => UNCHANGED <<pc[v], op[v]>> /\ (v \in flushing' <=> v \in flushing)
      BY <1>9, <1>0 DEF LatchData
  <2>3. pc'[u] = "unlock" /\ u \notin flushing' => Head(op'[u]).kind # "read"
      BY <1>9, <1>0 DEF LatchData
  <2>4. \A v \in Users : v # u => SeenBy(Head(op[v]))' = SeenBy(Head(op[v]))
      BY <2>1, <2>2 DEF SeenBy
  <2> QED BY <1>0, <2>1, <2>2, <2>3, <2>4
<1>10. ASSUME NEW u \in Users, LatchAddress(u) PROVE Answered'
  <2>1. UNCHANGED <<wrote, got>>
      BY <1>10 DEF LatchAddress
  <2>2. \A v \in Users : v # u => UNCHANGED <<pc[v], op[v]>> /\ (v \in flushing' <=> v \in flushing)
      BY <1>10, <1>0 DEF LatchAddress
  <2>3. pc'[u] = "unlock" /\ u \notin flushing' => Head(op'[u]).kind # "read"
      BY <1>10, <1>0 DEF LatchAddress
  <2>4. \A v \in Users : v # u => SeenBy(Head(op[v]))' = SeenBy(Head(op[v]))
      BY <2>1, <2>2 DEF SeenBy
  <2> QED BY <1>0, <2>1, <2>2, <2>3, <2>4
<1>11. ASSUME NEW u \in Users, LatchRequest(u) PROVE Answered'
  <2>1. UNCHANGED <<wrote, got>>
      BY <1>11 DEF LatchRequest
  <2>2. \A v \in Users : v # u => UNCHANGED <<pc[v], op[v]>> /\ (v \in flushing' <=> v \in flushing)
      BY <1>11, <1>0 DEF LatchRequest
  <2>3. pc'[u] = "unlock" /\ u \notin flushing' => Head(op'[u]).kind # "read"
      BY <1>11, <1>0 DEF LatchRequest
  <2>4. \A v \in Users : v # u => SeenBy(Head(op[v]))' = SeenBy(Head(op[v]))
      BY <2>1, <2>2 DEF SeenBy
  <2> QED BY <1>0, <2>1, <2>2, <2>3, <2>4
<1>12. ASSUME NEW u \in Users, TxnDone(u) PROVE Answered'
  <2>1. UNCHANGED <<op, wrote, flushing>> /\ pc[u] = "wait"
      BY <1>12 DEF TxnDone
  <2>2. \A v \in Users : v # u => UNCHANGED <<pc[v], got[v]>>
      BY <1>12, <1>0 DEF TxnDone
  <2>3. ASSUME pc'[u] = "unlock", u \notin flushing, Head(op[u]).kind = "read"
        PROVE  got'[u] = SeenBy(Head(op[u]))
    <3>1. todo[u] = op[u]
        BY <1>0, <2>1, <2>3 DEF Progress, Doing, Moving
    <3>2. PICK o \in Ops[u] : op[u] = <<o>> /\ Head(op[u]) = o
        BY <1>0, <2>1, OneCall
    <3>3. half[u] = Count(Head(todo[u])) /\ Head(todo[u]) \in Calls
        BY <1>12, <1>0, <2>3, NextTransaction
    <3>4. Owes(memory, wrote, <<o>>) /\ o.kind = "read"
        BY <1>0, <2>1, <2>3, <3>1, <3>2 DEF Debts, Moving
    <3>5. memory = wrote
      <4>1. o \in Calls /\ <<o>> \in Seq(Calls) /\ <<o>> # << >> /\ Head(<<o>>) = o /\ Tail(<<o>>) = << >>
          BY <3>2 DEF Calls
      <4>2. \A a \in Changes(Head(<<o>>)) : memory[a] = ByteOf(Head(<<o>>), a)
          BY <3>4, <4>1 DEF Changes
      <4>3. Owes(memory, wrote, Tail(<<o>>))
          BY <3>4, <4>1, <4>2, OwesTail
      <4> QED BY <1>0, <4>1, <4>3, AllMade
    <3> QED BY <1>12, <1>0, <2>3, <3>1, <3>3, <3>5, LastHalfRead
  <2>4. \A v \in Users : SeenBy(Head(op[v]))' = SeenBy(Head(op[v]))
      BY <2>1 DEF SeenBy
  <2> QED BY <1>0, <2>1, <2>2, <2>3, <2>4
<1>13. ASSUME NEW u \in Users, TxnTimeout(u) PROVE Answered'
    BY <1>13, <1>0 DEF TxnTimeout
<1>14. ASSUME NEW u \in Users, AssertReset(u) PROVE Answered'
  <2>1. UNCHANGED <<wrote, got>>
      BY <1>14 DEF AssertReset
  <2>2. \A v \in Users : v # u => UNCHANGED <<pc[v], op[v]>> /\ (v \in flushing' <=> v \in flushing)
      BY <1>14, <1>0 DEF AssertReset
  <2>3. pc'[u] = "unlock" /\ u \notin flushing' => Head(op'[u]).kind # "read"
      BY <1>14, <1>0 DEF AssertReset, ResetCalls
  <2>4. \A v \in Users : v # u => SeenBy(Head(op[v]))' = SeenBy(Head(op[v]))
      BY <2>1, <2>2 DEF SeenBy
  <2> QED BY <1>0, <2>1, <2>2, <2>3, <2>4
<1>15. ASSUME NEW u \in Users, ReleaseReset(u) PROVE Answered'
  <2>1. UNCHANGED <<wrote, got>>
      BY <1>15 DEF ReleaseReset
  <2>2. \A v \in Users : v # u => UNCHANGED <<pc[v], op[v]>> /\ (v \in flushing' <=> v \in flushing)
      BY <1>15, <1>0 DEF ReleaseReset
  <2>3. pc'[u] = "unlock" /\ u \notin flushing' => Head(op'[u]).kind # "read"
      BY <1>15, <1>0 DEF ReleaseReset, ResetCalls
  <2>4. \A v \in Users : v # u => SeenBy(Head(op[v]))' = SeenBy(Head(op[v]))
      BY <2>1, <2>2 DEF SeenBy
  <2> QED BY <1>0, <2>1, <2>2, <2>3, <2>4
<1>16. ASSUME NEW u \in Users, ResetSm(u) PROVE Answered'
  <2>1. UNCHANGED <<wrote, got>>
      BY <1>16 DEF ResetSm
  <2>2. \A v \in Users : v # u => UNCHANGED <<pc[v], op[v]>> /\ (v \in flushing' <=> v \in flushing)
      BY <1>16, <1>0 DEF ResetSm
  <2>3. pc'[u] = "unlock" /\ u \notin flushing' => Head(op'[u]).kind # "read"
      BY <1>16, <1>0 DEF ResetSm, ResetCalls
  <2>4. \A v \in Users : v # u => SeenBy(Head(op[v]))' = SeenBy(Head(op[v]))
      BY <2>1, <2>2 DEF SeenBy
  <2> QED BY <1>0, <2>1, <2>2, <2>3, <2>4
<1>17. ASSUME NEW u \in Users, Unlock(u) PROVE Answered'
  <2>1. UNCHANGED <<wrote, got>>
      BY <1>17 DEF Unlock
  <2>2. \A v \in Users : v # u => UNCHANGED <<pc[v], op[v]>> /\ (v \in flushing' <=> v \in flushing)
      BY <1>17, <1>0 DEF Unlock
  <2>3. pc'[u] = "unlock" /\ u \notin flushing' => Head(op'[u]).kind # "read"
      BY <1>17, <1>0 DEF Unlock
  <2>4. \A v \in Users : v # u => SeenBy(Head(op[v]))' = SeenBy(Head(op[v]))
      BY <2>1, <2>2 DEF SeenBy
  <2> QED BY <1>0, <2>1, <2>2, <2>3, <2>4
<1>18. ASSUME Advance PROVE Answered'
  <2>1. UNCHANGED <<pc, op, got, flushing, wrote>>
      BY <1>18 DEF Advance
  <2> QED BY <1>0, <2>1 DEF SeenBy
<1>19. ASSUME StartCycle PROVE Answered'
  <2>1. UNCHANGED <<pc, op, got, flushing, wrote>>
      BY <1>19 DEF StartCycle
  <2> QED BY <1>0, <2>1 DEF SeenBy
<1>20. ASSUME DriveBus PROVE Answered'
  <2>1. UNCHANGED <<pc, op, got, flushing, wrote>>
      BY <1>20 DEF DriveBus
  <2> QED BY <1>0, <2>1 DEF SeenBy
<1>21. ASSUME LowerTxn PROVE Answered'
  <2>1. UNCHANGED <<pc, op, got, flushing, wrote>>
      BY <1>21 DEF LowerTxn
  <2> QED BY <1>0, <2>1 DEF SeenBy
<1>22. ASSUME LeaveS4 PROVE Answered'
  <2>1. UNCHANGED <<pc, op, got, flushing, wrote>>
      BY <1>22 DEF LeaveS4
  <2> QED BY <1>0, <2>1 DEF SeenBy
<1>23. ASSUME Acknowledge PROVE Answered'
  <2>1. UNCHANGED <<pc, op, got, flushing, wrote>>
      BY <1>23 DEF Acknowledge
  <2> QED BY <1>0, <2>1 DEF SeenBy
<1>24. ASSUME UNCHANGED vars PROVE Answered'
  <2>1. UNCHANGED <<pc, op, got, flushing, wrote>>
      BY <1>24 DEF vars
  <2> QED BY <1>0, <2>1 DEF SeenBy
<1> QED BY <1>1, <1>2, <1>3, <1>4, <1>5, <1>6, <1>7, <1>8, <1>9, <1>10, <1>11, <1>12,
           <1>13, <1>14, <1>15, <1>16, <1>17, <1>18, <1>19, <1>20, <1>21, <1>22, <1>23,
           <1>24
           DEF Next, Library, Ioctl, Transact, Clocked

LEMMA NothingReadKept ==
    ASSUME Typed, QueueInv, NothingRead, ~broken', [Next]_vars
    PROVE  NothingRead'
<1> USE DEF Goto, call, work, queue, cpld, ghosts, NothingRead, Moving
<1>0. /\ pc \in [Users -> Places] /\ DOMAIN op = Users /\ DOMAIN got = Users
      /\ NothingRead /\ Typed /\ Progress /\ ResetCalls /\ ~broken'
    BY DEF Typed, Shapes, InACall, Parts, QueueInv
<1>1. ASSUME NEW u \in Users, Call(u) PROVE NothingRead'
    BY <1>1, <1>0 DEF Call
<1>2. ASSUME NEW u \in Users, LoadIndex(u) PROVE NothingRead'
    BY <1>2, <1>0 DEF LoadIndex
<1>3. ASSUME NEW u \in Users, StoreOp(u) PROVE NothingRead'
    BY <1>3, <1>0 DEF StoreOp
<1>4. ASSUME NEW u \in Users, Flush(u) PROVE NothingRead'
    BY <1>4, <1>0 DEF Flush
<1>5. ASSUME NEW u \in Users, EmptyQueue(u) PROVE NothingRead'
    BY <1>5, <1>0 DEF EmptyQueue
<1>6. ASSUME NEW u \in Users, Flushed(u) PROVE NothingRead'
    BY <1>6, <1>0 DEF Flushed
<1>7. ASSUME NEW u \in Users, Return(u) PROVE NothingRead'
    BY <1>7, <1>0 DEF Return
<1>8. ASSUME NEW u \in Users, Lock(u) PROVE NothingRead'
    BY <1>8, <1>0 DEF Lock
<1>9. ASSUME NEW u \in Users, LatchData(u) PROVE NothingRead'
    BY <1>9, <1>0 DEF LatchData
<1>10. ASSUME NEW u \in Users, LatchAddress(u) PROVE NothingRead'
    BY <1>10, <1>0 DEF LatchAddress
<1>11. ASSUME NEW u \in Users, LatchRequest(u) PROVE NothingRead'
    BY <1>11, <1>0 DEF LatchRequest
<1>12. ASSUME NEW u \in Users, TxnDone(u) PROVE NothingRead'
  <2>1. UNCHANGED <<op, flushing>> /\ pc[u] = "wait"
      BY <1>12 DEF TxnDone
  <2>2. \A v \in Users : v # u => UNCHANGED <<pc[v], got[v]>>
      BY <1>12, <1>0 DEF TxnDone
  <2>3. pc'[u] \in Moving \union {"unlock"} /\ Doing(u)
      BY <1>12, <1>0, <2>1, NextTransaction DEF Progress
  <2>4. CASE u \notin flushing /\ Head(op[u]).kind = "read"
      BY <1>0, <2>1, <2>2, <2>3, <2>4
  <2>5. CASE ~(u \notin flushing /\ Head(op[u]).kind = "read")
    <3>1. Head(todo[u]).kind = "write"
        BY <1>0, <2>3, <2>5 DEF Doing, Writes
    <3>2. got'[u] = got[u]
        BY <1>12, <1>0, <3>1 DEF TxnDone
    <3> QED BY <1>0, <2>1, <2>2, <2>5, <3>2
  <2> QED BY <2>4, <2>5
<1>13. ASSUME NEW u \in Users, TxnTimeout(u) PROVE NothingRead'
    BY <1>13, <1>0 DEF TxnTimeout
<1>14. ASSUME NEW u \in Users, AssertReset(u) PROVE NothingRead'
    BY <1>14, <1>0 DEF AssertReset
<1>15. ASSUME NEW u \in Users, ReleaseReset(u) PROVE NothingRead'
    BY <1>15, <1>0 DEF ReleaseReset
<1>16. ASSUME NEW u \in Users, ResetSm(u) PROVE NothingRead'
    BY <1>16, <1>0 DEF ResetSm
<1>17. ASSUME NEW u \in Users, Unlock(u) PROVE NothingRead'
    BY <1>17, <1>0 DEF Unlock
<1>18. ASSUME Advance PROVE NothingRead'
    BY <1>18, <1>0 DEF Advance
<1>19. ASSUME StartCycle PROVE NothingRead'
    BY <1>19, <1>0 DEF StartCycle
<1>20. ASSUME DriveBus PROVE NothingRead'
    BY <1>20, <1>0 DEF DriveBus
<1>21. ASSUME LowerTxn PROVE NothingRead'
    BY <1>21, <1>0 DEF LowerTxn
<1>22. ASSUME LeaveS4 PROVE NothingRead'
    BY <1>22, <1>0 DEF LeaveS4
<1>23. ASSUME Acknowledge PROVE NothingRead'
    BY <1>23, <1>0 DEF Acknowledge
<1>24. ASSUME UNCHANGED vars PROVE NothingRead'
    BY <1>24, <1>0 DEF vars, vars
<1> QED BY <1>1, <1>2, <1>3, <1>4, <1>5, <1>6, <1>7, <1>8, <1>9, <1>10, <1>11, <1>12,
           <1>13, <1>14, <1>15, <1>16, <1>17, <1>18, <1>19, <1>20, <1>21, <1>22, <1>23,
           <1>24
           DEF Next, Library, Ioctl, Transact, Clocked

-----------------------------------------------------------------------------
(* Until a transaction is given up, all of the above holds. *)
Sound == ~broken => StrobesMatch /\ WordsLand /\ WordsRead /\ NothingRead /\ Debts /\ Answered

(* An idle thread is in no call. *)
NoCall == \A u \in Users : pc[u] = "idle" => op[u] = << >>

(* The inductive invariant of the bus and its memory. *)
MemoryInv == Typed /\ BusInv /\ QueueInv /\ LatchHolds /\ NoCall /\ Sound

LEMMA StaysBroken == ASSUME [Next]_vars, broken PROVE broken'
    BY DEF Next, Library, Ioctl, Transact, Clocked, vars, ghosts, Call, LoadIndex, StoreOp, Flush,
           EmptyQueue, Flushed, Return, Lock, LatchData, LatchAddress, LatchRequest, TxnDone,
           TxnTimeout, AssertReset, ReleaseReset, ResetSm, Unlock, Advance, StartCycle, DriveBus,
           LowerTxn, LeaveS4, Acknowledge

LEMMA NoCallKept == ASSUME Typed, NoCall, [Next]_vars PROVE NoCall'
<1> USE DEF Goto, call, work, queue, cpld, ghosts, NoCall
<1>0. pc \in [Users -> Places] /\ DOMAIN op = Users /\ NoCall /\ Progress
    BY DEF Typed, Shapes, InACall
<1>1. ASSUME NEW u \in Users, Call(u) PROVE NoCall'
    BY <1>1, <1>0 DEF Call
<1>2. ASSUME NEW u \in Users, LoadIndex(u) PROVE NoCall'
    BY <1>2, <1>0 DEF LoadIndex
<1>3. ASSUME NEW u \in Users, StoreOp(u) PROVE NoCall'
    BY <1>3, <1>0 DEF StoreOp
<1>4. ASSUME NEW u \in Users, Flush(u) PROVE NoCall'
    BY <1>4, <1>0 DEF Flush
<1>5. ASSUME NEW u \in Users, EmptyQueue(u) PROVE NoCall'
    BY <1>5, <1>0 DEF EmptyQueue
<1>6. ASSUME NEW u \in Users, Flushed(u) PROVE NoCall'
    BY <1>6, <1>0 DEF Flushed
<1>7. ASSUME NEW u \in Users, Return(u) PROVE NoCall'
    BY <1>7, <1>0 DEF Return
<1>8. ASSUME NEW u \in Users, Lock(u) PROVE NoCall'
    BY <1>8, <1>0 DEF Lock
<1>9. ASSUME NEW u \in Users, LatchData(u) PROVE NoCall'
    BY <1>9, <1>0 DEF LatchData
<1>10. ASSUME NEW u \in Users, LatchAddress(u) PROVE NoCall'
    BY <1>10, <1>0 DEF LatchAddress
<1>11. ASSUME NEW u \in Users, LatchRequest(u) PROVE NoCall'
    BY <1>11, <1>0 DEF LatchRequest
<1>12. ASSUME NEW u \in Users, TxnDone(u) PROVE NoCall'
    BY <1>12, <1>0 DEF TxnDone
<1>13. ASSUME NEW u \in Users, TxnTimeout(u) PROVE NoCall'
    BY <1>13, <1>0 DEF TxnTimeout
<1>14. ASSUME NEW u \in Users, AssertReset(u) PROVE NoCall'
    BY <1>14, <1>0 DEF AssertReset
<1>15. ASSUME NEW u \in Users, ReleaseReset(u) PROVE NoCall'
    BY <1>15, <1>0 DEF ReleaseReset
<1>16. ASSUME NEW u \in Users, ResetSm(u) PROVE NoCall'
    BY <1>16, <1>0 DEF ResetSm
<1>17. ASSUME NEW u \in Users, Unlock(u) PROVE NoCall'
    BY <1>17, <1>0 DEF Unlock
<1>18. ASSUME Advance PROVE NoCall'
    BY <1>18, <1>0 DEF Advance
<1>19. ASSUME StartCycle PROVE NoCall'
    BY <1>19, <1>0 DEF StartCycle
<1>20. ASSUME DriveBus PROVE NoCall'
    BY <1>20, <1>0 DEF DriveBus
<1>21. ASSUME LowerTxn PROVE NoCall'
    BY <1>21, <1>0 DEF LowerTxn
<1>22. ASSUME LeaveS4 PROVE NoCall'
    BY <1>22, <1>0 DEF LeaveS4
<1>23. ASSUME Acknowledge PROVE NoCall'
    BY <1>23, <1>0 DEF Acknowledge
<1>24. ASSUME UNCHANGED vars PROVE NoCall'
    BY <1>24, <1>0 DEF vars, vars
<1> QED BY <1>1, <1>2, <1>3, <1>4, <1>5, <1>6, <1>7, <1>8, <1>9, <1>10, <1>11, <1>12,
           <1>13, <1>14, <1>15, <1>16, <1>17, <1>18, <1>19, <1>20, <1>21, <1>22, <1>23,
           <1>24
           DEF Next, Library, Ioctl, Transact, Clocked

LEMMA SoundKept == ASSUME OneQueueUser, InMemory, MemoryInv, [Next]_vars PROVE Sound'
<1> SUFFICES ASSUME ~broken' PROVE Sound'
    BY DEF Sound
<1>1. ~broken
    BY StaysBroken
<1>2. StrobesMatch /\ WordsLand /\ WordsRead /\ NothingRead /\ Debts /\ Answered
    BY <1>1 DEF MemoryInv, Sound
<1>3. CycleInv /\ Typed /\ BusInv /\ QueueInv
    BY <1>1, <1>2 DEF CycleInv, MemoryInv
<1>4. StrobesMatch'
    BY <1>1, <1>2, <1>3, StrobesKept
<1>5. WordsLand'
    BY <1>2, <1>3, WordsLandKept
<1>6. WordsRead'
    BY <1>2, <1>3, WordsReadKept
<1>7. NothingRead'
    BY <1>2, <1>3, NothingReadKept
<1>8. Debts'
    BY <1>2, <1>3, DebtsKept
<1>9. Answered'
    BY <1>2, <1>3, AnsweredKept
<1> QED BY <1>4, <1>5, <1>6, <1>7, <1>8, <1>9 DEF Sound

LEMMA InitMemory == Init => MemoryInv
<1> SUFFICES ASSUME Init PROVE MemoryInv
    OBVIOUS
<1>1. Typed /\ BusInv
    BY InitTyped, InitInv
<1>2. QueueInv
    BY DEF Init, QueueInv, QueueCalls, ResetCalls, Direct, Drained, Reading, Moving
<1>3. LatchHolds /\ NoCall /\ StrobesMatch /\ WordsLand /\ WordsRead /\ NothingRead /\ Answered
    BY DEF Init, LatchHolds, NoCall, StrobesMatch, WordsLand, WordsRead, NothingRead, Answered, Moving
<1>4. Debts
  <2>1. Waiting = [i \in 1 .. 0 |-> slots[i - 1][1]]
      BY DEF Init, Waiting
  <2>2. [i \in 1 .. 0 |-> slots[i - 1][1]] = << >>
      OBVIOUS
  <2>3. Owes(memory, wrote, << >>)
      BY OwesNothing DEF Init
  <2>4. \A u \in Users : pc[u] \notin Moving
      BY DEF Init, Moving
  <2> QED BY <2>1, <2>2, <2>3, <2>4 DEF Debts
<1> QED BY <1>1, <1>2, <1>3, <1>4 DEF MemoryInv, Sound

LEMMA MemoryInvKept == ASSUME OneQueueUser, InMemory, MemoryInv, [Next]_vars PROVE MemoryInv'
<1>1. Typed /\ BusInv /\ QueueInv /\ LatchHolds /\ NoCall /\ MutualExclusion
    BY DEF MemoryInv, BusInv
<1>2. Typed' /\ BusInv' /\ QueueInv' /\ LatchHolds' /\ NoCall'
    BY <1>1, TypedKept, InvKept, QueueKept, LatchKept, NoCallKept
<1>3. Sound'
    BY SoundKept
<1> QED BY <1>2, <1>3 DEF MemoryInv

LEMMA MemoryInvariant == ASSUME OneQueueUser, InMemory PROVE Spec => []MemoryInv
<1>1. MemoryInv /\ [Next]_vars => MemoryInv'
    BY MemoryInvKept
<1> QED BY <1>1, InitMemory, PTL DEF Spec

(* Nobody moves words and the queue is empty: all is made. *)
LEMMA NothingOwed ==
    ASSUME MemoryInv, ~broken, \A u \in Users : pc[u] \notin Moving, flushing # {} \/ n = 0
    PROVE  memory = wrote
<1>1. Owes(memory, wrote, Waiting)
    BY DEF MemoryInv, Sound, Debts
<1>2. Waiting = << >>
  <2>1. [i \in 1 .. 0 |-> slots[i - 1][1]] = << >>
      OBVIOUS
  <2> QED BY <2>1 DEF Waiting
<1> QED BY <1>1, <1>2, AllMade DEF MemoryInv

(* When a write that goes straight to the kernel (ps_write_8, 16, 32 without *)
(* batching) is through with the bus, the Amiga's memory holds it and every write*)
(* before it, and no other byte has changed (pistorm.pi4.c:239-318).         *)
THEOREM WritesAreMade == ASSUME OneQueueUser, InMemory PROVE Spec => []WriteIsMade
<1>1. MemoryInv => WriteIsMade
  <2> SUFFICES ASSUME MemoryInv, NEW u \in Users, pc[u] = "unlock", u \notin flushing,
                      Head(op[u]).kind = "write", ~broken
               PROVE  memory = wrote
      BY DEF WriteIsMade
  <2>1. ~Batch
      BY DEF MemoryInv, Typed, Progress, Queued
  <2>2. n = 0
      BY <2>1 DEF MemoryInv, QueueInv, Direct
  <2>3. \A v \in Users : pc[v] \notin Moving
      BY DEF MemoryInv, BusInv, MutualExclusion, InIoctl, Moving
  <2> QED BY <2>2, <2>3, NothingOwed
<1> QED BY <1>1, MemoryInvariant, PTL

(* A read gives what the writes made before it left, with batching also those of*)
(* the thread itself that were still in g_opsq (ps_busop and ps_busopq_flush,*)
(* ps_protocol_kmod.c), for one thread that uses the queue.                  *)
THEOREM ReadsAreCurrent == ASSUME OneQueueUser, InMemory PROVE Spec => []ReadIsCurrent
<1>1. MemoryInv => ReadIsCurrent
    BY DEF MemoryInv, Sound, Answered, ReadIsCurrent
<1> QED BY <1>1, MemoryInvariant, PTL

(* With batching, every write made so far is in the Amiga's memory when      *)
(* ps_busopq_flush returns (ps_protocol_kmod.c), for one thread that uses the*)
(* queue.                                                                    *)
THEOREM BatchesAreMade == ASSUME Batch, OneQueueUser, InMemory PROVE Spec => []FlushedIsMade
<1>1. MemoryInv => FlushedIsMade
  <2> SUFFICES ASSUME MemoryInv, NEW u \in Users, pc[u] = "flushed", ~broken PROVE memory = wrote
      BY DEF FlushedIsMade
  <2>1. Typed /\ QueueInv /\ n = 0
      BY DEF MemoryInv, QueueInv, Drained
  <2>2. ASSUME NEW v \in Users, pc[v] \in Moving PROVE FALSE
    <3>1. Head(op[v]).kind \in {"read", "write", "status", "flush"}
      <4>1. CASE v \in flushing
          BY <2>1, <4>1 DEF QueueInv, QueueCalls
      <4>2. CASE v \notin flushing
          BY <2>1, <2>2, <4>2 DEF Typed, Progress, Doing
      <4> QED BY <4>1, <4>2
    <3>2. Head(op[u]).kind \in {"read", "write", "status", "flush"}
        BY <2>1 DEF QueueInv, QueueCalls
    <3>3. pc[v] # "idle" /\ pc[v] # "flushed"
        BY <2>2 DEF Moving
    <3> QED BY <2>1, <3>1, <3>2, <3>3, SameUser
  <2> QED BY <2>1, <2>2, NothingOwed
<1> QED BY <1>1, MemoryInvariant, PTL

-----------------------------------------------------------------------------
(* What the call of a thread is answered, and the steps that change nothing of it. *)
Answer(u) == IF u \notin Performed THEN << >>
             ELSE IF pc[u] = "return" THEN got[u]
             ELSE SeenBy(Head(op[u]))
AsBefore(u) == (u \in Performed' <=> u \in Performed) /\ Answer(u)' = Answer(u)

(* A step that performs nothing and changes no answer is a stutter of AmigaBus. *)
LEMMA Stutters ==
    ASSUME UNCHANGED <<wrote, op, broken>>, \A u \in Users : AsBefore(u)
    PROVE  UNCHANGED Promise!vars
<1>1. Performed' = Performed
    BY DEF AsBefore, Performed
<1>2. [u \in Users |-> Answer(u)]' = [u \in Users |-> Answer(u)]
    BY DEF AsBefore
<1> QED BY <1>1, <1>2 DEF Promise!vars, Answer

(* A thread that does not move keeps its answer, if what its read sees is the*)
(* same.                                                                     *)
LEMMA Untouched ==
    ASSUME NEW u \in Users, UNCHANGED <<pc[u], op[u], got[u]>>, u \in flushing' <=> u \in flushing,
           pc[u] # "return" => SeenBy(Head(op[u]))' = SeenBy(Head(op[u])) \/ u \notin Performed
    PROVE  AsBefore(u)
<1>1. u \in Performed' <=> u \in Performed
    BY DEF Performed
<1> QED BY <1>1 DEF AsBefore, Answer

(* A step that performs one call and no other is AmigaBus's Perform. *)
LEMMA OnePerforms ==
    ASSUME NEW u \in Users, op[u] # << >>, u \notin Performed, UNCHANGED <<op, broken>>,
           wrote' = Written(wrote, Head(op[u])),
           u \in Performed', Answer(u)' = SeenBy(Head(op[u])),
           \A v \in Users : v # u => AsBefore(v)
    PROVE  Promise!Perform(u)
<1>1. Performed' = Performed \union {u}
    BY DEF AsBefore, Performed
<1> DEFINE A == [v \in Users |-> Answer(v)]
<1>2. A' = [A EXCEPT ![u] = SeenBy(Head(op[u]))]
    BY DEF AsBefore
<1>3. SeenBy(Head(op[u])) = Promise!Seen(wrote, Head(op[u]))
    BY DEF SeenBy, Promise!Seen
<1>4. Written(wrote, Head(op[u])) = Promise!Written(wrote, Head(op[u]))
    BY DEF Written, Promise!Written, Covers, Promise!Covers
<1> QED BY <1>1, <1>2, <1>3, <1>4 DEF Promise!Perform, Answer

(* Every step of the bus is one of AmigaBus, or a stutter. A write that is not*)
(* queued, a read, a reset and a query take effect where the thread gets the *)
(* mutex; a queued write where it is stored; a flush where it returns.       *)
LEMMA StepPromised ==
    ASSUME OneQueueUser, MemoryInv, ~broken, ~broken', [Next]_vars
    PROVE  [Promise!Next]_(Promise!vars)
<1> USE DEF Goto, call, work, queue, cpld, ghosts
<1>0. /\ pc \in [Users -> Places] /\ DOMAIN op = Users /\ DOMAIN got = Users
      /\ OneQueueUser /\ Typed /\ Progress /\ QueueInv /\ NoCall /\ NothingRead /\ Answered
      /\ MutualExclusion /\ ~broken'
    BY DEF MemoryInv, Sound, Typed, Shapes, InACall, Parts, BusInv
<1>1. ASSUME NEW u \in Users, Call(u) PROVE [Promise!Next]_(Promise!vars)
  <2>1. \A v \in Users : v # u => UNCHANGED <<pc[v], op[v], got[v]>> /\ (v \in flushing' <=> v \in flushing)
      BY <1>1, <1>0 DEF Call
  <2>2. UNCHANGED <<wrote, broken>> /\ pc[u] = "idle" /\ op[u] = << >>
      BY <1>1, <1>0 DEF Call, NoCall
  <2>3. PICK o \in Ops[u] : /\ op' = [op EXCEPT ![u] = <<o>>]
                            /\ pc'[u] \in {"push", "flush", "ioctl"} /\ (pc'[u] # "push" => ~Queued(o))
      BY <1>1, <1>0 DEF Call
  <2>4. \A v \in Users : v # u => AsBefore(v)
    <3>1. \A v \in Users : v # u => SeenBy(Head(op[v]))' = SeenBy(Head(op[v]))
        BY <2>1, <2>2 DEF SeenBy
    <3> QED BY <2>1, <3>1, Untouched
  <2>5. AsBefore(u)
    <3>1. u \notin Performed
        BY <2>2 DEF Performed
    <3>2. op'[u] = <<o>> /\ Head(<<o>>) = o
        BY <1>0, <2>3
    <3>3. u \notin Performed'
        BY <2>3, <3>2 DEF Performed, InIoctl
    <3> QED BY <3>1, <3>3 DEF AsBefore, Answer
  <2>6. Performed' = Performed
      BY <2>4, <2>5 DEF AsBefore, Performed
  <2>7. [v \in Users |-> Answer(v)]' = [v \in Users |-> Answer(v)]
      BY <2>4, <2>5 DEF AsBefore
  <2>8. Promise!Ask(u)
      BY <2>2, <2>3, <2>6, <2>7 DEF Promise!Ask, Answer
  <2> QED BY <2>8 DEF Promise!Next
<1>2. ASSUME NEW u \in Users, LoadIndex(u) PROVE [Promise!Next]_(Promise!vars)
  <2>1. \A v \in Users : v # u => UNCHANGED <<pc[v], op[v], got[v]>> /\ (v \in flushing' <=> v \in flushing)
      BY <1>2, <1>0 DEF LoadIndex
  <2>2. UNCHANGED <<wrote, op, broken>>
      BY <1>2 DEF LoadIndex
  <2>3. \A v \in Users : SeenBy(Head(op[v]))' = SeenBy(Head(op[v]))
      BY <2>2 DEF SeenBy
  <2>4. \A v \in Users : v # u => AsBefore(v)
      BY <2>1, <2>2, <2>3, Untouched
  <2>5. AsBefore(u)
    <3>1. pc[u] # "return" /\ pc'[u] # "return" /\ op[u] # << >>
        BY <1>2, <1>0, OneCall DEF LoadIndex
    <3>2. u \in Performed' <=> u \in Performed
        BY <1>2, <1>0, <2>2, <3>1 DEF LoadIndex, Performed, InIoctl
    <3> QED BY <2>3, <3>1, <3>2 DEF AsBefore, Answer
  <2> QED BY <2>2, <2>4, <2>5, Stutters
<1>3. ASSUME NEW u \in Users, StoreOp(u) PROVE [Promise!Next]_(Promise!vars)
  <2>1. \A v \in Users : v # u => UNCHANGED <<pc[v], op[v], got[v]>> /\ (v \in flushing' <=> v \in flushing)
      BY <1>3, <1>0 DEF StoreOp
  <2>2. /\ pc[u] = "store" /\ op' = op /\ broken' = broken /\ got' = got
        /\ wrote' = Written(wrote, Head(op[u])) /\ pc'[u] \in {"flush", "return"}
      BY <1>3, <1>0 DEF StoreOp
  <2>3. Batch /\ Head(op[u]).kind = "write" /\ Queued(Head(op[u])) /\ op[u] # << >>
      BY <1>0, <2>2, OneCall DEF Progress, Queued
  <2>4. u \notin Performed /\ u \in Performed'
    <3>1. u \notin Performed
        BY <2>2 DEF Performed, InIoctl
    <3> QED BY <2>2, <2>3, <3>1 DEF Performed
  <2>5. SeenBy(Head(op[u])) = << >> /\ (SeenBy(Head(op[u])) = << >>)'
      BY <2>2, <2>3 DEF SeenBy
  <2>6. Answer(u)' = SeenBy(Head(op[u]))
    <3>1. got'[u] = << >>
        BY <1>0, <2>2 DEF NothingRead, Moving
    <3> QED BY <2>4, <2>5, <3>1 DEF Answer
  <2>7. ASSUME NEW v \in Users, v # u PROVE AsBefore(v)
    <3>1. pc[v] = "idle" \/ Head(op[v]).kind # "read"
        BY <1>0, <2>2, <2>3, <2>7, SameUser
    <3>2. pc[v] # "idle" => SeenBy(Head(op[v])) = << >> /\ (SeenBy(Head(op[v])) = << >>)'
        BY <2>2, <3>1 DEF SeenBy
    <3>3. pc[v] = "idle" => v \notin Performed
        BY <1>0 DEF NoCall, Performed
    <3> QED BY <2>1, <2>7, <3>2, <3>3, Untouched
  <2> QED BY <2>2, <2>3, <2>4, <2>6, <2>7, OnePerforms DEF Promise!Next
<1>4. ASSUME NEW u \in Users, Flush(u) PROVE [Promise!Next]_(Promise!vars)
  <2>1. \A v \in Users : v # u => UNCHANGED <<pc[v], op[v], got[v]>> /\ (v \in flushing' <=> v \in flushing)
      BY <1>4, <1>0 DEF Flush
  <2>2. UNCHANGED <<wrote, op, broken>>
      BY <1>4 DEF Flush
  <2>3. \A v \in Users : SeenBy(Head(op[v]))' = SeenBy(Head(op[v]))
      BY <2>2 DEF SeenBy
  <2>4. \A v \in Users : v # u => AsBefore(v)
      BY <2>1, <2>2, <2>3, Untouched
  <2>5. AsBefore(u)
    <3>1. pc[u] # "return" /\ pc'[u] # "return" /\ op[u] # << >>
        BY <1>4, <1>0, OneCall DEF Flush
    <3>2. u \in Performed' <=> u \in Performed
        BY <1>4, <1>0, <2>2, <3>1 DEF Flush, Performed, InIoctl
    <3> QED BY <2>3, <3>1, <3>2 DEF AsBefore, Answer
  <2> QED BY <2>2, <2>4, <2>5, Stutters
<1>5. ASSUME NEW u \in Users, EmptyQueue(u) PROVE [Promise!Next]_(Promise!vars)
  <2>1. \A v \in Users : v # u => UNCHANGED <<pc[v], op[v], got[v]>> /\ (v \in flushing' <=> v \in flushing)
      BY <1>5, <1>0 DEF EmptyQueue
  <2>2. UNCHANGED <<wrote, op, broken>>
      BY <1>5 DEF EmptyQueue
  <2>3. \A v \in Users : SeenBy(Head(op[v]))' = SeenBy(Head(op[v]))
      BY <2>2 DEF SeenBy
  <2>4. \A v \in Users : v # u => AsBefore(v)
      BY <2>1, <2>2, <2>3, Untouched
  <2>5. AsBefore(u)
    <3>1. pc[u] # "return" /\ pc'[u] # "return" /\ op[u] # << >>
        BY <1>5, <1>0, OneCall DEF EmptyQueue
    <3>2. u \in Performed' <=> u \in Performed
        BY <1>5, <1>0, <2>2, <3>1 DEF EmptyQueue, Performed, InIoctl
    <3> QED BY <2>3, <3>1, <3>2 DEF AsBefore, Answer
  <2> QED BY <2>2, <2>4, <2>5, Stutters
<1>6. ASSUME NEW u \in Users, Flushed(u) PROVE [Promise!Next]_(Promise!vars)
  <2>1. \A v \in Users : v # u => UNCHANGED <<pc[v], op[v], got[v]>> /\ (v \in flushing' <=> v \in flushing)
      BY <1>6, <1>0 DEF Flushed
  <2>2. /\ pc[u] = "flushed" /\ UNCHANGED <<op, broken, got, wrote, flushing>> /\ u \notin flushing
        /\ pc'[u] = IF Head(op[u]).kind \in {"read", "status"} THEN "ioctl" ELSE "return"
      BY <1>6, <1>0 DEF Flushed, Progress, Moving
  <2>3. \A v \in Users : SeenBy(Head(op[v]))' = SeenBy(Head(op[v]))
      BY <2>2 DEF SeenBy
  <2>4. \A v \in Users : v # u => AsBefore(v)
      BY <2>1, <2>2, <2>3, Untouched
  <2>5. op[u] # << >> /\ Head(op[u]).kind \in {"read", "write", "status", "flush"}
      BY <1>0, <2>2, OneCall DEF QueueInv, QueueCalls
  <2>6. got[u] = << >>
      BY <1>0, <2>2 DEF NothingRead, Moving
  <2>7. CASE Head(op[u]).kind \in {"read", "status"}
    <3>1. u \notin Performed /\ u \notin Performed'
        BY <2>2, <2>7 DEF Performed, InIoctl, Queued
    <3>2. AsBefore(u)
        BY <3>1 DEF AsBefore, Answer
    <3> QED BY <2>2, <2>4, <3>2, Stutters
  <2>8. CASE Queued(Head(op[u]))
    <3>1. u \in Performed /\ u \in Performed' /\ pc'[u] = "return"
        BY <2>2, <2>5, <2>8 DEF Performed, Queued
    <3>2. AsBefore(u)
        BY <2>2, <2>6, <2>8, <3>1 DEF AsBefore, Answer, SeenBy, Queued
    <3> QED BY <2>2, <2>4, <3>2, Stutters
  <2>9. CASE Head(op[u]).kind \in {"write", "flush"} /\ ~Queued(Head(op[u]))
    <3>1. u \notin Performed /\ u \in Performed' /\ pc'[u] = "return"
        BY <2>2, <2>5, <2>9 DEF Performed, InIoctl, Queued
    <3>2. Head(op[u]).kind = "flush"
        BY <1>0, <2>2, <2>9 DEF QueueInv, QueueCalls, Queued
    <3>3. wrote' = Written(wrote, Head(op[u]))
        BY <2>2, <3>2 DEF Written
    <3>4. Answer(u)' = SeenBy(Head(op[u]))
        BY <2>2, <2>6, <3>1, <3>2 DEF Answer, SeenBy
    <3> QED BY <2>2, <2>4, <2>5, <3>1, <3>3, <3>4, OnePerforms DEF Promise!Next
  <2> QED BY <2>5, <2>7, <2>8, <2>9
<1>7. ASSUME NEW u \in Users, Return(u) PROVE [Promise!Next]_(Promise!vars)
  <2>1. \A v \in Users : v # u => UNCHANGED <<pc[v], op[v], got[v]>> /\ (v \in flushing' <=> v \in flushing)
      BY <1>7, <1>0 DEF Return
  <2>2. UNCHANGED <<wrote, broken>> /\ op' = [op EXCEPT ![u] = << >>] /\ pc[u] = "return"
      BY <1>7 DEF Return
  <2>3. u \in Performed /\ u \notin Performed'
      BY <1>0, <2>2, OneCall DEF Performed
  <2>4. \A v \in Users : v # u => AsBefore(v)
    <3>1. \A v \in Users : v # u => SeenBy(Head(op[v]))' = SeenBy(Head(op[v]))
        BY <2>1, <2>2 DEF SeenBy
    <3> QED BY <2>1, <3>1, Untouched
  <2>5. Performed' = Performed \ {u}
      BY <2>3, <2>4 DEF AsBefore, Performed
  <2> DEFINE A == [v \in Users |-> Answer(v)]
  <2>6. A' = [A EXCEPT ![u] = << >>]
      BY <2>3, <2>4 DEF AsBefore, Answer
  <2>7. Promise!Return(u)
      BY <2>2, <2>3, <2>5, <2>6 DEF Promise!Return, Answer
  <2> QED BY <2>7 DEF Promise!Next
<1>8. ASSUME NEW u \in Users, Lock(u) PROVE [Promise!Next]_(Promise!vars)
  <2>1. \A v \in Users : v # u => UNCHANGED <<pc[v], op[v], got[v]>> /\ (v \in flushing' <=> v \in flushing)
      BY <1>8, <1>0 DEF Lock
  <2>2. /\ UNCHANGED <<op, broken, got>> /\ pc[u] \in {"ioctl", "batch"} /\ op[u] # << >>
        /\ \A v \in Users : pc[v] \notin InIoctl
      BY <1>8, <1>0, OneCall, UsersAssumption DEF Lock, MutexFree, MutualExclusion
  <2>3. CASE pc[u] = "batch"
    <3>1. wrote' = wrote /\ u \in flushing' /\ pc'[u] = "write"
        BY <1>8, <1>0, <2>3 DEF Lock
    <3>2. \A v \in Users : SeenBy(Head(op[v]))' = SeenBy(Head(op[v]))
        BY <2>2, <3>1 DEF SeenBy
    <3>3. \A v \in Users : v # u => AsBefore(v)
        BY <2>1, <2>2, <3>2, Untouched
    <3>4. u \in Performed' <=> u \in Performed
        BY <2>2, <2>3, <3>1 DEF Performed, InIoctl
    <3>5. AsBefore(u)
        BY <2>3, <3>1, <3>2, <3>4 DEF AsBefore, Answer
    <3> QED BY <2>2, <3>1, <3>3, <3>5, Stutters
  <2>4. CASE pc[u] = "ioctl"
    <3>1. wrote' = Written(wrote, Head(op[u])) /\ flushing' = flushing /\ u \notin flushing
        BY <1>8, <1>0, <2>4 DEF Lock, Progress, Moving
    <3>2. ~Queued(Head(op[u])) /\ op[u][1] = Head(op[u])
        BY <1>0, <2>4, OneCall DEF Progress
    <3>3. pc'[u] \in InIoctl
        BY <1>8, <1>0, <2>4 DEF Lock, InIoctl
    <3>4. u \notin Performed /\ u \in Performed' /\ pc'[u] # "return"
        BY <2>2, <2>4, <3>1, <3>2, <3>3 DEF Performed, InIoctl
    <3>5. Answer(u)' = SeenBy(Head(op[u]))
      <4>1. Answer(u)' = SeenBy(Head(op[u]))'
          BY <3>4 DEF Answer
      <4>2. CASE Head(op[u]).kind = "read"
        <5>1. wrote' = wrote
            BY <3>1, <4>2 DEF Written
        <5> QED BY <2>2, <4>1, <5>1 DEF SeenBy
      <4>3. CASE Head(op[u]).kind # "read"
          BY <2>2, <4>1, <4>3 DEF SeenBy
      <4> QED BY <4>2, <4>3
    <3>6. ASSUME NEW v \in Users, v # u PROVE AsBefore(v)
      <4>1. CASE pc[v] = "return" \/ v \notin Performed
          BY <2>1, <3>6, <4>1, Untouched
      <4>2. CASE pc[v] # "return" /\ v \in Performed
        <5>1. Head(op[v]).kind = "write"
            BY <2>2, <4>2 DEF Performed, Queued
        <5>2. SeenBy(Head(op[v])) = << >> /\ (SeenBy(Head(op[v])) = << >>)'
            BY <2>2, <5>1 DEF SeenBy
        <5> QED BY <2>1, <3>6, <5>2, Untouched
      <4> QED BY <4>1, <4>2
    <3> QED BY <2>2, <3>1, <3>4, <3>5, <3>6, OnePerforms DEF Promise!Next
  <2> QED BY <2>2, <2>3, <2>4
<1>9. ASSUME NEW u \in Users, LatchData(u) PROVE [Promise!Next]_(Promise!vars)
  <2>1. \A v \in Users : v # u => UNCHANGED <<pc[v], op[v], got[v]>> /\ (v \in flushing' <=> v \in flushing)
      BY <1>9, <1>0 DEF LatchData
  <2>2. UNCHANGED <<wrote, op, broken>>
      BY <1>9 DEF LatchData
  <2>3. \A v \in Users : SeenBy(Head(op[v]))' = SeenBy(Head(op[v]))
      BY <2>2 DEF SeenBy
  <2>4. \A v \in Users : v # u => AsBefore(v)
      BY <2>1, <2>2, <2>3, Untouched
  <2>5. AsBefore(u)
    <3>1. pc[u] # "return" /\ pc'[u] # "return" /\ op[u] # << >>
        BY <1>9, <1>0, OneCall DEF LatchData
    <3>2. u \in Performed' <=> u \in Performed
        BY <1>9, <1>0, <2>2, <3>1 DEF LatchData, Performed, InIoctl
    <3> QED BY <2>3, <3>1, <3>2 DEF AsBefore, Answer
  <2> QED BY <2>2, <2>4, <2>5, Stutters
<1>10. ASSUME NEW u \in Users, LatchAddress(u) PROVE [Promise!Next]_(Promise!vars)
  <2>1. \A v \in Users : v # u => UNCHANGED <<pc[v], op[v], got[v]>> /\ (v \in flushing' <=> v \in flushing)
      BY <1>10, <1>0 DEF LatchAddress
  <2>2. UNCHANGED <<wrote, op, broken>>
      BY <1>10 DEF LatchAddress
  <2>3. \A v \in Users : SeenBy(Head(op[v]))' = SeenBy(Head(op[v]))
      BY <2>2 DEF SeenBy
  <2>4. \A v \in Users : v # u => AsBefore(v)
      BY <2>1, <2>2, <2>3, Untouched
  <2>5. AsBefore(u)
    <3>1. pc[u] # "return" /\ pc'[u] # "return" /\ op[u] # << >>
        BY <1>10, <1>0, OneCall DEF LatchAddress
    <3>2. u \in Performed' <=> u \in Performed
        BY <1>10, <1>0, <2>2, <3>1 DEF LatchAddress, Performed, InIoctl
    <3> QED BY <2>3, <3>1, <3>2 DEF AsBefore, Answer
  <2> QED BY <2>2, <2>4, <2>5, Stutters
<1>11. ASSUME NEW u \in Users, LatchRequest(u) PROVE [Promise!Next]_(Promise!vars)
  <2>1. \A v \in Users : v # u => UNCHANGED <<pc[v], op[v], got[v]>> /\ (v \in flushing' <=> v \in flushing)
      BY <1>11, <1>0 DEF LatchRequest
  <2>2. UNCHANGED <<wrote, op, broken>>
      BY <1>11 DEF LatchRequest
  <2>3. \A v \in Users : SeenBy(Head(op[v]))' = SeenBy(Head(op[v]))
      BY <2>2 DEF SeenBy
  <2>4. \A v \in Users : v # u => AsBefore(v)
      BY <2>1, <2>2, <2>3, Untouched
  <2>5. AsBefore(u)
    <3>1. pc[u] # "return" /\ pc'[u] # "return" /\ op[u] # << >>
        BY <1>11, <1>0, OneCall DEF LatchRequest
    <3>2. u \in Performed' <=> u \in Performed
        BY <1>11, <1>0, <2>2, <3>1 DEF LatchRequest, Performed, InIoctl
    <3> QED BY <2>3, <3>1, <3>2 DEF AsBefore, Answer
  <2> QED BY <2>2, <2>4, <2>5, Stutters
<1>12. ASSUME NEW u \in Users, TxnDone(u) PROVE [Promise!Next]_(Promise!vars)
  <2>1. \A v \in Users : v # u => UNCHANGED <<pc[v], op[v], got[v]>> /\ (v \in flushing' <=> v \in flushing)
      BY <1>12, <1>0 DEF TxnDone
  <2>2. UNCHANGED <<wrote, op, broken>>
      BY <1>12 DEF TxnDone
  <2>3. \A v \in Users : SeenBy(Head(op[v]))' = SeenBy(Head(op[v]))
      BY <2>2 DEF SeenBy
  <2>4. \A v \in Users : v # u => AsBefore(v)
      BY <2>1, <2>2, <2>3, Untouched
  <2>5. AsBefore(u)
    <3>1. pc[u] = "wait" /\ pc'[u] \in {"addr_lo", "write", "unlock"} /\ flushing' = flushing
        BY <1>12, <1>0, NextTransaction DEF TxnDone
    <3>2. u \in Performed' <=> u \in Performed
        BY <1>0, <2>2, <3>1 DEF Performed, InIoctl
    <3> QED BY <2>3, <3>1, <3>2 DEF AsBefore, Answer
  <2> QED BY <2>2, <2>4, <2>5, Stutters
<1>13. ASSUME NEW u \in Users, TxnTimeout(u) PROVE [Promise!Next]_(Promise!vars)
    BY <1>13, <1>0 DEF TxnTimeout
<1>14. ASSUME NEW u \in Users, AssertReset(u) PROVE [Promise!Next]_(Promise!vars)
  <2>1. \A v \in Users : v # u => UNCHANGED <<pc[v], op[v], got[v]>> /\ (v \in flushing' <=> v \in flushing)
      BY <1>14, <1>0 DEF AssertReset
  <2>2. UNCHANGED <<wrote, op, broken>>
      BY <1>14 DEF AssertReset
  <2>3. \A v \in Users : SeenBy(Head(op[v]))' = SeenBy(Head(op[v]))
      BY <2>2 DEF SeenBy
  <2>4. \A v \in Users : v # u => AsBefore(v)
      BY <2>1, <2>2, <2>3, Untouched
  <2>5. AsBefore(u)
    <3>1. pc[u] # "return" /\ pc'[u] # "return" /\ op[u] # << >>
        BY <1>14, <1>0, OneCall DEF AssertReset
    <3>2. u \in Performed' <=> u \in Performed
        BY <1>14, <1>0, <2>2, <3>1 DEF AssertReset, Performed, InIoctl
    <3> QED BY <2>3, <3>1, <3>2 DEF AsBefore, Answer
  <2> QED BY <2>2, <2>4, <2>5, Stutters
<1>15. ASSUME NEW u \in Users, ReleaseReset(u) PROVE [Promise!Next]_(Promise!vars)
  <2>1. \A v \in Users : v # u => UNCHANGED <<pc[v], op[v], got[v]>> /\ (v \in flushing' <=> v \in flushing)
      BY <1>15, <1>0 DEF ReleaseReset
  <2>2. UNCHANGED <<wrote, op, broken>>
      BY <1>15 DEF ReleaseReset
  <2>3. \A v \in Users : SeenBy(Head(op[v]))' = SeenBy(Head(op[v]))
      BY <2>2 DEF SeenBy
  <2>4. \A v \in Users : v # u => AsBefore(v)
      BY <2>1, <2>2, <2>3, Untouched
  <2>5. AsBefore(u)
    <3>1. pc[u] # "return" /\ pc'[u] # "return" /\ op[u] # << >>
        BY <1>15, <1>0, OneCall DEF ReleaseReset
    <3>2. u \in Performed' <=> u \in Performed
        BY <1>15, <1>0, <2>2, <3>1 DEF ReleaseReset, Performed, InIoctl
    <3> QED BY <2>3, <3>1, <3>2 DEF AsBefore, Answer
  <2> QED BY <2>2, <2>4, <2>5, Stutters
<1>16. ASSUME NEW u \in Users, ResetSm(u) PROVE [Promise!Next]_(Promise!vars)
  <2>1. \A v \in Users : v # u => UNCHANGED <<pc[v], op[v], got[v]>> /\ (v \in flushing' <=> v \in flushing)
      BY <1>16, <1>0 DEF ResetSm
  <2>2. UNCHANGED <<wrote, op, broken>>
      BY <1>16 DEF ResetSm
  <2>3. \A v \in Users : SeenBy(Head(op[v]))' = SeenBy(Head(op[v]))
      BY <2>2 DEF SeenBy
  <2>4. \A v \in Users : v # u => AsBefore(v)
      BY <2>1, <2>2, <2>3, Untouched
  <2>5. AsBefore(u)
    <3>1. pc[u] # "return" /\ pc'[u] # "return" /\ op[u] # << >>
        BY <1>16, <1>0, OneCall DEF ResetSm
    <3>2. u \in Performed' <=> u \in Performed
        BY <1>16, <1>0, <2>2, <3>1 DEF ResetSm, Performed, InIoctl
    <3> QED BY <2>3, <3>1, <3>2 DEF AsBefore, Answer
  <2> QED BY <2>2, <2>4, <2>5, Stutters
<1>17. ASSUME NEW u \in Users, Unlock(u) PROVE [Promise!Next]_(Promise!vars)
  <2>1. \A v \in Users : v # u => UNCHANGED <<pc[v], op[v], got[v]>> /\ (v \in flushing' <=> v \in flushing)
      BY <1>17, <1>0 DEF Unlock
  <2>2. UNCHANGED <<wrote, op, broken>>
      BY <1>17 DEF Unlock
  <2>3. \A v \in Users : SeenBy(Head(op[v]))' = SeenBy(Head(op[v]))
      BY <2>2 DEF SeenBy
  <2>4. \A v \in Users : v # u => AsBefore(v)
      BY <2>1, <2>2, <2>3, Untouched
  <2>5. AsBefore(u)
    <3>1. pc[u] = "unlock" /\ op[u] # << >> /\ UNCHANGED <<flushing, got>> /\ Progress
        BY <1>17, <1>0, OneCall DEF Unlock
    <3>2. CASE u \in flushing
      <4>1. pc'[u] = "empty"
          BY <1>17, <1>0, <3>2 DEF Unlock
      <4>2. u \in Performed' <=> u \in Performed
          BY <2>2, <3>1, <3>2, <4>1 DEF Performed, InIoctl
      <4> QED BY <2>3, <3>1, <4>1, <4>2 DEF AsBefore, Answer
    <3>3. CASE u \notin flushing
      <4>1. pc'[u] = "return"
          BY <1>17, <1>0, <3>3 DEF Unlock
      <4>2. u \in Performed' /\ u \in Performed
          BY <2>2, <3>1, <3>3, <4>1 DEF Performed, InIoctl
      <4>3. got[u] = SeenBy(Head(op[u]))
        <5>1. CASE Head(op[u]).kind = "read"
            BY <1>0, <3>1, <3>3, <5>1 DEF Answered
        <5>2. CASE Head(op[u]).kind # "read"
            BY <1>0, <5>2 DEF NothingRead, SeenBy
        <5> QED BY <5>1, <5>2
      <4> QED BY <3>1, <4>1, <4>2, <4>3 DEF AsBefore, Answer
    <3> QED BY <3>2, <3>3
  <2> QED BY <2>2, <2>4, <2>5, Stutters
<1>18. ASSUME Advance PROVE [Promise!Next]_(Promise!vars)
  <2>1. UNCHANGED <<pc, op, got, flushing, wrote, broken>>
      BY <1>18 DEF Advance
  <2>2. \A v \in Users : SeenBy(Head(op[v]))' = SeenBy(Head(op[v]))
      BY <2>1 DEF SeenBy
  <2>3. \A v \in Users : AsBefore(v)
      BY <2>1, <2>2, Untouched
  <2> QED BY <2>1, <2>3, Stutters
<1>19. ASSUME StartCycle PROVE [Promise!Next]_(Promise!vars)
  <2>1. UNCHANGED <<pc, op, got, flushing, wrote, broken>>
      BY <1>19 DEF StartCycle
  <2>2. \A v \in Users : SeenBy(Head(op[v]))' = SeenBy(Head(op[v]))
      BY <2>1 DEF SeenBy
  <2>3. \A v \in Users : AsBefore(v)
      BY <2>1, <2>2, Untouched
  <2> QED BY <2>1, <2>3, Stutters
<1>20. ASSUME DriveBus PROVE [Promise!Next]_(Promise!vars)
  <2>1. UNCHANGED <<pc, op, got, flushing, wrote, broken>>
      BY <1>20 DEF DriveBus
  <2>2. \A v \in Users : SeenBy(Head(op[v]))' = SeenBy(Head(op[v]))
      BY <2>1 DEF SeenBy
  <2>3. \A v \in Users : AsBefore(v)
      BY <2>1, <2>2, Untouched
  <2> QED BY <2>1, <2>3, Stutters
<1>21. ASSUME LowerTxn PROVE [Promise!Next]_(Promise!vars)
  <2>1. UNCHANGED <<pc, op, got, flushing, wrote, broken>>
      BY <1>21 DEF LowerTxn
  <2>2. \A v \in Users : SeenBy(Head(op[v]))' = SeenBy(Head(op[v]))
      BY <2>1 DEF SeenBy
  <2>3. \A v \in Users : AsBefore(v)
      BY <2>1, <2>2, Untouched
  <2> QED BY <2>1, <2>3, Stutters
<1>22. ASSUME LeaveS4 PROVE [Promise!Next]_(Promise!vars)
  <2>1. UNCHANGED <<pc, op, got, flushing, wrote, broken>>
      BY <1>22 DEF LeaveS4
  <2>2. \A v \in Users : SeenBy(Head(op[v]))' = SeenBy(Head(op[v]))
      BY <2>1 DEF SeenBy
  <2>3. \A v \in Users : AsBefore(v)
      BY <2>1, <2>2, Untouched
  <2> QED BY <2>1, <2>3, Stutters
<1>23. ASSUME Acknowledge PROVE [Promise!Next]_(Promise!vars)
  <2>1. UNCHANGED <<pc, op, got, flushing, wrote, broken>>
      BY <1>23 DEF Acknowledge
  <2>2. \A v \in Users : SeenBy(Head(op[v]))' = SeenBy(Head(op[v]))
      BY <2>1 DEF SeenBy
  <2>3. \A v \in Users : AsBefore(v)
      BY <2>1, <2>2, Untouched
  <2> QED BY <2>1, <2>3, Stutters
<1>24. ASSUME UNCHANGED vars PROVE [Promise!Next]_(Promise!vars)
  <2>1. UNCHANGED <<pc, op, got, flushing, wrote, broken>>
      BY <1>24 DEF vars
  <2>2. \A v \in Users : SeenBy(Head(op[v]))' = SeenBy(Head(op[v]))
      BY <2>1 DEF SeenBy
  <2>3. \A v \in Users : AsBefore(v)
      BY <2>1, <2>2, Untouched
  <2> QED BY <2>1, <2>3, Stutters
<1> QED BY <1>1, <1>2, <1>3, <1>4, <1>5, <1>6, <1>7, <1>8, <1>9, <1>10, <1>11, <1>12,
           <1>13, <1>14, <1>15, <1>16, <1>17, <1>18, <1>19, <1>20, <1>21, <1>22, <1>23,
           <1>24
           DEF Next, Library, Ioctl, Transact, Clocked

LEMMA InitPromised == Init => Promise!Init
<1> SUFFICES ASSUME Init PROVE Promise!Init
    OBVIOUS
<1>1. wrote \in [Addrs -> Bytes]
    BY InitTyped DEF Typed, TypeOK
<1>2. Performed = {}
    BY DEF Init, Performed
<1> QED BY <1>1, <1>2 DEF Init, Promise!Init

(* The library, the kernel module and the CPLD together implement AmigaBus: a*)
(* call takes effect at one instant between its start and its return, until the*)
(* first transaction that is given up.                                       *)
THEOREM CallsActAtOnce == ASSUME OneQueueUser, InMemory PROVE Spec => ActsAtOnce
<1>1. MemoryInv /\ MemoryInv' /\ [Next]_vars => [Promise!Next]_(Promise!vars)
  <2> SUFFICES ASSUME MemoryInv, [Next]_vars PROVE [Promise!Next]_(Promise!vars)
      OBVIOUS
  <2>1. CASE broken'
      BY <2>1 DEF Promise!Next
  <2>2. CASE ~broken'
      BY <2>2, StaysBroken, StepPromised
  <2> QED BY <2>1, <2>2
<1> QED BY <1>1, InitPromised, MemoryInvariant, PTL DEF Spec, ActsAtOnce, Promise!Spec
=============================================================================
