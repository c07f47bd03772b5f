---------------------------- MODULE A314LinkProofs ----------------------------
(***************************************************************************)
(* Proofs about A314Link for every ring size, packet stream and capacity,  *)
(* whatever other devices interrupt: its types, which calls are lost and   *)
(* that no others are, and that the rings deliver whole packets in order   *)
(* and strand none.                                                        *)
(***************************************************************************)
EXTENDS A314Link, TLAPS, WellFoundedInduction, SequenceTheorems

-----------------------------------------------------------------------------
(***************************************************************************)
(* The calls of the driver of A314Link: when it sleeps with something to   *)
(* do, an enabled event is set, or about to be, or IntServer read the      *)
(* event for another device before the driver enabled it.                  *)
(***************************************************************************)

\* The form of what the steps below change a part of.
Forms ==
  /\ aPc \in {"wait", "requests", "received", "room", "discard", "check", "checkRoom",
              "enable", "notify"}
  /\ signal \subseteq {"MSGPORT", "INT"}
  /\ DOMAIN channel_status = {"A2R_TAIL", "R2A_HEAD", "R2A_TAIL", "A2R_HEAD"}
  /\ stores \subseteq {"buffer", "r2a_tail", "a2r_head"}

(***************************************************************************)
(* The A314 thread owes an event for each index of its own that differs    *)
(* from the one the driver sees, or that the driver has just come to see.  *)
(***************************************************************************)
Behind ==
  /\ channel_status.R2A_TAIL # r2a_tail => "R2A_TAIL" \in channel_status_updated
  /\ channel_status.A2R_HEAD # a2r_head => "A2R_HEAD" \in channel_status_updated
Level ==
  /\ piPc \notin {"receive", "flush", "publish"} =>
       channel_status.R2A_TAIL = r2a_tail /\ channel_status.A2R_HEAD = a2r_head
  /\ piPc = "publish" =>
       /\ "r2a_tail" \notin stores => channel_status.R2A_TAIL = r2a_tail
       /\ "a2r_head" \notin stores => channel_status.A2R_HEAD = a2r_head
PiOwes == Behind /\ Level

\* Events are disabled from the first look at the rings to the last.
Disabled ==
  /\ aPc \notin {"wait", "notify"} => a_enable = {} /\ "INT" \notin signal
  /\ "INT" \in signal => a_enable = {}

(***************************************************************************)
(* From the look at R2A on, and from the look at the room in A2R on, what  *)
(* has come since is announced, or was missed; and what the driver sleeps  *)
(* without looking at is enabled, until the interrupt is taken.            *)
(***************************************************************************)
Posted(e) == e \in a_events \/ (piPc = "publish" /\ e \in channel_status_updated)
RoomForHead == send_queue # <<>> /\ room_in_a2r(Head(send_queue))
R2ASeen == used_in_r2a # 0 => Posted("R2A_TAIL") \/ "R2A_TAIL" \in missed
RoomSeen == RoomForHead => Posted("A2R_HEAD") \/ "A2R_HEAD" \in missed
Covered ==
  /\ aPc \in {"checkRoom", "enable"} => R2ASeen
  /\ aPc = "enable" => RoomSeen
  /\ aPc \in {"notify", "wait"} /\ "INT" \notin signal =>
       /\ R2ASeen /\ RoomSeen
       /\ "R2A_TAIL" \in a_enable
       /\ send_queue # <<>> => "A2R_HEAD" \in a_enable

WakeInv == Forms /\ PiOwes /\ Disabled /\ Covered

-----------------------------------------------------------------------------
LEMMA InitWake == Init => WakeInv
<1> SUFFICES ASSUME Init PROVE WakeInv
  OBVIOUS
<1>1. Forms /\ PiOwes /\ Disabled
  BY DEF Init, Forms, PiOwes, Behind, Level, Disabled
<1>2. Covered
  BY DEF Init, Covered, R2ASeen, RoomSeen, RoomForHead, used_in_r2a, Dist
<1>3. QED
  BY <1>1, <1>2 DEF WakeInv

\* The places, the signals and the shapes are kept.
LEMMA FormsKept == ASSUME Forms, [Next]_vars PROVE Forms'
<1> USE DEF Forms, comArea, locals, amiga, pi, history
<1>1. CASE AppSend
  BY <1>1 DEF AppSend
<1>2. CASE AppRead
  BY <1>2 DEF AppRead
<1>3. CASE WaitReturns
  BY <1>3 DEF WaitReturns
<1>4. CASE handle_app_request
  BY <1>4 DEF handle_app_request
<1>5. CASE NoMoreRequests
  BY <1>5 DEF NoMoreRequests
<1>6. CASE ReceiveR2A
  BY <1>6 DEF ReceiveR2A
<1>7. CASE R2AEmptied
  BY <1>7 DEF R2AEmptied
<1>8. CASE SendQueued
  BY <1>8 DEF SendQueued
<1>9. CASE NothingToSend
  BY <1>9 DEF NothingToSend
<1>10. CASE DiscardEvents
  BY <1>10 DEF DiscardEvents
<1>11. CASE CheckR2A
  BY <1>11 DEF CheckR2A
<1>12. CASE CheckRoom
  BY <1>12 DEF CheckRoom
<1>13. CASE Enable
  BY <1>13 DEF Enable
<1>14. CASE Notify
  BY <1>14 DEF Notify
<1>15. CASE IntServer
  BY <1>15 DEF IntServer
<1>16. CASE ClientEvent
  BY <1>16 DEF ClientEvent
<1>17. CASE ReadIrq
  BY <1>17 DEF ReadIrq
<1>18. CASE ReadA2RTail
  BY <1>18 DEF ReadA2RTail
<1>19. CASE ReadR2AHead
  BY <1>19 DEF ReadR2AHead
<1>20. CASE ReceiveA2R
  BY <1>20 DEF ReceiveA2R
<1>21. CASE A2RReceived
  BY <1>21 DEF A2RReceived
<1>22. CASE FlushPacket
  BY <1>22 DEF FlushPacket
<1>23. CASE Flushed
  BY <1>23 DEF Flushed
<1>24. ASSUME NEW s \in stores, StoreVisible(s) PROVE Forms'
  BY <1>24 DEF StoreVisible
<1>25. CASE PostEvents
  BY <1>25 DEF PostEvents
<1>26. CASE UNCHANGED vars
  BY <1>26 DEF vars
<1>27. QED
  BY <1>1, <1>2, <1>3, <1>4, <1>5, <1>6, <1>7, <1>8, <1>9, <1>10, <1>11, <1>12, <1>13, <1>14,
     <1>15, <1>16, <1>17, <1>18, <1>19, <1>20, <1>21, <1>22, <1>23, <1>24, <1>25, <1>26
     DEF Next, DriverStep, IrqStep

\* The A314 thread keeps what it owes until it posts it.
LEMMA OwesKept == ASSUME Forms, PiOwes, [Next]_vars PROVE PiOwes'
<1> USE DEF PiOwes, Behind, Level, comArea, locals, amiga, pi, history
<1>1. CASE AppSend
  BY <1>1 DEF AppSend
<1>2. CASE AppRead
  BY <1>2 DEF AppRead
<1>3. CASE WaitReturns
  BY <1>3 DEF WaitReturns
<1>4. CASE handle_app_request
  BY <1>4 DEF handle_app_request
<1>5. CASE NoMoreRequests
  BY <1>5 DEF NoMoreRequests
<1>6. CASE ReceiveR2A
  BY <1>6 DEF ReceiveR2A
<1>7. CASE R2AEmptied
  BY <1>7 DEF R2AEmptied
<1>8. CASE SendQueued
  BY <1>8 DEF SendQueued
<1>9. CASE NothingToSend
  BY <1>9 DEF NothingToSend
<1>10. CASE DiscardEvents
  BY <1>10 DEF DiscardEvents
<1>11. CASE CheckR2A
  BY <1>11 DEF CheckR2A
<1>12. CASE CheckRoom
  BY <1>12 DEF CheckRoom
<1>13. CASE Enable
  BY <1>13 DEF Enable
<1>14. CASE Notify
  BY <1>14 DEF Notify
<1>15. CASE IntServer
  BY <1>15 DEF IntServer
<1>16. CASE ClientEvent
  BY <1>16 DEF ClientEvent, Forms
<1>17. CASE ReadIrq
  BY <1>17 DEF ReadIrq, Forms
<1>18. CASE ReadA2RTail
  BY <1>18 DEF ReadA2RTail, Forms
<1>19. CASE ReadR2AHead
  BY <1>19 DEF ReadR2AHead, Forms
<1>20. CASE ReceiveA2R
  BY <1>20 DEF ReceiveA2R, Forms
<1>21. CASE A2RReceived
  BY <1>21 DEF A2RReceived, Forms
<1>22. CASE FlushPacket
  BY <1>22 DEF FlushPacket, Forms
<1>23. CASE Flushed
  BY <1>23 DEF Flushed, Forms
<1>24. ASSUME NEW s \in stores, StoreVisible(s) PROVE PiOwes'
  BY <1>24 DEF StoreVisible, Forms
<1>25. CASE PostEvents
  BY <1>25 DEF PostEvents, Forms
<1>26. CASE UNCHANGED vars
  BY <1>26 DEF vars
<1>27. QED
  BY <1>1, <1>2, <1>3, <1>4, <1>5, <1>6, <1>7, <1>8, <1>9, <1>10, <1>11, <1>12, <1>13, <1>14,
     <1>15, <1>16, <1>17, <1>18, <1>19, <1>20, <1>21, <1>22, <1>23, <1>24, <1>25, <1>26
     DEF Next, DriverStep, IrqStep

\* Nothing but the end of a round enables events, and only without an interrupt.
LEMMA DisabledKept == ASSUME Forms, Disabled, [Next]_vars PROVE Disabled'
<1> USE DEF Disabled, comArea, locals, amiga, pi, history
<1>1. CASE AppSend
  BY <1>1 DEF AppSend
<1>2. CASE AppRead
  BY <1>2 DEF AppRead
<1>3. CASE WaitReturns
  BY <1>3 DEF WaitReturns, Forms
<1>4. CASE handle_app_request
  BY <1>4 DEF handle_app_request
<1>5. CASE NoMoreRequests
  BY <1>5 DEF NoMoreRequests
<1>6. CASE ReceiveR2A
  BY <1>6 DEF ReceiveR2A
<1>7. CASE R2AEmptied
  BY <1>7 DEF R2AEmptied
<1>8. CASE SendQueued
  BY <1>8 DEF SendQueued
<1>9. CASE NothingToSend
  BY <1>9 DEF NothingToSend
<1>10. CASE DiscardEvents
  BY <1>10 DEF DiscardEvents
<1>11. CASE CheckR2A
  BY <1>11 DEF CheckR2A
<1>12. CASE CheckRoom
  BY <1>12 DEF CheckRoom
<1>13. CASE Enable
  BY <1>13 DEF Enable
<1>14. CASE Notify
  BY <1>14 DEF Notify
<1>15. CASE IntServer
  BY <1>15 DEF IntServer
<1>16. CASE ClientEvent
  BY <1>16 DEF ClientEvent
<1>17. CASE ReadIrq
  BY <1>17 DEF ReadIrq
<1>18. CASE ReadA2RTail
  BY <1>18 DEF ReadA2RTail
<1>19. CASE ReadR2AHead
  BY <1>19 DEF ReadR2AHead
<1>20. CASE ReceiveA2R
  BY <1>20 DEF ReceiveA2R
<1>21. CASE A2RReceived
  BY <1>21 DEF A2RReceived
<1>22. CASE FlushPacket
  BY <1>22 DEF FlushPacket
<1>23. CASE Flushed
  BY <1>23 DEF Flushed
<1>24. ASSUME NEW s \in stores, StoreVisible(s) PROVE Disabled'
  BY <1>24 DEF StoreVisible
<1>25. CASE PostEvents
  BY <1>25 DEF PostEvents
<1>26. CASE UNCHANGED vars
  BY <1>26 DEF vars
<1>27. QED
  BY <1>1, <1>2, <1>3, <1>4, <1>5, <1>6, <1>7, <1>8, <1>9, <1>10, <1>11, <1>12, <1>13, <1>14,
     <1>15, <1>16, <1>17, <1>18, <1>19, <1>20, <1>21, <1>22, <1>23, <1>24, <1>25, <1>26
     DEF Next, DriverStep, IrqStep

\* What comes after the driver's last look is announced.
LEMMA CoveredKept == ASSUME WakeInv, [Next]_vars PROVE Covered'
<1> USE DEF Covered, R2ASeen, RoomSeen, Posted, comArea, locals, amiga, pi, history
<1>1. CASE AppSend
  BY <1>1 DEF AppSend, WakeInv, RoomForHead, room_in_a2r, used_in_a2r, used_in_r2a
<1>2. CASE AppRead
  BY <1>2 DEF AppRead, WakeInv, RoomForHead, room_in_a2r, used_in_a2r, used_in_r2a
<1>3. CASE WaitReturns
  BY <1>3 DEF WaitReturns, WakeInv, Disabled, RoomForHead, room_in_a2r, used_in_a2r, used_in_r2a
<1>4. CASE handle_app_request
  BY <1>4 DEF handle_app_request, WakeInv, RoomForHead, room_in_a2r, used_in_a2r, used_in_r2a
<1>5. CASE NoMoreRequests
  BY <1>5 DEF NoMoreRequests, WakeInv, RoomForHead, room_in_a2r, used_in_a2r, used_in_r2a
<1>6. CASE ReceiveR2A
  BY <1>6 DEF ReceiveR2A, WakeInv, RoomForHead, room_in_a2r, used_in_a2r, used_in_r2a
<1>7. CASE R2AEmptied
  BY <1>7 DEF R2AEmptied, WakeInv, RoomForHead, room_in_a2r, used_in_a2r, used_in_r2a
<1>8. CASE SendQueued
  BY <1>8 DEF SendQueued, WakeInv, RoomForHead, room_in_a2r, used_in_a2r, used_in_r2a
<1>9. CASE NothingToSend
  BY <1>9 DEF NothingToSend, WakeInv, RoomForHead, room_in_a2r, used_in_a2r, used_in_r2a
<1>10. CASE DiscardEvents
  BY <1>10 DEF DiscardEvents, WakeInv, RoomForHead, room_in_a2r, used_in_a2r, used_in_r2a
<1>11. CASE CheckR2A
  BY <1>11 DEF CheckR2A, WakeInv, Disabled, RoomForHead, room_in_a2r, used_in_a2r, used_in_r2a
<1>12. CASE CheckRoom
  BY <1>12 DEF CheckRoom, WakeInv, RoomForHead, room_in_a2r, used_in_a2r, used_in_r2a
<1>13. CASE Enable
  BY <1>13 DEF Enable, WakeInv, Disabled, RoomForHead, room_in_a2r, used_in_a2r, used_in_r2a
<1>14. CASE Notify
  BY <1>14 DEF Notify, WakeInv, RoomForHead, room_in_a2r, used_in_a2r, used_in_r2a
<1>15. CASE IntServer
  BY <1>15 DEF IntServer, LookedAt, AEvents, WakeInv, Disabled, RoomForHead, room_in_a2r, used_in_a2r, used_in_r2a
<1>16. CASE ClientEvent
  BY <1>16 DEF ClientEvent, WakeInv, RoomForHead, room_in_a2r, used_in_a2r, used_in_r2a
<1>17. CASE ReadIrq
  BY <1>17 DEF ReadIrq, WakeInv, RoomForHead, room_in_a2r, used_in_a2r, used_in_r2a
<1>18. CASE ReadA2RTail
  BY <1>18 DEF ReadA2RTail, WakeInv, RoomForHead, room_in_a2r, used_in_a2r, used_in_r2a
<1>19. CASE ReadR2AHead
  BY <1>19 DEF ReadR2AHead, WakeInv, RoomForHead, room_in_a2r, used_in_a2r, used_in_r2a
<1>20. CASE ReceiveA2R
  BY <1>20 DEF ReceiveA2R, WakeInv, RoomForHead, room_in_a2r, used_in_a2r, used_in_r2a
<1>21. CASE A2RReceived
  BY <1>21 DEF A2RReceived, WakeInv, RoomForHead, room_in_a2r, used_in_a2r, used_in_r2a
<1>22. CASE FlushPacket
  BY <1>22 DEF FlushPacket, WakeInv, RoomForHead, room_in_a2r, used_in_a2r, used_in_r2a
<1>23. CASE Flushed
  BY <1>23 DEF Flushed, WakeInv, RoomForHead, room_in_a2r, used_in_a2r, used_in_r2a
<1>24. ASSUME NEW s \in stores, StoreVisible(s) PROVE Covered'
  BY <1>24 DEF StoreVisible, WakeInv, PiOwes, Behind, Level, RoomForHead, room_in_a2r, used_in_a2r, used_in_r2a
<1>25. CASE PostEvents
  BY <1>25 DEF PostEvents, WakeInv, RoomForHead, room_in_a2r, used_in_a2r, used_in_r2a
<1>26. CASE UNCHANGED vars
  BY <1>26 DEF vars, WakeInv, RoomForHead, room_in_a2r, used_in_a2r, used_in_r2a
<1>27. QED
  BY <1>1, <1>2, <1>3, <1>4, <1>5, <1>6, <1>7, <1>8, <1>9, <1>10, <1>11, <1>12, <1>13, <1>14,
     <1>15, <1>16, <1>17, <1>18, <1>19, <1>20, <1>21, <1>22, <1>23, <1>24, <1>25, <1>26
     DEF Next, DriverStep, IrqStep

LEMMA WakeKept == WakeInv /\ [Next]_vars => WakeInv'
<1> SUFFICES ASSUME WakeInv, [Next]_vars PROVE WakeInv'
  OBVIOUS
<1>1. Forms /\ PiOwes /\ Disabled
  BY DEF WakeInv
<1>2. QED
  BY <1>1, FormsKept, OwesKept, DisabledKept, CoveredKept DEF WakeInv

\* A driver that waits without a signal has not been interrupted.
LEMMA WakeAnnounced == WakeInv => EventPending
<1> SUFFICES ASSUME WakeInv, Asleep PROVE
      /\ used_in_r2a # 0 => Announced("R2A_TAIL") \/ "R2A_TAIL" \in missed
      /\ send_queue # <<>> /\ room_in_a2r(Head(send_queue)) =>
           Announced("A2R_HEAD") \/ "A2R_HEAD" \in missed
  BY DEF EventPending
<1>1. R2ASeen /\ RoomSeen /\ "R2A_TAIL" \in a_enable /\ (send_queue # <<>> => "A2R_HEAD" \in a_enable)
  BY DEF WakeInv, Covered, Asleep
<1>2. QED
  BY <1>1 DEF R2ASeen, RoomSeen, RoomForHead, Posted, Announced

(***************************************************************************)
(* Whatever devices interrupt and however stores become visible, a driver  *)
(* that sleeps over a packet in R2A, or over room for its queue, has an    *)
(* enabled event set or about to be, or one that IntServer read too early  *)
(* (task_main, a314driver.c:466-509; int_server.asm:14; the events of      *)
(* write_channel_status, a314.cc:1085).                                    *)
(***************************************************************************)
THEOREM NoLostWakeup == Spec => []EventPending
<1>1. WakeInv /\ [Next]_vars => WakeInv'
  BY WakeKept
<1>2. QED
  BY <1>1, InitWake, WakeAnnounced, PTL DEF Spec

-----------------------------------------------------------------------------
(* Types. *)

\* A packet of either stream is at least a byte long and shorter than the ring.
LEMMA LenInType ==
  /\ \A k \in A2RPackets : LenIn(A2ROff, k) \in 1..(RingSize - 1)
  /\ \A k \in R2APackets : LenIn(R2AOff, k) \in 1..(RingSize - 1)
<1> USE RingAssumption, StreamAssumption DEF A2RPackets, R2APackets
<1>1. ASSUME NEW off, NEW n \in Nat, IsStream(off, n), NEW k \in 1..n
      PROVE  LenIn(off, k) \in 1..(RingSize - 1)
  <2>1. off[k] - off[k - 1] \in HeaderSize..(RingSize - 1)
    BY <1>1 DEF IsStream
  <2>2. QED
    BY <2>1 DEF LenIn
<1>2. QED
  BY <1>1

\* Whatever a ring holds, a reader moves on by less than the ring.
LEMMA LenAtType ==
  ASSUME NEW i \in Index
  PROVE  /\ a2r_buffer \in [Index -> {0} \union A2RPackets]
              => LenAt(a2r_buffer, A2ROff, i) \in 1..(RingSize - 1)
         /\ r2a_buffer \in [Index -> {0} \union R2APackets]
              => LenAt(r2a_buffer, R2AOff, i) \in 1..(RingSize - 1)
  BY LenInType, RingAssumption, StreamAssumption DEF LenAt, A2RPackets, R2APackets

LEMMA WrapType ==
  ASSUME NEW i \in Index, NEW n \in 1..(RingSize - 1)
  PROVE  Wrap(i + n) \in Index
  BY RingAssumption DEF Wrap, Index

LEMMA PutType ==
  ASSUME NEW S, NEW buf \in [Index -> S], NEW i, NEW k \in S, NEW n
  PROVE  Put(buf, i, k, n) \in [Index -> S]
  BY DEF Put

LEMMA InitTypeOK == Init => TypeOK
<1> SUFFICES ASSUME Init PROVE TypeOK
  OBVIOUS
<1> USE RingAssumption, StreamAssumption DEF A2RPackets, R2APackets
<1>1. a2r_buffer \in [Index -> {0} \union A2RPackets] /\ r2a_buffer \in [Index -> {0} \union R2APackets]
  BY DEF Init
<1>2. QED
  BY <1>1 DEF Init, TypeOK, Index, AEvents, REvents

\* The type invariant is inductive.
LEMMA StepTypeOK == TypeOK /\ [Next]_vars => TypeOK'
<1> SUFFICES ASSUME TypeOK, [Next]_vars PROVE TypeOK'
  OBVIOUS
<1> USE RingAssumption, StreamAssumption DEF A2RPackets, R2APackets
<1> USE DEF TypeOK, AEvents, REvents
<1> USE DEF comArea, locals, amiga, pi, history
<1>1. CASE AppSend
  BY <1>1 DEF AppSend
<1>2. CASE AppRead
  BY <1>2 DEF AppRead
<1>3. CASE WaitReturns
  BY <1>3 DEF WaitReturns
<1>4. ASSUME NEW k \in A2RPackets, append_a2r_packet(k)
      PROVE  /\ a2r_buffer' \in [Index -> {0} \union A2RPackets] /\ a2r_tail' \in Index
             /\ moved' \subseteq REvents
  <2>1. Put(a2r_buffer, a2r_tail, k, LenIn(A2ROff, k)) \in [Index -> {0} \union A2RPackets]
    BY PutType
  <2>2. Wrap(a2r_tail + LenIn(A2ROff, k)) \in Index
    BY LenInType, WrapType
  <2>3. QED
    BY <1>4, <2>1, <2>2 DEF append_a2r_packet
<1>5. CASE handle_app_request
  <2> DEFINE k == Head(task_mp)
  <2>1. k \in {0} \union A2RPackets /\ task_mp' \in Seq({0} \union A2RPackets)
    BY <1>5 DEF handle_app_request
  <2>2. /\ a2r_buffer' \in [Index -> {0} \union A2RPackets] /\ a2r_tail' \in Index
        /\ send_queue' \in Seq(A2RPackets) /\ moved' \subseteq REvents
    <3>1. CASE k = 0
      BY <1>5, <3>1 DEF handle_app_request
    <3>2. CASE k # 0 /\ send_queue = <<>> /\ room_in_a2r(k)
      BY <1>4, <1>5, <2>1, <3>2 DEF handle_app_request
    <3>3. CASE k # 0 /\ ~(send_queue = <<>> /\ room_in_a2r(k))
      <4>1. k \in A2RPackets
        BY <2>1, <3>3
      <4>2. send_queue' = Append(send_queue, k) /\ UNCHANGED <<a2r_buffer, a2r_tail, moved>>
        BY <1>5, <3>3 DEF handle_app_request
      <4>3. QED
        BY <4>1, <4>2
    <3>4. QED
      BY <3>1, <3>2, <3>3
  <2>3. QED
    BY <1>5, <2>1, <2>2 DEF handle_app_request
<1>6. CASE NoMoreRequests
  BY <1>6 DEF NoMoreRequests
<1>7. CASE ReceiveR2A
  <2>1. ReadAt(r2a_buffer, R2AOff, r2a_head) \in {0} \union R2APackets
    BY DEF ReadAt
  <2>2. Wrap(r2a_head + LenAt(r2a_buffer, R2AOff, r2a_head)) \in Index
    <3>1. LenAt(r2a_buffer, R2AOff, r2a_head) \in 1..(RingSize - 1)
      BY LenAtType
    <3>2. QED
      BY <3>1, WrapType
  <2>3. QED
    BY <1>7, <2>1, <2>2 DEF ReceiveR2A
<1>8. CASE R2AEmptied
  BY <1>8 DEF R2AEmptied
<1>9. CASE SendQueued
  <2>1. Head(send_queue) \in A2RPackets /\ send_queue' \in Seq(A2RPackets)
    BY <1>9 DEF SendQueued
  <2>2. /\ a2r_buffer' \in [Index -> {0} \union A2RPackets] /\ a2r_tail' \in Index
        /\ moved' \subseteq REvents
    BY <1>4, <1>9, <2>1 DEF SendQueued
  <2>3. QED
    BY <1>9, <2>1, <2>2 DEF SendQueued
<1>10. CASE NothingToSend
  BY <1>10 DEF NothingToSend
<1>11. CASE DiscardEvents
  BY <1>11 DEF DiscardEvents
<1>12. CASE CheckR2A
  BY <1>12 DEF CheckR2A
<1>13. CASE CheckRoom
  BY <1>13 DEF CheckRoom
<1>14. CASE Enable
  BY <1>14 DEF Enable
<1>15. CASE Notify
  <2>1. r_events \in SUBSET REvents
    OBVIOUS
  <2>2. Append(irq, r_events) \in Seq(SUBSET REvents)
    BY <2>1
  <2>3. QED
    BY <1>15, <2>2 DEF Notify
<1>16. CASE IntServer
  BY <1>16 DEF IntServer
<1>17. CASE ReadIrq
  BY <1>17 DEF ReadIrq
<1>18. CASE ReadA2RTail
  BY <1>18 DEF ReadA2RTail
<1>19. CASE ReadR2AHead
  BY <1>19 DEF ReadR2AHead
<1>20. CASE ReceiveA2R
  <2> DEFINE i == channel_status.A2R_HEAD
  <2>1. ReadAt(a2r_buffer, A2ROff, i) \in {0} \union A2RPackets
    BY DEF ReadAt
  <2>2. Wrap(i + LenAt(a2r_buffer, A2ROff, i)) \in Index
    <3>1. LenAt(a2r_buffer, A2ROff, i) \in 1..(RingSize - 1)
      BY LenAtType
    <3>2. QED
      BY <3>1, WrapType
  <2>3. channel_status' \in [{"A2R_TAIL", "R2A_HEAD", "R2A_TAIL", "A2R_HEAD"} -> Index]
    BY <1>20, <2>2 DEF ReceiveA2R
  <2>4. piGot' \in Seq({0} \union A2RPackets)
    BY <1>20, <2>1 DEF ReceiveA2R
  <2>5. QED
    BY <1>20, <2>3, <2>4 DEF ReceiveA2R
<1>21. CASE A2RReceived
  BY <1>21 DEF A2RReceived
<1>22. CASE ClientEvent
  BY <1>22 DEF ClientEvent
<1>23. CASE FlushPacket
  <2> DEFINE k == Head(pi_queue)
             t == channel_status.R2A_TAIL
  <2>1. k \in R2APackets /\ pi_queue' \in Seq(R2APackets)
    BY <1>23 DEF FlushPacket
  <2>2. Wrap(t + LenIn(R2AOff, k)) \in Index
    BY <2>1, LenInType, WrapType
  <2>3. channel_status' \in [{"A2R_TAIL", "R2A_HEAD", "R2A_TAIL", "A2R_HEAD"} -> Index]
    BY <1>23, <2>2 DEF FlushPacket
  <2>4. send_buf' \subseteq [packet : R2APackets, at : Index]
    BY <1>23, <2>1 DEF FlushPacket
  <2>5. QED
    BY <1>23, <2>1, <2>3, <2>4 DEF FlushPacket
<1>24. CASE Flushed
  BY <1>24 DEF Flushed
<1>25. ASSUME NEW s \in stores, StoreVisible(s) PROVE TypeOK'
  <2>1. Copied(r2a_buffer) \in [Index -> {0} \union R2APackets]
    <3>1. ASSUME NEW j \in Index, \E p \in send_buf : Dist(j, p.at) < LenIn(R2AOff, p.packet)
          PROVE  (CHOOSE p \in send_buf : Dist(j, p.at) < LenIn(R2AOff, p.packet)).packet \in R2APackets
      BY <3>1
    <3>2. QED
      BY <3>1 DEF Copied
  <2>2. r2a_buffer' \in [Index -> {0} \union R2APackets]
    BY <1>25, <2>1 DEF StoreVisible
  <2>3. QED
    BY <1>25, <2>2 DEF StoreVisible
<1>26. CASE PostEvents
  BY <1>26 DEF PostEvents
<1>27. CASE UNCHANGED vars
  BY <1>27 DEF vars
<1>28. QED
  BY <1>1, <1>2, <1>3, <1>5, <1>6, <1>7, <1>8, <1>9, <1>10, <1>11, <1>12, <1>13, <1>14, <1>15,
     <1>16, <1>17, <1>18, <1>19, <1>20, <1>21, <1>22, <1>23, <1>24, <1>25, <1>26, <1>27
     DEF Next, DriverStep, IrqStep

(***************************************************************************)
(* Every index stays inside its ring and every queue holds packets that    *)
(* were handed over, for all values of the constants, even when stores     *)
(* become visible out of order and a reader finds bytes that are stale.    *)
(***************************************************************************)
THEOREM TypeCorrect == Spec => []TypeOK
  BY InitTypeOK, StepTypeOK, PTL DEF Spec

-----------------------------------------------------------------------------
(***************************************************************************)
(* The two rings of A314Link, for every ring size, packet stream and       *)
(* capacity: packets are read as they were handed over, whole, once and in *)
(* order; the driver's moves are announced; nothing is left behind when    *)
(* both sides sleep.                                                       *)
(*                                                                         *)
(* The proofs unroll a ring into the stream of all bytes that ever go      *)
(* through it: byte x lies at index x % RingSize, packet k takes the bytes *)
(* from off[k - 1] on, and an index stands for a number of packets.  Every *)
(* index lies between the two that say what is read and what is stored,    *)
(* which are less than a ring apart, and every packet between these two    *)
(* lies intact in the buffer.                                              *)
(***************************************************************************)

-----------------------------------------------------------------------------
(* Indices of the ring and the unrolled stream. *)

\* Byte x of the unrolled stream lies at index i.
At(i, x) == i \in Index /\ \E m \in Nat : x = m * RingSize + i

LEMMA SizeType == RingSize \in Nat /\ RingSize > 0
  BY RingAssumption

LEMMA TurnsApart ==
  ASSUME NEW m \in Nat, NEW n \in Nat, n > m
  PROVE  n * RingSize >= m * RingSize + RingSize
<1>1. PICK d \in Nat : n = m + 1 + d
  <2>1. n - m - 1 \in Nat /\ n = m + 1 + (n - m - 1)
    OBVIOUS
  <2>2. QED
    BY <2>1
<1>2. n * RingSize = m * RingSize + RingSize + d * RingSize
  BY <1>1, SizeType
<1>3. d * RingSize >= 0
  BY SizeType
<1>4. m * RingSize \in Int /\ d * RingSize \in Int
  BY SizeType
<1>5. QED
  BY <1>2, <1>3, <1>4, SizeType

LEMMA AtForward ==
  ASSUME NEW x \in Nat, NEW i, At(i, x), NEW n \in 0..(RingSize - 1)
  PROVE  At(Wrap(i + n), x + n)
<1>1. PICK m \in Nat : x = m * RingSize + i
  BY DEF At
<1>2. i \in 0..(RingSize - 1)
  BY DEF At, Index
<1>3. m * RingSize \in Nat /\ (m + 1) * RingSize = m * RingSize + RingSize
  BY SizeType
<1>4. CASE i + n >= RingSize
  <2>1. Wrap(i + n) = i + n - RingSize
    BY <1>2, <1>4, SizeType DEF Wrap
  <2>2. x + n = (m + 1) * RingSize + (i + n - RingSize)
    BY <1>1, <1>2, <1>3, SizeType
  <2>3. i + n - RingSize \in Index
    BY <1>2, <1>4, SizeType DEF Index
  <2>4. QED
    BY <2>1, <2>2, <2>3 DEF At
<1>5. CASE i + n < RingSize
  <2>1. Wrap(i + n) = i + n
    BY <1>5, <1>2, SizeType DEF Wrap
  <2>2. x + n = m * RingSize + (i + n)
    BY <1>1, <1>2, <1>3, SizeType
  <2>3. i + n \in Index
    BY <1>2, <1>5, SizeType DEF Index
  <2>4. QED
    BY <2>1, <2>2, <2>3 DEF At
<1>6. QED
  BY <1>2, <1>4, <1>5, SizeType

LEMMA AtDist ==
  ASSUME NEW x \in Nat, NEW y \in Nat, NEW i, NEW j, At(i, x), At(j, y),
         x <= y, y - x < RingSize
  PROVE  Dist(j, i) = y - x
<1>1. PICK m \in Nat : x = m * RingSize + i
  BY DEF At
<1>2. PICK n \in Nat : y = n * RingSize + j
  BY DEF At
<1>3. i \in 0..(RingSize - 1) /\ j \in 0..(RingSize - 1)
  BY DEF At, Index
<1> DEFINE a == m * RingSize
           b == n * RingSize
<1>4. a \in Nat /\ b \in Nat
  BY SizeType
<1>5. x = a + i /\ y = b + j
  BY <1>1, <1>2
<1> HIDE DEF a, b
<1>6. CASE n = m
  <2>1. a = b
    BY <1>6 DEF a, b
  <2>2. j >= i /\ y - x = j - i
    BY <2>1, <1>3, <1>4, <1>5, SizeType
  <2>3. QED
    BY <2>2, <1>3 DEF Dist
<1>7. CASE n = m + 1
  <2>1. b = a + RingSize
    BY <1>7, SizeType DEF a, b
  <2>2. y - x = RingSize + j - i
    BY <2>1, <1>3, <1>4, <1>5, SizeType
  <2>3. j < i
    BY <2>2, <1>3, SizeType
  <2>4. QED
    BY <2>2, <2>3, <1>3, SizeType DEF Dist
<1>8. CASE n > m + 1
  <2>1. b >= a + RingSize + RingSize
    <3>1. n * RingSize >= (m + 1) * RingSize + RingSize
      BY <1>8, TurnsApart
    <3>2. QED
      BY <3>1, SizeType DEF a, b
  <2>2. QED
    BY <2>1, <1>3, <1>4, <1>5, SizeType
<1>9. CASE n < m
  <2>1. a >= b + RingSize
    BY <1>9, TurnsApart DEF a, b
  <2>2. QED
    BY <2>1, <1>3, <1>4, <1>5, SizeType
<1>10. QED
  BY <1>6, <1>7, <1>8, <1>9

LEMMA AtReach ==
  ASSUME NEW x \in Nat, NEW i, At(i, x), NEW j \in Index
  PROVE  Dist(j, i) \in 0..(RingSize - 1) /\ At(j, x + Dist(j, i))
<1>1. i \in 0..(RingSize - 1) /\ j \in 0..(RingSize - 1)
  BY DEF At, Index
<1>2. Dist(j, i) \in 0..(RingSize - 1)
  BY <1>1, SizeType DEF Dist
<1>3. Wrap(i + Dist(j, i)) = j
  BY <1>1, SizeType DEF Dist, Wrap
<1>4. QED
  BY <1>2, <1>3, AtForward

LEMMA AtOnce ==
  ASSUME NEW x \in Nat, NEW y \in Nat, NEW i, At(i, x), At(i, y), x <= y, y - x < RingSize
  PROVE  x = y
<1>1. y - x = Dist(i, i)
  BY AtDist
<1>2. i \in 0..(RingSize - 1)
  BY DEF At, Index
<1>3. Dist(i, i) = 0
  BY <1>2 DEF Dist
<1>4. QED
  BY <1>1, <1>3

LEMMA AtOneIndex ==
  ASSUME NEW x \in Nat, NEW i, NEW j, At(i, x), At(j, x)
  PROVE  i = j
<1>1. Dist(j, i) = 0
  <2>1. x <= x /\ x - x < RingSize /\ x - x = 0
    BY SizeType
  <2>2. QED
    BY <2>1, AtDist
<1>2. i \in 0..(RingSize - 1) /\ j \in 0..(RingSize - 1)
  BY DEF At, Index
<1>3. QED
  BY <1>1, <1>2, SizeType DEF Dist

LEMMA OffsetsGrow ==
  ASSUME NEW n \in Nat, NEW off, IsStream(off, n)
  PROVE  \A j, k \in 0..n : j < k => off[j] < off[k]
<1> DEFINE R == OpToRel(<, Nat)
<1>1. \A k \in 1..n : off[k] > off[k - 1] /\ off[k - 1] \in Nat /\ off[k] \in Nat
  <2> SUFFICES ASSUME NEW k \in 1..n
               PROVE  off[k] > off[k - 1] /\ off[k - 1] \in Nat /\ off[k] \in Nat
    OBVIOUS
  <2>1. k \in 0..n /\ k - 1 \in 0..n
    OBVIOUS
  <2>2. off[k] \in Nat /\ off[k - 1] \in Nat
    BY <2>1 DEF IsStream
  <2>3. off[k] - off[k - 1] \in HeaderSize..(RingSize - 1)
    BY DEF IsStream
  <2>4. QED
    BY <2>2, <2>3, RingAssumption
<1> SUFFICES ASSUME NEW j \in 0..n, NEW k \in 0..n, j < k, ~(off[j] < off[k]) PROVE FALSE
  OBVIOUS
<1> DEFINE Bad == {m \in Nat : m \in 0..n /\ j < m /\ ~(off[j] < off[m])}
<1>2. Bad \subseteq Nat /\ Bad # {}
  <2>1. k \in Bad
    OBVIOUS
  <2>2. QED
    BY <2>1
<1>3. PICK m \in Bad : \A l \in Bad : ~(<<l, m>> \in R)
  <2>1. IsWellFoundedOn(R, Nat)
    BY NatLessThanWellFounded
  <2> HIDE DEF Bad, R
  <2>2. QED
    BY <1>2, <2>1, WFMin
<1>4. m - 1 \notin Bad
  <2>1. ASSUME m - 1 \in Bad PROVE FALSE
    <3>1. <<m - 1, m>> \in R
      BY <2>1 DEF OpToRel
    <3>2. QED
      BY <2>1, <3>1, <1>3
  <2>2. QED
    BY <2>1
<1>5. m \in 1..n
  OBVIOUS
<1>6. off[m] > off[m - 1] /\ off[m - 1] \in Nat /\ off[m] \in Nat
  BY <1>1, <1>5
<1>7. off[j] \in Nat
  BY DEF IsStream
<1>8. CASE m - 1 = j
  BY <1>6, <1>8
<1>9. CASE m - 1 # j
  <2>1. off[j] < off[m - 1]
    BY <1>4, <1>5, <1>9
  <2>2. QED
    BY <2>1, <1>6, <1>7
<1>10. QED
  BY <1>8, <1>9

-----------------------------------------------------------------------------
(* What the operators on a ring do to the packets in it. *)

\* Every byte of packet k of the stream is in its place.
Stored(buf, off, k) ==
  \A j \in Index : \A x \in off[k - 1]..(off[k] - 1) : At(j, x) => buf[j] = k

\* What a packet of a stream is to the arithmetic: two offsets less than a ring apart.
LEMMA PacketSpan ==
  ASSUME NEW n \in Nat, NEW off, IsStream(off, n), NEW k \in 1..n
  PROVE  /\ off[k - 1] \in Nat /\ off[k] \in Nat
         /\ LenIn(off, k) = off[k] - off[k - 1]
         /\ LenIn(off, k) \in 1..(RingSize - 1)
<1>1. k \in 0..n /\ k - 1 \in 0..n
  OBVIOUS
<1>2. off[k - 1] \in Nat /\ off[k] \in Nat
  BY <1>1 DEF IsStream
<1>3. off[k] - off[k - 1] \in HeaderSize..(RingSize - 1)
  BY DEF IsStream
<1>4. QED
  BY <1>2, <1>3, RingAssumption DEF LenIn

\* A reader that stands at a packet takes that packet whole, and moves to the next.
LEMMA ReadStored ==
  ASSUME NEW n \in Nat, NEW off, IsStream(off, n), NEW k \in 1..n,
         NEW buf, Stored(buf, off, k), NEW i, At(i, off[k - 1])
  PROVE  /\ ReadAt(buf, off, i) = k
         /\ At(Wrap(i + LenAt(buf, off, i)), off[k])
<1> DEFINE l == LenIn(off, k)
<1>1. /\ off[k - 1] \in Nat /\ off[k] \in Nat /\ off[k] = off[k - 1] + l
      /\ l \in 1..(RingSize - 1)
  <2>1. off[k - 1] \in Nat /\ off[k] \in Nat /\ l = off[k] - off[k - 1] /\ l \in 1..(RingSize - 1)
    BY PacketSpan
  <2> HIDE DEF l
  <2>2. QED
    BY <2>1, SizeType
<1> HIDE DEF l
<1>2. ASSUME NEW d \in 0..(l - 1) PROVE buf[Wrap(i + d)] = k
  <2>1. d \in 0..(RingSize - 1)
    BY <1>1, SizeType
  <2>2. At(Wrap(i + d), off[k - 1] + d)
    BY <1>1, <2>1, AtForward
  <2>3. off[k - 1] + d \in off[k - 1]..(off[k] - 1)
    BY <1>1
  <2>4. Wrap(i + d) \in Index
    BY <2>2 DEF At
  <2>5. QED
    BY <2>2, <2>3, <2>4 DEF Stored
<1>3. buf[i] = k
  <2>1. i \in Index
    BY DEF At
  <2>2. off[k - 1] \in off[k - 1]..(off[k] - 1)
    BY <1>1
  <2>3. QED
    BY <2>1, <2>2 DEF Stored
<1>4. LenAt(buf, off, i) = l
  BY <1>3 DEF LenAt, l
<1>5. ReadAt(buf, off, i) = k
  BY <1>2, <1>3, <1>4 DEF ReadAt
<1>6. At(Wrap(i + l), off[k - 1] + l)
  BY <1>1, AtForward, SizeType
<1>7. QED
  BY <1>1, <1>4, <1>5, <1>6

\* Index j belongs to packet k at index i, when a byte of k lies there.
LEMMA Covers ==
  ASSUME NEW n \in Nat, NEW off, IsStream(off, n), NEW k \in 1..n,
         NEW i, At(i, off[k - 1]), NEW j \in Index
  PROVE  Dist(j, i) < LenIn(off, k) <=> \E x \in off[k - 1]..(off[k] - 1) : At(j, x)
<1>1. /\ off[k - 1] \in Nat /\ off[k] \in Nat
      /\ LenIn(off, k) = off[k] - off[k - 1] /\ LenIn(off, k) \in 1..(RingSize - 1)
  BY PacketSpan
<1>2. Dist(j, i) \in 0..(RingSize - 1) /\ At(j, off[k - 1] + Dist(j, i))
  BY <1>1, AtReach
<1>3. ASSUME Dist(j, i) < LenIn(off, k) PROVE \E x \in off[k - 1]..(off[k] - 1) : At(j, x)
  <2>1. off[k - 1] + Dist(j, i) \in off[k - 1]..(off[k] - 1)
    BY <1>1, <1>2, <1>3
  <2>2. QED
    BY <1>2, <2>1
<1>4. ASSUME NEW x \in off[k - 1]..(off[k] - 1), At(j, x) PROVE Dist(j, i) < LenIn(off, k)
  <2>1. x \in Nat /\ off[k - 1] <= x /\ x - off[k - 1] < LenIn(off, k)
    BY <1>1
  <2>2. x - off[k - 1] < RingSize
    BY <1>1, <2>1, SizeType
  <2>3. Dist(j, i) = x - off[k - 1]
    BY <1>1, <1>4, <2>1, <2>2, AtDist
  <2>4. QED
    BY <2>1, <2>3
<1>5. QED
  BY <1>3, <1>4

(***************************************************************************)
(* Two packets that fit in the ring together have no byte at the same      *)
(* index.                                                                  *)
(***************************************************************************)
LEMMA Apart ==
  ASSUME NEW n \in Nat, NEW off, IsStream(off, n), NEW a \in 1..n, NEW b \in 1..n, a < b,
         off[b] - off[a - 1] < RingSize,
         NEW j, NEW x \in off[a - 1]..(off[a] - 1), At(j, x),
         NEW y \in off[b - 1]..(off[b] - 1), At(j, y)
  PROVE  FALSE
<1>1. off[a - 1] \in Nat /\ off[a] \in Nat /\ off[b - 1] \in Nat /\ off[b] \in Nat
  BY PacketSpan
<1>2. off[a] <= off[b - 1]
  <2>1. CASE a = b - 1
    BY <2>1, <1>1
  <2>2. CASE a < b - 1
    <3>1. a \in 0..n /\ b - 1 \in 0..n
      OBVIOUS
    <3>2. off[a] < off[b - 1]
      BY <2>2, <3>1, OffsetsGrow
    <3>3. QED
      BY <3>2, <1>1
  <2>3. QED
    BY <2>1, <2>2
<1>3. x \in Nat /\ y \in Nat /\ x < y /\ y - x < RingSize
  BY <1>1, <1>2, SizeType
<1>4. x <= y
  BY <1>3
<1>5. x = y
  BY <1>3, <1>4, AtOnce
<1>6. QED
  BY <1>3, <1>5

\* A packet that is put is in its place.
LEMMA PutStores ==
  ASSUME NEW n \in Nat, NEW off, IsStream(off, n), NEW k \in 1..n,
         NEW buf, NEW i, At(i, off[k - 1])
  PROVE  Stored(Put(buf, i, k, LenIn(off, k)), off, k)
<1> SUFFICES ASSUME NEW j \in Index, NEW x \in off[k - 1]..(off[k] - 1), At(j, x)
             PROVE  Put(buf, i, k, LenIn(off, k))[j] = k
  BY DEF Stored
<1>1. Dist(j, i) < LenIn(off, k)
  BY Covers
<1>2. QED
  BY <1>1 DEF Put

\* A packet that is put leaves the others alone as long as all fit in the ring.
LEMMA PutKeeps ==
  ASSUME NEW n \in Nat, NEW off, IsStream(off, n), NEW k \in 1..n, NEW l \in 1..n, l < k,
         off[k] - off[l - 1] < RingSize,
         NEW buf, Stored(buf, off, l), NEW i, At(i, off[k - 1])
  PROVE  Stored(Put(buf, i, k, LenIn(off, k)), off, l)
<1> SUFFICES ASSUME NEW j \in Index, NEW x \in off[l - 1]..(off[l] - 1), At(j, x)
             PROVE  Put(buf, i, k, LenIn(off, k))[j] = l
  BY DEF Stored
<1>1. ~(Dist(j, i) < LenIn(off, k))
  <2>1. SUFFICES ASSUME Dist(j, i) < LenIn(off, k) PROVE FALSE
    OBVIOUS
  <2>2. PICK y \in off[k - 1]..(off[k] - 1) : At(j, y)
    BY <2>1, Covers
  <2>3. QED
    BY <2>2, Apart
<1>2. buf[j] = l
  BY DEF Stored
<1>3. QED
  BY <1>1, <1>2 DEF Put

-----------------------------------------------------------------------------
(* R2A: the A314 thread stores packets and the driver reads them. *)

aRead == Len(aGot)
piFlushed == piSent - Len(pi_queue)

(***************************************************************************)
(* Packets up to seen are those the A314 thread knows to be read, up to    *)
(* aRead those the driver has read, up to tail those the driver sees, and  *)
(* up to piFlushed those the thread has put in send_buf.  What is not read *)
(* is in send_buf or in its place in the ring, and all of it fits.         *)
(***************************************************************************)
R2AIndices(seen, tail) ==
  /\ At(channel_status.R2A_HEAD, R2AOff[seen]) /\ At(r2a_head, R2AOff[aRead])
  /\ At(r2a_tail, R2AOff[tail]) /\ At(channel_status.R2A_TAIL, R2AOff[piFlushed])
R2AInCopy(tail) ==
  \A p \in send_buf : p.packet \in (tail + 1)..piFlushed /\ At(p.at, R2AOff[p.packet - 1])
R2AInRing ==
  \A k \in (aRead + 1)..piFlushed :
    (\E p \in send_buf : p.packet = k) \/ Stored(r2a_buffer, R2AOff, k)
R2AHolds(seen, tail) ==
  /\ seen \in 0..aRead /\ tail \in aRead..piFlushed
  /\ R2AIndices(seen, tail) /\ R2AInCopy(tail) /\ R2AInRing
  /\ R2AOff[piFlushed] - R2AOff[seen] < RingSize
R2ARing == \E seen, tail \in Nat : R2AHolds(seen, tail)

\* pi_queue holds the packets after those that are flushed.
PiQueue == \A n \in 1..Len(pi_queue) : pi_queue[n] = piFlushed + n

\* The copy to r2a_buffer is the first store of a round.
CopyFirst == piPc = "publish" => "buffer" \in stores \/ send_buf = {}

LEMMA R2AFacts ==
  ASSUME TypeOK
  PROVE  /\ R2ACount \in Nat /\ IsStream(R2AOff, R2ACount)
         /\ aRead \in Nat /\ Len(pi_queue) \in Nat /\ piSent \in 0..R2ACount
         /\ piFlushed \in Int /\ piFlushed <= piSent
         /\ DOMAIN channel_status = {"A2R_TAIL", "R2A_HEAD", "R2A_TAIL", "A2R_HEAD"}
<1>1. aGot \in Seq({0} \union R2APackets) /\ pi_queue \in Seq(R2APackets) /\ piSent \in 0..R2ACount
  BY DEF TypeOK
<1>2. Len(aGot) \in Nat /\ Len(pi_queue) \in Nat
  BY <1>1
<1>3. DOMAIN channel_status = {"A2R_TAIL", "R2A_HEAD", "R2A_TAIL", "A2R_HEAD"}
  BY DEF TypeOK
<1>4. QED
  BY <1>1, <1>2, <1>3, StreamAssumption DEF aRead, piFlushed

\* Offsets of packets that R2AHolds speaks of are in order.
LEMMA InOrder ==
  ASSUME NEW n \in Nat, NEW off, IsStream(off, n), NEW a \in 0..n, NEW b \in 0..n, a <= b
  PROVE  off[a] \in Nat /\ off[b] \in Nat /\ off[a] <= off[b]
<1>1. off[a] \in Nat /\ off[b] \in Nat
  BY DEF IsStream
<1>2. CASE a = b
  BY <1>1, <1>2
<1>3. CASE a < b
  <2>1. off[a] < off[b]
    BY <1>3, OffsetsGrow
  <2>2. QED
    BY <1>1, <2>1
<1>4. QED
  BY <1>2, <1>3

LEMMA R2AReceive ==
  ASSUME TypeOK, NEW seen, NEW tail, R2AHolds(seen, tail), ReceiveR2A
  PROVE  R2AHolds(seen, tail)' /\ aGot' = Append(aGot, aRead + 1)
<1> DEFINE k == aRead + 1
<1>1. seen \in 0..aRead /\ tail \in aRead..piFlushed /\ aRead \in Nat /\ piFlushed \in 0..R2ACount
  BY R2AFacts DEF R2AHolds
<1>2. r2a_head \in 0..(RingSize - 1)
  BY DEF TypeOK, Index
<1>3. aRead # tail
  <2>1. SUFFICES ASSUME aRead = tail PROVE FALSE
    OBVIOUS
  <2>2. R2AOff[tail] \in Nat
    BY <1>1, InOrder, R2AFacts
  <2>3. r2a_head = r2a_tail
    BY <2>1, <2>2, AtOneIndex DEF R2AHolds, R2AIndices
  <2>4. Dist(r2a_tail, r2a_head) = 0
    BY <1>2, <2>3 DEF Dist
  <2>5. QED
    BY <2>4 DEF ReceiveR2A, used_in_r2a
<1>4. k \in 1..R2ACount /\ k \in (aRead + 1)..piFlushed /\ k <= tail /\ k - 1 = aRead
  BY <1>1, <1>3, StreamAssumption
<1>5. Stored(r2a_buffer, R2AOff, k)
  <2>1. ~ \E p \in send_buf : p.packet = k
    BY <1>1, <1>4 DEF R2AHolds, R2AInCopy
  <2>2. QED
    BY <1>4, <2>1 DEF R2AHolds, R2AInRing
<1> HIDE DEF k
<1>6. /\ ReadAt(r2a_buffer, R2AOff, r2a_head) = k
      /\ At(Wrap(r2a_head + LenAt(r2a_buffer, R2AOff, r2a_head)), R2AOff[k])
  <2>1. At(r2a_head, R2AOff[k - 1])
    BY <1>4 DEF R2AHolds, R2AIndices
  <2>2. QED
    BY <1>4, <1>5, <2>1, ReadStored, R2AFacts
<1>7. aGot' = Append(aGot, k) /\ At(r2a_head', R2AOff[k])
  BY <1>6 DEF ReceiveR2A
<1>8. aRead' = k
  <2>1. aGot \in Seq({0} \union R2APackets)
    BY DEF TypeOK
  <2>2. QED
    BY <1>7, <2>1 DEF aRead, k
<1>9. UNCHANGED <<r2a_tail, r2a_buffer, channel_status, send_buf, piSent, pi_queue>>
  BY DEF ReceiveR2A, pi
<1>10. piFlushed' = piFlushed
  BY <1>9 DEF piFlushed
<1>11. R2AIndices(seen, tail)'
  BY <1>7, <1>8, <1>9, <1>10 DEF R2AHolds, R2AIndices
<1>12. R2AInCopy(tail)'
  BY <1>9, <1>10 DEF R2AHolds, R2AInCopy
<1>13. R2AInRing'
  BY <1>1, <1>8, <1>9, <1>10 DEF R2AHolds, R2AInRing, k
<1>14. seen \in 0..aRead' /\ tail \in aRead'..piFlushed'
  BY <1>1, <1>4, <1>8, <1>10 DEF k
<1>15. QED
  BY <1>7, <1>10, <1>11, <1>12, <1>13, <1>14 DEF R2AHolds, k

LEMMA R2AFlush ==
  ASSUME TypeOK, PiQueue, NEW seen, NEW tail, R2AHolds(seen, tail), FlushPacket
  PROVE  R2AHolds(seen, tail)' /\ PiQueue'
<1> DEFINE k == piFlushed + 1
           t == channel_status.R2A_TAIL
<1>1. /\ seen \in 0..aRead /\ tail \in aRead..piFlushed /\ aRead \in Nat
      /\ piFlushed \in 0..R2ACount /\ piSent \in 0..R2ACount
  BY R2AFacts DEF R2AHolds
<1>2. /\ pi_queue \in Seq(R2APackets) /\ pi_queue # <<>> /\ Len(pi_queue) \in Nat \ {0}
      /\ pi_queue' = Tail(pi_queue)
  BY DEF TypeOK, FlushPacket
<1>3. Head(pi_queue) = k
  <2>1. Head(pi_queue) = pi_queue[1] /\ 1 \in 1..Len(pi_queue)
    BY <1>2
  <2>2. QED
    BY <2>1 DEF PiQueue
<1>4. k \in 1..R2ACount /\ k - 1 = piFlushed
  BY <1>1, <1>2, StreamAssumption DEF piFlushed
<1>5. Len(pi_queue') = Len(pi_queue) - 1 /\ \A n \in 1..Len(pi_queue') : pi_queue'[n] = pi_queue[n + 1]
  BY <1>2
<1>6. piSent' = piSent
  BY DEF FlushPacket, history
<1>7. piFlushed' = k
  BY <1>1, <1>2, <1>5, <1>6 DEF piFlushed
<1>8. PiQueue'
  <2> SUFFICES ASSUME NEW n \in 1..Len(pi_queue') PROVE pi_queue'[n] = piFlushed' + n
    BY DEF PiQueue
  <2>1. n + 1 \in 1..Len(pi_queue)
    BY <1>2, <1>5
  <2>2. pi_queue[n + 1] = piFlushed + (n + 1)
    BY <2>1 DEF PiQueue
  <2>3. QED
    BY <1>1, <1>5, <1>7, <2>2
<1> HIDE DEF k
<1>9. /\ R2AOff[seen] \in Nat /\ R2AOff[piFlushed] \in Nat /\ R2AOff[k] \in Nat
      /\ R2AOff[seen] <= R2AOff[piFlushed]
      /\ R2AOff[k] = R2AOff[piFlushed] + LenIn(R2AOff, k) /\ LenIn(R2AOff, k) \in 1..(RingSize - 1)
  <2>1. R2AOff[seen] \in Nat /\ R2AOff[piFlushed] \in Nat /\ R2AOff[seen] <= R2AOff[piFlushed]
    BY <1>1, InOrder, R2AFacts
  <2>2. /\ R2AOff[k] \in Nat /\ LenIn(R2AOff, k) = R2AOff[k] - R2AOff[k - 1]
        /\ LenIn(R2AOff, k) \in 1..(RingSize - 1)
    BY <1>4, PacketSpan, R2AFacts
  <2>3. QED
    BY <1>4, <2>1, <2>2, SizeType
<1>10. At(t, R2AOff[piFlushed]) /\ At(channel_status.R2A_HEAD, R2AOff[seen])
       /\ R2AOff[piFlushed] - R2AOff[seen] < RingSize
  BY DEF R2AHolds, R2AIndices
<1>11. R2AOff[k] - R2AOff[seen] < RingSize
  <2>1. Dist(t, channel_status.R2A_HEAD) = R2AOff[piFlushed] - R2AOff[seen]
    BY <1>9, <1>10, AtDist
  <2>2. LenIn(R2AOff, k) <= RingSize - 1 - Dist(t, channel_status.R2A_HEAD)
    BY <1>3 DEF FlushPacket, Fits
  <2>3. QED
    BY <1>9, <2>1, <2>2, SizeType
<1>12. At(Wrap(t + LenIn(R2AOff, k)), R2AOff[k])
  <2>1. LenIn(R2AOff, k) \in 0..(RingSize - 1)
    BY <1>9, SizeType
  <2>2. QED
    BY <1>9, <1>10, <2>1, AtForward
<1>13. /\ channel_status'.R2A_HEAD = channel_status.R2A_HEAD
       /\ channel_status'.R2A_TAIL = Wrap(t + LenIn(R2AOff, k))
       /\ send_buf' = send_buf \union {[packet |-> k, at |-> t]}
       /\ UNCHANGED <<aGot, r2a_head, r2a_tail, r2a_buffer>>
  BY <1>3, R2AFacts DEF FlushPacket, comArea, history
<1>14. aRead' = aRead
  BY <1>13 DEF aRead
<1>15. R2AIndices(seen, tail)'
  BY <1>7, <1>12, <1>13, <1>14 DEF R2AHolds, R2AIndices
<1>16. R2AInCopy(tail)'
  <2> SUFFICES ASSUME NEW p \in send_buf'
               PROVE  p.packet \in (tail + 1)..piFlushed' /\ At(p.at, R2AOff[p.packet - 1])
    BY DEF R2AInCopy
  <2>1. CASE p \in send_buf
    <3>1. p.packet \in (tail + 1)..piFlushed /\ At(p.at, R2AOff[p.packet - 1])
      BY <2>1 DEF R2AHolds, R2AInCopy
    <3>2. QED
      BY <1>1, <1>7, <3>1 DEF k
  <2>2. CASE p = [packet |-> k, at |-> t]
    <3>1. p.packet = k /\ p.at = t
      BY <2>2
    <3>2. At(p.at, R2AOff[p.packet - 1])
      BY <1>4, <1>10, <3>1
    <3>3. QED
      BY <1>1, <1>7, <3>1, <3>2 DEF k
  <2>3. QED
    BY <1>13, <2>1, <2>2
<1>17. R2AInRing'
  <2> SUFFICES ASSUME NEW l \in (aRead' + 1)..piFlushed'
               PROVE  (\E p \in send_buf' : p.packet = l) \/ Stored(r2a_buffer', R2AOff, l)
    BY DEF R2AInRing
  <2>1. CASE l = k
    <3>1. [packet |-> k, at |-> t] \in send_buf' /\ [packet |-> k, at |-> t].packet = l
      BY <1>13, <2>1
    <3>2. QED
      BY <3>1
  <2>2. CASE l # k
    <3>1. l \in (aRead + 1)..piFlushed
      BY <1>1, <1>7, <1>14, <2>2 DEF k
    <3>2. QED
      BY <1>13, <3>1 DEF R2AHolds, R2AInRing
  <2>3. QED
    BY <2>1, <2>2
<1>18. seen \in 0..aRead' /\ tail \in aRead'..piFlushed'
  BY <1>1, <1>7, <1>14 DEF k
<1>19. QED
  BY <1>7, <1>8, <1>11, <1>15, <1>16, <1>17, <1>18 DEF R2AHolds

(***************************************************************************)
(* The copy of send_buf: all of its packets, and those that were in the    *)
(* ring, are in their places.                                              *)
(***************************************************************************)
LEMMA R2ACopied ==
  ASSUME TypeOK, NEW seen, NEW tail, R2AHolds(seen, tail), NEW k \in (aRead + 1)..piFlushed
  PROVE  Stored(Copied(r2a_buffer), R2AOff, k)
<1>1. /\ seen \in 0..aRead /\ tail \in aRead..piFlushed /\ aRead \in Nat
      /\ piFlushed \in 0..R2ACount /\ R2ACount \in Nat
  BY R2AFacts DEF R2AHolds
<1>2. ASSUME NEW p \in send_buf
      PROVE  /\ p.packet \in (aRead + 1)..piFlushed /\ p.packet \in 1..R2ACount
             /\ At(p.at, R2AOff[p.packet - 1])
  <2>1. p.packet \in (tail + 1)..piFlushed /\ At(p.at, R2AOff[p.packet - 1])
    BY DEF R2AHolds, R2AInCopy
  <2>2. QED
    BY <1>1, <2>1
<1>3. ASSUME NEW a \in (aRead + 1)..piFlushed, NEW b \in (aRead + 1)..piFlushed, a < b
      PROVE  R2AOff[b] - R2AOff[a - 1] < RingSize
  <2>1. seen \in 0..R2ACount /\ a - 1 \in 0..R2ACount /\ b \in 0..R2ACount /\ seen <= a - 1
    BY <1>1
  <2>2. R2AOff[seen] \in Nat /\ R2AOff[a - 1] \in Nat /\ R2AOff[seen] <= R2AOff[a - 1]
    BY <2>1, InOrder, R2AFacts
  <2>3. R2AOff[b] \in Nat /\ R2AOff[piFlushed] \in Nat /\ R2AOff[b] <= R2AOff[piFlushed]
    BY <1>1, <2>1, InOrder, R2AFacts
  <2>4. R2AOff[piFlushed] - R2AOff[seen] < RingSize
    BY DEF R2AHolds
  <2>5. QED
    BY <2>2, <2>3, <2>4, SizeType
<1> SUFFICES ASSUME NEW j \in Index, NEW x \in R2AOff[k - 1]..(R2AOff[k] - 1), At(j, x)
             PROVE  Copied(r2a_buffer)[j] = k
  BY DEF Stored
<1> DEFINE covers(p) == Dist(j, p.at) < LenIn(R2AOff, p.packet)
<1>4. ASSUME NEW p \in send_buf, covers(p) PROVE p.packet = k
  <2>1. /\ p.packet \in (aRead + 1)..piFlushed /\ p.packet \in 1..R2ACount
        /\ At(p.at, R2AOff[p.packet - 1])
    BY <1>2
  <2>2. PICK y \in R2AOff[p.packet - 1]..(R2AOff[p.packet] - 1) : At(j, y)
    BY <1>4, <2>1, Covers, R2AFacts
  <2>3. k \in 1..R2ACount
    BY <1>1
  <2>4. CASE p.packet < k
    BY <1>3, <2>1, <2>2, <2>3, <2>4, Apart, R2AFacts
  <2>5. CASE k < p.packet
    BY <1>3, <2>1, <2>2, <2>3, <2>5, Apart, R2AFacts
  <2>6. QED
    BY <1>1, <2>1, <2>4, <2>5
<1>5. CASE \E p \in send_buf : p.packet = k
  <2>1. PICK p \in send_buf : p.packet = k
    BY <1>5
  <2>2. k \in 1..R2ACount /\ At(p.at, R2AOff[k - 1])
    BY <1>2, <2>1
  <2>3. Dist(j, p.at) < LenIn(R2AOff, k)
    BY <2>2, Covers, R2AFacts
  <2>4. covers(p)
    BY <2>1, <2>3
  <2> DEFINE q == CHOOSE p_1 \in send_buf : covers(p_1)
  <2>5. q \in send_buf /\ covers(q)
    BY <2>4
  <2>6. q.packet = k
    BY <1>4, <2>5
  <2>7. \E p_1 \in send_buf : covers(p_1)
    BY <2>4
  <2>8. QED
    BY <2>6, <2>7 DEF Copied
<1>6. CASE ~ \E p \in send_buf : p.packet = k
  <2>1. ~ \E p \in send_buf : covers(p)
    BY <1>4, <1>6
  <2>2. r2a_buffer[j] = k
    BY <1>6 DEF R2AHolds, R2AInRing, Stored
  <2>3. QED
    BY <2>1, <2>2 DEF Copied
<1>7. QED
  BY <1>5, <1>6

LEMMA R2AStore ==
  ASSUME StoresInOrder, TypeOK, CopyFirst, NEW seen, NEW tail, R2AHolds(seen, tail),
         NEW s \in stores, StoreVisible(s)
  PROVE  R2AHolds(seen, IF s = "r2a_tail" THEN piFlushed ELSE tail)'
<1>1. /\ seen \in 0..aRead /\ tail \in aRead..piFlushed /\ aRead \in Nat
      /\ piFlushed \in 0..R2ACount
  BY R2AFacts DEF R2AHolds
<1>2. UNCHANGED <<aGot, r2a_head, channel_status, piSent, pi_queue>>
  BY DEF StoreVisible, history
<1>3. aRead' = aRead /\ piFlushed' = piFlushed
  BY <1>2 DEF aRead, piFlushed
<1>4. s \in {"buffer", "r2a_tail", "a2r_head"}
  BY DEF TypeOK
<1>5. CASE s = "buffer"
  <2>1. r2a_buffer' = Copied(r2a_buffer) /\ send_buf' = {} /\ r2a_tail' = r2a_tail
    BY <1>5 DEF StoreVisible
  <2>2. R2AIndices(seen, tail)'
    BY <1>2, <1>3, <2>1 DEF R2AHolds, R2AIndices
  <2>3. R2AInCopy(tail)'
    BY <2>1 DEF R2AInCopy
  <2>4. R2AInRing'
    BY <1>3, <2>1, R2ACopied DEF R2AInRing
  <2>5. QED
    BY <1>3, <1>5, <2>2, <2>3, <2>4 DEF R2AHolds
<1>6. CASE s = "r2a_tail"
  <2>1. r2a_buffer' = r2a_buffer /\ send_buf' = send_buf /\ r2a_tail' = channel_status.R2A_TAIL
    BY <1>6 DEF StoreVisible
  <2>2. send_buf = {}
    BY <1>6 DEF StoreVisible, Earlier, CopyFirst
  <2>3. R2AIndices(seen, piFlushed)'
    BY <1>2, <1>3, <2>1 DEF R2AHolds, R2AIndices
  <2>4. R2AInCopy(piFlushed)'
    BY <2>1, <2>2 DEF R2AInCopy
  <2>5. R2AInRing'
    BY <1>3, <2>1 DEF R2AHolds, R2AInRing
  <2>6. piFlushed \in aRead..piFlushed
    BY <1>1
  <2>7. R2AHolds(seen, piFlushed)'
    BY <1>3, <2>3, <2>4, <2>5, <2>6 DEF R2AHolds
  <2>8. QED
    BY <1>6, <2>7
<1>7. CASE s = "a2r_head"
  <2>1. r2a_buffer' = r2a_buffer /\ send_buf' = send_buf /\ r2a_tail' = r2a_tail
    BY <1>7 DEF StoreVisible
  <2>2. R2AIndices(seen, tail)' /\ R2AInCopy(tail)' /\ R2AInRing'
    BY <1>2, <1>3, <2>1 DEF R2AHolds, R2AIndices, R2AInCopy, R2AInRing
  <2>3. QED
    BY <1>3, <1>7, <2>2 DEF R2AHolds
<1>8. QED
  BY <1>4, <1>5, <1>6, <1>7

LEMMA R2ACopyStatus ==
  ASSUME TypeOK, PiOwes, NEW seen, NEW tail, R2AHolds(seen, tail), ReadR2AHead
  PROVE  R2AHolds(aRead, tail)'
<1>1. /\ seen \in 0..aRead /\ tail \in aRead..piFlushed /\ aRead \in Nat
      /\ piFlushed \in 0..R2ACount
  BY R2AFacts DEF R2AHolds
<1>2. /\ channel_status'.R2A_HEAD = r2a_head /\ channel_status'.R2A_TAIL = r2a_tail
      /\ UNCHANGED <<aGot, r2a_head, r2a_tail, r2a_buffer, send_buf, piSent, pi_queue>>
  BY R2AFacts DEF ReadR2AHead, comArea, history
<1>3. channel_status.R2A_TAIL = r2a_tail
  BY DEF PiOwes, Level, ReadR2AHead
<1>4. aRead' = aRead /\ piFlushed' = piFlushed
  BY <1>2 DEF aRead, piFlushed
<1>5. R2AIndices(aRead, tail)'
  BY <1>2, <1>3, <1>4 DEF R2AHolds, R2AIndices
<1>6. R2AInCopy(tail)' /\ R2AInRing'
  BY <1>2, <1>4 DEF R2AHolds, R2AInCopy, R2AInRing
<1>7. R2AOff[piFlushed] - R2AOff[aRead] < RingSize
  <2>1. seen \in 0..R2ACount /\ aRead \in 0..R2ACount /\ seen <= aRead
    BY <1>1, StreamAssumption
  <2>2. R2AOff[seen] \in Nat /\ R2AOff[aRead] \in Nat /\ R2AOff[seen] <= R2AOff[aRead]
    BY <2>1, InOrder, R2AFacts
  <2>3. R2AOff[piFlushed] \in Nat
    BY <1>1, InOrder, R2AFacts
  <2>4. R2AOff[piFlushed] - R2AOff[seen] < RingSize
    BY DEF R2AHolds
  <2>5. QED
    BY <2>2, <2>3, <2>4, SizeType
<1>8. aRead \in 0..aRead
  BY <1>1
<1>9. QED
  BY <1>1, <1>4, <1>5, <1>6, <1>7, <1>8 DEF R2AHolds

LEMMA R2AQueue ==
  ASSUME TypeOK, PiQueue, ClientEvent
  PROVE  PiQueue' /\ piFlushed' = piFlushed
<1>1. pi_queue \in Seq(R2APackets) /\ piSent \in Nat /\ Len(pi_queue) \in Nat
  BY R2AFacts DEF TypeOK
<1>2. piSent' = piSent + 1 /\ pi_queue' = Append(pi_queue, piSent + 1)
  BY DEF ClientEvent
<1>3. piSent + 1 \in R2APackets
  BY DEF ClientEvent
<1>4. /\ Len(pi_queue') = Len(pi_queue) + 1
      /\ \A n \in 1..Len(pi_queue) : pi_queue'[n] = pi_queue[n]
      /\ pi_queue'[Len(pi_queue) + 1] = piSent + 1
  BY <1>1, <1>2, <1>3
<1>5. piFlushed' = piFlushed
  BY <1>1, <1>2, <1>4 DEF piFlushed
<1>6. ASSUME NEW n \in 1..Len(pi_queue') PROVE pi_queue'[n] = piFlushed + n
  <2>1. CASE n = Len(pi_queue) + 1
    BY <1>1, <1>4, <2>1 DEF piFlushed
  <2>2. CASE n \in 1..Len(pi_queue)
    BY <1>4, <2>2 DEF PiQueue
  <2>3. QED
    BY <1>1, <1>4, <2>1, <2>2
<1>7. QED
  BY <1>5, <1>6 DEF PiQueue

\* A step that leaves R2A alone leaves its packets where they are.
LEMMA R2AFramed ==
  ASSUME NEW seen, NEW tail, R2AHolds(seen, tail),
         UNCHANGED <<aGot, r2a_head, r2a_tail, r2a_buffer, send_buf>>, piFlushed' = piFlushed,
         channel_status'.R2A_HEAD = channel_status.R2A_HEAD,
         channel_status'.R2A_TAIL = channel_status.R2A_TAIL
  PROVE  R2AHolds(seen, tail)'
<1>1. aRead' = aRead
  BY DEF aRead
<1>2. QED
  BY <1>1 DEF R2AHolds, R2AIndices, R2AInCopy, R2AInRing

LEMMA R2AKept ==
  ASSUME StoresInOrder, TypeOK, PiOwes, PiQueue, CopyFirst, R2ARing, [Next]_vars
  PROVE  R2ARing' /\ PiQueue'
<1> USE DEF comArea, locals, amiga, pi, history
<1>1. PICK seen \in Nat, tail \in Nat : R2AHolds(seen, tail)
  BY DEF R2ARing
<1>2. ASSUME UNCHANGED <<aGot, r2a_head, r2a_tail, r2a_buffer, channel_status, send_buf, piSent, pi_queue>>
      PROVE  R2ARing' /\ PiQueue'
  <2>1. piFlushed' = piFlushed
    BY <1>2 DEF piFlushed
  <2>2. R2AHolds(seen, tail)'
    BY <1>1, <1>2, <2>1, R2AFramed
  <2>3. QED
    BY <1>2, <2>1, <2>2 DEF R2ARing, PiQueue
<1>3. CASE ReceiveR2A
  <2>1. R2AHolds(seen, tail)'
    BY <1>1, <1>3, R2AReceive
  <2>2. PiQueue'
    BY <1>3 DEF ReceiveR2A, PiQueue, piFlushed
  <2>3. QED
    BY <2>1, <2>2 DEF R2ARing
<1>4. CASE ReadA2RTail \/ ReceiveA2R
  <2>1. /\ UNCHANGED <<aGot, r2a_head, r2a_tail, r2a_buffer, send_buf, piSent, pi_queue>>
        /\ channel_status'.R2A_HEAD = channel_status.R2A_HEAD
        /\ channel_status'.R2A_TAIL = channel_status.R2A_TAIL
    BY <1>4, R2AFacts DEF ReadA2RTail, ReceiveA2R
  <2>2. piFlushed' = piFlushed
    BY <2>1 DEF piFlushed
  <2>3. R2AHolds(seen, tail)'
    BY <1>1, <2>1, <2>2, R2AFramed
  <2>4. QED
    BY <2>1, <2>2, <2>3 DEF R2ARing, PiQueue
<1>5. CASE ReadR2AHead
  <2>1. R2AHolds(aRead, tail)' /\ aRead \in Nat
    BY <1>1, <1>5, R2ACopyStatus, R2AFacts
  <2>2. PiQueue'
    BY <1>5 DEF ReadR2AHead, PiQueue, piFlushed
  <2>3. aRead' = aRead
    BY <1>5 DEF ReadR2AHead, aRead
  <2>4. QED
    BY <2>1, <2>2, <2>3 DEF R2ARing
<1>6. CASE ClientEvent
  <2>1. PiQueue' /\ piFlushed' = piFlushed
    BY <1>6, R2AQueue
  <2>2. UNCHANGED <<aGot, r2a_head, r2a_tail, r2a_buffer, channel_status, send_buf>>
    BY <1>6 DEF ClientEvent
  <2>3. R2AHolds(seen, tail)'
    BY <1>1, <2>1, <2>2, R2AFramed
  <2>4. QED
    BY <2>1, <2>3 DEF R2ARing
<1>7. CASE FlushPacket
  BY <1>1, <1>7, R2AFlush DEF R2ARing
<1>8. ASSUME NEW s \in stores, StoreVisible(s) PROVE R2ARing' /\ PiQueue'
  <2>1. PiQueue' /\ piFlushed' = piFlushed
    BY <1>8 DEF StoreVisible, PiQueue, piFlushed
  <2>2. piFlushed \in Nat
    BY <1>1, R2AFacts DEF R2AHolds
  <2>3. CASE s = "r2a_tail"
    <3>1. R2AHolds(seen, piFlushed)'
      BY <1>1, <1>8, <2>3, R2AStore
    <3>2. QED
      BY <2>1, <2>2, <3>1 DEF R2ARing
  <2>4. CASE s # "r2a_tail"
    <3>1. R2AHolds(seen, tail)'
      BY <1>1, <1>8, <2>4, R2AStore
    <3>2. QED
      BY <2>1, <3>1 DEF R2ARing
  <2>5. QED
    BY <2>3, <2>4
<1>9. CASE AppSend
  BY <1>2, <1>9 DEF AppSend
<1>10. CASE AppRead
  BY <1>2, <1>10 DEF AppRead
<1>11. CASE WaitReturns
  BY <1>2, <1>11 DEF WaitReturns
<1>12. CASE handle_app_request
  BY <1>2, <1>12 DEF handle_app_request
<1>13. CASE NoMoreRequests
  BY <1>2, <1>13 DEF NoMoreRequests
<1>14. CASE R2AEmptied
  BY <1>2, <1>14 DEF R2AEmptied
<1>15. CASE SendQueued
  BY <1>2, <1>15 DEF SendQueued
<1>16. CASE NothingToSend
  BY <1>2, <1>16 DEF NothingToSend
<1>17. CASE DiscardEvents
  BY <1>2, <1>17 DEF DiscardEvents
<1>18. CASE CheckR2A
  BY <1>2, <1>18 DEF CheckR2A
<1>19. CASE CheckRoom
  BY <1>2, <1>19 DEF CheckRoom
<1>20. CASE Enable
  BY <1>2, <1>20 DEF Enable
<1>21. CASE Notify
  BY <1>2, <1>21 DEF Notify
<1>22. CASE IntServer
  BY <1>2, <1>22 DEF IntServer
<1>23. CASE ReadIrq
  BY <1>2, <1>23 DEF ReadIrq
<1>24. CASE A2RReceived
  BY <1>2, <1>24 DEF A2RReceived
<1>25. CASE Flushed
  BY <1>2, <1>25 DEF Flushed
<1>26. CASE PostEvents
  BY <1>2, <1>26 DEF PostEvents
<1>27. CASE UNCHANGED vars
  BY <1>2, <1>27 DEF vars
<1>28. QED
  BY <1>3, <1>4, <1>5, <1>6, <1>7, <1>8, <1>9, <1>10, <1>11, <1>12, <1>13, <1>14, <1>15, <1>16,
     <1>17, <1>18, <1>19, <1>20, <1>21, <1>22, <1>23, <1>24, <1>25, <1>26, <1>27
     DEF Next, DriverStep, IrqStep

-----------------------------------------------------------------------------
(* A2R: the driver stores packets and the A314 thread reads them. *)

piRead == Len(piGot)

(***************************************************************************)
(* Packets up to seen are those the driver knows to be read, up to piRead  *)
(* those the A314 thread has read, up to copied those of the tail it has   *)
(* copied, and up to stored those in the ring.                             *)
(***************************************************************************)
A2RIndices(seen, copied, stored) ==
  /\ At(a2r_head, A2ROff[seen]) /\ At(channel_status.A2R_HEAD, A2ROff[piRead])
  /\ At(channel_status.A2R_TAIL, A2ROff[copied]) /\ At(a2r_tail, A2ROff[stored])
A2RInRing(stored) == \A k \in (piRead + 1)..stored : Stored(a2r_buffer, A2ROff, k)
A2RHolds(seen, copied, stored) ==
  /\ seen \in 0..piRead /\ copied \in piRead..stored
  /\ A2RIndices(seen, copied, stored) /\ A2RInRing(stored)
  /\ A2ROff[stored] - A2ROff[seen] < RingSize

\* The packets after taken wait in the message port, in order, between requests that send none.
PortHolds(taken) ==
  /\ taken \in 0..aSent
  /\ \A n \in 1..Len(task_mp) : task_mp[n] # 0 => task_mp[n] \in (taken + 1)..aSent
  /\ \A k \in (taken + 1)..aSent : \E n \in 1..Len(task_mp) : task_mp[n] = k
  /\ \A m, n \in 1..Len(task_mp) :
       m < n /\ task_mp[m] # 0 /\ task_mp[n] # 0 => task_mp[m] < task_mp[n]
\* send_queue holds the packets after stored, and the message port those after them.
A2RWaits(stored) ==
  /\ \A n \in 1..Len(send_queue) : send_queue[n] = stored + n
  /\ PortHolds(stored + Len(send_queue))
A2RRing == \E seen, copied, stored \in Nat : A2RHolds(seen, copied, stored) /\ A2RWaits(stored)

LEMMA A2RFacts ==
  ASSUME TypeOK
  PROVE  /\ A2RCount \in Nat /\ IsStream(A2ROff, A2RCount)
         /\ piRead \in Nat /\ Len(send_queue) \in Nat /\ Len(task_mp) \in Nat
         /\ aSent \in 0..A2RCount
         /\ DOMAIN channel_status = {"A2R_TAIL", "R2A_HEAD", "R2A_TAIL", "A2R_HEAD"}
<1>1. /\ piGot \in Seq({0} \union A2RPackets) /\ send_queue \in Seq(A2RPackets)
      /\ task_mp \in Seq({0} \union A2RPackets) /\ aSent \in 0..A2RCount
  BY DEF TypeOK
<1>2. Len(piGot) \in Nat /\ Len(send_queue) \in Nat /\ Len(task_mp) \in Nat
  BY <1>1
<1>3. DOMAIN channel_status = {"A2R_TAIL", "R2A_HEAD", "R2A_TAIL", "A2R_HEAD"}
  BY DEF TypeOK
<1>4. QED
  BY <1>1, <1>2, <1>3, StreamAssumption DEF piRead

LEMMA A2RNumbers ==
  ASSUME TypeOK, NEW seen, NEW copied, NEW stored \in Nat,
         A2RHolds(seen, copied, stored), A2RWaits(stored)
  PROVE  /\ seen \in 0..piRead /\ piRead \in Nat /\ copied \in piRead..stored
         /\ stored + Len(send_queue) \in 0..aSent
         /\ stored \in 0..A2RCount /\ copied \in 0..A2RCount /\ piRead \in 0..A2RCount
         /\ seen \in 0..A2RCount
<1>1. /\ seen \in 0..piRead /\ copied \in piRead..stored
      /\ stored + Len(send_queue) \in 0..aSent
  BY DEF A2RHolds, A2RWaits, PortHolds
<1>2. piRead \in Nat /\ Len(send_queue) \in Nat /\ aSent \in 0..A2RCount /\ A2RCount \in Nat
  BY A2RFacts
<1>3. QED
  BY <1>1, <1>2

\* A packet that is appended when there is room takes nothing from the others.
LEMMA A2RAppend ==
  ASSUME TypeOK, NEW seen, NEW copied, NEW stored \in Nat, stored + 1 \in 1..A2RCount,
         A2RHolds(seen, copied, stored), room_in_a2r(stored + 1), append_a2r_packet(stored + 1),
         UNCHANGED <<a2r_head, channel_status, piGot>>
  PROVE  A2RHolds(seen, copied, stored + 1)'
<1> DEFINE k == stored + 1
<1>1. seen \in 0..piRead /\ piRead \in Nat /\ copied \in piRead..stored /\ k - 1 = stored
  BY A2RFacts DEF A2RHolds
<1>2. k \in 1..A2RCount /\ k \in 0..A2RCount /\ stored \in 0..A2RCount /\ seen \in 0..A2RCount /\ seen <= stored
  BY <1>1, StreamAssumption
<1>3. room_in_a2r(k) /\ append_a2r_packet(k) /\ k > stored
  OBVIOUS
<1> HIDE DEF k
<1>4. /\ A2ROff[k - 1] \in Nat /\ A2ROff[k] \in Nat
      /\ LenIn(A2ROff, k) = A2ROff[k] - A2ROff[k - 1] /\ LenIn(A2ROff, k) \in 1..(RingSize - 1)
  BY <1>2, PacketSpan, A2RFacts
<1>5. A2ROff[seen] \in Nat /\ A2ROff[stored] \in Nat /\ A2ROff[seen] <= A2ROff[stored]
  BY <1>2, InOrder, A2RFacts
<1>6. At(a2r_tail, A2ROff[k - 1]) /\ At(a2r_head, A2ROff[seen]) /\ A2ROff[stored] - A2ROff[seen] < RingSize
  BY <1>1 DEF A2RHolds, A2RIndices
<1>7. A2ROff[k] - A2ROff[seen] < RingSize
  <2>1. used_in_a2r = A2ROff[stored] - A2ROff[seen]
    BY <1>1, <1>5, <1>6, AtDist DEF used_in_a2r
  <2>2. used_in_a2r + LenIn(A2ROff, k) <= RingSize - 1
    BY <1>3 DEF room_in_a2r
  <2>3. QED
    BY <1>1, <1>4, <1>5, <2>1, <2>2, SizeType
<1>8. At(a2r_tail', A2ROff[k])
  <2>1. LenIn(A2ROff, k) \in 0..(RingSize - 1)
    BY <1>4, SizeType
  <2>2. At(Wrap(a2r_tail + LenIn(A2ROff, k)), A2ROff[k - 1] + LenIn(A2ROff, k))
    BY <1>4, <1>6, <2>1, AtForward
  <2>3. A2ROff[k - 1] + LenIn(A2ROff, k) = A2ROff[k]
    BY <1>4, SizeType
  <2>4. QED
    BY <1>3, <2>2, <2>3 DEF append_a2r_packet
<1>9. piRead' = piRead
  BY DEF piRead
<1>10. A2RIndices(seen, copied, k)'
  BY <1>8, <1>9 DEF A2RHolds, A2RIndices
<1>11. A2RInRing(k)'
  <2> SUFFICES ASSUME NEW l \in (piRead + 1)..k PROVE Stored(a2r_buffer', A2ROff, l)
    BY <1>9 DEF A2RInRing
  <2>1. a2r_buffer' = Put(a2r_buffer, a2r_tail, k, LenIn(A2ROff, k))
    BY <1>3 DEF append_a2r_packet
  <2>2. CASE l = k
    BY <1>2, <1>6, <2>1, <2>2, PutStores, A2RFacts
  <2>3. CASE l # k
    <3>1. l \in (piRead + 1)..stored /\ l \in 1..A2RCount /\ l < k /\ l - 1 \in 0..A2RCount /\ seen <= l - 1
      BY <1>1, <1>2, <2>3, StreamAssumption DEF k
    <3>2. Stored(a2r_buffer, A2ROff, l)
      BY <3>1 DEF A2RHolds, A2RInRing
    <3>3. A2ROff[l - 1] \in Nat /\ A2ROff[seen] <= A2ROff[l - 1]
      BY <1>2, <3>1, InOrder, A2RFacts
    <3>4. A2ROff[k] - A2ROff[l - 1] < RingSize
      BY <1>4, <1>5, <1>7, <3>3, SizeType
    <3>5. QED
      BY <1>2, <1>6, <2>1, <3>1, <3>2, <3>4, PutKeeps, A2RFacts
  <2>4. QED
    BY <2>2, <2>3
<1>12. seen \in 0..piRead' /\ copied \in piRead'..k
  BY <1>1, <1>9 DEF k
<1>13. QED
  BY <1>7, <1>10, <1>11, <1>12 DEF A2RHolds, k

\* A request that is taken from the port, and a packet that is the next.
LEMMA PortTake ==
  ASSUME TypeOK, NEW taken \in Nat, PortHolds(taken), task_mp # <<>>, task_mp' = Tail(task_mp), aSent' = aSent
  PROVE  /\ Head(task_mp) = 0 => PortHolds(taken)'
         /\ Head(task_mp) # 0 => Head(task_mp) = taken + 1 /\ PortHolds(taken + 1)'
<1> DEFINE k == Head(task_mp)
<1>1. /\ task_mp \in Seq({0} \union A2RPackets) /\ Len(task_mp) \in Nat \ {0}
      /\ k = task_mp[1] /\ 1 \in 1..Len(task_mp)
      /\ aSent \in Nat /\ \A n \in 1..Len(task_mp) : task_mp[n] \in Nat
  <2>1. /\ task_mp \in Seq({0} \union A2RPackets) /\ aSent \in 0..A2RCount
        /\ {0} \union A2RPackets \subseteq Nat
    BY A2RFacts DEF TypeOK, A2RPackets
  <2> HIDE DEF k
  <2>2. Len(task_mp) \in Nat \ {0} /\ \A n \in 1..Len(task_mp) : task_mp[n] \in {0} \union A2RPackets
    BY <2>1
  <2>3. Head(task_mp) = task_mp[1]
    BY <2>1
  <2>4. QED
    BY <2>1, <2>2, <2>3, A2RFacts DEF k
<1>2. /\ Len(task_mp') = Len(task_mp) - 1
      /\ \A n \in 1..Len(task_mp') : task_mp'[n] = task_mp[n + 1] /\ n + 1 \in 1..Len(task_mp)
  BY <1>1
<1>3. ASSUME NEW n \in 1..Len(task_mp), n # 1
      PROVE  n - 1 \in 1..Len(task_mp') /\ task_mp'[n - 1] = task_mp[n]
  <2>1. n - 1 \in 1..Len(task_mp')
    BY <1>1, <1>2, <1>3
  <2>2. task_mp'[n - 1] = task_mp[(n - 1) + 1] /\ (n - 1) + 1 = n
    BY <1>2, <2>1
  <2>3. QED
    BY <2>1, <2>2
<1>4. \A m, n \in 1..Len(task_mp') :
        m < n /\ task_mp'[m] # 0 /\ task_mp'[n] # 0 => task_mp'[m] < task_mp'[n]
  <2> SUFFICES ASSUME NEW m \in 1..Len(task_mp'), NEW n \in 1..Len(task_mp'), m < n,
                      task_mp'[m] # 0, task_mp'[n] # 0
               PROVE  task_mp'[m] < task_mp'[n]
    OBVIOUS
  <2>1. m + 1 \in 1..Len(task_mp) /\ n + 1 \in 1..Len(task_mp) /\ m + 1 < n + 1
    BY <1>1, <1>2
  <2>2. task_mp'[m] = task_mp[m + 1] /\ task_mp'[n] = task_mp[n + 1]
    BY <1>2
  <2>3. QED
    BY <2>1, <2>2 DEF PortHolds
<1>5. taken \in 0..aSent /\ \A n \in 1..Len(task_mp) : task_mp[n] # 0 => task_mp[n] \in (taken + 1)..aSent
  BY DEF PortHolds
<1>6. CASE k = 0
  <2>1. \A n \in 1..Len(task_mp') : task_mp'[n] # 0 => task_mp'[n] \in (taken + 1)..aSent
    BY <1>2, <1>5
  <2>2. ASSUME NEW l \in (taken + 1)..aSent PROVE \E n \in 1..Len(task_mp') : task_mp'[n] = l
    <3>1. PICK n \in 1..Len(task_mp) : task_mp[n] = l
      BY DEF PortHolds
    <3>2. n # 1
      BY <1>1, <1>5, <1>6, <3>1
    <3>3. QED
      BY <1>3, <3>1, <3>2
  <2>3. QED
    BY <1>4, <1>5, <1>6, <2>1, <2>2 DEF PortHolds
<1>7. CASE k # 0
  <2>1. k \in (taken + 1)..aSent
    BY <1>1, <1>5, <1>7
  <2>2. ASSUME NEW n \in 1..Len(task_mp), n # 1, task_mp[n] # 0 PROVE k < task_mp[n]
    <3>1. 1 < n
      BY <2>2
    <3>2. QED
      BY <1>1, <1>7, <2>2, <3>1 DEF PortHolds
  <2>3. k = taken + 1
    <3>1. SUFFICES ASSUME k # taken + 1 PROVE FALSE
      OBVIOUS
    <3>2. taken + 1 \in (taken + 1)..aSent /\ taken + 1 < k
      BY <1>1, <2>1, <3>1
    <3>3. PICK n \in 1..Len(task_mp) : task_mp[n] = taken + 1
      BY <3>2 DEF PortHolds
    <3>4. n # 1 /\ task_mp[n] # 0
      BY <1>1, <3>1, <3>3
    <3>5. QED
      BY <1>1, <2>1, <2>2, <3>2, <3>3, <3>4
  <2>4. ASSUME NEW n \in 1..Len(task_mp'), task_mp'[n] # 0
        PROVE  task_mp'[n] \in (taken + 2)..aSent
    <3>1. task_mp'[n] = task_mp[n + 1] /\ n + 1 \in 1..Len(task_mp) /\ n + 1 # 1
      BY <1>2
    <3>2. task_mp[n + 1] \in (taken + 1)..aSent /\ k < task_mp[n + 1]
      BY <1>5, <2>2, <2>4, <3>1
    <3>3. QED
      BY <2>3, <3>1, <3>2
  <2>5. ASSUME NEW l \in (taken + 2)..aSent PROVE \E n \in 1..Len(task_mp') : task_mp'[n] = l
    <3>1. l \in (taken + 1)..aSent /\ l # k
      BY <1>1, <2>3
    <3>2. PICK n \in 1..Len(task_mp) : task_mp[n] = l
      BY <3>1 DEF PortHolds
    <3>3. n # 1
      BY <1>1, <3>1, <3>2
    <3>4. QED
      BY <1>3, <3>2, <3>3
  <2>6. taken + 1 \in 0..aSent /\ (taken + 1) + 1 = taken + 2
    BY <1>1, <2>1, <2>3
  <2>7. PortHolds(taken + 1)'
    BY <1>4, <2>4, <2>5, <2>6 DEF PortHolds
  <2>8. QED
    BY <1>7, <2>3, <2>7
<1>8. QED
  BY <1>6, <1>7

LEMMA PortPut ==
  ASSUME TypeOK, NEW taken, PortHolds(taken), AppSend \/ AppRead
  PROVE  PortHolds(taken)'
<1>1. /\ task_mp \in Seq({0} \union A2RPackets) /\ Len(task_mp) \in Nat /\ aSent \in Nat
      /\ taken \in 0..aSent /\ \A n \in 1..Len(task_mp) : task_mp[n] \in Nat
  BY A2RFacts DEF TypeOK, PortHolds
<1>2. PICK e \in {0} \union A2RPackets :
        /\ task_mp' = Append(task_mp, e)
        /\ \/ e = 0 /\ aSent' = aSent
           \/ e = aSent + 1 /\ aSent' = aSent + 1
  <2>1. CASE AppSend
    <3>1. /\ aSent + 1 \in {0} \union A2RPackets /\ aSent' = aSent + 1
          /\ task_mp' = Append(task_mp, aSent + 1)
      BY <2>1 DEF AppSend
    <3>2. QED
      BY <3>1
  <2>2. CASE AppRead
    <3>1. task_mp' = Append(task_mp, 0) /\ aSent' = aSent
      BY <2>2 DEF AppRead, history
    <3>2. QED
      BY <3>1
  <2>3. QED
    BY <2>1, <2>2
<1>3. /\ Len(task_mp') = Len(task_mp) + 1 /\ task_mp'[Len(task_mp) + 1] = e
      /\ \A n \in 1..Len(task_mp) : task_mp'[n] = task_mp[n] /\ n \in 1..Len(task_mp')
      /\ \A n \in 1..Len(task_mp') : n \in 1..Len(task_mp) \/ n = Len(task_mp) + 1
  BY <1>1, <1>2
<1>4. ASSUME NEW n \in 1..Len(task_mp'), task_mp'[n] # 0 PROVE task_mp'[n] \in (taken + 1)..aSent'
  <2>1. CASE n \in 1..Len(task_mp)
    <3>1. task_mp[n] \in (taken + 1)..aSent
      BY <1>3, <1>4, <2>1 DEF PortHolds
    <3>2. QED
      BY <1>1, <1>2, <1>3, <2>1, <3>1
  <2>2. CASE n = Len(task_mp) + 1
    BY <1>1, <1>2, <1>3, <1>4, <2>2
  <2>3. QED
    BY <1>3, <2>1, <2>2
<1>5. ASSUME NEW l \in (taken + 1)..aSent' PROVE \E n \in 1..Len(task_mp') : task_mp'[n] = l
  <2>1. CASE l \in (taken + 1)..aSent
    <3>1. PICK n \in 1..Len(task_mp) : task_mp[n] = l
      BY <2>1 DEF PortHolds
    <3>2. QED
      BY <1>3, <3>1
  <2>2. CASE l \notin (taken + 1)..aSent
    <3>1. l = e
      BY <1>1, <1>2, <2>2
    <3>2. Len(task_mp) + 1 \in 1..Len(task_mp')
      BY <1>1, <1>3
    <3>3. QED
      BY <1>3, <3>1, <3>2
  <2>3. QED
    BY <2>1, <2>2
<1>6. ASSUME NEW m \in 1..Len(task_mp'), NEW n \in 1..Len(task_mp'), m < n,
             task_mp'[m] # 0, task_mp'[n] # 0
      PROVE  task_mp'[m] < task_mp'[n]
  <2>1. m \in 1..Len(task_mp) /\ task_mp'[m] = task_mp[m]
    BY <1>1, <1>3, <1>6
  <2>2. CASE n \in 1..Len(task_mp)
    BY <1>3, <1>6, <2>1, <2>2 DEF PortHolds
  <2>3. CASE n = Len(task_mp) + 1
    <3>1. task_mp[m] \in (taken + 1)..aSent
      BY <1>6, <2>1 DEF PortHolds
    <3>2. task_mp'[n] = aSent + 1
      BY <1>2, <1>3, <1>6, <2>3
    <3>3. QED
      BY <1>1, <2>1, <3>1, <3>2
  <2>4. QED
    BY <1>3, <2>2, <2>3
<1>7. taken \in 0..aSent'
  BY <1>1, <1>2
<1>8. QED
  BY <1>4, <1>5, <1>6, <1>7 DEF PortHolds

LEMMA A2RReceive ==
  ASSUME TypeOK, NEW seen, NEW copied, NEW stored \in Nat,
         A2RHolds(seen, copied, stored), A2RWaits(stored), ReceiveA2R
  PROVE  A2RHolds(seen, copied, stored)' /\ piGot' = Append(piGot, piRead + 1)
<1> DEFINE k == piRead + 1
           i == channel_status.A2R_HEAD
<1>1. /\ seen \in 0..piRead /\ piRead \in Nat /\ copied \in piRead..stored
      /\ stored \in 0..A2RCount /\ copied \in 0..A2RCount /\ piRead \in 0..A2RCount
  BY A2RNumbers
<1>2. piRead # copied
  <2>1. SUFFICES ASSUME piRead = copied PROVE FALSE
    OBVIOUS
  <2>2. A2ROff[copied] \in Nat
    BY <1>1, InOrder, A2RFacts
  <2>3. i = channel_status.A2R_TAIL
    BY <2>1, <2>2, AtOneIndex DEF A2RHolds, A2RIndices
  <2>4. QED
    BY <2>3 DEF ReceiveA2R
<1>3. k \in 1..A2RCount /\ k \in (piRead + 1)..stored /\ k <= copied /\ k - 1 = piRead
  BY <1>1, <1>2, StreamAssumption
<1>4. Stored(a2r_buffer, A2ROff, k)
  BY <1>3 DEF A2RHolds, A2RInRing
<1> HIDE DEF k
<1>5. /\ ReadAt(a2r_buffer, A2ROff, i) = k
      /\ At(Wrap(i + LenAt(a2r_buffer, A2ROff, i)), A2ROff[k])
  <2>1. At(i, A2ROff[k - 1])
    BY <1>3 DEF A2RHolds, A2RIndices
  <2>2. QED
    BY <1>3, <1>4, <2>1, ReadStored, A2RFacts
<1>6. /\ piGot' = Append(piGot, k) /\ At(channel_status'.A2R_HEAD, A2ROff[k])
      /\ channel_status'.A2R_TAIL = channel_status.A2R_TAIL
      /\ UNCHANGED <<a2r_head, a2r_tail, a2r_buffer>>
  BY <1>5, A2RFacts DEF ReceiveA2R, comArea
<1>7. piRead' = k
  <2>1. piGot \in Seq({0} \union A2RPackets)
    BY DEF TypeOK
  <2>2. QED
    BY <1>6, <2>1 DEF piRead, k
<1>8. A2RIndices(seen, copied, stored)'
  BY <1>6, <1>7 DEF A2RHolds, A2RIndices
<1>9. A2RInRing(stored)'
  <2>1. \A l \in (k + 1)..stored : l \in (piRead + 1)..stored
    BY <1>1 DEF k
  <2>2. QED
    BY <1>6, <1>7, <2>1 DEF A2RHolds, A2RInRing
<1>10. seen \in 0..piRead' /\ copied \in piRead'..stored
  BY <1>1, <1>3, <1>7 DEF k
<1>11. QED
  BY <1>6, <1>8, <1>9, <1>10 DEF A2RHolds, k

LEMMA A2RStore ==
  ASSUME TypeOK, NEW seen, NEW copied, NEW stored \in Nat,
         A2RHolds(seen, copied, stored), A2RWaits(stored),
         NEW s \in stores, StoreVisible(s), s = "a2r_head"
  PROVE  A2RHolds(piRead, copied, stored)' /\ piRead' = piRead
<1>1. /\ seen \in 0..piRead /\ piRead \in Nat /\ copied \in piRead..stored /\ seen <= piRead
      /\ stored \in 0..A2RCount /\ seen \in 0..A2RCount /\ piRead \in 0..A2RCount
  BY A2RNumbers
<1>2. a2r_head' = channel_status.A2R_HEAD /\ UNCHANGED <<a2r_tail, a2r_buffer, channel_status, piGot>>
  BY DEF StoreVisible, history
<1>3. piRead' = piRead
  BY <1>2 DEF piRead
<1>4. A2ROff[stored] - A2ROff[piRead] < RingSize
  <2>1. A2ROff[seen] \in Nat /\ A2ROff[piRead] \in Nat /\ A2ROff[seen] <= A2ROff[piRead]
    BY <1>1, InOrder, A2RFacts
  <2>2. A2ROff[stored] \in Nat
    BY <1>1, InOrder, A2RFacts
  <2>3. A2ROff[stored] - A2ROff[seen] < RingSize
    BY DEF A2RHolds
  <2>4. QED
    BY <2>1, <2>2, <2>3, SizeType
<1>5. A2RIndices(piRead, copied, stored)' /\ A2RInRing(stored)'
  BY <1>2, <1>3 DEF A2RHolds, A2RIndices, A2RInRing
<1>6. QED
  BY <1>1, <1>3, <1>4, <1>5 DEF A2RHolds

\* A request that the driver takes from its port, and a packet it takes from send_queue.
LEMMA A2RRequest ==
  ASSUME TypeOK, NEW seen, NEW copied, NEW stored \in Nat,
         A2RHolds(seen, copied, stored), A2RWaits(stored), handle_app_request
  PROVE  A2RRing'
<1> DEFINE k == Head(task_mp)
<1>0. PICK taken \in Nat : taken = stored + Len(send_queue)
  BY A2RFacts
<1>1. /\ seen \in Nat /\ copied \in Nat /\ taken \in Nat /\ PortHolds(taken)
      /\ Len(send_queue) \in Nat /\ send_queue \in Seq(A2RPackets)
  <2>1. Len(send_queue) \in Nat /\ seen \in 0..piRead /\ piRead \in Nat /\ copied \in piRead..stored
    BY A2RNumbers, A2RFacts
  <2>2. QED
    BY <1>0, <2>1 DEF A2RWaits, TypeOK
<1>2. /\ UNCHANGED <<a2r_head, channel_status, piGot>>
      /\ aSent' = aSent /\ task_mp # <<>> /\ task_mp' = Tail(task_mp)
  BY DEF handle_app_request, pi, history
<1>3. /\ k = 0 => PortHolds(taken)'
      /\ k # 0 => k = taken + 1 /\ PortHolds(taken + 1)'
  BY <1>1, <1>2, PortTake
<1>4. k # 0 => k \in 1..A2RCount
  <2>1. k \in {0} \union A2RPackets
    BY <1>2 DEF TypeOK
  <2>2. QED
    BY <2>1 DEF A2RPackets
<1>5. CASE k = 0
  <2>1. UNCHANGED <<a2r_buffer, a2r_tail, send_queue>>
    BY <1>5 DEF handle_app_request
  <2>2. A2RHolds(seen, copied, stored)'
    BY <1>2, <2>1 DEF A2RHolds, A2RIndices, A2RInRing, piRead
  <2>3. A2RWaits(stored)'
    BY <1>0, <1>3, <1>5, <2>1 DEF A2RWaits
  <2>4. QED
    BY <1>1, <2>2, <2>3 DEF A2RRing
<1>6. CASE k # 0 /\ send_queue = <<>> /\ room_in_a2r(k)
  <2>1. append_a2r_packet(k) /\ send_queue' = send_queue /\ Len(send_queue) = 0
    BY <1>6 DEF handle_app_request
  <2>2. k = stored + 1 /\ taken + 1 = stored + 1
    BY <1>0, <1>3, <1>6, <2>1
  <2>3. A2RHolds(seen, copied, stored + 1)'
    <3>1. stored + 1 \in 1..A2RCount /\ room_in_a2r(stored + 1) /\ append_a2r_packet(stored + 1)
      BY <1>4, <1>6, <2>1, <2>2
    <3>2. QED
      BY <1>2, <3>1, A2RAppend
  <2>4. A2RWaits(stored + 1)'
    <3>1. (stored + 1) + Len(send_queue') = taken + 1
      BY <1>0, <2>1
    <3>2. PortHolds((stored + 1) + Len(send_queue))'
      BY <1>3, <1>6, <2>1, <3>1
    <3>3. QED
      BY <2>1, <3>2 DEF A2RWaits
  <2>5. QED
    BY <1>1, <2>3, <2>4 DEF A2RRing
<1>7. CASE k # 0 /\ ~(send_queue = <<>> /\ room_in_a2r(k))
  <2>1. UNCHANGED <<a2r_buffer, a2r_tail>> /\ send_queue' = Append(send_queue, k)
    BY <1>7 DEF handle_app_request
  <2>2. A2RHolds(seen, copied, stored)'
    BY <1>2, <2>1 DEF A2RHolds, A2RIndices, A2RInRing, piRead
  <2>3. k \in A2RPackets
    BY <1>4, <1>7 DEF A2RPackets
  <2>4. /\ Len(send_queue') = Len(send_queue) + 1 /\ send_queue'[Len(send_queue) + 1] = k
        /\ \A n \in 1..Len(send_queue) : send_queue'[n] = send_queue[n]
    BY <1>1, <2>1, <2>3
  <2>5. \A n \in 1..Len(send_queue') : send_queue'[n] = stored + n
    <3> SUFFICES ASSUME NEW n \in 1..Len(send_queue') PROVE send_queue'[n] = stored + n
      OBVIOUS
    <3>1. CASE n = Len(send_queue) + 1
      BY <1>0, <1>1, <1>3, <1>7, <2>4, <3>1
    <3>2. CASE n \in 1..Len(send_queue)
      BY <2>4, <3>2 DEF A2RWaits
    <3>3. QED
      BY <1>1, <2>4, <3>1, <3>2
  <2>6. PortHolds(stored + Len(send_queue))'
    <3>1. stored + Len(send_queue') = taken + 1
      BY <1>0, <1>1, <2>4
    <3>2. QED
      BY <1>3, <1>7, <3>1
  <2>7. A2RWaits(stored)'
    BY <2>5, <2>6 DEF A2RWaits
  <2>8. QED
    BY <1>1, <2>2, <2>7 DEF A2RRing
<1>8. QED
  BY <1>5, <1>6, <1>7

LEMMA A2RSendQueued ==
  ASSUME TypeOK, NEW seen, NEW copied, NEW stored \in Nat,
         A2RHolds(seen, copied, stored), A2RWaits(stored), SendQueued
  PROVE  A2RHolds(seen, copied, stored + 1)' /\ A2RWaits(stored + 1)'
<1>1. /\ send_queue \in Seq(A2RPackets) /\ send_queue # <<>> /\ Len(send_queue) \in Nat \ {0}
      /\ send_queue' = Tail(send_queue)
  BY DEF TypeOK, SendQueued
<1>2. /\ Len(send_queue') = Len(send_queue) - 1
      /\ \A n \in 1..Len(send_queue') : send_queue'[n] = send_queue[n + 1] /\ n + 1 \in 1..Len(send_queue)
      /\ Head(send_queue) = send_queue[1] /\ 1 \in 1..Len(send_queue)
      /\ Head(send_queue) \in A2RPackets
  BY <1>1
<1>3. Head(send_queue) = stored + 1 /\ stored + 1 \in 1..A2RCount
  BY <1>2 DEF A2RWaits, A2RPackets
<1>4. UNCHANGED <<a2r_head, channel_status, piGot, task_mp, aSent>>
  BY DEF SendQueued, pi, history
<1>5. A2RHolds(seen, copied, stored + 1)'
  <2>1. room_in_a2r(stored + 1) /\ append_a2r_packet(stored + 1)
    BY <1>3 DEF SendQueued
  <2>2. QED
    BY <1>3, <1>4, <2>1, A2RAppend
<1>6. \A n \in 1..Len(send_queue') : send_queue'[n] = (stored + 1) + n
  <2> SUFFICES ASSUME NEW n \in 1..Len(send_queue') PROVE send_queue'[n] = (stored + 1) + n
    OBVIOUS
  <2>1. send_queue[n + 1] = stored + (n + 1)
    BY <1>2 DEF A2RWaits
  <2>2. QED
    BY <1>2, <2>1
<1>7. PortHolds((stored + 1) + Len(send_queue))'
  <2>1. (stored + 1) + Len(send_queue') = stored + Len(send_queue)
    BY <1>1, <1>2
  <2>2. PortHolds(stored + Len(send_queue))
    BY DEF A2RWaits
  <2>3. QED
    BY <1>4, <2>1, <2>2 DEF PortHolds
<1>8. QED
  BY <1>5, <1>6, <1>7 DEF A2RWaits

LEMMA A2RCopyTail ==
  ASSUME TypeOK, NEW seen, NEW copied, NEW stored \in Nat,
         A2RHolds(seen, copied, stored), A2RWaits(stored), ReadA2RTail
  PROVE  A2RHolds(seen, stored, stored)'
<1>1. seen \in 0..piRead /\ piRead \in Nat /\ copied \in piRead..stored
  BY A2RNumbers
<1>2. /\ channel_status'.A2R_TAIL = a2r_tail /\ channel_status'.A2R_HEAD = channel_status.A2R_HEAD
      /\ UNCHANGED <<a2r_head, a2r_tail, a2r_buffer, piGot>>
  BY A2RFacts DEF ReadA2RTail, comArea, history
<1>3. piRead' = piRead
  BY <1>2 DEF piRead
<1>4. A2RIndices(seen, stored, stored)' /\ A2RInRing(stored)'
  BY <1>2, <1>3 DEF A2RHolds, A2RIndices, A2RInRing
<1>5. stored \in piRead..stored
  BY <1>1
<1>6. QED
  BY <1>1, <1>3, <1>4, <1>5 DEF A2RHolds

\* A step that leaves A2R alone leaves its packets where they are.
LEMMA A2RFramed ==
  ASSUME NEW seen, NEW copied, NEW stored, A2RHolds(seen, copied, stored),
         UNCHANGED <<piGot, a2r_head, a2r_tail, a2r_buffer>>,
         channel_status'.A2R_HEAD = channel_status.A2R_HEAD,
         channel_status'.A2R_TAIL = channel_status.A2R_TAIL
  PROVE  A2RHolds(seen, copied, stored)'
<1>1. piRead' = piRead
  BY DEF piRead
<1>2. QED
  BY <1>1 DEF A2RHolds, A2RIndices, A2RInRing
LEMMA WaitsFramed ==
  ASSUME NEW stored, A2RWaits(stored), UNCHANGED <<send_queue, task_mp, aSent>>
  PROVE  A2RWaits(stored)'
  BY DEF A2RWaits, PortHolds

LEMMA A2RKept ==
  ASSUME TypeOK, PiOwes, A2RRing, [Next]_vars
  PROVE  A2RRing'
<1> USE DEF comArea, locals, amiga, pi, history
<1>1. PICK seen \in Nat, copied \in Nat, stored \in Nat :
        A2RHolds(seen, copied, stored) /\ A2RWaits(stored)
  BY DEF A2RRing
<1>2. ASSUME UNCHANGED <<piGot, a2r_head, a2r_tail, a2r_buffer, send_queue, task_mp, aSent>>,
             channel_status'.A2R_HEAD = channel_status.A2R_HEAD,
             channel_status'.A2R_TAIL = channel_status.A2R_TAIL
      PROVE  A2RRing'
  <2>1. A2RHolds(seen, copied, stored)'
    BY <1>1, <1>2, A2RFramed
  <2>2. A2RWaits(stored)'
    BY <1>1, <1>2, WaitsFramed
  <2>3. QED
    BY <2>1, <2>2 DEF A2RRing
<1>3. CASE AppSend \/ AppRead
  <2>1. UNCHANGED <<piGot, a2r_head, a2r_tail, a2r_buffer, channel_status, send_queue>>
    BY <1>3 DEF AppSend, AppRead
  <2>2. A2RHolds(seen, copied, stored)'
    BY <1>1, <2>1, A2RFramed
  <2>3. PortHolds(stored + Len(send_queue))
    BY <1>1 DEF A2RWaits
  <2>4. PortHolds(stored + Len(send_queue))'
    <3>1. PICK taken : taken = stored + Len(send_queue)
      OBVIOUS
    <3>2. PortHolds(taken)'
      BY <1>3, <2>3, <3>1, PortPut
    <3>3. QED
      BY <2>1, <3>1, <3>2
  <2>5. A2RWaits(stored)'
    BY <1>1, <2>1, <2>4 DEF A2RWaits
  <2>6. QED
    BY <2>2, <2>5 DEF A2RRing
<1>4. CASE handle_app_request
  BY <1>1, <1>4, A2RRequest
<1>5. CASE SendQueued
  <2>1. A2RHolds(seen, copied, stored + 1)' /\ A2RWaits(stored + 1)'
    BY <1>1, <1>5, A2RSendQueued
  <2>2. stored + 1 \in Nat
    OBVIOUS
  <2>3. QED
    BY <2>1, <2>2 DEF A2RRing
<1>6. CASE ReadA2RTail
  <2>1. A2RHolds(seen, stored, stored)'
    BY <1>1, <1>6, A2RCopyTail
  <2>2. A2RWaits(stored)'
    BY <1>1, <1>6, WaitsFramed DEF ReadA2RTail
  <2>3. QED
    BY <2>1, <2>2 DEF A2RRing
<1>7. CASE ReadR2AHead
  <2>1. channel_status.A2R_HEAD = a2r_head
    BY <1>7 DEF ReadR2AHead, PiOwes, Level
  <2>2. /\ channel_status'.A2R_HEAD = channel_status.A2R_HEAD
        /\ channel_status'.A2R_TAIL = channel_status.A2R_TAIL
    BY <1>7, <2>1, A2RFacts DEF ReadR2AHead
  <2>3. QED
    BY <1>2, <1>7, <2>2 DEF ReadR2AHead
<1>8. CASE ReceiveA2R
  <2>1. A2RHolds(seen, copied, stored)'
    BY <1>1, <1>8, A2RReceive
  <2>2. A2RWaits(stored)'
    BY <1>1, <1>8, WaitsFramed DEF ReceiveA2R
  <2>3. QED
    BY <2>1, <2>2 DEF A2RRing
<1>9. CASE FlushPacket
  <2>1. /\ channel_status'.A2R_HEAD = channel_status.A2R_HEAD
        /\ channel_status'.A2R_TAIL = channel_status.A2R_TAIL
    BY <1>9, A2RFacts DEF FlushPacket
  <2>2. QED
    BY <1>2, <1>9, <2>1 DEF FlushPacket
<1>10. ASSUME NEW s \in stores, StoreVisible(s) PROVE A2RRing'
  <2>1. UNCHANGED <<piGot, a2r_tail, a2r_buffer, channel_status, send_queue, task_mp, aSent>>
    BY <1>10 DEF StoreVisible
  <2>2. CASE s = "a2r_head"
    <3>1. A2RHolds(piRead, copied, stored)' /\ piRead' = piRead
      BY <1>1, <1>10, <2>2, A2RStore
    <3>2. piRead \in Nat
      BY A2RFacts
    <3>3. A2RWaits(stored)'
      BY <1>1, <2>1, WaitsFramed
    <3>4. QED
      BY <3>1, <3>2, <3>3 DEF A2RRing
  <2>3. CASE s # "a2r_head"
    <3>1. a2r_head' = a2r_head
      BY <1>10, <2>3 DEF StoreVisible
    <3>2. QED
      BY <1>2, <2>1, <3>1
  <2>4. QED
    BY <2>2, <2>3
<1>11. CASE WaitReturns
  BY <1>2, <1>11 DEF WaitReturns
<1>12. CASE NoMoreRequests
  BY <1>2, <1>12 DEF NoMoreRequests
<1>13. CASE ReceiveR2A
  BY <1>2, <1>13 DEF ReceiveR2A
<1>14. CASE R2AEmptied
  BY <1>2, <1>14 DEF R2AEmptied
<1>15. CASE NothingToSend
  BY <1>2, <1>15 DEF NothingToSend
<1>16. CASE DiscardEvents
  BY <1>2, <1>16 DEF DiscardEvents
<1>17. CASE CheckR2A
  BY <1>2, <1>17 DEF CheckR2A
<1>18. CASE CheckRoom
  BY <1>2, <1>18 DEF CheckRoom
<1>19. CASE Enable
  BY <1>2, <1>19 DEF Enable
<1>20. CASE Notify
  BY <1>2, <1>20 DEF Notify
<1>21. CASE IntServer
  BY <1>2, <1>21 DEF IntServer
<1>22. CASE ReadIrq
  BY <1>2, <1>22 DEF ReadIrq
<1>23. CASE A2RReceived
  BY <1>2, <1>23 DEF A2RReceived
<1>24. CASE ClientEvent
  BY <1>2, <1>24 DEF ClientEvent
<1>25. CASE Flushed
  BY <1>2, <1>25 DEF Flushed
<1>26. CASE PostEvents
  BY <1>2, <1>26 DEF PostEvents
<1>27. CASE UNCHANGED vars
  BY <1>2, <1>27 DEF vars
<1>28. QED
  BY <1>3, <1>4, <1>5, <1>6, <1>7, <1>8, <1>9, <1>10, <1>11, <1>12, <1>13, <1>14, <1>15, <1>16,
     <1>17, <1>18, <1>19, <1>20, <1>21, <1>22, <1>23, <1>24, <1>25, <1>26, <1>27
     DEF Next, DriverStep, IrqStep

-----------------------------------------------------------------------------
(* Both rings together. *)

RingInv ==
  /\ TypeOK /\ Forms /\ PiOwes
  /\ PiQueue /\ CopyFirst /\ R2ARing
  /\ A2RRing
  /\ DeliveredInOrder

LEMMA InitRing == Init => RingInv
<1> SUFFICES ASSUME Init PROVE RingInv
  OBVIOUS
<1>1. TypeOK /\ Forms /\ PiOwes
  BY InitTypeOK, InitWake DEF WakeInv
<1>2. PiQueue /\ CopyFirst /\ DeliveredInOrder
  BY DEF Init, PiQueue, CopyFirst, DeliveredInOrder
<1>3. At(0, 0) /\ 0 \in Nat
  <2>1. 0 \in Index /\ 0 = 0 * RingSize + 0
    BY SizeType DEF Index
  <2>2. QED
    BY <2>1 DEF At
<1>4. R2AHolds(0, 0)
  <2>1. aRead = 0 /\ piFlushed = 0 /\ R2AOff[0] = 0
    <3>1. aRead = 0
      BY DEF Init, aRead
    <3>2. piFlushed = 0
      <4>1. piSent = 0 /\ Len(pi_queue) = 0
        BY DEF Init
      <4>2. QED
        BY <4>1 DEF piFlushed
    <3>3. R2AOff[0] = 0
      BY StreamAssumption DEF IsStream
    <3>4. QED
      BY <3>1, <3>2, <3>3
  <2>2. R2AIndices(0, 0)
    BY <1>3, <2>1 DEF Init, R2AIndices
  <2>3. R2AInCopy(0) /\ R2AInRing
    BY <2>1 DEF Init, R2AInCopy, R2AInRing
  <2>4. 0 \in 0..0 /\ 0 - 0 < RingSize
    BY SizeType
  <2>5. QED
    BY <2>1, <2>2, <2>3, <2>4 DEF R2AHolds
<1>5. A2RHolds(0, 0, 0) /\ A2RWaits(0)
  <2>1. piRead = 0 /\ A2ROff[0] = 0 /\ Len(send_queue) = 0 /\ aSent = 0 /\ Len(task_mp) = 0
    BY StreamAssumption DEF Init, piRead, IsStream
  <2>2. A2RIndices(0, 0, 0) /\ A2RInRing(0)
    BY <1>3, <2>1 DEF Init, A2RIndices, A2RInRing
  <2>3. A2RWaits(0)
    BY <2>1 DEF A2RWaits, PortHolds
  <2>4. 0 \in 0..0 /\ 0 - 0 < RingSize
    BY SizeType
  <2>5. QED
    BY <2>1, <2>2, <2>3, <2>4 DEF A2RHolds
<1>6. QED
  BY <1>1, <1>2, <1>3, <1>4, <1>5 DEF RingInv, R2ARing, A2RRing

\* Nothing of send_buf is left once the copy to r2a_buffer is visible.

LEMMA CopyFirstKept == ASSUME TypeOK, CopyFirst, [Next]_vars PROVE CopyFirst'
<1> USE DEF CopyFirst, comArea, locals, amiga, pi, history
<1>1. CASE AppSend
  BY <1>1 DEF AppSend
<1>2. CASE AppRead
  BY <1>2 DEF AppRead
<1>3. CASE WaitReturns
  BY <1>3 DEF WaitReturns
<1>4. CASE handle_app_request
  BY <1>4 DEF handle_app_request
<1>5. CASE NoMoreRequests
  BY <1>5 DEF NoMoreRequests
<1>6. CASE ReceiveR2A
  BY <1>6 DEF ReceiveR2A
<1>7. CASE R2AEmptied
  BY <1>7 DEF R2AEmptied
<1>8. CASE SendQueued
  BY <1>8 DEF SendQueued
<1>9. CASE NothingToSend
  BY <1>9 DEF NothingToSend
<1>10. CASE DiscardEvents
  BY <1>10 DEF DiscardEvents
<1>11. CASE CheckR2A
  BY <1>11 DEF CheckR2A
<1>12. CASE CheckRoom
  BY <1>12 DEF CheckRoom
<1>13. CASE Enable
  BY <1>13 DEF Enable
<1>14. CASE Notify
  BY <1>14 DEF Notify
<1>15. CASE IntServer
  BY <1>15 DEF IntServer
<1>16. CASE ClientEvent
  BY <1>16 DEF ClientEvent
<1>17. CASE ReadIrq
  BY <1>17 DEF ReadIrq
<1>18. CASE ReadA2RTail
  BY <1>18 DEF ReadA2RTail
<1>19. CASE ReadR2AHead
  BY <1>19 DEF ReadR2AHead
<1>20. CASE ReceiveA2R
  BY <1>20 DEF ReceiveA2R
<1>21. CASE A2RReceived
  BY <1>21 DEF A2RReceived
<1>22. CASE FlushPacket
  BY <1>22 DEF FlushPacket
<1>23. CASE Flushed
  BY <1>23 DEF Flushed
<1>24. ASSUME NEW s \in stores, StoreVisible(s) PROVE CopyFirst'
  BY <1>24 DEF StoreVisible
<1>25. CASE PostEvents
  BY <1>25 DEF PostEvents
<1>26. CASE UNCHANGED vars
  BY <1>26 DEF vars
<1>27. QED
  BY <1>1, <1>2, <1>3, <1>4, <1>5, <1>6, <1>7, <1>8, <1>9, <1>10, <1>11, <1>12, <1>13, <1>14,
     <1>15, <1>16, <1>17, <1>18, <1>19, <1>20, <1>21, <1>22, <1>23, <1>24, <1>25, <1>26
     DEF Next, DriverStep, IrqStep

LEMMA DeliveredKept == ASSUME RingInv, [Next]_vars PROVE DeliveredInOrder'
<1>1. /\ TypeOK /\ \A k \in DOMAIN aGot : aGot[k] = k
      /\ \A k \in DOMAIN piGot : piGot[k] = k
      /\ aGot \in Seq({0} \union R2APackets) /\ piGot \in Seq({0} \union A2RPackets)
  BY DEF RingInv, DeliveredInOrder, TypeOK
<1>2. ASSUME NEW S, NEW q \in Seq(S), \A k \in DOMAIN q : q[k] = k, NEW e
      PROVE  e = Len(q) + 1 => \A k \in DOMAIN Append(q, e) : Append(q, e)[k] = k
  <2> SUFFICES ASSUME e = Len(q) + 1, NEW k \in DOMAIN Append(q, e) PROVE Append(q, e)[k] = k
    OBVIOUS
  <2>1. Len(q) \in Nat /\ DOMAIN q = 1..Len(q) /\ DOMAIN Append(q, e) = 1..(Len(q) + 1)
    <3>1. q \in Seq(S \union {e}) /\ e \in S \union {e}
      BY SeqMonotonic
    <3>2. QED
      BY <3>1
  <2>2. CASE k = Len(q) + 1
    BY <2>1, <2>2
  <2>3. CASE k \in 1..Len(q)
    BY <1>2, <2>1, <2>3
  <2>4. QED
    BY <2>1, <2>2, <2>3
<1>3. CASE ReceiveR2A
  <2>1. PICK seen \in Nat, tail \in Nat : R2AHolds(seen, tail)
    BY DEF RingInv, R2ARing
  <2>2. aGot' = Append(aGot, Len(aGot) + 1)
    BY <1>1, <1>3, <2>1, R2AReceive DEF aRead
  <2>3. piGot' = piGot
    BY <1>3 DEF ReceiveR2A
  <2>4. QED
    BY <1>1, <1>2, <2>2, <2>3 DEF DeliveredInOrder
<1>4. CASE ReceiveA2R
  <2>1. PICK seen \in Nat, copied \in Nat, stored \in Nat :
          A2RHolds(seen, copied, stored) /\ A2RWaits(stored)
    BY DEF RingInv, A2RRing
  <2>2. piGot' = Append(piGot, Len(piGot) + 1)
    BY <1>1, <1>4, <2>1, A2RReceive DEF piRead
  <2>3. aGot' = aGot
    BY <1>4 DEF ReceiveA2R
  <2>4. QED
    BY <1>1, <1>2, <2>2, <2>3 DEF DeliveredInOrder
<1>5. CASE ~(ReceiveR2A \/ ReceiveA2R)
  <2>1. aGot' = aGot /\ piGot' = piGot
    BY <1>5 DEF Next, DriverStep, IrqStep, vars, history, AppSend, AppRead, WaitReturns,
       handle_app_request, NoMoreRequests, R2AEmptied, SendQueued, NothingToSend, DiscardEvents,
       CheckR2A, CheckRoom, Enable, Notify, IntServer, ClientEvent, ReadIrq, ReadA2RTail,
       ReadR2AHead, A2RReceived, FlushPacket, Flushed, StoreVisible, PostEvents
  <2>2. QED
    BY <1>1, <2>1 DEF DeliveredInOrder
<1>6. QED
  BY <1>3, <1>4, <1>5

LEMMA RingKept == ASSUME StoresInOrder PROVE RingInv /\ [Next]_vars => RingInv'
<1> SUFFICES ASSUME RingInv, [Next]_vars PROVE RingInv'
  OBVIOUS
<1>1. TypeOK /\ Forms /\ PiOwes /\ PiQueue /\ CopyFirst /\ R2ARing /\ A2RRing
  BY DEF RingInv
<1>2. TypeOK'
  BY <1>1, StepTypeOK
<1>3. Forms' /\ PiOwes'
  BY <1>1, FormsKept, OwesKept
<1>4. CopyFirst'
  BY <1>1, CopyFirstKept
<1>5. R2ARing' /\ PiQueue'
  BY <1>1, StoresInOrder, R2AKept
<1>6. A2RRing'
  BY <1>1, A2RKept
<1>7. DeliveredInOrder'
  BY DeliveredKept
<1>8. QED
  BY <1>2, <1>3, <1>4, <1>5, <1>6, <1>7 DEF RingInv

(***************************************************************************)
(* Each side reads the packets of the other in the order in which they     *)
(* were handed over, none torn, lost or repeated (append_a2r_packet,       *)
(* handle_packets_received_r2a, receive_from_a2r, flush_send_queue), when  *)
(* the stores of the A314 thread become visible in program order.          *)
(***************************************************************************)
THEOREM PacketsInOrder == ASSUME StoresInOrder PROVE Spec => []DeliveredInOrder
<1>1. RingInv /\ [Next]_vars => RingInv'
  BY StoresInOrder, RingKept
<1>2. RingInv => DeliveredInOrder
  BY DEF RingInv
<1>3. QED
  BY <1>1, <1>2, InitRing, PTL DEF Spec

-----------------------------------------------------------------------------
(* The notices of the driver: the bytes in the irq socket pair. *)

(***************************************************************************)
(* In a round the driver owes a notice of an index that is not where it    *)
(* was before the round; of one that is, a notice is under way, if the     *)
(* A314 thread has not copied it, or the index has moved all the same.     *)
(***************************************************************************)
TailNoticed == a2r_tail # channel_status.A2R_TAIL => irq # <<>> \/ piPc = "status"
HeadNoticed == r2a_head # channel_status.R2A_HEAD => irq # <<>> \/ piPc \in {"status", "status2"}
RoundNoticed ==
  /\ aPc = "wait" \/ a2r_tail = prev_a2r_tail => TailNoticed \/ "A2R_TAIL" \in moved
  /\ aPc = "wait" \/ r2a_head = prev_r2a_head => HeadNoticed \/ "R2A_HEAD" \in moved
  /\ aPc \in {"discard", "check", "checkRoom", "enable", "notify"} =>
       /\ a2r_tail # prev_a2r_tail => "A2R_TAIL" \in r_events
       /\ r2a_head # prev_r2a_head => "R2A_HEAD" \in r_events

LEMMA InitNotice == Init => RoundNoticed
  BY DEF Init, RoundNoticed, TailNoticed, HeadNoticed

LEMMA NoticedKept == ASSUME TypeOK, RoundNoticed, [Next]_vars PROVE RoundNoticed'
<1> USE DEF RoundNoticed, TailNoticed, HeadNoticed, comArea, locals, amiga, pi, history
<1>0. RoundNoticed
  OBVIOUS
<1>1. CASE AppSend
  BY <1>1, <1>0 DEF AppSend
<1>2. CASE AppRead
  BY <1>2, <1>0 DEF AppRead
<1>3. CASE WaitReturns
  BY <1>3, <1>0 DEF WaitReturns
<1>4. CASE handle_app_request
  <2>1. /\ UNCHANGED <<prev_a2r_tail, prev_r2a_head, r2a_head, channel_status, irq, piPc, aPc>>
        /\ aPc \in {"requests", "room"}
    BY <1>4 DEF handle_app_request
  <2>2. UNCHANGED <<a2r_tail, moved>> \/ ("A2R_TAIL" \in moved' /\ moved \subseteq moved')
    BY <1>4 DEF handle_app_request, append_a2r_packet
  <2>3. QED
    BY <1>0, <2>1, <2>2
<1>5. CASE NoMoreRequests
  BY <1>5, <1>0 DEF NoMoreRequests
<1>6. CASE ReceiveR2A
  <2>1. /\ UNCHANGED <<prev_a2r_tail, prev_r2a_head, a2r_tail, channel_status, irq, piPc, aPc>>
        /\ aPc = "received"
    BY <1>6 DEF ReceiveR2A
  <2>2. "R2A_HEAD" \in moved' /\ moved \subseteq moved'
    BY <1>6 DEF ReceiveR2A
  <2>3. QED
    BY <1>0, <2>1, <2>2
<1>7. CASE R2AEmptied
  BY <1>7, <1>0 DEF R2AEmptied
<1>8. CASE SendQueued
  <2>1. /\ UNCHANGED <<prev_a2r_tail, prev_r2a_head, r2a_head, channel_status, irq, piPc, aPc>>
        /\ aPc \in {"requests", "room"}
    BY <1>8 DEF SendQueued
  <2>2. "A2R_TAIL" \in moved' /\ moved \subseteq moved'
    BY <1>8 DEF SendQueued, append_a2r_packet
  <2>3. QED
    BY <1>0, <2>1, <2>2
<1>9. CASE NothingToSend
  BY <1>0, <1>9 DEF NothingToSend, SeenUnmoved, REvents
<1>10. CASE DiscardEvents
  BY <1>10, <1>0 DEF DiscardEvents
<1>11. CASE CheckR2A
  BY <1>11, <1>0 DEF CheckR2A
<1>12. CASE CheckRoom
  BY <1>12, <1>0 DEF CheckRoom
<1>13. CASE Enable
  BY <1>13, <1>0 DEF Enable
<1>14. CASE Notify
  <2>1. irq \in Seq(SUBSET REvents) /\ r_events \in SUBSET REvents
    BY DEF TypeOK
  <2>2. r_events # {} => irq' # <<>>
    <3>1. CASE Len(irq) < IrqCap
      <4>1. Append(irq, r_events) # <<>>
        BY <1>0, <2>1
      <4>2. QED
        BY <1>14, <3>1, <4>1 DEF Notify
    <3>2. CASE ~(Len(irq) < IrqCap)
      <4>1. irq # <<>>
        BY <3>2, CapAssumption
      <4>2. QED
        BY <1>14, <3>2, <4>1 DEF Notify
    <3>3. QED
      BY <3>1, <3>2
  <2>3. r_events = {} => irq' = irq
    BY <1>14 DEF Notify
  <2>4. aPc = "notify" /\ aPc' = "wait" /\ UNCHANGED <<a2r_tail, r2a_head, channel_status, piPc, moved>>
    BY <1>14 DEF Notify
  <2>5. CASE r_events = {}
    BY <1>0, <2>3, <2>4, <2>5
  <2>6. CASE r_events # {}
    BY <1>0, <2>2, <2>4, <2>6
  <2>7. QED
    BY <1>0, <2>5, <2>6
<1>15. CASE IntServer
  BY <1>15, <1>0 DEF IntServer
<1>16. CASE ClientEvent
  BY <1>16, <1>0 DEF ClientEvent
<1>17. CASE ReadIrq
  BY <1>17, <1>0 DEF ReadIrq
<1>18. CASE ReadA2RTail
  BY <1>18, <1>0, R2AFacts DEF ReadA2RTail
<1>19. CASE ReadR2AHead
  BY <1>19, <1>0, R2AFacts DEF ReadR2AHead
<1>20. CASE ReceiveA2R
  <2>1. channel_status'.A2R_TAIL = channel_status.A2R_TAIL /\ channel_status'.R2A_HEAD = channel_status.R2A_HEAD
    BY <1>20, R2AFacts DEF ReceiveA2R
  <2>2. QED
    BY <1>0, <1>20, <2>1 DEF ReceiveA2R
<1>21. CASE A2RReceived
  BY <1>21, <1>0 DEF A2RReceived
<1>22. CASE FlushPacket
  <2>1. channel_status'.A2R_TAIL = channel_status.A2R_TAIL /\ channel_status'.R2A_HEAD = channel_status.R2A_HEAD
    BY <1>22, R2AFacts DEF FlushPacket
  <2>2. QED
    BY <1>0, <1>22, <2>1 DEF FlushPacket
<1>23. CASE Flushed
  BY <1>23, <1>0 DEF Flushed
<1>24. ASSUME NEW s \in stores, StoreVisible(s) PROVE RoundNoticed'
  BY <1>24, <1>0 DEF StoreVisible
<1>25. CASE PostEvents
  BY <1>25, <1>0 DEF PostEvents
<1>26. CASE UNCHANGED vars
  BY <1>0, <1>26 DEF vars
<1>27. QED
  BY <1>1, <1>2, <1>3, <1>4, <1>5, <1>6, <1>7, <1>8, <1>9, <1>10, <1>11, <1>12, <1>13, <1>14,
     <1>15, <1>16, <1>17, <1>18, <1>19, <1>20, <1>21, <1>22, <1>23, <1>24, <1>25, <1>26
     DEF Next, DriverStep, IrqStep

(***************************************************************************)
(* A driver that sleeps has moved no index behind the A314 thread's back,  *)
(* but for one that went round to where it was before the round: one the   *)
(* thread has not copied is covered by a byte it has still to read         *)
(* (task_main, a314driver.c:489-509; write_r_events; handle_a314_irq),     *)
(* though a full socket pair drops bytes.                                  *)
(***************************************************************************)
THEOREM DriverGivesNotice == Spec => []NoticePending
<1>1. TypeOK /\ RoundNoticed /\ [Next]_vars => (TypeOK /\ RoundNoticed)'
  BY StepTypeOK, NoticedKept
<1>2. RoundNoticed => NoticePending
  BY DEF RoundNoticed, TailNoticed, HeadNoticed, NoticePending
<1>3. Init => TypeOK /\ RoundNoticed
  BY InitTypeOK, InitNotice
<1>4. QED
  BY <1>1, <1>2, <1>3, PTL DEF Spec

-----------------------------------------------------------------------------
(* Nothing is left when both sides sleep. *)

(***************************************************************************)
(* A request that waits has signalled the driver; the A314 thread leaves   *)
(* no packet it has seen in A2R, and keeps one for R2A only if there is no *)
(* room by the head it knows.                                              *)
(***************************************************************************)
PortSignalled == task_mp # <<>> => aPc = "requests" \/ "MSGPORT" \in signal
A2REmptied == piPc \notin {"status2", "receive"} => channel_status.A2R_HEAD = channel_status.A2R_TAIL
QueueBlocked == piPc \in {"epoll", "publish"} /\ pi_queue # <<>> => ~Fits(Head(pi_queue))

LEMMA PortSignalledKept == ASSUME Forms, PortSignalled, [Next]_vars PROVE PortSignalled'
<1> USE DEF PortSignalled, comArea, locals, amiga, pi, history
<1>1. CASE AppSend
  BY <1>1 DEF AppSend
<1>2. CASE AppRead
  BY <1>2 DEF AppRead
<1>3. CASE WaitReturns
  BY <1>3 DEF WaitReturns, Forms
<1>4. CASE handle_app_request
  BY <1>4 DEF handle_app_request
<1>5. CASE NoMoreRequests
  BY <1>5 DEF NoMoreRequests
<1>6. CASE ReceiveR2A
  BY <1>6 DEF ReceiveR2A
<1>7. CASE R2AEmptied
  BY <1>7 DEF R2AEmptied
<1>8. CASE SendQueued
  BY <1>8 DEF SendQueued
<1>9. CASE NothingToSend
  BY <1>9 DEF NothingToSend
<1>10. CASE DiscardEvents
  BY <1>10 DEF DiscardEvents
<1>11. CASE CheckR2A
  BY <1>11 DEF CheckR2A
<1>12. CASE CheckRoom
  BY <1>12 DEF CheckRoom
<1>13. CASE Enable
  BY <1>13 DEF Enable
<1>14. CASE Notify
  BY <1>14 DEF Notify
<1>15. CASE IntServer
  BY <1>15 DEF IntServer
<1>16. CASE ClientEvent
  BY <1>16 DEF ClientEvent
<1>17. CASE ReadIrq
  BY <1>17 DEF ReadIrq
<1>18. CASE ReadA2RTail
  BY <1>18 DEF ReadA2RTail
<1>19. CASE ReadR2AHead
  BY <1>19 DEF ReadR2AHead
<1>20. CASE ReceiveA2R
  BY <1>20 DEF ReceiveA2R
<1>21. CASE A2RReceived
  BY <1>21 DEF A2RReceived
<1>22. CASE FlushPacket
  BY <1>22 DEF FlushPacket
<1>23. CASE Flushed
  BY <1>23 DEF Flushed
<1>24. ASSUME NEW s \in stores, StoreVisible(s) PROVE PortSignalled'
  BY <1>24 DEF StoreVisible
<1>25. CASE PostEvents
  BY <1>25 DEF PostEvents
<1>26. CASE UNCHANGED vars
  BY <1>26 DEF vars
<1>27. QED
  BY <1>1, <1>2, <1>3, <1>4, <1>5, <1>6, <1>7, <1>8, <1>9, <1>10, <1>11, <1>12, <1>13, <1>14,
     <1>15, <1>16, <1>17, <1>18, <1>19, <1>20, <1>21, <1>22, <1>23, <1>24, <1>25, <1>26
     DEF Next, DriverStep, IrqStep

LEMMA A2REmptiedKept == ASSUME Forms, A2REmptied, [Next]_vars PROVE A2REmptied'
<1> USE DEF A2REmptied, comArea, locals, amiga, pi, history
<1>1. CASE AppSend
  BY <1>1 DEF AppSend
<1>2. CASE AppRead
  BY <1>2 DEF AppRead
<1>3. CASE WaitReturns
  BY <1>3 DEF WaitReturns
<1>4. CASE handle_app_request
  BY <1>4 DEF handle_app_request
<1>5. CASE NoMoreRequests
  BY <1>5 DEF NoMoreRequests
<1>6. CASE ReceiveR2A
  BY <1>6 DEF ReceiveR2A
<1>7. CASE R2AEmptied
  BY <1>7 DEF R2AEmptied
<1>8. CASE SendQueued
  BY <1>8 DEF SendQueued
<1>9. CASE NothingToSend
  BY <1>9 DEF NothingToSend
<1>10. CASE DiscardEvents
  BY <1>10 DEF DiscardEvents
<1>11. CASE CheckR2A
  BY <1>11 DEF CheckR2A
<1>12. CASE CheckRoom
  BY <1>12 DEF CheckRoom
<1>13. CASE Enable
  BY <1>13 DEF Enable
<1>14. CASE Notify
  BY <1>14 DEF Notify
<1>15. CASE IntServer
  BY <1>15 DEF IntServer
<1>16. CASE ClientEvent
  BY <1>16 DEF ClientEvent
<1>17. CASE ReadIrq
  BY <1>17 DEF ReadIrq
<1>18. CASE ReadA2RTail
  BY <1>18 DEF ReadA2RTail, Forms
<1>19. CASE ReadR2AHead
  BY <1>19 DEF ReadR2AHead, Forms
<1>20. CASE ReceiveA2R
  BY <1>20 DEF ReceiveA2R, Forms
<1>21. CASE A2RReceived
  BY <1>21 DEF A2RReceived
<1>22. CASE FlushPacket
  BY <1>22 DEF FlushPacket, Forms
<1>23. CASE Flushed
  BY <1>23 DEF Flushed
<1>24. ASSUME NEW s \in stores, StoreVisible(s) PROVE A2REmptied'
  BY <1>24 DEF StoreVisible
<1>25. CASE PostEvents
  BY <1>25 DEF PostEvents
<1>26. CASE UNCHANGED vars
  BY <1>26 DEF vars
<1>27. QED
  BY <1>1, <1>2, <1>3, <1>4, <1>5, <1>6, <1>7, <1>8, <1>9, <1>10, <1>11, <1>12, <1>13, <1>14,
     <1>15, <1>16, <1>17, <1>18, <1>19, <1>20, <1>21, <1>22, <1>23, <1>24, <1>25, <1>26
     DEF Next, DriverStep, IrqStep

LEMMA QueueBlockedKept == ASSUME QueueBlocked, [Next]_vars PROVE QueueBlocked'
<1> USE DEF QueueBlocked, Fits, comArea, locals, amiga, pi, history
<1>1. CASE AppSend
  BY <1>1 DEF AppSend
<1>2. CASE AppRead
  BY <1>2 DEF AppRead
<1>3. CASE WaitReturns
  BY <1>3 DEF WaitReturns
<1>4. CASE handle_app_request
  BY <1>4 DEF handle_app_request
<1>5. CASE NoMoreRequests
  BY <1>5 DEF NoMoreRequests
<1>6. CASE ReceiveR2A
  BY <1>6 DEF ReceiveR2A
<1>7. CASE R2AEmptied
  BY <1>7 DEF R2AEmptied
<1>8. CASE SendQueued
  BY <1>8 DEF SendQueued
<1>9. CASE NothingToSend
  BY <1>9 DEF NothingToSend
<1>10. CASE DiscardEvents
  BY <1>10 DEF DiscardEvents
<1>11. CASE CheckR2A
  BY <1>11 DEF CheckR2A
<1>12. CASE CheckRoom
  BY <1>12 DEF CheckRoom
<1>13. CASE Enable
  BY <1>13 DEF Enable
<1>14. CASE Notify
  BY <1>14 DEF Notify
<1>15. CASE IntServer
  BY <1>15 DEF IntServer
<1>16. CASE ClientEvent
  BY <1>16 DEF ClientEvent
<1>17. CASE ReadIrq
  BY <1>17 DEF ReadIrq
<1>18. CASE ReadA2RTail
  BY <1>18 DEF ReadA2RTail
<1>19. CASE ReadR2AHead
  BY <1>19 DEF ReadR2AHead
<1>20. CASE ReceiveA2R
  BY <1>20 DEF ReceiveA2R
<1>21. CASE A2RReceived
  BY <1>21 DEF A2RReceived
<1>22. CASE FlushPacket
  BY <1>22 DEF FlushPacket
<1>23. CASE Flushed
  BY <1>23 DEF Flushed
<1>24. ASSUME NEW s \in stores, StoreVisible(s) PROVE QueueBlocked'
  BY <1>24 DEF StoreVisible
<1>25. CASE PostEvents
  BY <1>25 DEF PostEvents
<1>26. CASE UNCHANGED vars
  BY <1>26 DEF vars
<1>27. QED
  BY <1>1, <1>2, <1>3, <1>4, <1>5, <1>6, <1>7, <1>8, <1>9, <1>10, <1>11, <1>12, <1>13, <1>14,
     <1>15, <1>16, <1>17, <1>18, <1>19, <1>20, <1>21, <1>22, <1>23, <1>24, <1>25, <1>26
     DEF Next, DriverStep, IrqStep

RestInv == PortSignalled /\ A2REmptied /\ QueueBlocked

LEMMA RestKept == ASSUME StoresInOrder
                  PROVE  RingInv /\ RestInv /\ [Next]_vars => (RingInv /\ RestInv)'
<1>1. RingInv /\ [Next]_vars => RingInv'
  BY StoresInOrder, RingKept
<1>2. ASSUME RingInv, RestInv, [Next]_vars PROVE RestInv'
  BY <1>2, PortSignalledKept, A2REmptiedKept, QueueBlockedKept DEF RingInv, RestInv
<1>3. QED
  BY <1>1, <1>2

\* Of the packets in a ring, no two end at the same index.
LEMMA OnePlace ==
  ASSUME NEW n \in Nat, NEW off, IsStream(off, n), NEW a \in 0..n, NEW b \in 0..n, NEW c \in 0..a,
         a <= b, off[b] - off[c] < RingSize, NEW i, At(i, off[a]), At(i, off[b])
  PROVE  a = b
<1>1. \A j, k \in 0..n : j < k => off[j] < off[k]
  BY OffsetsGrow
<1>2. off[a] \in Nat /\ off[b] \in Nat /\ off[c] \in Nat /\ c \in 0..n
  BY DEF IsStream
<1>3. (c = a \/ off[c] < off[a]) /\ (a = b \/ off[a] < off[b])
  <2>1. c < a => off[c] < off[a]
    BY <1>1, <1>2
  <2>2. a < b => off[a] < off[b]
    BY <1>1
  <2>3. QED
    BY <2>1, <2>2
<1>4. off[c] <= off[a] /\ off[a] <= off[b]
  BY <1>2, <1>3
<1>5. off[b] - off[a] < RingSize
  BY <1>2, <1>4, SizeType
<1>6. off[a] = off[b]
  BY <1>2, <1>4, <1>5, AtOnce
<1>7. QED
  BY <1>2, <1>3, <1>6

LEMMA NoneLeft ==
  ASSUME RingInv, RestInv, NoticePending, EventPending, Quiet
  PROVE  /\ Len(aGot) = piSent /\ Len(piGot) = aSent /\ pi_queue = <<>> /\ send_queue = <<>>
<1>1. TypeOK /\ PiOwes /\ PiQueue /\ R2ARing /\ A2RRing
  BY DEF RingInv
<1>2. /\ Asleep /\ piPc = "epoll" /\ irq = <<>> /\ aPc = "wait" /\ signal = {}
      /\ a_events \intersect a_enable = {} /\ moved = {} /\ missed = {}
  BY DEF Quiet, Asleep
<1>3. PICK seen \in Nat, tail \in Nat : R2AHolds(seen, tail)
  BY <1>1 DEF R2ARing
<1>4. PICK known \in Nat, copied \in Nat, stored \in Nat : A2RHolds(known, copied, stored) /\ A2RWaits(stored)
  BY <1>1 DEF A2RRing
<1>5. a2r_tail = channel_status.A2R_TAIL /\ r2a_head = channel_status.R2A_HEAD
  BY <1>2 DEF NoticePending
<1>6. r2a_tail = channel_status.R2A_TAIL /\ a2r_head = channel_status.A2R_HEAD
  BY <1>1, <1>2 DEF PiOwes, Level
<1>7. used_in_r2a = 0
  BY <1>2 DEF EventPending, Announced
<1>8. r2a_head = r2a_tail
  <2>1. r2a_head \in 0..(RingSize - 1) /\ r2a_tail \in 0..(RingSize - 1)
    BY <1>1 DEF TypeOK, Index
  <2>2. QED
    BY <1>7, <2>1, SizeType DEF used_in_r2a, Dist
<1>9. aRead = piFlushed
  <2>1. aRead \in 0..R2ACount /\ piFlushed \in 0..R2ACount
    BY <1>1, <1>3, R2AFacts DEF R2AHolds
  <2>2. At(r2a_head, R2AOff[aRead]) /\ At(r2a_head, R2AOff[piFlushed])
    BY <1>3, <1>6, <1>8 DEF R2AHolds, R2AIndices
  <2>3. seen \in 0..aRead /\ R2AOff[piFlushed] - R2AOff[seen] < RingSize /\ tail \in aRead..piFlushed
    BY <1>3 DEF R2AHolds
  <2>4. aRead <= piFlushed
    BY <2>1, <2>3
  <2>5. QED
    BY <2>1, <2>2, <2>3, <2>4, OnePlace, StreamAssumption
<1>10. pi_queue = <<>>
  <2>1. SUFFICES ASSUME pi_queue # <<>> PROVE FALSE
    OBVIOUS
  <2>2. pi_queue \in Seq(R2APackets) /\ Head(pi_queue) \in R2APackets
    BY <1>1, <2>1 DEF TypeOK
  <2>3. LenIn(R2AOff, Head(pi_queue)) \in 1..(RingSize - 1)
    BY <2>2, LenInType
  <2>4. Dist(channel_status.R2A_TAIL, channel_status.R2A_HEAD) = 0
    BY <1>5, <1>6, <1>7 DEF used_in_r2a
  <2>5. Fits(Head(pi_queue))
    BY <2>3, <2>4, SizeType DEF Fits
  <2>6. QED
    BY <1>2, <2>1, <2>5 DEF RestInv, QueueBlocked
<1>11. aRead = piSent
  <2>1. Len(pi_queue) = 0
    BY <1>10
  <2>2. piSent \in Nat
    BY <1>1, R2AFacts
  <2>3. QED
    BY <1>9, <2>1, <2>2 DEF piFlushed
<1>12. a2r_head = a2r_tail
  BY <1>2, <1>5, <1>6 DEF RestInv, A2REmptied
<1>13. piRead = stored
  <2>1. piRead \in 0..A2RCount /\ stored \in 0..A2RCount
    BY <1>1, <1>4, A2RNumbers
  <2>2. At(a2r_tail, A2ROff[piRead]) /\ At(a2r_tail, A2ROff[stored])
    BY <1>4, <1>6, <1>12 DEF A2RHolds, A2RIndices
  <2>3. known \in 0..piRead /\ A2ROff[stored] - A2ROff[known] < RingSize /\ copied \in piRead..stored
    BY <1>4 DEF A2RHolds
  <2>4. piRead <= stored
    BY <2>1, <2>3
  <2>5. QED
    BY <2>1, <2>2, <2>3, <2>4, OnePlace, StreamAssumption
<1>14. send_queue = <<>>
  <2>1. SUFFICES ASSUME send_queue # <<>> PROVE FALSE
    OBVIOUS
  <2>2. send_queue \in Seq(A2RPackets) /\ Head(send_queue) \in A2RPackets
    BY <1>1, <2>1 DEF TypeOK
  <2>3. LenIn(A2ROff, Head(send_queue)) \in 1..(RingSize - 1)
    BY <2>2, LenInType
  <2>4. used_in_a2r = 0
    <3>1. a2r_tail \in 0..(RingSize - 1)
      BY <1>1 DEF TypeOK, Index
    <3>2. QED
      BY <1>12, <3>1 DEF used_in_a2r, Dist
  <2>5. room_in_a2r(Head(send_queue))
    BY <2>3, <2>4, SizeType DEF room_in_a2r
  <2>6. QED
    BY <1>2, <2>1, <2>5 DEF EventPending, Announced
<1>15. piRead = aSent
  <2>1. Len(send_queue) = 0 /\ stored \in Nat
    BY <1>14
  <2>2. task_mp = <<>>
    BY <1>2 DEF RestInv, PortSignalled
  <2>3. Len(task_mp) = 0
    BY <2>2
  <2>4. PortHolds(stored)
    BY <1>4, <2>1 DEF A2RWaits
  <2>5. stored \in 0..aSent /\ \A k \in (stored + 1)..aSent : FALSE
    BY <2>3, <2>4 DEF PortHolds
  <2>6. aSent \in Nat
    BY <1>1, A2RFacts
  <2>7. stored = aSent
    <3>1. SUFFICES ASSUME stored # aSent PROVE FALSE
      OBVIOUS
    <3>2. aSent \in (stored + 1)..aSent
      BY <2>5, <2>6, <3>1
    <3>3. QED
      BY <2>5, <3>2
  <2>8. QED
    BY <1>13, <2>7
<1>16. QED
  BY <1>10, <1>11, <1>14, <1>15 DEF aRead, piRead

(***************************************************************************)
(* When the driver sleeps without an event that an interrupt would find    *)
(* and the A314 thread waits in epoll without a byte to read, every packet *)
(* that was handed over has been read, at both ends, and no queue holds    *)
(* any (task_main and main_loop together), unless an event was missed or   *)
(* an index went round unnoticed.                                          *)
(***************************************************************************)
THEOREM NoneStranded == ASSUME StoresInOrder PROVE Spec => []NothingStranded
<1>1. RingInv /\ RestInv /\ [Next]_vars => (RingInv /\ RestInv)'
  BY StoresInOrder, RestKept
<1>2. Init => RingInv /\ RestInv
  <2>1. ASSUME Init PROVE RestInv
    BY <2>1 DEF Init, RestInv, PortSignalled, A2REmptied, QueueBlocked
  <2>2. QED
    BY <2>1, InitRing
<1>3. RingInv /\ RestInv /\ NoticePending /\ EventPending => NothingStranded
  BY NoneLeft DEF NothingStranded
<1>4. Spec => []NoticePending
  BY DriverGivesNotice
<1>5. Spec => []EventPending
  BY NoLostWakeup
<1>6. QED
  BY <1>1, <1>2, <1>3, <1>4, <1>5, PTL DEF Spec
=============================================================================
