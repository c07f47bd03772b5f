------------------------------- MODULE A314Link -------------------------------
(***************************************************************************)
(* The physical channel of the A314 emulation: the communication area      *)
(* (struct ComArea) shared by a314.device on the Amiga (a314driver.c,      *)
(* int_server.asm) and the A314 thread of the emulator (a314.cc).          *)
(*                                                                         *)
(* Each direction is a ring of RingSize bytes with a tail the producer     *)
(* stores and a head the consumer stores.  The Pi announces that it moved  *)
(* r2a_tail or a2r_head by setting bits of a_events.  Nobody is told:      *)
(* a314_process_events (a314.cc:1431), which would raise INTB_PORTS for    *)
(* them, has no caller.  They are found when an application calls the      *)
(* driver, or when another device raises INTB_PORTS while the same bit of  *)
(* a_enable is set.  The Amiga announces a2r_tail and r2a_head by writing  *)
(* r_events, one byte in a socket pair.                                    *)
(*                                                                         *)
(* A packet is its number in its direction: every byte of packet k in the  *)
(* ring is k, and a byte never written is 0.  What packets mean to         *)
(* channels and clients is left to A314Channels; so is the one packet that *)
(* the driver sends by itself, the RESET of a socket whose read was too    *)
(* short (handle_pkt_data).                                                *)
(***************************************************************************)
EXTENDS Integers, Sequences

CONSTANTS
  RingSize,      \* bytes of a2r_buffer and of r2a_buffer (256)
  HeaderSize,    \* length, type and channel bytes of a packet (3)
  A2RCount, R2ACount,  \* bound: packets the applications and the services send
  A2ROff,        \* A2ROff[k]: bytes of the first k packets the applications send
  R2AOff,        \* R2AOff[k]: bytes of the first k packets the services send
  PortCap,       \* bound: requests waiting in task_mp
  IrqCap,        \* bytes the irq socket pair holds before a write fails, one at least
  StoresInOrder  \* the Amiga sees the stores of the Pi thread in program order

Index == 0..(RingSize - 1)
A2RPackets == 1..A2RCount
R2APackets == 1..R2ACount

(***************************************************************************)
(* off lists where n packets end in the unrolled byte stream: each is at   *)
(* least a header long and fits in an empty ring.                          *)
(***************************************************************************)
IsStream(off, n) ==
  /\ off \in [0..n -> Nat]
  /\ off[0] = 0
  /\ \A k \in 1..n : off[k] - off[k - 1] \in HeaderSize..(RingSize - 1)

ASSUME RingAssumption == /\ RingSize \in Nat /\ HeaderSize \in Nat
                         /\ 0 < HeaderSize /\ HeaderSize < RingSize
ASSUME StreamAssumption == /\ A2RCount \in Nat /\ IsStream(A2ROff, A2RCount)
                           /\ R2ACount \in Nat /\ IsStream(R2AOff, R2ACount)
ASSUME CapAssumption == PortCap \in Nat /\ IrqCap \in Nat \ {0}
ASSUME OrderAssumption == StoresInOrder \in BOOLEAN

AEvents == {"R2A_TAIL", "A2R_HEAD"}
REvents == {"A2R_TAIL", "R2A_HEAD"}

VARIABLES
  \* struct ComArea
  a_events, a_enable, a2r_tail, r2a_head, r2a_tail, a2r_head, a2r_buffer, r2a_buffer,
  \* a314.device
  aPc,             \* where task_main is
  signal,          \* signals of the task that Wait has not returned yet
  task_mp,         \* requests in the message port: a packet, or 0 for one that sends none
  send_queue,      \* packets that found no room in A2R
  prev_a2r_tail, prev_r2a_head, r_events,   \* locals of task_main
  \* the A314 thread of the emulator
  irq,             \* the bytes in the irq socket pair
  piPc,            \* where main_loop is
  channel_status,  \* its copy of the four indices
  channel_status_updated,
  pi_queue,        \* packets of all channels in the order send_queue serves them
  send_buf,        \* packets of this flush, with their place in r2a_buffer
  stores,          \* stores of this round the Amiga does not see yet
  \* what has been handed over and what has been read
  aSent, piSent, aGot, piGot,
  \* the two ways in which a call is lost
  moved,           \* indices of the driver's that moved, seen as unmoved at the end of the round
  missed           \* events that IntServer read after the driver's last look at what they tell

comArea == <<a_events, a_enable, a2r_tail, r2a_head, r2a_tail, a2r_head, a2r_buffer, r2a_buffer>>
locals == <<prev_a2r_tail, prev_r2a_head, r_events, moved>>
amiga == <<aPc, signal, task_mp, send_queue, locals>>
pi == <<piPc, channel_status, channel_status_updated, pi_queue, send_buf, stores>>
history == <<aSent, piSent, aGot, piGot, missed>>
vars == <<comArea, amiga, irq, pi, history>>

-----------------------------------------------------------------------------
(* Index arithmetic on UBYTE and uint8_t indices. *)

Dist(tail, head) == IF tail >= head THEN tail - head ELSE tail - head + RingSize
Wrap(i) == IF i >= RingSize THEN i - RingSize ELSE i

LenIn(off, k) == off[k] - off[k - 1]

(***************************************************************************)
(* The packet a reader finds at index i: the header byte gives the length  *)
(* (a zero byte reads as an empty packet), and the packet is intact when   *)
(* all its bytes were written as one.                                      *)
(***************************************************************************)
LenAt(buf, off, i) == IF buf[i] = 0 THEN HeaderSize ELSE LenIn(off, buf[i])
ReadAt(buf, off, i) ==
  IF \A d \in 0..(LenAt(buf, off, i) - 1) : buf[Wrap(i + d)] = buf[i] THEN buf[i] ELSE 0

\* buf after packet k of n bytes is stored from index i on
Put(buf, i, k, n) == [j \in Index |-> IF Dist(j, i) < n THEN k ELSE buf[j]]

used_in_r2a == Dist(r2a_tail, r2a_head)
used_in_a2r == Dist(a2r_tail, a2r_head)
room_in_a2r(k) == used_in_a2r + LenIn(A2ROff, k) <= RingSize - 1

-----------------------------------------------------------------------------
Init ==
  /\ a_events = {} /\ a_enable = {"R2A_TAIL"}
  /\ a2r_tail = 0 /\ r2a_head = 0 /\ r2a_tail = 0 /\ a2r_head = 0
  /\ a2r_buffer = [i \in Index |-> 0] /\ r2a_buffer = [i \in Index |-> 0]
  /\ aPc = "wait" /\ signal = {} /\ task_mp = <<>> /\ send_queue = <<>>
  /\ prev_a2r_tail = 0 /\ prev_r2a_head = 0 /\ r_events = {}
  /\ irq = <<>> /\ piPc = "epoll"
  /\ channel_status = [A2R_TAIL |-> 0, R2A_HEAD |-> 0, R2A_TAIL |-> 0, A2R_HEAD |-> 0]
  /\ channel_status_updated = {} /\ pi_queue = <<>> /\ send_buf = {} /\ stores = {}
  /\ aSent = 0 /\ piSent = 0 /\ aGot = <<>> /\ piGot = <<>>
  /\ moved = {} /\ missed = {}

-----------------------------------------------------------------------------
(* a314.device: applications, the driver task and its interrupt server. *)

\* BeginIO of a request that sends a packet: CONNECT, WRITE, EOS or RESET
AppSend ==
  /\ aSent + 1 \in A2RPackets /\ Len(task_mp) < PortCap
  /\ aSent' = aSent + 1
  /\ task_mp' = Append(task_mp, aSent + 1)
  /\ signal' = signal \union {"MSGPORT"}
  /\ UNCHANGED <<comArea, aPc, send_queue, locals, irq, pi, piSent, aGot, piGot, missed>>

(***************************************************************************)
(* BeginIO of a request that sends none, a READ.  Any number may come, but *)
(* the driver's task priority is above an application's: they come while   *)
(* the driver waits.                                                       *)
(***************************************************************************)
AppRead ==
  /\ aPc = "wait" /\ Len(task_mp) < PortCap
  /\ task_mp' = Append(task_mp, 0)
  /\ signal' = signal \union {"MSGPORT"}
  /\ UNCHANGED <<comArea, aPc, send_queue, locals, irq, pi, history>>

\* Wait returns; on MSGPORT the driver disables events before it looks at the port
WaitReturns ==
  /\ aPc = "wait" /\ signal # {}
  /\ signal' = {} /\ missed' = {}
  /\ prev_a2r_tail' = a2r_tail /\ prev_r2a_head' = r2a_head
  /\ IF "MSGPORT" \in signal
       THEN a_enable' = {} /\ aPc' = "requests"
       ELSE aPc' = "received" /\ UNCHANGED a_enable
  /\ UNCHANGED <<a_events, a2r_tail, r2a_head, r2a_tail, a2r_head, a2r_buffer, r2a_buffer,
                 task_mp, send_queue, r_events, moved, irq, pi, aSent, piSent, aGot, piGot>>

\* slip: a tail wider than UBYTE
append_a2r_packetWide(k) ==
  /\ a2r_buffer' = Put(a2r_buffer, a2r_tail, k, LenIn(A2ROff, k))
  /\ a2r_tail' = a2r_tail + LenIn(A2ROff, k)
  /\ moved' = moved \union {"A2R_TAIL"}

append_a2r_packet(k) ==
  /\ a2r_buffer' = Put(a2r_buffer, a2r_tail, k, LenIn(A2ROff, k))
  /\ a2r_tail' = Wrap(a2r_tail + LenIn(A2ROff, k))
  /\ moved' = moved \union {"A2R_TAIL"}

handle_app_request ==
  /\ aPc = "requests" /\ task_mp # <<>>
  /\ task_mp' = Tail(task_mp)
  /\ LET k == Head(task_mp) IN
       \/ k = 0 /\ UNCHANGED <<a2r_buffer, a2r_tail, moved, send_queue>>
       \/ /\ k # 0 /\ send_queue = <<>> /\ room_in_a2r(k)
          /\ append_a2r_packet(k) /\ UNCHANGED send_queue
       \/ /\ k # 0 /\ ~(send_queue = <<>> /\ room_in_a2r(k))
          /\ send_queue' = Append(send_queue, k) /\ UNCHANGED <<a2r_buffer, a2r_tail, moved>>
  /\ UNCHANGED <<a_events, a_enable, r2a_head, r2a_tail, a2r_head, r2a_buffer,
                 aPc, signal, prev_a2r_tail, prev_r2a_head, r_events, irq, pi, history>>

\* GetMsg returns NULL
NoMoreRequests ==
  /\ aPc = "requests" /\ task_mp = <<>>
  /\ aPc' = "received"
  /\ UNCHANGED <<comArea, signal, task_mp, send_queue, locals, irq, pi, history>>

\* one turn of the loop of handle_packets_received_r2a
ReceiveR2A ==
  /\ aPc = "received" /\ used_in_r2a # 0
  /\ aGot' = Append(aGot, ReadAt(r2a_buffer, R2AOff, r2a_head))
  /\ r2a_head' = Wrap(r2a_head + LenAt(r2a_buffer, R2AOff, r2a_head))
  /\ moved' = moved \union {"R2A_HEAD"}
  /\ UNCHANGED <<a_events, a_enable, a2r_tail, r2a_tail, a2r_head, a2r_buffer, r2a_buffer,
                 aPc, signal, task_mp, send_queue, prev_a2r_tail, prev_r2a_head, r_events,
                 irq, pi, aSent, piSent, piGot, missed>>

R2AEmptied ==
  /\ aPc = "received" /\ used_in_r2a = 0
  /\ aPc' = "room"
  /\ UNCHANGED <<comArea, signal, task_mp, send_queue, locals, irq, pi, history>>

\* one turn of the loop of handle_room_in_a2r
SendQueued ==
  /\ aPc = "room" /\ send_queue # <<>> /\ room_in_a2r(Head(send_queue))
  /\ append_a2r_packet(Head(send_queue))
  /\ send_queue' = Tail(send_queue)
  /\ UNCHANGED <<a_events, a_enable, r2a_head, r2a_tail, a2r_head, r2a_buffer,
                 aPc, signal, task_mp, prev_a2r_tail, prev_r2a_head, r_events,
                 irq, pi, history>>

\* the indices that are where they were before the round, moved or not
SeenUnmoved == {e \in REvents : \/ e = "A2R_TAIL" /\ a2r_tail = prev_a2r_tail
                                \/ e = "R2A_HEAD" /\ r2a_head = prev_r2a_head}

\* slip: only the tail is compared with its value before the round
NothingToSendTailOnly ==
  /\ aPc = "room" /\ ~(send_queue # <<>> /\ room_in_a2r(Head(send_queue)))
  /\ aPc' = "discard"
  /\ r_events' = {e \in REvents : e = "A2R_TAIL" /\ a2r_tail # prev_a2r_tail}
  /\ moved' = moved \intersect SeenUnmoved
  /\ UNCHANGED <<comArea, signal, task_mp, send_queue, prev_a2r_tail, prev_r2a_head,
                 irq, pi, history>>

NothingToSend ==
  /\ aPc = "room" /\ ~(send_queue # <<>> /\ room_in_a2r(Head(send_queue)))
  /\ aPc' = "discard"
  /\ r_events' = {e \in REvents : \/ e = "A2R_TAIL" /\ a2r_tail # prev_a2r_tail
                                  \/ e = "R2A_HEAD" /\ r2a_head # prev_r2a_head}
  /\ moved' = moved \intersect SeenUnmoved
  /\ UNCHANGED <<comArea, signal, task_mp, send_queue, prev_a2r_tail, prev_r2a_head,
                 irq, pi, history>>

\* discard_value = ca->a_events: reading a_events clears it
DiscardEvents ==
  /\ aPc = "discard"
  /\ a_events' = {} /\ missed' = {} /\ aPc' = "check"
  /\ UNCHANGED <<a_enable, a2r_tail, r2a_head, r2a_tail, a2r_head, a2r_buffer, r2a_buffer,
                 signal, task_mp, send_queue, locals, irq, pi, aSent, piSent, aGot, piGot>>

\* ca->r2a_head == ca->r2a_tail: go on to a_enable, or round the loop again
CheckR2A ==
  /\ aPc = "check"
  /\ aPc' = CASE used_in_r2a # 0 -> "received"
              [] used_in_r2a = 0 /\ send_queue = <<>> -> "enable"
              [] OTHER -> "checkRoom"
  /\ UNCHANGED <<comArea, signal, task_mp, send_queue, locals, irq, pi, history>>

CheckRoom ==
  /\ aPc = "checkRoom"
  /\ aPc' = IF room_in_a2r(Head(send_queue)) THEN "received" ELSE "enable"
  /\ UNCHANGED <<comArea, signal, task_mp, send_queue, locals, irq, pi, history>>

\* slip: A2R_HEAD is never enabled
EnableTailOnly ==
  /\ aPc = "enable"
  /\ a_enable' = {"R2A_TAIL"}
  /\ aPc' = "notify"
  /\ UNCHANGED <<a_events, a2r_tail, r2a_head, r2a_tail, a2r_head, a2r_buffer, r2a_buffer,
                 signal, task_mp, send_queue, locals, irq, pi, history>>

Enable ==
  /\ aPc = "enable"
  /\ a_enable' = IF send_queue = <<>> THEN {"R2A_TAIL"} ELSE {"R2A_TAIL", "A2R_HEAD"}
  /\ aPc' = "notify"
  /\ UNCHANGED <<a_events, a2r_tail, r2a_head, r2a_tail, a2r_head, a2r_buffer, r2a_buffer,
                 signal, task_mp, send_queue, locals, irq, pi, history>>

\* slip: no byte is written while the A314 thread is at work on another
NotifyWhenIdle ==
  /\ aPc = "notify"
  /\ aPc' = "wait"
  /\ irq' = IF r_events # {} /\ irq = <<>> /\ piPc = "epoll" THEN Append(irq, r_events) ELSE irq
  /\ UNCHANGED <<comArea, signal, task_mp, send_queue, locals, pi, history>>

(***************************************************************************)
(* ca->r_events = r_events, which the emulator turns into a write of one   *)
(* byte to the nonblocking socket pair (write_r_events): a full socket     *)
(* only logs an error.                                                     *)
(***************************************************************************)
Notify ==
  /\ aPc = "notify"
  /\ aPc' = "wait"
  /\ irq' = IF r_events # {} /\ Len(irq) < IrqCap THEN Append(irq, r_events) ELSE irq
  /\ UNCHANGED <<comArea, signal, task_mp, send_queue, locals, pi, history>>

(***************************************************************************)
(* Another device of level 2 raises INTB_PORTS, a CIA or the keyboard the  *)
(* emulator emulates, at any time.  IntServer reads a_events, which clears *)
(* it, whether or not the event was enabled.                               *)
(***************************************************************************)
LookedAt == CASE aPc = "checkRoom" -> {"R2A_TAIL"}
              [] aPc = "enable" -> AEvents
              [] OTHER -> {}

IntServer ==
  /\ a_events' = {}
  /\ IF a_events \intersect a_enable # {}
       THEN a_enable' = {} /\ signal' = signal \union {"INT"}
       ELSE UNCHANGED <<a_enable, signal>>
  /\ missed' = missed \union (a_events \intersect LookedAt)
  /\ UNCHANGED <<a2r_tail, r2a_head, r2a_tail, a2r_head, a2r_buffer, r2a_buffer,
                 aPc, task_mp, send_queue, locals, irq, pi, aSent, piSent, aGot, piGot>>

-----------------------------------------------------------------------------
(* The A314 thread: main_loop serves one epoll event at a time. *)

\* a byte of the irq socket pair: handle_a314_irq
ReadIrq ==
  /\ piPc = "epoll" /\ irq # <<>>
  /\ irq' = Tail(irq)
  /\ piPc' = "status"
  /\ UNCHANGED <<comArea, amiga, channel_status, channel_status_updated, pi_queue, send_buf,
                 stores, history>>

\* read_channel_status reads the two indices of the Amiga one after the other
ReadA2RTail ==
  /\ piPc = "status"
  /\ channel_status' = [channel_status EXCEPT !.A2R_TAIL = a2r_tail]
  /\ piPc' = "status2"
  /\ UNCHANGED <<comArea, amiga, irq, channel_status_updated, pi_queue, send_buf, stores, history>>

ReadR2AHead ==
  /\ piPc = "status2"
  /\ channel_status' = [channel_status EXCEPT !.R2A_HEAD = r2a_head,
                                              !.R2A_TAIL = r2a_tail, !.A2R_HEAD = a2r_head]
  /\ channel_status_updated' = {}
  /\ piPc' = "receive"
  /\ UNCHANGED <<comArea, amiga, irq, pi_queue, send_buf, stores, history>>

\* one packet of the copy receive_from_a2r takes of the ring up to the tail it read
ReceiveA2R ==
  /\ piPc = "receive" /\ channel_status.A2R_HEAD # channel_status.A2R_TAIL
  /\ LET i == channel_status.A2R_HEAD IN
       /\ piGot' = Append(piGot, ReadAt(a2r_buffer, A2ROff, i))
       /\ channel_status' =
            [channel_status EXCEPT !.A2R_HEAD = Wrap(i + LenAt(a2r_buffer, A2ROff, i))]
  /\ channel_status_updated' = channel_status_updated \union {"A2R_HEAD"}
  /\ UNCHANGED <<comArea, amiga, irq, piPc, pi_queue, send_buf, stores, aSent, piSent, aGot, missed>>

A2RReceived ==
  /\ piPc = "receive" /\ channel_status.A2R_HEAD = channel_status.A2R_TAIL
  /\ piPc' = "flush"
  /\ UNCHANGED <<comArea, amiga, irq, channel_status, channel_status_updated, pi_queue,
                 send_buf, stores, history>>

\* a message of a client that queues a packet (handle_client_connection_event)
ClientEvent ==
  /\ piPc = "epoll" /\ piSent + 1 \in R2APackets
  /\ piSent' = piSent + 1
  /\ pi_queue' = Append(pi_queue, piSent + 1)
  /\ piPc' = "flush"
  /\ UNCHANGED <<comArea, amiga, irq, channel_status, channel_status_updated, send_buf,
                 stores, aSent, aGot, piGot, missed>>

\* flush_send_queue compares with the head read at the last irq
Fits(k) ==
  LenIn(R2AOff, k)
    <= RingSize - 1 - Dist(channel_status.R2A_TAIL, channel_status.R2A_HEAD)

FlushPacket ==
  /\ piPc = "flush" /\ pi_queue # <<>> /\ Fits(Head(pi_queue))
  /\ LET k == Head(pi_queue)
         t == channel_status.R2A_TAIL IN
       /\ send_buf' = send_buf \union {[packet |-> k, at |-> t]}
       /\ channel_status' =
            [channel_status EXCEPT !.R2A_TAIL = Wrap(t + LenIn(R2AOff, k))]
  /\ pi_queue' = Tail(pi_queue)
  /\ channel_status_updated' = channel_status_updated \union {"R2A_TAIL"}
  /\ UNCHANGED <<comArea, amiga, irq, piPc, stores, history>>

\* slip: packets received are not announced unless some are sent
FlushedIfSent ==
  /\ piPc = "flush" /\ ~(pi_queue # <<>> /\ Fits(Head(pi_queue)))
  /\ IF "R2A_TAIL" \notin channel_status_updated
       THEN piPc' = "epoll" /\ UNCHANGED stores
       ELSE piPc' = "publish" /\ stores' = {"buffer", "r2a_tail", "a2r_head"}
  /\ UNCHANGED <<comArea, amiga, irq, channel_status, channel_status_updated, pi_queue,
                 send_buf, history>>

Flushed ==
  /\ piPc = "flush" /\ ~(pi_queue # <<>> /\ Fits(Head(pi_queue)))
  /\ IF channel_status_updated = {}
       THEN piPc' = "epoll" /\ UNCHANGED stores
       ELSE piPc' = "publish" /\ stores' = {"buffer", "r2a_tail", "a2r_head"}
  /\ UNCHANGED <<comArea, amiga, irq, channel_status, channel_status_updated, pi_queue,
                 send_buf, history>>

(***************************************************************************)
(* The copy into r2a_buffer and the two index stores of                    *)
(* write_channel_status.  They are plain stores: nothing before the mutex  *)
(* orders them for the thread that emulates the Amiga.                     *)
(***************************************************************************)
EarlierTail(s) == IF s = "buffer" THEN {"r2a_tail"} ELSE {}   \* slip: the tail first
Earlier(s) == CASE s = "buffer" -> {}
                [] s = "r2a_tail" -> {"buffer"}
                [] s = "a2r_head" -> {"buffer", "r2a_tail"}

Copied(buf) ==
  [j \in Index |->
     IF \E p \in send_buf : Dist(j, p.at) < LenIn(R2AOff, p.packet)
       THEN (CHOOSE p \in send_buf : Dist(j, p.at) < LenIn(R2AOff, p.packet)).packet
       ELSE buf[j]]

StoreVisible(s) ==
  /\ piPc = "publish" /\ s \in stores
  /\ StoresInOrder => Earlier(s) \intersect stores = {}
  /\ stores' = stores \ {s}
  /\ IF s = "buffer" THEN r2a_buffer' = Copied(r2a_buffer) /\ send_buf' = {}
                     ELSE UNCHANGED <<r2a_buffer, send_buf>>
  /\ r2a_tail' = IF s = "r2a_tail" THEN channel_status.R2A_TAIL ELSE r2a_tail
  /\ a2r_head' = IF s = "a2r_head" THEN channel_status.A2R_HEAD ELSE a2r_head
  /\ UNCHANGED <<a_events, a_enable, a2r_tail, r2a_head, a2r_buffer, amiga, irq,
                 piPc, channel_status, channel_status_updated, pi_queue, history>>

\* the critical section of write_channel_status: all stores are visible by its end
PostEvents ==
  /\ piPc = "publish" /\ stores = {}
  /\ a_events' = a_events \union channel_status_updated
  /\ channel_status_updated' = {}
  /\ piPc' = "epoll"
  /\ UNCHANGED <<a_enable, a2r_tail, r2a_head, r2a_tail, a2r_head, a2r_buffer, r2a_buffer,
                 amiga, irq, channel_status, pi_queue, send_buf, stores, history>>

-----------------------------------------------------------------------------
DriverStep ==
  \/ WaitReturns \/ handle_app_request \/ NoMoreRequests \/ ReceiveR2A \/ R2AEmptied
  \/ SendQueued \/ NothingToSend \/ DiscardEvents \/ CheckR2A \/ CheckRoom \/ Enable \/ Notify

IrqStep ==
  \/ ReadIrq \/ ReadA2RTail \/ ReadR2AHead \/ ReceiveA2R \/ A2RReceived
  \/ FlushPacket \/ Flushed \/ (\E s \in stores : StoreVisible(s)) \/ PostEvents

Next == AppSend \/ AppRead \/ DriverStep \/ IntServer \/ ClientEvent \/ IrqStep

Spec == Init /\ [][Next]_vars

(***************************************************************************)
(* The driver task and the A314 thread are scheduled.  Nothing makes an    *)
(* application or a client act, and nothing makes a device interrupt: the  *)
(* driver sleeps until one does.                                           *)
(***************************************************************************)
Fairness == WF_vars(DriverStep) /\ WF_vars(IrqStep)
FairSpec == Spec /\ Fairness

-----------------------------------------------------------------------------
(* Types. *)

TypeOK ==
  /\ a_events \subseteq AEvents /\ a_enable \subseteq AEvents
  /\ a2r_tail \in Index /\ r2a_head \in Index /\ r2a_tail \in Index /\ a2r_head \in Index
  /\ a2r_buffer \in [Index -> {0} \union A2RPackets]
  /\ r2a_buffer \in [Index -> {0} \union R2APackets]
  /\ aPc \in {"wait", "requests", "received", "room", "discard", "check", "checkRoom",
              "enable", "notify"}
  /\ signal \subseteq {"MSGPORT", "INT"}
  /\ task_mp \in Seq({0} \union A2RPackets) /\ send_queue \in Seq(A2RPackets)
  /\ prev_a2r_tail \in Index /\ prev_r2a_head \in Index /\ r_events \subseteq REvents
  /\ irq \in Seq(SUBSET REvents)
  /\ piPc \in {"epoll", "status", "status2", "receive", "flush", "publish"}
  /\ channel_status \in [{"A2R_TAIL", "R2A_HEAD", "R2A_TAIL", "A2R_HEAD"} -> Index]
  /\ channel_status_updated \subseteq AEvents
  /\ pi_queue \in Seq(R2APackets)
  /\ send_buf \subseteq [packet : R2APackets, at : Index]
  /\ stores \subseteq {"buffer", "r2a_tail", "a2r_head"}
  /\ aSent \in 0..A2RCount /\ piSent \in 0..R2ACount
  /\ aGot \in Seq({0} \union R2APackets) /\ piGot \in Seq({0} \union A2RPackets)
  /\ moved \subseteq REvents /\ missed \subseteq AEvents

(***************************************************************************)
(* Every packet arrives once, whole and in the order it was handed over:   *)
(* neither producer overwrites bytes the consumer has not read, though     *)
(* each judges the room by a copy of the other's index that may be old.    *)
(***************************************************************************)
DeliveredInOrder ==
  /\ \A k \in DOMAIN aGot : aGot[k] = k
  /\ \A k \in DOMAIN piGot : piGot[k] = k

(***************************************************************************)
(* While the driver sleeps, an index of its own that the A314 thread has   *)
(* not copied is covered by a byte the thread has still to read, though a  *)
(* byte is lost when the socket pair is full.  The one exception is an     *)
(* index that went round the ring, once or more, back to where it was      *)
(* before the round: task_main takes it for unmoved.                       *)
(***************************************************************************)
NoticePending ==
  aPc = "wait" =>
    /\ a2r_tail # channel_status.A2R_TAIL =>
         irq # <<>> \/ piPc = "status" \/ "A2R_TAIL" \in moved
    /\ r2a_head # channel_status.R2A_HEAD =>
         irq # <<>> \/ piPc \in {"status", "status2"} \/ "R2A_HEAD" \in moved

(***************************************************************************)
(* While the driver sleeps, a packet in R2A, or room the head of its send  *)
(* queue is waiting for, is covered by an enabled event that is set, or    *)
(* that the A314 thread is about to set, so that the next interrupt wakes  *)
(* the driver.  The one exception is an event that IntServer, called for   *)
(* another device, read between the driver's last look and its store of    *)
(* a_enable.                                                               *)
(***************************************************************************)
Asleep == aPc = "wait" /\ signal = {}
Announced(e) == e \in a_enable /\ \/ e \in a_events
                                  \/ piPc = "publish" /\ e \in channel_status_updated
EventPending ==
  Asleep =>
    /\ used_in_r2a # 0 => Announced("R2A_TAIL") \/ "R2A_TAIL" \in missed
    /\ send_queue # <<>> /\ room_in_a2r(Head(send_queue)) =>
         Announced("A2R_HEAD") \/ "A2R_HEAD" \in missed

(***************************************************************************)
(* There are no other ways to lose a call: when both sides sleep, no       *)
(* enabled event is set and none was missed, and no index went round the   *)
(* ring unnoticed, every packet handed over has been delivered.            *)
(***************************************************************************)
Quiet == /\ Asleep /\ a_events \intersect a_enable = {}
         /\ piPc = "epoll" /\ irq = <<>>
         /\ moved = {} /\ missed = {}
NothingStranded == Quiet => /\ Len(aGot) = piSent /\ Len(piGot) = aSent
                            /\ pi_queue = <<>> /\ send_queue = <<>>

(***************************************************************************)
(* What the services queue for the Amiga all reaches the driver, provided  *)
(* that the driver is woken again and again, by requests or by interrupts  *)
(* that find an event set, and that no index went round the ring           *)
(* unnoticed.  The program itself does not wake the driver.                *)
(***************************************************************************)
DriverWoken == []<><<WaitReturns>>_vars
WentRound == aPc = "wait" /\ moved # {}
R2ADelivered ==
  DriverWoken => (Len(aGot) < piSent ~> Len(aGot) = piSent \/ WentRound)

(***************************************************************************)
(* What the applications send all reaches the A314 thread without another  *)
(* wakeup, but for packets left in the send queue for want of room; those  *)
(* too if the driver is woken again and again.                             *)
(***************************************************************************)
A2RDelivered ==
  /\ Len(piGot) < aSent ~> Len(piGot) + Len(send_queue) = aSent \/ WentRound
  /\ DriverWoken => (Len(piGot) < aSent ~> Len(piGot) = aSent \/ WentRound)

(***************************************************************************)
(* "Events that are communicated from Raspberry to Amiga" (a314.cc:65): a  *)
(* packet in R2A reaches the driver at least if other devices interrupt    *)
(* the Amiga so often that no event stays set.                             *)
(***************************************************************************)
EventsCommunicated ==
  []<>(a_events = {}) => (Len(aGot) < piSent ~> Len(aGot) = piSent)
=============================================================================
