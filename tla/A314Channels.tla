----------------------------- MODULE A314Channels -----------------------------
(***************************************************************************)
(* The logical channels of the A314 emulation.  An application opens a     *)
(* socket of a314.device, which becomes a stream of packets CONNECT, DATA, *)
(* EOS and RESET; the A314 thread keeps a logical channel per stream and   *)
(* associates it with the connection of the client program that serves it, *)
(* with which it exchanges messages of the same names.                     *)
(*                                                                         *)
(* The handlers are in A314Device and A314Thread; this module composes     *)
(* them with the two rings, the clients and the connections.  The rings    *)
(* are queues of packets, as A314Link shows them to be, and a step of the  *)
(* driver may come at any time; A314Link says which calls are lost.        *)
(***************************************************************************)
EXTENDS A314Common

Device == INSTANCE A314Device
Thread == INSTANCE A314Thread

VARIABLES
  \* a314.device
  socket,          \* stream id -> socket, for the sockets in active_sockets
  send_queue,      \* sockets that wait for room in A2R
  next_stream_id,
  io,              \* what became of each request
  read,            \* session -> the data that its reads returned
  eosRead,         \* sessions whose application was told EOS
  written,         \* session -> number of data packets sent
  eosWritten,      \* sessions whose application has sent EOS
  \* the rings
  a2r, r2a,
  \* the A314 thread
  channels,        \* stream id -> logical channel
  pi_queue,        \* send_queue of a314.cc: channels with packets to send
  services,        \* service name -> client, for the registered services
  associations,    \* cc->associations of each connection
  cc_next_stream_id,
  pc,              \* epoll, receive, messages, flush, or dead when the process has ended
  cc,              \* the connection whose messages are read
  arrived,         \* packets of a2r that this round takes
  received,        \* packets of a2r taken, while a2r_head is not yet stored
  room,            \* places in R2A by the indices read at the last irq
  send_buf,        \* packets sent in this round
  started,         \* a byte with R_EVENT_STARTED is in the irq socket pair
  \* the clients and their connections
  conn,            \* none, up, or how the connection that a client left will fail
  toCli, fromCli,  \* messages under way
  stream,          \* session -> its stream as the client sees it
  closes, reboots

amiga == <<socket, send_queue, next_stream_id, io, read, eosRead, written, eosWritten>>
table == <<channels, pi_queue, services, associations, cc_next_stream_id>>
loop == <<pc, cc, arrived, received, room, send_buf, started>>
wires == <<conn, toCli, fromCli>>
counts == <<closes, reboots>>
vars == <<amiga, a2r, r2a, table, loop, wires, stream, counts>>

\* the state of the driver, and of the thread, as the handlers take it
driver == [socket |-> socket, send_queue |-> send_queue, next_stream_id |-> next_stream_id,
           io |-> io, read |-> read, eosRead |-> eosRead, written |-> written,
           eosWritten |-> eosWritten, a2r |-> a2r]
thread == [channels |-> channels, pi_queue |-> pi_queue, services |-> services,
           associations |-> associations, cc_next_stream_id |-> cc_next_stream_id,
           conn |-> conn, toCli |-> toCli, fromCli |-> fromCli]

DriverBecomes(d) ==
  /\ socket' = d.socket /\ send_queue' = d.send_queue /\ next_stream_id' = d.next_stream_id
  /\ io' = d.io /\ read' = d.read /\ eosRead' = d.eosRead /\ written' = d.written
  /\ eosWritten' = d.eosWritten /\ a2r' = d.a2r

\* the thread is at next, unless a write raised SIGPIPE
ThreadBecomes(p, next) ==
  /\ channels' = p.channels /\ pi_queue' = p.pi_queue /\ services' = p.services
  /\ associations' = p.associations /\ cc_next_stream_id' = p.cc_next_stream_id
  /\ conn' = p.conn /\ toCli' = p.toCli /\ fromCli' = p.fromCli
  /\ pc' = IF \E c \in Clients : p.conn[c] = "SIGPIPE" THEN "dead" ELSE next

NoStream == [client |-> NoOne, sid |-> 0, st |-> "none", sent |-> 0, got |-> <<>>,
             ended |-> FALSE, eos |-> FALSE]

Init ==
  /\ socket = <<>> /\ send_queue = <<>> /\ next_stream_id = 1
  /\ io = [r \in Requests |-> "idle"]
  /\ read = [n \in Sessions |-> <<>>] /\ eosRead = {} /\ written = [n \in Sessions |-> 0]
  /\ eosWritten = {}
  /\ a2r = <<>> /\ r2a = <<>>
  /\ channels = <<>> /\ pi_queue = <<>> /\ services = <<>>
  /\ associations = [c \in Clients |-> <<>>] /\ cc_next_stream_id = [c \in Clients |-> 1]
  /\ pc = "epoll" /\ cc = NoOne /\ arrived = 0 /\ received = 0 /\ room = R2ACap
  /\ send_buf = <<>> /\ started = TRUE
  /\ conn = [c \in Clients |-> "none"]
  /\ toCli = [c \in Clients |-> <<>>] /\ fromCli = [c \in Clients |-> <<>>]
  /\ stream = [n \in Sessions |-> NoStream]
  /\ closes = 0 /\ reboots = 0

-----------------------------------------------------------------------------
(* The Amiga. *)

\* BeginIO of the next request of its kind, and its handling by the driver task
AppRequest(r) ==
  /\ io[r] = "idle"
  /\ r.n > 1 => io[[r EXCEPT !.n = @ - 1]] # "idle"
  /\ DriverBecomes(Device!handle_app_request(driver, r))
  /\ UNCHANGED <<r2a, table, loop, wires, stream, counts>>

\* one turn of the loop of handle_packets_received_r2a
ReceiveR2A ==
  /\ r2a # <<>>
  /\ DriverBecomes(Device!handle_r2a_packet(driver, Head(r2a)))
  /\ r2a' = Tail(r2a)
  /\ UNCHANGED <<table, loop, wires, stream, counts>>

SendQueued ==
  /\ send_queue # <<>> /\ Device!room_in_a2r(driver)
  /\ DriverBecomes(Device!handle_room_in_a2r(driver))
  /\ UNCHANGED <<r2a, table, loop, wires, stream, counts>>

(***************************************************************************)
(* The Amiga is reset and the device is opened again (task_start): its     *)
(* memory is lost and the rings are left as they are.                      *)
(***************************************************************************)
Reboot ==
  /\ reboots < MaxReboots
  /\ reboots' = reboots + 1
  /\ socket' = <<>> /\ send_queue' = <<>> /\ next_stream_id' = 1
  /\ io' = [r \in Requests |-> IF io[r] = "held" THEN "lost" ELSE io[r]]
  /\ started' = TRUE
  /\ UNCHANGED <<read, eosRead, written, eosWritten, a2r, r2a, table, pc, cc, arrived, received, room,
                 send_buf, wires, stream, closes>>

-----------------------------------------------------------------------------
(* The A314 thread. *)

(***************************************************************************)
(* handle_a314_irq up to read_channel_status: the Amiga moved an index or  *)
(* has started.  STARTED is a flag beside the rings.  A byte written       *)
(* before it is a turn of this action before Reboot; the model also lets   *)
(* STARTED overtake such a byte, which the socket pair does not.           *)
(***************************************************************************)
Irq ==
  /\ pc = "epoll"
  /\ started \/ a2r # <<>> \/ room # R2ACap - Len(r2a)
  /\ ThreadBecomes(IF started THEN Thread!close_all_logical_channels(thread) ELSE thread,
                   IF a2r = <<>> THEN "flush" ELSE "receive")
  /\ started' = FALSE
  /\ arrived' = Len(a2r) /\ room' = R2ACap - Len(r2a)
  /\ UNCHANGED <<amiga, a2r, r2a, cc, received, send_buf, stream, counts>>

\* one turn of the loop of receive_from_a2r
ReceiveA2R ==
  /\ pc = "receive"
  /\ LET m == a2r[received + 1] IN
       IF Thread!Duplicate(thread, m)
         THEN pc' = "dead" /\ UNCHANGED <<table, wires>>
         ELSE ThreadBecomes(Thread!handle_received_pkt(thread, m),
                            IF received + 1 < arrived THEN "receive" ELSE "flush")
  /\ received' = received + 1
  /\ UNCHANGED <<amiga, a2r, r2a, cc, arrived, room, send_buf, started, stream, counts>>

FlushPacket ==
  /\ pc = "flush" /\ pi_queue # <<>> /\ room > 0
  /\ send_buf' = Append(send_buf, Thread!NextPacket(thread))
  /\ room' = room - 1
  /\ ThreadBecomes(Thread!flush_send_queue(thread), "flush")
  /\ UNCHANGED <<amiga, a2r, r2a, cc, arrived, received, started, stream, counts>>

\* the rest of flush_send_queue, and write_channel_status
Publish ==
  /\ pc = "flush" /\ (pi_queue = <<>> \/ room = 0)
  /\ pc' = "epoll" /\ cc' = NoOne
  /\ r2a' = r2a \o send_buf /\ send_buf' = <<>>
  /\ a2r' = SubSeq(a2r, received + 1, Len(a2r)) /\ received' = 0 /\ arrived' = 0
  /\ UNCHANGED <<amiga, table, room, started, wires, stream, counts>>

\* a client that is not forked connects to the server socket and registers its service
handle_server_socket_ready(c) ==
  /\ pc = "epoll" /\ c \notin OnDemand /\ conn[c] = "none"
  /\ conn' = [conn EXCEPT ![c] = "up"]
  /\ cc_next_stream_id' = [cc_next_stream_id EXCEPT ![c] = 1]
  /\ fromCli' = [fromCli EXCEPT ![c] = <<Thread!Msg("REGISTER_REQ", 0, Nothing)>>]
  /\ UNCHANGED <<amiga, a2r, r2a, channels, pi_queue, services, associations, loop, toCli,
                 stream, counts>>

\* handle_client_connection_event: EPOLLERR, or messages or an end of file to read
ConnectionEvent(c) ==
  /\ pc = "epoll" /\ conn[c] # "none"
  /\ \/ /\ conn[c] = "failed"
        /\ ThreadBecomes(Thread!close_and_remove_connection(thread, c), "flush")
     \/ /\ conn[c] \in {"closed", "broken"} \/ (conn[c] = "up" /\ fromCli[c] # <<>>)
        /\ pc' = "messages" /\ UNCHANGED <<table, wires>>
  /\ cc' = c
  /\ UNCHANGED <<amiga, a2r, r2a, arrived, received, room, send_buf, started, stream, counts>>

ReadMessage ==
  /\ pc = "messages" /\ fromCli[cc] # <<>>
  /\ ThreadBecomes(Thread!handle_received_message(
                     [thread EXCEPT !.fromCli[cc] = Tail(@)], cc, Head(fromCli[cc])),
                   "messages")
  /\ UNCHANGED <<amiga, a2r, r2a, cc, arrived, received, room, send_buf, started, stream, counts>>

\* read returns EAGAIN, end of file, or the error of a connection that just failed
MessagesRead ==
  /\ pc = "messages" /\ fromCli[cc] = <<>>
  /\ CASE conn[cc] = "up" -> pc' = "flush" /\ UNCHANGED <<table, wires>>
       [] conn[cc] \in {"closed", "broken"} ->
            ThreadBecomes(Thread!close_and_remove_connection(thread, cc), "flush")
       [] OTHER -> pc' = "dead" /\ UNCHANGED <<table, wires>>
  /\ UNCHANGED <<amiga, a2r, r2a, cc, arrived, received, room, send_buf, started, stream, counts>>

-----------------------------------------------------------------------------
(* The client programs. *)

StreamOf(c, sid) == CHOOSE n \in Sessions : stream[n].client = c /\ stream[n].sid = sid
Knows(c, sid) == \E n \in Sessions : stream[n].client = c /\ stream[n].sid = sid

\* how the connection of c fails after c closes its end, read up or not
Left(c) == CASE toCli'[c] # <<>> -> "failed"
             [] toCli'[c] = <<>> /\ c \in OnDemand -> "broken"
             [] OTHER -> "closed"

ClientReads(c) ==
  /\ conn[c] = "up" /\ toCli[c] # <<>>
  /\ toCli' = [toCli EXCEPT ![c] = Tail(@)]

Says(c, m) == fromCli' = [fromCli EXCEPT ![c] = Append(@, m)]

RegisterRes(c) ==
  /\ ClientReads(c) /\ Head(toCli[c]).type = "REGISTER_RES"
  /\ conn' = IF Head(toCli[c]).data.number = 1 THEN conn ELSE [conn EXCEPT ![c] = Left(c)]
  /\ UNCHANGED <<amiga, a2r, r2a, table, loop, fromCli, stream, counts>>

\* the client accepts the stream, or not
ClientConnect(c) ==
  /\ ClientReads(c) /\ Head(toCli[c]).type = "CONNECT"
  /\ LET m == Head(toCli[c]) IN
     \E result \in Answers :
       /\ Says(c, Thread!Msg("CONNECT_RESPONSE", m.sid, Result(result)))
       /\ stream' = [stream EXCEPT ![m.data.session] =
                       [NoStream EXCEPT !.client = c, !.sid = m.sid,
                                        !.st = IF result = 0 THEN "open" ELSE "done"]]
  /\ UNCHANGED <<amiga, a2r, r2a, table, loop, conn, counts>>

\* data, EOS (answered by EOS) and RESET of a stream, if the client still has it
ClientPacket(c) ==
  /\ ClientReads(c) /\ Head(toCli[c]).type \in {"DATA", "EOS", "RESET"}
  /\ LET m == Head(toCli[c])
         n == StreamOf(c, m.sid)
         s == stream[n] IN
       IF ~Knows(c, m.sid) \/ s.st = "done"
         THEN UNCHANGED <<stream, fromCli>>
         ELSE /\ stream' = [stream EXCEPT ![n] =
                   CASE m.type = "DATA" -> [s EXCEPT !.got = Append(@, m.data)]
                     [] m.type = "EOS" -> [s EXCEPT !.st = "done", !.eos = TRUE, !.ended = TRUE]
                     [] m.type = "RESET" -> [s EXCEPT !.st = "done"]]
              /\ IF m.type = "EOS" /\ s.st = "open"
                   THEN Says(c, Thread!Msg("EOS", m.sid, Nothing)) ELSE UNCHANGED fromCli
  /\ UNCHANGED <<amiga, a2r, r2a, table, loop, conn, counts>>

\* data, EOS or RESET of its own accord
ClientSend(n, type) ==
  /\ LET s == stream[n] IN
       /\ CASE type = "DATA" -> s.st = "open" /\ s.sent < MaxSends
            [] type = "EOS" -> s.st = "open"
            [] type = "RESET" -> s.st \in {"open", "eos"}
       /\ Says(s.client, Thread!Msg(type, s.sid,
                                    IF type = "DATA" THEN Item(n, s.sent + 1) ELSE Nothing))
       /\ stream' = [stream EXCEPT ![n] =
            CASE type = "DATA" -> [s EXCEPT !.sent = @ + 1]
              [] type = "EOS" -> [s EXCEPT !.st = "eos", !.ended = TRUE]
              [] type = "RESET" -> [s EXCEPT !.st = "done"]]
  /\ UNCHANGED <<amiga, a2r, r2a, table, loop, conn, toCli, counts>>

\* the client ends, with messages read or not
ClientClose(c) ==
  /\ conn[c] = "up" /\ closes < MaxCloses
  /\ closes' = closes + 1
  /\ UNCHANGED <<toCli, fromCli>>
  /\ conn' = [conn EXCEPT ![c] = Left(c)]
  /\ stream' = [n \in Sessions |-> IF stream[n].client # c THEN stream[n]
                                   ELSE [stream[n] EXCEPT !.client = NoOne, !.st = "done"]]
  /\ UNCHANGED <<amiga, a2r, r2a, table, loop, reboots>>

-----------------------------------------------------------------------------
DriverStep == ReceiveR2A \/ SendQueued
ThreadStep == \/ Irq \/ ReceiveA2R \/ FlushPacket \/ Publish
              \/ ReadMessage \/ MessagesRead
              \/ \E c \in Clients : ConnectionEvent(c)
ClientStep(c) == RegisterRes(c) \/ ClientConnect(c) \/ ClientPacket(c)

Next ==
  \/ \E r \in Requests : AppRequest(r)
  \/ DriverStep \/ Reboot \/ ThreadStep
  \/ \E c \in Clients : ClientStep(c) \/ ClientClose(c) \/ handle_server_socket_ready(c)
  \/ \E n \in Sessions, type \in Speaks : ClientSend(n, type)

Spec == Init /\ [][Next]_vars

(***************************************************************************)
(* The A314 thread runs while it has work, and a client reads its          *)
(* messages.  No application or client has to speak, and nothing in the    *)
(* program wakes the driver for what is in R2A: see DriverCalled.          *)
(***************************************************************************)
FairSpec == Spec /\ WF_vars(ThreadStep) /\ \A c \in Clients : WF_vars(ClientStep(c))

-----------------------------------------------------------------------------
(* Types. *)

Packets == [type : {"CONNECT", "CONNECT_RESPONSE", "DATA", "EOS", "RESET"}, id : Ids,
            data : Items]
Messages == [type : {"REGISTER_REQ", "REGISTER_RES", "CONNECT", "CONNECT_RESPONSE", "DATA",
                     "EOS", "RESET"}, sid : Nat, data : Items]
Socket == [key : Keys, session : Sessions, pending_connect : Sessions \union {NoOne},
           pending_read : Requests \union {NoOne}, pending_write : Requests \union {NoOne},
           flags : SUBSET {"RCVD_EOS_FROM_APP", "RCVD_EOS_FROM_RPI", "SENT_EOS_TO_APP",
                           "SENT_EOS_TO_RPI", "CLOSED", "SHOULD_SEND_RESET"},
           rq : Seq(Items)]
LogicalChannel == [association : Clients \union {NoOne}, stream_id : Nat,
                   got_eos_from_ami : BOOLEAN, got_eos_from_client : BOOLEAN,
                   packet_queue : Seq(Packets)]

TypeOK ==
  /\ DOMAIN socket \subseteq Ids /\ \A i \in DOMAIN socket : socket[i] \in Socket
  /\ send_queue \in Seq(Ids) /\ next_stream_id \in Ids
  /\ io \in [Requests -> {"idle", "held", "OK", "EOS", "RESET", "IN_USE", "UNKNOWN", "lost"}]
  /\ read \in [Sessions -> Seq(Items)] /\ eosRead \subseteq Sessions
  /\ written \in [Sessions -> Nat] /\ eosWritten \subseteq Sessions
  /\ a2r \in Seq(Packets) /\ Len(a2r) <= A2RCap
  /\ r2a \in Seq(Packets) /\ Len(r2a) + Len(send_buf) <= R2ACap
  /\ DOMAIN channels \subseteq Ids /\ \A i \in DOMAIN channels : channels[i] \in LogicalChannel
  /\ pi_queue \in Seq(Ids) /\ \A s \in DOMAIN services : services[s] \in Clients
  /\ associations \in [Clients -> Seq(Ids)] /\ cc_next_stream_id \in [Clients -> Nat]
  /\ pc \in {"epoll", "receive", "messages", "flush", "dead"} /\ cc \in Clients \union {NoOne}
  /\ received \in 0..arrived /\ arrived \in 0..Len(a2r) /\ room \in 0..R2ACap
  /\ send_buf \in Seq(Packets) /\ started \in BOOLEAN
  /\ conn \in [Clients -> {"none", "up", "closed", "failed", "broken", "SIGPIPE"}]
  /\ toCli \in [Clients -> Seq(Messages)] /\ fromCli \in [Clients -> Seq(Messages)]
  /\ stream \in [Sessions -> [client : Clients \union {NoOne}, sid : Nat, sent : Nat,
                              st : {"none", "open", "eos", "done"}, got : Seq(Items),
                              ended : BOOLEAN, eos : BOOLEAN]]
  /\ closes \in 0..MaxCloses /\ reboots \in 0..MaxReboots

-----------------------------------------------------------------------------
(* Safety. *)

Sent(q, i) == SelectSeq(q, LAMBDA m : m.id = i)
ToThread(i) == Sent(SubSeq(a2r, received + 1, Len(a2r)), i)
ToDevice(i) == Sent(r2a \o send_buf, i)
                 \o (IF i \in DOMAIN channels THEN channels[i].packet_queue ELSE <<>>)
Has(q, types) == \E k \in DOMAIN q : q[k].type \in types
NoRepeats(q) == \A j, k \in DOMAIN q : q[j] = q[k] => j = k

(***************************************************************************)
(* A request the device has not replied to is held by one socket, in one   *)
(* place, so that one reply will come; a socket holds no other request.    *)
(***************************************************************************)
Holders(r) ==
  {h \in (DOMAIN socket) \X {"pending_connect", "pending_read", "pending_write"} :
     socket[h[1]][h[2]] = r}
RequestsHeld ==
  \A r \in Requests : Cardinality(Holders(r)) = IF io[r] = "held" THEN 1 ELSE 0

(***************************************************************************)
(* The send queue of the device has, once each, the sockets with something *)
(* to send: what its loop calls a SERIOUS ERROR does not happen, and no    *)
(* packet is forgotten.  After a reset of the Amiga the rings hold packets *)
(* of sockets that are gone, whose ids the new ones have again: this and   *)
(* StreamsAgree are about the time before.                                 *)
(***************************************************************************)
ConnectSent(i) == Has(ToThread(i), {"CONNECT"}) \/ i \in DOMAIN channels \/ ToDevice(i) # <<>>
QueuedIffUnsent ==
  reboots = 0 =>
  /\ NoRepeats(send_queue)
  /\ {send_queue[k] : k \in DOMAIN send_queue} =
       {i \in DOMAIN socket : \/ socket[i].pending_write # NoOne
                              \/ "SHOULD_SEND_RESET" \in socket[i].flags
                              \/ socket[i].pending_connect # NoOne /\ ~ConnectSent(i)}

(***************************************************************************)
(* The two ends of a stream agree on whether it exists.  A channel with a  *)
(* client has a socket, or the packet that ends it is on its way; an open  *)
(* socket has a channel with a client, or a CONNECT or what ends it is on  *)
(* its way or has come; a CONNECT_RESPONSE finds the request it answers.   *)
(***************************************************************************)
Ending(m) == \/ m.type \in {"RESET", "EOS"}
             \/ m.type = "CONNECT_RESPONSE" /\ m.data # Result(0)
StreamsAgree ==
  reboots = 0 =>
  /\ \A i \in DOMAIN channels : channels[i].association # NoOne =>
       i \in DOMAIN socket \/ Has(ToThread(i), {"RESET", "EOS"})
  /\ \A i \in DOMAIN socket : "CLOSED" \notin socket[i].flags =>
       /\ \/ socket[i].pending_connect # NoOne /\ InQueue(i, send_queue)
          \/ Has(ToThread(i), {"CONNECT"})
          \/ i \in DOMAIN channels /\ channels[i].association # NoOne
          \/ "RCVD_EOS_FROM_RPI" \in socket[i].flags
          \/ \E k \in DOMAIN ToDevice(i) : Ending(ToDevice(i)[k])
       /\ Has(ToDevice(i), {"CONNECT_RESPONSE"}) => socket[i].pending_connect # NoOne

(***************************************************************************)
(* A CONNECT packet comes only for a channel that the A314 thread does not *)
(* have: the case whose comment says "This signals that should reset all   *)
(* logical channels" (a314.cc:776), where the code ends the emulator.      *)
(***************************************************************************)
ConnectIsNew == pc = "receive" => ~Thread!Duplicate(thread, a2r[received + 1])

(***************************************************************************)
(* The tables of the A314 thread agree: its send queue has, once each, the *)
(* channels with packets to send; a connection lists the channels that     *)
(* name it, once each; and a channel without a client has packets left, so *)
(* that the flush that sends the last one removes it.                      *)
(***************************************************************************)
TablesAgree ==
  /\ NoRepeats(pi_queue)
  /\ {pi_queue[k] : k \in DOMAIN pi_queue} =
       {i \in DOMAIN channels : channels[i].packet_queue # <<>>}
  /\ \A c \in Clients :
       /\ NoRepeats(associations[c])
       /\ {associations[c][k] : k \in DOMAIN associations[c]} =
            {i \in DOMAIN channels : channels[i].association = c}
  /\ \A i \in DOMAIN channels :
       channels[i].association = NoOne => channels[i].packet_queue # <<>>

(***************************************************************************)
(* What a session reads is what its other end wrote, from the start and in *)
(* order, whatever else is under way.                                      *)
(***************************************************************************)
DataInOrder ==
  \A n \in Sessions :
    /\ \A k \in DOMAIN read[n] : read[n][k] = Item(n, k)
    /\ \A k \in DOMAIN stream[n].got : stream[n].got[k] = Item(n, k)

(***************************************************************************)
(* An end that is told EOS has all the data written before it.             *)
(***************************************************************************)
EosAfterData ==
  \A n \in Sessions :
    /\ n \in eosRead => Len(read[n]) = stream[n].sent
    /\ stream[n].eos => Len(stream[n].got) = written[n]

(***************************************************************************)
(* The sockets, rings, queues and connections implement A314Stream: every  *)
(* step sends, delivers, ends or tells what that module allows, or nothing *)
(* an end can see.                                                         *)
(***************************************************************************)
Numbers(items) == [k \in DOMAIN items |-> items[k].number]
Promise == INSTANCE A314Stream WITH
  Streams <- Sessions,
  sent <- [d \in Sessions \X {"app", "client"} |->
             IF d[2] = "app" THEN written[d[1]] ELSE stream[d[1]].sent],
  got <- [d \in Sessions \X {"app", "client"} |->
            Numbers(IF d[2] = "app" THEN stream[d[1]].got ELSE read[d[1]])],
  ended <- {d \in Sessions \X {"app", "client"} :
              IF d[2] = "app" THEN d[1] \in eosWritten ELSE stream[d[1]].ended},
  told <- {d \in Sessions \X {"app", "client"} :
             IF d[2] = "app" THEN stream[d[1]].eos ELSE d[1] \in eosRead}
KeepsPromise == Promise!Spec

-----------------------------------------------------------------------------
(* Liveness. *)

(***************************************************************************)
(* The driver is called again and again while R2A holds a packet or A2R    *)
(* has room for its send queue.  Requests and the interrupts of other      *)
(* devices may do that, and A314Link says what they find; the program does *)
(* not: a314_process_events (a314.cc:1431) has no caller.                  *)
(***************************************************************************)
DriverCalled == WF_vars(DriverStep)

\* If the driver is called, every CONNECT is answered.
ConnectAnswered == DriverCalled => \A r \in Sessions : io[r] = "held" ~> io[r] # "held"

\* A client learns that its stream is over when the socket is gone, called the driver or not.
SocketGone(n) == \A i \in DOMAIN socket : socket[i].session # n
ClientLearns ==
  \A n \in Sessions : stream[n].st \in {"open", "eos"} /\ SocketGone(n) ~> stream[n].st = "done"

\* If the driver is called, a reader learns that the client has ended or reset the stream.
ReaderLearns ==
  DriverCalled =>
    \A r \in {q \in Requests : q.op = "READ"} :
      io[r] = "held" /\ (\E i \in DOMAIN socket : /\ socket[i].pending_read = r
                                                /\ stream[socket[i].session].st \in {"eos", "done"})
        ~> io[r] # "held"
=============================================================================
