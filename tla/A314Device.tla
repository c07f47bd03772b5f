------------------------------ MODULE A314Device ------------------------------
(***************************************************************************)
(* The handlers of a314.device (a314driver.c, sockets.c): each maps the    *)
(* state d of the driver, a record of its sockets, its send queue, the ids *)
(* it hands out, what became of the requests and the ring it fills, to the *)
(* state the handler leaves.  Every packet takes one place of the ring.    *)
(***************************************************************************)
EXTENDS A314Common

room_in_a2rFull(d) == Len(d.a2r) <= A2RCap   \* slip: one packet too many
room_in_a2r(d) == Len(d.a2r) < A2RCap
append_a2r_packet(d, type, i, data) == [d EXCEPT !.a2r = Append(@, Pkt(type, i, data))]
ReplyMsg(d, r, error) == [d EXCEPT !.io[r] = error]
delete_socket(d, i) == [d EXCEPT !.socket = Drop(@, i)]
add_to_send_queue(d, i) == [d EXCEPT !.send_queue = Append(@, i)]

\* slips: only the head is unlinked; nothing is
remove_from_send_queueHead(d, i) ==
  [d EXCEPT !.send_queue = IF @ # <<>> /\ Head(@) = i THEN Tail(@) ELSE @]
remove_from_send_queueNever(d, i) == d

remove_from_send_queue(d, i) == [d EXCEPT !.send_queue = Without(@, i)]
CanSend(d) == d.send_queue = <<>> /\ room_in_a2r(d)

Pending(s) == {s.pending_connect, s.pending_read, s.pending_write} \ {NoOne}
Closed(s) == "CLOSED" \in s.flags

close_socket(d, i, should_send_reset) ==
  LET s == d.socket[i]
      held == Pending(s)
      e == remove_from_send_queue(
             [d EXCEPT !.io = [r \in Requests |-> IF r \in held THEN "RESET" ELSE @[r]]], i)
      closed == [s EXCEPT !.pending_connect = NoOne, !.pending_read = NoOne,
                          !.pending_write = NoOne, !.rq = <<>>,
                          !.flags = @ \union {"CLOSED", "SHOULD_SEND_RESET"}] IN
  CASE ~should_send_reset -> delete_socket(e, i)
    [] should_send_reset /\ CanSend(e) ->
         delete_socket(append_a2r_packet(e, "RESET", i, Nothing), i)
    [] OTHER -> add_to_send_queue([e EXCEPT !.socket[i] = closed], i)

\* the stream is over when the application has been told EOS and its EOS is sent
SetEosFlag(d, i, flag) ==
  LET e == [d EXCEPT !.socket[i].flags = @ \union {flag}] IN
  IF {"SENT_EOS_TO_APP", "SENT_EOS_TO_RPI"} \subseteq e.socket[i].flags
    THEN close_socket(e, i, FALSE) ELSE e

ReplyData(d, r, i, payload) ==
  [ReplyMsg(d, r, "OK") EXCEPT !.read[d.socket[i].session] = Append(@, payload)]
ReplyEos(d, r, i) ==
  SetEosFlag([ReplyMsg(d, r, "EOS") EXCEPT !.eosRead = @ \union {d.socket[i].session}],
             i, "SENT_EOS_TO_APP")

\* the packet of a write of the application, and the reply to it
SendData(d, r, i) ==
  LET n == d.socket[i].session
      e == append_a2r_packet(d, "DATA", i, Item(n, d.written[n] + 1)) IN
  [ReplyMsg(e, r, "OK") EXCEPT !.written[n] = @ + 1]
SendEos(d, r, i) ==
  LET e == append_a2r_packet(d, "EOS", i, Nothing) IN
  SetEosFlag([ReplyMsg(e, r, "OK") EXCEPT !.eosWritten = @ \union {d.socket[i].session}],
             i, "SENT_EOS_TO_RPI")

\* the first id, from next_stream_id on, that no socket has
allocate_stream_id(d) ==
  LET Nth(k) == ((d.next_stream_id + k - 1) % NumIds) + 1 IN
  Nth(CHOOSE k \in 0..(NumIds - 1) : /\ Nth(k) \notin DOMAIN d.socket
                                     /\ \A m \in 0..(k - 1) : Nth(m) \in DOMAIN d.socket)

handle_app_connect(d, r) ==
  LET i == allocate_stream_id(d)
      s == [key |-> r.key, session |-> r, pending_connect |-> r, pending_read |-> NoOne,
            pending_write |-> NoOne, flags |-> {}, rq |-> <<>>]
      e == [ReplyMsg(d, r, "held") EXCEPT !.socket = Extend(@, i, s),
                                          !.next_stream_id = (i % NumIds) + 1] IN
  IF CanSend(d) THEN append_a2r_packet(e, "CONNECT", i, Item(r, 0)) ELSE add_to_send_queue(e, i)

handle_app_read(d, r, i) ==
  LET s == d.socket[i]
      free == s.pending_connect = NoOne /\ s.pending_read = NoOne IN
  CASE ~free \/ (s.rq # <<>> /\ r.op = "SHORT") -> close_socket(ReplyMsg(d, r, "RESET"), i, TRUE)
    [] free /\ s.rq # <<>> /\ r.op = "READ" ->
         [ReplyData(d, r, i, Head(s.rq)) EXCEPT !.socket[i].rq = Tail(@)]
    [] free /\ s.rq = <<>> /\ "RCVD_EOS_FROM_RPI" \in s.flags -> ReplyEos(d, r, i)
    [] OTHER -> [ReplyMsg(d, r, "held") EXCEPT !.socket[i].pending_read = r]

\* a socket that may not be written to is closed
MayWrite(s) == /\ s.pending_connect = NoOne /\ s.pending_write = NoOne
               /\ "RCVD_EOS_FROM_APP" \notin s.flags
Wait(d, r, i) ==
  add_to_send_queue([ReplyMsg(d, r, "held") EXCEPT !.socket[i].pending_write = r], i)

handle_app_write(d, r, i) ==
  CASE ~MayWrite(d.socket[i]) -> close_socket(ReplyMsg(d, r, "RESET"), i, TRUE)
    [] MayWrite(d.socket[i]) /\ CanSend(d) -> SendData(d, r, i)
    [] OTHER -> Wait(d, r, i)

handle_app_eos(d, r, i) ==
  LET e == [d EXCEPT !.socket[i].flags = @ \union {"RCVD_EOS_FROM_APP"}] IN
  CASE ~MayWrite(d.socket[i]) -> close_socket(ReplyMsg(d, r, "RESET"), i, TRUE)
    [] MayWrite(d.socket[i]) /\ CanSend(d) -> SendEos(e, r, i)
    [] OTHER -> Wait(e, r, i)

\* find_socket: the socket of the key, if there is one
SocketsOf(d, k) == {i \in DOMAIN d.socket : d.socket[i].key = k}

handle_app_request(d, r) ==
  LET open == SocketsOf(d, r.key)
      i == CHOOSE j \in open : TRUE IN
  CASE r.op = "CONNECT" -> IF open = {} THEN handle_app_connect(d, r) ELSE ReplyMsg(d, r, "IN_USE")
    [] r.op # "CONNECT" /\ (open = {} \/ Closed(d.socket[i])) ->
         ReplyMsg(d, r, IF r.op = "RESET" THEN "OK" ELSE "RESET")
    [] OTHER ->
         CASE r.op \in {"READ", "SHORT"} -> handle_app_read(d, r, i)
           [] r.op = "WRITE" -> handle_app_write(d, r, i)
           [] r.op = "EOS" -> handle_app_eos(d, r, i)
           [] r.op = "RESET" -> close_socket(ReplyMsg(d, r, "OK"), i, TRUE)

handle_pkt_connect_response(d, i, result) ==
  LET r == d.socket[i].pending_connect
      e == [d EXCEPT !.socket[i].pending_connect = NoOne] IN
  CASE r = NoOne -> d
    [] r # NoOne /\ result = 0 -> ReplyMsg(e, r, "OK")
    [] OTHER -> close_socket(ReplyMsg(e, r, "UNKNOWN"), i, FALSE)

\* slips: data is queued in front; the request that is replied to stays pending
handle_pkt_dataInFront(d, i, payload) ==
  IF d.socket[i].pending_read = NoOne THEN [d EXCEPT !.socket[i].rq = <<payload>> \o @]
    ELSE [ReplyData(d, d.socket[i].pending_read, i, payload) EXCEPT !.socket[i].pending_read = NoOne]
handle_pkt_dataKept(d, i, payload) ==
  IF d.socket[i].pending_read = NoOne THEN [d EXCEPT !.socket[i].rq = Append(@, payload)]
    ELSE ReplyData(d, d.socket[i].pending_read, i, payload)

handle_pkt_data(d, i, payload) ==
  LET r == d.socket[i].pending_read IN
  CASE r = NoOne -> [d EXCEPT !.socket[i].rq = Append(@, payload)]
    [] r # NoOne /\ r.op = "SHORT" -> close_socket(d, i, TRUE)
    [] OTHER -> [ReplyData(d, r, i, payload) EXCEPT !.socket[i].pending_read = NoOne]

\* slip: EOS drops the data that waits to be read
handle_pkt_eosDrops(d, i) ==
  LET r == d.socket[i].pending_read
      e == [d EXCEPT !.socket[i].flags = @ \union {"RCVD_EOS_FROM_RPI"}, !.socket[i].rq = <<>>,
                     !.socket[i].pending_read = NoOne] IN
  IF r = NoOne THEN e ELSE ReplyEos(e, r, i)

handle_pkt_eos(d, i) ==
  LET r == d.socket[i].pending_read
      e == [d EXCEPT !.socket[i].flags = @ \union {"RCVD_EOS_FROM_RPI"},
                     !.socket[i].pending_read = NoOne] IN
  IF r = NoOne THEN e ELSE ReplyEos(e, r, i)

handle_r2a_packet(d, p) ==
  CASE p.id \notin DOMAIN d.socket -> d
    [] p.id \in DOMAIN d.socket /\ p.type = "RESET" -> close_socket(d, p.id, FALSE)
    [] p.id \in DOMAIN d.socket /\ p.type # "RESET" ->
         CASE Closed(d.socket[p.id]) -> d
           [] ~Closed(d.socket[p.id]) /\ p.type = "CONNECT_RESPONSE" ->
                handle_pkt_connect_response(d, p.id, p.data.number)
           [] ~Closed(d.socket[p.id]) /\ p.type = "DATA" -> handle_pkt_data(d, p.id, p.data)
           [] ~Closed(d.socket[p.id]) /\ p.type = "EOS" -> handle_pkt_eos(d, p.id)

\* one turn of the loop
handle_room_in_a2r(d) ==
  LET i == Head(d.send_queue)
      s == d.socket[i]
      e == remove_from_send_queue(d, i)
      w == s.pending_write
      f == [e EXCEPT !.socket[i].pending_write = NoOne] IN
  CASE s.pending_connect # NoOne -> append_a2r_packet(e, "CONNECT", i, Item(s.session, 0))
    [] s.pending_connect = NoOne /\ w # NoOne ->
         IF w.op = "WRITE" THEN SendData(f, w, i) ELSE SendEos(f, w, i)
    [] s.pending_connect = NoOne /\ w = NoOne /\ "SHOULD_SEND_RESET" \in s.flags ->
         delete_socket(append_a2r_packet(e, "RESET", i, Nothing), i)
    [] OTHER -> e
=============================================================================
