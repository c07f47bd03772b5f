------------------------------ MODULE A314Thread ------------------------------
(***************************************************************************)
(* The handlers of the A314 thread (a314.cc): each maps the state p of the *)
(* thread, a record of its channels, its send queue, the registered        *)
(* services and its connections to the client programs, to the state the   *)
(* handler leaves.                                                         *)
(***************************************************************************)
EXTENDS A314Common

Msg(type, sid, data) == [type |-> type, sid |-> sid, data |-> data]

(***************************************************************************)
(* A connection whose client is gone: TCP accepts one more write, a reset  *)
(* connection fails one with ECONNRESET, and a later write, or the first   *)
(* on a socket pair, raises SIGPIPE, which nothing handles.                *)
(***************************************************************************)
Stages == <<"closed", "failed", "broken", "SIGPIPE">>
AfterWrites(c, k) ==
  LET at == {n \in DOMAIN Stages : Stages[n] = c} IN
  IF at = {} \/ k = 0 THEN c
    ELSE LET n == CHOOSE n \in at : TRUE IN Stages[IF n + k > 4 THEN 4 ELSE n + k]

create_and_send_msg(p, c, m) ==
  [p EXCEPT !.toCli[c] = IF p.conn[c] = "up" THEN Append(@, m) ELSE @,
            !.conn[c] = AfterWrites(@, 1)]

create_and_enqueue_packet(p, i, type, data) ==
  [p EXCEPT !.pi_queue = IF p.channels[i].packet_queue = <<>> THEN Append(@, i) ELSE @,
            !.channels[i].packet_queue = Append(@, Pkt(type, i, data))]

clear_packet_queue(p, i) ==
  [p EXCEPT !.pi_queue = Without(@, i), !.channels[i].packet_queue = <<>>]

remove_association(p, i) ==
  [p EXCEPT !.associations[p.channels[i].association] = Without(@, i),
            !.channels[i].association = NoOne, !.channels[i].stream_id = 0]

remove_channel_if_not_associated_and_empty_pq(p, i) ==
  IF i \in DOMAIN p.channels /\ p.channels[i].association = NoOne
       /\ p.channels[i].packet_queue = <<>>
    THEN [p EXCEPT !.channels = Drop(@, i)] ELSE p

\* slip: the channels stay in the send queue
close_all_logical_channelsQueued(p) ==
  [p EXCEPT !.channels = <<>>, !.associations = [c \in Clients |-> <<>>]]

close_all_logical_channels(p) ==
  LET sent(c) == [k \in DOMAIN p.associations[c] |->
                    Msg("RESET", p.channels[p.associations[c][k]].stream_id, Nothing)] IN
  [p EXCEPT !.pi_queue = <<>>, !.channels = <<>>,
            !.associations = [c \in Clients |-> <<>>],
            !.conn = [c \in Clients |-> AfterWrites(@[c], Len(sent(c)))],
            !.toCli = [c \in Clients |->
                         IF p.conn[c] = "up" THEN @[c] \o sent(c) ELSE @[c]]]

\* the connection's channels are reset, and its services withdrawn
close_and_remove_connection(p, c) ==
  LET mine == {i \in DOMAIN p.channels : p.channels[i].association = c} IN
  [p EXCEPT
     !.services = [s \in {t \in DOMAIN @ : @[t] # c} |-> @[s]],
     !.channels = [i \in DOMAIN @ |->
                     IF i \in mine
                       THEN [@[i] EXCEPT !.association = NoOne, !.stream_id = 0,
                                         !.packet_queue = <<Pkt("RESET", i, Nothing)>>]
                       ELSE @[i]],
     !.pi_queue = WithoutAll(@, mine) \o p.associations[c],
     !.associations[c] = <<>>, !.conn[c] = "none", !.toCli[c] = <<>>, !.fromCli[c] = <<>>]

-----------------------------------------------------------------------------
(* Packets from the Amiga. *)

\* the channel is associated with a connection, which is asked to serve it
Ask(p, c, i, n) ==
  LET sid == p.cc_next_stream_id[c] IN
  create_and_send_msg(
    [p EXCEPT !.channels[i].association = c, !.channels[i].stream_id = sid,
              !.cc_next_stream_id[c] = @ + 1, !.associations[c] = Append(@, i)],
    c, Msg("CONNECT", sid, Item(n, 0)))

\* fork and exec with one end of a socket pair, and the service is registered
Fork(p, c) == [p EXCEPT !.conn[c] = "up", !.cc_next_stream_id[c] = 1,
                        !.services = Extend(@, Name[c], c)]

handle_pkt_connect(p, i, n) ==
  LET service == ServiceOf[n.key]
      idle == [association |-> NoOne, stream_id |-> 0, got_eos_from_ami |-> FALSE,
               got_eos_from_client |-> FALSE, packet_queue |-> <<>>]
      q == [p EXCEPT !.channels = Extend(@, i, idle)]
      forked == {c \in OnDemand : Name[c] = service} IN
  CASE service \in DOMAIN p.services -> Ask(q, p.services[service], i, n)
    [] service \notin DOMAIN p.services /\ forked # {} ->
         LET c == CHOOSE c \in forked : TRUE IN Ask(Fork(q, c), c, i, n)
    [] OTHER -> create_and_enqueue_packet(q, i, "CONNECT_RESPONSE", Result(3))

Forward(p, i, type, data) ==
  create_and_send_msg(p, p.channels[i].association, Msg(type, p.channels[i].stream_id, data))

\* slip: the wrong one of the two flags
handle_pkt_dataWrongFlag(p, i, payload) ==
  IF p.channels[i].association # NoOne /\ ~p.channels[i].got_eos_from_client
    THEN Forward(p, i, "DATA", payload) ELSE p

handle_pkt_data(p, i, payload) ==
  IF p.channels[i].association # NoOne /\ ~p.channels[i].got_eos_from_ami
    THEN Forward(p, i, "DATA", payload) ELSE p

handle_pkt_eos(p, i) ==
  LET q == Forward([p EXCEPT !.channels[i].got_eos_from_ami = TRUE], i, "EOS", Nothing) IN
  CASE p.channels[i].association = NoOne \/ p.channels[i].got_eos_from_ami -> p
    [] p.channels[i].association # NoOne /\ ~p.channels[i].got_eos_from_ami ->
         IF p.channels[i].got_eos_from_client THEN remove_association(q, i) ELSE q

\* slip: the client is not told
handle_pkt_resetSilent(p, i) ==
  LET q == clear_packet_queue(p, i) IN
  IF p.channels[i].association = NoOne THEN q ELSE remove_association(q, i)

handle_pkt_reset(p, i) ==
  LET q == clear_packet_queue(p, i) IN
  IF p.channels[i].association = NoOne THEN q
    ELSE remove_association(Forward(q, i, "RESET", Nothing), i)

(***************************************************************************)
(* A CONNECT for a channel that exists ends the process (exit(-1)): it has *)
(* no next state here.                                                     *)
(***************************************************************************)
Duplicate(p, m) == m.type = "CONNECT" /\ m.id \in DOMAIN p.channels

handle_received_pkt(p, m) ==
  LET i == m.id
      q == CASE m.type = "CONNECT" -> handle_pkt_connect(p, i, m.data.session)
             [] m.type # "CONNECT" /\ i \notin DOMAIN p.channels -> p
             [] m.type = "DATA" /\ i \in DOMAIN p.channels -> handle_pkt_data(p, i, m.data)
             [] m.type = "EOS" /\ i \in DOMAIN p.channels -> handle_pkt_eos(p, i)
             [] m.type = "RESET" /\ i \in DOMAIN p.channels -> handle_pkt_reset(p, i) IN
  remove_channel_if_not_associated_and_empty_pq(q, i)

-----------------------------------------------------------------------------
(* Messages from a client; i is the associated channel of its stream id. *)

handle_msg_register_req(p, c) ==
  IF Name[c] \in DOMAIN p.services
    THEN create_and_send_msg(p, c, Msg("REGISTER_RES", 0, Result(0)))
    ELSE create_and_send_msg([p EXCEPT !.services = Extend(@, Name[c], c)], c,
                             Msg("REGISTER_RES", 0, Result(1)))

\* slip: a refusal is not passed on
handle_msg_connect_responseOk(p, i, result) ==
  IF result = 0 THEN create_and_enqueue_packet(p, i, "CONNECT_RESPONSE", Result(0))
                ELSE remove_association(p, i)

handle_msg_connect_response(p, i, result) ==
  LET q == create_and_enqueue_packet(p, i, "CONNECT_RESPONSE", Result(result)) IN
  IF result = 0 THEN q ELSE remove_association(q, i)

handle_msg_eos(p, i) ==
  LET q == create_and_enqueue_packet([p EXCEPT !.channels[i].got_eos_from_client = TRUE],
                                     i, "EOS", Nothing) IN
  CASE p.channels[i].got_eos_from_client -> p
    [] ~p.channels[i].got_eos_from_client /\ p.channels[i].got_eos_from_ami ->
         remove_association(q, i)
    [] OTHER -> q

\* slip: the Amiga is not told
handle_msg_resetSilent(p, i) == clear_packet_queue(remove_association(p, i), i)

handle_msg_reset(p, i) ==
  create_and_enqueue_packet(clear_packet_queue(remove_association(p, i), i), i, "RESET", Nothing)

get_associated_channel_by_stream_id(p, c, sid) ==
  {i \in DOMAIN p.channels : InQueue(i, p.associations[c]) /\ p.channels[i].stream_id = sid}

handle_received_message(p, c, m) ==
  LET found == get_associated_channel_by_stream_id(p, c, m.sid)
      i == CHOOSE j \in found : TRUE IN
  CASE m.type = "REGISTER_REQ" -> handle_msg_register_req(p, c)
    [] m.type # "REGISTER_REQ" /\ found = {} -> p
    [] OTHER ->
         CASE m.type = "CONNECT_RESPONSE" -> handle_msg_connect_response(p, i, m.data.number)
           [] m.type = "DATA" -> create_and_enqueue_packet(p, i, "DATA", m.data)
           [] m.type = "EOS" -> handle_msg_eos(p, i)
           [] m.type = "RESET" -> handle_msg_reset(p, i)

-----------------------------------------------------------------------------
(***************************************************************************)
(* One turn of the loop of flush_send_queue: the first packet of the first *)
(* channel, which then goes to the back of the queue if it has more.       *)
(***************************************************************************)
NextPacket(p) == Head(p.channels[Head(p.pi_queue)].packet_queue)

flush_send_queue(p) ==
  LET i == Head(p.pi_queue)
      left == Tail(p.channels[i].packet_queue)
      q == [p EXCEPT !.channels[i].packet_queue = left, !.pi_queue = Tail(@)] IN
  IF left # <<>> THEN [q EXCEPT !.pi_queue = Append(@, i)]
                 ELSE remove_channel_if_not_associated_and_empty_pq(q, i)
=============================================================================
