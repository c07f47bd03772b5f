-------------------------- MODULE A314OrderProofs ---------------------------
(***************************************************************************)
(* The items of a stream come in order, and its end last.                  *)
(*                                                                         *)
(* The clients and the resets of the Amiga keep Order, as the handlers of  *)
(* the driver and the A314 thread do (A314PathProofs).  Ordered, that      *)
(* there is a path in Order, is then kept by every step that gives no      *)
(* socket an id still in use (FreshIds).  While few streams are opened it  *)
(* holds by itself: allocate_stream_id counts through all ids before it    *)
(* gives one again (Numbered).                                             *)
(*                                                                         *)
(* What Order says of the two ends (Seen), before and after a step, makes  *)
(* the step one of A314Stream, or one that neither end sees: OneEnd for    *)
(* the driver's steps, Becomes for those of a client.                      *)
(***************************************************************************)
EXTENDS A314PathProofs

-----------------------------------------------------------------------------
(* The clients. *)

\* Client c reads the first message it has, or none, and may say something or leave.
TakesOne(q, v) == v = q \/ (q # <<>> /\ v = Tail(q))
Attends(p, q, c) ==
  /\ q \in ThreadStates /\ c \in Clients /\ p.conn[c] = "up" /\ q.conn[c] # "none"
  /\ q.channels = p.channels /\ q.services = p.services /\ q.cc_next_stream_id = p.cc_next_stream_id
  /\ \A e \in Clients : e # c => q.conn[e] = p.conn[e] /\ q.toCli[e] = p.toCli[e] /\ q.fromCli[e] = p.fromCli[e]
  /\ TakesOne(p.toCli[c], q.toCli[c])
\* a message it may say
Voiced(g, p, c, m) ==
  /\ m \in FromClient /\ m.type # "REGISTER_REQ" /\ m.sid < p.cc_next_stream_id[c]
  /\ m.type = "DATA" => /\ m.data.session \in Sessions /\ g.cl[m.data.session] = c /\ g.sid[m.data.session] = m.sid
                        /\ m.data.number # 0
SaysNothing(p, q, c) == q.fromCli[c] = p.fromCli[c]
Speaking(g, p, q, c, m) == Voiced(g, p, c, m) /\ q.fromCli[c] = Append(p.fromCli[c], m)
Heard(g, p, q, c) == SaysNothing(p, q, c) \/ \E m : Speaking(g, p, q, c, m)

\* A message at the end of those that wait.
LEMMA TailAppend ==
  ASSUME NEW T, NEW q \in Seq(T), q # <<>>, NEW x \in T
  PROVE  Head(Append(q, x)) = Head(q) /\ Elems(Tail(Append(q, x))) \subseteq Elems(Tail(q)) \union {x}
<1> DEFINE v == Append(q, x)
           N == Len(q)
<1>1. /\ v \in Seq(T) /\ Len(v) = Len(q) + 1 /\ v[Len(q) + 1] = x /\ v # <<>>
      /\ \A k \in 1..Len(q) : v[k] = q[k]
  BY AppendAdds
<1>2. Len(q) \in Nat /\ DOMAIN q = 1..Len(q) /\ DOMAIN v = 1..(Len(q) + 1)
  BY <1>1, Places
<1>3. /\ Tail(q) \in Seq(T) /\ 1 \in DOMAIN q /\ q[1] = Head(q)
  BY HeadAndRest
<1> HIDE DEF v
<1>4. /\ Tail(v) \in Seq(T) /\ v[1] = Head(v)
      /\ \A k \in DOMAIN Tail(v) : Tail(v)[k] = v[k + 1] /\ k + 1 \in DOMAIN v /\ 1 < k + 1 /\ k \in Int
  BY <1>1, HeadAndRest
<1>5. Head(v) = Head(q)
  BY <1>1, <1>2, <1>3, <1>4
<1>6. /\ DOMAIN Tail(q) = 1..(Len(q) - 1) /\ \A k \in 1..(Len(q) - 1) : Tail(q)[k] = q[k + 1]
  BY <1>2, <1>3, HeadTailProperties, Places
<1>7. ASSUME NEW k \in DOMAIN Tail(v) PROVE Tail(v)[k] \in Elems(Tail(q)) \union {x}
  <2>1. k \in Int /\ 1 < k + 1 /\ k + 1 \in 1..(Len(q) + 1) /\ Tail(v)[k] = v[k + 1]
    BY <1>2, <1>4
  <2>2. CASE k = Len(q)
    BY <1>1, <2>1, <2>2
  <2>3. CASE k # Len(q)
    <3>1. k \in 1..(N - 1) /\ k + 1 \in 1..N
      <4>1. N \in Nat /\ k \in Int /\ 1 < k + 1 /\ k + 1 \in 1..(N + 1) /\ k # N
        BY <1>2, <2>1, <2>3
      <4> HIDE DEF N
      <4>2. QED
        BY <4>1
    <3>2. Tail(v)[k] = Tail(q)[k] /\ k \in DOMAIN Tail(q)
      BY <1>1, <1>6, <2>1, <3>1
    <3>3. QED
      BY <3>2 DEF Elems
  <2>4. QED
    BY <2>2, <2>3
<1>8. QED
  BY <1>5, <1>7 DEF Elems, v

\* Messages and streams stay on the connections of their sessions.
LEMMA AttendedRouted ==
  ASSUME NEW g, NEW p, NEW u, NEW r, NEW b, NEW st, NEW d, Runs(g, p, u, r, b, st, d),
         NEW q, NEW c, Attends(p, q, c), Heard(g, p, q, c)
  PROVE  ThreadRouted(g, q)
<1>1. /\ p \in ThreadStates /\ ServicesRouted(p) /\ SidsRouted(g, p) /\ MessagesRouted(g, p) /\ ChannelsRouted(g, p)
      /\ p.toCli \in [Clients -> Seq(ToClient)] /\ p.fromCli \in [Clients -> Seq(FromClient)]
      /\ p.services \in ServiceMaps
  BY RunsTypes
<1>2. /\ q \in ThreadStates /\ c \in Clients /\ p.conn[c] = "up" /\ q.conn[c] # "none"
      /\ q.channels = p.channels /\ q.services = p.services /\ q.cc_next_stream_id = p.cc_next_stream_id
      /\ \A e \in Clients : e # c => q.conn[e] = p.conn[e] /\ q.toCli[e] = p.toCli[e] /\ q.fromCli[e] = p.fromCli[e]
  BY DEF Attends
<1>3. Elems(q.toCli[c]) \subseteq Elems(p.toCli[c])
  BY <1>1, <1>2, HeadAndRest DEF Attends, TakesOne
<1>4. \A m \in Elems(q.fromCli[c]) : m \in Elems(p.fromCli[c]) \/ Voiced(g, p, c, m)
  <2>1. CASE SaysNothing(p, q, c)
    BY <2>1 DEF SaysNothing
  <2>2. CASE \E m : Speaking(g, p, q, c, m)
    <3>1. PICK m : Speaking(g, p, q, c, m)
      BY <2>2
    <3>2. m \in FromClient /\ Voiced(g, p, c, m) /\ q.fromCli[c] = Append(p.fromCli[c], m) /\ p.fromCli[c] \in Seq(FromClient)
      BY <1>1, <1>2, <3>1 DEF Speaking, Voiced
    <3>3. Elems(q.fromCli[c]) = Elems(p.fromCli[c]) \union {m}
      BY <3>2, AppendAdds
    <3>4. QED
      BY <3>2, <3>3
  <2>3. QED
    BY <2>1, <2>2 DEF Heard
<1>5. Asking(q.fromCli[c]) =>
        /\ Asking(p.fromCli[c]) /\ Head(q.fromCli[c]) = Head(p.fromCli[c])
        /\ (Asking(Tail(q.fromCli[c])) => Asking(Tail(p.fromCli[c])))
  <2>1. CASE SaysNothing(p, q, c)
    BY <2>1 DEF SaysNothing
  <2>2. CASE \E m : Speaking(g, p, q, c, m)
    <3>1. PICK m : Speaking(g, p, q, c, m)
      BY <2>2
    <3>2. m \in FromClient /\ m.type # "REGISTER_REQ" /\ q.fromCli[c] = Append(p.fromCli[c], m) /\ p.fromCli[c] \in Seq(FromClient)
      BY <1>1, <1>2, <3>1 DEF Speaking, Voiced
    <3>3. Elems(q.fromCli[c]) = Elems(p.fromCli[c]) \union {m}
      BY <3>2, AppendAdds
    <3>4. Asking(q.fromCli[c]) => Asking(p.fromCli[c])
      BY <3>2, <3>3 DEF Asking
    <3>5. Asking(p.fromCli[c]) => p.fromCli[c] # <<>>
      BY NothingQueued DEF Asking
    <3>6. p.fromCli[c] # <<>> =>
            /\ Head(q.fromCli[c]) = Head(p.fromCli[c])
            /\ Elems(Tail(q.fromCli[c])) \subseteq Elems(Tail(p.fromCli[c])) \union {m}
      BY <3>2, TailAppend
    <3>7. QED
      BY <3>2, <3>4, <3>5, <3>6 DEF Asking
  <2>3. QED
    BY <2>1, <2>2 DEF Heard
<1>6. MessagesRouted(g, q)
  <2>1. ASSUME NEW e \in Clients
        PROVE  Said(g, e, q.toCli[e], q.cc_next_stream_id[e]) /\ Said(g, e, q.fromCli[e], q.cc_next_stream_id[e])
    <3>1. Said(g, e, p.toCli[e], p.cc_next_stream_id[e]) /\ Said(g, e, p.fromCli[e], p.cc_next_stream_id[e])
      BY <1>1 DEF MessagesRouted
    <3>2. CASE e = c
      <4>1. Said(g, c, q.toCli[c], q.cc_next_stream_id[c])
        BY <1>2, <1>3, <3>1, <3>2 DEF Said
      <4>2. \A m : Voiced(g, p, c, m) => m.type # "CONNECT"
        BY DEF Voiced, FromClient
      <4>3. Said(g, c, q.fromCli[c], q.cc_next_stream_id[c])
        BY <1>2, <1>4, <3>1, <3>2, <4>2 DEF Said, Voiced
      <4>4. QED
        BY <3>2, <4>1, <4>3
    <3>3. CASE e # c
      BY <1>2, <3>1, <3>3
    <3>4. QED
      BY <3>2, <3>3
  <2>2. QED
    BY <2>1 DEF MessagesRouted
<1>7. SidsRouted(g, q)
  BY <1>1, <1>2 DEF SidsRouted, Registered
<1>8. Registered(q) = Registered(p)
  BY <1>2 DEF Registered
<1>9. ServicesRouted(q)
  <2>1. ASSUME NEW s \in DOMAIN q.services PROVE s = Name[q.services[s]] /\ q.conn[q.services[s]] # "none"
    <3>1. p.services[s] \in Clients /\ s \in DOMAIN p.services
      BY <1>1, <1>2 DEF ServiceMaps
    <3>2. QED
      BY <1>1, <1>2, <3>1 DEF ServicesRouted
  <2>2. \A e \in OnDemand : q.conn[e] # "none" => e \in Registered(q)
    BY <1>1, <1>2, <1>8, ClientAssumption DEF ServicesRouted
  <2>3. ASSUME NEW e \in Clients
        PROVE  /\ Asking(q.fromCli[e]) =>
                    /\ e \notin Registered(q) /\ ~Asking(Tail(q.fromCli[e]))
                    /\ Head(q.fromCli[e]).type = "REGISTER_REQ"
                    /\ \A m \in Elems(q.toCli[e]) : m.type # "REGISTER_RES"
               /\ Refused(q.toCli[e]) => e \notin Registered(q)
               /\ q.conn[e] = "none" => q.toCli[e] = <<>> /\ q.fromCli[e] = <<>>
    <3>1. CASE e = c
      BY <1>1, <1>2, <1>3, <1>5, <1>8, <3>1 DEF ServicesRouted, Refused
    <3>2. CASE e # c
      BY <1>1, <1>2, <1>8, <3>2 DEF ServicesRouted
    <3>3. QED
      BY <3>1, <3>2
  <2>4. QED
    BY <2>1, <2>2, <2>3 DEF ServicesRouted
<1>10. QED
  BY <1>1, <1>2, <1>6, <1>7, <1>9 DEF ThreadRouted, ChannelsRouted

\* The step of the client is not about session n.
Aside(g, p, q, c, n) ==
  g.cl[n] = c =>
    /\ \/ q.toCli[c] = p.toCli[c]
       \/ p.toCli[c] # <<>> /\ q.toCli[c] = Tail(p.toCli[c]) /\ ~IsItem(Head(p.toCli[c]), n)
    /\ \/ SaysNothing(p, q, c)
       \/ \E m : Speaking(g, p, q, c, m) /\ ~IsItem(m, n) /\ m \notin EosMessages(g.sid[n])
LEMMA AttendedOn ==
  ASSUME NEW g, NEW p, NEW u, NEW r, NEW b, NEW st, NEW d, Runs(g, p, u, r, b, st, d),
         NEW q, NEW c, Attends(p, q, c), NEW n \in Sessions, Aside(g, p, q, c, n), NEW t, t[n] = st[n]
  PROVE  Lives(g, q, u, r, b, t, d, n)
<1>1. /\ p.toCli \in [Clients -> Seq(ToClient)] /\ p.fromCli \in [Clients -> Seq(FromClient)]
      /\ g.cl \in [Sessions -> Clients \union {NoOne}]
  BY RunsTypes DEF Paths
<1>2. /\ q \in ThreadStates /\ c \in Clients /\ p.conn[c] = "up"
      /\ q.channels = p.channels
      /\ \A e \in Clients : e # c => q.conn[e] = p.conn[e] /\ q.toCli[e] = p.toCli[e] /\ q.fromCli[e] = p.fromCli[e]
  BY DEF Attends
<1>3. g.cl[n] = c => Passes(p.toCli[c], q.toCli[c], n, EosMessages(g.sid[n]))
  <2>1. CASE q.toCli[c] = p.toCli[c]
    BY <2>1, PassesSame
  <2>2. CASE p.toCli[c] # <<>> /\ q.toCli[c] = Tail(p.toCli[c]) /\ ~IsItem(Head(p.toCli[c]), n)
    <3>1. p.toCli[c] \in Seq(ToClient)
      BY <1>1, <1>2
    <3>2. QED
      BY <2>2, <3>1, AllCarry, PassesTail
  <2>3. QED
    BY <2>1, <2>2 DEF Aside
<1>4. g.cl[n] = c => Passes(p.fromCli[c], q.fromCli[c], n, EosMessages(g.sid[n]))
  <2>1. CASE SaysNothing(p, q, c)
    BY <2>1, PassesSame DEF SaysNothing
  <2>2. CASE \E m : Speaking(g, p, q, c, m) /\ ~IsItem(m, n) /\ m \notin EosMessages(g.sid[n])
    <3>1. PICK m : Speaking(g, p, q, c, m) /\ ~IsItem(m, n) /\ m \notin EosMessages(g.sid[n])
      BY <2>2
    <3>2. p.fromCli[c] \in Seq(FromClient) /\ m \in FromClient /\ q.fromCli[c] = Append(p.fromCli[c], m)
      BY <1>1, <1>2, <3>1 DEF Speaking, Voiced
    <3>3. QED
      BY <3>1, <3>2, PassesAppend
  <2>3. QED
    BY <2>1, <2>2 DEF Aside
<1>5. g.cl[n] # NoOne =>
        /\ Passes(p.toCli[g.cl[n]], q.toCli[g.cl[n]], n, EosMessages(g.sid[n]))
        /\ Passes(p.fromCli[g.cl[n]], q.fromCli[g.cl[n]], n, EosMessages(g.sid[n]))
        /\ (q.conn[g.cl[n]] = "up" => p.conn[g.cl[n]] = "up")
  <2>1. CASE g.cl[n] = c
    BY <1>2, <1>3, <1>4, <2>1
  <2>2. CASE g.cl[n] # c /\ g.cl[n] # NoOne
    <3>1. g.cl[n] \in Clients
      BY <1>1, <2>2
    <3>2. QED
      BY <1>2, <2>2, <3>1, PassesSame
  <2>3. QED
    BY <2>1, <2>2
<1>6. OnDown(g, n, p, u, q, u)
  BY <1>2, <1>5, OnUSame DEF OnDown, Linked, Flows
<1>7. Assoc(p, g.id[n]) => g.cl[n] # NoOne
  <2>1. SUFFICES ASSUME Assoc(p, g.id[n]) PROVE g.cl[n] # NoOne
    OBVIOUS
  <2>2. PICK k : IsOf(g, p, g.id[n], k)
    BY <2>1, SessionOf DEF Assoc
  <2>3. k = n /\ g.cl[k] \in Clients
    BY <2>2 DEF IsOf
  <2>4. QED
    BY <2>3, ClientAssumption
<1>8. OnUp(g, n, p, q)
  BY <1>2, <1>5, <1>7, PassesSame DEF OnUp, Assoc, Passes, Queue
<1>9. Lives(g, q, u, r, b, st, d, n)
  BY <1>2, <1>6, <1>8, OnUSame, SessionOn DEF Onward
<1>10. QED
  BY <1>9, LivesAlike

\* What the thread and the client have of the sessions after the step.
LEMMA AttendOrder ==
  ASSUME NEW g, NEW p, NEW u, NEW r, NEW b, NEW st, NEW d, Runs(g, p, u, r, b, st, d),
         NEW q, NEW c, Attends(p, q, c), Heard(g, p, q, c), NEW t \in [Sessions -> StreamTypes],
         StreamsRouted(g, q, t), \A n \in Sessions : Lives(g, q, u, r, b, t, d, n)
  PROVE  Runs(g, q, u, r, b, t, d)
<1>1. /\ g \in Paths /\ Apart(g) /\ PacketsRouted(g, u) /\ u \in Seq(AmigaPackets)
  BY RunsTypes
<1>2. q \in ThreadStates
  BY DEF Attends
<1>3. ThreadRouted(g, q)
  BY AttendedRouted
<1>4. QED
  BY <1>1, <1>2, <1>3, RunsAgain

\* A session that has a client is born: its stream may change.
LEMMA BirthStream ==
  ASSUME NEW g, NEW n, NEW u, NEW d, NEW st, NEW t, Birth(g, n, u, d, st), g.cl[n] # NoOne
  PROVE  Birth(g, n, u, d, t)
  BY DEF Birth, Unborn
\* The stream of session n is done, or its client gone.
LEMMA DownDone ==
  ASSUME NEW g, NEW n, NEW p, NEW q, NEW u, NEW d, NEW st, NEW t, Down(g, n, p, u, d, st),
         t[n].got = st[n].got, t[n].st = "done" \/ ~Linked(g, n, q),
         t[n].eos => t[n].st = "done" /\ Len(t[n].got) = d.written[n] /\ n \in d.eosWritten,
         Linked(g, n, q) => ~Calls(q.toCli[g.cl[n]], n)
  PROVE  Down(g, n, q, u, d, t)
  BY DEF Down
\* The client says nothing that is an item of session n.
Quiets(g, n, p, q, s, x) ==
  /\ q.channels = p.channels /\ x.sent = s.sent /\ (s.ended => x.ended)
  /\ x.ended => x.st \in {"eos", "done"}
  /\ Carries(q.fromCli[g.cl[n]], EosMessages(g.sid[n])) =>
       Carries(p.fromCli[g.cl[n]], EosMessages(g.sid[n])) \/ x.ended
  /\ Continues(p.fromCli[g.cl[n]], q.fromCli[g.cl[n]], n, EosMessages(g.sid[n]))
LEMMA UpQuiet ==
  ASSUME NEW g, NEW n, NEW p, NEW q, NEW d, NEW r, NEW b, NEW st, NEW t, Up(g, n, p, d, r, b, st), g.cl[n] # NoOne,
         Quiets(g, n, p, q, st[n], t[n]), st[n].sent \in Nat
  PROVE  Up(g, n, q, d, r, b, t)
<1>1. /\ q.channels = p.channels /\ t[n].sent = st[n].sent /\ (st[n].ended => t[n].ended)
      /\ t[n].ended => t[n].st \in {"eos", "done"}
      /\ Carries(q.fromCli[g.cl[n]], EosMessages(g.sid[n])) =>
           Carries(p.fromCli[g.cl[n]], EosMessages(g.sid[n])) \/ t[n].ended
  BY DEF Quiets
<1>2. ASSUME Open(d, g.id[n]) PROVE UpOpen(g, n, q, d, r, b, t[n])
  <2>1. UpOpen(g, n, p, d, r, b, st[n])
    BY <1>2 DEF Up
  <2>2. PICK z1 \in 0..st[n].sent, z2 \in 0..st[n].sent, z3 \in 0..st[n].sent :
          UpTo(g, n, p, d, r, b, st[n], z1, z2, z3)
    BY <2>1 DEF UpOpen
  <2>3. z3 \in Int /\ st[n].sent \in Int
    BY <2>2
  <2>4. Run(p.fromCli[g.cl[n]], n, EosMessages(g.sid[n]), z3, st[n].sent) =>
          Run(q.fromCli[g.cl[n]], n, EosMessages(g.sid[n]), z3, t[n].sent)
    BY <1>1, <2>3 DEF Quiets, Continues
  <2>5. Queue(q, g.id[n]) = Queue(p, g.id[n])
    BY <1>1 DEF Queue
  <2>6. UpTo(g, n, q, d, r, b, t[n], z1, z2, z3)
    BY <1>1, <2>2, <2>4, <2>5 DEF UpTo
  <2>7. z1 \in 0..t[n].sent /\ z2 \in 0..t[n].sent /\ z3 \in 0..t[n].sent
    BY <1>1, <2>2
  <2>8. QED
    BY <1>1, <2>1, <2>6, <2>7 DEF UpOpen
<1>3. QED
  BY <1>1, <1>2 DEF Up

\* Client c reads its first message.
Hearing(p, q, c) ==
  /\ Attends(p, q, c) /\ p.toCli[c] # <<>> /\ q.toCli[c] = Tail(p.toCli[c])
\* REGISTER_RES: the client that is refused leaves, and has no streams.
LEMMA RegisterResOrder ==
  ASSUME NEW g, NEW p, NEW u, NEW r, NEW b, NEW st, NEW d, Runs(g, p, u, r, b, st, d),
         NEW q, NEW c, Hearing(p, q, c), SaysNothing(p, q, c), Head(p.toCli[c]).type = "REGISTER_RES",
         q.conn[c] = "up" \/ Head(p.toCli[c]).data.number # 1
  PROVE  Runs(g, q, u, r, b, st, d)
<1>1. /\ p.toCli \in [Clients -> Seq(ToClient)] /\ st \in [Sessions -> StreamTypes]
      /\ StreamsRouted(g, p, st) /\ SidsRouted(g, p) /\ ServicesRouted(p)
  BY RunsTypes
<1>2. /\ Attends(p, q, c) /\ c \in Clients /\ p.conn[c] = "up"
      /\ \A e \in Clients : e # c => q.conn[e] = p.conn[e]
  BY DEF Hearing, Attends
<1>3. Head(p.toCli[c]) \in Elems(p.toCli[c])
  BY <1>1, <1>2, HeadAndRest DEF Hearing
<1>4. \A n \in Sessions : st[n].client = c => q.conn[c] = "up"
  BY <1>1, <1>2, <1>3, ClientAssumption DEF StreamsRouted, SidsRouted, ServicesRouted, Refused
<1>5. \A n \in Sessions : st[n].client \in Clients \union {NoOne}
  BY <1>1 DEF StreamTypes
<1>6. StreamsRouted(g, q, st)
  BY <1>1, <1>2, <1>4, <1>5 DEF StreamsRouted
<1>7. ASSUME NEW n \in Sessions PROVE Lives(g, q, u, r, b, st, d, n)
  <2>1. ~IsItem(Head(p.toCli[c]), n)
    BY DEF IsItem
  <2>2. Aside(g, p, q, c, n)
    BY <2>1 DEF Aside, Hearing
  <2>3. QED
    BY <1>2, <2>2, AttendedOn
<1>8. Heard(g, p, q, c)
  BY DEF Heard
<1>9. QED
  BY <1>1, <1>2, <1>6, <1>7, <1>8, AttendOrder

\* The message under way is the first one of session n.
LEMMA FirstItem ==
  ASSUME NEW g, NEW p, NEW u, NEW r, NEW b, NEW st, NEW d, Runs(g, p, u, r, b, st, d),
         NEW c \in Clients, p.conn[c] = "up", p.toCli[c] # <<>>, NEW n \in Sessions, g.cl[n] = c,
         IsItem(Head(p.toCli[c]), n), st[n].st # "done"
  PROVE  \E x \in 0..d.written[n] :
           /\ DownTo(g, n, p, u, d, st, x) /\ Taken(st[n]) \in Int /\ Taken(st[n]) < x
           /\ Head(p.toCli[c]).data.number = Taken(st[n]) + 1
           /\ Run(Tail(p.toCli[c]), n, EosMessages(g.sid[n]), Taken(st[n]) + 1, x)
<1>1. /\ Lives(g, p, u, r, b, st, d, n) /\ p.toCli[c] \in Seq(ToClient) /\ st[n] \in StreamTypes /\ c # NoOne
  BY RunsTypes, ClientAssumption
<1>2. Linked(g, n, p) /\ Down(g, n, p, u, d, st)
  BY <1>1 DEF Linked, Lives
<1>3. PICK x \in 0..d.written[n] : DownTo(g, n, p, u, d, st, x)
  BY <1>2 DEF Down
<1>4. Taken(st[n]) \in Int /\ x \in Int
  BY <1>1, <1>3, TakenIs
<1>5. Run(p.toCli[c], n, EosMessages(g.sid[n]), Taken(st[n]), x)
  BY <1>3 DEF DownTo
<1>6. Carriers(ToClient)
  BY AllCarry
<1>7. /\ Head(p.toCli[c]).data.number = Taken(st[n]) + 1 /\ Taken(st[n]) < x
      /\ Run(Tail(p.toCli[c]), n, EosMessages(g.sid[n]), Taken(st[n]) + 1, x)
  BY <1>1, <1>4, <1>5, <1>6, RunTailItem
<1>8. QED
  BY <1>3, <1>4, <1>7

\* The client takes stream k, or refuses it, and says so.
Begins(st, t, k, c, s) ==
  /\ t \in [Sessions -> StreamTypes] /\ k \in Sessions /\ \A n \in Sessions : n # k => t[n] = st[n]
  /\ t[k].client = c /\ t[k].sid = s /\ t[k].st \in {"open", "done"}
  /\ t[k].sent = 0 /\ t[k].got = <<>> /\ ~t[k].ended /\ ~t[k].eos
Answered(p, q, c, s) ==
  \E m \in FromClient : m.type = "CONNECT_RESPONSE" /\ m.sid = s /\ q.fromCli[c] = Append(p.fromCli[c], m)
\* A CONNECT that a client reads is the first it hears of the session.
LEMMA FirstConnect ==
  ASSUME NEW g, NEW p, NEW u, NEW r, NEW b, NEW st, NEW d, Runs(g, p, u, r, b, st, d),
         NEW c \in Clients, p.conn[c] = "up", p.toCli[c] # <<>>, Head(p.toCli[c]).type = "CONNECT"
  PROVE  LET m == Head(p.toCli[c])
             k == m.data.session IN
         /\ k \in Sessions /\ g.cl[k] = c /\ g.sid[k] = m.sid /\ m.sid < p.cc_next_stream_id[c]
         /\ st[k] = NoStream /\ ~Calls(Tail(p.toCli[c]), k)
         /\ \E x \in 0..d.written[k] : DownTo(g, k, p, u, d, st, x) /\ Run(Tail(p.toCli[c]), k, EosMessages(g.sid[k]), 0, x)
<1> DEFINE m == Head(p.toCli[c])
           k == m.data.session
<1>1. /\ p.toCli[c] \in Seq(ToClient) /\ MessagesRouted(g, p) /\ c # NoOne
      /\ \A n \in Sessions : Lives(g, p, u, r, b, st, d, n)
  BY RunsTypes, ClientAssumption
<1>2. m \in Elems(p.toCli[c]) /\ m \in ToClient /\ Tail(p.toCli[c]) \in Seq(ToClient)
      /\ Elems(Tail(p.toCli[c])) \subseteq Elems(p.toCli[c])
  BY <1>1, HeadAndRest
<1>3. /\ k \in Sessions /\ g.cl[k] = c /\ g.sid[k] = m.sid /\ m.data.number = 0
      /\ m.sid < p.cc_next_stream_id[c]
  BY <1>1, <1>2 DEF MessagesRouted, Said, Registers
<1>4. Calls(p.toCli[c], k)
  BY <1>2 DEF Calls
<1>5. st[k] = NoStream
  BY <1>1, <1>3, <1>4 DEF Lives, Down, Linked
<1>6. IsItem(m, k) /\ st[k].st # "done" /\ Taken(st[k]) = -1
  BY <1>5 DEF IsItem, NoStream, Taken
<1> HIDE DEF k
<1>7. PICK x \in 0..d.written[k] :
        /\ DownTo(g, k, p, u, d, st, x)
        /\ Run(Tail(p.toCli[c]), k, EosMessages(g.sid[k]), Taken(st[k]) + 1, x)
  BY <1>3, <1>6, FirstItem
<1>8. Run(Tail(p.toCli[c]), k, EosMessages(g.sid[k]), 0, x) /\ x \in Int
  BY <1>6, <1>7
<1>9. Carriers(ToClient)
  BY AllCarry
<1>10. \A y \in Elems(Tail(p.toCli[c])) : IsItem(y, k) => 0 < y.data.number
  <2> DEFINE v == Tail(p.toCli[c])
             E == EosMessages(g.sid[k])
  <2>1. v \in Seq(ToClient) /\ Run(v, k, E, 0, x) /\ x \in Int /\ 0 \in Int
    BY <1>2, <1>8
  <2> HIDE DEF v, E
  <2>2. \A y \in Elems(v) : IsItem(y, k) => 0 < y.data.number /\ y.data.number <= x
    BY <1>9, <2>1, RunHas
  <2>3. QED
    BY <2>2 DEF v
<1>11. \A y \in Elems(Tail(p.toCli[c])) : y.type = "CONNECT" => y.data.number = 0
  BY <1>1, <1>2 DEF MessagesRouted, Said
<1>12. ~Calls(Tail(p.toCli[c]), k)
  BY <1>10, <1>11 DEF Calls, IsItem
<1>13. QED
  BY <1>3, <1>5, <1>7, <1>8, <1>12 DEF k

\* CONNECT: the client has stream k, of which it has got nothing yet.
LEMMA ConnectMsgOrder ==
  ASSUME NEW g, NEW p, NEW u, NEW r, NEW b, NEW st, NEW d, Runs(g, p, u, r, b, st, d),
         NEW q, NEW c, Hearing(p, q, c), q.conn[c] = "up", Head(p.toCli[c]).type = "CONNECT",
         Answered(p, q, c, Head(p.toCli[c]).sid), NEW t,
         Begins(st, t, Head(p.toCli[c]).data.session, c, Head(p.toCli[c]).sid)
  PROVE  Runs(g, q, u, r, b, t, d)
<1> DEFINE m == Head(p.toCli[c])
           k == m.data.session
<1>1. /\ p.toCli \in [Clients -> Seq(ToClient)] /\ p.fromCli \in [Clients -> Seq(FromClient)]
      /\ st \in [Sessions -> StreamTypes] /\ StreamsRouted(g, p, st)
      /\ \A n \in Sessions : Lives(g, p, u, r, b, st, d, n)
  BY RunsTypes
<1>2. /\ Attends(p, q, c) /\ c \in Clients /\ c # NoOne /\ p.conn[c] = "up" /\ q.channels = p.channels
      /\ \A e \in Clients : e # c => q.conn[e] = p.conn[e]
      /\ p.toCli[c] # <<>> /\ q.toCli[c] = Tail(p.toCli[c])
  BY ClientAssumption DEF Hearing, Attends
<1>3. /\ k \in Sessions /\ g.cl[k] = c /\ g.sid[k] = m.sid /\ m.sid < p.cc_next_stream_id[c]
      /\ st[k] = NoStream /\ ~Calls(Tail(p.toCli[c]), k)
      /\ \E x \in 0..d.written[k] : DownTo(g, k, p, u, d, st, x) /\ Run(Tail(p.toCli[c]), k, EosMessages(g.sid[k]), 0, x)
  BY <1>2, FirstConnect
<1>4. PICK y \in FromClient : y.type = "CONNECT_RESPONSE" /\ y.sid = m.sid /\ q.fromCli[c] = Append(p.fromCli[c], y)
  BY DEF Answered
<1>5. Speaking(g, p, q, c, y)
  BY <1>3, <1>4 DEF Speaking, Voiced
<1>6. /\ t \in [Sessions -> StreamTypes] /\ \A n \in Sessions : n # k => t[n] = st[n]
      /\ t[k].client = c /\ t[k].sid = m.sid /\ t[k].st \in {"open", "done"}
      /\ t[k].sent = 0 /\ t[k].got = <<>> /\ ~t[k].ended /\ ~t[k].eos
  BY DEF Begins
<1>7. /\ st[k].sent = 0 /\ st[k].got = <<>> /\ ~st[k].ended
  <2>1. NoStream.sent = 0 /\ NoStream.got = <<>> /\ ~NoStream.ended
    BY DEF NoStream
  <2>2. QED
    BY <1>3, <2>1
<1>8. \A n : ~IsItem(y, n) /\ y \notin EosMessages(g.sid[n])
  BY <1>4 DEF IsItem, EosMessages
<1>9. ASSUME NEW n \in Sessions, n # k PROVE Lives(g, q, u, r, b, t, d, n)
  <2>1. ~IsItem(m, n)
    BY <1>9 DEF IsItem
  <2>2. Aside(g, p, q, c, n)
    BY <1>2, <1>5, <1>8, <2>1 DEF Aside
  <2>3. QED
    BY <1>2, <1>6, <1>9, <2>2, AttendedOn
<1>10. Birth(g, k, u, d, t)
  BY <1>1, <1>2, <1>3, BirthStream DEF Lives
<1> HIDE DEF m, k
<1>11. Down(g, k, q, u, d, t)
  <2>1. Down(g, k, p, u, d, st)
    BY <1>1, <1>3 DEF Lives
  <2>2. PICK x \in 0..d.written[k] :
          DownTo(g, k, p, u, d, st, x) /\ Run(Tail(p.toCli[c]), k, EosMessages(g.sid[k]), 0, x)
    BY <1>3
  <2>3. Elems(Tail(p.toCli[c])) \subseteq Elems(p.toCli[c])
    BY <1>1, <1>2, HeadAndRest
  <2>4. t[k].st = "open" => Taken(t[k]) = 0 /\ 0 <= x
    <3>1. Len(<<>>) = 0
      OBVIOUS
    <3>2. QED
      BY <1>6, <2>2, <3>1 DEF Taken
  <2>5. t[k].st = "open" => DownTo(g, k, q, u, d, t, x)
    BY <1>2, <1>3, <2>2, <2>3, <2>4 DEF DownTo, Carries, Flows
  <2>6. \A j \in DOMAIN t[k].got : t[k].got[j] = Item(k, j)
    BY <1>6, <1>7, <2>1 DEF Down
  <2>7. Carries(u, EosPackets(g.id[k])) => k \in d.eosWritten
    BY <2>1 DEF Down
  <2>8. ~Calls(q.toCli[g.cl[k]], k)
    BY <1>2, <1>3
  <2>9. t[k].st # "done" => \E z \in 0..d.written[k] : DownTo(g, k, q, u, d, t, z)
    BY <1>6, <2>5
  <2>10. QED
    BY <1>6, <2>6, <2>7, <2>8, <2>9 DEF Down
<1>12. Up(g, k, q, d, r, b, t)
  <2>1. p.fromCli[c] \in Seq(FromClient)
    BY <1>1, <1>2
  <2>2. Passes(p.fromCli[c], q.fromCli[c], k, EosMessages(g.sid[k]))
    BY <1>4, <1>8, <2>1, PassesAppend
  <2>3. Quiets(g, k, p, q, st[k], t[k])
    BY <1>2, <1>3, <1>6, <1>7, <2>2 DEF Quiets, Passes
  <2>4. st[k].sent \in Nat
    BY <1>7
  <2>5. Up(g, k, p, d, r, b, st)
    BY <1>1, <1>3 DEF Lives
  <2>6. QED
    BY <1>2, <1>3, <2>3, <2>4, <2>5, UpQuiet
<1>13. \A n \in Sessions : Lives(g, q, u, r, b, t, d, n)
  BY <1>9, <1>10, <1>11, <1>12 DEF Lives
<1>14. \A n \in Sessions : st[n].client \in Clients \union {NoOne}
  BY <1>1 DEF StreamTypes
<1>15. \A e \in Clients : q.conn[e] = "up" <=> p.conn[e] = "up"
  BY <1>2
<1>16. StreamsRouted(g, q, t)
  <2>1. ASSUME NEW n \in Sessions
        PROVE  /\ t[n].client # NoOne =>
                    g.cl[n] = t[n].client /\ g.sid[n] = t[n].sid /\ q.conn[t[n].client] = "up"
               /\ t[n].st \in {"open", "eos"} => t[n].client # NoOne
               /\ t[n].st = "none" => t[n] = NoStream
    <3>1. CASE n = k
      BY <1>2, <1>3, <1>6, <3>1
    <3>2. CASE n # k
      BY <1>1, <1>6, <1>14, <1>15, <3>2 DEF StreamsRouted
    <3>3. QED
      BY <3>1, <3>2
  <2>2. QED
    BY <2>1 DEF StreamsRouted
<1>17. Heard(g, p, q, c)
  BY <1>5 DEF Heard
<1>18. QED
  BY <1>2, <1>6, <1>13, <1>16, <1>17, AttendOrder

\* DATA, EOS or RESET of a stream that the client does not have, or that is done.
LEMMA StaleMsgOrder ==
  ASSUME NEW g, NEW p, NEW u, NEW r, NEW b, NEW st, NEW d, Runs(g, p, u, r, b, st, d),
         NEW q, NEW c, Hearing(p, q, c), SaysNothing(p, q, c), q.conn[c] = "up",
         Head(p.toCli[c]).type \in {"DATA", "EOS", "RESET"},
         \A n \in Sessions : st[n].client = c /\ st[n].sid = Head(p.toCli[c]).sid => st[n].st = "done"
  PROVE  Runs(g, q, u, r, b, st, d)
<1> DEFINE m == Head(p.toCli[c])
<1>1. /\ p.toCli \in [Clients -> Seq(ToClient)] /\ st \in [Sessions -> StreamTypes]
      /\ StreamsRouted(g, p, st) /\ MessagesRouted(g, p)
      /\ \A n \in Sessions : Lives(g, p, u, r, b, st, d, n)
  BY RunsTypes
<1>2. /\ Attends(p, q, c) /\ c \in Clients /\ c # NoOne /\ p.conn[c] = "up" /\ q.channels = p.channels
      /\ \A e \in Clients : e # c => q.conn[e] = p.conn[e]
      /\ p.toCli[c] # <<>> /\ q.toCli[c] = Tail(p.toCli[c]) /\ q.fromCli[c] = p.fromCli[c]
  BY ClientAssumption DEF Hearing, Attends, SaysNothing
<1>3. m \in Elems(p.toCli[c]) /\ Elems(Tail(p.toCli[c])) \subseteq Elems(p.toCli[c])
  BY <1>1, <1>2, HeadAndRest
<1>4. m.type = "DATA" => /\ m.data.session \in Sessions /\ g.cl[m.data.session] = c
                         /\ g.sid[m.data.session] = m.sid /\ m.data.number # 0
  BY <1>1, <1>2, <1>3 DEF MessagesRouted, Said
<1>5. m.type # "CONNECT"
  OBVIOUS
<1>6. \A n \in Sessions : st[n].client \in Clients \union {NoOne}
  BY <1>1 DEF StreamTypes
<1>7. StreamsRouted(g, q, st)
  BY <1>1, <1>2, <1>6 DEF StreamsRouted
<1>8. ASSUME NEW n \in Sessions PROVE Lives(g, q, u, r, b, st, d, n)
  <2>1. CASE ~IsItem(m, n)
    <3>1. Aside(g, p, q, c, n)
      BY <1>2, <2>1 DEF Aside, SaysNothing
    <3>2. QED
      BY <1>2, <3>1, AttendedOn
  <2>2. CASE IsItem(m, n)
    <3>1. g.cl[n] = c /\ g.sid[n] = m.sid /\ m.data.number # 0
      BY <1>4, <1>5, <2>2 DEF IsItem
    <3>2. st[n].st = "done"
      <4>1. SUFFICES ASSUME st[n].st # "done" PROVE FALSE
        OBVIOUS
      <4>2. m.data.number = Taken(st[n]) + 1
        BY <1>2, <2>2, <3>1, <4>1, FirstItem
      <4>3. st[n].st # "none"
        BY <3>1, <4>2 DEF Taken
      <4>4. st[n].st \in {"open", "eos"}
        BY <1>1, <4>1, <4>3 DEF StreamTypes
      <4>5. st[n].client # NoOne /\ g.cl[n] = st[n].client /\ g.sid[n] = st[n].sid
        BY <1>1, <4>4 DEF StreamsRouted
      <4>6. QED
        BY <3>1, <4>1, <4>5
    <3>3. Birth(g, n, u, d, st) /\ Down(g, n, p, u, d, st) /\ Up(g, n, p, d, r, b, st)
      BY <1>1 DEF Lives
    <3>4. st[n] # NoStream
      BY <3>2 DEF NoStream
    <3>5. ~Calls(q.toCli[c], n)
      BY <1>2, <1>3, <3>1, <3>3, <3>4 DEF Down, Linked, Calls
    <3>6. Down(g, n, q, u, d, st)
      BY <3>1, <3>2, <3>3, <3>5, DownDone DEF Down
    <3>7. Quiets(g, n, p, q, st[n], st[n]) /\ st[n].sent \in Nat
      BY <1>1, <1>2, <3>1, <3>3 DEF Quiets, Up, Continues, StreamTypes
    <3>8. Up(g, n, q, d, r, b, st)
      BY <1>2, <3>1, <3>3, <3>7, UpQuiet
    <3>9. QED
      BY <3>3, <3>6, <3>8 DEF Lives
  <2>3. QED
    BY <2>1, <2>2
<1>9. Heard(g, p, q, c)
  BY DEF Heard
<1>10. QED
  BY <1>1, <1>2, <1>7, <1>8, <1>9, AttendOrder

\* The client has stream n, which is not done: message m changes it.
Handles(st, t, n, m) ==
  /\ t \in [Sessions -> StreamTypes] /\ \A k \in Sessions : k # n => t[k] = st[k]
  /\ t[n].client = st[n].client /\ t[n].sid = st[n].sid /\ t[n].sent = st[n].sent
  /\ t[n].st = IF m.type = "DATA" THEN st[n].st ELSE "done"
  /\ t[n].got = IF m.type = "DATA" THEN Append(st[n].got, m.data) ELSE st[n].got
  /\ t[n].eos = (m.type = "EOS" \/ st[n].eos) /\ t[n].ended = (m.type = "EOS" \/ st[n].ended)
Known(st, c, n, m) ==
  n \in Sessions /\ st[n].client = c /\ st[n].sid = m.sid /\ st[n].st \in {"open", "eos"}
\* EOS is answered
Returns(p, q, c, m) ==
  \/ SaysNothing(p, q, c)
  \/ m.type = "EOS" /\ \E y \in FromClient : y.type = "EOS" /\ y.sid = m.sid /\ q.fromCli[c] = Append(p.fromCli[c], y)
LEMMA KnownIs ==
  ASSUME NEW g, NEW p, NEW u, NEW r, NEW b, NEW st, NEW d, Runs(g, p, u, r, b, st, d),
         NEW c \in Clients, NEW n, NEW m, Known(st, c, n, m)
  PROVE  /\ n \in Sessions /\ g.cl[n] = c /\ g.sid[n] = m.sid /\ Linked(g, n, p) /\ p.conn[c] = "up"
         /\ m.sid < p.cc_next_stream_id[c] /\ st[n] # NoStream /\ ~st[n].eos
         /\ \A k \in Sessions : g.cl[k] = c /\ g.sid[k] = m.sid => k = n
         /\ \A k : (k \in Sessions /\ st[k].client = c /\ st[k].sid = m.sid) <=> k = n
         /\ ~Calls(p.toCli[c], n)
<1>1. /\ StreamsRouted(g, p, st) /\ Apart(g) /\ SidsRouted(g, p) /\ c # NoOne
      /\ n \in Sessions /\ st[n].client = c /\ st[n].sid = m.sid /\ st[n].st \in {"open", "eos"}
      /\ Down(g, n, p, u, d, st)
  BY RunsTypes, ClientAssumption DEF Known, Lives
<1>2. g.cl[n] = c /\ g.sid[n] = m.sid /\ p.conn[c] = "up"
  BY <1>1 DEF StreamsRouted
<1>3. \A k \in Sessions : g.cl[k] = c /\ g.sid[k] = m.sid => k = n
  BY <1>1, <1>2 DEF Apart
<1>4. \A k \in Sessions : st[k].client = c /\ st[k].sid = m.sid => k = n
  BY <1>1, <1>3 DEF StreamsRouted
<1>5. st[n] # NoStream /\ ~st[n].eos
  BY <1>1 DEF Down, NoStream
<1>6. m.sid < p.cc_next_stream_id[c] /\ Linked(g, n, p)
  BY <1>1, <1>2 DEF SidsRouted, Linked
<1>7. ~Calls(p.toCli[c], n)
  BY <1>1, <1>2, <1>5, <1>6 DEF Down
<1>8. QED
  BY <1>1, <1>2, <1>3, <1>4, <1>5, <1>6, <1>7

\* The client handles message m of its stream n.
Handling(g, p, q, c, n, st, t) ==
  /\ Hearing(p, q, c) /\ q.conn[c] = "up" /\ Head(p.toCli[c]).type \in {"DATA", "EOS", "RESET"}
  /\ Known(st, c, n, Head(p.toCli[c])) /\ Handles(st, t, n, Head(p.toCli[c])) /\ Returns(p, q, c, Head(p.toCli[c]))
LEMMA HandlingIs ==
  ASSUME NEW g, NEW p, NEW u, NEW r, NEW b, NEW st, NEW d, Runs(g, p, u, r, b, st, d),
         NEW q, NEW c, NEW n, NEW t, Handling(g, p, q, c, n, st, t)
  PROVE  LET m == Head(p.toCli[c]) IN
         /\ Attends(p, q, c) /\ c \in Clients /\ c # NoOne /\ q.channels = p.channels
         /\ p.conn[c] = "up" /\ q.conn[c] = "up" /\ \A e \in Clients : e # c => q.conn[e] = p.conn[e]
         /\ p.toCli[c] # <<>> /\ q.toCli[c] = Tail(p.toCli[c]) /\ p.toCli[c] \in Seq(ToClient)
         /\ p.fromCli[c] \in Seq(FromClient) /\ Elems(q.toCli[c]) \subseteq Elems(p.toCli[c])
         /\ m.type \in {"DATA", "EOS", "RESET"} /\ Returns(p, q, c, m)
         /\ m.type = "DATA" => IsItem(m, n) /\ \A k \in Sessions : IsItem(m, k) => k = n
         /\ m.type # "DATA" => \A k : ~IsItem(m, k)
         /\ m.type = "EOS" => m \in EosMessages(g.sid[n])
         /\ m \in Elems(p.toCli[c]) /\ m.data \in Items /\ Handles(st, t, n, m)
<1> DEFINE m == Head(p.toCli[c])
<1>1. /\ p.toCli \in [Clients -> Seq(ToClient)] /\ p.fromCli \in [Clients -> Seq(FromClient)]
      /\ MessagesRouted(g, p)
  BY RunsTypes
<1>2. /\ Attends(p, q, c) /\ c \in Clients /\ c # NoOne /\ p.conn[c] = "up" /\ q.channels = p.channels
      /\ \A e \in Clients : e # c => q.conn[e] = p.conn[e]
      /\ p.toCli[c] # <<>> /\ q.toCli[c] = Tail(p.toCli[c])
  BY ClientAssumption DEF Handling, Hearing, Attends
<1>3. m \in Elems(p.toCli[c]) /\ Elems(Tail(p.toCli[c])) \subseteq Elems(p.toCli[c]) /\ m \in ToClient
  BY <1>1, <1>2, HeadAndRest
<1>4. m.type = "DATA" => /\ m.data.session \in Sessions /\ g.cl[m.data.session] = c
                         /\ g.sid[m.data.session] = m.sid
  BY <1>1, <1>2, <1>3 DEF MessagesRouted, Said
<1>5. g.sid[n] = m.sid /\ \A k \in Sessions : g.cl[k] = c /\ g.sid[k] = m.sid => k = n
  BY <1>2, KnownIs DEF Handling
<1>6. m.type \in {"DATA", "EOS", "RESET"} /\ m.data \in Items /\ m = [type |-> m.type, sid |-> m.sid, data |-> m.data]
  BY <1>3 DEF Handling, ToClient
<1> HIDE DEF m
<1>7. m.type = "DATA" => IsItem(m, n) /\ \A k \in Sessions : IsItem(m, k) => k = n
  BY <1>4, <1>5 DEF IsItem
<1>8. m.type # "DATA" => \A k : ~IsItem(m, k)
  BY <1>6 DEF IsItem
<1>9. m.type = "EOS" => m \in EosMessages(g.sid[n])
  BY <1>5, <1>6 DEF EosMessages
<1>10. QED
  BY <1>1, <1>2, <1>3, <1>6, <1>7, <1>8, <1>9 DEF Handling, m

\* Of its stream n the client has one item more, or all.
LEMMA HandledDown ==
  ASSUME NEW g, NEW p, NEW u, NEW r, NEW b, NEW st, NEW d, Runs(g, p, u, r, b, st, d),
         NEW q, NEW c, NEW n, NEW t, Handling(g, p, q, c, n, st, t)
  PROVE  Down(g, n, q, u, d, t)
<1> DEFINE m == Head(p.toCli[c])
           E == EosMessages(g.sid[n])
<1>1. /\ c \in Clients /\ q.channels = p.channels /\ p.conn[c] = "up"
      /\ p.toCli[c] # <<>> /\ q.toCli[c] = Tail(p.toCli[c]) /\ p.toCli[c] \in Seq(ToClient)
      /\ Elems(q.toCli[c]) \subseteq Elems(p.toCli[c]) /\ m.type \in {"DATA", "EOS", "RESET"}
      /\ m.type = "DATA" => IsItem(m, n)
      /\ m.type # "DATA" => ~IsItem(m, n)
      /\ m.type = "EOS" => m \in E
      /\ m.data \in Items
  <2>1. /\ c \in Clients /\ q.channels = p.channels /\ p.conn[c] = "up"
        /\ p.toCli[c] # <<>> /\ q.toCli[c] = Tail(p.toCli[c]) /\ p.toCli[c] \in Seq(ToClient)
        /\ Elems(q.toCli[c]) \subseteq Elems(p.toCli[c]) /\ m.type \in {"DATA", "EOS", "RESET"}
    BY HandlingIs
  <2>2. m.type = "DATA" => IsItem(m, n)
    BY HandlingIs
  <2>3. m.type # "DATA" => \A k : ~IsItem(m, k)
    BY HandlingIs
  <2>4. (m.type = "EOS" => m \in E) /\ m.data \in Items
    BY HandlingIs
  <2>5. QED
    BY <2>1, <2>2, <2>3, <2>4
<1>2. /\ n \in Sessions /\ g.cl[n] = c /\ Linked(g, n, p) /\ ~st[n].eos /\ ~Calls(p.toCli[c], n)
      /\ st[n].st \in {"open", "eos"}
  BY <1>1, KnownIs DEF Handling, Known
<1>3. Handles(st, t, n, m)
  BY DEF Handling
<1>4. Down(g, n, p, u, d, st) /\ st[n].got \in Seq(Items) /\ st[n] \in StreamTypes /\ t[n] \in StreamTypes
  BY <1>2, <1>3, RunsTypes DEF Lives, StreamTypes, Handles
<1>5. Taken(st[n]) = Len(st[n].got) /\ Len(st[n].got) \in Nat
  BY <1>2, <1>4 DEF Taken
<1> HIDE DEF m, E
<1>6. ~Calls(q.toCli[g.cl[n]], n)
  BY <1>1, <1>2 DEF Calls
<1>7. CASE m.type = "DATA"
  <2>1. t[n].st = st[n].st /\ t[n].got = Append(st[n].got, m.data) /\ ~t[n].eos
    BY <1>2, <1>3, <1>7 DEF Handles
  <2>2. IsItem(m, n) /\ st[n].st # "done"
    BY <1>1, <1>2, <1>7
  <2>3. PICK x \in 0..d.written[n] :
          /\ DownTo(g, n, p, u, d, st, x) /\ Taken(st[n]) < x /\ m.data.number = Taken(st[n]) + 1
          /\ Run(Tail(p.toCli[c]), n, E, Taken(st[n]) + 1, x)
    BY <1>1, <1>2, <2>2, FirstItem DEF m, E
  <2>4. Len(t[n].got) = Len(st[n].got) + 1 /\ DOMAIN t[n].got = 1..(Len(st[n].got) + 1)
        /\ t[n].got[Len(st[n].got) + 1] = m.data
        /\ \A k \in 1..Len(st[n].got) : t[n].got[k] = st[n].got[k]
    BY <1>1, <1>4, <2>1
  <2>5. m.data = Item(n, Len(st[n].got) + 1)
    <3>1. m.data.session = n /\ m.data.number = Len(st[n].got) + 1
      BY <1>5, <2>2, <2>3 DEF IsItem
    <3>2. QED
      BY <1>1, <3>1 DEF Items, Item
  <2>6. ASSUME NEW k \in DOMAIN t[n].got PROVE t[n].got[k] = Item(n, k)
    <3>1. CASE k = Len(st[n].got) + 1
      BY <2>4, <2>5, <3>1
    <3>2. CASE k # Len(st[n].got) + 1
      <4>1. k \in 1..Len(st[n].got)
        BY <1>5, <2>4, <3>2
      <4>2. DOMAIN st[n].got = 1..Len(st[n].got)
        BY <1>4
      <4>3. QED
        BY <1>4, <2>4, <4>1, <4>2 DEF Down
    <3>3. QED
      BY <3>1, <3>2
  <2>7. Taken(t[n]) = Taken(st[n]) + 1
    BY <1>2, <1>5, <2>1, <2>4 DEF Taken
  <2>8. Taken(t[n]) <= x
    BY <1>5, <2>3, <2>7
  <2>9. DownTo(g, n, q, u, d, t, x)
    BY <1>1, <1>2, <2>3, <2>7, <2>8 DEF DownTo, Carries, Flows, E
  <2>10. QED
    BY <1>4, <1>6, <2>1, <2>6, <2>9 DEF Down
<1>8. CASE m.type # "DATA"
  <2>1. t[n].st = "done" /\ t[n].got = st[n].got /\ (t[n].eos => m.type = "EOS")
    BY <1>2, <1>3, <1>8 DEF Handles
  <2>2. m.type = "EOS" => Len(st[n].got) = d.written[n] /\ n \in d.eosWritten
    <3>1. SUFFICES ASSUME m.type = "EOS" PROVE Len(st[n].got) = d.written[n] /\ n \in d.eosWritten
      OBVIOUS
    <3>2. PICK x \in 0..d.written[n] : DownTo(g, n, p, u, d, st, x)
      BY <1>2, <1>4 DEF Down
    <3>3. m \in Elems(p.toCli[c])
      BY <1>1, HeadAndRest DEF m
    <3>4. m \in E /\ ~IsItem(m, n)
      BY <1>1, <1>8, <3>1
    <3>5. x = d.written[n] /\ n \in d.eosWritten /\ Taken(st[n]) <= x
      BY <1>2, <3>2, <3>3, <3>4 DEF DownTo, Carries, E
    <3>6. x <= Taken(st[n])
      <4>1. Run(p.toCli[c], n, E, Taken(st[n]), x) /\ x \in Int /\ Taken(st[n]) \in Int
        BY <1>2, <1>5, <3>2 DEF DownTo, E
      <4>2. QED
        BY <1>1, <3>4, <4>1, AllCarry, RunTailOther DEF m
    <3>7. QED
      BY <1>5, <3>2, <3>5, <3>6
  <2>3. QED
    BY <1>4, <1>6, <2>1, <2>2, DownDone
<1>9. QED
  BY <1>7, <1>8

\* What the client says of its stream n is an EOS of its own.
LEMMA HandledSays ==
  ASSUME NEW g, NEW p, NEW u, NEW r, NEW b, NEW st, NEW d, Runs(g, p, u, r, b, st, d),
         NEW q, NEW c, NEW n, NEW t, Handling(g, p, q, c, n, st, t)
  PROVE  \/ SaysNothing(p, q, c)
         \/ \E y \in FromClient :
              /\ Speaking(g, p, q, c, y) /\ Head(p.toCli[c]).type = "EOS" /\ y.type = "EOS"
              /\ \A k : ~IsItem(y, k)
              /\ \A k \in Sessions : g.cl[k] = c /\ k # n => y \notin EosMessages(g.sid[k])
<1>1. /\ c \in Clients /\ Returns(p, q, c, Head(p.toCli[c])) /\ Known(st, c, n, Head(p.toCli[c]))
  BY HandlingIs DEF Handling
<1> DEFINE m == Head(p.toCli[c])
<1> HIDE DEF m
<1>2. /\ m.sid < p.cc_next_stream_id[c] /\ n \in Sessions
      /\ \A k \in Sessions : g.cl[k] = c /\ g.sid[k] = m.sid => k = n
  BY <1>1, KnownIs DEF m
<1>3. SUFFICES ASSUME NEW y \in FromClient, m.type = "EOS", y.type = "EOS", y.sid = m.sid,
                      q.fromCli[c] = Append(p.fromCli[c], y)
               PROVE  /\ Speaking(g, p, q, c, y) /\ \A k : ~IsItem(y, k)
                      /\ \A k \in Sessions : g.cl[k] = c /\ k # n => y \notin EosMessages(g.sid[k])
  BY <1>1 DEF Returns, m
<1>4. Speaking(g, p, q, c, y)
  BY <1>2, <1>3 DEF Speaking, Voiced
<1>5. \A k : ~IsItem(y, k)
  BY <1>3 DEF IsItem
<1>6. \A k \in Sessions : g.cl[k] = c /\ k # n => y \notin EosMessages(g.sid[k])
  BY <1>2, <1>3 DEF EosMessages
<1>7. QED
  BY <1>4, <1>5, <1>6

\* What the client has sent of its stream n stays as it is.
LEMMA HandledUp ==
  ASSUME NEW g, NEW p, NEW u, NEW r, NEW b, NEW st, NEW d, Runs(g, p, u, r, b, st, d),
         NEW q, NEW c, NEW n, NEW t, Handling(g, p, q, c, n, st, t)
  PROVE  Up(g, n, q, d, r, b, t)
<1>1. /\ c \in Clients /\ c # NoOne /\ q.channels = p.channels /\ p.fromCli[c] \in Seq(FromClient)
  BY HandlingIs
<1>2. /\ n \in Sessions /\ g.cl[n] = c
  BY <1>1, KnownIs DEF Handling
<1>3. /\ st[n].st \in {"open", "eos"} /\ Handles(st, t, n, Head(p.toCli[c]))
  BY DEF Handling, Known
<1>4. Up(g, n, p, d, r, b, st) /\ st[n] \in StreamTypes /\ st[n].sent \in Nat
  BY <1>2, RunsTypes DEF Lives, StreamTypes
<1> DEFINE m == Head(p.toCli[c])
           E == EosMessages(g.sid[n])
<1> HIDE DEF m, E
<1>5. m.type \in {"DATA", "EOS", "RESET"}
  BY DEF Handling, m
<1>6. /\ t[n].sent = st[n].sent /\ t[n].st = (IF m.type = "DATA" THEN st[n].st ELSE "done")
      /\ t[n].ended = (m.type = "EOS" \/ st[n].ended)
  BY <1>3 DEF Handles, m
<1>7. /\ st[n].ended => t[n].ended
      /\ t[n].ended => t[n].st \in {"eos", "done"}
      /\ m.type = "EOS" => t[n].ended
  BY <1>4, <1>6 DEF Up
<1>8. /\ Continues(p.fromCli[c], q.fromCli[c], n, E)
      /\ Carries(q.fromCli[c], E) => Carries(p.fromCli[c], E) \/ t[n].ended
  <2>1. CASE SaysNothing(p, q, c)
    BY <2>1 DEF SaysNothing, Continues
  <2>2. CASE \E y \in FromClient : Speaking(g, p, q, c, y) /\ m.type = "EOS" /\ \A k : ~IsItem(y, k)
    <3>1. PICK y \in FromClient : Speaking(g, p, q, c, y) /\ m.type = "EOS" /\ \A k : ~IsItem(y, k)
      BY <2>2
    <3>2. q.fromCli[c] = Append(p.fromCli[c], y)
      BY <3>1 DEF Speaking
    <3>3. ASSUME NEW lo \in Int, NEW hi \in Int, Run(p.fromCli[c], n, E, lo, hi)
          PROVE  Run(q.fromCli[c], n, E, lo, hi)
      <4>1. ~IsItem(y, n) /\ y \in FromClient
        BY <3>1
      <4>2. QED
        BY <1>1, <3>2, <3>3, <4>1, RunAppendOther
    <3>4. QED
      BY <1>7, <3>1, <3>3 DEF Continues
  <2>3. QED
    BY <2>1, <2>2, HandledSays DEF m
<1>9. Quiets(g, n, p, q, st[n], t[n])
  BY <1>1, <1>2, <1>6, <1>7, <1>8 DEF Quiets, E
<1>10. QED
  BY <1>1, <1>2, <1>4, <1>9, UpQuiet

\* DATA, EOS or RESET of a stream that the client has.
LEMMA HandleOrder ==
  ASSUME NEW g, NEW p, NEW u, NEW r, NEW b, NEW st, NEW d, Runs(g, p, u, r, b, st, d),
         NEW q, NEW c, NEW n, NEW t, Handling(g, p, q, c, n, st, t)
  PROVE  Runs(g, q, u, r, b, t, d)
<1> DEFINE m == Head(p.toCli[c])
<1>1. /\ Attends(p, q, c) /\ c \in Clients /\ c # NoOne /\ q.channels = p.channels
      /\ p.conn[c] = "up" /\ q.conn[c] = "up" /\ \A e \in Clients : e # c => q.conn[e] = p.conn[e]
      /\ p.toCli[c] # <<>> /\ q.toCli[c] = Tail(p.toCli[c])
  BY HandlingIs
<1>2. /\ n \in Sessions /\ g.cl[n] = c /\ g.sid[n] = m.sid
  BY <1>1, KnownIs DEF Handling
<1>3. /\ t \in [Sessions -> StreamTypes] /\ \A k \in Sessions : k # n => t[k] = st[k]
      /\ t[n].client = st[n].client /\ t[n].sid = st[n].sid
      /\ t[n].st = (IF m.type = "DATA" THEN st[n].st ELSE "done")
      /\ st[n].client = c /\ st[n].sid = m.sid /\ st[n].st \in {"open", "eos"}
  BY DEF Handling, Handles, Known
<1>4. \A k \in Sessions : IsItem(m, k) => k = n
  <2>1. m.type = "DATA" => \A k \in Sessions : IsItem(m, k) => k = n
    BY HandlingIs
  <2>2. m.type # "DATA" => \A k : ~IsItem(m, k)
    BY HandlingIs
  <2>3. QED
    BY <2>1, <2>2
<1>5. \/ SaysNothing(p, q, c)
      \/ \E y \in FromClient :
           /\ Speaking(g, p, q, c, y)
           /\ \A k : ~IsItem(y, k)
           /\ \A k \in Sessions : g.cl[k] = c /\ k # n => y \notin EosMessages(g.sid[k])
  BY HandledSays
<1> HIDE DEF m
<1>6. ASSUME NEW k \in Sessions, k # n PROVE Lives(g, q, u, r, b, t, d, k)
  <2>1. ~IsItem(Head(p.toCli[c]), k)
    BY <1>4, <1>6 DEF m
  <2>2. Aside(g, p, q, c, k)
    BY <1>1, <1>5, <1>6, <2>1 DEF Aside
  <2>3. QED
    BY <1>1, <1>3, <1>6, <2>2, AttendedOn
<1>7. Birth(g, n, u, d, st)
  BY <1>2, RunsTypes DEF Lives
<1>8. Birth(g, n, u, d, t)
  BY <1>1, <1>2, <1>7, BirthStream
<1>9. Down(g, n, q, u, d, t)
  BY HandledDown
<1>10. Up(g, n, q, d, r, b, t)
  BY HandledUp
<1>11. \A k \in Sessions : Lives(g, q, u, r, b, t, d, k)
  BY <1>6, <1>8, <1>9, <1>10 DEF Lives
<1>12. StreamsRouted(g, p, st) /\ \A k \in Sessions : st[k].client \in Clients \union {NoOne}
  BY RunsTypes DEF StreamTypes
<1>13. \A e \in Clients : q.conn[e] = "up" <=> p.conn[e] = "up"
  BY <1>1
<1>14. StreamsRouted(g, q, t)
  <2>1. ASSUME NEW k \in Sessions
        PROVE  /\ t[k].client # NoOne =>
                    g.cl[k] = t[k].client /\ g.sid[k] = t[k].sid /\ q.conn[t[k].client] = "up"
               /\ t[k].st \in {"open", "eos"} => t[k].client # NoOne
               /\ t[k].st = "none" => t[k] = NoStream
    <3>1. CASE k = n
      BY <1>1, <1>2, <1>3, <3>1
    <3>2. CASE k # n
      BY <1>3, <1>12, <1>13, <3>2 DEF StreamsRouted
    <3>3. QED
      BY <3>1, <3>2
  <2>2. QED
    BY <2>1 DEF StreamsRouted
<1>15. Heard(g, p, q, c)
  BY <1>5 DEF Heard
<1>16. QED
  BY <1>1, <1>3, <1>11, <1>14, <1>15, AttendOrder

\* The client says message y of its stream n, of its own accord.
Utters(st, t, n, y) ==
  /\ t \in [Sessions -> StreamTypes] /\ \A k \in Sessions : k # n => t[k] = st[k]
  /\ t[n].client = st[n].client /\ t[n].sid = st[n].sid /\ t[n].got = st[n].got /\ t[n].eos = st[n].eos
  /\ CASE y.type = "DATA" -> /\ st[n].st = "open" /\ y.data = Item(n, st[n].sent + 1)
                             /\ t[n].sent = st[n].sent + 1 /\ t[n].st = "open" /\ t[n].ended = st[n].ended
       [] y.type = "EOS" -> t[n].sent = st[n].sent /\ t[n].st = "eos" /\ t[n].ended /\ st[n].st = "open"
       [] y.type = "RESET" -> t[n].sent = st[n].sent /\ t[n].st = "done" /\ t[n].ended = st[n].ended
Uttering(p, q, c, n, st, t, y) ==
  /\ Attends(p, q, c) /\ q.toCli[c] = p.toCli[c] /\ q.conn[c] = "up" /\ Known(st, c, n, y)
  /\ y \in FromClient /\ y.type \in {"DATA", "EOS", "RESET"} /\ q.fromCli[c] = Append(p.fromCli[c], y)
  /\ Utters(st, t, n, y)
LEMMA UtteringIs ==
  ASSUME NEW g, NEW p, NEW u, NEW r, NEW b, NEW st, NEW d, Runs(g, p, u, r, b, st, d),
         NEW q, NEW c, NEW n, NEW t, NEW y, Uttering(p, q, c, n, st, t, y)
  PROVE  /\ c \in Clients /\ c # NoOne /\ q.channels = p.channels /\ p.conn[c] = "up"
         /\ \A e \in Clients : e # c => q.conn[e] = p.conn[e]
         /\ p.fromCli[c] \in Seq(FromClient) /\ n \in Sessions /\ g.cl[n] = c /\ g.sid[n] = y.sid
         /\ st[n] # NoStream /\ ~Calls(p.toCli[c], n)
         /\ Speaking(g, p, q, c, y)
         /\ \A k \in Sessions : g.cl[k] = c /\ k # n => ~IsItem(y, k) /\ y \notin EosMessages(g.sid[k])
         /\ y.type # "DATA" => ~IsItem(y, n)
         /\ y.type # "EOS" => y \notin EosMessages(g.sid[n])
         /\ t[n].st # "done" => st[n].st # "done"
         /\ t[n].st \in {"open", "eos", "done"} /\ st[n].st \in {"open", "eos"} /\ st[n].sent \in Nat
<1>1. /\ c \in Clients /\ c # NoOne /\ q.channels = p.channels /\ p.conn[c] = "up"
      /\ \A e \in Clients : e # c => q.conn[e] = p.conn[e]
  BY ClientAssumption DEF Uttering, Attends
<1>2. /\ n \in Sessions /\ g.cl[n] = c /\ g.sid[n] = y.sid /\ y.sid < p.cc_next_stream_id[c]
      /\ st[n] # NoStream /\ ~Calls(p.toCli[c], n)
      /\ \A k \in Sessions : g.cl[k] = c /\ g.sid[k] = y.sid => k = n
  BY <1>1, KnownIs DEF Uttering
<1>3. /\ y \in FromClient /\ y.type \in {"DATA", "EOS", "RESET"} /\ q.fromCli[c] = Append(p.fromCli[c], y)
      /\ Utters(st, t, n, y) /\ st[n].st \in {"open", "eos"}
  BY DEF Uttering, Known
<1>4. p.fromCli[c] \in Seq(FromClient) /\ st[n] \in StreamTypes /\ st[n].sent \in Nat
  BY <1>1, <1>2, RunsTypes DEF StreamTypes
<1>5. y.type = "DATA" => y.data.session = n /\ y.data.number # 0
  <2>1. y.type = "DATA" => y.data = Item(n, st[n].sent + 1)
    BY <1>3 DEF Utters
  <2>2. y.type = "DATA" => y.data.session = n /\ y.data.number = st[n].sent + 1
    BY <2>1 DEF Item
  <2>3. QED
    BY <1>4, <2>2
<1>6. Speaking(g, p, q, c, y)
  BY <1>2, <1>3, <1>5 DEF Speaking, Voiced
<1>7. \A k \in Sessions : g.cl[k] = c /\ k # n => ~IsItem(y, k) /\ y \notin EosMessages(g.sid[k])
  BY <1>2, <1>3, <1>5 DEF IsItem, EosMessages
<1>8. /\ y.type # "DATA" => ~IsItem(y, n)
      /\ y.type # "EOS" => y \notin EosMessages(g.sid[n])
  BY <1>3 DEF IsItem, EosMessages
<1>9. t[n].st \in {"open", "eos", "done"}
  BY <1>3 DEF Utters
<1>10. QED
  BY <1>1, <1>2, <1>3, <1>4, <1>6, <1>7, <1>8, <1>9

\* What the client says leaves the way to it as it is,
LEMMA UtteredDown ==
  ASSUME NEW g, NEW p, NEW u, NEW r, NEW b, NEW st, NEW d, Runs(g, p, u, r, b, st, d),
         NEW q, NEW c, NEW n, NEW t, NEW y, Uttering(p, q, c, n, st, t, y)
  PROVE  Down(g, n, q, u, d, t)
<1>1. /\ c \in Clients /\ c # NoOne /\ q.channels = p.channels /\ p.conn[c] = "up" /\ n \in Sessions /\ g.cl[n] = c
      /\ ~Calls(p.toCli[c], n) /\ t[n].st \in {"open", "eos", "done"} /\ st[n].st \in {"open", "eos"}
  BY UtteringIs
<1>2. /\ q.toCli[c] = p.toCli[c] /\ t[n].got = st[n].got /\ t[n].eos = st[n].eos
  BY DEF Uttering, Utters
<1>3. Down(g, n, p, u, d, st) /\ Linked(g, n, p)
  BY <1>1, RunsTypes DEF Lives, Linked
<1>4. ~st[n].eos
  BY <1>1, <1>3 DEF Down
<1>5. Taken(t[n]) = Taken(st[n])
  BY <1>1, <1>2 DEF Taken
<1>6. \A x : DownTo(g, n, p, u, d, st, x) => DownTo(g, n, q, u, d, t, x)
  BY <1>1, <1>2, <1>5 DEF DownTo, Flows
<1>7. \E x \in 0..d.written[n] : DownTo(g, n, q, u, d, t, x)
  BY <1>1, <1>3, <1>6 DEF Down
<1>8. QED
  BY <1>1, <1>2, <1>3, <1>4, <1>7 DEF Down

\* and is one item or the end on the way from it.
LEMMA UtteredUp ==
  ASSUME NEW g, NEW p, NEW u, NEW r, NEW b, NEW st, NEW d, Runs(g, p, u, r, b, st, d),
         NEW q, NEW c, NEW n, NEW t, NEW y, Uttering(p, q, c, n, st, t, y)
  PROVE  Up(g, n, q, d, r, b, t)
<1> DEFINE E == EosMessages(g.sid[n])
           N == st[n].sent
<1>1. /\ c # NoOne /\ q.channels = p.channels /\ n \in Sessions /\ g.cl[n] = c /\ p.fromCli[c] \in Seq(FromClient)
      /\ y.type # "DATA" => ~IsItem(y, n)
      /\ y.type # "EOS" => y \notin E
      /\ st[n].st \in {"open", "eos"} /\ N \in Nat
  BY UtteringIs
<1>2. /\ y \in FromClient /\ q.fromCli[c] = Append(p.fromCli[c], y) /\ Utters(st, t, n, y)
      /\ y.type \in {"DATA", "EOS", "RESET"}
  BY DEF Uttering
<1>3. Up(g, n, p, d, r, b, st)
  BY <1>1, RunsTypes DEF Lives
<1> HIDE DEF E
<1>4. Elems(q.fromCli[c]) = Elems(p.fromCli[c]) \union {y}
  BY <1>1, <1>2, AppendAdds
<1>5. CASE y.type = "DATA"
  <2>1. /\ st[n].st = "open" /\ y.data = Item(n, N + 1) /\ t[n].sent = N + 1
        /\ t[n].st = "open" /\ t[n].ended = st[n].ended
    BY <1>2, <1>5 DEF Utters
  <2>2. ~st[n].ended /\ n \notin d.eosRead /\ ~Carries(p.fromCli[c], E)
    BY <1>1, <1>3, <2>1 DEF Up, E
  <2>3. ~Carries(q.fromCli[c], E)
    BY <1>1, <1>4, <1>5, <2>2 DEF Carries
  <2>4. IsItem(y, n) /\ y.data.number = N + 1
    BY <1>5, <2>1 DEF IsItem, Item
  <2>5. Elems(p.fromCli[c]) \intersect E = {} /\ Carriers(FromClient)
    BY <2>2, AllCarry DEF Carries
  <2>6. ASSUME Open(d, g.id[n]) PROVE UpOpen(g, n, q, d, r, b, t[n])
    <3>1. UpOpen(g, n, p, d, r, b, st[n])
      BY <1>3, <2>6 DEF Up
    <3>2. PICK z1 \in 0..N, z2 \in 0..N, z3 \in 0..N : UpTo(g, n, p, d, r, b, st[n], z1, z2, z3)
      BY <3>1 DEF UpOpen
    <3> HIDE DEF N
    <3>3. z1 \in 0..(N + 1) /\ z2 \in 0..(N + 1) /\ z3 \in 0..(N + 1) /\ z3 \in Int /\ N \in Int /\ z3 <= N
      BY <1>1, <3>2
    <3>4. Run(p.fromCli[c], n, E, z3, N) => Run(q.fromCli[c], n, E, z3, N + 1)
      BY <1>1, <1>2, <2>4, <2>5, <3>3, RunAppendItem
    <3>5. Queue(q, g.id[n]) = Queue(p, g.id[n])
      BY <1>1 DEF Queue
    <3>6. UpTo(g, n, q, d, r, b, t[n], z1, z2, z3)
      BY <1>1, <2>1, <2>2, <3>2, <3>4, <3>5 DEF UpTo, E, N
    <3>7. QED
      BY <2>1, <2>2, <3>1, <3>3, <3>6 DEF UpOpen
  <2>7. QED
    BY <1>1, <1>3, <2>1, <2>2, <2>3, <2>6 DEF Up, E
<1>6. CASE y.type # "DATA"
  <2>1. /\ t[n].sent = N /\ (st[n].ended => t[n].ended) /\ (y.type = "EOS" => t[n].ended)
        /\ t[n].ended => t[n].st \in {"eos", "done"}
    BY <1>2, <1>3, <1>6 DEF Utters, Up
  <2>2. ASSUME NEW lo \in Int, NEW hi \in Int, Run(p.fromCli[c], n, E, lo, hi)
        PROVE  Run(q.fromCli[c], n, E, lo, hi)
    BY <1>1, <1>2, <1>6, <2>2, RunAppendOther
  <2>3. Carries(q.fromCli[c], E) => Carries(p.fromCli[c], E) \/ t[n].ended
    BY <1>1, <1>4, <2>1 DEF Carries
  <2>4. Quiets(g, n, p, q, st[n], t[n])
    BY <1>1, <2>1, <2>2, <2>3 DEF Quiets, Continues, E
  <2>5. QED
    BY <1>1, <1>3, <2>4, UpQuiet
<1>7. QED
  BY <1>5, <1>6

\* A client sends of its own accord.
LEMMA UtterOrder ==
  ASSUME NEW g, NEW p, NEW u, NEW r, NEW b, NEW st, NEW d, Runs(g, p, u, r, b, st, d),
         NEW q, NEW c, NEW n, NEW t, NEW y, Uttering(p, q, c, n, st, t, y)
  PROVE  Runs(g, q, u, r, b, t, d)
<1>1. /\ c \in Clients /\ c # NoOne /\ q.channels = p.channels /\ p.conn[c] = "up" /\ n \in Sessions
      /\ \A e \in Clients : e # c => q.conn[e] = p.conn[e]
      /\ g.cl[n] = c /\ g.sid[n] = y.sid /\ Speaking(g, p, q, c, y)
      /\ \A k \in Sessions : g.cl[k] = c /\ k # n => ~IsItem(y, k) /\ y \notin EosMessages(g.sid[k])
      /\ t[n].st \in {"open", "eos", "done"}
  BY UtteringIs
<1>2. /\ Attends(p, q, c) /\ q.toCli[c] = p.toCli[c] /\ q.conn[c] = "up"
      /\ t \in [Sessions -> StreamTypes] /\ \A k \in Sessions : k # n => t[k] = st[k]
      /\ t[n].client = c /\ t[n].sid = y.sid
  BY DEF Uttering, Utters, Known
<1>3. ASSUME NEW k \in Sessions, k # n PROVE Lives(g, q, u, r, b, t, d, k)
  <2>1. Aside(g, p, q, c, k)
    BY <1>1, <1>2, <1>3 DEF Aside
  <2>2. QED
    BY <1>2, <1>3, <2>1, AttendedOn
<1>4. Birth(g, n, u, d, st)
  BY <1>1, RunsTypes DEF Lives
<1>5. Lives(g, q, u, r, b, t, d, n)
  BY <1>1, <1>4, BirthStream, UtteredDown, UtteredUp DEF Lives
<1>6. StreamsRouted(g, p, st) /\ \A k \in Sessions : st[k].client \in Clients \union {NoOne}
  BY RunsTypes DEF StreamTypes
<1>7. \A e \in Clients : q.conn[e] = "up" <=> p.conn[e] = "up"
  BY <1>1, <1>2
<1>8. StreamsRouted(g, q, t)
  <2>1. ASSUME NEW k \in Sessions
        PROVE  /\ t[k].client # NoOne =>
                    g.cl[k] = t[k].client /\ g.sid[k] = t[k].sid /\ q.conn[t[k].client] = "up"
               /\ t[k].st \in {"open", "eos"} => t[k].client # NoOne
               /\ t[k].st = "none" => t[k] = NoStream
    <3>1. CASE k = n
      BY <1>1, <1>2, <3>1
    <3>2. CASE k # n
      BY <1>2, <1>6, <1>7, <3>2 DEF StreamsRouted
    <3>3. QED
      BY <3>1, <3>2
  <2>2. QED
    BY <2>1 DEF StreamsRouted
<1>9. Heard(g, p, q, c)
  BY <1>1 DEF Heard
<1>10. QED
  BY <1>2, <1>3, <1>5, <1>8, <1>9, AttendOrder

\* A client ends: its streams are over.
Departs(p, q, c, st, t) ==
  /\ Attends(p, q, c) /\ q.toCli[c] = p.toCli[c] /\ SaysNothing(p, q, c) /\ q.conn[c] # "up"
  /\ t \in [Sessions -> StreamTypes]
  /\ \A n \in Sessions :
       IF st[n].client # c THEN t[n] = st[n]
       ELSE /\ t[n].client = NoOne /\ t[n].st = "done" /\ t[n].sent = st[n].sent /\ t[n].got = st[n].got
            /\ t[n].ended = st[n].ended /\ t[n].eos = st[n].eos
LEMMA DepartOrder ==
  ASSUME NEW g, NEW p, NEW u, NEW r, NEW b, NEW st, NEW d, Runs(g, p, u, r, b, st, d),
         NEW q, NEW c, NEW t, Departs(p, q, c, st, t)
  PROVE  Runs(g, q, u, r, b, t, d)
<1>1. /\ Attends(p, q, c) /\ c \in Clients /\ c # NoOne /\ q.channels = p.channels
      /\ q.toCli[c] = p.toCli[c] /\ q.fromCli[c] = p.fromCli[c] /\ q.conn[c] # "up"
      /\ \A e \in Clients : e # c => q.conn[e] = p.conn[e]
      /\ t \in [Sessions -> StreamTypes]
  BY ClientAssumption DEF Departs, Attends, SaysNothing
<1>2. StreamsRouted(g, p, st) /\ st \in [Sessions -> StreamTypes]
      /\ \A n \in Sessions : Lives(g, p, u, r, b, st, d, n)
  BY RunsTypes
<1>3. ASSUME NEW n \in Sessions, st[n].client = c
      PROVE  /\ Lives(g, q, u, r, b, t, d, n)
             /\ t[n].client = NoOne /\ t[n].st = "done"
  <2>1. /\ t[n].client = NoOne /\ t[n].st = "done" /\ t[n].sent = st[n].sent /\ t[n].got = st[n].got
        /\ t[n].ended = st[n].ended /\ t[n].eos = st[n].eos
    BY <1>3 DEF Departs
  <2>2. g.cl[n] = c /\ ~Linked(g, n, q)
    BY <1>1, <1>2, <1>3 DEF StreamsRouted, Linked
  <2>3. Birth(g, n, u, d, st) /\ Down(g, n, p, u, d, st) /\ Up(g, n, p, d, r, b, st)
    BY <1>2 DEF Lives
  <2>4. Birth(g, n, u, d, t)
    BY <1>1, <2>2, <2>3, BirthStream
  <2>5. t[n].eos => t[n].st = "done" /\ Len(t[n].got) = d.written[n] /\ n \in d.eosWritten
    BY <2>1, <2>3 DEF Down
  <2>6. Down(g, n, q, u, d, t)
    BY <2>1, <2>2, <2>3, <2>5, DownDone
  <2>7. Quiets(g, n, p, q, st[n], t[n]) /\ st[n].sent \in Nat
    BY <1>1, <1>2, <2>1, <2>2 DEF Quiets, Continues, StreamTypes
  <2>8. Up(g, n, q, d, r, b, t)
    BY <1>1, <2>2, <2>3, <2>7, UpQuiet
  <2>9. QED
    BY <2>1, <2>4, <2>6, <2>8 DEF Lives
<1>4. ASSUME NEW n \in Sessions, st[n].client # c PROVE Lives(g, q, u, r, b, t, d, n) /\ t[n] = st[n]
  <2>1. t[n] = st[n]
    BY <1>4 DEF Departs
  <2>2. Aside(g, p, q, c, n)
    BY <1>1 DEF Aside, SaysNothing
  <2>3. QED
    BY <1>1, <2>1, <2>2, AttendedOn
<1>5. \A n \in Sessions : st[n].client \in Clients \union {NoOne}
  BY <1>2 DEF StreamTypes
<1>6. StreamsRouted(g, q, t)
  <2>1. ASSUME NEW k \in Sessions
        PROVE  /\ t[k].client # NoOne =>
                    g.cl[k] = t[k].client /\ g.sid[k] = t[k].sid /\ q.conn[t[k].client] = "up"
               /\ t[k].st \in {"open", "eos"} => t[k].client # NoOne
               /\ t[k].st = "none" => t[k] = NoStream
    <3>1. CASE st[k].client = c
      BY <1>3, <3>1
    <3>2. CASE st[k].client # c
      BY <1>1, <1>2, <1>4, <1>5, <3>2 DEF StreamsRouted
    <3>3. QED
      BY <3>1, <3>2
  <2>2. QED
    BY <2>1 DEF StreamsRouted
<1>7. Heard(g, p, q, c)
  BY DEF Heard, Departs
<1>8. QED
  BY <1>1, <1>3, <1>4, <1>6, <1>7, AttendOrder

-----------------------------------------------------------------------------
(* The order in every state. *)

Unread == Rest(a2r)
Ordered == \E g : Order(g, thread, Unread, r2a, send_buf, stream, driver)

\* What the order in a state says to the lemmas about handlers.
LEMMA NowRuns ==
  ASSUME Inv, NEW g, Order(g, thread, Unread, r2a, send_buf, stream, driver)
  PROVE  /\ Runs(g, thread, Unread, r2a, send_buf, stream, driver)
         /\ Drives(g, thread, r2a, send_buf, stream, driver)
         /\ thread \in ThreadStates /\ driver \in DriverStates /\ driver.a2r = a2r
         /\ a2r \in Seq(AmigaPackets) /\ received \in Nat /\ received <= arrived /\ arrived <= Len(a2r) /\ arrived \in Nat
         /\ Unread \in Seq(AmigaPackets)
<1>1. /\ Tabled(thread) /\ Sound(driver) /\ PathInv /\ LoopInv /\ EndsInv
  BY DEF Inv
<1>2. thread \in ThreadStates /\ driver \in DriverStates /\ Typed(driver)
  BY <1>1 DEF Tabled, TabledBut, Sound, Typed
<1>3. driver.a2r = a2r
  BY DEF driver
<1>4. a2r \in Seq(AmigaPackets)
  BY <1>2, <1>3 DEF DriverStates
<1>5. received \in Nat /\ received <= arrived /\ arrived <= Len(a2r) /\ arrived \in Nat /\ Len(a2r) \in Nat
  BY <1>1, <1>4 DEF LoopInv
<1>6. Unread \in Seq(AmigaPackets)
  <2>1. received <= Len(a2r)
    BY <1>5
  <2>2. QED
    BY <1>4, <1>5, <2>1, RestIs DEF Unread
<1>7. r2a \in Seq(PiPackets) /\ send_buf \in Seq(PiPackets) /\ stream \in [Sessions -> StreamTypes]
  BY <1>1 DEF PathInv, EndsInv
<1>8. Runs(g, thread, Unread, r2a, send_buf, stream, driver)
  BY <1>2, <1>6, <1>7 DEF Runs
<1>9. Drives(g, thread, r2a, send_buf, stream, driver)
  BY <1>2, <1>3, <1>5, <1>7 DEF Drives, Unread
<1>10. QED
  BY <1>2, <1>3, <1>4, <1>5, <1>6, <1>8, <1>9

\* At the start there are no sessions.
NoPaths == [id |-> [n \in Sessions |-> 0], cl |-> [n \in Sessions |-> NoOne], sid |-> [n \in Sessions |-> 0]]
LEMMA InitOrdered == Init => Ordered
<1> SUFFICES ASSUME Init PROVE Ordered
  OBVIOUS
<1> DEFINE g == NoPaths
<1>1. /\ g \in Paths /\ \A n \in Sessions : g.id[n] = 0 /\ g.cl[n] = NoOne /\ g.sid[n] = 0
  BY DEF NoPaths, Paths
<1>2. /\ socket = <<>> /\ io = [r \in Requests |-> "idle"] /\ send_queue = <<>>
      /\ read = [n \in Sessions |-> <<>>] /\ eosRead = {} /\ written = [n \in Sessions |-> 0]
      /\ eosWritten = {} /\ a2r = <<>> /\ r2a = <<>> /\ send_buf = <<>> /\ received = 0
      /\ stream = [n \in Sessions |-> NoStream]
  BY DEF Init
<1>3. /\ channels = <<>> /\ services = <<>> /\ cc_next_stream_id = [c \in Clients |-> 1]
      /\ conn = [c \in Clients |-> "none"]
      /\ toCli = [c \in Clients |-> <<>>] /\ fromCli = [c \in Clients |-> <<>>]
  BY DEF Init
<1>4. DOMAIN <<>> = {} /\ Elems(<<>>) = {} /\ Len(<<>>) = 0
  BY DEF Elems
<1>5. Unread = <<>> /\ Elems(Unread) = {}
  <2>1. Unread = SubSeq(<<>>, 1, 0)
    BY <1>2, <1>4 DEF Unread, Rest
  <2>2. SubSeq(<<>>, 1, 0) = <<>>
    OBVIOUS
  <2>3. QED
    BY <1>4, <2>1, <2>2
<1> HIDE DEF g
<1>6. Apart(g)
  BY <1>1 DEF Apart
<1>7. SocketsRouted(g, driver) /\ Ready(driver)
  BY <1>2, <1>4 DEF SocketsRouted, Ready, driver
<1>8. PacketsRouted(g, Unread) /\ PacketsRouted(g, r2a) /\ PacketsRouted(g, send_buf)
  BY <1>2, <1>4, <1>5 DEF PacketsRouted
<1>9. ThreadRouted(g, thread)
  <2>1. ChannelsRouted(g, thread)
    BY <1>3, <1>4 DEF ChannelsRouted, thread
  <2>2. MessagesRouted(g, thread)
    BY <1>3, <1>4 DEF MessagesRouted, Said, thread
  <2>3. SidsRouted(g, thread)
    BY <1>1, <1>3 DEF SidsRouted, thread
  <2>4. ServicesRouted(thread)
    BY <1>3, <1>4, ClientAssumption DEF ServicesRouted, Asking, Refused, thread
  <2>5. QED
    BY <2>1, <2>2, <2>3, <2>4 DEF ThreadRouted
<1>10. NoStream.st = "none" /\ NoStream.client = NoOne /\ NoStream.got = <<>> /\ ~NoStream.ended
       /\ ~NoStream.eos /\ NoStream.sent = 0
  BY DEF NoStream
<1>11. StreamsRouted(g, thread, stream)
  BY <1>1, <1>2, <1>10 DEF StreamsRouted
<1>12. ASSUME NEW n \in Sessions
       PROVE  /\ Birth(g, n, Unread, driver, stream) /\ Down(g, n, thread, Unread, driver, stream)
              /\ Up(g, n, thread, driver, r2a, send_buf, stream)
  <2>1. /\ g.id[n] = 0 /\ g.cl[n] = NoOne /\ stream[n] = NoStream
        /\ driver.read[n] = <<>> /\ driver.eosRead = {} /\ driver.written[n] = 0 /\ driver.eosWritten = {}
        /\ DOMAIN driver.socket = {}
    BY <1>1, <1>2, <1>4 DEF driver
  <2>2. Birth(g, n, Unread, driver, stream)
    BY <1>5, <2>1 DEF Birth, Unborn, Waits, Calls
  <2>3. Down(g, n, thread, Unread, driver, stream)
    BY <1>4, <1>5, <1>10, <2>1 DEF Down, Linked, Carries
  <2>4. Up(g, n, thread, driver, r2a, send_buf, stream)
    BY <1>4, <1>10, <2>1 DEF Up, Open
  <2>5. QED
    BY <2>2, <2>3, <2>4
<1>13. Order(g, thread, Unread, r2a, send_buf, stream, driver)
  BY <1>1, <1>6, <1>7, <1>8, <1>9, <1>11, <1>12 DEF Order
<1>14. QED
  BY <1>13 DEF Ordered

\* A step of the driver leaves what its handler returns, and the thread where it is.
LEMMA DriverSteps1 ==
  ASSUME NEW h, NEW q, NEW r, Drives(h, thread, r, send_buf, stream, q), DriverBecomes(q), r2a' = r,
         UNCHANGED <<table, loop, wires, stream>>
  PROVE  Ordered'
<1>1. q \in DriverStates /\ Order(h, thread, Rest(q.a2r), r, send_buf, stream, q)
  BY DrivesTypes
<1>2. driver' = q /\ a2r' = q.a2r
  BY <1>1, DriverIs DEF DriverBecomes
<1>3. thread' = thread /\ received' = received /\ send_buf' = send_buf /\ stream' = stream
  BY ThreadStays DEF loop
<1>4. Unread' = Rest(q.a2r)
  BY <1>2, <1>3 DEF Unread, Rest
<1>5. Order(h, thread', Unread', r2a', send_buf', stream', driver')
  BY <1>1, <1>2, <1>3, <1>4
<1>6. QED
  BY <1>5 DEF Ordered

\* An id that the driver gives a socket is not in use: no channel of the A314 thread has it,
\* and no packet under way.
FreshIds == \A i \in DOMAIN socket' \ DOMAIN socket : Fresh(i, thread, Unread, r2a, send_buf)

\* An application makes a request.
LEMMA AppRequestOrdered ==
  ASSUME Inv, Ordered, FreshIds, NEW q \in Requests, AppRequest(q)
  PROVE  Ordered'
<1> DEFINE e == Device!handle_app_request(driver, q)
           i == Device!allocate_stream_id(driver)
<1>1. PICK g : Order(g, thread, Unread, r2a, send_buf, stream, driver)
  BY DEF Ordered
<1>2. /\ Drives(g, thread, r2a, send_buf, stream, driver) /\ thread \in ThreadStates
      /\ driver \in DriverStates /\ driver.a2r = a2r
  BY <1>1, NowRuns
<1>3. send_buf \in Seq(PiPackets) /\ Typed(driver)
  BY DEF Inv, PathInv, Sound
<1>4. /\ driver.io[q] = "idle" /\ DriverBecomes(e) /\ socket' = e.socket /\ driver.socket = socket
      /\ UNCHANGED <<r2a, table, loop, wires, stream>>
  BY DEF AppRequest, driver, DriverBecomes
<1>5. i \in DOMAIN e.socket => Fresh(i, thread, Rest(driver.a2r), r2a, send_buf)
  <2>1. i \notin DOMAIN socket
    BY <1>3, <1>4, IdIsFree
  <2> HIDE DEF i, e
  <2>2. QED
    BY <1>2, <1>4, <2>1 DEF FreshIds, Unread
<1>6. \E h : Drives(h, thread, r2a, send_buf, stream, e)
  BY <1>2, <1>3, <1>4, <1>5, RequestOrder
<1> HIDE DEF e
<1>7. PICK h : Drives(h, thread, r2a, send_buf, stream, e)
  BY <1>6
<1>8. r2a' = r2a
  BY <1>4
<1>9. QED
  BY <1>4, <1>7, <1>8, DriverSteps1

\* The driver takes a packet,
LEMMA ReceiveR2AOrdered ==
  ASSUME Inv, Ordered, ReceiveR2A
  PROVE  Ordered'
<1> DEFINE e == Device!handle_r2a_packet(driver, Head(r2a))
<1>1. PICK g : Order(g, thread, Unread, r2a, send_buf, stream, driver)
  BY DEF Ordered
<1>2. /\ r2a # <<>> /\ DriverBecomes(e) /\ r2a' = Tail(r2a) /\ UNCHANGED <<table, loop, wires, stream>>
  BY DEF ReceiveR2A
<1>3. Drives(g, thread, Tail(r2a), send_buf, stream, e)
  BY <1>1, <1>2, NowRuns, PacketOrder
<1> HIDE DEF e
<1>4. QED
  BY <1>2, <1>3, DriverSteps1

\* serves its send queue,
LEMMA SendQueuedOrdered ==
  ASSUME Inv, Ordered, SendQueued
  PROVE  Ordered'
<1> DEFINE e == Device!handle_room_in_a2r(driver)
<1>1. PICK g : Order(g, thread, Unread, r2a, send_buf, stream, driver)
  BY DEF Ordered
<1>2. /\ driver.send_queue # <<>> /\ Device!room_in_a2r(driver) /\ DriverBecomes(e) /\ r2a' = r2a
      /\ UNCHANGED <<table, loop, wires, stream>>
  BY DEF SendQueued, driver
<1>3. Drives(g, thread, r2a, send_buf, stream, e)
  BY <1>1, <1>2, NowRuns, RoomOrder
<1> HIDE DEF e
<1>4. QED
  BY <1>2, <1>3, DriverSteps1

\* or is started again.
LEMMA RebootOrdered ==
  ASSUME Inv, Inv', Ordered, Reboot
  PROVE  Ordered'
<1>1. PICK g : Order(g, thread, Unread, r2a, send_buf, stream, driver)
  BY DEF Ordered
<1>2. /\ socket' = <<>> /\ io' = [r \in Requests |-> IF io[r] = "held" THEN "lost" ELSE io[r]]
      /\ UNCHANGED <<read, eosRead, written, eosWritten, a2r, r2a, table, arrived, received, send_buf, wires, stream>>
  BY DEF Reboot
<1>3. Drives(g, thread, r2a, send_buf, stream, driver)
  BY <1>1, NowRuns
<1> DEFINE e == driver'
<1>4. Typed(e)
  <2>1. arrived' = arrived
    BY <1>2
  <2>2. Typed(driver)'
    BY DEF Inv, Sound
  <2>3. QED
    BY <2>1, <2>2 DEF Typed
<1>5. /\ DOMAIN e.socket = {} /\ e.io = [r \in Requests |-> IF driver.io[r] = "held" THEN "lost" ELSE driver.io[r]]
      /\ e.read = driver.read /\ e.eosRead = driver.eosRead /\ e.written = driver.written
      /\ e.eosWritten = driver.eosWritten /\ e.a2r = driver.a2r
  BY <1>2 DEF driver
<1> HIDE DEF e
<1>6. Drives(g, thread, r2a, send_buf, stream, e)
  BY <1>3, <1>4, <1>5, RebootOrder
<1>7. Order(g, thread, Unread, r2a, send_buf, stream, e)
  <2>1. e.a2r = a2r
    BY <1>5 DEF driver
  <2>2. QED
    BY <1>6, <2>1, DrivesTypes DEF Unread
<1>8. /\ thread' = thread /\ Unread' = Unread /\ r2a' = r2a /\ send_buf' = send_buf /\ stream' = stream
  BY <1>2, ThreadStays DEF Unread, Rest
<1>9. Order(g, thread', Unread', r2a', send_buf', stream', driver')
  BY <1>7, <1>8 DEF e
<1>10. QED
  BY <1>9 DEF Ordered

\* A step of the thread leaves what its handler returns.
LEMMA ThreadKeeps ==
  ASSUME NEW q, NEW v, NEW r, NEW b, StillRuns(q, v, r, b, stream, driver),
         thread' = q, Unread' = v, r2a' = r, send_buf' = b, stream' = stream, driver' = driver
  PROVE  Ordered'
<1>1. PICK h : Runs(h, q, v, r, b, stream, driver)
  BY DEF StillRuns
<1>2. Order(h, q, v, r, b, stream, driver)
  BY <1>1, RunsTypes
<1>3. Order(h, thread', Unread', r2a', send_buf', stream', driver')
  BY <1>2
<1>4. QED
  BY <1>3 DEF Ordered

\* So does a handler after which the process may have ended.
LEMMA ThreadLeaves ==
  ASSUME NEW q, NEW v, NEW r, NEW b, StillRuns(q, v, r, b, stream, driver), NEW next, ThreadBecomes(q, next),
         Unread' = v, r2a' = r, send_buf' = b, stream' = stream, driver' = driver
  PROVE  Ordered'
<1>1. q \in ThreadStates
  BY RunsTypes DEF StillRuns
<1>2. thread' = q
  BY <1>1, ThreadIs
<1>3. QED
  BY <1>2, ThreadKeeps

\* What it has not read is the same while it reads nothing.
LEMMA UnreadStays == UNCHANGED <<a2r, received>> => Unread' = Unread
  BY DEF Unread, Rest

\* What the steps of the thread start from.
LEMMA OrderedRuns ==
  ASSUME Inv, Ordered
  PROVE  /\ \E g : Runs(g, thread, Unread, r2a, send_buf, stream, driver)
         /\ StillRuns(thread, Unread, r2a, send_buf, stream, driver)
         /\ Tabled(thread) /\ Queued(thread) /\ Listed(thread)
<1>1. PICK g : Order(g, thread, Unread, r2a, send_buf, stream, driver)
  BY DEF Ordered
<1>2. Runs(g, thread, Unread, r2a, send_buf, stream, driver)
  BY <1>1, NowRuns
<1>3. QED
  BY <1>2 DEF StillRuns, Inv, Tabled, TabledBut

\* It closes the channels after a reset of the Amiga,
LEMMA IrqOrdered ==
  ASSUME Inv, Ordered, Irq
  PROVE  Ordered'
<1> DEFINE q == IF started THEN Thread!close_all_logical_channels(thread) ELSE thread
           next == IF a2r = <<>> THEN "flush" ELSE "receive"
<1>1. /\ ThreadBecomes(q, next)
      /\ UNCHANGED <<amiga, a2r, r2a, received, send_buf, stream>>
  BY DEF Irq
<1>2. StillRuns(q, Unread, r2a, send_buf, stream, driver)
  BY OrderedRuns, CloseAllOrder DEF StillRuns
<1> HIDE DEF q, next
<1>3. Unread' = Unread /\ driver' = driver
  BY <1>1, UnreadStays, DriverStays
<1>4. r2a' = r2a /\ send_buf' = send_buf /\ stream' = stream
  BY <1>1
<1>5. QED
  BY <1>1, <1>2, <1>3, <1>4, ThreadLeaves

\* handles a packet,
LEMMA ReceiveA2ROrdered ==
  ASSUME Inv, Ordered, ReceiveA2R
  PROVE  Ordered'
<1> DEFINE m == a2r[received + 1]
           q == Thread!handle_received_pkt(thread, m)
           next == IF received + 1 < arrived THEN "receive" ELSE "flush"
<1>1. /\ pc = "receive" /\ received' = received + 1
      /\ UNCHANGED <<amiga, a2r, r2a, send_buf, stream>>
      /\ IF Thread!Duplicate(thread, m) THEN UNCHANGED <<table, wires>> ELSE ThreadBecomes(q, next)
  BY DEF ReceiveA2R
<1>2. PICK g : Runs(g, thread, Unread, r2a, send_buf, stream, driver)
  BY OrderedRuns
<1>3. /\ received \in Nat /\ arrived \in Nat /\ received < arrived /\ arrived <= Len(a2r)
      /\ a2r \in Seq(AmigaPackets)
  BY <1>1 DEF Inv, LoopInv, Sound, Typed, DriverStates, driver
<1>4. Unread # <<>> /\ Head(Unread) = m /\ Tail(Unread) = Unread'
  <2> DEFINE k == received
             w == Len(a2r)
  <2>1. k \in Nat /\ w \in Nat /\ k < w /\ w = Len(a2r)
    BY <1>3
  <2>2. Unread = SubSeq(a2r, k + 1, w) /\ Unread' = SubSeq(a2r, k + 2, w)
    <3>1. Unread' = SubSeq(a2r, (k + 1) + 1, w)
      BY <1>1 DEF Unread, Rest
    <3>2. (k + 1) + 1 = k + 2
      BY <2>1
    <3>3. QED
      BY <3>1, <3>2 DEF Unread, Rest
  <2> HIDE DEF k, w
  <2>3. SubSeq(a2r, k + 1, w) # <<>> /\ Head(SubSeq(a2r, k + 1, w)) = a2r[k + 1]
    <3>1. /\ SubSeq(a2r, k + 1, w) \in Seq(AmigaPackets) /\ Len(SubSeq(a2r, k + 1, w)) = w - k
          /\ \A j \in 1..(w - k) : SubSeq(a2r, k + 1, w)[j] = a2r[k + j]
      BY <1>3, <2>1
    <3>2. 1 \in 1..(w - k) /\ w - k > 0
      BY <2>1
    <3>3. SubSeq(a2r, k + 1, w) # <<>>
      <4> DEFINE s == SubSeq(a2r, k + 1, w)
      <4>1. Len(s) > 0 /\ Len(<<>>) = 0
        BY <3>1, <3>2
      <4> HIDE DEF s
      <4>2. s # <<>>
        BY <4>1
      <4>3. QED
        BY <4>2 DEF s
    <3>4. Head(SubSeq(a2r, k + 1, w)) = SubSeq(a2r, k + 1, w)[1]
      BY <3>1, <3>3
    <3>5. QED
      BY <3>1, <3>2, <3>3, <3>4
  <2>4. Tail(SubSeq(a2r, k + 1, w)) = SubSeq(a2r, k + 2, w)
    BY <1>3, <2>1
  <2>5. QED
    BY <2>2, <2>3, <2>4 DEF k
<1>5. driver' = driver /\ r2a' = r2a /\ send_buf' = send_buf /\ stream' = stream
  BY <1>1, DriverStays
<1>6. CASE ~Thread!Duplicate(thread, m)
  <2>1. StillRuns(q, Tail(Unread), r2a, send_buf, stream, driver)
    BY <1>2, <1>4, <1>6, ReceivedOrder
  <2>2. ThreadBecomes(q, next) /\ Unread' = Tail(Unread)
    BY <1>1, <1>4, <1>6
  <2> HIDE DEF q, next
  <2>3. QED
    BY <1>5, <2>1, <2>2, ThreadLeaves
<1>7. CASE Thread!Duplicate(thread, m)
  <2>1. m.type = "CONNECT" /\ m.id \in DOMAIN thread.channels /\ m \in Elems(Unread)
    <3>1. Unread \in Seq(AmigaPackets)
      BY <1>2, RunsTypes
    <3>2. Head(Unread) \in Elems(Unread)
      BY <1>4, <3>1 DEF Elems
    <3>3. QED
      BY <1>4, <1>7, <3>2 DEF Thread!Duplicate
  <2> HIDE DEF m
  <2>2. ASSUME NEW n \in Sessions, g.id[n] = m.id PROVE ~Flows(g, n, thread)
    <3>1. SUFFICES ASSUME Flows(g, n, thread) PROVE FALSE
      OBVIOUS
    <3>2. g.id[n] \in DOMAIN thread.channels /\ thread.channels[g.id[n]].association # NoOne
      BY <3>1 DEF Flows
    <3>3. PICK k : IsOf(g, thread, g.id[n], k)
      BY <1>2, <3>2, SessionOf
    <3>4. k = n /\ g.cl[n] \in Clients
      BY <3>3 DEF IsOf
    <3>5. m.data.session \in Sessions /\ g.id[m.data.session] = m.id
      BY <1>2, <2>1, RunsTypes DEF PacketsRouted
    <3>6. m.data.session = n
      BY <2>2, <3>3, <3>4, <3>5 DEF IsOf
    <3>7. Calls(Unread, n)
      BY <2>1, <3>6 DEF Calls
    <3>8. g.cl[n] = NoOne
      BY <1>2, <3>7, RunsTypes DEF Order, Birth, Unborn
    <3>9. QED
      BY <3>4, <3>8, ClientAssumption DEF ClientAssumption
  <2>3. StillRuns(thread, Tail(Unread), r2a, send_buf, stream, driver)
    BY <1>2, <1>4, <2>2, DropPacketOrder DEF StillRuns
  <2>4. thread' = thread /\ Unread' = Tail(Unread)
    BY <1>1, <1>4, <1>7, ThreadStays
  <2>5. QED
    BY <1>5, <2>3, <2>4, ThreadKeeps
<1>8. QED
  BY <1>6, <1>7

\* sends a packet,
LEMMA FlushPacketOrdered ==
  ASSUME Inv, Ordered, FlushPacket
  PROVE  Ordered'
<1> DEFINE m == Thread!NextPacket(thread)
           q == Thread!flush_send_queue(thread)
<1>1. /\ pi_queue # <<>> /\ send_buf' = Append(send_buf, m) /\ ThreadBecomes(q, "flush")
      /\ UNCHANGED <<amiga, a2r, r2a, received, stream>>
  BY DEF FlushPacket
<1>2. thread.pi_queue # <<>>
  BY <1>1 DEF thread
<1>3. StillRuns(q, Unread, r2a, Append(send_buf, m), stream, driver)
  BY <1>2, OrderedRuns, FlushOrder DEF StillRuns
<1> HIDE DEF m, q
<1>4. Unread' = Unread /\ driver' = driver
  BY <1>1, UnreadStays, DriverStays
<1>5. r2a' = r2a /\ stream' = stream
  BY <1>1
<1>6. QED
  BY <1>1, <1>3, <1>4, <1>5, ThreadLeaves

\* stores its indices,
LEMMA PublishOrdered ==
  ASSUME Inv, Ordered, Publish
  PROVE  Ordered'
<1>1. /\ r2a' = r2a \o send_buf /\ send_buf' = <<>>
      /\ a2r' = SubSeq(a2r, received + 1, Len(a2r)) /\ received' = 0
      /\ UNCHANGED <<amiga, table, wires, stream>>
  BY DEF Publish
<1>2. PICK g : Runs(g, thread, Unread, r2a, send_buf, stream, driver)
  BY OrderedRuns
<1>3. Runs(g, thread, Unread, r2a \o send_buf, <<>>, stream, driver)
  BY <1>2, PublishOrder
<1> DEFINE e == driver'
<1>4. /\ e.socket = driver.socket /\ e.send_queue = driver.send_queue /\ e.io = driver.io /\ e.read = driver.read
      /\ e.eosRead = driver.eosRead /\ e.written = driver.written /\ e.eosWritten = driver.eosWritten
  BY <1>1 DEF amiga, driver
<1> HIDE DEF e
<1>5. Order(g, thread, Unread, r2a \o send_buf, <<>>, stream, e)
  <2> DEFINE w == r2a \o send_buf
             b == <<>>
  <2>1. /\ Order(g, thread, Unread, w, b, stream, driver) /\ Unread \in Seq(AmigaPackets) /\ w \in Seq(PiPackets)
        /\ stream \in [Sessions -> StreamTypes] /\ driver \in DriverStates
        /\ PacketsRouted(g, Unread) /\ PacketsRouted(g, w)
    BY <1>3, RunsTypes
  <2> HIDE DEF w, b
  <2>2. Keeps(driver, e, NoOne)
    BY <1>4 DEF Keeps, Same, Stays
  <2>3. Ready(e)
    <3>1. Ready(driver)
      BY <2>1 DEF Order
    <3>2. QED
      BY <1>4, <3>1 DEF Ready, ReadyOf
  <2>4. NoOne \notin Sessions
    BY RequestKinds
  <2>5. \A k \in Sessions : Grows(g, k, Unread, Unread) /\ Leaves(g, k, w, w)
    BY DEF Grows, Leaves
  <2>6. Order(g, thread, Unread, w, b, stream, e)
    BY <2>1, <2>2, <2>3, <2>4, <2>5, DriverOrder
  <2>7. QED
    BY <2>6 DEF w, b
<1>6. Unread' = Unread
  <2>1. a2r \in Seq(AmigaPackets) /\ Unread \in Seq(AmigaPackets)
    BY <1>2, RunsTypes DEF DriverStates, driver
  <2>2. Unread' = SubSeq(Unread, 1, Len(Unread))
    <3>1. 0 + 1 = 1
      OBVIOUS
    <3>2. QED
      BY <1>1, <3>1 DEF Unread, Rest
  <2> HIDE DEF Unread
  <2>3. SubSeq(Unread, 1, Len(Unread)) = Unread
    BY <2>1
  <2>4. QED
    BY <2>2, <2>3
<1>7. /\ thread' = thread /\ r2a' = r2a \o send_buf /\ send_buf' = <<>> /\ stream' = stream
  BY <1>1, ThreadStays
<1>8. Order(g, thread', Unread', r2a', send_buf', stream', driver')
  BY <1>5, <1>6, <1>7 DEF e
<1>9. QED
  BY <1>8 DEF Ordered

\* takes a new connection,
LEMMA ServerReadyOrdered ==
  ASSUME Inv, Ordered, NEW c \in Clients, handle_server_socket_ready(c)
  PROVE  Ordered'
<1>1. /\ c \notin OnDemand /\ conn[c] = "none" /\ conn' = [conn EXCEPT ![c] = "up"]
      /\ cc_next_stream_id' = [cc_next_stream_id EXCEPT ![c] = 1]
      /\ fromCli' = [fromCli EXCEPT ![c] = <<Thread!Msg("REGISTER_REQ", 0, Thread!Nothing)>>]
      /\ UNCHANGED <<amiga, a2r, r2a, channels, pi_queue, services, associations, loop, toCli, stream>>
  BY DEF handle_server_socket_ready, Thread!Nothing, Nothing, Thread!Result, Result, Thread!Item, Item
<1>2. thread.conn[c] = "none"
  BY <1>1 DEF thread
<1>3. StillRuns(Joined(thread, c), Unread, r2a, send_buf, stream, driver)
  BY <1>1, <1>2, OrderedRuns, JoinOrder DEF StillRuns
<1>4. thread' = Joined(thread, c)
  <2> DEFINE x == conn'
             y == cc_next_stream_id'
             z == fromCli'
  <2>1. x = [conn EXCEPT ![c] = "up"] /\ y = [cc_next_stream_id EXCEPT ![c] = 1]
        /\ z = [fromCli EXCEPT ![c] = <<Thread!Msg("REGISTER_REQ", 0, Thread!Nothing)>>]
    BY <1>1
  <2> HIDE DEF x, y, z
  <2>2. thread.conn = conn /\ thread.cc_next_stream_id = cc_next_stream_id /\ thread.fromCli = fromCli
    BY DEF thread
  <2> DEFINE q == Joined(thread, c)
  <2>3. thread \in ThreadStates /\ q \in ThreadStates
    BY <1>3, OrderedRuns, RunsTypes DEF StillRuns
  <2>4. /\ q.channels = thread.channels /\ q.pi_queue = thread.pi_queue /\ q.services = thread.services
        /\ q.associations = thread.associations /\ q.toCli = thread.toCli
        /\ q.cc_next_stream_id = y /\ q.conn = x /\ q.fromCli = z
    BY <2>1, <2>2, <2>3 DEF Joined, ThreadStates
  <2>5. /\ q.channels = channels /\ q.pi_queue = pi_queue /\ q.services = services
        /\ q.associations = associations /\ q.toCli = toCli
        /\ q.cc_next_stream_id = y /\ q.conn = x /\ q.fromCli = z
    BY <2>4 DEF thread
  <2>6. thread' = [channels |-> channels, pi_queue |-> pi_queue, services |-> services,
                   associations |-> associations, cc_next_stream_id |-> y, conn |-> x, toCli |-> toCli,
                   fromCli |-> z]
    BY <1>1 DEF thread, x, y, z
  <2> HIDE DEF q
  <2>7. q = [channels |-> channels, pi_queue |-> pi_queue, services |-> services,
             associations |-> associations, cc_next_stream_id |-> y, conn |-> x, toCli |-> toCli,
             fromCli |-> z]
    BY <2>3, <2>5 DEF ThreadStates
  <2>8. QED
    BY <2>6, <2>7 DEF q
<1>5. Unread' = Unread /\ driver' = driver /\ r2a' = r2a /\ send_buf' = send_buf /\ stream' = stream
  BY <1>1, UnreadStays, DriverStays DEF loop
<1>6. QED
  BY <1>3, <1>4, <1>5, ThreadKeeps

\* A connection that has failed or ended is closed.
LEMMA ClosedOrdered ==
  ASSUME Inv, Ordered, NEW c \in Clients, conn[c] # "up",
         NEW next, ThreadBecomes(Thread!close_and_remove_connection(thread, c), next),
         UNCHANGED <<amiga, a2r, r2a, received, send_buf, stream>>
  PROVE  Ordered'
<1> DEFINE q == Thread!close_and_remove_connection(thread, c)
<1>1. thread.conn[c] # "up"
  BY DEF thread
<1>2. StillRuns(q, Unread, r2a, send_buf, stream, driver) /\ ThreadBecomes(q, next)
  BY <1>1, OrderedRuns, HangUpOrder
<1> HIDE DEF q
<1>3. Unread' = Unread /\ driver' = driver /\ r2a' = r2a /\ send_buf' = send_buf /\ stream' = stream
  BY UnreadStays, DriverStays
<1>4. QED
  BY <1>2, <1>3, ThreadLeaves

\* Steps that read nothing and write nothing.
LEMMA IdleOrdered ==
  ASSUME Inv, Ordered, UNCHANGED <<amiga, a2r, r2a, table, received, send_buf, wires, stream>>
  PROVE  Ordered'
<1>1. StillRuns(thread, Unread, r2a, send_buf, stream, driver)
  BY OrderedRuns
<1>2. /\ thread' = thread /\ Unread' = Unread /\ driver' = driver /\ r2a' = r2a /\ send_buf' = send_buf
      /\ stream' = stream
  BY UnreadStays, DriverStays, ThreadStays
<1>3. QED
  BY <1>1, <1>2, ThreadKeeps

\* The thread turns to a connection,
LEMMA ConnectionEventOrdered ==
  ASSUME Inv, Ordered, NEW c \in Clients, ConnectionEvent(c)
  PROVE  Ordered'
<1>1. /\ UNCHANGED <<amiga, a2r, r2a, received, send_buf, stream>>
      /\ \/ conn[c] = "failed" /\ ThreadBecomes(Thread!close_and_remove_connection(thread, c), "flush")
         \/ UNCHANGED <<table, wires>>
  BY DEF ConnectionEvent
<1>2. QED
  BY <1>1, ClosedOrdered, IdleOrdered

\* handles a message
LEMMA ReadMessageOrdered ==
  ASSUME Inv, Ordered, ReadMessage
  PROVE  Ordered'
<1> DEFINE q == Thread!handle_received_message(WithoutFirst(thread, cc), cc, Head(thread.fromCli[cc]))
<1>1. /\ pc = "messages" /\ fromCli[cc] # <<>>
      /\ ThreadBecomes(Thread!handle_received_message([thread EXCEPT !.fromCli[cc] = Tail(@)], cc, Head(fromCli[cc])),
                       "messages")
      /\ UNCHANGED <<amiga, a2r, r2a, received, send_buf, stream>>
  BY DEF ReadMessage
<1>2. cc \in Clients
  BY <1>1 DEF Inv, LoopInv
<1>3. thread.fromCli = fromCli
  BY DEF thread
<1>4. WithoutFirst(thread, cc) = [thread EXCEPT !.fromCli[cc] = Tail(@)]
  BY DEF WithoutFirst
<1>5. ThreadBecomes(q, "messages")
  BY <1>1, <1>3, <1>4
<1>6. StillRuns(q, Unread, r2a, send_buf, stream, driver)
  BY <1>1, <1>2, <1>3, OrderedRuns, MessageOrder DEF StillRuns
<1> HIDE DEF q
<1>7. Unread' = Unread /\ driver' = driver /\ r2a' = r2a /\ send_buf' = send_buf /\ stream' = stream
  BY <1>1, UnreadStays, DriverStays
<1>8. QED
  BY <1>5, <1>6, <1>7, ThreadLeaves

\* or finds no more of them.
LEMMA MessagesReadOrdered ==
  ASSUME Inv, Ordered, MessagesRead
  PROVE  Ordered'
<1>1. /\ pc = "messages" /\ UNCHANGED <<amiga, a2r, r2a, received, send_buf, stream>>
      /\ \/ UNCHANGED <<table, wires>>
         \/ conn[cc] # "up" /\ ThreadBecomes(Thread!close_and_remove_connection(thread, cc), "flush")
  <2>1. CASE conn[cc] = "up"
    BY <2>1 DEF MessagesRead
  <2>2. CASE conn[cc] \in {"closed", "broken"}
    BY <2>2 DEF MessagesRead
  <2>3. CASE conn[cc] \notin {"up", "closed", "broken"}
    BY <2>3 DEF MessagesRead
  <2>4. QED
    BY <2>1, <2>2, <2>3
<1>2. cc \in Clients
  BY <1>1 DEF Inv, LoopInv
<1>3. QED
  BY <1>1, <1>2, ClosedOrdered, IdleOrdered

\* A step of a client leaves the thread as it is, but for its own connection.
LEMMA ClientLeaves ==
  ASSUME NEW g, NEW q, thread' = q, Runs(g, q, Unread, r2a, send_buf, stream', driver),
         UNCHANGED <<amiga, a2r, r2a, loop>>
  PROVE  Ordered'
<1>1. Order(g, q, Unread, r2a, send_buf, stream', driver)
  BY RunsTypes
<1>2. Unread' = Unread /\ driver' = driver /\ r2a' = r2a /\ send_buf' = send_buf
  BY UnreadStays, DriverStays DEF loop
<1>3. Order(g, thread', Unread', r2a', send_buf', stream', driver')
  BY <1>1, <1>2
<1>4. QED
  BY <1>3 DEF Ordered

\* A step of a client is about its connection only.
LEMMA ClientAttends ==
  ASSUME Inv, Inv', NEW c \in Clients, NEW q, thread' = q, conn[c] = "up", conn'[c] # "none", UNCHANGED table,
         \A e \in Clients : e # c => conn'[e] = conn[e] /\ toCli'[e] = toCli[e] /\ fromCli'[e] = fromCli[e],
         TakesOne(toCli[c], toCli'[c])
  PROVE  /\ Attends(thread, q, c) /\ thread.toCli = toCli /\ thread.fromCli = fromCli /\ thread.conn = conn
         /\ q.toCli = toCli' /\ q.fromCli = fromCli' /\ q.conn = conn' /\ stream' \in [Sessions -> StreamTypes]
<1>1. q \in ThreadStates
  <2>1. Tabled(thread)'
    BY DEF Inv
  <2>2. QED
    BY <2>1 DEF Tabled, TabledBut
<1>2. /\ thread.toCli = toCli /\ thread.fromCli = fromCli /\ thread.conn = conn /\ thread.channels = channels
      /\ thread.services = services /\ thread.cc_next_stream_id = cc_next_stream_id
  BY DEF thread
<1>3. /\ q.toCli = toCli' /\ q.fromCli = fromCli' /\ q.conn = conn' /\ q.channels = channels
      /\ q.services = services /\ q.cc_next_stream_id = cc_next_stream_id
  BY DEF thread, table
<1>4. Attends(thread, q, c)
  BY <1>1, <1>2, <1>3 DEF Attends
<1>5. stream' \in [Sessions -> StreamTypes]
  BY DEF Inv, EndsInv
<1>6. QED
  BY <1>2, <1>3, <1>4, <1>5

\* A client that reads takes the first message.
HeardNow(q, c) ==
  /\ Hearing(thread, q, c) /\ thread.toCli = toCli /\ thread.fromCli = fromCli /\ thread.conn = conn
  /\ q.toCli = toCli' /\ q.fromCli = fromCli' /\ q.conn = conn' /\ stream' \in [Sessions -> StreamTypes]
  /\ Head(toCli[c]) \in ToClient /\ fromCli \in [Clients -> Seq(FromClient)]
LEMMA ClientHears ==
  ASSUME Inv, Inv', NEW c \in Clients, NEW q, thread' = q, ClientReads(c), conn'[c] # "none", UNCHANGED table,
         \A e \in Clients : e # c => conn'[e] = conn[e] /\ fromCli'[e] = fromCli[e]
  PROVE  HeardNow(q, c)
<1>1. toCli \in [Clients -> Seq(ToClient)] /\ fromCli \in [Clients -> Seq(FromClient)] /\ Head(toCli[c]) \in ToClient
  BY EndsOf, Reads1
<1>2. conn[c] = "up" /\ toCli[c] # <<>> /\ toCli' = [toCli EXCEPT ![c] = Tail(toCli[c])]
  BY DEF ClientReads
<1>3. toCli'[c] = Tail(toCli[c]) /\ \A e \in Clients : e # c => toCli'[e] = toCli[e]
  BY <1>1, <1>2
<1>4. TakesOne(toCli[c], toCli'[c])
  BY <1>2, <1>3 DEF TakesOne
<1>5. /\ Attends(thread, q, c) /\ thread.toCli = toCli /\ thread.fromCli = fromCli /\ thread.conn = conn
      /\ q.toCli = toCli' /\ q.fromCli = fromCli' /\ q.conn = conn' /\ stream' \in [Sessions -> StreamTypes]
  BY <1>2, <1>3, <1>4, ClientAttends
<1>6. Hearing(thread, q, c)
  BY <1>2, <1>3, <1>5 DEF Hearing
<1>7. QED
  BY <1>1, <1>5, <1>6 DEF HeardNow

\* What a client says is all that it adds.
LEMMA SaysIs ==
  ASSUME NEW c \in Clients, NEW m, Says(c, m), fromCli \in [Clients -> Seq(FromClient)]
  PROVE  /\ fromCli'[c] = Append(fromCli[c], m)
         /\ \A e \in Clients : e # c => fromCli'[e] = fromCli[e]
  BY DEF Says

\* A client learns whether it is registered,
LEMMA RegisterResOrdered ==
  ASSUME Inv, Inv', Ordered, NEW c \in Clients, RegisterRes(c)
  PROVE  Ordered'
<1>1. PICK g : Runs(g, thread, Unread, r2a, send_buf, stream, driver)
  BY OrderedRuns
<1> DEFINE q == thread'
<1>2. /\ ClientReads(c) /\ Head(toCli[c]).type = "REGISTER_RES" /\ conn \in [Clients -> Conns]
      /\ conn' = IF Head(toCli[c]).data.number = 1 THEN conn ELSE [conn EXCEPT ![c] = Left(c)]
      /\ UNCHANGED <<amiga, a2r, r2a, table, loop, fromCli, stream>>
  BY EndsOf DEF RegisterRes
<1>3. /\ \A e \in Clients : e # c => conn'[e] = conn[e]
      /\ conn'[c] # "none" /\ (conn'[c] = "up" \/ Head(toCli[c]).data.number # 1)
  <2>1. Left(c) # "none"
    BY DEF Left
  <2>2. conn[c] = "up"
    BY <1>2 DEF ClientReads
  <2>3. QED
    BY <1>2, <2>1, <2>2
<1>4. HeardNow(q, c)
  BY <1>2, <1>3, ClientHears
<1> HIDE DEF q
<1>5. /\ Hearing(thread, q, c) /\ SaysNothing(thread, q, c) /\ Head(thread.toCli[c]).type = "REGISTER_RES"
      /\ (q.conn[c] = "up" \/ Head(thread.toCli[c]).data.number # 1)
  BY <1>2, <1>3, <1>4 DEF HeardNow, SaysNothing
<1>6. Runs(g, q, Unread, r2a, send_buf, stream, driver)
  BY <1>1, <1>5, RegisterResOrder
<1>7. QED
  BY <1>2, <1>6, ClientLeaves DEF q

\* answers a CONNECT,
LEMMA ClientConnectOrdered ==
  ASSUME Inv, Inv', Ordered, NEW c \in Clients, ClientConnect(c)
  PROVE  Ordered'
<1>1. PICK g : Runs(g, thread, Unread, r2a, send_buf, stream, driver)
  BY OrderedRuns
<1> DEFINE q == thread'
           m == Head(toCli[c])
<1>2. /\ ClientReads(c) /\ m.type = "CONNECT" /\ UNCHANGED <<amiga, a2r, r2a, table, loop, conn>>
  BY DEF ClientConnect
<1>3. PICK result \in Answers :
        /\ Says(c, Thread!Msg("CONNECT_RESPONSE", m.sid, Thread!Result(result)))
        /\ stream' = [stream EXCEPT ![m.data.session] =
                        [NoStream EXCEPT !.client = c, !.sid = m.sid,
                                         !.st = IF result = 0 THEN "open" ELSE "done"]]
  BY DEF ClientConnect, Thread!Result, Result, Thread!Item, Item
<1> DEFINE y == Thread!Msg("CONNECT_RESPONSE", m.sid, Thread!Result(result))
<1>4. y \in FromClient /\ y.type = "CONNECT_RESPONSE" /\ y.sid = m.sid
  <2>1. m \in ToClient /\ m.sid \in Nat
    BY <1>2, Reads1 DEF ToClient
  <2>2. result \in Nat
    BY AnswerAssumption DEF AnswerAssumption
  <2> HIDE DEF m
  <2>3. QED
    BY <2>1, <2>2, ItemTypes DEF Thread!Msg, FromClient
<1>5. /\ fromCli'[c] = Append(fromCli[c], y) /\ \A e \in Clients : e # c => fromCli'[e] = fromCli[e]
  BY <1>3, EndsOf, SaysIs
<1>6. HeardNow(q, c) /\ conn'[c] = "up"
  <2>1. conn'[c] = "up" /\ \A e \in Clients : conn'[e] = conn[e]
    BY <1>2 DEF ClientReads
  <2>2. QED
    BY <1>2, <1>5, <2>1, ClientHears
<1> HIDE DEF q, y
<1> DEFINE k == m.data.session
           v == [NoStream EXCEPT !.client = c, !.sid = m.sid, !.st = IF result = 0 THEN "open" ELSE "done"]
<1>7. /\ Hearing(thread, q, c) /\ q.conn[c] = "up" /\ Head(thread.toCli[c]) = m
      /\ Answered(thread, q, c, m.sid) /\ thread.conn[c] = "up" /\ thread.toCli[c] # <<>>
  BY <1>2, <1>4, <1>5, <1>6 DEF HeardNow, Answered, Hearing, Attends
<1>8. k \in Sessions
  BY <1>1, <1>2, <1>7, FirstConnect
<1>9. /\ v.client = c /\ v.sid = m.sid /\ v.st \in {"open", "done"} /\ v.sent = 0 /\ v.got = <<>>
      /\ ~v.ended /\ ~v.eos
  <2> HIDE DEF m
  <2>1. QED
    BY DEF NoStream
<1>10. stream' = [stream EXCEPT ![k] = v] /\ stream \in [Sessions -> StreamTypes]
  BY <1>3, EndsOf
<1> HIDE DEF k, v, m
<1>11. Begins(stream, stream', k, c, m.sid)
  <2>1. stream' \in [Sessions -> StreamTypes]
    BY <1>6 DEF HeardNow
  <2>2. stream'[k] = v /\ \A n \in Sessions : n # k => stream'[n] = stream[n]
    BY <1>8, <1>10
  <2>3. QED
    BY <1>8, <1>9, <2>1, <2>2 DEF Begins
<1>12. Runs(g, q, Unread, r2a, send_buf, stream', driver)
  <2> DEFINE t == stream'
  <2>1. Begins(stream, t, Head(thread.toCli[c]).data.session, c, Head(thread.toCli[c]).sid)
    BY <1>7, <1>11 DEF k
  <2>2. /\ Answered(thread, q, c, Head(thread.toCli[c]).sid) /\ Head(thread.toCli[c]).type = "CONNECT"
        /\ Hearing(thread, q, c) /\ q.conn[c] = "up"
    BY <1>2, <1>7 DEF m
  <2> HIDE DEF t
  <2>3. Runs(g, q, Unread, r2a, send_buf, t, driver)
    BY <1>1, <2>1, <2>2, ConnectMsgOrder
  <2>4. QED
    BY <2>3 DEF t
<1>13. QED
  BY <1>2, <1>12, ClientLeaves DEF q

\* takes data, an EOS or a RESET, of a stream that it has or has not,
LEMMA ClientPacketOrdered ==
  ASSUME Inv, Inv', Ordered, NEW c \in Clients, ClientPacket(c)
  PROVE  Ordered'
<1>1. PICK g : Runs(g, thread, Unread, r2a, send_buf, stream, driver)
  BY OrderedRuns
<1> DEFINE q == thread'
           m == Head(toCli[c])
           n == StreamOf(c, m.sid)
           y == Thread!Msg("EOS", m.sid, Thread!Nothing)
           v == CASE m.type = "DATA" -> [stream[n] EXCEPT !.got = Append(@, m.data)]
                  [] m.type = "EOS" -> [stream[n] EXCEPT !.st = "done", !.eos = TRUE, !.ended = TRUE]
                  [] m.type = "RESET" -> [stream[n] EXCEPT !.st = "done"]
<1>2. /\ ClientReads(c) /\ m.type \in {"DATA", "EOS", "RESET"} /\ UNCHANGED <<amiga, a2r, r2a, table, loop, conn>>
  BY DEF ClientPacket
<1>3. \/ (~Knows(c, m.sid) \/ stream[n].st = "done") /\ UNCHANGED <<stream, fromCli>>
      \/ /\ ~(~Knows(c, m.sid) \/ stream[n].st = "done") /\ stream' = [stream EXCEPT ![n] = v]
         /\ (m.type = "EOS" /\ Says(c, y)) \/ UNCHANGED fromCli
  <2>1. \/ (~Knows(c, m.sid) \/ stream[n].st = "done") /\ UNCHANGED <<stream, fromCli>>
        \/ /\ ~(~Knows(c, m.sid) \/ stream[n].st = "done") /\ stream' = [stream EXCEPT ![n] = v]
           /\ (m.type = "EOS" /\ Says(c, Thread!Msg("EOS", m.sid, Nothing))) \/ UNCHANGED fromCli
    BY DEF ClientPacket
  <2>2. QED
    BY <2>1, SameItems
<1>4. m \in ToClient /\ m.sid \in Nat /\ m.data \in Items
  BY <1>2, Reads1 DEF ToClient
<1>5. y \in FromClient /\ y.type = "EOS" /\ y.sid = m.sid
  <2> HIDE DEF m
  <2>1. QED
    BY <1>4, ItemTypes DEF Thread!Msg, FromClient
<1>6. /\ \A e \in Clients : e # c => fromCli'[e] = fromCli[e]
      /\ fromCli'[c] = fromCli[c] \/ (m.type = "EOS" /\ fromCli'[c] = Append(fromCli[c], y))
  <2> HIDE DEF y, v
  <2>1. QED
    BY <1>3, EndsOf, SaysIs
<1>7. HeardNow(q, c) /\ conn'[c] = "up"
  <2>1. conn'[c] = "up" /\ \A e \in Clients : conn'[e] = conn[e]
    BY <1>2 DEF ClientReads
  <2>2. QED
    BY <1>2, <1>6, <2>1, ClientHears
<1> HIDE DEF q, y, v
<1>8. /\ Hearing(thread, q, c) /\ q.conn[c] = "up" /\ Head(thread.toCli[c]) = m
      /\ thread.fromCli = fromCli /\ q.fromCli = fromCli' /\ stream' \in [Sessions -> StreamTypes]
  BY <1>7 DEF HeardNow
<1>9. CASE (~Knows(c, m.sid) \/ stream[n].st = "done") /\ UNCHANGED <<stream, fromCli>>
  <2>1. SaysNothing(thread, q, c)
    BY <1>8, <1>9 DEF SaysNothing
  <2>2. ASSUME NEW k \in Sessions, stream[k].client = c, stream[k].sid = m.sid PROVE stream[k].st = "done"
    <3>1. SUFFICES ASSUME stream[k].st # "done" PROVE FALSE
      OBVIOUS
    <3>2. Knows(c, m.sid)
      BY <2>2 DEF Knows
    <3>3. stream[k].st \in {"open", "eos"}
      <4>1. stream[k].st \in {"none", "open", "eos", "done"} /\ c # NoOne
        BY EndsOf, ClientAssumption DEF StreamTypes, ClientAssumption
      <4>2. stream[k].st # "none"
        <5>1. NoStream.client = NoOne
          BY DEF NoStream
        <5>2. stream[k].st = "none" => stream[k] = NoStream
          BY <1>1, RunsTypes DEF StreamsRouted
        <5>3. QED
          BY <2>2, <4>1, <5>1, <5>2
      <4>3. QED
        BY <3>1, <4>1, <4>2
    <3>4. Known(stream, c, k, m)
      BY <2>2, <3>3 DEF Known
    <3>5. \A j : (j \in Sessions /\ stream[j].client = c /\ stream[j].sid = m.sid) <=> j = k
      <4> HIDE DEF m
      <4>1. QED
        BY <1>1, <3>4, KnownIs
    <3>6. n = k
      BY <3>5 DEF StreamOf
    <3>7. QED
      BY <1>9, <3>1, <3>2, <3>6
  <2>3. Runs(g, q, Unread, r2a, send_buf, stream, driver)
    <3>1. /\ Head(thread.toCli[c]).type \in {"DATA", "EOS", "RESET"}
          /\ \A k \in Sessions : stream[k].client = c /\ stream[k].sid = Head(thread.toCli[c]).sid => stream[k].st = "done"
      BY <1>2, <1>8, <2>2
    <3> HIDE DEF m, n
    <3>2. QED
      BY <1>1, <1>8, <2>1, <3>1, StaleMsgOrder
  <2>4. stream' = stream
    BY <1>9
  <2>5. QED
    BY <1>2, <2>3, <2>4, ClientLeaves DEF q
<1>10. CASE ~((~Knows(c, m.sid) \/ stream[n].st = "done") /\ UNCHANGED <<stream, fromCli>>)
  <2>1. Knows(c, m.sid) /\ stream[n].st # "done" /\ stream' = [stream EXCEPT ![n] = v]
    BY <1>3, <1>10
  <2>2. n \in Sessions /\ stream[n].client = c /\ stream[n].sid = m.sid
    BY <2>1 DEF Knows, StreamOf
  <2> HIDE DEF n
  <2>3. stream \in [Sessions -> StreamTypes] /\ stream[n] \in StreamTypes /\ stream[n].got \in Seq(Items)
    BY <2>2, EndsOf DEF StreamTypes
  <2>4. Known(stream, c, n, m)
    <3>1. stream[n].st \in {"none", "open", "eos", "done"} /\ c # NoOne
      BY <2>3, ClientAssumption DEF StreamTypes, ClientAssumption
    <3>2. stream[n].st # "none"
      <4>1. NoStream.client = NoOne
        BY DEF NoStream
      <4>2. stream[n].st = "none" => stream[n] = NoStream
        BY <1>1, <2>2, RunsTypes DEF StreamsRouted
      <4>3. QED
        BY <2>2, <3>1, <4>1, <4>2
    <3>3. QED
      BY <2>1, <2>2, <3>1, <3>2 DEF Known
  <2>5. /\ v.client = stream[n].client /\ v.sid = stream[n].sid /\ v.sent = stream[n].sent
        /\ v.st = IF m.type = "DATA" THEN stream[n].st ELSE "done"
        /\ v.got = IF m.type = "DATA" THEN Append(stream[n].got, m.data) ELSE stream[n].got
        /\ v.eos = (m.type = "EOS" \/ stream[n].eos) /\ v.ended = (m.type = "EOS" \/ stream[n].ended)
    <3> HIDE DEF m
    <3>1. CASE m.type = "DATA"
      BY <2>3, <3>1 DEF v, StreamTypes
    <3>2. CASE m.type = "EOS"
      BY <2>3, <3>2 DEF v, StreamTypes
    <3>3. CASE m.type = "RESET"
      BY <2>3, <3>3 DEF v, StreamTypes
    <3>4. QED
      BY <1>2, <3>1, <3>2, <3>3
  <2> HIDE DEF m
  <2>6. Handles(stream, stream', n, m)
    <3>1. stream'[n] = v /\ \A k \in Sessions : k # n => stream'[k] = stream[k]
      BY <2>1, <2>2, <2>3
    <3>2. QED
      BY <1>8, <2>5, <3>1 DEF Handles
  <2>7. Returns(thread, q, c, m)
    BY <1>5, <1>6, <1>8 DEF Returns, SaysNothing
  <2>8. Handling(g, thread, q, c, n, stream, stream')
    BY <1>2, <1>8, <2>4, <2>6, <2>7 DEF Handling
  <2>9. Runs(g, q, Unread, r2a, send_buf, stream', driver)
    <3> DEFINE t == stream'
    <3>1. Handling(g, thread, q, c, n, stream, t)
      BY <2>8
    <3> HIDE DEF t
    <3>2. Runs(g, q, Unread, r2a, send_buf, t, driver)
      BY <1>1, <3>1, HandleOrder
    <3>3. QED
      BY <3>2 DEF t
  <2>10. QED
    BY <1>2, <2>9, ClientLeaves DEF q
<1>11. QED
  BY <1>9, <1>10

\* says something of its own accord,
LEMMA ClientSendOrdered ==
  ASSUME Inv, Inv', Ordered, NEW n \in Sessions, NEW type \in Speaks, ClientSend(n, type)
  PROVE  Ordered'
<1>1. PICK g : Runs(g, thread, Unread, r2a, send_buf, stream, driver)
  BY OrderedRuns
<1> DEFINE q == thread'
           s == stream[n]
           c == stream[n].client
           y == Thread!Msg(type, s.sid, IF type = "DATA" THEN Thread!Item(n, s.sent + 1) ELSE Thread!Nothing)
           v == CASE type = "DATA" -> [s EXCEPT !.sent = @ + 1]
                  [] type = "EOS" -> [s EXCEPT !.st = "eos", !.ended = TRUE]
                  [] type = "RESET" -> [s EXCEPT !.st = "done"]
<1>2. type \in {"DATA", "EOS", "RESET"}
  BY AnswerAssumption DEF AnswerAssumption
<1>3. /\ UNCHANGED <<amiga, a2r, r2a, table, loop, conn, toCli>>
      /\ CASE type = "DATA" -> s.st = "open" [] type = "EOS" -> s.st = "open" [] type = "RESET" -> s.st \in {"open", "eos"}
  <2>1. UNCHANGED <<amiga, a2r, r2a, table, loop, conn, toCli>>
    BY DEF ClientSend
  <2>2. CASE type = "DATA"
    BY <2>1, <2>2 DEF ClientSend
  <2>3. CASE type = "EOS"
    BY <2>1, <2>3 DEF ClientSend
  <2>4. CASE type = "RESET"
    BY <2>1, <2>4 DEF ClientSend
  <2>5. QED
    BY <1>2, <2>2, <2>3, <2>4
<1>4. stream' = [stream EXCEPT ![n] = v]
  BY DEF ClientSend
<1>5. Says(c, y)
  <2> DEFINE x == IF type = "DATA" THEN Thread!Item(n, s.sent + 1) ELSE Thread!Nothing
             z == IF type = "DATA" THEN Item(n, s.sent + 1) ELSE Nothing
  <2>1. Says(c, Thread!Msg(type, s.sid, z))
    BY DEF ClientSend
  <2>2. x = z
    BY SameItems
  <2>3. y = Thread!Msg(type, s.sid, x)
    OBVIOUS
  <2> HIDE DEF x, y, z
  <2>4. QED
    BY <2>1, <2>2, <2>3
<1>6. s \in StreamTypes /\ s.sid \in Nat /\ s.sent \in Nat /\ stream \in [Sessions -> StreamTypes]
  BY EndsOf DEF StreamTypes
<1>7. y \in FromClient /\ y.type = type /\ y.sid = s.sid /\ (type = "DATA" => y.data = Item(n, s.sent + 1))
  <2> DEFINE x == IF type = "DATA" THEN Thread!Item(n, s.sent + 1) ELSE Thread!Nothing
  <2>1. x \in Items
    <3> HIDE DEF s
    <3>1. s.sent + 1 \in Nat
      BY <1>6
    <3>2. Thread!Item(n, s.sent + 1) \in Items
      BY <3>1 DEF Thread!Item, Items
    <3>3. QED
      BY <3>2, ItemTypes
  <2>2. type = "DATA" => x = Item(n, s.sent + 1)
    BY SameItems
  <2> HIDE DEF x, s
  <2>3. Thread!Msg(type, s.sid, x) \in FromClient
    BY <1>2, <1>6, <2>1 DEF Thread!Msg, FromClient
  <2>4. QED
    BY <2>2, <2>3 DEF Thread!Msg, x
<1> HIDE DEF q, y, v
<1>8. s.st \in {"open", "eos"}
  BY <1>2, <1>3
<1>9. c \in Clients /\ conn[c] = "up"
  <2>1. stream[n].client # NoOne /\ thread.conn[stream[n].client] = "up"
    BY <1>1, <1>8, RunsTypes DEF StreamsRouted
  <2>2. thread.conn = conn
    BY DEF thread
  <2>3. QED
    BY <1>6, <2>1, <2>2 DEF StreamTypes
<1>10. fromCli'[c] = Append(fromCli[c], y) /\ \A e \in Clients : e # c => fromCli'[e] = fromCli[e]
  BY <1>5, <1>9, EndsOf, SaysIs
<1>11. /\ Attends(thread, q, c) /\ thread.toCli = toCli /\ thread.fromCli = fromCli /\ thread.conn = conn
       /\ q.toCli = toCli' /\ q.fromCli = fromCli' /\ q.conn = conn' /\ stream' \in [Sessions -> StreamTypes]
  <2>1. /\ conn'[c] # "none" /\ TakesOne(toCli[c], toCli'[c])
        /\ \A e \in Clients : e # c => conn'[e] = conn[e] /\ toCli'[e] = toCli[e] /\ fromCli'[e] = fromCli[e]
    BY <1>3, <1>9, <1>10 DEF TakesOne
  <2> HIDE DEF c
  <2>2. thread' = q
    BY DEF q
  <2>3. UNCHANGED table
    BY <1>3
  <2>4. QED
    BY <1>9, <2>1, <2>2, <2>3, ClientAttends
<1>12. Known(stream, c, n, y)
  BY <1>7, <1>8 DEF Known
<1>13. Utters(stream, stream', n, y)
  <2>1. stream'[n] = v /\ \A k \in Sessions : k # n => stream'[k] = stream[k]
    BY <1>4, <1>6
  <2>2. v.client = s.client /\ v.sid = s.sid /\ v.got = s.got /\ v.eos = s.eos
    <3>1. CASE type = "DATA"
      BY <1>6, <3>1 DEF v, StreamTypes
    <3>2. CASE type = "EOS"
      BY <1>6, <3>2 DEF v, StreamTypes
    <3>3. CASE type = "RESET"
      BY <1>6, <3>3 DEF v, StreamTypes
    <3>4. QED
      BY <1>2, <3>1, <3>2, <3>3
  <2>3. CASE type = "DATA"
    <3>1. v.sent = s.sent + 1 /\ v.st = "open" /\ v.ended = s.ended /\ s.st = "open"
      BY <1>3, <1>6, <2>3 DEF v, StreamTypes
    <3> HIDE DEF s
    <3>2. y.type = "DATA" /\ y.data = Item(n, s.sent + 1)
      BY <1>7, <2>3
    <3>3. QED
      BY <1>11, <2>1, <2>2, <3>1, <3>2 DEF Utters, s
  <2>4. CASE type = "EOS"
    <3>1. v.sent = s.sent /\ v.st = "eos" /\ v.ended /\ s.st = "open"
      BY <1>3, <1>6, <2>4 DEF v, StreamTypes
    <3>2. QED
      BY <1>7, <1>11, <2>1, <2>2, <2>4, <3>1 DEF Utters
  <2>5. CASE type = "RESET"
    <3>1. v.sent = s.sent /\ v.st = "done" /\ v.ended = s.ended
      BY <1>6, <2>5 DEF v, StreamTypes
    <3>2. QED
      BY <1>7, <1>11, <2>1, <2>2, <2>5, <3>1 DEF Utters
  <2>6. QED
    BY <1>2, <2>3, <2>4, <2>5
<1>14. Uttering(thread, q, c, n, stream, stream', y)
  <2>1. q.toCli[c] = thread.toCli[c] /\ q.conn[c] = "up" /\ q.fromCli[c] = Append(thread.fromCli[c], y)
    BY <1>3, <1>9, <1>10, <1>11
  <2>2. y.type \in {"DATA", "EOS", "RESET"}
    BY <1>2, <1>7
  <2> HIDE DEF c
  <2>3. QED
    BY <1>7, <1>11, <1>12, <1>13, <2>1, <2>2 DEF Uttering
<1>15. Runs(g, q, Unread, r2a, send_buf, stream', driver)
  <2> DEFINE t == stream'
  <2>1. Uttering(thread, q, c, n, stream, t, y)
    BY <1>14
  <2> HIDE DEF t, c
  <2>2. Runs(g, q, Unread, r2a, send_buf, t, driver)
    BY <1>1, <2>1, UtterOrder
  <2>3. QED
    BY <2>2 DEF t
<1>16. QED
  BY <1>3, <1>15, ClientLeaves DEF q

\* or ends.
LEMMA ClientCloseOrdered ==
  ASSUME Inv, Inv', Ordered, NEW c \in Clients, ClientClose(c)
  PROVE  Ordered'
<1>1. PICK g : Runs(g, thread, Unread, r2a, send_buf, stream, driver)
  BY OrderedRuns
<1> DEFINE q == thread'
           t == stream'
<1>2. /\ conn[c] = "up" /\ conn' = [conn EXCEPT ![c] = Left(c)] /\ conn \in [Clients -> Conns]
      /\ t = [n \in Sessions |-> IF stream[n].client # c THEN stream[n]
                                 ELSE [stream[n] EXCEPT !.client = NoOne, !.st = "done"]]
      /\ UNCHANGED <<amiga, a2r, r2a, table, loop, toCli, fromCli>>
  BY EndsOf DEF ClientClose
<1>3. Left(c) \notin {"none", "up"}
  BY DEF Left
<1>4. conn'[c] \notin {"none", "up"} /\ \A e \in Clients : e # c => conn'[e] = conn[e]
  BY <1>2, <1>3
<1>5. /\ Attends(thread, q, c) /\ thread.toCli = toCli /\ thread.fromCli = fromCli /\ thread.conn = conn
      /\ q.toCli = toCli' /\ q.fromCli = fromCli' /\ q.conn = conn' /\ t \in [Sessions -> StreamTypes]
  <2>1. TakesOne(toCli[c], toCli'[c])
    BY <1>2 DEF TakesOne
  <2>2. QED
    BY <1>2, <1>4, <2>1, ClientAttends
<1> HIDE DEF q, t
<1>6. Departs(thread, q, c, stream, t)
  <2>1. ASSUME NEW n \in Sessions
        PROVE  IF stream[n].client # c THEN t[n] = stream[n]
               ELSE /\ t[n].client = NoOne /\ t[n].st = "done" /\ t[n].sent = stream[n].sent /\ t[n].got = stream[n].got
                    /\ t[n].ended = stream[n].ended /\ t[n].eos = stream[n].eos
    <3>1. stream[n] \in StreamTypes
      BY EndsOf
    <3>2. t[n] = IF stream[n].client # c THEN stream[n] ELSE [stream[n] EXCEPT !.client = NoOne, !.st = "done"]
      BY <1>2
    <3>3. QED
      BY <3>1, <3>2 DEF StreamTypes
  <2>2. q.toCli[c] = thread.toCli[c] /\ SaysNothing(thread, q, c) /\ q.conn[c] # "up"
    BY <1>2, <1>4, <1>5 DEF SaysNothing
  <2>3. QED
    BY <1>5, <2>1, <2>2 DEF Departs
<1>7. Runs(g, q, Unread, r2a, send_buf, t, driver)
  BY <1>1, <1>6, DepartOrder
<1>8. QED
  BY <1>2, <1>7, ClientLeaves DEF q, t

\* Every step keeps the order.
LEMMA NextOrdered ==
  ASSUME Inv, Inv', Ordered, [Next]_vars, \A r \in Requests : AppRequest(r) => FreshIds
  PROVE  Ordered'
<1>1. ASSUME NEW r \in Requests, AppRequest(r) PROVE Ordered'
  BY <1>1, AppRequestOrdered
<1>2. CASE ReceiveR2A \/ SendQueued \/ Reboot
  BY <1>2, ReceiveR2AOrdered, SendQueuedOrdered, RebootOrdered
<1>3. CASE ThreadStep
  <2>1. CASE Irq \/ ReceiveA2R \/ FlushPacket \/ Publish
    BY <2>1, IrqOrdered, ReceiveA2ROrdered, FlushPacketOrdered, PublishOrdered
  <2>2. CASE ReadMessage \/ MessagesRead
    BY <2>2, ReadMessageOrdered, MessagesReadOrdered
  <2>3. ASSUME NEW c \in Clients, ConnectionEvent(c) PROVE Ordered'
    BY <2>3, ConnectionEventOrdered
  <2>4. QED
    BY <1>3, <2>1, <2>2, <2>3 DEF ThreadStep
<1>4. ASSUME NEW c \in Clients, ClientStep(c) \/ ClientClose(c) \/ handle_server_socket_ready(c)
      PROVE  Ordered'
  BY <1>4, RegisterResOrdered, ClientConnectOrdered, ClientPacketOrdered, ClientCloseOrdered, ServerReadyOrdered
     DEF ClientStep
<1>5. ASSUME NEW n \in Sessions, NEW type \in Speaks, ClientSend(n, type) PROVE Ordered'
  BY <1>5, ClientSendOrdered
<1>6. CASE UNCHANGED vars
  <2>1. UNCHANGED <<amiga, a2r, r2a, table, received, send_buf, wires, stream>>
    BY <1>6 DEF vars, loop
  <2>2. QED
    BY <2>1, IdleOrdered
<1>7. QED
  BY <1>1, <1>2, <1>3, <1>4, <1>5, <1>6 DEF Next, DriverStep

\* What the order says of the two ends.
LEMMA OrderedEnds ==
  ASSUME Ordered
  PROVE  DataInOrder /\ EosAfterData
<1>1. PICK g : Order(g, thread, Unread, r2a, send_buf, stream, driver)
  BY DEF Ordered
<1>2. /\ driver.read = read /\ driver.eosRead = eosRead /\ driver.written = written
  BY DEF driver
<1>3. ASSUME NEW n \in Sessions
      PROVE  /\ \A k \in DOMAIN read[n] : read[n][k] = Item(n, k)
             /\ \A k \in DOMAIN stream[n].got : stream[n].got[k] = Item(n, k)
             /\ n \in eosRead => Len(read[n]) = stream[n].sent
             /\ stream[n].eos => Len(stream[n].got) = written[n]
  <2>1. Down(g, n, thread, Unread, driver, stream) /\ Up(g, n, thread, driver, r2a, send_buf, stream)
    BY <1>1 DEF Order
  <2>2. /\ \A k \in DOMAIN stream[n].got : stream[n].got[k] = Item(n, k)
        /\ stream[n].eos => Len(stream[n].got) = driver.written[n]
    BY <2>1 DEF Down
  <2>3. /\ \A k \in DOMAIN driver.read[n] : driver.read[n][k] = Item(n, k)
        /\ n \in driver.eosRead => Len(driver.read[n]) = stream[n].sent
    BY <2>1 DEF Up
  <2>4. QED
    BY <1>2, <2>2, <2>3
<1>4. QED
  BY <1>3 DEF DataInOrder, EosAfterData

-----------------------------------------------------------------------------
(* The ids that the driver uses: a handler gives none to a new socket, but   *)
(* handle_app_connect, and sends packets for sockets that are there.         *)

Record(d) ==
  /\ d = [socket |-> d.socket, send_queue |-> d.send_queue, next_stream_id |-> d.next_stream_id,
          io |-> d.io, read |-> d.read, eosRead |-> d.eosRead, written |-> d.written,
          eosWritten |-> d.eosWritten, a2r |-> d.a2r]
  /\ DOMAIN d.io = Requests
Calm(d, e) ==
  /\ Record(e) /\ e.next_stream_id = d.next_stream_id /\ DOMAIN e.socket \subseteq DOMAIN d.socket
  /\ \A q \in Requests : e.io[q] = "idle" => d.io[q] = "idle"
Mute(d, e) == Calm(d, e) /\ e.a2r = d.a2r
Modest(d, e) ==
  Calm(d, e) /\ (e.a2r = d.a2r \/ \E m : m.id \in DOMAIN d.socket /\ e.a2r = Append(d.a2r, m))

\* A handler that sends nothing, before or after one that sends at most a packet.
LEMMA ModestJoins ==
  ASSUME NEW d, NEW e, NEW f
  PROVE  /\ Mute(d, e) /\ Mute(e, f) => Mute(d, f)
         /\ Mute(d, e) /\ Modest(e, f) => Modest(d, f)
         /\ Modest(d, e) /\ Mute(e, f) => Modest(d, f)
         /\ Mute(d, e) => Modest(d, e)
  BY DEF Mute, Modest, Calm
\* The fields that a handler writes.
LEMMA MuteFields ==
  ASSUME NEW d, Record(d), NEW x
  PROVE  /\ Mute(d, d)
         /\ Mute(d, [d EXCEPT !.send_queue = x])
         /\ Mute(d, [d EXCEPT !.read = x]) /\ Mute(d, [d EXCEPT !.eosRead = x])
         /\ Mute(d, [d EXCEPT !.written = x]) /\ Mute(d, [d EXCEPT !.eosWritten = x])
         /\ DOMAIN x \subseteq DOMAIN d.socket => Mute(d, [d EXCEPT !.socket = x])
         /\ DOMAIN x = Requests /\ (\A q \in Requests : x[q] = "idle" => d.io[q] = "idle") =>
              Mute(d, [d EXCEPT !.io = x])
<1> DEFINE R(s, sq, nx, io1, rd, er, wr, ew, a) ==
             [socket |-> s, send_queue |-> sq, next_stream_id |-> nx, io |-> io1, read |-> rd,
              eosRead |-> er, written |-> wr, eosWritten |-> ew, a2r |-> a]
           D(s, sq, io1, rd, er, wr, ew) == R(s, sq, d.next_stream_id, io1, rd, er, wr, ew, d.a2r)
           Q(io1) == DOMAIN io1 = Requests /\ \A q \in Requests : io1[q] = "idle" => d.io[q] = "idle"
<1>1. /\ d = D(d.socket, d.send_queue, d.io, d.read, d.eosRead, d.written, d.eosWritten)
      /\ [d EXCEPT !.send_queue = x] = D(d.socket, x, d.io, d.read, d.eosRead, d.written, d.eosWritten)
      /\ [d EXCEPT !.read = x] = D(d.socket, d.send_queue, d.io, x, d.eosRead, d.written, d.eosWritten)
      /\ [d EXCEPT !.eosRead = x] = D(d.socket, d.send_queue, d.io, d.read, x, d.written, d.eosWritten)
      /\ [d EXCEPT !.written = x] = D(d.socket, d.send_queue, d.io, d.read, d.eosRead, x, d.eosWritten)
      /\ [d EXCEPT !.eosWritten = x] = D(d.socket, d.send_queue, d.io, d.read, d.eosRead, d.written, x)
      /\ [d EXCEPT !.socket = x] = D(x, d.send_queue, d.io, d.read, d.eosRead, d.written, d.eosWritten)
      /\ [d EXCEPT !.io = x] = D(d.socket, d.send_queue, x, d.read, d.eosRead, d.written, d.eosWritten)
  BY DEF Record
<1>2. ASSUME NEW s, NEW sq, NEW io1, NEW rd, NEW er, NEW wr, NEW ew,
             DOMAIN s \subseteq DOMAIN d.socket, Q(io1)
      PROVE  Mute(d, D(s, sq, io1, rd, er, wr, ew))
  <2> DEFINE e == D(s, sq, io1, rd, er, wr, ew)
  <2>1. /\ e.socket = s /\ e.send_queue = sq /\ e.next_stream_id = d.next_stream_id /\ e.io = io1
        /\ e.read = rd /\ e.eosRead = er /\ e.written = wr /\ e.eosWritten = ew /\ e.a2r = d.a2r
    OBVIOUS
  <2>2. Record(e)
    BY <1>2, <2>1 DEF Record
  <2> HIDE DEF e
  <2>3. Mute(d, e)
    BY <1>2, <2>1, <2>2 DEF Mute, Calm
  <2>4. QED
    BY <2>3 DEF e
<1>3. Q(d.io)
  BY DEF Record
<1> DEFINE u1 == [d EXCEPT !.send_queue = x]
           u2 == [d EXCEPT !.read = x]
           u3 == [d EXCEPT !.eosRead = x]
           u4 == [d EXCEPT !.written = x]
           u5 == [d EXCEPT !.eosWritten = x]
           u6 == [d EXCEPT !.socket = x]
           u7 == [d EXCEPT !.io = x]
<1> HIDE DEF D, u1, u2, u3, u4, u5, u6, u7
<1>4. QED
  <2>1. /\ u1 = D(d.socket, x, d.io, d.read, d.eosRead, d.written, d.eosWritten)
        /\ u2 = D(d.socket, d.send_queue, d.io, x, d.eosRead, d.written, d.eosWritten)
        /\ u3 = D(d.socket, d.send_queue, d.io, d.read, x, d.written, d.eosWritten)
        /\ u4 = D(d.socket, d.send_queue, d.io, d.read, d.eosRead, x, d.eosWritten)
        /\ u5 = D(d.socket, d.send_queue, d.io, d.read, d.eosRead, d.written, x)
        /\ u6 = D(x, d.send_queue, d.io, d.read, d.eosRead, d.written, d.eosWritten)
        /\ u7 = D(d.socket, d.send_queue, x, d.read, d.eosRead, d.written, d.eosWritten)
    BY <1>1, Zenon DEF u1, u2, u3, u4, u5, u6, u7
  <2>2. /\ Mute(d, d) /\ Mute(d, u1) /\ Mute(d, u2) /\ Mute(d, u3) /\ Mute(d, u4) /\ Mute(d, u5)
        /\ DOMAIN x \subseteq DOMAIN d.socket => Mute(d, u6)
        /\ Q(x) => Mute(d, u7)
    BY <1>1, <1>2, <1>3, <2>1
  <2>3. QED
    BY <2>2, Zenon DEF u1, u2, u3, u4, u5, u6, u7

\* A field within a field.
LEMMA MuteWithin ==
  ASSUME NEW d, Record(d), NEW i, NEW x
  PROVE  /\ x # "idle" => Mute(d, [d EXCEPT !.io[i] = x])
         /\ Mute(d, [d EXCEPT !.read[i] = Append(@, x)]) /\ Mute(d, [d EXCEPT !.written[i] = @ + 1])
         /\ Mute(d, [d EXCEPT !.eosRead = @ \union {x}]) /\ Mute(d, [d EXCEPT !.eosWritten = @ \union {x}])
         /\ Mute(d, [d EXCEPT !.socket[i].flags = @ \union {x}])
         /\ Mute(d, [d EXCEPT !.socket[i].rq = x])
         /\ Mute(d, [d EXCEPT !.socket[i].rq = Tail(@)]) /\ Mute(d, [d EXCEPT !.socket[i].rq = Append(@, x)])
         /\ Mute(d, [d EXCEPT !.socket[i].pending_connect = x])
         /\ Mute(d, [d EXCEPT !.socket[i].pending_read = x])
         /\ Mute(d, [d EXCEPT !.socket[i].pending_write = x])
         /\ Mute(d, [d EXCEPT !.socket[i] = x])
<1>1. /\ [d EXCEPT !.io[i] = x] = [d EXCEPT !.io = [d.io EXCEPT ![i] = x]]
      /\ [d EXCEPT !.read[i] = Append(@, x)] = [d EXCEPT !.read = [d.read EXCEPT ![i] = Append(@, x)]]
      /\ [d EXCEPT !.written[i] = @ + 1] = [d EXCEPT !.written = [d.written EXCEPT ![i] = @ + 1]]
      /\ [d EXCEPT !.eosRead = @ \union {x}] = [d EXCEPT !.eosRead = d.eosRead \union {x}]
      /\ [d EXCEPT !.eosWritten = @ \union {x}] = [d EXCEPT !.eosWritten = d.eosWritten \union {x}]
      /\ [d EXCEPT !.socket[i].flags = @ \union {x}] =
           [d EXCEPT !.socket = [d.socket EXCEPT ![i].flags = @ \union {x}]]
      /\ [d EXCEPT !.socket[i].rq = x] = [d EXCEPT !.socket = [d.socket EXCEPT ![i].rq = x]]
      /\ [d EXCEPT !.socket[i].rq = Tail(@)] = [d EXCEPT !.socket = [d.socket EXCEPT ![i].rq = Tail(@)]]
      /\ [d EXCEPT !.socket[i].rq = Append(@, x)] =
           [d EXCEPT !.socket = [d.socket EXCEPT ![i].rq = Append(@, x)]]
      /\ [d EXCEPT !.socket[i].pending_connect = x] =
           [d EXCEPT !.socket = [d.socket EXCEPT ![i].pending_connect = x]]
      /\ [d EXCEPT !.socket[i].pending_read = x] =
           [d EXCEPT !.socket = [d.socket EXCEPT ![i].pending_read = x]]
      /\ [d EXCEPT !.socket[i].pending_write = x] =
           [d EXCEPT !.socket = [d.socket EXCEPT ![i].pending_write = x]]
      /\ [d EXCEPT !.socket[i] = x] = [d EXCEPT !.socket = [d.socket EXCEPT ![i] = x]]
  BY Zenon DEF Record
<1>2. /\ \A f : DOMAIN f = DOMAIN d.socket => Mute(d, [d EXCEPT !.socket = f])
      /\ \A f : Mute(d, [d EXCEPT !.read = f]) /\ Mute(d, [d EXCEPT !.written = f])
      /\ \A f : Mute(d, [d EXCEPT !.eosRead = f]) /\ Mute(d, [d EXCEPT !.eosWritten = f])
      /\ \A f : DOMAIN f = Requests /\ (\A q \in Requests : f[q] = "idle" => d.io[q] = "idle") =>
           Mute(d, [d EXCEPT !.io = f])
  BY MuteFields
<1>3. ASSUME x # "idle" PROVE Mute(d, [d EXCEPT !.io[i] = x])
  <2> DEFINE f == [d.io EXCEPT ![i] = x]
  <2>1. DOMAIN f = Requests /\ \A q \in Requests : f[q] = "idle" => d.io[q] = "idle"
    BY <1>3 DEF Record
  <2> HIDE DEF f
  <2>2. Mute(d, [d EXCEPT !.io = f])
    BY <1>2, <2>1, Zenon
  <2>3. QED
    BY <1>1, <2>2, Zenon DEF f
<1>4. /\ Mute(d, [d EXCEPT !.read[i] = Append(@, x)]) /\ Mute(d, [d EXCEPT !.written[i] = @ + 1])
      /\ Mute(d, [d EXCEPT !.eosRead = @ \union {x}]) /\ Mute(d, [d EXCEPT !.eosWritten = @ \union {x}])
  BY <1>1, <1>2, Zenon
<1> DEFINE g1 == [d.socket EXCEPT ![i].flags = @ \union {x}]
           g2 == [d.socket EXCEPT ![i].rq = x]
           g3 == [d.socket EXCEPT ![i].rq = Tail(@)]
           g4 == [d.socket EXCEPT ![i].rq = Append(@, x)]
           g5 == [d.socket EXCEPT ![i].pending_connect = x]
           g6 == [d.socket EXCEPT ![i].pending_read = x]
           g7 == [d.socket EXCEPT ![i].pending_write = x]
           g8 == [d.socket EXCEPT ![i] = x]
<1>5. /\ DOMAIN g1 = DOMAIN d.socket /\ DOMAIN g2 = DOMAIN d.socket /\ DOMAIN g3 = DOMAIN d.socket
      /\ DOMAIN g4 = DOMAIN d.socket /\ DOMAIN g5 = DOMAIN d.socket /\ DOMAIN g6 = DOMAIN d.socket
      /\ DOMAIN g7 = DOMAIN d.socket /\ DOMAIN g8 = DOMAIN d.socket
  BY Zenon
<1>6. /\ Mute(d, [d EXCEPT !.socket = g1]) /\ Mute(d, [d EXCEPT !.socket = g2])
      /\ Mute(d, [d EXCEPT !.socket = g3]) /\ Mute(d, [d EXCEPT !.socket = g4])
      /\ Mute(d, [d EXCEPT !.socket = g5]) /\ Mute(d, [d EXCEPT !.socket = g6])
      /\ Mute(d, [d EXCEPT !.socket = g7]) /\ Mute(d, [d EXCEPT !.socket = g8])
  <2> HIDE DEF g1, g2, g3, g4, g5, g6, g7, g8
  <2>1. QED
    BY <1>2, <1>5, Zenon
<1>7. QED
  BY <1>1, <1>3, <1>4, <1>6, Zenon

\* A packet is sent for a socket (append_a2r_packet).
LEMMA PacketModest ==
  ASSUME NEW d, Record(d), NEW t, NEW i \in DOMAIN d.socket, NEW x
  PROVE  Modest(d, Device!append_a2r_packet(d, t, i, x))
<1> DEFINE m == Device!Pkt(t, i, x)
           a == Append(d.a2r, m)
           e == [d EXCEPT !.a2r = a]
<1>1. Device!append_a2r_packet(d, t, i, x) = e
  BY Zenon DEF Device!append_a2r_packet, Record
<1>2. m.id \in DOMAIN d.socket
  BY DEF Device!Pkt
<1> HIDE DEF m, a
<1>3. /\ e = [socket |-> d.socket, send_queue |-> d.send_queue, next_stream_id |-> d.next_stream_id,
              io |-> d.io, read |-> d.read, eosRead |-> d.eosRead, written |-> d.written,
              eosWritten |-> d.eosWritten, a2r |-> a]
  BY DEF Record
<1> HIDE DEF e
<1>4. /\ e.socket = d.socket /\ e.send_queue = d.send_queue /\ e.next_stream_id = d.next_stream_id
      /\ e.io = d.io /\ e.read = d.read /\ e.eosRead = d.eosRead /\ e.written = d.written
      /\ e.eosWritten = d.eosWritten /\ e.a2r = a
  BY <1>3
<1>5. Record(e)
  BY <1>3, <1>4 DEF Record
<1>6. Modest(d, e)
  BY <1>2, <1>4, <1>5 DEF Modest, Calm, a
<1>7. QED
  BY <1>1, <1>6
\* The operations of sockets.c and ReplyMsg send nothing.
LEMMA SocketsMute ==
  ASSUME NEW d, Record(d), NEW i
  PROVE  /\ \A x : x # "idle" => Mute(d, Device!ReplyMsg(d, i, x))
         /\ Mute(d, Device!add_to_send_queue(d, i)) /\ Mute(d, Device!remove_from_send_queue(d, i))
         /\ Device!remove_from_send_queue(d, i).socket = d.socket
         /\ Mute(d, Device!delete_socket(d, i))
<1>1. \A x : x # "idle" => Mute(d, Device!ReplyMsg(d, i, x))
  BY MuteWithin, Zenon DEF Device!ReplyMsg
<1> DEFINE q1 == Append(d.send_queue, i)
           q2 == Device!Without(d.send_queue, i)
           s == Device!Drop(d.socket, i)
<1>2. /\ Device!add_to_send_queue(d, i) = [d EXCEPT !.send_queue = q1]
      /\ Device!remove_from_send_queue(d, i) = [d EXCEPT !.send_queue = q2]
      /\ Device!delete_socket(d, i) = [d EXCEPT !.socket = s]
  BY Zenon DEF Device!add_to_send_queue, Device!remove_from_send_queue, Device!delete_socket, Record
<1>3. DOMAIN s \subseteq DOMAIN d.socket
  BY DEF Device!Drop
<1> HIDE DEF q1, q2, s
<1>4. [d EXCEPT !.send_queue = q2].socket = d.socket
  BY DEF Record
<1>5. /\ Mute(d, [d EXCEPT !.send_queue = q1]) /\ Mute(d, [d EXCEPT !.send_queue = q2])
      /\ Mute(d, [d EXCEPT !.socket = s])
  BY <1>3, MuteFields, Zenon
<1>6. QED
  BY <1>1, <1>2, <1>4, <1>5, Zenon
\* What is mute leaves a record.
LEMMA ModestRecord ==
  ASSUME NEW d, NEW e, Modest(d, e) \/ Mute(d, e)
  PROVE  Record(e) /\ DOMAIN e.socket \subseteq DOMAIN d.socket
  BY DEF Modest, Mute, Calm
\* close_socket sends a RESET or nothing (a314driver.c:53).
LEMMA CloseModest ==
  ASSUME NEW d, Record(d), NEW i \in DOMAIN d.socket
  PROVE  /\ Modest(d, Device!close_socket(d, i, TRUE))
         /\ Mute(d, Device!close_socket(d, i, FALSE))
<1> DEFINE held == Device!Pending(d.socket[i])
           io1 == [r \in Device!Requests |-> IF r \in held THEN "RESET" ELSE d.io[r]]
           o == [d EXCEPT !.io = [r \in Device!Requests |-> IF r \in held THEN "RESET" ELSE @[r]]]
           e == Device!remove_from_send_queue(o, i)
           s == d.socket[i]
           closed == [s EXCEPT !.pending_connect = NoOne, !.pending_read = NoOne,
                               !.pending_write = NoOne, !.rq = <<>>,
                               !.flags = @ \union {"CLOSED", "SHOULD_SEND_RESET"}]
           p == Device!append_a2r_packet(e, "RESET", i, Device!Nothing)
           f == [e EXCEPT !.socket[i] = closed]
           u == Device!close_socket(d, i, TRUE)
           v == Device!close_socket(d, i, FALSE)
<1>1. /\ v = Device!delete_socket(e, i)
      /\ Device!CanSend(e) => u = Device!delete_socket(p, i)
      /\ ~Device!CanSend(e) => u = Device!add_to_send_queue(f, i)
  <2>1. v = Device!delete_socket(e, i)
    BY Zenon DEF Device!close_socket
  <2>2. CASE Device!CanSend(e)
    BY <2>1, <2>2 DEF Device!close_socket
  <2>3. CASE ~Device!CanSend(e)
    BY <2>1, <2>3 DEF Device!close_socket
  <2>4. QED
    BY <2>1, <2>2, <2>3
<1> HIDE DEF u, v
<1>2. Mute(d, o) /\ o.socket = d.socket
  <2>1. o = [d EXCEPT !.io = io1]
    BY Zenon DEF Record
  <2>2. DOMAIN io1 = Requests /\ \A r \in Requests : io1[r] = "idle" => d.io[r] = "idle"
    BY SameRequests
  <2> HIDE DEF io1, o
  <2>3. Mute(d, [d EXCEPT !.io = io1])
    BY <2>2, MuteFields, Zenon
  <2>4. [d EXCEPT !.io = io1].socket = d.socket
    BY DEF Record
  <2>5. QED
    BY <2>1, <2>3, <2>4
<1> HIDE DEF o
<1>3. Mute(d, e) /\ e.socket = d.socket /\ Record(e)
  <2>1. Record(o)
    BY <1>2, ModestRecord
  <2>2. Mute(o, e) /\ e.socket = o.socket
    BY <2>1, SocketsMute
  <2> HIDE DEF e
  <2>3. Mute(d, e)
    BY <1>2, <2>2, ModestJoins
  <2>4. QED
    BY <1>2, <2>2, <2>3, ModestRecord
<1> HIDE DEF e, closed
<1>4. Mute(d, v)
  BY <1>1, <1>3, SocketsMute, ModestJoins
<1>5. Modest(d, u)
  <2>1. CASE Device!CanSend(e)
    <3>1. Modest(e, p) /\ Record(p)
      BY <1>3, PacketModest, ModestRecord
    <3> HIDE DEF p
    <3>2. Mute(p, Device!delete_socket(p, i))
      BY <3>1, SocketsMute
    <3>3. QED
      BY <1>1, <1>3, <2>1, <3>1, <3>2, ModestJoins
  <2>2. CASE ~Device!CanSend(e)
    <3>1. Mute(e, f) /\ Record(f)
      BY <1>3, MuteWithin, ModestRecord
    <3> HIDE DEF f
    <3>2. Mute(f, Device!add_to_send_queue(f, i))
      BY <3>1, SocketsMute
    <3>3. QED
      BY <1>1, <1>3, <2>2, <3>1, <3>2, ModestJoins
  <2>3. QED
    BY <2>1, <2>2
<1>6. QED
  BY <1>4, <1>5 DEF u, v

\* The end of a stream is noted (set_eos_flag): nothing is sent.
LEMMA SetEosFlagMute ==
  ASSUME NEW d, Record(d), NEW i \in DOMAIN d.socket, NEW flag
  PROVE  Mute(d, Device!SetEosFlag(d, i, flag))
<1> DEFINE e == [d EXCEPT !.socket[i].flags = @ \union {flag}]
<1>1. Device!SetEosFlag(d, i, flag) \in {e, Device!close_socket(e, i, FALSE)}
  BY Zenon DEF Device!SetEosFlag
<1>2. Mute(d, e) /\ Record(e)
  BY MuteWithin, ModestRecord
<1>3. i \in DOMAIN e.socket
  BY DEF Record
<1> HIDE DEF e
<1>4. Mute(e, Device!close_socket(e, i, FALSE))
  BY <1>2, <1>3, CloseModest
<1>5. Mute(d, Device!close_socket(e, i, FALSE))
  BY <1>2, <1>4, ModestJoins
<1>6. QED
  BY <1>1, <1>2, <1>5, Zenon
\* A read is replied to, with data or with EOS,
LEMMA RepliesMute ==
  ASSUME NEW d, Record(d), NEW r, NEW i \in DOMAIN d.socket, NEW x
  PROVE  Mute(d, Device!ReplyData(d, r, i, x)) /\ Mute(d, Device!ReplyEos(d, r, i))
<1> DEFINE n == d.socket[i].session
           e1 == Device!ReplyMsg(d, r, "OK")
           e2 == Device!ReplyMsg(d, r, "EOS")
           f1 == [e1 EXCEPT !.read[n] = Append(@, x)]
           f2 == [e2 EXCEPT !.eosRead = @ \union {n}]
<1>1. /\ Device!ReplyData(d, r, i, x) = f1
      /\ Device!ReplyEos(d, r, i) = Device!SetEosFlag(f2, i, "SENT_EOS_TO_APP")
  BY Zenon DEF Device!ReplyData, Device!ReplyEos
<1>2. Mute(d, e1) /\ Mute(d, e2) /\ Record(e1) /\ Record(e2)
  BY SocketsMute, ModestRecord
<1>3. e2.socket = d.socket
  BY DEF Record, Device!ReplyMsg
<1> HIDE DEF e1, e2
<1>4. Mute(e1, f1) /\ Mute(e2, f2) /\ Record(f2)
  BY <1>2, MuteWithin, ModestRecord
<1>5. f2.socket = d.socket
  BY <1>2, <1>3 DEF Record
<1> HIDE DEF f1, f2
<1>6. Mute(f2, Device!SetEosFlag(f2, i, "SENT_EOS_TO_APP"))
  BY <1>4, <1>5, SetEosFlagMute
<1>7. QED
  BY <1>1, <1>2, <1>4, <1>6, ModestJoins
\* a packet of a write is sent,
LEMMA SendsModest ==
  ASSUME NEW d, Record(d), NEW r, NEW i \in DOMAIN d.socket
  PROVE  Modest(d, Device!SendData(d, r, i)) /\ Modest(d, Device!SendEos(d, r, i))
<1> DEFINE n == d.socket[i].session
           x == Device!Item(n, d.written[n] + 1)
           e1 == Device!append_a2r_packet(d, "DATA", i, x)
           e2 == Device!append_a2r_packet(d, "EOS", i, Device!Nothing)
           f1 == Device!ReplyMsg(e1, r, "OK")
           f2 == Device!ReplyMsg(e2, r, "OK")
           g1 == [f1 EXCEPT !.written[n] = @ + 1]
           g2 == [f2 EXCEPT !.eosWritten = @ \union {n}]
<1>1. /\ Device!SendData(d, r, i) = g1
      /\ Device!SendEos(d, r, i) = Device!SetEosFlag(g2, i, "SENT_EOS_TO_RPI")
  BY Zenon DEF Device!SendData, Device!SendEos
<1>2. Modest(d, e1) /\ Modest(d, e2) /\ Record(e1) /\ Record(e2)
  BY PacketModest, ModestRecord
<1>3. e2.socket = d.socket
  BY DEF Record, Device!append_a2r_packet
<1> HIDE DEF e1, e2
<1>4. Mute(e1, f1) /\ Mute(e2, f2) /\ Record(f1) /\ Record(f2)
  BY <1>2, SocketsMute, ModestRecord
<1>5. f2.socket = d.socket
  BY <1>2, <1>3 DEF Record, Device!ReplyMsg
<1> HIDE DEF f1, f2
<1>6. Mute(f1, g1) /\ Mute(f2, g2) /\ Record(g2)
  BY <1>4, MuteWithin, ModestRecord
<1>7. g2.socket = d.socket
  BY <1>4, <1>5 DEF Record
<1> HIDE DEF g1, g2
<1>8. Mute(g2, Device!SetEosFlag(g2, i, "SENT_EOS_TO_RPI"))
  BY <1>6, <1>7, SetEosFlagMute
<1>9. QED
  BY <1>1, <1>2, <1>4, <1>6, <1>8, ModestJoins
\* or waits in the send queue.
LEMMA WaitMute ==
  ASSUME NEW d, Record(d), NEW r, NEW i
  PROVE  Mute(d, Device!Wait(d, r, i))
<1> DEFINE e == Device!ReplyMsg(d, r, "held")
           f == [e EXCEPT !.socket[i].pending_write = r]
           u == Device!add_to_send_queue(f, i)
<1>1. Device!Wait(d, r, i) = u
  BY Zenon DEF Device!Wait
<1>2. Mute(d, e) /\ Record(e)
  BY SocketsMute, ModestRecord
<1> HIDE DEF e
<1>3. Mute(e, f) /\ Record(f)
  BY <1>2, MuteWithin, ModestRecord
<1> HIDE DEF f
<1>4. Mute(f, u)
  BY <1>3, SocketsMute
<1>5. QED
  BY <1>1, <1>2, <1>3, <1>4, ModestJoins

\* Reads and writes of the applications (handle_app_read, handle_app_write, handle_app_eos).
LEMMA AppsModest ==
  ASSUME NEW d, Record(d), NEW r, NEW i \in DOMAIN d.socket
  PROVE  /\ Modest(d, Device!handle_app_read(d, r, i)) /\ Modest(d, Device!handle_app_write(d, r, i))
         /\ Modest(d, Device!handle_app_eos(d, r, i))
         /\ \A x : x # "idle" => Modest(d, Device!close_socket(Device!ReplyMsg(d, r, x), i, TRUE))
<1> DEFINE s == d.socket[i]
           free == s.pending_connect = NoOne /\ s.pending_read = NoOne
           short == s.rq # <<>> /\ r.op = "SHORT"
           x == Device!close_socket(Device!ReplyMsg(d, r, "RESET"), i, TRUE)
           h == Device!ReplyMsg(d, r, "held")
           w == [h EXCEPT !.socket[i].pending_read = r]
           e == Device!ReplyData(d, r, i, Head(s.rq))
           f == [e EXCEPT !.socket[i].rq = Tail(@)]
           g == [d EXCEPT !.socket[i].flags = @ \union {"RCVD_EOS_FROM_APP"}]
<1>1. \A y : y # "idle" => Modest(d, Device!close_socket(Device!ReplyMsg(d, r, y), i, TRUE))
  <2> SUFFICES ASSUME NEW y, y # "idle" PROVE Modest(d, Device!close_socket(Device!ReplyMsg(d, r, y), i, TRUE))
    OBVIOUS
  <2> DEFINE v == Device!ReplyMsg(d, r, y)
  <2>1. Mute(d, v) /\ Record(v)
    BY SocketsMute, ModestRecord
  <2>2. i \in DOMAIN v.socket
    BY DEF Record, Device!ReplyMsg
  <2> HIDE DEF v
  <2>3. Modest(v, Device!close_socket(v, i, TRUE))
    BY <2>1, <2>2, CloseModest
  <2>4. Modest(d, Device!close_socket(v, i, TRUE))
    BY <2>1, <2>3, ModestJoins
  <2>5. QED
    BY <2>4, Zenon DEF v
<1>2. Modest(d, x)
  BY <1>1
<1>3. Mute(d, h) /\ Record(h) /\ Mute(d, e) /\ Record(e)
  BY SocketsMute, RepliesMute, ModestRecord
<1>4. Mute(d, g) /\ Record(g)
  BY MuteWithin, ModestRecord
<1>5. i \in DOMAIN g.socket
  BY DEF Record
<1>6. Modest(d, Device!handle_app_read(d, r, i))
  <2> DEFINE u == Device!handle_app_read(d, r, i)
  <2>1. u = x \/ u = f \/ u = Device!ReplyEos(d, r, i) \/ u = w \/ u = d
    <3>1. CASE ~free \/ short
      BY <3>1, Zenon DEF Device!handle_app_read
    <3>2. CASE free /\ ~short /\ s.rq # <<>> /\ r.op = "READ"
      BY <3>2 DEF Device!handle_app_read
    <3>3. CASE free /\ ~short /\ s.rq = <<>> /\ "RCVD_EOS_FROM_RPI" \in s.flags
      BY <3>3 DEF Device!handle_app_read
    <3>4. CASE free /\ ~short /\ ~(s.rq # <<>> /\ r.op = "READ") /\ ~(s.rq = <<>> /\ "RCVD_EOS_FROM_RPI" \in s.flags)
      BY <3>4 DEF Device!handle_app_read
    <3>5. QED
      BY <3>1, <3>2, <3>3, <3>4, Zenon
  <2> HIDE DEF u, x, h, e
  <2>2. Mute(h, w) /\ Mute(e, f)
    BY <1>3, MuteWithin
  <2>3. Modest(d, w) /\ Modest(d, f)
    BY <1>3, <2>2, ModestJoins
  <2>4. Modest(d, Device!ReplyEos(d, r, i)) /\ Modest(d, d)
    BY RepliesMute, MuteFields, ModestJoins
  <2> HIDE DEF w, f
  <2>5. Modest(d, u)
    BY <1>2, <2>1, <2>3, <2>4, Zenon
  <2>6. QED
    BY <2>5 DEF u
<1>7. Modest(d, Device!handle_app_write(d, r, i))
  <2> DEFINE u == Device!handle_app_write(d, r, i)
             may == Device!MayWrite(d.socket[i])
  <2>1. u = x \/ u = Device!SendData(d, r, i) \/ u = Device!Wait(d, r, i)
    <3>1. CASE ~may
      BY <3>1, Zenon DEF Device!handle_app_write
    <3>2. CASE may /\ Device!CanSend(d)
      BY <3>2 DEF Device!handle_app_write
    <3>3. CASE may /\ ~Device!CanSend(d)
      BY <3>3 DEF Device!handle_app_write
    <3>4. QED
      BY <3>1, <3>2, <3>3, Zenon
  <2> HIDE DEF u, x
  <2>2. Modest(d, Device!SendData(d, r, i)) /\ Modest(d, Device!Wait(d, r, i))
    BY SendsModest, WaitMute, ModestJoins
  <2>3. Modest(d, u)
    BY <1>2, <2>1, <2>2, Zenon
  <2>4. QED
    BY <2>3 DEF u
<1>8. Modest(d, Device!handle_app_eos(d, r, i))
  <2> DEFINE u == Device!handle_app_eos(d, r, i)
             may == Device!MayWrite(d.socket[i])
  <2>1. u = x \/ u = Device!SendEos(g, r, i) \/ u = Device!Wait(g, r, i)
    <3>1. CASE ~may
      BY <3>1, Zenon DEF Device!handle_app_eos
    <3>2. CASE may /\ Device!CanSend(d)
      BY <3>2 DEF Device!handle_app_eos
    <3>3. CASE may /\ ~Device!CanSend(d)
      BY <3>3 DEF Device!handle_app_eos
    <3>4. QED
      BY <3>1, <3>2, <3>3, Zenon
  <2> HIDE DEF u, x, g
  <2>2. Modest(g, Device!SendEos(g, r, i)) /\ Mute(g, Device!Wait(g, r, i))
    BY <1>4, <1>5, SendsModest, WaitMute
  <2>3. Modest(d, Device!SendEos(g, r, i)) /\ Modest(d, Device!Wait(g, r, i))
    BY <1>4, <2>2, ModestJoins
  <2>4. Modest(d, u)
    BY <1>2, <2>1, <2>3, Zenon
  <2>5. QED
    BY <2>4 DEF u
<1>9. QED
  BY <1>1, <1>6, <1>7, <1>8
\* A request, but for a CONNECT that opens a socket (handle_app_request).
LEMMA RequestModest ==
  ASSUME NEW d, Record(d), NEW r \in Requests
  PROVE  \/ Modest(d, Device!handle_app_request(d, r))
         \/ r \in Sessions /\ Device!handle_app_request(d, r) = Device!handle_app_connect(d, r)
<1> DEFINE open == Device!SocketsOf(d, r.key)
           i == CHOOSE j \in open : TRUE
           u == Device!handle_app_request(d, r)
           shut == open = {} \/ Device!Closed(d.socket[i])
<1>1. open \subseteq DOMAIN d.socket
  BY DEF Device!SocketsOf
<1>2. /\ r.op \in {"CONNECT", "READ", "SHORT", "WRITE", "EOS", "RESET"}
      /\ r.op = "CONNECT" => r \in Sessions
  BY RequestKinds DEF Sessions, Ops
<1>3. \A x : x # "idle" => Modest(d, Device!ReplyMsg(d, r, x))
  BY SocketsMute, ModestJoins
<1>4. CASE r.op = "CONNECT"
  <2>1. u = Device!handle_app_connect(d, r) \/ u = Device!ReplyMsg(d, r, "IN_USE")
    BY <1>4, Zenon DEF Device!handle_app_request
  <2> HIDE DEF u
  <2>2. QED
    BY <1>2, <1>3, <1>4, <2>1 DEF u
<1>5. CASE r.op # "CONNECT" /\ shut
  <2>1. u = Device!ReplyMsg(d, r, "OK") \/ u = Device!ReplyMsg(d, r, "RESET")
    BY <1>5, Zenon DEF Device!handle_app_request
  <2> HIDE DEF u
  <2>2. QED
    BY <1>3, <2>1 DEF u
<1>6. CASE r.op # "CONNECT" /\ ~shut
  <2>1. i \in DOMAIN d.socket
    <3>1. i \in open
      BY <1>6
    <3> HIDE DEF i, open
    <3>2. QED
      BY <1>1, <3>1
  <2>2. \/ u = Device!handle_app_read(d, r, i) \/ u = Device!handle_app_write(d, r, i)
        \/ u = Device!handle_app_eos(d, r, i) \/ u = Device!close_socket(Device!ReplyMsg(d, r, "OK"), i, TRUE)
    <3>1. CASE r.op \in {"READ", "SHORT"}
      BY <1>6, <3>1 DEF Device!handle_app_request
    <3>2. CASE r.op = "WRITE"
      BY <1>6, <3>2 DEF Device!handle_app_request
    <3>3. CASE r.op = "EOS"
      BY <1>6, <3>3 DEF Device!handle_app_request
    <3>4. CASE r.op = "RESET"
      BY <1>6, <3>4 DEF Device!handle_app_request
    <3>5. QED
      BY <1>2, <1>6, <3>1, <3>2, <3>3, <3>4
  <2> HIDE DEF i, u
  <2>3. /\ Modest(d, Device!handle_app_read(d, r, i)) /\ Modest(d, Device!handle_app_write(d, r, i))
        /\ Modest(d, Device!handle_app_eos(d, r, i))
        /\ Modest(d, Device!close_socket(Device!ReplyMsg(d, r, "OK"), i, TRUE))
    BY <2>1, AppsModest
  <2>4. QED
    BY <2>2, <2>3, Zenon DEF u
<1>7. QED
  BY <1>4, <1>5, <1>6

\* A packet of the Raspberry Pi (handle_r2a_packet).
LEMMA PacketsModest ==
  ASSUME NEW d, Record(d), NEW p
  PROVE  p.type \in {"CONNECT_RESPONSE", "DATA", "EOS", "RESET"} => Modest(d, Device!handle_r2a_packet(d, p))
<1> DEFINE i == p.id
           u == Device!handle_r2a_packet(d, p)
<1>0. Modest(d, d)
  BY MuteFields, ModestJoins
<1>1. CASE i \in DOMAIN d.socket
  <2>1. Modest(d, Device!handle_pkt_connect_response(d, i, p.data.number))
    <3> DEFINE r == d.socket[i].pending_connect
               e == [d EXCEPT !.socket[i].pending_connect = NoOne]
               ok == Device!ReplyMsg(e, r, "OK")
               no == Device!ReplyMsg(e, r, "UNKNOWN")
               v == Device!handle_pkt_connect_response(d, i, p.data.number)
    <3>1. v = d \/ v = ok \/ v = Device!close_socket(no, i, FALSE)
      <4>1. CASE r = NoOne
        BY <4>1, Zenon DEF Device!handle_pkt_connect_response
      <4>2. CASE r # NoOne /\ p.data.number = 0
        BY <4>2 DEF Device!handle_pkt_connect_response
      <4>3. CASE r # NoOne /\ p.data.number # 0
        BY <4>3 DEF Device!handle_pkt_connect_response
      <4>4. QED
        BY <4>1, <4>2, <4>3, Zenon
    <3>2. Mute(d, e) /\ Record(e)
      BY MuteWithin, ModestRecord
    <3>3. i \in DOMAIN e.socket
      BY <1>1 DEF Record
    <3> HIDE DEF e, r, v
    <3>4. Mute(e, ok) /\ Mute(e, no) /\ Record(no)
      BY <3>2, SocketsMute, ModestRecord
    <3>5. i \in DOMAIN no.socket
      BY <3>2, <3>3 DEF Record, Device!ReplyMsg
    <3> HIDE DEF ok, no
    <3>6. Mute(no, Device!close_socket(no, i, FALSE))
      BY <3>4, <3>5, CloseModest
    <3>7. Modest(d, ok) /\ Modest(d, Device!close_socket(no, i, FALSE))
      BY <3>2, <3>4, <3>6, ModestJoins
    <3>8. QED
      BY <1>0, <3>1, <3>7, Zenon DEF v
  <2>2. Modest(d, Device!handle_pkt_data(d, i, p.data))
    <3> DEFINE r == d.socket[i].pending_read
               e == Device!ReplyData(d, r, i, p.data)
               f == [e EXCEPT !.socket[i].pending_read = NoOne]
               g == [d EXCEPT !.socket[i].rq = Append(@, p.data)]
               v == Device!handle_pkt_data(d, i, p.data)
    <3>1. v = g \/ v = Device!close_socket(d, i, TRUE) \/ v = f
      <4>1. CASE r = NoOne
        BY <4>1, Zenon DEF Device!handle_pkt_data
      <4>2. CASE r # NoOne /\ r.op = "SHORT"
        BY <4>2 DEF Device!handle_pkt_data
      <4>3. CASE r # NoOne /\ r.op # "SHORT"
        BY <4>3 DEF Device!handle_pkt_data
      <4>4. QED
        BY <4>1, <4>2, <4>3, Zenon
    <3>2. Mute(d, g) /\ Mute(d, e) /\ Record(e) /\ Modest(d, Device!close_socket(d, i, TRUE))
      BY <1>1, MuteWithin, RepliesMute, CloseModest, ModestRecord
    <3> HIDE DEF e, r, v, g
    <3>3. Mute(e, f)
      BY <3>2, MuteWithin
    <3> HIDE DEF f
    <3>4. Modest(d, g) /\ Modest(d, f)
      BY <3>2, <3>3, ModestJoins
    <3>5. QED
      BY <3>1, <3>2, <3>4, Zenon DEF v
  <2>3. Modest(d, Device!handle_pkt_eos(d, i))
    <3> DEFINE r == d.socket[i].pending_read
               f == [d EXCEPT !.socket[i].flags = @ \union {"RCVD_EOS_FROM_RPI"}]
               e == [f EXCEPT !.socket[i].pending_read = NoOne]
               v == Device!handle_pkt_eos(d, i)
    <3>1. v = IF r = NoOne THEN e ELSE Device!ReplyEos(e, r, i)
      <4>1. [d EXCEPT !.socket[i].flags = @ \union {"RCVD_EOS_FROM_RPI"},
                      !.socket[i].pending_read = NoOne] = e
        BY Zenon
      <4>2. QED
        BY <4>1, Zenon DEF Device!handle_pkt_eos
    <3>2. Mute(d, f) /\ Record(f)
      BY MuteWithin, ModestRecord
    <3>3. i \in DOMAIN f.socket
      BY <1>1 DEF Record
    <3> HIDE DEF f, v, r
    <3>4. Mute(f, e) /\ Record(e)
      BY <3>2, MuteWithin, ModestRecord
    <3>5. i \in DOMAIN e.socket
      BY <3>2, <3>3 DEF Record
    <3> HIDE DEF e
    <3>6. Mute(e, Device!ReplyEos(e, r, i))
      BY <3>4, <3>5, RepliesMute
    <3>7. Modest(d, e) /\ Modest(d, Device!ReplyEos(e, r, i))
      BY <3>2, <3>4, <3>6, ModestJoins
    <3>8. QED
      BY <3>1, <3>7, Zenon DEF v
  <2>4. Modest(d, Device!close_socket(d, i, FALSE))
    BY <1>1, CloseModest, ModestJoins
  <2>5. ASSUME p.type \in {"CONNECT_RESPONSE", "DATA", "EOS", "RESET"}
        PROVE  \/ u = d \/ u = Device!close_socket(d, i, FALSE)
               \/ u = Device!handle_pkt_connect_response(d, i, p.data.number)
               \/ u = Device!handle_pkt_data(d, i, p.data) \/ u = Device!handle_pkt_eos(d, i)
    <3>1. CASE p.type = "RESET"
      BY <1>1, <3>1 DEF Device!handle_r2a_packet
    <3>2. CASE p.type # "RESET" /\ Device!Closed(d.socket[i])
      BY <1>1, <3>2 DEF Device!handle_r2a_packet
    <3>3. CASE ~Device!Closed(d.socket[i]) /\ p.type = "CONNECT_RESPONSE"
      BY <1>1, <3>3 DEF Device!handle_r2a_packet
    <3>4. CASE ~Device!Closed(d.socket[i]) /\ p.type = "DATA"
      BY <1>1, <3>4 DEF Device!handle_r2a_packet
    <3>5. CASE ~Device!Closed(d.socket[i]) /\ p.type = "EOS"
      BY <1>1, <3>5 DEF Device!handle_r2a_packet
    <3>6. QED
      BY <2>5, <3>1, <3>2, <3>3, <3>4, <3>5
  <2> HIDE DEF u
  <2>6. QED
    BY <1>0, <2>1, <2>2, <2>3, <2>4, <2>5, Zenon DEF u
<1>2. CASE i \notin DOMAIN d.socket
  BY <1>0, <1>2 DEF Device!handle_r2a_packet
<1>3. QED
  BY <1>1, <1>2
\* What waits is sent (handle_room_in_a2r).
LEMMA RoomModest ==
  ASSUME NEW d, Record(d), Head(d.send_queue) \in DOMAIN d.socket
  PROVE  Modest(d, Device!handle_room_in_a2r(d))
<1> DEFINE i == Head(d.send_queue)
           s == d.socket[i]
           e == Device!remove_from_send_queue(d, i)
           w == s.pending_write
           f == [e EXCEPT !.socket[i].pending_write = NoOne]
           c == Device!append_a2r_packet(e, "CONNECT", i, Device!Item(s.session, 0))
           x == Device!append_a2r_packet(e, "RESET", i, Device!Nothing)
           u == Device!handle_room_in_a2r(d)
<1>1. \/ u = c \/ u = Device!SendData(f, w, i) \/ u = Device!SendEos(f, w, i)
      \/ u = Device!delete_socket(x, i) \/ u = e
  BY DEF Device!handle_room_in_a2r
<1>2. Mute(d, e) /\ Record(e) /\ e.socket = d.socket
  BY SocketsMute, ModestRecord
<1> HIDE DEF e, u
<1>3. /\ Modest(e, c) /\ Modest(e, x) /\ Record(x) /\ Mute(e, f) /\ Record(f)
  BY <1>2, PacketModest, MuteWithin, ModestRecord
<1>4. i \in DOMAIN f.socket
  BY <1>2 DEF Record
<1> HIDE DEF c, x, f
<1>5. /\ Mute(x, Device!delete_socket(x, i))
      /\ Modest(f, Device!SendData(f, w, i)) /\ Modest(f, Device!SendEos(f, w, i))
  BY <1>3, <1>4, SocketsMute, SendsModest
<1>6. /\ Modest(d, c) /\ Modest(d, e) /\ Modest(e, Device!delete_socket(x, i))
      /\ Modest(e, Device!SendData(f, w, i)) /\ Modest(e, Device!SendEos(f, w, i))
  BY <1>2, <1>3, <1>5, ModestJoins
<1>7. /\ Modest(d, Device!delete_socket(x, i))
      /\ Modest(d, Device!SendData(f, w, i)) /\ Modest(d, Device!SendEos(f, w, i))
  BY <1>2, <1>6, ModestJoins
<1>8. QED
  BY <1>1, <1>6, <1>7, Zenon DEF u

\* handle_app_connect takes the next id, when no socket has one as high (sockets.c:40).
LEMMA NextIdTaken ==
  ASSUME NEW d, Typed(d), NEW k \in Nat, k < NumIds, d.next_stream_id = (k % NumIds) + 1,
         DOMAIN d.socket \subseteq 1..k
  PROVE  Device!allocate_stream_id(d) = k + 1
<1> DEFINE Nth(m) == ((d.next_stream_id + m - 1) % NumIds) + 1
           First(m) == /\ Nth(m) \notin DOMAIN d.socket
                       /\ \A j \in 0..(m - 1) : Nth(j) \in DOMAIN d.socket
<1>1. NumIds \in Nat \ {0}
  BY IdAssumption DEF IdAssumption
<1>2. k % NumIds = k
  BY <1>1, Wraps
<1>3. Nth(0) = k + 1
  <2>1. d.next_stream_id = k + 1
    BY <1>2
  <2>2. d.next_stream_id + 0 - 1 = k
    BY <2>1
  <2>3. QED
    BY <1>2, <2>2
<1>4. k + 1 \notin DOMAIN d.socket
  <2>1. k + 1 \notin 1..k
    OBVIOUS
  <2>2. QED
    BY <2>1
<1> HIDE DEF Nth
<1>5. 0 \in 0..(NumIds - 1) /\ First(0)
  <2>1. 0 \in 0..(NumIds - 1) /\ 0..(0 - 1) = {}
    BY <1>1
  <2>2. QED
    BY <1>3, <1>4, <2>1
<1>6. ASSUME NEW m \in 0..(NumIds - 1), First(m) PROVE m = 0
  <2>1. CASE m # 0
    <3>1. 0 \in 0..(m - 1)
      BY <1>1, <2>1
    <3>2. QED
      BY <1>3, <1>4, <1>6, <3>1
  <2>2. QED
    BY <2>1
<1> HIDE DEF First
<1> DEFINE c == CHOOSE m \in 0..(NumIds - 1) : First(m)
<1>7. c \in 0..(NumIds - 1) /\ First(c)
  BY <1>5
<1> HIDE DEF c
<1>8. c = 0
  BY <1>6, <1>7
<1>9. Device!allocate_stream_id(d) = Nth(c)
  BY Zenon DEF Device!allocate_stream_id, Nth, First, c
<1>10. QED
  BY <1>3, <1>8, <1>9
\* What handle_app_connect leaves.
OpensAt(d, e, r, i) ==
  /\ e.next_stream_id = (i % NumIds) + 1 /\ DOMAIN e.socket = DOMAIN d.socket \union {i}
  /\ e.io = [d.io EXCEPT ![r] = "held"]
  /\ e.a2r = d.a2r \/ \E m : m.id = i /\ e.a2r = Append(d.a2r, m)
LEMMA ConnectOpens ==
  ASSUME NEW d, Record(d), NEW r \in Requests
  PROVE  OpensAt(d, Device!handle_app_connect(d, r), r, Device!allocate_stream_id(d))
<1> DEFINE i == Device!allocate_stream_id(d)
           s == [key |-> r.key, session |-> r, pending_connect |-> r, pending_read |-> NoOne,
                 pending_write |-> NoOne, flags |-> {}, rq |-> <<>>]
           c == Device!ReplyMsg(d, r, "held")
           e == [c EXCEPT !.socket = Device!Extend(@, i, s), !.next_stream_id = (i % NumIds) + 1]
           g == Device!Extend(d.socket, i, s)
           nx == (i % NumIds) + 1
           io1 == [d.io EXCEPT ![r] = "held"]
           m == Device!Pkt("CONNECT", i, Device!Item(r, 0))
           a == Append(d.a2r, m)
           sq == Append(d.send_queue, i)
           p == Device!append_a2r_packet(e, "CONNECT", i, Device!Item(r, 0))
           q == Device!add_to_send_queue(e, i)
           u == Device!handle_app_connect(d, r)
           R(b, x) == [socket |-> g, send_queue |-> b, next_stream_id |-> nx,
                       io |-> io1, read |-> d.read, eosRead |-> d.eosRead, written |-> d.written,
                       eosWritten |-> d.eosWritten, a2r |-> x]
<1>1. u = p \/ u = q
  BY DEF Device!handle_app_connect
<1>2. DOMAIN g = DOMAIN d.socket \union {i} /\ m.id = i
  BY DEF Device!Extend, Device!Pkt
<1>3. e = R(d.send_queue, d.a2r)
  <2>1. /\ c = [socket |-> d.socket, send_queue |-> d.send_queue, next_stream_id |-> d.next_stream_id,
                io |-> io1, read |-> d.read, eosRead |-> d.eosRead, written |-> d.written,
                eosWritten |-> d.eosWritten, a2r |-> d.a2r]
    <3> HIDE DEF i, s, g, m, a, sq, p, q, u
    <3>1. c = [d EXCEPT !.io = io1]
      BY Zenon DEF Device!ReplyMsg, Record
    <3> HIDE DEF c, io1
    <3>2. QED
      BY <3>1 DEF Record
  <2>2. e = [c EXCEPT !.socket = g, !.next_stream_id = nx]
    <3>1. c.socket = d.socket
      <4> HIDE DEF c
      <4>1. QED
        BY <2>1
    <3> HIDE DEF i, s, c
    <3>2. QED
      BY <3>1
  <2> HIDE DEF c, g, nx, e, io1
  <2>3. QED
    BY <2>1, <2>2
<1> HIDE DEF e, g, nx, io1, i, s, c, u
<1>4. p = R(d.send_queue, a) /\ q = R(sq, d.a2r)
  <2>1. p = [e EXCEPT !.a2r = Append(@, m)] /\ q = [e EXCEPT !.send_queue = Append(@, i)]
    BY DEF Device!append_a2r_packet, Device!add_to_send_queue
  <2> HIDE DEF m, p, q
  <2>2. QED
    BY <1>3, <2>1
<1> HIDE DEF p, q, m, a, sq
<1>5. /\ p.next_stream_id = nx /\ p.socket = g /\ p.io = io1 /\ p.a2r = a
      /\ q.next_stream_id = nx /\ q.socket = g /\ q.io = io1 /\ q.a2r = d.a2r
  BY <1>4
<1>6. OpensAt(d, p, r, i) /\ OpensAt(d, q, r, i)
  BY <1>2, <1>5 DEF OpensAt, nx, io1, a
<1>7. QED
  BY <1>1, <1>6 DEF u, i

-----------------------------------------------------------------------------
(* The channels that the thread has: only a CONNECT adds one, with its id. *)

ThreadRecord(p) ==
  p = [channels |-> p.channels, pi_queue |-> p.pi_queue, services |-> p.services,
       associations |-> p.associations, cc_next_stream_id |-> p.cc_next_stream_id,
       conn |-> p.conn, toCli |-> p.toCli, fromCli |-> p.fromCli]
Bounded(p, q) == ThreadRecord(q) /\ DOMAIN q.channels \subseteq DOMAIN p.channels

\* One handler after another.
LEMMA BoundedJoins ==
  ASSUME NEW p, NEW q, NEW s, Bounded(p, q), Bounded(q, s)
  PROVE  Bounded(p, s)
  BY DEF Bounded
\* The fields that the thread writes.
LEMMA BoundedFields ==
  ASSUME NEW p, ThreadRecord(p), NEW x
  PROVE  /\ Bounded(p, p)
         /\ DOMAIN x \subseteq DOMAIN p.channels => Bounded(p, [p EXCEPT !.channels = x])
         /\ Bounded(p, [p EXCEPT !.pi_queue = x]) /\ Bounded(p, [p EXCEPT !.services = x])
         /\ Bounded(p, [p EXCEPT !.associations = x]) /\ Bounded(p, [p EXCEPT !.cc_next_stream_id = x])
         /\ Bounded(p, [p EXCEPT !.conn = x]) /\ Bounded(p, [p EXCEPT !.toCli = x])
         /\ Bounded(p, [p EXCEPT !.fromCli = x])
<1> DEFINE R(ch, pq, sv, as, nx, co, tc, fc) ==
             [channels |-> ch, pi_queue |-> pq, services |-> sv, associations |-> as,
              cc_next_stream_id |-> nx, conn |-> co, toCli |-> tc, fromCli |-> fc]
<1>1. ASSUME NEW ch, NEW pq, NEW sv, NEW as, NEW nx, NEW co, NEW tc, NEW fc,
             DOMAIN ch \subseteq DOMAIN p.channels
      PROVE  Bounded(p, R(ch, pq, sv, as, nx, co, tc, fc))
  <2> DEFINE q == R(ch, pq, sv, as, nx, co, tc, fc)
  <2>1. /\ q.channels = ch /\ q.pi_queue = pq /\ q.services = sv /\ q.associations = as
        /\ q.cc_next_stream_id = nx /\ q.conn = co /\ q.toCli = tc /\ q.fromCli = fc
    OBVIOUS
  <2>2. ThreadRecord(q)
    BY <2>1 DEF ThreadRecord
  <2> HIDE DEF q
  <2>3. Bounded(p, q)
    BY <1>1, <2>1, <2>2 DEF Bounded
  <2>4. QED
    BY <2>3 DEF q
<1> DEFINE u1 == [p EXCEPT !.channels = x]
           u2 == [p EXCEPT !.pi_queue = x]
           u3 == [p EXCEPT !.services = x]
           u4 == [p EXCEPT !.associations = x]
           u5 == [p EXCEPT !.cc_next_stream_id = x]
           u6 == [p EXCEPT !.conn = x]
           u7 == [p EXCEPT !.toCli = x]
           u8 == [p EXCEPT !.fromCli = x]
<1>2. /\ p = R(p.channels, p.pi_queue, p.services, p.associations, p.cc_next_stream_id, p.conn, p.toCli, p.fromCli)
      /\ u1 = R(x, p.pi_queue, p.services, p.associations, p.cc_next_stream_id, p.conn, p.toCli, p.fromCli)
      /\ u2 = R(p.channels, x, p.services, p.associations, p.cc_next_stream_id, p.conn, p.toCli, p.fromCli)
      /\ u3 = R(p.channels, p.pi_queue, x, p.associations, p.cc_next_stream_id, p.conn, p.toCli, p.fromCli)
      /\ u4 = R(p.channels, p.pi_queue, p.services, x, p.cc_next_stream_id, p.conn, p.toCli, p.fromCli)
      /\ u5 = R(p.channels, p.pi_queue, p.services, p.associations, x, p.conn, p.toCli, p.fromCli)
      /\ u6 = R(p.channels, p.pi_queue, p.services, p.associations, p.cc_next_stream_id, x, p.toCli, p.fromCli)
      /\ u7 = R(p.channels, p.pi_queue, p.services, p.associations, p.cc_next_stream_id, p.conn, x, p.fromCli)
      /\ u8 = R(p.channels, p.pi_queue, p.services, p.associations, p.cc_next_stream_id, p.conn, p.toCli, x)
  BY DEF ThreadRecord
<1> HIDE DEF R, u1, u2, u3, u4, u5, u6, u7, u8
<1>3. /\ Bounded(p, p) /\ Bounded(p, u2) /\ Bounded(p, u3) /\ Bounded(p, u4) /\ Bounded(p, u5)
      /\ Bounded(p, u6) /\ Bounded(p, u7) /\ Bounded(p, u8)
      /\ DOMAIN x \subseteq DOMAIN p.channels => Bounded(p, u1)
  BY <1>1, <1>2
<1>4. QED
  BY <1>3, Zenon DEF u1, u2, u3, u4, u5, u6, u7, u8
\* The places within them.
LEMMA BoundedWithin ==
  ASSUME NEW p, ThreadRecord(p), NEW i, NEW x
  PROVE  /\ Bounded(p, [p EXCEPT !.associations[i] = x]) /\ Bounded(p, [p EXCEPT !.associations[i] = Append(@, x)])
         /\ Bounded(p, [p EXCEPT !.cc_next_stream_id[i] = x])
         /\ Bounded(p, [p EXCEPT !.cc_next_stream_id[i] = @ + 1])
         /\ Bounded(p, [p EXCEPT !.conn[i] = x]) /\ Bounded(p, [p EXCEPT !.toCli[i] = x])
         /\ Bounded(p, [p EXCEPT !.fromCli[i] = x])
         /\ Bounded(p, [p EXCEPT !.channels[i].packet_queue = x])
         /\ Bounded(p, [p EXCEPT !.channels[i].association = x])
         /\ Bounded(p, [p EXCEPT !.channels[i].stream_id = x])
         /\ Bounded(p, [p EXCEPT !.channels[i].got_eos_from_ami = x])
         /\ Bounded(p, [p EXCEPT !.channels[i].got_eos_from_client = x])
<1> DEFINE g1 == [p.channels EXCEPT ![i].packet_queue = x]
           g2 == [p.channels EXCEPT ![i].association = x]
           g3 == [p.channels EXCEPT ![i].stream_id = x]
           g4 == [p.channels EXCEPT ![i].got_eos_from_ami = x]
           g5 == [p.channels EXCEPT ![i].got_eos_from_client = x]
<1>1. /\ [p EXCEPT !.associations[i] = x] = [p EXCEPT !.associations = [p.associations EXCEPT ![i] = x]]
      /\ [p EXCEPT !.associations[i] = Append(@, x)] = [p EXCEPT !.associations = [p.associations EXCEPT ![i] = Append(@, x)]]
      /\ [p EXCEPT !.cc_next_stream_id[i] = x] = [p EXCEPT !.cc_next_stream_id = [p.cc_next_stream_id EXCEPT ![i] = x]]
      /\ [p EXCEPT !.cc_next_stream_id[i] = @ + 1] =
           [p EXCEPT !.cc_next_stream_id = [p.cc_next_stream_id EXCEPT ![i] = @ + 1]]
      /\ [p EXCEPT !.conn[i] = x] = [p EXCEPT !.conn = [p.conn EXCEPT ![i] = x]]
      /\ [p EXCEPT !.toCli[i] = x] = [p EXCEPT !.toCli = [p.toCli EXCEPT ![i] = x]]
      /\ [p EXCEPT !.fromCli[i] = x] = [p EXCEPT !.fromCli = [p.fromCli EXCEPT ![i] = x]]
      /\ [p EXCEPT !.channels[i].packet_queue = x] = [p EXCEPT !.channels = g1]
      /\ [p EXCEPT !.channels[i].association = x] = [p EXCEPT !.channels = g2]
      /\ [p EXCEPT !.channels[i].stream_id = x] = [p EXCEPT !.channels = g3]
      /\ [p EXCEPT !.channels[i].got_eos_from_ami = x] = [p EXCEPT !.channels = g4]
      /\ [p EXCEPT !.channels[i].got_eos_from_client = x] = [p EXCEPT !.channels = g5]
  BY Zenon DEF ThreadRecord
<1>2. /\ \A f : DOMAIN f = DOMAIN p.channels => Bounded(p, [p EXCEPT !.channels = f])
      /\ \A f : Bounded(p, [p EXCEPT !.associations = f]) /\ Bounded(p, [p EXCEPT !.cc_next_stream_id = f])
      /\ \A f : Bounded(p, [p EXCEPT !.conn = f]) /\ Bounded(p, [p EXCEPT !.toCli = f])
      /\ \A f : Bounded(p, [p EXCEPT !.fromCli = f])
  BY BoundedFields
<1>3. /\ DOMAIN g1 = DOMAIN p.channels /\ DOMAIN g2 = DOMAIN p.channels /\ DOMAIN g3 = DOMAIN p.channels
      /\ DOMAIN g4 = DOMAIN p.channels /\ DOMAIN g5 = DOMAIN p.channels
  BY Zenon
<1>4. /\ Bounded(p, [p EXCEPT !.channels = g1]) /\ Bounded(p, [p EXCEPT !.channels = g2])
      /\ Bounded(p, [p EXCEPT !.channels = g3]) /\ Bounded(p, [p EXCEPT !.channels = g4])
      /\ Bounded(p, [p EXCEPT !.channels = g5])
  <2> HIDE DEF g1, g2, g3, g4, g5
  <2>1. QED
    BY <1>2, <1>3, Zenon
<1>5. QED
  BY <1>1, <1>2, <1>4, Zenon

\* A state of the thread that is bounded is one.
LEMMA BoundedRecord ==
  ASSUME NEW p, NEW q, Bounded(p, q)
  PROVE  ThreadRecord(q) /\ DOMAIN q.channels \subseteq DOMAIN p.channels
  BY DEF Bounded
\* The operations of the thread on its tables and connections add no channel.
LEMMA OperationsBounded ==
  ASSUME NEW p, ThreadRecord(p), NEW c, NEW i, NEW m, NEW x
  PROVE  /\ Bounded(p, Thread!create_and_send_msg(p, c, m))
         /\ Bounded(p, Thread!create_and_enqueue_packet(p, i, m, x))
         /\ Bounded(p, Thread!clear_packet_queue(p, i)) /\ Bounded(p, Thread!remove_association(p, i))
         /\ Bounded(p, Thread!remove_channel_if_not_associated_and_empty_pq(p, i))
         /\ Bounded(p, Thread!Fork(p, c))
<1>1. Bounded(p, Thread!create_and_send_msg(p, c, m))
  <2> DEFINE a == [p EXCEPT !.toCli[c] = IF p.conn[c] = "up" THEN Append(@, m) ELSE @]
             b == [a EXCEPT !.conn[c] = Thread!AfterWrites(@, 1)]
  <2>1. Thread!create_and_send_msg(p, c, m) = b
    BY Zenon DEF Thread!create_and_send_msg
  <2>2. Bounded(p, a)
    <3> DEFINE y == IF p.conn[c] = "up" THEN Append(p.toCli[c], m) ELSE p.toCli[c]
    <3>1. a = [p EXCEPT !.toCli[c] = y]
      BY Zenon
    <3> HIDE DEF a, y
    <3>2. QED
      BY <3>1, BoundedWithin
  <2> HIDE DEF a
  <2>3. Bounded(a, b)
    <3> DEFINE y == Thread!AfterWrites(a.conn[c], 1)
    <3>1. b = [a EXCEPT !.conn[c] = y]
      BY Zenon
    <3> HIDE DEF b, y
    <3>2. QED
      BY <2>2, <3>1, BoundedWithin, BoundedRecord
  <2> HIDE DEF b
  <2>4. QED
    BY <2>1, <2>2, <2>3, BoundedJoins
<1>2. Bounded(p, Thread!create_and_enqueue_packet(p, i, m, x))
  <2> DEFINE a == [p EXCEPT !.pi_queue = IF p.channels[i].packet_queue = <<>> THEN Append(@, i) ELSE @]
             b == [a EXCEPT !.channels[i].packet_queue = Append(@, Thread!Pkt(m, i, x))]
  <2>1. Thread!create_and_enqueue_packet(p, i, m, x) = b
    BY Zenon DEF Thread!create_and_enqueue_packet
  <2>2. Bounded(p, a)
    <3> DEFINE y == IF p.channels[i].packet_queue = <<>> THEN Append(p.pi_queue, i) ELSE p.pi_queue
    <3>1. a = [p EXCEPT !.pi_queue = y]
      BY Zenon
    <3> HIDE DEF a, y
    <3>2. QED
      BY <3>1, BoundedFields
  <2> HIDE DEF a
  <2>3. Bounded(a, b)
    <3> DEFINE y == Append(a.channels[i].packet_queue, Thread!Pkt(m, i, x))
    <3>1. b = [a EXCEPT !.channels[i].packet_queue = y]
      BY Zenon
    <3> HIDE DEF b, y
    <3>2. QED
      BY <2>2, <3>1, BoundedWithin, BoundedRecord
  <2> HIDE DEF b
  <2>4. QED
    BY <2>1, <2>2, <2>3, BoundedJoins
<1>3. Bounded(p, Thread!clear_packet_queue(p, i))
  <2> DEFINE a == [p EXCEPT !.pi_queue = Thread!Without(@, i)]
             b == [a EXCEPT !.channels[i].packet_queue = <<>>]
  <2>1. Thread!clear_packet_queue(p, i) = b
    BY Zenon DEF Thread!clear_packet_queue
  <2>2. Bounded(p, a)
    <3> DEFINE y == Thread!Without(p.pi_queue, i)
    <3>1. a = [p EXCEPT !.pi_queue = y]
      BY Zenon
    <3> HIDE DEF a, y
    <3>2. QED
      BY <3>1, BoundedFields
  <2> HIDE DEF a
  <2>3. Bounded(a, b)
    BY <2>2, BoundedWithin, BoundedRecord
  <2> HIDE DEF b
  <2>4. QED
    BY <2>1, <2>2, <2>3, BoundedJoins
<1>4. Bounded(p, Thread!remove_association(p, i))
  <2> DEFINE n == p.channels[i].association
             a == [p EXCEPT !.associations[n] = Thread!Without(@, i)]
             b == [a EXCEPT !.channels[i].association = NoOne]
             u == [b EXCEPT !.channels[i].stream_id = 0]
  <2>1. Thread!remove_association(p, i) = u
    BY Zenon DEF Thread!remove_association
  <2>2. Bounded(p, a)
    <3> DEFINE y == Thread!Without(p.associations[n], i)
    <3>1. a = [p EXCEPT !.associations[n] = y]
      BY Zenon
    <3> HIDE DEF a, y, n
    <3>2. QED
      BY <3>1, BoundedWithin
  <2> HIDE DEF a
  <2>3. Bounded(a, b)
    BY <2>2, BoundedWithin, BoundedRecord
  <2> HIDE DEF b
  <2>4. Bounded(b, u)
    BY <2>3, BoundedWithin, BoundedRecord
  <2> HIDE DEF u
  <2>5. QED
    BY <2>1, <2>2, <2>3, <2>4, BoundedJoins
<1>5. Bounded(p, Thread!remove_channel_if_not_associated_and_empty_pq(p, i))
  <2> DEFINE f == Thread!Drop(p.channels, i)
             q == [p EXCEPT !.channels = f]
  <2>1. Thread!remove_channel_if_not_associated_and_empty_pq(p, i) \in {p, q}
    BY Zenon DEF Thread!remove_channel_if_not_associated_and_empty_pq, ThreadRecord
  <2>2. DOMAIN f \subseteq DOMAIN p.channels
    BY DEF Thread!Drop
  <2> HIDE DEF f
  <2>3. Bounded(p, p) /\ Bounded(p, q)
    BY <2>2, BoundedFields, Zenon
  <2>4. QED
    BY <2>1, <2>3, Zenon
<1>6. Bounded(p, Thread!Fork(p, c))
  <2> DEFINE a == [p EXCEPT !.conn[c] = "up"]
             b == [a EXCEPT !.cc_next_stream_id[c] = 1]
             u == [b EXCEPT !.services = Thread!Extend(@, Name[c], c)]
  <2>1. Thread!Fork(p, c) = u
    BY Zenon DEF Thread!Fork
  <2>2. Bounded(p, a)
    BY BoundedWithin
  <2> HIDE DEF a
  <2>3. Bounded(a, b)
    BY <2>2, BoundedWithin, BoundedRecord
  <2> HIDE DEF b
  <2>4. Bounded(b, u)
    <3> DEFINE y == Thread!Extend(b.services, Name[c], c)
    <3>1. u = [b EXCEPT !.services = y]
      BY Zenon
    <3> HIDE DEF u, y
    <3>2. QED
      BY <2>3, <3>1, BoundedFields, BoundedRecord
  <2> HIDE DEF u
  <2>5. QED
    BY <2>1, <2>2, <2>3, <2>4, BoundedJoins
<1>7. QED
  BY <1>1, <1>2, <1>3, <1>4, <1>5, <1>6

\* All channels go, or those of a connection lose their client.
LEMMA ClosedBounded ==
  ASSUME NEW p \in ThreadStates, NEW c
  PROVE  /\ DOMAIN Thread!close_all_logical_channels(p).channels = {}
         /\ DOMAIN Thread!close_and_remove_connection(p, c).channels = DOMAIN p.channels
<1>1. Thread!close_all_logical_channels(p).channels = <<>>
  BY DEF Thread!close_all_logical_channels, ThreadStates
<1>2. DOMAIN <<>> = {}
  OBVIOUS
<1> DEFINE mine == {i \in DOMAIN p.channels : p.channels[i].association = c}
           f == [i \in DOMAIN p.channels |->
                   IF i \in mine THEN [p.channels[i] EXCEPT !.association = NoOne, !.stream_id = 0,
                                         !.packet_queue = <<Thread!Pkt("RESET", i, Thread!Nothing)>>]
                   ELSE p.channels[i]]
<1>3. Thread!close_and_remove_connection(p, c).channels = f
  BY DEF Thread!close_and_remove_connection, ThreadStates
<1>4. DOMAIN f = DOMAIN p.channels
  OBVIOUS
<1>5. QED
  BY <1>1, <1>2, <1>3, <1>4
\* A channel is opened by its CONNECT.
LEMMA ConnectBounded ==
  ASSUME NEW p, ThreadRecord(p), NEW i, NEW n
  PROVE  LET q == Thread!handle_pkt_connect(p, i, n) IN
         ThreadRecord(q) /\ DOMAIN q.channels \subseteq DOMAIN p.channels \union {i}
<1> DEFINE service == ServiceOf[n.key]
           idle == [association |-> NoOne, stream_id |-> 0, got_eos_from_ami |-> FALSE,
                    got_eos_from_client |-> FALSE, packet_queue |-> <<>>]
           q == [p EXCEPT !.channels = Thread!Extend(@, i, idle)]
           f == Thread!Extend(p.channels, i, idle)
           c == CHOOSE c \in {c \in OnDemand : Name[c] = service} : TRUE
           u == Thread!handle_pkt_connect(p, i, n)
<1>1. \/ u = Thread!Ask(q, p.services[service], i, n) \/ u = Thread!Ask(Thread!Fork(q, c), c, i, n)
      \/ u = Thread!create_and_enqueue_packet(q, i, "CONNECT_RESPONSE", Thread!Result(3))
  BY DEF Thread!handle_pkt_connect
<1>2. ThreadRecord(q) /\ DOMAIN q.channels = DOMAIN p.channels \union {i}
  <2>1. q = [p EXCEPT !.channels = f]
    BY Zenon DEF ThreadRecord
  <2>2. DOMAIN f = DOMAIN p.channels \union {i}
    BY DEF Thread!Extend
  <2> HIDE DEF q, f
  <2>3. /\ q = [channels |-> f, pi_queue |-> p.pi_queue, services |-> p.services,
                associations |-> p.associations, cc_next_stream_id |-> p.cc_next_stream_id,
                conn |-> p.conn, toCli |-> p.toCli, fromCli |-> p.fromCli]
    BY <2>1 DEF ThreadRecord
  <2>4. /\ q.channels = f /\ q.pi_queue = p.pi_queue /\ q.services = p.services
        /\ q.associations = p.associations /\ q.cc_next_stream_id = p.cc_next_stream_id
        /\ q.conn = p.conn /\ q.toCli = p.toCli /\ q.fromCli = p.fromCli
    BY <2>3
  <2>5. QED
    BY <2>2, <2>3, <2>4 DEF ThreadRecord
<1> HIDE DEF q, u, c, idle
<1>3. ASSUME NEW s, ThreadRecord(s), NEW x PROVE Bounded(s, Thread!Ask(s, x, i, n))
  <2> DEFINE sid == s.cc_next_stream_id[x]
             k1 == [s EXCEPT !.channels[i].association = x]
             k2 == [k1 EXCEPT !.channels[i].stream_id = sid]
             k3 == [k2 EXCEPT !.cc_next_stream_id[x] = @ + 1]
             k4 == [k3 EXCEPT !.associations[x] = Append(@, i)]
             m == Thread!Msg("CONNECT", sid, Thread!Item(n, 0))
  <2>1. Thread!Ask(s, x, i, n) = Thread!create_and_send_msg(k4, x, m)
    BY Zenon DEF Thread!Ask
  <2>2. Bounded(s, k1)
    BY <1>3, BoundedWithin
  <2> HIDE DEF k1, sid, m
  <2>3. Bounded(k1, k2)
    BY <2>2, BoundedWithin, BoundedRecord
  <2> HIDE DEF k2
  <2>4. Bounded(k2, k3)
    BY <2>3, BoundedWithin, BoundedRecord
  <2> HIDE DEF k3
  <2>5. Bounded(k3, k4)
    BY <2>4, BoundedWithin, BoundedRecord
  <2> HIDE DEF k4
  <2>6. Bounded(k4, Thread!create_and_send_msg(k4, x, m))
    BY <2>5, OperationsBounded, BoundedRecord
  <2>7. Bounded(s, k4)
    BY <2>2, <2>3, <2>4, <2>5, BoundedJoins
  <2>8. QED
    BY <2>1, <2>6, <2>7, BoundedJoins
<1>4. Bounded(q, Thread!Ask(q, p.services[service], i, n))
  BY <1>2, <1>3
<1>5. Bounded(q, Thread!Ask(Thread!Fork(q, c), c, i, n))
  <2> DEFINE k == Thread!Fork(q, c)
  <2>1. Bounded(q, k) /\ ThreadRecord(k)
    BY <1>2, OperationsBounded, BoundedRecord
  <2> HIDE DEF k
  <2>2. Bounded(k, Thread!Ask(k, c, i, n))
    BY <1>3, <2>1
  <2>3. Bounded(q, Thread!Ask(k, c, i, n))
    BY <2>1, <2>2, BoundedJoins
  <2>4. QED
    BY <2>3 DEF k
<1>6. Bounded(q, Thread!create_and_enqueue_packet(q, i, "CONNECT_RESPONSE", Thread!Result(3)))
  BY <1>2, OperationsBounded
<1>7. Bounded(q, u)
  BY <1>1, <1>4, <1>5, <1>6, Zenon
<1>8. QED
  BY <1>2, <1>7 DEF Bounded, u

\* A packet of the Amiga adds no channel but its own (handle_received_pkt, a314.cc).
LEMMA ReceivedBounded ==
  ASSUME NEW p, ThreadRecord(p), NEW m, m.type \in {"CONNECT", "DATA", "EOS", "RESET"}
  PROVE  DOMAIN Thread!handle_received_pkt(p, m).channels \subseteq DOMAIN p.channels \union {m.id}
<1> DEFINE i == m.id
           c == p.channels[i].association
           Forwards(s, t, x) == Thread!Forward(s, i, t, x)
           f == [p EXCEPT !.channels[i].got_eos_from_ami = TRUE]
           fe == Forwards(f, "EOS", Thread!Nothing)
           z == Thread!clear_packet_queue(p, i)
           zr == Forwards(z, "RESET", Thread!Nothing)
           u == Thread!handle_received_pkt(p, m)
<1>1. Bounded(p, p)
  BY BoundedFields
<1>2. ASSUME NEW s, ThreadRecord(s), NEW t, NEW x PROVE Bounded(s, Forwards(s, t, x))
  BY <1>2, OperationsBounded, Zenon DEF Thread!Forward
<1>3. Bounded(p, f) /\ ThreadRecord(f) /\ Bounded(p, z) /\ ThreadRecord(z)
  BY BoundedWithin, OperationsBounded, BoundedRecord
<1> HIDE DEF Forwards, f, z
<1>4. Bounded(p, Thread!handle_pkt_data(p, i, m.data))
  <2>1. Thread!handle_pkt_data(p, i, m.data) \in {p, Forwards(p, "DATA", m.data)}
    BY Zenon DEF Thread!handle_pkt_data, Forwards
  <2>2. Bounded(p, Forwards(p, "DATA", m.data))
    BY <1>2
  <2>3. QED
    BY <1>1, <2>1, <2>2, Zenon
<1>5. Bounded(p, Thread!handle_pkt_eos(p, i))
  <2>1. \/ Thread!handle_pkt_eos(p, i) = p \/ Thread!handle_pkt_eos(p, i) = fe
        \/ Thread!handle_pkt_eos(p, i) = Thread!remove_association(fe, i)
    <3>1. CASE p.channels[i].association = NoOne \/ p.channels[i].got_eos_from_ami
      BY <3>1, Zenon DEF Thread!handle_pkt_eos
    <3>2. CASE ~(p.channels[i].association = NoOne \/ p.channels[i].got_eos_from_ami)
      BY <3>2 DEF Thread!handle_pkt_eos, Forwards, f
    <3>3. QED
      BY <3>1, <3>2
  <2>2. Bounded(f, fe)
    BY <1>2, <1>3
  <2> HIDE DEF fe
  <2>3. Bounded(p, fe) /\ ThreadRecord(fe)
    BY <1>3, <2>2, BoundedJoins, BoundedRecord
  <2>4. Bounded(fe, Thread!remove_association(fe, i))
    BY <2>3, OperationsBounded
  <2>5. Bounded(p, Thread!remove_association(fe, i))
    BY <2>3, <2>4, BoundedJoins
  <2>6. QED
    BY <1>1, <2>1, <2>3, <2>5, Zenon
<1>6. Bounded(p, Thread!handle_pkt_reset(p, i))
  <2>1. Thread!handle_pkt_reset(p, i) \in {z, Thread!remove_association(zr, i)}
    BY Zenon DEF Thread!handle_pkt_reset, Forwards, z
  <2>2. Bounded(z, zr)
    BY <1>2, <1>3
  <2> HIDE DEF zr
  <2>3. Bounded(p, zr) /\ ThreadRecord(zr)
    BY <1>3, <2>2, BoundedJoins, BoundedRecord
  <2>4. Bounded(zr, Thread!remove_association(zr, i))
    BY <2>3, OperationsBounded
  <2>5. Bounded(p, Thread!remove_association(zr, i))
    BY <2>3, <2>4, BoundedJoins
  <2>6. QED
    BY <1>3, <2>1, <2>5, Zenon
<1> DEFINE q == CASE m.type = "CONNECT" -> Thread!handle_pkt_connect(p, i, m.data.session)
                  [] m.type # "CONNECT" /\ i \notin DOMAIN p.channels -> p
                  [] m.type = "DATA" /\ i \in DOMAIN p.channels -> Thread!handle_pkt_data(p, i, m.data)
                  [] m.type = "EOS" /\ i \in DOMAIN p.channels -> Thread!handle_pkt_eos(p, i)
                  [] m.type = "RESET" /\ i \in DOMAIN p.channels -> Thread!handle_pkt_reset(p, i)
<1>7. u = Thread!remove_channel_if_not_associated_and_empty_pq(q, i)
  BY Zenon DEF Thread!handle_received_pkt
<1>8. \/ q = Thread!handle_pkt_connect(p, i, m.data.session) \/ q = p
      \/ q = Thread!handle_pkt_data(p, i, m.data) \/ q = Thread!handle_pkt_eos(p, i)
      \/ q = Thread!handle_pkt_reset(p, i)
  <2>1. CASE m.type = "CONNECT"
    BY <2>1, Zenon
  <2>2. CASE m.type # "CONNECT" /\ i \notin DOMAIN p.channels
    BY <2>2
  <2>3. CASE m.type = "DATA" /\ i \in DOMAIN p.channels
    BY <2>3
  <2>4. CASE m.type = "EOS" /\ i \in DOMAIN p.channels
    BY <2>4
  <2>5. CASE m.type = "RESET" /\ i \in DOMAIN p.channels
    BY <2>5
  <2>6. QED
    BY <2>1, <2>2, <2>3, <2>4, <2>5
<1> HIDE DEF q, u
<1>9. ThreadRecord(q) /\ DOMAIN q.channels \subseteq DOMAIN p.channels \union {i}
  <2>1. CASE q = Thread!handle_pkt_connect(p, i, m.data.session)
    BY <2>1, ConnectBounded
  <2>2. CASE q # Thread!handle_pkt_connect(p, i, m.data.session)
    <3>1. Bounded(p, q)
      BY <1>1, <1>4, <1>5, <1>6, <1>8, <2>2, Zenon
    <3>2. QED
      BY <3>1 DEF Bounded
  <2>3. QED
    BY <2>1, <2>2
<1>10. Bounded(q, Thread!remove_channel_if_not_associated_and_empty_pq(q, i))
  BY <1>9, OperationsBounded
<1>11. DOMAIN u.channels \subseteq DOMAIN p.channels \union {i}
  BY <1>7, <1>9, <1>10 DEF Bounded
<1>12. QED
  BY <1>11 DEF u
\* A message of a client adds none (handle_received_message, a314.cc).
LEMMA MessageBounded ==
  ASSUME NEW p, ThreadRecord(p), NEW c, NEW m,
         m.type \in {"REGISTER_REQ", "CONNECT_RESPONSE", "DATA", "EOS", "RESET"}
  PROVE  Bounded(p, Thread!handle_received_message(p, c, m))
<1> DEFINE found == Thread!get_associated_channel_by_stream_id(p, c, m.sid)
           i == CHOOSE j \in found : TRUE
           u == Thread!handle_received_message(p, c, m)
           a == [p EXCEPT !.services = Thread!Extend(@, Name[c], c)]
           e == Thread!create_and_enqueue_packet(p, i, "CONNECT_RESPONSE", Thread!Result(m.data.number))
           f == [p EXCEPT !.channels[i].got_eos_from_client = TRUE]
           fe == Thread!create_and_enqueue_packet(f, i, "EOS", Thread!Nothing)
           x == Thread!remove_association(p, i)
           xc == Thread!clear_packet_queue(x, i)
<1>1. Bounded(p, p)
  BY BoundedFields
<1>2. Bounded(p, Thread!handle_msg_register_req(p, c))
  <2>1. \/ Thread!handle_msg_register_req(p, c) =
             Thread!create_and_send_msg(p, c, Thread!Msg("REGISTER_RES", 0, Thread!Result(0)))
        \/ Thread!handle_msg_register_req(p, c) =
             Thread!create_and_send_msg(a, c, Thread!Msg("REGISTER_RES", 0, Thread!Result(1)))
    BY Zenon DEF Thread!handle_msg_register_req
  <2>2. Bounded(p, a) /\ ThreadRecord(a)
    <3> DEFINE y == Thread!Extend(p.services, Name[c], c)
    <3>1. a = [p EXCEPT !.services = y]
      BY Zenon
    <3> HIDE DEF a, y
    <3>2. QED
      BY <3>1, BoundedFields, BoundedRecord
  <2> HIDE DEF a
  <2>3. /\ Bounded(p, Thread!create_and_send_msg(p, c, Thread!Msg("REGISTER_RES", 0, Thread!Result(0))))
        /\ Bounded(a, Thread!create_and_send_msg(a, c, Thread!Msg("REGISTER_RES", 0, Thread!Result(1))))
    BY <2>2, OperationsBounded
  <2>4. Bounded(p, Thread!create_and_send_msg(a, c, Thread!Msg("REGISTER_RES", 0, Thread!Result(1))))
    BY <2>2, <2>3, BoundedJoins
  <2>5. QED
    BY <2>1, <2>3, <2>4, Zenon
<1> HIDE DEF found, i
<1>3. Bounded(p, e) /\ ThreadRecord(e) /\ Bounded(p, f) /\ ThreadRecord(f) /\ Bounded(p, x) /\ ThreadRecord(x)
  BY OperationsBounded, BoundedWithin, BoundedRecord
<1>4. Bounded(p, Thread!handle_msg_connect_response(p, i, m.data.number))
  <2>1. Thread!handle_msg_connect_response(p, i, m.data.number) \in {e, Thread!remove_association(e, i)}
    BY Zenon DEF Thread!handle_msg_connect_response
  <2> HIDE DEF e
  <2>2. Bounded(e, Thread!remove_association(e, i))
    BY <1>3, OperationsBounded
  <2>3. Bounded(p, Thread!remove_association(e, i))
    BY <1>3, <2>2, BoundedJoins
  <2>4. QED
    BY <1>3, <2>1, <2>3, Zenon
<1>5. Bounded(p, Thread!handle_msg_eos(p, i))
  <2>1. \/ Thread!handle_msg_eos(p, i) = p \/ Thread!handle_msg_eos(p, i) = fe
        \/ Thread!handle_msg_eos(p, i) = Thread!remove_association(fe, i)
    <3>1. CASE p.channels[i].got_eos_from_client
      BY <3>1, Zenon DEF Thread!handle_msg_eos
    <3>2. CASE ~p.channels[i].got_eos_from_client /\ p.channels[i].got_eos_from_ami
      BY <3>2 DEF Thread!handle_msg_eos
    <3>3. CASE ~p.channels[i].got_eos_from_client /\ ~p.channels[i].got_eos_from_ami
      BY <3>3 DEF Thread!handle_msg_eos
    <3>4. QED
      BY <3>1, <3>2, <3>3
  <2> HIDE DEF f
  <2>2. Bounded(f, fe)
    BY <1>3, OperationsBounded
  <2> HIDE DEF fe
  <2>3. Bounded(p, fe) /\ ThreadRecord(fe)
    BY <1>3, <2>2, BoundedJoins, BoundedRecord
  <2>4. Bounded(fe, Thread!remove_association(fe, i))
    BY <2>3, OperationsBounded
  <2>5. Bounded(p, Thread!remove_association(fe, i))
    BY <2>3, <2>4, BoundedJoins
  <2>6. QED
    BY <1>1, <2>1, <2>3, <2>5, Zenon
<1>6. Bounded(p, Thread!handle_msg_reset(p, i))
  <2>1. Thread!handle_msg_reset(p, i) = Thread!create_and_enqueue_packet(xc, i, "RESET", Thread!Nothing)
    BY Zenon DEF Thread!handle_msg_reset
  <2> HIDE DEF x
  <2>2. Bounded(x, xc)
    BY <1>3, OperationsBounded
  <2> HIDE DEF xc
  <2>3. Bounded(p, xc) /\ ThreadRecord(xc)
    BY <1>3, <2>2, BoundedJoins, BoundedRecord
  <2>4. Bounded(xc, Thread!create_and_enqueue_packet(xc, i, "RESET", Thread!Nothing))
    BY <2>3, OperationsBounded
  <2>5. QED
    BY <2>1, <2>3, <2>4, BoundedJoins
<1>7. Bounded(p, Thread!create_and_enqueue_packet(p, i, "DATA", m.data))
  BY OperationsBounded
<1>8. \/ u = Thread!handle_msg_register_req(p, c) \/ u = p
      \/ u = Thread!handle_msg_connect_response(p, i, m.data.number)
      \/ u = Thread!create_and_enqueue_packet(p, i, "DATA", m.data)
      \/ u = Thread!handle_msg_eos(p, i) \/ u = Thread!handle_msg_reset(p, i)
  <2>1. CASE m.type = "REGISTER_REQ"
    BY <2>1, Zenon DEF Thread!handle_received_message
  <2>2. CASE m.type # "REGISTER_REQ" /\ found = {}
    BY <2>2 DEF Thread!handle_received_message, found
  <2>3. CASE m.type = "CONNECT_RESPONSE" /\ found # {}
    BY <2>3 DEF Thread!handle_received_message, found, i
  <2>4. CASE m.type = "DATA" /\ found # {}
    BY <2>4 DEF Thread!handle_received_message, found, i
  <2>5. CASE m.type = "EOS" /\ found # {}
    BY <2>5 DEF Thread!handle_received_message, found, i
  <2>6. CASE m.type = "RESET" /\ found # {}
    BY <2>6 DEF Thread!handle_received_message, found, i
  <2>7. QED
    BY <2>1, <2>2, <2>3, <2>4, <2>5, <2>6
<1> HIDE DEF u
<1>9. QED
  BY <1>1, <1>2, <1>4, <1>5, <1>6, <1>7, <1>8, Zenon DEF u
\* Nor does a packet that is sent (flush_send_queue, a314.cc).
LEMMA FlushBounded ==
  ASSUME NEW p, ThreadRecord(p)
  PROVE  Bounded(p, Thread!flush_send_queue(p))
<1> DEFINE i == Head(p.pi_queue)
           left == Tail(p.channels[i].packet_queue)
           a == [p EXCEPT !.channels[i].packet_queue = left]
           q == [a EXCEPT !.pi_queue = Tail(@)]
           s == [q EXCEPT !.pi_queue = Append(@, i)]
<1>1. Thread!flush_send_queue(p) \in {s, Thread!remove_channel_if_not_associated_and_empty_pq(q, i)}
  BY Zenon DEF Thread!flush_send_queue
<1>2. Bounded(p, a)
  BY BoundedWithin
<1> HIDE DEF a, left
<1>3. Bounded(a, q)
  <2> DEFINE y == Tail(a.pi_queue)
  <2>1. q = [a EXCEPT !.pi_queue = y]
    BY Zenon
  <2> HIDE DEF q, y
  <2>2. QED
    BY <1>2, <2>1, BoundedFields, BoundedRecord
<1> HIDE DEF q
<1>4. Bounded(q, s)
  <2> DEFINE y == Append(q.pi_queue, i)
  <2>1. s = [q EXCEPT !.pi_queue = y]
    BY Zenon
  <2> HIDE DEF s, y
  <2>2. QED
    BY <1>3, <2>1, BoundedFields, BoundedRecord
<1>5. Bounded(q, Thread!remove_channel_if_not_associated_and_empty_pq(q, i))
  BY <1>3, OperationsBounded, BoundedRecord
<1> HIDE DEF s
<1>6. Bounded(p, s) /\ Bounded(p, Thread!remove_channel_if_not_associated_and_empty_pq(q, i))
  BY <1>2, <1>3, <1>4, <1>5, BoundedJoins
<1>7. QED
  BY <1>1, <1>6, Zenon

-----------------------------------------------------------------------------
(* While few streams are opened, each has an id of its own.                  *)

Begun == {n \in Sessions : io[n] # "idle"}
(***************************************************************************)
(* The Amiga is not reset, and no more streams are opened than there are   *)
(* stream ids (128: the odd bytes).                                        *)
(***************************************************************************)
FewStreams == reboots = 0 /\ Cardinality(Begun) <= NumIds

\* k ids have been given, from 1 on: the sockets, the channels and the packets have those
Within(k, q) == \A j \in DOMAIN q : q[j].id \in 1..k
Low(k) ==
  /\ next_stream_id = (k % NumIds) + 1
  /\ DOMAIN socket \subseteq 1..k /\ DOMAIN channels \subseteq 1..k
  /\ Within(k, a2r) /\ Within(k, r2a) /\ Within(k, send_buf)
Numbered == \E k \in Nat : k <= Cardinality(Begun) /\ Low(k)

\* The packets of queues that grow, shrink and are joined.
LEMMA WithinKeeps ==
  ASSUME NEW T, NEW q \in Seq(T), NEW k \in Nat, Within(k, q)
  PROVE  /\ \A m : m.id \in 1..k => Within(k, Append(q, m))
         /\ \A r \in Seq(T) : Within(k, r) => Within(k, q \o r)
         /\ \A n \in Nat : n <= Len(q) => Within(k, SubSeq(q, n + 1, Len(q)))
         /\ q # <<>> => Within(k, Tail(q))
         /\ Within(k + 1, q)
         /\ \A m \in Elems(q) : m.id # k + 1
<1>1. /\ Len(q) \in Nat /\ DOMAIN q = 1..Len(q)
      /\ \A j \in 1..Len(q) : q[j].id \in 1..k
  BY DEF Within
<1>2. ASSUME NEW m, m.id \in 1..k PROVE Within(k, Append(q, m))
  <2>1. /\ DOMAIN Append(q, m) = 1..(Len(q) + 1) /\ Append(q, m)[Len(q) + 1] = m
        /\ \A j \in 1..Len(q) : Append(q, m)[j] = q[j]
    OBVIOUS
  <2> DEFINE w == Len(q)
             a == Append(q, m)
  <2>2. \A j \in 1..(w + 1) : j = w + 1 \/ j \in 1..w
    BY <1>1
  <2> HIDE DEF w, a
  <2>3. \A j \in DOMAIN a : a[j].id \in 1..k
    BY <1>1, <1>2, <2>1, <2>2 DEF w, a
  <2>4. QED
    BY <2>3 DEF Within, a
<1>3. ASSUME NEW r \in Seq(T), Within(k, r) PROVE Within(k, q \o r)
  <2>1. Len(r) \in Nat /\ DOMAIN r = 1..Len(r) /\ \A j \in 1..Len(r) : r[j].id \in 1..k
    BY <1>3 DEF Within
  <2> DEFINE w == Len(q)
             v == Len(r)
             a == q \o r
  <2>2. /\ DOMAIN a = 1..(w + v) /\ \A j \in 1..w : a[j] = q[j]
        /\ \A j \in 1..v : a[w + j] = r[j]
    OBVIOUS
  <2>3. w \in Nat /\ v \in Nat
    BY <1>1, <2>1
  <2>4. (\A j \in 1..w : q[j].id \in 1..k) /\ \A j \in 1..v : r[j].id \in 1..k
    BY <1>1, <2>1
  <2> HIDE DEF w, v, a
  <2>5. ASSUME NEW j \in 1..(w + v) PROVE a[j].id \in 1..k
    <3>1. CASE j \in 1..w
      BY <2>2, <2>4, <3>1
    <3>2. CASE j \notin 1..w
      <4>1. j - w \in 1..v /\ w + (j - w) = j
        BY <2>3, <3>2
      <4>2. QED
        BY <2>2, <2>4, <4>1
    <3>3. QED
      BY <3>1, <3>2
  <2>6. QED
    BY <2>2, <2>5 DEF Within, a
<1>4. ASSUME NEW n \in Nat, n <= Len(q) PROVE Within(k, SubSeq(q, n + 1, Len(q)))
  <2> DEFINE w == Len(q)
             a == SubSeq(q, n + 1, w)
  <2>1. DOMAIN a = 1..(w - n) /\ \A j \in 1..(w - n) : a[j] = q[n + j]
    BY <1>1, <1>4
  <2>2. \A j \in 1..(w - n) : n + j \in 1..w
    BY <1>1, <1>4
  <2>3. \A j \in 1..w : q[j].id \in 1..k
    BY <1>1
  <2> HIDE DEF w, a
  <2>4. QED
    BY <2>1, <2>2, <2>3 DEF Within, a, w
<1>5. ASSUME q # <<>> PROVE Within(k, Tail(q))
  <2> DEFINE w == Len(q)
             a == Tail(q)
  <2>1. DOMAIN a = 1..(w - 1) /\ \A j \in 1..(w - 1) : a[j] = q[j + 1]
    BY <1>1, <1>5
  <2>2. \A j \in 1..(w - 1) : j + 1 \in 1..w
    BY <1>1
  <2>3. \A j \in 1..w : q[j].id \in 1..k
    BY <1>1
  <2> HIDE DEF w, a
  <2>4. QED
    BY <2>1, <2>2, <2>3 DEF Within, a
<1>6. \A i \in 1..k : i \in 1..(k + 1) /\ i # k + 1
  OBVIOUS
<1>7. Within(k + 1, q) /\ \A m \in Elems(q) : m.id # k + 1
  BY <1>1, <1>6 DEF Within, Elems
<1>8. QED
  BY <1>2, <1>3, <1>4, <1>5, <1>7

\* There are as many sessions as the applications may make CONNECT requests.
LEMMA SessionsAreFinite == IsFiniteSet(Sessions)
<1> DEFINE N == 1..Budget["CONNECT"]
           f == [s \in Sessions |-> <<s.key, s.n>>]
<1>1. Budget["CONNECT"] \in Nat
  BY BudgetAssumption DEF BudgetAssumption, Ops
<1>2. IsFiniteSet(N)
  BY <1>1, FS_Interval
<1>3. IsFiniteSet(Keys \X N)
  BY <1>2, FS_Product, IdAssumption DEF IdAssumption
<1>4. ASSUME NEW s \in Sessions
      PROVE  s \in [key : Keys, op : {"CONNECT"}, n : N]
  <2>1. s \in Requests /\ s.op = "CONNECT"
    BY DEF Sessions
  <2>2. PICK o \in Ops : s \in [key : Keys, op : {o}, n : 1..Budget[o]]
    BY <2>1 DEF Requests
  <2>3. o = "CONNECT"
    BY <2>1, <2>2
  <2>4. QED
    BY <2>2, <2>3
<1> HIDE DEF N
<1>5. f \in Injection(Sessions, Keys \X N)
  <2>1. f \in [Sessions -> Keys \X N]
    BY <1>4
  <2>2. ASSUME NEW s \in Sessions, NEW t \in Sessions, f[s] = f[t] PROVE s = t
    <3>1. s.key = t.key /\ s.n = t.n
      BY <2>2
    <3>2. QED
      BY <1>4, <3>1
  <2>3. IsInjective(f)
    BY <2>2 DEF IsInjective
  <2>4. QED
    BY <2>1, <2>3 DEF Injection
<1> HIDE DEF f
<1>6. QED
  BY <1>3, <1>5, FS_Injection

\* A session that has begun stays begun.
LEMMA BegunGrows ==
  ASSUME \A q \in Requests : io'[q] = "idle" => io[q] = "idle"
  PROVE  /\ IsFiniteSet(Begun) /\ IsFiniteSet(Begun') /\ Begun \subseteq Begun'
         /\ Cardinality(Begun) \in Nat /\ Cardinality(Begun') \in Nat
         /\ Cardinality(Begun) <= Cardinality(Begun')
<1> DEFINE B == Begun
           C == Begun'
<1>1. B \in SUBSET Sessions /\ C \in SUBSET Sessions
  BY DEF Begun
<1>2. B \in SUBSET C
  <2>1. Sessions \subseteq Requests
    BY DEF Sessions
  <2>2. QED
    BY <2>1 DEF Begun
<1> HIDE DEF B, C
<1>3. IsFiniteSet(B) /\ IsFiniteSet(C)
  BY <1>1, SessionsAreFinite, FS_Subset
<1>4. Cardinality(B) \in Nat /\ Cardinality(C) \in Nat
  BY <1>3, FS_CardinalityType
<1>5. Cardinality(B) <= Cardinality(C)
  BY <1>2, <1>3, FS_Subset
<1>6. QED
  BY <1>2, <1>3, <1>4, <1>5 DEF B, C

\* The driver and the thread are in states that their handlers take.
LEMMA StatesAre ==
  ASSUME Inv
  PROVE  /\ Record(driver) /\ driver \in DriverStates /\ ThreadRecord(thread) /\ thread \in ThreadStates
         /\ a2r \in Seq(AmigaPackets) /\ r2a \in Seq(PiPackets) /\ send_buf \in Seq(PiPackets)
         /\ received \in Nat /\ arrived \in Nat /\ received <= arrived /\ arrived <= Len(a2r)
<1>1. driver \in DriverStates /\ thread \in ThreadStates
  BY DEF Inv, Sound, Typed, Tabled, TabledBut
<1>2. DOMAIN driver.io = Requests /\ driver.a2r \in Seq(AmigaPackets)
  BY <1>1 DEF DriverStates
<1>3. Record(driver) /\ ThreadRecord(thread) /\ driver.a2r = a2r
  BY <1>2 DEF Record, ThreadRecord, driver, thread
<1>4. QED
  BY <1>1, <1>2, <1>3 DEF Inv, PathInv, LoopInv

\* A step of the driver that opens no socket takes no id.
LEMMA ModestNumbered ==
  ASSUME Inv, NEW e, Modest(driver, e), DriverBecomes(e), UNCHANGED <<channels, send_buf>>,
         \/ r2a' = r2a
         \/ r2a # <<>> /\ r2a' = Tail(r2a)
  PROVE  /\ \A q \in Requests : io'[q] = "idle" => io[q] = "idle"
         /\ \A k \in Nat : Low(k) => Low(k)'
<1>1. /\ next_stream_id' = e.next_stream_id /\ socket' = e.socket /\ io' = e.io /\ a2r' = e.a2r
      /\ driver.next_stream_id = next_stream_id /\ driver.socket = socket /\ driver.io = io /\ driver.a2r = a2r
  BY DEF DriverBecomes, driver
<1>2. /\ next_stream_id' = next_stream_id /\ DOMAIN socket' \subseteq DOMAIN socket
      /\ \A q \in Requests : io'[q] = "idle" => io[q] = "idle"
      /\ (a2r' = a2r \/ \E m : m.id \in DOMAIN socket /\ a2r' = Append(a2r, m))
  BY <1>1 DEF Modest, Calm
<1>3. ASSUME NEW k \in Nat, Low(k) PROVE Low(k)'
  <2>1. Within(k, a2r')
    <3>1. CASE a2r' = a2r
      BY <1>3, <3>1 DEF Low
    <3>2. CASE \E m : m.id \in DOMAIN socket /\ a2r' = Append(a2r, m)
      <4>1. PICK m : m.id \in DOMAIN socket /\ a2r' = Append(a2r, m)
        BY <3>2
      <4>2. m.id \in 1..k /\ Within(k, a2r) /\ a2r \in Seq(AmigaPackets)
        BY <1>3, <4>1, StatesAre DEF Low
      <4>3. QED
        BY <4>1, <4>2, WithinKeeps
    <3>3. QED
      BY <1>2, <3>1, <3>2
  <2>2. Within(k, r2a')
    <3>1. Within(k, r2a) /\ r2a \in Seq(PiPackets)
      BY <1>3, StatesAre DEF Low
    <3>2. r2a # <<>> => Within(k, Tail(r2a))
      BY <3>1, WithinKeeps
    <3>3. QED
      BY <3>1, <3>2
  <2>3. QED
    BY <1>2, <1>3, <2>1, <2>2 DEF Low
<1>4. QED
  BY <1>2, <1>3

\* The steps of the driver that open no socket.
LEMMA DriverNumbered ==
  ASSUME Inv, ReceiveR2A \/ SendQueued
  PROVE  /\ \A q \in Requests : io'[q] = "idle" => io[q] = "idle"
         /\ reboots' = reboots /\ \A k \in Nat : Low(k) => Low(k)'
<1>1. CASE ReceiveR2A
  <2> DEFINE e == Device!handle_r2a_packet(driver, Head(r2a))
  <2>1. /\ r2a # <<>> /\ r2a' = Tail(r2a) /\ DriverBecomes(e) /\ UNCHANGED <<table, loop, counts>>
    BY <1>1 DEF ReceiveR2A
  <2>2. Head(r2a).type \in {"CONNECT_RESPONSE", "DATA", "EOS", "RESET"}
    <3>1. Head(r2a) \in PiPackets
      BY <2>1, StatesAre
    <3>2. QED
      BY <3>1 DEF PiPackets
  <2>3. Modest(driver, e)
    BY <2>2, StatesAre, PacketsModest
  <2> HIDE DEF e
  <2>4. UNCHANGED <<channels, send_buf>> /\ reboots' = reboots
    BY <2>1 DEF table, loop, counts
  <2>5. QED
    BY <2>1, <2>3, <2>4, ModestNumbered
<1>2. CASE SendQueued
  <2> DEFINE e == Device!handle_room_in_a2r(driver)
  <2>1. /\ driver.send_queue # <<>> /\ r2a' = r2a /\ DriverBecomes(e) /\ UNCHANGED <<table, loop, counts>>
    BY <1>2 DEF SendQueued, driver
  <2>2. Head(driver.send_queue) \in DOMAIN driver.socket
    <3>1. driver.send_queue \in Seq(Ids) /\ Elems(driver.send_queue) \subseteq DOMAIN driver.socket
      BY DEF Inv, Sound, Typed, DriverStates
    <3>2. Head(driver.send_queue) \in Elems(driver.send_queue)
      BY <2>1, <3>1 DEF Elems
    <3>3. QED
      BY <3>1, <3>2
  <2>3. Modest(driver, e)
    BY <2>2, StatesAre, RoomModest
  <2> HIDE DEF e
  <2>4. UNCHANGED <<channels, send_buf>> /\ reboots' = reboots
    BY <2>1 DEF table, loop, counts
  <2>5. QED
    BY <2>1, <2>3, <2>4, ModestNumbered
<1>3. QED
  BY <1>1, <1>2

\* A stream that is opened takes the next id, which nothing has yet.
LEMMA OpenNumbered ==
  ASSUME Inv, NEW r \in Sessions, io[r] = "idle",
         DriverBecomes(Device!handle_app_connect(driver, r)), UNCHANGED <<r2a, channels, send_buf>>
  PROVE  /\ \A q \in Requests : io'[q] = "idle" => io[q] = "idle"
         /\ Cardinality(Begun') <= NumIds /\ Numbered => FreshIds /\ Numbered'
<1> DEFINE e == Device!handle_app_connect(driver, r)
           i == Device!allocate_stream_id(driver)
<1>1. r \in Requests
  BY DEF Sessions
<1>2. OpensAt(driver, e, r, i)
  BY <1>1, StatesAre, ConnectOpens
<1> HIDE DEF e, i
<1>3. /\ next_stream_id' = e.next_stream_id /\ socket' = e.socket /\ io' = e.io /\ a2r' = e.a2r
      /\ driver.next_stream_id = next_stream_id /\ driver.socket = socket /\ driver.io = io /\ driver.a2r = a2r
  BY DEF DriverBecomes, driver, e
<1>4. /\ next_stream_id' = (i % NumIds) + 1 /\ DOMAIN socket' = DOMAIN socket \union {i}
      /\ io' = [io EXCEPT ![r] = "held"]
      /\ a2r' = a2r \/ \E m : m.id = i /\ a2r' = Append(a2r, m)
  BY <1>2, <1>3 DEF OpensAt
<1>5. DOMAIN io = Requests
  BY <1>3, StatesAre DEF Record
<1>6. \A q \in Requests : io'[q] = "idle" => io[q] = "idle"
  BY <1>4, <1>5
<1>7. ASSUME Cardinality(Begun') <= NumIds, Numbered PROVE FreshIds /\ Numbered'
  <2>1. PICK k \in Nat : k <= Cardinality(Begun) /\ Low(k)
    BY <1>7 DEF Numbered
  <2>2. Cardinality(Begun) + 1 <= Cardinality(Begun') /\ Cardinality(Begun) \in Nat /\ Cardinality(Begun') \in Nat
    <3> DEFINE B == Begun
               C == Begun'
    <3>1. IsFiniteSet(B) /\ IsFiniteSet(C) /\ B \subseteq C /\ Cardinality(B) \in Nat /\ Cardinality(C) \in Nat
      BY <1>6, BegunGrows
    <3>2. r \notin B /\ r \in C
      BY <1>1, <1>4, <1>5 DEF Begun
    <3> HIDE DEF B, C
    <3>3. Cardinality(B) <= Cardinality(C) /\ (Cardinality(C) = Cardinality(B) => C = B)
      BY <3>1, FS_Subset
    <3>4. Cardinality(C) # Cardinality(B)
      BY <3>2, <3>3
    <3>5. QED
      BY <3>1, <3>3, <3>4 DEF B, C
  <2>3. k < NumIds /\ k + 1 \in Nat /\ k + 1 <= Cardinality(Begun')
    <3> DEFINE b == Cardinality(Begun)
               c == Cardinality(Begun')
    <3>1. k <= b /\ b + 1 <= c /\ c <= NumIds /\ b \in Nat /\ c \in Nat /\ NumIds \in Nat
      BY <1>7, <2>1, <2>2, IdAssumption DEF IdAssumption
    <3> HIDE DEF b, c
    <3>2. k < NumIds /\ k + 1 \in Nat /\ k + 1 <= c
      BY <3>1
    <3>3. QED
      BY <3>2 DEF c
  <2>4. i = k + 1
    <3>1. Typed(driver)
      BY DEF Inv, Sound
    <3>2. driver.next_stream_id = (k % NumIds) + 1 /\ DOMAIN driver.socket \subseteq 1..k
      BY <1>3, <2>1 DEF Low
    <3>3. QED
      BY <2>3, <3>1, <3>2, NextIdTaken DEF i
  <2>5. FreshIds
    <3> DEFINE j == k + 1
    <3>1. j \notin 1..k
      OBVIOUS
    <3>2. j \notin DOMAIN thread.channels
      <4>1. DOMAIN thread.channels \subseteq 1..k
        BY <2>1 DEF Low, thread
      <4>2. QED
        BY <3>1, <4>1
    <3>3. (\A m \in Elems(r2a) : m.id # j) /\ \A m \in Elems(send_buf) : m.id # j
      BY <2>1, StatesAre, WithinKeeps DEF Low
    <3>4. \A m \in Elems(Unread) : m.id # j
      <4>1. a2r \in Seq(AmigaPackets) /\ Within(k, a2r) /\ received \in Nat /\ received <= Len(a2r)
        BY <2>1, StatesAre DEF Low
      <4>2. Within(k, Unread) /\ Unread \in Seq(AmigaPackets)
        <5>1. Within(k, Unread)
          BY <4>1, WithinKeeps DEF Unread, Rest
        <5>2. Unread \in Seq(AmigaPackets)
          BY <4>1 DEF Unread, Rest
        <5>3. QED
          BY <5>1, <5>2
      <4>3. QED
        BY <4>2, WithinKeeps
    <3> HIDE DEF j
    <3>5. Fresh(j, thread, Unread, r2a, send_buf)
      BY <3>2, <3>3, <3>4 DEF Fresh
    <3>6. QED
      BY <1>4, <2>4, <3>5 DEF FreshIds, j
  <2>6. Low(k + 1)'
    <3>1. \A x \in 1..k : x \in 1..(k + 1)
      OBVIOUS
    <3>2. k + 1 \in 1..(k + 1)
      OBVIOUS
    <3>3. DOMAIN socket' \subseteq 1..(k + 1) /\ DOMAIN channels' \subseteq 1..(k + 1)
      BY <1>4, <2>1, <2>4, <3>1, <3>2 DEF Low
    <3>4. Within(k + 1, a2r) /\ Within(k + 1, r2a) /\ Within(k + 1, send_buf)
      BY <2>1, StatesAre, WithinKeeps DEF Low
    <3>5. Within(k + 1, a2r')
      <4> DEFINE j == k + 1
      <4>1. a2r \in Seq(AmigaPackets) /\ Within(j, a2r) /\ j \in Nat
        BY <2>3, <3>4, StatesAre
      <4>2. a2r' = a2r \/ \E m : m.id \in 1..j /\ a2r' = Append(a2r, m)
        BY <1>4, <2>4, <3>2
      <4> HIDE DEF j
      <4>3. Within(j, a2r')
        BY <4>1, <4>2, WithinKeeps
      <4>4. QED
        BY <4>3 DEF j
    <3>6. QED
      BY <1>4, <2>4, <3>3, <3>4, <3>5 DEF Low
  <2>7. QED
    BY <2>3, <2>5, <2>6 DEF Numbered
<1>8. QED
  BY <1>6, <1>7

\* A request of an application.
LEMMA RequestNumbered ==
  ASSUME Inv, NEW r \in Requests, AppRequest(r)
  PROVE  /\ \A q \in Requests : io'[q] = "idle" => io[q] = "idle"
         /\ reboots' = reboots
         /\ Cardinality(Begun') <= NumIds /\ Numbered => FreshIds /\ Numbered'
<1> DEFINE e == Device!handle_app_request(driver, r)
<1>1. io[r] = "idle" /\ DriverBecomes(e) /\ UNCHANGED <<r2a, table, loop, counts>>
  BY DEF AppRequest
<1>2. UNCHANGED <<r2a, channels, send_buf>> /\ reboots' = reboots
  BY <1>1 DEF table, loop, counts
<1>3. Modest(driver, e) \/ (r \in Sessions /\ e = Device!handle_app_connect(driver, r))
  BY StatesAre, RequestModest
<1> HIDE DEF e
<1>4. CASE r \in Sessions /\ e = Device!handle_app_connect(driver, r)
  BY <1>1, <1>2, <1>4, OpenNumbered
<1>5. CASE Modest(driver, e)
  <2>1. (\A q \in Requests : io'[q] = "idle" => io[q] = "idle") /\ \A k \in Nat : Low(k) => Low(k)'
    BY <1>1, <1>2, <1>5, ModestNumbered
  <2>2. Cardinality(Begun) <= Cardinality(Begun') /\ Cardinality(Begun) \in Nat /\ Cardinality(Begun') \in Nat
    BY <2>1, BegunGrows
  <2>3. Numbered => Numbered'
    <3> SUFFICES ASSUME Numbered PROVE Numbered'
      OBVIOUS
    <3>1. PICK k \in Nat : k <= Cardinality(Begun) /\ Low(k)
      BY DEF Numbered
    <3>2. k <= Cardinality(Begun')
      <4> DEFINE b == Cardinality(Begun)
                 c == Cardinality(Begun')
      <4>1. k <= b /\ b <= c /\ b \in Nat /\ c \in Nat
        BY <2>2, <3>1
      <4> HIDE DEF b, c
      <4>2. k <= c
        BY <4>1
      <4>3. QED
        BY <4>2 DEF c
    <3>3. Low(k)'
      BY <2>1, <3>1
    <3>4. QED
      BY <3>2, <3>3 DEF Numbered
  <2>4. FreshIds
    <3>1. DOMAIN socket' \subseteq DOMAIN socket
      BY <1>1, <1>5 DEF Modest, Calm, DriverBecomes, driver
    <3>2. QED
      BY <3>1 DEF FreshIds
  <2>5. QED
    BY <1>2, <2>1, <2>3, <2>4
<1>6. QED
  BY <1>3, <1>4, <1>5

\* A step that opens no channel and sends nothing takes no id,
LEMMA QuietNumbered ==
  ASSUME UNCHANGED <<amiga, a2r, r2a, send_buf, reboots>>, DOMAIN channels' \subseteq DOMAIN channels
  PROVE  /\ \A q \in Requests : io'[q] = "idle" => io[q] = "idle"
         /\ reboots' = reboots /\ \A k \in Nat : Low(k) => Low(k)'
<1>1. UNCHANGED <<next_stream_id, socket, io>>
  BY DEF amiga
<1>2. QED
  BY <1>1 DEF Low, Within

\* nor does a round that starts,
LEMMA IrqNumbered ==
  ASSUME Inv, Irq
  PROVE  /\ \A q \in Requests : io'[q] = "idle" => io[q] = "idle"
         /\ reboots' = reboots /\ \A k \in Nat : Low(k) => Low(k)'
<1> DEFINE q == IF started THEN Thread!close_all_logical_channels(thread) ELSE thread
<1>1. channels' = q.channels /\ UNCHANGED <<amiga, a2r, r2a, send_buf, counts>>
  BY DEF Irq, ThreadBecomes
<1>2. DOMAIN q.channels \subseteq DOMAIN thread.channels
  BY StatesAre, ClosedBounded
<1> HIDE DEF q
<1>3. DOMAIN channels' \subseteq DOMAIN channels /\ reboots' = reboots
  BY <1>1, <1>2 DEF thread, counts
<1>4. QED
  BY <1>1, <1>3, QuietNumbered

\* a packet of the Amiga,
LEMMA ReceiveA2RNumbered ==
  ASSUME Inv, ReceiveA2R
  PROVE  /\ \A q \in Requests : io'[q] = "idle" => io[q] = "idle"
         /\ reboots' = reboots /\ \A k \in Nat : Low(k) => Low(k)'
<1> DEFINE m == a2r[received + 1]
           q == Thread!handle_received_pkt(thread, m)
<1>1. /\ pc = "receive" /\ UNCHANGED <<amiga, a2r, r2a, send_buf, counts>>
      /\ (channels' = channels \/ channels' = q.channels)
  <2>1. CASE Thread!Duplicate(thread, m)
    BY <2>1 DEF ReceiveA2R, table
  <2>2. CASE ~Thread!Duplicate(thread, m)
    BY <2>2 DEF ReceiveA2R, ThreadBecomes
  <2>3. QED
    BY <2>1, <2>2
<1>2. received + 1 \in 1..Len(a2r)
  <2> DEFINE w == Len(a2r)
  <2>1. received < arrived /\ arrived <= w /\ w \in Nat /\ received \in Nat /\ arrived \in Nat
    BY <1>1, StatesAre DEF Inv, LoopInv
  <2> HIDE DEF w
  <2>2. received + 1 \in 1..w
    BY <2>1
  <2>3. QED
    BY <2>2 DEF w
<1>3. a2r \in Seq(AmigaPackets) /\ m \in AmigaPackets /\ DOMAIN a2r = 1..Len(a2r)
  BY <1>2, StatesAre
<1>4. DOMAIN q.channels \subseteq DOMAIN thread.channels \union {m.id}
  <2>1. m.type \in {"CONNECT", "DATA", "EOS", "RESET"}
    BY <1>3 DEF AmigaPackets
  <2> HIDE DEF m
  <2>2. QED
    BY <2>1, StatesAre, ReceivedBounded
<1>5. \A k \in Nat : Within(k, a2r) => m.id \in 1..k
  BY <1>2, <1>3 DEF Within
<1> HIDE DEF q, m
<1>6. thread.channels = channels /\ UNCHANGED <<next_stream_id, socket, io, reboots>>
  BY <1>1 DEF thread, amiga, counts
<1>7. DOMAIN channels' \subseteq DOMAIN channels \union {m.id}
  BY <1>1, <1>4, <1>6
<1>8. UNCHANGED <<a2r, r2a, send_buf>>
  BY <1>1
<1>9. ASSUME NEW k \in Nat, Low(k) PROVE Low(k)'
  BY <1>5, <1>6, <1>7, <1>8, <1>9 DEF Low, Within
<1>10. QED
  BY <1>6, <1>9

\* a packet that is sent, which has the id of its channel,
LEMMA FlushPacketNumbered ==
  ASSUME Inv, Ordered, FlushPacket
  PROVE  /\ \A q \in Requests : io'[q] = "idle" => io[q] = "idle"
         /\ reboots' = reboots /\ \A k \in Nat : Low(k) => Low(k)'
<1> DEFINE m == Thread!NextPacket(thread)
           q == Thread!flush_send_queue(thread)
           i == Head(thread.pi_queue)
<1>1. /\ thread.pi_queue # <<>> /\ send_buf' = Append(send_buf, m) /\ channels' = q.channels
      /\ UNCHANGED <<amiga, a2r, r2a, counts>>
  BY DEF FlushPacket, ThreadBecomes, thread
<1>2. DOMAIN q.channels \subseteq DOMAIN thread.channels
  BY StatesAre, FlushBounded, BoundedRecord
<1>3. i \in DOMAIN thread.channels /\ thread.channels[i].packet_queue # <<>>
  <2>1. thread.pi_queue \in Seq(Ids) /\ Elems(thread.pi_queue) = Full(thread)
    BY DEF Inv, Tabled, TabledBut, Queued, ThreadStates
  <2>2. i \in Elems(thread.pi_queue)
    BY <1>1, <2>1 DEF Elems
  <2> HIDE DEF i
  <2>3. QED
    BY <2>1, <2>2 DEF Full
<1>4. m.id = i
  <2>1. thread.channels[i].packet_queue \in Seq(PiPackets)
    <3>1. thread.channels \in ChannelMaps
      BY StatesAre DEF ThreadStates
    <3> HIDE DEF i
    <3>2. thread.channels[i] \in Channel
      BY <1>3, <3>1, MapsOfChannels
    <3>3. QED
      BY <3>2 DEF Channel
  <2>2. PICK g : Order(g, thread, Unread, r2a, send_buf, stream, driver)
    BY DEF Ordered
  <2>3. \A x \in Elems(thread.channels[i].packet_queue) : x.id = i
    BY <1>3, <2>2 DEF Order, ThreadRouted, ChannelsRouted
  <2>4. m = Head(thread.channels[i].packet_queue)
    BY DEF Thread!NextPacket
  <2> DEFINE v == thread.channels[i].packet_queue
  <2>5. v \in Seq(PiPackets) /\ v # <<>> /\ m = Head(v) /\ \A x \in Elems(v) : x.id = i
    BY <1>3, <2>1, <2>3, <2>4
  <2> HIDE DEF v, i, m
  <2>6. Head(v) \in Elems(v)
    BY <2>5 DEF Elems
  <2>7. QED
    BY <2>5, <2>6
<1> HIDE DEF m, q, i
<1>5. thread.channels = channels /\ UNCHANGED <<next_stream_id, socket, io, reboots, a2r, r2a>>
  BY <1>1 DEF thread, amiga, counts
<1>6. ASSUME NEW k \in Nat, Low(k) PROVE Low(k)'
  <2>1. m.id \in 1..k /\ Within(k, send_buf)
    BY <1>3, <1>4, <1>5, <1>6 DEF Low
  <2>2. Within(k, send_buf')
    BY <1>1, <2>1, StatesAre, WithinKeeps
  <2>3. DOMAIN channels' \subseteq 1..k
    BY <1>1, <1>2, <1>5, <1>6 DEF Low
  <2>4. QED
    BY <1>5, <1>6, <2>2, <2>3 DEF Low, Within
<1>7. QED
  BY <1>5, <1>6

\* what is published,
LEMMA PublishNumbered ==
  ASSUME Inv, Publish
  PROVE  /\ \A q \in Requests : io'[q] = "idle" => io[q] = "idle"
         /\ reboots' = reboots /\ \A k \in Nat : Low(k) => Low(k)'
<1>1. /\ r2a' = r2a \o send_buf /\ send_buf' = <<>> /\ a2r' = SubSeq(a2r, received + 1, Len(a2r))
      /\ UNCHANGED <<next_stream_id, socket, io, channels, reboots>>
  BY DEF Publish, amiga, table, counts
<1>2. ASSUME NEW k \in Nat, Low(k) PROVE Low(k)'
  <2>1. Within(k, a2r) /\ Within(k, r2a) /\ Within(k, send_buf)
    BY <1>2 DEF Low
  <2>2. Within(k, r2a')
    BY <1>1, <2>1, StatesAre, WithinKeeps
  <2>3. Within(k, a2r')
    <3>1. a2r \in Seq(AmigaPackets) /\ received \in Nat /\ received <= Len(a2r)
      BY StatesAre
    <3>2. Within(k, SubSeq(a2r, received + 1, Len(a2r)))
      BY <2>1, <3>1, WithinKeeps
    <3>3. QED
      BY <1>1, <3>2
  <2>4. Within(k, send_buf')
    BY <1>1 DEF Within
  <2>5. QED
    BY <1>1, <1>2, <2>2, <2>3, <2>4 DEF Low
<1>3. QED
  BY <1>1, <1>2

\* a connection that the thread turns to or closes, a message,
LEMMA ConnectionsNumbered ==
  ASSUME Inv, \/ \E c \in Clients : ConnectionEvent(c)
              \/ ReadMessage
              \/ MessagesRead
  PROVE  /\ \A q \in Requests : io'[q] = "idle" => io[q] = "idle"
         /\ reboots' = reboots /\ \A k \in Nat : Low(k) => Low(k)'
<1>1. /\ UNCHANGED <<amiga, a2r, r2a, send_buf, reboots>>
      /\ \/ channels' = channels
         \/ \E c : channels' = Thread!close_and_remove_connection(thread, c).channels
         \/ channels' = Thread!handle_received_message([thread EXCEPT !.fromCli[cc] = Tail(@)], cc,
                                                       Head(fromCli[cc])).channels
            /\ pc = "messages" /\ fromCli[cc] # <<>>
  <2>1. ASSUME NEW c \in Clients, ConnectionEvent(c)
        PROVE  /\ UNCHANGED <<amiga, a2r, r2a, send_buf, reboots>>
               /\ \/ channels' = channels
                  \/ channels' = Thread!close_and_remove_connection(thread, c).channels
    BY <2>1 DEF ConnectionEvent, ThreadBecomes, table, counts
  <2>2. CASE ReadMessage
    BY <2>2 DEF ReadMessage, ThreadBecomes, counts
  <2>3. CASE MessagesRead
    <3>1. UNCHANGED <<amiga, a2r, r2a, send_buf, reboots>>
      BY <2>3 DEF MessagesRead, counts
    <3>2. CASE conn[cc] = "up"
      BY <2>3, <3>1, <3>2 DEF MessagesRead, table
    <3>3. CASE conn[cc] \in {"closed", "broken"}
      BY <2>3, <3>1, <3>3 DEF MessagesRead, ThreadBecomes
    <3>4. CASE conn[cc] \notin {"up", "closed", "broken"}
      BY <2>3, <3>1, <3>4 DEF MessagesRead, table
    <3>5. QED
      BY <3>2, <3>3, <3>4
  <2>4. QED
    BY <2>1, <2>2, <2>3
<1>2. \A c : DOMAIN Thread!close_and_remove_connection(thread, c).channels = DOMAIN thread.channels
  BY StatesAre, ClosedBounded
<1>3. ASSUME pc = "messages", fromCli[cc] # <<>>
      PROVE  DOMAIN Thread!handle_received_message([thread EXCEPT !.fromCli[cc] = Tail(@)], cc,
                                                   Head(fromCli[cc])).channels \subseteq DOMAIN thread.channels
  <2> DEFINE q == [thread EXCEPT !.fromCli[cc] = Tail(@)]
             m == Head(fromCli[cc])
             u == Thread!handle_received_message(q, cc, m)
  <2>1. Bounded(thread, q)
    <3> DEFINE x == Tail(thread.fromCli[cc])
    <3>1. Bounded(thread, [thread EXCEPT !.fromCli[cc] = x])
      BY StatesAre, BoundedWithin
    <3>2. q = [thread EXCEPT !.fromCli[cc] = x]
      OBVIOUS
    <3> HIDE DEF q, x
    <3>3. QED
      BY <3>1, <3>2
  <2>2. m \in FromClient
    <3>1. cc \in Clients /\ fromCli \in [Clients -> Seq(FromClient)]
      BY <1>3, ThreadFields DEF Inv, LoopInv
    <3>2. fromCli[cc] \in Seq(FromClient)
      BY <3>1
    <3>3. QED
      BY <1>3, <3>2
  <2>3. m.type \in {"REGISTER_REQ", "CONNECT_RESPONSE", "DATA", "EOS", "RESET"}
    BY <2>2 DEF FromClient
  <2> HIDE DEF q, m
  <2>4. ThreadRecord(q) /\ DOMAIN q.channels \subseteq DOMAIN thread.channels
    BY <2>1, BoundedRecord
  <2>5. Bounded(q, u)
    BY <2>3, <2>4, MessageBounded
  <2> HIDE DEF u
  <2>6. DOMAIN u.channels \subseteq DOMAIN thread.channels
    BY <2>4, <2>5, BoundedRecord
  <2>7. QED
    BY <2>6 DEF u, q, m
<1>4. thread.channels = channels
  BY DEF thread
<1>5. DOMAIN channels' \subseteq DOMAIN channels
  BY <1>1, <1>2, <1>3, <1>4
<1>6. QED
  BY <1>1, <1>5, QuietNumbered

\* or what a client does.
LEMMA ClientNumbered ==
  ASSUME Inv, NEW c \in Clients, ClientStep(c) \/ ClientClose(c) \/ handle_server_socket_ready(c)
  PROVE  /\ \A q \in Requests : io'[q] = "idle" => io[q] = "idle"
         /\ reboots' = reboots /\ \A k \in Nat : Low(k) => Low(k)'
<1>1. UNCHANGED <<amiga, a2r, r2a, send_buf, reboots, channels>>
  <2>1. CASE ClientStep(c)
    BY <2>1 DEF ClientStep, RegisterRes, ClientConnect, ClientPacket, table, loop, counts
  <2>2. CASE ClientClose(c)
    BY <2>2 DEF ClientClose, table, loop
  <2>3. CASE handle_server_socket_ready(c)
    BY <2>3 DEF handle_server_socket_ready, loop, counts
  <2>4. QED
    BY <2>1, <2>2, <2>3
<1>2. QED
  BY <1>1, QuietNumbered
\* So does what it says of its own accord.
LEMMA SendNumbered ==
  ASSUME Inv, NEW n \in Sessions, NEW type \in Speaks, ClientSend(n, type)
  PROVE  /\ \A q \in Requests : io'[q] = "idle" => io[q] = "idle"
         /\ reboots' = reboots /\ \A k \in Nat : Low(k) => Low(k)'
<1>1. UNCHANGED <<amiga, a2r, r2a, send_buf, reboots, channels>>
  BY DEF ClientSend, table, loop, counts
<1>2. QED
  BY <1>1, QuietNumbered

\* No step forgets a stream that was opened, or a reset.
LEMMA FewBefore ==
  ASSUME Inv, [Next]_vars, FewStreams'
  PROVE  FewStreams
<1>1. (\A q \in Requests : io'[q] = "idle" => io[q] = "idle") /\ reboots' = reboots
  <2>1. ASSUME NEW r \in Requests, AppRequest(r)
        PROVE  (\A q \in Requests : io'[q] = "idle" => io[q] = "idle") /\ reboots' = reboots
    BY <2>1, RequestNumbered
  <2>2. CASE ReceiveR2A \/ SendQueued
    BY <2>2, DriverNumbered
  <2>3. CASE Reboot
    <3>1. reboots' = 0 /\ reboots' = reboots + 1 /\ reboots \in Nat
      BY <2>3 DEF Reboot, FewStreams, Inv, EndsInv
    <3>2. QED
      BY <3>1
  <2>4. CASE Irq \/ ReceiveA2R \/ Publish
    BY <2>4, IrqNumbered, ReceiveA2RNumbered, PublishNumbered
  <2>5. CASE FlushPacket
    BY <2>5 DEF FlushPacket, amiga, counts
  <2>6. CASE ReadMessage \/ MessagesRead \/ \E c \in Clients : ConnectionEvent(c)
    BY <2>6, ConnectionsNumbered
  <2>7. ASSUME NEW c \in Clients, ClientStep(c) \/ ClientClose(c) \/ handle_server_socket_ready(c)
        PROVE  (\A q \in Requests : io'[q] = "idle" => io[q] = "idle") /\ reboots' = reboots
    BY <2>7, ClientNumbered
  <2>8. ASSUME NEW n \in Sessions, NEW type \in Speaks, ClientSend(n, type)
        PROVE  (\A q \in Requests : io'[q] = "idle" => io[q] = "idle") /\ reboots' = reboots
    BY <2>8, SendNumbered
  <2>9. CASE UNCHANGED vars
    BY <2>9 DEF vars, amiga, counts
  <2>10. QED
    BY <2>1, <2>2, <2>3, <2>4, <2>5, <2>6, <2>7, <2>8, <2>9 DEF Next, DriverStep, ThreadStep
<1> DEFINE b == Cardinality(Begun)
           c == Cardinality(Begun')
<1>2. b \in Nat /\ c \in Nat /\ b <= c
  BY <1>1, BegunGrows
<1>3. c <= NumIds /\ reboots' = 0 /\ NumIds \in Nat
  BY IdAssumption DEF FewStreams, IdAssumption
<1> HIDE DEF b, c
<1>4. b <= NumIds
  BY <1>2, <1>3
<1>5. QED
  BY <1>1, <1>3, <1>4 DEF FewStreams, b

\* The ids that are given stay as few as the streams that have begun.
LEMMA StillNumbered ==
  ASSUME Numbered, \A q \in Requests : io'[q] = "idle" => io[q] = "idle",
         \A k \in Nat : Low(k) => Low(k)'
  PROVE  Numbered'
<1> DEFINE b == Cardinality(Begun)
           c == Cardinality(Begun')
<1>1. PICK k \in Nat : k <= b /\ Low(k)
  BY DEF Numbered
<1>2. b \in Nat /\ c \in Nat /\ b <= c
  BY BegunGrows
<1> HIDE DEF b, c
<1>3. k <= c
  BY <1>1, <1>2
<1>4. Low(k)'
  BY <1>1
<1>5. QED
  BY <1>3, <1>4 DEF Numbered, c

\* Every step takes the next id or none.
LEMMA NextNumbered ==
  ASSUME Inv, Ordered, Numbered, [Next]_vars, FewStreams'
  PROVE  Numbered' /\ \A r \in Requests : AppRequest(r) => FreshIds
<1>1. Cardinality(Begun') <= NumIds
  BY DEF FewStreams
<1>2. ASSUME NEW r \in Requests, AppRequest(r) PROVE FreshIds /\ Numbered'
  BY <1>1, <1>2, RequestNumbered
<1> SUFFICES Numbered'
  BY <1>2
<1>3. CASE ReceiveR2A \/ SendQueued
  <2>1. (\A q \in Requests : io'[q] = "idle" => io[q] = "idle") /\ \A k \in Nat : Low(k) => Low(k)'
    BY <1>3, DriverNumbered
  <2>2. QED
    BY <2>1, StillNumbered
<1>4. ~Reboot
  <2>1. SUFFICES ASSUME Reboot PROVE FALSE
    OBVIOUS
  <2>2. reboots' = 0 /\ reboots' = reboots + 1 /\ reboots \in Nat
    BY <2>1 DEF Reboot, FewStreams, Inv, EndsInv
  <2>3. QED
    BY <2>2
<1>5. CASE Irq \/ ReceiveA2R
  <2>1. (\A q \in Requests : io'[q] = "idle" => io[q] = "idle") /\ \A k \in Nat : Low(k) => Low(k)'
    BY <1>5, IrqNumbered, ReceiveA2RNumbered
  <2>2. QED
    BY <2>1, StillNumbered
<1>6. CASE FlushPacket \/ Publish
  <2>1. (\A q \in Requests : io'[q] = "idle" => io[q] = "idle") /\ \A k \in Nat : Low(k) => Low(k)'
    BY <1>6, FlushPacketNumbered, PublishNumbered
  <2>2. QED
    BY <2>1, StillNumbered
<1>7. CASE ReadMessage \/ MessagesRead \/ \E c \in Clients : ConnectionEvent(c)
  <2>1. (\A q \in Requests : io'[q] = "idle" => io[q] = "idle") /\ \A k \in Nat : Low(k) => Low(k)'
    BY <1>7, ConnectionsNumbered
  <2>2. QED
    BY <2>1, StillNumbered
<1>8. ASSUME NEW c \in Clients, ClientStep(c) \/ ClientClose(c) \/ handle_server_socket_ready(c)
      PROVE  Numbered'
  BY <1>8, ClientNumbered, StillNumbered
<1>9. ASSUME NEW n \in Sessions, NEW type \in Speaks, ClientSend(n, type) PROVE Numbered'
  BY <1>9, SendNumbered, StillNumbered
<1>10. CASE UNCHANGED vars
  <2>1. UNCHANGED <<next_stream_id, socket, io, channels, a2r, r2a, send_buf>>
    BY <1>10 DEF vars, amiga, table, loop
  <2>2. \A k \in Nat : Low(k) => Low(k)'
    BY <2>1 DEF Low, Within
  <2>3. QED
    BY <2>1, <2>2, StillNumbered
<1>11. QED
  BY <1>2, <1>3, <1>4, <1>5, <1>6, <1>7, <1>8, <1>9, <1>10 DEF Next, DriverStep, ThreadStep

-----------------------------------------------------------------------------
(* The theorems. *)

\* The order holds as long as the ids that allocate_stream_id gives (sockets.c:38) are not in use.
LEMMA FreshOrdered == Inv /\ Inv' /\ Ordered /\ [Next]_vars /\ [FreshIds]_vars => Ordered'
<1> SUFFICES ASSUME Inv, Inv', Ordered, [Next]_vars, [FreshIds]_vars PROVE Ordered'
  OBVIOUS
<1>1. FreshIds
  <2>1. CASE UNCHANGED vars
    <3>1. socket' = socket
      BY <2>1 DEF vars, amiga
    <3>2. QED
      BY <3>1 DEF FreshIds
  <2>2. QED
    BY <2>1
<1>2. QED
  BY <1>1, NextOrdered

\* In few streams it always holds.
FewOrdered == FewStreams => Ordered /\ Numbered
\* At the start no id is given.
LEMMA InitFewOrdered == Init => FewOrdered
<1> SUFFICES ASSUME Init PROVE Ordered /\ Numbered
  BY DEF FewOrdered
<1>1. Ordered
  BY InitOrdered
<1>2. Low(0)
  <2>1. next_stream_id = 1 /\ socket = <<>> /\ channels = <<>> /\ a2r = <<>> /\ r2a = <<>> /\ send_buf = <<>>
    BY DEF Init
  <2>2. (0 % NumIds) + 1 = 1
    BY IdAssumption DEF IdAssumption
  <2>3. DOMAIN <<>> = {}
    OBVIOUS
  <2>4. QED
    BY <2>1, <2>2, <2>3 DEF Low, Within
<1>3. Cardinality(Begun) \in Nat
  <2>1. Begun \in SUBSET Sessions
    BY DEF Begun
  <2> DEFINE B == Begun
  <2> HIDE DEF B
  <2>2. IsFiniteSet(B)
    BY <2>1, SessionsAreFinite, FS_Subset DEF B
  <2>3. QED
    BY <2>2, FS_CardinalityType DEF B
<1>4. 0 \in Nat /\ 0 <= Cardinality(Begun)
  BY <1>3
<1>5. QED
  BY <1>1, <1>2, <1>4 DEF Numbered
\* Every step keeps the order and the ids in few streams.
LEMMA NextFewOrdered == Inv /\ Inv' /\ FewOrdered /\ [Next]_vars => FewOrdered'
<1> SUFFICES ASSUME Inv, Inv', FewOrdered, [Next]_vars, FewStreams' PROVE Ordered' /\ Numbered'
  BY DEF FewOrdered
<1>1. Ordered /\ Numbered
  BY FewBefore DEF FewOrdered
<1>2. Numbered' /\ \A r \in Requests : AppRequest(r) => FreshIds
  BY <1>1, NextNumbered
<1>3. Ordered'
  BY <1>1, <1>2, NextOrdered
<1>4. QED
  BY <1>2, <1>3

\* What an application reads is what the client of its stream wrote, and what the client gets is
\* what the application wrote, from the start and in order (handle_pkt_data of a314.cc and
\* of a314driver.c), as long as handle_app_connect gives no id that is still in use: by a
\* channel of the A314 thread or a packet under way.  allocate_stream_id does not see to it.
THEOREM DataComesInOrder == Spec /\ [][FreshIds]_vars => []DataInOrder
<1>1. Ordered => DataInOrder
  BY OrderedEnds
<1>2. QED
  BY <1>1, AlwaysInv, InitOrdered, FreshOrdered, PTL DEF Spec

\* An end of stream comes after all the data that was sent before it, both ways (handle_pkt_eos of
\* a314.cc and of a314driver.c), under the same condition.
THEOREM EosComesLast == Spec /\ [][FreshIds]_vars => []EosAfterData
<1>1. Ordered => EosAfterData
  BY OrderedEnds
<1>2. QED
  BY <1>1, AlwaysInv, InitOrdered, FreshOrdered, PTL DEF Spec

\* The condition holds, and with it the order, until the Amiga is reset or has opened more streams
\* than there are ids: allocate_stream_id counts through all of them before it gives one again.
THEOREM FewStreamsInOrder == Spec => [](FewStreams => DataInOrder)
<1>1. FewOrdered => (FewStreams => DataInOrder)
  BY OrderedEnds DEF FewOrdered
<1>2. QED
  BY <1>1, AlwaysInv, InitFewOrdered, NextFewOrdered, PTL DEF Spec

\* So does the end of stream.
THEOREM FewStreamsEndLast == Spec => [](FewStreams => EosAfterData)
<1>1. FewOrdered => (FewStreams => EosAfterData)
  BY OrderedEnds DEF FewOrdered
<1>2. QED
  BY <1>1, AlwaysInv, InitFewOrdered, NextFewOrdered, PTL DEF Spec
-----------------------------------------------------------------------------
(* What one step of the driver does to what its end has read and written. *)

Shown == {"read", "written", "eosRead", "eosWritten"}
SameEnds(d, e) ==
  /\ Shown \subseteq DOMAIN e
  /\ e.read = d.read /\ e.written = d.written /\ e.eosRead = d.eosRead /\ e.eosWritten = d.eosWritten

\* Sockets, queues, replies and packets are something else.
LEMMA OtherFields ==
  ASSUME NEW d, Shown \subseteq DOMAIN d, NEW x
  PROVE  /\ SameEnds(d, [d EXCEPT !.socket = x]) /\ SameEnds(d, [d EXCEPT !.send_queue = x])
         /\ SameEnds(d, [d EXCEPT !.io = x]) /\ SameEnds(d, [d EXCEPT !.a2r = x])
         /\ SameEnds(d, [d EXCEPT !.next_stream_id = x])
  BY DEF Shown, SameEnds

\* Two steps that show nothing are one.
LEMMA TwoSame ==
  ASSUME NEW d, NEW e, NEW f, SameEnds(d, e), SameEnds(e, f)
  PROVE  SameEnds(d, f)
  BY DEF SameEnds

\* The helpers of the driver (sockets.c) change none of it.
LEMMA HelpersShowNothing ==
  ASSUME NEW d, Shown \subseteq DOMAIN d, NEW i
  PROVE  /\ SameEnds(d, Device!remove_from_send_queue(d, i))
         /\ SameEnds(d, Device!add_to_send_queue(d, i))
         /\ SameEnds(d, Device!delete_socket(d, i))
         /\ \A r, x : SameEnds(d, Device!ReplyMsg(d, r, x))
         /\ \A t, x : SameEnds(d, Device!append_a2r_packet(d, t, i, x))
  BY OtherFields DEF Device!remove_from_send_queue, Device!add_to_send_queue, Device!delete_socket,
     Device!ReplyMsg, Device!append_a2r_packet

\* Nor does a change of a socket.
LEMMA FieldsShowNothing ==
  ASSUME NEW d, Shown \subseteq DOMAIN d, NEW i, NEW x
  PROVE  /\ SameEnds(d, [d EXCEPT !.socket[i] = x])
         /\ SameEnds(d, [d EXCEPT !.socket[i].flags = x])
         /\ SameEnds(d, [d EXCEPT !.socket[i].flags = @ \union x])
         /\ SameEnds(d, [d EXCEPT !.socket[i].rq = x])
         /\ SameEnds(d, [d EXCEPT !.socket[i].rq = Tail(@)])
         /\ SameEnds(d, [d EXCEPT !.socket[i].rq = Append(@, x)])
         /\ SameEnds(d, [d EXCEPT !.socket[i].pending_read = x])
         /\ SameEnds(d, [d EXCEPT !.socket[i].pending_write = x])
         /\ SameEnds(d, [d EXCEPT !.socket[i].pending_connect = x])
         /\ \A y : SameEnds(d, [d EXCEPT !.socket[i].flags = @ \union y, !.socket[i].pending_read = x])
  BY OtherFields

\* close_socket throws away what was not read, and reads nothing.
LEMMA CloseShowsNothing ==
  ASSUME NEW d, Shown \subseteq DOMAIN d, NEW i, NEW z \in BOOLEAN
  PROVE  SameEnds(d, Device!close_socket(d, i, z))
<1> DEFINE s == d.socket[i]
           held == Device!Pending(s)
           o == [d EXCEPT !.io = [r \in Device!Requests |-> IF r \in held THEN "RESET" ELSE @[r]]]
           e == Device!remove_from_send_queue(o, i)
           closed == [s EXCEPT !.pending_connect = NoOne, !.pending_read = NoOne,
                               !.pending_write = NoOne, !.rq = <<>>,
                               !.flags = @ \union {"CLOSED", "SHOULD_SEND_RESET"}]
           f == [e EXCEPT !.socket[i] = closed]
           u == Device!append_a2r_packet(e, "RESET", i, Device!Nothing)
           c == Device!close_socket(d, i, z)
<1>1. SameEnds(d, o)
  BY OtherFields
<1>2. SameEnds(o, e)
  <2> HIDE DEF o
  <2>1. QED
    BY <1>1, HelpersShowNothing DEF SameEnds
<1>3. SameEnds(e, u)
  <2> HIDE DEF e
  <2>1. Shown \subseteq DOMAIN e
    BY <1>2 DEF SameEnds
  <2>2. \A t, x : SameEnds(e, Device!append_a2r_packet(e, t, i, x))
    BY <2>1, HelpersShowNothing
  <2>3. QED
    BY <2>2
<1>4. SameEnds(e, f)
  <2> HIDE DEF e, closed
  <2>1. QED
    BY <1>2, FieldsShowNothing DEF SameEnds
<1>5. c = Device!delete_socket(e, i) \/ c = Device!delete_socket(u, i) \/ c = Device!add_to_send_queue(f, i)
  BY DEF Device!close_socket
<1> HIDE DEF c, e, f, u, o
<1>6. SameEnds(e, Device!delete_socket(e, i)) /\ SameEnds(u, Device!delete_socket(u, i))
      /\ SameEnds(f, Device!add_to_send_queue(f, i))
  BY <1>2, <1>3, <1>4, HelpersShowNothing DEF SameEnds
<1>7. QED
  BY <1>1, <1>2, <1>3, <1>4, <1>5, <1>6 DEF SameEnds, c
\* A session of an open socket reads an item, writes one, is told the end or ends.
ReadsOne(d, e) ==
  /\ e.written = d.written /\ e.eosRead = d.eosRead /\ e.eosWritten = d.eosWritten
  /\ \E x : \E i \in DOMAIN e.socket :
       /\ "CLOSED" \notin e.socket[i].flags
       /\ e.read = [d.read EXCEPT ![e.socket[i].session] = Append(@, x)]
WritesOne(d, e) ==
  /\ e.read = d.read /\ e.eosRead = d.eosRead /\ e.eosWritten = d.eosWritten
  /\ \E n \in Sessions \ d.eosWritten : e.written = [d.written EXCEPT ![n] = @ + 1]
ReadsEnd(d, e) ==
  /\ e.read = d.read /\ e.written = d.written /\ e.eosWritten = d.eosWritten
  /\ \E n \in Sessions : e.eosRead = d.eosRead \union {n}
WritesEnd(d, e) ==
  /\ e.read = d.read /\ e.written = d.written /\ e.eosRead = d.eosRead
  /\ \E n \in Sessions : e.eosWritten = d.eosWritten \union {n}
OneEnd(d, e) ==
  SameEnds(d, e) \/ ReadsOne(d, e) \/ WritesOne(d, e) \/ ReadsEnd(d, e) \/ WritesEnd(d, e)

\* The driver has what the ends see, and sockets of sessions.
LEMMA DriverIsShown ==
  ASSUME NEW d \in DriverStates
  PROVE  /\ Shown \subseteq DOMAIN d
         /\ \A i \in DOMAIN d.socket : d.socket[i] \in SocketType /\ d.socket[i].session \in Sessions
<1>1. Shown \subseteq DOMAIN d
  BY DEF Shown, DriverStates
<1>2. ASSUME NEW i \in DOMAIN d.socket
      PROVE  d.socket[i] \in SocketType /\ d.socket[i].session \in Sessions
  <2>1. d.socket \in SocketMaps
    BY DEF DriverStates
  <2>2. QED
    BY <2>1, MapsOfSockets, SocketFields
<1>3. QED
  BY <1>1, <1>2

\* A step that shows nothing, before one that does,
LEMMA SameThenOne ==
  ASSUME NEW d, NEW e, NEW f, SameEnds(d, e), OneEnd(e, f)
  PROVE  OneEnd(d, f)
<1>1. /\ d.read = e.read /\ d.written = e.written
      /\ d.eosRead = e.eosRead /\ d.eosWritten = e.eosWritten
  BY DEF SameEnds
<1>2. CASE SameEnds(e, f)
  BY <1>1, <1>2 DEF OneEnd, SameEnds
<1>3. CASE ReadsOne(e, f)
  <2>1. ReadsOne(d, f)
    BY <1>1, <1>3 DEF ReadsOne
  <2>2. QED
    BY <2>1 DEF OneEnd
<1>4. CASE WritesOne(e, f)
  BY <1>1, <1>4 DEF OneEnd, WritesOne
<1>5. CASE ReadsEnd(e, f)
  BY <1>1, <1>5 DEF OneEnd, ReadsEnd
<1>6. CASE WritesEnd(e, f)
  BY <1>1, <1>6 DEF OneEnd, WritesEnd
<1>7. QED
  BY <1>2, <1>3, <1>4, <1>5, <1>6 DEF OneEnd

\* and after one that does.
LEMMA EndThenSame ==
  ASSUME NEW d, NEW e, NEW f, WritesOne(d, e) \/ ReadsEnd(d, e) \/ WritesEnd(d, e), SameEnds(e, f)
  PROVE  OneEnd(d, f)
  BY DEF OneEnd, SameEnds, WritesOne, ReadsEnd, WritesEnd

\* The flags of a socket that has ended, which may close it (SetEosFlag).
LEMMA FlagShowsNothing ==
  ASSUME NEW d, Shown \subseteq DOMAIN d, NEW i, NEW flag
  PROVE  SameEnds(d, Device!SetEosFlag(d, i, flag))
<1> DEFINE e == [d EXCEPT !.socket[i].flags = @ \union {flag}]
           c == Device!close_socket(e, i, FALSE)
<1>1. SameEnds(d, e)
  BY FieldsShowNothing
<1>2. Device!SetEosFlag(d, i, flag) \in {e, c}
  BY DEF Device!SetEosFlag
<1> HIDE DEF e
<1>3. SameEnds(e, c)
  BY <1>1, CloseShowsNothing DEF SameEnds
<1> HIDE DEF c
<1>4. SameEnds(d, c)
  BY <1>1, <1>3, TwoSame
<1>5. QED
  BY <1>1, <1>2, <1>4

\* A request refused closes its socket.
LEMMA RefusalShowsNothing ==
  ASSUME NEW d, Shown \subseteq DOMAIN d, NEW i, NEW r, NEW x
  PROVE  SameEnds(d, Device!close_socket(Device!ReplyMsg(d, r, x), i, TRUE))
         /\ SameEnds(d, Device!close_socket(Device!ReplyMsg(d, r, x), i, FALSE))
<1> DEFINE e == Device!ReplyMsg(d, r, x)
<1>1. SameEnds(d, e)
  <2>1. \A q, y : SameEnds(d, Device!ReplyMsg(d, q, y))
    BY HelpersShowNothing
  <2>2. QED
    BY <2>1
<1> HIDE DEF e
<1>2. SameEnds(e, Device!close_socket(e, i, TRUE)) /\ SameEnds(e, Device!close_socket(e, i, FALSE))
  BY <1>1, CloseShowsNothing DEF SameEnds
<1>3. QED
  BY <1>1, <1>2, TwoSame DEF e

\* A write is sent, or EOS, and its request replied to (SendData, SendEos, ReplyEos).
LEMMA SentIsShown ==
  ASSUME NEW d, Shown \subseteq DOMAIN d, NEW i, d.socket[i].session \in Sessions, NEW r
  PROVE  /\ d.socket[i].session \notin d.eosWritten => OneEnd(d, Device!SendData(d, r, i))
         /\ OneEnd(d, Device!SendEos(d, r, i)) /\ OneEnd(d, Device!ReplyEos(d, r, i))
<1> DEFINE n == d.socket[i].session
           c == Device!append_a2r_packet(d, "DATA", i, Device!Item(n, d.written[n] + 1))
           e == Device!ReplyMsg(c, r, "OK")
           a == Device!append_a2r_packet(d, "EOS", i, Device!Nothing)
           u == Device!ReplyMsg(a, r, "OK")
           f == [u EXCEPT !.eosWritten = @ \union {n}]
           v == Device!ReplyMsg(d, r, "EOS")
           h == [v EXCEPT !.eosRead = @ \union {n}]
<1>1. Shown \subseteq DOMAIN d /\ n \in Sessions
  OBVIOUS
<1>2. SameEnds(d, c) /\ SameEnds(d, a) /\ SameEnds(d, v)
  <2>1. /\ \A t, x : SameEnds(d, Device!append_a2r_packet(d, t, i, x))
        /\ \A q, y : SameEnds(d, Device!ReplyMsg(d, q, y))
    BY <1>1, HelpersShowNothing
  <2>2. QED
    BY <2>1
<1> DEFINE z == [e EXCEPT !.written[n] = @ + 1]
<1>3. /\ Device!SendData(d, r, i) = z
      /\ Device!SendEos(d, r, i) = Device!SetEosFlag(f, i, "SENT_EOS_TO_RPI")
      /\ Device!ReplyEos(d, r, i) = Device!SetEosFlag(h, i, "SENT_EOS_TO_APP")
  BY DEF Device!SendData, Device!SendEos, Device!ReplyEos
<1>4. SameEnds(d, e) /\ SameEnds(d, u)
  <2>1. Shown \subseteq DOMAIN c /\ Shown \subseteq DOMAIN a
    BY <1>2 DEF SameEnds
  <2> HIDE DEF c, a
  <2>2. (\A q, y : SameEnds(c, Device!ReplyMsg(c, q, y))) /\ \A q, y : SameEnds(a, Device!ReplyMsg(a, q, y))
    BY <2>1, HelpersShowNothing
  <2>3. SameEnds(c, e) /\ SameEnds(a, u)
    BY <2>2
  <2> HIDE DEF e, u
  <2>4. QED
    BY <1>2, <2>3, TwoSame
<1> HIDE DEF n, e, u, v
<1>5. n \notin d.eosWritten => WritesOne(d, z)
  BY <1>1, <1>4 DEF WritesOne, SameEnds, Shown
<1>6. WritesEnd(d, f) /\ Shown \subseteq DOMAIN f
  BY <1>1, <1>4 DEF WritesEnd, SameEnds, Shown
<1>7. ReadsEnd(d, h) /\ Shown \subseteq DOMAIN h
  BY <1>1, <1>2 DEF ReadsEnd, SameEnds, Shown
<1> HIDE DEF f, h, z
<1>8. OneEnd(d, Device!SetEosFlag(f, i, "SENT_EOS_TO_RPI"))
  BY <1>6, FlagShowsNothing, EndThenSame
<1>9. OneEnd(d, Device!SetEosFlag(h, i, "SENT_EOS_TO_APP"))
  BY <1>7, FlagShowsNothing, EndThenSame
<1>10. QED
  BY <1>3, <1>5, <1>8, <1>9 DEF OneEnd, n
\* A socket that stays open is the one whose session reads the item.
LEMMA ReadIsShown ==
  ASSUME NEW d \in DriverStates, NEW i \in DOMAIN d.socket, "CLOSED" \notin d.socket[i].flags,
         NEW r \in Requests, NEW x, NEW q
  PROVE  /\ ReadsOne(d, Filled(Device!ReplyData(d, r, i, x), i, q))
         /\ ReadsOne(d, Reading(Device!ReplyData(d, r, i, x), i, q))
<1> DEFINE n == d.socket[i].session
           c == Device!ReplyData(d, r, i, x)
           e == Filled(c, i, q)
           f == Reading(c, i, q)
           s == [d.socket[i] EXCEPT !.rq = q]
           t == [d.socket[i] EXCEPT !.pending_read = q]
<1>1. Shown \subseteq DOMAIN d /\ d.socket[i] \in SocketType
  BY DriverIsShown
<1>2. Replied(d, r, i, x, c)
  BY ReplyDataIs
<1>3. DOMAIN c = DOMAIN d
  BY DEF Device!ReplyData, Device!ReplyMsg
<1>4. "socket" \in DOMAIN d
  BY DEF DriverStates
<1>5. /\ s.session = n /\ s.flags = d.socket[i].flags
      /\ t.session = n /\ t.flags = d.socket[i].flags
  BY <1>1 DEF SocketType
<1> HIDE DEF c
<1>6. /\ e.socket = [d.socket EXCEPT ![i] = s] /\ f.socket = [d.socket EXCEPT ![i] = t]
      /\ SameEnds(c, e) /\ SameEnds(c, f)
  <2>1. Shown \subseteq DOMAIN c
    BY <1>1, <1>3
  <2>2. SameEnds(c, e) /\ SameEnds(c, f)
    BY <2>1, FieldsShowNothing DEF Filled, Reading
  <2>3. e.socket = [c.socket EXCEPT ![i] = [c.socket[i] EXCEPT !.rq = q]]
    BY <1>3, <1>4 DEF Filled
  <2>4. f.socket = [c.socket EXCEPT ![i] = [c.socket[i] EXCEPT !.pending_read = q]]
    BY <1>3, <1>4 DEF Reading
  <2>5. c.socket = d.socket
    BY <1>2 DEF Replied
  <2>6. QED
    BY <2>2, <2>3, <2>4, <2>5
<1>7. /\ c.read = [d.read EXCEPT ![n] = Append(@, x)] /\ c.written = d.written
      /\ c.eosRead = d.eosRead /\ c.eosWritten = d.eosWritten
  BY <1>2 DEF Replied
<1> HIDE DEF s, t, e, f, n
<1>8. /\ i \in DOMAIN e.socket /\ e.socket[i] = s
      /\ i \in DOMAIN f.socket /\ f.socket[i] = t
  BY <1>6
<1>9. ASSUME NEW u \in {e, f} PROVE ReadsOne(d, u)
  <2>1. i \in DOMAIN u.socket /\ u.socket[i].session = n /\ "CLOSED" \notin u.socket[i].flags
    BY <1>5, <1>8, <1>9
  <2>2. /\ u.read = [d.read EXCEPT ![n] = Append(@, x)] /\ u.written = d.written
        /\ u.eosRead = d.eosRead /\ u.eosWritten = d.eosWritten
    BY <1>6, <1>7, <1>9 DEF SameEnds
  <2>3. u.read = [d.read EXCEPT ![u.socket[i].session] = Append(@, x)]
    BY <2>1, <2>2
  <2>4. QED
    BY <2>1, <2>2, <2>3 DEF ReadsOne
<1>10. ReadsOne(d, e) /\ ReadsOne(d, f)
  BY <1>9
<1>11. QED
  BY <1>10 DEF c, e, f

\* handle_app_read
LEMMA ReadShown ==
  ASSUME NEW d \in DriverStates, NEW i \in DOMAIN d.socket, ~Device!Closed(d.socket[i]), NEW r \in Requests,
         r.op \in {"READ", "SHORT"}
  PROVE  OneEnd(d, Device!handle_app_read(d, r, i))
<1> DEFINE s == d.socket[i]
           free == s.pending_connect = NoOne /\ s.pending_read = NoOne
           e == Device!ReplyMsg(d, r, "held")
           u == Device!close_socket(Device!ReplyMsg(d, r, "RESET"), i, TRUE)
           y == Device!ReplyData(d, r, i, Head(s.rq))
           w == Filled(y, i, Tail(s.rq))
           z == Device!ReplyEos(d, r, i)
           v == Reading(e, i, r)
<1>1. Shown \subseteq DOMAIN d
  BY DriverIsShown
<1>2. Device!handle_app_read(d, r, i) \in {u, w, z, v}
  <2>1. Replied(d, r, i, Head(s.rq), y)
    BY ReplyDataIs
  <2>2. y.socket[i].rq = s.rq
    BY <2>1 DEF Replied
  <2> HIDE DEF y, u, z, e
  <2>3. [y EXCEPT !.socket[i].rq = Tail(@)] = w
    BY <2>2 DEF Filled
  <2>4. QED
    BY <2>3 DEF Device!handle_app_read, Reading, y, u, z, e
<1>3. OneEnd(d, u)
  BY <1>1, RefusalShowsNothing DEF OneEnd
<1>4. OneEnd(d, w)
  BY ReadIsShown DEF OneEnd, Device!Closed
<1>5. OneEnd(d, z)
  BY <1>1, DriverIsShown, SentIsShown
<1>6. OneEnd(d, v)
  <2>1. \A q, x : SameEnds(d, Device!ReplyMsg(d, q, x))
    BY <1>1, HelpersShowNothing
  <2>2. SameEnds(d, e)
    BY <2>1
  <2> HIDE DEF e
  <2>3. SameEnds(e, v)
    BY <2>2, FieldsShowNothing DEF SameEnds, Reading
  <2>4. QED
    BY <2>2, <2>3, TwoSame DEF OneEnd
<1> HIDE DEF u, w, z, v
<1>7. QED
  BY <1>2, <1>3, <1>4, <1>5, <1>6

\* A write that waits
LEMMA WaitShowsNothing ==
  ASSUME NEW d, Shown \subseteq DOMAIN d, NEW i, NEW r
  PROVE  SameEnds(d, Device!Wait(d, r, i))
<1> DEFINE e == Device!ReplyMsg(d, r, "held")
           f == Writing(e, i, r)
<1>1. \A q, x : SameEnds(d, Device!ReplyMsg(d, q, x))
  BY HelpersShowNothing
<1>2. SameEnds(d, e)
  BY <1>1
<1> HIDE DEF e
<1>3. SameEnds(e, f)
  BY <1>2, FieldsShowNothing DEF SameEnds, Writing
<1>4. Shown \subseteq DOMAIN f
  BY <1>3 DEF SameEnds
<1> HIDE DEF f
<1>5. SameEnds(f, Device!add_to_send_queue(f, i))
  BY <1>4, HelpersShowNothing
<1>6. SameEnds(d, Device!add_to_send_queue(f, i))
  BY <1>2, <1>3, <1>5, TwoSame
<1>7. QED
  BY <1>6 DEF Device!Wait, Writing, e, f

\* handle_app_write, handle_app_eos
LEMMA WriteShown ==
  ASSUME NEW d \in DriverStates, Ready(d), NEW i \in DOMAIN d.socket, NEW r
  PROVE  OneEnd(d, Device!handle_app_write(d, r, i)) /\ OneEnd(d, Device!handle_app_eos(d, r, i))
<1> DEFINE s == d.socket[i]
           may == Device!MayWrite(s)
           u == Device!close_socket(Device!ReplyMsg(d, r, "RESET"), i, TRUE)
           e == Flagged(d, i, "RCVD_EOS_FROM_APP")
<1>1. Shown \subseteq DOMAIN d /\ s \in SocketType
  BY DriverIsShown
<1>2. may => s.session \notin d.eosWritten
  BY DEF Ready, ReadyOf, Device!MayWrite
<1>3. OneEnd(d, u)
  BY <1>1, RefusalShowsNothing DEF OneEnd
<1>4. OneEnd(d, Device!Wait(d, r, i))
  BY <1>1, WaitShowsNothing DEF OneEnd
<1>5. may => OneEnd(d, Device!SendData(d, r, i))
  BY <1>1, <1>2, DriverIsShown, SentIsShown
<1>6. e.socket[i].session \in Sessions /\ SameEnds(d, e)
  <2>1. SameEnds(d, e)
    BY <1>1, FieldsShowNothing DEF Flagged
  <2>2. e.socket[i] = [s EXCEPT !.flags = s.flags \union {"RCVD_EOS_FROM_APP"}]
    BY FlagIs
  <2>3. s.session \in Sessions
    BY DriverIsShown
  <2> HIDE DEF e
  <2>4. e.socket[i].session = s.session
    BY <1>1, <2>2 DEF SocketType
  <2>5. QED
    BY <2>1, <2>3, <2>4
<1>7. OneEnd(e, Device!SendEos(e, r, i)) /\ OneEnd(e, Device!Wait(e, r, i))
  <2> HIDE DEF e
  <2>1. Shown \subseteq DOMAIN e
    BY <1>6 DEF SameEnds
  <2>2. QED
    BY <1>6, <2>1, SentIsShown, WaitShowsNothing DEF OneEnd
<1>8. OneEnd(d, Device!SendEos(e, r, i)) /\ OneEnd(d, Device!Wait(e, r, i))
  <2> HIDE DEF e
  <2>1. QED
    BY <1>6, <1>7, SameThenOne
<1>9. Device!handle_app_write(d, r, i) \in {u, Device!Wait(d, r, i)}
        \/ (may /\ Device!handle_app_write(d, r, i) = Device!SendData(d, r, i))
  BY DEF Device!handle_app_write
<1>10. Device!handle_app_eos(d, r, i) \in {u, Device!SendEos(e, r, i), Device!Wait(e, r, i)}
  BY DEF Device!handle_app_eos, Flagged
<1> HIDE DEF may, u, e
<1>11. QED
  BY <1>3, <1>4, <1>5, <1>8, <1>9, <1>10
\* A CONNECT opens a socket (handle_app_connect).
LEMMA ConnectShowsNothing ==
  ASSUME NEW d, Shown \subseteq DOMAIN d, NEW r
  PROVE  SameEnds(d, Device!handle_app_connect(d, r))
<1> DEFINE i == Device!allocate_stream_id(d)
           c == Device!ReplyMsg(d, r, "held")
           x == Device!Extend(c.socket, i, NewSocket(r))
           f == [c EXCEPT !.socket = x]
           e == [f EXCEPT !.next_stream_id = (i % NumIds) + 1]
           a == Device!append_a2r_packet(e, "CONNECT", i, Device!Item(r, 0))
           w == Device!add_to_send_queue(e, i)
<1>1. Device!handle_app_connect(d, r) \in {a, w}
  <2>1. e = [Device!ReplyMsg(d, r, "held") EXCEPT !.socket = Device!Extend(@, i, NewSocket(r)),
                                                  !.next_stream_id = (i % NumIds) + 1]
    OBVIOUS
  <2> HIDE DEF e
  <2>2. QED
    BY <2>1 DEF Device!handle_app_connect, NewSocket
<1>2. \A q, y : SameEnds(d, Device!ReplyMsg(d, q, y))
  BY HelpersShowNothing
<1>3. SameEnds(d, c)
  BY <1>2
<1> HIDE DEF c, x, i
<1>4. SameEnds(c, f)
  BY <1>3, OtherFields DEF SameEnds
<1> HIDE DEF f
<1>5. SameEnds(f, e)
  BY <1>4, OtherFields DEF SameEnds
<1>6. SameEnds(d, e)
  BY <1>3, <1>4, <1>5, TwoSame
<1> HIDE DEF e
<1>7. Shown \subseteq DOMAIN e
  BY <1>6 DEF SameEnds
<1>8. SameEnds(e, w) /\ \A t, y : SameEnds(e, Device!append_a2r_packet(e, t, i, y))
  BY <1>7, HelpersShowNothing
<1>9. SameEnds(e, a)
  BY <1>8
<1> HIDE DEF a, w
<1>10. SameEnds(d, a) /\ SameEnds(d, w)
  BY <1>6, <1>8, <1>9, TwoSame
<1>11. QED
  BY <1>1, <1>10

\* A request of the application (handle_app_request),
LEMMA RequestShown ==
  ASSUME NEW d \in DriverStates, Ready(d), NEW r \in Requests
  PROVE  OneEnd(d, Device!handle_app_request(d, r))
<1> DEFINE open == Device!SocketsOf(d, r.key)
           i == CHOOSE j \in open : TRUE
           u == Device!handle_app_request(d, r)
<1>1. Shown \subseteq DOMAIN d /\ r.op \in Ops /\ \A j \in open : j \in DOMAIN d.socket
  BY DriverIsShown, RequestKinds DEF Device!SocketsOf
<1>2. \A x : SameEnds(d, Device!ReplyMsg(d, r, x))
  BY <1>1, HelpersShowNothing
<1>3. CASE r.op = "CONNECT"
  <2>1. u \in {Device!handle_app_connect(d, r), Device!ReplyMsg(d, r, "IN_USE")}
    BY <1>3 DEF Device!handle_app_request
  <2> HIDE DEF u
  <2>2. QED
    BY <1>1, <1>2, <2>1, ConnectShowsNothing DEF OneEnd, u
<1>4. CASE r.op # "CONNECT" /\ (open = {} \/ Device!Closed(d.socket[i]))
  <2>1. u \in {Device!ReplyMsg(d, r, "OK"), Device!ReplyMsg(d, r, "RESET")}
    BY <1>4 DEF Device!handle_app_request
  <2> HIDE DEF u
  <2>2. QED
    BY <1>2, <2>1 DEF OneEnd, u
<1>5. CASE r.op # "CONNECT" /\ open # {} /\ ~Device!Closed(d.socket[i])
  <2>1. i \in DOMAIN d.socket
    BY <1>1, <1>5
  <2>2. u = CASE r.op \in {"READ", "SHORT"} -> Device!handle_app_read(d, r, i)
              [] r.op = "WRITE" -> Device!handle_app_write(d, r, i)
              [] r.op = "EOS" -> Device!handle_app_eos(d, r, i)
              [] r.op = "RESET" -> Device!close_socket(Device!ReplyMsg(d, r, "OK"), i, TRUE)
    BY <1>5 DEF Device!handle_app_request
  <2> HIDE DEF u, open, i
  <2>3. r.op \in {"READ", "SHORT", "WRITE", "EOS", "RESET"}
    BY <1>1, <1>5 DEF Ops
  <2>4. r.op \in {"READ", "SHORT"} => OneEnd(d, Device!handle_app_read(d, r, i))
    BY <1>5, <2>1, ReadShown
  <2>5. OneEnd(d, Device!handle_app_write(d, r, i)) /\ OneEnd(d, Device!handle_app_eos(d, r, i))
    BY <2>1, WriteShown
  <2>6. OneEnd(d, Device!close_socket(Device!ReplyMsg(d, r, "OK"), i, TRUE))
    BY <1>1, RefusalShowsNothing DEF OneEnd
  <2>7. OneEnd(d, u)
    BY <2>2, <2>3, <2>4, <2>5, <2>6
  <2>8. QED
    BY <2>7 DEF u
<1>6. QED
  BY <1>3, <1>4, <1>5

\* a CONNECT_RESPONSE (handle_pkt_connect_response), DATA (handle_pkt_data) and EOS (handle_pkt_eos).
LEMMA ResponseShowsNothing ==
  ASSUME NEW d, Shown \subseteq DOMAIN d, NEW i, NEW result
  PROVE  SameEnds(d, Device!handle_pkt_connect_response(d, i, result))
<1> DEFINE r == d.socket[i].pending_connect
           e == [d EXCEPT !.socket[i].pending_connect = NoOne]
           f == Device!ReplyMsg(e, r, "OK")
           c == Device!close_socket(Device!ReplyMsg(e, r, "UNKNOWN"), i, FALSE)
<1>1. Device!handle_pkt_connect_response(d, i, result) \in {d, f, c}
  BY DEF Device!handle_pkt_connect_response
<1>2. SameEnds(d, e)
  BY FieldsShowNothing
<1>3. Shown \subseteq DOMAIN e
  BY <1>2 DEF SameEnds
<1> HIDE DEF e, r
<1>4. \A q, y : SameEnds(e, Device!ReplyMsg(e, q, y))
  BY <1>3, HelpersShowNothing
<1>5. SameEnds(e, f) /\ SameEnds(e, c)
  BY <1>3, <1>4, RefusalShowsNothing
<1> HIDE DEF f, c
<1>6. SameEnds(d, f) /\ SameEnds(d, c) /\ SameEnds(d, d)
  BY <1>2, <1>5, TwoSame DEF SameEnds
<1>7. QED
  BY <1>1, <1>6
\* An item goes to the queue of its socket, or to the request that waits for it.
LEMMA DataShown ==
  ASSUME NEW d \in DriverStates, NEW i \in DOMAIN d.socket, ~Device!Closed(d.socket[i]), NEW x,
         d.socket[i].pending_read \in Requests \union {NoOne}
  PROVE  OneEnd(d, Device!handle_pkt_data(d, i, x))
<1> DEFINE q == d.socket[i].pending_read
           f == [d EXCEPT !.socket[i].rq = Append(@, x)]
           c == Device!close_socket(d, i, TRUE)
           e == Reading(Device!ReplyData(d, q, i, x), i, NoOne)
<1>1. Shown \subseteq DOMAIN d
  BY DriverIsShown
<1>2. \/ Device!handle_pkt_data(d, i, x) \in {f, c}
      \/ q # NoOne /\ Device!handle_pkt_data(d, i, x) = e
  BY DEF Device!handle_pkt_data, Reading
<1>3. OneEnd(d, f) /\ OneEnd(d, c)
  BY <1>1, FieldsShowNothing, CloseShowsNothing DEF OneEnd
<1>4. q # NoOne => OneEnd(d, e)
  BY ReadIsShown DEF OneEnd, Device!Closed
<1> HIDE DEF f, c, e
<1>5. QED
  BY <1>2, <1>3, <1>4
\* The end of stream reaches the application, or its socket.
LEMMA EosShown ==
  ASSUME NEW d \in DriverStates, NEW i \in DOMAIN d.socket
  PROVE  OneEnd(d, Device!handle_pkt_eos(d, i))
<1> DEFINE s == d.socket[i]
           q == s.pending_read
           e == Ends(d, i)
<1>1. /\ Shown \subseteq DOMAIN d /\ s \in SocketType /\ s.session \in Sessions
      /\ d.socket = [j \in DOMAIN d.socket |-> d.socket[j]]
  BY DriverIsShown, MapsOfSockets DEF DriverStates
<1>2. e = [d EXCEPT !.socket[i].flags = @ \union {"RCVD_EOS_FROM_RPI"}, !.socket[i].pending_read = NoOne]
  BY <1>1 DEF Ends, Reading, Flagged, DriverStates, SocketType
<1>3. Device!handle_pkt_eos(d, i) \in {e, Device!ReplyEos(e, q, i)}
  BY <1>2 DEF Device!handle_pkt_eos
<1>4. PICK y : EndsAs(d, i, y, e)
  BY <1>1, EndsIs
<1>5. Shown \subseteq DOMAIN e
  BY <1>1, <1>2
<1> HIDE DEF e
<1>6. SameEnds(d, e) /\ e.socket[i].session \in Sessions
  BY <1>1, <1>4, <1>5 DEF EndsAs, SameEnds
<1>7. OneEnd(e, Device!ReplyEos(e, q, i))
  BY <1>5, <1>6, SentIsShown
<1>8. OneEnd(d, Device!ReplyEos(e, q, i))
  BY <1>6, <1>7, SameThenOne
<1>9. QED
  BY <1>3, <1>6, <1>8 DEF OneEnd

\* A packet from the A314 thread (handle_r2a_packet).
LEMMA PacketShown ==
  ASSUME NEW d \in DriverStates, NEW m \in PiPackets
  PROVE  OneEnd(d, Device!handle_r2a_packet(d, m))
<1> DEFINE i == m.id
           u == Device!handle_r2a_packet(d, m)
<1>1. Shown \subseteq DOMAIN d
  BY DriverIsShown
<1>2. m.type \in {"CONNECT_RESPONSE", "DATA", "EOS", "RESET"}
  BY DEF PiPackets
<1>3. CASE i \notin DOMAIN d.socket \/ (m.type # "RESET" /\ Device!Closed(d.socket[i]))
  <2>1. u = d
    BY <1>3 DEF Device!handle_r2a_packet
  <2>2. QED
    BY <1>1, <2>1 DEF OneEnd, SameEnds
<1>4. CASE i \in DOMAIN d.socket /\ m.type = "RESET"
  <2>1. u = Device!close_socket(d, i, FALSE)
    BY <1>4 DEF Device!handle_r2a_packet
  <2>2. QED
    BY <1>1, <2>1, CloseShowsNothing DEF OneEnd
<1>5. CASE i \in DOMAIN d.socket /\ m.type # "RESET" /\ ~Device!Closed(d.socket[i])
  <2>1. u = CASE m.type = "CONNECT_RESPONSE" -> Device!handle_pkt_connect_response(d, i, m.data.number)
              [] m.type = "DATA" -> Device!handle_pkt_data(d, i, m.data)
              [] m.type = "EOS" -> Device!handle_pkt_eos(d, i)
    BY <1>2, <1>5 DEF Device!handle_r2a_packet
  <2> HIDE DEF u
  <2>2. d.socket[i].pending_read \in Requests \union {NoOne}
    <3>1. d.socket[i] \in SocketType
      BY <1>5, DriverIsShown
    <3>2. d.socket[i].pending_read \in Reads \union {NoOne}
      BY <3>1 DEF SocketType
    <3>3. QED
      BY <3>2, RequestKinds
  <2>3. /\ OneEnd(d, Device!handle_pkt_connect_response(d, i, m.data.number))
        /\ OneEnd(d, Device!handle_pkt_eos(d, i))
    BY <1>1, <1>5, ResponseShowsNothing, EosShown DEF OneEnd
  <2>4. OneEnd(d, Device!handle_pkt_data(d, i, m.data))
    BY <1>5, <2>2, DataShown
  <2>5. OneEnd(d, u)
    BY <1>2, <1>5, <2>1, <2>3, <2>4
  <2>6. QED
    BY <2>5 DEF u
<1>6. QED
  BY <1>3, <1>4, <1>5

\* One turn of handle_room_in_a2r.
LEMMA RoomShown ==
  ASSUME NEW d \in DriverStates, Ready(d), d.send_queue # <<>>, Elems(d.send_queue) \subseteq DOMAIN d.socket
  PROVE  OneEnd(d, Device!handle_room_in_a2r(d))
<1> DEFINE i == Head(d.send_queue)
           s == d.socket[i]
           e == Device!remove_from_send_queue(d, i)
           w == s.pending_write
           f == Writing(e, i, NoOne)
           c == Device!append_a2r_packet(e, "CONNECT", i, Device!Item(s.session, 0))
           x == Device!append_a2r_packet(e, "RESET", i, Device!Nothing)
           h == Device!handle_room_in_a2r(d)
<1>1. /\ i \in DOMAIN d.socket /\ Shown \subseteq DOMAIN d /\ s.session \in Sessions /\ s \in SocketType
      /\ d.socket = [j \in DOMAIN d.socket |-> d.socket[j]]
  <2>1. d.send_queue \in Seq(Ids)
    BY DEF DriverStates
  <2>2. i \in DOMAIN d.socket
    BY <2>1, TailLeaves
  <2>3. QED
    BY <2>2, DriverIsShown, MapsOfSockets DEF DriverStates
<1>2. w # NoOne => s.session \notin d.eosWritten
  BY <1>1 DEF Ready, ReadyOf
<1>3. SameEnds(d, e) /\ e.socket = d.socket
  <2>1. e.socket = d.socket
    BY DEF Device!remove_from_send_queue, DriverStates
  <2> HIDE DEF e
  <2>2. QED
    BY <1>1, <2>1, HelpersShowNothing DEF e
<1>4. Shown \subseteq DOMAIN e /\ "socket" \in DOMAIN e
  <2>1. DOMAIN e = DOMAIN d
    BY DEF Device!remove_from_send_queue
  <2>2. QED
    BY <1>1, <2>1 DEF DriverStates
<1>5. h \in {c, Device!delete_socket(x, i), e} \/ (w # NoOne /\ h \in {Device!SendData(f, w, i), Device!SendEos(f, w, i)})
  BY DEF Device!handle_room_in_a2r, Writing
<1> HIDE DEF h, e, i
<1>6. SameEnds(e, c) /\ SameEnds(e, x)
  <2>1. \A t, y : SameEnds(e, Device!append_a2r_packet(e, t, i, y))
    BY <1>4, HelpersShowNothing
  <2>2. QED
    BY <2>1
<1> HIDE DEF c, x
<1>7. SameEnds(x, Device!delete_socket(x, i))
  BY <1>6, HelpersShowNothing DEF SameEnds
<1>8. SameEnds(d, c) /\ SameEnds(d, Device!delete_socket(x, i)) /\ SameEnds(d, e)
  BY <1>3, <1>6, <1>7, TwoSame
<1>9. SameEnds(e, f)
  BY <1>4, FieldsShowNothing DEF Writing
<1>10. f.socket[i].session = s.session
  <2>1. f.socket = [e.socket EXCEPT ![i] = [e.socket[i] EXCEPT !.pending_write = NoOne]]
    BY <1>4 DEF Writing
  <2>2. f.socket[i] = [s EXCEPT !.pending_write = NoOne]
    BY <1>1, <1>3, <2>1
  <2>3. [s EXCEPT !.pending_write = NoOne].session = s.session
    BY <1>1 DEF SocketType
  <2> HIDE DEF f, s
  <2>4. QED
    BY <2>2, <2>3
<1> HIDE DEF f, s
<1>11. SameEnds(d, f)
  BY <1>3, <1>9, TwoSame
<1>12. w # NoOne => f.socket[i].session \notin f.eosWritten
  BY <1>2, <1>10, <1>11 DEF SameEnds
<1>13. Shown \subseteq DOMAIN f /\ f.socket[i].session \in Sessions
  BY <1>1, <1>10, <1>11 DEF SameEnds
<1> HIDE DEF w
<1>14. w # NoOne => OneEnd(f, Device!SendData(f, w, i)) /\ OneEnd(f, Device!SendEos(f, w, i))
  BY <1>12, <1>13, SentIsShown
<1>15. w # NoOne => OneEnd(d, Device!SendData(f, w, i)) /\ OneEnd(d, Device!SendEos(f, w, i))
  BY <1>11, <1>14, SameThenOne
<1>16. OneEnd(d, h)
  BY <1>5, <1>8, <1>15 DEF OneEnd
<1>17. QED
  BY <1>16 DEF h
-----------------------------------------------------------------------------
(* What the two ends of a session see, as a state of A314Stream. *)

SentOf(w, st) == [d \in Sessions \X {"app", "client"} |-> IF d[2] = "app" THEN w[d[1]] ELSE st[d[1]].sent]
GotOf(x, st) == [d \in Sessions \X {"app", "client"} |->
                   Numbers(IF d[2] = "app" THEN st[d[1]].got ELSE x[d[1]])]
EndedOf(W, st) == {d \in Sessions \X {"app", "client"} : IF d[2] = "app" THEN d[1] \in W ELSE st[d[1]].ended}
ToldOf(R, st) == {d \in Sessions \X {"app", "client"} : IF d[2] = "app" THEN st[d[1]].eos ELSE d[1] \in R}
SENT == SentOf(written, stream)
GOT == GotOf(read, stream)
ENDED == EndedOf(eosWritten, stream)
TOLD == ToldOf(eosRead, stream)

\* The steps of A314Stream on them.
LEMMA PromiseSteps ==
  ASSUME NEW d \in Sessions \X {"app", "client"}
  PROVE  /\ d \notin ENDED /\ SENT' = [SENT EXCEPT ![d] = @ + 1]
              /\ UNCHANGED <<GOT, ENDED, TOLD>> => Promise!Next
         /\ Len(GOT[d]) < SENT[d] /\ d \notin TOLD /\ GOT' = [GOT EXCEPT ![d] = Append(@, Len(@) + 1)]
              /\ UNCHANGED <<SENT, ENDED, TOLD>> => Promise!Next
         /\ ENDED' = ENDED \union {d} /\ UNCHANGED <<SENT, GOT, TOLD>> => Promise!Next
         /\ d \in ENDED /\ Len(GOT[d]) = SENT[d] /\ TOLD' = TOLD \union {d}
              /\ UNCHANGED <<SENT, GOT, ENDED>> => Promise!Next
<1>1. d \in Promise!Directions
  BY DEF Promise!Directions, Promise!Ends
<1>3. d \notin ENDED /\ SENT' = [SENT EXCEPT ![d] = @ + 1] /\ UNCHANGED <<GOT, ENDED, TOLD>> => Promise!Send(d)
  BY DEF Promise!Send, SENT, GOT, ENDED, TOLD, SentOf, GotOf, EndedOf, ToldOf
<1>4. Len(GOT[d]) < SENT[d] /\ d \notin TOLD /\ GOT' = [GOT EXCEPT ![d] = Append(@, Len(@) + 1)]
        /\ UNCHANGED <<SENT, ENDED, TOLD>> => Promise!Get(d)
  BY DEF Promise!Get, SENT, GOT, ENDED, TOLD, SentOf, GotOf, EndedOf, ToldOf
<1>5. ENDED' = ENDED \union {d} /\ UNCHANGED <<SENT, GOT, TOLD>> => Promise!End(d)
  BY DEF Promise!End, SENT, GOT, ENDED, TOLD, SentOf, GotOf, EndedOf, ToldOf
<1>6. d \in ENDED /\ Len(GOT[d]) = SENT[d] /\ TOLD' = TOLD \union {d}
        /\ UNCHANGED <<SENT, GOT, ENDED>> => Promise!TellEnd(d)
  BY DEF Promise!TellEnd, SENT, GOT, ENDED, TOLD, SentOf, GotOf, EndedOf, ToldOf
<1>7. QED
  BY <1>1, <1>3, <1>4, <1>5, <1>6 DEF Promise!Next

\* A client that is told EOS ends too.
LEMMA PromiseAnswers ==
  ASSUME NEW n \in Sessions, <<n, "app">> \in ENDED, Len(GOT[<<n, "app">>]) = SENT[<<n, "app">>],
         TOLD' = TOLD \union {<<n, "app">>}, ENDED' = ENDED \union {<<n, "client">>},
         UNCHANGED <<SENT, GOT>>
  PROVE  Promise!Next
<1>1. Promise!TellAndEnd(n, "client")
  BY DEF Promise!TellAndEnd, Promise!Other, SENT, GOT, ENDED, TOLD, SentOf, GotOf, EndedOf, ToldOf
<1>2. QED
  BY <1>1 DEF Promise!Next, Promise!Ends

\* And a step that changes none of them.
LEMMA PromiseStands ==
  UNCHANGED <<SENT, GOT, ENDED, TOLD>> => UNCHANGED Promise!vars
  BY DEF Promise!vars, SENT, GOT, ENDED, TOLD, SentOf, GotOf, EndedOf, ToldOf

\* What they are of one end.
LEMMA EndIs ==
  ASSUME NEW n \in Sessions
  PROVE  /\ SENT[<<n, "app">>] = written[n] /\ SENT[<<n, "client">>] = stream[n].sent
         /\ GOT[<<n, "app">>] = Numbers(stream[n].got) /\ GOT[<<n, "client">>] = Numbers(read[n])
         /\ <<n, "app">> \in ENDED <=> n \in eosWritten
         /\ <<n, "client">> \in ENDED <=> stream[n].ended
         /\ <<n, "app">> \in TOLD <=> stream[n].eos
         /\ <<n, "client">> \in TOLD <=> n \in eosRead
         /\ \A e \in {"app", "client"} : <<n, e>> \in Sessions \X {"app", "client"}
  BY DEF SENT, GOT, ENDED, TOLD, SentOf, GotOf, EndedOf, ToldOf
\* The numbers of an item more.
LEMMA NumbersGrow ==
  ASSUME NEW q \in Seq(Items), NEW x \in Items
  PROVE  /\ Len(Numbers(q)) = Len(q)
         /\ x.number = Len(q) + 1 => Numbers(Append(q, x)) = Append(Numbers(q), Len(Numbers(q)) + 1)
<1>1. Numbers(q) \in Seq(Nat) /\ Len(Numbers(q)) = Len(q) /\ \A k \in DOMAIN q : Numbers(q)[k] = q[k].number
  <2>1. DOMAIN q = 1..Len(q) /\ Len(q) \in Nat /\ \A k \in DOMAIN q : q[k] \in Items
    OBVIOUS
  <2>2. \A k \in DOMAIN q : q[k].number \in Nat
    BY <2>1 DEF Items
  <2>3. Numbers(q) = [k \in 1..Len(q) |-> q[k].number]
    BY <2>1 DEF Numbers
  <2>4. QED
    BY <2>1, <2>2, <2>3
<1>2. ASSUME x.number = Len(q) + 1
      PROVE  Numbers(Append(q, x)) = Append(Numbers(q), Len(Numbers(q)) + 1)
  <2> DEFINE a == Numbers(Append(q, x))
             b == Append(Numbers(q), Len(Numbers(q)) + 1)
  <2>1. /\ Append(q, x) \in Seq(Items) /\ Len(Append(q, x)) = Len(q) + 1
        /\ \A k \in 1..Len(q) : Append(q, x)[k] = q[k]
        /\ Append(q, x)[Len(q) + 1] = x /\ Len(q) \in Nat
    OBVIOUS
  <2>2. DOMAIN a = 1..(Len(q) + 1) /\ \A k \in 1..(Len(q) + 1) : a[k] = Append(q, x)[k].number
    BY <2>1 DEF Numbers
  <2>3. /\ b \in Seq(Nat) /\ DOMAIN b = 1..(Len(q) + 1)
        /\ \A k \in 1..Len(q) : b[k] = Numbers(q)[k]
        /\ b[Len(q) + 1] = Len(q) + 1
    BY <1>1, <2>1
  <2>4. a = [k \in DOMAIN a |-> a[k]]
    BY DEF Numbers
  <2> HIDE DEF a, b
  <2>5. \A k \in 1..(Len(q) + 1) : a[k] = b[k]
    BY <1>1, <1>2, <2>1, <2>2, <2>3
  <2>6. b = [k \in DOMAIN b |-> b[k]]
    BY <2>3
  <2>7. a = b
    BY <2>2, <2>3, <2>4, <2>5, <2>6
  <2>8. QED
    BY <2>7 DEF a, b
<1>3. QED
  BY <1>1, <1>2

\* A function that differs in one place.
LEMMA OnePlace ==
  ASSUME NEW D, NEW f, NEW h, NEW a \in D, f = [d \in D |-> f[d]], h = [d \in D |-> h[d]],
         \A d \in D \ {a} : h[d] = f[d]
  PROVE  h = [f EXCEPT ![a] = h[a]]
  OBVIOUS

\* The directions of other sessions, and the other one.
LEMMA OtherDirections ==
  ASSUME NEW d \in Sessions \X {"app", "client"}, NEW n
  PROVE  /\ d[1] \in Sessions /\ d[2] \in {"app", "client"}
         /\ d # <<n, "app">> /\ d[2] = "app" => d[1] # n
         /\ d # <<n, "client">> /\ d[2] = "client" => d[1] # n
  OBVIOUS

\* Streams that have changed otherwise than in what their ends see.
AsSeen(s, t) == t.sent = s.sent /\ t.got = s.got /\ t.ended = s.ended /\ t.eos = s.eos
LEMMA SeenAlike ==
  ASSUME NEW st, NEW tt, \A k \in Sessions : AsSeen(st[k], tt[k])
  PROVE  \A w : /\ SentOf(w, tt) = SentOf(w, st) /\ GotOf(w, tt) = GotOf(w, st)
                /\ EndedOf(w, tt) = EndedOf(w, st) /\ ToldOf(w, tt) = ToldOf(w, st)
  BY DEF SentOf, GotOf, EndedOf, ToldOf, AsSeen

\* The application's end: an item more that it wrote, an item more that it read, its EOS, and the other's.
LEMMA AppEnd ==
  ASSUME NEW n \in Sessions, NEW st
  PROVE  /\ \A w \in [Sessions -> Nat] :
              SentOf([w EXCEPT ![n] = @ + 1], st) = [SentOf(w, st) EXCEPT ![<<n, "app">>] = @ + 1]
         /\ \A x \in [Sessions -> Seq(Items)], v \in Items :
              v.number = Len(x[n]) + 1 =>
              GotOf([x EXCEPT ![n] = Append(@, v)], st)
                = [GotOf(x, st) EXCEPT ![<<n, "client">>] = Append(@, Len(@) + 1)]
         /\ \A W : /\ EndedOf(W \union {n}, st) = EndedOf(W, st) \union {<<n, "app">>}
                   /\ ToldOf(W \union {n}, st) = ToldOf(W, st) \union {<<n, "client">>}
<1> DEFINE D == Sessions \X {"app", "client"}
<1>1. ASSUME NEW w \in [Sessions -> Nat]
      PROVE  SentOf([w EXCEPT ![n] = @ + 1], st) = [SentOf(w, st) EXCEPT ![<<n, "app">>] = @ + 1]
  <2> DEFINE v == [w EXCEPT ![n] = @ + 1]
  <2>1. v[n] = w[n] + 1 /\ \A k \in Sessions \ {n} : v[k] = w[k]
    OBVIOUS
  <2> HIDE DEF v
  <2> DEFINE f == SentOf(w, st)
             h == SentOf(v, st)
             a == <<n, "app">>
  <2>2. a \in D /\ f = [d \in D |-> f[d]] /\ h = [d \in D |-> h[d]]
    BY DEF SentOf
  <2>3. h[a] = f[a] + 1
    BY <2>1 DEF SentOf
  <2>4. \A d \in D \ {a} : h[d] = f[d]
    <3> SUFFICES ASSUME NEW d \in D, d # a PROVE h[d] = f[d]
      OBVIOUS
    <3>1. QED
      BY <2>1, OtherDirections DEF SentOf
  <2> HIDE DEF f, h, a, D
  <2>5. h = [f EXCEPT ![a] = h[a]]
    BY <2>2, <2>4, OnePlace
  <2>6. QED
    BY <2>3, <2>5 DEF f, h, a, v
<1>2. ASSUME NEW x \in [Sessions -> Seq(Items)], NEW v \in Items, v.number = Len(x[n]) + 1
      PROVE  GotOf([x EXCEPT ![n] = Append(@, v)], st)
                = [GotOf(x, st) EXCEPT ![<<n, "client">>] = Append(@, Len(@) + 1)]
  <2>1. x[n] \in Seq(Items)
    OBVIOUS
  <2>2. Numbers(Append(x[n], v)) = Append(Numbers(x[n]), Len(Numbers(x[n])) + 1)
    BY <1>2, <2>1, NumbersGrow
  <2> DEFINE y == [x EXCEPT ![n] = Append(@, v)]
  <2>3. y[n] = Append(x[n], v) /\ \A k \in Sessions \ {n} : y[k] = x[k]
    OBVIOUS
  <2> HIDE DEF y
  <2> DEFINE f == GotOf(x, st)
             h == GotOf(y, st)
             a == <<n, "client">>
  <2>4. a \in D /\ f = [d \in D |-> f[d]] /\ h = [d \in D |-> h[d]]
    BY DEF GotOf
  <2>5. h[a] = Append(f[a], Len(f[a]) + 1)
    BY <2>2, <2>3 DEF GotOf
  <2>6. \A d \in D \ {a} : h[d] = f[d]
    <3> SUFFICES ASSUME NEW d \in D, d # a PROVE h[d] = f[d]
      OBVIOUS
    <3>1. QED
      BY <2>2, <2>3, OtherDirections DEF GotOf
  <2> HIDE DEF f, h, a, D
  <2>7. h = [f EXCEPT ![a] = h[a]]
    BY <2>4, <2>6, OnePlace
  <2>8. QED
    BY <2>5, <2>7 DEF f, h, a, y
<1>3. ASSUME NEW W
      PROVE  /\ EndedOf(W \union {n}, st) = EndedOf(W, st) \union {<<n, "app">>}
             /\ ToldOf(W \union {n}, st) = ToldOf(W, st) \union {<<n, "client">>}
  BY DEF EndedOf, ToldOf
<1>4. QED
  BY <1>1, <1>2, <1>3

\* The client's end: n's stream s becomes t, and the streams st become tt.
Becomes(n, s, t, st, tt) ==
  /\ t.sent = s.sent + 1 => \A w : SentOf(w, tt) = [SentOf(w, st) EXCEPT ![<<n, "client">>] = @ + 1]
  /\ t.sent = s.sent => \A w : SentOf(w, tt) = SentOf(w, st)
  /\ t.got = s.got => \A w : GotOf(w, tt) = GotOf(w, st)
  /\ t.ended = s.ended => \A w : EndedOf(w, tt) = EndedOf(w, st)
  /\ t.eos = s.eos => \A w : ToldOf(w, tt) = ToldOf(w, st)
  /\ t.ended => \A w : EndedOf(w, tt) = EndedOf(w, st) \union {<<n, "client">>}
  /\ t.eos => \A w : ToldOf(w, tt) = ToldOf(w, st) \union {<<n, "app">>}
  /\ \A x \in Items : (t.got = Append(s.got, x) /\ s.got \in Seq(Items) /\ x.number = Len(s.got) + 1) =>
       \A w : GotOf(w, tt) = [GotOf(w, st) EXCEPT ![<<n, "app">>] = Append(@, Len(@) + 1)]
LEMMA ClientEnd ==
  ASSUME NEW n \in Sessions, NEW st \in [Sessions -> StreamTypes], NEW t
  PROVE  Becomes(n, st[n], t, st, [st EXCEPT ![n] = t])
<1> DEFINE s == st[n]
           tt == [st EXCEPT ![n] = t]
           D == Sessions \X {"app", "client"}
<1>1. tt[n] = t /\ \A k \in Sessions \ {n} : tt[k] = st[k]
  OBVIOUS
<1> HIDE DEF tt
<1>2. ASSUME t.sent = s.sent + 1, NEW w
      PROVE  SentOf(w, tt) = [SentOf(w, st) EXCEPT ![<<n, "client">>] = @ + 1]
  <2> DEFINE f == SentOf(w, st)
             h == SentOf(w, tt)
             a == <<n, "client">>
  <2>1. a \in D /\ f = [d \in D |-> f[d]] /\ h = [d \in D |-> h[d]]
    BY DEF SentOf
  <2>2. h[a] = f[a] + 1
    BY <1>1, <1>2 DEF SentOf
  <2>3. \A d \in D \ {a} : h[d] = f[d]
    <3> SUFFICES ASSUME NEW d \in D, d # a PROVE h[d] = f[d]
      OBVIOUS
    <3>1. QED
      BY <1>1, <1>2, OtherDirections DEF SentOf
  <2> HIDE DEF f, h, a, D
  <2>4. h = [f EXCEPT ![a] = h[a]]
    BY <2>1, <2>3, OnePlace
  <2>5. QED
    BY <2>2, <2>4 DEF f, h, a
<1>3. t.sent = s.sent => \A w : SentOf(w, tt) = SentOf(w, st)
  BY <1>1 DEF SentOf
<1>4. t.got = s.got => \A w : GotOf(w, tt) = GotOf(w, st)
  BY <1>1 DEF GotOf
<1>5. t.ended = s.ended => \A w : EndedOf(w, tt) = EndedOf(w, st)
  BY <1>1 DEF EndedOf
<1>6. t.eos = s.eos => \A w : ToldOf(w, tt) = ToldOf(w, st)
  BY <1>1 DEF ToldOf
<1>7. t.ended => \A w : EndedOf(w, tt) = EndedOf(w, st) \union {<<n, "client">>}
  BY <1>1 DEF EndedOf
<1>8. t.eos => \A w : ToldOf(w, tt) = ToldOf(w, st) \union {<<n, "app">>}
  BY <1>1 DEF ToldOf
<1>9. ASSUME NEW x \in Items, t.got = Append(s.got, x), s.got \in Seq(Items), x.number = Len(s.got) + 1, NEW w
      PROVE  GotOf(w, tt) = [GotOf(w, st) EXCEPT ![<<n, "app">>] = Append(@, Len(@) + 1)]
  <2>1. Numbers(t.got) = Append(Numbers(s.got), Len(Numbers(s.got)) + 1)
    BY <1>9, NumbersGrow
  <2> DEFINE f == GotOf(w, st)
             h == GotOf(w, tt)
             a == <<n, "app">>
  <2>2. a \in D /\ f = [d \in D |-> f[d]] /\ h = [d \in D |-> h[d]]
    BY DEF GotOf
  <2>3. h[a] = Append(f[a], Len(f[a]) + 1)
    BY <1>1, <2>1 DEF GotOf
  <2>4. \A d \in D \ {a} : h[d] = f[d]
    <3> SUFFICES ASSUME NEW d \in D, d # a PROVE h[d] = f[d]
      OBVIOUS
    <3>1. QED
      BY <1>1, <2>1, OtherDirections DEF GotOf
  <2> HIDE DEF f, h, a, D
  <2>5. h = [f EXCEPT ![a] = h[a]]
    BY <2>2, <2>4, OnePlace
  <2>6. QED
    BY <2>3, <2>5 DEF f, h, a
<1>10. QED
  <2>1. Becomes(n, s, t, st, tt)
    <3> HIDE DEF s
    <3>1. QED
      BY <1>2, <1>3, <1>4, <1>5, <1>6, <1>7, <1>8, <1>9, Zenon DEF Becomes
  <2>2. QED
    BY <2>1 DEF tt
-----------------------------------------------------------------------------
(* Every step is one of A314Stream, or one that neither end sees. *)

\* What the order says of the two ends, in one state.
SessionSeen(n) ==
  /\ n \in eosRead => stream[n].ended /\ Len(read[n]) = stream[n].sent
  /\ stream[n].eos => n \in eosWritten /\ stream[n].st = "done" /\ Len(stream[n].got) = written[n]
  /\ stream[n].ended => stream[n].st \in {"eos", "done"}
  /\ stream[n].st \in {"open", "eos"} => Len(stream[n].got) <= written[n]
  /\ stream[n].st = "none" => stream[n].client = NoOne
  /\ \A k \in DOMAIN read[n] : read[n][k] = Item(n, k)
  /\ \A k \in DOMAIN stream[n].got : stream[n].got[k] = Item(n, k)
SocketSeen(s) == s.session \in Sessions /\ ("CLOSED" \notin s.flags => Len(read[s.session]) <= stream[s.session].sent)
Seen ==
  /\ \A n \in Sessions : SessionSeen(n)
  /\ \A i \in DOMAIN socket : SocketSeen(socket[i])
  /\ stream \in [Sessions -> StreamTypes] /\ read \in [Sessions -> Seq(Items)]
  /\ written \in [Sessions -> Nat]

\* The order tells it.
LEMMA OrderSeen == Inv /\ Ordered => Seen
<1> SUFFICES ASSUME Inv, Ordered PROVE Seen
  OBVIOUS
<1>1. PICK g : Order(g, thread, Unread, r2a, send_buf, stream, driver)
  BY DEF Ordered
<1>2. /\ driver.read = read /\ driver.eosRead = eosRead /\ driver.written = written
      /\ driver.eosWritten = eosWritten /\ driver.socket = socket
  BY DEF driver
<1>3. Drives(g, thread, r2a, send_buf, stream, driver) /\ driver \in DriverStates
  BY <1>1, NowRuns
<1>4. /\ stream \in [Sessions -> StreamTypes] /\ read \in [Sessions -> Seq(Items)]
      /\ written \in [Sessions -> Nat]
  BY <1>2, <1>3 DEF Inv, EndsInv, DriverStates
<1>5. ASSUME NEW n \in Sessions PROVE SessionSeen(n)
  <2>1. /\ Down(g, n, thread, Unread, driver, stream) /\ Up(g, n, thread, driver, r2a, send_buf, stream)
        /\ StreamsRouted(g, thread, stream)
    BY <1>1 DEF Order
  <2>2. /\ n \in eosRead => stream[n].ended /\ Len(read[n]) = stream[n].sent
        /\ stream[n].ended => stream[n].st \in {"eos", "done"}
        /\ \A k \in DOMAIN read[n] : read[n][k] = Item(n, k)
    BY <1>2, <2>1 DEF Up
  <2>3. /\ stream[n].eos => n \in eosWritten /\ stream[n].st = "done" /\ Len(stream[n].got) = written[n]
        /\ \A k \in DOMAIN stream[n].got : stream[n].got[k] = Item(n, k)
    BY <1>2, <2>1 DEF Down
  <2>4. ASSUME stream[n].st \in {"open", "eos"} PROVE Len(stream[n].got) <= written[n]
    <3>1. Linked(g, n, thread)
      BY <2>1, <2>4 DEF StreamsRouted, Linked
    <3>2. PICK x \in 0..written[n] : Taken(stream[n]) <= x
      BY <1>2, <2>1, <2>4, <3>1 DEF Down, DownTo
    <3>3. Taken(stream[n]) = Len(stream[n].got)
      BY <2>4 DEF Taken
    <3>4. stream[n].got \in Seq(Items) /\ written[n] \in Nat
      BY <1>4 DEF StreamTypes
    <3>5. Len(stream[n].got) \in Nat
      BY <3>4
    <3> DEFINE a == Len(stream[n].got)
               b == written[n]
    <3> HIDE DEF a, b
    <3>6. a \in Nat /\ b \in Nat /\ x \in 0..b /\ a <= x
      BY <3>2, <3>3, <3>4, <3>5 DEF a, b
    <3>7. a <= b
      BY <3>6
    <3>8. QED
      BY <3>7 DEF a, b
  <2>5. stream[n].st = "none" => stream[n].client = NoOne
    <3>1. NoStream.client = NoOne
      BY DEF NoStream
    <3>2. stream[n].st = "none" => stream[n] = NoStream
      BY <2>1 DEF StreamsRouted
    <3>3. QED
      BY <3>1, <3>2
  <2>6. QED
    BY <2>2, <2>3, <2>4, <2>5 DEF SessionSeen
<1>6. ASSUME NEW i \in DOMAIN socket PROVE SocketSeen(socket[i])
  <2> DEFINE n == socket[i].session
  <2>1. n \in Sessions
    BY <1>2, <1>3, DriverIsShown
  <2>2. ASSUME "CLOSED" \notin socket[i].flags PROVE Len(read[n]) <= stream[n].sent
    <3>1. Sees(g, r2a, stream, driver, i, n)
      BY <1>2, <1>3, <2>2, OpenIs DEF Device!Closed
    <3>2. socket[i].rq \in Seq(Items) /\ read[n] \in Seq(Items) /\ stream[n].sent \in Nat
      <4>1. socket[i] \in SocketType
        BY <1>2, <1>3, DriverIsShown
      <4>2. QED
        BY <1>4, <2>1, <4>1 DEF SocketType, StreamTypes
    <3>3. PICK z \in 0..stream[n].sent : Due(Got(driver, n, i), n, i, r2a, stream[n], z)
      BY <3>1 DEF Sees
    <3>4. Got(driver, n, i) = Len(read[n]) + Len(socket[i].rq) /\ Got(driver, n, i) <= z
      BY <1>2, <3>3 DEF Got, Due
    <3> DEFINE a == Len(read[n])
               b == Len(socket[i].rq)
               c == stream[n].sent
               e == Got(driver, n, i)
    <3>8. a \in Nat /\ b \in Nat /\ c \in Nat
      BY <3>2
    <3>9. z \in 0..c
      OBVIOUS
    <3>10. e = a + b /\ e <= z
      BY <3>4
    <3> HIDE DEF a, b, c, e
    <3>6. a <= c
      BY <3>8, <3>9, <3>10
    <3>7. QED
      BY <3>6 DEF a, c
  <2>3. QED
    BY <2>1, <2>2 DEF SocketSeen
<1>7. QED
  BY <1>4, <1>5, <1>6 DEF Seen

\* A step of the driver's, as A314Stream has it.
Promised == Promise!Next \/ UNCHANGED Promise!vars

\* An item that the application reads is the next one, and its end comes after all of them.
LEMMA DriverKeepsPromise ==
  ASSUME Seen, Seen', OneEnd(driver, driver'), stream' = stream
  PROVE  Promised
<1>1. /\ driver.read = read /\ driver.eosRead = eosRead /\ driver.written = written
      /\ driver.eosWritten = eosWritten /\ driver'.socket = socket'
      /\ driver'.read = read' /\ driver'.eosRead = eosRead' /\ driver'.written = written'
      /\ driver'.eosWritten = eosWritten'
  BY DEF driver
<1>2. /\ SENT = SentOf(written, stream) /\ GOT = GotOf(read, stream) /\ ENDED = EndedOf(eosWritten, stream)
      /\ TOLD = ToldOf(eosRead, stream)
  BY DEF SENT, GOT, ENDED, TOLD
<1>3. /\ SENT' = SentOf(written', stream) /\ GOT' = GotOf(read', stream) /\ ENDED' = EndedOf(eosWritten', stream)
      /\ TOLD' = ToldOf(eosRead', stream)
  BY DEF SENT, GOT, ENDED, TOLD, SentOf, GotOf, EndedOf, ToldOf
<1>4. /\ stream \in [Sessions -> StreamTypes] /\ read \in [Sessions -> Seq(Items)] /\ written \in [Sessions -> Nat]
      /\ read' \in [Sessions -> Seq(Items)]
      /\ \A n \in Sessions : n \in eosRead => Len(read[n]) = stream[n].sent
      /\ \A n \in Sessions : n \in eosRead' => stream[n].ended /\ Len(read'[n]) = stream[n].sent
      /\ \A n \in Sessions : \A k \in DOMAIN read'[n] : read'[n][k] = Item(n, k)
      /\ \A i \in DOMAIN socket' : socket'[i].session \in Sessions
      /\ \A i \in DOMAIN socket' : "CLOSED" \notin socket'[i].flags =>
           Len(read'[socket'[i].session]) <= stream[socket'[i].session].sent
  BY DEF Seen, SessionSeen, SocketSeen
<1>5. CASE SameEnds(driver, driver')
  <2>1. read' = read /\ written' = written /\ eosRead' = eosRead /\ eosWritten' = eosWritten
    BY <1>1, <1>5 DEF SameEnds
  <2>2. UNCHANGED <<SENT, GOT, ENDED, TOLD>>
    BY <1>2, <1>3, <2>1
  <2>3. QED
    BY <2>2, PromiseStands DEF Promised
<1>6. CASE ReadsOne(driver, driver')
  <2>1. written' = written /\ eosRead' = eosRead /\ eosWritten' = eosWritten
    BY <1>1, <1>6 DEF ReadsOne
  <2>0. PICK x : \E i \in DOMAIN driver'.socket :
           /\ "CLOSED" \notin driver'.socket[i].flags
           /\ driver'.read = [driver.read EXCEPT ![driver'.socket[i].session] = Append(@, x)]
    BY <1>6, Zenon DEF ReadsOne
  <2>2. PICK i \in DOMAIN socket' :
          "CLOSED" \notin socket'[i].flags /\ read' = [read EXCEPT ![socket'[i].session] = Append(@, x)]
    <3>1. PICK i \in DOMAIN driver'.socket :
            /\ "CLOSED" \notin driver'.socket[i].flags
            /\ driver'.read = [driver.read EXCEPT ![driver'.socket[i].session] = Append(@, x)]
      BY <2>0, Zenon
    <3>2. "CLOSED" \notin socket'[i].flags /\ read' = [read EXCEPT ![socket'[i].session] = Append(@, x)]
      BY <1>1, <3>1, Zenon
    <3>3. i \in DOMAIN socket'
      BY <1>1, <3>1, Zenon
    <3>4. QED
      BY <3>2, <3>3, Zenon
  <2> DEFINE n == socket'[i].session
             d == <<n, "client">>
  <2>3. n \in Sessions /\ Len(read'[n]) <= stream[n].sent
    BY <1>4, <2>2
  <2>4. read[n] \in Seq(Items) /\ read'[n] = Append(read[n], x) /\ read'[n] \in Seq(Items)
    BY <1>4, <2>2, <2>3
  <2> HIDE DEF n
  <2> DEFINE q == read[n]
             a == Len(q)
             b == stream[n].sent
  <2>5. q \in Seq(Items) /\ Append(q, x) \in Seq(Items) /\ b \in Nat
    BY <1>4, <2>3, <2>4 DEF StreamTypes
  <2>6. a \in Nat /\ Len(Append(q, x)) = a + 1 /\ Append(q, x)[a + 1] = x /\ a + 1 \in DOMAIN Append(q, x)
    <3> HIDE DEF q
    <3>1. QED
      BY <2>5
  <2>7. x = Item(n, a + 1)
    BY <1>4, <2>3, <2>4, <2>6
  <2>8. x \in Items /\ x.number = a + 1
    BY <2>3, <2>6, <2>7 DEF Item, Items
  <2>9. a < b
    <3>1. a + 1 <= b
      BY <2>3, <2>4, <2>6
    <3> HIDE DEF a, b
    <3>2. QED
      BY <3>1, <2>5, <2>6
  <2>10. n \notin eosRead
    <3> SUFFICES ASSUME n \in eosRead PROVE FALSE
      OBVIOUS
    <3>1. a = b
      BY <1>4, <2>3
    <3> HIDE DEF a, b
    <3>2. QED
      BY <3>1, <2>9, <2>6
  <2>11. GOT' = [GOT EXCEPT ![d] = Append(@, Len(@) + 1)]
    <3>1. \A y \in [Sessions -> Seq(Items)], v \in Items :
            v.number = Len(y[n]) + 1 =>
            GotOf([y EXCEPT ![n] = Append(@, v)], stream)
              = [GotOf(y, stream) EXCEPT ![d] = Append(@, Len(@) + 1)]
      BY <2>3, AppEnd
    <3>2. GotOf([read EXCEPT ![n] = Append(@, x)], stream) = [GotOf(read, stream) EXCEPT ![d] = Append(@, Len(@) + 1)]
      BY <1>4, <2>8, <3>1
    <3>3. read' = [read EXCEPT ![n] = Append(@, x)]
      BY <2>2 DEF n
    <3>4. QED
      BY <1>2, <1>3, <3>2, <3>3
  <2>12. UNCHANGED <<SENT, ENDED, TOLD>>
    BY <1>2, <1>3, <2>1
  <2>13. Len(GOT[d]) < SENT[d] /\ d \notin TOLD /\ d \in Sessions \X {"app", "client"}
    <3>1. GOT[d] = Numbers(q) /\ SENT[d] = b /\ (d \in TOLD <=> n \in eosRead) /\ d \in Sessions \X {"app", "client"}
      BY <2>3, EndIs
    <3>2. Len(Numbers(q)) = a
      BY <2>5, <2>8, NumbersGrow
    <3>3. QED
      BY <2>9, <2>10, <3>1, <3>2
  <2> HIDE DEF d
  <2>14. QED
    BY <2>11, <2>12, <2>13, PromiseSteps DEF Promised
<1>7. CASE WritesOne(driver, driver')
  <2>1. read' = read /\ eosRead' = eosRead /\ eosWritten' = eosWritten
    BY <1>1, <1>7 DEF WritesOne
  <2>2. PICK n \in Sessions \ eosWritten : written' = [written EXCEPT ![n] = @ + 1]
    BY <1>1, <1>7 DEF WritesOne
  <2> DEFINE d == <<n, "app">>
  <2>3. SENT' = [SENT EXCEPT ![d] = @ + 1]
    <3>1. \A w \in [Sessions -> Nat] :
            SentOf([w EXCEPT ![n] = @ + 1], stream) = [SentOf(w, stream) EXCEPT ![d] = @ + 1]
      BY <2>2, AppEnd
    <3>2. SentOf([written EXCEPT ![n] = @ + 1], stream) = [SentOf(written, stream) EXCEPT ![d] = @ + 1]
      BY <1>4, <3>1
    <3>3. QED
      BY <1>2, <1>3, <2>2, <3>2
  <2>4. UNCHANGED <<GOT, ENDED, TOLD>>
    BY <1>2, <1>3, <2>1
  <2>5. d \notin ENDED /\ d \in Sessions \X {"app", "client"}
    BY <2>2, EndIs
  <2> HIDE DEF d
  <2>6. QED
    BY <2>3, <2>4, <2>5, PromiseSteps DEF Promised
<1>8. CASE ReadsEnd(driver, driver')
  <2>1. read' = read /\ written' = written /\ eosWritten' = eosWritten
    BY <1>1, <1>8 DEF ReadsEnd
  <2>2. PICK n \in Sessions : eosRead' = eosRead \union {n}
    BY <1>1, <1>8 DEF ReadsEnd
  <2> DEFINE d == <<n, "client">>
  <2>3. TOLD' = TOLD \union {d}
    <3>1. \A W : ToldOf(W \union {n}, stream) = ToldOf(W, stream) \union {d}
      BY <2>2, AppEnd
    <3>2. QED
      BY <1>2, <1>3, <2>2, <3>1
  <2>4. UNCHANGED <<SENT, GOT, ENDED>>
    BY <1>2, <1>3, <2>1
  <2>5. d \in ENDED /\ Len(GOT[d]) = SENT[d] /\ d \in Sessions \X {"app", "client"}
    <3>1. stream[n].ended /\ Len(read[n]) = stream[n].sent /\ read[n] \in Seq(Items)
      BY <1>4, <2>1, <2>2
    <3>2. Len(Numbers(read[n])) = Len(read[n])
      BY <3>1, ItemTypes, NumbersGrow
    <3>3. GOT[d] = Numbers(read[n]) /\ SENT[d] = stream[n].sent /\ (d \in ENDED <=> stream[n].ended)
          /\ d \in Sessions \X {"app", "client"}
      BY <2>2, EndIs
    <3>4. QED
      BY <3>1, <3>2, <3>3
  <2> HIDE DEF d
  <2>6. QED
    BY <2>3, <2>4, <2>5, PromiseSteps DEF Promised
<1>9. CASE WritesEnd(driver, driver')
  <2>1. read' = read /\ written' = written /\ eosRead' = eosRead
    BY <1>1, <1>9 DEF WritesEnd
  <2>2. PICK n \in Sessions : eosWritten' = eosWritten \union {n}
    BY <1>1, <1>9 DEF WritesEnd
  <2> DEFINE d == <<n, "app">>
  <2>3. ENDED' = ENDED \union {d}
    <3>1. \A W : EndedOf(W \union {n}, stream) = EndedOf(W, stream) \union {d}
      BY <2>2, AppEnd
    <3>2. QED
      BY <1>2, <1>3, <2>2, <3>1
  <2>4. UNCHANGED <<SENT, GOT, TOLD>>
    BY <1>2, <1>3, <2>1
  <2>5. d \in Sessions \X {"app", "client"}
    OBVIOUS
  <2> HIDE DEF d
  <2>6. QED
    BY <2>3, <2>4, <2>5, PromiseSteps DEF Promised
<1>10. QED
  BY <1>5, <1>6, <1>7, <1>8, <1>9 DEF OneEnd

\* What the driver's handlers return is what becomes of the driver.
LEMMA BecomesOne ==
  ASSUME NEW e, DriverBecomes(e), OneEnd(driver, e)
  PROVE  OneEnd(driver, driver')
<1>1. /\ driver'.socket = e.socket /\ driver'.read = e.read /\ driver'.written = e.written
      /\ driver'.eosRead = e.eosRead /\ driver'.eosWritten = e.eosWritten /\ Shown \subseteq DOMAIN driver'
  BY DEF driver, DriverBecomes, Shown
<1> DEFINE d == driver
           f == driver'
<1> HIDE DEF d, f
<1>2. /\ f.socket = e.socket /\ f.read = e.read /\ f.written = e.written
      /\ f.eosRead = e.eosRead /\ f.eosWritten = e.eosWritten /\ Shown \subseteq DOMAIN f
  BY <1>1 DEF f
<1>3. OneEnd(d, e)
  BY DEF d
<1>4. SameEnds(d, e) => SameEnds(d, f)
  BY <1>2 DEF SameEnds
<1>5. ASSUME ReadsOne(d, e) PROVE ReadsOne(d, f)
  <2>0. PICK x : \E i \in DOMAIN e.socket :
           /\ "CLOSED" \notin e.socket[i].flags
           /\ e.read = [d.read EXCEPT ![e.socket[i].session] = Append(@, x)]
    BY <1>5, Zenon DEF ReadsOne
  <2>1. PICK i \in DOMAIN e.socket :
          /\ "CLOSED" \notin e.socket[i].flags
          /\ e.read = [d.read EXCEPT ![e.socket[i].session] = Append(@, x)]
    BY <2>0, Zenon
  <2>2. /\ i \in DOMAIN f.socket /\ "CLOSED" \notin f.socket[i].flags
        /\ f.read = [d.read EXCEPT ![f.socket[i].session] = Append(@, x)]
    BY <1>2, <2>1
  <2>3. f.written = d.written /\ f.eosRead = d.eosRead /\ f.eosWritten = d.eosWritten
    BY <1>2, <1>5 DEF ReadsOne
  <2>4. QED
    BY <2>2, <2>3, Zenon DEF ReadsOne
<1>6. /\ WritesOne(d, e) => WritesOne(d, f)
      /\ ReadsEnd(d, e) => ReadsEnd(d, f)
      /\ WritesEnd(d, e) => WritesEnd(d, f)
  BY <1>2 DEF WritesOne, ReadsEnd, WritesEnd
<1>7. OneEnd(d, f)
  BY <1>3, <1>4, <1>5, <1>6, Zenon DEF OneEnd
<1>8. QED
  BY <1>7 DEF d, f

\* The steps of the driver: a request,
LEMMA AppRequestPromised ==
  ASSUME Inv, Ordered, Seen, Seen', NEW r \in Requests, AppRequest(r)
  PROVE  Promised
<1> DEFINE e == Device!handle_app_request(driver, r)
<1>1. driver \in DriverStates /\ Ready(driver)
  BY NowRuns DEF Ordered, Order
<1>2. OneEnd(driver, e)
  BY <1>1, RequestShown
<1>3. DriverBecomes(e) /\ stream' = stream
  BY DEF AppRequest
<1> HIDE DEF e
<1>4. QED
  BY <1>2, <1>3, BecomesOne, DriverKeepsPromise

\* a packet,
LEMMA ReceiveR2APromised ==
  ASSUME Inv, Ordered, Seen, Seen', ReceiveR2A
  PROVE  Promised
<1> DEFINE e == Device!handle_r2a_packet(driver, Head(r2a))
<1>1. driver \in DriverStates /\ r2a \in Seq(PiPackets) /\ r2a # <<>>
  BY DEF Inv, Sound, Typed, PathInv, ReceiveR2A
<1>2. Head(r2a) \in PiPackets
  BY <1>1, TailLeaves
<1>3. OneEnd(driver, e)
  BY <1>1, <1>2, PacketShown
<1>4. DriverBecomes(e) /\ stream' = stream
  BY DEF ReceiveR2A
<1> HIDE DEF e
<1>5. QED
  BY <1>3, <1>4, BecomesOne, DriverKeepsPromise

\* its send queue.
LEMMA SendQueuedPromised ==
  ASSUME Inv, Ordered, Seen, Seen', SendQueued
  PROVE  Promised
<1> DEFINE e == Device!handle_room_in_a2r(driver)
<1>1. driver \in DriverStates /\ Ready(driver)
  BY NowRuns DEF Ordered, Order
<1>2. driver.send_queue # <<>> /\ Elems(driver.send_queue) \subseteq DOMAIN driver.socket
  BY DEF SendQueued, driver, Inv, Sound, Typed
<1>3. OneEnd(driver, e)
  BY <1>1, <1>2, RoomShown
<1>4. DriverBecomes(e) /\ stream' = stream
  BY DEF SendQueued
<1> HIDE DEF e
<1>5. QED
  BY <1>3, <1>4, BecomesOne, DriverKeepsPromise

\* The ends see nothing of what leaves them and the streams as they are.
LEMMA EndsUnchanged ==
  ASSUME UNCHANGED <<read, eosRead, written, eosWritten, stream>>
  PROVE  Promised
<1>1. UNCHANGED <<SENT, GOT, ENDED, TOLD>>
  BY DEF SENT, GOT, ENDED, TOLD, SentOf, GotOf, EndedOf, ToldOf
<1>2. QED
  BY <1>1, PromiseStands DEF Promised

\* So are the steps of the A314 thread, a connection, a registration and a restart of the Amiga.
LEMMA OthersPromised ==
  ASSUME \/ Reboot \/ ThreadStep
         \/ \E c \in Clients : RegisterRes(c) \/ handle_server_socket_ready(c)
         \/ UNCHANGED vars
  PROVE  Promised
<1>1. UNCHANGED <<read, eosRead, written, eosWritten, stream>>
  <2>1. CASE Reboot
    BY <2>1 DEF Reboot
  <2>2. CASE Irq \/ ReceiveA2R \/ FlushPacket \/ Publish
    BY <2>2 DEF Irq, ReceiveA2R, FlushPacket, Publish, amiga
  <2>3. CASE ReadMessage \/ MessagesRead
    BY <2>3 DEF ReadMessage, MessagesRead, amiga
  <2>4. ASSUME NEW c \in Clients, ConnectionEvent(c) \/ RegisterRes(c) \/ handle_server_socket_ready(c)
        PROVE  UNCHANGED <<read, eosRead, written, eosWritten, stream>>
    BY <2>4 DEF ConnectionEvent, RegisterRes, handle_server_socket_ready, amiga
  <2>5. CASE UNCHANGED vars
    BY <2>5 DEF vars, amiga
  <2>6. QED
    BY <2>1, <2>2, <2>3, <2>4, <2>5 DEF ThreadStep
<1>2. QED
  BY <1>1, EndsUnchanged

\* Nor do they see what changes in a stream that looks the same.
LEMMA StreamsAlike ==
  ASSUME UNCHANGED <<read, eosRead, written, eosWritten>>,
         \A n \in Sessions : AsSeen(stream[n], stream'[n])
  PROVE  Promised
<1> DEFINE t == stream'
<1>1. \A n \in Sessions : AsSeen(stream[n], t[n])
  OBVIOUS
<1> HIDE DEF t
<1>2. \A w : /\ SentOf(w, t) = SentOf(w, stream) /\ GotOf(w, t) = GotOf(w, stream)
             /\ EndedOf(w, t) = EndedOf(w, stream) /\ ToldOf(w, t) = ToldOf(w, stream)
  BY <1>1, SeenAlike
<1>3. /\ SENT' = SentOf(written, t) /\ GOT' = GotOf(read, t) /\ ENDED' = EndedOf(eosWritten, t)
      /\ TOLD' = ToldOf(eosRead, t)
  BY DEF t, SENT, GOT, ENDED, TOLD, SentOf, GotOf, EndedOf, ToldOf
<1>4. UNCHANGED <<SENT, GOT, ENDED, TOLD>>
  BY <1>2, <1>3 DEF SENT, GOT, ENDED, TOLD
<1>5. QED
  BY <1>4, PromiseStands DEF Promised

\* The steps of a client: it answers a CONNECT, whose stream nobody has seen yet,
LEMMA ClientConnectPromised ==
  ASSUME Inv, Ordered, NEW c \in Clients, ClientConnect(c)
  PROVE  Promised
<1>1. PICK g : Runs(g, thread, Unread, r2a, send_buf, stream, driver)
  BY OrderedRuns
<1> DEFINE m == Head(toCli[c])
           k == m.data.session
<1>2. ClientReads(c) /\ m.type = "CONNECT" /\ UNCHANGED <<read, eosRead, written, eosWritten>>
  BY DEF ClientConnect, amiga
<1>3. PICK result \in Answers :
        stream' = [stream EXCEPT ![k] = [NoStream EXCEPT !.client = c, !.sid = m.sid,
                                                         !.st = IF result = 0 THEN "open" ELSE "done"]]
  BY DEF ClientConnect
<1>4. k \in Sessions /\ stream[k] = NoStream
  <2>1. thread.conn = conn /\ thread.toCli = toCli
    BY DEF thread
  <2>2. conn[c] = "up" /\ toCli[c] # <<>>
    BY <1>2 DEF ClientReads
  <2>3. QED
    BY <1>1, <1>2, <2>1, <2>2, FirstConnect
<1> DEFINE v == [NoStream EXCEPT !.client = c, !.sid = m.sid, !.st = IF result = 0 THEN "open" ELSE "done"]
<1>5. AsSeen(NoStream, v)
  <2> HIDE DEF m
  <2>1. QED
    BY DEF AsSeen, NoStream
<1>6. stream' = [stream EXCEPT ![k] = v] /\ stream \in [Sessions -> StreamTypes]
  BY <1>3, EndsOf
<1> HIDE DEF v, k, m
<1>7. stream'[k] = v /\ \A n \in Sessions : n # k => stream'[n] = stream[n]
  BY <1>4, <1>6
<1>8. \A n \in Sessions : AsSeen(stream[n], stream'[n])
  <2> SUFFICES ASSUME NEW n \in Sessions PROVE AsSeen(stream[n], stream'[n])
    OBVIOUS
  <2>1. CASE n = k
    BY <1>4, <1>5, <1>7, <2>1
  <2>2. CASE n # k
    BY <1>7, <2>2 DEF AsSeen
  <2>3. QED
    BY <2>1, <2>2
<1>9. QED
  BY <1>2, <1>8, StreamsAlike

\* closes its connection,
LEMMA ClientClosePromised ==
  ASSUME Inv, NEW c \in Clients, ClientClose(c)
  PROVE  Promised
<1>1. /\ stream' = [n \in Sessions |-> IF stream[n].client # c THEN stream[n]
                                       ELSE [stream[n] EXCEPT !.client = NoOne, !.st = "done"]]
      /\ UNCHANGED <<read, eosRead, written, eosWritten>>
  BY DEF ClientClose, amiga
<1>2. \A n \in Sessions : AsSeen(stream[n], stream'[n])
  <2> SUFFICES ASSUME NEW n \in Sessions PROVE AsSeen(stream[n], stream'[n])
    OBVIOUS
  <2>1. stream[n] \in StreamTypes
    BY EndsOf
  <2> DEFINE s == stream[n]
             t == [stream[n] EXCEPT !.client = NoOne, !.st = "done"]
  <2>2. AsSeen(s, t) /\ AsSeen(s, s)
    <3> HIDE DEF s
    <3>1. s \in StreamTypes
      BY <2>1 DEF s
    <3>2. t = [s EXCEPT !.client = NoOne, !.st = "done"]
      BY DEF s
    <3>3. QED
      BY <3>1, <3>2 DEF AsSeen, StreamTypes
  <2>3. stream'[n] = s \/ stream'[n] = t
    BY <1>1
  <2> HIDE DEF s, t
  <2>4. AsSeen(s, stream'[n])
    BY <2>2, <2>3
  <2>5. QED
    BY <2>4 DEF s
<1>3. QED
  BY <1>1, <1>2, StreamsAlike

\* What the streams are of a client's end that has changed to t.
ClientSays(n, t) == n \in Sessions /\ stream \in [Sessions -> StreamTypes] /\ stream' = [stream EXCEPT ![n] = t]
LEMMA ClientEndNow ==
  ASSUME NEW n, NEW t, ClientSays(n, t), UNCHANGED <<read, eosRead, written, eosWritten>>
  PROVE  /\ t.sent = stream[n].sent + 1 => SENT' = [SENT EXCEPT ![<<n, "client">>] = @ + 1]
         /\ t.sent = stream[n].sent => SENT' = SENT
         /\ t.got = stream[n].got => GOT' = GOT
         /\ t.ended = stream[n].ended => ENDED' = ENDED
         /\ t.eos = stream[n].eos => TOLD' = TOLD
         /\ t.ended => ENDED' = ENDED \union {<<n, "client">>}
         /\ t.eos => TOLD' = TOLD \union {<<n, "app">>}
         /\ \A x \in Items : (t.got = Append(stream[n].got, x) /\ x.number = Len(stream[n].got) + 1) =>
              GOT' = [GOT EXCEPT ![<<n, "app">>] = Append(@, Len(@) + 1)]
<1> DEFINE u == [stream EXCEPT ![n] = t]
<1>1. n \in Sessions /\ stream \in [Sessions -> StreamTypes] /\ stream[n].got \in Seq(Items) /\ stream' = u
  BY DEF ClientSays, StreamTypes
<1>2. /\ SENT' = SentOf(written, u) /\ GOT' = GotOf(read, u) /\ ENDED' = EndedOf(eosWritten, u)
      /\ TOLD' = ToldOf(eosRead, u)
  <2> HIDE DEF u
  <2>1. QED
    BY <1>1 DEF SENT, GOT, ENDED, TOLD, SentOf, GotOf, EndedOf, ToldOf
<1>3. /\ SENT = SentOf(written, stream) /\ GOT = GotOf(read, stream) /\ ENDED = EndedOf(eosWritten, stream)
      /\ TOLD = ToldOf(eosRead, stream)
  BY DEF SENT, GOT, ENDED, TOLD
<1> DEFINE s == stream[n]
<1>4. Becomes(n, s, t, stream, u)
  BY <1>1, ClientEnd
<1>5. s.got \in Seq(Items)
  BY <1>1
<1> HIDE DEF s, u
<1>6. /\ t.sent = s.sent + 1 => SENT' = [SENT EXCEPT ![<<n, "client">>] = @ + 1]
      /\ t.sent = s.sent => SENT' = SENT
  BY <1>2, <1>3, <1>4 DEF Becomes
<1>7. /\ t.got = s.got => GOT' = GOT
      /\ t.ended = s.ended => ENDED' = ENDED
      /\ t.eos = s.eos => TOLD' = TOLD
  BY <1>2, <1>3, <1>4 DEF Becomes
<1>8. /\ t.ended => ENDED' = ENDED \union {<<n, "client">>}
      /\ t.eos => TOLD' = TOLD \union {<<n, "app">>}
  BY <1>2, <1>3, <1>4 DEF Becomes
<1>9. \A x \in Items : (t.got = Append(s.got, x) /\ x.number = Len(s.got) + 1) =>
              GOT' = [GOT EXCEPT ![<<n, "app">>] = Append(@, Len(@) + 1)]
  BY <1>2, <1>3, <1>4, <1>5 DEF Becomes
<1>10. QED
  BY <1>6, <1>7, <1>8, <1>9 DEF s

\* A client sends an item, EOS or a RESET,
LEMMA ClientSendPromised ==
  ASSUME Inv, Seen, NEW n \in Sessions, NEW type \in Speaks, ClientSend(n, type)
  PROVE  Promised
<1> DEFINE s == stream[n]
           d == <<n, "client">>
<1>1. UNCHANGED <<read, eosRead, written, eosWritten>>
  BY DEF ClientSend, amiga
<1>2. type \in {"DATA", "EOS", "RESET"}
  BY AnswerAssumption DEF AnswerAssumption
<1>3. s \in StreamTypes /\ stream \in [Sessions -> StreamTypes] /\ d \in Sessions \X {"app", "client"}
  BY EndsOf
<1>4. CASE type = "DATA"
  <2> DEFINE t == [s EXCEPT !.sent = @ + 1]
  <2>1. s.st = "open" /\ stream' = [stream EXCEPT ![n] = t]
    BY <1>4 DEF ClientSend
  <2>2. t.sent = s.sent + 1 /\ t.got = s.got /\ t.ended = s.ended /\ t.eos = s.eos
    <3> HIDE DEF s
    <3>1. QED
      BY <1>3 DEF StreamTypes
  <2>3. ~s.ended
    BY <2>1 DEF Seen, SessionSeen
  <2> HIDE DEF t
  <2>4. ClientSays(n, t)
    BY <1>3, <2>1 DEF ClientSays
  <2>5. SENT' = [SENT EXCEPT ![d] = @ + 1] /\ UNCHANGED <<GOT, ENDED, TOLD>>
    BY <1>1, <2>2, <2>4, ClientEndNow
  <2>6. d \notin ENDED
    BY <2>3, EndIs
  <2> HIDE DEF d
  <2>7. QED
    BY <1>3, <2>5, <2>6, PromiseSteps DEF Promised
<1>5. CASE type = "EOS"
  <2> DEFINE t == [s EXCEPT !.st = "eos", !.ended = TRUE]
  <2>1. stream' = [stream EXCEPT ![n] = t]
    BY <1>5 DEF ClientSend
  <2>2. t.sent = s.sent /\ t.got = s.got /\ t.ended /\ t.eos = s.eos
    <3> HIDE DEF s
    <3>1. QED
      BY <1>3 DEF StreamTypes
  <2> HIDE DEF t
  <2>3. ClientSays(n, t)
    BY <1>3, <2>1 DEF ClientSays
  <2>4. ENDED' = ENDED \union {d} /\ UNCHANGED <<SENT, GOT, TOLD>>
    BY <1>1, <2>2, <2>3, ClientEndNow
  <2> HIDE DEF d
  <2>5. QED
    BY <1>3, <2>4, PromiseSteps DEF Promised
<1>6. CASE type = "RESET"
  <2> DEFINE t == [s EXCEPT !.st = "done"]
  <2>1. stream' = [stream EXCEPT ![n] = t]
    BY <1>6 DEF ClientSend
  <2>2. t.sent = s.sent /\ t.got = s.got /\ t.ended = s.ended /\ t.eos = s.eos
    <3> HIDE DEF s
    <3>1. QED
      BY <1>3 DEF StreamTypes
  <2> HIDE DEF t
  <2>3. ClientSays(n, t)
    BY <1>3, <2>1 DEF ClientSays
  <2>4. UNCHANGED <<SENT, GOT, ENDED, TOLD>>
    BY <1>1, <2>2, <2>3, ClientEndNow
  <2>5. QED
    BY <2>4, PromiseStands DEF Promised
<1>7. QED
  BY <1>2, <1>4, <1>5, <1>6

\* takes an item, which is the next one and one that was sent, an EOS, which it answers, or a RESET.
LEMMA ClientPacketPromised ==
  ASSUME Inv, Seen, Seen', NEW c \in Clients, ClientPacket(c)
  PROVE  Promised
<1> DEFINE m == Head(toCli[c])
           n == StreamOf(c, m.sid)
           v == CASE m.type = "DATA" -> [stream[n] EXCEPT !.got = Append(@, m.data)]
                  [] m.type = "EOS" -> [stream[n] EXCEPT !.st = "done", !.eos = TRUE, !.ended = TRUE]
                  [] m.type = "RESET" -> [stream[n] EXCEPT !.st = "done"]
<1>1. /\ ClientReads(c) /\ m.type \in {"DATA", "EOS", "RESET"} /\ UNCHANGED <<read, eosRead, written, eosWritten>>
  BY DEF ClientPacket, amiga
<1>2. CASE ~Knows(c, m.sid) \/ stream[n].st = "done"
  <2>1. stream' = stream
    BY <1>2 DEF ClientPacket
  <2>2. QED
    BY <1>1, <2>1, EndsUnchanged
<1>3. CASE Knows(c, m.sid) /\ stream[n].st # "done"
  <2>1. stream' = [stream EXCEPT ![n] = v]
    BY <1>3 DEF ClientPacket
  <2>2. n \in Sessions /\ stream[n].client = c
    BY <1>3 DEF Knows, StreamOf
  <2>3. m.data \in Items
    BY <1>1, Reads1 DEF ToClient
  <2> HIDE DEF n
  <2> DEFINE s == stream[n]
             d == <<n, "app">>
  <2>4. s \in StreamTypes /\ s.got \in Seq(Items) /\ stream \in [Sessions -> StreamTypes]
        /\ d \in Sessions \X {"app", "client"}
    BY <2>2, EndsOf DEF StreamTypes
  <2>5. CASE m.type = "DATA"
    <3> DEFINE x == m.data
               t == [s EXCEPT !.got = Append(@, x)]
    <3>1. stream' = [stream EXCEPT ![n] = t]
      BY <2>1, <2>5
    <3>2. x \in Items
      BY <2>3
    <3> HIDE DEF m, x
    <3>3. t.sent = s.sent /\ t.got = Append(s.got, x) /\ t.ended = s.ended /\ t.eos = s.eos /\ t.st = s.st
      <4> HIDE DEF s
      <4>1. QED
        BY <2>4 DEF StreamTypes
    <3> HIDE DEF t
    <3>4. ClientSays(n, t) /\ stream'[n] = t
      BY <2>2, <2>4, <3>1 DEF ClientSays
    <3>5. s.st \in {"open", "eos"} /\ ~s.eos
      <4>1. s.eos => s.st = "done"
        BY <2>2 DEF Seen, SessionSeen
      <4>2. s.st # "none"
        <5>1. s.st = "none" => s.client = NoOne
          BY <2>2 DEF Seen, SessionSeen
        <5>2. QED
          BY <2>2, <5>1, ClientAssumption DEF ClientAssumption
      <4>3. QED
        BY <1>3, <2>4, <4>1, <4>2 DEF StreamTypes
    <3>6. /\ t.st \in {"open", "eos"} => Len(t.got) <= written[n]
          /\ \A k \in DOMAIN t.got : t.got[k] = Item(n, k)
      <4>1. /\ stream'[n].st \in {"open", "eos"} => Len(stream'[n].got) <= written'[n]
            /\ \A k \in DOMAIN stream'[n].got : stream'[n].got[k] = Item(n, k)
        BY <2>2 DEF Seen, SessionSeen
      <4>2. QED
        BY <1>1, <3>4, <4>1
    <3> DEFINE q == s.got
               a == Len(q)
               b == written[n]
    <3>7. /\ q \in Seq(Items) /\ a \in Nat /\ Append(q, x) \in Seq(Items) /\ Len(Append(q, x)) = a + 1
          /\ Append(q, x)[a + 1] = x /\ a + 1 \in DOMAIN Append(q, x)
      <4>1. q \in Seq(Items)
        BY <2>4
      <4> HIDE DEF q
      <4>2. QED
        BY <3>2, <4>1
    <3>8. x = Item(n, a + 1)
      BY <3>3, <3>6, <3>7
    <3>9. x.number = a + 1
      BY <3>8 DEF Item
    <3>10. a < b
      <4>1. a + 1 <= b
        BY <3>3, <3>5, <3>6, <3>7
      <4>2. b \in Nat
        BY <2>2 DEF Seen
      <4>3. a \in Nat
        BY <3>7
      <4> HIDE DEF a, b
      <4>4. QED
        BY <4>1, <4>2, <4>3
    <3>11. GOT' = [GOT EXCEPT ![d] = Append(@, Len(@) + 1)] /\ UNCHANGED <<SENT, ENDED, TOLD>>
      <4>1. /\ t.sent = s.sent => SENT' = SENT
            /\ t.ended = s.ended => ENDED' = ENDED
            /\ t.eos = s.eos => TOLD' = TOLD
            /\ \A y \in Items : (t.got = Append(s.got, y) /\ y.number = a + 1) =>
                 GOT' = [GOT EXCEPT ![d] = Append(@, Len(@) + 1)]
        BY <1>1, <3>4, ClientEndNow
      <4>2. QED
        BY <3>2, <3>3, <3>9, <4>1
    <3>12. Len(GOT[d]) < SENT[d] /\ d \notin TOLD
      <4>1. GOT[d] = Numbers(q) /\ SENT[d] = b /\ (d \in TOLD <=> s.eos)
        BY <2>2, EndIs
      <4>2. Len(Numbers(q)) = a
        BY <3>2, <3>7, NumbersGrow
      <4>3. QED
        BY <3>5, <3>10, <4>1, <4>2
    <3> HIDE DEF d
    <3>13. QED
      BY <2>4, <3>11, <3>12, PromiseSteps DEF Promised
  <2>6. CASE m.type = "EOS"
    <3> DEFINE t == [s EXCEPT !.st = "done", !.eos = TRUE, !.ended = TRUE]
    <3>1. stream' = [stream EXCEPT ![n] = t]
      BY <2>1, <2>6
    <3>2. t.sent = s.sent /\ t.got = s.got /\ t.ended /\ t.eos
      <4> HIDE DEF s
      <4>1. QED
        BY <2>4 DEF StreamTypes
    <3> HIDE DEF t
    <3>3. ClientSays(n, t) /\ stream'[n] = t
      BY <2>2, <2>4, <3>1 DEF ClientSays
    <3>4. n \in eosWritten /\ Len(t.got) = written[n]
      <4>1. stream'[n].eos => n \in eosWritten' /\ Len(stream'[n].got) = written'[n]
        BY <2>2 DEF Seen, SessionSeen
      <4>2. QED
        BY <1>1, <3>2, <3>3, <4>1
    <3>5. TOLD' = TOLD \union {<<n, "app">>} /\ ENDED' = ENDED \union {<<n, "client">>} /\ UNCHANGED <<SENT, GOT>>
      BY <1>1, <3>2, <3>3, ClientEndNow
    <3>6. <<n, "app">> \in ENDED /\ Len(GOT[<<n, "app">>]) = SENT[<<n, "app">>]
      <4>1. GOT[<<n, "app">>] = Numbers(s.got) /\ SENT[<<n, "app">>] = written[n]
            /\ (<<n, "app">> \in ENDED <=> n \in eosWritten)
        BY <2>2, EndIs
      <4>2. Len(Numbers(s.got)) = Len(s.got)
        BY <2>3, <2>4, NumbersGrow
      <4>3. QED
        BY <3>2, <3>4, <4>1, <4>2
    <3>7. QED
      BY <2>2, <3>5, <3>6, PromiseAnswers DEF Promised
  <2>7. CASE m.type = "RESET"
    <3> DEFINE t == [s EXCEPT !.st = "done"]
    <3>1. stream' = [stream EXCEPT ![n] = t]
      BY <2>1, <2>7
    <3>2. t.sent = s.sent /\ t.got = s.got /\ t.ended = s.ended /\ t.eos = s.eos
      <4> HIDE DEF s
      <4>1. QED
        BY <2>4 DEF StreamTypes
    <3> HIDE DEF t
    <3>3. ClientSays(n, t)
      BY <2>2, <2>4, <3>1 DEF ClientSays
    <3>4. UNCHANGED <<SENT, GOT, ENDED, TOLD>>
      BY <1>1, <3>2, <3>3, ClientEndNow
    <3>5. QED
      BY <3>4, PromiseStands DEF Promised
  <2>8. QED
    BY <1>1, <2>5, <2>6, <2>7
<1>4. QED
  BY <1>2, <1>3

\* Every step is one of A314Stream, or one that neither end sees.
LEMMA NextPromised == Inv /\ Ordered /\ Seen /\ Seen' /\ [Next]_vars => [Promise!Next]_Promise!vars
<1> SUFFICES ASSUME Inv, Ordered, Seen, Seen', [Next]_vars PROVE Promised
  BY DEF Promised
<1>1. ASSUME NEW r \in Requests, AppRequest(r) PROVE Promised
  BY <1>1, AppRequestPromised
<1>2. CASE DriverStep
  BY <1>2, ReceiveR2APromised, SendQueuedPromised DEF DriverStep
<1>3. CASE Reboot \/ ThreadStep \/ UNCHANGED vars
  BY <1>3, OthersPromised
<1>4. ASSUME NEW c \in Clients, ClientStep(c) \/ ClientClose(c) \/ handle_server_socket_ready(c) PROVE Promised
  <2>1. CASE RegisterRes(c) \/ handle_server_socket_ready(c)
    BY <2>1, OthersPromised
  <2>2. CASE ClientConnect(c)
    BY <2>2, ClientConnectPromised
  <2>3. CASE ClientPacket(c)
    BY <2>3, ClientPacketPromised
  <2>4. CASE ClientClose(c)
    BY <2>4, ClientClosePromised
  <2>5. QED
    BY <1>4, <2>1, <2>2, <2>3, <2>4 DEF ClientStep
<1>5. ASSUME NEW n \in Sessions, NEW type \in Speaks, ClientSend(n, type) PROVE Promised
  BY <1>5, ClientSendPromised
<1>6. QED
  BY <1>1, <1>2, <1>3, <1>4, <1>5 DEF Next

\* At the start nothing is sent, read or told.
LEMMA InitPromised == Init => Promise!Init
<1> SUFFICES ASSUME Init PROVE Promise!Init
  OBVIOUS
<1>1. /\ read = [n \in Sessions |-> <<>>] /\ eosRead = {} /\ written = [n \in Sessions |-> 0] /\ eosWritten = {}
      /\ stream = [n \in Sessions |-> NoStream]
  BY DEF Init
<1>2. NoStream.sent = 0 /\ NoStream.got = <<>> /\ NoStream.ended = FALSE /\ NoStream.eos = FALSE
  BY DEF NoStream
<1>3. Numbers(<<>>) = <<>>
  BY DEF Numbers
<1>4. \A d \in Sessions \X {"app", "client"} : d[1] \in Sessions
  OBVIOUS
<1>5. SENT = [d \in Sessions \X {"app", "client"} |-> 0]
  BY <1>1, <1>2, <1>4 DEF SENT, SentOf
<1>6. GOT = [d \in Sessions \X {"app", "client"} |-> <<>>]
  BY <1>1, <1>2, <1>3, <1>4 DEF GOT, GotOf
<1>7. ENDED = {} /\ TOLD = {}
  BY <1>1, <1>2, <1>4 DEF ENDED, EndedOf, TOLD, ToldOf
<1>8. QED
  BY <1>5, <1>6, <1>7 DEF Promise!Init, Promise!Directions, Promise!Ends, SENT, SentOf, GOT, GotOf, ENDED, EndedOf, TOLD, ToldOf

\* The driver, the A314 thread and the clients implement A314Stream: each session sends numbered
\* items, gets them in order and is told of the end after the last, whatever the rings, queues and
\* connections do (handle_pkt_data, handle_pkt_eos and close_socket of a314driver.c, and
\* handle_received_pkt and handle_received_message of a314.cc), under the condition of DataComesInOrder.
THEOREM OrderKeepsPromise == Spec /\ [][FreshIds]_vars => KeepsPromise
<1>1. Spec => []Inv
  BY AlwaysInv
<1>2. QED
  BY <1>1, InitOrdered, FreshOrdered, OrderSeen, InitPromised, NextPromised, PTL DEF Spec, KeepsPromise, Promise!Spec

\* So they do, without a condition on ids, in a run in which the Amiga is not reset and opens no more
\* streams than there are ids (allocate_stream_id, sockets.c:38).
THEOREM FewStreamsKeepPromise == Spec /\ []FewStreams => KeepsPromise
<1>1. Spec => []Inv
  BY AlwaysInv
<1>2. FewStreams /\ FewOrdered => Ordered
  BY DEF FewOrdered
<1>3. QED
  BY <1>1, <1>2, InitFewOrdered, NextFewOrdered, OrderSeen, InitPromised, NextPromised, PTL DEF Spec, KeepsPromise, Promise!Spec

-----------------------------------------------------------------------------
(* What a reader of A314Stream may rely on, for any number of streams.       *)

CONSTANT Streams
VARIABLES sent, got, ended, told
Stream == INSTANCE A314Stream

\* The state of A314Stream: counts, sequences of numbers, sets of directions.
PromiseTypes ==
  /\ sent \in [Stream!Directions -> Nat]
  /\ got \in [Stream!Directions -> Seq(Nat)]
  /\ ended \subseteq Stream!Directions /\ told \subseteq Stream!Directions

\* What came is the first part of what was sent, and the end comes after it.
GotInOrder == \A d \in Stream!Directions : /\ Len(got[d]) <= sent[d]
                                 /\ \A k \in 1..Len(got[d]) : got[d][k] = k
Prefix == PromiseTypes /\ GotInOrder /\ Stream!ToldAfterAll

\* Each kind of step of A314Stream keeps Prefix.
LEMMA PrefixKept == Prefix /\ [Stream!Next]_Stream!vars => Prefix'
<1> SUFFICES ASSUME Prefix, [Stream!Next]_Stream!vars PROVE Prefix'
  OBVIOUS
<1> USE DEF Prefix
<1>1. ASSUME NEW d \in Stream!Directions, Stream!Send(d) PROVE Prefix'
  <2>1. PromiseTypes'
    BY <1>1 DEF Stream!Send, PromiseTypes
  <2>2. sent' = [sent EXCEPT ![d] = sent[d] + 1] /\ got' = got /\ sent[d] \in Nat
    BY <1>1 DEF Stream!Send, PromiseTypes
  <2>3. GotInOrder'
    BY <2>2 DEF GotInOrder, PromiseTypes
  <2>4. Stream!ToldAfterAll'
    BY <1>1, <2>2 DEF Stream!Send, Stream!ToldAfterAll, PromiseTypes
  <2> QED BY <2>1, <2>3, <2>4
<1>2. ASSUME NEW d \in Stream!Directions, Stream!Get(d) PROVE Prefix'
  <2> DEFINE n == Len(got[d]) + 1
  <2>1. got[d] \in Seq(Nat) /\ sent[d] \in Nat /\ n \in Nat /\ n <= sent[d]
    BY <1>2 DEF Stream!Get, PromiseTypes
  <2>2. /\ got' = [got EXCEPT ![d] = Append(got[d], n)]
        /\ UNCHANGED <<sent, ended, told>>
    BY <1>2 DEF Stream!Get
  <2>3. Append(got[d], n) \in Seq(Nat) /\ Len(Append(got[d], n)) = n
    BY <2>1
  <2>4. PromiseTypes'
    BY <2>2, <2>3 DEF PromiseTypes
  <2>5. \A k \in 1..n : Append(got[d], n)[k] = k
    BY <2>1 DEF GotInOrder
  <2>6. ASSUME NEW e \in Stream!Directions
        PROVE  Len(got'[e]) <= sent'[e] /\ \A k \in 1..Len(got'[e]) : got'[e][k] = k
    <3>1. CASE e = d
      BY <3>1, <2>1, <2>2, <2>3, <2>5 DEF PromiseTypes
    <3>2. CASE e # d
      BY <3>2, <2>2 DEF GotInOrder, PromiseTypes
    <3> QED BY <3>1, <3>2
  <2>7. Stream!ToldAfterAll'
    BY <1>2, <2>2 DEF Stream!Get, Stream!ToldAfterAll, PromiseTypes
  <2> QED BY <2>4, <2>6, <2>7 DEF GotInOrder
<1>3. ASSUME NEW d \in Stream!Directions, Stream!End(d) \/ Stream!TellEnd(d) PROVE Prefix'
  BY <1>3 DEF Stream!End, Stream!TellEnd, PromiseTypes, GotInOrder, Stream!ToldAfterAll
<1>4. ASSUME NEW n \in Streams, NEW e \in Stream!Ends, Stream!TellAndEnd(n, e) PROVE Prefix'
  <2>1. <<n, Stream!Other(e)>> \in Stream!Directions /\ <<n, e>> \in Stream!Directions
    BY DEF Stream!Directions, Stream!Other, Stream!Ends
  <2> QED BY <1>4, <2>1 DEF Stream!TellAndEnd, PromiseTypes, GotInOrder, Stream!ToldAfterAll
<1>5. ASSUME UNCHANGED Stream!vars PROVE Prefix'
  BY <1>5 DEF Stream!vars, PromiseTypes, GotInOrder, Stream!ToldAfterAll
<1> QED BY <1>1, <1>2, <1>3, <1>4, <1>5 DEF Stream!Next

\* A receiver never runs ahead of its sender, and one that is told the end has
\* everything: this is what KeepsPromise gives the users of a stream.
THEOREM EndIsLast == Stream!Spec => [](GotInOrder /\ Stream!ToldAfterAll)
<1>1. Stream!Init => Prefix
  BY DEF Stream!Init, Prefix, PromiseTypes, GotInOrder, Stream!ToldAfterAll
<1>2. Prefix => GotInOrder /\ Stream!ToldAfterAll
  BY DEF Prefix
<1> QED BY <1>1, <1>2, PrefixKept, PTL DEF Stream!Spec
=============================================================================
