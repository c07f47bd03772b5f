--------------------------- MODULE A314PathProofs ---------------------------
(***************************************************************************)
(* The way of a stream's items between the application and the client.     *)
(*                                                                         *)
(* DataInOrder and EosAfterData compare the ends of a session: what was    *)
(* written on one side with what was read on the other.  Between them the  *)
(* items go through a socket, two queues of packets, a ring and a queue of *)
(* messages.  Order says where they all are.  A path g gives each session  *)
(* the stream id of its packets, its client and the id of its messages,    *)
(* for as long as anything of it is under way.  Along the path the queues  *)
(* carry consecutive runs of its items, in order, from the last one taken  *)
(* to the last one sent, and the end of stream, where there is one, behind *)
(* all of them: Down towards the client and Up towards the application.    *)
(* Birth says that a session whose CONNECT has not been taken has nothing  *)
(* else under way.                                                         *)
(*                                                                         *)
(* This module states Order and goes through the handlers of the driver    *)
(* and those of the A314 thread.  The path changes when an application     *)
(* gets a socket and when the thread serves a CONNECT; a new socket needs  *)
(* an id that is Fresh.                                                    *)
(***************************************************************************)
EXTENDS A314ChannelsProofs


-----------------------------------------------------------------------------
(* The items of a session in a queue. *)

\* m is the CONNECT of session n, its item 0, or a data packet or message of it
IsItem(m, n) == m.type \in {"CONNECT", "DATA"} /\ m.data.session = n
Parts(q, n) == {m.data.number : m \in {x \in Elems(q) : IsItem(x, n)}}

\* the items of n come in order, and none after an element of E
InOrder(q, n, E) ==
  \A j, k \in DOMAIN q :
    j < k /\ IsItem(q[k], n) =>
      q[j] \notin E /\ (IsItem(q[j], n) => q[j].data.number < q[k].data.number)

\* q carries the items lo + 1 to hi of session n, in order, and what ends them last
Run(q, n, E, lo, hi) == Parts(q, n) = (lo + 1)..hi /\ InOrder(q, n, E)

\* elements whose data has a number
Carriers(T) == \A m \in T : m.data.number \in Int

\* The places of a queue and its elements.
LEMMA Places ==
  ASSUME NEW T, NEW q \in Seq(T)
  PROVE  /\ Len(q) \in Nat /\ DOMAIN q = 1..Len(q) /\ \A k \in DOMAIN q : q[k] \in T /\ q[k] \in Elems(q)
         /\ \A m \in Elems(q) : m \in T /\ \E k \in DOMAIN q : m = q[k]
<1>1. Len(q) \in Nat /\ DOMAIN q = 1..Len(q) /\ \A k \in 1..Len(q) : q[k] \in T
  OBVIOUS
<1>2. QED
  BY <1>1 DEF Elems

\* A part of a session in a queue is an item of it.
LEMMA PartsAre ==
  ASSUME NEW q, NEW n
  PROVE  \A x : x \in Parts(q, n) <=> \E m \in Elems(q) : IsItem(m, n) /\ m.data.number = x
  BY DEF Parts

\* A queue without items of the session.
LEMMA RunNone ==
  ASSUME NEW T, NEW q \in Seq(T), NEW n, NEW E, NEW lo \in Int,
         \A m \in Elems(q) : ~IsItem(m, n)
  PROVE  Run(q, n, E, lo, lo)
<1>1. Parts(q, n) = {}
  BY PartsAre
<1>2. (lo + 1)..lo = {}
  OBVIOUS
<1>3. InOrder(q, n, E)
  BY Places DEF InOrder
<1>4. QED
  BY <1>1, <1>2, <1>3 DEF Run

\* Whether a queue has items of the session.
LEMMA RunHas ==
  ASSUME NEW T, Carriers(T), NEW q \in Seq(T), NEW n, NEW E, NEW lo \in Int, NEW hi \in Int, Run(q, n, E, lo, hi)
  PROVE  /\ (\A m \in Elems(q) : ~IsItem(m, n)) <=> hi <= lo
         /\ \A m \in Elems(q) : IsItem(m, n) => lo < m.data.number /\ m.data.number <= hi
<1>1. \A x \in Int : x \in (lo + 1)..hi <=> lo < x /\ x <= hi
  OBVIOUS
<1>2. \A m \in Elems(q) : m.data.number \in Int
  BY Places DEF Carriers
<1>3. \A m \in Elems(q) : IsItem(m, n) => lo < m.data.number /\ m.data.number <= hi
  BY <1>1, <1>2, PartsAre DEF Run
<1>4. ASSUME lo < hi PROVE \E m \in Elems(q) : IsItem(m, n)
  <2>1. hi \in Parts(q, n)
    BY <1>4, <1>1 DEF Run
  <2>2. QED
    BY <2>1, PartsAre
<1>5. QED
  BY <1>2, <1>3, <1>4

\* The next item is appended.
LEMMA RunAppendItem ==
  ASSUME NEW T, Carriers(T), NEW q \in Seq(T), NEW n, NEW E, NEW lo \in Int, NEW hi \in Int, lo <= hi,
         Run(q, n, E, lo, hi), NEW x \in T, IsItem(x, n), x.data.number = hi + 1,
         Elems(q) \intersect E = {}
  PROVE  Run(Append(q, x), n, E, lo, hi + 1)
<1> DEFINE v == Append(q, x)
<1>1. /\ v \in Seq(T) /\ Len(v) = Len(q) + 1 /\ Elems(v) = Elems(q) \union {x}
      /\ v[Len(q) + 1] = x /\ \A k \in 1..Len(q) : v[k] = q[k]
  BY AppendAdds
<1>2. Len(q) \in Nat /\ DOMAIN q = 1..Len(q) /\ DOMAIN v = 1..(Len(q) + 1)
  BY <1>1, Places
<1> HIDE DEF v
<1>3. Parts(v, n) = Parts(q, n) \union {hi + 1}
  BY <1>1, PartsAre
<1>4. (lo + 1)..(hi + 1) = ((lo + 1)..hi) \union {hi + 1}
  OBVIOUS
<1>5. InOrder(v, n, E)
  <2> SUFFICES ASSUME NEW j \in DOMAIN v, NEW k \in DOMAIN v, j < k, IsItem(v[k], n)
               PROVE  v[j] \notin E /\ (IsItem(v[j], n) => v[j].data.number < v[k].data.number)
    BY DEF InOrder
  <2>1. j \in 1..Len(q) /\ v[j] = q[j] /\ j \in DOMAIN q
    BY <1>1, <1>2
  <2>2. CASE k \in 1..Len(q)
    <3>1. v[k] = q[k] /\ k \in DOMAIN q
      BY <2>2, <1>1, <1>2
    <3>2. QED
      BY <2>1, <3>1 DEF Run, InOrder
  <2>3. CASE k = Len(q) + 1
    <3>1. v[k] = x
      BY <2>3, <1>1
    <3>2. v[j] \in Elems(q)
      BY <2>1, Places
    <3>3. IsItem(v[j], n) => v[j].data.number <= hi /\ v[j].data.number \in Int
      BY <3>2, RunHas, Places DEF Carriers
    <3>4. v[j] \notin E
      BY <3>2
    <3>5. QED
      BY <3>1, <3>3, <3>4
  <2>4. QED
    BY <2>2, <2>3, <1>2
<1>6. QED
  BY <1>3, <1>4, <1>5 DEF Run, v

\* Something else is appended.
LEMMA RunAppendOther ==
  ASSUME NEW T, NEW q \in Seq(T), NEW n, NEW E, NEW lo, NEW hi,
         Run(q, n, E, lo, hi), NEW x \in T, ~IsItem(x, n)
  PROVE  Run(Append(q, x), n, E, lo, hi)
<1> DEFINE v == Append(q, x)
<1>1. /\ v \in Seq(T) /\ Len(v) = Len(q) + 1 /\ Elems(v) = Elems(q) \union {x}
      /\ v[Len(q) + 1] = x /\ \A k \in 1..Len(q) : v[k] = q[k]
  BY AppendAdds
<1>2. Len(q) \in Nat /\ DOMAIN q = 1..Len(q) /\ DOMAIN v = 1..(Len(q) + 1)
  BY <1>1, Places
<1> HIDE DEF v
<1>3. Parts(v, n) = Parts(q, n)
  <2>1. \A y : y \in Parts(v, n) <=> y \in Parts(q, n)
    BY <1>1, PartsAre
  <2>2. QED
    BY <2>1, Zenon DEF Parts
<1>5. InOrder(v, n, E)
  <2> SUFFICES ASSUME NEW j \in DOMAIN v, NEW k \in DOMAIN v, j < k, IsItem(v[k], n)
               PROVE  v[j] \notin E /\ (IsItem(v[j], n) => v[j].data.number < v[k].data.number)
    BY DEF InOrder
  <2>1. k # Len(q) + 1
    BY <1>1
  <2>2. j \in 1..Len(q) /\ v[j] = q[j] /\ j \in DOMAIN q /\ v[k] = q[k] /\ k \in DOMAIN q
    BY <2>1, <1>1, <1>2
  <2>3. QED
    BY <2>2 DEF Run, InOrder
<1>6. QED
  BY <1>3, <1>5 DEF Run, v

\* The head of a queue and the rest.
LEMMA HeadAndRest ==
  ASSUME NEW T, NEW q \in Seq(T), q # <<>>
  PROVE  /\ Tail(q) \in Seq(T) /\ Head(q) \in T /\ Elems(q) = {Head(q)} \union Elems(Tail(q))
         /\ 1 \in DOMAIN q /\ q[1] = Head(q)
         /\ \A k \in DOMAIN Tail(q) : Tail(q)[k] = q[k + 1] /\ k + 1 \in DOMAIN q /\ 1 < k + 1 /\ k \in Int
<1>1. Tail(q) \in Seq(T) /\ Head(q) \in T /\ Elems(q) = {Head(q)} \union Elems(Tail(q))
  BY TailLeaves
<1>2. /\ Len(q) \in Nat \ {0} /\ DOMAIN q = 1..Len(q) /\ Head(q) = q[1]
  OBVIOUS
<1>3. /\ Len(Tail(q)) = Len(q) - 1 /\ \A k \in 1..Len(Tail(q)) : Tail(q)[k] = q[k + 1]
  BY HeadTailProperties
<1>4. DOMAIN Tail(q) = 1..(Len(q) - 1)
  BY <1>1, <1>3, Places
<1>5. QED
  BY <1>1, <1>2, <1>3, <1>4

\* The order of what is behind the head.
LEMMA RestInOrder ==
  ASSUME NEW T, NEW q \in Seq(T), q # <<>>, NEW n, NEW E, InOrder(q, n, E)
  PROVE  /\ InOrder(Tail(q), n, E)
         /\ \A m \in Elems(Tail(q)) : IsItem(m, n) =>
              Head(q) \notin E /\ (IsItem(Head(q), n) => Head(q).data.number < m.data.number)
<1> DEFINE v == Tail(q)
<1>1. /\ v \in Seq(T) /\ 1 \in DOMAIN q /\ q[1] = Head(q)
      /\ \A k \in DOMAIN v : v[k] = q[k + 1] /\ k + 1 \in DOMAIN q /\ 1 < k + 1 /\ k \in Int
  BY HeadAndRest
<1> HIDE DEF v
<1>2. \A j, k \in DOMAIN v : j < k => j + 1 < k + 1
  BY <1>1
<1>3. InOrder(v, n, E)
  BY <1>1, <1>2 DEF InOrder
<1>4. \A k \in DOMAIN v : IsItem(v[k], n) =>
        Head(q) \notin E /\ (IsItem(Head(q), n) => Head(q).data.number < v[k].data.number)
  BY <1>1 DEF InOrder
<1>5. \A m \in Elems(v) : \E k \in DOMAIN v : m = v[k]
  BY <1>1, Places
<1>6. \A m \in Elems(v) : IsItem(m, n) =>
        Head(q) \notin E /\ (IsItem(Head(q), n) => Head(q).data.number < m.data.number)
  BY <1>4, <1>5
<1>7. QED
  BY <1>3, <1>6 DEF v

\* The head is an item: the first.
LEMMA RunTailItem ==
  ASSUME NEW T, Carriers(T), NEW q \in Seq(T), q # <<>>, NEW n, NEW E, NEW lo \in Int, NEW hi \in Int,
         Run(q, n, E, lo, hi), IsItem(Head(q), n)
  PROVE  /\ Head(q).data.number = lo + 1 /\ lo < hi /\ Run(Tail(q), n, E, lo + 1, hi)
         /\ Head(q) \in E => hi = lo + 1
<1> DEFINE v == Tail(q)
           x == Head(q).data.number
<1>1. /\ v \in Seq(T) /\ Head(q) \in T /\ Elems(q) = {Head(q)} \union Elems(v)
  BY HeadAndRest
<1>2. /\ InOrder(v, n, E)
      /\ \A m \in Elems(v) : IsItem(m, n) => Head(q) \notin E /\ x < m.data.number
  BY RestInOrder DEF Run
<1> HIDE DEF v
<1>3. x \in Int /\ \A m \in Elems(v) : m.data.number \in Int
  BY <1>1, Places DEF Carriers
<1>4. lo < x /\ x <= hi
  BY <1>1, RunHas
<1>5. lo + 1 \in Parts(q, n)
  BY <1>3, <1>4 DEF Run
<1>6. PICK m \in Elems(q) : IsItem(m, n) /\ m.data.number = lo + 1
  BY <1>5, PartsAre
<1>7. x = lo + 1
  BY <1>1, <1>2, <1>3, <1>4, <1>6
<1>8. \A y : y \in Parts(v, n) <=> y \in Parts(q, n) /\ y # x
  BY <1>1, <1>2, <1>3, PartsAre
<1>9. Parts(v, n) = (lo + 2)..hi
  <2>1. \A y : y \in Parts(v, n) <=> y \in (lo + 1)..hi /\ y # lo + 1
    BY <1>7, <1>8 DEF Run
  <2>2. \A y : y \in (lo + 1)..hi /\ y # lo + 1 <=> y \in (lo + 2)..hi
    OBVIOUS
  <2>3. QED
    BY <2>1, <2>2
<1>10. Head(q) \in E => hi = lo + 1
  <2>1. ASSUME Head(q) \in E, lo + 1 < hi PROVE FALSE
    <3>1. lo + 2 \in Parts(v, n)
      BY <1>9, <2>1
    <3>2. QED
      BY <3>1, <2>1, <1>2, PartsAre
  <2>2. QED
    BY <2>1, <1>4, <1>7
<1>11. (lo + 1) + 1 = lo + 2
  OBVIOUS
<1>12. QED
  BY <1>2, <1>4, <1>7, <1>9, <1>10, <1>11 DEF Run, v

\* The head is something else; if it is what ends the items, there are none.
LEMMA RunTailOther ==
  ASSUME NEW T, Carriers(T), NEW q \in Seq(T), q # <<>>, NEW n, NEW E, NEW lo \in Int, NEW hi \in Int,
         Run(q, n, E, lo, hi), ~IsItem(Head(q), n)
  PROVE  Run(Tail(q), n, E, lo, hi) /\ (Head(q) \in E => hi <= lo)
<1> DEFINE v == Tail(q)
<1>1. /\ v \in Seq(T) /\ Head(q) \in T /\ Elems(q) = {Head(q)} \union Elems(v)
  BY HeadAndRest
<1>2. /\ InOrder(v, n, E)
      /\ \A m \in Elems(v) : IsItem(m, n) => Head(q) \notin E
  BY RestInOrder DEF Run
<1> HIDE DEF v
<1>3. Parts(v, n) = Parts(q, n)
  <2>1. \A y : y \in Parts(v, n) <=> y \in Parts(q, n)
    BY <1>1, PartsAre
  <2>2. QED
    BY <2>1, Zenon DEF Parts
<1>4. Run(v, n, E, lo, hi)
  BY <1>2, <1>3 DEF Run
<1>5. Head(q) \in E => hi <= lo
  BY <1>1, <1>2, <1>4, RunHas
<1>6. QED
  BY <1>4, <1>5 DEF v

\* Two queues, one behind the other.
LEMMA RunConcat ==
  ASSUME NEW T, Carriers(T), NEW q \in Seq(T), NEW r \in Seq(T), NEW n, NEW E,
         NEW lo \in Int, NEW mid \in Int, NEW hi \in Int, lo <= mid, mid <= hi,
         Run(q, n, E, lo, mid), Run(r, n, E, mid, hi), Elems(q) \intersect E # {} => mid = hi
  PROVE  Run(q \o r, n, E, lo, hi)
<1> DEFINE v == q \o r
<1>1. /\ v \in Seq(T) /\ Len(v) = Len(q) + Len(r) /\ Elems(v) = Elems(q) \union Elems(r)
  BY ConcatJoins
<1>2. /\ Len(q) \in Nat /\ Len(r) \in Nat /\ DOMAIN q = 1..Len(q) /\ DOMAIN r = 1..Len(r)
      /\ DOMAIN v = 1..(Len(q) + Len(r))
  BY <1>1, Places
<1>3. \A k \in DOMAIN v : v[k] = IF k <= Len(q) THEN q[k] ELSE r[k - Len(q)]
  BY <1>2
<1> HIDE DEF v
<1>4. Parts(v, n) = Parts(q, n) \union Parts(r, n)
  BY <1>1, PartsAre
<1>5. (lo + 1)..hi = ((lo + 1)..mid) \union ((mid + 1)..hi)
  OBVIOUS
<1>6. InOrder(v, n, E)
  <2> SUFFICES ASSUME NEW j \in DOMAIN v, NEW k \in DOMAIN v, j < k, IsItem(v[k], n)
               PROVE  v[j] \notin E /\ (IsItem(v[j], n) => v[j].data.number < v[k].data.number)
    BY DEF InOrder
  <2>1. CASE k <= Len(q)
    <3>1. v[k] = q[k] /\ v[j] = q[j] /\ k \in DOMAIN q /\ j \in DOMAIN q
      BY <2>1, <1>2, <1>3
    <3>2. QED
      BY <3>1 DEF Run, InOrder
  <2>2. CASE Len(q) < j
    <3>1. /\ v[k] = r[k - Len(q)] /\ v[j] = r[j - Len(q)] /\ k - Len(q) \in DOMAIN r
          /\ j - Len(q) \in DOMAIN r /\ j - Len(q) < k - Len(q)
      BY <2>2, <1>2, <1>3
    <3>2. QED
      BY <3>1 DEF Run, InOrder
  <2>3. CASE j <= Len(q) /\ Len(q) < k
    <3>1. v[j] = q[j] /\ j \in DOMAIN q /\ v[k] = r[k - Len(q)] /\ k - Len(q) \in DOMAIN r
      BY <2>3, <1>2, <1>3
    <3>2. v[j] \in Elems(q) /\ v[k] \in Elems(r) /\ v[j].data.number \in Int /\ v[k].data.number \in Int
      BY <3>1, Places DEF Carriers
    <3>3. mid < v[k].data.number /\ v[k].data.number <= hi
      BY <3>2, RunHas
    <3>4. IsItem(v[j], n) => v[j].data.number <= mid
      BY <3>2, RunHas
    <3>5. v[j] \notin E
      BY <3>2, <3>3
    <3>6. QED
      BY <3>2, <3>3, <3>4, <3>5
  <2>4. QED
    BY <2>1, <2>2, <2>3, <1>2
<1>7. QED
  BY <1>4, <1>5, <1>6 DEF Run, v

-----------------------------------------------------------------------------
(* Where the sessions are. *)

(***************************************************************************)
(* The id of a session's packets, and the client and the stream id of its  *)
(* messages: what the sockets, the channels and the streams say of it,     *)
(* kept for as long as packets or messages of it may be under way.         *)
(***************************************************************************)
Paths == [id : [Sessions -> Nat], cl : [Sessions -> Clients \union {NoOne}], sid : [Sessions -> Nat]]
Apart(g) ==
  /\ \A n, k \in Sessions : g.id[n] = g.id[k] /\ g.id[n] # 0 => n = k
  /\ \A n, k \in Sessions : g.cl[n] = g.cl[k] /\ g.cl[n] # NoOne /\ g.sid[n] = g.sid[k] => n = k

\* sockets, packets and channels have the id of their session
SocketsRouted(g, d) == \A i \in DOMAIN d.socket : g.id[d.socket[i].session] = i
PacketsRouted(g, q) ==
  \A m \in Elems(q) :
    /\ m.type \in {"CONNECT", "DATA"} => m.data.session \in Sessions /\ g.id[m.data.session] = m.id
    /\ m.type = "CONNECT" => m.data.number = 0
    /\ m.type = "DATA" => m.data.number # 0
ChannelsRouted(g, p) ==
  \A i \in DOMAIN p.channels :
    /\ PacketsRouted(g, p.channels[i].packet_queue)
    /\ \A m \in Elems(p.channels[i].packet_queue) : m.id = i
    /\ p.channels[i].association # NoOne =>
         \E n \in Sessions : /\ g.id[n] = i /\ g.cl[n] = p.channels[i].association
                             /\ g.sid[n] = p.channels[i].stream_id

\* messages and streams are on the connection of their session, under its stream id
Registers == {"REGISTER_REQ", "REGISTER_RES"}
Said(g, c, q, next) ==
  \A m \in Elems(q) :
    /\ m.type \in {"CONNECT", "DATA"} =>
         /\ m.data.session \in Sessions /\ g.cl[m.data.session] = c /\ g.sid[m.data.session] = m.sid
    /\ m.type = "CONNECT" => m.data.number = 0
    /\ m.type = "DATA" => m.data.number # 0
    /\ m.type \notin Registers => m.sid < next
MessagesRouted(g, p) ==
  \A c \in Clients : /\ Said(g, c, p.toCli[c], p.cc_next_stream_id[c])
                     /\ Said(g, c, p.fromCli[c], p.cc_next_stream_id[c])
Registered(p) == {p.services[s] : s \in DOMAIN p.services}
SidsRouted(g, p) ==
  /\ \A c \in Clients : 1 <= p.cc_next_stream_id[c]
  /\ \A n \in Sessions : g.cl[n] # NoOne =>
       1 <= g.sid[n] /\ g.sid[n] < p.cc_next_stream_id[g.cl[n]] /\ g.cl[n] \in Registered(p)
StreamsRouted(g, p, st) ==
  \A n \in Sessions :
    /\ st[n].client # NoOne =>
         g.cl[n] = st[n].client /\ g.sid[n] = st[n].sid /\ p.conn[st[n].client] = "up"
    /\ st[n].st \in {"open", "eos"} => st[n].client # NoOne
    /\ st[n].st = "none" => st[n] = NoStream

\* a client registers once, with its name, on a connection
Asking(q) == \E m \in Elems(q) : m.type = "REGISTER_REQ"
Refused(q) == \E m \in Elems(q) : m.type = "REGISTER_RES" /\ m.data.number # 1
ServicesRouted(p) ==
  /\ \A s \in DOMAIN p.services : s = Name[p.services[s]] /\ p.conn[p.services[s]] # "none"
  /\ \A c \in OnDemand : p.conn[c] # "none" => c \in Registered(p)
  /\ \A c \in Clients :
       /\ Asking(p.fromCli[c]) =>
            /\ c \notin Registered(p) /\ ~Asking(Tail(p.fromCli[c]))
            /\ Head(p.fromCli[c]).type = "REGISTER_REQ"
            /\ \A m \in Elems(p.toCli[c]) : m.type # "REGISTER_RES"
       /\ Refused(p.toCli[c]) => c \notin Registered(p)
       /\ p.conn[c] = "none" => p.toCli[c] = <<>> /\ p.fromCli[c] = <<>>

ThreadRouted(g, p) ==
  ChannelsRouted(g, p) /\ MessagesRouted(g, p) /\ SidsRouted(g, p) /\ ServicesRouted(p)

-----------------------------------------------------------------------------
(* What is under way of a session. *)

EosPackets(i) == [type : {"EOS"}, id : {i}, data : Items]
EosMessages(s) == [type : {"EOS"}, sid : {s}, data : Items]
Carries(q, E) == Elems(q) \intersect E # {}

\* its CONNECT is not sent yet, or not taken yet, and nothing else is
Waits(d, n) == \E i \in DOMAIN d.socket : /\ d.socket[i].session = n /\ d.socket[i].pending_connect # NoOne
                                          /\ i \in Elems(d.send_queue)
Calls(q, n) == \E m \in Elems(q) : m.type = "CONNECT" /\ m.data.session = n
Unborn(g, n, st) == g.cl[n] = NoOne /\ st[n] = NoStream
Birth(g, n, u, d, st) ==
  /\ d.io[n] = "idle" => g.id[n] = 0 /\ d.read[n] = <<>> /\ n \notin d.eosRead
  /\ d.io[n] = "idle" \/ Waits(d, n) =>
       /\ Unborn(g, n, st) /\ d.written[n] = 0 /\ n \notin d.eosWritten
       /\ \A m \in Elems(u) : ~IsItem(m, n)
  /\ Calls(u, n) => Unborn(g, n, st) /\ Run(u, n, EosPackets(g.id[n]), -1, d.written[n])

\* to the client: the packets to the thread follow the messages, which follow what it has
Linked(g, n, p) == g.cl[n] # NoOne /\ p.conn[g.cl[n]] = "up"
Flows(g, n, p) == /\ g.id[n] \in DOMAIN p.channels /\ p.channels[g.id[n]].association # NoOne
                  /\ ~p.channels[g.id[n]].got_eos_from_ami
Taken(s) == IF s.st = "none" THEN -1 ELSE Len(s.got)
DownTo(g, n, p, u, d, st, x) ==
  /\ Taken(st[n]) <= x /\ Run(p.toCli[g.cl[n]], n, EosMessages(g.sid[n]), Taken(st[n]), x)
  /\ Carries(p.toCli[g.cl[n]], EosMessages(g.sid[n])) => x = d.written[n] /\ n \in d.eosWritten
  /\ Flows(g, n, p) => Run(u, n, EosPackets(g.id[n]), x, d.written[n])
Down(g, n, p, u, d, st) ==
  /\ \A k \in DOMAIN st[n].got : st[n].got[k] = Item(n, k)
  /\ Carries(u, EosPackets(g.id[n])) => n \in d.eosWritten
  /\ st[n].eos => st[n].st = "done" /\ Len(st[n].got) = d.written[n] /\ n \in d.eosWritten
  /\ Linked(g, n, p) /\ Calls(p.toCli[g.cl[n]], n) => st[n] = NoStream
  /\ Linked(g, n, p) /\ st[n].st # "done" => \E x \in 0..d.written[n] : DownTo(g, n, p, u, d, st, x)

\* from the client: what waits in the socket follows what is read, and so on to its messages
Open(d, i) == i \in DOMAIN d.socket /\ "CLOSED" \notin d.socket[i].flags
Got(d, n, i) == Len(d.read[n]) + Len(d.socket[i].rq)
Queue(p, i) == IF i \in DOMAIN p.channels THEN p.channels[i].packet_queue ELSE <<>>
UpTo(g, n, p, d, r, b, s, z1, z2, z3) ==
  LET i == g.id[n]
      E == EosPackets(i) IN
  /\ Got(d, n, i) <= z1 /\ z1 <= z2 /\ z2 <= z3
  /\ Run(r, n, E, Got(d, n, i), z1) /\ Run(b, n, E, z1, z2) /\ Run(Queue(p, i), n, E, z2, z3)
  /\ Carries(r, E) => s.ended /\ z1 = s.sent
  /\ Carries(b, E) => s.ended /\ z2 = s.sent
  /\ Carries(Queue(p, i), E) => s.ended /\ z3 = s.sent
  /\ i \in DOMAIN p.channels /\ p.channels[i].association # NoOne =>
       Run(p.fromCli[g.cl[n]], n, EosMessages(g.sid[n]), z3, s.sent)
UpOpen(g, n, p, d, r, b, s) ==
  LET k == d.socket[g.id[n]] IN
  /\ \A j \in DOMAIN k.rq : k.rq[j] = Item(n, Len(d.read[n]) + j)
  /\ "RCVD_EOS_FROM_RPI" \in k.flags => s.ended /\ Got(d, n, g.id[n]) = s.sent
  /\ \E z1, z2, z3 \in 0..s.sent : UpTo(g, n, p, d, r, b, s, z1, z2, z3)
Up(g, n, p, d, r, b, st) ==
  /\ \A k \in DOMAIN d.read[n] : d.read[n][k] = Item(n, k)
  /\ st[n].ended => st[n].st \in {"eos", "done"}
  /\ n \in d.eosRead => st[n].ended /\ Len(d.read[n]) = st[n].sent
  /\ g.cl[n] # NoOne /\ Carries(p.fromCli[g.cl[n]], EosMessages(g.sid[n])) => st[n].ended
  /\ Open(d, g.id[n]) => UpOpen(g, n, p, d, r, b, st[n])

\* an application that has sent EOS writes no more; a read waits when nothing else does
ReadyOf(d, s) ==
  /\ s.session \in d.eosWritten => "RCVD_EOS_FROM_APP" \in s.flags /\ s.pending_write = NoOne
  /\ s.pending_write # NoOne /\ s.pending_write.op = "EOS" => "RCVD_EOS_FROM_APP" \in s.flags
  /\ s.pending_read # NoOne => s.rq = <<>>
Ready(d) == \A i \in DOMAIN d.socket : ReadyOf(d, d.socket[i])

\* p is the thread, d the driver, u the packets it sent and the thread has not taken
Order(g, p, u, r, b, st, d) ==
  /\ g \in Paths /\ Apart(g)
  /\ SocketsRouted(g, d) /\ PacketsRouted(g, u) /\ PacketsRouted(g, r) /\ PacketsRouted(g, b)
  /\ ThreadRouted(g, p) /\ StreamsRouted(g, p, st) /\ Ready(d)
  /\ \A n \in Sessions : Birth(g, n, u, d, st) /\ Down(g, n, p, u, d, st) /\ Up(g, n, p, d, r, b, st)

-----------------------------------------------------------------------------
(* The driver keeps what is under way. *)

(***************************************************************************)
(* The driver goes from d to e: a socket may be closed or go, but none     *)
(* comes and nothing is read, written or received, but for session n.      *)
(***************************************************************************)
Same(d, e, k) ==
  /\ e.written[k] = d.written[k] /\ e.read[k] = d.read[k]
  /\ k \in e.eosWritten <=> k \in d.eosWritten
  /\ k \in e.eosRead <=> k \in d.eosRead
Stays(d, e, j, n) ==
  LET s == d.socket[j]
      t == e.socket[j] IN
  /\ t.session = s.session /\ s.flags \subseteq t.flags
  /\ t.pending_connect # NoOne =>
       s.pending_connect # NoOne /\ (j \in Elems(e.send_queue) => j \in Elems(d.send_queue))
  /\ t.session # n /\ "CLOSED" \notin t.flags =>
       t.rq = s.rq /\ ("RCVD_EOS_FROM_RPI" \in t.flags => "RCVD_EOS_FROM_RPI" \in s.flags)
Keeps(d, e, n) ==
  /\ \A k \in Sessions : e.io[k] = "idle" => d.io[k] = "idle"
  /\ \A k \in Sessions \ {n} : Same(d, e, k)
  /\ DOMAIN e.socket \subseteq DOMAIN d.socket
  /\ \A j \in DOMAIN e.socket : Stays(d, e, j, n)

\* Two steps of a handler keep what each of them keeps.
LEMMA KeepsMore ==
  ASSUME NEW d, NEW e, NEW f, NEW n, Keeps(d, e, n), Keeps(e, f, n)
  PROVE  Keeps(d, f, n)
<1>1. \A k \in Sessions : f.io[k] = "idle" => d.io[k] = "idle"
  BY DEF Keeps
<1>2. \A k \in Sessions \ {n} : Same(d, f, k)
  BY DEF Keeps, Same
<1>3. DOMAIN f.socket \subseteq DOMAIN d.socket
  BY DEF Keeps
<1>4. ASSUME NEW j \in DOMAIN f.socket PROVE Stays(d, f, j, n)
  <2>1. j \in DOMAIN e.socket /\ Stays(d, e, j, n) /\ Stays(e, f, j, n)
    BY <1>4 DEF Keeps
  <2>2. QED
    BY <2>1 DEF Stays
<1>5. QED
  BY <1>1, <1>2, <1>3, <1>4 DEF Keeps

\* What is kept of every session is kept of all but one.
LEMMA KeepsAll ==
  ASSUME NEW d \in DriverStates, NEW e, NEW n, Keeps(d, e, NoOne)
  PROVE  Keeps(d, e, n)
<1>1. NoOne \notin Sessions
  BY RequestKinds
<1>2. \A k \in Sessions \ {n} : Same(d, e, k)
  BY <1>1 DEF Keeps
<1>3. ASSUME NEW j \in DOMAIN e.socket PROVE Stays(d, e, j, n)
  <2>1. Stays(d, e, j, NoOne) /\ j \in DOMAIN d.socket
    BY <1>3 DEF Keeps
  <2>2. d.socket[j].session \in Sessions
    BY <2>1, MapsOfSockets, SocketFields DEF DriverStates
  <2>3. QED
    BY <1>1, <2>1, <2>2 DEF Stays
<1>4. QED
  BY <1>2, <1>3 DEF Keeps

\* A packet that is neither an item of session n nor its EOS
Foreign(g, n, m) == ~IsItem(m, n) /\ m \notin EosPackets(g.id[n])
Grows(g, n, u, v) == v = u \/ \E m \in AmigaPackets : v = Append(u, m) /\ Foreign(g, n, m)

\* The data of packets and messages is numbered.
LEMMA AllCarry ==
  /\ Carriers(AmigaPackets) /\ Carriers(PiPackets) /\ Carriers(ToClient) /\ Carriers(FromClient)
  BY ItemTypes DEF Carriers, AmigaPackets, PiPackets, ToClient, FromClient

\* A foreign packet in the ring changes nothing for a session.
LEMMA GrowsKeeps ==
  ASSUME NEW g, NEW n, NEW u \in Seq(AmigaPackets), NEW v, Grows(g, n, u, v)
  PROVE  /\ (\A m \in Elems(u) : ~IsItem(m, n)) => \A m \in Elems(v) : ~IsItem(m, n)
         /\ Calls(v, n) => Calls(u, n)
         /\ Carries(v, EosPackets(g.id[n])) => Carries(u, EosPackets(g.id[n]))
         /\ \A lo, hi : Run(u, n, EosPackets(g.id[n]), lo, hi) => Run(v, n, EosPackets(g.id[n]), lo, hi)
<1>1. CASE v = u
  BY <1>1
<1>2. CASE \E m \in AmigaPackets : v = Append(u, m) /\ Foreign(g, n, m)
  <2>1. PICK m \in AmigaPackets : v = Append(u, m) /\ Foreign(g, n, m)
    BY <1>2
  <2>2. Elems(v) = Elems(u) \union {m} /\ ~IsItem(m, n) /\ m \notin EosPackets(g.id[n])
    BY <2>1, AppendAdds DEF Foreign
  <2>3. \A lo, hi : Run(u, n, EosPackets(g.id[n]), lo, hi) => Run(v, n, EosPackets(g.id[n]), lo, hi)
    BY <2>1, <2>2, RunAppendOther
  <2>4. ~(m.type = "CONNECT" /\ m.data.session = n)
    BY <2>2 DEF IsItem
  <2>5. QED
    BY <2>2, <2>3, <2>4 DEF Calls, Carries
<1>3. QED
  BY <1>1, <1>2 DEF Grows

\* A session the driver does nothing for keeps its birth,
LEMMA BirthKept ==
  ASSUME NEW g, NEW d, NEW e, NEW n, Keeps(d, e, n), NEW k \in Sessions, k # n,
         NEW u \in Seq(AmigaPackets), NEW v, Grows(g, k, u, v), NEW st, Birth(g, k, u, d, st)
  PROVE  Birth(g, k, v, e, st)
<1>1. Same(d, e, k) /\ (e.io[k] = "idle" => d.io[k] = "idle")
  BY DEF Keeps
<1>2. ASSUME Waits(e, k) PROVE Waits(d, k)
  <2>1. PICK i \in DOMAIN e.socket : /\ e.socket[i].session = k /\ e.socket[i].pending_connect # NoOne
                                     /\ i \in Elems(e.send_queue)
    BY <1>2 DEF Waits
  <2>2. i \in DOMAIN d.socket /\ Stays(d, e, i, n)
    BY DEF Keeps
  <2>3. QED
    BY <2>1, <2>2 DEF Stays, Waits
<1>3. QED
  BY <1>1, <1>2, GrowsKeeps DEF Birth, Same

\* what is under way to its client,
LEMMA DownKept ==
  ASSUME NEW g, NEW p, NEW d, NEW e, NEW n, Keeps(d, e, n), NEW k \in Sessions, k # n,
         NEW u \in Seq(AmigaPackets), NEW v, Grows(g, k, u, v), NEW st, Down(g, k, p, u, d, st)
  PROVE  Down(g, k, p, v, e, st)
<1>1. Same(d, e, k)
  BY DEF Keeps
<1>2. \A x : DownTo(g, k, p, u, d, st, x) => DownTo(g, k, p, v, e, st, x)
  BY <1>1, GrowsKeeps DEF DownTo, Same
<1>3. QED
  BY <1>1, <1>2, GrowsKeeps DEF Down, Same

\* The socket with the id of a session is its own.
LEMMA OwnSocket ==
  ASSUME NEW g, Apart(g), NEW d \in DriverStates, SocketsRouted(g, d),
         NEW n \in Sessions, g.id[n] \in DOMAIN d.socket
  PROVE  d.socket[g.id[n]].session = n
<1>1. /\ DOMAIN d.socket \subseteq Ids /\ d.socket[g.id[n]].session \in Sessions
  BY MapsOfSockets, SocketFields DEF DriverStates
<1>2. g.id[n] # 0
  BY <1>1, IdAssumption DEF Ids
<1>3. QED
  BY <1>1, <1>2 DEF SocketsRouted, Apart

\* A foreign packet leaves the ring.
Leaves(g, n, r, v) == v = r \/ (r # <<>> /\ v = Tail(r) /\ Foreign(g, n, Head(r)))
LEMMA LeavesKeeps ==
  ASSUME NEW g, NEW n, NEW r \in Seq(PiPackets), NEW v, Leaves(g, n, r, v)
  PROVE  /\ Carries(v, EosPackets(g.id[n])) => Carries(r, EosPackets(g.id[n]))
         /\ \A lo, hi \in Int :
              Run(r, n, EosPackets(g.id[n]), lo, hi) => Run(v, n, EosPackets(g.id[n]), lo, hi)
<1>1. CASE v = r
  BY <1>1
<1>2. CASE r # <<>> /\ v = Tail(r) /\ Foreign(g, n, Head(r))
  <2>1. Elems(r) = {Head(r)} \union Elems(v)
    BY <1>2, HeadAndRest
  <2>2. \A lo, hi \in Int :
          Run(r, n, EosPackets(g.id[n]), lo, hi) => Run(v, n, EosPackets(g.id[n]), lo, hi)
    BY <1>2, AllCarry, RunTailOther DEF Foreign
  <2>3. QED
    BY <2>1, <2>2 DEF Carries
<1>3. QED
  BY <1>1, <1>2 DEF Leaves

\* The lengths of what a session has read and has to read.
LEMMA GotIs ==
  ASSUME NEW d \in DriverStates, NEW n \in Sessions, NEW i \in DOMAIN d.socket
  PROVE  Got(d, n, i) \in Nat /\ Len(d.read[n]) \in Nat /\ Len(d.socket[i].rq) \in Nat
<1>1. d.read[n] \in Seq(Items) /\ d.socket[i].rq \in Seq(Items)
  BY MapsOfSockets, SocketFields DEF DriverStates
<1>2. Len(d.read[n]) \in Nat /\ Len(d.socket[i].rq) \in Nat
  BY <1>1, LenProperties
<1>3. \A x, y \in Nat : x + y \in Nat
  OBVIOUS
<1>4. QED
  BY <1>2, <1>3, Zenon DEF Got

\* and what is under way from its client.
LEMMA UpKept ==
  ASSUME NEW g, Apart(g), NEW p, NEW d \in DriverStates, SocketsRouted(g, d), NEW e, NEW n, Keeps(d, e, n),
         NEW k \in Sessions, k # n, NEW r \in Seq(PiPackets), NEW v,
         Open(e, g.id[k]) => Leaves(g, k, r, v), NEW b,
         NEW st, st[k].sent \in Nat, Up(g, k, p, d, r, b, st)
  PROVE  Up(g, k, p, e, v, b, st)
<1>1. Same(d, e, k)
  BY DEF Keeps
<1>2. ASSUME Open(e, g.id[k]) PROVE UpOpen(g, k, p, e, v, b, st[k])
  <2> DEFINE i == g.id[k]
  <2>1. i \in DOMAIN d.socket /\ Stays(d, e, i, n)
    BY <1>2 DEF Keeps, Open
  <2>2. d.socket[i].session = k
    BY <2>1, OwnSocket
  <2>3. /\ Open(d, i) /\ e.socket[i].rq = d.socket[i].rq
        /\ "RCVD_EOS_FROM_RPI" \in e.socket[i].flags => "RCVD_EOS_FROM_RPI" \in d.socket[i].flags
    BY <1>2, <2>1, <2>2 DEF Stays, Open
  <2>4. Got(e, k, i) = Got(d, k, i) /\ Got(d, k, i) \in Int
    BY <1>1, <2>1, <2>3, GotIs DEF Got, Same
  <2>5. \A z1, z2, z3 \in 0..st[k].sent :
          UpTo(g, k, p, d, r, b, st[k], z1, z2, z3) => UpTo(g, k, p, e, v, b, st[k], z1, z2, z3)
    <3>1. TAKE z1, z2, z3 \in 0..st[k].sent
    <3>2. z1 \in Int
      OBVIOUS
    <3>3. QED
      BY <1>2, <2>4, <3>2, LeavesKeeps DEF UpTo
  <2>6. UpOpen(g, k, p, d, r, b, st[k])
    BY <2>3 DEF Up
  <2>7. QED
    BY <1>1, <2>3, <2>4, <2>5, <2>6 DEF UpOpen, Same
<1>3. QED
  BY <1>1, <1>2 DEF Up, Same

(***************************************************************************)
(* A step of the driver for session n, or for none: v is what the thread   *)
(* has not taken, and w the ring that the driver reads.                    *)
(***************************************************************************)
LEMMA DriverOrder ==
  ASSUME NEW g, NEW p, NEW u \in Seq(AmigaPackets), NEW r \in Seq(PiPackets), NEW b,
         NEW st \in [Sessions -> StreamTypes], NEW d \in DriverStates, Order(g, p, u, r, b, st, d),
         NEW e, NEW n, Keeps(d, e, n), Ready(e), NEW v, NEW w,
         PacketsRouted(g, v), PacketsRouted(g, w),
         \A k \in Sessions \ {n} : Grows(g, k, u, v) /\ (Open(e, g.id[k]) => Leaves(g, k, r, w)),
         n \in Sessions => Birth(g, n, v, e, st) /\ Down(g, n, p, v, e, st) /\ Up(g, n, p, e, w, b, st)
  PROVE  Order(g, p, v, w, b, st, e)
<1>1. SocketsRouted(g, e)
  BY DEF Keeps, Stays, SocketsRouted, Order
<1>2. ASSUME NEW k \in Sessions, k # n
      PROVE  Birth(g, k, v, e, st) /\ Down(g, k, p, v, e, st) /\ Up(g, k, p, e, w, b, st)
  <2>1. /\ Birth(g, k, u, d, st) /\ Down(g, k, p, u, d, st) /\ Up(g, k, p, d, r, b, st)
        /\ Apart(g) /\ SocketsRouted(g, d)
    BY <1>2 DEF Order
  <2>2. Grows(g, k, u, v) /\ (Open(e, g.id[k]) => Leaves(g, k, r, w))
    BY <1>2
  <2>3. st[k].sent \in Nat
    BY DEF StreamTypes
  <2>4. Birth(g, k, v, e, st)
    BY <1>2, <2>1, <2>2, BirthKept
  <2>5. Down(g, k, p, v, e, st)
    BY <1>2, <2>1, <2>2, DownKept
  <2>6. Up(g, k, p, e, w, b, st)
    BY <1>2, <2>1, <2>2, <2>3, UpKept
  <2>7. QED
    BY <2>4, <2>5, <2>6
<1>3. QED
  BY <1>1, <1>2 DEF Order

-----------------------------------------------------------------------------
(* The handlers of the driver. *)

\* what the thread has not taken of the ring
Rest(q) == SubSeq(q, received + 1, Len(q))
Drives(g, p, r, b, st, d) ==
  /\ Typed(d) /\ received \in Nat /\ received <= arrived
  /\ r \in Seq(PiPackets) /\ st \in [Sessions -> StreamTypes]
  /\ Order(g, p, Rest(d.a2r), r, b, st, d)

\* A packet that the driver appends to A2R is appended to what the thread has not taken.
LEMMA RestIs ==
  ASSUME NEW q \in Seq(AmigaPackets), received \in Nat, received <= Len(q)
  PROVE  /\ Rest(q) \in Seq(AmigaPackets)
         /\ \A m \in AmigaPackets : Rest(Append(q, m)) = Append(Rest(q), m)
<1>1. Len(q) \in Nat /\ received + 1 \in Int
  OBVIOUS
<1>2. Rest(q) \in Seq(AmigaPackets)
  BY <1>1 DEF Rest
<1>3. ASSUME NEW m \in AmigaPackets PROVE Rest(Append(q, m)) = Append(Rest(q), m)
  <2> DEFINE a == Append(q, m)
             v == Rest(a)
             w == Append(Rest(q), m)
             N == Len(q) - received
  <2>1. a \in Seq(AmigaPackets) /\ Len(a) = Len(q) + 1 /\ \A k \in 1..Len(q) : a[k] = q[k]
    OBVIOUS
  <2>2. a[Len(q) + 1] = m
    OBVIOUS
  <2>3. N \in Nat
    BY <1>1
  <2>4. Len(Rest(q)) = N /\ \A k \in 1..N : Rest(q)[k] = q[received + k]
    BY <1>1, <2>3 DEF Rest
  <2> HIDE DEF a
  <2>5. v \in Seq(AmigaPackets) /\ Len(v) = N + 1 /\ \A k \in 1..(N + 1) : v[k] = a[received + k]
    BY <1>1, <2>1, <2>3 DEF Rest
  <2>6. w \in Seq(AmigaPackets) /\ Len(w) = N + 1 /\ w[N + 1] = m /\ \A k \in 1..N : w[k] = Rest(q)[k]
    BY <1>2, <2>3, <2>4
  <2>7. \A k \in 1..(N + 1) : v[k] = w[k]
    <3>1. TAKE k \in 1..(N + 1)
    <3>2. CASE k = N + 1
      <4>1. received + k = Len(q) + 1
        BY <3>2, <1>1
      <4>2. QED
        BY <3>2, <4>1, <2>2, <2>5, <2>6 DEF a
    <3>3. CASE k # N + 1
      <4>1. k \in 1..N /\ received + k \in 1..Len(q)
        BY <3>3, <1>1, <2>3
      <4>2. QED
        BY <4>1, <2>1, <2>4, <2>5, <2>6
    <3>4. QED
      BY <3>2, <3>3
  <2> HIDE DEF v, w, N
  <2>8. v = w
    BY <2>3, <2>5, <2>6, <2>7
  <2>9. QED
    BY <2>8 DEF v, w, a
<1>4. QED
  BY <1>2, <1>3

\* A state of the driver that Drives describes.
LEMMA DrivesTypes ==
  ASSUME NEW g, NEW p, NEW r, NEW b, NEW st, NEW d, Drives(g, p, r, b, st, d)
  PROVE  /\ Typed(d) /\ d \in DriverStates /\ OneEach(d.socket) /\ d.a2r \in Seq(AmigaPackets)
         /\ received \in Nat /\ received <= Len(d.a2r) /\ Rest(d.a2r) \in Seq(AmigaPackets)
         /\ r \in Seq(PiPackets) /\ st \in [Sessions -> StreamTypes]
         /\ Order(g, p, Rest(d.a2r), r, b, st, d) /\ d.socket \in SocketMaps
         /\ \A i \in DOMAIN d.socket :
              /\ i \in Ids /\ d.socket[i] \in Sockets /\ d.socket[i].session \in Sessions
              /\ ReadyOf(d, d.socket[i]) /\ g.id[d.socket[i].session] = i
<1>1. Typed(d) /\ received \in Nat /\ received <= arrived /\ Order(g, p, Rest(d.a2r), r, b, st, d)
  BY DEF Drives
<1>2. /\ d \in DriverStates /\ OneEach(d.socket) /\ d.a2r \in Seq(AmigaPackets) /\ d.socket \in SocketMaps
      /\ arrived \in Nat /\ arrived <= Len(d.a2r)
  BY <1>1 DEF Typed, DriverStates
<1>3. received <= Len(d.a2r)
  BY <1>1, <1>2
<1>4. \A i \in DOMAIN d.socket : i \in Ids /\ d.socket[i] \in Sockets /\ d.socket[i].session \in Sessions
  BY <1>2, MapsOfSockets, SocketFields
<1>5. QED
  BY <1>1, <1>2, <1>3, <1>4, RestIs DEF Drives, Order, Ready, SocketsRouted

(***************************************************************************)
(* A step of the driver that reads, writes and receives nothing, and that  *)
(* sends at most a RESET.                                                  *)
(***************************************************************************)
Silent(d, e) == \/ e.a2r = d.a2r
                \/ \E m \in AmigaPackets : m.type = "RESET" /\ e.a2r = Append(d.a2r, m)
LEMMA DrivesQuietly ==
  ASSUME NEW g, NEW p, NEW r, NEW b, NEW st, NEW d, Drives(g, p, r, b, st, d),
         NEW e, Typed(e), Keeps(d, e, NoOne), Ready(e), Silent(d, e)
  PROVE  Drives(g, p, r, b, st, e)
<1> DEFINE was == Rest(d.a2r)
           is == Rest(e.a2r)
<1>1. /\ d \in DriverStates /\ was \in Seq(AmigaPackets) /\ Order(g, p, was, r, b, st, d)
      /\ r \in Seq(PiPackets) /\ st \in [Sessions -> StreamTypes]
      /\ d.a2r \in Seq(AmigaPackets) /\ received \in Nat /\ received <= Len(d.a2r)
  BY DrivesTypes
<1>2. NoOne \notin Sessions
  BY RequestKinds
<1>3. is = was \/ \E m \in AmigaPackets : m.type = "RESET" /\ is = Append(was, m)
  BY <1>1, RestIs DEF Silent
<1>4. PacketsRouted(g, was) /\ PacketsRouted(g, r)
  BY <1>1 DEF Order
<1> HIDE DEF was, is
<1>5. \A k \in Sessions : Grows(g, k, was, is)
  <2>1. \A m, k : m.type = "RESET" => ~IsItem(m, k) /\ m \notin EosPackets(g.id[k])
    BY DEF IsItem, EosPackets
  <2>2. QED
    BY <1>3, <2>1 DEF Grows, Foreign
<1>6. PacketsRouted(g, is)
  <2>1. CASE is = was
    BY <1>4, <2>1
  <2>2. CASE is # was
    <3>1. PICK m \in AmigaPackets : m.type = "RESET" /\ is = Append(was, m)
      BY <1>3, <2>2
    <3>2. Elems(is) = Elems(was) \union {m}
      BY <1>1, <3>1, AppendAdds
    <3>3. QED
      BY <1>4, <3>1, <3>2 DEF PacketsRouted
  <2>3. QED
    BY <2>1, <2>2
<1>7. \A k \in Sessions : Leaves(g, k, r, r)
  BY DEF Leaves
<1>8. Order(g, p, is, r, b, st, e)
  BY <1>1, <1>2, <1>4, <1>5, <1>6, <1>7, DriverOrder
<1>9. QED
  BY <1>1, <1>8 DEF Drives, is

\* What a step leaves alone of the driver.
LEMMA KeepsSame ==
  ASSUME NEW d, NEW n
  PROVE  Keeps(d, d, n)
  BY DEF Keeps, Same, Stays

\* A request is replied to (ReplyMsg, a314driver.c): nothing is read or written.
LEMMA ReplyKeeps ==
  ASSUME NEW d \in DriverStates, NEW q \in Requests, NEW x \in Replies, x # "idle", NEW n
  PROVE  LET e == Device!ReplyMsg(d, q, x) IN
         /\ Keeps(d, e, n) /\ e.a2r = d.a2r /\ e.socket = d.socket /\ e.send_queue = d.send_queue
         /\ e.eosWritten = d.eosWritten /\ e.eosRead = d.eosRead /\ e.written = d.written /\ e.read = d.read
         /\ e.io = [d.io EXCEPT ![q] = x] /\ e \in DriverStates
<1> DEFINE e == Device!ReplyMsg(d, q, x)
<1>1. d.io \in [Requests -> Replies]
  BY DEF DriverStates
<1>2. e = [d EXCEPT !.io = [d.io EXCEPT ![q] = x]]
  BY DEF Device!ReplyMsg, DriverStates
<1>3. [d.io EXCEPT ![q] = x] \in [Requests -> Replies]
  BY <1>1
<1> HIDE DEF e
<1>4. /\ e.a2r = d.a2r /\ e.socket = d.socket /\ e.send_queue = d.send_queue
      /\ e.eosWritten = d.eosWritten /\ e.eosRead = d.eosRead /\ e.written = d.written /\ e.read = d.read
      /\ e.io = [d.io EXCEPT ![q] = x] /\ e \in DriverStates
  BY <1>2, <1>3 DEF DriverStates
<1>5. \A k \in Sessions : e.io[k] = "idle" => d.io[k] = "idle"
  BY <1>1, <1>4, RequestKinds
<1>6. Keeps(d, e, n)
  BY <1>4, <1>5 DEF Keeps, Same, Stays
<1>7. QED
  BY <1>4, <1>6 DEF e
\* ReplyMsg (a314driver.c) replies to a request: no data comes or goes.
LEMMA ReplyOrder ==
  ASSUME NEW g, NEW p, NEW r, NEW b, NEW st, NEW d, Drives(g, p, r, b, st, d),
         NEW q \in Requests, NEW x \in Replies, x # "idle"
  PROVE  Drives(g, p, r, b, st, Device!ReplyMsg(d, q, x))
<1> DEFINE e == Device!ReplyMsg(d, q, x)
<1>1. d \in DriverStates /\ Typed(d) /\ Ready(d)
  BY DrivesTypes DEF Order
<1>2. Typed(e)
  BY <1>1, ReplyWrites
<1>3. /\ Keeps(d, e, NoOne) /\ e.a2r = d.a2r /\ e.socket = d.socket /\ e.eosWritten = d.eosWritten
  BY <1>1, ReplyKeeps
<1> HIDE DEF e
<1>4. Ready(e)
  BY <1>1, <1>3 DEF Ready, ReadyOf
<1>5. Silent(d, e)
  BY <1>3 DEF Silent
<1>6. Drives(g, p, r, b, st, e)
  BY <1>2, <1>3, <1>4, <1>5, DrivesQuietly
<1>7. QED
  BY <1>6 DEF e

(***************************************************************************)
(* A socket changes: it stays what it is for the others, and for its own   *)
(* session as long as what waits in it stays.                              *)
(***************************************************************************)
Turns(d, i, y, n) ==
  LET s == d.socket[i] IN
  /\ y.session = s.session /\ s.flags \subseteq y.flags /\ y.pending_connect \in {s.pending_connect, NoOne}
  /\ s.session # n /\ "CLOSED" \notin y.flags =>
       y.rq = s.rq /\ ("RCVD_EOS_FROM_RPI" \in y.flags => "RCVD_EOS_FROM_RPI" \in s.flags)
LEMMA SocketTurns ==
  ASSUME NEW d \in DriverStates, Ready(d), NEW i \in DOMAIN d.socket, NEW y, NEW n, Turns(d, i, y, n), ReadyOf(d, y),
         NEW e, e = [d EXCEPT !.socket = [d.socket EXCEPT ![i] = y]]
  PROVE  /\ Keeps(d, e, n) /\ Ready(e) /\ e.a2r = d.a2r /\ e.send_queue = d.send_queue
         /\ e.eosWritten = d.eosWritten /\ e.eosRead = d.eosRead /\ e.written = d.written /\ e.read = d.read
         /\ e.io = d.io /\ DOMAIN e.socket = DOMAIN d.socket /\ e.socket[i] = y
         /\ \A j \in DOMAIN d.socket : j # i => e.socket[j] = d.socket[j]
<1>1. /\ e.a2r = d.a2r /\ e.socket = [d.socket EXCEPT ![i] = y] /\ e.send_queue = d.send_queue
      /\ e.eosWritten = d.eosWritten /\ e.eosRead = d.eosRead /\ e.written = d.written /\ e.read = d.read
      /\ e.io = d.io
  BY DEF DriverStates
<1>2. d.socket = [j \in DOMAIN d.socket |-> d.socket[j]]
  BY MapsOfSockets DEF DriverStates
<1>3. /\ DOMAIN e.socket = DOMAIN d.socket /\ e.socket[i] = y
      /\ \A j \in DOMAIN d.socket : j # i => e.socket[j] = d.socket[j]
  BY <1>1, <1>2
<1>4. Ready(e)
  BY <1>1, <1>3 DEF Ready, ReadyOf
<1>5. ASSUME NEW j \in DOMAIN e.socket PROVE Stays(d, e, j, n)
  <2>1. CASE j = i
    BY <1>1, <1>3, <2>1 DEF Stays, Turns
  <2>2. CASE j # i
    BY <1>1, <1>3, <2>2 DEF Stays
  <2>3. QED
    BY <2>1, <2>2
<1>6. Keeps(d, e, n)
  BY <1>1, <1>3, <1>5 DEF Keeps, Same
<1>7. QED
  BY <1>1, <1>3, <1>4, <1>6
\* A socket that turns to y keeps the order.
LEMMA SocketOrder ==
  ASSUME NEW g, NEW p, NEW r, NEW b, NEW st, NEW d, Drives(g, p, r, b, st, d),
         NEW i \in DOMAIN d.socket, NEW y, Turns(d, i, y, NoOne), ReadyOf(d, y),
         NEW e, e = [d EXCEPT !.socket = [d.socket EXCEPT ![i] = y]], Typed(e)
  PROVE  Drives(g, p, r, b, st, e)
<1>1. d \in DriverStates /\ Ready(d)
  BY DrivesTypes DEF Order
<1>2. Keeps(d, e, NoOne) /\ Ready(e) /\ e.a2r = d.a2r
  BY <1>1, SocketTurns
<1>3. Silent(d, e)
  BY <1>2 DEF Silent
<1>4. QED
  BY <1>2, <1>3, DrivesQuietly

\* A field of a socket is written.
LEMMA FieldWrites ==
  ASSUME NEW d \in DriverStates, NEW i \in DOMAIN d.socket, NEW x
  PROVE  LET s == d.socket[i] IN
         /\ [d EXCEPT !.socket[i].flags = @ \union x] =
              [d EXCEPT !.socket = [d.socket EXCEPT ![i] = [s EXCEPT !.flags = s.flags \union x]]]
         /\ [d EXCEPT !.socket[i].rq = x] =
              [d EXCEPT !.socket = [d.socket EXCEPT ![i] = [s EXCEPT !.rq = x]]]
         /\ [d EXCEPT !.socket[i].pending_connect = x] =
              [d EXCEPT !.socket = [d.socket EXCEPT ![i] = [s EXCEPT !.pending_connect = x]]]
         /\ [d EXCEPT !.socket[i].pending_read = x] =
              [d EXCEPT !.socket = [d.socket EXCEPT ![i] = [s EXCEPT !.pending_read = x]]]
         /\ [d EXCEPT !.socket[i].pending_write = x] =
              [d EXCEPT !.socket = [d.socket EXCEPT ![i] = [s EXCEPT !.pending_write = x]]]
  BY DEF DriverStates
\* The other fields of the socket are as they were.
LEMMA FieldsStay ==
  ASSUME NEW s \in SocketType, NEW x
  PROVE  /\ LET y == [s EXCEPT !.flags = x] IN
              /\ y.flags = x /\ y.rq = s.rq /\ y.session = s.session /\ y.pending_connect = s.pending_connect
              /\ y.pending_read = s.pending_read /\ y.pending_write = s.pending_write
         /\ LET y == [s EXCEPT !.rq = x] IN
              /\ y.flags = s.flags /\ y.rq = x /\ y.session = s.session /\ y.pending_connect = s.pending_connect
              /\ y.pending_read = s.pending_read /\ y.pending_write = s.pending_write
         /\ LET y == [s EXCEPT !.pending_connect = x] IN
              /\ y.flags = s.flags /\ y.rq = s.rq /\ y.session = s.session /\ y.pending_connect = x
              /\ y.pending_read = s.pending_read /\ y.pending_write = s.pending_write
         /\ LET y == [s EXCEPT !.pending_read = x] IN
              /\ y.flags = s.flags /\ y.rq = s.rq /\ y.session = s.session
              /\ y.pending_connect = s.pending_connect
              /\ y.pending_read = x /\ y.pending_write = s.pending_write
         /\ LET y == [s EXCEPT !.pending_write = x] IN
              /\ y.flags = s.flags /\ y.rq = s.rq /\ y.session = s.session
              /\ y.pending_connect = s.pending_connect
              /\ y.pending_read = s.pending_read /\ y.pending_write = x
  BY DEF SocketType

\* The send queue changes, and no CONNECT waits in it that did not.
LEMMA QueueOrder ==
  ASSUME NEW g, NEW p, NEW r, NEW b, NEW st, NEW d, Drives(g, p, r, b, st, d),
         NEW i \in DOMAIN d.socket
  PROVE  /\ Drives(g, p, r, b, st, Device!remove_from_send_queue(d, i))
         /\ d.socket[i].pending_connect = NoOne =>
              Drives(g, p, r, b, st, Device!add_to_send_queue(d, i))
<1>1. /\ d \in DriverStates /\ Typed(d) /\ Ready(d) /\ d.send_queue \in Seq(Ids) /\ i \in Ids
  BY DrivesTypes DEF Order, DriverStates
<1>2. ASSUME NEW q, Elems(q) \subseteq Elems(d.send_queue) \union {i},
             i \in Elems(q) /\ i \notin Elems(d.send_queue) => d.socket[i].pending_connect = NoOne,
             NEW e, e = [d EXCEPT !.send_queue = q], Typed(e)
      PROVE  Drives(g, p, r, b, st, e)
  <2>1. /\ e.a2r = d.a2r /\ e.socket = d.socket /\ e.send_queue = q /\ e.io = d.io
        /\ e.eosWritten = d.eosWritten /\ e.eosRead = d.eosRead /\ e.written = d.written /\ e.read = d.read
    BY <1>1, <1>2 DEF DriverStates
  <2>2. Keeps(d, e, NoOne)
    <3>1. ASSUME NEW j \in DOMAIN e.socket PROVE Stays(d, e, j, NoOne)
      BY <1>2, <2>1 DEF Stays
    <3>2. QED
      BY <2>1, <3>1 DEF Keeps, Same
  <2>3. Ready(e)
    BY <1>1, <2>1 DEF Ready, ReadyOf
  <2>4. QED
    BY <1>2, <2>1, <2>2, <2>3, DrivesQuietly DEF Silent
<1>3. /\ Device!add_to_send_queue(d, i) = [d EXCEPT !.send_queue = Append(d.send_queue, i)]
      /\ Device!remove_from_send_queue(d, i) = [d EXCEPT !.send_queue = Without(d.send_queue, i)]
  BY <1>1, SameHelpers DEF Device!add_to_send_queue, Device!remove_from_send_queue, DriverStates
<1>4. /\ Elems(Append(d.send_queue, i)) = Elems(d.send_queue) \union {i}
      /\ Elems(Without(d.send_queue, i)) = Elems(d.send_queue) \ {i}
  BY <1>1, AppendAdds, WithoutLeaves
<1>5. Typed(Device!add_to_send_queue(d, i)) /\ Typed(Device!remove_from_send_queue(d, i))
  BY <1>1, QueueWrites
<1>6. Drives(g, p, r, b, st, Device!remove_from_send_queue(d, i))
  BY <1>2, <1>3, <1>4, <1>5
<1>7. ASSUME d.socket[i].pending_connect = NoOne
      PROVE  Drives(g, p, r, b, st, Device!add_to_send_queue(d, i))
  BY <1>2, <1>3, <1>4, <1>5, <1>7
<1>8. QED
  BY <1>6, <1>7

\* A socket goes, when the send queue does not have it (delete_socket, sockets.c).
LEMMA DeleteOrder ==
  ASSUME NEW g, NEW p, NEW r, NEW b, NEW st, NEW d, Drives(g, p, r, b, st, d),
         NEW i \in DOMAIN d.socket, i \notin Elems(d.send_queue)
  PROVE  Drives(g, p, r, b, st, Device!delete_socket(d, i))
<1> DEFINE e == Device!delete_socket(d, i)
<1>1. /\ d \in DriverStates /\ Typed(d) /\ Ready(d) /\ d.socket \in SocketMaps /\ OneEach(d.socket)
  BY DrivesTypes DEF Order
<1>2. Typed(e)
  BY <1>1, DeleteWrites
<1>3. e = [d EXCEPT !.socket = Device!Drop(d.socket, i)]
  BY <1>1 DEF Device!delete_socket, DriverStates
<1>4. /\ DOMAIN Device!Drop(d.socket, i) \subseteq DOMAIN d.socket
      /\ \A j \in DOMAIN Device!Drop(d.socket, i) : Device!Drop(d.socket, i)[j] = d.socket[j]
  BY DEF Device!Drop
<1> HIDE DEF e
<1>5. /\ e.a2r = d.a2r /\ e.socket = Device!Drop(d.socket, i) /\ e.send_queue = d.send_queue /\ e.io = d.io
      /\ e.eosWritten = d.eosWritten /\ e.eosRead = d.eosRead /\ e.written = d.written /\ e.read = d.read
  BY <1>1, <1>3 DEF DriverStates
<1>6. Keeps(d, e, NoOne) /\ Ready(e)
  <2>1. ASSUME NEW j \in DOMAIN e.socket PROVE Stays(d, e, j, NoOne)
    BY <1>4, <1>5 DEF Stays
  <2>2. Keeps(d, e, NoOne)
    BY <1>4, <1>5, <2>1 DEF Keeps, Same
  <2>3. Ready(e)
    BY <1>1, <1>4, <1>5 DEF Ready, ReadyOf
  <2>4. QED
    BY <2>2, <2>3
<1>7. Drives(g, p, r, b, st, e)
  BY <1>2, <1>5, <1>6, DrivesQuietly DEF Silent
<1>8. QED
  BY <1>7 DEF e

\* A RESET is sent.
LEMMA ResetOrder ==
  ASSUME NEW g, NEW p, NEW r, NEW b, NEW st, NEW d, Drives(g, p, r, b, st, d),
         Device!room_in_a2r(d), NEW i \in Ids
  PROVE  LET e == Device!append_a2r_packet(d, "RESET", i, Device!Nothing) IN
         Drives(g, p, r, b, st, e) /\ e.socket = d.socket /\ e.send_queue = d.send_queue
<1> DEFINE e == Device!append_a2r_packet(d, "RESET", i, Device!Nothing)
           m == Device!Pkt("RESET", i, Device!Nothing)
<1>1. d \in DriverStates /\ Typed(d) /\ Ready(d)
  BY DrivesTypes DEF Order
<1>2. Typed(e)
  BY <1>1, PacketWrites, ItemTypes
<1>3. e = [d EXCEPT !.a2r = Append(d.a2r, m)]
  BY <1>1 DEF Device!append_a2r_packet, DriverStates
<1>4. m \in AmigaPackets /\ m.type = "RESET"
  BY ItemTypes DEF AmigaPackets, Device!Pkt
<1> HIDE DEF e, m
<1>5. /\ e.a2r = Append(d.a2r, m) /\ e.socket = d.socket /\ e.send_queue = d.send_queue /\ e.io = d.io
      /\ e.eosWritten = d.eosWritten /\ e.eosRead = d.eosRead /\ e.written = d.written /\ e.read = d.read
  BY <1>1, <1>3 DEF DriverStates
<1>6. Keeps(d, e, NoOne) /\ Ready(e)
  BY <1>1, <1>5 DEF Keeps, Same, Stays, Ready, ReadyOf
<1>7. Drives(g, p, r, b, st, e)
  BY <1>2, <1>4, <1>5, <1>6, DrivesQuietly DEF Silent
<1>8. QED
  BY <1>5, <1>7 DEF e

(***************************************************************************)
(* close_socket (a314driver.c): what waits in the socket is thrown away,   *)
(* and no session reads or writes anything.                                *)
(***************************************************************************)
LEMMA CloseOrder ==
  ASSUME NEW g, NEW p, NEW r, NEW b, NEW st, NEW d, Drives(g, p, r, b, st, d),
         NEW i \in DOMAIN d.socket, NEW z \in BOOLEAN
  PROVE  Drives(g, p, r, b, st, Device!close_socket(d, i, z))
<1> DEFINE s == d.socket[i]
           held == Device!Pending(s)
           io1 == [q \in Requests |-> IF q \in held THEN "RESET" ELSE d.io[q]]
           o == [d EXCEPT !.io = [q \in Device!Requests |-> IF q \in held THEN "RESET" ELSE @[q]]]
           e == Device!remove_from_send_queue(o, i)
           closed == [s EXCEPT !.pending_connect = NoOne, !.pending_read = NoOne,
                               !.pending_write = NoOne, !.rq = <<>>,
                               !.flags = @ \union {"CLOSED", "SHOULD_SEND_RESET"}]
           a == Device!append_a2r_packet(e, "RESET", i, Device!Nothing)
           f == [e EXCEPT !.socket[i] = closed]
           c == Device!close_socket(d, i, z)
<1>1. /\ d \in DriverStates /\ Typed(d) /\ Ready(d) /\ s \in Sockets /\ i \in Ids
      /\ d.io \in [Requests -> Replies]
  BY DrivesTypes DEF Order, DriverStates
<1>2. /\ ~z => c = Device!delete_socket(e, i)
      /\ z /\ Device!CanSend(e) => c = Device!delete_socket(a, i)
      /\ z /\ ~Device!CanSend(e) => c = Device!add_to_send_queue(f, i)
  <2>1. CASE ~z
    BY <2>1 DEF Device!close_socket
  <2>2. CASE z /\ Device!CanSend(e)
    BY <2>2 DEF Device!close_socket
  <2>3. CASE z /\ ~Device!CanSend(e)
    BY <2>3 DEF Device!close_socket
  <2>4. QED
    BY <2>1, <2>2, <2>3
<1> HIDE DEF c
<1>3. Drives(g, p, r, b, st, o) /\ o.socket = d.socket
  <2>1. o = [d EXCEPT !.io = io1]
    BY <1>1, SameRequests DEF DriverStates
  <2>2. io1 \in [Requests -> Replies] /\ \A q \in Requests : io1[q] = "idle" => d.io[q] = "idle"
    BY <1>1 DEF Replies
  <2> HIDE DEF o, io1, held
  <2>3. /\ o \in DriverStates /\ o.socket = d.socket /\ o.io = io1 /\ o.a2r = d.a2r /\ o.send_queue = d.send_queue
        /\ o.eosWritten = d.eosWritten /\ o.eosRead = d.eosRead /\ o.written = d.written /\ o.read = d.read
    BY <1>1, <2>1, <2>2 DEF DriverStates
  <2>4. Typed(o)
    BY <1>1, <2>3 DEF Typed
  <2>5. Keeps(d, o, NoOne) /\ Ready(o)
    BY <1>1, <2>2, <2>3, RequestKinds DEF Keeps, Same, Stays, Ready, ReadyOf
  <2>6. QED
    BY <2>3, <2>4, <2>5, DrivesQuietly DEF Silent
<1> HIDE DEF o
<1>4. Drives(g, p, r, b, st, e) /\ e.socket = d.socket /\ i \notin Elems(e.send_queue)
  BY <1>3, QueueOrder, QueueWrites, DrivesTypes
<1> HIDE DEF e
<1>5. CASE ~z
  BY <1>2, <1>4, <1>5, DeleteOrder DEF c
<1>6. CASE z /\ Device!CanSend(e)
  <2>1. Drives(g, p, r, b, st, a) /\ a.socket = d.socket /\ a.send_queue = e.send_queue
    BY <1>1, <1>4, <1>6, ResetOrder DEF Device!CanSend
  <2> HIDE DEF a
  <2>2. QED
    BY <1>2, <1>4, <1>6, <2>1, DeleteOrder DEF c
<1>7. CASE z /\ ~Device!CanSend(e)
  <2>1. /\ e \in DriverStates /\ Typed(e) /\ i \in DOMAIN e.socket /\ e.socket[i] = s
    BY <1>4, DrivesTypes
  <2>2. f = [e EXCEPT !.socket = [e.socket EXCEPT ![i] = closed]]
    BY <2>1 DEF DriverStates
  <2>3. s \in SocketType
    BY <1>1, SocketFields
  <2>4. /\ closed \in SocketType /\ closed.key = s.key /\ closed.session = s.session
        /\ closed.pending_connect = NoOne /\ closed.pending_read = NoOne /\ closed.pending_write = NoOne
        /\ closed.rq = <<>> /\ s.flags \subseteq closed.flags /\ "CLOSED" \in closed.flags
    <3>1. <<>> \in Seq(Items)
      OBVIOUS
    <3>2. {"CLOSED", "SHOULD_SEND_RESET"} \subseteq Flags
      BY DEF Flags
    <3> HIDE DEF s
    <3>3. QED
      BY <2>3, <3>1, <3>2 DEF SocketType
  <2> HIDE DEF closed, f
  <2>5. closed \in Sockets
    BY <2>4 DEF Sockets, Quiet, PendS
  <2>6. Typed(f)
    BY <2>1, <2>2, <2>4, <2>5, SocketWrites
  <2>7. Turns(e, i, closed, NoOne)
    BY <2>1, <2>4 DEF Turns
  <2>8. ReadyOf(e, closed)
    <3>1. ReadyOf(e, s)
      BY <1>4, <2>1, DrivesTypes
    <3>2. QED
      BY <2>4, <3>1 DEF ReadyOf
  <2>9. Drives(g, p, r, b, st, f)
    BY <1>4, <2>1, <2>2, <2>6, <2>7, <2>8, SocketOrder
  <2>10. i \in DOMAIN f.socket /\ f.socket[i].pending_connect = NoOne
    <3>1. Ready(e)
      BY <1>4, DrivesTypes DEF Order
    <3>2. DOMAIN f.socket = DOMAIN e.socket /\ f.socket[i] = closed
      BY <2>1, <2>2, <2>7, <2>8, <3>1, SocketTurns
    <3>3. QED
      BY <2>1, <2>4, <3>2
  <2>11. QED
    BY <1>2, <1>7, <2>9, <2>10, QueueOrder DEF c
<1>8. QED
  BY <1>5, <1>6, <1>7 DEF c

\* A field of a socket is written, as the handlers do it.
Flagged(d, i, flag) == [d EXCEPT !.socket[i].flags = @ \union {flag}]
Reading(d, i, q) == [d EXCEPT !.socket[i].pending_read = q]
Writing(d, i, q) == [d EXCEPT !.socket[i].pending_write = q]
Connecting(d, i, q) == [d EXCEPT !.socket[i].pending_connect = q]

\* A flag is set, but not the one of an EOS that comes.
LEMMA FlagIs ==
  ASSUME NEW d \in DriverStates, NEW i \in DOMAIN d.socket, NEW flag
  PROVE  LET e == Flagged(d, i, flag) IN
         /\ DOMAIN e.socket = DOMAIN d.socket /\ e.a2r = d.a2r /\ e.send_queue = d.send_queue
         /\ e.eosWritten = d.eosWritten
         /\ e.socket[i] = [d.socket[i] EXCEPT !.flags = d.socket[i].flags \union {flag}]
<1>1. d.socket = [j \in DOMAIN d.socket |-> d.socket[j]]
  BY MapsOfSockets DEF DriverStates
<1>2. QED
  BY <1>1 DEF Flagged, DriverStates
\* The flags that an end of the stream sets keep it too.
LEMMA FlagOrder ==
  ASSUME NEW g, NEW p, NEW r, NEW b, NEW st, NEW d, Drives(g, p, r, b, st, d), NEW i \in DOMAIN d.socket,
         NEW flag \in {"RCVD_EOS_FROM_APP", "SENT_EOS_TO_APP", "SENT_EOS_TO_RPI"}
  PROVE  Drives(g, p, r, b, st, Flagged(d, i, flag))
<1> DEFINE s == d.socket[i]
           y == [s EXCEPT !.flags = s.flags \union {flag}]
           e == Flagged(d, i, flag)
<1>1. d \in DriverStates /\ Typed(d) /\ Ready(d) /\ s \in Sockets /\ s \in SocketType /\ ReadyOf(d, s)
  BY DrivesTypes, SocketFields DEF Order
<1>2. e = [d EXCEPT !.socket = [d.socket EXCEPT ![i] = y]]
  BY <1>1, FieldWrites DEF Flagged
<1>3. Typed(e)
  BY <1>1, FlagIsSet DEF Alike, Flags, Flagged
<1>4. /\ y.flags = s.flags \union {flag} /\ y.rq = s.rq /\ y.session = s.session
      /\ y.pending_connect = s.pending_connect /\ y.pending_read = s.pending_read
      /\ y.pending_write = s.pending_write
  BY <1>1, FieldsStay
<1> HIDE DEF y, s, e
<1>5. Turns(d, i, y, NoOne) /\ ReadyOf(d, y)
  BY <1>1, <1>4 DEF Turns, ReadyOf, s
<1>6. Drives(g, p, r, b, st, e)
  BY <1>2, <1>3, <1>5, SocketOrder
<1>7. QED
  BY <1>6 DEF e

\* The end of a stream is noted, and the socket goes when both are (set_eos_flag).
LEMMA SetEosFlagOrder ==
  ASSUME NEW g, NEW p, NEW r, NEW b, NEW st, NEW d, Drives(g, p, r, b, st, d), NEW i \in DOMAIN d.socket,
         NEW flag \in {"SENT_EOS_TO_APP", "SENT_EOS_TO_RPI"}
  PROVE  Drives(g, p, r, b, st, Device!SetEosFlag(d, i, flag))
<1>1. flag \in {"RCVD_EOS_FROM_APP", "SENT_EOS_TO_APP", "SENT_EOS_TO_RPI"}
  OBVIOUS
<1>2. Drives(g, p, r, b, st, Flagged(d, i, flag))
  BY <1>1, FlagOrder
<1>6. d \in DriverStates
  BY DrivesTypes
<1>5. DOMAIN Flagged(d, i, flag).socket = DOMAIN d.socket
  BY <1>6, FlagIs
<1>3. Device!SetEosFlag(d, i, flag) \in {Flagged(d, i, flag), Device!close_socket(Flagged(d, i, flag), i, FALSE)}
  BY DEF Device!SetEosFlag, Flagged
<1>4. QED
  BY <1>2, <1>3, <1>5, CloseOrder

\* The requests that a socket holds change: a read waits only when nothing else does,
\* and a write only of an application that has not sent EOS.
LEMMA PendingOrder ==
  ASSUME NEW g, NEW p, NEW r, NEW b, NEW st, NEW d, Drives(g, p, r, b, st, d), NEW i \in DOMAIN d.socket,
         NEW q, q # NoOne => q.key = d.socket[i].key /\ ~Device!Closed(d.socket[i])
  PROVE  /\ q \in Reads \union {NoOne} /\ (q # NoOne => d.socket[i].rq = <<>>) =>
              Drives(g, p, r, b, st, Reading(d, i, q))
         /\ q \in Writes \union {NoOne}
            /\ (q # NoOne => /\ d.socket[i].session \notin d.eosWritten
                             /\ q.op = "EOS" => "RCVD_EOS_FROM_APP" \in d.socket[i].flags) =>
              Drives(g, p, r, b, st, Writing(d, i, q))
         /\ q = NoOne => Drives(g, p, r, b, st, Connecting(d, i, q))
<1> DEFINE s == d.socket[i]
<1>1. d \in DriverStates /\ Typed(d) /\ Ready(d) /\ s \in Sockets /\ s \in SocketType /\ ReadyOf(d, s)
  BY DrivesTypes, SocketFields DEF Order
<1>2. ASSUME q \in Reads \union {NoOne}, q # NoOne => d.socket[i].rq = <<>>
      PROVE  Drives(g, p, r, b, st, Reading(d, i, q))
  <2> DEFINE y == [s EXCEPT !.pending_read = q]
             e == Reading(d, i, q)
  <2>1. e = [d EXCEPT !.socket = [d.socket EXCEPT ![i] = y]]
    BY <1>1, FieldWrites DEF Reading
  <2>2. Typed(e)
    BY <1>1, <1>2, ReadChanges DEF Reading
  <2>3. /\ y.flags = s.flags /\ y.rq = s.rq /\ y.session = s.session
        /\ y.pending_connect = s.pending_connect /\ y.pending_read = q /\ y.pending_write = s.pending_write
    BY <1>1, FieldsStay
  <2> HIDE DEF y, s, e
  <2>4. Turns(d, i, y, NoOne) /\ ReadyOf(d, y)
    BY <1>1, <1>2, <2>3 DEF Turns, ReadyOf, s
  <2>5. Drives(g, p, r, b, st, e)
    BY <2>1, <2>2, <2>4, SocketOrder
  <2>6. QED
    BY <2>5 DEF e
<1>3. ASSUME q \in Writes \union {NoOne},
             q # NoOne => /\ s.session \notin d.eosWritten
                          /\ q.op = "EOS" => "RCVD_EOS_FROM_APP" \in s.flags
      PROVE  Drives(g, p, r, b, st, Writing(d, i, q))
  <2> DEFINE y == [s EXCEPT !.pending_write = q]
             e == Writing(d, i, q)
  <2>1. e = [d EXCEPT !.socket = [d.socket EXCEPT ![i] = y]]
    BY <1>1, FieldWrites DEF Writing
  <2>2. Typed(e)
    BY <1>1, <1>3, WriteChanges DEF Writing
  <2>3. /\ y.flags = s.flags /\ y.rq = s.rq /\ y.session = s.session
        /\ y.pending_connect = s.pending_connect /\ y.pending_read = s.pending_read /\ y.pending_write = q
    BY <1>1, FieldsStay
  <2> HIDE DEF y, s, e
  <2>4. Turns(d, i, y, NoOne) /\ ReadyOf(d, y)
    BY <1>1, <1>3, <2>3 DEF Turns, ReadyOf, s
  <2>5. Drives(g, p, r, b, st, e)
    BY <2>1, <2>2, <2>4, SocketOrder
  <2>6. QED
    BY <2>5 DEF e
<1>4. ASSUME q = NoOne
      PROVE  Drives(g, p, r, b, st, Connecting(d, i, q))
  <2> DEFINE y == [s EXCEPT !.pending_connect = q]
             e == Connecting(d, i, q)
  <2>1. e = [d EXCEPT !.socket = [d.socket EXCEPT ![i] = y]]
    BY <1>1, FieldWrites DEF Connecting
  <2>2. Typed(e)
    BY <1>1, <1>4, ConnectChanges DEF Connecting
  <2>3. /\ y.flags = s.flags /\ y.rq = s.rq /\ y.session = s.session
        /\ y.pending_connect = q /\ y.pending_read = s.pending_read /\ y.pending_write = s.pending_write
    BY <1>1, FieldsStay
  <2> HIDE DEF y, s, e
  <2>4. Turns(d, i, y, NoOne) /\ ReadyOf(d, y)
    BY <1>1, <1>4, <2>3 DEF Turns, ReadyOf, s
  <2>5. Drives(g, p, r, b, st, e)
    BY <2>1, <2>2, <2>4, SocketOrder
  <2>6. QED
    BY <2>5 DEF e
<1>5. QED
  BY <1>2, <1>3, <1>4

-----------------------------------------------------------------------------
(* What the driver sends. *)

\* A session whose socket is connected is born, and waits no more.
LEMMA Connected ==
  ASSUME NEW g, NEW p, NEW r, NEW b, NEW st, NEW d, Drives(g, p, r, b, st, d),
         NEW i \in DOMAIN d.socket
  PROVE  LET n == d.socket[i].session IN
         /\ d.io[n] # "idle"
         /\ d.socket[i].pending_connect = NoOne => ~Waits(d, n)
         /\ \A j \in DOMAIN d.socket : d.socket[j].session = n => j = i
<1> DEFINE n == d.socket[i].session
<1>1. i \in Ids /\ n \in Sessions /\ g.id[n] = i
  BY DrivesTypes
<1>2. Birth(g, n, Rest(d.a2r), d, st)
  BY <1>1, DrivesTypes DEF Order
<1>3. d.io[n] # "idle"
  BY <1>1, <1>2, IdAssumption DEF Birth, Ids
<1>4. \A j \in DOMAIN d.socket : d.socket[j].session = n => j = i
  BY <1>1, DrivesTypes
<1>5. d.socket[i].pending_connect = NoOne => ~Waits(d, n)
  BY <1>4 DEF Waits
<1>6. QED
  BY <1>3, <1>4, <1>5

(***************************************************************************)
(* A step of the driver for one session: what the others are told stays.   *)
(***************************************************************************)
LEMMA DrivesFor ==
  ASSUME NEW g, NEW p, NEW r, NEW b, NEW st, NEW d, Drives(g, p, r, b, st, d),
         NEW e, Typed(e), NEW n \in Sessions, Keeps(d, e, n), Ready(e), NEW w \in Seq(PiPackets),
         PacketsRouted(g, Rest(e.a2r)), PacketsRouted(g, w),
         \A k \in Sessions \ {n} : /\ Grows(g, k, Rest(d.a2r), Rest(e.a2r))
                                   /\ Open(e, g.id[k]) => Leaves(g, k, r, w),
         Birth(g, n, Rest(e.a2r), e, st), Down(g, n, p, Rest(e.a2r), e, st), Up(g, n, p, e, w, b, st)
  PROVE  Drives(g, p, w, b, st, e)
<1>1. /\ d \in DriverStates /\ Rest(d.a2r) \in Seq(AmigaPackets) /\ Order(g, p, Rest(d.a2r), r, b, st, d)
      /\ r \in Seq(PiPackets) /\ st \in [Sessions -> StreamTypes]
  BY DrivesTypes
<1> HIDE DEF Rest
<1>2. Order(g, p, Rest(e.a2r), w, b, st, e)
  BY <1>1, DriverOrder
<1>3. QED
  BY <1>1, <1>2 DEF Drives

\* A packet of a session is appended to A2R: it is foreign to the others.
Adds(g, n, m, then, now) ==
  /\ PacketsRouted(g, now) /\ now = Append(then, m)
  /\ \A k \in Sessions \ {n} : Grows(g, k, then, now)
LEMMA PacketGrows ==
  ASSUME NEW g, Apart(g), NEW q \in Seq(AmigaPackets), received \in Nat, received <= Len(q),
         PacketsRouted(g, Rest(q)), NEW n \in Sessions, NEW m \in AmigaPackets, m.id = g.id[n],
         m.type \in {"CONNECT", "DATA"} => m.data.session = n,
         m.type = "CONNECT" => m.data.number = 0, m.type = "DATA" => m.data.number # 0
  PROVE  Adds(g, n, m, Rest(q), Rest(Append(q, m)))
<1> DEFINE then == Rest(q)
           now == Rest(Append(q, m))
<1>1. then \in Seq(AmigaPackets) /\ now = Append(then, m)
  BY RestIs
<1>2. PacketsRouted(g, then)
  OBVIOUS
<1> HIDE DEF then, now
<1>3. Elems(now) = Elems(then) \union {m}
  BY <1>1, AppendAdds
<1>4. PacketsRouted(g, now)
  BY <1>2, <1>3 DEF PacketsRouted
<1>5. ASSUME NEW k \in Sessions, k # n PROVE Foreign(g, k, m)
  <2>1. ~IsItem(m, k)
    BY <1>5 DEF IsItem
  <2>2. g.id[n] # 0
    BY IdAssumption DEF AmigaPackets, Ids
  <2>3. g.id[k] # g.id[n]
    BY <1>5, <2>2 DEF Apart
  <2>4. QED
    BY <2>1, <2>3 DEF Foreign, EosPackets
<1>6. \A k \in Sessions \ {n} : Grows(g, k, then, now)
  BY <1>1, <1>5 DEF Grows
<1>7. QED
  BY <1>1, <1>4, <1>6 DEF Adds, then, now

\* What is under way from the client is as it was.
LEMMA UpSame ==
  ASSUME NEW g, NEW n, NEW p, NEW d, NEW e, e.socket = d.socket, e.read = d.read,
         n \in e.eosRead <=> n \in d.eosRead, NEW r, NEW b, NEW st, Up(g, n, p, d, r, b, st)
  PROVE  Up(g, n, p, e, r, b, st)
<1>1. Open(e, g.id[n]) <=> Open(d, g.id[n])
  BY DEF Open
<1>2. \A i : Got(e, n, i) = Got(d, n, i)
  BY DEF Got
<1>3. \A z1, z2, z3 : UpTo(g, n, p, d, r, b, st[n], z1, z2, z3) => UpTo(g, n, p, e, r, b, st[n], z1, z2, z3)
  BY <1>2 DEF UpTo
<1>4. UpOpen(g, n, p, d, r, b, st[n]) => UpOpen(g, n, p, e, r, b, st[n])
  BY <1>2, <1>3 DEF UpOpen
<1>5. QED
  BY <1>1, <1>4 DEF Up

\* The fields of the driver that SendData writes (a314driver.c, handle_app_write).
LEMMA DataSentIs ==
  ASSUME NEW d \in DriverStates, NEW q \in Requests, NEW i \in DOMAIN d.socket
  PROVE  LET e == Device!SendData(d, q, i)
             n == d.socket[i].session IN
         /\ e.socket = d.socket /\ e.send_queue = d.send_queue /\ e.read = d.read /\ e.eosRead = d.eosRead
         /\ e.eosWritten = d.eosWritten /\ e.io = [d.io EXCEPT ![q] = "OK"]
         /\ e.written = [d.written EXCEPT ![n] = @ + 1]
         /\ e.a2r = Append(d.a2r, Device!Pkt("DATA", i, Device!Item(n, d.written[n] + 1)))
  BY DEF Device!SendData, Device!ReplyMsg, Device!append_a2r_packet, DriverStates
\* The fields that SendEos writes before set_eos_flag.
EosOnly(d, q, i) ==
  [Device!ReplyMsg(Device!append_a2r_packet(d, "EOS", i, Device!Nothing), q, "OK")
     EXCEPT !.eosWritten = @ \union {d.socket[i].session}]
LEMMA EosSentIs ==
  ASSUME NEW d \in DriverStates, NEW q \in Requests, NEW i \in DOMAIN d.socket
  PROVE  /\ Device!SendEos(d, q, i) = Device!SetEosFlag(EosOnly(d, q, i), i, "SENT_EOS_TO_RPI")
         /\ LET e == EosOnly(d, q, i)
                n == d.socket[i].session IN
            /\ e.socket = d.socket /\ e.send_queue = d.send_queue /\ e.read = d.read /\ e.eosRead = d.eosRead
            /\ e.eosWritten = d.eosWritten \union {n} /\ e.io = [d.io EXCEPT ![q] = "OK"]
            /\ e.written = d.written
            /\ e.a2r = Append(d.a2r, Device!Pkt("EOS", i, Device!Nothing))
<1>1. Device!SendEos(d, q, i) = Device!SetEosFlag(EosOnly(d, q, i), i, "SENT_EOS_TO_RPI")
  BY DEF Device!SendEos, EosOnly
<1>2. QED
  BY <1>1 DEF EosOnly, Device!ReplyMsg, Device!append_a2r_packet, DriverStates

(***************************************************************************)
(* A write of an open socket is sent (SendData): the packet is the next of *)
(* its session, after all that is under way.                               *)
(***************************************************************************)
LEMMA SendDataOrder ==
  ASSUME NEW g, NEW p, NEW r, NEW b, NEW st, NEW d, Drives(g, p, r, b, st, d),
         NEW q \in Requests, NEW i \in DOMAIN d.socket, Device!room_in_a2r(d),
         d.socket[i].pending_connect = NoOne, d.socket[i].session \notin d.eosWritten
  PROVE  Drives(g, p, r, b, st, Device!SendData(d, q, i))
<1> DEFINE e == Device!SendData(d, q, i)
           n == d.socket[i].session
           N == d.written[n]
           m == Device!Pkt("DATA", i, Device!Item(n, N + 1))
           then == Rest(d.a2r)
           now == Rest(e.a2r)
           E == EosPackets(g.id[n])
<1>1. /\ d \in DriverStates /\ Typed(d) /\ Ready(d) /\ n \in Sessions /\ g.id[n] = i /\ i \in Ids
      /\ Apart(g) /\ d.a2r \in Seq(AmigaPackets) /\ received \in Nat /\ received <= Len(d.a2r)
      /\ then \in Seq(AmigaPackets) /\ PacketsRouted(g, then) /\ r \in Seq(PiPackets) /\ PacketsRouted(g, r) /\ st[n] \in StreamTypes
      /\ N \in Nat /\ d.written \in [Sessions -> Nat] /\ d.io \in [Requests -> Replies]
  BY DrivesTypes DEF Order, DriverStates
<1>2. Birth(g, n, then, d, st) /\ Down(g, n, p, then, d, st) /\ Up(g, n, p, d, r, b, st)
  BY <1>1, DrivesTypes DEF Order
<1>3. Typed(e)
  BY <1>1, DataSent
<1>4. /\ e.socket = d.socket /\ e.send_queue = d.send_queue /\ e.read = d.read /\ e.eosRead = d.eosRead
      /\ e.eosWritten = d.eosWritten /\ e.io = [d.io EXCEPT ![q] = "OK"]
      /\ e.written = [d.written EXCEPT ![n] = @ + 1] /\ e.a2r = Append(d.a2r, m)
  BY <1>1, DataSentIs
<1>5. /\ m \in AmigaPackets /\ m.id = g.id[n] /\ m.type = "DATA" /\ m.data.session = n
      /\ m.data.number = N + 1 /\ N + 1 # 0
  <2> DEFINE x == Device!Item(n, N + 1)
  <2>1. N + 1 \in Nat /\ N + 1 # 0
    BY <1>1
  <2> HIDE DEF N
  <2>2. x \in Items /\ x.session = n /\ x.number = N + 1
    BY <1>1, <2>1, ItemTypes DEF Device!Item
  <2> HIDE DEF x, n
  <2>3. Device!Pkt("DATA", i, x) \in AmigaPackets
    BY <1>1, <2>2 DEF AmigaPackets, Device!Pkt
  <2>4. QED
    BY <1>1, <2>2, <2>3 DEF Device!Pkt, x, n
<1>6. d.io[n] # "idle" /\ ~Waits(d, n)
  BY Connected
<1> HIDE DEF m, e, then, now, E, N
<1>7. /\ e.written[n] = N + 1 /\ \A k \in Sessions \ {n} : e.written[k] = d.written[k]
      /\ \A k \in Sessions : e.io[k] = "idle" => d.io[k] = "idle"
  BY <1>1, <1>4, RequestKinds DEF N
<1>8. PacketsRouted(g, now) /\ now = Append(then, m) /\ \A k \in Sessions \ {n} : Grows(g, k, then, now)
  <2>1. Adds(g, n, m, Rest(d.a2r), Rest(Append(d.a2r, m)))
    BY <1>1, <1>4, <1>5, PacketGrows DEF then
  <2>2. QED
    BY <1>4, <1>5, <2>1 DEF Adds, then, now
<1>9. Keeps(d, e, n) /\ Ready(e)
  BY <1>1, <1>4, <1>7 DEF Keeps, Same, Stays, Ready, ReadyOf
<1>10. IsItem(m, n) /\ ~Carries(then, E) /\ Elems(now) = Elems(then) \union {m} /\ m \notin E
  <2>1. ~Carries(then, E)
    BY <1>2 DEF Down, E
  <2>2. IsItem(m, n) /\ m \notin E
    BY <1>5 DEF IsItem, E, EosPackets
  <2>3. QED
    BY <1>1, <1>5, <1>8, <2>1, <2>2, AppendAdds
<1>11. \A lo \in Int : lo <= N /\ Run(then, n, E, lo, N) => Run(now, n, E, lo, N + 1)
  BY <1>1, <1>5, <1>8, <1>10, RunAppendItem, AllCarry DEF Carries
<1>12. Birth(g, n, now, e, st)
  <2>1. ~Waits(e, n) /\ e.io[n] # "idle"
    BY <1>1, <1>4, <1>6, <1>7 DEF Waits
  <2>2. ASSUME Calls(now, n) PROVE Unborn(g, n, st) /\ Run(now, n, E, -1, e.written[n])
    <3>1. Calls(then, n)
      BY <1>5, <1>10, <2>2 DEF Calls
    <3>2. Unborn(g, n, st) /\ Run(then, n, E, -1, N)
      BY <1>2, <3>1 DEF Birth, E, N
    <3>3. QED
      BY <1>1, <1>7, <1>11, <3>2
  <2>3. QED
    BY <2>1, <2>2 DEF Birth, E
<1>13. Down(g, n, p, now, e, st)
  <2>1. ~Carries(now, E)
    BY <1>10 DEF Carries
  <2>2. ~st[n].eos
    BY <1>2 DEF Down
  <2>3. ASSUME Linked(g, n, p), st[n].st # "done" PROVE \E x \in 0..e.written[n] : DownTo(g, n, p, now, e, st, x)
    <3>1. PICK x \in 0..N : DownTo(g, n, p, then, d, st, x)
      BY <1>2, <2>3 DEF Down, N
    <3>2. x \in 0..e.written[n] /\ x \in Int /\ x <= N
      BY <1>1, <1>7
    <3>3. DownTo(g, n, p, now, e, st, x)
      BY <1>4, <1>7, <1>11, <3>1, <3>2 DEF DownTo, E, N
    <3>4. QED
      BY <3>2, <3>3
  <2>4. QED
    BY <1>2, <2>1, <2>2, <2>3 DEF Down, E
<1>14. Up(g, n, p, e, r, b, st)
  BY <1>2, <1>4, UpSame
<1>15. \A k : Leaves(g, k, r, r)
  BY DEF Leaves
<1>16. Drives(g, p, r, b, st, e)
  BY <1>1, <1>3, <1>8, <1>9, <1>12, <1>13, <1>14, <1>15, DrivesFor DEF then, now
<1>17. QED
  BY <1>16 DEF e

(***************************************************************************)
(* The application's EOS is sent (SendEos), after all that it wrote.       *)
(***************************************************************************)
LEMMA SendEosOrder ==
  ASSUME NEW g, NEW p, NEW r, NEW b, NEW st, NEW d, Drives(g, p, r, b, st, d),
         NEW q \in Requests, NEW i \in DOMAIN d.socket, Device!room_in_a2r(d),
         d.socket[i].pending_connect = NoOne, d.socket[i].pending_write = NoOne,
         "RCVD_EOS_FROM_APP" \in d.socket[i].flags
  PROVE  Drives(g, p, r, b, st, Device!SendEos(d, q, i))
<1> DEFINE e == EosOnly(d, q, i)
           n == d.socket[i].session
           N == d.written[n]
           m == Device!Pkt("EOS", i, Device!Nothing)
           then == Rest(d.a2r)
           now == Rest(e.a2r)
           E == EosPackets(g.id[n])
<1>1. /\ d \in DriverStates /\ Typed(d) /\ Ready(d) /\ n \in Sessions /\ g.id[n] = i /\ i \in Ids
      /\ Apart(g) /\ d.a2r \in Seq(AmigaPackets) /\ received \in Nat /\ received <= Len(d.a2r)
      /\ then \in Seq(AmigaPackets) /\ PacketsRouted(g, then) /\ r \in Seq(PiPackets) /\ PacketsRouted(g, r)
      /\ N \in Nat /\ d.io \in [Requests -> Replies]
  BY DrivesTypes DEF Order, DriverStates
<1>2. Birth(g, n, then, d, st) /\ Down(g, n, p, then, d, st) /\ Up(g, n, p, d, r, b, st)
  BY <1>1, DrivesTypes DEF Order
<1>3. /\ Device!SendEos(d, q, i) = Device!SetEosFlag(e, i, "SENT_EOS_TO_RPI")
      /\ e.socket = d.socket /\ e.send_queue = d.send_queue /\ e.read = d.read /\ e.eosRead = d.eosRead
      /\ e.eosWritten = d.eosWritten \union {n} /\ e.io = [d.io EXCEPT ![q] = "OK"]
      /\ e.written = d.written /\ e.a2r = Append(d.a2r, m)
  BY <1>1, EosSentIs
<1>4. m \in AmigaPackets /\ m.id = g.id[n] /\ m.type = "EOS"
  BY <1>1, ItemTypes DEF AmigaPackets, Device!Pkt
<1>5. Typed(e)
  <2> DEFINE a == Device!append_a2r_packet(d, "EOS", i, Device!Nothing)
             c == Device!ReplyMsg(a, q, "OK")
  <2>1. Typed(a) /\ a.socket = d.socket
    BY <1>1, PacketWrites, ItemTypes
  <2> HIDE DEF a
  <2>2. Typed(c) /\ c.socket = d.socket
    BY <2>1, ReplyWrites DEF Replies
  <2>3. e = [c EXCEPT !.eosWritten = @ \union {n}]
    BY DEF EosOnly, a
  <2> HIDE DEF c, e
  <2>4. QED
    BY <1>1, <2>2, <2>3, CountWrites, ItemTypes
<1>6. /\ d.io[n] # "idle" /\ ~Waits(d, n)
      /\ \A j \in DOMAIN d.socket : d.socket[j].session = n => j = i
  BY Connected
<1> HIDE DEF m, e, then, now, E, N
<1>7. \A k \in Sessions : e.io[k] = "idle" => d.io[k] = "idle"
  BY <1>1, <1>3, RequestKinds
<1>8. PacketsRouted(g, now) /\ now = Append(then, m) /\ \A k \in Sessions \ {n} : Grows(g, k, then, now)
  <2>1. Adds(g, n, m, Rest(d.a2r), Rest(Append(d.a2r, m)))
    BY <1>1, <1>3, <1>4, PacketGrows DEF then
  <2>2. QED
    BY <1>3, <1>4, <2>1 DEF Adds, then, now
<1>9. Keeps(d, e, n) /\ Ready(e)
  <2>1. Keeps(d, e, n)
    BY <1>3, <1>7 DEF Keeps, Same, Stays
  <2>2. ASSUME NEW j \in DOMAIN e.socket PROVE ReadyOf(e, e.socket[j])
    <3>1. ReadyOf(d, d.socket[j])
      BY <1>1, <1>3 DEF Ready
    <3>2. CASE j = i
      BY <1>3, <3>1, <3>2 DEF ReadyOf
    <3>3. CASE j # i
      <4>1. d.socket[j].session # n
        BY <1>3, <1>6, <3>3
      <4>2. QED
        BY <1>3, <3>1, <4>1 DEF ReadyOf
    <3>4. QED
      BY <3>2, <3>3
  <2>3. QED
    BY <2>1, <2>2 DEF Ready
<1>10. ~IsItem(m, n) /\ Elems(now) = Elems(then) \union {m}
  BY <1>1, <1>4, <1>8, AppendAdds DEF IsItem
<1>11. \A lo, hi : Run(then, n, E, lo, hi) => Run(now, n, E, lo, hi)
  BY <1>1, <1>4, <1>8, <1>10, RunAppendOther
<1>12. Birth(g, n, now, e, st)
  <2>1. ~Waits(e, n) /\ e.io[n] # "idle"
    BY <1>1, <1>3, <1>6, <1>7 DEF Waits
  <2>2. ASSUME Calls(now, n) PROVE Unborn(g, n, st) /\ Run(now, n, E, -1, e.written[n])
    <3>1. Calls(then, n)
      BY <1>4, <1>10, <2>2 DEF Calls
    <3>2. QED
      BY <1>2, <1>3, <1>11, <3>1 DEF Birth, E
  <2>3. QED
    BY <2>1, <2>2 DEF Birth, E
<1>13. Down(g, n, p, now, e, st)
  <2>1. n \in e.eosWritten
    BY <1>3
  <2>2. \A x : DownTo(g, n, p, then, d, st, x) => DownTo(g, n, p, now, e, st, x)
    BY <1>3, <1>11, <2>1 DEF DownTo, E
  <2>3. QED
    BY <1>2, <1>3, <2>1, <2>2 DEF Down, E
<1>14. Up(g, n, p, e, r, b, st)
  BY <1>2, <1>3, UpSame
<1>15. \A k : Leaves(g, k, r, r)
  BY DEF Leaves
<1>16. Drives(g, p, r, b, st, e)
  BY <1>1, <1>5, <1>8, <1>9, <1>12, <1>13, <1>14, <1>15, DrivesFor DEF then, now
<1>17. QED
  BY <1>3, <1>16, SetEosFlagOrder

(***************************************************************************)
(* The CONNECT of a socket that waited is sent: nothing of its session is  *)
(* under way before.                                                       *)
(***************************************************************************)
LEMMA CallOrder ==
  ASSUME NEW g, NEW p, NEW r, NEW b, NEW st, NEW d, Drives(g, p, r, b, st, d),
         NEW i \in DOMAIN d.socket, Device!room_in_a2r(d),
         d.socket[i].pending_connect # NoOne, i \in Elems(d.send_queue)
  PROVE  Drives(g, p, r, b, st,
                Device!append_a2r_packet(Device!remove_from_send_queue(d, i), "CONNECT", i,
                                         Device!Item(d.socket[i].session, 0)))
<1> DEFINE n == d.socket[i].session
           m == Device!Pkt("CONNECT", i, Device!Item(n, 0))
           h == Device!remove_from_send_queue(d, i)
           e == Device!append_a2r_packet(h, "CONNECT", i, Device!Item(n, 0))
           then == Rest(d.a2r)
           now == Rest(e.a2r)
           E == EosPackets(g.id[n])
<1>1. /\ d \in DriverStates /\ Typed(d) /\ Ready(d) /\ n \in Sessions /\ g.id[n] = i /\ i \in Ids
      /\ Apart(g) /\ d.a2r \in Seq(AmigaPackets) /\ received \in Nat /\ received <= Len(d.a2r)
      /\ then \in Seq(AmigaPackets) /\ PacketsRouted(g, then) /\ r \in Seq(PiPackets) /\ PacketsRouted(g, r)
      /\ d.send_queue \in Seq(Ids)
  BY DrivesTypes DEF Order, DriverStates
<1>2. Birth(g, n, then, d, st) /\ Down(g, n, p, then, d, st) /\ Up(g, n, p, d, r, b, st)
  BY <1>1, DrivesTypes DEF Order
<1>3. /\ Device!Item(n, 0) \in Items /\ m \in AmigaPackets
      /\ m.id = g.id[n] /\ m.type = "CONNECT" /\ m.data.session = n /\ m.data.number = 0
  <2> DEFINE x == Device!Item(n, 0)
  <2>1. x \in Items /\ x.session = n /\ x.number = 0
    BY <1>1, ItemTypes DEF Device!Item
  <2> HIDE DEF x, n
  <2>2. Device!Pkt("CONNECT", i, x) \in AmigaPackets
    BY <1>1, <2>1 DEF AmigaPackets, Device!Pkt
  <2>3. QED
    BY <1>1, <2>1, <2>2 DEF Device!Pkt, x, n
<1>4. Typed(h) /\ h.a2r = d.a2r /\ h.socket = d.socket /\ i \notin Elems(h.send_queue)
  BY <1>1, QueueWrites
<1>5. h.send_queue = Without(d.send_queue, i) /\ Elems(Without(d.send_queue, i)) = Elems(d.send_queue) \ {i}
  BY <1>1, SameHelpers, WithoutLeaves DEF Device!remove_from_send_queue, DriverStates
<1>6. Typed(e)
  BY <1>1, <1>3, <1>4, PacketWrites DEF Device!room_in_a2r
<1>7. /\ e.socket = d.socket /\ e.send_queue = h.send_queue /\ e.read = d.read /\ e.eosRead = d.eosRead
      /\ e.eosWritten = d.eosWritten /\ e.io = d.io /\ e.written = d.written /\ e.a2r = Append(d.a2r, m)
  BY <1>1 DEF Device!remove_from_send_queue, Device!append_a2r_packet, DriverStates
<1>8. /\ d.io[n] # "idle"
      /\ \A j \in DOMAIN d.socket : d.socket[j].session = n => j = i
  BY Connected
<1> HIDE DEF m, e, h, then, now, E
<1>9. PacketsRouted(g, now) /\ now = Append(then, m) /\ \A k \in Sessions \ {n} : Grows(g, k, then, now)
  <2>1. Adds(g, n, m, Rest(d.a2r), Rest(Append(d.a2r, m)))
    BY <1>1, <1>3, PacketGrows DEF then
  <2>2. QED
    BY <1>7, <2>1 DEF Adds, then, now
<1>10. Keeps(d, e, n) /\ Ready(e)
  <2>1. ASSUME NEW j \in DOMAIN e.socket PROVE Stays(d, e, j, n)
    BY <1>5, <1>7 DEF Stays
  <2>2. QED
    BY <1>1, <1>7, <2>1 DEF Keeps, Same, Ready, ReadyOf
<1>11. /\ Unborn(g, n, st) /\ d.written[n] = 0 /\ n \notin d.eosWritten
       /\ \A x \in Elems(then) : ~IsItem(x, n)
  <2>1. Waits(d, n)
    BY DEF Waits
  <2>2. QED
    BY <1>2, <2>1 DEF Birth
<1>12. IsItem(m, n) /\ ~Carries(then, E) /\ Elems(now) = Elems(then) \union {m} /\ m \notin E
  <2>1. ~Carries(then, E)
    BY <1>2, <1>11 DEF Down, E
  <2>2. IsItem(m, n) /\ m \notin E
    BY <1>3 DEF IsItem, E, EosPackets
  <2>3. QED
    BY <1>1, <1>3, <1>9, <2>1, <2>2, AppendAdds
<1>13. Run(now, n, E, -1, 0)
  <2>1. Run(then, n, E, -1, -1)
    BY <1>1, <1>11, RunNone
  <2>2. Run(Append(then, m), n, E, -1, (-1) + 1)
    BY <1>1, <1>3, <1>12, <2>1, RunAppendItem, AllCarry DEF Carries
  <2>3. QED
    BY <1>9, <2>2
<1>14. Birth(g, n, now, e, st)
  <2>1. ~Waits(e, n) /\ e.io[n] # "idle"
    BY <1>4, <1>7, <1>8 DEF Waits
  <2>2. QED
    BY <1>7, <1>11, <1>13, <2>1 DEF Birth, E
<1>15. Down(g, n, p, now, e, st)
  <2>1. ~Linked(g, n, p)
    BY <1>11 DEF Unborn, Linked
  <2>2. ~Carries(now, E)
    BY <1>12 DEF Carries
  <2>3. QED
    BY <1>2, <1>7, <2>1, <2>2 DEF Down, E
<1>16. Up(g, n, p, e, r, b, st)
  BY <1>2, <1>7, UpSame
<1>17. \A k : Leaves(g, k, r, r)
  BY DEF Leaves
<1>18. Drives(g, p, r, b, st, e)
  BY <1>1, <1>6, <1>9, <1>10, <1>14, <1>15, <1>16, <1>17, DrivesFor DEF then, now
<1>19. QED
  BY <1>18 DEF e, h

\* What Writing leaves alone.
LEMMA WritingIs ==
  ASSUME NEW d \in DriverStates, NEW i \in DOMAIN d.socket, NEW q
  PROVE  LET e == Writing(d, i, q) IN
         /\ DOMAIN e.socket = DOMAIN d.socket /\ e.a2r = d.a2r /\ e.send_queue = d.send_queue
         /\ e.eosWritten = d.eosWritten
         /\ e.socket[i].session = d.socket[i].session /\ e.socket[i].flags = d.socket[i].flags
         /\ e.socket[i].pending_connect = d.socket[i].pending_connect /\ e.socket[i].pending_write = q
<1>1. d.socket = [j \in DOMAIN d.socket |-> d.socket[j]] /\ d.socket[i] \in SocketType
  BY MapsOfSockets, SocketFields DEF DriverStates
<1>2. Writing(d, i, q) = [d EXCEPT !.socket = [d.socket EXCEPT ![i] = [d.socket[i] EXCEPT !.pending_write = q]]]
  BY FieldWrites DEF Writing
<1>3. Writing(d, i, q).socket[i] = [d.socket[i] EXCEPT !.pending_write = q]
  BY <1>1, <1>2 DEF DriverStates
<1>4. /\ DOMAIN Writing(d, i, q).socket = DOMAIN d.socket /\ Writing(d, i, q).a2r = d.a2r
      /\ Writing(d, i, q).send_queue = d.send_queue /\ Writing(d, i, q).eosWritten = d.eosWritten
  BY <1>1, <1>2 DEF DriverStates
<1>5. QED
  BY <1>1, <1>3, <1>4, FieldsStay

(***************************************************************************)
(* One turn of the loop of handle_room_in_a2r (a314driver.c).              *)
(***************************************************************************)
LEMMA RoomOrder ==
  ASSUME NEW g, NEW p, NEW r, NEW b, NEW st, NEW d, Drives(g, p, r, b, st, d),
         d.send_queue # <<>>, Device!room_in_a2r(d)
  PROVE  Drives(g, p, r, b, st, Device!handle_room_in_a2r(d))
<1> DEFINE i == Head(d.send_queue)
           s == d.socket[i]
           e == Device!remove_from_send_queue(d, i)
           w == s.pending_write
           f == Writing(e, i, NoOne)
           c == Device!append_a2r_packet(e, "CONNECT", i, Device!Item(s.session, 0))
           x == Device!append_a2r_packet(e, "RESET", i, Device!Nothing)
           h == Device!handle_room_in_a2r(d)
<1>1. /\ d \in DriverStates /\ Typed(d) /\ d.send_queue \in Seq(Ids) /\ Elems(d.send_queue) \subseteq DOMAIN d.socket
  BY DrivesTypes DEF Typed, DriverStates
<1>2. i \in DOMAIN d.socket /\ i \in Elems(d.send_queue) /\ i \in Ids
  BY <1>1, TailLeaves
<1>3. s \in Sockets /\ ReadyOf(d, s) /\ w \in Writes \union {NoOne}
  BY <1>2, DrivesTypes, SocketFields
<1>4. /\ s.pending_connect # NoOne => h = c
      /\ s.pending_connect = NoOne /\ w # NoOne =>
           h = IF w.op = "WRITE" THEN Device!SendData(f, w, i) ELSE Device!SendEos(f, w, i)
      /\ s.pending_connect = NoOne /\ w = NoOne /\ "SHOULD_SEND_RESET" \in s.flags =>
           h = Device!delete_socket(x, i)
      /\ s.pending_connect = NoOne /\ w = NoOne /\ "SHOULD_SEND_RESET" \notin s.flags => h = e
  BY DEF Device!handle_room_in_a2r, Writing
<1>5. /\ e.socket = d.socket /\ i \notin Elems(e.send_queue) /\ e.a2r = d.a2r
  BY <1>1, <1>2, QueueWrites
<1>6. Drives(g, p, r, b, st, e)
  BY <1>2, QueueOrder
<1>7. e.eosWritten = d.eosWritten /\ e \in DriverStates
  BY <1>1, <1>6, DrivesTypes DEF Device!remove_from_send_queue, DriverStates
<1>8. Device!room_in_a2r(e)
  BY <1>5 DEF Device!room_in_a2r
<1> HIDE DEF h, i
<1>9. CASE s.pending_connect # NoOne
  BY <1>2, <1>4, <1>9, CallOrder DEF h
<1> HIDE DEF e
<1>10. CASE s.pending_connect = NoOne /\ w # NoOne
  <2>1. w \in Requests /\ w.op \in {"WRITE", "EOS"}
    BY <1>3, <1>10, RequestKinds
  <2>2. Drives(g, p, r, b, st, f)
    BY <1>2, <1>5, <1>6, PendingOrder
  <2>3. /\ i \in DOMAIN f.socket /\ f.a2r = e.a2r /\ f.eosWritten = e.eosWritten
        /\ f.socket[i].session = s.session /\ f.socket[i].flags = s.flags
        /\ f.socket[i].pending_connect = s.pending_connect /\ f.socket[i].pending_write = NoOne
    BY <1>2, <1>5, <1>7, WritingIs
  <2>4. Device!room_in_a2r(f)
    BY <1>8, <2>3 DEF Device!room_in_a2r
  <2> HIDE DEF f, s
  <2>5. s.session \notin d.eosWritten /\ (w.op = "EOS" => "RCVD_EOS_FROM_APP" \in s.flags)
    BY <1>3, <1>10 DEF ReadyOf
  <2>6. CASE w.op = "WRITE"
    BY <1>4, <1>7, <1>10, <2>1, <2>2, <2>3, <2>4, <2>5, <2>6, SendDataOrder DEF h
  <2>7. CASE w.op = "EOS"
    BY <1>4, <1>10, <2>1, <2>2, <2>3, <2>4, <2>5, <2>7, SendEosOrder DEF h
  <2>8. QED
    BY <2>1, <2>6, <2>7
<1>11. CASE s.pending_connect = NoOne /\ w = NoOne /\ "SHOULD_SEND_RESET" \in s.flags
  <2>1. Drives(g, p, r, b, st, x) /\ x.socket = e.socket /\ x.send_queue = e.send_queue
    BY <1>2, <1>6, <1>8, ResetOrder
  <2> HIDE DEF x, s
  <2>2. QED
    BY <1>2, <1>4, <1>5, <1>11, <2>1, DeleteOrder DEF h
<1>12. CASE s.pending_connect = NoOne /\ w = NoOne /\ "SHOULD_SEND_RESET" \notin s.flags
  BY <1>4, <1>6, <1>12 DEF h
<1>13. QED
  BY <1>9, <1>10, <1>11, <1>12

(***************************************************************************)
(* What a write and an EOS of the application do (handle_app_write,        *)
(* handle_app_eos, a314driver.c).                                          *)
(***************************************************************************)
LEMMA WaitOrder ==
  ASSUME NEW g, NEW p, NEW r, NEW b, NEW st, NEW d, Drives(g, p, r, b, st, d),
         NEW q \in Writes, NEW i \in DOMAIN d.socket, q.key = d.socket[i].key, ~Device!Closed(d.socket[i]),
         d.socket[i].pending_connect = NoOne, d.socket[i].session \notin d.eosWritten,
         q.op = "EOS" => "RCVD_EOS_FROM_APP" \in d.socket[i].flags
  PROVE  Drives(g, p, r, b, st, Device!Wait(d, q, i))
<1> DEFINE h == Device!ReplyMsg(d, q, "held")
           f == Writing(h, i, q)
<1>1. d \in DriverStates /\ q \in Requests /\ q # NoOne
  BY DrivesTypes, RequestKinds
<1>2. Drives(g, p, r, b, st, h)
  BY <1>1, ReplyOrder DEF Replies
<1>3. h.socket = d.socket /\ h.eosWritten = d.eosWritten /\ h \in DriverStates
  BY <1>1, ReplyKeeps DEF Replies
<1>4. Device!Wait(d, q, i) = Device!add_to_send_queue(f, i)
  BY DEF Device!Wait, Writing
<1> HIDE DEF h
<1>5. Drives(g, p, r, b, st, f)
  BY <1>1, <1>2, <1>3, PendingOrder
<1>6. i \in DOMAIN f.socket /\ f.socket[i].pending_connect = NoOne
  BY <1>3, WritingIs
<1> HIDE DEF f
<1>7. QED
  BY <1>4, <1>5, <1>6, QueueOrder

\* A request that a socket cannot serve closes it.
LEMMA RefuseOrder ==
  ASSUME NEW g, NEW p, NEW r, NEW b, NEW st, NEW d, Drives(g, p, r, b, st, d),
         NEW q \in Requests, NEW i \in DOMAIN d.socket, NEW x \in Replies, x # "idle"
  PROVE  Drives(g, p, r, b, st, Device!close_socket(Device!ReplyMsg(d, q, x), i, TRUE))
<1>1. d \in DriverStates
  BY DrivesTypes
<1>2. Drives(g, p, r, b, st, Device!ReplyMsg(d, q, x))
  BY ReplyOrder
<1>3. Device!ReplyMsg(d, q, x).socket = d.socket
  BY <1>1, ReplyKeeps
<1>4. QED
  BY <1>2, <1>3, CloseOrder

\* handle_app_write (a314driver.c): the data waits, is sent, or the write fails.
LEMMA WriteOrder ==
  ASSUME NEW g, NEW p, NEW r, NEW b, NEW st, NEW d, Drives(g, p, r, b, st, d),
         NEW q \in Writes, q.op = "WRITE", NEW i \in DOMAIN d.socket, q.key = d.socket[i].key,
         ~Device!Closed(d.socket[i])
  PROVE  Drives(g, p, r, b, st, Device!handle_app_write(d, q, i))
<1> DEFINE s == d.socket[i]
           may == Device!MayWrite(s)
           u == Device!handle_app_write(d, q, i)
<1>1. d \in DriverStates /\ q \in Requests /\ ReadyOf(d, s)
  BY DrivesTypes, RequestKinds
<1>2. may => s.pending_connect = NoOne /\ s.session \notin d.eosWritten
  BY <1>1 DEF Device!MayWrite, ReadyOf
<1>3. CASE ~may
  BY <1>1, <1>3, RefuseOrder DEF Device!handle_app_write, Replies
<1>4. CASE may /\ Device!CanSend(d)
  <2>1. u = Device!SendData(d, q, i)
    BY <1>4 DEF Device!handle_app_write
  <2>2. Device!room_in_a2r(d)
    BY <1>4 DEF Device!CanSend
  <2> HIDE DEF u, may
  <2>3. QED
    BY <1>1, <1>2, <1>4, <2>1, <2>2, SendDataOrder DEF u
<1>5. CASE may /\ ~Device!CanSend(d)
  <2>1. u = Device!Wait(d, q, i)
    BY <1>5 DEF Device!handle_app_write
  <2> HIDE DEF u, may
  <2>2. QED
    BY <1>1, <1>2, <1>5, <2>1, WaitOrder DEF u
<1>6. QED
  BY <1>3, <1>4, <1>5

\* handle_app_eos (a314driver.c), which is a write without data.
LEMMA EosOrder ==
  ASSUME NEW g, NEW p, NEW r, NEW b, NEW st, NEW d, Drives(g, p, r, b, st, d),
         NEW q \in Writes, NEW i \in DOMAIN d.socket, q.key = d.socket[i].key,
         ~Device!Closed(d.socket[i])
  PROVE  Drives(g, p, r, b, st, Device!handle_app_eos(d, q, i))
<1> DEFINE s == d.socket[i]
           may == Device!MayWrite(s)
           e == Flagged(d, i, "RCVD_EOS_FROM_APP")
           u == Device!handle_app_eos(d, q, i)
<1>1. d \in DriverStates /\ q \in Requests /\ ReadyOf(d, s) /\ s \in SocketType
  BY DrivesTypes, RequestKinds, SocketFields
<1>2. may => s.pending_connect = NoOne /\ s.pending_write = NoOne /\ s.session \notin d.eosWritten
  BY <1>1 DEF Device!MayWrite, ReadyOf
<1>3. CASE ~may
  BY <1>1, <1>3, RefuseOrder DEF Device!handle_app_eos, Replies
<1>4. Drives(g, p, r, b, st, e)
  BY FlagOrder
<1>5. /\ DOMAIN e.socket = DOMAIN d.socket /\ e.a2r = d.a2r /\ e.send_queue = d.send_queue
      /\ e.eosWritten = d.eosWritten
      /\ e.socket[i] = [s EXCEPT !.flags = s.flags \union {"RCVD_EOS_FROM_APP"}]
  BY <1>1, FlagIs
<1>6. may => u = IF Device!CanSend(d) THEN Device!SendEos(e, q, i) ELSE Device!Wait(e, q, i)
  BY DEF Device!handle_app_eos, Flagged
<1> HIDE DEF e, u, may
<1>7. /\ e.socket[i].pending_connect = s.pending_connect /\ e.socket[i].pending_write = s.pending_write
      /\ e.socket[i].session = s.session /\ e.socket[i].key = s.key
      /\ e.socket[i].flags = s.flags \union {"RCVD_EOS_FROM_APP"}
  <2> HIDE DEF s
  <2>1. QED
    BY <1>1, <1>5 DEF SocketType
<1>8. ~Device!Closed(e.socket[i])
  BY <1>7 DEF Device!Closed
<1>9. CASE may /\ Device!CanSend(d)
  <2>1. Device!room_in_a2r(e)
    BY <1>5, <1>9 DEF Device!CanSend, Device!room_in_a2r
  <2>2. i \in DOMAIN e.socket /\ e.socket[i].pending_connect = NoOne /\ e.socket[i].pending_write = NoOne
    BY <1>2, <1>5, <1>7, <1>9
  <2>3. "RCVD_EOS_FROM_APP" \in e.socket[i].flags
    BY <1>7
  <2>4. Drives(g, p, r, b, st, Device!SendEos(e, q, i))
    BY <1>1, <1>4, <2>1, <2>2, <2>3, SendEosOrder
  <2>5. QED
    BY <1>6, <1>9, <2>4 DEF u
<1>10. CASE may /\ ~Device!CanSend(d)
  <2>1. i \in DOMAIN e.socket /\ e.socket[i].pending_connect = NoOne
    BY <1>2, <1>5, <1>7, <1>10
  <2>2. e.socket[i].session \notin e.eosWritten /\ q.key = e.socket[i].key
    BY <1>2, <1>5, <1>7, <1>10
  <2>3. "RCVD_EOS_FROM_APP" \in e.socket[i].flags
    BY <1>7
  <2>4. Drives(g, p, r, b, st, Device!Wait(e, q, i))
    BY <1>4, <1>8, <2>1, <2>2, <2>3, WaitOrder
  <2>5. QED
    BY <1>6, <1>10, <2>4 DEF u
<1>11. QED
  BY <1>3, <1>9, <1>10

-----------------------------------------------------------------------------
(* What the driver receives and the application reads. *)

\* A packet that concerns no open socket's data is taken.
LEMMA TakeOrder ==
  ASSUME NEW g, NEW p, NEW r, NEW b, NEW st, NEW d, Drives(g, p, r, b, st, d), r # <<>>,
         Head(r).type \in {"CONNECT_RESPONSE", "RESET"} \/ ~Open(d, Head(r).id)
  PROVE  Drives(g, p, Tail(r), b, st, d)
<1> DEFINE m == Head(r)
           then == Rest(d.a2r)
<1>1. /\ d \in DriverStates /\ then \in Seq(AmigaPackets) /\ r \in Seq(PiPackets)
      /\ Order(g, p, then, r, b, st, d) /\ PacketsRouted(g, then) /\ PacketsRouted(g, r)
      /\ st \in [Sessions -> StreamTypes] /\ Ready(d)
  BY DrivesTypes DEF Order
<1>2. NoOne \notin Sessions /\ Keeps(d, d, NoOne)
  BY RequestKinds, KeepsSame
<1>3. Tail(r) \in Seq(PiPackets) /\ m \in Elems(r) /\ Elems(r) = {m} \union Elems(Tail(r))
  BY <1>1, TailLeaves
<1>4. PacketsRouted(g, Tail(r))
  BY <1>1, <1>3 DEF PacketsRouted
<1>5. ASSUME NEW k \in Sessions, Open(d, g.id[k]) PROVE Leaves(g, k, r, Tail(r))
  <2>1. IsItem(m, k) => m.id = g.id[k]
    BY <1>1, <1>3 DEF PacketsRouted, IsItem
  <2>2. m \in EosPackets(g.id[k]) => m.id = g.id[k] /\ m.type = "EOS"
    BY DEF EosPackets
  <2>3. Foreign(g, k, m)
    BY <1>5, <2>1, <2>2 DEF Foreign, IsItem
  <2>4. QED
    BY <2>3 DEF Leaves
<1>6. \A k \in Sessions : Grows(g, k, then, then)
  BY DEF Grows
<1> HIDE DEF then, m
<1>7. Order(g, p, then, Tail(r), b, st, d)
  BY <1>1, <1>2, <1>4, <1>5, <1>6, DriverOrder
<1>8. QED
  BY <1>3, <1>7 DEF Drives, then

(***************************************************************************)
(* A step that reads or receives for one session.                          *)
(***************************************************************************)
LEMMA Inbound ==
  ASSUME NEW g, NEW p, NEW r, NEW b, NEW st, NEW d, Drives(g, p, r, b, st, d),
         NEW i \in DOMAIN d.socket, NEW n, n = d.socket[i].session,
         NEW e, Typed(e), Keeps(d, e, n), Ready(e), e.a2r = d.a2r, e.written = d.written,
         e.eosWritten = d.eosWritten,
         NEW w, w = r \/ (r # <<>> /\ w = Tail(r) /\ Head(r).id = i), Up(g, n, p, e, w, b, st)
  PROVE  Drives(g, p, w, b, st, e)
<1> DEFINE then == Rest(d.a2r)
<1>1. /\ d \in DriverStates /\ then \in Seq(AmigaPackets) /\ r \in Seq(PiPackets)
      /\ Order(g, p, then, r, b, st, d) /\ PacketsRouted(g, then) /\ PacketsRouted(g, r)
      /\ n \in Sessions /\ g.id[n] = i /\ i \in Ids /\ Apart(g)
  BY DrivesTypes DEF Order
<1>2. Birth(g, n, then, d, st) /\ Down(g, n, p, then, d, st)
  BY <1>1 DEF Order
<1>3. d.io[n] # "idle"
  BY Connected
<1>4. w \in Seq(PiPackets) /\ PacketsRouted(g, w)
  <2>1. CASE w = r
    BY <1>1, <2>1
  <2>2. CASE r # <<>> /\ w = Tail(r)
    <3>1. w \in Seq(PiPackets) /\ Elems(r) = {Head(r)} \union Elems(w)
      BY <1>1, <2>2, TailLeaves
    <3>2. QED
      BY <1>1, <3>1 DEF PacketsRouted
  <2>3. QED
    BY <2>1, <2>2
<1>5. ASSUME NEW k \in Sessions, k # n PROVE Leaves(g, k, r, w)
  <2>1. CASE w = r
    BY <2>1 DEF Leaves
  <2>2. CASE r # <<>> /\ w = Tail(r) /\ Head(r).id = i
    <3>1. Head(r) \in Elems(r)
      BY <1>1, <2>2, TailLeaves
    <3>2. g.id[k] # i
      BY <1>1, <1>5, IdAssumption DEF Apart, Ids
    <3>3. Foreign(g, k, Head(r))
      BY <1>1, <2>2, <3>1, <3>2 DEF Foreign, IsItem, EosPackets, PacketsRouted
    <3>4. QED
      BY <2>2, <3>3 DEF Leaves
  <2>3. QED
    BY <2>1, <2>2
<1>6. \A k \in Sessions : Grows(g, k, then, then)
  BY DEF Grows
<1>7. Birth(g, n, then, e, st)
  <2>1. e.io[n] # "idle"
    BY <1>1, <1>3 DEF Keeps
  <2>2. Waits(e, n) => Waits(d, n)
    BY DEF Waits, Keeps, Stays
  <2>3. QED
    BY <1>2, <2>1, <2>2 DEF Birth
<1>8. Down(g, n, p, then, e, st)
  BY <1>2 DEF Down, DownTo
<1> HIDE DEF then
<1>9. QED
  BY <1>1, <1>4, <1>5, <1>6, <1>7, <1>8, DrivesFor DEF then

\* A queue with one more, and with one less.
IsMore(T, q, x, v) ==
  /\ v \in Seq(T) /\ Len(v) = Len(q) + 1 /\ v[Len(q) + 1] = x
  /\ \A k \in DOMAIN v : k # Len(q) + 1 => k \in DOMAIN q /\ v[k] = q[k]
  /\ Len(q) \in Nat
LEMMA OneMore ==
  ASSUME NEW T, NEW q \in Seq(T), NEW x \in T
  PROVE  IsMore(T, q, x, Append(q, x))
  BY DEF IsMore
IsLess(T, q, v) ==
  /\ v \in Seq(T) /\ Len(v) = Len(q) - 1 /\ Head(q) = q[1] /\ 1 \in DOMAIN q /\ Head(q) \in T
  /\ \A k \in DOMAIN v : k \in Nat /\ k + 1 \in DOMAIN q /\ v[k] = q[k + 1]
  /\ Len(q) \in Nat /\ Len(q) > 0
\* A queue that loses its head has one element less.
LEMMA OneLess ==
  ASSUME NEW T, NEW q \in Seq(T), q # <<>>
  PROVE  IsLess(T, q, Tail(q))
  BY DEF IsLess

\* The items of a session by number.
LEMMA NumberedItem ==
  ASSUME NEW n, NEW x \in Items, x.session = n, NEW k, x.number = k
  PROVE  x = Item(n, k)
  BY DEF Items, Item

(***************************************************************************)
(* R is what a session has read and q what it has to read; the ring r has  *)
(* what it is due after item G.                                            *)
(***************************************************************************)
InPlace(n, q, R) ==
  /\ R \in Seq(Items) /\ q \in Seq(Items)
  /\ \A k \in DOMAIN R : R[k] = Item(n, k)
  /\ \A j \in DOMAIN q : q[j] = Item(n, Len(R) + j)
Total(q, R) == Len(R) + Len(q)
Due(G, n, i, r, s, z) ==
  /\ G <= z /\ Run(r, n, EosPackets(i), G, z)
  /\ Carries(r, EosPackets(i)) => s.ended /\ z = s.sent

\* The oldest of what waits is read.
LEMMA TakesInPlace ==
  ASSUME NEW n, NEW q, NEW R, InPlace(n, q, R), q # <<>>
  PROVE  /\ InPlace(n, Tail(q), Append(R, Head(q))) /\ Total(Tail(q), Append(R, Head(q))) = Total(q, R)
         /\ Len(Append(R, Head(q))) = Len(R) + 1 /\ Len(R) < Total(q, R) /\ Head(q) \in Items
<1> DEFINE x == Head(q)
           v == Tail(q)
           w == Append(R, x)
<1>1. IsLess(Items, q, v) /\ x \in Items /\ x = q[1]
  BY OneLess DEF IsLess, InPlace
<1> HIDE DEF x, v, w
<1>2. IsMore(Items, R, x, w)
  BY <1>1, OneMore DEF w, InPlace
<1>3. /\ Len(w) = Len(R) + 1 /\ Len(R) \in Nat /\ Len(v) = Len(q) - 1 /\ Len(q) \in Nat /\ Len(q) > 0
      /\ w \in Seq(Items) /\ v \in Seq(Items) /\ 1 \in DOMAIN q
  BY <1>1, <1>2 DEF IsMore, IsLess
<1>4. ASSUME NEW k \in DOMAIN w PROVE w[k] = Item(n, k)
  <2>1. CASE k = Len(R) + 1
    BY <1>1, <1>2, <1>3, <2>1 DEF IsMore, InPlace
  <2>2. CASE k # Len(R) + 1
    BY <1>2, <2>2 DEF IsMore, InPlace
  <2>3. QED
    BY <2>1, <2>2
<1>5. ASSUME NEW j \in DOMAIN v PROVE v[j] = Item(n, Len(w) + j)
  <2>1. j \in Nat /\ j + 1 \in DOMAIN q /\ v[j] = q[j + 1]
    BY <1>1 DEF IsLess
  <2>2. Len(w) + j = Len(R) + (j + 1)
    BY <1>3, <2>1
  <2>3. QED
    BY <2>1, <2>2 DEF InPlace
<1>6. Total(v, w) = Total(q, R) /\ Len(R) < Total(q, R)
  BY <1>3 DEF Total
<1>7. QED
  BY <1>1, <1>3, <1>4, <1>5, <1>6 DEF InPlace, x, v, w

\* The next item waits.
LEMMA AddsInPlace ==
  ASSUME NEW n, NEW q, NEW R, InPlace(n, q, R), NEW H, H = Total(q, R) + 1,
         NEW x \in Items, x = Item(n, H)
  PROVE  InPlace(n, Append(q, x), R) /\ Total(Append(q, x), R) = H
<1> DEFINE w == Append(q, x)
<1>1. IsMore(Items, q, x, w)
  BY OneMore DEF InPlace
<1>2. x = Item(n, Total(q, R) + 1)
  OBVIOUS
<1> HIDE DEF w
<1>3. /\ Len(w) = Len(q) + 1 /\ Len(q) \in Nat /\ w \in Seq(Items)
  BY <1>1 DEF IsMore
<1>4. Len(R) \in Nat
  BY DEF InPlace
<1>5. ASSUME NEW j \in DOMAIN w PROVE w[j] = Item(n, Len(R) + j)
  <2>1. CASE j = Len(q) + 1
    <3>1. Len(R) + j = Total(q, R) + 1
      BY <1>3, <1>4, <2>1 DEF Total
    <3>2. QED
      BY <1>1, <1>2, <2>1, <3>1 DEF IsMore
  <2>2. CASE j # Len(q) + 1
    BY <1>1, <2>2 DEF IsMore, InPlace
  <2>3. QED
    BY <2>1, <2>2
<1>6. Total(w, R) = Total(q, R) + 1
  BY <1>3, <1>4 DEF Total
<1>7. QED
  BY <1>3, <1>5, <1>6 DEF InPlace, w

\* The next item is read at once.
LEMMA GivesInPlace ==
  ASSUME NEW n, NEW q, NEW R, InPlace(n, q, R), q = <<>>, NEW H, H = Total(q, R) + 1,
         NEW x \in Items, x = Item(n, H)
  PROVE  InPlace(n, q, Append(R, x)) /\ Total(q, Append(R, x)) = H
<1> DEFINE w == Append(R, x)
<1>1. IsMore(Items, R, x, w)
  BY OneMore DEF InPlace
<1>2. x = Item(n, Total(q, R) + 1)
  OBVIOUS
<1> HIDE DEF w
<1>3. /\ Len(w) = Len(R) + 1 /\ Len(R) \in Nat /\ w \in Seq(Items) /\ Len(q) = 0 /\ DOMAIN q = {}
  BY <1>1 DEF IsMore
<1>4. Len(R) = Total(q, R) /\ Total(q, w) = Total(q, R) + 1
  BY <1>3 DEF Total
<1>5. ASSUME NEW k \in DOMAIN w PROVE w[k] = Item(n, k)
  <2>1. CASE k = Len(R) + 1
    BY <1>1, <1>2, <1>4, <2>1 DEF IsMore
  <2>2. CASE k # Len(R) + 1
    BY <1>1, <2>2 DEF IsMore, InPlace
  <2>3. QED
    BY <2>1, <2>2
<1>6. QED
  BY <1>3, <1>4, <1>5 DEF InPlace, w

\* The next item comes, or what ends them.
LEMMA DueItem ==
  ASSUME NEW G \in Nat, NEW n, NEW i, NEW r \in Seq(PiPackets), r # <<>>, NEW s, s.sent \in Nat,
         NEW z \in 0..s.sent, Due(G, n, i, r, s, z), IsItem(Head(r), n)
  PROVE  /\ Head(r).data.number = G + 1 /\ G < s.sent
         /\ Due(G + 1, n, i, Tail(r), s, z)
<1>1. /\ Head(r).data.number = G + 1 /\ G < z /\ Run(Tail(r), n, EosPackets(i), G + 1, z)
  BY AllCarry, RunTailItem DEF Due
<1>2. Carries(Tail(r), EosPackets(i)) => Carries(r, EosPackets(i))
  BY HeadAndRest DEF Carries
<1>3. QED
  BY <1>1, <1>2 DEF Due
\* An EOS packet at the head of r: nothing of the session is due any more.
LEMMA DueEnd ==
  ASSUME NEW G \in Nat, NEW n, NEW i, NEW r \in Seq(PiPackets), r # <<>>, NEW s, s.sent \in Nat,
         NEW z \in 0..s.sent, Due(G, n, i, r, s, z), Head(r) \in EosPackets(i)
  PROVE  s.ended /\ G = s.sent /\ Due(G, n, i, Tail(r), s, z)
<1>1. ~IsItem(Head(r), n)
  BY DEF IsItem, EosPackets
<1>2. Run(Tail(r), n, EosPackets(i), G, z) /\ z <= G
  BY <1>1, AllCarry, RunTailOther DEF Due
<1>3. /\ Carries(Tail(r), EosPackets(i)) => Carries(r, EosPackets(i))
      /\ Carries(r, EosPackets(i))
  BY HeadAndRest DEF Carries
<1>4. QED
  BY <1>2, <1>3 DEF Due

\* What the session of an open socket has read, has to read and is sent.
Sees(g, r, st, d, i, n) ==
  /\ n \in Sessions /\ g.id[n] = i /\ i \in Ids
  /\ InPlace(n, d.socket[i].rq, d.read[n])
  /\ Got(d, n, i) = Total(d.socket[i].rq, d.read[n]) /\ Got(d, n, i) \in Nat
  /\ st[n].sent \in Nat
  /\ "RCVD_EOS_FROM_RPI" \in d.socket[i].flags => st[n].ended /\ Got(d, n, i) = st[n].sent
  /\ n \in d.eosRead => st[n].ended /\ Len(d.read[n]) = st[n].sent
  /\ \E z1 \in 0..st[n].sent : Due(Got(d, n, i), n, i, r, st[n], z1)
LEMMA OpenIs ==
  ASSUME NEW g, NEW p, NEW r, NEW b, NEW st, NEW d, Drives(g, p, r, b, st, d),
         NEW i \in DOMAIN d.socket, ~Device!Closed(d.socket[i])
  PROVE  Sees(g, r, st, d, i, d.socket[i].session)
<1> DEFINE n == d.socket[i].session
<1>1. /\ d \in DriverStates /\ n \in Sessions /\ g.id[n] = i /\ i \in Ids /\ d.socket[i] \in Sockets
      /\ st \in [Sessions -> StreamTypes]
  BY DrivesTypes
<1>2. Up(g, n, p, d, r, b, st)
  BY <1>1, DrivesTypes DEF Order
<1>3. UpOpen(g, n, p, d, r, b, st[n])
  BY <1>1, <1>2 DEF Up, Open, Device!Closed
<1>4. d.read[n] \in Seq(Items) /\ d.socket[i].rq \in Seq(Items)
  BY <1>1, SocketFields DEF DriverStates
<1>5. Got(d, n, i) = Total(d.socket[i].rq, d.read[n]) /\ Got(d, n, i) \in Nat
  BY <1>1, GotIs DEF Got, Total
<1>6. st[n].sent \in Nat
  BY <1>1 DEF StreamTypes
<1>7. PICK z1, z2, z3 \in 0..st[n].sent : UpTo(g, n, p, d, r, b, st[n], z1, z2, z3)
  BY <1>3 DEF UpOpen
<1>8. Due(Got(d, n, i), n, i, r, st[n], z1)
  BY <1>1, <1>7 DEF UpTo, Due
<1>9. /\ \A k \in DOMAIN d.read[n] : d.read[n][k] = Item(n, k)
      /\ n \in d.eosRead => st[n].ended /\ Len(d.read[n]) = st[n].sent
  BY <1>2 DEF Up
<1>10. /\ \A j \in DOMAIN d.socket[i].rq : d.socket[i].rq[j] = Item(n, Len(d.read[n]) + j)
       /\ "RCVD_EOS_FROM_RPI" \in d.socket[i].flags => st[n].ended /\ Got(d, n, i) = st[n].sent
  BY <1>1, <1>3 DEF UpOpen
<1> HIDE DEF n
<1>11. Sees(g, r, st, d, i, n)
  BY <1>1, <1>4, <1>5, <1>6, <1>8, <1>9, <1>10 DEF Sees, InPlace
<1>12. QED
  BY <1>11 DEF n

(***************************************************************************)
(* A step that receives or reads: R is what the session of the socket has  *)
(* read then, y its socket, and w the ring.                                *)
(***************************************************************************)
Moves(d, e, i, n, y, R) ==
  /\ e.socket = [d.socket EXCEPT ![i] = y] /\ e.read = [d.read EXCEPT ![n] = R] /\ e.a2r = d.a2r
  /\ e.written = d.written /\ e.eosWritten = d.eosWritten /\ e.eosRead = d.eosRead
  /\ e.send_queue = d.send_queue /\ \A k \in Sessions : e.io[k] = "idle" => d.io[k] = "idle"
Follows(s, y) ==
  /\ y.session = s.session /\ s.flags \subseteq y.flags /\ y.pending_connect = s.pending_connect
  /\ y.pending_write = s.pending_write /\ (y.pending_read # NoOne => y.rq = <<>>)
\* At most a packet for socket i is taken.
Took(r, w, i) == w = r \/ (r # <<>> /\ w = Tail(r) /\ Head(r).id = i)
MovesOn(r, st, d, e, w, i, n, y, R, G) ==
  /\ Moves(d, e, i, n, y, R) /\ Follows(d.socket[i], y) /\ InPlace(n, y.rq, R) /\ Took(r, w, i)
  /\ n \in d.eosRead => Len(R) = st[n].sent
  /\ G \in Nat /\ Total(y.rq, R) = G
  /\ "RCVD_EOS_FROM_RPI" \in y.flags => st[n].ended /\ G = st[n].sent
  /\ \A z \in 0..st[n].sent : Due(Got(d, n, i), n, i, r, st[n], z) => Due(G, n, i, w, st[n], z)
LEMMA Receives ==
  ASSUME NEW g, NEW p, NEW r, NEW b, NEW st, NEW d, Drives(g, p, r, b, st, d),
         NEW i \in DOMAIN d.socket, ~Device!Closed(d.socket[i]),
         NEW n \in Sessions, d.socket[i].session = n,
         NEW y, NEW R, NEW e, Typed(e), NEW w, NEW G, MovesOn(r, st, d, e, w, i, n, y, R, G)
  PROVE  Drives(g, p, w, b, st, e)
<1>0. /\ Moves(d, e, i, n, y, R) /\ Follows(d.socket[i], y) /\ InPlace(n, y.rq, R) /\ Took(r, w, i)
      /\ n \in d.eosRead => Len(R) = st[n].sent
      /\ G \in Nat /\ Total(y.rq, R) = G
      /\ "RCVD_EOS_FROM_RPI" \in y.flags => st[n].ended /\ G = st[n].sent
      /\ \A z \in 0..st[n].sent : Due(Got(d, n, i), n, i, r, st[n], z) => Due(G, n, i, w, st[n], z)
  BY DEF MovesOn
<1>1. /\ d \in DriverStates /\ n \in Sessions /\ g.id[n] = i /\ i \in Ids /\ Ready(d)
      /\ st \in [Sessions -> StreamTypes]
  BY DrivesTypes DEF Order
<1>2. d.socket = [j \in DOMAIN d.socket |-> d.socket[j]] /\ d.read \in [Sessions -> Seq(Items)]
  BY <1>0, <1>1, MapsOfSockets DEF DriverStates
<1>3. /\ DOMAIN e.socket = DOMAIN d.socket /\ e.socket[i] = y /\ e.read[n] = R
      /\ \A j \in DOMAIN d.socket : j # i => e.socket[j] = d.socket[j]
      /\ \A k \in Sessions \ {n} : e.read[k] = d.read[k]
  BY <1>0, <1>1, <1>2 DEF Moves
<1>4. Keeps(d, e, n)
  <2>1. ASSUME NEW j \in DOMAIN e.socket PROVE Stays(d, e, j, n)
    <3>1. CASE j = i
      BY <1>0, <1>3, <3>1 DEF Stays, Follows, Moves
    <3>2. CASE j # i
      BY <1>0, <1>3, <2>1, <3>2 DEF Stays, Moves
    <3>3. QED
      BY <1>0, <3>1, <3>2
  <2>2. \A k \in Sessions \ {n} : Same(d, e, k)
    BY <1>0, <1>3 DEF Same, Moves
  <2>3. QED
    BY <1>0, <1>3, <2>1, <2>2 DEF Keeps, Moves
<1>5. Ready(e)
  <2>1. ASSUME NEW j \in DOMAIN e.socket PROVE ReadyOf(e, e.socket[j])
    <3>1. ReadyOf(d, d.socket[j])
      BY <1>0, <1>1, <1>3 DEF Ready
    <3>2. CASE j = i
      BY <1>0, <1>3, <3>1, <3>2 DEF ReadyOf, Follows, Moves
    <3>3. CASE j # i
      BY <1>0, <1>3, <2>1, <3>1, <3>3 DEF ReadyOf, Moves
    <3>4. QED
      BY <1>0, <3>2, <3>3
  <2>2. QED
    BY <1>0, <2>1 DEF Ready
<1>6. Up(g, n, p, d, r, b, st)
  BY <1>0, <1>1, DrivesTypes DEF Order
<1>7. UpOpen(g, n, p, d, r, b, st[n])
  BY <1>0, <1>1, <1>6 DEF Up, Open, Device!Closed
<1>8. Got(e, n, i) = G
  BY <1>0, <1>3 DEF Got, Total
<1>9. UpOpen(g, n, p, e, w, b, st[n])
  <2>1. PICK z1, z2, z3 \in 0..st[n].sent : UpTo(g, n, p, d, r, b, st[n], z1, z2, z3)
    BY <1>0, <1>7 DEF UpOpen
  <2>2. Due(Got(d, n, i), n, i, r, st[n], z1)
    BY <1>0, <1>1, <2>1 DEF UpTo, Due
  <2>3. Due(G, n, i, w, st[n], z1)
    BY <1>0, <2>2
  <2>4. UpTo(g, n, p, e, w, b, st[n], z1, z2, z3)
    BY <1>0, <1>1, <1>8, <2>1, <2>3 DEF UpTo, Due
  <2>5. QED
    BY <1>0, <1>1, <1>3, <1>8, <2>4 DEF UpOpen, InPlace
<1>10. Up(g, n, p, e, w, b, st)
  BY <1>0, <1>1, <1>3, <1>6, <1>9 DEF Up, InPlace, Moves
<1>11. QED
  BY <1>0, <1>4, <1>5, <1>10, Inbound DEF Moves, Took

(***************************************************************************)
(* A request is replied to with EOS (ReplyEos, sockets.c): the application *)
(* has read all that was sent.                                             *)
(***************************************************************************)
Told(d, q, i) == [Device!ReplyMsg(d, q, "EOS") EXCEPT !.eosRead = @ \union {d.socket[i].session}]
LEMMA ToldIs ==
  ASSUME NEW d \in DriverStates, NEW q \in Requests, NEW i \in DOMAIN d.socket
  PROVE  /\ Device!ReplyEos(d, q, i) = Device!SetEosFlag(Told(d, q, i), i, "SENT_EOS_TO_APP")
         /\ LET e == Told(d, q, i)
                n == d.socket[i].session IN
            /\ e.socket = d.socket /\ e.send_queue = d.send_queue /\ e.read = d.read
            /\ e.eosRead = d.eosRead \union {n} /\ e.eosWritten = d.eosWritten
            /\ e.io = [d.io EXCEPT ![q] = "EOS"] /\ e.written = d.written /\ e.a2r = d.a2r
  BY DEF Told, Device!ReplyEos, Device!ReplyMsg, DriverStates
\* ReplyEos (a314driver.c): a read is told that no more comes when all is read.
LEMMA ReplyEosOrder ==
  ASSUME NEW g, NEW p, NEW r, NEW b, NEW st, NEW d, Drives(g, p, r, b, st, d),
         NEW q \in Requests, NEW i \in DOMAIN d.socket, ~Device!Closed(d.socket[i]),
         d.socket[i].rq = <<>>, "RCVD_EOS_FROM_RPI" \in d.socket[i].flags
  PROVE  Drives(g, p, r, b, st, Device!ReplyEos(d, q, i))
<1> DEFINE e == Told(d, q, i)
           n == d.socket[i].session
<1>1. /\ d \in DriverStates /\ Typed(d) /\ Ready(d) /\ n \in Sessions /\ g.id[n] = i
      /\ d.io \in [Requests -> Replies] /\ d.read \in [Sessions -> Seq(Items)]
  BY DrivesTypes DEF Order, DriverStates
<1>2. /\ Device!ReplyEos(d, q, i) = Device!SetEosFlag(e, i, "SENT_EOS_TO_APP")
      /\ e.socket = d.socket /\ e.send_queue = d.send_queue /\ e.read = d.read
      /\ e.eosRead = d.eosRead \union {n} /\ e.eosWritten = d.eosWritten
      /\ e.io = [d.io EXCEPT ![q] = "EOS"] /\ e.written = d.written /\ e.a2r = d.a2r
  BY <1>1, ToldIs
<1>3. Typed(e)
  <2> DEFINE c == Device!ReplyMsg(d, q, "EOS")
  <2>1. Typed(c)
    BY <1>1, ReplyWrites DEF Replies
  <2>2. e = [c EXCEPT !.eosRead = @ \union {n}]
    BY DEF Told
  <2> HIDE DEF c, e
  <2>3. QED
    BY <1>1, <2>1, <2>2, CountWrites, ItemTypes
<1> HIDE DEF e
<1>4. /\ st[n].ended /\ Got(d, n, i) = st[n].sent /\ Got(d, n, i) = Total(d.socket[i].rq, d.read[n])
      /\ InPlace(n, d.socket[i].rq, d.read[n])
  <2>1. Sees(g, r, st, d, i, n)
    BY OpenIs
  <2>2. QED
    BY <2>1 DEF Sees
<1>5. Len(d.read[n]) = st[n].sent
  <2>1. \A q1, R : q1 = <<>> /\ InPlace(n, q1, R) => Total(q1, R) = Len(R)
    BY DEF InPlace, Total
  <2>2. QED
    BY <1>4, <2>1
<1>6. Keeps(d, e, n) /\ Ready(e)
  <2>1. \A k \in Sessions : e.io[k] = "idle" => d.io[k] = "idle"
    BY <1>1, <1>2, RequestKinds
  <2>2. QED
    BY <1>1, <1>2, <2>1 DEF Keeps, Same, Stays, Ready, ReadyOf
<1>7. Up(g, n, p, d, r, b, st)
  BY <1>1, DrivesTypes DEF Order
<1>8. Open(d, g.id[n]) => UpOpen(g, n, p, d, r, b, st[n])
  BY <1>7 DEF Up
<1>9. Open(e, g.id[n]) => UpOpen(g, n, p, e, r, b, st[n])
  <2>1. Got(e, n, i) = Got(d, n, i)
    BY <1>2 DEF Got
  <2>2. \A z1, z2, z3 : UpTo(g, n, p, d, r, b, st[n], z1, z2, z3) => UpTo(g, n, p, e, r, b, st[n], z1, z2, z3)
    BY <1>1, <2>1 DEF UpTo
  <2>3. QED
    BY <1>1, <1>2, <1>8, <2>1, <2>2 DEF UpOpen, Open
<1>10. Up(g, n, p, e, r, b, st)
  BY <1>2, <1>4, <1>5, <1>7, <1>9 DEF Up
<1>11. Drives(g, p, r, b, st, e)
  BY <1>2, <1>3, <1>6, <1>10, Inbound
<1>12. QED
  BY <1>2, <1>11, SetEosFlagOrder

\* A request is replied to with data, and data waits in a socket.
Replied(d, q, i, x, e) ==
  LET n == d.socket[i].session IN
  /\ e.socket = d.socket /\ e.send_queue = d.send_queue /\ e.eosRead = d.eosRead
  /\ e.eosWritten = d.eosWritten /\ e.io = [d.io EXCEPT ![q] = "OK"] /\ e.written = d.written
  /\ e.a2r = d.a2r /\ e.read = [d.read EXCEPT ![n] = Append(d.read[n], x)]
LEMMA ReplyDataIs ==
  ASSUME NEW d \in DriverStates, NEW q \in Requests, NEW i \in DOMAIN d.socket, NEW x
  PROVE  Replied(d, q, i, x, Device!ReplyData(d, q, i, x))
  BY DEF Replied, Device!ReplyData, Device!ReplyMsg, DriverStates
Filled(d, i, x) == [d EXCEPT !.socket[i].rq = x]
Fills(d, i, x, e) ==
  /\ e.socket = [d.socket EXCEPT ![i] = [d.socket[i] EXCEPT !.rq = x]]
  /\ e.send_queue = d.send_queue /\ e.eosRead = d.eosRead
  /\ e.eosWritten = d.eosWritten /\ e.io = d.io /\ e.written = d.written
  /\ e.a2r = d.a2r /\ e.read = d.read
\* Data that nobody reads yet waits in the socket.
LEMMA FilledIs ==
  ASSUME NEW d \in DriverStates, NEW i \in DOMAIN d.socket, NEW x
  PROVE  Fills(d, i, x, Filled(d, i, x))
  BY DEF Fills, Filled, DriverStates

(***************************************************************************)
(* A read takes what waits in the socket (handle_app_read).                *)
(***************************************************************************)
LEMMA TakenOrder ==
  ASSUME NEW g, NEW p, NEW r, NEW b, NEW st, NEW d, Drives(g, p, r, b, st, d),
         NEW q \in Requests, NEW i \in DOMAIN d.socket, ~Device!Closed(d.socket[i]),
         d.socket[i].rq # <<>>, d.socket[i].pending_read = NoOne
  PROVE  Drives(g, p, r, b, st, Filled(Device!ReplyData(d, q, i, Head(d.socket[i].rq)), i, Tail(d.socket[i].rq)))
<1> DEFINE s == d.socket[i]
           x == Head(s.rq)
           c == Device!ReplyData(d, q, i, x)
           e == Filled(c, i, Tail(s.rq))
           n == s.session
           y == [s EXCEPT !.rq = Tail(s.rq)]
           R == Append(d.read[n], x)
           G == Got(d, n, i)
<1>1. /\ d \in DriverStates /\ Typed(d) /\ n \in Sessions /\ g.id[n] = i
      /\ d.io \in [Requests -> Replies] /\ s \in SocketType
  BY DrivesTypes, SocketFields DEF DriverStates
<1>2. Sees(g, r, st, d, i, n)
  BY OpenIs
<1>3. InPlace(n, s.rq, d.read[n]) /\ G = Total(s.rq, d.read[n]) /\ G \in Nat
  BY <1>2 DEF Sees
<1> HIDE DEF x, e, y, R, G
<1>4. /\ InPlace(n, Tail(s.rq), R) /\ Total(Tail(s.rq), R) = G
      /\ Len(d.read[n]) < G /\ x \in Items
  BY <1>3, TakesInPlace DEF R, x
<1>5. Typed(c) /\ c.socket = d.socket
  BY <1>1, <1>4, DataReplied
<1>6. c \in DriverStates
  BY <1>5 DEF Typed
<1>7. /\ c.send_queue = d.send_queue /\ c.eosRead = d.eosRead
      /\ c.eosWritten = d.eosWritten /\ c.io = [d.io EXCEPT ![q] = "OK"] /\ c.written = d.written
      /\ c.a2r = d.a2r /\ c.read = [d.read EXCEPT ![n] = R]
  <2>1. Replied(d, q, i, x, c)
    BY <1>1, ReplyDataIs
  <2> HIDE DEF c
  <2>2. QED
    BY <2>1 DEF R, Replied
<1> HIDE DEF c
<1>8. /\ e.socket = [c.socket EXCEPT ![i] = [c.socket[i] EXCEPT !.rq = Tail(s.rq)]]
      /\ e.send_queue = c.send_queue /\ e.eosRead = c.eosRead
      /\ e.eosWritten = c.eosWritten /\ e.io = c.io /\ e.written = c.written
      /\ e.a2r = c.a2r /\ e.read = c.read
  <2>1. Fills(c, i, Tail(s.rq), e)
    BY <1>5, <1>6, FilledIs DEF e
  <2>2. QED
    BY <2>1 DEF Fills
<1>9. Typed(e)
  BY <1>4, <1>5, DataWaits DEF InPlace, e, Filled, Alike
<1>10. /\ y.flags = s.flags /\ y.rq = Tail(s.rq) /\ y.session = s.session
       /\ y.pending_connect = s.pending_connect /\ y.pending_read = s.pending_read
       /\ y.pending_write = s.pending_write
  BY <1>1, FieldsStay DEF y
<1>11. Moves(d, e, i, n, y, R)
  <2>1. \A k \in Sessions : e.io[k] = "idle" => d.io[k] = "idle"
    BY <1>1, <1>7, <1>8, RequestKinds
  <2>2. e.socket = [d.socket EXCEPT ![i] = y]
    BY <1>5, <1>8 DEF y
  <2>3. QED
    BY <1>7, <1>8, <2>1, <2>2 DEF Moves
<1>12. Follows(s, y)
  BY <1>10 DEF Follows
<1>13. InPlace(n, y.rq, R) /\ G = Total(y.rq, R)
  BY <1>4, <1>10
<1>14. n \notin d.eosRead
  <2> DEFINE N == Len(d.read[n])
             M == st[n].sent
  <2>1. /\ N < G /\ M \in Nat /\ \E z1 \in 0..M : Due(G, n, i, r, st[n], z1)
        /\ n \in d.eosRead => N = M
    BY <1>2, <1>4 DEF Sees, G
  <2> HIDE DEF N, M
  <2>2. PICK z \in 0..M : G <= z
    BY <2>1 DEF Due
  <2>3. QED
    BY <1>3, <2>1, <2>2
<1>15. "RCVD_EOS_FROM_RPI" \in y.flags => st[n].ended /\ G = st[n].sent
  BY <1>2, <1>10 DEF Sees, G
<1>16. Drives(g, p, r, b, st, e)
  <2>1. Took(r, r, i)
    BY DEF Took
  <2>2. \A z \in 0..st[n].sent : Due(Got(d, n, i), n, i, r, st[n], z) => Due(G, n, i, r, st[n], z)
    BY DEF G
  <2>3. n \in d.eosRead => Len(R) = st[n].sent
    BY <1>14
  <2>4. MovesOn(r, st, d, e, r, i, n, y, R, G)
    BY <1>3, <1>11, <1>12, <1>13, <1>15, <2>1, <2>2, <2>3 DEF MovesOn
  <2>5. QED
    BY <1>1, <1>9, <2>4, Receives
<1>17. QED
  BY <1>16 DEF e, c, x

(***************************************************************************)
(* The next packet for an open socket is the next item of its session.     *)
(***************************************************************************)
Comes(g, r, st, d, i, n) ==
  /\ i \in DOMAIN d.socket /\ ~Device!Closed(d.socket[i]) /\ n = d.socket[i].session
  /\ Head(r).data \in Items /\ Head(r).data = Item(n, Got(d, n, i) + 1)
  /\ Got(d, n, i) < st[n].sent
  /\ \A z \in 0..st[n].sent : Due(Got(d, n, i), n, i, r, st[n], z) =>
                                Due(Got(d, n, i) + 1, n, i, Tail(r), st[n], z)
  /\ "RCVD_EOS_FROM_RPI" \notin d.socket[i].flags /\ n \notin d.eosRead
LEMMA ItemComes ==
  ASSUME NEW g, NEW p, NEW r, NEW b, NEW st, NEW d, Drives(g, p, r, b, st, d), r # <<>>,
         Head(r).type = "DATA", NEW i \in DOMAIN d.socket, Head(r).id = i, Open(d, i)
  PROVE  Comes(g, r, st, d, i, d.socket[i].session)
<1> DEFINE n == d.socket[i].session
           G == Got(d, n, i)
           S == st[n].sent
           N == Len(d.read[n])
<1>1. i \in DOMAIN d.socket /\ ~Device!Closed(d.socket[i])
  BY DEF Open, Device!Closed
<1>2. Sees(g, r, st, d, i, n)
  BY <1>1, OpenIs
<1>3. /\ g \in Paths /\ Apart(g) /\ PacketsRouted(g, r) /\ r \in Seq(PiPackets)
  BY DrivesTypes DEF Order
<1>4. Head(r) \in Elems(r) /\ Head(r) \in PiPackets
  BY <1>3, TailLeaves
<1>5. Head(r).data.session \in Sessions /\ g.id[Head(r).data.session] = i /\ Head(r).data \in Items
  <2> DEFINE m == Head(r)
  <2>1. m \in Elems(r) /\ m \in PiPackets /\ m.type = "DATA" /\ m.id = i
    BY <1>4
  <2> HIDE DEF m
  <2>2. m.data.session \in Sessions /\ g.id[m.data.session] = m.id
    BY <1>3, <2>1 DEF PacketsRouted
  <2>3. m.data \in Items
    BY <2>1 DEF PiPackets
  <2>4. QED
    BY <2>1, <2>2, <2>3 DEF m
<1>6. n \in Sessions /\ g.id[n] = i /\ i # 0
  <2>1. n \in Sessions /\ g.id[n] = i /\ i \in Ids
    BY <1>2 DEF Sees
  <2>2. i # 0
    BY <2>1, IdAssumption DEF Ids
  <2>3. QED
    BY <2>1, <2>2
<1>7. Head(r).data.session = n
  BY <1>3, <1>5, <1>6 DEF Apart
<1>8. IsItem(Head(r), n)
  BY <1>7 DEF IsItem
<1>9. /\ G \in Nat /\ S \in Nat /\ \E z1 \in 0..S : Due(G, n, i, r, st[n], z1)
      /\ "RCVD_EOS_FROM_RPI" \in d.socket[i].flags => G = S
      /\ n \in d.eosRead => N = S
      /\ G = Total(d.socket[i].rq, d.read[n]) /\ InPlace(n, d.socket[i].rq, d.read[n])
  BY <1>2 DEF Sees
<1>10. N <= G
  <2>1. \A q, R : InPlace(n, q, R) => Len(R) <= Total(q, R)
    BY DEF InPlace, Total
  <2>2. QED
    BY <1>9, <2>1
<1> HIDE DEF n
<1>11. \A z \in 0..S : Due(G, n, i, r, st[n], z) =>
         /\ Head(r).data.number = G + 1 /\ G < S
         /\ Due(G + 1, n, i, Tail(r), st[n], z)
  BY <1>3, <1>8, <1>9, DueItem
<1>12. Head(r).data.number = G + 1 /\ G < S
  BY <1>9, <1>11
<1>13. "RCVD_EOS_FROM_RPI" \notin d.socket[i].flags /\ n \notin d.eosRead
  <2>1. N \in Nat
    BY <1>9 DEF InPlace
  <2> HIDE DEF N, G, S
  <2>2. QED
    BY <1>9, <1>10, <1>12, <2>1
<1>14. Head(r).data = Item(n, G + 1)
  BY <1>5, <1>7, <1>12, NumberedItem
<1>15. QED
  BY <1>1, <1>5, <1>11, <1>12, <1>13, <1>14 DEF Comes, n

\* A closed socket is open no more.
LEMMA ClosedNow ==
  ASSUME NEW d \in DriverStates, NEW i \in DOMAIN d.socket, NEW z \in BOOLEAN
  PROVE  ~Open(Device!close_socket(d, i, z), i)
<1> DEFINE s == d.socket[i]
           held == Device!Pending(s)
           e == Device!remove_from_send_queue(
                  [d EXCEPT !.io = [q \in Device!Requests |-> IF q \in held THEN "RESET" ELSE @[q]]], i)
           closed == [s EXCEPT !.pending_connect = NoOne, !.pending_read = NoOne,
                               !.pending_write = NoOne, !.rq = <<>>,
                               !.flags = @ \union {"CLOSED", "SHOULD_SEND_RESET"}]
           t == Device!append_a2r_packet(e, "RESET", i, Device!Nothing)
           f == [e EXCEPT !.socket[i] = closed]
<1>1. /\ d.socket[i] \in SocketType /\ d.socket \in SocketMaps
  BY MapsOfSockets, SocketFields DEF DriverStates
<1>2. e.socket = d.socket
  BY DEF Device!remove_from_send_queue, DriverStates
<1>3. "CLOSED" \in closed.flags
  BY <1>1 DEF SocketType
<1>4. \A v : i \notin DOMAIN Device!delete_socket([e EXCEPT !.a2r = v], i).socket
  BY DEF Device!delete_socket, Device!Drop, Device!remove_from_send_queue, DriverStates
<1>5. i \notin DOMAIN Device!delete_socket(e, i).socket
  BY DEF Device!delete_socket, Device!Drop, Device!remove_from_send_queue, DriverStates
<1>6. i \notin DOMAIN Device!delete_socket(t, i).socket
  BY <1>4 DEF Device!append_a2r_packet
<1>7. Device!add_to_send_queue(f, i).socket[i] = closed
  BY <1>1, MapsOfSockets DEF Device!add_to_send_queue, Device!remove_from_send_queue, DriverStates
<1>8. Device!close_socket(d, i, z) \in
        {Device!delete_socket(e, i), Device!delete_socket(t, i), Device!add_to_send_queue(f, i)}
  BY DEF Device!close_socket
<1>9. QED
  BY <1>3, <1>5, <1>6, <1>7, <1>8 DEF Open

(***************************************************************************)
(* DATA comes for an open socket (handle_pkt_data): it waits there, or the *)
(* pending read returns it; a buffer that is too small closes the socket.  *)
(***************************************************************************)
LEMMA DataWaitsOrder ==
  ASSUME NEW g, NEW p, NEW r, NEW b, NEW st, NEW d, Drives(g, p, r, b, st, d), r # <<>>,
         Head(r).type = "DATA", NEW i \in DOMAIN d.socket, Head(r).id = i, Open(d, i), d.socket[i].pending_read = NoOne
  PROVE  Drives(g, p, Tail(r), b, st, Filled(d, i, Append(d.socket[i].rq, Head(r).data)))
<1> DEFINE s == d.socket[i]
           x == Head(r).data
           q == Append(s.rq, x)
           e == Filled(d, i, q)
           n == s.session
           y == [s EXCEPT !.rq = q]
           R == d.read[n]
           G == Got(d, n, i)
           H == G + 1
           w == Tail(r)
<1>1. /\ d \in DriverStates /\ Typed(d) /\ i \in DOMAIN d.socket /\ ~Device!Closed(s)
  BY DrivesTypes DEF Open, Device!Closed
<1>2. /\ n \in Sessions /\ g.id[n] = i /\ s \in SocketType /\ R \in Seq(Items)
      /\ d.read \in [Sessions -> Seq(Items)]
  BY <1>1, DrivesTypes, SocketFields DEF DriverStates
<1>3. Sees(g, r, st, d, i, n) /\ Comes(g, r, st, d, i, n)
  BY <1>1, OpenIs, ItemComes
<1> HIDE DEF x, e, y, q, G, H, w
<1>4. /\ InPlace(n, s.rq, R) /\ G = Total(s.rq, R) /\ G \in Nat /\ x \in Items /\ x = Item(n, H)
      /\ n \notin d.eosRead /\ "RCVD_EOS_FROM_RPI" \notin s.flags
  BY <1>3 DEF Sees, Comes, x, G, H
<1>12. \A z \in 0..st[n].sent : Due(G, n, i, r, st[n], z) => Due(H, n, i, w, st[n], z)
  BY <1>3 DEF Comes, G, H, w
<1>5. InPlace(n, q, R) /\ Total(q, R) = H /\ H \in Nat
  BY <1>4, AddsInPlace DEF q, H
<1>6. Typed(e)
  BY <1>1, <1>5, DataWaits DEF InPlace, e, Filled, Alike
<1>7. Fills(d, i, q, e)
  BY <1>1, FilledIs DEF e
<1>8. /\ y.flags = s.flags /\ y.rq = q /\ y.session = s.session
      /\ y.pending_connect = s.pending_connect /\ y.pending_read = s.pending_read
      /\ y.pending_write = s.pending_write
  BY <1>2, FieldsStay DEF y
<1>9. Moves(d, e, i, n, y, R)
  <2>1. d.read = [d.read EXCEPT ![n] = R]
    BY <1>2
  <2>2. QED
    BY <1>7, <2>1 DEF Moves, Fills, y
<1>10. Follows(s, y)
  BY <1>8 DEF Follows
<1>13. Drives(g, p, w, b, st, e)
  <2>1. Took(r, w, i)
    BY DEF w, Took
  <2>2. /\ "RCVD_EOS_FROM_RPI" \in y.flags => st[n].ended /\ H = st[n].sent
        /\ n \in d.eosRead => Len(R) = st[n].sent
        /\ InPlace(n, y.rq, R) /\ Total(y.rq, R) = H /\ H \in Nat
    BY <1>4, <1>5, <1>8
  <2> HIDE DEF R
  <2>3. \A z \in 0..st[n].sent : Due(Got(d, n, i), n, i, r, st[n], z) => Due(H, n, i, w, st[n], z)
    BY <1>12 DEF G
  <2>4. MovesOn(r, st, d, e, w, i, n, y, R, H)
    BY <1>9, <1>10, <2>1, <2>2, <2>3 DEF MovesOn
  <2>5. QED
    BY <1>1, <1>2, <1>6, <2>4, Receives
<1>11. QED
  BY <1>13 DEF e, q, x, w
\* handle_pkt_data (a314driver.c), when a read waits: it gets the data.
LEMMA DataReadOrder ==
  ASSUME NEW g, NEW p, NEW r, NEW b, NEW st, NEW d, Drives(g, p, r, b, st, d), r # <<>>,
         Head(r).type = "DATA", NEW i \in DOMAIN d.socket, Head(r).id = i, Open(d, i),
         NEW q \in Requests, d.socket[i].pending_read = q
  PROVE  Drives(g, p, Tail(r), b, st, Reading(Device!ReplyData(d, q, i, Head(r).data), i, NoOne))
<1> DEFINE s == d.socket[i]
           x == Head(r).data
           c == Device!ReplyData(d, q, i, x)
           e == Reading(c, i, NoOne)
           n == s.session
           y == [s EXCEPT !.pending_read = NoOne]
           R == Append(d.read[n], x)
           G == Got(d, n, i)
           H == G + 1
           w == Tail(r)
<1>1. /\ d \in DriverStates /\ Typed(d) /\ i \in DOMAIN d.socket /\ ~Device!Closed(s)
  BY DrivesTypes DEF Open, Device!Closed
<1>2. /\ n \in Sessions /\ g.id[n] = i /\ s \in SocketType /\ q \in Requests /\ s.rq = <<>>
      /\ d.io \in [Requests -> Replies]
  BY <1>1, DrivesTypes, SocketFields, RequestKinds DEF DriverStates, ReadyOf
<1>3. Sees(g, r, st, d, i, n) /\ Comes(g, r, st, d, i, n)
  BY <1>1, OpenIs, ItemComes
<1> HIDE DEF x, e, y, R, G, H, w
<1>4. /\ InPlace(n, s.rq, d.read[n]) /\ G = Total(s.rq, d.read[n]) /\ G \in Nat
      /\ x \in Items /\ x = Item(n, H)
      /\ n \notin d.eosRead /\ "RCVD_EOS_FROM_RPI" \notin s.flags
  BY <1>3 DEF Sees, Comes, x, G, H
<1>15. \A z \in 0..st[n].sent : Due(G, n, i, r, st[n], z) => Due(H, n, i, w, st[n], z)
  BY <1>3 DEF Comes, G, H, w
<1>5. InPlace(n, s.rq, R) /\ Total(s.rq, R) = H /\ H \in Nat
  BY <1>2, <1>4, GivesInPlace DEF R, H
<1>17. Typed(d) /\ q \in Requests /\ i \in DOMAIN d.socket /\ x \in Items
  BY <1>1, <1>2, <1>4
<1>6. Typed(c) /\ c.socket = d.socket
  BY <1>17, DataReplied
<1>7. c \in DriverStates
  BY <1>6 DEF Typed
<1>8. Replied(d, q, i, x, c)
  BY <1>1, <1>2, ReplyDataIs
<1> HIDE DEF c
<1>9. Typed(e)
  BY <1>1, <1>6, ReadChanges DEF e, Reading
<1>10. /\ e.socket = [c.socket EXCEPT ![i] = [c.socket[i] EXCEPT !.pending_read = NoOne]]
       /\ e.send_queue = c.send_queue /\ e.eosRead = c.eosRead
       /\ e.eosWritten = c.eosWritten /\ e.io = c.io /\ e.written = c.written
       /\ e.a2r = c.a2r /\ e.read = c.read
  BY <1>6, <1>7 DEF e, Reading, DriverStates
<1>11. /\ y.flags = s.flags /\ y.rq = s.rq /\ y.session = s.session
       /\ y.pending_connect = s.pending_connect /\ y.pending_read = NoOne
       /\ y.pending_write = s.pending_write
  BY <1>2, FieldsStay DEF y
<1>12. Moves(d, e, i, n, y, R)
  <2>1. e.io = [d.io EXCEPT ![q] = "OK"]
    BY <1>8, <1>10 DEF Replied
  <2>4. \A k \in Sessions : e.io[k] = "idle" => d.io[k] = "idle"
    BY <1>2, <2>1, RequestKinds
  <2>2. e.socket = [d.socket EXCEPT ![i] = y]
    BY <1>6, <1>10 DEF y
  <2>3. QED
    BY <1>8, <1>10, <2>4, <2>2 DEF Moves, Replied, R
<1>13. Follows(s, y)
  BY <1>11 DEF Follows
<1>16. Drives(g, p, w, b, st, e)
  <2>1. Took(r, w, i)
    BY DEF w, Took
  <2>2. /\ "RCVD_EOS_FROM_RPI" \in y.flags => st[n].ended /\ H = st[n].sent
        /\ n \in d.eosRead => Len(R) = st[n].sent
        /\ InPlace(n, y.rq, R) /\ Total(y.rq, R) = H /\ H \in Nat
    BY <1>4, <1>5, <1>11
  <2>3. \A z \in 0..st[n].sent : Due(Got(d, n, i), n, i, r, st[n], z) => Due(H, n, i, w, st[n], z)
    BY <1>15 DEF G
  <2>4. MovesOn(r, st, d, e, w, i, n, y, R, H)
    BY <1>12, <1>13, <2>1, <2>2, <2>3 DEF MovesOn
  <2>5. QED
    BY <1>1, <1>2, <1>9, <2>4, Receives
<1>14. QED
  BY <1>16 DEF e, c, x, w
\* handle_pkt_data (a314driver.c), in either case.
LEMMA DataOrder ==
  ASSUME NEW g, NEW p, NEW r, NEW b, NEW st, NEW d, Drives(g, p, r, b, st, d), r # <<>>,
         Head(r).type = "DATA", NEW i \in DOMAIN d.socket, Head(r).id = i, Open(d, i)
  PROVE  Drives(g, p, Tail(r), b, st, Device!handle_pkt_data(d, i, Head(r).data))
<1> DEFINE q == d.socket[i].pending_read
           e == Device!handle_pkt_data(d, i, Head(r).data)
<1>1. i \in DOMAIN d.socket /\ d \in DriverStates
  BY DrivesTypes DEF Open
<1>2. CASE q = NoOne
  <2>1. e = Filled(d, i, Append(d.socket[i].rq, Head(r).data))
    BY <1>1, <1>2 DEF Device!handle_pkt_data, Filled, DriverStates
  <2>2. QED
    BY <1>2, <2>1, DataWaitsOrder
<1>3. CASE q # NoOne /\ q.op = "SHORT"
  <2>1. e = Device!close_socket(d, i, TRUE)
    BY <1>3 DEF Device!handle_pkt_data
  <2> HIDE DEF e
  <2>2. Drives(g, p, r, b, st, e)
    BY <1>1, <2>1, CloseOrder
  <2>3. ~Open(e, i)
    BY <1>1, <2>1, ClosedNow
  <2>4. Drives(g, p, Tail(r), b, st, e)
    BY <2>2, <2>3, TakeOrder
  <2>5. QED
    BY <2>4 DEF e
<1>4. CASE q # NoOne /\ q.op # "SHORT"
  <2>1. e = Reading(Device!ReplyData(d, q, i, Head(r).data), i, NoOne)
    BY <1>4 DEF Device!handle_pkt_data, Reading
  <2>2. q \in Requests
    BY <1>1, <1>4, DrivesTypes, SocketFields, RequestKinds
  <2>3. QED
    BY <1>4, <2>1, <2>2, DataReadOrder
<1>5. QED
  BY <1>2, <1>3, <1>4

(***************************************************************************)
(* EOS comes for an open socket (handle_pkt_eos): nothing comes after it.  *)
(***************************************************************************)
Ends(d, i) == Reading(Flagged(d, i, "RCVD_EOS_FROM_RPI"), i, NoOne)
EndsAs(d, i, y, e) ==
  /\ e.socket = [d.socket EXCEPT ![i] = y]
  /\ e.send_queue = d.send_queue /\ e.eosRead = d.eosRead
  /\ e.eosWritten = d.eosWritten /\ e.io = d.io /\ e.written = d.written
  /\ e.a2r = d.a2r /\ e.read = d.read
  /\ y.flags = d.socket[i].flags \union {"RCVD_EOS_FROM_RPI"} /\ y.rq = d.socket[i].rq
  /\ y.session = d.socket[i].session /\ y.pending_connect = d.socket[i].pending_connect
  /\ y.pending_read = NoOne /\ y.pending_write = d.socket[i].pending_write
LEMMA EndsIs ==
  ASSUME NEW d \in DriverStates, NEW i \in DOMAIN d.socket, d.socket[i] \in SocketType
  PROVE  \E y : EndsAs(d, i, y, Ends(d, i))
<1> DEFINE s == d.socket[i]
           f == [s EXCEPT !.flags = s.flags \union {"RCVD_EOS_FROM_RPI"}]
           y == [f EXCEPT !.pending_read = NoOne]
           c == Flagged(d, i, "RCVD_EOS_FROM_RPI")
<1>1. /\ DOMAIN c.socket = DOMAIN d.socket
      /\ c.socket = [d.socket EXCEPT ![i] = f] /\ c.send_queue = d.send_queue /\ c.eosRead = d.eosRead
      /\ c.eosWritten = d.eosWritten /\ c.io = d.io /\ c.written = d.written
      /\ c.a2r = d.a2r /\ c.read = d.read /\ c \in [DOMAIN d -> UNION {{c[x]} : x \in DOMAIN d}]
      /\ DOMAIN d = {"socket", "send_queue", "next_stream_id", "io", "read", "eosRead", "written", "eosWritten", "a2r"}
  BY DEF Flagged, DriverStates
<1>2. c.socket[i] = f
  BY <1>1
<1>3. f \in SocketType
  BY DEF SocketType, Flags
<1> HIDE DEF c
<1>4. LET e == Reading(c, i, NoOne) IN
      /\ e.socket = [c.socket EXCEPT ![i] = [c.socket[i] EXCEPT !.pending_read = NoOne]]
      /\ e.send_queue = c.send_queue /\ e.eosRead = c.eosRead
      /\ e.eosWritten = c.eosWritten /\ e.io = c.io /\ e.written = c.written
      /\ e.a2r = c.a2r /\ e.read = c.read
  BY <1>1 DEF Reading
<1>5. /\ y.flags = f.flags /\ y.rq = f.rq /\ y.session = f.session
      /\ y.pending_connect = f.pending_connect /\ y.pending_read = NoOne
      /\ y.pending_write = f.pending_write
  BY <1>3, FieldsStay
<1>6. /\ f.flags = s.flags \union {"RCVD_EOS_FROM_RPI"} /\ f.rq = s.rq /\ f.session = s.session
      /\ f.pending_connect = s.pending_connect /\ f.pending_read = s.pending_read
      /\ f.pending_write = s.pending_write
  BY FieldsStay
<1> HIDE DEF f
<1>7. [c.socket EXCEPT ![i] = y] = [d.socket EXCEPT ![i] = y]
  BY <1>1
<1> HIDE DEF y
<1>8. EndsAs(d, i, y, Ends(d, i))
  BY <1>1, <1>2, <1>4, <1>5, <1>6, <1>7 DEF EndsAs, Ends, c, y
<1>9. QED
  BY <1>8
\* EOS is noted in the socket, and its read waits no more.
LEMMA EndsOrder ==
  ASSUME NEW g, NEW p, NEW r, NEW b, NEW st, NEW d, Drives(g, p, r, b, st, d), r # <<>>,
         Head(r).type = "EOS", NEW i \in DOMAIN d.socket, Head(r).id = i, Open(d, i)
  PROVE  Drives(g, p, Tail(r), b, st, Ends(d, i))
<1> DEFINE s == d.socket[i]
           e == Ends(d, i)
           n == s.session
           R == d.read[n]
           G == Got(d, n, i)
           w == Tail(r)
<1>1. /\ d \in DriverStates /\ Typed(d) /\ ~Device!Closed(s)
  BY DrivesTypes DEF Open, Device!Closed
<1>2. /\ n \in Sessions /\ g.id[n] = i /\ s \in SocketType
      /\ d.read \in [Sessions -> Seq(Items)] /\ r \in Seq(PiPackets)
  BY <1>1, DrivesTypes, SocketFields DEF DriverStates
<1>3. Sees(g, r, st, d, i, n)
  BY <1>1, OpenIs
<1>4. PICK y : EndsAs(d, i, y, e)
  BY <1>1, <1>2, EndsIs
<1>5. Typed(e)
  <2> DEFINE c == Flagged(d, i, "RCVD_EOS_FROM_RPI")
  <2>4. "RCVD_EOS_FROM_RPI" \in Flags \ {"CLOSED", "SHOULD_SEND_RESET"}
    BY DEF Flags
  <2>5. Alike(d, c, i)
    BY <1>1, <2>4, FlagIsSet DEF Flagged
  <2> HIDE DEF c
  <2>1. Typed(c) /\ i \in DOMAIN c.socket
    BY <2>5 DEF Alike
  <2>2. Typed(Reading(c, i, NoOne))
    BY <2>1, ReadChanges DEF Reading
  <2>3. QED
    BY <2>2 DEF c, Ends
<1> HIDE DEF e, w, G
<1>6. /\ InPlace(n, s.rq, R) /\ G = Total(s.rq, R) /\ G \in Nat
      /\ st[n].sent \in Nat /\ (n \in d.eosRead => Len(R) = st[n].sent)
  BY <1>3 DEF Sees, G
<1>7. Head(r) \in EosPackets(i)
  <2> DEFINE m == Head(r)
  <2>1. m \in PiPackets /\ m.type = "EOS" /\ m.id = i
    BY <1>2, TailLeaves
  <2> HIDE DEF m
  <2>2. m \in EosPackets(i)
    BY <2>1 DEF EosPackets, PiPackets
  <2>3. QED
    BY <2>2 DEF m
<1>8. \A z \in 0..st[n].sent : Due(G, n, i, r, st[n], z) =>
        st[n].ended /\ G = st[n].sent /\ Due(G, n, i, w, st[n], z)
  <2> SUFFICES ASSUME NEW z \in 0..st[n].sent, Due(G, n, i, r, st[n], z)
               PROVE  st[n].ended /\ G = st[n].sent /\ Due(G, n, i, w, st[n], z)
    OBVIOUS
  <2>1. G \in Nat /\ st[n].sent \in Nat
    BY <1>2, <1>6
  <2> DEFINE S == st[n]
  <2>3. S.sent \in Nat /\ z \in 0..S.sent /\ Due(G, n, i, r, S, z) /\ r \in Seq(PiPackets)
    BY <1>2, <2>1
  <2> HIDE DEF S
  <2>4. S.ended /\ G = S.sent /\ Due(G, n, i, Tail(r), S, z)
    BY <1>7, <2>1, <2>3, DueEnd
  <2>2. QED
    BY <2>4 DEF w, S
<1>9. st[n].ended /\ G = st[n].sent
  BY <1>3, <1>8 DEF Sees, G
<1>10. MovesOn(r, st, d, e, w, i, n, y, R, G)
  <2>1. Moves(d, e, i, n, y, R)
    <3>1. d.read = [d.read EXCEPT ![n] = R]
      BY <1>2
    <3>2. QED
      BY <1>4, <3>1 DEF Moves, EndsAs
  <2>2. Follows(s, y)
    BY <1>4 DEF Follows, EndsAs
  <2>3. Took(r, w, i)
    BY DEF Took, w
  <2>4. InPlace(n, y.rq, R) /\ Total(y.rq, R) = G
    BY <1>4, <1>6 DEF EndsAs
  <2>5. \A z \in 0..st[n].sent : Due(Got(d, n, i), n, i, r, st[n], z) => Due(G, n, i, w, st[n], z)
    BY <1>8 DEF G
  <2>6. QED
    BY <1>6, <1>9, <2>1, <2>2, <2>3, <2>4, <2>5 DEF MovesOn
<1>11. Drives(g, p, w, b, st, e)
  BY <1>1, <1>2, <1>5, <1>10, Receives
<1>12. QED
  BY <1>11 DEF e, w
\* handle_pkt_eos (a314driver.c): a read that waits is told, for it has read all.
LEMMA EosPacketOrder ==
  ASSUME NEW g, NEW p, NEW r, NEW b, NEW st, NEW d, Drives(g, p, r, b, st, d), r # <<>>,
         Head(r).type = "EOS", NEW i \in DOMAIN d.socket, Head(r).id = i, Open(d, i)
  PROVE  Drives(g, p, Tail(r), b, st, Device!handle_pkt_eos(d, i))
<1> DEFINE s == d.socket[i]
           q == s.pending_read
           e == Ends(d, i)
<1>1. /\ d \in DriverStates /\ s \in SocketType /\ q \in Requests \union {NoOne} /\ (q # NoOne => s.rq = <<>>)
      /\ d.socket = [j \in DOMAIN d.socket |-> d.socket[j]]
  BY DrivesTypes, SocketFields, MapsOfSockets, RequestKinds DEF ReadyOf
<1>2. e = [d EXCEPT !.socket[i].flags = @ \union {"RCVD_EOS_FROM_RPI"}, !.socket[i].pending_read = NoOne]
  BY <1>1 DEF Ends, Reading, Flagged, DriverStates, SocketType
<1>3. Device!handle_pkt_eos(d, i) = IF q = NoOne THEN e ELSE Device!ReplyEos(e, q, i)
  BY <1>2 DEF Device!handle_pkt_eos
<1>4. Drives(g, p, Tail(r), b, st, e)
  BY EndsOrder
<1>5. PICK y : EndsAs(d, i, y, e)
  BY <1>1, EndsIs
<1> HIDE DEF e
<1>6. CASE q # NoOne
  <2>1. e.socket[i] = y /\ DOMAIN e.socket = DOMAIN d.socket
    BY <1>1, <1>5 DEF EndsAs
  <2>2. y.rq = <<>> /\ "RCVD_EOS_FROM_RPI" \in y.flags /\ ~Device!Closed(y)
    BY <1>1, <1>5, <1>6 DEF EndsAs, Open, Device!Closed
  <2>3. Drives(g, p, Tail(r), b, st, Device!ReplyEos(e, q, i))
    BY <1>1, <1>4, <1>6, <2>1, <2>2, ReplyEosOrder
  <2>4. QED
    BY <1>3, <1>6, <2>3
<1>7. QED
  BY <1>3, <1>4, <1>6

(***************************************************************************)
(* CONNECT_RESPONSE (handle_pkt_connect_response): the request that waits  *)
(* for it is replied to, and a socket that is refused goes.                *)
(***************************************************************************)
LEMMA ConnectingIs ==
  ASSUME NEW d \in DriverStates, NEW i \in DOMAIN d.socket, NEW q
  PROVE  DOMAIN Connecting(d, i, q).socket = DOMAIN d.socket
<1>1. d.socket = [j \in DOMAIN d.socket |-> d.socket[j]]
  BY MapsOfSockets DEF DriverStates
<1>2. QED
  BY <1>1 DEF Connecting, DriverStates
\* handle_pkt_connect_response (a314driver.c) carries no data.
LEMMA ResponsePacketOrder ==
  ASSUME NEW g, NEW p, NEW r, NEW b, NEW st, NEW d, Drives(g, p, r, b, st, d),
         NEW i \in DOMAIN d.socket, NEW result
  PROVE  Drives(g, p, r, b, st, Device!handle_pkt_connect_response(d, i, result))
<1> DEFINE q == d.socket[i].pending_connect
           e == Connecting(d, i, NoOne)
           x == Device!ReplyMsg(e, q, "UNKNOWN")
<1>1. d \in DriverStates /\ q \in Sessions \union {NoOne} /\ Sessions \subseteq Requests
  BY DrivesTypes, SocketFields, RequestKinds
<1>2. Drives(g, p, r, b, st, e)
  BY PendingOrder
<1>3. i \in DOMAIN e.socket
  BY <1>1, ConnectingIs
<1>4. Device!handle_pkt_connect_response(d, i, result) \in
        IF q = NoOne THEN {d} ELSE {Device!ReplyMsg(e, q, "OK"), Device!close_socket(x, i, FALSE)}
  BY DEF Device!handle_pkt_connect_response, Connecting
<1>5. CASE q = NoOne
  BY <1>4, <1>5
<1>6. CASE q # NoOne
  <2> HIDE DEF e
  <2>1. e \in DriverStates /\ q \in Requests
    BY <1>1, <1>2, <1>6, DrivesTypes
  <2>2. /\ "OK" \in Replies /\ "OK" # "idle" /\ "UNKNOWN" \in Replies /\ "UNKNOWN" # "idle"
    BY DEF Replies
  <2>3. Drives(g, p, r, b, st, Device!ReplyMsg(e, q, "OK")) /\ Drives(g, p, r, b, st, x)
    BY <1>2, <2>1, <2>2, ReplyOrder
  <2>4. x.socket = e.socket
    BY <2>1, <2>2, ReplyKeeps
  <2> HIDE DEF x, q
  <2>5. Drives(g, p, r, b, st, Device!close_socket(x, i, FALSE))
    BY <1>3, <2>3, <2>4, CloseOrder
  <2>6. QED
    BY <1>4, <1>6, <2>3, <2>5
<1>7. QED
  BY <1>5, <1>6

\* The driver takes a packet of R2A (handle_r2a_packet).
LEMMA PacketOrder ==
  ASSUME NEW g, NEW p, NEW r, NEW b, NEW st, NEW d, Drives(g, p, r, b, st, d), r # <<>>
  PROVE  Drives(g, p, Tail(r), b, st, Device!handle_r2a_packet(d, Head(r)))
<1> DEFINE m == Head(r)
           i == m.id
           w == Tail(r)
<1>1. m \in PiPackets
  BY DrivesTypes, TailLeaves
<1>2. m.type \in {"CONNECT_RESPONSE", "DATA", "EOS", "RESET"} /\ m.data \in Items
  BY <1>1 DEF PiPackets
<1>3. CASE i \notin DOMAIN d.socket
  <2>1. Device!handle_r2a_packet(d, m) = d
    BY <1>3 DEF Device!handle_r2a_packet
  <2>2. Drives(g, p, w, b, st, d)
    BY <1>3, TakeOrder DEF Open
  <2>3. QED
    BY <2>1, <2>2
<1>4. CASE i \in DOMAIN d.socket /\ m.type = "RESET"
  <2>1. Device!handle_r2a_packet(d, m) = Device!close_socket(d, i, FALSE)
    BY <1>4 DEF Device!handle_r2a_packet
  <2>2. Drives(g, p, w, b, st, d)
    BY <1>4, TakeOrder
  <2> HIDE DEF w
  <2>3. Drives(g, p, w, b, st, Device!close_socket(d, i, FALSE))
    BY <1>4, <2>2, CloseOrder
  <2>4. QED
    BY <2>1, <2>3 DEF w
<1>5. CASE i \in DOMAIN d.socket /\ m.type # "RESET" /\ Device!Closed(d.socket[i])
  <2>1. Device!handle_r2a_packet(d, m) = d
    BY <1>5 DEF Device!handle_r2a_packet
  <2>2. Drives(g, p, w, b, st, d)
    BY <1>5, TakeOrder DEF Open, Device!Closed
  <2>3. QED
    BY <2>1, <2>2
<1>6. CASE i \in DOMAIN d.socket /\ m.type = "CONNECT_RESPONSE" /\ ~Device!Closed(d.socket[i])
  <2>1. Device!handle_r2a_packet(d, m) = Device!handle_pkt_connect_response(d, i, m.data.number)
    BY <1>6 DEF Device!handle_r2a_packet
  <2>2. Drives(g, p, w, b, st, d)
    BY <1>6, TakeOrder
  <2> HIDE DEF w
  <2>3. Drives(g, p, w, b, st, Device!handle_pkt_connect_response(d, i, m.data.number))
    BY <1>6, <2>2, ResponsePacketOrder
  <2>4. QED
    BY <2>1, <2>3 DEF w
<1>7. CASE i \in DOMAIN d.socket /\ m.type = "DATA" /\ ~Device!Closed(d.socket[i])
  <2>1. Device!handle_r2a_packet(d, m) = Device!handle_pkt_data(d, i, m.data)
    BY <1>7 DEF Device!handle_r2a_packet
  <2>2. Open(d, i)
    BY <1>7 DEF Open, Device!Closed
  <2>3. QED
    BY <1>7, <2>1, <2>2, DataOrder
<1>8. CASE i \in DOMAIN d.socket /\ m.type = "EOS" /\ ~Device!Closed(d.socket[i])
  <2>1. Device!handle_r2a_packet(d, m) = Device!handle_pkt_eos(d, i)
    BY <1>8 DEF Device!handle_r2a_packet
  <2>2. Open(d, i)
    BY <1>8 DEF Open, Device!Closed
  <2>3. QED
    BY <1>8, <2>1, <2>2, EosPacketOrder
<1>9. QED
  BY <1>2, <1>3, <1>4, <1>5, <1>6, <1>7, <1>8

\* READ (handle_app_read).
LEMMA ReadOrder ==
  ASSUME NEW g, NEW p, NEW r, NEW b, NEW st, NEW d, Drives(g, p, r, b, st, d),
         NEW q \in Reads, NEW i \in DOMAIN d.socket, q.key = d.socket[i].key, ~Device!Closed(d.socket[i])
  PROVE  Drives(g, p, r, b, st, Device!handle_app_read(d, q, i))
<1> DEFINE s == d.socket[i]
           free == s.pending_connect = NoOne /\ s.pending_read = NoOne
           e == Device!ReplyMsg(d, q, "held")
<1>1. /\ d \in DriverStates /\ q \in Requests /\ q.op \in {"READ", "SHORT"} /\ q \in Reads /\ q # NoOne
      /\ s.rq \in Seq(Items)
  BY DrivesTypes, RequestKinds, SocketFields
<1>2. "held" \in Replies /\ "held" # "idle" /\ "RESET" \in Replies /\ "RESET" # "idle"
  BY DEF Replies
<1>3. Device!handle_app_read(d, q, i) =
        IF ~free \/ (s.rq # <<>> /\ q.op = "SHORT") THEN Device!close_socket(Device!ReplyMsg(d, q, "RESET"), i, TRUE)
        ELSE IF s.rq # <<>> THEN Filled(Device!ReplyData(d, q, i, Head(s.rq)), i, Tail(s.rq))
        ELSE IF "RCVD_EOS_FROM_RPI" \in s.flags THEN Device!ReplyEos(d, q, i)
        ELSE Reading(e, i, q)
  <2> DEFINE y == Device!ReplyData(d, q, i, Head(s.rq))
  <2>1. Replied(d, q, i, Head(s.rq), y)
    BY <1>1, ReplyDataIs
  <2>2. y.socket[i].rq = s.rq
    BY <2>1 DEF Replied
  <2> HIDE DEF y
  <2>3. [y EXCEPT !.socket[i].rq = Tail(@)] = Filled(y, i, Tail(s.rq))
    BY <2>2 DEF Filled
  <2>4. QED
    BY <1>1, <2>3 DEF Device!handle_app_read, Reading, y
<1>4. CASE ~free \/ (s.rq # <<>> /\ q.op = "SHORT")
  <2>1. Drives(g, p, r, b, st, Device!close_socket(Device!ReplyMsg(d, q, "RESET"), i, TRUE))
    BY <1>1, <1>2, RefuseOrder
  <2>2. QED
    BY <1>3, <1>4, <2>1
<1>5. CASE free /\ ~(s.rq # <<>> /\ q.op = "SHORT") /\ s.rq # <<>>
  <2>1. Drives(g, p, r, b, st, Filled(Device!ReplyData(d, q, i, Head(s.rq)), i, Tail(s.rq)))
    BY <1>1, <1>5, TakenOrder
  <2>2. QED
    BY <1>3, <1>5, <2>1
<1>6. CASE free /\ s.rq = <<>> /\ "RCVD_EOS_FROM_RPI" \in s.flags
  <2>1. Drives(g, p, r, b, st, Device!ReplyEos(d, q, i))
    BY <1>1, <1>6, ReplyEosOrder
  <2>2. QED
    BY <1>3, <1>6, <2>1
<1>7. CASE free /\ s.rq = <<>> /\ "RCVD_EOS_FROM_RPI" \notin s.flags
  <2>1. Drives(g, p, r, b, st, e)
    BY <1>1, <1>2, ReplyOrder
  <2>2. e.socket = d.socket
    BY <1>1, <1>2, ReplyKeeps
  <2> HIDE DEF e
  <2>3. Drives(g, p, r, b, st, Reading(e, i, q))
    BY <1>1, <1>7, <2>1, <2>2, PendingOrder
  <2>4. QED
    BY <1>3, <1>7, <2>3
<1>8. QED
  BY <1>4, <1>5, <1>6, <1>7

-----------------------------------------------------------------------------
(* A new stream. *)

\* No channel and no packet under way has the id: q, r and b are the packets in A2R, in R2A
\* and before it.
Fresh(i, p, u, r, b) ==
  i \notin DOMAIN p.channels /\ \A m \in Elems(u) \union Elems(r) \union Elems(b) : m.id # i
\* the id becomes the one of session n
Renamed(g, n, i) ==
  [g EXCEPT !.id = [k \in Sessions |-> IF k = n THEN i ELSE IF g.id[k] = i THEN 0 ELSE g.id[k]]]
LEMMA RenamedIs ==
  ASSUME NEW g \in Paths, NEW n \in Sessions, NEW i \in Ids
  PROVE  LET h == Renamed(g, n, i) IN
         /\ h \in Paths /\ h.cl = g.cl /\ h.sid = g.sid /\ h.id[n] = i
         /\ \A k \in Sessions : k # n => h.id[k] = IF g.id[k] = i THEN 0 ELSE g.id[k]
<1>1. i \in Nat
  BY IdAssumption DEF Ids
<1>2. QED
  BY <1>1 DEF Renamed, Paths

\* Session n has got a socket with id i, which waits for room.
NewSocket(n) == [key |-> n.key, session |-> n, pending_connect |-> n, pending_read |-> NoOne,
                 pending_write |-> NoOne, flags |-> {}, rq |-> <<>>]
Opens(d, e, n, i) ==
  /\ e.socket = Extend(d.socket, i, NewSocket(n)) /\ e.io = [d.io EXCEPT ![n] = "held"]
  /\ e.read = d.read /\ e.eosRead = d.eosRead /\ e.written = d.written
  /\ e.eosWritten = d.eosWritten /\ e.a2r = d.a2r
  /\ Elems(e.send_queue) = Elems(d.send_queue) \union {i}
Opened(d, e, n, i) ==
  /\ DOMAIN e.socket = DOMAIN d.socket \union {i} /\ e.socket[i] = NewSocket(n)
  /\ \A j \in DOMAIN d.socket : e.socket[j] = d.socket[j] /\ j # i
  /\ e.io[n] = "held" /\ \A k \in Sessions : k # n => e.io[k] = d.io[k]
LEMMA OpensIs ==
  ASSUME NEW d \in DriverStates, NEW e, NEW n \in Sessions, NEW i \in Ids, i \notin DOMAIN d.socket,
         Opens(d, e, n, i)
  PROVE  Opened(d, e, n, i)
<1>1. d.io \in [Requests -> Replies] /\ Sessions \subseteq Requests
  BY RequestKinds DEF DriverStates
<1>2. QED
  BY <1>1 DEF Opens, Opened, Extend

\* Packets have ids; one that is under way is not of a session without an id,
\* nor does it have the new one.
LEMMA RoutedFresh ==
  ASSUME NEW g \in Paths, NEW n \in Sessions, g.id[n] = 0, NEW i \in Ids, NEW T,
         \A m \in T : m.id \in Ids, NEW q \in Seq(T), \A m \in Elems(q) : m.id # i, PacketsRouted(g, q)
  PROVE  /\ PacketsRouted(Renamed(g, n, i), q)
         /\ \A m \in Elems(q) : ~IsItem(m, n) /\ m \notin EosPackets(i) /\ m \notin EosPackets(0)
         /\ \A m \in Elems(q), k \in Sessions : IsItem(m, k) => g.id[k] # i
<1> DEFINE h == Renamed(g, n, i)
<1>1. \A k \in Sessions : k # n => h.id[k] = IF g.id[k] = i THEN 0 ELSE g.id[k]
  BY RenamedIs
<1>2. \A m \in Elems(q) : m.id \in Ids /\ m.id # 0 /\ m.id # i
  BY Places, IdAssumption DEF Ids
<1> HIDE DEF h
<1>3. PacketsRouted(h, q)
  BY <1>1, <1>2 DEF PacketsRouted
<1>4. \A m \in Elems(q) : ~IsItem(m, n) /\ m \notin EosPackets(i) /\ m \notin EosPackets(0)
  BY <1>2 DEF PacketsRouted, IsItem, EosPackets
<1>5. \A m \in Elems(q), k \in Sessions : IsItem(m, k) => g.id[k] # i
  BY <1>2 DEF PacketsRouted, IsItem
<1>6. QED
  BY <1>3, <1>4, <1>5 DEF h

\* What is under way of a session.
Lives(g, p, u, r, b, st, d, k) ==
  Birth(g, k, u, d, st) /\ Down(g, k, p, u, d, st) /\ Up(g, k, p, d, r, b, st)

\* What the session is before: nothing is under way.
Newborn(g, p, u, st, d, n) ==
  /\ g.id[n] = 0 /\ g.cl[n] = NoOne /\ st[n] = NoStream /\ d.read[n] = <<>> /\ n \notin d.eosRead
  /\ d.written[n] = 0 /\ n \notin d.eosWritten /\ \A m \in Elems(u) : ~IsItem(m, n)
LEMMA IdleIs ==
  ASSUME NEW g, NEW p, NEW u, NEW r, NEW b, NEW st, NEW d, Order(g, p, u, r, b, st, d),
         NEW n \in Sessions, d.io[n] = "idle"
  PROVE  Newborn(g, p, u, st, d, n)
  BY DEF Order, Birth, Unborn, Newborn

\* The session that gets the socket.
LEMMA OpenedOrder ==
  ASSUME NEW g \in Paths, NEW p, NEW u \in Seq(AmigaPackets), NEW r \in Seq(PiPackets), NEW b \in Seq(PiPackets),
         NEW st, NEW d \in DriverStates, NEW n \in Sessions, Newborn(g, p, u, st, d, n),
         PacketsRouted(g, u), PacketsRouted(g, r), PacketsRouted(g, b),
         NEW i \in Ids, i \notin DOMAIN d.socket, Fresh(i, p, u, r, b), NEW e, Opens(d, e, n, i),
         NEW h, Renamed(g, n, i) = h
  PROVE  Lives(h, p, u, r, b, st, e, n)
<1>1. h.id[n] = i /\ h.cl[n] = NoOne
  BY RenamedIs DEF Newborn
<1>2. /\ \A m \in AmigaPackets : m.id \in Ids
      /\ \A m \in PiPackets : m.id \in Ids
  BY DEF AmigaPackets, PiPackets
<1>3. \A m \in Elems(u) : ~IsItem(m, n) /\ m \notin EosPackets(i)
  BY <1>2, RoutedFresh DEF Fresh, Newborn
<1>4. \A m \in Elems(r) : ~IsItem(m, n) /\ m \notin EosPackets(i)
  BY <1>2, RoutedFresh DEF Fresh, Newborn
<1>5. \A m \in Elems(b) : ~IsItem(m, n) /\ m \notin EosPackets(i)
  BY <1>2, RoutedFresh DEF Fresh, Newborn
<1>6. ~Carries(u, EosPackets(i)) /\ ~Carries(r, EosPackets(i)) /\ ~Carries(b, EosPackets(i))
  BY <1>3, <1>4, <1>5 DEF Carries
<1>7. e.io[n] = "held" /\ e.socket[i] = NewSocket(n) /\ i \in DOMAIN e.socket
  BY OpensIs DEF Opened
<1>8. Birth(h, n, u, e, st)
  BY <1>1, <1>3, <1>7 DEF Birth, Unborn, Newborn, Calls, IsItem, Opens
<1>9. Down(h, n, p, u, e, st)
  BY <1>1, <1>6 DEF Down, Linked, Newborn, NoStream
<1>10. Up(h, n, p, e, r, b, st)
  <2>1. Got(e, n, i) = 0
    <3>1. e.read[n] = <<>> /\ e.socket[i].rq = <<>>
      BY <1>7 DEF NewSocket, Opens, Newborn
    <3>2. Len(<<>>) = 0
      OBVIOUS
    <3>3. QED
      BY <3>1, <3>2 DEF Got
  <2>2. Queue(p, i) = <<>> /\ Queue(p, i) \in Seq(PiPackets) /\ Elems(Queue(p, i)) = {}
    BY NothingQueued DEF Queue, Fresh
  <2>3. /\ Run(r, n, EosPackets(i), 0, 0) /\ Run(b, n, EosPackets(i), 0, 0)
        /\ Run(Queue(p, i), n, EosPackets(i), 0, 0)
    <3>1. 0 \in Int
      OBVIOUS
    <3>2. QED
      BY <1>4, <1>5, <2>2, <3>1, RunNone
  <2>4. ~Carries(Queue(p, i), EosPackets(i))
    BY <2>2 DEF Carries
  <2>5. UpTo(h, n, p, e, r, b, st[n], 0, 0, 0)
    BY <1>1, <1>6, <2>1, <2>3, <2>4 DEF UpTo, Fresh
  <2>6. st[n].sent = 0 /\ 0 \in 0..0 /\ ~st[n].ended
    BY DEF Newborn, NoStream
  <2>7. e.socket[i].rq = <<>> /\ e.socket[i].flags = {}
    BY <1>7 DEF NewSocket
  <2>8. UpOpen(h, n, p, e, r, b, st[n])
    BY <1>1, <2>5, <2>6, <2>7 DEF UpOpen
  <2>9. QED
    BY <1>1, <2>6, <2>8 DEF Up, Newborn, Opens
<1>11. QED
  BY <1>1, <1>8, <1>9, <1>10 DEF Lives

\* The session that had the id before.
LEMMA FormerOrder ==
  ASSUME NEW g \in Paths, NEW p \in ThreadStates, NEW u \in Seq(AmigaPackets), NEW r, NEW b,
         NEW st, NEW d \in DriverStates, NEW n \in Sessions, g.id[n] = 0, SocketsRouted(g, d),
         PacketsRouted(g, u), NEW i \in Ids, i \notin DOMAIN d.socket, Fresh(i, p, u, r, b),
         NEW e, Opens(d, e, n, i), NEW h, Renamed(g, n, i) = h,
         NEW k \in Sessions, k # n, g.id[k] = i,
         Lives(g, p, u, r, b, st, d, k)
  PROVE  Lives(h, p, u, r, b, st, e, k)
<1>0. Birth(g, k, u, d, st) /\ Down(g, k, p, u, d, st) /\ Up(g, k, p, d, r, b, st)
  BY DEF Lives
<1>1. h.id[k] = 0 /\ h.cl = g.cl /\ h.sid = g.sid /\ 0 \notin Ids /\ i # 0
  BY RenamedIs, IdAssumption DEF Ids
<1>2. DOMAIN d.socket \subseteq Ids /\ DOMAIN p.channels \subseteq Ids /\ d.socket \in SocketMaps
  BY MapsOfSockets, MapsOfChannels DEF DriverStates, ThreadStates
<1>2a. Opened(d, e, n, i)
  BY OpensIs
<1>3. /\ DOMAIN e.socket = DOMAIN d.socket \union {i} /\ e.socket[i] = NewSocket(n)
      /\ \A j \in DOMAIN d.socket : e.socket[j] = d.socket[j] /\ j # i
      /\ e.io[k] = d.io[k]
  BY <1>2a DEF Opened
<1>4. \A m \in AmigaPackets : m.id \in Ids
  BY DEF AmigaPackets
<1>5. \A m \in Elems(u) : ~IsItem(m, k) /\ m \notin EosPackets(0)
  BY <1>4, RoutedFresh DEF Fresh
<1>6. ~Waits(e, k)
  <2>1. \A j \in DOMAIN e.socket : e.socket[j].session # k
    BY <1>3 DEF SocketsRouted, NewSocket
  <2>2. QED
    BY <2>1 DEF Waits
<1>7. Birth(h, k, u, e, st)
  <2>1. e.io[k] = d.io[k]
    BY <1>3
  <2>2. d.io[k] # "idle"
    BY <1>0, <1>1 DEF Birth
  <2>3. ~Calls(u, k)
    BY <1>5 DEF Calls, IsItem
  <2>4. QED
    BY <1>0, <1>6, <2>1, <2>2, <2>3 DEF Birth
<1>8. ~Carries(u, EosPackets(0)) /\ 0 \notin DOMAIN p.channels
  BY <1>1, <1>2, <1>5 DEF Carries
<1>9. \A x : DownTo(g, k, p, u, d, st, x) => DownTo(h, k, p, u, e, st, x)
  BY <1>1, <1>8 DEF DownTo, Flows, Opens
<1>10. Down(h, k, p, u, e, st)
  BY <1>0, <1>1, <1>8, <1>9 DEF Down, Linked, Opens
<1>11. ~Open(e, h.id[k])
  BY <1>1, <1>2, <1>3 DEF Open
<1>12. Up(h, k, p, e, r, b, st)
  BY <1>0, <1>1, <1>11 DEF Up, Opens
<1>13. QED
  BY <1>7, <1>10, <1>12 DEF Lives

\* Any other session.
LEMMA OtherOrder ==
  ASSUME NEW g \in Paths, NEW p, NEW u, NEW r, NEW b,
         NEW st, NEW d \in DriverStates, NEW n \in Sessions,
         NEW i \in Ids, i \notin DOMAIN d.socket,
         NEW e, Opens(d, e, n, i), NEW h, Renamed(g, n, i) = h,
         NEW k \in Sessions, k # n, g.id[k] # i,
         Lives(g, p, u, r, b, st, d, k)
  PROVE  Lives(h, p, u, r, b, st, e, k)
<1>0. Birth(g, k, u, d, st) /\ Down(g, k, p, u, d, st) /\ Up(g, k, p, d, r, b, st)
  BY DEF Lives
<1>1. h.id[k] = g.id[k] /\ h.cl = g.cl /\ h.sid = g.sid
  BY RenamedIs
<1>2a. Opened(d, e, n, i)
  BY OpensIs
<1>3. /\ DOMAIN e.socket = DOMAIN d.socket \union {i} /\ e.socket[i] = NewSocket(n)
      /\ \A j \in DOMAIN d.socket : e.socket[j] = d.socket[j] /\ j # i
      /\ e.io[k] = d.io[k]
  BY <1>2a DEF Opened
<1>6. ASSUME Waits(e, k) PROVE Waits(d, k)
  <2>1. PICK j \in DOMAIN e.socket : /\ e.socket[j].session = k /\ e.socket[j].pending_connect # NoOne
                                     /\ j \in Elems(e.send_queue)
    BY <1>6 DEF Waits
  <2>2. j # i
    BY <1>3, <2>1 DEF NewSocket
  <2>3. QED
    BY <1>3, <2>1, <2>2 DEF Waits, Opens
<1>7. Birth(h, k, u, e, st)
  <2>1. e.io[k] = d.io[k]
    BY <1>3
  <2>2. QED
    BY <1>0, <1>1, <1>6, <2>1 DEF Birth, Unborn, Opens
<1>9. \A x : DownTo(g, k, p, u, d, st, x) => DownTo(h, k, p, u, e, st, x)
  BY <1>1 DEF DownTo, Flows, Opens
<1>10. Down(h, k, p, u, e, st)
  BY <1>0, <1>1, <1>9 DEF Down, Linked, Opens
<1>11. Open(e, h.id[k]) => Open(d, g.id[k]) /\ e.socket[g.id[k]] = d.socket[g.id[k]]
  BY <1>1, <1>3 DEF Open
<1>12. ASSUME Open(e, h.id[k]) PROVE UpOpen(h, k, p, e, r, b, st[k])
  <2>1. UpOpen(g, k, p, d, r, b, st[k])
    BY <1>0, <1>11, <1>12 DEF Up
  <2>2. Got(e, k, g.id[k]) = Got(d, k, g.id[k])
    BY <1>11, <1>12 DEF Got, Opens
  <2>3. \A z1, z2, z3 : UpTo(g, k, p, d, r, b, st[k], z1, z2, z3) => UpTo(h, k, p, e, r, b, st[k], z1, z2, z3)
    BY <1>1, <2>2 DEF UpTo
  <2>4. QED
    BY <1>1, <1>11, <1>12, <2>1, <2>2, <2>3 DEF UpOpen, Opens
<1>13. Up(h, k, p, e, r, b, st)
  BY <1>0, <1>1, <1>12 DEF Up, Opens
<1>14. QED
  BY <1>7, <1>10, <1>13 DEF Lives

\* The routes of the others stay.
LEMMA RenamedRoutes ==
  ASSUME NEW g \in Paths, Apart(g), NEW n \in Sessions, g.id[n] = 0, NEW i \in Ids, NEW h, Renamed(g, n, i) = h,
         NEW p \in ThreadStates, ThreadRouted(g, p), i \notin DOMAIN p.channels,
         NEW st, StreamsRouted(g, p, st)
  PROVE  h \in Paths /\ Apart(h) /\ ThreadRouted(h, p) /\ StreamsRouted(h, p, st)
<1>1. /\ h \in Paths /\ h.cl = g.cl /\ h.sid = g.sid /\ h.id[n] = i
      /\ \A k \in Sessions : k # n => h.id[k] = IF g.id[k] = i THEN 0 ELSE g.id[k]
  BY RenamedIs
<1>2. Apart(h)
  BY <1>1 DEF Apart
<1>3. ASSUME NEW j \in DOMAIN p.channels
      PROVE  /\ \A k \in Sessions : g.id[k] = j => h.id[k] = j
             /\ PacketsRouted(h, p.channels[j].packet_queue)
  <2>1. j # 0 /\ j # i
    BY MapsOfChannels, IdAssumption DEF ThreadStates, Ids
  <2>2. \A k \in Sessions : g.id[k] = j => h.id[k] = j
    BY <1>1, <2>1
  <2>3. PacketsRouted(g, p.channels[j].packet_queue) /\ \A m \in Elems(p.channels[j].packet_queue) : m.id = j
    BY DEF ThreadRouted, ChannelsRouted
  <2>4. QED
    BY <2>2, <2>3 DEF PacketsRouted
<1>4. ChannelsRouted(h, p)
  BY <1>1, <1>3 DEF ThreadRouted, ChannelsRouted
<1>5. MessagesRouted(h, p) /\ SidsRouted(h, p)
  BY <1>1 DEF ThreadRouted, MessagesRouted, Said, SidsRouted
<1>6. StreamsRouted(h, p, st)
  BY <1>1 DEF StreamsRouted
<1>7. QED
  BY <1>1, <1>2, <1>4, <1>5, <1>6 DEF ThreadRouted

\* A session gets a socket, with an id that nothing under way has.
LEMMA NewOrder ==
  ASSUME NEW g, NEW p \in ThreadStates, NEW u \in Seq(AmigaPackets), NEW r \in Seq(PiPackets), NEW b \in Seq(PiPackets),
         NEW st, NEW d \in DriverStates, Order(g, p, u, r, b, st, d), NEW n \in Sessions, d.io[n] = "idle",
         NEW i \in Ids, i \notin DOMAIN d.socket, Fresh(i, p, u, r, b), NEW e, Opens(d, e, n, i),
         NEW h, Renamed(g, n, i) = h
  PROVE  Order(h, p, u, r, b, st, e)
<1>1. /\ g \in Paths /\ Apart(g) /\ SocketsRouted(g, d) /\ Ready(d)
      /\ PacketsRouted(g, u) /\ PacketsRouted(g, r) /\ PacketsRouted(g, b)
      /\ ThreadRouted(g, p) /\ StreamsRouted(g, p, st)
  BY DEF Order
<1>2. Newborn(g, p, u, st, d, n)
  BY IdleIs
<1>3. g.id[n] = 0 /\ i \notin DOMAIN p.channels
  BY <1>2 DEF Newborn, Fresh
<1>4. h \in Paths /\ Apart(h) /\ ThreadRouted(h, p) /\ StreamsRouted(h, p, st)
  BY <1>1, <1>3, RenamedRoutes
<1>5. /\ \A m \in AmigaPackets : m.id \in Ids
      /\ \A m \in PiPackets : m.id \in Ids
  BY DEF AmigaPackets, PiPackets
<1>6. PacketsRouted(h, u) /\ PacketsRouted(h, r) /\ PacketsRouted(h, b)
  <2>1. \A m \in Elems(u) \union Elems(r) \union Elems(b) : m.id # i
    BY DEF Fresh
  <2>2. PacketsRouted(h, u)
    BY <1>1, <1>3, <1>5, <2>1, RoutedFresh
  <2>3. PacketsRouted(h, r)
    BY <1>1, <1>3, <1>5, <2>1, RoutedFresh
  <2>4. PacketsRouted(h, b)
    BY <1>1, <1>3, <1>5, <2>1, RoutedFresh
  <2>5. QED
    BY <2>2, <2>3, <2>4
<1>7. Opened(d, e, n, i)
  BY OpensIs
<1>8. h.id[n] = i /\ \A k \in Sessions : k # n => h.id[k] = IF g.id[k] = i THEN 0 ELSE g.id[k]
  BY <1>1, RenamedIs
<1>9. SocketsRouted(h, e)
  <2>1. ASSUME NEW j \in DOMAIN e.socket PROVE h.id[e.socket[j].session] = j
    <3>1. CASE j = i
      BY <1>7, <1>8, <3>1 DEF Opened, NewSocket
    <3>2. CASE j # i
      <4>1. /\ j \in DOMAIN d.socket /\ e.socket[j] = d.socket[j] /\ g.id[d.socket[j].session] = j
            /\ d.socket[j].session \in Sessions /\ j # 0
        BY <1>1, <1>7, <3>2, MapsOfSockets, SocketFields, IdAssumption
           DEF Opened, SocketsRouted, DriverStates, Ids
      <4>2. QED
        BY <1>3, <1>8, <3>2, <4>1
    <3>3. QED
      BY <3>1, <3>2
  <2>2. QED
    BY <2>1 DEF SocketsRouted
<1>10. Ready(e)
  <2>1. ASSUME NEW j \in DOMAIN e.socket PROVE ReadyOf(e, e.socket[j])
    <3>1. CASE j = i
      BY <1>2, <1>7, <3>1 DEF Opened, NewSocket, ReadyOf, Newborn, Opens
    <3>2. CASE j # i
      <4>1. j \in DOMAIN d.socket /\ e.socket[j] = d.socket[j] /\ ReadyOf(d, d.socket[j])
        BY <1>1, <1>7, <3>2 DEF Opened, Ready
      <4>2. QED
        BY <4>1 DEF ReadyOf, Opens
    <3>3. QED
      BY <3>1, <3>2
  <2>2. QED
    BY <2>1 DEF Ready
<1>11. ASSUME NEW k \in Sessions
       PROVE  Lives(h, p, u, r, b, st, e, k)
  <2>1. Lives(g, p, u, r, b, st, d, k)
    BY DEF Order, Lives
  <2>2. CASE k = n
    BY <1>1, <1>2, <2>2, OpenedOrder
  <2>3. CASE k # n /\ g.id[k] = i
    BY <1>1, <1>3, <2>1, <2>3, FormerOrder
  <2>4. CASE k # n /\ g.id[k] # i
    <3>1. g \in Paths
      BY <1>1
    <3>2. QED
      BY <2>1, <2>4, <3>1, OtherOrder
  <2>5. QED
    BY <2>2, <2>3, <2>4
<1>12. QED
  BY <1>4, <1>6, <1>9, <1>10, <1>11 DEF Order, Lives

\* A socket is added to those that wait for room.
Started(d, n, i) == [Device!ReplyMsg(d, n, "held") EXCEPT !.socket = Device!Extend(@, i, NewSocket(n)),
                                                          !.next_stream_id = (i % NumIds) + 1]
Waiting(d, n, i) == Device!add_to_send_queue(Started(d, n, i), i)
LEMMA WaitingIs ==
  ASSUME NEW d, Typed(d), NEW n \in Sessions, NEW i \in Ids, i \notin DOMAIN d.socket,
         \A j \in DOMAIN d.socket : d.socket[j].key # n.key
  PROVE  LET y == Waiting(d, n, i) IN
         /\ Typed(y) /\ Opens(d, y, n, i) /\ y.send_queue = Append(d.send_queue, i)
         /\ DOMAIN y.socket = DOMAIN d.socket \union {i} /\ y.socket[i] = NewSocket(n)
         /\ Started(d, n, i) = [y EXCEPT !.send_queue = d.send_queue]
<1> DEFINE s == NewSocket(n)
           k == (i % NumIds) + 1
           f == Device!Extend(d.socket, i, s)
           o == [d.io EXCEPT ![n] = "held"]
           v == Append(d.send_queue, i)
           y == Waiting(d, n, i)
<1>1. /\ d \in DriverStates /\ OneEach(d.socket) /\ Elems(d.send_queue) \subseteq DOMAIN d.socket
      /\ arrived \in Nat /\ arrived <= Len(d.a2r) /\ Len(d.a2r) <= A2RCap /\ n \in Requests
      /\ d.socket \in SocketMaps /\ d.send_queue \in Seq(Ids) /\ d.io \in [Requests -> Replies]
      /\ n.key \in Keys /\ n # NoOne
  BY RequestKinds DEF Typed, DriverStates
<1>2. s \in Sockets /\ s.key = n.key
  <2>1. PendS(s) = {n}
    BY <1>1 DEF PendS, NewSocket
  <2>2. <<>> \in Seq(Items) /\ {} \in SUBSET Flags
    OBVIOUS
  <2>3. s \in SocketType /\ s.key = n.key
    BY <1>1, <2>2 DEF SocketType, NewSocket
  <2>4. Quiet(s)
    BY DEF Quiet, NewSocket
  <2> HIDE DEF s
  <2>5. QED
    BY <2>1, <2>3, <2>4 DEF Sockets
<1>3. k \in Ids
  <2>1. NumIds \in Nat \ {0} /\ i \in Nat
    BY IdAssumption DEF Ids
  <2>2. i % NumIds \in 0..(NumIds - 1)
    BY <2>1, Wraps
  <2>3. QED
    BY <2>1, <2>2 DEF Ids
<1> HIDE DEF s, k
<1>4. f \in SocketMaps /\ OneEach(f) /\ DOMAIN f = DOMAIN d.socket \union {i} /\ f[i] = s
  <2>1. \A j \in DOMAIN d.socket : d.socket[j].key # s.key
    BY <1>2
  <2>2. s \in Sockets /\ d.socket \in SocketMaps /\ OneEach(d.socket)
    BY <1>1, <1>2
  <2>3. QED
    BY <2>1, <2>2, SocketAdded
<1>5. f = Extend(d.socket, i, s)
  BY DEF Device!Extend, Extend
<1>6. o \in [Requests -> Replies]
  BY <1>1 DEF Replies
<1>7. v \in Seq(Ids) /\ Elems(v) = Elems(d.send_queue) \union {i}
  BY <1>1, AppendAdds
<1>8. /\ y = [d EXCEPT !.io = o, !.socket = f, !.next_stream_id = k, !.send_queue = v]
      /\ Started(d, n, i) = [d EXCEPT !.io = o, !.socket = f, !.next_stream_id = k]
  BY <1>1 DEF Waiting, Started, Device!ReplyMsg, Device!add_to_send_queue, DriverStates, s, k
<1> HIDE DEF f, o, v, y
<1>9. /\ y \in DriverStates /\ y.socket = f /\ y.io = o /\ y.send_queue = v /\ y.a2r = d.a2r
      /\ y.read = d.read /\ y.eosRead = d.eosRead /\ y.written = d.written
      /\ y.eosWritten = d.eosWritten
  BY <1>1, <1>3, <1>4, <1>6, <1>7, <1>8 DEF DriverStates
<1>10. Started(d, n, i) = [y EXCEPT !.send_queue = d.send_queue]
  BY <1>1, <1>8 DEF DriverStates
<1>11. Typed(y)
  BY <1>1, <1>4, <1>7, <1>9 DEF Typed
<1>12. Opens(d, y, n, i)
  BY <1>5, <1>7, <1>9 DEF Opens, o, s
<1>13. QED
  BY <1>4, <1>9, <1>10, <1>11, <1>12 DEF y, v, s

\* CONNECT (handle_app_connect): the socket waits for room, or the packet is sent at once.
LEMMA ConnectOrder ==
  ASSUME NEW g, NEW p \in ThreadStates, NEW r, NEW b \in Seq(PiPackets), NEW st,
         NEW d, Drives(g, p, r, b, st, d), NEW n \in Sessions, d.io[n] = "idle",
         \A j \in DOMAIN d.socket : d.socket[j].key # n.key,
         Fresh(Device!allocate_stream_id(d), p, Rest(d.a2r), r, b)
  PROVE  \E h : Drives(h, p, r, b, st, Device!handle_app_connect(d, n))
<1> DEFINE i == Device!allocate_stream_id(d)
           y == Waiting(d, n, i)
           e == Started(d, n, i)
           x == Device!append_a2r_packet(e, "CONNECT", i, Device!Item(n, 0))
           u == Rest(d.a2r)
<1>1. /\ d \in DriverStates /\ Typed(d) /\ u \in Seq(AmigaPackets) /\ r \in Seq(PiPackets)
      /\ Order(g, p, u, r, b, st, d) /\ d.send_queue \in Seq(Ids)
      /\ received \in Nat /\ received <= arrived /\ st \in [Sessions -> StreamTypes]
  BY DrivesTypes DEF DriverStates, Drives
<1>2. i \in Ids /\ i \notin DOMAIN d.socket
  BY <1>1, IdIsFree
<1>3. Device!handle_app_connect(d, n) = IF Device!CanSend(d) THEN x ELSE y
  BY DEF Device!handle_app_connect, Started, Waiting, NewSocket
<1> HIDE DEF i
<1>4. /\ Typed(y) /\ Opens(d, y, n, i) /\ y.send_queue = Append(d.send_queue, i)
      /\ i \in DOMAIN y.socket /\ y.socket[i] = NewSocket(n)
      /\ e = [y EXCEPT !.send_queue = d.send_queue]
  BY <1>1, <1>2, WaitingIs
<1> HIDE DEF y, e
<1>5. y.a2r = d.a2r /\ y \in DriverStates
  BY <1>4 DEF Opens, Typed
<1>6. PICK h : Renamed(g, n, i) = h
  OBVIOUS
<1>7. Fresh(i, p, u, r, b)
  BY DEF i
<1> HIDE DEF u
<1>8. Order(h, p, u, r, b, st, y)
  BY <1>1, <1>2, <1>4, <1>6, <1>7, NewOrder
<1>9. Drives(h, p, r, b, st, y)
  BY <1>1, <1>4, <1>5, <1>8 DEF Drives, u
<1>10. CASE ~Device!CanSend(d)
  BY <1>3, <1>9, <1>10
<1>11. CASE Device!CanSend(d)
  <2> DEFINE z == Device!remove_from_send_queue(y, i)
  <2>1. d.send_queue = <<>> /\ Device!room_in_a2r(y)
    BY <1>5, <1>11 DEF Device!CanSend, Device!room_in_a2r
  <2>2. y.send_queue \in Seq(Ids) /\ Elems(y.send_queue) = {i}
    <3>1. Append(d.send_queue, i) \in Seq(Ids) /\ Elems(Append(d.send_queue, i)) = Elems(d.send_queue) \union {i}
      BY <1>1, <1>2, AppendAdds
    <3>2. Elems(d.send_queue) = {}
      BY <2>1, NothingQueued
    <3>3. QED
      BY <1>4, <3>1, <3>2
  <2>3. Device!Without(y.send_queue, i) = <<>>
    <3>1. Without(y.send_queue, i) \in Seq(Ids) /\ Elems(Without(y.send_queue, i)) = {}
      BY <2>2, WithoutLeaves
    <3>2. QED
      BY <3>1, ElemsIn, SameHelpers
  <2>4. z = e
    BY <1>4, <2>1, <2>3 DEF Device!remove_from_send_queue
  <2>5. y.socket[i].pending_connect # NoOne /\ y.socket[i].session = n
    BY <1>4, RequestKinds DEF NewSocket
  <2> HIDE DEF z
  <2>6. Drives(h, p, r, b, st, Device!append_a2r_packet(Device!remove_from_send_queue(y, i), "CONNECT", i,
                                                       Device!Item(y.socket[i].session, 0)))
    BY <1>4, <1>9, <2>1, <2>2, <2>5, CallOrder
  <2>7. Drives(h, p, r, b, st, x)
    BY <2>4, <2>5, <2>6 DEF z
  <2>8. QED
    BY <1>3, <1>11, <2>7
<1>12. QED
  BY <1>10, <1>11

\* A request of the application (handle_app_request, a314driver.c): a CONNECT that is not
\* refused has an id that nothing under way has.
LEMMA RequestOrder ==
  ASSUME NEW g, NEW p \in ThreadStates, NEW r, NEW b \in Seq(PiPackets), NEW st,
         NEW d, Drives(g, p, r, b, st, d), NEW q \in Requests, d.io[q] = "idle",
         Device!allocate_stream_id(d) \in DOMAIN Device!handle_app_request(d, q).socket =>
           Fresh(Device!allocate_stream_id(d), p, Rest(d.a2r), r, b)
  PROVE  \E h : Drives(h, p, r, b, st, Device!handle_app_request(d, q))
<1> DEFINE open == Device!SocketsOf(d, q.key)
           i == CHOOSE j \in open : TRUE
           u == Device!handle_app_request(d, q)
<1>1. /\ d \in DriverStates /\ Typed(d) /\ q.op \in Ops /\ q.key \in Keys
      /\ \A j \in open : j \in DOMAIN d.socket /\ d.socket[j].key = q.key
  BY DrivesTypes, RequestKinds DEF Device!SocketsOf
<1>2. /\ "IN_USE" \in Replies /\ "OK" \in Replies /\ "RESET" \in Replies
      /\ "IN_USE" # "idle" /\ "OK" # "idle" /\ "RESET" # "idle"
  BY DEF Replies
<1>3. CASE q.op = "CONNECT" /\ open = {}
  <2>1. u = Device!handle_app_connect(d, q)
    BY <1>3 DEF Device!handle_app_request
  <2>2. q \in Sessions /\ \A j \in DOMAIN d.socket : d.socket[j].key # q.key
    BY <1>3 DEF Sessions, Device!SocketsOf
  <2> DEFINE n == Device!allocate_stream_id(d)
  <2>3. n \in DOMAIN u.socket
    <3>1. n \in Ids /\ n \notin DOMAIN d.socket
      BY <1>1, IdIsFree
    <3> DEFINE y == Waiting(d, q, n)
               e == Started(d, q, n)
               x == Device!append_a2r_packet(e, "CONNECT", n, Device!Item(q, 0))
    <3>2. u \in {x, y}
      BY <2>1 DEF Device!handle_app_connect, Started, Waiting, NewSocket
    <3> HIDE DEF n
    <3>3. /\ Typed(y) /\ n \in DOMAIN y.socket /\ e = [y EXCEPT !.send_queue = d.send_queue]
      BY <1>1, <2>2, <3>1, WaitingIs
    <3> HIDE DEF y
    <3>4. e.socket = y.socket /\ e.a2r = y.a2r
      BY <3>3 DEF Typed, DriverStates
    <3> HIDE DEF e, u
    <3>5. x.socket = e.socket
      BY DEF Device!append_a2r_packet
    <3>6. QED
      BY <3>2, <3>3, <3>4, <3>5 DEF n
  <2>4. Fresh(n, p, Rest(d.a2r), r, b)
    BY <2>3
  <2>5. QED
    BY <2>1, <2>2, <2>4, ConnectOrder
<1>4. CASE q.op = "CONNECT" /\ open # {}
  <2>1. u = Device!ReplyMsg(d, q, "IN_USE")
    BY <1>4 DEF Device!handle_app_request
  <2>2. Drives(g, p, r, b, st, Device!ReplyMsg(d, q, "IN_USE"))
    BY <1>2, ReplyOrder
  <2>3. QED
    BY <2>1, <2>2
<1>5. CASE q.op # "CONNECT" /\ (open = {} \/ Device!Closed(d.socket[i]))
  <2>1. u \in {Device!ReplyMsg(d, q, "OK"), Device!ReplyMsg(d, q, "RESET")}
    BY <1>5 DEF Device!handle_app_request
  <2>2. Drives(g, p, r, b, st, Device!ReplyMsg(d, q, "OK")) /\ Drives(g, p, r, b, st, Device!ReplyMsg(d, q, "RESET"))
    BY <1>2, ReplyOrder
  <2>3. QED
    BY <2>1, <2>2
<1>6. CASE q.op # "CONNECT" /\ open # {} /\ ~Device!Closed(d.socket[i])
  <2>1. i \in DOMAIN d.socket /\ d.socket[i].key = q.key /\ ~Device!Closed(d.socket[i])
    BY <1>1, <1>6
  <2>2. u = CASE q.op \in {"READ", "SHORT"} -> Device!handle_app_read(d, q, i)
              [] q.op = "WRITE" -> Device!handle_app_write(d, q, i)
              [] q.op = "EOS" -> Device!handle_app_eos(d, q, i)
              [] q.op = "RESET" -> Device!close_socket(Device!ReplyMsg(d, q, "OK"), i, TRUE)
    BY <1>6 DEF Device!handle_app_request
  <2> HIDE DEF u, i, open
  <2>3. CASE q.op \in {"READ", "SHORT"}
    <3>1. q \in Reads
      BY <2>3 DEF Reads
    <3>2. Drives(g, p, r, b, st, Device!handle_app_read(d, q, i))
      BY <2>1, <3>1, ReadOrder
    <3>3. u = Device!handle_app_read(d, q, i)
      BY <2>2, <2>3
    <3>4. QED
      BY <3>2, <3>3 DEF u
  <2>4. CASE q.op = "WRITE"
    <3>1. q \in Writes
      BY <2>4 DEF Writes
    <3>2. Drives(g, p, r, b, st, Device!handle_app_write(d, q, i))
      BY <2>1, <2>4, <3>1, WriteOrder
    <3>3. u = Device!handle_app_write(d, q, i)
      BY <2>2, <2>4
    <3>4. QED
      BY <3>2, <3>3 DEF u
  <2>5. CASE q.op = "EOS"
    <3>1. q \in Writes
      BY <2>5 DEF Writes
    <3>2. Drives(g, p, r, b, st, Device!handle_app_eos(d, q, i))
      BY <2>1, <3>1, EosOrder
    <3>3. u = Device!handle_app_eos(d, q, i)
      BY <2>2, <2>5
    <3>4. QED
      BY <3>2, <3>3 DEF u
  <2>6. CASE q.op = "RESET"
    <3>1. Drives(g, p, r, b, st, Device!close_socket(Device!ReplyMsg(d, q, "OK"), i, TRUE))
      BY <1>2, <2>1, RefuseOrder
    <3>2. u = Device!close_socket(Device!ReplyMsg(d, q, "OK"), i, TRUE)
      BY <2>2, <2>6
    <3>3. QED
      BY <3>1, <3>2 DEF u
  <2>7. QED
    BY <1>1, <1>6, <2>3, <2>4, <2>5, <2>6 DEF Ops
<1>7. QED
  BY <1>3, <1>4, <1>5, <1>6

\* The Amiga is reset (task_start, a314driver.c): its sockets are gone.
LEMMA RebootOrder ==
  ASSUME NEW g, NEW p, NEW r, NEW b, NEW st, NEW d, Drives(g, p, r, b, st, d),
         NEW e, Typed(e), DOMAIN e.socket = {},
         e.io = [q \in Requests |-> IF d.io[q] = "held" THEN "lost" ELSE d.io[q]],
         e.read = d.read, e.eosRead = d.eosRead, e.written = d.written, e.eosWritten = d.eosWritten,
         e.a2r = d.a2r
  PROVE  Drives(g, p, r, b, st, e)
<1>1. \A k \in Sessions : e.io[k] = "idle" => d.io[k] = "idle"
  BY RequestKinds
<1>2. Keeps(d, e, NoOne) /\ Ready(e)
  BY <1>1 DEF Keeps, Same, Ready
<1>3. Silent(d, e)
  BY DEF Silent
<1>4. QED
  BY <1>2, <1>3, DrivesQuietly

-----------------------------------------------------------------------------
(* The thread: what a step of it leaves of the sessions. *)

Assoc(p, i) == i \in DOMAIN p.channels /\ p.channels[i].association # NoOne
Continues(q, v, n, E) == \A lo, hi \in Int : Run(q, n, E, lo, hi) => Run(v, n, E, lo, hi)
Passes(q, v, n, E) ==
  Continues(q, v, n, E) /\ (Carries(v, E) => Carries(q, E)) /\ (Calls(v, n) => Calls(q, n))
Lost(q, n, E) == \A m \in Elems(q) : ~IsItem(m, n) /\ m \notin E
Runs(g, p, u, r, b, st, d) ==
  /\ p \in ThreadStates /\ u \in Seq(AmigaPackets) /\ r \in Seq(PiPackets) /\ b \in Seq(PiPackets)
  /\ st \in [Sessions -> StreamTypes] /\ d \in DriverStates
  /\ Order(g, p, u, r, b, st, d)

\* The types of what the steps of the thread start from.
LEMMA RunsTypes ==
  ASSUME NEW g, NEW p, NEW u, NEW r, NEW b, NEW st, NEW d, Runs(g, p, u, r, b, st, d)
  PROVE  /\ p \in ThreadStates /\ p.channels \in ChannelMaps /\ p.conn \in [Clients -> Conns]
         /\ p.services \in ServiceMaps /\ p.cc_next_stream_id \in [Clients -> Nat]
         /\ p.toCli \in [Clients -> Seq(ToClient)] /\ p.fromCli \in [Clients -> Seq(FromClient)]
         /\ u \in Seq(AmigaPackets) /\ r \in Seq(PiPackets) /\ b \in Seq(PiPackets)
         /\ st \in [Sessions -> StreamTypes] /\ d \in DriverStates
         /\ Order(g, p, u, r, b, st, d) /\ g \in Paths /\ Apart(g)
         /\ ThreadRouted(g, p) /\ ChannelsRouted(g, p) /\ MessagesRouted(g, p) /\ SidsRouted(g, p)
         /\ ServicesRouted(p) /\ StreamsRouted(g, p, st) /\ PacketsRouted(g, u) /\ SocketsRouted(g, d)
         /\ PacketsRouted(g, r) /\ PacketsRouted(g, b)
         /\ \A n \in Sessions : Lives(g, p, u, r, b, st, d, n)
  BY DEF Runs, Order, ThreadRouted, ThreadStates, Lives

\* A step keeps the order if it keeps the paths and what is under way of each session.
LEMMA RunsAgain ==
  ASSUME NEW g, NEW p, NEW u, NEW r, NEW b, NEW st, NEW d, Runs(g, p, u, r, b, st, d),
         NEW h \in Paths, h.id = g.id, Apart(h), NEW q \in ThreadStates, NEW v \in Seq(AmigaPackets),
         NEW t \in [Sessions -> StreamTypes], ThreadRouted(h, q), StreamsRouted(h, q, t), PacketsRouted(h, v),
         \A n \in Sessions : Lives(h, q, v, r, b, t, d, n)
  PROVE  Runs(h, q, v, r, b, t, d)
<1>1. Order(g, p, u, r, b, st, d)
  BY DEF Runs
<1>2. SocketsRouted(h, d) /\ PacketsRouted(h, r) /\ PacketsRouted(h, b)
  BY <1>1 DEF Order, SocketsRouted, PacketsRouted
<1>3. QED
  BY <1>1, <1>2 DEF Runs, Order, Lives

\* A queue that does not change, or gets something else, or loses it.
LEMMA PassesSame ==
  ASSUME NEW q, NEW n, NEW E
  PROVE  Passes(q, q, n, E)
  BY DEF Passes, Continues

\* Something else is put at the end of the queue,
LEMMA PassesAppend ==
  ASSUME NEW T, NEW q \in Seq(T), NEW x \in T, NEW n, NEW E, ~IsItem(x, n), x \notin E
  PROVE  Passes(q, Append(q, x), n, E)
<1>1. Continues(q, Append(q, x), n, E)
  BY RunAppendOther DEF Continues
<1>2. Elems(Append(q, x)) = Elems(q) \union {x}
  BY AppendAdds
<1>3. QED
  BY <1>1, <1>2 DEF Passes, Carries, Calls, IsItem

\* or taken from its head.
LEMMA PassesTail ==
  ASSUME NEW T, Carriers(T), NEW q \in Seq(T), q # <<>>, NEW n, NEW E, ~IsItem(Head(q), n)
  PROVE  Passes(q, Tail(q), n, E)
<1>1. Continues(q, Tail(q), n, E)
  BY RunTailOther DEF Continues
<1>2. Elems(q) = {Head(q)} \union Elems(Tail(q))
  BY HeadAndRest
<1>3. QED
  BY <1>1, <1>2 DEF Passes, Carries, Calls

\* A session keeps what is under way when what is before the thread, to its client
\* and from its client goes on.
OnU(g, n, u, v) ==
  /\ Carries(v, EosPackets(g.id[n])) => Carries(u, EosPackets(g.id[n]))
  /\ Elems(v) \subseteq Elems(u)
  /\ Calls(v, n) => Continues(u, v, n, EosPackets(g.id[n]))
OnDown(g, n, p, u, q, v) ==
  /\ Linked(g, n, q) => Linked(g, n, p) /\ Passes(p.toCli[g.cl[n]], q.toCli[g.cl[n]], n, EosMessages(g.sid[n]))
  /\ Linked(g, n, q) /\ Flows(g, n, q) => Flows(g, n, p) /\ Continues(u, v, n, EosPackets(g.id[n]))
OnUp(g, n, p, q) ==
  /\ g.cl[n] # NoOne /\ Carries(q.fromCli[g.cl[n]], EosMessages(g.sid[n])) =>
       Carries(p.fromCli[g.cl[n]], EosMessages(g.sid[n]))
  /\ Assoc(q, g.id[n]) =>
       Assoc(p, g.id[n]) /\ Continues(p.fromCli[g.cl[n]], q.fromCli[g.cl[n]], n, EosMessages(g.sid[n]))
  /\ \/ Passes(Queue(p, g.id[n]), Queue(q, g.id[n]), n, EosPackets(g.id[n]))
     \/ ~Assoc(q, g.id[n]) /\ Lost(Queue(q, g.id[n]), n, EosPackets(g.id[n]))

\* What is said of a session before its CONNECT is taken is said after such a step,
LEMMA BirthOn ==
  ASSUME NEW g, NEW n, NEW u, NEW v, OnU(g, n, u, v), NEW d \in DriverStates, NEW st, Birth(g, n, u, d, st),
         n \in Sessions
  PROVE  Birth(g, n, v, d, st)
<1>1. Calls(v, n) => Calls(u, n)
  BY DEF OnU, Calls
<1>2. d.written[n] \in Int /\ -1 \in Int
  BY DEF DriverStates
<1>3. Calls(v, n) => Run(v, n, EosPackets(g.id[n]), -1, d.written[n])
  BY <1>1, <1>2 DEF OnU, Continues, Birth
<1>4. QED
  BY <1>1, <1>3 DEF OnU, Birth

\* how much a client has taken is a number,
LEMMA TakenIs ==
  ASSUME NEW s \in StreamTypes
  PROVE  Taken(s) \in Int
<1>1. s.got \in Seq(Items)
  BY DEF StreamTypes
<1>2. Len(s.got) \in Int /\ -1 \in Int
  BY <1>1, LenProperties
<1>3. QED
  BY <1>2 DEF Taken

\* so is what is said of the way to the client,
LEMMA DownOn ==
  ASSUME NEW g, NEW n, NEW p, NEW u, NEW q, NEW v, OnU(g, n, u, v), OnDown(g, n, p, u, q, v), NEW d \in DriverStates, NEW st,
         n \in Sessions, st[n] \in StreamTypes, Down(g, n, p, u, d, st)
  PROVE  Down(g, n, q, v, d, st)
<1>1. Taken(st[n]) \in Int /\ d.written[n] \in Int /\ d.written[n] \in Nat
  BY TakenIs DEF DriverStates
<1>2. ASSUME Linked(g, n, q), st[n].st # "done" PROVE \E x \in 0..d.written[n] : DownTo(g, n, q, v, d, st, x)
  <2>1. PICK x \in 0..d.written[n] : DownTo(g, n, p, u, d, st, x)
    BY <1>2 DEF OnDown, Down
  <2>2. x \in Int
    OBVIOUS
  <2>3. DownTo(g, n, q, v, d, st, x)
    BY <1>1, <1>2, <2>1, <2>2 DEF DownTo, OnDown, Passes, Continues
  <2>4. QED
    BY <2>3
<1>3. QED
  BY <1>2 DEF Down, OnU, OnDown, Passes

\* A queue that has lost what it had of a session.
LEMMA LostRun ==
  ASSUME NEW T, NEW q \in Seq(T), NEW n, NEW E, Lost(q, n, E), NEW lo \in Int
  PROVE  Run(q, n, E, lo, lo) /\ ~Carries(q, E)
  BY RunNone DEF Lost, Carries

\* and of the way from it.
LEMMA UpOn ==
  ASSUME NEW g, NEW n, NEW p, NEW q \in ThreadStates, OnUp(g, n, p, q), NEW d, NEW r, NEW b, NEW st,
         st[n].sent \in Nat, Up(g, n, p, d, r, b, st)
  PROVE  Up(g, n, q, d, r, b, st)
<1> DEFINE i == g.id[n]
           E == EosPackets(i)
           s == st[n]
<1>1. ASSUME NEW z1 \in 0..s.sent, NEW z2 \in 0..s.sent, NEW z3 \in 0..s.sent, UpTo(g, n, p, d, r, b, s, z1, z2, z3)
      PROVE  \E z \in 0..s.sent : UpTo(g, n, q, d, r, b, s, z1, z2, z)
  <2>1. z2 \in Int /\ z3 \in Int /\ s.sent \in Int
    OBVIOUS
  <2>2. CASE Passes(Queue(p, i), Queue(q, i), n, E)
    <3>1. /\ Run(Queue(q, i), n, E, z2, z3)
          /\ Carries(Queue(q, i), E) => s.ended /\ z3 = s.sent
      BY <1>1, <2>1, <2>2 DEF UpTo, Passes, Continues
    <3>2. i \in DOMAIN q.channels /\ q.channels[i].association # NoOne =>
            Run(q.fromCli[g.cl[n]], n, EosMessages(g.sid[n]), z3, s.sent)
      BY <1>1, <2>1 DEF UpTo, OnUp, Assoc, Continues
    <3>3. UpTo(g, n, q, d, r, b, s, z1, z2, z3)
      BY <1>1, <3>1, <3>2 DEF UpTo
    <3>4. QED
      BY <3>3
  <2>3. CASE ~Assoc(q, i) /\ Lost(Queue(q, i), n, E)
    <3>1. Queue(q, i) \in Seq(PiPackets)
      BY MapsOfChannels, ChannelFields, NothingQueued DEF Queue, ThreadStates
    <3>2. Run(Queue(q, i), n, E, z2, z2) /\ ~Carries(Queue(q, i), E)
      BY <2>1, <2>3, <3>1, LostRun
    <3>3. z2 <= z2
      OBVIOUS
    <3>4. UpTo(g, n, q, d, r, b, s, z1, z2, z2)
      BY <1>1, <2>3, <3>2, <3>3 DEF UpTo, Assoc
    <3>5. QED
      BY <3>4
  <2>4. QED
    BY <2>2, <2>3 DEF OnUp
<1>2. UpOpen(g, n, p, d, r, b, s) => UpOpen(g, n, q, d, r, b, s)
  BY <1>1 DEF UpOpen
<1>3. QED
  BY <1>2 DEF Up, OnUp

\* What is under way of a session does not depend on the paths of others.
LEMMA LivesAlike ==
  ASSUME NEW g, NEW h, NEW p, NEW u, NEW r, NEW b, NEW st, NEW t, NEW d, NEW n, Lives(g, p, u, r, b, st, d, n),
         h.id[n] = g.id[n], h.cl[n] = g.cl[n], h.sid[n] = g.sid[n], t[n] = st[n]
  PROVE  Lives(h, p, u, r, b, t, d, n)
<1>1. Birth(h, n, u, d, t)
  BY DEF Lives, Birth, Unborn
<1>2. \A x : DownTo(g, n, p, u, d, st, x) => DownTo(h, n, p, u, d, t, x)
  BY DEF DownTo, Flows
<1>3. Down(h, n, p, u, d, t)
  BY <1>2 DEF Lives, Down, Linked
<1>4. \A z1, z2, z3 : UpTo(g, n, p, d, r, b, st[n], z1, z2, z3) => UpTo(h, n, p, d, r, b, t[n], z1, z2, z3)
  BY DEF UpTo
<1>5. UpOpen(g, n, p, d, r, b, st[n]) => UpOpen(h, n, p, d, r, b, t[n])
  BY <1>4 DEF UpOpen
<1>6. Up(h, n, p, d, r, b, t)
  BY <1>5 DEF Lives, Up
<1>7. QED
  BY <1>1, <1>3, <1>6 DEF Lives

\* Session n is not what the step is about.
Onward(g, n, p, u, q, v) == OnU(g, n, u, v) /\ OnDown(g, n, p, u, q, v) /\ OnUp(g, n, p, q)
LEMMA SessionOn ==
  ASSUME NEW g, NEW p, NEW u, NEW r, NEW b, NEW st, NEW d, Runs(g, p, u, r, b, st, d),
         NEW n \in Sessions, NEW q \in ThreadStates, NEW v, Onward(g, n, p, u, q, v)
  PROVE  Lives(g, q, v, r, b, st, d, n)
<1>1. /\ Birth(g, n, u, d, st) /\ Down(g, n, p, u, d, st) /\ Up(g, n, p, d, r, b, st)
      /\ d \in DriverStates /\ st[n] \in StreamTypes
  BY RunsTypes DEF Lives
<1>2. st[n].sent \in Nat
  BY <1>1 DEF StreamTypes
<1>3. Birth(g, n, v, d, st)
  BY <1>1, BirthOn DEF Onward
<1>4. Down(g, n, q, v, d, st)
  BY <1>1, DownOn DEF Onward
<1>5. Up(g, n, q, d, r, b, st)
  BY <1>1, <1>2, UpOn DEF Onward
<1>6. QED
  BY <1>3, <1>4, <1>5 DEF Lives

\* The packets to the thread may be the same.
LEMMA OnUSame ==
  ASSUME NEW g, NEW n, NEW u
  PROVE  OnU(g, n, u, u) /\ Continues(u, u, n, EosPackets(g.id[n]))
  BY DEF OnU, Continues

\* The channels change, and nothing else.
SameWires(p, q) ==
  /\ q.services = p.services /\ q.cc_next_stream_id = p.cc_next_stream_id /\ q.conn = p.conn
  /\ q.toCli = p.toCli /\ q.fromCli = p.fromCli
OnChannel(g, n, p, q) ==
  /\ Assoc(q, g.id[n]) => Assoc(p, g.id[n])
  /\ Flows(g, n, q) => Flows(g, n, p)
  /\ \/ Passes(Queue(p, g.id[n]), Queue(q, g.id[n]), n, EosPackets(g.id[n]))
     \/ ~Assoc(q, g.id[n]) /\ Lost(Queue(q, g.id[n]), n, EosPackets(g.id[n]))
LEMMA ChannelsOrder ==
  ASSUME NEW g, NEW p, NEW u, NEW r, NEW b, NEW st, NEW d, Runs(g, p, u, r, b, st, d),
         NEW q \in ThreadStates, SameWires(p, q), ChannelsRouted(g, q),
         \A n \in Sessions : OnChannel(g, n, p, q)
  PROVE  Runs(g, q, u, r, b, st, d)
<1>1. ASSUME NEW n \in Sessions PROVE Lives(g, q, u, r, b, st, d, n)
  <2>1. OnDown(g, n, p, u, q, u)
    BY OnUSame, PassesSame DEF OnDown, OnChannel, SameWires, Linked
  <2>2. OnUp(g, n, p, q)
    BY PassesSame DEF OnUp, OnChannel, SameWires, Passes
  <2>3. QED
    BY <2>1, <2>2, OnUSame, SessionOn DEF Onward
<1>2. ThreadRouted(g, q)
  BY RunsTypes DEF ThreadRouted, MessagesRouted, SidsRouted, ServicesRouted, SameWires, Registered
<1>3. StreamsRouted(g, q, st)
  BY RunsTypes DEF StreamsRouted, SameWires
<1>4. QED
  BY <1>1, <1>2, <1>3, RunsTypes, RunsAgain

(***************************************************************************)
(* One channel goes from x to y: it loses its client, or gets a packet     *)
(* that is not an item or EOS, or loses its client and all its packets.    *)
(***************************************************************************)
Plain(i, m) == m \in PiPackets /\ m.id = i /\ m.type \in {"CONNECT_RESPONSE", "RESET"}
Settles(i, x, y) ==
  /\ y.association # NoOne => y.association = x.association /\ y.stream_id = x.stream_id
  /\ y.association # NoOne /\ ~y.got_eos_from_ami => ~x.got_eos_from_ami
  /\ \/ y.packet_queue = x.packet_queue
     \/ \E m : y.packet_queue = Append(x.packet_queue, m) /\ Plain(i, m)
     \/ y.packet_queue = <<>> /\ y.association = NoOne
OneChannel(p, q, i) ==
  /\ SameWires(p, q) /\ DOMAIN q.channels = DOMAIN p.channels
  /\ \A j \in DOMAIN p.channels : j # i => q.channels[j] = p.channels[j]
LEMMA ChannelOrder ==
  ASSUME NEW g, NEW p, NEW u, NEW r, NEW b, NEW st, NEW d, Runs(g, p, u, r, b, st, d),
         NEW i \in DOMAIN p.channels, NEW q \in ThreadStates, OneChannel(p, q, i), Settles(i, p.channels[i], q.channels[i])
  PROVE  Runs(g, q, u, r, b, st, d)
<1> DEFINE x == p.channels[i]
           y == q.channels[i]
<1>1. /\ ChannelsRouted(g, p) /\ p.channels \in ChannelMaps /\ i \in Ids
  BY RunsTypes, MapsOfChannels
<1>2. x.packet_queue \in Seq(PiPackets) /\ PacketsRouted(g, x.packet_queue) /\ \A m \in Elems(x.packet_queue) : m.id = i
  BY <1>1, MapsOfChannels, ChannelFields DEF ChannelsRouted
<1>3. /\ PacketsRouted(g, y.packet_queue) /\ \A m \in Elems(y.packet_queue) : m.id = i
      /\ \A n \in Sessions : \/ Passes(x.packet_queue, y.packet_queue, n, EosPackets(g.id[n]))
                             \/ y.association = NoOne /\ Lost(y.packet_queue, n, EosPackets(g.id[n]))
  <2>1. CASE y.packet_queue = x.packet_queue
    BY <1>2, <2>1, PassesSame
  <2>2. CASE \E m : y.packet_queue = Append(x.packet_queue, m) /\ Plain(i, m)
    <3>1. PICK m : y.packet_queue = Append(x.packet_queue, m) /\ Plain(i, m)
      BY <2>2
    <3>2. m \in PiPackets /\ m.id = i /\ m.type \notin {"CONNECT", "DATA", "EOS"}
      BY <3>1 DEF Plain
    <3>3. Elems(y.packet_queue) = Elems(x.packet_queue) \union {m}
      BY <1>2, <3>1, <3>2, AppendAdds
    <3>4. \A n \in Sessions : ~IsItem(m, n) /\ m \notin EosPackets(g.id[n])
      BY <3>2 DEF IsItem, EosPackets
    <3>5. \A n \in Sessions : Passes(x.packet_queue, y.packet_queue, n, EosPackets(g.id[n]))
      BY <1>2, <3>1, <3>2, <3>4, PassesAppend
    <3>6. PacketsRouted(g, y.packet_queue)
      BY <1>2, <3>2, <3>3 DEF PacketsRouted
    <3>7. QED
      BY <1>2, <3>2, <3>3, <3>5, <3>6
  <2>3. CASE y.packet_queue = <<>> /\ y.association = NoOne
    BY <2>3, NothingQueued DEF PacketsRouted, Lost
  <2>4. QED
    BY <2>1, <2>2, <2>3 DEF Settles
<1>4. ChannelsRouted(g, q)
  <2>1. ASSUME NEW j \in DOMAIN q.channels
        PROVE  /\ PacketsRouted(g, q.channels[j].packet_queue)
               /\ \A m \in Elems(q.channels[j].packet_queue) : m.id = j
               /\ q.channels[j].association # NoOne =>
                    \E n \in Sessions : /\ g.id[n] = j /\ g.cl[n] = q.channels[j].association
                                        /\ g.sid[n] = q.channels[j].stream_id
    <3>1. CASE j = i
      BY <1>1, <1>3, <3>1 DEF ChannelsRouted, Settles
    <3>2. CASE j # i
      BY <1>1, <2>1, <3>2 DEF ChannelsRouted, OneChannel
    <3>3. QED
      BY <3>1, <3>2
  <2>2. QED
    BY <2>1 DEF ChannelsRouted
<1>5. ASSUME NEW n \in Sessions PROVE OnChannel(g, n, p, q)
  <2>1. CASE g.id[n] = i
    BY <1>3, <2>1 DEF OnChannel, Queue, OneChannel, Assoc, Flows, Settles
  <2>2. CASE g.id[n] # i
    BY <2>2, PassesSame DEF OnChannel, Queue, OneChannel, Assoc, Flows
  <2>3. QED
    BY <2>1, <2>2
<1>6. SameWires(p, q)
  BY DEF OneChannel
<1>7. QED
  BY <1>4, <1>5, <1>6, ChannelsOrder

\* remove_association (a314.cc)
LEMMA UnlinkOrder ==
  ASSUME NEW g, NEW p, NEW u, NEW r, NEW b, NEW st, NEW d, Runs(g, p, u, r, b, st, d),
         NEW i \in DOMAIN p.channels, p.channels[i].association \in Clients
  PROVE  Runs(g, Thread!remove_association(p, i), u, r, b, st, d)
<1> DEFINE q == Thread!remove_association(p, i)
<1>1. p \in ThreadStates
  BY RunsTypes
<1>2. /\ q \in ThreadStates /\ DOMAIN q.channels = DOMAIN p.channels
      /\ q.channels[i].association = NoOne /\ q.channels[i].packet_queue = p.channels[i].packet_queue
      /\ \A j \in DOMAIN p.channels : j # i => q.channels[j] = p.channels[j]
  BY <1>1, UnlistWrites
<1>3. SameWires(p, q)
  BY <1>1 DEF Thread!remove_association, SameWires, ThreadStates
<1> HIDE DEF q
<1>4. OneChannel(p, q, i) /\ Settles(i, p.channels[i], q.channels[i])
  BY <1>2, <1>3 DEF OneChannel, Settles
<1>5. QED
  BY <1>2, <1>4, ChannelOrder DEF q

\* clear_packet_queue (a314.cc), of a channel without a client
LEMMA ClearOrder ==
  ASSUME NEW g, NEW p, NEW u, NEW r, NEW b, NEW st, NEW d, Runs(g, p, u, r, b, st, d),
         NEW i \in DOMAIN p.channels, p.channels[i].association = NoOne
  PROVE  Runs(g, Thread!clear_packet_queue(p, i), u, r, b, st, d)
<1> DEFINE q == Thread!clear_packet_queue(p, i)
<1>1. p \in ThreadStates
  BY RunsTypes
<1>2. /\ q \in ThreadStates /\ DOMAIN q.channels = DOMAIN p.channels
      /\ q.channels[i].association = NoOne /\ q.channels[i].packet_queue = <<>>
      /\ \A j \in DOMAIN p.channels : j # i => q.channels[j] = p.channels[j]
  BY <1>1, ClearWrites
<1>3. SameWires(p, q)
  BY <1>1 DEF Thread!clear_packet_queue, SameWires, ThreadStates
<1> HIDE DEF q
<1>4. OneChannel(p, q, i) /\ Settles(i, p.channels[i], q.channels[i])
  BY <1>2, <1>3 DEF OneChannel, Settles
<1>5. QED
  BY <1>2, <1>4, ChannelOrder DEF q

\* What create_and_enqueue_packet (a314.cc) writes.
LEMMA EnqueuedIs ==
  ASSUME NEW p \in ThreadStates, NEW i \in DOMAIN p.channels, NEW t \in {"CONNECT_RESPONSE", "DATA", "EOS", "RESET"},
         NEW x \in Items
  PROVE  LET q == Thread!create_and_enqueue_packet(p, i, t, x)
             m == Thread!Pkt(t, i, x) IN
         /\ q \in ThreadStates /\ OneChannel(p, q, i) /\ m \in PiPackets /\ m.id = i /\ m.type = t /\ m.data = x
         /\ q.channels[i] = [p.channels[i] EXCEPT !.packet_queue = Append(@, m)]
<1> DEFINE q == Thread!create_and_enqueue_packet(p, i, t, x)
           m == Thread!Pkt(t, i, x)
           s == Append(p.channels[i].packet_queue, m)
<1>1. p.channels \in ChannelMaps /\ p.channels[i] \in Channel /\ i \in Ids
  BY MapsOfChannels DEF ThreadStates
<1>2. m \in PiPackets /\ m.id = i /\ m.type = t /\ m.data = x
  BY <1>1 DEF PiPackets, Thread!Pkt
<1>3. q \in ThreadStates /\ DOMAIN q.channels = DOMAIN p.channels
  BY EnqueueWrites
<1> DEFINE y == [p.channels[i] EXCEPT !.packet_queue = s]
<1>4. q.channels = [p.channels EXCEPT ![i] = y]
  BY DEF Thread!create_and_enqueue_packet, ThreadStates
<1>5. s \in Seq(PiPackets)
  BY <1>1, <1>2, ChannelFields, AppendAdds
<1> HIDE DEF m
<1>6. y \in Channel
  BY <1>1, <1>5, ChannelFields
<1> HIDE DEF y
<1>7. q.channels[i] = y /\ \A j \in DOMAIN p.channels : j # i => q.channels[j] = p.channels[j]
  BY <1>1, <1>4, <1>6, ChannelReplaced
<1>8. SameWires(p, q)
  BY DEF Thread!create_and_enqueue_packet, SameWires, ThreadStates
<1> HIDE DEF q
<1>9. OneChannel(p, q, i)
  BY <1>3, <1>7, <1>8 DEF OneChannel
<1>10. QED
  BY <1>2, <1>3, <1>7, <1>9 DEF q, m, y, s

\* A packet that says that the channel is connected or reset.
LEMMA EnqueueOrder ==
  ASSUME NEW g, NEW p, NEW u, NEW r, NEW b, NEW st, NEW d, Runs(g, p, u, r, b, st, d),
         NEW i \in DOMAIN p.channels, NEW t \in {"CONNECT_RESPONSE", "RESET"}, NEW x \in Items
  PROVE  Runs(g, Thread!create_and_enqueue_packet(p, i, t, x), u, r, b, st, d)
<1> DEFINE q == Thread!create_and_enqueue_packet(p, i, t, x)
           m == Thread!Pkt(t, i, x)
<1>1. p \in ThreadStates /\ p.channels[i] \in Channel
  BY RunsTypes, MapsOfChannels
<1>2. /\ q \in ThreadStates /\ OneChannel(p, q, i) /\ m \in PiPackets /\ m.id = i /\ m.type = t
      /\ q.channels[i] = [p.channels[i] EXCEPT !.packet_queue = Append(@, m)]
  BY <1>1, EnqueuedIs
<1> HIDE DEF q, m
<1>3. Plain(i, m)
  BY <1>2 DEF Plain
<1>4. Settles(i, p.channels[i], q.channels[i])
  BY <1>1, <1>2, <1>3 DEF Settles, Channel
<1>5. QED
  BY <1>2, <1>4, ChannelOrder DEF q

\* A channel without a client comes or goes: it has no packets.
LEMMA TableOrder ==
  ASSUME NEW g, NEW p, NEW u, NEW r, NEW b, NEW st, NEW d, Runs(g, p, u, r, b, st, d),
         NEW q \in ThreadStates, SameWires(p, q),
         \A i \in DOMAIN p.channels \intersect DOMAIN q.channels : q.channels[i] = p.channels[i],
         \A i \in DOMAIN p.channels \ DOMAIN q.channels :
           p.channels[i].association = NoOne /\ p.channels[i].packet_queue = <<>>,
         \A i \in DOMAIN q.channels \ DOMAIN p.channels :
           q.channels[i].association = NoOne /\ q.channels[i].packet_queue = <<>>
  PROVE  Runs(g, q, u, r, b, st, d)
<1>1. ChannelsRouted(g, p)
  BY RunsTypes
<1>2. ASSUME NEW j \in DOMAIN q.channels
      PROVE  /\ PacketsRouted(g, q.channels[j].packet_queue)
             /\ \A m \in Elems(q.channels[j].packet_queue) : m.id = j
             /\ q.channels[j].association # NoOne =>
                  \E n \in Sessions : /\ g.id[n] = j /\ g.cl[n] = q.channels[j].association
                                      /\ g.sid[n] = q.channels[j].stream_id
  <2>1. CASE j \in DOMAIN p.channels
    BY <1>1, <2>1 DEF ChannelsRouted
  <2>2. CASE j \notin DOMAIN p.channels
    <3>1. q.channels[j].association = NoOne /\ q.channels[j].packet_queue = <<>> /\ Elems(<<>>) = {}
      BY <2>2, NothingQueued
    <3>2. QED
      BY <3>1 DEF PacketsRouted
  <2>3. QED
    BY <2>1, <2>2
<1>3. ChannelsRouted(g, q)
  BY <1>2 DEF ChannelsRouted
<1>4. ASSUME NEW n \in Sessions PROVE OnChannel(g, n, p, q)
  BY PassesSame DEF OnChannel, Queue, Assoc, Flows
<1>5. QED
  BY <1>3, <1>4, ChannelsOrder

\* remove_channel_if_not_associated_and_empty_pq (a314.cc)
LEMMA RemoveOrder ==
  ASSUME NEW g, NEW p, NEW u, NEW r, NEW b, NEW st, NEW d, Runs(g, p, u, r, b, st, d), NEW i
  PROVE  Runs(g, Thread!remove_channel_if_not_associated_and_empty_pq(p, i), u, r, b, st, d)
<1> DEFINE q == Thread!remove_channel_if_not_associated_and_empty_pq(p, i)
<1>1. p \in ThreadStates /\ p.channels \in ChannelMaps
  BY RunsTypes
<1>2. CASE i \in DOMAIN p.channels /\ p.channels[i].association = NoOne /\ p.channels[i].packet_queue = <<>>
  <2>1. q = [p EXCEPT !.channels = Thread!Drop(@, i)]
    BY <1>2 DEF Thread!remove_channel_if_not_associated_and_empty_pq
  <2>2. q.channels = Thread!Drop(p.channels, i) /\ SameWires(p, q)
    BY <1>1, <2>1 DEF SameWires, ThreadStates
  <2>3. DOMAIN q.channels = DOMAIN p.channels \ {i} /\ \A j \in DOMAIN q.channels : q.channels[j] = p.channels[j]
    BY <2>2 DEF Thread!Drop
  <2>4. Thread!Drop(p.channels, i) \in [DOMAIN p.channels \ {i} -> Channel] /\ DOMAIN p.channels \ {i} \in SUBSET Ids
    BY <1>1, MapsOfChannels DEF Thread!Drop
  <2>5. Thread!Drop(p.channels, i) \in ChannelMaps
    BY <2>4, MapsOfChannels
  <2>6. q \in ThreadStates
    BY <1>1, <2>1, <2>5 DEF ThreadStates
  <2> HIDE DEF q
  <2>7. QED
    BY <1>2, <2>2, <2>3, <2>6, TableOrder DEF q
<1>3. CASE ~(i \in DOMAIN p.channels /\ p.channels[i].association = NoOne /\ p.channels[i].packet_queue = <<>>)
  BY <1>3 DEF Thread!remove_channel_if_not_associated_and_empty_pq
<1>4. QED
  BY <1>2, <1>3

\* handle_pkt_connect (a314.cc) makes the channel.
WithIdle(p, i) == [p EXCEPT !.channels = Thread!Extend(@, i, Idle)]
LEMMA IdleOrder ==
  ASSUME NEW g, NEW p, NEW u, NEW r, NEW b, NEW st, NEW d, Runs(g, p, u, r, b, st, d),
         NEW i \in Ids, i \notin DOMAIN p.channels
  PROVE  LET q == WithIdle(p, i) IN
         Runs(g, q, u, r, b, st, d) /\ i \in DOMAIN q.channels /\ q.channels[i] = Idle /\ SameWires(p, q)
<1> DEFINE q == WithIdle(p, i)
<1>1. p \in ThreadStates /\ p.channels \in ChannelMaps
  BY RunsTypes
<1>2. q.channels = Thread!Extend(p.channels, i, Idle) /\ SameWires(p, q)
  BY <1>1 DEF SameWires, ThreadStates, WithIdle
<1>3. /\ DOMAIN q.channels = DOMAIN p.channels \union {i} /\ q.channels[i] = Idle
      /\ \A j \in DOMAIN p.channels : q.channels[j] = p.channels[j]
  BY <1>2 DEF Thread!Extend
<1>4. Idle \in Channel
  BY NothingQueued DEF Idle, Channel
<1>5. Thread!Extend(p.channels, i, Idle) \in [DOMAIN p.channels \union {i} -> Channel] /\ DOMAIN p.channels \union {i} \in SUBSET Ids
  BY <1>1, <1>4, MapsOfChannels DEF Thread!Extend
<1>6. q.channels \in ChannelMaps
  BY <1>2, <1>5, MapsOfChannels
<1>7. q \in ThreadStates
  BY <1>1, <1>2, <1>6 DEF ThreadStates, WithIdle
<1>8. q.channels[i].association = NoOne /\ q.channels[i].packet_queue = <<>>
  BY <1>3 DEF Idle
<1> HIDE DEF q
<1>9. Runs(g, q, u, r, b, st, d)
  BY <1>2, <1>3, <1>7, <1>8, TableOrder
<1>10. QED
  BY <1>2, <1>3, <1>9 DEF q

-----------------------------------------------------------------------------
(* Messages to the clients. *)

\* A write never makes or loses a connection (AfterWrites): it may be the one that fails.
LEMMA AfterWritesKeeps ==
  ASSUME NEW x \in Conns, NEW k \in Nat
  PROVE  LET y == Thread!AfterWrites(x, k) IN
         y \in Conns /\ (y = "up" <=> x = "up") /\ (y = "none" <=> x = "none")
<1> DEFINE at == {n \in DOMAIN Thread!Stages : Thread!Stages[n] = x}
           n == CHOOSE n \in at : TRUE
<1>1. /\ DOMAIN Thread!Stages = 1..4
      /\ \A j \in 1..4 : Thread!Stages[j] \in Conns \ {"up", "none"}
  BY DEF Thread!Stages, Conns
<1>2. CASE at = {} \/ k = 0
  BY <1>2 DEF Thread!AfterWrites
<1>3. CASE ~(at = {} \/ k = 0)
  <2>1. n \in 1..4 /\ Thread!Stages[n] = x
    BY <1>1, <1>3
  <2>2. Thread!AfterWrites(x, k) = Thread!Stages[IF n + k > 4 THEN 4 ELSE n + k]
    BY <1>3 DEF Thread!AfterWrites
  <2> HIDE DEF n
  <2>3. (IF n + k > 4 THEN 4 ELSE n + k) \in 1..4
    BY <2>1
  <2>4. QED
    BY <1>1, <2>1, <2>2, <2>3
<1>4. QED
  BY <1>2, <1>3

\* A message that the thread may send to client c.
Spoken(g, p, c, m) ==
  /\ m.type \in {"CONNECT", "DATA"} =>
       /\ m.data.session \in Sessions /\ g.cl[m.data.session] = c /\ g.sid[m.data.session] = m.sid
  /\ m.type = "CONNECT" => m.data.number = 0
  /\ m.type = "DATA" => m.data.number # 0
  /\ m.type \notin Registers => m.sid < p.cc_next_stream_id[c]
  /\ m.type = "REGISTER_RES" =>
       ~Asking(p.fromCli[c]) /\ (m.data.number # 1 => c \notin Registered(p))
SameConns(p, q) ==
  \A c \in Clients : (q.conn[c] = "up" <=> p.conn[c] = "up") /\ (q.conn[c] = "none" <=> p.conn[c] = "none")
Tells(g, p, q) ==
  /\ q.services = p.services /\ q.fromCli = p.fromCli /\ q.cc_next_stream_id = p.cc_next_stream_id
  /\ SameConns(p, q)
  /\ \A c \in Clients : /\ \A m \in Elems(q.toCli[c]) : m \in Elems(p.toCli[c]) \/ Spoken(g, p, c, m)
                        /\ p.conn[c] = "none" => q.toCli[c] = <<>>

\* Messages of a session stay on its connection.
LEMMA ToldRouted ==
  ASSUME NEW g, NEW p \in ThreadStates, MessagesRouted(g, p), SidsRouted(g, p), ServicesRouted(p),
         NEW q, Tells(g, p, q)
  PROVE  /\ MessagesRouted(g, q) /\ SidsRouted(g, q) /\ ServicesRouted(q)
         /\ \A st : (\A n \in Sessions : st[n].client \in Clients \union {NoOne}) /\ StreamsRouted(g, p, st) => StreamsRouted(g, q, st)
<1>1. ASSUME NEW c \in Clients PROVE Said(g, c, q.toCli[c], q.cc_next_stream_id[c])
  <2>1. Said(g, c, p.toCli[c], p.cc_next_stream_id[c])
    BY DEF MessagesRouted
  <2>2. QED
    BY <2>1 DEF Said, Tells, Spoken
<1>2. MessagesRouted(g, q)
  BY <1>1 DEF MessagesRouted, Tells
<1>3. SidsRouted(g, q)
  BY DEF SidsRouted, Tells, Registered
<1>4. Registered(q) = Registered(p)
  BY DEF Registered, Tells
<1>5. p.services \in ServiceMaps
  BY DEF ThreadStates
<1>6. \A s \in DOMAIN p.services : p.services[s] \in Clients
  BY <1>5 DEF ServiceMaps
<1>7. ASSUME NEW c \in Clients
      PROVE  /\ Asking(q.fromCli[c]) =>
                  /\ c \notin Registered(q) /\ ~Asking(Tail(q.fromCli[c]))
                  /\ Head(q.fromCli[c]).type = "REGISTER_REQ"
                  /\ \A m \in Elems(q.toCli[c]) : m.type # "REGISTER_RES"
             /\ Refused(q.toCli[c]) => c \notin Registered(q)
             /\ q.conn[c] = "none" => q.toCli[c] = <<>> /\ q.fromCli[c] = <<>>
  BY <1>4 DEF ServicesRouted, Tells, SameConns, Refused, Spoken
<1>8. ServicesRouted(q)
  BY <1>4, <1>6, <1>7, ClientAssumption DEF ServicesRouted, Tells, SameConns
<1>9. ASSUME NEW st, \A n \in Sessions : st[n].client \in Clients \union {NoOne}, StreamsRouted(g, p, st)
      PROVE  StreamsRouted(g, q, st)
  BY <1>9 DEF StreamsRouted, Tells, SameConns
<1>10. QED
  BY <1>2, <1>3, <1>8, <1>9

\* create_and_send_msg (a314.cc): m goes to client c if it is there.
Sends(p, q, c, m) ==
  /\ q.channels = p.channels /\ q.services = p.services /\ q.fromCli = p.fromCli
  /\ q.cc_next_stream_id = p.cc_next_stream_id /\ SameConns(p, q)
  /\ \A k \in Clients : q.toCli[k] = IF k = c /\ p.conn[c] = "up" THEN Append(p.toCli[c], m) ELSE p.toCli[k]
LEMMA SentIs ==
  ASSUME NEW p \in ThreadStates, NEW c \in Clients, NEW m \in ToClient
  PROVE  LET q == Thread!create_and_send_msg(p, c, m) IN q \in ThreadStates /\ Sends(p, q, c, m)
<1> DEFINE q == Thread!create_and_send_msg(p, c, m)
<1>1. q \in ThreadStates
  BY MsgWrites
<1>2. /\ p.conn \in [Clients -> Conns] /\ p.toCli \in [Clients -> Seq(ToClient)]
  BY DEF ThreadStates
<1>3. /\ q.channels = p.channels /\ q.services = p.services /\ q.fromCli = p.fromCli
      /\ q.cc_next_stream_id = p.cc_next_stream_id
      /\ q.conn = [p.conn EXCEPT ![c] = Thread!AfterWrites(@, 1)]
      /\ q.toCli = [p.toCli EXCEPT ![c] = IF p.conn[c] = "up" THEN Append(@, m) ELSE @]
  BY DEF Thread!create_and_send_msg, ThreadStates
<1>4. SameConns(p, q)
  <2>1. ASSUME NEW k \in Clients
        PROVE  (q.conn[k] = "up" <=> p.conn[k] = "up") /\ (q.conn[k] = "none" <=> p.conn[k] = "none")
    <3>1. p.conn[k] \in Conns /\ 1 \in Nat
      BY <1>2
    <3> DEFINE y == Thread!AfterWrites(p.conn[k], 1)
    <3>2. (y = "up" <=> p.conn[k] = "up") /\ (y = "none" <=> p.conn[k] = "none")
      BY <3>1, AfterWritesKeeps
    <3> HIDE DEF y
    <3>3. q.conn[k] = p.conn[k] \/ q.conn[k] = y
      BY <1>2, <1>3 DEF y
    <3>4. QED
      BY <3>2, <3>3
  <2>2. QED
    BY <2>1 DEF SameConns
<1>5. \A k \in Clients : q.toCli[k] = IF k = c /\ p.conn[c] = "up" THEN Append(p.toCli[c], m) ELSE p.toCli[k]
  BY <1>2, <1>3
<1>6. QED
  BY <1>1, <1>3, <1>4, <1>5 DEF Sends

\* A message that is sent is one that may be.
LEMMA SendsTells ==
  ASSUME NEW g, NEW p \in ThreadStates, ServicesRouted(p), NEW c \in Clients, NEW m \in ToClient, Spoken(g, p, c, m),
         NEW q, Sends(p, q, c, m)
  PROVE  Tells(g, p, q)
<1>1. p.toCli[c] \in Seq(ToClient)
  BY DEF ThreadStates
<1>2. Elems(Append(p.toCli[c], m)) = Elems(p.toCli[c]) \union {m}
  BY <1>1, AppendAdds
<1>3. \A k \in Clients : p.conn[k] = "none" => p.toCli[k] = <<>>
  BY DEF ServicesRouted
<1>4. QED
  BY <1>2, <1>3 DEF Sends, Tells

\* Messages are sent that are no items of a session and not its EOS.
LEMMA TellsOrder ==
  ASSUME NEW g, NEW p, NEW u, NEW r, NEW b, NEW st, NEW d, Runs(g, p, u, r, b, st, d),
         NEW q \in ThreadStates, q.channels = p.channels, Tells(g, p, q),
         \A n \in Sessions : g.cl[n] # NoOne =>
           Passes(p.toCli[g.cl[n]], q.toCli[g.cl[n]], n, EosMessages(g.sid[n]))
  PROVE  Runs(g, q, u, r, b, st, d)
<1>1. g \in Paths /\ \A n \in Sessions : st[n].client \in Clients \union {NoOne}
  BY RunsTypes DEF StreamTypes
<1>2. p \in ThreadStates /\ MessagesRouted(g, p) /\ SidsRouted(g, p) /\ ServicesRouted(p) /\ StreamsRouted(g, p, st)
  BY RunsTypes
<1>3. MessagesRouted(g, q) /\ SidsRouted(g, q) /\ ServicesRouted(q) /\ StreamsRouted(g, q, st)
  BY <1>1, <1>2, ToldRouted
<1>4. ChannelsRouted(g, q)
  BY RunsTypes DEF ChannelsRouted
<1>5. ASSUME NEW n \in Sessions PROVE Lives(g, q, u, r, b, st, d, n)
  <2>1. g.cl[n] # NoOne => g.cl[n] \in Clients
    BY <1>1 DEF Paths
  <2>2. Linked(g, n, q) => Linked(g, n, p)
    BY <2>1 DEF Linked, Tells, SameConns
  <2>3. OnDown(g, n, p, u, q, u)
    BY <2>2, OnUSame DEF OnDown, Flows, Linked
  <2>4. OnUp(g, n, p, q)
    BY PassesSame DEF OnUp, Assoc, Queue, Tells, Passes
  <2>5. QED
    BY <2>3, <2>4, OnUSame, SessionOn DEF Onward
<1>6. QED
  BY <1>3, <1>4, <1>5, RunsTypes, RunsAgain DEF ThreadRouted

\* A RESET or REGISTER_RES is sent.
LEMMA SendOrder ==
  ASSUME NEW g, NEW p, NEW u, NEW r, NEW b, NEW st, NEW d, Runs(g, p, u, r, b, st, d),
         NEW c \in Clients, NEW m \in ToClient, m.type \in {"RESET", "REGISTER_RES"}, Spoken(g, p, c, m)
  PROVE  Runs(g, Thread!create_and_send_msg(p, c, m), u, r, b, st, d)
<1> DEFINE q == Thread!create_and_send_msg(p, c, m)
<1>1. p \in ThreadStates /\ ServicesRouted(p) /\ p.toCli[c] \in Seq(ToClient) /\ g \in Paths
  BY RunsTypes
<1>2. q \in ThreadStates /\ Sends(p, q, c, m)
  BY <1>1, SentIs
<1> HIDE DEF q
<1>3. Tells(g, p, q)
  BY <1>1, <1>2, SendsTells
<1>4. ASSUME NEW n \in Sessions, g.cl[n] # NoOne
      PROVE  Passes(p.toCli[g.cl[n]], q.toCli[g.cl[n]], n, EosMessages(g.sid[n]))
  <2>1. ~IsItem(m, n) /\ m \notin EosMessages(g.sid[n])
    BY DEF IsItem, EosMessages
  <2>2. Passes(p.toCli[c], Append(p.toCli[c], m), n, EosMessages(g.sid[n]))
    BY <1>1, <2>1, PassesAppend
  <2>3. g.cl[n] \in Clients
    BY <1>1, <1>4 DEF Paths
  <2>4. QED
    BY <1>2, <2>2, <2>3, PassesSame DEF Sends
<1>5. q.channels = p.channels
  BY <1>2 DEF Sends
<1>6. QED
  BY <1>2, <1>3, <1>4, <1>5, TellsOrder DEF q

-----------------------------------------------------------------------------
(* Packets from the Amiga. *)

\* The session of a channel with a client.
IsOf(g, p, i, n) ==
  /\ n \in Sessions /\ g.id[n] = i /\ g.cl[n] = p.channels[i].association /\ g.sid[n] = p.channels[i].stream_id
  /\ \A k \in Sessions : g.id[k] = i \/ (g.cl[k] = g.cl[n] /\ g.sid[k] = g.sid[n]) => k = n
  /\ g.cl[n] \in Clients /\ g.sid[n] < p.cc_next_stream_id[g.cl[n]] /\ i \in Ids
LEMMA SessionOf ==
  ASSUME NEW g, NEW p, NEW u, NEW r, NEW b, NEW st, NEW d, Runs(g, p, u, r, b, st, d),
         NEW i \in DOMAIN p.channels, p.channels[i].association # NoOne
  PROVE  \E n : IsOf(g, p, i, n)
<1>1. /\ ChannelsRouted(g, p) /\ SidsRouted(g, p) /\ Apart(g) /\ p.channels \in ChannelMaps /\ g \in Paths
  BY RunsTypes
<1>2. PICK n \in Sessions : g.id[n] = i /\ g.cl[n] = p.channels[i].association /\ g.sid[n] = p.channels[i].stream_id
  BY <1>1 DEF ChannelsRouted
<1>3. i \in Ids /\ i # 0
  BY <1>1, MapsOfChannels, IdAssumption DEF Ids
<1>4. g.cl[n] \in Clients /\ g.sid[n] < p.cc_next_stream_id[g.cl[n]]
  BY <1>1, <1>2 DEF SidsRouted, Paths
<1>5. \A k \in Sessions : g.id[k] = i \/ (g.cl[k] = g.cl[n] /\ g.sid[k] = g.sid[n]) => k = n
  BY <1>1, <1>2, <1>3 DEF Apart
<1>6. QED
  BY <1>2, <1>3, <1>4, <1>5 DEF IsOf

\* A packet is taken from what the thread has to take.
LEMMA TailOnU ==
  ASSUME NEW g, NEW p, NEW u, NEW r, NEW b, NEW st, NEW d, Runs(g, p, u, r, b, st, d), u # <<>>,
         NEW n \in Sessions
  PROVE  /\ OnU(g, n, u, Tail(u)) /\ PacketsRouted(g, Tail(u)) /\ Tail(u) \in Seq(AmigaPackets)
         /\ Head(u) \in AmigaPackets /\ Head(u) \in Elems(u)
         /\ Carriers(AmigaPackets) /\ (IsItem(Head(u), n) => ~Calls(Tail(u), n))
<1> DEFINE v == Tail(u)
           m == Head(u)
           E == EosPackets(g.id[n])
<1>1. /\ u \in Seq(AmigaPackets) /\ PacketsRouted(g, u) /\ Birth(g, n, u, d, st) /\ d.written[n] \in Int /\ -1 \in Int
  BY RunsTypes DEF Lives, DriverStates
<1>2. Carriers(AmigaPackets)
  BY AllCarry
<1>3. v \in Seq(AmigaPackets) /\ m \in AmigaPackets /\ Elems(u) = {m} \union Elems(v)
  BY <1>1, HeadAndRest
<1>4. ASSUME IsItem(m, n), Calls(v, n) PROVE FALSE
  <2>1. Calls(u, n)
    BY <1>3, <1>4 DEF Calls
  <2>2. Run(u, n, E, -1, d.written[n])
    BY <1>1, <2>1 DEF Birth
  <2>3. m.data.number = (-1) + 1 /\ Run(v, n, E, (-1) + 1, d.written[n])
    BY <1>1, <1>2, <1>4, <2>2, RunTailItem
  <2>4. (-1) + 1 = 0 /\ 0 \in Int
    OBVIOUS
  <2>9. Run(v, n, E, 0, d.written[n])
    BY <2>3, <2>4
  <2> HIDE DEF v, E
  <2>5. \A x \in Elems(v) : IsItem(x, n) => 0 < x.data.number
    BY <1>1, <1>2, <1>3, <2>4, <2>9, RunHas
  <2>6. PICK x \in Elems(v) : x.type = "CONNECT" /\ x.data.session = n
    BY <1>4 DEF Calls
  <2>7. x.data.number = 0
    BY <1>1, <1>3, <2>6 DEF PacketsRouted
  <2>8. QED
    BY <2>5, <2>6, <2>7 DEF IsItem
<1>5. Calls(v, n) => Continues(u, v, n, E)
  <2>1. ASSUME Calls(v, n) PROVE Passes(u, v, n, E)
    BY <1>1, <1>2, <1>4, <2>1, PassesTail
  <2>2. QED
    BY <2>1 DEF Passes
<1>6. Carries(v, E) => Carries(u, E)
  BY <1>3 DEF Carries
<1>7. PacketsRouted(g, v)
  BY <1>1, <1>3 DEF PacketsRouted
<1>8. QED
  BY <1>2, <1>3, <1>4, <1>5, <1>6, <1>7 DEF OnU

\* A packet does not reach the client: its channel has none or takes nothing more, or it is no
\* item of the session.
LEMMA DropPacketOrder ==
  ASSUME NEW g, NEW p, NEW u, NEW r, NEW b, NEW st, NEW d, Runs(g, p, u, r, b, st, d), u # <<>>,
         \A n \in Sessions : g.id[n] = Head(u).id => ~Flows(g, n, p) \/ ~IsItem(Head(u), n)
  PROVE  Runs(g, p, Tail(u), r, b, st, d)
<1>1. /\ u \in Seq(AmigaPackets) /\ PacketsRouted(g, u) /\ g \in Paths /\ Apart(g) /\ p \in ThreadStates
      /\ ThreadRouted(g, p) /\ StreamsRouted(g, p, st) /\ st \in [Sessions -> StreamTypes]
  BY RunsTypes
<1>2. ASSUME NEW n \in Sessions PROVE Lives(g, p, Tail(u), r, b, st, d, n)
  <2>1. OnU(g, n, u, Tail(u)) /\ Head(u) \in Elems(u) /\ Carriers(AmigaPackets)
    BY TailOnU
  <2>2. ~Flows(g, n, p) \/ ~IsItem(Head(u), n)
    BY <1>1, <2>1 DEF PacketsRouted, IsItem
  <2>3. ~Flows(g, n, p) \/ Continues(u, Tail(u), n, EosPackets(g.id[n]))
    BY <1>1, <2>1, <2>2, PassesTail DEF Passes
  <2>4. OnDown(g, n, p, u, p, Tail(u))
    BY <2>3, PassesSame DEF OnDown
  <2>5. OnUp(g, n, p, p)
    BY PassesSame DEF OnUp, Passes
  <2>6. QED
    BY <1>1, <2>1, <2>4, <2>5, SessionOn DEF Onward
<1>3. Tail(u) \in Seq(AmigaPackets)
  BY <1>1, HeadAndRest
<1>4. PacketsRouted(g, Tail(u))
  <2>1. Elems(u) = {Head(u)} \union Elems(Tail(u))
    BY <1>1, HeadAndRest
  <2>2. QED
    BY <1>1, <2>1 DEF PacketsRouted
<1>5. QED
  BY <1>1, <1>2, <1>3, <1>4, RunsAgain

Forwarded(g, p, n, t, x, m, q) ==
  /\ m \in ToClient /\ m.type = t /\ m.sid = g.sid[n] /\ m.data = x
  /\ q \in ThreadStates /\ Sends(p, q, g.cl[n], m) /\ Spoken(g, p, g.cl[n], m) /\ Tells(g, p, q)
  /\ q = Thread!create_and_send_msg(p, g.cl[n], m)
\* an item is one of its session
Fits(t, x, n) == t = "DATA" => x.session = n /\ x.number # 0
\* Forward (a314.cc) sends a message to the client of the channel.
LEMMA ForwardIs ==
  ASSUME NEW g, NEW p \in ThreadStates, ServicesRouted(p), NEW i \in DOMAIN p.channels, NEW n, IsOf(g, p, i, n),
         NEW t \in {"DATA", "EOS", "RESET"}, NEW x \in Items,
         Fits(t, x, n)
  PROVE  Forwarded(g, p, n, t, x, Thread!Msg(t, g.sid[n], x), Thread!Forward(p, i, t, x))
<1> DEFINE m == Thread!Msg(t, g.sid[n], x)
           c == g.cl[n]
           q == Thread!Forward(p, i, t, x)
<1>1. /\ c \in Clients /\ c = p.channels[i].association /\ g.sid[n] = p.channels[i].stream_id
      /\ g.sid[n] < p.cc_next_stream_id[c] /\ n \in Sessions
  BY DEF IsOf
<1>2. p.channels[i] \in Channel
  BY MapsOfChannels DEF ThreadStates
<1>3. g.sid[n] \in Nat
  BY <1>1, <1>2 DEF Channel
<1>4. m \in ToClient /\ m.type = t /\ m.sid = g.sid[n] /\ m.data = x
  BY <1>3 DEF ToClient, Thread!Msg
<1>5. q = Thread!create_and_send_msg(p, c, m)
  BY <1>1 DEF Thread!Forward
<1> HIDE DEF m
<1>6. q \in ThreadStates /\ Sends(p, q, c, m)
  BY <1>1, <1>4, <1>5, SentIs
<1>7. Spoken(g, p, c, m)
  BY <1>1, <1>4 DEF Spoken, Fits
<1> HIDE DEF q
<1>8. Tells(g, p, q)
  BY <1>1, <1>4, <1>6, <1>7, SendsTells
<1>9. QED
  BY <1>4, <1>5, <1>6, <1>7, <1>8 DEF m, q, Forwarded

\* handle_pkt_data (a314.cc) passes an item on.
LEMMA ForwardDataOrder ==
  ASSUME NEW g, NEW p, NEW u, NEW r, NEW b, NEW st, NEW d, Runs(g, p, u, r, b, st, d), u # <<>>,
         NEW i \in DOMAIN p.channels, p.channels[i].association # NoOne, ~p.channels[i].got_eos_from_ami,
         Head(u).type = "DATA", Head(u).id = i
  PROVE  Runs(g, Thread!Forward(p, i, "DATA", Head(u).data), Tail(u), r, b, st, d)
<1> DEFINE x == Head(u).data
           v == Tail(u)
           q == Thread!Forward(p, i, "DATA", x)
<1>1. /\ u \in Seq(AmigaPackets) /\ PacketsRouted(g, u) /\ g \in Paths /\ Apart(g) /\ p \in ThreadStates
      /\ ThreadRouted(g, p) /\ StreamsRouted(g, p, st) /\ st \in [Sessions -> StreamTypes]
      /\ MessagesRouted(g, p) /\ SidsRouted(g, p) /\ ServicesRouted(p) /\ ChannelsRouted(g, p)
      /\ \A c \in Clients : p.toCli[c] \in Seq(ToClient)
  BY RunsTypes
<1>2. PICK n : IsOf(g, p, i, n)
  BY SessionOf
<1>3. n \in Sessions /\ g.cl[n] \in Clients /\ g.id[n] = i /\ \A k \in Sessions : g.id[k] = i => k = n
  BY <1>2 DEF IsOf
<1>4. /\ OnU(g, n, u, v) /\ PacketsRouted(g, v) /\ v \in Seq(AmigaPackets) /\ Head(u) \in AmigaPackets
      /\ Head(u) \in Elems(u) /\ Carriers(AmigaPackets)
  BY <1>3, TailOnU
<1>5. x \in Items /\ x.session = n /\ x.number # 0
  BY <1>1, <1>3, <1>4 DEF PacketsRouted, AmigaPackets
<1> DEFINE m == Thread!Msg("DATA", g.sid[n], x)
           c == g.cl[n]
           F == EosMessages(g.sid[n])
           E == EosPackets(i)
<1>6. /\ m \in ToClient /\ m.type = "DATA" /\ m.sid = g.sid[n] /\ m.data = x
      /\ q \in ThreadStates /\ Sends(p, q, c, m) /\ Tells(g, p, q)
  BY <1>1, <1>2, <1>5, ForwardIs DEF Fits, Forwarded
<1> HIDE DEF m, q, x, v, F, E
<1>7. MessagesRouted(g, q) /\ SidsRouted(g, q) /\ ServicesRouted(q) /\ StreamsRouted(g, q, st)
  <2>1. \A k \in Sessions : st[k].client \in Clients \union {NoOne}
    BY <1>1 DEF StreamTypes
  <2>2. QED
    BY <1>1, <1>6, <2>1, ToldRouted
<1>8. q.channels = p.channels /\ q.fromCli = p.fromCli /\ SameConns(p, q) /\ ChannelsRouted(g, q)
  BY <1>1, <1>6 DEF Sends, ChannelsRouted
<1>9. \A k \in Sessions : (g.cl[k] # NoOne => g.cl[k] \in Clients)
  BY <1>1 DEF Paths
<1>10. \A k \in Sessions : (Linked(g, k, q) => Linked(g, k, p)) /\ (Flows(g, k, q) => Flows(g, k, p)) /\ OnUp(g, k, p, q)
  BY <1>8, <1>9, PassesSame DEF Linked, SameConns, Flows, OnUp, Assoc, Queue, Passes
<1>11. ASSUME NEW k \in Sessions, k # n PROVE Lives(g, q, v, r, b, st, d, k)
  <2>1. OnU(g, k, u, v)
    BY TailOnU DEF v
  <2>2. ~IsItem(Head(u), k) /\ ~IsItem(m, k) /\ m \notin EosMessages(g.sid[k])
    BY <1>5, <1>6, <1>11 DEF IsItem, EosMessages, x
  <2>3. Continues(u, v, k, EosPackets(g.id[k]))
    BY <1>1, <1>4, <2>2, PassesTail DEF Passes, v
  <2>4. ASSUME Linked(g, k, q) PROVE Passes(p.toCli[g.cl[k]], q.toCli[g.cl[k]], k, EosMessages(g.sid[k]))
    <3>1. g.cl[k] \in Clients
      BY <1>9, <2>4 DEF Linked
    <3>2. Passes(p.toCli[c], Append(p.toCli[c], m), k, EosMessages(g.sid[k]))
      BY <1>1, <1>3, <1>6, <2>2, PassesAppend
    <3>3. QED
      BY <1>6, <3>1, <3>2, PassesSame DEF Sends
  <2>5. OnDown(g, k, p, u, q, v)
    BY <1>10, <2>3, <2>4 DEF OnDown
  <2>6. QED
    BY <1>6, <1>10, <2>1, <2>5, SessionOn DEF Onward
<1>12. Lives(g, q, v, r, b, st, d, n)
  <2>1. /\ Birth(g, n, u, d, st) /\ Down(g, n, p, u, d, st) /\ Up(g, n, p, d, r, b, st)
        /\ d \in DriverStates /\ st[n] \in StreamTypes
    BY <1>1, <1>3, RunsTypes DEF Lives
  <2>2. st[n].sent \in Nat /\ Taken(st[n]) \in Int /\ d.written[n] \in Nat
    BY <1>3, <2>1, TakenIs DEF StreamTypes, DriverStates
  <2>3. Birth(g, n, v, d, st) /\ Up(g, n, q, d, r, b, st)
    BY <1>3, <1>4, <1>6, <1>10, <2>1, <2>2, BirthOn, UpOn
  <2> DEFINE w == d.written[n]
             t == p.toCli[c]
  <2> HIDE DEF w
  <2>4. ASSUME Linked(g, n, q), st[n].st # "done" PROVE \E y \in 0..w : DownTo(g, n, q, v, d, st, y)
    <3>1. Linked(g, n, p) /\ p.conn[c] = "up" /\ q.toCli[c] = Append(t, m) /\ t \in Seq(ToClient)
      BY <1>1, <1>3, <1>6, <1>10, <2>4 DEF Linked, Sends
    <3>2. PICK y \in 0..w : DownTo(g, n, p, u, d, st, y)
      BY <2>1, <2>4, <3>1 DEF Down, w
    <3>3. Flows(g, n, p)
      BY <1>3 DEF Flows
    <3>4. /\ Run(t, n, F, Taken(st[n]), y) /\ Taken(st[n]) <= y /\ (Carries(t, F) => y = w) /\ Run(u, n, E, y, w)
          /\ (Carries(t, F) => n \in d.eosWritten)
      BY <1>3, <3>2, <3>3 DEF DownTo, E, F, w
    <3>5. IsItem(Head(u), n) /\ IsItem(m, n) /\ m.data.number = x.number /\ Head(u).data.number = x.number
      BY <1>5, <1>6 DEF IsItem, x
    <3>6. y \in Int /\ w \in Int /\ w \in Nat
      BY <2>2 DEF w
    <3>7. x.number = y + 1 /\ y < w /\ Run(v, n, E, y + 1, w)
      BY <1>1, <1>4, <3>4, <3>5, <3>6, RunTailItem DEF v
    <3>8. ~Carries(t, F)
      BY <3>4, <3>6, <3>7
    <3>9. Run(q.toCli[c], n, F, Taken(st[n]), y + 1)
      <4>1. Carriers(ToClient)
        BY AllCarry
      <4>2. Elems(t) \intersect F = {}
        BY <3>8 DEF Carries
      <4>3. QED
        BY <1>6, <2>2, <3>1, <3>4, <3>5, <3>6, <3>7, <4>1, <4>2, RunAppendItem
    <3>10. ~Carries(q.toCli[c], F)
      <4>1. Elems(q.toCli[c]) = Elems(t) \union {m} /\ m \notin F
        BY <1>6, <3>1, AppendAdds DEF F, EosMessages
      <4>2. QED
        BY <3>8, <4>1 DEF Carries
    <3>11. y + 1 \in 0..w /\ Taken(st[n]) <= y + 1
      BY <2>2, <3>2, <3>4, <3>6, <3>7
    <3>12. DownTo(g, n, q, v, d, st, y + 1)
      BY <1>3, <3>7, <3>9, <3>10, <3>11 DEF DownTo, E, F, w
    <3>13. QED
      BY <3>11, <3>12
  <2>5. ASSUME Linked(g, n, q), Calls(q.toCli[c], n) PROVE st[n] = NoStream
    <3>1. Linked(g, n, p) /\ q.toCli[c] = Append(t, m) /\ t \in Seq(ToClient)
      BY <1>1, <1>3, <1>6, <1>10, <2>5 DEF Linked, Sends
    <3>2. Elems(q.toCli[c]) = Elems(t) \union {m} /\ m.type = "DATA"
      BY <1>6, <3>1, AppendAdds
    <3>3. Calls(t, n)
      BY <2>5, <3>2 DEF Calls
    <3>4. QED
      BY <2>1, <3>1, <3>3 DEF Down
  <2>6. Carries(v, EosPackets(g.id[n])) => n \in d.eosWritten
    BY <1>4, <2>1 DEF OnU, Down
  <2>7. Down(g, n, q, v, d, st)
    BY <2>1, <2>4, <2>5, <2>6 DEF Down, w
  <2>8. QED
    BY <2>3, <2>7 DEF Lives
<1>13. ThreadRouted(g, q)
  BY <1>7, <1>8 DEF ThreadRouted
<1>14. \A k \in Sessions : Lives(g, q, v, r, b, st, d, k)
  BY <1>11, <1>12
<1>15. Runs(g, q, v, r, b, st, d)
  BY <1>1, <1>4, <1>6, <1>7, <1>13, <1>14, RunsAgain
<1>16. QED
  BY <1>15 DEF q, v, x

\* The connections are the same as far as a client can see.
SameSight(p, q) ==
  /\ q.services = p.services /\ q.cc_next_stream_id = p.cc_next_stream_id /\ q.fromCli = p.fromCli
  /\ SameConns(p, q) /\ \A k \in Clients : q.toCli[k] = p.toCli[k]
LEMMA SightOrder ==
  ASSUME NEW g, NEW p, NEW u, NEW r, NEW b, NEW st, NEW d, Runs(g, p, u, r, b, st, d),
         NEW q \in ThreadStates, q.channels = p.channels, SameSight(p, q)
  PROVE  Runs(g, q, u, r, b, st, d)
<1>1. g \in Paths /\ ServicesRouted(p)
  BY RunsTypes
<1>2. \A n \in Sessions : g.cl[n] # NoOne => g.cl[n] \in Clients
  BY <1>1 DEF Paths
<1>3. Tells(g, p, q)
  BY <1>1 DEF Tells, SameSight, ServicesRouted
<1>4. \A n \in Sessions : g.cl[n] # NoOne =>
        Passes(p.toCli[g.cl[n]], q.toCli[g.cl[n]], n, EosMessages(g.sid[n]))
  BY <1>2, PassesSame DEF SameSight
<1>5. QED
  BY <1>3, <1>4, TellsOrder

\* A channel that settles keeps the order.
LEMMA SettleOrder ==
  ASSUME NEW g, NEW p, NEW u, NEW r, NEW b, NEW st, NEW d, Runs(g, p, u, r, b, st, d),
         NEW i \in DOMAIN p.channels, NEW q \in ThreadStates, SameSight(p, q), DOMAIN q.channels = DOMAIN p.channels,
         \A j \in DOMAIN p.channels : j # i => q.channels[j] = p.channels[j],
         Settles(i, p.channels[i], q.channels[i])
  PROVE  Runs(g, q, u, r, b, st, d)
<1> DEFINE e == [p EXCEPT !.channels = q.channels]
<1>1. p \in ThreadStates
  BY RunsTypes
<1>2. e \in ThreadStates /\ e.channels = q.channels /\ SameWires(p, e)
  BY <1>1 DEF ThreadStates, SameWires
<1> HIDE DEF e
<1>3. OneChannel(p, e, i)
  BY <1>2 DEF OneChannel
<1>4. Runs(g, e, u, r, b, st, d)
  BY <1>2, <1>3, ChannelOrder
<1>5. SameSight(e, q)
  BY <1>2 DEF SameSight, SameWires, SameConns
<1>6. QED
  BY <1>2, <1>4, <1>5, SightOrder

\* The flag that an end has sent EOS.
LEMMA FlaggedIs ==
  ASSUME NEW p \in ThreadStates, NEW i \in DOMAIN p.channels
  PROVE  /\ LET q == [p EXCEPT !.channels[i].got_eos_from_ami = TRUE] IN
              /\ q \in ThreadStates /\ OneChannel(p, q, i)
              /\ q.channels[i] = [p.channels[i] EXCEPT !.got_eos_from_ami = TRUE]
         /\ LET q == [p EXCEPT !.channels[i].got_eos_from_client = TRUE] IN
              /\ q \in ThreadStates /\ OneChannel(p, q, i)
              /\ q.channels[i] = [p.channels[i] EXCEPT !.got_eos_from_client = TRUE]
<1>1. p.channels \in ChannelMaps /\ p.channels[i] \in Channel
  BY MapsOfChannels DEF ThreadStates
<1> DEFINE y == [p.channels[i] EXCEPT !.got_eos_from_ami = TRUE]
           z == [p.channels[i] EXCEPT !.got_eos_from_client = TRUE]
           e == [p EXCEPT !.channels[i].got_eos_from_ami = TRUE]
           f == [p EXCEPT !.channels[i].got_eos_from_client = TRUE]
<1>2. y \in Channel /\ z \in Channel
  BY <1>1 DEF Channel
<1>3. /\ e = [p EXCEPT !.channels = [p.channels EXCEPT ![i] = y]]
      /\ f = [p EXCEPT !.channels = [p.channels EXCEPT ![i] = z]]
  BY DEF ThreadStates
<1> HIDE DEF y, z, e, f
<1>4. /\ [p.channels EXCEPT ![i] = y] \in ChannelMaps /\ DOMAIN [p.channels EXCEPT ![i] = y] = DOMAIN p.channels
      /\ [p.channels EXCEPT ![i] = y][i] = y
      /\ \A j \in DOMAIN p.channels : j # i => [p.channels EXCEPT ![i] = y][j] = p.channels[j]
  BY <1>1, <1>2, ChannelReplaced
<1>5. /\ [p.channels EXCEPT ![i] = z] \in ChannelMaps /\ DOMAIN [p.channels EXCEPT ![i] = z] = DOMAIN p.channels
      /\ [p.channels EXCEPT ![i] = z][i] = z
      /\ \A j \in DOMAIN p.channels : j # i => [p.channels EXCEPT ![i] = z][j] = p.channels[j]
  BY <1>1, <1>2, ChannelReplaced
<1>6. e \in ThreadStates /\ OneChannel(p, e, i) /\ e.channels[i] = y
  BY <1>3, <1>4 DEF ThreadStates, OneChannel, SameWires
<1>7. f \in ThreadStates /\ OneChannel(p, f, i) /\ f.channels[i] = z
  BY <1>3, <1>5 DEF ThreadStates, OneChannel, SameWires
<1>8. QED
  BY <1>6, <1>7 DEF e, f, y, z

\* The EOS of the Amiga is passed on: nothing of the session is before it.
LEMMA ForwardEosOrder ==
  ASSUME NEW g, NEW p, NEW u, NEW r, NEW b, NEW st, NEW d, Runs(g, p, u, r, b, st, d), u # <<>>,
         NEW i \in DOMAIN p.channels, p.channels[i].association # NoOne, ~p.channels[i].got_eos_from_ami,
         Head(u).type = "EOS", Head(u).id = i, NEW x \in Items
  PROVE  Runs(g, Thread!Forward(p, i, "EOS", x), u, r, b, st, d)
<1> DEFINE q == Thread!Forward(p, i, "EOS", x)
<1>1. /\ u \in Seq(AmigaPackets) /\ PacketsRouted(g, u) /\ g \in Paths /\ Apart(g) /\ p \in ThreadStates
      /\ ThreadRouted(g, p) /\ StreamsRouted(g, p, st) /\ st \in [Sessions -> StreamTypes]
      /\ MessagesRouted(g, p) /\ SidsRouted(g, p) /\ ServicesRouted(p) /\ ChannelsRouted(g, p)
      /\ \A c \in Clients : p.toCli[c] \in Seq(ToClient)
  BY RunsTypes
<1>2. PICK n : IsOf(g, p, i, n)
  BY SessionOf
<1>3. n \in Sessions /\ g.cl[n] \in Clients /\ g.id[n] = i
      /\ \A k \in Sessions : g.cl[k] = g.cl[n] /\ g.sid[k] = g.sid[n] => k = n
  BY <1>2 DEF IsOf
<1> DEFINE m == Thread!Msg("EOS", g.sid[n], x)
           c == g.cl[n]
           F == EosMessages(g.sid[n])
           E == EosPackets(i)
<1>4. /\ m \in ToClient /\ m.type = "EOS" /\ m.sid = g.sid[n]
      /\ q \in ThreadStates /\ Sends(p, q, c, m) /\ Tells(g, p, q)
  <2>1. Fits("EOS", x, n)
    BY DEF Fits
  <2>2. "EOS" \in {"DATA", "EOS", "RESET"}
    OBVIOUS
  <2>3. Forwarded(g, p, n, "EOS", x, m, q)
    BY <1>1, <1>2, <2>1, <2>2, ForwardIs
  <2>4. QED
    BY <2>3 DEF Forwarded
<1> HIDE DEF m, q, F, E
<1>5. MessagesRouted(g, q) /\ SidsRouted(g, q) /\ ServicesRouted(q) /\ StreamsRouted(g, q, st)
  <2>1. \A k \in Sessions : st[k].client \in Clients \union {NoOne}
    BY <1>1 DEF StreamTypes
  <2>2. QED
    BY <1>1, <1>4, <2>1, ToldRouted
<1>6. q.channels = p.channels /\ q.fromCli = p.fromCli /\ SameConns(p, q) /\ ChannelsRouted(g, q)
  BY <1>1, <1>4 DEF Sends, ChannelsRouted
<1>7. \A k \in Sessions : (g.cl[k] # NoOne => g.cl[k] \in Clients)
  BY <1>1 DEF Paths
<1>8. \A k \in Sessions : (Linked(g, k, q) => Linked(g, k, p)) /\ (Flows(g, k, q) => Flows(g, k, p)) /\ OnUp(g, k, p, q)
  BY <1>6, <1>7, PassesSame DEF Linked, SameConns, Flows, OnUp, Assoc, Queue, Passes
<1>9. ASSUME NEW k \in Sessions, k # n PROVE Lives(g, q, u, r, b, st, d, k)
  <2>1. ASSUME Linked(g, k, q) PROVE Passes(p.toCli[g.cl[k]], q.toCli[g.cl[k]], k, EosMessages(g.sid[k]))
    <3>1. g.cl[k] \in Clients
      BY <1>7, <2>1 DEF Linked
    <3>2. CASE g.cl[k] # c
      BY <1>4, <3>1, <3>2, PassesSame DEF Sends
    <3>3. CASE g.cl[k] = c
      <4>1. ~IsItem(m, k) /\ m \notin EosMessages(g.sid[k])
        BY <1>3, <1>4, <1>9, <3>3 DEF IsItem, EosMessages
      <4>2. Passes(p.toCli[c], Append(p.toCli[c], m), k, EosMessages(g.sid[k]))
        BY <1>1, <1>3, <1>4, <4>1, PassesAppend
      <4>3. QED
        BY <1>4, <3>1, <3>3, <4>2, PassesSame DEF Sends
    <3>4. QED
      BY <3>2, <3>3
  <2>2. OnDown(g, k, p, u, q, u)
    BY <1>8, <2>1, OnUSame DEF OnDown
  <2>3. QED
    BY <1>4, <1>8, <2>2, OnUSame, SessionOn DEF Onward
<1>10. Lives(g, q, u, r, b, st, d, n)
  <2>1. /\ Birth(g, n, u, d, st) /\ Down(g, n, p, u, d, st) /\ Up(g, n, p, d, r, b, st)
        /\ d \in DriverStates /\ st[n] \in StreamTypes
    BY <1>1, <1>3, RunsTypes DEF Lives
  <2>2. st[n].sent \in Nat /\ Taken(st[n]) \in Int /\ d.written[n] \in Nat
    BY <1>3, <2>1, TakenIs DEF StreamTypes, DriverStates
  <2>3. Up(g, n, q, d, r, b, st)
    BY <1>3, <1>4, <1>8, <2>1, <2>2, UpOn
  <2> DEFINE w == d.written[n]
             t == p.toCli[c]
  <2> HIDE DEF w
  <2>4. Head(u) \in E /\ Carries(u, E) /\ n \in d.eosWritten
    <3>1. Head(u) \in AmigaPackets /\ Head(u) \in Elems(u)
      BY <1>1, HeadAndRest
    <3>2. Head(u) \in E
      BY <3>1 DEF E, EosPackets, AmigaPackets
    <3>3. QED
      BY <1>3, <2>1, <3>1, <3>2 DEF Carries, Down, E
  <2>5. ASSUME Linked(g, n, q), st[n].st # "done" PROVE \E y \in 0..w : DownTo(g, n, q, u, d, st, y)
    <3>1. Linked(g, n, p) /\ q.toCli[c] = Append(t, m) /\ t \in Seq(ToClient)
      BY <1>1, <1>3, <1>4, <1>8, <2>5 DEF Linked, Sends
    <3>2. PICK y \in 0..w : DownTo(g, n, p, u, d, st, y)
      BY <2>1, <2>5, <3>1 DEF Down, w
    <3>3. Flows(g, n, p)
      BY <1>3 DEF Flows
    <3>4. Run(t, n, F, Taken(st[n]), y) /\ Taken(st[n]) <= y /\ Run(u, n, E, y, w)
      BY <1>3, <3>2, <3>3 DEF DownTo, E, F, w
    <3>5. y \in Int /\ w \in Int
      BY <2>2 DEF w
    <3>6. ~IsItem(Head(u), n) /\ ~IsItem(m, n) /\ Carriers(AmigaPackets)
      BY <1>4, AllCarry DEF IsItem
    <3>7. y = w
      <4>1. w <= y
        BY <1>1, <2>4, <3>4, <3>5, <3>6, RunTailOther
      <4>2. QED
        BY <3>2, <3>5, <4>1
    <3>8. Run(q.toCli[c], n, F, Taken(st[n]), y)
      BY <1>4, <3>1, <3>4, <3>6, RunAppendOther
    <3>9. DownTo(g, n, q, u, d, st, y)
      BY <1>3, <2>4, <3>4, <3>7, <3>8 DEF DownTo, E, F, w
    <3>10. QED
      BY <3>9
  <2>6. ASSUME Linked(g, n, q), Calls(q.toCli[c], n) PROVE st[n] = NoStream
    <3>1. Linked(g, n, p) /\ q.toCli[c] = Append(t, m) /\ t \in Seq(ToClient)
      BY <1>1, <1>3, <1>4, <1>8, <2>6 DEF Linked, Sends
    <3>2. Elems(q.toCli[c]) = Elems(t) \union {m} /\ m.type = "EOS"
      BY <1>4, <3>1, AppendAdds
    <3>3. Calls(t, n)
      BY <2>6, <3>2 DEF Calls
    <3>4. QED
      BY <2>1, <3>1, <3>3 DEF Down
  <2>7. Down(g, n, q, u, d, st)
    BY <2>1, <2>5, <2>6 DEF Down, w
  <2>8. QED
    BY <2>1, <2>3, <2>7 DEF Lives
<1>11. ThreadRouted(g, q)
  BY <1>5, <1>6 DEF ThreadRouted
<1>12. \A k \in Sessions : Lives(g, q, u, r, b, st, d, k)
  BY <1>9, <1>10
<1>13. Runs(g, q, u, r, b, st, d)
  BY <1>1, <1>4, <1>5, <1>11, <1>12, RunsAgain
<1>14. QED
  BY <1>13 DEF q

\* handle_pkt_data (a314.cc)
LEMMA DataPacketOrder ==
  ASSUME NEW g, NEW p, NEW u, NEW r, NEW b, NEW st, NEW d, Runs(g, p, u, r, b, st, d), u # <<>>,
         NEW i \in DOMAIN p.channels, Head(u).type = "DATA", Head(u).id = i
  PROVE  Runs(g, Thread!handle_pkt_data(p, i, Head(u).data), Tail(u), r, b, st, d)
<1>1. CASE p.channels[i].association # NoOne /\ ~p.channels[i].got_eos_from_ami
  <2>1. Thread!handle_pkt_data(p, i, Head(u).data) = Thread!Forward(p, i, "DATA", Head(u).data)
    BY <1>1 DEF Thread!handle_pkt_data
  <2>2. QED
    BY <1>1, <2>1, ForwardDataOrder
<1>2. CASE ~(p.channels[i].association # NoOne /\ ~p.channels[i].got_eos_from_ami)
  <2>1. Thread!handle_pkt_data(p, i, Head(u).data) = p
    BY <1>2 DEF Thread!handle_pkt_data
  <2>2. \A n \in Sessions : g.id[n] = Head(u).id => ~Flows(g, n, p) \/ ~IsItem(Head(u), n)
    BY <1>2 DEF Flows
  <2>3. QED
    BY <2>1, <2>2, DropPacketOrder
<1>3. QED
  BY <1>1, <1>2

\* A packet without data leaves the ring.
LEMMA EmptyPacketOrder ==
  ASSUME NEW g, NEW p, NEW u, NEW r, NEW b, NEW st, NEW d, Runs(g, p, u, r, b, st, d), u # <<>>,
         Head(u).type \in {"EOS", "RESET"}
  PROVE  Runs(g, p, Tail(u), r, b, st, d)
<1>1. \A n \in Sessions : g.id[n] = Head(u).id => ~Flows(g, n, p) \/ ~IsItem(Head(u), n)
  BY DEF IsItem
<1>2. QED
  BY <1>1, DropPacketOrder

\* A message to a client does the same to what the clients see.
SentAlike(p, q, e, f) ==
  /\ SameSight(e, f) /\ f \in ThreadStates /\ f.channels = q.channels /\ e.channels = p.channels
LEMMA ForwardedSight ==
  ASSUME NEW p \in ThreadStates, NEW q \in ThreadStates, NEW c \in Clients, NEW m \in ToClient, SameWires(p, q)
  PROVE  SentAlike(p, q, Thread!create_and_send_msg(p, c, m), Thread!create_and_send_msg(q, c, m))
<1> DEFINE e == Thread!create_and_send_msg(p, c, m)
           f == Thread!create_and_send_msg(q, c, m)
<1>1. Sends(p, e, c, m) /\ Sends(q, f, c, m) /\ f \in ThreadStates
  BY SentIs
<1> HIDE DEF e, f
<1>2. SentAlike(p, q, e, f)
  BY <1>1 DEF Sends, SameSight, SameWires, SameConns, SentAlike
<1>3. QED
  BY <1>2 DEF e, f

\* handle_pkt_eos (a314.cc)
LEMMA EosForwardOrder ==
  ASSUME NEW g, NEW p, NEW u, NEW r, NEW b, NEW st, NEW d, Runs(g, p, u, r, b, st, d), u # <<>>,
         NEW i \in DOMAIN p.channels, Head(u).type = "EOS", Head(u).id = i,
         p.channels[i].association # NoOne, ~p.channels[i].got_eos_from_ami
  PROVE  LET q == Thread!Forward([p EXCEPT !.channels[i].got_eos_from_ami = TRUE], i, "EOS", Thread!Nothing) IN
         /\ Runs(g, q, Tail(u), r, b, st, d)
         /\ i \in DOMAIN q.channels /\ q.channels[i].association = p.channels[i].association
<1> DEFINE x == Thread!Nothing
           a == [p EXCEPT !.channels[i].got_eos_from_ami = TRUE]
           q == Thread!Forward(a, i, "EOS", x)
           f == Thread!Forward(p, i, "EOS", x)
<1>1. /\ p \in ThreadStates /\ ServicesRouted(p) /\ p.channels[i] \in Channel /\ x \in Items
  BY RunsTypes, MapsOfChannels, ItemTypes
<1>2. PICK n : IsOf(g, p, i, n)
  BY SessionOf
<1>3. a \in ThreadStates /\ OneChannel(p, a, i) /\ a.channels[i] = [p.channels[i] EXCEPT !.got_eos_from_ami = TRUE]
  BY <1>1, FlaggedIs
<1> HIDE DEF a, x
<1>4. /\ a.channels[i].association = g.cl[n] /\ a.channels[i].stream_id = g.sid[n]
      /\ a.channels[i].packet_queue = p.channels[i].packet_queue /\ a.channels[i].got_eos_from_ami
      /\ p.channels[i].association = g.cl[n] /\ p.channels[i].stream_id = g.sid[n] /\ g.cl[n] \in Clients
  BY <1>1, <1>2, <1>3 DEF IsOf, Channel
<1> DEFINE m == Thread!Msg("EOS", g.sid[n], x)
<1>5. m \in ToClient
  <2>1. Fits("EOS", x, n)
    BY DEF Fits
  <2>2. "EOS" \in {"DATA", "EOS", "RESET"}
    OBVIOUS
  <2>3. Forwarded(g, p, n, "EOS", x, m, f)
    BY <1>1, <1>2, <2>1, <2>2, ForwardIs
  <2>4. QED
    BY <2>3 DEF Forwarded
<1>6. f = Thread!create_and_send_msg(p, g.cl[n], m) /\ q = Thread!create_and_send_msg(a, g.cl[n], m)
  BY <1>4 DEF Thread!Forward
<1>7. Runs(g, f, u, r, b, st, d)
  BY <1>1, ForwardEosOrder
<1> HIDE DEF q, f, m
<1>8. SameSight(f, q) /\ q \in ThreadStates /\ q.channels = a.channels /\ f.channels = p.channels
  <2>1. SameWires(p, a)
    BY <1>3 DEF OneChannel
  <2>2. SentAlike(p, a, f, q)
    BY <1>1, <1>3, <1>4, <1>5, <1>6, <2>1, ForwardedSight
  <2>3. QED
    BY <2>2 DEF SentAlike
<1>9. Settles(i, f.channels[i], q.channels[i])
  BY <1>4, <1>8 DEF Settles
<1>10. Runs(g, q, u, r, b, st, d)
  BY <1>3, <1>7, <1>8, <1>9, SettleOrder DEF OneChannel
<1>11. Runs(g, q, Tail(u), r, b, st, d)
  BY <1>10, EmptyPacketOrder
<1>12. i \in DOMAIN q.channels /\ q.channels[i].association = p.channels[i].association
  BY <1>3, <1>4, <1>8 DEF OneChannel
<1>13. QED
  BY <1>11, <1>12 DEF q, a, x

\* handle_pkt_eos (a314.cc), and the packet leaves the ring.
LEMMA EosTakenOrder ==
  ASSUME NEW g, NEW p, NEW u, NEW r, NEW b, NEW st, NEW d, Runs(g, p, u, r, b, st, d), u # <<>>,
         NEW i \in DOMAIN p.channels, Head(u).type = "EOS", Head(u).id = i
  PROVE  Runs(g, Thread!handle_pkt_eos(p, i), Tail(u), r, b, st, d)
<1> DEFINE q == Thread!Forward([p EXCEPT !.channels[i].got_eos_from_ami = TRUE], i, "EOS", Thread!Nothing)
<1>1. CASE p.channels[i].association = NoOne \/ p.channels[i].got_eos_from_ami
  <2>1. Thread!handle_pkt_eos(p, i) = p
    BY <1>1 DEF Thread!handle_pkt_eos
  <2>2. QED
    BY <2>1, EmptyPacketOrder
<1>2. CASE p.channels[i].association # NoOne /\ ~p.channels[i].got_eos_from_ami
  <2>1. /\ Runs(g, q, Tail(u), r, b, st, d) /\ i \in DOMAIN q.channels
        /\ q.channels[i].association = p.channels[i].association
    BY <1>2, EosForwardOrder
  <2>2. Thread!handle_pkt_eos(p, i) = IF p.channels[i].got_eos_from_client THEN Thread!remove_association(q, i) ELSE q
    BY <1>2 DEF Thread!handle_pkt_eos
  <2>3. p.channels[i].association \in Clients
    BY <1>2, RunsTypes, ClientOf
  <2> HIDE DEF q
  <2>4. Runs(g, Thread!remove_association(q, i), Tail(u), r, b, st, d)
    BY <2>1, <2>3, UnlinkOrder
  <2>5. QED
    BY <2>1, <2>2, <2>4
<1>3. QED
  BY <1>1, <1>2

\* handle_pkt_reset (a314.cc)
LEMMA ResetForwardOrder ==
  ASSUME NEW g, NEW p, NEW u, NEW r, NEW b, NEW st, NEW d, Runs(g, p, u, r, b, st, d),
         NEW i \in DOMAIN p.channels, p.channels[i].association # NoOne
  PROVE  Runs(g, Thread!remove_association(Thread!Forward(Thread!clear_packet_queue(p, i), i, "RESET", Thread!Nothing), i),
              u, r, b, st, d)
<1> DEFINE x == Thread!Nothing
           a == Thread!clear_packet_queue(p, i)
           q == Thread!Forward(a, i, "RESET", x)
           z == Thread!remove_association(q, i)
           f == Thread!Forward(p, i, "RESET", x)
<1>1. /\ p \in ThreadStates /\ ServicesRouted(p) /\ p.channels[i] \in Channel /\ x \in Items
  BY RunsTypes, MapsOfChannels, ItemTypes
<1>2. PICK n : IsOf(g, p, i, n)
  BY SessionOf
<1>3. /\ a \in ThreadStates /\ DOMAIN a.channels = DOMAIN p.channels /\ a.channels[i].packet_queue = <<>>
      /\ a.channels[i].association = p.channels[i].association
      /\ \A j \in DOMAIN p.channels : j # i => a.channels[j] = p.channels[j]
  BY <1>1, ClearWrites
<1>4. SameWires(p, a) /\ a.channels[i].stream_id = p.channels[i].stream_id
  BY <1>1 DEF Thread!clear_packet_queue, SameWires, ThreadStates, Channel
<1> HIDE DEF a, x
<1>5. /\ p.channels[i].association = g.cl[n] /\ p.channels[i].stream_id = g.sid[n] /\ g.cl[n] \in Clients
  BY <1>1, <1>2 DEF IsOf
<1> DEFINE m == Thread!Msg("RESET", g.sid[n], x)
<1>6. Forwarded(g, p, n, "RESET", x, m, f)
  <2>1. Fits("RESET", x, n)
    BY DEF Fits
  <2>2. "RESET" \in {"DATA", "EOS", "RESET"}
    OBVIOUS
  <2>3. QED
    BY <1>1, <1>2, <2>1, <2>2, ForwardIs
<1>7. f = Thread!create_and_send_msg(p, g.cl[n], m) /\ q = Thread!create_and_send_msg(a, g.cl[n], m)
  BY <1>3, <1>4, <1>5 DEF Thread!Forward
<1> HIDE DEF q, f, m
<1>8. m \in ToClient /\ m.type = "RESET" /\ Spoken(g, p, g.cl[n], m)
  BY <1>6 DEF Forwarded
<1>9. Runs(g, f, u, r, b, st, d)
  BY <1>5, <1>7, <1>8, SendOrder
<1>10. SameSight(f, q) /\ q \in ThreadStates /\ q.channels = a.channels /\ f.channels = p.channels
  <2>1. SentAlike(p, a, f, q)
    BY <1>1, <1>3, <1>4, <1>5, <1>7, <1>8, ForwardedSight
  <2>2. QED
    BY <2>1 DEF SentAlike
<1>11. /\ z \in ThreadStates /\ DOMAIN z.channels = DOMAIN q.channels /\ z.channels[i].association = NoOne
       /\ z.channels[i].packet_queue = q.channels[i].packet_queue
       /\ \A j \in DOMAIN q.channels : j # i => z.channels[j] = q.channels[j]
  <2>1. i \in DOMAIN q.channels /\ q.channels[i].association \in Clients
    BY <1>3, <1>5, <1>10
  <2>2. QED
    BY <1>10, <2>1, UnlistWrites
<1>12. SameWires(q, z)
  BY <1>10 DEF Thread!remove_association, SameWires, ThreadStates
<1> HIDE DEF z
<1>13. SameSight(f, z)
  BY <1>10, <1>12 DEF SameSight, SameWires, SameConns
<1>14. Settles(i, f.channels[i], z.channels[i])
  BY <1>3, <1>10, <1>11 DEF Settles
<1>15. Runs(g, z, u, r, b, st, d)
  BY <1>3, <1>9, <1>10, <1>11, <1>13, <1>14, SettleOrder
<1>16. QED
  BY <1>15 DEF z, q, a, x

\* handle_pkt_reset (a314.cc), and the packet leaves the ring.
LEMMA ResetTakenOrder ==
  ASSUME NEW g, NEW p, NEW u, NEW r, NEW b, NEW st, NEW d, Runs(g, p, u, r, b, st, d), u # <<>>,
         NEW i \in DOMAIN p.channels, Head(u).type = "RESET"
  PROVE  Runs(g, Thread!handle_pkt_reset(p, i), Tail(u), r, b, st, d)
<1>1. Runs(g, p, Tail(u), r, b, st, d)
  BY EmptyPacketOrder
<1>2. CASE p.channels[i].association = NoOne
  BY <1>1, <1>2, ClearOrder DEF Thread!handle_pkt_reset
<1>3. CASE p.channels[i].association # NoOne
  <2>1. Runs(g, Thread!remove_association(Thread!Forward(Thread!clear_packet_queue(p, i), i, "RESET", Thread!Nothing), i),
             Tail(u), r, b, st, d)
    BY <1>1, <1>3, ResetForwardOrder
  <2>2. QED
    BY <1>3, <2>1 DEF Thread!handle_pkt_reset
<1>4. QED
  BY <1>2, <1>3

-----------------------------------------------------------------------------
(* A CONNECT starts a session. *)

\* The channel is associated with a connection (Ask), before its client is told.
Associated(p, c, i) ==
  [p EXCEPT !.channels[i].association = c, !.channels[i].stream_id = p.cc_next_stream_id[c],
            !.cc_next_stream_id[c] = @ + 1, !.associations[c] = Append(@, i)]
Takes(p, a, c, i) ==
  /\ a \in ThreadStates /\ DOMAIN a.channels = DOMAIN p.channels
  /\ a.channels[i].association = c /\ a.channels[i].stream_id = p.cc_next_stream_id[c]
  /\ a.channels[i].packet_queue = p.channels[i].packet_queue
  /\ \A j \in DOMAIN p.channels : j # i => a.channels[j] = p.channels[j]
  /\ a.cc_next_stream_id[c] = p.cc_next_stream_id[c] + 1 /\ p.cc_next_stream_id[c] \in Nat
  /\ \A k \in Clients : k # c => a.cc_next_stream_id[k] = p.cc_next_stream_id[k]
  /\ a.services = p.services /\ a.conn = p.conn /\ a.toCli = p.toCli /\ a.fromCli = p.fromCli
LEMMA TakesIs ==
  ASSUME NEW p \in ThreadStates, NEW i \in DOMAIN p.channels, NEW c \in Clients
  PROVE  Takes(p, Associated(p, c, i), c, i)
<1> DEFINE sid == p.cc_next_stream_id[c]
           ch == p.channels[i]
           y == [[ch EXCEPT !.association = c] EXCEPT !.stream_id = sid]
           q == Associated(p, c, i)
<1>1. /\ p.channels \in ChannelMaps /\ ch \in Channel /\ i \in Ids
      /\ p.associations \in [Clients -> Seq(Ids)] /\ p.cc_next_stream_id \in [Clients -> Nat]
  BY MapsOfChannels DEF ThreadStates
<1>2. y \in Channel /\ y.association = c /\ y.packet_queue = ch.packet_queue /\ y.stream_id = sid /\ sid \in Nat
  BY <1>1 DEF Channel
<1>3. q = [p EXCEPT !.channels = [p.channels EXCEPT ![i] = y],
                    !.cc_next_stream_id = [p.cc_next_stream_id EXCEPT ![c] = @ + 1],
                    !.associations = [p.associations EXCEPT ![c] = Append(@, i)]]
  BY <1>1 DEF ThreadStates, ChannelMaps, Associated
<1> HIDE DEF q, y
<1>4. /\ q.channels = [p.channels EXCEPT ![i] = y]
      /\ q.associations = [p.associations EXCEPT ![c] = Append(@, i)]
      /\ q.cc_next_stream_id = [p.cc_next_stream_id EXCEPT ![c] = @ + 1]
      /\ q.services = p.services /\ q.conn = p.conn /\ q.toCli = p.toCli /\ q.fromCli = p.fromCli
      /\ q.pi_queue = p.pi_queue
  BY <1>3 DEF ThreadStates
<1>5. /\ q.channels \in ChannelMaps /\ DOMAIN q.channels = DOMAIN p.channels
      /\ q.channels[i] = y /\ \A j \in DOMAIN p.channels : j # i => q.channels[j] = p.channels[j]
  BY <1>1, <1>2, <1>4, ChannelReplaced
<1>6. /\ q.associations \in [Clients -> Seq(Ids)] /\ q.cc_next_stream_id \in [Clients -> Nat]
      /\ q.cc_next_stream_id[c] = sid + 1
      /\ \A k \in Clients : k # c => q.cc_next_stream_id[k] = p.cc_next_stream_id[k]
  <2>1. Append(p.associations[c], i) \in Seq(Ids) /\ p.cc_next_stream_id[c] + 1 \in Nat
    BY <1>1
  <2>2. QED
    BY <1>1, <1>4, <2>1
<1>7. q \in ThreadStates
  BY <1>3, <1>4, <1>5, <1>6 DEF ThreadStates
<1>8. Takes(p, q, c, i)
  BY <1>2, <1>4, <1>5, <1>6, <1>7 DEF Takes
<1>9. QED
  BY <1>8 DEF q

\* Session k gets a client and a stream id.
Served(g, k, c, s) == [id |-> g.id, cl |-> [g.cl EXCEPT ![k] = c], sid |-> [g.sid EXCEPT ![k] = s]]
Serves(g, h, k, c, s) ==
  /\ h \in Paths /\ h.id = g.id /\ h.cl[k] = c /\ h.sid[k] = s
  /\ \A n \in Sessions : n # k => h.cl[n] = g.cl[n] /\ h.sid[n] = g.sid[n]
LEMMA ServedIs ==
  ASSUME NEW g \in Paths, NEW k \in Sessions, NEW c \in Clients, NEW s \in Nat
  PROVE  Serves(g, Served(g, k, c, s), k, c, s)
  BY DEF Serves, Served, Paths

\* the state that a CONNECT of session k for channel i and client c finds
New(g, p, u, r, b, st, d, k, c, i) ==
  /\ Runs(g, p, u, r, b, st, d) /\ k \in Sessions /\ g.id[k] = i /\ Unborn(g, k, st)
  /\ i \in DOMAIN p.channels /\ p.channels[i] = Idle /\ c \in Clients /\ c \in Registered(p)
LEMMA ServedRouted ==
  ASSUME NEW g, NEW p, NEW u, NEW r, NEW b, NEW st, NEW d, NEW k, NEW c, NEW i,
         New(g, p, u, r, b, st, d, k, c, i), NEW a, Takes(p, a, c, i),
         NEW h, Serves(g, h, k, c, p.cc_next_stream_id[c])
  PROVE  /\ Apart(h) /\ ChannelsRouted(h, a) /\ MessagesRouted(h, a) /\ SidsRouted(h, a) /\ ServicesRouted(a)
         /\ StreamsRouted(h, a, st)
<1>1. /\ Runs(g, p, u, r, b, st, d) /\ k \in Sessions /\ g.id[k] = i /\ g.cl[k] = NoOne /\ st[k] = NoStream
      /\ i \in DOMAIN p.channels /\ p.channels[i] = Idle /\ c \in Clients /\ c \in Registered(p) /\ c # NoOne
  BY ClientAssumption DEF New, Unborn
<1>2. /\ g \in Paths /\ Apart(g) /\ ChannelsRouted(g, p) /\ MessagesRouted(g, p) /\ SidsRouted(g, p)
      /\ ServicesRouted(p) /\ StreamsRouted(g, p, st) /\ p.channels \in ChannelMaps /\ p.cc_next_stream_id \in [Clients -> Nat]
      /\ p.toCli \in [Clients -> Seq(ToClient)] /\ p.fromCli \in [Clients -> Seq(FromClient)] /\ a \in ThreadStates
  BY <1>1, RunsTypes DEF Takes
<1>3. /\ h \in Paths /\ h.id = g.id /\ h.cl[k] = c /\ h.sid[k] = p.cc_next_stream_id[c]
      /\ \A n \in Sessions : n # k => h.cl[n] = g.cl[n] /\ h.sid[n] = g.sid[n]
  BY DEF Serves
<1>4. \A n \in Sessions : n # k => g.id[n] # i
  <2>1. i # 0
    BY <1>1, <1>2, MapsOfChannels, IdAssumption DEF Ids
  <2>2. QED
    BY <1>1, <1>2, <2>1 DEF Apart
<1>5. \A n \in Sessions : g.cl[n] \in Clients => n # k /\ g.sid[n] \in Nat /\ g.sid[n] < p.cc_next_stream_id[g.cl[n]]
  BY <1>1, <1>2, ClientAssumption DEF SidsRouted, Paths
<1>6. Apart(h)
  <2>1. \A n, m \in Sessions : h.id[n] = h.id[m] /\ h.id[n] # 0 => n = m
    BY <1>2, <1>3 DEF Apart
  <2>2. \A n \in Sessions : n # k /\ h.cl[n] = c => h.sid[n] # h.sid[k]
    <3>1. SUFFICES ASSUME NEW n \in Sessions, n # k, h.cl[n] = c PROVE h.sid[n] # h.sid[k]
      OBVIOUS
    <3>2. g.cl[n] = c /\ h.sid[n] = g.sid[n] /\ g.sid[n] \in Nat /\ g.sid[n] < p.cc_next_stream_id[c]
      BY <1>1, <1>3, <1>5, <3>1
    <3>3. p.cc_next_stream_id[c] \in Nat
      BY <1>1, <1>2
    <3>4. QED
      BY <1>3, <3>2, <3>3
  <2>3. \A n, m \in Sessions : n # k /\ m # k /\ h.cl[n] = h.cl[m] /\ h.cl[n] # NoOne /\ h.sid[n] = h.sid[m] => n = m
    <3>1. \A n, m \in Sessions : g.cl[n] = g.cl[m] /\ g.cl[n] # NoOne /\ g.sid[n] = g.sid[m] => n = m
      BY <1>2 DEF Apart
    <3>2. QED
      BY <1>3, <3>1
  <2>4. QED
    BY <1>3, <2>1, <2>2, <2>3 DEF Apart
<1>7. \A q : PacketsRouted(g, q) => PacketsRouted(h, q)
  BY <1>3 DEF PacketsRouted
<1>8. ChannelsRouted(h, a)
  <2>1. ASSUME NEW j \in DOMAIN a.channels
        PROVE  /\ PacketsRouted(h, a.channels[j].packet_queue)
               /\ \A m \in Elems(a.channels[j].packet_queue) : m.id = j
               /\ a.channels[j].association # NoOne =>
                    \E n \in Sessions : /\ h.id[n] = j /\ h.cl[n] = a.channels[j].association
                                        /\ h.sid[n] = a.channels[j].stream_id
    <3>1. j \in DOMAIN p.channels /\ a.channels[j].packet_queue = p.channels[j].packet_queue
      BY <2>1 DEF Takes
    <3>2. /\ PacketsRouted(h, a.channels[j].packet_queue)
          /\ \A m \in Elems(a.channels[j].packet_queue) : m.id = j
      BY <1>2, <1>7, <3>1 DEF ChannelsRouted
    <3>3. CASE j = i
      <4>1. h.id[k] = j /\ h.cl[k] = a.channels[j].association /\ h.sid[k] = a.channels[j].stream_id
        BY <1>1, <1>3, <3>3 DEF Takes
      <4>2. QED
        BY <1>1, <3>2, <4>1
    <3>4. CASE j # i
      <4>1. a.channels[j] = p.channels[j]
        BY <3>1, <3>4 DEF Takes
      <4>2. ASSUME a.channels[j].association # NoOne
            PROVE  \E n \in Sessions : /\ h.id[n] = j /\ h.cl[n] = a.channels[j].association
                                       /\ h.sid[n] = a.channels[j].stream_id
        <5>1. PICK n \in Sessions : /\ g.id[n] = j /\ g.cl[n] = p.channels[j].association
                                    /\ g.sid[n] = p.channels[j].stream_id
          BY <1>2, <3>1, <4>1, <4>2 DEF ChannelsRouted
        <5>2. n # k
          BY <1>1, <3>4, <5>1
        <5>3. QED
          BY <1>3, <4>1, <5>1, <5>2
      <4>3. QED
        BY <3>2, <4>2
    <3>5. QED
      BY <3>3, <3>4
  <2>2. QED
    BY <2>1 DEF ChannelsRouted
<1>9. \A e \in Clients : p.cc_next_stream_id[e] <= a.cc_next_stream_id[e]
  <2>1. SUFFICES ASSUME NEW e \in Clients PROVE p.cc_next_stream_id[e] <= a.cc_next_stream_id[e]
    OBVIOUS
  <2>2. p.cc_next_stream_id[e] \in Nat
    BY <1>2
  <2>3. a.cc_next_stream_id[e] = p.cc_next_stream_id[e] + 1 \/ a.cc_next_stream_id[e] = p.cc_next_stream_id[e]
    BY DEF Takes
  <2>4. QED
    BY <2>2, <2>3
<1>10. MessagesRouted(h, a)
  <2>1. \A e \in Clients : \A q : (\A m \in Elems(q) : m.sid \in Nat) /\ Said(g, e, q, p.cc_next_stream_id[e]) =>
          Said(h, e, q, a.cc_next_stream_id[e])
    <3>1. SUFFICES ASSUME NEW e \in Clients, NEW q, \A m \in Elems(q) : m.sid \in Nat, Said(g, e, q, p.cc_next_stream_id[e])
                   PROVE  Said(h, e, q, a.cc_next_stream_id[e])
      OBVIOUS
    <3>2. p.cc_next_stream_id[e] \in Nat /\ a.cc_next_stream_id[e] \in Nat /\ p.cc_next_stream_id[e] <= a.cc_next_stream_id[e]
      BY <1>2, <1>9 DEF ThreadStates
    <3>3. \A m \in Elems(q) : m.type \notin Registers => m.sid < a.cc_next_stream_id[e]
      BY <3>1, <3>2 DEF Said
    <3>4. \A m \in Elems(q) : m.type \in {"CONNECT", "DATA"} =>
            m.data.session \in Sessions /\ h.cl[m.data.session] = e /\ h.sid[m.data.session] = m.sid
      BY <1>3, <1>5, <3>1 DEF Said
    <3>5. QED
      BY <3>1, <3>3, <3>4 DEF Said
  <2>2. ASSUME NEW e \in Clients
        PROVE  (\A m \in Elems(p.toCli[e]) : m.sid \in Nat) /\ \A m \in Elems(p.fromCli[e]) : m.sid \in Nat
    <3>1. p.toCli[e] \in Seq(ToClient) /\ p.fromCli[e] \in Seq(FromClient)
      BY <1>2
    <3>2. (\A m \in Elems(p.toCli[e]) : m \in ToClient) /\ \A m \in Elems(p.fromCli[e]) : m \in FromClient
      BY <3>1, Places
    <3>3. (\A m \in ToClient : m.sid \in Nat) /\ \A m \in FromClient : m.sid \in Nat
      BY DEF ToClient, FromClient
    <3>4. QED
      BY <3>2, <3>3
  <2>3. a.toCli = p.toCli /\ a.fromCli = p.fromCli
    BY DEF Takes
  <2>4. QED
    BY <1>2, <2>1, <2>2, <2>3 DEF MessagesRouted
<1>11. Registered(a) = Registered(p)
  BY DEF Takes, Registered
<1>12. SidsRouted(h, a)
  <2>1. \A e \in Clients : 1 <= a.cc_next_stream_id[e]
    BY <1>2, <1>9 DEF SidsRouted, ThreadStates
  <2>2. \A n \in Sessions : n # k /\ h.cl[n] # NoOne =>
          1 <= h.sid[n] /\ h.sid[n] < a.cc_next_stream_id[h.cl[n]] /\ h.cl[n] \in Registered(a)
    <3>1. SUFFICES ASSUME NEW n \in Sessions, n # k, h.cl[n] # NoOne
                   PROVE  1 <= h.sid[n] /\ h.sid[n] < a.cc_next_stream_id[h.cl[n]] /\ h.cl[n] \in Registered(a)
      OBVIOUS
    <3>2. h.cl[n] = g.cl[n] /\ h.sid[n] = g.sid[n] /\ g.cl[n] \in Clients /\ g.sid[n] \in Nat
      BY <1>2, <1>3, <3>1 DEF Paths
    <3>3. 1 <= g.sid[n] /\ g.sid[n] < p.cc_next_stream_id[g.cl[n]] /\ g.cl[n] \in Registered(p)
      BY <1>2, <3>1, <3>2 DEF SidsRouted
    <3>4. p.cc_next_stream_id[g.cl[n]] \in Nat /\ a.cc_next_stream_id[g.cl[n]] \in Nat
      BY <1>2, <3>2 DEF ThreadStates
    <3>5. QED
      BY <1>9, <1>11, <3>2, <3>3, <3>4
  <2>3. 1 <= h.sid[k] /\ h.sid[k] < a.cc_next_stream_id[h.cl[k]] /\ h.cl[k] \in Registered(a)
    BY <1>1, <1>2, <1>3, <1>11 DEF SidsRouted, Takes
  <2>4. QED
    BY <2>1, <2>2, <2>3 DEF SidsRouted
<1>13. ServicesRouted(a)
  BY <1>2, <1>11 DEF ServicesRouted, Takes
<1>14. StreamsRouted(h, a, st)
  <2>1. st[k].client = NoOne
    BY <1>1 DEF NoStream
  <2>2. QED
    BY <1>2, <1>3, <2>1 DEF StreamsRouted, Takes
<1>15. QED
  BY <1>6, <1>8, <1>10, <1>12, <1>13, <1>14

\* The item 0 that the message to the client carries.
Starts(g, n, m) == m \in ToClient /\ m.type = "CONNECT" /\ m.data.session = n /\ m.data.number = 0 /\ m.sid = g.sid[n]
\* A CONNECT of another session: what is under way of a session goes on.
LEMMA OthersGoOn ==
  ASSUME NEW g, NEW p, NEW u, NEW r, NEW b, NEW st, NEW d, NEW k, NEW c, NEW i,
         New(g, p, u, r, b, st, d, k, c, i), u # <<>>, IsItem(Head(u), k), NEW a, Takes(p, a, c, i),
         NEW h, Serves(g, h, k, c, p.cc_next_stream_id[c]), NEW m, Starts(h, k, m),
         NEW q \in ThreadStates, Sends(a, q, c, m), NEW n \in Sessions, n # k
  PROVE  Lives(h, q, Tail(u), r, b, st, d, n)
<1>1. /\ Runs(g, p, u, r, b, st, d) /\ k \in Sessions /\ g.id[k] = i
      /\ i \in DOMAIN p.channels /\ c \in Clients
  BY DEF New
<1>2. /\ u \in Seq(AmigaPackets) /\ p.channels \in ChannelMaps /\ p.toCli \in [Clients -> Seq(ToClient)]
      /\ Apart(g) /\ g \in Paths
  BY <1>1, RunsTypes
<1>3. g.id[n] # i
  <2>1. i # 0
    BY <1>1, <1>2, MapsOfChannels, IdAssumption DEF Ids
  <2>2. QED
    BY <1>1, <1>2, <2>1 DEF Apart
<1>4. /\ DOMAIN q.channels = DOMAIN p.channels /\ \A j \in DOMAIN p.channels : j # i => q.channels[j] = p.channels[j]
      /\ q.fromCli = p.fromCli /\ SameConns(p, q)
      /\ \A e \in Clients : q.toCli[e] = IF e = c /\ p.conn[c] = "up" THEN Append(p.toCli[c], m) ELSE p.toCli[e]
  BY DEF Takes, Sends, SameConns
<1>5. OnU(g, n, u, Tail(u)) /\ Carriers(AmigaPackets)
  BY <1>1, TailOnU
<1>6. ~IsItem(Head(u), n) /\ ~IsItem(m, n) /\ m \notin EosMessages(g.sid[n]) /\ m \in ToClient
  BY DEF IsItem, Starts, EosMessages
<1>7. Continues(u, Tail(u), n, EosPackets(g.id[n]))
  BY <1>2, <1>5, <1>6, PassesTail DEF Passes
<1>8. (Assoc(q, g.id[n]) <=> Assoc(p, g.id[n])) /\ (Flows(g, n, q) => Flows(g, n, p)) /\ Queue(q, g.id[n]) = Queue(p, g.id[n])
  BY <1>3, <1>4 DEF Assoc, Flows, Queue
<1>9. ASSUME Linked(g, n, q)
      PROVE  Linked(g, n, p) /\ Passes(p.toCli[g.cl[n]], q.toCli[g.cl[n]], n, EosMessages(g.sid[n]))
  <2>1. g.cl[n] \in Clients
    BY <1>2, <1>9 DEF Linked, Paths
  <2>2. Linked(g, n, p)
    BY <1>4, <1>9, <2>1 DEF Linked, SameConns
  <2>3. Passes(p.toCli[c], Append(p.toCli[c], m), n, EosMessages(g.sid[n]))
    BY <1>1, <1>2, <1>6, PassesAppend
  <2>4. QED
    BY <1>4, <2>1, <2>2, <2>3, PassesSame
<1>10. OnDown(g, n, p, u, q, Tail(u))
  BY <1>7, <1>8, <1>9 DEF OnDown
<1>11. OnUp(g, n, p, q)
  BY <1>4, <1>8, PassesSame DEF OnUp, Passes
<1>12. Lives(g, q, Tail(u), r, b, st, d, n)
  BY <1>1, <1>5, <1>10, <1>11, SessionOn DEF Onward
<1>13. h.id[n] = g.id[n] /\ h.cl[n] = g.cl[n] /\ h.sid[n] = g.sid[n]
  BY DEF Serves
<1>14. QED
  BY <1>12, <1>13, LivesAlike

\* The session of the CONNECT: its first item is before its client, and nothing else.
LEMMA BeginsDown ==
  ASSUME NEW g, NEW p, NEW u, NEW r, NEW b, NEW st, NEW d, NEW k, NEW c, NEW i,
         New(g, p, u, r, b, st, d, k, c, i), u # <<>>, Head(u).type = "CONNECT", Head(u).data.session = k,
         NEW a, Takes(p, a, c, i), NEW h, Serves(g, h, k, c, p.cc_next_stream_id[c]), NEW m, Starts(h, k, m),
         NEW q \in ThreadStates, Sends(a, q, c, m)
  PROVE  Birth(h, k, Tail(u), d, st) /\ Down(h, k, q, Tail(u), d, st)
<1> DEFINE w == d.written[k]
           v == Tail(u)
           t == p.toCli[c]
           E == EosPackets(i)
           F == EosMessages(p.cc_next_stream_id[c])
<1>1. /\ Runs(g, p, u, r, b, st, d) /\ k \in Sessions /\ g.id[k] = i /\ g.cl[k] = NoOne /\ st[k] = NoStream
      /\ i \in DOMAIN p.channels /\ c \in Clients /\ c # NoOne
  BY ClientAssumption DEF New, Unborn
<1>2. /\ u \in Seq(AmigaPackets) /\ p.channels \in ChannelMaps /\ p.toCli \in [Clients -> Seq(ToClient)]
      /\ MessagesRouted(g, p) /\ d \in DriverStates /\ Birth(g, k, u, d, st) /\ Down(g, k, p, u, d, st)
      /\ p.cc_next_stream_id \in [Clients -> Nat]
  BY <1>1, RunsTypes DEF Lives
<1>3. h.id[k] = i /\ h.cl[k] = c /\ h.sid[k] = p.cc_next_stream_id[c]
  BY <1>1 DEF Serves
<1>4. IsItem(Head(u), k) /\ Calls(u, k)
  <2>1. Head(u) \in Elems(u)
    BY <1>1, TailOnU
  <2>2. QED
    BY <2>1 DEF IsItem, Calls
<1>5. /\ OnU(g, k, u, v) /\ Carriers(AmigaPackets) /\ ~Calls(v, k) /\ Head(u) \in Elems(u)
  BY <1>1, <1>4, TailOnU
<1>6. Run(u, k, E, -1, w) /\ w \in Nat /\ w \in Int /\ -1 \in Int /\ 0 \in Int /\ (-1) + 1 = 0
  BY <1>1, <1>2, <1>4 DEF Birth, DriverStates
<1>7. Run(v, k, E, 0, w)
  <2>1. Run(v, k, E, (-1) + 1, w)
    BY <1>2, <1>4, <1>5, <1>6, RunTailItem
  <2>2. QED
    BY <1>6, <2>1
<1>8. i # 0
  BY <1>1, <1>2, MapsOfChannels, IdAssumption DEF Ids
<1>9. ~Waits(d, k) /\ d.io[k] # "idle"
  BY <1>1, <1>2, <1>4, <1>5, <1>8 DEF Birth
<1>10. Birth(h, k, v, d, st)
  BY <1>5, <1>9 DEF Birth
<1>11. /\ t \in Seq(ToClient) /\ Carriers(ToClient)
       /\ \A x \in Elems(t) : ~IsItem(x, k)
       /\ \A x \in Elems(t) : x \notin F
  <2>1. t \in Seq(ToClient) /\ Said(g, c, t, p.cc_next_stream_id[c])
    BY <1>1, <1>2 DEF MessagesRouted
  <2>2. \A x \in Elems(t) : ~IsItem(x, k)
    BY <1>1, <2>1 DEF Said, IsItem
  <2>3. \A x \in Elems(t) : x \notin F
    <3>1. SUFFICES ASSUME NEW x \in Elems(t), x.type = "EOS", x.sid = p.cc_next_stream_id[c] PROVE FALSE
      BY DEF EosMessages
    <3>2. x.sid < p.cc_next_stream_id[c]
      BY <2>1, <3>1 DEF Said, Registers
    <3>3. p.cc_next_stream_id[c] \in Nat
      BY <1>1, <1>2
    <3>4. QED
      BY <3>1, <3>2, <3>3
  <2>4. QED
    BY <2>1, <2>2, <2>3, AllCarry
<1> HIDE DEF E, F, w, v
<1>12. ASSUME Linked(h, k, q) PROVE DownTo(h, k, q, v, d, st, 0)
  <2>1. q.toCli[c] = Append(t, m)
    BY <1>1, <1>3, <1>12 DEF Linked, Sends, SameConns, Takes
  <2>2. Run(t, k, F, -1, -1) /\ Elems(t) \intersect F = {} /\ -1 <= -1
    BY <1>6, <1>11, RunNone
  <2>3. m \in ToClient /\ IsItem(m, k) /\ m.data.number = (-1) + 1 /\ m \notin F
    BY <1>6 DEF Starts, IsItem, F, EosMessages
  <2>4. Run(Append(t, m), k, F, -1, (-1) + 1)
    BY <1>6, <1>11, <2>2, <2>3, RunAppendItem
  <2>5. Run(q.toCli[c], k, F, -1, 0)
    BY <1>6, <2>1, <2>4
  <2>6. ~Carries(q.toCli[c], F)
    <3>1. Elems(q.toCli[c]) = Elems(t) \union {m}
      BY <1>11, <2>1, <2>3, AppendAdds
    <3>2. QED
      BY <2>2, <2>3, <3>1 DEF Carries
  <2>7. Taken(st[k]) = -1 /\ -1 <= 0
    BY <1>1 DEF Taken, NoStream
  <2>8. QED
    BY <1>3, <1>7, <2>5, <2>6, <2>7 DEF DownTo, E, F, w
<1>13. 0 \in 0..w
  BY <1>6
<1>14. Carries(v, EosPackets(h.id[k])) => k \in d.eosWritten
  BY <1>1, <1>2, <1>3, <1>5 DEF OnU, Down
<1>15. st[k].got = <<>> /\ ~st[k].eos
  BY <1>1 DEF NoStream
<1>16. Down(h, k, q, v, d, st)
  <2>1. DOMAIN st[k].got = {}
    BY <1>15
  <2>2. QED
    BY <1>1, <1>12, <1>13, <1>14, <1>15, <2>1 DEF Down, w
<1>17. QED
  BY <1>10, <1>16 DEF v

\* Nothing comes from the client of a session that begins.
LEMMA BeginsUp ==
  ASSUME NEW g, NEW p, NEW u, NEW r, NEW b, NEW st, NEW d, NEW k, NEW c, NEW i,
         New(g, p, u, r, b, st, d, k, c, i), NEW a, Takes(p, a, c, i),
         NEW h, Serves(g, h, k, c, p.cc_next_stream_id[c]), NEW m,
         NEW q \in ThreadStates, Sends(a, q, c, m)
  PROVE  Up(h, k, q, d, r, b, st)
<1> DEFINE f == p.fromCli[c]
           F == EosMessages(p.cc_next_stream_id[c])
           E == EosPackets(i)
<1>1. /\ Runs(g, p, u, r, b, st, d) /\ k \in Sessions /\ g.id[k] = i /\ g.cl[k] = NoOne /\ st[k] = NoStream
      /\ i \in DOMAIN p.channels /\ c \in Clients /\ c # NoOne /\ p.channels[i].packet_queue = <<>>
  BY ClientAssumption DEF New, Unborn, Idle
<1>2. /\ p.fromCli \in [Clients -> Seq(FromClient)] /\ MessagesRouted(g, p) /\ d \in DriverStates
      /\ Up(g, k, p, d, r, b, st) /\ p.cc_next_stream_id \in [Clients -> Nat]
  BY <1>1, RunsTypes DEF Lives
<1>3. h.id[k] = i /\ h.cl[k] = c /\ h.sid[k] = p.cc_next_stream_id[c]
  BY <1>1 DEF Serves
<1>4. q.fromCli = p.fromCli /\ Queue(p, i) = <<>> /\ Queue(q, i) = <<>> /\ i \in DOMAIN q.channels
  BY <1>1 DEF Sends, Takes, Queue
<1>5. /\ f \in Seq(FromClient) /\ \A x \in Elems(f) : ~IsItem(x, k)
      /\ \A x \in Elems(f) : x \notin F
  <2>1. f \in Seq(FromClient) /\ Said(g, c, f, p.cc_next_stream_id[c])
    BY <1>1, <1>2 DEF MessagesRouted
  <2>2. \A x \in Elems(f) : ~IsItem(x, k)
    BY <1>1, <2>1 DEF Said, IsItem
  <2>3. \A x \in Elems(f) : x \notin F
    <3>1. SUFFICES ASSUME NEW x \in Elems(f), x.type = "EOS", x.sid = p.cc_next_stream_id[c] PROVE FALSE
      BY DEF EosMessages
    <3>2. x.sid < p.cc_next_stream_id[c]
      BY <2>1, <3>1 DEF Said, Registers
    <3>3. p.cc_next_stream_id[c] \in Nat
      BY <1>1, <1>2
    <3>4. QED
      BY <3>1, <3>2, <3>3
  <2>4. QED
    BY <2>1, <2>2, <2>3
<1> HIDE DEF F, E
<1>6. Run(f, k, F, 0, 0) /\ ~Carries(f, F)
  <2>1. Run(f, k, F, 0, 0)
    BY <1>5, RunNone
  <2>2. QED
    BY <1>5, <2>1 DEF Carries
<1>7. st[k].sent = 0 /\ ~st[k].ended
  BY <1>1 DEF NoStream
<1>8. ASSUME Open(d, i) PROVE UpOpen(h, k, q, d, r, b, st[k])
  <2>1. UpOpen(g, k, p, d, r, b, st[k])
    BY <1>1, <1>2, <1>8 DEF Up
  <2>2. PICK z1 \in 0..st[k].sent, z2 \in 0..st[k].sent, z3 \in 0..st[k].sent : UpTo(g, k, p, d, r, b, st[k], z1, z2, z3)
    BY <2>1 DEF UpOpen
  <2>3. z1 = 0 /\ z2 = 0 /\ z3 = 0
    BY <1>7
  <2>4. UpTo(h, k, q, d, r, b, st[k], z1, z2, z3)
    BY <1>1, <1>3, <1>4, <1>6, <1>7, <2>2, <2>3 DEF UpTo, F
  <2>5. QED
    BY <1>1, <1>3, <2>1, <2>2, <2>4 DEF UpOpen
<1>9. QED
  BY <1>1, <1>2, <1>3, <1>4, <1>6, <1>7, <1>8 DEF Up, F

\* Ask (a314.cc) tells the client of the session.
LEMMA AskOrder ==
  ASSUME NEW g, NEW p, NEW u, NEW r, NEW b, NEW st, NEW d, NEW k, NEW c, NEW i,
         New(g, p, u, r, b, st, d, k, c, i), u # <<>>, Head(u).type = "CONNECT", Head(u).data.session = k
  PROVE  \E h : Runs(h, Thread!Ask(p, c, i, k), Tail(u), r, b, st, d)
<1>1. /\ Runs(g, p, u, r, b, st, d) /\ k \in Sessions /\ i \in DOMAIN p.channels /\ c \in Clients
  BY DEF New
<1>2. p \in ThreadStates /\ g \in Paths /\ p.cc_next_stream_id \in [Clients -> Nat] /\ st \in [Sessions -> StreamTypes]
  BY <1>1, RunsTypes
<1>3. p.cc_next_stream_id[c] \in Nat
  BY <1>1, <1>2
<1>4. PICK a : a = Associated(p, c, i)
  OBVIOUS
<1>5. Takes(p, a, c, i)
  BY <1>1, <1>2, <1>4, TakesIs
<1>6. PICK h : h = Served(g, k, c, p.cc_next_stream_id[c])
  OBVIOUS
<1>7. Serves(g, h, k, c, p.cc_next_stream_id[c])
  BY <1>1, <1>2, <1>3, <1>6, ServedIs
<1>8. PICK m : m = Thread!Msg("CONNECT", p.cc_next_stream_id[c], Thread!Item(k, 0))
  OBVIOUS
<1>9. Starts(h, k, m)
  <2>1. h.sid[k] = p.cc_next_stream_id[c]
    BY <1>7 DEF Serves
  <2>2. QED
    BY <1>1, <1>3, <1>8, <2>1 DEF Starts, Thread!Msg, Thread!Item, ToClient, Items
<1>10. PICK q : q = Thread!create_and_send_msg(a, c, m)
  OBVIOUS
<1>11. q \in ThreadStates /\ Sends(a, q, c, m)
  BY <1>1, <1>5, <1>9, <1>10, SentIs DEF Takes, Starts
<1>12. Thread!Ask(p, c, i, k) = q
  BY <1>4, <1>8, <1>10 DEF Thread!Ask, Associated
<1>13. /\ Apart(h) /\ ChannelsRouted(h, a) /\ MessagesRouted(h, a) /\ SidsRouted(h, a) /\ ServicesRouted(a)
       /\ StreamsRouted(h, a, st)
  BY <1>5, <1>7, ServedRouted
<1>14. Spoken(h, a, c, m)
  <2>1. h.cl[k] = c /\ h.sid[k] = p.cc_next_stream_id[c]
    BY <1>7 DEF Serves
  <2>2. m.sid < a.cc_next_stream_id[c]
    BY <1>5, <1>9, <2>1 DEF Takes, Starts
  <2>3. QED
    BY <1>1, <1>9, <2>1, <2>2 DEF Spoken, Starts
<1>15. a \in ThreadStates /\ Tells(h, a, q)
  BY <1>1, <1>5, <1>9, <1>11, <1>13, <1>14, SendsTells DEF Takes, Starts
<1>16. MessagesRouted(h, q) /\ SidsRouted(h, q) /\ ServicesRouted(q) /\ StreamsRouted(h, q, st)
  <2>1. \A n \in Sessions : st[n].client \in Clients \union {NoOne}
    BY <1>2 DEF StreamTypes
  <2>2. QED
    BY <1>13, <1>15, <2>1, ToldRouted
<1>17. ThreadRouted(h, q)
  BY <1>11, <1>13, <1>16 DEF ThreadRouted, Sends, ChannelsRouted
<1>18. \A n \in Sessions : Lives(h, q, Tail(u), r, b, st, d, n)
  <2>1. Lives(h, q, Tail(u), r, b, st, d, k)
    BY <1>5, <1>7, <1>9, <1>11, BeginsDown, BeginsUp DEF Lives
  <2>2. IsItem(Head(u), k)
    BY DEF IsItem
  <2>3. ASSUME NEW n \in Sessions, n # k PROVE Lives(h, q, Tail(u), r, b, st, d, n)
    BY <1>5, <1>7, <1>9, <1>11, <2>2, <2>3, OthersGoOn
  <2>4. QED
    BY <2>1, <2>3
<1>19. h \in Paths /\ h.id = g.id
  BY <1>7 DEF Serves
<1>20. Tail(u) \in Seq(AmigaPackets) /\ PacketsRouted(h, Tail(u))
  <2>1. Tail(u) \in Seq(AmigaPackets) /\ PacketsRouted(g, Tail(u))
    BY <1>1, TailOnU
  <2>2. QED
    BY <1>19, <2>1 DEF PacketsRouted
<1>21. Runs(h, q, Tail(u), r, b, st, d)
  BY <1>1, <1>2, <1>11, <1>13, <1>16, <1>17, <1>18, <1>19, <1>20, RunsAgain
<1>22. QED
  BY <1>12, <1>21

\* Fork (a314.cc) makes the connection of a service that nobody has registered.
Forks(p, q, c) ==
  /\ q \in ThreadStates /\ q.channels = p.channels /\ q.toCli = p.toCli /\ q.fromCli = p.fromCli
  /\ q.conn[c] = "up" /\ q.cc_next_stream_id[c] = 1 /\ c \in Registered(q)
  /\ \A e \in Clients : e # c => q.conn[e] = p.conn[e] /\ q.cc_next_stream_id[e] = p.cc_next_stream_id[e]
  /\ \A s \in DOMAIN q.services : IF s = Name[c] THEN q.services[s] = c
                                                 ELSE s \in DOMAIN p.services /\ q.services[s] = p.services[s]
  /\ \A s \in DOMAIN p.services : s \in DOMAIN q.services
LEMMA ForkedIs ==
  ASSUME NEW p \in ThreadStates, NEW c \in Clients
  PROVE  Forks(p, Thread!Fork(p, c), c)
<1> DEFINE q == Thread!Fork(p, c)
           s == Thread!Extend(p.services, Name[c], c)
<1>1. /\ p.conn \in [Clients -> Conns] /\ p.cc_next_stream_id \in [Clients -> Nat] /\ p.services \in ServiceMaps
  BY DEF ThreadStates
<1>2. /\ DOMAIN s = DOMAIN p.services \union {Name[c]} /\ s[Name[c]] = c
      /\ \A x \in DOMAIN p.services : x # Name[c] => s[x] = p.services[x]
  BY DEF Thread!Extend
<1>3. s \in ServiceMaps
  <2>1. s \in [DOMAIN p.services \union {Name[c]} -> Clients]
    BY <1>1 DEF ServiceMaps, Thread!Extend
  <2>2. DOMAIN p.services \union {Name[c]} \subseteq {Name[e] : e \in Clients}
    BY <1>1 DEF ServiceMaps
  <2> HIDE DEF s
  <2>3. QED
    BY <2>1, <2>2 DEF ServiceMaps
<1>4. q = [p EXCEPT !.conn = [p.conn EXCEPT ![c] = "up"],
                    !.cc_next_stream_id = [p.cc_next_stream_id EXCEPT ![c] = 1],
                    !.services = s]
  BY <1>1 DEF Thread!Fork, ThreadStates
<1>5. /\ [p.conn EXCEPT ![c] = "up"] \in [Clients -> Conns]
      /\ [p.cc_next_stream_id EXCEPT ![c] = 1] \in [Clients -> Nat]
      /\ [p.conn EXCEPT ![c] = "up"][c] = "up" /\ [p.cc_next_stream_id EXCEPT ![c] = 1][c] = 1
      /\ \A e \in Clients : e # c => /\ [p.conn EXCEPT ![c] = "up"][e] = p.conn[e]
                                     /\ [p.cc_next_stream_id EXCEPT ![c] = 1][e] = p.cc_next_stream_id[e]
  BY <1>1 DEF Conns
<1> HIDE DEF q, s
<1>6. /\ q \in ThreadStates /\ q.channels = p.channels /\ q.toCli = p.toCli /\ q.fromCli = p.fromCli
      /\ q.conn = [p.conn EXCEPT ![c] = "up"] /\ q.services = s
      /\ q.cc_next_stream_id = [p.cc_next_stream_id EXCEPT ![c] = 1]
  BY <1>1, <1>3, <1>4, <1>5 DEF ThreadStates
<1>7. c \in Registered(q)
  BY <1>2, <1>6 DEF Registered
<1>8. Forks(p, q, c)
  BY <1>2, <1>5, <1>6, <1>7 DEF Forks
<1>9. QED
  BY <1>8 DEF q

\* Fork (a314.cc) keeps the order: the new connection has no messages.
LEMMA ForkOrder ==
  ASSUME NEW g, NEW p, NEW u, NEW r, NEW b, NEW st, NEW d, Runs(g, p, u, r, b, st, d),
         NEW c \in OnDemand, Name[c] \notin DOMAIN p.services
  PROVE  LET q == Thread!Fork(p, c) IN
         Runs(g, q, u, r, b, st, d) /\ q.channels = p.channels /\ c \in Registered(q)
<1> DEFINE q == Thread!Fork(p, c)
<1>1. /\ p \in ThreadStates /\ ServicesRouted(p) /\ SidsRouted(g, p) /\ MessagesRouted(g, p) /\ ChannelsRouted(g, p)
      /\ StreamsRouted(g, p, st) /\ g \in Paths /\ c \in Clients
      /\ st \in [Sessions -> StreamTypes] /\ PacketsRouted(g, u) /\ u \in Seq(AmigaPackets) /\ Apart(g)
  BY RunsTypes, ClientAssumption
<1>2. Forks(p, q, c)
  BY <1>1, ForkedIs
<1> HIDE DEF q
<1>3. c \notin Registered(p)
  BY <1>1 DEF ServicesRouted, Registered
<1>4. p.conn[c] = "none" /\ p.toCli[c] = <<>> /\ p.fromCli[c] = <<>>
  BY <1>1, <1>3 DEF ServicesRouted
<1>5. q \in ThreadStates /\ q.channels = p.channels /\ q.toCli = p.toCli /\ q.fromCli = p.fromCli /\ c \in Registered(q)
  BY <1>2 DEF Forks
<1>6. /\ \A n \in Sessions : g.cl[n] # NoOne => g.cl[n] # c /\ g.cl[n] \in Clients
      /\ Registered(p) \subseteq Registered(q)
      /\ \A e \in Clients : e # c /\ e \in Registered(q) => e \in Registered(p)
  <2>1. \A n \in Sessions : g.cl[n] # NoOne => g.cl[n] # c /\ g.cl[n] \in Clients
    BY <1>1, <1>3 DEF SidsRouted, Paths
  <2>2. ASSUME NEW s \in DOMAIN p.services PROVE p.services[s] \in Registered(q)
    <3>1. s # Name[c] /\ s \in DOMAIN q.services
      BY <1>2, <2>2 DEF Forks
    <3>2. q.services[s] = p.services[s]
      BY <1>2, <3>1 DEF Forks
    <3>3. QED
      BY <3>1, <3>2 DEF Registered
  <2>3. \A e \in Clients : e # c /\ e \in Registered(q) => e \in Registered(p)
    BY <1>2 DEF Forks, Registered
  <2>4. QED
    BY <2>1, <2>2, <2>3 DEF Registered
<1>7. MessagesRouted(g, q)
  <2>1. ASSUME NEW e \in Clients
        PROVE  Said(g, e, q.toCli[e], q.cc_next_stream_id[e]) /\ Said(g, e, q.fromCli[e], q.cc_next_stream_id[e])
    <3>1. CASE e = c
      BY <1>4, <1>5, <3>1, NothingQueued DEF Said
    <3>2. CASE e # c
      BY <1>1, <1>2, <3>2 DEF Forks, MessagesRouted
    <3>3. QED
      BY <3>1, <3>2
  <2>2. QED
    BY <2>1 DEF MessagesRouted
<1>8. SidsRouted(g, q)
  <2>1. \A e \in Clients : 1 <= q.cc_next_stream_id[e]
    BY <1>1, <1>2 DEF Forks, SidsRouted
  <2>2. QED
    BY <1>1, <1>2, <1>6, <2>1 DEF Forks, SidsRouted
<1>9. ServicesRouted(q)
  <2>1. ASSUME NEW s \in DOMAIN q.services PROVE s = Name[q.services[s]] /\ q.conn[q.services[s]] # "none"
    <3>1. CASE s = Name[c]
      BY <1>2, <3>1 DEF Forks
    <3>2. CASE s # Name[c]
      <4>1. s \in DOMAIN p.services /\ q.services[s] = p.services[s]
        BY <1>2, <3>2 DEF Forks
      <4>2. s = Name[p.services[s]] /\ p.conn[p.services[s]] # "none" /\ p.services[s] \in Clients
        <5>1. p.services \in ServiceMaps
          BY <1>1 DEF ThreadStates
        <5>2. p.services[s] \in Clients
          BY <4>1, <5>1 DEF ServiceMaps
        <5>3. QED
          BY <1>1, <4>1, <5>2 DEF ServicesRouted
      <4>3. QED
        BY <1>2, <1>4, <4>1, <4>2 DEF Forks
    <3>3. QED
      BY <3>1, <3>2
  <2>2. \A e \in OnDemand : q.conn[e] # "none" => e \in Registered(q)
    BY <1>1, <1>2, <1>6, ClientAssumption DEF Forks, ServicesRouted
  <2>3. ASSUME NEW e \in Clients
        PROVE  /\ Asking(q.fromCli[e]) =>
                    /\ e \notin Registered(q) /\ ~Asking(Tail(q.fromCli[e]))
                    /\ Head(q.fromCli[e]).type = "REGISTER_REQ"
                    /\ \A m \in Elems(q.toCli[e]) : m.type # "REGISTER_RES"
               /\ Refused(q.toCli[e]) => e \notin Registered(q)
               /\ q.conn[e] = "none" => q.toCli[e] = <<>> /\ q.fromCli[e] = <<>>
    <3>1. CASE e = c
      BY <1>4, <1>5, <3>1, NothingQueued DEF Asking, Refused
    <3>2. CASE e # c
      BY <1>1, <1>2, <1>5, <1>6, <3>2 DEF Forks, ServicesRouted
    <3>3. QED
      BY <3>1, <3>2
  <2>4. QED
    BY <2>1, <2>2, <2>3 DEF ServicesRouted
<1>10. StreamsRouted(g, q, st)
  BY <1>1, <1>2, <1>6 DEF StreamsRouted, Forks
<1>11. ASSUME NEW n \in Sessions PROVE Lives(g, q, u, r, b, st, d, n)
  <2>1. Linked(g, n, q) => Linked(g, n, p)
    BY <1>2, <1>6 DEF Linked, Forks
  <2>2. OnDown(g, n, p, u, q, u)
    BY <1>5, <2>1, OnUSame, PassesSame DEF OnDown, Flows
  <2>3. OnUp(g, n, p, q)
    BY <1>5, PassesSame DEF OnUp, Assoc, Queue, Passes
  <2>4. QED
    BY <1>5, <2>2, <2>3, OnUSame, SessionOn DEF Onward
<1>12. ThreadRouted(g, q)
  BY <1>1, <1>5, <1>7, <1>8, <1>9 DEF ThreadRouted, ChannelsRouted
<1>13. Runs(g, q, u, r, b, st, d)
  BY <1>1, <1>5, <1>10, <1>11, <1>12, RunsAgain
<1>14. QED
  BY <1>5, <1>13 DEF q

\* The order is kept, wherever the sessions are now.
StillRuns(q, v, r, b, st, d) == \E h : Runs(h, q, v, r, b, st, d)

\* handle_pkt_connect (a314.cc)
LEMMA HandleConnectOrder ==
  ASSUME NEW g, NEW p, NEW u, NEW r, NEW b, NEW st, NEW d, Runs(g, p, u, r, b, st, d), u # <<>>,
         Head(u).type = "CONNECT", Head(u).id \notin DOMAIN p.channels
  PROVE  StillRuns(Thread!handle_pkt_connect(p, Head(u).id, Head(u).data.session), Tail(u), r, b, st, d)
<1> DEFINE i == Head(u).id
           k == Head(u).data.session
           service == ServiceOf[k.key]
           q == WithIdle(p, i)
           forked == {c \in OnDemand : Name[c] = service}
           e == CHOOSE c \in forked : TRUE
<1>1. Head(u) \in AmigaPackets /\ Head(u) \in Elems(u) /\ PacketsRouted(g, u)
  <2>1. u \in Seq(AmigaPackets) /\ PacketsRouted(g, u)
    BY RunsTypes
  <2>2. QED
    BY <2>1, HeadAndRest
<1>2. k \in Sessions /\ g.id[k] = i /\ i \in Ids /\ Calls(u, k)
  BY <1>1 DEF PacketsRouted, AmigaPackets, Calls
<1>3. Unborn(g, k, st)
  BY <1>2, RunsTypes DEF Lives, Birth
<1>4. Runs(g, q, u, r, b, st, d) /\ i \in DOMAIN q.channels /\ q.channels[i] = Idle /\ SameWires(p, q)
  BY <1>2, IdleOrder
<1>5. Thread!handle_pkt_connect(p, i, k) =
        CASE service \in DOMAIN p.services -> Thread!Ask(q, p.services[service], i, k)
          [] service \notin DOMAIN p.services /\ forked # {} -> Thread!Ask(Thread!Fork(q, e), e, i, k)
          [] OTHER -> Thread!create_and_enqueue_packet(q, i, "CONNECT_RESPONSE", Thread!Result(3))
  BY Zenon DEF Thread!handle_pkt_connect, Idle, WithIdle
<1> HIDE DEF q
<1>6. q.services = p.services /\ q.services \in ServiceMaps
  BY <1>4, RunsTypes DEF SameWires
<1>7. CASE service \in DOMAIN p.services
  <2> DEFINE c == p.services[service]
  <2>1. c \in Clients /\ c \in Registered(q)
    BY <1>6, <1>7 DEF ServiceMaps, Registered
  <2>2. New(g, q, u, r, b, st, d, k, c, i)
    BY <1>2, <1>3, <1>4, <2>1 DEF New
  <2>3. \E h : Runs(h, Thread!Ask(q, c, i, k), Tail(u), r, b, st, d)
    BY <2>2, AskOrder
  <2>4. QED
    BY <1>5, <1>7, <2>3 DEF StillRuns
<1>8. CASE service \notin DOMAIN p.services /\ forked # {}
  <2>1. e \in OnDemand /\ Name[e] = service /\ e \in Clients
    BY <1>8, ClientAssumption
  <2> HIDE DEF e
  <2>2. PICK f : f = Thread!Fork(q, e)
    OBVIOUS
  <2>3. Runs(g, f, u, r, b, st, d) /\ f.channels = q.channels /\ e \in Registered(f)
    BY <1>4, <1>6, <1>8, <2>1, <2>2, ForkOrder
  <2>4. New(g, f, u, r, b, st, d, k, e, i)
    BY <1>2, <1>3, <1>4, <2>1, <2>3 DEF New
  <2>5. \E h : Runs(h, Thread!Ask(f, e, i, k), Tail(u), r, b, st, d)
    BY <2>4, AskOrder
  <2>6. QED
    BY <1>5, <1>8, <2>2, <2>5 DEF StillRuns
<1>9. CASE service \notin DOMAIN p.services /\ forked = {}
  <2>1. \A n \in Sessions : g.id[n] = Head(u).id => ~Flows(g, n, q) \/ ~IsItem(Head(u), n)
    BY <1>4 DEF Flows, Idle
  <2>2. Runs(g, q, Tail(u), r, b, st, d)
    BY <1>4, <2>1, DropPacketOrder
  <2>3. Thread!Result(3) \in Items
    BY ItemTypes
  <2>4. Runs(g, Thread!create_and_enqueue_packet(q, i, "CONNECT_RESPONSE", Thread!Result(3)), Tail(u), r, b, st, d)
    BY <1>4, <2>2, <2>3, EnqueueOrder
  <2>5. QED
    BY <1>5, <1>9, <2>4 DEF StillRuns
<1>10. QED
  BY <1>7, <1>8, <1>9

\* handle_received_pkt (a314.cc)
LEMMA ReceivedOrder ==
  ASSUME NEW g, NEW p, NEW u, NEW r, NEW b, NEW st, NEW d, Runs(g, p, u, r, b, st, d), u # <<>>,
         ~Thread!Duplicate(p, Head(u))
  PROVE  StillRuns(Thread!handle_received_pkt(p, Head(u)), Tail(u), r, b, st, d)
<1> DEFINE m == Head(u)
           i == m.id
           q == CASE m.type = "CONNECT" -> Thread!handle_pkt_connect(p, i, m.data.session)
                  [] m.type # "CONNECT" /\ i \notin DOMAIN p.channels -> p
                  [] m.type = "DATA" /\ i \in DOMAIN p.channels -> Thread!handle_pkt_data(p, i, m.data)
                  [] m.type = "EOS" /\ i \in DOMAIN p.channels -> Thread!handle_pkt_eos(p, i)
                  [] m.type = "RESET" /\ i \in DOMAIN p.channels -> Thread!handle_pkt_reset(p, i)
<1>1. Thread!handle_received_pkt(p, m) = Thread!remove_channel_if_not_associated_and_empty_pq(q, i)
  BY Zenon DEF Thread!handle_received_pkt
<1>2. m.type \in {"CONNECT", "DATA", "EOS", "RESET"}
  <2>1. u \in Seq(AmigaPackets)
    BY RunsTypes
  <2>2. m \in AmigaPackets
    BY <2>1, HeadAndRest
  <2>3. QED
    BY <2>2 DEF AmigaPackets
<1>3. CASE m.type = "CONNECT"
  <2>1. q = Thread!handle_pkt_connect(p, i, m.data.session)
    BY <1>3
  <2>2. i \notin DOMAIN p.channels
    BY <1>3 DEF Thread!Duplicate
  <2>3. StillRuns(Thread!handle_pkt_connect(p, i, m.data.session), Tail(u), r, b, st, d)
    BY <1>3, <2>2, HandleConnectOrder
  <2> HIDE DEF q
  <2>4. PICK h : Runs(h, q, Tail(u), r, b, st, d)
    BY <2>1, <2>3 DEF StillRuns
  <2>5. Runs(h, Thread!remove_channel_if_not_associated_and_empty_pq(q, i), Tail(u), r, b, st, d)
    BY <2>4, RemoveOrder
  <2>6. QED
    BY <1>1, <2>5 DEF StillRuns
<1>4. CASE m.type # "CONNECT"
  <2>1. Runs(g, q, Tail(u), r, b, st, d)
    <3>1. CASE i \notin DOMAIN p.channels
      <4>1. q = p
        BY <1>4, <3>1
      <4>2. \A n \in Sessions : g.id[n] = Head(u).id => ~Flows(g, n, p) \/ ~IsItem(Head(u), n)
        BY <3>1 DEF Flows
      <4> HIDE DEF q
      <4>3. QED
        BY <4>1, <4>2, DropPacketOrder
    <3>2. CASE i \in DOMAIN p.channels /\ m.type = "DATA"
      <4>1. q = Thread!handle_pkt_data(p, i, m.data)
        BY <3>2
      <4> HIDE DEF q
      <4>2. QED
        BY <3>2, <4>1, DataPacketOrder
    <3>3. CASE i \in DOMAIN p.channels /\ m.type = "EOS"
      <4>1. q = Thread!handle_pkt_eos(p, i)
        BY <3>3
      <4> HIDE DEF q
      <4>2. QED
        BY <3>3, <4>1, EosTakenOrder
    <3>4. CASE i \in DOMAIN p.channels /\ m.type = "RESET"
      <4>1. q = Thread!handle_pkt_reset(p, i)
        BY <3>4
      <4> HIDE DEF q
      <4>2. QED
        BY <3>4, <4>1, ResetTakenOrder
    <3>5. QED
      BY <1>2, <1>4, <3>1, <3>2, <3>3, <3>4
  <2> HIDE DEF q
  <2>2. Runs(g, Thread!remove_channel_if_not_associated_and_empty_pq(q, i), Tail(u), r, b, st, d)
    BY <2>1, RemoveOrder
  <2>3. QED
    BY <1>1, <2>2 DEF StillRuns
<1>5. QED
  BY <1>3, <1>4

-----------------------------------------------------------------------------
(* Messages of the clients. *)

\* The thread takes a message of client c.
Listens(p, q, c) ==
  /\ q \in ThreadStates /\ c \in Clients /\ p.fromCli[c] # <<>>
  /\ q.fromCli[c] = Tail(p.fromCli[c]) /\ \A k \in Clients : k # c => q.fromCli[k] = p.fromCli[k]
  /\ q.services = p.services /\ q.conn = p.conn /\ q.toCli = p.toCli
  /\ q.cc_next_stream_id = p.cc_next_stream_id
WithoutFirst(p, c) == [p EXCEPT !.fromCli[c] = Tail(@)]
LEMMA TookIs ==
  ASSUME NEW p \in ThreadStates, NEW c \in Clients, p.fromCli[c] # <<>>
  PROVE  LET q == WithoutFirst(p, c) IN
         /\ Listens(p, q, c) /\ q.channels = p.channels /\ q.pi_queue = p.pi_queue
         /\ q.associations = p.associations
<1> DEFINE q == WithoutFirst(p, c)
           f == [p.fromCli EXCEPT ![c] = Tail(@)]
<1>1. p.fromCli \in [Clients -> Seq(FromClient)]
  BY DEF ThreadStates
<1>2. Tail(p.fromCli[c]) \in Seq(FromClient)
  BY <1>1, HeadAndRest
<1>3. f \in [Clients -> Seq(FromClient)] /\ f[c] = Tail(p.fromCli[c]) /\ \A k \in Clients : k # c => f[k] = p.fromCli[k]
  BY <1>1, <1>2
<1>4. q = [p EXCEPT !.fromCli = f]
  BY DEF WithoutFirst, ThreadStates
<1> HIDE DEF q, f
<1>5. /\ q \in ThreadStates /\ q.fromCli = f /\ q.services = p.services /\ q.conn = p.conn /\ q.toCli = p.toCli
      /\ q.cc_next_stream_id = p.cc_next_stream_id /\ q.channels = p.channels /\ q.pi_queue = p.pi_queue
      /\ q.associations = p.associations
  BY <1>3, <1>4 DEF ThreadStates
<1>6. Listens(p, q, c)
  BY <1>3, <1>5 DEF Listens
<1>7. QED
  BY <1>5, <1>6 DEF q

\* The message that is taken leaves the others on their connections.
LEMMA ListensRouted ==
  ASSUME NEW g, NEW p, NEW u, NEW r, NEW b, NEW st, NEW d, Runs(g, p, u, r, b, st, d),
         NEW q, NEW c, Listens(p, q, c)
  PROVE  /\ MessagesRouted(g, q) /\ SidsRouted(g, q) /\ ServicesRouted(q) /\ StreamsRouted(g, q, st)
         /\ ~Asking(q.fromCli[c])
<1>1. /\ ServicesRouted(p) /\ SidsRouted(g, p) /\ MessagesRouted(g, p) /\ StreamsRouted(g, p, st)
      /\ p.fromCli \in [Clients -> Seq(FromClient)] /\ c \in Clients /\ p.fromCli[c] # <<>>
  BY RunsTypes DEF Listens
<1>2. Elems(p.fromCli[c]) = {Head(p.fromCli[c])} \union Elems(Tail(p.fromCli[c])) /\ Tail(p.fromCli[c]) \in Seq(FromClient)
  BY <1>1, HeadAndRest
<1>3. Registered(q) = Registered(p)
  BY DEF Registered, Listens
<1>4. MessagesRouted(g, q)
  <2>1. ASSUME NEW e \in Clients
        PROVE  Said(g, e, q.toCli[e], q.cc_next_stream_id[e]) /\ Said(g, e, q.fromCli[e], q.cc_next_stream_id[e])
    <3>1. \A m \in Elems(q.fromCli[e]) : m \in Elems(p.fromCli[e])
      BY <1>2 DEF Listens
    <3>2. Said(g, e, p.toCli[e], p.cc_next_stream_id[e]) /\ Said(g, e, p.fromCli[e], p.cc_next_stream_id[e])
      BY <1>1 DEF MessagesRouted
    <3>3. q.toCli[e] = p.toCli[e] /\ q.cc_next_stream_id[e] = p.cc_next_stream_id[e]
      BY DEF Listens
    <3>4. QED
      BY <3>1, <3>2, <3>3 DEF Said
  <2>2. QED
    BY <2>1 DEF MessagesRouted
<1>5. SidsRouted(g, q)
  BY <1>1, <1>3 DEF SidsRouted, Listens
<1>6. StreamsRouted(g, q, st)
  BY <1>1 DEF StreamsRouted, Listens
<1>7. ~Asking(q.fromCli[c])
  <2>1. Asking(Tail(p.fromCli[c])) => Asking(p.fromCli[c])
    BY <1>2 DEF Asking
  <2>2. QED
    BY <1>1, <2>1 DEF ServicesRouted, Listens
<1>8. ServicesRouted(q)
  <2>1. ASSUME NEW e \in Clients
        PROVE  /\ Asking(q.fromCli[e]) =>
                    /\ e \notin Registered(q) /\ ~Asking(Tail(q.fromCli[e]))
                    /\ Head(q.fromCli[e]).type = "REGISTER_REQ"
                    /\ \A m \in Elems(q.toCli[e]) : m.type # "REGISTER_RES"
               /\ Refused(q.toCli[e]) => e \notin Registered(q)
               /\ q.conn[e] = "none" => q.toCli[e] = <<>> /\ q.fromCli[e] = <<>>
    <3>1. q.toCli[e] = p.toCli[e] /\ q.conn[e] = p.conn[e]
      BY DEF Listens
    <3>2. CASE e = c
      BY <1>1, <1>3, <1>7, <3>1, <3>2 DEF ServicesRouted
    <3>3. CASE e # c
      BY <1>1, <1>3, <3>1, <3>3 DEF ServicesRouted, Listens
    <3>4. QED
      BY <3>2, <3>3
  <2>2. QED
    BY <1>1, <1>3, <2>1 DEF ServicesRouted, Listens
<1>9. QED
  BY <1>4, <1>5, <1>6, <1>7, <1>8

\* The messages that are left, for a session the message is no item of.
LEMMA ListensOn ==
  ASSUME NEW g, NEW p, NEW u, NEW r, NEW b, NEW st, NEW d, Runs(g, p, u, r, b, st, d),
         NEW q, NEW c, Listens(p, q, c), NEW n \in Sessions
  PROVE  /\ g.cl[n] # NoOne /\ Carries(q.fromCli[g.cl[n]], EosMessages(g.sid[n])) =>
              Carries(p.fromCli[g.cl[n]], EosMessages(g.sid[n]))
         /\ g.cl[n] # NoOne /\ (g.cl[n] = c => ~IsItem(Head(p.fromCli[c]), n)) =>
              Continues(p.fromCli[g.cl[n]], q.fromCli[g.cl[n]], n, EosMessages(g.sid[n]))
<1>1. p.fromCli \in [Clients -> Seq(FromClient)] /\ c \in Clients /\ p.fromCli[c] # <<>> /\ g \in Paths
  BY RunsTypes DEF Listens
<1>2. Elems(p.fromCli[c]) = {Head(p.fromCli[c])} \union Elems(Tail(p.fromCli[c])) /\ p.fromCli[c] \in Seq(FromClient)
  BY <1>1, HeadAndRest
<1>3. CASE g.cl[n] = NoOne
  BY <1>3
<1>4. CASE g.cl[n] # NoOne /\ g.cl[n] # c
  <2>1. q.fromCli[g.cl[n]] = p.fromCli[g.cl[n]]
    BY <1>1, <1>4 DEF Listens, Paths
  <2>2. QED
    BY <1>4, <2>1 DEF Continues
<1>5. CASE g.cl[n] = c
  <2>1. q.fromCli[c] = Tail(p.fromCli[c])
    BY DEF Listens
  <2>2. ~IsItem(Head(p.fromCli[c]), n) => Passes(p.fromCli[c], Tail(p.fromCli[c]), n, EosMessages(g.sid[n]))
    BY <1>1, <1>2, AllCarry, PassesTail
  <2>3. QED
    BY <1>2, <1>5, <2>1, <2>2 DEF Passes, Carries
<1>6. QED
  BY <1>3, <1>4, <1>5

\* A message that is no item of a session with a channel.
LEMMA TookOrder ==
  ASSUME NEW g, NEW p, NEW u, NEW r, NEW b, NEW st, NEW d, Runs(g, p, u, r, b, st, d),
         NEW c \in Clients, p.fromCli[c] # <<>>,
         \A n \in Sessions : Assoc(p, g.id[n]) /\ g.cl[n] = c => ~IsItem(Head(p.fromCli[c]), n)
  PROVE  Runs(g, WithoutFirst(p, c), u, r, b, st, d)
<1> DEFINE q == WithoutFirst(p, c)
<1>1. p \in ThreadStates /\ ChannelsRouted(g, p) /\ g \in Paths /\ Apart(g) /\ u \in Seq(AmigaPackets) /\ PacketsRouted(g, u)
      /\ st \in [Sessions -> StreamTypes]
  BY RunsTypes
<1>2. Listens(p, q, c) /\ q.channels = p.channels
  BY <1>1, TookIs
<1> HIDE DEF q
<1>3. MessagesRouted(g, q) /\ SidsRouted(g, q) /\ ServicesRouted(q) /\ StreamsRouted(g, q, st)
  BY <1>2, ListensRouted
<1>4. q \in ThreadStates /\ q.toCli = p.toCli /\ q.conn = p.conn
  BY <1>2 DEF Listens
<1>5. ASSUME NEW n \in Sessions PROVE Lives(g, q, u, r, b, st, d, n)
  <2>1. OnDown(g, n, p, u, q, u)
    BY <1>2, <1>4, OnUSame, PassesSame DEF OnDown, Linked, Flows
  <2>2. Assoc(p, g.id[n]) => g.cl[n] # NoOne
    <3>1. SUFFICES ASSUME Assoc(p, g.id[n]) PROVE g.cl[n] # NoOne
      OBVIOUS
    <3>2. PICK k : IsOf(g, p, g.id[n], k)
      BY <3>1, SessionOf DEF Assoc
    <3>3. k = n /\ g.cl[n] \in Clients
      BY <3>2 DEF IsOf
    <3>4. QED
      BY <3>3, ClientAssumption
  <2>3. Assoc(q, g.id[n]) = Assoc(p, g.id[n]) /\ Queue(q, g.id[n]) = Queue(p, g.id[n])
    BY <1>2 DEF Assoc, Queue
  <2>4. OnUp(g, n, p, q)
    BY <1>2, <2>2, <2>3, ListensOn, PassesSame DEF OnUp
  <2>5. QED
    BY <1>4, <2>1, <2>4, OnUSame, SessionOn DEF Onward
<1>6. ThreadRouted(g, q)
  BY <1>1, <1>2, <1>3 DEF ThreadRouted, ChannelsRouted
<1>7. Runs(g, q, u, r, b, st, d)
  BY <1>1, <1>3, <1>4, <1>5, <1>6, RunsAgain
<1>8. QED
  BY <1>7 DEF q

\* The thread passes the message on: a packet joins the queue of channel i.
Relays(p, q, c, i, m) ==
  /\ Listens(p, q, c) /\ DOMAIN q.channels = DOMAIN p.channels /\ i \in DOMAIN p.channels
  /\ m \in PiPackets /\ m.id = i
  /\ q.channels[i].association = p.channels[i].association /\ q.channels[i].stream_id = p.channels[i].stream_id
  /\ q.channels[i].got_eos_from_ami = p.channels[i].got_eos_from_ami
  /\ q.channels[i].packet_queue = Append(p.channels[i].packet_queue, m)
  /\ \A j \in DOMAIN p.channels : j # i => q.channels[j] = p.channels[j]
\* from client c, that session n is with
Relayed(g, p, q, c, i, m, n) ==
  /\ Relays(p, q, c, i, m) /\ IsOf(g, p, i, n) /\ g.cl[n] = c
  /\ m.type \in {"DATA", "EOS"} /\ (m.type = "DATA" => m.data.session = n /\ m.data.number # 0)
LEMMA RelayedRouted ==
  ASSUME NEW g, NEW p, NEW u, NEW r, NEW b, NEW st, NEW d, Runs(g, p, u, r, b, st, d),
         NEW q, NEW c, NEW i, NEW m, NEW n, Relayed(g, p, q, c, i, m, n)
  PROVE  ThreadRouted(g, q) /\ StreamsRouted(g, q, st)
<1>1. /\ Relays(p, q, c, i, m) /\ IsOf(g, p, i, n) /\ m.type # "CONNECT"
      /\ m.type = "DATA" => m.data.session = n /\ m.data.number # 0
  BY DEF Relayed
<1>2. Listens(p, q, c) /\ i \in DOMAIN p.channels /\ m \in PiPackets /\ m.id = i
  BY <1>1 DEF Relays
<1>3. MessagesRouted(g, q) /\ SidsRouted(g, q) /\ ServicesRouted(q) /\ StreamsRouted(g, q, st)
  BY <1>2, ListensRouted
<1>4. ChannelsRouted(g, p) /\ p.channels \in ChannelMaps
  BY RunsTypes
<1>5. Elems(q.channels[i].packet_queue) = Elems(p.channels[i].packet_queue) \union {m}
  <2>1. p.channels[i].packet_queue \in Seq(PiPackets)
    BY <1>2, <1>4, MapsOfChannels, ChannelFields
  <2>2. q.channels[i].packet_queue = Append(p.channels[i].packet_queue, m)
    BY <1>1 DEF Relays
  <2>3. QED
    BY <1>2, <2>1, <2>2, AppendAdds
<1>6. n \in Sessions /\ g.id[n] = i
  BY <1>1 DEF IsOf
<1>7. ASSUME NEW j \in DOMAIN q.channels
      PROVE  /\ PacketsRouted(g, q.channels[j].packet_queue)
             /\ \A x \in Elems(q.channels[j].packet_queue) : x.id = j
             /\ q.channels[j].association # NoOne =>
                  \E k \in Sessions : /\ g.id[k] = j /\ g.cl[k] = q.channels[j].association
                                      /\ g.sid[k] = q.channels[j].stream_id
  <2>1. j \in DOMAIN p.channels
    BY <1>1, <1>7 DEF Relays
  <2>2. /\ PacketsRouted(g, p.channels[j].packet_queue)
        /\ \A x \in Elems(p.channels[j].packet_queue) : x.id = j
        /\ p.channels[j].association # NoOne =>
             \E k \in Sessions : /\ g.id[k] = j /\ g.cl[k] = p.channels[j].association
                                 /\ g.sid[k] = p.channels[j].stream_id
    BY <1>4, <2>1 DEF ChannelsRouted
  <2>3. CASE j # i
    BY <1>1, <2>1, <2>2, <2>3 DEF Relays
  <2>4. CASE j = i
    <3>1. q.channels[j].association = p.channels[j].association /\ q.channels[j].stream_id = p.channels[j].stream_id
      BY <1>1, <2>4 DEF Relays
    <3>2. PacketsRouted(g, q.channels[j].packet_queue)
      BY <1>1, <1>2, <1>5, <1>6, <2>2, <2>4 DEF PacketsRouted
    <3>3. \A x \in Elems(q.channels[j].packet_queue) : x.id = j
      BY <1>2, <1>5, <2>2, <2>4
    <3>4. QED
      BY <2>2, <3>1, <3>2, <3>3
  <2>5. QED
    BY <2>3, <2>4
<1>8. ChannelsRouted(g, q)
  BY <1>7 DEF ChannelsRouted
<1>9. QED
  BY <1>3, <1>8 DEF ThreadRouted

\* The rest of what the order says is as it was, if the message is of session n or of none.
LEMMA RelayedOn ==
  ASSUME NEW g, NEW p, NEW u, NEW r, NEW b, NEW st, NEW d, Runs(g, p, u, r, b, st, d),
         NEW q, NEW c, NEW i, NEW m, NEW n, Relayed(g, p, q, c, i, m, n), NEW k \in Sessions
  PROVE  /\ OnDown(g, k, p, u, q, u)
         /\ k # n /\ (IsItem(Head(p.fromCli[c]), k) => FALSE) => OnUp(g, k, p, q)
<1>1. Relays(p, q, c, i, m) /\ IsOf(g, p, i, n) /\ (m.type = "DATA" => m.data.session = n) /\ m.type # "CONNECT"
  BY DEF Relayed
<1>2. Listens(p, q, c) /\ DOMAIN q.channels = DOMAIN p.channels
  BY <1>1 DEF Relays
<1>3. OnDown(g, k, p, u, q, u)
  <2>1. Flows(g, k, q) => Flows(g, k, p)
    BY <1>1 DEF Flows, Relays
  <2>2. q.toCli = p.toCli /\ q.conn = p.conn
    BY <1>2 DEF Listens
  <2>3. QED
    BY <2>1, <2>2, OnUSame, PassesSame DEF OnDown, Linked
<1>4. ASSUME k # n, ~IsItem(Head(p.fromCli[c]), k) PROVE OnUp(g, k, p, q)
  <2>1. g.id[k] # i
    BY <1>1, <1>4 DEF IsOf
  <2>2. Assoc(q, g.id[k]) = Assoc(p, g.id[k]) /\ Queue(q, g.id[k]) = Queue(p, g.id[k])
    BY <1>1, <2>1 DEF Assoc, Queue, Relays
  <2>3. Assoc(p, g.id[k]) => g.cl[k] # NoOne
    <3>1. SUFFICES ASSUME Assoc(p, g.id[k]) PROVE g.cl[k] # NoOne
      OBVIOUS
    <3>2. PICK y : IsOf(g, p, g.id[k], y)
      BY <3>1, SessionOf DEF Assoc
    <3>3. y = k /\ g.cl[k] \in Clients
      BY <3>2 DEF IsOf
    <3>4. QED
      BY <3>3, ClientAssumption
  <2>4. QED
    BY <1>2, <1>4, <2>2, <2>3, ListensOn, PassesSame DEF OnUp
<1>5. QED
  BY <1>3, <1>4

\* What the order says of session n in the queue and from the client.
Behind(g, n, p, d, r, b, s, i, z1, z2, z3) ==
  /\ z1 \in 0..s.sent /\ z2 \in 0..s.sent /\ z3 \in 0..s.sent /\ UpTo(g, n, p, d, r, b, s, z1, z2, z3)
  /\ z1 \in Int /\ z2 \in Int /\ z3 \in Int /\ s.sent \in Int /\ z2 <= z3 /\ z3 <= s.sent
  /\ Run(p.channels[i].packet_queue, n, EosPackets(i), z2, z3)
  /\ Carries(p.channels[i].packet_queue, EosPackets(i)) => s.ended /\ z3 = s.sent
  /\ Run(p.fromCli[g.cl[n]], n, EosMessages(g.sid[n]), z3, s.sent)
LEMMA BehindIs ==
  ASSUME NEW g, NEW p, NEW u, NEW r, NEW b, NEW st, NEW d, Runs(g, p, u, r, b, st, d),
         NEW i \in DOMAIN p.channels, p.channels[i].association # NoOne, NEW n, IsOf(g, p, i, n), Open(d, i)
  PROVE  \E z1, z2, z3 : Behind(g, n, p, d, r, b, st[n], i, z1, z2, z3)
<1>1. n \in Sessions /\ g.id[n] = i
  BY DEF IsOf
<1>2. st[n].sent \in Nat /\ Up(g, n, p, d, r, b, st)
  <2>1. st \in [Sessions -> StreamTypes] /\ Lives(g, p, u, r, b, st, d, n)
    BY <1>1, RunsTypes
  <2>2. QED
    BY <1>1, <2>1 DEF StreamTypes, Lives
<1>3. UpOpen(g, n, p, d, r, b, st[n])
  BY <1>1, <1>2 DEF Up
<1>4. PICK z1 \in 0..st[n].sent, z2 \in 0..st[n].sent, z3 \in 0..st[n].sent : UpTo(g, n, p, d, r, b, st[n], z1, z2, z3)
  BY <1>3 DEF UpOpen
<1>5. z1 \in Int /\ z2 \in Int /\ z3 \in Int /\ st[n].sent \in Int /\ z2 <= z3 /\ z3 <= st[n].sent
  BY <1>2, <1>4 DEF UpTo
<1>6. Behind(g, n, p, d, r, b, st[n], i, z1, z2, z3)
  BY <1>1, <1>4, <1>5 DEF Behind, UpTo, Queue
<1>7. QED
  BY <1>6

\* Data of the client is passed on.
LEMMA RelayDataOrder ==
  ASSUME NEW g, NEW p, NEW u, NEW r, NEW b, NEW st, NEW d, Runs(g, p, u, r, b, st, d),
         NEW q, NEW c, NEW i, NEW m, NEW n, Relayed(g, p, q, c, i, m, n), p.channels[i].association # NoOne,
         Head(p.fromCli[c]).type = "DATA", m.type = "DATA", m.data = Head(p.fromCli[c]).data
  PROVE  Runs(g, q, u, r, b, st, d)
<1>1. /\ Relays(p, q, c, i, m) /\ IsOf(g, p, i, n) /\ g.cl[n] = c /\ m.data.session = n /\ n \in Sessions /\ g.id[n] = i
      /\ Listens(p, q, c) /\ i \in DOMAIN p.channels /\ DOMAIN q.channels = DOMAIN p.channels /\ m \in PiPackets
      /\ q \in ThreadStates /\ c \in Clients /\ p.fromCli[c] # <<>> /\ q.fromCli[c] = Tail(p.fromCli[c])
      /\ q.channels[i].packet_queue = Append(p.channels[i].packet_queue, m)
  BY DEF Relayed, Relays, IsOf, Listens
<1>2. /\ p.fromCli \in [Clients -> Seq(FromClient)] /\ p.channels \in ChannelMaps /\ Carriers(FromClient) /\ Carriers(PiPackets)
      /\ p.channels[i].packet_queue \in Seq(PiPackets)
      /\ g \in Paths /\ Apart(g) /\ u \in Seq(AmigaPackets) /\ PacketsRouted(g, u) /\ st \in [Sessions -> StreamTypes]
      /\ d \in DriverStates
  BY <1>1, RunsTypes, AllCarry, MapsOfChannels, ChannelFields
<1>3. ThreadRouted(g, q) /\ StreamsRouted(g, q, st)
  BY RelayedRouted
<1>4. ASSUME NEW k \in Sessions, k # n PROVE Lives(g, q, u, r, b, st, d, k)
  <2>1. ~IsItem(Head(p.fromCli[c]), k)
    BY <1>1, <1>4 DEF IsItem
  <2>2. OnDown(g, k, p, u, q, u) /\ OnUp(g, k, p, q)
    BY <1>4, <2>1, RelayedOn
  <2>3. QED
    BY <1>1, <2>2, OnUSame, SessionOn DEF Onward
<1>5. Lives(g, q, u, r, b, st, d, n)
  <2>1. Birth(g, n, u, d, st) /\ Down(g, n, p, u, d, st) /\ Up(g, n, p, d, r, b, st) /\ st[n] \in StreamTypes
    BY <1>1, <1>2, RunsTypes DEF Lives
  <2>2. Down(g, n, q, u, d, st)
    <3>1. OnDown(g, n, p, u, q, u)
      BY <1>1, RelayedOn
    <3>2. OnU(g, n, u, u)
      BY OnUSame
    <3>3. QED
      BY <1>1, <1>2, <2>1, <3>1, <3>2, DownOn
  <2>3. Carries(q.fromCli[c], EosMessages(g.sid[n])) => Carries(p.fromCli[c], EosMessages(g.sid[n]))
    BY <1>1, ListensOn, ClientAssumption
  <2> DEFINE f == p.fromCli[c]
             v == p.channels[i].packet_queue
             E == EosPackets(i)
             F == EosMessages(g.sid[n])
             s == st[n]
             N == s.sent
  <2>4. ASSUME Open(d, i) PROVE UpOpen(g, n, q, d, r, b, s)
    <3>1. PICK z1, z2, z3 : Behind(g, n, p, d, r, b, s, i, z1, z2, z3)
      BY <1>1, <2>4, BehindIs
    <3>2. /\ z1 \in 0..N /\ z2 \in 0..N /\ z3 \in 0..N /\ UpTo(g, n, p, d, r, b, s, z1, z2, z3)
          /\ z1 \in Int /\ z2 \in Int /\ z3 \in Int /\ N \in Int /\ z2 <= z3 /\ z3 <= N
          /\ Run(v, n, E, z2, z3) /\ Run(f, n, F, z3, N) /\ (Carries(v, E) => z3 = N)
      BY <1>1, <3>1 DEF Behind
    <3>3. IsItem(Head(f), n) /\ IsItem(m, n) /\ m.data.number = Head(f).data.number
      BY <1>1 DEF IsItem
    <3>4. f \in Seq(FromClient) /\ f # <<>>
      BY <1>1, <1>2
    <3> HIDE DEF f, v, E, F, s, N
    <3>5. Head(f).data.number = z3 + 1 /\ z3 < N /\ Run(Tail(f), n, F, z3 + 1, N)
      BY <1>2, <3>2, <3>3, <3>4, RunTailItem
    <3>6. ~Carries(v, E)
      BY <3>2, <3>5
    <3>7. Run(Append(v, m), n, E, z2, z3 + 1)
      <4>1. Elems(v) \intersect E = {}
        BY <3>6 DEF Carries
      <4>2. v \in Seq(PiPackets)
        BY <1>2 DEF v
      <4>3. QED
        BY <1>1, <1>2, <3>2, <3>3, <3>5, <4>1, <4>2, RunAppendItem
    <3>8. ~Carries(Append(v, m), E)
      <4>1. v \in Seq(PiPackets)
        BY <1>2 DEF v
      <4>2. Elems(Append(v, m)) = Elems(v) \union {m}
        BY <1>1, <4>1, AppendAdds
      <4>3. m \notin E
        BY DEF E, EosPackets
      <4>4. QED
        BY <3>6, <4>2, <4>3 DEF Carries
    <3>9. z3 + 1 \in 0..N /\ z2 <= z3 + 1
      BY <3>2, <3>5
    <3>10. Queue(q, i) = Append(v, m) /\ q.fromCli[g.cl[n]] = Tail(f)
      BY <1>1 DEF Queue, v, f
    <3>11. UpTo(g, n, q, d, r, b, s, z1, z2, z3 + 1)
      BY <1>1, <3>2, <3>5, <3>7, <3>8, <3>9, <3>10 DEF UpTo, E, F, N
    <3>12. UpOpen(g, n, p, d, r, b, st[n])
      BY <1>1, <2>1, <2>4 DEF Up
    <3>13. QED
      BY <3>2, <3>9, <3>11, <3>12 DEF UpOpen, s, N
  <2>5. Up(g, n, q, d, r, b, st)
    BY <1>1, <2>1, <2>3, <2>4 DEF Up
  <2>6. QED
    BY <2>1, <2>2, <2>5 DEF Lives
<1>6. QED
  BY <1>1, <1>2, <1>3, <1>4, <1>5, RunsAgain

\* The EOS of the client is passed on: nothing of the session is before it.
LEMMA RelayEosOrder ==
  ASSUME NEW g, NEW p, NEW u, NEW r, NEW b, NEW st, NEW d, Runs(g, p, u, r, b, st, d),
         NEW q, NEW c, NEW i, NEW m, NEW n, Relayed(g, p, q, c, i, m, n), p.channels[i].association # NoOne,
         Head(p.fromCli[c]).type = "EOS", Head(p.fromCli[c]).sid = g.sid[n], m.type = "EOS"
  PROVE  Runs(g, q, u, r, b, st, d)
<1>1. /\ Relays(p, q, c, i, m) /\ IsOf(g, p, i, n) /\ g.cl[n] = c /\ n \in Sessions /\ g.id[n] = i
      /\ Listens(p, q, c) /\ i \in DOMAIN p.channels /\ DOMAIN q.channels = DOMAIN p.channels /\ m \in PiPackets
      /\ q \in ThreadStates /\ c \in Clients /\ p.fromCli[c] # <<>> /\ q.fromCli[c] = Tail(p.fromCli[c])
      /\ q.channels[i].packet_queue = Append(p.channels[i].packet_queue, m)
  BY DEF Relayed, Relays, IsOf, Listens
<1>2. /\ p.fromCli \in [Clients -> Seq(FromClient)] /\ p.channels \in ChannelMaps /\ Carriers(FromClient) /\ Carriers(PiPackets)
      /\ p.channels[i].packet_queue \in Seq(PiPackets)
      /\ g \in Paths /\ Apart(g) /\ u \in Seq(AmigaPackets) /\ PacketsRouted(g, u) /\ st \in [Sessions -> StreamTypes]
      /\ d \in DriverStates
  BY <1>1, RunsTypes, AllCarry, MapsOfChannels, ChannelFields
<1>3. ThreadRouted(g, q) /\ StreamsRouted(g, q, st)
  BY RelayedRouted
<1>4. ASSUME NEW k \in Sessions, k # n PROVE Lives(g, q, u, r, b, st, d, k)
  <2>1. ~IsItem(Head(p.fromCli[c]), k)
    BY DEF IsItem
  <2>2. OnDown(g, k, p, u, q, u) /\ OnUp(g, k, p, q)
    BY <1>4, <2>1, RelayedOn
  <2>3. QED
    BY <1>1, <2>2, OnUSame, SessionOn DEF Onward
<1> DEFINE f == p.fromCli[c]
           v == p.channels[i].packet_queue
           E == EosPackets(i)
           F == EosMessages(g.sid[n])
           s == st[n]
           N == s.sent
<1>5. f \in Seq(FromClient) /\ f # <<>> /\ Head(f) \in F /\ Head(f) \in Elems(f)
  <2>1. f \in Seq(FromClient) /\ f # <<>>
    BY <1>1, <1>2
  <2>2. Head(f) \in FromClient /\ Head(f) \in Elems(f)
    BY <2>1, HeadAndRest
  <2>3. Head(f) = [type |-> Head(f).type, sid |-> Head(f).sid, data |-> Head(f).data] /\ Head(f).data \in Items
    BY <2>2 DEF FromClient
  <2>4. QED
    BY <2>1, <2>2, <2>3 DEF EosMessages
<1>6. Lives(g, q, u, r, b, st, d, n)
  <2>1. Birth(g, n, u, d, st) /\ Down(g, n, p, u, d, st) /\ Up(g, n, p, d, r, b, st) /\ st[n] \in StreamTypes
    BY <1>1, <1>2, RunsTypes DEF Lives
  <2>2. Down(g, n, q, u, d, st)
    <3>1. OnDown(g, n, p, u, q, u)
      BY <1>1, RelayedOn
    <3>2. OnU(g, n, u, u)
      BY OnUSame
    <3>3. QED
      BY <1>1, <1>2, <2>1, <3>1, <3>2, DownOn
  <2>3. s.ended
    <3>1. Carries(f, F)
      BY <1>5 DEF Carries
    <3>2. QED
      BY <1>1, <2>1, <3>1, ClientAssumption DEF Up
  <2>4. ASSUME Open(d, i) PROVE UpOpen(g, n, q, d, r, b, s)
    <3>1. PICK z1, z2, z3 : Behind(g, n, p, d, r, b, s, i, z1, z2, z3)
      BY <1>1, <2>4, BehindIs
    <3>2. /\ z1 \in 0..N /\ z2 \in 0..N /\ z3 \in 0..N /\ UpTo(g, n, p, d, r, b, s, z1, z2, z3)
          /\ z1 \in Int /\ z2 \in Int /\ z3 \in Int /\ N \in Int /\ z2 <= z3 /\ z3 <= N
          /\ Run(v, n, E, z2, z3) /\ Run(f, n, F, z3, N)
      BY <1>1, <3>1 DEF Behind
    <3>3. ~IsItem(Head(f), n) /\ ~IsItem(m, n)
      BY DEF IsItem
    <3> HIDE DEF f, v, E, F, s, N
    <3>4. Run(Tail(f), n, F, z3, N) /\ N <= z3
      BY <1>2, <1>5, <3>2, <3>3, RunTailOther
    <3>5. z3 = N
      BY <3>2, <3>4
    <3>6. Run(Append(v, m), n, E, z2, z3)
      <4>1. v \in Seq(PiPackets)
        BY <1>2 DEF v
      <4>2. QED
        BY <1>1, <3>2, <3>3, <4>1, RunAppendOther
    <3>7. Queue(q, i) = Append(v, m) /\ q.fromCli[g.cl[n]] = Tail(f)
      BY <1>1 DEF Queue, v, f
    <3>8. UpTo(g, n, q, d, r, b, s, z1, z2, z3)
      BY <1>1, <2>3, <3>2, <3>4, <3>5, <3>6, <3>7 DEF UpTo, E, F, N
    <3>9. UpOpen(g, n, p, d, r, b, st[n])
      BY <1>1, <2>1, <2>4 DEF Up
    <3>10. QED
      BY <3>2, <3>8, <3>9 DEF UpOpen, s, N
  <2>5. Up(g, n, q, d, r, b, st)
    BY <1>1, <2>1, <2>3, <2>4 DEF Up
  <2>6. QED
    BY <2>1, <2>2, <2>5 DEF Lives
<1>7. QED
  BY <1>1, <1>2, <1>3, <1>4, <1>6, RunsAgain

\* handle_msg_register_req (a314.cc) registers the service.
Enlists(p, q, c) ==
  /\ q \in ThreadStates /\ q.channels = p.channels /\ q.toCli = p.toCli /\ q.fromCli = p.fromCli
  /\ q.conn = p.conn /\ q.cc_next_stream_id = p.cc_next_stream_id
  /\ \A s \in DOMAIN q.services : IF s = Name[c] THEN q.services[s] = c
                                                 ELSE s \in DOMAIN p.services /\ q.services[s] = p.services[s]
  /\ \A s \in DOMAIN p.services : s \in DOMAIN q.services
Enlisted(p, c) == [p EXCEPT !.services = Thread!Extend(@, Name[c], c)]
LEMMA EnlistedIs ==
  ASSUME NEW p \in ThreadStates, NEW c \in Clients
  PROVE  Enlists(p, Enlisted(p, c), c)
<1> DEFINE q == Enlisted(p, c)
           s == Thread!Extend(p.services, Name[c], c)
<1>1. p.services \in ServiceMaps
  BY DEF ThreadStates
<1>2. /\ DOMAIN s = DOMAIN p.services \union {Name[c]} /\ s[Name[c]] = c
      /\ \A x \in DOMAIN p.services : x # Name[c] => s[x] = p.services[x]
  BY DEF Thread!Extend
<1>3. s \in ServiceMaps
  <2>1. s \in [DOMAIN p.services \union {Name[c]} -> Clients]
    BY <1>1 DEF ServiceMaps, Thread!Extend
  <2>2. DOMAIN p.services \union {Name[c]} \subseteq {Name[e] : e \in Clients}
    BY <1>1 DEF ServiceMaps
  <2> HIDE DEF s
  <2>3. QED
    BY <2>1, <2>2 DEF ServiceMaps
<1>4. q = [p EXCEPT !.services = s]
  BY DEF Enlisted, ThreadStates
<1> HIDE DEF q, s
<1>5. /\ q \in ThreadStates /\ q.channels = p.channels /\ q.toCli = p.toCli /\ q.fromCli = p.fromCli
      /\ q.conn = p.conn /\ q.services = s /\ q.cc_next_stream_id = p.cc_next_stream_id
  BY <1>3, <1>4 DEF ThreadStates
<1>6. Enlists(p, q, c)
  BY <1>2, <1>5 DEF Enlists
<1>7. QED
  BY <1>6 DEF q

\* A service that is registered is on no path yet.
LEMMA EnlistOrder ==
  ASSUME NEW g, NEW p, NEW u, NEW r, NEW b, NEW st, NEW d, Runs(g, p, u, r, b, st, d),
         NEW c \in Clients, Name[c] \notin DOMAIN p.services, ~Refused(p.toCli[c]), ~Asking(p.fromCli[c]), p.conn[c] # "none"
  PROVE  Runs(g, Enlisted(p, c), u, r, b, st, d)
<1> DEFINE q == Enlisted(p, c)
<1>1. /\ p \in ThreadStates /\ ServicesRouted(p) /\ SidsRouted(g, p) /\ MessagesRouted(g, p) /\ ChannelsRouted(g, p)
      /\ StreamsRouted(g, p, st) /\ g \in Paths /\ p.services \in ServiceMaps
      /\ st \in [Sessions -> StreamTypes] /\ PacketsRouted(g, u) /\ u \in Seq(AmigaPackets) /\ Apart(g)
  BY RunsTypes
<1>2. Enlists(p, q, c)
  BY <1>1, EnlistedIs
<1> HIDE DEF q
<1>3. /\ q \in ThreadStates /\ q.channels = p.channels /\ q.toCli = p.toCli /\ q.fromCli = p.fromCli
      /\ q.conn = p.conn /\ q.cc_next_stream_id = p.cc_next_stream_id
  BY <1>2 DEF Enlists
<1>4. \A s \in DOMAIN p.services : p.services[s] \in Clients /\ s = Name[p.services[s]] /\ p.conn[p.services[s]] # "none"
  <2>1. \A s \in DOMAIN p.services : p.services[s] \in Clients
    BY <1>1 DEF ServiceMaps
  <2>2. QED
    BY <1>1, <2>1 DEF ServicesRouted
<1>5. \A e \in Clients : e # c => (e \in Registered(q) => e \in Registered(p))
  BY <1>2 DEF Enlists, Registered
<1>6. Registered(p) \subseteq Registered(q)
  <2>1. ASSUME NEW s \in DOMAIN p.services PROVE p.services[s] \in Registered(q)
    <3>1. s \in DOMAIN q.services
      BY <1>2 DEF Enlists
    <3>2. s # Name[c]
      BY <2>1
    <3>3. QED
      BY <1>2, <3>1, <3>2 DEF Enlists, Registered
  <2>2. QED
    BY <2>1 DEF Registered
<1>7. SidsRouted(g, q)
  BY <1>1, <1>3, <1>6 DEF SidsRouted
<1>8. ServicesRouted(q)
  <2>1. ASSUME NEW s \in DOMAIN q.services PROVE s = Name[q.services[s]] /\ q.conn[q.services[s]] # "none"
    <3>1. CASE s = Name[c]
      BY <1>2, <1>3, <3>1 DEF Enlists
    <3>2. CASE s # Name[c]
      BY <1>2, <1>3, <1>4, <3>2 DEF Enlists
    <3>3. QED
      BY <3>1, <3>2
  <2>2. \A e \in OnDemand : q.conn[e] # "none" => e \in Registered(q)
    BY <1>1, <1>3, <1>6, ClientAssumption DEF ServicesRouted
  <2>3. ASSUME NEW e \in Clients
        PROVE  /\ Asking(q.fromCli[e]) =>
                    /\ e \notin Registered(q) /\ ~Asking(Tail(q.fromCli[e]))
                    /\ Head(q.fromCli[e]).type = "REGISTER_REQ"
                    /\ \A m \in Elems(q.toCli[e]) : m.type # "REGISTER_RES"
               /\ Refused(q.toCli[e]) => e \notin Registered(q)
               /\ q.conn[e] = "none" => q.toCli[e] = <<>> /\ q.fromCli[e] = <<>>
    <3>1. CASE e = c
      BY <1>3, <3>1
    <3>2. CASE e # c
      BY <1>1, <1>3, <1>5, <3>2 DEF ServicesRouted
    <3>3. QED
      BY <3>1, <3>2
  <2>4. QED
    BY <2>1, <2>2, <2>3 DEF ServicesRouted
<1>9. StreamsRouted(g, q, st)
  BY <1>1, <1>3 DEF StreamsRouted
<1>10. ASSUME NEW n \in Sessions PROVE Lives(g, q, u, r, b, st, d, n)
  <2>1. OnDown(g, n, p, u, q, u)
    BY <1>3, OnUSame, PassesSame DEF OnDown, Flows, Linked
  <2>2. OnUp(g, n, p, q)
    BY <1>3, PassesSame DEF OnUp, Assoc, Queue, Passes
  <2>3. QED
    BY <1>3, <2>1, <2>2, OnUSame, SessionOn DEF Onward
<1>11. ThreadRouted(g, q)
  BY <1>1, <1>3, <1>7, <1>8 DEF ThreadRouted, ChannelsRouted, MessagesRouted
<1>12. Runs(g, q, u, r, b, st, d)
  BY <1>1, <1>3, <1>9, <1>10, <1>11, RunsAgain
<1>13. QED
  BY <1>12 DEF q

\* handle_msg_register_req (a314.cc)
LEMMA RegisterOrder ==
  ASSUME NEW g, NEW p, NEW u, NEW r, NEW b, NEW st, NEW d, Runs(g, p, u, r, b, st, d),
         NEW c \in Clients, p.fromCli[c] # <<>>, Head(p.fromCli[c]).type = "REGISTER_REQ"
  PROVE  Runs(g, Thread!handle_msg_register_req(WithoutFirst(p, c), c), u, r, b, st, d)
<1> DEFINE q == WithoutFirst(p, c)
<1>1. p \in ThreadStates /\ ServicesRouted(p) /\ p.fromCli \in [Clients -> Seq(FromClient)]
  BY RunsTypes
<1>2. Listens(p, q, c)
  BY <1>1, TookIs
<1>3. ~Asking(q.fromCli[c])
  BY <1>2, ListensRouted
<1>4. Runs(g, q, u, r, b, st, d)
  BY TookOrder DEF IsItem
<1> HIDE DEF q
<1>5. Asking(p.fromCli[c])
  <2>1. Head(p.fromCli[c]) \in Elems(p.fromCli[c])
    BY <1>1, HeadAndRest
  <2>2. QED
    BY <2>1 DEF Asking
<1>6. /\ c \notin Registered(p) /\ ~Refused(p.toCli[c]) /\ p.conn[c] # "none"
  BY <1>1, <1>5 DEF ServicesRouted, Refused
<1>7. c \notin Registered(q) /\ ~Refused(q.toCli[c]) /\ q.conn[c] # "none"
  BY <1>2, <1>6 DEF Listens, Registered
<1>8. CASE Name[c] \in DOMAIN q.services
  <2> DEFINE m == Thread!Msg("REGISTER_RES", 0, Thread!Result(0))
  <2>1. m \in ToClient /\ m.type = "REGISTER_RES"
    BY ItemTypes DEF Thread!Msg, ToClient
  <2>2. Spoken(g, q, c, m)
    BY <1>3, <1>7, <2>1 DEF Spoken, Registers
  <2>3. Thread!handle_msg_register_req(q, c) = Thread!create_and_send_msg(q, c, m)
    BY <1>8, Zenon DEF Thread!handle_msg_register_req
  <2> HIDE DEF m
  <2>4. QED
    BY <1>4, <2>1, <2>2, <2>3, SendOrder DEF q
<1>9. CASE Name[c] \notin DOMAIN q.services
  <2> DEFINE m == Thread!Msg("REGISTER_RES", 0, Thread!Result(1))
             e == Enlisted(q, c)
  <2>1. m \in ToClient /\ m.type = "REGISTER_RES" /\ m.data.number = 1
    BY ItemTypes DEF Thread!Msg, Thread!Result, Thread!Item, ToClient
  <2>2. Runs(g, e, u, r, b, st, d)
    BY <1>3, <1>4, <1>7, <1>9, EnlistOrder
  <2>3. e.fromCli = q.fromCli
    BY <1>2, EnlistedIs DEF Enlists, Listens
  <2>4. Thread!handle_msg_register_req(q, c) = Thread!create_and_send_msg(e, c, m)
    BY <1>9, Zenon DEF Thread!handle_msg_register_req, Enlisted
  <2> HIDE DEF m, e
  <2>5. Spoken(g, e, c, m)
    BY <1>3, <2>1, <2>3 DEF Spoken, Registers
  <2>6. QED
    BY <2>1, <2>2, <2>4, <2>5, SendOrder DEF q
<1>10. QED
  BY <1>8, <1>9

\* handle_msg_connect_response (a314.cc)
LEMMA ResponseMsgOrder ==
  ASSUME NEW g, NEW p, NEW u, NEW r, NEW b, NEW st, NEW d, Runs(g, p, u, r, b, st, d),
         NEW i \in DOMAIN p.channels, p.channels[i].association \in Clients, NEW k \in Nat
  PROVE  Runs(g, Thread!handle_msg_connect_response(p, i, k), u, r, b, st, d)
<1> DEFINE q == Thread!create_and_enqueue_packet(p, i, "CONNECT_RESPONSE", Thread!Result(k))
<1>1. Thread!Result(k) \in Items /\ p \in ThreadStates
  BY ItemTypes, RunsTypes
<1>2. Runs(g, q, u, r, b, st, d)
  BY <1>1, EnqueueOrder
<1>3. /\ DOMAIN q.channels = DOMAIN p.channels
      /\ q.channels[i].association = p.channels[i].association
  BY <1>1, EnqueueWrites
<1>4. Thread!handle_msg_connect_response(p, i, k) = IF k = 0 THEN q ELSE Thread!remove_association(q, i)
  BY Zenon DEF Thread!handle_msg_connect_response
<1> HIDE DEF q
<1>5. Runs(g, Thread!remove_association(q, i), u, r, b, st, d)
  BY <1>2, <1>3, UnlinkOrder
<1>6. QED
  BY <1>2, <1>4, <1>5

\* handle_msg_reset (a314.cc)
LEMMA ResetMsgOrder ==
  ASSUME NEW g, NEW p, NEW u, NEW r, NEW b, NEW st, NEW d, Runs(g, p, u, r, b, st, d),
         NEW i \in DOMAIN p.channels, p.channels[i].association \in Clients
  PROVE  Runs(g, Thread!handle_msg_reset(p, i), u, r, b, st, d)
<1> DEFINE q == Thread!remove_association(p, i)
           w == Thread!clear_packet_queue(q, i)
<1>1. p \in ThreadStates /\ Thread!Nothing \in Items
  BY ItemTypes, RunsTypes
<1>2. Runs(g, q, u, r, b, st, d)
  BY UnlinkOrder
<1>3. i \in DOMAIN q.channels /\ q.channels[i].association = NoOne /\ q \in ThreadStates
  BY <1>1, UnlistWrites
<1>4. Thread!handle_msg_reset(p, i) = Thread!create_and_enqueue_packet(w, i, "RESET", Thread!Nothing)
  BY Zenon DEF Thread!handle_msg_reset
<1> HIDE DEF q
<1>5. Runs(g, w, u, r, b, st, d)
  BY <1>2, <1>3, ClearOrder
<1>6. i \in DOMAIN w.channels
  BY <1>3, ClearWrites
<1> HIDE DEF w
<1>7. QED
  BY <1>1, <1>4, <1>5, <1>6, EnqueueOrder

\* What the messages DATA and EOS make of the queue of the channel.
Hears(p, w, c, i) ==
  /\ Listens(p, w, c) /\ i \in DOMAIN p.channels /\ DOMAIN w.channels = DOMAIN p.channels
  /\ \A j \in DOMAIN p.channels : j # i => w.channels[j] = p.channels[j]
  /\ w.channels[i].association = p.channels[i].association /\ w.channels[i].stream_id = p.channels[i].stream_id
  /\ w.channels[i].got_eos_from_ami = p.channels[i].got_eos_from_ami
  /\ w.channels[i].packet_queue = p.channels[i].packet_queue
LEMMA RelaysIs ==
  ASSUME NEW p, NEW w, NEW c \in Clients, NEW i, Hears(p, w, c, i), NEW t \in {"DATA", "EOS"}, NEW x \in Items
  PROVE  Relays(p, Thread!create_and_enqueue_packet(w, i, t, x), c, i, Thread!Pkt(t, i, x))
<1> DEFINE q == Thread!create_and_enqueue_packet(w, i, t, x)
           m == Thread!Pkt(t, i, x)
<1>1. w \in ThreadStates /\ i \in DOMAIN w.channels /\ t \in {"CONNECT_RESPONSE", "DATA", "EOS", "RESET"}
  BY DEF Listens, Hears
<1>2. /\ q \in ThreadStates /\ OneChannel(w, q, i) /\ m \in PiPackets /\ m.id = i
      /\ q.channels[i] = [w.channels[i] EXCEPT !.packet_queue = Append(@, m)]
  BY <1>1, EnqueuedIs
<1>3. w.channels[i] \in Channel
  BY <1>1, MapsOfChannels DEF ThreadStates
<1> HIDE DEF q, m
<1>4. /\ q.channels[i].association = w.channels[i].association /\ q.channels[i].stream_id = w.channels[i].stream_id
      /\ q.channels[i].got_eos_from_ami = w.channels[i].got_eos_from_ami
      /\ q.channels[i].packet_queue = Append(w.channels[i].packet_queue, m)
  BY <1>2, <1>3 DEF Channel
<1>5. Listens(p, q, c)
  BY <1>2 DEF Listens, OneChannel, SameWires, Hears
<1>6. Relays(p, q, c, i, m)
  BY <1>2, <1>4, <1>5 DEF Relays, OneChannel, Hears
<1>7. QED
  BY <1>6 DEF q, m

\* The thread has a message of client c for channel i, that session n is with.
Addressed(g, p, c, i, n) ==
  /\ c \in Clients /\ p.fromCli[c] # <<>> /\ i \in DOMAIN p.channels /\ IsOf(g, p, i, n) /\ g.cl[n] = c
  /\ p.channels[i].association = c /\ Head(p.fromCli[c]).sid = g.sid[n]

\* DATA of a client (handle_received_message, a314.cc)
LEMMA DataMsgOrder ==
  ASSUME NEW g, NEW p, NEW u, NEW r, NEW b, NEW st, NEW d, Runs(g, p, u, r, b, st, d),
         NEW c, NEW i, NEW n, Addressed(g, p, c, i, n), Head(p.fromCli[c]).type = "DATA"
  PROVE  Runs(g, Thread!create_and_enqueue_packet(WithoutFirst(p, c), i, "DATA", Head(p.fromCli[c]).data), u, r, b, st, d)
<1> DEFINE w == WithoutFirst(p, c)
           m == Head(p.fromCli[c])
           q == Thread!create_and_enqueue_packet(w, i, "DATA", m.data)
           x == Thread!Pkt("DATA", i, m.data)
<1>1. /\ p \in ThreadStates /\ p.fromCli \in [Clients -> Seq(FromClient)] /\ MessagesRouted(g, p)
      /\ c \in Clients /\ p.fromCli[c] # <<>> /\ IsOf(g, p, i, n) /\ i \in DOMAIN p.channels /\ g.cl[n] = c
      /\ p.channels[i].association # NoOne
  BY RunsTypes, ClientAssumption DEF Addressed
<1>2. m \in FromClient /\ m \in Elems(p.fromCli[c])
  BY <1>1, HeadAndRest
<1>3. m.data \in Items
  BY <1>2 DEF FromClient
<1>4. m.data.session \in Sessions /\ g.cl[m.data.session] = c /\ g.sid[m.data.session] = m.sid /\ m.data.number # 0
  BY <1>1, <1>2 DEF MessagesRouted, Said
<1>5. m.data.session = n
  BY <1>1, <1>4 DEF IsOf, Addressed
<1>6. Listens(p, w, c) /\ w.channels = p.channels
  BY <1>1, TookIs
<1>7. Hears(p, w, c, i)
  BY <1>1, <1>6 DEF Hears
<1> HIDE DEF w, m
<1>8. Relays(p, q, c, i, x)
  BY <1>1, <1>3, <1>7, RelaysIs
<1>9. x.type = "DATA" /\ x.data = m.data
  BY DEF Thread!Pkt
<1> HIDE DEF q, x
<1>10. Relayed(g, p, q, c, i, x, n)
  BY <1>1, <1>4, <1>5, <1>8, <1>9 DEF Relayed
<1>11. Runs(g, q, u, r, b, st, d)
  BY <1>1, <1>9, <1>10, RelayDataOrder DEF m
<1>12. QED
  BY <1>11 DEF q, w, m

\* handle_msg_eos (a314.cc)
LEMMA EosMsgOrder ==
  ASSUME NEW g, NEW p, NEW u, NEW r, NEW b, NEW st, NEW d, Runs(g, p, u, r, b, st, d),
         NEW c, NEW i, NEW n, Addressed(g, p, c, i, n), Head(p.fromCli[c]).type = "EOS"
  PROVE  Runs(g, Thread!handle_msg_eos(WithoutFirst(p, c), i), u, r, b, st, d)
<1> DEFINE w == WithoutFirst(p, c)
           f == [w EXCEPT !.channels[i].got_eos_from_client = TRUE]
           q == Thread!create_and_enqueue_packet(f, i, "EOS", Thread!Nothing)
           x == Thread!Pkt("EOS", i, Thread!Nothing)
<1>1. /\ p \in ThreadStates /\ c \in Clients /\ p.fromCli[c] # <<>> /\ IsOf(g, p, i, n) /\ i \in DOMAIN p.channels
      /\ g.cl[n] = c /\ p.channels[i].association # NoOne /\ p.channels[i].association = c
      /\ Head(p.fromCli[c]).sid = g.sid[n] /\ Thread!Nothing \in Items
  BY RunsTypes, ClientAssumption, ItemTypes DEF Addressed
<1>2. Listens(p, w, c) /\ w.channels = p.channels
  BY <1>1, TookIs
<1>3. w \in ThreadStates /\ i \in DOMAIN w.channels
  BY <1>1, <1>2 DEF Listens
<1>4. Runs(g, w, u, r, b, st, d)
  BY <1>1, TookOrder DEF IsItem
<1>5. Thread!handle_msg_eos(w, i) =
        CASE w.channels[i].got_eos_from_client -> w
          [] ~w.channels[i].got_eos_from_client /\ w.channels[i].got_eos_from_ami -> Thread!remove_association(q, i)
          [] OTHER -> q
  BY Zenon DEF Thread!handle_msg_eos
<1>6. /\ f \in ThreadStates /\ OneChannel(w, f, i)
      /\ f.channels[i] = [w.channels[i] EXCEPT !.got_eos_from_client = TRUE]
  BY <1>3, FlaggedIs
<1>7. w.channels[i] \in Channel
  BY <1>3, MapsOfChannels DEF ThreadStates
<1> HIDE DEF w, f
<1>8. /\ f.channels[i].association = p.channels[i].association /\ f.channels[i].stream_id = p.channels[i].stream_id
      /\ f.channels[i].got_eos_from_ami = p.channels[i].got_eos_from_ami
      /\ f.channels[i].packet_queue = p.channels[i].packet_queue
  BY <1>2, <1>6, <1>7 DEF Channel
<1>9. Listens(p, f, c)
  BY <1>2, <1>6 DEF Listens, OneChannel, SameWires
<1>10. Hears(p, f, c, i)
  BY <1>1, <1>2, <1>6, <1>8, <1>9 DEF Hears, OneChannel
<1>11. Relays(p, q, c, i, x)
  BY <1>1, <1>10, RelaysIs
<1>12. x.type = "EOS"
  BY DEF Thread!Pkt
<1> HIDE DEF q, x
<1>13. Relayed(g, p, q, c, i, x, n)
  BY <1>1, <1>11, <1>12 DEF Relayed
<1>14. Runs(g, q, u, r, b, st, d)
  BY <1>1, <1>12, <1>13, RelayEosOrder
<1>15. i \in DOMAIN q.channels /\ q.channels[i].association \in Clients
  BY <1>1, <1>11 DEF Relays
<1>16. Runs(g, Thread!remove_association(q, i), u, r, b, st, d)
  BY <1>14, <1>15, UnlinkOrder
<1>17. Runs(g, Thread!handle_msg_eos(w, i), u, r, b, st, d)
  BY <1>4, <1>5, <1>14, <1>16
<1>18. QED
  BY <1>17 DEF w

\* The channel that the message is for has its session.
LEMMA AddressedIs ==
  ASSUME NEW g, NEW p, NEW u, NEW r, NEW b, NEW st, NEW d, Runs(g, p, u, r, b, st, d), Listed(p),
         NEW c \in Clients, p.fromCli[c] # <<>>,
         NEW i \in Thread!get_associated_channel_by_stream_id(p, c, Head(p.fromCli[c]).sid)
  PROVE  \E n : Addressed(g, p, c, i, n)
<1>1. i \in DOMAIN p.channels /\ Thread!InQueue(i, p.associations[c]) /\ p.channels[i].stream_id = Head(p.fromCli[c]).sid
  BY Zenon DEF Thread!get_associated_channel_by_stream_id
<1>2. i \in Of(p, c)
  BY <1>1 DEF Thread!InQueue, Elems, Listed
<1>3. p.channels[i].association = c
  BY <1>2 DEF Of
<1>4. PICK n : IsOf(g, p, i, n)
  BY <1>1, <1>3, ClientAssumption, SessionOf
<1>5. Addressed(g, p, c, i, n)
  BY <1>1, <1>3, <1>4 DEF Addressed, IsOf
<1>6. QED
  BY <1>5

\* A message of a session with a channel finds it.
LEMMA NotFound ==
  ASSUME NEW g, NEW p, NEW u, NEW r, NEW b, NEW st, NEW d, Runs(g, p, u, r, b, st, d), Listed(p),
         NEW c \in Clients, p.fromCli[c] # <<>>,
         Thread!get_associated_channel_by_stream_id(p, c, Head(p.fromCli[c]).sid) = {},
         NEW n \in Sessions, Assoc(p, g.id[n]), g.cl[n] = c, IsItem(Head(p.fromCli[c]), n)
  PROVE  FALSE
<1> DEFINE i == g.id[n]
           m == Head(p.fromCli[c])
<1>1. /\ MessagesRouted(g, p) /\ p.fromCli \in [Clients -> Seq(FromClient)] /\ i \in DOMAIN p.channels
      /\ p.channels[i].association # NoOne
  BY RunsTypes DEF Assoc
<1>2. m \in Elems(p.fromCli[c])
  BY <1>1, HeadAndRest
<1>3. g.sid[n] = m.sid
  BY <1>1, <1>2 DEF MessagesRouted, Said, IsItem
<1>4. PICK k : IsOf(g, p, i, k)
  BY <1>1, SessionOf
<1>5. k = n
  BY <1>4 DEF IsOf
<1>6. p.channels[i].association = c /\ p.channels[i].stream_id = m.sid
  BY <1>3, <1>4, <1>5 DEF IsOf
<1>7. i \in Elems(p.associations[c])
  BY <1>1, <1>6 DEF Listed, Of
<1>8. Thread!InQueue(i, p.associations[c])
  BY <1>7 DEF Elems, Thread!InQueue
<1> HIDE DEF i, m
<1>9. i \in Thread!get_associated_channel_by_stream_id(p, c, m.sid)
  BY <1>1, <1>6, <1>8, Zenon DEF Thread!get_associated_channel_by_stream_id
<1>10. QED
  BY <1>9 DEF m

\* handle_received_message (a314.cc)
LEMMA MessageOrder ==
  ASSUME NEW g, NEW p, NEW u, NEW r, NEW b, NEW st, NEW d, Runs(g, p, u, r, b, st, d), Listed(p),
         NEW c \in Clients, p.fromCli[c] # <<>>
  PROVE  Runs(g, Thread!handle_received_message(WithoutFirst(p, c), c, Head(p.fromCli[c])), u, r, b, st, d)
<1> DEFINE w == WithoutFirst(p, c)
           m == Head(p.fromCli[c])
           found == Thread!get_associated_channel_by_stream_id(w, c, m.sid)
           i == CHOOSE j \in found : TRUE
           h == Thread!handle_received_message(w, c, m)
<1>1. p \in ThreadStates /\ p.fromCli \in [Clients -> Seq(FromClient)]
  BY RunsTypes
<1>2. m \in FromClient
  BY <1>1, HeadAndRest
<1>3. m.type \in {"REGISTER_REQ", "CONNECT_RESPONSE", "DATA", "EOS", "RESET"} /\ m.data.number \in Nat
  BY <1>2, ItemTypes DEF FromClient
<1>4. w.channels = p.channels /\ w.associations = p.associations
  BY <1>1, TookIs
<1>5. found = Thread!get_associated_channel_by_stream_id(p, c, m.sid)
  BY <1>4, Zenon DEF Thread!get_associated_channel_by_stream_id
<1>6. CASE m.type = "REGISTER_REQ"
  <2>1. h = Thread!handle_msg_register_req(w, c)
    BY <1>6, Zenon DEF Thread!handle_received_message
  <2> HIDE DEF h
  <2>2. Runs(g, h, u, r, b, st, d)
    BY <1>6, <2>1, RegisterOrder
  <2>3. QED
    BY <2>2 DEF h
<1>7. CASE m.type # "REGISTER_REQ" /\ found = {}
  <2>1. h = w
    BY <1>7, Zenon DEF Thread!handle_received_message
  <2>2. ASSUME NEW n \in Sessions, Assoc(p, g.id[n]), g.cl[n] = c PROVE ~IsItem(m, n)
    BY <1>5, <1>7, <2>2, NotFound
  <2>3. Runs(g, w, u, r, b, st, d)
    BY <2>2, TookOrder
  <2>4. QED
    BY <2>1, <2>3
<1>8. CASE m.type # "REGISTER_REQ" /\ found # {}
  <2>1. i \in found
    BY <1>8
  <2>2. h = CASE m.type = "CONNECT_RESPONSE" -> Thread!handle_msg_connect_response(w, i, m.data.number)
              [] m.type = "DATA" -> Thread!create_and_enqueue_packet(w, i, "DATA", m.data)
              [] m.type = "EOS" -> Thread!handle_msg_eos(w, i)
              [] m.type = "RESET" -> Thread!handle_msg_reset(w, i)
    BY <1>8, Zenon DEF Thread!handle_received_message
  <2> HIDE DEF i, found, h
  <2>3. PICK n : Addressed(g, p, c, i, n)
    BY <1>5, <2>1, AddressedIs
  <2>4. ASSUME m.type # "DATA"
        PROVE  Runs(g, w, u, r, b, st, d) /\ i \in DOMAIN w.channels /\ w.channels[i].association \in Clients
    <3>1. m.type # "CONNECT"
      BY <1>3
    <3>2. Runs(g, w, u, r, b, st, d)
      BY <2>4, <3>1, TookOrder DEF IsItem
    <3>3. QED
      BY <1>4, <2>3, <3>2 DEF Addressed
  <2>5. CASE m.type = "CONNECT_RESPONSE"
    <3>1. h = Thread!handle_msg_connect_response(w, i, m.data.number)
      BY <2>2, <2>5
    <3>2. Runs(g, Thread!handle_msg_connect_response(w, i, m.data.number), u, r, b, st, d)
      BY <1>3, <2>4, <2>5, ResponseMsgOrder
    <3>3. QED
      BY <3>1, <3>2 DEF h
  <2>6. CASE m.type = "DATA"
    <3>1. h = Thread!create_and_enqueue_packet(w, i, "DATA", m.data)
      BY <2>2, <2>6
    <3>2. Runs(g, Thread!create_and_enqueue_packet(w, i, "DATA", m.data), u, r, b, st, d)
      BY <2>3, <2>6, DataMsgOrder
    <3>3. QED
      BY <3>1, <3>2 DEF h
  <2>7. CASE m.type = "EOS"
    <3>1. h = Thread!handle_msg_eos(w, i)
      BY <2>2, <2>7
    <3>2. Runs(g, Thread!handle_msg_eos(w, i), u, r, b, st, d)
      BY <2>3, <2>7, EosMsgOrder
    <3>3. QED
      BY <3>1, <3>2 DEF h
  <2>8. CASE m.type = "RESET"
    <3>1. h = Thread!handle_msg_reset(w, i)
      BY <2>2, <2>8
    <3>2. Runs(g, Thread!handle_msg_reset(w, i), u, r, b, st, d)
      BY <2>4, <2>8, ResetMsgOrder
    <3>3. QED
      BY <3>1, <3>2 DEF h
  <2>9. QED
    BY <1>3, <1>8, <2>5, <2>6, <2>7, <2>8
<1>9. QED
  BY <1>6, <1>7, <1>8

-----------------------------------------------------------------------------
(* Packets to the Amiga. *)

\* The head of queue v goes to the end of b: parts up to z of the session are then in b.
Moved(b, v, n, E, z1, z, z3, N) ==
  LET w == Append(b, Head(v)) IN
  /\ z \in Int /\ z1 <= z /\ z <= z3 /\ Run(w, n, E, z1, z) /\ Run(Tail(v), n, E, z, z3)
  /\ Carries(w, E) => z = N /\ (Carries(b, E) \/ Carries(v, E))
  /\ Carries(Tail(v), E) => Carries(v, E)
LEMMA HeadMoves ==
  ASSUME NEW v \in Seq(PiPackets), v # <<>>, NEW b \in Seq(PiPackets), NEW n, NEW i,
         NEW z1 \in Int, NEW z2 \in Int, NEW z3 \in Int, NEW N \in Int, z1 <= z2, z2 <= z3, z3 <= N,
         Run(b, n, EosPackets(i), z1, z2), Run(v, n, EosPackets(i), z2, z3),
         Carries(b, EosPackets(i)) => z2 = N, Carries(v, EosPackets(i)) => z3 = N
  PROVE  \E z : Moved(b, v, n, EosPackets(i), z1, z, z3, N)
<1> DEFINE E == EosPackets(i)
           m == Head(v)
           w == Append(b, m)
<1>1. m \in PiPackets /\ Elems(v) = {m} \union Elems(Tail(v)) /\ Carriers(PiPackets)
  BY HeadAndRest, AllCarry
<1>2. w \in Seq(PiPackets) /\ Elems(w) = Elems(b) \union {m}
  BY <1>1, AppendAdds
<1>3. Carries(Tail(v), E) => Carries(v, E)
  BY <1>1 DEF Carries
<1>4. Carries(w, E) => Carries(b, E) \/ m \in E
  BY <1>2 DEF Carries
<1>5. m \in E => Carries(v, E)
  BY <1>1 DEF Carries
<1>6. CASE IsItem(m, n)
  <2>1. m \notin E
    BY <1>6 DEF IsItem, EosPackets
  <2> HIDE DEF E, m, w
  <2>2. m.data.number = z2 + 1 /\ z2 < z3 /\ Run(Tail(v), n, E, z2 + 1, z3)
    BY <1>1, <1>6, RunTailItem DEF E, m
  <2>3. ~Carries(b, E)
    BY <2>2 DEF E
  <2>4. ~Carries(w, E)
    BY <1>4, <2>1, <2>3
  <2>5. Elems(b) \intersect E = {}
    BY <2>3 DEF Carries
  <2>6. Run(w, n, E, z1, z2 + 1)
    BY <1>1, <1>6, <2>2, <2>5, RunAppendItem DEF w, E
  <2>7. z2 + 1 \in Int /\ z1 <= z2 + 1 /\ z2 + 1 <= z3
    BY <2>2
  <2>8. Moved(b, v, n, E, z1, z2 + 1, z3, N)
    BY <1>3, <2>2, <2>4, <2>6, <2>7 DEF Moved, w, m
  <2>9. QED
    BY <2>8 DEF E
<1>7. CASE ~IsItem(m, n)
  <2> HIDE DEF E, m, w
  <2>1. Run(Tail(v), n, E, z2, z3) /\ (m \in E => z3 <= z2)
    BY <1>1, <1>7, RunTailOther DEF E, m
  <2>2. Run(w, n, E, z1, z2)
    BY <1>1, <1>7, RunAppendOther DEF w, E
  <2>3. m \in E => z2 = N /\ Carries(v, E)
    BY <1>5, <2>1 DEF E
  <2>4. Carries(w, E) => z2 = N /\ (Carries(b, E) \/ Carries(v, E))
    BY <1>4, <2>3 DEF E
  <2>5. Moved(b, v, n, E, z1, z2, z3, N)
    BY <1>3, <2>1, <2>2, <2>4 DEF Moved, w, m
  <2>6. QED
    BY <2>5 DEF E
<1>8. QED
  BY <1>6, <1>7

\* flush_send_queue (a314.cc) takes the first packet of the channel.
Sheds(p, q, i) ==
  /\ q \in ThreadStates /\ OneChannel(p, q, i) /\ i \in DOMAIN p.channels /\ p.channels[i].packet_queue # <<>>
  /\ q.channels[i].association = p.channels[i].association /\ q.channels[i].stream_id = p.channels[i].stream_id
  /\ q.channels[i].got_eos_from_ami = p.channels[i].got_eos_from_ami
  /\ q.channels[i].packet_queue = Tail(p.channels[i].packet_queue)
Shed(p, i) == [p EXCEPT !.channels[i].packet_queue = Tail(p.channels[i].packet_queue), !.pi_queue = Tail(@)]
LEMMA ShedIs ==
  ASSUME NEW p \in ThreadStates, NEW i \in DOMAIN p.channels, p.channels[i].packet_queue # <<>>, p.pi_queue # <<>>
  PROVE  Sheds(p, Shed(p, i), i)
<1> DEFINE ch == p.channels[i]
           left == Tail(ch.packet_queue)
           y == [ch EXCEPT !.packet_queue = left]
           q == Shed(p, i)
<1>1. /\ p.pi_queue \in Seq(Ids) /\ p.channels \in ChannelMaps /\ ch \in Channel
  BY MapsOfChannels DEF ThreadStates
<1>2. left \in Seq(PiPackets) /\ Tail(p.pi_queue) \in Seq(Ids)
  BY <1>1, ChannelFields, TailLeaves
<1>3. /\ y \in Channel /\ y.association = ch.association /\ y.packet_queue = left
      /\ y.stream_id = ch.stream_id /\ y.got_eos_from_ami = ch.got_eos_from_ami
  BY <1>1, <1>2 DEF Channel
<1>4. q = [p EXCEPT !.channels = [p.channels EXCEPT ![i] = y], !.pi_queue = Tail(p.pi_queue)]
  BY <1>1 DEF ThreadStates, Shed
<1> HIDE DEF q, y, left
<1>5. q.channels = [p.channels EXCEPT ![i] = y] /\ q.pi_queue = Tail(p.pi_queue) /\ SameWires(p, q)
  BY <1>1, <1>4 DEF ThreadStates, SameWires
<1>6. /\ q.channels \in ChannelMaps /\ DOMAIN q.channels = DOMAIN p.channels
      /\ q.channels[i] = y /\ \A j \in DOMAIN p.channels : j # i => q.channels[j] = p.channels[j]
  BY <1>1, <1>3, <1>5, ChannelReplaced
<1>7. q \in ThreadStates
  BY <1>1, <1>2, <1>4, <1>5, <1>6 DEF ThreadStates
<1>8. Sheds(p, q, i)
  BY <1>3, <1>5, <1>6, <1>7 DEF Sheds, OneChannel, left
<1>9. QED
  BY <1>8 DEF q

\* The packet that is sent goes from the queue of its channel to the end of b,
LEMMA ShedUp ==
  ASSUME NEW g, NEW p, NEW u, NEW r, NEW b, NEW st, NEW d, Runs(g, p, u, r, b, st, d),
         NEW q, NEW i, Sheds(p, q, i), NEW n \in Sessions
  PROVE  Up(g, n, q, d, r, Append(b, Head(p.channels[i].packet_queue)), st)
<1> DEFINE v == p.channels[i].packet_queue
           m == Head(v)
           w == Append(b, m)
           j == g.id[n]
           E == EosPackets(j)
           s == st[n]
           N == s.sent
<1>1. /\ p \in ThreadStates /\ p.channels \in ChannelMaps /\ b \in Seq(PiPackets) /\ ChannelsRouted(g, p)
      /\ Up(g, n, p, d, r, b, st) /\ N \in Nat /\ N \in Int /\ Carriers(PiPackets)
  <2>1. Lives(g, p, u, r, b, st, d, n) /\ st \in [Sessions -> StreamTypes] /\ Carriers(PiPackets)
    BY RunsTypes, AllCarry
  <2>2. QED
    BY <2>1, RunsTypes DEF Lives, StreamTypes
<1>2. /\ i \in DOMAIN p.channels /\ v # <<>> /\ OneChannel(p, q, i) /\ q.channels[i].packet_queue = Tail(v)
      /\ q.channels[i].association = p.channels[i].association
  BY DEF Sheds
<1>3. v \in Seq(PiPackets) /\ PacketsRouted(g, v) /\ \A x \in Elems(v) : x.id = i
  BY <1>1, <1>2, MapsOfChannels, ChannelFields DEF ChannelsRouted
<1>4. m \in PiPackets /\ m \in Elems(v) /\ m.id = i
  BY <1>2, <1>3, HeadAndRest
<1>5. q.fromCli = p.fromCli
  BY <1>2 DEF OneChannel, SameWires
<1>6. ASSUME Open(d, j) PROVE UpOpen(g, n, q, d, r, w, s)
  <2>1. UpOpen(g, n, p, d, r, b, s)
    BY <1>1, <1>6 DEF Up
  <2>2. PICK z1 \in 0..N, z2 \in 0..N, z3 \in 0..N : UpTo(g, n, p, d, r, b, s, z1, z2, z3)
    BY <2>1 DEF UpOpen
  <2>3. z1 \in Int /\ z2 \in Int /\ z3 \in Int /\ z1 <= z2 /\ z2 <= z3 /\ z3 <= N /\ 0 <= z1
    BY <1>1, <2>2 DEF UpTo
  <2>4. \E z \in 0..N : UpTo(g, n, q, d, r, w, s, z1, z, z3)
    <3>1. CASE j = i
      <4>1. /\ Run(b, n, E, z1, z2) /\ Run(v, n, E, z2, z3) /\ (Carries(b, E) => z2 = N) /\ (Carries(v, E) => z3 = N)
            /\ (Carries(b, E) \/ Carries(v, E) => s.ended)
        BY <1>2, <2>2, <3>1 DEF UpTo, Queue
      <4> HIDE DEF v, s, N
      <4>2. PICK z : Moved(b, v, n, E, z1, z, z3, N)
        BY <1>1, <1>2, <1>3, <2>3, <4>1, HeadMoves
      <4>3. /\ z \in Int /\ z1 <= z /\ z <= z3 /\ Run(w, n, E, z1, z) /\ Run(Tail(v), n, E, z, z3)
            /\ (Carries(w, E) => z = N /\ (Carries(b, E) \/ Carries(v, E)))
            /\ (Carries(Tail(v), E) => Carries(v, E))
        BY <4>2 DEF Moved
      <4>4. z \in 0..N
        BY <2>3, <4>3, <1>1
      <4>5. Queue(q, j) = Tail(v) /\ Queue(p, j) = v
        BY <1>2, <3>1 DEF Queue, OneChannel, v
      <4> HIDE DEF w
      <4>6. UpTo(g, n, q, d, r, w, s, z1, z, z3)
        BY <1>2, <1>5, <2>2, <3>1, <4>1, <4>3, <4>5 DEF UpTo, OneChannel, N
      <4>7. QED
        BY <4>4, <4>6
    <3>2. CASE j # i
      <4>1. ~IsItem(m, n) /\ m \notin E
        BY <1>3, <1>4, <3>2 DEF IsItem, EosPackets, PacketsRouted
      <4>2. Run(w, n, E, z1, z2)
        BY <1>1, <1>4, <2>2, <4>1, RunAppendOther DEF UpTo
      <4>3. Carries(w, E) => Carries(b, E)
        <5>1. Elems(w) = Elems(b) \union {m}
          BY <1>1, <1>4, AppendAdds
        <5>2. QED
          BY <4>1, <5>1 DEF Carries
      <4>4. /\ Queue(q, j) = Queue(p, j) /\ (j \in DOMAIN q.channels <=> j \in DOMAIN p.channels)
            /\ (j \in DOMAIN p.channels => q.channels[j] = p.channels[j])
        BY <1>2, <3>2 DEF Queue, OneChannel
      <4> HIDE DEF w, s, N
      <4>5. UpTo(g, n, q, d, r, w, s, z1, z2, z3)
        BY <1>5, <2>2, <4>2, <4>3, <4>4 DEF UpTo
      <4>6. QED
        BY <4>5
    <3>3. QED
      BY <3>1, <3>2
  <2> HIDE DEF w
  <2>5. QED
    BY <2>1, <2>4 DEF UpOpen, s, N
<1> HIDE DEF w
<1>7. Up(g, n, q, d, r, w, st)
  BY <1>1, <1>5, <1>6 DEF Up
<1>8. QED
  BY <1>7 DEF w

\* which keeps the order.
LEMMA ShedOrder ==
  ASSUME NEW g, NEW p, NEW u, NEW r, NEW b, NEW st, NEW d, Runs(g, p, u, r, b, st, d),
         NEW q, NEW i, Sheds(p, q, i)
  PROVE  Runs(g, q, u, r, Append(b, Head(p.channels[i].packet_queue)), st, d)
<1> DEFINE v == p.channels[i].packet_queue
           m == Head(v)
           w == Append(b, m)
<1>1. /\ p \in ThreadStates /\ p.channels \in ChannelMaps /\ b \in Seq(PiPackets) /\ ChannelsRouted(g, p)
      /\ g \in Paths /\ Apart(g) /\ SocketsRouted(g, d) /\ PacketsRouted(g, u) /\ PacketsRouted(g, r)
      /\ PacketsRouted(g, b) /\ ThreadRouted(g, p) /\ StreamsRouted(g, p, st) /\ Ready(d)
      /\ d \in DriverStates /\ st \in [Sessions -> StreamTypes]
  BY RunsTypes DEF Order
<1>2. /\ i \in DOMAIN p.channels /\ v # <<>> /\ OneChannel(p, q, i) /\ q.channels[i].packet_queue = Tail(v)
      /\ q.channels[i].association = p.channels[i].association /\ q.channels[i].stream_id = p.channels[i].stream_id
      /\ q.channels[i].got_eos_from_ami = p.channels[i].got_eos_from_ami /\ q \in ThreadStates
      /\ SameWires(p, q) /\ DOMAIN q.channels = DOMAIN p.channels
  BY DEF Sheds, OneChannel
<1>3. v \in Seq(PiPackets) /\ PacketsRouted(g, v) /\ \A x \in Elems(v) : x.id = i
  BY <1>1, <1>2, MapsOfChannels, ChannelFields DEF ChannelsRouted
<1>4. m \in PiPackets /\ Elems(v) = {m} \union Elems(Tail(v))
  BY <1>2, <1>3, HeadAndRest
<1>5. w \in Seq(PiPackets) /\ Elems(w) = Elems(b) \union {m}
  BY <1>1, <1>4, AppendAdds
<1>6. PacketsRouted(g, w) /\ PacketsRouted(g, Tail(v)) /\ \A x \in Elems(Tail(v)) : x.id = i
  BY <1>1, <1>3, <1>4, <1>5 DEF PacketsRouted
<1>7. ASSUME NEW n \in Sessions PROVE Lives(g, q, u, r, w, st, d, n)
  <2>1. Birth(g, n, u, d, st) /\ Down(g, n, p, u, d, st) /\ st[n] \in StreamTypes
    BY <1>1, RunsTypes DEF Lives
  <2>2. OnDown(g, n, p, u, q, u)
    BY <1>2, OnUSame, PassesSame DEF OnDown, Flows, Linked, SameWires, OneChannel
  <2>3. Down(g, n, q, u, d, st)
    BY <1>1, <2>1, <2>2, OnUSame, DownOn
  <2>4. Up(g, n, q, d, r, w, st)
    BY ShedUp
  <2>5. QED
    BY <2>1, <2>3, <2>4 DEF Lives
<1> HIDE DEF w, v
<1>8. ChannelsRouted(g, q)
  <2>1. ASSUME NEW j \in DOMAIN q.channels
        PROVE  /\ PacketsRouted(g, q.channels[j].packet_queue)
               /\ \A x \in Elems(q.channels[j].packet_queue) : x.id = j
               /\ q.channels[j].association # NoOne =>
                    \E n \in Sessions : /\ g.id[n] = j /\ g.cl[n] = q.channels[j].association
                                        /\ g.sid[n] = q.channels[j].stream_id
    <3>1. CASE j = i
      <4>1. p.channels[i].association # NoOne =>
              \E n \in Sessions : /\ g.id[n] = i /\ g.cl[n] = p.channels[i].association
                                  /\ g.sid[n] = p.channels[i].stream_id
        BY <1>1, <1>2 DEF ChannelsRouted
      <4>2. q.channels[j].packet_queue = Tail(v)
        BY <1>2, <3>1
      <4>3. QED
        BY <1>2, <1>6, <3>1, <4>1, <4>2
    <3>2. CASE j # i
      BY <1>1, <1>2, <3>2 DEF ChannelsRouted, OneChannel
    <3>3. QED
      BY <3>1, <3>2
  <2>2. QED
    BY <2>1 DEF ChannelsRouted
<1>9. ThreadRouted(g, q)
  BY <1>1, <1>2, <1>8 DEF ThreadRouted, MessagesRouted, SidsRouted, ServicesRouted, SameWires, Registered
<1>10. StreamsRouted(g, q, st)
  BY <1>1, <1>2 DEF StreamsRouted, SameWires
<1>11. Order(g, q, u, r, w, st, d)
  BY <1>1, <1>6, <1>7, <1>9, <1>10 DEF Order, Lives
<1>12. Runs(g, q, u, r, w, st, d)
  BY <1>2, <1>5, <1>11, RunsTypes DEF Runs
<1>13. QED
  BY <1>12 DEF w, v

\* flush_send_queue (a314.cc)
LEMMA FlushOrder ==
  ASSUME NEW g, NEW p, NEW u, NEW r, NEW b, NEW st, NEW d, Runs(g, p, u, r, b, st, d), Queued(p), p.pi_queue # <<>>
  PROVE  Runs(g, Thread!flush_send_queue(p), u, r, Append(b, Thread!NextPacket(p)), st, d)
<1> DEFINE i == Head(p.pi_queue)
           left == Tail(p.channels[i].packet_queue)
           q == Shed(p, i)
           e == [q EXCEPT !.pi_queue = Append(@, i)]
           w == Append(b, Thread!NextPacket(p))
<1>1. p \in ThreadStates /\ p.pi_queue \in Seq(Ids)
  BY RunsTypes DEF ThreadStates
<1>2. i \in Elems(p.pi_queue) /\ i \in Ids
  BY <1>1, HeadAndRest
<1>3. i \in DOMAIN p.channels /\ p.channels[i].packet_queue # <<>>
  BY <1>2 DEF Queued, Full
<1>4. Sheds(p, q, i)
  BY <1>1, <1>3, ShedIs
<1>5. w = Append(b, Head(p.channels[i].packet_queue))
  BY DEF Thread!NextPacket
<1>6. Runs(g, q, u, r, w, st, d)
  BY <1>4, <1>5, ShedOrder
<1>7. Thread!flush_send_queue(p) =
        IF left # <<>> THEN e ELSE Thread!remove_channel_if_not_associated_and_empty_pq(q, i)
  BY Zenon DEF Thread!flush_send_queue, Shed
<1> HIDE DEF q, w, i
<1>8. Runs(g, Thread!remove_channel_if_not_associated_and_empty_pq(q, i), u, r, w, st, d)
  BY <1>6, RemoveOrder
<1>9. Runs(g, e, u, r, w, st, d)
  <2>1. q \in ThreadStates /\ q.pi_queue \in Seq(Ids)
    BY <1>4 DEF Sheds, ThreadStates
  <2>2. Append(q.pi_queue, i) \in Seq(Ids)
    BY <1>2, <2>1
  <2>3. e \in ThreadStates /\ e.channels = q.channels /\ SameWires(q, e)
    BY <2>1, <2>2 DEF ThreadStates, SameWires
  <2> HIDE DEF e
  <2>4. SameSight(q, e)
    BY <2>3 DEF SameSight, SameWires, SameConns
  <2>5. QED
    BY <1>6, <2>3, <2>4, SightOrder
<1>10. QED
  BY <1>7, <1>8, <1>9 DEF w

\* write_channel_status (a314.cc): the packets sent in the round are in the ring.
LEMMA PublishOrder ==
  ASSUME NEW g, NEW p, NEW u, NEW r, NEW b, NEW st, NEW d, Runs(g, p, u, r, b, st, d)
  PROVE  Runs(g, p, u, r \o b, <<>>, st, d)
<1> DEFINE w == r \o b
<1>1. /\ g \in Paths /\ Apart(g) /\ SocketsRouted(g, d) /\ PacketsRouted(g, u) /\ PacketsRouted(g, r)
      /\ PacketsRouted(g, b) /\ ThreadRouted(g, p) /\ StreamsRouted(g, p, st) /\ Ready(d)
      /\ d \in DriverStates /\ st \in [Sessions -> StreamTypes] /\ r \in Seq(PiPackets) /\ b \in Seq(PiPackets)
      /\ Carriers(PiPackets)
  BY RunsTypes, AllCarry DEF Order
<1>2. w \in Seq(PiPackets) /\ Elems(w) = Elems(r) \union Elems(b)
  BY <1>1, ConcatJoins
<1>3. PacketsRouted(g, w) /\ PacketsRouted(g, <<>>) /\ <<>> \in Seq(PiPackets)
  BY <1>1, <1>2, NothingQueued DEF PacketsRouted
<1>4. ASSUME NEW n \in Sessions PROVE Lives(g, p, u, w, <<>>, st, d, n)
  <2> DEFINE j == g.id[n]
             E == EosPackets(j)
             s == st[n]
             N == s.sent
  <2>1. Birth(g, n, u, d, st) /\ Down(g, n, p, u, d, st) /\ Up(g, n, p, d, r, b, st) /\ N \in Nat
    BY <1>1, RunsTypes DEF Lives, StreamTypes
  <2>2. ASSUME Open(d, j) PROVE UpOpen(g, n, p, d, w, <<>>, s)
    <3>1. UpOpen(g, n, p, d, r, b, s)
      BY <2>1, <2>2 DEF Up
    <3>2. PICK z1 \in 0..N, z2 \in 0..N, z3 \in 0..N : UpTo(g, n, p, d, r, b, s, z1, z2, z3)
      BY <3>1 DEF UpOpen
    <3>3. Got(d, n, j) \in Int
      BY <1>1, <2>2, GotIs DEF Open
    <3>4. z1 \in Int /\ z2 \in Int /\ z3 \in Int /\ z1 <= z2 /\ z2 <= z3 /\ z3 <= N /\ Got(d, n, j) <= z1
      BY <2>1, <3>2 DEF UpTo
    <3>5. /\ Run(r, n, E, Got(d, n, j), z1) /\ Run(b, n, E, z1, z2) /\ (Carries(r, E) => s.ended /\ z1 = N)
          /\ (Carries(b, E) => s.ended /\ z2 = N)
      BY <3>2 DEF UpTo
    <3> HIDE DEF s, N
    <3>6. Carries(r, E) => z1 = z2
      BY <2>1, <3>4, <3>5
    <3>7. Run(w, n, E, Got(d, n, j), z2)
      BY <1>1, <3>3, <3>4, <3>5, <3>6, RunConcat DEF Carries
    <3>8. Carries(w, E) => s.ended /\ z2 = N
      BY <1>2, <2>1, <3>4, <3>5, <3>6 DEF Carries
    <3>9. Run(<<>>, n, E, z2, z2) /\ ~Carries(<<>>, E)
      BY <1>3, <3>4, NothingQueued, LostRun DEF Lost
    <3>10. Got(d, n, j) <= z2 /\ z2 <= z2
      BY <3>3, <3>4
    <3> HIDE DEF w
    <3>11. UpTo(g, n, p, d, w, <<>>, s, z2, z2, z3)
      BY <3>2, <3>4, <3>7, <3>8, <3>9, <3>10 DEF UpTo, N
    <3>12. QED
      BY <3>1, <3>11 DEF UpOpen, N
  <2> HIDE DEF w
  <2>3. Up(g, n, p, d, w, <<>>, st)
    BY <2>1, <2>2 DEF Up
  <2>4. QED
    BY <2>1, <2>3 DEF Lives
<1> HIDE DEF w
<1>5. Order(g, p, u, w, <<>>, st, d)
  BY <1>1, <1>3, <1>4 DEF Order, Lives
<1>6. Runs(g, p, u, w, <<>>, st, d)
  BY <1>2, <1>3, <1>5, RunsTypes DEF Runs
<1>7. QED
  BY <1>6 DEF w

-----------------------------------------------------------------------------
(* Ends of sessions and of connections. *)

\* Messages that are no items of the session and not its EOS follow what is in a queue.
LEMMA PassesConcat ==
  ASSUME NEW T, Carriers(T), NEW q \in Seq(T), NEW s \in Seq(T), NEW n, NEW E, Lost(s, n, E)
  PROVE  Passes(q, q \o s, n, E)
<1> DEFINE v == q \o s
<1>1. Elems(v) = Elems(q) \union Elems(s)
  BY ConcatJoins
<1>2. ASSUME NEW lo \in Int, NEW hi \in Int, Run(q, n, E, lo, hi) PROVE Run(v, n, E, lo, hi)
  <2>1. CASE lo <= hi
    <3>1. Run(s, n, E, hi, hi)
      BY LostRun
    <3>2. hi <= hi
      OBVIOUS
    <3>3. QED
      BY <1>2, <2>1, <3>1, <3>2, RunConcat
  <2>2. CASE hi < lo
    <3>1. (lo + 1)..hi = (lo + 1)..lo /\ lo <= lo
      BY <2>2
    <3>2. Run(q, n, E, lo, lo)
      BY <1>2, <3>1 DEF Run
    <3>3. Run(s, n, E, lo, lo)
      BY LostRun
    <3> HIDE DEF v
    <3>4. Run(v, n, E, lo, lo)
      BY <3>1, <3>2, <3>3, RunConcat DEF v
    <3>5. QED
      BY <3>1, <3>4 DEF Run
  <2>3. QED
    BY <2>1, <2>2
<1>3. Continues(q, v, n, E)
  BY <1>2 DEF Continues
<1> HIDE DEF v
<1>4. Passes(q, v, n, E)
  BY <1>1, <1>3 DEF Passes, Carries, Calls, Lost, IsItem
<1>5. QED
  BY <1>4 DEF v

\* The RESET messages of close_all_logical_channels (a314.cc), to the client of each channel.
Resets(p, c) == [k \in DOMAIN p.associations[c] |->
                   Thread!Msg("RESET", p.channels[p.associations[c][k]].stream_id, Thread!Nothing)]
LEMMA ResetsAre ==
  ASSUME NEW p \in ThreadStates, Listed(p), NEW c \in Clients
  PROVE  /\ Resets(p, c) \in Seq(ToClient) /\ Len(Resets(p, c)) \in Nat
         /\ \A m \in Elems(Resets(p, c)) : m.type = "RESET" /\ \E i \in Of(p, c) : m.sid = p.channels[i].stream_id
<1> DEFINE s == Resets(p, c)
           a == p.associations[c]
<1>1. a \in Seq(Ids)
  BY DEF ThreadStates
<1>2. DOMAIN a = 1..Len(a) /\ Len(a) \in Nat
  BY <1>1, LenProperties
<1>3. ASSUME NEW k \in DOMAIN a
      PROVE  /\ a[k] \in Of(p, c) /\ s[k] \in ToClient /\ s[k].type = "RESET"
             /\ s[k].sid = p.channels[a[k]].stream_id
  <2> DEFINE j == a[k]
  <2>1. j \in Of(p, c)
    BY DEF Elems, Listed
  <2>2. p.channels[j].stream_id \in Nat
    BY <2>1, MapsOfChannels, ChannelFields DEF ThreadStates, Of
  <2>3. s[k] = Thread!Msg("RESET", p.channels[j].stream_id, Thread!Nothing)
    BY DEF Resets
  <2> HIDE DEF j, s, a
  <2>4. s[k] \in ToClient /\ s[k].type = "RESET" /\ s[k].sid = p.channels[j].stream_id
    BY <2>2, <2>3, ItemTypes DEF Thread!Msg, ToClient
  <2>5. QED
    BY <2>1, <2>4 DEF j
<1>4. DOMAIN s = DOMAIN a /\ s = [k \in DOMAIN a |-> s[k]]
  BY DEF Resets
<1> HIDE DEF s, a
<1>5. s \in [1..Len(a) -> ToClient]
  BY <1>2, <1>3, <1>4
<1>6. s \in Seq(ToClient)
  BY <1>2, <1>5, SeqDef
<1>7. Len(s) \in Nat
  BY <1>6, LenProperties
<1>8. \A m \in Elems(s) : m.type = "RESET" /\ \E i \in Of(p, c) : m.sid = p.channels[i].stream_id
  BY <1>3, <1>4 DEF Elems
<1>9. QED
  BY <1>6, <1>7, <1>8 DEF s

\* close_all_logical_channels (a314.cc)
Tolled(p, q) == [p EXCEPT !.conn = q.conn, !.toCli = q.toCli]
LEMMA CloseAllOrder ==
  ASSUME NEW g, NEW p, NEW u, NEW r, NEW b, NEW st, NEW d, Runs(g, p, u, r, b, st, d), Tabled(p)
  PROVE  Runs(g, Thread!close_all_logical_channels(p), u, r, b, st, d)
<1> DEFINE q == Thread!close_all_logical_channels(p)
           w == Tolled(p, q)
<1>1. /\ p \in ThreadStates /\ Listed(p) /\ q \in ThreadStates /\ ServicesRouted(p) /\ g \in Paths /\ Apart(g)
      /\ ChannelsRouted(g, p) /\ Carriers(ToClient)
  <2>1. Tabled(q)
    BY CloseAllTables
  <2>2. p \in ThreadStates /\ Listed(p) /\ q \in ThreadStates
    BY <2>1, Zenon DEF Tabled, TabledBut
  <2>3. QED
    BY <2>2, RunsTypes, AllCarry
<1>2. /\ q.channels = <<>> /\ q.services = p.services /\ q.fromCli = p.fromCli
      /\ q.cc_next_stream_id = p.cc_next_stream_id
      /\ q.conn = [c \in Clients |-> Thread!AfterWrites(p.conn[c], Len(Resets(p, c)))]
      /\ q.toCli = [c \in Clients |-> IF p.conn[c] = "up" THEN p.toCli[c] \o Resets(p, c) ELSE p.toCli[c]]
  BY <1>1 DEF Thread!close_all_logical_channels, ThreadStates, Resets
<1> HIDE DEF q
<1>3. /\ w \in ThreadStates /\ w.channels = p.channels /\ w.services = p.services /\ w.fromCli = p.fromCli
      /\ w.cc_next_stream_id = p.cc_next_stream_id /\ w.conn = q.conn /\ w.toCli = q.toCli
  <2>1. q.conn \in [Clients -> Conns] /\ q.toCli \in [Clients -> Seq(ToClient)]
    BY <1>1 DEF ThreadStates
  <2>2. QED
    BY <1>1, <2>1 DEF ThreadStates, Tolled
<1> HIDE DEF w
<1>4. SameConns(p, w)
  <2>1. ASSUME NEW c \in Clients
        PROVE  (w.conn[c] = "up" <=> p.conn[c] = "up") /\ (w.conn[c] = "none" <=> p.conn[c] = "none")
    <3>1. p.conn[c] \in Conns /\ Len(Resets(p, c)) \in Nat
      BY <1>1, ResetsAre DEF ThreadStates
    <3>2. w.conn[c] = Thread!AfterWrites(p.conn[c], Len(Resets(p, c)))
      BY <1>2, <1>3
    <3>3. QED
      BY <3>1, <3>2, AfterWritesKeeps
  <2>2. QED
    BY <2>1 DEF SameConns
<1>5. ASSUME NEW c \in Clients
      PROVE  /\ w.toCli[c] = IF p.conn[c] = "up" THEN p.toCli[c] \o Resets(p, c) ELSE p.toCli[c]
             /\ p.toCli[c] \in Seq(ToClient) /\ Resets(p, c) \in Seq(ToClient)
             /\ \A m \in Elems(Resets(p, c)) : m.type = "RESET" /\ Spoken(g, p, c, m)
  <2>1. ASSUME NEW m \in Elems(Resets(p, c)) PROVE m.type = "RESET" /\ Spoken(g, p, c, m)
    <3>1. PICK i \in Of(p, c) : m.type = "RESET" /\ m.sid = p.channels[i].stream_id
      BY <1>1, <2>1, ResetsAre
    <3>2. i \in DOMAIN p.channels /\ p.channels[i].association = c /\ c # NoOne
      BY ClientAssumption DEF Of
    <3>3. PICK n : IsOf(g, p, i, n)
      BY <3>2, SessionOf
    <3>4. m.sid < p.cc_next_stream_id[c]
      BY <3>1, <3>2, <3>3 DEF IsOf
    <3>5. QED
      BY <3>1, <3>4 DEF Spoken
  <2>2. p.toCli[c] \in Seq(ToClient) /\ Resets(p, c) \in Seq(ToClient)
    BY <1>1, ResetsAre DEF ThreadStates
  <2>3. QED
    BY <1>2, <1>3, <2>1, <2>2
<1>6. Tells(g, p, w)
  <2>1. ASSUME NEW c \in Clients
        PROVE  /\ \A m \in Elems(w.toCli[c]) : m \in Elems(p.toCli[c]) \/ Spoken(g, p, c, m)
               /\ p.conn[c] = "none" => w.toCli[c] = <<>>
    <3>1. Elems(p.toCli[c] \o Resets(p, c)) = Elems(p.toCli[c]) \union Elems(Resets(p, c))
      BY <1>5, ConcatJoins
    <3>2. p.conn[c] = "none" => w.toCli[c] = <<>>
      BY <1>1, <1>5 DEF ServicesRouted
    <3>3. QED
      BY <1>5, <3>1, <3>2
  <2>2. QED
    BY <1>3, <1>4, <2>1 DEF Tells
<1>7. ASSUME NEW n \in Sessions, g.cl[n] # NoOne
      PROVE  Passes(p.toCli[g.cl[n]], w.toCli[g.cl[n]], n, EosMessages(g.sid[n]))
  <2> DEFINE c == g.cl[n]
  <2>1. c \in Clients
    BY <1>1, <1>7 DEF Paths
  <2> HIDE DEF c
  <2>2. Lost(Resets(p, c), n, EosMessages(g.sid[n]))
    BY <1>5, <2>1 DEF Lost, IsItem, EosMessages
  <2>3. Passes(p.toCli[c], w.toCli[c], n, EosMessages(g.sid[n]))
    BY <1>1, <1>5, <2>1, <2>2, PassesConcat, PassesSame
  <2>4. QED
    BY <2>3 DEF c
<1>8. Runs(g, w, u, r, b, st, d)
  BY <1>3, <1>6, <1>7, TellsOrder
<1>9. DOMAIN q.channels = {}
  BY <1>2
<1>10. SameWires(w, q) /\ ChannelsRouted(g, q)
  BY <1>2, <1>3, <1>9 DEF SameWires, ChannelsRouted
<1>11. \A n \in Sessions : OnChannel(g, n, w, q)
  <2>1. \A n \in Sessions : Queue(q, g.id[n]) = <<>> /\ ~Assoc(q, g.id[n]) /\ ~Flows(g, n, q)
    BY <1>9 DEF Queue, Assoc, Flows
  <2>2. \A n \in Sessions : Lost(<<>>, n, EosPackets(g.id[n]))
    BY NothingQueued DEF Lost
  <2>3. QED
    BY <2>1, <2>2 DEF OnChannel
<1>12. Runs(g, q, u, r, b, st, d)
  BY <1>1, <1>8, <1>10, <1>11, ChannelsOrder
<1>13. QED
  BY <1>12 DEF q

\* close_and_remove_connection (a314.cc): connection c and its services are gone, and its
\* channels have a RESET for the Amiga, and nothing else.
Mine(p, i, c) == i \in DOMAIN p.channels /\ p.channels[i].association = c
Hangs(p, q, c) ==
  /\ q \in ThreadStates /\ q.cc_next_stream_id = p.cc_next_stream_id
  /\ DOMAIN q.services = {s \in DOMAIN p.services : p.services[s] # c}
  /\ \A s \in DOMAIN q.services : q.services[s] = p.services[s]
  /\ q.conn[c] = "none" /\ q.toCli[c] = <<>> /\ q.fromCli[c] = <<>>
  /\ \A e \in Clients : e # c => q.conn[e] = p.conn[e] /\ q.toCli[e] = p.toCli[e] /\ q.fromCli[e] = p.fromCli[e]
  /\ DOMAIN q.channels = DOMAIN p.channels
  /\ \A i \in DOMAIN p.channels :
       IF p.channels[i].association = c
         THEN /\ q.channels[i].association = NoOne
              /\ q.channels[i].packet_queue = <<Thread!Pkt("RESET", i, Thread!Nothing)>>
         ELSE q.channels[i] = p.channels[i]
LEMMA HangsIs ==
  ASSUME NEW p, Tabled(p), NEW c \in Clients
  PROVE  Hangs(p, Thread!close_and_remove_connection(p, c), c)
<1> DEFINE q == Thread!close_and_remove_connection(p, c)
           mine == {i \in DOMAIN p.channels : p.channels[i].association = c}
           gone(i) == [p.channels[i] EXCEPT !.association = NoOne, !.stream_id = 0,
                                            !.packet_queue = <<Thread!Pkt("RESET", i, Thread!Nothing)>>]
           ch == [i \in DOMAIN p.channels |-> IF i \in mine THEN gone(i) ELSE p.channels[i]]
<1>1. p \in ThreadStates /\ q \in ThreadStates
  <2>1. Tabled(q)
    BY CloseTables
  <2>2. QED
    BY <2>1, Zenon DEF Tabled, TabledBut
<1>2. /\ p.conn \in [Clients -> Conns] /\ p.toCli \in [Clients -> Seq(ToClient)]
      /\ p.fromCli \in [Clients -> Seq(FromClient)] /\ p.channels \in ChannelMaps
  BY <1>1 DEF ThreadStates
<1>3. /\ q.cc_next_stream_id = p.cc_next_stream_id
      /\ q.services = [s \in {t \in DOMAIN p.services : p.services[t] # c} |-> p.services[s]]
      /\ q.conn = [p.conn EXCEPT ![c] = "none"] /\ q.toCli = [p.toCli EXCEPT ![c] = <<>>]
      /\ q.fromCli = [p.fromCli EXCEPT ![c] = <<>>] /\ q.channels = ch
  BY <1>1, <1>2 DEF Thread!close_and_remove_connection, ThreadStates
<1> HIDE DEF q
<1>4. ASSUME NEW i \in DOMAIN p.channels, p.channels[i].association = c
      PROVE  /\ q.channels[i].association = NoOne
             /\ q.channels[i].packet_queue = <<Thread!Pkt("RESET", i, Thread!Nothing)>>
  <2> DEFINE m == <<Thread!Pkt("RESET", i, Thread!Nothing)>>
             y == p.channels[i]
  <2>1. q.channels[i] = gone(i)
    BY <1>3, <1>4
  <2>2. y \in Channel
    BY <1>2, MapsOfChannels
  <2>3. gone(i) = [y EXCEPT !.association = NoOne, !.stream_id = 0, !.packet_queue = m]
    OBVIOUS
  <2> HIDE DEF m, y, gone
  <2>4. gone(i).association = NoOne /\ gone(i).packet_queue = m
    BY <2>2, <2>3 DEF Channel
  <2>5. QED
    BY <2>1, <2>4 DEF m
<1>5. DOMAIN q.channels = DOMAIN p.channels /\ \A i \in DOMAIN p.channels : p.channels[i].association # c => q.channels[i] = p.channels[i]
  BY <1>3
<1>6. /\ DOMAIN q.services = {s \in DOMAIN p.services : p.services[s] # c}
      /\ \A s \in DOMAIN q.services : q.services[s] = p.services[s]
  BY <1>3
<1>7. /\ q.conn[c] = "none" /\ q.toCli[c] = <<>> /\ q.fromCli[c] = <<>>
      /\ \A e \in Clients : e # c => q.conn[e] = p.conn[e] /\ q.toCli[e] = p.toCli[e] /\ q.fromCli[e] = p.fromCli[e]
  BY <1>2, <1>3
<1>8. Hangs(p, q, c)
  BY <1>1, <1>3, <1>4, <1>5, <1>6, <1>7 DEF Hangs
<1>9. QED
  BY <1>8 DEF q

\* the sessions of connection c have no client
Parted(g, c) == [id |-> g.id, cl |-> [n \in Sessions |-> IF g.cl[n] = c THEN NoOne ELSE g.cl[n]], sid |-> g.sid]
PartsFrom(g, h, c) ==
  /\ h \in Paths /\ h.id = g.id /\ h.sid = g.sid
  /\ \A n \in Sessions : IF g.cl[n] = c THEN h.cl[n] = NoOne ELSE h.cl[n] = g.cl[n]
LEMMA PartedIs ==
  ASSUME NEW g \in Paths, NEW c
  PROVE  PartsFrom(g, Parted(g, c), c)
  BY DEF Paths, PartsFrom, Parted

\* The sessions of the connection have no client any more.
LEMMA HangsRouted ==
  ASSUME NEW g, NEW p, NEW u, NEW r, NEW b, NEW st, NEW d, Runs(g, p, u, r, b, st, d),
         NEW c \in Clients, p.conn[c] # "up", NEW q, Hangs(p, q, c), NEW h, PartsFrom(g, h, c)
  PROVE  /\ Apart(h) /\ ThreadRouted(h, q) /\ StreamsRouted(h, q, st)
<1>1. /\ p \in ThreadStates /\ ServicesRouted(p) /\ SidsRouted(g, p) /\ MessagesRouted(g, p) /\ ChannelsRouted(g, p)
      /\ StreamsRouted(g, p, st) /\ g \in Paths /\ Apart(g) /\ p.services \in ServiceMaps
      /\ st \in [Sessions -> StreamTypes]
  BY RunsTypes
<1>2. /\ q \in ThreadStates /\ q.cc_next_stream_id = p.cc_next_stream_id
      /\ DOMAIN q.channels = DOMAIN p.channels
      /\ \A e \in Clients : e # c => q.conn[e] = p.conn[e] /\ q.toCli[e] = p.toCli[e] /\ q.fromCli[e] = p.fromCli[e]
      /\ q.conn[c] = "none" /\ q.toCli[c] = <<>> /\ q.fromCli[c] = <<>>
  BY DEF Hangs
<1>3. /\ \A n \in Sessions : h.cl[n] # NoOne => g.cl[n] = h.cl[n] /\ g.cl[n] # c
      /\ \A n \in Sessions : g.cl[n] # c => h.cl[n] = g.cl[n]
      /\ h.id = g.id /\ h.sid = g.sid /\ h \in Paths
  BY DEF PartsFrom
<1>4. Apart(h)
  BY <1>1, <1>3 DEF Apart
<1>5. \A e \in Clients : e \in Registered(q) <=> e \in Registered(p) /\ e # c
  BY DEF Hangs, Registered
<1>6. ChannelsRouted(h, q)
  <2>1. ASSUME NEW i \in DOMAIN p.channels
        PROVE  /\ PacketsRouted(h, q.channels[i].packet_queue)
               /\ \A m \in Elems(q.channels[i].packet_queue) : m.id = i
               /\ q.channels[i].association # NoOne =>
                    \E n \in Sessions : /\ h.id[n] = i /\ h.cl[n] = q.channels[i].association
                                        /\ h.sid[n] = q.channels[i].stream_id
    <3>1. CASE p.channels[i].association = c
      <4> DEFINE x == Thread!Pkt("RESET", i, Thread!Nothing)
      <4>1. q.channels[i].association = NoOne /\ q.channels[i].packet_queue = <<x>>
        BY <3>1 DEF Hangs
      <4>2. x.type = "RESET" /\ x.id = i
        BY DEF Thread!Pkt
      <4>3. \A m \in Elems(<<x>>) : m = x
        BY DEF Elems
      <4> HIDE DEF x
      <4>4. QED
        BY <4>1, <4>2, <4>3 DEF PacketsRouted
    <3>2. CASE p.channels[i].association # c
      <4>1. q.channels[i] = p.channels[i]
        BY <3>2 DEF Hangs
      <4>2. PacketsRouted(h, p.channels[i].packet_queue) /\ \A m \in Elems(p.channels[i].packet_queue) : m.id = i
        BY <1>1, <1>3 DEF ChannelsRouted, PacketsRouted
      <4>3. ASSUME p.channels[i].association # NoOne
            PROVE  \E n \in Sessions : /\ h.id[n] = i /\ h.cl[n] = p.channels[i].association
                                       /\ h.sid[n] = p.channels[i].stream_id
        <5>1. PICK n \in Sessions : /\ g.id[n] = i /\ g.cl[n] = p.channels[i].association
                                    /\ g.sid[n] = p.channels[i].stream_id
          BY <1>1, <4>3 DEF ChannelsRouted
        <5>2. QED
          BY <1>3, <3>2, <5>1
      <4>4. QED
        BY <4>1, <4>2, <4>3
    <3>3. QED
      BY <3>1, <3>2
  <2>2. QED
    BY <1>2, <2>1 DEF ChannelsRouted
<1>7. MessagesRouted(h, q)
  <2>1. ASSUME NEW e \in Clients
        PROVE  Said(h, e, q.toCli[e], q.cc_next_stream_id[e]) /\ Said(h, e, q.fromCli[e], q.cc_next_stream_id[e])
    <3>1. CASE e = c
      BY <1>2, <3>1, NothingQueued DEF Said
    <3>2. CASE e # c
      <4>1. Said(g, e, p.toCli[e], p.cc_next_stream_id[e]) /\ Said(g, e, p.fromCli[e], p.cc_next_stream_id[e])
        BY <1>1 DEF MessagesRouted
      <4>2. QED
        BY <1>2, <1>3, <3>2, <4>1 DEF Said
    <3>3. QED
      BY <3>1, <3>2
  <2>2. QED
    BY <2>1 DEF MessagesRouted
<1>8. SidsRouted(h, q)
  <2>1. \A n \in Sessions : h.cl[n] # NoOne => h.cl[n] \in Clients
    BY <1>3 DEF Paths
  <2>2. QED
    BY <1>1, <1>2, <1>3, <1>5, <2>1 DEF SidsRouted
<1>9. ServicesRouted(q)
  <2>1. \A s \in DOMAIN q.services : s = Name[q.services[s]] /\ q.conn[q.services[s]] # "none"
    <3>1. \A s \in DOMAIN q.services : s \in DOMAIN p.services /\ q.services[s] = p.services[s] /\ p.services[s] # c
      BY DEF Hangs
    <3>2. \A s \in DOMAIN p.services : p.services[s] \in Clients
      BY <1>1 DEF ServiceMaps
    <3>3. QED
      BY <1>1, <1>2, <3>1, <3>2 DEF ServicesRouted
  <2>2. \A e \in OnDemand : q.conn[e] # "none" => e \in Registered(q)
    BY <1>1, <1>2, <1>5, ClientAssumption DEF ServicesRouted
  <2>3. ASSUME NEW e \in Clients
        PROVE  /\ Asking(q.fromCli[e]) =>
                    /\ e \notin Registered(q) /\ ~Asking(Tail(q.fromCli[e]))
                    /\ Head(q.fromCli[e]).type = "REGISTER_REQ"
                    /\ \A m \in Elems(q.toCli[e]) : m.type # "REGISTER_RES"
               /\ Refused(q.toCli[e]) => e \notin Registered(q)
               /\ q.conn[e] = "none" => q.toCli[e] = <<>> /\ q.fromCli[e] = <<>>
    <3>1. CASE e = c
      BY <1>2, <3>1, NothingQueued DEF Asking, Refused
    <3>2. CASE e # c
      BY <1>1, <1>2, <1>5, <3>2 DEF ServicesRouted
    <3>3. QED
      BY <3>1, <3>2
  <2>4. QED
    BY <2>1, <2>2, <2>3 DEF ServicesRouted
<1>10. StreamsRouted(h, q, st)
  <2>1. ASSUME NEW n \in Sessions, st[n].client # NoOne
        PROVE  h.cl[n] = st[n].client /\ h.sid[n] = st[n].sid /\ q.conn[st[n].client] = "up"
    <3>1. st[n].client \in Clients
      BY <1>1, <2>1 DEF StreamTypes
    <3>2. g.cl[n] = st[n].client /\ g.sid[n] = st[n].sid /\ p.conn[st[n].client] = "up"
      BY <1>1, <2>1 DEF StreamsRouted
    <3>3. st[n].client # c
      BY <3>2
    <3>4. QED
      BY <1>2, <1>3, <3>1, <3>2, <3>3
  <2>2. QED
    BY <1>1, <2>1 DEF StreamsRouted
<1>11. QED
  BY <1>4, <1>6, <1>7, <1>8, <1>9, <1>10 DEF ThreadRouted

\* What is under way of a session whose client is gone.
LEMMA LivesAlone ==
  ASSUME NEW g, NEW h, NEW q, NEW u, NEW r, NEW b, NEW st, NEW d, NEW n \in Sessions, Lives(g, q, u, r, b, st, d, n),
         h.id[n] = g.id[n], h.cl[n] = NoOne, g.cl[n] # NoOne, h.sid[n] = g.sid[n], ~Assoc(q, g.id[n])
  PROVE  Lives(h, q, u, r, b, st, d, n)
<1>1. Birth(h, n, u, d, st)
  BY DEF Lives, Birth, Unborn
<1>2. Down(h, n, q, u, d, st)
  BY DEF Lives, Down, Linked
<1>3. \A z1, z2, z3 : UpTo(g, n, q, d, r, b, st[n], z1, z2, z3) => UpTo(h, n, q, d, r, b, st[n], z1, z2, z3)
  BY DEF UpTo, Assoc
<1>4. UpOpen(g, n, q, d, r, b, st[n]) => UpOpen(h, n, q, d, r, b, st[n])
  BY <1>3 DEF UpOpen
<1>5. Up(h, n, q, d, r, b, st)
  BY <1>4 DEF Lives, Up
<1>6. QED
  BY <1>1, <1>2, <1>5 DEF Lives

\* close_and_remove_connection (a314.cc) keeps the order.
LEMMA HangUpOrder ==
  ASSUME NEW g, NEW p, NEW u, NEW r, NEW b, NEW st, NEW d, Runs(g, p, u, r, b, st, d), Tabled(p),
         NEW c \in Clients, p.conn[c] # "up"
  PROVE  StillRuns(Thread!close_and_remove_connection(p, c), u, r, b, st, d)
<1> DEFINE q == Thread!close_and_remove_connection(p, c)
           h == Parted(g, c)
<1>1. Hangs(p, q, c)
  BY HangsIs
<1>2. g \in Paths /\ u \in Seq(AmigaPackets) /\ PacketsRouted(g, u) /\ st \in [Sessions -> StreamTypes] /\ c # NoOne
  BY RunsTypes, ClientAssumption
<1>3. PartsFrom(g, h, c)
  BY <1>2, PartedIs
<1> HIDE DEF q, h
<1>4. /\ h \in Paths /\ h.id = g.id /\ h.sid = g.sid /\ q \in ThreadStates /\ PacketsRouted(h, u)
      /\ Apart(h) /\ ThreadRouted(h, q) /\ StreamsRouted(h, q, st)
  BY <1>1, <1>2, <1>3, HangsRouted DEF PartsFrom, Hangs, PacketsRouted
<1>5. ASSUME NEW n \in Sessions, Assoc(q, g.id[n])
      PROVE  /\ Assoc(p, g.id[n]) /\ g.cl[n] # c
             /\ q.channels[g.id[n]] = p.channels[g.id[n]]
  <2> DEFINE i == g.id[n]
  <2>1. i \in DOMAIN p.channels /\ p.channels[i].association # c /\ q.channels[i] = p.channels[i]
    BY <1>1, <1>5 DEF Hangs, Assoc
  <2>2. p.channels[i].association # NoOne
    BY <1>5, <2>1 DEF Assoc
  <2>3. PICK k : IsOf(g, p, i, k)
    BY <2>1, <2>2, SessionOf
  <2>4. g.cl[n] = p.channels[i].association
    BY <2>3 DEF IsOf
  <2>5. QED
    BY <2>1, <2>2, <2>4 DEF Assoc
<1>6. ASSUME NEW n \in Sessions PROVE Lives(g, q, u, r, b, st, d, n)
  <2>1. g.cl[n] # NoOne => g.cl[n] \in Clients
    BY <1>2 DEF Paths
  <2>2. OnDown(g, n, p, u, q, u)
    <3>1. Linked(g, n, q) => Linked(g, n, p) /\ Passes(p.toCli[g.cl[n]], q.toCli[g.cl[n]], n, EosMessages(g.sid[n]))
      <4>1. ASSUME Linked(g, n, q) PROVE g.cl[n] \in Clients /\ g.cl[n] # c
        BY <1>1, <2>1, <4>1 DEF Linked, Hangs
      <4>2. QED
        BY <1>1, <4>1, PassesSame DEF Linked, Hangs
    <3>2. Flows(g, n, q) => Assoc(q, g.id[n])
      BY DEF Flows, Assoc
    <3>3. Flows(g, n, q) => Flows(g, n, p)
      BY <1>5, <3>2 DEF Flows, Assoc
    <3>4. QED
      BY <3>1, <3>3, OnUSame DEF OnDown
  <2>3. OnUp(g, n, p, q)
    <3>1. g.cl[n] # NoOne /\ Carries(q.fromCli[g.cl[n]], EosMessages(g.sid[n])) =>
            Carries(p.fromCli[g.cl[n]], EosMessages(g.sid[n]))
      BY <1>1, <2>1, NothingQueued DEF Hangs, Carries
    <3>2. Assoc(q, g.id[n]) =>
            Assoc(p, g.id[n]) /\ Continues(p.fromCli[g.cl[n]], q.fromCli[g.cl[n]], n, EosMessages(g.sid[n]))
      <4>1. ASSUME Assoc(q, g.id[n]) PROVE g.cl[n] \in Clients /\ g.cl[n] # c /\ Assoc(p, g.id[n])
        <5>1. Assoc(p, g.id[n]) /\ g.cl[n] # c
          BY <1>5, <4>1
        <5>2. PICK k : IsOf(g, p, g.id[n], k)
          BY <5>1, SessionOf DEF Assoc
        <5>3. QED
          BY <5>1, <5>2 DEF IsOf
      <4>2. QED
        BY <1>1, <4>1, PassesSame DEF Hangs, Passes
    <3>3. \/ Passes(Queue(p, g.id[n]), Queue(q, g.id[n]), n, EosPackets(g.id[n]))
          \/ ~Assoc(q, g.id[n]) /\ Lost(Queue(q, g.id[n]), n, EosPackets(g.id[n]))
      <4> DEFINE i == g.id[n]
                 x == Thread!Pkt("RESET", i, Thread!Nothing)
      <4>1. CASE Mine(p, i, c)
        <5>1. i \in DOMAIN q.channels /\ q.channels[i].association = NoOne /\ q.channels[i].packet_queue = <<x>>
          BY <1>1, <4>1 DEF Hangs, Mine
        <5>2. x.type = "RESET"
          BY DEF Thread!Pkt
        <5>3. \A m \in Elems(<<x>>) : m = x
          BY DEF Elems
        <5> HIDE DEF x
        <5>4. Lost(<<x>>, n, EosPackets(i))
          BY <5>2, <5>3 DEF Lost, IsItem, EosPackets
        <5>5. QED
          BY <5>1, <5>4 DEF Queue, Assoc
      <4>2. CASE ~Mine(p, i, c)
        <5>1. Queue(q, i) = Queue(p, i)
          BY <1>1, <4>2 DEF Hangs, Mine, Queue
        <5>2. QED
          BY <5>1, PassesSame
      <4>3. QED
        BY <4>1, <4>2
    <3>4. QED
      BY <3>1, <3>2, <3>3 DEF OnUp
  <2>4. QED
    BY <1>4, <2>2, <2>3, OnUSame, SessionOn DEF Onward
<1>7. ASSUME NEW n \in Sessions PROVE Lives(h, q, u, r, b, st, d, n)
  <2>1. CASE g.cl[n] = c
    <3>1. h.cl[n] = NoOne
      BY <1>3, <2>1 DEF PartsFrom
    <3>2. ~Assoc(q, g.id[n])
      BY <1>5, <2>1
    <3>3. QED
      BY <1>2, <1>4, <1>6, <2>1, <3>1, <3>2, LivesAlone
  <2>2. CASE g.cl[n] # c
    <3>1. h.cl[n] = g.cl[n]
      BY <1>3, <2>2 DEF PartsFrom
    <3>2. QED
      BY <1>4, <1>6, <3>1, LivesAlike
  <2>3. QED
    BY <2>1, <2>2
<1>8. Runs(h, q, u, r, b, st, d)
  BY <1>2, <1>4, <1>7, RunsAgain
<1>9. QED
  BY <1>8 DEF StillRuns, q

\* handle_server_socket_ready (a314.cc): a client connects and asks to be registered.
Asks(q) == /\ Asking(q) /\ ~Asking(Tail(q)) /\ Head(q).type = "REGISTER_REQ"
           /\ \A m \in Elems(q) : m.type = "REGISTER_REQ"
Joins(p, q, c) ==
  /\ q \in ThreadStates /\ q.channels = p.channels /\ q.services = p.services /\ q.toCli = p.toCli
  /\ q.conn[c] = "up" /\ q.cc_next_stream_id[c] = 1 /\ Asks(q.fromCli[c])
  /\ \A e \in Clients : e # c => /\ q.conn[e] = p.conn[e] /\ q.fromCli[e] = p.fromCli[e]
                                 /\ q.cc_next_stream_id[e] = p.cc_next_stream_id[e]
Joined(p, c) == [p EXCEPT !.conn = [@ EXCEPT ![c] = "up"],
                          !.cc_next_stream_id = [@ EXCEPT ![c] = 1],
                          !.fromCli = [@ EXCEPT ![c] = <<Thread!Msg("REGISTER_REQ", 0, Thread!Nothing)>>]]
LEMMA JoinsIs ==
  ASSUME NEW p \in ThreadStates, NEW c \in Clients
  PROVE  Joins(p, Joined(p, c), c)
<1> DEFINE m == Thread!Msg("REGISTER_REQ", 0, Thread!Nothing)
           f == <<m>>
           q == Joined(p, c)
<1>1. /\ p.conn \in [Clients -> Conns] /\ p.cc_next_stream_id \in [Clients -> Nat]
      /\ p.fromCli \in [Clients -> Seq(FromClient)]
  BY DEF ThreadStates
<1>2. m \in FromClient /\ m.type = "REGISTER_REQ"
  BY ItemTypes DEF Thread!Msg, FromClient
<1> HIDE DEF m
<1>3. f \in Seq(FromClient) /\ Elems(f) = {m} /\ Head(f) = m /\ Elems(Tail(f)) = {}
  <2>1. f \in Seq(FromClient) /\ Elems(f) = {m} /\ Head(f) = m
    BY <1>2 DEF Elems
  <2>2. Tail(f) = <<>>
    OBVIOUS
  <2>3. QED
    BY <2>1, <2>2, NothingQueued
<1>4. Asks(f)
  BY <1>2, <1>3 DEF Asks, Asking
<1> DEFINE cn == [p.conn EXCEPT ![c] = "up"]
           nx == [p.cc_next_stream_id EXCEPT ![c] = 1]
           fc == [p.fromCli EXCEPT ![c] = f]
<1>5. q = [p EXCEPT !.conn = cn, !.cc_next_stream_id = nx, !.fromCli = fc]
  BY <1>1 DEF Joined, ThreadStates, m
<1> HIDE DEF f, q
<1>6. /\ cn \in [Clients -> Conns] /\ nx \in [Clients -> Nat] /\ fc \in [Clients -> Seq(FromClient)]
      /\ cn[c] = "up" /\ nx[c] = 1 /\ fc[c] = f
      /\ \A e \in Clients : e # c => cn[e] = p.conn[e] /\ nx[e] = p.cc_next_stream_id[e] /\ fc[e] = p.fromCli[e]
  BY <1>1, <1>3 DEF Conns
<1> HIDE DEF cn, nx, fc
<1>7. /\ q \in ThreadStates /\ q.channels = p.channels /\ q.services = p.services /\ q.toCli = p.toCli
      /\ q.conn = cn /\ q.cc_next_stream_id = nx /\ q.fromCli = fc
  BY <1>5, <1>6 DEF ThreadStates
<1>8. Joins(p, q, c)
  BY <1>4, <1>6, <1>7 DEF Joins
<1>9. QED
  BY <1>8 DEF q

\* The new connection has one message, and no session.
LEMMA JoinOrder ==
  ASSUME NEW g, NEW p, NEW u, NEW r, NEW b, NEW st, NEW d, Runs(g, p, u, r, b, st, d),
         NEW c \in Clients, c \notin OnDemand, p.conn[c] = "none"
  PROVE  Runs(g, Joined(p, c), u, r, b, st, d)
<1> DEFINE q == Joined(p, c)
<1>1. /\ p \in ThreadStates /\ ServicesRouted(p) /\ SidsRouted(g, p) /\ MessagesRouted(g, p) /\ ChannelsRouted(g, p)
      /\ StreamsRouted(g, p, st) /\ g \in Paths /\ p.services \in ServiceMaps
      /\ st \in [Sessions -> StreamTypes] /\ PacketsRouted(g, u) /\ u \in Seq(AmigaPackets) /\ Apart(g)
  BY RunsTypes
<1>2. Joins(p, q, c)
  BY <1>1, JoinsIs
<1> HIDE DEF q
<1>3. /\ q \in ThreadStates /\ q.channels = p.channels /\ q.services = p.services /\ q.toCli = p.toCli
      /\ q.conn[c] = "up" /\ q.cc_next_stream_id[c] = 1 /\ Asks(q.fromCli[c])
      /\ \A e \in Clients : e # c => /\ q.conn[e] = p.conn[e] /\ q.fromCli[e] = p.fromCli[e]
                                     /\ q.cc_next_stream_id[e] = p.cc_next_stream_id[e]
  BY <1>2 DEF Joins
<1>4. Registered(q) = Registered(p) /\ c \notin Registered(p)
  <2>1. \A s \in DOMAIN p.services : p.services[s] \in Clients /\ p.conn[p.services[s]] # "none"
    BY <1>1 DEF ServiceMaps, ServicesRouted
  <2>2. QED
    BY <1>3, <2>1 DEF Registered
<1>5. \A n \in Sessions : g.cl[n] # NoOne => g.cl[n] # c /\ g.cl[n] \in Clients
  BY <1>1, <1>4 DEF SidsRouted, Paths
<1>6. p.toCli[c] = <<>> /\ p.fromCli[c] = <<>>
  BY <1>1 DEF ServicesRouted
<1>7. MessagesRouted(g, q)
  <2>1. ASSUME NEW e \in Clients
        PROVE  Said(g, e, q.toCli[e], q.cc_next_stream_id[e]) /\ Said(g, e, q.fromCli[e], q.cc_next_stream_id[e])
    <3>1. CASE e = c
      BY <1>3, <1>6, <3>1, NothingQueued DEF Said, Asks, Registers
    <3>2. CASE e # c
      BY <1>1, <1>3, <3>2 DEF MessagesRouted
    <3>3. QED
      BY <3>1, <3>2
  <2>2. QED
    BY <2>1 DEF MessagesRouted
<1>8. SidsRouted(g, q)
  <2>1. \A e \in Clients : 1 <= q.cc_next_stream_id[e]
    BY <1>1, <1>3 DEF SidsRouted
  <2>2. QED
    BY <1>1, <1>3, <1>4, <1>5, <2>1 DEF SidsRouted
<1>9. ServicesRouted(q)
  <2>1. ASSUME NEW s \in DOMAIN q.services PROVE s = Name[q.services[s]] /\ q.conn[q.services[s]] # "none"
    <3>1. p.services[s] \in Clients /\ s \in DOMAIN p.services
      BY <1>1, <1>3 DEF ServiceMaps
    <3>2. QED
      BY <1>1, <1>3, <3>1 DEF ServicesRouted
  <2>2. \A e \in OnDemand : q.conn[e] # "none" => e \in Registered(q)
    BY <1>1, <1>3, <1>4, ClientAssumption DEF ServicesRouted
  <2>3. ASSUME NEW e \in Clients
        PROVE  /\ Asking(q.fromCli[e]) =>
                    /\ e \notin Registered(q) /\ ~Asking(Tail(q.fromCli[e]))
                    /\ Head(q.fromCli[e]).type = "REGISTER_REQ"
                    /\ \A m \in Elems(q.toCli[e]) : m.type # "REGISTER_RES"
               /\ Refused(q.toCli[e]) => e \notin Registered(q)
               /\ q.conn[e] = "none" => q.toCli[e] = <<>> /\ q.fromCli[e] = <<>>
    <3>1. CASE e = c
      BY <1>3, <1>4, <1>6, <3>1, NothingQueued DEF Asks, Refused
    <3>2. CASE e # c
      BY <1>1, <1>3, <1>4, <3>2 DEF ServicesRouted
    <3>3. QED
      BY <3>1, <3>2
  <2>4. QED
    BY <2>1, <2>2, <2>3 DEF ServicesRouted
<1>10. StreamsRouted(g, q, st)
  BY <1>1, <1>3, <1>5 DEF StreamsRouted
<1>11. ASSUME NEW n \in Sessions PROVE Lives(g, q, u, r, b, st, d, n)
  <2>1. Linked(g, n, q) => Linked(g, n, p)
    BY <1>3, <1>5 DEF Linked
  <2>2. OnDown(g, n, p, u, q, u)
    BY <1>3, <2>1, OnUSame, PassesSame DEF OnDown, Flows
  <2>3. g.cl[n] # NoOne => q.fromCli[g.cl[n]] = p.fromCli[g.cl[n]]
    BY <1>3, <1>5
  <2>4. Assoc(q, g.id[n]) => Assoc(p, g.id[n]) /\ g.cl[n] # NoOne
    <3>1. ASSUME Assoc(p, g.id[n]) PROVE g.cl[n] # NoOne
      <4>1. PICK k : IsOf(g, p, g.id[n], k)
        BY <3>1, SessionOf DEF Assoc
      <4>2. QED
        BY <4>1, ClientAssumption DEF IsOf
    <3>2. QED
      BY <1>3, <3>1 DEF Assoc
  <2>5. OnUp(g, n, p, q)
    BY <1>3, <2>3, <2>4, PassesSame DEF OnUp, Queue, Passes
  <2>6. QED
    BY <1>3, <2>2, <2>5, OnUSame, SessionOn DEF Onward
<1>12. ThreadRouted(g, q)
  BY <1>1, <1>3, <1>7, <1>8, <1>9 DEF ThreadRouted, ChannelsRouted
<1>13. Runs(g, q, u, r, b, st, d)
  BY <1>1, <1>3, <1>10, <1>11, <1>12, RunsAgain
<1>14. QED
  BY <1>13 DEF q
=============================================================================
