------------------------------ MODULE A314Common ------------------------------
(***************************************************************************)
(* What the modules of the A314 channels share: the applications and the   *)
(* clients, the packets of the rings and the bounds of the models.         *)
(***************************************************************************)
EXTENDS Integers, Sequences, FiniteSets

CONSTANTS
  Keys,        \* what finds a socket: the calling task and its socket number
  Clients,     \* programs that serve channels
  OnDemand,    \* the clients that the A314 thread forks when they are asked for
  Name,        \* Name[c]: the service a client registers
  ServiceOf,   \* ServiceOf[k]: the service the application of a key asks for
  NoOne,       \* no request, no client
  NumIds,      \* stream ids: the odd bytes (128)
  A2RCap, R2ACap,  \* packets a ring has room for
  Budget,      \* bound: Budget[op] requests of each kind for a key
  Answers,     \* what clients answer to a CONNECT: 0 (accepted), 3 (unknown)
  Speaks,      \* what clients send of their own accord: DATA, EOS, RESET
  MaxSends,    \* bound: data messages of a client for a stream
  MaxCloses,   \* bound: connections that clients close or lose
  MaxReboots   \* bound: resets of the Amiga

Ops == {"CONNECT", "READ", "SHORT", "WRITE", "EOS", "RESET"}

ASSUME ClientAssumption == OnDemand \subseteq Clients /\ NoOne \notin Clients
ASSUME CapAssumption == A2RCap \in Nat \ {0} /\ R2ACap \in Nat \ {0}
ASSUME BudgetAssumption == Budget \in [Ops -> Nat]
ASSUME IdAssumption ==
  NumIds \in Nat \ {0} /\ IsFiniteSet(Keys) /\ Cardinality(Keys) < NumIds
ASSUME BoundAssumption == MaxCloses \in Nat /\ MaxReboots \in Nat
ASSUME AnswerAssumption == Answers \subseteq Nat /\ Speaks \subseteq {"DATA", "EOS", "RESET"}

(***************************************************************************)
(* The n-th request of a kind that the application of a key makes; a SHORT *)
(* is a READ whose buffer is smaller than any packet.  A session is what a *)
(* CONNECT of an application starts.                                       *)
(***************************************************************************)
Requests == UNION {[key : Keys, op : {o}, n : 1..Budget[o]] : o \in Ops}
Sessions == {r \in Requests : r.op = "CONNECT"}
Ids == 1..NumIds
ASSUME RequestAssumption == NoOne \notin Requests

\* the contents of a packet or a message, as far as it matters: a result, an item of data
Item(n, k) == [session |-> n, number |-> k]
Result(k) == Item(NoOne, k)
Nothing == Result(0)
Items == [session : Sessions \union {NoOne}, number : Nat]

Pkt(type, id, data) == [type |-> type, id |-> id, data |-> data]
\* what is left of a queue when the elements of S are unlinked, and when x is
WithoutAll(q, S) ==
  LET left[n \in 0..Len(q)] == CASE n = 0 -> <<>>
                                  [] n > 0 /\ q[n] \in S -> left[n - 1]
                                  [] OTHER -> Append(left[n - 1], q[n])
  IN left[Len(q)]
Without(q, x) == WithoutAll(q, {x})
Drop(f, x) == [i \in DOMAIN f \ {x} |-> f[i]]
Extend(f, x, v) == [i \in DOMAIN f \union {x} |-> IF i = x THEN v ELSE f[i]]
InQueue(x, q) == \E k \in DOMAIN q : q[k] = x
=============================================================================
