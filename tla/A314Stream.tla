------------------------------ MODULE A314Stream ------------------------------
(***************************************************************************)
(* What the A314 promises of a stream between an application and the       *)
(* client that serves it, with nothing of rings, packets or queues: each   *)
(* end sends numbered items and may then end its direction; the other end  *)
(* gets the items in order, at any distance, and is told of the end after  *)
(* the last of them.  A reset of either end stops the stream anywhere, so  *)
(* nothing has to be delivered.                                            *)
(***************************************************************************)
EXTENDS Integers, Sequences

CONSTANT Streams

Ends == {"app", "client"}
Other(e) == IF e = "app" THEN "client" ELSE "app"
Directions == Streams \X Ends   \* a stream and the end that sends

VARIABLES
  sent,   \* direction -> how many items its sender has sent
  got,    \* direction -> the numbers of the items its receiver has got
  ended,  \* directions whose sender has said that no more will come
  told    \* directions whose receiver has been told so

vars == <<sent, got, ended, told>>

Init ==
  /\ sent = [d \in Directions |-> 0]
  /\ got = [d \in Directions |-> <<>>]
  /\ ended = {} /\ told = {}

Send(d) ==
  /\ d \notin ended
  /\ sent' = [sent EXCEPT ![d] = @ + 1]
  /\ UNCHANGED <<got, ended, told>>

Get(d) ==
  /\ Len(got[d]) < sent[d] /\ d \notin told
  /\ got' = [got EXCEPT ![d] = Append(@, Len(@) + 1)]
  /\ UNCHANGED <<sent, ended, told>>

End(d) ==
  /\ ended' = ended \union {d}
  /\ UNCHANGED <<sent, got, told>>

TellEnd(d) ==
  /\ d \in ended /\ Len(got[d]) = sent[d]
  /\ told' = told \union {d}
  /\ UNCHANGED <<sent, got, ended>>

(***************************************************************************)
(* A step of one end may also be what the other end answers at once: a     *)
(* client that is told EOS ends its own direction in the same step.        *)
(***************************************************************************)
TellAndEnd(n, e) ==
  /\ <<n, Other(e)>> \in ended /\ Len(got[<<n, Other(e)>>]) = sent[<<n, Other(e)>>]
  /\ told' = told \union {<<n, Other(e)>>}
  /\ ended' = ended \union {<<n, e>>}
  /\ UNCHANGED <<sent, got>>

Next ==
  \/ \E d \in Directions : Send(d) \/ Get(d) \/ End(d) \/ TellEnd(d)
  \/ \E n \in Streams, e \in Ends : TellAndEnd(n, e)

Spec == Init /\ [][Next]_vars

-----------------------------------------------------------------------------
(* An end that is told that no more comes has got all that was sent. *)
ToldAfterAll == \A d \in told : d \in ended /\ Len(got[d]) = sent[d]
=============================================================================
