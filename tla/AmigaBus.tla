------------------------------ MODULE AmigaBus ------------------------------
(* What the ps_* functions promise the threads of the emulator: the Amiga's  *)
(* memory, on which every call takes effect at one instant between the call  *)
(* and its return, until the first bus cycle that is given up.               *)
EXTENDS Naturals, Sequences, FiniteSets

CONSTANTS
    Users,      \* the threads that call ps_*
    Addrs,      \* the byte addresses of the Amiga
    Ops,        \* the calls each of them makes: [kind, addr, data, width]
    Bytes       \* the values of a byte

VARIABLES
    memory,     \* the byte at each address
    asked,      \* the call each user is in
    performed,  \* the users whose call has taken effect
    answer,     \* what the call of such a user will return
    broken      \* a bus cycle has been given up: nothing is promised any more

vars == <<memory, asked, performed, answer, broken>>

(* The bytes an operation covers, most significant first. *)
Covers(o) == {o.addr + i : i \in 0 .. (o.width \div 8) - 1}
Written(m, o) ==
    IF o.kind # "write" THEN m
    ELSE [a \in Addrs |-> IF a \in Covers(o) THEN o.data[a - o.addr + 1] ELSE m[a]]
Seen(m, o) ==
    IF o.kind # "read" THEN << >>
    ELSE [i \in 1 .. (o.width \div 8) |-> m[o.addr + i - 1]]

Init ==
    /\ memory \in [Addrs -> Bytes]
    /\ asked = [u \in Users |-> << >>]
    /\ performed = {}
    /\ answer = [u \in Users |-> << >>]
    /\ broken = FALSE

(* A thread calls one of ps_read_*, ps_write_*, ps_pulse_reset... *)
Ask(u) ==
    /\ asked[u] = << >>
    /\ \E o \in Ops[u] : asked' = [asked EXCEPT ![u] = <<o>>]
    /\ UNCHANGED <<memory, performed, answer, broken>>

(* The whole operation, the two words of a 32-bit one included, happens. *)
Perform(u) ==
    /\ asked[u] # << >> /\ u \notin performed
    /\ performed' = performed \union {u}
    /\ answer' = [answer EXCEPT ![u] = Seen(memory, Head(asked[u]))]
    /\ memory' = Written(memory, Head(asked[u]))
    /\ UNCHANGED <<asked, broken>>

(* The call returns its answer. *)
Return(u) ==
    /\ u \in performed
    /\ performed' = performed \ {u}
    /\ asked' = [asked EXCEPT ![u] = << >>]
    /\ answer' = [answer EXCEPT ![u] = << >>]
    /\ UNCHANGED <<memory, broken>>

Next == broken' \/ \E u \in Users : Ask(u) \/ Perform(u) \/ Return(u)

Spec == Init /\ [][Next]_vars
=============================================================================
