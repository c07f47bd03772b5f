---------------------------- MODULE MCA314Channels ----------------------------
(* The A314 channels on small instances. *)
EXTENDS A314Channels, TLC

CONSTANTS k1, k2, c1, c2

\* every application asks for the service of the one client
OneName == [c \in Clients |-> "picmd"]
OneService == [k \in Keys |-> "picmd"]

KeySymmetry == Permutations({k1, k2})

\* how many requests of each kind an application makes
Each(connect, rd, short, write, eos, reset) ==
  "CONNECT" :> connect @@ "READ" :> rd @@ "SHORT" :> short @@ "WRITE" :> write
    @@ "EOS" :> eos @@ "RESET" :> reset
Talk == Each(1, 2, 1, 2, 1, 0)
Share == Each(1, 0, 0, 1, 0, 1)
Live == Each(1, 1, 0, 0, 1, 1)
Reopen == Each(2, 0, 0, 0, 0, 0)
=============================================================================
