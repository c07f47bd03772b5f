---------------------------- MODULE MCPistormBus ----------------------------
(* Small instances of PistormBus: two words of memory, two threads.          *)
EXTENDS PistormBus, TLC

CONSTANTS cpu, a314

MCAddrs == 0 .. 3
MCBytes == {0, 1}
Op(kind, width, addr, data) == [kind |-> kind, width |-> width, addr |-> addr, data |-> data]
Plain(kind) == Op(kind, 8, 0, << >>)

(* Without batching: long and byte accesses that overlap, and a reset. *)
DirectOps == (cpu :> {Op("write", 32, 0, <<1, 0, 0, 1>>), Op("read", 32, 0, << >>)})
          @@ (a314 :> {Op("write", 8, 1, <<1>>), Op("read", 8, 1, << >>), Plain("pulse")})

(* With batching: the CPU thread, and a keyboard thread that resets.  Its R  *)
(* key (emulator.c:672) also reads the reset vectors (m68kcpu.c:1165) and    *)
(* may read and write registers (amiga-platform.c:742), all by way of        *)
(* g_opsq: that is sharing the queue, as in SharedOps.                       *)
BatchOps == (cpu :> {Op("write", 16, 0, <<0, 1>>), Op("write", 8, 0, <<1>>),
                     Op("read", 16, 0, << >>), Plain("status"), Plain("flush")})
         @@ (a314 :> {Plain("pulse"), Plain("reset_sm")})

(* Two threads that write with batching, each to its own word. *)
SharedOps == (cpu :> {Op("write", 16, 0, <<0, 1>>), Op("read", 16, 0, << >>)})
          @@ (a314 :> {Op("write", 8, 2, <<1>>), Op("read", 8, 2, << >>)})
=============================================================================
