--------------------------- MODULE EmulatorThreads ---------------------------
(*************************************************************************)
(* How the emulator process (src/emulator.c) starts, switches to another  *)
(* configuration and ends.  main sets up, creates an IPL, a keyboard, a   *)
(* mouse and a CPU thread, and joins the CPU thread, which ends when      *)
(* another configuration or the end is asked for.  For another            *)
(* configuration main goes back to switch_config without joining the      *)
(* others: its passes are numbered here, and each has its threads.        *)
(*                                                                       *)
(* The work of the threads is not here: Interrupts and PistormBus have    *)
(* it.  What the keyboard thread reads from cfg is, because main frees it.*)
(*************************************************************************)
EXTENDS Integers

CONSTANT MaxSwitches  \* bound: configuration switches

ASSUME ThreadsAssumption == MaxSwitches \in Nat

VARIABLES
  main, cpu,          \* where main and the CPU thread are
  ipl, kbd, mouse,    \* where the threads of each pass are
  run,                \* the passes through switch_config so far
  cfg,                \* cfg points to a configuration
  mouse_fd,           \* "-1", "open", or "closed" but not reset to -1
  end_signal, emulator_exiting, load_new_config

threads == <<ipl, kbd, mouse>>
flags == <<end_signal, emulator_exiting, load_new_config>>
vars == <<main, cpu, threads, run, cfg, mouse_fd, flags>>

Runs == 0..MaxSwitches
NoThreads == [r \in Runs |-> "none"]

Init ==
  /\ main = "switch_config" /\ cpu = "none" /\ run = 0
  /\ ipl = NoThreads /\ kbd = NoThreads /\ mouse = NoThreads
  /\ cfg = FALSE /\ mouse_fd = "-1"
  /\ end_signal = FALSE /\ emulator_exiting = FALSE /\ load_new_config = FALSE

-----------------------------------------------------------------------------
(* main.                                                                 *)

MainAt(from, to) == main = from /\ main' = to

\* at a switch the old configuration is freed, and cfg NULL, before the new
\* one is loaded
FreeConfig ==
  /\ MainAt("switch_config", "load")
  /\ load_new_config' = FALSE
  /\ cfg' = (cfg /\ ~load_new_config)
  /\ UNCHANGED <<cpu, threads, run, mouse_fd, end_signal, emulator_exiting>>

LoadConfig ==
  /\ MainAt("load", "set up")
  /\ cfg' = TRUE
  /\ UNCHANGED <<cpu, threads, run, mouse_fd, flags>>

\* the devices are opened, if the configuration has a mouse; SIGINT is
\* handled from here on
SetUp ==
  /\ MainAt("set up", "create ipl")
  /\ mouse_fd' \in {mouse_fd, "open", "-1"}
  /\ UNCHANGED <<cpu, threads, run, cfg, flags>>

CreateIpl ==
  /\ MainAt("create ipl", "create kbd")
  /\ ipl' = [ipl EXCEPT ![run] = "check"]
  /\ UNCHANGED <<cpu, kbd, mouse, run, cfg, mouse_fd, flags>>

CreateKbd ==
  /\ MainAt("create kbd", "create mouse")
  /\ kbd' = [kbd EXCEPT ![run] = "grab"]
  /\ UNCHANGED <<cpu, ipl, mouse, run, cfg, mouse_fd, flags>>

CreateMouse ==
  /\ MainAt("create mouse", "create cpu")
  /\ mouse' = [mouse EXCEPT ![run] = IF mouse_fd = "-1" THEN "none" ELSE "poll"]
  /\ UNCHANGED <<cpu, ipl, kbd, run, cfg, mouse_fd, flags>>

CreateCpu ==
  /\ MainAt("create cpu", "join")
  /\ cpu' = "run"
  /\ UNCHANGED <<threads, run, cfg, mouse_fd, flags>>

\* pthread_join(cpu_tid); then everybody else is told to end
CpuJoined_Always == TRUE   \* a mutant
CpuJoined == cpu = "ended"
JoinCpu ==
  /\ MainAt("join", "close")
  /\ CpuJoined
  /\ emulator_exiting' = TRUE
  /\ UNCHANGED <<cpu, threads, run, cfg, mouse_fd, end_signal,
                 load_new_config>>

\* mouse_fd is closed and keeps its value; goto switch_config joins nobody
Closed == IF mouse_fd = "-1" THEN "-1" ELSE "closed"
SwitchConfig ==
  /\ MainAt("close", "switch_config")
  /\ load_new_config
  /\ mouse_fd' = Closed
  /\ cpu' = "none" /\ run' = run + 1
  /\ UNCHANGED <<threads, cfg, flags>>

Close ==
  /\ MainAt("close", "join kbd")
  /\ ~load_new_config
  /\ mouse_fd' = Closed
  /\ UNCHANGED <<cpu, threads, run, cfg, flags>>

JoinKbd ==
  /\ MainAt("join kbd", "join mouse")
  /\ kbd[run] = "done"
  /\ UNCHANGED <<cpu, threads, run, cfg, mouse_fd, flags>>

JoinMouse ==
  /\ MainAt("join mouse", "join ipl")
  /\ mouse[run] \in {"none", "done"}
  /\ UNCHANGED <<cpu, threads, run, cfg, mouse_fd, flags>>

JoinIpl ==
  /\ MainAt("join ipl", "ended")
  /\ ipl[run] = "done"
  /\ UNCHANGED <<cpu, threads, run, cfg, mouse_fd, flags>>

MainStep ==
  \/ FreeConfig \/ LoadConfig \/ SetUp \/ CreateIpl \/ CreateKbd
  \/ CreateMouse \/ CreateCpu \/ JoinCpu \/ SwitchConfig \/ Close
  \/ JoinKbd \/ JoinMouse \/ JoinIpl

Handled == run > 0 \/ main \notin {"switch_config", "load", "set up"}
SigInt ==
  /\ Handled
  /\ end_signal' = TRUE /\ emulator_exiting' = TRUE
  /\ UNCHANGED <<main, cpu, threads, run, cfg, mouse_fd, load_new_config>>

-----------------------------------------------------------------------------
(* The CPU thread.                                                       *)

\* the program writes PI_CMD_SWITCHCONFIG
GuestSwitches ==
  /\ cpu = "run" /\ run < MaxSwitches
  /\ load_new_config' = TRUE
  /\ UNCHANGED <<main, cpu, threads, run, cfg, mouse_fd, end_signal,
                 emulator_exiting>>

LoopEnds_SwitchOnly == load_new_config   \* a mutant
LoopEnds == load_new_config \/ end_signal
CpuEnds ==
  /\ cpu = "run" /\ LoopEnds
  /\ cpu' = "ended"
  /\ UNCHANGED <<main, threads, run, cfg, mouse_fd, flags>>

-----------------------------------------------------------------------------
(* The IPL, keyboard and mouse threads of a pass.                        *)

Exiting_OnSignal == end_signal   \* a mutant
Exiting == emulator_exiting \/ end_signal

IplEnds(r) ==
  /\ ipl[r] = "check" /\ Exiting
  /\ ipl' = [ipl EXCEPT ![r] = "done"]
  /\ UNCHANGED <<main, cpu, kbd, mouse, run, cfg, mouse_fd, flags>>

KbdAt(r, from, to) ==
  /\ kbd[r] = from /\ kbd' = [kbd EXCEPT ![r] = to]
  /\ UNCHANGED <<main, cpu, ipl, mouse, run, cfg, mouse_fd>>

\* the keyboard may be grabbed first: cfg->keyboard_grab
KbdStarts(r) == cfg /\ KbdAt(r, "grab", "check") /\ UNCHANGED flags

KbdChecks(r) ==
  /\ KbdAt(r, "check", IF Exiting THEN "end" ELSE "poll")
  /\ UNCHANGED flags

\* a second passes or a key is read, which looks at cfg; or the node hangs up
Polled(r) ==
  /\ \/ cfg /\ KbdAt(r, "poll", "check")
     \/ KbdAt(r, "poll", "end")
  /\ UNCHANGED flags

\* the q key
QuitKey(r) ==
  /\ cfg /\ KbdAt(r, "poll", "end")
  /\ end_signal' = TRUE
  /\ UNCHANGED <<emulator_exiting, load_new_config>>

\* it may ungrab the keyboard
KbdEnds(r) == cfg /\ KbdAt(r, "end", "done") /\ UNCHANGED flags

\* cfg is NULL while main is between free_config_file and load_config_file:
\* a keyboard thread of the pass before that looks at it ends the process
KbdCrashes(r) ==
  /\ ~cfg /\ kbd[r] \in {"grab", "poll", "end"}
  /\ main' = "crashed"
  /\ UNCHANGED <<cpu, threads, run, cfg, mouse_fd, flags>>

KbdStep(r) ==
  \/ KbdStarts(r) \/ KbdChecks(r) \/ Polled(r) \/ QuitKey(r) \/ KbdEnds(r)
  \/ KbdCrashes(r)

MouseEnds(r) ==
  /\ mouse[r] = "poll" /\ Exiting
  /\ mouse' = [mouse EXCEPT ![r] = "done"]
  /\ UNCHANGED <<main, cpu, ipl, kbd, run, cfg, mouse_fd, flags>>

-----------------------------------------------------------------------------
Up == main \notin {"ended", "crashed"}

ThreadStep(r) == IplEnds(r) \/ KbdStep(r) \/ MouseEnds(r)

Next ==
  /\ Up
  /\ \/ MainStep \/ SigInt \/ GuestSwitches \/ CpuEnds
     \/ \E r \in Runs : ThreadStep(r)

Spec == Init /\ [][Next]_vars

\* Each thread is scheduled, and poll returns within a second.
Fairness ==
  /\ WF_vars(Up /\ MainStep) /\ WF_vars(Up /\ CpuEnds)
  /\ \A r \in Runs :
       /\ WF_vars(Up /\ IplEnds(r)) /\ WF_vars(Up /\ KbdStep(r))
       /\ WF_vars(Up /\ MouseEnds(r))

FairSpec == Spec /\ Fairness

-----------------------------------------------------------------------------
(* Properties.                                                           *)

\* Type invariant: the places of main and its threads; a thread of a pass
\* exists only from that pass on, and the CPU thread only while main waits
\* for it (emulator.c:944-1160).
TypeOK ==
  /\ cpu \in {"none", "run", "ended"} /\ run \in Runs
  /\ ipl \in [Runs -> {"none", "check", "done"}]
  /\ kbd \in [Runs -> {"none", "grab", "check", "poll", "end", "done"}]
  /\ mouse \in [Runs -> {"none", "poll", "done"}]
  /\ mouse_fd \in {"-1", "open", "closed"}
  /\ cfg \in BOOLEAN /\ end_signal \in BOOLEAN
  /\ emulator_exiting \in BOOLEAN /\ load_new_config \in BOOLEAN
  /\ \A r \in Runs : r > run => ipl[r] = "none" /\ kbd[r] = "none"
  /\ cpu = "run" => main \in {"join", "crashed"}

\* After SIGINT or the q key the process ends, in the middle of a
\* configuration switch too (emulator.c:678, 774-779, 1120-1160).
EndsWhenAsked == end_signal ~> ~Up

\* The threads of a pass that main has left end, though nobody joins them
\* (emulator.c:1128-1146): they do not pile up from switch to switch.
Gone(r) ==
  /\ ipl[r] = "done" /\ kbd[r] = "done" /\ mouse[r] \in {"none", "done"}
LeftoversEnd == \A r \in Runs : run > r ~> (Gone(r) \/ ~Up)
=============================================================================
