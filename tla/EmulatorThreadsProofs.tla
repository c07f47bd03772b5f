------------------------- MODULE EmulatorThreadsProofs -------------------------
(***************************************************************************)
(* The places of the threads of EmulatorThreads, for any number of         *)
(* configuration switches.                                                 *)
(***************************************************************************)
EXTENDS EmulatorThreads, TLAPS

Places == {"switch_config", "load", "set up", "create ipl", "create kbd", "create mouse",
           "create cpu", "join", "close", "join kbd", "join mouse", "join ipl", "ended",
           "crashed"}

(***************************************************************************)
(* TypeOK is not inductive.  The threads of the pass that main prepares    *)
(* are created in turn, the CPU thread runs only while main waits for it,  *)
(* and a switch is asked for only when another pass is to come: main goes  *)
(* back to switch_config for no other.                                     *)
(***************************************************************************)
Preparing == {"switch_config", "load", "set up", "create ipl"}
NotYet ==
  /\ main \in Places
  /\ main \in Preparing => ipl[run] = "none"
  /\ main \in Preparing \union {"create kbd"} => kbd[run] = "none"
  /\ main \in Preparing \union {"create kbd", "create mouse", "create cpu"} => cpu = "none"
  /\ load_new_config => run < MaxSwitches \/ main \in {"switch_config", "crashed"}
ThreadsInv == TypeOK /\ NotYet

USE ThreadsAssumption DEF Runs, Preparing

LEMMA RunType == TypeOK => run \in Int
  BY DEF TypeOK

LEMMA InitThreads == Init => ThreadsInv
<1> SUFFICES ASSUME Init PROVE ThreadsInv
  OBVIOUS
<1>2. NoThreads \in [Runs -> {"none", "check", "done"}] /\ \A r \in Runs : NoThreads[r] = "none"
  BY DEF NoThreads
<1>3. /\ NoThreads \in [Runs -> {"none", "grab", "check", "poll", "end", "done"}]
      /\ NoThreads \in [Runs -> {"none", "poll", "done"}]
  BY DEF NoThreads
<1>4. TypeOK
  <2>1. cfg \in BOOLEAN /\ end_signal \in BOOLEAN /\ emulator_exiting \in BOOLEAN /\ load_new_config \in BOOLEAN
    BY Zenon DEF Init
  <2>2. /\ cpu = "none" /\ run \in Runs /\ run = 0 /\ mouse_fd = "-1"
        /\ ipl = NoThreads /\ kbd = NoThreads /\ mouse = NoThreads
    BY DEF Init
  <2> QED BY <1>2, <1>3, <2>1, <2>2 DEF TypeOK
<1>5. NotYet
  BY <1>2 DEF Init, NotYet, Places
<1> QED BY <1>4, <1>5 DEF ThreadsInv

\* Every step of main, of a signal and of a thread keeps the places.
LEMMA NextThreads == ThreadsInv /\ [Next]_vars => ThreadsInv'
<1> SUFFICES ASSUME ThreadsInv, [Next]_vars PROVE ThreadsInv'
  OBVIOUS
<1> USE DEF ThreadsInv, TypeOK, NotYet, MainAt, threads, flags, Places
<1>1. CASE FreeConfig
  BY <1>1 DEF FreeConfig
<1>2. CASE LoadConfig
  BY <1>2 DEF LoadConfig
<1>3. CASE SetUp
  BY <1>3 DEF SetUp
<1>4. CASE CreateIpl
  <2>1. ipl' \in [Runs -> {"none", "check", "done"}] /\ \A r \in Runs : r # run => ipl'[r] = ipl[r]
    BY <1>4 DEF CreateIpl
  <2>2. TypeOK'
    <3>1. UNCHANGED <<cpu, run, mouse, mouse_fd, flags, cfg, kbd>> /\ main' # "join" /\ cpu # "run"
      BY <1>4 DEF CreateIpl
    <3>2. /\ cfg' \in BOOLEAN /\ end_signal' \in BOOLEAN
          /\ emulator_exiting' \in BOOLEAN /\ load_new_config' \in BOOLEAN
      BY <3>1, Zenon
    <3>3. run \in Int
      BY RunType
    <3> HIDE DEF NotYet
    <3> QED BY <2>1, <3>1, <3>2, <3>3
  <2>3. NotYet'
    BY <1>4, <2>1 DEF CreateIpl
  <2> QED BY <2>2, <2>3
<1>5. CASE CreateKbd
  <2>1. /\ kbd' \in [Runs -> {"none", "grab", "check", "poll", "end", "done"}]
        /\ \A r \in Runs : r # run => kbd'[r] = kbd[r]
    BY <1>5 DEF CreateKbd
  <2>2. TypeOK'
    <3>1. UNCHANGED <<cpu, run, mouse, mouse_fd, flags, cfg, ipl>> /\ main' # "join" /\ cpu # "run"
      BY <1>5 DEF CreateKbd
    <3>2. /\ cfg' \in BOOLEAN /\ end_signal' \in BOOLEAN
          /\ emulator_exiting' \in BOOLEAN /\ load_new_config' \in BOOLEAN
      BY <3>1, Zenon
    <3>3. run \in Int
      BY RunType
    <3> HIDE DEF NotYet
    <3> QED BY <2>1, <3>1, <3>2, <3>3
  <2>3. NotYet'
    BY <1>5, <2>1 DEF CreateKbd
  <2> QED BY <2>2, <2>3
<1>6. CASE CreateMouse
  BY <1>6 DEF CreateMouse
<1>7. CASE CreateCpu
  BY <1>7 DEF CreateCpu
<1>8. CASE JoinCpu
  BY <1>8 DEF JoinCpu, CpuJoined
<1>9. CASE SwitchConfig
  BY <1>9 DEF SwitchConfig, Closed
<1>10. CASE Close
  BY <1>10 DEF Close, Closed
<1>11. CASE JoinKbd
  BY <1>11 DEF JoinKbd
<1>12. CASE JoinMouse
  BY <1>12 DEF JoinMouse
<1>13. CASE JoinIpl
  BY <1>13 DEF JoinIpl
<1>14. CASE SigInt
  BY <1>14 DEF SigInt
<1>15. CASE GuestSwitches
  BY <1>15 DEF GuestSwitches
<1>16. CASE CpuEnds
  BY <1>16 DEF CpuEnds
<1>17. ASSUME NEW r \in Runs, IplEnds(r) PROVE ThreadsInv'
  <2>1. /\ ipl' \in [Runs -> {"none", "check", "done"}]
        /\ ipl[r] # "none" /\ \A p \in Runs : p # r => ipl'[p] = ipl[p]
    BY <1>17 DEF IplEnds
  <2>2. TypeOK'
    BY <1>17, <2>1 DEF IplEnds
  <2>3. NotYet'
    BY <1>17, <2>1 DEF IplEnds
  <2> QED BY <2>2, <2>3
<1>18. ASSUME NEW r \in Runs, KbdStep(r) PROVE ThreadsInv'
  <2> DEFINE Stirs == /\ kbd' \in [Runs -> {"none", "grab", "check", "poll", "end", "done"}]
                      /\ kbd[r] # "none" /\ \A p \in Runs : p # r => kbd'[p] = kbd[p]
  <2>1. CASE KbdStarts(r)
    <3>1. Stirs
      BY <2>1 DEF KbdStarts, KbdAt
    <3> QED BY <3>1, <2>1 DEF KbdStarts, KbdAt
  <2>2. CASE KbdChecks(r)
    <3>1. Stirs
      BY <2>2 DEF KbdChecks, KbdAt
    <3>2. TypeOK'
      BY <3>1, <2>2 DEF KbdChecks, KbdAt
    <3>3. NotYet'
      BY <3>1, <2>2 DEF KbdChecks, KbdAt
    <3> QED BY <3>2, <3>3
  <2>3. CASE Polled(r)
    <3>1. Stirs
      BY <2>3 DEF Polled, KbdAt
    <3>2. TypeOK'
      <4>1. UNCHANGED <<main, cpu, ipl, mouse, run, cfg, mouse_fd, flags>>
        BY <2>3 DEF Polled, KbdAt
      <4> QED BY <3>1, <4>1
    <3>3. NotYet'
      BY <3>1, <2>3 DEF Polled, KbdAt
    <3> QED BY <3>2, <3>3
  <2>4. CASE QuitKey(r)
    <3>1. Stirs
      BY <2>4 DEF QuitKey, KbdAt
    <3> QED BY <3>1, <2>4 DEF QuitKey, KbdAt
  <2>5. CASE KbdEnds(r)
    <3>1. Stirs
      BY <2>5 DEF KbdEnds, KbdAt
    <3> QED BY <3>1, <2>5 DEF KbdEnds, KbdAt
  <2>6. CASE KbdCrashes(r)
    BY <2>6 DEF KbdCrashes
  <2> QED BY <1>18, <2>1, <2>2, <2>3, <2>4, <2>5, <2>6 DEF KbdStep
<1>19. ASSUME NEW r \in Runs, MouseEnds(r) PROVE ThreadsInv'
  <2>1. TypeOK'
    BY <1>19 DEF MouseEnds
  <2>2. NotYet'
    BY <1>19 DEF MouseEnds
  <2> QED BY <2>1, <2>2
<1>20. CASE UNCHANGED vars
  <2>1. TypeOK'
    BY <1>20 DEF vars
  <2>2. NotYet'
    BY <1>20 DEF vars
  <2> QED BY <2>1, <2>2
<1> QED
  BY <1>1, <1>2, <1>3, <1>4, <1>5, <1>6, <1>7, <1>8, <1>9, <1>10, <1>11, <1>12, <1>13, <1>14,
     <1>15, <1>16, <1>17, <1>18, <1>19, <1>20 DEF Next, MainStep, ThreadStep

\* main and its threads are where the code can put them, whatever is switched,
\* quit or crashed, for any number of switches.
THEOREM ThreadsTypes == Spec => []TypeOK
<1>1. ThreadsInv => TypeOK
  BY DEF ThreadsInv
<1> QED BY <1>1, InitThreads, NextThreads, PTL DEF Spec
=============================================================================
