--------------------------- MODULE InterruptsProofs ---------------------------
(*************************************************************************)
(* Proofs about Interrupts, for any set of levels and any number of       *)
(* presses and pulses: the globals keep their types and one pulse at a    *)
(* time holds the lock, and the IPL thread never finds more resets than   *)
(* the Amiga's user made.                                                 *)
(*************************************************************************)
EXTENDS Interrupts, TLAPS

\* The initial state is well typed.
LEMMA InitTyped == Init => TypeOK
<1> SUFFICES ASSUME Init
             PROVE  TypeOK
  OBVIOUS
<1>1. Places /\ Counters
  BY DEF Init, Places, Counters
<1>2. Interrupting
  BY DEF Init, Interrupting
<1>3. Flags
  <2>1. pins \in [reset : BOOLEAN, ipl : BOOLEAN]
    BY SMT DEF Init
  <2> QED
    BY <2>1, Zenon DEF Init, Flags
<1>4. LockIsThePulse
  BY DEF Init, LockIsThePulse, CpuPulses
<1> QED
  BY <1>1, <1>2, <1>3, <1>4 DEF TypeOK

\* Every thread goes from one of its places to another.
LEMMA PlacesKept ==
  ASSUME Places, [Next]_vars
  PROVE  Places'
<1> USE DEF Places, line, chips, emulated, taken, counts
<1>1. CASE Guest
  BY <1>1 DEF Guest, GuestServes, GuestDisables, GuestEnables, GuestClears,
     GuestResets, GuestAsks, CpuAt, PullReset, MutexFree
<1>2. CASE CpuStep
  BY <1>2 DEF CpuStep, InstructionReleases, InstructionResets, IfIrq,
     ReadStatus, DropIrq, NoReset, CpuPulls, CpuReleases, CpuIsReset, CpuAt,
     PullReset, ReleaseReset, MutexFree, CpuPulseReset
<1>3. CASE IplStep
  BY <1>3 DEF IplStep, ReadPins, SetIrq, WatchReset, IplAt, MutexFree
<1>4. CASE Keys
  BY <1>4 DEF Keys, KeyQueued, PauseKey, ResetKey, KbdAt, PullReset,
     MutexFree
<1>5. CASE KbdStep
  BY <1>5 DEF KbdStep, KeyReleases, KeyResetsCpu, KbdAt, ReleaseReset,
     CpuPulseReset
<1>6. CASE Amiga
  BY <1>6 DEF Amiga, Raise, Press, LetGo
<1>7. CASE UNCHANGED vars
  BY <1>7 DEF vars
<1> QED
  BY <1>1, <1>2, <1>3, <1>4, <1>5, <1>6, <1>7 DEF Next

\* The levels stay levels: the chips', the emulated one and what the CPU
\* thread makes of them.
LEMMA InterruptingKept ==
  ASSUME Interrupting, [Next]_vars
  PROVE  Interrupting'
<1> USE InterruptsAssumption DEF Interrupting, PORTSLevel, line, chips, emulated, taken, counts
<1>1. CASE Guest
  BY <1>1 DEF Guest, GuestServes, GuestDisables, GuestEnables, GuestClears,
     GuestResets, GuestAsks, CpuAt, PullReset, MutexFree
<1>2. CASE CpuStep
  BY <1>2 DEF CpuStep, InstructionReleases, InstructionResets, IfIrq,
     ReadStatus, DropIrq, NoReset, CpuPulls, CpuReleases, CpuIsReset, CpuAt,
     PullReset, ReleaseReset, MutexFree, CpuPulseReset, Highest, Over
<1>3. CASE IplStep
  BY <1>3 DEF IplStep, ReadPins, SetIrq, WatchReset, IplAt, MutexFree
<1>4. CASE Keys
  BY <1>4 DEF Keys, KeyQueued, PauseKey, ResetKey, KbdAt, PullReset,
     MutexFree
<1>5. CASE KbdStep
  BY <1>5 DEF KbdStep, KeyReleases, KeyResetsCpu, KbdAt, ReleaseReset,
     CpuPulseReset
<1>6. CASE Amiga
  BY <1>6 DEF Amiga, Raise, Press, LetGo
<1>7. CASE UNCHANGED vars
  BY <1>7 DEF vars
<1> QED
  BY <1>1, <1>2, <1>3, <1>4, <1>5, <1>6, <1>7 DEF Next

\* The flags stay flags.
LEMMA FlagsKept ==
  ASSUME Flags, [Next]_vars
  PROVE  Flags'
<1> USE DEF Flags, line, chips, emulated, taken, counts
<1>1. CASE Guest
  BY <1>1 DEF Guest, GuestServes, GuestDisables, GuestEnables, GuestClears,
     GuestResets, GuestAsks, CpuAt, PullReset, MutexFree
<1>2. CASE CpuStep
  BY <1>2 DEF CpuStep, InstructionReleases, InstructionResets, IfIrq,
     ReadStatus, DropIrq, NoReset, CpuPulls, CpuReleases, CpuIsReset, CpuAt,
     PullReset, ReleaseReset, MutexFree, CpuPulseReset, Over
<1>3. CASE IplStep
  <2>1. CASE ReadPins
    BY <2>1 DEF ReadPins, IplAt, MutexFree
  <2>2. CASE SetIrq
    BY <2>2 DEF SetIrq, IplAt, EmulatedWants
  <2>3. CASE WatchReset
    BY <2>3 DEF WatchReset, IplAt, Edge
  <2> QED
    BY <1>3, <2>1, <2>2, <2>3 DEF IplStep
<1>4. CASE Keys
  BY <1>4 DEF Keys, KeyQueued, PauseKey, ResetKey, KbdAt, PullReset,
     MutexFree
<1>5. CASE KbdStep
  BY <1>5 DEF KbdStep, KeyReleases, KeyResetsCpu, KbdAt, ReleaseReset,
     CpuPulseReset
<1>6. CASE Amiga
  BY <1>6 DEF Amiga, Raise, Press, LetGo
<1>7. CASE UNCHANGED vars
  BY <1>7 DEF vars
<1> QED
  BY <1>1, <1>2, <1>3, <1>4, <1>5, <1>6, <1>7 DEF Next

\* The counters only grow by one.
LEMMA CountersKept ==
  ASSUME Counters, [Next]_vars
  PROVE  Counters'
<1> USE DEF Counters, line, chips, emulated, taken, counts
<1>1. CASE Guest
  <2>1. CASE GuestServes
    BY <2>1 DEF GuestServes, CpuAt
  <2>2. CASE GuestDisables
    BY <2>2 DEF GuestDisables, CpuAt
  <2>3. CASE GuestEnables
    BY <2>3 DEF GuestEnables, CpuAt
  <2>4. CASE GuestClears
    BY <2>4 DEF GuestClears, CpuAt
  <2>5. CASE GuestResets
    <3>1. pulses' = pulses + 1 /\ UNCHANGED <<presses, resets>>
      BY <2>5 DEF GuestResets
    <3> QED
      BY <3>1
  <2>6. CASE GuestAsks
    BY <2>6 DEF GuestAsks, CpuAt
  <2> QED
    BY <1>1, <2>1, <2>2, <2>3, <2>4, <2>5, <2>6 DEF Guest
<1>2. CASE CpuStep
  BY <1>2 DEF CpuStep, InstructionReleases, InstructionResets, IfIrq,
     ReadStatus, DropIrq, NoReset, CpuPulls, CpuReleases, CpuIsReset, CpuAt,
     PullReset, ReleaseReset, MutexFree, CpuPulseReset
<1>3. CASE IplStep
  BY <1>3 DEF IplStep, ReadPins, SetIrq, WatchReset, IplAt, MutexFree
<1>4. CASE Keys
  BY <1>4 DEF Keys, KeyQueued, PauseKey, ResetKey, KbdAt, PullReset,
     MutexFree
<1>5. CASE KbdStep
  BY <1>5 DEF KbdStep, KeyReleases, KeyResetsCpu, KbdAt, ReleaseReset,
     CpuPulseReset
<1>6. CASE Amiga
  BY <1>6 DEF Amiga, Raise, Press, LetGo
<1>7. CASE UNCHANGED vars
  BY <1>7 DEF vars
<1> QED
  BY <1>1, <1>2, <1>3, <1>4, <1>5, <1>6, <1>7 DEF Next

\* A pulse takes the lock when no other one holds it, and gives it back.
LEMMA LockKept ==
  ASSUME LockIsThePulse, Flags, [Next]_vars
  PROVE  LockIsThePulse'
<1> USE DEF Flags, LockIsThePulse, CpuPulses, line, chips, emulated, taken, counts
<1>1. CASE Guest
  <2>1. CASE GuestServes
    BY <2>1 DEF GuestServes, CpuAt
  <2>2. CASE GuestDisables
    BY <2>2 DEF GuestDisables, CpuAt
  <2>3. CASE GuestEnables
    BY <2>3 DEF GuestEnables, CpuAt
  <2>4. CASE GuestClears
    BY <2>4 DEF GuestClears, CpuAt
  <2>5. CASE GuestResets
    BY <2>5 DEF GuestResets, CpuAt, PullReset, MutexFree
  <2>6. CASE GuestAsks
    BY <2>6 DEF GuestAsks, CpuAt
  <2> QED
    BY <1>1, <2>1, <2>2, <2>3, <2>4, <2>5, <2>6 DEF Guest
<1>2. CASE CpuStep
  <2>1. CASE InstructionReleases
    BY <2>1 DEF InstructionReleases, CpuAt, ReleaseReset
  <2>2. CASE InstructionResets
    BY <2>2 DEF InstructionResets, CpuAt, CpuPulseReset
  <2>3. CASE IfIrq
    BY <2>3 DEF IfIrq, CpuAt
  <2>4. CASE ReadStatus
    BY <2>4 DEF ReadStatus, CpuAt, MutexFree
  <2>5. CASE DropIrq
    BY <2>5 DEF DropIrq, CpuAt
  <2>6. CASE NoReset
    BY <2>6 DEF NoReset, CpuAt
  <2>7. CASE CpuPulls
    BY <2>7 DEF CpuPulls, CpuAt, PullReset, MutexFree
  <2>8. CASE CpuReleases
    BY <2>8 DEF CpuReleases, CpuAt, ReleaseReset
  <2>9. CASE CpuIsReset
    BY <2>9 DEF CpuIsReset, CpuAt, CpuPulseReset
  <2> QED
    BY <1>2, <2>1, <2>2, <2>3, <2>4, <2>5, <2>6, <2>7, <2>8, <2>9 DEF
       CpuStep
<1>3. CASE IplStep
  <2>1. CASE ReadPins
    BY <2>1 DEF ReadPins, IplAt, MutexFree
  <2>2. CASE SetIrq
    BY <2>2 DEF SetIrq, IplAt
  <2>3. CASE WatchReset
    BY <2>3 DEF WatchReset, IplAt
  <2> QED
    BY <1>3, <2>1, <2>2, <2>3 DEF IplStep
<1>4. CASE Keys
  <2>1. CASE KeyQueued
    BY <2>1 DEF KeyQueued, KbdAt
  <2>2. CASE PauseKey
    BY <2>2 DEF PauseKey, KbdAt
  <2>3. CASE ResetKey
    BY <2>3 DEF ResetKey, KbdAt, PullReset, MutexFree
  <2> QED
    BY <1>4, <2>1, <2>2, <2>3 DEF Keys
<1>5. CASE KbdStep
  <2>1. CASE KeyReleases
    BY <2>1 DEF KeyReleases, KbdAt, ReleaseReset
  <2>2. CASE KeyResetsCpu
    BY <2>2 DEF KeyResetsCpu, KbdAt, CpuPulseReset
  <2> QED
    BY <1>5, <2>1, <2>2 DEF KbdStep
<1>6. CASE Amiga
  <2>1. CASE Raise
    BY <2>1 DEF Raise
  <2>2. CASE Press
    BY <2>2 DEF Press
  <2>3. CASE LetGo
    BY <2>3 DEF LetGo
  <2> QED
    BY <1>6, <2>1, <2>2, <2>3 DEF Amiga
<1>7. CASE UNCHANGED vars
  BY <1>7 DEF vars
<1> QED
  BY <1>1, <1>2, <1>3, <1>4, <1>5, <1>6, <1>7 DEF Next

\* Every step keeps the types, and the lock with its pulse.
LEMMA StepTyped == TypeOK /\ [Next]_vars => TypeOK'
  BY PlacesKept, InterruptingKept, FlagsKept, CountersKept, LockKept DEF TypeOK

\* The globals keep their types whatever the threads' interleaving, and the
\* lock is held by one reset pulse at most (emulator.c:267-713).
THEOREM TypeCorrect == Spec => []TypeOK
  BY InitTyped, StepTyped, PTL DEF Spec

-----------------------------------------------------------------------------
(* One reset per press.                                                   *)

\* The strengthening: a press not yet counted is what every fresh look at a
\* low line stands for.  A look that found the line high is from before the
\* press when the line is low now.
Looked == ipl # "read"
FindsPress == amiga_reset_last /\ (pressed \/ (Looked /\ ~pins.reset))
MissedPress == Looked /\ pins.reset /\ pressed
Counted ==
  /\ resets <= presses
  /\ FindsPress => resets < presses
  /\ MissedPress => resets < presses

\* The steps that touch neither the line, the look at it, nor the counts.
LEMMA CountsKept ==
  ASSUME Counted,
         UNCHANGED <<ipl, pins, pressed, amiga_reset_last, presses, resets>>
  PROVE  Counted'
  BY DEF Counted, FindsPress, MissedPress, Looked

\* A step of the CPU or the keyboard thread is one of those.
LEMMA OthersDoNotCount ==
  ASSUME Guest \/ CpuStep \/ Keys \/ KbdStep
  PROVE  UNCHANGED <<ipl, pins, pressed, amiga_reset_last, presses, resets>>
<1> USE DEF CpuAt, KbdAt, line, counts
<1>1. CASE Guest
  BY <1>1 DEF Guest, GuestServes, GuestDisables, GuestEnables, GuestClears,
              GuestResets, GuestAsks
<1>2. CASE CpuStep
  BY <1>2 DEF CpuStep, InstructionReleases, InstructionResets, IfIrq,
              ReadStatus, DropIrq, NoReset, CpuPulls, CpuReleases, CpuIsReset
<1>3. CASE Keys
  BY <1>3 DEF Keys, KeyQueued, PauseKey, ResetKey
<1>4. CASE KbdStep
  BY <1>4 DEF KbdStep, KeyReleases, KeyResetsCpu
<1> QED
  BY <1>1, <1>2, <1>3, <1>4

\* The IPL thread counts a press once: it looks while no pulse of the emulator
\* holds the line, and needs to see the line high between two presses.
LEMMA IplCountsOnce ==
  ASSUME TypeOK, Counted, IplStep
  PROVE  Counted'
<1> USE DEF Counted, FindsPress, MissedPress, Looked, IplAt, line, counts
<1>1. CASE ReadPins
  <2>1. /\ ipl' = "irq"
        /\ pins'.reset = ~pressed
    BY <1>1, TypeOK DEF ReadPins, MutexFree, TypeOK
  <2> QED
    BY <1>1, <2>1 DEF ReadPins
<1>2. CASE SetIrq
  BY <1>2 DEF SetIrq
<1>3. CASE WatchReset
  <2>1. /\ ipl = "reset" /\ ipl' = "read"
        /\ UNCHANGED <<pins, pressed, presses>>
    BY <1>3 DEF WatchReset
  <2>2. CASE ~do_reset /\ Edge /\ pins.reset
    BY <1>3, <2>1, <2>2 DEF WatchReset
  <2>3. CASE ~do_reset /\ Edge /\ ~pins.reset
    <3>1. /\ amiga_reset_last /\ ~amiga_reset_last'
          /\ resets' = resets + 1
      BY <1>3, <2>3, TypeOK DEF WatchReset, Edge, TypeOK, Flags
    <3>2. resets < presses
      BY <2>1, <2>3, <3>1
    <3>3. resets' <= presses'
      BY <2>1, <3>1, <3>2, TypeOK DEF TypeOK, Counters
    <3> QED
      BY <2>1, <3>1, <3>3
  <2>4. CASE ~(~do_reset /\ Edge)
    BY <1>3, <2>1, <2>4 DEF WatchReset
  <2> QED
    BY <2>2, <2>3, <2>4
<1> QED
  BY <1>1, <1>2, <1>3 DEF IplStep

\* A press is one more to count.
LEMMA PressesCounted ==
  ASSUME TypeOK, Counted, Amiga
  PROVE  Counted'
<1> USE DEF Counted, FindsPress, MissedPress, Looked, line, counts
<1>1. CASE Raise
  BY <1>1 DEF Raise
<1>2. CASE Press
  <2>1. resets' = resets /\ presses' = presses + 1
    BY <1>2 DEF Press
  <2>2. resets' < presses'
    BY <2>1, TypeOK DEF TypeOK, Counters
  <2>3. resets' <= presses'
    BY <2>1, TypeOK DEF TypeOK, Counters
  <2> QED
    BY <2>2, <2>3
<1>3. CASE LetGo
  BY <1>3 DEF LetGo
<1> QED
  BY <1>1, <1>2, <1>3 DEF Amiga

\* The IPL thread asks for one reset of the CPU at most for each press of the
\* Amiga's reset, and never for a pulse of the emulator (emulator.c:312-324).
THEOREM ResetsAreThePresses == Spec => []OneResetPerPress
<1>1. Init => Counted
  BY DEF Init, Counted, FindsPress, MissedPress, Looked
<1>2. TypeOK /\ Counted /\ [Next]_vars => Counted'
  <2> SUFFICES ASSUME TypeOK, Counted, [Next]_vars
               PROVE  Counted'
    OBVIOUS
  <2>1. CASE Guest \/ CpuStep \/ Keys \/ KbdStep
    BY <2>1, OthersDoNotCount, CountsKept
  <2>2. CASE IplStep
    BY <2>2, IplCountsOnce
  <2>3. CASE Amiga
    BY <2>3, PressesCounted
  <2>4. CASE UNCHANGED vars
    BY <2>4, CountsKept DEF vars, line, counts
  <2> QED
    BY <2>1, <2>2, <2>3, <2>4 DEF Next
<1>3. Counted => OneResetPerPress
  BY DEF Counted, OneResetPerPress
<1> QED
  BY <1>1, <1>2, <1>3, TypeCorrect, PTL DEF Spec
=============================================================================
