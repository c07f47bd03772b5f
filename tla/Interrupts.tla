------------------------------ MODULE Interrupts ------------------------------
(*************************************************************************)
(* How interrupts and resets of the Amiga reach the emulated CPU          *)
(* (src/emulator.c).  The IPL thread looks at the pins and sets irq and   *)
(* do_reset; the CPU thread, between two slices of the program, turns irq *)
(* into the CPU's interrupt level and serves do_reset; the keyboard       *)
(* thread emulates interrupts, and resets the CPU or sets its level by    *)
(* itself.  They share plain variables without a lock; the one lock is    *)
(* the kernel module's, which a reset pulse holds for 100 ms and a look   *)
(* at the pins needs too (PistormBus has it in full).                     *)
(*                                                                       *)
(* What the 68k program does in a slice is free.  emulated_ipl is kept    *)
(* and emulated_irqs is not: the keyboard raises the level and a write to *)
(* INTREQ may take it back.                                               *)
(*************************************************************************)
EXTENDS Integers

CONSTANTS
  Levels,       \* the interrupt levels the chips raise
  MaxPresses,   \* bound: resets of the Amiga by its user
  MaxPulses     \* bound: resets by the R key, RESET and PI_CMD_RESET

ASSUME InterruptsAssumption ==
  /\ Levels \subseteq 1..6
  /\ MaxPresses \in Nat /\ MaxPulses \in Nat

VARIABLES
  cpu, ipl, kbd,      \* where the three threads are
  pins,               \* what the IPL thread read: its local "value"
  mutex,              \* the kernel module's lock is held for a reset pulse
  pressed,            \* the Amiga's user holds the reset line low
  amiga_reset_last, do_reset,
  hw,                 \* the level on the IPL lines
  armed,              \* the program has enabled the chips' interrupts
  ipl_enabled,        \* ipl_enabled[2]
  irq, last_irq, last_last_irq,
  level,              \* CPU_INT_LEVEL
  emulated_ipl,
  presses, resets, pulses   \* presses so far, those noticed, other pulses

line == <<pressed, amiga_reset_last, do_reset>>
chips == <<hw, armed>>
emulated == <<ipl_enabled, emulated_ipl>>
taken == <<irq, last_irq, last_last_irq, level>>
counts == <<presses, resets, pulses>>
vars == <<cpu, ipl, kbd, pins, mutex, line, chips, emulated, taken, counts>>

PORTSLevel == 2   \* IPL[PORTS]

Init ==
  /\ cpu = "run" /\ ipl = "read" /\ kbd = "poll"
  /\ pins = [reset |-> TRUE, ipl |-> FALSE]
  /\ mutex = FALSE /\ pressed = FALSE
  /\ amiga_reset_last = FALSE /\ do_reset = FALSE
  /\ hw = 0 /\ armed = FALSE /\ ipl_enabled = FALSE /\ emulated_ipl = 0
  /\ irq = FALSE /\ last_irq = 8 /\ last_last_irq = 8 /\ level = 0
  /\ presses = 0 /\ resets = 0 /\ pulses = 0

-----------------------------------------------------------------------------
(* Reset pulses.                                                         *)

MutexFree == ~mutex

\* ps_pulse_reset: the lock is taken and the line pulled; the chips are reset
PullReset == MutexFree /\ mutex' = TRUE /\ hw' = 0 /\ armed' = FALSE

ReleaseReset == mutex' = FALSE /\ UNCHANGED chips

\* the rest of cpu_pulse_reset, with handle_reset and m68k_pulse_reset, which
\* leaves irq and last_last_irq alone; the ROM begins by disabling the chips
CpuPulseReset ==
  /\ ipl_enabled' = FALSE /\ emulated_ipl' = 0 /\ level' = 0
  /\ hw' = 0 /\ armed' = FALSE
  /\ UNCHANGED <<irq, last_irq, last_last_irq>>

-----------------------------------------------------------------------------
(* The CPU thread.                                                       *)

CpuAt(from, to) == cpu = from /\ cpu' = to /\ UNCHANGED <<ipl, kbd, pins>>

\* An interrupt handler serves the chips.
GuestServes ==
  /\ CpuAt("run", "run")
  /\ hw > 0 /\ level >= hw
  /\ hw' = 0
  /\ UNCHANGED <<mutex, line, armed, emulated, taken, counts>>

\* INTENA is written: disabled, or enabled.  After a reset of the CPU the
\* program takes longer to get there than the IPL and CPU threads take to
\* see that no interrupt is left (a timing assumption).
GuestDisables ==
  /\ CpuAt("run", "run")
  /\ armed' = FALSE /\ hw' = 0 /\ ipl_enabled' = FALSE
  /\ UNCHANGED <<mutex, line, emulated_ipl, taken, counts>>

Booted == level # 0 \/ last_last_irq = 0
GuestEnables ==
  /\ CpuAt("run", "run")
  /\ Booted
  /\ armed' = TRUE /\ ipl_enabled' = TRUE
  /\ UNCHANGED <<mutex, line, hw, emulated_ipl, taken, counts>>

\* INTREQ is written and nothing emulated is left
GuestClears ==
  /\ CpuAt("run", "run")
  /\ emulated_ipl # 0
  /\ emulated_ipl' = 0
  /\ UNCHANGED <<mutex, line, chips, ipl_enabled, taken, counts>>

\* the RESET instruction
GuestResets ==
  /\ CpuAt("run", "instruction low")
  /\ pulses < MaxPulses /\ pulses' = pulses + 1
  /\ PullReset
  /\ UNCHANGED <<line, emulated, taken, presses, resets>>

\* PI_CMD_RESET of the PiStorm device; KICKROM and EXTROM end the same way
GuestAsks ==
  /\ CpuAt("run", "run")
  /\ pulses < MaxPulses /\ pulses' = pulses + 1
  /\ do_reset' = TRUE
  /\ UNCHANGED <<mutex, pressed, amiga_reset_last, chips, emulated, taken,
                 presses, resets>>

InstructionReleases ==
  /\ CpuAt("instruction low", "instruction")
  /\ ReleaseReset
  /\ UNCHANGED <<line, emulated, taken, counts>>

InstructionResets ==
  /\ CpuAt("instruction", "run")
  /\ CpuPulseReset
  /\ UNCHANGED <<mutex, line, counts>>

Guest ==
  \/ GuestServes \/ GuestDisables \/ GuestEnables \/ GuestClears
  \/ GuestResets \/ GuestAsks

\* the slice ends: if (irq)
IfIrq ==
  /\ CpuAt("run", IF irq THEN "status" ELSE "drop")
  /\ UNCHANGED <<mutex, line, chips, emulated, taken, counts>>

\* the status register's level or the emulated one, the higher of the two
Highest_Both == emulated_ipl + hw     \* a mutant
Highest_Chips == hw                   \* a mutant
Highest == IF emulated_ipl >= hw THEN emulated_ipl ELSE hw
IsNew(l) == l # 0 /\ l # last_last_irq
ReadStatus ==
  /\ CpuAt("status", "drop")
  /\ MutexFree
  /\ last_irq' = Highest
  /\ IF IsNew(Highest)
     THEN last_last_irq' = Highest /\ level' = Highest
     ELSE UNCHANGED <<last_last_irq, level>>
  /\ UNCHANGED <<mutex, line, chips, emulated, irq, counts>>

Over_ByStatus == ~irq /\ last_irq = 0  \* a mutant
Over == ~irq /\ last_last_irq # 0
DropIrq ==
  /\ CpuAt("drop", "reset")
  /\ IF Over
     THEN last_last_irq' = 0 /\ level' = 0
     ELSE UNCHANGED <<last_last_irq, level>>
  /\ UNCHANGED <<mutex, line, chips, emulated, irq, last_irq, counts>>

NoReset ==
  /\ CpuAt("reset", "run")
  /\ ~do_reset
  /\ UNCHANGED <<mutex, line, chips, emulated, taken, counts>>

CpuPulls ==
  /\ CpuAt("reset", "low")
  /\ do_reset
  /\ PullReset
  /\ UNCHANGED <<line, emulated, taken, counts>>

CpuReleases ==
  /\ CpuAt("low", "rest")
  /\ ReleaseReset
  /\ UNCHANGED <<line, emulated, taken, counts>>

\* do_reset is cleared when all is reset: until then the IPL thread ignores
\* the line
CpuIsReset ==
  /\ CpuAt("rest", "run")
  /\ CpuPulseReset
  /\ do_reset' = FALSE
  /\ UNCHANGED <<mutex, pressed, amiga_reset_last, counts>>

CpuStep ==
  \/ InstructionReleases \/ InstructionResets \/ IfIrq \/ ReadStatus
  \/ DropIrq \/ NoReset \/ CpuPulls \/ CpuReleases \/ CpuIsReset

-----------------------------------------------------------------------------
(* The IPL thread.                                                       *)

IplAt(from, to) == ipl = from /\ ipl' = to /\ UNCHANGED <<cpu, kbd>>

\* ps_gpio_lev, under the lock; a look while TXN is high changes nothing
ReadPins ==
  /\ IplAt("read", "irq")
  /\ MutexFree
  /\ pins' = [reset |-> ~pressed /\ ~mutex, ipl |-> hw # 0]
  /\ UNCHANGED <<mutex, line, chips, emulated, taken, counts>>

\* irq_delay is 0, so irq falls at the first look without an interrupt
EmulatedWants == emulated_ipl # 0 /\ ipl_enabled
SetIrq ==
  /\ IplAt("irq", "reset")
  /\ irq' = (pins.ipl \/ EmulatedWants)
  /\ UNCHANGED <<pins, mutex, line, chips, emulated, last_irq, last_last_irq,
                 level, counts>>

\* an edge of the Amiga's reset line; the falling one asks for a reset
Edge_Low == ~pins.reset \/ ~amiga_reset_last       \* a mutant
Edge_Rising == pins.reset /\ ~amiga_reset_last     \* a mutant
Edge == pins.reset # amiga_reset_last
WatchReset ==
  /\ IplAt("reset", "read")
  /\ IF ~do_reset /\ Edge
     THEN /\ amiga_reset_last' = pins.reset
          /\ do_reset' = ~pins.reset
          /\ resets' = IF pins.reset THEN resets ELSE resets + 1
     ELSE UNCHANGED <<amiga_reset_last, do_reset, resets>>
  /\ UNCHANGED <<pins, mutex, pressed, chips, emulated, taken, presses, pulses>>

IplStep == ReadPins \/ SetIrq \/ WatchReset

-----------------------------------------------------------------------------
(* The keyboard thread.                                                  *)

KbdAt(from, to) == kbd = from /\ kbd' = to /\ UNCHANGED <<cpu, ipl, pins>>

\* a key is queued: amiga_emulate_irq(PORTS)
KeyQueued ==
  /\ KbdAt("poll", "poll")
  /\ last_irq # PORTSLevel
  /\ emulated_ipl' = IF emulated_ipl < PORTSLevel THEN PORTSLevel
                     ELSE emulated_ipl
  /\ UNCHANGED <<mutex, line, chips, ipl_enabled, taken, counts>>

\* the Pause key: M68K_SET_IRQ(7)
PauseKey ==
  /\ KbdAt("poll", "poll")
  /\ level' = 7
  /\ UNCHANGED <<mutex, line, chips, emulated, irq, last_irq, last_last_irq,
                 counts>>

\* the R key: cpu_pulse_reset
ResetKey ==
  /\ KbdAt("poll", "low")
  /\ pulses < MaxPulses /\ pulses' = pulses + 1
  /\ PullReset
  /\ UNCHANGED <<line, emulated, taken, presses, resets>>

KeyReleases ==
  /\ KbdAt("low", "rest")
  /\ ReleaseReset
  /\ UNCHANGED <<line, emulated, taken, counts>>

KeyResetsCpu ==
  /\ KbdAt("rest", "poll")
  /\ CpuPulseReset
  /\ UNCHANGED <<mutex, line, counts>>

Keys == KeyQueued \/ PauseKey \/ ResetKey
KbdStep == KeyReleases \/ KeyResetsCpu

-----------------------------------------------------------------------------
(* The Amiga.                                                            *)

\* the chips raise an interrupt
Raise ==
  /\ armed /\ ~pressed /\ ~mutex
  /\ hw' \in {n \in Levels : n > hw}
  /\ UNCHANGED <<cpu, ipl, kbd, pins, mutex, line, armed, emulated, taken,
                 counts>>

\* its user resets it: the chips are reset with the line
Press ==
  /\ ~pressed /\ pressed' = TRUE
  /\ presses < MaxPresses /\ presses' = presses + 1
  /\ hw' = 0 /\ armed' = FALSE
  /\ UNCHANGED <<cpu, ipl, kbd, pins, mutex, amiga_reset_last, do_reset,
                 emulated, taken, resets, pulses>>

LetGo ==
  /\ pressed /\ pressed' = FALSE
  /\ UNCHANGED <<cpu, ipl, kbd, pins, mutex, amiga_reset_last, do_reset,
                 chips, emulated, taken, counts>>

Amiga == Raise \/ Press \/ LetGo

-----------------------------------------------------------------------------
Next == Guest \/ CpuStep \/ IplStep \/ Keys \/ KbdStep \/ Amiga

Spec == Init /\ [][Next]_vars

\* Each thread is scheduled.  What the program, the keys and the Amiga do is
\* not fair.
Fairness == WF_vars(CpuStep) /\ WF_vars(IplStep) /\ WF_vars(KbdStep)
FairSpec == Spec /\ Fairness

-----------------------------------------------------------------------------
(* Properties.                                                           *)

\* Type invariant: the globals of emulator.c; the lock is held by the pulse of
\* one thread.
Places ==
  /\ cpu \in {"run", "instruction low", "instruction", "status", "drop",
              "reset", "low", "rest"}
  /\ ipl \in {"read", "irq", "reset"} /\ kbd \in {"poll", "low", "rest"}
Interrupting ==
  /\ hw \in Levels \union {0} /\ level \in Levels \union {0, PORTSLevel, 7}
  /\ last_irq \in Levels \union {0, PORTSLevel, 8}
  /\ last_last_irq \in Levels \union {0, PORTSLevel, 8}
  /\ emulated_ipl \in {0, PORTSLevel}
Flags ==
  /\ mutex \in BOOLEAN /\ pressed \in BOOLEAN /\ irq \in BOOLEAN
  /\ amiga_reset_last \in BOOLEAN /\ do_reset \in BOOLEAN
  /\ armed \in BOOLEAN /\ ipl_enabled \in BOOLEAN
  /\ pins \in [reset : BOOLEAN, ipl : BOOLEAN]
Counters == presses \in Nat /\ resets \in Nat /\ pulses \in Nat
CpuPulses == cpu \in {"instruction low", "low"}
LockIsThePulse ==
  /\ mutex <=> (CpuPulses \/ kbd = "low")
  /\ ~(CpuPulses /\ kbd = "low")
TypeOK == Places /\ Interrupting /\ Flags /\ Counters /\ LockIsThePulse

\* The IPL thread (emulator.c:312-324) asks for one reset of the CPU at most
\* for each time the user resets the Amiga: the pulses the emulator makes
\* itself, in three places, are never taken for one.
OneResetPerPress == resets <= presses

\* A reset line that is held low is found and the CPU reset (emulator.c:312,
\* 538), provided the IPL thread had seen it high before.
Held == pressed /\ amiga_reset_last
HeldResetServed == Held ~> (cpu = "low" \/ ~pressed)

\* An interrupt that stays, of the chips or emulated and enabled, reaches the
\* CPU's level through irq, the status register and last_last_irq
\* (emulator.c:291-310, 521-536).  Level 7 is the Pause key's.
Wanted == IF EmulatedWants /\ emulated_ipl > hw THEN emulated_ipl ELSE hw
InterruptHeard ==
  \A n \in Levels \union {PORTSLevel} :
    Wanted = n ~> (level >= n \/ Wanted # n)

\* When nothing interrupts any more the CPU's level falls to 0, or is the
\* Pause key's (emulator.c:533-536).
LevelFalls == Wanted = 0 ~> (level \in {0, 7} \/ Wanted # 0)
=============================================================================
