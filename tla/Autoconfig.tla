------------------------------ MODULE Autoconfig ------------------------------
(*************************************************************************)
(* Zorro autoconfiguration of the emulated boards                         *)
(* (src/platforms/amiga/amiga-autoconf.c, amiga-platform.c).  The 68k     *)
(* program reads which board is there at AC_Z2_BASE, writes the board's   *)
(* address to it, and looks for the next.  The emulator shows its Z2      *)
(* boards one after the other, then its Z3 boards, all before or all      *)
(* after the boards that are plugged into the Amiga, and puts the memory  *)
(* boards into the CPU's read and write ranges.  A reset starts it over.  *)
(*                                                                       *)
(* Addresses are in units of 64 KB.  The Z3 window at AC_Z3_BASE is not   *)
(* here: no custom range reaches it.  kick13 mode is off.  Nor are the    *)
(* registers that take a Z3 address nibble by nibble, and their nib_latch *)
(* (amiga-autoconf.c:252-279): the program writes Z3 addresses by bytes   *)
(* or as a word.                                                          *)
(*************************************************************************)
EXTENDS Integers, Sequences, FiniteSets, SequencesExt, FiniteSetsExt

CONSTANTS
  SetVars,      \* the orders in which setvar enables devices
  Z2Fast, Z3Fast, \* the memory boards of the configuration, in order
  Own,          \* the boards that may be plugged into the Amiga
  Shuts,        \* the boards that the program may shut up
  Base,         \* the address the program gives to a board
  Size, ConfigBase, \* a memory board's size, and its address in the file
  AC_PIC_LIMIT, MaxRanges,
  MaxResets     \* bound: resets

VARIABLES
  devices, rtg_enabled, physical_z2_first, plugged, \* the configuration
  prog, found,  \* the program: where it is and the board it has found
  given,        \* since the reset, the program gave these boards their address
  shut,         \* since the reset, the program shut these up
  z2, z3,       \* ac_z2_current_pic, ac_z3_current_pic
  z2_done, z3_done,
  ac_base, dev_base, map_offset,
  reads, writes, \* the CPU's ranges
  custom, mapped, \* the platform's ranges
  waiting,      \* ac_waiting_for_physical_pic
  taken,        \* how many of the Amiga's own boards have an address
  resets

config == <<devices, rtg_enabled, physical_z2_first, plugged>>
program == <<prog, found, given, shut>>
pics == <<z2, z3, z2_done, z3_done>>
bases == <<ac_base, dev_base, map_offset>>
ranges == <<reads, writes>>
platform == <<custom, mapped>>
vars == <<config, program, pics, bases, ranges, platform, waiting, taken,
          resets>>

-----------------------------------------------------------------------------
(* The boards.                                                           *)

Devices == {"pistorm-dev"} \union UNION {ToSet(s) : s \in SetVars}
RAM == ToSet(Z2Fast) \union ToSet(Z3Fast)
NoBoard == "none"

\* setvar adds its devices while the configuration is read, setup_platform
\* the memory and the PiStorm device; the list is limited
Z2List(s) == s \o Z2Fast \o <<"pistorm-dev">>
Z2Pics ==
  SubSeq(Z2List(devices), 1, Min({Len(Z2List(devices)), AC_PIC_LIMIT}))
Z3Pics == Z3Fast

\* Every emulated board and every one of the Amiga's.
Boards == ToSet(Z2Pics) \union ToSet(Z3Pics) \union ToSet(SubSeq(Own, 1, plugged))

\* A configuration has each board once, and a Z2 board's address has two
\* digits of 4 bits, a Z3 board's two of 8.
ASSUME NamesAssumption ==
  /\ \A s \in SetVars : s \in Seq(Devices) /\ IsInjective(Z2List(s))
  /\ Z2Fast \in Seq(RAM) /\ Z3Fast \in Seq(RAM) /\ IsInjective(Z3Fast)
  /\ Own \in Seq(ToSet(Own)) /\ IsInjective(Own)
  /\ ToSet(Z2Fast) \intersect ToSet(Z3Fast) = {} /\ RAM \intersect Devices = {}
  /\ ToSet(Own) \intersect (Devices \union RAM) = {}
  /\ NoBoard \notin Devices \union RAM \union ToSet(Own)
Word == 0..65535
ASSUME SizesAssumption ==
  /\ AC_PIC_LIMIT \in Nat /\ Len(Z3Fast) <= AC_PIC_LIMIT /\ MaxRanges \in Nat \ {0}
  /\ \A b \in Devices \union ToSet(Z2Fast) : Base[b] \in 0..255
  /\ \A b \in ToSet(Z3Fast) : Base[b] \in Word
  /\ \A b \in RAM : Size[b] \in Nat \ {0} /\ ConfigBase[b] \in Word

-----------------------------------------------------------------------------
(* Ranges.                                                               *)

AC_Z2_BASE == 232                               \* 0xE80000
Window == [low |-> AC_Z2_BASE, high |-> AC_Z2_BASE + 1]
RTG == [low |-> 28672, high |-> 29313]          \* PIGFX_RTG_BASE, PIGFX_UPPER
PISCSI == [low |-> 32768, high |-> 32769]       \* PISCSI_OFFSET, PISCSI_UPPER

In(range, a) == range.low <= a /\ a < range.high

\* adjust_ranges: the custom range spans what is enabled, and the PiSCSI
\* board when it has its address
HasPiscsi == "piscsi" \in ToSet(devices)
Spans(done) ==
  (IF done THEN {} ELSE {Window})
  \union (IF rtg_enabled THEN {RTG} ELSE {})
  \union (IF HasPiscsi THEN {PISCSI} ELSE {})
LowBoard_None(base) == {}      \* a mutant
LowBoard(base) == IF HasPiscsi /\ base["piscsi"] # 0 THEN {base["piscsi"]} ELSE {}
CustomRange(done, base) ==
  IF Spans(done) = {} THEN [low |-> 0, high |-> 0]
  ELSE [low |-> Min({s.low : s \in Spans(done)} \union LowBoard(base)),
        high |-> Max({s.high : s \in Spans(done)})]

\* and the mapped range the memory; an offset of 0 does not count
MappedRange(offset) ==
  LET lows == {offset[b] : b \in RAM} \ {0}
  IN [low |-> IF lows = {} THEN 0 ELSE Min(lows),
      high |-> IF RAM = {} THEN 0 ELSE Max({offset[b] + Size[b] : b \in RAM})]

\* m68k_add_ram_range: an entry with this address or this data is changed,
\* in the write ranges only; else both get a new one
Entry_Unmoved(a, b) == [low |-> a, high |-> ConfigBase[b] + Size[b], data |-> b]   \* a mutant
Entry(a, b) == [low |-> a, high |-> a + Size[b], data |-> b]
Same(a, b) == {i \in DOMAIN writes : writes[i].low = a \/ writes[i].data = b}
\* MaxRanges is the room that the ranges of ROMs and of cpu_slot_ram leave in a table of 8
AddTo(rs, e) == IF Len(rs) + 1 < MaxRanges THEN Append(rs, e) ELSE rs
AddRamRange(a, b) ==
  IF Same(a, b) # {}
  THEN /\ writes' = [writes EXCEPT ![Min(Same(a, b))] = Entry(a, b)]
       /\ UNCHANGED reads
  ELSE reads' = AddTo(reads, Entry(a, b)) /\ writes' = AddTo(writes, Entry(a, b))

\* What an access of the CPU reaches: the first range that has the address,
\* or the mapped item
Holding(rs, a) == {i \in DOMAIN rs : In(rs[i], a)}
MappedAt(a) == {b \in RAM : In(mapped, a) /\ In(Entry(map_offset[b], b), a)}
Reached(rs, a) ==
  IF Holding(rs, a) # {} THEN {rs[Min(Holding(rs, a))].data} ELSE MappedAt(a)

-----------------------------------------------------------------------------
Init ==
  /\ devices \in SetVars /\ rtg_enabled \in BOOLEAN
  /\ physical_z2_first \in BOOLEAN /\ plugged \in 0..Len(Own)
  /\ prog = "read" /\ found = NoBoard /\ given = {} /\ shut = {}
  /\ z2 = 0 /\ z3 = 0 /\ z2_done = (Z2Pics = <<>>) /\ z3_done = (Z3Pics = <<>>)
  /\ ac_base = [i \in 1..AC_PIC_LIMIT |-> 0]
  /\ dev_base = [d \in Devices |-> 0]
  /\ map_offset = [b \in RAM |-> ConfigBase[b]]
  /\ reads = <<>> /\ writes = <<>>
  /\ custom = CustomRange(z2_done /\ z3_done, dev_base)
  /\ mapped = MappedRange(map_offset)
  /\ waiting = FALSE /\ taken = 0 /\ resets = 0

\* The board that answers at AC_Z2_BASE: one of the Amiga's when the access
\* goes to the bus, the next Z2 board or the next Z3 board of the emulator
OnBus == IF taken < plugged THEN Own[taken + 1] ELSE NoBoard
Z2There == ~z2_done /\ z2 < Len(Z2Pics)
Z3There == ~z3_done /\ z3 < Len(Z3Pics)
Enters == In(custom, AC_Z2_BASE) /\ (~z2_done \/ ~z3_done)
Passes(wait) == ~Enters \/ (physical_z2_first /\ wait)
Answers(wait) ==
  CASE Passes(wait) -> OnBus
    [] ~Passes(wait) /\ Z2There -> Z2Pics[z2 + 1]
    [] ~Passes(wait) /\ ~Z2There /\ Z3There -> Z3Pics[z3 + 1]
    [] OTHER -> OnBus

\* custom_read_amiga: the board's type is read.  With physical_z2_first the
\* bus is asked first, and the emulator waits while a board answers there.
Waits == IF Enters /\ physical_z2_first THEN OnBus # NoBoard ELSE waiting
ReadType ==
  /\ prog = "read"
  /\ waiting' = Waits
  /\ found' = Answers(Waits)
  /\ prog' = IF Answers(Waits) = NoBoard THEN "done" ELSE "low"
  /\ UNCHANGED <<config, given, shut, pics, bases, ranges, platform, taken,
                 resets>>

-----------------------------------------------------------------------------
(* custom_write_amiga: the registers of the board that is there.          *)

Taker_Deaf == Answers(FALSE)     \* a mutant: a write does not wait
Taker == Answers(waiting)

\* The two digits of an address: 4 bits each in Z2, 8 in Z3
Radix == IF found \in ToSet(Z3Pics) THEN 256 ELSE 16
LowDigit == Base[found] % Radix
HighDigit == Base[found] \div Radix

\* a PIC's base: the memory boards', Z2 and Z3, are in ac_base by their number
Slot(b) == IF b \in ToSet(Z3Pics) THEN z3 + 1 ELSE z2 + 1
BaseNow(b) == IF b \in RAM THEN ac_base[Slot(b)] ELSE dev_base[b]
SetBase(b, v) ==
  IF b \in RAM
  THEN ac_base' = [ac_base EXCEPT ![Slot(b)] = v] /\ UNCHANGED dev_base
  ELSE dev_base' = [dev_base EXCEPT ![b] = v] /\ UNCHANGED ac_base

IsEmulated(b) == b \in Devices \union RAM

\* the low digit: a Z2 board's register clears the high one, a Z3 board's
\* keeps it
LowWritten(b) ==
  IF b \in ToSet(Z3Pics) THEN (BaseNow(b) \div 256) * 256 + LowDigit ELSE LowDigit
WriteLow ==
  /\ prog = "low" /\ prog' = "high"
  /\ IF IsEmulated(Taker) THEN SetBase(Taker, LowWritten(Taker))
                          ELSE UNCHANGED <<ac_base, dev_base>>
  /\ UNCHANGED <<config, found, given, shut, pics, map_offset, ranges, platform,
                 waiting, taken, resets>>

\* What follows the last write to a PIC: memory is mapped, the next PIC is
\* shown, and after the last one the window closes.
AllSeen_Early(n, all) == n + 1 >= Len(all)   \* a mutant
AllSeen(n, all) == n = Len(all)
DoneAfter == z2_done' /\ z3_done'
NextPic(b) ==
  /\ IF b \in RAM
     THEN /\ map_offset' = [map_offset EXCEPT ![b] = ac_base'[Slot(b)]]
          /\ AddRamRange(ac_base'[Slot(b)], b)
     ELSE UNCHANGED <<map_offset, ranges>>
  /\ IF b \in ToSet(Z3Pics)
     THEN z3' = z3 + 1 /\ z3_done' = AllSeen(z3', Z3Pics) /\ UNCHANGED <<z2, z2_done>>
     ELSE z2' = z2 + 1 /\ z2_done' = AllSeen(z2', Z2Pics) /\ UNCHANGED <<z3, z3_done>>
  /\ IF z2_done' # z2_done \/ z3_done' # z3_done
     THEN /\ custom' = CustomRange(DoneAfter, dev_base')
          /\ mapped' = MappedRange(map_offset')
     ELSE UNCHANGED platform
  /\ UNCHANGED taken

NextPlugged ==
  /\ taken' = taken + 1
  /\ UNCHANGED <<pics, bases, ranges, platform>>

ProgramGoesOn == prog' = "read" /\ UNCHANGED found

\* the high digit, which ends the board's configuration
HighWritten_Z3(b) == (BaseNow(b) % 256) + HighDigit * 256   \* a mutant
HighWritten(b) ==
  IF b \in ToSet(Z3Pics) THEN (BaseNow(b) % 256) + HighDigit * 256
  ELSE (BaseNow(b) % 16) + HighDigit * 16
WriteHigh ==
  /\ prog = "high"
  /\ ProgramGoesOn
  /\ IF IsEmulated(Taker) THEN SetBase(Taker, HighWritten(Taker)) /\ NextPic(Taker)
                          ELSE NextPlugged
  /\ given' = given \union {found}
  /\ UNCHANGED <<config, shut, waiting, resets>>

\* a Z3 board takes both digits in one word
WriteWord ==
  /\ prog = "low" /\ found \in ToSet(Z3Pics) /\ Taker \in ToSet(Z3Pics)
  /\ ProgramGoesOn
  /\ SetBase(Taker, Base[found]) /\ NextPic(Taker)
  /\ given' = given \union {found}
  /\ UNCHANGED <<config, shut, waiting, resets>>

\* "shut up": the board goes on with the base it has
ShutUp ==
  /\ prog = "low" /\ found \in Shuts
  /\ ProgramGoesOn
  /\ IF IsEmulated(Taker) THEN UNCHANGED <<ac_base, dev_base>> /\ NextPic(Taker)
                          ELSE NextPlugged
  /\ shut' = shut \union {found}
  /\ UNCHANGED <<config, given, waiting, resets>>

ProgramStep == ReadType \/ WriteLow \/ WriteHigh \/ WriteWord \/ ShutUp

\* handle_reset_amiga: the bases and the CPU's ranges stay
Reset ==
  /\ resets < MaxResets /\ resets' = resets + 1
  /\ prog' = "read" /\ found' = NoBoard /\ given' = {} /\ shut' = {}
  /\ z2' = 0 /\ z3' = 0
  /\ z2_done' = (Z2Pics = <<>>) /\ z3_done' = (Z3Pics = <<>>)
  /\ custom' = CustomRange(DoneAfter, dev_base)
  /\ mapped' = MappedRange(map_offset)
  /\ waiting' = FALSE /\ taken' = 0
  /\ UNCHANGED <<config, bases, ranges>>

-----------------------------------------------------------------------------
Next == ProgramStep \/ Reset

Spec == Init /\ [][Next]_vars

\* The program goes on until no board answers.
FairSpec == Spec /\ WF_vars(ProgramStep)

-----------------------------------------------------------------------------
(* Properties.                                                           *)

\* Type invariant of the globals of amiga-autoconf.c: the PIC numbers stay in
\* their lists, and are at the end exactly when the list is done.
TypeOK ==
  /\ prog \in {"read", "low", "high", "done"}
  /\ found \in Boards \union {NoBoard}
  /\ given \subseteq Boards /\ shut \subseteq Boards \intersect Shuts
  /\ z2 \in 0..Len(Z2Pics) /\ z2_done = (z2 = Len(Z2Pics))
  /\ z3 \in 0..Len(Z3Pics) /\ z3_done = (z3 = Len(Z3Pics))
  /\ taken \in 0..plugged /\ waiting \in BOOLEAN
  /\ ac_base \in [1..AC_PIC_LIMIT -> Word]
  /\ dev_base \in [Devices -> 0..255] /\ map_offset \in [RAM -> Word]
  /\ Len(reads) < MaxRanges /\ Len(writes) < MaxRanges

\* The board that takes an address is the one the program has found and means
\* it for, though they are found by a read and addressed by two later writes
\* that look at the emulator's state again, and though memory boards share
\* ac_base (custom_read_amiga, custom_write_amiga, amiga-platform.c:92-270).
BoardBase(b) == IF b \in RAM THEN map_offset[b] ELSE dev_base[b]
BoardsAsGiven ==
  /\ \A b \in given \ shut : IsEmulated(b) => BoardBase(b) = Base[b]
  /\ Cardinality({b \in given \union shut : ~IsEmulated(b)}) = taken
  /\ found # NoBoard /\ prog \in {"low", "high"} => Taker = found

\* Memory is read and written where the program put it, from the moment it
\* has its address, in the first boot and after resets
\* (m68k_add_ram_range, m68kcpu.c:1308-1357).
MemoryWhereGiven ==
  \A b \in given \intersect RAM :
    \A a \in Base[b] .. Base[b] + Size[b] - 1 :
      Reached(reads, a) = {b} /\ Reached(writes, a) = {b}

\* Once no board is left the program's accesses to the emulated devices reach
\* them: the custom range was adjusted after the last address was written and
\* spans them all (amiga-platform.c:289-360).
DevicesReachable ==
  prog = "done" =>
    \A d \in given \intersect Devices : In(custom, Base[d])

\* After the last reset every board, emulated or the Amiga's own, gets its
\* address or is shut up, whichever come first.
AllConfigured == <>[](prog = "done" /\ Boards = given \union shut)
=============================================================================
