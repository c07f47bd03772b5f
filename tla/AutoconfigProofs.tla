--------------------------- MODULE AutoconfigProofs ---------------------------
(*************************************************************************)
(* Proofs about Autoconfig, for every configuration of boards, every      *)
(* order and every number of resets: the globals stay in their types,     *)
(* each board gets the address meant for it, memory is read and written   *)
(* where it was put, and the custom range reaches the devices.            *)
(*                                                                       *)
(* The invariant relates the three places where a board's number lives:   *)
(* what the program has found is the next board of one list (FoundKinds), *)
(* the boards done with are those behind it (PastSeen, OwnTaken), and     *)
(* their addresses are left alone by the writes to the later ones (Kept), *)
(* although the memory boards share ac_base.                              *)
(*************************************************************************)
EXTENDS Autoconfig, TLAPS, FiniteSetTheorems, SequenceTheorems

-----------------------------------------------------------------------------
(* Numbers and lists. *)

Z2Boards == Devices \union ToSet(Z2Fast)
Z3Boards == ToSet(Z3Fast)

\* A set of naturals has a least element, and Min is it.
LEMMA MinIsLeast ==
  ASSUME NEW S \in SUBSET Nat, S # {}
  PROVE  Min(S) \in S /\ \A y \in S : Min(S) <= y
<1> DEFINE R == OpToRel(<, Nat)
<1>1. PICK x \in S : \A y \in S : ~(<<y, x>> \in R)
  <2>1. IsWellFoundedOn(R, Nat)
    BY NatLessThanWellFounded
  <2> HIDE DEF R
  <2>2. QED
    BY <2>1, WFMin
<1>2. \A y \in S : x <= y
  <2>1. ASSUME NEW y \in S, ~(x <= y) PROVE FALSE
    <3>1. y < x /\ x \in Nat /\ y \in Nat
      BY <2>1
    <3>2. <<y, x>> \in R
      BY <3>1 DEF OpToRel
    <3>3. QED
      BY <3>2, <1>1
  <2>2. QED
    BY <2>1
<1>3. QED
  BY <1>2 DEF Min

\* A number is made of its digit and the rest: 4 bits, as a Z2 board has them,
LEMMA DigitsZ2 ==
  ASSUME NEW v \in Nat
  PROVE  /\ (v % 16) + ((v \div 16) * 16) = v
         /\ v % 16 \in 0..15 /\ v \div 16 \in Nat
  OBVIOUS

LEMMA LowDigitZ2 ==
  ASSUME NEW q \in Nat, NEW d \in 0..15
  PROVE  ((q * 16) + d) % 16 = d
  OBVIOUS

\* and 8 bits, as a Z3 board has them.
LEMMA DigitsZ3 ==
  ASSUME NEW v \in Nat
  PROVE  /\ (v % 256) + ((v \div 256) * 256) = v
         /\ v % 256 \in 0..255 /\ v \div 256 \in Nat
  OBVIOUS

LEMMA LowDigitZ3 ==
  ASSUME NEW q \in Nat, NEW d \in 0..255
  PROVE  ((q * 256) + d) % 256 = d
  OBVIOUS

\* The provers do better with a name for this number.
Top == 65535

LEMMA WordUpTo ==
  ASSUME NEW v
  PROVE  v \in Word <=> v \in Nat /\ v <= 65535
<1>1. Top \in Nat
  BY DEF Top
<1>2. Word = 0..Top
  BY DEF Word, Top
<1>3. v \in Word <=> v \in Nat /\ v <= Top
  <2> HIDE DEF Top
  <2>1. QED
    BY <1>1, <1>2
<1>4. QED
  BY <1>3 DEF Top

LEMMA WordIsNat == Word \subseteq Nat
  BY WordUpTo

LEMMA ByteIsWord == ASSUME NEW v \in 0..255 PROVE v \in Word
<1>1. v \in Nat /\ v <= 65535
  OBVIOUS
<1>2. QED
  BY <1>1, WordUpTo

LEMMA HighOfWord == ASSUME NEW v \in Word PROVE v \div 256 \in 0..255
<1> DEFINE low == v % 256     high == v \div 256
<1>1. v \in Nat /\ v <= 65535
  BY WordUpTo
<1>2. low + (high * 256) = v /\ low \in 0..255 /\ high \in Nat
  BY <1>1, DigitsZ3
<1> HIDE DEF low, high
<1>3. low \in Nat
  BY <1>2
<1>4. low + (high * 256) <= 65535
  BY <1>1, <1>2
<1>5. high < 256
  <2>1. ASSUME NEW l \in Nat, NEW h \in Nat, l + (h * 256) <= 65535 PROVE h < 256
    BY <2>1
  <2>2. QED
    BY <1>2, <1>3, <1>4, <2>1
<1>6. high \in 0..255
  BY <1>2, <1>5
<1>7. QED
  BY <1>6 DEF high

LEMMA WordOfDigits ==
  ASSUME NEW h \in 0..255, NEW l \in 0..255
  PROVE  (h * 256) + l \in Word /\ l + (h * 256) \in Word
<1>1. (h * 256) + l \in Word
  <2>1. (h * 256) + l \in Nat
    OBVIOUS
  <2>2. (h * 256) + l <= 65535
    OBVIOUS
  <2>3. QED
    BY <2>1, <2>2, WordUpTo
<1>2. (h * 256) + l = l + (h * 256)
  OBVIOUS
<1>3. QED
  BY <1>1, <1>2

\* What the two writes to a Z2 board make of its base: the low digit clears
\* the rest, the high one completes it.
LEMMA WrittenZ2 ==
  ASSUME NEW v \in 0..255, NEW n \in Word
  PROVE  /\ v % 16 \in 0..15 /\ (v % 16) % 16 = v % 16
         /\ (n % 16) + ((v \div 16) * 16) \in 0..255
         /\ (v % 16) + ((v \div 16) * 16) = v
<1> DEFINE low == v % 16  high == v \div 16  old == n % 16
<1>0. v \in Nat /\ n \in Nat
  BY WordIsNat
<1>1. low + (high * 16) = v /\ low \in 0..15 /\ high \in Nat
  BY <1>0, DigitsZ2
<1>2. old \in 0..15
  BY <1>0, DigitsZ2
<1> HIDE DEF low, high, old
<1>3. old + (high * 16) \in 0..255
  <2>1. high <= 15
    BY <1>1
  <2>2. QED
    BY <1>1, <1>2, <2>1
<1>4. ((0 * 16) + low) % 16 = low
  BY <1>1, LowDigitZ2
<1>5. low % 16 = low
  BY <1>1, <1>4
<1>6. QED
  BY <1>1, <1>3, <1>5 DEF low, high, old

\* The same for a Z3 board, whose low digit keeps the rest.
LEMMA WrittenZ3 ==
  ASSUME NEW v \in Word, NEW n \in Word
  PROVE  /\ ((n \div 256) * 256) + (v % 256) \in Word
         /\ (n % 256) + ((v \div 256) * 256) \in Word
         /\ (((n \div 256) * 256) + (v % 256)) % 256 = v % 256
         /\ (v % 256) + ((v \div 256) * 256) = v
<1> DEFINE low == v % 256     high == v \div 256
           old == n % 256     kept == n \div 256
<1>0. v \in Nat /\ n \in Nat
  BY WordIsNat
<1>1. low + (high * 256) = v /\ low \in 0..255 /\ high \in 0..255
  BY <1>0, DigitsZ3, HighOfWord
<1>2. old \in 0..255 /\ kept \in 0..255
  BY <1>0, DigitsZ3, HighOfWord
<1> HIDE DEF low, high, old, kept
<1>3. (kept * 256) + low \in Word /\ old + (high * 256) \in Word
  BY <1>1, <1>2, WordOfDigits
<1>4. ((kept * 256) + low) % 256 = low
  <2>1. kept \in Nat
    BY <1>2
  <2>2. QED
    BY <1>1, <2>1, LowDigitZ3
<1>5. QED
  BY <1>1, <1>3, <1>4 DEF low, high, old, kept

\* The list of Z2 boards that the configuration asks for.
LEMMA Z2ListIsSeq ==
  ASSUME NEW s \in SetVars
  PROVE  /\ Z2List(s) \in Seq(Z2Boards)
         /\ \A b \in ToSet(s) : \E i \in 1..Len(Z2List(s)) : Z2List(s)[i] = b
<1>1. s \in Seq(Devices) /\ Z2Fast \in Seq(RAM)
  BY NamesAssumption DEF NamesAssumption
<1>2. s \in Seq(Z2Boards)
  BY <1>1, SeqMonotonic DEF Z2Boards
<1>3. Z2Fast \in Seq(Z2Boards)
  <2>1. Len(Z2Fast) \in Nat /\ DOMAIN Z2Fast = 1..Len(Z2Fast)
    BY <1>1, LenProperties
  <2>2. \A i \in 1..Len(Z2Fast) : Z2Fast[i] \in Z2Boards
    BY <2>1 DEF Z2Boards, ToSet
  <2>3. QED
    BY <1>1, <2>1, <2>2
<1>4. <<"pistorm-dev">> \in Seq(Z2Boards)
  <2>1. "pistorm-dev" \in Z2Boards
    <3>1. "pistorm-dev" \in Devices
      BY DEF Devices
    <3>2. QED
      BY <3>1 DEF Z2Boards
  <2>2. QED
    BY <2>1
<1> DEFINE t == s \o Z2Fast
<1>5. /\ t \in Seq(Z2Boards) /\ Len(t) = Len(s) + Len(Z2Fast)
      /\ \A i \in 1..Len(s) : t[i] = s[i]
      /\ Len(s) \in Nat /\ Len(Z2Fast) \in Nat /\ DOMAIN s = 1..Len(s)
  BY <1>2, <1>3, ConcatProperties, LenProperties
<1> HIDE DEF t
<1>6. /\ t \o <<"pistorm-dev">> \in Seq(Z2Boards)
      /\ Len(t \o <<"pistorm-dev">>) = Len(t) + 1
      /\ \A i \in 1..Len(t) : (t \o <<"pistorm-dev">>)[i] = t[i]
  BY <1>4, <1>5, ConcatProperties
<1>7. Z2List(s) = t \o <<"pistorm-dev">>
  BY DEF Z2List, t
<1>8. \A i \in 1..Len(s) : Z2List(s)[i] = s[i] /\ i \in 1..Len(Z2List(s))
  BY <1>5, <1>6, <1>7
<1>9. \A b \in ToSet(s) : \E i \in 1..Len(s) : s[i] = b
  BY <1>5 DEF ToSet
<1>10. QED
  BY <1>6, <1>7, <1>8, <1>9

\* The list of Z2 boards that there are: the beginning of it.
LEMMA Lists ==
  ASSUME devices \in SetVars
  PROVE  /\ Z2Pics \in Seq(Z2Boards) /\ Len(Z2Pics) \in 0..AC_PIC_LIMIT
         /\ \A i \in 1..Len(Z2Pics) : Z2Pics[i] \in Z2Boards
         /\ \A i, j \in 1..Len(Z2Pics) : Z2Pics[i] = Z2Pics[j] => i = j
         /\ \A i \in 1..Len(Z2Pics) : Z2Pics[i] \in ToSet(Z2Pics)
         /\ ToSet(Z2Pics) \subseteq Z2Boards
         /\ \A b \in ToSet(Z2Pics) : \E i \in 1..Len(Z2Pics) : Z2Pics[i] = b
<1> DEFINE all == Z2List(devices)
           n == Min({Len(all), AC_PIC_LIMIT})
<1>1. all \in Seq(Z2Boards) /\ IsInjective(all)
  BY Z2ListIsSeq, NamesAssumption DEF NamesAssumption
<1> HIDE DEF all
<1>2. Len(all) \in Nat /\ DOMAIN all = 1..Len(all)
  BY <1>1, LenProperties
<1>3. n \in {Len(all), AC_PIC_LIMIT} /\ n <= Len(all) /\ n <= AC_PIC_LIMIT /\ n \in Nat
  <2>1. {Len(all), AC_PIC_LIMIT} \in SUBSET Nat /\ {Len(all), AC_PIC_LIMIT} # {}
    BY <1>2, SizesAssumption DEF SizesAssumption
  <2>2. QED
    BY <2>1, MinIsLeast
<1> HIDE DEF n
<1>4. Z2Pics = SubSeq(all, 1, n)
  BY DEF Z2Pics, all, n
<1>5. /\ Z2Pics \in Seq(Z2Boards) /\ Len(Z2Pics) = n
      /\ \A i \in 1..n : Z2Pics[i] = all[i]
  <2>1. \A i \in 1..n : all[i] \in Z2Boards
    <3>1. \A i \in 1..Len(all) : all[i] \in Z2Boards
      BY <1>1, ElementOfSeq
    <3>2. n \in Nat /\ Len(all) \in Nat /\ n <= Len(all)
      BY <1>2, <1>3
    <3>3. \A i \in 1..n : i \in 1..Len(all)
      BY <3>2
    <3>4. QED
      BY <3>1, <3>3
  <2>2. /\ SubSeq(all, 1, n) \in Seq(Z2Boards)
        /\ Len(SubSeq(all, 1, n)) = IF 1 <= n THEN n - 1 + 1 ELSE 0
        /\ \A i \in 1..(n - 1 + 1) : SubSeq(all, 1, n)[i] = all[1 + i - 1]
    <3>1. 1 \in Int /\ n \in Int
      BY <1>3
    <3>2. QED
      BY <2>1, <3>1, SubSeqProperties
  <2>3. n - 1 + 1 = n /\ (IF 1 <= n THEN n - 1 + 1 ELSE 0) = n
    BY <1>3
  <2>4. \A i \in 1..n : 1 + i - 1 = i
    OBVIOUS
  <2>5. QED
    BY <1>4, <2>2, <2>3, <2>4
<1>6. DOMAIN Z2Pics = 1..n
  BY <1>5, LenProperties
<1>7. \A i \in 1..n : i \in DOMAIN all
  <2>1. n \in Nat /\ Len(all) \in Nat /\ n <= Len(all)
    BY <1>2, <1>3
  <2>2. ASSUME NEW i \in 1..n PROVE i \in 1..Len(all)
    BY <2>1
  <2>3. QED
    BY <1>2, <2>2
<1>8. \A i \in 1..n : Z2Pics[i] \in Z2Boards
  BY <1>5, <1>6, ElementOfSeq
<1>9. \A i, j \in 1..n : Z2Pics[i] = Z2Pics[j] => i = j
  BY <1>1, <1>5, <1>7 DEF IsInjective
<1>10. Len(Z2Pics) \in 0..AC_PIC_LIMIT
  BY <1>3, <1>5, SizesAssumption DEF SizesAssumption
<1>11. /\ \A i \in 1..n : Z2Pics[i] \in ToSet(Z2Pics)
       /\ \A b \in ToSet(Z2Pics) : \E i \in 1..n : Z2Pics[i] = b
  BY <1>6 DEF ToSet
<1>12. QED
  BY <1>5, <1>8, <1>9, <1>10, <1>11

LEMMA Z3List ==
  /\ Z3Pics \in Seq(Z3Boards) /\ Len(Z3Pics) \in 0..AC_PIC_LIMIT
  /\ ToSet(Z3Pics) = Z3Boards
  /\ \A i \in 1..Len(Z3Pics) : Z3Pics[i] \in Z3Boards
  /\ \A i, j \in 1..Len(Z3Pics) : Z3Pics[i] = Z3Pics[j] => i = j
<1>1. Z3Pics \in Seq(RAM) /\ Len(Z3Pics) \in Nat /\ DOMAIN Z3Pics = 1..Len(Z3Pics)
  BY NamesAssumption, LenProperties DEF NamesAssumption, Z3Pics
<1>2. \A i \in 1..Len(Z3Pics) : Z3Pics[i] \in Z3Boards
  BY <1>1 DEF Z3Pics, Z3Boards, ToSet
<1>3. Z3Pics \in Seq(Z3Boards)
  BY <1>1, <1>2
<1>4. \A i, j \in 1..Len(Z3Pics) : Z3Pics[i] = Z3Pics[j] => i = j
  BY <1>1, NamesAssumption DEF NamesAssumption, Z3Pics, IsInjective
<1>5. QED
  BY <1>1, <1>2, <1>3, <1>4, SizesAssumption DEF SizesAssumption, Z3Pics, Z3Boards

LEMMA OwnList ==
  /\ Len(Own) \in Nat
  /\ \A i \in 1..Len(Own) : Own[i] \in ToSet(Own)
  /\ \A i, j \in 1..Len(Own) : Own[i] = Own[j] => i = j
<1>1. Own \in Seq(ToSet(Own)) /\ IsInjective(Own)
  BY NamesAssumption DEF NamesAssumption
<1>2. Len(Own) \in Nat /\ DOMAIN Own = 1..Len(Own)
  BY <1>1, LenProperties
<1>3. QED
  BY <1>1, <1>2 DEF ToSet, IsInjective

\* No board is of two kinds.
LEMMA Names ==
  /\ Z2Boards \intersect Z3Boards = {}
  /\ Devices \intersect RAM = {}
  /\ Devices \union RAM = Z2Boards \union Z3Boards
  /\ Z2Boards = Devices \union ToSet(Z2Fast) /\ RAM = ToSet(Z2Fast) \union Z3Boards
  /\ ToSet(Own) \intersect (Devices \union RAM) = {}
  /\ NoBoard \notin Devices \union RAM \union ToSet(Own)
  /\ \A b : IsEmulated(b) <=> b \in Devices \union RAM
  BY NamesAssumption DEF NamesAssumption, Z2Boards, Z3Boards, RAM, IsEmulated

\* A step does not change the lists.
LEMMA ListsKept ==
  ASSUME UNCHANGED config
  PROVE  /\ Z2Pics' = Z2Pics /\ Boards' = Boards /\ Z3Pics' = Z3Pics
         /\ devices' = devices /\ rtg_enabled' = rtg_enabled
         /\ physical_z2_first' = physical_z2_first /\ plugged' = plugged
  BY DEF config, Z2Pics, Boards, Z3Pics

-----------------------------------------------------------------------------
(* What holds of the board that the program has found. *)

Configured ==
  /\ devices \in SetVars /\ rtg_enabled \in BOOLEAN /\ physical_z2_first \in BOOLEAN
  /\ plugged \in 0..Len(Own)

Ranges == [low : Word, high : Nat, data : RAM]

Typed ==
  /\ prog \in {"read", "low", "high", "done"}
  /\ waiting \in BOOLEAN /\ z2_done \in BOOLEAN /\ z3_done \in BOOLEAN
  /\ z2 \in 0..Len(Z2Pics) /\ (z2_done <=> z2 = Len(Z2Pics))
  /\ z3 \in 0..Len(Z3Pics) /\ (z3_done <=> z3 = Len(Z3Pics))
  /\ taken \in 0..plugged

\* What was found is what a write goes to.
FoundIsThere == prog \in {"low", "high"} => found # NoBoard /\ Taker = found

FoundOwn ==
  /\ taken < plugged /\ taken + 1 \in 1..Len(Own) /\ found = Own[taken + 1]
  /\ found \in ToSet(Own) /\ found \notin Devices /\ found \notin RAM
FoundZ2 ==
  /\ ~z2_done /\ z2 + 1 \in 1..Len(Z2Pics) /\ found = Z2Pics[z2 + 1]
  /\ found \in Z2Boards /\ found \in ToSet(Z2Pics) /\ found \notin Z3Boards
FoundZ3 ==
  /\ ~z3_done /\ z3 + 1 \in 1..Len(Z3Pics) /\ found = Z3Pics[z3 + 1]
  /\ found \in Z3Boards /\ found \in RAM /\ found \notin Devices /\ found \notin Z2Boards

\* The board that answers is the next one of its list.
LEMMA FoundKinds ==
  ASSUME Configured, Typed, FoundIsThere, prog \in {"low", "high"}
  PROVE  FoundOwn \/ FoundZ2 \/ FoundZ3
<1>0. found # NoBoard /\ found = Taker
  BY DEF FoundIsThere
<1>1. /\ z2 \in 0..Len(Z2Pics) /\ z3 \in 0..Len(Z3Pics) /\ taken \in 0..plugged
      /\ Len(Z2Pics) \in Nat /\ Len(Z3Pics) \in Nat /\ plugged \in 0..Len(Own)
      /\ Len(Own) \in Nat
  BY Lists, Z3List, OwnList DEF Typed, Configured
<1>2. \/ found = OnBus
      \/ Z2There /\ found = Z2Pics[z2 + 1]
      \/ Z3There /\ found = Z3Pics[z3 + 1]
  BY <1>0 DEF Taker, Answers
<1>3. CASE found = OnBus
  <2>1. taken < plugged /\ found = Own[taken + 1]
    BY <1>0, <1>3 DEF OnBus
  <2>2. taken + 1 \in 1..Len(Own)
    BY <1>1, <2>1
  <2>3. QED
    BY <2>1, <2>2, OwnList, Names DEF FoundOwn
<1>4. CASE Z2There /\ found = Z2Pics[z2 + 1]
  <2>1. z2 + 1 \in 1..Len(Z2Pics)
    BY <1>1, <1>4 DEF Z2There
  <2>2. found \in Z2Boards /\ found \in ToSet(Z2Pics)
    BY <1>4, <2>1, Lists DEF Configured
  <2>3. QED
    BY <1>4, <2>1, <2>2, Names DEF FoundZ2, Z2There
<1>5. CASE Z3There /\ found = Z3Pics[z3 + 1]
  <2>1. z3 + 1 \in 1..Len(Z3Pics)
    BY <1>1, <1>5 DEF Z3There
  <2>2. found \in Z3Boards
    BY <1>5, <2>1, Z3List
  <2>3. QED
    BY <1>5, <2>1, <2>2, Names DEF FoundZ3, Z3There
<1>6. QED
  BY <1>2, <1>3, <1>4, <1>5

-----------------------------------------------------------------------------
(* What a step does, by the kind of board. *)

LowZ2Device ==
  /\ FoundZ2 /\ found \in Devices
  /\ dev_base' = [dev_base EXCEPT ![found] = Base[found] % 16]
  /\ UNCHANGED ac_base
LowZ2Memory ==
  /\ FoundZ2 /\ found \in ToSet(Z2Fast) /\ found \notin Devices
  /\ ac_base' = [ac_base EXCEPT ![z2 + 1] = Base[found] % 16]
  /\ UNCHANGED dev_base
LowZ3Memory ==
  /\ FoundZ3
  /\ ac_base' = [ac_base EXCEPT ![z3 + 1] =
                   ((ac_base[z3 + 1] \div 256) * 256) + (Base[found] % 256)]
  /\ UNCHANGED dev_base
LowOwn == FoundOwn /\ UNCHANGED <<ac_base, dev_base>>

\* What the registers of its kind look at.
LEMMA Kind ==
  ASSUME Configured, Typed, FoundIsThere, prog \in {"low", "high"}
  PROVE  /\ Taker = found
         /\ \/ FoundZ2 /\ found \in Devices /\ found \notin RAM /\ ~(found \in ToSet(Z3Pics))
            \/ FoundZ2 /\ found \in ToSet(Z2Fast) /\ found \in RAM /\ found \notin Devices
                       /\ ~(found \in ToSet(Z3Pics))
            \/ FoundZ3 /\ found \in RAM /\ found \in ToSet(Z3Pics)
            \/ FoundOwn /\ ~IsEmulated(found) /\ ~(found \in ToSet(Z3Pics))
<1>1. Taker = found
  BY DEF FoundIsThere
<1>2. ToSet(Z3Pics) = Z3Boards
  BY Z3List
<1>3. CASE FoundZ2
  BY <1>1, <1>2, <1>3, Names DEF FoundZ2
<1>4. CASE FoundZ3
  BY <1>1, <1>2, <1>4, Names DEF FoundZ3
<1>5. CASE FoundOwn
  BY <1>1, <1>2, <1>5, Names DEF FoundOwn
<1>6. QED
  BY <1>3, <1>4, <1>5, FoundKinds

\* The low digit changes the base of this board only.
LEMMA LowEffect ==
  ASSUME Configured, Typed, FoundIsThere, WriteLow
  PROVE  LowOwn \/ LowZ2Device \/ LowZ2Memory \/ LowZ3Memory
<1>1. /\ prog \in {"low", "high"}
      /\ IF IsEmulated(Taker) THEN SetBase(Taker, LowWritten(Taker))
                              ELSE UNCHANGED <<ac_base, dev_base>>
  BY DEF WriteLow
<1>2. CASE FoundZ2 /\ found \in Devices /\ found \notin RAM /\ ~(found \in ToSet(Z3Pics))
  BY <1>1, <1>2, Kind DEF LowZ2Device, IsEmulated, SetBase, LowWritten, LowDigit, Radix
<1>3. CASE FoundZ2 /\ found \in ToSet(Z2Fast) /\ found \in RAM /\ found \notin Devices
           /\ ~(found \in ToSet(Z3Pics))
  BY <1>1, <1>3, Kind DEF LowZ2Memory, IsEmulated, SetBase, LowWritten, LowDigit, Radix, Slot
<1>4. CASE FoundZ3 /\ found \in RAM /\ found \in ToSet(Z3Pics)
  BY <1>1, <1>4, Kind DEF LowZ3Memory, IsEmulated, SetBase, LowWritten, LowDigit, Radix,
                          Slot, BaseNow
<1>5. CASE FoundOwn /\ ~IsEmulated(found) /\ ~(found \in ToSet(Z3Pics))
  BY <1>1, <1>5, Kind DEF LowOwn
<1>6. QED
  BY <1>1, <1>2, <1>3, <1>4, <1>5, Kind

Gives == given' = given \union {found} /\ UNCHANGED shut
Refuses == shut' = shut \union {found} /\ UNCHANGED given /\ found \in Shuts

Adjusts ==
  IF z2_done' # z2_done \/ z3_done' # z3_done
  THEN /\ custom' = CustomRange(DoneAfter, dev_base')
       /\ mapped' = MappedRange(map_offset')
  ELSE UNCHANGED platform
NextZ2 ==
  /\ z2' = z2 + 1 /\ z2_done' = (z2' = Len(Z2Pics')) /\ UNCHANGED <<z3, z3_done, taken>>
NextZ3 ==
  /\ z3' = z3 + 1 /\ z3_done' = (z3' = Len(Z3Pics')) /\ UNCHANGED <<z2, z2_done, taken>>
Maps(slot) ==
  /\ map_offset' = [map_offset EXCEPT ![found] = ac_base'[slot]]
  /\ AddRamRange(ac_base'[slot], found)

EndOwn ==
  /\ FoundOwn /\ (Gives \/ Refuses)
  /\ taken' = taken + 1 /\ UNCHANGED <<pics, bases, ranges, platform>>
EndZ2Device ==
  /\ FoundZ2 /\ found \in Devices /\ found \notin RAM
  /\ \/ Gives /\ dev_base' = [dev_base EXCEPT ![found] = Base[found]]
     \/ Refuses /\ UNCHANGED dev_base
  /\ NextZ2 /\ Adjusts /\ UNCHANGED <<ac_base, map_offset, ranges>>
EndZ2Memory ==
  /\ FoundZ2 /\ found \in ToSet(Z2Fast) /\ found \in RAM /\ found \notin Devices
  /\ \/ Gives /\ ac_base' = [ac_base EXCEPT ![z2 + 1] = Base[found]]
     \/ Refuses /\ UNCHANGED ac_base
  /\ NextZ2 /\ Adjusts /\ Maps(z2 + 1) /\ UNCHANGED dev_base
EndZ3Memory ==
  /\ FoundZ3 /\ found \in RAM
  /\ \/ Gives /\ ac_base' = [ac_base EXCEPT ![z3 + 1] = Base[found]]
     \/ Refuses /\ UNCHANGED ac_base
  /\ NextZ3 /\ Adjusts /\ Maps(z3 + 1) /\ UNCHANGED dev_base
Ends ==
  /\ prog \in {"low", "high"} /\ prog' = "read"
  /\ UNCHANGED <<found, config, waiting, resets>>
  /\ EndOwn \/ EndZ2Device \/ EndZ2Memory \/ EndZ3Memory

\* Between the two writes the low digit is in place.
LowKept ==
  prog = "high" =>
    /\ found \in Devices => dev_base[found] % 16 = Base[found] % 16
    /\ found \in ToSet(Z2Fast) => ac_base[z2 + 1] % 16 = Base[found] % 16
    /\ found \in Z3Boards => ac_base[z3 + 1] % 256 = Base[found] % 256

\* The addresses are in range.
LEMMA BaseTypes ==
  /\ \A b \in Z2Boards : Base[b] \in 0..255 /\ Base[b] \in Word
  /\ \A b \in Z3Boards : Base[b] \in Word
  /\ \A b \in RAM : Base[b] \in Word /\ Size[b] \in Nat \ {0} /\ ConfigBase[b] \in Word
  /\ \A b \in Z2Boards \union Z3Boards : Base[b] \in Nat
<1>1. /\ \A b \in Z2Boards : Base[b] \in 0..255
      /\ \A b \in Z3Boards : Base[b] \in Word
      /\ \A b \in RAM : Size[b] \in Nat \ {0} /\ ConfigBase[b] \in Word
  BY SizesAssumption DEF SizesAssumption, Z2Boards, Z3Boards
<1>2. \A b \in Z2Boards : Base[b] \in Word
  BY <1>1, ByteIsWord
<1>3. \A b \in RAM : b \in Z2Boards \/ b \in Z3Boards
  BY Names
<1>4. \A b \in Z2Boards \union Z3Boards : Base[b] \in Nat
  BY <1>1, <1>2, WordIsNat
<1>5. QED
  BY <1>1, <1>2, <1>3, <1>4

\* The three ways in which a board's configuration ends, for a board b.
LEMMA NextPicOfZ2 ==
  ASSUME NEW b, UNCHANGED config, NextPic(b), ~(b \in ToSet(Z3Pics))
  PROVE  /\ NextZ2 /\ Adjusts
         /\ b \in RAM => map_offset' = [map_offset EXCEPT ![b] = ac_base'[z2 + 1]]
                         /\ AddRamRange(ac_base'[z2 + 1], b)
         /\ b \notin RAM => UNCHANGED <<map_offset, ranges>>
<1>1. Z2Pics' = Z2Pics
  BY ListsKept
<1>2. Slot(b) = z2 + 1
  BY DEF Slot
<1>3. NextZ2
  BY <1>1 DEF NextPic, NextZ2, AllSeen
<1>4. Adjusts
  BY DEF NextPic, Adjusts
<1>5. /\ b \in RAM => map_offset' = [map_offset EXCEPT ![b] = ac_base'[z2 + 1]]
                         /\ AddRamRange(ac_base'[z2 + 1], b)
      /\ b \notin RAM => UNCHANGED <<map_offset, ranges>>
  BY <1>2 DEF NextPic
<1>6. QED
  BY <1>3, <1>4, <1>5

LEMMA NextPicOfZ3 ==
  ASSUME NEW b \in RAM, UNCHANGED config, NextPic(b), b \in ToSet(Z3Pics)
  PROVE  /\ NextZ3 /\ Adjusts
         /\ map_offset' = [map_offset EXCEPT ![b] = ac_base'[z3 + 1]]
         /\ AddRamRange(ac_base'[z3 + 1], b)
<1>1. Z3Pics' = Z3Pics
  BY ListsKept
<1>2. Slot(b) = z3 + 1
  BY DEF Slot
<1>3. NextZ3
  BY <1>1 DEF NextPic, NextZ3, AllSeen
<1>4. Adjusts
  BY DEF NextPic, Adjusts
<1>5. /\ map_offset' = [map_offset EXCEPT ![b] = ac_base'[z3 + 1]]
      /\ AddRamRange(ac_base'[z3 + 1], b)
  BY <1>2 DEF NextPic
<1>6. QED
  BY <1>3, <1>4, <1>5

\* The high digit makes it the address that the program means.
LEMMA HighWrittenIsBase ==
  ASSUME Configured, Typed, FoundIsThere, LowKept, prog = "high", IsEmulated(found)
  PROVE  HighWritten(found) = Base[found]
<1>0. prog \in {"low", "high"}
  OBVIOUS
<1>1. CASE FoundZ2 /\ found \in Devices /\ found \notin RAM /\ ~(found \in ToSet(Z3Pics))
  <2>1. HighWritten(found) = (dev_base[found] % 16) + ((Base[found] \div 16) * 16)
    BY <1>1 DEF HighWritten, BaseNow, HighDigit, Radix
  <2>2. dev_base[found] % 16 = Base[found] % 16
    BY <1>1 DEF LowKept
  <2>3. Base[found] \in Nat
    BY <1>1, BaseTypes DEF FoundZ2
  <2>4. QED
    BY <2>1, <2>2, <2>3, DigitsZ2
<1>2. CASE FoundZ2 /\ found \in ToSet(Z2Fast) /\ found \in RAM /\ found \notin Devices
           /\ ~(found \in ToSet(Z3Pics))
  <2>1. HighWritten(found) = (ac_base[z2 + 1] % 16) + ((Base[found] \div 16) * 16)
    BY <1>2 DEF HighWritten, BaseNow, HighDigit, Radix, Slot
  <2>2. ac_base[z2 + 1] % 16 = Base[found] % 16
    BY <1>2 DEF LowKept
  <2>3. Base[found] \in Nat
    BY <1>2, BaseTypes DEF FoundZ2
  <2>4. QED
    BY <2>1, <2>2, <2>3, DigitsZ2
<1>3. CASE FoundZ3 /\ found \in RAM /\ found \in ToSet(Z3Pics)
  <2>1. HighWritten(found) = (ac_base[z3 + 1] % 256) + ((Base[found] \div 256) * 256)
    BY <1>3 DEF HighWritten, BaseNow, HighDigit, Radix, Slot
  <2>2. ac_base[z3 + 1] % 256 = Base[found] % 256
    BY <1>3 DEF LowKept, FoundZ3
  <2>3. Base[found] \in Nat
    BY <1>3, BaseTypes, WordIsNat DEF FoundZ3
  <2>4. QED
    BY <2>1, <2>2, <2>3, DigitsZ3
<1>4. QED
  BY <1>0, <1>1, <1>2, <1>3, Kind

\* A board that has its address, or is shut up, goes by its kind.
LEMMA EndOf ==
  ASSUME Configured, Typed, FoundIsThere, prog \in {"low", "high"}, prog' = "read",
         UNCHANGED <<found, config, waiting, resets>>,
         IF IsEmulated(found) THEN NextPic(found) ELSE NextPlugged,
         \/ Gives /\ (IsEmulated(found) => SetBase(found, Base[found]))
         \/ Refuses /\ (IsEmulated(found) => UNCHANGED <<ac_base, dev_base>>)
  PROVE  Ends
<1>0. UNCHANGED config
  OBVIOUS
<1>1. CASE FoundZ2 /\ found \in Devices /\ found \notin RAM /\ ~(found \in ToSet(Z3Pics))
  <2>1. IsEmulated(found) /\ NextPic(found)
    BY <1>1 DEF IsEmulated
  <2>2. NextZ2 /\ Adjusts /\ UNCHANGED <<map_offset, ranges>>
    BY <1>0, <1>1, <2>1, NextPicOfZ2
  <2>3. \/ Gives /\ dev_base' = [dev_base EXCEPT ![found] = Base[found]] /\ UNCHANGED ac_base
        \/ Refuses /\ UNCHANGED dev_base /\ UNCHANGED ac_base
    BY <1>1, <2>1 DEF SetBase
  <2>4. EndZ2Device
    BY <1>1, <2>2, <2>3 DEF EndZ2Device, ranges
  <2>5. QED
    BY <2>4 DEF Ends
<1>2. CASE FoundZ2 /\ found \in ToSet(Z2Fast) /\ found \in RAM /\ found \notin Devices
           /\ ~(found \in ToSet(Z3Pics))
  <2>1. IsEmulated(found) /\ NextPic(found)
    BY <1>2 DEF IsEmulated
  <2>2. NextZ2 /\ Adjusts /\ Maps(z2 + 1)
    BY <1>0, <1>2, <2>1, NextPicOfZ2 DEF Maps
  <2>3. \/ Gives /\ ac_base' = [ac_base EXCEPT ![z2 + 1] = Base[found]] /\ UNCHANGED dev_base
        \/ Refuses /\ UNCHANGED dev_base /\ UNCHANGED ac_base
    BY <1>2, <2>1 DEF SetBase, Slot
  <2>4. EndZ2Memory
    BY <1>2, <2>2, <2>3 DEF EndZ2Memory
  <2>5. QED
    BY <2>4 DEF Ends
<1>3. CASE FoundZ3 /\ found \in RAM /\ found \in ToSet(Z3Pics)
  <2>1. IsEmulated(found) /\ NextPic(found)
    BY <1>3 DEF IsEmulated
  <2>2. NextZ3 /\ Adjusts /\ Maps(z3 + 1)
    BY <1>0, <1>3, <2>1, NextPicOfZ3 DEF Maps
  <2>3. \/ Gives /\ ac_base' = [ac_base EXCEPT ![z3 + 1] = Base[found]] /\ UNCHANGED dev_base
        \/ Refuses /\ UNCHANGED dev_base /\ UNCHANGED ac_base
    BY <1>3, <2>1 DEF SetBase, Slot
  <2>4. EndZ3Memory
    BY <1>3, <2>2, <2>3 DEF EndZ3Memory
  <2>5. QED
    BY <2>4 DEF Ends
<1>4. CASE FoundOwn /\ ~IsEmulated(found) /\ ~(found \in ToSet(Z3Pics))
  <2>1. EndOwn
    BY <1>4 DEF EndOwn, NextPlugged
  <2>2. QED
    BY <2>1 DEF Ends
<1>5. QED
  BY <1>1, <1>2, <1>3, <1>4, Kind

LEMMA EndEffect ==
  ASSUME Configured, Typed, FoundIsThere, LowKept, WriteHigh \/ WriteWord \/ ShutUp
  PROVE  Ends
<1>1. CASE WriteHigh
  <2>1. prog = "high" /\ prog' = "read" /\ UNCHANGED <<found, config, waiting, resets>> /\ Gives
    BY <1>1 DEF WriteHigh, ProgramGoesOn, Gives
  <2>2. Taker = found
    BY <2>1, Kind
  <2>3. /\ IF IsEmulated(found) THEN NextPic(found) ELSE NextPlugged
        /\ IsEmulated(found) => SetBase(found, HighWritten(found))
    BY <1>1, <2>2 DEF WriteHigh
  <2>4. IsEmulated(found) => SetBase(found, Base[found])
    BY <2>1, <2>3, HighWrittenIsBase
  <2>5. prog \in {"low", "high"}
    BY <2>1
  <2>6. QED
    BY <2>1, <2>3, <2>4, <2>5, EndOf
<1>2. CASE WriteWord
  <2>1. prog = "low" /\ prog' = "read" /\ UNCHANGED <<found, config, waiting, resets>> /\ Gives
    BY <1>2 DEF WriteWord, ProgramGoesOn, Gives
  <2>2. prog \in {"low", "high"}
    BY <2>1
  <2>3. Taker = found
    BY <2>2, Kind
  <2>4. SetBase(found, Base[found]) /\ NextPic(found) /\ found \in ToSet(Z3Pics)
    BY <1>2, <2>3 DEF WriteWord
  <2>5. IsEmulated(found)
    BY <2>2, <2>4, Kind DEF IsEmulated
  <2>6. QED
    BY <2>1, <2>2, <2>4, <2>5, EndOf
<1>3. CASE ShutUp
  <2>1. prog = "low" /\ prog' = "read" /\ UNCHANGED <<found, config, waiting, resets>> /\ Refuses
    BY <1>3 DEF ShutUp, ProgramGoesOn, Refuses
  <2>2. prog \in {"low", "high"}
    BY <2>1
  <2>3. Taker = found
    BY <2>2, Kind
  <2>4. /\ IF IsEmulated(found) THEN NextPic(found) ELSE NextPlugged
        /\ IsEmulated(found) => UNCHANGED <<ac_base, dev_base>>
    BY <1>3, <2>3 DEF ShutUp
  <2>5. QED
    BY <2>1, <2>2, <2>4, EndOf
<1>4. QED
  BY <1>1, <1>2, <1>3

Lows ==
  /\ prog = "low" /\ prog' = "high"
  /\ UNCHANGED <<config, found, given, shut, pics, map_offset, ranges, platform,
                 waiting, taken, resets>>
  /\ LowOwn \/ LowZ2Device \/ LowZ2Memory \/ LowZ3Memory

\* The steps, by their effect.
LEMMA Steps ==
  ASSUME Configured, Typed, FoundIsThere, LowKept, [Next]_vars
  PROVE  ReadType \/ Lows \/ Ends \/ Reset \/ UNCHANGED vars
<1>1. CASE WriteLow
  <2>1. LowOwn \/ LowZ2Device \/ LowZ2Memory \/ LowZ3Memory
    BY <1>1, LowEffect
  <2>2. Lows
    BY <1>1, <2>1 DEF Lows, WriteLow
  <2>3. QED
    BY <2>2
<1>2. CASE WriteHigh \/ WriteWord \/ ShutUp
  BY <1>2, EndEffect
<1>3. QED
  BY <1>1, <1>2 DEF Next, ProgramStep

-----------------------------------------------------------------------------
(* The parts of the invariant, each kept by every step. *)

\* The bases are numbers of as many bits as their registers have.
Bases ==
  /\ ac_base \in [1..AC_PIC_LIMIT -> Word] /\ dev_base \in [Devices -> 0..255]
  /\ map_offset \in [RAM -> Word]

LEMMA ConfiguredStep ==
  ASSUME Configured, [Next]_vars
  PROVE  Configured'
<1>1. UNCHANGED config
  BY DEF Next, ProgramStep, ReadType, WriteLow, WriteHigh, WriteWord, ShutUp, Reset, vars, config
<1>2. QED
  BY <1>1 DEF Configured, config

LEMMA TypedStep ==
  ASSUME Configured, Typed, FoundIsThere, LowKept, [Next]_vars
  PROVE  Typed'
<1>0. /\ z2 \in 0..Len(Z2Pics) /\ z3 \in 0..Len(Z3Pics) /\ taken \in 0..plugged
      /\ Len(Z2Pics) \in Nat /\ Len(Z3Pics) \in Nat /\ plugged \in Nat
      /\ Len(Own) \in Nat
  BY Lists, Z3List, OwnList DEF Typed, Configured
<1>1. CASE ReadType
  <2>1. UNCHANGED <<config, pics, taken>>
    BY <1>1 DEF ReadType
  <2>2. Z2Pics' = Z2Pics /\ Z3Pics' = Z3Pics /\ plugged' = plugged
    BY <2>1, ListsKept
  <2>3. waiting' \in BOOLEAN
    BY <1>1 DEF ReadType, Waits, Typed
  <2>4. prog' \in {"read", "low", "high", "done"}
    BY <1>1 DEF ReadType
  <2>5. QED
    BY <2>1, <2>2, <2>3, <2>4 DEF Typed, pics
<1>2. CASE Lows
  <2>1. UNCHANGED <<config, pics, taken, waiting>> /\ prog' = "high"
    BY <1>2 DEF Lows
  <2>2. Z2Pics' = Z2Pics /\ Z3Pics' = Z3Pics /\ plugged' = plugged
    BY <2>1, ListsKept
  <2>3. QED
    BY <2>1, <2>2 DEF Typed, pics
<1>3. CASE Ends
  <2>1. UNCHANGED <<config, waiting>> /\ prog' = "read"
    BY <1>3 DEF Ends
  <2>2. Z2Pics' = Z2Pics /\ Z3Pics' = Z3Pics /\ plugged' = plugged
    BY <2>1, ListsKept
  <2>3. CASE EndOwn
    <3>1. taken' \in 0..plugged'
      BY <1>0, <2>2, <2>3 DEF EndOwn, FoundOwn
    <3>2. UNCHANGED pics
      BY <2>3 DEF EndOwn
    <3>3. QED
      BY <2>1, <2>2, <3>1, <3>2 DEF Typed, pics
  <2>4. CASE FoundZ2 /\ NextZ2
    <3>1. z2' = z2 + 1 /\ z2 + 1 \in 0..Len(Z2Pics) /\ UNCHANGED <<z3, z3_done, taken>>
      BY <2>4 DEF NextZ2, FoundZ2
    <3>2. (z2_done' <=> z2' = Len(Z2Pics')) /\ z2_done' \in BOOLEAN
      BY <2>4 DEF NextZ2
    <3>3. QED
      BY <2>1, <2>2, <3>1, <3>2 DEF Typed
  <2>5. CASE FoundZ3 /\ NextZ3
    <3>1. z3' = z3 + 1 /\ z3 + 1 \in 0..Len(Z3Pics) /\ UNCHANGED <<z2, z2_done, taken>>
      BY <2>5 DEF NextZ3, FoundZ3
    <3>2. (z3_done' <=> z3' = Len(Z3Pics')) /\ z3_done' \in BOOLEAN
      BY <2>5 DEF NextZ3
    <3>3. QED
      BY <2>1, <2>2, <3>1, <3>2 DEF Typed
  <2>6. QED
    BY <1>3, <2>3, <2>4, <2>5 DEF Ends, EndZ2Device, EndZ2Memory, EndZ3Memory
<1>4. CASE Reset
  <2>1. UNCHANGED config /\ z2' = 0 /\ z3' = 0 /\ taken' = 0 /\ waiting' = FALSE /\ prog' = "read"
    BY <1>4 DEF Reset
  <2>2. Z2Pics' = Z2Pics /\ Z3Pics' = Z3Pics /\ plugged' = plugged
    BY <2>1, ListsKept
  <2>3. z2_done' = (Z2Pics = <<>>) /\ z3_done' = (Z3Pics = <<>>)
    BY <1>4 DEF Reset
  <2>4. (Z2Pics = <<>> <=> 0 = Len(Z2Pics)) /\ (Z3Pics = <<>> <=> 0 = Len(Z3Pics))
    <3>1. Z2Pics \in Seq(Z2Boards) /\ Z3Pics \in Seq(Z3Boards)
      BY Lists, Z3List DEF Configured
    <3>2. QED
      BY <3>1, EmptySeq
  <2>5. (z2_done' <=> 0 = Len(Z2Pics)) /\ (z3_done' <=> 0 = Len(Z3Pics))
    BY <2>3, <2>4
  <2>6. z2_done' \in BOOLEAN /\ z3_done' \in BOOLEAN
    BY <2>3
  <2>7. 0 \in 0..Len(Z2Pics) /\ 0 \in 0..Len(Z3Pics) /\ 0 \in 0..plugged
    BY <1>0
  <2>8. QED
    BY <2>1, <2>2, <2>5, <2>6, <2>7 DEF Typed
<1>5. CASE UNCHANGED vars
  <2>1. UNCHANGED <<config, pics, taken, waiting, prog>>
    BY <1>5 DEF vars, program
  <2>2. Z2Pics' = Z2Pics /\ Z3Pics' = Z3Pics /\ plugged' = plugged
    BY <2>1, ListsKept
  <2>3. QED
    BY <2>1, <2>2 DEF Typed, pics
<1>6. QED
  BY <1>1, <1>2, <1>3, <1>4, <1>5, Steps

LEMMA FoundIsThereStep ==
  ASSUME Configured, Typed, FoundIsThere, LowKept, [Next]_vars
  PROVE  FoundIsThere'
<1> DEFINE looked == <<config, pics, custom, waiting, taken, found>>
<1>0. ASSUME UNCHANGED looked PROVE Taker' = Taker
  <2>1. UNCHANGED <<config, pics, custom, waiting, taken>>
    BY <1>0
  <2>2. Z2Pics' = Z2Pics /\ Z3Pics' = Z3Pics /\ plugged' = plugged
        /\ physical_z2_first' = physical_z2_first
    BY <2>1, ListsKept
  <2>3. OnBus' = OnBus
    BY <2>1, <2>2 DEF OnBus
  <2>4. Z2There' = Z2There /\ Z3There' = Z3There /\ Enters' = Enters
    BY <2>1, <2>2 DEF Z2There, Z3There, Enters, pics
  <2>5. Passes(waiting)' = Passes(waiting)
    BY <2>1, <2>2, <2>4 DEF Passes
  <2>6. QED
    BY <2>1, <2>2, <2>3, <2>4, <2>5 DEF Taker, Answers, pics
<1>1. CASE ReadType
  <2>1. /\ UNCHANGED <<config, pics, custom, taken>> /\ waiting' = Waits
        /\ found' = Answers(Waits) /\ prog' \in {"done", "low"}
        /\ prog' = "low" => Answers(Waits) # NoBoard
    BY <1>1 DEF ReadType, platform
  <2>2. Z2Pics' = Z2Pics /\ Z3Pics' = Z3Pics /\ plugged' = plugged
        /\ physical_z2_first' = physical_z2_first
    BY <2>1, ListsKept
  <2>3. OnBus' = OnBus
    BY <2>1, <2>2 DEF OnBus
  <2>4. Z2There' = Z2There /\ Z3There' = Z3There /\ Enters' = Enters
    BY <2>1, <2>2 DEF Z2There, Z3There, Enters, pics
  <2>5. Passes(waiting)' = Passes(Waits)
    BY <2>1, <2>2, <2>4 DEF Passes
  <2>6. Answers(waiting)' = Answers(Waits)
    BY <2>1, <2>2, <2>3, <2>4, <2>5 DEF Answers, pics
  <2>7. QED
    BY <2>1, <2>6 DEF FoundIsThere, Taker
<1>2. CASE Lows
  <2>1. UNCHANGED looked /\ prog = "low"
    BY <1>2 DEF Lows, platform
  <2>2. QED
    BY <1>0, <2>1 DEF FoundIsThere
<1>3. CASE Ends \/ Reset
  BY <1>3 DEF Ends, Reset, FoundIsThere
<1>4. CASE UNCHANGED vars
  <2>1. UNCHANGED looked /\ UNCHANGED prog
    BY <1>4 DEF vars, platform, program
  <2>2. QED
    BY <1>0, <2>1 DEF FoundIsThere
<1>5. QED
  BY <1>1, <1>2, <1>3, <1>4, Steps

\* A board on a list has a slot in ac_base.
LEMMA SlotsInside ==
  ASSUME Configured, Typed
  PROVE  /\ FoundZ2 => z2 + 1 \in 1..AC_PIC_LIMIT
         /\ FoundZ3 => z3 + 1 \in 1..AC_PIC_LIMIT
<1>1. Len(Z2Pics) \in 0..AC_PIC_LIMIT /\ Len(Z3Pics) \in 0..AC_PIC_LIMIT /\ AC_PIC_LIMIT \in Nat
  BY Lists, Z3List, SizesAssumption DEF SizesAssumption, Configured
<1>2. ASSUME FoundZ2 PROVE z2 + 1 \in 1..AC_PIC_LIMIT
  <2>1. z2 + 1 \in 1..Len(Z2Pics)
    BY <1>2 DEF FoundZ2
  <2>2. QED
    BY <1>1, <2>1
<1>3. ASSUME FoundZ3 PROVE z3 + 1 \in 1..AC_PIC_LIMIT
  <2>1. z3 + 1 \in 1..Len(Z3Pics)
    BY <1>3 DEF FoundZ3
  <2>2. QED
    BY <1>1, <2>1
<1>4. QED
  BY <1>2, <1>3

LEMMA BasesStep ==
  ASSUME Configured, Typed, FoundIsThere, LowKept, Bases, [Next]_vars
  PROVE  Bases'
<1>0. ac_base \in [1..AC_PIC_LIMIT -> Word] /\ dev_base \in [Devices -> 0..255]
      /\ map_offset \in [RAM -> Word]
  BY DEF Bases
<1>1. CASE ReadType \/ Reset \/ UNCHANGED vars
  BY <1>1 DEF ReadType, Reset, vars, bases, Bases
<1>2. CASE Lows
  <2>0. UNCHANGED map_offset
    BY <1>2 DEF Lows
  <2>1. CASE LowOwn
    BY <2>0, <2>1 DEF LowOwn, Bases
  <2>2. CASE LowZ2Device
    <3>1. Base[found] % 16 \in 0..255
      <4>1. Base[found] \in Nat
        BY <2>2, BaseTypes DEF LowZ2Device, FoundZ2
      <4>2. Base[found] % 16 \in 0..15
        BY <4>1, DigitsZ2
      <4>3. QED
        BY <4>2
    <3>2. dev_base' \in [Devices -> 0..255] /\ ac_base' = ac_base
      BY <1>0, <2>2, <3>1 DEF LowZ2Device
    <3>3. QED
      BY <1>0, <2>0, <3>2 DEF Bases
  <2>3. CASE LowZ2Memory
    <3>1. Base[found] % 16 \in Word
      <4>1. Base[found] \in Nat
        BY <2>3, BaseTypes DEF LowZ2Memory, FoundZ2
      <4>2. Base[found] % 16 \in 0..15
        BY <4>1, DigitsZ2
      <4>3. Base[found] % 16 \in 0..255
        BY <4>2
      <4>4. QED
        BY <4>3, ByteIsWord
    <3>2. ac_base' \in [1..AC_PIC_LIMIT -> Word] /\ dev_base' = dev_base
      BY <1>0, <2>3, <3>1 DEF LowZ2Memory
    <3>3. QED
      BY <1>0, <2>0, <3>2 DEF Bases
  <2>4. CASE LowZ3Memory
    <3>1. Base[found] \in Word /\ ac_base[z3 + 1] \in Word
      BY <1>0, <2>4, BaseTypes, SlotsInside DEF LowZ3Memory, FoundZ3
    <3>2. ((ac_base[z3 + 1] \div 256) * 256) + (Base[found] % 256) \in Word
      BY <3>1, WrittenZ3
    <3>3. ac_base' \in [1..AC_PIC_LIMIT -> Word] /\ dev_base' = dev_base
      BY <1>0, <2>4, <3>2 DEF LowZ3Memory
    <3>4. QED
      BY <1>0, <2>0, <3>3 DEF Bases
  <2>5. QED
    BY <1>2, <2>1, <2>2, <2>3, <2>4 DEF Lows
<1>3. CASE Ends
  <2>1. CASE EndOwn
    BY <2>1 DEF EndOwn, bases, Bases
  <2>2. CASE EndZ2Device
    <3>1. Base[found] \in 0..255
      BY <2>2, BaseTypes DEF EndZ2Device, FoundZ2
    <3>2. dev_base' \in [Devices -> 0..255] /\ ac_base' = ac_base /\ map_offset' = map_offset
      BY <1>0, <2>2, <3>1 DEF EndZ2Device
    <3>3. QED
      BY <1>0, <3>2 DEF Bases
  <2>3. CASE EndZ2Memory \/ EndZ3Memory
    <3>1. Base[found] \in Word
      BY <2>3, BaseTypes DEF EndZ2Memory, EndZ3Memory
    <3>2. ac_base' \in [1..AC_PIC_LIMIT -> Word] /\ dev_base' = dev_base
      BY <1>0, <2>3, <3>1 DEF EndZ2Memory, EndZ3Memory
    <3>3. PICK slot \in 1..AC_PIC_LIMIT : map_offset' = [map_offset EXCEPT ![found] = ac_base'[slot]]
      BY <2>3, SlotsInside DEF EndZ2Memory, EndZ3Memory, Maps
    <3>4. ac_base'[slot] \in Word
      BY <3>2, <3>3
    <3>5. map_offset' \in [RAM -> Word]
      BY <1>0, <3>3, <3>4
    <3>6. QED
      BY <1>0, <3>2, <3>5 DEF Bases
  <2>4. QED
    BY <1>3, <2>1, <2>2, <2>3 DEF Ends
<1>4. QED
  BY <1>1, <1>2, <1>3, Steps

LEMMA LowKeptStep ==
  ASSUME Configured, Typed, FoundIsThere, LowKept, Bases, [Next]_vars
  PROVE  LowKept'
<1>0. ac_base \in [1..AC_PIC_LIMIT -> Word] /\ dev_base \in [Devices -> 0..255]
  BY DEF Bases
<1>1. CASE ReadType \/ Ends \/ Reset
  BY <1>1 DEF ReadType, Ends, Reset, LowKept
<1>2. CASE UNCHANGED vars
  BY <1>2 DEF vars, bases, pics, program, LowKept
<1>3. CASE Lows
  <2>0. found' = found /\ z2' = z2 /\ z3' = z3
    BY <1>3 DEF Lows, pics
  <2>1. CASE LowOwn
    BY <2>0, <2>1, Names DEF LowOwn, FoundOwn, LowKept
  <2>2. CASE LowZ2Device
    <3>1. dev_base'[found] = Base[found] % 16
      BY <1>0, <2>2 DEF LowZ2Device
    <3>2. Base[found] \in 0..255
      BY <2>2, BaseTypes DEF LowZ2Device, FoundZ2
    <3>3. dev_base'[found] % 16 = Base[found] % 16
      BY <3>1, <3>2, WrittenZ2, ByteIsWord
    <3>4. found \notin ToSet(Z2Fast) /\ found \notin Z3Boards
      BY <2>2, Names DEF LowZ2Device
    <3>5. QED
      BY <2>0, <3>3, <3>4 DEF LowKept
  <2>3. CASE LowZ2Memory
    <3>1. ac_base'[z2 + 1] = Base[found] % 16
      BY <1>0, <2>3, SlotsInside DEF LowZ2Memory
    <3>2. Base[found] \in 0..255
      BY <2>3, BaseTypes DEF LowZ2Memory, FoundZ2
    <3>3. ac_base'[z2 + 1] % 16 = Base[found] % 16
      BY <3>1, <3>2, WrittenZ2, ByteIsWord
    <3>4. found \notin Devices /\ found \notin Z3Boards
      BY <2>3 DEF LowZ2Memory, FoundZ2
    <3>5. QED
      BY <2>0, <3>3, <3>4 DEF LowKept
  <2>4. CASE LowZ3Memory
    <3>0. FoundZ3
      BY <2>4 DEF LowZ3Memory
    <3>1. Base[found] \in Word /\ ac_base[z3 + 1] \in Word /\ z3 + 1 \in 1..AC_PIC_LIMIT
      BY <1>0, <3>0, BaseTypes, SlotsInside DEF FoundZ3
    <3>2. ac_base'[z3 + 1] = ((ac_base[z3 + 1] \div 256) * 256) + (Base[found] % 256)
      BY <1>0, <2>4, <3>1 DEF LowZ3Memory
    <3>3. ac_base'[z3 + 1] % 256 = Base[found] % 256
      BY <3>1, <3>2, WrittenZ3
    <3>4. found \notin Devices /\ found \notin ToSet(Z2Fast)
      BY <3>0, Names DEF FoundZ3
    <3>5. QED
      BY <2>0, <3>3, <3>4 DEF LowKept
  <2>5. QED
    BY <1>3, <2>1, <2>2, <2>3, <2>4 DEF Lows
<1>4. QED
  BY <1>1, <1>2, <1>3, Steps

\* The boards that have been shown: their PIC numbers are behind.
Seen(b) ==
  (\E i \in 1..z2 : Z2Pics[i] = b) \/ (\E i \in 1..z3 : Z3Pics[i] = b)
PastSeen == \A b \in Devices \union RAM : b \in given \union shut <=> Seen(b)

\* The same with the board that has been found: it is not among them.
LEMMA FoundIsNew ==
  ASSUME Configured, Typed, FoundZ2 \/ FoundZ3
  PROVE  ~Seen(found) /\ found \in Devices \union RAM
<1>0. z2 \in 0..Len(Z2Pics) /\ z3 \in 0..Len(Z3Pics) /\ Len(Z2Pics) \in Nat /\ Len(Z3Pics) \in Nat
  BY Lists, Z3List DEF Typed, Configured
<1>1. CASE FoundZ2
  <2>1. ASSUME NEW i \in 1..z2 PROVE Z2Pics[i] # found
    <3>1. i \in 1..Len(Z2Pics) /\ z2 + 1 \in 1..Len(Z2Pics) /\ i # z2 + 1
      BY <1>0, <1>1 DEF FoundZ2
    <3>2. QED
      BY <1>1, <3>1, Lists DEF FoundZ2, Configured
  <2>2. ASSUME NEW i \in 1..z3 PROVE Z3Pics[i] # found
    <3>1. i \in 1..Len(Z3Pics)
      BY <1>0
    <3>2. QED
      BY <1>1, <3>1, Z3List DEF FoundZ2
  <2>3. QED
    BY <1>1, <2>1, <2>2, Names DEF Seen, FoundZ2
<1>2. CASE FoundZ3
  <2>1. ASSUME NEW i \in 1..z2 PROVE Z2Pics[i] # found
    <3>1. i \in 1..Len(Z2Pics)
      BY <1>0
    <3>2. QED
      BY <1>2, <3>1, Lists DEF FoundZ3, Configured
  <2>2. ASSUME NEW i \in 1..z3 PROVE Z3Pics[i] # found
    <3>1. i \in 1..Len(Z3Pics) /\ z3 + 1 \in 1..Len(Z3Pics) /\ i # z3 + 1
      BY <1>0, <1>2 DEF FoundZ3
    <3>2. QED
      BY <1>2, <3>1, Z3List DEF FoundZ3
  <2>3. QED
    BY <1>2, <2>1, <2>2, Names DEF Seen, FoundZ3
<1>3. QED
  BY <1>1, <1>2

LEMMA PastSeenStep ==
  ASSUME Configured, Typed, FoundIsThere, LowKept, PastSeen, [Next]_vars
  PROVE  PastSeen'
<1>0. z2 \in Nat /\ z3 \in Nat
  BY Lists, Z3List DEF Typed, Configured
<1>1. CASE ReadType \/ Lows \/ UNCHANGED vars
  <2>1. UNCHANGED <<config, given, shut, pics>>
    BY <1>1 DEF ReadType, Lows, vars, program
  <2>2. Z2Pics' = Z2Pics /\ Z3Pics' = Z3Pics
    BY <2>1, ListsKept
  <2>3. QED
    BY <2>1, <2>2 DEF PastSeen, Seen, pics
<1>2. CASE Reset
  <2>1. z2' = 0 /\ z3' = 0 /\ given' = {} /\ shut' = {}
    BY <1>2 DEF Reset
  <2>2. QED
    BY <2>1 DEF PastSeen, Seen
<1>3. CASE Ends
  <2>0. Z2Pics' = Z2Pics /\ Z3Pics' = Z3Pics
    BY <1>3, ListsKept DEF Ends
  <2>1. given' \union shut' = given \union shut \union {found}
    BY <1>3 DEF Ends, EndOwn, EndZ2Device, EndZ2Memory, EndZ3Memory, Gives, Refuses
  <2>2. CASE EndOwn
    <3>1. found \notin Devices \union RAM /\ UNCHANGED pics
      BY <2>2 DEF EndOwn, FoundOwn
    <3>2. QED
      BY <2>0, <2>1, <3>1 DEF PastSeen, Seen, pics
  <2>3. CASE FoundZ2 /\ NextZ2
    <3>1. z2' = z2 + 1 /\ z3' = z3 /\ found = Z2Pics[z2 + 1]
      BY <2>3 DEF FoundZ2, NextZ2
    <3>2. ASSUME NEW b PROVE Seen(b)' <=> Seen(b) \/ b = found
      <4>1. 1..z2' = (1..z2) \union {z2 + 1}
        BY <1>0, <3>1
      <4>2. QED
        BY <2>0, <3>1, <4>1 DEF Seen
    <3>3. QED
      BY <2>1, <3>2 DEF PastSeen
  <2>4. CASE FoundZ3 /\ NextZ3
    <3>1. z3' = z3 + 1 /\ z2' = z2 /\ found = Z3Pics[z3 + 1]
      BY <2>4 DEF FoundZ3, NextZ3
    <3>2. ASSUME NEW b PROVE Seen(b)' <=> Seen(b) \/ b = found
      <4>1. 1..z3' = (1..z3) \union {z3 + 1}
        BY <1>0, <3>1
      <4>2. QED
        BY <2>0, <3>1, <4>1 DEF Seen
    <3>3. QED
      BY <2>1, <3>2 DEF PastSeen
  <2>5. QED
    BY <1>3, <2>2, <2>3, <2>4 DEF Ends, EndZ2Device, EndZ2Memory, EndZ3Memory
<1>4. QED
  BY <1>1, <1>2, <1>3, Steps

\* The Amiga's own boards that are done with are the first ones.
OwnDone == {b \in given \union shut : ~IsEmulated(b)}
OwnTaken ==
  /\ \A b \in OwnDone : \E i \in 1..taken : Own[i] = b
  /\ IsFiniteSet(OwnDone) /\ Cardinality(OwnDone) = taken

LEMMA OwnTakenStep ==
  ASSUME Configured, Typed, FoundIsThere, LowKept, OwnTaken, [Next]_vars
  PROVE  OwnTaken'
<1>0. taken \in Nat /\ plugged \in 0..Len(Own) /\ taken \in 0..plugged /\ Len(Own) \in Nat
  BY OwnList DEF Typed, Configured
<1>1. CASE ReadType \/ Lows \/ UNCHANGED vars
  <2>1. UNCHANGED <<given, shut, taken>>
    BY <1>1 DEF ReadType, Lows, vars, program
  <2>2. OwnDone' = OwnDone
    BY <2>1 DEF OwnDone, IsEmulated
  <2>3. QED
    BY <2>1, <2>2 DEF OwnTaken
<1>2. CASE Reset
  <2>1. OwnDone' = {} /\ taken' = 0
    BY <1>2 DEF Reset, OwnDone
  <2>2. QED
    BY <2>1, FS_EmptySet DEF OwnTaken
<1>3. CASE Ends
  <2>1. given' \union shut' = given \union shut \union {found}
    BY <1>3 DEF Ends, EndOwn, EndZ2Device, EndZ2Memory, EndZ3Memory, Gives, Refuses
  <2>2. CASE EndOwn
    <3>1. ~IsEmulated(found) /\ found = Own[taken + 1] /\ taken' = taken + 1
          /\ taken + 1 \in 1..Len(Own)
      BY <2>2, Names DEF EndOwn, FoundOwn
    <3>2. OwnDone' = OwnDone \union {found}
      BY <2>1, <3>1 DEF OwnDone, IsEmulated
    <3>3. found \notin OwnDone
      <4>1. ASSUME NEW i \in 1..taken PROVE Own[i] # found
        <5>1. i \in 1..Len(Own) /\ i # taken + 1
          BY <1>0
        <5>2. QED
          BY <3>1, <5>1, OwnList
      <4>2. QED
        BY <4>1 DEF OwnTaken
    <3>4. IsFiniteSet(OwnDone) /\ Cardinality(OwnDone) = taken
      BY DEF OwnTaken
    <3>5. IsFiniteSet(OwnDone') /\ Cardinality(OwnDone') = taken + 1
      BY <3>2, <3>3, <3>4, FS_AddElement
    <3>6. ASSUME NEW b \in OwnDone' PROVE \E i \in 1..taken' : Own[i] = b
      <4>1. CASE b = found
        <5>1. taken + 1 \in 1..taken'
          BY <1>0, <3>1
        <5>2. QED
          BY <3>1, <4>1, <5>1
      <4>2. CASE b \in OwnDone
        <5>1. PICK i \in 1..taken : Own[i] = b
          BY <4>2 DEF OwnTaken
        <5>2. i \in 1..taken'
          BY <1>0, <3>1
        <5>3. QED
          BY <5>1, <5>2
      <4>3. QED
        BY <3>2, <4>1, <4>2
    <3>7. QED
      BY <3>1, <3>5, <3>6 DEF OwnTaken
  <2>3. CASE (FoundZ2 \/ FoundZ3) /\ UNCHANGED taken
    <3>1. IsEmulated(found)
      BY <2>3, FoundIsNew DEF IsEmulated
    <3>2. OwnDone' = OwnDone
      BY <2>1, <3>1 DEF OwnDone, IsEmulated
    <3>3. QED
      BY <2>3, <3>2 DEF OwnTaken
  <2>4. QED
    BY <1>3, <2>2, <2>3 DEF Ends, EndZ2Device, EndZ2Memory, EndZ3Memory, NextZ2, NextZ3
<1>4. QED
  BY <1>1, <1>2, <1>3, Steps

\* A board keeps the address it was given.
Kept == \A b \in given \ shut : b \in Devices \union RAM => BoardBase(b) = Base[b]

LEMMA KeptStep ==
  ASSUME Configured, Typed, FoundIsThere, LowKept, Bases, PastSeen, Kept, [Next]_vars
  PROVE  Kept'
<1>0. dev_base \in [Devices -> 0..255] /\ map_offset \in [RAM -> Word]
      /\ ac_base \in [1..AC_PIC_LIMIT -> Word]
  BY DEF Bases
<1>1. CASE ReadType \/ UNCHANGED vars
  <2>1. UNCHANGED <<given, shut, dev_base, map_offset>>
    BY <1>1 DEF ReadType, vars, program, bases
  <2>2. QED
    BY <2>1 DEF Kept, BoardBase
<1>2. CASE Reset
  BY <1>2 DEF Reset, Kept
<1>3. CASE Lows
  <2>1. UNCHANGED <<given, shut, map_offset>>
    BY <1>3 DEF Lows
  <2>2. CASE LowZ2Device
    <3>1. found \notin given
      BY <2>2, FoundIsNew DEF LowZ2Device, PastSeen
    <3>2. \A d \in Devices : d # found => dev_base'[d] = dev_base[d]
      BY <1>0, <2>2 DEF LowZ2Device
    <3>3. QED
      BY <2>1, <3>1, <3>2 DEF Kept, BoardBase
  <2>3. CASE UNCHANGED dev_base
    BY <2>1, <2>3 DEF Kept, BoardBase
  <2>4. QED
    BY <1>3, <2>2, <2>3 DEF Lows, LowOwn, LowZ2Memory, LowZ3Memory
<1>4. CASE Ends
  <2>1. CASE EndOwn
    <3>1. UNCHANGED <<dev_base, map_offset>> /\ found \notin Devices \union RAM
      BY <2>1 DEF EndOwn, FoundOwn, bases
    <3>2. given' \ shut' \subseteq (given \ shut) \union {found}
      BY <2>1 DEF EndOwn, Gives, Refuses
    <3>3. QED
      BY <3>1, <3>2 DEF Kept, BoardBase
  <2>2. CASE EndZ2Device
    <3>1. found \notin given /\ found \notin RAM
      BY <2>2, FoundIsNew DEF EndZ2Device, PastSeen
    <3>2. CASE Gives /\ dev_base' = [dev_base EXCEPT ![found] = Base[found]]
      <4>1. /\ \A d \in Devices : d # found => dev_base'[d] = dev_base[d]
            /\ dev_base'[found] = Base[found] /\ map_offset' = map_offset
        BY <1>0, <2>2, <3>2 DEF EndZ2Device
      <4>2. given' \ shut' \subseteq (given \ shut) \union {found}
        BY <3>2 DEF Gives
      <4>3. QED
        BY <3>1, <4>1, <4>2 DEF Kept, BoardBase
    <3>3. CASE Refuses /\ UNCHANGED dev_base
      <4>1. given' \ shut' \subseteq given \ shut /\ map_offset' = map_offset
        BY <2>2, <3>3 DEF Refuses, EndZ2Device
      <4>2. QED
        BY <3>3, <4>1 DEF Kept, BoardBase
    <3>4. QED
      BY <2>2, <3>2, <3>3 DEF EndZ2Device
  <2>3. CASE EndZ2Memory \/ EndZ3Memory
    <3>1. found \notin given /\ found \in RAM /\ dev_base' = dev_base
      BY <2>3, FoundIsNew DEF EndZ2Memory, EndZ3Memory, PastSeen
    <3>2. PICK slot \in 1..AC_PIC_LIMIT :
            /\ map_offset' = [map_offset EXCEPT ![found] = ac_base'[slot]]
            /\ \/ Gives /\ ac_base' = [ac_base EXCEPT ![slot] = Base[found]]
               \/ Refuses
      BY <2>3, SlotsInside DEF EndZ2Memory, EndZ3Memory, Maps
    <3>3. \A b \in RAM : b # found => map_offset'[b] = map_offset[b]
      BY <1>0, <3>2
    <3>4. CASE Gives /\ ac_base' = [ac_base EXCEPT ![slot] = Base[found]]
      <4>1. map_offset'[found] = Base[found]
        BY <1>0, <3>1, <3>2, <3>4
      <4>2. given' \ shut' \subseteq (given \ shut) \union {found}
        BY <3>4 DEF Gives
      <4>3. QED
        BY <3>1, <3>3, <4>1, <4>2 DEF Kept, BoardBase
    <3>5. CASE Refuses
      <4>1. given' \ shut' \subseteq (given \ shut) /\ found \notin given' \ shut'
        BY <3>5 DEF Refuses
      <4>2. QED
        BY <3>1, <3>3, <4>1 DEF Kept, BoardBase
    <3>6. QED
      BY <3>2, <3>4, <3>5
  <2>4. QED
    BY <1>4, <2>1, <2>2, <2>3 DEF Ends
<1>5. QED
  BY <1>1, <1>2, <1>3, <1>4, Steps

RangesTyped ==
  /\ reads \in Seq(Ranges) /\ writes \in Seq(Ranges)
  /\ Len(reads) < MaxRanges /\ Len(writes) < MaxRanges

\* A new range fits its table or is left out.
LEMMA AddToTyped ==
  ASSUME NEW rs \in Seq(Ranges), NEW e \in Ranges, Len(rs) < MaxRanges
  PROVE  AddTo(rs, e) \in Seq(Ranges) /\ Len(AddTo(rs, e)) < MaxRanges
<1>1. CASE Len(rs) + 1 < MaxRanges
  <2>1. Append(rs, e) \in Seq(Ranges) /\ Len(Append(rs, e)) = Len(rs) + 1
    BY AppendProperties
  <2>2. QED
    BY <1>1, <2>1 DEF AddTo
<1>2. CASE ~(Len(rs) + 1 < MaxRanges)
  BY <1>2 DEF AddTo
<1>3. QED
  BY <1>1, <1>2

\* An entry that is changed is one of the table.
LEMMA SameInside ==
  ASSUME RangesTyped, NEW a, NEW b, Same(a, b) # {}
  PROVE  Min(Same(a, b)) \in Same(a, b) /\ Min(Same(a, b)) \in 1..Len(writes)
<1>1. DOMAIN writes = 1..Len(writes) /\ Len(writes) \in Nat
  BY LenProperties DEF RangesTyped
<1>2. Same(a, b) \in SUBSET Nat /\ Same(a, b) \subseteq 1..Len(writes)
  BY <1>1 DEF Same
<1>3. QED
  BY <1>2, MinIsLeast

LEMMA RangesTypedStep ==
  ASSUME Configured, Typed, FoundIsThere, LowKept, Bases, RangesTyped, [Next]_vars
  PROVE  RangesTyped'
<1>1. CASE ReadType \/ Lows \/ Reset \/ UNCHANGED vars \/ EndOwn \/ EndZ2Device
  BY <1>1 DEF ReadType, Lows, Reset, vars, EndOwn, EndZ2Device, ranges, RangesTyped
<1>2. ASSUME NEW a \in Word, NEW b \in RAM, AddRamRange(a, b) PROVE RangesTyped'
  <2>1. Entry(a, b) \in Ranges
    <3>1. a + Size[b] \in Nat
      BY BaseTypes, WordIsNat
    <3>2. QED
      BY <3>1 DEF Entry, Ranges
  <2>2. CASE Same(a, b) # {}
    <3>1. writes' = [writes EXCEPT ![Min(Same(a, b))] = Entry(a, b)] /\ reads' = reads
      BY <1>2, <2>2 DEF AddRamRange
    <3>2. writes' \in Seq(Ranges) /\ Len(writes') = Len(writes)
      BY <2>1, <2>2, <3>1, SameInside, ExceptSeq DEF RangesTyped
    <3>3. QED
      BY <3>1, <3>2 DEF RangesTyped
  <2>3. CASE Same(a, b) = {}
    BY <1>2, <2>1, <2>3, AddToTyped DEF AddRamRange, RangesTyped
  <2>4. QED
    BY <2>2, <2>3
<1>3. CASE Ends /\ (EndZ2Memory \/ EndZ3Memory)
  <2>1. ac_base' \in [1..AC_PIC_LIMIT -> Word]
    BY BasesStep DEF Bases
  <2>2. PICK slot \in 1..AC_PIC_LIMIT : AddRamRange(ac_base'[slot], found)
    BY <1>3, SlotsInside DEF EndZ2Memory, EndZ3Memory, Maps
  <2>3. ac_base'[slot] \in Word /\ found \in RAM
    BY <1>3, <2>1, <2>2 DEF EndZ2Memory, EndZ3Memory
  <2>4. QED
    BY <1>2, <2>2, <2>3
<1>4. QED
  BY <1>1, <1>3, Steps DEF Ends

\* The boards of the program's sets are the machine's.
BoardsTyped ==
  /\ found \in Boards \union {NoBoard}
  /\ given \subseteq Boards /\ shut \subseteq Boards \intersect Shuts

LEMMA OnBusIsBoard ==
  ASSUME Configured, Typed, taken < plugged
  PROVE  OnBus \in Boards
<1>1. Own \in Seq(ToSet(Own)) /\ plugged \in 0..Len(Own) /\ taken \in 0..plugged
      /\ Len(Own) \in Nat
  BY OwnList, NamesAssumption DEF Configured, Typed, NamesAssumption
<1>2. /\ SubSeq(Own, 1, plugged) \in Seq(ToSet(Own)) /\ Len(SubSeq(Own, 1, plugged)) = plugged
      /\ \A i \in 1..plugged : SubSeq(Own, 1, plugged)[i] = Own[i]
  BY <1>1
<1>3. DOMAIN SubSeq(Own, 1, plugged) = 1..plugged
  BY <1>2, LenProperties
<1>4. taken + 1 \in 1..plugged
  BY <1>1
<1>5. OnBus \in ToSet(SubSeq(Own, 1, plugged))
  BY <1>2, <1>3, <1>4 DEF ToSet, OnBus
<1>6. QED
  BY <1>5 DEF Boards

LEMMA FoundIsBoard ==
  ASSUME Configured, Typed, FoundIsThere, prog \in {"low", "high"}
  PROVE  found \in Boards
<1>1. CASE FoundZ2
  BY <1>1 DEF FoundZ2, Boards
<1>2. CASE FoundZ3
  BY <1>2, Z3List DEF FoundZ3, Boards
<1>3. CASE FoundOwn
  BY <1>3, OnBusIsBoard DEF FoundOwn, OnBus
<1>4. QED
  BY <1>1, <1>2, <1>3, FoundKinds

LEMMA BoardsTypedStep ==
  ASSUME Configured, Typed, FoundIsThere, LowKept, BoardsTyped, [Next]_vars
  PROVE  BoardsTyped'
<1>0. Boards' = Boards
  BY ListsKept DEF Next, ProgramStep, ReadType, WriteLow, WriteHigh, WriteWord, ShutUp, Reset,
                   vars, config
<1>1. CASE ReadType
  <2>1. UNCHANGED <<given, shut>> /\ prog' \in {"low", "done"}
        /\ (prog' = "done" => found' = NoBoard)
    BY <1>1 DEF ReadType
  <2>2. Configured' /\ Typed' /\ FoundIsThere'
    BY ConfiguredStep, TypedStep, FoundIsThereStep
  <2>3. CASE prog' = "low"
    <3>1. OnBus \in Boards \union {NoBoard}
      <4>1. CASE taken < plugged
        BY <4>1, OnBusIsBoard
      <4>2. CASE ~(taken < plugged)
        BY <4>2 DEF OnBus
      <4>3. QED
        BY <4>1, <4>2
    <3>2. Z2There => Z2Pics[z2 + 1] \in Boards
      <4>1. z2 \in 0..Len(Z2Pics) /\ Len(Z2Pics) \in Nat
        BY Lists DEF Typed, Configured
      <4>2. Z2There => z2 + 1 \in 1..Len(Z2Pics)
        BY <4>1 DEF Z2There
      <4>3. QED
        BY <4>2, Lists DEF Boards, Configured
    <3>3. Z3There => Z3Pics[z3 + 1] \in Boards
      <4>1. z3 \in 0..Len(Z3Pics) /\ Len(Z3Pics) \in Nat
        BY Z3List DEF Typed
      <4>2. Z3There => z3 + 1 \in 1..Len(Z3Pics)
        BY <4>1 DEF Z3There
      <4>3. QED
        BY <4>2, Z3List DEF Boards
    <3>4. found' \in {OnBus} \/ (Z2There /\ found' = Z2Pics[z2 + 1])
          \/ (Z3There /\ found' = Z3Pics[z3 + 1])
      BY <1>1 DEF ReadType, Answers
    <3>5. found' \in Boards \union {NoBoard}
      BY <3>1, <3>2, <3>3, <3>4
    <3>6. QED
      BY <1>0, <2>1, <3>5 DEF BoardsTyped
  <2>4. CASE prog' = "done"
    BY <1>0, <2>1, <2>4 DEF BoardsTyped
  <2>5. QED
    BY <2>1, <2>3, <2>4
<1>2. CASE Lows \/ UNCHANGED vars
  BY <1>0, <1>2 DEF Lows, vars, program, BoardsTyped
<1>3. CASE Reset
  BY <1>0, <1>3 DEF Reset, BoardsTyped
<1>4. CASE Ends
  <2>1. found \in Boards /\ found' = found
    BY <1>4, FoundIsBoard DEF Ends
  <2>2. Gives \/ Refuses
    BY <1>4 DEF Ends, EndOwn, EndZ2Device, EndZ2Memory, EndZ3Memory
  <2>3. QED
    BY <1>0, <2>1, <2>2 DEF BoardsTyped, Gives, Refuses
<1>5. QED
  BY <1>1, <1>2, <1>3, <1>4, Steps

-----------------------------------------------------------------------------
(* The two theorems that need nothing of the boards. *)

Inv ==
  /\ Configured /\ Typed /\ FoundIsThere /\ LowKept /\ Bases /\ RangesTyped
  /\ BoardsTyped /\ PastSeen /\ OwnTaken /\ Kept

LEMMA InvInit ==
  ASSUME Init
  PROVE  Inv
<1>1. Configured
  BY DEF Init, Configured
<1>2. Typed
  <2>1. (Z2Pics = <<>> <=> 0 = Len(Z2Pics)) /\ (Z3Pics = <<>> <=> 0 = Len(Z3Pics))
    <3>1. Z2Pics \in Seq(Z2Boards) /\ Z3Pics \in Seq(Z3Boards)
      BY <1>1, Lists, Z3List DEF Configured
    <3>2. QED
      BY <3>1, EmptySeq
  <2>2. z2_done = (Z2Pics = <<>>) /\ z3_done = (Z3Pics = <<>>) /\ z2 = 0 /\ z3 = 0 /\ taken = 0
        /\ prog = "read" /\ waiting = FALSE
    BY DEF Init
  <2>3. (z2_done <=> 0 = Len(Z2Pics)) /\ (z3_done <=> 0 = Len(Z3Pics))
    BY <2>1, <2>2
  <2>4. z2_done \in BOOLEAN /\ z3_done \in BOOLEAN
    BY <2>2
  <2>5. 0 \in 0..Len(Z2Pics) /\ 0 \in 0..Len(Z3Pics) /\ 0 \in 0..plugged
    BY <1>1, Lists, Z3List, OwnList DEF Configured
  <2>6. QED
    BY <2>2, <2>3, <2>4, <2>5 DEF Typed
<1>3. FoundIsThere /\ LowKept
  BY DEF Init, FoundIsThere, LowKept
<1>4. Bases
  <2>1. 0 \in Word /\ 0 \in 0..255
    BY ByteIsWord
  <2>2. \A b \in RAM : ConfigBase[b] \in Word
    BY BaseTypes
  <2>3. QED
    BY <2>1, <2>2 DEF Init, Bases
<1>5. RangesTyped
  <2>1. MaxRanges \in Nat \ {0}
    BY SizesAssumption DEF SizesAssumption
  <2>2. <<>> \in Seq(Ranges) /\ Len(<<>>) = 0
    BY EmptySeq
  <2>3. QED
    BY <2>1, <2>2 DEF Init, RangesTyped
<1>6. BoardsTyped
  BY DEF Init, BoardsTyped
<1>7. PastSeen
  BY DEF Init, PastSeen, Seen
<1>8. OwnTaken
  <2>1. OwnDone = {} /\ taken = 0
    BY DEF Init, OwnDone
  <2>2. QED
    BY <2>1, FS_EmptySet DEF OwnTaken
<1>9. Kept
  BY DEF Init, Kept
<1>10. QED
  BY <1>1, <1>2, <1>3, <1>4, <1>5, <1>6, <1>7, <1>8, <1>9 DEF Inv

LEMMA InvStep ==
  ASSUME Inv, [Next]_vars
  PROVE  Inv'
<1>1. /\ Configured /\ Typed /\ FoundIsThere /\ LowKept /\ Bases /\ RangesTyped
      /\ BoardsTyped /\ PastSeen /\ OwnTaken /\ Kept
  BY DEF Inv
<1>2. Configured' /\ Typed' /\ FoundIsThere'
  BY <1>1, ConfiguredStep, TypedStep, FoundIsThereStep
<1>3. LowKept' /\ Bases' /\ RangesTyped'
  BY <1>1, LowKeptStep, BasesStep, RangesTypedStep
<1>4. BoardsTyped' /\ PastSeen' /\ OwnTaken' /\ Kept'
  BY <1>1, BoardsTypedStep, PastSeenStep, OwnTakenStep, KeptStep
<1>5. QED
  BY <1>2, <1>3, <1>4 DEF Inv

\* The invariant that the theorems share.
THEOREM InvHolds == Spec => []Inv
<1>1. Init => Inv
  BY InvInit
<1>2. Inv /\ [Next]_vars => Inv'
  BY InvStep
<1>3. QED
  BY <1>1, <1>2, PTL DEF Spec

\* The globals of amiga-autoconf.c stay in their ranges: the PIC numbers in
\* their lists, bases in 4 and 8 bit digits, and no table of ranges is full
\* beyond its end (m68k_add_ram_range, m68kcpu.c:1337-1357).
THEOREM AutoconfigTypes == Spec => []TypeOK
<1>1. ASSUME Inv PROVE TypeOK
  <2>1. /\ Configured /\ Typed /\ Bases /\ RangesTyped /\ BoardsTyped
    BY <1>1 DEF Inv
  <2>2. z2_done = (z2 = Len(Z2Pics)) /\ z3_done = (z3 = Len(Z3Pics))
    BY <2>1 DEF Typed
  <2>3. QED
    BY <2>1, <2>2 DEF Typed, Bases, RangesTyped, BoardsTyped, TypeOK
<1>2. QED
  BY <1>1, InvHolds, PTL

\* Every board has the address that the program meant for it, and the board
\* that takes a write is the one that was found (custom_read_amiga,
\* custom_write_amiga): for every configuration, in the first boot and after
\* every reset.
THEOREM BoardsGetTheirBase == Spec => []BoardsAsGiven
<1>1. ASSUME Inv PROVE BoardsAsGiven
  <2>1. Kept /\ OwnTaken /\ FoundIsThere
    BY <1>1 DEF Inv
  <2>2. \A b \in given \ shut : IsEmulated(b) => BoardBase(b) = Base[b]
    BY <2>1, Names DEF Kept
  <2>3. Cardinality({b \in given \union shut : ~IsEmulated(b)}) = taken
    BY <2>1 DEF OwnTaken, OwnDone
  <2>4. QED
    BY <2>1, <2>2, <2>3 DEF BoardsAsGiven, FoundIsThere
<1>2. QED
  BY <1>1, InvHolds, PTL

-----------------------------------------------------------------------------
(* Memory. *)

\* What the theorem on memory asks of the configuration and the program.
NoMemoryShut == Shuts \intersect RAM = {}
RangesSuffice == Cardinality(RAM) < MaxRanges
MemoriesApart ==
  \A b, c \in RAM : b # c => \/ Base[b] + Size[b] <= Base[c]
                             \/ Base[c] + Size[c] <= Base[b]

\* The CPU's ranges are those of boards that have their address, once each.
Listed == {writes[i].data : i \in DOMAIN writes}
RangesAsGiven ==
  /\ reads = writes
  /\ \A i \in DOMAIN writes : /\ writes[i].data \in RAM
                              /\ writes[i] = Entry(Base[writes[i].data], writes[i].data)
  /\ \A i, j \in DOMAIN writes : writes[i].data = writes[j].data => i = j
  /\ given \intersect RAM \subseteq Listed
  /\ IsFiniteSet(Listed) /\ Cardinality(Listed) = Len(writes)

LEMMA FiniteToSet ==
  ASSUME NEW S, NEW s \in Seq(S)
  PROVE  IsFiniteSet(ToSet(s))
<1>1. Len(s) \in Nat /\ DOMAIN s = 1..Len(s)
  BY LenProperties
<1>2. IsFiniteSet(1..Len(s))
  BY <1>1, FS_Interval
<1>3. ToSet(s) = {s[i] : i \in 1..Len(s)}
  BY <1>1 DEF ToSet
<1>4. s \in Surjection(1..Len(s), ToSet(s))
  <2>1. s \in [1..Len(s) -> ToSet(s)]
    BY <1>1, <1>3, LenProperties
  <2>2. \A t \in ToSet(s) : \E i \in 1..Len(s) : s[i] = t
    BY <1>3
  <2>3. QED
    BY <2>1, <2>2 DEF Surjection
<1>5. QED
  BY <1>2, <1>4, FS_Surjection

\* There are finitely many memory boards.
LEMMA FiniteRAM == IsFiniteSet(RAM)
<1>1. Z2Fast \in Seq(RAM) /\ Z3Fast \in Seq(RAM)
  BY NamesAssumption DEF NamesAssumption
<1>2. IsFiniteSet(ToSet(Z2Fast)) /\ IsFiniteSet(ToSet(Z3Fast))
  BY <1>1, FiniteToSet
<1>3. QED
  BY <1>2, FS_Union DEF RAM

\* Two boards that hold one address are the same.
LEMMA BasesDiffer ==
  ASSUME MemoriesApart, NEW b \in RAM, NEW c \in RAM,
         NEW x \in Nat, Base[b] <= x, x < Base[b] + Size[b],
                        Base[c] <= x, x < Base[c] + Size[c]
  PROVE  b = c
<1>1. Base[b] \in Nat /\ Base[c] \in Nat /\ Size[b] \in Nat /\ Size[c] \in Nat
  BY BaseTypes, WordIsNat
<1>2. ASSUME b # c PROVE FALSE
  <2>1. Base[b] + Size[b] <= Base[c] \/ Base[c] + Size[c] <= Base[b]
    BY <1>2 DEF MemoriesApart
  <2>2. QED
    BY <1>1, <2>1
<1>3. QED
  BY <1>2

\* A board gets a range, at its address, or has it already.
LEMMA AddedOnce ==
  ASSUME RangesTyped, RangesAsGiven, RangesSuffice, MemoriesApart,
         NEW b \in RAM, AddRamRange(Base[b], b), given' \subseteq given \union {b}
  PROVE  RangesAsGiven'
<1>0. /\ writes \in Seq(Ranges) /\ Len(writes) \in Nat /\ DOMAIN writes = 1..Len(writes)
      /\ reads = writes
      /\ \A i \in DOMAIN writes : /\ writes[i].data \in RAM
                                  /\ writes[i] = Entry(Base[writes[i].data], writes[i].data)
  BY LenProperties DEF RangesTyped, RangesAsGiven
<1>1. Same(Base[b], b) = {i \in DOMAIN writes : writes[i].data = b}
  <2>1. ASSUME NEW i \in DOMAIN writes, writes[i].low = Base[b] PROVE writes[i].data = b
    <3>1. writes[i].low = Base[writes[i].data] /\ writes[i].data \in RAM
      BY <1>0 DEF Entry
    <3> DEFINE c == writes[i].data
    <3>2. c \in RAM /\ Base[c] = Base[b]
      BY <2>1, <3>1
    <3> HIDE DEF c
    <3>3. /\ Base[b] \in Nat /\ Size[b] \in Nat \ {0} /\ Size[c] \in Nat \ {0}
      BY <3>2, BaseTypes, WordIsNat
    <3>4. /\ Base[b] <= Base[b] /\ Base[b] < Base[b] + Size[b]
          /\ Base[c] <= Base[b] /\ Base[b] < Base[c] + Size[c]
      BY <3>2, <3>3
    <3>5. b = c
      BY <3>2, <3>3, <3>4, BasesDiffer
    <3>6. QED
      BY <3>5 DEF c
  <2>2. QED
    BY <2>1 DEF Same
<1>2. CASE Same(Base[b], b) # {}
  <2> DEFINE m == Min(Same(Base[b], b))
  <2>1. m \in Same(Base[b], b) /\ m \in 1..Len(writes)
    BY <1>2, SameInside
  <2>2. writes' = [writes EXCEPT ![m] = Entry(Base[b], b)] /\ reads' = reads
    BY <1>2 DEF AddRamRange
  <2> HIDE DEF m
  <2>3. writes[m].data = b /\ writes[m] = Entry(Base[b], b)
    BY <1>0, <1>1, <2>1
  <2>4. writes' = writes
    BY <1>0, <2>1, <2>2, <2>3
  <2>5. b \in Listed
    BY <1>0, <2>1, <2>3 DEF Listed
  <2>6. Listed' = Listed
    BY <2>4 DEF Listed
  <2>7. given' \intersect RAM \subseteq Listed
    BY <2>5 DEF RangesAsGiven
  <2>8. QED
    BY <2>2, <2>4, <2>6, <2>7 DEF RangesAsGiven, Entry
<1>3. CASE Same(Base[b], b) = {}
  <2>1. b \notin Listed
    BY <1>1, <1>3 DEF Listed
  <2>2. IsFiniteSet(Listed) /\ Cardinality(Listed) = Len(writes) /\ Listed \subseteq RAM
    BY <1>0 DEF RangesAsGiven, Listed
  <2>3. IsFiniteSet(Listed \union {b}) /\ Cardinality(Listed \union {b}) = Len(writes) + 1
    BY <2>1, <2>2, FS_AddElement
  <2>4. Len(writes) + 1 < MaxRanges
    <3>1. Cardinality(Listed \union {b}) <= Cardinality(RAM) /\ Cardinality(RAM) \in Nat
      BY <2>2, FiniteRAM, FS_Subset, FS_CardinalityType
    <3>2. MaxRanges \in Nat
      BY SizesAssumption DEF SizesAssumption
    <3>3. QED
      BY <1>0, <2>3, <3>1, <3>2 DEF RangesSuffice
  <2>5. writes' = Append(writes, Entry(Base[b], b)) /\ reads' = writes'
    BY <1>0, <1>3, <2>4 DEF AddRamRange, AddTo
  <2>6. Entry(Base[b], b) \in Ranges
    <3>1. Base[b] \in Word /\ Size[b] \in Nat
      BY BaseTypes
    <3>2. Base[b] \in Nat
      BY <3>1, WordIsNat
    <3>3. Base[b] + Size[b] \in Nat
      BY <3>1, <3>2
    <3>4. QED
      BY <3>1, <3>3 DEF Entry, Ranges
  <2>7. /\ DOMAIN writes' = 1..(Len(writes) + 1) /\ Len(writes') = Len(writes) + 1
        /\ writes'[Len(writes) + 1] = Entry(Base[b], b)
        /\ \A i \in 1..Len(writes) : writes'[i] = writes[i]
    <3>1. /\ Append(writes, Entry(Base[b], b)) \in Seq(Ranges)
          /\ Len(Append(writes, Entry(Base[b], b))) = Len(writes) + 1
          /\ Append(writes, Entry(Base[b], b))[Len(writes) + 1] = Entry(Base[b], b)
          /\ \A i \in 1..Len(writes) : Append(writes, Entry(Base[b], b))[i] = writes[i]
      BY <1>0, <2>6, AppendProperties
    <3>2. DOMAIN Append(writes, Entry(Base[b], b)) = 1..(Len(writes) + 1)
      BY <3>1, LenProperties
    <3>3. QED
      BY <2>5, <3>1, <3>2
  <2>8. \A i \in DOMAIN writes' : i \in DOMAIN writes \/ i = Len(writes) + 1
    BY <1>0, <2>7
  <2>9. Entry(Base[b], b).data = b
    BY DEF Entry
  <2>10. Listed' = Listed \union {b}
    <3>1. Listed' = {writes'[i].data : i \in DOMAIN writes'}
      BY DEF Listed
    <3>2. DOMAIN writes' = DOMAIN writes \union {Len(writes) + 1}
      BY <1>0, <2>7
    <3>3. \A i \in DOMAIN writes : writes'[i].data = writes[i].data
      BY <1>0, <2>7
    <3>4. QED
      BY <2>7, <2>9, <3>1, <3>2, <3>3 DEF Listed
  <2>11. \A i \in DOMAIN writes' :
            /\ writes'[i].data \in RAM
            /\ writes'[i] = Entry(Base[writes'[i].data], writes'[i].data)
    BY <1>0, <2>7, <2>8, <2>9
  <2>12. \A i, j \in DOMAIN writes' : writes'[i].data = writes'[j].data => i = j
    <3>1. ASSUME NEW i \in DOMAIN writes', NEW j \in DOMAIN writes',
                 writes'[i].data = writes'[j].data
          PROVE  i = j
      <4>1. \A k \in DOMAIN writes : writes'[k].data = writes[k].data /\ writes[k].data # b
        BY <1>0, <2>1, <2>7 DEF Listed
      <4>2. writes'[Len(writes) + 1].data = b
        BY <2>7, <2>9
      <4>3. QED
        BY <2>8, <3>1, <4>1, <4>2 DEF RangesAsGiven
    <3>2. QED
      BY <3>1
  <2>13. given' \intersect RAM \subseteq Listed'
    BY <2>10 DEF RangesAsGiven
  <2>14. QED
    BY <2>3, <2>5, <2>7, <2>10, <2>11, <2>12, <2>13 DEF RangesAsGiven, Entry
<1>4. QED
  BY <1>2, <1>3

LEMMA RangesAsGivenStep ==
  ASSUME NoMemoryShut, RangesSuffice, MemoriesApart, Inv, RangesAsGiven, [Next]_vars
  PROVE  RangesAsGiven'
<1>0. Configured /\ Typed /\ FoundIsThere /\ LowKept /\ Bases /\ RangesTyped
  BY DEF Inv
<1>1. CASE ReadType \/ Lows \/ Reset \/ UNCHANGED vars
  <2>1. reads' = reads /\ writes' = writes /\ given' \subseteq given
    BY <1>1 DEF ReadType, Lows, Reset, vars, ranges, program
  <2>2. Listed' = Listed
    BY <2>1 DEF Listed
  <2>3. QED
    BY <2>1, <2>2 DEF RangesAsGiven, Entry
<1>2. CASE Ends
  <2>1. CASE EndOwn \/ EndZ2Device
    <3>1. UNCHANGED <<reads, writes>> /\ found \notin RAM
      BY <2>1 DEF EndOwn, EndZ2Device, FoundOwn, ranges
    <3>2. given' \subseteq given \union {found}
      BY <2>1 DEF EndOwn, EndZ2Device, Gives, Refuses
    <3>3. Listed' = Listed
      BY <3>1 DEF Listed
    <3>4. QED
      BY <3>1, <3>2, <3>3 DEF RangesAsGiven, Entry
  <2>2. CASE EndZ2Memory \/ EndZ3Memory
    <3>1. found \in RAM /\ given' \subseteq given \union {found}
      BY <2>2 DEF EndZ2Memory, EndZ3Memory, Gives, Refuses
    <3>2. PICK slot \in 1..AC_PIC_LIMIT :
            /\ AddRamRange(ac_base'[slot], found)
            /\ \/ Gives /\ ac_base' = [ac_base EXCEPT ![slot] = Base[found]]
               \/ Refuses
      BY <1>0, <2>2, SlotsInside DEF EndZ2Memory, EndZ3Memory, Maps
    <3>3. ~Refuses
      BY <3>1 DEF Refuses, NoMemoryShut
    <3>4. ac_base'[slot] = Base[found]
      BY <1>0, <3>2, <3>3 DEF Bases
    <3>5. AddRamRange(Base[found], found)
      BY <3>2, <3>4
    <3>6. QED
      BY <1>0, <3>1, <3>5, AddedOnce
  <2>3. QED
    BY <1>2, <2>1, <2>2 DEF Ends
<1>3. QED
  BY <1>0, <1>1, <1>2, Steps

\* The first range that holds an address of a board is the board's.
LEMMA MemoryReached ==
  ASSUME RangesTyped, RangesAsGiven, MemoriesApart, NEW b \in given \intersect RAM,
         NEW a \in Base[b] .. Base[b] + Size[b] - 1
  PROVE  Reached(writes, a) = {b}
<1>0. /\ writes \in Seq(Ranges) /\ Len(writes) \in Nat /\ DOMAIN writes = 1..Len(writes)
      /\ \A i \in DOMAIN writes : /\ writes[i].data \in RAM
                                  /\ writes[i] = Entry(Base[writes[i].data], writes[i].data)
  BY LenProperties DEF RangesTyped, RangesAsGiven
<1>1. Base[b] \in Nat /\ Size[b] \in Nat
  BY BaseTypes, WordIsNat
<1>2. a \in Nat /\ Base[b] <= a /\ a < Base[b] + Size[b]
  BY <1>1
<1>3. PICK i \in DOMAIN writes : writes[i].data = b
  BY DEF RangesAsGiven, Listed
<1>4. i \in Holding(writes, a)
  BY <1>0, <1>2, <1>3 DEF Holding, In, Entry
<1>5. ASSUME NEW j \in Holding(writes, a) PROVE writes[j].data = b
  <2> DEFINE c == writes[j].data
  <2>1. j \in DOMAIN writes /\ writes[j].low <= a /\ a < writes[j].high
    BY DEF Holding, In
  <2>2. c \in RAM /\ Base[c] <= a /\ a < Base[c] + Size[c]
    BY <1>0, <2>1 DEF Entry
  <2> HIDE DEF c
  <2>3. c = b
    BY <1>2, <2>2, BasesDiffer
  <2>4. QED
    BY <2>3 DEF c
<1>6. Min(Holding(writes, a)) \in Holding(writes, a)
  <2>1. Holding(writes, a) \in SUBSET Nat /\ Holding(writes, a) # {}
    BY <1>0, <1>4 DEF Holding
  <2>2. QED
    BY <2>1, MinIsLeast
<1>7. QED
  BY <1>4, <1>5, <1>6 DEF Reached

\* Memory that has its address is read and written there, whatever came in
\* between (m68k_add_ram_range, m68kcpu.c:1308-1357): as long as the boards'
\* areas do not overlap, the CPU's tables have room for them all, and the
\* program shuts up no memory.
THEOREM MemoryIsWhereGiven ==
  ASSUME NoMemoryShut, RangesSuffice, MemoriesApart
  PROVE  Spec => []MemoryWhereGiven
<1>1. Init => RangesAsGiven
  <2>1. ASSUME Init PROVE RangesAsGiven
    <3>1. writes = <<>> /\ reads = <<>> /\ given = {}
      BY <2>1 DEF Init
    <3>2. Listed = {} /\ Len(writes) = 0
      BY <3>1 DEF Listed
    <3>3. QED
      BY <3>1, <3>2, FS_EmptySet DEF RangesAsGiven
  <2>2. QED
    BY <2>1
<1>2. Inv /\ RangesAsGiven /\ [Next]_vars => RangesAsGiven'
  BY RangesAsGivenStep
<1>3. Inv /\ RangesAsGiven => MemoryWhereGiven
  BY MemoryReached DEF Inv, RangesAsGiven, MemoryWhereGiven
<1>4. QED
  BY <1>1, <1>2, <1>3, InvHolds, PTL DEF Spec

-----------------------------------------------------------------------------
(* The custom range. *)

\* The custom range spans what is enabled and the PiSCSI board.
LEMMA RangeCovers ==
  ASSUME NEW done, NEW base \in [Devices -> 0..255], Configured, NEW s \in Spans(done)
  PROVE  /\ CustomRange(done, base).low <= s.low /\ s.high <= CustomRange(done, base).high
         /\ HasPiscsi /\ base["piscsi"] # 0 =>
              CustomRange(done, base).low <= base["piscsi"]
         /\ CustomRange(done, base).low \in Nat /\ CustomRange(done, base).high \in Nat
<1> DEFINE lows == {t.low : t \in Spans(done)} \union LowBoard(base)
           highs == {t.high : t \in Spans(done)}
<1>1. \A t \in Spans(done) : t \in {Window, RTG, PISCSI}
  BY DEF Spans
<1>2. /\ Window.low = 232 /\ Window.high = 233 /\ RTG.low = 28672 /\ RTG.high = 29313
      /\ PISCSI.low = 32768 /\ PISCSI.high = 32769
  BY DEF Window, RTG, PISCSI, AC_Z2_BASE
<1>3. LowBoard(base) \in SUBSET Nat
  <2>1. HasPiscsi => "piscsi" \in Devices
    BY DEF HasPiscsi, Devices, Configured
  <2>2. HasPiscsi => base["piscsi"] \in 0..255
    BY <2>1
  <2>3. QED
    BY <2>2 DEF LowBoard
<1>4. lows \in SUBSET Nat /\ lows # {}
  BY <1>1, <1>2, <1>3
<1>5. Min(lows) \in lows /\ \A l \in lows : Min(lows) <= l
  <2> HIDE DEF lows
  <2>1. QED
    BY <1>4, MinIsLeast
<1>6. Max(highs) \in highs /\ \A h \in highs : Max(highs) >= h
  <2>1. \E m \in highs : \A h \in highs : m >= h
    <3>1. CASE PISCSI \in Spans(done)
      <4>1. PISCSI.high \in highs /\ \A h \in highs : PISCSI.high >= h
        BY <1>1, <1>2, <3>1
      <4>2. QED
        BY <4>1
    <3>2. CASE PISCSI \notin Spans(done) /\ RTG \in Spans(done)
      <4>1. RTG.high \in highs /\ \A h \in highs : RTG.high >= h
        BY <1>1, <1>2, <3>2
      <4>2. QED
        BY <4>1
    <3>3. CASE PISCSI \notin Spans(done) /\ RTG \notin Spans(done)
      <4>1. Window.high \in highs /\ \A h \in highs : Window.high >= h
        BY <1>1, <1>2, <3>3
      <4>2. QED
        BY <4>1
    <3>4. QED
      BY <3>1, <3>2, <3>3
  <2> HIDE DEF highs
  <2>2. QED
    BY <2>1 DEF Max
<1>7. CustomRange(done, base) = [low |-> Min(lows), high |-> Max(highs)]
  BY DEF CustomRange
<1>8. s.low \in lows /\ s.high \in highs
  OBVIOUS
<1>9. HasPiscsi /\ base["piscsi"] # 0 => base["piscsi"] \in lows
  BY DEF LowBoard
<1>10. s.high \in Nat
  BY <1>1, <1>2
<1> HIDE DEF lows, highs
<1>11. Max(highs) >= s.high
  BY <1>6, <1>8
<1>12. Max(highs) \in Nat
  <2>1. highs \subseteq Nat
    BY <1>1, <1>2 DEF highs
  <2>2. QED
    BY <1>6, <2>1
<1>13. CustomRange(done, base).low = Min(lows) /\ CustomRange(done, base).high = Max(highs)
  BY <1>7
<1>14. Min(lows) \in Nat /\ Min(lows) <= s.low
  BY <1>4, <1>5, <1>8
<1>15. HasPiscsi /\ base["piscsi"] # 0 => Min(lows) <= base["piscsi"]
  BY <1>5, <1>9
<1>16. s.high <= Max(highs)
  BY <1>10, <1>11, <1>12
<1>17. QED
  BY <1>12, <1>13, <1>14, <1>15, <1>16

\* The window is open until the last board has been seen.
WindowOpen == ~(z2_done /\ z3_done) => In(custom, AC_Z2_BASE)

\* From the last Z2 board on the custom range is that of the devices' bases.
CustomNow == z2_done => custom = CustomRange(z2_done /\ z3_done, dev_base)

\* With boards to see it spans the window.
LEMMA OpenRange ==
  ASSUME Configured, NEW done, ~done, NEW base \in [Devices -> 0..255]
  PROVE  In(CustomRange(done, base), AC_Z2_BASE)
<1>1. Window \in Spans(done)
  BY DEF Spans
<1>2. /\ CustomRange(done, base).low <= Window.low
      /\ Window.high <= CustomRange(done, base).high
      /\ CustomRange(done, base).low \in Nat
  BY <1>1, RangeCovers
<1>3. Window.low = 232 /\ Window.high = 233 /\ AC_Z2_BASE = 232
  BY DEF Window, AC_Z2_BASE
<1>4. CustomRange(done, base).high \in Nat
  BY <1>1, RangeCovers
<1>5. QED
  BY <1>2, <1>3, <1>4 DEF In

LEMMA WindowOpenStep ==
  ASSUME Inv, WindowOpen, [Next]_vars
  PROVE  WindowOpen'
<1>0. Configured /\ Typed /\ FoundIsThere /\ LowKept /\ Bases /\ Bases' /\ Typed'
  BY InvStep DEF Inv
<1>1. z2_done \in BOOLEAN /\ z3_done \in BOOLEAN /\ z2_done' \in BOOLEAN /\ z3_done' \in BOOLEAN
      /\ dev_base \in [Devices -> 0..255] /\ dev_base' \in [Devices -> 0..255]
  BY <1>0 DEF Typed, Bases
<1>2. CASE UNCHANGED <<custom, z2_done, z3_done>>
  BY <1>2 DEF WindowOpen, In
<1>3. ASSUME NEW base \in [Devices -> 0..255],
             custom' = CustomRange(z2_done' /\ z3_done', base)
      PROVE  WindowOpen'
  BY <1>0, <1>3, OpenRange DEF WindowOpen
<1>4. CASE ReadType \/ Lows \/ UNCHANGED vars
  BY <1>2, <1>4 DEF ReadType, Lows, vars, pics, platform
<1>5. CASE Reset
  <2>1. custom' = CustomRange(z2_done' /\ z3_done', dev_base)
    BY <1>5 DEF Reset, DoneAfter
  <2>2. QED
    BY <1>1, <1>3, <2>1
<1>6. CASE Ends
  <2>1. CASE EndOwn
    BY <1>2, <2>1 DEF EndOwn, pics, platform
  <2>2. CASE Adjusts
    <3>1. CASE z2_done' # z2_done \/ z3_done' # z3_done
      <4>1. custom' = CustomRange(z2_done' /\ z3_done', dev_base')
        BY <2>2, <3>1 DEF Adjusts, DoneAfter
      <4>2. QED
        BY <1>1, <1>3, <4>1
    <3>2. CASE ~(z2_done' # z2_done \/ z3_done' # z3_done)
      BY <1>2, <2>2, <3>2 DEF Adjusts, platform
    <3>3. QED
      BY <3>1, <3>2
  <2>3. QED
    BY <1>6, <2>1, <2>2 DEF Ends, EndZ2Device, EndZ2Memory, EndZ3Memory
<1>7. QED
  BY <1>0, <1>4, <1>5, <1>6, Steps

LEMMA CustomNowStep ==
  ASSUME Inv, CustomNow, [Next]_vars
  PROVE  CustomNow'
<1>0. Configured /\ Typed /\ FoundIsThere /\ LowKept
  BY DEF Inv
<1>2. UNCHANGED config
  BY DEF Next, ProgramStep, ReadType, WriteLow, WriteHigh, WriteWord, ShutUp, Reset, vars, config
<1>3. CustomRange(z2_done /\ z3_done, dev_base)' = CustomRange(z2_done' /\ z3_done', dev_base')
  BY <1>2, ListsKept DEF CustomRange, Spans, LowBoard, HasPiscsi
<1>4. CASE UNCHANGED <<custom, z2_done, z3_done, dev_base>>
  BY <1>3, <1>4 DEF CustomNow
<1>5. CASE ReadType \/ UNCHANGED vars
  BY <1>4, <1>5 DEF ReadType, vars, pics, platform, bases
<1>6. CASE Reset
  <2>1. custom' = CustomRange(z2_done' /\ z3_done', dev_base')
    BY <1>6 DEF Reset, DoneAfter, bases
  <2>2. QED
    BY <1>3, <2>1 DEF CustomNow
<1>7. CASE Lows
  <2>1. UNCHANGED <<custom, z2_done, z3_done>>
    BY <1>7 DEF Lows, pics, platform
  <2>2. CASE UNCHANGED dev_base
    BY <1>4, <2>1, <2>2
  <2>3. CASE LowZ2Device
    BY <2>1, <2>3 DEF LowZ2Device, FoundZ2, CustomNow
  <2>4. QED
    BY <1>7, <2>2, <2>3 DEF Lows, LowOwn, LowZ2Memory, LowZ3Memory
<1>8. CASE Ends
  <2>1. CASE EndOwn
    BY <1>4, <2>1 DEF EndOwn, pics, platform, bases
  <2>2. CASE Adjusts /\ (z2_done' # z2_done \/ z3_done' # z3_done)
    <3>1. custom' = CustomRange(z2_done' /\ z3_done', dev_base')
      BY <2>2 DEF Adjusts, DoneAfter
    <3>2. QED
      BY <1>3, <3>1 DEF CustomNow
  <2>3. CASE Adjusts /\ ~(z2_done' # z2_done \/ z3_done' # z3_done)
    <3>1. UNCHANGED <<custom, z2_done, z3_done>>
      BY <2>3 DEF Adjusts, platform
    <3>2. CASE EndZ2Device \/ EndZ2Memory
      BY <3>1, <3>2 DEF EndZ2Device, EndZ2Memory, FoundZ2, CustomNow
    <3>3. CASE EndZ3Memory
      BY <1>4, <3>1, <3>3 DEF EndZ3Memory
    <3>4. QED
      BY <1>8, <2>1, <3>2, <3>3 DEF Ends
  <2>4. QED
    BY <1>8, <2>1, <2>2, <2>3 DEF Ends, EndZ2Device, EndZ2Memory, EndZ3Memory
<1>9. QED
  BY <1>0, <1>5, <1>6, <1>7, <1>8, Steps

\* The program stops looking only when all boards have been seen.
AllSeenAtEnd == prog = "done" => z2_done /\ z3_done

\* With the window open somebody answers while a board is to be seen.
LEMMA NobodyAnswers ==
  ASSUME Configured, Typed, WindowOpen, Answers(Waits) = NoBoard
  PROVE  z2_done /\ z3_done
<1>1. SUFFICES ASSUME ~(z2_done /\ z3_done) PROVE FALSE
  BY DEF Typed
<1>2. Enters
  BY <1>1 DEF WindowOpen, Enters
<1>3. ~Passes(Waits)
  <2>1. ASSUME Passes(Waits) PROVE FALSE
    <3>1. physical_z2_first /\ Waits
      BY <1>2, <2>1 DEF Passes
    <3>2. OnBus # NoBoard
      BY <1>2, <3>1 DEF Waits
    <3>3. Answers(Waits) = OnBus
      BY <2>1 DEF Answers
    <3>4. QED
      BY <3>2, <3>3
  <2>2. QED
    BY <2>1
<1>4. z2 \in 0..Len(Z2Pics) /\ z3 \in 0..Len(Z3Pics) /\ Len(Z2Pics) \in Nat /\ Len(Z3Pics) \in Nat
  BY Lists, Z3List DEF Typed, Configured
<1>5. ~z2_done \/ ~z3_done
  BY <1>1
<1>6. CASE ~z2_done
  <2>1. z2 # Len(Z2Pics)
    BY <1>6 DEF Typed
  <2>2. Z2There /\ z2 + 1 \in 1..Len(Z2Pics)
    BY <1>4, <1>6, <2>1 DEF Z2There
  <2>3. Answers(Waits) = Z2Pics[z2 + 1]
    BY <1>3, <2>2 DEF Answers
  <2>4. QED
    BY <2>2, <2>3, Lists, Names DEF Configured
<1>7. CASE z2_done /\ ~z3_done
  <2>1. z3 # Len(Z3Pics)
    BY <1>7 DEF Typed
  <2>2. ~Z2There /\ Z3There /\ z3 + 1 \in 1..Len(Z3Pics)
    BY <1>4, <1>7, <2>1 DEF Z2There, Z3There
  <2>3. Answers(Waits) = Z3Pics[z3 + 1]
    BY <1>3, <2>2 DEF Answers
  <2>4. QED
    BY <2>2, <2>3, Z3List, Names
<1>8. QED
  BY <1>5, <1>6, <1>7 DEF Typed

LEMMA AllSeenAtEndStep ==
  ASSUME Inv, WindowOpen, AllSeenAtEnd, [Next]_vars
  PROVE  AllSeenAtEnd'
<1>0. Configured /\ Typed /\ FoundIsThere /\ LowKept
  BY DEF Inv
<1>1. CASE ReadType
  <2>1. UNCHANGED <<z2_done, z3_done>> /\ (prog' = "done" => Answers(Waits) = NoBoard)
    BY <1>1 DEF ReadType, pics
  <2>2. QED
    BY <1>0, <2>1, NobodyAnswers DEF AllSeenAtEnd
<1>2. CASE Lows \/ Ends \/ Reset
  BY <1>2 DEF Lows, Ends, Reset, AllSeenAtEnd
<1>3. CASE UNCHANGED vars
  BY <1>3 DEF vars, pics, program, AllSeenAtEnd
<1>4. QED
  BY <1>0, <1>1, <1>2, <1>3, Steps

\* What the theorem on the devices asks: every configuration has PiSCSI, all
\* its boards are on the list, and the program gives PiSCSI the lowest
\* address, as it does to the first Z2 board.
PiscsiLowest ==
  /\ \A s \in SetVars : Len(Z2List(s)) <= AC_PIC_LIMIT /\ "piscsi" \in ToSet(s)
  /\ "piscsi" \notin Shuts /\ Base["piscsi"] # 0
  /\ \A d \in Devices : Base["piscsi"] <= Base[d]

\* With all boards seen, PiSCSI is among them and has its address.
LEMMA PiscsiHasBase ==
  ASSUME PiscsiLowest, Inv, z2_done
  PROVE  HasPiscsi /\ dev_base["piscsi"] = Base["piscsi"]
<1>0. Configured /\ Typed /\ PastSeen /\ Kept /\ BoardsTyped
  BY DEF Inv
<1>1. devices \in SetVars /\ "piscsi" \in ToSet(devices) /\ Len(Z2List(devices)) <= AC_PIC_LIMIT
  BY <1>0 DEF PiscsiLowest, Configured
<1>2. HasPiscsi /\ "piscsi" \in Devices
  BY <1>1 DEF HasPiscsi, Devices
<1>3. "piscsi" \in ToSet(Z2Pics)
  <2> DEFINE all == Z2List(devices)
  <2>1. PICK i \in 1..Len(all) : all[i] = "piscsi"
    BY <1>1, Z2ListIsSeq
  <2>2. all \in Seq(Z2Boards)
    BY <1>1, Z2ListIsSeq
  <2> HIDE DEF all
  <2>3. Len(all) \in Nat /\ DOMAIN all = 1..Len(all)
    BY <2>2, LenProperties
  <2>4. Min({Len(all), AC_PIC_LIMIT}) = Len(all)
    <3>1. {Len(all), AC_PIC_LIMIT} \in SUBSET Nat /\ {Len(all), AC_PIC_LIMIT} # {}
      BY <2>3, SizesAssumption DEF SizesAssumption
    <3>2. /\ Min({Len(all), AC_PIC_LIMIT}) \in {Len(all), AC_PIC_LIMIT}
          /\ Min({Len(all), AC_PIC_LIMIT}) <= Len(all)
      BY <3>1, MinIsLeast
    <3>3. Len(all) <= AC_PIC_LIMIT
      BY <1>1 DEF all
    <3>4. QED
      BY <2>3, <3>1, <3>2, <3>3
  <2>5. Z2Pics = SubSeq(all, 1, Len(all))
    BY <2>4 DEF Z2Pics, all
  <2>6. Z2Pics = all
    BY <2>2, <2>5, SubSeqFull
  <2>7. QED
    BY <2>1, <2>3, <2>6 DEF ToSet
<1>4. Seen("piscsi")
  <2>1. PICK i \in 1..Len(Z2Pics) : Z2Pics[i] = "piscsi"
    BY <1>1, <1>3, Lists
  <2>2. z2 = Len(Z2Pics)
    BY <1>0 DEF Typed
  <2>3. QED
    BY <2>1, <2>2 DEF Seen
<1>5. "piscsi" \in given \ shut
  BY <1>0, <1>2, <1>4 DEF PastSeen, BoardsTyped, PiscsiLowest
<1>6. "piscsi" \notin RAM
  BY <1>2, Names
<1>7. QED
  BY <1>0, <1>2, <1>5, <1>6 DEF Kept, BoardBase

\* Once no board is left, the accesses to the emulated devices' addresses
\* reach them, for every configuration that has PiSCSI and gives it the
\* lowest address (adjust_ranges_amiga, amiga-platform.c:289-360).
THEOREM DevicesAreReachable ==
  ASSUME PiscsiLowest
  PROVE  Spec => []DevicesReachable
<1> DEFINE Tracked == WindowOpen /\ CustomNow /\ AllSeenAtEnd
<1>1. Init => Tracked
  <2>1. ASSUME Init PROVE Tracked
    <3>1. Configured /\ Typed /\ Bases
      BY <2>1, InvInit DEF Inv
    <3>2. custom = CustomRange(z2_done /\ z3_done, dev_base) /\ prog = "read"
      BY <2>1 DEF Init
    <3>3. QED
      BY <3>1, <3>2, OpenRange DEF WindowOpen, CustomNow, AllSeenAtEnd, Bases
  <2>2. QED
    BY <2>1
<1>2. Inv /\ Tracked /\ [Next]_vars => Tracked'
  BY WindowOpenStep, CustomNowStep, AllSeenAtEndStep
<1>3. Inv /\ Tracked => DevicesReachable
  <2>1. SUFFICES ASSUME Inv, Tracked, prog = "done", NEW d \in given \intersect Devices
                 PROVE  In(custom, Base[d])
    BY DEF DevicesReachable
  <2>2. z2_done /\ z3_done /\ Configured /\ dev_base \in [Devices -> 0..255]
    BY <2>1 DEF AllSeenAtEnd, Inv, Bases
  <2>3. PICK done : done = (z2_done /\ z3_done) /\ custom = CustomRange(done, dev_base)
    BY <2>1, <2>2 DEF CustomNow
  <2>4. HasPiscsi /\ dev_base["piscsi"] = Base["piscsi"]
    BY <2>1, <2>2, PiscsiHasBase
  <2>5. PISCSI \in Spans(done) /\ PISCSI.high = 32769
    BY <2>4 DEF Spans, PISCSI
  <2>6. dev_base["piscsi"] # 0 /\ Base["piscsi"] <= Base[d]
    BY <2>1, <2>4 DEF PiscsiLowest
  <2>7. /\ custom.low <= Base["piscsi"] /\ custom.low \in Nat
        /\ 32769 <= custom.high /\ custom.high \in Nat
    <3>1. /\ CustomRange(done, dev_base).low <= dev_base["piscsi"]
          /\ CustomRange(done, dev_base).low \in Nat
          /\ PISCSI.high <= CustomRange(done, dev_base).high
          /\ CustomRange(done, dev_base).high \in Nat
      BY <2>2, <2>4, <2>5, <2>6, RangeCovers
    <3>2. QED
      BY <2>3, <2>4, <2>5, <3>1
  <2>8. Base[d] \in 0..255 /\ Base["piscsi"] \in 0..255
    <3>1. "piscsi" \in Devices
      BY <2>2, <2>4 DEF HasPiscsi, Devices, Configured
    <3>2. QED
      BY <2>1, <3>1, BaseTypes DEF Z2Boards
  <2>9. custom.low <= Base[d]
    <3>1. ASSUME NEW low \in Nat, NEW p \in Nat, NEW a \in Nat, low <= p, p <= a
          PROVE  low <= a
      BY <3>1
    <3>2. Base[d] \in Nat /\ Base["piscsi"] \in Nat
      BY <2>8
    <3>3. QED
      BY <2>6, <2>7, <3>1, <3>2
  <2>10. Base[d] < custom.high
    <3>1. Base[d] \in Nat /\ Base[d] < 256
      BY <2>8
    <3>2. custom.high \in Nat /\ 256 < custom.high
      BY <2>7
    <3>3. QED
      BY <3>1, <3>2
  <2>11. QED
    BY <2>9, <2>10 DEF In
<1>4. QED
  BY <1>1, <1>2, <1>3, InvHolds, PTL DEF Spec
=============================================================================
