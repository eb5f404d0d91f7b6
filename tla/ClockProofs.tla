----------------------------- MODULE ClockProofs -----------------------------
(***************************************************************************)
(* The safety properties of module Clock for every set of start times,     *)
(* every number of updates and every device that leaves at least three     *)
(* accesses between its flag and its update.  ClockInv is the inductive    *)
(* invariant.                                                              *)
(***************************************************************************)
EXTENDS Clock, TLAPS

Drawing == {"draw1", "draw2", "draw3", "draw4", "draw5", "draw6"}

\* The flag may rise after the kernel's test of it, and then the registers stay
\* for LEAD more accesses; at most this many are behind the kernel.
TimeLeft ==
  /\ pc = "second" => now = seen /\ (flag => accesses = 0)
  /\ pc = "minute" => now = seen /\ (flag => accesses <= 1)
  /\ pc = "hour"   => now = seen /\ (flag => accesses <= 2)

TwoDigits == time.hour \in 0 .. 99

\* The flag announces an update that the bound has room for.
UpdateAnnounced == flag => updates < MaxUpdates

\* What the kernel has read is what the device had when the flag was clear.
FieldsRead ==
  /\ pc \in {"hour", "status"} => time.minute = seen.minute
  /\ pc = "status" => time.hour = Encoded(seen.hour)

DigitsRead ==
  pc \in Drawing \cup {"drawn"} =>
    /\ time_array[1] * 10 + time_array[2] = (seen.hour + 7) % 24
    /\ time_array[3] * 10 + time_array[4] = seen.minute

\* The digits before the one that is drawn next are on the screen.
DigitsDrawn ==
  /\ \A k \in 1 .. 6 : pc = Draws[k] => \A j \in 1 .. k - 1 : shown[j] = time_array[j]
  /\ pc = "drawn" => \A j \in 1 .. 6 : shown[j] = time_array[j]

ClockInv ==
  /\ TypeOK
  /\ UpdateAnnounced
  /\ TimeLeft
  /\ TwoDigits
  /\ DigitsDrawn
  /\ ~BinaryMode => FieldsRead /\ DigitsRead

-----------------------------------------------------------------------------
(* The conversions *)

LEMMA EncodedRange ==
  ASSUME NEW n \in 0 .. 59
  PROVE  Encoded(n) \in 0 .. 89
  BY SMT DEF Encoded

LEMMA BCDRange ==
  ASSUME NEW n \in 0 .. 59
  PROVE  bcd_to_binary(Encoded(n)) \in 0 .. 59
  BY SMT DEF Encoded, bcd_to_binary

\* Two BCD digits are converted back to the number they stand for.
LEMMA BCDInverts ==
  ASSUME ~BinaryMode, NEW n \in 0 .. 99
  PROVE  bcd_to_binary(Encoded(n)) = n
  BY SMT DEF Encoded, bcd_to_binary

LEMMA LocalHourConverts ==
  ASSUME ~BinaryMode, NEW n \in 0 .. 23
  PROVE  LocalHour(Encoded(n)) = (n + 7) % 24
  BY SMT DEF Encoded, LocalHour

LEMMA LocalHourRange ==
  ASSUME NEW n \in 0 .. 255
  PROVE  LocalHour(n) \in 0 .. 23
  BY SMT DEF LocalHour

LEMMA DigitsCompose ==
  ASSUME NEW n \in 0 .. 99
  PROVE  /\ LeftDigit(n) \in 0 .. 9
         /\ RightDigit(n) \in 0 .. 9
         /\ LeftDigit(n) * 10 + RightDigit(n) = n
  BY SMT DEF LeftDigit, RightDigit

LEMMA RegisterRange ==
  ASSUME now \in TimesOfDay
  PROVE  /\ Register("hour") \in 0 .. 89
         /\ bcd_to_binary(Register("minute")) \in 0 .. 59
         /\ bcd_to_binary(Register("second")) \in 0 .. 59
<1>1. now.hour \in 0 .. 59 /\ now.minute \in 0 .. 59 /\ now.second \in 0 .. 59
  BY DEF TimesOfDay
<1> QED BY <1>1, EncodedRange, BCDRange DEF Register

LEMMA NextSecondType ==
  ASSUME NEW t \in TimesOfDay
  PROVE  NextSecond(t) \in TimesOfDay
<1>1. t.hour \in Nat /\ t.minute \in Nat /\ t.second \in Nat
  BY DEF TimesOfDay
<1>2. PICK s \in Nat : s = t.hour * 3600 + t.minute * 60 + t.second + 1
  BY <1>1
<1>3. (s \div 3600) % 24 \in 0 .. 23 /\ (s \div 60) % 60 \in 0 .. 59 /\ s % 60 \in 0 .. 59
  OBVIOUS
<1>4. NextSecond(t) =
        [hour |-> (s \div 3600) % 24, minute |-> (s \div 60) % 60, second |-> s % 60]
  BY <1>2 DEF NextSecond
<1> QED BY <1>3, <1>4 DEF TimesOfDay

LEMMA DrawsInOrder ==
  /\ Draws[1] = "draw1" /\ Draws[2] = "draw2" /\ Draws[3] = "draw3"
  /\ Draws[4] = "draw4" /\ Draws[5] = "draw5" /\ Draws[6] = "draw6"
  /\ {Draws[k] : k \in 1 .. 6} = Drawing
  /\ Len(Draws) = 6
<1>1. /\ Draws[1] = "draw1" /\ Draws[2] = "draw2" /\ Draws[3] = "draw3"
      /\ Draws[4] = "draw4" /\ Draws[5] = "draw5" /\ Draws[6] = "draw6"
      /\ Len(Draws) = 6
  BY DEF Draws
<1>2. \A k \in 1 .. 6 : k = 1 \/ k = 2 \/ k = 3 \/ k = 4 \/ k = 5 \/ k = 6
  OBVIOUS
<1>3. {Draws[k] : k \in 1 .. 6} = Drawing
  BY <1>1, <1>2 DEF Drawing
<1> QED BY <1>1, <1>3

LEMMA DrawsDiffer ==
  ASSUME NEW i \in 1 .. 6, NEW k \in 1 .. 6, Draws[i] = Draws[k]
  PROVE  i = k
<1>1. i = 1 \/ i = 2 \/ i = 3 \/ i = 4 \/ i = 5 \/ i = 6
  OBVIOUS
<1>2. k = 1 \/ k = 2 \/ k = 3 \/ k = 4 \/ k = 5 \/ k = 6
  OBVIOUS
<1> QED BY <1>1, <1>2, DrawsInOrder

-----------------------------------------------------------------------------
(* The invariant *)

LEMMA InitInv == Init => ClockInv
<1> SUFFICES ASSUME Init PROVE ClockInv
  OBVIOUS
<1>1. now \in TimesOfDay /\ seen \in TimesOfDay
  BY ClockAssumption DEF Init, ClockAssumption
<1>2. time \in [hour : 0 .. 255, minute : 0 .. 59, second : 0 .. 59]
  BY DEF Init
<1>3. accesses \in 0 .. LEAD /\ updates \in 0 .. MaxUpdates
  BY ClockAssumption DEF Init, ClockAssumption
<1>4. flag \in BOOLEAN /\ UpdateAnnounced
  BY DEF Init, UpdateAnnounced
<1>5. time_array \in [1 .. 6 -> 0 .. 9] /\ shown \in [1 .. 6 -> 0 .. 9]
  BY DEF Init
<1>6. TypeOK
  BY <1>1, <1>2, <1>3, <1>5, <1>4 DEF Init, TypeOK
<1> QED BY <1>6, <1>4, DrawsInOrder DEF Init, ClockInv, TimeLeft, TwoDigits, DigitsDrawn, FieldsRead,
                    DigitsRead, Drawing

\* The device: with less than LEAD accesses behind it, it stays as it is while
\* the kernel reads.
LEMMA DeviceKeepsInv ==
  ASSUME ClockInv, RaiseFlag \/ Update
  PROVE  ClockInv'
<1>1. UNCHANGED <<pc, time, time_array, shown, seen>> /\ LEAD \in Nat /\ LEAD >= 3
      /\ MaxUpdates \in Nat
  BY ClockAssumption DEF RaiseFlag, Update, ClockAssumption
<1>2. TypeOK' /\ UpdateAnnounced'
  <2>1. now' \in TimesOfDay
    BY NextSecondType DEF ClockInv, TypeOK, RaiseFlag, Update
  <2>2. flag' \in BOOLEAN
    BY DEF RaiseFlag, Update
  <2>3. accesses' \in 0 .. LEAD
    BY <1>1 DEF RaiseFlag, Update
  <2>4. updates' \in 0 .. MaxUpdates /\ UpdateAnnounced'
    BY <1>1 DEF ClockInv, TypeOK, UpdateAnnounced, RaiseFlag, Update
  <2> QED BY <1>1, <2>1, <2>2, <2>4, <2>3 DEF ClockInv, TypeOK
<1>3. TimeLeft'
  BY <1>1 DEF ClockInv, TypeOK, TimeLeft, RaiseFlag, Update, DeviceMayMove, Reading
<1>4. TwoDigits' /\ DigitsDrawn' /\ (~BinaryMode => FieldsRead' /\ DigitsRead')
  BY <1>1 DEF ClockInv, TwoDigits, DigitsDrawn, FieldsRead, DigitsRead
<1> QED BY <1>2, <1>3, <1>4 DEF ClockInv

LEMMA ReadKeepsInv ==
  ASSUME ClockInv, TestFlag \/ ReadSecond \/ ReadMinute \/ ReadHour
  PROVE  ClockInv'
<1> USE ClockAssumption DEF ClockAssumption
<1>1. now \in TimesOfDay /\ now.hour \in 0 .. 23 /\ now.minute \in 0 .. 59
  BY DEF ClockInv, TypeOK, TimesOfDay
<1>2. accesses' \in 0 .. LEAD /\ accesses' <= accesses + 1 /\ UNCHANGED <<now, flag, updates>>
  BY DEF ClockInv, TypeOK, TestFlag, ReadSecond, ReadMinute, ReadHour, ReadField, Access, device
<1>3. TypeOK' /\ UpdateAnnounced' /\ TwoDigits'
  BY <1>1, <1>2, RegisterRange
  DEF ClockInv, TypeOK, UpdateAnnounced, TwoDigits, TestFlag, ReadSecond, ReadMinute, ReadHour, ReadField, Reading
<1>4. TimeLeft'
  BY <1>2 DEF ClockInv, TypeOK, TimeLeft, TestFlag, ReadSecond, ReadMinute, ReadHour, ReadField,
              is_update_cmos
<1>5. DigitsDrawn' /\ DigitsRead'
  BY DEF DigitsDrawn, DigitsRead, Drawing, Draws, TestFlag, ReadSecond, ReadMinute, ReadHour,
         ReadField
<1>6. ASSUME ~BinaryMode PROVE FieldsRead'
  <2>1. bcd_to_binary(Register("minute")) = now.minute /\ Register("hour") = Encoded(now.hour)
    BY <1>1, <1>6, BCDInverts DEF Register
  <2> QED BY <2>1, <1>6 DEF ClockInv, TypeOK, TimeLeft, FieldsRead, TestFlag, ReadSecond,
                            ReadMinute, ReadHour, ReadField
<1> QED BY <1>3, <1>4, <1>5, <1>6 DEF ClockInv

LEMMA StatusKeepsInv ==
  ASSUME ClockInv, ReadStatus
  PROVE  ClockInv'
<1> USE ClockAssumption DEF ClockAssumption
<1> DEFINE t == Converted(time)
<1>1. time \in [hour : 0 .. 99, minute : 0 .. 59, second : 0 .. 59]
  BY DEF ClockInv, TypeOK, UpdateAnnounced, TwoDigits
<1>2. time.hour \in 0 .. 255 /\ time.minute \in 0 .. 59 /\ time.second \in 0 .. 59
  BY <1>1
<1>3. bcd_to_binary(time.second) \in 0 .. 59 /\ LocalHour(time.hour) \in 0 .. 23
  BY <1>2, LocalHourRange, SMTT(30) DEF bcd_to_binary
<1>4. t \in [hour : 0 .. 99, minute : 0 .. 59, second : 0 .. 59] /\ t.minute = time.minute
      /\ (~BinaryMode => t.hour = LocalHour(time.hour))
  BY <1>1, <1>3 DEF Converted
<1> DEFINE digits == DigitsOf(t)
<1>5. digits \in [1 .. 6 -> 0 .. 9]
  <2>1. t.hour \in 0 .. 99 /\ t.minute \in 0 .. 99 /\ t.second \in 0 .. 99
    BY <1>4
  <2>2. \A n \in 0 .. 99 : LeftDigit(n) \in 0 .. 9 /\ RightDigit(n) \in 0 .. 9
    BY DigitsCompose
  <2> HIDE DEF t
  <2> QED BY <2>1, <2>2, SMTT(30) DEF DigitsOf
<1>6. digits[1] * 10 + digits[2] = t.hour /\ digits[3] * 10 + digits[4] = t.minute
  <2>1. t.hour \in 0 .. 99 /\ t.minute \in 0 .. 99
    BY <1>4
  <2>2. \A n \in 0 .. 99 : LeftDigit(n) * 10 + RightDigit(n) = n
    BY DigitsCompose
  <2> HIDE DEF t
  <2> QED BY <2>1, <2>2 DEF DigitsOf
<1>7. time' = t /\ time_array' = digits /\ pc' = "draw1" /\ pc = "status"
      /\ UNCHANGED <<device, shown, seen>>
  BY DEF ReadStatus
<1>8. accesses' \in 0 .. LEAD
  BY DEF ClockInv, TypeOK, ReadStatus, Access
<1> HIDE DEF digits, t
<1>9. TypeOK' /\ UpdateAnnounced' /\ TwoDigits'
  BY <1>4, <1>5, <1>7, <1>8 DEF ClockInv, TypeOK, UpdateAnnounced, TwoDigits, device, Draws
<1>10. TimeLeft' /\ DigitsDrawn' /\ FieldsRead'
  BY <1>7 DEF TimeLeft, DigitsDrawn, FieldsRead, Draws
<1>11. ASSUME ~BinaryMode PROVE DigitsRead'
  <2>1. time.hour = Encoded(seen.hour) /\ time.minute = seen.minute
    BY <1>7, <1>11 DEF ClockInv, FieldsRead
  <2>2. seen.hour \in 0 .. 23
    BY DEF ClockInv, TypeOK, TimesOfDay
  <2>3. t.hour = (seen.hour + 7) % 24 /\ t.minute = seen.minute
    BY <2>1, <2>2, <1>4, <1>11, LocalHourConverts
  <2> QED BY <2>3, <1>6, <1>7 DEF DigitsRead
<1> QED BY <1>9, <1>10, <1>11 DEF ClockInv

LEMMA DrawKeepsInv ==
  ASSUME ClockInv, NEW k \in 1 .. 6, DrawDigit(k)
  PROVE  ClockInv'
<1>1. UNCHANGED <<now, flag, updates, accesses, time, time_array, seen>>
  BY DEF DrawDigit, device
<1>2. pc = Draws[k] /\ shown' = [shown EXCEPT ![k] = time_array[k]]
      /\ pc' = IF k = 6 THEN "drawn" ELSE Draws[k + 1]
  BY DEF DrawDigit, Draws
<1>3. pc \in Drawing /\ pc' \in Drawing \cup {"drawn"}
  BY <1>2 DEF Draws, Drawing
<1>4. TypeOK' /\ UpdateAnnounced' /\ TwoDigits'
  BY <1>1, <1>2 DEF ClockInv, TypeOK, UpdateAnnounced, TwoDigits, Draws
<1>5. TimeLeft' /\ FieldsRead'
  BY <1>3 DEF TimeLeft, FieldsRead, Drawing
<1>6. DigitsDrawn'
  <2>1. \A j \in 1 .. k : shown'[j] = time_array[j]
    BY <1>2 DEF ClockInv, TypeOK, DigitsDrawn
  <2>2. \A i \in 1 .. 6 : pc' = Draws[i] => i = k + 1
    BY <1>2 DEF Draws
  <2>3. pc' = "drawn" => k = 6
    BY <1>2 DEF Draws
  <2> QED BY <2>1, <2>2, <2>3, <1>1 DEF DigitsDrawn
<1>7. ~BinaryMode => DigitsRead'
  BY <1>1, <1>3 DEF ClockInv, DigitsRead
<1> QED BY <1>4, <1>5, <1>6, <1>7 DEF ClockInv

LEMMA CallKeepsInv ==
  ASSUME ClockInv, init_cmos \/ CallReadCmos
  PROVE  ClockInv'
  BY DEF ClockInv, TypeOK, UpdateAnnounced, TimeLeft, TwoDigits, DigitsDrawn, FieldsRead, DigitsRead, Drawing,
         Draws, Reading, init_cmos, CallReadCmos, device

LEMMA NextInv ==
  ASSUME ClockInv, [Next]_vars
  PROVE  ClockInv'
<1>1. CASE UNCHANGED vars
  BY <1>1 DEF vars, ClockInv, TypeOK, UpdateAnnounced, TimeLeft, TwoDigits, DigitsDrawn, FieldsRead, DigitsRead
<1>2. CASE Next
  BY <1>2, DeviceKeepsInv, ReadKeepsInv, StatusKeepsInv, DrawKeepsInv, CallKeepsInv
  DEF Next, ClockStep
<1> QED BY <1>1, <1>2

(***************************************************************************)
(* The inductive invariant of the clock: the device's registers, the       *)
(* kernel's copy, the program's digits and the screen agree as far as the  *)
(* reading in progress has come (cmos.c:28-54, user-clock.c:17-34).        *)
(***************************************************************************)
THEOREM ClockInvariant == Spec => []ClockInv
<1>1. Init => ClockInv
  BY InitInv
<1>2. ClockInv /\ [Next]_vars => ClockInv'
  BY NextInv
<1> QED BY <1>1, <1>2, PTL DEF Spec

-----------------------------------------------------------------------------

(***************************************************************************)
(* Every digit drawn is a digit, and the fields stay in range, in either   *)
(* mode of the device (cmos.c:28-86).                                      *)
(***************************************************************************)
THEOREM ClockTypeCorrect == Spec => []TypeOK
<1>1. ClockInv => TypeOK
  BY DEF ClockInv
<1> QED BY <1>1, ClockInvariant, PTL

(***************************************************************************)
(* The three registers are read at one instant of the device, whatever the *)
(* time between flag and update, if it is at least three accesses          *)
(* (cmos.c:29-33).                                                         *)
(***************************************************************************)
THEOREM OneInstantIsRead == Spec => []ReadsOneInstant
<1>1. ClockInv => ReadsOneInstant
  BY DEF ClockInv, TimeLeft, ReadsOneInstant
<1> QED BY <1>1, ClockInvariant, PTL

(***************************************************************************)
(* With a device that counts in BCD, as a PC's does, hour and minute on    *)
(* the screen after a round are those of one instant (cmos.c:28-54,        *)
(* user-clock.c:25-33).                                                    *)
(***************************************************************************)
THEOREM LocalTimeIsShown ==
  ASSUME ~BinaryMode
  PROVE  Spec => []ShowsLocalTime
<1>1. ClockInv => ShowsLocalTime
  BY DEF ClockInv, DigitsRead, DigitsDrawn, ShowsLocalTime
<1> QED BY <1>1, ClockInvariant, PTL
=============================================================================
