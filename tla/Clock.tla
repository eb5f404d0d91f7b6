------------------------------- MODULE Clock -------------------------------
(***************************************************************************)
(* The clock: the real-time clock device, read_cmos (cmos.c) and the       *)
(* program that draws what it reads (user-clock.c).                        *)
(*                                                                         *)
(* The device counts seconds by itself.  A while before it changes its     *)
(* registers it sets the update flag.  The kernel reads them with          *)
(* interrupts off, one register access after the other, so the device is   *)
(* all that moves meanwhile; between system calls time passes freely.      *)
(***************************************************************************)
EXTENDS Integers, Sequences

CONSTANTS
  StartTimes,     \* the device's time when the clock program starts
  MaxUpdates,     \* bound on the seconds that pass
  LEAD,           \* register accesses that fit between the flag and the update,
                  \* and between one update and the next flag
  BinaryMode      \* bit 2 of status register B

TimesOfDay == [hour : 0 .. 23, minute : 0 .. 59, second : 0 .. 59]

\* The accesses that follow the one that saw the flag clear.
ClockAssumption ==
  /\ StartTimes \subseteq TimesOfDay
  /\ MaxUpdates \in Nat
  /\ LEAD \in Nat /\ LEAD >= 3
  /\ BinaryMode \in BOOLEAN
ASSUME ClockAssumption

VARIABLES
  now,            \* the device's time
  flag,           \* its update flag
  accesses,       \* register accesses since the flag last changed, up to LEAD
  updates,        \* seconds that passed
  pc,             \* where the program and its system call are
  time,           \* the kernel's static Time
  time_array,     \* the program's digits
  shown,          \* the digits on the screen
  seen            \* history: the device's time when the flag was seen clear

vars == <<now, flag, accesses, updates, pc, time, time_array, shown, seen>>
device == <<now, flag, updates>>

Reading == {"flag", "second", "minute", "hour", "status"}

-----------------------------------------------------------------------------
(* The device *)

Encoded(n) == IF BinaryMode THEN n ELSE ((n \div 10) * 16) + (n % 10)
Register(field) == Encoded(now[field])

NextSecond(t) ==
  LET s == t.hour * 3600 + t.minute * 60 + t.second + 1 IN
  [hour |-> (s \div 3600) % 24, minute |-> (s \div 60) % 60, second |-> s % 60]

\* While the kernel reads, the device is slow.
DeviceMayMove == pc \in Reading => accesses = LEAD

RaiseFlag ==
  /\ ~flag /\ updates < MaxUpdates /\ DeviceMayMove
  /\ flag' = TRUE /\ accesses' = 0
  /\ UNCHANGED <<now, updates, pc, time, time_array, shown, seen>>

Update ==
  /\ flag /\ DeviceMayMove
  /\ now' = NextSecond(now) /\ updates' = updates + 1
  /\ flag' = FALSE /\ accesses' = 0
  /\ UNCHANGED <<pc, time, time_array, shown, seen>>

-----------------------------------------------------------------------------
(* read_cmos *)

Access == accesses' = IF accesses < LEAD THEN accesses + 1 ELSE LEAD

\* Mutant: the device is taken to count in binary.
Unconverted(bcd) == bcd

bcd_to_binary(bcd) == (bcd % 16) + ((bcd \div 16) * 10)

\* Mutant: the hour is moved to the time zone after the remainder is taken.
LateZone(raw) ==
  (((raw % 16) + (((raw % 128) \div 16) * 10) + (128 * (raw \div 128))) % 24) + 7

\* The hour's digits without the bit for the afternoon, that bit, and the time zone.
LocalHour(raw) ==
  ((raw % 16) + (((raw % 128) \div 16) * 10) + (128 * (raw \div 128)) + 7) % 24

\* Mutant: the flag is not looked at.
NeverBusy == FALSE

is_update_cmos == flag

TestFlag ==
  /\ pc = "flag" /\ Access
  /\ pc' = IF is_update_cmos THEN "flag" ELSE "second"
  /\ seen' = IF is_update_cmos THEN seen ELSE now
  /\ UNCHANGED <<device, time, time_array, shown>>

\* Seconds and minutes are converted as they are read, whatever the mode is.
ReadField(field, value, next) ==
  /\ pc = field /\ Access
  /\ time' = [time EXCEPT ![field] = value]
  /\ pc' = next
  /\ UNCHANGED <<device, time_array, shown, seen>>

ReadSecond == ReadField("second", bcd_to_binary(Register("second")), "minute")
ReadMinute == ReadField("minute", bcd_to_binary(Register("minute")), "hour")
ReadHour == ReadField("hour", Register("hour"), "status")

\* What the rest of read_cmos makes of the fields: in BCD mode the seconds are
\* converted once more.
Converted(t) ==
  IF BinaryMode THEN t
  ELSE [hour |-> LocalHour(t.hour), minute |-> t.minute, second |-> bcd_to_binary(t.second)]

\* numToStrLeft() and numToStrRight(), of numbers below 100
LeftDigit(n) == n \div 10
RightDigit(n) == n % 10
DigitsOf(t) ==
  <<LeftDigit(t.hour), RightDigit(t.hour), LeftDigit(t.minute), RightDigit(t.minute),
    LeftDigit(t.second), RightDigit(t.second)>>

ReadStatus ==
  /\ pc = "status" /\ Access
  /\ time' = Converted(time)
  /\ time_array' = DigitsOf(Converted(time))
  /\ pc' = "draw1"
  /\ UNCHANGED <<device, shown, seen>>

-----------------------------------------------------------------------------
(* The program *)

Draws == <<"draw1", "draw2", "draw3", "draw4", "draw5", "draw6">>

\* The colons, drawn between the digits, never change.
DrawDigit(k) ==
  /\ pc = Draws[k]
  /\ shown' = [shown EXCEPT ![k] = time_array[k]]
  /\ pc' = IF k = Len(Draws) THEN "drawn" ELSE Draws[k + 1]
  /\ UNCHANGED <<device, accesses, time, time_array, seen>>

\* System call 11: init_cmos() does nothing.
init_cmos ==
  /\ pc = "init"
  /\ pc' = "call"
  /\ UNCHANGED <<device, accesses, time, time_array, shown, seen>>

\* Mutant: the call is made before the loop.
CallOnce ==
  /\ pc \in {"call", "drawn"}
  /\ pc' = IF pc = "call" THEN "flag" ELSE "draw1"
  /\ UNCHANGED <<device, accesses, time, time_array, shown, seen>>

\* System call 12: the kernel begins to read.
CallReadCmos ==
  /\ pc \in {"call", "drawn"}
  /\ pc' = "flag"
  /\ UNCHANGED <<device, accesses, time, time_array, shown, seen>>

Init ==
  /\ now \in StartTimes
  /\ flag = FALSE
  /\ accesses = 0
  /\ updates = 0
  /\ pc = "init"
  /\ time = [hour |-> 0, minute |-> 0, second |-> 0]
  /\ time_array = [k \in 1 .. 6 |-> 0]
  /\ shown = [k \in 1 .. 6 |-> 0]
  /\ seen = now

ClockStep ==
  \/ init_cmos \/ CallReadCmos
  \/ TestFlag \/ ReadSecond \/ ReadMinute \/ ReadHour \/ ReadStatus
  \/ \E k \in 1 .. 6 : DrawDigit(k)

Next == RaiseFlag \/ Update \/ ClockStep

\* The scheduler gives the program its turns, and an update ends.
Spec == Init /\ [][Next]_vars /\ WF_vars(ClockStep) /\ WF_vars(Update)

-----------------------------------------------------------------------------
(* Properties *)

TypeOK ==
  /\ now \in TimesOfDay /\ seen \in TimesOfDay
  /\ flag \in BOOLEAN
  /\ accesses \in 0 .. LEAD
  /\ updates \in 0 .. MaxUpdates
  /\ pc \in {"init", "call", "drawn"} \cup Reading \cup {Draws[k] : k \in 1 .. 6}
  /\ time \in [hour : 0 .. 255, minute : 0 .. 59, second : 0 .. 59]
  /\ time_array \in [1 .. 6 -> 0 .. 9]
  /\ shown \in [1 .. 6 -> 0 .. 9]

(***************************************************************************)
(* The three registers are read while the device does not change them: one *)
(* test of the flag, before the first, is enough because they are read     *)
(* with interrupts off and the flag comes early (cmos.c:29-33).            *)
(***************************************************************************)
ReadsOneInstant == pc \in {"second", "minute", "hour"} => now = seen

(***************************************************************************)
(* Once a round of drawing is over, the screen has the hour of the time    *)
(* zone and the minute of one instant, for every time of the day           *)
(* (cmos.c:28-54, user-clock.c:25-33).  Nothing of the kind holds of the   *)
(* seconds, which are converted from BCD twice (cmos.c:31 and 43).         *)
(***************************************************************************)
ShowsLocalTime ==
  pc = "drawn" =>
    /\ shown[1] * 10 + shown[2] = (seen.hour + 7) % 24
    /\ shown[3] * 10 + shown[4] = seen.minute

(***************************************************************************)
(* The clock does not stand still: the wait for the device ends, and every *)
(* time of the device is read and shown unless the next one comes before   *)
(* (cmos.c:29, user-clock.c:23-34).                                        *)
(***************************************************************************)
ReadsAgain ==
  \A n \in 0 .. MaxUpdates : updates = n ~> (updates > n \/ (pc = "drawn" /\ seen = now))
=============================================================================
