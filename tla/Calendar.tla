------------------------------ MODULE Calendar ------------------------------
(***************************************************************************)
(* kernel/mktime.c: kernel_mktime and is_valid_date, beside a calendar     *)
(* that is walked through day by day; and time_init of init/main.c, which  *)
(* reads the date out of the clock chip one register at a time while the   *)
(* clock goes on, to set startup_time by kernel_mktime.                    *)
(***************************************************************************)
EXTENDS Integers

CONSTANTS
  BootDays,   \* the days, counted from 1970-01-01, on which it is booted,
  BootTimes,  \* the seconds of those days at which it is,
  MaxTicks,   \* and how many seconds pass during time_init: a bound
  MaxDays     \* how far the calendar is followed: a bound

MINUTE == 60
HOUR == 60 * MINUTE
DAY == 24 * HOUR
YEAR == 365 * DAY

\* The last whole day whose seconds fit into a 32-bit long, 2038-01-18, and the
\* last year that is_valid_date knows.
LastDay == 24854
LastYear == 2100

ASSUME CalendarAssumption ==
  /\ BootDays \subseteq 0 .. LastDay - 1
  /\ BootTimes \subseteq 0 .. DAY - 1
  /\ MaxTicks \in 0 .. MINUTE - 1
  /\ MaxDays \in Nat

-----------------------------------------------------------------------------
(* The code. *)

\* month[]: the days before each month of a leap year
month == [mon \in 0 .. 11 |->
  <<0, 31, 31+29, 31+29+31, 31+29+31+30, 31+29+31+30+31, 31+29+31+30+31+30,
    31+29+31+30+31+30+31, 31+29+31+30+31+30+31+31, 31+29+31+30+31+30+31+31+30,
    31+29+31+30+31+30+31+31+30+31, 31+29+31+30+31+30+31+31+30+31+30>>[mon + 1]]

kernel_mktime_everyFourth(tm) ==
  LET year == IF tm.tm_year >= 70 THEN tm.tm_year - 70 ELSE tm.tm_year + 100 - 70
      leap == IF tm.tm_mon > 1 /\ (year + 1) % 4 # 0 THEN 1 ELSE 0
  IN YEAR * year + DAY * ((year + 1) \div 4) + DAY * month[tm.tm_mon] - DAY * leap
       + DAY * (tm.tm_mday - 1) + HOUR * tm.tm_hour + MINUTE * tm.tm_min + tm.tm_sec
kernel_mktime(tm) ==
  LET year == IF tm.tm_year >= 70 THEN tm.tm_year - 70 ELSE tm.tm_year + 100 - 70
      leap == IF tm.tm_mon > 1 /\ (year + 2) % 4 # 0 THEN 1 ELSE 0
  IN YEAR * year + DAY * ((year + 1) \div 4) + DAY * month[tm.tm_mon] - DAY * leap
       + DAY * (tm.tm_mday - 1) + HOUR * tm.tm_hour + MINUTE * tm.tm_min + tm.tm_sec

InRange(tm) ==
  /\ tm.tm_year \in 0 .. 200 /\ tm.tm_mon \in 0 .. 11 /\ tm.tm_mday \in 1 .. 31
  /\ tm.tm_hour \in 0 .. 23 /\ tm.tm_min \in 0 .. 59 /\ tm.tm_sec \in 0 .. 61

is_valid_date_julian(tm) ==
  /\ InRange(tm)
  /\ tm.tm_mon = 1 => tm.tm_mday <= 28 \/ (tm.tm_mday = 29 /\ tm.tm_year % 4 = 0)
  /\ tm.tm_mon \in {3, 5, 8, 10} => tm.tm_mday <= 30
is_valid_date(tm) ==
  LET year == IF tm.tm_year >= 70 THEN tm.tm_year + 1900 ELSE tm.tm_year + 2000
  IN /\ InRange(tm)
     /\ tm.tm_mon = 1 =>
          \/ tm.tm_mday <= 28
          \/ /\ tm.tm_mday = 29 /\ year % 4 = 0
             /\ (year % 100 # 0 \/ year % 400 = 0)
     /\ tm.tm_mon \in {3, 5, 8, 10} => tm.tm_mday <= 30

-----------------------------------------------------------------------------

VARIABLES
  days, tod,        \* now: days since 1970-01-01, and second of the day
  year, mon, mday,  \* today, mon from 0 as in struct tm
  pc,               \* of time_init: "off", the register to be read next, "again"
                    \* when the seconds are read again, or "done"
  time,             \* what time_init has read so far
  ticks,            \* seconds passed since boot
  startup_time

today == <<days, year, mon, mday>>
vars == <<today, tod, pc, time, ticks, startup_time>>

IsLeap(y) == y % 4 = 0 /\ (y % 100 # 0 \/ y % 400 = 0)
Length(y, m) == IF m = 1 THEN (IF IsLeap(y) THEN 29 ELSE 28)
                ELSE IF m \in {3, 5, 8, 10} THEN 30 ELSE 31

NoTime == [tm_sec |-> 0, tm_min |-> 0, tm_hour |-> 0, tm_mday |-> 0, tm_mon |-> 0,
           tm_year |-> 0]

Init ==
  /\ days = 0 /\ year = 1970 /\ mon = 0 /\ mday = 1
  /\ tod = 0
  /\ pc = "off" /\ time = NoTime /\ ticks = 0 /\ startup_time = 0

\* The calendar goes on to the next day.
Midnight ==
  /\ days' = days + 1
  /\ mday' = IF mday = Length(year, mon) THEN 1 ELSE mday + 1
  /\ mon' = IF mday' # 1 THEN mon ELSE IF mon = 11 THEN 0 ELSE mon + 1
  /\ year' = IF mday' = 1 /\ mon' = 0 THEN year + 1 ELSE year

-----------------------------------------------------------------------------
(* The clock chip, whose registers hold two decimal digits. *)

ToBCD(n) == ((n \div 10) * 16) + (n % 10)
BCD_TO_BIN(v) == (v % 16) + ((v \div 16) * 10)

CMOS == [tm_sec |-> ToBCD(tod % 60), tm_min |-> ToBCD((tod \div 60) % 60),
         tm_hour |-> ToBCD(tod \div HOUR), tm_mday |-> ToBCD(mday),
         tm_mon |-> ToBCD(mon + 1), tm_year |-> ToBCD(year % 100)]

\* The order in which time_init reads.
After == [tm_sec |-> "tm_min", tm_min |-> "tm_hour", tm_hour |-> "tm_mday",
          tm_mday |-> "tm_mon", tm_mon |-> "tm_year", tm_year |-> "again"]
Registers == DOMAIN After

NextDay ==
  /\ pc = "off" /\ days < MaxDays
  /\ Midnight
  /\ UNCHANGED <<tod, pc, time, ticks, startup_time>>

Boot ==
  /\ pc = "off" /\ days \in BootDays
  /\ tod' \in BootTimes
  /\ pc' = "tm_sec"
  /\ UNCHANGED <<today, time, ticks, startup_time>>

Read(r) ==
  /\ pc = r
  /\ time' = [time EXCEPT ![r] = CMOS[r]]
  /\ pc' = After[r]
  /\ UNCHANGED <<today, tod, ticks, startup_time>>

Converted == [r \in Registers |-> BCD_TO_BIN(time[r]) - IF r = "tm_mon" THEN 1 ELSE 0]

\* while (time.tm_sec != CMOS_READ(0)), and what follows the loop
ReadAgain_never ==
  /\ pc = "again"
  /\ pc' = "done"
  /\ startup_time' = kernel_mktime(Converted)
  /\ UNCHANGED <<today, tod, time, ticks>>
ReadAgain ==
  /\ pc = "again"
  /\ IF time.tm_sec = CMOS.tm_sec
       THEN pc' = "done" /\ startup_time' = kernel_mktime(Converted)
       ELSE pc' = "tm_sec" /\ UNCHANGED startup_time
  /\ UNCHANGED <<today, tod, time, ticks>>

\* A second passes.
Tick ==
  /\ pc \notin {"off", "done"}
  /\ ticks < MaxTicks
  /\ ticks' = ticks + 1
  /\ tod' = (tod + 1) % DAY
  /\ IF tod' = 0 THEN Midnight ELSE UNCHANGED today
  /\ UNCHANGED <<pc, time, startup_time>>

Next == NextDay \/ Boot \/ (\E r \in Registers : Read(r)) \/ ReadAgain \/ Tick

Spec == Init /\ [][Next]_vars

-----------------------------------------------------------------------------
(* Properties. *)

\* A struct tm's year counts from 1900 or, from 2000 to 2069, from 2000.
Written(y) == {y - 1900} \cup (IF y \in 2000 .. 2069 THEN {y - 2000} ELSE {})

\* Today at midnight, or another day of the month, in both ways.
Midnights(d) ==
  {[NoTime EXCEPT !.tm_mday = d, !.tm_mon = mon, !.tm_year = y] : y \in Written(year)}

\* "Handles leap years correctly" (mktime.c:116): kernel_mktime is the number of
\* seconds since 1970-01-01 on every day that a long can hold, for both ways to
\* write a year. (LastDay is the last whole day whose seconds fit into the long
\* that it returns.)
MktimeCounts ==
  days <= LastDay => \A tm \in Midnights(mday) : kernel_mktime(tm) = DAY * days

\* is_valid_date accepts each date of the calendar up to 2100, in both ways to
\* write it, and no day after the last of a month.
ValidDatesExist ==
  year <= LastYear =>
    /\ \A tm \in Midnights(mday) : is_valid_date(tm)
    /\ mday = Length(year, mon) => \A tm \in Midnights(mday + 1) : ~is_valid_date(tm)

\* main.c:139: although seconds, hours, days and years end while time_init reads,
\* startup_time is the time at which it has finished.
StartupTimeIsNow == pc = "done" => startup_time = DAY * days + tod

=============================================================================
