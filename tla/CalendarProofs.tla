-------------------------- MODULE CalendarProofs --------------------------
(***************************************************************************)
(* Calendar for any days and times of day at which the system is booted:   *)
(* kernel_mktime counts the days, is_valid_date knows them, and time_init  *)
(* reads the time at which it ends.                                        *)
(***************************************************************************)
EXTENDS Calendar, TLAPS

-----------------------------------------------------------------------------
(* Counting days. *)

\* Until 2099 every fourth year is a leap year.
Years == 1970 .. 2099
Mons == 0 .. 11
Mdays == 1 .. 31

\* The days from 1970-01-01 to a date of these years.
Counted(y, m, d) ==
  365 * (y - 1970) + ((y - 1969) \div 4) + month[m] + (d - 1)
    - IF m > 1 /\ y % 4 # 0 THEN 1 ELSE 0

LEMMA Units == MINUTE = 60 /\ HOUR = 3600 /\ DAY = 86400 /\ YEAR = 31536000
BY DEF MINUTE, HOUR, DAY, YEAR

\* month[] goes up by the length of each month of a leap year.
LEMMA Months ==
  /\ \A m \in 0 .. 11 : month[m] \in Nat
  /\ month[0] = 0 /\ month[11] = 335
  /\ \A m \in 0 .. 10 :
       month[m + 1] = month[m] + (IF m = 1 THEN 29 ELSE IF m \in {3, 5, 8, 10} THEN 30 ELSE 31)
<1>1. /\ month[0] = 0 /\ month[1] = 31 /\ month[2] = 60 /\ month[3] = 91
      /\ month[4] = 121 /\ month[5] = 152 /\ month[6] = 182 /\ month[7] = 213
      /\ month[8] = 244 /\ month[9] = 274 /\ month[10] = 305 /\ month[11] = 335
  BY DEF month
<1>2. \A m \in 0 .. 10 : \/ m = 0 \/ m = 1 \/ m = 2 \/ m = 3 \/ m = 4 \/ m = 5
                        \/ m = 6 \/ m = 7 \/ m = 8 \/ m = 9 \/ m = 10
  OBVIOUS
<1>3. \A m \in 0 .. 10 :
       month[m + 1] = month[m] + (IF m = 1 THEN 29 ELSE IF m \in {3, 5, 8, 10} THEN 30 ELSE 31)
  BY <1>1, <1>2
<1>4. \A m \in 0 .. 11 : m = 11 \/ m \in 0 .. 10
  OBVIOUS
<1>5. \A m \in 0 .. 10 : month[m] \in Nat
  BY <1>1, <1>2
<1> QED
  BY <1>1, <1>3, <1>4, <1>5

LEMMA Lengths ==
  ASSUME NEW y \in Nat, NEW m \in 0 .. 11
  PROVE  Length(y, m) \in 28 .. 31
BY DEF Length

LEMMA LeapYears == \A y \in 1970 .. 2099 : IsLeap(y) <=> y % 4 = 0
BY DEF IsLeap

LEMMA CountedNext ==
  ASSUME NEW y \in Years, NEW m \in Mons, NEW d \in Mdays
  PROVE  /\ Counted(y, m, d) \in Int
         /\ Counted(y, m, d + 1) = Counted(y, m, d) + 1
         /\ d = Length(y, m) /\ m # 11 => Counted(y, m + 1, 1) = Counted(y, m, d) + 1
         /\ d = Length(y, m) /\ m = 11 => Counted(y + 1, 0, 1) = Counted(y, m, d) + 1
<1>0. y \in 1970 .. 2099 /\ m \in 0 .. 11 /\ d \in 1 .. 31
  BY DEF Years, Mons, Mdays
<1>1. month[m] \in Nat
  BY <1>0, Months
<1>2. Counted(y, m, d) \in Int /\ Counted(y, m, d + 1) = Counted(y, m, d) + 1
  BY <1>0, <1>1 DEF Counted
<1>3. ASSUME d = Length(y, m), m # 11
      PROVE  Counted(y, m + 1, 1) = Counted(y, m, d) + 1
  <2>1. m \in 0 .. 10 /\ month[m + 1] \in Nat
    BY <1>0, <1>3, Months
  <2>2. CASE m = 1
    BY <1>0, <1>1, <1>3, <2>1, <2>2, Months, LeapYears DEF Counted, Length
  <2>3. CASE m # 1
    <3>1. month[m + 1] = month[m] + d
      BY <1>0, <1>3, <2>1, <2>3, Months DEF Length
    <3>2. m + 1 > 1 <=> (m > 1 \/ m = 1)
      BY <2>1
    <3>3. m = 0 \/ m > 1
      BY <2>1, <2>3
    <3>4. CASE m = 0
      BY <1>0, <1>3, <3>4, <1>1, <3>1 DEF Counted
    <3>5. CASE m > 1
      BY <1>0, <1>3, <3>5, <1>1, <3>1 DEF Counted
    <3> QED
      BY <3>3, <3>4, <3>5
  <2> QED
    BY <2>2, <2>3
<1>4. ASSUME d = Length(y, m), m = 11
      PROVE  Counted(y + 1, 0, 1) = Counted(y, m, d) + 1
  <2>1. d = 31
    BY <1>4 DEF Length
  <2> QED
    BY <1>0, <1>4, <2>1, Months DEF Counted
<1> QED
  BY <1>2, <1>3, <1>4

\* kernel_mktime for any of these dates.
LEMMA Mktime ==
  ASSUME NEW y \in Years, NEW m \in Mons, NEW d \in Mdays,
         NEW h \in Nat, NEW n \in Nat, NEW s \in Nat,
         NEW tm, tm.tm_mon = m, tm.tm_mday = d, tm.tm_hour = h, tm.tm_min = n, tm.tm_sec = s,
         tm.tm_year \in Written(y)
  PROVE  kernel_mktime(tm) = DAY * Counted(y, m, d) + HOUR * h + MINUTE * n + s
<1> DEFINE since == IF tm.tm_year >= 70 THEN tm.tm_year - 70 ELSE tm.tm_year + 100 - 70
           less == IF m > 1 /\ (since + 2) % 4 # 0 THEN 1 ELSE 0
<1>0. y \in 1970 .. 2099 /\ m \in 0 .. 11 /\ d \in 1 .. 31
  BY DEF Years, Mons, Mdays
<1>1. since = y - 1970
  BY <1>0 DEF Written
<1>2. less = IF m > 1 /\ y % 4 # 0 THEN 1 ELSE 0
  BY <1>0, <1>1
<1>3. kernel_mktime(tm) = YEAR * since + DAY * ((since + 1) \div 4) + DAY * month[m] - DAY * less
                            + DAY * (d - 1) + HOUR * h + MINUTE * n + s
  BY DEF kernel_mktime
<1> HIDE DEF since, less
<1>4. (since + 1) \div 4 = (y - 1969) \div 4 /\ (y - 1969) \div 4 \in Int
  BY <1>0, <1>1
<1>5. month[m] \in Nat /\ less \in Int
  BY <1>0, <1>2, Months
<1>6. Counted(y, m, d) = 365 * since + ((since + 1) \div 4) + month[m] + (d - 1) - less
  BY <1>0, <1>1, <1>2, <1>4 DEF Counted
<1>7. \A q \in Int : q = (since + 1) \div 4 =>
        YEAR * since + DAY * q + DAY * month[m] - DAY * less
          + DAY * (d - 1) + HOUR * h + MINUTE * n + s
        = DAY * (365 * since + q + month[m] + (d - 1) - less) + HOUR * h + MINUTE * n + s
  BY <1>0, <1>1, <1>5, Units
<1> QED
  BY <1>3, <1>4, <1>6, <1>7

-----------------------------------------------------------------------------
(* The calendar. *)

\* Today is a day of the calendar, and days is how many came before it.
IsDate ==
  /\ year \in Nat /\ year >= 1970 /\ mon \in 0 .. 11 /\ mday \in 1 .. Length(year, mon)
  /\ days \in Nat
  /\ year < 2100 => days = Counted(year, mon, mday)
  /\ year >= 2100 => days > LastDay

LEMMA DateInit == Init => IsDate
<1> SUFFICES ASSUME Init PROVE IsDate
  OBVIOUS
<1>1. year = 1970 /\ mon = 0 /\ mday = 1 /\ days = 0
  BY DEF Init
<1>2. Length(year, mon) = 31
  BY <1>1 DEF Length
<1>3. Counted(year, mon, mday) = 0
  BY <1>1, Months DEF Counted
<1> QED
  BY <1>1, <1>2, <1>3 DEF IsDate

LEMMA DateMidnight ==
  ASSUME IsDate, Midnight
  PROVE  IsDate'
<1>1. /\ year \in Nat /\ year >= 1970 /\ mon \in 0 .. 11 /\ days \in Nat
      /\ mday \in 1 .. Length(year, mon)
      /\ year < 2100 => days = Counted(year, mon, mday)
      /\ year >= 2100 => days > LastDay
  BY DEF IsDate
<1>2. /\ Length(year, mon) \in 28 .. 31 /\ mday \in 1 .. 31
      /\ \A y \in Nat, m \in 0 .. 11 : Length(y, m) \in 28 .. 31
  BY <1>1, Lengths
<1>3. days' = days + 1 /\ days' \in Nat
  BY <1>1 DEF Midnight
<1>4. ASSUME year < 2100
      PROVE  /\ Counted(year, mon, mday + 1) = days + 1
             /\ mday = Length(year, mon) /\ mon # 11 => Counted(year, mon + 1, 1) = days + 1
             /\ mday = Length(year, mon) /\ mon = 11 => Counted(year + 1, 0, 1) = days + 1
  <2>1. year \in Years /\ mon \in Mons /\ mday \in Mdays
    BY <1>1, <1>2, <1>4 DEF Years, Mons, Mdays
  <2>2. Counted(year, mon, mday) = days
    BY <1>1, <1>4
  <2> QED
    BY <2>1, <2>2, CountedNext
\* What is to be shown of tomorrow.
<1>5. ASSUME NEW y \in Nat, NEW m \in 0 .. 11, NEW d,
             year' = y, mon' = m, mday' = d, d \in 1 .. Length(y, m), y >= 1970,
             y < 2100 => days + 1 = Counted(y, m, d), y >= 2100 => days + 1 > LastDay
      PROVE  IsDate'
  BY <1>3, <1>5 DEF IsDate
<1>6. year >= 2100 => days + 1 > LastDay
  BY <1>1 DEF LastDay
<1>7. CASE mday # Length(year, mon)
  <2>1. year' = year /\ mon' = mon /\ mday' = mday + 1
    BY <1>1, <1>7 DEF Midnight
  <2>2. mday + 1 \in 1 .. Length(year, mon)
    BY <1>1, <1>2, <1>7
  <2>3. year < 2100 => days + 1 = Counted(year, mon, mday + 1)
    BY <1>4
  <2> QED
    BY <1>1, <1>5, <1>6, <2>1, <2>2, <2>3
<1>8. CASE mday = Length(year, mon) /\ mon # 11
  <2>1. year' = year /\ mon' = mon + 1 /\ mday' = 1 /\ mon + 1 \in 0 .. 11
    BY <1>1, <1>8 DEF Midnight
  <2>2. 1 \in 1 .. Length(year, mon + 1)
    BY <1>1, <1>2, <2>1
  <2>3. year < 2100 => days + 1 = Counted(year, mon + 1, 1)
    BY <1>4, <1>8
  <2> QED
    BY <1>1, <1>5, <1>6, <2>1, <2>2, <2>3
<1>9. CASE mday = Length(year, mon) /\ mon = 11
  <2>1. year' = year + 1 /\ mon' = 0 /\ mday' = 1
    BY <1>9 DEF Midnight
  <2>2. 1 \in 1 .. Length(year + 1, 0) /\ year + 1 \in Nat /\ 0 \in 0 .. 11
    BY <1>1, <1>2
  <2>3. year < 2100 => days + 1 = Counted(year + 1, 0, 1)
    BY <1>4, <1>9
  <2>4. Counted(2100, 0, 1) > LastDay
    BY Months DEF Counted, LastDay
  <2>5. year + 1 >= 2100 => days + 1 > LastDay
    <3>1. CASE year < 2100
      <4>1. year + 1 >= 2100 => year + 1 = 2100
        BY <1>1, <3>1
      <4> QED
        BY <2>3, <2>4, <3>1, <4>1
    <3> QED
      BY <1>1, <1>6, <3>1
  <2>6. year + 1 < 2100 => days + 1 = Counted(year + 1, 0, 1)
    BY <1>1, <2>3
  <2> QED
    BY <1>1, <1>5, <2>1, <2>2, <2>5, <2>6
<1> QED
  BY <1>7, <1>8, <1>9

LEMMA DateNext == IsDate /\ [Next]_vars => IsDate'
<1>1. Midnight \/ UNCHANGED today => (IsDate => IsDate')
  <2>1. UNCHANGED today => (IsDate => IsDate')
    BY DEF today, IsDate
  <2> QED
    BY <2>1, DateMidnight
<1>2. [Next]_vars => Midnight \/ UNCHANGED today
  BY DEF Next, NextDay, Boot, Read, ReadAgain, Tick, vars
<1> QED
  BY <1>1, <1>2

\* Today at midnight.
LEMMA MidnightsAre ==
  ASSUME NEW d, NEW tm \in Midnights(d)
  PROVE  /\ tm.tm_sec = 0 /\ tm.tm_min = 0 /\ tm.tm_hour = 0 /\ tm.tm_mon = mon /\ tm.tm_mday = d
         /\ tm.tm_year \in Written(year)
<1>1. tm \in {[NoTime EXCEPT !.tm_mday = d, !.tm_mon = mon, !.tm_year = y] : y \in Written(year)}
  BY DEF Midnights
<1>2. PICK y \in Written(year) :
        tm = [NoTime EXCEPT !.tm_mday = d, !.tm_mon = mon, !.tm_year = y]
  BY <1>1
<1> DEFINE M == [NoTime EXCEPT !.tm_mday = d, !.tm_mon = mon, !.tm_year = y]
<1>3. M.tm_sec = 0 /\ M.tm_min = 0 /\ M.tm_hour = 0
  BY DEF NoTime
<1>4. M.tm_mon = mon /\ M.tm_mday = d /\ M.tm_year = y
  BY DEF NoTime
<1> QED
  BY <1>2, <1>3, <1>4

\* kernel_mktime is the number of seconds since 1970-01-01, on every day whose seconds
\* fit into a long, for both ways to write the year.
THEOREM SecondsAreCounted == Spec => []MktimeCounts
<1>1. IsDate => MktimeCounts
  <2> SUFFICES ASSUME IsDate, days <= LastDay, NEW tm \in Midnights(mday)
               PROVE  kernel_mktime(tm) = DAY * days
    BY DEF MktimeCounts
  <2>1. year < 2100 /\ year \in Years /\ mon \in Mons /\ mday \in Mdays
    BY Lengths DEF IsDate, LastDay, Years, Mons, Mdays
  <2>2. kernel_mktime(tm) = DAY * Counted(year, mon, mday) + HOUR * 0 + MINUTE * 0 + 0
    BY <2>1, MidnightsAre, Mktime
  <2>3. Counted(year, mon, mday) = days /\ days \in Nat
    BY <2>1 DEF IsDate
  <2> QED
    BY <2>2, <2>3, Units
<1> QED
  BY <1>1, DateInit, DateNext, PTL DEF Spec

\* is_valid_date accepts the days of the calendar to 2100, and none after the last of a
\* month.
THEOREM DatesAreValid == Spec => []ValidDatesExist
<1>1. IsDate => ValidDatesExist
  <2> SUFFICES ASSUME IsDate, year <= LastYear
               PROVE  /\ \A tm \in Midnights(mday) : is_valid_date(tm)
                      /\ mday = Length(year, mon) =>
                           \A tm \in Midnights(mday + 1) : ~is_valid_date(tm)
    BY DEF ValidDatesExist
  <2>1. year \in 1970 .. 2100 /\ mon \in 0 .. 11 /\ mday \in 1 .. 31
    BY Lengths DEF IsDate, LastYear
  <2>2. ASSUME NEW d, NEW tm \in Midnights(d)
        PROVE  /\ tm.tm_sec = 0 /\ tm.tm_min = 0 /\ tm.tm_hour = 0 /\ tm.tm_year \in 0 .. 200
               /\ tm.tm_mon = mon /\ tm.tm_mday = d
               /\ (IF tm.tm_year >= 70 THEN tm.tm_year + 1900 ELSE tm.tm_year + 2000) = year
    BY <2>1, <2>2, MidnightsAre DEF Written
  <2>3. ASSUME NEW tm \in Midnights(mday)
        PROVE  is_valid_date(tm)
    <3>1. InRange(tm)
      BY <2>1, <2>2 DEF InRange
    <3>2. mday <= Length(year, mon)
      BY DEF IsDate
    <3> QED
      BY <2>1, <2>2, <3>1, <3>2 DEF is_valid_date, Length, IsLeap
  <2>4. ASSUME mday = Length(year, mon), NEW tm \in Midnights(mday + 1)
        PROVE  ~is_valid_date(tm)
    <3>1. tm.tm_mon = mon /\ tm.tm_mday = Length(year, mon) + 1
      BY <2>2, <2>4
    <3>2. (IF tm.tm_year >= 70 THEN tm.tm_year + 1900 ELSE tm.tm_year + 2000) = year
      BY <2>2
    <3>3. InRange(tm) => tm.tm_mday \in 1 .. 31
      BY DEF InRange
    <3>4. CASE mon = 1
      BY <2>1, <3>1, <3>2, <3>4 DEF is_valid_date, Length, IsLeap
    <3>5. CASE mon # 1
      BY <2>1, <3>1, <3>3, <3>5 DEF is_valid_date, Length
    <3> QED
      BY <3>4, <3>5
  <2> QED
    BY <2>3, <2>4
<1> QED
  BY <1>1, DateInit, DateNext, PTL DEF Spec

-----------------------------------------------------------------------------
(* time_init. *)

\* What time_init has read since it last read the seconds.
Turn == [tm_sec |-> 0, tm_min |-> 1, tm_hour |-> 2, tm_mday |-> 3, tm_mon |-> 4, tm_year |-> 5,
         again |-> 6]
HasRead == {r \in Registers : Turn[r] < Turn[pc]}
IsReading == pc \in {"tm_min", "tm_hour", "tm_mday", "tm_mon", "tm_year", "again"}

\* Since it read the seconds s, so many seconds have passed that the clock shows others,
\* or none have, and then all it has read is what the clock still shows.
Fresh ==
  \E k \in 0 .. ticks, s \in 0 .. 59 :
    /\ time["tm_sec"] = ToBCD(s)
    /\ tod % 60 = (s + k) % 60
    /\ k = 0 => \A r \in HasRead : time[r] = CMOS[r]

Clock ==
  /\ tod \in Nat /\ tod < DAY
  /\ ticks \in Nat /\ ticks <= MaxTicks
  /\ pc \in Registers \cup {"off", "again", "done"}
  /\ time \in [Registers -> Int]
  /\ pc # "off" => DAY * days + tod < DAY * LastDay + ticks
  /\ IsReading => Fresh
  /\ StartupTimeIsNow

\* Two decimal digits come back as they were.
LEMMA Digits == \A n \in 0 .. 99 : ToBCD(n) \in Nat /\ BCD_TO_BIN(ToBCD(n)) = n
BY SMTT(30) DEF ToBCD, BCD_TO_BIN

LEMMA RegistersAre == Registers = {"tm_sec", "tm_min", "tm_hour", "tm_mday", "tm_mon", "tm_year"}
BY DEF Registers, After

LEMMA LessThanAMinute == MaxTicks \in Nat /\ MaxTicks < 60
BY CalendarAssumption DEF MINUTE

LEMMA ClockInit == Init => Clock
<1> SUFFICES ASSUME Init PROVE Clock
  OBVIOUS
<1>1. time = NoTime /\ pc = "off" /\ tod = 0 /\ ticks = 0
  BY DEF Init
<1>2. NoTime \in [Registers -> Int]
  BY RegistersAre DEF NoTime
<1>3. 0 < DAY /\ 0 <= MaxTicks
  BY Units, LessThanAMinute
<1> QED
  BY <1>1, <1>2, <1>3 DEF Clock, IsReading, StartupTimeIsNow

\* The time of day in hours, minutes and seconds.
LEMMA TimeOfDay ==
  ASSUME NEW t \in Nat, t < DAY
  PROVE  /\ t \div HOUR \in 0 .. 23 /\ (t \div 60) % 60 \in 0 .. 59 /\ t % 60 \in 0 .. 59
         /\ HOUR * (t \div HOUR) + MINUTE * ((t \div 60) % 60) + (t % 60) = t
BY Units, SMTT(30)

\* One second later, and so many.
LEMMA NextSecond ==
  ASSUME NEW t \in Nat, t < DAY
  PROVE  /\ t = DAY - 1 => (t + 1) % DAY = 0
         /\ t # DAY - 1 => (t + 1) % DAY = t + 1
         /\ ((t + 1) % DAY) % 60 = ((t % 60) + 1) % 60
<1>1. DAY = 86400
  BY Units
<1>2. CASE t = 86399
  BY <1>1, <1>2
<1>3. CASE t # 86399
  <2>1. (t + 1) % 86400 = t + 1
    BY <1>1, <1>3
  <2>2. (t + 1) % 60 = ((t % 60) + 1) % 60
    OBVIOUS
  <2> QED
    BY <1>1, <1>3, <2>1, <2>2
<1> QED
  BY <1>2, <1>3
LEMMA LaterSecond ==
  ASSUME NEW s \in 0 .. 59, NEW k \in Nat
  PROVE  /\ k < 60 /\ s = (s + k) % 60 => k = 0
         /\ (((s + k) % 60) + 1) % 60 = (s + (k + 1)) % 60
OBVIOUS

\* A second passes, on this day or into the next.
LEMMA Passes ==
  ASSUME IsDate, Clock, Tick
  PROVE  /\ tod' \in Nat /\ tod' < DAY /\ DAY * days' + tod' = DAY * days + tod + 1
         /\ tod' % 60 = ((tod % 60) + 1) % 60
<1>1. tod \in Nat /\ tod < DAY /\ days \in Nat /\ DAY = 86400
  BY Units DEF Clock, IsDate
<1>2. tod' = (tod + 1) % DAY /\ (IF tod' = 0 THEN days' = days + 1 ELSE days' = days)
  BY DEF Tick, Midnight, today
<1>3. CASE tod = DAY - 1
  <2>1. tod' = 0 /\ days' = days + 1 /\ tod' % 60 = ((tod % 60) + 1) % 60
    BY <1>1, <1>2, <1>3, NextSecond
  <2>2. DAY * (days + 1) + 0 = DAY * days + (DAY - 1) + 1
    BY <1>1
  <2> QED
    BY <1>1, <1>3, <2>1, <2>2
<1>4. CASE tod # DAY - 1
  <2>1. tod' = tod + 1 /\ tod' % 60 = ((tod % 60) + 1) % 60
    BY <1>1, <1>2, <1>4, NextSecond
  <2>2. tod' # 0 /\ tod + 1 < DAY /\ DAY * days + (tod + 1) = DAY * days + tod + 1
    BY <1>1, <1>4, <2>1
  <2> QED
    BY <1>1, <1>2, <2>1, <2>2
<1> QED
  BY <1>3, <1>4

\* When the seconds are as they were, the date that was read is now.
LEMMA ReadsNow ==
  ASSUME IsDate, Clock, pc = "again", time["tm_sec"] = CMOS["tm_sec"]
  PROVE  kernel_mktime(Converted) = DAY * days + tod
<1>1. /\ tod \in Nat /\ tod < DAY /\ ticks \in Nat /\ ticks < 60 /\ days \in Nat
      /\ DAY * days + tod < DAY * LastDay + ticks
  BY LessThanAMinute DEF Clock, IsDate
<1>2. /\ tod \div HOUR \in 0 .. 23 /\ (tod \div 60) % 60 \in 0 .. 59 /\ tod % 60 \in 0 .. 59
      /\ HOUR * (tod \div HOUR) + MINUTE * ((tod \div 60) % 60) + (tod % 60) = tod
  BY <1>1, TimeOfDay
<1>3. \A r \in Registers : time[r] = CMOS[r]
  <2>1. PICK k \in 0 .. ticks, s \in 0 .. 59 :
          /\ time["tm_sec"] = ToBCD(s)
          /\ tod % 60 = (s + k) % 60
          /\ k = 0 => \A r \in HasRead : time[r] = CMOS[r]
    BY DEF Clock, IsReading, Fresh
  <2>2. ToBCD(s) = ToBCD(tod % 60)
    BY <2>1 DEF CMOS
  <2>3. s = tod % 60
    BY <1>2, <2>2, Digits
  <2>4. k = 0
    <3>1. k \in Nat /\ k < 60 /\ s = (s + k) % 60
      BY <1>1, <2>1, <2>3
    <3> QED
      BY <3>1, LaterSecond
  <2>5. HasRead = Registers
    BY RegistersAre DEF HasRead, Turn
  <2> QED
    BY <2>1, <2>4, <2>5
<1>4. days <= LastDay
  <2>1. \A d, t, k \in Nat : DAY * d + t < DAY * LastDay + k /\ k < 60 => d <= LastDay
    BY Units DEF LastDay
  <2> QED
    BY <1>1, <2>1
<1>5. year \in Years /\ year < 2070 /\ mon \in Mons /\ mday \in Mdays
      /\ days = Counted(year, mon, mday)
  <2>1. year < 2100 /\ year \in Years /\ mon \in Mons /\ mday \in Mdays
    BY <1>4, Lengths DEF IsDate, LastDay, Years, Mons, Mdays
  <2>2. days = Counted(year, mon, mday) /\ month[mon] \in Nat
    BY <2>1, Months DEF IsDate, Mons
  <2>3. year < 2070
    BY <1>4, <2>1, <2>2 DEF Counted, LastDay, Years, Mons, Mdays
  <2> QED
    BY <2>1, <2>2, <2>3
<1>6. /\ Converted.tm_sec = tod % 60 /\ Converted.tm_min = (tod \div 60) % 60
      /\ Converted.tm_hour = tod \div HOUR /\ Converted.tm_mday = mday
      /\ Converted.tm_mon = mon /\ Converted.tm_year = year % 100
  <2>1. \A r \in Registers : Converted[r] = BCD_TO_BIN(CMOS[r]) - IF r = "tm_mon" THEN 1 ELSE 0
    BY <1>3 DEF Converted
  <2>2. /\ CMOS["tm_sec"] = ToBCD(tod % 60) /\ CMOS["tm_min"] = ToBCD((tod \div 60) % 60)
        /\ CMOS["tm_hour"] = ToBCD(tod \div HOUR) /\ CMOS["tm_mday"] = ToBCD(mday)
        /\ CMOS["tm_mon"] = ToBCD(mon + 1) /\ CMOS["tm_year"] = ToBCD(year % 100)
    BY DEF CMOS
  <2>3. /\ tod \div HOUR \in 0 .. 99 /\ (tod \div 60) % 60 \in 0 .. 99 /\ tod % 60 \in 0 .. 99
        /\ mday \in 0 .. 99 /\ mon + 1 \in 0 .. 99 /\ mon \in 0 .. 11 /\ year % 100 \in 0 .. 99
    BY <1>2, <1>5 DEF Years, Mons, Mdays
  <2>4. /\ BCD_TO_BIN(CMOS["tm_sec"]) = tod % 60
        /\ BCD_TO_BIN(CMOS["tm_min"]) = (tod \div 60) % 60
        /\ BCD_TO_BIN(CMOS["tm_hour"]) = tod \div HOUR
        /\ BCD_TO_BIN(CMOS["tm_mday"]) = mday
        /\ BCD_TO_BIN(CMOS["tm_mon"]) = mon + 1
        /\ BCD_TO_BIN(CMOS["tm_year"]) = year % 100
    BY <2>2, <2>3, Digits
  <2> QED
    BY <2>1, <2>3, <2>4, RegistersAre
<1>7. year % 100 \in Written(year)
  BY <1>5 DEF Written, Years
<1>8. kernel_mktime(Converted)
        = DAY * Counted(year, mon, mday) + HOUR * (tod \div HOUR) + MINUTE * ((tod \div 60) % 60)
            + (tod % 60)
  <2>1. tod \div HOUR \in Nat /\ (tod \div 60) % 60 \in Nat /\ tod % 60 \in Nat
    BY <1>2
  <2> QED
    BY <1>5, <1>6, <1>7, <2>1, Mktime
<1>9. /\ DAY * days \in Int /\ HOUR * (tod \div HOUR) \in Int
      /\ MINUTE * ((tod \div 60) % 60) \in Int /\ tod % 60 \in Int
  BY <1>1, <1>2, Units
<1>10. \A a, b, c, d \in Int : a + b + c + d = a + (b + c + d)
  OBVIOUS
<1>11. DAY * days + HOUR * (tod \div HOUR) + MINUTE * ((tod \div 60) % 60) + (tod % 60)
         = DAY * days + (HOUR * (tod \div HOUR) + MINUTE * ((tod \div 60) % 60) + (tod % 60))
  BY <1>9, <1>10
<1>12. kernel_mktime(Converted)
         = DAY * days + HOUR * (tod \div HOUR) + MINUTE * ((tod \div 60) % 60) + (tod % 60)
  BY <1>5, <1>8
<1> QED
  BY <1>2, <1>11, <1>12

LEMMA ClockNext ==
  ASSUME IsDate, Clock, [Next]_vars
  PROVE  Clock'
<1>0. Registers = {"tm_sec", "tm_min", "tm_hour", "tm_mday", "tm_mon", "tm_year"}
  BY RegistersAre
<1>1. CASE NextDay
  BY <1>1 DEF NextDay, Clock, IsReading, StartupTimeIsNow
<1>2. CASE Boot
  <2>1. /\ pc' = "tm_sec" /\ days' = days /\ days \in 0 .. LastDay - 1 /\ tod' \in 0 .. DAY - 1
        /\ ticks' = ticks /\ time' = time /\ ticks \in Nat
    BY <1>2, CalendarAssumption DEF Boot, Clock, today
  <2>2. tod' \in Nat /\ tod' < DAY /\ days' \in Nat /\ days' + 1 <= LastDay
    <3>1. \A n \in 0 .. DAY - 1 : n \in Nat /\ n < DAY
      BY Units
    <3>2. \A n \in 0 .. LastDay - 1 : n \in Nat /\ n + 1 <= LastDay
      BY DEF LastDay
    <3> QED
      BY <2>1, <3>1, <3>2
  <2>3. DAY * days' + tod' < DAY * LastDay + ticks'
    <3>1. \A d, t, k \in Nat : t < DAY /\ d + 1 <= LastDay => DAY * d + t < DAY * LastDay + k
      BY Units DEF LastDay
    <3> QED
      BY <2>1, <2>2, <3>1
  <2> QED
    BY <1>0, <2>1, <2>2, <2>3 DEF Clock, IsReading, StartupTimeIsNow
<1>3. ASSUME NEW r \in Registers, Read(r)
      PROVE  Clock'
  <2>1. /\ pc = r /\ pc' = After[r] /\ time' = [time EXCEPT ![r] = CMOS[r]]
        /\ UNCHANGED <<days, tod, ticks, startup_time>> /\ CMOS' = CMOS
    BY <1>3 DEF Read, today, CMOS
  <2>2. pc' \in Registers \cup {"again"} /\ pc' # "tm_sec" /\ IsReading'
    BY <1>0, <2>1 DEF After, IsReading
  <2>3. CMOS[r] \in Int
    <3>1. \A n \in Nat : ToBCD(n) \in Int
      BY DEF ToBCD
    <3>2. /\ tod % 60 \in Nat /\ (tod \div 60) % 60 \in Nat /\ tod \div HOUR \in Nat
      BY TimeOfDay DEF Clock
    <3>3. mday \in Nat /\ mon + 1 \in Nat /\ year % 100 \in Nat
      BY Lengths DEF IsDate
    <3> QED
      BY <1>0, <3>1, <3>2, <3>3 DEF CMOS
  <2>4. time' \in [Registers -> Int] /\ time'[r] = CMOS[r]
        /\ \A q \in Registers : q # r => time'[q] = time[q]
    BY <2>1, <2>3 DEF Clock
  <2>5. HasRead' \subseteq HasRead \cup {r}
    BY <1>0, <2>1 DEF HasRead, After, Turn
  <2>6. Fresh'
    <3>1. CASE r = "tm_sec"
      <4>1. tod % 60 \in 0 .. 59 /\ (tod % 60) % 60 = tod % 60
        <5>1. tod % 60 \in 0 .. 59
          BY TimeOfDay DEF Clock
        <5>2. \A n \in 0 .. 59 : n % 60 = n
          OBVIOUS
        <5> QED
          BY <5>1, <5>2
      <4>2. time'["tm_sec"] = ToBCD(tod % 60)
        BY <2>4, <3>1 DEF CMOS
      <4>3. HasRead' = {"tm_sec"}
        BY <1>0, <2>1, <3>1 DEF HasRead, After, Turn
      <4>4. \A q \in HasRead' : time'[q] = CMOS'[q]
        BY <2>1, <2>4, <3>1, <4>3
      <4>5. 0 \in 0 .. ticks' /\ tod' % 60 = ((tod % 60) + 0) % 60
        BY <2>1, <4>1 DEF Clock
      <4> QED
        BY <4>1, <4>2, <4>4, <4>5 DEF Fresh
    <3>2. CASE r # "tm_sec"
      <4>1. IsReading
        BY <1>0, <2>1, <3>2 DEF IsReading
      <4>2. PICK k \in 0 .. ticks, s \in 0 .. 59 :
              /\ time["tm_sec"] = ToBCD(s)
              /\ tod % 60 = (s + k) % 60
              /\ k = 0 => \A q \in HasRead : time[q] = CMOS[q]
        BY <4>1 DEF Clock, Fresh
      <4>3. time'["tm_sec"] = ToBCD(s)
        BY <1>0, <2>4, <3>2, <4>2
      <4>4. k = 0 => \A q \in HasRead' : time'[q] = CMOS'[q]
        BY <2>1, <2>4, <2>5, <4>2 DEF HasRead
      <4> QED
        BY <2>1, <4>2, <4>3, <4>4 DEF Fresh
    <3> QED
      BY <3>1, <3>2
  <2> QED
    BY <1>0, <2>1, <2>2, <2>4, <2>6 DEF Clock, StartupTimeIsNow
<1>4. CASE ReadAgain
  <2>1. UNCHANGED <<days, tod, time, ticks>> /\ pc = "again"
    BY <1>4 DEF ReadAgain, today
  <2>2. CASE time["tm_sec"] = CMOS["tm_sec"]
    <3>1. pc' = "done" /\ startup_time' = kernel_mktime(Converted)
      BY <1>4, <2>2 DEF ReadAgain
    <3>2. startup_time' = DAY * days' + tod'
      BY <2>1, <2>2, <3>1, ReadsNow
    <3> QED
      BY <2>1, <3>1, <3>2 DEF Clock, IsReading, StartupTimeIsNow
  <2>3. CASE time["tm_sec"] # CMOS["tm_sec"]
    <3>1. pc' = "tm_sec"
      BY <1>4, <2>3 DEF ReadAgain
    <3> QED
      BY <1>0, <2>1, <3>1 DEF Clock, IsReading, StartupTimeIsNow
  <2> QED
    BY <2>2, <2>3
<1>5. CASE Tick
  <2>1. /\ pc' = pc /\ time' = time /\ pc # "done" /\ pc # "off"
        /\ ticks' = ticks + 1 /\ ticks' \in Nat /\ ticks' <= MaxTicks /\ ticks \in Nat
    BY <1>5, LessThanAMinute DEF Tick, Clock
  <2>2. /\ tod' \in Nat /\ tod' < DAY /\ DAY * days' + tod' = DAY * days + tod + 1
        /\ tod' % 60 = ((tod % 60) + 1) % 60
    BY <1>5, Passes
  <2>3. DAY * days' + tod' < DAY * LastDay + ticks'
    <3>1. tod \in Nat /\ days \in Nat /\ DAY * days + tod < DAY * LastDay + ticks
      BY <2>1 DEF Clock, IsDate
    <3>2. DAY * days \in Nat /\ DAY * LastDay \in Nat
      BY <3>1, Units DEF LastDay
    <3> QED
      BY <2>1, <2>2, <3>1, <3>2
  <2>4. IsReading' => Fresh'
    <3> SUFFICES ASSUME IsReading PROVE Fresh'
      BY <2>1 DEF IsReading
    <3>1. PICK k \in 0 .. ticks, s \in 0 .. 59 :
            time["tm_sec"] = ToBCD(s) /\ tod % 60 = (s + k) % 60
      BY DEF Clock, Fresh
    <3>2. tod' % 60 = (s + (k + 1)) % 60
      <4>1. k \in Nat /\ tod' % 60 = (((s + k) % 60) + 1) % 60
        <5>1. k \in Nat
          BY <2>1
        <5>2. (tod % 60) + 1 = ((s + k) % 60) + 1
          BY <3>1, Zenon
        <5>3. ((tod % 60) + 1) % 60 = (((s + k) % 60) + 1) % 60
          BY <5>2, Zenon
        <5> QED
          BY <2>2, <5>1, <5>3, Zenon
      <4> QED
        BY <4>1, LaterSecond
    <3>3. k + 1 \in 0 .. ticks' /\ k + 1 # 0
      BY <2>1, <3>1
    <3> QED
      BY <2>1, <3>1, <3>2, <3>3 DEF Fresh
  <2> QED
    BY <2>1, <2>2, <2>3, <2>4 DEF Clock, StartupTimeIsNow
<1>6. CASE UNCHANGED vars
  BY <1>6 DEF vars, today, Clock, IsReading, Fresh, HasRead, CMOS, StartupTimeIsNow
<1> QED
  BY <1>1, <1>2, <1>3, <1>4, <1>5, <1>6 DEF Next

\* time_init ends with the time at which it ends, although seconds, and with them
\* minutes, hours, days and years, end while it reads: less than a minute passes, so the
\* seconds are the same again only if no second has passed since they were read.
THEOREM TimeIsReadAtOnce == Spec => []StartupTimeIsNow
<1>1. Clock => StartupTimeIsNow
  BY DEF Clock
<1>2. IsDate /\ Clock /\ [Next]_vars => Clock'
  BY ClockNext
<1> QED
  BY <1>1, <1>2, ClockInit, DateInit, DateNext, PTL DEF Spec

=============================================================================
