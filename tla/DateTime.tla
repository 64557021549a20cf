------------------------------ MODULE DateTime ------------------------------
(***************************************************************************)
(* The calendar of the board (datetime.c): the RTC counts seconds from the *)
(* start of 2000; datetime_mktime makes the count of a date,               *)
(* datetime_convert the date of a count, and a date goes over the network  *)
(* zipped into 32 bits.  A date is <<year, mon, day, hour, min, sec>>; the *)
(* day of the week, which nothing reads, is left out.  TLC's integers have *)
(* 32 bits and a sign, which dates before 2068 fit.                        *)
(***************************************************************************)
EXTENDS Integers, Sequences, FiniteSetsExt

START_YEAR      == 2000
SecsPerDay      == 86400
SecsPerFourYear == 126230400

(* Seconds of a four-year period, a common year and a leap year up to the   *)
(* end of its first, second, ... part.                                      *)
Year_Secs_Accu    == <<31622400, 63158400, 94694400, 126230400>>
Month_Secs_Accu_C == <<2678400, 5097600, 7776000, 10368000, 13046400, 15638400,
                       18316800, 20995200, 23587200, 26265600, 28857600, 31536000>>
Month_Secs_Accu_L == <<2678400, 5184000, 7862400, 10454400, 13132800, 15724800,
                       18403200, 21081600, 23673600, 26352000, 28944000, 31622400>>

(* The loops of datetime_convert take the first part that does not end      *)
(* before the second at hand.                                               *)
Part(accu, secs) == CHOOSE k \in DOMAIN accu :
                       /\ secs <= accu[k]
                       /\ \A j \in 1 .. k - 1 : accu[j] < secs

Before(accu, k) == IF k = 1 THEN 0 ELSE accu[k - 1]

(* For mutation: every year has the months of a common year.                *)
datetime_convert_Common(TimeVar) ==
  LET off  == TimeVar % SecsPerFourYear
      y    == Part(Year_Secs_Accu, off)
      inYear  == off - Before(Year_Secs_Accu, y)
      mon     == Part(Month_Secs_Accu_C, inYear)
      inMonth == inYear - Before(Month_Secs_Accu_C, mon)
      inDay   == inMonth % SecsPerDay
  IN  <<START_YEAR + 4 * (TimeVar \div SecsPerFourYear) + y - 1, mon,
        inMonth \div SecsPerDay + 1, inDay \div 3600, (inDay % 3600) \div 60, inDay % 60>>

(* In the first second of a leap year the month is 0 and the rest of the    *)
(* date comes from in front of the table: month 0 is all that is said of    *)
(* it.  In the first second of another month it is the day after the last   *)
(* of the month before, because the loops compare with > instead of >=.     *)
datetime_convert(TimeVar) ==
  LET off  == TimeVar % SecsPerFourYear
      y    == Part(Year_Secs_Accu, off)
      year == START_YEAR + 4 * (TimeVar \div SecsPerFourYear) + y - 1
      inYear == off - Before(Year_Secs_Accu, y)
      accu == IF year % 4 = 0 THEN Month_Secs_Accu_L ELSE Month_Secs_Accu_C
      mon  == Part(accu, inYear)
      inMonth == inYear - Before(accu, mon)
      inDay   == inMonth % SecsPerDay
  IN  IF inYear = 0 THEN <<year, 0, 0, 0, 0, 0>>
      ELSE <<year, mon, inMonth \div SecsPerDay + 1,
             inDay \div 3600, (inDay % 3600) \div 60, inDay % 60>>

(* mon is a u8: January minus 2 is 255, which is not below 1.               *)
datetime_mktime(dt) ==
  LET less2 == (dt[2] + 254) % 256
      mon   == IF less2 = 0 THEN 12 ELSE less2
      year  == IF less2 = 0 THEN dt[1] - 1 ELSE dt[1]
      days  == year \div 4 - year \div 100 + year \div 400 + (367 * mon) \div 12
                 + dt[3] + year * 365 - 730456
  IN  ((days * 24 + dt[4]) * 60 + dt[5]) * 60 + dt[6]

valid_datetime(dt) ==
  /\ dt[1] \in 2012 .. 2022 /\ dt[2] \in 1 .. 12 /\ dt[3] <= 31
  /\ dt[4] <= 24 /\ dt[5] <= 60 /\ dt[6] <= 59

datetime_zip(dt) ==
  <<(dt[1] - 2000) % 64, dt[2] % 16, dt[3] % 32, dt[4] % 32, dt[5] % 64, dt[6] % 64>>

datetime_unzip(zip) == [zip EXCEPT ![1] = zip[1] + 2000]

(* check_rtc_exist, at every start: a date that is not valid is set to this *)
DefaultDate == <<2012, 5, 10, 10, 12, 12>>

check_rtc_exist(rtc) ==
  IF valid_datetime(datetime_convert(rtc)) THEN rtc ELSE datetime_mktime(DefaultDate)

-----------------------------------------------------------------------------
(* What a date means, by the rules of the calendar.                         *)
Leap(year) == year % 4 = 0 /\ (year % 100 # 0 \/ year % 400 = 0)

DaysOfMonth(year, mon) ==
  CASE mon = 2 -> (IF Leap(year) THEN 29 ELSE 28)
    [] mon \in {4, 6, 9, 11} -> 30
    [] OTHER -> 31

DaysBefore(year, mon) ==
  365 * (year - START_YEAR) + Cardinality({y \in START_YEAR .. year - 1 : Leap(y)})
    + MapThenSumSet(LAMBDA m : DaysOfMonth(year, m), 1 .. mon - 1)

Seconds(dt) ==
  (DaysBefore(dt[1], dt[2]) + dt[3] - 1) * SecsPerDay + dt[4] * 3600 + dt[5] * 60 + dt[6]

IsDate(dt) ==
  /\ dt[2] \in 1 .. 12 /\ dt[3] \in 1 .. DaysOfMonth(dt[1], dt[2])
  /\ dt[4] \in 0 .. 23 /\ dt[5] \in 0 .. 59 /\ dt[6] \in 0 .. 59

(* The first second of a month, of one of the two years it can be in.       *)
StartsMonth(secs) ==
  LET y == START_YEAR + secs \div Month_Secs_Accu_L[12] IN
  /\ secs % SecsPerDay = 0
  /\ \E year \in {y, y + 1}, m \in 1 .. 12 : secs = DaysBefore(year, m) * SecsPerDay
=============================================================================
