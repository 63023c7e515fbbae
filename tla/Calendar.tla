------------------------------- MODULE Calendar -------------------------------
(***************************************************************************)
(* src/core/calendar.ts: Indian civil time, banking days and the windows   *)
(* that the rules of the policy gate defer to.                             *)
(*                                                                         *)
(* An instant is a number of half hours since 1 January 1970, UTC: every   *)
(* hour that a rule names and the offset of Indian time are whole half     *)
(* hours, so the milliseconds within one make no difference.  \div is the  *)
(* code's floorDiv.                                                        *)
(***************************************************************************)
EXTENDS Integers

HOUR == 2
DAY == 48
IST_OFFSET == 11

CONSTANT Holidays   \* of the calendar file: civil dates [year, month, day]

\* Days since 1970 to a civil date.  An era is 400 years of 146097 days, and
\* a year begins in March.
yearOfEra(dayOfEra) ==
  (dayOfEra - dayOfEra \div 1460 + dayOfEra \div 36524 - dayOfEra \div 146096) \div 365

dayOfYear(dayOfEra, year) == dayOfEra - (365 * year + year \div 4 - year \div 100)

civilOf(year, day) ==
  LET monthPrime == (5 * day + 2) \div 153
      month == monthPrime + (IF monthPrime < 10 THEN 3 ELSE -9)
  IN  [year  |-> year + (IF month <= 2 THEN 1 ELSE 0),
       month |-> month,
       day   |-> day - (153 * monthPrime + 2) \div 5 + 1]

civilFromDays(days) ==
  LET era == (days + 719468) \div 146097
      dayOfEra == (days + 719468) % 146097
  IN  civilOf(yearOfEra(dayOfEra) + era * 400, dayOfYear(dayOfEra, yearOfEra(dayOfEra)))

\* And back.  A day or a month past the end of its month or year is a day of
\* the next one.
daysFromCivil(year, month, day) ==
  LET y == year - (IF month <= 2 THEN 1 ELSE 0)
      era == y \div 400
      yearIn == y - era * 400
      monthPrime == IF month > 2 THEN month - 3 ELSE month + 9
      dayIn == (153 * monthPrime + 2) \div 5 + day - 1
  IN  era * 146097 + yearIn * 365 + yearIn \div 4 - yearIn \div 100 + dayIn - 719468

istDay(at) == (at + IST_OFFSET) \div DAY
intoDay(at) == (at + IST_OFFSET) % DAY

istHour(at) == intoDay(at) \div HOUR
istWeekday(at) == (istDay(at) + 4) % 7     \* 0 is Sunday

\* The civil date of an instant.  The other parts of the code's IstParts are
\* istHour, istWeekday and minute, the half hour within the hour.
toIst(at) == civilFromDays(istDay(at))
minute(at) == intoDay(at) % HOUR

fromIst(year, month, day, hour, half) ==
  daysFromCivil(year, month, day) * DAY + hour * HOUR + half - IST_OFFSET

\* That time on a civil date, or that many days later.
On(date, days, hour, half) == fromIst(date.year, date.month, date.day + days, hour, half)

atIst(at, hour) == On(toIst(at), 0, hour, 0)

startOfIstDay(at) == atIst(at, 0)

addIstDays(at, days) == On(toIst(at), days, istHour(at), minute(at))

daysInMonth(year, month) ==
  IF month = 2
  THEN IF (year % 4 = 0 /\ year % 100 # 0) \/ year % 400 = 0 THEN 29 ELSE 28
  ELSE IF month \in {4, 6, 9, 11} THEN 30 ELSE 31

-----------------------------------------------------------------------------
(* Banking days *)

isSunday(at) == istWeekday(at) = 0

\* The occurrence is ceil(day / 7).
isSecondOrFourthSaturday(at) ==
  istWeekday(at) = 6 /\ (toIst(at).day + 6) \div 7 \in {2, 4}

isHoliday(at) == toIst(at) \in Holidays

isBankingDay(at) == ~isSunday(at) /\ ~isSecondOrFourthSaturday(at) /\ ~isHoliday(at)

Midnight(at, n) == startOfIstDay(addIstDays(at, n))

\* The loop looks at 30 midnights, one after the other, and throws after them.
NoBankingDay(at) == \A n \in 1..30 : ~isBankingDay(Midnight(at, n))

nextBankingDay(at) ==
  Midnight(at, CHOOSE n \in 1..30 : /\ isBankingDay(Midnight(at, n))
                                    /\ \A m \in 1..(n - 1) : ~isBankingDay(Midnight(at, m)))

-----------------------------------------------------------------------------
(* Windows *)

isSalaryWindow(at) == toIst(at).day \in 1..5

isMonthEnd(at) ==
  LET d == toIst(at) IN d.day > daysInMonth(d.year, d.month) - 5

\* In December, month 13.
nextSalaryWindow(at) ==
  LET d == toIst(at)
  IN  IF isSalaryWindow(at) THEN at ELSE fromIst(d.year, d.month + 1, 1, 10, 0)

isWithinIstWindow(at, startHour, endHour) ==
  startHour <= istHour(at) /\ istHour(at) < endHour

\* A slip: the evening of a day is sent back to its morning.
nextIstWindowStartSameDay(at, startHour, endHour) ==
  IF isWithinIstWindow(at, startHour, endHour) THEN at ELSE atIst(at, startHour)

nextIstWindowStart(at, startHour, endHour) ==
  IF isWithinIstWindow(at, startHour, endHour) THEN at
  ELSE IF istHour(at) < startHour THEN atIst(at, startHour)
  ELSE atIst(addIstDays(at, 1), startHour)

=============================================================================
