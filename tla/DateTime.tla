------------------------------ MODULE DateTime ------------------------------
(***************************************************************************)
(* Dates, times, timestamps and intervals: src/common/types and the        *)
(* functions of src/function/date, timestamp and interval.                 *)
(*                                                                         *)
(* A date is a number of days since 1970-01-01 (date_t.days), a time and a *)
(* timestamp numbers of microseconds, an interval a record of months, days *)
(* and microseconds.  The calendar is the one of the code; the units below *)
(* a day are constants, so that the microseconds of a day fit TLC's        *)
(* integers.  A text is what its fields say: [year, month, day, bc] for a  *)
(* date, numbers with units for an interval.  A function that throws gives *)
(* NULL.  Divisions truncate, as in C++.                                   *)
(*                                                                         *)
(* The state is a date with its number: a calendar turned over a day or a  *)
(* year at a time, which the functions must agree with.                    *)
(***************************************************************************)
EXTENDS Values, Integers, Sequences, SequencesExt, FiniteSets

CONSTANTS
    MICROS_PER_MSEC, MSECS_PER_SEC, SECS_PER_MINUTE, MINS_PER_HOUR, HOURS_PER_DAY,
    CalendarYears,      \* the years whose first day is visited
    DailyYears,         \* the years of which every day is
    Clocks,             \* times of a day, as fields
    SomeIntervals

ASSUME UnitsAssumption ==
    {MICROS_PER_MSEC, MSECS_PER_SEC, SECS_PER_MINUTE, MINS_PER_HOUR, HOURS_PER_DAY} \subseteq Nat \ {0}

VARIABLES calendarDay, calendarDate

calendarVars == <<calendarDay, calendarDate>>

MICROS_PER_SEC == MICROS_PER_MSEC * MSECS_PER_SEC
MICROS_PER_MINUTE == MICROS_PER_SEC * SECS_PER_MINUTE
MICROS_PER_HOUR == MICROS_PER_MINUTE * MINS_PER_HOUR
MICROS_PER_DAY == MICROS_PER_HOUR * HOURS_PER_DAY
DAYS_PER_MONTH == 30
MICROS_PER_MONTH == MICROS_PER_DAY * DAYS_PER_MONTH
MONTHS_PER_YEAR == 12
MONTHS_PER_QUARTER == 3
MIN_YEAR == -290307
MAX_YEAR == 294247
EPOCH_YEAR == 1970
YEAR_INTERVAL == 400
DAYS_PER_YEAR_INTERVAL == 146097

Quotient(a, b) == IF a >= 0 THEN a \div b ELSE -((-a) \div b)

Remainder(a, b) == a - b * Quotient(a, b)

-----------------------------------------------------------------------------
(* Date.  The tables are the literals of date_t.cpp.                       *)

IsLeapYear(year) == year % 4 = 0 /\ (year % 100 # 0 \/ year % 400 = 0)

\* An array literal of the code, which counts from 0.
CArray(values) == [i \in 0 .. Len(values) - 1 |-> values[i + 1]]

NORMAL_DAYS == CArray(<<0, 31, 28, 31, 30, 31, 30, 31, 31, 30, 31, 30, 31>>)

LEAP_DAYS == CArray(<<0, 31, 29, 31, 30, 31, 30, 31, 31, 30, 31, 30, 31>>)

CUMULATIVE_DAYS == CArray(<<0, 31, 59, 90, 120, 151, 181, 212, 243, 273, 304, 334, 365>>)

CUMULATIVE_LEAP_DAYS == CArray(<<0, 31, 60, 91, 121, 152, 182, 213, 244, 274, 305, 335, 366>>)

MONTH_PER_DAY_OF_YEAR == CArray(<<
    1, 1, 1, 1, 1, 1, 1, 1, 1, 1, 1, 1, 1, 1, 1, 1, 1, 1, 1, 1, 1, 1, 1, 1, 1, 1, 1, 1, 1, 1, 1, 2, 2, 2, 2, 2, 2, 2, 2, 2, 2, 2, 2, 2, 2, 2, 2, 2, 2,
    2, 2, 2, 2, 2, 2, 2, 2, 2, 2, 3, 3, 3, 3, 3, 3, 3, 3, 3, 3, 3, 3, 3, 3, 3, 3, 3, 3, 3, 3, 3, 3, 3, 3, 3, 3, 3, 3, 3, 3, 3, 4, 4, 4, 4, 4, 4, 4, 4,
    4, 4, 4, 4, 4, 4, 4, 4, 4, 4, 4, 4, 4, 4, 4, 4, 4, 4, 4, 4, 4, 4, 5, 5, 5, 5, 5, 5, 5, 5, 5, 5, 5, 5, 5, 5, 5, 5, 5, 5, 5, 5, 5, 5, 5, 5, 5, 5, 5,
    5, 5, 5, 5, 6, 6, 6, 6, 6, 6, 6, 6, 6, 6, 6, 6, 6, 6, 6, 6, 6, 6, 6, 6, 6, 6, 6, 6, 6, 6, 6, 6, 6, 6, 7, 7, 7, 7, 7, 7, 7, 7, 7, 7, 7, 7, 7, 7, 7,
    7, 7, 7, 7, 7, 7, 7, 7, 7, 7, 7, 7, 7, 7, 7, 7, 8, 8, 8, 8, 8, 8, 8, 8, 8, 8, 8, 8, 8, 8, 8, 8, 8, 8, 8, 8, 8, 8, 8, 8, 8, 8, 8, 8, 8, 8, 8, 9, 9,
    9, 9, 9, 9, 9, 9, 9, 9, 9, 9, 9, 9, 9, 9, 9, 9, 9, 9, 9, 9, 9, 9, 9, 9, 9, 9, 9, 9, 10, 10, 10, 10, 10, 10, 10, 10, 10, 10, 10, 10, 10, 10, 10,
    10, 10, 10, 10, 10, 10, 10, 10, 10, 10, 10, 10, 10, 10, 10, 10, 11, 11, 11, 11, 11, 11, 11, 11, 11, 11, 11, 11, 11, 11, 11, 11, 11, 11, 11, 11,
    11, 11, 11, 11, 11, 11, 11, 11, 11, 11, 12, 12, 12, 12, 12, 12, 12, 12, 12, 12, 12, 12, 12, 12, 12, 12, 12, 12, 12, 12, 12, 12, 12, 12, 12, 12,
    12, 12, 12, 12, 12>>)

LEAP_MONTH_PER_DAY_OF_YEAR == CArray(<<
    1, 1, 1, 1, 1, 1, 1, 1, 1, 1, 1, 1, 1, 1, 1, 1, 1, 1, 1, 1, 1, 1, 1, 1, 1, 1, 1, 1, 1, 1, 1, 2, 2, 2, 2, 2, 2, 2, 2, 2, 2, 2, 2, 2, 2, 2, 2, 2, 2,
    2, 2, 2, 2, 2, 2, 2, 2, 2, 2, 2, 3, 3, 3, 3, 3, 3, 3, 3, 3, 3, 3, 3, 3, 3, 3, 3, 3, 3, 3, 3, 3, 3, 3, 3, 3, 3, 3, 3, 3, 3, 3, 4, 4, 4, 4, 4, 4, 4,
    4, 4, 4, 4, 4, 4, 4, 4, 4, 4, 4, 4, 4, 4, 4, 4, 4, 4, 4, 4, 4, 4, 4, 5, 5, 5, 5, 5, 5, 5, 5, 5, 5, 5, 5, 5, 5, 5, 5, 5, 5, 5, 5, 5, 5, 5, 5, 5, 5,
    5, 5, 5, 5, 5, 6, 6, 6, 6, 6, 6, 6, 6, 6, 6, 6, 6, 6, 6, 6, 6, 6, 6, 6, 6, 6, 6, 6, 6, 6, 6, 6, 6, 6, 6, 7, 7, 7, 7, 7, 7, 7, 7, 7, 7, 7, 7, 7, 7,
    7, 7, 7, 7, 7, 7, 7, 7, 7, 7, 7, 7, 7, 7, 7, 7, 7, 8, 8, 8, 8, 8, 8, 8, 8, 8, 8, 8, 8, 8, 8, 8, 8, 8, 8, 8, 8, 8, 8, 8, 8, 8, 8, 8, 8, 8, 8, 8, 9,
    9, 9, 9, 9, 9, 9, 9, 9, 9, 9, 9, 9, 9, 9, 9, 9, 9, 9, 9, 9, 9, 9, 9, 9, 9, 9, 9, 9, 9, 10, 10, 10, 10, 10, 10, 10, 10, 10, 10, 10, 10, 10, 10, 10,
    10, 10, 10, 10, 10, 10, 10, 10, 10, 10, 10, 10, 10, 10, 10, 10, 11, 11, 11, 11, 11, 11, 11, 11, 11, 11, 11, 11, 11, 11, 11, 11, 11, 11, 11, 11,
    11, 11, 11, 11, 11, 11, 11, 11, 11, 11, 12, 12, 12, 12, 12, 12, 12, 12, 12, 12, 12, 12, 12, 12, 12, 12, 12, 12, 12, 12, 12, 12, 12, 12, 12, 12,
    12, 12, 12, 12, 12>>)

CUMULATIVE_YEAR_DAYS == CArray(<<
    0, 365, 730, 1096, 1461, 1826, 2191, 2557, 2922, 3287, 3652, 4018, 4383, 4748, 5113, 5479, 5844, 6209, 6574, 6940, 7305, 7670, 8035, 8401, 8766,
    9131, 9496, 9862, 10227, 10592, 10957, 11323, 11688, 12053, 12418, 12784, 13149, 13514, 13879, 14245, 14610, 14975, 15340, 15706, 16071, 16436,
    16801, 17167, 17532, 17897, 18262, 18628, 18993, 19358, 19723, 20089, 20454, 20819, 21184, 21550, 21915, 22280, 22645, 23011, 23376, 23741, 24106,
    24472, 24837, 25202, 25567, 25933, 26298, 26663, 27028, 27394, 27759, 28124, 28489, 28855, 29220, 29585, 29950, 30316, 30681, 31046, 31411, 31777,
    32142, 32507, 32872, 33238, 33603, 33968, 34333, 34699, 35064, 35429, 35794, 36160, 36525, 36890, 37255, 37621, 37986, 38351, 38716, 39082, 39447,
    39812, 40177, 40543, 40908, 41273, 41638, 42004, 42369, 42734, 43099, 43465, 43830, 44195, 44560, 44926, 45291, 45656, 46021, 46387, 46752, 47117,
    47482, 47847, 48212, 48577, 48942, 49308, 49673, 50038, 50403, 50769, 51134, 51499, 51864, 52230, 52595, 52960, 53325, 53691, 54056, 54421, 54786,
    55152, 55517, 55882, 56247, 56613, 56978, 57343, 57708, 58074, 58439, 58804, 59169, 59535, 59900, 60265, 60630, 60996, 61361, 61726, 62091, 62457,
    62822, 63187, 63552, 63918, 64283, 64648, 65013, 65379, 65744, 66109, 66474, 66840, 67205, 67570, 67935, 68301, 68666, 69031, 69396, 69762, 70127,
    70492, 70857, 71223, 71588, 71953, 72318, 72684, 73049, 73414, 73779, 74145, 74510, 74875, 75240, 75606, 75971, 76336, 76701, 77067, 77432, 77797,
    78162, 78528, 78893, 79258, 79623, 79989, 80354, 80719, 81084, 81450, 81815, 82180, 82545, 82911, 83276, 83641, 84006, 84371, 84736, 85101, 85466,
    85832, 86197, 86562, 86927, 87293, 87658, 88023, 88388, 88754, 89119, 89484, 89849, 90215, 90580, 90945, 91310, 91676, 92041, 92406, 92771, 93137,
    93502, 93867, 94232, 94598, 94963, 95328, 95693, 96059, 96424, 96789, 97154, 97520, 97885, 98250, 98615, 98981, 99346, 99711, 100076, 100442,
    100807, 101172, 101537, 101903, 102268, 102633, 102998, 103364, 103729, 104094, 104459, 104825, 105190, 105555, 105920, 106286, 106651, 107016,
    107381, 107747, 108112, 108477, 108842, 109208, 109573, 109938, 110303, 110669, 111034, 111399, 111764, 112130, 112495, 112860, 113225, 113591,
    113956, 114321, 114686, 115052, 115417, 115782, 116147, 116513, 116878, 117243, 117608, 117974, 118339, 118704, 119069, 119435, 119800, 120165,
    120530, 120895, 121260, 121625, 121990, 122356, 122721, 123086, 123451, 123817, 124182, 124547, 124912, 125278, 125643, 126008, 126373, 126739,
    127104, 127469, 127834, 128200, 128565, 128930, 129295, 129661, 130026, 130391, 130756, 131122, 131487, 131852, 132217, 132583, 132948, 133313,
    133678, 134044, 134409, 134774, 135139, 135505, 135870, 136235, 136600, 136966, 137331, 137696, 138061, 138427, 138792, 139157, 139522, 139888,
    140253, 140618, 140983, 141349, 141714, 142079, 142444, 142810, 143175, 143540, 143905, 144271, 144636, 145001, 145366, 145732, 146097>>)

MonthDays(year, month) == IF IsLeapYear(year) THEN LEAP_DAYS[month] ELSE NORMAL_DAYS[month]

IsValidDate(d) ==
    /\ d.month \in 1 .. 12
    /\ d.year \in MIN_YEAR .. MAX_YEAR
    /\ d.day \in 1 .. MonthDays(d.year, d.month)

CivilDate(y, m, d) == [year |-> y, month |-> m, day |-> d]

(* The loops: n is what they make of the argument, which the caller keeps, *)
(* and the offset of its year in the interval is searched downwards.       *)
YearOffset(n) ==
    LET down[k \in 0 .. YEAR_INTERVAL] == IF n < CUMULATIVE_YEAR_DAYS[k] THEN down[k - 1] ELSE k
    IN  down[n \div 365]

YearAt(n, interval, offset) ==
    [n |-> n, offset |-> offset, year |-> EPOCH_YEAR + YEAR_INTERVAL * interval + offset]

ExtractYearOffset(days) ==
    YearAt(days % DAYS_PER_YEAR_INTERVAL, days \div DAYS_PER_YEAR_INTERVAL, YearOffset(days % DAYS_PER_YEAR_INTERVAL))

DateInYear(year, day, isLeapYear) ==
    IF isLeapYear
    THEN CivilDate(year, LEAP_MONTH_PER_DAY_OF_YEAR[day], day - CUMULATIVE_LEAP_DAYS[LEAP_MONTH_PER_DAY_OF_YEAR[day] - 1] + 1)
    ELSE CivilDate(year, MONTH_PER_DAY_OF_YEAR[day], day - CUMULATIVE_DAYS[MONTH_PER_DAY_OF_YEAR[day] - 1] + 1)

DateAt(at) ==
    DateInYear(at.year, at.n - CUMULATIVE_YEAR_DAYS[at.offset],
               CUMULATIVE_YEAR_DAYS[at.offset + 1] - CUMULATIVE_YEAR_DAYS[at.offset] = 366)

ConvertDate(days) == DateAt(ExtractYearOffset(days))

FromDate(year, month, day) ==
    IF ~IsValidDate(CivilDate(year, month, day)) THEN NULL
    ELSE LET k == year - EPOCH_YEAR
         IN  DAYS_PER_YEAR_INTERVAL * (k \div YEAR_INTERVAL) + CUMULATIVE_YEAR_DAYS[k % YEAR_INTERVAL]
               + (IF IsLeapYear(year) THEN CUMULATIVE_LEAP_DAYS[month - 1] ELSE CUMULATIVE_DAYS[month - 1])
               + day - 1

(* 0 is Sunday.                                                            *)
getDayName(days) ==
    (IF days < 0 THEN 7 - Remainder(-days + 3, 7) ELSE Remainder(days + 3, 7) + 1) % 7

getMonthName(days) == ConvertDate(days).month

dayBefore(days) == IF days = NULL THEN NULL ELSE days - 1

lastDayOf(d) == dayBefore(FromDate(d.year + d.month \div 12, (d.month % 12) + 1, 1))

getLastDay(days) == lastDayOf(ConvertDate(days))

partOfDate(specifier, d) ==
    LET count(years) == IF d.year > 0 THEN Quotient(d.year - 1, years) + 1 ELSE Quotient(d.year, years) - 1
    IN  CASE specifier = "MONTH" -> d.month
          [] specifier = "DAY" -> d.day
          [] specifier = "DECADE" -> Quotient(d.year, 10)
          [] specifier = "CENTURY" -> count(100)
          [] specifier = "MILLENNIUM" -> count(1000)
          [] specifier = "QUARTER" -> (d.month - 1) \div MONTHS_PER_QUARTER + 1
          [] OTHER -> 0

getDatePart(specifier, days) ==
    IF specifier = "YEAR" THEN ExtractYearOffset(days).year ELSE partOfDate(specifier, ConvertDate(days))

(* The date that getDatePart leaves in its argument, from which it takes   *)
(* the year.                                                               *)
afterDatePart(specifier, days) == IF specifier = "YEAR" THEN ExtractYearOffset(days).n ELSE days

truncDate(specifier, days) ==
    LET from(years) == FromDate(Quotient(getDatePart("YEAR", days), years) * years, 1, 1)
    IN  CASE specifier = "MONTH" -> FromDate(getDatePart("YEAR", days), getDatePart("MONTH", days), 1)
          [] specifier \in {"YEAR", "DECADE", "CENTURY", "MILLENNIUM"} ->
                from(CASE specifier = "YEAR" -> 1 [] specifier = "DECADE" -> 10
                       [] specifier = "CENTURY" -> 100 [] specifier = "MILLENNIUM" -> 1000)
          [] specifier = "QUARTER" ->
                FromDate(getDatePart("YEAR", days), 1 + ((getDatePart("MONTH", days) - 1) \div 3) * 3, 1)
          [] OTHER -> days

afterTrunc(specifier, days) ==
    IF specifier \in {"DAY", "QUARTER"} THEN days ELSE afterDatePart("YEAR", days)

negate(interval) == [months |-> -interval.months, days |-> -interval.days, micros |-> -interval.micros]

(* A day that the month does not have becomes its last.                    *)
inMonth(year, month, day) ==
    FromDate(year, month, IF day > MonthDays(year, month) THEN MonthDays(year, month) ELSE day)

carryMonths(year, month, day) ==
    CASE month > MONTHS_PER_YEAR -> inMonth(year + 1, month - MONTHS_PER_YEAR, day)
      [] month <= 0 -> inMonth(year - 1, month + MONTHS_PER_YEAR, day)
      [] OTHER -> inMonth(year, month, day)

addToDate(d, months) ==
    carryMonths(d.year + Quotient(months, MONTHS_PER_YEAR), d.month + Remainder(months, MONTHS_PER_YEAR), d.day)

addMonths(days, months) == addToDate(ConvertDate(days), months)

addDays(date, days) == IF date = NULL THEN NULL ELSE date + days

datePlus(days, interval) ==
    addDays(IF interval.months # 0 THEN addMonths(days, interval.months) ELSE days,
            interval.days + Quotient(interval.micros, MICROS_PER_DAY))

dateMinus(days, interval) == datePlus(days, negate(interval))

(* Texts of dates.                                                         *)
dateText(d) ==
    [year |-> IF d.year <= 0 THEN 1 - d.year ELSE d.year, month |-> d.month, day |-> d.day, bc |-> d.year <= 0]

DateToString(days) == dateText(ConvertDate(days))

TryConvertDate(text) ==
    IF text.year > MAX_YEAR \/ text.bc THEN NULL ELSE FromDate(text.year, text.month, text.day)

-----------------------------------------------------------------------------
(* Time.                                                                   *)

IsValidTime(c) ==
    /\ c.hour \in 0 .. HOURS_PER_DAY - 1
    /\ c.minute \in 0 .. MINS_PER_HOUR - 1
    /\ c.second \in 0 .. SECS_PER_MINUTE - 1
    /\ c.micros \in 0 .. MICROS_PER_SEC - 1

FromTime(c) ==
    IF ~IsValidTime(c) THEN NULL
    ELSE ((c.hour * MINS_PER_HOUR + c.minute) * SECS_PER_MINUTE + c.second) * MICROS_PER_SEC + c.micros

ConvertTime(time) ==
    LET hour == Quotient(time, MICROS_PER_HOUR)
        afterHour == time - hour * MICROS_PER_HOUR
        minute == Quotient(afterHour, MICROS_PER_MINUTE)
        afterMinute == afterHour - minute * MICROS_PER_MINUTE
        second == Quotient(afterMinute, MICROS_PER_SEC)
    IN  [hour |-> hour, minute |-> minute, second |-> second, micros |-> afterMinute - second * MICROS_PER_SEC]

-----------------------------------------------------------------------------
(* Timestamp.                                                              *)

GetDate_Truncates(ts) == Quotient(ts, MICROS_PER_DAY)

GetDate(ts) == IF ts < 0 THEN Quotient(ts + 1, MICROS_PER_DAY) - 1 ELSE Quotient(ts, MICROS_PER_DAY)

GetTime(ts) == ts - GetDate(ts) * MICROS_PER_DAY

FromDatetime(days, time) ==
    IF ~IsValidDate(ConvertDate(days)) \/ ~IsValidTime(ConvertTime(time)) THEN NULL
    ELSE days * MICROS_PER_DAY + time

atTime(date, time) ==
    CASE date = NULL -> NULL
      [] time >= MICROS_PER_DAY -> FromDatetime(date + 1, time - MICROS_PER_DAY)
      [] time < 0 -> FromDatetime(date - 1, time + MICROS_PER_DAY)
      [] OTHER -> FromDatetime(date, time)

timestampPlus(ts, interval) ==
    atTime(datePlus(GetDate(ts), interval), GetTime(ts) + Remainder(interval.micros, MICROS_PER_DAY))

timestampMinus(ts, interval) == timestampPlus(ts, negate(interval))

timestampDifference(ts, other) ==
    LET diff == IF ts < other THEN other - ts ELSE ts - other
        between == [months |-> 0, days |-> diff \div MICROS_PER_DAY, micros |-> diff % MICROS_PER_DAY]
    IN  IF ts < other THEN negate(between) ELSE between

getTimestampPart(specifier, ts) ==
    LET micros == Remainder(GetTime(ts), MICROS_PER_MINUTE)
    IN  CASE specifier = "MICROSECOND" -> micros
          [] specifier = "MILLISECOND" -> Quotient(micros, MICROS_PER_MSEC)
          [] specifier = "SECOND" -> Quotient(micros, MICROS_PER_SEC)
          [] specifier = "MINUTE" -> Quotient(Remainder(GetTime(ts), MICROS_PER_HOUR), MICROS_PER_MINUTE)
          [] specifier = "HOUR" -> Quotient(GetTime(ts), MICROS_PER_HOUR)
          [] OTHER -> getDatePart(specifier, GetDate(ts))

truncTime(specifier, c) ==
    CASE specifier = "MILLISECOND" -> [c EXCEPT !.micros = @ - Remainder(@, MICROS_PER_MSEC)]
      [] specifier = "SECOND" -> [c EXCEPT !.micros = 0]
      [] specifier = "MINUTE" -> [c EXCEPT !.micros = 0, !.second = 0]
      [] specifier = "HOUR" -> [c EXCEPT !.micros = 0, !.second = 0, !.minute = 0]

midnight(date) == IF date = NULL THEN NULL ELSE FromDatetime(date, 0)

truncTimestamp(specifier, ts) ==
    CASE specifier = "MICROSECOND" -> ts
      [] specifier \in {"MILLISECOND", "SECOND", "MINUTE", "HOUR"} ->
            FromDatetime(GetDate(ts), FromTime(truncTime(specifier, ConvertTime(GetTime(ts)))))
      [] OTHER -> midnight(truncDate(specifier, GetDate(ts)))

FromEpochMs(ms) == ms * MICROS_PER_MSEC

FromEpochSec(sec) == sec * MICROS_PER_SEC

TimestampToString(ts) == [date |-> DateToString(GetDate(ts)), clock |-> ConvertTime(GetTime(ts))]

(* The offset is that of the time zone, in hours and minutes.              *)
inZone(ts, hours, minutes) ==
    IF ts = NULL THEN NULL ELSE ts - (hours * MICROS_PER_HOUR + minutes * MICROS_PER_MINUTE)

fromParts(date, time) == IF date = NULL \/ time = NULL THEN NULL ELSE FromDatetime(date, time)

TimestampFromCString(text, hours, minutes) ==
    inZone(fromParts(TryConvertDate(text.date), FromTime(text.clock)), hours, minutes)

-----------------------------------------------------------------------------
(* Interval.                                                               *)

NoInterval == [months |-> 0, days |-> 0, micros |-> 0]

intervalPlus(a, b) == [months |-> a.months + b.months, days |-> a.days + b.days, micros |-> a.micros + b.micros]

(* The operands of the divisions are unsigned, so months and days are not  *)
(* negative here.                                                          *)
intervalDivide(a, k) ==
    LET days == a.days + (a.months % k) * DAYS_PER_MONTH
    IN  [months |-> a.months \div k, days |-> days \div k, micros |-> (a.micros + (days % k) * MICROS_PER_DAY) \div k]

addition(result, number, unit) ==
    CASE unit = "year" -> [result EXCEPT !.months = @ + number * MONTHS_PER_YEAR]
      [] unit = "month" -> [result EXCEPT !.months = @ + number]
      [] unit = "day" -> [result EXCEPT !.days = @ + number]
      [] unit = "hour" -> [result EXCEPT !.micros = @ + number * MICROS_PER_HOUR]
      [] unit = "minute" -> [result EXCEPT !.micros = @ + number * MICROS_PER_MINUTE]
      [] unit = "second" -> [result EXCEPT !.micros = @ + number * MICROS_PER_SEC]
      [] unit = "millisecond" -> [result EXCEPT !.micros = @ + number * MICROS_PER_MSEC]
      [] unit = "microsecond" -> [result EXCEPT !.micros = @ + number]

IntervalFromCString(fields) == FoldLeft(LAMBDA r, f : addition(r, f.number, f.unit), NoInterval, fields)

(* to_years .. to_microseconds.                                            *)
ToUnits(number, unit) == addition(NoInterval, number, unit)

getMicro(a) == a.micros + a.months * MICROS_PER_MONTH + a.days * MICROS_PER_DAY

withDaysOf(a, micros) ==
    [a EXCEPT !.days = @ + Quotient(micros, MICROS_PER_DAY), !.micros = Remainder(micros, MICROS_PER_DAY)]

NormalizeIntervalEntries(a) ==
    withDaysOf([a EXCEPT !.months = @ + Quotient(a.days, DAYS_PER_MONTH) + Quotient(a.micros, MICROS_PER_MONTH),
                         !.days = Remainder(@, DAYS_PER_MONTH)],
               Remainder(a.micros, MICROS_PER_MONTH))

comesAfter(l, r) ==
    IF l.months # r.months THEN l.months > r.months
    ELSE IF l.days # r.days THEN l.days > r.days
    ELSE l.micros > r.micros

GreaterThan(a, b) == comesAfter(NormalizeIntervalEntries(a), NormalizeIntervalEntries(b))

getIntervalPart(specifier, a) ==
    LET month == Remainder(a.months, MONTHS_PER_YEAR)
        micros == Remainder(a.micros, MICROS_PER_MINUTE)
    IN  CASE specifier = "YEAR" -> Quotient(a.months, MONTHS_PER_YEAR)
          [] specifier = "MONTH" -> month
          [] specifier = "DAY" -> a.days
          [] specifier = "DECADE" -> Quotient(a.months, 120)
          [] specifier = "CENTURY" -> Quotient(a.months, 1200)
          [] specifier = "MILLENNIUM" -> Quotient(a.months, 12000)
          [] specifier = "QUARTER" -> Quotient(month, MONTHS_PER_QUARTER) + 1
          [] specifier = "MICROSECOND" -> micros
          [] specifier = "MILLISECOND" -> Quotient(micros, MICROS_PER_MSEC)
          [] specifier = "SECOND" -> Quotient(micros, MICROS_PER_SEC)
          [] specifier = "MINUTE" -> Quotient(Remainder(a.micros, MICROS_PER_HOUR), MICROS_PER_MINUTE)
          [] specifier = "HOUR" -> Quotient(a.micros, MICROS_PER_HOUR)

IntervalToString(a) ==
    LET years == Quotient(a.months, 12)
        clock == ConvertTime(IF a.micros < 0 THEN -a.micros ELSE a.micros)
    IN  [years |-> years, months |-> a.months - years * 12, days |-> a.days,
         negative |-> a.micros < 0, clock |-> clock]

-----------------------------------------------------------------------------
(* The functions of Cypher on a value of one of the types.                 *)

dateOf(v) == IF v.type = "DATE" THEN v.val ELSE GetDate(v.val)

DayName(v) == IF v.type \in {"DATE", "TIMESTAMP"} THEN getDayName(dateOf(v)) ELSE NULL

MonthName(v) == IF v.type \in {"DATE", "TIMESTAMP"} THEN getMonthName(dateOf(v)) ELSE NULL

LastDay(v) == IF v.type \in {"DATE", "TIMESTAMP"} THEN getLastDay(dateOf(v)) ELSE NULL

DatePart(specifier, v) ==
    CASE v.type = "DATE" -> getDatePart(specifier, v.val)
      [] v.type = "TIMESTAMP" -> getTimestampPart(specifier, v.val)
      [] v.type = "INTERVAL" -> getIntervalPart(specifier, v.val)
      [] OTHER -> NULL

DateTrunc(specifier, v) ==
    CASE v.type = "DATE" -> truncDate(specifier, v.val)
      [] v.type = "TIMESTAMP" -> truncTimestamp(specifier, v.val)
      [] OTHER -> NULL

-----------------------------------------------------------------------------
(* The calendar.                                                           *)

DaysIn(year, month) ==
    CASE month \in {4, 6, 9, 11} -> 30
      [] month # 2 -> 31
      [] year % 400 = 0 -> 29
      [] year % 100 = 0 -> 28
      [] OTHER -> IF year % 4 = 0 THEN 29 ELSE 28

Tomorrow(d) ==
    IF d.day < DaysIn(d.year, d.month) THEN [d EXCEPT !.day = @ + 1]
    ELSE IF d.month < 12 THEN CivilDate(d.year, d.month + 1, 1)
    ELSE CivilDate(d.year + 1, 1, 1)

CalendarInit ==
    /\ calendarDay = 0
    /\ calendarDate = NULL

OpenCalendar ==
    /\ calendarDate = NULL
    /\ calendarDate' = CivilDate(EPOCH_YEAR, 1, 1)
    /\ UNCHANGED calendarDay

TurnDay ==
    /\ calendarDate # NULL
    /\ calendarDate.year \in DailyYears
    /\ calendarDay' = calendarDay + 1
    /\ calendarDate' = Tomorrow(calendarDate)

DaysInYear(year) == 337 + DaysIn(year, 2)

TurnYear ==
    /\ calendarDate # NULL
    /\ calendarDate.month = 1 /\ calendarDate.day = 1
    /\ calendarDate.year + 1 \in CalendarYears
    /\ calendarDay' = calendarDay + DaysInYear(calendarDate.year)
    /\ calendarDate' = [calendarDate EXCEPT !.year = @ + 1]

TurnYearBack ==
    /\ calendarDate # NULL
    /\ calendarDate.month = 1 /\ calendarDate.day = 1
    /\ calendarDate.year - 1 \in CalendarYears
    /\ calendarDay' = calendarDay - DaysInYear(calendarDate.year - 1)
    /\ calendarDate' = [calendarDate EXCEPT !.year = @ - 1]

CalendarNext == OpenCalendar \/ TurnDay \/ TurnYear \/ TurnYearBack

-----------------------------------------------------------------------------
DateParts == {"YEAR", "MONTH", "DAY", "DECADE", "CENTURY", "MILLENNIUM", "QUARTER"}
TimeParts == {"MICROSECOND", "MILLISECOND", "SECOND", "MINUTE", "HOUR"}
MicrosOf(part) ==
    CASE part = "MICROSECOND" -> 1
      [] part = "MILLISECOND" -> MICROS_PER_MSEC
      [] part = "SECOND" -> MICROS_PER_SEC
      [] part = "MINUTE" -> MICROS_PER_MINUTE
      [] part = "HOUR" -> MICROS_PER_HOUR
Units == {"year", "month", "day", "hour", "minute", "second", "millisecond", "microsecond"}

\* The number of the years'th of years that a year is in, which has no number 0.
Ordinal(year, years) == IF year > 0 THEN (year + years - 1) \div years ELSE -((years - year) \div years)

PartOf(d, part) ==
    CASE part = "YEAR" -> d.year
      [] part = "MONTH" -> d.month
      [] part = "DAY" -> d.day
      [] part = "DECADE" -> d.year \div 10
      [] part = "CENTURY" -> Ordinal(d.year, 100)
      [] part = "MILLENNIUM" -> Ordinal(d.year, 1000)
      [] part = "QUARTER" -> (d.month + 2) \div 3

FirstOf(d, part) ==
    CASE part = "YEAR" -> CivilDate(d.year, 1, 1)
      [] part = "MONTH" -> [d EXCEPT !.day = 1]
      [] part = "DAY" -> d
      [] part = "DECADE" -> CivilDate(d.year - (d.year % 10), 1, 1)
      [] part = "CENTURY" -> CivilDate(d.year - (d.year % 100), 1, 1)
      [] part = "MILLENNIUM" -> CivilDate(d.year - (d.year % 1000), 1, 1)
      [] part = "QUARTER" -> CivilDate(d.year, d.month - ((d.month - 1) % 3), 1)

MonthsLater(d, months) ==
    LET index == 12 * d.year + d.month - 1 + months
        y == index \div 12
        m == (index % 12) + 1
    IN  CivilDate(y, m, IF d.day > DaysIn(y, m) THEN DaysIn(y, m) ELSE d.day)

\* Before the year 0 decades and longer periods are cut towards 0.
RightDate ==
    LET n == calendarDay
        d == calendarDate
    IN  /\ ConvertDate(n) = d
        /\ FromDate(d.year, d.month, d.day) = n
        /\ FromDate(d.year, d.month, DaysIn(d.year, d.month) + 1) = NULL
        /\ getDayName(n) = (n + 4) % 7
        /\ ConvertDate(getLastDay(n)) = [d EXCEPT !.day = DaysIn(d.year, d.month)]
        /\ d.year >= 0 =>
             \A part \in DateParts :
                /\ getDatePart(part, n) = PartOf(d, part)
                /\ ConvertDate(truncDate(part, n)) = FirstOf(d, part)
        /\ n \in 0 .. DAYS_PER_YEAR_INTERVAL - 1 =>
             \A part \in DateParts : afterDatePart(part, n) = n /\ afterTrunc(part, n) = n
        /\ d.year > 0 => TryConvertDate(DateToString(n)) = n

RightSums ==
    \A interval \in SomeIntervals :
        ConvertDate(datePlus(calendarDay, [interval EXCEPT !.days = 0, !.micros = 0]))
            = MonthsLater(calendarDate, interval.months)

RightSum(ts, time, interval) ==
    LET whole == [interval EXCEPT !.micros = 0]
    IN  /\ timestampPlus(ts, interval) = midnight(datePlus(calendarDay, whole)) + time + interval.micros
        /\ timestampMinus(ts, interval) = midnight(dateMinus(calendarDay, whole)) + time - interval.micros

RightParts(c, v) ==
    /\ DatePart("HOUR", v) = c.hour /\ DatePart("MINUTE", v) = c.minute /\ DatePart("SECOND", v) = c.second
    /\ DatePart("DAY", v) = calendarDate.day /\ DayName(v) = (calendarDay + 4) % 7
    /\ MonthName(v) = calendarDate.month /\ LastDay(v) - calendarDay = DaysIn(calendarDate.year, calendarDate.month) - calendarDate.day
    /\ \A part \in TimeParts :
         LET first == DateTrunc(part, v)
         IN  first % MicrosOf(part) = 0 /\ v.val - first \in 0 .. MicrosOf(part) - 1

RightTimestamp(c, time, ts) ==
    /\ ConvertTime(time) = c
    /\ GetDate(ts) = calendarDay /\ GetTime(ts) = time
    /\ FromEpochSec(ts \div MICROS_PER_SEC) + (ts % MICROS_PER_SEC) = ts
    /\ FromEpochMs(ts \div MICROS_PER_MSEC) = DateTrunc("MILLISECOND", [type |-> "TIMESTAMP", val |-> ts])
    /\ RightParts(c, [type |-> "TIMESTAMP", val |-> ts])
    /\ calendarDate.year > 0 =>
         /\ TimestampFromCString(TimestampToString(ts), 0, 0) = ts
         /\ TimestampFromCString(TimestampToString(ts), -1, -1) = ts + MICROS_PER_HOUR + MICROS_PER_MINUTE
    /\ timestampPlus(0, timestampDifference(ts, 0)) = ts
    /\ \A interval \in SomeIntervals : RightSum(ts, time, interval)

RightTimestamps == \A c \in Clocks : RightTimestamp(c, FromTime(c), FromDatetime(calendarDay, FromTime(c)))

\* Days and microseconds that make no further month between them.
Carries(a) == (a.days % DAYS_PER_MONTH) + ((a.micros % MICROS_PER_MONTH) \div MICROS_PER_DAY) < DAYS_PER_MONTH

RightIntervals ==
    LET positive == {a \in SomeIntervals : a.months >= 0 /\ a.days >= 0 /\ a.micros >= 0}
        v(a) == [type |-> "INTERVAL", val |-> a]
    IN  /\ \A a \in positive, k \in 1 .. 3 : getMicro(intervalDivide(a, k)) = getMicro(a) \div k
        /\ \A a, b \in {x \in positive : Carries(x)} : GreaterThan(a, b) <=> getMicro(a) > getMicro(b)
        /\ \A a \in SomeIntervals :
             LET text == IntervalToString(a)
             IN  /\ 12 * text.years + text.months = a.months
                 /\ getMicro(ToUnits(text.clock.hour, "hour")) + getMicro(ToUnits(text.clock.minute, "minute"))
                      + getMicro(ToUnits(text.clock.second, "second")) + text.clock.micros
                      = IF text.negative THEN -a.micros ELSE a.micros
                 /\ 12 * DatePart("YEAR", v(a)) + DatePart("MONTH", v(a)) = a.months
                 /\ DatePart("HOUR", v(a)) * MICROS_PER_HOUR + DatePart("MINUTE", v(a)) * MICROS_PER_MINUTE
                      + DatePart("MICROSECOND", v(a)) = a.micros
        /\ \A u, w \in Units :
             IntervalFromCString(<<[number |-> 3, unit |-> u], [number |-> 2, unit |-> w]>>)
                = intervalPlus(ToUnits(3, u), ToUnits(2, w))

\* The functions on dates, timestamps and intervals agree with a calendar that is turned
\* day by day and year by year, before and after 1970 and across the 400 years the tables of
\* date_t.cpp cover: dates are converted to numbers and back, days named, parts taken and
\* periods begun as they should; sums with intervals end in the right month on a day it has
\* and lose no microsecond; and from 1970 to 2369 no function changes its operand.
DatesAreRight ==
    calendarDate # NULL =>
        /\ RightDate
        /\ RightSums
        /\ RightTimestamps
        /\ calendarDay = 0 => RightIntervals
=============================================================================
