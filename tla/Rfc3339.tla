------------------------------ MODULE Rfc3339 -------------------------------
(***************************************************************************)
(* ParseRfc3339(), FormatRfc3339() and the formats for V4 signed URLs      *)
(* (internal/parse_rfc3339.cc, internal/format_time_point.cc), and the     *)
(* timestamp of a log record (log.cc).                                     *)
(*                                                                         *)
(* A time point is [day, sec, ns]: the day counted from the epoch, the     *)
(* second of the day and the nanosecond, the last two never negative.  A   *)
(* text is what sscanf() and the tests of single characters find in it.    *)
(* The calendar is the one of gmtime_r() and mktime(); tm_isdst is 0       *)
(* throughout, so that a zone is its standard offset, which may have       *)
(* changed once in its history.                                            *)
(*                                                                         *)
(* A definition named Faulty... is a variant of the one that follows it    *)
(* with a plausible mistake, kept to show that a property can fail.        *)
(***************************************************************************)
EXTENDS Integers, Sequences

CONSTANTS
    Zone,    \* time zones: the standard offset in seconds before and after the day of a change
    Now,     \* the day when the program runs
    Day, Second, Nano,  \* the time points tried are their combinations
    Offset,  \* the time zone offsets of texts, in minutes
    Text     \* further texts to parse

VARIABLES
    zone,              \* the time zone of the process
    kLocalTimeOffset,  \* the static of that name, {} before the first call
    last               \* the last call, with its argument and its result

vars == <<zone, kLocalTimeOffset, last>>

NanosPerSecond == 1000000000
SecondsPerDay == 86400

-----------------------------------------------------------------------------
(* Calendar and clock                                                      *)

\* The day on which a civil date falls; a day of the month that does not exist
\* is counted on, as mktime() does.
DayOf(year, month, day) ==
    LET y == IF month <= 2 THEN year - 1 ELSE year
        m == IF month <= 2 THEN month + 9 ELSE month - 3  \* from March
    IN  365 * y + y \div 4 - y \div 100 + y \div 400 + (153 * m + 2) \div 5 + day - 1 - 719468

\* The civil date of a day: the year and the month that it is in, and the rest.
DateOf(d) ==
    LET guess == 1970 + (400 * d) \div 146097
        year == CHOOSE y \in (guess - 1)..(guess + 1) : DayOf(y, 1, 1) <= d /\ d < DayOf(y + 1, 1, 1)
        First(m) == IF m = 13 THEN DayOf(year + 1, 1, 1) ELSE DayOf(year, m, 1)
        month == CHOOSE m \in 1..12 : First(m) <= d /\ d < First(m + 1)
    IN  [year |-> year, month |-> month, day |-> d - First(month) + 1]

\* A time point from a day and any number of seconds and nanoseconds.
TimePoint(day, sec, ns) ==
    LET s == sec + ns \div NanosPerSecond
    IN  [day |-> day + s \div SecondsPerDay, sec |-> s % SecondsPerDay, ns |-> ns % NanosPerSecond]

Later(tp, sec, ns) == TimePoint(tp.day, tp.sec + sec, tp.ns + ns)

BeforeEpoch(tp) == tp.day < 0

\* Time points are 64-bit counts of nanoseconds; the first and the last day of
\* their range are incomplete and left out.
Representable(tp) == -106751 <= tp.day /\ tp.day <= 106750

StandardOffset(z, day) == IF day < z.change THEN z.before ELSE z.after

\* std::mktime(), in the zone of the process
MkTime(z, t) ==
    LET day == DayOf(t.year, t.month, t.day)
    IN  TimePoint(day, 3600 * t.hours + 60 * t.minutes + t.seconds - StandardOffset(z, day), 0)

\* mktime(gmtime(now)) - now
LocalTimeOffset(z) == -StandardOffset(z, Now)

-----------------------------------------------------------------------------
(* ParseRfc3339()                                                          *)

\* The rule for centuries is forgotten.
FaultyIsLeapYear(year) == year % 4 = 0

IsLeapYear(year) == year % 4 = 0 /\ (year % 100 # 0 \/ year % 400 = 0)

kMaxDaysInMonth == <<31, 29, 31, 30, 31, 30, 31, 31, 30, 31, 30, 31>>

\* ParseDateTime() does not report an error.
ValidDateTime(t) ==
    /\ t.scanned  \* seven fields in 19 characters
    /\ t.separator \in {"T", "t"}
    /\ t.month \in 1..12
    /\ t.day \in 1..kMaxDaysInMonth[t.month]
    /\ ~(t.month = 2 /\ t.day > kMaxDaysInMonth[2] - 1 /\ ~IsLeapYear(t.year))
    /\ t.hours \in 0..23
    /\ t.minutes \in 0..59
    /\ t.seconds \in 0..60

\* A fraction is what "%9ld%n" stores: the number and how many characters it
\* took, the white space before the number and its sign included; pos = 0 if
\* there is no number.  Further digits are skipped.
ValidFraction(f) == f.point => f.pos > 0

\* The loop that normalises the fraction starts one digit late.
FaultyFractionNanos(f) ==
    IF ~f.point THEN 0 ELSE f.value * 10^(IF f.pos < 9 THEN 8 - f.pos ELSE 0)

FractionNanos(f) ==
    IF ~f.point THEN 0 ELSE f.value * 10^(IF f.pos < 9 THEN 9 - f.pos ELSE 0)

\* ParseOffset() does not report an error.
ValidOffset(o) ==
    \/ o.sign \in {"Z", "z"}
    \/ o.sign \in {"+", "-"} /\ o.scanned /\ o.hours \in 0..23 /\ o.minutes \in 0..59

OffsetSeconds(o) ==
    CASE o.sign = "+" -> 3600 * o.hours + 60 * o.minutes
      [] o.sign = "-" -> -3600 * o.hours - 60 * o.minutes
      [] OTHER -> 0

Valid(t) == ValidDateTime(t) /\ ValidFraction(t.fraction) /\ ValidOffset(t.offset) /\ ~t.more

\* What the call ends in if not a time point: the exception std::invalid_argument,
\* or a signed overflow, in from_time_t() or in one of the three sums.
InvalidArgument == [error |-> "invalid_argument"]
Overflow == [error |-> "overflow"]

ParseRfc3339(t, z, local_offset) ==
    LET date_time == MkTime(z, t)
        with_fraction == Later(date_time, 0, FractionNanos(t.fraction))
        without_offset == Later(with_fraction, -OffsetSeconds(t.offset), 0)
        time_point == Later(without_offset, -local_offset, 0)
    IN  IF ~ValidDateTime(t) THEN InvalidArgument
        ELSE IF ~Representable(date_time) THEN Overflow
        ELSE IF ~Valid(t) THEN InvalidArgument
        ELSE IF \E tp \in {with_fraction, without_offset, time_point} : ~Representable(tp) THEN Overflow
        ELSE time_point

-----------------------------------------------------------------------------
(* FormatRfc3339() and the V4 formats                                      *)

Truncate(a, b) == IF a < 0 THEN -((-a) \div b) ELSE a \div b

\* duration_cast<seconds> and to_time_t() truncate towards the epoch.
TruncatedSecond(tp) ==
    IF BeforeEpoch(tp) /\ tp.ns > 0 THEN TimePoint(tp.day, tp.sec + 1, 0) ELSE [tp EXCEPT !.ns = 0]

Fractional(tp) == IF BeforeEpoch(tp) /\ tp.ns > 0 THEN tp.ns - NanosPerSecond ELSE tp.ns

AsUtcTm(tp) ==
    LET s == TruncatedSecond(tp)
        date == DateOf(s.day)
    IN  [year |-> date.year, month |-> date.month, day |-> date.day,
         hours |-> s.sec \div 3600, minutes |-> (s.sec \div 60) % 60, seconds |-> s.sec % 60]

\* How many characters the decimal number q takes.
DecimalWidth(q) ==
    LET a == IF q < 0 THEN -q ELSE q
        digits == CHOOSE n \in 1..9 : a < 10^n /\ (n = 1 \/ a >= 10^(n - 1))
    IN  IF q < 0 THEN digits + 1 ELSE digits

\* The number q printed with "%0<n>lld" and scanned with "%9ld%n"
Printed(q, n) ==
    LET width == IF DecimalWidth(q) > n THEN DecimalWidth(q) ELSE n
    IN  [point |-> TRUE,
         pos |-> IF width > 9 THEN 9 ELSE width,
         value |-> IF width > 9 THEN Truncate(q, 10) ELSE q]

FormatFractional(ns) ==
    CASE ns = 0 -> [point |-> FALSE]
      [] ns # 0 /\ ns % 1000000 = 0 -> Printed(Truncate(ns, 1000000), 3)
      [] ns % 1000000 # 0 /\ ns % 1000 = 0 -> Printed(Truncate(ns, 1000), 6)
      [] OTHER -> Printed(ns, 9)

\* A text with the date and time of tm
TextOf(tm, fraction, offset) ==
    [scanned |-> TRUE, year |-> tm.year, month |-> tm.month, day |-> tm.day, separator |-> "T",
     hours |-> tm.hours, minutes |-> tm.minutes, seconds |-> tm.seconds,
     fraction |-> fraction, offset |-> offset, more |-> FALSE]

FormatRfc3339(tp) == TextOf(AsUtcTm(tp), FormatFractional(Fractional(tp)), [sign |-> "Z"])

FormatV4SignedUrlTimestamp(tp) == AsUtcTm(tp)

FormatV4SignedUrlScope(tp) == LET tm == AsUtcTm(tp) IN <<tm.year, tm.month, tm.day>>

\* Timestamp{tp} of a LogRecord: nanos is tp - from_time_t(to_time_t(tp)).
LogTimestamp(tp) == [tm |-> AsUtcTm(tp), nanos |-> Fractional(tp)]

-----------------------------------------------------------------------------
(* A process that parses and formats                                       *)

Init ==
    /\ zone \in Zone
    /\ kLocalTimeOffset = {}
    /\ last = [call |-> "none"]

\* The static is initialised by the first call.
CachedOffset == IF kLocalTimeOffset = {} THEN {LocalTimeOffset(zone)} ELSE kLocalTimeOffset
Cached == CHOOSE o \in CachedOffset : TRUE

Parse(t) ==
    /\ kLocalTimeOffset' = CachedOffset
    /\ last' = [call |-> "parse", text |-> t, result |-> ParseRfc3339(t, zone, Cached)]
    /\ UNCHANGED zone

FormatAndParse(tp) ==
    LET t == FormatRfc3339(tp)
    IN  /\ kLocalTimeOffset' = CachedOffset
        /\ last' = [call |-> "format", tp |-> tp, text |-> t,
                    timestamp |-> FormatV4SignedUrlTimestamp(tp),
                    scope |-> FormatV4SignedUrlScope(tp), log |-> LogTimestamp(tp),
                    result |-> ParseRfc3339(t, zone, Cached)]
        /\ UNCHANGED zone

\* A text in which another program wrote the time point, in a time zone that is
\* off minutes ahead of UTC.
ForeignText(tp, off) ==
    LET a == IF off < 0 THEN -off ELSE off
    IN  TextOf(AsUtcTm(Later([tp EXCEPT !.ns = 0], 60 * off, 0)), FormatFractional(tp.ns),
               [sign |-> IF off < 0 THEN "-" ELSE "+", scanned |-> TRUE,
                hours |-> a \div 60, minutes |-> a % 60])

ParseForeign(tp, off) ==
    LET t == ForeignText(tp, off)
    IN  /\ kLocalTimeOffset' = CachedOffset
        /\ last' = [call |-> "foreign", tp |-> tp, text |-> t,
                    result |-> ParseRfc3339(t, zone, Cached)]
        /\ UNCHANGED zone

\* The client has used the result.
Used ==
    /\ last.call # "none"
    /\ last' = [call |-> "none"]
    /\ UNCHANGED <<zone, kLocalTimeOffset>>

\* The process sets TZ; mktime() follows, the static does not.
ChangeZone ==
    /\ last.call = "none" /\ kLocalTimeOffset # {}
    /\ zone' \in Zone \ {zone}
    /\ UNCHANGED <<kLocalTimeOffset, last>>

Next ==
    \/ /\ last.call = "none"
       /\ \/ \E t \in Text : Parse(t)
          \/ \E d \in Day, s \in Second, n \in Nano :
                LET tp == [day |-> d, sec |-> s, ns |-> n]
                IN  FormatAndParse(tp) \/ \E off \in Offset : ParseForeign(tp, off)
    \/ Used \/ ChangeZone

Spec == Init /\ [][Next]_vars

-----------------------------------------------------------------------------
(* Properties                                                              *)

\* The zone has, at the date of the text, the offset that the first call found.
OffsetIsCurrent(t) ==
    kLocalTimeOffset = {-StandardOffset(zone, DayOf(t.year, t.month, t.day))}

\* "The fractional seconds always represent the full precision of time_point"
\* (format_time_point.h): every time point survives FormatRfc3339() and
\* ParseRfc3339(), unless the standard offset of the zone is not the one that
\* the first call cached.
FullPrecision ==
    last.call = "format" /\ OffsetIsCurrent(last.text) => last.result = last.tp

\* The time points from the epoch on, and whole seconds before it, survive
\* FormatRfc3339() and ParseRfc3339() with their full precision, and
\* ParseRfc3339() finds the time point that another program wrote with an
\* offset, in any time zone, unless the standard offset of the zone is not the
\* one that the first call cached.  The timestamp and the scope of a V4 signed
\* URL are the second and the date of the same time point, and the fields of a
\* log timestamp add up to it.
RoundTrip ==
    /\ (last.call = "foreign" \/ (last.call = "format" /\ Fractional(last.tp) >= 0)) =>
          (OffsetIsCurrent(last.text) => last.result = last.tp)
    /\ last.call = "format" =>
          LET tm == last.timestamp
              s == TruncatedSecond(last.tp)
          IN  /\ DayOf(tm.year, tm.month, tm.day) = s.day
              /\ 3600 * tm.hours + 60 * tm.minutes + tm.seconds = s.sec
              /\ last.scope = <<tm.year, tm.month, tm.day>>
              /\ last.log.tm = tm
              /\ TimePoint(s.day, s.sec, last.log.nanos) = last.tp

\* A text whose time point is in range is accepted if and only if its date exists
\* in the calendar, so that mktime() does not move it to another day, and the
\* text would be accepted with any other date; it is then the time point that it
\* says, leap seconds included.
AcceptsCalendarDates ==
    last.call = "parse" /\ last.result # Overflow =>
        LET t == last.text
            exists == /\ t.month \in 1..12
                      /\ DateOf(DayOf(t.year, t.month, t.day))
                            = [year |-> t.year, month |-> t.month, day |-> t.day]
        IN  /\ last.result # InvalidArgument
                  <=> exists /\ Valid([t EXCEPT !.year = 2000, !.month = 1, !.day = 1])
            /\ last.result # InvalidArgument /\ OffsetIsCurrent(t) =>
                  last.result = TimePoint(DayOf(t.year, t.month, t.day),
                                          3600 * t.hours + 60 * t.minutes + t.seconds
                                              - OffsetSeconds(t.offset),
                                          FractionNanos(t.fraction))
=============================================================================
