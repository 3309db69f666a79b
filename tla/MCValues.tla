------------------------------ MODULE MCValues ------------------------------
(***************************************************************************)
(* The value types and the conversions in one instance for TLC: StatusOr,  *)
(* optional, IamBindings, RFC 3339 timestamps and big-endian integers.     *)
(* They do not interact, so each behaviour uses one of them.               *)
(***************************************************************************)
EXTENDS Integers

CONSTANTS Obj, Error, Role, Member, MaxVector, Base, Sizes

VARIABLES
    active,  \* the part that this behaviour is about
    code, value, objects, has_value, buffer, bindings, granted, blank, repeated,
    zone, kLocalTimeOffset, last, codec

\* The time points around the epoch, leap days, the ends of months and years, and
\* near both ends of the range.
Day == {-106750, -25509, -1, 0, 58, 59, 789, 790, 11015, 11016, 11017, 18262, 106749}
Second == {0, 1, 43200, 86399}
Nano == {0, 1, 500, 1000, 1000000, 120000000, 123456000, 123456789, 899999999, 900000000,
         900000001, 999999000, 999999999}

\* UTC, a zone that is ahead, and one that was an hour ahead until October 1971
Zone == {[before |-> 0, after |-> 0, change |-> 0],
         [before |-> 19800, after |-> 19800, change |-> 0],
         [before |-> 3600, after |-> 0, change |-> 668]}

Now == 18000
Offset == {-480, 0, 330, 1439}

Z == [sign |-> "Z"]
NoFraction == [point |-> FALSE]
Noon == [scanned |-> TRUE, year |-> 2019, month |-> 6, day |-> 15, separator |-> "T",
         hours |-> 12, minutes |-> 0, seconds |-> 0,
         fraction |-> NoFraction, offset |-> Z, more |-> FALSE]

\* The numbers tried in the fields of a text
Years == {1600, 1700, 1900, 1970, 1972, 2000, 2019, 2020, 2100, 9999}
Months == -1..13
MonthDays == {-1, 0, 1, 28, 29, 30, 31, 32}
Hours == {-1, 0, 23, 24}
Minutes == {-1, 0, 59, 60}
Seconds == {-1, 0, 59, 60, 61}

\* Noon with a part of it changed
OnDate(y, m, d) == [Noon EXCEPT !.year = y, !.month = m, !.day = d]
AtTime(h, m, s) == [Noon EXCEPT !.hours = h, !.minutes = m, !.seconds = s]
WithMarks(c, b, e) == [Noon EXCEPT !.separator = c, !.scanned = b, !.more = e]
WithFraction(p, v) == [Noon EXCEPT !.fraction = [point |-> TRUE, pos |-> p, value |-> v]]
WithOffset(c, b, h, m) ==
    [Noon EXCEPT !.offset = [sign |-> c, scanned |-> b, hours |-> h, minutes |-> m]]

\* Every kind of date, and every kind of mistake in the rest of the text
Separators == {"T", "t", " "}
Signs == {"+", "-", "z", " "}
Dates == {OnDate(y, m, d) : y \in Years, m \in Months, d \in MonthDays}
Times == {AtTime(h, m, s) : h \in Hours, m \in Minutes, s \in Seconds}
Marks == {WithMarks(c, b, e) : c \in Separators, b \in BOOLEAN, e \in BOOLEAN}
Fractions == {WithFraction(p, v) : p \in 0..11, v \in {0, 5}}
Offsets == {WithOffset(c, b, h, m) : c \in Signs, b \in BOOLEAN, h \in Hours, m \in Minutes}
Text == Dates \cup Times \cup Marks \cup Fractions \cup Offsets

SO == INSTANCE StatusOr
OP == INSTANCE Optional
IB == INSTANCE IamBindings
TP == INSTANCE Rfc3339
BE == INSTANCE BigEndian

ASSUME IntegralAssumption == BE!Integral

status_or == <<code, value>>
optional == <<objects, has_value, buffer>>
iam == <<bindings, granted, blank, repeated>>
time == <<zone, kLocalTimeOffset, last>>
vars == <<active, status_or, optional, iam, time, codec>>

Init ==
    /\ active \in {"StatusOr", "optional", "IamBindings", "Rfc3339", "BigEndian"}
    /\ SO!Init /\ OP!Init /\ IB!Init /\ TP!Init /\ BE!Init
    /\ active # "IamBindings" => DOMAIN bindings = {}
    /\ active # "Rfc3339" => zone.after # 0

Next ==
    \/ active = "StatusOr" /\ SO!Next /\ UNCHANGED <<active, optional, iam, time, codec>>
    \/ active = "optional" /\ OP!Next /\ UNCHANGED <<active, status_or, iam, time, codec>>
    \/ active = "IamBindings" /\ IB!Next /\ UNCHANGED <<active, status_or, optional, time, codec>>
    \/ active = "Rfc3339" /\ TP!Next /\ UNCHANGED <<active, status_or, optional, iam, codec>>
    \/ active = "BigEndian" /\ BE!Next /\ UNCHANGED <<active, status_or, optional, iam, time>>

Spec == Init /\ [][Next]_vars

\* StatusOr<T>: the union holds a live T if and only if ok().
StatusOrValueIffOk == SO!ValueIffOk

\* optional<T>: the storage holds a live T if and only if has_value().
OptionalValueIffHasValue == OP!ValueIffHasValue

\* IamBindings: after any sequence of calls the map holds exactly the members
\* that were given and not removed since, except that a role the vector names
\* twice may lack some, and no role that lost its last one.
BindingsAreExact == IB!BindingsAreExact

\* Rfc3339: every time point survives FormatRfc3339() and ParseRfc3339().
FullPrecision == TP!FullPrecision

\* Rfc3339: time points survive FormatRfc3339() and ParseRfc3339(), except for
\* fractions of seconds before the epoch.
RoundTrip == TP!RoundTrip

\* Rfc3339: ParseRfc3339() accepts the dates that exist and no others.
AcceptsCalendarDates == TP!AcceptsCalendarDates

\* BigEndian: integers survive EncodeBigEndian() and DecodeBigEndian().
BytesRoundTrip == BE!BytesRoundTrip
=============================================================================
