-------------------------------- MODULE Dates --------------------------------
(***************************************************************************)
(* Date: time values, calendar fields, and dates as text.  A time is <<t>>,  *)
(* t in milliseconds from 1970, or <<>> for NaN.  The lengths of a second,    *)
(* minute and hour are constants, so that TLC's integers reach over several   *)
(* thousand years of the real calendar.  A zone is [before, after, at]: the    *)
(* minutes to add to a local time to get UTC, before and from the time at on.  *)
(* A text is a sequence of tokens [k, v, w]: k = "d" is a run of w digits with *)
(* the value v, k = "a" an abbreviation (v its index), other k a character.    *)
(***************************************************************************)
EXTENDS Integers, Sequences, SequencesExt, FiniteSetsExt, Folds

CONSTANTS
    MsDigits,       \* a second has 10^MsDigits milliseconds (3 in the code)
    SecsPerMin,     \* 60 in the code
    MinsPerHour,    \* 60 in the code
    MaxTime         \* bound on the absolute value of a time (8.64e15)

Sec == 10 ^ MsDigits
Minute == SecsPerMin * Sec
Hour == MinsPerHour * Minute
Day == 24 * Hour

NaN == <<>>

-----------------------------------------------------------------------------
(* The calendar. *)

floor_div(a, b) == a \div b
math_mod(a, b) == a % b

days_from_year(y) ==
    365 * (y - 1970) + floor_div(y - 1969, 4) - floor_div(y - 1901, 100) + floor_div(y - 1601, 400)

days_in_year_Julian(y) == IF y % 4 = 0 THEN 366 ELSE 365

days_in_year(y) ==
    365 + (IF y % 4 = 0 THEN 1 ELSE 0) - (IF y % 100 = 0 THEN 1 ELSE 0) + (IF y % 400 = 0 THEN 1 ELSE 0)

\* The year of a day and the day in it: a first guess, moved while it is off.
\* (10000 / 3652425 is 400 / 146097.)
RECURSIVE YearFrom(_, _)
YearFrom(d, y) ==
    LET d1 == d - days_from_year(y)
    IN  IF d1 < 0 THEN YearFrom(d, y - 1)
        ELSE IF d1 >= days_in_year(y) THEN YearFrom(d, y + 1)
        ELSE [year |-> y, days |-> d1]
year_from_days(d) == YearFrom(d, floor_div(d * 400, 146097) + 1970)

month_days(i, y) == <<31, 28, 31, 30, 31, 30, 31, 31, 30, 31, 30, 31>>[i + 1] + (IF i = 1 THEN days_in_year(y) - 365 ELSE 0)
DaysBefore(m, y) == FoldLeft(LAMBDA acc, i : acc + month_days(i - 1, y), 0, [i \in 1..m |-> i])

time_clip(t) == IF t \in -MaxTime..MaxTime THEN <<t>> ELSE NaN

-----------------------------------------------------------------------------
(* Between times and fields. *)

UTC == [before |-> 0, after |-> 0, at |-> 0]
getTimezoneOffset(t, zone) == IF t < zone.at THEN zone.before ELSE zone.after

\* year, month (from 0), day of the month (from 1), hour, minute, second,
\* millisecond, day of the week, offset of the zone.
get_date_fields(t, zone) ==
    LET tz == -getTimezoneOffset(t, zone)
        d == t + tz * Minute
        h == math_mod(d, Day)
        days == (d - h) \div Day
        y == year_from_days(days)
        mon == Min({i \in 0..11 : i = 11 \/ y.days < DaysBefore(i + 1, y.year)})
    IN  <<y.year, mon, y.days - DaysBefore(mon, y.year) + 1,
          h \div Hour, (h \div Minute) % MinsPerHour, (h \div Sec) % SecsPerMin, h % Sec,
          math_mod(days + 4, 7), tz>>

\* Months outside of the year carry into it; the offset of the zone is looked up
\* for the local time.
set_date_fields(f, zone) ==
    LET m == f[2] % 12
        y == f[1] + floor_div(f[2], 12)
        days == days_from_year(y) + DaysBefore(m, y) + f[3] - 1
        d == days * Day + f[4] * Hour + f[5] * Minute + f[6] * Sec + f[7]
    IN  time_clip(d + getTimezoneOffset(d, zone) * Minute)

get_date_field(t, n, zone) == IF t = NaN THEN NaN ELSE <<get_date_fields(t[1], zone)[n + 1]>>

\* The fields from first on are replaced by the arguments, at most up to end; a
\* date that is NaN can only be set with a year.
set_date_field(t, first, end, args, zone) ==
    LET n == Min({end - first, Len(args)})
        f == IF t = NaN THEN get_date_fields(0, UTC) ELSE get_date_fields(t[1], zone)
    IN  IF (t = NaN /\ first # 0) \/ args = <<>> \/ (\E i \in 1..n : args[i] = NaN) THEN NaN
        ELSE set_date_fields([i \in DOMAIN f |-> IF i > first /\ i <= first + n THEN args[i - first][1] ELSE f[i]], zone)

Century(y) == IF y >= 0 /\ y < 100 THEN y + 1900 ELSE y

\* Date(y, mon, d, h, m, s, ms) and Date.UTC.
js_date_constructor(args, zone) ==
    LET n == Min({Len(args), 7})
        f == [i \in 1..7 |-> IF i > n THEN IF i = 3 THEN 1 ELSE 0
                             ELSE IF i = 1 THEN Century(args[i][1]) ELSE args[i][1]]
    IN  IF \E i \in 1..n : args[i] = NaN THEN NaN ELSE set_date_fields(f, zone)
js_Date_UTC(args) == IF args = <<>> THEN NaN ELSE js_date_constructor(args, UTC)

js_date_setYear(t, y, zone) == set_date_field(t, 0, 1, <<IF y = NaN THEN NaN ELSE <<Century(y[1])>>>>, zone)

-----------------------------------------------------------------------------
(* Dates as text. *)

Digits(v, w) == <<[k |-> "d", v |-> v, w |-> w]>>
Char(c) == <<[k |-> c, v |-> 0, w |-> 0]>>
Abbrev(i) == <<[k |-> "a", v |-> i, w |-> 3]>>
Signed(v, w) == IF v < 0 THEN Char("-") \o Digits(-v, w) ELSE Digits(v, w)

\* fmt 0: toUTCString, 1: toString, 2: toISOString.
get_date_string(t, fmt, zone) ==
    LET f == get_date_fields(t, IF fmt = 1 THEN zone ELSE UTC)
        sp == Char(" ")
        time == Digits(f[4], 2) \o Char(":") \o Digits(f[5], 2) \o Char(":") \o Digits(f[6], 2)
        tz == f[9]
        z == IF tz < 0 THEN -tz ELSE tz
        sign == Char(IF tz < 0 THEN "-" ELSE "+")
    IN  CASE fmt = 0 -> Abbrev(f[8]) \o Char(",") \o sp \o Digits(f[3], 2) \o sp \o Abbrev(f[2]) \o sp \o Signed(f[1], 4) \o sp
                          \o time \o sp \o Char("GMT")
          [] fmt = 1 -> Abbrev(f[8]) \o sp \o Abbrev(f[2]) \o sp \o Digits(f[3], 2) \o sp \o Signed(f[1], 4) \o sp
                          \o time \o sp \o Char("GMT") \o sign \o Digits((z \div MinsPerHour) * 100 + (z % MinsPerHour), 4)
          [] fmt = 2 -> (IF f[1] \in 0..9999 THEN Digits(f[1], 4) ELSE (IF f[1] < 0 THEN Char("-") ELSE Char("+")) \o Digits(IF f[1] < 0 THEN -f[1] ELSE f[1], 6))
                          \o Char("-") \o Digits(f[2] + 1, 2) \o Char("-") \o Digits(f[3], 2) \o Char("T")
                          \o time \o Char(".") \o Digits(f[7], MsDigits) \o Char("Z")

\* The hour that toLocaleString shows before AM and PM.
LocaleHour(h) == ((h + 1) % 12) - 1

\* The reading functions return [p, v], the next position and the value; p = 0
\* is a failure.
Bad == [p |-> 0, v |-> 0]
At(s, p) == IF p \in DOMAIN s THEN s[p].k ELSE "end"

string_skip_spaces(s, p) == Min({q \in p..(Len(s) + 1) : q = Len(s) + 1 \/ s[q].k # " "})
string_skip_non_spaces(s, p) == Min({q \in p..(Len(s) + 1) : q = Len(s) + 1 \/ s[q].k = " "})
string_get_digits(s, p) == IF At(s, p) = "d" THEN [p |-> p + 1, v |-> s[p].v] ELSE Bad
string_get_signed_digits(s, p) ==
    IF At(s, p) \notin {"-", "+"} THEN string_get_digits(s, p)
    ELSE LET r == string_get_digits(s, p + 1) IN [r EXCEPT !.v = IF s[p].k = "-" THEN -@ ELSE @]
string_get_month(s, p) ==
    LET q == string_skip_spaces(s, p) IN IF At(s, q) = "a" THEN [p |-> q + 1, v |-> s[q].v] ELSE Bad

\* A fraction of a second, to the nearest millisecond: the first digit that is
\* dropped rounds.
string_get_milliseconds(s, p) ==
    LET w == s[p].w
        digit(i) == (s[p].v \div 10 ^ (w - i)) % 10
        Step(acc, i) == [mul |-> acc.mul \div 10,
                         ms |-> acc.ms + (IF acc.mul = 1 /\ digit(i) >= 5 THEN 1 ELSE 0) + digit(i) * (acc.mul \div 10)]
    IN  IF At(s, p) # "d" THEN Bad
        ELSE [p |-> p + 1, v |-> FoldLeft(Step, [mul |-> Sec, ms |-> 0], [i \in 1..w |-> i]).ms]

\* HHmm, or HH:mm if colon: the minutes of an offset.
Offset(s, p, colon) ==
    IF colon THEN IF At(s, p) = "d" /\ At(s, p + 1) = ":" /\ At(s, p + 2) = "d" /\ s[p].w = 2 /\ s[p + 2].w = 2
                  THEN [p |-> p + 3, v |-> s[p].v * MinsPerHour + s[p + 2].v] ELSE Bad
    ELSE IF At(s, p) = "d" /\ s[p].w = 4 THEN [p |-> p + 1, v |-> (s[p].v \div 100) * MinsPerHour + (s[p].v % 100)] ELSE Bad

\* The fields after the year, as many as there are: state [p, i, f, ok].
IsoField(st, i) ==
    LET c == <<"-", "-", "T", ":", ":", ".">>[i]
        r == IF i = 6 THEN string_get_milliseconds(st.s, st.p + 1) ELSE string_get_digits(st.s, st.p + 1)
    IN  IF st.stop \/ At(st.s, st.p) # c THEN [st EXCEPT !.stop = TRUE]
        ELSE [st EXCEPT !.p = r.p, !.n = i, !.f[i + 1] = r.v, !.stop = r.p = 0]

ParseIso(s, zone) ==
    LET y == string_get_signed_digits(s, 1)
        st == FoldLeft(IsoField, [s |-> s, p |-> y.p, n |-> 0, stop |-> y.p = 0, f |-> <<y.v, 1, 1, 0, 0, 0, 0>>], <<1, 2, 3, 4, 5, 6>>)
        c == At(s, st.p)
        rest == Len(s) - st.p
        off == Offset(s, st.p + 1, rest = 3)
        tz == IF c = "-" THEN -off.v ELSE off.v
        local == IF c = "end" /\ st.n >= 3 THEN zone ELSE UTC
        d == set_date_fields([st.f EXCEPT ![2] = @ - 1], local)
    IN  IF st.p = 0 THEN NaN
        ELSE CASE c = "end" -> d
               [] c = "Z" -> IF rest = 0 THEN d ELSE NaN
               [] c \in {"+", "-"} -> IF off.p # Len(s) + 1 \/ d = NaN THEN NaN ELSE <<d[1] - tz * Minute>>
               [] OTHER -> NaN

\* toString and toUTCString: the day of the week is skipped.
ParseText(s) ==
    LET p1 == string_skip_spaces(s, string_skip_non_spaces(s, 1))
        first == At(s, p1) = "d"
        a == IF first THEN string_get_digits(s, p1) ELSE string_get_month(s, p1)
        b == IF first THEN string_get_month(s, a.p) ELSE string_get_digits(s, string_skip_spaces(s, a.p))
        y == string_get_signed_digits(s, string_skip_spaces(s, b.p))
        h == string_get_digits(s, string_skip_spaces(s, y.p))
        m == string_get_digits(s, h.p + 1)
        sec == string_get_digits(s, m.p + 1)
        signs == {q \in sec.p..Len(s) : s[q].k \in {"+", "-"}}
        off == Offset(s, Min(signs) + 1, FALSE)
        tz == IF s[Min(signs)].k = "-" THEN -off.v ELSE off.v
        d == set_date_fields(<<y.v, IF first THEN b.v ELSE a.v, IF first THEN a.v ELSE b.v, h.v, m.v, sec.v, 0>>, UTC)
    IN  IF a.p = 0 \/ b.p = 0 \/ y.p = 0 \/ h.p = 0 THEN NaN
        ELSE IF At(s, h.p) # ":" \/ m.p = 0 \/ At(s, m.p) # ":" \/ sec.p = 0 THEN NaN
        ELSE IF signs = {} \/ d = NaN THEN d
        ELSE IF off.p = 0 THEN NaN ELSE <<d[1] - tz * Minute>>

js_Date_parse(s, zone) == IF At(s, 1) \in {"d", "+", "-"} THEN ParseIso(s, zone) ELSE ParseText(s)

-----------------------------------------------------------------------------
(* What the code is to guarantee. *)

Valid(f) ==
    /\ f[2] \in 0..11 /\ f[3] \in 1..month_days(f[2], f[1]) /\ f[4] \in 0..23
    /\ f[5] \in 0..(MinsPerHour - 1) /\ f[6] \in 0..(SecsPerMin - 1) /\ f[7] \in 0..(Sec - 1)

\* The day after year y, month m, day d of the Gregorian calendar.
Leap(y) == y % 4 = 0 /\ (y % 100 # 0 \/ y % 400 = 0)
LastDay(y, m) == IF m = 1 THEN IF Leap(y) THEN 29 ELSE 28 ELSE IF m \in {3, 5, 8, 10} THEN 30 ELSE 31
Tomorrow(y, m, d) ==
    IF d < LastDay(y, m) THEN <<y, m, d + 1>> ELSE IF m < 11 THEN <<y, m + 1, 1>> ELSE <<y + 1, 0, 1>>

\* The fields of a time are those of a real date, a day later they are those of
\* the next day of the calendar (and of the week), and put together again they
\* give the time; 1970 began at time 0 (get_date_fields, set_date_fields).
CalendarExact(t) ==
    LET f == get_date_fields(t, UTC)
        g == get_date_fields(t + Day, UTC)
    IN  /\ Valid(f) /\ set_date_fields(f, UTC) = <<t>>
        /\ <<g[1], g[2], g[3]>> = Tomorrow(f[1], f[2], f[3]) /\ g[8] = (f[8] + 1) % 7
        /\ \A n \in 4..7 : g[n] = f[n]
        /\ get_date_fields(0, UTC) = <<1970, 0, 1, 0, 0, 0, 0, 4, 0>>

\* Fields out of their range carry: n hours or days more are as much time, n
\* months more lead to that month of the right year, with the same day wherever
\* every month has it (set_date_field, set_date_fields).
CarriesExact(t, n) ==
    LET f == get_date_fields(t, UTC)
        More(field) == set_date_field(<<t>>, field, 7, <<<<f[field + 1] + n>>>>, UTC)
        g == get_date_fields(More(1)[1], UTC)
        months == 12 * f[1] + f[2] + n
    IN  /\ More(3) = <<t + n * Hour>> /\ More(2) = <<t + n * Day>>
        /\ f[3] <= 28 => /\ g[1] = months \div 12 /\ g[2] = months % 12
                         /\ \A i \in 3..7 : g[i] = f[i]

\* What toISOString, toUTCString and toString print reads back as the same time
\* (to the second, for the two that print no fraction), in any zone
\* (get_date_string, js_Date_parse).
ReadsBack(t, zone) ==
    LET second == <<t - (t % Sec)>>
    IN  /\ js_Date_parse(get_date_string(t, 2, zone), zone) = <<t>>
        /\ js_Date_parse(get_date_string(t, 0, zone), zone) = second
        /\ js_Date_parse(get_date_string(t, 1, zone), zone) = second

\* A fraction with more digits than milliseconds rounds to the nearest one
\* (string_get_milliseconds).
FractionsRound(v, w) ==
    LET r == string_get_milliseconds(Digits(v, w), 1).v
        diff == 2 * (r * 10 ^ w - v * Sec)
    IN  (IF diff < 0 THEN -diff ELSE diff) <= 10 ^ w

\* A date made from local fields has these local fields, whenever some time has
\* them and the year is not one of the two digits that mean 19xx
\* (js_date_constructor, get_date_field).
LocalFieldsKept(t, zone) ==
    LET f == get_date_fields(t, zone)
        made == js_date_constructor([i \in 1..7 |-> <<f[i]>>], zone)
    IN  f[1] \notin 0..99 =>
        /\ made # NaN
        /\ \A n \in 1..7 : get_date_fields(made[1], zone)[n] = f[n]

\* The same in a zone whose offset never changes.
LocalFieldsKeptFixed(t, off) == LocalFieldsKept(t, [before |-> off, after |-> off, at |-> 0])

\* toLocaleString shows the hour the way its comment does ("11:40:40 PM"), as one
\* of 1..12 (get_date_string).
LocaleHourShown(h) == LocaleHour(h) = (IF h % 12 = 0 THEN 12 ELSE h % 12)
=============================================================================
