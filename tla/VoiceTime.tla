----------------------------- MODULE VoiceTime -----------------------------
(***************************************************************************)
(* Spoken dates and times: the parser, and the splitter that collects a    *)
(* date and a time over several turns.  Both are pure.  A text is the      *)
(* sequence of its words, a moment a day number and the minutes into it.   *)
(* Each regular expression is the first word, or pair of words, it finds.  *)
(***************************************************************************)
EXTENDS Integers, Sequences, SequencesExt

CONSTANTS None

ASSUME NoneAssumption == None \notin STRING \cup Int

VARIABLE now    \* [year, month, day, minutes], when the words are spoken

\* Words that normalization cuts up.
Spelling == [w \in {"p.m.", "o'clock"} |-> IF w = "p.m." THEN <<"p", "m">> ELSE <<"o", "clock">>]
ASSUME SpellingAssumption == Spelling \in [{"p.m.", "o'clock"} -> Seq(STRING)]

\* _normalize: punctuation becomes space, but for the colon.
NormalizeTime(text) ==
  FlattenSeq([i \in DOMAIN text |->
                IF text[i] \in DOMAIN Spelling THEN Spelling[text[i]] ELSE <<text[i]>>])

Said(t, w) == Contains(t, w)
After(t, i) == IF i < Len(t) THEN t[i + 1] ELSE ""
\* The place of the first word in a set, 0 if there is none.
FirstIn(t, S) == SelectInSeq(t, LAMBDA w : w \in S)
\* The first of two results that is there.
Else(a, b) == IF a # None THEN a ELSE b
\* The first of the names, in the order of the names, that was said.
FirstSaid(t, names) == SelectInSeq(names, LAMBDA n : Said(t, n))

-----------------------------------------------------------------------------
(* Words for numbers *)

Numerals == [n \in 0..99 |-> ToString(n)]
ASSUME NumeralsAssumption == Numerals \in [0..99 -> STRING]
IsNumeral(w) == \E n \in 0..99 : Numerals[n] = w
NumeralOf(w) == CHOOSE n \in 0..99 : Numerals[n] = w

\* Digits with more in the same word: a clock with a colon or a suffix.
Colons == [w \in {"5:30", "9:00"} |-> IF w = "5:30" THEN [hour |-> 5, minute |-> 30]
                                     ELSE [hour |-> 9, minute |-> 0]]
Suffixed == [w \in {"6pm", "7am"} |-> IF w = "6pm" THEN [hour |-> 6, half |-> "pm"]
                                     ELSE [hour |-> 7, half |-> "am"]]
NumericDays == ("1st" :> 1) @@ ("2nd" :> 2) @@ ("3rd" :> 3) @@ ("14th" :> 14)

HourNames == <<"one", "two", "three", "four", "five", "six", "seven", "eight", "nine",
               "ten", "eleven", "twelve">>
MonthNames == <<"january", "february", "march", "april", "may", "june", "july", "august",
                "september", "october", "november", "december">>
ShortMonths == <<"jan", "feb", "mar", "apr", "jun", "jul", "aug", "sep", "sept", "oct",
                 "nov", "dec">>
ShortMonthNumbers == <<1, 2, 3, 4, 6, 7, 8, 9, 9, 10, 11, 12>>
WeekdayNames == <<"monday", "tuesday", "wednesday", "thursday", "friday", "saturday",
                  "sunday">>

Units == <<"first", "second", "third", "fourth", "fifth", "sixth", "seventh", "eighth", "ninth">>
Teens == <<"tenth", "eleventh", "twelfth", "thirteenth", "fourteenth", "fifteenth",
           "sixteenth", "seventeenth", "eighteenth", "nineteenth", "twentieth">>
OrdinalWords == ToSet(Units) \cup ToSet(Teens) \cup {"thirtieth"}
\* _DAY_ORDINALS, the longest first.
OrdinalsByLength ==
  << <<<<"twenty", "seventh">>, 27>>, <<<<"twenty", "second">>, 22>>,
     <<<<"twenty", "fourth">>, 24>>, <<<<"twenty", "eighth">>, 28>>,
     <<<<"twenty", "first">>, 21>>, <<<<"twenty", "third">>, 23>>,
     <<<<"twenty", "fifth">>, 25>>, <<<<"twenty", "sixth">>, 26>>,
     <<<<"twenty", "ninth">>, 29>>, <<<<"thirty", "first">>, 31>>,
     <<<<"seventeenth">>, 17>>, <<<<"thirteenth">>, 13>>, <<<<"fourteenth">>, 14>>,
     <<<<"eighteenth">>, 18>>, <<<<"nineteenth">>, 19>>, <<<<"fifteenth">>, 15>>,
     <<<<"sixteenth">>, 16>>, <<<<"twentieth">>, 20>>, <<<<"thirtieth">>, 30>>,
     <<<<"eleventh">>, 11>>, <<<<"seventh">>, 7>>, <<<<"twelfth">>, 12>>,
     <<<<"second">>, 2>>, <<<<"fourth">>, 4>>, <<<<"eighth">>, 8>>, <<<<"first">>, 1>>,
     <<<<"third">>, 3>>, <<<<"fifth">>, 5>>, <<<<"sixth">>, 6>>, <<<<"ninth">>, 9>>,
     <<<<"tenth">>, 10>> >>

-----------------------------------------------------------------------------
(* The calendar *)

Leap(y) == y % 4 = 0 /\ (y % 100 # 0 \/ y % 400 = 0)
MonthLength(y, m) == IF m = 2 THEN IF Leap(y) THEN 29 ELSE 28
                     ELSE IF m \in {4, 6, 9, 11} THEN 30 ELSE 31
DaysBefore(y, m) ==
  <<0, 31, 59, 90, 120, 151, 181, 212, 243, 273, 304, 334>>[m]
    + IF m > 2 /\ Leap(y) THEN 1 ELSE 0
\* A day as the number of days since the year 1; the first of them was a Monday.
DayNumber(y, m, d) ==
  365 * (y - 1) + (y - 1) \div 4 - (y - 1) \div 100 + (y - 1) \div 400 + DaysBefore(y, m) + d
Weekday(day) == (day - 1) % 7

\* The moments that a datetime can hold, to the minute.
Datetimes == {d \in [year : Nat \ {0}, month : 1..12, day : 1..31, minutes : 0..1439] :
                d.day <= MonthLength(d.year, d.month)}

Today == DayNumber(now.year, now.month, now.day)
Moment(day, clock) == [day |-> day, minutes |-> 60 * clock.hour + clock.minute]
Present == [day |-> Today, minutes |-> now.minutes]
Before(a, b) == a.day < b.day \/ (a.day = b.day /\ a.minutes < b.minutes)
Later(minutes) == [day |-> Today + (now.minutes + minutes) \div 1440,
                   minutes |-> (now.minutes + minutes) % 1440]

-----------------------------------------------------------------------------
(* The day *)

\* "in two hours": the words after "in".
DurationAt(t, i) ==
  /\ t[i] = "in"
  /\ After(t, i) \in {"a", "an"} \/ IsNumeral(After(t, i))
  /\ After(t, i + 1) \in {"hour", "hours", "minute", "minutes", "min", "mins", "day", "days"}
IsDuration(t) == \E i \in DOMAIN t : DurationAt(t, i)
DurationOf(n, unit) == (IF IsNumeral(n) THEN NumeralOf(n) ELSE 1)
  * CASE unit \in {"hour", "hours"} -> 60
      [] unit \in {"day", "days"} -> 1440
      [] OTHER -> 1
Duration(t) ==
  Later(LET i == CHOOSE k \in DOMAIN t : DurationAt(t, k) /\ \A j \in 1..(k - 1) : ~DurationAt(t, j)
        IN DurationOf(t[i + 1], t[i + 2]))

\* _MONTHS: the names before the short names.
ShortMonthSaid(i) == IF i = 0 THEN 0 ELSE ShortMonthNumbers[i]
MonthSaid(t) ==
  LET i == FirstSaid(t, MonthNames) IN
  IF i # 0 THEN i ELSE ShortMonthSaid(FirstSaid(t, ShortMonths))

\* The first number in digits, wherever it stands; failing that, an ordinal,
\* the longest first.  0: there is none.
NumberOfDay(w) == CASE IsNumeral(w) -> NumeralOf(w)
                    [] w \in DOMAIN NumericDays -> NumericDays[w]
                    [] w \in DOMAIN Colons -> Colons[w].hour
                    [] OTHER -> None
OrdinalSaid(t) == SelectInSeq(OrdinalsByLength,
  LAMBDA o : \E k \in DOMAIN t : IsPrefix(o[1], SubSeq(t, k, Len(t))))
DayOf(number, ordinal) ==
  IF number \in 1..31 THEN number
  ELSE IF ordinal # 0 THEN OrdinalsByLength[ordinal][2] ELSE 0
NumberAt(t, i) == IF i = 0 THEN 0 ELSE NumberOfDay(t[i])
DaySaid(t) ==
  DayOf(NumberAt(t, SelectInSeq(t, LAMBDA w : NumberOfDay(w) # None)), OrdinalSaid(t))

\* The date of a year, if that year has it.
DateIn(y, m, d) ==
  IF m = 0 \/ d = 0 \/ d > MonthLength(y, m) THEN None ELSE DayNumber(y, m, d)

\* Variant: the date of this year, even when it has passed.
AheadThisYear(day, next) == day

\* A date of this year, or of the next when it has passed.
Ahead(day, next) == IF day = None \/ day >= Today THEN day ELSE next

\* _parse_month_day
DateAhead(m, d) == Ahead(DateIn(now.year, m, d), DateIn(now.year + 1, m, d))
MonthDay(t) == DateAhead(MonthSaid(t), DaySaid(t))

\* _next_weekday: today counts, unless "next" was said.
NextWeekday(wd, force) ==
  LET ahead == (wd - 1 - Weekday(Today)) % 7 IN
  Today + IF force /\ ahead = 0 THEN 7 ELSE ahead
WeekdayAhead(wd, force) == IF wd = 0 THEN None ELSE NextWeekday(wd, force)
WeekdaySaid(t) == WeekdayAhead(FirstSaid(t, WeekdayNames), Said(t, "next"))

\* "this ", with a word after it.
ThisSaid(t) == \E i \in 1..(Len(t) - 1) : t[i] = "this"

-----------------------------------------------------------------------------
(* The clock *)

\* What a date takes up is dropped before the clock is looked for.
WithoutDate(t) ==
  IF MonthDay(t) = None THEN t
  ELSE SelectSeq(t, LAMBDA w : /\ w \notin ToSet(MonthNames) \cup ToSet(ShortMonths)
                               /\ w \notin OrdinalWords
                               /\ NumberOfDay(w) = None)

Afternoon(h, half) == IF half = "pm" /\ h # 12 THEN h + 12
                      ELSE IF half = "am" /\ h = 12 THEN 0 ELSE h
Half(w) == IF w \in {"am", "pm"} THEN w ELSE None

\* _CLOCK_RE and _resolve_clock: the first number that may be a clock.
HourOf(w) == CASE w \in DOMAIN Colons -> Colons[w].hour
               [] w \in DOMAIN Suffixed -> Suffixed[w].hour
               [] OTHER -> NumeralOf(w)
HalfOf(w, next) == IF w \in DOMAIN Suffixed THEN Suffixed[w].half ELSE Half(next)
ClockOf(w, h24, half) ==
  IF h24 > 23 THEN None
  ELSE [hour |-> h24, minute |-> IF w \in DOMAIN Colons THEN Colons[w].minute ELSE 0,
        sure |-> w \in DOMAIN Colons \/ half # None \/ h24 = 0 \/ h24 > 12]
ClockSaid(w, half) == ClockOf(w, Afternoon(HourOf(w), half), half)
ClockAt(t, i) == IF i = 0 THEN None ELSE ClockSaid(t[i], HalfOf(t[i], After(t, i)))
DigitClock(t) ==
  ClockAt(t, SelectInSeq(t, LAMBDA w : \/ IsNumeral(w)
                                       \/ w \in DOMAIN Colons \cup DOMAIN Suffixed))

\* _WORD_CLOCK_RE: the first hour in words.
WordClock(t) ==
  LET i == FirstIn(t, ToSet(HourNames)) IN
  IF i = 0 THEN None
  ELSE [hour |-> Afternoon(SelectInSeq(HourNames, LAMBDA n : n = t[i]), Half(After(t, i))),
        minute |-> 0]

PartNames == <<"morning", "afternoon", "evening", "night", "tonight", "noon", "midnight">>
PartHours == <<9, 15, 18, 20, 20, 12, 0>>
DayPart(t) == LET i == FirstSaid(t, PartNames) IN
              IF i = 0 THEN None ELSE [hour |-> PartHours[i], minute |-> 0]

-----------------------------------------------------------------------------
(* parse_spoken_datetime *)

DayNamed(t) ==
  IF Said(t, "tomorrow") THEN Today + 1
  ELSE IF Said(t, "today") \/ Said(t, "tonight") \/ ThisSaid(t) THEN Today
  ELSE Else(MonthDay(t), WeekdaySaid(t))

ClockNamed(rest) == Else(DigitClock(rest), WordClock(rest))
TimeNamed(t) == Else(ClockNamed(WithoutDate(t)), DayPart(t))

\* A clock without a day is the next one.
OnDay(day, clock) ==
  IF day # None THEN Moment(day, clock)
  ELSE IF Before(Present, Moment(Today, clock)) THEN Moment(Today, clock)
  ELSE Moment(Today + 1, clock)

\* A day without a clock is nine o'clock, but for a bare "today" or "this".
DayAlone(t) ==
  \/ Said(t, "tomorrow")
  \/ Said(t, "next")
  \/ MonthDay(t) # None
  \/ FirstSaid(t, WeekdayNames) # 0

MomentNamed(t, day, clock) ==
  IF clock # None THEN OnDay(day, clock)
  ELSE IF day # None /\ DayAlone(t) THEN Moment(day, [hour |-> 9, minute |-> 0])
  ELSE None
Parse(t) == IF IsDuration(t) THEN Duration(t) ELSE MomentNamed(t, DayNamed(t), TimeNamed(t))
ParseSpoken(text) == Parse(NormalizeTime(text))

-----------------------------------------------------------------------------
(* _extract_schedule_parts, for a schedule that is spoken across turns *)

DatePart(t) ==
  Else(MonthDay(t), IF Said(t, "tomorrow") THEN Today + 1
                    ELSE IF Said(t, "today") \/ Said(t, "tonight") THEN Today
                    ELSE WeekdaySaid(t))

\* A number counts only if it is clearly an hour.
SureClock(c, words) ==
  IF c # None /\ c.sure THEN [hour |-> c.hour, minute |-> c.minute] ELSE words
PartOf(rest) == SureClock(DigitClock(rest), WordClock(rest))

\* Variant: the digits of a date may be the hour.
TimePartOfAll(t) == PartOf(t)

TimePart(t) == PartOf(WithoutDate(t))

DateAndTime(t) == [date |-> DatePart(t), time |-> TimePart(t)]
ScheduleParts(text) == DateAndTime(NormalizeTime(text))
=============================================================================
