-------------------------------- MODULE Cron --------------------------------
(***************************************************************************)
(* Calendar schedules (internal/schedule/schedule.go): what a five-field   *)
(* expression means, and the walk by which Next finds the first run after  *)
(* an instant in a zone whose clocks are put forward or back once.  The    *)
(* calendar is a small one: an instant is a number of minutes, an hour has *)
(* HourLength of them, a day DayLength hours, a week WeekLength days, a    *)
(* month MonthLength days.  Zone names, and words for months and days, are *)
(* left out.                                                               *)
(***************************************************************************)
EXTENDS Integers, FiniteSets

CONSTANTS
    HourLength, DayLength, WeekLength, MonthLength, YearMonths,
    Specs,           \* expressions
    Zones,           \* [before, after: offsets in minutes, at: the instant of the change]
    Starts,          \* the instants Next is asked from
    Reach            \* how far ahead Next looks (five years)

\* One item of a field: "*", a value or a range, each with or without a step.
Item == [star : BOOLEAN, from : Nat, to : Nat, step : Nat \ {0}, stepped : BOOLEAN]

\* A field is a list of items, and an expression five fields.
Spec5 == [minute : SUBSET Item, hour : SUBSET Item, dom : SUBSET Item,
          month : SUBSET Item, dow : SUBSET Item]

CronAssumption ==
    /\ {HourLength, DayLength, WeekLength, MonthLength, YearMonths, Reach} \subseteq Nat \ {0}
    /\ Specs \subseteq Spec5

VARIABLES
    zone,
    cron,            \* the parsed expression
    start,           \* the instant Next was called with
    t,               \* where the walk is, and the instant it returns
    walk,            \* walking, found (t is the answer), none (the zero time)
    passes           \* history: passes of its loop

vars == <<zone, cron, start, t, walk, passes>>

-----------------------------------------------------------------------------
\* parseField: the values an item stands for; a single value with a step runs
\* to the end of the field.
First(i, lo) == IF i.star THEN lo ELSE i.from
Last(i, hi) == IF i.star \/ (i.from = i.to /\ i.stepped) THEN hi ELSE i.to

ItemOk(i, lo, hi) == First(i, lo) >= lo /\ Last(i, hi) <= hi /\ First(i, lo) <= Last(i, hi)

FieldOk(f, lo, hi) == f # {} /\ \A i \in f : ItemOk(i, lo, hi)

ParseField(f, lo, hi) ==
    UNION {{v \in First(i, lo) .. Last(i, hi) : (v - First(i, lo)) % i.step = 0} : i \in f}

\* A field that is "*" or starts with "*/" (a list of one, here).
Star(f) == \E i \in f : f = {i} /\ i.star

ParseOk(x) ==
    /\ FieldOk(x.minute, 0, HourLength - 1) /\ FieldOk(x.hour, 0, DayLength - 1)
    /\ FieldOk(x.dom, 1, MonthLength) /\ FieldOk(x.month, 1, YearMonths)
    /\ FieldOk(x.dow, 0, WeekLength)

\* parseCron: the last day of the week is also its first.
ParseCron(x) ==
    [minute |-> ParseField(x.minute, 0, HourLength - 1),
     hour   |-> ParseField(x.hour, 0, DayLength - 1),
     dom    |-> ParseField(x.dom, 1, MonthLength),
     month  |-> ParseField(x.month, 1, YearMonths),
     dow    |-> {d % WeekLength : d \in ParseField(x.dow, 0, WeekLength)},
     domStar |-> Star(x.dom), dowStar |-> Star(x.dow)]

-----------------------------------------------------------------------------
\* The zone: the offset at an instant, the wall clock, and the instant the
\* library gives for a wall clock time.  Of a time that does not exist it
\* returns the one the offset on the other side of the change gives.
Offset(u) == IF u < zone.at THEN zone.before ELSE zone.after
Wall(u) == u + Offset(u)

Date(w) ==
    LET u == w - Offset(w)
    IN  IF (u < zone.at) = (w < zone.at) THEN u ELSE w - Offset(u)

WallDay == DayLength * HourLength
MinuteOf(w) == w % HourLength
HourOf(w) == (w \div HourLength) % DayLength
DayOf(w) == w \div WallDay
DomOf(w) == (DayOf(w) % MonthLength) + 1
MonthIndex(w) == DayOf(w) \div MonthLength
MonthOf(w) == (MonthIndex(w) % YearMonths) + 1

\* Either matches when both are restricted.
DayMatches(w) ==
    LET dom == DomOf(w) \in cron.dom
        dow == DayOf(w) % WeekLength \in cron.dow
    IN  IF ~cron.domStar /\ ~cron.dowStar THEN dom \/ dow ELSE dom /\ dow

FirstMinute == CHOOSE m \in cron.minute : \A o \in cron.minute : m <= o

-----------------------------------------------------------------------------
\* The walk, one action per branch of its loop.
Walking == walk = "walking"
Limit == start + 1 + Reach

GoTo(u, w) == t' = u /\ walk' = w /\ passes' = passes + 1 /\ UNCHANGED <<zone, cron, start>>
Pass(u) == GoTo(u, "walking")

MonthFits == MonthOf(Wall(t)) \in cron.month
DayFits == MonthFits /\ DayMatches(Wall(t))
HourFits == DayFits /\ HourOf(Wall(t)) \in cron.hour

SkipMonth ==
    /\ Walking /\ t < Limit /\ ~MonthFits
    /\ Pass(Date((MonthIndex(Wall(t)) + 1) * MonthLength * WallDay))

\* Mutant: a skipped day is left an hour late.
SkipDayAndAnHour ==
    /\ Walking /\ t < Limit /\ MonthFits /\ ~DayFits
    /\ Pass(Date((DayOf(Wall(t)) + 1) * WallDay) + HourLength)

SkipDay ==
    /\ Walking /\ t < Limit /\ MonthFits /\ ~DayFits
    /\ Pass(Date((DayOf(Wall(t)) + 1) * WallDay))

\* Mutant: the clock put back is not looked at.
NextWallHour == Date((Wall(t) \div HourLength + 1) * HourLength)

\* The next hour of the wall clock; when the clock was put back, of the day.
NextHour ==
    LET n == Date((Wall(t) \div HourLength + 1) * HourLength)
    IN  IF n > t THEN n ELSE ((t + HourLength) \div HourLength) * HourLength

\* The clocks were put forward over an hour the schedule names.
HourSkipped ==
    LET skipped == (HourOf(Wall(t)) + 1) % DayLength
    IN  /\ HourOf(Wall(NextHour)) # skipped
        /\ DayOf(Wall(NextHour)) = DayOf(Wall(t))
        /\ skipped \in cron.hour

SkipHour ==
    /\ Walking /\ t < Limit /\ DayFits /\ ~HourFits
    /\ ~HourSkipped
    /\ Pass(NextHour)

\* Such a slot runs right after the gap.
SpringForward ==
    /\ Walking /\ t < Limit /\ DayFits /\ ~HourFits
    /\ HourSkipped
    /\ GoTo(Date((Wall(NextHour) \div HourLength) * HourLength + FirstMinute), "found")

SkipMinute ==
    /\ Walking /\ t < Limit /\ HourFits /\ MinuteOf(Wall(t)) \notin cron.minute
    /\ Pass(t + 1)

Found ==
    /\ Walking /\ t < Limit /\ HourFits /\ MinuteOf(Wall(t)) \in cron.minute
    /\ GoTo(t, "found")

GiveUp == Walking /\ t >= Limit /\ GoTo(t, "none")

Init ==
    /\ zone \in Zones
    /\ start \in Starts
    /\ \E x \in Specs : ParseOk(x) /\ cron = ParseCron(x)
    /\ t = start + 1 /\ walk = "walking" /\ passes = 0

Next ==
    \/ SkipMonth \/ SkipDay \/ SkipHour \/ SpringForward
    \/ SkipMinute \/ Found \/ GiveUp

Spec == Init /\ [][Next]_vars

-----------------------------------------------------------------------------
\* What an expression means, of a wall clock time.
Matches(w) ==
    /\ MonthOf(w) \in cron.month
    /\ DayMatches(w)
    /\ HourOf(w) \in cron.hour
    /\ MinuteOf(w) \in cron.minute

\* The wall clock times the change skips, and whether an instant's is shown at
\* another one too.
Skipped == (zone.at + zone.before) .. (zone.at + zone.after - 1)
Twice(u) == \E d \in {zone.before - zone.after, zone.after - zone.before} :
               d # 0 /\ Wall(u + d) = Wall(u)

\* The instants of the hour after the change, when the schedule names a time
\* that it skips.
AfterTheJump == {u \in zone.at .. zone.at + HourLength - 1 : \E w \in Skipped : Matches(w)}

\* Next answers with an instant after the one it was asked from at which the
\* schedule is due, and leaves no due instant out that the clock shows once
\* (schedule.go:95).
NextIsFirstRun ==
    ~Walking =>
       /\ walk = "found" => t > start /\ (Matches(Wall(t)) \/ t \in AfterTheJump)
       /\ \A u \in start + 1 .. t - 1 : Matches(Wall(u)) => Twice(u)

\* Each pass of the walk goes forward in time ("walks forward in wall-clock
\* steps", schedule.go:237), so that the walk ends.
PassGoesForward == Walking' => t' > t

\* A slot inside a skipped hour runs once right after the jump
\* (docs/operations.md:83).
SkippedSlotRuns ==
    ~Walking /\ start + 1 < zone.at /\ zone.at + HourLength <= Limit /\ AfterTheJump # {} =>
       walk = "found" /\ t < zone.at + HourLength

=============================================================================
