------------------------------ MODULE Calendar ------------------------------
(***************************************************************************)
(* Time in quarters of an hour, and the slots the planner and the policy   *)
(* compute from it: contact hours, business days, the payday window.       *)
(* Moments are read off the clock of the default timezone, by which        *)
(* diagnosis and policy go; the planner goes by the merchant's clock,      *)
(* which is some quarters ahead of it or behind.  Clocks are not put       *)
(* forward or back for the summer.                                         *)
(***************************************************************************)
EXTENDS Integers, FiniteSets, FiniteSetsExt

CONSTANTS
    Cycle,              \* days after which the calendar repeats (the Gregorian: 146097)
    MonthDay,           \* MonthDay[d]: day of the month of day d; day 0 is a Monday
    Festivals           \* days of the festival calendar

\* months begin again and again, so that a payday is never forty days away
ASSUME CalendarShape ==
    /\ Cycle \in Nat \ {0}
    /\ MonthDay \in [0 .. Cycle - 1 -> 1 .. 31]
    /\ \A d \in 0 .. Cycle - 1 : \E k \in 1 .. 39 : MonthDay[(d + k) % Cycle] \in 1 .. 5
    /\ Festivals \subseteq Nat

Day == 96               \* quarters
Hour == 4
Week == 7 * Day

DayOf(t) == t \div Day
TimeOf(t) == t % Day
At(d, time) == d * Day + time

Opens == 8 * Hour       \* contact window, [08:00, 19:00)
Closes == 19 * Hour
Morning == 9 * Hour + 1 \* the slot of a payday retry, 09:15
PaydayOpens == 9 * Hour
PaydayCloses == 11 * Hour

Weekend(d) == d % 7 \in {5, 6}
Festival(d) == d \in Festivals
BusinessDay(d) == ~Weekend(d) /\ ~Festival(d)

DateOf(d) == MonthDay[d % Cycle]
Payday(d) == DateOf(d) \in 1 .. 5
PrePayday(d) == DateOf(d) \in 25 .. 31

InContactWindow(t) == TimeOf(t) >= Opens /\ TimeOf(t) < Closes

\* when contact is allowed again, for a time outside the window
NextContactWindow(t) ==
    At(IF TimeOf(t) < Opens THEN DayOf(t) ELSE DayOf(t) + 1, Opens)

\* the loop gives up after three weeks
NextBusinessMorning(t) ==
    LET slots == {At(d, Morning) : d \in {e \in DayOf(t) .. DayOf(t) + 20 : BusinessDay(e)}}
        ahead == {slot \in slots : slot >= t}
    IN  IF ahead = {} THEN At(DayOf(t) + 21, Morning) ELSE Min(ahead)

\* apply_business_window, where the date may move
BusinessWindow(t) ==
    IF ~BusinessDay(DayOf(t)) THEN NextBusinessMorning(t)
    ELSE IF TimeOf(t) < Opens THEN At(DayOf(t), Opens)
    ELSE IF TimeOf(t) >= Closes THEN NextBusinessMorning(At(DayOf(t) + 1, 0))
    ELSE t

InPaydayWindow(t) ==
    Payday(DayOf(t)) /\ TimeOf(t) >= PaydayOpens /\ TimeOf(t) < PaydayCloses

NextPaydaySlot(t) ==
    IF InPaydayWindow(t) THEN t
    ELSE Min({slot \in {At(d, Morning) : d \in {e \in DayOf(t) .. DayOf(t) + 39 : Payday(e)}} :
                 slot >= t})

\* (mutant of PaydaySlot: the slot is not looked for again)
PaydaySlotOnce(t) == BusinessWindow(NextPaydaySlot(t))

\* the business window may lead out of the payday days, and the next payday slot
\* out of the business days
PaydaySlot(t) == NextPaydaySlot(BusinessWindow(NextPaydaySlot(t)))

Later(s, t) == IF s >= t THEN s ELSE t

-----------------------------------------------------------------------------
(* The merchant's clock                                                    *)

\* from twelve hours behind UTC to fourteen ahead, for a default of UTC+5:30
Zones == -70 .. 34

ToLocal(t, ahead) == t + ahead
FromLocal(local, ahead) == local - ahead
=============================================================================
