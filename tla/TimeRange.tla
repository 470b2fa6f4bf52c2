----------------------------- MODULE TimeRange ------------------------------
(***************************************************************************)
(* The dates the page shows, files/graph.js: theCurrentDates and           *)
(* theOriginalDates, the time slider, automatic refresh and typed dates.   *)
(*                                                                         *)
(* They are one record, and what the handlers do to them are functions of  *)
(* it, since a handler often does several in a row.  Dates are integers.   *)
(* How often automatic refresh runs (theReloadInterval) is left out: its   *)
(* timer may fire at any time.                                             *)
(***************************************************************************)
EXTENDS Integers, Sequences

CONSTANTS
    Markers     \* the intervals of the slider's markers, from left to right

ASSUME MarkersAssumption == Markers \in Seq(Nat \ {0}) /\ Markers # <<>>

Span(dates) == dates.stop - dates.start

Indexes == 1 .. Len(Markers)

Dates == [start : Int, stop : Int]

TimeStates ==
    [original : Dates, current : Dates, index : Indexes, manual : BOOLEAN,
     auto : BOOLEAN, hidden : BOOLEAN]

restoreOriginalInterval(t) == [t EXCEPT !.current = t.original]

(* refresh() moves the window to now unless it was zoomed. *)
refresh(t, now) ==
    IF t.hidden \/ Span(t.current) # Span(t.original) THEN t
    ELSE [t EXCEPT !.current = [start |-> now - Span(t.current), stop |-> now]]

set_interval(t, i, now) ==
    refresh(restoreOriginalInterval([t EXCEPT !.original.start = t.original.stop - i]), now)

zoomOutIntervals(t, now) == refresh(restoreOriginalInterval(t), now)

zoomCallback(t, dates, now) == refresh([t EXCEPT !.current = dates], now)

(* TimeSlider.setIndex() and move(): the thumb moves, and the marker's     *)
(* action runs if the index is another one.                                *)
setIndex(t, index, now) ==
    LET moved == [t EXCEPT !.manual = FALSE]
    IN  [(IF index # t.index THEN set_interval(moved, Markers[index], now) ELSE moved)
            EXCEPT !.index = index]

(* refresh() was called on a visible page: every graph reloads. *)
SetIndexReloads(t, index) == index # t.index /\ ~ t.hidden

resetDateRange(t, dates) ==
    [restoreOriginalInterval([t EXCEPT !.original = dates]) EXCEPT !.manual = TRUE, !.auto = FALSE]

(* The part of openDashboard() after the graphs are there; slider is the   *)
(* index of a marker, or 0 for "manual".                                   *)
OpenDates(t, interval, slider, auto, now) ==
    LET opened == restoreOriginalInterval([t EXCEPT !.original.start = t.original.stop - interval])
    IN  [(IF slider = 0 THEN [opened EXCEPT !.manual = TRUE] ELSE setIndex(opened, slider, now))
            EXCEPT !.auto = auto]

-----------------------------------------------------------------------------
(* The dates that the user types.  A Date is then the number of its day,   *)
(* from January 1, 2019, on; months are counted from 0.  The hour and the  *)
(* minute, which are those of now unless they are typed, are left out.     *)

(* Months are counted on from January 2019. *)
Year(month) == 2019 + month \div 12

DaysIn(month) ==
    CASE month % 12 = 1 /\ Year(month) % 4 = 0 -> 29
      [] month % 12 = 1                        -> 28
      [] month % 12 \in {3, 5, 8, 10}          -> 30
      [] OTHER                                 -> 31

(* Days before a month, for three years. *)
Before[month \in 0 .. 36] == IF month = 0 THEN 0 ELSE Before[month - 1] + DaysIn(month - 1)

MonthOf(year, month) == 12 * (year - 2019) + month

(* A month past December is one of the next year, a day that the month     *)
(* does not have is one of the next month.                                 *)
MakeDay(year, month, day) == Before[MonthOf(year, month)] + day - 1

(* The year, month and day of a Date. *)
YearMonth(date) == CHOOSE month \in 0 .. 35 : Before[month] <= date /\ date < Before[month + 1]
getFullYear(date) == Year(YearMonth(date))
getMonth(date) == YearMonth(date) % 12
getDate(date) == date - Before[YearMonth(date)] + 1

setFullYear(date, year) == MakeDay(year, getMonth(date), getDate(date))
setMonth(date, month) == MakeDay(getFullYear(date), month, getDate(date))
setDate(date, day) == MakeDay(getFullYear(date), getMonth(date), day)

(* Slip: the months are counted from 1. *)
MutantParseDate(text, now) == setDate(setMonth(setFullYear(now, text.year), text.month), text.day)

(* A text of the form YYYY-MM-DD, set part by part on the present date. *)
parseDate(text, now) == setDate(setMonth(setFullYear(now, text.year), text.month - 1), text.day)

(* The day that is meant. *)
Meant(text) == MakeDay(text.year, text.month - 1, text.day)

(* The present day of the month is one that the month meant has: else      *)
(* setFullYear() or setMonth() goes on to the next month.                  *)
Fits(text, now) == getDate(now) <= DaysIn(MonthOf(text.year, text.month - 1))

=============================================================================
