------------------------------- MODULE PayRun -------------------------------
(***************************************************************************)
(* A payroll run over a range of dates, the ranges the page offers and the *)
(* arrears (lib/payroll.ts, routes/payroll.ts,                             *)
(* models/PayrollAdjustment.ts): operators on the records day of one       *)
(* worker, a record or Null for each date, and on the arrears saved for    *)
(* ranges.  Dates are days since a Monday, day 0; money is whole rupees.   *)
(***************************************************************************)
EXTENDS AttendanceRecord, FiniteSetsExt

CONSTANTS
    OtMultiplier,
    FoodMinHours

-----------------------------------------------------------------------------
(* The ranges. *)

\* Faulty variant: Sunday opens the week that follows it.
DayOfSundayWeek(d) == IF d % 7 = 6 THEN -1 ELSE d % 7

\* 0 is Monday.
DayOfWeek(d) == d % 7

WeekBounds(d, offset) ==
    LET monday == d - DayOfWeek(d) + 7 * offset
    IN  [from |-> monday, to |-> monday + 6]

\* A preset, dates typed, or this week.
ResolveRange(today, monthStart, query) ==
    CASE query.preset = "last-week"  -> WeekBounds(today, -1)
      [] query.preset = "this-month" -> [from |-> monthStart, to |-> today]
      [] OTHER -> IF query.typed THEN [from |-> query.from, to |-> query.to]
                  ELSE WeekBounds(today, 0)

-----------------------------------------------------------------------------
(* The run. *)

\* Voided and rejected days are nobody's; an open one is only counted.
Considered(day, range) ==
    {d \in DOMAIN day : /\ d >= range.from /\ d <= range.to
                        /\ day[d] # Null
                        /\ ~ day[d].voided /\ day[d].attendanceStatus # "rejected"}

PaidDays(day, range) == {d \in Considered(day, range) : ~ IsOpen(day[d])}

\* Math.round(hours * wage / StandardHours * times), for what is not negative.
Rupees(hours, wage, times) ==
    (2 * hours * wage * times + StandardHours) \div (2 * StandardHours)

\* The arrears of exactly this range.
Arrears(adjustment, range) ==
    IF range \in DOMAIN adjustment THEN adjustment[range] ELSE 0

\* The form replaces what was saved for the range.
SaveArrears(adjustment, range, amount) ==
    [x \in DOMAIN adjustment \union {range} |-> IF x = range THEN amount ELSE adjustment[x]]

\* A worker with no day in the range, paid or open, has no row and no arrears.
ComputePayroll(day, adjustment, range, wage, foodRate) ==
    LET days      == PaidDays(day, range)
        normalHrs == SumFunction([d \in days |-> PaidDay(day[d]).normal])
        otHrs     == SumFunction([d \in days |-> PaidDay(day[d]).overtime])
        foodDays  == Cardinality({d \in days : PaidDay(day[d]).total >= FoodMinHours})
        arrears   == IF Considered(day, range) = {} THEN 0 ELSE Arrears(adjustment, range)
    IN  [days       |-> Cardinality(days),
         normalHrs  |-> normalHrs,
         otHrs      |-> otHrs,
         foodDays   |-> foodDays,
         unresolved |-> Cardinality(Considered(day, range) \ days),
         arrears    |-> arrears,
         gross      |-> Rupees(normalHrs, wage, 1) + Rupees(otHrs, wage, OtMultiplier)
                        + foodRate * foodDays + arrears]

\* The rupees the overtime waiting for a decision would cost: days voided or
\* rejected are in it where they are pending.
OtExposure(day, wage) ==
    LET waiting == {d \in DOMAIN day : day[d] # Null /\ day[d].overtime.status = "pending"}
    IN  Rupees(SumFunction([d \in waiting |-> day[d].overtime.computedHours]), wage, OtMultiplier)

=============================================================================
