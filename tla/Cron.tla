-------------------------------- MODULE Cron --------------------------------
(***************************************************************************)
(* Schedules (crates/beez-schedule): a crontab expression put in the form  *)
(* that the crate `cron` reads, and the fires of what it reads. The crate  *)
(* counts days of week from Sunday as 1, a crontab from Sunday as 0, and a *)
(* crontab that restricts both kinds of day means either of them.          *)
(*                                                                         *)
(* An expression is a sequence of fields, a field a sequence of terms, a   *)
(* term one day or a range of two, and a step or none (0). Instants count  *)
(* hours, of a calendar with short days and months.                        *)
(*                                                                         *)
(* A definition whose comment starts with "Mutant" is no part of the       *)
(* model: it is a mistake the definition after it could have, and shows    *)
(* that a property would notice.                                           *)
(***************************************************************************)
EXTENDS Integers, Sequences, SequencesExt

CONSTANTS Hours, Days,    \* the hours of a day, and the days of a month
          Horizon,        \* the last instant
          LIMIT,          \* the largest offset, in hours
          Word            \* the numbers an i32 can tell apart, in hours

SECONDS == 1
DAY_OF_MONTH == 4
DAY_OF_WEEK == 6

value(kind, n) == [kind |-> kind, n |-> n]
Star == <<[days |-> <<value("any", 0)>>, step |-> 0]>>
Zero == <<[days |-> <<value("number", 0)>>, step |-> 0]>>

NoFire == Horizon + 1
First(instants) == IF instants = {} THEN NoFire ELSE CHOOSE t \in instants : \A u \in instants : t <= u

-----------------------------------------------------------------------------
\* The crate `cron` (external): the values of a term, and the local instants
\* that an expression matches. A range that goes down is refused.

limits == <<<<0, 59>>, <<0, 59>>, <<0, Hours - 1>>, <<1, Days>>, <<1, 12>>, <<1, 7>>, <<0, 99>>>>
ends(term, position) ==
  LET any == term.days[1].kind = "any"
  IN  <<IF any THEN limits[position][1] ELSE term.days[1].n,
        IF any \/ (Len(term.days) = 1 /\ term.step # 0) THEN limits[position][2] ELSE Last(term.days).n>>
admits(field, position, n) ==
  \E i \in DOMAIN field :
    LET e == ends(field[i], position)
    IN  e[1] <= n /\ n <= e[2] /\ (field[i].step = 0 \/ (n - e[1]) % field[i].step = 0)
is_read(fields) ==
  \A p \in DOMAIN fields : \A i \in DOMAIN fields[p] :
    LET e == ends(fields[p][i], p)
    IN  /\ \A k \in DOMAIN fields[p][i].days : fields[p][i].days[k].kind # "odd"
        /\ limits[p][1] <= e[1] /\ e[1] <= e[2] /\ e[2] <= limits[p][2]

calendar(t) ==
  LET day == t \div Hours
  IN  <<0, 0, t % Hours, (day % Days) + 1, 1, (day % 7) + 1, day \div Days>>
parse(fields) ==
  {t \in (-LIMIT)..(Horizon + LIMIT) :
     LET now == calendar(t) IN \A p \in DOMAIN fields : admits(fields[p], p, now[p])}

-----------------------------------------------------------------------------
is_number(field) == Len(field) = 1 /\ Len(field[1].days) = 1 /\ field[1].step = 0 /\ field[1].days[1].kind = "number"
restricts(field) == field # Star

\* Both 0 and 7 are Sunday, which the parser counts as 1.
shift_day_of_week(day) == IF day.kind = "number" THEN value("number", (day.n % 7) + 1) ELSE day

shift_days_of_week(field) ==
  [i \in DOMAIN field |-> [field[i] EXCEPT !.days = [k \in DOMAIN @ |-> shift_day_of_week(@[k])]]]

\* A number that is no day of week is an error before it is shifted.
has_day_over_7(field) ==
  \E i \in DOMAIN field : \E k \in DOMAIN field[i].days : field[i].days[k].kind = "number" /\ field[i].days[k].n > 7

\* normalize: an error, or the fields that the parser reads.
normalize(fields) ==
  LET all == IF Len(fields) = 5 THEN <<Zero>> \o fields ELSE fields
  IN  IF Len(all) \notin {6, 7} THEN [error |-> "FieldCount", fields |-> <<>>]
      ELSE IF ~is_number(all[SECONDS]) THEN [error |-> "SubMinute", fields |-> <<>>]
      ELSE IF has_day_over_7(all[DAY_OF_WEEK]) THEN [error |-> "DayOfWeek", fields |-> <<>>]
      ELSE [error |-> "none", fields |-> [all EXCEPT ![DAY_OF_WEEK] = shift_days_of_week(@)]]

\* A macro goes to the parser as it is.
fields_of(expression) ==
  IF expression.macro THEN [error |-> "none", fields |-> expression.fields]
  ELSE IF expression.fields = <<>> THEN [error |-> "Empty", fields |-> <<>>]
  ELSE normalize(expression.fields)

Unread(error) == [error |-> error, offset |-> 0, primary |-> {}, alternate |-> {}]

\* Mutant: both fields stay in one schedule, and both must match.
new_both_days(expression, offset) ==
  LET normal == fields_of(expression)
  IN  IF normal.error # "none" THEN Unread(normal.error)
      ELSE IF ~is_read(normal.fields) THEN Unread("Expression")
      ELSE [error |-> "none", offset |-> offset, primary |-> parse(normal.fields), alternate |-> {}]

\* CronSchedule::new.
new(expression, offset) ==
  LET normal == fields_of(expression)
      fields == normal.fields
      either == ~expression.macro /\ restricts(fields[DAY_OF_MONTH]) /\ restricts(fields[DAY_OF_WEEK])
  IN  IF normal.error # "none" THEN Unread(normal.error)
      ELSE IF ~is_read(fields) THEN Unread("Expression")
      ELSE [error |-> "none", offset |-> offset,
            primary |-> parse(IF either THEN [fields EXCEPT ![DAY_OF_WEEK] = Star] ELSE fields),
            alternate |-> IF either THEN parse([fields EXCEPT ![DAY_OF_MONTH] = Star]) ELSE {}]

\* The first fire after an instant, of either half.
next_after(schedule, time) ==
  LET after(half) == First({t \in 0..Horizon : t > time /\ t + schedule.offset \in half})
  IN  First({after(schedule.primary), after(schedule.alternate)})

\* UtcOffset::from_str, in hours: [sign, hours] of a text, with sign 0 for a
\* text without one. A count that needs more than an i32 of seconds wraps
\* around, as it does in a release build.
wrap(n) == ((n + (Word \div 2)) % Word) - (Word \div 2)
from_str_offset(text) == text.sign * wrap(text.hours)
is_offset(text) == text.sign \in {1, -1} /\ text.hours >= 0 /\ from_str_offset(text) \in (-LIMIT)..LIMIT
=============================================================================
