----------------------------- MODULE MCCalendar -----------------------------
(***************************************************************************)
(* Values for the constants of Calendar.                                   *)
(***************************************************************************)
EXTENDS Calendar

\* 1970-01-01, 1972-02-28 and -29, 1999-02-28, 1999-12-31, 2000-02-28 and -29,
\* 2026-04-30, 2037-12-31
MCBootDays == {0, 788, 789, 10650, 10956, 11015, 11016, 20573, 24836}

\* the last seconds of the day, of an hour and of a minute, and noon
MCBootTimes == {DAY - 1, DAY - 2, 10 * HOUR - 1, 10 * HOUR - MINUTE - 1, 12 * HOUR}
=============================================================================
