---------------------------- MODULE ScheduleEngine ----------------------------
(***************************************************************************)
(* ScheduleEngine (src/src/scheduler/schedule_engine.cpp): schedules with  *)
(* a start time and quiet hours, and checkAndTrigger, which looks at the   *)
(* clock and retires what need not run again.  Times are minutes from      *)
(* midnight, -1 where the text is not a time of day; quiet hours may cross *)
(* midnight.  endTime, daysOfWeek and dayOfMonth are stored and not used.  *)
(***************************************************************************)
EXTENDS Integers, Sequences, Lists

CONSTANTS Day,            \* minutes in a day, 1440 in the code
          MaxSchedules,   \* bound: schedules at a time
          MaxScheduleId   \* bound: ids

NoTime == -1
Minutes == 0..(Day - 1)
Times == Minutes \cup {NoTime}

VARIABLES schedules, minute

scheduleVars == <<schedules, minute>>

Schedule == [type : {"one_time", "recurring"}, start : Times, quietStart : Times,
             quietEnd : Times, active : BOOLEAN]

WithId(s, id) == [id |-> id, type |-> s.type, start |-> s.start, active |-> s.active,
                  quietStart |-> s.quietStart, quietEnd |-> s.quietEnd]

\* Mutant form of WithinQuietHours: quiet hours that cross midnight are forgotten.
WithinOneDay(s) ==
  /\ s.quietStart # NoTime /\ s.quietEnd # NoTime
  /\ minute >= s.quietStart /\ minute < s.quietEnd

WithinQuietHours(s) ==
  /\ s.quietStart # NoTime /\ s.quietEnd # NoTime /\ s.quietStart # s.quietEnd
  /\ IF s.quietStart < s.quietEnd
     THEN minute >= s.quietStart /\ minute < s.quietEnd
     ELSE minute >= s.quietStart \/ minute < s.quietEnd

ShouldRun(s) ==
  /\ s.active /\ ~WithinQuietHours(s)
  /\ s.start # NoTime => minute >= s.start

-----------------------------------------------------------------------------
Init == schedules = <<>> /\ minute \in Minutes

\* One more than the last one's.
NextScheduleId == IF schedules = <<>> THEN 1 ELSE schedules[Len(schedules)].id + 1

AddSchedule(s) ==
  /\ Len(schedules) < MaxSchedules /\ NextScheduleId <= MaxScheduleId
  /\ schedules' = Append(schedules, WithId(s, NextScheduleId))
  /\ UNCHANGED minute

RemoveSchedule(i) ==
  /\ schedules' = Without(schedules, schedules[i].id)
  /\ UNCHANGED minute

\* updateSchedule keeps the id.
UpdateSchedule(i, s) ==
  /\ schedules' = [schedules EXCEPT ![i] = WithId(s, schedules[i].id)]
  /\ UNCHANGED minute

\* What runs stays active only if it is recurring.
CheckAndTrigger ==
  /\ schedules' = [i \in DOMAIN schedules |->
                     IF ShouldRun(schedules[i])
                     THEN [schedules[i] EXCEPT !.active = schedules[i].type = "recurring"]
                     ELSE schedules[i]]
  /\ UNCHANGED minute

\* The clock, midnight included.
TimePasses ==
  /\ minute' = (minute + 1) % Day
  /\ UNCHANGED schedules

Next ==
  \/ \E s \in Schedule : AddSchedule(s)
  \/ \E i \in DOMAIN schedules : RemoveSchedule(i) \/ \E s \in Schedule : UpdateSchedule(i, s)
  \/ CheckAndTrigger
  \/ TimePasses

-----------------------------------------------------------------------------
\* The minutes of the quiet hours, counted off from their start round the clock.
QuietMinutes(s) ==
  IF s.quietStart = NoTime \/ s.quietEnd = NoTime THEN {}
  ELSE {(s.quietStart + k) % Day : k \in 0..(((s.quietEnd - s.quietStart) % Day) - 1)}

\* A look at the clock retires an active schedule exactly if it is a one-time one,
\* its start has come, and it is not in its quiet hours, counted off round the clock
\* (checkAndTrigger with quiet hours across midnight, empty ones and unreadable
\* times).
QuietHoursKept ==
  [][CheckAndTrigger =>
       \A i \in DOMAIN schedules :
         schedules[i].active =>
           (~schedules'[i].active <=>
              /\ schedules[i].type = "one_time"
              /\ minute \notin QuietMinutes(schedules[i])
              /\ minute >= schedules[i].start)]_scheduleVars
=============================================================================
