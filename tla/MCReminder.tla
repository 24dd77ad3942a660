------------------------------- MODULE MCReminder -------------------------------
\* Two messages and two attempts: the turns of both re-arm the timer at a time,
\* or the second one while the job of the first is processed, fails or waits for
\* its retry; and the evening cron runs between any two steps.
EXTENDS Reminder
=============================================================================
