---- MODULE MCSchedule ----
EXTENDS Schedule

SmallBudget == [mishap |-> 1, activity |-> 1, call |-> 2]
====
