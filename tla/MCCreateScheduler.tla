-------------------------- MODULE MCCreateScheduler --------------------------
(* Instances of CreateScheduler for TLC.                                    *)
EXTENDS CreateScheduler

CONSTANTS g1, g2, users, edits, refusals, hiddens, kills, faults

TwoSlots == {g1, g2}

OneSchedule == {1}

MCBudget == [d \in Disturbances |->
    CASE d = "user"   -> users
      [] d = "edit"   -> edits
      [] d = "refuse" -> refusals
      [] d = "hidden" -> hiddens
      [] d = "kill"   -> kills
      [] d = "fault"  -> faults]

=============================================================================
