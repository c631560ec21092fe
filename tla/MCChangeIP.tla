------------------------------ MODULE MCChangeIP ------------------------------
(* Instances of ChangeIP for TLC.                                           *)
EXTENDS ChangeIP

CONSTANTS t1, t2, u1, r1, pauses, stops, refusals, hiddens, faults, kills

OneTask    == {t1}
TwoTasks   == {t1, t2}
OneConfig  == {u1}
OneRequest == {r1}
None       == {}

LastOnly == {MaxIPs}

MCBudget == [d \in Disturbances |->
    CASE d = "pause"  -> pauses
      [] d = "stop"   -> stops
      [] d = "refuse" -> refusals
      [] d = "hidden" -> hiddens
      [] d = "fault"  -> faults
      [] d = "kill"   -> kills]

=============================================================================
