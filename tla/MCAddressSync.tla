----------------------------- MODULE MCAddressSync -----------------------------
(* Instances of AddressSync for TLC.                                        *)
EXTENDS AddressSync

CONSTANTS t1, pauses, stops, refusals, hiddens, faults, kills

OneTask  == {t1}
None     == {}
LastOnly == {MaxIPs}

MCBudget == [d \in Disturbances |->
    CASE d = "pause"  -> pauses
      [] d = "stop"   -> stops
      [] d = "refuse" -> refusals
      [] d = "hidden" -> hiddens
      [] d = "fault"  -> faults
      [] d = "kill"   -> kills]

=============================================================================
