------------------------------ MODULE MCFrontend ------------------------------
(***************************************************************************)
(* The frontend with two keys and, for each page, as many actions of the    *)
(* user as it takes to overtake an answer on it and go on.                  *)
(***************************************************************************)
EXTENDS Frontend

\* Pages whose hazards take more, or fewer, actions than the others.
MCClicks == [view \in STRING |->
    CASE view \in {InstanceCreate, BatchCreate, Instances, Detail, AutoSync, Logs} -> 3
      [] view \in {TenantForm, TenantDetail, Cost,
                   SshKeys, Settings, MemTasks, SecurityRules, Vcns} -> 5
      [] view \in {Shell, Vnc, Traffic, Limits, MetricsDialog, Users, Metrics, Backup, AiChat} -> 6
      [] view = Home -> 1
      [] OTHER -> 4]

=============================================================================
