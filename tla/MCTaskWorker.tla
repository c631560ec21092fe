---------------------------- MODULE MCTaskWorker ----------------------------
(* Instances of TaskWorker for TLC.                                         *)
EXTENDS TaskWorker, TLC

CONSTANTS r1, r2, r3, users, resumes, edits, panics, wpanics, faults, crashes, shutdowns

TwoRunners   == {r1, r2}
ThreeRunners == {r1, r2, r3}

MCBudget == [d \in Disturbances |->
    CASE d = "user"     -> users
      [] d = "resume"   -> resumes
      [] d = "edit"     -> edits
      [] d = "panic"    -> panics
      [] d = "wpanic"   -> wpanics
      [] d = "fault"    -> faults
      [] d = "crash"    -> crashes
      [] d = "shutdown" -> shutdowns]

\* Goroutines have no identity of their own.
RunnerSymmetry == Permutations(Runners)

=============================================================================
