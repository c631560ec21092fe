---------------------------- MODULE BatchContract ----------------------------
(***************************************************************************)
(* What whoever submits a batch may rely on, whatever happens to the        *)
(* goroutines, the rows and the process: the instances are taken to OCI in  *)
(* order, a batch is reported completed when all of them were taken and not *)
(* before, nothing is taken for a batch that is reported completed, and an  *)
(* instance is taken again only against something that was lost.  A user    *)
(* who edits a batch, or something that starts a second goroutine for it,   *)
(* voids parts of this.                                                     *)
(***************************************************************************)
EXTENDS Integers

CONSTANTS
    Tasks,
    Items       \* the instances of a batch, from 0 on

VARIABLES
    taken,      \* taken[t][i]: how often instance i of t was taken to OCI
    again,      \* again[t]: how often an instance of t was taken again
    size,       \* size[t]: the number of instances t names
    completed,  \* the batches that are reported completed
    losses,     \* how many crashes, shutdowns and failed writes there were
    edited,     \* a user replaced a batch's payload
    rerun       \* something may have started a second goroutine for a batch

cvars == <<taken, again, size, completed, losses, edited, rerun>>

Init ==
    /\ taken = [t \in Tasks |-> [i \in Items |-> 0]]
    /\ again = [t \in Tasks |-> 0]
    /\ size = [t \in Tasks |-> 0]
    /\ completed = {}
    /\ losses = 0
    /\ ~edited /\ ~rerun

Submit(t) ==
    /\ size[t] = 0
    /\ size'[t] \in Nat \ {0}
    /\ size' = [size EXCEPT ![t] = size'[t]]
    /\ UNCHANGED <<taken, again, completed, losses, edited, rerun>>

\* In order, within the batch, and only while it is not reported completed.
Take(t, i) ==
    /\ edited \/ rerun \/ t \notin completed
    /\ edited \/ i < size[t]
    /\ \A j \in Items : j < i => taken[t][j] > 0
    /\ taken' = [taken EXCEPT ![t][i] = @ + 1]
    /\ UNCHANGED <<size, completed, losses, edited, rerun>>

TakeFirst(t, i) ==
    /\ taken[t][i] = 0
    /\ Take(t, i)
    /\ UNCHANGED again

TakeAgain(t, i) ==
    /\ taken[t][i] > 0
    /\ edited \/ rerun \/ again[t] < losses
    /\ Take(t, i)
    /\ again' = [again EXCEPT ![t] = @ + 1]

Report(t) ==
    /\ edited \/ \A i \in Items : i < size[t] => taken[t][i] > 0
    /\ completed' = completed \cup {t}
    /\ UNCHANGED <<taken, again, size, losses, edited, rerun>>

\* The row is written again, by a user or by a goroutine that is late.
Withdraw(t) ==
    /\ completed' = completed \ {t}
    /\ UNCHANGED <<taken, again, size, losses, edited, rerun>>

Lose ==
    /\ losses' = losses + 1
    /\ UNCHANGED <<taken, again, size, completed, edited, rerun>>

\* An edit, and what a goroutine writes back of the payload it still has.
Resize(t) ==
    /\ edited'
    /\ size'[t] \in Nat
    /\ size' = [size EXCEPT ![t] = size'[t]]
    /\ UNCHANGED <<taken, again, completed, losses, rerun>>

\* A user's resume, which withdraws what was reported, or a panic of the worker.
StartAgain ==
    /\ rerun'
    /\ completed' \subseteq completed
    /\ UNCHANGED <<taken, again, size, losses, edited>>

Next ==
    \/ \E t \in Tasks : Submit(t) \/ Report(t) \/ Withdraw(t) \/ Resize(t)
    \/ \E t \in Tasks, i \in Items : TakeFirst(t, i) \/ TakeAgain(t, i)
    \/ Lose
    \/ StartAgain

Spec == Init /\ [][Next]_cvars

=============================================================================
