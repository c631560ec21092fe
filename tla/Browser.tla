------------------------------- MODULE Browser -------------------------------
(***************************************************************************)
(* What the pages of the web frontend have in common: one page is mounted,  *)
(* its requests go through api/index.js, and their answers come back in     *)
(* any order, because a GET that fails is sent again up to three times with *)
(* growing delays (index.js:37-47) while the user goes on.                  *)
(*                                                                         *)
(* A page is a record whose field view names it; each page has a module     *)
(* part with an initial record and one action per handler.  What a list or  *)
(* a form field holds is abstracted to the key its data belongs to: the     *)
(* tenant, zone, instance or query it was loaded for.                       *)
(***************************************************************************)
EXTENDS Naturals, Bags

CONSTANTS
    Keys,       \* the tenants (accounts, zones, rows ...) the user can choose
    None,       \* nothing chosen, nothing loaded
    Clicks      \* bound: actions of the user and ticks of the timers on a page

ASSUME BrowserAssumption == None \notin Keys

VARIABLES
    page,       \* the state of the mounted page
    calls,      \* requests that are not settled yet, a bag
    clicks      \* observation: actions and ticks still to come

vars == <<page, calls, clicks>>

\* A request: what is asked, about which key, with which arguments.
Request(op, key, arg) == [op |-> op, key |-> key, arg |-> arg]

At(view) == page.view = view

Click(view) ==
    /\ At(view) /\ clicks > 0
    /\ clicks' = clicks - 1

\* The page is left: nothing more is done on it, what is in flight still arrives.
Leaves(view) ==
    /\ At(view) /\ clicks > 0
    /\ clicks' = 0

Sends(rs) == calls' = calls (+) SetToBag(rs)
SendsNothing == calls' = calls

\* r is settled, by an answer or by an error; its continuation sends rs.
SettledBy(view, r, rs) ==
    /\ At(view) /\ BagIn(r, calls)
    /\ calls' = (calls (-) SetToBag({r})) (+) SetToBag(rs)
    /\ clicks' = clicks

InFlight(op) == {r \in BagToSet(calls) : r.op = op}

\* The requests of ops that are in flight, each as often as it was sent.
Copies(ops) == [r \in UNION {InFlight(op) : op \in ops} |-> calls[r]]

\* The record of a page with fields of its own beside those of a part it shares.
With(own, part) ==
    [f \in DOMAIN own \cup DOMAIN part |-> IF f \in DOMAIN own THEN own[f] ELSE part[f]]

Opens(record) ==
    /\ page = record /\ clicks = Clicks[record.view]

=============================================================================
