------------------------------- MODULE Exclusive -------------------------------
(***************************************************************************)
(* What a page promises of an operation it must not start twice: each of a  *)
(* set of resources is free or has one operation under way, and a step      *)
(* starts or ends one operation.  The pages implement it with flags that    *)
(* block their buttons and are cleared by answers (see Frontend).           *)
(***************************************************************************)
EXTENDS Bags

CONSTANT Resources

VARIABLE underWay       \* underWay[r]: the operations resource r has, a bag

Free == [r \in Resources |-> EmptyBag]

IsSingle(B) == \E op \in BagToSet(B) : B = SetToBag({op})

Start(r) ==
    /\ underWay[r] = EmptyBag /\ IsSingle(underWay'[r])
    /\ underWay' = [underWay EXCEPT ![r] = underWay'[r]]

End(r) == IsSingle(underWay[r]) /\ underWay' = [underWay EXCEPT ![r] = EmptyBag]

Next == \E r \in Resources : Start(r) \/ End(r)

Spec == underWay = Free /\ [][Next]_underWay

=============================================================================
