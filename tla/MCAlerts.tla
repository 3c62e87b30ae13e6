------------------------------- MODULE MCAlerts ------------------------------
EXTENDS Alerts, TLC

CONSTANTS d1

\* A keyed alert of a device, another one, and one that leaves both out.
MCScope == {[device |-> d1, type |-> "POLICY", key |-> "k1"],
            [device |-> d1, type |-> "POLICY", key |-> "k2"],
            [device |-> None, type |-> "POLICY", key |-> None]}

\* Requests in flight are interchangeable.
SlotSymmetry == Permutations(Slot)
=============================================================================
