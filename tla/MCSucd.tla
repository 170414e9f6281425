------------------------------- MODULE MCSucd -------------------------------
\* Two administrators that may set quotas.  Alice calls again after her deadline.
EXTENDS Sucd

CONSTANTS alice, bob

MCAdmins == {alice, bob}
MCTwoOfAlice == [c \in Clients |-> IF c = alice THEN 2 ELSE 1]
MCFiles == {<<"limits", "comment", "limits">>}
MCOneEach == [c \in Clients |-> 1]
=============================================================================
