-------------------------- MODULE MCResultDelivery --------------------------
EXTENDS ResultDelivery

CONSTANTS o1, o2, s

TheOwners == {o1, o2}
TheReaders == TheOwners \cup {s}
TheUnsteady == {o2}
=============================================================================
