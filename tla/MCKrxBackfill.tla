---------------------------- MODULE MCKrxBackfill ----------------------------
\* Instances of KrxBackfill for TLC.
EXTENDS KrxBackfill

CONSTANTS v1, v2

\* All targets traded; another value of the first and the last one suspended.
Traded == [t \in Targets |-> v1]
Suspended == [t \in Targets |-> IF t = 1 THEN v2 ELSE Absent]

OneOffer == {Traded}
TwoOffers == {Traded, Suspended}
=============================================================================
