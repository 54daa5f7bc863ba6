---------------------- MODULE MCIdempotentSubmission ----------------------
(* Instances of IdempotentSubmission: r1 and r2 repeat one action of b1; r3  *)
(* is of another buyer and action, whose digest is the same.                *)
EXTENDS IdempotentSubmission

CONSTANTS r1, r2, r3, b1, b2, s1, s2, a1, a2, k1, k2

ThreeRequests == {r1, r2, r3}
TwoRequests == {r1, r2}

TwoBuyers == [r \in ThreeRequests |-> IF r = r3 THEN b2 ELSE b1]
OneBuyer == [r \in Request |-> b1]

\* One session throughout, or a generated one for the repetition.
OneSession == [r \in Request |-> s1]
OwnSession == [r \in Request |-> IF r = r1 THEN s1 ELSE s2]

OneAction == [r \in Request |-> a1]
TwoActions == [r \in ThreeRequests |-> IF r = r3 THEN a2 ELSE a1]

Colliding == [pair \in Buyer \X Action |->
    IF pair \in {<<b1, a1>>, <<b2, a2>>} THEN k1 ELSE k2]

=============================================================================
