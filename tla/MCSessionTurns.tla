--------------------------- MODULE MCSessionTurns ---------------------------
(* Calls of handle_intent on one session: all but the last are b1's.        *)
EXTENDS SessionTurns, TLC

CONSTANTS c1, c2, c3, b1, b2, s1

TheSession == [c \in Call |-> s1]
OneStranger == [c \in Call |-> IF c = c3 THEN b2 ELSE b1]

=============================================================================
