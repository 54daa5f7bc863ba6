---------------------------- MODULE MCReplyCache ----------------------------
(* Two buyers and three intents: alone, in two sessions of one buyer, in one *)
(* session, or of both buyers; similar, dissimilar and unsafe queries.       *)
EXTENDS ReplyCache, TLC

CONSTANTS c1, c2, c3, b1, b2, s1, s2, s3, s4, q1, q2, q3, q4, buy, wool, plastic, light

Owners == s1 :> b1 @@ s2 :> b1 @@ s3 :> b1 @@ s4 :> b2

Asked(sa, qa, sb, qb, sc, qc) ==
    c1 :> [session |-> sa, query |-> qa] @@ c2 :> [session |-> sb, query |-> qb] @@
    c3 :> [session |-> sc, query |-> qc]

Intents ==
    {Asked(s1, q1, s2, q2, s4, q1),      \* similar queries, and another buyer's
     Asked(s1, q1, s2, q3, s3, q4),      \* more queries than a bucket holds
     Asked(s1, q1, s1, q1, s2, buy),     \* a second turn, and an unsafe query
     Asked(s1, q1, s2, q1, s2, q3)}      \* one query in two sessions

Cosine == [pair \in Query \X Query |->
    IF pair[1] = pair[2] THEN 4
    ELSE IF pair \in {<<q1, q2>>, <<q2, q1>>} THEN 3
    ELSE IF pair \in {<<q1, buy>>, <<buy, q1>>} THEN 2
    ELSE 1]

\* The similar queries differ in the fifth digit only.
FourDigits == [n \in 0..One |-> IF n = 3 THEN 4 ELSE n]

Like(s) == [kind |-> "like", statement |-> s]
Dislike(s) == [kind |-> "dislike", statement |-> s]

Preferences == {Like(wool), Like(light), Dislike(plastic)}

AtFirst == {[b \in Buyer |-> <<Dislike(plastic), Like(wool)>>]}

=============================================================================
