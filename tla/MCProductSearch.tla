-------------------------- MODULE MCProductSearch --------------------------
(* A small instance of ProductSearch.                                       *)
EXTENDS ProductSearch, TLC

CONSTANTS p1, p2
Symmetry == Permutations(Process)

\* The texts of a case, of the same case described anew, of a bag, and of what
\* is asked.
MCText == {"case", "case2", "bag", "asked"}

Case(text, price) == [text |-> text, shipsTo |-> {"US"}, currency |-> "CNY",
                      price |-> price, category |-> {"case", "cases"}]
Bag == [text |-> "bag", shipsTo |-> {"CN", "US"}, currency |-> "CNY", price |-> 1,
        category |-> {"bags"}]

\* A first release; the same with its model moved to an endpoint where its
\* vectors are longer; and one with another model, no reranker, the case
\* described anew and too expensive now, and the bag under a new id.
First == [url |-> "u", model |-> "m", reranker |-> TRUE,
          catalog |-> (1 :> Case("case", 3)) @@ (2 :> Bag)]
Moved == [First EXCEPT !.url = "w"]
Other == [url |-> "u", model |-> "n", reranker |-> FALSE,
          catalog |-> (1 :> Case("case2", 4)) @@ (3 :> Bag)]
MCRelease == {First, Moved, Other}
MCDimension == (<<"u", "m">> :> 1) @@ (<<"w", "m">> :> 2) @@ (<<"u", "n">> :> 1)

Close(t, u) == IF t = u THEN 2 ELSE IF "bag" \in {t, u} THEN 0 ELSE 1
MCSimilarity == [tu \in MCText \X MCText |-> Close(tu[1], tu[2])]
MCScore == 0..2

MCQuery == {[text |-> "asked", category |-> "case", shipTo |-> "US",
             currency |-> "CNY", priceMax |-> 3, topK |-> 1]}

\* Scores in and out of order, one index twice, and one answer too short for
\* two documents.
Item(i, s) == [index |-> i, score |-> s]
MCResponse == {<<Item(1, 1), Item(0, 2)>>, <<Item(0, 1), Item(1, 2)>>,
               <<Item(1, 1), Item(1, 2)>>, <<Item(0, 1)>>}

\* No collection, or one from before points had fingerprints.
Legacy == [vector |-> Embedding(First, "bag"), fingerprint |-> None]
MCInitially == {[size |-> None, points |-> << >>], [size |-> 1, points |-> 2 :> Legacy]}

=============================================================================
