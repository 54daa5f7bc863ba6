-------------------------- MODULE MCTaskDelivery --------------------------
(* TaskDelivery with the symmetries its safety runs may use.               *)
EXTENDS TaskDelivery, TLC

WorkerSymmetry == Permutations(Worker)

\* Tasks of one stream, payload kind and speed are interchangeable.
TaskSymmetry ==
    {p \in Permutations(Task) :
        \A t \in Task : /\ p[t] \in LargeTask <=> t \in LargeTask
                        /\ p[t] \in MalformedTask <=> t \in MalformedTask
                        /\ p[t] \in SlowTask <=> t \in SlowTask}

Symmetry == WorkerSymmetry \union TaskSymmetry

=============================================================================
