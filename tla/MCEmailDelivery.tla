--------------------------- MODULE MCEmailDelivery ---------------------------
(* For TLC: EmailDelivery with messages to one address, since what is done for *)
(* two addresses shares nothing, and Pool.  A behaviour is of one or the other. *)
EXTENDS SharedPool

CONSTANT a1

VARIABLE scene

OneAddress == [m \in Mail |-> a1]

MCInit ==
    /\ Init /\ P!Init
    /\ scene \in {"mail", "pool"} /\ (scene = "mail" => early)

MCNext ==
    /\ UNCHANGED scene
    /\ \/ scene = "mail" /\ Next /\ UNCHANGED pool
       \/ scene = "pool" /\ P!Next /\ UNCHANGED vars

(* The thread pool runs what it has been given, and no wait is for ever. *)
MCSpec ==
    /\ MCInit /\ [][MCNext]_<<scene, vars, pool>>
    /\ \A m \in Mail : WF_vars(Task(m))
    /\ \A r \in Request : WF_pool(P!Step(r))
=============================================================================
