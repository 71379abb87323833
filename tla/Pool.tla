---------------------------------- MODULE Pool ----------------------------------
(***************************************************************************)
(* What every request shares: the threads that run handlers and background *)
(* tasks, and the connections of the pool (config/database.py).             *)
(*                                                                         *)
(* A session takes a connection with the first statement of a transaction   *)
(* and gives it back with the commit or when it is closed; who finds none   *)
(* waits in its thread, for DB_POOL_TIMEOUT at most.  Between two           *)
(* dependencies a request has no thread, and keeps its connection.          *)
(***************************************************************************)
EXTENDS Naturals, FiniteSets

CONSTANTS
    Request,
    Threads,        \* threads for synchronous functions, one at least
    Capacity,       \* DB_POOL_SIZE + DB_MAX_OVERFLOW, one at least
    Transactions    \* bound: the transactions of a handler

VARIABLES
    early,      \* are sessions closed before the background tasks run?
    phase,      \* what each request is at
    kind,       \* "account" looks up the current user first, "probe" is /health/ready
    left,       \* the transactions that its handler has still to do
    held,       \* the requests whose session has a connection
    tasked,     \* the requests with a background task
    sending,    \* those whose task has a connection
    outcome,    \* what each request was answered
    late,       \* has a request or a task waited too long for a connection? (history)
    crowded     \* have there been more at once than the pool is good for? (history)

vars == <<early, phase, kind, left, held, tasked, sending, outcome, late, crowded>>

Waiting == {"guard", "call", "task"}
Running == {"guarding", "calling", "tasking"}
Phase == {"new"} \cup Waiting \cup Running \cup {"answering", "done"}

TypeOK ==
    /\ early \in BOOLEAN /\ crowded \in BOOLEAN
    /\ phase \in [Request -> Phase]
    /\ kind \in [Request -> {"account", "guest", "probe"}]
    /\ left \in [Request -> 0..Transactions]
    /\ held \cup tasked \cup sending \subseteq Request /\ late \in BOOLEAN
    /\ outcome \in [Request -> {"none", "ok", "refused", "unhealthy", "error"}]

(* Which release of the web framework is installed decides when a dependency *)
(* that yields is closed: requirements.txt names none.                       *)
Init ==
    /\ early \in BOOLEAN /\ crowded = FALSE
    /\ phase = [r \in Request |-> "new"] /\ kind = [r \in Request |-> "guest"]
    /\ left = [r \in Request |-> 0]
    /\ held = {} /\ tasked = {} /\ sending = {} /\ late = FALSE
    /\ outcome = [r \in Request |-> "none"]

Active == {r \in Request : phase[r] \notin {"new", "done"}}
FreeThread == Cardinality({r \in Request : phase[r] \in Running}) < Threads
FreeConnection == Cardinality(held) + Cardinality(sending) < Capacity

(* A request has one session, and its task a second one. *)
Need == IF early THEN 1 ELSE 2

Move(r, p) == phase' = [phase EXCEPT ![r] = p]

(* A request that is over leaves nothing behind but what it has not given back. *)
Over(r) ==
    /\ Move(r, "done")
    /\ kind' = [kind EXCEPT ![r] = "guest"] /\ left' = [left EXCEPT ![r] = 0]
    /\ outcome' = [outcome EXCEPT ![r] = "none"] /\ tasked' = tasked \ {r}

-----------------------------------------------------------------------------
Arrive(r) ==
    /\ phase[r] = "new"
    /\ \E k \in {"account", "guest", "probe"} :
        /\ kind' = [kind EXCEPT ![r] = k]
        /\ Move(r, IF k = "account" THEN "guard" ELSE "call")
    /\ left' \in {[left EXCEPT ![r] = n] : n \in 1..Transactions}
    /\ crowded' = (crowded \/ Need * (Cardinality(Active) + 1) > Capacity)
    /\ UNCHANGED <<early, held, tasked, sending, outcome, late>>

Enter(r) ==
    /\ phase[r] \in Waiting /\ FreeThread
    /\ Move(r, CASE phase[r] = "guard" -> "guarding" [] phase[r] = "call" -> "calling" [] OTHER -> "tasking")
    /\ UNCHANGED <<early, kind, left, held, tasked, sending, outcome, late, crowded>>

(* Has it a thread, and a statement to send without a connection? *)
Starved(r) ==
    \/ phase[r] \in {"guarding", "calling"} /\ left[r] > 0 /\ r \notin held
    \/ phase[r] = "tasking" /\ r \notin sending

Connect(r) ==
    /\ Starved(r) /\ FreeConnection
    /\ IF phase[r] = "tasking"
       THEN sending' = sending \cup {r} /\ UNCHANGED held
       ELSE held' = held \cup {r} /\ UNCHANGED sending
    /\ UNCHANGED <<early, phase, kind, left, tasked, outcome, late, crowded>>

(* get_current_user and require_staff; the transaction stays open. *)
Guarded(r) ==
    /\ phase[r] = "guarding" /\ r \in held
    /\ Move(r, "call")
    /\ UNCHANGED <<early, kind, left, held, tasked, sending, outcome, late, crowded>>

Commit(r) ==
    /\ phase[r] = "calling" /\ r \in held /\ left[r] > 0 /\ kind[r] # "probe"
    /\ left' = [left EXCEPT ![r] = @ - 1]
    /\ held' = held \ {r}
    /\ tasked' \in {tasked, tasked \cup {r}}
    /\ UNCHANGED <<early, phase, kind, sending, outcome, late, crowded>>

(* The thread is given back.  The tasks of a handler go with its answer: an *)
(* exception drops them.                                                    *)
End(r, result) ==
    /\ Move(r, "answering")
    /\ outcome' = [outcome EXCEPT ![r] = result]
    /\ tasked' = IF result = "ok" THEN tasked ELSE tasked \ {r}
    /\ UNCHANGED <<early, kind, left, held, sending, crowded>>

(* The last transaction is left open if it has only read. *)
Return(r) ==
    /\ phase[r] = "calling" /\ (left[r] = 0 \/ r \in held)
    /\ End(r, "ok")
    /\ UNCHANGED late

(* An HTTPException of a dependency or a handler. *)
Refuse(r) ==
    /\ phase[r] \in {"guarding", "calling"} /\ (left[r] = 0 \/ r \in held) /\ kind[r] # "probe"
    /\ End(r, "refused")
    /\ UNCHANGED late

(* Any other exception in them: the middleware answers 500. *)
Fail(r) ==
    /\ phase[r] \in {"guarding", "calling"} /\ kind[r] # "probe"
    /\ End(r, "error")
    /\ UNCHANGED late

(* Mutant of Close: a session that ended with an error is not closed. *)
CloseIfFine(r) == held' = IF outcome[r] = "error" THEN held ELSE held \ {r}

(* get_db *)
Close(r) == held' = held \ {r}

(* Mutant of TimeOut: the pool has no timeout. *)
WaitOn(r) == FALSE /\ Starved(r) /\ End(r, "error") /\ UNCHANGED late

(* QueuePool gives up: the readiness probe says 503, a task is over (_send_now *)
(* takes any exception for a failed e-mail), another request is answered 500. *)
TimeOut(r) ==
    /\ Starved(r) /\ ~FreeConnection
    /\ late' = TRUE
    /\ CASE phase[r] = "tasking" ->
              /\ Over(r) /\ Close(r)
              /\ UNCHANGED <<early, sending, crowded>>
         [] phase[r] # "tasking" /\ kind[r] = "probe" -> End(r, "unhealthy")
         [] OTHER -> End(r, "error")

(* The response is sent.  Its tasks follow. *)
Respond(r) ==
    /\ phase[r] = "answering"
    /\ IF r \in tasked THEN Move(r, "task") /\ UNCHANGED <<kind, left, outcome, tasked>> ELSE Over(r)
    /\ IF early \/ r \notin tasked THEN Close(r) ELSE UNCHANGED held
    /\ UNCHANGED <<early, sending, late, crowded>>

SendNow(r) ==
    /\ phase[r] = "tasking" /\ r \in sending
    /\ Over(r) /\ Close(r)
    /\ sending' = sending \ {r}
    /\ UNCHANGED <<early, late, crowded>>

Step(r) ==
    \/ Enter(r) \/ Connect(r) \/ Guarded(r) \/ Commit(r) \/ Return(r) \/ Refuse(r) \/ Fail(r)
    \/ TimeOut(r) \/ Respond(r) \/ SendNow(r)

Next == \E r \in Request : Arrive(r) \/ Step(r)

Spec == Init /\ [][Next]_vars

(* The loop and the threads go on; a wait for a connection ends. *)
LiveSpec == Spec /\ \A r \in Request : WF_vars(Step(r))

-----------------------------------------------------------------------------
(* Every connection comes back, however the request that had it ended, and  *)
(* nobody waits in vain for one while the requests under way, each with its *)
(* task, are no more than the pool is good for (get_db, _send_now).         *)
ConnectionsComeBack ==
    /\ held \cup sending \subseteq Active
    /\ late => crowded

(* Every request is answered and its task ends, although requests that have *)
(* a connection may wait for the threads of those who wait for one: the     *)
(* timeout of the pool ends that (create_engine).                           *)
RequestsServed == \A r \in Request : phase[r] # "new" ~> phase[r] = "done"
=============================================================================
