---------------------------- MODULE EmailDelivery ----------------------------
(***************************************************************************)
(* What happens to an e-mail once a request handler has scheduled it: the   *)
(* background task EmailService._send_now, the limiter's counter in Redis, *)
(* the email_logs row and the attempts of retry_with_backoff.              *)
(***************************************************************************)
EXTENDS Naturals

CONSTANTS
    Mail,           \* messages
    Address,        \* recipients
    AddressOf,      \* the address of each message
    Limit,          \* EMAIL_MAX_PER_RECIPIENT_PER_HOUR
    MaxAttempts,    \* max_attempts of retry_with_backoff
    Faults,         \* which of "crash", "redis" and "database" happen
    Nil             \* no email_logs row

ASSUME Parameters ==
    /\ AddressOf \in [Mail -> Address]
    /\ Limit \in Nat \ {0} /\ MaxAttempts \in Nat \ {0}
    /\ Nil \notin {"queued", "sending", "sent", "failed"}

VARIABLES
    stage,      \* where the background task of each message is
    log,        \* status of the email_logs row of each message
    attempts,   \* attempts of the retry loop
    outcome,    \* how the last attempt ended
    accepted,   \* how often the provider took the message
    count,      \* the counter of each address, 0: no key
    expiring,   \* the addresses whose key has a time to live
    passed      \* messages the counter let through since the key was made

redis == <<count, expiring, passed>>
vars == <<stage, log, attempts, outcome, accepted, redis>>

Stage == {"new", "scheduled", "first", "allowed", "logged", "trying", "closing",
          "done", "lost"}
Outcome == {"none", "success", "transient", "permanent"}

TypeOK ==
    /\ stage \in [Mail -> Stage]
    /\ log \in [Mail -> {Nil, "queued", "sending", "sent", "failed"}]
    /\ attempts \in [Mail -> Nat]
    /\ outcome \in [Mail -> Outcome]
    /\ accepted \in [Mail -> Nat]
    /\ count \in [Address -> Nat] /\ expiring \subseteq Address
    /\ passed \in [Address -> Nat]

Init ==
    /\ stage = [m \in Mail |-> "new"]
    /\ log = [m \in Mail |-> Nil]
    /\ attempts = [m \in Mail |-> 0]
    /\ outcome = [m \in Mail |-> "none"]
    /\ accepted = [m \in Mail |-> 0]
    /\ count = [a \in Address |-> 0] /\ expiring = {}
    /\ passed = [a \in Address |-> 0]

MoveTo(m, s) == stage' = [stage EXCEPT ![m] = s]

-----------------------------------------------------------------------------
(* EmailService.send_template_in_background. *)
Schedule(m) ==
    /\ stage[m] = "new"
    /\ MoveTo(m, "scheduled")
    /\ UNCHANGED <<log, attempts, outcome, accepted, redis>>

(* Mutant of Increment: the limit is compared with the count before.          *)
IncrementLate(m) == LET a == AddressOf[m] IN
    /\ stage[m] = "scheduled"
    /\ count' = [count EXCEPT ![a] = @ + 1]
    /\ IF count[a] <= Limit
       THEN /\ passed' = [passed EXCEPT ![a] = @ + 1]
            /\ MoveTo(m, IF count[a] = 0 THEN "first" ELSE "allowed")
       ELSE MoveTo(m, "done") /\ UNCHANGED passed
    /\ UNCHANGED <<log, attempts, outcome, accepted, expiring>>

(* check_and_increment: INCR, and for the first of a window an EXPIRE that is *)
(* a command of its own.  A message over the limit is dropped unlogged.       *)
Increment(m) == LET a == AddressOf[m] IN
    /\ stage[m] = "scheduled"
    /\ count' = [count EXCEPT ![a] = @ + 1]
    /\ IF count'[a] <= Limit
       THEN /\ passed' = [passed EXCEPT ![a] = @ + 1]
            /\ MoveTo(m, IF count'[a] = 1 THEN "first" ELSE "allowed")
       ELSE MoveTo(m, "done") /\ UNCHANGED passed
    /\ UNCHANGED <<log, attempts, outcome, accepted, expiring>>

SetExpiry(m) ==
    /\ stage[m] = "first"
    /\ expiring' = expiring \cup {AddressOf[m]}
    /\ MoveTo(m, "allowed")
    /\ UNCHANGED <<log, attempts, outcome, accepted, count, passed>>

(* Redis does not answer the INCR, carried out or not, or the EXPIRE: fail open. *)
LimiterFails(m) == LET a == AddressOf[m] IN
    /\ "redis" \in Faults
    /\ \/ stage[m] \in {"scheduled", "first"} /\ UNCHANGED count
       \/ stage[m] = "scheduled" /\ count' = [count EXCEPT ![a] = @ + 1]
    /\ MoveTo(m, "allowed")
    /\ UNCHANGED <<log, attempts, outcome, accepted, expiring, passed>>

(* TemplateRenderer.render, and EmailDispatcher's first row and commit. *)
LogQueued(m) ==
    /\ stage[m] = "allowed"
    /\ log' = [log EXCEPT ![m] = "queued"]
    /\ MoveTo(m, "logged")
    /\ UNCHANGED <<attempts, outcome, accepted, redis>>

LogSending(m) ==
    /\ stage[m] = "logged"
    /\ log' = [log EXCEPT ![m] = "sending"]
    /\ MoveTo(m, "trying")
    /\ UNCHANGED <<attempts, outcome, accepted, redis>>

(* An error in rendering or in a commit is caught by _send_now: no more.  *)
SendFails(m) ==
    /\ stage[m] = "allowed" \/ ("database" \in Faults /\ stage[m] \in {"logged", "closing"})
    /\ MoveTo(m, "done")
    /\ UNCHANGED <<log, attempts, outcome, accepted, redis>>

(* Mutant of Attempt: the count starts again after the last attempt. *)
AttemptAfresh(m) == \E o \in Outcome \ {"none"} :
    /\ stage[m] = "trying"
    /\ attempts' = [attempts EXCEPT ![m] = (@ % MaxAttempts) + 1]
    /\ outcome' = [outcome EXCEPT ![m] = o]
    /\ accepted' = IF o = "success" THEN [accepted EXCEPT ![m] = @ + 1] ELSE accepted
    /\ MoveTo(m, IF o # "transient" THEN "closing" ELSE "trying")
    /\ UNCHANGED <<log, redis>>

(* The provider takes the message and says so, takes it before its answer is  *)
(* lost, or does not take it.                                                 *)
Send(m, o) ==
    \/ o # "permanent" /\ accepted' = [accepted EXCEPT ![m] = @ + 1]
    \/ o # "success" /\ UNCHANGED accepted

(* One turn of retry_with_backoff.  Only a ValueError is permanent: an attempt  *)
(* that the provider refuses for good counts as transient.                    *)
Attempt(m) == \E o \in Outcome \ {"none"} :
    /\ stage[m] = "trying"
    /\ attempts' = [attempts EXCEPT ![m] = @ + 1]
    /\ outcome' = [outcome EXCEPT ![m] = o]
    /\ Send(m, o)
    /\ MoveTo(m, IF o # "transient" \/ attempts'[m] = MaxAttempts THEN "closing" ELSE "trying")
    /\ UNCHANGED <<log, redis>>

(* Mutant of LogResult: only a permanent error is a failure. *)
LogResultHopeful(m) ==
    /\ stage[m] = "closing"
    /\ log' = [log EXCEPT ![m] = IF outcome[m] = "permanent" THEN "failed" ELSE "sent"]
    /\ MoveTo(m, "done")
    /\ UNCHANGED <<attempts, outcome, accepted, redis>>

(* EmailDispatcher's last commit. *)
LogResult(m) ==
    /\ stage[m] = "closing"
    /\ log' = [log EXCEPT ![m] = IF outcome[m] = "success" THEN "sent" ELSE "failed"]
    /\ MoveTo(m, "done")
    /\ UNCHANGED <<attempts, outcome, accepted, redis>>

(* The hour is over: Redis deletes the key. *)
WindowEnds(a) ==
    /\ a \in expiring
    /\ count' = [count EXCEPT ![a] = 0]
    /\ passed' = [passed EXCEPT ![a] = 0]
    /\ expiring' = expiring \ {a}
    /\ UNCHANGED <<stage, log, attempts, outcome, accepted>>

(* The backend process ends: background tasks live in its memory only. *)
Crash ==
    /\ "crash" \in Faults
    /\ stage' = [m \in Mail |-> IF stage[m] \in {"new", "done"} THEN stage[m] ELSE "lost"]
    /\ stage' # stage
    /\ UNCHANGED <<log, attempts, outcome, accepted, redis>>

Task(m) ==
    \/ Increment(m) \/ SetExpiry(m) \/ LimiterFails(m)
    \/ LogQueued(m) \/ LogSending(m) \/ SendFails(m)
    \/ Attempt(m) \/ LogResult(m)

Next ==
    \/ \E m \in Mail : Schedule(m) \/ Task(m)
    \/ \E a \in Address : WindowEnds(a)
    \/ Crash

Spec == Init /\ [][Next]_vars

(* The thread pool runs every background task it has been given. *)
FairSpec == Spec /\ \A m \in Mail : WF_vars(Task(m))

-----------------------------------------------------------------------------
(* Properties. *)

(* Nothing goes out without its row, whatever fails and whenever the process  *)
(* dies ("insert an email_logs row before attempting anything"), and a row    *)
(* says sent only of a message the provider took.                             *)
LogIsEvidence ==
    \A m \in Mail :
        /\ accepted[m] > 0 => log[m] \in {"sending", "sent", "failed"}
        /\ log[m] = "sent" => accepted[m] > 0

(* A lost answer is followed by another attempt, so a recipient may get a      *)
(* message more than once, but never more often than attempts were made, and  *)
(* the loop makes at most MaxAttempts.                                        *)
CopiesBounded ==
    \A m \in Mail : accepted[m] <= attempts[m] /\ attempts[m] <= MaxAttempts

(* While Redis answers, at most Limit messages to an address pass between the *)
(* making of its key and its expiry, however many tasks increment it at once. *)
LimitHolds == \A a \in Address : passed[a] <= Limit /\ passed[a] <= count[a]

(* Every background task ends, whatever fails: an outage of the provider does  *)
(* not keep a thread for ever.                                                *)
TasksEnd == \A m \in Mail : stage[m] = "scheduled" ~> stage[m] \in {"done", "lost"}

=============================================================================
