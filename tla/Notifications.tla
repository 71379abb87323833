---------------------------- MODULE Notifications ----------------------------
(***************************************************************************)
(* The fan-out of a notification (Backend/app/Services/Notifications): the *)
(* request handler that tells the staff or a buyer, its deduplication key  *)
(* in Redis, the inbox rows, the e-mails it leaves to background tasks,    *)
(* and the inbox afterwards: reading, expiry, and the purge job.           *)
(*                                                                         *)
(* A handler runs in the thread pool and goes through its recipients one   *)
(* by one; each inbox row is a transaction of its own, and the e-mails are *)
(* sent only once the handler has answered, so what an error half way      *)
(* leaves behind differs from channel to channel.                          *)
(***************************************************************************)
EXTENDS Naturals, FiniteSets

CONSTANTS
    Call,       \* requests whose handlers notify somebody
    Entity,     \* quote requests, sourcing requests, buyback leads and orders
    Staff,      \* staff accounts
    Buyer,      \* buyer accounts
    Guest,      \* contacts without an account
    Type,       \* the notification types in use
    Switches,   \* pairs of an account and a channel it may switch off and on
    Aging,      \* accounts whose rows are kept until they expire
    BatchSize,  \* BATCH_SIZE of the purge
    Job         \* purge jobs that can run at once

Types == {"quote_request.received", "sourcing_request.received", "buyback_lead.received",
          "quote_request.quoted", "sourcing_request.sourced", "stock.shipment_update"}
Account == Staff \cup Buyer
Recipient == Account \cup Guest
Row == Call \X Recipient
Channel == {"in_app", "email"}

ASSUME Parameters ==
    /\ Type \subseteq Types
    /\ Staff \cap (Buyer \cup Guest) = {} /\ Buyer \cap Guest = {}
    /\ Switches \subseteq Account \X Channel /\ Aging \subseteq Account
    /\ BatchSize \in Nat \ {0} /\ IsFiniteSet(Row)

VARIABLES
    kind,       \* the notification type a handler sends
    about,      \* the entity it is about
    stage,      \* where the handler of each call is
    leg,        \* how far it has got with each recipient
    via,        \* the channels it has chosen for each recipient
    queue,      \* the recipients of the e-mails its BackgroundTasks hold
    marked,     \* the deduplication keys in Redis
    excused,    \* passes no key stands for: Redis was away, or the key has expired
    owner,      \* the contact of each entity
    off,        \* the switches that are off: notification_preferences
    inbox,      \* notifications.status of the row of each call and recipient
    expired,    \* rows past their expires_at
    job,        \* what each purge job does next
    batch       \* the rows it has selected

handlers == <<kind, about, stage, leg, via, queue>>
redis == <<marked, excused>>
rows == <<inbox, expired>>
jobs == <<job, batch>>
people == <<owner, off>>
vars == <<handlers, redis, people, rows, jobs>>

ToStaff(k) == k \in {"quote_request.received", "sourcing_request.received",
                     "buyback_lead.received"}

(* The requests whose handler confirms them to their contact by e-mail. *)
Confirmed(k) == k \in {"quote_request.received", "sourcing_request.received"}

(* default_channels of the registry. *)
DefaultChannels(k) ==
    CASE k = "quote_request.quoted" -> {"email"}
      [] k = "sourcing_request.sourced" -> {"in_app"}
      [] OTHER -> Channel

Leg == {"none", "waiting", "skipped", "passed", "chosen", "filed", "told"}
Passed == {"passed", "chosen", "filed", "told"}
Busy == {"passed", "chosen", "filed"}

(* The key of notify:{type}:{source entity}:{recipient}. *)
Key(c, r) == <<kind[c], about[c], r>>

TypeOK ==
    /\ kind \in [Call -> Type \cup {"none"}]
    /\ about \in [Call -> Entity]
    /\ stage \in [Call -> {"new", "running", "answered", "failed"}]
    /\ leg \in [Call -> [Recipient -> Leg]]
    /\ via \in [Call -> [Recipient -> SUBSET Channel]]
    /\ queue \in [Call -> SUBSET Recipient]
    /\ marked \subseteq Type \X Entity \X Recipient
    /\ excused \subseteq Row
    /\ owner \in [Entity -> Buyer \cup Guest]
    /\ off \subseteq Switches
    /\ inbox \in [Row -> {"none", "unread", "read", "gone"}]
    /\ expired \subseteq Row
    /\ job \in [Job -> {"idle", "select", "delete"}]
    /\ batch \in [Job -> SUBSET Row]

Init ==
    /\ kind = [c \in Call |-> "none"]
    /\ about \in [Call -> Entity]
    /\ stage = [c \in Call |-> "new"]
    /\ leg = [c \in Call |-> [r \in Recipient |-> "none"]]
    /\ via = [c \in Call |-> [r \in Recipient |-> {}]]
    /\ queue = [c \in Call |-> {}]
    /\ marked = {} /\ excused = {}
    /\ owner \in [Entity -> Buyer \cup Guest]
    /\ off = {}
    /\ inbox = [w \in Row |-> "none"]
    /\ expired = {}
    /\ job = [j \in Job |-> "idle"]
    /\ batch = [j \in Job |-> {}]

Move(c, r, where) == leg' = [leg EXCEPT ![c][r] = where]

-----------------------------------------------------------------------------
(* The handler, once its own change and the audit row are committed. *)

(* The confirmation is the first e-mail of the background tasks.  Then        *)
(* notify_staff asks for the accounts that are active now, or notify_buyer    *)
(* takes the contact of the entity.  An entity is received once.              *)
Begin(c, k) ==
    /\ stage[c] = "new"
    /\ ToStaff(k) => ~\E d \in Call : kind[d] = k /\ about[d] = about[c]
    /\ \E to \in IF ToStaff(k) THEN SUBSET Staff ELSE {{owner[about[c]]}} :
          leg' = [leg EXCEPT ![c] = [r \in Recipient |-> IF r \in to THEN "waiting" ELSE "none"]]
    /\ kind' = [kind EXCEPT ![c] = k]
    /\ stage' = [stage EXCEPT ![c] = "running"]
    /\ queue' = [queue EXCEPT ![c] = IF Confirmed(k) THEN {owner[about[c]]} ELSE {}]
    /\ UNCHANGED <<about, via, redis, people, rows, jobs>>

(* The loop of notify_staff turns to its next recipient. *)
Turn(c, r) ==
    /\ stage[c] = "running"
    /\ leg[c][r] = "waiting" /\ \A s \in Recipient : leg[c][s] \notin Busy

(* Mutant of Mark: SET without NX answers OK whatever was there. *)
MarkAlways(c) ==
    \E r \in Recipient :
        /\ Turn(c, r)
        /\ marked' = marked \cup {Key(c, r)}
        /\ Move(c, r, "passed")
        /\ UNCHANGED <<kind, about, stage, via, queue, excused, people, rows, jobs>>

(* check_and_mark: SET NX lets one handler through and skips the others. *)
Mark(c) ==
    \E r \in Recipient :
        /\ Turn(c, r)
        /\ IF Key(c, r) \in marked
              THEN Move(c, r, "skipped") /\ UNCHANGED marked
              ELSE Move(c, r, "passed") /\ marked' = marked \cup {Key(c, r)}
        /\ UNCHANGED <<kind, about, stage, via, queue, excused, people, rows, jobs>>

(* Redis is away, or its answer is: the handler goes on, whether or not the *)
(* key has been set.                                                        *)
MarkUnanswered(c) ==
    \E r \in Recipient :
        /\ Turn(c, r)
        /\ Move(c, r, "passed")
        /\ marked' \in {marked, marked \cup {Key(c, r)}}
        /\ excused' = excused \cup {<<c, r>>}
        /\ UNCHANGED <<kind, about, stage, via, queue, people, rows, jobs>>

(* resolve_channels: notify_staff passes the account on, whose preferences    *)
(* take channels away; notify_buyer passes nobody, and gets the defaults.     *)
Wanted(k, r) ==
    {ch \in DefaultChannels(k) : ToStaff(k) => <<r, ch>> \notin off}

Choose(c) ==
    \E r \in Recipient :
        /\ stage[c] = "running" /\ leg[c][r] = "passed"
        /\ via' = [via EXCEPT ![c][r] = Wanted(kind[c], r)]
        /\ Move(c, r, "chosen")
        /\ UNCHANGED <<kind, about, stage, queue, redis, people, rows, jobs>>

(* Whether DatabaseChannel has an inbox to write to. *)
Filing(c, r) == "in_app" \in via[c][r] /\ r \in Account

(* Mutant of File: a guest ends the dispatch. *)
FileOrStop(c) ==
    \E r \in Recipient :
        /\ stage[c] = "running" /\ leg[c][r] = "chosen"
        /\ inbox' = IF Filing(c, r) THEN [inbox EXCEPT ![<<c, r>>] = "unread"] ELSE inbox
        /\ Move(c, r, IF "in_app" \in via[c][r] /\ r \in Guest THEN "told" ELSE "filed")
        /\ UNCHANGED <<kind, about, stage, via, queue, redis, people, expired, jobs>>

(* DatabaseChannel.deliver commits the row; a guest has no inbox. *)
File(c) ==
    \E r \in Recipient :
        /\ stage[c] = "running" /\ leg[c][r] = "chosen"
        /\ inbox' = IF Filing(c, r) THEN [inbox EXCEPT ![<<c, r>>] = "unread"] ELSE inbox
        /\ Move(c, r, "filed")
        /\ UNCHANGED <<kind, about, stage, via, queue, redis, people, expired, jobs>>

(* EmailChannel.deliver leaves the e-mail to a background task. *)
Post(c) ==
    \E r \in Recipient :
        /\ stage[c] = "running" /\ leg[c][r] = "filed"
        /\ queue' = IF "email" \in via[c][r]
                       THEN [queue EXCEPT ![c] = @ \cup {r}] ELSE queue
        /\ Move(c, r, "told")
        /\ UNCHANGED <<kind, about, stage, via, redis, people, rows, jobs>>

(* The response goes out, and with it the background tasks. *)
Respond(c) ==
    /\ stage[c] = "running"
    /\ \A r \in Recipient : leg[c][r] \in {"none", "skipped", "told"}
    /\ stage' = [stage EXCEPT ![c] = "answered"]
    /\ UNCHANGED <<kind, about, leg, via, queue, redis, people, rows, jobs>>

(* A query fails: the reload of the next staff account (every commit expires *)
(* them), its preferences, the INSERT or the refresh of the row.  Nothing     *)
(* catches it: the caller gets a 500 and the background tasks are dropped.    *)
Fail(c) ==
    /\ stage[c] = "running"
    /\ \E r \in Recipient :
          \/ ToStaff(kind[c]) /\ leg[c][r] \in {"waiting", "passed"}
          \/ Filing(c, r) /\ leg[c][r] \in {"chosen", "filed"}
    /\ stage' = [stage EXCEPT ![c] = "failed"]
    /\ queue' = [queue EXCEPT ![c] = {}]
    /\ UNCHANGED <<kind, about, leg, via, redis, people, rows, jobs>>

KeyExpires(k) ==
    /\ k \in marked
    /\ marked' = marked \ {k}
    /\ excused' = excused \cup {w \in Row : leg[w[1]][w[2]] \in Passed /\ Key(w[1], w[2]) = k}
    /\ UNCHANGED <<handlers, people, rows, jobs>>

-----------------------------------------------------------------------------
(* The people: preferences and the inbox. *)

(* PATCH /notifications/preferences. *)
UpdatePreferences(w) ==
    /\ off' = IF w \in off THEN off \ {w} ELSE off \cup {w}
    /\ UNCHANGED <<handlers, redis, owner, rows, jobs>>

MarkRead(w) ==
    /\ inbox[w] = "unread"
    /\ inbox' = [inbox EXCEPT ![w] = "read"]
    /\ UNCHANGED <<handlers, redis, people, expired, jobs>>

MarkAllRead(u) ==
    /\ \E w \in Row : w[2] = u /\ inbox[w] = "unread"
    /\ inbox' = [w \in Row |-> IF w[2] = u /\ inbox[w] = "unread" THEN "read" ELSE inbox[w]]
    /\ UNCHANGED <<handlers, redis, people, expired, jobs>>

(* Retention is months, a handler takes seconds: its own has long ended. *)
Expire(w) ==
    /\ inbox[w] \in {"unread", "read"} /\ w \notin expired /\ w[2] \in Aging
    /\ stage[w[1]] # "running"
    /\ expired' = expired \cup {w}
    /\ UNCHANGED <<handlers, redis, people, inbox, jobs>>

PurgeBegins(j) ==
    /\ job[j] = "idle"
    /\ \E w \in Row : inbox[w] \in {"unread", "read"}
    /\ job' = [job EXCEPT ![j] = "select"]
    /\ UNCHANGED <<handlers, redis, people, rows, batch>>

(* Mutant of PurgeSelect: whatever has expired. *)
PurgeSelectExpired(j) ==
    /\ job[j] = "select"
    /\ LET old == {w \in expired : inbox[w] \in {"unread", "read"}} IN
          \E some \in SUBSET old :
             /\ Cardinality(some) <= BatchSize
             /\ some = old \/ Cardinality(some) = BatchSize
             /\ batch' = [batch EXCEPT ![j] = some]
             /\ job' = [job EXCEPT ![j] = IF some = {} THEN "idle" ELSE "delete"]
    /\ UNCHANGED <<handlers, redis, people, rows>>

(* purge_expired: SELECT ... LIMIT BATCH_SIZE of what was read and has expired. *)
PurgeSelect(j) ==
    /\ job[j] = "select"
    /\ LET old == {w \in expired : inbox[w] = "read"} IN
          \E some \in SUBSET old :
             /\ Cardinality(some) <= BatchSize
             /\ some = old \/ Cardinality(some) = BatchSize
             /\ batch' = [batch EXCEPT ![j] = some]
             /\ job' = [job EXCEPT ![j] = IF some = {} THEN "idle" ELSE "delete"]
    /\ UNCHANGED <<handlers, redis, people, rows>>

(* DELETE of the batch, and another round if the batch was full. *)
PurgeDelete(j) ==
    /\ job[j] = "delete"
    /\ inbox' = [w \in Row |-> IF w \in batch[j] THEN "gone" ELSE inbox[w]]
    /\ job' = [job EXCEPT ![j] = IF Cardinality(batch[j]) < BatchSize THEN "idle" ELSE "select"]
    /\ batch' = [batch EXCEPT ![j] = {}]
    /\ UNCHANGED <<handlers, redis, people, expired>>

(* A restart of the backend: open transactions and background tasks are gone, *)
(* committed rows and the keys in Redis stay.                                 *)
Crash ==
    /\ \E c \in Call : stage[c] = "running"
    /\ stage' = [c \in Call |-> IF stage[c] = "running" THEN "failed" ELSE stage[c]]
    /\ queue' = [c \in Call |-> IF stage[c] = "running" THEN {} ELSE queue[c]]
    /\ job' = [j \in Job |-> "idle"]
    /\ batch' = [j \in Job |-> {}]
    /\ UNCHANGED <<kind, about, leg, via, redis, people, rows>>

Handler(c) ==
    \/ Mark(c) \/ MarkUnanswered(c)
    \/ Choose(c) \/ File(c) \/ Post(c)
    \/ Respond(c) \/ Fail(c)

Next ==
    \/ \E c \in Call : Handler(c)
    \/ \E c \in Call, k \in Type : Begin(c, k)
    \/ \E k \in Type \X Entity \X Recipient : KeyExpires(k)
    \/ \E w \in Row : MarkRead(w) \/ Expire(w)
    \/ \E u \in Account : MarkAllRead(u)
    \/ \E w \in Switches : UpdatePreferences(w)
    \/ \E j \in Job : PurgeBegins(j) \/ PurgeSelect(j) \/ PurgeDelete(j)
    \/ Crash

Spec == Init /\ [][Next]_vars

-----------------------------------------------------------------------------
(* Properties. *)

(* Who answers without an error has told everybody: each recipient was either *)
(* skipped as a repetition, or has a row in the inbox and an e-mail among the *)
(* background tasks, as far as the chosen channels go and no further, and the *)
(* contact of a new request has the confirmation.                             *)
AnsweredInFull ==
    \A c \in Call : stage[c] = "answered" => \A r \in Recipient :
        /\ leg[c][r] \in {"none", "skipped", "told"}
        /\ r \in queue[c] <=> \/ leg[c][r] = "told" /\ "email" \in via[c][r]
                              \/ Confirmed(kind[c]) /\ r = owner[about[c]]
        /\ inbox[<<c, r>>] # "none" <=> leg[c][r] = "told" /\ Filing(c, r)

Same(c, d, r) == c # d /\ kind[c] # "none" /\ Key(c, r) = Key(d, r)

(* "no read-then-write gap for two concurrent triggers to race through": two *)
(* handlers notify a recipient of the same thing only if the key of one of   *)
(* them has expired or Redis did not answer it.                              *)
OncePerWindow ==
    \A c, d \in Call, r \in Recipient :
        Same(c, d, r) /\ leg[c][r] \in Passed /\ leg[d][r] \in Passed =>
            <<c, r>> \in excused \/ <<d, r>> \in excused

(* A recipient is skipped only if another handler took the same notification *)
(* upon itself: the key of one recipient or entity never silences another.   *)
SkippedForAnother ==
    \A c \in Call, r \in Recipient : leg[c][r] = "skipped" =>
        \E d \in Call : Same(c, d, r) /\ leg[d][r] \in Passed

(* The purge decides in one statement and deletes in another, while people   *)
(* read and other purges run: nothing unread or unexpired is ever deleted.   *)
PurgedWasRead ==
    [][\A w \in Row : inbox[w] # "gone" /\ inbox'[w] = "gone" =>
          inbox[w] = "read" /\ w \in expired]_vars

=============================================================================
