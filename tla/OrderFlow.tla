------------------------------ MODULE OrderFlow ------------------------------
(***************************************************************************)
(* Quote requests, sourcing requests and the orders they are converted to: *)
(* QuoteRequestService, SourcingRequestService, OrderService and the       *)
(* controllers that call them.                                             *)
(*                                                                         *)
(* A staff handler SELECTs the row it is about, changes its ORM instance,  *)
(* and commits: without a lock, so other handlers commit in between.  The  *)
(* ORM writes an attribute only if the handler changed the value it read.  *)
(* The controller then refreshes the row, writes the audit_logs row in a   *)
(* SECOND transaction, and notifies.                                       *)
(***************************************************************************)
EXTENDS Naturals, FiniteSets, Functions

CONSTANTS
    Quote,      \* quote_requests ids
    Sourcing,   \* sourcing_requests ids
    Order,      \* orders ids
    Request,    \* the handlers that can be in flight at once
    Nil,        \* SQL NULL
    Used,       \* bound: the statuses staff pick from
    MaxActs,    \* bound: audited actions in all
    Faults      \* BOOLEAN: whether the server restarts and commits fail

Source == Quote \cup Sourcing
Entity == Source \cup Order

QuoteStatus == {"pending", "quoted", "closed"}
SourcingStatus == {"pending", "sourcing", "found", "closed"}
ShippingStatus == {"pending", "booked", "loaded", "departed", "arrived",
                   "customs_clearance", "delivered"}
PaymentStatus == {"pending_invoice", "invoiced", "paid"}
Statuses == QuoteStatus \cup SourcingStatus \cup ShippingStatus \cup PaymentStatus
Value == Statuses \cup {Nil}

ASSUME KindsAreApart ==
    /\ Quote \cap Sourcing = {} /\ Source \cap Order = {}
    /\ Nil \notin Entity \cup Statuses
    /\ IsFiniteSet(Request)      \* the threads of the pool
    /\ MaxActs \in Nat /\ Faults \in BOOLEAN

VARIABLES
    status,     \* status of a request, shipping_status of an order; Nil: no row
    routed,     \* the sourcing requests with a destination_country
    deleted,    \* the rows with deleted_at set
    source,     \* orders.quote_request_id or sourcing_request_id
    payment,    \* orders.payment_status
    detailed,   \* order_fulfillment_details rows of each order
    acts,       \* audited actions committed on each row
    audited,    \* audit_logs rows about each row
    lost,       \* audit_logs rows about each row that a fault prevented
    told,       \* the last status of each row its buyer was sent
    recent,     \* the rows whose notification key is still in Redis
    pc,         \* what each handler does next
    on,         \* the row it is about
    seen,       \* the value it read
    to          \* the value it writes or tells

tables == <<status, routed, deleted, source, payment, detailed>>
trail == <<acts, audited, lost, told, recent>>
handlers == <<pc, on, seen, to>>
vars == <<tables, trail, handlers>>

Step == {"idle", "quote", "source", "convert", "ship", "pay", "detail",
         "record", "announce", "found", "tell"}

Exists(e) == status[e] # Nil
Live(e) == Exists(e) /\ e \notin deleted          \* get_live, first_live
Converted(x) == \E o \in Order : source[o] = x

TypeOK ==
    /\ status \in [Entity -> Value]
    /\ routed \subseteq Sourcing /\ deleted \subseteq Entity
    /\ source \in [Order -> Source \cup {Nil}]
    /\ payment \in [Order -> PaymentStatus]
    /\ detailed \in [Order -> Nat]
    /\ acts \in [Entity -> Nat] /\ audited \in [Entity -> Nat]
    /\ lost \in [Entity -> Nat]
    /\ told \in [Entity -> Value] /\ recent \subseteq Entity
    /\ pc \in [Request -> Step]
    /\ on \in [Request -> Entity \cup {Nil}]
    /\ seen \in [Request -> Value] /\ to \in [Request -> Value]

Init ==
    /\ status = [e \in Entity |-> Nil]
    /\ routed = {} /\ deleted = {}
    /\ source = [o \in Order |-> Nil]
    /\ payment = [o \in Order |-> "pending_invoice"]
    /\ detailed = [o \in Order |-> 0]
    /\ acts = [e \in Entity |-> 0] /\ audited = [e \in Entity |-> 0]
    /\ lost = [e \in Entity |-> 0]
    /\ told = [e \in Entity |-> Nil] /\ recent = {}
    /\ pc = [r \in Request |-> "idle"]
    /\ on = [r \in Request |-> Nil]
    /\ seen = [r \in Request |-> Nil] /\ to = [r \in Request |-> Nil]

-----------------------------------------------------------------------------
(* Handlers. *)

Begin(r, step, e, old, new) ==
    /\ pc[r] = "idle"
    /\ pc' = [pc EXCEPT ![r] = step]
    /\ on' = [on EXCEPT ![r] = e]
    /\ seen' = [seen EXCEPT ![r] = old]
    /\ to' = [to EXCEPT ![r] = new]
    /\ UNCHANGED <<tables, trail>>

Finish(r) ==
    /\ pc' = [pc EXCEPT ![r] = "idle"]
    /\ on' = [on EXCEPT ![r] = Nil]
    /\ seen' = [seen EXCEPT ![r] = Nil]
    /\ to' = [to EXCEPT ![r] = Nil]

Spent == FoldFunction(+, 0, acts)

(* The first commit of an audited action on e, and what follows it. *)
Committed(r, e, next) ==
    /\ Spent < MaxActs
    /\ acts' = [acts EXCEPT ![e] = @ + 1]
    /\ pc' = [pc EXCEPT ![r] = next]
    /\ on' = [on EXCEPT ![r] = e]
    /\ UNCHANGED <<seen, to, audited, lost, told, recent>>

(* Flush: an attribute set to the value that was read is not written. *)
Flushed(e, old, new) == [status EXCEPT ![e] = IF new # old THEN new ELSE @]

(* QuoteRequestService.create, SourcingRequestService.create: one INSERT.      *)
Insert(x) == ~Exists(x) /\ status' = [status EXCEPT ![x] = "pending"]

(* The alert to the staff is left to the module Notifications. *)
SubmitQuote(r, q) ==
    /\ pc[r] = "idle"
    /\ Insert(q)
    /\ Committed(r, q, "record")
    /\ UNCHANGED <<routed, deleted, source, payment, detailed>>

(* A buyer may leave the destination out. *)
Routed(s) == routed' \in {routed, routed \cup {s}}

SubmitSourcing(r, s) ==
    /\ pc[r] = "idle"
    /\ Insert(s)
    /\ Routed(s)
    /\ Committed(r, s, "record")
    /\ UNCHANGED <<deleted, source, payment, detailed>>

(* QuoteRequestService.quote: a price for any live quote, whatever its status. *)
QuoteRead(r, q) ==
    /\ Live(q)
    /\ Begin(r, "quote", q, status[q], "quoted")

QuoteCommit(r) ==
    /\ pc[r] = "quote"
    /\ status' = Flushed(on[r], seen[r], to[r])
    /\ Committed(r, on[r], "announce")
    /\ UNCHANGED <<routed, deleted, source, payment, detailed>>

(* SourcingRequestService.update_status: any status after any other. *)
SourcingRead(r, s, v) ==
    /\ Live(s)
    /\ Begin(r, "source", s, status[s], v)

SourcingCommit(r) ==
    /\ pc[r] = "source"
    /\ status' = Flushed(on[r], seen[r], to[r])
    /\ Committed(r, on[r], "found")
    /\ UNCHANGED <<routed, deleted, source, payment, detailed>>

(* OrderService.create_from_quote and create_from_sourcing up to the commit:  *)
(* the request is live and has no order yet, and a sourcing request has a     *)
(* destination.                                                               *)
ConvertRead(r, x) ==
    /\ Live(x)
    /\ ~Converted(x)
    /\ x \in Sourcing => x \in routed
    /\ Begin(r, "convert", x, status[x], "closed")

(* Mutant of ConvertCommit: into a row that is already there. *)
ConvertCommitOver(r, o) ==
    /\ pc[r] = "convert"
    /\ ~Converted(on[r])
    /\ source' = [source EXCEPT ![o] = on[r]]
    /\ status' = [Flushed(on[r], seen[r], to[r]) EXCEPT ![o] = "pending"]
    /\ Committed(r, o, "record")
    /\ UNCHANGED <<routed, deleted, payment, detailed>>

(* INSERT the order and close the request in one transaction.  The unique     *)
(* index on the order's source admits one order per request...                *)
ConvertCommit(r, o) ==
    /\ pc[r] = "convert"
    /\ ~Exists(o)
    /\ ~Converted(on[r])
    /\ source' = [source EXCEPT ![o] = on[r]]
    /\ status' = [Flushed(on[r], seen[r], to[r]) EXCEPT ![o] = "pending"]
    /\ Committed(r, o, "record")
    /\ UNCHANGED <<routed, deleted, payment, detailed>>

(* ...and fails the transaction of a handler that lost the race. *)
ConvertConflict(r) ==
    /\ pc[r] = "convert"
    /\ Converted(on[r])
    /\ Finish(r)
    /\ UNCHANGED <<tables, trail>>

(* OrderService.update_shipping_status: any status after any other. *)
ShipRead(r, o, v) ==
    /\ Live(o)
    /\ Begin(r, "ship", o, status[o], v)

ShipCommit(r) ==
    /\ pc[r] = "ship"
    /\ status' = Flushed(on[r], seen[r], to[r])
    /\ Committed(r, on[r], "announce")
    /\ UNCHANGED <<routed, deleted, source, payment, detailed>>

(* OrderService.update_payment_status: any status after any other. *)
PayRead(r, o, v) ==
    /\ Live(o)
    /\ Begin(r, "pay", o, payment[o], v)

PayCommit(r) ==
    /\ pc[r] = "pay"
    /\ payment' = [payment EXCEPT ![on[r]] = IF to[r] # seen[r] THEN to[r] ELSE @]
    /\ Committed(r, on[r], "record")
    /\ UNCHANGED <<status, routed, deleted, source, detailed>>

(* OrderService.submit_fulfillment_details inserts the row it did not find,   *)
(* under a unique index on order_id, or updates the one it did; not audited.  *)
DetailRead(r, o) ==
    /\ Live(o)
    /\ detailed[o] = 0
    /\ Begin(r, "detail", o, Nil, Nil)

DetailCommit(r) ==
    /\ pc[r] = "detail"
    /\ detailed' = [detailed EXCEPT ![on[r]] = IF @ = 0 THEN 1 ELSE @]
    /\ Finish(r)
    /\ UNCHANGED <<status, routed, deleted, source, payment, trail>>

(* Mutant of Record: the audit row is written only with a notification. *)
RecordTold(r) ==
    /\ pc[r] \in {"record", "announce", "found"}
    /\ IF pc[r] = "announce" \/ (pc[r] = "found" /\ status[on[r]] = "found")
       THEN /\ audited' = [audited EXCEPT ![on[r]] = @ + 1]
            /\ pc' = [pc EXCEPT ![r] = "tell"]
            /\ to' = [to EXCEPT ![r] = status[on[r]]]
            /\ UNCHANGED <<on, seen>>
       ELSE Finish(r) /\ UNCHANGED audited
    /\ UNCHANGED <<tables, acts, lost, told, recent>>

(* The controller after the service call: db.refresh(row), Audit.record, a     *)
(* commit of its own, and for some actions a notification of the status the   *)
(* refreshed row has.                                                         *)
Record(r) ==
    /\ pc[r] \in {"record", "announce", "found"}
    /\ audited' = [audited EXCEPT ![on[r]] = @ + 1]
    /\ IF pc[r] = "announce" \/ (pc[r] = "found" /\ status[on[r]] = "found")
       THEN /\ pc' = [pc EXCEPT ![r] = "tell"]
            /\ to' = [to EXCEPT ![r] = status[on[r]]]
            /\ UNCHANGED <<on, seen>>
       ELSE Finish(r)
    /\ UNCHANGED <<tables, acts, lost, told, recent>>

(* The commit of the audit row fails: the handler ends in an error, and what   *)
(* the first commit wrote stays.                                              *)
AuditFails(r) ==
    /\ Faults
    /\ pc[r] \in {"record", "announce", "found"}
    /\ lost' = [lost EXCEPT ![on[r]] = @ + 1]
    /\ Finish(r)
    /\ UNCHANGED <<tables, acts, audited, told, recent>>

(* NotificationService.notify_buyer: the dispatcher drops what it has already  *)
(* sent about the row, whatever its status was, unless it cannot reach Redis. *)
Tell(r) ==
    /\ pc[r] = "tell"
    /\ \/ /\ on[r] \notin recent
          /\ told' = [told EXCEPT ![on[r]] = to[r]]
          /\ recent' = recent \cup {on[r]}
       \/ /\ on[r] \in recent
          /\ UNCHANGED <<told, recent>>
       \/ /\ Faults
          /\ told' = [told EXCEPT ![on[r]] = to[r]]
          /\ UNCHANGED recent
    /\ Finish(r)
    /\ UNCHANGED <<tables, acts, audited, lost>>

(* DISPATCH_IDEMPOTENCY_TTL_SECONDS are over. *)
KeyExpires(e) ==
    /\ e \in recent
    /\ recent' = recent \ {e}
    /\ UNCHANGED <<tables, acts, audited, lost, told, handlers>>

(* The handlers that have committed an action on e and not yet its audit row. *)
Owed(e) == {r \in Request : on[r] = e /\ pc[r] \in {"record", "announce", "found"}}

(* No endpoint sets deleted_at on these tables: an operator does. *)
SoftDelete(e) ==
    /\ Live(e)
    /\ deleted' = deleted \cup {e}
    /\ UNCHANGED <<status, routed, source, payment, detailed, trail, handlers>>

(* The server restarts: what is committed stays, handlers are gone. *)
Crash ==
    /\ Faults
    /\ \E r \in Request : pc[r] # "idle"
    /\ pc' = [r \in Request |-> "idle"]
    /\ on' = [r \in Request |-> Nil]
    /\ seen' = [r \in Request |-> Nil] /\ to' = [r \in Request |-> Nil]
    /\ lost' = [e \in Entity |-> lost[e] + Cardinality(Owed(e))]
    /\ UNCHANGED <<tables, acts, audited, told, recent>>

(* The payment endpoint. *)
UpdatePaymentStatus(r) ==
    \/ \E o \in Order, v \in Used \cap PaymentStatus : PayRead(r, o, v)
    \/ PayCommit(r)

Handler(r) ==
    \/ \E q \in Quote : SubmitQuote(r, q) \/ QuoteRead(r, q)
    \/ \E s \in Sourcing : SubmitSourcing(r, s)
    \/ \E s \in Sourcing, v \in Used \cap SourcingStatus : SourcingRead(r, s, v)
    \/ \E x \in Source : ConvertRead(r, x)
    \/ \E o \in Order, v \in Used \cap ShippingStatus : ShipRead(r, o, v)
    \/ UpdatePaymentStatus(r)
    \/ \E o \in Order : DetailRead(r, o) \/ ConvertCommit(r, o)
    \/ QuoteCommit(r) \/ SourcingCommit(r) \/ ConvertConflict(r)
    \/ ShipCommit(r) \/ DetailCommit(r)
    \/ Record(r) \/ AuditFails(r) \/ Tell(r)

Next ==
    \/ \E r \in Request : Handler(r)
    \/ \E e \in Entity : SoftDelete(e) \/ KeyExpires(e)
    \/ Crash

Spec == Init /\ [][Next]_vars

-----------------------------------------------------------------------------
(* Properties. *)

(* One order per request, although every handler checks before it inserts    *)
(* and several may have checked before the first insert (the check is         *)
(* _reject_if_converted, the guarantee the unique index).                     *)
OneOrderPerSource ==
    \A o, p \in Order : source[o] # Nil /\ source[o] = source[p] => o = p

(* The promise of order conversion, under any interleaving and any restart.   *)
Book == INSTANCE OrderBook WITH received <- {x \in Source : Exists(x)}, deal <- source
BookSpec == Book!Spec

(* Converting a quote closes it in the same transaction: whatever the handler *)
(* read and others wrote meanwhile, the order and the closed quote appear     *)
(* together (the ORM would not write a status the handler had read as closed). *)
QuoteClosesWithOrder ==
    [][\A o \in Order, q \in Quote :
          source[o] = Nil /\ source'[o] = q => status'[q] = "closed"]_vars

(* Conversion as a whole: what OrderBook promises, with the quote closed in   *)
(* the step that makes its order.                                             *)
ConversionKept == BookSpec /\ QuoteClosesWithOrder

(* Every audited action has its audit_logs row, or a handler still about to   *)
(* write it, and none has two: nothing but a fault between the two commits    *)
(* loses one ("one row per audited action").                                  *)
AuditBalances ==
    \A e \in Entity : acts[e] = audited[e] + Cardinality(Owed(e)) + lost[e]
=============================================================================
