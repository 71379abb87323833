--------------------------- MODULE OrderFlowProofs ---------------------------
(***************************************************************************)
(* Theorems about OrderFlow for every number of requests, orders, statuses *)
(* in use and concurrent handlers, with and without restarts.              *)
(***************************************************************************)
EXTENDS OrderFlow, FiniteSetTheorems, TLAPS

(* The row a handler holds is of the kind its step is about and still there. *)
HandlersHoldRows ==
    \A r \in Request :
        /\ pc[r] # "idle" => on[r] \in Entity
        /\ pc[r] = "quote" => on[r] \in Quote
        /\ pc[r] = "convert" => on[r] \in Source
        /\ pc[r] \in {"pay", "detail"} => on[r] \in Order
        /\ pc[r] \in {"quote", "source", "convert", "ship"} => Exists(on[r]) /\ to[r] # Nil
        /\ pc[r] = "pay" => to[r] \in PaymentStatus

(* An order that was not inserted has no source. *)
BlankOrders == \A o \in Order : ~Exists(o) => source[o] = Nil

(* OneOrderPerSource is inductive only together with BlankOrders: the insert  *)
(* takes an id that is free, so it overwrites no order.                       *)
IInv == TypeOK /\ HandlersHoldRows /\ BlankOrders /\ OneOrderPerSource

(* The values the column types are built from. *)
LEMMA Values ==
    /\ Nil \in Value /\ "pending" \in Value /\ "quoted" \in Value /\ "closed" \in Value
    /\ SourcingStatus \subseteq Value /\ ShippingStatus \subseteq Value
    /\ PaymentStatus \subseteq Value
    /\ Nil \notin SourcingStatus \cup ShippingStatus \cup PaymentStatus
    /\ "pending" # Nil /\ "quoted" # Nil /\ "closed" # Nil
BY KindsAreApart DEF Value, Statuses, QuoteStatus, SourcingStatus, ShippingStatus, PaymentStatus

LEMMA InitIInv == Init => IInv
BY KindsAreApart, Values DEF Init, IInv, TypeOK, HandlersHoldRows, BlankOrders,
   OneOrderPerSource, Exists, Entity, Source, Step, PaymentStatus

-----------------------------------------------------------------------------
(* What beginning and ending a handler does to the handlers' types. *)
HandlersTyped ==
    /\ pc \in [Request -> Step]
    /\ on \in [Request -> Entity \cup {Nil}]
    /\ seen \in [Request -> Value] /\ to \in [Request -> Value]

LEMMA BeginTyped ==
    ASSUME HandlersTyped, NEW r \in Request, NEW s \in Step, NEW e \in Entity,
           NEW v \in Value, NEW w \in Value, Begin(r, s, e, v, w)
    PROVE  HandlersTyped'
BY DEF HandlersTyped, Begin

LEMMA FinishTyped ==
    ASSUME HandlersTyped, NEW r \in Request, Finish(r)
    PROVE  HandlersTyped'
BY Values DEF HandlersTyped, Finish, Step

LEMMA CommittedTyped ==
    ASSUME HandlersTyped, acts \in [Entity -> Nat], NEW r \in Request, NEW e \in Entity,
           NEW n \in {"record", "announce", "found"}, Committed(r, e, n)
    PROVE  HandlersTyped' /\ acts' \in [Entity -> Nat] /\ UNCHANGED <<audited, lost, told, recent>>
BY DEF HandlersTyped, Committed, Step

(* Every step preserves the types. *)
LEMMA TypeStep == TypeOK /\ HandlersHoldRows /\ [Next]_vars => TypeOK'
<1> SUFFICES ASSUME TypeOK, HandlersHoldRows, [Next]_vars
             PROVE  TypeOK'
  OBVIOUS
<1>0. HandlersTyped /\ acts \in [Entity -> Nat]
  BY DEF TypeOK, HandlersTyped
<1> USE Values DEF Entity
<1>1. ASSUME NEW r \in Request, NEW q \in Quote, SubmitQuote(r, q)
      PROVE  TypeOK'
  <2>1. HandlersTyped' /\ acts' \in [Entity -> Nat] /\ UNCHANGED <<audited, lost, told, recent>>
    BY <1>0, <1>1, CommittedTyped DEF SubmitQuote, Insert, Source
  <2> QED
    BY <1>1, <2>1 DEF SubmitQuote, Insert, TypeOK, HandlersTyped, Source
<1>2. ASSUME NEW r \in Request, NEW s \in Sourcing, SubmitSourcing(r, s)
      PROVE  TypeOK'
  <2>1. HandlersTyped' /\ acts' \in [Entity -> Nat] /\ UNCHANGED <<audited, lost, told, recent>>
    BY <1>0, <1>2, CommittedTyped DEF SubmitSourcing, Routed, Insert, Source
  <2> QED
    BY <1>2, <2>1 DEF SubmitSourcing, Routed, Insert, TypeOK, HandlersTyped, Source
<1>3. ASSUME NEW r \in Request, NEW e \in Entity, NEW s \in Step, NEW v \in Value, NEW w \in Value,
             Begin(r, s, e, v, w)
      PROVE  TypeOK'
  <2>1. HandlersTyped'
    BY <1>0, <1>3, BeginTyped
  <2> QED
    BY <1>3, <2>1 DEF Begin, TypeOK, HandlersTyped, tables, trail
<1>4. ASSUME NEW r \in Request, NEW q \in Quote, QuoteRead(r, q)
      PROVE  TypeOK'
  BY <1>3, <1>4 DEF QuoteRead, TypeOK, Step, Source
<1>5. ASSUME NEW r \in Request, NEW s \in Sourcing, NEW v \in SourcingStatus, SourcingRead(r, s, v)
      PROVE  TypeOK'
  BY <1>3, <1>5 DEF SourcingRead, TypeOK, Step, Source
<1>6. ASSUME NEW r \in Request, NEW x \in Source, ConvertRead(r, x)
      PROVE  TypeOK'
  BY <1>3, <1>6 DEF ConvertRead, TypeOK, Step
<1>7. ASSUME NEW r \in Request, NEW o \in Order, NEW v \in ShippingStatus, ShipRead(r, o, v)
      PROVE  TypeOK'
  BY <1>3, <1>7 DEF ShipRead, TypeOK, Step
<1>8. ASSUME NEW r \in Request, NEW o \in Order, NEW v \in PaymentStatus, PayRead(r, o, v)
      PROVE  TypeOK'
  <2>1. payment[o] \in Value
    BY DEF TypeOK
  <2> QED
    BY <1>3, <1>8, <2>1 DEF PayRead, Step
<1>9. ASSUME NEW r \in Request, NEW o \in Order, DetailRead(r, o)
      PROVE  TypeOK'
  BY <1>3, <1>9 DEF DetailRead, Step
<1>10. ASSUME NEW r \in Request, QuoteCommit(r) \/ SourcingCommit(r) \/ ShipCommit(r)
       PROVE  TypeOK'
  <2>1. on[r] \in Entity /\ (QuoteCommit(r) => on[r] \in Quote)
    BY <1>10 DEF QuoteCommit, SourcingCommit, ShipCommit, HandlersHoldRows
  <2>2. HandlersTyped' /\ acts' \in [Entity -> Nat] /\ UNCHANGED <<audited, lost, told, recent>>
    BY <1>0, <1>10, <2>1, CommittedTyped DEF QuoteCommit, SourcingCommit, ShipCommit
  <2>3. status' \in [Entity -> Value]
    BY <1>10 DEF QuoteCommit, SourcingCommit, ShipCommit, Flushed, TypeOK
  <2> QED
    BY <1>10, <2>1, <2>2, <2>3 DEF QuoteCommit, SourcingCommit, ShipCommit, TypeOK, HandlersTyped
<1>11. ASSUME NEW r \in Request, NEW o \in Order, ConvertCommit(r, o)
       PROVE  TypeOK'
  <2>1. on[r] \in Source
    BY <1>11 DEF ConvertCommit, HandlersHoldRows
  <2>2. HandlersTyped' /\ acts' \in [Entity -> Nat] /\ UNCHANGED <<audited, lost, told, recent>>
    BY <1>0, <1>11, CommittedTyped DEF ConvertCommit
  <2>3. status' \in [Entity -> Value]
    BY <1>11 DEF ConvertCommit, Flushed, TypeOK
  <2> QED
    BY <1>11, <2>1, <2>2, <2>3 DEF ConvertCommit, TypeOK, HandlersTyped
<1>12. ASSUME NEW r \in Request, ConvertConflict(r)
       PROVE  TypeOK'
  BY <1>0, <1>12, FinishTyped DEF ConvertConflict, TypeOK, HandlersTyped, tables, trail
<1>13. ASSUME NEW r \in Request, PayCommit(r)
       PROVE  TypeOK'
  <2>1. on[r] \in Order /\ to[r] \in PaymentStatus
    BY <1>13 DEF PayCommit, HandlersHoldRows
  <2>2. HandlersTyped' /\ acts' \in [Entity -> Nat] /\ UNCHANGED <<audited, lost, told, recent>>
    BY <1>0, <1>13, <2>1, CommittedTyped DEF PayCommit
  <2> QED
    BY <1>13, <2>1, <2>2 DEF PayCommit, TypeOK, HandlersTyped
<1>14. ASSUME NEW r \in Request, DetailCommit(r)
       PROVE  TypeOK'
  BY <1>0, <1>14, FinishTyped DEF DetailCommit, TypeOK, HandlersTyped, trail
<1>15. ASSUME NEW r \in Request, Record(r)
       PROVE  TypeOK'
  <2>1. HandlersTyped'
    <3>1. CASE Finish(r)
      BY <1>0, <3>1, FinishTyped
    <3>2. CASE /\ pc' = [pc EXCEPT ![r] = "tell"] /\ to' = [to EXCEPT ![r] = status[on[r]]]
               /\ UNCHANGED <<on, seen>>
      <4>1. on[r] \in Entity
        BY <1>15 DEF Record, HandlersHoldRows
      <4> QED
        BY <3>2, <4>1 DEF HandlersTyped, TypeOK, Step
    <3> QED
      BY <1>15, <3>1, <3>2 DEF Record
  <2>2. on[r] \in Entity
    BY <1>15 DEF Record, HandlersHoldRows
  <2>3. audited' \in [Entity -> Nat]
    BY <1>15, <2>2 DEF Record, TypeOK
  <2> QED
    BY <1>15, <2>1, <2>3 DEF Record, TypeOK, HandlersTyped, tables
<1>16. ASSUME NEW r \in Request, Tell(r)
       PROVE  TypeOK'
  <2>1. on[r] \in Entity /\ to[r] \in Value
    BY <1>16 DEF Tell, HandlersHoldRows, TypeOK
  <2>2. told' \in [Entity -> Value] /\ recent' \subseteq Entity
    BY <1>16, <2>1 DEF Tell, TypeOK
  <2> QED
    BY <1>0, <1>16, <2>2, FinishTyped DEF Tell, TypeOK, HandlersTyped, tables
<1>17. ASSUME NEW e \in Entity, SoftDelete(e) \/ KeyExpires(e)
       PROVE  TypeOK'
  BY <1>17 DEF SoftDelete, KeyExpires, TypeOK, tables, trail, handlers
<1>18. CASE Crash
  <2>1. \A e \in Entity : Cardinality(Owed(e)) \in Nat
    BY KindsAreApart, FS_Subset, FS_CardinalityType DEF Owed
  <2>2. lost' \in [Entity -> Nat]
    BY <1>18, <2>1 DEF Crash, TypeOK
  <2> QED
    BY <1>18, <2>2 DEF Crash, TypeOK, tables, Step
<1>19. CASE UNCHANGED vars
  BY <1>19 DEF vars, tables, trail, handlers, TypeOK
<1>20. ASSUME NEW r \in Request, AuditFails(r)
       PROVE  TypeOK'
  <2>1. on[r] \in Entity
    BY <1>20 DEF AuditFails, HandlersHoldRows
  <2>2. lost' \in [Entity -> Nat]
    BY <1>20, <2>1 DEF AuditFails, TypeOK
  <2> QED
    BY <1>0, <1>20, <2>2, FinishTyped DEF AuditFails, TypeOK, HandlersTyped, tables
<1> QED
  BY <1>1, <1>2, <1>4, <1>5, <1>6, <1>7, <1>8, <1>9, <1>10, <1>11, <1>12, <1>13, <1>14,
     <1>15, <1>16, <1>17, <1>18, <1>19, <1>20 DEF Next, Handler, UpdatePaymentStatus

-----------------------------------------------------------------------------
(* A row that is there stays there: no step writes NULL into a status. *)
LEMMA RowsStay ==
    ASSUME IInv, [Next]_vars, NEW e \in Entity, Exists(e)
    PROVE  Exists(e)'
<1> USE KindsAreApart, Values DEF IInv, TypeOK, Exists, Entity
<1>1. ASSUME NEW r \in Request, QuoteCommit(r) \/ SourcingCommit(r) \/ ShipCommit(r)
      PROVE  Exists(e)'
  BY <1>1 DEF QuoteCommit, SourcingCommit, ShipCommit, Flushed, HandlersHoldRows
<1>2. ASSUME NEW r \in Request, NEW o \in Order, ConvertCommit(r, o)
      PROVE  Exists(e)'
  BY <1>2 DEF ConvertCommit, Flushed, HandlersHoldRows
<1>3. ASSUME NEW r \in Request, NEW x \in Source, SubmitQuote(r, x) \/ SubmitSourcing(r, x)
      PROVE  Exists(e)'
  BY <1>3 DEF SubmitQuote, SubmitSourcing, Routed, Insert
<1>4. CASE UNCHANGED status
  BY <1>4
<1> QED
  BY <1>1, <1>2, <1>3, <1>4 DEF Next, Handler, UpdatePaymentStatus, QuoteRead, SourcingRead, ConvertRead,
     ShipRead, PayRead, DetailRead, Begin, ConvertConflict, PayCommit, DetailCommit,
     Record, AuditFails, Tell, SoftDelete, KeyExpires, Crash, vars, tables, Source

(* What HandlersHoldRows says of one handler. *)
Holds(r) ==
    /\ pc[r] # "idle" => on[r] \in Entity
    /\ pc[r] = "quote" => on[r] \in Quote
    /\ pc[r] = "convert" => on[r] \in Source
    /\ pc[r] \in {"pay", "detail"} => on[r] \in Order
    /\ pc[r] \in {"quote", "source", "convert", "ship"} => Exists(on[r]) /\ to[r] # Nil
    /\ pc[r] = "pay" => to[r] \in PaymentStatus

(* Every step preserves what the handlers hold. *)
LEMMA HandlersStep == IInv /\ TypeOK' /\ [Next]_vars => HandlersHoldRows'
<1> SUFFICES ASSUME IInv, TypeOK', [Next]_vars, NEW q \in Request
             PROVE  Holds(q)'
  BY DEF HandlersHoldRows, Holds
<1>0. Holds(q) /\ HandlersTyped
  BY DEF IInv, HandlersHoldRows, Holds, TypeOK, HandlersTyped
<1>a. \A e \in Entity : Exists(e) => Exists(e)'
  BY RowsStay
<1>1. ASSUME NEW r \in Request, NEW s \in Step, NEW e \in Entity, NEW v, NEW w,
             Begin(r, s, e, v, w),
             s = "quote" => e \in Quote,
             s = "convert" => e \in Source,
             s \in {"pay", "detail"} => e \in Order,
             s \in {"quote", "source", "convert", "ship"} => Exists(e) /\ w # Nil,
             s = "pay" => w \in PaymentStatus
      PROVE  Holds(q)'
  <2>1. status' = status
    BY <1>1 DEF Begin, tables
  <2> QED
    BY <1>0, <1>1, <2>1 DEF Begin, Holds, HandlersTyped, Exists
<1>2. ASSUME NEW r \in Request, NEW e \in Entity, NEW n \in {"record", "announce", "found"},
             Committed(r, e, n)
      PROVE  Holds(q)'
  BY <1>0, <1>a, <1>2 DEF Committed, Holds, HandlersTyped
<1>3. ASSUME NEW r \in Request, Finish(r)
      PROVE  Holds(q)'
  BY <1>0, <1>a, <1>3 DEF Finish, Holds, HandlersTyped
<1> USE Values DEF Entity, Source, Step
<1>4. ASSUME NEW r \in Request, NEW x \in Quote, QuoteRead(r, x)
      PROVE  Holds(q)'
  BY <1>1, <1>4 DEF QuoteRead, Live
<1>5. ASSUME NEW r \in Request, NEW x \in Sourcing, NEW v \in SourcingStatus, SourcingRead(r, x, v)
      PROVE  Holds(q)'
  <2>1. v # Nil
    OBVIOUS
  <2> QED
    BY <1>1, <1>5, <2>1 DEF SourcingRead, Live
<1>6. ASSUME NEW r \in Request, NEW x \in Source, ConvertRead(r, x)
      PROVE  Holds(q)'
  BY <1>1, <1>6 DEF ConvertRead, Live
<1>7. ASSUME NEW r \in Request, NEW o \in Order, NEW v \in ShippingStatus, ShipRead(r, o, v)
      PROVE  Holds(q)'
  <2>1. v # Nil
    OBVIOUS
  <2> QED
    BY <1>1, <1>7, <2>1 DEF ShipRead, Live
<1>8. ASSUME NEW r \in Request, NEW o \in Order, NEW v \in PaymentStatus, PayRead(r, o, v)
      PROVE  Holds(q)'
  BY <1>1, <1>8 DEF PayRead
<1>9. ASSUME NEW r \in Request, NEW o \in Order, DetailRead(r, o)
      PROVE  Holds(q)'
  BY <1>1, <1>9 DEF DetailRead
<1>10. ASSUME NEW r \in Request, \/ \E x \in Quote : SubmitQuote(r, x)
                                \/ \E x \in Sourcing : SubmitSourcing(r, x)
       PROVE  Holds(q)'
  BY <1>2, <1>10 DEF SubmitQuote, SubmitSourcing, Routed, Insert
<1>11. ASSUME NEW r \in Request, NEW o \in Order, ConvertCommit(r, o)
       PROVE  Holds(q)'
  BY <1>2, <1>11 DEF ConvertCommit
<1>12. ASSUME NEW r \in Request, QuoteCommit(r) \/ SourcingCommit(r) \/ ShipCommit(r) \/ PayCommit(r)
       PROVE  Holds(q)'
  <2>1. on[r] \in Entity
    BY <1>12 DEF QuoteCommit, SourcingCommit, ShipCommit, PayCommit, IInv, HandlersHoldRows
  <2> QED
    BY <1>2, <1>12, <2>1 DEF QuoteCommit, SourcingCommit, ShipCommit, PayCommit
<1>13. ASSUME NEW r \in Request, Record(r)
       PROVE  Holds(q)'
  <2>1. CASE Finish(r)
    BY <1>3, <2>1
  <2>2. CASE pc' = [pc EXCEPT ![r] = "tell"] /\ to' = [to EXCEPT ![r] = status[on[r]]] /\ on' = on
    <3>1. pc[r] # "idle" /\ status' = status
      BY <1>13 DEF Record, tables
    <3> QED
      BY <1>0, <2>2, <3>1 DEF Holds, HandlersTyped, Exists, IInv, HandlersHoldRows
  <2> QED
    BY <1>13, <2>1, <2>2 DEF Record
<1>14. CASE Crash
  BY <1>0, <1>14 DEF Crash, Holds
<1>15. CASE UNCHANGED handlers
  BY <1>0, <1>a, <1>15 DEF handlers, Holds
<1> QED
  BY <1>3, <1>4, <1>5, <1>6, <1>7, <1>8, <1>9, <1>10, <1>11, <1>12, <1>13, <1>14, <1>15
     DEF Next, Handler, UpdatePaymentStatus, ConvertConflict, DetailCommit, AuditFails, Tell, SoftDelete, KeyExpires, vars

(* Every step preserves the orders' sources: inserts take a free id and pass  *)
(* the unique index.                                                          *)
LEMMA OrdersStep == IInv /\ TypeOK' /\ [Next]_vars => BlankOrders' /\ OneOrderPerSource'
<1> SUFFICES ASSUME IInv, TypeOK', [Next]_vars
             PROVE  BlankOrders' /\ OneOrderPerSource'
  OBVIOUS
<1>0. \A o \in Order : Exists(o) => Exists(o)'
  BY RowsStay DEF Entity
<1>1. ASSUME NEW r \in Request, NEW o \in Order, ConvertCommit(r, o)
      PROVE  BlankOrders' /\ OneOrderPerSource'
  <2>1. /\ source' = [source EXCEPT ![o] = on[r]] /\ source \in [Order -> Source \cup {Nil}]
        /\ \A p \in Order : source[p] # on[r]
    BY <1>1 DEF ConvertCommit, Converted, IInv, TypeOK
  <2>2. Exists(o)'
    BY <1>1, Values DEF ConvertCommit, Exists, Flushed, IInv, TypeOK, Entity
  <2> QED
    BY <1>0, <2>1, <2>2 DEF IInv, BlankOrders, OneOrderPerSource
<1>2. CASE UNCHANGED source
  BY <1>0, <1>2 DEF IInv, BlankOrders, OneOrderPerSource
<1> QED
  BY <1>1, <1>2 DEF Next, Handler, UpdatePaymentStatus, SubmitQuote, SubmitSourcing, Routed, Insert, QuoteRead, SourcingRead,
     ConvertRead, ShipRead, PayRead, DetailRead, Begin, QuoteCommit, SourcingCommit,
     ShipCommit, ConvertConflict, PayCommit, DetailCommit, Record, AuditFails, Tell, SoftDelete, KeyExpires, Crash,
     vars, tables

LEMMA InvariantStep == IInv /\ [Next]_vars => IInv'
<1>1. IInv /\ [Next]_vars => TypeOK'
  BY TypeStep DEF IInv
<1> QED
  BY <1>1, HandlersStep, OrdersStep DEF IInv

-----------------------------------------------------------------------------
(* The tables and the handlers keep their types. *)
THEOREM TypeCorrect == Spec => []TypeOK
<1>1. IInv => TypeOK
  BY DEF IInv
<1> QED
  BY <1>1, InitIInv, InvariantStep, PTL DEF Spec

(* However many handlers convert at once, a request has one order. *)
THEOREM OneOrderPerSourceHolds == Spec => []OneOrderPerSource
<1>1. IInv => OneOrderPerSource
  BY DEF IInv
<1> QED
  BY <1>1, InitIInv, InvariantStep, PTL DEF Spec

-----------------------------------------------------------------------------
(* OrderFlow implements OrderBook. *)

LEMMA BookInit == Init => Book!Init
BY DEF Init, Book!Init, Exists, Entity

(* A step that changes neither which requests exist nor the orders' sources  *)
(* is a stutter of the book.                                                 *)
LEMMA BookStutter ==
    ASSUME \A x \in Source : Exists(x) <=> Exists(x)', source' = source
    PROVE  UNCHANGED <<{x \in Source : Exists(x)}, source>>
OBVIOUS

LEMMA BookStep ==
    IInv /\ IInv' /\ [Next]_vars => [Book!Next]_<<{x \in Source : Exists(x)}, source>>
<1> SUFFICES ASSUME IInv, IInv', [Next]_vars
             PROVE  [Book!Next]_<<{x \in Source : Exists(x)}, source>>
  OBVIOUS
<1> USE KindsAreApart, Values DEF Entity
<1>1. ASSUME NEW r \in Request, NEW y \in Source, SubmitQuote(r, y) \/ SubmitSourcing(r, y)
      PROVE  Book!Receive(y)
  BY <1>1 DEF SubmitQuote, SubmitSourcing, Routed, Insert, Book!Receive, Exists, IInv, TypeOK
<1>2. ASSUME NEW r \in Request, NEW o \in Order, ConvertCommit(r, o)
      PROVE  Book!Convert(on[r], o)
  <2>1. on[r] \in Source /\ Exists(on[r]) /\ to[r] # Nil /\ source[o] = Nil
    BY <1>2 DEF ConvertCommit, IInv, HandlersHoldRows, BlankOrders
  <2>2. \A x \in Source : Exists(x) <=> Exists(x)'
    BY <1>2, <2>1 DEF ConvertCommit, Flushed, Exists, IInv, TypeOK
  <2> QED
    BY <1>2, <2>1, <2>2 DEF ConvertCommit, Converted, Book!Convert
<1>3. ASSUME NEW r \in Request, QuoteCommit(r) \/ SourcingCommit(r) \/ ShipCommit(r)
      PROVE  UNCHANGED <<{x \in Source : Exists(x)}, source>>
  <2>1. Exists(on[r]) /\ to[r] # Nil
    BY <1>3 DEF QuoteCommit, SourcingCommit, ShipCommit, IInv, HandlersHoldRows
  <2>2. (\A x \in Source : Exists(x) <=> Exists(x)') /\ source' = source
    BY <1>3, <2>1 DEF QuoteCommit, SourcingCommit, ShipCommit, Flushed, Exists, IInv, TypeOK
  <2> QED
    BY <2>2
<1>4. CASE UNCHANGED <<status, source>>
  BY <1>4 DEF Exists
<1>5. ASSUME NEW r \in Request, NEW y \in Source, SubmitQuote(r, y) \/ SubmitSourcing(r, y)
      PROVE  Book!Next
  BY <1>1, <1>5 DEF Book!Next
<1>6. ASSUME NEW r \in Request, NEW o \in Order, ConvertCommit(r, o)
      PROVE  Book!Next
  <2>1. on[r] \in Source
    BY <1>6 DEF ConvertCommit, IInv, HandlersHoldRows
  <2> QED
    BY <1>2, <1>6, <2>1 DEF Book!Next
<1> QED
  BY <1>3, <1>4, <1>5, <1>6 DEF Next, Handler, UpdatePaymentStatus, Source, QuoteRead, SourcingRead, ConvertRead,
     ShipRead, PayRead, DetailRead, Begin, ConvertConflict, PayCommit, DetailCommit, Record,
     AuditFails, Tell, SoftDelete, KeyExpires, Crash, vars, tables

(* Order conversion keeps its promise: an order is about one request for     *)
(* ever and no request is behind two orders.                                 *)
THEOREM ImplementsOrderBook == Spec => BookSpec
<1> QED
  BY BookInit, BookStep, InitIInv, InvariantStep, PTL DEF Spec, BookSpec, Book!Spec

-----------------------------------------------------------------------------
(* An order and its closed quote appear together. *)

(* A quote is closed by its order only, so a handler that read a closed quote *)
(* has lost the race; the other kinds of handlers write elsewhere.            *)
QuotesCloseByOrder ==
    /\ \A q \in Quote : status[q] = "closed" => Converted(q)
    /\ \A r \in Request :
          /\ pc[r] = "quote" => to[r] = "quoted"
          /\ pc[r] = "source" => on[r] \in Sourcing
          /\ pc[r] = "ship" => on[r] \in Order
          /\ pc[r] = "convert" => to[r] = "closed"
          /\ pc[r] = "convert" /\ on[r] \in Quote =>
                seen[r] # "closed" \/ Converted(on[r])

(* An order is never taken away from its request. *)
LEMMA ConvertedStays ==
    ASSUME IInv, [Next]_vars, NEW x \in Source, Converted(x)
    PROVE  Converted(x)'
<1>1. ASSUME NEW r \in Request, NEW o \in Order, ConvertCommit(r, o)
      PROVE  Converted(x)'
  BY <1>1, KindsAreApart DEF ConvertCommit, Converted, IInv, BlankOrders, TypeOK, Entity
<1>2. CASE UNCHANGED source
  BY <1>2 DEF Converted
<1> QED
  BY <1>1, <1>2 DEF Next, Handler, UpdatePaymentStatus, SubmitQuote, SubmitSourcing, Routed, Insert, QuoteRead, SourcingRead,
     ConvertRead, ShipRead, PayRead, DetailRead, Begin, QuoteCommit, SourcingCommit,
     ShipCommit, ConvertConflict, PayCommit, DetailCommit, Record, AuditFails, Tell, SoftDelete, KeyExpires, Crash,
     vars, tables

LEMMA QuotesInit == Init => QuotesCloseByOrder
BY KindsAreApart, Values DEF Init, QuotesCloseByOrder, Entity, Source

(* What QuotesCloseByOrder says of one handler. *)
Race(r) ==
    /\ pc[r] = "quote" => to[r] = "quoted"
    /\ pc[r] = "source" => on[r] \in Sourcing
    /\ pc[r] = "ship" => on[r] \in Order
    /\ pc[r] = "convert" => to[r] = "closed"
    /\ pc[r] = "convert" /\ on[r] \in Quote => seen[r] # "closed" \/ Converted(on[r])

LEMMA QuotesHandlers ==
    ASSUME IInv, QuotesCloseByOrder, [Next]_vars, NEW q \in Request
    PROVE  Race(q)'
<1>0. Race(q) /\ HandlersTyped
  BY DEF IInv, QuotesCloseByOrder, Race, TypeOK, HandlersTyped
<1>a. \A x \in Source : Converted(x) => Converted(x)'
  BY ConvertedStays
<1>1. ASSUME NEW r \in Request, NEW s, NEW e, NEW v, NEW w, Begin(r, s, e, v, w),
             s = "quote" => w = "quoted",
             s = "source" => e \in Sourcing,
             s = "ship" => e \in Order,
             s = "convert" => w = "closed",
             s = "convert" /\ e \in Quote => v # "closed" \/ Converted(e)
      PROVE  Race(q)'
  <2>1. source' = source
    BY <1>1 DEF Begin, tables
  <2> QED
    BY <1>0, <1>1, <2>1 DEF Begin, Race, HandlersTyped, Converted
<1>2. CASE pc'[q] \notin {"quote", "source", "ship", "convert"}
  BY <1>2 DEF Race
<1>3. CASE pc'[q] = pc[q] /\ on'[q] = on[q] /\ seen'[q] = seen[q] /\ to'[q] = to[q]
  BY <1>0, <1>a, <1>3 DEF Race, Source
<1>4. ASSUME NEW r \in Request, NEW e, NEW n \in {"record", "announce", "found"}, Committed(r, e, n)
      PROVE  Race(q)'
  BY <1>0, <1>2, <1>3, <1>4 DEF Committed, HandlersTyped
<1>5. ASSUME NEW r \in Request, Finish(r)
      PROVE  Race(q)'
  BY <1>0, <1>2, <1>3, <1>5 DEF Finish, HandlersTyped
<1>6. ASSUME NEW r \in Request, NEW x \in Source, ConvertRead(r, x)
      PROVE  Race(q)'
  <2>1. x \in Quote => status[x] # "closed"
    BY <1>6 DEF ConvertRead, QuotesCloseByOrder
  <2> QED
    BY <1>1, <1>6, <2>1 DEF ConvertRead
<1>7. ASSUME NEW r \in Request, Record(r)
      PROVE  Race(q)'
  <2>1. CASE Finish(r)
    BY <1>5, <2>1
  <2>2. CASE pc' = [pc EXCEPT ![r] = "tell"] /\ to' = [to EXCEPT ![r] = status[on[r]]]
             /\ UNCHANGED <<on, seen>>
    BY <1>0, <1>2, <1>3, <2>2 DEF HandlersTyped
  <2> QED
    BY <1>7, <2>1, <2>2 DEF Record
<1>8. CASE Crash
  BY <1>2, <1>8 DEF Crash
<1>9. CASE UNCHANGED handlers
  BY <1>3, <1>9 DEF handlers
<1>10. ASSUME NEW r \in Request,
              \/ \E x \in Quote : QuoteRead(r, x)
              \/ \E x \in Sourcing, v \in Used \cap SourcingStatus : SourcingRead(r, x, v)
              \/ \E o \in Order, v \in Used \cap ShippingStatus : ShipRead(r, o, v)
              \/ \E o \in Order, v \in Used \cap PaymentStatus : PayRead(r, o, v)
              \/ \E o \in Order : DetailRead(r, o)
       PROVE  Race(q)'
  BY <1>1, <1>10 DEF QuoteRead, SourcingRead, ShipRead, PayRead, DetailRead
<1> QED
  BY <1>4, <1>5, <1>6, <1>7, <1>8, <1>9, <1>10 DEF Next, Handler, UpdatePaymentStatus, SubmitQuote, SubmitSourcing, Routed, Insert,
     QuoteCommit, SourcingCommit, ConvertCommit, ConvertConflict, ShipCommit, PayCommit,
     DetailCommit, AuditFails, Tell, SoftDelete, KeyExpires, vars

LEMMA QuotesStep == IInv /\ QuotesCloseByOrder /\ [Next]_vars => QuotesCloseByOrder'
<1> SUFFICES ASSUME IInv, QuotesCloseByOrder, [Next]_vars
             PROVE  QuotesCloseByOrder'
  OBVIOUS
<1>1. \A r \in Request : Race(r)'
  BY QuotesHandlers
<1>2. ASSUME NEW q \in Quote, status'[q] = "closed"
      PROVE  Converted(q)'
  <2> USE KindsAreApart, Values DEF Entity, Source
  <2>0. Converted(q) => Converted(q)'
    BY ConvertedStays
  <2>1. CASE status[q] = "closed"
    BY <2>0, <2>1 DEF QuotesCloseByOrder
  <2>2. ASSUME NEW r \in Request, NEW o \in Order, ConvertCommit(r, o), status[q] # "closed"
        PROVE  Converted(q)'
    <3>1. on[r] = q
      BY <1>2, <2>2 DEF ConvertCommit, Flushed, IInv, TypeOK, HandlersHoldRows
    <3> QED
      BY <2>2, <3>1 DEF ConvertCommit, Converted, IInv, TypeOK
  <2>3. ASSUME NEW r \in Request, QuoteCommit(r) \/ SourcingCommit(r) \/ ShipCommit(r)
        PROVE  status[q] = "closed"
    <3>1. CASE QuoteCommit(r)
      BY <1>2, <3>1 DEF QuoteCommit, Flushed, QuotesCloseByOrder, IInv, TypeOK
    <3>2. CASE SourcingCommit(r) \/ ShipCommit(r)
      <4>1. on[r] # q
        BY <3>2 DEF SourcingCommit, ShipCommit, QuotesCloseByOrder
      <4> QED
        BY <1>2, <3>2, <4>1 DEF SourcingCommit, ShipCommit, Flushed, IInv, TypeOK
    <3> QED
      BY <2>3, <3>1, <3>2
  <2>4. ASSUME NEW r \in Request, NEW x \in Source, SubmitQuote(r, x) \/ SubmitSourcing(r, x)
        PROVE  status[q] = "closed"
    BY <1>2, <2>4 DEF SubmitQuote, SubmitSourcing, Routed, Insert, IInv, TypeOK
  <2>5. CASE UNCHANGED status
    BY <1>2, <2>1, <2>5
  <2> QED
    BY <2>1, <2>2, <2>3, <2>4, <2>5 DEF Next, Handler, UpdatePaymentStatus, QuoteRead, SourcingRead, ConvertRead,
       ShipRead, PayRead, DetailRead, Begin, ConvertConflict, PayCommit, DetailCommit, Record,
     AuditFails, Tell, SoftDelete, KeyExpires, Crash, vars, tables
<1> QED
  BY <1>1, <1>2 DEF QuotesCloseByOrder, Race

(* The insert of an order writes the closed status with it. *)
LEMMA CloseStep ==
    ASSUME IInv, QuotesCloseByOrder, [Next]_vars, NEW o \in Order, NEW q \in Quote,
           source[o] = Nil, source'[o] = q
    PROVE  status'[q] = "closed"
<1> USE KindsAreApart DEF Entity, Source
<1>1. ASSUME NEW r \in Request, NEW p \in Order, ConvertCommit(r, p)
      PROVE  status'[q] = "closed"
  <2>1. on[r] = q /\ p = o
    BY <1>1 DEF ConvertCommit, IInv, TypeOK
  <2>2. seen[r] # "closed" /\ to[r] = "closed"
    BY <1>1, <2>1 DEF ConvertCommit, QuotesCloseByOrder
  <2> QED
    BY <1>1, <2>1, <2>2 DEF ConvertCommit, Flushed, IInv, TypeOK
<1>2. CASE UNCHANGED source
  BY <1>2
<1> QED
  BY <1>1, <1>2 DEF Next, Handler, UpdatePaymentStatus, SubmitQuote, SubmitSourcing, Routed, Insert, QuoteRead, SourcingRead,
     ConvertRead, ShipRead, PayRead, DetailRead, Begin, QuoteCommit, SourcingCommit,
     ShipCommit, ConvertConflict, PayCommit, DetailCommit, Record, AuditFails, Tell, SoftDelete, KeyExpires, Crash,
     vars, tables

(* Whatever others write meanwhile, an order and its closed quote are committed *)
(* together.                                                                    *)
THEOREM OrdersCloseTheirQuotes == Spec => QuoteClosesWithOrder
<1>1. IInv /\ QuotesCloseByOrder /\ [Next]_vars =>
        [\A o \in Order, q \in Quote :
            source[o] = Nil /\ source'[o] = q => status'[q] = "closed"]_vars
  BY CloseStep
<1> QED
  BY <1>1, InitIInv, InvariantStep, QuotesInit, QuotesStep, PTL DEF Spec, QuoteClosesWithOrder

(* Conversion keeps both promises at once: OrderBook, and the closing of the   *)
(* quote with its order (OrderService.create_from_quote, create_from_sourcing). *)
THEOREM ConversionAlwaysKept == Spec => ConversionKept
  BY ImplementsOrderBook, OrdersCloseTheirQuotes DEF ConversionKept
-----------------------------------------------------------------------------
(* The audit trail.  Owed counts handlers, so each step is shown to add one    *)
(* handler to one row's set, to take one from it, or to leave all of them.     *)
OwedSteps == {"record", "announce", "found"}

LEMMA OwedFinite == \A e \in Entity : IsFiniteSet(Owed(e)) /\ Cardinality(Owed(e)) \in Nat
BY KindsAreApart, FS_Subset, FS_CardinalityType DEF Owed

LEMMA OwedFiniteNext == \A e \in Entity : Cardinality(Owed(e))' \in Nat
<1> SUFFICES ASSUME NEW e \in Entity
             PROVE  Cardinality(Owed(e))' \in Nat
  OBVIOUS
<1>1. Owed(e)' \subseteq Request
  BY DEF Owed
<1> QED
  BY <1>1, KindsAreApart, FS_Subset, FS_CardinalityType

(* A handler that is about to write no audit row, before and after.            *)
LEMMA OwedStays ==
    ASSUME TypeOK, NEW r \in Request, pc[r] \notin OwedSteps, pc'[r] \notin OwedSteps,
           \A p \in Request \ {r} : pc'[p] = pc[p] /\ on'[p] = on[p]
    PROVE  \A e \in Entity : Owed(e)' = Owed(e)
BY DEF Owed, OwedSteps

LEMMA OwedGrows ==
    ASSUME TypeOK, NEW r \in Request, NEW e \in Entity, NEW n \in OwedSteps,
           pc[r] \notin OwedSteps, Committed(r, e, n)
    PROVE  \A d \in Entity :
               Cardinality(Owed(d))' = Cardinality(Owed(d)) + (IF d = e THEN 1 ELSE 0)
<1>1. pc'[r] = n /\ on'[r] = e
      /\ \A p \in Request \ {r} : pc'[p] = pc[p] /\ on'[p] = on[p]
  BY DEF Committed, TypeOK
<1>2. \A d \in Entity : r \notin Owed(d)
  BY DEF Owed, OwedSteps
<1>3. Owed(e)' = Owed(e) \cup {r} /\ \A d \in Entity \ {e} : Owed(d)' = Owed(d)
  BY <1>1 DEF Owed, OwedSteps
<1>4. Cardinality(Owed(e) \cup {r}) = Cardinality(Owed(e)) + 1
  BY <1>2, OwedFinite, FS_AddElement
<1> QED
  BY <1>3, <1>4, OwedFinite

LEMMA OwedShrinks ==
    ASSUME TypeOK, NEW r \in Request, pc[r] \in OwedSteps, on[r] \in Entity,
           pc'[r] \notin OwedSteps,
           \A p \in Request \ {r} : pc'[p] = pc[p] /\ on'[p] = on[p]
    PROVE  \A d \in Entity :
               Cardinality(Owed(d)) = Cardinality(Owed(d))' + (IF d = on[r] THEN 1 ELSE 0)
<1>1. r \in Owed(on[r]) /\ \A d \in Entity \ {on[r]} : r \notin Owed(d)
  BY DEF Owed, OwedSteps
<1>2. /\ Owed(on[r]) \ {r} = {p \in Request : on'[p] = on[r] /\ pc'[p] \in OwedSteps}
      /\ \A d \in Entity \ {on[r]} : Owed(d)' = Owed(d)
  BY <1>1 DEF Owed, OwedSteps
<1>3. \A d \in Entity : d = on[r] => Owed(d)' = Owed(d) \ {r}
  BY <1>2 DEF Owed, OwedSteps
<1>4. Cardinality(Owed(on[r]) \ {r}) = Cardinality(Owed(on[r])) - 1
  BY <1>1, OwedFinite, FS_RemoveElement
<1>5. ASSUME NEW d \in Entity, d = on[r]
      PROVE  Cardinality(Owed(d)) = Cardinality(Owed(d))' + 1
  <2>1. Cardinality(Owed(d))' = Cardinality(Owed(d) \ {r})
    BY <1>3, <1>5
  <2>2. Cardinality(Owed(d) \ {r}) = Cardinality(Owed(d)) - 1
    BY <1>4, <1>5
  <2>3. Cardinality(Owed(d)) \in Nat
    BY OwedFinite
  <2> QED
    BY <2>1, <2>2, <2>3
<1>6. ASSUME NEW d \in Entity, d # on[r]
      PROVE  Cardinality(Owed(d)) = Cardinality(Owed(d))'
  BY <1>2, <1>6
<1>7. \A d \in Entity : Cardinality(Owed(d)) \in Nat
  BY OwedFinite
<1> QED
  BY <1>2, <1>5, <1>6, <1>7

LEMMA AuditStep == IInv /\ AuditBalances /\ [Next]_vars => AuditBalances'
<1> SUFFICES ASSUME IInv, AuditBalances, [Next]_vars
             PROVE  AuditBalances'
  OBVIOUS
<1> USE DEF IInv
<1>0. TypeOK /\ TypeOK'
  BY TypeStep
<1>1. ASSUME NEW r \in Request, NEW e \in Entity, NEW n \in OwedSteps,
             pc[r] \notin OwedSteps, Committed(r, e, n)
      PROVE  AuditBalances'
  <2>1. \A d \in Entity : acts'[d] = acts[d] + (IF d = e THEN 1 ELSE 0)
    BY <1>0, <1>1 DEF Committed, TypeOK
  <2>2. audited' = audited /\ lost' = lost
    BY <1>1 DEF Committed
  <2>3. SUFFICES ASSUME NEW d \in Entity
                 PROVE  acts'[d] = audited'[d] + Cardinality(Owed(d))' + lost'[d]
    BY DEF AuditBalances
  <2>4. Cardinality(Owed(d))' = Cardinality(Owed(d)) + (IF d = e THEN 1 ELSE 0)
    BY <1>0, <1>1, OwedGrows
  <2>5. acts[d] \in Nat /\ audited[d] \in Nat /\ lost[d] \in Nat /\ Cardinality(Owed(d)) \in Nat
    BY <1>0, OwedFinite DEF TypeOK
  <2>6. acts[d] = audited[d] + Cardinality(Owed(d)) + lost[d]
    BY DEF AuditBalances
  <2> QED
    BY <2>1, <2>2, <2>4, <2>5, <2>6
<1>2. ASSUME NEW r \in Request, pc[r] \notin OwedSteps, pc'[r] \notin OwedSteps,
             \A p \in Request \ {r} : pc'[p] = pc[p] /\ on'[p] = on[p],
             UNCHANGED <<acts, audited, lost>>
      PROVE  AuditBalances'
  <2>1. \A e \in Entity : Owed(e)' = Owed(e)
    BY <1>0, <1>2, OwedStays
  <2> QED
    BY <1>2, <2>1 DEF AuditBalances
<1>3. ASSUME NEW r \in Request, NEW s \in Step, NEW e \in Entity \cup {Nil}, NEW v, NEW w,
             s \notin OwedSteps, Begin(r, s, e, v, w)
      PROVE  AuditBalances'
  <2>1. pc[r] = "idle" /\ pc'[r] = s /\ UNCHANGED <<acts, audited, lost>>
        /\ \A p \in Request \ {r} : pc'[p] = pc[p] /\ on'[p] = on[p]
    BY <1>0, <1>3 DEF Begin, TypeOK, trail
  <2> QED
    BY <1>2, <1>3, <2>1 DEF OwedSteps
<1>4. ASSUME NEW r \in Request, pc[r] \notin OwedSteps, Finish(r), UNCHANGED <<acts, audited, lost>>
      PROVE  AuditBalances'
  <2>1. pc'[r] = "idle" /\ \A p \in Request \ {r} : pc'[p] = pc[p] /\ on'[p] = on[p]
    BY <1>0, <1>4 DEF Finish, TypeOK
  <2> QED
    BY <1>2, <1>4, <2>1 DEF OwedSteps
<1>5. ASSUME NEW r \in Request, Record(r) \/ AuditFails(r)
      PROVE  AuditBalances'
  <2>1. /\ pc[r] \in OwedSteps /\ on[r] \in Entity
        /\ pc'[r] \notin OwedSteps
        /\ \A p \in Request \ {r} : pc'[p] = pc[p] /\ on'[p] = on[p]
    BY <1>0, <1>5 DEF Record, AuditFails, Finish, OwedSteps, TypeOK, HandlersHoldRows
  <2>2. \A d \in Entity :
          audited'[d] + lost'[d] = audited[d] + lost[d] + (IF d = on[r] THEN 1 ELSE 0)
    BY <1>0, <1>5, <2>1 DEF Record, AuditFails, TypeOK
  <2>3. acts' = acts
    BY <1>5 DEF Record, AuditFails
  <2>4. SUFFICES ASSUME NEW d \in Entity
                 PROVE  acts'[d] = audited'[d] + Cardinality(Owed(d))' + lost'[d]
    BY DEF AuditBalances
  <2>5. Cardinality(Owed(d)) = Cardinality(Owed(d))' + (IF d = on[r] THEN 1 ELSE 0)
    BY <1>0, <2>1, OwedShrinks
  <2>6. /\ acts[d] \in Nat /\ audited[d] \in Nat /\ lost[d] \in Nat
        /\ audited'[d] \in Nat /\ lost'[d] \in Nat
        /\ Cardinality(Owed(d)) \in Nat /\ Cardinality(Owed(d))' \in Nat
    BY <1>0, OwedFinite, OwedFiniteNext DEF TypeOK
  <2>7. acts[d] = audited[d] + Cardinality(Owed(d)) + lost[d]
    BY DEF AuditBalances
  <2> QED
    BY <2>2, <2>3, <2>5, <2>6, <2>7
<1>6. CASE Crash
  <2>1. \A d \in Entity : Owed(d)' = {}
    BY <1>6 DEF Crash, Owed
  <2>2. \A d \in Entity : Cardinality(Owed(d))' = 0
    BY <2>1, FS_EmptySet
  <2>3. \A d \in Entity : lost'[d] = lost[d] + Cardinality(Owed(d))
    BY <1>6 DEF Crash
  <2> QED
    BY <1>0, <1>6, <2>2, <2>3, OwedFinite DEF Crash, AuditBalances, TypeOK
<1>7. ASSUME NEW e \in Entity, SoftDelete(e) \/ KeyExpires(e)
      PROVE  AuditBalances'
  BY <1>7 DEF SoftDelete, KeyExpires, AuditBalances, Owed, trail, handlers
<1>8. CASE UNCHANGED vars
  BY <1>8 DEF vars, trail, handlers, AuditBalances, Owed
<1> QED
  <2>1. ASSUME NEW r \in Request, NEW x \in Source, NEW v,
               \/ SubmitQuote(r, x) \/ SubmitSourcing(r, x)
        PROVE  AuditBalances'
    BY <1>1, <2>1 DEF SubmitQuote, SubmitSourcing, Routed, Insert, OwedSteps, Entity
  <2>2. ASSUME NEW r \in Request,
               QuoteCommit(r) \/ SourcingCommit(r) \/ ShipCommit(r) \/ PayCommit(r)
        PROVE  AuditBalances'
    <3>1. on[r] \in Entity
      BY <2>2 DEF QuoteCommit, SourcingCommit, ShipCommit, PayCommit, HandlersHoldRows
    <3> QED
      BY <1>1, <2>2, <3>1 DEF QuoteCommit, SourcingCommit, ShipCommit, PayCommit, OwedSteps
  <2>3. ASSUME NEW r \in Request, NEW o \in Order, ConvertCommit(r, o)
        PROVE  AuditBalances'
    BY <1>1, <2>3 DEF ConvertCommit, OwedSteps, Entity
  <2>4. ASSUME NEW r \in Request, ConvertConflict(r) \/ DetailCommit(r) \/ Tell(r)
        PROVE  AuditBalances'
    BY <1>4, <2>4 DEF ConvertConflict, DetailCommit, Tell, OwedSteps, trail
  <2>5. ASSUME NEW r \in Request, NEW e \in Entity, NEW v,
               \/ QuoteRead(r, e) \/ SourcingRead(r, e, v) \/ ConvertRead(r, e)
               \/ ShipRead(r, e, v) \/ PayRead(r, e, v) \/ DetailRead(r, e)
        PROVE  AuditBalances'
    BY <1>3, <2>5 DEF QuoteRead, SourcingRead, ConvertRead, ShipRead, PayRead, DetailRead,
       OwedSteps, Step
  <2> QED
    BY <1>5, <1>6, <1>7, <1>8, <2>1, <2>2, <2>3, <2>4, <2>5 DEF Next, Handler, UpdatePaymentStatus, Entity, Source

(* Whatever overlaps and whenever the server restarts, each audited action has *)
(* one audit row, or one handler that will write it, or was cut off by a       *)
(* restart between the two commits (AdminOrderController and its siblings).    *)
THEOREM AuditTrailBalances == Spec => []AuditBalances
<1>1. Init => AuditBalances
  <2> SUFFICES ASSUME Init PROVE AuditBalances
    OBVIOUS
  <2>1. \A e \in Entity : Owed(e) = {}
    BY DEF Init, Owed
  <2> QED
    BY <2>1, FS_EmptySet DEF Init, AuditBalances
<1> QED
  BY <1>1, InitIInv, InvariantStep, AuditStep, PTL DEF Spec
=============================================================================
