--------------------------------- MODULE Desk ---------------------------------
(***************************************************************************)
(* The lists of the backend and the moderation of what is in them: quote    *)
(* and sourcing requests, orders, reviews, buyback leads, the inbox and the *)
(* logs the staff read.                                                     *)
(*                                                                         *)
(* Every list is walked by the same keyset: the rows below a cursor, newest *)
(* first, a page at a time, while rows are created, change their status and *)
(* are deleted.  A review is moderated, and a lead is given a status, by    *)
(* handlers that read the row, change their ORM instance, commit, read the  *)
(* row again, and write the audit row in a second transaction; the ORM      *)
(* writes an attribute only if the handler changed the value it read.       *)
(*                                                                         *)
(* A behaviour is about one of the tables.                                  *)
(***************************************************************************)
EXTENDS Naturals, FiniteSets, Sequences, Functions

CONSTANTS
    Table,      \* the tables a behaviour may be about
    MaxId,       \* bound: the highest id
    Buyer,      \* accounts of buyers
    Staff,      \* accounts of the staff
    Nobody,     \* a visitor without an account; no owner; no moderator
    Limit,      \* rows of a page
    Walker,     \* people who walk a list
    Handler     \* handlers of moderations that can be under way at once

VARIABLES
    table,      \* the table this is about
    row,        \* its rows, by id
    walk,       \* the walks
    steady,     \* the rows each walk should show (history)
    desk,       \* the handlers
    trail,      \* the last audit row about each row
    disturbed   \* rows whose handlers overlapped or were cut off (history)

vars == <<table, row, walk, steady, desk, trail, disturbed>>

Id == 1..MaxId
Person == Buyer \cup Staff \cup {Nobody}

(* The first of each is the default of its column; two stand for all        *)
(* where no list looks at more.  An audit row has a kind of entity instead. *)
RequestStatuses == <<"pending", "answered">>
ReviewStatuses == <<"pending", "approved", "rejected">>
LeadStatuses == <<"new", "contacted">>
EmailStatuses == <<"queued", "sent">>
SocketStatuses == <<"connected", "disconnected">>
Statuses == [quotes |-> RequestStatuses, sourcing |-> RequestStatuses, orders |-> <<"pending", "booked">>,
             reviews |-> ReviewStatuses, leads |-> LeadStatuses, inbox |-> <<"unread", "read">>,
             emails |-> EmailStatuses, audit |-> <<"order", "review">>, sockets |-> SocketStatuses]
Status == Range(Statuses[table])
Initial == Statuses[table][1]
List == {"mine", "all", "approved", "pending"}

Unborn == [state |-> "unborn", owner |-> Nobody, status |-> "none", by |-> Nobody]
Live(r) == row[r].state = "live"
LiveRows == {r \in Id : Live(r)}

-----------------------------------------------------------------------------
(* The routes: who may call what (Depends). *)
QuoteRoutes == [create |-> "anyone", mine |-> "account", progress |-> "staff"]
SourcingRoutes == [create |-> "anyone", mine |-> "account", progress |-> "staff"]
OrderRoutes == [mine |-> "account"]
OrderDeskRoutes == [create |-> "staff", all |-> "staff", progress |-> "staff"]
ReviewRoutes == [create |-> "anyone", approved |-> "anyone"]
ModerationRoutes == [pending |-> "staff", moderate |-> "staff"]
LeadRoutes == [create |-> "anyone"]
LeadDeskRoutes == [all |-> "staff", moderate |-> "staff"]
InboxRoutes == [mine |-> "account", progress |-> "account"]
LogRoutes == [all |-> "staff"]

Routes ==
    [quotes |-> {QuoteRoutes}, sourcing |-> {SourcingRoutes}, orders |-> {OrderRoutes, OrderDeskRoutes},
     reviews |-> {ReviewRoutes, ModerationRoutes}, leads |-> {LeadRoutes, LeadDeskRoutes},
     inbox |-> {InboxRoutes}, emails |-> {LogRoutes}, audit |-> {LogRoutes}, sockets |-> {LogRoutes}]

(* get_optional_user, get_current_user, require_staff *)
Passes(dependency, who) ==
    \/ dependency = "anyone"
    \/ dependency = "account" /\ who # Nobody
    \/ dependency = "staff" /\ who \in Staff

May(operation, who) ==
    \E routes \in Routes[table] : operation \in DOMAIN routes /\ Passes(routes[operation], who)

-----------------------------------------------------------------------------
(* The WHERE clauses... *)
ListMine(who) == {r \in LiveRows : row[r].owner = who}
ListAll(filter) == {r \in LiveRows : filter = "none" \/ row[r].status = filter}
ListApproved == {r \in LiveRows : row[r].status = "approved"}
ListPending == {r \in LiveRows : row[r].status = "pending"}

(* ...and the lists of each table. *)
RequestLists(who) == [mine |-> ListMine(who)]
OrderLists(who) == [mine |-> ListMine(who), all |-> ListAll("none")]
ReviewLists == [approved |-> ListApproved, pending |-> ListPending]
LeadLists(filter) == [all |-> ListAll(filter)]
InboxLists(who) == [mine |-> ListMine(who)]
LogLists(filter) == [all |-> ListAll(filter)]

Listed(list, who, filter) ==
    (CASE table \in {"quotes", "sourcing"} -> RequestLists(who)
       [] table = "orders" -> OrderLists(who)
       [] table = "reviews" -> ReviewLists
       [] table = "leads" -> LeadLists(filter)
       [] table = "inbox" -> InboxLists(who)
       [] OTHER -> LogLists(filter))[list]

Filters(list) ==
    IF list = "all" /\ table \in {"leads", "emails", "audit"} THEN Status \cup {"none"} ELSE {"none"}

(* ORDER BY id DESC *)
Newest(S) ==
    CHOOSE q \in [1..Cardinality(S) -> S] : \A i, j \in 1..Cardinality(S) : i < j => q[i] > q[j]

(* keyset_page *)
Below(S, cursor) == {r \in S : r < cursor}
Page(S, cursor) ==
    LET rest == Newest(Below(S, cursor))
    IN SubSeq(rest, 1, IF Len(rest) < Limit THEN Len(rest) ELSE Limit)

(* The inbox looks one row ahead; of the other lists a short page is the    *)
(* last one.                                                                *)
IsLast(S, cursor) ==
    IF table = "inbox" THEN Cardinality(Below(S, cursor)) <= Limit
                       ELSE Len(Page(S, cursor)) < Limit

NoWalk == [phase |-> "idle", who |-> Nobody, list |-> "mine", filter |-> "none", cursor |-> 0, shown |-> <<>>]
Idle == [phase |-> "idle", staff |-> Nobody, on |-> 1, wants |-> "none", status |-> "none", by |-> Nobody]
NoTrail == [status |-> "none", by |-> Nobody]

TypeOK ==
    /\ table \in Table
    /\ row \in [Id -> [state : {"unborn", "live", "gone"}, owner : Person,
                       status : Status \cup {"none"}, by : Staff \cup {Nobody}]]
    /\ \A w \in Walker :
        /\ walk[w].phase \in {"idle", "walking", "done"} /\ walk[w].who \in Person
        /\ walk[w].list \in List /\ walk[w].cursor \in 0..MaxId + 1 /\ Range(walk[w].shown) \subseteq Id
    /\ steady \in [Walker -> SUBSET Id]
    /\ \A h \in Handler : desk[h].phase \in {"idle", "read", "committed", "refreshed"}
    /\ disturbed \subseteq Id

Init ==
    /\ table \in Table
    /\ row = [r \in Id |-> Unborn]
    /\ walk = [w \in Walker |-> NoWalk] /\ steady = [w \in Walker |-> {}]
    /\ desk = [h \in Handler |-> Idle]
    /\ trail = [r \in Id |-> NoTrail] /\ disturbed = {}

-----------------------------------------------------------------------------
(* What a walk should show: the rows that are in its list all the time. *)
Watch ==
    steady' = [w \in Walker |->
        IF walk[w].phase = "walking"
        THEN steady[w] \cap Listed(walk[w].list, walk[w].who, walk[w].filter)'
        ELSE steady[w]]

Change(r, new) == UNCHANGED <<table, walk>> /\ row' = [row EXCEPT ![r] = new] /\ Watch

(* A row is created with the next id. *)
NextId == Cardinality({r \in Id : row[r].state # "unborn"}) + 1

Born(owner, status) ==
    /\ NextId \in Id
    /\ Change(NextId, [Unborn EXCEPT !.state = "live", !.owner = owner, !.status = status])

(* A request of a buyer, of somebody of the staff or of a guest, or the     *)
(* order staff convert it to, which has the same owner.                     *)
CreateRequest(who, owner) ==
    /\ table \in {"quotes", "sourcing", "orders"} /\ May("create", who)
    /\ table # "orders" => owner = who
    /\ Born(owner, Initial)
    /\ UNCHANGED <<desk, trail, disturbed>>

(* A review is its author's, or else the owner's of the quote request.      *)
CreateReview(who, owner) ==
    /\ table = "reviews" /\ May("create", who)
    /\ who # Nobody => owner = who
    /\ Born(owner, Initial)
    /\ UNCHANGED <<desk, trail, disturbed>>

(* A lead has no account behind it; its creation is audited. *)
CreateLead(h) ==
    /\ table = "leads" /\ May("create", Nobody) /\ desk[h] = Idle
    /\ Born(Nobody, Initial)
    /\ desk' = [desk EXCEPT ![h] = [Idle EXCEPT !.phase = "refreshed", !.on = NextId, !.status = Initial]]
    /\ UNCHANGED <<trail, disturbed>>

(* A notification is filed for an account; a log row is nobody's.           *)
File(owner) ==
    /\ table = "inbox" /\ owner # Nobody
    /\ Born(owner, Initial)
    /\ UNCHANGED <<desk, trail, disturbed>>

Log ==
    /\ table \in {"emails", "audit", "sockets"}
    /\ \E s \in Status : (table = "audit" \/ s = Initial) /\ Born(Nobody, s)
    /\ UNCHANGED <<desk, trail, disturbed>>

(* Staff move a request or an order on, a person its notification, and the  *)
(* dispatcher and the socket their log rows; OrderFlow, Notifications and   *)
(* EmailDelivery have these handlers in full.                               *)
Progress(r) ==
    /\ Live(r)
    /\ \/ \E who \in Person : /\ May("progress", who)
                              /\ table = "inbox" => row[r].owner = who
       \/ table \in {"emails", "sockets"}
    /\ \E s \in Status \ {row[r].status} : Change(r, [row[r] EXCEPT !.status = s])
    /\ UNCHANGED <<desk, trail, disturbed>>

(* A row is deleted: softly, or by the purge of the inbox, or with its      *)
(* partition.                                                               *)
Delete(r) ==
    /\ Live(r)
    /\ Change(r, [row[r] EXCEPT !.state = "gone"])
    /\ UNCHANGED <<desk, trail, disturbed>>

-----------------------------------------------------------------------------
StartWalk(w, who, list, filter) ==
    /\ walk[w].phase = "idle"
    /\ list \in List /\ May(list, who) /\ filter \in Filters(list)
    /\ walk' = [walk EXCEPT ![w] = [NoWalk EXCEPT !.phase = "walking", !.who = who, !.list = list,
                                                  !.filter = filter, !.cursor = MaxId + 1]]
    /\ steady' = [steady EXCEPT ![w] = Listed(list, who, filter)]
    /\ UNCHANGED <<table, row, desk, trail, disturbed>>

(* Mutant of NextPage: pages are counted, not keyed (OFFSET). *)
NextPageByOffset(w) ==
    LET S == Newest(Listed(walk[w].list, walk[w].who, walk[w].filter))
        from == Len(walk[w].shown)
        page == SubSeq(S, from + 1, IF Len(S) < from + Limit THEN Len(S) ELSE from + Limit)
    IN /\ walk[w].phase = "walking"
       /\ walk' = [walk EXCEPT ![w].shown = @ \o page,
                               ![w].phase = IF Len(page) < Limit THEN "done" ELSE "walking"]
       /\ UNCHANGED <<table, row, steady, desk, trail, disturbed>>

(* One request: a page, and the id of its last row as the next cursor. *)
NextPage(w) ==
    LET S == Listed(walk[w].list, walk[w].who, walk[w].filter)
        page == Page(S, walk[w].cursor)
    IN /\ walk[w].phase = "walking"
       /\ walk' = [walk EXCEPT ![w].shown = @ \o page,
                               ![w].cursor = IF page = <<>> THEN @ ELSE page[Len(page)],
                               ![w].phase = IF IsLast(S, walk[w].cursor) THEN "done" ELSE "walking"]
       /\ UNCHANGED <<table, row, steady, desk, trail, disturbed>>

-----------------------------------------------------------------------------
At(h, phase) == desk[h].phase = phase
Others(h, r) == {g \in Handler \ {h} : ~At(g, "idle") /\ desk[g].on = r}

(* get_live, before the handler sets the attributes. *)
Read(h, s, r, wants) ==
    /\ At(h, "idle") /\ Live(r)
    /\ desk' = [desk EXCEPT ![h] = [phase |-> "read", staff |-> s, on |-> r, wants |-> wants,
                                    status |-> row[r].status, by |-> row[r].by]]
    /\ disturbed' = IF Others(h, r) = {} THEN disturbed ELSE disturbed \cup {r}
    /\ UNCHANGED <<table, row, walk, steady, trail>>

Moderate(h, s, r, wants) == table = "reviews" /\ May("moderate", s) /\ Read(h, s, r, wants)
UpdateStatus(h, s, r, wants) == table = "leads" /\ May("moderate", s) /\ Read(h, s, r, wants)

(* Mutant of Written: the first moderator stays on record. *)
WrittenOnce(h) ==
    LET r == desk[h].on IN
    [row[r] EXCEPT !.status = IF desk[h].wants = desk[h].status THEN @ ELSE desk[h].wants,
                   !.by = IF table = "leads" \/ @ # Nobody THEN @ ELSE desk[h].staff]

(* What the ORM writes: the attributes that are not what was read.  A lead  *)
(* has no moderator.                                                        *)
Written(h) ==
    LET r == desk[h].on IN
    [row[r] EXCEPT !.status = IF desk[h].wants = desk[h].status THEN @ ELSE desk[h].wants,
                   !.by = IF table = "leads" \/ desk[h].staff = desk[h].by THEN @ ELSE desk[h].staff]

ModerateCommit(h) ==
    /\ At(h, "read")
    /\ Change(desk[h].on, Written(h))
    /\ desk' = [desk EXCEPT ![h].phase = "committed"]
    /\ UNCHANGED <<trail, disturbed>>

(* db.refresh: the answer, and with it the audit row, say what is now there. *)
Refresh(h) ==
    /\ At(h, "committed")
    /\ desk' = [desk EXCEPT ![h].phase = "refreshed", ![h].status = row[desk[h].on].status]
    /\ UNCHANGED <<table, row, walk, steady, trail, disturbed>>

(* The controller: the audit row, in a transaction of its own. *)
Record(h) ==
    /\ At(h, "refreshed")
    /\ trail' = [trail EXCEPT ![desk[h].on] = [status |-> desk[h].status, by |-> desk[h].staff]]
    /\ desk' = [desk EXCEPT ![h] = Idle]
    /\ UNCHANGED <<table, row, walk, steady, disturbed>>

AuditReview(h) == table = "reviews" /\ Record(h)
AuditLead(h) == table = "leads" /\ Record(h)

(* An error or a restart; after the first commit nobody writes the audit    *)
(* row.                                                                     *)
Cut(h) ==
    /\ ~At(h, "idle")
    /\ desk' = [desk EXCEPT ![h] = Idle]
    /\ disturbed' = IF At(h, "read") THEN disturbed ELSE disturbed \cup {desk[h].on}
    /\ UNCHANGED <<table, row, walk, steady, trail>>

Next ==
    \/ \E o \in Person : File(o) \/ \E who \in Person : CreateRequest(who, o) \/ CreateReview(who, o)
    \/ Log
    \/ \E r \in Id : Progress(r) \/ Delete(r)
    \/ \E w \in Walker : \/ \E who \in Person, l \in List, f \in Status \cup {"none"} : StartWalk(w, who, l, f)
                         \/ NextPage(w)
    \/ \E h \in Handler : \/ CreateLead(h)
                          \/ \E s \in Staff, r \in Id, x \in Status : Moderate(h, s, r, x) \/ UpdateStatus(h, s, r, x)
                          \/ ModerateCommit(h) \/ Refresh(h) \/ AuditReview(h) \/ AuditLead(h) \/ Cut(h)

Spec == Init /\ [][Next]_vars

-----------------------------------------------------------------------------
(* A walk never shows a row twice, and at its end it has shown every row    *)
(* that was in the list all the time, whatever came, went and changed       *)
(* between its pages (keyset_page and every list that uses it).             *)
WalksAreWhole ==
    \A w \in Walker :
        /\ \A i, j \in DOMAIN walk[w].shown : i < j => walk[w].shown[i] > walk[w].shown[j]
        /\ walk[w].phase = "done" => steady[w] \subseteq Range(walk[w].shown)

(* Unless moderations of one row overlapped or were cut off, the last audit *)
(* row about it has its status, and the moderator on record is its actor    *)
(* (ReviewService.moderate, AdminReviewController.moderate).                *)
TrailTellsDecision ==
    \A r \in Id :
        /\ r \notin disturbed /\ trail[r] # NoTrail
        /\ \A h \in Handler : ~At(h, "idle") => desk[h].on # r
        => /\ trail[r].status = row[r].status
           /\ table = "reviews" => trail[r].by = row[r].by

=============================================================================
