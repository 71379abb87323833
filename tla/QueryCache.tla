------------------------------ MODULE QueryCache ------------------------------
(***************************************************************************)
(* A list one person keeps on the server and the copy of it in the query    *)
(* cache of the browser (Frontend/src/hooks/queries, FavoriteService,       *)
(* SavedSearchService, NotificationService): favourite units, saved         *)
(* searches, or unread notifications.                                       *)
(*                                                                         *)
(* Favourites and the reading of one notification are optimistic: the copy  *)
(* changes at the click, is rolled back on an error and fetched again when  *)
(* the request is settled.  Saved searches and "mark all read" change the   *)
(* copy when the answer has come and fetch nothing.  The cache itself is    *)
(* the library's (TanStack Query 5): cancelling a fetch drops its answer,   *)
(* setting data clears the mark of invalidation, invalidating starts a new  *)
(* fetch, every request is tried twice.                                     *)
(*                                                                         *)
(* A try is given up after fifteen seconds or when its connection is lost   *)
(* (lib/server-api.ts), which its handler does not learn: a try that nobody *)
(* waits for any more may still be run, at any later time.                  *)
(***************************************************************************)
EXTENDS Naturals, FiniteSets

CONSTANTS
    Op,        \* requests that change the list and can be under way at once
    Item,      \* units, searches or notifications
    Hook,      \* which of the lists: "favorites", "searches", "inbox"
    Unset      \* a list that was never fetched

VARIABLES
    hook,      \* the list this is about
    rows,      \* its rows on the server: none, live or deleted (read)
    op,        \* the requests, and the tries of them that were given up
    cache,     \* the copy in the browser
    invalid,   \* whether it is marked invalid
    fetch,     \* the fetch of the list that is under way
    unsynced,  \* the copy may lack a confirmed change, or one of a try that was given
               \* up, and no fetch has brought it since (history)
    wish       \* what the last click on an item asked for, unless it overlapped
               \* another, a try that was given up included, or failed (history)

server == <<hook, rows>>
browser == <<cache, invalid, fetch>>
history == <<unsynced, wish>>
vars == <<hook, rows, op, cache, invalid, fetch, unsynced, wish>>

Kind == {"add", "remove", "create", "delete", "read", "all"}
Kinds == [favorites |-> {"add", "remove"}, searches |-> {"create", "delete"}, inbox |-> {"read", "all"}]
Optimistic(k) == k \in {"add", "remove", "read"}
Adds(k) == k \in {"add", "create"}

Live == {i \in Item : rows[i] = "live"}
Shown == IF cache = Unset THEN {} ELSE cache
NoFetch == [phase |-> "none", seen |-> {}, clean |-> TRUE]
Asked == [NoFetch EXCEPT !.phase = "asked"]
Fresh == [phase |-> "idle", kind |-> "add", item |-> Unset, tries |-> 0, found |-> "none",
          previous |-> Unset, left |-> FALSE]
Touched(o) == IF op[o].kind = "all" THEN Item ELSE {op[o].item}
Busy(o) == op[o].phase # "idle"
Waiting(o) == Busy(o) /\ ~op[o].left
Applied(o, S) == CASE op[o].kind = "all" -> {}
                   [] Adds(op[o].kind) -> S \cup Touched(o)
                   [] OTHER -> S \ Touched(o)

TypeOK ==
    /\ hook \in Hook
    /\ rows \in [Item -> {"none", "live", "deleted"}]
    /\ op \in [Op -> [phase : {"idle", "cancelled", "sent", "held", "ok", "refused"},
                      kind : Kind, item : Item \cup {Unset}, tries : 0..1, found : {"none", "live", "deleted"},
                      previous : (SUBSET Item) \cup {Unset}, left : BOOLEAN]]
    /\ cache \in (SUBSET Item) \cup {Unset}
    /\ invalid \in BOOLEAN /\ unsynced \in BOOLEAN
    /\ fetch \in [phase : {"none", "asked", "read"}, seen : SUBSET Item, clean : BOOLEAN]
    /\ wish \in [Item -> {"none", "in", "out"}]

(* A list with rows from earlier visits; nothing is cached yet. *)
Init ==
    /\ hook \in Hook
    /\ rows \in [Item -> IF hook = "inbox" THEN {"live"} ELSE {"none", "live"}]
    /\ op = [o \in Op |-> Fresh]
    /\ cache = Unset /\ invalid = FALSE /\ fetch = NoFetch
    /\ unsynced = FALSE /\ wish = [i \in Item |-> "none"]

-----------------------------------------------------------------------------
(* The list is fetched when a component that shows it is mounted and the    *)
(* copy is missing, marked invalid or older than its stale time.            *)
Mount ==
    /\ fetch.phase = "none"
    /\ fetch' = Asked
    /\ UNCHANGED <<server, op, cache, invalid, history>>

(* list_mine: the live rows of the person, as one SELECT sees them. *)
ListMine ==
    /\ fetch.phase = "asked"
    /\ fetch' = [fetch EXCEPT !.phase = "read", !.seen = Live]
    /\ UNCHANGED <<server, op, cache, invalid, history>>

FetchDone ==
    /\ fetch.phase = "read"
    /\ cache' = fetch.seen /\ invalid' = FALSE /\ fetch' = NoFetch
    /\ unsynced' = ~fetch.clean
    /\ UNCHANGED <<server, op, wish>>

(* An error or a lost answer: another try, or, after the last, the copy     *)
(* stays as it is and is marked.                                            *)
FetchFails ==
    /\ fetch.phase \in {"asked", "read"}
    /\ \/ fetch' = Asked /\ UNCHANGED invalid
       \/ fetch' = NoFetch /\ invalid' = TRUE
    /\ UNCHANGED <<server, op, cache, history>>

-----------------------------------------------------------------------------
(* What the button asks for is what the copy shows at the click. *)
Offered(k, i) ==
    CASE k = "create" -> i = Unset
      [] k = "all" -> i = Unset /\ Shown # {}
      [] k = "add" -> i \in Item \ Shown
      [] OTHER -> i \in Shown

(* mutate: an optimistic request first cancels the fetch under way and      *)
(* waits for that; a confirmed one is sent at once.                         *)
Click(o, k, i) ==
    /\ op[o].phase = "idle" /\ k \in Kinds[hook] /\ Offered(k, i)
    /\ op' = [op EXCEPT ![o] = [@ EXCEPT !.phase = IF Optimistic(k) THEN "cancelled" ELSE "sent",
                                         !.kind = k, !.item = i]]
    /\ fetch' = IF Optimistic(k) THEN NoFetch ELSE fetch
    /\ LET touched == IF k = "all" THEN Item ELSE {i} \cap Item
           others == UNION {Touched(p) : p \in {q \in Op : Busy(q)}}
       IN wish' = [j \in Item |-> IF j \notin touched THEN wish[j]
                                  ELSE IF j \in others THEN "none" ELSE IF Adds(k) THEN "in" ELSE "out"]
    /\ UNCHANGED <<server, cache, invalid, unsynced>>

(* onMutate after its await: remember the copy and change it. *)
Apply(o) ==
    /\ op[o].phase = "cancelled"
    /\ op' = [op EXCEPT ![o].phase = "sent", ![o].previous = cache]
    /\ IF cache = Unset /\ op[o].kind = "read"
       THEN UNCHANGED <<cache, invalid>>
       ELSE cache' = Applied(o, Shown) /\ invalid' = FALSE
    /\ UNCHANGED <<server, fetch, history>>

-----------------------------------------------------------------------------
(* The handlers: what a request finds, then what it commits.  Its answer is *)
(* for nobody if the try was given up.                                      *)
Find(o, found) == op' = [op EXCEPT ![o].phase = "held", ![o].found = found]
Answer(o, result) == op' = [op EXCEPT ![o] = IF @.left THEN Fresh ELSE [@ EXCEPT !.phase = result]]

(* The copy may lack a change, and so may the answer of a fetch that has    *)
(* read the list.                                                           *)
Doubt(cond) ==
    /\ unsynced' = (unsynced \/ cond)
    /\ fetch' = [fetch EXCEPT !.clean = @ /\ (fetch.phase # "read" \/ ~cond)]

(* What a request commits; nothing is fetched for a try that was given up.  *)
Commit(o, new) ==
    /\ rows' = new
    /\ Doubt(op[o].left /\ new # rows)
    /\ UNCHANGED <<hook, cache, invalid, wish>>

(* FavoriteService.add looks for the row of the unit, deleted or not. *)
AddRead(o) ==
    /\ op[o].phase = "sent" /\ op[o].kind = "add"
    /\ Find(o, rows[op[o].item])
    /\ UNCHANGED <<server, browser, history>>

(* Mutant of AddCommit: a row that exists is taken for a favourite. *)
AddCommitIfNew(o) ==
    LET i == op[o].item IN
    /\ op[o].phase = "held" /\ op[o].kind = "add"
    /\ Commit(o, IF rows[i] = "none" THEN [rows EXCEPT ![i] = "live"] ELSE rows)
    /\ Answer(o, "ok")

(* It inserts a row, restores a deleted one, or leaves a live one alone; a  *)
(* second row of the unit is refused by the unique index.                   *)
AddCommit(o) ==
    LET i == op[o].item IN
    /\ op[o].phase = "held" /\ op[o].kind = "add"
    /\ IF op[o].found = "none" /\ rows[i] # "none"
       THEN Answer(o, "refused") /\ UNCHANGED <<server, browser, history>>
       ELSE /\ Commit(o, IF op[o].found = "live" THEN rows ELSE [rows EXCEPT ![i] = "live"])
            /\ Answer(o, "ok")

(* FavoriteService.remove, SavedSearchService._get_owned: 404 unless the    *)
(* row is live.                                                             *)
RemoveRead(o) ==
    /\ op[o].phase = "sent" /\ op[o].kind \in {"remove", "delete"}
    /\ IF rows[op[o].item] = "live" THEN Find(o, "live") ELSE Answer(o, "refused")
    /\ UNCHANGED <<server, browser, history>>

RemoveCommit(o) ==
    /\ op[o].phase = "held" /\ op[o].kind \in {"remove", "delete"}
    /\ Commit(o, [rows EXCEPT ![op[o].item] = "deleted"])
    /\ Answer(o, "ok")

(* SavedSearchService.create: every request makes a row of its own. *)
Create(o, i) ==
    /\ op[o].phase = "sent" /\ op[o].kind = "create"
    /\ rows[i] = "none"
    /\ Commit(o, [rows EXCEPT ![i] = "live"])
    /\ op' = [op EXCEPT ![o] = IF @.left THEN Fresh ELSE [@ EXCEPT !.phase = "ok", !.item = i]]

(* NotificationService.mark_read: a row read before is answered as it is. *)
MarkRead(o) ==
    /\ op[o].phase = "sent" /\ op[o].kind = "read"
    /\ Commit(o, [rows EXCEPT ![op[o].item] = "deleted"])
    /\ Answer(o, "ok")

(* NotificationService.mark_all_read: one UPDATE. *)
MarkAllRead(o) ==
    /\ op[o].phase = "sent" /\ op[o].kind = "all"
    /\ Commit(o, [i \in Item |-> IF rows[i] = "live" THEN "deleted" ELSE rows[i]])
    /\ Answer(o, "ok")

(* A try that was given up may never reach a handler, or end in an error.   *)
Vanish(o) ==
    /\ op[o].left
    /\ op' = [op EXCEPT ![o] = Fresh]
    /\ UNCHANGED <<server, browser, history>>

-----------------------------------------------------------------------------
Done(o) == op' = [op EXCEPT ![o] = Fresh]

(* invalidateQueries: the copy is marked and fetched again, from the start. *)
Invalidate == invalid' = TRUE /\ fetch' = Asked

(* The answer of an optimistic request: settled, the list is fetched again. *)
Settle(o) ==
    /\ op[o].phase = "ok" /\ Optimistic(op[o].kind)
    /\ Done(o)
    /\ Invalidate
    /\ UNCHANGED <<server, cache, history>>

(* A saved search that was deleted before the answer of its creation came. *)
Overtaken(o) == op[o].kind = "create" /\ rows[op[o].item] # "live"

(* The answer of a confirmed request changes the copy, which says nothing   *)
(* of a fetch under way, nor of the rows a copy never fetched lacks.        *)
Confirm(o) ==
    /\ op[o].phase = "ok" /\ ~Optimistic(op[o].kind)
    /\ Done(o)
    /\ IF cache = Unset /\ op[o].kind = "all"
       THEN UNCHANGED <<cache, invalid>>
       ELSE cache' = Applied(o, Shown) /\ invalid' = FALSE
    /\ Doubt(fetch.phase = "read" \/ cache = Unset \/ Overtaken(o))
    /\ UNCHANGED <<server, wish>>

(* Without an answer, or with an error, a try is given up, whether its      *)
(* handler has not begun, has read or has committed.                        *)
Unanswered(o) == op[o].phase \in {"sent", "held"}
CanFail(o) == ~op[o].left /\ (Unanswered(o) \/ op[o].phase \in {"ok", "refused"})
Abandoned(o) == [op[o] EXCEPT !.left = TRUE, !.tries = 0, !.previous = Unset]

(* One more try, from the start; the handler of the first may still run.    *)
Again(o) == [op[o] EXCEPT !.phase = "sent", !.tries = 1, !.found = "none",
                          !.item = IF op[o].kind = "create" THEN Unset ELSE @]
Retry(o) ==
    /\ CanFail(o) /\ op[o].tries = 0
    /\ IF Unanswered(o)
       THEN \E p \in Op : ~Busy(p) /\ op' = [op EXCEPT ![o] = Again(o), ![p] = Abandoned(o)]
       ELSE op' = [op EXCEPT ![o] = Again(o)]
    /\ Doubt(op[o].phase = "ok" /\ ~Optimistic(op[o].kind))
    /\ UNCHANGED <<server, cache, invalid, wish>>

(* Nobody can say what became of a request without an answer. *)
Forget(o) == wish' = [i \in Item |-> IF i \in Touched(o) THEN "none" ELSE wish[i]]
Leave(o) == op' = [op EXCEPT ![o] = IF Unanswered(o) THEN Abandoned(o) ELSE Fresh]

(* Mutant of GiveUp: the copy is restored and not fetched again. *)
GiveUpRestored(o) ==
    /\ CanFail(o) /\ op[o].tries = 1
    /\ Leave(o)
    /\ cache' = IF op[o].previous = Unset THEN cache ELSE op[o].previous
    /\ Forget(o)
    /\ UNCHANGED <<server, invalid, fetch, unsynced>>

(* After the second: an optimistic request restores the copy it remembers   *)
(* and is settled; a confirmed one leaves the copy alone.                   *)
GiveUp(o) ==
    /\ CanFail(o) /\ op[o].tries = 1
    /\ Leave(o)
    /\ IF Optimistic(op[o].kind)
       THEN /\ cache' = IF op[o].previous = Unset THEN cache ELSE op[o].previous
            /\ Invalidate /\ UNCHANGED unsynced
       ELSE /\ UNCHANGED <<cache, invalid>>
            /\ Doubt(op[o].phase = "ok")
    /\ Forget(o)
    /\ UNCHANGED server

-----------------------------------------------------------------------------
Handle(o) == AddRead(o) \/ AddCommit(o) \/ RemoveRead(o) \/ RemoveCommit(o) \/ MarkRead(o) \/ MarkAllRead(o)
             \/ (\E i \in Item : Create(o, i)) \/ Vanish(o)

Next ==
    \/ Mount \/ ListMine \/ FetchDone \/ FetchFails
    \/ \E o \in Op : \/ \E k \in Kind, i \in Item \cup {Unset} : Click(o, k, i)
                     \/ Apply(o) \/ Handle(o) \/ Settle(o) \/ Confirm(o) \/ Retry(o) \/ GiveUp(o)

Spec == Init /\ [][Next]_vars

-----------------------------------------------------------------------------
(* Once the browser waits for nothing and the copy is not marked invalid, it *)
(* is the list of the server, whatever overlapped, failed and was rolled    *)
(* back - but for a confirmed change that met the answer of a fetch, lost   *)
(* its own, came before the first fetch or was overtaken by its undoing, and *)
(* for what a try that was given up changed since (hooks/queries).          *)
Quiet == fetch.phase = "none" /\ \A o \in Op : ~Waiting(o)
CacheSettles == Quiet /\ cache # Unset /\ ~invalid /\ ~unsynced => cache = Live

(* The last click on an item that was answered without an error and was     *)
(* alone stands on the server, after any adding, removing and retrying      *)
(* before it, and whatever the first try of it still does (FavoriteService, *)
(* SavedSearchService, mark_read).                                          *)
LastClickStands ==
    \A i \in Item :
        /\ wish[i] # "none" /\ \A o \in Op : Waiting(o) => i \notin Touched(o)
        => (rows[i] = "live") = (wish[i] = "in")

(* What a person sees is what is kept, and what was clicked.                *)
CopyIsRight == CacheSettles /\ LastClickStands

=============================================================================
