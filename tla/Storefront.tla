------------------------------- MODULE Storefront -------------------------------
(* What a person sees of the lists that the backend keeps: the lists and their  *)
(* moderation (Desk), one list and its copy in the browser (QueryCache), and    *)
(* the rows looked up by a key (Upserts).  No step touches two of them.         *)
EXTENDS Naturals

CONSTANTS
    Table, MaxId, Limit, Walker,    \* of Desk
    Op, Item, Hook, Unset,          \* of QueryCache
    KeyedTable, Key, OwnerOf, Absent, \* of Upserts
    Handler,                        \* handlers of moderations, and of upserts
    Customer, Clerk, Visitor        \* accounts of buyers and of the staff, and nobody's

VARIABLES
    table, row, walk, steady, desk, trail, disturbed,
    hook, rows, op, cache, invalid, fetch, unsynced, wish,
    kind, saved, gone, form, last, mixed, failed

lists == <<table, row, walk, steady, desk, trail, disturbed>>
copy == <<hook, rows, op, cache, invalid, fetch, unsynced, wish>>
keyed == <<kind, saved, gone, form, last, mixed, failed>>

D == INSTANCE Desk WITH Buyer <- Customer, Staff <- Clerk, Nobody <- Visitor
C == INSTANCE QueryCache
U == INSTANCE Upserts WITH Staff <- Clerk, Nobody <- Visitor

(* A page has rows; a list that was never fetched is no list and no item.       *)
ASSUME ListParameters ==
    /\ Table \subseteq {"quotes", "sourcing", "orders", "reviews", "leads", "inbox",
                       "emails", "audit", "sockets"}
    /\ MaxId \in Nat /\ Limit \in Nat \ {0}
    /\ Customer \cap Clerk = {} /\ Visitor \notin Customer \cup Clerk
    /\ Hook \subseteq {"favorites", "searches", "inbox"}
    /\ Unset \notin Item /\ \A S \in SUBSET Item : S # Unset

-----------------------------------------------------------------------------
(* Nothing is skipped or shown twice on a walk through a list (Desk).           *)
WalksAreWhole == D!WalksAreWhole

(* The audit trail of a row tells the decision about it (Desk).                 *)
TrailTellsDecision == D!TrailTellsDecision

(* The copy in the browser is the list of the server once nothing is under way, *)
(* and the last click on an item stands (QueryCache).                           *)
CopyIsRight == C!CopyIsRight

(* A row is what its last save asked for (Upserts).                             *)
SavesStand == U!SavesStand
=============================================================================
