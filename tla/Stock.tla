-------------------------------- MODULE Stock ---------------------------------
(***************************************************************************)
(* The stock catalogue (Backend/app/Services/StockService.py): a visitor    *)
(* chooses options of the facets and walks the pages of a search, or opens  *)
(* the market position of a unit, while staff change prices and units       *)
(* arrive, are sold and are withdrawn.                                      *)
(*                                                                         *)
(* Every SELECT is a step of its own.  A price change is two transactions,  *)
(* the price and the audit row.  A column a search can sort by is a key     *)
(* that grows along the list; attributes are values to compare.             *)
(***************************************************************************)
EXTENDS Integers, FiniteSets

CONSTANTS
    Unit,       \* unit ids: a greater one is newer
    Price,      \* prices
    Seeded,     \* the price each unit is seeded with
    Of,         \* Of[a][u]: attribute a of unit u
    Grade,      \* Grade[u]: the rank of its auction grade
    Mileage,    \* Mileage[u], Nil where it is unknown
    NoMileage,  \* _NO_MILEAGE
    Filter,     \* the filters visitors search with, see Matching and Choose
    Sort,       \* the sorts they ask for
    Staff,      \* price updates
    Limit,      \* units of a page
    MinPeers, Sample, Comparables,  \* INSIGHT_MIN_PEERS, INSIGHT_SAMPLE_LIMIT, COMPARABLES_LIMIT
    Unset,        \* no filter
    Nil         \* SQL NULL, or no cursor

(* fuel_type stands for steering_position too.  A model has no facet. *)
Attribute == {"category", "body_type", "make", "model", "fuel_type"}
Facet == Attribute \ {"model"}

ASSUME Parameters ==
    /\ Unit \subseteq Int /\ IsFiniteSet(Unit)
    /\ Price \subseteq Int /\ Seeded \in [Unit -> Price]
    /\ Grade \in [Unit -> Int] /\ Mileage \in [Unit -> Int \cup {Nil}] /\ NoMileage \in Int
    /\ DOMAIN Of = Attribute /\ \A a \in Attribute, u \in Unit : Of[a][u] # Unset
    /\ \A f \in Filter :
          /\ f = [n \in Attribute \cup {"price_max"} |-> f[n]]
          /\ \A a \in Facet, u \in Unit : [f EXCEPT ![a] = Of[a][u]] \in Filter
    /\ Sort \subseteq {"newest", "price_asc", "price_desc", "grade_desc", "mileage_asc"}
    /\ Limit \in Nat \ {0} /\ MinPeers \in Nat /\ Sample \in Nat /\ Comparables \in Nat
    /\ Nil \notin Int /\ Nil \notin [key : Int, id : Unit] /\ Unset \notin Int

VARIABLES
    stock,      \* units.status, "none" before the row exists, "deleted" with deleted_at
    price,      \* units.price_usd
    step,       \* what each price update does next
    target,     \* the unit it changes
    old,        \* the price it has read
    new,        \* the price it was sent
    trail,      \* the price of the last audit row of a unit, at first the seeded one
    doubt,      \* units two updates of which overlapped, or of which one was cut (history)
    phase,      \* what the visitor is doing
    sort, filter,
    cursor,     \* the key and the id the next page starts after, Nil at first
    total,      \* "of N", counted with the first page
    shown,      \* how often each unit has been on a page
    steady,     \* units that matched, with the same key, ever since the walk began (history)
    quiet,      \* whether the catalogue has not changed since (history)
    figure,     \* the figure beside the option that was chosen last, Nil once the
                \* catalogue has changed (history)
    viewed,     \* the unit whose detail page is open
    scope,      \* the scope its peers are looked for in
    peers       \* the peers found there

catalogue == <<stock, price>>
updates == <<step, target, old, new, trail, doubt>>
walk == <<sort, filter, cursor, total, shown>>
detail == <<viewed, scope, peers>>
history == <<steady, quiet, figure>>
vars == <<catalogue, updates, phase, walk, detail, history>>

Cursor == [key : Int, id : Unit]

TypeOK ==
    /\ stock \in [Unit -> {"none", "in_stock", "sold", "deleted"}]
    /\ price \in [Unit -> Price] /\ trail \in [Unit -> Price] /\ doubt \subseteq Unit
    /\ step \in [Staff -> {"new", "read", "priced", "end"}]
    /\ target \in [Staff -> Unit \cup {Nil}]
    /\ old \in [Staff -> Price \cup {Nil}] /\ new \in [Staff -> Price \cup {Nil}]
    /\ phase \in {"idle", "walk", "walked", "widen", "compare", "compared"}
    /\ sort \in Sort /\ filter \in Filter
    /\ cursor \in Cursor \cup {Nil} /\ total \in Nat /\ shown \in [Unit -> Nat]
    /\ steady \subseteq Unit /\ quiet \in BOOLEAN /\ figure \in Nat \cup {Nil}
    /\ viewed \in Unit \cup {Nil} /\ scope \in 1..3 /\ peers \subseteq Unit

-----------------------------------------------------------------------------
(* Queries. *)

Live(st) == {u \in Unit : st[u] \in {"in_stock", "sold"}}
Active(st) == {u \in Unit : st[u] = "in_stock"}

(* _filters: a filter gives each attribute a value or Unset, and a highest price. *)
Matching(f, us, pr) ==
    {u \in us : /\ \A a \in Attribute : f[a] \in {Unset, Of[a][u]}
                /\ f["price_max"] = Unset \/ pr[u] <= f["price_max"]}

Excluding(f, name) == [f EXCEPT ![name] = Unset]

(* Mutant of Scoped: every list leaves the filter of the makes out. *)
ScopedAsMake(name) == Excluding(filter, "make")

(* The conditions a facet counts under: these three lists leave their own filter *)
(* out, so that another option can be chosen; the others share one query.        *)
Scoped(name) ==
    IF name \in {"category", "make", "body_type"} THEN Excluding(filter, name) ELSE filter

(* Facets count what is in stock; the search lists what is sold as well. *)
FacetCount(name, value) ==
    Cardinality({u \in Matching(Scoped(name), Active(stock), price) : Of[name][u] = value})

(* _sort_column and _sort_value: the key grows along the list. *)
Key(s, u, pr) ==
    CASE s = "price_asc" -> pr[u]
      [] s = "price_desc" -> -pr[u]
      [] s = "grade_desc" -> -Grade[u]
      [] s = "mileage_asc" -> IF Mileage[u] = Nil THEN NoMileage ELSE Mileage[u]
      [] OTHER -> 0

(* ORDER BY key, id DESC. *)
Before(k, i, l, j) == k < l \/ (k = l /\ i > j)

(* Mutant of After: the cursor is the key alone. *)
AfterKey(c, u) == c = Nil \/ Key(sort, u, price) > c.key

After(c, u) == c = Nil \/ Before(c.key, c.id, Key(sort, u, price), u)

Rest == {u \in Matching(filter, Live(stock), price) : After(cursor, u)}

Earlier(us, u) == {v \in us : Before(Key(sort, v, price), v, Key(sort, u, price), u)}

(* LIMIT. *)
Page == {u \in Rest : Cardinality(Earlier(Rest, u)) < Limit}

Init ==
    /\ stock \in [Unit -> {"none", "in_stock"}]
    /\ price = Seeded /\ trail = Seeded /\ doubt = {}
    /\ step = [h \in Staff |-> "new"]
    /\ target = [h \in Staff |-> Nil]
    /\ old = [h \in Staff |-> Nil]
    /\ new = [h \in Staff |-> Nil]
    /\ phase = "idle"
    /\ sort \in Sort /\ filter \in Filter
    /\ cursor = Nil /\ total = 0
    /\ shown = [u \in Unit |-> 0]
    /\ steady = {} /\ quiet = TRUE /\ figure = Nil
    /\ viewed = Nil /\ scope = 1 /\ peers = {}

-----------------------------------------------------------------------------
(* The visitor's search.  history is what a change of the catalogue leaves. *)

Remember ==
    /\ steady' = {u \in steady : /\ u \in Matching(filter, Live(stock'), price')
                                 /\ Key(sort, u, price') = Key(sort, u, price)}
    /\ quiet' = (quiet /\ stock' = stock /\ price' = price)
    /\ figure' = IF stock' = stock /\ price' = price THEN figure ELSE Nil

(* A list offers what it counts, with the figure beside it (FilterPanel); what is *)
(* chosen takes the place of that filter, and the others stay as they are.        *)
Choose(name, value) ==
    /\ phase = "idle" /\ FacetCount(name, value) > 0
    /\ figure' = FacetCount(name, value)
    /\ filter' = [filter EXCEPT ![name] = value]
    /\ UNCHANGED <<catalogue, updates, phase, sort, cursor, total, shown, detail, steady, quiet>>

(* search without a cursor counts first. *)
Count ==
    /\ phase = "idle"
    /\ phase' = "walk"
    /\ total' = Cardinality(Matching(filter, Live(stock), price))
    /\ steady' = Matching(filter, Live(stock), price) /\ quiet' = TRUE
    /\ UNCHANGED <<catalogue, updates, sort, filter, cursor, shown, detail, figure>>

HasMore == Cardinality(Rest) > Limit

LastOf(us, u) == \A v \in us \ {u} : u \notin Earlier(us, v)

(* search: one page; the cursor is its last row if there is more. *)
ShowPage ==
    /\ phase = "walk"
    /\ shown' = [u \in Unit |-> IF u \in Page THEN shown[u] + 1 ELSE shown[u]]
    /\ \/ /\ HasMore
          /\ \E u \in Page :
                /\ LastOf(Page, u)
                /\ cursor' = [key |-> Key(sort, u, price), id |-> u]
          /\ UNCHANGED phase
       \/ /\ ~HasMore
          /\ phase' = "walked"
          /\ UNCHANGED cursor
    /\ UNCHANGED <<catalogue, updates, sort, filter, total, detail, history>>

-----------------------------------------------------------------------------
(* The market position of a unit. *)

Scope == <<{"make", "model"}, {"body_type"}, {}>>

Peers(u, i) ==
    {v \in Active(stock) \ {u} : \A a \in Scope[i] \cup {"category"} : Of[a][v] = Of[a][u]}

(* ORDER BY id DESC LIMIT n. *)
Newest(us, n) == {u \in us : Cardinality({v \in us : v > u}) < n}

Open(u) ==
    /\ phase = "idle" /\ u \in Live(stock)
    /\ phase' = "widen" /\ viewed' = u /\ quiet' = TRUE
    /\ UNCHANGED <<catalogue, updates, walk, scope, peers, steady, figure>>

(* Mutant of Widen: a scope is left only when it is empty. *)
WidenIfEmpty ==
    /\ phase = "widen"
    /\ peers' = Newest(Peers(viewed, scope), Sample)
    /\ IF peers' # {} \/ scope = 3
          THEN phase' = "compare" /\ UNCHANGED scope
          ELSE scope' = scope + 1 /\ UNCHANGED phase
    /\ UNCHANGED <<catalogue, updates, walk, viewed, history>>

Widen ==
    /\ phase = "widen"
    /\ peers' = Newest(Peers(viewed, scope), Sample)
    /\ IF Cardinality(peers') >= MinPeers \/ scope = 3
          THEN phase' = "compare" /\ UNCHANGED scope
          ELSE scope' = scope + 1 /\ UNCHANGED phase
    /\ UNCHANGED <<catalogue, updates, walk, viewed, history>>

(* The comparables are read again by id, whatever their status is by then. *)
Compare ==
    /\ phase = "compare"
    /\ phase' = "compared"
    /\ peers' = Newest(peers, Comparables)
    /\ UNCHANGED <<catalogue, updates, walk, viewed, scope, history>>

-----------------------------------------------------------------------------
(* Price changes. *)

(* The update is over; its local values are gone. *)
End(h) ==
    /\ step' = [step EXCEPT ![h] = "end"]
    /\ target' = [target EXCEPT ![h] = Nil]
    /\ old' = [old EXCEPT ![h] = Nil]
    /\ new' = [new EXCEPT ![h] = Nil]

Busy(u) == \E h \in Staff : step[h] \in {"read", "priced"} /\ target[h] = u

(* update_price: db.get and the check. *)
PriceRead(h, u, p) ==
    /\ step[h] = "new" /\ u \in Live(stock)
    /\ step' = [step EXCEPT ![h] = "read"]
    /\ target' = [target EXCEPT ![h] = u]
    /\ old' = [old EXCEPT ![h] = price[u]]
    /\ new' = [new EXCEPT ![h] = p]
    /\ doubt' = IF Busy(u) THEN doubt \cup {u} ELSE doubt
    /\ UNCHANGED <<catalogue, trail, phase, walk, detail, history>>

(* The first commit.  The ORM writes nothing if the price is the one it read;  *)
(* get_by_slug answers 404 for a unit that has been withdrawn meanwhile.       *)
PriceCommit(h) ==
    /\ step[h] = "read"
    /\ price' = [price EXCEPT ![target[h]] = IF new[h] = old[h] THEN @ ELSE new[h]]
    /\ IF target[h] \in Live(stock)
          THEN step' = [step EXCEPT ![h] = "priced"] /\ UNCHANGED <<target, old, new, doubt>>
          ELSE End(h) /\ doubt' = doubt \cup {target[h]}
    /\ UNCHANGED <<stock, trail, phase, walk, detail>>
    /\ Remember

(* Mutant of AuditCommit: the audit row names the price that was read. *)
AuditOfOld(h) ==
    /\ step[h] = "priced"
    /\ End(h)
    /\ trail' = [trail EXCEPT ![target[h]] = old[h]]
    /\ UNCHANGED <<catalogue, doubt, phase, walk, detail, history>>

(* The second commit, the controller's. *)
AuditCommit(h) ==
    /\ step[h] = "priced"
    /\ End(h)
    /\ trail' = [trail EXCEPT ![target[h]] = new[h]]
    /\ UNCHANGED <<catalogue, doubt, phase, walk, detail, history>>

(* An error or a restart: what was committed stays. *)
Cut(h) ==
    /\ step[h] \in {"read", "priced"}
    /\ End(h)
    /\ doubt' = IF step[h] = "priced" THEN doubt \cup {target[h]} ELSE doubt
    /\ UNCHANGED <<catalogue, trail, phase, walk, detail, history>>

-----------------------------------------------------------------------------
(* The seeder inserts units; an operator sells and withdraws them: no          *)
(* endpoint does.                                                               *)

Change(u, from, to) ==
    /\ stock[u] \in from
    /\ stock' = [stock EXCEPT ![u] = to]
    /\ UNCHANGED <<price, updates, phase, walk, detail>>
    /\ Remember

Arrive(u) == Change(u, {"none"}, "in_stock")
Sell(u) == Change(u, {"in_stock"}, "sold")
Withdraw(u) == Change(u, {"in_stock", "sold"}, "deleted")

-----------------------------------------------------------------------------
(* The endpoints: the facets, a search and its pages, a market position, a price. *)
Facets == \E a \in Facet, u \in Unit : Choose(a, Of[a][u])

Search == Count \/ ShowPage

Position == (\E u \in Unit : Open(u)) \/ Widen \/ Compare

Visitor == Facets \/ Search \/ Position

UpdatePrice(h) ==
    \/ \E u \in Unit, p \in Price : PriceRead(h, u, p)
    \/ PriceCommit(h) \/ AuditCommit(h) \/ Cut(h)

Next ==
    \/ Visitor
    \/ \E h \in Staff : UpdatePrice(h)
    \/ \E u \in Unit : Arrive(u) \/ Sell(u) \/ Withdraw(u)

Spec == Init /\ [][Next]_vars

-----------------------------------------------------------------------------
(* Properties. *)

(* "Pages never skip or repeat rows": a unit that matched all the while, at the *)
(* same price, is on no two pages, and on one when the walk has come to its end.*)
PagesComplete ==
    \A u \in steady : IF phase = "walked" THEN shown[u] = 1 ELSE shown[u] <= 1

(* The count of the first page is the number of units the pages show, if the   *)
(* catalogue did not change.                                                    *)
TotalIsShown ==
    phase = "walked" /\ quiet
        => /\ \A u \in Unit : shown[u] <= 1
           /\ total = Cardinality({u \in Unit : shown[u] = 1})

(* Both: the walk shows what it promised (StockService.search). *)
WalkIsWhole == PagesComplete /\ TotalIsShown

(* The figure beside an option is kept: when it has been chosen and the pages    *)
(* have been walked, so many of the units they showed are in stock, if the       *)
(* catalogue did not change; the pages show what is sold as well.                *)
OptionKeepsItsPromise ==
    phase = "walked" /\ figure # Nil
        => Cardinality({u \in Active(stock) : shown[u] = 1}) = figure

(* A market position rests on at least MinPeers others if the category has them, *)
(* of the narrowest scope that does, when nothing was sold in between.           *)
PositionIsFair ==
    phase = "compare" /\ quiet
        => /\ \/ Cardinality(peers) >= MinPeers
              \/ peers = Newest({v \in Active(stock) \ {viewed} :
                                    Of["category"][v] = Of["category"][viewed]}, Sample)
           /\ \A i \in 1..(scope - 1) : Cardinality(Newest(Peers(viewed, i), Sample)) < MinPeers

(* The trail of a unit ends with its price, unless updates of it overlapped, one *)
(* was cut between its two transactions, or one is between them now.             *)
TrailEndsWithPrice ==
    \A u \in Unit \ doubt :
        (~\E h \in Staff : step[h] = "priced" /\ target[h] = u) => trail[u] = price[u]
=============================================================================
