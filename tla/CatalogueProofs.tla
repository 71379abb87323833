---------------------------- MODULE CatalogueProofs ----------------------------
(***************************************************************************)
(* The units of the catalogue and their photos.                            *)
(*                                                                         *)
(* What Stock guarantees for any catalogue, any number of visitors' pages   *)
(* and price updates, and any limits.  Units are ordered by their key and,  *)
(* where keys tie, by their id: a strict total order, so a cursor cuts the  *)
(* list in two.  Half says that the steady units before the cut have been   *)
(* shown and the others not.                                               *)
(*                                                                         *)
(* What Gallery guarantees for any photos, requests and runs of the seeder  *)
(* and any cap.  Whoever is not stale has read what is still there, and a   *)
(* file that a row, a sheet or a request leads to is whole, being written   *)
(* or was cut off.                                                         *)
(***************************************************************************)
EXTENDS Stock, Photos, FiniteSetTheorems, TLAPS

-----------------------------------------------------------------------------
(* The order of a list. *)

LEMMA KeyInt ==
    ASSUME NEW s, NEW u \in Unit, NEW pr \in [Unit -> Price]
    PROVE  Key(s, u, pr) \in Int
  BY Parameters DEF Key

Ahead(u, v) == Before(Key(sort, u, price), u, Key(sort, v, price), v)

LEMMA Irreflexive ==
    ASSUME TypeOK, NEW u \in Unit
    PROVE  ~Ahead(u, u)
  BY KeyInt, Parameters DEF Ahead, Before, TypeOK

LEMMA Total ==
    ASSUME TypeOK, NEW u \in Unit, NEW v \in Unit, u # v, ~Ahead(u, v)
    PROVE  Ahead(v, u)
  BY KeyInt, Parameters DEF Ahead, Before, TypeOK

LEMMA Transitive ==
    ASSUME NEW k \in Int, NEW i \in Int, NEW l \in Int, NEW j \in Int, NEW m \in Int, NEW n \in Int,
           Before(k, i, l, j), Before(l, j, m, n)
    PROVE  Before(k, i, m, n)
  BY DEF Before

LEMMA FiniteRest == Rest \subseteq Unit /\ IsFiniteSet(Rest) /\ Page \subseteq Rest
  BY Parameters, FS_Subset DEF Rest, Page, Matching, Live

(* Of two units of the rest of a list, the earlier one has fewer before it. *)
LEMMA FewerAhead ==
    ASSUME TypeOK, NEW u \in Rest, NEW v \in Rest, Ahead(u, v)
    PROVE  /\ Cardinality(Earlier(Rest, u)) \in Nat /\ Cardinality(Earlier(Rest, v)) \in Nat
           /\ Cardinality(Earlier(Rest, u)) <= Cardinality(Earlier(Rest, v))
<1>1. u \in Unit /\ v \in Unit /\ Unit \subseteq Int
  BY FiniteRest, Parameters
<1>2. Earlier(Rest, u) \subseteq Earlier(Rest, v)
  <2> SUFFICES ASSUME NEW w \in Rest, Ahead(w, u)
               PROVE  Ahead(w, v)
    BY DEF Earlier, Ahead
  <2>1. w \in Unit
    BY FiniteRest
  <2> QED
    BY <1>1, <2>1, Transitive, KeyInt DEF Ahead, TypeOK
<1>3. IsFiniteSet(Earlier(Rest, v))
  BY FiniteRest, FS_Subset DEF Earlier
<1> QED
  BY <1>2, <1>3, FS_Subset, FS_CardinalityType

(* A list that fits on the page is on it. *)
LEMMA AllOnPage == TypeOK /\ ~HasMore => Page = Rest
<1> SUFFICES ASSUME TypeOK, ~HasMore, NEW u \in Rest
             PROVE  Cardinality(Earlier(Rest, u)) < Limit
  BY FiniteRest DEF Page
<1>1. Earlier(Rest, u) \subseteq Rest \ {u}
  BY Irreflexive, FiniteRest DEF Earlier, Ahead
<1>2. Cardinality(Rest \ {u}) = Cardinality(Rest) - 1 /\ IsFiniteSet(Rest \ {u})
  BY FiniteRest, FS_RemoveElement
<1>3. Cardinality(Earlier(Rest, u)) <= Cardinality(Rest \ {u})
  BY <1>1, <1>2, FS_Subset
<1>4. Cardinality(Rest) \in Nat /\ Cardinality(Earlier(Rest, u)) \in Nat
  BY <1>1, <1>2, FiniteRest, FS_Subset, FS_CardinalityType
<1> QED
  BY <1>2, <1>3, <1>4, Parameters DEF HasMore

(* The cursor a page leaves cuts the list behind the page. *)
LEMMA CursorCuts ==
    ASSUME TypeOK, NEW x \in Page, LastOf(Page, x), NEW u \in Unit,
           u \in Matching(filter, Live(stock), price)
    PROVE  Ahead(x, u) <=> After(cursor, u) /\ u \notin Page
<1>1. x \in Unit /\ x \in Rest /\ Unit \subseteq Int
  BY FiniteRest, Parameters
<1>2. ASSUME ~After(cursor, u)
      PROVE  ~Ahead(x, u)
  <2>1. cursor # Nil /\ cursor \in Cursor /\ After(cursor, x)
    BY <1>1, <1>2 DEF After, TypeOK, Rest
  <2>2. /\ cursor.key \in Int /\ cursor.id \in Int
        /\ Before(cursor.key, cursor.id, Key(sort, x, price), x)
    BY <1>1, <2>1 DEF After, Cursor
  <2> QED
    BY <1>1, <1>2, <2>1, <2>2, Transitive, KeyInt DEF Ahead, After, TypeOK
<1>3. ASSUME u \in Page
      PROVE  ~Ahead(x, u)
  BY <1>1, <1>3, Irreflexive DEF LastOf, Earlier, Ahead
<1>4. ASSUME After(cursor, u), u \notin Page
      PROVE  Ahead(x, u)
  <2> SUFFICES ASSUME ~Ahead(x, u)
               PROVE  FALSE
    OBVIOUS
  <2>1. u \in Rest /\ u # x
    BY <1>4 DEF Rest
  <2>2. Ahead(u, x)
    BY <1>1, <2>1, Total
  <2> QED
    BY <1>1, <1>4, <2>1, <2>2, FewerAhead, Parameters DEF Page
<1> QED
  BY <1>2, <1>3, <1>4

-----------------------------------------------------------------------------
(* Types. *)

LEMMA InitType == Init => TypeOK
  BY Parameters DEF Init, TypeOK

LEMMA CountType == ASSUME NEW f, NEW st, NEW pr
                   PROVE  Cardinality(Matching(f, Live(st), pr)) \in Nat
                          /\ IsFiniteSet(Matching(f, Live(st), pr))
  BY Parameters, FS_Subset, FS_CardinalityType DEF Matching, Live

LEMMA FigureType == ASSUME NEW a, NEW v
                    PROVE  FacetCount(a, v) \in Nat
<1>1. IsFiniteSet({u \in Matching(Scoped(a), Active(stock), price) : Of[a][u] = v})
  BY Parameters, FS_Subset DEF Matching, Active
<1> QED
  BY <1>1, FS_CardinalityType DEF FacetCount

LEMMA EndType == ASSUME TypeOK, NEW h \in Staff, End(h)
                 PROVE  /\ step' \in [Staff -> {"new", "read", "priced", "end"}]
                        /\ target' \in [Staff -> Unit \cup {Nil}]
                        /\ old' \in [Staff -> Price \cup {Nil}]
                        /\ new' \in [Staff -> Price \cup {Nil}]
  BY DEF End, TypeOK

(* What a busy update holds. *)
Holds ==
    \A h \in Staff : step[h] \in {"read", "priced"} =>
        target[h] \in Unit /\ old[h] \in Price /\ new[h] \in Price

LEMMA InitHolds == Init => Holds
  BY DEF Init, Holds

LEMMA StepHolds == TypeOK /\ Holds /\ [Next]_vars => Holds'
<1> SUFFICES ASSUME TypeOK, Holds, [Next]_vars
             PROVE  Holds'
  OBVIOUS
<1>1. ASSUME NEW h \in Staff, NEW u \in Unit, NEW p \in Price, PriceRead(h, u, p)
      PROVE  Holds'
  BY <1>1 DEF PriceRead, Holds, TypeOK
<1>2. ASSUME NEW h \in Staff, End(h)
      PROVE  Holds'
  BY <1>2 DEF End, Holds, TypeOK
<1>3. ASSUME NEW h \in Staff, PriceCommit(h)
      PROVE  Holds'
  BY <1>2, <1>3 DEF PriceCommit, Holds, TypeOK
<1>4. CASE UNCHANGED <<step, target, old, new>>
  BY <1>4 DEF Holds
<1> QED
  BY <1>1, <1>2, <1>3, <1>4 DEF Next, Visitor, Facets, Choose, Search, Position,
     UpdatePrice, vars, updates, Count, ShowPage, Open, Arrive, Sell, Withdraw,
     Change, Widen, Compare, AuditCommit, Cut

LEMMA StepType == TypeOK /\ Holds /\ [Next]_vars => TypeOK'
<1> SUFFICES ASSUME TypeOK, Holds, [Next]_vars
             PROVE  TypeOK'
  OBVIOUS
<1> USE DEF catalogue, updates, walk, detail, history
<1>1. ASSUME Remember
      PROVE  steady' \subseteq Unit /\ quiet' \in BOOLEAN /\ figure' \in Nat \cup {Nil}
  BY <1>1 DEF Remember, TypeOK
<1>2. CASE Count
  <2>1. total' \in Nat
    BY <1>2, CountType DEF Count
  <2>2. steady' \subseteq Unit /\ quiet' \in BOOLEAN /\ phase' = "walk"
    BY <1>2 DEF Count, Matching, Live
  <2>3. UNCHANGED <<catalogue, updates, sort, filter, cursor, shown, detail, figure>>
    BY <1>2 DEF Count
  <2> QED
    BY <2>1, <2>2, <2>3 DEF TypeOK
<1>3. CASE ShowPage
  <2>1. shown' \in [Unit -> Nat]
    BY <1>3 DEF ShowPage, TypeOK
  <2>2. cursor' \in Cursor \cup {Nil} /\ phase' \in {"walk", "walked"}
    <3>1. \A u \in Page : [key |-> Key(sort, u, price), id |-> u] \in Cursor
      BY KeyInt, FiniteRest DEF Cursor, TypeOK
    <3> QED
      BY <1>3, <3>1 DEF ShowPage, TypeOK
  <2> QED
    BY <1>3, <2>1, <2>2 DEF ShowPage, TypeOK
<1>4. ASSUME NEW u \in Unit, Open(u)
      PROVE  TypeOK'
  BY <1>4 DEF Open, TypeOK
<1>5. ASSUME NEW u \in Unit, Arrive(u) \/ Sell(u) \/ Withdraw(u)
      PROVE  TypeOK'
  BY <1>1, <1>5 DEF Arrive, Sell, Withdraw, Change, TypeOK
<1>6. CASE Widen
  <2>1. peers' \subseteq Unit
    BY <1>6 DEF Widen, Newest, Peers, Active
  <2>2. scope' \in 1..3 /\ phase' \in {"widen", "compare"}
    BY <1>6 DEF Widen, TypeOK
  <2> QED
    BY <1>6, <2>1, <2>2 DEF Widen, TypeOK
<1>7. CASE Compare
  BY <1>7 DEF Compare, Newest, TypeOK
<1>8. ASSUME NEW h \in Staff, NEW u \in Unit, NEW p \in Price, PriceRead(h, u, p)
      PROVE  TypeOK'
  BY <1>8 DEF PriceRead, TypeOK
<1>9. ASSUME NEW h \in Staff, PriceCommit(h)
      PROVE  TypeOK'
  <2>1. target[h] \in Unit /\ new[h] \in Price
    BY <1>9 DEF PriceCommit, Holds
  <2>2. price' \in [Unit -> Price]
    BY <1>9, <2>1 DEF PriceCommit, TypeOK
  <2>3. /\ step' \in [Staff -> {"new", "read", "priced", "end"}]
        /\ target' \in [Staff -> Unit \cup {Nil}]
        /\ old' \in [Staff -> Price \cup {Nil}]
        /\ new' \in [Staff -> Price \cup {Nil}]
        /\ doubt' \subseteq Unit
    BY <1>9, <2>1, EndType DEF PriceCommit, TypeOK
  <2> QED
    BY <1>1, <1>9, <2>2, <2>3 DEF PriceCommit, TypeOK
<1>10. ASSUME NEW h \in Staff, AuditCommit(h)
       PROVE  TypeOK'
  <2>1. trail' \in [Unit -> Price]
    BY <1>10 DEF AuditCommit, Holds, TypeOK
  <2> QED
    BY <1>10, <2>1, EndType DEF AuditCommit, TypeOK
<1>11. ASSUME NEW h \in Staff, Cut(h)
       PROVE  TypeOK'
  <2>1. doubt' \subseteq Unit
    BY <1>11 DEF Cut, Holds, TypeOK
  <2> QED
    BY <1>11, <2>1, EndType DEF Cut, TypeOK
<1>12. CASE UNCHANGED vars
  BY <1>12 DEF vars, TypeOK
<1>13. ASSUME NEW a \in Facet, NEW u \in Unit, Choose(a, Of[a][u])
       PROVE  TypeOK'
  <2>1. figure' \in Nat
    BY <1>13, FigureType DEF Choose
  <2>2. filter' \in Filter
    BY <1>13, Parameters DEF Choose, TypeOK
  <2> QED
    BY <1>13, <2>1, <2>2 DEF Choose, TypeOK
<1> QED
  BY <1>2, <1>3, <1>4, <1>5, <1>6, <1>7, <1>8, <1>9, <1>10, <1>11, <1>12, <1>13
     DEF Next, Visitor, Facets, Search, Position, UpdatePrice

(* Catalogue, price updates and visitors keep their types (Models/units.py,    *)
(* Schemas/stock.py).                                                          *)
THEOREM TypeCorrect == Spec => []TypeOK
  BY InitType, InitHolds, StepHolds, StepType, PTL DEF Spec

-----------------------------------------------------------------------------
(* Prices and their audit rows. *)

(* Of a unit that is not in doubt one update is under way at most; what it has *)
(* read is still the price, and what it has written is.                        *)
Traced ==
    /\ \A h \in Staff : target[h] \in Unit \ doubt =>
          /\ step[h] = "read" => old[h] = price[target[h]]
          /\ step[h] = "priced" => new[h] = price[target[h]]
    /\ \A g, h \in Staff : g # h /\ target[g] = target[h] /\ target[h] \in Unit
          /\ step[g] \in {"read", "priced"} /\ step[h] \in {"read", "priced"}
          => target[h] \in doubt
    /\ TrailEndsWithPrice

LEMMA InitTraced == Init => Traced
  BY DEF Init, Traced, TrailEndsWithPrice

LEMMA StepTraced == TypeOK /\ Holds /\ Traced /\ [Next]_vars => Traced'
<1> SUFFICES ASSUME TypeOK, Holds, Traced, [Next]_vars
             PROVE  Traced'
  OBVIOUS
<1>1. ASSUME NEW h \in Staff, NEW u \in Unit, NEW p \in Price, PriceRead(h, u, p)
      PROVE  Traced'
  <2>1. /\ step[h] = "new" /\ step' = [step EXCEPT ![h] = "read"]
        /\ target' = [target EXCEPT ![h] = u] /\ old' = [old EXCEPT ![h] = price[u]]
        /\ new' = [new EXCEPT ![h] = p] /\ UNCHANGED <<price, trail>>
        /\ doubt' = IF Busy(u) THEN doubt \cup {u} ELSE doubt
    BY <1>1 DEF PriceRead, catalogue
  <2>2. TrailEndsWithPrice'
    BY <2>1 DEF Traced, TrailEndsWithPrice, TypeOK
  <2>3. \A g \in Staff \ {h} : target[g] = u /\ step[g] \in {"read", "priced"} => u \in doubt'
    BY <2>1 DEF Busy
  <2> QED
    BY <2>1, <2>2, <2>3 DEF Traced, TypeOK
<1>2. ASSUME NEW h \in Staff, PriceCommit(h)
      PROVE  Traced'
  <2> DEFINE u == target[h]
  <2>1. /\ step[h] = "read" /\ u \in Unit /\ u # Nil /\ old[h] \in Price /\ new[h] \in Price
    BY <1>2, Parameters DEF PriceCommit, Holds
  <2>2. /\ price' = [price EXCEPT ![u] = IF new[h] = old[h] THEN @ ELSE new[h]]
        /\ UNCHANGED trail /\ doubt \subseteq doubt'
    BY <1>2 DEF PriceCommit
  <2>3. \A v \in Unit \ {u} : price'[v] = price[v]
    BY <2>2 DEF TypeOK
  <2>4. u \notin doubt => price'[u] = new[h]
    BY <2>1, <2>2 DEF Traced, TypeOK
  <2>5. CASE u \in Live(stock)
    <3>1. step' = [step EXCEPT ![h] = "priced"] /\ UNCHANGED <<target, old, new, doubt>>
      BY <1>2, <2>5 DEF PriceCommit
    <3>2. \A g \in Staff \ {h} : target[g] = u /\ step[g] \in {"read", "priced"} => u \in doubt
      BY <2>1 DEF Traced
    <3>3. TrailEndsWithPrice'
      BY <2>1, <2>2, <2>3, <3>1 DEF Traced, TrailEndsWithPrice, TypeOK
    <3> QED
      BY <2>1, <2>3, <2>4, <3>1, <3>2, <3>3 DEF Traced, TypeOK
  <2>6. CASE u \notin Live(stock)
    <3>1. End(h) /\ doubt' = doubt \cup {u}
      BY <1>2, <2>6 DEF PriceCommit
    <3>2. TrailEndsWithPrice'
      BY <2>1, <2>2, <2>3, <3>1 DEF End, Traced, TrailEndsWithPrice, TypeOK
    <3> QED
      BY <2>1, <2>3, <3>1, <3>2, Parameters DEF End, Traced, TypeOK
  <2> QED
    BY <2>5, <2>6
<1>3. ASSUME NEW h \in Staff, AuditCommit(h)
      PROVE  Traced'
  <2>1. /\ step[h] = "priced" /\ target[h] \in Unit /\ End(h) /\ UNCHANGED <<price, doubt>>
        /\ trail' = [trail EXCEPT ![target[h]] = new[h]]
    BY <1>3 DEF AuditCommit, Holds, catalogue
  <2>2. TrailEndsWithPrice'
    BY <2>1, Parameters DEF End, Traced, TrailEndsWithPrice, TypeOK
  <2> QED
    BY <2>1, <2>2, Parameters DEF End, Traced, TypeOK
<1>4. ASSUME NEW h \in Staff, Cut(h)
      PROVE  Traced'
  <2>1. /\ step[h] \in {"read", "priced"} /\ target[h] \in Unit /\ End(h)
        /\ UNCHANGED <<price, trail>>
        /\ doubt' = IF step[h] = "priced" THEN doubt \cup {target[h]} ELSE doubt
    BY <1>4 DEF Cut, Holds, catalogue
  <2>2. TrailEndsWithPrice'
    BY <2>1, Parameters DEF End, Traced, TrailEndsWithPrice, TypeOK
  <2> QED
    BY <2>1, <2>2, Parameters DEF End, Traced, TypeOK
<1>5. CASE UNCHANGED <<price, updates>>
  BY <1>5 DEF updates, Traced, TrailEndsWithPrice
<1> QED
  BY <1>1, <1>2, <1>3, <1>4, <1>5 DEF Next, Visitor, Facets, Choose, Search, Position,
     UpdatePrice, vars, catalogue, Count, ShowPage, Open, Arrive, Sell,
     Withdraw, Change, Widen, Compare

(* However many price updates overlap: unless two of one unit did, or one was  *)
(* cut, the audit trail of a unit ends with its price (update_price commits    *)
(* first, AdminStockController after it).                                      *)
THEOREM TrailsEndWithPrices == Spec => []TrailEndsWithPrice
<1>1. Traced => TrailEndsWithPrice
  BY DEF Traced
<1> QED
  BY <1>1, InitType, InitHolds, InitTraced, StepHolds, StepType, StepTraced, PTL DEF Spec

-----------------------------------------------------------------------------
(* The pages of a walk. *)

Wanted == Matching(filter, Live(stock), price)

(* The cursor cuts the steady units into those that were shown and the others. *)
Half ==
    /\ phase \in {"walk", "walked"} => steady \subseteq Wanted
    /\ phase \notin {"walk", "walked"} => steady = {} /\ cursor = Nil /\ shown = [u \in Unit |-> 0]
    /\ phase = "walk" => \A u \in steady : shown[u] = IF After(cursor, u) THEN 0 ELSE 1
    /\ phase = "walked" => \A u \in steady : shown[u] = 1

(* While the catalogue does not change, nothing but the steady units is shown. *)
Still ==
    phase \in {"walk", "walked"} /\ quiet =>
        /\ steady = Wanted /\ total = Cardinality(steady)
        /\ \A u \in Unit \ steady : shown[u] = 0

LEMMA InitWalk == Init => Half /\ Still
  BY DEF Init, Half, Still

LEMMA StepWalk == TypeOK /\ Half /\ Still /\ [Next]_vars => Half' /\ Still'
<1> SUFFICES ASSUME TypeOK, Half, Still, [Next]_vars
             PROVE  Half' /\ Still'
  OBVIOUS
<1>1. CASE Count
  <2>1. /\ phase = "idle" /\ phase' = "walk" /\ steady' = Wanted
        /\ total' = Cardinality(Wanted)
        /\ UNCHANGED <<stock, price, sort, filter, cursor, shown>>
    BY <1>1 DEF Count, catalogue, Wanted
  <2>2. Wanted' = Wanted /\ Wanted \subseteq Unit
    BY <2>1 DEF Wanted, Matching, Live
  <2>3. \A u \in Unit : shown'[u] = 0 /\ After(cursor, u)'
    BY <2>1 DEF Half, After
  <2> QED
    BY <2>1, <2>2, <2>3 DEF Half, Still
<1>2. CASE ShowPage
  <2>1. /\ phase = "walk" /\ phase' \in {"walk", "walked"}
        /\ UNCHANGED <<stock, price, sort, filter, steady, quiet, total>>
        /\ shown' = [u \in Unit |-> IF u \in Page THEN shown[u] + 1 ELSE shown[u]]
    BY <1>2 DEF ShowPage, catalogue, history, TypeOK
  <2>2. Wanted' = Wanted /\ steady \subseteq Wanted /\ Wanted \subseteq Unit
    BY <2>1 DEF Half, Wanted, Matching, Live
  <2>3. Page \subseteq Rest /\ \A u \in Wanted : u \in Rest <=> After(cursor, u)
    BY FiniteRest DEF Rest, Wanted
  <2>4. \A u \in steady : shown'[u] = IF After(cursor, u) /\ u \notin Page THEN 0 ELSE 1
    <3> SUFFICES ASSUME NEW u \in steady
                 PROVE  shown'[u] = IF After(cursor, u) /\ u \notin Page THEN 0 ELSE 1
      OBVIOUS
    <3>1. shown[u] = (IF After(cursor, u) THEN 0 ELSE 1) /\ u \in Unit
      BY <2>1, <2>2 DEF Half
    <3> QED
      BY <2>1, <2>2, <2>3, <3>1
  <2>5. Still'
    <3>1. quiet => Page \subseteq steady
      BY <2>1, <2>3 DEF Still, Rest, Wanted
    <3> QED
      BY <2>1, <2>2, <3>1 DEF Still
  <2>6. CASE HasMore
    <3>1. PICK x \in Page : /\ LastOf(Page, x)
                            /\ cursor' = [key |-> Key(sort, x, price), id |-> x]
      BY <1>2, <2>6 DEF ShowPage
    <3>2. phase' = "walk"
      BY <1>2, <2>1, <2>6 DEF ShowPage
    <3>3. \A u \in steady : After(cursor, u)' <=> Ahead(x, u)
      <4>1. cursor' # Nil
        <5>1. x \in Unit
          BY FiniteRest
        <5> QED
          BY <3>1, <5>1, KeyInt, Parameters DEF TypeOK
      <4> QED
        BY <2>1, <3>1, <4>1 DEF After, Ahead
    <3>4. \A u \in steady : Ahead(x, u) <=> After(cursor, u) /\ u \notin Page
      BY <2>2, <3>1, CursorCuts DEF Wanted
    <3> QED
      BY <2>1, <2>2, <2>4, <2>5, <3>2, <3>3, <3>4 DEF Half
  <2>7. CASE ~HasMore
    <3>1. phase' = "walked"
      BY <1>2, <2>7 DEF ShowPage
    <3>2. \A u \in steady : ~(After(cursor, u) /\ u \notin Page)
      BY <2>2, <2>3, <2>7, AllOnPage
    <3> QED
      BY <2>1, <2>2, <2>4, <2>5, <3>1, <3>2 DEF Half
  <2> QED
    BY <2>6, <2>7
<1>3. ASSUME Remember, UNCHANGED <<phase, sort, filter, cursor, shown, total>>
      PROVE  Half' /\ Still'
  <2>1. steady' \subseteq steady /\ steady' \subseteq Wanted'
    BY <1>3 DEF Remember, Wanted
  <2>2. \A u \in steady' : After(cursor, u)' <=> After(cursor, u)
    BY <1>3 DEF Remember, After
  <2>3. quiet' => quiet /\ UNCHANGED <<stock, price>>
    BY <1>3 DEF Remember
  <2>4. ASSUME quiet', phase \in {"walk", "walked"}
        PROVE  steady' = steady /\ Wanted' = Wanted
    <3>1. UNCHANGED <<stock, price>> /\ steady = Wanted
      BY <2>3, <2>4 DEF Still
    <3>2. steady' = steady
      BY <1>3, <3>1 DEF Remember, Wanted
    <3>3. Wanted' = Wanted
      BY <1>3, <3>1 DEF Wanted, Matching, Live
    <3> QED
      BY <3>2, <3>3
  <2> QED
    BY <1>3, <2>1, <2>2, <2>3, <2>4 DEF Half, Still
<1>4. ASSUME \/ UNCHANGED phase
             \/ phase \notin {"walk", "walked"} /\ phase' \notin {"walk", "walked"},
             UNCHANGED <<stock, price, sort, filter, cursor, shown, total, steady>>,
             UNCHANGED quiet \/ phase' \notin {"walk", "walked"}
      PROVE  Half' /\ Still'
  <2>1. Wanted' = Wanted /\ \A u \in Unit : After(cursor, u)' <=> After(cursor, u)
    BY <1>4 DEF Wanted, Matching, Live, After
  <2> QED
    BY <1>4, <2>1 DEF Half, Still, TypeOK
<1>5. ASSUME NEW u \in Unit, Arrive(u) \/ Sell(u) \/ Withdraw(u)
      PROVE  Half' /\ Still'
  BY <1>3, <1>5 DEF Arrive, Sell, Withdraw, Change, walk
<1>6. ASSUME NEW h \in Staff, PriceCommit(h)
      PROVE  Half' /\ Still'
  BY <1>3, <1>6 DEF PriceCommit, walk
<1>7. ASSUME NEW u \in Unit, Open(u)
      PROVE  Half' /\ Still'
  BY <1>4, <1>7 DEF Open, catalogue, walk
<1>8. CASE Widen \/ Compare
  BY <1>4, <1>8 DEF Widen, Compare, catalogue, walk, history
<1>9. ASSUME NEW h \in Staff, \/ AuditCommit(h) \/ Cut(h)
                              \/ \E u \in Unit, p \in Price : PriceRead(h, u, p)
      PROVE  Half' /\ Still'
  BY <1>4, <1>9 DEF PriceRead, AuditCommit, Cut, catalogue, walk, history
<1>10. CASE UNCHANGED vars
  BY <1>4, <1>10 DEF vars, catalogue, walk, history
<1>11. ASSUME NEW a \in Facet, NEW u \in Unit, Choose(a, Of[a][u])
       PROVE  Half' /\ Still'
  BY <1>11 DEF Choose, Half, Still
<1> QED
  BY <1>1, <1>2, <1>5, <1>6, <1>7, <1>8, <1>9, <1>10, <1>11
     DEF Next, Visitor, Facets, Search, Position, UpdatePrice

LEMMA WalkSound == TypeOK /\ Half /\ Still => WalkIsWhole
<1> SUFFICES ASSUME TypeOK, Half, Still
             PROVE  WalkIsWhole
  OBVIOUS
<1>1. PagesComplete
  BY DEF Half, PagesComplete, TypeOK
<1>2. ASSUME phase = "walked", quiet
      PROVE  /\ \A u \in Unit : shown[u] <= 1
             /\ steady = {u \in Unit : shown[u] = 1}
  BY <1>2 DEF Half, Still, TypeOK
<1> QED
  BY <1>1, <1>2 DEF WalkIsWhole, TotalIsShown, Still

(* Whatever is bought, withdrawn, priced anew or added between two pages: a    *)
(* unit that went on matching at its price is on exactly one page of the whole *)
(* walk, and of a quiet catalogue the total is what the pages show             *)
(* (StockService.search).                                                      *)
THEOREM WalksAreAlwaysWhole == Spec => []WalkIsWhole
  BY InitType, InitHolds, InitWalk, StepHolds, StepType, StepWalk, WalkSound, PTL DEF Spec

-----------------------------------------------------------------------------
(* Facets and market positions. *)

(* What a list counts for an option it offers is what the filter with that      *)
(* option finds in stock.  The lists that keep their own filter offer nothing   *)
(* but the option it has.                                                      *)
LEMMA OfferedIsFound ==
    ASSUME TypeOK, NEW a \in Facet, NEW u \in Unit, FacetCount(a, Of[a][u]) > 0
    PROVE  FacetCount(a, Of[a][u]) =
              Cardinality(Matching([filter EXCEPT ![a] = Of[a][u]], Active(stock), price))
<1> DEFINE g == [filter EXCEPT ![a] = Of[a][u]]
           e == Scoped(a)
           Counted == {v \in Matching(e, Active(stock), price) : Of[a][v] = Of[a][u]}
<1>1. /\ filter = [n \in Attribute \cup {"price_max"} |-> filter[n]]
      /\ Of[a][u] # Unset /\ a \in Attribute /\ a # "price_max"
  BY Parameters DEF TypeOK, Facet, Attribute
<1>2. /\ g[a] = Of[a][u]
      /\ \A b \in (Attribute \cup {"price_max"}) \ {a} : g[b] = filter[b] /\ e[b] = filter[b]
  BY <1>1 DEF Scoped, Excluding
<1>3. e[a] \in {Unset, Of[a][u]}
  <2>1. CASE a \in {"category", "make", "body_type"}
    BY <1>1, <2>1 DEF Scoped, Excluding
  <2>2. CASE a \notin {"category", "make", "body_type"}
    <3>1. Counted # {}
      BY FS_EmptySet DEF FacetCount
    <3>2. PICK v \in Counted : TRUE
      BY <3>1
    <3> QED
      BY <1>1, <3>2 DEF Matching
  <2> QED
    BY <2>1, <2>2
<1>4. Counted = Matching(g, Active(stock), price)
  BY <1>1, <1>2, <1>3 DEF Matching
<1> QED
  BY <1>4 DEF FacetCount

(* The figure that was promised is what the filter finds in stock, and nothing  *)
(* has changed since the search began.                                         *)
Promised ==
    figure # Nil =>
        /\ figure = Cardinality(Matching(filter, Active(stock), price))
        /\ phase \in {"walk", "walked"} => quiet

LEMMA InitPromised == Init => Promised
  BY DEF Init, Promised

LEMMA StepPromised == TypeOK /\ Promised /\ [Next]_vars => Promised'
<1> SUFFICES ASSUME TypeOK, Promised, [Next]_vars
             PROVE  Promised'
  OBVIOUS
<1>1. ASSUME NEW a \in Facet, NEW u \in Unit, Choose(a, Of[a][u])
      PROVE  Promised'
  <2>1. /\ phase' = "idle" /\ UNCHANGED <<stock, price>>
        /\ filter' = [filter EXCEPT ![a] = Of[a][u]] /\ figure' = FacetCount(a, Of[a][u])
        /\ FacetCount(a, Of[a][u]) > 0
    BY <1>1 DEF Choose, catalogue
  <2>2. figure' = Cardinality(Matching(filter', Active(stock), price))
    BY <2>1, OfferedIsFound
  <2>3. Matching(filter', Active(stock), price) = (Matching(filter, Active(stock), price))'
    BY <2>1 DEF Matching, Active
  <2> QED
    BY <2>1, <2>2, <2>3 DEF Promised
<1>2. ASSUME UNCHANGED <<stock, price, filter, figure>>,
             phase' \in {"walk", "walked"} => quiet' \/ (phase \in {"walk", "walked"} /\ quiet' = quiet)
      PROVE  Promised'
  BY <1>2 DEF Promised, Matching, Active
<1>3. ASSUME Remember, UNCHANGED <<phase, filter>>
      PROVE  Promised'
  <2>1. CASE UNCHANGED <<stock, price>>
    <3>1. UNCHANGED <<figure, quiet>>
      BY <1>3, <2>1 DEF Remember, TypeOK
    <3> QED
      BY <1>2, <1>3, <2>1, <3>1 DEF Promised
  <2>2. CASE ~UNCHANGED <<stock, price>>
    BY <1>3, <2>2 DEF Remember, Promised
  <2> QED
    BY <2>1, <2>2
<1>4. CASE Count
  BY <1>2, <1>4 DEF Count, catalogue
<1>5. CASE ShowPage
  <2>1. phase = "walk" /\ UNCHANGED <<stock, price, filter, figure, quiet>>
    BY <1>5 DEF ShowPage, catalogue, history
  <2> QED
    BY <1>2, <2>1
<1>6. CASE Position
  <2>1. phase' \notin {"walk", "walked"} /\ UNCHANGED <<stock, price, filter, figure>>
    BY <1>6 DEF Position, Open, Widen, Compare, catalogue, walk, history
  <2> QED
    BY <1>2, <2>1
<1>7. ASSUME NEW u \in Unit, Arrive(u) \/ Sell(u) \/ Withdraw(u)
      PROVE  Promised'
  BY <1>3, <1>7 DEF Arrive, Sell, Withdraw, Change, walk
<1>8. ASSUME NEW h \in Staff, PriceCommit(h)
      PROVE  Promised'
  BY <1>3, <1>8 DEF PriceCommit, walk
<1>9. ASSUME NEW h \in Staff, \/ AuditCommit(h) \/ Cut(h)
                              \/ \E u \in Unit, p \in Price : PriceRead(h, u, p)
      PROVE  Promised'
  BY <1>2, <1>9 DEF PriceRead, AuditCommit, Cut, catalogue, walk, history
<1>10. CASE UNCHANGED vars
  BY <1>2, <1>10 DEF vars, catalogue, walk, history
<1> QED
  BY <1>1, <1>4, <1>5, <1>6, <1>7, <1>8, <1>9, <1>10
     DEF Next, Visitor, Facets, Search, UpdatePrice

LEMMA PromiseKept == TypeOK /\ Half /\ Still /\ Promised => OptionKeepsItsPromise
<1> SUFFICES ASSUME TypeOK, Half, Still, Promised, phase = "walked", figure # Nil
             PROVE  Cardinality({u \in Active(stock) : shown[u] = 1}) = figure
  BY DEF OptionKeepsItsPromise
<1>1. quiet /\ figure = Cardinality(Matching(filter, Active(stock), price))
  BY DEF Promised
<1>2. \A u \in Unit : shown[u] = 1 <=> u \in Wanted
  BY <1>1 DEF Half, Still, Wanted, Matching, Live
<1>3. {u \in Active(stock) : shown[u] = 1} = Matching(filter, Active(stock), price)
  BY <1>2 DEF Wanted, Matching, Active, Live
<1> QED
  BY <1>1, <1>3

(* For any catalogue and any filters: as many of the units the pages show are   *)
(* in stock as the figure beside the chosen option said, if nothing changed     *)
(* since it was shown (StockService.facets, search).                           *)
THEOREM PromisesAreKept == Spec => []OptionKeepsItsPromise
  BY InitType, InitHolds, InitWalk, InitPromised, StepHolds, StepType, StepWalk, StepPromised,
     PromiseKept, PTL DEF Spec

(* The scopes passed over had too few peers, the one that was taken has them.  *)
Weighed ==
    quiet /\ phase \in {"widen", "compare"} =>
        /\ \A i \in 1..(scope - 1) : Cardinality(Newest(Peers(viewed, i), Sample)) < MinPeers
        /\ phase = "compare" => /\ peers = Newest(Peers(viewed, scope), Sample)
                                /\ Cardinality(peers) >= MinPeers \/ scope = 3

(* Before a position is opened the narrowest scope is the next to be tried. *)
Fresh == phase \in {"idle", "walk", "walked"} => scope = 1

LEMMA InitWeighed == Init => Weighed /\ Fresh
  BY DEF Init, Weighed, Fresh

LEMMA StepWeighed == TypeOK /\ Weighed /\ Fresh /\ [Next]_vars => Weighed' /\ Fresh'
<1> SUFFICES ASSUME TypeOK, Weighed, Fresh, [Next]_vars
             PROVE  Weighed' /\ Fresh'
  OBVIOUS
<1>1. ASSUME NEW u \in Unit, Open(u)
      PROVE  Weighed' /\ Fresh'
  BY <1>1 DEF Open, Fresh, Weighed, detail
<1>2. CASE Widen
  <2>1. /\ phase = "widen" /\ UNCHANGED <<stock, viewed, quiet>>
        /\ peers' = Newest(Peers(viewed, scope), Sample)
    BY <1>2 DEF Widen, catalogue, history
  <2>2. \A i \in 1..3 : (Newest(Peers(viewed, i), Sample))' = Newest(Peers(viewed, i), Sample)
    BY <2>1 DEF Newest, Peers, Active
  <2>3. CASE Cardinality(peers') >= MinPeers \/ scope = 3
    <3>1. phase' = "compare" /\ scope' = scope
      BY <1>2, <2>3 DEF Widen
    <3> QED
      BY <2>1, <2>2, <2>3, <3>1 DEF Weighed, Fresh, TypeOK
  <2>4. CASE ~(Cardinality(peers') >= MinPeers \/ scope = 3)
    <3>1. phase' = "widen" /\ scope' = scope + 1
      BY <1>2, <2>1, <2>4 DEF Widen
    <3>2. Cardinality(peers') \in Nat
      BY <2>1, Parameters, FS_Subset, FS_CardinalityType DEF Newest, Peers, Active
    <3>3. \A i \in 1..scope : Cardinality((Newest(Peers(viewed, i), Sample))') < MinPeers \/ ~quiet
      BY <2>1, <2>2, <2>4, <3>2, Parameters DEF Weighed, TypeOK
    <3> QED
      BY <2>1, <3>1, <3>3 DEF Weighed, Fresh, TypeOK
  <2> QED
    BY <2>3, <2>4
<1>3. ASSUME UNCHANGED <<phase, detail>>, quiet' => quiet /\ stock' = stock
      PROVE  Weighed' /\ Fresh'
  <2>1. quiet' => \A i \in 1..3 : (Newest(Peers(viewed, i), Sample))' = Newest(Peers(viewed, i), Sample)
    BY <1>3 DEF Newest, Peers, Active, detail
  <2> QED
    BY <1>3, <2>1 DEF Weighed, Fresh, detail, TypeOK
<1>4. ASSUME phase \in {"idle", "walk"}, phase' \in {"walk", "walked"}, UNCHANGED detail
      PROVE  Weighed' /\ Fresh'
  BY <1>4 DEF Weighed, Fresh, detail
<1>5. CASE Compare
  BY <1>5 DEF Compare, Weighed, Fresh
<1>6. CASE Count
  BY <1>4, <1>6 DEF Count
<1>7. CASE ShowPage
  <2>1. phase = "walk" /\ phase' \in {"walk", "walked"} /\ UNCHANGED detail
    BY <1>7 DEF ShowPage
  <2> QED
    BY <1>4, <2>1
<1>8. ASSUME NEW u \in Unit, Arrive(u) \/ Sell(u) \/ Withdraw(u)
      PROVE  Weighed' /\ Fresh'
  BY <1>3, <1>8 DEF Arrive, Sell, Withdraw, Change, Remember
<1>9. ASSUME NEW h \in Staff, PriceCommit(h)
      PROVE  Weighed' /\ Fresh'
  BY <1>3, <1>9 DEF PriceCommit, Remember
<1>10. ASSUME NEW h \in Staff, \/ AuditCommit(h) \/ Cut(h)
                               \/ \E u \in Unit, p \in Price : PriceRead(h, u, p)
       PROVE  Weighed' /\ Fresh'
  BY <1>3, <1>10 DEF PriceRead, AuditCommit, Cut, catalogue, history
<1>11. CASE UNCHANGED vars
  BY <1>3, <1>11 DEF vars, catalogue, history
<1>12. ASSUME NEW a \in Facet, NEW u \in Unit, Choose(a, Of[a][u])
       PROVE  Weighed' /\ Fresh'
  BY <1>3, <1>12 DEF Choose, catalogue
<1> QED
  BY <1>1, <1>2, <1>5, <1>6, <1>7, <1>8, <1>9, <1>10, <1>11, <1>12
     DEF Next, Visitor, Facets, Search, Position, UpdatePrice

LEMMA WeighedFair == TypeOK /\ Weighed => PositionIsFair
<1> SUFFICES ASSUME TypeOK, Weighed, phase = "compare", quiet
             PROVE  /\ \/ Cardinality(peers) >= MinPeers
                       \/ peers = Newest({v \in Active(stock) \ {viewed} :
                                    Of["category"][v] = Of["category"][viewed]}, Sample)
                    /\ \A i \in 1..(scope - 1) :
                          Cardinality(Newest(Peers(viewed, i), Sample)) < MinPeers
  BY DEF PositionIsFair
<1>1. Scope[3] \cup {"category"} = {"category"}
  BY DEF Scope
<1>2. Peers(viewed, 3) = {v \in Active(stock) \ {viewed} : Of["category"][v] = Of["category"][viewed]}
  BY <1>1 DEF Peers
<1> QED
  BY <1>2 DEF Weighed

(* For any catalogue: a market position rests on peers enough, of the          *)
(* narrowest scope that has them, if nothing was sold while they were looked   *)
(* for (StockService.insights).                                                *)
THEOREM PositionsAreFair == Spec => []PositionIsFair
  BY InitType, InitHolds, InitWeighed, StepHolds, StepType, StepWeighed, WeighedFair, PTL DEF Spec

-----------------------------------------------------------------------------
(* Gallery. *)

(* Ids are given one after the other, and a photo has one row unless it raced. *)
Consecutive == \E n \in 0..Images : G!Rows = 1..n
OneRow == \A i, j \in G!Rows : url[i] = url[j] /\ url[i] \notin raced => i = j

(* What a request carries on its way. *)
Carries(h) ==
    /\ doing[h] \in {"count", "look", "insert", "restore"} => given[h] \in Upload
    /\ doing[h] = "sheet" => given[h] \in Sheet
    /\ doing[h] = "answer" => given[h] \in Detached
    /\ doing[h] \in {"open", "write"} => given[h] \in G!File
    /\ doing[h] \in {"idle", "remove"} => given[h] = NoFile
    /\ doing[h] = "remove" => image[h] \in G!Rows
    /\ doing[h] = "restore" => image[h] \in G!Rows /\ url[image[h]] = given[h]

(* Whoever is not stale has read what is there. *)
Attaching(h) == doing[h] \in {"open", "write", "look", "insert", "restore"} /\ given[h] \in Upload
AsRead ==
    /\ \A h \in Handler \ stale :
        /\ doing[h] = "insert" => G!RowsOf(given[h]) = {}
        /\ Attaching(h) => Cardinality(G!LiveRows) < Cap
    /\ \A b \in Boot \ stale :
        at[b] = "unit_images" /\ read[b] => \A p \in absent[b] : G!RowsOf(p) = {}

(* The seeder has left nothing out behind it, and knows what is missing where *)
(* it is.                                                                     *)
Past(b, t) ==
    CASE t = "units" -> at[b] \in {"features", "unit_images", "unit_features", "destinations", "done"}
      [] t = "features" -> at[b] \in {"unit_images", "unit_features", "destinations", "done"}
      [] t = "unit_images" -> at[b] \in {"unit_features", "destinations", "done"}
      [] t = "unit_features" -> at[b] \in {"destinations", "done"}
      [] OTHER -> at[b] = "done"
SeededBy(b) ==
    /\ read[b] => at[b] \notin {"off", "done"}
    /\ row["unit"] = "none" => ~Past(b, "units") /\ (at[b] = "units" /\ read[b] => "unit" \in absent[b])
    /\ row["feature"] = "none" =>
        ~Past(b, "features") /\ (at[b] = "features" /\ read[b] => "feature" \in absent[b])
    /\ row["destination"] = "none" =>
        ~Past(b, "destinations") /\ (at[b] = "destinations" /\ read[b] => "destination" \in absent[b])
    /\ at[b] = "unit_images" => absent[b] \subseteq Seed
    /\ \A p \in Seed : G!RowsOf(p) = {} =>
        ~Past(b, "unit_images") /\ (at[b] = "unit_images" /\ read[b] => p \in absent[b])
    /\ \A k \in G!DEFAULT_UNIT_FEATURES : link[k] = "none" =>
        ~Past(b, "unit_features") /\ (at[b] = "unit_features" /\ read[b] => saw[b][k] = "none")
SeededSoFar == \A b \in Boot : SeededBy(b)

(* A file that something leads to is whole, or somebody is at it, or was cut off. *)
Writing(h, f) == doing[h] = "write" /\ given[h] = f
Kept(f) == file[f] = "whole" \/ f \in cut \/ \E h \in Handler : Writing(h, f)
Needed == {url[i] : i \in G!Rows} \cup {sheet}
          \cup {given[h] : h \in {g \in Handler : doing[g] \in {"look", "insert", "restore", "sheet"}}}
FilesKept == \A f \in G!File \cap Needed : Kept(f)

(* Of a torn file whoever opened it last has not closed it. *)
LastWriter == \A f \in G!File :
    /\ file[f] = "torn" /\ f \notin cut => writer[f] \in Handler /\ Writing(writer[f], f)
    /\ f \in cut \/ (\E h \in Handler : Writing(h, f)) => file[f] # "none"

(* A detached file is the business of one request. *)
Private == \A f \in Detached :
    /\ f \in sent => file[f] = "whole"
    /\ \A h \in Handler : given[h] = f =>
        /\ f \notin cut \cup sent /\ \A g \in Handler : given[g] = f => g = h
        /\ doing[h] \in {"open", "write", "answer"}
        /\ doing[h] = "open" => file[f] = "none"
        /\ doing[h] = "answer" => file[f] = "whole"

PhotoIInv ==
    /\ G!TypeOK /\ Consecutive /\ OneRow /\ AsRead /\ SeededSoFar
    /\ (\A h \in Handler : Carries(h))
    /\ FilesKept /\ LastWriter /\ Private

LEMMA KeySets ==
    /\ G!Key = {"unit", "feature", "destination"} /\ G!DEFAULT_UNIT_FEATURES = {<<"unit", "feature">>}
    /\ G!DEFAULT_UNIT_IMAGES = Seed /\ G!AllLive \in [G!DEFAULT_UNIT_FEATURES -> {"none", "live", "deleted"}]
  BY DEF G!Key, G!DEFAULT_UNITS, G!DEFAULT_FEATURES, G!DEFAULT_DESTINATIONS, G!DEFAULT_UNIT_FEATURES,
     G!DEFAULT_UNIT_IMAGES, G!AllLive

LEMMA NextTable ==
    /\ G!Order[1] = "units"
    /\ G!After("units") = "features" /\ G!After("features") = "unit_images"
    /\ G!After("unit_images") = "unit_features" /\ G!After("unit_features") = "destinations"
    /\ G!After("destinations") = "done"
<1> DEFINE place(t) == CHOOSE n \in 1..5 : G!Order[n] = t
<1>1. \A n \in 1..5 : /\ G!Order[n] = "units" <=> n = 1
                      /\ G!Order[n] = "features" <=> n = 2
                      /\ G!Order[n] = "unit_images" <=> n = 3
                      /\ G!Order[n] = "unit_features" <=> n = 4
                      /\ G!Order[n] = "destinations" <=> n = 5
  BY DEF G!Order
<1>2. \A t \in {"units", "features", "unit_images", "unit_features", "destinations"} :
        place(t) \in 1..5 /\ G!Order[place(t)] = t
  BY <1>1
<1>3. /\ place("units") = 1 /\ place("features") = 2 /\ place("unit_images") = 3
      /\ place("unit_features") = 4 /\ place("destinations") = 5
  BY <1>1, <1>2
<1> QED
  BY <1>3 DEF G!After, G!Order

Doing == {"idle", "count", "open", "write", "look", "insert", "restore", "sheet", "remove", "answer"}

(* The steps of a request, without the endpoints they belong to.              *)
Step(h) ==
    \/ \E f \in G!File : /\ G!Take(h, f, IF f \in Upload THEN "count" ELSE "open")
                         /\ f \in Detached => file[f] = "none" /\ \A g \in Handler : given[g] # f
    \/ G!Count(h) \/ G!OpenFile(h) \/ G!WriteFile(h) \/ G!Look(h) \/ (\E i \in G!Image : G!Insert(h, i))
    \/ G!Restore(h) \/ G!SetSheet(h) \/ (\E i \in G!Image : G!RemoveRead(h, i)) \/ G!RemoveCommit(h)
    \/ G!Answer(h) \/ G!Abort(h)

LEMMA RequestSteps == \A h \in Handler : G!Request(h) => Step(h)
<1> SUFFICES ASSUME NEW h \in Handler, G!Request(h) PROVE Step(h)
  OBVIOUS
<1>1. CASE G!BeginPhoto(h) \/ G!BeginSheet(h) \/ G!BeginDetached(h)
  BY <1>1, PhotoParameters DEF G!BeginPhoto, G!BeginSheet, G!BeginDetached, G!File, Step
<1> QED
  BY <1>1 DEF G!Request, G!AddPhoto, G!RemovePhoto, G!SetAuctionSheet, G!UploadFile, G!Save, Step

(* What a request leaves alone: other requests, and the seeder.               *)
LEMMA RequestFrame ==
    ASSUME G!TypeOK, NEW h \in Handler, Step(h)
    PROVE  /\ UNCHANGED <<row, link, at, read, absent, saw>>
           /\ doing' \in [Handler -> Doing] /\ given' \in [Handler -> G!File \cup {NoFile}]
           /\ image' \in [Handler -> G!Image \cup {NoFile}] /\ former' \in [Handler -> Sheet \cup {NoFile}]
           /\ \A g \in Handler : g # h => /\ doing'[g] = doing[g] /\ given'[g] = given[g]
                                          /\ image'[g] = image[g] /\ former'[g] = former[g]
           /\ image'[h] # NoFile <=> doing'[h] \in {"restore", "remove"}
<1>1. UNCHANGED <<row, link, at, read, absent, saw>>
  BY DEF Step, G!Take, G!Count, G!OpenFile, G!WriteFile, G!Look, G!Insert, G!Restore, G!SetSheet,
     G!RemoveRead, G!RemoveCommit, G!Answer, G!Abort, G!tables, G!boots
<1>2. CASE G!Forget(h)
  BY <1>1, <1>2 DEF G!TypeOK, G!Forget, G!Goto, Doing
<1>3. CASE \E f \in G!File : G!Take(h, f, IF f \in Upload THEN "count" ELSE "open")
  <2>1. PICK f \in G!File : G!Take(h, f, IF f \in Upload THEN "count" ELSE "open")
    BY <1>3
  <2>2. /\ doing[h] = "idle" /\ given' = [given EXCEPT ![h] = f] /\ image' = image
        /\ doing' = [doing EXCEPT ![h] = IF f \in Upload THEN "count" ELSE "open"]
        /\ former' = [former EXCEPT ![h] = IF f \in Sheet THEN sheet ELSE NoFile]
    BY <2>1 DEF G!Take, G!Goto
  <2>3. (IF f \in Upload THEN "count" ELSE "open") \in {"count", "open"}
    OBVIOUS
  <2>4. (IF f \in Sheet THEN sheet ELSE NoFile) \in Sheet \cup {NoFile}
    BY DEF G!TypeOK
  <2> QED
    BY <1>1, <2>2, <2>3, <2>4 DEF G!TypeOK, Doing
<1>4. ASSUME NEW x \in Doing \ {"restore", "remove"}, doing[h] \notin {"restore", "remove"},
             doing' = [doing EXCEPT ![h] = x], UNCHANGED <<given, image, former>>
      PROVE  /\ doing' \in [Handler -> Doing] /\ given' \in [Handler -> G!File \cup {NoFile}]
             /\ image' \in [Handler -> G!Image \cup {NoFile}] /\ former' \in [Handler -> Sheet \cup {NoFile}]
             /\ \A g \in Handler : g # h => /\ doing'[g] = doing[g] /\ given'[g] = given[g]
                                            /\ image'[g] = image[g] /\ former'[g] = former[g]
             /\ image'[h] # NoFile <=> doing'[h] \in {"restore", "remove"}
  BY <1>4 DEF G!TypeOK, Doing
<1>5. ASSUME NEW x \in {"restore", "remove"}, NEW i \in G!Image,
             doing' = [doing EXCEPT ![h] = x], image' = [image EXCEPT ![h] = i], UNCHANGED <<given, former>>
      PROVE  /\ doing' \in [Handler -> Doing] /\ given' \in [Handler -> G!File \cup {NoFile}]
             /\ image' \in [Handler -> G!Image \cup {NoFile}] /\ former' \in [Handler -> Sheet \cup {NoFile}]
             /\ \A g \in Handler : g # h => /\ doing'[g] = doing[g] /\ given'[g] = given[g]
                                            /\ image'[g] = image[g] /\ former'[g] = former[g]
             /\ image'[h] # NoFile <=> doing'[h] \in {"restore", "remove"}
  <2>1. i # NoFile
    BY PhotoParameters DEF G!Image
  <2> QED
    BY <1>5, <2>1 DEF G!TypeOK, Doing
<1>6. CASE (\E i \in G!Image : G!Insert(h, i)) \/ G!Restore(h) \/ G!SetSheet(h) \/ G!RemoveCommit(h)
           \/ G!Answer(h) \/ G!Abort(h)
  BY <1>1, <1>2, <1>6 DEF G!Insert, G!Restore, G!SetSheet, G!RemoveCommit, G!Answer, G!Abort, G!Finish,
     G!FinishChanged
<1>7. CASE G!Count(h)
  <2>1. CASE G!Finish(h)
    BY <1>1, <1>2, <2>1 DEF G!Finish
  <2>2. CASE ~G!Finish(h)
    <3>1. /\ doing[h] = "count" /\ doing' = [doing EXCEPT ![h] = "open"]
          /\ UNCHANGED <<given, image, former>>
      BY <1>7, <2>2 DEF G!Count, G!Goto
    <3> QED
      BY <1>1, <1>4, <3>1 DEF Doing
  <2> QED
    BY <2>1, <2>2
<1>8. CASE G!OpenFile(h)
  <2>1. doing[h] = "open" /\ doing' = [doing EXCEPT ![h] = "write"] /\ UNCHANGED <<given, image, former>>
    BY <1>8 DEF G!OpenFile, G!Goto
  <2> QED
    BY <1>1, <1>4, <2>1 DEF Doing
<1>9. CASE G!WriteFile(h)
  <2>1. /\ doing[h] = "write" /\ doing' = [doing EXCEPT ![h] = G!Filed(given[h])]
        /\ UNCHANGED <<given, image, former>>
    BY <1>9 DEF G!WriteFile, G!Goto
  <2>2. G!Filed(given[h]) \in {"look", "sheet", "answer"}
    BY DEF G!Filed
  <2> QED
    BY <1>1, <1>4, <2>1, <2>2 DEF Doing
<1>10. CASE G!Look(h)
  <2>1. CASE G!Finish(h)
    BY <1>1, <1>2, <2>1 DEF G!Finish
  <2>2. CASE G!Goto(h, "insert") /\ UNCHANGED <<given, image, former>>
    BY <1>1, <1>4, <1>10, <2>2 DEF G!Look, G!Goto, Doing
  <2>3. CASE \E i \in G!Rows : G!Goto(h, "restore") /\ image' = [image EXCEPT ![h] = i] /\ UNCHANGED <<given, former>>
    <3>1. PICK i \in G!Rows : G!Goto(h, "restore") /\ image' = [image EXCEPT ![h] = i] /\ UNCHANGED <<given, former>>
      BY <2>3
    <3> QED
      BY <1>1, <1>5, <3>1 DEF G!Goto, G!Rows
  <2> QED
    BY <1>10, <2>1, <2>2, <2>3 DEF G!Look
<1>11. CASE \E i \in G!Image : G!RemoveRead(h, i)
  BY <1>1, <1>5, <1>11 DEF G!RemoveRead, G!Goto
<1> QED
  BY <1>3, <1>6, <1>7, <1>8, <1>9, <1>10, <1>11 DEF Step

-----------------------------------------------------------------------------
(* The rows.                                                                  *)

LEMMA RowCount ==
    ASSUME NEW n \in 0..Images, G!Rows = 1..n
    PROVE  /\ IsFiniteSet(G!Rows) /\ Cardinality(G!Rows) = n
           /\ IsFiniteSet(G!LiveRows) /\ Cardinality(G!LiveRows) \in Nat
<1>1. n \in Nat /\ n \in Int
  BY PhotoParameters
<1>2. IsFiniteSet(1..n) /\ Cardinality(1..n) = n
  BY <1>1, FS_Interval
<1>3. G!LiveRows \subseteq 1..n
  BY DEF G!LiveRows
<1> QED
  BY <1>2, <1>3, FS_Subset, FS_CardinalityType

(* A request that changes no row.                                             *)
Changes(h) == (\E i \in G!Image : G!Insert(h, i)) \/ G!Restore(h) \/ G!RemoveCommit(h)

LEMMA QuietRequest ==
    ASSUME G!TypeOK, NEW h \in Handler, Step(h), ~Changes(h)
    PROVE  UNCHANGED <<url, removed, raced>> /\ (stale' = stale \/ (stale' = stale \ {h} /\ h \notin stale'))
<1>1. UNCHANGED <<url, removed, raced>>
  BY DEF Step, Changes, G!Take, G!Count, G!OpenFile, G!WriteFile, G!Look, G!SetSheet, G!RemoveRead,
     G!Answer, G!Abort, G!tables, G!history
<1>2. stale' = stale \/ stale' = stale \ {h}
  BY DEF Step, Changes, G!Take, G!Count, G!OpenFile, G!WriteFile, G!Look, G!SetSheet, G!RemoveRead,
     G!Answer, G!Abort, G!history, G!Finish
<1> QED
  BY <1>1, <1>2

LEMMA SameCardinality == \A S : G!Cardinality(S) = Cardinality(S)
  BY DEF G!Cardinality, Cardinality, G!IsFiniteSet, IsFiniteSet

RowsKept == Consecutive /\ OneRow /\ AsRead

LEMMA RowsQuiet ==
    ASSUME G!TypeOK, NEW h \in Handler, Carries(h), RowsKept, Step(h), ~Changes(h)
    PROVE  RowsKept'
<1>1. /\ UNCHANGED <<url, removed, raced, at, read, absent>>
      /\ stale' = stale \/ (stale' = stale \ {h} /\ h \notin stale')
      /\ \A g \in Handler : g # h => doing'[g] = doing[g] /\ given'[g] = given[g]
  BY QuietRequest, RequestFrame
<1>2. G!Rows' = G!Rows /\ G!LiveRows' = G!LiveRows /\ \A p : G!RowsOf(p)' = G!RowsOf(p)
  BY <1>1 DEF G!Rows, G!LiveRows, G!RowsOf
<1>3. Consecutive' /\ OneRow'
  BY <1>1, <1>2 DEF RowsKept, Consecutive, OneRow
<1>4. ASSUME h \notin stale'
      PROVE  /\ doing'[h] = "insert" => G!RowsOf(given'[h]) = {}
             /\ Attaching(h)' => Cardinality(G!LiveRows) < Cap
  <2>1. CASE G!Forget(h)
    BY <2>1 DEF G!TypeOK, G!Forget, G!Goto, Attaching
  <2>2. CASE \E f \in G!File : G!Take(h, f, IF f \in Upload THEN "count" ELSE "open")
    BY <2>2 DEF G!TypeOK, G!Take, G!Goto, Attaching
  <2>3. CASE G!Count(h) /\ ~G!Forget(h)
    <3>1. /\ doing' = [doing EXCEPT ![h] = "open"] /\ ~(Cardinality(G!LiveRows) >= Cap)
      BY <2>3, SameCardinality DEF G!Count, G!Goto, G!Finish
    <3>2. Cardinality(G!LiveRows) \in Nat /\ Cap \in Nat
      BY PhotoParameters, RowCount DEF RowsKept, Consecutive
    <3> QED
      BY <3>1, <3>2 DEF G!TypeOK
  <2>4. CASE G!OpenFile(h) \/ G!WriteFile(h)
    <3>1. given' = given /\ stale' = stale /\ doing[h] \in {"open", "write"} /\ doing'[h] # "insert"
      BY <2>4 DEF G!TypeOK, G!OpenFile, G!WriteFile, G!Goto, G!history, G!Filed
    <3>2. Attaching(h)' => Attaching(h)
      BY <3>1 DEF Attaching
    <3> QED
      BY <1>4, <3>1, <3>2 DEF RowsKept, AsRead
  <2>5. CASE G!Look(h) /\ ~G!Forget(h)
    <3>1. given' = given /\ stale' = stale /\ doing[h] = "look"
      BY <2>5 DEF G!Look, G!Goto, G!Finish
    <3>2. doing'[h] = "insert" => G!RowsOf(given[h]) = {}
      BY <2>5 DEF G!TypeOK, G!Look, G!Goto, G!Finish
    <3>3. Attaching(h)' => Attaching(h)
      BY <3>1 DEF Attaching
    <3> QED
      BY <1>4, <3>1, <3>2, <3>3 DEF RowsKept, AsRead
  <2>6. CASE \E i \in G!Image : G!RemoveRead(h, i)
    BY <2>6 DEF G!TypeOK, G!RemoveRead, G!Goto, Attaching
  <2> QED
    BY <2>1, <2>2, <2>3, <2>4, <2>5, <2>6 DEF Step, Changes, G!SetSheet, G!Answer, G!Abort, G!Finish
<1>5. ASSUME NEW g \in Handler \ stale', g # h
      PROVE  /\ doing'[g] = "insert" => G!RowsOf(given'[g]) = {}
             /\ Attaching(g)' => Cardinality(G!LiveRows) < Cap
  BY <1>1, <1>5 DEF RowsKept, AsRead, Attaching
<1>6. ASSUME NEW b \in Boot \ stale', at[b] = "unit_images", read[b]
      PROVE  \A p \in absent[b] : G!RowsOf(p) = {}
  BY <1>1, <1>6, PhotoParameters DEF RowsKept, AsRead
<1>7. AsRead'
  BY <1>1, <1>2, <1>4, <1>5, <1>6 DEF AsRead
<1> QED
  BY <1>3, <1>7 DEF RowsKept

(* Who changes the rows leaves everybody stale who has read them.             *)
LEMMA OthersOutdated ==
    ASSUME G!TypeOK, NEW h \in Handler, G!FinishChanged(h), UNCHANGED <<at, read, absent>>
    PROVE  AsRead'
<1>1. /\ doing' = [doing EXCEPT ![h] = "idle"]
      /\ stale' = (stale \cup G!Outdated) \ {h}
  BY DEF G!FinishChanged, G!Forget, G!Goto
<1>2. doing \in [Handler -> Doing]
  BY DEF G!TypeOK, Doing
<1>3. ASSUME NEW g \in Handler \ stale' PROVE doing'[g] = "idle"
  BY <1>1, <1>2, <1>3 DEF G!Outdated
<1>4. ASSUME NEW b \in Boot \ stale' PROVE ~read'[b]
  BY <1>1, <1>4, PhotoParameters DEF G!Outdated
<1> QED
  BY <1>3, <1>4 DEF AsRead, Attaching

LEMMA RowsInsert ==
    ASSUME G!TypeOK, NEW h \in Handler, Carries(h), RowsKept, NEW i \in G!Image, G!Insert(h, i)
    PROVE  RowsKept' /\ i \notin G!Rows /\ G!Rows' = G!Rows \cup {i}
<1>1. /\ doing[h] = "insert" /\ i \in G!NextIds(1) /\ url' = [url EXCEPT ![i] = given[h]]
      /\ raced' = IF h \in stale THEN raced \cup {given[h]} ELSE raced
      /\ G!FinishChanged(h) /\ UNCHANGED <<removed, at, read, absent>>
  BY DEF G!Insert, G!boots
<1>2. PICK n \in 0..Images : G!Rows = 1..n
  BY DEF RowsKept, Consecutive
<1>3. n < i /\ i <= n + 1 /\ n \in Nat /\ i \in Nat /\ i <= Images
  BY <1>1, <1>2, RowCount, SameCardinality, PhotoParameters DEF G!NextIds, G!Image
<1>4. i = n + 1
  BY <1>3
<1>5. given[h] \in Upload /\ given[h] # NoFile
  BY <1>1, PhotoParameters DEF Carries
<1>6. url'[i] = given[h] /\ \A j \in G!Image : j # i => url'[j] = url[j]
  BY <1>1 DEF G!TypeOK
<1>7. G!Rows' = G!Rows \cup {i} /\ i \notin G!Rows
  <2>1. i \notin G!Rows
    BY <1>2, <1>3
  <2>2. G!Rows \subseteq G!Image
    BY DEF G!Rows
  <2>3. \A j \in G!Image : url'[j] # NoFile <=> url[j] # NoFile \/ j = i
    BY <1>5, <1>6
  <2> QED
    BY <2>1, <2>2, <2>3 DEF G!Rows
<1>8. 1..(n + 1) = (1..n) \cup {n + 1} /\ n + 1 \in 0..Images
  BY <1>3, <1>4, PhotoParameters
<1>9. Consecutive'
  BY <1>2, <1>4, <1>7, <1>8 DEF Consecutive
<1>10. ASSUME NEW j \in G!Rows, url[j] = given[h], given[h] \notin raced' PROVE FALSE
  <2>1. G!RowsOf(given[h]) = {}
    BY <1>1, <1>10 DEF RowsKept, AsRead
  <2> QED
    BY <1>10, <2>1 DEF G!RowsOf
<1>11. raced \subseteq raced' /\ \A j \in G!Rows : j \in G!Image
  BY <1>1 DEF G!Rows
<1>12. OneRow'
  BY <1>6, <1>7, <1>10, <1>11 DEF OneRow, RowsKept
<1> QED
  BY <1>1, <1>7, <1>9, <1>12, OthersOutdated DEF RowsKept

LEMMA RowsRestoreOrRemove ==
    ASSUME G!TypeOK, NEW h \in Handler, RowsKept, G!Restore(h) \/ G!RemoveCommit(h)
    PROVE  RowsKept'
<1>1. G!FinishChanged(h) /\ UNCHANGED <<url, raced, at, read, absent>>
  BY DEF G!Restore, G!RemoveCommit, G!boots
<1>2. G!Rows' = G!Rows
  BY <1>1 DEF G!Rows
<1> QED
  BY <1>1, <1>2, OthersOutdated DEF RowsKept, Consecutive, OneRow

LEMMA RowsRequest ==
    ASSUME G!TypeOK, NEW h \in Handler, Carries(h), RowsKept, Step(h)
    PROVE  RowsKept'
BY RowsQuiet, RowsInsert, RowsRestoreOrRemove DEF Changes

(* The rows the seeder inserts take the next ids, one each.                   *)
LEMMA SeededRows ==
    ASSUME G!TypeOK, RowsKept, NEW b \in Boot, absent[b] \subseteq Seed, G!SeedImages(b)
    PROVE  /\ \A i \in G!Rows : url'[i] = url[i]
           /\ G!Rows \subseteq G!Rows'
           /\ Consecutive'
           /\ \A i \in G!Rows' \ G!Rows : url'[i] \in absent[b]
           /\ \A i, j \in G!Rows' \ G!Rows : url'[i] = url'[j] => i = j
           /\ \A p \in absent[b] : \E i \in G!Rows' \ G!Rows : url'[i] = p
           /\ url' \in [G!Image -> G!Photo \cup {NoFile}]
<1> DEFINE m == Cardinality(absent[b])
<1>1. PICK placed \in [absent[b] -> G!NextIds(m)] :
        /\ \A p, q \in absent[b] : placed[p] = placed[q] => p = q
        /\ url' = [i \in G!Image |-> IF \E p \in absent[b] : placed[p] = i
                                        THEN CHOOSE p \in absent[b] : placed[p] = i ELSE url[i]]
  BY SameCardinality DEF G!SeedImages
<1>2. PICK n \in 0..Images : G!Rows = 1..n
  BY DEF RowsKept, Consecutive
<1>3. IsFiniteSet(absent[b]) /\ m \in Nat /\ n \in Nat
  BY PhotoParameters, FS_Subset, FS_CardinalityType
<1> HIDE DEF m
<1>4. G!NextIds(m) = {i \in 1..Images : n < i /\ i <= n + m}
  BY <1>2, RowCount, SameCardinality DEF G!NextIds, G!Image
<1>5. G!NextIds(m) \subseteq (n + 1)..(n + m)
  BY <1>3, <1>4, PhotoParameters
<1>6. IsFiniteSet((n + 1)..(n + m)) /\ Cardinality((n + 1)..(n + m)) = m
  <2>1. ASSUME NEW x \in Int, NEW y \in Int, x = n + 1, y = n + m
        PROVE  IsFiniteSet(x..y) /\ Cardinality(x..y) = m
    <3>1. IsFiniteSet(x..y) /\ Cardinality(x..y) = IF x > y THEN 0 ELSE y - x + 1
      BY FS_Interval
    <3> QED
      BY <3>1, <2>1, <1>3
  <2> QED
    BY <2>1, <1>3
<1>7. IsFiniteSet(G!NextIds(m)) /\ Cardinality(G!NextIds(m)) <= m
  BY <1>5, <1>6, FS_Subset
<1>8. placed \in Injection(absent[b], G!NextIds(m))
  BY <1>1 DEF Injection, IsInjective
<1>9. /\ m <= Cardinality(G!NextIds(m))
      /\ m = Cardinality(G!NextIds(m)) => placed \in Surjection(absent[b], G!NextIds(m))
  BY <1>7, <1>8, FS_Injection DEF m
<1>10. Cardinality(G!NextIds(m)) = m
  <2>1. Cardinality(G!NextIds(m)) \in Nat
    BY <1>7, FS_CardinalityType
  <2> QED
    BY <1>3, <1>7, <1>9, <2>1
<1>11. G!NextIds(m) = (n + 1)..(n + m)
  BY <1>5, <1>6, <1>10, FS_Subset
<1>12. \A i \in (n + 1)..(n + m) : \E p \in absent[b] : placed[p] = i
  BY <1>9, <1>10, <1>11 DEF Surjection
<1>13. n + m <= Images
  <2>1. CASE m = 0
    BY <2>1, <1>3, PhotoParameters
  <2>2. CASE m # 0
    <3>1. n + m \in (n + 1)..(n + m)
      BY <2>2, <1>3
    <3>2. n + m \in G!NextIds(m)
      BY <3>1, <1>11
    <3> QED
      BY <3>2, <1>4
  <2> QED
    BY <2>1, <2>2
<1>14. ASSUME NEW p \in absent[b] PROVE placed[p] \in (n + 1)..(n + m) /\ url'[placed[p]] = p
  <2>1. placed[p] \in (n + 1)..(n + m)
    BY <1>1, <1>11
  <2>2. placed[p] \in G!Image
    BY <2>1, <1>3, <1>13, PhotoParameters DEF G!Image
  <2>3. url'[placed[p]] = CHOOSE q \in absent[b] : placed[q] = placed[p]
    BY <1>1, <2>2
  <2> QED
    BY <1>1, <2>1, <2>3
<1>15. ASSUME NEW i \in G!Image, i \notin (n + 1)..(n + m) PROVE url'[i] = url[i]
  BY <1>1, <1>15, <1>14
<1>16. G!Rows' = 1..(n + m)
  <2>1. ASSUME NEW i \in 1..n PROVE url'[i] = url[i] /\ i \in G!Image /\ url[i] # NoFile
    <3>1. i \in G!Rows
      BY <1>2
    <3>2. i \notin (n + 1)..(n + m)
      BY <1>3
    <3> QED
      BY <3>1, <3>2, <1>15 DEF G!Rows
  <2>2. ASSUME NEW i \in (n + 1)..(n + m) PROVE url'[i] \in absent[b]
    BY <1>12, <1>14
  <2>3. absent[b] \subseteq Seed /\ NoFile \notin absent[b]
    BY PhotoParameters
  <2>4. ASSUME NEW i \in G!Image, i \notin 1..(n + m) PROVE url'[i] = NoFile
    <3>1. i \notin 1..n /\ i \notin (n + 1)..(n + m)
      BY <2>4, <1>3
    <3>2. i \notin G!Rows
      BY <3>1, <1>2
    <3> QED
      BY <3>1, <3>2, <1>15 DEF G!Rows
  <2>5. \A i \in 1..(n + m) : (i \in 1..n \/ i \in (n + 1)..(n + m)) /\ i \in G!Image
    BY <1>3, <1>13, PhotoParameters DEF G!Image
  <2>6. \A i \in 1..(n + m) : i \in G!Rows'
    BY <2>1, <2>2, <2>3, <2>5 DEF G!Rows
  <2> QED
    BY <2>4, <2>6 DEF G!Rows
<1>17. n + m \in 0..Images
  BY <1>3, <1>13, PhotoParameters
<1>18. G!Rows' \ G!Rows = (n + 1)..(n + m) /\ G!Rows \subseteq G!Rows'
  BY <1>2, <1>3, <1>16
<1>19. ASSUME NEW i \in (n + 1)..(n + m), NEW j \in (n + 1)..(n + m), url'[i] = url'[j] PROVE i = j
  BY <1>12, <1>14, <1>19
<1>20. ASSUME NEW i \in G!Rows PROVE url'[i] = url[i]
  <2>1. i \in G!Image /\ i \notin (n + 1)..(n + m)
    BY <1>2, <1>3 DEF G!Rows
  <2> QED
    BY <2>1, <1>15
<1>21. \A i \in (n + 1)..(n + m) : url'[i] \in absent[b]
  BY <1>12, <1>14
<1>22. url' \in [G!Image -> G!Photo \cup {NoFile}]
  <2>1. url' = [i \in G!Image |-> url'[i]]
    BY <1>1
  <2>2. \A i \in G!Image : url'[i] \in G!Photo \cup {NoFile}
    BY <1>15, <1>21 DEF G!TypeOK, G!Photo
  <2> QED
    BY <2>1, <2>2
<1> QED
  BY <1>14, <1>16, <1>17, <1>18, <1>19, <1>20, <1>21, <1>22 DEF Consecutive

(* What the seeder leaves alone.                                              *)
SeedStep(b) ==
    \/ G!Start(b) \/ G!SeedRead(b) \/ G!SeedFail(b)
    \/ G!SeedUnits(b) \/ G!SeedFeatures(b) \/ G!SeedImages(b) \/ G!SeedLinks(b) \/ G!SeedDestinations(b)

LEMMA SeedFrame ==
    ASSUME G!TypeOK, NEW b \in Boot, SeedStep(b)
    PROVE  /\ UNCHANGED <<removed, sheet, file, writer, cut, sent, doing, given, image, former>>
           /\ ~G!SeedImages(b) => UNCHANGED <<url, raced>>
           /\ \A c \in Boot : c # b => /\ at'[c] = at[c] /\ read'[c] = read[c]
                                       /\ absent'[c] = absent[c] /\ saw'[c] = saw[c]
<1>1. /\ UNCHANGED <<removed, sheet, file, writer, cut, sent, doing, given, image, former>>
      /\ ~G!SeedImages(b) => UNCHANGED <<url, raced>>
  BY DEF SeedStep, G!Start, G!SeedRead, G!SeedFail, G!SeedUnits, G!SeedFeatures, G!SeedImages, G!SeedLinks,
     G!SeedDestinations, G!InsertMissing, G!tables, G!disk, G!requests, G!history
<1>2. /\ at' = [at EXCEPT ![b] = at'[b]] /\ read' = [read EXCEPT ![b] = read'[b]]
      /\ absent' = [absent EXCEPT ![b] = absent'[b]] /\ saw' = [saw EXCEPT ![b] = saw'[b]]
  <2>1. CASE G!Start(b)
    BY <2>1 DEF G!TypeOK, G!Start
  <2>2. CASE G!SeedRead(b)
    BY <2>2 DEF G!TypeOK, G!SeedRead
  <2>3. CASE G!SeedFail(b)
    BY <2>3 DEF G!TypeOK, G!SeedFail
  <2>4. CASE G!Advance(b)
    BY <2>4 DEF G!TypeOK, G!Advance
  <2> QED
    BY <2>1, <2>2, <2>3, <2>4 DEF SeedStep, G!SeedUnits, G!SeedFeatures, G!SeedImages, G!SeedLinks,
       G!SeedDestinations, G!InsertMissing
<1> QED
  BY <1>1, <1>2 DEF G!TypeOK

(* The seeder's steps that end with the next table.                           *)
SeedCommit(b) ==
    G!SeedUnits(b) \/ G!SeedFeatures(b) \/ G!SeedImages(b) \/ G!SeedLinks(b) \/ G!SeedDestinations(b)

LEMMA Advances ==
    ASSUME NEW b \in Boot, SeedCommit(b)
    PROVE  /\ G!Advance(b) /\ read[b]
           /\ at[b] \in {"units", "features", "unit_images", "unit_features", "destinations"}
BY DEF SeedCommit, G!SeedUnits, G!SeedFeatures, G!SeedImages, G!SeedLinks,
   G!SeedDestinations, G!InsertMissing

LEMMA RowsSeedImages ==
    ASSUME G!TypeOK, RowsKept, NEW b \in Boot, absent[b] \subseteq Seed, G!SeedImages(b)
    PROVE  RowsKept'
<1>1. /\ at[b] = "unit_images" /\ read[b] /\ G!Advance(b)
      /\ raced' = IF b \in stale THEN raced \cup absent[b] ELSE raced
      /\ UNCHANGED <<removed, doing, given>>
  BY DEF G!SeedImages, G!requests
<1>2. ASSUME NEW i \in G!Rows, NEW j \in G!Rows' \ G!Rows, url'[i] = url'[j], url'[i] \notin raced'
      PROVE FALSE
  <2>1. url'[j] \in absent[b] /\ url[i] = url'[j]
    BY <1>2, SeededRows
  <2>2. b \notin stale
    BY <1>1, <1>2, <2>1
  <2>3. G!RowsOf(url'[j]) = {}
    BY <1>1, <2>1, <2>2 DEF RowsKept, AsRead
  <2> QED
    BY <2>1, <2>3 DEF G!RowsOf
<1>3. raced \subseteq raced'
  BY <1>1
<1>4. ASSUME NEW i \in G!Rows', NEW j \in G!Rows', url'[i] = url'[j], url'[i] \notin raced' PROVE i = j
  <2>1. CASE i \in G!Rows /\ j \in G!Rows
    BY <2>1, <1>3, <1>4, SeededRows DEF RowsKept, OneRow
  <2>2. CASE i \notin G!Rows /\ j \notin G!Rows
    BY <2>2, <1>4, SeededRows
  <2> QED
    BY <2>1, <2>2, <1>2, <1>4
<1>5. OneRow'
  BY <1>4 DEF OneRow
<1>6. ~read'[b] /\ \A c \in Boot : c # b => at'[c] = at[c] /\ read'[c] = read[c] /\ absent'[c] = absent[c]
  BY <1>1, SeedFrame DEF SeedStep, G!Advance, G!TypeOK
<1>7. AsRead'
  <2>1. CASE url' = url
    <3>1. stale' = stale \ {b}
      BY <1>1, <2>1 DEF G!Advance
    <3>2. G!LiveRows' = G!LiveRows /\ \A p : G!RowsOf(p)' = G!RowsOf(p)
      BY <1>1, <2>1 DEF G!LiveRows, G!RowsOf, G!Rows
    <3>3. \A h \in Handler \ stale' : h \in Handler \ stale
      BY <3>1, PhotoParameters
    <3>4. \A h \in Handler : Attaching(h)' = Attaching(h)
      BY <1>1 DEF Attaching
    <3>5. \A c \in Boot \ stale' : c # b => c \in Boot \ stale
      BY <3>1
    <3>6. \A c \in Boot \ stale' : at'[c] = "unit_images" /\ read'[c] =>
              \A p \in absent'[c] : G!RowsOf(p) = {}
      BY <1>6, <3>5 DEF RowsKept, AsRead
    <3>7. \A h \in Handler \ stale' :
            /\ doing'[h] = "insert" => G!RowsOf(given'[h]) = {}
            /\ Attaching(h)' => Cardinality(G!LiveRows) < Cap
      BY <1>1, <3>3, <3>4 DEF RowsKept, AsRead
    <3> QED
      BY <3>2, <3>6, <3>7 DEF AsRead
  <2>2. CASE url' # url
    <3>1. stale' = (stale \cup G!Outdated) \ {b}
      BY <1>1, <2>2 DEF G!Advance
    <3>2. \A h \in Handler \ stale' : doing'[h] = "idle"
      BY <1>1, <3>1, PhotoParameters DEF G!Outdated
    <3>3. \A c \in Boot \ stale' : ~read'[c]
      BY <1>6, <3>1 DEF G!Outdated
    <3> QED
      BY <3>2, <3>3 DEF AsRead, Attaching
  <2> QED
    BY <2>1, <2>2
<1> QED
  BY <1>5, <1>7, SeededRows DEF RowsKept

LEMMA RowsSeed ==
    ASSUME G!TypeOK, RowsKept, NEW b \in Boot, at[b] = "unit_images" => absent[b] \subseteq Seed, SeedStep(b)
    PROVE  RowsKept'
<1>1. CASE G!SeedImages(b)
  BY <1>1, RowsSeedImages DEF G!SeedImages
<1>2. CASE ~G!SeedImages(b)
  <2>1. /\ UNCHANGED <<url, removed, raced, doing, given>>
        /\ \A c \in Boot : c # b => at'[c] = at[c] /\ read'[c] = read[c] /\ absent'[c] = absent[c]
    BY <1>2, SeedFrame
  <2>2. stale' = stale \/ stale' = stale \ {b}
    BY <1>2, <2>1 DEF SeedStep, G!Start, G!SeedRead, G!SeedFail, G!SeedUnits, G!SeedFeatures, G!SeedLinks,
       G!SeedDestinations, G!InsertMissing, G!Advance, G!history
  <2>3. G!Rows' = G!Rows /\ G!LiveRows' = G!LiveRows /\ \A p : G!RowsOf(p)' = G!RowsOf(p)
    BY <2>1 DEF G!LiveRows, G!RowsOf, G!Rows
  <2>4. \A h \in Handler \ stale' : h \in Handler \ stale
    BY <2>2, PhotoParameters
  <2>5. \A h \in Handler : Attaching(h)' = Attaching(h)
    BY <2>1 DEF Attaching
  <2>6. \A c \in Boot \ stale' : c # b => c \in Boot \ stale
    BY <2>2
  <2>7. at'[b] = "unit_images" /\ read'[b] => \A p \in absent'[b] : G!RowsOf(p) = {}
    <3>1. CASE G!Start(b)
      BY <3>1, NextTable DEF G!Start, G!TypeOK
    <3>2. CASE G!SeedRead(b)
      BY <3>2 DEF G!SeedRead, G!TypeOK, G!Absent
    <3>3. CASE G!SeedFail(b)
      BY <3>3 DEF G!SeedFail, G!TypeOK
    <3>4. CASE SeedCommit(b)
      BY <3>4, Advances DEF G!Advance, G!TypeOK
    <3> QED
      BY <3>1, <3>2, <3>3, <3>4 DEF SeedStep, SeedCommit
  <2>8. \A c \in Boot \ stale' : at'[c] = "unit_images" /\ read'[c] => \A p \in absent'[c] : G!RowsOf(p) = {}
    BY <2>1, <2>6, <2>7 DEF RowsKept, AsRead
  <2>9. \A h \in Handler \ stale' :
            /\ doing'[h] = "insert" => G!RowsOf(given'[h]) = {}
            /\ Attaching(h)' => Cardinality(G!LiveRows) < Cap
    BY <2>1, <2>4, <2>5 DEF RowsKept, AsRead
  <2> QED
    BY <2>1, <2>3, <2>8, <2>9 DEF RowsKept, AsRead, Consecutive, OneRow
<1> QED
  BY <1>1, <1>2

-----------------------------------------------------------------------------
(* Types.                                                                     *)

LEMMA TypeRequest ==
    ASSUME G!TypeOK, NEW h \in Handler, Carries(h), RowsKept, Step(h)
    PROVE  G!TypeOK'
<1>1. /\ UNCHANGED <<row, link, at, read, absent, saw>>
      /\ doing' \in [Handler -> Doing] /\ given' \in [Handler -> G!File \cup {NoFile}]
      /\ image' \in [Handler -> G!Image \cup {NoFile}] /\ former' \in [Handler -> Sheet \cup {NoFile}]
      /\ \A g \in Handler : g # h => doing'[g] = doing[g] /\ image'[g] = image[g]
      /\ image'[h] # NoFile <=> doing'[h] \in {"restore", "remove"}
  BY RequestFrame
<1>2. \A g \in Handler : image'[g] # NoFile <=> doing'[g] \in {"restore", "remove"}
  BY <1>1 DEF G!TypeOK
<1>3. url' \in [G!Image -> G!Photo \cup {NoFile}] /\ removed' \subseteq G!Rows'
  <2>1. CASE ~Changes(h)
    BY <2>1, QuietRequest DEF G!TypeOK, G!Rows
  <2>2. CASE G!Restore(h) \/ G!RemoveCommit(h)
    BY <2>2 DEF G!TypeOK, G!Restore, G!RemoveCommit, Carries, G!Rows
  <2>3. ASSUME NEW i \in G!Image, G!Insert(h, i)
        PROVE url' \in [G!Image -> G!Photo \cup {NoFile}] /\ removed' \subseteq G!Rows'
    <3>1. url' = [url EXCEPT ![i] = given[h]] /\ given[h] \in Upload /\ removed' = removed
      BY <2>3 DEF G!Insert, Carries
    <3>2. G!Rows \subseteq G!Rows'
      BY <2>3, RowsInsert
    <3> QED
      BY <3>1, <3>2 DEF G!TypeOK, G!Photo
  <2> QED
    BY <2>1, <2>2, <2>3 DEF Changes
<1>4. sheet' \in Sheet \cup {NoFile}
  BY DEF G!TypeOK, Carries, Step, G!Take, G!Count, G!OpenFile, G!WriteFile, G!Look, G!Insert, G!Restore,
     G!SetSheet, G!RemoveRead, G!RemoveCommit, G!Answer, G!Abort, G!tables
<1>5. /\ file' \in [G!File -> {"none", "torn", "whole"}] /\ writer' \in [G!File -> Handler \cup {NoFile}]
      /\ cut' \subseteq G!File /\ sent' \subseteq Detached
  <2>1. CASE UNCHANGED G!disk
    BY <2>1 DEF G!TypeOK, G!disk
  <2>2. CASE G!OpenFile(h)
    BY <2>2 DEF G!TypeOK, G!OpenFile
  <2>3. CASE G!WriteFile(h)
    BY <2>3 DEF G!TypeOK, G!WriteFile, G!Close
  <2>4. CASE G!Answer(h)
    BY <2>4 DEF G!TypeOK, G!Answer, Carries
  <2>5. CASE G!Abort(h) /\ doing[h] = "write"
    <3>1. /\ file' = file /\ sent' = sent /\ cut' = cut \cup {given[h]} /\ given[h] \in G!File
          /\ writer' = [writer EXCEPT ![given[h]] =
                IF \E g \in Handler \ {h} : doing[g] = "write" /\ given[g] = given[h] THEN @ ELSE NoFile]
      BY <2>5 DEF G!Abort, G!Close, Carries
    <3>2. cut' \subseteq G!File /\ writer' \in [G!File -> Handler \cup {NoFile}]
      BY <3>1 DEF G!TypeOK
    <3> QED
      BY <3>1, <3>2 DEF G!TypeOK
  <2> QED
    BY <2>1, <2>2, <2>3, <2>4, <2>5 DEF Step, G!Take, G!Count, G!Look, G!Insert, G!Restore,
       G!SetSheet, G!RemoveRead, G!RemoveCommit, G!Abort
<1>6. stale' \subseteq Handler \cup Boot /\ raced' \subseteq G!Photo
  <2>1. CASE ~Changes(h)
    BY <2>1, QuietRequest DEF G!TypeOK
  <2>2. CASE Changes(h)
    BY <2>2
       DEF G!TypeOK, Changes, G!Insert, G!Restore, G!RemoveCommit, G!FinishChanged, G!Outdated, Carries, G!Photo
  <2> QED
    BY <2>1, <2>2
<1> QED
  BY <1>1, <1>2, <1>3, <1>4, <1>5, <1>6 DEF G!TypeOK, Doing

LEMMA TypeSeed ==
    ASSUME G!TypeOK, RowsKept, NEW b \in Boot, at[b] = "unit_images" => absent[b] \subseteq Seed, SeedStep(b)
    PROVE  G!TypeOK'
<1> DEFINE Tables == {"off", "done", "units", "features", "unit_images", "unit_features", "destinations"}
           Links == [G!DEFAULT_UNIT_FEATURES -> {"none", "live", "deleted"}]
<1>1. /\ UNCHANGED <<removed, sheet, file, writer, cut, sent, doing, given, image, former>>
      /\ ~G!SeedImages(b) => UNCHANGED <<url, raced>>
  BY SeedFrame
<1>2. /\ at' \in [Boot -> Tables] /\ read' \in [Boot -> BOOLEAN]
      /\ absent' \in [Boot -> SUBSET (G!Key \cup Seed)] /\ saw' \in [Boot -> Links]
      /\ stale' \subseteq Handler \cup Boot
  <2>1. CASE G!Start(b)
    BY <2>1, NextTable DEF G!Start, G!TypeOK, G!history
  <2>2. CASE G!SeedRead(b)
    <3>1. G!Absent(at[b]) \subseteq G!Key \cup Seed
      BY KeySets DEF G!Absent, G!DEFAULT_UNITS, G!DEFAULT_FEATURES, G!DEFAULT_DESTINATIONS
    <3>2. G!LinksRead(at[b]) \in Links
      BY DEF G!LinksRead, G!TypeOK
    <3> QED
      BY <2>2, <3>1, <3>2 DEF G!SeedRead, G!TypeOK
  <2>3. CASE G!SeedFail(b)
    BY <2>3, KeySets DEF G!SeedFail, G!TypeOK
  <2>4. CASE SeedCommit(b)
    <3>1. G!After(at[b]) \in Tables
      BY <2>4, Advances, NextTable
    <3>2. G!Outdated \subseteq Handler \cup Boot
      BY DEF G!Outdated
    <3>3. /\ at' = [at EXCEPT ![b] = G!After(at[b])] /\ read' = [read EXCEPT ![b] = FALSE]
          /\ absent' = [absent EXCEPT ![b] = {}] /\ saw' = [saw EXCEPT ![b] = G!AllLive]
          /\ stale' \subseteq stale \cup G!Outdated
      BY <2>4, Advances DEF G!Advance
    <3>4. at' \in [Boot -> Tables] /\ read' \in [Boot -> BOOLEAN]
      BY <3>1, <3>3 DEF G!TypeOK
    <3>5. absent' \in [Boot -> SUBSET (G!Key \cup Seed)] /\ saw' \in [Boot -> Links]
      BY <3>3, KeySets DEF G!TypeOK
    <3> QED
      BY <3>2, <3>3, <3>4, <3>5 DEF G!TypeOK
  <2> QED
    BY <2>1, <2>2, <2>3, <2>4 DEF SeedStep, SeedCommit
<1>3. row' \in [G!Key -> {"none", "live", "deleted"}]
  <2>1. CASE row' = row
    BY <2>1 DEF G!TypeOK
  <2>2. CASE row' = [k \in G!Key |-> IF k \in absent[b] THEN "live" ELSE row[k]]
    BY <2>2 DEF G!TypeOK
  <2> QED
    BY <2>1, <2>2 DEF SeedStep, G!Start, G!SeedRead, G!SeedFail, G!SeedUnits, G!SeedFeatures, G!SeedImages,
       G!SeedLinks, G!SeedDestinations, G!InsertMissing, G!tables
<1>4. link' \in Links
  <2>1. CASE link' = link
    BY <2>1 DEF G!TypeOK
  <2>2. CASE link' = [k \in G!DEFAULT_UNIT_FEATURES |-> IF saw[b][k] # "live" THEN "live" ELSE link[k]]
    BY <2>2 DEF G!TypeOK
  <2> QED
    BY <2>1, <2>2 DEF SeedStep, G!Start, G!SeedRead, G!SeedFail, G!SeedUnits, G!SeedFeatures, G!SeedImages,
       G!SeedLinks, G!SeedDestinations, G!InsertMissing, G!tables
<1>5. url' \in [G!Image -> G!Photo \cup {NoFile}] /\ removed' \subseteq G!Rows' /\ raced' \subseteq G!Photo
  <2>1. CASE G!SeedImages(b)
    <3>1. raced' \subseteq raced \cup absent[b] /\ absent[b] \subseteq Seed
      BY <2>1 DEF G!SeedImages
    <3>2. url' \in [G!Image -> G!Photo \cup {NoFile}] /\ G!Rows \subseteq G!Rows'
      BY <2>1, <3>1, SeededRows
    <3> QED
      BY <1>1, <3>1, <3>2 DEF G!TypeOK, G!Photo
  <2>2. CASE ~G!SeedImages(b)
    BY <1>1, <2>2 DEF G!TypeOK, G!Rows
  <2> QED
    BY <2>1, <2>2
<1> QED
  BY <1>1, <1>2, <1>3, <1>4, <1>5 DEF G!TypeOK

LEMMA WithdrawalFrame ==
    ASSUME G!TypeOK, (\E k \in Retired : G!Retire(k)) \/ (\E k \in G!DEFAULT_UNIT_FEATURES : G!Retract(k))
    PROVE  /\ UNCHANGED <<url, removed, sheet, file, writer, cut, sent, doing, given, image, former,
                          at, read, absent, saw, stale, raced>>
           /\ row' \in [G!Key -> {"none", "live", "deleted"}] /\ \A k \in G!Key : row'[k] = "none" => row[k] = "none"
           /\ link' \in [G!DEFAULT_UNIT_FEATURES -> {"none", "live", "deleted"}]
           /\ \A k \in G!DEFAULT_UNIT_FEATURES : link'[k] = "none" => link[k] = "none"
<1>1. UNCHANGED <<url, removed, sheet, file, writer, cut, sent, doing, given, image, former,
                  at, read, absent, saw, stale, raced>>
  BY DEF G!Retire, G!Retract, G!disk, G!requests, G!boots, G!history
<1>2. /\ row' = row \/ \E k : row[k] = "live" /\ row' = [row EXCEPT ![k] = "deleted"]
      /\ link' = link \/ \E k : link[k] = "live" /\ link' = [link EXCEPT ![k] = "deleted"]
  BY DEF G!Retire, G!Retract
<1>3. /\ row' \in [G!Key -> {"none", "live", "deleted"}]
      /\ \A k \in G!Key : row'[k] = "none" => row[k] = "none"
  BY <1>2 DEF G!TypeOK
<1>4. /\ link' \in [G!DEFAULT_UNIT_FEATURES -> {"none", "live", "deleted"}]
      /\ \A k \in G!DEFAULT_UNIT_FEATURES : link'[k] = "none" => link[k] = "none"
  BY <1>2 DEF G!TypeOK
<1> QED
  BY <1>1, <1>3, <1>4

(* Rows stay, with their photos.                                              *)
LEMMA RowsGrow ==
    ASSUME G!TypeOK, RowsKept, \A h \in Handler : Carries(h),
           \A b \in Boot : at[b] = "unit_images" => absent[b] \subseteq Seed, G!Next
    PROVE  G!Rows \subseteq G!Rows' /\ \A i \in G!Rows : url'[i] = url[i]
<1>1. ASSUME NEW h \in Handler, Step(h)
      PROVE  G!Rows \subseteq G!Rows' /\ \A i \in G!Rows : url'[i] = url[i]
  <2>1. CASE ~Changes(h)
    BY <1>1, <2>1, QuietRequest DEF G!Rows
  <2>2. CASE G!Restore(h) \/ G!RemoveCommit(h)
    BY <2>2 DEF G!Restore, G!RemoveCommit, G!Rows
  <2>3. ASSUME NEW i \in G!Image, G!Insert(h, i)
        PROVE  G!Rows \subseteq G!Rows' /\ \A j \in G!Rows : url'[j] = url[j]
    <3>1. url' = [url EXCEPT ![i] = given[h]]
      BY <2>3 DEF G!Insert
    <3>2. G!Rows \subseteq G!Rows' /\ i \notin G!Rows /\ G!Rows \subseteq G!Image
      BY <2>3, RowsInsert DEF G!Rows
    <3> QED
      BY <3>1, <3>2 DEF G!TypeOK
  <2> QED
    BY <2>1, <2>2, <2>3 DEF Changes
<1>2. ASSUME NEW b \in Boot, SeedStep(b)
      PROVE  G!Rows \subseteq G!Rows' /\ \A i \in G!Rows : url'[i] = url[i]
  <2>1. CASE G!SeedImages(b)
    BY <2>1, SeededRows DEF G!SeedImages
  <2>2. CASE ~G!SeedImages(b)
    BY <1>2, <2>2, SeedFrame DEF G!Rows
  <2> QED
    BY <2>1, <2>2
<1>3. CASE (\E k \in Retired : G!Retire(k)) \/ (\E k \in G!DEFAULT_UNIT_FEATURES : G!Retract(k))
  BY <1>3, WithdrawalFrame DEF G!Rows
<1> QED
  BY <1>1, <1>2, <1>3, RequestSteps DEF G!Next, SeedStep

LEMMA CarriesRequest ==
    ASSUME G!TypeOK, RowsKept, \A h \in Handler : Carries(h), NEW h \in Handler, Step(h),
           G!Rows \subseteq G!Rows', \A i \in G!Rows : url'[i] = url[i]
    PROVE  \A g \in Handler : Carries(g)'
<1>1. ASSUME NEW g \in Handler, g # h PROVE Carries(g)'
  BY <1>1, RequestFrame DEF Carries
<1>2. Carries(h)'
  <2>1. CASE G!Forget(h)
    BY <2>1 DEF G!TypeOK, G!Forget, G!Goto, Carries
  <2>2. ASSUME NEW f \in G!File, G!Take(h, f, IF f \in Upload THEN "count" ELSE "open") PROVE Carries(h)'
    <3>1. doing'[h] = (IF f \in Upload THEN "count" ELSE "open") /\ given'[h] = f
      BY <2>2 DEF G!TypeOK, G!Take, G!Goto
    <3> QED
      BY <3>1 DEF Carries
  <2>3. CASE G!Count(h) /\ ~G!Forget(h)
    <3>1. doing[h] = "count" /\ doing'[h] = "open" /\ given' = given
      BY <2>3 DEF G!TypeOK, G!Count, G!Finish, G!Goto
    <3> QED
      BY <3>1 DEF Carries, G!File
  <2>4. CASE G!OpenFile(h)
    <3>1. doing[h] = "open" /\ doing'[h] = "write" /\ given' = given
      BY <2>4 DEF G!TypeOK, G!OpenFile, G!Goto
    <3> QED
      BY <3>1 DEF Carries
  <2>5. CASE G!WriteFile(h)
    <3>1. doing[h] = "write" /\ doing'[h] = G!Filed(given[h]) /\ given' = given
      BY <2>5 DEF G!TypeOK, G!WriteFile, G!Goto
    <3>2. given[h] \in G!File
      BY <3>1 DEF Carries
    <3> QED
      BY <3>1, <3>2, PhotoParameters DEF Carries, G!Filed, G!File
  <2>6. CASE G!Look(h) /\ ~G!Forget(h)
    <3>1. doing[h] = "look" /\ given' = given /\ url' = url /\ given[h] \in Upload
      BY <2>6 DEF G!TypeOK, G!Look, G!Finish, G!tables, Carries
    <3>2. CASE doing'[h] = "insert"
      BY <3>1, <3>2 DEF Carries
    <3>3. CASE doing'[h] # "insert"
      <4>1. PICK i \in G!Rows : /\ G!RowsOf(given[h]) = {i} /\ G!Goto(h, "restore")
                                /\ image' = [image EXCEPT ![h] = i]
        BY <2>6, <3>3 DEF G!TypeOK, G!Look, G!Goto, G!Finish
      <4>2. doing'[h] = "restore" /\ image'[h] = i /\ url[i] = given[h]
        BY <4>1 DEF G!TypeOK, G!Goto, G!RowsOf
      <4> QED
        BY <3>1, <4>2 DEF Carries
    <3> QED
      BY <3>2, <3>3
  <2>7. ASSUME NEW i \in G!Image, G!RemoveRead(h, i) PROVE Carries(h)'
    <3>1. /\ doing[h] = "idle" /\ doing'[h] = "remove" /\ image'[h] = i /\ given' = given /\ i \in G!Rows
      BY <2>7 DEF G!TypeOK, G!RemoveRead, G!Goto, G!LiveRows
    <3> QED
      BY <3>1 DEF Carries
  <2> QED
    BY <2>1, <2>2, <2>3, <2>4, <2>5, <2>6, <2>7 DEF Step, G!Insert, G!Restore, G!SetSheet, G!RemoveCommit,
       G!Answer, G!Abort, G!Finish, G!FinishChanged
<1> QED
  BY <1>1, <1>2

LEMMA SeededStays ==
    ASSUME NEW b \in Boot, SeededBy(b), at'[b] = at[b], read'[b] = read[b], absent'[b] = absent[b],
           saw'[b] = saw[b],
           \A k \in G!Key : row'[k] = "none" => row[k] = "none",
           \A k \in G!DEFAULT_UNIT_FEATURES : link'[k] = "none" => link[k] = "none",
           \A p \in Seed : G!RowsOf(p)' = {} => G!RowsOf(p) = {}
    PROVE  SeededBy(b)'
BY KeySets DEF SeededBy, Past

LEMMA SeededSeedStep ==
    ASSUME G!TypeOK, RowsKept, NEW b \in Boot, SeededBy(b), SeedStep(b),
           \A p \in Seed : G!RowsOf(p)' = {} => G!RowsOf(p) = {}
    PROVE  /\ SeededBy(b)'
           /\ \A k \in G!Key : row'[k] = "none" => row[k] = "none"
           /\ \A k \in G!DEFAULT_UNIT_FEATURES : link'[k] = "none" => link[k] = "none"
<1>1. /\ \A k \in G!Key : row'[k] = "none" => row[k] = "none"
      /\ \A k \in G!DEFAULT_UNIT_FEATURES : link'[k] = "none" => link[k] = "none"
  <2>1. \/ row' = row
        \/ row' = [k \in G!Key |-> IF k \in absent[b] THEN "live" ELSE row[k]]
    BY DEF SeedStep, G!Start, G!SeedRead, G!SeedFail, G!SeedUnits, G!SeedFeatures, G!SeedImages,
       G!SeedLinks, G!SeedDestinations, G!InsertMissing, G!tables
  <2>2. \/ link' = link
        \/ link' = [k \in G!DEFAULT_UNIT_FEATURES |-> IF saw[b][k] # "live" THEN "live" ELSE link[k]]
    BY DEF SeedStep, G!Start, G!SeedRead, G!SeedFail, G!SeedUnits, G!SeedFeatures, G!SeedImages,
       G!SeedLinks, G!SeedDestinations, G!InsertMissing, G!tables
  <2> QED
    BY <2>1, <2>2
<1>2. CASE G!Start(b)
  <2>1. at[b] = "off" /\ at'[b] = "units" /\ read'[b] = read[b] /\ ~read[b]
    BY <1>2, NextTable DEF G!Start, G!TypeOK, SeededBy
  <2> QED
    BY <1>1, <2>1 DEF SeededBy, Past
<1>3. CASE G!SeedFail(b)
  <2>1. at'[b] = "off" /\ ~read'[b]
    BY <1>3 DEF G!SeedFail, G!TypeOK
  <2> QED
    BY <1>1, <2>1 DEF SeededBy, Past
<1>4. CASE G!SeedRead(b)
  <2>1. /\ at[b] \notin {"off", "done"} /\ at' = at /\ read'[b] /\ UNCHANGED <<row, link, url>>
        /\ absent'[b] = G!Absent(at[b]) /\ saw'[b] = G!LinksRead(at[b])
    BY <1>4 DEF G!SeedRead, G!TypeOK, G!tables
  <2>2. \A p : G!RowsOf(p)' = G!RowsOf(p)
    BY <2>1 DEF G!RowsOf, G!Rows
  <2>3. /\ at[b] = "units" /\ row["unit"] = "none" => "unit" \in absent'[b]
        /\ at[b] = "features" /\ row["feature"] = "none" => "feature" \in absent'[b]
        /\ at[b] = "destinations" /\ row["destination"] = "none" => "destination" \in absent'[b]
    BY <2>1 DEF G!Absent, G!DEFAULT_UNITS, G!DEFAULT_FEATURES, G!DEFAULT_DESTINATIONS
  <2>4. at[b] = "unit_images" =>
          absent'[b] \subseteq Seed /\ \A p \in Seed : G!RowsOf(p) = {} => p \in absent'[b]
    <3>1. at[b] = "unit_images" => row["unit"] # "none"
      BY DEF SeededBy, Past
    <3>2. at[b] = "unit_images" =>
            absent'[b] = {p \in Seed : row["unit"] # "none" /\ G!RowsOf(p) = {}}
      BY <2>1, KeySets DEF G!Absent
    <3> QED
      BY <3>1, <3>2
  <2>5. at[b] = "unit_features" => \A k \in G!DEFAULT_UNIT_FEATURES : link[k] = "none" => saw'[b][k] = "none"
    <3>1. at[b] = "unit_features" => row["unit"] # "none" /\ row["feature"] # "none"
      BY DEF SeededBy, Past
    <3>2. \A k \in G!DEFAULT_UNIT_FEATURES : k[1] = "unit" /\ k[2] = "feature"
      BY KeySets
    <3>3. at[b] = "unit_features" => \A k \in G!DEFAULT_UNIT_FEATURES : saw'[b][k] = link[k]
      BY <2>1, <3>1, <3>2 DEF G!LinksRead
    <3> QED
      BY <3>3
  <2> QED
    BY <1>1, <2>1, <2>2, <2>3, <2>4, <2>5 DEF SeededBy, Past
<1>5. CASE SeedCommit(b)
  <2>1. at'[b] = G!After(at[b]) /\ ~read'[b] /\ absent'[b] = {} /\ read[b]
    BY <1>5, Advances DEF G!Advance, G!TypeOK
  <2>2. CASE G!SeedUnits(b)
    <3>1. at'[b] = "features" /\ at[b] = "units"
      BY <2>1, <2>2, NextTable DEF G!SeedUnits
    <3>2. row'["unit"] # "none"
      BY <2>1, <2>2, <3>1, KeySets DEF G!SeedUnits, G!InsertMissing, SeededBy
    <3> QED
      BY <1>1, <2>1, <3>1, <3>2 DEF SeededBy, Past
  <2>3. CASE G!SeedFeatures(b)
    <3>1. at'[b] = "unit_images" /\ at[b] = "features"
      BY <2>1, <2>3, NextTable DEF G!SeedFeatures
    <3>2. row'["feature"] # "none"
      BY <2>1, <2>3, <3>1, KeySets DEF G!SeedFeatures, G!InsertMissing, SeededBy
    <3>3. row'["unit"] # "none"
      BY <1>1, <3>1, KeySets DEF SeededBy, Past
    <3> QED
      BY <1>1, <2>1, <3>1, <3>2, <3>3 DEF SeededBy, Past
  <2>4. CASE G!SeedImages(b)
    <3>1. at'[b] = "unit_features" /\ at[b] = "unit_images"
      BY <2>1, <2>4, NextTable DEF G!SeedImages
    <3>2. row'["feature"] # "none" /\ row'["unit"] # "none"
      BY <1>1, <3>1, KeySets DEF SeededBy, Past
    <3>3. ASSUME NEW p \in Seed, G!RowsOf(p)' = {} PROVE FALSE
      <4>1. p \in absent[b] /\ absent[b] \subseteq Seed
        BY <2>1, <3>1, <3>3 DEF SeededBy
      <4>2. \E i \in G!Rows' : url'[i] = p
        BY <2>4, <4>1, SeededRows
      <4> QED
        BY <3>3, <4>2 DEF G!RowsOf
    <3> QED
      BY <1>1, <2>1, <3>1, <3>2, <3>3 DEF SeededBy, Past
  <2>5. CASE G!SeedLinks(b)
    <3>1. at'[b] = "destinations" /\ at[b] = "unit_features"
      BY <2>1, <2>5, NextTable DEF G!SeedLinks
    <3>2. \A k \in G!DEFAULT_UNIT_FEATURES : link'[k] # "none"
      BY <2>1, <2>5, <3>1 DEF G!SeedLinks, SeededBy
    <3>3. row'["feature"] # "none" /\ row'["unit"] # "none" /\ \A p \in Seed : G!RowsOf(p)' # {}
      BY <1>1, <3>1, KeySets DEF SeededBy, Past
    <3> QED
      BY <1>1, <2>1, <3>1, <3>2, <3>3 DEF SeededBy, Past
  <2>6. CASE G!SeedDestinations(b)
    <3>1. at'[b] = "done" /\ at[b] = "destinations"
      BY <2>1, <2>6, NextTable DEF G!SeedDestinations
    <3>2. row'["destination"] # "none"
      BY <2>1, <2>6, <3>1, KeySets DEF G!SeedDestinations, G!InsertMissing, SeededBy
    <3>3. /\ row'["feature"] # "none" /\ row'["unit"] # "none" /\ \A p \in Seed : G!RowsOf(p)' # {}
          /\ \A k \in G!DEFAULT_UNIT_FEATURES : link'[k] # "none"
      BY <1>1, <3>1, KeySets DEF SeededBy, Past
    <3> QED
      BY <1>1, <2>1, <3>1, <3>2, <3>3 DEF SeededBy, Past
  <2> QED
    BY <1>5, <2>2, <2>3, <2>4, <2>5, <2>6 DEF SeedCommit
<1> QED
  BY <1>1, <1>2, <1>3, <1>4, <1>5 DEF SeedStep, SeedCommit

-----------------------------------------------------------------------------
(* The disk.                                                                  *)

DiskKept == FilesKept /\ LastWriter /\ Private

LEMMA DiskQuiet ==
    ASSUME DiskKept, UNCHANGED <<file, writer, cut>>, sent' = sent,
           \A h \in Handler, f \in G!File : Writing(h, f)' = Writing(h, f),
           G!File \cap Needed' \subseteq Needed,
           \A h \in Handler : given'[h] \in Detached => given'[h] = given[h] /\ doing'[h] = doing[h]
    PROVE  DiskKept'
<1>1. Detached \subseteq G!File
  BY DEF G!File
<1>2. \A f \in G!File : Kept(f)' = Kept(f)
  BY DEF Kept
<1>3. FilesKept'
  BY <1>2 DEF DiskKept, FilesKept
<1>4. LastWriter'
  BY DEF DiskKept, LastWriter
<1>5. Private'
  BY <1>1 DEF DiskKept, Private
<1> QED
  BY <1>3, <1>4, <1>5 DEF DiskKept

(* A request that takes a file into its hands.                                *)
LEMMA DiskTake ==
    ASSUME G!TypeOK, DiskKept, NEW h \in Handler, Carries(h),
           NEW f \in G!File, G!Take(h, f, IF f \in Upload THEN "count" ELSE "open"),
           f \in Detached => file[f] = "none" /\ \A g \in Handler : given[g] # f
    PROVE  DiskKept'
<1>1. /\ doing[h] = "idle" /\ doing'[h] = (IF f \in Upload THEN "count" ELSE "open") /\ given'[h] = f
      /\ \A g \in Handler : g # h => doing'[g] = doing[g] /\ given'[g] = given[g]
      /\ UNCHANGED <<file, writer, cut, sent, url, sheet>>
  BY DEF G!TypeOK, G!Take, G!Goto, G!tables, G!disk
<1>2. \A g \in Handler, x \in G!File : Writing(g, x)' = Writing(g, x)
  BY <1>1 DEF Writing
<1>3. Needed' = Needed
  <2>1. {g \in Handler : doing'[g] \in {"look", "insert", "restore", "sheet"}}
        = {g \in Handler : doing[g] \in {"look", "insert", "restore", "sheet"}}
    BY <1>1
  <2>2. \A g \in {x \in Handler : doing[x] \in {"look", "insert", "restore", "sheet"}} : given'[g] = given[g]
    BY <1>1
  <2> QED
    BY <1>1, <2>1, <2>2 DEF Needed, G!Rows
<1>4. \A x \in G!File : Kept(x)' = Kept(x)
  BY <1>1, <1>2 DEF Kept
<1>5. FilesKept' /\ LastWriter'
  BY <1>1, <1>2, <1>3, <1>4 DEF DiskKept, FilesKept, LastWriter
<1>6. ASSUME NEW x \in Detached
      PROVE  /\ x \in sent' => file'[x] = "whole"
             /\ \A k \in Handler : given'[k] = x =>
                  /\ x \notin cut' \cup sent' /\ \A g \in Handler : given'[g] = x => g = k
                  /\ doing'[k] \in {"open", "write", "answer"}
                  /\ doing'[k] = "open" => file'[x] = "none"
                  /\ doing'[k] = "answer" => file'[x] = "whole"
  <2>1. x \in G!File /\ x \notin Upload
    BY PhotoParameters DEF G!File
  <2>2. CASE x = f
    <3>1. x \notin cut \cup sent
      BY <2>1, <2>2 DEF DiskKept, LastWriter, Private
    <3>2. \A k \in Handler : given'[k] = x => k = h
      BY <1>1, <2>2
    <3> QED
      BY <1>1, <2>1, <2>2, <3>1, <3>2 DEF DiskKept, Private
  <2>3. CASE x # f
    <3>1. \A k \in Handler : given'[k] = x => k # h /\ given[k] = x /\ doing'[k] = doing[k]
      BY <1>1, <2>3
    <3> QED
      BY <1>1, <3>1 DEF DiskKept, Private
  <2> QED
    BY <2>2, <2>3
<1> QED
  BY <1>5, <1>6 DEF DiskKept, Private

LEMMA DiskOpen ==
    ASSUME G!TypeOK, DiskKept, NEW h \in Handler, Carries(h), G!OpenFile(h)
    PROVE  DiskKept'
<1>0. PICK o \in G!File : o = given[h]
  BY DEF Carries, G!OpenFile, G!WriteFile, G!Abort
<1>1. /\ doing[h] = "open" /\ doing'[h] = "write" /\ given' = given /\ o \in G!File
      /\ \A g \in Handler : g # h => doing'[g] = doing[g]
      /\ file'[o] = "torn" /\ writer'[o] = h
      /\ \A f \in G!File : f # o => file'[f] = file[f] /\ writer'[f] = writer[f]
      /\ UNCHANGED <<cut, sent, url, sheet>>
  BY <1>0 DEF G!TypeOK, G!OpenFile, G!Goto, G!tables, Carries
<1>2. Writing(h, o)' /\ \A g \in Handler, f \in G!File : f # o \/ g # h => Writing(g, f)' = Writing(g, f)
  BY <1>0, <1>1 DEF Writing
<1>3. Needed' = Needed
  <2>1. {g \in Handler : doing'[g] \in {"look", "insert", "restore", "sheet"}}
        = {g \in Handler : doing[g] \in {"look", "insert", "restore", "sheet"}}
    BY <1>1
  <2> QED
    BY <1>1, <2>1 DEF Needed, G!Rows
<1>4. \A f \in G!File : Kept(f) => Kept(f)'
  BY <1>1, <1>2 DEF Kept, Writing
<1>5. FilesKept'
  BY <1>3, <1>4 DEF DiskKept, FilesKept
<1>6. LastWriter'
  BY <1>1, <1>2 DEF DiskKept, LastWriter, Writing
<1>7. Detached \subseteq G!File
  BY DEF G!File
<1>8. Private'
  BY <1>0, <1>1, <1>7 DEF DiskKept, Private
<1> QED
  BY <1>5, <1>6, <1>8 DEF DiskKept

LEMMA DiskWrite ==
    ASSUME G!TypeOK, DiskKept, NEW h \in Handler, Carries(h), G!WriteFile(h)
    PROVE  DiskKept'
<1>0. PICK o \in G!File : o = given[h]
  BY DEF Carries, G!OpenFile, G!WriteFile, G!Abort
<1> DEFINE shared == \E g \in Handler \ {h} : doing[g] = "write" /\ given[g] = o
<1>1. /\ doing[h] = "write" /\ given' = given /\ o \in G!File /\ doing'[h] \in {"look", "sheet", "answer"}
      /\ \A g \in Handler : g # h => doing'[g] = doing[g]
      /\ writer'[o] = IF shared THEN writer[o] ELSE NoFile
      /\ \A f \in G!File : f # o => writer'[f] = writer[f]
      /\ UNCHANGED <<sent, url, sheet>>
  BY <1>0 DEF G!TypeOK, G!WriteFile, G!Goto, G!tables, Carries, G!Close, G!Filed
<1>2. \/ file'[o] = "whole" /\ cut' = cut \ {o}
      \/ /\ writer[o] # h /\ file' = file /\ cut' = cut
  BY <1>0, <1>1 DEF G!TypeOK, G!WriteFile
<1>3. \A f \in G!File : f # o => file'[f] = file[f]
  BY <1>0, <1>1 DEF G!TypeOK, G!WriteFile
<1>4. o \in Detached => doing'[h] = "answer"
  <2>1. doing'[h] = G!Filed(o)
    BY <1>0 DEF G!WriteFile, G!Goto, G!TypeOK
  <2> QED
    BY <2>1, PhotoParameters DEF G!Filed
<1>5. Writing(h, o) /\ shared = \E g \in Handler : g # h /\ Writing(g, o)
  BY <1>0, <1>1 DEF Writing
<1> HIDE DEF shared
<1>6. /\ ~Writing(h, o)' /\ \A f \in G!File : ~Writing(h, f)' /\ (f # o => ~Writing(h, f))
      /\ \A g \in Handler, f \in G!File : g # h => Writing(g, f)' = Writing(g, f)
  BY <1>0, <1>1 DEF Writing
<1>7. file'[o] # "whole" /\ o \notin cut' => shared /\ file[o] = "torn"
  <2>1. ASSUME file'[o] # "whole", o \notin cut' PROVE shared /\ file[o] = "torn"
    <3>1. writer[o] # h /\ file' = file /\ cut' = cut
      BY <1>2, <2>1
    <3>2. file[o] \in {"none", "torn", "whole"} /\ file[o] # "none"
      BY <1>1, <1>5 DEF G!TypeOK, DiskKept, LastWriter
    <3>3. file[o] = "torn" /\ o \notin cut
      BY <2>1, <3>1, <3>2
    <3>4. writer[o] \in Handler /\ Writing(writer[o], o)
      BY <1>1, <3>3 DEF DiskKept, LastWriter
    <3> QED
      BY <1>5, <3>1, <3>3, <3>4
  <2> QED
    BY <2>1
<1>8. Kept(o)'
  BY <1>5, <1>6, <1>7, <1>1 DEF Kept, Writing
<1>9. \A f \in G!File : f # o => (f \in cut' <=> f \in cut)
  BY <1>2
<1>10. \A f \in G!File : f # o /\ Kept(f) => Kept(f)'
  BY <1>3, <1>6, <1>9 DEF Kept
<1>11. Needed' \subseteq Needed \cup {o}
  <2>1. {g \in Handler : doing'[g] \in {"look", "insert", "restore", "sheet"}}
        \subseteq {g \in Handler : doing[g] \in {"look", "insert", "restore", "sheet"}} \cup {h}
    BY <1>1
  <2> QED
    BY <1>0, <1>1, <2>1 DEF Needed, G!Rows
<1>12. FilesKept'
  BY <1>8, <1>10, <1>11 DEF DiskKept, FilesKept
<1>13. ASSUME NEW f \in G!File
       PROVE  /\ file'[f] = "torn" /\ f \notin cut' => writer'[f] \in Handler /\ doing'[writer'[f]] = "write" /\ given'[writer'[f]] = f
              /\ f \in cut' \/ (\E g \in Handler : Writing(g, f)') => file'[f] # "none"
  <2>1. CASE f = o
    <3>1. file'[f] # "none"
      BY <1>1, <1>2, <1>5, <2>1 DEF DiskKept, LastWriter
    <3>2. ASSUME file'[f] = "torn", f \notin cut'
          PROVE writer'[f] \in Handler /\ doing'[writer'[f]] = "write" /\ given'[writer'[f]] = f
      <4>1. shared /\ file[o] = "torn" /\ writer[o] # h /\ cut' = cut
        BY <1>2, <1>7, <2>1, <3>2
      <4>2. writer[o] \in Handler /\ Writing(writer[o], o) /\ writer'[o] = writer[o]
        BY <1>1, <2>1, <3>2, <4>1 DEF DiskKept, LastWriter
      <4>3. PICK w \in Handler : w = writer[o] /\ w = writer'[o] /\ w # h
        BY <4>1, <4>2
      <4>4. Writing(w, o)'
        BY <1>1, <1>6, <4>2, <4>3 DEF Writing
      <4> QED
        BY <2>1, <4>3, <4>4 DEF Writing
    <3> QED
      BY <3>1, <3>2
  <2>2. CASE f # o
    <3>1. file'[f] = file[f] /\ writer'[f] = writer[f] /\ (f \in cut' <=> f \in cut)
      BY <1>1, <1>3, <1>9, <2>2
    <3>2. \A g \in Handler : Writing(g, f)' = Writing(g, f)
      BY <1>6, <2>2 DEF Writing
    <3>3. ASSUME file[f] = "torn", f \notin cut
          PROVE writer'[f] \in Handler /\ doing'[writer'[f]] = "write" /\ given'[writer'[f]] = f
      <4>1. PICK w \in Handler : w = writer[f] /\ w = writer'[f] /\ Writing(w, f)
        BY <3>1, <3>3 DEF DiskKept, LastWriter
      <4>2. Writing(w, f)'
        BY <3>2, <4>1
      <4> QED
        BY <4>1, <4>2 DEF Writing
    <3> QED
      BY <3>1, <3>2, <3>3 DEF DiskKept, LastWriter
  <2> QED
    BY <2>1, <2>2
<1>14. LastWriter'
  BY <1>13 DEF LastWriter, Writing
<1>15. ASSUME NEW x \in Detached
      PROVE  /\ x \in sent' => file'[x] = "whole"
             /\ \A k \in Handler : given'[k] = x =>
                  /\ x \notin cut' \cup sent' /\ \A g \in Handler : given'[g] = x => g = k
                  /\ doing'[k] \in {"open", "write", "answer"}
                  /\ doing'[k] = "open" => file'[x] = "none"
                  /\ doing'[k] = "answer" => file'[x] = "whole"
  <2>1. x \in G!File
    BY DEF G!File
  <2>2. CASE x = o
    <3>1. given[h] = x /\ x \notin cut \cup sent /\ \A g \in Handler : given[g] = x => g = h
      BY <1>0, <2>2 DEF DiskKept, Private
    <3>2. ~shared
      BY <1>5, <2>2, <3>1 DEF Writing
    <3>3. x \notin cut'
      BY <1>2, <3>1
    <3>4. file'[x] = "whole"
      BY <1>7, <2>2, <3>2, <3>3
    <3> QED
      BY <1>1, <1>4, <2>2, <3>1, <3>3, <3>4
  <2>3. CASE x # o
    <3>1. \A k \in Handler : given'[k] = x => k # h /\ given[k] = x /\ doing'[k] = doing[k]
      BY <1>0, <1>1, <2>3
    <3>2. file'[x] = file[x] /\ (x \in cut' <=> x \in cut)
      BY <1>3, <1>9, <2>1, <2>3
    <3> QED
      BY <1>1, <3>1, <3>2 DEF DiskKept, Private
  <2> QED
    BY <2>2, <2>3
<1> QED
  BY <1>12, <1>14, <1>15 DEF DiskKept, Private

(* An upload that is ended: in the middle of a file, or with nothing in hand. *)
LEMMA DiskAbort ==
    ASSUME G!TypeOK, DiskKept, NEW h \in Handler, Carries(h), G!Abort(h), doing[h] = "write"
    PROVE  DiskKept'
<1>0. PICK o \in G!File : o = given[h]
  BY DEF Carries, G!OpenFile, G!WriteFile, G!Abort
<1>1. /\ o \in G!File /\ doing'[h] = "idle" /\ given'[h] = NoFile
      /\ \A g \in Handler : g # h => doing'[g] = doing[g] /\ given'[g] = given[g]
      /\ cut' = cut \cup {o} /\ \A f \in G!File : f # o => writer'[f] = writer[f]
      /\ UNCHANGED <<file, sent, url, sheet>>
  BY <1>0 DEF G!TypeOK, G!Abort, G!Finish, G!Forget, G!Goto, G!tables, Carries, G!Close
<1>2. Writing(h, o) /\ NoFile \notin G!File /\ Detached \subseteq G!File
  BY <1>0, <1>1, PhotoParameters DEF Writing, G!File
<1>3. /\ \A f \in G!File : ~Writing(h, f)' /\ (f # o => ~Writing(h, f))
      /\ \A g \in Handler, f \in G!File : g # h => Writing(g, f)' = Writing(g, f)
  BY <1>0, <1>1 DEF Writing
<1>4. \A f \in G!File : Kept(f) => Kept(f)'
  BY <1>1, <1>3 DEF Kept
<1>5. Needed' \subseteq Needed
  <2>1. {g \in Handler : doing'[g] \in {"look", "insert", "restore", "sheet"}}
        \subseteq {g \in Handler : doing[g] \in {"look", "insert", "restore", "sheet"}} \ {h}
    BY <1>1
  <2> QED
    BY <1>1, <2>1 DEF Needed, G!Rows
<1>6. FilesKept'
  BY <1>4, <1>5 DEF DiskKept, FilesKept
<1>7. ASSUME NEW f \in G!File
       PROVE  /\ file'[f] = "torn" /\ f \notin cut' => writer'[f] \in Handler /\ doing'[writer'[f]] = "write" /\ given'[writer'[f]] = f
              /\ f \in cut' \/ (\E g \in Handler : Writing(g, f)') => file'[f] # "none"
  <2>1. CASE f = o
    BY <1>1, <1>2, <2>1 DEF DiskKept, LastWriter
  <2>2. CASE f # o
    <3>1. file'[f] = file[f] /\ writer'[f] = writer[f] /\ (f \in cut' <=> f \in cut)
      BY <1>1, <2>2
    <3>2. \A g \in Handler : Writing(g, f)' = Writing(g, f)
      BY <1>3, <2>2 DEF Writing
    <3>3. ASSUME file[f] = "torn", f \notin cut
          PROVE writer'[f] \in Handler /\ doing'[writer'[f]] = "write" /\ given'[writer'[f]] = f
      <4>1. PICK w \in Handler : w = writer[f] /\ w = writer'[f] /\ Writing(w, f)
        BY <3>1, <3>3 DEF DiskKept, LastWriter
      <4>2. Writing(w, f)'
        BY <3>2, <4>1
      <4> QED
        BY <4>1, <4>2 DEF Writing
    <3> QED
      BY <3>1, <3>2, <3>3 DEF DiskKept, LastWriter
  <2> QED
    BY <2>1, <2>2
<1>8. LastWriter'
  BY <1>7 DEF LastWriter, Writing
<1>9. \A x \in Detached, k \in Handler : given'[k] = x =>
          k # h /\ given[k] = x /\ doing'[k] = doing[k] /\ x # o
  BY <1>0, <1>1, <1>2 DEF DiskKept, Private
<1>10. Private'
  BY <1>1, <1>9 DEF DiskKept, Private
<1> QED
  BY <1>6, <1>8, <1>10 DEF DiskKept

LEMMA DiskAnswer ==
    ASSUME G!TypeOK, DiskKept, NEW h \in Handler, Carries(h), G!Answer(h)
    PROVE  DiskKept'
<1>0. PICK o \in Detached : o = given[h]
  BY DEF Carries, G!Answer
<1>1. /\ o \in Detached /\ doing[h] = "answer" /\ doing'[h] = "idle" /\ given'[h] = NoFile
      /\ \A g \in Handler : g # h => doing'[g] = doing[g] /\ given'[g] = given[g]
      /\ sent' = sent \cup {o} /\ UNCHANGED <<file, writer, cut, url, sheet>>
  BY <1>0 DEF G!TypeOK, G!Answer, G!Finish, G!Forget, G!Goto, G!tables, Carries
<1>2. NoFile \notin Detached /\ file[o] = "whole" /\ \A g \in Handler : given[g] = o => g = h
  BY <1>0, <1>1, PhotoParameters DEF DiskKept, Private
<1>3. \A g \in Handler, f \in G!File : Writing(g, f)' = Writing(g, f)
  BY <1>1 DEF Writing
<1>4. \A f \in G!File : Kept(f)' = Kept(f)
  BY <1>1, <1>3 DEF Kept
<1>5. Needed' \subseteq Needed
  <2>1. {g \in Handler : doing'[g] \in {"look", "insert", "restore", "sheet"}}
        \subseteq {g \in Handler : doing[g] \in {"look", "insert", "restore", "sheet"}} \ {h}
    BY <1>1
  <2> QED
    BY <1>1, <2>1 DEF Needed, G!Rows
<1>6. FilesKept' /\ LastWriter'
  BY <1>1, <1>3, <1>4, <1>5 DEF DiskKept, FilesKept, LastWriter
<1>7. \A x \in Detached, k \in Handler : given'[k] = x =>
          k # h /\ given[k] = x /\ doing'[k] = doing[k] /\ x # o
  BY <1>1, <1>2
<1>8. Private'
  BY <1>1, <1>2, <1>7 DEF DiskKept, Private
<1> QED
  BY <1>6, <1>8 DEF DiskKept

(* Every other step of a request lets the disk be.                            *)
LEMMA DiskForget ==
    ASSUME G!TypeOK, DiskKept, NEW h \in Handler, Carries(h), G!Forget(h), UNCHANGED G!disk,
           doing[h] # "write",
           G!File \cap ({url'[i] : i \in G!Rows'} \cup {sheet'}) \subseteq Needed
    PROVE  DiskKept'
<1>1. /\ doing'[h] = "idle" /\ given'[h] = NoFile /\ NoFile \notin Detached
      /\ \A g \in Handler : g # h => doing'[g] = doing[g] /\ given'[g] = given[g]
      /\ UNCHANGED <<file, writer, cut, sent>>
  BY PhotoParameters DEF G!TypeOK, G!Forget, G!Goto, G!disk
<1>2. \A g \in Handler, f \in G!File : Writing(g, f)' = Writing(g, f)
  BY <1>1 DEF Writing
<1>3. {given'[g] : g \in {x \in Handler : doing'[x] \in {"look", "insert", "restore", "sheet"}}} \subseteq Needed
  <2>1. \A g \in {x \in Handler : doing'[x] \in {"look", "insert", "restore", "sheet"}} :
            g # h /\ doing[g] \in {"look", "insert", "restore", "sheet"} /\ given'[g] = given[g]
    BY <1>1
  <2> QED
    BY <2>1 DEF Needed
<1>4. G!File \cap Needed' \subseteq Needed
  BY <1>3 DEF Needed
<1> QED
  BY <1>1, <1>2, <1>4, DiskQuiet

LEMMA DiskRequest ==
    ASSUME G!TypeOK, DiskKept, RowsKept, NEW h \in Handler, Carries(h), Step(h)
    PROVE  DiskKept'
<1>1. CASE \E f \in G!File : /\ G!Take(h, f, IF f \in Upload THEN "count" ELSE "open")
                             /\ f \in Detached => file[f] = "none" /\ \A g \in Handler : given[g] # f
  BY <1>1, DiskTake
<1>2. CASE G!OpenFile(h) \/ G!WriteFile(h) \/ G!Answer(h) \/ (G!Abort(h) /\ doing[h] = "write")
  BY <1>2, DiskOpen, DiskWrite, DiskAnswer, DiskAbort
<1>3. CASE G!Forget(h) /\ UNCHANGED <<url, sheet, G!disk>> /\ doing[h] # "write"
  BY <1>3, DiskForget DEF Needed, G!Rows
<1>4. CASE G!SetSheet(h)
  <2>1. /\ doing[h] = "sheet" /\ G!Forget(h) /\ UNCHANGED <<url, G!disk>> /\ sheet' \in {sheet, given[h]}
    BY <1>4 DEF G!SetSheet, G!Finish
  <2>2. {url'[i] : i \in G!Rows'} \cup {sheet'} \subseteq Needed
    BY <2>1 DEF Needed, G!Rows
  <2> QED
    BY <2>1, <2>2, DiskForget
<1>5. ASSUME NEW i \in G!Image, G!Insert(h, i) PROVE DiskKept'
  <2>1. /\ doing[h] = "insert" /\ G!Forget(h) /\ UNCHANGED <<sheet, G!disk>> /\ url' = [url EXCEPT ![i] = given[h]]
    BY <1>5 DEF G!Insert, G!FinishChanged
  <2>2. i \notin G!Rows /\ G!Rows' = G!Rows \cup {i}
    BY <1>5, RowsInsert
  <2>3. ASSUME NEW j \in G!Rows' PROVE url'[j] \in Needed
    <3>1. j = i \/ j \in G!Rows
      BY <2>2
    <3>2. j \in G!Image /\ url'[j] = IF j = i THEN given[h] ELSE url[j]
      BY <2>1 DEF G!TypeOK, G!Rows
    <3>3. given[h] \in Needed
      BY <2>1 DEF Needed
    <3> QED
      BY <3>1, <3>2, <3>3 DEF Needed
  <2>4. sheet' \in Needed
    BY <2>1 DEF Needed
  <2> QED
    BY <2>1, <2>3, <2>4, DiskForget
<1>6. CASE G!Count(h) /\ ~G!Forget(h)
  <2>1. /\ doing[h] = "count" /\ doing'[h] = "open" /\ given' = given /\ given[h] \in Upload
        /\ \A g \in Handler : g # h => doing'[g] = doing[g]
        /\ UNCHANGED <<url, sheet, file, writer, cut, sent>>
    BY <1>6 DEF G!TypeOK, G!Count, G!Finish, G!Goto, G!tables, G!disk, Carries
  <2>2. \A g \in Handler, f \in G!File : Writing(g, f)' = Writing(g, f)
    BY <2>1 DEF Writing
  <2>3. Needed' = Needed
    <3>1. {g \in Handler : doing'[g] \in {"look", "insert", "restore", "sheet"}}
          = {g \in Handler : doing[g] \in {"look", "insert", "restore", "sheet"}}
      BY <2>1
    <3> QED
      BY <2>1, <3>1 DEF Needed, G!Rows
  <2>4. \A g \in Handler : given'[g] \in Detached => given'[g] = given[g] /\ doing'[g] = doing[g]
    BY <2>1, PhotoParameters
  <2> QED
    BY <2>1, <2>2, <2>3, <2>4, DiskQuiet
<1>7. CASE G!Look(h) /\ ~G!Forget(h)
  <2>1. /\ doing[h] = "look" /\ doing'[h] \in {"insert", "restore"} /\ given' = given /\ given[h] \in Upload
        /\ \A g \in Handler : g # h => doing'[g] = doing[g]
        /\ UNCHANGED <<url, sheet, file, writer, cut, sent>>
    BY <1>7 DEF G!TypeOK, G!Look, G!Finish, G!Goto, G!tables, G!disk, Carries
  <2>2. \A g \in Handler, f \in G!File : Writing(g, f)' = Writing(g, f)
    BY <2>1 DEF Writing
  <2>3. Needed' = Needed
    <3>1. {g \in Handler : doing'[g] \in {"look", "insert", "restore", "sheet"}}
          = {g \in Handler : doing[g] \in {"look", "insert", "restore", "sheet"}}
      BY <2>1
    <3> QED
      BY <2>1, <3>1 DEF Needed, G!Rows
  <2>4. \A g \in Handler : given'[g] \in Detached => given'[g] = given[g] /\ doing'[g] = doing[g]
    BY <2>1, PhotoParameters
  <2> QED
    BY <2>1, <2>2, <2>3, <2>4, DiskQuiet
<1>8. CASE \E i \in G!Image : G!RemoveRead(h, i)
  <2>1. /\ doing[h] = "idle" /\ doing'[h] = "remove" /\ given' = given /\ given[h] = NoFile
        /\ \A g \in Handler : g # h => doing'[g] = doing[g]
        /\ UNCHANGED <<url, sheet, file, writer, cut, sent>>
    BY <1>8 DEF G!TypeOK, G!RemoveRead, G!Goto, G!tables, G!disk, Carries
  <2>2. \A g \in Handler, f \in G!File : Writing(g, f)' = Writing(g, f)
    BY <2>1 DEF Writing
  <2>3. Needed' = Needed
    <3>1. {g \in Handler : doing'[g] \in {"look", "insert", "restore", "sheet"}}
          = {g \in Handler : doing[g] \in {"look", "insert", "restore", "sheet"}}
      BY <2>1
    <3> QED
      BY <2>1, <3>1 DEF Needed, G!Rows
  <2>4. \A g \in Handler : given'[g] \in Detached => given'[g] = given[g] /\ doing'[g] = doing[g]
    BY <2>1, PhotoParameters
  <2> QED
    BY <2>1, <2>2, <2>3, <2>4, DiskQuiet
<1>9. CASE G!Restore(h) \/ G!RemoveCommit(h) \/ (G!Abort(h) /\ doing[h] # "write")
           \/ (G!Count(h) /\ G!Forget(h)) \/ (G!Look(h) /\ G!Forget(h))
  BY <1>3, <1>9 DEF G!Restore, G!RemoveCommit, G!Abort, G!Count, G!Look, G!Finish, G!FinishChanged, G!tables
<1> QED
  BY <1>1, <1>2, <1>4, <1>5, <1>6, <1>7, <1>8, <1>9 DEF Step

LEMMA DiskSeed ==
    ASSUME G!TypeOK, DiskKept, RowsKept, NEW b \in Boot, at[b] = "unit_images" => absent[b] \subseteq Seed,
           SeedStep(b)
    PROVE  DiskKept'
<1>1. UNCHANGED <<sheet, file, writer, cut, sent, doing, given>>
  BY SeedFrame
<1>2. ASSUME NEW i \in G!Rows', url'[i] \in G!File PROVE url'[i] \in Needed
  <2>1. CASE G!SeedImages(b)
    <3>1. absent[b] \subseteq Seed
      BY <2>1 DEF G!SeedImages
    <3>2. i \in G!Rows /\ url'[i] = url[i]
      BY <1>2, <2>1, <3>1, SeededRows, PhotoParameters DEF G!File
    <3> QED
      BY <3>2 DEF Needed
  <2>2. CASE ~G!SeedImages(b)
    BY <1>2, <2>2, SeedFrame DEF Needed, G!Rows
  <2> QED
    BY <2>1, <2>2
<1>3. G!File \cap Needed' \subseteq Needed
  BY <1>1, <1>2 DEF Needed
<1>4. \A g \in Handler, f \in G!File : Writing(g, f)' = Writing(g, f)
  BY <1>1 DEF Writing
<1> QED
  BY <1>1, <1>3, <1>4, DiskQuiet

-----------------------------------------------------------------------------
(* The invariant, and what follows.                                           *)

LEMMA PhotoInit == G!Init => PhotoIInv
<1> SUFFICES ASSUME G!Init PROVE PhotoIInv
  OBVIOUS
<1>1. /\ row = [k \in G!Key |-> "none"] /\ link = [k \in G!DEFAULT_UNIT_FEATURES |-> "none"]
      /\ url = [i \in G!Image |-> NoFile] /\ removed = {} /\ sheet = NoFile
      /\ file = [f \in G!File |-> "none"] /\ writer = [f \in G!File |-> NoFile] /\ cut = {} /\ sent = {}
      /\ doing = [h \in Handler |-> "idle"] /\ given = [h \in Handler |-> NoFile]
      /\ image = [h \in Handler |-> NoFile] /\ former = [h \in Handler |-> NoFile]
      /\ at = [b \in Boot |-> "off"] /\ read = [b \in Boot |-> FALSE]
      /\ absent = [b \in Boot |-> {}] /\ saw = [b \in Boot |-> G!AllLive]
      /\ stale = {} /\ raced = {}
  BY DEF G!Init
<1>2. G!Rows = {} /\ NoFile \notin G!File
  BY <1>1, PhotoParameters DEF G!Rows, G!File
<1>3. G!TypeOK
  BY <1>1, KeySets DEF G!TypeOK
<1>4. Consecutive
  <2>1. 0 \in 0..Images /\ 1..0 = {}
    BY PhotoParameters
  <2> QED
    BY <1>2, <2>1 DEF Consecutive
<1>5. OneRow /\ AsRead
  BY <1>1, <1>2 DEF OneRow, AsRead, Attaching
<1>6. SeededSoFar
  BY <1>1 DEF SeededSoFar, SeededBy, Past
<1>7. \A h \in Handler : Carries(h)
  BY <1>1 DEF Carries
<1>8. Needed \subseteq {NoFile}
  BY <1>1, <1>2 DEF Needed
<1>9. FilesKept
  BY <1>2, <1>8 DEF FilesKept
<1>10. LastWriter /\ Private
  BY <1>1, <1>2 DEF LastWriter, Private, Writing, G!File
<1> QED
  BY <1>3, <1>4, <1>5, <1>6, <1>7, <1>9, <1>10 DEF PhotoIInv

LEMMA PhotoNext == PhotoIInv /\ G!Next => PhotoIInv'
<1> SUFFICES ASSUME PhotoIInv, G!Next PROVE PhotoIInv'
  OBVIOUS
<1>1. G!TypeOK /\ RowsKept /\ DiskKept /\ SeededSoFar /\ \A h \in Handler : Carries(h)
  BY DEF PhotoIInv, RowsKept, DiskKept
<1>2. \A b \in Boot : at[b] = "unit_images" => absent[b] \subseteq Seed
  BY <1>1 DEF SeededSoFar, SeededBy
<1>3. G!Rows \subseteq G!Rows' /\ \A i \in G!Rows : url'[i] = url[i]
  BY <1>1, <1>2, RowsGrow
<1>4. \A p \in Seed : G!RowsOf(p)' = {} => G!RowsOf(p) = {}
  BY <1>3 DEF G!RowsOf
<1>5. ASSUME NEW h \in Handler, Step(h) PROVE PhotoIInv'
  <2>1. G!TypeOK' /\ RowsKept' /\ DiskKept'
    BY <1>1, <1>5, TypeRequest, RowsRequest, DiskRequest
  <2>2. \A g \in Handler : Carries(g)'
    BY <1>1, <1>3, <1>5, CarriesRequest
  <2>3. UNCHANGED <<row, link, at, read, absent, saw>>
    BY <1>1, <1>5, RequestFrame
  <2>4. \A b \in Boot : SeededBy(b)'
    BY <1>1, <1>4, <2>3, SeededStays DEF SeededSoFar
  <2> QED
    BY <2>1, <2>2, <2>4 DEF PhotoIInv, RowsKept, DiskKept, SeededSoFar
<1>6. ASSUME NEW b \in Boot, SeedStep(b) PROVE PhotoIInv'
  <2>1. G!TypeOK' /\ RowsKept' /\ DiskKept'
    BY <1>1, <1>2, <1>6, TypeSeed, RowsSeed, DiskSeed
  <2>2. /\ UNCHANGED <<doing, given, image>>
        /\ \A c \in Boot : c # b => at'[c] = at[c] /\ read'[c] = read[c] /\ absent'[c] = absent[c] /\ saw'[c] = saw[c]
    BY <1>1, <1>6, SeedFrame
  <2>3. \A g \in Handler : Carries(g)'
    BY <1>1, <1>3, <2>2 DEF Carries
  <2>4. /\ SeededBy(b)'
        /\ \A k \in G!Key : row'[k] = "none" => row[k] = "none"
        /\ \A k \in G!DEFAULT_UNIT_FEATURES : link'[k] = "none" => link[k] = "none"
    BY <1>1, <1>4, <1>6, SeededSeedStep DEF SeededSoFar
  <2>5. ASSUME NEW c \in Boot, c # b PROVE SeededBy(c)'
    BY <1>1, <1>4, <2>2, <2>4, <2>5, SeededStays DEF SeededSoFar
  <2> QED
    BY <2>1, <2>3, <2>4, <2>5 DEF PhotoIInv, RowsKept, DiskKept, SeededSoFar
<1>7. CASE (\E k \in Retired : G!Retire(k)) \/ (\E k \in G!DEFAULT_UNIT_FEATURES : G!Retract(k))
  <2>1. /\ UNCHANGED <<url, removed, sheet, file, writer, cut, sent, doing, given, image, former,
                      at, read, absent, saw, stale, raced>>
        /\ row' \in [G!Key -> {"none", "live", "deleted"}] /\ \A k \in G!Key : row'[k] = "none" => row[k] = "none"
        /\ link' \in [G!DEFAULT_UNIT_FEATURES -> {"none", "live", "deleted"}]
        /\ \A k \in G!DEFAULT_UNIT_FEATURES : link'[k] = "none" => link[k] = "none"
    BY <1>1, <1>7, WithdrawalFrame
  <2>2. \A b \in Boot : SeededBy(b)'
    BY <1>1, <1>4, <2>1, SeededStays DEF SeededSoFar
  <2>3. G!TypeOK'
    BY <1>1, <2>1 DEF G!TypeOK, G!Rows
  <2>4. G!Rows' = G!Rows /\ G!LiveRows' = G!LiveRows /\ \A p : G!RowsOf(p)' = G!RowsOf(p)
    BY <2>1 DEF G!Rows, G!LiveRows, G!RowsOf
  <2>5. RowsKept'
    BY <1>1, <2>1, <2>4 DEF RowsKept, Consecutive, OneRow, AsRead, Attaching
  <2>6. \A h \in Handler : Carries(h)'
    BY <1>1, <2>1, <2>4 DEF Carries
  <2>7. Needed' = Needed
    BY <2>1, <2>4 DEF Needed
  <2>8. \A g \in Handler, f \in G!File : Writing(g, f)' = Writing(g, f)
    BY <2>1 DEF Writing
  <2>9. DiskKept'
    BY <1>1, <2>1, <2>7, <2>8, DiskQuiet
  <2> QED
    BY <2>2, <2>3, <2>5, <2>6, <2>9 DEF PhotoIInv, RowsKept, DiskKept, SeededSoFar
<1> QED
  BY <1>5, <1>6, <1>7, RequestSteps DEF G!Next, SeedStep

LEMMA PhotoStep == PhotoIInv /\ [G!Next]_(G!vars) => PhotoIInv'
<1> SUFFICES ASSUME PhotoIInv, UNCHANGED G!vars PROVE PhotoIInv'
  BY PhotoNext
<1>1. UNCHANGED <<row, link, url, removed, sheet, file, writer, cut, sent, doing, given, image, former,
                  at, read, absent, saw, stale, raced>>
  BY DEF G!vars, G!tables, G!disk, G!requests, G!boots, G!history
<1>2. /\ G!Rows' = G!Rows /\ G!LiveRows' = G!LiveRows /\ Needed' = Needed
      /\ \A p : G!RowsOf(p)' = G!RowsOf(p)
      /\ \A g \in Handler, f \in G!File : Writing(g, f)' = Writing(g, f)
  BY <1>1 DEF G!Rows, G!LiveRows, G!RowsOf, Needed, Writing
<1>3. G!TypeOK' /\ \A h \in Handler : Carries(h)'
  BY <1>1, <1>2 DEF PhotoIInv, G!TypeOK, Carries
<1>4. Consecutive' /\ OneRow' /\ AsRead'
  BY <1>1, <1>2 DEF PhotoIInv, Consecutive, OneRow, AsRead, Attaching
<1>5. SeededSoFar'
  BY <1>1, <1>2, SeededStays DEF PhotoIInv, SeededSoFar
<1>6. DiskKept'
  BY <1>1, <1>2, DiskQuiet DEF PhotoIInv, DiskKept
<1> QED
  BY <1>3, <1>4, <1>5, <1>6 DEF PhotoIInv, DiskKept

(* The gallery, its files and the seeder keep their types.                    *)
THEOREM PhotosTypeCorrect == G!Spec => []G!TypeOK
<1>1. PhotoIInv => G!TypeOK
  BY DEF PhotoIInv
<1> QED
  BY <1>1, PhotoInit, PhotoStep, PTL DEF G!Spec

(* What a page of a unit shows has its file, and a photo is there once unless  *)
(* work overlapped, whatever is uploaded, removed, cut short and seeded        *)
(* (UploadService, the storage provider, initialize_default_unit_images).      *)
THEOREM GalleryAlwaysIntact == G!Spec => []GalleryIntact
<1>1. PhotoIInv => GalleryIntact
  <2> SUFFICES ASSUME PhotoIInv PROVE G!RowsHaveFiles /\ G!OneRowPerPhoto
    BY DEF GalleryIntact, G!GalleryIntact
  <2>1. G!Page \subseteq Needed
    BY DEF G!Page, Needed, G!LiveRows
  <2>2. G!RowsHaveFiles
    BY <2>1 DEF PhotoIInv, FilesKept, Kept, Writing, Private, G!TypeOK, G!RowsHaveFiles
  <2>3. ASSUME NEW p \in G!Photo \ raced PROVE Cardinality(G!RowsOf(p)) <= 1
    <3>1. \A i, j \in G!RowsOf(p) : i = j
      BY <2>3 DEF PhotoIInv, OneRow, G!RowsOf
    <3>2. CASE G!RowsOf(p) = {}
      BY <3>2, FS_EmptySet
    <3>3. CASE \E i : G!RowsOf(p) = {i}
      BY <3>3, FS_Singleton
    <3> QED
      BY <3>1, <3>2, <3>3
  <2>4. G!OneRowPerPhoto
    BY <2>3, SameCardinality DEF G!OneRowPerPhoto
  <2> QED
    BY <2>2, <2>4
<1> QED
  BY <1>1, PhotoInit, PhotoStep, PTL DEF G!Spec

(* A start that came to its end left nothing of the dictionaries out, at      *)
(* whichever table earlier ones failed (db_initialization).                   *)
THEOREM SeededAlwaysInFull == G!Spec => []SeededInFull
<1>1. PhotoIInv => SeededInFull
  <2> SUFFICES ASSUME PhotoIInv, NEW b \in Boot, at[b] = "done"
               PROVE  /\ \A k \in G!Key : row[k] # "none"
                      /\ \A k \in G!DEFAULT_UNIT_FEATURES : link[k] # "none"
                      /\ \A p \in Seed : G!RowsOf(p) # {}
    BY KeySets DEF SeededInFull, G!SeededInFull
  <2> QED
    BY KeySets DEF PhotoIInv, SeededSoFar, SeededBy, Past
<1> QED
  BY <1>1, PhotoInit, PhotoStep, PTL DEF G!Spec

(* How many photos are live after a step of a request.                        *)
LEMMA LiveAfterRequest ==
    ASSUME PhotoIInv, NEW h \in Handler, Step(h), ~(G!LiveRows' \subseteq G!LiveRows)
    PROVE  /\ doing[h] \in {"insert", "restore"} /\ doing'[h] = "idle" /\ at' = at
           /\ \E i \in G!Image : G!LiveRows' \subseteq G!LiveRows \cup {i}
<1>1. at' = at
  BY RequestFrame DEF PhotoIInv
<1>2. Changes(h)
  BY QuietRequest DEF PhotoIInv, G!LiveRows, G!Rows
<1>3. CASE G!RemoveCommit(h)
  BY <1>3 DEF G!RemoveCommit, G!LiveRows, G!Rows
<1>4. CASE G!Restore(h)
  <2>1. /\ doing[h] = "restore" /\ removed' = removed \ {image[h]} /\ url' = url /\ doing'[h] = "idle"
        /\ image[h] \in G!Rows
    BY <1>4 DEF G!Restore, G!FinishChanged, G!Forget, G!Goto, PhotoIInv, G!TypeOK, Carries
  <2>2. G!LiveRows' \subseteq G!LiveRows \cup {image[h]}
    BY <2>1 DEF G!LiveRows, G!Rows
  <2> QED
    BY <1>1, <2>1, <2>2 DEF G!Rows
<1>5. ASSUME NEW i \in G!Image, G!Insert(h, i)
      PROVE  /\ doing[h] \in {"insert", "restore"} /\ doing'[h] = "idle"
             /\ G!LiveRows' \subseteq G!LiveRows \cup {i}
  <2>1. doing[h] = "insert" /\ doing'[h] = "idle" /\ removed' = removed
    BY <1>5 DEF G!Insert, G!FinishChanged, G!Forget, G!Goto, PhotoIInv, G!TypeOK
  <2>2. G!Rows' = G!Rows \cup {i}
    BY <1>5, RowsInsert DEF PhotoIInv, RowsKept
  <2> QED
    BY <2>1, <2>2 DEF G!LiveRows
<1> QED
  BY <1>1, <1>2, <1>3, <1>4, <1>5 DEF Changes

(* An attachment nothing overlapped does not go past the cap it checked before *)
(* it wrote the file (attach_unit_photo).                                     *)
THEOREM CapAlwaysHolds == G!Spec => CapHolds
<1> DEFINE Grows == Cardinality(G!LiveRows') > Cap /\ Cardinality(G!LiveRows') > Cardinality(G!LiveRows)
           Excused == \/ \E h \in stale : at' = at /\ doing[h] # "idle" /\ doing'[h] = "idle"
                      \/ \E b \in Boot : at[b] = "unit_images" /\ at'[b] # at[b]
<1>1. ASSUME PhotoIInv, PhotoIInv', G!Next, Grows PROVE Excused
  <2>1. /\ IsFiniteSet(G!LiveRows) /\ Cardinality(G!LiveRows) \in Nat
        /\ Cap \in Nat
    BY <1>1, RowCount, PhotoParameters DEF PhotoIInv, Consecutive
  <2>2. ~(G!LiveRows' \subseteq G!LiveRows)
    <3>1. G!LiveRows' \subseteq G!LiveRows =>
            Cardinality(G!LiveRows') <= Cardinality(G!LiveRows) /\ IsFiniteSet(G!LiveRows')
      BY <2>1, FS_Subset
    <3>2. G!LiveRows' \subseteq G!LiveRows => Cardinality(G!LiveRows') \in Nat
      BY <3>1, FS_CardinalityType
    <3> QED
      BY <1>1, <2>1, <3>1, <3>2
  <2>3. ASSUME NEW h \in Handler, Step(h) PROVE Excused
    <3>1. /\ doing[h] \in {"insert", "restore"} /\ doing'[h] = "idle" /\ at' = at
          /\ \E i \in G!Image : G!LiveRows' \subseteq G!LiveRows \cup {i}
      BY <1>1, <2>2, <2>3, LiveAfterRequest
    <3>2. PICK i : G!LiveRows' \subseteq G!LiveRows \cup {i}
      BY <3>1
    <3>3. CASE h \in stale
      BY <3>1, <3>3
    <3>4. CASE h \notin stale
      <4>1. given[h] \in Upload
        BY <1>1, <3>1 DEF PhotoIInv, Carries
      <4>2. Cardinality(G!LiveRows) < Cap
        BY <1>1, <3>1, <3>4, <4>1 DEF PhotoIInv, AsRead, Attaching
      <4>3. /\ IsFiniteSet(G!LiveRows \cup {i})
            /\ Cardinality(G!LiveRows \cup {i}) <= Cardinality(G!LiveRows) + 1
            /\ Cardinality(G!LiveRows \cup {i}) \in Nat
        BY <2>1, FS_AddElement, FS_CardinalityType
      <4>4. Cardinality(G!LiveRows') <= Cardinality(G!LiveRows \cup {i}) /\ Cardinality(G!LiveRows') \in Nat
        BY <3>2, <4>3, FS_Subset, FS_CardinalityType
      <4> QED
        BY <1>1, <2>1, <4>2, <4>3, <4>4
    <3> QED
      BY <3>3, <3>4
  <2>4. ASSUME NEW b \in Boot, SeedStep(b) PROVE Excused
    <3>1. G!SeedImages(b)
      BY <1>1, <2>2, <2>4, SeedFrame DEF PhotoIInv, G!LiveRows, G!Rows
    <3>2. at[b] = "unit_images" /\ at'[b] = "unit_features"
      BY <1>1, <3>1, NextTable DEF G!SeedImages, G!Advance, PhotoIInv, G!TypeOK
    <3> QED
      BY <3>2
  <2>5. CASE (\E k \in Retired : G!Retire(k)) \/ (\E k \in G!DEFAULT_UNIT_FEATURES : G!Retract(k))
    BY <1>1, <2>2, <2>5, WithdrawalFrame DEF PhotoIInv, G!LiveRows, G!Rows
  <2> QED
    BY <1>1, <2>3, <2>4, <2>5, RequestSteps DEF G!Next, SeedStep
<1>2. ASSUME PhotoIInv, PhotoIInv', [G!Next]_(G!vars) PROVE Grows => Excused \/ UNCHANGED G!vars
  BY <1>1, <1>2
<1>3. PhotoIInv /\ PhotoIInv' /\ [G!Next]_(G!vars) =>
        [G!Cardinality(G!LiveRows') > Cap /\ G!Cardinality(G!LiveRows') > G!Cardinality(G!LiveRows)
          => \/ \E h \in stale : at' = at /\ doing[h] # "idle" /\ doing'[h] = "idle"
             \/ \E b \in Boot : at[b] = "unit_images" /\ at'[b] # at[b]]_(G!vars)
  BY <1>2, SameCardinality
<1> QED
  BY <1>3, PhotoInit, PhotoStep, PTL DEF G!Spec, CapHolds, G!CapHolds

(* No start of the service brings back a photo that staff removed, and no      *)
(* request but the attachment of that photo does (initialize_default_unit_images, *)
(* attach_unit_photo).                                                        *)
THEOREM RemovedStayRemoved == G!Spec => RemovedStaysRemoved
<1> DEFINE Attached(p) == \E h \in Handler : given[h] = p /\ doing[h] \in {"insert", "restore"}
           Stays == \A p \in G!Photo : G!Gone(p) /\ ~G!Gone(p)' => p \in raced' \/ Attached(p)
<1>1. ASSUME PhotoIInv, G!Next, NEW p \in G!Photo, G!Gone(p), ~G!Gone(p)' PROVE p \in raced' \/ Attached(p)
  <2>1. G!RowsOf(p) # {} /\ G!RowsOf(p) \subseteq removed
    BY <1>1 DEF G!Gone
  <2>2. UNCHANGED <<url, removed>> => FALSE
    BY <1>1, <2>1 DEF G!Gone, G!RowsOf, G!Rows
  <2>3. ASSUME NEW h \in Handler, Step(h) PROVE Attached(p)
    <3>1. Changes(h)
      BY <1>1, <2>2, <2>3, QuietRequest DEF PhotoIInv
    <3>2. ~G!RemoveCommit(h)
      BY <1>1, <2>1 DEF G!Gone, G!RowsOf, G!Rows, G!RemoveCommit
    <3>3. CASE G!Restore(h)
      <4>1. /\ doing[h] = "restore" /\ removed' = removed \ {image[h]} /\ url' = url
            /\ image[h] \in G!Rows /\ url[image[h]] = given[h]
        BY <1>1, <3>3 DEF G!Restore, PhotoIInv, Carries
      <4>2. image[h] \in G!RowsOf(p)
        BY <1>1, <2>1, <4>1 DEF G!Gone, G!RowsOf, G!Rows
      <4>3. given[h] = p
        BY <4>1, <4>2 DEF G!RowsOf
      <4> QED
        BY <4>1, <4>3
    <3>4. ASSUME NEW i \in G!Image, G!Insert(h, i) PROVE Attached(p)
      <4>1. doing[h] = "insert" /\ removed' = removed /\ url' = [url EXCEPT ![i] = given[h]]
        BY <3>4 DEF G!Insert
      <4>2. i \notin G!Rows /\ G!Rows' = G!Rows \cup {i} /\ \A j \in G!Rows : j \in G!Image
        BY <1>1, <3>4, RowsInsert DEF PhotoIInv, RowsKept, G!Rows
      <4>3. url'[i] = given[h] /\ \A j \in G!Rows : url'[j] = url[j]
        BY <1>1, <4>1, <4>2 DEF PhotoIInv, G!TypeOK
      <4>4. given[h] = p
        BY <1>1, <2>1, <4>1, <4>2, <4>3 DEF G!Gone, G!RowsOf
      <4> QED
        BY <4>1, <4>4
    <3> QED
      BY <3>1, <3>2, <3>3, <3>4 DEF Changes
  <2>4. ASSUME NEW b \in Boot, SeedStep(b) PROVE p \in raced'
    <3>1. G!SeedImages(b) /\ removed' = removed
      BY <1>1, <2>2, <2>4, SeedFrame DEF PhotoIInv
    <3>2. /\ at[b] = "unit_images" /\ read[b] /\ absent[b] \subseteq Seed
          /\ raced' = IF b \in stale THEN raced \cup absent[b] ELSE raced
      BY <1>1, <3>1 DEF G!SeedImages, PhotoIInv, SeededSoFar, SeededBy
    <3>3. /\ \A i \in G!Rows : url'[i] = url[i]
          /\ G!Rows \subseteq G!Rows'
          /\ \A i \in G!Rows' \ G!Rows : url'[i] \in absent[b]
      BY <1>1, <3>1, <3>2, SeededRows DEF PhotoIInv, RowsKept
    <3>4. p \in absent[b]
      <4>1. SUFFICES ASSUME p \notin absent[b] PROVE FALSE
        OBVIOUS
      <4>2. G!RowsOf(p)' = G!RowsOf(p)
        BY <3>3, <4>1 DEF G!RowsOf
      <4> QED
        BY <1>1, <2>1, <3>1, <4>2 DEF G!Gone
    <3>5. b \in stale
      BY <1>1, <2>1, <3>2, <3>4 DEF PhotoIInv, AsRead
    <3> QED
      BY <3>2, <3>4, <3>5
  <2>5. CASE (\E k \in Retired : G!Retire(k)) \/ (\E k \in G!DEFAULT_UNIT_FEATURES : G!Retract(k))
    BY <1>1, <2>2, <2>5, WithdrawalFrame DEF PhotoIInv
  <2> QED
    BY <1>1, <2>3, <2>4, <2>5, RequestSteps DEF G!Next, SeedStep
<1>2. PhotoIInv /\ [G!Next]_(G!vars) =>
        [\A p \in G!Photo : G!Gone(p) /\ ~G!Gone(p)'
          => p \in raced' \/ \E h \in Handler : given[h] = p /\ doing[h] \in {"insert", "restore"}]_(G!vars)
  BY <1>1
<1> QED
  BY <1>2, PhotoInit, PhotoStep, PTL DEF G!Spec, RemovedStaysRemoved, G!RemovedStaysRemoved
=============================================================================
