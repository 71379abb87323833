----------------------------- MODULE MCCatalogue ------------------------------
(* The units of the shop as a visitor finds them (Stock), or their photos and   *)
(* the seeder that brings both (Gallery), on small sets for TLC: three units of *)
(* two makes and two body types.                                               *)
EXTENDS Stock, Photos, TLC

VARIABLE scene

photos == <<row, link, url, removed, sheet, file, writer, cut, sent, doing, given, image, former,
            at, read, absent, saw, stale, raced>>

MCUnit == 1..3

MCOf ==
    [category |-> [u \in MCUnit |-> "vehicle"],
     body_type |-> <<"SUV", "SUV", "Sedan">>,
     make |-> <<"Kia", "Kia", "RAM">>,
     model |-> <<"a", "b", "b">>,
     fuel_type |-> <<"petrol", "diesel", "diesel">>]

MCSeeded == <<1, 2, 1>>
MCGrade == <<5, 4, 4>>
MCMileage == <<Nil, 10, Nil>>

MCFilter ==
    [category : {Unset, "vehicle"}, body_type : {Unset, "SUV", "Sedan"}, make : {Unset, "Kia", "RAM"},
     model : {Unset}, fuel_type : {Unset, "petrol", "diesel"}, price_max : {Unset, 1}]

(* Bound: the filters a visitor comes with; nobody searches in the other scene. *)
NoFilter == [a \in Attribute \cup {"price_max"} |-> Unset]
Coming == {NoFilter, [NoFilter EXCEPT !["make"] = "Kia", !["price_max"] = 1]}
Plain == filter = NoFilter /\ sort = "newest"
MCInit ==
    /\ scene \in {"search", "gallery"} /\ Init /\ G!Init
    /\ filter \in Coming
    /\ scene = "gallery" => Plain /\ stock = [u \in Unit |-> "none"]

(* Bounds: two price updates and a market position, which have nothing to do     *)
(* with the search, are there with one of the searches only; once the visitor is  *)
(* there, one update is enough.  Options are chosen before a search in the order  *)
(* of the ids, and then no price changes; units still arrive, are sold and are    *)
(* withdrawn.                                                                     *)
OneOption == filter' # filter => sort = "newest" /\ figure = Nil

FewUpdates ==
    /\ (Plain /\ phase' = "idle") \/ Cardinality({h \in Staff : step'[h] # "new"}) <= 1
    /\ phase' = "widen" => Plain
    /\ filter' \in Coming \/ \A h \in Staff : step'[h] = "new"

(* Bounds: two requests or runs of the seeder are under way at a time, two runs *)
(* only while nothing has been uploaded; photos, auction sheets and detached     *)
(* files, which have files and columns of their own, are not uploaded in one     *)
(* behaviour.                                                                    *)
Serving == {h \in Handler : doing[h] # "idle"}
Seeding == {b \in Boot : at[b] \notin {"off", "done"}}

OneKind ==
    \E kind \in {Upload, Sheet, Detached} : \A f \in G!File \ kind : file'[f] = "none"

TwoAtOnce ==
    /\ Cardinality(Serving') + Cardinality(Seeding') <= 2
    /\ Cardinality(Seeding') = 2 => \A f \in G!File : file'[f] = "none"
    /\ OneKind

MCNext ==
    /\ UNCHANGED scene
    /\ \/ scene = "search" /\ Next /\ FewUpdates /\ OneOption /\ UNCHANGED photos
       \/ scene = "gallery" /\ G!Next /\ TwoAtOnce /\ UNCHANGED vars

MCSpec == MCInit /\ [][MCNext]_<<scene, vars, photos>>

Symmetry == Permutations(Staff) \cup Permutations(Handler) \cup Permutations(Boot)
=============================================================================
