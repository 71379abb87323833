------------------------------ MODULE MCStorefront ------------------------------
(* What a person sees of the lists that the backend keeps: the lists and their  *)
(* moderation (Desk), one list and its copy in the browser (QueryCache), or the *)
(* rows it looks up by a key (Upserts).                                         *)
EXTENDS Storefront, TLC, FiniteSets

CONSTANTS MaxClicks, b1

VARIABLES scene, clicks

(* Key is {b1}: an order, a search, or the preferences, of a buyer; a country   *)
(* has no owner.                                                               *)
OwnOrder == [k \in {b1} |-> b1]

(* Bound: where items are added, one of them at least is not there at first.    *)
MCInit ==
    /\ D!Init /\ C!Init /\ U!Init /\ clicks = 0
    /\ scene \in {"desk", "cache", "keyed"}
    /\ hook # "inbox" => \E i \in Item : rows[i] = "none"
    /\ scene # "desk" => table = "inbox"
    /\ scene # "cache" => hook = "inbox" /\ rows = [i \in Item |-> "live"]
    /\ scene # "keyed" => kind = "details"

(* Bounds: rows are owned by buyers or nobody; where they are moderated there   *)
(* are two of them, of nobody; two handlers at a time and a walk are not in one *)
(* behaviour, where there is a walk one review is audited, and a race of the    *)
(* handlers is about one row, which nobody makes pending again.                 *)
Owners == \A r \in D!Id : row[r].owner \notin IF table \in {"reviews", "leads"} THEN D!Person \ {Visitor} ELSE Clerk
TwoRows == table \in {"reviews", "leads"} => row[3].state = "unborn"
WalkOrRace ==
    \/ /\ Cardinality({h \in Handler : desk[h].phase # "idle"}) <= 1 /\ disturbed = {}
       /\ table = "reviews" => Cardinality({r \in D!Id : trail[r] # D!NoTrail}) <= 1
    \/ /\ row[2].state = "unborn" /\ \A w \in Walker : walk[w].phase = "idle"
       /\ \A h \in Handler : desk[h].wants # "pending"

(* Bounds: a browser sends MaxClicks requests, two at a time, one of them again;   *)
(* a try that was given up and may still be run is one of the two; the list is   *)
(* opened, or opened again, while none is waited for.                            *)
FewClicks ==
    /\ clicks' = clicks + Cardinality({o \in Op : ~C!Busy(o) /\ C!Waiting(o)'})
    /\ clicks' <= MaxClicks
    /\ Cardinality({o \in Op : op[o].tries = 1})' <= 1
    /\ C!Mount => \A o \in Op : ~C!Waiting(o)

(* Bound: of two requests about one row neither has a value that a CHECK refuses. *)
GoodPairs ==
    \/ Cardinality({h \in Handler : form[h] # U!Free}) <= 1
    \/ \A h \in Handler : \A c \in DOMAIN form[h].body : form[h].body[c] # "bad"

MCNext ==
    /\ UNCHANGED scene
    /\ \/ scene = "desk" /\ D!Next /\ Owners' /\ TwoRows' /\ WalkOrRace' /\ UNCHANGED <<clicks, copy, keyed>>
       \/ scene = "cache" /\ C!Next /\ FewClicks /\ UNCHANGED <<lists, keyed>>
       \/ scene = "keyed" /\ U!Next /\ GoodPairs' /\ UNCHANGED <<clicks, lists, copy>>

MCSpec == MCInit /\ [][MCNext]_<<scene, clicks, lists, copy, keyed>>

Symmetry == Permutations(Customer) \cup Permutations(Clerk) \cup Permutations(Handler)
            \cup Permutations(Op) \cup Permutations(Item)
=============================================================================
