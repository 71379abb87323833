-------------------------------- MODULE Photos --------------------------------
(* Gallery under names of its own, beside Stock: the photos of the units that  *)
(* the catalogue lists.                                                       *)
EXTENDS FiniteSets, Integers

CONSTANTS Upload, Sheet, Detached, Seed, Images, Handler, Boot, Retired, Cap, NoFile

VARIABLES
    row, link, url, removed, sheet, file, writer, cut, sent, doing, given, image, former,
    at, read, absent, saw, stale, raced

G == INSTANCE Gallery WITH step <- doing, old <- former, Nil <- NoFile

(* Photos, sheets, detached files and seeded photos have names of their own; the *)
(* dictionary of the seeder is finite.                                        *)
ASSUME PhotoParameters ==
    /\ Upload \cap Sheet = {} /\ Seed \cap (Upload \cup Sheet) = {}
    /\ Detached \cap (Upload \cup Sheet \cup Seed) = {} /\ IsFiniteSet(Seed)
    /\ Handler \cap Boot = {} /\ Retired \subseteq {"unit", "feature", "destination"}
    /\ Images \in Nat /\ Cap \in Nat \ {0}
    /\ NoFile \notin Upload \cup Sheet \cup Detached \cup Seed \cup Handler \cup Nat

-----------------------------------------------------------------------------
(* What is shown is there, and once (Gallery).                                *)
GalleryIntact == G!GalleryIntact

(* After a start everything is there (Gallery).                               *)
SeededInFull == G!SeededInFull

(* Only the seeder and uploads that overlapped go past the cap (Gallery).     *)
CapHolds == G!CapHolds

(* A removed photo comes back only when it is attached again (Gallery).       *)
RemovedStaysRemoved == G!RemovedStaysRemoved
=============================================================================
