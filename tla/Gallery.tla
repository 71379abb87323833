------------------------------- MODULE Gallery --------------------------------
(***************************************************************************)
(* The photos of a unit (Backend/app/Services/UploadService.py): staff      *)
(* attach and remove them and set the auction sheet, while the seeder       *)
(* (Backend/app/Utils/db_initialization) puts its rows in at every start.   *)
(*                                                                         *)
(* An upload writes a file, whose name is the hash of its bytes, and then a *)
(* row; nothing in the schema keeps two rows of a unit from one file.  The  *)
(* seeder runs at the start of the service and from a script, which may     *)
(* overlap; it commits table by table what it found missing.                *)
(***************************************************************************)
EXTENDS Integers, FiniteSets

CONSTANTS
    Upload,     \* the photos staff upload
    Sheet,      \* the auction sheets
    Detached,   \* uploads of visitors, each under a uuid4 of its own
    Seed,       \* the photos of DEFAULT_UNIT_IMAGES, on the servers of others
    Images,     \* how many rows unit_images can take
    Handler,    \* upload and removal requests
    Boot,       \* runs of the seeder
    Retired,    \* the keys of rows an operator may retire
    Cap,        \* MAX_PHOTOS_PER_UNIT
    Nil

VARIABLES
    row,        \* the rows of units, features and destinations, by key
    link,       \* the rows of unit_features
    url,        \* the photo of each row of unit_images
    removed,    \* rows with deleted_at
    sheet,      \* units.auction_sheet_url
    file,       \* files on the disk
    writer,     \* who opened a file last
    cut,        \* files a request was ended in the writing of (history)
    sent,       \* detached uploads whose address the visitor has
    step,       \* what each request does next
    given,      \* the file it was sent
    image,      \* the row it has read
    old,        \* the sheet it has read
    at,         \* the table each run of the seeder is at
    read,       \* whether it has read that table
    absent,     \* the keys it found no row of
    saw,        \* the links it read, those of unknown units left out as "live"
    stale,      \* requests and runs since whose first reading the gallery changed (history)
    raced       \* photos a stale one has inserted (history)

tables == <<row, link, url, removed, sheet>>
disk == <<file, writer, cut, sent>>
requests == <<step, given, image, old>>
boots == <<at, read, absent, saw>>
history == <<stale, raced>>
vars == <<tables, disk, requests, boots, history>>

(* The dictionaries of the seeder, with one unit, feature and destination. *)
DEFAULT_UNITS == {"unit"}
DEFAULT_FEATURES == {"feature"}
DEFAULT_DESTINATIONS == {"destination"}
DEFAULT_UNIT_FEATURES == DEFAULT_UNITS \X DEFAULT_FEATURES
DEFAULT_UNIT_IMAGES == Seed

AllLive == [k \in DEFAULT_UNIT_FEATURES |-> "live"]

Key == DEFAULT_UNITS \cup DEFAULT_FEATURES \cup DEFAULT_DESTINATIONS
Image == 1..Images
Photo == Upload \cup Seed
File == Upload \cup Sheet \cup Detached

Rows == {i \in Image : url[i] # Nil}
LiveRows == Rows \ removed
RowsOf(p) == {i \in Rows : url[i] = p}

TypeOK ==
    /\ row \in [Key -> {"none", "live", "deleted"}]
    /\ link \in [DEFAULT_UNIT_FEATURES -> {"none", "live", "deleted"}]
    /\ url \in [Image -> Photo \cup {Nil}] /\ removed \subseteq Rows
    /\ sheet \in Sheet \cup {Nil}
    /\ file \in [File -> {"none", "torn", "whole"}]
    /\ writer \in [File -> Handler \cup {Nil}] /\ cut \subseteq File /\ sent \subseteq Detached
    /\ step \in [Handler -> {"idle", "count", "open", "write", "look", "insert", "restore",
                          "sheet", "remove", "answer"}]
    /\ given \in [Handler -> File \cup {Nil}]
    /\ image \in [Handler -> Image \cup {Nil}]
    /\ old \in [Handler -> Sheet \cup {Nil}]
    /\ \A h \in Handler : image[h] # Nil <=> step[h] \in {"restore", "remove"}
    /\ at \in [Boot -> {"off", "done", "units", "features", "unit_images", "unit_features", "destinations"}]
    /\ read \in [Boot -> BOOLEAN]
    /\ absent \in [Boot -> SUBSET (Key \cup Seed)]
    /\ saw \in [Boot -> [DEFAULT_UNIT_FEATURES -> {"none", "live", "deleted"}]]
    /\ stale \subseteq Handler \cup Boot /\ raced \subseteq Photo

Init ==
    /\ row = [k \in Key |-> "none"]
    /\ link = [k \in DEFAULT_UNIT_FEATURES |-> "none"]
    /\ url = [i \in Image |-> Nil] /\ removed = {} /\ sheet = Nil
    /\ file = [f \in File |-> "none"] /\ writer = [f \in File |-> Nil] /\ cut = {} /\ sent = {}
    /\ step = [h \in Handler |-> "idle"]
    /\ given = [h \in Handler |-> Nil]
    /\ image = [h \in Handler |-> Nil]
    /\ old = [h \in Handler |-> Nil]
    /\ at = [b \in Boot |-> "off"]
    /\ read = [b \in Boot |-> FALSE]
    /\ absent = [b \in Boot |-> {}]
    /\ saw = [b \in Boot |-> AllLive]
    /\ stale = {} /\ raced = {}

-----------------------------------------------------------------------------
(* Requests of staff. *)

Goto(h, next) == step' = [step EXCEPT ![h] = next]

(* The rows of the gallery change: whoever is under way has read old ones. *)
Outdated == {h \in Handler : step[h] # "idle"} \cup {b \in Boot : read[b]}

Forget(h) ==
    /\ Goto(h, "idle")
    /\ given' = [given EXCEPT ![h] = Nil]
    /\ image' = [image EXCEPT ![h] = Nil]
    /\ old' = [old EXCEPT ![h] = Nil]

Finish(h) == Forget(h) /\ stale' = stale \ {h}

FinishChanged(h) == Forget(h) /\ stale' = (stale \cup Outdated) \ {h}

Take(h, f, next) ==
    /\ step[h] = "idle"
    /\ Goto(h, next)
    /\ given' = [given EXCEPT ![h] = f]
    /\ old' = [old EXCEPT ![h] = IF f \in Sheet THEN sheet ELSE Nil]
    /\ stale' = stale \ {h}
    /\ UNCHANGED <<tables, disk, image, boots, raced>>

(* attach_unit_photo and attach_unit_auction_sheet, up to the unit. *)
BeginPhoto(h) == row["unit"] = "live" /\ \E f \in Upload : Take(h, f, "count")

BeginSheet(h) == row["unit"] = "live" /\ \E f \in Sheet : Take(h, f, "open")

(* upload: nothing is looked up, and the name is fresh. *)
BeginDetached(h) ==
    \E f \in Detached : /\ file[f] = "none" /\ \A g \in Handler : given[g] # f
                        /\ Take(h, f, "open")

(* Mutant of Count: the cap is compared with >. *)
CountPastCap(h) ==
    /\ step[h] = "count"
    /\ IF Cardinality(LiveRows) > Cap
          THEN Finish(h)
          ELSE Goto(h, "open") /\ UNCHANGED <<given, image, old, stale>>
    /\ UNCHANGED <<tables, disk, boots, raced>>

Count(h) ==
    /\ step[h] = "count"
    /\ IF Cardinality(LiveRows) >= Cap
          THEN Finish(h)
          ELSE Goto(h, "open") /\ UNCHANGED <<given, image, old, stale>>
    /\ UNCHANGED <<tables, disk, boots, raced>>

(* save: write_bytes empties the file and then writes it. *)
OpenFile(h) ==
    /\ step[h] = "open"
    /\ Goto(h, "write")
    /\ file' = [file EXCEPT ![given[h]] = "torn"]
    /\ writer' = [writer EXCEPT ![given[h]] = h]
    /\ UNCHANGED <<tables, cut, sent, given, image, old, boots, history>>

(* What follows the file: the row of a photo, the column of a sheet, or the answer. *)
Filed(f) == CASE f \in Upload -> "look" [] f \in Sheet -> "sheet" [] OTHER -> "answer"

(* Where another request opened the file later, that one completes it. *)
Close(h) ==
    writer' = [writer EXCEPT ![given[h]] =
        IF \E g \in Handler \ {h} : step[g] = "write" /\ given[g] = given[h] THEN @ ELSE Nil]

WriteFile(h) ==
    /\ step[h] = "write"
    /\ Goto(h, Filed(given[h]))
    /\ \/ file' = [file EXCEPT ![given[h]] = "whole"] /\ cut' = cut \ {given[h]}
       \/ writer[given[h]] # h /\ UNCHANGED <<file, cut>>
    /\ Close(h)
    /\ UNCHANGED <<tables, sent, given, image, old, boots, history>>

(* Mutant of Look: removed rows are not looked at. *)
LookAtLive(h) ==
    /\ step[h] = "look"
    /\ IF RowsOf(given[h]) \cap LiveRows = {}
          THEN Goto(h, "insert") /\ UNCHANGED <<given, image, old, stale>>
          ELSE Finish(h)
    /\ UNCHANGED <<tables, disk, boots, raced>>

(* scalar_one_or_none raises if the photo has two rows. *)
Look(h) ==
    /\ step[h] = "look"
    /\ \/ RowsOf(given[h]) = {} /\ Goto(h, "insert") /\ UNCHANGED <<given, image, old, stale>>
       \/ Cardinality(RowsOf(given[h])) > 1 /\ Finish(h)
       \/ \E i \in Rows :
             /\ RowsOf(given[h]) = {i}
             /\ IF i \in removed
                   THEN /\ Goto(h, "restore")
                        /\ image' = [image EXCEPT ![h] = i]
                        /\ UNCHANGED <<given, old, stale>>
                   ELSE Finish(h)
    /\ UNCHANGED <<tables, disk, boots, raced>>

(* The ids of the rows of unit_images that are inserted next. *)
NextIds(n) == {i \in Image : Cardinality(Rows) < i /\ i <= Cardinality(Rows) + n}

(* The row and its audit row, which is left out, are one transaction. *)
Insert(h, i) ==
    /\ step[h] = "insert" /\ i \in NextIds(1)
    /\ url' = [url EXCEPT ![i] = given[h]]
    /\ raced' = IF h \in stale THEN raced \cup {given[h]} ELSE raced
    /\ FinishChanged(h)
    /\ UNCHANGED <<row, link, removed, sheet, disk, boots>>

(* A photo that is attached again is restored, without an audit row. *)
Restore(h) ==
    /\ step[h] = "restore"
    /\ removed' = removed \ {image[h]}
    /\ FinishChanged(h)
    /\ UNCHANGED <<row, link, url, sheet, disk, boots, raced>>

(* The ORM writes nothing if the sheet is the one it read. *)
SetSheet(h) ==
    /\ step[h] = "sheet"
    /\ sheet' = IF given[h] = old[h] THEN sheet ELSE given[h]
    /\ Finish(h)
    /\ UNCHANGED <<row, link, url, removed, disk, boots, raced>>

(* remove_unit_photo: the check and the commit. *)
RemoveRead(h, i) ==
    /\ step[h] = "idle" /\ i \in LiveRows
    /\ Goto(h, "remove")
    /\ image' = [image EXCEPT ![h] = i]
    /\ stale' = stale \ {h}
    /\ UNCHANGED <<tables, disk, given, old, boots, raced>>

RemoveCommit(h) ==
    /\ step[h] = "remove"
    /\ removed' = removed \cup {image[h]}
    /\ FinishChanged(h)
    /\ UNCHANGED <<row, link, url, sheet, disk, boots, raced>>

Answer(h) ==
    /\ step[h] = "answer"
    /\ sent' = sent \cup {given[h]}
    /\ Finish(h)
    /\ UNCHANGED <<tables, file, writer, cut, boots, raced>>

(* An error or a restart: no row, but the file stays as it is. *)
Abort(h) ==
    /\ IF step[h] = "write"
          THEN /\ cut' = cut \cup {given[h]}
               /\ Close(h)
               /\ UNCHANGED <<file, sent>>
          ELSE UNCHANGED disk
    /\ Finish(h)
    /\ UNCHANGED <<tables, boots, raced>>

(* The endpoints. *)
AddPhoto(h) ==
    \/ BeginPhoto(h) \/ Count(h) \/ Look(h) \/ Restore(h) \/ \E i \in Image : Insert(h, i)
    \/ given[h] \in Upload /\ Abort(h)

RemovePhoto(h) ==
    \/ RemoveCommit(h) \/ \E i \in Image : RemoveRead(h, i)
    \/ step[h] = "remove" /\ Abort(h)

SetAuctionSheet(h) ==
    \/ BeginSheet(h) \/ SetSheet(h)
    \/ given[h] \in Sheet /\ Abort(h)

UploadFile(h) ==
    \/ BeginDetached(h) \/ Answer(h)
    \/ given[h] \in Detached /\ Abort(h)

Save(h) == OpenFile(h) \/ WriteFile(h)

Request(h) == AddPhoto(h) \/ RemovePhoto(h) \/ SetAuctionSheet(h) \/ UploadFile(h) \/ Save(h)

-----------------------------------------------------------------------------
(* The seeder. *)

(* Mutant of Order: images before the units they belong to. *)
ImagesFirst == <<"unit_images", "units", "features", "unit_features", "destinations", "done">>

Order == <<"units", "features", "unit_images", "unit_features", "destinations", "done">>

After(t) == Order[1 + CHOOSE n \in 1..5 : Order[n] = t]

Start(b) ==
    /\ at[b] = "off"
    /\ at' = [at EXCEPT ![b] = Order[1]]
    /\ UNCHANGED <<tables, disk, requests, read, absent, saw, history>>

(* Mutant of Absent: soft-deleted photos do not count as present. *)
AbsentLive(t) ==
    CASE t = "units" -> {k \in DEFAULT_UNITS : row[k] = "none"}
      [] t = "features" -> {k \in DEFAULT_FEATURES : row[k] = "none"}
      [] t = "destinations" -> {k \in DEFAULT_DESTINATIONS : row[k] = "none"}
      [] t = "unit_images" -> {p \in DEFAULT_UNIT_IMAGES : row["unit"] # "none" /\ RowsOf(p) \ removed = {}}
      [] OTHER -> {}

(* What a SELECT of everything, soft-deleted rows included, finds missing; the  *)
(* images of unknown units are skipped.                                         *)
Absent(t) ==
    CASE t = "units" -> {k \in DEFAULT_UNITS : row[k] = "none"}
      [] t = "features" -> {k \in DEFAULT_FEATURES : row[k] = "none"}
      [] t = "destinations" -> {k \in DEFAULT_DESTINATIONS : row[k] = "none"}
      [] t = "unit_images" -> {p \in DEFAULT_UNIT_IMAGES : row["unit"] # "none" /\ RowsOf(p) = {}}
      [] OTHER -> {}

LinksRead(t) ==
    [k \in DEFAULT_UNIT_FEATURES |->
        IF t = "unit_features" /\ "none" \notin {row[k[1]], row[k[2]]} THEN link[k] ELSE "live"]

SeedRead(b) ==
    /\ at[b] \notin {"off", "done"} /\ ~read[b]
    /\ read' = [read EXCEPT ![b] = TRUE]
    /\ absent' = [absent EXCEPT ![b] = Absent(at[b])]
    /\ saw' = [saw EXCEPT ![b] = LinksRead(at[b])]
    /\ stale' = stale \ {b}
    /\ UNCHANGED <<tables, disk, requests, at, raced>>

(* The next table, after a commit. *)
Advance(b) ==
    /\ at' = [at EXCEPT ![b] = After(at[b])]
    /\ read' = [read EXCEPT ![b] = FALSE]
    /\ absent' = [absent EXCEPT ![b] = {}]
    /\ saw' = [saw EXCEPT ![b] = AllLive]
    /\ stale' = (IF url' = url THEN stale ELSE stale \cup Outdated) \ {b}

(* The unique indexes: the slug of a unit and the name of a feature belong to   *)
(* one row that is not deleted, the code of a country to one row.               *)
UniqueSlug == {"live"}
UniqueName == {"live"}
PrimaryKey == {"live", "deleted"}

(* One transaction; a row that is taken by now is a conflict. *)
InsertMissing(b, taken) ==
    /\ read[b]
    /\ \A k \in absent[b] : row[k] \notin taken
    /\ row' = [k \in Key |-> IF k \in absent[b] THEN "live" ELSE row[k]]
    /\ UNCHANGED <<link, url, removed, sheet, disk, requests, raced>>
    /\ Advance(b)

SeedUnits(b) == at[b] = "units" /\ InsertMissing(b, UniqueSlug)
SeedFeatures(b) == at[b] = "features" /\ InsertMissing(b, UniqueName)
SeedDestinations(b) == at[b] = "destinations" /\ InsertMissing(b, PrimaryKey)

(* initialize_default_unit_images: nothing keeps a second run from the same rows. *)
SeedImages(b) ==
    /\ at[b] = "unit_images" /\ read[b]
    /\ \E new \in [absent[b] -> NextIds(Cardinality(absent[b]))] :
          /\ \A p, q \in absent[b] : new[p] = new[q] => p = q
          /\ url' = [i \in Image |-> IF \E p \in absent[b] : new[p] = i
                                        THEN CHOOSE p \in absent[b] : new[p] = i ELSE url[i]]
    /\ raced' = IF b \in stale THEN raced \cup absent[b] ELSE raced
    /\ Advance(b)
    /\ UNCHANGED <<row, link, removed, sheet, disk, requests>>

(* A unit has a feature once: both ids are the key. *)
Unlinked(k) == link[k] = "none"

(* The missing links, and the retracted ones, restored. *)
SeedLinks(b) ==
    /\ at[b] = "unit_features" /\ read[b]
    /\ \A k \in DEFAULT_UNIT_FEATURES : saw[b][k] = "none" => Unlinked(k)
    /\ link' = [k \in DEFAULT_UNIT_FEATURES |-> IF saw[b][k] # "live" THEN "live" ELSE link[k]]
    /\ UNCHANGED <<row, url, removed, sheet, disk, requests, raced>>
    /\ Advance(b)

(* A conflict or a kill ends the run, or the service stops; systemd or the next deployment starts     *)
(* another.  What it has committed stays.                                       *)
SeedFail(b) ==
    /\ at[b] # "off"
    /\ at' = [at EXCEPT ![b] = "off"]
    /\ read' = [read EXCEPT ![b] = FALSE]
    /\ absent' = [absent EXCEPT ![b] = {}]
    /\ saw' = [saw EXCEPT ![b] = AllLive]
    /\ stale' = stale \ {b}
    /\ UNCHANGED <<tables, disk, requests, raced>>

-----------------------------------------------------------------------------
(* An operator withdraws rows and retracts links; no endpoint does. *)

Retire(k) ==
    /\ row[k] = "live"
    /\ row' = [row EXCEPT ![k] = "deleted"]
    /\ UNCHANGED <<link, url, removed, sheet, disk, requests, boots, history>>

Retract(k) ==
    /\ link[k] = "live"
    /\ link' = [link EXCEPT ![k] = "deleted"]
    /\ UNCHANGED <<row, url, removed, sheet, disk, requests, boots, history>>

Next ==
    \/ \E h \in Handler : Request(h)
    \/ \E b \in Boot :
          \/ Start(b) \/ SeedRead(b) \/ SeedFail(b)
          \/ SeedUnits(b) \/ SeedFeatures(b) \/ SeedImages(b) \/ SeedLinks(b)
          \/ SeedDestinations(b)
    \/ \E k \in Retired : Retire(k)
    \/ \E k \in DEFAULT_UNIT_FEATURES : Retract(k)

Spec == Init /\ [][Next]_vars

-----------------------------------------------------------------------------
(* Properties. *)

(* What a page shows: the sheet and the photos of the unit that are not removed. *)
Page == {sheet} \cup {url[i] : i \in LiveRows}

(* What is shown is there: the file of a photo or a sheet on the page is whole,  *)
(* except while it is written again and if that was cut short; and whoever has   *)
(* the address of a detached upload has that of a whole file.                    *)
RowsHaveFiles ==
    /\ \A f \in File \cap Page : \/ file[f] = "whole"
                                \/ f \in cut
                                \/ \E h \in Handler : step[h] = "write" /\ given[h] = f
    /\ \A f \in sent : file[f] = "whole"

(* A photo has one row however often it is attached, removed and seeded, unless *)
(* the gallery changed while an attachment or a run of the seeder was under way.*)
OneRowPerPhoto ==
    \A p \in Photo \ raced : Cardinality(RowsOf(p)) <= 1

(* Both: what is shown is there, and once. *)
GalleryIntact == RowsHaveFiles /\ OneRowPerPhoto

(* An upload that finds the gallery as it was when it counted keeps to the cap: *)
(* only the seeder and uploads that overlapped go past it.                      *)
CapHolds ==
    [][Cardinality(LiveRows') > Cap /\ Cardinality(LiveRows') > Cardinality(LiveRows)
          => \/ \E h \in stale : at' = at /\ step[h] # "idle" /\ step'[h] = "idle"
             \/ \E b \in Boot : at[b] = "unit_images" /\ at'[b] # at[b]]_vars

(* A photo that staff removed comes back only when they attach it again: no     *)
(* start of the service brings it back, unless two of them overlapped.          *)
Gone(p) == RowsOf(p) # {} /\ RowsOf(p) \subseteq removed

RemovedStaysRemoved ==
    [][\A p \in Photo :
          Gone(p) /\ ~Gone(p)'
             => p \in raced' \/ \E h \in Handler : given[h] = p /\ step[h] \in {"insert", "restore"}]_vars

(* After a start everything is there, whichever starts failed before it at      *)
(* whichever table.                                                             *)
SeededInFull ==
    (\E b \in Boot : at[b] = "done")
        => /\ \A k \in Key : row[k] # "none"
           /\ \A k \in DEFAULT_UNIT_FEATURES : link[k] # "none"
           /\ \A p \in DEFAULT_UNIT_IMAGES : RowsOf(p) # {}
=============================================================================
