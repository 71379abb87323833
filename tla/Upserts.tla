-------------------------------- MODULE Upserts --------------------------------
(***************************************************************************)
(* Rows that are looked up by a key, then inserted or changed: the          *)
(* destination of a country (DestinationService), the preferences of an     *)
(* account (NotificationPreferenceService), the fulfilment details of an    *)
(* order (OrderService) and the saved searches (SavedSearchService), which  *)
(* are inserted under an id of their own.                                   *)
(*                                                                         *)
(* A handler reads the row, and its commit inserts or updates.  The ORM     *)
(* writes the columns that are not what was read; the database refuses a    *)
(* second row of a key, a NULL and a value outside of a CHECK.              *)
(***************************************************************************)
EXTENDS Naturals

CONSTANTS
    KeyedTable, \* what a behaviour may be about: "destinations", "preferences", "details", "searches"
    Key,        \* countries, accounts, orders or searches
    OwnerOf,    \* the account of each order or search, a key, or Nobody for a guest's
    Staff, Nobody,
    Absent,     \* no row
    Handler     \* requests that can be under way at once

VARIABLES
    kind,       \* the table this is about
    saved,      \* its rows, by key
    gone,       \* keys of rows with deleted_at
    form,       \* the requests under way
    last,       \* the row the last save of each key asked for (history)
    mixed,      \* keys two requests of which overlapped (history)
    failed      \* keys for which a valid payload got an error (history)

vars == <<kind, saved, gone, form, last, mixed, failed>>

(* Two columns of each table stand for all: is it NOT NULL, has it a CHECK, *)
(* is it JSON?                                                              *)
DestinationColumns == [origin_port |-> {"required", "checked"}, shipping_mode |-> {"checked"}]
PreferenceColumns == [digest_frequency |-> {"required", "checked"}, quiet_hours |-> {}]
DetailColumns == [consignee_name |-> {"required"}, postal_code |-> {}]
SearchColumns == [filters |-> {"required", "json"}, alert_enabled |-> {"required"}]

Columns == CASE kind = "destinations" -> DestinationColumns
             [] kind = "preferences" -> PreferenceColumns
             [] kind = "searches" -> SearchColumns
             [] OTHER -> DetailColumns
Column == DOMAIN Columns

Row == [Column -> {"default", "other", "bad", "null"}]

(* What the database takes.  None in a column of JSON is written as the     *)
(* JSON value null, which is not NULL.                                      *)
Ok(r) == \A c \in Column : /\ "required" \in Columns[c] => r[c] # "null" \/ "json" \in Columns[c]
                           /\ "checked" \in Columns[c] => r[c] # "bad"

(* The bodies that pass the schemas: those of a whole row want every        *)
(* required column, a PATCH wants none and takes null for any.              *)
Body == {b \in [Column -> {"default", "other", "bad", "null", "unset"}] :
            \A c \in Column : b[c] = "bad" => "checked" \in Columns[c]}
WholeBody == {b \in Body : \A c \in Column : "required" \in Columns[c] => b[c] \notin {"null", "unset"}}
DestinationUpsert == WholeBody
DetailInput == WholeBody
SavedSearchCreate == WholeBody
PreferenceUpdate == Body
SavedSearchUpdate == Body

(* The server defaults of a row of preferences. *)
Fresh == [c \in Column |-> IF "required" \in Columns[c] THEN "default" ELSE "null"]

Free == [phase |-> "free"]

TypeOK ==
    /\ saved \in [Key -> Row \cup {Absent}] /\ last \in [Key -> Row \cup {Absent}]
    /\ gone \cup mixed \cup failed \subseteq Key
    /\ \A h \in Handler : form[h] # Free => /\ form[h].phase \in {"insert", "update"}
                                            /\ form[h].on \in Key /\ form[h].body \in Body
                                            /\ form[h].read \in Row \cup {Absent}

Init ==
    /\ kind \in KeyedTable
    /\ saved = [k \in Key |-> Absent] /\ gone = {}
    /\ form = [h \in Handler |-> Free]
    /\ last = [k \in Key |-> Absent] /\ mixed = {} /\ failed = {}

On(k) == {h \in Handler : form[h] # Free /\ form[h].on = k}

-----------------------------------------------------------------------------
(* The lookup; the filter on deleted_at is missing. *)
Find(h, k, body) ==
    /\ form[h] = Free
    /\ form' = [form EXCEPT ![h] = [phase |-> IF saved[k] = Absent THEN "insert" ELSE "update",
                                    on |-> k, body |-> body, read |-> saved[k]]]
    /\ mixed' = IF On(k) = {} THEN mixed ELSE mixed \cup {k}
    /\ UNCHANGED <<kind, saved, gone, last, failed>>

PutDestination(h, who, k) ==
    /\ kind = "destinations" /\ who \in Staff
    /\ \E body \in DestinationUpsert : Find(h, k, body)

(* The owner of the order or the staff. *)
PutDetails(h, who, k) ==
    /\ kind = "details" /\ who # Nobody /\ (who \in Staff \/ OwnerOf[k] = who)
    /\ \E body \in DetailInput : Find(h, k, body)

PatchPreferences(h, who) ==
    /\ kind = "preferences" /\ who \in Key
    /\ \E body \in PreferenceUpdate : Find(h, who, body)

(* Reading the preferences creates them. *)
GetPreferences(h, who) ==
    /\ kind = "preferences" /\ who \in Key
    /\ Find(h, who, [c \in Column |-> "unset"])

(* A search gets an id that nobody else has. *)
PostSearch(h, who, k) ==
    /\ kind = "searches" /\ OwnerOf[k] = who /\ who # Nobody
    /\ saved[k] = Absent /\ On(k) = {}
    /\ \E body \in SavedSearchCreate : Find(h, k, body)

(* What _get_owned answers other than 404. *)
Owned(who, k) ==
    /\ kind = "searches" /\ OwnerOf[k] = who /\ who # Nobody
    /\ saved[k] # Absent /\ k \notin gone

PatchSearch(h, who, k) ==
    /\ Owned(who, k)
    /\ \E body \in SavedSearchUpdate : Find(h, k, body)

(* Only deleted_at changes, to the same end if two do it. *)
DeleteSearch(who, k) ==
    /\ Owned(who, k)
    /\ gone' = gone \cup {k}
    /\ UNCHANGED <<kind, saved, form, last, mixed, failed>>

Searches(h, who, k) == PostSearch(h, who, k) \/ PatchSearch(h, who, k) \/ DeleteSearch(who, k)

(* Both are of the account that is signed in. *)
Preferences(h, who) == GetPreferences(h, who) \/ PatchPreferences(h, who)

(* Mutant of Wanted: a body leaves the columns alone that it does not name. *)
WantedIfSent(f) == [c \in Column |-> IF f.body[c] # "unset" THEN f.body[c]
                                     ELSE IF f.read = Absent THEN Fresh[c] ELSE f.read[c]]

(* model_dump(exclude_unset); a search is inserted from a whole body. *)
Partial == kind \in {"preferences", "searches"}

(* What a request asks for: model_dump of a whole body gives a column that  *)
(* is not named NULL, model_dump(exclude_unset) leaves it alone.            *)
Wanted(f) == [c \in Column |-> IF f.body[c] # "unset" THEN f.body[c]
                               ELSE IF Partial THEN f.read[c] ELSE "null"]

(* What the last save should have left (history). *)
Asked(f) == [c \in Column |-> IF f.body[c] # "unset" THEN f.body[c]
                              ELSE IF Partial THEN last[f.on][c] ELSE "null"]

Save(k, r) ==
    /\ saved' = [saved EXCEPT ![k] = r]
    /\ UNCHANGED <<kind, gone, mixed, failed>>

Fail(h, valid) ==
    /\ form' = [form EXCEPT ![h] = Free]
    /\ failed' = IF valid THEN failed \cup {form[h].on} ELSE failed
    /\ UNCHANGED <<kind, saved, gone, last, mixed>>

(* The commit of a request that has found no row. *)
Insert(h) == LET f == form[h] IN
    /\ f.phase = "insert" /\ kind # "preferences"
    /\ IF saved[f.on] = Absent /\ Ok(Wanted(f))
       THEN /\ Save(f.on, Wanted(f))
            /\ last' = [last EXCEPT ![f.on] = Asked(f)]
            /\ form' = [form EXCEPT ![h] = Free]
       ELSE Fail(h, Ok(Wanted(f)))

(* _get_or_create commits the defaults before they are changed. *)
Create(h) == LET f == form[h] IN
    /\ f.phase = "insert" /\ kind = "preferences"
    /\ IF saved[f.on] = Absent
       THEN /\ Save(f.on, Fresh)
            /\ last' = [last EXCEPT ![f.on] = Fresh]
            /\ form' = [form EXCEPT ![h].phase = "update", ![h].read = Fresh]
       ELSE Fail(h, TRUE)

(* The columns that change. *)
Merged(f) == [c \in Column |-> IF Wanted(f)[c] = f.read[c] THEN saved[f.on][c] ELSE Wanted(f)[c]]

Update(h) == LET f == form[h] IN
    /\ f.phase = "update"
    /\ IF Ok(Merged(f))
       THEN /\ Save(f.on, Merged(f))
            /\ last' = [last EXCEPT ![f.on] = Asked(f)]
            /\ form' = [form EXCEPT ![h] = Free]
       ELSE Fail(h, Ok(Wanted(f)))

(* A restart, or an error that is not of the data. *)
Break(h) ==
    /\ form[h] # Free
    /\ Fail(h, FALSE)

Withdraw(k) ==
    /\ kind = "destinations" /\ saved[k] # Absent
    /\ gone' = gone \cup {k}
    /\ UNCHANGED <<kind, saved, form, last, mixed, failed>>

Next ==
    \/ \E h \in Handler :
        \/ \E who \in Key \cup Staff \cup {Nobody} :
            \/ Preferences(h, who)
            \/ \E k \in Key : PutDestination(h, who, k) \/ PutDetails(h, who, k) \/ Searches(h, who, k)
        \/ Insert(h) \/ Create(h) \/ Update(h) \/ Break(h)
    \/ \E k \in Key : Withdraw(k)

Spec == Init /\ [][Next]_vars

(* What is listed, and what is found by its key. *)
Standing(k) == saved[k] # Absent /\ k \notin gone
Listing == {k \in Key : Standing(k)}
Shown(k) == IF Standing(k) THEN saved[k] ELSE Absent

-----------------------------------------------------------------------------
(* A row is what the last save asked for, of every column, and a valid save *)
(* is never refused, unless two requests about the row overlapped: then it  *)
(* may be a mixture, or one of them the error of a second insert            *)
(* (DestinationService.upsert, NotificationPreferenceService.update,        *)
(* SavedSearchService.update, OrderService.submit_fulfillment_details).     *)
SavesStand ==
    \A k \in Key \ mixed :
        /\ k \in Listing <=> last[k] # Absent /\ k \notin gone
        /\ k \in Listing => Shown(k) = last[k]
        /\ k \notin failed
=============================================================================
