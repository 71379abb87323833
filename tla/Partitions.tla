------------------------------ MODULE Partitions ------------------------------
(***************************************************************************)
(* Monthly partitions of the log tables (app/Utils/partitioning.py): made   *)
(* ahead of need when the backend boots and by the daily maintenance job,  *)
(* and rotated, one table at a time, by POST /internal/jobs/rotate-        *)
(* partitions.  Each of these reads date.today() when it starts on a table *)
(* and then runs one transaction per statement, so the month may turn, and *)
(* others may run, in between.                                             *)
(***************************************************************************)
EXTENDS Integers

CONSTANTS
    Table,      \* PARTITIONED_TABLES
    Retention,  \* get_retention_months
    Job,        \* processes and handlers that can be at work at once
    First,      \* the month the system is installed in
    Last,       \* bound: the last month considered
    Nil         \* no table, no date

Date == [year : Int, month : 1..12]      \* the first of a month

ASSUME MonthsAndRetention ==
    /\ Retention \in [Table -> Nat \ {0}]
    /\ First \in Nat /\ Last \in Nat
    /\ Nil \notin Table \cup Date \cup Nat \cup {"boot", "timer", "rotate"}

VARIABLES
    now,        \* this month, counted from January of the year 0
    parts,      \* the partitions of each table, by their first day
    up,         \* the backend serves requests
    kind,       \* what each job is: the boot, the timer's run or a rotation
    phase,      \* what it does next
    todo,       \* the tables it has yet to finish
    table,      \* the table it is at
    date,       \* the date it computed from date.today()
    start,      \* the month in which it began
    ensured,    \* a boot or timer run began and ended this month
    rotated,    \* the tables whose rotation began and ended this month
    missed      \* the tables that were not rotated last month

job == <<kind, phase, todo, table, date, start>>
calendar == <<now, ensured, rotated, missed>>
vars == <<parts, up, job, calendar>>

Phase == {"idle", "pick", "current", "next", "cutoff", "drop"}

TypeOK ==
    /\ now \in Nat
    /\ parts \in [Table -> SUBSET Date]
    /\ up \in BOOLEAN
    /\ kind \in [Job -> {"boot", "timer", "rotate", Nil}]
    /\ phase \in [Job -> Phase]
    /\ todo \in [Job -> SUBSET Table]
    /\ table \in [Job -> Table \cup {Nil}]
    /\ date \in [Job -> Date \cup {Nil}]
    /\ start \in [Job -> Nat \cup {Nil}]
    /\ ensured \in BOOLEAN
    /\ rotated \subseteq Table /\ missed \subseteq Table

Init ==
    /\ now = First
    /\ parts = [t \in Table |-> {}]
    /\ up = FALSE
    /\ kind = [j \in Job |-> Nil]
    /\ phase = [j \in Job |-> "idle"]
    /\ todo = [j \in Job |-> {}]
    /\ table = [j \in Job |-> Nil]
    /\ date = [j \in Job |-> Nil]
    /\ start = [j \in Job |-> Nil]
    /\ ensured = FALSE /\ rotated = {} /\ missed = {}

-----------------------------------------------------------------------------
(* Dates. *)

DateOf(n) == [year |-> n \div 12, month |-> (n % 12) + 1]
MonthOf(d) == 12 * d.year + d.month - 1

Before(d, e) == d.year < e.year \/ (d.year = e.year /\ d.month < e.month)

(* _month_start(date.today()) *)
Today == DateOf(now)

(* _add_months: Python's // and % are TLA+'s \div and %. *)
AddMonths(d, k) ==
    LET i == d.month - 1 + k
    IN  [year |-> d.year + (i \div 12), month |-> (i % 12) + 1]

-----------------------------------------------------------------------------
(* Jobs. *)

Begin(j, k, ts) ==
    /\ phase[j] = "idle"
    /\ kind' = [kind EXCEPT ![j] = k]
    /\ phase' = [phase EXCEPT ![j] = "pick"]
    /\ todo' = [todo EXCEPT ![j] = ts]
    /\ start' = [start EXCEPT ![j] = now]
    /\ UNCHANGED <<parts, up, table, date, calendar>>

(* main.lifespan, before the first request; there is one backend process. *)
Boot(j) ==
    /\ ~up /\ \A i \in Job : phase[i] = "idle" \/ kind[i] # "boot"
    /\ Begin(j, "boot", Table)

(* scripts.migrate_db, run by mas-maintenance.timer and scripts/deploy.sh. *)
Maintain(j) == Begin(j, "timer", Table)

(* POST /internal/jobs/rotate-partitions *)
Rotate(j, t) == up /\ Begin(j, "rotate", {t})

(* create_next_partition and ensure_current_and_next_partition read the date. *)
ReadToday(j, t) ==
    /\ phase[j] = "pick" /\ t \in todo[j]
    /\ table' = [table EXCEPT ![j] = t]
    /\ date' = [date EXCEPT ![j] = Today]
    /\ phase' = [phase EXCEPT ![j] = IF kind[j] = "rotate" THEN "next" ELSE "current"]
    /\ UNCHANGED <<parts, up, kind, todo, start, calendar>>

(* create_partition_for_month: CREATE TABLE IF NOT EXISTS, committed. *)
Create(j, d) == parts' = [parts EXCEPT ![table[j]] = @ \cup {d}]

CreateCurrent(j) ==
    /\ phase[j] = "current"
    /\ Create(j, date[j])
    /\ phase' = [phase EXCEPT ![j] = "next"]
    /\ UNCHANGED <<up, kind, todo, table, date, start, calendar>>

(* Jobs are over: nothing is left of them. *)
Over(ended) ==
    /\ phase' = [j \in Job |-> IF j \in ended THEN "idle" ELSE phase[j]]
    /\ kind' = [j \in Job |-> IF j \in ended THEN Nil ELSE kind[j]]
    /\ todo' = [j \in Job |-> IF j \in ended THEN {} ELSE todo[j]]
    /\ table' = [j \in Job |-> IF j \in ended THEN Nil ELSE table[j]]
    /\ date' = [j \in Job |-> IF j \in ended THEN Nil ELSE date[j]]
    /\ start' = [j \in Job |-> IF j \in ended THEN Nil ELSE start[j]]

(* A boot or timer run goes on with the next table, or is done; a rotation    *)
(* goes on to the expired partitions of its table.                            *)
NextTable(j) ==
    /\ kind[j] # "rotate" /\ todo[j] # {table[j]}
    /\ phase' = [phase EXCEPT ![j] = "pick"]
    /\ todo' = [todo EXCEPT ![j] = @ \ {table[j]}]
    /\ table' = [table EXCEPT ![j] = Nil]
    /\ date' = [date EXCEPT ![j] = Nil]
    /\ UNCHANGED <<up, kind, start, ensured>>

LastTable(j) ==
    /\ kind[j] # "rotate" /\ todo[j] = {table[j]}
    /\ up' = (up \/ kind[j] = "boot")
    /\ ensured' = (ensured \/ start[j] = now)
    /\ Over({j})

ToCutoff(j) ==
    /\ kind[j] = "rotate"
    /\ phase' = [phase EXCEPT ![j] = "cutoff"]
    /\ date' = [date EXCEPT ![j] = Nil]
    /\ UNCHANGED <<up, kind, todo, table, start, ensured>>

(* Mutant of CreateNext: the month that has begun, not the one ahead. *)
CreateNextNow(j) ==
    /\ phase[j] = "next"
    /\ Create(j, date[j])
    /\ NextTable(j) \/ LastTable(j) \/ ToCutoff(j)
    /\ UNCHANGED <<now, rotated, missed>>

CreateNext(j) ==
    /\ phase[j] = "next"
    /\ Create(j, AddMonths(date[j], 1))
    /\ NextTable(j) \/ LastTable(j) \/ ToCutoff(j)
    /\ UNCHANGED <<now, rotated, missed>>

(* Mutant of ReadCutoff: the cutoff is counted from last month. *)
ReadCutoffLate(j) ==
    /\ phase[j] = "cutoff"
    /\ date' = [date EXCEPT ![j] = AddMonths(Today, -Retention[table[j]] - 1)]
    /\ phase' = [phase EXCEPT ![j] = "drop"]
    /\ UNCHANGED <<parts, up, kind, todo, table, start, calendar>>

(* drop_expired_partitions reads the date again... *)
ReadCutoff(j) ==
    /\ phase[j] = "cutoff"
    /\ date' = [date EXCEPT ![j] = AddMonths(Today, -Retention[table[j]])]
    /\ phase' = [phase EXCEPT ![j] = "drop"]
    /\ UNCHANGED <<parts, up, kind, todo, table, start, calendar>>

Rotated(j) == rotated' = IF start[j] = now THEN rotated \cup {table[j]} ELSE rotated

(* Mutant of Drop: the month at the cutoff goes too. *)
DropAtCutoff(j) ==
    /\ phase[j] = "drop"
    /\ parts' = [parts EXCEPT ![table[j]] = {d \in @ : Before(date[j], d)}]
    /\ Over({j}) /\ Rotated(j)
    /\ UNCHANGED <<up, now, ensured, missed>>

(* ...and drops, in one transaction, what lies before the cutoff. *)
Drop(j) ==
    /\ phase[j] = "drop"
    /\ parts' = [parts EXCEPT ![table[j]] = {d \in @ : ~Before(d, date[j])}]
    /\ Over({j}) /\ Rotated(j)
    /\ UNCHANGED <<up, now, ensured, missed>>

(* A statement fails, of two CREATEs that meet for instance, or the process   *)
(* is killed: what it committed stays.                                        *)
JobFails(j) ==
    /\ phase[j] # "idle"
    /\ Over({j})
    /\ UNCHANGED <<parts, up, calendar>>

(* The backend ends, and the rotations it was serving with it. *)
Stop ==
    /\ up /\ up' = FALSE
    /\ Over({j \in Job : kind[j] = "rotate"})
    /\ UNCHANGED <<parts, calendar>>

(* The month turns.  No job takes a month, and while the backend is up the    *)
(* daily timer brings at least one run a month to its end.                    *)
NextMonth ==
    /\ now < Last
    /\ \A j \in Job : phase[j] # "idle" => start[j] = now
    /\ up => ensured
    /\ now' = now + 1
    /\ ensured' = FALSE /\ rotated' = {} /\ missed' = Table \ rotated
    /\ UNCHANGED <<parts, up, job>>

Work(j) ==
    \/ Boot(j) \/ Maintain(j) \/ CreateCurrent(j) \/ CreateNext(j)
    \/ ReadCutoff(j) \/ Drop(j) \/ JobFails(j)
    \/ \E t \in Table : Rotate(j, t) \/ ReadToday(j, t)

Next == (\E j \in Job : Work(j)) \/ Stop \/ NextMonth

Spec == Init /\ [][Next]_vars

-----------------------------------------------------------------------------
(* Properties. *)

(* "Inserts never fail waiting on a cron job": while the backend serves, every *)
(* log table has the partition of the month the database stamps rows with,    *)
(* whenever months turn, jobs overlap or fail and the backend restarts.       *)
InsertsHaveRoom == up => \A t \in Table : Today \in parts[t]

(* A table that was rotated last month has nothing older than its retention   *)
(* and that month ("rows old enough to fall in a fully-expired partition").   *)
NothingLingers ==
    \A t \in Table \ missed : \A d \in parts[t] :
        MonthOf(d) >= now - Retention[t] - 1

(* No partition is dropped before all its rows are older than the retention,  *)
(* though its cutoff may have been computed in the month before.              *)
RetentionHolds ==
    [][\A t \in Table : \A d \in parts[t] \ parts'[t] : MonthOf(d) < now - Retention[t]]_vars
=============================================================================
