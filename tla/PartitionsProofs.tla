--------------------------- MODULE PartitionsProofs ---------------------------
(***************************************************************************)
(* Theorems about Partitions for any tables, retentions and jobs, and for  *)
(* an unbounded calendar.                                                  *)
(***************************************************************************)
EXTENDS Partitions, TLAPS

-----------------------------------------------------------------------------
(* Dates. *)

LEMMA DividedByTwelve ==
    ASSUME NEW n \in Int
    PROVE  n \div 12 \in Int /\ n % 12 \in 0..11 /\ n = 12 * (n \div 12) + (n % 12)
OBVIOUS

LEMMA DateOfMonth ==
    ASSUME NEW n \in Int
    PROVE  DateOf(n) \in Date /\ MonthOf(DateOf(n)) = n
<1> QED
  BY DividedByTwelve DEF DateOf, MonthOf, Date

LEMMA MonthOfType == \A d \in Date : MonthOf(d) \in Int
BY DEF MonthOf, Date

LEMMA SameMonth ==
    ASSUME NEW d \in Date, NEW e \in Date, MonthOf(d) = MonthOf(e)
    PROVE  d = e
<1>1. /\ d.year \in Int /\ e.year \in Int /\ d.month \in 1..12 /\ e.month \in 1..12
      /\ 12 * d.year + d.month = 12 * e.year + e.month
  BY DEF MonthOf, Date
<1>2. d.year = e.year
  BY <1>1
<1> QED
  BY <1>1, <1>2 DEF Date

LEMMA DateOfMonthOf == \A d \in Date : DateOf(MonthOf(d)) = d
<1> TAKE d \in Date
<1>1. MonthOf(d) \in Int
  BY MonthOfType
<1>2. DateOf(MonthOf(d)) \in Date /\ MonthOf(DateOf(MonthOf(d))) = MonthOf(d)
  BY <1>1, DateOfMonth
<1> QED
  BY <1>2, SameMonth

(* _add_months is exact for every first of a month and every distance, across *)
(* the ends of years and backwards too (the cutoff is a negative distance).   *)
THEOREM AddMonthsExact ==
    ASSUME NEW d \in Date, NEW k \in Int
    PROVE  AddMonths(d, k) \in Date /\ MonthOf(AddMonths(d, k)) = MonthOf(d) + k
<1> DEFINE i == d.month - 1 + k
           q == i \div 12
           m == i % 12
<1>1. d.year \in Int /\ d.month \in 1..12 /\ i \in Int
  BY DEF Date
<1> HIDE DEF i
<1>2. q \in Int /\ m \in 0..11 /\ i = 12 * q + m
  BY <1>1, DividedByTwelve
<1>3. AddMonths(d, k) = [year |-> d.year + q, month |-> m + 1]
  BY DEF AddMonths, i
<1> HIDE DEF q, m
<1>4. AddMonths(d, k) \in Date
  BY <1>1, <1>2, <1>3 DEF Date
<1>5. MonthOf(AddMonths(d, k)) = 12 * (d.year + q) + m
  BY <1>1, <1>2, <1>3 DEF MonthOf
<1>6. MonthOf(d) + k = 12 * d.year + i
  BY <1>1 DEF MonthOf, i
<1> QED
  BY <1>1, <1>2, <1>4, <1>5, <1>6

LEMMA BeforeIsEarlier ==
    ASSUME NEW d \in Date, NEW e \in Date
    PROVE  Before(d, e) <=> MonthOf(d) < MonthOf(e)
BY DEF Before, MonthOf, Date

-----------------------------------------------------------------------------
(* The inductive invariant.  A job may have read the date last month, so what  *)
(* it has done counts for this month only, and for the next one only if it    *)
(* began this month: JobInv says what each job holds and has finished,        *)
(* RoomInv what the jobs that ended leave behind, TidyInv what rotations do.  *)

Has(t, n) == DateOf(n) \in parts[t]

JobInv(j) ==
    /\ phase[j] = "idle" <=> kind[j] = Nil
    /\ kind[j] # Nil => start[j] \in Nat /\ start[j] \in {now - 1, now}
    /\ phase[j] \in {"current", "next", "cutoff", "drop"} => table[j] \in Table
    /\ phase[j] \in {"current", "next"} =>
          date[j] \in Date /\ start[j] <= MonthOf(date[j]) /\ MonthOf(date[j]) <= now
    /\ phase[j] = "next" /\ kind[j] # "rotate" => date[j] \in parts[table[j]]
    /\ phase[j] \in {"cutoff", "drop"} => kind[j] = "rotate"
    /\ phase[j] = "drop" =>
          /\ date[j] \in Date
          /\ start[j] - Retention[table[j]] <= MonthOf(date[j])
          /\ MonthOf(date[j]) <= now - Retention[table[j]]
    /\ kind[j] \in {"boot", "timer"} =>
          \A t \in Table \ todo[j] : Has(t, now) /\ (start[j] = now => Has(t, now + 1))

RoomInv ==
    \A t \in Table : (up \/ ensured => Has(t, now)) /\ (ensured => Has(t, now + 1))

TidyInv ==
    \A t \in Table : \A d \in parts[t] :
        /\ t \in rotated => MonthOf(d) >= now - Retention[t]
        /\ t \notin missed => MonthOf(d) >= now - Retention[t] - 1

IInv == TypeOK /\ (\A j \in Job : JobInv(j)) /\ RoomInv /\ TidyInv

LEMMA InitIInv == Init => IInv
BY MonthsAndRetention DEF Init, IInv, TypeOK, JobInv, RoomInv, TidyInv, Phase

(* The dates jobs compute are dates. *)
LEMMA JobDates ==
    ASSUME IInv
    PROVE  /\ Today \in Date /\ MonthOf(Today) = now
           /\ \A j \in Job : phase[j] \in {"current", "next"} =>
                 /\ AddMonths(date[j], 1) \in Date
                 /\ MonthOf(AddMonths(date[j], 1)) = MonthOf(date[j]) + 1
           /\ \A j \in Job : phase[j] = "cutoff" =>
                 LET d == AddMonths(Today, -Retention[table[j]])
                 IN  d \in Date /\ MonthOf(d) = now - Retention[table[j]]
<1>1. now \in Int
  BY DEF IInv, TypeOK
<1>2. Today \in Date /\ MonthOf(Today) = now
  BY <1>1, DateOfMonth DEF Today
<1>3. ASSUME NEW j \in Job, phase[j] \in {"current", "next"}
      PROVE  /\ AddMonths(date[j], 1) \in Date
             /\ MonthOf(AddMonths(date[j], 1)) = MonthOf(date[j]) + 1
  <2>1. date[j] \in Date
    BY <1>3 DEF IInv, JobInv
  <2> QED
    BY <2>1, AddMonthsExact
<1>4. ASSUME NEW j \in Job, phase[j] = "cutoff"
      PROVE  /\ AddMonths(Today, -Retention[table[j]]) \in Date
             /\ MonthOf(AddMonths(Today, -Retention[table[j]])) = now - Retention[table[j]]
  <2>1. -Retention[table[j]] \in Int
    BY <1>4, MonthsAndRetention DEF IInv, JobInv
  <2>2. now + (-Retention[table[j]]) = now - Retention[table[j]]
    BY <1>1, <1>4, MonthsAndRetention DEF IInv, JobInv
  <2> QED
    BY <1>2, <2>1, <2>2, AddMonthsExact
<1> QED
  BY <1>2, <1>3, <1>4

LEMMA TypeStep == IInv /\ [Next]_vars => TypeOK'
<1> SUFFICES ASSUME IInv, [Next]_vars
             PROVE  TypeOK'
  OBVIOUS
<1> USE MonthsAndRetention DEF TypeOK, Phase
<1>0. TypeOK /\ Today \in Date
  BY JobDates DEF IInv
<1>1. ASSUME NEW j \in Job, Boot(j) \/ Maintain(j) \/ \E t \in Table : Rotate(j, t)
      PROVE  TypeOK'
  BY <1>0, <1>1 DEF Boot, Maintain, Rotate, Begin, calendar
<1>2. ASSUME NEW j \in Job, NEW t \in Table, ReadToday(j, t)
      PROVE  TypeOK'
  BY <1>0, <1>2 DEF ReadToday, calendar
<1>3. ASSUME NEW j \in Job, CreateCurrent(j)
      PROVE  TypeOK'
  <2>1. date[j] \in Date /\ table[j] \in Table
    BY <1>3 DEF CreateCurrent, IInv, JobInv
  <2> QED
    BY <1>0, <1>3, <2>1 DEF CreateCurrent, Create, calendar
<1>4. ASSUME NEW j \in Job, CreateNext(j)
      PROVE  TypeOK'
  <2>1. AddMonths(date[j], 1) \in Date /\ table[j] \in Table
    BY <1>4, JobDates DEF CreateNext, IInv, JobInv
  <2>2. parts' \in [Table -> SUBSET Date]
    BY <1>0, <1>4, <2>1 DEF CreateNext, Create
  <2>3. CASE NextTable(j)
    BY <1>0, <1>4, <2>2, <2>3 DEF CreateNext, NextTable
  <2>4. CASE LastTable(j)
    BY <1>0, <1>4, <2>2, <2>4 DEF CreateNext, LastTable, Over
  <2>5. CASE ToCutoff(j)
    BY <1>0, <1>4, <2>2, <2>5 DEF CreateNext, ToCutoff
  <2> QED
    BY <1>4, <2>3, <2>4, <2>5 DEF CreateNext
<1>5. ASSUME NEW j \in Job, ReadCutoff(j)
      PROVE  TypeOK'
  <2>1. AddMonths(Today, -Retention[table[j]]) \in Date
    BY <1>5, JobDates DEF ReadCutoff
  <2> QED
    BY <1>0, <1>5, <2>1 DEF ReadCutoff, calendar
<1>6. ASSUME NEW j \in Job, Drop(j)
      PROVE  TypeOK'
  <2>1. table[j] \in Table
    BY <1>6 DEF Drop, IInv, JobInv
  <2> QED
    BY <1>0, <1>6, <2>1 DEF Drop, Over, Rotated
<1>7. ASSUME NEW j \in Job, JobFails(j)
      PROVE  TypeOK'
  BY <1>0, <1>7 DEF JobFails, Over, calendar
<1>8. CASE Stop
  BY <1>0, <1>8 DEF Stop, Over, calendar
<1>9. CASE NextMonth
  <2>a. now' = now + 1 /\ ensured' = FALSE /\ rotated' = {} /\ missed' = Table \ rotated
    BY <1>9 DEF NextMonth
  <2>1. now' \in Nat
    BY <1>0, <2>a
  <2>2. UNCHANGED <<parts, up, kind, phase, todo, table, date, start>>
    BY <1>9 DEF NextMonth, job
  <2>3. ensured' \in BOOLEAN
    BY <2>a, Zenon
  <2>4. rotated' \subseteq Table /\ missed' \subseteq Table
    BY <2>a, Zenon
  <2> QED
    BY <1>0, <2>1, <2>2, <2>3, <2>4
<1>10. CASE UNCHANGED vars
  BY <1>0, <1>10 DEF vars, job, calendar
<1> QED
  BY <1>1, <1>2, <1>3, <1>4, <1>5, <1>6, <1>7, <1>8, <1>9, <1>10 DEF Next, Work

-----------------------------------------------------------------------------
(* What a step does to the partitions: a table loses only what its retention  *)
(* no longer covers, and gains nothing older than last month.                 *)
LEMMA PartsStep ==
    ASSUME IInv, [Next]_vars, NEW t \in Table
    PROVE  /\ \A d \in parts[t] \ parts'[t] : MonthOf(d) < now - Retention[t]
           /\ \A d \in parts'[t] \ parts[t] : d \in Date /\ MonthOf(d) >= now - 1
<1> DEFINE Goal == /\ \A d \in parts[t] \ parts'[t] : MonthOf(d) < now - Retention[t]
                   /\ \A d \in parts'[t] \ parts[t] : d \in Date /\ MonthOf(d) >= now - 1
<1>0. now \in Int /\ Retention[t] \in Nat \ {0} /\ parts \in [Table -> SUBSET Date]
  BY MonthsAndRetention DEF IInv, TypeOK
<1>1. ASSUME NEW j \in Job, CreateCurrent(j)
      PROVE  Goal
  <2>1. date[j] \in Date /\ MonthOf(date[j]) >= now - 1
    BY <1>0, <1>1, MonthOfType DEF CreateCurrent, IInv, JobInv
  <2> QED
    BY <1>0, <1>1, <2>1 DEF CreateCurrent, Create
<1>2. ASSUME NEW j \in Job, CreateNext(j)
      PROVE  Goal
  <2>1. date[j] \in Date /\ MonthOf(date[j]) >= now - 1 /\ MonthOf(date[j]) \in Int
    BY <1>0, <1>2, MonthOfType DEF CreateNext, IInv, JobInv
  <2>2. AddMonths(date[j], 1) \in Date /\ MonthOf(AddMonths(date[j], 1)) = MonthOf(date[j]) + 1
    BY <1>2, JobDates DEF CreateNext
  <2>3. MonthOf(AddMonths(date[j], 1)) >= now - 1
    BY <1>0, <2>1, <2>2
  <2> QED
    BY <1>0, <1>2, <2>2, <2>3 DEF CreateNext, Create
<1>3. ASSUME NEW j \in Job, Drop(j)
      PROVE  Goal
  <2>1. date[j] \in Date /\ MonthOf(date[j]) <= now - Retention[table[j]] /\ table[j] \in Table
    BY <1>3 DEF Drop, IInv, JobInv
  <2>2. parts' = [parts EXCEPT ![table[j]] = {d \in parts[table[j]] : ~Before(d, date[j])}]
    BY <1>3 DEF Drop
  <2>3. parts'[t] \subseteq parts[t]
    BY <1>0, <2>1, <2>2
  <2>4. ASSUME NEW d \in parts[t], d \notin parts'[t]
        PROVE  MonthOf(d) < now - Retention[t]
    <3>1. t = table[j] /\ Before(d, date[j]) /\ d \in Date
      BY <1>0, <2>1, <2>2, <2>4
    <3>2. MonthOf(d) < MonthOf(date[j])
      BY <2>1, <3>1, BeforeIsEarlier
    <3>3. MonthOf(d) \in Int /\ MonthOf(date[j]) \in Int
      BY <2>1, <3>1, MonthOfType
    <3> QED
      BY <1>0, <2>1, <3>1, <3>2, <3>3
  <2> QED
    BY <2>3, <2>4
<1>4. CASE UNCHANGED parts
  BY <1>4
<1> QED
  BY <1>1, <1>2, <1>3, <1>4 DEF Next, Work, Boot, Maintain, Rotate, Begin, ReadToday,
     ReadCutoff, JobFails, Stop, NextMonth, vars

(* So a partition of last month or later stays. *)
LEMMA YoungStay ==
    ASSUME IInv, [Next]_vars, NEW t \in Table
    PROVE  /\ \A d \in parts[t] : MonthOf(d) >= now - 1 => d \in parts'[t]
           /\ \A n \in Int : n >= now - 1 /\ Has(t, n) => Has(t, n)'
<1>0. now \in Int /\ Retention[t] \in Nat \ {0} /\ parts \in [Table -> SUBSET Date]
  BY MonthsAndRetention DEF IInv, TypeOK
<1>1. \A d \in parts[t] : MonthOf(d) >= now - 1 => d \in parts'[t]
  BY <1>0, PartsStep, MonthOfType
<1>2. ASSUME NEW n \in Int, n >= now - 1, Has(t, n)
      PROVE  Has(t, n)'
  <2>1. MonthOf(DateOf(n)) = n
    BY DateOfMonth
  <2> QED
    BY <1>1, <1>2, <2>1 DEF Has
<1> QED
  BY <1>1, <1>2

(* A job that a step of this month does not move. *)
LEMMA OthersHold ==
    ASSUME IInv, [Next]_vars, TypeOK', NEW i \in Job, now' = now,
           kind'[i] = kind[i], phase'[i] = phase[i], todo'[i] = todo[i],
           table'[i] = table[i], date'[i] = date[i], start'[i] = start[i]
    PROVE  JobInv(i)'
<1>0. JobInv(i) /\ now \in Int
  BY DEF IInv, TypeOK
<1>1. phase[i] = "next" /\ kind[i] # "rotate" => date[i] \in parts'[table[i]]
  <2> SUFFICES ASSUME phase[i] = "next", kind[i] # "rotate"
               PROVE  date[i] \in parts'[table[i]]
    OBVIOUS
  <2>1. /\ date[i] \in parts[table[i]] /\ table[i] \in Table
        /\ date[i] \in Date /\ start[i] <= MonthOf(date[i])
        /\ start[i] \in Nat /\ start[i] >= now - 1
    BY <1>0 DEF JobInv
  <2>2. MonthOf(date[i]) >= now - 1
    BY <1>0, <2>1, MonthOfType
  <2> QED
    BY <2>1, <2>2, YoungStay
<1>2. ASSUME NEW t \in Table
      PROVE  /\ Has(t, now) => DateOf(now) \in parts'[t]
             /\ Has(t, now + 1) => DateOf(now + 1) \in parts'[t]
  BY <1>0, YoungStay DEF Has
<1> QED
  BY <1>0, <1>1, <1>2 DEF JobInv, Has

LEMMA OverHold ==
    ASSUME NEW i \in Job, phase'[i] = "idle", kind'[i] = Nil
    PROVE  JobInv(i)'
BY MonthsAndRetention DEF JobInv

LEMMA JobsStep == IInv /\ TypeOK' /\ [Next]_vars => \A i \in Job : JobInv(i)'
<1> SUFFICES ASSUME IInv, TypeOK', [Next]_vars, NEW i \in Job
             PROVE  JobInv(i)'
  OBVIOUS
<1>0. /\ JobInv(i) /\ TypeOK /\ now \in Int
      /\ Today \in Date /\ MonthOf(Today) = now
      /\ \A t \in Table : Retention[t] \in Nat \ {0}
  BY JobDates, MonthsAndRetention DEF IInv, TypeOK
<1>1. ASSUME NEW j \in Job, Boot(j) \/ Maintain(j) \/ \E t \in Table : Rotate(j, t)
      PROVE  JobInv(i)'
  <2>1. PICK k \in {"boot", "timer", "rotate"}, ts \in SUBSET Table :
           Begin(j, k, ts) /\ (k # "rotate" => ts = Table)
    BY <1>1 DEF Boot, Maintain, Rotate
  <2>2. CASE i = j
    BY <1>0, <2>1, <2>2, MonthsAndRetention DEF Begin, calendar, JobInv, TypeOK
  <2>3. CASE i # j
    BY <1>0, <2>1, <2>3, OthersHold DEF Begin, calendar, TypeOK
  <2> QED
    BY <2>2, <2>3
<1>2. ASSUME NEW j \in Job, NEW t \in Table, ReadToday(j, t)
      PROVE  JobInv(i)'
  <2>1. CASE i = j
    <3>1. kind[i] # Nil /\ start[i] \in Nat /\ start[i] <= now
      BY <1>0, <1>2, <2>1 DEF ReadToday, JobInv, TypeOK, Phase
    <3> QED
      BY <1>0, <1>2, <2>1, <3>1 DEF ReadToday, calendar, JobInv, TypeOK, Has
  <2>2. CASE i # j
    BY <1>0, <1>2, <2>2, OthersHold DEF ReadToday, calendar, TypeOK
  <2> QED
    BY <2>1, <2>2
<1>3. ASSUME NEW j \in Job, CreateCurrent(j)
      PROVE  JobInv(i)'
  <2>1. CASE i = j
    <3>1. \A t \in Table : parts[t] \subseteq parts'[t]
      BY <1>0, <1>3 DEF CreateCurrent, Create, TypeOK
    <3>2. date[i] \in parts'[table[i]]
      BY <1>0, <1>3, <2>1 DEF CreateCurrent, Create, TypeOK, JobInv
    <3> QED
      BY <1>0, <1>3, <2>1, <3>1, <3>2 DEF CreateCurrent, calendar, JobInv, TypeOK, Has
  <2>2. CASE i # j
    BY <1>0, <1>3, <2>2, OthersHold DEF CreateCurrent, calendar, TypeOK
  <2> QED
    BY <2>1, <2>2
<1>4. ASSUME NEW j \in Job, CreateNext(j)
      PROVE  JobInv(i)'
  <2>1. now' = now
    BY <1>4 DEF CreateNext
  <2>2. CASE i # j
    BY <1>0, <1>4, <2>1, <2>2, OthersHold DEF CreateNext, NextTable, LastTable, Over, ToCutoff, TypeOK
  <2>3. CASE i = j /\ NextTable(j)
    <3>1. \A t \in Table : parts[t] \subseteq parts'[t]
      BY <1>0, <1>4 DEF CreateNext, Create, TypeOK
    <3>2. /\ table[i] \in Table /\ date[i] \in parts[table[i]] /\ date[i] \in Date
          /\ start[i] <= MonthOf(date[i]) /\ MonthOf(date[i]) <= now
          /\ start[i] \in Nat /\ start[i] \in {now - 1, now}
      BY <1>0, <1>4, <2>3 DEF CreateNext, NextTable, JobInv
    <3>3. AddMonths(date[i], 1) = DateOf(MonthOf(date[i]) + 1)
      BY <1>4, <2>3, JobDates, DateOfMonthOf DEF CreateNext
    <3>4. date[i] = DateOf(MonthOf(date[i]))
      BY <3>2, DateOfMonthOf
    <3>5. DateOf(MonthOf(date[i])) \in parts'[table[i]]
          /\ DateOf(MonthOf(date[i]) + 1) \in parts'[table[i]]
      BY <1>0, <1>4, <2>3, <3>2, <3>3, <3>4 DEF CreateNext, Create, TypeOK
    <3>6. DateOf(now) \in parts'[table[i]] /\ (start[i] = now => DateOf(now + 1) \in parts'[table[i]])
      <4>1. CASE MonthOf(date[i]) = now
        BY <3>5, <4>1
      <4>2. CASE MonthOf(date[i]) = now - 1 /\ start[i] # now
        BY <1>0, <3>5, <4>2
      <4> QED
        BY <1>0, <3>2, <4>1, <4>2, MonthOfType
    <3>7. kind[i] \in {"boot", "timer"}
      BY <1>0, <1>4, <2>3 DEF CreateNext, NextTable, JobInv, TypeOK
    <3> QED
      BY <1>0, <1>4, <2>1, <2>3, <3>1, <3>2, <3>6, <3>7 DEF CreateNext, NextTable, JobInv, TypeOK, Has
  <2>4. CASE i = j /\ LastTable(j)
    BY <1>0, <2>4, OverHold DEF LastTable, Over, TypeOK
  <2>5. CASE i = j /\ ToCutoff(j)
    BY <1>0, <1>4, <2>1, <2>5 DEF CreateNext, ToCutoff, JobInv, TypeOK
  <2> QED
    BY <1>4, <2>2, <2>3, <2>4, <2>5 DEF CreateNext
<1>5. ASSUME NEW j \in Job, ReadCutoff(j)
      PROVE  JobInv(i)'
  <2>1. CASE i = j
    <3>1. LET d == AddMonths(Today, -Retention[table[i]])
          IN  d \in Date /\ MonthOf(d) = now - Retention[table[i]]
      BY <1>5, <2>1, JobDates DEF ReadCutoff
    <3>2. kind[i] = "rotate" /\ table[i] \in Table /\ start[i] \in Nat /\ start[i] <= now
      BY <1>0, <1>5, <2>1, MonthsAndRetention DEF ReadCutoff, JobInv
    <3> QED
      BY <1>0, <1>5, <2>1, <3>1, <3>2 DEF ReadCutoff, calendar, JobInv, TypeOK
  <2>2. CASE i # j
    BY <1>0, <1>5, <2>2, OthersHold DEF ReadCutoff, calendar, TypeOK
  <2> QED
    BY <2>1, <2>2
<1>6. ASSUME NEW ended \in SUBSET Job, Over(ended), now' = now
      PROVE  JobInv(i)'
  <2>1. CASE i \in ended
    BY <1>6, <2>1, OverHold DEF Over
  <2>2. CASE i \notin ended
    BY <1>0, <1>6, <2>2, OthersHold DEF Over
  <2> QED
    BY <2>1, <2>2
<1>7. ASSUME NEW j \in Job, Drop(j) \/ JobFails(j)
      PROVE  JobInv(i)'
  BY <1>6, <1>7 DEF Drop, JobFails, calendar
<1>8. CASE Stop
  BY <1>6, <1>8 DEF Stop, calendar
<1>9. CASE NextMonth
  <2>1. now' = now + 1 /\ UNCHANGED <<parts, kind, phase, todo, table, date, start>>
        /\ (phase[i] # "idle" => start[i] = now)
    BY <1>9 DEF NextMonth, job
  <2>2. kind[i] # Nil => start[i] = now
    BY <1>0, <2>1 DEF JobInv
  <2>3. start'[i] = start[i] /\ (kind[i] # Nil => start[i] \in {now' - 1, now'} /\ start[i] # now')
    BY <1>0, <2>1, <2>2
  <2>4. ASSUME phase[i] \in {"current", "next"}
        PROVE  MonthOf(date[i]) <= now'
    BY <1>0, <2>1, <2>4, MonthOfType DEF JobInv
  <2>5. ASSUME phase[i] = "drop"
        PROVE  MonthOf(date[i]) <= now' - Retention[table[i]]
    <3>1. date[i] \in Date /\ table[i] \in Table /\ MonthOf(date[i]) <= now - Retention[table[i]]
      BY <1>0, <2>5 DEF JobInv
    <3> QED
      BY <1>0, <2>1, <3>1, MonthOfType
  <2>6. ASSUME kind[i] \in {"boot", "timer"}, NEW t \in Table \ todo[i]
        PROVE  DateOf(now') \in parts'[t] /\ start'[i] # now'
    <3>1. kind[i] # Nil
      BY <2>6, MonthsAndRetention
    <3> QED
      BY <1>0, <2>1, <2>2, <2>3, <2>6, <3>1 DEF JobInv, Has
  <2> QED
    BY <1>0, <2>1, <2>3, <2>4, <2>5, <2>6 DEF JobInv, Has, TypeOK
<1>10. CASE UNCHANGED vars
  BY <1>0, <1>10, OthersHold DEF vars, job, calendar
<1> QED
  BY <1>1, <1>2, <1>3, <1>4, <1>5, <1>7, <1>8, <1>9, <1>10 DEF Next, Work

(* What a finished run leaves behind. *)
LEMMA RoomStep == IInv /\ [Next]_vars /\ (\A i \in Job : JobInv(i)') => RoomInv'
<1> SUFFICES ASSUME IInv, [Next]_vars, \A i \in Job : JobInv(i)', NEW t \in Table
             PROVE  /\ up' \/ ensured' => Has(t, now)'
                    /\ ensured' => Has(t, now + 1)'
  BY DEF RoomInv
<1> DEFINE Goal == /\ up' \/ ensured' => Has(t, now)'
                   /\ ensured' => Has(t, now + 1)'
<1>0. /\ now \in Int /\ TypeOK
      /\ up \/ ensured => Has(t, now)
      /\ ensured => Has(t, now + 1)
  BY DEF IInv, TypeOK, RoomInv
<1>1. ASSUME now' = now
      PROVE  (Has(t, now) => Has(t, now)') /\ (Has(t, now + 1) => Has(t, now + 1)')
  <2>1. /\ DateOf(now) \in parts[t] => DateOf(now) \in parts'[t]
        /\ DateOf(now + 1) \in parts[t] => DateOf(now + 1) \in parts'[t]
    BY <1>0, <1>1, YoungStay DEF Has
  <2> QED
    BY <1>1, <2>1 DEF Has
<1>2. ASSUME now' = now, up' => up, ensured' => ensured
      PROVE  Goal
  BY <1>0, <1>1, <1>2
<1>3. ASSUME NEW j \in Job, CreateNext(j), LastTable(j)
      PROVE  Goal
  <2>1. /\ kind[j] \in {"boot", "timer"} /\ todo[j] = {table[j]}
        /\ table[j] \in Table /\ date[j] \in parts[table[j]] /\ date[j] \in Date
        /\ start[j] <= MonthOf(date[j]) /\ MonthOf(date[j]) <= now
        /\ start[j] \in Nat /\ start[j] \in {now - 1, now}
        /\ \A s \in Table \ todo[j] : Has(s, now) /\ (start[j] = now => Has(s, now + 1))
    BY <1>0, <1>3 DEF CreateNext, LastTable, IInv, JobInv, TypeOK, Phase
  <2>2. now' = now /\ (ensured' => ensured \/ start[j] = now)
    BY <1>3 DEF CreateNext, LastTable
  <2>3. CASE t # table[j]
    BY <1>0, <1>1, <2>1, <2>2, <2>3
  <2>4. CASE t = table[j]
    <3>1. AddMonths(date[j], 1) = DateOf(MonthOf(date[j]) + 1)
      BY <1>3, JobDates, DateOfMonthOf DEF CreateNext
    <3>2. DateOf(MonthOf(date[j])) \in parts'[t] /\ DateOf(MonthOf(date[j]) + 1) \in parts'[t]
      <4>1. parts' = [parts EXCEPT ![t] = parts[t] \cup {AddMonths(date[j], 1)}]
        BY <1>3, <2>4 DEF CreateNext, Create
      <4>2. date[j] = DateOf(MonthOf(date[j]))
        BY <2>1, DateOfMonthOf
      <4> QED
        BY <1>0, <2>1, <2>4, <3>1, <4>1, <4>2 DEF TypeOK
    <3>3. DateOf(now) \in parts'[t] /\ (start[j] = now => DateOf(now + 1) \in parts'[t])
      <4>1. CASE MonthOf(date[j]) = now
        BY <3>2, <4>1
      <4>2. CASE MonthOf(date[j]) = now - 1 /\ start[j] # now
        BY <1>0, <3>2, <4>2
      <4> QED
        BY <1>0, <2>1, <4>1, <4>2, MonthOfType
    <3> QED
      BY <1>0, <1>1, <2>2, <3>3 DEF Has
  <2> QED
    BY <2>3, <2>4
<1>4. CASE NextMonth
  <2>1. now' = now + 1 /\ parts' = parts /\ up' = up /\ ensured' = FALSE /\ (up => ensured)
    BY <1>4 DEF NextMonth
  <2> QED
    BY <1>0, <2>1 DEF Has
<1>5. ASSUME NEW j \in Job, CreateNext(j), ~LastTable(j)
      PROVE  now' = now /\ (up' => up) /\ (ensured' => ensured)
  BY <1>5 DEF CreateNext, NextTable, ToCutoff
<1>6. ASSUME NEW j \in Job, ReadCutoff(j) \/ Drop(j) \/ JobFails(j) \/ CreateCurrent(j)
      PROVE  now' = now /\ (up' => up) /\ (ensured' => ensured)
  BY <1>6 DEF CreateCurrent, ReadCutoff, Drop, JobFails, calendar
<1>7. ASSUME NEW j \in Job, Boot(j) \/ Maintain(j) \/ \E s \in Table : Rotate(j, s) \/ ReadToday(j, s)
      PROVE  now' = now /\ (up' => up) /\ (ensured' => ensured)
  BY <1>7 DEF Boot, Maintain, Rotate, Begin, ReadToday, calendar
<1>8. CASE Stop \/ UNCHANGED vars
  <2>1. now' = now /\ (up' => up) /\ (ensured' => ensured)
    BY <1>8 DEF Stop, calendar, vars
  <2> QED
    BY <1>2, <2>1
<1> QED
  BY <1>2, <1>3, <1>4, <1>5, <1>6, <1>7, <1>8 DEF Next, Work

LEMMA TidyStep == IInv /\ [Next]_vars => TidyInv'
<1> SUFFICES ASSUME IInv, [Next]_vars, NEW t \in Table, NEW d \in parts'[t]
             PROVE  /\ t \in rotated' => MonthOf(d) >= now' - Retention[t]
                    /\ t \notin missed' => MonthOf(d) >= now' - Retention[t] - 1
  BY DEF TidyInv
<1> DEFINE Goal == /\ t \in rotated' => MonthOf(d) >= now' - Retention[t]
                   /\ t \notin missed' => MonthOf(d) >= now' - Retention[t] - 1
<1>0. /\ now \in Int /\ Retention[t] \in Nat /\ Retention[t] >= 1
      /\ parts \in [Table -> SUBSET Date]
  BY MonthsAndRetention DEF IInv, TypeOK
<1>1. d \in parts[t] \/ (d \in Date /\ MonthOf(d) >= now - 1)
  BY PartsStep
<1>2. d \in Date /\ MonthOf(d) \in Int
  BY <1>0, <1>1, MonthOfType
<1>3. /\ t \in rotated => MonthOf(d) >= now - Retention[t]
      /\ t \notin missed => MonthOf(d) >= now - Retention[t] - 1
  BY <1>0, <1>1, <1>2 DEF IInv, TidyInv
<1>4. CASE now' = now /\ rotated' = rotated /\ missed' = missed
  BY <1>3, <1>4
<1>5. ASSUME NEW j \in Job, Drop(j)
      PROVE  Goal
  <2>1. /\ now' = now /\ missed' = missed
        /\ rotated' = IF start[j] = now THEN rotated \cup {table[j]} ELSE rotated
        /\ parts' = [parts EXCEPT ![table[j]] = {e \in parts[table[j]] : ~Before(e, date[j])}]
    BY <1>5 DEF Drop, Rotated
  <2>2. ASSUME t = table[j], start[j] = now
        PROVE  MonthOf(d) >= now - Retention[t]
    <3>1. date[j] \in Date /\ now - Retention[t] <= MonthOf(date[j])
      BY <1>5, <2>2 DEF Drop, IInv, JobInv
    <3>2. ~Before(d, date[j])
      BY <1>0, <2>1, <2>2
    <3>3. MonthOf(date[j]) \in Int /\ MonthOf(d) >= MonthOf(date[j])
      BY <1>2, <3>1, <3>2, BeforeIsEarlier, MonthOfType
    <3> QED
      BY <1>0, <1>2, <3>1, <3>3
  <2> QED
    BY <1>3, <2>1, <2>2
<1>6. CASE NextMonth
  <2>1. now' = now + 1 /\ rotated' = {} /\ missed' = Table \ rotated
    BY <1>6 DEF NextMonth
  <2> QED
    BY <1>0, <1>2, <1>3, <2>1
<1> QED
  BY <1>4, <1>5, <1>6 DEF Next, Work, Boot, Maintain, Rotate, Begin, ReadToday,
     CreateCurrent, CreateNext, ReadCutoff, JobFails, Stop, calendar, vars

LEMMA InvStep == IInv /\ [Next]_vars => IInv'
<1> SUFFICES ASSUME IInv, [Next]_vars
             PROVE  IInv'
  OBVIOUS
<1>1. TypeOK'
  BY TypeStep
<1>2. \A j \in Job : JobInv(j)'
  BY <1>1, JobsStep
<1> QED
  BY <1>1, <1>2, RoomStep, TidyStep DEF IInv

-----------------------------------------------------------------------------
(* The catalogue, the jobs and the calendar keep their types. *)
THEOREM TypeCorrect == Spec => []TypeOK
<1>1. IInv => TypeOK
  BY DEF IInv
<1> QED
  BY <1>1, InitIInv, InvStep, PTL DEF Spec

(* As long as one maintenance run a month ends, a serving backend never meets *)
(* a month without a partition (ensure_current_and_next_partition).           *)
THEOREM InsertsAlwaysHaveRoom == Spec => []InsertsHaveRoom
<1>1. IInv => InsertsHaveRoom
  BY DEF IInv, RoomInv, InsertsHaveRoom, Has, Today
<1> QED
  BY <1>1, InitIInv, InvStep, PTL DEF Spec

(* One rotation a month is enough to keep the log tables short. *)
THEOREM NothingEverLingers == Spec => []NothingLingers
<1>1. IInv => NothingLingers
  BY DEF IInv, TidyInv, NothingLingers
<1> QED
  BY <1>1, InitIInv, InvStep, PTL DEF Spec

(* drop_expired_partitions never takes a row its table should still keep. *)
THEOREM RetentionAlwaysHolds == Spec => RetentionHolds
<1>1. IInv /\ [Next]_vars =>
        [\A t \in Table : \A d \in parts[t] \ parts'[t] : MonthOf(d) < now - Retention[t]]_vars
  BY PartsStep
<1> QED
  BY <1>1, InitIInv, InvStep, PTL DEF Spec, RetentionHolds
=============================================================================
