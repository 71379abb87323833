-------------------------- MODULE NotificationsProofs --------------------------
(***************************************************************************)
(* Theorems about Notifications for every number of handlers, recipients   *)
(* and purge jobs.                                                         *)
(***************************************************************************)
EXTENDS Notifications, TLAPS

(* A handler that has not begun has left no trace; one that has knows what it *)
(* sends.                                                                     *)
Traces ==
    \A c \in Call :
        /\ stage[c] = "new" => /\ kind[c] = "none"
                               /\ \A r \in Recipient : leg[c][r] = "none" /\ inbox[<<c, r>>] = "none"
        /\ stage[c] # "new" => kind[c] \in Type

(* What a handler has done for each recipient while it has not failed. *)
Books ==
    \A c \in Call : stage[c] \in {"running", "answered"} => \A r \in Recipient :
        /\ r \in queue[c] <=> \/ leg[c][r] = "told" /\ "email" \in via[c][r]
                              \/ Confirmed(kind[c]) /\ r = owner[about[c]]
        /\ inbox[<<c, r>>] # "none" <=> leg[c][r] \in {"filed", "told"} /\ Filing(c, r)

Finished ==
    \A c \in Call : stage[c] = "answered" =>
        \A r \in Recipient : leg[c][r] \in {"none", "skipped", "told"}

(* A pass is backed by a key or excused, and a key stands for a pass. *)
PassesHaveKeys ==
    \A c \in Call, r \in Recipient :
        leg[c][r] \in Passed => Key(c, r) \in marked \/ <<c, r>> \in excused

KeysHavePasses ==
    \A k \in marked : \E d \in Call, r \in Recipient : Key(d, r) = k /\ leg[d][r] \in Passed

(* A row stays read and expired from the SELECT of a batch to its DELETE. *)
Batches ==
    \A j \in Job : \A w \in batch[j] : inbox[w] \in {"read", "gone"} /\ w \in expired

(* The inductive invariant: AnsweredInFull speaks of the end of a handler, so *)
(* Books follows it recipient by recipient; the two deduplication properties  *)
(* rest on the exact relation of keys and passes.                             *)
IInv ==
    /\ TypeOK /\ Traces /\ Books /\ Finished
    /\ PassesHaveKeys /\ KeysHavePasses
    /\ OncePerWindow /\ SkippedForAnother
    /\ Batches

LEMMA InitIInv == Init => IInv
<1> SUFFICES ASSUME Init PROVE IInv
  OBVIOUS
<1>1. TypeOK
  BY DEF Init, TypeOK, Leg
<1>2. Traces /\ Books /\ Finished /\ Batches
  BY DEF Init, Traces, Books, Finished, Batches, Row
<1>3. PassesHaveKeys /\ KeysHavePasses /\ OncePerWindow /\ SkippedForAnother
  BY DEF Init, PassesHaveKeys, KeysHavePasses, OncePerWindow, SkippedForAnother, Passed
<1> QED
  BY <1>1, <1>2, <1>3 DEF IInv

-----------------------------------------------------------------------------
(* Moving on with one recipient. *)
LEMMA Moved ==
    ASSUME leg \in [Call -> [Recipient -> Leg]],
           NEW c \in Call, NEW r \in Recipient, NEW where \in Leg, Move(c, r, where)
    PROVE  /\ leg' \in [Call -> [Recipient -> Leg]]
           /\ leg'[c][r] = where
           /\ \A d \in Call, s \in Recipient : <<d, s>> # <<c, r>> => leg'[d][s] = leg[d][s]
<1>1. leg' = [leg EXCEPT ![c] = [leg[c] EXCEPT ![r] = where]]
  BY DEF Move
<1>2. [leg[c] EXCEPT ![r] = where] \in [Recipient -> Leg]
  OBVIOUS
<1> QED
  BY <1>1, <1>2

(* Every step preserves the types. *)
LEMMA TypeStep == TypeOK /\ Traces /\ [Next]_vars => TypeOK'
<1> SUFFICES ASSUME TypeOK, Traces, [Next]_vars
             PROVE  TypeOK'
  OBVIOUS
<1> USE DEF TypeOK, handlers, redis, people, rows, jobs
<1>0. /\ "skipped" \in Leg /\ "passed" \in Leg /\ "chosen" \in Leg
      /\ "filed" \in Leg /\ "told" \in Leg
  BY DEF Leg
<1>1. ASSUME NEW c \in Call, NEW k \in Type, Begin(c, k)
      PROVE  TypeOK'
  <2>1. owner[about[c]] \in Recipient
    BY DEF Recipient, Account
  <2>2. leg' \in [Call -> [Recipient -> Leg]]
    BY <1>1 DEF Begin, Leg
  <2> QED
    BY <1>1, <2>1, <2>2 DEF Begin
<1>2. ASSUME NEW c \in Call, Mark(c) \/ MarkUnanswered(c)
      PROVE  TypeOK'
  <2>1. PICK r \in Recipient : /\ Turn(c, r)
                               /\ \/ Move(c, r, "skipped") \/ Move(c, r, "passed")
                               /\ marked' \subseteq marked \cup {Key(c, r)}
                               /\ excused' \subseteq excused \cup {<<c, r>>}
                               /\ UNCHANGED <<kind, about, stage, via, queue, people, rows, jobs>>
    BY <1>2 DEF Mark, MarkUnanswered
  <2>2. Key(c, r) \in Type \X Entity \X Recipient
    BY <2>1 DEF Key, Turn, Traces
  <2>3. leg' \in [Call -> [Recipient -> Leg]]
    BY <2>1, Moved, <1>0
  <2> QED
    BY <2>1, <2>2, <2>3 DEF Row
<1>3. ASSUME NEW c \in Call, Choose(c)
      PROVE  TypeOK'
  <2>1. PICK r \in Recipient : /\ via' = [via EXCEPT ![c][r] = Wanted(kind[c], r)]
                               /\ Move(c, r, "chosen")
    BY <1>3 DEF Choose
  <2>2. Wanted(kind[c], r) \in SUBSET Channel
    BY DEF Wanted, DefaultChannels, Channel
  <2>3. via' \in [Call -> [Recipient -> SUBSET Channel]]
    BY <2>1, <2>2
  <2>4. leg' \in [Call -> [Recipient -> Leg]]
    BY <2>1, <1>0, Moved
  <2> QED
    BY <1>3, <2>3, <2>4 DEF Choose
<1>4. ASSUME NEW c \in Call, File(c)
      PROVE  TypeOK'
  <2>1. leg' \in [Call -> [Recipient -> Leg]]
    BY <1>4, <1>0, Moved DEF File
  <2> QED
    BY <1>4, <2>1 DEF File
<1>5. ASSUME NEW c \in Call, Post(c)
      PROVE  TypeOK'
  <2>1. leg' \in [Call -> [Recipient -> Leg]]
    BY <1>5, <1>0, Moved DEF Post
  <2> QED
    BY <1>5, <2>1 DEF Post
<1>6. ASSUME NEW c \in Call, Respond(c) \/ Fail(c)
      PROVE  TypeOK'
  BY <1>6 DEF Respond, Fail
<1>7. ASSUME NEW k \in Type \X Entity \X Recipient, KeyExpires(k)
      PROVE  TypeOK'
  BY <1>7 DEF KeyExpires
<1>8. ASSUME NEW w \in Row, MarkRead(w) \/ Expire(w)
      PROVE  TypeOK'
  BY <1>8 DEF MarkRead, Expire
<1>9. ASSUME NEW u \in Account, MarkAllRead(u)
      PROVE  TypeOK'
  BY <1>9 DEF MarkAllRead
<1>10. ASSUME NEW w \in Switches, UpdatePreferences(w)
       PROVE  TypeOK'
  BY <1>10 DEF UpdatePreferences
<1>11. ASSUME NEW j \in Job, PurgeBegins(j) \/ PurgeSelect(j) \/ PurgeDelete(j)
       PROVE  TypeOK'
  <2>1. CASE PurgeBegins(j)
    BY <2>1 DEF PurgeBegins
  <2>2. CASE PurgeSelect(j)
    <3>1. PICK some \in SUBSET {w \in expired : inbox[w] = "read"} :
             /\ batch' = [batch EXCEPT ![j] = some]
             /\ job' = [job EXCEPT ![j] = IF some = {} THEN "idle" ELSE "delete"]
      BY <2>2 DEF PurgeSelect
    <3> QED
      BY <2>2, <3>1 DEF PurgeSelect
  <2>3. CASE PurgeDelete(j)
    BY <2>3 DEF PurgeDelete
  <2> QED
    BY <1>11, <2>1, <2>2, <2>3
<1>12. CASE Crash
  BY <1>12 DEF Crash
<1>13. CASE UNCHANGED vars
  BY <1>13 DEF vars
<1> QED
  BY <1>1, <1>2, <1>3, <1>4, <1>5, <1>6, <1>7, <1>8, <1>9, <1>10, <1>11, <1>12, <1>13
  DEF Next, Handler

(* A batch is read and expired when it is selected, and neither is undone. *)
LEMMA BatchesStep == TypeOK /\ Books /\ Batches /\ [Next]_vars => Batches'
<1> SUFFICES ASSUME TypeOK, Books, Batches, [Next]_vars
             PROVE  Batches'
  OBVIOUS
<1> USE DEF TypeOK, Batches, handlers, redis, people, rows, jobs
<1>1. CASE UNCHANGED <<rows, batch>>
  BY <1>1
<1>2. ASSUME NEW c \in Call, File(c)
      PROVE  Batches'
  <2>1. PICK r \in Recipient :
          /\ stage[c] = "running" /\ leg[c][r] = "chosen"
          /\ inbox' = IF Filing(c, r) THEN [inbox EXCEPT ![<<c, r>>] = "unread"] ELSE inbox
    BY <1>2 DEF File
  <2>2. <<c, r>> \in Row /\ inbox[<<c, r>>] = "none"
    BY <2>1 DEF Books, Row
  <2> QED
    BY <1>2, <2>1, <2>2 DEF File
<1>3. ASSUME NEW w \in Row, MarkRead(w) \/ Expire(w)
      PROVE  Batches'
  BY <1>3 DEF MarkRead, Expire
<1>4. ASSUME NEW u \in Account, MarkAllRead(u)
      PROVE  Batches'
  BY <1>4 DEF MarkAllRead
<1>5. ASSUME NEW j \in Job, PurgeSelect(j) \/ PurgeDelete(j)
      PROVE  Batches'
  BY <1>5 DEF PurgeSelect, PurgeDelete
<1>6. CASE Crash
  BY <1>6 DEF Crash
<1> QED
  BY <1>1, <1>2, <1>3, <1>4, <1>5, <1>6
  DEF Next, Handler, Begin, Mark, MarkUnanswered, Choose, Post, Respond, Fail, KeyExpires,
      UpdatePreferences, PurgeBegins, vars

-----------------------------------------------------------------------------
(* A handler that has not begun touches nothing; one that has keeps its kind. *)
LEMMA TracesStep == TypeOK /\ Traces /\ Batches /\ [Next]_vars => Traces'
<1> SUFFICES ASSUME TypeOK, Traces, Batches, [Next]_vars
             PROVE  Traces'
  OBVIOUS
<1> USE DEF TypeOK, handlers, redis, people, rows, jobs
<1>1. ASSUME NEW c \in Call, NEW k \in Type, Begin(c, k)
      PROVE  Traces'
  BY <1>1 DEF Begin, Traces
<1>2. ASSUME NEW c \in Call, NEW r \in Recipient, NEW where \in Leg,
             stage[c] = "running", Move(c, r, where),
             inbox' \in {inbox, [inbox EXCEPT ![<<c, r>>] = "unread"]},
             UNCHANGED <<kind, stage>>
      PROVE  Traces'
  <2>1. \A d \in Call, t \in Recipient : d # c =>
           leg'[d][t] = leg[d][t] /\ inbox'[<<d, t>>] = inbox[<<d, t>>]
    BY <1>2, Moved DEF Row
  <2> QED
    BY <1>2, <2>1 DEF Traces
<1>3. ASSUME NEW c \in Call, Respond(c) \/ Fail(c)
      PROVE  Traces'
  BY <1>3 DEF Respond, Fail, Traces
<1>4. CASE Crash
  BY <1>4 DEF Crash, Traces
<1>5. ASSUME UNCHANGED handlers,
             \A w \in Row : inbox[w] = "none" => inbox'[w] = "none"
      PROVE  Traces'
  BY <1>5 DEF Traces, Row
<1>6. /\ "skipped" \in Leg /\ "passed" \in Leg /\ "chosen" \in Leg
      /\ "filed" \in Leg /\ "told" \in Leg
  BY DEF Leg
<1>7. ASSUME NEW c \in Call, Mark(c) \/ MarkUnanswered(c) \/ Choose(c) \/ File(c) \/ Post(c)
      PROVE  Traces'
  <2>1. CASE Mark(c) \/ MarkUnanswered(c)
    BY <2>1, <1>2, <1>6 DEF Mark, MarkUnanswered, Turn
  <2>2. CASE Choose(c)
    BY <2>2, <1>2, <1>6 DEF Choose
  <2>3. CASE File(c)
    BY <2>3, <1>2, <1>6 DEF File
  <2>4. CASE Post(c)
    BY <2>4, <1>2, <1>6 DEF Post
  <2> QED
    BY <1>7, <2>1, <2>2, <2>3, <2>4
<1>8. ASSUME NEW k \in Type \X Entity \X Recipient, KeyExpires(k)
      PROVE  Traces'
  BY <1>8, <1>5 DEF KeyExpires
<1>9. ASSUME NEW w \in Row, MarkRead(w) \/ Expire(w)
      PROVE  Traces'
  BY <1>9, <1>5 DEF MarkRead, Expire
<1>10. ASSUME NEW u \in Account, MarkAllRead(u)
       PROVE  Traces'
  BY <1>10, <1>5 DEF MarkAllRead
<1>11. ASSUME NEW w \in Switches, UpdatePreferences(w)
       PROVE  Traces'
  BY <1>11, <1>5 DEF UpdatePreferences
<1>12. ASSUME NEW j \in Job, PurgeBegins(j) \/ PurgeSelect(j) \/ PurgeDelete(j)
       PROVE  Traces'
  BY <1>12, <1>5 DEF PurgeBegins, PurgeSelect, PurgeDelete, Batches
<1>13. CASE UNCHANGED vars
  BY <1>13 DEF vars, Traces
<1> QED
  BY <1>1, <1>3, <1>4, <1>7, <1>8, <1>9, <1>10, <1>11, <1>12, <1>13 DEF Next, Handler

-----------------------------------------------------------------------------
(* The account of a handler for one recipient. *)
BookedFor(c, r) ==
    /\ r \in queue[c] <=> \/ leg[c][r] = "told" /\ "email" \in via[c][r]
                          \/ Confirmed(kind[c]) /\ r = owner[about[c]]
    /\ inbox[<<c, r>>] # "none" <=> leg[c][r] \in {"filed", "told"} /\ Filing(c, r)

(* What a handler has done stays in step with how far it has got. *)
LEMMA BooksStep == TypeOK /\ Traces /\ Batches /\ Books /\ [Next]_vars => Books'
<1> SUFFICES ASSUME TypeOK, Traces, Batches, Books, [Next]_vars,
                    NEW d \in Call, stage'[d] \in {"running", "answered"}, NEW t \in Recipient
             PROVE  BookedFor(d, t)'
  BY DEF Books, BookedFor
<1> USE DEF TypeOK, handlers, redis, people, rows, jobs
<1>0. stage[d] \in {"running", "answered"} => BookedFor(d, t)
  BY DEF Books, BookedFor
<1>1. ASSUME NEW c \in Call, NEW k \in Type, Begin(c, k)
      PROVE  BookedFor(d, t)'
  <2>1. CASE d = c
    <3>1. /\ leg'[c][t] \in {"none", "waiting"} /\ inbox'[<<c, t>>] = "none"
          /\ queue'[c] = IF Confirmed(kind'[c]) THEN {owner'[about'[c]]} ELSE {}
      BY <1>1 DEF Begin, Traces
    <3> QED
      BY <2>1, <3>1 DEF BookedFor
  <2>2. CASE d # c
    BY <1>0, <1>1, <2>2 DEF Begin, BookedFor, Filing
  <2> QED
    BY <2>1, <2>2
<1>2. ASSUME NEW c \in Call, NEW r \in Recipient, NEW where \in Leg, stage[c] = "running",
             Move(c, r, where), UNCHANGED <<kind, about, stage, owner>>,
             d # c \/ t # r => /\ via'[d][t] = via[d][t]
                               /\ t \in queue'[d] <=> t \in queue[d]
                               /\ inbox'[<<d, t>>] = inbox[<<d, t>>],
             d = c /\ t = r => BookedFor(c, r)'
      PROVE  BookedFor(d, t)'
  <2>1. CASE d = c /\ t = r
    BY <1>2, <2>1
  <2>2. CASE d # c \/ t # r
    <3>1. leg'[d][t] = leg[d][t]
      BY <1>2, <2>2, Moved
    <3> QED
      BY <1>0, <1>2, <2>2, <3>1 DEF BookedFor, Filing
  <2> QED
    BY <2>1, <2>2
<1>3. /\ "skipped" \in Leg /\ "passed" \in Leg /\ "chosen" \in Leg
      /\ "filed" \in Leg /\ "told" \in Leg
  BY DEF Leg
<1>4. ASSUME NEW c \in Call, Mark(c) \/ MarkUnanswered(c)
      PROVE  BookedFor(d, t)'
  <2>1. PICK r \in Recipient, where \in {"skipped", "passed"} :
          /\ Turn(c, r) /\ Move(c, r, where)
          /\ UNCHANGED <<kind, about, stage, via, queue, people, rows, jobs>>
    BY <1>4 DEF Mark, MarkUnanswered
  <2>2. leg'[c][r] = where
    BY <2>1, <1>3, Moved
  <2>3. d = c /\ t = r => BookedFor(c, r)'
    BY <1>0, <2>1, <2>2 DEF BookedFor, Turn, Filing
  <2> QED
    BY <1>2, <1>3, <2>1, <2>3 DEF Turn
<1>5. ASSUME NEW c \in Call, Choose(c)
      PROVE  BookedFor(d, t)'
  <2>1. PICK r \in Recipient :
          /\ stage[c] = "running" /\ leg[c][r] = "passed"
          /\ via' = [via EXCEPT ![c] = [via[c] EXCEPT ![r] = Wanted(kind[c], r)]]
          /\ Move(c, r, "chosen")
          /\ UNCHANGED <<kind, about, stage, queue, redis, people, rows, jobs>>
    BY <1>5 DEF Choose
  <2>2. leg'[c][r] = "chosen"
    BY <2>1, <1>3, Moved
  <2>3. d = c /\ t = r => BookedFor(c, r)'
    BY <1>0, <2>1, <2>2 DEF BookedFor
  <2>4. d # c \/ t # r => via'[d][t] = via[d][t]
    BY <2>1
  <2> QED
    BY <1>2, <1>3, <2>1, <2>3, <2>4
<1>6. ASSUME NEW c \in Call, File(c)
      PROVE  BookedFor(d, t)'
  <2>1. PICK r \in Recipient :
          /\ stage[c] = "running" /\ leg[c][r] = "chosen"
          /\ inbox' = IF Filing(c, r) THEN [inbox EXCEPT ![<<c, r>>] = "unread"] ELSE inbox
          /\ Move(c, r, "filed")
          /\ UNCHANGED <<kind, about, stage, via, queue, redis, people, expired, jobs>>
    BY <1>6 DEF File
  <2>2. leg'[c][r] = "filed"
    BY <2>1, <1>3, Moved
  <2>3. d = c /\ t = r => BookedFor(c, r)'
    BY <1>0, <2>1, <2>2 DEF BookedFor, Filing, Row
  <2>4. d # c \/ t # r => inbox'[<<d, t>>] = inbox[<<d, t>>]
    BY <2>1 DEF Row
  <2> QED
    BY <1>2, <1>3, <2>1, <2>3, <2>4
<1>7. ASSUME NEW c \in Call, Post(c)
      PROVE  BookedFor(d, t)'
  <2>1. PICK r \in Recipient :
          /\ stage[c] = "running" /\ leg[c][r] = "filed"
          /\ queue' = IF "email" \in via[c][r]
                         THEN [queue EXCEPT ![c] = queue[c] \cup {r}] ELSE queue
          /\ Move(c, r, "told")
          /\ UNCHANGED <<kind, about, stage, via, redis, people, rows, jobs>>
    BY <1>7 DEF Post
  <2>2. leg'[c][r] = "told"
    BY <2>1, <1>3, Moved
  <2>3. d = c /\ t = r => BookedFor(c, r)'
    BY <1>0, <2>1, <2>2 DEF BookedFor, Filing
  <2>4. d # c \/ t # r => (t \in queue'[d] <=> t \in queue[d])
    BY <2>1
  <2> QED
    BY <1>2, <1>3, <2>1, <2>3, <2>4
<1>8. ASSUME NEW c \in Call, Respond(c) \/ Fail(c)
      PROVE  BookedFor(d, t)'
  BY <1>0, <1>8 DEF Respond, Fail, BookedFor, Filing
<1>9. CASE Crash
  BY <1>0, <1>9 DEF Crash, BookedFor, Filing
<1>10. ASSUME UNCHANGED <<handlers, owner>>,
              \A w \in Row : inbox[w] = "none" <=> inbox'[w] = "none"
       PROVE  BookedFor(d, t)'
  BY <1>0, <1>10 DEF BookedFor, Filing, Row
<1>11. ASSUME NEW k \in Type \X Entity \X Recipient, KeyExpires(k)
       PROVE  BookedFor(d, t)'
  BY <1>11, <1>10 DEF KeyExpires
<1>12. ASSUME NEW w \in Row, MarkRead(w) \/ Expire(w)
       PROVE  BookedFor(d, t)'
  BY <1>12, <1>10 DEF MarkRead, Expire
<1>13. ASSUME NEW u \in Account, MarkAllRead(u)
       PROVE  BookedFor(d, t)'
  BY <1>13, <1>10 DEF MarkAllRead
<1>14. ASSUME NEW w \in Switches, UpdatePreferences(w)
       PROVE  BookedFor(d, t)'
  BY <1>14, <1>10 DEF UpdatePreferences
<1>15. ASSUME NEW j \in Job, PurgeBegins(j) \/ PurgeSelect(j) \/ PurgeDelete(j)
       PROVE  BookedFor(d, t)'
  BY <1>15, <1>10 DEF PurgeBegins, PurgeSelect, PurgeDelete, Batches
<1>16. CASE UNCHANGED vars
  BY <1>16, <1>10 DEF vars
<1> QED
  BY <1>1, <1>4, <1>5, <1>6, <1>7, <1>8, <1>9, <1>11, <1>12, <1>13, <1>14, <1>15, <1>16
  DEF Next, Handler

-----------------------------------------------------------------------------
(* Who has answered has finished with everybody, and no step goes back to them. *)
LEMMA FinishedStep == TypeOK /\ Finished /\ [Next]_vars => Finished'
<1> SUFFICES ASSUME TypeOK, Finished, [Next]_vars,
                    NEW d \in Call, stage'[d] = "answered", NEW t \in Recipient
             PROVE  leg'[d][t] \in {"none", "skipped", "told"}
  BY DEF Finished
<1> USE DEF TypeOK, handlers, redis, people, rows, jobs
<1>0. stage[d] = "answered" => leg[d][t] \in {"none", "skipped", "told"}
  BY DEF Finished
<1>1. CASE UNCHANGED <<stage, leg>>
  BY <1>0, <1>1
<1>2. ASSUME NEW c \in Call, NEW k \in Type, Begin(c, k)
      PROVE  leg'[d][t] \in {"none", "skipped", "told"}
  BY <1>0, <1>2 DEF Begin
<1>3. ASSUME NEW c \in Call, NEW r \in Recipient, NEW where \in Leg,
             stage[c] = "running", Move(c, r, where), UNCHANGED stage
      PROVE  leg'[d][t] \in {"none", "skipped", "told"}
  <2>1. leg'[d][t] = leg[d][t]
    BY <1>3, Moved
  <2> QED
    BY <1>0, <1>3, <2>1
<1>4. /\ "skipped" \in Leg /\ "passed" \in Leg /\ "chosen" \in Leg
      /\ "filed" \in Leg /\ "told" \in Leg
  BY DEF Leg
<1>5. ASSUME NEW c \in Call, Mark(c) \/ MarkUnanswered(c)
      PROVE  leg'[d][t] \in {"none", "skipped", "told"}
  BY <1>3, <1>4, <1>5 DEF Mark, MarkUnanswered, Turn
<1>6. ASSUME NEW c \in Call, Choose(c) \/ File(c) \/ Post(c)
      PROVE  leg'[d][t] \in {"none", "skipped", "told"}
  BY <1>3, <1>4, <1>6 DEF Choose, File, Post
<1>7. ASSUME NEW c \in Call, Respond(c) \/ Fail(c)
      PROVE  leg'[d][t] \in {"none", "skipped", "told"}
  BY <1>0, <1>7 DEF Respond, Fail
<1>8. CASE Crash
  BY <1>0, <1>8 DEF Crash
<1> QED
  BY <1>1, <1>2, <1>5, <1>6, <1>7, <1>8
  DEF Next, Handler, KeyExpires, MarkRead, Expire, MarkAllRead, UpdatePreferences,
      PurgeBegins, PurgeSelect, PurgeDelete, vars

-----------------------------------------------------------------------------
(* Keys and passes. *)
KeysInv ==
    PassesHaveKeys /\ KeysHavePasses /\ OncePerWindow /\ SkippedForAnother

(* A step that lets nobody pass and skips nobody, and leaves the keys alone. *)
LEMMA KeysStutter ==
    ASSUME KeysInv, UNCHANGED <<kind, about, marked, excused>>,
           \A d \in Call, t \in Recipient :
              /\ leg'[d][t] \in Passed <=> leg[d][t] \in Passed
              /\ leg'[d][t] = "skipped" => leg[d][t] = "skipped"
    PROVE  KeysInv'
<1>1. \A d \in Call, t \in Recipient : Key(d, t)' = Key(d, t)
  BY DEF Key
<1>2. \A d, e \in Call, t \in Recipient : Same(d, e, t)' <=> Same(d, e, t)
  BY DEF Same, Key
<1>3. PassesHaveKeys'
  BY <1>1 DEF KeysInv, PassesHaveKeys
<1>4. KeysHavePasses'
  BY <1>1 DEF KeysInv, KeysHavePasses
<1>5. OncePerWindow'
  BY <1>2 DEF KeysInv, OncePerWindow
<1>6. SkippedForAnother'
  BY <1>2 DEF KeysInv, SkippedForAnother
<1> QED
  BY <1>3, <1>4, <1>5, <1>6 DEF KeysInv

(* One recipient passes: with a key of its own, or excused. *)
LEMMA KeysPass ==
    ASSUME TypeOK, KeysInv,
           NEW c \in Call, NEW r \in Recipient, leg[c][r] = "waiting", Move(c, r, "passed"),
           UNCHANGED <<kind, about>>, excused \subseteq excused', marked \subseteq marked',
           marked' \subseteq marked \cup {Key(c, r)},
           \/ Key(c, r) \notin marked /\ Key(c, r) \in marked'
           \/ <<c, r>> \in excused'
    PROVE  KeysInv'
<1> USE DEF TypeOK
<1>1. /\ leg'[c][r] = "passed" /\ "passed" \in Passed /\ "waiting" \notin Passed
      /\ \A d \in Call, t \in Recipient : <<d, t>> # <<c, r>> => leg'[d][t] = leg[d][t]
  BY Moved DEF Leg, Passed
<1>2. \A d \in Call, t \in Recipient : Key(d, t)' = Key(d, t)
  BY DEF Key
<1>3. \A d, e \in Call, t \in Recipient : Same(d, e, t)' <=> Same(d, e, t)
  BY DEF Same, Key
<1>4. PassesHaveKeys'
  <2> SUFFICES ASSUME NEW d \in Call, NEW t \in Recipient, leg'[d][t] \in Passed
               PROVE  Key(d, t)' \in marked' \/ <<d, t>> \in excused'
    BY DEF PassesHaveKeys
  <2>1. CASE <<d, t>> = <<c, r>>
    BY <1>2, <2>1
  <2>2. CASE <<d, t>> # <<c, r>>
    BY <1>1, <1>2, <2>2 DEF KeysInv, PassesHaveKeys
  <2> QED
    BY <2>1, <2>2
<1>5. KeysHavePasses'
  <2> SUFFICES ASSUME NEW k \in marked'
               PROVE  \E d \in Call, t \in Recipient : Key(d, t)' = k /\ leg'[d][t] \in Passed
    BY DEF KeysHavePasses
  <2>1. CASE k = Key(c, r)
    BY <1>1, <1>2, <2>1
  <2>2. CASE k \in marked
    <3>1. PICK d \in Call, t \in Recipient : Key(d, t) = k /\ leg[d][t] \in Passed
      BY <2>2 DEF KeysInv, KeysHavePasses
    <3> QED
      BY <1>1, <1>2, <3>1
  <2> QED
    BY <2>1, <2>2
<1>6. OncePerWindow'
  <2> SUFFICES ASSUME NEW d \in Call, NEW e \in Call, NEW t \in Recipient,
                      Same(d, e, t), leg'[d][t] \in Passed, leg'[e][t] \in Passed
               PROVE  <<d, t>> \in excused' \/ <<e, t>> \in excused'
    BY <1>3 DEF OncePerWindow
  <2>1. CASE <<d, t>> # <<c, r>> /\ <<e, t>> # <<c, r>>
    BY <1>1, <2>1 DEF KeysInv, OncePerWindow
  <2>2. ASSUME NEW f \in Call, Key(f, r) = Key(c, r), f # c, leg'[f][r] \in Passed
        PROVE  <<c, r>> \in excused' \/ <<f, r>> \in excused'
    BY <1>1, <2>2 DEF KeysInv, PassesHaveKeys
  <2> QED
    BY <2>1, <2>2 DEF Same
<1>7. SkippedForAnother'
  <2> SUFFICES ASSUME NEW d \in Call, NEW t \in Recipient, leg'[d][t] = "skipped"
               PROVE  \E e \in Call : Same(d, e, t)' /\ leg'[e][t] \in Passed
    BY DEF SkippedForAnother
  <2>1. leg[d][t] = "skipped"
    BY <1>1
  <2>2. PICK e \in Call : Same(d, e, t) /\ leg[e][t] \in Passed
    BY <2>1 DEF KeysInv, SkippedForAnother
  <2> QED
    BY <1>1, <1>3, <2>2
<1> QED
  BY <1>4, <1>5, <1>6, <1>7 DEF KeysInv

(* One recipient is skipped: the key that stops it stands for somebody's pass. *)
LEMMA KeysSkip ==
    ASSUME TypeOK, Traces, KeysInv, UNCHANGED <<kind, about, marked, excused>>,
           NEW c \in Call, NEW r \in Recipient, stage[c] # "new", leg[c][r] = "waiting",
           Move(c, r, "skipped"), Key(c, r) \in marked
    PROVE  KeysInv'
<1> USE DEF TypeOK
<1>1. /\ leg'[c][r] = "skipped" /\ "skipped" \notin Passed /\ "waiting" \notin Passed
      /\ \A d \in Call, t \in Recipient : <<d, t>> # <<c, r>> => leg'[d][t] = leg[d][t]
  BY Moved DEF Leg, Passed
<1>0. \A d \in Call, t \in Recipient : Key(d, t)' = Key(d, t)
  BY DEF Key
<1>2. \A d \in Call, t \in Recipient : leg'[d][t] \in Passed <=> leg[d][t] \in Passed
  <2> TAKE d \in Call, t \in Recipient
  <2>1. CASE d = c /\ t = r
    BY <1>1, <2>1
  <2>2. CASE <<d, t>> # <<c, r>>
    BY <1>1, <2>2
  <2> QED
    BY <2>1, <2>2
<1>3. \A d, e \in Call, t \in Recipient : Same(d, e, t)' <=> Same(d, e, t)
  BY DEF Same, Key
<1>4. PassesHaveKeys' /\ KeysHavePasses'
  BY <1>0, <1>2 DEF KeysInv, PassesHaveKeys, KeysHavePasses
<1>5. OncePerWindow'
  BY <1>2, <1>3 DEF KeysInv, OncePerWindow
<1>6. \E e \in Call : Same(c, e, r) /\ leg[e][r] \in Passed
  <2>1. PICK e \in Call, t \in Recipient : Key(e, t) = Key(c, r) /\ leg[e][t] \in Passed
    BY DEF KeysInv, KeysHavePasses
  <2>2. t = r /\ e # c
    BY <1>1, <2>1 DEF Key
  <2>3. kind[c] # "none"
    BY Parameters DEF Traces, Types
  <2> QED
    BY <2>1, <2>2, <2>3 DEF Same
<1>7. SkippedForAnother'
  <2> SUFFICES ASSUME NEW d \in Call, NEW t \in Recipient, leg'[d][t] = "skipped"
               PROVE  \E e \in Call : Same(d, e, t) /\ leg[e][t] \in Passed
    BY <1>2, <1>3 DEF SkippedForAnother
  <2>1. CASE <<d, t>> = <<c, r>>
    BY <1>6, <2>1
  <2>2. CASE <<d, t>> # <<c, r>>
    BY <1>1, <2>2 DEF KeysInv, SkippedForAnother
  <2> QED
    BY <2>1, <2>2
<1> QED
  BY <1>4, <1>5, <1>7 DEF KeysInv

(* A handler that begins has passed nobody. *)
LEMMA KeysBegin ==
    ASSUME TypeOK, Traces, KeysInv, NEW c \in Call, NEW k \in Type, Begin(c, k)
    PROVE  KeysInv'
<1> USE DEF TypeOK, redis
<1>1. \A t \in Recipient : /\ leg[c][t] \notin Passed /\ leg'[c][t] \notin Passed
                           /\ leg'[c][t] # "skipped"
  <2> TAKE t \in Recipient
  <2>1. leg[c][t] = "none"
    BY DEF Begin, Traces
  <2>2. leg'[c][t] \in {"none", "waiting"}
    BY DEF Begin
  <2> QED
    BY <2>1, <2>2 DEF Passed
<1>0. \A d \in Call, t \in Recipient : d # c =>
         leg'[d][t] = leg[d][t] /\ kind'[d] = kind[d] /\ about'[d] = about[d]
  BY DEF Begin
<1>2. \A d \in Call, t \in Recipient : d # c => Key(d, t)' = Key(d, t)
  BY <1>0 DEF Key
<1>3. \A d, e \in Call, t \in Recipient : d # c /\ e # c => (Same(d, e, t)' <=> Same(d, e, t))
  BY <1>0, <1>2 DEF Same
<1>4. UNCHANGED <<marked, excused>>
  BY DEF Begin
<1>5. PassesHaveKeys' /\ KeysHavePasses'
  <2>1. PassesHaveKeys'
    BY <1>0, <1>1, <1>2, <1>4 DEF KeysInv, PassesHaveKeys
  <2>2. KeysHavePasses'
    <3> SUFFICES ASSUME NEW l \in marked
                 PROVE  \E d \in Call, t \in Recipient : Key(d, t)' = l /\ leg'[d][t] \in Passed
      BY <1>4 DEF KeysHavePasses
    <3>1. PICK d \in Call, t \in Recipient : Key(d, t) = l /\ leg[d][t] \in Passed
      BY DEF KeysInv, KeysHavePasses
    <3>2. d # c
      BY <1>1, <3>1
    <3> QED
      BY <1>0, <1>2, <3>1, <3>2
  <2> QED
    BY <2>1, <2>2
<1>6. OncePerWindow'
  BY <1>0, <1>1, <1>3, <1>4 DEF KeysInv, OncePerWindow
<1>7. SkippedForAnother'
  <2> SUFFICES ASSUME NEW d \in Call, NEW t \in Recipient, leg'[d][t] = "skipped"
               PROVE  \E e \in Call : Same(d, e, t)' /\ leg'[e][t] \in Passed
    BY DEF SkippedForAnother
  <2>1. d # c /\ leg[d][t] = "skipped"
    BY <1>0, <1>1
  <2>2. PICK e \in Call : Same(d, e, t) /\ leg[e][t] \in Passed
    BY <2>1 DEF KeysInv, SkippedForAnother
  <2>3. e # c
    BY <1>1, <2>2
  <2> QED
    BY <1>0, <1>3, <2>1, <2>2, <2>3
<1> QED
  BY <1>5, <1>6, <1>7 DEF KeysInv

(* A key that expires excuses those who passed with it. *)
LEMMA KeysExpire ==
    ASSUME TypeOK, KeysInv, NEW k \in Type \X Entity \X Recipient, KeyExpires(k)
    PROVE  KeysInv'
<1> USE DEF TypeOK, handlers
<1>1. UNCHANGED <<kind, about, leg>> /\ marked' = marked \ {k} /\ excused \subseteq excused'
  BY DEF KeyExpires
<1>2. \A d \in Call, t \in Recipient :
         leg[d][t] \in Passed /\ Key(d, t) = k => <<d, t>> \in excused'
  BY DEF KeyExpires, Row
<1>3. \A d \in Call, t \in Recipient : Key(d, t)' = Key(d, t)
  BY <1>1 DEF Key
<1>4. \A d, e \in Call, t \in Recipient : Same(d, e, t)' <=> Same(d, e, t)
  BY <1>1 DEF Same, Key
<1>5. PassesHaveKeys' /\ KeysHavePasses'
  BY <1>1, <1>2, <1>3 DEF KeysInv, PassesHaveKeys, KeysHavePasses
<1>6. OncePerWindow' /\ SkippedForAnother'
  BY <1>1, <1>4 DEF KeysInv, OncePerWindow, SkippedForAnother
<1> QED
  BY <1>5, <1>6 DEF KeysInv

(* Every step keeps keys and passes together. *)
LEMMA KeysStep == TypeOK /\ Traces /\ KeysInv /\ [Next]_vars => KeysInv'
<1> SUFFICES ASSUME TypeOK, Traces, KeysInv, [Next]_vars
             PROVE  KeysInv'
  OBVIOUS
<1> USE DEF TypeOK, handlers, redis, people, rows, jobs
<1>1. CASE UNCHANGED <<kind, about, leg, redis>>
  BY <1>1, KeysStutter
<1>2. ASSUME NEW c \in Call, NEW r \in Recipient, NEW where \in {"chosen", "filed", "told"},
             leg[c][r] \in {"passed", "chosen", "filed"}, Move(c, r, where),
             UNCHANGED <<kind, about, redis>>
      PROVE  KeysInv'
  <2>1. where \in Leg /\ where \in Passed /\ leg[c][r] \in Passed /\ where # "skipped"
    BY <1>2 DEF Leg, Passed
  <2>2. /\ leg'[c][r] = where
        /\ \A d \in Call, t \in Recipient : <<d, t>> # <<c, r>> => leg'[d][t] = leg[d][t]
    BY <1>2, <2>1, Moved
  <2>3. ASSUME NEW d \in Call, NEW t \in Recipient
        PROVE  /\ leg'[d][t] \in Passed <=> leg[d][t] \in Passed
               /\ leg'[d][t] = "skipped" => leg[d][t] = "skipped"
    <3>1. CASE d = c /\ t = r
      BY <2>1, <2>2, <3>1
    <3>2. CASE <<d, t>> # <<c, r>>
      BY <2>2, <3>2
    <3> QED
      BY <3>1, <3>2
  <2> QED
    BY <1>2, <2>3, KeysStutter
<1>3. ASSUME NEW c \in Call, Choose(c) \/ File(c) \/ Post(c)
      PROVE  KeysInv'
  BY <1>2, <1>3 DEF Choose, File, Post
<1>4. ASSUME NEW c \in Call, Mark(c)
      PROVE  KeysInv'
  <2>1. PICK r \in Recipient :
          /\ Turn(c, r) /\ UNCHANGED <<kind, about, excused>>
          /\ \/ Key(c, r) \in marked /\ Move(c, r, "skipped") /\ UNCHANGED marked
             \/ Key(c, r) \notin marked /\ Move(c, r, "passed") /\ marked' = marked \cup {Key(c, r)}
    BY <1>4 DEF Mark
  <2>2. stage[c] # "new" /\ leg[c][r] = "waiting"
    BY <2>1 DEF Turn
  <2>3. CASE Key(c, r) \in marked /\ Move(c, r, "skipped") /\ UNCHANGED marked
    BY <2>1, <2>2, <2>3, KeysSkip
  <2>4. CASE Key(c, r) \notin marked /\ Move(c, r, "passed") /\ marked' = marked \cup {Key(c, r)}
    BY <2>1, <2>2, <2>4, KeysPass
  <2> QED
    BY <2>1, <2>3, <2>4
<1>5. ASSUME NEW c \in Call, MarkUnanswered(c)
      PROVE  KeysInv'
  <2>1. PICK r \in Recipient :
          /\ Turn(c, r) /\ UNCHANGED <<kind, about>> /\ Move(c, r, "passed")
          /\ marked' \in {marked, marked \cup {Key(c, r)}}
          /\ excused' = excused \cup {<<c, r>>}
    BY <1>5 DEF MarkUnanswered
  <2> QED
    BY <2>1, KeysPass DEF Turn
<1> QED
  BY <1>1, <1>3, <1>4, <1>5, KeysBegin, KeysExpire
  DEF Next, Handler, Respond, Fail, MarkRead, Expire, MarkAllRead, UpdatePreferences,
      PurgeBegins, PurgeSelect, PurgeDelete, Crash, vars

-----------------------------------------------------------------------------
LEMMA NextIInv == IInv /\ [Next]_vars => IInv'
  BY TypeStep, TracesStep, BooksStep, FinishedStep, KeysStep, BatchesStep DEF IInv, KeysInv

LEMMA Inductive == Spec => []IInv
  BY InitIInv, NextIInv, PTL DEF Spec

LEMMA InFull == IInv => AnsweredInFull
<1> SUFFICES ASSUME IInv, NEW c \in Call, stage[c] = "answered", NEW r \in Recipient
             PROVE  /\ leg[c][r] \in {"none", "skipped", "told"}
                    /\ r \in queue[c] <=> \/ leg[c][r] = "told" /\ "email" \in via[c][r]
                                          \/ Confirmed(kind[c]) /\ r = owner[about[c]]
                    /\ inbox[<<c, r>>] # "none" <=> leg[c][r] = "told" /\ Filing(c, r)
  BY DEF AnsweredInFull
<1>1. leg[c][r] \in {"none", "skipped", "told"}
  BY DEF IInv, Finished
<1> QED
  BY <1>1 DEF IInv, Books

(* The state of handlers, keys, rows and jobs keeps its types. *)
THEOREM TypeCorrect == Spec => []TypeOK
  BY Inductive, PTL DEF IInv

(* However many recipients a handler has, whoever reads, purges or restarts   *)
(* meanwhile: an answer without an error means that everybody not skipped as  *)
(* a repetition has the inbox row and the queued e-mail of their channels.    *)
THEOREM AnsweredInFullHolds == Spec => []AnsweredInFull
  BY Inductive, InFull, PTL

(* SET NX lets one of any number of concurrent handlers through for each type, *)
(* entity and recipient, until its key expires or Redis does not answer.       *)
THEOREM OncePerWindowHolds == Spec => []OncePerWindow
  BY Inductive, PTL DEF IInv

(* A recipient is skipped only for a handler that took on the same type,      *)
(* entity and recipient: keys never collide.                                  *)
THEOREM SkippedForAnotherHolds == Spec => []SkippedForAnother
  BY Inductive, PTL DEF IInv

LEMMA PurgeStep ==
    IInv /\ [Next]_vars =>
        [\A w \in Row : inbox[w] # "gone" /\ inbox'[w] = "gone" =>
            inbox[w] = "read" /\ w \in expired]_vars
<1> SUFFICES ASSUME IInv, Next, NEW w \in Row, inbox[w] # "gone", inbox'[w] = "gone"
             PROVE  inbox[w] = "read" /\ w \in expired
  BY DEF vars
<1> USE DEF IInv, TypeOK, handlers, redis, people, rows, jobs
<1>1. ASSUME NEW j \in Job, PurgeDelete(j)
      PROVE  inbox[w] = "read" /\ w \in expired
  BY <1>1 DEF PurgeDelete, Batches
<1>2. ASSUME NEW c \in Call, File(c)
      PROVE  FALSE
  BY <1>2 DEF File
<1>3. ASSUME NEW x \in Row, MarkRead(x) \/ Expire(x)
      PROVE  FALSE
  BY <1>3 DEF MarkRead, Expire
<1>4. ASSUME NEW u \in Account, MarkAllRead(u)
      PROVE  FALSE
  BY <1>4 DEF MarkAllRead
<1> QED
  BY <1>1, <1>2, <1>3, <1>4
  DEF Next, Handler, Begin, Mark, MarkUnanswered, Choose, Post, Respond, Fail, KeyExpires,
      UpdatePreferences, PurgeBegins, PurgeSelect, Crash

(* With any number of purge jobs, readers and restarts: only rows that were   *)
(* read and have expired are deleted.                                         *)
THEOREM PurgedWereRead == Spec => PurgedWasRead
<1>1. IInv /\ [Next]_vars =>
        [\A w \in Row : inbox[w] # "gone" /\ inbox'[w] = "gone" =>
            inbox[w] = "read" /\ w \in expired]_vars
  BY PurgeStep
<1> QED
  BY <1>1, Inductive, PTL DEF Spec, PurgedWasRead

=============================================================================
