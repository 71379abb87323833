---------------------------- MODULE BrowserProofs -----------------------------
(***************************************************************************)
(* What reaches the browser of a person, for any number of everything: rows *)
(* pushed to its sockets (Realtime), the lists it walks through and the     *)
(* decisions they show (Desk), its copies of lists (QueryCache), the rows   *)
(* it saves (Upserts).                                                      *)
(***************************************************************************)
EXTENDS Realtime, Storefront, FiniteSetTheorems, WellFoundedInduction, SequenceTheorems, TLAPS

-----------------------------------------------------------------------------
(* Realtime.  A row reaches an instance by one of two ways: the instance     *)
(* that publishes it delivers it at once, any other hears of it over the     *)
(* backplane, once.  So every pair of an instance and a row goes through one *)
(* succession: still to come, due, in the hands of one coroutine, over.  The *)
(* invariant says of each socket which of these it is waiting for.           *)

(* A handler has an instance once it is admitted, and whoever is in a channel *)
(* is connected to that instance, with its receive loop running.              *)
Placed ==
    /\ \A k \in Socket : at[k] = Nobody <=> phase[k] = "away"
    /\ \A i \in Instance : \A e \in registry[i] : at[e[2]] = i /\ phase[e[2]] = "open"

Logged == \A k \in Socket : phase[k] = "closed" /\ k \in opened => k \in lost

(* The two ways exclude each other, and the backplane is used once.           *)
OneWay ==
    /\ \A m \in Message : origin[m] = Nobody <=> pub[m] = "new"
    /\ \A i \in Instance : \A m \in heard[i] : pub[m] = "done"
    /\ \A t \in due : /\ pub[t[2]] # "new"
                      /\ origin[t[2]] # t[1] => pub[t[2]] = "done" /\ t[2] \notin heard[t[1]]

(* The coroutine t may start yet.                                             *)
ToCome(t) ==
    \/ pub[t[2]] = "new"
    \/ t \in due
    \/ origin[t[2]] # t[1] /\ (t[2] \in heard[t[1]] \/ pub[t[2]] \in {"delivering", "relaying"})

InHand(t, k) == k \in todo[t] \/ now[t] = k

(* A coroutine that may start yet has no socket and no socket of its instance *)
(* has its row; one that runs has sockets of its instance without the row.    *)
Untouched ==
    \A t \in Task, k \in Socket :
        /\ ToCome(t) => ~InHand(t, k) /\ (at[k] = t[1] => got[t[2]][k] = 0)
        /\ InHand(t, k) => at[k] = t[1] /\ got[t[2]][k] = 0
        /\ ~(k \in todo[t] /\ now[t] = k)

GotOnce == \A m \in Message, k \in Socket : got[m][k] # 0 => got[m][k] = 1 /\ phase[k] # "away"

(* A socket that was there at the publication and is registered still has the *)
(* row, or will be given it, or its instance never hears of it.               *)
Waits(t, k) ==
    \/ pub[t[2]] = "lost"
    \/ got[t[2]][k] > 0
    \/ t \in deaf
    \/ t \in due
    \/ InHand(t, k)
    \/ origin[t[2]] # t[1] /\ (t[2] \in heard[t[1]] \/ pub[t[2]] \in {"delivering", "relaying"})

Served ==
    /\ \A m \in Message : \A k \in present[m] : pub[m] # "new" /\ phase[k] \notin {"away", "admitted"}
    /\ \A t \in Task : \A k \in present[t[2]] :
          <<ChannelOf(t[2]), k>> \in registry[t[1]] => Waits(t, k)

IInv ==
    /\ TypeOK /\ Placed /\ Logged /\ OneWay /\ Untouched /\ GotOnce /\ Served

-----------------------------------------------------------------------------
(* Types. *)

LEMMA TaskParts ==
    /\ \A t \in Task : t[1] \in Instance /\ t[2] \in Message
    /\ \A i \in Instance, m \in Message :
          <<i, m>> \in Task /\ <<i, m>>[1] = i /\ <<i, m>>[2] = m
BY DEF Task

LEMMA ChannelTypes ==
    /\ \A m \in Message : ChannelOf(m) \in Channel
    /\ \A k \in Socket : ChannelsFor(Account[k]) \subseteq Channel
    /\ \A i \in Instance, m \in Message : Listeners(i, ChannelOf(m)) \subseteq Socket
BY Parameters DEF ChannelOf, ChannelsFor, Channel, User, Listeners

LEMMA TypeInit == Init => TypeOK
BY DEF Init, TypeOK, Phase

LEMMA TypeStep == TypeOK /\ [Next]_vars => TypeOK'
<1> SUFFICES ASSUME TypeOK, [Next]_vars
             PROVE  TypeOK'
  OBVIOUS
<1> USE TaskParts, ChannelTypes
<1>1. ASSUME NEW k \in Socket, NEW i \in Instance, Admit(k, i)
      PROVE  TypeOK'
  BY <1>1 DEF Admit, TypeOK, Phase, log, backplane, publications, deliveries, history
<1>2. ASSUME NEW k \in Socket, Subscribe(k)
      PROVE  TypeOK'
  <2>1. registry' \in [Instance -> SUBSET (Channel \X Socket)]
    <3>1. ChannelsFor(Account[k]) \X {k} \subseteq Channel \X Socket
      BY ChannelTypes
    <3>2. registry' = [registry EXCEPT ![at[k]] = @ \cup (ChannelsFor(Account[k]) \X {k})]
      BY <1>2 DEF Subscribe, Join
    <3> HIDE DEF ChannelsFor
    <3> QED
      BY <3>1, <3>2 DEF TypeOK
  <2>2. opened' \cup lost' \subseteq Socket
    BY <1>2 DEF Subscribe, LogConnect, TypeOK
  <2> QED
    BY <1>2, <2>1, <2>2 DEF Subscribe, TypeOK, Phase, backplane, publications, deliveries, history
<1>3. ASSUME NEW k \in Socket, Leave(k)
      PROVE  TypeOK'
  <2>1. registry' \in [Instance -> SUBSET (Channel \X Socket)]
    BY <1>3 DEF Leave, Quit, TypeOK
  <2>2. opened' \cup lost' \subseteq Socket
    BY <1>3 DEF Leave, LogDisconnect, TypeOK
  <2> QED
    BY <1>3, <2>1, <2>2 DEF Leave, TypeOK, Phase, backplane, publications, deliveries, history
<1>4. ASSUME NEW k \in Socket, PeerGoes(k)
      PROVE  TypeOK'
  BY <1>4 DEF PeerGoes, TypeOK, log, backplane, publications, deliveries, history
<1>5. ASSUME NEW m \in Message, NEW i \in Instance, Publish(m, i)
      PROVE  TypeOK'
  BY <1>5 DEF Publish, TypeOK, connections, log, backplane
<1>6. ASSUME NEW m \in Message, Proceed(m)
      PROVE  TypeOK'
  BY <1>6 DEF Proceed, TypeOK, connections, log, backplane, deliveries, history
<1>7. ASSUME NEW m \in Message, Relay(m)
      PROVE  TypeOK'
  <2>1. PICK to \in {{}, ears} :
          /\ heard' = [i \in Instance |-> IF i \in to THEN heard[i] \cup {m} ELSE heard[i]]
          /\ deaf' = deaf \cup {<<i, m>> : i \in Instance \ (to \cup {origin[m]})}
    BY <1>7 DEF Relay
  <2>2. heard' \in [Instance -> SUBSET Message] /\ deaf' \subseteq Task
    BY <2>1 DEF TypeOK
  <2> QED
    BY <1>7, <2>2 DEF Relay, TypeOK, connections, log, deliveries
<1>8. ASSUME NEW m \in Message, NEW i \in Instance, Hear(i, m)
      PROVE  TypeOK'
  BY <1>8 DEF Hear, TypeOK, connections, log, publications, history
<1>9. ASSUME NEW i \in Instance, ListenerDies(i)
      PROVE  TypeOK'
  BY <1>9 DEF ListenerDies, TypeOK, connections, log, publications, deliveries
<1>10. ASSUME NEW t \in Task, Deliver(t)
       PROVE  TypeOK'
  BY <1>10 DEF Deliver, TypeOK, connections, log, backplane, publications, history
<1>11. ASSUME NEW t \in Task, Turn(t)
       PROVE  TypeOK'
  BY <1>11 DEF Turn, TypeOK, connections, log, backplane, publications, history
<1>12. ASSUME NEW t \in Task, Push(t)
       PROVE  TypeOK'
  <2>1. now[t] \in Socket /\ got' = [got EXCEPT ![t[2]][now[t]] = @ + 1]
    BY <1>12 DEF Push, TypeOK
  <2>2. got' \in [Message -> [Socket -> Nat]]
    BY <2>1 DEF TypeOK
  <2> QED
    BY <1>12, <2>2 DEF Push, TypeOK, connections, log, backplane, publications
<1>13. ASSUME NEW t \in Task, PushFails(t)
       PROVE  TypeOK'
  BY <1>13 DEF PushFails, TypeOK, connections, log, backplane, publications, history
<1>14. ASSUME NEW i \in Instance, Restart(i)
       PROVE  TypeOK'
  BY <1>14 DEF Restart, TypeOK, Phase, log, history
<1>15. CASE UNCHANGED vars
  BY <1>15 DEF TypeOK, vars, connections, log, backplane, publications, deliveries, history
<1> QED
  BY <1>1, <1>2, <1>3, <1>4, <1>5, <1>6, <1>7, <1>8, <1>9, <1>10, <1>11, <1>12, <1>13, <1>14, <1>15
     DEF Next, Work

-----------------------------------------------------------------------------
(* The handlers, the registry and the log. *)

LEMMA PlacedStep == TypeOK /\ Placed /\ [Next]_vars => Placed'
<1> SUFFICES ASSUME TypeOK, Placed, [Next]_vars
             PROVE  Placed'
  OBVIOUS
<1> USE Parameters, TaskParts
<1>1. ASSUME NEW k \in Socket, NEW i \in Instance, Admit(k, i)
      PROVE  Placed'
  BY <1>1 DEF Admit, Placed, TypeOK
<1>2. ASSUME NEW k \in Socket, Subscribe(k)
      PROVE  Placed'
  <2>1. at[k] \in Instance /\ at' = at /\ phase' = [phase EXCEPT ![k] = "open"]
    BY <1>2 DEF Subscribe, Placed, TypeOK
  <2>2. ASSUME NEW i \in Instance, NEW e \in registry'[i]
        PROVE  e[2] \in Socket /\ (e \in registry[i] \/ (i = at[k] /\ e[2] = k))
    BY <1>2, <2>1, <2>2, TypeStep, ChannelTypes DEF Subscribe, Join, TypeOK
  <2> QED
    BY <1>2, <2>1, <2>2 DEF Subscribe, Placed, TypeOK
<1>3. ASSUME NEW k \in Socket, Leave(k)
      PROVE  Placed'
  <2>1. at' = at /\ phase' = [phase EXCEPT ![k] = "closed"] /\ phase[k] = "open"
    BY <1>3 DEF Leave
  <2>2. ASSUME NEW i \in Instance, NEW e \in registry'[i]
        PROVE  e[2] \in Socket /\ e \in registry[i] /\ e[2] # k
    BY <1>3, <2>2 DEF Leave, Quit, TypeOK, Placed
  <2> QED
    BY <2>1, <2>2 DEF Placed, TypeOK
<1>4. ASSUME NEW t \in Task, PushFails(t)
      PROVE  Placed'
  BY <1>4 DEF PushFails, Placed, TypeOK, connections
<1>5. ASSUME NEW i \in Instance, Restart(i)
      PROVE  Placed'
  <2>1. /\ at' = at
        /\ phase' = [k \in Socket |-> IF at[k] = i /\ phase[k] \notin Over THEN "cut" ELSE phase[k]]
        /\ registry' = [registry EXCEPT ![i] = {}]
    BY <1>5 DEF Restart
  <2>2. ASSUME NEW j \in Instance, NEW e \in registry'[j]
        PROVE  j # i /\ e[2] \in Socket /\ e \in registry[j]
    BY <2>1, <2>2 DEF TypeOK
  <2> QED
    BY <2>1, <2>2 DEF Placed, TypeOK
<1>6. CASE UNCHANGED <<phase, at, registry>>
  BY <1>6 DEF Placed
<1> QED
  BY <1>1, <1>2, <1>3, <1>4, <1>5, <1>6 DEF Next, Work, PeerGoes, Publish, Proceed, Relay, Hear,
     ListenerDies, Deliver, Turn, Push, vars, connections

LEMMA LoggedStep == TypeOK /\ Logged /\ [Next]_vars => Logged'
<1> SUFFICES ASSUME TypeOK, Logged, [Next]_vars
             PROVE  Logged'
  OBVIOUS
<1>1. ASSUME NEW k \in Socket, NEW i \in Instance, Admit(k, i)
      PROVE  Logged'
  BY <1>1 DEF Admit, Logged, TypeOK, log
<1>2. ASSUME NEW k \in Socket, Subscribe(k)
      PROVE  Logged'
  BY <1>2 DEF Subscribe, LogConnect, Logged, TypeOK
<1>3. ASSUME NEW k \in Socket, Leave(k)
      PROVE  Logged'
  BY <1>3 DEF Leave, LogDisconnect, Logged, TypeOK
<1>4. ASSUME NEW i \in Instance, Restart(i)
      PROVE  Logged'
  BY <1>4 DEF Restart, Logged, TypeOK, log
<1>5. CASE UNCHANGED <<phase, log>>
  BY <1>5 DEF Logged, log
<1> QED
  BY <1>1, <1>2, <1>3, <1>4, <1>5 DEF Next, Work, PeerGoes, Publish, Proceed, Relay, Hear,
     ListenerDies, Deliver, Turn, Push, PushFails, vars, connections

-----------------------------------------------------------------------------
(* The publications and the deliveries. *)

LEMMA OneWayStep == TypeOK /\ OneWay /\ [Next]_vars => OneWay'
<1> SUFFICES ASSUME TypeOK, OneWay, [Next]_vars
             PROVE  OneWay'
  OBVIOUS
<1> USE Parameters, TaskParts
<1>1. ASSUME NEW m \in Message, NEW i \in Instance, Publish(m, i)
      PROVE  OneWay'
  BY <1>1 DEF Publish, Fresh, OneWay, TypeOK, backplane
<1>2. ASSUME NEW m \in Message, Proceed(m)
      PROVE  OneWay'
  BY <1>2 DEF Proceed, OneWay, TypeOK, backplane, deliveries
<1>3. ASSUME NEW m \in Message, Relay(m)
      PROVE  OneWay'
  <2>1. /\ pub[m] = "relaying" /\ pub' = [pub EXCEPT ![m] = "done"]
        /\ \A i \in Instance : heard'[i] \subseteq heard[i] \cup {m}
        /\ origin' = origin /\ due' = due
    BY <1>3 DEF Relay, TypeOK, deliveries
  <2> QED
    BY <2>1 DEF OneWay, TypeOK
<1>4. ASSUME NEW m \in Message, NEW i \in Instance, Hear(i, m)
      PROVE  OneWay'
  BY <1>4 DEF Hear, OneWay, TypeOK, publications
<1>5. ASSUME UNCHANGED publications, due' \subseteq due,
             \A i \in Instance : heard'[i] \subseteq heard[i]
      PROVE  OneWay'
  BY <1>5 DEF OneWay, TypeOK, publications
<1>6. ASSUME NEW i \in Instance, ListenerDies(i)
      PROVE  OneWay'
  BY <1>5, <1>6 DEF ListenerDies, TypeOK, deliveries
<1>7. ASSUME NEW i \in Instance, Restart(i)
      PROVE  OneWay'
  <2>1. origin' = origin /\ due' = {t \in due : t[1] # i} /\ heard' = [heard EXCEPT ![i] = {}]
    BY <1>7 DEF Restart
  <2>2. \A m \in Message : pub'[m] = IF origin[m] = i /\ pub[m] \in {"delivering", "relaying"}
                                     THEN "lost" ELSE pub[m]
    BY <1>7 DEF Restart
  <2>3. \A m \in Message : /\ pub'[m] = "new" <=> pub[m] = "new"
                           /\ pub[m] = "done" => pub'[m] = "done"
    BY <2>2
  <2>4. due' \subseteq due /\ \A j \in Instance : heard'[j] \subseteq heard[j]
    BY <2>1 DEF TypeOK
  <2> QED
    BY <2>1, <2>3, <2>4 DEF OneWay, TypeOK
<1>8. ASSUME NEW t \in Task, Deliver(t)
      PROVE  OneWay'
  BY <1>5, <1>8 DEF Deliver, backplane
<1>9. CASE UNCHANGED <<backplane, publications, due>>
  BY <1>5, <1>9 DEF backplane
<1> QED
  BY <1>1, <1>2, <1>3, <1>4, <1>6, <1>7, <1>8, <1>9 DEF Next, Work, Admit, Subscribe, Leave, PeerGoes,
     Turn, Push, PushFails, vars, deliveries

(* Nothing but its own publication and its own listener brings a coroutine to *)
(* an instance.                                                               *)
LEMMA ComesOnce ==
    ASSUME TypeOK, OneWay, [Next]_vars, NEW t \in Task, ToCome(t)'
    PROVE  ToCome(t)
<1> USE Parameters, TaskParts DEF ToCome
<1>1. ASSUME NEW m \in Message, NEW i \in Instance, Publish(m, i)
      PROVE  ToCome(t)
  <2>1. CASE t[2] = m
    BY <1>1, <2>1 DEF Publish, Fresh
  <2>2. CASE t[2] # m
    BY <1>1, <2>2 DEF Publish, TypeOK, backplane
  <2> QED
    BY <2>1, <2>2
<1>2. ASSUME NEW m \in Message, Proceed(m)
      PROVE  ToCome(t)
  BY <1>2 DEF Proceed, TypeOK, backplane, deliveries
<1>3. ASSUME NEW m \in Message, Relay(m)
      PROVE  ToCome(t)
  <2>1. /\ pub[m] = "relaying" /\ pub' = [pub EXCEPT ![m] = "done"]
        /\ \A i \in Instance : heard'[i] \subseteq heard[i] \cup {m}
        /\ origin' = origin /\ due' = due
    BY <1>3 DEF Relay, TypeOK, deliveries
  <2> QED
    BY <2>1 DEF TypeOK
<1>4. ASSUME NEW m \in Message, NEW i \in Instance, Hear(i, m)
      PROVE  ToCome(t)
  <2>1. /\ m \in heard[i] /\ UNCHANGED <<pub, origin>>
        /\ \A j \in Instance : heard'[j] \subseteq heard[j]
        /\ t \in due' => t \in due \/ (t[1] = i /\ t[2] = m /\ origin[m] # i)
    BY <1>4 DEF Hear, TypeOK, publications
  <2> QED
    BY <2>1
<1>5. ASSUME origin' = origin, due' \subseteq due, pub'[t[2]] \in {pub[t[2]], "lost"},
             heard'[t[1]] \subseteq heard[t[1]]
      PROVE  ToCome(t)
  BY <1>5
<1>6. ASSUME NEW i \in Instance, ListenerDies(i)
      PROVE  ToCome(t)
  BY <1>5, <1>6 DEF ListenerDies, TypeOK, publications, deliveries
<1>7. ASSUME NEW i \in Instance, Restart(i)
      PROVE  ToCome(t)
  BY <1>5, <1>7 DEF Restart, TypeOK
<1>8. ASSUME NEW s \in Task, Deliver(s)
      PROVE  ToCome(t)
  BY <1>5, <1>8 DEF Deliver, backplane, publications
<1>9. CASE UNCHANGED <<backplane, publications, due>>
  BY <1>5, <1>9 DEF backplane, publications
<1> QED
  BY <1>1, <1>2, <1>3, <1>4, <1>6, <1>7, <1>8, <1>9 DEF Next, Work, Admit, Subscribe, Leave, PeerGoes,
     Turn, Push, PushFails, vars, deliveries

(* Once started, it never comes again.                                        *)
LEMMA StartedIsOver ==
    ASSUME OneWay, NEW t \in Task, t \in due
    PROVE  ~(origin[t[2]] # t[1] /\ (t[2] \in heard[t[1]] \/ pub[t[2]] \in {"delivering", "relaying"}))
           /\ pub[t[2]] # "new"
BY TaskParts DEF OneWay

LEMMA UntouchedStep ==
    TypeOK /\ Placed /\ OneWay /\ Untouched /\ GotOnce /\ [Next]_vars => Untouched'
<1> SUFFICES ASSUME TypeOK, Placed, OneWay, Untouched, GotOnce, [Next]_vars,
                    NEW t \in Task, NEW k \in Socket
             PROVE  /\ ToCome(t)' => ~InHand(t, k)' /\ (at'[k] = t[1] => got'[t[2]][k] = 0)
                    /\ InHand(t, k)' => at'[k] = t[1] /\ got'[t[2]][k] = 0
                    /\ ~(k \in todo'[t] /\ now'[t] = k)
  BY DEF Untouched
<1> DEFINE Goal == /\ ToCome(t)' => ~InHand(t, k)' /\ (at'[k] = t[1] => got'[t[2]][k] = 0)
                   /\ InHand(t, k)' => at'[k] = t[1] /\ got'[t[2]][k] = 0
                   /\ ~(k \in todo'[t] /\ now'[t] = k)
<1>0. /\ ToCome(t) => ~InHand(t, k) /\ (at[k] = t[1] => got[t[2]][k] = 0)
      /\ InHand(t, k) => at[k] = t[1] /\ got[t[2]][k] = 0
      /\ ~(k \in todo[t] /\ now[t] = k)
      /\ ToCome(t)' => ToCome(t)
  BY ComesOnce DEF Untouched
<1> USE Parameters, TaskParts
<1>1. ASSUME NEW l \in Socket, NEW i \in Instance, Admit(l, i)
      PROVE  Goal
  <2>1. /\ phase[l] = "away" /\ at' = [at EXCEPT ![l] = i] /\ UNCHANGED <<todo, now, got>>
    BY <1>1 DEF Admit, deliveries, history
  <2>2. CASE k = l
    <3>1. at[k] = Nobody /\ got[t[2]][k] = 0
      BY <2>1, <2>2 DEF Placed, GotOnce
    <3> QED
      BY <1>0, <2>1, <3>1 DEF InHand
  <2>3. CASE k # l
    BY <1>0, <2>1, <2>3 DEF InHand, TypeOK
  <2> QED
    BY <2>2, <2>3
<1>2. ASSUME UNCHANGED <<at, got>>, \/ UNCHANGED <<todo, now>>
                                    \/ todo'[t] \subseteq todo[t] /\ now'[t] \in {now[t], Nobody}
      PROVE  Goal
  BY <1>0, <1>2 DEF InHand
<1>3. ASSUME NEW s \in Task, Deliver(s)
      PROVE  Goal
  <2>1. /\ s \in due /\ now[s] = Nobody /\ due' = due \ {s}
        /\ todo' = [todo EXCEPT ![s] = Listeners(s[1], ChannelOf(s[2]))]
        /\ UNCHANGED <<at, got, now, pub, origin, heard>>
    BY <1>3 DEF Deliver, connections, history, publications, backplane
  <2>2. CASE t = s
    <3>1. ~ToCome(t)'
      BY <2>1, <2>2, StartedIsOver DEF ToCome
    <3>2. k \in todo'[t] => at[k] = t[1]
      BY <2>1, <2>2 DEF Listeners, TypeOK, Placed
    <3>3. at[k] = t[1] => got[t[2]][k] = 0
      BY <1>0, <2>1, <2>2 DEF ToCome
    <3> QED
      BY <2>1, <2>2, <3>1, <3>2, <3>3 DEF InHand
  <2>3. CASE t # s
    BY <1>2, <2>1, <2>3 DEF TypeOK
  <2> QED
    BY <2>2, <2>3
<1>4. ASSUME NEW s \in Task, Turn(s)
      PROVE  Goal
  <2>1. PICK l \in todo[s] : now' = [now EXCEPT ![s] = l] /\ todo' = [todo EXCEPT ![s] = @ \ {l}]
    BY <1>4 DEF Turn
  <2>2. UNCHANGED <<at, got>>
    BY <1>4 DEF Turn, connections, history
  <2>3. CASE t = s
    BY <1>0, <2>1, <2>2, <2>3 DEF InHand, TypeOK
  <2>4. CASE t # s
    BY <1>2, <2>1, <2>2, <2>4 DEF TypeOK
  <2> QED
    BY <2>3, <2>4
<1>5. ASSUME NEW s \in Task, Push(s)
      PROVE  Goal
  <2>1. /\ now[s] \in Socket /\ got' = [got EXCEPT ![s[2]][now[s]] = @ + 1]
        /\ now' = [now EXCEPT ![s] = Nobody] /\ UNCHANGED <<at, todo>>
    BY <1>5 DEF Push, TypeOK, connections
  <2>2. InHand(s, now[s]) /\ at[now[s]] = s[1] /\ now[s] \notin todo[s] /\ ~ToCome(s)
    BY <2>1 DEF Untouched, InHand
  <2>3. CASE k = now[s] /\ t[2] = s[2]
    <3>1. at[k] = s[1] /\ (t[1] = s[1] => t = s)
      BY <2>2, <2>3 DEF Task
    <3>2. InHand(t, k)' => InHand(t, k) /\ t # s
      BY <2>1, <2>2, <2>3 DEF InHand, TypeOK
    <3> QED
      BY <1>0, <2>1, <2>2, <3>1, <3>2 DEF InHand
  <2>4. CASE ~(k = now[s] /\ t[2] = s[2])
    <3>1. got'[t[2]][k] = got[t[2]][k]
      BY <2>1, <2>4 DEF TypeOK
    <3>2. InHand(t, k)' => InHand(t, k)
      BY <2>1 DEF InHand, TypeOK
    <3> QED
      BY <1>0, <2>1, <3>1, <3>2 DEF InHand, TypeOK
  <2> QED
    BY <2>3, <2>4
<1>6. ASSUME NEW s \in Task, PushFails(s)
      PROVE  Goal
  BY <1>2, <1>6 DEF PushFails, TypeOK, connections, history
<1>7. ASSUME NEW i \in Instance, Restart(i)
      PROVE  Goal
  BY <1>2, <1>7 DEF Restart, TypeOK, history
<1>8. CASE UNCHANGED <<at, got, todo, now>>
  BY <1>2, <1>8
<1> QED
  BY <1>1, <1>3, <1>4, <1>5, <1>6, <1>7, <1>8 DEF Next, Work, Subscribe, Leave, PeerGoes, Publish,
     Proceed, Relay, Hear, ListenerDies, vars, connections, deliveries, history

LEMMA AwayNoMore ==
    ASSUME TypeOK, [Next]_vars, NEW k \in Socket, phase[k] # "away"
    PROVE  phase'[k] # "away" /\ (phase'[k] = "admitted" => phase[k] = "admitted")
<1> DEFINE Goal == phase'[k] # "away" /\ (phase'[k] = "admitted" => phase[k] = "admitted")
<1>1. ASSUME NEW l \in Socket, NEW i \in Instance, Admit(l, i)
      PROVE  Goal
  BY <1>1 DEF Admit, TypeOK
<1>2. ASSUME NEW l \in Socket, Subscribe(l) \/ Leave(l)
      PROVE  Goal
  BY <1>2 DEF Subscribe, Leave, TypeOK
<1>3. ASSUME NEW i \in Instance, Restart(i)
      PROVE  Goal
  BY <1>3 DEF Restart
<1>4. CASE phase' = phase
  BY <1>4
<1> QED
  BY <1>1, <1>2, <1>3, <1>4 DEF Next, Work, PeerGoes, Publish, Proceed, Relay, Hear, ListenerDies,
     Deliver, Turn, Push, PushFails, vars, connections

LEMMA GotOnceStep == TypeOK /\ Placed /\ Untouched /\ GotOnce /\ [Next]_vars => GotOnce'
<1> SUFFICES ASSUME TypeOK, Placed, Untouched, GotOnce, [Next]_vars
             PROVE  GotOnce'
  OBVIOUS
<1> USE Parameters, TaskParts
<1>1. \A k \in Socket : phase[k] # "away" => phase'[k] # "away"
  BY AwayNoMore
<1>2. ASSUME NEW t \in Task, Push(t)
      PROVE  GotOnce'
  <2>1. now[t] \in Socket /\ got' = [got EXCEPT ![t[2]][now[t]] = @ + 1]
    BY <1>2 DEF Push, TypeOK
  <2>2. at[now[t]] = t[1] /\ got[t[2]][now[t]] = 0
    BY <2>1 DEF Untouched, InHand
  <2>3. phase[now[t]] # "away"
    BY <2>1, <2>2 DEF Placed
  <2> QED
    BY <1>1, <2>1, <2>2, <2>3 DEF GotOnce, TypeOK
<1>3. CASE got' = got
  BY <1>1, <1>3 DEF GotOnce
<1> QED
  BY <1>2, <1>3 DEF Next, Work, Admit, Subscribe, Leave, PeerGoes, Publish, Proceed, Relay, Hear,
     ListenerDies, Deliver, Turn, PushFails, Restart, vars, history

-----------------------------------------------------------------------------
(* Nobody who is registered is forgotten. *)

(* Whoever is still registered for a row was registered before, or has just   *)
(* been admitted.                                                             *)
LEMMA RegisteredBefore ==
    ASSUME TypeOK, Placed, [Next]_vars, NEW i \in Instance, NEW ch, NEW k \in Socket,
           <<ch, k>> \in registry'[i]
    PROVE  <<ch, k>> \in registry[i] \/ phase[k] = "admitted"
<1> DEFINE Goal == <<ch, k>> \in registry[i] \/ phase[k] = "admitted"
<1>1. ASSUME NEW l \in Socket, Subscribe(l)
      PROVE  Goal
  <2>1. phase[l] = "admitted" /\ registry' = [registry EXCEPT ![at[l]] = @ \cup (ChannelsFor(Account[l]) \X {l})]
    BY <1>1 DEF Subscribe, Join
  <2> HIDE DEF ChannelsFor
  <2> QED
    BY <2>1 DEF TypeOK
<1>2. ASSUME NEW l \in Socket, Leave(l)
      PROVE  Goal
  BY <1>2 DEF Leave, Quit, TypeOK
<1>3. ASSUME NEW t \in Task, PushFails(t)
      PROVE  Goal
  BY <1>3 DEF PushFails, TypeOK
<1>4. ASSUME NEW j \in Instance, Restart(j)
      PROVE  Goal
  BY <1>4 DEF Restart, TypeOK
<1>5. CASE registry' = registry
  BY <1>5
<1> QED
  BY <1>1, <1>2, <1>3, <1>4, <1>5 DEF Next, Work, Admit, PeerGoes, Publish, Proceed, Relay, Hear,
     ListenerDies, Deliver, Turn, Push, vars

(* What a socket waits for is only replaced by the next thing to wait for.    *)
LEMMA WaitsOn ==
    ASSUME IInv, [Next]_vars, NEW t \in Task, NEW k \in Socket, pub[t[2]] # "new",
           Waits(t, k), <<ChannelOf(t[2]), k>> \in registry[t[1]],
           <<ChannelOf(t[2]), k>> \in registry'[t[1]]
    PROVE  Waits(t, k)'
<1> DEFINE i == t[1]
           m == t[2]
<1>0. TypeOK /\ Placed /\ OneWay /\ i \in Instance /\ m \in Message /\ t = <<i, m>>
  BY TaskParts DEF IInv, Task
<1> USE Parameters DEF Waits, InHand
<1>1. ASSUME NEW n \in Message, NEW j \in Instance, Publish(n, j)
      PROVE  Waits(t, k)'
  BY <1>0, <1>1 DEF Publish, Fresh, TypeOK, backplane
<1>2. ASSUME NEW n \in Message, Proceed(n)
      PROVE  Waits(t, k)'
  BY <1>0, <1>2 DEF Proceed, TypeOK, backplane, deliveries, history
<1>3. ASSUME NEW n \in Message, Relay(n)
      PROVE  Waits(t, k)'
  <2>1. PICK to \in {{}, ears} :
          /\ heard' = [j \in Instance |-> IF j \in to THEN heard[j] \cup {n} ELSE heard[j]]
          /\ deaf' = deaf \cup {<<j, n>> : j \in Instance \ (to \cup {origin[n]})}
    BY <1>3 DEF Relay
  <2>2. /\ pub[n] = "relaying" /\ pub' = [pub EXCEPT ![n] = "done"]
        /\ UNCHANGED <<origin, due, todo, now, got>>
    BY <1>3 DEF Relay, deliveries
  <2>3. heard[i] \subseteq heard'[i] /\ deaf \subseteq deaf'
    BY <1>0, <2>1
  <2>4. CASE n = m /\ origin[m] # i
    BY <1>0, <2>1, <2>2, <2>4
  <2>5. CASE ~(n = m /\ origin[m] # i)
    BY <1>0, <2>2, <2>3, <2>5 DEF TypeOK
  <2> QED
    BY <2>4, <2>5
<1>4. ASSUME NEW n \in Message, NEW j \in Instance, Hear(j, n)
      PROVE  Waits(t, k)'
  <2>1. /\ due \subseteq due' /\ UNCHANGED <<pub, origin, todo, now, got, deaf>>
        /\ m \in heard[i] /\ origin[m] # i => m \in heard'[i] \/ t \in due'
    BY <1>0, <1>4 DEF Hear, TypeOK, publications, history
  <2> QED
    BY <2>1
<1>5. ASSUME NEW j \in Instance, ListenerDies(j)
      PROVE  Waits(t, k)'
  <2>1. /\ deaf \subseteq deaf' /\ UNCHANGED <<pub, origin, due, todo, now, got>>
        /\ m \in heard[i] /\ origin[m] # i => m \in heard'[i] \/ t \in deaf'
    BY <1>0, <1>5 DEF ListenerDies, TypeOK, publications, deliveries
  <2> QED
    BY <2>1
<1>6. ASSUME NEW s \in Task, Deliver(s)
      PROVE  Waits(t, k)'
  <2>1. /\ todo[s] = {} /\ due' = due \ {s}
        /\ todo' = [todo EXCEPT ![s] = Listeners(s[1], ChannelOf(s[2]))]
        /\ UNCHANGED <<pub, origin, heard, now, got, deaf>>
    BY <1>6 DEF Deliver, backplane, publications, history
  <2>2. k \in Listeners(i, ChannelOf(m))
    BY DEF Listeners
  <2> QED
    BY <1>0, <2>1, <2>2 DEF TypeOK
<1>7. ASSUME NEW s \in Task, Turn(s)
      PROVE  Waits(t, k)'
  <2>1. PICK l \in todo[s] : now' = [now EXCEPT ![s] = l] /\ todo' = [todo EXCEPT ![s] = @ \ {l}]
    BY <1>7 DEF Turn
  <2>2. now[s] = Nobody /\ UNCHANGED <<pub, origin, heard, due, got, deaf>>
    BY <1>7 DEF Turn, backplane, publications, history
  <2> QED
    BY <1>0, <2>1, <2>2 DEF TypeOK
<1>8. ASSUME NEW s \in Task, Push(s)
      PROVE  Waits(t, k)'
  <2>1. /\ got' = [got EXCEPT ![s[2]][now[s]] = @ + 1] /\ now[s] \in Socket
        /\ now' = [now EXCEPT ![s] = Nobody]
        /\ UNCHANGED <<pub, origin, heard, due, todo, deaf>>
    BY <1>0, <1>8 DEF Push, TypeOK, backplane, publications
  <2>2. got'[m][k] >= got[m][k] /\ (t = s /\ now[s] = k => got'[m][k] > 0)
    BY <1>0, <2>1, TaskParts DEF TypeOK
  <2>3. got[m][k] \in Nat /\ got'[m][k] \in Nat
    BY <1>0, TypeStep DEF TypeOK
  <2>4. now[t] = k => now'[t] = k \/ t = s
    BY <1>0, <2>1 DEF TypeOK
  <2> QED
    BY <2>1, <2>2, <2>3, <2>4
<1>9. ASSUME NEW s \in Task, PushFails(s)
      PROVE  Waits(t, k)'
  <2>1. /\ registry' = [registry EXCEPT ![s[1]] = @ \ {<<ChannelOf(s[2]), now[s]>>}]
        /\ now' = [now EXCEPT ![s] = Nobody]
        /\ UNCHANGED <<pub, origin, heard, due, todo, got, deaf>>
    BY <1>9 DEF PushFails, backplane, publications, history
  <2>2. t # s \/ now[s] # k
    BY <1>0, <2>1 DEF TypeOK
  <2> QED
    BY <1>0, <2>1, <2>2 DEF TypeOK
<1>10. ASSUME NEW j \in Instance, Restart(j)
       PROVE  Waits(t, k)'
  <2>1. j # i
    BY <1>0, <1>10 DEF Restart, TypeOK
  <2>2. /\ UNCHANGED <<origin, got, deaf>> /\ todo'[t] = todo[t] /\ now'[t] = now[t]
        /\ heard'[i] = heard[i]
        /\ t \in due => t \in due'
        /\ pub'[m] \in {pub[m], "lost"}
    BY <1>0, <1>10, <2>1 DEF Restart, TypeOK, history
  <2> QED
    BY <2>2
<1>11. CASE UNCHANGED <<backplane, publications, deliveries, got, deaf>>
  BY <1>11 DEF backplane, publications, deliveries
<1> QED
  BY <1>1, <1>2, <1>3, <1>4, <1>5, <1>6, <1>7, <1>8, <1>9, <1>10, <1>11
     DEF Next, Work, Admit, Subscribe, Leave, PeerGoes, vars, history

LEMMA PublishedOnce ==
    ASSUME TypeOK, [Next]_vars, NEW m \in Message, pub[m] # "new"
    PROVE  pub'[m] # "new"
<1>1. ASSUME NEW n \in Message, NEW i \in Instance, Publish(n, i)
      PROVE  pub'[m] # "new"
  BY <1>1 DEF Publish, TypeOK
<1>2. ASSUME NEW n \in Message, Proceed(n) \/ Relay(n)
      PROVE  pub'[m] # "new"
  BY <1>2 DEF Proceed, Relay, TypeOK
<1>3. ASSUME NEW i \in Instance, Restart(i)
      PROVE  pub'[m] # "new"
  BY <1>3 DEF Restart
<1>4. CASE pub' = pub
  BY <1>4
<1> QED
  BY <1>1, <1>2, <1>3, <1>4 DEF Next, Work, Admit, Subscribe, Leave, PeerGoes, Hear, ListenerDies,
     Deliver, Turn, Push, PushFails, vars, publications

LEMMA ServedStep == IInv /\ [Next]_vars => Served'
<1> SUFFICES ASSUME IInv, [Next]_vars
             PROVE  Served'
  OBVIOUS
<1> USE Parameters, TaskParts
<1>0. TypeOK /\ TypeOK' /\ Placed /\ OneWay /\ Served
  BY TypeStep DEF IInv
<1>1. ASSUME NEW m \in Message, NEW k \in present[m]
      PROVE  /\ pub'[m] # "new" /\ phase'[k] \notin {"away", "admitted"}
             /\ \A t \in Task : t[2] = m /\ <<ChannelOf(m), k>> \in registry'[t[1]] => Waits(t, k)'
  <2>1. k \in Socket /\ pub[m] # "new" /\ phase[k] \notin {"away", "admitted"}
    BY <1>0, <1>1 DEF Served, TypeOK
  <2>2. pub'[m] # "new" /\ phase'[k] \notin {"away", "admitted"}
    BY <1>0, <2>1, AwayNoMore, PublishedOnce
  <2>3. ASSUME NEW t \in Task, t[2] = m, <<ChannelOf(m), k>> \in registry'[t[1]]
        PROVE  Waits(t, k)'
    <3>1. <<ChannelOf(m), k>> \in registry[t[1]]
      BY <1>0, <2>1, <2>3, RegisteredBefore
    <3>2. Waits(t, k)
      BY <1>0, <1>1, <2>3, <3>1 DEF Served
    <3> QED
      BY <1>0, <2>1, <2>3, <3>1, <3>2, WaitsOn
  <2> QED
    BY <2>2, <2>3
<1>2. ASSUME NEW m \in Message, NEW k \in present'[m], k \notin present[m]
      PROVE  /\ pub'[m] # "new" /\ phase'[k] \notin {"away", "admitted"}
             /\ \A t \in Task : t[2] = m /\ <<ChannelOf(m), k>> \in registry'[t[1]] => Waits(t, k)'
  <2>1. PICK n \in Message, j \in Instance : Publish(n, j)
    BY <1>2 DEF Next, Work, Admit, Subscribe, Leave, PeerGoes, Proceed, Relay, Hear,
       ListenerDies, Deliver, Turn, Push, PushFails, Restart, vars, history
  <2>2. /\ n = m /\ k \in UNION {Listeners(i, ChannelOf(n)) : i \in Instance}
        /\ pub' = [pub EXCEPT ![n] = "delivering"] /\ origin' = [origin EXCEPT ![n] = j]
        /\ due' = due \cup {<<j, n>>} /\ phase' = phase /\ registry' = registry
    BY <1>0, <1>2, <2>1 DEF Publish, TypeOK, connections
  <2>3. phase[k] = "open"
    BY <1>0, <2>2 DEF Listeners, Placed
  <2>4. ASSUME NEW t \in Task, t[2] = m
        PROVE  Waits(t, k)'
    BY <1>0, <2>2, <2>4 DEF Waits, Task, TypeOK
  <2> QED
    BY <1>0, <2>2, <2>3, <2>4 DEF TypeOK
<1> QED
  BY <1>1, <1>2 DEF Served

-----------------------------------------------------------------------------
(* The properties. *)

LEMMA InvariantInit == Init => IInv
BY TypeInit, Parameters DEF Init, IInv, Placed, Logged, OneWay, Untouched, GotOnce, Served, InHand, Task

LEMMA InvariantStep == IInv /\ [Next]_vars => IInv'
BY TypeStep, PlacedStep, LoggedStep, OneWayStep, UntouchedStep, GotOnceStep, ServedStep DEF IInv

LEMMA Invariant == Spec => []IInv
BY InvariantInit, InvariantStep, PTL DEF Spec

(* A row is pushed to a socket once at most, although its instance delivers   *)
(* it directly and hears it again over the backplane (publish,                *)
(* _handle_backplane_message).                                                *)
THEOREM RowIsPushedOnce == Spec => []PushedOnce
<1>1. IInv => PushedOnce
  BY DEF IInv, TypeOK, GotOnce, PushedOnce
<1> QED
  BY <1>1, Invariant, PTL

(* When a row has been published and all is delivered, each socket that was   *)
(* registered before and is still has it, but for the instances the backplane *)
(* did not reach (local_deliver).                                             *)
THEOREM RowReachesAll == Spec => []EverybodyTold
<1>1. IInv => EverybodyTold
  <2> SUFFICES ASSUME IInv, NEW m \in Message, NEW k \in Socket,
                      pub[m] = "done", k \in present[m], <<ChannelOf(m), k>> \in registry[at[k]],
                      Idle(<<at[k], m>>), m \notin heard[at[k]]
               PROVE  got[m][k] > 0 \/ <<at[k], m>> \in deaf
    BY DEF EverybodyTold
  <2>1. at[k] \in Instance
    <3>1. phase[k] # "away"
      BY DEF IInv, Served
    <3> QED
      BY <3>1 DEF IInv, Placed, TypeOK
  <2>2. Waits(<<at[k], m>>, k)
    BY <2>1, TaskParts DEF IInv, Served
  <2> QED
    BY <2>1, <2>2, Parameters DEF Waits, Idle, InHand, IInv, TypeOK
<1> QED
  BY <1>1, Invariant, PTL

(* A handler that has ended leaves its socket in no channel of any instance,  *)
(* and its row of the log closed, if the log could be written                 *)
(* (handle_connection, unsubscribe_all).                                      *)
THEOREM HandlersLeaveNothing == Spec => []NothingLeft
<1>1. IInv => NothingLeft
  BY DEF IInv, Placed, Logged, NothingLeft, Over
<1> QED
  BY <1>1, Invariant, PTL

-----------------------------------------------------------------------------
(* Upserts.  Of two requests about one row each writes what differs from     *)
(* what it has read.  A request that is alone with its row has read what is   *)
(* there, so the row becomes what it asked for.                              *)

Form == [phase : {"insert", "update"}, on : Key, body : U!Body, read : U!Row \cup {Absent}]

SavesTyped ==
    /\ saved \in [Key -> U!Row \cup {Absent}] /\ last \in [Key -> U!Row \cup {Absent}]
    /\ \A k \in Key : saved[k] \in U!Row <=> last[k] \in U!Row
    /\ form \in [Handler -> Form \cup {U!Free}]
    /\ \A h \in Handler :
        /\ form[h].phase = "update" => form[h].read \in U!Row /\ saved[form[h].on] \in U!Row
        /\ form[h].phase = "insert" /\ kind # "preferences" => form[h].body \in U!WholeBody

(* Whoever is alone with a row knows it: there is none, or it is what was read. *)
Alone(h) ==
    form[h] # U!Free /\ form[h].on \notin mixed =>
        /\ \A g \in Handler : form[g] # U!Free /\ form[g].on = form[h].on => g = h
        /\ form[h].phase = "insert" => saved[form[h].on] = Absent
        /\ form[h].phase = "update" => form[h].read = saved[form[h].on]
AloneKnows == \A h \in Handler : Alone(h)

LastSaved == \A k \in Key \ mixed : saved[k] = last[k] /\ k \notin failed

SavesIInv == SavesTyped /\ AloneKnows /\ LastSaved

LEMMA ColumnsRow == U!Fresh \in U!Row /\ U!WholeBody \subseteq U!Body
BY DEF U!Fresh, U!Row, U!WholeBody

LEMMA FormIsNotFree == \A f \in Form : f # U!Free /\ f.phase # "free"
BY DEF Form, U!Free

LEMMA FreePhase == U!Free.phase = "free"
BY DEF U!Free

LEMMA SavesInit == U!Init => SavesIInv
BY FreePhase DEF U!Init, SavesIInv, SavesTyped, AloneKnows, Alone, LastSaved

(* Every request begins with Find. *)
LEMMA Begins ==
    ASSUME SavesTyped, NEW h \in Handler, NEW k \in Key, NEW who,
           \/ U!PutDestination(h, who, k) \/ U!PutDetails(h, who, k) \/ U!Preferences(h, who)
           \/ U!PostSearch(h, who, k) \/ U!PatchSearch(h, who, k)
    PROVE  \E j \in Key, body \in U!Body :
              /\ U!Find(h, j, body)
              /\ kind # "preferences" /\ saved[j] = Absent => body \in U!WholeBody
BY ColumnsRow DEF U!PutDestination, U!PutDetails, U!Preferences, U!PostSearch, U!PatchSearch, U!PatchPreferences,
   U!GetPreferences, U!DestinationUpsert, U!DetailInput, U!PreferenceUpdate, U!SavedSearchCreate, U!SavedSearchUpdate,
   U!Owned, U!Body

LEMMA FindStep ==
    ASSUME SavesIInv, NEW h \in Handler, NEW k \in Key, NEW body \in U!Body, U!Find(h, k, body),
           kind # "preferences" /\ saved[k] = Absent => body \in U!WholeBody
    PROVE  SavesIInv'
<1> DEFINE f == [phase |-> IF saved[k] = Absent THEN "insert" ELSE "update",
                 on |-> k, body |-> body, read |-> saved[k]]
<1>1. /\ form[h] = U!Free /\ form' = [form EXCEPT ![h] = f]
      /\ mixed' = IF U!On(k) = {} THEN mixed ELSE mixed \cup {k}
      /\ UNCHANGED <<kind, saved, gone, last, failed>>
  BY DEF U!Find
<1>2. f \in Form /\ f # U!Free
  BY FormIsNotFree DEF Form, SavesIInv, SavesTyped
<1>3. /\ U!Row' = U!Row /\ U!Body' = U!Body /\ U!WholeBody' = U!WholeBody /\ Form' = Form
  BY <1>1 DEF U!Row, U!Body, U!WholeBody, Form, U!Column, U!Columns
<1>4. SavesTyped'
  BY <1>1, <1>2, <1>3, FreePhase DEF SavesIInv, SavesTyped
<1>5. \A g \in Handler : form'[g] = IF g = h THEN f ELSE form[g]
  BY <1>1 DEF SavesIInv, SavesTyped
<1>6. k \notin mixed' => k \notin mixed /\ \A g \in Handler : form[g] # U!Free => form[g].on # k
  BY <1>1 DEF U!On
<1>7. AloneKnows'
  <2> SUFFICES ASSUME NEW g \in Handler, form'[g] # U!Free, form'[g].on \notin mixed'
               PROVE  Alone(g)'
    BY DEF AloneKnows, Alone
  <2>1. CASE g = h
    BY <1>1, <1>5, <1>6, <2>1 DEF Alone
  <2>2. CASE g # h
    <3>1. form'[g] = form[g] /\ form[g].on \notin mixed /\ Alone(g)
      BY <1>1, <1>5, <2>2 DEF SavesIInv, AloneKnows
    <3>2. form[g].on # k
      BY <1>1, <1>6, <2>2, <3>1
    <3> QED
      BY <1>1, <1>5, <3>1, <3>2 DEF Alone
  <2> QED
    BY <2>1, <2>2
<1>8. LastSaved'
  BY <1>1 DEF SavesIInv, LastSaved
<1> QED
  BY <1>4, <1>7, <1>8 DEF SavesIInv

(* A request that ends leaves those about other rows alone. *)
LEMMA EndOfForm ==
    ASSUME SavesIInv, NEW h \in Handler, form[h] # U!Free,
           form' = [form EXCEPT ![h] = U!Free], UNCHANGED <<kind, mixed>>,
           \A k \in Key \ {form[h].on} : saved'[k] = saved[k]
    PROVE  AloneKnows'
<1>1. \A g \in Handler : form'[g] = IF g = h THEN U!Free ELSE form[g]
  BY DEF SavesIInv, SavesTyped
<1> SUFFICES ASSUME NEW g \in Handler, form'[g] # U!Free, form'[g].on \notin mixed'
             PROVE  Alone(g)'
  BY DEF AloneKnows, Alone
<1>2. g # h /\ form'[g] = form[g] /\ form[g].on \notin mixed /\ form[g].on \in Key /\ Alone(g)
  BY <1>1 DEF SavesIInv, SavesTyped, AloneKnows, Form
<1>3. form[h].on # form[g].on
  BY <1>2 DEF Alone
<1> QED
  BY <1>1, <1>2, <1>3 DEF Alone

LEMMA FailStep ==
    ASSUME SavesIInv, NEW h \in Handler, form[h] # U!Free, NEW valid, U!Fail(h, valid),
           valid => form[h].on \in mixed
    PROVE  SavesIInv'
<1>1. /\ form' = [form EXCEPT ![h] = U!Free]
      /\ failed' = failed \/ (form[h].on \in mixed /\ failed' = failed \cup {form[h].on})
      /\ UNCHANGED <<kind, saved, gone, last, mixed>>
  BY DEF U!Fail
<1>2. /\ U!Row' = U!Row /\ U!Body' = U!Body /\ U!WholeBody' = U!WholeBody /\ Form' = Form
  BY <1>1 DEF U!Row, U!Body, U!WholeBody, Form, U!Column, U!Columns
<1>3. SavesTyped'
  BY <1>1, <1>2, FreePhase DEF SavesIInv, SavesTyped, U!Free
<1>4. AloneKnows'
  BY <1>1, EndOfForm
<1>5. LastSaved'
  BY <1>1 DEF SavesIInv, LastSaved
<1> QED
  BY <1>3, <1>4, <1>5 DEF SavesIInv

(* What a request that is alone with its row asks for is what the last save    *)
(* should have left.                                                          *)
LEMMA WantedIsAsked ==
    ASSUME SavesIInv, NEW h \in Handler, form[h] # U!Free
    PROVE  LET f == form[h] IN
           /\ f.phase = "update" => U!Wanted(f) \in U!Row /\ U!Merged(f) \in U!Row /\ U!Asked(f) \in U!Row
           /\ f.phase = "update" /\ f.on \notin mixed => U!Merged(f) = U!Wanted(f) /\ U!Wanted(f) = U!Asked(f)
           /\ f.phase = "insert" /\ kind # "preferences" => U!Wanted(f) \in U!Row /\ U!Wanted(f) = U!Asked(f)
<1> DEFINE f == form[h]
<1>1. /\ f \in Form /\ f.on \in Key /\ f.body \in U!Body /\ f.phase \in {"insert", "update"}
      /\ f.phase = "update" => f.read \in U!Row
      /\ f.phase = "insert" /\ kind # "preferences" => f.body \in U!WholeBody
  BY DEF SavesIInv, SavesTyped, Form
<1>2. f.on \notin mixed => /\ saved[f.on] = last[f.on]
                           /\ f.phase = "update" => f.read = saved[f.on]
  BY <1>1 DEF SavesIInv, LastSaved, AloneKnows, Alone, SavesTyped
<1>3. CASE f.phase = "update"
  <2>1. f.read \in U!Row /\ saved[f.on] \in U!Row
    BY <1>1, <1>3 DEF SavesIInv, SavesTyped
  <2>2. U!Wanted(f) \in U!Row /\ U!Merged(f) \in U!Row /\ U!Asked(f) \in U!Row
    <3>1. last[f.on] \in U!Row
      BY <1>1, <2>1 DEF SavesIInv, SavesTyped
    <3> QED
      BY <1>1, <2>1, <3>1 DEF U!Wanted, U!Merged, U!Asked, U!Row, U!Body
  <2>3. ASSUME f.on \notin mixed PROVE U!Merged(f) = U!Wanted(f) /\ U!Wanted(f) = U!Asked(f)
    BY <1>1, <1>2, <1>3, <2>1, <2>3 DEF U!Wanted, U!Asked, U!Merged, U!Row
  <2> QED
    BY <1>3, <2>2, <2>3
<1>4. CASE f.phase = "insert" /\ kind # "preferences"
  <2>1. \A c \in U!Column : f.body[c] # "unset" \/ ~U!Partial
    BY <1>1, <1>4 DEF U!WholeBody, U!Body, U!Partial, U!Column, U!Columns, U!SearchColumns
  <2>2. U!Wanted(f) = U!Asked(f)
    BY <2>1 DEF U!Wanted, U!Asked
  <2>3. U!Wanted(f) \in U!Row
    BY <1>1, <2>1 DEF U!Wanted, U!Row, U!Body
  <2> QED
    BY <1>4, <2>2, <2>3
<1> QED
  BY <1>1, <1>3, <1>4

(* A row is saved, and the request is over or goes on with what it saved. *)
LEMMA SaveStep ==
    ASSUME SavesIInv, NEW h \in Handler, form[h] # U!Free,
           NEW r \in U!Row, NEW a \in U!Row, form[h].on \notin mixed => r = a,
           U!Save(form[h].on, r), last' = [last EXCEPT ![form[h].on] = a],
           \/ form' = [form EXCEPT ![h] = U!Free]
           \/ form' = [form EXCEPT ![h].phase = "update", ![h].read = r]
    PROVE  SavesIInv'
<1>1. /\ form[h].on \in Key /\ form[h] \in Form
      /\ saved' = [saved EXCEPT ![form[h].on] = r] /\ UNCHANGED <<kind, gone, mixed, failed>>
  BY DEF U!Save, SavesIInv, SavesTyped, Form
<1>2. /\ U!Row' = U!Row /\ U!Body' = U!Body /\ U!WholeBody' = U!WholeBody /\ Form' = Form
  BY <1>1 DEF U!Row, U!Body, U!WholeBody, Form, U!Column, U!Columns
<1>3. LastSaved'
  BY <1>1 DEF SavesIInv, SavesTyped, LastSaved
<1>4. CASE form' = [form EXCEPT ![h] = U!Free]
  <2>1. SavesTyped'
    BY <1>1, <1>2, <1>4, FreePhase DEF SavesIInv, SavesTyped
  <2>2. AloneKnows'
    BY <1>1, <1>4, EndOfForm DEF SavesIInv, SavesTyped
  <2> QED
    BY <1>3, <2>1, <2>2 DEF SavesIInv
<1>5. CASE form' = [form EXCEPT ![h].phase = "update", ![h].read = r]
  <2> DEFINE f == [form[h] EXCEPT !.phase = "update", !.read = r]
  <2>1. f \in Form /\ f.on = form[h].on /\ f.phase = "update" /\ f.read = r /\ f # U!Free
    BY <1>1, FormIsNotFree DEF Form
  <2>2. form' = [form EXCEPT ![h] = f]
    BY <1>5
  <2>3. \A g \in Handler : form'[g] = IF g = h THEN f ELSE form[g]
    BY <2>2 DEF SavesIInv, SavesTyped
  <2> HIDE DEF f
  <2>4. SavesTyped'
    BY <1>1, <1>2, <2>1, <2>2, FreePhase DEF SavesIInv, SavesTyped
  <2>5. AloneKnows'
    <3> SUFFICES ASSUME NEW g \in Handler, form'[g] # U!Free, form'[g].on \notin mixed'
                 PROVE  Alone(g)'
      BY DEF AloneKnows, Alone
    <3>1. CASE g = h
      <4>1. Alone(h)
        BY DEF SavesIInv, AloneKnows
      <4> QED
        BY <1>1, <2>1, <2>3, <3>1, <4>1 DEF Alone, SavesIInv, SavesTyped
    <3>2. CASE g # h
      <4>1. form'[g] = form[g] /\ Alone(g)
        BY <2>3, <3>2 DEF SavesIInv, AloneKnows
      <4> QED
        BY <1>1, <2>1, <2>3, <3>2, <4>1 DEF Alone, SavesIInv, SavesTyped
    <3> QED
      BY <3>1, <3>2
  <2> QED
    BY <1>3, <2>4, <2>5 DEF SavesIInv
<1> QED
  BY <1>4, <1>5

LEMMA SavesStep == SavesIInv /\ [U!Next]_U!vars => SavesIInv'
<1> SUFFICES ASSUME SavesIInv, [U!Next]_U!vars PROVE SavesIInv'
  OBVIOUS
<1>0. \A h \in Handler : form[h].phase # "free" => form[h] # U!Free /\ form[h] \in Form
  BY FreePhase DEF SavesIInv, SavesTyped
<1>1. ASSUME NEW h \in Handler, NEW who \in Key \cup Clerk \cup {Visitor}, NEW k \in Key,
             \/ U!PutDestination(h, who, k) \/ U!PutDetails(h, who, k) \/ U!Preferences(h, who)
             \/ U!PostSearch(h, who, k) \/ U!PatchSearch(h, who, k)
      PROVE  SavesIInv'
  BY <1>1, Begins, FindStep DEF SavesIInv
<1>7. ASSUME NEW h \in Handler, NEW who, U!Preferences(h, who) PROVE SavesIInv'
  BY <1>1, <1>7, Begins, FindStep DEF SavesIInv, U!Preferences, U!GetPreferences, U!PatchPreferences
<1>2. ASSUME NEW h \in Handler, U!Insert(h) PROVE SavesIInv'
  <2> DEFINE f == form[h]
  <2>1. f # U!Free /\ f.phase = "insert" /\ kind # "preferences" /\ f.on \in Key
    BY <1>0, <1>2 DEF U!Insert, Form
  <2>2. U!Wanted(f) \in U!Row /\ U!Wanted(f) = U!Asked(f)
    BY <2>1, WantedIsAsked
  <2>3. CASE saved[f.on] = Absent /\ U!Ok(U!Wanted(f))
    BY <1>2, <2>1, <2>2, <2>3, SaveStep DEF U!Insert
  <2>4. CASE ~(saved[f.on] = Absent /\ U!Ok(U!Wanted(f)))
    <3>1. U!Fail(h, U!Ok(U!Wanted(f)))
      BY <1>2, <2>4 DEF U!Insert
    <3>2. U!Ok(U!Wanted(f)) => f.on \in mixed
      BY <2>1, <2>4 DEF SavesIInv, AloneKnows, Alone
    <3> QED
      BY <2>1, <3>1, <3>2, FailStep
  <2> QED
    BY <2>3, <2>4
<1>3. ASSUME NEW h \in Handler, U!Create(h) PROVE SavesIInv'
  <2>1. form[h] # U!Free /\ form[h].phase = "insert" /\ form[h].on \in Key
    BY <1>0, <1>3 DEF U!Create, Form
  <2>2. CASE saved[form[h].on] = Absent
    BY <1>3, <2>1, <2>2, SaveStep, ColumnsRow DEF U!Create
  <2>3. CASE saved[form[h].on] # Absent
    <3>1. U!Fail(h, TRUE)
      BY <1>3, <2>3 DEF U!Create
    <3>2. form[h].on \in mixed
      BY <2>1, <2>3 DEF SavesIInv, AloneKnows, Alone
    <3> QED
      BY <2>1, <3>1, <3>2, FailStep
  <2> QED
    BY <2>2, <2>3
<1>4. ASSUME NEW h \in Handler, U!Update(h) PROVE SavesIInv'
  <2> DEFINE f == form[h]
  <2>1. f # U!Free /\ f.phase = "update" /\ f.on \in Key
    BY <1>0, <1>4 DEF U!Update, Form
  <2>2. /\ U!Merged(f) \in U!Row /\ U!Asked(f) \in U!Row
        /\ f.on \notin mixed => U!Merged(f) = U!Wanted(f) /\ U!Wanted(f) = U!Asked(f)
    BY <2>1, WantedIsAsked
  <2>3. CASE U!Ok(U!Merged(f))
    BY <1>4, <2>1, <2>2, <2>3, SaveStep DEF U!Update
  <2>4. CASE ~U!Ok(U!Merged(f))
    BY <1>4, <2>1, <2>2, <2>4, FailStep DEF U!Update
  <2> QED
    BY <2>3, <2>4
<1>5. ASSUME NEW h \in Handler, U!Break(h) PROVE SavesIInv'
  BY <1>5, FailStep DEF U!Break
<1>6. ASSUME \/ \E k \in Key : U!Withdraw(k)
             \/ \E who \in Key \cup Clerk \cup {Visitor}, k \in Key : U!DeleteSearch(who, k)
             \/ UNCHANGED U!vars
      PROVE  SavesIInv'
  <2>1. UNCHANGED <<kind, saved, form, last, mixed, failed>>
    BY <1>6 DEF U!Withdraw, U!DeleteSearch, U!vars
  <2>2. /\ U!Row' = U!Row /\ U!Body' = U!Body /\ U!WholeBody' = U!WholeBody /\ Form' = Form
    BY <2>1 DEF U!Row, U!Body, U!WholeBody, Form, U!Column, U!Columns
  <2> QED
    BY <2>1, <2>2 DEF SavesIInv, SavesTyped, AloneKnows, Alone, LastSaved
<1> QED
  BY <1>1, <1>2, <1>3, <1>4, <1>5, <1>6, <1>7 DEF U!Next, U!Searches

(* For any number of keys, accounts and requests: a row is what its last save  *)
(* asked for, and no valid save is refused, unless requests about it           *)
(* overlapped.                                                                *)
THEOREM SavesAlwaysStand == U!Spec => []SavesStand
<1>1. SavesIInv => SavesStand
  BY DEF SavesIInv, LastSaved, SavesStand, U!SavesStand, U!Listing, U!Standing, U!Shown
<1> QED
  BY <1>1, SavesInit, SavesStep, PTL DEF U!Spec

-----------------------------------------------------------------------------
(* Desk.  A handler that is alone with a row knows it: what it has read,      *)
(* committed or read again is what the row and its trail say.                *)

DeskRow == [state : {"unborn", "live", "gone"}, owner : D!Person,
            status : D!Status \cup {"none"}, by : Clerk \cup {Visitor}]
Handling == [phase : {"idle", "read", "committed", "refreshed"}, staff : Clerk \cup {Visitor}, on : Nat,
             wants : D!Status \cup {"none"}, status : D!Status \cup {"none"}, by : Clerk \cup {Visitor}]
Told == [status : D!Status \cup {"none"}, by : Clerk \cup {Visitor}]

DeskTyped ==
    /\ table \in Table
    /\ row \in [D!Id -> DeskRow]
    /\ desk \in [Handler -> Handling]
    /\ \A h \in Handler : ~D!At(h, "idle") => desk[h].on \in D!Id
    /\ trail \in [D!Id -> Told]

(* Ids are given one after the other. *)
Numbered == \E n \in 0..MaxId : \A r \in D!Id : row[r].state = "unborn" <=> r > n

(* Only what exists is handled and audited. *)
Existing ==
    /\ \A h \in Handler : ~D!At(h, "idle") => /\ table \in {"reviews", "leads"}
                                              /\ row[desk[h].on].state # "unborn"
    /\ \A r \in D!Id : trail[r] # D!NoTrail => /\ table \in {"reviews", "leads"}
                                               /\ row[r].state # "unborn"

Tells(r) ==
    trail[r] # D!NoTrail => /\ trail[r].status = row[r].status
                            /\ table = "reviews" => trail[r].by = row[r].by

(* What a handler alone with its row knows of it. *)
AloneWith(h) ==
    LET r == desk[h].on IN
    /\ \A g \in Handler : ~D!At(g, "idle") /\ desk[g].on = r => g = h
    /\ D!At(h, "read") => desk[h].status = row[r].status /\ desk[h].by = row[r].by /\ Tells(r)
    /\ D!At(h, "committed") /\ table = "reviews" => row[r].by = desk[h].staff
    /\ D!At(h, "refreshed") => /\ desk[h].status = row[r].status
                               /\ table = "reviews" => row[r].by = desk[h].staff

Undisturbed ==
    /\ \A h \in Handler : ~D!At(h, "idle") /\ desk[h].on \notin disturbed => AloneWith(h)
    /\ \A r \in D!Id \ disturbed :
          (\A h \in Handler : ~D!At(h, "idle") => desk[h].on # r) => Tells(r)

DeskIInv == DeskTyped /\ Numbered /\ Existing /\ Undisturbed

LEMMA StatusesTyped == table \in Table => D!Initial \in D!Status
BY ListParameters DEF D!Initial, D!Status, D!Statuses, D!RequestStatuses, D!ReviewStatuses, D!LeadStatuses,
   D!EmailStatuses, D!SocketStatuses, D!Range

LEMMA Dummies ==
    /\ D!Idle \in Handling /\ D!Idle.phase = "idle"
    /\ D!Unborn \in DeskRow /\ D!NoTrail \in Told
BY ListParameters DEF D!Idle, Handling, D!Unborn, DeskRow, D!NoTrail, Told, D!Id, D!Person

LEMMA DeskInit == D!Init => DeskIInv
<1> SUFFICES ASSUME D!Init PROVE DeskIInv
  OBVIOUS
<1>1. \A r \in D!Id : row[r].state = "unborn" /\ trail[r] = D!NoTrail
  BY DEF D!Init, D!Unborn
<1>2. Numbered
  <2>1. 0 \in 0..MaxId /\ \A r \in D!Id : r > 0
    BY ListParameters DEF D!Id
  <2> QED
    BY <1>1, <2>1 DEF Numbered
<1>3. \A h \in Handler : desk[h].phase = "idle"
  BY DEF D!Init, D!Idle
<1> QED
  BY <1>1, <1>2, <1>3, Dummies DEF D!Init, DeskIInv, DeskTyped, Existing, Undisturbed, D!At, Tells

LEMMA TypesStay ==
    UNCHANGED table => /\ D!Status' = D!Status /\ DeskRow' = DeskRow /\ Handling' = Handling /\ Told' = Told
BY DEF D!Status, DeskRow, Handling, Told

LEMMA NextIdIsNew ==
    ASSUME DeskTyped, NEW n \in 0..MaxId, \A r \in D!Id : row[r].state = "unborn" <=> r > n
    PROVE  D!NextId = n + 1
<1> DEFINE S == {r \in D!Id : row[r].state # "unborn"}
<1>1. S = 1..n
  BY ListParameters DEF D!Id
<1>2. Cardinality(1..n) = n
  BY FS_Interval
<1>3. D!Cardinality(S) = Cardinality(S)
  BY DEF D!Cardinality, Cardinality
<1> QED
  BY <1>1, <1>2, <1>3 DEF D!NextId

(* Nobody handles a row that is being created, and no audit row is about it. *)
LEMMA BornIsNew ==
    ASSUME DeskIInv, NEW owner \in D!Person, NEW status \in D!Status, D!Born(owner, status)
    PROVE  LET r == D!NextId IN
           /\ r \in D!Id /\ row[r].state = "unborn" /\ UNCHANGED table
           /\ row' \in [D!Id -> DeskRow] /\ row'[r].state = "live" /\ row'[r].status = status
           /\ \A q \in D!Id \ {r} : row'[q] = row[q]
           /\ Numbered'
<1>1. PICK n \in 0..MaxId : \A r \in D!Id : row[r].state = "unborn" <=> r > n
  BY DEF DeskIInv, Numbered
<1>2. D!NextId = n + 1
  BY <1>1, NextIdIsNew DEF DeskIInv
<1> DEFINE new == [D!Unborn EXCEPT !.state = "live", !.owner = owner, !.status = status]
<1>3. D!NextId \in D!Id /\ row' = [row EXCEPT ![D!NextId] = new] /\ UNCHANGED table
  BY DEF D!Born, D!Change
<1>4. new \in DeskRow /\ new.state = "live" /\ new.status = status
  BY DEF D!Unborn, DeskRow
<1>5. row' \in [D!Id -> DeskRow] /\ row'[D!NextId] = new /\ \A q \in D!Id \ {D!NextId} : row'[q] = row[q]
  BY <1>3, <1>4 DEF DeskIInv, DeskTyped
<1>6. Numbered'
  <2>1. n + 1 \in 0..MaxId
    BY <1>2, <1>3 DEF D!Id
  <2>2. \A r \in D!Id : row'[r].state = "unborn" <=> r > n + 1
    <3> TAKE r \in D!Id
    <3>1. r \in Nat /\ n \in Nat
      BY ListParameters DEF D!Id
    <3>2. CASE r = n + 1
      <4>1. row'[r].state = "live"
        BY <1>2, <1>4, <1>5, <3>2
      <4> QED
        BY <3>1, <3>2, <4>1
    <3>3. CASE r # n + 1
      BY <1>1, <1>2, <1>5, <3>1, <3>3
    <3> QED
      BY <3>2, <3>3
  <2> QED
    BY <2>1, <2>2 DEF Numbered, D!Id
<1> QED
  BY <1>1, <1>2, <1>3, <1>4, <1>5, <1>6

LEMMA BirthStep ==
    ASSUME DeskIInv, NEW owner \in D!Person, NEW status \in D!Status, D!Born(owner, status),
           UNCHANGED <<desk, trail, disturbed>>
    PROVE  DeskIInv'
<1> DEFINE n == D!NextId
<1>1. /\ n \in D!Id /\ row[n].state = "unborn" /\ UNCHANGED table
      /\ row' \in [D!Id -> DeskRow] /\ row'[n].state = "live" /\ Numbered'
      /\ \A q \in D!Id \ {n} : row'[q] = row[q]
  BY BornIsNew
<1> HIDE DEF n
<1>2. DeskTyped'
  BY <1>1, TypesStay DEF DeskIInv, DeskTyped, D!At
<1>3. Existing'
  BY <1>1 DEF DeskIInv, DeskTyped, Existing, D!At
<1>4. /\ \A h \in Handler : ~D!At(h, "idle") => desk[h].on \in D!Id /\ desk[h].on # n /\ row'[desk[h].on] = row[desk[h].on]
      /\ trail[n] = D!NoTrail
  BY <1>1 DEF DeskIInv, DeskTyped, Existing
<1>5. \A r \in D!Id : Tells(r) => Tells(r)'
  BY <1>1, <1>4 DEF Tells
<1>6. Undisturbed'
  <2>1. ASSUME NEW h \in Handler, D!At(h, "idle")' = FALSE, desk[h].on \notin disturbed
        PROVE  AloneWith(h)'
    <3>1. AloneWith(h) /\ ~D!At(h, "idle")
      BY <2>1 DEF DeskIInv, Undisturbed, D!At
    <3> QED
      BY <1>1, <1>4, <1>5, <3>1 DEF AloneWith, D!At
  <2>2. \A r \in D!Id \ disturbed :
          (\A h \in Handler : ~D!At(h, "idle") => desk[h].on # r) => Tells(r)'
    BY <1>5 DEF DeskIInv, Undisturbed
  <2> QED
    BY <2>1, <2>2 DEF Undisturbed, D!At
<1> QED
  BY <1>1, <1>2, <1>3, <1>6 DEF DeskIInv

(* The creation of a lead, which owes an audit row from the start. *)
LEMMA LeadStep ==
    ASSUME DeskIInv, NEW h \in Handler, D!CreateLead(h)
    PROVE  DeskIInv'
<1> DEFINE n == D!NextId
           new == [D!Idle EXCEPT !.phase = "refreshed", !.on = n, !.status = D!Initial]
<1>0. Visitor \in D!Person /\ D!Initial \in D!Status /\ table = "leads"
  BY StatusesTyped DEF D!Person, DeskIInv, DeskTyped, D!CreateLead
<1>1. /\ n \in D!Id /\ row[n].state = "unborn" /\ UNCHANGED table
      /\ row' \in [D!Id -> DeskRow] /\ row'[n].state = "live" /\ row'[n].status = D!Initial /\ Numbered'
      /\ \A q \in D!Id \ {n} : row'[q] = row[q]
  BY <1>0, BornIsNew DEF D!CreateLead
<1>2. /\ desk' = [desk EXCEPT ![h] = new] /\ UNCHANGED <<trail, disturbed>>
      /\ D!At(h, "idle")
  BY Dummies DEF D!CreateLead, D!At
<1> HIDE DEF n
<1>3. new \in Handling /\ new.phase = "refreshed" /\ new.on = n /\ new.status = D!Initial
  <2>1. n \in Nat
    BY <1>1 DEF D!Id
  <2> QED
    BY <1>0, <2>1 DEF D!Idle, Handling
<1> HIDE DEF new
<1>4. /\ desk' \in [Handler -> Handling] /\ desk'[h] = new
      /\ \A g \in Handler \ {h} : desk'[g] = desk[g]
  BY <1>2, <1>3 DEF DeskIInv, DeskTyped
<1>5. DeskTyped'
  BY <1>1, <1>2, <1>3, <1>4, TypesStay DEF DeskIInv, DeskTyped, D!At
<1>6. Existing'
  BY <1>0, <1>1, <1>2, <1>3, <1>4 DEF DeskIInv, DeskTyped, Existing, D!At
<1>7. /\ \A g \in Handler : ~D!At(g, "idle") => desk[g].on \in D!Id /\ desk[g].on # n /\ row'[desk[g].on] = row[desk[g].on]
      /\ trail[n] = D!NoTrail
  BY <1>1 DEF DeskIInv, DeskTyped, Existing
<1>8. \A r \in D!Id : Tells(r) => Tells(r)'
  BY <1>1, <1>2, <1>7 DEF Tells
<1>9. Undisturbed'
  <2>1. ASSUME NEW g \in Handler, D!At(g, "idle")' = FALSE, desk'[g].on \notin disturbed'
        PROVE  AloneWith(g)'
    <3>1. CASE g = h
      BY <1>0, <1>1, <1>2, <1>3, <1>4, <1>7, <3>1 DEF AloneWith, D!At
    <3>2. CASE g # h
      <4>1. desk'[g] = desk[g] /\ AloneWith(g) /\ ~D!At(g, "idle")
        BY <1>2, <1>4, <2>1, <3>2 DEF DeskIInv, Undisturbed, D!At
      <4> QED
        BY <1>1, <1>2, <1>3, <1>4, <1>7, <1>8, <4>1 DEF AloneWith, D!At
    <3> QED
      BY <3>1, <3>2
  <2>2. \A r \in D!Id \ disturbed' :
          (\A g \in Handler : ~D!At(g, "idle")' => desk'[g].on # r) => Tells(r)'
    <3> TAKE r \in D!Id \ disturbed'
    <3> SUFFICES ASSUME \A g \in Handler : ~D!At(g, "idle")' => desk'[g].on # r
                 PROVE  Tells(r)'
      OBVIOUS
    <3>1. \A g \in Handler : ~D!At(g, "idle") => desk[g].on # r
      BY <1>2, <1>4 DEF D!At
    <3> QED
      BY <1>2, <1>8, <3>1 DEF DeskIInv, Undisturbed
  <2> QED
    BY <2>1, <2>2 DEF Undisturbed, D!At
<1> QED
  BY <1>1, <1>5, <1>6, <1>9 DEF DeskIInv

(* A request, a notification or a log row goes on: no handler is about these. *)
LEMMA ProgressStep ==
    ASSUME DeskIInv, NEW r \in D!Id, D!Progress(r)
    PROVE  DeskIInv'
<1>1. table \notin {"reviews", "leads"}
  BY DEF D!Progress, D!May, D!Routes, D!ReviewRoutes, D!ModerationRoutes, D!LeadRoutes, D!LeadDeskRoutes
<1>2. PICK s \in D!Status : row' = [row EXCEPT ![r] = [row[r] EXCEPT !.status = s]]
  BY DEF D!Progress, D!Change
<1>3. UNCHANGED <<table, desk, trail, disturbed>>
  BY DEF D!Progress, D!Change
<1>4. row' \in [D!Id -> DeskRow] /\ \A q \in D!Id : row'[q].state = row[q].state
  BY <1>2 DEF DeskIInv, DeskTyped, DeskRow
<1>5. /\ \A h \in Handler : D!At(h, "idle")
      /\ \A q \in D!Id : trail[q] = D!NoTrail
  BY <1>1 DEF DeskIInv, Existing
<1> QED
  BY <1>3, <1>4, <1>5, TypesStay DEF DeskIInv, DeskTyped, Numbered, Existing, Undisturbed, Tells, D!At

LEMMA DeleteStep ==
    ASSUME DeskIInv, NEW r \in D!Id, D!Delete(r)
    PROVE  DeskIInv'
<1>1. /\ row' = [row EXCEPT ![r] = [row[r] EXCEPT !.state = "gone"]] /\ row[r].state = "live"
      /\ UNCHANGED <<table, desk, trail, disturbed>>
  BY DEF D!Delete, D!Change, D!Live
<1>2. /\ row' \in [D!Id -> DeskRow]
      /\ \A q \in D!Id : /\ row'[q].state = "unborn" <=> row[q].state = "unborn"
                         /\ row'[q].status = row[q].status /\ row'[q].by = row[q].by
  BY <1>1 DEF DeskIInv, DeskTyped, DeskRow
<1>3. DeskTyped' /\ Numbered' /\ Existing'
  BY <1>1, <1>2, TypesStay DEF DeskIInv, DeskTyped, Numbered, Existing, D!At
<1>4. \A q \in D!Id : Tells(q)' <=> Tells(q)
  BY <1>1, <1>2 DEF Tells
<1>5. \A h \in Handler : ~D!At(h, "idle") /\ AloneWith(h) => AloneWith(h)'
  BY <1>1, <1>2, <1>4 DEF DeskIInv, DeskTyped, AloneWith, D!At
<1> QED
  BY <1>1, <1>3, <1>4, <1>5 DEF DeskIInv, Undisturbed, D!At

(* A walk disturbs nothing. *)
LEMMA ReaderStep ==
    DeskIInv /\ UNCHANGED <<table, row, desk, trail, disturbed>> => DeskIInv'
BY TypesStay DEF DeskIInv, DeskTyped, Numbered, Existing, Undisturbed, Tells, AloneWith, D!At

LEMMA ReadStep ==
    ASSUME DeskIInv, NEW h \in Handler, NEW s \in Clerk, NEW r \in D!Id, NEW x \in D!Status,
           table \in {"reviews", "leads"}, D!Read(h, s, r, x)
    PROVE  DeskIInv'
<1> DEFINE new == [phase |-> "read", staff |-> s, on |-> r, wants |-> x,
                   status |-> row[r].status, by |-> row[r].by]
<1>1. /\ D!At(h, "idle") /\ row[r].state = "live" /\ desk' = [desk EXCEPT ![h] = new]
      /\ disturbed' = IF D!Others(h, r) = {} THEN disturbed ELSE disturbed \cup {r}
      /\ UNCHANGED <<table, row, trail>>
  BY DEF D!Read, D!Live
<1>2. /\ new \in Handling /\ new.phase = "read" /\ new.on = r
      /\ new.status = row[r].status /\ new.by = row[r].by
  BY ListParameters DEF Handling, DeskIInv, DeskTyped, DeskRow, D!Id
<1> HIDE DEF new
<1>3. /\ desk' \in [Handler -> Handling] /\ desk'[h] = new
      /\ \A g \in Handler \ {h} : desk'[g] = desk[g]
  BY <1>1, <1>2 DEF DeskIInv, DeskTyped
<1>4. DeskTyped' /\ Numbered' /\ Existing'
  BY <1>1, <1>2, <1>3, TypesStay DEF DeskIInv, DeskTyped, Numbered, Existing, D!At
<1>5. \A q \in D!Id : Tells(q)' <=> Tells(q)
  BY <1>1 DEF Tells
<1>6. r \notin disturbed' => r \notin disturbed /\ \A g \in Handler : ~D!At(g, "idle") => desk[g].on # r
  BY <1>1 DEF D!Others
<1>7. ASSUME NEW g \in Handler, ~D!At(g, "idle")', desk'[g].on \notin disturbed'
      PROVE  AloneWith(g)'
  <2>1. CASE g = h
    <3>1. Tells(r)
      BY <1>2, <1>3, <1>6, <1>7, <2>1 DEF DeskIInv, Undisturbed
    <3> QED
      BY <1>1, <1>2, <1>3, <1>5, <1>6, <1>7, <2>1, <3>1 DEF AloneWith, D!At
  <2>2. CASE g # h
    <3>1. desk'[g] = desk[g] /\ AloneWith(g) /\ ~D!At(g, "idle") /\ desk[g].on # r /\ desk[g].on \in D!Id
      BY <1>1, <1>3, <1>6, <1>7, <2>2 DEF DeskIInv, DeskTyped, Undisturbed, D!At
    <3> QED
      BY <1>1, <1>2, <1>3, <1>5, <2>2, <3>1 DEF AloneWith, D!At
  <2> QED
    BY <2>1, <2>2
<1>8. ASSUME NEW q \in D!Id \ disturbed', \A g \in Handler : ~D!At(g, "idle")' => desk'[g].on # q
      PROVE  Tells(q)'
  <2>1. \A g \in Handler : ~D!At(g, "idle") => desk[g].on # q
    BY <1>1, <1>3, <1>8 DEF D!At
  <2> QED
    BY <1>1, <1>5, <2>1 DEF DeskIInv, Undisturbed
<1> QED
  BY <1>4, <1>7, <1>8 DEF DeskIInv, Undisturbed

(* The handler h goes on with the row r: the others and their rows stay.      *)
LEMMA OthersStay ==
    ASSUME DeskIInv, NEW h \in Handler, ~D!At(h, "idle"), NEW new \in Handling,
           desk' = [desk EXCEPT ![h] = new], new.phase = "idle" \/ new.on = desk[h].on,
           UNCHANGED table, disturbed \subseteq disturbed',
           row' \in [D!Id -> DeskRow], trail' \in [D!Id -> Told],
           \A q \in D!Id : row'[q].state = row[q].state,
           \A q \in D!Id \ {desk[h].on} : row'[q] = row[q] /\ trail'[q] = trail[q]
    PROVE  /\ DeskTyped' /\ Numbered' /\ Existing'
           /\ \A g \in Handler \ {h} : ~D!At(g, "idle")' /\ desk'[g].on \notin disturbed' => AloneWith(g)'
           /\ \A q \in D!Id \ (disturbed' \cup {desk[h].on}) :
                 (\A g \in Handler : ~D!At(g, "idle")' => desk'[g].on # q) => Tells(q)'
           /\ desk[h].on \notin disturbed =>
                 \A g \in Handler \ {h} : ~D!At(g, "idle")' => desk'[g].on # desk[h].on
<1> DEFINE r == desk[h].on
<1>0. r \in D!Id /\ table \in {"reviews", "leads"} /\ row[r].state # "unborn"
  BY DEF DeskIInv, DeskTyped, Existing
<1>1. desk' \in [Handler -> Handling] /\ desk'[h] = new /\ \A g \in Handler \ {h} : desk'[g] = desk[g]
  BY DEF DeskIInv, DeskTyped
<1>2. DeskTyped' /\ Numbered' /\ Existing'
  BY <1>0, <1>1, TypesStay DEF DeskIInv, DeskTyped, Numbered, Existing, D!At
<1>3. ASSUME NEW g \in Handler \ {h}, ~D!At(g, "idle")', desk'[g].on \notin disturbed'
      PROVE  AloneWith(g)'
  <2>1. desk'[g] = desk[g] /\ AloneWith(g) /\ ~D!At(g, "idle") /\ desk[g].on \in D!Id
    BY <1>1, <1>3 DEF DeskIInv, DeskTyped, Undisturbed, D!At
  <2>2. desk[g].on # r
    BY <2>1 DEF AloneWith
  <2>3. row'[desk[g].on] = row[desk[g].on] /\ trail'[desk[g].on] = trail[desk[g].on]
    BY <2>1, <2>2
  <2> QED
    BY <1>1, <2>1, <2>2, <2>3 DEF AloneWith, Tells, D!At
<1>4. ASSUME NEW q \in D!Id \ (disturbed' \cup {r}),
             \A g \in Handler : ~D!At(g, "idle")' => desk'[g].on # q
      PROVE  Tells(q)'
  <2>1. \A g \in Handler : ~D!At(g, "idle") => desk[g].on # q
    BY <1>1, <1>4 DEF D!At
  <2> QED
    BY <2>1 DEF DeskIInv, Undisturbed, Tells
<1>5. r \notin disturbed => \A g \in Handler \ {h} : ~D!At(g, "idle")' => desk'[g].on # r
  BY <1>1 DEF DeskIInv, Undisturbed, AloneWith, D!At
<1> QED
  BY <1>2, <1>3, <1>4, <1>5

LEMMA CommitStep ==
    ASSUME DeskIInv, NEW h \in Handler, D!ModerateCommit(h)
    PROVE  DeskIInv'
<1> DEFINE r == desk[h].on
           new == [desk[h] EXCEPT !.phase = "committed"]
<1>1. /\ desk[h].phase = "read" /\ ~D!At(h, "idle") /\ r \in D!Id
      /\ row' = [row EXCEPT ![r] = D!Written(h)] /\ desk' = [desk EXCEPT ![h] = new]
      /\ UNCHANGED <<table, trail, disturbed>>
  BY DEF D!ModerateCommit, D!Change, D!At, DeskIInv, DeskTyped
<1>2. new \in Handling /\ new.on = r /\ new.phase = "committed" /\ new.staff = desk[h].staff
  BY <1>1 DEF DeskIInv, DeskTyped, Handling
<1>3. /\ D!Written(h) \in DeskRow /\ D!Written(h).state = row[r].state
      /\ table = "reviews" /\ desk[h].by = row[r].by => D!Written(h).by = desk[h].staff
  <2>1. row[r] \in DeskRow /\ desk[h] \in Handling
    BY <1>1 DEF DeskIInv, DeskTyped
  <2>2. D!Written(h) \in DeskRow
    BY <2>1 DEF D!Written, DeskRow, Handling
  <2>3. D!Written(h).state = row[r].state
    BY <2>1 DEF D!Written, DeskRow
  <2>4. D!Written(h).by = IF table = "leads" \/ desk[h].staff = desk[h].by THEN row[r].by ELSE desk[h].staff
    BY <2>1 DEF D!Written, DeskRow
  <2> QED
    BY <2>2, <2>3, <2>4
<1> HIDE DEF new
<1>4. /\ row' \in [D!Id -> DeskRow] /\ \A q \in D!Id : row'[q].state = row[q].state
      /\ row'[r] = D!Written(h) /\ \A q \in D!Id \ {r} : row'[q] = row[q] /\ trail'[q] = trail[q]
      /\ trail' \in [D!Id -> Told] /\ desk'[h] = new
  BY <1>1, <1>2, <1>3 DEF DeskIInv, DeskTyped
<1>5. /\ DeskTyped' /\ Numbered' /\ Existing'
      /\ \A g \in Handler \ {h} : ~D!At(g, "idle")' /\ desk'[g].on \notin disturbed' => AloneWith(g)'
      /\ \A q \in D!Id \ (disturbed' \cup {r}) :
            (\A g \in Handler : ~D!At(g, "idle")' => desk'[g].on # q) => Tells(q)'
      /\ r \notin disturbed => \A g \in Handler \ {h} : ~D!At(g, "idle")' => desk'[g].on # r
  BY <1>1, <1>2, <1>4, OthersStay
<1>6. r \notin disturbed => AloneWith(h)'
  <2>1. r \notin disturbed => desk[h].by = row[r].by
    BY <1>1 DEF DeskIInv, Undisturbed, AloneWith, D!At
  <2> QED
    BY <1>1, <1>2, <1>3, <1>4, <1>5, <2>1 DEF AloneWith, D!At
<1>7. ~D!At(h, "idle")' /\ desk'[h].on = r
  BY <1>2, <1>4 DEF D!At
<1> QED
  BY <1>1, <1>5, <1>6, <1>7 DEF DeskIInv, Undisturbed

LEMMA RefreshStep ==
    ASSUME DeskIInv, NEW h \in Handler, D!Refresh(h)
    PROVE  DeskIInv'
<1> DEFINE r == desk[h].on
           new == [desk[h] EXCEPT !.phase = "refreshed", !.status = row[r].status]
<1>1. /\ desk[h].phase = "committed" /\ ~D!At(h, "idle") /\ r \in D!Id
      /\ desk' = [desk EXCEPT ![h] = new]
      /\ UNCHANGED <<table, row, trail, disturbed>>
  BY DEF D!Refresh, D!At, DeskIInv, DeskTyped
<1>2. /\ new \in Handling /\ new.on = r /\ new.phase = "refreshed" /\ new.staff = desk[h].staff
      /\ new.status = row[r].status
  BY <1>1 DEF DeskIInv, DeskTyped, Handling, DeskRow
<1> HIDE DEF new
<1>3. row' \in [D!Id -> DeskRow] /\ trail' \in [D!Id -> Told] /\ desk'[h] = new
  BY <1>1, <1>2 DEF DeskIInv, DeskTyped
<1>4. /\ DeskTyped' /\ Numbered' /\ Existing'
      /\ \A g \in Handler \ {h} : ~D!At(g, "idle")' /\ desk'[g].on \notin disturbed' => AloneWith(g)'
      /\ \A q \in D!Id \ (disturbed' \cup {r}) :
            (\A g \in Handler : ~D!At(g, "idle")' => desk'[g].on # q) => Tells(q)'
      /\ r \notin disturbed => \A g \in Handler \ {h} : ~D!At(g, "idle")' => desk'[g].on # r
  BY <1>1, <1>2, <1>3, OthersStay
<1>5. r \notin disturbed => AloneWith(h)'
  <2>1. r \notin disturbed => (table = "reviews" => row[r].by = desk[h].staff)
    BY <1>1 DEF DeskIInv, Undisturbed, AloneWith, D!At
  <2> QED
    BY <1>1, <1>2, <1>3, <1>4, <2>1 DEF AloneWith, D!At
<1>6. ~D!At(h, "idle")' /\ desk'[h].on = r
  BY <1>2, <1>3 DEF D!At
<1> QED
  BY <1>1, <1>4, <1>5, <1>6 DEF DeskIInv, Undisturbed

LEMMA RecordStep ==
    ASSUME DeskIInv, NEW h \in Handler, D!Record(h)
    PROVE  DeskIInv'
<1>0. PICK r \in D!Id : r = desk[h].on
  BY DEF D!Record, D!At, DeskIInv, DeskTyped
<1> DEFINE said == [status |-> desk[h].status, by |-> desk[h].staff]
<1>1. /\ desk[h].phase = "refreshed" /\ ~D!At(h, "idle")
      /\ trail' = [trail EXCEPT ![r] = said] /\ desk' = [desk EXCEPT ![h] = D!Idle]
      /\ UNCHANGED <<table, row, disturbed>>
  BY <1>0 DEF D!Record, D!At, DeskIInv, DeskTyped
<1>2. said \in Told /\ said.status = desk[h].status /\ said.by = desk[h].staff
  BY DEF DeskIInv, DeskTyped, Handling, Told
<1> HIDE DEF said
<1>3. /\ row' \in [D!Id -> DeskRow] /\ trail' \in [D!Id -> Told] /\ trail'[r] = said
      /\ \A q \in D!Id \ {r} : trail'[q] = trail[q]
      /\ desk'[h] = D!Idle
  BY <1>1, <1>2 DEF DeskIInv, DeskTyped
<1>4. /\ DeskTyped' /\ Numbered' /\ Existing'
      /\ \A g \in Handler \ {h} : ~D!At(g, "idle")' /\ desk'[g].on \notin disturbed' => AloneWith(g)'
      /\ \A q \in D!Id \ (disturbed' \cup {r}) :
            (\A g \in Handler : ~D!At(g, "idle")' => desk'[g].on # q) => Tells(q)'
  BY <1>0, <1>1, <1>2, <1>3, Dummies, OthersStay
<1>5. r \notin disturbed => Tells(r)'
  <2>1. r \notin disturbed => /\ desk[h].status = row[r].status
                              /\ table = "reviews" => row[r].by = desk[h].staff
    BY <1>0, <1>1 DEF DeskIInv, Undisturbed, AloneWith, D!At
  <2>2. /\ trail'[r].status = desk[h].status /\ trail'[r].by = desk[h].staff
        /\ row' = row /\ table' = table
    BY <1>1, <1>2, <1>3
  <2> QED
    BY <2>1, <2>2 DEF Tells
<1>6. D!At(h, "idle")'
  BY <1>3, Dummies DEF D!At
<1> QED
  BY <1>1, <1>4, <1>5, <1>6 DEF DeskIInv, Undisturbed

LEMMA CutStep ==
    ASSUME DeskIInv, NEW h \in Handler, D!Cut(h)
    PROVE  DeskIInv'
<1>0. PICK r \in D!Id : r = desk[h].on
  BY DEF D!Cut, DeskIInv, DeskTyped
<1>1. /\ ~D!At(h, "idle")
      /\ desk' = [desk EXCEPT ![h] = D!Idle]
      /\ disturbed' = IF D!At(h, "read") THEN disturbed ELSE disturbed \cup {r}
      /\ UNCHANGED <<table, row, trail>>
  BY <1>0 DEF D!Cut, DeskIInv, DeskTyped
<1>2. row' \in [D!Id -> DeskRow] /\ trail' \in [D!Id -> Told] /\ desk'[h] = D!Idle
  BY <1>1 DEF DeskIInv, DeskTyped
<1>3. /\ DeskTyped' /\ Numbered' /\ Existing'
      /\ \A g \in Handler \ {h} : ~D!At(g, "idle")' /\ desk'[g].on \notin disturbed' => AloneWith(g)'
      /\ \A q \in D!Id \ (disturbed' \cup {r}) :
            (\A g \in Handler : ~D!At(g, "idle")' => desk'[g].on # q) => Tells(q)'
  BY <1>0, <1>1, <1>2, Dummies, OthersStay
<1>4. r \notin disturbed' => Tells(r)'
  BY <1>0, <1>1 DEF DeskIInv, Undisturbed, AloneWith, Tells
<1>5. D!At(h, "idle")'
  BY <1>2, Dummies DEF D!At
<1> QED
  BY <1>3, <1>4, <1>5 DEF DeskIInv, Undisturbed

LEMMA DeskStep == DeskIInv /\ [D!Next]_D!vars => DeskIInv'
<1> SUFFICES ASSUME DeskIInv, [D!Next]_D!vars PROVE DeskIInv'
  OBVIOUS
<1>0. Visitor \in D!Person /\ D!Initial \in D!Status
  BY StatusesTyped DEF D!Person, DeskIInv, DeskTyped
<1>1. ASSUME NEW o \in D!Person,
             D!File(o) \/ \E who \in D!Person : D!CreateRequest(who, o) \/ D!CreateReview(who, o)
      PROVE  DeskIInv'
  BY <1>0, <1>1, BirthStep DEF D!File, D!CreateRequest, D!CreateReview
<1>2. ASSUME D!Log PROVE DeskIInv'
  BY <1>0, <1>2, BirthStep DEF D!Log
<1>3. ASSUME NEW w \in Walker,
             D!NextPage(w) \/ \E who \in D!Person, l \in D!List, f \in D!Status \cup {"none"} : D!StartWalk(w, who, l, f)
      PROVE  DeskIInv'
  BY <1>3, ReaderStep DEF D!NextPage, D!StartWalk
<1>4. ASSUME NEW h \in Handler, NEW s \in Clerk, NEW r \in D!Id, NEW x \in D!Status,
             D!Moderate(h, s, r, x) \/ D!UpdateStatus(h, s, r, x)
      PROVE  DeskIInv'
  BY <1>4, ReadStep DEF D!Moderate, D!UpdateStatus
<1>5. ASSUME NEW h \in Handler, D!AuditReview(h) \/ D!AuditLead(h) PROVE DeskIInv'
  BY <1>5, RecordStep DEF D!AuditReview, D!AuditLead
<1>6. UNCHANGED D!vars => DeskIInv'
  BY ReaderStep DEF D!vars
<1> QED
  BY <1>1, <1>2, <1>3, <1>4, <1>5, <1>6, ProgressStep, DeleteStep, LeadStep, CommitStep, RefreshStep, CutStep
     DEF D!Next

(* For any number of rows, staff and handlers: unless moderations of a row     *)
(* overlapped or were cut off, its last audit row tells what is now there, and *)
(* for a review who decided it.                                               *)
THEOREM TrailsTellDecisions == D!Spec => []TrailTellsDecision
<1>1. DeskIInv => TrailTellsDecision
  BY DEF DeskIInv, Undisturbed, Tells, TrailTellsDecision, D!TrailTellsDecision
<1> QED
  BY <1>1, DeskInit, DeskStep, PTL DEF D!Spec

-----------------------------------------------------------------------------
(* Walks.  A page holds the newest rows of a list below its key, newest      *)
(* first, so that what a walk has shown and what is below its key is all of   *)
(* what stays in the list.                                                   *)

LEMMA LeastNumber ==
    ASSUME NEW T \in SUBSET Nat, T # {}
    PROVE  \E n \in T : \A m \in T : n <= m
<1> DEFINE R == OpToRel(<, Nat)
<1>1. IsWellFoundedOn(R, Nat)
  BY NatLessThanWellFounded
<1>2. ASSUME NEW x \in Nat, NEW y \in Nat PROVE <<y, x>> \in R <=> y < x
  BY DEF OpToRel
<1> HIDE DEF R
<1>3. PICK x \in T : \A y \in T : ~(<<y, x>> \in R)
  BY <1>1, WFMin
<1>4. \A y \in T : ~(y < x)
  BY <1>2, <1>3
<1>5. \A y \in T : x <= y
  BY <1>4
<1> QED
  BY <1>5

(* The rows of a set in the order of a list, by induction over their number:  *)
(* the smallest row goes to the end of the others.                            *)
Descends(q, n) == \A i, j \in 1..n : i < j => q[i] > q[j]

LEMMA DescentExists ==
    ASSUME NEW S, IsFiniteSet(S), S \subseteq Nat
    PROVE  \E q \in [1..Cardinality(S) -> S] : Descends(q, Cardinality(S))
<1> DEFINE Bad == {n \in Nat : \E T \in SUBSET Nat :
                     /\ IsFiniteSet(T) /\ Cardinality(T) = n
                     /\ ~\E q \in [1..n -> T] : Descends(q, n)}
<1>1. Bad = {}
  <2> SUFFICES ASSUME Bad # {} PROVE FALSE
    OBVIOUS
  <2>1. PICK n \in Bad : \A m \in Bad : n <= m
    BY LeastNumber
  <2>2. n \in Nat
    OBVIOUS
  <2>3. PICK T \in SUBSET Nat : /\ IsFiniteSet(T) /\ Cardinality(T) = n
                                /\ ~\E q \in [1..n -> T] : Descends(q, n)
    OBVIOUS
  <2>4. CASE n = 0
    <3> DEFINE q == [i \in 1..n |-> 0]
    <3>1. q \in [1..n -> T] /\ Descends(q, n)
      BY <2>4 DEF Descends
    <3> QED
      BY <2>3, <3>1
  <2>5. CASE n # 0
    <3>1. T # {}
      BY <2>3, <2>5, FS_EmptySet
    <3>2. PICK m \in T : \A r \in T : m <= r
      BY <3>1, LeastNumber
    <3>3. n - 1 \in Nat /\ n - 1 < n /\ IsFiniteSet(T \ {m}) /\ Cardinality(T \ {m}) = n - 1
      BY <2>2, <2>3, <2>5, FS_RemoveElement
    <3>4. n - 1 \notin Bad
      BY <2>1, <2>2, <3>3
    <3>5. PICK p \in [1..n-1 -> T \ {m}] : Descends(p, n - 1)
      BY <2>3, <3>3, <3>4
    <3> DEFINE q == [i \in 1..n |-> IF i = n THEN m ELSE p[i]]
    <3>6. q \in [1..n -> T]
      <4>1. \A i \in 1..n : i # n => i \in 1..n-1
        BY <2>2
      <4> QED
        BY <3>5, <4>1
    <3>7. Descends(q, n)
      <4> SUFFICES ASSUME NEW i \in 1..n, NEW j \in 1..n, i < j PROVE q[i] > q[j]
        BY DEF Descends
      <4>0. i \in 1..n-1 /\ i # n
        BY <2>2
      <4>1. p[i] \in T \ {m} /\ q[i] = p[i] /\ p[i] \in Nat
        BY <3>5, <4>0
      <4>2. CASE j = n
        BY <2>3, <3>2, <4>1, <4>2
      <4>3. CASE j # n
        <5>1. j \in 1..n-1
          BY <2>2, <4>3
        <5> QED
          BY <3>5, <4>0, <4>1, <4>3, <5>1 DEF Descends
      <4> QED
        BY <4>2, <4>3
    <3> QED
      BY <2>3, <3>6, <3>7
  <2> QED
    BY <2>4, <2>5
<1>2. Cardinality(S) \in Nat
  BY FS_CardinalityType
<1> QED
  BY <1>1, <1>2

LEMMA NewestDescends ==
    ASSUME NEW S \in SUBSET D!Id
    PROVE  LET n == Cardinality(S)
               q == D!Newest(S) IN
           /\ n \in Nat /\ q \in [1..n -> S] /\ Descends(q, n)
           /\ \A r \in S : \E i \in 1..n : q[i] = r
<1> DEFINE n == Cardinality(S)
           q == D!Newest(S)
<1>1. IsFiniteSet(S) /\ S \subseteq Nat
  <2>1. S \in SUBSET (1..MaxId) /\ MaxId \in Nat
    BY ListParameters DEF D!Id
  <2>2. IsFiniteSet(1..MaxId)
    BY <2>1, FS_Interval
  <2>3. IsFiniteSet(S)
    BY <2>1, <2>2, FS_Subset
  <2> QED
    BY <2>1, <2>3
<1>2. n \in Nat /\ D!Cardinality(S) = n /\ IsFiniteSet(1..n) /\ Cardinality(1..n) = n
  <2>1. n \in Nat
    BY <1>1, FS_CardinalityType
  <2>2. D!Cardinality(S) = n
    BY DEF D!Cardinality, Cardinality
  <2>3. IsFiniteSet(1..n) /\ Cardinality(1..n) = n
    BY <2>1, FS_Interval
  <2> QED
    BY <2>1, <2>2, <2>3
<1>3. q \in [1..n -> S] /\ Descends(q, n)
  <2>1. \E p \in [1..n -> S] : Descends(p, n)
    BY <1>1, DescentExists
  <2> QED
    BY <1>2, <2>1 DEF D!Newest, Descends
<1> HIDE DEF q
<1>4. q \in Injection(1..n, S)
  <2>1. \A i, j \in 1..n : i # j => q[i] # q[j]
    <3> SUFFICES ASSUME NEW i \in 1..n, NEW j \in 1..n, i # j PROVE q[i] # q[j]
      OBVIOUS
    <3>1. q[i] \in Nat /\ q[j] \in Nat
      BY <1>1, <1>3
    <3> QED
      BY <1>2, <1>3, <3>1 DEF Descends
  <2> QED
    BY <1>3, <2>1 DEF Injection, IsInjective
<1>5. q \in Surjection(1..n, S)
  BY <1>1, <1>2, <1>4, FS_Injection
<1>6. \A r \in S : \E i \in 1..n : q[i] = r
  BY <1>5 DEF Surjection
<1> QED
  BY <1>2, <1>3, <1>6 DEF q

(* A page: rows below the cursor, newest first, and what it leaves out comes    *)
(* after it.  The last page leaves nothing out.                                *)
LEMMA PageIsNewest ==
    ASSUME NEW S \in SUBSET D!Id, NEW c \in Nat
    PROVE  LET B == D!Below(S, c)
               p == D!Page(S, c) IN
           /\ p \in Seq(B) /\ Descends(p, Len(p))
           /\ \A r \in B : (\E i \in 1..Len(p) : p[i] = r) \/ (Len(p) > 0 /\ r < p[Len(p)])
           /\ D!IsLast(S, c) => \A r \in B : \E i \in 1..Len(p) : p[i] = r
<1> DEFINE B == D!Below(S, c)
           rest == D!Newest(B)
           n == Cardinality(B)
           k == IF n < Limit THEN n ELSE Limit
           p == D!Page(S, c)
<1>1. B \in SUBSET D!Id /\ B \subseteq Nat
  BY ListParameters DEF D!Below, D!Id
<1> HIDE DEF B
<1>2. /\ n \in Nat /\ rest \in [1..n -> B] /\ Descends(rest, n)
      /\ \A r \in B : \E i \in 1..n : rest[i] = r
  BY <1>1, NewestDescends
<1>3. rest \in Seq(B) /\ Len(rest) = n
  BY <1>2
<1> HIDE DEF rest
<1>4. p = SubSeq(rest, 1, k)
  BY <1>3 DEF D!Page, B, rest
<1>5. k \in Nat /\ k <= n /\ k <= Limit
  BY <1>2, ListParameters
<1>6. p \in Seq(B) /\ Len(p) = k /\ \A i \in 1..k : p[i] = rest[i]
  BY <1>3, <1>4, <1>5
<1> HIDE DEF p
<1>7. Descends(p, Len(p))
  BY <1>2, <1>5, <1>6 DEF Descends
<1>8. ASSUME NEW r \in B PROVE (\E i \in 1..k : p[i] = r) \/ (n > Limit /\ k > 0 /\ r < p[k])
  <2>1. PICK i \in 1..n : rest[i] = r
    BY <1>2
  <2>2. CASE i <= k
    BY <1>5, <1>6, <2>1, <2>2
  <2>3. CASE i > k
    <3>1. k = Limit /\ k > 0 /\ n > Limit /\ k \in 1..n
      BY <1>2, <1>5, <2>1, <2>3, ListParameters
    <3>2. rest[k] > rest[i] /\ rest[k] \in Nat /\ rest[i] \in Nat
      BY <1>1, <1>2, <2>1, <2>3, <3>1 DEF Descends
    <3> QED
      BY <1>6, <2>1, <3>1, <3>2
  <2> QED
    BY <1>5, <2>1, <2>2, <2>3
<1>9. D!IsLast(S, c) => ~(n > Limit)
  <2>1. D!Cardinality(B) = n
    BY DEF D!Cardinality, Cardinality
  <2> QED
    BY <1>2, <1>5, <1>6, <2>1, ListParameters DEF D!IsLast, B, p
<1> QED
  BY <1>6, <1>7, <1>8, <1>9 DEF B, p

(* The lists that a table has. *)
HasList(l) ==
    /\ table \in {"quotes", "sourcing", "inbox"} => l = "mine"
    /\ table = "orders" => l \in {"mine", "all"}
    /\ table = "reviews" => l \in {"approved", "pending"}
    /\ table \in {"leads", "emails", "audit", "sockets"} => l = "all"

LEMMA ListsHaveRows ==
    ASSUME table \in Table, NEW l, HasList(l), NEW who, NEW f
    PROVE  D!Listed(l, who, f) \subseteq D!Id
BY ListParameters DEF HasList, D!Listed, D!RequestLists, D!OrderLists, D!ReviewLists, D!LeadLists, D!InboxLists,
   D!LogLists, D!ListMine, D!ListAll, D!ListApproved, D!ListPending, D!LiveRows

LEMMA MayImpliesHas ==
    ASSUME table \in Table, NEW l \in D!List, NEW who, D!May(l, who)
    PROVE  HasList(l)
BY ListParameters DEF D!May, D!Routes, D!QuoteRoutes, D!SourcingRoutes, D!OrderRoutes, D!OrderDeskRoutes,
   D!ReviewRoutes, D!ModerationRoutes, D!LeadRoutes, D!LeadDeskRoutes, D!InboxRoutes, D!LogRoutes, D!List, HasList

Walk == [phase : {"idle", "walking", "done"}, who : D!Person, list : D!List, filter : D!Status \cup {"none"},
         cursor : 0..MaxId + 1, shown : Seq(D!Id)]

Walked(w) == D!Listed(walk[w].list, walk[w].who, walk[w].filter)
ShownOn(w, r) == \E i \in 1..Len(walk[w].shown) : walk[w].shown[i] = r

(* Whatever should be shown was shown, or is in the list and below the cursor; *)
(* nothing below the cursor was shown.                                         *)
WalkGood(w) ==
    /\ Descends(walk[w].shown, Len(walk[w].shown))
    /\ \A i \in 1..Len(walk[w].shown) : walk[w].shown[i] >= walk[w].cursor
    /\ walk[w].phase = "walking" => /\ HasList(walk[w].list) /\ steady[w] \subseteq Walked(w)
                                    /\ \A r \in steady[w] : ShownOn(w, r) \/ r < walk[w].cursor
    /\ walk[w].phase = "done" => \A r \in steady[w] : ShownOn(w, r)

WalkIInv ==
    /\ table \in Table
    /\ walk \in [Walker -> Walk] /\ steady \in [Walker -> SUBSET D!Id]
    /\ \A w \in Walker : WalkGood(w)

LEMMA NoWalkIsWalk ==
    /\ D!NoWalk \in Walk /\ D!NoWalk.phase = "idle"
    /\ D!NoWalk.shown = <<>> /\ D!NoWalk.shown \in Seq(D!Id) /\ Len(D!NoWalk.shown) = 0
BY ListParameters DEF D!NoWalk, Walk, D!Person, D!List

LEMMA WalkInit == D!Init => WalkIInv
<1> SUFFICES ASSUME D!Init PROVE WalkIInv
  OBVIOUS
<1>1. table \in Table /\ walk \in [Walker -> Walk] /\ steady \in [Walker -> SUBSET D!Id]
  BY NoWalkIsWalk DEF D!Init
<1>2. \A w \in Walker : walk[w] = D!NoWalk
  BY DEF D!Init
<1>3. \A w \in Walker : WalkGood(w)
  BY <1>2, NoWalkIsWalk DEF WalkGood, Descends
<1> QED
  BY <1>1, <1>3 DEF WalkIInv

(* A row comes, goes or changes, and a walk no longer needs to show it. *)
LEMMA WatchStep ==
    ASSUME WalkIInv, UNCHANGED <<table, walk>>, D!Watch
    PROVE  WalkIInv'
<1>1. \A w \in Walker : steady'[w] = IF walk[w].phase = "walking" THEN steady[w] \cap Walked(w)' ELSE steady[w]
  BY DEF D!Watch, Walked
<1>2. walk' \in [Walker -> Walk]' /\ steady' \in [Walker -> SUBSET D!Id]
  BY <1>1 DEF WalkIInv, D!Watch, Walk, D!Status
<1>3. \A w \in Walker : WalkGood(w)'
  BY <1>1 DEF WalkIInv, WalkGood, HasList, ShownOn
<1> QED
  BY <1>2, <1>3 DEF WalkIInv, Walk, D!Status

LEMMA ListedStays ==
    ASSUME UNCHANGED <<table, row>>
    PROVE  \A l, who, f : D!Listed(l, who, f)' = D!Listed(l, who, f)
BY DEF D!Listed, D!RequestLists, D!OrderLists, D!ReviewLists, D!LeadLists, D!InboxLists,
   D!LogLists, D!ListMine, D!ListAll, D!ListApproved, D!ListPending, D!LiveRows, D!Live

LEMMA StillStep ==
    WalkIInv /\ UNCHANGED <<table, row, walk, steady>> => WalkIInv'
<1> SUFFICES ASSUME WalkIInv, UNCHANGED <<table, row, walk, steady>> PROVE WalkIInv'
  OBVIOUS
<1>1. \A w \in Walker : Walked(w)' = Walked(w)
  BY ListedStays DEF Walked
<1> QED
  BY <1>1 DEF WalkIInv, WalkGood, HasList, ShownOn, Walk, D!Status

LEMMA StartStep ==
    ASSUME WalkIInv, NEW w \in Walker, NEW who \in D!Person, NEW l \in D!List, NEW f \in D!Status \cup {"none"},
           D!StartWalk(w, who, l, f)
    PROVE  WalkIInv'
<1> DEFINE new == [D!NoWalk EXCEPT !.phase = "walking", !.who = who, !.list = l,
                                   !.filter = f, !.cursor = MaxId + 1]
<1>1. /\ walk' = [walk EXCEPT ![w] = new] /\ steady' = [steady EXCEPT ![w] = D!Listed(l, who, f)]
      /\ UNCHANGED <<table, row>> /\ D!May(l, who)
  BY DEF D!StartWalk
<1>2. /\ new \in Walk /\ new.phase = "walking" /\ new.who = who /\ new.list = l /\ new.filter = f
      /\ new.cursor = MaxId + 1 /\ new.shown = <<>> /\ Len(new.shown) = 0
  <2>1. D!NoWalk \in Walk /\ D!NoWalk.shown = <<>> /\ Len(D!NoWalk.shown) = 0
    BY NoWalkIsWalk
  <2>2. MaxId + 1 \in 0..MaxId + 1
    BY ListParameters
  <2> QED
    BY <2>1, <2>2 DEF Walk
<1> HIDE DEF new
<1>3. HasList(l) /\ D!Listed(l, who, f) \in SUBSET D!Id
  BY <1>1, MayImpliesHas, ListsHaveRows DEF WalkIInv
<1>4. /\ walk' \in [Walker -> Walk] /\ steady' \in [Walker -> SUBSET D!Id]
      /\ walk'[w] = new /\ steady'[w] = D!Listed(l, who, f)
      /\ \A v \in Walker \ {w} : walk'[v] = walk[v] /\ steady'[v] = steady[v]
  BY <1>1, <1>2, <1>3 DEF WalkIInv
<1>5. \A a, b, c : D!Listed(a, b, c)' = D!Listed(a, b, c)
  BY <1>1, ListedStays
<1>6. WalkGood(w)'
  <2>1. Walked(w)' = D!Listed(l, who, f)
    BY <1>1, <1>2, <1>4, <1>5 DEF Walked
  <2>2. \A r \in D!Id : r < MaxId + 1
    BY ListParameters DEF D!Id
  <2>3. HasList(l)'
    BY <1>1, <1>3 DEF HasList
  <2> QED
    BY <1>2, <1>3, <1>4, <2>1, <2>2, <2>3 DEF WalkGood, Descends, HasList
<1>7. ASSUME NEW v \in Walker \ {w} PROVE WalkGood(v)'
  <2>1. Walked(v)' = Walked(v)
    BY <1>4, <1>5 DEF Walked
  <2> QED
    BY <1>1, <1>4, <2>1 DEF WalkIInv, WalkGood, HasList, ShownOn
<1> QED
  BY <1>1, <1>4, <1>6, <1>7 DEF WalkIInv, Walk, D!Status

(* A page after what was shown. *)
LEMMA PageAfterPages ==
    ASSUME NEW s \in Seq(D!Id), NEW c \in Nat, NEW p \in Seq(D!Id),
           Descends(s, Len(s)), Descends(p, Len(p)),
           \A i \in 1..Len(s) : s[i] >= c, \A i \in 1..Len(p) : p[i] < c
    PROVE  LET q == s \o p
               d == IF p = <<>> THEN c ELSE p[Len(p)] IN
           /\ q \in Seq(D!Id) /\ Descends(q, Len(q))
           /\ d \in Nat /\ d <= c
           /\ \A i \in 1..Len(q) : q[i] >= d
           /\ \A r : (\E i \in 1..Len(q) : q[i] = r) <=> (\E i \in 1..Len(s) : s[i] = r) \/ (\E i \in 1..Len(p) : p[i] = r)
<1> DEFINE q == s \o p
           m == Len(s)
           n == Len(p)
           d == IF p = <<>> THEN c ELSE p[Len(p)]
<1>1. /\ m \in Nat /\ n \in Nat /\ q \in Seq(D!Id) /\ Len(q) = m + n
      /\ \A i \in 1..m : q[i] = s[i] /\ s[i] \in Nat
      /\ \A i \in 1..n : q[m + i] = p[i] /\ p[i] \in Nat
  <2>1. D!Id \subseteq Nat
    BY ListParameters DEF D!Id
  <2>2. m \in Nat /\ n \in Nat /\ q \in Seq(D!Id) /\ Len(q) = m + n
    OBVIOUS
  <2>3. \A i \in 1..m : q[i] = s[i] /\ s[i] \in D!Id
    OBVIOUS
  <2>4. \A i \in 1..n : q[m + i] = p[i] /\ p[i] \in D!Id
    BY ConcatProperties
  <2> QED
    BY <2>1, <2>2, <2>3, <2>4
<1> HIDE DEF q
<1>2. \A i \in 1..Len(q) : \/ i \in 1..m /\ q[i] = s[i]
                           \/ i - m \in 1..n /\ q[i] = p[i - m]
  <2> TAKE i \in 1..Len(q)
  <2>1. CASE i <= m
    BY <1>1, <2>1
  <2>2. CASE i > m
    <3>1. i - m \in 1..n /\ m + (i - m) = i
      BY <1>1, <2>2
    <3> QED
      BY <1>1, <3>1
  <2> QED
    BY <1>1, <2>1, <2>2
<1>3. Descends(q, Len(q))
  <2> SUFFICES ASSUME NEW i \in 1..Len(q), NEW j \in 1..Len(q), i < j PROVE q[i] > q[j]
    BY DEF Descends
  <2>1. CASE i \in 1..m /\ j \in 1..m
    BY <1>1, <2>1 DEF Descends
  <2>2. CASE i \in 1..m /\ j - m \in 1..n /\ q[j] = p[j - m]
    <3>1. q[i] >= c /\ q[j] < c /\ q[i] \in Nat /\ q[j] \in Nat
      BY <1>1, <2>2
    <3> QED
      BY <3>1
  <2>3. CASE i - m \in 1..n /\ j - m \in 1..n /\ q[i] = p[i - m] /\ q[j] = p[j - m]
    <3>1. i - m < j - m
      BY <1>1
    <3> QED
      BY <2>3, <3>1 DEF Descends
  <2>4. ~(i - m \in 1..n /\ j \in 1..m)
    BY <1>1
  <2> QED
    BY <1>2, <2>1, <2>2, <2>3, <2>4
<1>4. d \in Nat /\ d <= c /\ \A i \in 1..n : p[i] >= d
  <2>1. CASE p = <<>>
    BY <1>1, <2>1
  <2>2. CASE p # <<>>
    <3>1. n > 0 /\ n \in 1..n
      BY <1>1, <2>2
    <3>2. d = p[n]
      BY <2>2
    <3>3. \A i \in 1..n : i = n \/ i < n
      BY <1>1
    <3>4. p[n] \in Nat /\ p[n] < c
      BY <1>1, <3>1
    <3>5. \A i \in 1..n : p[i] \in Nat /\ (i = n \/ p[i] > p[n])
      BY <1>1, <3>1, <3>3 DEF Descends
    <3> HIDE DEF d
    <3> QED
      BY <3>2, <3>4, <3>5
  <2> QED
    BY <2>1, <2>2
<1>5. \A i \in 1..Len(q) : q[i] >= d
  <2> HIDE DEF d
  <2>1. \A i \in 1..m : s[i] >= d
    BY <1>1, <1>4
  <2> QED
    BY <1>2, <1>4, <2>1
<1>6. \A r : (\E i \in 1..Len(q) : q[i] = r) <=> (\E i \in 1..m : s[i] = r) \/ (\E i \in 1..n : p[i] = r)
  <2> TAKE r
  <2>1. ASSUME NEW i \in 1..m, s[i] = r PROVE \E j \in 1..Len(q) : q[j] = r
    BY <1>1, <2>1
  <2>2. ASSUME NEW i \in 1..n, p[i] = r PROVE \E j \in 1..Len(q) : q[j] = r
    <3>1. m + i \in 1..Len(q) /\ q[m + i] = r
      BY <1>1, <2>2
    <3> QED
      BY <3>1
  <2> QED
    BY <1>2, <2>1, <2>2
<1> QED
  BY <1>1, <1>3, <1>4, <1>5, <1>6 DEF q

LEMMA NextPageStep ==
    ASSUME WalkIInv, NEW w \in Walker, D!NextPage(w)
    PROVE  WalkIInv'
<1>1. PICK S \in SUBSET D!Id : S = Walked(w)
  BY ListsHaveRows DEF WalkIInv, WalkGood, D!NextPage, Walked
<1>2. PICK c \in Nat : c = walk[w].cursor /\ c <= MaxId + 1
  BY ListParameters DEF WalkIInv, Walk
<1>3. PICK s \in Seq(D!Id) : s = walk[w].shown /\ Descends(s, Len(s)) /\ \A i \in 1..Len(s) : s[i] >= c
  BY <1>2 DEF WalkIInv, WalkGood, Walk
<1> DEFINE B == D!Below(S, c)
<1>4. PICK p : p = D!Page(S, c)
  OBVIOUS
<1>5. /\ p \in Seq(B) /\ Descends(p, Len(p))
      /\ \A r \in B : (\E i \in 1..Len(p) : p[i] = r) \/ (Len(p) > 0 /\ r < p[Len(p)])
      /\ D!IsLast(S, c) => \A r \in B : \E i \in 1..Len(p) : p[i] = r
  BY <1>4, PageIsNewest
<1>6. B \subseteq D!Id /\ \A r \in B : r < c
  BY DEF D!Below
<1>7. p \in Seq(D!Id) /\ \A i \in 1..Len(p) : p[i] < c
  BY <1>5, <1>6
<1> DEFINE q == s \o p
           d == IF p = <<>> THEN c ELSE p[Len(p)]
           f == IF D!IsLast(S, c) THEN "done" ELSE "walking"
           new == [walk[w] EXCEPT !.shown = q, !.cursor = d, !.phase = f]
<1>8. /\ q \in Seq(D!Id) /\ Descends(q, Len(q)) /\ d \in Nat /\ d <= c
      /\ \A i \in 1..Len(q) : q[i] >= d
      /\ \A r : (\E i \in 1..Len(q) : q[i] = r) <=> (\E i \in 1..Len(s) : s[i] = r) \/ (\E i \in 1..Len(p) : p[i] = r)
  <2>1. /\ s \in Seq(D!Id) /\ Descends(s, Len(s)) /\ \A i \in 1..Len(s) : s[i] >= c
        /\ p \in Seq(D!Id) /\ Descends(p, Len(p)) /\ \A i \in 1..Len(p) : p[i] < c
    BY <1>3, <1>5, <1>7
  <2> HIDE DEF B, f, new
  <2> QED
    BY ONLY <2>1, PageAfterPages, c \in Nat
<1>9. walk[w].phase = "walking" /\ walk' = [walk EXCEPT ![w] = new] /\ UNCHANGED <<table, row, steady>>
  BY <1>1, <1>2, <1>3, <1>4 DEF D!NextPage, Walked
<1>10. d \in 0..MaxId + 1
  BY <1>2, <1>8, ListParameters
<1> HIDE DEF B, q, d
<1>11. f \in {"done", "walking"}
  OBVIOUS
<1> HIDE DEF f
<1>12. /\ new \in Walk /\ new.shown = q /\ new.cursor = d /\ new.phase = f
       /\ new.list = walk[w].list /\ new.who = walk[w].who /\ new.filter = walk[w].filter
  <2>1. walk[w] \in Walk
    BY DEF WalkIInv
  <2> QED
    BY <1>8, <1>10, <1>11, <2>1 DEF Walk
<1> HIDE DEF new
<1>13. /\ walk' \in [Walker -> Walk] /\ walk'[w] = new /\ \A v \in Walker \ {w} : walk'[v] = walk[v]
  BY <1>9, <1>12 DEF WalkIInv
<1>14. \A v \in Walker : Walked(v)' = Walked(v)
  <2>1. \A v \in Walker : /\ walk'[v].list = walk[v].list /\ walk'[v].who = walk[v].who
                          /\ walk'[v].filter = walk[v].filter
    BY <1>12, <1>13
  <2> QED
    BY <1>9, <2>1, ListedStays DEF Walked
<1>15. WalkGood(w)'
  <2>1. \A r \in steady[w] : (\E i \in 1..Len(s) : s[i] = r) \/ r \in B
    BY <1>1, <1>2, <1>3, <1>9 DEF WalkIInv, WalkGood, ShownOn, D!Below, B
  <2>2. steady[w] \subseteq Walked(w) /\ HasList(walk[w].list)
    BY <1>9 DEF WalkIInv, WalkGood
  <2>3. \A r \in steady[w] : (\E i \in 1..Len(q) : q[i] = r) \/ r < d
    <3> TAKE r \in steady[w]
    <3>1. CASE \E i \in 1..Len(s) : s[i] = r
      BY <1>8, <3>1
    <3>2. CASE r \in B
      <4>1. CASE \E i \in 1..Len(p) : p[i] = r
        BY <1>8, <4>1
      <4>2. CASE Len(p) > 0 /\ r < p[Len(p)]
        BY <1>7, <4>2 DEF d
      <4> QED
        BY <1>5, <3>2, <4>1, <4>2
    <3> QED
      BY <2>1, <3>1, <3>2
  <2>4. f = "done" => \A r \in steady[w] : \E i \in 1..Len(q) : q[i] = r
    BY <1>5, <1>8, <2>1 DEF f
  <2> QED
    BY <1>8, <1>9, <1>11, <1>12, <1>13, <1>14, <2>2, <2>3, <2>4 DEF WalkGood, ShownOn, HasList
<1>16. ASSUME NEW v \in Walker \ {w} PROVE WalkGood(v)'
  BY <1>9, <1>13, <1>14 DEF WalkIInv, WalkGood, ShownOn, HasList
<1> QED
  BY <1>9, <1>13, <1>15, <1>16 DEF WalkIInv, Walk, D!Status

LEMMA WalkStep == WalkIInv /\ [D!Next]_D!vars => WalkIInv'
<1> SUFFICES ASSUME WalkIInv, [D!Next]_D!vars PROVE WalkIInv'
  OBVIOUS
<1>1. ASSUME \/ \E o \in D!Person : D!File(o) \/ \E who \in D!Person : D!CreateRequest(who, o) \/ D!CreateReview(who, o)
             \/ D!Log
             \/ \E r \in D!Id : D!Progress(r) \/ D!Delete(r)
             \/ \E h \in Handler : D!CreateLead(h) \/ D!ModerateCommit(h)
      PROVE  WalkIInv'
  <2>1. UNCHANGED <<table, walk>> /\ D!Watch
    BY <1>1 DEF D!File, D!CreateRequest, D!CreateReview, D!Log, D!Progress, D!Delete, D!CreateLead,
       D!ModerateCommit, D!Born, D!Change
  <2> QED
    BY <2>1, WatchStep
<1>2. ASSUME NEW h \in Handler,
             \/ \E s \in Clerk, r \in D!Id, x \in D!Status : D!Moderate(h, s, r, x) \/ D!UpdateStatus(h, s, r, x)
             \/ D!Refresh(h) \/ D!AuditReview(h) \/ D!AuditLead(h) \/ D!Cut(h)
      PROVE  WalkIInv'
  BY <1>2, StillStep DEF D!Moderate, D!UpdateStatus, D!Read, D!Refresh, D!AuditReview, D!AuditLead, D!Record, D!Cut
<1>3. UNCHANGED D!vars => WalkIInv'
  BY StillStep DEF D!vars
<1> QED
  BY <1>1, <1>2, <1>3, StartStep, NextPageStep DEF D!Next

(* For any number of rows and any size of page, whatever is created, changed   *)
(* and deleted between the pages: a walk shows no row twice, and at its end it *)
(* has shown every row that was in the list all the time.                     *)
THEOREM ListsAreWalkedWhole == D!Spec => []WalksAreWhole
<1>1. WalkIInv => WalksAreWhole
  <2> SUFFICES ASSUME WalkIInv, NEW w \in Walker
               PROVE  /\ \A i, j \in DOMAIN walk[w].shown : i < j => walk[w].shown[i] > walk[w].shown[j]
                      /\ walk[w].phase = "done" => steady[w] \subseteq D!Range(walk[w].shown)
    BY DEF WalksAreWhole, D!WalksAreWhole
  <2>1. walk[w].shown \in Seq(D!Id) /\ WalkGood(w)
    BY DEF WalkIInv, Walk
  <2>2. DOMAIN walk[w].shown = 1..Len(walk[w].shown)
    BY <2>1
  <2> QED
    BY <2>1, <2>2 DEF WalkGood, Descends, ShownOn, D!Range
<1> QED
  BY <1>1, WalkInit, WalkStep, PTL DEF D!Spec

-----------------------------------------------------------------------------
(* QueryCache.  While no optimistic request is under way, the copy differs    *)
(* from the list of the server by changes that are answered and not yet in   *)
(* the copy, unless it is marked; and whatever is still under way about an    *)
(* item whose last click stood alone asks for the same.                      *)

(* A request is one that its list has, and about an item if it is about one;  *)
(* a try that was given up has not been answered.                            *)
Suited == \A o \in Op :
    /\ op[o].left => op[o].phase \in {"sent", "held"}
    /\ C!Busy(o) => /\ op[o].kind \in C!Kinds[hook]
                    /\ op[o].phase = "cancelled" => C!Optimistic(op[o].kind)
                    /\ op[o].kind \notin {"create", "all"} => op[o].item \in Item
                    /\ op[o].kind = "create" => (op[o].item \in Item <=> op[o].phase = "ok")

(* What was answered without an error is done, and is undone only elsewhere.  *)
Truthful == \A o \in Op : op[o].phase = "ok" =>
    /\ op[o].kind = "delete" => rows[op[o].item] = "deleted"
    /\ op[o].kind = "create" => rows[op[o].item] # "none"
    /\ op[o].kind = "all" => C!Live = {}

(* A search that does not exist yet is neither shown nor wished away.         *)
Known == hook = "searches" => \A i \in Item : rows[i] = "none" =>
    i \notin C!Shown \cup fetch.seen /\ wish[i] = "none"

(* A change that is answered, and not yet in the copy.                        *)
Unconfirmed(i) == \E o \in Op : op[o].phase = "ok" /\ ~C!Optimistic(op[o].kind) /\ i \in C!Touched(o)
Explained(S) == \A i \in Item : (i \in S <=> i \in C!Live) \/ Unconfirmed(i)
Calm == \A o \in Op : C!Waiting(o) => ~C!Optimistic(op[o].kind)

(* Where no request is ahead of its answer, the copy and the answer of a fetch *)
(* differ from the list of the server by such changes only, unless they are    *)
(* known not to.                                                              *)
Accounted == Calm =>
    /\ cache # Unset /\ ~unsynced /\ (hook = "searches" \/ ~invalid) => Explained(cache)
    /\ fetch.phase = "read" /\ fetch.clean => Explained(fetch.seen)

(* What is under way about an item with a last click is that click, and the   *)
(* first try of it.                                                          *)
About(o, i) == C!Busy(o) /\ i \in C!Touched(o)
WishHeld(i) == wish[i] # "none" =>
    /\ \A o \in Op : About(o, i) =>
        /\ C!Adds(op[o].kind) <=> wish[i] = "in"
        /\ op[o].phase = "held" /\ op[o].kind = "add" /\ op[o].found = "live" => rows[i] = "live"
        /\ op[o].phase = "ok" => (rows[i] = "live" <=> wish[i] = "in")
    /\ (\A o \in Op : C!Waiting(o) => i \notin C!Touched(o)) => (rows[i] = "live" <=> wish[i] = "in")
WishesHeld == \A i \in Item : WishHeld(i)

CopyIInv == C!TypeOK /\ Suited /\ Truthful /\ Known /\ Accounted /\ WishesHeld

LEMMA Kinded == hook \in Hook =>
    /\ C!Kinds[hook] \subseteq C!Kind
    /\ \A k \in C!Kinds[hook] : /\ hook = "searches" => k \in {"create", "delete"}
                                /\ hook # "searches" => k \in {"add", "remove", "read", "all"}
                                /\ hook = "inbox" => k \in {"read", "all"}
                                /\ k \in {"read", "all"} => hook = "inbox"
BY ListParameters DEF C!Kinds, C!Kind

(* The records of a request and of a fetch.                                   *)
Request == [phase : {"idle", "cancelled", "sent", "held", "ok", "refused"},
            kind : C!Kind, item : Item \cup {Unset}, tries : 0..1, found : {"none", "live", "deleted"},
            previous : (SUBSET Item) \cup {Unset}, left : BOOLEAN]
Fetching == [phase : {"none", "asked", "read"}, seen : SUBSET Item, clean : BOOLEAN]

LEMMA Blank ==
    /\ C!Fresh \in Request /\ C!Fresh.phase = "idle" /\ ~C!Fresh.left
    /\ C!NoFetch \in Fetching /\ C!NoFetch.phase = "none" /\ C!NoFetch.seen = {}
    /\ C!Asked \in Fetching /\ C!Asked.phase = "asked" /\ C!Asked.seen = {}
<1>1. C!Fresh \in Request /\ C!Fresh.phase = "idle" /\ ~C!Fresh.left
  BY DEF C!Fresh, Request, C!Kind
<1>2. C!NoFetch \in Fetching /\ C!NoFetch.phase = "none" /\ C!NoFetch.seen = {}
  BY DEF C!NoFetch, Fetching
<1>3. C!Asked \in Fetching /\ C!Asked.phase = "asked" /\ C!Asked.seen = {}
  BY <1>2 DEF C!Asked, Fetching
<1> QED
  BY <1>1, <1>2, <1>3

LEMMA CopyInit == C!Init => CopyIInv
<1> SUFFICES ASSUME C!Init PROVE CopyIInv
  OBVIOUS
<1>1. C!TypeOK
  <2>1. rows \in [Item -> {"none", "live", "deleted"}]
    BY DEF C!Init
  <2> QED
    BY <2>1, Blank DEF C!Init, C!TypeOK, Request, Fetching
<1>2. \A o \in Op : op[o].phase = "idle" /\ ~op[o].left
  BY DEF C!Init, C!Fresh
<1>3. Suited /\ Truthful
  BY <1>2 DEF Suited, Truthful, C!Busy
<1>4. Known /\ Accounted
  BY DEF C!Init, Known, Accounted, C!Shown, C!NoFetch
<1>5. WishesHeld
  BY DEF C!Init, WishesHeld, WishHeld
<1> QED
  BY <1>1, <1>3, <1>4, <1>5 DEF CopyIInv

LEMMA CopyFetched ==
    ASSUME CopyIInv, C!Mount \/ C!ListMine \/ C!FetchDone \/ C!FetchFails
    PROVE  CopyIInv'
<1>1. /\ UNCHANGED <<hook, rows, op, wish>>
      /\ cache' = cache \/ cache' = fetch.seen
  BY DEF C!Mount, C!ListMine, C!FetchDone, C!FetchFails, C!server, C!history
<1>2. C!TypeOK'
  <2>1. fetch \in Fetching /\ fetch' \in Fetching
    <3>1. fetch \in Fetching /\ C!Live \subseteq Item
      BY DEF CopyIInv, C!TypeOK, Fetching, C!Live
    <3>2. fetch' \in {C!Asked, C!NoFetch, [fetch EXCEPT !.phase = "read", !.seen = C!Live]}
      BY DEF C!Mount, C!ListMine, C!FetchDone, C!FetchFails
    <3>3. [fetch EXCEPT !.phase = "read", !.seen = C!Live] \in Fetching
      BY <3>1 DEF Fetching
    <3> QED
      BY <3>1, <3>2, <3>3, Blank
  <2>2. cache' \in (SUBSET Item) \cup {Unset}
    BY <1>1, <2>1 DEF CopyIInv, C!TypeOK, Fetching
  <2>3. invalid' \in BOOLEAN /\ unsynced' \in BOOLEAN
    BY <2>1 DEF CopyIInv, C!TypeOK, Fetching, C!Mount, C!ListMine, C!FetchDone, C!FetchFails, C!history
  <2> QED
    BY <1>1, <2>1, <2>2, <2>3 DEF CopyIInv, C!TypeOK, Fetching
<1>3. Suited' /\ Truthful' /\ WishesHeld'
  BY <1>1 DEF CopyIInv, Suited, Truthful, WishesHeld, WishHeld, About, C!Waiting, C!Busy, C!Touched, C!Live
<1>4. Known'
  <2>1. fetch'.seen \in {fetch.seen, {}, C!Live}
    BY Blank DEF CopyIInv, C!TypeOK, C!Mount, C!ListMine, C!FetchDone, C!FetchFails
  <2>2. C!Shown' \subseteq C!Shown \cup fetch.seen
    BY <1>1 DEF C!Shown
  <2> QED
    BY <1>1, <2>1, <2>2 DEF CopyIInv, Known, C!Live
<1>5. Accounted'
  <2>1. /\ Calm' <=> Calm
        /\ \A i : Unconfirmed(i)' <=> Unconfirmed(i)
        /\ C!Live' = C!Live /\ C!Live \subseteq Item
    BY <1>1 DEF Calm, Unconfirmed, C!Waiting, C!Busy, C!Touched, C!Live
  <2>2. CASE C!Mount
    BY <1>1, <2>1, <2>2 DEF CopyIInv, Accounted, Explained, C!Mount, C!Asked, C!NoFetch, C!history
  <2>3. CASE C!ListMine
    <3>1. fetch'.seen = C!Live /\ UNCHANGED <<cache, invalid, unsynced>>
      BY <2>3 DEF CopyIInv, C!TypeOK, C!ListMine, C!history
    <3> QED
      BY <1>1, <2>1, <3>1 DEF CopyIInv, Accounted, Explained
  <2>4. CASE C!FetchDone
    <3>1. fetch'.phase = "none" /\ cache' = fetch.seen /\ unsynced' = ~fetch.clean /\ fetch.phase = "read"
      BY <2>4 DEF C!FetchDone, C!NoFetch
    <3> QED
      BY <1>1, <2>1, <3>1 DEF CopyIInv, Accounted, Explained
  <2>5. CASE C!FetchFails
    <3>1. fetch'.phase # "read" /\ UNCHANGED <<cache, unsynced>> /\ (invalid' = invalid \/ invalid')
      BY <2>5, Blank DEF CopyIInv, C!TypeOK, C!FetchFails, C!history
    <3> QED
      BY <1>1, <2>1, <3>1 DEF CopyIInv, Accounted, Explained
  <2> QED
    BY <2>2, <2>3, <2>4, <2>5
<1> QED
  BY <1>2, <1>3, <1>4, <1>5 DEF CopyIInv

(* One request changes, and the others do not.                                *)
LEMMA OneRequest ==
    ASSUME CopyIInv, NEW o \in Op, NEW f \in Request, op' = [op EXCEPT ![o] = f]
    PROVE  /\ op \in [Op -> Request] /\ op' \in [Op -> Request] /\ op'[o] = f
           /\ \A p \in Op : p # o => /\ op'[p] = op[p] /\ C!Touched(p)' = C!Touched(p)
                                     /\ (C!Busy(p)' <=> C!Busy(p)) /\ (C!Waiting(p)' <=> C!Waiting(p))
                                     /\ \A i : About(p, i)' <=> About(p, i)
<1>1. op \in [Op -> Request]
  BY DEF CopyIInv, C!TypeOK, Request
<1>2. op' \in [Op -> Request] /\ op'[o] = f /\ \A p \in Op : p # o => op'[p] = op[p]
  BY <1>1
<1> QED
  BY <1>1, <1>2 DEF About, C!Touched, C!Waiting, C!Busy

(* While a request is ahead of its answer nothing is asked of the copy.       *)
LEMMA AheadOfAnswer ==
    ASSUME NEW o \in Op, op'[o].phase # "idle", ~op'[o].left, C!Optimistic(op'[o].kind)
    PROVE  Accounted'
BY DEF Accounted, Calm, C!Waiting, C!Busy, C!Optimistic

(* A request that goes on, about the same items, without an answer.           *)
LEMMA RequestGoesOn ==
    ASSUME CopyIInv, NEW o \in Op, C!Busy(o), op[o].phase # "ok" \/ C!Optimistic(op[o].kind),
           NEW f \in Request, op' = [op EXCEPT ![o] = f],
           f.kind = op[o].kind, f.item = op[o].item, f.left = op[o].left,
           f.phase \in {"sent", "held"} \/ (f.phase = "refused" /\ ~f.left),
           f.phase = "held" /\ f.kind = "add" /\ f.found = "live" => rows[f.item] = "live",
           UNCHANGED <<hook, rows, fetch, unsynced, wish>>,
           \/ UNCHANGED <<cache, invalid>>
           \/ /\ C!Optimistic(f.kind) /\ ~f.left
              /\ cache' \in (SUBSET Item) \cup {Unset} /\ invalid' \in BOOLEAN
    PROVE  CopyIInv'
<1>0. C!Optimistic(f.kind) => hook # "searches"
  BY Kinded DEF CopyIInv, C!TypeOK, Suited, C!Optimistic
<1>1. /\ op' \in [Op -> Request] /\ op'[o] = f
      /\ \A p \in Op : p # o => /\ op'[p] = op[p] /\ (C!Waiting(p)' <=> C!Waiting(p))
                                /\ \A i : About(p, i)' <=> About(p, i)
  BY OneRequest
<1>2. C!Live' = C!Live /\ (C!Waiting(o)' <=> C!Waiting(o)) /\ C!Touched(o)' = C!Touched(o)
  BY <1>1 DEF C!Live, C!Waiting, C!Busy, C!Touched
<1>3. C!TypeOK'
  BY <1>1 DEF CopyIInv, C!TypeOK, Request
<1>4. Suited'
  BY <1>1 DEF CopyIInv, Suited, C!Busy, C!Optimistic
<1>5. Truthful'
  BY <1>1, <1>2 DEF CopyIInv, Truthful
<1>6. Known'
  BY <1>0 DEF CopyIInv, Known, C!Shown
<1>7. Accounted'
  <2>1. CASE C!Optimistic(f.kind) /\ ~f.left
    BY <1>1, <2>1, AheadOfAnswer
  <2>2. CASE ~(C!Optimistic(f.kind) /\ ~f.left)
    <3>0. op[o].phase # "ok" \/ C!Optimistic(op[o].kind)
      OBVIOUS
    <3>1. \A i : Unconfirmed(i)' <=> Unconfirmed(i)
      BY <1>1, <3>0 DEF Unconfirmed, C!Touched
    <3>2. Calm' <=> Calm
      BY <1>1, <1>2 DEF Calm
    <3> QED
      BY <1>2, <2>2, <3>1, <3>2 DEF CopyIInv, Accounted, Explained
  <2> QED
    BY <2>1, <2>2
<1>8. WishesHeld'
  <2> SUFFICES ASSUME NEW i \in Item, wish[i] # "none" PROVE WishHeld(i)'
    BY DEF WishesHeld, WishHeld
  <2>1. \A p \in Op : /\ About(p, i)' <=> About(p, i)
                      /\ (C!Waiting(p) => i \notin C!Touched(p))' <=> (C!Waiting(p) => i \notin C!Touched(p))
    BY <1>1, <1>2 DEF About, C!Touched, C!Busy
  <2>2. WishHeld(i)
    BY DEF CopyIInv, WishesHeld
  <2>3. About(o, i) /\ f.kind = "add" => f.item = i
    BY DEF About, C!Touched
  <2> QED
    BY <1>1, <2>1, <2>2, <2>3 DEF WishHeld, C!Adds
<1> QED
  BY <1>3, <1>4, <1>5, <1>6, <1>7, <1>8 DEF CopyIInv

(* A change that did not reach the copy leaves it in doubt, and a fetch too.  *)
LEMMA Doubted ==
    ASSUME CopyIInv, NEW c \in BOOLEAN, C!Doubt(c)
    PROVE  /\ fetch' \in Fetching /\ fetch'.seen = fetch.seen /\ fetch'.phase = fetch.phase
           /\ unsynced' \in BOOLEAN /\ (unsynced' <=> unsynced \/ c)
           /\ fetch'.clean => fetch.clean
           /\ ~c => fetch' = fetch
           /\ c /\ fetch.phase = "read" => ~fetch'.clean
<1>1. fetch \in Fetching /\ unsynced \in BOOLEAN
  BY DEF CopyIInv, C!TypeOK, Fetching
<1>2. fetch' = [fetch EXCEPT !.clean = fetch.clean /\ (fetch.phase # "read" \/ ~c)]
  BY DEF C!Doubt
<1>3. (fetch.clean /\ (fetch.phase # "read" \/ ~c)) \in BOOLEAN
  OBVIOUS
<1>4. fetch' \in Fetching /\ fetch'.seen = fetch.seen /\ fetch'.phase = fetch.phase
  BY <1>1, <1>2, <1>3 DEF Fetching
<1>5. fetch'.clean <=> fetch.clean /\ (fetch.phase # "read" \/ ~c)
  BY <1>1, <1>2 DEF Fetching
<1>6. ~c => fetch' = fetch
  <2> SUFFICES ASSUME ~c PROVE fetch' = fetch
    OBVIOUS
  <2>1. (fetch.clean /\ (fetch.phase # "read" \/ ~c)) = fetch.clean
    BY <1>1 DEF Fetching
  <2> QED
    BY <1>1, <1>2, <2>1 DEF Fetching
<1>7. unsynced' \in BOOLEAN /\ (unsynced' <=> unsynced \/ c)
  BY <1>1 DEF C!Doubt
<1> QED
  BY <1>4, <1>5, <1>6, <1>7

(* What is left of a try that was given up.                                   *)
LEMMA AbandonedTry ==
    ASSUME CopyIInv, NEW o \in Op
    PROVE  /\ C!Abandoned(o) \in Request /\ C!Abandoned(o).left /\ C!Abandoned(o).phase = op[o].phase
           /\ C!Abandoned(o).kind = op[o].kind /\ C!Abandoned(o).item = op[o].item
           /\ C!Abandoned(o).found = op[o].found
           /\ C!Unanswered(o) <=> op[o].phase \in {"sent", "held"}
<1>1. op[o] \in Request
  BY DEF CopyIInv, C!TypeOK, Request
<1>2. C!Abandoned(o) = [op[o] EXCEPT !.left = TRUE, !.tries = 0, !.previous = Unset]
  BY DEF C!Abandoned
<1>3. C!Unanswered(o) <=> op[o].phase \in {"sent", "held"}
  BY DEF C!Unanswered
<1>4. 0 \in 0..1 /\ Unset \in (SUBSET Item) \cup {Unset} /\ TRUE \in BOOLEAN
  OBVIOUS
<1> QED
  BY <1>1, <1>2, <1>3, <1>4 DEF Request

(* A request that is over, or given up while its handler may still run, and    *)
(* what was clicked of its items known or forgotten.                          *)
LEMMA RequestOver ==
    ASSUME CopyIInv, NEW o \in Op, C!Busy(o), UNCHANGED <<hook, rows>>,
           \/ /\ op' = [op EXCEPT ![o] = C!Fresh]
              /\ (UNCHANGED wish /\ (op[o].phase = "ok" \/ op[o].left)) \/ C!Forget(o)
           \/ /\ op' = [op EXCEPT ![o] = C!Abandoned(o)] /\ C!Unanswered(o)
              /\ C!Forget(o)
    PROVE  /\ op' \in [Op -> Request] /\ wish' \in [Item -> {"none", "in", "out"}]
           /\ Suited' /\ Truthful' /\ WishesHeld' /\ C!Live' = C!Live
           /\ (op[o].left \/ ~C!Optimistic(op[o].kind)) /\ Calm' => Calm
           /\ \A i \in Item : rows[i] = "none" => (hook = "searches" => wish'[i] = "none")
           /\ \A i : /\ Unconfirmed(i)' => Unconfirmed(i)
                     /\ Unconfirmed(i) => \/ Unconfirmed(i)'
                                          \/ /\ op[o].phase = "ok" /\ ~C!Optimistic(op[o].kind)
                                             /\ i \in C!Touched(o)
<1>1. PICK f \in Request : /\ op' = [op EXCEPT ![o] = f]
                           /\ f = C!Fresh \/ (f = C!Abandoned(o) /\ C!Unanswered(o) /\ C!Forget(o))
  BY Blank, AbandonedTry
<1>2. /\ \/ f.phase = "idle" /\ ~f.left
         \/ /\ f.left /\ f.phase = op[o].phase /\ f.phase \in {"sent", "held"} /\ C!Forget(o)
            /\ f.kind = op[o].kind /\ f.item = op[o].item
      /\ f.phase # "ok"
  BY <1>1, Blank, AbandonedTry
<1>3. /\ op' \in [Op -> Request] /\ op'[o] = f
      /\ \A p \in Op : p # o => /\ op'[p] = op[p] /\ C!Touched(p)' = C!Touched(p)
                                /\ (C!Waiting(p)' <=> C!Waiting(p))
                                /\ \A i : About(p, i)' <=> About(p, i)
  BY <1>1, OneRequest
<1>4. C!Live' = C!Live /\ ~C!Waiting(o)' /\ (op[o].left => ~C!Waiting(o))
  BY <1>2, <1>3 DEF C!Live, C!Waiting, C!Busy
<1>5. \A i \in Item : /\ wish'[i] \in {"none", wish[i]}
                      /\ wish'[i] # "none" => /\ op[o].phase = "ok" \/ op[o].left \/ ~About(o, i)
                                              /\ ~About(o, i)'
  <2>1. /\ f.phase = "idle" => \A i : ~About(o, i)'
        /\ f.phase # "idle" => C!Forget(o) /\ C!Touched(o)' = C!Touched(o)
    BY <1>2, <1>3 DEF About, C!Busy, C!Touched
  <2>2. (UNCHANGED wish /\ (op[o].phase = "ok" \/ op[o].left)) \/ C!Forget(o)
    BY <1>1
  <2>3. C!Forget(o) => \A i \in Item : wish'[i] = IF i \in C!Touched(o) THEN "none" ELSE wish[i]
    BY DEF C!Forget
  <2> QED
    BY <2>1, <2>2, <2>3 DEF About
<1>6. wish' \in [Item -> {"none", "in", "out"}]
  <2>1. wish \in [Item -> {"none", "in", "out"}]
    BY DEF CopyIInv, C!TypeOK
  <2> QED
    BY <2>1 DEF C!Forget
<1>7. Suited'
  <2>1. f.phase # "idle" => /\ f.phase # "ok" /\ f.phase = op[o].phase /\ f.kind = op[o].kind
                            /\ f.item = op[o].item /\ f.phase \in {"sent", "held"}
    BY <1>2
  <2> QED
    BY <1>2, <1>3, <2>1 DEF CopyIInv, Suited, C!Busy
<1>8. Truthful'
  BY <1>2, <1>3, <1>4 DEF CopyIInv, Truthful
<1>9. WishesHeld'
  <2> SUFFICES ASSUME NEW i \in Item, wish'[i] # "none" PROVE WishHeld(i)'
    BY DEF WishesHeld, WishHeld
  <2>1. /\ WishHeld(i) /\ wish'[i] = wish[i] /\ ~About(o, i)'
        /\ op[o].phase = "ok" \/ ~C!Waiting(o) \/ ~About(o, i)
    BY <1>4, <1>5 DEF CopyIInv, WishesHeld
  <2>2. (C!Waiting(o) => i \notin C!Touched(o)) \/ (About(o, i) /\ op[o].phase = "ok")
    BY <2>1 DEF About, C!Waiting
  <2>3. (rows[i] = "live" <=> wish[i] = "in") \/ ~(\A p \in Op : p # o => (C!Waiting(p) => i \notin C!Touched(p)))
    BY <2>1, <2>2 DEF WishHeld
  <2> QED
    BY <1>3, <1>4, <2>1, <2>3 DEF WishHeld
<1>10. (op[o].left \/ ~C!Optimistic(op[o].kind)) /\ Calm' => Calm
  BY <1>3, <1>4 DEF Calm
<1>11. \A i \in Item : rows[i] = "none" => (hook = "searches" => wish'[i] = "none")
  BY <1>5 DEF CopyIInv, Known
<1>12. ASSUME NEW i
       PROVE  /\ Unconfirmed(i)' => Unconfirmed(i)
              /\ Unconfirmed(i) => \/ Unconfirmed(i)'
                                   \/ /\ op[o].phase = "ok" /\ ~C!Optimistic(op[o].kind)
                                      /\ i \in C!Touched(o)
  BY <1>2, <1>3 DEF Unconfirmed
<1> QED
  BY <1>3, <1>4, <1>6, <1>7, <1>8, <1>9, <1>10, <1>11, <1>12

(* A try that was given up ends, and nothing else changes.                    *)
LEMMA StrayGone ==
    ASSUME CopyIInv, NEW o \in Op, op[o].left, op' = [op EXCEPT ![o] = C!Fresh],
           UNCHANGED <<hook, rows, cache, invalid, fetch, unsynced, wish>>
    PROVE  CopyIInv'
<1>1. C!Busy(o) /\ op[o].phase # "ok"
  BY DEF CopyIInv, Suited, C!Busy
<1>2. /\ op' \in [Op -> Request] /\ Suited' /\ Truthful' /\ WishesHeld' /\ C!Live' = C!Live
      /\ Calm' => Calm
      /\ \A i : Unconfirmed(i)' <=> Unconfirmed(i)
  BY <1>1, RequestOver
<1>3. C!TypeOK'
  BY <1>2 DEF CopyIInv, C!TypeOK, Request
<1>4. Known' /\ Accounted'
  BY <1>2 DEF CopyIInv, Known, Accounted, Explained, C!Shown
<1> QED
  BY <1>2, <1>3, <1>4 DEF CopyIInv

(* What a handler answers if it commits nothing.                              *)
LEMMA NothingCommitted ==
    ASSUME CopyIInv, NEW o \in Op, op[o].phase \in {"sent", "held"}, C!Answer(o, "refused"),
           UNCHANGED <<hook, rows, cache, invalid, fetch, unsynced, wish>>
    PROVE  CopyIInv'
<1> DEFINE r == [op[o] EXCEPT !.phase = "refused"]
<1>1. op \in [Op -> Request]
  BY DEF CopyIInv, C!TypeOK, Request
<1>2. /\ r \in Request /\ r.phase = "refused" /\ r.kind = op[o].kind /\ r.item = op[o].item
      /\ r.left = op[o].left
      /\ ~op[o].left => op' = [op EXCEPT ![o] = r]
      /\ op[o].left => op' = [op EXCEPT ![o] = C!Fresh]
  BY <1>1 DEF Request, C!Answer
<1> HIDE DEF r
<1>3. CASE op[o].left
  BY <1>2, <1>3, StrayGone
<1>4. CASE ~op[o].left
  BY <1>2, <1>4, RequestGoesOn DEF C!Busy
<1> QED
  BY <1>3, <1>4

LEMMA CopyRead ==
    ASSUME CopyIInv, NEW o \in Op, C!AddRead(o) \/ C!RemoveRead(o)
    PROVE  CopyIInv'
<1>1. /\ op \in [Op -> Request] /\ op[o].phase = "sent" /\ op[o].item \in Item
      /\ rows \in [Item -> {"none", "live", "deleted"}]
  BY DEF CopyIInv, C!TypeOK, Request, Suited, C!AddRead, C!RemoveRead, C!Busy
<1>2. UNCHANGED <<hook, rows, cache, invalid, fetch, unsynced, wish>>
  BY DEF C!AddRead, C!RemoveRead, C!server, C!browser, C!history
<1>3. CASE C!AddRead(o)
  <2> DEFINE f == [op[o] EXCEPT !.phase = "held", !.found = rows[op[o].item]]
  <2>1. f \in Request /\ op' = [op EXCEPT ![o] = f]
    BY <1>1, <1>3 DEF C!AddRead, C!Find, Request
  <2>2. /\ f.phase = "held" /\ f.kind = op[o].kind /\ f.item = op[o].item /\ f.left = op[o].left
        /\ f.found = rows[op[o].item]
    BY <1>1 DEF Request
  <2> HIDE DEF f
  <2> QED
    BY <1>1, <1>2, <2>1, <2>2, RequestGoesOn DEF C!Busy
<1>4. CASE C!RemoveRead(o)
  <2> DEFINE g == [op[o] EXCEPT !.phase = "held", !.found = "live"]
  <2>1. /\ g \in Request
        /\ op' = [op EXCEPT ![o] = g] \/ C!Answer(o, "refused")
    BY <1>1, <1>4 DEF C!RemoveRead, C!Find, Request
  <2>2. g.phase = "held" /\ g.kind = op[o].kind /\ g.item = op[o].item /\ g.left = op[o].left
    BY <1>1 DEF Request
  <2>3. op[o].kind # "add"
    BY <1>4 DEF C!RemoveRead
  <2> HIDE DEF g
  <2>4. CASE op' = [op EXCEPT ![o] = g]
    BY <1>1, <1>2, <2>1, <2>2, <2>3, <2>4, RequestGoesOn DEF C!Busy
  <2>5. CASE C!Answer(o, "refused")
    BY <1>1, <1>2, <2>5, NothingCommitted
  <2> QED
    BY <2>1, <2>4, <2>5
<1> QED
  BY <1>3, <1>4

(* The items that a request r is about, and what a request of kind k does to   *)
(* the rows of S.                                                             *)
Items(r) == IF r.kind = "all" THEN Item ELSE {r.item}
Writes(k, S) ==
    /\ rows' \in [Item -> {"none", "live", "deleted"}]
    /\ \A i \in Item : /\ rows'[i] = "none" => rows[i] = "none"
                       /\ i \notin S => rows'[i] = rows[i]
                       /\ i \in S /\ wish[i] # "none" => (rows'[i] = "live" <=> C!Adds(k))
                       /\ i \in S /\ k \in {"read", "all"} => rows'[i] # "live"
                       /\ i \in S /\ k = "delete" => rows'[i] = "deleted"
                       /\ i \in S /\ k = "create" => rows'[i] # "none" /\ rows[i] = "none"

(* What is written bears out the answers of the others, and the last clicks.  *)
LEMMA OthersBorneOut ==
    ASSUME CopyIInv, NEW o \in Op, C!Busy(o), NEW S \in SUBSET Item, Writes(op[o].kind, S),
           op[o].kind # "create" => S = Items(op[o]), UNCHANGED <<hook, wish>>
    PROVE  /\ \A p \in Op : op[p].phase = "ok" =>
                /\ op[p].kind = "delete" => rows'[op[p].item] = "deleted"
                /\ op[p].kind = "create" => rows'[op[p].item] # "none"
                /\ op[p].kind = "all" => C!Live' = {}
           /\ \A i \in S : wish[i] # "none" => /\ rows'[i] = "live" <=> wish[i] = "in"
                                               /\ About(o, i)
<1>1. /\ hook \in Hook /\ op[o].kind \in C!Kinds[hook] /\ op[o].kind \in C!Kind
      /\ rows \in [Item -> {"none", "live", "deleted"}]
  BY Kinded DEF CopyIInv, C!TypeOK, Suited
<1>2. ASSUME NEW p \in Op, op[p].phase = "ok"
      PROVE  /\ op[p].kind = "delete" => rows'[op[p].item] = "deleted"
             /\ op[p].kind = "create" => rows'[op[p].item] # "none"
             /\ op[p].kind = "all" => C!Live' = {}
  <2>1. /\ op[p].kind \in C!Kinds[hook]
        /\ op[p].kind = "all" \/ op[p].item \in Item
        /\ op[p].kind = "delete" => rows[op[p].item] = "deleted"
        /\ op[p].kind = "create" => rows[op[p].item] # "none"
        /\ op[p].kind = "all" => C!Live = {}
    BY <1>2 DEF CopyIInv, Truthful, Suited, C!Busy
  <2>2. ASSUME op[p].kind = "delete" PROVE rows'[op[p].item] = "deleted"
    <3>1. op[o].kind \in {"create", "delete"} /\ op[p].item \in Item /\ rows[op[p].item] = "deleted"
      BY <1>1, <2>1, <2>2, Kinded
    <3> QED
      BY <3>1 DEF Writes
  <2>3. ASSUME op[p].kind = "all" PROVE C!Live' = {}
    <3>1. op[o].kind \in {"read", "all"}
      BY <1>1, <2>1, <2>3, Kinded
    <3> QED
      BY <2>1, <2>3, <3>1 DEF C!Live, Writes
  <2> QED
    BY <2>1, <2>2, <2>3 DEF Writes
<1>3. ASSUME NEW i \in S, wish[i] # "none" PROVE (rows'[i] = "live" <=> wish[i] = "in") /\ About(o, i)
  <2>1. op[o].kind # "create"
    <3>1. op[o].kind = "create" => hook = "searches"
      BY <1>1, Kinded, ListParameters
    <3> QED
      BY <1>3, <3>1 DEF CopyIInv, Known, Writes
  <2>2. About(o, i)
    BY <2>1 DEF About, C!Touched, Items
  <2>3. C!Adds(op[o].kind) <=> wish[i] = "in"
    BY <1>3, <2>2 DEF CopyIInv, WishesHeld, WishHeld
  <2> QED
    BY <1>3, <2>2, <2>3 DEF Writes
<1> QED
  BY <1>2, <1>3

(* A request that commits, and is answered without an error: the browser waits *)
(* for the answer.                                                            *)
LEMMA AnswerCommitted ==
    ASSUME CopyIInv, NEW o \in Op, op[o].phase \in {"sent", "held"}, ~op[o].left,
           NEW S \in SUBSET Item, Writes(op[o].kind, S), op[o].kind # "create" => S = Items(op[o]),
           NEW f \in Request, op' = [op EXCEPT ![o] = f], f.phase = "ok", f.kind = op[o].kind,
           ~f.left, Items(f) = S, op[o].kind # "create" => f.item = op[o].item,
           UNCHANGED <<hook, cache, invalid, fetch, unsynced, wish>>
    PROVE  CopyIInv'
<1>1. /\ op \in [Op -> Request] /\ op' \in [Op -> Request] /\ op'[o] = f
      /\ \A p \in Op : p # o => /\ op'[p] = op[p] /\ C!Touched(p)' = C!Touched(p)
                                /\ (C!Waiting(p)' <=> C!Waiting(p))
                                /\ \A i : About(p, i)' <=> About(p, i)
  BY OneRequest
<1>2. C!Waiting(o) /\ C!Waiting(o)' /\ C!Busy(o) /\ C!Busy(o)' /\ C!Touched(o)' = S
  BY <1>1 DEF C!Waiting, C!Busy, C!Touched, Items
<1>3. /\ \A p \in Op : op[p].phase = "ok" =>
           /\ op[p].kind = "delete" => rows'[op[p].item] = "deleted"
           /\ op[p].kind = "create" => rows'[op[p].item] # "none"
           /\ op[p].kind = "all" => C!Live' = {}
      /\ \A i \in S : wish[i] # "none" => (rows'[i] = "live" <=> wish[i] = "in") /\ About(o, i)
  BY <1>2, OthersBorneOut
<1>4. op[o].kind \in C!Kinds[hook] /\ (f.kind = "all" \/ f.item \in Item)
  BY <1>2 DEF CopyIInv, Suited, Items
<1>5. C!TypeOK'
  BY <1>1 DEF CopyIInv, C!TypeOK, Request, Writes
<1>6. Suited'
  BY <1>1, <1>4 DEF CopyIInv, Suited, C!Busy
<1>7. Truthful'
  <2>1. /\ f.kind = "delete" => rows'[f.item] = "deleted"
        /\ f.kind = "create" => rows'[f.item] # "none"
        /\ f.kind = "all" => C!Live' = {}
    BY <1>4 DEF Items, C!Live, Writes
  <2> QED
    BY <1>1, <1>3, <2>1 DEF Truthful
<1>8. Known'
  BY DEF CopyIInv, Known, C!Shown, Writes
<1>9. Accounted'
  <2>1. CASE C!Optimistic(f.kind)
    BY <1>1, <2>1, AheadOfAnswer
  <2>2. CASE ~C!Optimistic(f.kind)
    <3>1. Calm' => Calm
      BY <1>1, <1>2, <2>2 DEF Calm
    <3>2. \A i \in S : Unconfirmed(i)'
      BY <1>1, <1>2, <2>2 DEF Unconfirmed
    <3>3. ASSUME NEW i \in Item, i \notin S
          PROVE  (i \in C!Live' <=> i \in C!Live) /\ (Unconfirmed(i) => Unconfirmed(i)')
      BY <1>1, <3>3 DEF Unconfirmed, C!Live, Writes
    <3> QED
      BY <3>1, <3>2, <3>3 DEF CopyIInv, Accounted, Explained
  <2> QED
    BY <2>1, <2>2
<1>10. WishesHeld'
  <2> SUFFICES ASSUME NEW i \in Item, wish[i] # "none" PROVE WishHeld(i)'
    BY DEF WishesHeld, WishHeld
  <2>1. WishHeld(i)
    BY DEF CopyIInv, WishesHeld
  <2>2. CASE i \in S
    <3>1. (rows'[i] = "live" <=> wish[i] = "in") /\ About(o, i)
      BY <1>3, <2>2
    <3>2. \A p \in Op : About(p, i)' => About(p, i)
      BY <1>1, <3>1
    <3>3. ASSUME NEW p \in Op, About(p, i)'
          PROVE  /\ C!Adds(op'[p].kind) <=> wish[i] = "in"
                 /\ op'[p].phase = "held" /\ op'[p].kind = "add" /\ op'[p].found = "live" => rows'[i] = "live"
      BY <1>1, <2>1, <3>1, <3>2, <3>3 DEF WishHeld, C!Adds
    <3> QED
      BY <3>1, <3>3 DEF WishHeld
  <2>3. CASE i \notin S
    <3>1. rows'[i] = rows[i]
      BY <2>3 DEF Writes
    <3>2. ~About(o, i)' /\ (C!Waiting(o) => i \notin C!Touched(o))'
      BY <1>2, <2>3 DEF About
    <3>3. i \notin C!Touched(o)
      <4>1. CASE op[o].kind = "create"
        BY <1>2, <4>1, ListParameters DEF CopyIInv, Suited, C!Touched
      <4>2. CASE op[o].kind # "create"
        BY <2>3, <4>2 DEF C!Touched, Items
      <4> QED
        BY <4>1, <4>2
    <3> QED
      BY <1>1, <2>1, <3>1, <3>2, <3>3 DEF WishHeld
  <2> QED
    BY <2>2, <2>3
<1> QED
  BY <1>5, <1>6, <1>7, <1>8, <1>9, <1>10 DEF CopyIInv

(* A try that was given up commits: nobody fetches what it changed.           *)
LEMMA StrayCommitted ==
    ASSUME CopyIInv, NEW o \in Op, op[o].left,
           NEW S \in SUBSET Item, Writes(op[o].kind, S), op[o].kind # "create" => S = Items(op[o]),
           op' = [op EXCEPT ![o] = C!Fresh], C!Doubt(rows' # rows),
           UNCHANGED <<hook, cache, invalid, wish>>
    PROVE  CopyIInv'
<1>1. /\ op' \in [Op -> Request] /\ op'[o].phase = "idle" /\ ~op'[o].left
      /\ \A p \in Op : p # o => /\ op'[p] = op[p] /\ C!Touched(p)' = C!Touched(p)
                                /\ (C!Waiting(p)' <=> C!Waiting(p))
                                /\ \A i : About(p, i)' <=> About(p, i)
  BY Blank, OneRequest
<1>2. C!Busy(o) /\ ~C!Busy(o)' /\ ~C!Waiting(o) /\ ~C!Waiting(o)' /\ op[o].phase # "ok"
  BY <1>1 DEF CopyIInv, Suited, C!Busy, C!Waiting
<1>3. /\ \A p \in Op : op[p].phase = "ok" =>
           /\ op[p].kind = "delete" => rows'[op[p].item] = "deleted"
           /\ op[p].kind = "create" => rows'[op[p].item] # "none"
           /\ op[p].kind = "all" => C!Live' = {}
      /\ \A i \in S : wish[i] # "none" => (rows'[i] = "live" <=> wish[i] = "in") /\ About(o, i)
  BY <1>2, OthersBorneOut
<1>4. /\ fetch' \in Fetching /\ fetch'.seen = fetch.seen /\ fetch'.phase = fetch.phase
      /\ unsynced' \in BOOLEAN
      /\ rows' # rows => unsynced' /\ (fetch.phase = "read" => ~fetch'.clean)
      /\ rows' = rows => fetch' = fetch /\ unsynced' = unsynced
  <2> DEFINE c == rows' # rows
  <2>1. C!Doubt(c) /\ c \in BOOLEAN /\ unsynced \in BOOLEAN
    BY DEF CopyIInv, C!TypeOK
  <2>2. (c <=> rows' # rows)
    OBVIOUS
  <2> HIDE DEF c
  <2>3. /\ fetch' \in Fetching /\ fetch'.seen = fetch.seen /\ fetch'.phase = fetch.phase
        /\ unsynced' \in BOOLEAN /\ (unsynced' <=> unsynced \/ c)
        /\ ~c => fetch' = fetch
        /\ c /\ fetch.phase = "read" => ~fetch'.clean
    BY <2>1, Doubted
  <2> QED
    BY <2>1, <2>2, <2>3
<1>5. C!TypeOK'
  BY <1>1, <1>4 DEF CopyIInv, C!TypeOK, Request, Fetching, Writes
<1>6. Suited'
  BY <1>1 DEF CopyIInv, Suited, C!Busy
<1>7. Truthful'
  BY <1>1, <1>3 DEF Truthful
<1>8. Known'
  BY <1>4 DEF CopyIInv, Known, C!Shown, Writes
<1>9. Accounted'
  <2>1. CASE rows' # rows
    BY <1>4, <2>1 DEF Accounted
  <2>2. CASE rows' = rows
    <3>1. (Calm' => Calm) /\ C!Live' = C!Live
      BY <1>1, <1>2, <2>2 DEF Calm, C!Live
    <3>2. \A i : Unconfirmed(i)' <=> Unconfirmed(i)
      BY <1>1, <1>2 DEF Unconfirmed
    <3> QED
      BY <1>4, <2>2, <3>1, <3>2 DEF CopyIInv, Accounted, Explained
  <2> QED
    BY <2>1, <2>2
<1>10. WishesHeld'
  <2> SUFFICES ASSUME NEW i \in Item, wish[i] # "none" PROVE WishHeld(i)'
    BY DEF WishesHeld, WishHeld
  <2>1. WishHeld(i) /\ ~About(o, i)'
    BY <1>2 DEF CopyIInv, WishesHeld, About
  <2>2. CASE i \in S
    <3>1. (rows'[i] = "live" <=> wish[i] = "in") /\ About(o, i)
      BY <1>3, <2>2
    <3>2. \A p \in Op : About(p, i)' => About(p, i)
      BY <1>1, <3>1
    <3>3. ASSUME NEW p \in Op, About(p, i)'
          PROVE  /\ C!Adds(op'[p].kind) <=> wish[i] = "in"
                 /\ op'[p].phase = "held" /\ op'[p].kind = "add" /\ op'[p].found = "live" => rows'[i] = "live"
      BY <1>1, <2>1, <3>1, <3>2, <3>3 DEF WishHeld, C!Adds
    <3> QED
      BY <3>1, <3>3 DEF WishHeld
  <2>3. CASE i \notin S
    <3>1. rows'[i] = rows[i]
      BY <2>3 DEF Writes
    <3> QED
      BY <1>1, <1>2, <2>1, <3>1 DEF WishHeld
  <2> QED
    BY <2>2, <2>3
<1> QED
  BY <1>5, <1>6, <1>7, <1>8, <1>9, <1>10 DEF CopyIInv

(* A request that commits, whether anybody waits for its answer or not.       *)
LEMMA RequestCommitted ==
    ASSUME CopyIInv, NEW o \in Op, op[o].phase \in {"sent", "held"},
           NEW S \in SUBSET Item, Writes(op[o].kind, S), op[o].kind # "create" => S = Items(op[o]),
           NEW f \in Request, op' = [op EXCEPT ![o] = IF op[o].left THEN C!Fresh ELSE f],
           f.phase = "ok", f.kind = op[o].kind, f.left = op[o].left, Items(f) = S,
           op[o].kind # "create" => f.item = op[o].item,
           NEW new, C!Commit(o, new)
    PROVE  CopyIInv'
<1>1. UNCHANGED <<hook, cache, invalid, wish>> /\ C!Doubt(op[o].left /\ rows' # rows)
  BY DEF C!Commit
<1>2. CASE op[o].left
  <2>1. C!Doubt(rows' # rows)
    <3>1. (op[o].left /\ rows' # rows) <=> rows' # rows
      BY <1>2
    <3> QED
      BY <1>1, <3>1 DEF C!Doubt, CopyIInv, C!TypeOK
  <2>2. op' = [op EXCEPT ![o] = C!Fresh]
    BY <1>2
  <2> QED
    BY <1>1, <1>2, <2>1, <2>2, StrayCommitted
<1>3. CASE ~op[o].left
  <2> DEFINE c == op[o].left /\ rows' # rows
  <2>1. fetch' = fetch /\ unsynced' = unsynced
    <3>1. C!Doubt(c) /\ c \in BOOLEAN /\ ~c /\ unsynced \in BOOLEAN
      BY <1>1, <1>3 DEF CopyIInv, C!TypeOK
    <3> HIDE DEF c
    <3>2. unsynced' \in BOOLEAN /\ (unsynced' <=> unsynced \/ c) /\ (~c => fetch' = fetch)
      BY <3>1, Doubted
    <3> QED
      BY <3>1, <3>2
  <2>2. op' = [op EXCEPT ![o] = f]
    BY <1>3
  <2> HIDE DEF c
  <2> QED
    BY <1>1, <1>3, <2>1, <2>2, AnswerCommitted
<1> QED
  BY <1>2, <1>3

LEMMA CopyAnswered ==
    ASSUME CopyIInv, NEW o \in Op,
           \/ C!AddCommit(o) \/ C!RemoveCommit(o) \/ C!MarkRead(o) \/ C!MarkAllRead(o)
    PROVE  CopyIInv'
<1> DEFINE f == [op[o] EXCEPT !.phase = "ok"]
<1>1. /\ op \in [Op -> Request] /\ rows \in [Item -> {"none", "live", "deleted"}]
      /\ op[o].phase \in {"sent", "held"} /\ op[o].kind \in {"add", "remove", "delete", "read", "all"}
      /\ op[o].kind # "all" => op[o].item \in Item
  BY DEF CopyIInv, C!TypeOK, Request, Suited, C!Busy, C!AddCommit, C!RemoveCommit, C!MarkRead, C!MarkAllRead
<1>2. /\ f \in Request /\ f.phase = "ok" /\ f.kind = op[o].kind /\ f.item = op[o].item
      /\ f.left = op[o].left
      /\ C!Answer(o, "ok") => op' = [op EXCEPT ![o] = IF op[o].left THEN C!Fresh ELSE f]
  BY <1>1 DEF Request, C!Answer
<1>3. Items(f) = Items(op[o]) /\ Items(f) \in SUBSET Item
  BY <1>1, <1>2 DEF Items
<1> HIDE DEF f
<1>4. SUFFICES ASSUME NEW new, C!Commit(o, new), C!Answer(o, "ok"), new \in [Item -> {"none", "live", "deleted"}],
                      \A i \in Item : i \notin Items(f) => new[i] = rows[i],
                      \A i \in Items(f) : /\ new[i] = "none" => rows[i] = "none"
                                          /\ wish[i] # "none" => (new[i] = "live" <=> C!Adds(f.kind))
                                          /\ f.kind \in {"read", "all"} => new[i] # "live"
                                          /\ f.kind = "delete" => new[i] = "deleted"
               PROVE  CopyIInv'
  <2>1. CASE C!AddCommit(o)
    <3>1. op[o].kind = "add" /\ op[o].phase = "held" /\ Items(f) = {op[o].item} /\ op[o].item \in Item
      BY <1>1, <1>2, <2>1 DEF C!AddCommit, Items
    <3>2. CASE op[o].found = "none" /\ rows[op[o].item] # "none"
      BY <1>1, <2>1, <3>2, NothingCommitted DEF C!AddCommit, C!server, C!browser, C!history
    <3>3. CASE ~(op[o].found = "none" /\ rows[op[o].item] # "none")
      <4>1. C!Commit(o, IF op[o].found = "live" THEN rows ELSE [rows EXCEPT ![op[o].item] = "live"]) /\ C!Answer(o, "ok")
        BY <2>1, <3>3 DEF C!AddCommit
      <4>2. wish[op[o].item] # "none" => (op[o].found = "live" => rows[op[o].item] = "live")
        BY <3>1 DEF CopyIInv, WishesHeld, WishHeld, About, C!Busy, C!Touched
      <4> DEFINE n == IF op[o].found = "live" THEN rows ELSE [rows EXCEPT ![op[o].item] = "live"]
      <4>3. /\ n \in [Item -> {"none", "live", "deleted"}]
            /\ \A i \in Item : i # op[o].item => n[i] = rows[i]
            /\ n[op[o].item] = "live" \/ (n[op[o].item] = rows[op[o].item] /\ op[o].found = "live")
        BY <1>1, <3>1
      <4> HIDE DEF n
      <4> QED
        BY <1>2, <1>4, <3>1, <4>1, <4>2, <4>3 DEF C!Adds, n
    <3> QED
      BY <3>2, <3>3
  <2>2. CASE C!RemoveCommit(o) \/ C!MarkRead(o)
    <3>1. /\ op[o].kind \in {"remove", "delete", "read"} /\ Items(f) = {op[o].item} /\ op[o].item \in Item
          /\ C!Commit(o, [rows EXCEPT ![op[o].item] = "deleted"]) /\ C!Answer(o, "ok")
      BY <1>1, <1>2, <2>2 DEF C!RemoveCommit, C!MarkRead, Items
    <3> DEFINE n == [rows EXCEPT ![op[o].item] = "deleted"]
    <3>2. /\ n \in [Item -> {"none", "live", "deleted"}] /\ n[op[o].item] = "deleted"
          /\ \A i \in Item : i # op[o].item => n[i] = rows[i]
      BY <1>1, <3>1
    <3> HIDE DEF n
    <3> QED
      BY <1>2, <1>4, <3>1, <3>2 DEF C!Adds, n
  <2>3. CASE C!MarkAllRead(o)
    <3> DEFINE n == [i \in Item |-> IF rows[i] = "live" THEN "deleted" ELSE rows[i]]
    <3>1. op[o].kind = "all" /\ Items(f) = Item /\ C!Commit(o, n) /\ C!Answer(o, "ok")
      BY <1>2, <2>3 DEF C!MarkAllRead, Items
    <3>2. /\ n \in [Item -> {"none", "live", "deleted"}]
          /\ \A i \in Item : n[i] # "live" /\ (n[i] = "none" => rows[i] = "none")
      BY <1>1
    <3> HIDE DEF n
    <3> QED
      BY <1>2, <1>4, <3>1, <3>2 DEF C!Adds
  <2> QED
    BY <2>1, <2>2, <2>3
<1>5. rows' = new
  BY <1>4 DEF C!Commit
<1>6. Writes(op[o].kind, Items(f))
  BY <1>1, <1>2, <1>4, <1>5 DEF Writes
<1> QED
  BY <1>1, <1>2, <1>3, <1>4, <1>6, RequestCommitted

LEMMA CopyCreated ==
    ASSUME CopyIInv, NEW o \in Op, NEW i \in Item, C!Create(o, i)
    PROVE  CopyIInv'
<1> DEFINE f == [op[o] EXCEPT !.phase = "ok", !.item = i]
           n == [rows EXCEPT ![i] = "live"]
<1>1. /\ op \in [Op -> Request] /\ rows \in [Item -> {"none", "live", "deleted"}]
      /\ op[o].phase = "sent" /\ op[o].kind = "create" /\ rows[i] = "none"
      /\ C!Commit(o, n) /\ rows' = n
  BY DEF CopyIInv, C!TypeOK, Request, C!Create, C!Commit
<1>2. /\ f \in Request /\ f.phase = "ok" /\ f.kind = "create" /\ f.item = i /\ f.left = op[o].left
      /\ op' = [op EXCEPT ![o] = IF op[o].left THEN C!Fresh ELSE f]
  BY <1>1 DEF Request, C!Create
<1>3. Writes(op[o].kind, {i})
  BY <1>1 DEF Writes, C!Adds
<1> HIDE DEF f, n
<1>4. Items(f) = {i}
  BY <1>2 DEF Items
<1> QED
  BY <1>1, <1>2, <1>3, <1>4, RequestCommitted

LEMMA CopyApplied ==
    ASSUME CopyIInv, NEW o \in Op, C!Apply(o)
    PROVE  CopyIInv'
<1> DEFINE f == [op[o] EXCEPT !.phase = "sent", !.previous = cache]
<1>1. /\ op \in [Op -> Request] /\ op[o].phase = "cancelled" /\ C!Optimistic(op[o].kind) /\ ~op[o].left
      /\ op[o].item \in Item \cup {Unset} /\ cache \in (SUBSET Item) \cup {Unset} /\ invalid \in BOOLEAN
  BY DEF CopyIInv, C!TypeOK, Request, Suited, C!Busy, C!Apply
<1>2. op[o].kind \notin {"create", "delete", "all"} /\ op[o].item \in Item
  BY <1>1 DEF CopyIInv, Suited, C!Busy, C!Optimistic
<1>3. /\ f \in Request /\ f.phase = "sent" /\ f.kind = op[o].kind /\ f.item = op[o].item
      /\ f.left = op[o].left /\ op' = [op EXCEPT ![o] = f]
  BY <1>1 DEF Request, C!Apply
<1>4. UNCHANGED <<hook, rows, fetch, unsynced, wish>>
  BY DEF C!Apply, C!server, C!history
<1>5. cache' \in (SUBSET Item) \cup {Unset} /\ invalid' \in BOOLEAN
  BY <1>1, <1>2 DEF C!Apply, C!Applied, C!Touched, C!Shown
<1> HIDE DEF f
<1> QED
  BY <1>1, <1>3, <1>4, <1>5, RequestGoesOn DEF C!Busy

LEMMA CopyClicked ==
    ASSUME CopyIInv, NEW o \in Op, NEW k \in C!Kind, NEW i \in Item \cup {Unset}, C!Click(o, k, i)
    PROVE  CopyIInv'
<1> DEFINE f == [op[o] EXCEPT !.phase = IF C!Optimistic(k) THEN "cancelled" ELSE "sent", !.kind = k, !.item = i]
           touched == IF k = "all" THEN Item ELSE {i} \cap Item
<1>1. /\ op \in [Op -> Request] /\ op[o].phase = "idle" /\ hook \in Hook /\ k \in C!Kinds[hook]
      /\ C!Shown \subseteq Item /\ wish \in [Item -> {"none", "in", "out"}] /\ ~op[o].left
  BY DEF CopyIInv, C!TypeOK, Suited, Request, C!Click, C!Shown
<1>2. /\ f \in Request /\ f.kind = k /\ f.item = i /\ ~f.left /\ op' = [op EXCEPT ![o] = f]
      /\ f.phase = (IF C!Optimistic(k) THEN "cancelled" ELSE "sent")
  BY <1>1 DEF Request, C!Click
<1> HIDE DEF f
<1>3. /\ k \in {"create", "all"} => i = Unset
      /\ k \notin {"create", "all"} => i \in Item
      /\ k \in {"remove", "delete", "read"} => i \in C!Shown
  BY <1>1, ListParameters DEF C!Click, C!Offered, C!Kind
<1>4. UNCHANGED <<hook, rows, cache, invalid, unsynced>> /\ C!Live' = C!Live /\ C!Shown' = C!Shown
  BY DEF C!Click, C!server, C!Live, C!Shown
<1>5. /\ op' \in [Op -> Request] /\ op'[o] = f
      /\ \A p \in Op : p # o => /\ op'[p] = op[p] /\ C!Touched(p)' = C!Touched(p)
                                /\ (C!Waiting(p)' <=> C!Waiting(p))
                                /\ \A j : About(p, j)' <=> About(p, j)
  BY <1>2, OneRequest
<1>6. ~C!Waiting(o) /\ \A j : ~About(o, j)
  BY <1>1 DEF About, C!Waiting, C!Busy
<1>7. /\ C!Waiting(o)'
      /\ \A j \in Item : (About(o, j)' <=> j \in touched) /\ (j \in C!Touched(o)' <=> j \in touched)
  BY <1>2, <1>5 DEF About, C!Waiting, C!Busy, C!Touched
<1>8. /\ wish' \in [Item -> {"none", "in", "out"}]
      /\ \A j \in Item : j \notin touched => wish'[j] = wish[j]
      /\ \A j \in touched : wish'[j] # "none" => /\ wish'[j] = "in" <=> C!Adds(k)
                                                 /\ \A p \in Op : ~About(p, j)
  <2>1. wish' = [j \in Item |-> IF j \notin touched THEN wish[j]
                               ELSE IF \E p \in Op : About(p, j) THEN "none"
                               ELSE IF C!Adds(k) THEN "in" ELSE "out"]
    BY DEF C!Click, About
  <2> QED
    BY <1>1, <2>1
<1>9. fetch' = C!NoFetch \/ (fetch' = fetch /\ ~C!Optimistic(k))
  BY DEF C!Click
<1>10. C!TypeOK'
  BY <1>1, <1>4, <1>5, <1>8, <1>9, Blank DEF CopyIInv, C!TypeOK, Request, Fetching
<1>11. Suited'
  BY <1>1, <1>2, <1>3, <1>4, <1>5, ListParameters DEF CopyIInv, Suited, C!Busy
<1>12. Truthful'
  BY <1>2, <1>4, <1>5 DEF CopyIInv, Truthful
<1>13. Known'
  <2> SUFFICES ASSUME hook = "searches", NEW j \in Item, rows[j] = "none"
               PROVE  j \notin C!Shown \cup fetch'.seen /\ wish'[j] = "none"
    BY <1>4 DEF Known
  <2>1. j \notin C!Shown /\ j \notin fetch.seen /\ wish[j] = "none"
    BY DEF CopyIInv, Known
  <2>2. j \notin touched
    BY <1>1, <1>3, <2>1, Kinded, ListParameters
  <2> QED
    BY <1>8, <1>9, <2>1, <2>2, Blank
<1>14. Accounted'
  <2>1. CASE C!Optimistic(k)
    BY <1>2, <1>5, <2>1, AheadOfAnswer
  <2>2. CASE ~C!Optimistic(k)
    <3>1. Calm' => Calm
      BY <1>5, <1>6 DEF Calm
    <3>2. \A j : Unconfirmed(j)' <=> Unconfirmed(j)
      BY <1>1, <1>2, <1>5 DEF Unconfirmed
    <3> QED
      BY <1>4, <1>9, <2>2, <3>1, <3>2, Blank DEF CopyIInv, Accounted, Explained
  <2> QED
    BY <2>1, <2>2
<1>15. WishesHeld'
  <2> SUFFICES ASSUME NEW j \in Item, wish'[j] # "none" PROVE WishHeld(j)'
    BY DEF WishesHeld, WishHeld
  <2>1. CASE j \in touched
    BY <1>2, <1>5, <1>7, <1>8, <2>1 DEF WishHeld
  <2>2. CASE j \notin touched
    <3>1. WishHeld(j) /\ wish'[j] = wish[j]
      BY <1>8, <2>2 DEF CopyIInv, WishesHeld
    <3>2. \A p \in Op : /\ About(p, j)' <=> About(p, j)
                        /\ (C!Waiting(p) => j \notin C!Touched(p))' => (C!Waiting(p) => j \notin C!Touched(p))
      BY <1>5, <1>6, <1>7, <2>2
    <3> QED
      BY <1>4, <1>5, <1>6, <3>1, <3>2 DEF WishHeld
  <2> QED
    BY <2>1, <2>2
<1> QED
  BY <1>10, <1>11, <1>12, <1>13, <1>14, <1>15 DEF CopyIInv

(* The end of an optimistic request: the list is fetched again.               *)
LEMMA CopySettled ==
    ASSUME CopyIInv, NEW o \in Op, C!Settle(o) \/ (C!GiveUp(o) /\ C!Optimistic(op[o].kind))
    PROVE  CopyIInv'
<1>1. /\ C!Busy(o) /\ C!Optimistic(op[o].kind)
      /\ \/ /\ op' = [op EXCEPT ![o] = C!Fresh]
            /\ (UNCHANGED wish /\ (op[o].phase = "ok" \/ op[o].left)) \/ C!Forget(o)
         \/ op' = [op EXCEPT ![o] = C!Abandoned(o)] /\ C!Unanswered(o) /\ C!Forget(o)
      /\ UNCHANGED <<hook, rows, unsynced>>
      /\ invalid' = TRUE /\ fetch' = C!Asked
  <2>1. CASE C!Settle(o)
    BY <2>1 DEF C!Settle, C!Busy, C!Done, C!Invalidate, C!server, C!history
  <2>2. CASE C!GiveUp(o) /\ C!Optimistic(op[o].kind)
    <3>1. C!Busy(o) /\ C!Leave(o) /\ C!Forget(o)
      BY <2>2 DEF C!GiveUp, C!CanFail, C!Unanswered, C!Busy
    <3>2. \/ op' = [op EXCEPT ![o] = C!Fresh]
          \/ op' = [op EXCEPT ![o] = C!Abandoned(o)] /\ C!Unanswered(o)
      BY <3>1 DEF C!Leave
    <3> QED
      BY <2>2, <3>1, <3>2 DEF C!GiveUp, C!Invalidate, C!server
  <2> QED
    BY <2>1, <2>2
<1>2. /\ op' \in [Op -> Request] /\ wish' \in [Item -> {"none", "in", "out"}]
      /\ Suited' /\ Truthful' /\ WishesHeld'
  BY <1>1, RequestOver
<1>3. cache' \in (SUBSET Item) \cup {Unset}
  <2>1. cache \in (SUBSET Item) \cup {Unset} /\ op[o].previous \in (SUBSET Item) \cup {Unset}
    BY DEF CopyIInv, C!TypeOK
  <2> QED
    BY <2>1 DEF C!Settle, C!GiveUp
<1>4. C!TypeOK'
  BY <1>1, <1>2, <1>3, Blank DEF CopyIInv, C!TypeOK, Request, Fetching
<1>5. hook # "searches"
  BY <1>1, Kinded DEF CopyIInv, C!TypeOK, Suited, C!Optimistic
<1>6. Known' /\ Accounted'
  BY <1>1, <1>5, Blank DEF Known, Accounted
<1> QED
  BY <1>2, <1>4, <1>6 DEF CopyIInv

(* The end of a confirmed request that failed, or whose answer was lost.      *)
LEMMA CopyGivenUp ==
    ASSUME CopyIInv, NEW o \in Op, C!GiveUp(o), ~C!Optimistic(op[o].kind)
    PROVE  CopyIInv'
<1>1. /\ C!Busy(o) /\ C!Leave(o)
      /\ UNCHANGED <<hook, rows, cache, invalid>> /\ C!Forget(o)
      /\ C!Doubt(op[o].phase = "ok") /\ C!Shown' = C!Shown
  BY DEF C!GiveUp, C!CanFail, C!Unanswered, C!Busy, C!server, C!Shown
<1>2. /\ op' \in [Op -> Request] /\ wish' \in [Item -> {"none", "in", "out"}]
      /\ Suited' /\ Truthful' /\ WishesHeld' /\ C!Live' = C!Live
      /\ Calm' => Calm
      /\ \A i \in Item : rows[i] = "none" => (hook = "searches" => wish'[i] = "none")
      /\ op[o].phase # "ok" => \A i : Unconfirmed(i)' <=> Unconfirmed(i)
  <2>1. \/ op' = [op EXCEPT ![o] = C!Fresh]
        \/ op' = [op EXCEPT ![o] = C!Abandoned(o)] /\ C!Unanswered(o)
    BY <1>1 DEF C!Leave
  <2> QED
    BY <1>1, <2>1, RequestOver
<1>3. /\ fetch' \in Fetching /\ fetch'.seen = fetch.seen /\ fetch'.phase = fetch.phase
      /\ unsynced' \in BOOLEAN /\ (unsynced' <=> unsynced \/ op[o].phase = "ok")
      /\ op[o].phase # "ok" => fetch' = fetch
      /\ op[o].phase = "ok" /\ fetch.phase = "read" => ~fetch'.clean
  BY <1>1, Doubted
<1>4. C!TypeOK'
  BY <1>1, <1>2, <1>3 DEF CopyIInv, C!TypeOK, Request, Fetching
<1>5. Known'
  BY <1>1, <1>2, <1>3 DEF CopyIInv, Known
<1>6. Accounted'
  <2>1. CASE op[o].phase = "ok"
    BY <1>3, <2>1 DEF Accounted
  <2>2. CASE op[o].phase # "ok"
    BY <1>1, <1>2, <1>3, <2>2 DEF CopyIInv, Accounted, Explained
  <2> QED
    BY <2>1, <2>2
<1> QED
  BY <1>2, <1>4, <1>5, <1>6 DEF CopyIInv

(* A try from the start.                                                      *)
LEMMA TriedAgain ==
    ASSUME CopyIInv, NEW o \in Op
    PROVE  /\ C!Again(o) \in Request /\ C!Again(o).phase = "sent" /\ C!Again(o).kind = op[o].kind
           /\ C!Again(o).left = op[o].left
           /\ C!Again(o).item = (IF op[o].kind = "create" THEN Unset ELSE op[o].item)
<1>1. op[o] \in Request
  BY DEF CopyIInv, C!TypeOK, Request
<1> DEFINE i == IF op[o].kind = "create" THEN Unset ELSE op[o].item
<1>2. C!Again(o) = [op[o] EXCEPT !.phase = "sent", !.tries = 1, !.found = "none", !.item = i]
  BY DEF C!Again
<1>3. i \in Item \cup {Unset} /\ 1 \in 0..1
  BY <1>1 DEF Request
<1> HIDE DEF i
<1>4. [op[o] EXCEPT !.phase = "sent", !.tries = 1, !.found = "none", !.item = i] \in Request
  BY <1>1, <1>3 DEF Request
<1>5. /\ C!Again(o).phase = "sent" /\ C!Again(o).kind = op[o].kind
      /\ C!Again(o).left = op[o].left /\ C!Again(o).item = i
  BY <1>1, <1>2 DEF Request
<1> QED
  BY <1>2, <1>4, <1>5 DEF i

(* Another try; the one before it was answered, so that its handler is done.   *)
LEMMA CopyTriedAgain ==
    ASSUME CopyIInv, NEW o \in Op, C!Retry(o), ~C!Unanswered(o)
    PROVE  CopyIInv'
<1> DEFINE c == op[o].phase = "ok" /\ ~C!Optimistic(op[o].kind)
<1>1. /\ op \in [Op -> Request] /\ op[o].phase \in {"ok", "refused"} /\ C!Busy(o) /\ ~op[o].left
      /\ UNCHANGED <<hook, rows, cache, invalid, wish>>
      /\ C!Live' = C!Live /\ C!Shown' = C!Shown
  BY DEF CopyIInv, C!TypeOK, Request, C!Retry, C!CanFail, C!Busy, C!server, C!Live, C!Shown
<1>2. PICK f \in Request : /\ op' = [op EXCEPT ![o] = f]
                           /\ f.phase = "sent" /\ f.kind = op[o].kind /\ ~f.left
                           /\ f.item = (IF op[o].kind = "create" THEN Unset ELSE op[o].item)
  <2>1. /\ C!Again(o) \in Request /\ C!Again(o).phase = "sent" /\ C!Again(o).kind = op[o].kind
        /\ ~C!Again(o).left
        /\ C!Again(o).item = (IF op[o].kind = "create" THEN Unset ELSE op[o].item)
    BY <1>1, TriedAgain
  <2> QED
    BY <2>1 DEF C!Retry
<1>3. /\ fetch' \in Fetching /\ fetch'.seen = fetch.seen /\ fetch'.phase = fetch.phase
      /\ unsynced' \in BOOLEAN /\ (unsynced' <=> unsynced \/ c)
      /\ ~c => fetch' = fetch
      /\ c /\ fetch.phase = "read" => ~fetch'.clean
  <2>1. C!Doubt(c) /\ c \in BOOLEAN
    BY DEF C!Retry
  <2> HIDE DEF c
  <2> QED
    BY <2>1, Doubted
<1>4. CASE ~c
  <2>1. fetch' = fetch /\ unsynced' = unsynced
    BY <1>3, <1>4 DEF CopyIInv, C!TypeOK
  <2>2. f.item = op[o].item
    <3>1. op[o].item \in Item \cup {Unset}
      BY <1>1 DEF Request
    <3>2. op[o].kind = "create" => op[o].phase = "refused"
      BY <1>1, <1>4 DEF C!Optimistic
    <3> QED
      BY <1>1, <1>2, <3>1, <3>2 DEF CopyIInv, Suited
  <2>3. f.left = op[o].left
    BY <1>1, <1>2 DEF Request
  <2>4. op[o].phase # "ok" \/ C!Optimistic(op[o].kind)
    BY <1>4
  <2> HIDE DEF c
  <2> QED
    BY <1>1, <1>2, <2>1, <2>2, <2>3, <2>4, RequestGoesOn
<1>5. CASE c
  <2>1. /\ op' \in [Op -> Request] /\ op'[o] = f
        /\ \A p \in Op : p # o => /\ op'[p] = op[p] /\ C!Touched(p)' = C!Touched(p)
                                  /\ (C!Waiting(p)' <=> C!Waiting(p))
                                  /\ \A i : About(p, i)' <=> About(p, i)
    BY <1>2, OneRequest
  <2>2. C!TypeOK'
    BY <1>1, <1>3, <2>1 DEF CopyIInv, C!TypeOK, Request, Fetching
  <2>3. Suited'
    BY <1>1, <1>2, <2>1, ListParameters DEF CopyIInv, Suited, C!Busy
  <2>4. Truthful'
    BY <1>1, <1>2, <2>1 DEF CopyIInv, Truthful
  <2>5. Known'
    BY <1>1, <1>3 DEF CopyIInv, Known
  <2>6. Accounted'
    BY <1>3, <1>5 DEF Accounted
  <2>7. WishesHeld'
    <3> SUFFICES ASSUME NEW i \in Item, wish[i] # "none" PROVE WishHeld(i)'
      BY <1>1 DEF WishesHeld, WishHeld
    <3>1. WishHeld(i)
      BY DEF CopyIInv, WishesHeld
    <3>2. About(o, i)' => About(o, i)
      BY <1>1, <1>2, <2>1, ListParameters DEF About, C!Touched, C!Busy
    <3>3. About(o, i) => (rows[i] = "live" <=> wish[i] = "in")
      BY <1>5, <3>1 DEF WishHeld
    <3>4. ~About(o, i) => (C!Waiting(o) => i \notin C!Touched(o))
      BY DEF About, C!Waiting
    <3> QED
      BY <1>1, <1>2, <2>1, <3>1, <3>2, <3>3, <3>4 DEF WishHeld
  <2> QED
    BY <2>2, <2>3, <2>4, <2>5, <2>6, <2>7 DEF CopyIInv
<1> QED
  BY <1>4, <1>5

(* Another try, while the handler of the first may still run.                 *)
LEMMA CopyTriedTwice ==
    ASSUME CopyIInv, NEW o \in Op, C!Retry(o), C!Unanswered(o)
    PROVE  CopyIInv'
<1>1. /\ op \in [Op -> Request] /\ op[o].phase \in {"sent", "held"} /\ C!Busy(o) /\ ~op[o].left
      /\ UNCHANGED <<hook, rows, cache, invalid, wish>>
      /\ C!Live' = C!Live /\ C!Shown' = C!Shown
  BY DEF CopyIInv, C!TypeOK, Request, C!Retry, C!CanFail, C!Unanswered, C!Busy, C!server, C!Live, C!Shown
<1>2. fetch' = fetch /\ unsynced' = unsynced
  <2> DEFINE c == op[o].phase = "ok" /\ ~C!Optimistic(op[o].kind)
  <2>1. C!Doubt(c) /\ c \in BOOLEAN /\ ~c /\ unsynced \in BOOLEAN
    BY <1>1 DEF C!Retry, CopyIInv, C!TypeOK
  <2> HIDE DEF c
  <2>2. unsynced' \in BOOLEAN /\ (unsynced' <=> unsynced \/ c) /\ (~c => fetch' = fetch)
    BY <2>1, Doubted
  <2> QED
    BY <2>1, <2>2
<1>3. PICK z \in Op : ~C!Busy(z) /\ op' = [op EXCEPT ![o] = C!Again(o), ![z] = C!Abandoned(o)]
  BY DEF C!Retry
<1>4. z # o
  BY <1>1, <1>3
<1>5. /\ C!Again(o) \in Request /\ C!Again(o).phase = "sent" /\ C!Again(o).kind = op[o].kind
      /\ ~C!Again(o).left /\ C!Again(o).item = op[o].item
  <2>1. op[o].kind = "create" => op[o].item = Unset
    <3>1. op[o].item \in Item \cup {Unset}
      BY <1>1 DEF Request
    <3> QED
      BY <1>1, <3>1 DEF CopyIInv, Suited
  <2> QED
    BY <1>1, <2>1, TriedAgain
<1>6. /\ C!Abandoned(o) \in Request /\ C!Abandoned(o).left /\ C!Abandoned(o).phase = op[o].phase
      /\ C!Abandoned(o).kind = op[o].kind /\ C!Abandoned(o).item = op[o].item
      /\ C!Abandoned(o).found = op[o].found
  BY AbandonedTry
<1>7. /\ op' \in [Op -> Request] /\ op'[o] = C!Again(o) /\ op'[z] = C!Abandoned(o)
      /\ \A p \in Op : p # o /\ p # z => op'[p] = op[p]
  BY <1>1, <1>3, <1>4, <1>5, <1>6
<1>8. /\ \A p \in Op : p # o /\ p # z => /\ C!Touched(p)' = C!Touched(p)
                                         /\ C!Waiting(p)' <=> C!Waiting(p)
                                         /\ \A i : About(p, i)' <=> About(p, i)
      /\ C!Touched(o)' = C!Touched(o) /\ C!Touched(z)' = C!Touched(o)
      /\ C!Waiting(o) /\ C!Waiting(o)' /\ ~C!Waiting(z) /\ ~C!Waiting(z)'
      /\ C!Busy(o)' /\ C!Busy(z)'
  BY <1>1, <1>3, <1>5, <1>6, <1>7 DEF C!Touched, C!Waiting, C!Busy, About
<1>9. C!TypeOK'
  BY <1>1, <1>2, <1>7 DEF CopyIInv, C!TypeOK, Request
<1>10. Suited'
  <2>1. /\ op[o].kind \in C!Kinds[hook]
        /\ op[o].kind \notin {"create", "all"} => op[o].item \in Item
        /\ op[o].kind = "create" => op[o].item \notin Item
    BY <1>1 DEF CopyIInv, Suited
  <2> QED
    BY <1>1, <1>5, <1>6, <1>7, <2>1 DEF CopyIInv, Suited, C!Busy
<1>11. Truthful'
  BY <1>1, <1>5, <1>6, <1>7 DEF CopyIInv, Truthful
<1>12. Known'
  BY <1>1, <1>2 DEF CopyIInv, Known
<1>13. Accounted'
  <2>1. Calm' => Calm
    BY <1>3, <1>5, <1>7, <1>8 DEF Calm
  <2>2. \A i : Unconfirmed(i)' <=> Unconfirmed(i)
    BY <1>1, <1>3, <1>5, <1>6, <1>7, <1>8 DEF Unconfirmed, C!Busy
  <2> QED
    BY <1>1, <1>2, <2>1, <2>2 DEF CopyIInv, Accounted, Explained
<1>14. WishesHeld'
  <2> SUFFICES ASSUME NEW i \in Item, wish[i] # "none" PROVE WishHeld(i)'
    BY <1>1 DEF WishesHeld, WishHeld
  <2>1. WishHeld(i)
    BY DEF CopyIInv, WishesHeld
  <2>2. \A p \in Op : (C!Waiting(p) => i \notin C!Touched(p))' <=> (C!Waiting(p) => i \notin C!Touched(p))
    BY <1>8
  <2>3. About(o, i)' <=> About(o, i)
    BY <1>1, <1>8 DEF About
  <2>4. About(z, i)' <=> About(o, i)
    BY <1>1, <1>8 DEF About
  <2> QED
    BY <1>1, <1>5, <1>6, <1>7, <1>8, <2>1, <2>2, <2>3, <2>4 DEF WishHeld
<1> QED
  BY <1>9, <1>10, <1>11, <1>12, <1>13, <1>14 DEF CopyIInv

(* The answer of a confirmed request reaches the copy.                        *)
LEMMA CopyConfirmed ==
    ASSUME CopyIInv, NEW o \in Op, C!Confirm(o)
    PROVE  CopyIInv'
<1> DEFINE c == fetch.phase = "read" \/ cache = Unset \/ C!Overtaken(o)
<1>1. /\ C!Busy(o) /\ op[o].phase = "ok" /\ ~C!Optimistic(op[o].kind)
      /\ op' = [op EXCEPT ![o] = C!Fresh] /\ UNCHANGED <<hook, rows, wish>>
      /\ hook \in Hook /\ op[o].kind \in C!Kinds[hook]
      /\ op[o].kind \in {"create", "delete", "all"}
      /\ op[o].kind # "all" => op[o].item \in Item /\ hook = "searches"
  <2>1. C!Busy(o) /\ op[o].phase = "ok" /\ ~C!Optimistic(op[o].kind)
    BY DEF C!Confirm, C!Busy
  <2>2. op' = [op EXCEPT ![o] = C!Fresh] /\ UNCHANGED <<hook, rows, wish>>
    BY DEF C!Confirm, C!Done, C!server
  <2>3. hook \in Hook /\ op[o].kind \in C!Kinds[hook] /\ op[o].kind \in C!Kind
    BY <2>1, Kinded DEF CopyIInv, C!TypeOK, Suited
  <2>4. op[o].kind \in {"create", "delete", "all"}
    BY <2>1, <2>3 DEF C!Kind, C!Optimistic
  <2>5. op[o].kind # "all" => op[o].item \in Item
    BY <2>1, <2>4 DEF CopyIInv, Suited
  <2>6. op[o].kind # "all" => hook = "searches"
    BY <2>3, <2>4, Kinded
  <2> QED
    BY <2>1, <2>2, <2>3, <2>4, <2>5, <2>6
<1>2. /\ op' \in [Op -> Request] /\ wish' \in [Item -> {"none", "in", "out"}]
      /\ Suited' /\ Truthful' /\ WishesHeld' /\ C!Live' = C!Live
      /\ Calm' => Calm
      /\ \A i : Unconfirmed(i) => Unconfirmed(i)' \/ i \in C!Touched(o)
  BY <1>1, RequestOver
<1>3. C!Doubt(c) /\ c \in BOOLEAN
  BY DEF C!Confirm
<1>4. /\ fetch' \in Fetching /\ fetch'.seen = fetch.seen /\ fetch'.phase = fetch.phase
      /\ unsynced' \in BOOLEAN /\ (c => unsynced') /\ (unsynced => unsynced')
      /\ fetch.phase = "read" => ~fetch'.clean
  <2> HIDE DEF c
  <2>1. /\ fetch' \in Fetching /\ fetch'.seen = fetch.seen /\ fetch'.phase = fetch.phase
        /\ unsynced' \in BOOLEAN /\ (unsynced' <=> unsynced \/ c)
        /\ c /\ fetch.phase = "read" => ~fetch'.clean
    BY <1>3, Doubted
  <2>2. fetch.phase = "read" => c
    BY DEF c
  <2> QED
    BY <2>1, <2>2
<1>5. /\ \/ UNCHANGED <<cache, invalid>> /\ c
         \/ cache' = C!Applied(o, C!Shown) /\ invalid' = FALSE
      /\ C!Shown \subseteq Item /\ C!Applied(o, C!Shown) \subseteq Item
      /\ C!Applied(o, C!Shown) # Unset
      /\ cache \in (SUBSET Item) \cup {Unset} /\ invalid \in BOOLEAN
  <2>1. cache \in (SUBSET Item) \cup {Unset} /\ invalid \in BOOLEAN
    BY DEF CopyIInv, C!TypeOK
  <2>2. C!Shown \subseteq Item /\ C!Applied(o, C!Shown) \subseteq Item
    BY <1>1, <2>1 DEF C!Shown, C!Applied, C!Touched
  <2>3. C!Applied(o, C!Shown) # Unset
    BY <2>2, ListParameters
  <2>4. \/ UNCHANGED <<cache, invalid>> /\ c
        \/ cache' = C!Applied(o, C!Shown) /\ invalid' = FALSE
    BY DEF C!Confirm
  <2> QED
    BY <2>1, <2>2, <2>3, <2>4
<1>6. C!TypeOK'
  BY <1>1, <1>2, <1>4, <1>5 DEF CopyIInv, C!TypeOK, Request, Fetching
<1>7. \A i \in Item : /\ i \in C!Touched(o) => (i \in C!Applied(o, C!Shown) <=> op[o].kind = "create")
                      /\ i \notin C!Touched(o) => /\ i \in C!Applied(o, C!Shown) <=> i \in C!Shown
                                                  /\ op[o].kind # "all"
  BY <1>1 DEF C!Applied, C!Touched, C!Adds
<1>8. Known'
  <2> SUFFICES ASSUME hook = "searches", NEW i \in Item, rows[i] = "none"
               PROVE  i \notin C!Shown' /\ i \notin fetch.seen /\ wish[i] = "none"
    BY <1>1, <1>4 DEF Known
  <2>1. i \notin C!Shown /\ i \notin fetch.seen /\ wish[i] = "none"
    BY DEF CopyIInv, Known
  <2>2. ~(op[o].kind = "create" /\ i \in C!Touched(o))
    BY <1>1 DEF CopyIInv, Truthful, C!Touched
  <2>3. C!Shown' \in {C!Shown, C!Applied(o, C!Shown)}
    BY <1>5 DEF C!Shown
  <2> QED
    BY <1>7, <2>1, <2>2, <2>3
<1>9. Accounted'
  <2> SUFFICES ASSUME Calm, ~c, ~unsynced PROVE Explained(cache)'
    BY <1>2, <1>4 DEF Accounted
  <2>1. cache' = C!Applied(o, C!Shown) /\ C!Shown = cache /\ cache # Unset
    BY <1>5 DEF C!Shown
  <2> SUFFICES ASSUME NEW i \in Item PROVE (i \in cache' <=> i \in C!Live) \/ Unconfirmed(i)'
    BY <1>2 DEF Explained
  <2>2. CASE i \in C!Touched(o)
    <3>1. op[o].kind = "create" => i \in C!Live
      BY <1>1, <2>2 DEF C!Overtaken, C!Touched, C!Live
    <3>2. op[o].kind # "create" => i \notin C!Live
      BY <1>1, <2>2 DEF CopyIInv, Truthful, C!Touched, C!Live
    <3> QED
      BY <1>7, <2>1, <2>2, <3>1, <3>2
  <2>3. CASE i \notin C!Touched(o)
    <3>1. Explained(cache)
      BY <1>1, <1>7, <2>1, <2>3 DEF CopyIInv, Accounted
    <3> QED
      BY <1>2, <1>7, <2>1, <2>3, <3>1 DEF Explained
  <2> QED
    BY <2>2, <2>3
<1> QED
  BY <1>2, <1>6, <1>8, <1>9 DEF CopyIInv

LEMMA CopyStep == CopyIInv /\ [C!Next]_copy => CopyIInv'
<1> SUFFICES ASSUME CopyIInv, [C!Next]_copy PROVE CopyIInv'
  OBVIOUS
<1>1. CASE UNCHANGED copy
  BY <1>1 DEF copy, CopyIInv, C!TypeOK, Suited, Truthful, Known, Accounted, Explained, Unconfirmed, Calm,
     WishesHeld, WishHeld, About, C!Waiting, C!Busy, C!Touched, C!Live, C!Shown
<1>2. CASE C!Mount \/ C!ListMine \/ C!FetchDone \/ C!FetchFails
  BY <1>2, CopyFetched
<1>3. ASSUME NEW o \in Op, NEW k \in C!Kind, NEW i \in Item \cup {Unset}, C!Click(o, k, i) PROVE CopyIInv'
  BY <1>3, CopyClicked
<1>4. ASSUME NEW o \in Op, C!Apply(o) PROVE CopyIInv'
  BY <1>4, CopyApplied
<1>5. ASSUME NEW o \in Op, C!Handle(o) PROVE CopyIInv'
  BY <1>5, CopyRead, CopyAnswered, CopyCreated, StrayGone DEF C!Handle, C!Vanish, C!server, C!browser, C!history
<1>6. ASSUME NEW o \in Op, C!Settle(o) \/ C!GiveUp(o) PROVE CopyIInv'
  BY <1>6, CopySettled, CopyGivenUp
<1>7. ASSUME NEW o \in Op, C!Confirm(o) PROVE CopyIInv'
  BY <1>7, CopyConfirmed
<1>8. ASSUME NEW o \in Op, C!Retry(o) PROVE CopyIInv'
  BY <1>8, CopyTriedAgain, CopyTriedTwice
<1> QED
  BY <1>1, <1>2, <1>3, <1>4, <1>5, <1>6, <1>7, <1>8 DEF C!Next

(* However clicks, answers, retries, roll-backs and fetches follow each other, *)
(* and whatever the handlers of tries that were given up still do: the copy in *)
(* the browser is the list of the server once it waits for nothing, but for a  *)
(* change it is known to lack, and the last click on an item stands            *)
(* (hooks/queries, lib/server-api.ts, FavoriteService, SavedSearchService).    *)
THEOREM CopyEndsRight == C!Spec => []CopyIsRight
<1>1. CopyIInv => CopyIsRight
  <2> SUFFICES ASSUME CopyIInv PROVE C!CacheSettles /\ C!LastClickStands
    BY DEF CopyIsRight, C!CopyIsRight
  <2>1. ASSUME C!Quiet, cache # Unset, ~invalid, ~unsynced PROVE cache = C!Live
    <3>1. Calm /\ \A i : ~Unconfirmed(i)
      BY <2>1 DEF CopyIInv, Suited, C!Quiet, Calm, Unconfirmed, C!Waiting, C!Busy
    <3>2. \A i \in Item : i \in cache <=> i \in C!Live
      BY <2>1, <3>1 DEF CopyIInv, Accounted, Explained
    <3>3. cache \subseteq Item /\ C!Live \subseteq Item
      BY <2>1 DEF CopyIInv, C!TypeOK, C!Live
    <3> QED
      BY <3>2, <3>3
  <2>2. C!CacheSettles
    BY <2>1 DEF C!CacheSettles
  <2>3. C!LastClickStands
    BY DEF CopyIInv, WishesHeld, WishHeld, About, C!LastClickStands
  <2> QED
    BY <2>2, <2>3
<1> QED
  BY <1>1, CopyInit, CopyStep, PTL DEF C!Spec, C!vars, copy
=============================================================================
