------------------------------- MODULE Realtime -------------------------------
(***************************************************************************)
(* The real-time push (Backend/app/WebSocket, WebSocketController): the     *)
(* sockets of the browsers, the registry each instance keeps of them, the   *)
(* publication of an inbox row to the local sockets and, over Redis, to the *)
(* other instances, whose listener thread hands it to their event loop.     *)
(*                                                                         *)
(* A step is what an event loop or a thread does between two awaits.  The   *)
(* lock of the registry is never held across an await, so subscribing to    *)
(* all channels is one step, and so is leaving them.                        *)
(***************************************************************************)
EXTENDS Naturals, FiniteSets

CONSTANTS
    Instance,   \* processes of the backend
    Socket,     \* connections, each used once
    Staff,      \* staff accounts
    Buyer,      \* buyer accounts
    Account,    \* the account each connection is made for
    Message,    \* inbox rows, each published once by the dispatch that wrote it
    Addressee,  \* the account of each row
    Writer,     \* the instances whose handlers write rows
    Nobody      \* no socket, no instance

User == Staff \cup Buyer

ASSUME Parameters ==
    /\ Staff \cap Buyer = {} /\ Addressee \in [Message -> User] /\ Account \in [Socket -> User]
    /\ Writer \subseteq Instance /\ Nobody \notin Socket /\ Nobody \notin Instance

VARIABLES
    phase,      \* where the handler of each connection is
    at,         \* its instance
    net,        \* its socket: up, closed by either side, or the peer is lost without a word
    opened,     \* the connections whose row of the log has no disconnected_at
    registry,   \* per instance, the pairs of a channel and a socket
    ears,       \* the instances whose listener thread runs
    heard,      \* what that thread has not taken from its subscription yet
    pub,        \* where the thread that publishes a row is
    origin,     \* its instance
    due,        \* local_deliver coroutines not started yet
    todo,       \* the sockets left to those under way
    now,        \* the socket such a coroutine is sending to
    got,        \* how often each socket was sent each row (history)
    present,    \* who was registered for a row as its publication began (history)
    deaf,       \* instances the backplane did not bring a row to (history)
    lost        \* connections of which the log could not be written (history)

connections == <<phase, at, net>>
log == <<opened, lost>>
backplane == <<ears, heard>>
publications == <<pub, origin>>
deliveries == <<due, todo, now>>
history == <<got, present, deaf>>
vars == <<connections, log, registry, backplane, publications, deliveries, history>>

Phase == {"away", "admitted", "open", "closed", "cut"}
Over == {"closed", "cut"}
Channel == User \cup {"staff:global"}
Task == Instance \X Message

(* channels_for: the own channel, and for the staff the common one. *)
ChannelsFor(u) == {u} \cup IF u \in Staff THEN {"staff:global"} ELSE {}

(* DatabaseChannel: a row for the staff goes to all of them. *)
ChannelOf(m) == IF Addressee[m] \in Staff THEN "staff:global" ELSE Addressee[m]

Listeners(i, ch) == {k \in Socket : <<ch, k>> \in registry[i]}

TypeOK ==
    /\ phase \in [Socket -> Phase]
    /\ at \in [Socket -> Instance \cup {Nobody}]
    /\ net \in [Socket -> {"up", "closed", "lost"}]
    /\ registry \in [Instance -> SUBSET (Channel \X Socket)]
    /\ ears \subseteq Instance
    /\ heard \in [Instance -> SUBSET Message]
    /\ pub \in [Message -> {"new", "delivering", "relaying", "done", "lost"}]
    /\ origin \in [Message -> Instance \cup {Nobody}]
    /\ due \subseteq Task
    /\ todo \in [Task -> SUBSET Socket]
    /\ now \in [Task -> Socket \cup {Nobody}]
    /\ got \in [Message -> [Socket -> Nat]]
    /\ present \in [Message -> SUBSET Socket]
    /\ deaf \subseteq Task
    /\ opened \cup lost \subseteq Socket

(* start_backplane_listener: if Redis does not answer as an instance starts, *)
(* its listener is never started.                                            *)
Init ==
    /\ phase = [k \in Socket |-> "away"]
    /\ at = [k \in Socket |-> Nobody]
    /\ net = [k \in Socket |-> "up"]
    /\ opened = {} /\ lost = {}
    /\ registry = [i \in Instance |-> {}]
    /\ ears \in SUBSET Instance
    /\ heard = [i \in Instance |-> {}]
    /\ pub = [m \in Message |-> "new"]
    /\ origin = [m \in Message |-> Nobody]
    /\ due = {}
    /\ todo = [t \in Task |-> {}]
    /\ now = [t \in Task |-> Nobody]
    /\ got = [m \in Message |-> [k \in Socket |-> 0]]
    /\ present = [m \in Message |-> {}]
    /\ deaf = {}

-----------------------------------------------------------------------------
(* handle_connection. *)

(* The token names a live account, and the socket is accepted; any other is *)
(* closed at once.                                                          *)
Admit(k, i) ==
    /\ phase[k] = "away"
    /\ phase' = [phase EXCEPT ![k] = "admitted"]
    /\ at' = [at EXCEPT ![k] = i]
    /\ UNCHANGED <<net, log, registry, backplane, publications, deliveries, history>>

(* subscribe, to one channel after the other. *)
Join(k) == registry' = [registry EXCEPT ![at[k]] = @ \cup (ChannelsFor(Account[k]) \X {k})]

(* The row of the connection log.  A database error is logged, no more. *)
LogConnect(k) ==
    \/ opened' = opened \cup {k} /\ UNCHANGED lost
    \/ lost' = lost \cup {k} /\ UNCHANGED opened

LogDisconnect(k) ==
    \/ opened' = opened \ {k} /\ UNCHANGED lost
    \/ k \in opened /\ lost' = lost \cup {k} /\ UNCHANGED opened

(* All channels, and the row of the log, before the first receive. *)
Subscribe(k) ==
    /\ phase[k] = "admitted"
    /\ phase' = [phase EXCEPT ![k] = "open"]
    /\ Join(k) /\ LogConnect(k)
    /\ UNCHANGED <<at, net, backplane, publications, deliveries, history>>

(* Mutant of Quit: only the own channel is left. *)
QuitOwn(k) == registry' = [registry EXCEPT ![at[k]] = @ \ {<<Account[k], k>>}]

(* unsubscribe_all looks into every channel. *)
Quit(k) == registry' = [registry EXCEPT ![at[k]] = {e \in @ : e[2] # k}]

(* Mutant of Leave: the receive loop waits without a timeout. *)
LeaveIfTold(k) ==
    /\ phase[k] = "open" /\ net[k] # "lost"
    /\ phase' = [phase EXCEPT ![k] = "closed"]
    /\ net' = [net EXCEPT ![k] = "closed"]
    /\ Quit(k) /\ LogDisconnect(k)
    /\ UNCHANGED <<at, backplane, publications, deliveries, history>>

(* The receive loop ends: the peer has closed, nothing came for 60 s (whoever *)
(* is there but silent is dropped too), or a message was too long.  The       *)
(* finally clause leaves every channel and closes the row of the log.         *)
Leave(k) ==
    /\ phase[k] = "open"
    /\ phase' = [phase EXCEPT ![k] = "closed"]
    /\ net' = [net EXCEPT ![k] = "closed"]
    /\ Quit(k) /\ LogDisconnect(k)
    /\ UNCHANGED <<at, backplane, publications, deliveries, history>>

(* The peer closes the socket, or its network goes without a word. *)
PeerGoes(k) ==
    /\ phase[k] # "away" /\ net[k] = "up"
    /\ \E how \in {"closed", "lost"} : net' = [net EXCEPT ![k] = how]
    /\ UNCHANGED <<phase, at, log, registry, backplane, publications, deliveries, history>>

-----------------------------------------------------------------------------
(* publish, in the thread that has just committed the row. *)

(* should_broadcast: the key is a hash of the payload, which holds the id of  *)
(* the row, so nothing but the row itself could have taken it.                *)
Fresh(m) == pub[m] = "new"

(* local_deliver is left to the event loop of the instance. *)
Publish(m, i) ==
    /\ Fresh(m) /\ i \in Writer
    /\ pub' = [pub EXCEPT ![m] = "delivering"]
    /\ origin' = [origin EXCEPT ![m] = i]
    /\ due' = due \cup {<<i, m>>}
    /\ present' = [present EXCEPT ![m] = UNION {Listeners(j, ChannelOf(m)) : j \in Instance}]
    /\ UNCHANGED <<connections, log, registry, backplane, todo, now, got, deaf>>

Idle(t) == t \notin due /\ todo[t] = {} /\ now[t] = Nobody

(* future.result(timeout=2): local_deliver has ended, or goes on without us. *)
Proceed(m) ==
    /\ pub[m] = "delivering"
    /\ pub' = [pub EXCEPT ![m] = "relaying"]
    /\ UNCHANGED <<connections, log, registry, backplane, origin, deliveries, history>>

(* PUBLISH reaches whoever is subscribed at this moment; Redis may be away. *)
Relay(m) ==
    /\ pub[m] = "relaying"
    /\ pub' = [pub EXCEPT ![m] = "done"]
    /\ \E to \in {{}, ears} :
          /\ heard' = [i \in Instance |-> IF i \in to THEN heard[i] \cup {m} ELSE heard[i]]
          /\ deaf' = deaf \cup {<<i, m>> : i \in Instance \ (to \cup {origin[m]})}
    /\ UNCHANGED <<connections, log, registry, ears, origin, deliveries, got, present>>

(* Mutant of Hear: the instance hears itself too. *)
HearEverything(i, m) ==
    /\ m \in heard[i]
    /\ heard' = [heard EXCEPT ![i] = @ \ {m}]
    /\ due' = due \cup {<<i, m>>}
    /\ UNCHANGED <<connections, log, registry, ears, publications, todo, now, history>>

(* The listener thread skips what its own instance published. *)
Hear(i, m) ==
    /\ m \in heard[i]
    /\ heard' = [heard EXCEPT ![i] = @ \ {m}]
    /\ due' = IF origin[m] = i THEN due ELSE due \cup {<<i, m>>}
    /\ UNCHANGED <<connections, log, registry, ears, publications, todo, now, history>>

(* pubsub.listen() raises: nothing catches it, and nothing starts the thread *)
(* again before the instance does.                                           *)
ListenerDies(i) ==
    /\ i \in ears
    /\ ears' = ears \ {i}
    /\ heard' = [heard EXCEPT ![i] = {}]
    /\ deaf' = deaf \cup {<<i, m>> : m \in {n \in heard[i] : origin[n] # i}}
    /\ UNCHANGED <<connections, log, registry, publications, deliveries, got, present>>

-----------------------------------------------------------------------------
(* local_deliver, on the event loop of instance t[1]. *)

(* The sockets of the channel as the coroutine starts. *)
Deliver(t) ==
    /\ t \in due /\ todo[t] = {} /\ now[t] = Nobody
    /\ due' = due \ {t}
    /\ todo' = [todo EXCEPT ![t] = Listeners(t[1], ChannelOf(t[2]))]
    /\ UNCHANGED <<connections, log, registry, backplane, publications, now, history>>

Turn(t) ==
    /\ now[t] = Nobody
    /\ \E k \in todo[t] :
          /\ now' = [now EXCEPT ![t] = k]
          /\ todo' = [todo EXCEPT ![t] = @ \ {k}]
    /\ UNCHANGED <<connections, log, registry, backplane, publications, due, history>>

(* send_json returns: the peer has the row, or a buffer that nobody reads. *)
Push(t) ==
    /\ now[t] # Nobody
    /\ LET k == now[t] IN
          /\ net[k] # "closed"
          /\ got' = [got EXCEPT ![t[2]][k] = @ + 1]
    /\ now' = [now EXCEPT ![t] = Nobody]
    /\ UNCHANGED <<connections, log, registry, backplane, publications, due, todo, present, deaf>>

(* Mutant of PushFails: the error ends the delivery. *)
PushFailsAll(t) ==
    /\ now[t] # Nobody
    /\ net[now[t]] = "closed"
    /\ registry' = [registry EXCEPT ![t[1]] = @ \ {<<ChannelOf(t[2]), now[t]>>}]
    /\ now' = [now EXCEPT ![t] = Nobody]
    /\ todo' = [todo EXCEPT ![t] = {}]
    /\ UNCHANGED <<connections, log, backplane, publications, due, history>>

(* send_json raises: that socket leaves this channel, the others go on.  To a *)
(* lost peer it waits until the handler of the socket has closed it.          *)
PushFails(t) ==
    /\ now[t] # Nobody
    /\ net[now[t]] = "closed"
    /\ registry' = [registry EXCEPT ![t[1]] = @ \ {<<ChannelOf(t[2]), now[t]>>}]
    /\ now' = [now EXCEPT ![t] = Nobody]
    /\ UNCHANGED <<connections, log, backplane, publications, due, todo, history>>

(* An instance is restarted: its sockets, tasks and threads are gone, the     *)
(* rows of the log stay as they are, and a listener starts if Redis answers.  *)
Restart(i) ==
    /\ \E k \in Socket : at[k] = i /\ phase[k] \notin Over
    /\ phase' = [k \in Socket |-> IF at[k] = i /\ phase[k] \notin Over THEN "cut" ELSE phase[k]]
    /\ net' = [k \in Socket |-> IF at[k] = i THEN "closed" ELSE net[k]]
    /\ registry' = [registry EXCEPT ![i] = {}]
    /\ ears' \in {ears \ {i}, ears \cup {i}}
    /\ heard' = [heard EXCEPT ![i] = {}]
    /\ pub' = [m \in Message |-> IF origin[m] = i /\ pub[m] \in {"delivering", "relaying"}
                                    THEN "lost" ELSE pub[m]]
    /\ due' = {t \in due : t[1] # i}
    /\ todo' = [t \in Task |-> IF t[1] = i THEN {} ELSE todo[t]]
    /\ now' = [t \in Task |-> IF t[1] = i THEN Nobody ELSE now[t]]
    /\ UNCHANGED <<at, log, origin, history>>

-----------------------------------------------------------------------------
Work(t) == Deliver(t) \/ Turn(t) \/ PushFails(t)

Next ==
    \/ \E k \in Socket : Subscribe(k) \/ Leave(k) \/ PeerGoes(k)
    \/ \E k \in Socket, i \in Instance : Admit(k, i)
    \/ \E m \in Message : Proceed(m) \/ Relay(m)
    \/ \E m \in Message, i \in Instance : Publish(m, i) \/ Hear(i, m)
    \/ \E t \in Task : Work(t) \/ Push(t)
    \/ \E i \in Instance : ListenerDies(i) \/ Restart(i)

Spec == Init /\ [][Next]_vars

(* The event loops run on; a peer that is gone is noticed, by its close *)
(* or by the idle timeout, and what is sent to a peer that is there arrives.  *)
Fairness ==
    /\ \A k \in Socket : WF_vars(Subscribe(k) \/ (Leave(k) /\ net[k] # "up"))
    /\ \A t \in Task : WF_vars(Work(t) \/ (Push(t) /\ net[now[t]] = "up"))

LiveSpec == Spec /\ Fairness

-----------------------------------------------------------------------------
(* Properties. *)

(* A row is pushed to a socket once at most, although the instance that       *)
(* publishes it delivers it both directly and by way of the backplane.        *)
PushedOnce == \A m \in Message, k \in Socket : got[m][k] <= 1

(* Once the publication of a row and every delivery of it have ended, each    *)
(* socket that was registered before and is still has the row: a peer that    *)
(* fails takes nobody with it, and only an instance the backplane did not     *)
(* reach is left out.                                                         *)
EverybodyTold ==
    \A m \in Message, k \in Socket :
        /\ pub[m] = "done" /\ k \in present[m] /\ <<ChannelOf(m), k>> \in registry[at[k]]
        /\ Idle(<<at[k], m>>) /\ m \notin heard[at[k]]
        => got[m][k] > 0 \/ <<at[k], m>> \in deaf

(* A handler that has ended leaves nothing behind: its socket is in no        *)
(* channel of any instance, although deliveries go on removing it meanwhile,  *)
(* and the row of its connection is closed, if the log could be written.  A   *)
(* restart leaves open rows.                                                  *)
NothingLeft ==
    \A k \in Socket :
        /\ phase[k] \in Over => \A i \in Instance : \A e \in registry[i] : e[2] # k
        /\ phase[k] = "closed" /\ k \in opened => k \in lost

(* A delivery that has begun ends: who is stuck in the middle of it delays    *)
(* the sockets after it, and no longer than its own handler lives.            *)
DeliveriesEnd == \A t \in Task : ~Idle(t) ~> Idle(t)
=============================================================================
