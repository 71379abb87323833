------------------------- MODULE EmailDeliveryProofs -------------------------
(***************************************************************************)
(* Theorems about EmailDelivery for any number of messages and addresses,  *)
(* any limit, any number of attempts and any set of faults, and about Pool  *)
(* for any number of requests, threads and connections.                    *)
(***************************************************************************)
EXTENDS SharedPool, FiniteSetTheorems, TLAPS

Early == {"new", "scheduled", "first", "allowed", "logged"}

(* What the stage of a task says of its row and of the provider.  LogIsEvidence *)
(* and CopiesBounded are inductive only with it: the row is written by steps   *)
(* that do not look at what the provider took.                                 *)
StageAgrees ==
    \A m \in Mail :
        /\ stage[m] \in Early => attempts[m] = 0
        /\ stage[m] = "trying" => attempts[m] < MaxAttempts
        /\ stage[m] \in {"trying", "closing"} => log[m] = "sending"
        /\ stage[m] = "closing" /\ outcome[m] = "success" => accepted[m] > 0

IInv == TypeOK /\ StageAgrees /\ LogIsEvidence /\ CopiesBounded

LEMMA InitIInv == Init => IInv
BY Parameters DEF Init, IInv, TypeOK, StageAgrees, LogIsEvidence, CopiesBounded,
   Stage, Outcome, Early

LEMMA TypeStep == TypeOK /\ [Next]_vars => TypeOK'
<1> SUFFICES ASSUME TypeOK, [Next]_vars
             PROVE  TypeOK'
  OBVIOUS
<1> USE Parameters DEF TypeOK, Stage, Outcome, MoveTo, redis
<1>1. ASSUME NEW m \in Mail, Schedule(m) PROVE TypeOK'
  BY <1>1 DEF Schedule
<1>2. ASSUME NEW m \in Mail, Increment(m) PROVE TypeOK'
  <2>1. AddressOf[m] \in Address
    OBVIOUS
  <2>2. count' \in [Address -> Nat] /\ passed' \in [Address -> Nat]
    BY <1>2, <2>1 DEF Increment
  <2>3. stage' \in [Mail -> Stage]
    BY <1>2 DEF Increment
  <2> QED
    BY <1>2, <2>2, <2>3 DEF Increment
<1>3. ASSUME NEW m \in Mail, SetExpiry(m) PROVE TypeOK'
  BY <1>3 DEF SetExpiry
<1>4. ASSUME NEW m \in Mail, LimiterFails(m) PROVE TypeOK'
  BY <1>4 DEF LimiterFails
<1>5. ASSUME NEW m \in Mail, LogQueued(m) \/ LogSending(m) \/ SendFails(m) \/ LogResult(m)
      PROVE  TypeOK'
  BY <1>5 DEF LogQueued, LogSending, SendFails, LogResult
<1>6. ASSUME NEW m \in Mail, Attempt(m) PROVE TypeOK'
  BY <1>6 DEF Attempt, Send
<1>7. ASSUME NEW a \in Address, WindowEnds(a) PROVE TypeOK'
  BY <1>7 DEF WindowEnds
<1>8. CASE Crash
  BY <1>8 DEF Crash
<1>9. CASE UNCHANGED vars
  BY <1>9 DEF vars
<1> QED
  BY <1>1, <1>2, <1>3, <1>4, <1>5, <1>6, <1>7, <1>8, <1>9 DEF Next, Task

LEMMA InvStep == IInv /\ [Next]_vars => IInv'
<1> SUFFICES ASSUME IInv, [Next]_vars
             PROVE  IInv'
  OBVIOUS
<1> DEFINE Rest == StageAgrees' /\ LogIsEvidence' /\ CopiesBounded'
<1>0. TypeOK'
  BY TypeStep DEF IInv
<1> USE Parameters DEF IInv, TypeOK, StageAgrees, LogIsEvidence, CopiesBounded, Early, MoveTo,
        redis
<1>1. ASSUME NEW m \in Mail, Schedule(m) \/ Increment(m) \/ SetExpiry(m) \/ LimiterFails(m)
      PROVE  Rest
  <2>1. /\ UNCHANGED <<log, attempts, outcome, accepted>>
        /\ stage[m] \in {"new", "scheduled", "first"}
        /\ \E s \in {"scheduled", "first", "allowed", "done"} : stage' = [stage EXCEPT ![m] = s]
    BY <1>1 DEF Schedule, Increment, SetExpiry, LimiterFails
  <2> QED
    BY <2>1
<1>2. ASSUME NEW m \in Mail, LogQueued(m) \/ LogSending(m) \/ SendFails(m)
      PROVE  Rest
  BY <1>2 DEF LogQueued, LogSending, SendFails
<1>3. ASSUME NEW m \in Mail, Attempt(m) PROVE Rest
  <2>1. PICK o \in Outcome \ {"none"} :
          /\ stage[m] = "trying"
          /\ attempts' = [attempts EXCEPT ![m] = @ + 1]
          /\ outcome' = [outcome EXCEPT ![m] = o]
          /\ \/ o # "success" /\ UNCHANGED accepted
             \/ accepted' = [accepted EXCEPT ![m] = @ + 1]
          /\ stage' = [stage EXCEPT ![m] =
                IF o # "transient" \/ attempts'[m] = MaxAttempts THEN "closing" ELSE "trying"]
          /\ UNCHANGED log
    BY <1>3 DEF Attempt, Send, Outcome
  <2>2. attempts'[m] = attempts[m] + 1 /\ attempts'[m] <= MaxAttempts
    BY <2>1
  <2>3. accepted'[m] <= attempts'[m]
    BY <2>1, <2>2
  <2>4. \A n \in Mail \ {m} : stage'[n] = stage[n] /\ attempts'[n] = attempts[n]
                             /\ accepted'[n] = accepted[n] /\ outcome'[n] = outcome[n]
    BY <2>1
  <2>5. stage'[m] \in {"trying", "closing"} /\ log'[m] = "sending"
        /\ (stage'[m] = "trying" => attempts'[m] < MaxAttempts)
        /\ (outcome'[m] = "success" => accepted'[m] > 0)
    BY <2>1, <2>2
  <2>6. ASSUME NEW n \in Mail PROVE log'[n] = log[n] /\ attempts'[n] \in Nat /\ accepted'[n] \in Nat
    BY <2>1, <1>0
  <2>7. StageAgrees'
    BY <2>4, <2>5, <2>6
  <2>8. LogIsEvidence'
    BY <2>1, <2>4, <2>5, <2>6
  <2>9. CopiesBounded'
    BY <2>2, <2>3, <2>4
  <2> QED
    BY <2>7, <2>8, <2>9
<1>4. ASSUME NEW m \in Mail, LogResult(m) PROVE Rest
  BY <1>4 DEF LogResult
<1>5. ASSUME NEW a \in Address, WindowEnds(a) PROVE Rest
  BY <1>5 DEF WindowEnds
<1>6. CASE Crash
  BY <1>0, <1>6 DEF Crash
<1>7. CASE UNCHANGED vars
  BY <1>0, <1>7 DEF vars
<1> QED
  BY <1>0, <1>1, <1>2, <1>3, <1>4, <1>5, <1>6, <1>7 DEF Next, Task

(* The model keeps its types. *)
THEOREM TypeCorrect == Spec => []TypeOK
<1>1. Init => TypeOK
  BY InitIInv DEF IInv
<1> QED
  BY <1>1, TypeStep, PTL DEF Spec

(* No e-mail leaves the backend without a row that says so, and no row says   *)
(* sent of one that did not, whatever fails (EmailDispatcher.dispatch).       *)
THEOREM LogIsAlwaysEvidence == Spec => []LogIsEvidence
<1>1. IInv => LogIsEvidence
  BY DEF IInv
<1> QED
  BY InitIInv, InvStep, <1>1, PTL DEF Spec

(* retry_with_backoff makes at most max_attempts attempts, and no recipient   *)
(* gets more copies than that.                                                *)
THEOREM CopiesAreBounded == Spec => []CopiesBounded
<1>1. IInv => CopiesBounded
  BY DEF IInv
<1> QED
  BY InitIInv, InvStep, <1>1, PTL DEF Spec

-----------------------------------------------------------------------------
(* The limiter never lets more than Limit counted messages through in the life *)
(* of a key, however the INCRs of different tasks interleave.                  *)
THEOREM LimitAlwaysHolds == Spec => []LimitHolds
<1>1. Init => TypeOK /\ LimitHolds
  BY InitIInv, Parameters DEF Init, IInv, LimitHolds
<1>2. TypeOK /\ LimitHolds /\ [Next]_vars => LimitHolds'
  <2> SUFFICES ASSUME TypeOK, LimitHolds, [Next]_vars
               PROVE  LimitHolds'
    OBVIOUS
  <2> USE Parameters DEF TypeOK, LimitHolds
  <2>1. ASSUME NEW m \in Mail, Increment(m) PROVE LimitHolds'
    BY <2>1 DEF Increment
  <2>2. ASSUME NEW m \in Mail, LimiterFails(m) PROVE LimitHolds'
    BY <2>2 DEF LimiterFails
  <2>3. ASSUME NEW a \in Address, WindowEnds(a) PROVE LimitHolds'
    BY <2>3 DEF WindowEnds
  <2>4. ASSUME NEW m \in Mail, Schedule(m) \/ SetExpiry(m) \/ LogQueued(m) \/ LogSending(m)
                               \/ SendFails(m) \/ Attempt(m) \/ LogResult(m)
        PROVE  LimitHolds'
    BY <2>4 DEF Schedule, SetExpiry, LogQueued, LogSending, SendFails, Attempt, Send, LogResult, redis
  <2>5. CASE Crash \/ UNCHANGED vars
    BY <2>5 DEF Crash, vars, redis
  <2> QED
    BY <2>1, <2>2, <2>3, <2>4, <2>5 DEF Next, Task
<1> QED
  BY <1>1, <1>2, TypeStep, PTL DEF Spec

-----------------------------------------------------------------------------
(* Pool.  A connection is held in certain phases only, so while its tasks and *)
(* sessions close in time a request has one of them at most; otherwise two.   *)
HeldInPhase ==
    /\ \A r \in sending : phase[r] = "tasking"
    /\ \A r \in held : \/ phase[r] \in {"guarding", "call", "calling", "answering"}
                       \/ ~early /\ phase[r] \in {"task", "tasking"}

EnoughUnlessCrowded ==
    /\ IsFiniteSet(P!Active)
    /\ ~crowded => P!Need * Cardinality(P!Active) <= Capacity

PoolIInv == P!TypeOK /\ HeldInPhase /\ EnoughUnlessCrowded /\ (late => crowded)

LEMMA PoolCardinality == \A S : P!Cardinality(S) = Cardinality(S)
BY DEF P!Cardinality, Cardinality

LEMMA TimeOutCases ==
    ASSUME NEW r \in Request, P!TimeOut(r)
    PROVE  /\ P!Starved(r) /\ ~P!FreeConnection /\ late' = TRUE
           /\ UNCHANGED <<early, sending, crowded>>
           /\ \/ phase[r] = "tasking" /\ P!Over(r) /\ held' = held \ {r}
              \/ /\ phase[r] # "tasking" /\ P!Move(r, "answering")
                 /\ \E a \in {"unhealthy", "error"} : result' = [result EXCEPT ![r] = a]
                 /\ tasked' = tasked \ {r} /\ UNCHANGED <<kind, left, held>>
<1>1. CASE phase[r] = "tasking"
  BY <1>1 DEF P!TimeOut, P!Close
<1>2. CASE phase[r] # "tasking" /\ kind[r] = "probe"
  BY <1>2 DEF P!TimeOut, P!End
<1>3. CASE phase[r] # "tasking" /\ kind[r] # "probe"
  BY <1>3 DEF P!TimeOut, P!End
<1> QED
  BY <1>1, <1>2, <1>3

LEMMA OverCleans ==
    ASSUME P!TypeOK, NEW r \in Request, P!Over(r)
    PROVE  /\ phase' = [phase EXCEPT ![r] = "done"] /\ phase' \in [Request -> P!Phase]
           /\ kind' \in [Request -> {"account", "guest", "probe"}]
           /\ left' \in [Request -> 0..Transactions]
           /\ result' \in [Request -> {"none", "ok", "refused", "unhealthy", "error"}]
           /\ tasked' \subseteq tasked
<1>1. 0 \in 0..Transactions
  BY PoolParameters
<1> QED
  BY <1>1 DEF P!Over, P!Move, P!TypeOK, P!Phase

LEMMA PoolTypeStep == P!TypeOK /\ [P!Next]_P!vars => P!TypeOK'
<1> SUFFICES ASSUME P!TypeOK, [P!Next]_P!vars
             PROVE  P!TypeOK'
  OBVIOUS
<1> USE DEF P!TypeOK, P!Phase, P!Waiting, P!Running, P!Move
<1>1. ASSUME NEW r \in Request, P!Arrive(r) PROVE P!TypeOK'
  BY <1>1, PoolParameters DEF P!Arrive
<1>2. ASSUME NEW r \in Request, P!Enter(r) \/ P!Guarded(r) \/ P!Connect(r) PROVE P!TypeOK'
  BY <1>2 DEF P!Enter, P!Guarded, P!Connect
<1>3. ASSUME NEW r \in Request, P!Commit(r) PROVE P!TypeOK'
  <2>1. left' \in [Request -> 0..Transactions]
    BY <1>3, PoolParameters DEF P!Commit
  <2>2. tasked' \subseteq Request
    BY <1>3 DEF P!Commit
  <2> QED
    BY <1>3, <2>1, <2>2 DEF P!Commit
<1>4. ASSUME NEW r \in Request, P!Return(r) \/ P!Refuse(r) \/ P!Fail(r) PROVE P!TypeOK'
  BY <1>4 DEF P!Return, P!Refuse, P!Fail, P!End
<1>5. ASSUME NEW r \in Request, P!TimeOut(r) PROVE P!TypeOK'
  <2>1. CASE phase[r] = "tasking"
    BY <1>5, <2>1, TimeOutCases, OverCleans
  <2>2. CASE phase[r] # "tasking"
    BY <1>5, <2>2, TimeOutCases
  <2> QED
    BY <2>1, <2>2
<1>6. ASSUME NEW r \in Request, P!Respond(r) PROVE P!TypeOK'
  <2>1. held' \subseteq held /\ UNCHANGED <<early, sending, late, crowded>>
    BY <1>6 DEF P!Respond, P!Close
  <2>2. CASE r \in tasked
    BY <1>6, <2>1, <2>2 DEF P!Respond
  <2>3. CASE r \notin tasked
    BY <1>6, <2>1, <2>3, OverCleans DEF P!Respond
  <2> QED
    BY <2>2, <2>3
<1>8. ASSUME NEW r \in Request, P!SendNow(r) PROVE P!TypeOK'
  <2>1. held' \subseteq held /\ sending' \subseteq sending /\ P!Over(r) /\ UNCHANGED <<early, late, crowded>>
    BY <1>8 DEF P!SendNow, P!Close
  <2> QED
    BY <2>1, OverCleans
<1>7. CASE UNCHANGED P!vars
  BY <1>7 DEF P!vars
<1> QED
  BY <1>1, <1>2, <1>3, <1>4, <1>5, <1>6, <1>7, <1>8 DEF P!Next, P!Step

LEMMA HeldStep == P!TypeOK /\ HeldInPhase /\ [P!Next]_P!vars => HeldInPhase'
<1> SUFFICES ASSUME P!TypeOK, HeldInPhase, [P!Next]_P!vars
             PROVE  HeldInPhase'
  OBVIOUS
<1> USE DEF P!TypeOK, HeldInPhase, P!Move
<1>1. ASSUME NEW r \in Request, P!Arrive(r) PROVE HeldInPhase'
  BY <1>1 DEF P!Arrive
<1>2. ASSUME NEW r \in Request, P!Enter(r) PROVE HeldInPhase'
  BY <1>2 DEF P!Enter, P!Waiting
<1>3. ASSUME NEW r \in Request, P!Connect(r) PROVE HeldInPhase'
  <2>1. CASE phase[r] = "tasking"
    BY <1>3, <2>1 DEF P!Connect
  <2>2. CASE phase[r] # "tasking"
    <3>1. phase[r] \in {"guarding", "calling"} /\ held' = held \cup {r} /\ UNCHANGED <<sending, phase, early>>
      BY <1>3, <2>2 DEF P!Connect, P!Starved
    <3> QED
      BY <3>1
  <2> QED
    BY <2>1, <2>2
<1>4. ASSUME NEW r \in Request, P!Guarded(r) \/ P!Commit(r) PROVE HeldInPhase'
  BY <1>4 DEF P!Guarded, P!Commit
<1>5. ASSUME NEW r \in Request, P!Return(r) \/ P!Refuse(r) \/ P!Fail(r) PROVE HeldInPhase'
  BY <1>5 DEF P!Return, P!Refuse, P!Fail, P!End
<1>6. ASSUME NEW r \in Request, P!TimeOut(r) PROVE HeldInPhase'
  <2>1. CASE phase[r] = "tasking"
    <3>1. /\ phase' = [phase EXCEPT ![r] = "done"] /\ held' = held \ {r}
          /\ r \notin sending /\ UNCHANGED <<early, sending>>
      BY <1>6, <2>1, TimeOutCases DEF P!Over, P!Starved
    <3> QED
      BY <3>1
  <2>2. CASE phase[r] # "tasking"
    BY <1>6, <2>2, TimeOutCases DEF P!Starved
  <2> QED
    BY <2>1, <2>2
<1>7. ASSUME NEW r \in Request, P!Respond(r) PROVE HeldInPhase'
  BY <1>7 DEF P!Respond, P!Over, P!Close
<1>8. ASSUME NEW r \in Request, P!SendNow(r) PROVE HeldInPhase'
  BY <1>8 DEF P!SendNow, P!Over, P!Close
<1>9. CASE UNCHANGED P!vars
  BY <1>9 DEF P!vars
<1> QED
  BY <1>1, <1>2, <1>3, <1>4, <1>5, <1>6, <1>7, <1>8, <1>9 DEF P!Next, P!Step

(* Who has none can have one, as long as there are enough for everybody.      *)
LEMMA NobodyWaitsInVain ==
    ASSUME PoolIInv, NEW r \in Request, P!Starved(r), ~crowded
    PROVE  P!FreeConnection
<1> DEFINE A == P!Active
<1>1. IsFiniteSet(A) /\ Cardinality(A) \in Nat /\ P!Need * Cardinality(A) <= Capacity /\ r \in A
  BY FS_CardinalityType DEF PoolIInv, EnoughUnlessCrowded, P!Active, P!Starved
<1>2. held \subseteq A /\ sending \subseteq A
  BY DEF PoolIInv, P!TypeOK, HeldInPhase, P!Active
<1>3. /\ IsFiniteSet(A \ {r}) /\ Cardinality(A \ {r}) = Cardinality(A) - 1
  BY <1>1, FS_RemoveElement
<1>4. /\ IsFiniteSet(held) /\ Cardinality(held) \in Nat /\ Cardinality(held) <= Cardinality(A)
      /\ IsFiniteSet(sending) /\ Cardinality(sending) \in Nat /\ Cardinality(sending) <= Cardinality(A)
  BY <1>1, <1>2, FS_Subset, FS_CardinalityType
<1>5. /\ r \notin held => Cardinality(held) <= Cardinality(A) - 1
      /\ r \notin sending => Cardinality(sending) <= Cardinality(A) - 1
  BY <1>2, <1>3, FS_Subset
<1>6. r \notin held \/ r \notin sending
  BY DEF P!Starved
<1>7. CASE early
  <2>1. held \cap sending = {} /\ r \notin held /\ r \notin sending
    BY <1>7 DEF PoolIInv, HeldInPhase, P!Starved
  <2>2. held \cup sending \subseteq A \ {r}
    BY <1>2, <2>1
  <2>3. Cardinality(held \cup sending) <= Cardinality(A) - 1
    BY <1>3, <2>2, FS_Subset
  <2>4. Cardinality(held \cup sending) = Cardinality(held) + Cardinality(sending)
    BY <1>4, <2>1, FS_Union, FS_EmptySet
  <2>5. Cardinality(A) <= Capacity
    BY <1>1, <1>7 DEF P!Need
  <2> QED
    BY <1>1, <1>4, <2>3, <2>4, <2>5, PoolParameters, PoolCardinality DEF P!FreeConnection
<1>8. CASE ~early
  <2>1. 2 * Cardinality(A) <= Capacity
    BY <1>1, <1>8 DEF P!Need
  <2>2. Cardinality(held) + Cardinality(sending) < 2 * Cardinality(A)
    BY <1>1, <1>4, <1>5, <1>6
  <2> QED
    BY <1>1, <1>4, <2>1, <2>2, PoolParameters, PoolCardinality DEF P!FreeConnection
<1> QED
  BY <1>7, <1>8

LEMMA EnoughStep ==
    P!TypeOK /\ EnoughUnlessCrowded /\ [P!Next]_P!vars => EnoughUnlessCrowded'
<1> SUFFICES ASSUME P!TypeOK, EnoughUnlessCrowded, [P!Next]_P!vars
             PROVE  EnoughUnlessCrowded'
  OBVIOUS
<1> DEFINE n == Cardinality(P!Active)
<1>0. IsFiniteSet(P!Active) /\ n \in Nat /\ early' = early /\ P!Need \in {1, 2}
  BY FS_CardinalityType DEF EnoughUnlessCrowded, P!Next, P!Step, P!Arrive, P!Enter, P!Connect, P!Guarded,
     P!Commit, P!Return, P!Refuse, P!Fail, P!TimeOut, P!Respond, P!SendNow, P!End, P!vars, P!Need
<1>1. ASSUME NEW r \in Request, P!Arrive(r)
      PROVE  EnoughUnlessCrowded'
  <2>1. P!Active' = P!Active \cup {r} /\ r \notin P!Active
    BY <1>1 DEF P!Arrive, P!Move, P!Active, P!TypeOK
  <2>2. IsFiniteSet(P!Active)' /\ n' = n + 1
    BY <1>0, <2>1, FS_AddElement
  <2>3. ~crowded' => P!Need * (n + 1) <= Capacity
    <3>1. crowded' = (crowded \/ P!Need * (n + 1) > Capacity)
      BY <1>1, PoolCardinality DEF P!Arrive
    <3>2. CASE P!Need * (n + 1) > Capacity
      BY <3>1, <3>2
    <3>3. CASE ~(P!Need * (n + 1) > Capacity)
      BY <1>0, <3>3, PoolParameters
    <3> QED
      BY <3>2, <3>3
  <2> QED
    BY <1>0, <2>2, <2>3 DEF EnoughUnlessCrowded, P!Need
<1>2. ASSUME P!Active' \subseteq P!Active, crowded' = crowded
      PROVE  EnoughUnlessCrowded'
  <2>1. IsFiniteSet(P!Active)' /\ n' \in Nat /\ n' <= n
    BY <1>0, <1>2, FS_Subset, FS_CardinalityType
  <2>2. P!Need * n' <= P!Need * n
    BY <1>0, <2>1
  <2> QED
    BY <1>0, <1>2, <2>1, <2>2, PoolParameters DEF EnoughUnlessCrowded, P!Need
<1>3. ASSUME NEW r \in Request, P!Step(r)
      PROVE  P!Active' \subseteq P!Active /\ crowded' = crowded
  <2>1. crowded' = crowded /\ r \in P!Active /\ \A q \in Request : q # r => phase'[q] = phase[q]
    BY <1>3 DEF P!TypeOK, P!Active, P!Step, P!Enter, P!Connect, P!Guarded, P!Commit, P!Return, P!Refuse,
       P!Fail, P!TimeOut, P!Respond, P!SendNow, P!End, P!Over, P!Move, P!Starved, P!Waiting
  <2> QED
    BY <2>1 DEF P!Active
<1>4. CASE UNCHANGED P!vars
  BY <1>2, <1>4 DEF P!vars, P!Active
<1> QED
  BY <1>1, <1>2, <1>3, <1>4 DEF P!Next

LEMMA PoolInvariant == P!Spec => []PoolIInv
<1>1. P!Init => PoolIInv
  <2> SUFFICES ASSUME P!Init PROVE PoolIInv
    OBVIOUS
  <2>1. P!Active = {} /\ IsFiniteSet(P!Active) /\ Cardinality(P!Active) = 0
    BY FS_EmptySet DEF P!Init, P!Active
  <2> QED
    <3>1. P!TypeOK /\ HeldInPhase /\ late = FALSE
      <4>1. 0 \in 0..Transactions
        BY PoolParameters
      <4>2. left \in [Request -> 0..Transactions]
        BY <4>1 DEF P!Init
      <4> QED
        BY <4>2 DEF P!Init, P!TypeOK, P!Phase, HeldInPhase
    <3>2. P!Need * 0 <= Capacity
      BY PoolParameters DEF P!Need
    <3> QED
      BY <2>1, <3>1, <3>2 DEF PoolIInv, EnoughUnlessCrowded
<1>2. PoolIInv /\ [P!Next]_P!vars => PoolIInv'
  <2> SUFFICES ASSUME PoolIInv, [P!Next]_P!vars
               PROVE  late' => crowded'
    BY PoolTypeStep, HeldStep, EnoughStep DEF PoolIInv
  <2>1. ASSUME NEW r \in Request, P!TimeOut(r)
        PROVE  crowded'
    <3>1. P!Starved(r) /\ ~P!FreeConnection /\ crowded' = crowded
      BY <2>1, TimeOutCases
    <3> QED
      BY <3>1, NobodyWaitsInVain
  <2>2. ASSUME late' = late, crowded => crowded'
        PROVE  late' => crowded'
    BY <2>2 DEF PoolIInv
  <2>3. ASSUME NEW r \in Request, P!Arrive(r)
        PROVE  late' = late /\ (crowded => crowded')
    <3>1. late' = late /\ \E c \in BOOLEAN : crowded' = (crowded \/ c)
      BY <2>3 DEF P!Arrive
    <3> QED
      BY <3>1
  <2>4. ASSUME NEW r \in Request, P!Step(r), ~P!TimeOut(r)
        PROVE  late' = late /\ crowded' = crowded
    BY <2>4 DEF P!Step, P!Enter, P!Connect, P!Guarded, P!Commit, P!Return, P!Refuse, P!Fail, P!Respond,
       P!SendNow, P!End
  <2>5. CASE UNCHANGED P!vars
    BY <2>2, <2>5 DEF P!vars
  <2> QED
    BY <2>1, <2>2, <2>3, <2>4, <2>5 DEF P!Next
<1> QED
  BY <1>1, <1>2, PTL DEF P!Spec

(* Every connection comes back, however the request that had it ended, and    *)
(* nobody waits in vain for one while there are enough of them (get_db,       *)
(* _send_now).                                                                *)
THEOREM ConnectionsAlwaysComeBack == P!Spec => []ConnectionsComeBack
<1>1. PoolIInv => ConnectionsComeBack
  BY DEF PoolIInv, P!TypeOK, HeldInPhase, ConnectionsComeBack, P!ConnectionsComeBack, P!Active
<1> QED
  BY <1>1, PoolInvariant, PTL
=============================================================================
