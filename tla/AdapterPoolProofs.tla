-------------------------- MODULE AdapterPoolProofs --------------------------
(***************************************************************************)
(* Theorems about AdapterPool for every size of the pool, every set of     *)
(* callers and any number of faults.  They need no fairness and are stated *)
(* of Safe, which Spec implies.                                            *)
(***************************************************************************)
EXTENDS AdapterPool, TLAPS

Safe == Init /\ [][Next]_vars

Constructing == {"admin", "producer"}

-----------------------------------------------------------------------------
(* The round-robin index *)

LEMMA ModSmall ==
  ASSUME NEW n \in Nat \ {0}, NEW a \in 0..(n - 1)
  PROVE  a % n = a
  OBVIOUS

LEMMA ModNext ==
  ASSUME NEW n \in Nat \ {0}, NEW a \in 0..(n - 1)
  PROVE  (a + 1) % n = IF a + 1 = n THEN 0 ELSE a + 1
<1>1. CASE a + 1 = n
  <2>1. n % n = 0
    OBVIOUS
  <2> QED
    BY <1>1, <2>1
<1>2. CASE a + 1 # n
  BY <1>2, ModSmall
<1> QED
  BY <1>1, <1>2

LEMMA ModBound ==
  ASSUME NEW n \in Nat \ {0}, NEW a \in Nat
  PROVE  a % n \in 0..(n - 1)
  OBVIOUS

-----------------------------------------------------------------------------
(* Types and places *)

\* Where startup and shutdown stand in the list, and how long it is meanwhile.
Placed ==
  /\ main = "new" => at = 1 /\ size = 0
  /\ main \in Constructing => at = size + 1 /\ at <= PoolSize
  /\ main = "cancel" => at = 1
  /\ main \in {"cleanup", "cleanupAdmin", "closeAdmin"} => at <= size
  /\ initialized => size = PoolSize /\ main \in {"up", "cancel", "close", "closeAdmin"}
  /\ main = "up" => initialized
  /\ main = "stopped" => size = 0
  /\ main \notin {"up", "cancel"} => loop \in {"none", "ended"}

\* A caller is let in only when the list is complete; it stays so to the end.
Served ==
  \A c \in Callers :
    /\ pc[c] \in {"waiting", "checking"} => main = "stopped" \/ (initialized /\ size = PoolSize)
    /\ pc[c] = "checking" => tries[c] > 0 /\ lock = c

PlaceInv == TypeOK /\ Placed /\ Served

AdapterType ==
  /\ connected \in [Adapters -> BOOLEAN]
  /\ admin \in [Adapters -> ClientState]
  /\ producer \in [Adapters -> ClientState]
  /\ link \in [Adapters -> BOOLEAN]
  /\ lost \in Nat /\ raised \in Nat /\ brokerUp \in BOOLEAN /\ faults \in 0..MaxFaults

PlaceType ==
  /\ main \in MainPC /\ at \in 1..(PoolSize + 1) /\ size \in 0..PoolSize
  /\ initialized \in BOOLEAN /\ loop \in LoopPC /\ loopAt \in Adapters

CallType ==
  /\ index \in 0..(PoolSize - 1) /\ lock \in Callers \union {NoCaller}
  /\ pc \in [Callers -> CallerPC] /\ checked \in [Callers -> Adapters]
  /\ tries \in [Callers -> 0..PoolSize] /\ seen \in [Callers -> SUBSET Adapters]

LEMMA TypeParts == TypeOK <=> AdapterType /\ PlaceType /\ CallType
  BY DEF TypeOK, AdapterType, PlaceType, CallType

LEMMA PlaceInit == Init => PlaceInv
<1> SUFFICES ASSUME Init PROVE PlaceInv
  OBVIOUS
<1>1. 1 \in Adapters /\ 0 \in 0..(PoolSize - 1) /\ PoolSize \in Nat
  BY PoolAssumption DEF Adapters
<1>2. TypeOK
  <2>1. PlaceType
    <3>1. initialized \in BOOLEAN
      BY Zenon DEF Init
    <3> QED
      BY <1>1, <3>1 DEF Init, PlaceType, MainPC, LoopPC
  <2>2. CallType
    BY <1>1 DEF Init, CallType, CallerPC
  <2>3. AdapterType
    <3>1. /\ connected \in [Adapters -> BOOLEAN] /\ link \in [Adapters -> BOOLEAN]
          /\ brokerUp \in BOOLEAN
      BY Zenon DEF Init
    <3>3. admin \in [Adapters -> ClientState] /\ producer \in [Adapters -> ClientState]
      BY DEF Init, ClientState
    <3>2. lost \in Nat /\ raised \in Nat /\ faults \in 0..MaxFaults
      BY PoolAssumption DEF Init
    <3> QED
      BY <3>1, <3>2, <3>3, Zenon DEF AdapterType
  <2> QED
    BY <2>1, <2>2, <2>3, TypeParts
<1>3. Placed /\ Served
  BY DEF Init, Placed, Served, Constructing
<1> QED
  BY <1>2, <1>3 DEF PlaceInv

LEMMA AdapterStep ==
  ASSUME TypeOK, NEW i \in Adapters,
         \/ StartAdmin(i) \/ StartProducer(i)
         \/ StopProducer(i) \/ StopProducerFails(i) \/ StopAdmin(i) \/ StopAdminFails(i)
         \/ StartFails /\ (ReplaceAdmin(i, FALSE) \/ ReplaceProducer(i, FALSE))
  PROVE  AdapterType'
<1>1. AdapterType
  BY DEF TypeOK, AdapterType
<1>2. Replaced(admin, i) \in Nat /\ Replaced(producer, i) \in Nat
  BY <1>1 DEF AdapterType, Replaced
<1>3. Fault => faults' \in 0..MaxFaults
  BY <1>1, PoolAssumption DEF Fault, AdapterType
<1>4. \A works \in BOOLEAN :
        ReplaceAdmin(i, works) /\ faults' \in 0..MaxFaults => AdapterType'
  BY <1>1, <1>2 DEF AdapterType, ReplaceAdmin, Admin, ClientState
<1>5. \A works \in BOOLEAN :
        ReplaceProducer(i, works) /\ faults' \in 0..MaxFaults => AdapterType'
  <2> SUFFICES ASSUME NEW works \in BOOLEAN, ReplaceProducer(i, works), faults' \in 0..MaxFaults
               PROVE  AdapterType'
    OBVIOUS
  <2>1. connected' \in [Adapters -> BOOLEAN]
    BY <1>1, Zenon DEF AdapterType, ReplaceProducer
  <2> QED
    BY <1>1, <1>2, <2>1 DEF AdapterType, ReplaceProducer, Producer, ClientState, brokerVars
<1>6. CASE StartAdmin(i) \/ StartProducer(i)
  BY <1>1, <1>4, <1>5, <1>6 DEF StartAdmin, StartProducer, AdapterType
<1>7. CASE StopProducer(i) \/ StopAdmin(i)
  <2>1. Stopped(producer[i]) \in ClientState /\ Stopped(admin[i]) \in ClientState
    BY DEF Stopped, ClientState
  <2> QED
    BY <1>1, <1>7, <2>1 DEF AdapterType, StopProducer, StopAdmin, Producer, Admin, brokerVars
<1>8. CASE StopProducerFails(i) \/ StopAdminFails(i)
  <2>1. Unstopped(producer[i]) \in ClientState /\ Unstopped(admin[i]) \in ClientState
    BY DEF Unstopped, ClientState
  <2> QED
    BY <1>1, <1>3, <1>8, <2>1 DEF AdapterType, StopProducerFails, StopAdminFails, ProducerLeft,
       AdminLeft, Producer, Admin, brokerVars
<1>9. CASE StartFails /\ (ReplaceAdmin(i, FALSE) \/ ReplaceProducer(i, FALSE))
  <2>1. faults' \in 0..MaxFaults
    BY <1>1, <1>3, <1>9 DEF StartFails, AdapterType
  <2> QED
    BY <1>4, <1>5, <1>9, <2>1
<1> QED
  BY <1>6, <1>7, <1>8, <1>9

LEMMA AdapterTypeStep == TypeOK /\ Placed /\ [Next]_vars => AdapterType'
<1> SUFFICES ASSUME TypeOK, Placed, [Next]_vars PROVE AdapterType'
  OBVIOUS
<1>1. AdapterType /\ PlaceType
  BY TypeParts
<1>2. /\ loopAt \in Adapters
      /\ main \in Constructing \union {"cleanup", "cleanupAdmin", "closeAdmin"} => at \in Adapters
      /\ at <= size => at \in Adapters
  BY <1>1, PoolAssumption DEF PlaceType, Placed, Adapters, Constructing
<1>3. ASSUME UNCHANGED <<adapterVars, brokerVars, faults>> PROVE AdapterType'
  BY <1>1, <1>3 DEF AdapterType, adapterVars, brokerVars
<1>4. CASE Startup \/ Shutdown \/ Closed
  BY <1>3, <1>4 DEF Startup, Shutdown, Closed
<1>16. CASE LoopCancelled
  <2>1. /\ Unstopped(producer[loopAt]) \in ClientState /\ Unstopped(admin[loopAt]) \in ClientState
        /\ Replaced(producer, loopAt) \in Nat /\ Replaced(admin, loopAt) \in Nat
    BY <1>1, <1>2 DEF Unstopped, ClientState, Replaced, AdapterType
  <2>2. faults' = faults
    BY <1>16 DEF LoopCancelled
  <2>3. CASE ProducerLeft(loopAt) /\ UNCHANGED raised
    BY <1>1, <2>1, <2>2, <2>3 DEF ProducerLeft, Producer, AdapterType, brokerVars
  <2>4. CASE AdminLeft(loopAt) /\ UNCHANGED raised
    BY <1>1, <2>1, <2>2, <2>4 DEF AdminLeft, Admin, AdapterType, brokerVars
  <2>5. CASE ReplaceAdmin(loopAt, FALSE)
    BY <1>1, <2>1, <2>2, <2>5 DEF ReplaceAdmin, Admin, AdapterType, ClientState
  <2>6. CASE ReplaceProducer(loopAt, FALSE)
    <3>1. connected' \in [Adapters -> BOOLEAN]
      BY <1>1, <2>6, Zenon DEF AdapterType, ReplaceProducer
    <3> QED
      BY <1>1, <2>1, <2>2, <2>6, <3>1 DEF ReplaceProducer, Producer, AdapterType, ClientState, brokerVars
  <2>7. CASE UNCHANGED <<adapterVars, brokerVars>>
    BY <1>3, <2>2, <2>7
  <2> QED
    BY <1>16, <2>3, <2>4, <2>5, <2>6, <2>7 DEF LoopCancelled
<1>5. CASE InitAdmin
  BY <1>2, <1>5, AdapterStep DEF InitAdmin, Constructing
<1>6. CASE InitProducer
  BY <1>2, <1>6, AdapterStep DEF InitProducer, Constructing
<1>7. CASE InitFails
  <2>1. at \in Adapters
    BY <1>2, <1>7 DEF InitFails, Constructing
  <2>2. faults' \in 0..MaxFaults /\ brokerUp' = brokerUp /\ link' = link
    BY <1>1, <1>7, PoolAssumption DEF InitFails, StartFails, Fault, brokerVars, AdapterType
  <2>3. lost' \in Nat
    BY <1>1, <1>7 DEF AdapterType, InitFails
  <2> QED
    BY <1>1, <1>7, <2>1, <2>2, <2>3 DEF InitFails, AdapterType, ClientState
<1>8. CASE CleanUp
  BY <1>2, <1>8, AdapterStep DEF CleanUp
<1>9. CASE CloseAdapter
  BY <1>2, <1>9, AdapterStep DEF CloseAdapter
<1>10. CASE Wake \/ CheckFinds \/ CheckMisses \/ RecheckHealthy \/ RecheckUnhealthy
  BY <1>3, <1>10 DEF Wake, CheckFinds, CheckMisses, RecheckHealthy, RecheckUnhealthy
<1>11. CASE LoopDisconnects \/ LoopStartsAdmin \/ LoopStartsProducer \/ LoopConnectFails
  BY <1>2, <1>11, AdapterStep
     DEF LoopDisconnects, LoopStartsAdmin, LoopStartsProducer, LoopConnectFails, ConnectFails
<1>12. ASSUME NEW c \in Callers, Call(c) \/ Acquire(c) \/ CallStep(c) \/ Leaves(c)
       PROVE  AdapterType'
  BY <1>3, <1>12 DEF Call, Acquire, CallStep, FindsHealthy, FindsUnhealthy, Leaves
<1>13. ASSUME NEW i \in Adapters, Breaks(i) PROVE AdapterType'
  BY <1>1, <1>13, PoolAssumption DEF Breaks, Fault, AdapterType, adapterVars
<1>14. CASE BrokerChanges
  BY <1>1, <1>14, PoolAssumption DEF BrokerChanges, Fault, AdapterType, adapterVars
<1>15. CASE UNCHANGED vars
  BY <1>3, <1>15 DEF vars, adapterVars, brokerVars
<1> QED
  BY <1>4, <1>5, <1>6, <1>7, <1>8, <1>9, <1>10, <1>11, <1>12, <1>13, <1>14, <1>15, <1>16
     DEF Next, MainStep, LoopStep

LEMMA PlaceStep == TypeOK /\ Placed /\ [Next]_vars => PlaceType' /\ Placed'
<1> SUFFICES ASSUME TypeOK, Placed, [Next]_vars PROVE PlaceType' /\ Placed'
  OBVIOUS
<1>1. PlaceType
  BY TypeParts
<1> USE PoolAssumption DEF Placed, PlaceType, Adapters, Constructing, MainPC, LoopPC
<1>2. ASSUME UNCHANGED <<lifecycleVars, loopVars>> PROVE PlaceType' /\ Placed'
  BY <1>1, <1>2 DEF lifecycleVars, loopVars
<1>3. CASE Startup
  BY <1>1, <1>3 DEF Startup, loopVars
<1>4. CASE Shutdown
  BY <1>1, <1>4 DEF Shutdown, loopVars
<1>5. CASE InitAdmin
  BY <1>1, <1>5 DEF InitAdmin, loopVars
<1>6. CASE InitProducer
  <2>1. size' = size + 1 /\ size + 1 = at /\ at <= PoolSize /\ loopAt' = loopAt /\ ~initialized
    BY <1>6 DEF InitProducer
  <2>2. CASE at = PoolSize
    BY <1>1, <1>6, <2>1, <2>2 DEF InitProducer
  <2>3. CASE at # PoolSize
    <3>1. /\ main' = "admin" /\ at' = at + 1 /\ UNCHANGED <<initialized, loop>>
      BY <1>6, <2>3 DEF InitProducer
    <3>2. PlaceType'
      BY <1>1, <2>1, <2>3, <3>1
    <3>3. loop \in {"none", "ended"}
      BY <1>6 DEF InitProducer
    <3> QED
      BY <1>1, <2>1, <2>3, <3>1, <3>2, <3>3
  <2> QED
    BY <2>2, <2>3
<1>7. CASE InitFails
  BY <1>1, <1>7 DEF InitFails, loopVars
<1>8. CASE CleanUp
  BY <1>1, <1>8 DEF CleanUp, NextCleanUp, loopVars
<1>9. CASE LoopCancelled
  BY <1>1, <1>9 DEF LoopCancelled
<1>10. CASE CloseAdapter
  BY <1>1, <1>10 DEF CloseAdapter, loopVars
<1>11. CASE Closed
  <2>1. main' = "stopped" /\ size' = 0 /\ ~initialized' /\ at' = 1 /\ initialized' \in BOOLEAN
        /\ UNCHANGED <<loop, loopAt>> /\ loop \in {"none", "ended"}
    BY <1>11 DEF Closed, loopVars
  <2> QED
    BY <1>1, <2>1
<1>12. CASE LoopStep
  <2>1. /\ UNCHANGED lifecycleVars /\ main # "cancel"
        /\ loop \notin {"none", "ended"} /\ loop' \in LoopPC /\ loopAt' \in Adapters
    BY <1>1, <1>12
       DEF LoopStep, Wake, CheckFinds, CheckMisses, RecheckHealthy, RecheckUnhealthy,
           LoopDisconnects, LoopStartsAdmin, LoopStartsProducer, LoopConnectFails,
           NextAdapter, LoopGoes
  <2> QED
    BY <1>1, <2>1 DEF lifecycleVars
<1>13. ASSUME NEW c \in Callers, Call(c) \/ Acquire(c) \/ CallStep(c) \/ Leaves(c)
       PROVE  PlaceType' /\ Placed'
  BY <1>2, <1>13 DEF Call, Acquire, CallStep, FindsHealthy, FindsUnhealthy, Leaves
<1>14. ASSUME NEW i \in Adapters, Breaks(i) PROVE PlaceType' /\ Placed'
  BY <1>2, <1>14 DEF Breaks
<1>15. CASE BrokerChanges
  BY <1>2, <1>15 DEF BrokerChanges
<1>16. CASE UNCHANGED vars
  BY <1>2, <1>16 DEF vars, lifecycleVars, loopVars
<1> QED
  BY <1>3, <1>4, <1>5, <1>6, <1>7, <1>8, <1>9, <1>10, <1>11, <1>12, <1>13, <1>14, <1>15, <1>16
     DEF Next, MainStep

\* Nothing but a call itself moves a call; the list it goes through stays complete
\* until the pool is stopped.
LEMMA OthersStep ==
  TypeOK /\ Placed /\ [Next]_vars =>
    \/ \E c \in Callers : Call(c) \/ Acquire(c) \/ CallStep(c) \/ Leaves(c)
    \/ /\ UNCHANGED callVars
       /\ initialized /\ size = PoolSize =>
            main' = "stopped" \/ (initialized' /\ size' = PoolSize)
       /\ main = "stopped" => main' = "stopped"
<1> SUFFICES ASSUME TypeOK, Placed, [Next]_vars,
                    ~\E c \in Callers : Call(c) \/ Acquire(c) \/ CallStep(c) \/ Leaves(c)
             PROVE  /\ UNCHANGED callVars
                    /\ initialized /\ size = PoolSize =>
                         main' = "stopped" \/ (initialized' /\ size' = PoolSize)
                    /\ main = "stopped" => main' = "stopped"
  OBVIOUS
<1>1. CASE LoopStep
  BY <1>1 DEF LoopStep, Wake, CheckFinds, CheckMisses, RecheckHealthy, RecheckUnhealthy,
       LoopDisconnects, LoopStartsAdmin, LoopStartsProducer, LoopConnectFails,
       NextAdapter, LoopGoes, lifecycleVars
<1>2. CASE Startup \/ Shutdown \/ MainStep
  BY <1>2 DEF Startup, Shutdown, MainStep, InitAdmin, InitProducer, InitFails, CleanUp,
       LoopCancelled, CloseAdapter, Closed, Placed, Constructing
<1>3. CASE (\E i \in Adapters : Breaks(i)) \/ BrokerChanges
  BY <1>3 DEF Breaks, BrokerChanges, lifecycleVars
<1>4. CASE UNCHANGED vars
  BY <1>4 DEF vars, callVars
<1> QED
  BY <1>1, <1>2, <1>3, <1>4 DEF Next

-----------------------------------------------------------------------------
(* Calls *)

\* A call under way has seen every adapter but those it still has attempts for, in
\* the order of the round robin: nobody else moves the index while it has the lock.
After(i, j) == IF i >= j THEN i - j ELSE i - j + PoolSize

Sweeping ==
  \A c \in Callers : pc[c] = "checking" =>
    \/ main = "stopped"
    \/ /\ index = IF checked[c] = PoolSize THEN 0 ELSE checked[c]
       /\ \A i \in Adapters : i \in seen[c] \/ After(i, checked[c]) < tries[c]

CallInv == Served /\ Sweeping /\ ErrorsAreTrue

LEMMA CallInit == Init => CallInv
  BY DEF Init, CallInv, Served, Sweeping, ErrorsAreTrue

\* The caller that goes on to the next adapter.
LEMMA PickStep ==
  ASSUME TypeOK, NEW c \in Callers, NEW left \in 1..PoolSize, NEW found \in SUBSET Adapters,
         size \in 1..PoolSize, Pick(c, left, found)
  PROVE  /\ index' \in 0..(PoolSize - 1) /\ pc' = [pc EXCEPT ![c] = "checking"]
         /\ pc' \in [Callers -> CallerPC] /\ checked' \in [Callers -> Adapters]
         /\ tries' \in [Callers -> 0..PoolSize] /\ seen' \in [Callers -> SUBSET Adapters]
         /\ tries'[c] = left /\ seen'[c] = found
         /\ \A d \in Callers \ {c} :
              tries'[d] = tries[d] /\ checked'[d] = checked[d] /\ seen'[d] = seen[d]
         /\ size = PoolSize =>
              /\ checked'[c] = index + 1
              /\ index' = IF index + 1 = PoolSize THEN 0 ELSE index + 1
<1>1. CallType /\ PoolSize \in Nat \ {0}
  BY TypeParts, PoolAssumption
<1>2. index % size \in 0..(size - 1) /\ (index + 1) % size \in 0..(size - 1)
  BY <1>1, ModBound DEF CallType
<1>3. (index % size) + 1 \in Adapters /\ (index + 1) % size \in 0..(PoolSize - 1)
  BY <1>1, <1>2 DEF Adapters
<1>4. size = PoolSize => /\ index % size = index
                         /\ (index + 1) % size = IF index + 1 = PoolSize THEN 0 ELSE index + 1
  BY <1>1, ModSmall, ModNext DEF CallType
<1>5. left \in 0..PoolSize
  OBVIOUS
<1>6. "checking" \in CallerPC
  BY DEF CallerPC
<1> QED
  BY <1>1, <1>3, <1>4, <1>5, <1>6 DEF Pick, CallType

LEMMA EndsStep ==
  ASSUME TypeOK, NEW c \in Callers, NEW outcome \in CallerPC, NEW found \in SUBSET Adapters,
         Ends(c, outcome, found)
  PROVE  /\ index' = index /\ pc' = [pc EXCEPT ![c] = outcome]
         /\ CallType'
         /\ seen'[c] = IF outcome = "noneHealthy" THEN found ELSE {}
         /\ lock' = (IF lock = c THEN NoCaller ELSE lock)
         /\ \A d \in Callers \ {c} :
              tries'[d] = tries[d] /\ checked'[d] = checked[d] /\ seen'[d] = seen[d]
<1>1. CallType /\ 1 \in Adapters /\ 0 \in 0..PoolSize
  BY TypeParts, PoolAssumption DEF Adapters
<1> QED
  BY <1>1 DEF Ends, Unlock, Forget, CallType

\* Callers that do nothing keep what they have: only one holds the lock.
LEMMA OthersKeep ==
  ASSUME CallInv, NEW c \in Callers, TypeOK, NEW state \in CallerPC,
         pc' = [pc EXCEPT ![c] = state], UNCHANGED lifecycleVars,
         \A d \in Callers \ {c} :
           tries'[d] = tries[d] /\ checked'[d] = checked[d] /\ seen'[d] = seen[d],
         \A d \in Callers \ {c} : lock = d => lock' = d /\ index' = index,
         state \in {"waiting", "checking"} => main = "stopped" \/ (initialized /\ size = PoolSize),
         state = "checking" => /\ tries'[c] > 0 /\ lock' = c
                               /\ \/ main = "stopped"
                                  \/ /\ index' = IF checked'[c] = PoolSize THEN 0 ELSE checked'[c]
                                     /\ \A i \in Adapters :
                                          i \in seen'[c] \/ After(i, checked'[c]) < tries'[c],
         state = "noneHealthy" => seen'[c] = Adapters \/ main = "stopped",
         state = "zeroDivision" => main = "stopped"
  PROVE  CallInv'
<1>1. pc'[c] = state /\ \A d \in Callers \ {c} : pc'[d] = pc[d]
  BY TypeParts DEF CallType
<1>2. UNCHANGED <<main, size, initialized>>
  BY DEF lifecycleVars
<1>3. Served'
  BY <1>1, <1>2 DEF CallInv, Served
<1>4. Sweeping'
  <2>1. ASSUME NEW d \in Callers \ {c}, pc'[d] = "checking", main # "stopped"
        PROVE  /\ index' = IF checked'[d] = PoolSize THEN 0 ELSE checked'[d]
               /\ \A i \in Adapters : i \in seen'[d] \/ After(i, checked'[d]) < tries'[d]
    BY <1>1, <2>1 DEF CallInv, Served, Sweeping
  <2> QED
    BY <1>1, <1>2, <2>1 DEF Sweeping
<1>5. ErrorsAreTrue'
  BY <1>1, <1>2 DEF CallInv, ErrorsAreTrue
<1> QED
  BY <1>3, <1>4, <1>5 DEF CallInv

LEMMA CallStepInv ==
  ASSUME TypeOK, Placed, CallInv, NEW c \in Callers,
         Call(c) \/ Acquire(c) \/ CallStep(c) \/ Leaves(c)
  PROVE  CallType' /\ CallInv'
<1>1. CallType /\ PlaceType /\ PoolSize \in Nat \ {0}
  BY TypeParts, PoolAssumption
<1>2. seen[c] \subseteq Adapters /\ checked[c] \in 1..PoolSize /\ tries[c] \in 0..PoolSize
      /\ {} \in SUBSET Adapters
  BY <1>1 DEF CallType, Adapters
<1>3. CallerPC = {"idle", "waiting", "checking", "got", "notInitialized", "noneHealthy",
                  "zeroDivision"}
  BY DEF CallerPC, Outcomes
<1>4. CASE Call(c)
  <2> DEFINE state == IF initialized /\ size > 0 THEN "waiting" ELSE "notInitialized"
  <2>1. /\ pc' = [pc EXCEPT ![c] = state] /\ state \in CallerPC
        /\ UNCHANGED <<lifecycleVars, index, lock, checked, tries, seen>>
    BY <1>3, <1>4 DEF Call
  <2>2. state = "waiting" => initialized /\ size = PoolSize
    BY DEF Placed
  <2>3. state \notin {"checking", "noneHealthy", "zeroDivision"}
    OBVIOUS
  <2> HIDE DEF state
  <2>4. CallType'
    BY <1>1, <2>1 DEF CallType
  <2> QED
    BY <2>1, <2>2, <2>3, <2>4, OthersKeep
<1>5. CASE Acquire(c) /\ size = 0
  <2>1. Ends(c, "noneHealthy", {}) /\ lock = NoCaller /\ UNCHANGED lifecycleVars
    BY <1>5 DEF Acquire
  <2>2. main = "stopped"
    BY <1>1, <1>5 DEF Acquire, CallInv, Served
  <2> QED
    BY <1>2, <1>3, <2>1, <2>2, EndsStep, OthersKeep, PoolAssumption
<1>6. CASE Acquire(c) /\ size # 0
  <2>1. Pick(c, size, {}) /\ lock = NoCaller /\ lock' = c /\ UNCHANGED lifecycleVars
    BY <1>6 DEF Acquire
  <2>2. size \in 1..PoolSize
    BY <1>1, <1>6 DEF PlaceType
  <2>3. main = "stopped" \/ (initialized /\ size = PoolSize)
    BY <1>6 DEF Acquire, CallInv, Served
  <2>4. /\ index' \in 0..(PoolSize - 1) /\ pc' = [pc EXCEPT ![c] = "checking"]
        /\ pc' \in [Callers -> CallerPC] /\ checked' \in [Callers -> Adapters]
        /\ tries' \in [Callers -> 0..PoolSize] /\ seen' \in [Callers -> SUBSET Adapters]
        /\ tries'[c] = size /\ seen'[c] = {}
        /\ \A d \in Callers \ {c} :
             tries'[d] = tries[d] /\ checked'[d] = checked[d] /\ seen'[d] = seen[d]
        /\ size = PoolSize =>
             /\ checked'[c] = index + 1
             /\ index' = IF index + 1 = PoolSize THEN 0 ELSE index + 1
    BY <1>2, <2>1, <2>2, PickStep
  <2>5. CallType'
    BY <2>1, <2>4 DEF CallType
  <2>6. size = PoolSize => \A i \in Adapters : After(i, checked'[c]) < tries'[c]
    BY <1>1, <2>4 DEF CallType, Adapters, After
  <2>7. size = PoolSize => index' = IF checked'[c] = PoolSize THEN 0 ELSE checked'[c]
    BY <1>1, <2>4 DEF CallType
  <2> QED
    <3>1. "checking" \in CallerPC /\ tries'[c] > 0 /\ lock' = c
      BY <1>3, <2>1, <2>2, <2>4
    <3>2. \A d \in Callers \ {c} : lock = d => lock' = d /\ index' = index
      BY <2>1, PoolAssumption
    <3> QED
      BY <2>1, <2>3, <2>4, <2>5, <2>6, <2>7, <3>1, <3>2, OthersKeep
<1>7. ASSUME NEW outcome \in {"idle", "got", "zeroDivision"}, NEW found \in SUBSET Adapters,
             Ends(c, outcome, found), UNCHANGED lifecycleVars,
             outcome = "zeroDivision" => main = "stopped"
      PROVE  CallType' /\ CallInv'
  <2>1. outcome \in CallerPC /\ outcome \notin {"waiting", "checking", "noneHealthy"}
    BY <1>3
  <2>2. \A d \in Callers \ {c} : lock = d => lock' = d /\ index' = index
    BY <1>7, <2>1, EndsStep
  <2> QED
    BY <1>7, <2>1, <2>2, EndsStep, OthersKeep
<1>8. CASE FindsHealthy(c)
  BY <1>2, <1>7, <1>8 DEF FindsHealthy
<1>9. CASE Leaves(c)
  BY <1>2, <1>7, <1>9 DEF Leaves
<1>10. CASE FindsUnhealthy(c)
  <2> DEFINE found == seen[c] \union {checked[c]}
  <2>1. found \in SUBSET Adapters /\ lock = c /\ UNCHANGED lifecycleVars
        /\ (main = "stopped" \/ (initialized /\ size = PoolSize)) /\ pc[c] = "checking"
    BY <1>2, <1>10 DEF FindsUnhealthy, CallInv, Served, Adapters
  <2>2. main = "stopped" \/
          /\ index = IF checked[c] = PoolSize THEN 0 ELSE checked[c]
          /\ \A i \in Adapters : i \in seen[c] \/ After(i, checked[c]) < tries[c]
    BY <2>1 DEF CallInv, Sweeping
  <2>3. CASE tries[c] = 1 /\ Ends(c, "noneHealthy", found)
    <3>1. \A i \in Adapters : After(i, checked[c]) < 1 => i = checked[c]
      BY <1>1, <1>2 DEF After, Adapters
    <3>2. main = "stopped" \/ found = Adapters
      BY <2>1, <2>2, <2>3, <3>1
    <3> HIDE DEF found
    <3> QED
      BY <1>3, <2>1, <2>3, <3>2, EndsStep, OthersKeep
  <2>4. CASE tries[c] > 1 /\ size = 0 /\ Ends(c, "zeroDivision", found)
    <3>1. main = "stopped"
      BY <1>1, <2>1, <2>4
    <3> HIDE DEF found
    <3> QED
      BY <1>7, <2>1, <2>4, <3>1
  <2>5. CASE tries[c] > 1 /\ size > 0 /\ Pick(c, tries[c] - 1, found) /\ UNCHANGED lock
    <3>1. size \in 1..PoolSize /\ tries[c] - 1 \in 1..PoolSize
      BY <1>1, <1>2, <2>5 DEF PlaceType
    <3>2. \A i \in Adapters : i \in found <=> i \in seen[c] \/ i = checked[c]
      OBVIOUS
    <3> HIDE DEF found
    <3>3. /\ index' \in 0..(PoolSize - 1) /\ pc' = [pc EXCEPT ![c] = "checking"]
          /\ pc' \in [Callers -> CallerPC] /\ checked' \in [Callers -> Adapters]
          /\ tries' \in [Callers -> 0..PoolSize] /\ seen' \in [Callers -> SUBSET Adapters]
          /\ tries'[c] = tries[c] - 1 /\ seen'[c] = found
          /\ \A d \in Callers \ {c} :
               tries'[d] = tries[d] /\ checked'[d] = checked[d] /\ seen'[d] = seen[d]
          /\ size = PoolSize =>
               /\ checked'[c] = index + 1
               /\ index' = IF index + 1 = PoolSize THEN 0 ELSE index + 1
      BY <2>1, <2>5, <3>1, PickStep
    <3>4. CallType'
      BY <1>1, <2>5, <3>3 DEF CallType
    <3>5. ASSUME size = PoolSize, main # "stopped", NEW i \in Adapters
          PROVE  i \in seen'[c] \/ After(i, checked'[c]) < tries'[c]
      <4>1. checked'[c] = IF checked[c] = PoolSize THEN 1 ELSE checked[c] + 1
        BY <1>1, <1>2, <2>2, <3>3, <3>5
      <4>2. i = checked[c] \/ After(i, checked'[c]) = After(i, checked[c]) - 1
        BY <1>1, <1>2, <3>5, <4>1 DEF After, Adapters
      <4>3. CASE i \in seen[c] \/ i = checked[c]
        BY <3>2, <3>3, <4>3
      <4>4. CASE i # checked[c] /\ After(i, checked[c]) < tries[c]
        <5>1. After(i, checked[c]) \in Int
          BY <1>1, <1>2, <3>5 DEF After, Adapters
        <5> QED
          BY <1>2, <3>3, <4>2, <4>4, <5>1
      <4> QED
        BY <2>2, <3>5, <4>3, <4>4
    <3>6. size = PoolSize => index' = IF checked'[c] = PoolSize THEN 0 ELSE checked'[c]
      BY <1>1, <3>3 DEF CallType
    <3>7. tries'[c] > 0 /\ lock' = c /\ "checking" \in CallerPC
      BY <1>2, <1>3, <2>1, <2>5, <3>3
    <3> QED
      BY <2>1, <3>3, <3>4, <3>5, <3>6, <3>7, OthersKeep
  <2> QED
    BY <1>10, <2>3, <2>4, <2>5 DEF FindsUnhealthy
<1> QED
  BY <1>4, <1>5, <1>6, <1>8, <1>9, <1>10 DEF CallStep

LEMMA CallsStep == TypeOK /\ Placed /\ CallInv /\ [Next]_vars => CallType' /\ CallInv'
<1> SUFFICES ASSUME TypeOK, Placed, CallInv, [Next]_vars PROVE CallType' /\ CallInv'
  OBVIOUS
<1>1. CASE \E c \in Callers : Call(c) \/ Acquire(c) \/ CallStep(c) \/ Leaves(c)
  BY <1>1, CallStepInv
<1>2. CASE /\ UNCHANGED callVars
           /\ initialized /\ size = PoolSize =>
                main' = "stopped" \/ (initialized' /\ size' = PoolSize)
           /\ main = "stopped" => main' = "stopped"
  <2>1. UNCHANGED <<index, lock, pc, checked, tries, seen>>
    BY <1>2 DEF callVars
  <2>2. CallType'
    BY <2>1, TypeParts DEF CallType
  <2>3. Served'
    BY <1>2, <2>1 DEF CallInv, Served
  <2>4. Sweeping' /\ ErrorsAreTrue'
    <3>1. main' = "stopped" \/ main # "stopped"
      BY <1>2
    <3> QED
      BY <1>2, <2>1, <3>1 DEF CallInv, Sweeping, ErrorsAreTrue
  <2> QED
    BY <2>2, <2>3, <2>4 DEF CallInv
<1> QED
  BY <1>1, <1>2, OthersStep

-----------------------------------------------------------------------------
(* What is left open *)

\* What a disconnect that is over leaves of an adapter.
Parted(i) == producer[i] # "open" /\ (admin[i] = "open" => producer[i] = "left" /\ raised > 0)

\* Where a client may be open: nowhere beyond the list but at the adapter that is
\* being connected, and not where a stop has passed; and what has been lost, the
\* admin client included that a reconnection is about to replace.
OpenInv ==
  /\ main # "stopped" => \A i \in Adapters : i > size =>
       producer[i] # "open" /\ (admin[i] = "open" => main = "producer" /\ i = at)
  /\ main \in {"close", "closeAdmin"} => \A i \in Adapters : i < at => Parted(i)
  /\ main = "cancel" => initialized /\ loop # "none"
  /\ main = "closeAdmin" => producer[at] # "open"
  /\ main = "stopped" => \A i \in Adapters : Parted(i)
  /\ loop \in {"stopAdmin", "admin", "producer"} => producer[loopAt] # "open"
  /\ main \in {"new", "cleanup", "cleanupAdmin", "failed"} \union Constructing => loop = "none"
  /\ main \in {"new"} \union Constructing => lost = 0
  /\ loop = "none" => lost <= 2
  /\ loop # "none" => lost <= raised
  /\ loop = "admin" /\ admin[loopAt] = "open" => lost < raised

LEMMA OpenInit == Init => OpenInv
  BY DEF Init, OpenInv, Parted, Constructing

LEMMA OpenStep == TypeOK /\ Placed /\ OpenInv /\ [Next]_vars => OpenInv'
<1> SUFFICES ASSUME TypeOK, Placed, OpenInv, [Next]_vars PROVE OpenInv'
  OBVIOUS
<1> USE DEF OpenInv, Parted, Constructing
<1>0. /\ AdapterType /\ PlaceType /\ PoolSize \in Nat
      /\ admin \in [Adapters -> ClientState] /\ producer \in [Adapters -> ClientState]
      /\ lost \in Nat /\ raised \in Nat /\ loopAt \in Adapters
  BY TypeParts, PoolAssumption DEF AdapterType, PlaceType
<1>1. ASSUME UNCHANGED <<main, at, size, initialized, admin, producer, lost, raised, loop, loopAt>>
      PROVE  OpenInv'
  BY <1>1
<1>2. CASE Startup
  BY <1>2 DEF Startup, adapterVars, loopVars
<1>3. CASE Shutdown
  BY <1>0, <1>3 DEF Shutdown, adapterVars, loopVars, Placed, PlaceType, Adapters
<1>4. CASE InitAdmin
  BY <1>0, <1>4
     DEF InitAdmin, StartAdmin, ReplaceAdmin, Admin, Replaced, loopVars, Placed, PlaceType, Adapters
<1>5. CASE InitProducer
  BY <1>0, <1>5
     DEF InitProducer, StartProducer, ReplaceProducer, Producer, Replaced, Placed, PlaceType, Adapters
<1>6. CASE InitFails
  BY <1>0, <1>6 DEF InitFails, Placed, PlaceType, Adapters, loopVars
<1>7. CASE CleanUp
  BY <1>0, <1>7
     DEF CleanUp, NextCleanUp, StopProducer, StopProducerFails, StopAdmin, StopAdminFails,
         ProducerLeft, AdminLeft, Producer, Admin, Stopped, Unstopped, Placed, PlaceType, Adapters,
         loopVars
<1>8. CASE LoopCancelled
  <2>1. /\ main' = "close" /\ loop' = "ended" /\ at' = 1 /\ size' = PoolSize
    BY <1>8 DEF LoopCancelled, Placed
  <2>2. lost' <= raised'
    <3>1. loop # "none" => lost <= raised
      BY <1>0
    <3>2. CASE loop = "admin"
      BY <1>0, <1>8, <3>2 DEF LoopCancelled, ReplaceAdmin, Replaced
    <3>3. CASE loop = "producer"
      BY <1>0, <1>8, <3>3 DEF LoopCancelled, ReplaceProducer, Replaced
    <3>4. CASE loop \notin {"admin", "producer"}
      <4>1. lost' = lost /\ raised' = raised
        BY <1>8, <3>4 DEF LoopCancelled, ProducerLeft, AdminLeft, adapterVars
      <4>2. loop # "none"
        BY <1>8 DEF LoopCancelled
      <4> QED
        BY <3>1, <4>1, <4>2
    <3> QED
      BY <3>2, <3>3, <3>4
  <2>3. lost' \in Nat /\ raised' \in Nat
    BY AdapterTypeStep DEF AdapterType
  <2>4. /\ \A i \in Adapters : i > size' => producer'[i] # "open" /\ admin'[i] # "open"
        /\ \A i \in Adapters : i < at' => Parted(i)'
    BY <1>0, <2>1 DEF Adapters
  <2> QED
    BY <2>1, <2>2, <2>3, <2>4
<1>9. CASE CloseAdapter
  BY <1>0, <1>9
     DEF CloseAdapter, StopProducer, StopProducerFails, StopAdmin, StopAdminFails, ProducerLeft,
         AdminLeft, Producer, Admin, Stopped, Unstopped, Placed, PlaceType, Adapters, loopVars
<1>10. CASE Closed
  BY <1>0, <1>10 DEF Closed, adapterVars, loopVars, PlaceType, Placed, Adapters
<1>11. CASE Wake \/ CheckFinds \/ CheckMisses \/ RecheckHealthy \/ RecheckUnhealthy
  BY <1>11 DEF Wake, CheckFinds, CheckMisses, RecheckHealthy, RecheckUnhealthy, NextAdapter,
       LoopGoes, adapterVars, lifecycleVars
<1>12. CASE LoopDisconnects
  BY <1>0, <1>12
     DEF LoopDisconnects, LoopGoes, StopProducer, StopProducerFails, StopAdmin, StopAdminFails,
         ProducerLeft, AdminLeft, Producer, Admin, Stopped, Unstopped, lifecycleVars, Placed,
         PlaceType, Adapters
<1>13. CASE LoopStartsAdmin
  BY <1>0, <1>13 DEF LoopStartsAdmin, LoopGoes, StartAdmin, ReplaceAdmin, Admin, Replaced,
       lifecycleVars, Placed, PlaceType, Adapters
<1>14. CASE LoopStartsProducer
  BY <1>0, <1>14 DEF LoopStartsProducer, NextAdapter, LoopGoes, StartProducer, ReplaceProducer,
       Producer, Replaced, lifecycleVars, Placed, PlaceType, Adapters
<1>15. CASE LoopConnectFails
  BY <1>0, <1>15 DEF LoopConnectFails, ConnectFails, NextAdapter, LoopGoes, ReplaceAdmin,
       ReplaceProducer, Admin, Producer, Replaced, lifecycleVars, Placed, PlaceType, Adapters
<1>16. ASSUME NEW c \in Callers, Call(c) \/ Acquire(c) \/ CallStep(c) \/ Leaves(c)
       PROVE  OpenInv'
  BY <1>1, <1>16 DEF Call, Acquire, CallStep, FindsHealthy, FindsUnhealthy, Leaves,
       lifecycleVars, adapterVars, loopVars
<1>17. CASE (\E i \in Adapters : Breaks(i)) \/ BrokerChanges
  BY <1>1, <1>17 DEF Breaks, BrokerChanges, lifecycleVars, adapterVars, loopVars
<1>18. CASE UNCHANGED vars
  BY <1>1, <1>18 DEF vars
<1> QED
  BY <1>2, <1>3, <1>4, <1>5, <1>6, <1>7, <1>8, <1>9, <1>10, <1>11, <1>12, <1>13, <1>14,
     <1>15, <1>16, <1>17, <1>18 DEF Next, MainStep, LoopStep

-----------------------------------------------------------------------------
LEMMA Always == Safe => [](TypeOK /\ Placed /\ CallInv /\ OpenInv)
<1>1. Init => TypeOK /\ Placed
  BY PlaceInit DEF PlaceInv
<1>2. TypeOK /\ Placed /\ CallInv /\ [Next]_vars => TypeOK' /\ Placed'
  BY AdapterTypeStep, PlaceStep, CallsStep, TypeParts DEF TypeOK, AdapterType, PlaceType, CallType
<1> QED
  BY <1>1, <1>2, CallInit, CallsStep, OpenInit, OpenStep, PTL DEF Safe

\* Every variable holds a value the code can produce.
THEOREM TypeCorrect == Safe => []TypeOK
  BY Always, PTL

\* A call that reports no healthy adapter has tried every adapter, for any number of
\* callers that share the index and any size of the pool; and only the list that
\* shutdown has cleared makes one divide by zero.
THEOREM ErrorsAreAlwaysTrue == Safe => []ErrorsAreTrue
<1>1. CallInv => ErrorsAreTrue
  BY DEF CallInv
<1> QED
  BY <1>1, Always, PTL

\* Shutdown stops every client of the pool, wherever a disconnect or a reconnection was
\* interrupted, and what is lost on the way is bounded by the stops that raised, for
\* any size of the pool and any number of faults.
THEOREM NothingOpen == Safe => []NothingLeftOpen
<1>1. TypeOK /\ OpenInv => NothingLeftOpen
  BY TypeParts DEF AdapterType, OpenInv, Parted, NothingLeftOpen
<1> QED
  BY <1>1, Always, PTL

-----------------------------------------------------------------------------
(* Why CallsEnd holds.  The lock is only ever held by a caller in its      *)
(* health checks, which are used up, and whoever leaves them, in whatever  *)
(* way, gives it back.  Fairness is left to TLC.                           *)

HeldInCheck == \A c \in Callers : lock = c <=> pc[c] = "checking"

\* A step of its own brings the sweep of c nearer to its end, and no other step, of the
\* lifecycle, the loop, the broker or another caller, makes it longer.
SweepEnds(c) ==
  pc[c] = "checking" /\ pc'[c] = "checking" =>
    /\ tries'[c] <= tries[c]
    /\ CallStep(c) => tries'[c] < tries[c]

\* What one caller does: where it goes, and what becomes of the lock.
LEMMA CallerMoves ==
  ASSUME TypeOK, NEW c \in Callers, Call(c) \/ Acquire(c) \/ CallStep(c) \/ Leaves(c)
  PROVE  /\ \A d \in Callers \ {c} : pc'[d] = pc[d] /\ tries'[d] = tries[d]
         /\ \/ pc[c] \notin {"waiting", "checking"} /\ pc'[c] # "checking" /\ lock' = lock
            \/ pc[c] = "waiting" /\ pc'[c] = "checking" /\ lock = NoCaller /\ lock' = c
            \/ /\ pc[c] \in {"waiting", "checking"} /\ pc'[c] # "checking"
               /\ lock' = (IF lock = c THEN NoCaller ELSE lock)
            \/ /\ pc[c] = "checking" /\ pc'[c] = "checking" /\ lock' = lock
               /\ tries'[c] = tries[c] - 1
<1>1. CallType
  BY TypeParts
<1>2. ASSUME NEW outcome, NEW found, Ends(c, outcome, found)
      PROVE  /\ \A d \in Callers \ {c} : pc'[d] = pc[d] /\ tries'[d] = tries[d]
             /\ pc'[c] = outcome /\ lock' = (IF lock = c THEN NoCaller ELSE lock)
  BY <1>1, <1>2 DEF Ends, Unlock, Forget, CallType
<1>3. ASSUME NEW left, NEW found, Pick(c, left, found)
      PROVE  /\ \A d \in Callers \ {c} : pc'[d] = pc[d] /\ tries'[d] = tries[d]
             /\ pc'[c] = "checking" /\ tries'[c] = left
  BY <1>1, <1>3 DEF Pick, CallType
<1>4. CASE Call(c)
  BY <1>1, <1>4 DEF Call, Outcomes, CallType
<1>5. CASE Acquire(c)
  BY <1>2, <1>3, <1>5 DEF Acquire
<1>6. CASE FindsHealthy(c)
  BY <1>2, <1>6 DEF FindsHealthy
<1>7. CASE FindsUnhealthy(c)
  BY <1>2, <1>3, <1>7 DEF FindsUnhealthy
<1>8. CASE Leaves(c)
  BY <1>2, <1>8 DEF Leaves
<1> QED
  BY <1>4, <1>5, <1>6, <1>7, <1>8 DEF CallStep

LEMMA HeldStep ==
  TypeOK /\ Placed /\ HeldInCheck /\ [Next]_vars => HeldInCheck'
<1> SUFFICES ASSUME TypeOK, Placed, HeldInCheck, [Next]_vars PROVE HeldInCheck'
  OBVIOUS
<1>1. ASSUME NEW c \in Callers, Call(c) \/ Acquire(c) \/ CallStep(c) \/ Leaves(c)
      PROVE  HeldInCheck'
  BY <1>1, CallerMoves, PoolAssumption DEF HeldInCheck
<1>2. CASE UNCHANGED callVars
  BY <1>2 DEF callVars, HeldInCheck
<1> QED
  BY <1>1, <1>2, OthersStep

LEMMA SweepStep ==
  ASSUME TypeOK, Placed, HeldInCheck, [Next]_vars, NEW d \in Callers PROVE SweepEnds(d)
<1>1. tries[d] \in Int
  BY TypeParts DEF CallType
<1>2. CallStep(d) => pc'[d] # "checking" \/ tries'[d] = tries[d] - 1
  BY CallerMoves DEF CallStep, FindsHealthy, FindsUnhealthy
<1>3. CASE CallStep(d)
  BY <1>1, <1>2, <1>3 DEF SweepEnds
<1>4. CASE ~CallStep(d)
  <2>1. ASSUME NEW c \in Callers, Call(c) \/ Acquire(c) \/ CallStep(c) \/ Leaves(c)
        PROVE  pc[d] = "checking" /\ pc'[d] = "checking" => tries'[d] = tries[d]
    <3>1. CASE c # d
      BY <2>1, <3>1, CallerMoves
    <3>2. CASE c = d
      <4>1. Call(d) \/ Acquire(d) \/ Leaves(d)
        BY <1>4, <2>1, <3>2
      <4>2. CASE Leaves(d)
        BY <4>2, TypeParts DEF Leaves, Ends, CallType
      <4> QED
        BY <4>1, <4>2 DEF Call, Acquire, Outcomes
    <3> QED
      BY <3>1, <3>2
  <2>2. UNCHANGED callVars => tries' = tries
    BY DEF callVars
  <2>3. pc[d] = "checking" /\ pc'[d] = "checking" => tries'[d] = tries[d]
    BY <2>1, <2>2, OthersStep
  <2> QED
    BY <1>1, <1>4, <2>3 DEF SweepEnds
<1> QED
  BY <1>3, <1>4

\* Nobody can keep the lock: it is held exactly by the caller that is checking, whoever
\* was cancelled or whatever was shut down meanwhile, and that caller has at most
\* PoolSize steps to take before it gives it back.
THEOREM SweepsEnd ==
  Safe => /\ []HeldInCheck
          /\ [](\A c \in Callers : tries[c] \in 0..PoolSize)
          /\ [][\A c \in Callers : SweepEnds(c)]_vars
<1>1. Init => HeldInCheck
  BY PoolAssumption DEF Init, HeldInCheck
<1>2. TypeOK /\ Placed /\ HeldInCheck /\ [Next]_vars => [\A c \in Callers : SweepEnds(c)]_vars
  BY SweepStep
<1>3. TypeOK => \A c \in Callers : tries[c] \in 0..PoolSize
  BY TypeParts DEF CallType
<1> QED
  BY <1>1, <1>2, <1>3, HeldStep, Always, PTL DEF Safe

=============================================================================
