-------------------------- MODULE LifecycleProofs --------------------------
(***************************************************************************)
(* Theorems about Lifecycle for any set of clients, models, costs and      *)
(* budget.  The safety properties follow from one inductive invariant,     *)
(* IInv, which adds to them who owns startMu and what a call's local       *)
(* variables may hold at each point.                                       *)
(*                                                                         *)
(* The budget needs what Estimate computes, which Folds defines by         *)
(* recursion on the set.  FS_Induction takes a predicate, which the        *)
(* provers cannot instantiate, but WFMin speaks of sets alone: a set of    *)
(* counterexamples has a smallest member, and that serves as induction.    *)
(***************************************************************************)
EXTENDS Lifecycle, FiniteSetTheorems, WellFoundedInduction, TLAPS

\* startMu is held exactly by the client inside start.
StartOwner == \A c \in Clients : startMu = c <=> pc[c] \in InStart

\* The arguments of a call, and where a client with a lease can be: between
\* calls, or about to find its own model resident.
CallShape ==
  \A c \in Clients :
    /\ target[c] = NoModel <=> pc[c] \in {"idle", "unlock"}
    /\ target[c] = NoModel => mode[c] = "start"
    /\ pc[c] = "exec" => mode[c] = "acquire"
    /\ lease[c] # NoModel =>
         /\ pc[c] \in {"idle", "start"}
         /\ mode[c] # "acquire"
         /\ pc[c] = "start" => target[c] = lease[c]

\* A model that is being loaded is nobody's leased model.
LoadingIsUnleased ==
  \A c, d \in Clients : pc[c] \in InStart => lease[d] # target[c]

IInv ==
  /\ TypeOK /\ StartOwner /\ CallShape /\ LoadingIsUnleased
  /\ LockIsAccountedFor /\ LeasedIsResident /\ ActiveMatchesLeases

LEMMA InitIInv == Init => IInv
  BY NamesAssumption DEF Init, IInv, TypeOK, StartOwner, CallShape, LoadingIsUnleased,
     LockIsAccountedFor, LeasedIsResident, ActiveMatchesLeases, InStart

-----------------------------------------------------------------------------
(* Type correctness *)

\* A call in progress is about some model.
LEMMA TargetIsModel ==
  ASSUME TypeOK, CallShape, NEW c \in Clients, pc[c] \notin {"idle", "unlock"}
  PROVE  target[c] \in Models
  BY DEF TypeOK, CallShape

\* Using a model keeps the order of use an order on models.
LEMMA TouchType ==
  ASSUME older \subseteq Models \X Models, expired \subseteq Models,
         NEW m \in Models, Touch(m)
  PROVE  older' \subseteq Models \X Models /\ expired' \subseteq Models
  BY DEF Touch

LEMMA GrantedType ==
  ASSUME TypeOK, NEW c \in Clients, target[c] \in Models, Granted(c)
  PROVE  active' \in [Models -> Nat] /\ lease' \in [Clients -> Models \cup {NoModel}]
<1>1. CASE mode[c] = "acquire"
  <2>1. active[target[c]] + 1 \in Nat
    BY DEF TypeOK
  <2> QED
    BY <1>1, <2>1 DEF TypeOK, Granted
<1>2. CASE mode[c] # "acquire"
  BY <1>2 DEF TypeOK, Granted
<1> QED
  BY <1>1, <1>2

\* Each step of a client keeps every variable in its type.
LEMMA TypeStep ==
  ASSUME TypeOK, CallShape, NEW c \in Clients, Step(c)
  PROVE  TypeOK'
<1> USE NamesAssumption, BudgetAssumption DEF TypeOK, InStart, locks, recency, calls, roomVars
<1>1. CASE LockExec(c)
  BY <1>1 DEF LockExec, Goto
<1>2. CASE FindResident(c)
  <2>1. target[c] \in Models
    BY <1>2, TargetIsModel DEF FindResident
  <2>2. older' \subseteq Models \X Models /\ expired' \subseteq Models
    BY <1>2, <2>1, TouchType DEF FindResident
  <2>3. active' \in [Models -> Nat] /\ lease' \in [Clients -> Models \cup {NoModel}]
    BY <1>2, <2>1, GrantedType DEF FindResident
  <2> QED
    BY <1>2, <2>2, <2>3 DEF FindResident, Return, Goto
<1>3. CASE EnterStart(c)
  BY <1>3 DEF EnterStart, Goto
<1>4. CASE StopOthers(c)
  BY <1>4 DEF StopOthers, Goto
<1>5. CASE RoomUnlimited(c)
  BY <1>5 DEF RoomUnlimited, Goto
<1>6. CASE RoomImpossible(c)
  BY <1>6 DEF RoomImpossible, Fail, Return, Goto
<1>7. CASE MeasureRoom(c)
  BY <1>7 DEF MeasureRoom, Resident, Goto
<1>8. CASE SkipVictim(c)
  BY <1>8 DEF SkipVictim
<1>9. CASE EvictVictim(c)
  BY <1>9 DEF EvictVictim, Goto
<1>10. CASE RoomExhausted(c)
  BY <1>10 DEF RoomExhausted, Fail, Return, Goto
<1>11. CASE Spawn(c)
  <2>1. target[c] \in Models
    BY <1>11, TargetIsModel DEF Spawn
  <2>2. older' \subseteq Models \X Models /\ expired' \subseteq Models
    BY <1>11, <2>1, TouchType DEF Spawn
  <2> QED
    BY <1>11, <2>2 DEF Spawn, Goto
<1>12. CASE SpawnFails(c)
  BY <1>12 DEF SpawnFails, Fail, Return, Goto
<1>13. CASE Healthy(c)
  <2>1. target[c] \in Models
    BY <1>13, TargetIsModel DEF Healthy
  <2>2. active' \in [Models -> Nat] /\ lease' \in [Clients -> Models \cup {NoModel}]
    BY <1>13, <2>1, GrantedType DEF Healthy
  <2> QED
    BY <1>13, <2>2 DEF Healthy, Return, Goto
<1>14. CASE Unhealthy(c)
  BY <1>14 DEF Unhealthy, Fail, Return, Goto
<1>15. CASE EvictOldestIdle(c)
  BY <1>15 DEF EvictOldestIdle, IsOldest, Resident, Fail, Return, Goto
<1>16. CASE Release(c)
  BY <1>16 DEF Release, Touch, Goto
<1>17. CASE UnlockExec(c)
  BY <1>17 DEF UnlockExec, Goto
<1> QED
  BY <1>1, <1>2, <1>3, <1>4, <1>5, <1>6, <1>7, <1>8, <1>9, <1>10, <1>11, <1>12,
     <1>13, <1>14, <1>15, <1>16, <1>17 DEF Step

LEMMA TypeCall ==
  ASSUME TypeOK, NEW c \in Clients, NEW m \in Models, NEW md \in Modes, Call(c, m, md)
  PROVE  TypeOK'
  BY CallsAssumption DEF TypeOK, Call, Goto, InStart, locks, recency, roomVars

LEMMA TypeEnvironment ==
  ASSUME TypeOK, Environment
  PROVE  TypeOK'
<1> USE NamesAssumption DEF TypeOK, locks, recency, calls, roomVars
<1>1. ASSUME NEW m \in Models, Expire(m) \/ IdleUnload(m) \/ WatcherExits(m) \/ Crash(m)
      PROVE  TypeOK'
  BY <1>1 DEF Expire, IdleUnload, WatcherExits, Crash
<1>2. CASE RequestShutdown \/ ShutdownLock \/ StopAll
  BY <1>2 DEF RequestShutdown, ShutdownLock, StopAll
<1> QED
  BY <1>1, <1>2 DEF Environment

-----------------------------------------------------------------------------
(* The inductive step *)

\* The parts of IInv besides the types.
Protocol ==
  /\ StartOwner /\ CallShape /\ LoadingIsUnleased
  /\ LockIsAccountedFor /\ LeasedIsResident /\ ActiveMatchesLeases

\* A client's step keeps who holds which lock, lease and counter consistent.
LEMMA ProtocolStep ==
  ASSUME IInv, NEW c \in Clients, Step(c), TypeOK'
  PROVE  Protocol'
<1> USE NamesAssumption DEF IInv, TypeOK, Protocol, StartOwner, CallShape, LoadingIsUnleased,
      LockIsAccountedFor, LeasedIsResident, ActiveMatchesLeases, InStart,
      locks, calls
<1>1. CASE LockExec(c)
  BY <1>1 DEF LockExec, Goto
<1>2. CASE FindResident(c)
  BY <1>2 DEF FindResident, Granted, Return, Goto
<1>3. CASE EnterStart(c)
  BY <1>3 DEF EnterStart, Goto
<1>4. CASE StopOthers(c)
  BY <1>4 DEF StopOthers, Goto
<1>5. CASE RoomUnlimited(c)
  BY <1>5 DEF RoomUnlimited, Goto
<1>6. CASE RoomImpossible(c)
  BY <1>6 DEF RoomImpossible, Fail, Return, Goto
<1>7. CASE MeasureRoom(c)
  BY <1>7 DEF MeasureRoom, Goto
<1>8. CASE SkipVictim(c)
  BY <1>8 DEF SkipVictim
<1>9. CASE EvictVictim(c)
  BY <1>9 DEF EvictVictim, Goto
<1>10. CASE RoomExhausted(c)
  BY <1>10 DEF RoomExhausted, Fail, Return, Goto
<1>11. CASE Spawn(c)
  BY <1>11 DEF Spawn, Goto
<1>12. CASE SpawnFails(c)
  BY <1>12 DEF SpawnFails, Fail, Return, Goto
<1>13. CASE Healthy(c)
  BY <1>13 DEF Healthy, Granted, Return, Goto
<1>14. CASE Unhealthy(c)
  BY <1>14 DEF Unhealthy, Fail, Return, Goto
<1>15. CASE EvictOldestIdle(c)
  BY <1>15 DEF EvictOldestIdle, IsOldest, Fail, Return, Goto, Resident
<1>16. CASE Release(c)
  BY <1>16 DEF Release, Goto
<1>17. CASE UnlockExec(c)
  BY <1>17 DEF UnlockExec, Goto
<1> QED
  BY <1>1, <1>2, <1>3, <1>4, <1>5, <1>6, <1>7, <1>8, <1>9,
     <1>10, <1>11, <1>12, <1>13, <1>14, <1>15, <1>16, <1>17 DEF Step

LEMMA ProtocolCall ==
  ASSUME IInv, NEW c \in Clients, NEW m \in Models, NEW md \in Modes, Call(c, m, md)
  PROVE  Protocol'
  BY NamesAssumption, CallsAssumption
  DEF IInv, TypeOK, Protocol, StartOwner, CallShape, LoadingIsUnleased,
      LockIsAccountedFor, LeasedIsResident, ActiveMatchesLeases, InStart,
      locks, Call, Goto

\* Nothing outside the clients' calls takes a leased model away: the watcher
\* checks active, and StopAll holds execMu, so that no lease exists.
LEMMA ProtocolEnvironment ==
  ASSUME IInv, Environment
  PROVE  Protocol'
<1> USE NamesAssumption DEF IInv, TypeOK, Protocol, StartOwner, CallShape, LoadingIsUnleased,
      LockIsAccountedFor, LeasedIsResident, ActiveMatchesLeases, InStart,
      locks, recency, calls
<1>1. ASSUME NEW m \in Models, Expire(m) \/ WatcherExits(m) \/ Crash(m)
      PROVE  Protocol'
  BY <1>1 DEF Expire, WatcherExits, Crash
<1>2. ASSUME NEW m \in Models, IdleUnload(m)
      PROVE  Protocol'
  BY <1>2 DEF IdleUnload
<1>3. CASE RequestShutdown
  BY <1>3 DEF RequestShutdown
<1>4. CASE ShutdownLock
  BY <1>4 DEF ShutdownLock
<1>5. CASE StopAll
  BY <1>5 DEF StopAll
<1> QED
  BY <1>1, <1>2, <1>3, <1>4, <1>5 DEF Environment

LEMMA StutterIInv ==
  ASSUME IInv, UNCHANGED vars
  PROVE  IInv'
  BY DEF IInv, TypeOK, StartOwner, CallShape, LoadingIsUnleased, LockIsAccountedFor,
     LeasedIsResident, ActiveMatchesLeases, InStart, vars, locks, recency, calls, roomVars

LEMMA NextIInv == IInv /\ [Next]_vars => IInv'
<1> SUFFICES ASSUME IInv, [Next]_vars PROVE IInv'
  OBVIOUS
<1>1. ASSUME NEW c \in Clients, Step(c) PROVE IInv'
  <2>1. TypeOK'
    BY <1>1, TypeStep DEF IInv
  <2> QED
    BY <1>1, <2>1, ProtocolStep DEF IInv, Protocol
<1>2. ASSUME NEW c \in Clients, NEW m \in Models, NEW md \in Modes, Call(c, m, md)
      PROVE  IInv'
  BY <1>2, TypeCall, ProtocolCall DEF IInv, Protocol
<1>3. CASE Environment
  BY <1>3, TypeEnvironment, ProtocolEnvironment DEF IInv, Protocol
<1>4. CASE UNCHANGED vars
  BY <1>4, StutterIInv
<1> QED
  BY <1>1, <1>2, <1>3, <1>4 DEF Next

-----------------------------------------------------------------------------
(* Theorems *)

\* The inductive invariant holds in every reachable state.
THEOREM InductiveInvariant == Spec => []IInv
  BY InitIInv, NextIInv, PTL DEF Spec

\* Every variable stays in its type.
THEOREM TypeCorrect == Spec => []TypeOK
<1>1. IInv => TypeOK
  BY DEF IInv
<1> QED
  BY <1>1, InductiveInvariant, PTL

\* A model under the execution lease is never evicted, unloaded or stopped.
THEOREM LeaseProtectsModel == Spec => []LeasedIsResident
<1>1. IInv => LeasedIsResident
  BY DEF IInv
<1> QED
  BY <1>1, InductiveInvariant, PTL

\* inst.active counts exactly the leases that exist.
THEOREM CountersAreRight == Spec => []ActiveMatchesLeases
<1>1. IInv => ActiveMatchesLeases
  BY DEF IInv
<1> QED
  BY <1>1, InductiveInvariant, PTL

\* execMu is held exactly by the client that acquires, holds or returns the
\* lease, or by StopAll; so at most one client has a lease.
THEOREM LockDiscipline == Spec => []LockIsAccountedFor
<1>1. IInv => LockIsAccountedFor
  BY DEF IInv
<1> QED
  BY <1>1, InductiveInvariant, PTL

\* Leases, counters and the execution lock never contradict one another, whoever
\* looks at one of them and concludes on the others.
THEOREM LeasesAndLocksAgree == Spec => []LeasesAndLocks
<1>1. IInv => LeasesAndLocks
  BY DEF IInv, LeasesAndLocks
<1> QED
  BY <1>1, InductiveInvariant, PTL

-----------------------------------------------------------------------------
(* The order of evictions *)

\* What the server starts without a lease needs no room.
UnleasedIsFree == \A m \in Unleased : Cost[m] = 0

\* Who starts a model without the lease starts one of those.
FreeStart ==
  \A c \in Clients :
    target[c] # NoModel /\ mode[c] # "acquire" /\ lease[c] = NoModel => target[c] \in Unleased

\* Whoever makes room has execMu, so that nothing is used meanwhile: the remembered
\* order is the present one, and who is not remembered has no process.
EvictOrder ==
  \A c \in Clients : pc[c] = "evict" =>
    mode[c] = "acquire" /\ snap = older /\ Resident \ {target[c]} \subseteq victims

Order == FreeStart /\ EvictOrder

LEMMA InitOrder == Init => Order
  BY DEF Init, Order, FreeStart, EvictOrder

LEMMA FreeStartStep ==
  ASSUME IInv, FreeStart, [Next]_vars
  PROVE  FreeStart'
<1> USE DEF IInv, TypeOK, CallShape, FreeStart, calls
<1>1. ASSUME NEW c \in Clients, Step(c), UNCHANGED <<target, mode>> PROVE FreeStart'
  <2>1. \A d \in Clients : lease'[d] = NoModel => lease[d] = NoModel \/ target[d] = NoModel
    BY <1>1 DEF Step, LockExec, FindResident, EnterStart, StopOthers, RoomUnlimited,
       RoomImpossible, MeasureRoom, SkipVictim, EvictVictim, RoomExhausted, Spawn, SpawnFails,
       Healthy, Unhealthy, EvictOldestIdle, Release, UnlockExec, Fail, Granted, InStart
  <2> QED
    BY <1>1, <2>1
<1>2. ASSUME NEW c \in Clients, Step(c), ~ UNCHANGED <<target, mode>> PROVE FreeStart'
  <2>1. /\ target' = [target EXCEPT ![c] = NoModel] /\ mode' = [mode EXCEPT ![c] = "start"]
        /\ \A d \in Clients \ {c} : lease'[d] = lease[d]
    BY <1>2 DEF Step, LockExec, FindResident, EnterStart, StopOthers, RoomUnlimited,
       RoomImpossible, MeasureRoom, SkipVictim, EvictVictim, RoomExhausted, Spawn, SpawnFails,
       Healthy, Unhealthy, EvictOldestIdle, Release, UnlockExec, Fail, Granted, Return
  <2> QED
    BY <2>1
<1>3. ASSUME NEW c \in Clients, NEW m \in Models, NEW md \in Modes, Call(c, m, md)
      PROVE  FreeStart'
  BY <1>3, CallsAssumption DEF Call
<1>4. CASE Environment
  BY <1>4 DEF Environment, Expire, IdleUnload, WatcherExits, Crash, RequestShutdown,
     ShutdownLock, StopAll
<1>5. CASE UNCHANGED vars
  BY <1>5 DEF vars
<1> QED
  BY <1>1, <1>2, <1>3, <1>4, <1>5 DEF Next

\* While somebody makes room, no process is started, stopped or used but by them.
LEMMA OthersWait ==
  ASSUME IInv, NEW c \in Clients, pc[c] \in {"evict", "oom"}, NEW d \in Clients, d # c, Step(d)
  PROVE  /\ UNCHANGED <<cmd, victims, snap>> /\ UNCHANGED <<pc[c], target[c], mode[c]>>
         /\ mode[c] = "acquire" => older' = older
<1> USE DEF IInv, TypeOK
<1>1. startMu = c /\ pc[d] \notin InStart /\ startMu # Nobody
  BY NamesAssumption DEF StartOwner, InStart
<1>2. LockExec(d) \/ Release(d) \/ UnlockExec(d)
  BY <1>1 DEF Step, FindResident, EnterStart, StopOthers, RoomUnlimited, RoomImpossible,
     MeasureRoom, SkipVictim, EvictVictim, RoomExhausted, Spawn, SpawnFails, Healthy,
     Unhealthy, EvictOldestIdle, InStart
<1>3. mode[c] = "acquire" => ~ Release(d)
  BY DEF LockIsAccountedFor, Release
<1> QED
  BY <1>2, <1>3 DEF LockExec, Release, UnlockExec, Goto, recency, roomVars

LEMMA EvictOrderStep ==
  ASSUME UnleasedIsFree, IInv, Order, [Next]_vars
  PROVE  EvictOrder'
<1> SUFFICES ASSUME NEW c \in Clients, pc'[c] = "evict"
             PROVE  /\ mode'[c] = "acquire" /\ snap' = older'
                    /\ Resident' \ {target'[c]} \subseteq victims'
  BY DEF EvictOrder
<1> USE DEF IInv, TypeOK
<1>1. ASSUME NEW d \in Clients, d # c, Step(d), pc[c] = "evict"
      PROVE  /\ mode'[c] = "acquire" /\ snap' = older'
             /\ Resident' \ {target'[c]} \subseteq victims'
  BY <1>1, OthersWait DEF Order, EvictOrder, Resident
<1>2. ASSUME NEW d \in Clients, d # c, Step(d)
      PROVE  pc[c] = "evict"
  BY <1>2 DEF Step, LockExec, FindResident, EnterStart, StopOthers, RoomUnlimited,
     RoomImpossible, MeasureRoom, SkipVictim, EvictVictim, RoomExhausted, Spawn, SpawnFails,
     Healthy, Unhealthy, EvictOldestIdle, Release, UnlockExec, Fail, Return, Goto, calls
<1>3. CASE Step(c)
  <2>1. MeasureRoom(c) \/ SkipVictim(c) \/ EvictVictim(c)
    BY <1>3 DEF Step, LockExec, FindResident, EnterStart, StopOthers, RoomUnlimited,
       RoomImpossible, RoomExhausted, Spawn, SpawnFails, Healthy, Unhealthy,
       EvictOldestIdle, Release, UnlockExec, Fail, Return, Goto
  <2>2. CASE MeasureRoom(c)
    <3>1. target[c] \in Models /\ lease[c] = NoModel /\ Cost[target[c]] # 0
      BY <2>2, BudgetAssumption DEF MeasureRoom, CallShape
    <3>2. mode[c] = "acquire"
      BY <3>1, NamesAssumption DEF Order, FreeStart, UnleasedIsFree
    <3>3. /\ victims' = Resident \ {target[c]} /\ snap' = older
          /\ UNCHANGED <<cmd, older, target, mode>>
      BY <2>2 DEF MeasureRoom, Goto, recency
    <3> QED
      BY <3>2, <3>3 DEF Resident
  <2>3. CASE SkipVictim(c)
    <3>1. mode[c] = "acquire" /\ snap = older /\ Resident \ {target[c]} \subseteq victims
      BY <2>3 DEF SkipVictim, Order, EvictOrder
    <3>2. \A m \in Models : active[m] = 0
      <4>1. \A d \in Clients : lease[d] = NoModel
        BY <2>3, <3>1 DEF SkipVictim, LockIsAccountedFor, CallShape
      <4> QED
        BY <4>1, NamesAssumption DEF ActiveMatchesLeases
    <3>3. PICK v \in Models : cmd[v] = "none" /\ victims' = victims \ {v}
      BY <2>3, <3>2 DEF SkipVictim
    <3> QED
      BY <2>3, <3>1, <3>3 DEF SkipVictim, Resident, recency, calls
  <2>4. CASE EvictVictim(c)
    <3>1. mode[c] = "acquire" /\ snap = older /\ Resident \ {target[c]} \subseteq victims
      BY <2>4 DEF EvictVictim, Order, EvictOrder
    <3>2. PICK v \in Models : /\ cmd' = [cmd EXCEPT ![v] = "none"]
                              /\ victims' = victims \ {v} /\ snap' = snap
      BY <2>4 DEF EvictVictim, Goto
    <3>3. Resident' \subseteq Resident \ {v}
      BY <3>2 DEF Resident
    <3> QED
      BY <2>4, <3>1, <3>2, <3>3 DEF EvictVictim, recency
  <2> QED
    BY <2>1, <2>2, <2>3, <2>4
<1>4. ASSUME NEW d \in Clients, NEW m \in Models, NEW md \in Modes, Call(d, m, md)
      PROVE  /\ mode'[c] = "acquire" /\ snap' = older'
             /\ Resident' \ {target'[c]} \subseteq victims'
  <2>1. d # c /\ pc[c] = "evict" /\ target'[c] = target[c] /\ mode'[c] = mode[c]
    BY <1>4 DEF Call, Goto
  <2> QED
    BY <1>4, <2>1 DEF Order, EvictOrder, Call, Resident, recency, roomVars
<1>5. CASE Environment
  <2>1. pc[c] = "evict" /\ UNCHANGED <<target, mode, older, snap, victims>>
    BY <1>5 DEF Environment, Expire, IdleUnload, WatcherExits, Crash, RequestShutdown,
       ShutdownLock, StopAll, calls, recency, roomVars
  <2>2. Resident' \subseteq Resident
    BY <1>5 DEF Environment, Expire, IdleUnload, WatcherExits, Crash, RequestShutdown,
       ShutdownLock, StopAll, Resident
  <2> QED
    BY <2>1, <2>2 DEF Order, EvictOrder
<1>6. CASE UNCHANGED vars
  BY <1>6 DEF Order, EvictOrder, Resident, vars, calls, recency, roomVars
<1> QED
  BY <1>1, <1>2, <1>3, <1>4, <1>5, <1>6 DEF Next

\* The step of LeastRecentlyUsedFirst.
OldestGoes ==
  \A c \in Clients, v, w \in Models :
    /\ pc[c] \in {"evict", "oom"} /\ v # target[c] /\ w \notin {v, target[c]}
    /\ cmd[v] # "none" /\ cmd'[v] = "none"
    /\ cmd[w] # "none" /\ active[w] = 0
    => <<v, w>> \in older

LEMMA OldestGoesStep ==
  ASSUME IInv, EvictOrder, [Next]_vars
  PROVE  OldestGoes
<1> SUFFICES ASSUME NEW c \in Clients, NEW v \in Models, NEW w \in Models,
                    pc[c] \in {"evict", "oom"}, v # target[c], w \notin {v, target[c]},
                    cmd[v] # "none", cmd'[v] = "none", cmd[w] # "none", active[w] = 0
             PROVE  <<v, w>> \in older
  BY DEF OldestGoes
<1> USE DEF IInv, TypeOK
<1>1. startMu # Nobody
  BY NamesAssumption DEF StartOwner, InStart
<1>2. Step(c)
  <2>1. ASSUME NEW d \in Clients, d # c, Step(d) PROVE FALSE
    BY <2>1, OthersWait
  <2>2. ASSUME NEW d \in Clients, NEW m \in Models, NEW md \in Modes, Call(d, m, md)
        PROVE  FALSE
    BY <2>2 DEF Call
  <2>3. CASE Environment
    BY <1>1, <2>3 DEF Environment, Expire, IdleUnload, WatcherExits, Crash, RequestShutdown,
       ShutdownLock, StopAll
  <2>4. CASE UNCHANGED vars
    BY <2>4 DEF vars
  <2> QED
    BY <2>1, <2>2, <2>3, <2>4 DEF Next
<1>3. EvictVictim(c) \/ EvictOldestIdle(c)
  BY <1>2 DEF Step, LockExec, FindResident, EnterStart, StopOthers, RoomUnlimited,
     RoomImpossible, MeasureRoom, SkipVictim, RoomExhausted, Spawn, SpawnFails, Healthy,
     Unhealthy, Release, UnlockExec
<1>4. CASE EvictVictim(c)
  <2>1. PICK u \in Models : IsOldest(u, victims, snap) /\ cmd' = [cmd EXCEPT ![u] = "none"]
    BY <1>4 DEF EvictVictim
  <2>2. u = v /\ snap = older /\ w \in victims
    BY <1>4, <2>1 DEF EvictVictim, EvictOrder, Resident
  <2> QED
    BY <2>1, <2>2 DEF IsOldest
<1>5. CASE EvictOldestIdle(c)
  <2> DEFINE idle == {m \in Resident \ {target[c]} : active[m] = 0}
  <2>1. PICK u \in Models : IsOldest(u, idle, older) /\ cmd' = [cmd EXCEPT ![u] = "none"]
    BY <1>5 DEF EvictOldestIdle
  <2>2. u = v /\ w \in idle
    BY <2>1 DEF Resident
  <2> QED
    BY <2>1, <2>2 DEF IsOldest
<1> QED
  BY <1>3, <1>4, <1>5

\* Making room, and retrying after out-of-memory, stop idle models oldest first, if
\* what is started without a lease needs no room: with somebody else's release in
\* between, makeRoomLocked's remembered order would be out of date.
THEOREM OldestGoesFirst ==
  ASSUME UnleasedIsFree
  PROVE  Spec => LeastRecentlyUsedFirst
<1>1. IInv /\ Order /\ [Next]_vars => Order'
  BY FreeStartStep, EvictOrderStep DEF Order
<1>2. IInv /\ Order /\ [Next]_vars => [OldestGoes]_vars
  BY OldestGoesStep DEF Order
<1>3. LeastRecentlyUsedFirst <=> [][OldestGoes]_vars
  BY PTL DEF LeastRecentlyUsedFirst, OldestGoes
<1> QED
  BY <1>1, <1>2, <1>3, InitOrder, InductiveInvariant, PTL DEF Spec

-----------------------------------------------------------------------------
(* Sums of costs *)

\* The member of a set that the fold takes first.
Pick(s) == CHOOSE x \in s : TRUE

\* f adds up the costs of the subsets of S, the way Folds computes it.
IsSum(f, S) ==
  f = [s \in SUBSET S |-> IF s = {} THEN 0 ELSE Cost[Pick(s)] + f[s \ {Pick(s)}]]

\* The estimate is read off such a table.
LEMMA EstimateDef ==
  ASSUME NEW S
  PROVE  Estimate(S) = (CHOOSE f : IsSum(f, S))[S]
  BY Zenon DEF Estimate, SumFunctionOnSet, FoldFunctionOnSet, MapThenFoldSet, IsSum, Pick

\* Induction on finite sets: a property that fails somewhere fails at a smallest set.
LEMMA SmallestSubset ==
  ASSUME NEW S, IsFiniteSet(S), NEW B \in SUBSET SUBSET S, B # {}
  PROVE  \E s \in B : \A t \in B : t \subseteq s => t = s
<1> DEFINE R == StrictSubsetOrdering(S)
<1>1. IsWellFoundedOn(R, SUBSET S)
  BY FS_StrictSubsetOrderingWellFounded, FS_FiniteSubsetsOfFinite
<1>2. PICK s \in B : \A t \in B : ~ (<<t, s>> \in R)
  <2> HIDE DEF R
  <2> QED
  BY <1>1, WFMin
<1> QED
  BY <1>2 DEF StrictSubsetOrdering

\* What is picked is a member.
LEMMA PickIn == ASSUME NEW s, s # {} PROVE Pick(s) \in s
  BY DEF Pick

\* One entry of a table.
LEMMA SumAt ==
  ASSUME NEW S, NEW f, IsSum(f, S), NEW s \in SUBSET S
  PROVE  f[s] = IF s = {} THEN 0 ELSE Cost[Pick(s)] + f[s \ {Pick(s)}]
  BY DEF IsSum

\* Two tables of sums agree where both are defined.
LEMMA SumsAgree ==
  ASSUME NEW S, IsFiniteSet(S), NEW T \in SUBSET S, NEW f, IsSum(f, S), NEW g, IsSum(g, T)
  PROVE  f[T] = g[T]
<1> DEFINE B == {s \in SUBSET T : f[s] # g[s]}
<1>1. IsFiniteSet(T)
  BY FS_Subset
<1>2. ASSUME B # {} PROVE FALSE
  <2>1. PICK s \in B : \A t \in B : t \subseteq s => t = s
    <3> HIDE DEF B
    <3>1. B \in SUBSET SUBSET T
      BY DEF B
    <3> QED
      BY <1>1, <1>2, <3>1, SmallestSubset
  <2>2. s # {}
    BY SumAt
  <2>3. s \ {Pick(s)} \in SUBSET T /\ s \ {Pick(s)} # s
    BY <2>2, PickIn
  <2>4. f[s \ {Pick(s)}] = g[s \ {Pick(s)}]
    BY <2>1, <2>3
  <2> QED
    BY <2>2, <2>4, SumAt
<1> QED
  BY <1>2

\* There is one for every finite set.
LEMMA SumExists ==
  ASSUME NEW S, IsFiniteSet(S)
  PROVE  \E f : IsSum(f, S)
<1> DEFINE Table(t) == CHOOSE f : IsSum(f, t)
           B == {t \in SUBSET S : ~ \E f : IsSum(f, t)}
<1>1. ASSUME B # {} PROVE FALSE
  <2>1. PICK T \in B : \A t \in B : t \subseteq T => t = T
    <3> HIDE DEF B
    <3>1. B \in SUBSET SUBSET S
      BY DEF B
    <3> QED
      BY <1>1, <3>1, SmallestSubset
  <2>2. \A t \in SUBSET T : t # T => IsSum(Table(t), t) /\ IsFiniteSet(t)
    <3> SUFFICES ASSUME NEW t \in SUBSET T, t # T PROVE IsSum(Table(t), t) /\ IsFiniteSet(t)
      OBVIOUS
    <3>1. \E f : IsSum(f, t)
      BY <2>1
    <3> QED
      BY <3>1, FS_Subset
  <2> DEFINE Rest(s) == s \ {Pick(s)}
             F == [s \in SUBSET T |->
                     IF s = {} THEN 0 ELSE Cost[Pick(s)] + Table(Rest(s))[Rest(s)]]
  <2>3. \A s \in SUBSET T : s # {} => Rest(s) \in SUBSET T /\ Rest(s) # T
    BY PickIn
  <2>4. \A u \in SUBSET T : u # T => F[u] = Table(u)[u]
    <3> HIDE DEF Table
    <3> SUFFICES ASSUME NEW u \in SUBSET T, u # T PROVE F[u] = Table(u)[u]
      OBVIOUS
    <3>1. CASE u = {}
      BY <2>2, <3>1, SumAt
    <3>2. CASE u # {}
      <4>1. Rest(u) \in SUBSET u /\ Rest(u) # T
        BY PickIn
      <4>2. Table(u)[Rest(u)] = Table(Rest(u))[Rest(u)]
        BY <2>2, <4>1, SumsAgree
      <4>3. Table(u)[u] = Cost[Pick(u)] + Table(u)[Rest(u)]
        BY <2>2, <3>2, SumAt
      <4>4. F[u] = Cost[Pick(u)] + Table(Rest(u))[Rest(u)]
        BY <3>2
      <4> QED
        BY <4>2, <4>3, <4>4
    <3> QED
      BY <3>1, <3>2
  <2>5. IsSum(F, T)
    <3>1. F = [s \in SUBSET T |-> IF s = {} THEN 0 ELSE Cost[Pick(s)] + F[Rest(s)]]
      <4> HIDE DEF Table
      <4>1. \A s \in SUBSET T : s # {} => F[Rest(s)] = Table(Rest(s))[Rest(s)]
        BY <2>3, <2>4
      <4> QED
        BY <4>1
    <3> QED
      BY <3>1 DEF IsSum
  <2> QED
    BY <2>1, <2>5
<1> QED
  BY <1>1

\* The estimate of no model, and of the models of a set with a chosen one first.
LEMMA EstimateRec ==
  ASSUME NEW S, IsFiniteSet(S)
  PROVE  /\ S = {} => Estimate(S) = 0
         /\ S # {} => Estimate(S) = Cost[Pick(S)] + Estimate(S \ {Pick(S)})
<1> DEFINE Table(t) == CHOOSE f : IsSum(f, t)
<1>1. \A t \in SUBSET S : IsFiniteSet(t) /\ IsSum(Table(t), t) /\ Estimate(t) = Table(t)[t]
  BY FS_Subset, SumExists, EstimateDef
<1> HIDE DEF Table
<1>2. S = {} => Estimate(S) = 0
  BY <1>1, SumAt
<1>3. ASSUME S # {} PROVE Estimate(S) = Cost[Pick(S)] + Estimate(S \ {Pick(S)})
  <2>1. Table(S)[S] = Cost[Pick(S)] + Table(S)[S \ {Pick(S)}]
    BY <1>1, <1>3, SumAt
  <2>2. Table(S)[S \ {Pick(S)}] = Table(S \ {Pick(S)})[S \ {Pick(S)}]
    BY <1>1, SumsAgree
  <2> QED
    BY <1>1, <2>1, <2>2
<1> QED
  BY <1>2, <1>3

\* An estimate is a number of MiB.
LEMMA EstimateType ==
  ASSUME NEW S \in SUBSET Models, IsFiniteSet(S)
  PROVE  Estimate(S) \in Nat
<1> DEFINE B == {t \in SUBSET S : Estimate(t) \notin Nat}
<1>1. ASSUME B # {} PROVE FALSE
  <2>1. PICK s \in B : \A t \in B : t \subseteq s => t = s
    <3> HIDE DEF B
    <3>1. B \in SUBSET SUBSET S
      BY DEF B
    <3> QED
      BY <1>1, <3>1, SmallestSubset
  <2>2. IsFiniteSet(s)
    BY FS_Subset
  <2>3. s # {}
    <3>1. s = {} => Estimate(s) = 0
      BY <2>2, EstimateRec
    <3> QED
      BY <3>1
  <2>4. Pick(s) \in Models /\ Estimate(s \ {Pick(s)}) \in Nat
    BY <2>1, <2>3, PickIn
  <2> QED
    BY <2>2, <2>3, <2>4, EstimateRec, BudgetAssumption
<1> QED
  BY <1>1

\* Whichever model is taken first.
LEMMA EstimateSplit ==
  ASSUME NEW S \in SUBSET Models, IsFiniteSet(S), NEW m \in S
  PROVE  Estimate(S) = Cost[m] + Estimate(S \ {m})
<1> DEFINE B == {t \in SUBSET S : \E x \in t : Estimate(t) # Cost[x] + Estimate(t \ {x})}
<1>1. \A t \in SUBSET S : IsFiniteSet(t) /\ Estimate(t) \in Nat
  BY FS_Subset, EstimateType
<1>2. ASSUME B # {} PROVE FALSE
  <2>1. PICK s \in B : \A t \in B : t \subseteq s => t = s
    <3> HIDE DEF B
    <3>1. B \in SUBSET SUBSET S
      BY DEF B
    <3> QED
      BY <1>2, <3>1, SmallestSubset
  <2>2. PICK x \in s : Estimate(s) # Cost[x] + Estimate(s \ {x})
    OBVIOUS
  <2> DEFINE y == Pick(s)
  <2>3. y \in s /\ Estimate(s) = Cost[y] + Estimate(s \ {y})
    BY <1>1, <2>2, EstimateRec, PickIn
  <2> HIDE DEF y
  <2>4. x # y
    BY <2>2, <2>3
  <2>5. s \ {x} \notin B /\ s \ {y} \notin B
    BY <2>1, <2>2, <2>3
  <2>6. Estimate(s \ {y}) = Cost[x] + Estimate((s \ {y}) \ {x})
    BY <2>2, <2>4, <2>5
  <2>7. Estimate(s \ {x}) = Cost[y] + Estimate((s \ {x}) \ {y})
    BY <2>3, <2>4, <2>5
  <2>8. (s \ {x}) \ {y} = (s \ {y}) \ {x}
    OBVIOUS
  <2>9. Cost[x] \in Nat /\ Cost[y] \in Nat /\ Estimate((s \ {y}) \ {x}) \in Nat
    BY <1>1, <2>2, <2>3, BudgetAssumption
  <2> QED
    BY <2>2, <2>3, <2>6, <2>7, <2>8, <2>9
<1> QED
  BY <1>2

\* Fewer models never cost more.
LEMMA EstimateMonotone ==
  ASSUME NEW S \in SUBSET Models, IsFiniteSet(S), NEW T \in SUBSET S
  PROVE  Estimate(T) <= Estimate(S)
<1> DEFINE B == {U \in SUBSET S : T \subseteq U /\ ~ Estimate(T) <= Estimate(U)}
<1>1. \A U \in SUBSET S : IsFiniteSet(U) /\ Estimate(U) \in Nat
  BY FS_Subset, EstimateType
<1>2. ASSUME B # {} PROVE FALSE
  <2>1. PICK U \in B : \A V \in B : V \subseteq U => V = U
    <3> HIDE DEF B
    <3>1. B \in SUBSET SUBSET S
      BY DEF B
    <3> QED
      BY <1>2, <3>1, SmallestSubset
  <2>2. PICK m \in U : m \notin T
    BY <1>1
  <2>3. Estimate(U) = Cost[m] + Estimate(U \ {m}) /\ Cost[m] \in Nat
    BY <1>1, EstimateSplit, BudgetAssumption
  <2>4. Estimate(T) <= Estimate(U \ {m})
    BY <2>1, <2>2
  <2>5. Estimate(U) \in Nat /\ Estimate(U \ {m}) \in Nat /\ Estimate(T) \in Nat
    BY <1>1
  <2> QED
    BY <2>3, <2>4, <2>5
<1> QED
  BY <1>2

-----------------------------------------------------------------------------
(* The budget *)

\* Usage is estimated, as where there is no nvidia-smi (a reading need not agree with
\* the registered costs); nothing is started exclusively (main.go never does); and
\* finitely many sidecars are registered.
EstimatedUsage ==
  Readings = {} /\ "exclusive" \notin Modes /\ IsFiniteSet(Models)

\* No call goes past makeRoomLocked.
NoneExclusive == \A c \in Clients : mode[c] # "exclusive" /\ pc[c] # "stopOthers"

\* What makeRoomLocked has done for the client inside start: the model fits beside
\* the others from then on, or used has not fallen below what the others cost.
RoomMade ==
  \A c \in Clients :
    /\ pc[c] \in {"spawn", "health", "oom"} =>
         Estimate(Resident \ {target[c]}) + Cost[target[c]] <= MaxVRAM
    /\ pc[c] = "evict" =>
         Estimate(Resident \ {target[c]}) <= used /\ target[c] \notin victims

\* What strengthens BudgetRespected to an inductive invariant beside IInv.
Budgeted ==
  /\ used \in Int /\ NoneExclusive
  /\ MaxVRAM > 0 => BudgetRespected /\ RoomMade

\* No call is an exclusive one.
LEMMA NoneExclusiveStep ==
  ASSUME EstimatedUsage, NoneExclusive, TypeOK, [Next]_vars
  PROVE  NoneExclusive'
<1> USE DEF NoneExclusive, TypeOK, calls
<1>1. ASSUME NEW c \in Clients, Step(c) PROVE NoneExclusive'
  BY <1>1 DEF Step, LockExec, FindResident, EnterStart, StopOthers, RoomUnlimited,
     RoomImpossible, MeasureRoom, SkipVictim, EvictVictim, RoomExhausted, Spawn, SpawnFails,
     Healthy, Unhealthy, EvictOldestIdle, Release, UnlockExec, Fail, Return, Goto
<1>2. ASSUME NEW c \in Clients, NEW m \in Models, NEW md \in Modes, Call(c, m, md)
      PROVE  NoneExclusive'
  BY <1>2 DEF Call, Goto, EstimatedUsage
<1>3. CASE Environment
  BY <1>3 DEF Environment, Expire, IdleUnload, WatcherExits, Crash, RequestShutdown,
     ShutdownLock, StopAll
<1>4. CASE UNCHANGED vars
  BY <1>4 DEF vars
<1> QED
  BY <1>1, <1>2, <1>3, <1>4 DEF Next

\* A client outside start leaves the processes and the room alone.
LEMMA OutsideStart ==
  ASSUME IInv, NEW c \in Clients, pc[c] \notin InStart, Step(c)
  PROVE  /\ UNCHANGED <<cmd, roomVars>>
         /\ \A d \in Clients : pc'[d] \in InStart \ {"stopOthers", "room"} =>
              d # c /\ pc'[d] = pc[d] /\ target'[d] = target[d]
<1> USE DEF IInv, TypeOK, InStart, calls
<1>1. LockExec(c) \/ FindResident(c) \/ EnterStart(c) \/ Release(c) \/ UnlockExec(c)
  BY DEF Step, StopOthers, RoomUnlimited, RoomImpossible, MeasureRoom, SkipVictim,
     EvictVictim, RoomExhausted, Spawn, SpawnFails, Healthy, Unhealthy, EvictOldestIdle
<1> QED
  BY <1>1 DEF LockExec, FindResident, EnterStart, Release, UnlockExec, Return, Goto

\* When models are only taken away, the room that was made stays.
LEMMA RoomStays ==
  ASSUME EstimatedUsage, TypeOK, CallShape, MaxVRAM > 0, Budgeted, Resident' \subseteq Resident,
         UNCHANGED <<used, victims>>,
         \A d \in Clients : pc'[d] \in InStart \ {"stopOthers", "room"} =>
           pc'[d] = pc[d] /\ target'[d] = target[d]
  PROVE  BudgetRespected' /\ RoomMade'
<1> USE BudgetAssumption
<1>1. Resident \in SUBSET Models /\ IsFiniteSet(Resident)
  BY FS_Subset DEF Resident, EstimatedUsage
<1>2. \A S \in SUBSET Resident : /\ IsFiniteSet(S) /\ Estimate(S) \in Nat
                                 /\ \A T \in SUBSET S : Estimate(T) <= Estimate(S)
  BY <1>1, FS_Subset, EstimateType, EstimateMonotone
<1>3. BudgetRespected'
  BY <1>2 DEF Budgeted, BudgetRespected, Estimate
<1>4. ASSUME NEW c \in Clients, pc'[c] \in {"spawn", "health", "oom"}
      PROVE  Estimate(Resident' \ {target'[c]}) + Cost[target'[c]] <= MaxVRAM
  <2>1. pc'[c] = pc[c] /\ target'[c] = target[c]
    BY <1>4 DEF InStart
  <2>2. target[c] \in Models
    BY <1>4, <2>1 DEF TypeOK, CallShape
  <2>3. Estimate(Resident' \ {target[c]}) <= Estimate(Resident \ {target[c]})
    BY <1>2
  <2>4. Estimate(Resident \ {target[c]}) + Cost[target[c]] <= MaxVRAM
    BY <1>4, <2>1 DEF Budgeted, RoomMade
  <2>5. Estimate(Resident' \ {target[c]}) \in Nat /\ Estimate(Resident \ {target[c]}) \in Nat
    BY <1>2
  <2> QED
    BY <2>1, <2>2, <2>3, <2>4, <2>5
<1>5. ASSUME NEW c \in Clients, pc'[c] = "evict"
      PROVE  Estimate(Resident' \ {target'[c]}) <= used' /\ target'[c] \notin victims'
  <2>1. pc[c] = "evict" /\ target'[c] = target[c]
    BY <1>5 DEF InStart
  <2>2. Estimate(Resident' \ {target[c]}) <= Estimate(Resident \ {target[c]})
    BY <1>2
  <2>3. Estimate(Resident' \ {target[c]}) \in Nat /\ Estimate(Resident \ {target[c]}) \in Nat
    BY <1>2
  <2> QED
    BY <2>1, <2>2, <2>3 DEF Budgeted, RoomMade
<1> QED
  BY <1>3, <1>4, <1>5 DEF RoomMade, Estimate

\* The client inside start: what a step of it makes of the budget and of the room.
LEMMA BudgetInStart ==
  ASSUME EstimatedUsage, IInv, Budgeted, MaxVRAM > 0,
         NEW c \in Clients, pc[c] \in InStart, Step(c)
  PROVE  /\ BudgetRespected'
         /\ pc'[c] \in {"spawn", "health", "oom"} =>
              Estimate(Resident' \ {target'[c]}) + Cost[target'[c]] <= MaxVRAM
         /\ pc'[c] = "evict" =>
              Estimate(Resident' \ {target'[c]}) <= used' /\ target'[c] \notin victims'
<1> DEFINE t == target[c]
           R == Resident \ {t}
           Made == Estimate(Resident' \ {t}) + Cost[t] <= MaxVRAM
<1> USE BudgetAssumption
<1>1. t \in Models /\ Cost[t] \in Nat /\ used \in Int
  BY TargetIsModel DEF IInv, InStart, Budgeted
<1>2. /\ Resident \in SUBSET Models /\ Resident' \in SUBSET Models /\ R \in SUBSET Resident
      /\ Resident' \ {t} \in SUBSET Models
  BY DEF Resident
<1>3. \A S \in SUBSET Models : /\ IsFiniteSet(S) /\ Estimate(S) \in Nat
                               /\ \A T \in SUBSET S : Estimate(T) <= Estimate(S)
                               /\ \A m \in S : Estimate(S) = Cost[m] + Estimate(S \ {m})
  BY FS_Subset, EstimateType, EstimateMonotone, EstimateSplit DEF EstimatedUsage
<1>4. Estimate(Resident) <= MaxVRAM
  BY DEF Budgeted, BudgetRespected
<1>5. pc[c] \in {"spawn", "health", "oom"} => Estimate(R) + Cost[t] <= MaxVRAM
  BY DEF Budgeted, RoomMade
<1>6. pc[c] = "evict" => Estimate(R) <= used /\ t \notin victims
  BY DEF Budgeted, RoomMade
<1>7. ASSUME Resident' \subseteq Resident PROVE BudgetRespected'
  BY <1>2, <1>3, <1>4, <1>7 DEF BudgetRespected, Estimate
<1>8. ASSUME Resident' \subseteq Resident, Estimate(R) + Cost[t] <= MaxVRAM PROVE Made
  <2>1. Resident' \ {t} \in SUBSET R /\ R \in SUBSET Models
    BY <1>2, <1>8
  <2>2. Estimate(Resident' \ {t}) <= Estimate(R)
        /\ Estimate(Resident' \ {t}) \in Nat /\ Estimate(R) \in Nat
    BY <1>3, <2>1
  <2> QED
    BY <1>1, <1>8, <2>2
<1> USE DEF IInv, TypeOK, calls
<1> HIDE DEF t, R, Made
<1> DEFINE Goal == /\ BudgetRespected'
                   /\ pc'[c] \in {"spawn", "health", "oom"} => target'[c] = t /\ Made
                   /\ pc'[c] = "evict" =>
                        /\ target'[c] = t /\ t \notin victims'
                        /\ Estimate(Resident' \ {t}) <= used'
<1>9. SUFFICES Goal
  BY DEF Made
<1>10. ~ StopOthers(c) /\ ~ LockExec(c) /\ ~ FindResident(c) /\ ~ EnterStart(c)
       /\ ~ Release(c) /\ ~ UnlockExec(c)
  BY DEF StopOthers, LockExec, FindResident, EnterStart, Release, UnlockExec, InStart,
     Budgeted, NoneExclusive
<1>11. CASE RoomUnlimited(c)
  <2>1. Cost[t] = 0 /\ Resident' = Resident /\ target'[c] = t /\ pc'[c] = "spawn"
    BY <1>11 DEF RoomUnlimited, Goto, Resident, t
  <2>2. Estimate(R) <= Estimate(Resident) /\ Estimate(R) \in Nat /\ Estimate(Resident) \in Nat
    BY <1>2, <1>3
  <2> QED
    BY <1>4, <1>7, <1>8, <2>1, <2>2
<1>12. CASE RoomImpossible(c) \/ RoomExhausted(c) \/ SpawnFails(c)
  <2>1. Resident' = Resident /\ pc'[c] \in {"unlock", "idle"}
    BY <1>12 DEF RoomImpossible, RoomExhausted, SpawnFails, Fail, Return, Goto, Resident
  <2> QED
    BY <1>7, <2>1
<1>13. CASE MeasureRoom(c)
  <2>1. Resident' = Resident /\ target'[c] = t
    BY <1>13 DEF MeasureRoom, Resident, t
  <2>2. \/ Fits(Estimate(R), t) /\ pc'[c] = "spawn"
        \/ pc'[c] = "evict" /\ used' = Estimate(R) /\ victims' = R
    BY <1>13 DEF MeasureRoom, Measure, EstimatedUsage, Goto, t, R
  <2>3. t \notin R /\ Estimate(R) \in Nat /\ Resident' \ {t} = R
    BY <1>2, <1>3, <2>1 DEF R
  <2>4. CASE Fits(Estimate(R), t) /\ pc'[c] = "spawn"
    <3>1. Estimate(R) + Cost[t] <= MaxVRAM
      BY <2>4 DEF Fits
    <3> QED
      BY <1>7, <1>8, <2>1, <2>4, <3>1
  <2>5. CASE pc'[c] = "evict" /\ used' = Estimate(R) /\ victims' = R
    <3>1. Estimate(Resident' \ {t}) = used' /\ used' \in Nat
      BY <2>3, <2>5
    <3>2. Estimate(Resident' \ {t}) <= used' /\ t \notin victims'
      BY <2>3, <2>5, <3>1
    <3> QED
      BY <1>7, <2>1, <2>5, <3>2
  <2> QED
    BY <2>2, <2>4, <2>5
<1>14. CASE SkipVictim(c)
  <2>1. /\ Resident' = Resident /\ target'[c] = t /\ pc[c] = "evict" /\ pc'[c] = "evict"
        /\ victims' \subseteq victims /\ used' = used
    BY <1>14 DEF SkipVictim, Resident, t
  <2>2. Resident' \ {t} = R
    BY <2>1 DEF R
  <2> QED
    BY <1>6, <1>7, <2>1, <2>2
<1>15. CASE EvictVictim(c)
  <2> PICK v \in Models :
         /\ IsOldest(v, victims, snap) /\ cmd[v] # "none"
         /\ cmd' = [cmd EXCEPT ![v] = "none"]
         /\ \E u \in Measure(used - Cost[v]) :
              \/ Fits(u, target[c]) /\ Goto(c, "spawn")
              \/ used' = u /\ victims' = victims \ {v} /\ UNCHANGED pc
    BY <1>15, Zenon DEF EvictVictim
  <2>5. Measure(used - Cost[v]) = {used - Cost[v]}
    BY DEF Measure, EstimatedUsage
  <2>6. \/ Fits(used - Cost[v], t) /\ pc'[c] = "spawn"
        \/ pc'[c] = pc[c] /\ used' = used - Cost[v] /\ victims' = victims \ {v}
    BY <2>5 DEF Goto, t
  <2>7. v \in victims
    BY DEF IsOldest
  <2>1. pc[c] = "evict" /\ target'[c] = t
    BY <1>15 DEF EvictVictim, t
  <2>2. Resident' \subseteq Resident /\ Resident' \ {t} = R \ {v} /\ v \in R
    BY <1>6, <2>1, <2>7 DEF Resident, R
  <2>3. Estimate(R) = Cost[v] + Estimate(Resident' \ {t}) /\ Cost[v] \in Nat
        /\ Estimate(R) \in Nat /\ Estimate(Resident' \ {t}) \in Nat
    BY <1>2, <1>3, <2>2
  <2>4. Estimate(Resident' \ {t}) <= used - Cost[v]
    BY <1>1, <1>6, <2>1, <2>3
  <2> QED
    BY <1>1, <1>6, <1>7, <2>1, <2>2, <2>3, <2>4, <2>6, <2>7 DEF Fits, Made
<1>16. CASE Spawn(c)
  <2>1. Resident' = Resident \cup {t} /\ target'[c] = t /\ pc[c] = "spawn" /\ pc'[c] = "health"
    BY <1>1, <1>16 DEF Spawn, Goto, Resident, t
  <2>2. Resident' \ {t} = R
    BY <2>1 DEF R
  <2>3. Estimate(Resident') = Cost[t] + Estimate(R) /\ Estimate(R) \in Nat
    BY <1>2, <1>3, <2>1, <2>2
  <2>4. Estimate(Resident') <= MaxVRAM
    BY <1>1, <1>5, <2>1, <2>3
  <2> QED
    BY <1>5, <2>1, <2>2, <2>4 DEF Made, BudgetRespected, Estimate
<1>17. CASE Healthy(c)
  <2>1. Resident' = Resident /\ pc'[c] \notin {"spawn", "health", "oom", "evict"}
    BY <1>17 DEF Healthy, Return, Goto, Resident
  <2> QED
    BY <1>7, <2>1
<1>18. CASE Unhealthy(c)
  <2>1. Resident' \subseteq Resident /\ pc[c] = "health" /\ pc'[c] # "evict"
        /\ (pc'[c] \in {"spawn", "health", "oom"} => target'[c] = t)
    BY <1>18 DEF Unhealthy, Fail, Return, Goto, Resident, t
  <2> QED
    BY <1>5, <1>7, <1>8, <2>1
<1>19. CASE EvictOldestIdle(c)
  <2>1. Resident' \subseteq Resident /\ pc[c] = "oom" /\ pc'[c] # "evict"
        /\ (pc'[c] \in {"spawn", "health", "oom"} => target'[c] = t)
    BY <1>19 DEF EvictOldestIdle, Fail, Return, Goto, Resident, t
  <2> QED
    BY <1>5, <1>7, <1>8, <2>1
<1> QED
  BY <1>10, <1>11, <1>12, <1>13, <1>14, <1>15, <1>16, <1>17, <1>18, <1>19 DEF Step

\* used stays an integer.
LEMMA UsedType ==
  ASSUME EstimatedUsage, IInv, used \in Int, [Next]_vars
  PROVE  used' \in Int
<1> USE BudgetAssumption DEF IInv, TypeOK, calls, roomVars
<1>1. \A S \in SUBSET Models : Estimate(S) \in Nat
  BY FS_Subset, EstimateType DEF EstimatedUsage
<1>2. ASSUME NEW c \in Clients, MeasureRoom(c) PROVE used' \in Int
  BY <1>1, <1>2 DEF MeasureRoom, Measure, EstimatedUsage, Resident
<1>3. ASSUME NEW c \in Clients, EvictVictim(c) PROVE used' \in Int
  BY <1>3 DEF EvictVictim, Measure, EstimatedUsage
<1>4. ASSUME NEW c \in Clients, Step(c) PROVE used' \in Int
  BY <1>2, <1>3, <1>4 DEF Step, LockExec, FindResident, EnterStart, StopOthers, RoomUnlimited,
     RoomImpossible, SkipVictim, RoomExhausted, Spawn, SpawnFails, Healthy, Unhealthy,
     EvictOldestIdle, Release, UnlockExec
<1>5. ASSUME NEW c \in Clients, NEW m \in Models, NEW md \in Modes, Call(c, m, md)
      PROVE  used' \in Int
  BY <1>5 DEF Call
<1>6. CASE Environment
  BY <1>6 DEF Environment, Expire, IdleUnload, WatcherExits, Crash, RequestShutdown,
     ShutdownLock, StopAll
<1>7. CASE UNCHANGED vars
  BY <1>7 DEF vars
<1> QED
  BY <1>4, <1>5, <1>6, <1>7 DEF Next

\* Every step keeps the budget and the room made.
LEMMA BudgetStep ==
  ASSUME EstimatedUsage, IInv, IInv', Budgeted, [Next]_vars
  PROVE  Budgeted'
<1>1. NoneExclusive' /\ used' \in Int
  BY NoneExclusiveStep, UsedType DEF IInv, Budgeted
<1> SUFFICES ASSUME MaxVRAM > 0 PROVE BudgetRespected' /\ RoomMade'
  BY <1>1 DEF Budgeted
<1> USE DEF IInv
<1>2. ASSUME NEW c \in Clients, Step(c), pc[c] \notin InStart
      PROVE  BudgetRespected' /\ RoomMade'
  BY <1>2, OutsideStart, RoomStays DEF Resident, roomVars
<1>3. ASSUME NEW c \in Clients, Step(c), pc[c] \in InStart
      PROVE  BudgetRespected' /\ RoomMade'
  <2>1. \A d \in Clients \ {c} : pc'[d] \notin InStart
    <3>1. startMu = c
      BY <1>3 DEF StartOwner
    <3>2. \A d \in Clients \ {c} : pc[d] \notin InStart
      BY <3>1 DEF StartOwner
    <3>3. \A d \in Clients \ {c} : pc'[d] = pc[d]
      BY <1>3 DEF Step, LockExec, FindResident, EnterStart, StopOthers, RoomUnlimited,
         RoomImpossible, MeasureRoom, SkipVictim, EvictVictim, RoomExhausted, Spawn,
         SpawnFails, Healthy, Unhealthy, EvictOldestIdle, Release, UnlockExec, Fail, Return,
         Goto, TypeOK, calls
    <3> QED
      BY <3>2, <3>3
  <2> QED
    BY <1>3, <2>1, BudgetInStart DEF RoomMade, InStart, Estimate
<1>4. ASSUME NEW c \in Clients, NEW m \in Models, NEW md \in Modes, Call(c, m, md)
      PROVE  BudgetRespected' /\ RoomMade'
  <2>1. \A d \in Clients : pc'[d] \in InStart => pc'[d] = pc[d] /\ target'[d] = target[d]
    BY <1>4 DEF Call, Goto, InStart, TypeOK
  <2> QED
    BY <1>4, <2>1, RoomStays DEF Call, Resident, roomVars
<1>5. CASE Environment
  <2>1. UNCHANGED <<pc, target, used, victims>> /\ Resident' \subseteq Resident
    BY <1>5 DEF Environment, Expire, IdleUnload, WatcherExits, Crash, RequestShutdown,
       ShutdownLock, StopAll, calls, roomVars, Resident, TypeOK
  <2> QED
    BY <2>1, RoomStays
<1>6. CASE UNCHANGED vars
  BY <1>6, RoomStays DEF vars, calls, roomVars, Resident
<1> QED
  BY <1>2, <1>3, <1>4, <1>5, <1>6 DEF Next

\* Nothing is resident at first.
LEMMA InitBudgeted == Init => Budgeted
<1> SUFFICES ASSUME Init PROVE Budgeted
  OBVIOUS
<1>1. Resident = {} /\ Estimate({}) = 0
  BY EstimateRec, FS_EmptySet DEF Init, Resident
<1> QED
  BY <1>1, BudgetAssumption DEF Init, Budgeted, NoneExclusive, BudgetRespected, RoomMade

\* The models that have a process never cost more than the budget, whatever order starts,
\* evictions, out-of-memory retries, crashes and shutdown come in (makeRoomLocked).
THEOREM BudgetIsKept ==
  ASSUME EstimatedUsage
  PROVE  Spec => []BudgetRespected
<1>1. IInv /\ IInv' /\ Budgeted /\ [Next]_vars => Budgeted'
  BY BudgetStep
<1>2. Budgeted => BudgetRespected
  BY DEF Budgeted, BudgetRespected
<1> QED
  BY <1>1, <1>2, InitBudgeted, InductiveInvariant, PTL DEF Spec

-----------------------------------------------------------------------------
(* Refinement of GpuLease *)

\* A step that starts no process and changes no lease only unloads models
\* that are not leased (perhaps none at all).
LEMMA ShrinkingIsUnload ==
  ASSUME IInv, LeasedIsResident', UNCHANGED lease,
         \A m \in Models : cmd[m] = "none" => cmd'[m] = "none"
  PROVE  Abstract!Next
<1> DEFINE S == Resident \ Resident'
<1>1. S \in SUBSET Models
  BY DEF Resident
<1>2. Resident' = Resident \ S
  BY DEF Resident
<1>3. \A l \in {l \in Clients \X Models : lease[l[1]] = l[2]} : l[2] \notin S
  BY NamesAssumption DEF Resident, LeasedIsResident, IInv, TypeOK
<1>4. PICK T \in SUBSET Models : T = S
  BY <1>1
<1>5. Abstract!Unload(T)
  BY <1>2, <1>3, <1>4 DEF Abstract!Unload
<1> QED
  BY <1>5 DEF Abstract!Next

\* The client that holds execMu without a lease is the only one that could
\* have one, so nobody has.
LEMMA NoLeaseYet ==
  ASSUME IInv, NEW c \in Clients, mode[c] = "acquire", pc[c] # "exec"
  PROVE  \A d \in Clients : lease[d] = NoModel
  BY DEF IInv, LockIsAccountedFor, CallShape

\* A successful acquire is the abstract grant.
LEMMA GrantMaps ==
  ASSUME IInv, NEW c \in Clients, mode[c] = "acquire", pc[c] # "exec",
         Granted(c), Resident' = Resident,
         NEW m \in Models, m = target[c], m \in Resident
  PROVE  Abstract!Next
<1>1. \A d \in Clients : lease[d] = NoModel
  BY NoLeaseYet
<1>2. lease' = [lease EXCEPT ![c] = m]
  BY DEF Granted
<1>3. {l \in Clients \X Models : lease[l[1]] = l[2]} = {}
  BY <1>1, NamesAssumption
<1>4. {l \in Clients \X Models : lease'[l[1]] = l[2]} = {<<c, m>>}
  BY <1>1, <1>2, NamesAssumption DEF IInv, TypeOK
<1>5. Abstract!Grant(c, m)
  BY <1>3, <1>4 DEF Abstract!Grant
<1> QED
  BY <1>5 DEF Abstract!Next

\* The first half of a release is the abstract one.
LEMMA ReleaseMaps ==
  ASSUME IInv, NEW c \in Clients, Release(c)
  PROVE  Abstract!Next
<1> PICK m \in Models : m = lease[c]
  BY DEF IInv, TypeOK, Release
<1>1. lease' = [lease EXCEPT ![c] = NoModel] /\ Resident' = Resident
  BY DEF Release, Resident
<1>2. {l \in Clients \X Models : lease'[l[1]] = l[2]}
        = {l \in Clients \X Models : lease[l[1]] = l[2]} \ {<<c, m>>}
  BY <1>1, NamesAssumption DEF IInv, TypeOK
<1>3. <<c, m>> \in {l \in Clients \X Models : lease[l[1]] = l[2]}
  OBVIOUS
<1>4. Abstract!GiveBack(c, m)
  BY <1>1, <1>2, <1>3 DEF Abstract!GiveBack
<1> QED
  BY <1>4 DEF Abstract!Next

\* A launch makes the model resident before it is known to be healthy.
LEMMA SpawnMaps ==
  ASSUME IInv, NEW c \in Clients, Spawn(c)
  PROVE  Abstract!Next
<1> PICK m \in Models : m = target[c]
  BY TargetIsModel DEF IInv, Spawn
<1>1. Resident' = Resident \cup {m} /\ UNCHANGED lease
  BY DEF Spawn, Resident, IInv, TypeOK
<1>2. Abstract!Load(m)
  BY <1>1 DEF Abstract!Load
<1> QED
  BY <1>2 DEF Abstract!Next

\* Every step of a client is a step of the abstract specification.
LEMMA StepMaps ==
  ASSUME IInv, IInv', NEW c \in Clients, Step(c)
  PROVE  Abstract!Next
<1> DEFINE Shrinks == /\ UNCHANGED lease
                      /\ \A m \in Models : cmd[m] = "none" => cmd'[m] = "none"
<1>1. Shrinks => Abstract!Next
  BY ShrinkingIsUnload DEF IInv
<1>2. CASE FindResident(c) \/ Healthy(c)
  <2> PICK m \in Models : m = target[c]
    BY <1>2, TargetIsModel DEF IInv, FindResident, Healthy
  <2>1. Resident' = Resident /\ m \in Resident
    BY <1>2 DEF FindResident, Healthy, Resident, IInv, TypeOK
  <2>2. CASE mode[c] = "acquire"
    BY <1>2, <2>1, <2>2, GrantMaps DEF FindResident, Healthy
  <2>3. CASE mode[c] # "acquire"
    BY <1>1, <1>2, <2>1, <2>3 DEF FindResident, Healthy, Granted, Resident, IInv, TypeOK
  <2> QED
    BY <2>2, <2>3
<1>3. CASE Release(c)
  BY <1>3, ReleaseMaps
<1>4. CASE Spawn(c)
  BY <1>4, SpawnMaps
<1>5. CASE LockExec(c) \/ EnterStart(c) \/ UnlockExec(c)
  BY <1>1, <1>5 DEF LockExec, EnterStart, UnlockExec
<1>6. CASE RoomUnlimited(c) \/ RoomImpossible(c) \/ MeasureRoom(c)
  BY <1>1, <1>6 DEF RoomUnlimited, RoomImpossible, MeasureRoom, Fail
<1>7. CASE SkipVictim(c) \/ RoomExhausted(c) \/ SpawnFails(c)
  BY <1>1, <1>7 DEF SkipVictim, RoomExhausted, SpawnFails, Fail, calls
<1>8. CASE StopOthers(c)
  BY <1>1, <1>8 DEF StopOthers
<1>9. CASE EvictVictim(c)
  BY <1>1, <1>9 DEF EvictVictim, IInv, TypeOK
<1>10. CASE EvictOldestIdle(c)
  BY <1>1, <1>10 DEF EvictOldestIdle, Fail, IInv, TypeOK
<1>11. CASE Unhealthy(c)
  BY <1>1, <1>11 DEF Unhealthy, Fail, IInv, TypeOK
<1> QED
  BY <1>2, <1>3, <1>4, <1>5, <1>6, <1>7, <1>8, <1>9, <1>10, <1>11 DEF Step

LEMMA EnvironmentMaps ==
  ASSUME IInv, IInv', Environment
  PROVE  Abstract!Next
<1>1. ASSUME NEW m \in Models, Expire(m) \/ IdleUnload(m) \/ WatcherExits(m) \/ Crash(m)
      PROVE  /\ UNCHANGED lease
             /\ \A n \in Models : cmd[n] = "none" => cmd'[n] = "none"
  BY <1>1 DEF Expire, IdleUnload, WatcherExits, Crash, calls, IInv, TypeOK
<1>2. ASSUME RequestShutdown \/ ShutdownLock \/ StopAll
      PROVE  /\ UNCHANGED lease
             /\ \A n \in Models : cmd[n] = "none" => cmd'[n] = "none"
  BY <1>2 DEF RequestShutdown, ShutdownLock, StopAll, calls
<1> QED
  BY <1>1, <1>2, ShrinkingIsUnload DEF Environment, IInv

\* The manager implements the lease it promises: at most one client holds the
\* GPU, only for a resident model, and that model stays until it is given back.
THEOREM Refinement == Spec => ImplementsGpuLease
<1>1. Init => Abstract!Init
  BY NamesAssumption DEF Init, Abstract!Init, Resident
<1>2. IInv /\ IInv' /\ [Next]_vars => [Abstract!Next]_Abstract!vars
  <2> SUFFICES ASSUME IInv, IInv', [Next]_vars
               PROVE  [Abstract!Next]_Abstract!vars
    OBVIOUS
  <2>1. ASSUME NEW c \in Clients, Step(c) PROVE Abstract!Next
    BY <2>1, StepMaps
  <2>2. ASSUME NEW c \in Clients, NEW m \in Models, NEW md \in Modes, Call(c, m, md)
        PROVE  UNCHANGED Abstract!vars
    BY <2>2 DEF Call, Abstract!vars, Resident
  <2>3. CASE Environment
    BY <2>3, EnvironmentMaps
  <2>4. CASE UNCHANGED vars
    BY <2>4 DEF vars, calls, Abstract!vars, Resident
  <2> QED
    BY <2>1, <2>2, <2>3, <2>4 DEF Next
<1> QED
  BY <1>1, <1>2, InductiveInvariant, PTL DEF Spec, Abstract!Spec, ImplementsGpuLease
=============================================================================
