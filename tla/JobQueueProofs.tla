--------------------------- MODULE JobQueueProofs ---------------------------
(***************************************************************************)
(* Theorems about JobQueue for any providers, pools, jobs, groups and      *)
(* timers.  IInv joins the safety properties with what they rest on: who   *)
(* holds lifecycleMu, whose timer is whose, and the counters as            *)
(* cardinalities of sets of workers.                                       *)
(***************************************************************************)
EXTENDS JobQueue, FiniteSetTheorems, TLAPS

\* lifecycleMu is held by whoever is inside Warm or Idle; a timer that is in
\* use belongs to a provider.
MutexHeld ==
  /\ \A w \in Workers : wpc[w] = "warming" => lifecycleMu[Serves[w]] = w
  /\ \A t \in Timers :
       /\ tstate[t] # "free" => tprov[t] \in Providers
       /\ tstate[t] = "unloading" => lifecycleMu[tprov[t]] = t

\* A timer in m.idleTimers was started for the provider it is filed under.
TimersOwned == \A p \in Providers : idleTimers[p] # None => tprov[idleTimers[p]] = p

\* Queued jobs stand in the queue of their provider, at one place each; running jobs
\* are held by one worker of their provider each, which is inside run.
Queued ==
  /\ \A p \in Providers : \A i \in 1..Len(queue[p]) :
       status[queue[p][i]] = "queued" /\ For[queue[p][i]] = p
  /\ \A p \in Providers : \A i, k \in 1..Len(queue[p]) : queue[p][i] = queue[p][k] => i = k
  /\ \A j \in Jobs : status[j] = "queued" =>
       \E i \in 1..Len(queue[For[j]]) : queue[For[j]][i] = j

Held ==
  /\ \A w \in Workers : job[w] # NoJob <=> wpc[w] \in Running
  /\ \A w \in Workers : job[w] # NoJob => status[job[w]] = "running" /\ For[job[w]] = Serves[w]
  /\ \A w, v \in Workers : job[w] = job[v] /\ job[w] # NoJob => w = v
  /\ \A j \in Jobs : status[j] = "running" => \E w \in Workers : job[w] = j

IInv ==
  /\ TypeOK /\ MutexHeld /\ ActiveCounts /\ GroupExclusive
  /\ TimerOnlyWhenIdle /\ TimersOwned /\ IdleWarmHasTimer
  /\ Queued /\ Held

-----------------------------------------------------------------------------
(* Counting the workers whose label is in a set *)

\* The workers of W whose label is in L.
Within(W, f, L) == {v \in W : f[v] \in L}

\* One worker moves; it enters the set, leaves it, or does neither.
LEMMA CountAfterMove ==
  ASSUME NEW W \in SUBSET Workers, NEW L, NEW f, NEW h,
         NEW w \in Workers, NEW label,
         \A v \in Workers : h[v] = IF v = w THEN label ELSE f[v]
  PROVE  /\ w \in W /\ f[w] \notin L /\ label \in L =>
              Cardinality(Within(W, h, L)) = Cardinality(Within(W, f, L)) + 1
         /\ w \in W /\ f[w] \in L /\ label \notin L =>
              Cardinality(Within(W, h, L)) = Cardinality(Within(W, f, L)) - 1
         /\ w \notin W \/ (f[w] \in L <=> label \in L) =>
              Cardinality(Within(W, h, L)) = Cardinality(Within(W, f, L))
<1>1. IsFiniteSet(Within(W, f, L))
  BY FiniteAssumption, FS_Subset, Within(W, f, L) \subseteq Workers DEF Within
<1>2. ASSUME w \in W, f[w] \notin L, label \in L
      PROVE  Cardinality(Within(W, h, L)) = Cardinality(Within(W, f, L)) + 1
  <2>1. Within(W, h, L) = Within(W, f, L) \cup {w} /\ w \notin Within(W, f, L)
    BY <1>2 DEF Within
  <2> QED
    BY <1>1, <2>1, FS_AddElement
<1>3. ASSUME w \in W, f[w] \in L, label \notin L
      PROVE  Cardinality(Within(W, h, L)) = Cardinality(Within(W, f, L)) - 1
  <2>1. Within(W, h, L) = Within(W, f, L) \ {w} /\ w \in Within(W, f, L)
    BY <1>3 DEF Within
  <2> QED
    BY <1>1, <2>1, FS_RemoveElement
<1>4. ASSUME w \notin W \/ (f[w] \in L <=> label \in L)
      PROVE  Within(W, h, L) = Within(W, f, L)
  BY <1>4 DEF Within
<1> QED
  BY <1>2, <1>3, <1>4

-----------------------------------------------------------------------------
(* The initial states *)

LEMMA InitIInv == Init => IInv
<1> SUFFICES ASSUME Init PROVE IInv
  OBVIOUS
<1>1. TypeOK /\ MutexHeld /\ TimerOnlyWhenIdle /\ TimersOwned /\ IdleWarmHasTimer
  BY NamesAssumption, WiringAssumption
     DEF Init, TypeOK, MutexHeld, TimerOnlyWhenIdle, TimersOwned, IdleWarmHasTimer
<1>2. Queued /\ Held
  BY NamesAssumption, WiringAssumption DEF Init, Queued, Held, Running
<1>3. \A p \in Providers : Busy(p) = {}
  BY DEF Init, Busy, Crew, Running
<1>4. \A g \in Groups : Holders(g) = {}
  BY DEF Init, Holders, Members, Holding, Running
<1>5. ActiveCounts /\ GroupExclusive
  BY <1>3, <1>4, FS_EmptySet DEF Init, ActiveCounts, GroupExclusive
<1> QED
  BY <1>1, <1>2, <1>5 DEF IInv

-----------------------------------------------------------------------------
(* Type correctness *)

\* A running job is counted, so finish never counts below zero.
LEMMA ActivePositive ==
  ASSUME TypeOK, ActiveCounts, NEW w \in Workers, wpc[w] \in Running
  PROVE  active[Serves[w]] \in Nat \ {0}
<1>1. Serves[w] \in Providers /\ w \in Busy(Serves[w])
  BY WiringAssumption DEF Busy, Crew
<1>2. IsFiniteSet(Busy(Serves[w]))
  BY FiniteAssumption, FS_Subset, Busy(Serves[w]) \subseteq Workers DEF Busy, Crew
<1>3. Cardinality(Busy(Serves[w])) # 0
  BY <1>1, <1>2, FS_EmptySet
<1> QED
  BY <1>1, <1>3 DEF TypeOK, ActiveCounts

LEMMA TypeStep ==
  ASSUME TypeOK, MutexHeld, ActiveCounts, [Next]_vars
  PROVE  TypeOK'
<1> USE NamesAssumption, WiringAssumption DEF Goto, Running, Holding,
    jobVars, workerVars, timerVars, groupVars
<1>1. CASE \E j \in Jobs : Submit(j)
  BY <1>1 DEF TypeOK, Submit, CancelIdleTimer
<1>2. CASE \E j \in Jobs : Broadcast(j)
  BY <1>2 DEF TypeOK, Broadcast, Wake
<1>3. CASE \E w \in Workers : CheckQueue(w)
  BY <1>3 DEF TypeOK, CheckQueue
<1>4. CASE \E w \in Workers : AcquireResource(w)
  <2>1. PICK w \in Workers : AcquireResource(w)
    BY <1>4
  <2>2. Serves[w] \in Providers /\ Group[Serves[w]] \in Groups \cup {None}
    BY DEF TypeOK
  <2>3. warm' \in [Providers -> BOOLEAN]
    <3>1. \/ warm' = warm
          \/ \E q \in Providers :
               warm' = [warm EXCEPT ![q] = FALSE, ![Serves[w]] = FALSE]
      BY <2>1, <2>2 DEF TypeOK, AcquireResource, HandOff
    <3> QED
      BY <3>1 DEF TypeOK
  <2>4. /\ activeProvider' \in [Groups -> Providers \cup {None}]
        /\ activeJobs' \in [Groups -> Nat] /\ quiet' \subseteq Groups
    <3>1. CASE UNCHANGED groupVars
      BY <3>1 DEF TypeOK
    <3>2. CASE Group[Serves[w]] # None
      <4>1. /\ activeProvider' = [activeProvider EXCEPT ![Group[Serves[w]]] = Serves[w]]
            /\ activeJobs' = [activeJobs EXCEPT ![Group[Serves[w]]] = @ + 1]
            /\ quiet' = quiet \ {Group[Serves[w]]}
        BY <2>1, <3>2 DEF AcquireResource, HandOff
      <4> QED
        BY <2>2, <3>2, <4>1 DEF TypeOK
    <3> QED
      BY <2>1, <3>1, <3>2 DEF AcquireResource, HandOff
  <2> QED
    BY <2>1, <2>2, <2>3, <2>4 DEF TypeOK, AcquireResource, HandOff
<1>5. CASE \E w \in Workers : FindNothing(w)
  BY <1>5 DEF TypeOK, FindNothing
<1>6. CASE \E w \in Workers : Pop(w)
  BY <1>6 DEF TypeOK, Pop, CountUp, TakeHead
<1>7. CASE \E w \in Workers : ReleaseResource(w)
  <2>1. PICK w \in Workers : ReleaseResource(w)
    BY <1>7
  <2>2. activeJobs' \in [Groups -> Nat]
    <3>1. activeJobs \in [Groups -> Nat]
      BY DEF TypeOK
    <3>. QED BY <2>1, <3>1 DEF ReleaseResource
  <2> QED
    BY <2>1, <2>2 DEF TypeOK, ReleaseResource
<1>8. CASE \E w \in Workers : RunGate(w)
  BY <1>8 DEF TypeOK, RunGate
<1>9. CASE \E w \in Workers : ReadWarm(w)
  BY <1>9 DEF TypeOK, ReadWarm
<1>10. CASE \E w \in Workers : LockLifecycle(w)
  <2>1. PICK w \in Workers : LockLifecycle(w)
    BY <1>10
  <2>2. lifecycleMu' = lifecycleMu \/ lifecycleMu' = [lifecycleMu EXCEPT ![Serves[w]] = w]
    BY <2>1 DEF LockLifecycle
  <2>3. lifecycleMu' \in [Providers -> Workers \cup Timers \cup {None}]
    <3>1. lifecycleMu \in [Providers -> Workers \cup Timers \cup {None}]
      BY DEF TypeOK
    <3>. QED BY <2>2, <3>1
  <2> QED
    BY <2>1, <2>3 DEF TypeOK, LockLifecycle
<1>11. CASE \E w \in Workers : Warmed(w)
  <2>1. PICK w \in Workers : Warmed(w)
    BY <1>11
  <2>2. lifecycleMu' \in [Providers -> Workers \cup Timers \cup {None}]
    BY <2>1 DEF TypeOK, Warmed
  <2>3. loaded' \in [Providers -> BOOLEAN]
    BY <2>1 DEF TypeOK, Warmed
  <2> QED
    BY <2>1, <2>2, <2>3 DEF TypeOK, Warmed
<1>12. CASE \E w \in Workers : SetWarm(w)
  BY <1>12 DEF TypeOK, SetWarm
<1>13. CASE \E w \in Workers : Finish(w)
  <2>1. PICK w \in Workers : Finish(w)
    BY <1>13
  <2>2. active[Serves[w]] \in Nat \ {0}
    BY <2>1, ActivePositive DEF Finish, CountDown
  <2>3. active' \in [Providers -> Nat]
    BY <2>1, <2>2 DEF TypeOK, Finish, CountDown
  <2>4. status' \in [Jobs -> {"new", "queued", "running", "succeeded", "failed"}]
    BY <2>1 DEF TypeOK, Finish, CountDown
  <2>5. /\ idleTimers' \in [Providers -> Timers \cup {None}]
        /\ tstate' \in [Timers -> {"free", "armed", "fired", "idling", "unloading"}]
        /\ tprov' \in [Timers -> Providers \cup {None}]
    <3>1. CASE StartIdleTimer(Serves[w])
      <4>1. CASE UNCHANGED timerVars
        BY <4>1 DEF TypeOK
      <4>2. CASE \E t \in Timers :
                   /\ tstate' = [tstate EXCEPT ![t] = "armed"]
                   /\ tprov' = [tprov EXCEPT ![t] = Serves[w]]
                   /\ idleTimers' = [idleTimers EXCEPT ![Serves[w]] = t]
        BY <4>2 DEF TypeOK
      <4> QED
        BY <3>1, <4>1, <4>2 DEF StartIdleTimer
    <3>2. CASE UNCHANGED timerVars
      BY <3>2 DEF TypeOK
    <3> QED
      BY <2>1, <3>1, <3>2 DEF Finish, CountDown
  <2> QED
    BY <2>1, <2>3, <2>4, <2>5 DEF TypeOK, Finish, CountDown
<1>14. CASE \E w \in Workers : Ungate(w)
  BY <1>14 DEF TypeOK, Ungate
<1>15. CASE \E g \in Groups : QuietPeriodEnds(g)
  BY <1>15 DEF TypeOK, QuietPeriodEnds
<1>16. CASE \E t \in Timers : TimerFires(t)
  BY <1>16 DEF TypeOK, TimerFires
<1>17. CASE \E t \in Timers : IgnoreIdle(t) \/ FireIdle(t)
  BY <1>17 DEF TypeOK, IgnoreIdle, FireIdle
<1>18. CASE \E t \in Timers : LockIdle(t) \/ Idled(t)
  <2>1. PICK t \in Timers : LockIdle(t) \/ Idled(t)
    BY <1>18
  <2>2. tprov[t] \in Providers
    BY <2>1 DEF MutexHeld, LockIdle, IdleLocks, Idled
  <2>3. CASE LockIdle(t)
    BY <2>2, <2>3 DEF TypeOK, LockIdle, IdleLocks
  <2>4. CASE Idled(t)
    <3>1. loaded' \in [Providers -> BOOLEAN]
      BY <2>4 DEF TypeOK, Idled
    <3>2. lifecycleMu' \in [Providers -> Workers \cup Timers \cup {None}]
      BY <2>4 DEF TypeOK, Idled
    <3> QED
      BY <2>4, <3>1, <3>2 DEF TypeOK, Idled
  <2> QED
    BY <2>1, <2>3, <2>4
<1>19. CASE UNCHANGED vars
  BY <1>19 DEF TypeOK, vars
<1> QED
  BY <1>1, <1>2, <1>3, <1>4, <1>5, <1>6, <1>7, <1>8, <1>9, <1>10, <1>11, <1>12,
     <1>13, <1>14, <1>15, <1>16, <1>17, <1>18, <1>19
     DEF Next, Work, Unload, PollResource, Quiescent

-----------------------------------------------------------------------------
(* A step in which no worker moves, or a worker moves within Running and   *)
(* within Holding or within their complements, disturbs neither count.     *)

Inert ==
  /\ UNCHANGED <<active, activeProvider, activeJobs>>
  /\ \A w \in Workers : /\ wpc'[w] \in Running <=> wpc[w] \in Running
                        /\ wpc'[w] \in Holding <=> wpc[w] \in Holding

LEMMA InertKeepsCounts ==
  ASSUME ActiveCounts, GroupExclusive, Inert
  PROVE  ActiveCounts' /\ GroupExclusive'
<1>1. \A p \in Providers : Busy(p)' = Busy(p)
  BY DEF Inert, Busy, Crew
<1>2. \A g \in Groups : Holders(g)' = Holders(g)
  BY DEF Inert, Holders, Members
<1>3. ActiveCounts'
  BY <1>1 DEF ActiveCounts, Inert
<1>4. GroupExclusive'
  BY <1>2 DEF GroupExclusive, Inert
<1> QED
  BY <1>3, <1>4

\* The steps that are inert: all but taking and giving back a resource, and
\* starting and finishing a job.
LEMMA InertSteps ==
  ASSUME TypeOK, [Next]_vars
  PROVE  Inert \/ \E w \in Workers : \/ AcquireResource(w) \/ ReleaseResource(w)
                                     \/ Pop(w) \/ Finish(w)
<1> USE DEF Goto, Running, Holding, Inert, jobVars, workerVars, timerVars, groupVars,
    TypeOK
<1>1. CASE \E j \in Jobs : Submit(j) \/ Broadcast(j)
  BY <1>1 DEF Submit, Broadcast, Wake
<1>2. CASE \E w \in Workers : CheckQueue(w) \/ FindNothing(w)
  BY <1>2 DEF CheckQueue, FindNothing
<1>3. CASE \E w \in Workers : RunGate(w) \/ ReadWarm(w) \/ LockLifecycle(w)
  BY <1>3 DEF RunGate, ReadWarm, LockLifecycle
<1>4. CASE \E w \in Workers : Warmed(w) \/ SetWarm(w) \/ Ungate(w)
  BY <1>4 DEF Warmed, SetWarm, Ungate
<1>5. CASE \E g \in Groups : QuietPeriodEnds(g)
  BY <1>5 DEF QuietPeriodEnds
<1>6. CASE \E t \in Timers : TimerFires(t) \/ Unload(t)
  BY <1>6 DEF TimerFires, Unload, IgnoreIdle, FireIdle, LockIdle, IdleLocks, Idled
<1>7. CASE UNCHANGED vars
  BY <1>7 DEF vars
<1> QED
  BY <1>1, <1>2, <1>3, <1>4, <1>5, <1>6, <1>7
     DEF Next, Work, PollResource, Quiescent

-----------------------------------------------------------------------------
(* m.active *)

\* The effect of one worker's move on the count of its provider.
LEMMA ActiveAfterMove ==
  ASSUME ActiveCounts, NEW w \in Workers, NEW label,
         \A v \in Workers : wpc'[v] = IF v = w THEN label ELSE wpc[v],
         \A p \in Providers : active'[p] =
           IF Serves[w] # p THEN active[p]
           ELSE IF wpc[w] \notin Running /\ label \in Running THEN active[p] + 1
           ELSE IF wpc[w] \in Running /\ label \notin Running THEN active[p] - 1
           ELSE active[p]
  PROVE  ActiveCounts'
<1>1. ASSUME NEW p \in Providers
      PROVE  active'[p] = Cardinality(Within(Crew(p), wpc', Running))
  <2>1. active[p] = Cardinality(Within(Crew(p), wpc, Running))
    BY DEF ActiveCounts, Busy, Within
  <2>2. Crew(p) \in SUBSET Workers /\ (w \in Crew(p) <=> Serves[w] = p)
    BY DEF Crew
  <2> QED
    BY <2>1, <2>2, CountAfterMove
<1> QED
  BY <1>1 DEF ActiveCounts, Busy, Crew, Within

LEMMA ActiveStep ==
  ASSUME TypeOK, ActiveCounts, NEW w \in Workers,
         AcquireResource(w) \/ ReleaseResource(w) \/ Pop(w) \/ Finish(w)
  PROVE  ActiveCounts'
<1> USE DEF Goto, Running, Holding
<1>1. PICK label :
        /\ wpc' = [wpc EXCEPT ![w] = label]
        /\ \/ AcquireResource(w) /\ label = "pop"
           \/ ReleaseResource(w) /\ label = "check"
           \/ Pop(w) /\ label = "gate"
           \/ Finish(w) /\ label = "ungate"
  BY DEF AcquireResource, HandOff, ReleaseResource, Pop, CountUp, TakeHead, Finish, CountDown
<1>2. \A v \in Workers : wpc'[v] = IF v = w THEN label ELSE wpc[v]
  BY <1>1 DEF TypeOK
<1>3. \/ active' = active /\ wpc[w] \notin Running /\ label \notin Running
      \/ /\ active' = [active EXCEPT ![Serves[w]] = @ + 1]
         /\ wpc[w] \notin Running /\ label \in Running
      \/ /\ active' = [active EXCEPT ![Serves[w]] = @ - 1]
         /\ wpc[w] \in Running /\ label \notin Running
  BY <1>1 DEF AcquireResource, HandOff, ReleaseResource, Pop, CountUp, TakeHead, Finish, CountDown
<1>4. \A p \in Providers : active'[p] =
        IF Serves[w] # p THEN active[p]
        ELSE IF wpc[w] \notin Running /\ label \in Running THEN active[p] + 1
        ELSE IF wpc[w] \in Running /\ label \notin Running THEN active[p] - 1
        ELSE active[p]
  BY <1>3, WiringAssumption DEF TypeOK
<1> QED
  BY <1>2, <1>4, ActiveAfterMove

-----------------------------------------------------------------------------
(* Config.ResourceGroups *)

\* The effect of one worker's move on the holders of its group's resource.
LEMMA HoldersAfterMove ==
  ASSUME NEW w \in Workers, NEW label, NEW g \in Groups,
         \A v \in Workers : wpc'[v] = IF v = w THEN label ELSE wpc[v]
  PROVE  /\ Group[Serves[w]] = g /\ wpc[w] \notin Holding /\ label \in Holding =>
              Cardinality(Holders(g)') = Cardinality(Holders(g)) + 1
         /\ Group[Serves[w]] = g /\ wpc[w] \in Holding /\ label \notin Holding =>
              Cardinality(Holders(g)') = Cardinality(Holders(g)) - 1
         /\ Group[Serves[w]] # g \/ (wpc[w] \in Holding <=> label \in Holding) =>
              Cardinality(Holders(g)') = Cardinality(Holders(g))
<1>1. /\ Holders(g) = Within(Members(g), wpc, Holding)
      /\ Holders(g)' = Within(Members(g), wpc', Holding)
  BY DEF Holders, Members, Within
<1>2. Members(g) \in SUBSET Workers /\ (w \in Members(g) <=> Group[Serves[w]] = g)
  BY DEF Members
<1>3. LET S == Within(Members(g), wpc, Holding)
          T == Within(Members(g), wpc', Holding)
      IN /\ w \in Members(g) /\ wpc[w] \notin Holding /\ label \in Holding =>
              Cardinality(T) = Cardinality(S) + 1
         /\ w \in Members(g) /\ wpc[w] \in Holding /\ label \notin Holding =>
              Cardinality(T) = Cardinality(S) - 1
         /\ w \notin Members(g) \/ (wpc[w] \in Holding <=> label \in Holding) =>
              Cardinality(T) = Cardinality(S)
  BY <1>2, CountAfterMove
<1> QED
  BY <1>1, <1>2, <1>3

LEMMA AcquireStep ==
  ASSUME TypeOK, GroupExclusive, NEW w \in Workers, AcquireResource(w)
  PROVE  GroupExclusive'
<1> DEFINE p == Serves[w]
<1>1. /\ \A v \in Workers : wpc'[v] = IF v = w THEN "pop" ELSE wpc[v]
      /\ wpc[w] = "resource" /\ "resource" \notin Holding /\ "pop" \in Holding
  BY DEF AcquireResource, HandOff, Goto, TypeOK, Holding, Running
<1>2. ASSUME NEW g \in Groups
      PROVE  /\ \A v \in Holders(g)' : activeProvider'[g] = Serves[v]
             /\ activeJobs'[g] = Cardinality(Holders(g)')
  <2>1. /\ \A v \in Holders(g) : activeProvider[g] = Serves[v]
        /\ activeJobs[g] = Cardinality(Holders(g))
    BY DEF GroupExclusive
  <2>2. \A v \in Holders(g)' : v \in Holders(g) \/ (v = w /\ Group[p] = g)
    BY <1>1 DEF Holders, Members
  <2>3. CASE Group[p] # g
    <3>1. activeProvider'[g] = activeProvider[g] /\ activeJobs'[g] = activeJobs[g]
      BY <2>3 DEF AcquireResource, HandOff, groupVars, TypeOK
    <3>2. Cardinality(Holders(g)') = Cardinality(Holders(g))
      BY <1>1, <2>3, HoldersAfterMove
    <3> QED
      BY <2>1, <2>2, <2>3, <3>1, <3>2
  <2>4. CASE Group[p] = g
    <3>1. g # None
      BY NamesAssumption
    <3>2. /\ activeProvider' = [activeProvider EXCEPT ![g] = p]
          /\ activeJobs' = [activeJobs EXCEPT ![g] = @ + 1]
          /\ Available(g, p)
      BY <2>4, <3>1 DEF AcquireResource, HandOff
    <3>3. activeProvider'[g] = p /\ activeJobs'[g] = activeJobs[g] + 1
      BY <3>2 DEF TypeOK
    <3>4. Cardinality(Holders(g)') = Cardinality(Holders(g)) + 1
      BY <1>1, <2>4, HoldersAfterMove
    <3>5. IsFiniteSet(Holders(g))
      BY FiniteAssumption, FS_Subset, Holders(g) \subseteq Workers DEF Holders, Members
    <3>6. activeProvider[g] # p => Holders(g) = {}
      <4>1. CASE activeProvider[g] = None
        BY <2>1, <4>1, NamesAssumption, WiringAssumption DEF Holders, Members
      <4>2. CASE activeProvider[g] \notin {p, None}
        BY <2>1, <3>2, <3>5, <4>2, FS_EmptySet DEF Available
      <4> QED
        BY <4>1, <4>2
    <3>7. \A v \in Holders(g) : Serves[v] = p
      BY <2>1, <3>6
    <3> QED
      BY <2>1, <2>2, <3>3, <3>4, <3>7
  <2> QED
    BY <2>3, <2>4
<1> QED
  BY <1>2 DEF GroupExclusive

LEMMA ReleaseStep ==
  ASSUME TypeOK, GroupExclusive, NEW w \in Workers, ReleaseResource(w)
  PROVE  GroupExclusive'
<1>1. /\ \A v \in Workers : wpc'[v] = IF v = w THEN "check" ELSE wpc[v]
      /\ wpc[w] \in Holding /\ "check" \notin Holding
  BY DEF ReleaseResource, Goto, TypeOK, Holding, Running
<1>2. ASSUME NEW g \in Groups
      PROVE  /\ \A v \in Holders(g)' : activeProvider'[g] = Serves[v]
             /\ activeJobs'[g] = Cardinality(Holders(g)')
  <2>1. /\ \A v \in Holders(g) : activeProvider[g] = Serves[v]
        /\ activeJobs[g] = Cardinality(Holders(g))
        /\ activeJobs[g] \in Nat
    BY DEF GroupExclusive, TypeOK
  <2>2. activeProvider' = activeProvider /\ \A v \in Holders(g)' : v \in Holders(g)
    BY <1>1 DEF Holders, Members, ReleaseResource
  <2>3. CASE Group[Serves[w]] # g
    <3>1. activeJobs'[g] = activeJobs[g]
      BY <2>3 DEF ReleaseResource, TypeOK
    <3>2. Cardinality(Holders(g)') = Cardinality(Holders(g))
      BY <1>1, <2>3, HoldersAfterMove
    <3> QED
      BY <2>1, <2>2, <3>1, <3>2
  <2>4. CASE Group[Serves[w]] = g
    <3>1. w \in Holders(g) /\ g # None
      BY <1>1, <2>4, NamesAssumption DEF Holders, Members
    <3>2. IsFiniteSet(Holders(g))
      BY FiniteAssumption, FS_Subset, Holders(g) \subseteq Workers DEF Holders, Members
    <3>3. activeProvider[g] = Serves[w] /\ activeJobs[g] > 0
      BY <2>1, <3>1, <3>2, FS_EmptySet
    <3>4. activeJobs'[g] = activeJobs[g] - 1
      BY <2>4, <3>1, <3>3 DEF ReleaseResource, TypeOK
    <3>5. Cardinality(Holders(g)') = Cardinality(Holders(g)) - 1
      BY <1>1, <2>4, HoldersAfterMove
    <3> QED
      BY <2>1, <2>2, <3>4, <3>5
  <2> QED
    BY <2>3, <2>4
<1> QED
  BY <1>2 DEF GroupExclusive

\* A job starts and ends with the resource held.
LEMMA JobKeepsResource ==
  ASSUME TypeOK, GroupExclusive, NEW w \in Workers, Pop(w) \/ Finish(w)
  PROVE  GroupExclusive'
<1>1. \A v \in Workers : wpc'[v] \in Holding <=> wpc[v] \in Holding
  BY DEF Pop, CountUp, TakeHead, Finish, CountDown, Goto, TypeOK, Holding, Running
<1>2. \A g \in Groups : Holders(g)' = Holders(g)
  BY <1>1 DEF Holders, Members
<1>3. UNCHANGED <<activeProvider, activeJobs>>
  BY DEF Pop, CountUp, TakeHead, Finish, CountDown, groupVars
<1> QED
  BY <1>2, <1>3 DEF GroupExclusive

-----------------------------------------------------------------------------
(* lifecycleMu *)

LEMMA MutexStep ==
  ASSUME TypeOK, MutexHeld, [Next]_vars
  PROVE  MutexHeld'
<1> USE NamesAssumption, WiringAssumption DEF Goto, MutexHeld, TypeOK, jobVars,
    workerVars, timerVars, groupVars
<1>1. CASE \E j \in Jobs : Submit(j) \/ Broadcast(j)
  BY <1>1 DEF Submit, CancelIdleTimer, Broadcast, Wake
<1>2. CASE \E w \in Workers : CheckQueue(w) \/ FindNothing(w) \/ Pop(w)
  BY <1>2 DEF CheckQueue, FindNothing, Pop, CountUp, TakeHead
<1>3. CASE \E w \in Workers : AcquireResource(w) \/ ReleaseResource(w)
  BY <1>3 DEF AcquireResource, HandOff, ReleaseResource
<1>4. CASE \E w \in Workers : RunGate(w) \/ ReadWarm(w) \/ SetWarm(w) \/ Ungate(w)
  BY <1>4 DEF RunGate, ReadWarm, SetWarm, Ungate
<1>5. CASE \E w \in Workers : LockLifecycle(w)
  <2>1. PICK w \in Workers : LockLifecycle(w)
    BY <1>5
  <2>2. lifecycleMu[Serves[w]] = None
    BY <2>1 DEF LockLifecycle
  <2>3. CASE warm[Serves[w]]
    BY <2>1, <2>3 DEF LockLifecycle
  <2>4. CASE ~ warm[Serves[w]]
    <3>1. /\ lifecycleMu' = [lifecycleMu EXCEPT ![Serves[w]] = w]
          /\ wpc' = [wpc EXCEPT ![w] = "warming"] /\ UNCHANGED <<tstate, tprov>>
      BY <2>1, <2>4 DEF LockLifecycle
    <3> QED
      BY <2>2, <3>1
  <2> QED
    BY <2>3, <2>4
<1>6. CASE \E w \in Workers : Warmed(w)
  BY <1>6 DEF Warmed
<1>7. CASE \E w \in Workers : Finish(w)
  BY <1>7 DEF Finish, CountDown, StartIdleTimer
<1>8. CASE \E g \in Groups : QuietPeriodEnds(g)
  BY <1>8 DEF QuietPeriodEnds
<1>9. CASE \E t \in Timers : TimerFires(t) \/ IgnoreIdle(t) \/ FireIdle(t)
  BY <1>9 DEF TimerFires, IgnoreIdle, FireIdle
<1>10. CASE \E t \in Timers : LockIdle(t)
  BY <1>10 DEF LockIdle, IdleLocks
<1>11. CASE \E t \in Timers : Idled(t)
  BY <1>11 DEF Idled
<1>12. CASE UNCHANGED vars
  BY <1>12 DEF vars
<1> QED
  BY <1>1, <1>2, <1>3, <1>4, <1>5, <1>6, <1>7, <1>8, <1>9, <1>10, <1>11, <1>12
     DEF Next, Work, Unload, PollResource, Quiescent

-----------------------------------------------------------------------------
(* The idle timers *)

LEMMA TimerStep ==
  ASSUME TypeOK, ActiveCounts, TimerOnlyWhenIdle, [Next]_vars
  PROVE  TimerOnlyWhenIdle'
<1> USE NamesAssumption, WiringAssumption DEF TimerOnlyWhenIdle, TypeOK, jobVars,
    workerVars, timerVars, groupVars
<1>1. CASE \E j \in Jobs : Submit(j) \/ Broadcast(j)
  BY <1>1 DEF Submit, CancelIdleTimer, Broadcast, Wake
<1>2. CASE \E w \in Workers : CheckQueue(w) \/ FindNothing(w)
  BY <1>2 DEF CheckQueue, FindNothing
<1>3. CASE \E w \in Workers : AcquireResource(w) \/ ReleaseResource(w)
  BY <1>3 DEF AcquireResource, HandOff, ReleaseResource
<1>4. CASE \E w \in Workers : Pop(w)
  BY <1>4 DEF Pop, CountUp, TakeHead
<1>5. CASE \E w \in Workers : RunGate(w) \/ ReadWarm(w) \/ SetWarm(w) \/ Ungate(w)
  BY <1>5 DEF RunGate, ReadWarm, SetWarm, Ungate
<1>6. CASE \E w \in Workers : LockLifecycle(w) \/ Warmed(w)
  BY <1>6 DEF LockLifecycle, Warmed
<1>7. CASE \E w \in Workers : Finish(w)
  <2>1. PICK w \in Workers : Finish(w)
    BY <1>7
  <2>2. active[Serves[w]] \in Nat \ {0}
    BY <2>1, ActivePositive DEF Finish, CountDown, Running
  <2>3. active' = [active EXCEPT ![Serves[w]] = @ - 1] /\ queue' = queue
    BY <2>1 DEF Finish, CountDown
  <2>4. CASE UNCHANGED timerVars
    BY <2>2, <2>3, <2>4
  <2>5. CASE /\ active[Serves[w]] = 1 /\ queue[Serves[w]] = <<>>
             /\ StartIdleTimer(Serves[w])
    BY <2>2, <2>3, <2>5 DEF StartIdleTimer
  <2> QED
    BY <2>1, <2>4, <2>5 DEF Finish, CountDown
<1>8. CASE \E g \in Groups : QuietPeriodEnds(g)
  BY <1>8 DEF QuietPeriodEnds
<1>9. CASE \E t \in Timers : TimerFires(t) \/ Unload(t)
  BY <1>9 DEF TimerFires, Unload, IgnoreIdle, FireIdle, LockIdle, IdleLocks, Idled
<1>10. CASE UNCHANGED vars
  BY <1>10 DEF vars
<1> QED
  BY <1>1, <1>2, <1>3, <1>4, <1>5, <1>6, <1>7, <1>8, <1>9, <1>10
     DEF Next, Work, PollResource, Quiescent

-----------------------------------------------------------------------------
(* Warm providers are watched *)

LEMMA OwnerStep ==
  ASSUME TypeOK, TimersOwned, [Next]_vars
  PROVE  TimersOwned'
<1> USE NamesAssumption, WiringAssumption DEF TimersOwned, TypeOK, timerVars
<1>1. CASE UNCHANGED <<idleTimers, tprov>>
  BY <1>1
<1>2. CASE \E j \in Jobs : Submit(j)
  BY <1>2 DEF Submit, CancelIdleTimer
<1>3. CASE \E w \in Workers : Finish(w)
  <2>1. PICK w \in Workers : Finish(w)
    BY <1>3
  <2>2. CASE UNCHANGED timerVars
    BY <2>2
  <2>3. CASE StartIdleTimer(Serves[w]) /\ ~ UNCHANGED timerVars
    <3>1. PICK t \in Timers :
            /\ \A q \in Providers : idleTimers[q] # t
            /\ tprov' = [tprov EXCEPT ![t] = Serves[w]]
            /\ idleTimers' = [idleTimers EXCEPT ![Serves[w]] = t]
      BY <2>3 DEF StartIdleTimer
    <3> QED
      BY <3>1
  <2> QED
    BY <2>1, <2>2, <2>3 DEF Finish, CountDown
<1>4. CASE \E t \in Timers : FireIdle(t)
  BY <1>4 DEF FireIdle
<1>5. UNCHANGED <<idleTimers, tprov>> \/ (\E j \in Jobs : Submit(j))
      \/ (\E w \in Workers : Finish(w)) \/ (\E t \in Timers : FireIdle(t))
  BY DEF Next, Work, Unload, Quiescent, Broadcast, CheckQueue, AcquireResource,
     PollResource, FindNothing, Pop, ReleaseResource, RunGate, ReadWarm, LockLifecycle,
     Warmed, SetWarm, Ungate, QuietPeriodEnds, TimerFires, IgnoreIdle, LockIdle, Idled, vars
<1> QED
  BY <1>1, <1>2, <1>3, <1>4, <1>5

\* A provider that may be unloaded, and a timer that will look at it.
IdleWarm(p) == warm[p] /\ active[p] = 0 /\ queue[p] = <<>>
Watches(t, p) == tprov[t] = p /\ tstate[t] \in {"armed", "fired"}

\* The step makes no provider idle and warm, and frees no timer that watches one.
KeepsWatch ==
  \A p \in IdleUnload : IdleWarm(p)' =>
    IdleWarm(p) /\ \A t \in Timers : Watches(t, p) => Watches(t, p)'

LEMMA StillWatched ==
  ASSUME IdleWarmHasTimer, KeepsWatch
  PROVE  IdleWarmHasTimer'
  BY WiringAssumption DEF IdleWarmHasTimer, KeepsWatch, IdleWarm, Watches

LEMMA WatchStep ==
  ASSUME TypeOK, MutexHeld, ActiveCounts, TimerOnlyWhenIdle, TimersOwned,
         IdleWarmHasTimer, [Next]_vars
  PROVE  IdleWarmHasTimer'
<1> USE NamesAssumption, WiringAssumption DEF jobVars, workerVars, timerVars
<1>1. CASE \E j \in Jobs : Submit(j)
  <2>1. PICK j \in Jobs : Submit(j)
    BY <1>1
  <2>2. UNCHANGED <<warm, active, tprov>> /\ For[j] \in Providers
    BY <2>1 DEF Submit, CancelIdleTimer
  <2>3. \A p \in Providers : p # For[j] => queue'[p] = queue[p]
    BY <2>1 DEF TypeOK, Submit, CancelIdleTimer
  <2>4. queue'[For[j]] # <<>>
    <3>1. queue[For[j]] \in Seq(Jobs)
      BY <2>2 DEF TypeOK
    <3>2. queue'[For[j]] = Append(queue[For[j]], j)
      BY <2>1, <2>2 DEF TypeOK, Submit, CancelIdleTimer
    <3>3. Len(queue'[For[j]]) = Len(queue[For[j]]) + 1 /\ Len(queue[For[j]]) \in Nat
      BY <3>1, <3>2
    <3> QED
      BY <3>3
  <2>5. \A t \in Timers : tprov[t] # For[j] => tstate'[t] = tstate[t]
    BY <2>1 DEF TypeOK, Submit, CancelIdleTimer, TimersOwned
  <2> QED
    BY <2>2, <2>3, <2>4, <2>5, StillWatched DEF KeepsWatch, IdleWarm, Watches
<1>2. CASE \E j \in Jobs : Broadcast(j)
  BY <1>2, StillWatched DEF KeepsWatch, IdleWarm, Watches, Broadcast
<1>3. CASE \E w \in Workers : \/ CheckQueue(w) \/ FindNothing(w) \/ ReleaseResource(w)
                              \/ RunGate(w) \/ ReadWarm(w) \/ LockLifecycle(w)
                              \/ Warmed(w) \/ Ungate(w)
  BY <1>3, StillWatched DEF KeepsWatch, IdleWarm, Watches, CheckQueue, FindNothing, ReleaseResource, RunGate, ReadWarm,
     LockLifecycle, Warmed, Ungate
<1>4. CASE \E w \in Workers : AcquireResource(w)
  <2>1. PICK w \in Workers : AcquireResource(w)
    BY <1>4
  <2>2. UNCHANGED <<active, queue, tstate, tprov>>
    BY <2>1 DEF AcquireResource
  <2>3. \A p \in Providers : warm'[p] => warm[p]
    <3>1. \/ warm' = warm
          \/ \E q \in Providers :
               warm' = [warm EXCEPT ![q] = FALSE, ![Serves[w]] = FALSE]
      BY <2>1 DEF TypeOK, AcquireResource, HandOff
    <3> QED
      BY <3>1 DEF TypeOK
  <2> QED
    BY <2>2, <2>3, StillWatched DEF KeepsWatch, IdleWarm, Watches
<1>5. CASE \E w \in Workers : Pop(w)
  <2>1. PICK w \in Workers : Pop(w)
    BY <1>5
  <2>2. /\ active'[Serves[w]] # 0 /\ UNCHANGED <<warm, tstate, tprov>>
        /\ \A p \in Providers : p # Serves[w] =>
             active'[p] = active[p] /\ queue'[p] = queue[p]
    BY <2>1 DEF TypeOK, Pop, CountUp, TakeHead
  <2> QED
    BY <2>2, StillWatched DEF KeepsWatch, IdleWarm, Watches
<1>6. CASE \E w \in Workers : SetWarm(w)
  <2>1. PICK w \in Workers : SetWarm(w)
    BY <1>6
  <2>2. active[Serves[w]] # 0
    BY <2>1, ActivePositive DEF SetWarm, Running
  <2>3. /\ UNCHANGED <<active, queue, tstate, tprov>>
        /\ \A p \in Providers : p # Serves[w] => warm'[p] = warm[p]
    BY <2>1 DEF TypeOK, SetWarm
  <2> QED
    BY <2>2, <2>3, StillWatched DEF KeepsWatch, IdleWarm, Watches
<1>7. CASE \E w \in Workers : Finish(w)
  <2>1. PICK w \in Workers : Finish(w)
    BY <1>7
  <2>2. active[Serves[w]] \in Nat \ {0}
    BY <2>1, ActivePositive DEF Finish, CountDown, Running
  <2>3. /\ UNCHANGED <<queue, warm>> /\ active'[Serves[w]] = active[Serves[w]] - 1
        /\ \A p \in Providers : p # Serves[w] => active'[p] = active[p]
    BY <2>1 DEF TypeOK, Finish, CountDown
  <2>4. CASE ~ (active[Serves[w]] = 1 /\ queue[Serves[w]] = <<>>)
    <3>1. UNCHANGED timerVars
      BY <2>1, <2>4 DEF Finish, CountDown
    <3>2. ~ (active'[Serves[w]] = 0 /\ queue'[Serves[w]] = <<>>)
      BY <2>2, <2>3, <2>4
    <3> QED
      BY <2>3, <3>1, <3>2, StillWatched DEF KeepsWatch, IdleWarm, Watches
  <2>5. CASE active[Serves[w]] = 1 /\ queue[Serves[w]] = <<>>
    <3>1. StartIdleTimer(Serves[w]) /\ idleTimers[Serves[w]] = None
      BY <2>1, <2>5 DEF Finish, CountDown, TimerOnlyWhenIdle
    <3>2. CASE Serves[w] \in IdleUnload /\ warm[Serves[w]]
      <4>1. PICK t \in Timers :
              /\ tstate[t] = "free"
              /\ tstate' = [tstate EXCEPT ![t] = "armed"]
              /\ tprov' = [tprov EXCEPT ![t] = Serves[w]]
        BY <3>1, <3>2 DEF StartIdleTimer
      <4>2. tprov'[t] = Serves[w] /\ tstate'[t] = "armed"
        BY <4>1 DEF TypeOK
      <4>3. \A u \in Timers : u # t => tprov'[u] = tprov[u] /\ tstate'[u] = tstate[u]
        BY <4>1 DEF TypeOK
      <4> QED
        BY <2>3, <4>1, <4>2, <4>3 DEF IdleWarmHasTimer
    <3>3. CASE ~ (Serves[w] \in IdleUnload /\ warm[Serves[w]])
      <4>1. UNCHANGED timerVars
        BY <3>1, <3>3 DEF StartIdleTimer
      <4> QED
        BY <2>3, <3>3, <4>1, StillWatched DEF KeepsWatch, IdleWarm, Watches
    <3> QED
      BY <3>2, <3>3
  <2> QED
    BY <2>4, <2>5
<1>8. CASE \E g \in Groups : QuietPeriodEnds(g)
  BY <1>8, StillWatched DEF KeepsWatch, IdleWarm, Watches, QuietPeriodEnds
<1>9. CASE \E t \in Timers : TimerFires(t)
  <2>1. PICK t \in Timers : TimerFires(t)
    BY <1>9
  <2>2. /\ UNCHANGED <<warm, active, queue, tprov>>
        /\ \A u \in Timers : u # t => tstate'[u] = tstate[u]
        /\ tstate'[t] = "fired"
    BY <2>1 DEF TypeOK, TimerFires
  <2> QED
    BY <2>2, StillWatched DEF KeepsWatch, IdleWarm, Watches
<1>10. CASE \E t \in Timers : IgnoreIdle(t)
  <2>1. PICK t \in Timers : IgnoreIdle(t)
    BY <1>10
  <2>2. /\ UNCHANGED <<warm, active, queue, tprov>> /\ InUse(tprov[t])
        /\ \A u \in Timers : u # t => tstate'[u] = tstate[u]
    BY <2>1 DEF TypeOK, IgnoreIdle
  <2> QED
    BY <2>2, StillWatched DEF KeepsWatch, IdleWarm, Watches, InUse
<1>11. CASE \E t \in Timers : FireIdle(t)
  <2>1. PICK t \in Timers : FireIdle(t)
    BY <1>11
  <2>2. tprov[t] \in Providers
    BY <2>1 DEF TypeOK, FireIdle, MutexHeld
  <2>3. /\ UNCHANGED <<active, queue, tprov>> /\ ~ warm'[tprov[t]]
        /\ \A p \in Providers : p # tprov[t] => warm'[p] = warm[p]
        /\ \A u \in Timers : u # t => tstate'[u] = tstate[u]
    BY <2>1, <2>2 DEF TypeOK, FireIdle
  <2> QED
    BY <2>3, StillWatched DEF KeepsWatch, IdleWarm, Watches
<1>12. CASE \E t \in Timers : LockIdle(t) \/ Idled(t)
  <2>1. PICK t \in Timers : LockIdle(t) \/ Idled(t)
    BY <1>12
  <2>2. /\ UNCHANGED <<warm, active, queue, tprov>>
        /\ tstate[t] \notin {"armed", "fired"}
        /\ \A u \in Timers : u # t => tstate'[u] = tstate[u]
    BY <2>1 DEF TypeOK, LockIdle, IdleLocks, Idled
  <2> QED
    BY <2>2, StillWatched DEF KeepsWatch, IdleWarm, Watches
<1>13. CASE UNCHANGED vars
  BY <1>13, StillWatched DEF KeepsWatch, IdleWarm, Watches, vars
<1> QED
  BY <1>1, <1>2, <1>3, <1>4, <1>5, <1>6, <1>7, <1>8, <1>9, <1>10, <1>11, <1>12, <1>13
     DEF Next, Work, Unload, PollResource, Quiescent

-----------------------------------------------------------------------------
(* Where a job is *)

LEMMA Appended ==
  ASSUME NEW q \in Seq(Jobs), NEW j \in Jobs
  PROVE  /\ Len(q) \in Nat /\ Len(Append(q, j)) = Len(q) + 1
         /\ \A i \in 1..Len(q) : Append(q, j)[i] = q[i]
         /\ Append(q, j)[Len(q) + 1] = j
  OBVIOUS

LEMMA Taken ==
  ASSUME NEW q \in Seq(Jobs), q # <<>>
  PROVE  /\ Len(q) \in Nat \ {0} /\ Len(Tail(q)) = Len(q) - 1
         /\ Head(q) = q[1] /\ q[1] \in Jobs
         /\ \A i \in 1..(Len(q) - 1) : Tail(q)[i] = q[i + 1]
  OBVIOUS

LEMMA SubmitPlaces ==
  ASSUME TypeOK, Queued, Held, NEW j \in Jobs, Submit(j)
  PROVE  Queued' /\ Held'
<1> DEFINE q == queue[For[j]]
<1>1. /\ For[j] \in Providers /\ q \in Seq(Jobs) /\ status[j] = "new"
      /\ queue' = [queue EXCEPT ![For[j]] = Append(q, j)]
      /\ status' = [status EXCEPT ![j] = "queued"] /\ UNCHANGED <<job, wpc>>
  BY WiringAssumption DEF TypeOK, Submit, CancelIdleTimer, workerVars
<1>2. /\ queue'[For[j]] = Append(q, j)
      /\ \A p \in Providers : p # For[j] => queue'[p] = queue[p]
      /\ status'[j] = "queued" /\ \A k \in Jobs : k # j => status'[k] = status[k]
  BY <1>1 DEF TypeOK
<1>3. /\ Len(q) \in Nat /\ Len(queue'[For[j]]) = Len(q) + 1
      /\ \A i \in 1..Len(q) : queue'[For[j]][i] = q[i]
      /\ queue'[For[j]][Len(q) + 1] = j
  BY <1>1, <1>2, Appended
<1>4. \A p \in Providers : \A i \in 1..Len(queue[p]) : queue[p][i] \in Jobs /\ queue[p][i] # j
  BY <1>1 DEF TypeOK, Queued
<1>5. \A i \in 1..Len(queue'[For[j]]) : i \in 1..Len(q) \/ i = Len(q) + 1
  BY <1>3
<1>6. \A p \in Providers : \A i \in 1..Len(queue'[p]) :
        status'[queue'[p][i]] = "queued" /\ For[queue'[p][i]] = p
  BY <1>1, <1>2, <1>3, <1>4, <1>5 DEF Queued
<1>7. \A p \in Providers : \A i, k \in 1..Len(queue'[p]) : queue'[p][i] = queue'[p][k] => i = k
  BY <1>1, <1>2, <1>3, <1>4, <1>5 DEF Queued
<1>8. ASSUME NEW k \in Jobs, status'[k] = "queued"
      PROVE  \E i \in 1..Len(queue'[For[k]]) : queue'[For[k]][i] = k
  <2>1. CASE k = j
    <3>1. Len(q) + 1 \in 1..Len(queue'[For[j]])
      BY <1>3
    <3> QED
      BY <1>3, <2>1, <3>1
  <2>2. CASE k # j
    <3>1. PICK i \in 1..Len(queue[For[k]]) : queue[For[k]][i] = k
      BY <1>2, <1>8, <2>2 DEF Queued
    <3>2. CASE For[k] = For[j]
      <4>1. i \in 1..Len(queue'[For[k]])
        BY <1>3, <3>2
      <4> QED
        BY <1>3, <3>1, <3>2, <4>1
    <3>3. CASE For[k] # For[j]
      BY <1>2, <3>1, <3>3, WiringAssumption
    <3> QED
      BY <3>2, <3>3
  <2> QED
    BY <2>1, <2>2
<1>9. Held'
  <2>1. \A w \in Workers : job[w] # NoJob => job[w] \in Jobs /\ job[w] # j
    BY <1>1 DEF TypeOK, Held
  <2> QED
    BY <1>1, <1>2, <2>1 DEF Held
<1> QED
  BY <1>6, <1>7, <1>8, <1>9 DEF Queued

LEMMA PopPlaces ==
  ASSUME TypeOK, Queued, Held, NEW w \in Workers, Pop(w)
  PROVE  Queued' /\ Held'
<1> DEFINE p == Serves[w]
           q == queue[p]
           j == Head(q)
<1>1. p \in Providers /\ q \in Seq(Jobs) /\ q # <<>> /\ wpc[w] = "pop"
  BY WiringAssumption DEF TypeOK, Pop
<1>2. /\ Len(q) \in Nat \ {0} /\ Len(Tail(q)) = Len(q) - 1 /\ j = q[1] /\ j \in Jobs
      /\ \A i \in 1..(Len(q) - 1) : Tail(q)[i] = q[i + 1]
  BY <1>1, Taken
<1>3. /\ queue'[p] = Tail(q)
      /\ \A r \in Providers : r # p => queue'[r] = queue[r]
      /\ status'[j] = "running" /\ \A k \in Jobs : k # j => status'[k] = status[k]
      /\ job'[w] = j /\ \A v \in Workers : v # w => job'[v] = job[v] /\ wpc'[v] = wpc[v]
      /\ wpc'[w] = "gate"
  BY <1>1, <1>2 DEF TypeOK, Pop, TakeHead, Goto
<1>4. status[j] = "queued" /\ For[j] = p
  <2>1. 1 \in 1..Len(q)
    BY <1>2
  <2> QED
    BY <1>1, <1>2, <2>1 DEF Queued
<1>5. \A r \in Providers : \A i \in 1..Len(queue[r]) : queue[r][i] \in Jobs
  BY DEF TypeOK
<1>6. \A i \in 1..Len(queue'[p]) :
        /\ i + 1 \in 1..Len(q) /\ i + 1 # 1 /\ queue'[p][i] = q[i + 1]
        /\ queue'[p][i] \in Jobs /\ queue'[p][i] # j
  <2> SUFFICES ASSUME NEW i \in 1..Len(queue'[p])
               PROVE  /\ i + 1 \in 1..Len(q) /\ i + 1 # 1 /\ queue'[p][i] = q[i + 1]
                      /\ queue'[p][i] \in Jobs /\ queue'[p][i] # j
    OBVIOUS
  <2>1. i + 1 \in 1..Len(q) /\ 1 \in 1..Len(q) /\ i + 1 # 1 /\ i \in 1..(Len(q) - 1)
    BY <1>2, <1>3
  <2>2. queue'[p][i] = q[i + 1]
    BY <1>2, <1>3, <2>1
  <2>3. q[i + 1] # q[1]
    BY <1>1, <2>1 DEF Queued
  <2> QED
    BY <1>1, <1>2, <1>5, <2>1, <2>2, <2>3
<1>7. \A r \in Providers : \A i \in 1..Len(queue'[r]) :
        status'[queue'[r][i]] = "queued" /\ For[queue'[r][i]] = r
  <2> SUFFICES ASSUME NEW r \in Providers, NEW i \in 1..Len(queue'[r])
               PROVE  status'[queue'[r][i]] = "queued" /\ For[queue'[r][i]] = r
    OBVIOUS
  <2>1. CASE r = p
    <3>1. status[q[i + 1]] = "queued" /\ For[q[i + 1]] = p
      BY <1>1, <1>6, <2>1 DEF Queued
    <3> QED
      BY <1>3, <1>6, <2>1, <3>1
  <2>2. CASE r # p
    <3>1. /\ queue'[r] = queue[r] /\ queue[r][i] \in Jobs
          /\ status[queue[r][i]] = "queued" /\ For[queue[r][i]] = r
      BY <1>3, <1>5, <2>2 DEF Queued
    <3> QED
      BY <1>3, <1>4, <2>2, <3>1
  <2> QED
    BY <2>1, <2>2
<1>8. \A r \in Providers : \A i, k \in 1..Len(queue'[r]) : queue'[r][i] = queue'[r][k] => i = k
  <2> SUFFICES ASSUME NEW r \in Providers, NEW i \in 1..Len(queue'[r]),
                      NEW k \in 1..Len(queue'[r]), queue'[r][i] = queue'[r][k]
               PROVE  i = k
    OBVIOUS
  <2>1. CASE r = p
    <3>1. /\ i + 1 \in 1..Len(q) /\ k + 1 \in 1..Len(q)
          /\ q[i + 1] = q[k + 1]
      BY <1>6, <2>1
    <3>2. \A m, n \in 1..Len(q) : q[m] = q[n] => m = n
      BY <1>1 DEF Queued
    <3>3. i + 1 = k + 1
      BY <3>1, <3>2
    <3>4. Len(queue'[r]) \in Nat
      BY <1>2, <1>3, <2>1
    <3> QED
      BY <3>3, <3>4
  <2>2. CASE r # p
    BY <1>3, <2>2 DEF Queued
  <2> QED
    BY <2>1, <2>2
<1>9. ASSUME NEW k \in Jobs, status'[k] = "queued"
      PROVE  \E i \in 1..Len(queue'[For[k]]) : queue'[For[k]][i] = k
  <2>1. k # j /\ status[k] = "queued"
    BY <1>3, <1>9
  <2>2. PICK i \in 1..Len(queue[For[k]]) : queue[For[k]][i] = k
    BY <2>1 DEF Queued
  <2>3. CASE For[k] = p
    <3>1. i # 1 /\ i \in 1..Len(q)
      BY <1>2, <2>1, <2>2, <2>3
    <3>2. i - 1 \in 1..(Len(q) - 1) /\ (i - 1) + 1 = i
      BY <1>2, <3>1
    <3>3. queue'[p][i - 1] = q[i] /\ i - 1 \in 1..Len(queue'[p])
      BY <1>2, <1>3, <3>2
    <3> QED
      BY <2>2, <2>3, <3>3
  <2>4. CASE For[k] # p
    BY <1>3, <2>2, <2>4, WiringAssumption
  <2> QED
    BY <2>3, <2>4
<1>10. Held'
  <2>1. \A v \in Workers : job[v] # j /\ (job[v] # NoJob => job[v] \in Jobs)
    BY <1>2, <1>4, NamesAssumption DEF TypeOK, Held
  <2>2. job[w] = NoJob /\ j # NoJob
    BY <1>1, <1>2, NamesAssumption DEF Held, Running
  <2>3. \A v \in Workers : (job'[v] # NoJob <=> wpc'[v] \in Running)
    BY <1>3, <2>2 DEF Held, Running
  <2>4. \A v \in Workers : job'[v] # NoJob =>
          status'[job'[v]] = "running" /\ For[job'[v]] = Serves[v]
    BY <1>3, <1>4, <2>1 DEF Held
  <2>5. \A u, v \in Workers : job'[u] = job'[v] /\ job'[u] # NoJob => u = v
    BY <1>3, <2>1 DEF Held
  <2>6. \A k \in Jobs : status'[k] = "running" => \E v \in Workers : job'[v] = k
    BY <1>3, <2>2, NamesAssumption DEF Held
  <2> QED
    BY <2>3, <2>4, <2>5, <2>6 DEF Held
<1> QED
  BY <1>7, <1>8, <1>9, <1>10 DEF Queued

LEMMA FinishPlaces ==
  ASSUME TypeOK, Queued, Held, NEW w \in Workers, Finish(w)
  PROVE  Queued' /\ Held'
<1>1. job[w] # NoJob /\ job[w] \in Jobs /\ status[job[w]] = "running"
  BY DEF TypeOK, Held, Finish, Running
<1>2. PICK s \in {"succeeded", "failed"} : status' = [status EXCEPT ![job[w]] = s]
  BY DEF Finish
<1>3. /\ status'[job[w]] \notin {"queued", "running"}
      /\ \A k \in Jobs : k # job[w] => status'[k] = status[k]
      /\ job'[w] = NoJob /\ \A v \in Workers : v # w => job'[v] = job[v] /\ wpc'[v] = wpc[v]
      /\ wpc'[w] = "ungate" /\ queue' = queue
  BY <1>1, <1>2 DEF TypeOK, Finish, Goto
<1>4. \A p \in Providers : \A i \in 1..Len(queue[p]) : queue[p][i] \in Jobs
  BY DEF TypeOK
<1>5. Queued'
  BY <1>1, <1>3, <1>4 DEF Queued
<1>6. \A v \in Workers : job[v] # NoJob => job[v] \in Jobs
  BY DEF TypeOK
<1>7. Held'
  BY <1>1, <1>3, <1>6, NamesAssumption DEF Held, Running
<1> QED
  BY <1>5, <1>7

LEMMA PlacesStep ==
  ASSUME TypeOK, Queued, Held, [Next]_vars
  PROVE  Queued' /\ Held'
<1>1. CASE \E j \in Jobs : Submit(j)
  BY <1>1, SubmitPlaces
<1>2. CASE \E w \in Workers : Pop(w) \/ Finish(w)
  BY <1>2, PopPlaces, FinishPlaces
<1>3. CASE UNCHANGED <<status, queue, job>> /\ \A w \in Workers : wpc'[w] \in Running <=> wpc[w] \in Running
  BY <1>3 DEF Queued, Held
<1>4. \/ \E j \in Jobs : Submit(j)
      \/ \E w \in Workers : Pop(w) \/ Finish(w)
      \/ UNCHANGED <<status, queue, job>>
  BY DEF Next, Work, Unload, Quiescent, Broadcast, CheckQueue, AcquireResource,
     PollResource, FindNothing, ReleaseResource, RunGate, ReadWarm, LockLifecycle,
     Warmed, SetWarm, Ungate, QuietPeriodEnds, TimerFires, IgnoreIdle, FireIdle, LockIdle,
     Idled, vars, jobVars, workerVars
<1>5. ASSUME NEW w \in Workers, AcquireResource(w) \/ ReleaseResource(w)
      PROVE  \A v \in Workers : wpc'[v] \in Running <=> wpc[v] \in Running
  BY <1>5 DEF AcquireResource, ReleaseResource, Goto, Running, TypeOK
<1> QED
  BY <1>1, <1>2, <1>3, <1>4, <1>5, InertSteps DEF Inert

-----------------------------------------------------------------------------
(* The theorems *)

(* Every reachable state satisfies the inductive invariant: the queue's
   counters, timers and mutexes stay consistent (queue.go, Manager). *)
THEOREM InductiveInvariant == Spec => []IInv
<1>1. Init => IInv
  BY InitIInv
<1>2. IInv /\ [Next]_vars => IInv'
  <2> SUFFICES ASSUME IInv, [Next]_vars PROVE IInv'
    OBVIOUS
  <2>1. TypeOK' /\ MutexHeld' /\ TimerOnlyWhenIdle' /\ TimersOwned' /\ IdleWarmHasTimer'
    BY TypeStep, MutexStep, TimerStep, OwnerStep, WatchStep DEF IInv
  <2>2. ActiveCounts' /\ GroupExclusive'
    BY InertSteps, InertKeepsCounts, ActiveStep, AcquireStep, ReleaseStep,
       JobKeepsResource DEF IInv
  <2>3. Queued' /\ Held'
    BY PlacesStep DEF IInv
  <2> QED
    BY <2>1, <2>2, <2>3 DEF IInv
<1> QED
  BY <1>1, <1>2, PTL DEF Spec

(* Every variable of the queue keeps its type: no counter goes below zero, no worker
   has a job that is not one. *)
THEOREM TypeCorrect == Spec => []TypeOK
<1>1. IInv => TypeOK
  BY DEF IInv
<1> QED
  BY <1>1, InductiveInvariant, PTL

(* m.active is the number of workers inside run, through gate errors and failed
   warm-ups as well; the types of the whole state hold with it. *)
THEOREM QueueTypesAndCounts == Spec => [](TypeOK /\ ActiveCounts)
<1>1. IInv => TypeOK /\ ActiveCounts
  BY DEF IInv
<1> QED
  BY <1>1, InductiveInvariant, PTL

(* No order of submissions, pops and failures loses a job or runs it twice: it is in
   its provider's queue once, or with one worker of its provider, or finished. *)
THEOREM JobsAreAccounted == Spec => []JobsAccounted
<1>1. IInv => JobsAccounted
  <2> SUFFICES ASSUME IInv, NEW j \in Jobs
               PROVE  /\ Cardinality(Occurrences(j)) = IF status[j] = "queued" THEN 1 ELSE 0
                      /\ Cardinality(Runners(j)) = IF status[j] = "running" THEN 1 ELSE 0
                      /\ \A w \in Runners(j) : Serves[w] = For[j] /\ wpc[w] \in Running
    BY DEF JobsAccounted
  <2> USE NamesAssumption, WiringAssumption
  <2>1. j # NoJob /\ For[j] \in Providers
    OBVIOUS
  <2>2. CASE status[j] = "queued"
    <3>1. PICK i \in 1..Len(queue[For[j]]) : queue[For[j]][i] = j
      BY <2>2 DEF IInv, Queued
    <3>2. Occurrences(j) = {i}
      BY <2>1, <3>1 DEF IInv, Queued, Occurrences
    <3>3. Runners(j) = {}
      BY <2>1, <2>2 DEF IInv, Held, Runners
    <3> QED
      BY <2>2, <3>2, <3>3, FS_Singleton, FS_EmptySet
  <2>3. CASE status[j] # "queued"
    <3>1. Occurrences(j) = {}
      BY <2>1, <2>3 DEF IInv, Queued, Occurrences
    <3>2. CASE status[j] = "running"
      <4>1. PICK w \in Workers : job[w] = j
        BY <3>2 DEF IInv, Held
      <4>2. Runners(j) = {w}
        BY <2>1, <4>1 DEF IInv, Held, Runners
      <4>3. Serves[w] = For[j] /\ wpc[w] \in Running
        BY <2>1, <4>1 DEF IInv, Held
      <4> QED
        BY <2>3, <3>1, <3>2, <4>2, <4>3, FS_Singleton, FS_EmptySet
    <3>3. CASE status[j] # "running"
      BY <2>1, <2>3, <3>1, <3>3, FS_EmptySet, Runners(j) = {} DEF IInv, Held, Runners
    <3> QED
      BY <3>2, <3>3
  <2> QED
    BY <2>2, <2>3
<1> QED
  BY <1>1, InductiveInvariant, PTL

(* Jobs of one resource group never run concurrently across providers. *)
THEOREM GroupsAreExclusive == Spec => []GroupExclusive
<1>1. IInv => GroupExclusive
  BY DEF IInv
<1> QED
  BY <1>1, InductiveInvariant, PTL

(* idleTimers refers to a timer only while its provider has nothing to do. *)
THEOREM TimersOnlyWhenIdle == Spec => []TimerOnlyWhenIdle
<1>1. IInv => TimerOnlyWhenIdle
  BY DEF IInv
<1> QED
  BY <1>1, InductiveInvariant, PTL

(* Every idle warm provider with an unload delay has a timer that will look at
   it, none is referenced while there is work, and no Idle meets a Warm. *)
THEOREM WarmProvidersAreWatched == Spec => []WarmthIsWatched
<1>1. IInv => WarmthIsWatched
  BY NamesAssumption DEF IInv, MutexHeld, WarmExcludesIdle, WarmthIsWatched
<1> QED
  BY <1>1, InductiveInvariant, PTL

(* Idle never runs concurrently with Warm of the same provider. *)
THEOREM WarmAndIdleExclude == Spec => []WarmExcludesIdle
<1>1. IInv => WarmExcludesIdle
  BY NamesAssumption DEF IInv, MutexHeld, WarmExcludesIdle
<1> QED
  BY <1>1, InductiveInvariant, PTL

-----------------------------------------------------------------------------
(* Models are loaded before they are used *)

\* Only the provider that has its group's resource is warm; timers are for providers
\* with an unload delay; without one, what is believed to be loaded is.
Loads ==
  /\ \A p \in Providers : warm[p] /\ Group[p] # None => activeProvider[Group[p]] = p
  /\ \A t \in Timers : tstate[t] # "free" => tprov[t] \in IdleUnload
  /\ \A p \in Providers \ IdleUnload : warm[p] => loaded[p]
  /\ \A w \in Workers : wpc[w] = "setWarm" /\ Serves[w] \notin IdleUnload => loaded[Serves[w]]

LEMMA InitLoads == Init => Loads
  BY WiringAssumption DEF Init, Loads

\* What a step does that touches none of it.
LEMMA LoadsStay ==
  ASSUME Loads, UNCHANGED <<warm, tstate, tprov, activeProvider, loaded>>,
         \A w \in Workers : wpc'[w] = "setWarm" => wpc[w] = "setWarm"
  PROVE  Loads'
  BY DEF Loads

LEMMA TimersLoads ==
  ASSUME Loads, TypeOK, UNCHANGED <<activeProvider, wpc>>,
         \A p \in Providers : warm'[p] => warm[p],
         \A p \in Providers \ IdleUnload : loaded'[p] = loaded[p],
         \A t \in Timers : tstate'[t] # "free" => tprov'[t] \in IdleUnload
  PROVE  Loads'
  BY WiringAssumption DEF Loads

LEMMA AcquireLoads ==
  ASSUME IInv, Loads, NEW w \in Workers, AcquireResource(w)
  PROVE  Loads'
<1> DEFINE p == Serves[w]
           g == Group[p]
<1>1. p \in Providers /\ g \in Groups \cup {None}
  BY WiringAssumption
<1>2. /\ \A v \in Workers : wpc'[v] = "setWarm" => wpc[v] = "setWarm"
      /\ UNCHANGED <<tstate, tprov, loaded>> /\ TypeOK
  BY DEF AcquireResource, Goto, timerVars, IInv, TypeOK
<1>3. CASE g = None /\ UNCHANGED <<groupVars, warm>>
  BY <1>2, <1>3, LoadsStay DEF groupVars
<1>4. CASE g # None /\ HandOff(g, p) /\ activeProvider' = [activeProvider EXCEPT ![g] = p]
  <2>1. activeProvider'[g] = p /\ \A h \in Groups : h # g => activeProvider'[h] = activeProvider[h]
    BY <1>1, <1>2, <1>4 DEF TypeOK
  <2>2. \A q \in Providers : warm'[q] => warm[q] /\ (Group[q] = g => q = p)
    <3> SUFFICES ASSUME NEW q \in Providers, warm'[q] PROVE warm[q] /\ (Group[q] = g => q = p)
      OBVIOUS
    <3>1. Group[q] = g /\ warm[q] => activeProvider[g] = q
      BY <1>4 DEF Loads
    <3>2. CASE activeProvider[g] \in {p, None}
      <4>1. warm' = warm
        BY <1>4, <3>2 DEF HandOff
      <4> QED
        BY <1>1, <1>4, <3>1, <3>2, <4>1, NamesAssumption
    <3>3. CASE activeProvider[g] \notin {p, None}
      <4>1. warm' = [warm EXCEPT ![activeProvider[g]] = FALSE, ![p] = FALSE]
        BY <1>4, <3>3 DEF HandOff
      <4>2. activeProvider[g] \in Providers
        BY <1>1, <1>2, <1>4, <3>3 DEF TypeOK
      <4>3. q # activeProvider[g] /\ q # p /\ warm[q]
        BY <1>1, <1>2, <4>1, <4>2 DEF TypeOK
      <4> QED
        BY <3>1, <4>3
    <3> QED
      BY <3>2, <3>3
  <2>3. \A q \in Providers : Group[q] # None => Group[q] \in Groups
    BY WiringAssumption
  <2> QED
    BY <1>2, <2>1, <2>2, <2>3 DEF Loads
<1> QED
  BY <1>3, <1>4 DEF AcquireResource

\* Whoever is inside run has the resource of its group.
LEMMA InsideHolds ==
  ASSUME IInv, NEW w \in Workers, wpc[w] \in Running, Group[Serves[w]] # None
  PROVE  activeProvider[Group[Serves[w]]] = Serves[w]
<1>1. Group[Serves[w]] \in Groups
  BY WiringAssumption
<1>2. w \in Holders(Group[Serves[w]])
  BY DEF Holders, Members, Holding
<1> QED
  BY <1>1, <1>2 DEF IInv, GroupExclusive

LEMMA WarmedLoads ==
  ASSUME IInv, Loads, NEW w \in Workers, Warmed(w)
  PROVE  Loads'
<1> DEFINE p == Serves[w]
<1>1. p \in Providers /\ wpc[w] = "warming" /\ TypeOK
  BY WiringAssumption DEF Warmed, IInv
<1>2. UNCHANGED <<warm, tstate, tprov, activeProvider>>
  BY DEF Warmed, timerVars, groupVars
<1>3. CASE Goto(w, "failing") /\ UNCHANGED loaded
  BY <1>1, <1>2, <1>3, LoadsStay DEF Goto, TypeOK
<1>4. CASE Goto(w, "setWarm")
           /\ loaded' = [q \in Providers |->
                           \/ q = p
                           \/ loaded[q] /\ (Group[p] = None \/ Group[q] # Group[p])]
  <2>1. loaded'[p] /\ \A q \in Providers :
          loaded[q] /\ (Group[p] = None \/ Group[q] # Group[p]) => loaded'[q]
    BY <1>1, <1>4
  <2>2. Group[p] # None => activeProvider[Group[p]] = p
    BY <1>1, InsideHolds DEF Running
  <2>3. ASSUME NEW q \in Providers \ IdleUnload, warm'[q] PROVE loaded'[q]
    <3>1. warm[q] /\ loaded[q] /\ (Group[q] # None => activeProvider[Group[q]] = q)
      BY <1>2, <2>3 DEF Loads
    <3> QED
      BY <2>1, <2>2, <3>1
  <2>4. ASSUME NEW v \in Workers, wpc'[v] = "setWarm", Serves[v] \notin IdleUnload
        PROVE  loaded'[Serves[v]]
    <3>1. CASE Serves[v] = p
      BY <2>1, <3>1
    <3>2. CASE Serves[v] # p
      <4>1. v # w /\ wpc[v] = "setWarm"
        BY <1>1, <1>4, <2>4, <3>2 DEF Goto, TypeOK
      <4>2. loaded[Serves[v]] /\ Serves[v] \in Providers
        BY <2>4, <4>1, WiringAssumption DEF Loads
      <4>3. Group[Serves[v]] # None => activeProvider[Group[Serves[v]]] = Serves[v]
        BY <4>1, InsideHolds DEF Running
      <4> QED
        BY <2>1, <2>2, <3>2, <4>2, <4>3
    <3> QED
      BY <3>1, <3>2
  <2> QED
    BY <1>2, <2>3, <2>4 DEF Loads
<1> QED
  BY <1>3, <1>4 DEF Warmed

LEMMA SetWarmLoads ==
  ASSUME IInv, Loads, NEW w \in Workers, SetWarm(w)
  PROVE  Loads'
<1>1. Serves[w] \in Providers /\ wpc[w] = "setWarm" /\ TypeOK
  BY WiringAssumption DEF SetWarm, IInv
<1>2. /\ UNCHANGED <<tstate, tprov, activeProvider, loaded>>
      /\ \A v \in Workers : wpc'[v] = "setWarm" => wpc[v] = "setWarm"
      /\ \A q \in Providers : q # Serves[w] => warm'[q] = warm[q]
  BY <1>1 DEF SetWarm, timerVars, groupVars, Goto, TypeOK
<1>3. Group[Serves[w]] # None => activeProvider[Group[Serves[w]]] = Serves[w]
  BY <1>1, InsideHolds DEF Running
<1> QED
  BY <1>1, <1>2, <1>3 DEF Loads

LEMMA FinishLoads ==
  ASSUME IInv, Loads, NEW w \in Workers, Finish(w)
  PROVE  Loads'
<1> DEFINE p == Serves[w]
<1>1. p \in Providers /\ TypeOK
  BY WiringAssumption DEF IInv
<1>2. /\ UNCHANGED <<warm, activeProvider, loaded>>
      /\ \A v \in Workers : wpc'[v] = "setWarm" => wpc[v] = "setWarm"
  BY <1>1 DEF Finish, groupVars, Goto, TypeOK
<1>3. \A t \in Timers : tstate'[t] # "free" => tprov'[t] \in IdleUnload
  <2>1. CASE UNCHANGED timerVars
    BY <2>1 DEF timerVars, Loads
  <2>2. ASSUME p \in IdleUnload, NEW t \in Timers,
               tstate' = [tstate EXCEPT ![t] = "armed"], tprov' = [tprov EXCEPT ![t] = p]
        PROVE  \A s \in Timers : tstate'[s] # "free" => tprov'[s] \in IdleUnload
    BY <1>1, <2>2 DEF TypeOK, Loads
  <2> QED
    BY <2>1, <2>2 DEF Finish, StartIdleTimer
<1> QED
  BY <1>2, <1>3 DEF Loads

LEMMA NextLoads == IInv /\ Loads /\ [Next]_vars => Loads'
<1> SUFFICES ASSUME IInv, Loads, [Next]_vars PROVE Loads'
  OBVIOUS
<1>0. TypeOK
  BY DEF IInv
<1>1. ASSUME NEW j \in Jobs, Submit(j) PROVE Loads'
  <2>1. /\ UNCHANGED <<warm, activeProvider, loaded, wpc, tprov>>
        /\ \A t \in Timers : tstate'[t] # "free" => tstate[t] # "free"
    BY <1>0, <1>1 DEF Submit, CancelIdleTimer, workerVars, groupVars, TypeOK
  <2>2. \A t \in Timers : tstate'[t] # "free" => tprov'[t] \in IdleUnload
    BY <2>1 DEF Loads
  <2> QED
    BY <1>0, <2>1, <2>2, TimersLoads
<1>2. ASSUME NEW j \in Jobs, Broadcast(j) PROVE Loads'
  <2>1. \A w \in Workers : wpc'[w] = "setWarm" => wpc[w] = "setWarm"
    BY <1>2 DEF Broadcast, Wake
  <2> QED
    BY <1>2, <2>1, LoadsStay DEF Broadcast, timerVars, groupVars
<1>3. ASSUME NEW w \in Workers, Work(w) PROVE Loads'
  <2>1. CASE \/ CheckQueue(w) \/ FindNothing(w) \/ Pop(w) \/ ReleaseResource(w) \/ RunGate(w)
             \/ ReadWarm(w) \/ LockLifecycle(w) \/ Ungate(w)
    <3>1. UNCHANGED <<warm, tstate, tprov, activeProvider, loaded>>
      BY <2>1 DEF CheckQueue, FindNothing, Pop, ReleaseResource, RunGate, ReadWarm,
         LockLifecycle, Ungate, timerVars, groupVars
    <3>2. \E label \in Holding \cup {"parked", "resource", "check"} :
            label # "setWarm" /\ Goto(w, label)
      <4>1. \E label \in {"parked", "resource", "lost", "gate", "check", "needWarm", "failing",
                          "lock", "synth", "warming", "done"} : Goto(w, label)
        BY <2>1 DEF CheckQueue, FindNothing, Pop, ReleaseResource, RunGate, ReadWarm,
           LockLifecycle, Ungate
      <4> QED
        BY <4>1 DEF Holding, Running
    <3>3. \A v \in Workers : wpc'[v] = "setWarm" => wpc[v] = "setWarm"
      BY <1>0, <3>2 DEF Goto, TypeOK
    <3> QED
      BY <3>1, <3>3, LoadsStay
  <2>2. CASE PollResource(w)
    BY <2>2, LoadsStay DEF PollResource, vars, timerVars, groupVars, workerVars
  <2> QED
    BY <1>3, <2>1, <2>2, AcquireLoads, WarmedLoads, SetWarmLoads, FinishLoads DEF Work
<1>4. ASSUME NEW g \in Groups, QuietPeriodEnds(g) PROVE Loads'
  BY <1>4, LoadsStay DEF QuietPeriodEnds, timerVars, workerVars
<1>5. ASSUME NEW t \in Timers, TimerFires(t) \/ Unload(t) PROVE Loads'
  <2>1. tstate[t] # "free"
    BY <1>5 DEF TimerFires, Unload, IgnoreIdle, FireIdle, LockIdle, Idled
  <2>2. tprov[t] \in IdleUnload
    BY <2>1 DEF Loads
  <2>3. UNCHANGED <<activeProvider, wpc, tprov>>
    BY <1>5 DEF TimerFires, Unload, IgnoreIdle, FireIdle, LockIdle, Idled, groupVars, workerVars
  <2>4. \A p \in Providers : warm'[p] => warm[p]
    BY <1>0, <1>5 DEF TimerFires, Unload, IgnoreIdle, FireIdle, LockIdle, Idled, TypeOK
  <2>5. \A p \in Providers \ IdleUnload : loaded'[p] = loaded[p]
    BY <1>0, <1>5, <2>2 DEF TimerFires, Unload, IgnoreIdle, FireIdle, LockIdle, Idled, TypeOK
  <2>6. \A s \in Timers : s # t => tstate'[s] = tstate[s]
    BY <1>0, <1>5 DEF TimerFires, Unload, IgnoreIdle, FireIdle, LockIdle, Idled, TypeOK
  <2>7. \A s \in Timers : tstate'[s] # "free" => tprov'[s] \in IdleUnload
    BY <2>2, <2>3, <2>6 DEF Loads
  <2> QED
    BY <1>0, <2>3, <2>4, <2>5, <2>7, TimersLoads
<1>6. CASE UNCHANGED vars
  BY <1>6, LoadsStay DEF vars, timerVars, groupVars, workerVars
<1> QED
  BY <1>1, <1>2, <1>3, <1>4, <1>5, <1>6 DEF Next, Quiescent

\* A worker goes on to its job with a model that is believed to be loaded.
LEMMA DispatchStep ==
  ASSUME IInv, Loads, [Next]_vars, NEW w \in Workers, wpc[w] # "synth", wpc'[w] = "synth",
         Serves[w] \in Managed \ IdleUnload
  PROVE  loaded'[Serves[w]]
<1> DEFINE p == Serves[w]
<1>1. p \in Providers /\ TypeOK
  BY WiringAssumption DEF IInv
<1>2. ReadWarm(w) \/ LockLifecycle(w) \/ SetWarm(w)
  <2>1. ASSUME NEW v \in Workers, Work(v) PROVE v = w
    <3>1. ASSUME v # w PROVE wpc'[w] = wpc[w]
      BY <1>1, <2>1, <3>1 DEF Work, CheckQueue, AcquireResource, PollResource, FindNothing, Pop,
         ReleaseResource, RunGate, ReadWarm, LockLifecycle, Warmed, SetWarm, Finish, Ungate,
         Goto, TypeOK, vars, workerVars
    <3> QED
      BY <3>1
  <2>2. ASSUME NEW j \in Jobs, Submit(j) \/ Broadcast(j) PROVE FALSE
    BY <1>1, <2>2 DEF Submit, Broadcast, Wake, workerVars
  <2>3. UNCHANGED wpc => FALSE
    OBVIOUS
  <2>4. ASSUME NEW g \in Groups, QuietPeriodEnds(g) PROVE FALSE
    BY <2>3, <2>4 DEF QuietPeriodEnds, workerVars
  <2>5. ASSUME NEW t \in Timers, TimerFires(t) \/ Unload(t) PROVE FALSE
    BY <2>3, <2>5 DEF TimerFires, Unload, IgnoreIdle, FireIdle, LockIdle, Idled, workerVars
  <2>6. ~ UNCHANGED vars
    BY <2>3 DEF vars, workerVars
  <2>7. Work(w)
    BY <2>1, <2>2, <2>4, <2>5, <2>6 DEF Next, Quiescent
  <2>8. ASSUME NEW label, Goto(w, label) PROVE label = "synth"
    BY <1>1, <2>8 DEF Goto, TypeOK
  <2> QED
    BY <2>3, <2>7, <2>8 DEF Work, CheckQueue, AcquireResource, PollResource, FindNothing, Pop,
       ReleaseResource, RunGate, Warmed, Finish, Ungate, vars, workerVars
<1>3. ASSUME warm[p], UNCHANGED loaded PROVE loaded'[p]
  BY <1>1, <1>3 DEF Loads
<1>4. CASE ReadWarm(w)
  <2>1. warm[p] \/ Goto(w, "lock")
    BY <1>4 DEF ReadWarm
  <2>2. ~ Goto(w, "lock")
    BY <1>1 DEF Goto, TypeOK
  <2> QED
    BY <1>3, <1>4, <2>1, <2>2 DEF ReadWarm
<1>5. CASE LockLifecycle(w)
  <2>1. warm[p] \/ Goto(w, "warming")
    BY <1>5 DEF LockLifecycle
  <2>2. ~ Goto(w, "warming")
    BY <1>1 DEF Goto, TypeOK
  <2> QED
    BY <1>3, <1>5, <2>1, <2>2 DEF LockLifecycle
<1>6. CASE SetWarm(w)
  BY <1>6 DEF SetWarm, Loads
<1> QED
  BY <1>2, <1>4, <1>5, <1>6

\* Whatever the other providers of its group do in between, and however many workers
\* it has, a provider without an unload delay is given a job only when its model is
\* loaded (dequeue, acquireResource, run and warm together).
DispatchedToKept ==
  [][\A w \in Workers :
       wpc[w] # "synth" /\ wpc'[w] = "synth" /\ Serves[w] \in Managed \ IdleUnload
         => loaded'[Serves[w]]]_vars

\* Warm comes before the first job of a cold provider, and groups do not get in its way.
THEOREM KeptBeforeDispatch == Spec => DispatchedToKept
<1>1. IInv /\ Loads /\ [Next]_vars =>
        [\A w \in Workers :
           wpc[w] # "synth" /\ wpc'[w] = "synth" /\ Serves[w] \in Managed \ IdleUnload
             => loaded'[Serves[w]]]_vars
  BY DispatchStep
<1>2. Spec => []Loads
  BY InductiveInvariant, InitLoads, NextLoads, PTL DEF Spec
<1> QED
  BY <1>1, <1>2, InductiveInvariant, PTL DEF Spec, DispatchedToKept

\* So where no provider with a Lifecycle unloads on its own, every job meets a loaded
\* model.  With an unload delay it does not: an Idle that is under way overtakes a
\* worker between Warm and its job.
THEOREM LoadedBeforeDispatch ==
  ASSUME Managed \cap IdleUnload = {}
  PROVE  Spec => DispatchedToLoaded
<1>1. IInv /\ Loads /\ [Next]_vars =>
        [\A w \in Workers :
           wpc[w] # "synth" /\ wpc'[w] = "synth" /\ Serves[w] \in Managed
             => loaded'[Serves[w]]]_vars
  BY DispatchStep
<1>2. Spec => []Loads
  BY InductiveInvariant, InitLoads, NextLoads, PTL DEF Spec
<1> QED
  BY <1>1, <1>2, InductiveInvariant, PTL DEF Spec, DispatchedToLoaded

=============================================================================
