------------------------------ MODULE JobQueue ------------------------------
(***************************************************************************)
(* queue.Manager's scheduler (internal/queue/queue.go): one FIFO queue and *)
(* one pool of workers per provider, exclusive resource groups, the run    *)
(* gate, and the warm-up and idle-unload of providers that implement       *)
(* provider.Lifecycle.                                                     *)
(*                                                                         *)
(* Every section the code runs under m.mu is one action.  Between two of   *)
(* them anything may happen: other workers, submissions, timer callbacks.  *)
(* A timer is armed, fires (its goroutine exists but has not got m.mu),    *)
(* then may go on to wait for lifecycleMu and call Idle.  Delays are not   *)
(* measured: an armed timer may fire at any time until it is stopped.      *)
(***************************************************************************)
EXTENDS Naturals, Sequences, FiniteSets

CONSTANTS
  Providers, Workers, Jobs, Groups, Timers,
  NoJob, None,
  Serves,       \* the provider of a worker
  For,          \* the provider a job is submitted to
  Managed,      \* providers that implement provider.Lifecycle
  IdleUnload,   \* providers with an idle-unload delay
  Gated,        \* providers for which the run gate takes the GPU lease
  Group,        \* Config.ResourceGroups; None for a provider in no group
  SwitchDelay   \* groups with a ResourceSwitchDelay

ASSUME NamesAssumption ==
  /\ NoJob \notin Jobs
  /\ None \notin Providers \cup Workers \cup Timers \cup Groups
  /\ Workers \cap Timers = {}
ASSUME WiringAssumption ==
  /\ Serves \in [Workers -> Providers] /\ For \in [Jobs -> Providers]
  /\ Managed \subseteq Providers /\ IdleUnload \subseteq Providers
  /\ Gated \subseteq Providers
  /\ Group \in [Providers -> Groups \cup {None}] /\ SwitchDelay \subseteq Groups
ASSUME FiniteAssumption == IsFiniteSet(Workers)

VARIABLES
  status, queue, silent,       \* jobs; silent ones have no Broadcast yet
  wpc, job,                    \* the workers
  active, warm,                \* m.active, m.warm
  idleTimers, tstate, tprov,   \* m.idleTimers and the timers themselves
  lifecycleMu,                 \* its holder: a worker or a timer's callback
  activeProvider, activeJobs,  \* m.resources
  quiet,                       \* groups past their switch delay
  gate,                        \* the worker that holds the GPU lease
  loaded                       \* which sidecars have their model loaded

jobVars    == <<status, queue, silent>>
workerVars == <<wpc, job>>
timerVars  == <<idleTimers, tstate, tprov>>
groupVars  == <<activeProvider, activeJobs, quiet>>
vars == <<jobVars, workerVars, active, warm, timerVars, lifecycleMu, groupVars,
          gate, loaded>>

\* Where a worker runs a job, and where it holds its provider's resource.
Running == {"gate", "needWarm", "lock", "warming", "setWarm", "synth", "failing"}
Holding == Running \cup {"pop", "lost", "ungate", "done"}

TypeOK ==
  /\ status \in [Jobs -> {"new", "queued", "running", "succeeded", "failed"}]
  /\ queue \in [Providers -> Seq(Jobs)]
  /\ silent \subseteq Jobs
  /\ wpc \in [Workers -> {"check", "parked", "resource"} \cup Holding]
  /\ job \in [Workers -> Jobs \cup {NoJob}]
  /\ active \in [Providers -> Nat]
  /\ warm \in [Providers -> BOOLEAN] /\ loaded \in [Providers -> BOOLEAN]
  /\ idleTimers \in [Providers -> Timers \cup {None}]
  /\ tstate \in [Timers -> {"free", "armed", "fired", "idling", "unloading"}]
  /\ tprov \in [Timers -> Providers \cup {None}]
  /\ lifecycleMu \in [Providers -> Workers \cup Timers \cup {None}]
  /\ activeProvider \in [Groups -> Providers \cup {None}]
  /\ activeJobs \in [Groups -> Nat] /\ quiet \subseteq Groups
  /\ gate \in Workers \cup {None}

Init ==
  /\ status = [j \in Jobs |-> "new"]
  /\ queue = [p \in Providers |-> <<>>] /\ silent = {}
  /\ wpc = [w \in Workers |-> "check"] /\ job = [w \in Workers |-> NoJob]
  /\ active = [p \in Providers |-> 0]
  /\ warm = [p \in Providers |-> FALSE] /\ loaded = [p \in Providers |-> FALSE]
  /\ idleTimers = [p \in Providers |-> None]
  /\ tstate = [t \in Timers |-> "free"] /\ tprov = [t \in Timers |-> None]
  /\ lifecycleMu = [p \in Providers |-> None]
  /\ activeProvider = [g \in Groups |-> None]
  /\ activeJobs = [g \in Groups |-> 0] /\ quiet = {}
  /\ gate = None

Goto(w, label) == wpc' = [wpc EXCEPT ![w] = label]

-----------------------------------------------------------------------------
(* Submit and SubmitStream *)

\* Slips.  The cancelled timer is not stopped; it stays in idleTimers.
CancelNothing(p) == UNCHANGED timerVars
CancelWithoutClearing(p) ==
  /\ tstate' = [t \in Timers |-> IF t = idleTimers[p] /\ tstate[t] = "armed"
                                 THEN "free" ELSE tstate[t]]
  /\ UNCHANGED <<idleTimers, tprov>>

\* Timer.Stop wins against an armed timer and loses against a fired one.
CancelIdleTimer(p) ==
  /\ idleTimers' = [idleTimers EXCEPT ![p] = None]
  /\ tstate' = [t \in Timers |-> IF t = idleTimers[p] /\ tstate[t] = "armed"
                                 THEN "free" ELSE tstate[t]]
  /\ UNCHANGED tprov

Submit(j) ==
  /\ status[j] = "new"
  /\ status' = [status EXCEPT ![j] = "queued"]
  /\ queue' = [queue EXCEPT ![For[j]] = Append(@, j)]
  /\ silent' = silent \cup {j}
  /\ CancelIdleTimer(For[j])
  /\ UNCHANGED <<workerVars, active, warm, lifecycleMu, groupVars, gate, loaded>>

WakeNobody(p) == UNCHANGED wpc   \* slip
Wake(p) ==
  wpc' = [w \in Workers |-> IF Serves[w] = p /\ wpc[w] = "parked" THEN "check"
                            ELSE wpc[w]]

\* cond.Broadcast, after m.mu is released (and onSubmit has run).
Broadcast(j) ==
  /\ j \in silent
  /\ silent' = silent \ {j}
  /\ Wake(For[j])
  /\ UNCHANGED <<status, queue, job, active, warm, timerVars, lifecycleMu,
                 groupVars, gate, loaded>>

-----------------------------------------------------------------------------
(* dequeue *)

CheckQueue(w) ==
  /\ wpc[w] = "check"
  /\ Goto(w, IF queue[Serves[w]] = <<>> THEN "parked" ELSE "resource")
  /\ UNCHANGED <<jobVars, job, active, warm, timerVars, lifecycleMu, groupVars,
                 gate, loaded>>

\* Slip.  Only the last provider's queue is looked at, not its running jobs.
AvailableWhenQueueEmpty(g, p) ==
  activeProvider[g] \notin {p, None} => queue[activeProvider[g]] = <<>>

\* The resource of group g can go to provider p: it has it already, or nobody
\* uses it, its last provider has no work waiting and the quiet period is over.
Available(g, p) ==
  LET last == activeProvider[g] IN
    last \notin {p, None} =>
      /\ activeJobs[g] = 0
      /\ queue[last] = <<>>
      /\ g \in SwitchDelay => g \in quiet

\* A switch drops the warm bits of both providers.
KeepWarm(g, p) == UNCHANGED warm   \* slip
HandOff(g, p) ==
  warm' = IF activeProvider[g] \in {p, None} THEN warm
          ELSE [warm EXCEPT ![activeProvider[g]] = FALSE, ![p] = FALSE]

AcquireResource(w) ==
  LET p == Serves[w]
      g == Group[p]
  IN
  /\ wpc[w] = "resource"
  /\ \/ /\ g = None
        /\ UNCHANGED <<groupVars, warm>>
     \/ /\ g # None /\ Available(g, p)
        /\ HandOff(g, p)
        /\ activeProvider' = [activeProvider EXCEPT ![g] = p]
        /\ activeJobs' = [activeJobs EXCEPT ![g] = @ + 1]
        /\ quiet' = quiet \ {g}
  /\ Goto(w, "pop")
  /\ UNCHANGED <<jobVars, job, active, timerVars, lifecycleMu, gate, loaded>>

\* acquireResource sleeps and looks again.
PollResource(w) ==
  /\ wpc[w] = "resource"
  /\ Group[Serves[w]] # None /\ ~ Available(Group[Serves[w]], Serves[w])
  /\ UNCHANGED vars

\* Another worker of the pool took the last job meanwhile.
FindNothing(w) ==
  /\ wpc[w] = "pop" /\ queue[Serves[w]] = <<>>
  /\ Goto(w, "lost")
  /\ UNCHANGED <<jobVars, job, active, warm, timerVars, lifecycleMu, groupVars,
                 gate, loaded>>

CountUpForgotten(p) == UNCHANGED active   \* slip
CountUp(p) == active' = [active EXCEPT ![p] = @ + 1]

TakeNothing(p) == UNCHANGED queue   \* slip
TakeHead(p) == queue' = [queue EXCEPT ![p] = Tail(@)]

Pop(w) ==
  LET p == Serves[w] IN
  /\ wpc[w] = "pop" /\ queue[p] # <<>>
  /\ job' = [job EXCEPT ![w] = Head(queue[p])]
  /\ TakeHead(p)
  /\ status' = [status EXCEPT ![Head(queue[p])] = "running"]
  /\ CountUp(p)
  /\ Goto(w, "gate")
  /\ UNCHANGED <<silent, warm, timerVars, lifecycleMu, groupVars, gate, loaded>>

ReleaseResource(w) ==
  LET p == Serves[w]
      g == Group[p]
  IN
  /\ wpc[w] \in {"lost", "done"}
  /\ IF g # None /\ activeProvider[g] = p /\ activeJobs[g] > 0
     THEN activeJobs' = [activeJobs EXCEPT ![g] = @ - 1]
     ELSE UNCHANGED activeJobs
  /\ Goto(w, "check")
  /\ UNCHANGED <<jobVars, job, active, warm, timerVars, lifecycleMu,
                 activeProvider, quiet, gate, loaded>>

\* Time passes: the switch delay since idleSince is over.
QuietPeriodEnds(g) ==
  /\ g \in SwitchDelay \ quiet
  /\ activeJobs[g] = 0 /\ activeProvider[g] # None
  /\ quiet' = quiet \cup {g}
  /\ UNCHANGED <<jobVars, workerVars, active, warm, timerVars, lifecycleMu,
                 activeProvider, activeJobs, gate, loaded>>

-----------------------------------------------------------------------------
(* run *)

\* runGate: the lease, no lease for an ungated provider, or an error.
RunGate(w) ==
  /\ wpc[w] = "gate"
  /\ \/ /\ Serves[w] \notin Gated
        /\ Goto(w, "needWarm")
        /\ UNCHANGED gate
     \/ /\ Serves[w] \in Gated /\ gate = None
        /\ \/ gate' = w /\ Goto(w, "needWarm")
           \/ Goto(w, "failing") /\ UNCHANGED gate
  /\ UNCHANGED <<jobVars, job, active, warm, timerVars, lifecycleMu, groupVars, loaded>>

ReadWarm(w) ==
  /\ wpc[w] = "needWarm"
  /\ Goto(w, IF Serves[w] \in Managed /\ ~ warm[Serves[w]] THEN "lock" ELSE "synth")
  /\ UNCHANGED <<jobVars, job, active, warm, timerVars, lifecycleMu, groupVars,
                 gate, loaded>>

\* lifecycleMu.Lock and the second look at the warm bit.
LockLifecycle(w) ==
  LET p == Serves[w] IN
  /\ wpc[w] = "lock" /\ lifecycleMu[p] = None
  /\ \/ /\ warm[p]
        /\ Goto(w, "synth")
        /\ UNCHANGED lifecycleMu
     \/ /\ ~ warm[p]
        /\ Goto(w, "warming")
        /\ lifecycleMu' = [lifecycleMu EXCEPT ![p] = w]
  /\ UNCHANGED <<jobVars, job, active, warm, timerVars, groupVars, gate, loaded>>

\* Warm returns; lifecycleMu is released before the warm bit is set.  In a
\* group, starting the sidecar stops the other ones.
Warmed(w) ==
  LET p == Serves[w] IN
  /\ wpc[w] = "warming"
  /\ lifecycleMu' = [lifecycleMu EXCEPT ![p] = None]
  /\ \/ /\ loaded' = [q \in Providers |->
                        \/ q = p
                        \/ loaded[q] /\ (Group[p] = None \/ Group[q] # Group[p])]
        /\ Goto(w, "setWarm")
     \/ /\ Goto(w, "failing")
        /\ UNCHANGED loaded
  /\ UNCHANGED <<jobVars, job, active, warm, timerVars, groupVars, gate>>

SetWarm(w) ==
  /\ wpc[w] = "setWarm"
  /\ warm' = [warm EXCEPT ![Serves[w]] = TRUE]
  /\ Goto(w, "synth")
  /\ UNCHANGED <<jobVars, job, active, timerVars, lifecycleMu, groupVars, gate, loaded>>

\* startIdleTimerLocked
StartIdleTimer(p) ==
  IF p \in IdleUnload /\ warm[p] /\ idleTimers[p] = None
  THEN \E t \in Timers :
         /\ tstate[t] = "free" /\ \A q \in Providers : idleTimers[q] # t
         /\ tstate' = [tstate EXCEPT ![t] = "armed"]
         /\ tprov' = [tprov EXCEPT ![t] = p]
         /\ idleTimers' = [idleTimers EXCEPT ![p] = t]
  ELSE UNCHANGED timerVars

\* Slip: a job that never reached its provider is not counted down.
CountDownSynthesized(w) ==
  active' = [active EXCEPT ![Serves[w]] = IF wpc[w] = "failing" THEN @ ELSE @ - 1]
CountDown(w) == active' = [active EXCEPT ![Serves[w]] = @ - 1]

\* finish, with whatever Synthesize or SynthesizeStream returned.
Finish(w) ==
  LET p == Serves[w] IN
  /\ wpc[w] \in {"synth", "failing"}
  /\ \E s \in {"succeeded", "failed"} :
       /\ wpc[w] = "failing" => s = "failed"
       /\ status' = [status EXCEPT ![job[w]] = s]
  /\ job' = [job EXCEPT ![w] = NoJob]
  /\ CountDown(w)
  /\ IF active[p] = 1 /\ queue[p] = <<>> THEN StartIdleTimer(p) ELSE UNCHANGED timerVars
  /\ Goto(w, "ungate")
  /\ UNCHANGED <<queue, silent, warm, lifecycleMu, groupVars, gate, loaded>>

\* The deferred release of the lease, before the deferred releaseResource.
Ungate(w) ==
  /\ wpc[w] = "ungate"
  /\ gate' = IF gate = w THEN None ELSE gate
  /\ Goto(w, "done")
  /\ UNCHANGED <<jobVars, job, active, warm, timerVars, lifecycleMu, groupVars, loaded>>

-----------------------------------------------------------------------------
(* The idle timers and fireIdle *)

TimerFires(t) ==
  /\ tstate[t] = "armed"
  /\ tstate' = [tstate EXCEPT ![t] = "fired"]
  /\ UNCHANGED <<jobVars, workerVars, active, warm, idleTimers, tprov,
                 lifecycleMu, groupVars, gate, loaded>>

InUse(p) == active[p] # 0 \/ queue[p] # <<>> \/ ~ warm[p]

\* A callback that finds work, or a cold provider, leaves idleTimers alone.
IgnoreIdle(t) ==
  /\ tstate[t] = "fired" /\ InUse(tprov[t])
  /\ tstate' = [tstate EXCEPT ![t] = "free"]
  /\ UNCHANGED <<jobVars, workerVars, active, warm, idleTimers, tprov, lifecycleMu,
                 groupVars, gate, loaded>>

FireIdle(t) ==
  LET p == tprov[t] IN
  /\ tstate[t] = "fired" /\ ~ InUse(p)
  /\ warm' = [warm EXCEPT ![p] = FALSE]
  /\ idleTimers' = [idleTimers EXCEPT ![p] = None]
  /\ tstate' = [tstate EXCEPT ![t] = IF p \in Managed THEN "idling" ELSE "free"]
  /\ UNCHANGED <<jobVars, workerVars, active, tprov, lifecycleMu, groupVars, gate,
                 loaded>>

\* Slip: Idle is called without lifecycleMu.
IdleUnlocked(p, t) == UNCHANGED lifecycleMu
IdleLocks(p, t) ==
  /\ lifecycleMu[p] = None
  /\ lifecycleMu' = [lifecycleMu EXCEPT ![p] = t]

LockIdle(t) ==
  /\ tstate[t] = "idling"
  /\ IdleLocks(tprov[t], t)
  /\ tstate' = [tstate EXCEPT ![t] = "unloading"]
  /\ UNCHANGED <<jobVars, workerVars, active, warm, idleTimers, tprov,
                 groupVars, gate, loaded>>

\* Idle returns; its error is ignored.
Idled(t) ==
  LET p == tprov[t] IN
  /\ tstate[t] = "unloading"
  /\ loaded' \in {loaded, [loaded EXCEPT ![p] = FALSE]}
  /\ lifecycleMu' = [lifecycleMu EXCEPT ![p] = None]
  /\ tstate' = [tstate EXCEPT ![t] = "free"]
  /\ UNCHANGED <<jobVars, workerVars, active, warm, idleTimers, tprov,
                 groupVars, gate>>

-----------------------------------------------------------------------------
Work(w) ==
  \/ CheckQueue(w) \/ AcquireResource(w) \/ PollResource(w) \/ FindNothing(w)
  \/ Pop(w) \/ ReleaseResource(w) \/ RunGate(w) \/ ReadWarm(w) \/ LockLifecycle(w)
  \/ Warmed(w) \/ SetWarm(w) \/ Finish(w) \/ Ungate(w)

Unload(t) == IgnoreIdle(t) \/ FireIdle(t) \/ LockIdle(t) \/ Idled(t)

\* Every worker waits on its condition variable: the server waits for requests.
Quiescent == (\A w \in Workers : wpc[w] = "parked") /\ UNCHANGED vars

Next ==
  \/ \E j \in Jobs : Submit(j) \/ Broadcast(j)
  \/ \E w \in Workers : Work(w)
  \/ \E g \in Groups : QuietPeriodEnds(g)
  \/ \E t \in Timers : TimerFires(t) \/ Unload(t)
  \/ Quiescent

Spec == Init /\ [][Next]_vars

(***************************************************************************)
(* Goroutines are scheduled, sleeps and timers end, and calls on a sidecar *)
(* return (they are bounded by the lifecycle and synthesis timeouts).  The *)
(* gate and lifecycleMu are mutexes: whoever keeps asking gets them.       *)
(***************************************************************************)
Fairness ==
  /\ WF_vars(\E j \in Jobs : Broadcast(j))
  /\ \A w \in Workers :
       /\ WF_vars(CheckQueue(w) \/ AcquireResource(w) \/ FindNothing(w) \/ Pop(w)
                  \/ ReleaseResource(w) \/ ReadWarm(w) \/ Warmed(w) \/ SetWarm(w)
                  \/ Finish(w) \/ Ungate(w))
       /\ SF_vars(RunGate(w) \/ LockLifecycle(w))
  /\ \A g \in Groups : WF_vars(QuietPeriodEnds(g))
  /\ \A t \in Timers : WF_vars(TimerFires(t)) /\ WF_vars(IgnoreIdle(t) \/ FireIdle(t))
                       /\ SF_vars(LockIdle(t)) /\ WF_vars(Idled(t))

FairSpec == Spec /\ Fairness

-----------------------------------------------------------------------------
(* Properties *)

Occurrences(j) == {i \in 1..Len(queue[For[j]]) : queue[For[j]][i] = j}
Runners(j) == {w \in Workers : job[w] = j}
Crew(p) == {w \in Workers : Serves[w] = p}
Busy(p) == {w \in Crew(p) : wpc[w] \in Running}

(* A job is in exactly one place: queued once in its own provider's queue, or
   held by one worker of that provider, or nowhere once it is finished.  No
   order of submissions and pops loses a job or runs it twice. *)
JobsAccounted ==
  \A j \in Jobs :
    /\ Cardinality(Occurrences(j)) = IF status[j] = "queued" THEN 1 ELSE 0
    /\ Cardinality(Runners(j)) = IF status[j] = "running" THEN 1 ELSE 0
    /\ \A w \in Runners(j) : Serves[w] = For[j] /\ wpc[w] \in Running

(* m.active counts the workers that are running a job: the idle timer is armed
   and honoured on that count, which gate errors and failed warm-ups must
   bring down as well as successful jobs do. *)
ActiveCounts == \A p \in Providers : active[p] = Cardinality(Busy(p))

Members(g) == {w \in Workers : Group[Serves[w]] = g}
Holders(g) == {w \in Members(g) : wpc[w] \in Holding}

(* Config.ResourceGroups: jobs of the same group never run concurrently across
   providers, and activeJobs counts the workers that hold the resource. *)
GroupExclusive ==
  \A g \in Groups :
    /\ \A w \in Holders(g) : activeProvider[g] = Serves[w]
    /\ activeJobs[g] = Cardinality(Holders(g))

(* An idle timer is referenced only while its provider has nothing to do: a
   submission that left the timer armed would let it unload a busy model. *)
TimerOnlyWhenIdle ==
  \A p \in Providers : idleTimers[p] # None => active[p] = 0 /\ queue[p] = <<>>

(* A warm provider with an idle-unload delay never stays loaded for ever: once
   its work is done some timer of its own is armed or about to look at it. *)
IdleWarmHasTimer ==
  \A p \in IdleUnload :
    warm[p] /\ active[p] = 0 /\ queue[p] = <<>> =>
      \E t \in Timers : tprov[t] = p /\ tstate[t] \in {"armed", "fired"}

(* lifecycleMu: a timer-driven Idle never runs concurrently with a
   worker-driven Warm of the same provider (queue.go, Manager.lifecycleMu). *)
WarmExcludesIdle ==
  ~ \E w \in Workers, t \in Timers :
      /\ wpc[w] = "warming" /\ tstate[t] = "unloading" /\ Serves[w] = tprov[t]

(* Some timer watches every warm provider that may go cold, and none unloads a
   provider that is in use or being warmed: what startIdleTimerLocked,
   cancelIdleTimerLocked and fireIdle promise each other over two locks. *)
WarmthIsWatched == TimerOnlyWhenIdle /\ IdleWarmHasTimer /\ WarmExcludesIdle

(* A job is handed to a provider only when its model is loaded (provider.go,
   Lifecycle: Warm comes before the first job of a cold provider). *)
DispatchedToLoaded ==
  [][\A w \in Workers :
       wpc[w] # "synth" /\ wpc'[w] = "synth" /\ Serves[w] \in Managed
         => loaded'[Serves[w]]]_vars

(* Every submitted job finishes, whatever fails on its way. *)
EveryJobFinishes ==
  \A j \in Jobs : status[j] = "queued" ~> status[j] \in {"succeeded", "failed"}

(* A model with an idle-unload delay does not stay in memory for ever: once it
   is warm and no more work comes, its provider is sent back to cold. *)
WarmProvidersCool == \A p \in IdleUnload : warm[p] ~> ~ warm[p]

=============================================================================
