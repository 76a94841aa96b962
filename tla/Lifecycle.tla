----------------------------- MODULE Lifecycle -----------------------------
(***************************************************************************)
(* lifecycle.Manager (internal/lifecycle/lifecycle.go): the GPU execution  *)
(* lease and the residency of the model sidecars.  Clients are the         *)
(* goroutines that call Acquire or Start; one call runs at a time in each. *)
(*                                                                         *)
(* Locks: execMu is held from Acquire to the release function, startMu     *)
(* over a whole start.  m.mu and inst.mu only make single reads and writes *)
(* atomic and are folded into the actions; inst.mu during a launch is      *)
(* covered by startMu, which every action that needs it also takes.        *)
(*                                                                         *)
(* Time is kept as an order: <<a, b>> \in older says a.lastUsed is before  *)
(* b.lastUsed; expired holds the models idle for longer than idleTimeout.  *)
(***************************************************************************)
EXTENDS Naturals, Integers, Functions

CONSTANTS
  Clients,      \* goroutines
  Models,       \* registered instances
  Main,         \* the goroutine that shuts the server down
  Nobody,       \* no lock holder
  NoModel,      \* no model
  Cost,         \* instance.vramMiB
  MaxVRAM,      \* Manager.maxVRAMMiB; 0 disables the budget
  Readings,     \* what nvidia-smi may report; {} when it is unavailable
  IdleTimeout,  \* the models registered with idleTimeout > 0
  Unleased,     \* the models some caller starts without holding the lease
  Modes         \* the calls made: "acquire", "start", "exclusive"

ASSUME NamesAssumption ==
  /\ Nobody \notin Clients /\ Main \notin Clients /\ Main # Nobody
  /\ NoModel \notin Models
ASSUME BudgetAssumption ==
  /\ Cost \in [Models -> Nat] /\ MaxVRAM \in Nat /\ Readings \subseteq Nat
ASSUME CallsAssumption ==
  /\ IdleTimeout \subseteq Models /\ Unleased \subseteq Models
  /\ Modes \subseteq {"acquire", "start", "exclusive"}

VARIABLES
  execMu, startMu,        \* lock holders
  cmd,                    \* inst.cmd: "none" is nil, the rest a process
  active,                 \* inst.active
  older, expired,         \* inst.lastUsed
  watcher,                \* the idleWatcher goroutine of each instance
  pc, target, mode,       \* the call each client is in
  lease,                  \* the model whose release function a client holds
  used, victims, snap,    \* makeRoomLocked's used, residents and their order
  shutdown                \* StopAll

locks    == <<execMu, startMu>>
recency  == <<older, expired>>
calls    == <<pc, target, mode, lease>>
roomVars == <<used, victims, snap>>
vars == <<locks, cmd, active, recency, watcher, calls, roomVars, shutdown>>

InStart == {"stopOthers", "room", "evict", "spawn", "health", "oom"}

TypeOK ==
  /\ execMu \in Clients \cup {Main, Nobody}
  /\ startMu \in Clients \cup {Nobody}
  /\ cmd \in [Models -> {"none", "starting", "up", "dead"}]
  /\ active \in [Models -> Nat]
  /\ older \subseteq Models \X Models /\ expired \subseteq Models
  /\ watcher \in [Models -> {"none", "running", "exited"}]
  /\ pc \in [Clients -> {"idle", "exec", "start", "unlock"} \cup InStart]
  /\ target \in [Clients -> Models \cup {NoModel}]
  /\ mode \in [Clients -> {"acquire", "start", "exclusive"}]
  /\ lease \in [Clients -> Models \cup {NoModel}]
  /\ victims \subseteq Models /\ snap \subseteq Models \X Models
  /\ shutdown \in {"running", "requested", "exec", "stopped"}

Init ==
  /\ execMu = Nobody /\ startMu = Nobody
  /\ cmd = [m \in Models |-> "none"]
  /\ active = [m \in Models |-> 0]
  /\ older = {} /\ expired = {}
  /\ watcher = [m \in Models |-> "none"]
  /\ pc = [c \in Clients |-> "idle"]
  /\ target = [c \in Clients |-> NoModel]
  /\ mode = [c \in Clients |-> "start"]
  /\ lease = [c \in Clients |-> NoModel]
  /\ used = 0 /\ victims = {} /\ snap = {}
  /\ shutdown = "running"

-----------------------------------------------------------------------------
(* Helpers *)

Resident == {m \in Models : cmd[m] # "none"}

\* inst.lastUsed = time.Now()
Touch(m) ==
  /\ older' = {p \in older : p[1] # m} \cup ((Models \ {m}) \X {m})
  /\ expired' = expired \ {m}

Goto(c, label) == pc' = [pc EXCEPT ![c] = label]

\* The call is over: its arguments go out of scope.
Return(c, label) ==
  /\ Goto(c, label)
  /\ target' = [target EXCEPT ![c] = NoModel]
  /\ mode' = [mode EXCEPT ![c] = "start"]

\* Slip: a plain Start counts as a use of the model too.
GrantedToEveryCaller(c) ==
  /\ active' = [active EXCEPT ![target[c]] = @ + 1]
  /\ lease' = [lease EXCEPT ![c] = IF mode[c] = "acquire" THEN target[c] ELSE @]

\* What a caller of Acquire has once start succeeded: the release function.
Granted(c) ==
  IF mode[c] = "acquire"
  THEN /\ active' = [active EXCEPT ![target[c]] = @ + 1]
       /\ lease' = [lease EXCEPT ![c] = target[c]]
  ELSE UNCHANGED <<active, lease>>

\* Slip: Acquire forgets execMu when start fails.
FailWithoutUnlock(c) ==
  /\ startMu' = Nobody
  /\ Return(c, "idle")
  /\ UNCHANGED lease

\* start returns an error; Acquire then unlocks execMu in a step of its own.
Fail(c) ==
  /\ startMu' = Nobody
  /\ Return(c, IF mode[c] = "acquire" THEN "unlock" ELSE "idle")
  /\ UNCHANGED lease

\* Sum of the registered estimates of a set of instances.
Estimate(S) == SumFunctionOnSet(Cost, S)

\* usedVRAMFunc, or the estimate when there is none or it fails.
Measure(estimate) == Readings \cup {estimate}

\* Slip: the model about to be loaded is not counted.
FitsBeforeLoading(u, m) == u <= MaxVRAM

Fits(u, m) == u + Cost[m] <= MaxVRAM

\* Slip: sorted the wrong way round.
IsNewest(v, S, order) == v \in S /\ \A n \in S \ {v} : <<n, v>> \in order

\* v is the least recently used member of S in a given order.
IsOldest(v, S, order) == v \in S /\ \A n \in S \ {v} : <<v, n>> \in order

-----------------------------------------------------------------------------
(* Acquire and start *)

\* A client calls Acquire when it holds no lease, or Start: on the model it
\* leases (a provider's StartFunc under its run gate), or on an unleased one.
Call(c, m, md) ==
  /\ pc[c] = "idle" /\ md \in Modes
  /\ IF md = "acquire" THEN lease[c] = NoModel
     ELSE lease[c] = m \/ (lease[c] = NoModel /\ m \in Unleased)
  /\ Goto(c, IF md = "acquire" THEN "exec" ELSE "start")
  /\ target' = [target EXCEPT ![c] = m]
  /\ mode' = [mode EXCEPT ![c] = md]
  /\ UNCHANGED <<locks, cmd, active, recency, watcher, lease, roomVars, shutdown>>

\* Slip: Acquire goes ahead without waiting for execMu.
LockExecUnchecked(c) ==
  /\ pc[c] = "exec"
  /\ execMu' = c
  /\ Goto(c, "start")
  /\ UNCHANGED <<startMu, cmd, active, recency, watcher, target, mode, lease,
                 roomVars, shutdown>>

LockExec(c) ==
  /\ pc[c] = "exec" /\ execMu = Nobody
  /\ execMu' = c
  /\ Goto(c, "start")
  /\ UNCHANGED <<startMu, cmd, active, recency, watcher, target, mode, lease,
                 roomVars, shutdown>>

\* start finds inst.cmd set, whether or not the process behind it still lives.
FindResident(c) ==
  /\ pc[c] = "start" /\ startMu = Nobody
  /\ cmd[target[c]] # "none"
  /\ Touch(target[c])
  /\ Granted(c)
  /\ Return(c, "idle")
  /\ UNCHANGED <<locks, cmd, watcher, roomVars, shutdown>>

EnterStart(c) ==
  /\ pc[c] = "start" /\ startMu = Nobody
  /\ cmd[target[c]] = "none"
  /\ startMu' = c
  /\ Goto(c, IF mode[c] = "exclusive" THEN "stopOthers" ELSE "room")
  /\ UNCHANGED <<execMu, cmd, active, recency, watcher, target, mode, lease,
                 roomVars, shutdown>>

\* stopOthersLocked
StopOthers(c) ==
  /\ pc[c] = "stopOthers"
  /\ cmd' = [m \in Models |-> IF m # target[c] /\ active[m] = 0
                              THEN "none" ELSE cmd[m]]
  /\ Goto(c, "spawn")
  /\ UNCHANGED <<locks, active, recency, watcher, target, mode, lease, roomVars,
                 shutdown>>

-----------------------------------------------------------------------------
(* makeRoomLocked *)

\* No budget, a free model, or room enough: nothing is evicted.
RoomUnlimited(c) ==
  /\ pc[c] = "room"
  /\ MaxVRAM = 0 \/ Cost[target[c]] = 0
  /\ Goto(c, "spawn")
  /\ UNCHANGED <<locks, cmd, active, recency, watcher, target, mode, lease,
                 roomVars, shutdown>>

RoomImpossible(c) ==
  /\ pc[c] = "room"
  /\ MaxVRAM > 0 /\ Cost[target[c]] > MaxVRAM
  /\ Fail(c)
  /\ UNCHANGED <<execMu, cmd, active, recency, watcher, roomVars, shutdown>>

\* Usage is measured once; what is resident is remembered with its order.
MeasureRoom(c) ==
  /\ pc[c] = "room"
  /\ MaxVRAM > 0 /\ Cost[target[c]] \in 1..MaxVRAM
  /\ \E u \in Measure(Estimate(Resident \ {target[c]})) :
       \/ /\ Fits(u, target[c])
          /\ Goto(c, "spawn")
          /\ UNCHANGED roomVars
       \/ /\ ~ Fits(u, target[c])
          /\ Goto(c, "evict")
          /\ used' = u /\ victims' = Resident \ {target[c]} /\ snap' = older
  /\ UNCHANGED <<locks, cmd, active, recency, watcher, target, mode, lease, shutdown>>

\* A remembered resident that is in use by now is passed over.
SkipVictim(c) ==
  /\ pc[c] = "evict" /\ victims # {}
  /\ \E v \in Models :
       /\ IsOldest(v, victims, snap)
       /\ active[v] > 0 \/ cmd[v] = "none"
       /\ victims' = victims \ {v}
  /\ UNCHANGED <<locks, cmd, active, recency, watcher, calls, used, snap, shutdown>>

EvictVictim(c) ==
  /\ pc[c] = "evict" /\ victims # {}
  /\ \E v \in Models :
       /\ IsOldest(v, victims, snap)
       /\ active[v] = 0 /\ cmd[v] # "none"
       /\ cmd' = [cmd EXCEPT ![v] = "none"]
       /\ \E u \in Measure(used - Cost[v]) :
            \/ /\ Fits(u, target[c])
               /\ Goto(c, "spawn")
               /\ used' = 0 /\ victims' = {} /\ snap' = {}
            \/ /\ ~ Fits(u, target[c])
               /\ used' = u /\ victims' = victims \ {v}
               /\ UNCHANGED <<pc, snap>>
  /\ UNCHANGED <<locks, active, recency, watcher, target, mode, lease, shutdown>>

\* "insufficient idle VRAM": what was evicted stays evicted.
RoomExhausted(c) ==
  /\ pc[c] = "evict" /\ victims = {}
  /\ Fail(c)
  /\ used' = 0 /\ snap' = {}
  /\ UNCHANGED <<execMu, cmd, active, recency, watcher, victims, shutdown>>

-----------------------------------------------------------------------------
(* tryStartLocked and the out-of-memory retry *)

Spawn(c) ==
  /\ pc[c] = "spawn"
  /\ cmd' = [cmd EXCEPT ![target[c]] = "starting"]
  /\ Touch(target[c])
  /\ Goto(c, "health")
  /\ UNCHANGED <<locks, active, watcher, target, mode, lease, roomVars, shutdown>>

\* cmd.Start fails: there is no process to stop and no retry.
SpawnFails(c) ==
  /\ pc[c] = "spawn"
  /\ Fail(c)
  /\ UNCHANGED <<execMu, cmd, active, recency, watcher, roomVars, shutdown>>

Healthy(c) ==
  /\ pc[c] = "health" /\ cmd[target[c]] = "starting"
  /\ cmd' = [cmd EXCEPT ![target[c]] = "up"]
  /\ Granted(c)
  /\ watcher' = IF target[c] \in IdleTimeout /\ watcher[target[c]] = "none"
                THEN [watcher EXCEPT ![target[c]] = "running"] ELSE watcher
  /\ startMu' = Nobody
  /\ Return(c, "idle")
  /\ UNCHANGED <<execMu, recency, roomVars, shutdown>>

\* The health check timed out; only an out-of-memory text allows a retry.
Unhealthy(c) ==
  /\ pc[c] = "health"
  /\ cmd' = [cmd EXCEPT ![target[c]] = "none"]
  /\ \/ /\ Goto(c, "oom")
        /\ UNCHANGED <<startMu, target, mode, lease>>
     \/ Fail(c)
  /\ UNCHANGED <<execMu, active, recency, watcher, roomVars, shutdown>>

\* Slip: the launch is tried again although nothing could be evicted.
RetryForEver(c) ==
  /\ pc[c] = "oom"
  /\ \/ \E v \in Models :
          /\ IsOldest(v, {m \in Resident \ {target[c]} : active[m] = 0}, older)
          /\ cmd' = [cmd EXCEPT ![v] = "none"]
     \/ UNCHANGED cmd
  /\ Goto(c, "spawn")
  /\ UNCHANGED <<locks, active, recency, watcher, target, mode, lease, roomVars,
                 shutdown>>

\* evictOldestIdleLocked, then the launch is tried again.
EvictOldestIdle(c) ==
  /\ pc[c] = "oom"
  /\ LET idle == {m \in Resident \ {target[c]} : active[m] = 0} IN
       \/ /\ \E v \in Models :
               IsOldest(v, idle, older) /\ cmd' = [cmd EXCEPT ![v] = "none"]
          /\ Goto(c, "spawn")
          /\ UNCHANGED <<startMu, target, mode, lease>>
       \/ /\ idle = {}
          /\ Fail(c)
          /\ UNCHANGED cmd
  /\ UNCHANGED <<execMu, active, recency, watcher, roomVars, shutdown>>

-----------------------------------------------------------------------------
(* The release function *)

\* Slip: a caller that also defers the release runs it twice.
ReleaseTwice(c) ==
  /\ pc[c] = "idle" /\ lease[c] # NoModel
  /\ active' = [active EXCEPT ![lease[c]] = @ - 2]
  /\ Touch(lease[c])
  /\ lease' = [lease EXCEPT ![c] = NoModel]
  /\ Goto(c, "unlock")
  /\ UNCHANGED <<locks, cmd, watcher, target, mode, roomVars, shutdown>>

Release(c) ==
  /\ pc[c] = "idle" /\ lease[c] # NoModel
  /\ active' = [active EXCEPT ![lease[c]] = IF @ > 0 THEN @ - 1 ELSE @]
  /\ Touch(lease[c])
  /\ lease' = [lease EXCEPT ![c] = NoModel]
  /\ Goto(c, "unlock")
  /\ UNCHANGED <<locks, cmd, watcher, target, mode, roomVars, shutdown>>

UnlockExec(c) ==
  /\ pc[c] = "unlock"
  /\ execMu' = Nobody
  /\ Goto(c, "idle")
  /\ UNCHANGED <<startMu, cmd, active, recency, watcher, target, mode, lease,
                 roomVars, shutdown>>

-----------------------------------------------------------------------------
(* Time, the idle watchers, the processes themselves, and shutdown *)

Expire(m) ==
  /\ m \in IdleTimeout /\ cmd[m] \in {"up", "dead"} /\ m \notin expired
  /\ expired' = expired \cup {m}
  /\ UNCHANGED <<locks, cmd, active, older, watcher, calls, roomVars, shutdown>>

\* Slip: the watcher looks at lastUsed only, not at active.
IdleUnloadInUse(m) ==
  /\ watcher[m] = "running" /\ startMu = Nobody
  /\ cmd[m] # "none" /\ m \in expired
  /\ cmd' = [cmd EXCEPT ![m] = "none"]
  /\ expired' = expired \ {m}
  /\ UNCHANGED <<locks, active, older, watcher, calls, roomVars, shutdown>>

\* Slip: the watcher gives up on a process that has died.
IdleUnloadAlive(m) ==
  /\ cmd[m] = "up"
  /\ IdleUnloadInUse(m) /\ active[m] = 0

IdleUnload(m) ==
  /\ watcher[m] = "running" /\ startMu = Nobody
  /\ cmd[m] # "none" /\ active[m] = 0 /\ m \in expired
  /\ cmd' = [cmd EXCEPT ![m] = "none"]
  /\ expired' = expired \ {m}
  /\ UNCHANGED <<locks, active, older, watcher, calls, roomVars, shutdown>>

\* stopCh is closed by StopAll.
WatcherExits(m) ==
  /\ watcher[m] = "running" /\ shutdown = "stopped"
  /\ watcher' = [watcher EXCEPT ![m] = "exited"]
  /\ UNCHANGED <<locks, cmd, active, recency, calls, roomVars, shutdown>>

\* A sidecar dies by itself; nothing reaps it, so inst.cmd stays set.
Crash(m) ==
  /\ cmd[m] \in {"starting", "up"}
  /\ cmd' = [cmd EXCEPT ![m] = "dead"]
  /\ UNCHANGED <<locks, active, recency, watcher, calls, roomVars, shutdown>>

RequestShutdown ==
  /\ shutdown = "running"
  /\ shutdown' = "requested"
  /\ UNCHANGED <<locks, cmd, active, recency, watcher, calls, roomVars>>

ShutdownLock ==
  /\ shutdown = "requested" /\ execMu = Nobody
  /\ execMu' = Main /\ shutdown' = "exec"
  /\ UNCHANGED <<startMu, cmd, active, recency, watcher, calls, roomVars>>

StopAll ==
  /\ shutdown = "exec" /\ startMu = Nobody
  /\ cmd' = [m \in Models |-> "none"]
  /\ execMu' = Nobody /\ shutdown' = "stopped"
  /\ UNCHANGED <<startMu, active, recency, watcher, calls, roomVars>>

-----------------------------------------------------------------------------
Step(c) ==
  \/ LockExec(c) \/ FindResident(c) \/ EnterStart(c) \/ StopOthers(c)
  \/ RoomUnlimited(c) \/ RoomImpossible(c) \/ MeasureRoom(c)
  \/ SkipVictim(c) \/ EvictVictim(c) \/ RoomExhausted(c)
  \/ Spawn(c) \/ SpawnFails(c) \/ Healthy(c) \/ Unhealthy(c) \/ EvictOldestIdle(c)
  \/ Release(c) \/ UnlockExec(c)

Environment ==
  \/ \E m \in Models : Expire(m) \/ IdleUnload(m) \/ WatcherExits(m) \/ Crash(m)
  \/ RequestShutdown \/ ShutdownLock \/ StopAll

Next ==
  \/ \E c \in Clients : Step(c)
  \/ \E c \in Clients, m \in Models, md \in Modes : Call(c, m, md)
  \/ Environment

Spec == Init /\ [][Next]_vars

\* A goroutine that can run does, and a held lease is given back (each holder
\* bounds its work by a timeout or a connection).  Go's mutex turns FIFO for a
\* waiter that starves for a millisecond, hence strong fairness on the locks.
Fairness ==
  /\ \A c \in Clients :
       /\ WF_vars(Step(c))
       /\ SF_vars(LockExec(c) \/ FindResident(c) \/ EnterStart(c))
       /\ SF_vars(Release(c))
  /\ \A m \in Models : SF_vars(IdleUnload(m)) /\ WF_vars(WatcherExits(m))
  /\ SF_vars(ShutdownLock) /\ SF_vars(StopAll)

FairSpec == Spec /\ Fairness

-----------------------------------------------------------------------------
(* Properties *)

\* A model under a lease keeps its process: no eviction, idle unload, failed
\* start or shutdown takes it away (docs/architecture.md: "A model holding an
\* execution lease is never evicted").
LeasedIsResident == \A c \in Clients : lease[c] # NoModel => cmd[lease[c]] # "none"

\* The counters that shield models from eviction agree with the leases that
\* exist: one unit for the leased model, none anywhere else, through errors,
\* retries and releases.
ActiveMatchesLeases ==
  \A m \in Models :
    active[m] = IF \E c \in Clients : lease[c] = m THEN 1 ELSE 0

\* The execution lock is never left behind and never held twice: it is held
\* exactly while a client is between Acquire and the end of its release, or by
\* StopAll.
LockIsAccountedFor ==
  /\ \A c \in Clients :
       execMu = c <=> \/ lease[c] # NoModel
                      \/ pc[c] = "unlock"
                      \/ mode[c] = "acquire" /\ pc[c] # "exec"
  /\ execMu = Main <=> shutdown = "exec"

\* Leases, counters and the lock tell the same story at every moment: whoever
\* looks at one of them (an eviction, a watcher, the shutdown, a waiting caller)
\* may conclude on the others.
LeasesAndLocks == ActiveMatchesLeases /\ LockIsAccountedFor

\* With usage estimated from the registered costs, the models that have a
\* process never cost more than the budget, whatever order starts, evictions,
\* out-of-memory retries and crashes come in (makeRoomLocked).
BudgetRespected == MaxVRAM > 0 => Estimate(Resident) <= MaxVRAM

\* Making room or retrying after out-of-memory stops an idle model only when
\* every other idle resident was used more recently (docs/architecture.md:
\* "idle models are stopped least-recently-used first").
LeastRecentlyUsedFirst ==
  [][\A c \in Clients, v, w \in Models :
       /\ pc[c] \in {"evict", "oom"} /\ v # target[c] /\ w \notin {v, target[c]}
       /\ cmd[v] # "none" /\ cmd'[v] = "none"
       /\ cmd[w] # "none" /\ active[w] = 0
       => <<v, w>> \in older]_vars

\* The manager keeps the promise of module GpuLease.
Abstract == INSTANCE GpuLease WITH
              leases <- {l \in Clients \X Models : lease[l[1]] = l[2]},
              resident <- Resident
ImplementsGpuLease == Abstract!Spec

\* Every Acquire, Start and release returns, even while other clients keep
\* calling, sidecars crash or fail to start, and the server shuts down.
CallsReturn == \A c \in Clients : pc[c] # "idle" ~> pc[c] = "idle"

\* StopAll gets the lease and the start lock in the end, so the process exits.
ShutdownCompletes == shutdown = "requested" ~> shutdown = "stopped"

\* Nobody is stuck in the manager: neither a caller nor the shutdown, which
\* wait for each other's locks.
CallsEnd == CallsReturn /\ ShutdownCompletes

\* A model idle past its timeout is unloaded, or used again, or its watcher
\* has been told to stop (idleWatcher).
IdleModelsUnload ==
  \A m \in Models :
    (m \in expired /\ watcher[m] = "running") ~>
      (m \notin expired \/ cmd[m] = "none" \/ shutdown # "running")

\* cmd/audio/main.go, where Moonshine is registered with a zero cost: it "is
\* never evicted to make room for a GPU model".  What the code does: the loop
\* of makeRoomLocked stops any idle resident, whatever its cost.  No run lists
\* it; README.md says how to see it violated.
ZeroCostNeverEvicted ==
  [][\A c \in Clients, v \in Models :
       /\ pc[c] = "evict" /\ v # target[c] /\ Cost[v] = 0
       /\ cmd[v] # "none"
       => cmd'[v] # "none"]_vars
=============================================================================
