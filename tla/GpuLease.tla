------------------------------ MODULE GpuLease ------------------------------
(***************************************************************************)
(* What lifecycle.Manager promises its callers, without how it does it:    *)
(* the GPU is leased to one caller at a time, for one model, and the model *)
(* under the lease is resident until the lease is given back               *)
(* (docs/architecture.md: "only one CUDA inference runs at a time across   *)
(* both directions", "A model holding an execution lease is never          *)
(* evicted").  Module Lifecycle is shown to implement this specification.  *)
(***************************************************************************)
CONSTANTS Clients,  \* the goroutines that ask for the GPU
          Models    \* the registered sidecars

VARIABLES leases,   \* the pairs <<c, m>>: client c holds the lease on m
          resident  \* the models that have a process

vars == <<leases, resident>>

Init == leases = {} /\ resident = {}

\* The lease is granted only when nobody has it, and on a resident model.
Grant(c, m) ==
  /\ leases = {}
  /\ m \in resident
  /\ leases' = {<<c, m>>}
  /\ UNCHANGED resident

GiveBack(c, m) ==
  /\ <<c, m>> \in leases
  /\ leases' = leases \ {<<c, m>>}
  /\ UNCHANGED resident

Load(m) ==
  /\ resident' = resident \cup {m}
  /\ UNCHANGED leases

\* Eviction, idle unload, shutdown: any models but the leased one.
Unload(S) ==
  /\ \A l \in leases : l[2] \notin S
  /\ resident' = resident \ S
  /\ UNCHANGED leases

Next ==
  \/ \E c \in Clients, m \in Models : Grant(c, m) \/ GiveBack(c, m)
  \/ \E m \in Models : Load(m)
  \/ \E S \in SUBSET Models : Unload(S)

Spec == Init /\ [][Next]_vars
=============================================================================
