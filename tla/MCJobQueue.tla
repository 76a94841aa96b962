----------------------------- MODULE MCJobQueue -----------------------------
(* Instances of JobQueue: a pool of two workers for one provider, and two   *)
(* providers that share a resource group, one of them with two workers.     *)
EXTENDS JobQueue, TLC

CONSTANTS kokoro, omnivoice, k1, k2, o1, ja, jb, jc, t1, t2, gpu

PoolServes == (k1 :> kokoro @@ k2 :> kokoro)
PoolJobs == (ja :> kokoro @@ jb :> kokoro)
NoGroup == (kokoro :> None)

PairServes == (k1 :> kokoro @@ k2 :> kokoro @@ o1 :> omnivoice)
PairJobs == (ja :> kokoro @@ jb :> kokoro @@ jc :> omnivoice)
SameGroup == (kokoro :> gpu @@ omnivoice :> gpu)
=============================================================================
