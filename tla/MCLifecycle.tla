---------------------------- MODULE MCLifecycle ----------------------------
(* Lifecycle on small instances.  Two GPU models that do not fit together,
   one that does not fit at all, and a CPU sidecar registered at cost 0
   (WeSpeaker: the only one the server starts without a lease). *)
EXTENDS Lifecycle, TLC
CONSTANTS tts, asr, huge, cpu, c1, c2
ModelCost == [m \in Models |-> CASE m = huge -> 4 [] m = cpu -> 0 [] OTHER -> 2]
ClientSymmetry == Permutations(Clients)
=============================================================================
