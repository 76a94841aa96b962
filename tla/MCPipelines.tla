---------------------------- MODULE MCPipelines ----------------------------
(* Instances of Pipelines: which goroutines there are, and what each does. *)
EXTENDS Pipelines, TLC

CONSTANTS an, sep, stt, live, vocals, drums

AllKinds == (an :> "analysis" @@ sep :> "separation" @@ stt :> "stt" @@ live :> "live")
JobsKind == [j \in Jobs |-> AllKinds[j]]
JobsRefines == [j \in Jobs |-> IF j = stt THEN live ELSE NoJob]
=============================================================================
