----------------------------- MODULE MCJobTable -----------------------------
(* Instances of JobTable: which requests come in, and what each of them is. *)
EXTENDS JobTable, TLC

CONSTANTS s1, d1, q1, a1, a2, c1, c2

AllKinds == (s1 :> "speech" @@ d1 :> "streamJob" @@ q1 :> "queued"
             @@ a1 :> "align" @@ a2 :> "align")
JobsKind == [j \in Jobs |-> AllKinds[j]]
=============================================================================
