--------------------------- MODULE PipelinesProofs ---------------------------
(***************************************************************************)
(* What holds of the shared execution lease for any number of analyses,    *)
(* separations, post-processing jobs and sessions.  Each gives the lease   *)
(* back in its own way (early and deferred, deferred, after finishing):    *)
(* that the ways do not disturb one another rests on the release functions *)
(* being called by their owners only, once (OnlyHolderOwes).               *)
(***************************************************************************)
EXTENDS Pipelines, TLAPS

\* The variables the lease depends on, with their domains.
LeaseTypes ==
  /\ status \in [Jobs -> {"none", "queued", "running", "succeeded", "failed"}]
  /\ at \in [Jobs -> {"new", "spawned", "ready", "work", "release", "return", "finish",
                      "unwind", "over"}]
  /\ stage \in [Jobs -> Nat \ {0}]
  /\ lease \in Jobs \cup {NoJob}

\* A release function that is not nil belongs to the lease that is held.
OnlyHolderOwes == owes = IF lease = NoJob THEN {} ELSE {lease}

\* What status and place say of each other, and which job finishes with the lease.
FinishedLast ==
  \A j \in Jobs : /\ status[j] \in {"succeeded", "failed"} => at[j] \in {"unwind", "over"}
                  /\ at[j] = "unwind" => Kind[j] = "stt"
                  /\ at[j] = "finish" /\ lease = j => Kind[j] = "stt"

IInv == LeaseTypes /\ OnlyHolderOwes /\ FinishedLast /\ LeaseDiscipline

-----------------------------------------------------------------------------
(* The initial states, and steps that do not touch the lease *)

LEMMA InitInv == Init => IInv
  BY JobsAssumption
  DEF Init, IInv, LeaseTypes, OnlyHolderOwes, FinishedLast, LeaseDiscipline,
      GpuWorkIsLeased, LeaseBetweenStages, LeaseIsReturned

\* A job that neither takes nor returns the lease moves within the places that ask
\* the same of it: it may begin work that needs no lease, or leave work.
LEMMA QuietMove ==
  ASSUME IInv, NEW j \in Jobs, NEW label, NEW state, NEW n \in Nat \ {0},
         label \in {"spawned", "ready", "work", "release", "return", "finish"},
         state \in {"none", "queued", "running"},
         status' = [status EXCEPT ![j] = state],
         at' = [at EXCEPT ![j] = label], stage' = [stage EXCEPT ![j] = n],
         UNCHANGED <<lease, owes>>,
         label = "work" => n = stage[j] /\ ~ Gated(j) /\ at[j] # "work",
         lease = j => /\ label \in {"ready", "work", "release", "return", "finish"}
                      /\ label = "finish" => Kind[j] = "stt"
                      /\ Kind[j] = "analysis" =>
                           label \in {"release", "return"} /\ n = stage[j]
  PROVE  IInv'
<1> USE DEF IInv, LeaseTypes
<1>1. \A k \in Jobs : k # j \/ n = stage[j] => Stage(k)' = Stage(k)
  BY DEF Stage
<1>2. LeaseTypes' /\ OnlyHolderOwes'
  BY DEF OnlyHolderOwes
<1>3. FinishedLast'
  BY DEF FinishedLast
<1>4. GpuWorkIsLeased'
  BY <1>1 DEF LeaseDiscipline, GpuWorkIsLeased, Gated
<1>5. LeaseBetweenStages'
  BY <1>1 DEF LeaseDiscipline, LeaseBetweenStages
<1>6. LeaseIsReturned'
  BY JobsAssumption DEF LeaseDiscipline, LeaseIsReturned
<1> QED
  BY <1>2, <1>3, <1>4, <1>5, <1>6 DEF LeaseDiscipline

\* Calling a release function, at the end of a stage or of everything: whoever does
\* not hold the lease leaves it alone.
LEMMA ReleasingMove ==
  ASSUME IInv, NEW j \in Jobs, NEW label, NEW n \in Nat \ {0},
         at[j] \in {"release", "return", "unwind"},
         label \in {"ready", "return", "finish", "over"},
         CallRelease(j), at' = [at EXCEPT ![j] = label],
         stage' = [stage EXCEPT ![j] = n], UNCHANGED status,
         at[j] = "unwind" => label = "over"
  PROVE  IInv' /\ lease' # j
<1> USE DEF IInv, LeaseTypes
<1>1. lease' = (IF lease = j THEN NoJob ELSE lease) /\ lease' # j
  BY JobsAssumption DEF CallRelease, OnlyHolderOwes
<1>2. \A k \in Jobs \ {j} : Stage(k)' = Stage(k)
  BY DEF Stage
<1>3. LeaseTypes'
  BY <1>1
<1>4. OnlyHolderOwes'
  BY JobsAssumption DEF CallRelease, OnlyHolderOwes
<1>5. FinishedLast'
  BY <1>1, JobsAssumption DEF FinishedLast
<1>6. GpuWorkIsLeased'
  BY <1>1, <1>2, JobsAssumption DEF LeaseDiscipline, GpuWorkIsLeased, Gated
<1>7. LeaseBetweenStages'
  BY <1>1, <1>2, JobsAssumption DEF LeaseDiscipline, LeaseBetweenStages
<1>8. LeaseIsReturned'
  BY <1>1, JobsAssumption DEF LeaseDiscipline, LeaseIsReturned, FinishedLast
<1> QED
  BY <1>1, <1>3, <1>4, <1>5, <1>6, <1>7, <1>8 DEF LeaseDiscipline

-----------------------------------------------------------------------------
(* The steps *)

LEMMA SubmissionStep ==
  ASSUME IInv, NEW j \in Jobs, Submit(j) \/ Start(j) \/ Arrive(j)
  PROVE  IInv'
<1> USE DEF IInv, LeaseTypes, Alive, Goto
<1>1. stage' = [stage EXCEPT ![j] = stage[j]]
  BY DEF Submit, Start, Arrive
<1>2. at[j] \in {"new", "spawned"} /\ lease # j
  BY JobsAssumption DEF Submit, Start, Arrive, LeaseDiscipline, LeaseIsReturned
<1>3. status[j] \in {"none", "queued", "running"}
  BY <1>2 DEF FinishedLast
<1>4. PICK state \in {"none", "queued", "running"}, label \in {"spawned", "ready"} :
        status' = [status EXCEPT ![j] = state] /\ at' = [at EXCEPT ![j] = label]
  <2>1. CASE Submit(j)
    BY <2>1 DEF Submit
  <2>2. CASE Start(j)
    BY <2>2 DEF Start
  <2>3. CASE Arrive(j)
    <3>1. status' = [status EXCEPT ![j] = status[j]] /\ at' = [at EXCEPT ![j] = "ready"]
      BY <2>3 DEF Arrive
    <3> QED
      BY <3>1, <1>3
  <2> QED
    BY <2>1, <2>2, <2>3
<1>5. UNCHANGED <<lease, owes>>
  BY DEF Submit, Start, Arrive
<1>6. stage[j] \in Nat \ {0}
  OBVIOUS
<1> QED
  BY <1>1, <1>2, <1>4, <1>5, <1>6, QuietMove

\* A stage begins without the lease, or ends with a result, an error, or no lease.
LEMMA StageStep ==
  ASSUME IInv, NEW j \in Jobs,
         BeginUngated(j) \/ GateFails(j) \/ StageDone(j) \/ StageFails(j) \/ KeepLease(j)
  PROVE  IInv'
<1> USE DEF IInv, LeaseTypes, Alive, Goto
<1>1. at[j] \in {"ready", "work", "return"} /\ UNCHANGED <<status, lease, owes>>
  BY DEF BeginUngated, GateFails, StageDone, StageFails, KeepLease
<1>2. status[j] \in {"none", "queued", "running"} /\ status' = [status EXCEPT ![j] = status[j]]
  BY <1>1 DEF FinishedLast
<1>3. CASE BeginUngated(j)
  <2>1. at' = [at EXCEPT ![j] = "work"] /\ ~ Gated(j) /\ stage' = [stage EXCEPT ![j] = stage[j]]
    BY <1>3 DEF BeginUngated
  <2>2. at[j] = "ready" /\ (Kind[j] = "analysis" => lease # j)
    BY <1>3 DEF BeginUngated, LeaseDiscipline, LeaseBetweenStages
  <2> QED
    BY <1>1, <1>2, <2>1, <2>2, QuietMove
<1>4. CASE GateFails(j) \/ StageFails(j) \/ KeepLease(j)
  <2>1. PICK label \in {"return", "finish"} :
          /\ at' = [at EXCEPT ![j] = label] /\ stage' = [stage EXCEPT ![j] = stage[j]]
          /\ label = "finish" => Kind[j] = "stt"
    BY <1>4 DEF GateFails, StageFails, KeepLease
  <2> QED
    BY <1>1, <1>2, <2>1, QuietMove
<1>5. CASE StageDone(j)
  <2>1. PICK label \in {"release", "ready", "return"}, n \in Nat \ {0} :
          /\ at' = [at EXCEPT ![j] = label] /\ stage' = [stage EXCEPT ![j] = n]
          /\ Kind[j] = "analysis" => label = "release" /\ n = stage[j]
    <3>1. /\ AfterStage(j) \in {"release", "ready", "return"}
          /\ Kind[j] = "analysis" => AfterStage(j) = "release"
      BY DEF AfterStage
    <3>2. /\ at' = [at EXCEPT ![j] = AfterStage(j)]
          /\ stage' = [stage EXCEPT ![j] = IF AfterStage(j) = "ready" THEN @ + 1 ELSE @]
      BY <1>5 DEF StageDone
    <3>3. CASE AfterStage(j) = "ready"
      <4>1. stage[j] + 1 \in Nat \ {0} /\ stage' = [stage EXCEPT ![j] = stage[j] + 1]
        BY <3>2, <3>3
      <4> QED
        BY <3>1, <3>2, <3>3, <4>1
    <3>4. CASE AfterStage(j) # "ready"
      BY <3>1, <3>2, <3>4
    <3> QED
      BY <3>3, <3>4
  <2> QED
    BY <1>1, <1>2, <2>1, QuietMove
<1> QED
  BY <1>3, <1>4, <1>5

\* The gate grants the lease when nobody has it.
LEMMA GrantStep ==
  ASSUME IInv, NEW j \in Jobs, BeginGated(j)
  PROVE  IInv'
<1> USE JobsAssumption DEF IInv, LeaseTypes
<1>1. /\ at[j] = "ready" /\ Gated(j) /\ lease = NoJob /\ lease' = j /\ owes' = owes \cup {j}
      /\ at' = [at EXCEPT ![j] = "work"] /\ UNCHANGED <<status, stage>>
  BY DEF BeginGated, Alive, Goto
<1>2. \A k \in Jobs : Stage(k)' = Stage(k)
  BY <1>1 DEF Stage
<1>3. LeaseTypes' /\ OnlyHolderOwes' /\ FinishedLast'
  BY <1>1 DEF OnlyHolderOwes, FinishedLast
<1>4. GpuWorkIsLeased'
  BY <1>1, <1>2 DEF LeaseDiscipline, GpuWorkIsLeased, Gated
<1>5. LeaseBetweenStages'
  BY <1>1, <1>2 DEF LeaseBetweenStages, Gated
<1>6. LeaseIsReturned'
  BY <1>1 DEF LeaseDiscipline, LeaseIsReturned, FinishedLast
<1> QED
  BY <1>3, <1>4, <1>5, <1>6 DEF LeaseDiscipline

LEMMA ReleaseStep ==
  ASSUME IInv, NEW j \in Jobs, ReleaseEarly(j) \/ Return(j) \/ Unwind(j)
  PROVE  IInv'
<1> USE DEF IInv, LeaseTypes, Alive, Goto
<1>1. CASE /\ Return(j)
           /\ Kind[j] = "separation" /\ stage[j] >= 2 /\ "separate" \notin Registered
  <2>1. UNCHANGED <<status, at, stage, lease, owes>>
    BY <1>1 DEF Return
  <2> QED
    BY <2>1 DEF OnlyHolderOwes, FinishedLast, LeaseDiscipline, GpuWorkIsLeased,
                LeaseBetweenStages, LeaseIsReturned, Gated, Stage
<1>2. CASE ReleaseEarly(j) \/ Unwind(j)
           \/ /\ Return(j)
              /\ ~ (Kind[j] = "separation" /\ stage[j] >= 2 /\ "separate" \notin Registered)
  <2>1. PICK label \in {"ready", "return", "finish", "over"}, n \in Nat \ {0} :
          /\ at' = [at EXCEPT ![j] = label] /\ stage' = [stage EXCEPT ![j] = n]
          /\ at[j] = "unwind" => label = "over"
    BY <1>2 DEF ReleaseEarly, Return, Unwind
  <2>2. CallRelease(j) /\ at[j] \in {"release", "return", "unwind"} /\ UNCHANGED status
    BY <1>2 DEF ReleaseEarly, Return, Unwind, EarlyRelease, DeferredRelease
  <2> QED
    BY <2>1, <2>2, ReleasingMove
<1> QED
  BY <1>1, <1>2

\* Finishing is the one step that makes a job read finished.
LEMMA FinishStep ==
  ASSUME IInv, NEW j \in Jobs, Finish(j)
  PROVE  IInv'
<1> USE JobsAssumption DEF IInv, LeaseTypes
<1>1. /\ at[j] = "finish" /\ UNCHANGED <<stage, lease, owes>>
      /\ at' = [at EXCEPT ![j] = IF Kind[j] = "stt" THEN "unwind" ELSE "over"]
      /\ status' = [status EXCEPT ![j] = IF j \in failing THEN "failed" ELSE "succeeded"]
  BY DEF Finish, Alive, Goto
<1>2. lease = j => Kind[j] = "stt"
  BY <1>1 DEF FinishedLast
<1>3. LeaseTypes' /\ OnlyHolderOwes' /\ FinishedLast'
  BY <1>1 DEF OnlyHolderOwes, FinishedLast
<1>4. GpuWorkIsLeased' /\ LeaseBetweenStages'
  BY <1>1, <1>2 DEF LeaseDiscipline, GpuWorkIsLeased, LeaseBetweenStages, Gated, Stage
<1>5. LeaseIsReturned'
  BY <1>1, <1>2 DEF LeaseDiscipline, LeaseIsReturned
<1> QED
  BY <1>3, <1>4, <1>5 DEF LeaseDiscipline

\* Contexts, stems and panics are no business of the lease.
LEMMA Untouched ==
  ASSUME IInv, UNCHANGED <<status, at, stage, lease, owes>>
  PROVE  IInv'
  BY DEF IInv, LeaseTypes, OnlyHolderOwes, FinishedLast, LeaseDiscipline, GpuWorkIsLeased,
         LeaseBetweenStages, LeaseIsReturned, Gated, Stage

LEMMA NextInv == IInv /\ [Next]_vars => IInv'
<1> SUFFICES ASSUME IInv, [Next]_vars PROVE IInv'
  OBVIOUS
<1>1. CASE UNCHANGED vars
  BY <1>1, Untouched DEF vars
<1>2. ASSUME NEW j \in Jobs, Expire(j) \/ \E s \in Stems : WriteStem(j, s)
      PROVE  IInv'
  BY <1>2, Untouched DEF Expire, WriteStem
<1> QED
  BY <1>1, <1>2, SubmissionStep, StageStep, GrantStep, ReleaseStep, FinishStep
     DEF Next, Step

-----------------------------------------------------------------------------
(* The theorems *)

(* Every reachable state satisfies the strengthened invariant: the lease, the
   release functions that are not nil, and the place of every goroutine agree. *)
THEOREM InductiveInvariant == Spec => []IInv
<1> QED
  BY InitInv, NextInv, PTL DEF Spec

(* For any jobs, options and registered providers, GPU work is done under the
   lease, an analysis has it between no two stages, and nobody who is gone has it
   (analysisjob, separationjob, sttjob: their release functions). *)
THEOREM LeaseIsDisciplined == Spec => []LeaseDiscipline
<1>1. IInv => LeaseDiscipline
  BY DEF IInv
<1> QED
  BY <1>1, InductiveInvariant, PTL

(* A release function is called by the holder of the lease, once: each of the
   managers calls it in two places, and guards the second with nil. *)
THEOREM ReleasedByHolder == Spec => []OnlyHolderOwes
<1>1. IInv => OnlyHolderOwes
  BY DEF IInv
<1> QED
  BY <1>1, InductiveInvariant, PTL

-----------------------------------------------------------------------------
(* The stems *)

\* A separation comes to its last call without an error only behind its last stage,
\* which has written all stems; what is published is in the store.
StemsFirst ==
  /\ \A j \in Jobs : at[j] = "release" => Kind[j] = "analysis"
  /\ \A j \in Jobs : Kind[j] = "separation" =>
       /\ stage[j] \in 1..3
       /\ at[j] \in {"return", "finish"} /\ j \notin failing => Persisted(j)
  /\ DOMAIN published = Jobs /\ StemsKeptBeforeSuccess

LEMMA StemsFirstKept == IInv /\ StemsFirst /\ [Next]_vars => StemsFirst'
<1> SUFFICES ASSUME IInv, StemsFirst, [Next]_vars PROVE StemsFirst'
  OBVIOUS
<1> USE DEF IInv, LeaseTypes
<1>1. CASE UNCHANGED vars
  BY <1>1 DEF vars, StemsFirst, StemsKeptBeforeSuccess, Persisted
<1>2. ASSUME NEW j \in Jobs,
             \/ Submit(j) \/ Arrive(j) \/ Expire(j) \/ Start(j) \/ BeginUngated(j)
             \/ BeginGated(j) \/ GateFails(j) \/ StageFails(j) \/ Return(j) \/ KeepLease(j)
             \/ Unwind(j)
      PROVE  StemsFirst'
  <2>1. UNCHANGED <<stage, kept, published>> /\ failing \subseteq failing'
    BY <1>2 DEF Submit, Arrive, Expire, Start, BeginUngated, BeginGated, GateFails, StageFails,
                Return, KeepLease, Unwind
  <2>2. \A i \in Jobs : /\ at'[i] = "release" => at[i] = "release"
                        /\ at'[i] \in {"return", "finish"} /\ Kind[i] = "separation" =>
                             at[i] \in {"return", "finish"} \/ i \in failing'
    BY <1>2 DEF Submit, Arrive, Expire, Start, BeginUngated, BeginGated, GateFails, StageFails,
                Return, KeepLease, Unwind, Goto, Alive
  <2> QED
    BY <2>1, <2>2 DEF StemsFirst, StemsKeptBeforeSuccess, Persisted
<1>3. ASSUME NEW j \in Jobs, StageDone(j) PROVE StemsFirst'
  <2>1. /\ UNCHANGED <<kept, published, failing>>
        /\ at' = [at EXCEPT ![j] = AfterStage(j)]
        /\ stage' = [stage EXCEPT ![j] = IF AfterStage(j) = "ready" THEN @ + 1 ELSE @]
        /\ Stage(j) = "persist" => Persisted(j)
    BY <1>3 DEF StageDone, Goto
  <2>2. /\ AfterStage(j) \in {"release", "ready", "return"}
        /\ AfterStage(j) = "release" => Kind[j] = "analysis"
    BY DEF AfterStage
  <2>3. Kind[j] = "separation" =>
          /\ stage'[j] \in 1..3
          /\ AfterStage(j) = "return" => Stage(j) = "persist"
    <3> SUFFICES ASSUME Kind[j] = "separation"
                 PROVE  /\ stage'[j] \in 1..3
                        /\ AfterStage(j) = "return" => Stage(j) = "persist"
      OBVIOUS
    <3>1. Program(j) = <<"normalize", "separate", "persist">>
      BY DEF Program
    <3>2. stage[j] \in 1..3 /\ Len(Program(j)) = 3
      BY <3>1 DEF StemsFirst
    <3>3. AfterStage(j) = IF stage[j] < 3 THEN "ready" ELSE "return"
      BY <3>2 DEF AfterStage
    <3>4. stage[j] = 3 => Stage(j) = "persist"
      BY <3>1 DEF Stage
    <3> QED
      BY <2>1, <3>2, <3>3, <3>4
  <2> HIDE DEF IInv
  <2>4. \A i \in Jobs : i # j => stage'[i] = stage[i] /\ at'[i] = at[i]
    BY <2>1 DEF IInv
  <2>5. at'[j] = AfterStage(j)
    BY <2>1 DEF IInv
  <2> QED
    BY <2>1, <2>2, <2>3, <2>4, <2>5 DEF StemsFirst, StemsKeptBeforeSuccess, Persisted
<1>4. ASSUME NEW j \in Jobs, NEW s \in Stems, WriteStem(j, s) PROVE StemsFirst'
  BY <1>4 DEF WriteStem, StemsFirst, StemsKeptBeforeSuccess, Persisted
<1>5. ASSUME NEW j \in Jobs, ReleaseEarly(j) PROVE StemsFirst'
  <2>1. Kind[j] # "separation"
    BY <1>5 DEF ReleaseEarly, Alive, StemsFirst
  <2>2. \A i \in Jobs : i # j => stage'[i] = stage[i] /\ at'[i] = at[i]
    BY <1>5 DEF ReleaseEarly, Goto
  <2>3. at'[j] # "release" /\ UNCHANGED <<kept, published, failing>>
    BY <1>5 DEF ReleaseEarly, Goto
  <2> QED
    BY <2>1, <2>2, <2>3 DEF StemsFirst, StemsKeptBeforeSuccess, Persisted
<1>6. ASSUME NEW j \in Jobs, Finish(j) PROVE StemsFirst'
  <2>1. at[j] = "finish" /\ UNCHANGED <<kept, failing, stage>>
    BY <1>6 DEF Finish, Alive
  <2>2. \A i \in Jobs : at'[i] \in {"release", "return", "finish"} => at[i] = at'[i]
    BY <1>6 DEF Finish, Goto
  <2>3. DOMAIN published' = Jobs /\ \A i \in Jobs : \A s \in published'[i] :
          s \in published[i] \/ (i = j /\ s \in Stems /\ Kind[j] = "separation" /\ j \notin failing)
    BY <1>6 DEF Finish, StemsFirst
  <2> QED
    BY <2>1, <2>2, <2>3 DEF StemsFirst, StemsKeptBeforeSuccess, Persisted
<1> QED
  BY <1>1, <1>2, <1>3, <1>4, <1>5, <1>6 DEF Next, Step

(* For any separations and stems, the stems that a succeeded separation lists have
   been written (separationjob: persist comes before finish on its only path). *)
THEOREM StemsAreKept == Spec => []StemsKeptBeforeSuccess
<1>1. Init => StemsFirst
  BY DEF Init, StemsFirst, StemsKeptBeforeSuccess
<1>2. StemsFirst => StemsKeptBeforeSuccess
  BY DEF StemsFirst
<1> QED
  BY <1>1, <1>2, StemsFirstKept, InductiveInvariant, PTL DEF Spec

-----------------------------------------------------------------------------
(* Types *)

\* Every program has a stage to begin with.
LEMMA ProgramLength ==
  ASSUME NEW j \in Jobs
  PROVE  Len(Program(j)) \in Nat /\ Len(Program(j)) >= 1
<1> USE JobsAssumption
<1>1. CASE Kind[j] = "analysis"
  <2> DEFINE a == IF j \in Separating THEN <<"normalize", "separate">> ELSE <<>>
             b == IF j \in Transcribing THEN <<"transcribe">> ELSE <<>>
             n == <<"normalize", "diarize">>
             e == <<"embed">>
  <2>1. /\ a \in Seq(StageNames) /\ b \in Seq(StageNames)
        /\ n \in Seq(StageNames) /\ e \in Seq(StageNames)
    <3>1. {"normalize", "separate", "diarize", "transcribe", "embed"} \subseteq StageNames
      BY DEF StageNames, GpuStages
    <3>2. a \in Seq(StageNames)
      BY <3>1
    <3>3. b \in Seq(StageNames)
      BY <3>1
    <3>4. n \in Seq(StageNames)
      BY <3>1
    <3>5. e \in Seq(StageNames)
      BY <3>1
    <3> QED
      BY <3>2, <3>3, <3>4, <3>5
  <2>2. Program(j) = a \o n \o b \o e
    BY <1>1 DEF Program
  <2>3. Len(e) = 1
    OBVIOUS
  <2> HIDE DEF a, b, n, e
  <2>4. Len(a \o n \o b \o e) = Len(a) + Len(n) + Len(b) + Len(e)
    BY <2>1
  <2> QED
    BY <2>1, <2>2, <2>3, <2>4
<1>2. CASE Kind[j] # "analysis"
  <2>1. \/ Program(j) = <<"normalize", "separate", "persist">>
        \/ Program(j) = <<"refine">> \/ Program(j) = <<"live">>
    BY <1>2 DEF Program, Kinds
  <2>2. CASE Program(j) = <<"normalize", "separate", "persist">>
    BY <2>2
  <2>3. CASE Program(j) = <<"refine">> \/ Program(j) = <<"live">>
    BY <2>3
  <2> QED
    BY <2>1, <2>2, <2>3
<1> QED
  BY <1>1, <1>2

LEMMA TypeStep ==
  ASSUME IInv, TypeOK, [Next]_vars
  PROVE  TypeOK'
<1> DEFINE InProgram == \A j \in Jobs : stage[j] \in 1..Len(Program(j))
           Rest == /\ failing \subseteq Jobs /\ late \subseteq TimedOut
                   /\ kept \subseteq Jobs \X Stems /\ published \in [Jobs -> SUBSET Stems]
                   /\ crashed \in BOOLEAN /\ owes \subseteq Jobs
<1> USE JobsAssumption
<1>1. IInv'
  BY NextInv
<1>2. InProgram'
  <2> SUFFICES ASSUME NEW i \in Jobs PROVE stage'[i] \in 1..Len(Program(i))'
    OBVIOUS
  <2>1. Program(i)' = Program(i) /\ stage[i] \in 1..Len(Program(i)) /\ Len(Program(i)) \in Nat
    BY ProgramLength DEF Program, TypeOK
  <2>2. ASSUME NEW j \in Jobs, StageDone(j) PROVE stage'[i] \in 1..Len(Program(i))
    <3>1. AfterStage(j) = "ready" => stage[j] < Len(Program(j))
      BY DEF AfterStage
    <3>2. stage' = [stage EXCEPT ![j] = IF AfterStage(j) = "ready" THEN stage[j] + 1 ELSE stage[j]]
      BY <2>2 DEF StageDone
    <3> QED
      BY <2>1, <3>1, <3>2 DEF IInv, LeaseTypes
  <2>3. ASSUME NEW j \in Jobs, ReleaseEarly(j) PROVE stage'[i] \in 1..Len(Program(i))
    <3>1. \/ stage' = stage
          \/ stage[j] < Len(Program(j)) /\ stage' = [stage EXCEPT ![j] = stage[j] + 1]
      BY <2>3 DEF ReleaseEarly
    <3> QED
      BY <2>1, <3>1 DEF IInv, LeaseTypes
  <2>4. ASSUME UNCHANGED stage PROVE stage'[i] \in 1..Len(Program(i))
    BY <2>1, <2>4
  <2>5. ASSUME NEW j \in Jobs,
               \/ Submit(j) \/ Arrive(j) \/ Expire(j) \/ Start(j) \/ BeginUngated(j)
               \/ BeginGated(j) \/ GateFails(j) \/ StageFails(j) \/ (\E s \in Stems : WriteStem(j, s))
               \/ Return(j) \/ KeepLease(j) \/ Finish(j) \/ Unwind(j)
        PROVE  UNCHANGED stage
    BY <2>5 DEF Submit, Arrive, Expire, Start, BeginUngated, BeginGated, GateFails, StageFails,
                WriteStem, Return, KeepLease, Finish, Unwind
  <2> QED
    BY <2>1, <2>2, <2>3, <2>4, <2>5 DEF Next, Step, vars
<1>3. Rest'
  <2> USE DEF TypeOK
  <2>1. owes' \subseteq Jobs
    BY <1>1 DEF IInv, OnlyHolderOwes, LeaseTypes
  <2>2. CASE UNCHANGED vars
    BY <2>1, <2>2 DEF vars
  <2>3. ASSUME NEW j \in Jobs,
               \/ Submit(j) \/ Arrive(j) \/ Expire(j) \/ Start(j) \/ BeginUngated(j)
               \/ BeginGated(j) \/ GateFails(j) \/ StageDone(j) \/ StageFails(j)
        PROVE  Rest'
    BY <2>1, <2>3 DEF Submit, Arrive, Expire, Start, BeginUngated, BeginGated, GateFails,
                      StageDone, StageFails
  <2>4. ASSUME NEW j \in Jobs,
               \/ ReleaseEarly(j) \/ Return(j) \/ KeepLease(j) \/ Finish(j) \/ Unwind(j)
               \/ \E s \in Stems : WriteStem(j, s)
        PROVE  Rest'
    <3>1. CASE Finish(j)
      <4>1. published' \in [Jobs -> SUBSET Stems]
        BY <3>1 DEF Finish
      <4> QED
        BY <2>1, <3>1, <4>1 DEF Finish
    <3>2. CASE \E s \in Stems : WriteStem(j, s)
      BY <2>1, <3>2 DEF WriteStem
    <3>3. CASE ReleaseEarly(j) \/ Return(j) \/ KeepLease(j) \/ Unwind(j)
      <4>1. /\ UNCHANGED <<failing, late, kept, published>>
            /\ crashed' = TRUE \/ crashed' = crashed
        BY <3>3 DEF ReleaseEarly, Return, KeepLease, Unwind
      <4> QED
        BY <2>1, <4>1
    <3> QED
      BY <2>4, <3>1, <3>2, <3>3
  <2> QED
    BY <2>2, <2>3, <2>4 DEF Next, Step
<1> QED
  BY <1>1, <1>2, <1>3 DEF IInv, LeaseTypes, TypeOK

\* Every variable keeps its type; in particular no goroutine runs past the last stage of
\* its program.
THEOREM TypeCorrect == Spec => []TypeOK
<1>1. Init => TypeOK
  <2> SUFFICES ASSUME Init PROVE TypeOK
    OBVIOUS
  <2>1. \A j \in Jobs : stage[j] \in 1..Len(Program(j))
    BY ProgramLength DEF Init
  <2> QED
    BY <2>1 DEF Init, TypeOK
<1>2. IInv /\ TypeOK /\ [Next]_vars => TypeOK'
  BY TypeStep
<1> QED
  BY <1>1, <1>2, InductiveInvariant, PTL DEF Spec

=============================================================================
