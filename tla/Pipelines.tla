----------------------------- MODULE Pipelines -----------------------------
(***************************************************************************)
(* Everything but speech synthesis that runs on the shared execution lease:*)
(* analysis, separation and post-processing jobs (analysisjob,             *)
(* separationjob, sttjob) and live sessions (server.liveTranscription; an  *)
(* upload to transcribe is a shorter session to the others).  Each is a    *)
(* goroutine that goes through a few stages; some stages take the lease.   *)
(*                                                                         *)
(* The lease is GpuLease's, seen from outside: Lifecycle has the rest.     *)
(***************************************************************************)
EXTENDS Naturals, Sequences, FiniteSets

CONSTANTS
  Jobs, NoJob,
  Kind,          \* one of Kinds for each
  Separating, Transcribing,  \* analyses with those options
  Refines,       \* the live session a post-processing job belongs to, or NoJob
  Registered,    \* the gated stages whose provider the lifecycle manager knows
  TimedOut,      \* jobs whose request timeout can expire
  Stems          \* what the separator returns and the request wants

Kinds == {"analysis", "separation", "stt", "live"}
GpuStages == {"separate", "diarize", "transcribe", "refine", "live"}
StageNames == GpuStages \cup {"normalize", "embed", "persist"}

ASSUME JobsAssumption ==
  /\ NoJob \notin Jobs /\ Kind \in [Jobs -> Kinds]
  /\ Separating \subseteq Jobs /\ Transcribing \subseteq Jobs
  /\ Refines \in [Jobs -> Jobs \cup {NoJob}]
  /\ Registered \subseteq GpuStages
  /\ \A j \in TimedOut : j \in Jobs /\ Kind[j] # "live"

VARIABLES
  status,       \* of each job; sessions have none and stay "none"
  at, stage,    \* where the goroutine is, in which stage of its program
  lease, owes,  \* who was granted the lease; whose release is not nil
  failing,      \* goroutines that are returning an error
  late,         \* expired contexts
  kept,         \* the stems written to the store, as pairs <<job, stem>>
  published,    \* Result.Stems
  crashed       \* a goroutine has panicked, and the server with it

vars == <<status, at, stage, lease, owes, failing, late, kept, published, crashed>>

Program(j) ==
  CASE Kind[j] = "analysis" ->
         (IF j \in Separating THEN <<"normalize", "separate">> ELSE <<>>)
         \o <<"normalize", "diarize">>
         \o (IF j \in Transcribing THEN <<"transcribe">> ELSE <<>>) \o <<"embed">>
    [] Kind[j] = "separation" -> <<"normalize", "separate", "persist">>
    [] Kind[j] = "stt" -> <<"refine">>
    [] Kind[j] = "live" -> <<"live">>

Stage(j) == Program(j)[stage[j]]
Gated(j) == Stage(j) \in Registered
Managed(j) == Kind[j] \in {"analysis", "separation", "stt"}

TypeOK ==
  /\ status \in [Jobs -> {"none", "queued", "running", "succeeded", "failed"}]
  /\ at \in [Jobs -> {"new", "spawned", "ready", "work", "release", "return", "finish",
                      "unwind", "over"}]
  /\ \A j \in Jobs : stage[j] \in 1..Len(Program(j))
  /\ lease \in Jobs \cup {NoJob} /\ owes \subseteq Jobs
  /\ failing \subseteq Jobs /\ late \subseteq TimedOut
  /\ kept \subseteq Jobs \X Stems /\ published \in [Jobs -> SUBSET Stems]
  /\ crashed \in BOOLEAN

Init ==
  /\ status = [j \in Jobs |-> "none"] /\ at = [j \in Jobs |-> "new"]
  /\ stage = [j \in Jobs |-> 1]
  /\ lease = NoJob /\ owes = {} /\ failing = {} /\ late = {}
  /\ kept = {} /\ published = [j \in Jobs |-> {}] /\ crashed = FALSE

Goto(j, label) == at' = [at EXCEPT ![j] = label]

\* A panic takes the whole process down: nothing moves any more.
Alive(j, label) == ~ crashed /\ at[j] = label

-----------------------------------------------------------------------------
(* Submission *)

\* Submit of the three managers; a live session submits its own refinement.
Submit(j) ==
  /\ Alive(j, "new") /\ Managed(j)
  /\ Refines[j] # NoJob => at[Refines[j]] = "work" /\ Stage(Refines[j]) = "live"
  /\ status' = [status EXCEPT ![j] = "queued"]
  /\ Goto(j, "spawned")
  /\ UNCHANGED <<stage, lease, owes, failing, late, kept, published, crashed>>

\* The first section of run; its context starts to count here.
Start(j) ==
  /\ Alive(j, "spawned")
  /\ status' = [status EXCEPT ![j] = "running"]
  /\ Goto(j, "ready")
  /\ UNCHANGED <<stage, lease, owes, failing, late, kept, published, crashed>>

\* A session: its handler does the work.
Arrive(j) ==
  /\ Alive(j, "new") /\ ~ Managed(j)
  /\ Goto(j, "ready")
  /\ UNCHANGED <<status, stage, lease, owes, failing, late, kept, published, crashed>>

Expire(j) ==
  /\ j \in TimedOut \ late /\ at[j] \notin {"new", "spawned", "over"}
  /\ late' = late \cup {j}
  /\ UNCHANGED <<status, at, stage, lease, owes, failing, kept, published, crashed>>

-----------------------------------------------------------------------------
(* The stages *)

BeginUngated(j) ==
  /\ Alive(j, "ready") /\ ~ Gated(j)
  /\ Goto(j, "work")
  /\ UNCHANGED <<status, stage, lease, owes, failing, late, kept, published, crashed>>

\* Acquire waits for the lease, whatever happens to the context meanwhile.
BeginGated(j) ==
  /\ Alive(j, "ready") /\ Gated(j) /\ lease = NoJob
  /\ lease' = j /\ owes' = owes \cup {j}
  /\ Goto(j, "work")
  /\ UNCHANGED <<status, stage, failing, late, kept, published, crashed>>

\* The model cannot be started: Acquire gives the lease back itself.
GateFails(j) ==
  /\ Alive(j, "ready") /\ Gated(j) /\ lease = NoJob
  /\ failing' = failing \cup {j}
  /\ Goto(j, "return")
  /\ UNCHANGED <<status, stage, lease, owes, late, kept, published, crashed>>

OneStageTooMany(j) ==   \* slip
  IF Kind[j] = "analysis" THEN "release"
  ELSE IF stage[j] <= Len(Program(j)) THEN "ready" ELSE "return"

\* Where a goroutine goes when a stage has returned: an analysis releases the
\* lease first.
AfterStage(j) ==
  IF Kind[j] = "analysis" THEN "release"
  ELSE IF stage[j] < Len(Program(j)) THEN "ready" ELSE "return"

SomePersisted(j) == \E s \in Stems : <<j, s>> \in kept   \* slip: write errors are skipped
Persisted(j) == \A s \in Stems : <<j, s>> \in kept

\* The stage needs its context, except for the writes to the store.
StageDone(j) ==
  /\ Alive(j, "work")
  /\ Stage(j) = "persist" \/ j \notin late
  /\ Stage(j) = "persist" => Persisted(j)
  /\ Goto(j, AfterStage(j))
  /\ stage' = [stage EXCEPT ![j] = IF AfterStage(j) = "ready" THEN @ + 1 ELSE @]
  /\ UNCHANGED <<status, lease, owes, failing, late, kept, published, crashed>>

StageFails(j) ==
  /\ Alive(j, "work")
  /\ failing' = failing \cup {j}
  /\ Goto(j, "return")
  /\ UNCHANGED <<status, stage, lease, owes, late, kept, published, crashed>>

\* One stem goes to the store.
WriteStem(j, s) ==
  /\ Alive(j, "work") /\ Stage(j) = "persist"
  /\ <<j, s>> \notin kept
  /\ kept' = kept \cup {<<j, s>>}
  /\ UNCHANGED <<status, at, stage, lease, owes, failing, late, published, crashed>>

\* Slips: the variable is not reset, so the deferred closure releases again;
\* the release is left to the deferred closure.
ForgetsReset(j) ==
  IF j \in owes THEN lease' = NoJob /\ UNCHANGED owes ELSE UNCHANGED <<lease, owes>>
LeavesItDeferred(j) == UNCHANGED <<lease, owes>>

\* A release function is called if it is not nil, and the variable reset.
CallRelease(j) ==
  IF j \in owes THEN lease' = NoJob /\ owes' = owes \ {j} ELSE UNCHANGED <<lease, owes>>

\* release(); release = nil, between two stages of an analysis.
EarlyRelease(j) == CallRelease(j)
ReleaseEarly(j) ==
  /\ Alive(j, "release")
  /\ EarlyRelease(j)
  /\ IF stage[j] < Len(Program(j))
     THEN Goto(j, "ready") /\ stage' = [stage EXCEPT ![j] = @ + 1]
     ELSE Goto(j, "return") /\ UNCHANGED stage
  /\ UNCHANGED <<status, failing, late, kept, published, crashed>>

-----------------------------------------------------------------------------
(* The way out *)

\* Slip: only the successful path releases.
ReleaseOnSuccess(j) == IF j \in failing THEN UNCHANGED <<lease, owes>> ELSE CallRelease(j)
DeferredRelease(j) == CallRelease(j)

\* analyze and separate have returned with their deferred calls; a handler is done.
\* separate defers a release that is nil when its separator is not registered.
Return(j) ==
  /\ Alive(j, "return") /\ Kind[j] # "stt"
  /\ IF Kind[j] = "separation" /\ stage[j] >= 2 /\ "separate" \notin Registered
     THEN crashed' = TRUE /\ UNCHANGED <<at, lease, owes>>
     ELSE /\ DeferredRelease(j)
          /\ Goto(j, IF Managed(j) THEN "finish" ELSE "over")
          /\ UNCHANGED crashed
  /\ UNCHANGED <<status, stage, failing, late, kept, published>>

\* sttjob.run keeps the lease until it has recorded its result.
KeepLease(j) ==
  /\ Alive(j, "return") /\ Kind[j] = "stt"
  /\ Goto(j, "finish")
  /\ UNCHANGED <<status, stage, lease, owes, failing, late, kept, published, crashed>>

Finish(j) ==
  /\ Alive(j, "finish")
  /\ status' = [status EXCEPT ![j] = IF j \in failing THEN "failed" ELSE "succeeded"]
  /\ published' = [published EXCEPT ![j] =
                     IF Kind[j] = "separation" /\ j \notin failing THEN Stems ELSE {}]
  /\ Goto(j, IF Kind[j] = "stt" THEN "unwind" ELSE "over")
  /\ UNCHANGED <<stage, lease, owes, failing, late, kept, crashed>>

Unwind(j) ==
  /\ Alive(j, "unwind")
  /\ DeferredRelease(j)
  /\ Goto(j, "over")
  /\ UNCHANGED <<status, stage, failing, late, kept, published, crashed>>

-----------------------------------------------------------------------------
Step(j) ==
  \/ Start(j) \/ BeginUngated(j) \/ BeginGated(j) \/ GateFails(j)
  \/ StageDone(j) \/ StageFails(j) \/ (\E s \in Stems : WriteStem(j, s))
  \/ ReleaseEarly(j) \/ Return(j) \/ KeepLease(j) \/ Finish(j) \/ Unwind(j)

Next == \E j \in Jobs : Submit(j) \/ Arrive(j) \/ Expire(j) \/ Step(j)

Spec == Init /\ [][Next]_vars

\* Goroutines run and providers answer.  No goroutine has a loop, so it is enough
\* that some goroutine goes on; what a live session does, once it has the lease, is
\* its client's business.
InSession(j) == Kind[j] = "live" /\ at[j] = "work"

FairSpec == Spec /\ WF_vars(\E j \in Jobs : ~ InSession(j) /\ Step(j))

\* Clients of live sessions that commit or hang up sooner or later.
CourteousSpec == FairSpec /\ WF_vars(\E j \in Jobs : InSession(j) /\ Step(j))

-----------------------------------------------------------------------------
(* Safety *)

\* Whoever works on the GPU has the lease, although three different idioms give
\* it back (an early call and a deferred one that may both come, a deferred one
\* that holds it over later work, and one that runs after the job has finished).
GpuWorkIsLeased ==
  \A j \in Jobs : at[j] = "work" /\ Gated(j) => lease = j

\* docs/api.md: dialogue separation, diarization and STT release the lease between
\* stages; an analysis holds it neither while it waits for its next stage nor while
\* it normalises or embeds.
LeaseBetweenStages ==
  \A j \in Jobs : Kind[j] = "analysis" /\ lease = j =>
    at[j] \in {"work", "release", "return"} /\ Stage(j) \in GpuStages

\* A job that reads finished is done with the GPU, except for a post-processing
\* job, whose release comes after its last write: no other goroutine is left that
\* would have to give the lease back.
LeaseIsReturned ==
  /\ lease # NoJob => at[lease] \notin {"new", "spawned", "over"}
  /\ \A j \in Jobs : status[j] \in {"succeeded", "failed"} =>
       lease # j \/ (Kind[j] = "stt" /\ at[j] = "unwind")

\* The lease is held for every piece of GPU work, for nothing else that lasts, and
\* by no one who is gone.
LeaseDiscipline == GpuWorkIsLeased /\ LeaseBetweenStages /\ LeaseIsReturned

\* The stems a succeeded separation lists have been written before.
StemsKeptBeforeSuccess ==
  \A j \in Jobs : \A s \in published[j] : <<j, s>> \in kept

-----------------------------------------------------------------------------
(* Liveness *)

\* Every accepted job finishes, whatever stage fails or times out, if no live
\* session stays open for ever.
EveryJobFinishes ==
  \A j \in Jobs : status[j] = "queued" ~> status[j] \in {"succeeded", "failed"}

-----------------------------------------------------------------------------
(* What a comment says and the code does not *)

\* queue.go on RunGate: acquiring is optional, so a nil release is an answer the
\* jobs survive.  No run lists it; README.md says how to see it violated.
ServerSurvives == ~ crashed

=============================================================================
