------------------------------ MODULE JobTable ------------------------------
(***************************************************************************)
(* The job table (queue.Manager.jobs) as the HTTP handlers use it: jobs    *)
(* that a handler drives itself (NewRunningJob ... CompleteJob/FailJob,    *)
(* with a StreamBus), streams that go through the queue, alignments, the   *)
(* audio store, the two sweepers, and clients that follow a live stream.   *)
(*                                                                         *)
(* Every section under m.mu, and every store operation, is one action.     *)
(* Handlers that only read (polls, replays) change nothing and are left    *)
(* out; the order of queued jobs is JobQueue's.  One provider.             *)
(***************************************************************************)
EXTENDS Naturals, Sequences, FiniteSets

CONSTANTS
  Jobs, Clients, NoJob,
  Kind,          \* what each request is, one of Kinds
  HasStore,      \* an audio store is configured
  StoreMayFail,  \* writing to it can fail
  StreamWorkers, \* the size of the provider's streamSem
  MaxChunks,     \* bound: chunks a stream produces
  BusCap         \* capacity of a StreamBus (64 in the code)

\* speech: POST speech with stream on a provider without a lifecycle;
\* streamJob: POST jobs with stream on such a provider; align: POST alignments;
\* queued: POST speech with stream on a provider with a lifecycle.
Kinds == {"speech", "streamJob", "align", "queued"}

ASSUME JobsAssumption ==
  /\ NoJob \notin Jobs /\ Kind \in [Jobs -> Kinds] /\ IsFiniteSet(Jobs)
  /\ HasStore \in BOOLEAN /\ StoreMayFail \in BOOLEAN /\ StreamWorkers \in Nat \ {0}
  /\ MaxChunks \in Nat /\ BusCap \in Nat \ {0}

VARIABLES
  status,          \* of each job; "gone" once it is swept from m.jobs
  done,            \* how often job.done was closed
  bus, busOpen,    \* the chunks in StreamBus; the bus exists and is open
  chunks, buffer,  \* StreamChunks; the chunk in the producer's copy buffer
  ppc,             \* where the goroutine or handler behind a job is
  result,          \* jobs with an AlignResult
  alignMu,         \* the alignment job that holds it
  store,           \* jobs with stored audio
  cpc, at,         \* what each follower's handler is doing, and to which job
  hand, sent       \* the chunk it took from the bus; the one it wrote last

tableVars    == <<status, done, bus, busOpen, chunks, result>>
producerVars == <<buffer, ppc, alignMu>>
clientVars   == <<cpc, at, hand, sent>>
vars == <<tableVars, producerVars, store, clientVars>>

Finished == {"succeeded", "failed"}
Direct(j) == Kind[j] \in {"speech", "streamJob"}

TypeOK ==
  /\ status \in [Jobs -> {"new", "queued", "running", "gone"} \cup Finished]
  /\ done \in [Jobs -> 0..1]
  /\ bus \in [Jobs -> Seq(1..MaxChunks)] /\ busOpen \subseteq Jobs
  /\ \A j \in Jobs : Len(bus[j]) <= BusCap
  /\ chunks \in [Jobs -> 0..MaxChunks] /\ buffer \in [Jobs -> 0..MaxChunks]
  /\ ppc \in [Jobs -> {"new", "queue", "lock", "work", "store", "set", "end", "over"}]
  /\ result \subseteq Jobs /\ alignMu \in Jobs \cup {NoJob}
  /\ store \subseteq Jobs
  /\ cpc \in [Clients -> {"idle", "follow", "deliver"}]
  /\ at \in [Clients -> Jobs \cup {NoJob}]
  /\ hand \in [Clients -> 0..MaxChunks] /\ sent \in [Clients -> 0..MaxChunks]

Init ==
  /\ status = [j \in Jobs |-> "new"] /\ done = [j \in Jobs |-> 0]
  /\ bus = [j \in Jobs |-> <<>>] /\ busOpen = {}
  /\ chunks = [j \in Jobs |-> 0] /\ buffer = [j \in Jobs |-> 0]
  /\ ppc = [j \in Jobs |-> "new"]
  /\ result = {} /\ alignMu = NoJob /\ store = {}
  /\ cpc = [c \in Clients |-> "idle"] /\ at = [c \in Clients |-> NoJob]
  /\ hand = [c \in Clients |-> 0] /\ sent = [c \in Clients |-> 0]

-----------------------------------------------------------------------------
(* The job table *)

Streaming == {j \in Jobs : Direct(j) /\ status[j] = "running"}
Slots == {j \in Streaming : Kind[j] = "speech"}

\* NewRunningJob, called with a streamSem slot by streamSpeech, and without by
\* createJob and the alignment handlers.
NewRunningJob(j) ==
  /\ ppc[j] = "new" /\ Kind[j] \in {"speech", "streamJob", "align"}
  /\ Kind[j] = "speech" => Cardinality(Slots) < StreamWorkers
  /\ status' = [status EXCEPT ![j] = "running"]
  /\ busOpen' = busOpen \cup {j}
  /\ ppc' = [ppc EXCEPT ![j] = IF Direct(j) THEN "work" ELSE "lock"]
  /\ UNCHANGED <<done, bus, chunks, result, buffer, alignMu, store,
                 clientVars>>

Submit(j) ==
  /\ ppc[j] = "new" /\ Kind[j] = "queued"
  /\ status' = [status EXCEPT ![j] = "queued"]
  /\ ppc' = [ppc EXCEPT ![j] = "queue"]
  /\ UNCHANGED <<done, bus, busOpen, chunks, result, buffer, alignMu, store,
                 clientVars>>

\* FailJob and CompleteJob: done is closed and the bus goes away with them.
CloseKeepsBus(j, s) ==   \* slip
  /\ status' = [status EXCEPT ![j] = s]
  /\ done' = [done EXCEPT ![j] = @ + 1]
  /\ busOpen' = IF s = "failed" THEN busOpen ELSE busOpen \ {j}
  /\ UNCHANGED <<bus, chunks>>
CloseJob(j, s) ==
  /\ status' = [status EXCEPT ![j] = s]
  /\ done' = [done EXCEPT ![j] = @ + 1]
  /\ busOpen' = busOpen \ {j}
  /\ UNCHANGED <<bus, chunks>>

\* sweep: only finished jobs go, with everything the table knew of them, JobTTL
\* after their end.  That is ten minutes or so: longer than the handler behind the
\* job needs for its last look at it.
Sweep(j) ==
  /\ status[j] \in Finished /\ ppc[j] = "over"
  /\ status' = [status EXCEPT ![j] = "gone"]
  /\ result' = result \ {j}
  /\ UNCHANGED <<done, bus, busOpen, chunks, producerVars, store, clientVars>>

\* The store's own TTL passes and its sweeper removes the file.
SweepStore(j) ==
  /\ j \in store /\ ppc[j] = "over"
  /\ store' = store \ {j}
  /\ UNCHANGED <<tableVars, producerVars, clientVars>>

-----------------------------------------------------------------------------
(* The producers *)

\* The copy loop reads into its one buffer and writes it: BumpChunk puts the
\* slice on the bus, not the bytes, and drops it when the bus is full.  A queued
\* stream has no bus.
ProduceChunk(j) ==
  /\ Kind[j] # "align"
  /\ ppc[j] = "work" /\ chunks[j] < MaxChunks
  /\ chunks' = [chunks EXCEPT ![j] = @ + 1]
  /\ buffer' = [buffer EXCEPT ![j] = chunks[j] + 1]
  /\ bus' = IF j \in busOpen /\ Len(bus[j]) < BusCap
            THEN [bus EXCEPT ![j] = Append(@, chunks[j] + 1)] ELSE bus
  /\ UNCHANGED <<status, done, busOpen, result, ppc, alignMu, store,
                 clientVars>>

\* Where a job goes when its work fails: nowhere, FailJob was the last call.
FallThrough(j) == "end"   \* slip: the return after FailJob is missing
AfterFailure(j) == "over"

\* The deferred Unlock runs on both ways out.
StillLocked(j) == IF alignMu = j /\ ppc[j] = "end" THEN NoJob ELSE alignMu   \* slip
Unlocked(j) == IF alignMu = j THEN NoJob ELSE alignMu

\* SynthesizeStream, Align or the queued job's run returns an error.
WorkFails(j) ==
  /\ ppc[j] = "work"
  /\ CloseJob(j, "failed")
  /\ ppc' = [ppc EXCEPT ![j] = AfterFailure(j)]
  /\ alignMu' = Unlocked(j)
  /\ UNCHANGED <<result, buffer, store, clientVars>>

\* What comes between the work and CompleteJob.
CompleteFirst(j) == "end"   \* slip: the result is published before it is kept
BeforeComplete(j) ==
  IF Kind[j] = "align" THEN "set" ELSE IF HasStore THEN "store" ELSE "end"

WorkReturns(j) ==
  /\ ppc[j] = "work" /\ Kind[j] # "queued"
  /\ ppc' = [ppc EXCEPT ![j] = BeforeComplete(j)]
  /\ UNCHANGED <<tableVars, buffer, alignMu, store, clientVars>>

\* audioStore.Write before CompleteJob in a directly driven stream, after Wait
\* in a queued one.  Its error is ignored.
WriteStore(j) ==
  /\ ppc[j] = "store"
  /\ \/ store' = store \cup {j}
     \/ StoreMayFail /\ UNCHANGED store
  /\ ppc' = [ppc EXCEPT ![j] = IF Kind[j] = "queued" THEN "over" ELSE "end"]
  /\ UNCHANGED <<tableVars, buffer, alignMu, clientVars>>

SetAlignResult(j) ==
  /\ ppc[j] = "set"
  /\ result' = result \cup {j}
  /\ ppc' = [ppc EXCEPT ![j] = "end"]
  /\ UNCHANGED <<status, done, bus, busOpen, chunks, buffer, alignMu, store,
                 clientVars>>

CompleteJob(j) ==
  /\ ppc[j] = "end"
  /\ CloseJob(j, "succeeded")
  /\ ppc' = [ppc EXCEPT ![j] = "over"]
  /\ alignMu' = Unlocked(j)
  /\ UNCHANGED <<result, buffer, store, clientVars>>

\* Who has alignMu after Lock returned and the Unlock was deferred.
NoHolder(j) == NoJob   \* slip: the defer in front of Unlock is missing
Holder(j) == j

LockAlign(j) ==
  /\ ppc[j] = "lock" /\ alignMu = NoJob
  /\ alignMu' = Holder(j)
  /\ ppc' = [ppc EXCEPT ![j] = "work"]
  /\ UNCHANGED <<tableVars, buffer, store, clientVars>>

\* A worker has taken the job.
StartQueued(j) ==
  /\ ppc[j] = "queue"
  /\ status' = [status EXCEPT ![j] = "running"]
  /\ ppc' = [ppc EXCEPT ![j] = "work"]
  /\ UNCHANGED <<done, bus, busOpen, chunks, result, buffer, alignMu, store,
                 clientVars>>

\* finish; then the handler of the stream keeps the audio, unless its Wait had
\* timed out before.
FinishQueued(j) ==
  /\ ppc[j] = "work" /\ Kind[j] = "queued"
  /\ CloseJob(j, "succeeded")
  /\ \E next \in {"over"} \cup (IF HasStore THEN {"store"} ELSE {}) :
       ppc' = [ppc EXCEPT ![j] = next]
  /\ UNCHANGED <<result, buffer, alignMu, store, clientVars>>

-----------------------------------------------------------------------------
(* The followers *)

\* getJobStream of a running job; everything else is answered at once.
GetJobStream(c, j) ==
  /\ cpc[c] = "idle"
  /\ status[j] = "running" /\ j \in busOpen
  /\ cpc' = [cpc EXCEPT ![c] = "follow"]
  /\ at' = [at EXCEPT ![c] = j]
  /\ UNCHANGED <<tableVars, producerVars, store, hand, sent>>

Leave(c) ==
  /\ cpc' = [cpc EXCEPT ![c] = "idle"]
  /\ at' = [at EXCEPT ![c] = NoJob]
  /\ hand' = [hand EXCEPT ![c] = 0] /\ sent' = [sent EXCEPT ![c] = 0]

\* range over the channel: buffered chunks are still received after close.
ReceiveChunk(c) ==
  LET j == at[c] IN
  /\ cpc[c] = "follow"
  /\ \/ /\ bus[j] # <<>>
        /\ hand' = [hand EXCEPT ![c] = Head(bus[j])]
        /\ bus' = [bus EXCEPT ![j] = Tail(@)]
        /\ cpc' = [cpc EXCEPT ![c] = "deliver"]
        /\ UNCHANGED <<at, sent>>
     \/ /\ bus[j] = <<>> /\ j \notin busOpen
        /\ Leave(c)
        /\ UNCHANGED bus
  /\ UNCHANGED <<status, done, busOpen, chunks, result, producerVars, store>>

\* What goes out is what the producer's buffer holds by now.
DeliverChunk(c) ==
  /\ cpc[c] = "deliver"
  /\ sent' = [sent EXCEPT ![c] = buffer[at[c]]]
  /\ cpc' = [cpc EXCEPT ![c] = "follow"]
  /\ UNCHANGED <<at, hand, tableVars, producerVars, store>>

-----------------------------------------------------------------------------
Work(j) ==
  \/ StartQueued(j) \/ LockAlign(j) \/ WorkFails(j) \/ WorkReturns(j)
  \/ FinishQueued(j) \/ WriteStore(j) \/ SetAlignResult(j) \/ CompleteJob(j)

Follow(c) == ReceiveChunk(c) \/ DeliverChunk(c)

Next ==
  \/ \E j \in Jobs :
       \/ NewRunningJob(j) \/ Submit(j) \/ Work(j) \/ ProduceChunk(j)
       \/ Sweep(j) \/ SweepStore(j)
  \/ \E c \in Clients : (\E j \in Jobs : GetJobStream(c, j)) \/ Follow(c)

Spec == Init /\ [][Next]_vars

\* A provider answers a request in the end (it has a timeout or fails), and the
\* Go scheduler runs the goroutines that can run: a job needs finitely many steps,
\* so it is enough that some job goes on.  A follower that stays connected accepts
\* what it is sent.  Nobody must submit, and the sweepers promise nothing.
Fairness ==
  /\ WF_vars(\E j \in Jobs : Work(j))
  /\ \A c \in Clients : WF_vars(Follow(c))

FairSpec == Spec /\ Fairness

-----------------------------------------------------------------------------
(* Safety *)

\* A client that reads "succeeded" from an alignment job finds the result in its
\* next look at the table: the goroutine stores it before it completes the job,
\* and the sweeper takes both away together.
AlignReadyOnSuccess ==
  \A j \in Jobs : Kind[j] = "align" /\ status[j] = "succeeded" => j \in result

\* The aligner is never called for two jobs at a time, although each alignment
\* has a goroutine of its own and a failing one leaves early.
OneAlignmentAtATime ==
  \A i, j \in Jobs : Kind[i] = "align" /\ Kind[j] = "align"
                     /\ ppc[i] \in {"work", "set", "end"} /\ ppc[j] \in {"work", "set", "end"}
                     => i = j

\* An alignment is computed on its own and there as a whole once it reads
\* succeeded, whatever alignments before it did.
AlignmentsAreWhole == AlignReadyOnSuccess /\ OneAlignmentAtATime

\* A stream's audio can be replayed from the moment its job reads "succeeded"
\* (as long as the disk takes it): the handler writes the file first.
AudioKeptBeforeSuccess ==
  [][\A j \in Jobs : Direct(j) /\ status[j] = "running" /\ status'[j] = "succeeded"
       => ~ HasStore \/ StoreMayFail \/ j \in store]_vars

-----------------------------------------------------------------------------
(* Liveness *)

\* Whoever follows a live stream is released when the stream is over, however it
\* ended and whatever was still buffered: the range loop in getJobStream ends only
\* if the bus is closed.
FollowersEnd == \A c \in Clients : cpc[c] = "follow" ~> cpc[c] = "idle"

\* Every accepted job is finished: no alignment waits for ever behind a failed one.
AcceptedJobsFinish ==
  \A j \in Jobs : status[j] \in {"queued", "running"} ~> status[j] \in Finished

\* A job comes to its end for everybody: its status does, and its bus does.
JobsEnd == FollowersEnd /\ AcceptedJobsFinish

-----------------------------------------------------------------------------
(* What a comment says and the code does not *)

\* Job.StreamBus "carries PCM chunks to zero or more subscribers": what a follower
\* is sent is the chunk it took from the bus.  No run lists it; README.md says how
\* to see it violated.
ChunksArriveIntact ==
  [][\A c \in Clients : cpc[c] = "deliver" /\ cpc'[c] = "follow"
       => sent'[c] = hand[c]]_vars

=============================================================================
