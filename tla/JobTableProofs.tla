--------------------------- MODULE JobTableProofs ---------------------------
(***************************************************************************)
(* What holds of the job table for any number of jobs and clients: a job's *)
(* done channel is closed exactly once, an alignment that reads "succeeded"*)
(* has its result, and at most one alignment runs.                         *)
(***************************************************************************)
EXTENDS JobTable, FiniteSetTheorems, TLAPS

\* The state the producers share with the clients, without the bytes.
TableTypes ==
  /\ status \in [Jobs -> {"new", "queued", "running", "gone"} \cup Finished]
  /\ done \in [Jobs -> Nat]
  /\ ppc \in [Jobs -> {"new", "queue", "lock", "work", "store", "set", "end", "over"}]
  /\ result \subseteq Jobs /\ alignMu \in Jobs \cup {NoJob}

Open(j) == status[j] \in {"new", "queued", "running"}

\* The goroutine behind a job is the only one that closes it: as long as it has
\* not come to its last call, the job is open.  (A queued stream's handler still
\* writes the store when the worker has closed the job.)
ProducerClosesLast ==
  \A j \in Jobs : ppc[j] \notin {"over", "store"} \/ (ppc[j] = "store" /\ Kind[j] # "queued")
                  => Open(j)

ClosedOnce == \A j \in Jobs : done[j] = IF Open(j) THEN 0 ELSE 1

Aligning(j) == Kind[j] = "align" /\ ppc[j] \in {"work", "set", "end"}
HoldersAlign == \A j \in Jobs : Aligning(j) => alignMu = j
ResultBeforeEnd ==
  \A j \in Jobs : Kind[j] = "align" => /\ ppc[j] = "end" => j \in result
                                       /\ ppc[j] \notin {"store", "queue"}

IInv ==
  /\ TableTypes /\ ProducerClosesLast /\ ClosedOnce
  /\ HoldersAlign /\ ResultBeforeEnd /\ AlignReadyOnSuccess

producerState == <<status, done, ppc, result, alignMu>>

USE JobsAssumption

LEMMA InitInv == Init => IInv
  BY DEF Init, IInv, TableTypes, ProducerClosesLast, ClosedOnce, HoldersAlign,
         ResultBeforeEnd, AlignReadyOnSuccess, Aligning, Open, Finished

\* Followers, the store and the chunks leave all of it alone.
LEMMA Untouched ==
  ASSUME IInv, UNCHANGED producerState
  PROVE  IInv'
  BY DEF IInv, TableTypes, ProducerClosesLast, ClosedOnce, HoldersAlign,
         ResultBeforeEnd, AlignReadyOnSuccess, Aligning, Open, producerState

LEMMA FollowersOnlyLook ==
  ASSUME NEW c \in Clients, (\E j \in Jobs : GetJobStream(c, j)) \/ Follow(c)
  PROVE  UNCHANGED producerState
  BY DEF GetJobStream, Follow, ReceiveChunk, DeliverChunk, Leave, tableVars,
         producerVars, producerState

\* The whole step of one job, as the invariant sees it.
LEMMA JobSteps ==
  ASSUME IInv, NEW j \in Jobs,
         NewRunningJob(j) \/ Submit(j) \/ Work(j) \/ Sweep(j)
  PROVE  IInv'
<1> USE DEF IInv, TableTypes, ProducerClosesLast, ClosedOnce, HoldersAlign,
            ResultBeforeEnd, AlignReadyOnSuccess, Aligning, Open, Finished
<1>1. CASE NewRunningJob(j)
  BY <1>1 DEF NewRunningJob, Direct
<1>2. CASE Submit(j)
  BY <1>2 DEF Submit
<1>3. CASE StartQueued(j)
  BY <1>3 DEF StartQueued
<1>4. CASE LockAlign(j)
  BY <1>4 DEF LockAlign, Holder, tableVars
<1>5. CASE WorkFails(j)
  BY <1>5 DEF WorkFails, CloseJob, AfterFailure, Unlocked
<1>6. CASE WorkReturns(j)
  <2>1. BeforeComplete(j) \in {"set", "store", "end"}
    BY <1>6 DEF WorkReturns, BeforeComplete, Direct, Kinds
  <2>2. Kind[j] = "align" => BeforeComplete(j) = "set"
    BY DEF BeforeComplete
  <2>. HIDE DEF BeforeComplete
  <2>. QED BY <1>6, <2>1, <2>2 DEF WorkReturns, tableVars
<1>7. CASE FinishQueued(j)
  BY <1>7 DEF FinishQueued, CloseJob
<1>8. CASE WriteStore(j)
  BY <1>8 DEF WriteStore, tableVars
<1>9. CASE SetAlignResult(j)
  BY <1>9 DEF SetAlignResult
<1>10. CASE CompleteJob(j)
  BY <1>10 DEF CompleteJob, CloseJob, Unlocked
<1>11. CASE Sweep(j)
  BY <1>11 DEF Sweep, producerVars
<1>. QED
  BY <1>1, <1>2, <1>3, <1>4, <1>5, <1>6, <1>7, <1>8, <1>9, <1>10, <1>11 DEF Work

LEMMA NextInv == IInv /\ [Next]_vars => IInv'
<1>. SUFFICES ASSUME IInv, [Next]_vars PROVE IInv'
  OBVIOUS
<1>1. CASE UNCHANGED vars
  BY <1>1, Untouched DEF vars, tableVars, producerVars, producerState
<1>2. ASSUME NEW j \in Jobs, ProduceChunk(j) \/ SweepStore(j)
      PROVE  IInv'
  BY <1>2, Untouched DEF ProduceChunk, SweepStore, tableVars, producerVars,
                         producerState
<1>. QED
  BY <1>1, <1>2, JobSteps, FollowersOnlyLook, Untouched DEF Next

\* For every number of jobs, clients, workers and chunks the table stays in IInv.
THEOREM InductiveInvariant == Spec => []IInv
  BY InitInv, NextInv, PTL DEF Spec

\* getAlignResult never answers "alignment result not available" to a client that
\* read "succeeded" and is not overtaken by the sweeper: SetAlignResult precedes
\* CompleteJob in both alignment goroutines.
THEOREM AlignmentsAreReady == Spec => []AlignReadyOnSuccess
<1>1. IInv => AlignReadyOnSuccess
  BY DEF IInv
<1>. QED BY <1>1, InductiveInvariant, PTL

\* alignMu serialises the alignment goroutines on every path.
THEOREM AlignmentsAreSerial == Spec => []OneAlignmentAtATime
<1>1. IInv => OneAlignmentAtATime
  BY DEF IInv, HoldersAlign, Aligning, OneAlignmentAtATime
<1>. QED BY <1>1, InductiveInvariant, PTL

\* Both at once: what alignResult hands out is whole, and was computed alone.
THEOREM AlignmentsStayWhole == Spec => []AlignmentsAreWhole
<1>1. IInv => AlignmentsAreWhole
  BY DEF IInv, HoldersAlign, Aligning, OneAlignmentAtATime, AlignmentsAreWhole
<1>. QED BY <1>1, InductiveInvariant, PTL

\* CompleteJob, FailJob and finish between them close a job's done channel once:
\* a second close would panic the server, a missing one would block Wait.
THEOREM DoneClosesOnce == Spec => []ClosedOnce
<1>1. IInv => ClosedOnce
  BY DEF IInv
<1>. QED BY <1>1, InductiveInvariant, PTL

\* A stream whose handler comes to CompleteJob has been written to the store, and
\* the store's sweeper waits until the handler is over.
WrittenAtEnd ==
  \A j \in Jobs : Direct(j) =>
    /\ ppc[j] # "set"
    /\ ppc[j] = "end" => ~ HasStore \/ StoreMayFail \/ j \in store

LEMMA WrittenAtEndKept == IInv /\ WrittenAtEnd /\ [Next]_vars => WrittenAtEnd'
<1> SUFFICES ASSUME IInv, WrittenAtEnd, [Next]_vars PROVE WrittenAtEnd'
  OBVIOUS
<1> USE DEF WrittenAtEnd, Direct, IInv, TableTypes
<1>1. CASE UNCHANGED vars
  BY <1>1 DEF vars, producerVars
<1>2. ASSUME NEW c \in Clients, (\E j \in Jobs : GetJobStream(c, j)) \/ Follow(c)
      PROVE  WrittenAtEnd'
  BY <1>2 DEF GetJobStream, Follow, ReceiveChunk, DeliverChunk, producerVars
<1>3. ASSUME NEW j \in Jobs,
             \/ NewRunningJob(j) \/ Submit(j) \/ StartQueued(j) \/ LockAlign(j) \/ WorkFails(j)
             \/ FinishQueued(j) \/ SetAlignResult(j) \/ CompleteJob(j)
             \/ ProduceChunk(j) \/ Sweep(j)
      PROVE  WrittenAtEnd'
  <2>1. UNCHANGED store
    BY <1>3 DEF NewRunningJob, Submit, StartQueued, LockAlign, WorkFails, FinishQueued,
                SetAlignResult, CompleteJob, ProduceChunk, Sweep
  <2>2. \A i \in Jobs : Direct(i) => /\ ppc'[i] # "set"
                                     /\ ppc'[i] = "end" => ppc[i] = "end"
    BY <1>3 DEF NewRunningJob, Submit, StartQueued, LockAlign, WorkFails, AfterFailure,
                FinishQueued, SetAlignResult, CompleteJob, ProduceChunk, Sweep, producerVars
  <2> QED
    BY <2>1, <2>2
<1>4. ASSUME NEW j \in Jobs, WorkReturns(j) PROVE WrittenAtEnd'
  BY <1>4 DEF WorkReturns, BeforeComplete
<1>5. ASSUME NEW j \in Jobs, WriteStore(j) PROVE WrittenAtEnd'
  BY <1>5 DEF WriteStore
<1>6. ASSUME NEW j \in Jobs, SweepStore(j) PROVE WrittenAtEnd'
  BY <1>6 DEF SweepStore, producerVars
<1>. QED
  BY <1>1, <1>2, <1>3, <1>4, <1>5, <1>6 DEF Next, Work

\* For any jobs and stores, streamSpeech and createJob have written a stream's audio
\* when its job reads "succeeded": replaying it answers, if the disk took it.
THEOREM StreamsCanBeReplayed == Spec => AudioKeptBeforeSuccess
<1>1. Init => WrittenAtEnd
  BY DEF Init, WrittenAtEnd
<1>2. IInv /\ WrittenAtEnd /\ [Next]_vars =>
        [\A j \in Jobs : Direct(j) /\ status[j] = "running" /\ status'[j] = "succeeded"
           => ~ HasStore \/ StoreMayFail \/ j \in store]_vars
  <2> SUFFICES ASSUME IInv, WrittenAtEnd, Next, NEW i \in Jobs, Direct(i),
                      status[i] = "running", status'[i] = "succeeded"
               PROVE  ~ HasStore \/ StoreMayFail \/ i \in store
    OBVIOUS
  <2>1. \E j \in Jobs : CompleteJob(j) \/ FinishQueued(j)
    BY DEF Next, Work, NewRunningJob, Submit, StartQueued, LockAlign, WorkFails, CloseJob,
           WorkReturns, WriteStore, SetAlignResult, ProduceChunk, Sweep, SweepStore, Follow,
           ReceiveChunk, DeliverChunk, GetJobStream, tableVars, IInv, TableTypes, Finished
  <2>2. PICK j \in Jobs : CompleteJob(j) \/ FinishQueued(j)
    BY <2>1
  <2>3. i = j
    BY <2>2 DEF CompleteJob, FinishQueued, CloseJob, IInv, TableTypes
  <2>4. ppc[i] = "end"
    BY <2>2, <2>3 DEF CompleteJob, FinishQueued, Direct
  <2> QED
    BY <2>4 DEF WrittenAtEnd
<1>. QED
  BY <1>1, <1>2, WrittenAtEndKept, InductiveInvariant, PTL DEF Spec, AudioKeptBeforeSuccess

-----------------------------------------------------------------------------
(* The buses and their followers *)

\* Whoever follows a stream follows a job, and nothing on a bus or in a follower's hands
\* is ahead of the producer's buffer.
FollowTypes ==
  /\ bus \in [Jobs -> Seq(1..MaxChunks)] /\ busOpen \subseteq Jobs
  /\ \A j \in Jobs : Len(bus[j]) <= BusCap
  /\ chunks \in [Jobs -> 0..MaxChunks] /\ buffer \in [Jobs -> 0..MaxChunks]
  /\ store \subseteq Jobs
  /\ cpc \in [Clients -> {"idle", "follow", "deliver"}]
  /\ at \in [Clients -> Jobs \cup {NoJob}]
  /\ hand \in [Clients -> 0..MaxChunks] /\ sent \in [Clients -> 0..MaxChunks]

FollowOrder ==
  /\ buffer = chunks
  /\ \A j \in Jobs : \A i \in DOMAIN bus[j] : bus[j][i] <= buffer[j]
  /\ \A c \in Clients :
       /\ cpc[c] # "idle" => at[c] \in Jobs /\ sent[c] <= buffer[at[c]]
       /\ cpc[c] = "deliver" => hand[c] <= buffer[at[c]]
       /\ cpc[c] = "idle" => sent[c] = 0

LEMMA FollowInit == Init => FollowTypes /\ FollowOrder
  BY DEF Init, FollowTypes, FollowOrder

\* The producer: one more chunk, in its buffer and, if there is room, on the bus.
LEMMA ProduceKeeps ==
  ASSUME FollowTypes, FollowOrder, NEW j \in Jobs, ProduceChunk(j)
  PROVE  FollowTypes' /\ FollowOrder'
<1> USE DEF FollowTypes, FollowOrder
<1> DEFINE n == chunks[j] + 1
<1>1. n \in 1..MaxChunks /\ n > buffer[j] /\ n - 1 = chunks[j]
  <2>1. chunks[j] \in 0..MaxChunks /\ chunks[j] < MaxChunks /\ buffer[j] = chunks[j]
    BY DEF ProduceChunk
  <2> QED
    BY <2>1
<1>2. chunks' = [chunks EXCEPT ![j] = n] /\ buffer' = [buffer EXCEPT ![j] = n]
  BY DEF ProduceChunk
<1> HIDE DEF n
<1>3. \/ bus' = bus
      \/ Len(bus[j]) < BusCap /\ bus' = [bus EXCEPT ![j] = Append(bus[j], n)]
  BY DEF ProduceChunk, n
<1>4. UNCHANGED <<busOpen, store, clientVars>>
  BY DEF ProduceChunk
<1>5. \A i \in Jobs : buffer[i] <= buffer'[i]
  BY <1>1, <1>2
<1>6. bus' \in [Jobs -> Seq(1..MaxChunks)] /\ \A i \in Jobs : Len(bus'[i]) <= BusCap
  <2>1. CASE bus' = bus
    BY <2>1
  <2>2. CASE Len(bus[j]) < BusCap /\ bus' = [bus EXCEPT ![j] = Append(bus[j], n)]
    <3>1. bus[j] \in Seq(1..MaxChunks) /\ Len(bus[j]) \in Nat
      OBVIOUS
    <3>2. Append(bus[j], n) \in Seq(1..MaxChunks) /\ Len(Append(bus[j], n)) = Len(bus[j]) + 1
      BY <1>1, <3>1
    <3> QED
      BY <2>2, <3>1, <3>2
  <2> QED
    BY <1>3, <2>1, <2>2
<1>7. \A k \in Jobs : \A i \in DOMAIN bus'[k] : bus'[k][i] <= buffer'[k]
  <2> SUFFICES ASSUME NEW k \in Jobs, NEW i \in DOMAIN bus'[k] PROVE bus'[k][i] <= buffer'[k]
    OBVIOUS
  <2>1. CASE bus'[k] = bus[k]
    <3>1. bus[k] \in Seq(1..MaxChunks) /\ i \in 1..Len(bus[k]) /\ bus[k][i] \in 1..MaxChunks
      BY <2>1
    <3>2. bus[k][i] <= buffer[k] /\ buffer[k] \in Nat /\ buffer'[k] \in Nat
      BY <1>1, <1>2, <2>1
    <3> QED
      BY <1>5, <2>1, <3>1, <3>2
  <2>2. CASE bus'[k] # bus[k]
    <3>1. k = j /\ bus'[k] = Append(bus[j], n) /\ bus[j] \in Seq(1..MaxChunks)
      BY <1>3, <2>2
    <3>2. i \in 1..Len(bus[j]) \/ i = Len(bus[j]) + 1
      BY <3>1
    <3>3. buffer'[k] = n
      BY <1>2, <3>1
    <3>4. CASE i \in 1..Len(bus[j])
      <4>1. bus'[k][i] = bus[j][i] /\ bus[j][i] <= buffer[j] /\ bus[j][i] \in Nat
        BY <3>1, <3>4
      <4> QED
        BY <1>1, <3>3, <4>1
    <3>5. CASE i = Len(bus[j]) + 1
      BY <1>1, <3>1, <3>3, <3>5
    <3> QED
      BY <3>2, <3>4, <3>5
  <2> QED
    BY <2>1, <2>2
<1>8. \A c \in Clients : cpc[c] # "idle" =>
        /\ at[c] \in Jobs /\ buffer[at[c]] \in Nat /\ buffer'[at[c]] \in Nat
        /\ buffer[at[c]] <= buffer'[at[c]] /\ sent[c] \in Nat /\ hand[c] \in Nat
  BY <1>1, <1>2, <1>5
<1>9. FollowTypes'
  <2>1. n \in 0..MaxChunks
    BY <1>1
  <2>2. chunks' \in [Jobs -> 0..MaxChunks] /\ buffer' \in [Jobs -> 0..MaxChunks]
    BY <1>2, <2>1
  <2> QED
    BY <1>4, <1>6, <2>2 DEF clientVars
<1>10. buffer' = chunks'
  BY <1>2
<1>11. \A c \in Clients :
         /\ cpc'[c] # "idle" => at'[c] \in Jobs /\ sent'[c] <= buffer'[at'[c]]
         /\ cpc'[c] = "deliver" => hand'[c] <= buffer'[at'[c]]
         /\ cpc'[c] = "idle" => sent'[c] = 0
  BY <1>4, <1>8 DEF clientVars
<1> QED
  BY <1>7, <1>9, <1>10, <1>11

\* A follower: it takes the oldest chunk of the bus, and is sent what the buffer holds.
LEMMA FollowKeeps ==
  ASSUME FollowTypes, FollowOrder, NEW c \in Clients,
         (\E j \in Jobs : GetJobStream(c, j)) \/ Follow(c)
  PROVE  FollowTypes' /\ FollowOrder'
<1> USE DEF FollowTypes, FollowOrder, tableVars, producerVars
<1>1. ASSUME NEW j \in Jobs, GetJobStream(c, j)
      PROVE  FollowTypes' /\ FollowOrder'
  BY <1>1 DEF GetJobStream
<1>2. CASE ReceiveChunk(c)
  <2>1. CASE bus[at[c]] # <<>>
    <3> DEFINE j == at[c]
               b == bus[j]
    <3>1. j \in Jobs /\ b \in Seq(1..MaxChunks) /\ b # <<>>
      BY <1>2, <2>1 DEF ReceiveChunk
    <3>2. /\ hand' = [hand EXCEPT ![c] = Head(b)] /\ bus' = [bus EXCEPT ![j] = Tail(b)]
          /\ cpc' = [cpc EXCEPT ![c] = "deliver"]
          /\ UNCHANGED <<at, sent, busOpen, chunks, buffer, store>>
      BY <1>2, <2>1 DEF ReceiveChunk
    <3>3. 1 \in DOMAIN b /\ Head(b) = b[1] /\ Head(b) \in 1..MaxChunks /\ Tail(b) \in Seq(1..MaxChunks)
          /\ Len(Tail(b)) = Len(b) - 1 /\ Len(b) \in Nat
          /\ \A i \in DOMAIN Tail(b) : i + 1 \in DOMAIN b /\ Tail(b)[i] = b[i + 1]
      BY <3>1
    <3>4. Head(b) <= buffer[j] /\ Len(b) <= BusCap
      BY <3>1, <3>3
    <3>5. \A i \in DOMAIN Tail(b) : Tail(b)[i] <= buffer[j]
      BY <3>1, <3>3
    <3> HIDE DEF b, j
    <3>6. bus' \in [Jobs -> Seq(1..MaxChunks)] /\ \A k \in Jobs : Len(bus'[k]) <= BusCap
      BY <3>1, <3>2, <3>3, <3>4 DEF b
    <3>7. \A k \in Jobs : \A i \in DOMAIN bus'[k] : bus'[k][i] <= buffer'[k]
      BY <3>1, <3>2, <3>5 DEF b
    <3>8. FollowTypes'
      BY <3>2, <3>3, <3>6
    <3>9. \A d \in Clients :
            /\ cpc'[d] # "idle" => at'[d] \in Jobs /\ sent'[d] <= buffer'[at'[d]]
            /\ cpc'[d] = "deliver" => hand'[d] <= buffer'[at'[d]]
            /\ cpc'[d] = "idle" => sent'[d] = 0
      BY <1>2, <3>1, <3>2, <3>4 DEF j, ReceiveChunk
    <3> QED
      BY <3>2, <3>7, <3>8, <3>9
  <2>2. CASE bus[at[c]] = <<>>
    <3>1. /\ cpc' = [cpc EXCEPT ![c] = "idle"] /\ at' = [at EXCEPT ![c] = NoJob]
          /\ hand' = [hand EXCEPT ![c] = 0] /\ sent' = [sent EXCEPT ![c] = 0]
          /\ UNCHANGED <<bus, busOpen, chunks, buffer, store>>
      BY <1>2, <2>2 DEF ReceiveChunk, Leave
    <3>2. 0 \in 0..MaxChunks
      OBVIOUS
    <3>3. FollowTypes'
      BY <3>1, <3>2
    <3> QED
      BY <3>1, <3>3
  <2> QED
    BY <2>1, <2>2
<1>3. CASE DeliverChunk(c)
  BY <1>3 DEF DeliverChunk
<1> QED
  BY <1>1, <1>2, <1>3 DEF Follow

LEMMA FollowStep ==
  ASSUME FollowTypes, FollowOrder, [Next]_vars
  PROVE  FollowTypes' /\ FollowOrder'
<1>1. ASSUME NEW j \in Jobs, ProduceChunk(j) PROVE FollowTypes' /\ FollowOrder'
  BY <1>1, ProduceKeeps
<1>2. ASSUME NEW c \in Clients, (\E j \in Jobs : GetJobStream(c, j)) \/ Follow(c)
      PROVE  FollowTypes' /\ FollowOrder'
  BY <1>2, FollowKeeps
<1>3. ASSUME UNCHANGED <<bus, chunks, buffer, clientVars>>,
             busOpen' \subseteq Jobs, store' \subseteq Jobs
      PROVE  FollowTypes' /\ FollowOrder'
  BY <1>3 DEF FollowTypes, FollowOrder, clientVars
<1>4. ASSUME NEW j \in Jobs, NewRunningJob(j) \/ Submit(j) \/ Work(j) \/ Sweep(j) \/ SweepStore(j)
      PROVE  /\ UNCHANGED <<bus, chunks, buffer, clientVars>>
             /\ busOpen' \subseteq Jobs /\ store' \subseteq Jobs
  BY <1>4 DEF NewRunningJob, Submit, Work, StartQueued, LockAlign, WorkFails, WorkReturns,
              FinishQueued, WriteStore, SetAlignResult, CompleteJob, CloseJob, Sweep, SweepStore,
              tableVars, producerVars, FollowTypes
<1>5. CASE UNCHANGED vars
  BY <1>3, <1>5 DEF vars, tableVars, producerVars, FollowTypes
<1> QED
  BY <1>1, <1>2, <1>3, <1>4, <1>5 DEF Next

\* Every variable keeps its type; a bus never holds more than its capacity, however far
\* the followers lag behind (BumpChunk drops what does not fit).
THEOREM TypeCorrect == Spec => []TypeOK
<1>1. IInv /\ FollowTypes => TypeOK
  BY DEF IInv, TableTypes, ClosedOnce, FollowTypes, TypeOK
<1> QED
  BY <1>1, FollowInit, FollowStep, InductiveInvariant, PTL DEF Spec

\* Although getJobStream sends what the buffer holds by now, and not what was put on the
\* bus, a follower is never sent an older chunk than the one it took, nor an older one
\* than before: chunks may be skipped or repeated, and their order stays.
THEOREM FollowersGoForward ==
  Spec => [][\A c \in Clients : cpc[c] = "deliver" /\ cpc'[c] = "follow"
               => hand[c] <= sent'[c] /\ sent[c] <= sent'[c]]_vars
<1>1. FollowTypes /\ FollowOrder /\ [Next]_vars =>
        [\A c \in Clients : cpc[c] = "deliver" /\ cpc'[c] = "follow"
           => hand[c] <= sent'[c] /\ sent[c] <= sent'[c]]_vars
  <2> SUFFICES ASSUME FollowTypes, FollowOrder, Next, NEW c \in Clients,
                      cpc[c] = "deliver", cpc'[c] = "follow"
               PROVE  hand[c] <= sent'[c] /\ sent[c] <= sent'[c]
    OBVIOUS
  <2>1. DeliverChunk(c)
    BY DEF Next, NewRunningJob, Submit, Work, StartQueued, LockAlign, WorkFails, WorkReturns,
           FinishQueued, WriteStore, SetAlignResult, CompleteJob, ProduceChunk, Sweep, SweepStore,
           GetJobStream, Follow, ReceiveChunk, DeliverChunk, Leave, clientVars, FollowTypes
  <2> QED
    BY <2>1 DEF DeliverChunk, FollowTypes, FollowOrder
<1> QED
  BY <1>1, FollowInit, FollowStep, PTL DEF Spec
=============================================================================
