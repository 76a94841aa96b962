---------------------------- MODULE SpeechStreams ----------------------------
(***************************************************************************)
(* Speech that is sent while it is made: server.streamSpeech and createJob  *)
(* on espeak-ng, which run the synthesis themselves, and                   *)
(* server.queuedStreamSpeech on omnivoice and supertonic, where a worker   *)
(* of the queue runs it while the handler waits.                           *)
(*                                                                         *)
(* Audio is a sequence of chunks 1..Chunks.  espeak's chunks go from the   *)
(* process through a copying goroutine straight to the client (wav), or    *)
(* through an io.Pipe and ffmpeg (every other format); each process, each  *)
(* goroutine that copies for one and the handler take steps of their own.  *)
(* Scheduling of the queued streams (order, groups, idle timers) is in     *)
(* JobQueue, the stream bus in JobTable.                                   *)
(***************************************************************************)
EXTENDS Naturals, Sequences, FiniteSets, SequencesExt

CONSTANTS
  Requests,
  Kinds,          \* how each request may be served: a set of kinds per request
  Slots,          \* capacity of streamSem["espeak-ng"] (StreamWorkers)
  Chunks,         \* bound: chunks of audio in a request
  Timeout         \* requestTimeout is set

Espeak == {"wav", "encoded", "job"}        \* job: POST /jobs with stream, as wav
Queued == {"omnivoice", "supertonic"}

ASSUME KindsAssumption == Kinds \in [Requests -> SUBSET (Espeak \cup Queued)]
ASSUME BoundsAssumption == /\ Slots \in Nat \ {0} /\ Chunks \in Nat \ {0}
                           /\ Timeout \in BOOLEAN

VARIABLES
  kind,           \* the format and the provider of the request
  pc,             \* the handler (or createJob's goroutine)
  gone,           \* the request's context is done: client gone or out of time
  header, body,   \* the response: its status, the chunks (0: an error text)
  buf,            \* what has been collected for the store
  job,            \* the job's status
  stored,         \* the audio in the store, by request
  synth, error,   \* the SynthesizeStream call and what it returned
  source, made,   \* espeak-ng, or the sidecar: its state, chunks made
  copier, copied, \* the goroutine that reads espeak's stdout, chunks it passed on
  enc, feeding,   \* ffmpeg; the goroutine that copies the pipe to its stdin
  fed             \* chunks ffmpeg has read

handlerVars == <<pc, gone, header, body, stored>>
jobVars     == <<job, synth, error, buf>>
procVars    == <<source, made, copier, copied, enc, feeding, fed>>
vars == <<kind, handlerVars, jobVars, procVars>>

NotStored == <<0>>
Audio == {s \in UNION {[1..n -> 1..Chunks] : n \in 0..Chunks} :
            \A i, j \in DOMAIN s : i < j => s[i] < s[j]}

TypeOK ==
  /\ kind \in [Requests -> Espeak \cup Queued]
  /\ pc \in [Requests -> {"new", "slot", "stream", "store", "wait", "giveup", "over"}]
  /\ gone \in [Requests -> BOOLEAN] /\ header \in [Requests -> {"none", "audio", "error"}]
  /\ \A r \in Requests : body[r] \in Seq(0..Chunks) /\ buf[r] \in Audio
                         /\ stored[r] \in Audio \cup {NotStored}
  /\ job \in [Requests -> {"none", "queued", "running", "succeeded", "failed"}]
  /\ synth \in [Requests -> {"off", "open", "read", "returned"}] /\ error \in [Requests -> BOOLEAN]
  /\ source \in [Requests -> {"off", "on", "ended", "failed"}]
  /\ enc \in [Requests -> {"off", "on", "done", "quit"}]
  /\ copier \in [Requests -> {"off", "reading", "offering", "stopped", "returned"}]
  /\ \A r \in Requests : /\ 0 <= fed[r] /\ fed[r] <= copied[r]
                         /\ copied[r] <= made[r] /\ made[r] <= Chunks
  /\ feeding \in [Requests -> BOOLEAN]

Each(v) == [r \in Requests |-> v]

Init ==
  /\ kind \in {k \in [Requests -> Espeak \cup Queued] : \A r \in Requests : k[r] \in Kinds[r]}
  /\ pc = Each("new") /\ gone = Each(FALSE) /\ header = Each("none") /\ body = Each(<<>>)
  /\ stored = Each(NotStored) /\ job = Each("none") /\ synth = Each("off")
  /\ error = Each(FALSE) /\ buf = Each(<<>>) /\ source = Each("off") /\ made = Each(0)
  /\ copier = Each("off") /\ copied = Each(0) /\ enc = Each("off") /\ feeding = Each(FALSE)
  /\ fed = Each(0)

Set(f, r, v) == f' = [f EXCEPT ![r] = v]
Bump(f, r)   == f' = [f EXCEPT ![r] = @ + 1]

-----------------------------------------------------------------------------
(* The response *)

\* The first header to be written counts; what is written after the handler has
\* returned reaches nobody.
WriteHeader(r, status) ==
  header' = IF pc[r] # "over" /\ header[r] = "none" THEN [header EXCEPT ![r] = status] ELSE header
WriteBody(r, item) ==
  body' = IF pc[r] # "over" THEN [body EXCEPT ![r] = Append(@, item)] ELSE body

\* writeProviderError: a status and a JSON text, whatever has been written before.
WriteProviderError(r) == WriteHeader(r, "error") /\ WriteBody(r, 0)

\* Slip: the writer that counts the chunks collects them as well.
WriteTwice(r, c) ==
  /\ buf' = [buf EXCEPT ![r] = @ \o <<c, c>>]
  /\ IF kind[r] = "job" THEN UNCHANGED body ELSE WriteBody(r, c)

\* The response first, then the buffer (MultiWriter); a job has only the buffer.  A
\* write can fail once the client is gone.
Write(r, c) ==
  /\ buf' = [buf EXCEPT ![r] = Append(@, c)]
  /\ IF kind[r] = "job" THEN UNCHANGED body ELSE WriteBody(r, c)
WriteFails(r) == gone[r] /\ UNCHANGED <<buf, body>>

-----------------------------------------------------------------------------
(* The handlers *)

\* The provider is a Lifecycle, or it is not.  A job's context is never done.
Speech(r) ==
  /\ pc[r] = "new"
  /\ CASE kind[r] \in Queued -> Set(pc, r, "wait") /\ Set(job, r, "queued") /\ UNCHANGED synth
       [] kind[r] = "job" -> Set(pc, r, "stream") /\ Set(job, r, "running") /\ Set(synth, r, "open")
       [] OTHER -> Set(pc, r, "slot") /\ UNCHANGED <<job, synth>>
  /\ UNCHANGED <<kind, gone, header, body, stored, error, buf, procVars>>

HoldsSlot(r) == kind[r] \in {"wav", "encoded"} /\ pc[r] \in {"stream", "store"}
SlotFree == Cardinality({r \in Requests : HoldsSlot(r)}) < Slots

StreamSpeech(r) ==
  /\ pc[r] = "slot" /\ SlotFree
  /\ Set(pc, r, "stream") /\ Set(job, r, "running") /\ Set(synth, r, "open")
  /\ UNCHANGED <<kind, gone, header, body, stored, error, buf, procVars>>

NoSlot(r) ==
  /\ pc[r] = "slot" /\ gone[r]
  /\ Set(pc, r, "over") /\ WriteProviderError(r)
  /\ UNCHANGED <<kind, gone, stored, jobVars, procVars>>

\* flushWriter.headerWritten is set by a write, not by the header.  (A write that fails
\* sets it too; but then nobody is there to read an error text.)
NeverWritten(r) == FALSE   \* slip
HeaderWritten(r) == body[r] # <<>>

\* SynthesizeStream has returned to streamSpeech, or to createJob's goroutine.
Synthesized(r) ==
  /\ pc[r] = "stream" /\ synth[r] = "returned"
  /\ \/ /\ error[r]
        /\ Set(pc, r, "over") /\ Set(job, r, "failed")
        /\ IF kind[r] = "job" \/ HeaderWritten(r) THEN UNCHANGED <<header, body>>
                                                ELSE WriteProviderError(r)
        /\ UNCHANGED stored
     \/ ~ error[r] /\ Set(pc, r, "store") /\ Set(stored, r, buf[r]) /\ UNCHANGED <<header, body, job>>
  /\ UNCHANGED <<kind, gone, synth, error, buf, procVars>>

CompleteJob(r) ==
  /\ pc[r] = "store"
  /\ Set(pc, r, "over") /\ Set(job, r, "succeeded")
  /\ UNCHANGED <<kind, gone, header, body, stored, synth, error, buf, procVars>>

\* queuedStreamSpeech behind Wait: the job is done, or the context is.  The header's
\* flag is read here and the error written in a step of its own.
Waited(r) ==
  /\ pc[r] = "wait"
  /\ \/ /\ job[r] = "succeeded"
        /\ Set(stored, r, buf[r]) /\ Set(pc, r, "over")
     \/ /\ job[r] = "failed" \/ gone[r]
        /\ Set(pc, r, IF header[r] = "none" THEN "giveup" ELSE "over")
        /\ UNCHANGED stored
  /\ UNCHANGED <<kind, gone, header, body, jobVars, procVars>>

GiveUp(r) ==
  /\ pc[r] = "giveup"
  /\ Set(pc, r, "over") /\ WriteProviderError(r)
  /\ UNCHANGED <<kind, gone, stored, jobVars, procVars>>

\* The client disconnects, or the request runs out of time.
Leave(r) ==
  /\ kind[r] # "job" /\ pc[r] \notin {"new", "over"} /\ ~ gone[r]
  /\ Set(gone, r, TRUE)
  /\ UNCHANGED <<kind, pc, header, body, stored, jobVars, procVars>>

-----------------------------------------------------------------------------
(* espeak.Provider.SynthesizeStream, on ExecStream and ExecStreamIO *)

\* The header is sent at once.  A process that does not start has failed; with the
\* context done, none does.
EspeakStream(r) ==
  /\ kind[r] \in Espeak /\ synth[r] = "open"
  /\ Set(synth, r, "read")
  /\ IF kind[r] = "job" THEN UNCHANGED header ELSE WriteHeader(r, "audio")
  /\ \/ ~ gone[r] /\ Set(source, r, "on") /\ Set(copier, r, "reading")
     \/ Set(source, r, "failed") /\ Set(copier, r, "stopped")
  /\ IF kind[r] # "encoded" THEN UNCHANGED <<enc, feeding>>
     ELSE \/ ~ gone[r] /\ Set(enc, r, "on") /\ Set(feeding, r, TRUE)
          \/ Set(enc, r, "quit") /\ UNCHANGED feeding
  /\ UNCHANGED <<kind, pc, gone, body, stored, job, error, buf, made, copied, fed>>

\* espeak-ng writes to its stdout, ends, or fails: by itself, killed with the
\* context, or because nobody reads any more.
EspeakRuns(r) ==
  /\ kind[r] \in Espeak /\ source[r] = "on"
  /\ \/ made[r] < Chunks /\ copier[r] # "stopped" /\ Bump(made, r) /\ UNCHANGED source
     \/ made[r] = Chunks /\ Set(source, r, "ended") /\ UNCHANGED made
     \/ Set(source, r, "failed") /\ UNCHANGED made
  /\ UNCHANGED <<kind, handlerVars, jobVars, copier, copied, enc, feeding, fed>>

\* The goroutine of espeak's stdout: to the client, or into the pipe, where a write
\* waits for its reader.
CopyOut(r) ==
  /\ copier[r] = "reading" /\ copied[r] < made[r]
  /\ IF kind[r] = "encoded" THEN Set(copier, r, "offering") /\ UNCHANGED <<body, buf, copied>>
     ELSE \/ Write(r, copied[r] + 1) /\ Bump(copied, r) /\ UNCHANGED copier
          \/ WriteFails(r) /\ Set(copier, r, "stopped") /\ UNCHANGED copied
  /\ UNCHANGED <<kind, pc, gone, header, stored, job, synth, error, source, made, enc, feeding, fed>>

EndOfOutput(r) ==
  /\ copier[r] = "reading" /\ copied[r] = made[r] /\ source[r] \in {"ended", "failed"}
  /\ Set(copier, r, "stopped")
  /\ UNCHANGED <<kind, handlerVars, jobVars, source, made, copied, enc, feeding, fed>>

\* Wait: the process has ended and its output is copied, or the copy has failed.  With
\* the pipe this is the goroutine's end: pw.CloseWithError, espeakDone.
EspeakError(r) == [error EXCEPT ![r] = source[r] = "failed" \/ copied[r] < made[r]]
EspeakReturns(r) ==
  /\ copier[r] = "stopped" /\ source[r] \in {"ended", "failed"}
  /\ Set(copier, r, "returned") /\ error' = EspeakError(r)
  /\ IF kind[r] = "encoded" THEN UNCHANGED synth ELSE Set(synth, r, "returned")
  /\ UNCHANGED <<kind, handlerVars, job, buf, source, made, copied, enc, feeding, fed>>

NeverClosed(r) == FALSE   \* slip: the goroutine ends without closing the pipe
PipeClosed(r) == copier[r] = "returned"

\* The goroutine of ffmpeg's stdin.  A chunk for a process that has gone is the last
\* one it takes; the pipe's end, with espeak's error or without, ends it too.
Feed(r) ==
  /\ feeding[r]
  /\ \/ /\ copier[r] = "offering"
        /\ Bump(copied, r) /\ Set(copier, r, "reading")
        /\ IF enc[r] = "on" THEN Bump(fed, r) /\ UNCHANGED feeding
                            ELSE Set(feeding, r, FALSE) /\ UNCHANGED fed
     \/ PipeClosed(r) /\ Set(feeding, r, FALSE) /\ UNCHANGED <<copied, copier, fed>>
  /\ UNCHANGED <<kind, handlerVars, jobVars, source, made, enc>>

\* ffmpeg's chunks are sent by a goroutine of its stdout, in step with it.  It ends
\* behind its input, or quits before: by itself, or when it cannot write.
Encode(r) ==
  /\ enc[r] = "on"
  /\ \/ Len(buf[r]) < fed[r] /\ Write(r, Len(buf[r]) + 1) /\ UNCHANGED enc
     \/ /\ Len(buf[r]) < fed[r] /\ WriteFails(r)
        /\ Set(enc, r, "quit")
     \/ ~ feeding[r] /\ Len(buf[r]) = fed[r] /\ Set(enc, r, "done") /\ UNCHANGED <<body, buf>>
     \/ Set(enc, r, "quit") /\ UNCHANGED <<body, buf>>
  /\ UNCHANGED <<kind, pc, gone, header, stored, job, synth, error, source, made, copier, copied,
                 feeding, fed>>

\* EncodeStream returns, then <-espeakDone.  Slip: the encoder's error is dropped.
DropsEncError(r) == error
EncError(r) == [error EXCEPT ![r] = @ \/ enc[r] = "quit"]
EncodeReturns(r) ==
  /\ kind[r] = "encoded" /\ synth[r] = "read"
  /\ enc[r] \in {"done", "quit"} /\ ~ feeding[r] /\ copier[r] = "returned"
  /\ Set(synth, r, "returned") /\ error' = EncError(r)
  /\ UNCHANGED <<kind, handlerVars, job, buf, procVars>>

-----------------------------------------------------------------------------
(* The queue's worker on a Streamer *)

\* run: one job of a provider at a time; the model is made warm first, which may
\* fail.  A caller who has left does not take the job back.
Run(r) ==
  /\ kind[r] \in Queued /\ job[r] = "queued"
  /\ \A q \in Requests : kind[q] = kind[r] => job[q] # "running"
  /\ Set(job, r, "running")
  /\ Set(synth, r, "open")
  /\ UNCHANGED <<kind, handlerVars, error, buf, procVars>>

\* SynthesizeStream up to the answer's status: StartFunc (supertonic), the reference
\* upload (omnivoice), the request, which fails when the context is done.
OpenStream(r) ==
  /\ kind[r] \in Queued /\ synth[r] = "open"
  /\ \/ Set(synth, r, "returned") /\ Set(error, r, TRUE) /\ UNCHANGED source
     \/ ~ gone[r] /\ Set(synth, r, "read") /\ Set(source, r, "on") /\ UNCHANGED error
  /\ UNCHANGED <<kind, handlerVars, job, buf, made, copier, copied, enc, feeding, fed>>

\* What the callback of SynthesizeStream makes of the end of the events; outcome is
\* "nil" (the stream just ends), "EOF" (it said done), "read" or "write".
OmnivoiceError(outcome, headerSent) == outcome \in {"read", "write"} /\ ~ headerSent
SupertonicError(outcome, headerSent) == outcome # "nil"
StreamError(r, outcome, headerSent) ==
  IF kind[r] = "omnivoice" THEN OmnivoiceError(outcome, headerSent)
                           ELSE SupertonicError(outcome, headerSent)

EventsEnd(r, outcome, headerSent) ==
  /\ Set(synth, r, "returned") /\ Set(error, r, StreamError(r, outcome, headerSent))
  /\ Set(source, r, "ended")

\* readSSEEvents: a chunk, a chunk that does not decode, the end that is announced, or
\* any other.  The header goes with the first event.
ReadEvent(r) ==
  /\ kind[r] \in Queued /\ synth[r] = "read"
  /\ \/ /\ made[r] < Chunks /\ Bump(made, r) /\ WriteHeader(r, "audio")
        /\ \/ Write(r, made[r] + 1) /\ UNCHANGED <<synth, error, source>>
           \/ UNCHANGED <<body, buf, synth, error, source>>
           \/ WriteFails(r) /\ EventsEnd(r, "write", TRUE)
     \/ /\ made[r] = Chunks /\ WriteHeader(r, "audio")
        /\ EventsEnd(r, "EOF", TRUE) /\ UNCHANGED <<body, buf, made>>
     \/ /\ \E outcome \in {"nil", "read"} : EventsEnd(r, outcome, made[r] > 0)
        /\ UNCHANGED <<header, body, buf, made>>
  /\ UNCHANGED <<kind, pc, gone, stored, job, copier, copied, enc, feeding, fed>>

Finish(r) ==
  /\ kind[r] \in Queued /\ job[r] = "running" /\ synth[r] = "returned"
  /\ Set(job, r, IF error[r] THEN "failed" ELSE "succeeded")
  /\ UNCHANGED <<kind, handlerVars, synth, error, buf, procVars>>

-----------------------------------------------------------------------------
Handle(r) == StreamSpeech(r) \/ NoSlot(r) \/ Synthesized(r) \/ CompleteJob(r) \/ Waited(r) \/ GiveUp(r)
Synthesize(r) ==
  \/ EspeakStream(r) \/ EspeakRuns(r) \/ CopyOut(r) \/ EndOfOutput(r) \/ EspeakReturns(r)
  \/ Feed(r) \/ Encode(r) \/ EncodeReturns(r)
  \/ Run(r) \/ OpenStream(r) \/ ReadEvent(r) \/ Finish(r)

Next == \E r \in Requests : Speech(r) \/ Leave(r) \/ Handle(r) \/ Synthesize(r)

Spec == Init /\ [][Next]_vars

\* Handlers, workers and goroutines go on; espeak-ng, ffmpeg and the sidecars end what
\* they began.  A request that waits runs out of time, if there is a timeout.
Fairness ==
  /\ \A r \in Requests : WF_vars(Handle(r)) /\ WF_vars(Synthesize(r))
  /\ Timeout => \A r \in Requests : WF_vars(Leave(r))

FairSpec == Spec /\ Fairness

-----------------------------------------------------------------------------
(* Safety *)

\* What the store keeps of a stream is what its client was sent, chunk for chunk and
\* nothing else: the handler of a queued stream copies what another goroutine has
\* collected, and only a write that reached the client may have been collected.
StoredIsSent == \A r \in Requests : stored[r] # NotStored /\ kind[r] # "job" => stored[r] = body[r]

\* An espeak job succeeds only with all of its audio, however its two processes and
\* three goroutines end: an early exit of either process or a lost client shows.
EspeakWhole ==
  \A r \in Requests : kind[r] \in Espeak /\ job[r] = "succeeded" => buf[r] = [i \in 1..Chunks |-> i]

\* A stream is stored before its job is seen to have succeeded, and a failed one never.
StoredBeforeSuccess ==
  \A r \in Requests : kind[r] \in Espeak => /\ job[r] = "succeeded" => stored[r] # NotStored
                                            /\ job[r] = "failed" => stored[r] = NotStored

KeptAudio == StoredIsSent /\ EspeakWhole /\ StoredBeforeSuccess

\* An error text behind audio would be played as audio: only a caller of a queued
\* stream who leaves before the first byte can get both.
ErrorBehindAudio(r) == \E i, j \in DOMAIN body[r] : i < j /\ body[r][i] # 0 /\ body[r][j] = 0
ErrorNeverFollowsAudio == \A r \in Requests : ErrorBehindAudio(r) => kind[r] \in Queued /\ gone[r]

-----------------------------------------------------------------------------
(* Liveness *)

\* espeak's goroutine offers a chunk that nobody will take: ffmpeg has gone, and the
\* pipe's reading end is never closed.
Stuck(r) == copier[r] = "offering" /\ ~ feeding[r]

\* Every stream comes to an end, if need be when its time runs out, and a queued one's
\* job does; a stream that does not is stuck behind an encoder that has gone.
StreamsEnd ==
  \A r \in Requests : pc[r] # "new" ~> Stuck(r) \/ (pc[r] = "over" /\ job[r] \notin {"queued", "running"})

-----------------------------------------------------------------------------
(* What a comment says and the code does not *)

\* server.go of streamSpeech: "if the client disconnects or the request times out, the
\* underlying synthesis is genuinely cancelled".
CancelledStreamEnds == \A r \in Requests : gone[r] ~> pc[r] = "over"
==============================================================================
