---------------------------- MODULE LiveSessions ----------------------------
(***************************************************************************)
(* Live transcription and buffered uploads on Moonshine, from the handler  *)
(* (server.liveTranscription, server.transcriptions) over the provider's   *)
(* liveStream to the sidecar's Engine (stt/moonshine/server.py), and the   *)
(* recording of both in the corpus (sttcorpus).                            *)
(*                                                                         *)
(* Every Engine method runs under Engine.lock and is one action; a call    *)
(* whose caller has given up is still executed, later.  Corpus files and   *)
(* the manifest are written one after the other, and the server may stop   *)
(* between any two of these steps: what an invariant says of the corpus    *)
(* holds after a crash.  A text is the sequence of frames it was made of.  *)
(***************************************************************************)
EXTENDS Naturals, Sequences, FiniteSets, SequencesExt

CONSTANTS
  Sessions, Uploads,  \* the requests
  Nobody,
  Language,           \* of each request
  Closed,             \* the Engine has no stream
  Unloaded,           \* the Engine has no model
  MaxFrames,          \* bound: frames a client sends
  Limit,              \* how many of its frames fit in maxUploadBytes, for each
  IdleUnload,         \* the sidecar runs with an idle-unload delay
  MaxFired,           \* bound: timer callbacks that wait for the lock at a time
  ClientsWait         \* no client goes away while its session is being opened

Requests == Sessions \cup Uploads

ASSUME RequestsAssumption ==
  /\ Sessions \cap Uploads = {} /\ Nobody \notin Requests
  /\ IsFiniteSet(Requests) /\ Closed \notin Requests
  /\ Unloaded \notin {Language[r] : r \in Requests}
ASSUME BoundsAssumption ==
  /\ MaxFrames \in Nat /\ Limit \in [Requests -> Nat] /\ MaxFired \in Nat
  /\ IdleUnload \in BOOLEAN /\ ClientsWait \in BOOLEAN

VARIABLES
  pc, lease,       \* the handlers; who holds the lease for Moonshine
  frames,          \* frames read from each client
  clip,            \* Session.pcm, or an upload's audio
  capture,         \* "on", "dropped", or "done": session and captured
  text,            \* lastText and lastLines, or the final update
  todo,            \* the lines whose clips Finish has yet to write
  isFinal,         \* requests whose text is the final update
  streamClosed,    \* liveStream.closed
  owner, heard,    \* the Engine's stream: who opened it, what was fed to it
  snapshot,        \* Engine.last_snapshot
  model,           \* Engine.loaded_language
  armed, fired,    \* Engine.idle_timer is ticking; callbacks that wait for the lock
  late,            \* calls the Engine has yet to execute for callers who are gone
  files, manifest, \* the corpus; a batch of rows per append, for each request
  lost             \* requests for which a write to the corpus has failed

handlerVars == <<pc, lease, frames, clip, capture, text, todo, isFinal, streamClosed>>
engineVars  == <<owner, heard, snapshot, model, armed, fired>>
corpusVars  == <<files, manifest, lost>>
vars == <<handlerVars, engineVars, late, corpusVars>>

\* A text and where its completed lines end: what was heard, as frame numbers.
NoText == [of |-> <<>>, ends |-> {}]
Frames == Requests \X (1..MaxFrames + 1)
IsText(t) == t.of \in Seq(Frames) /\ t.ends \subseteq 1..Len(t.of)

Rows(r) == IF manifest[r] = <<>> THEN {} ELSE UNION {manifest[r][i] : i \in DOMAIN manifest[r]}

TypeOK ==
  /\ pc \in [Requests -> {"new", "open", "loop", "transcribe", "flush", "session", "lines",
                          "append", "close", "release", "over"}]
  /\ lease \in Requests \cup {Nobody}
  /\ frames \in [Requests -> 0..MaxFrames] /\ streamClosed \subseteq Sessions
  /\ capture \in [Requests -> {"on", "dropped", "done"}] /\ isFinal \subseteq Requests
  /\ \A r \in Requests : IsText(text[r]) /\ clip[r] \in Seq(Frames) /\ todo[r] \subseteq text[r].ends
  /\ owner \in Sessions \cup {Closed} /\ heard \in Seq(Frames) /\ IsText(snapshot)
  /\ model \in {Language[r] : r \in Requests} \cup {Unloaded}
  /\ armed \in BOOLEAN /\ fired \in 0..MaxFired
  /\ late \subseteq (Sessions \X {"begin", "reset"}) \cup (Uploads \X {"transcribe"})
  /\ files \subseteq Requests \X (0..MaxFrames + 1) /\ lost \subseteq Requests

Init ==
  /\ pc = [r \in Requests |-> "new"] /\ lease = Nobody
  /\ frames = [r \in Requests |-> 0] /\ clip = [r \in Requests |-> <<>>]
  /\ capture = [r \in Requests |-> "on"]
  /\ text = [r \in Requests |-> NoText] /\ todo = [r \in Requests |-> {}]
  /\ isFinal = {} /\ streamClosed = {}
  /\ owner = Closed /\ heard = <<>> /\ snapshot = NoText
  /\ model \in {Unloaded} \cup {Language[r] : r \in Requests}   \* --preload
  /\ armed = FALSE /\ fired = 0 /\ late = {}
  /\ files = {} /\ manifest = [r \in Requests |-> <<>>] /\ lost = {}

Goto(r, label) == pc' = [pc EXCEPT ![r] = label]

-----------------------------------------------------------------------------
(* The Engine *)

ResetStream == owner' = Closed /\ heard' = <<>> /\ snapshot' = NoText

\* Timer.cancel does nothing about a callback that already waits for the lock.
CancelIdleTimer == armed' = FALSE
ResetsUnderStream == armed' = IdleUnload   \* slip: the stream is not looked at
ResetIdleTimer == armed' = (IdleUnload /\ owner' = Closed)

\* begin: the stream is reset whatever follows; loading the model or creating a
\* stream may fail (Stream.start, which follows, is taken to succeed).
Begin(r) ==
  /\ CancelIdleTimer
  /\ owner' = r /\ heard' = <<>> /\ snapshot' = NoText
  /\ model' = Language[r]
  /\ UNCHANGED fired
BeginFails(r) ==
  /\ CancelIdleTimer
  /\ ResetStream
  /\ model' \in IF model = Language[r] THEN {model} ELSE {Unloaded, Language[r]}
  /\ UNCHANGED fired

\* Another language: the resident model goes, and with it an open stream.
LoadFor(r) ==
  /\ IF model \in {Unloaded, Language[r]} THEN UNCHANGED <<owner, heard, snapshot>>
                                          ELSE ResetStream
  /\ model' = Language[r]
  /\ ResetIdleTimer
  /\ UNCHANGED fired

\* The resident model has gone and the other one does not load.
LoadFails(r) ==
  /\ model # Language[r]
  /\ IF model = Unloaded THEN UNCHANGED <<owner, heard, snapshot>> ELSE ResetStream
  /\ model' = Unloaded
  /\ UNCHANGED <<armed, fired>>

Reset ==
  /\ ResetStream
  /\ ResetIdleTimer
  /\ UNCHANGED <<model, fired>>

TimerFires ==
  /\ armed /\ fired < MaxFired
  /\ armed' = FALSE /\ fired' = fired + 1
  /\ UNCHANGED <<handlerVars, owner, heard, snapshot, model, late, corpusVars>>

\* The callback gets the lock.
Unload ==
  /\ fired > 0
  /\ fired' = fired - 1
  /\ CancelIdleTimer
  /\ ResetStream
  /\ model' = Unloaded
  /\ UNCHANGED <<handlerVars, late, corpusVars>>

\* A call nobody waits for is executed all the same.
LateCall(r, call) ==
  /\ <<r, call>> \in late
  /\ late' = late \ {<<r, call>>}
  /\ \/ call = "begin" /\ (Begin(r) \/ BeginFails(r))
     \/ call = "reset" /\ Reset
     \/ call = "transcribe" /\ (LoadFor(r) \/ LoadFails(r))
  /\ UNCHANGED <<handlerVars, corpusVars>>

-----------------------------------------------------------------------------
(* The handlers *)

TakeLease(r) == lease = Nobody /\ lease' = r

RunGate(r) ==
  /\ pc[r] = "new"
  /\ TakeLease(r)
  /\ Goto(r, IF r \in Sessions THEN "open" ELSE "transcribe")
  /\ UNCHANGED <<frames, clip, capture, text, todo, isFinal, streamClosed, engineVars,
                 late, corpusVars>>

\* OpenLiveStream.  Without a stream there is nothing to flush or close.
OpenLiveStream(r) ==
  /\ pc[r] = "open"
  /\ \/ Begin(r) /\ Goto(r, "loop") /\ UNCHANGED late
     \/ BeginFails(r) /\ Goto(r, "release") /\ UNCHANGED late
     \/ /\ ~ ClientsWait   \* the request's context is cancelled, the call goes on
        /\ late' = late \cup {<<r, "begin">>}
        /\ Goto(r, "release")
        /\ UNCHANGED engineVars
  /\ UNCHANGED <<lease, frames, clip, capture, text, todo, isFinal, streamClosed, corpusVars>>

\* Slip: a session over the limit is truncated.
Truncated(r) ==
  /\ clip' = IF frames'[r] <= Limit[r] THEN [clip EXCEPT ![r] = Append(@, <<r, frames'[r]>>)]
                                    ELSE clip
  /\ UNCHANGED capture

\* A frame that would exceed the limit ends the capture, not the session.
Captured(r) ==
  IF capture[r] = "on" /\ frames'[r] <= Limit[r]
  THEN clip' = [clip EXCEPT ![r] = Append(@, <<r, frames'[r]>>)] /\ UNCHANGED capture
  ELSE capture' = [capture EXCEPT ![r] = "dropped"] /\ clip' = [clip EXCEPT ![r] = <<>>]

\* feed: the transcript is refreshed, or the last one reported again; every line
\* that is complete has ended at some frame.
Feed(r) ==
  /\ heard' = Append(heard, <<r, frames'[r]>>)
  /\ \/ snapshot # NoText /\ UNCHANGED snapshot
     \/ \E ends \in SUBSET (1..Len(heard')) : snapshot' = [of |-> heard', ends |-> ends]
  /\ UNCHANGED <<owner, model, armed, fired>>

\* A binary message: captured, then fed.  Without a stream the sidecar answers
\* 409; a partial that cannot be sent ends the session as well.
Frame(r) ==
  /\ pc[r] = "loop" /\ frames[r] < MaxFrames
  /\ frames' = [frames EXCEPT ![r] = @ + 1]
  /\ Captured(r)
  /\ \/ /\ owner # Closed /\ Feed(r)
        /\ text' \in {text, [text EXCEPT ![r] = snapshot']}   \* an empty text is not kept
        /\ pc' \in {pc, [pc EXCEPT ![r] = "flush"]}
     \/ /\ Goto(r, "flush")
        /\ UNCHANGED <<text, engineVars>>
  /\ UNCHANGED <<lease, todo, isFinal, streamClosed, late, corpusVars>>

\* The client hangs up, sends what is not understood, or exceeds the limit of the
\* audio to be post-processed.
ClientGone(r) ==
  /\ pc[r] = "loop"
  /\ Goto(r, "flush")
  /\ UNCHANGED <<lease, frames, clip, capture, text, todo, isFinal, streamClosed, engineVars,
                 late, corpusVars>>

\* Slip: closed is set before the answer is looked at.
ClosedAnyway(r) == streamClosed \cup {r}
ClosedOnError(r) == streamClosed

\* input_audio.commit: the final update refers to everything heard.  It is kept
\* unless the client is gone by then; then the last partial one is.
Commit(r) ==
  /\ pc[r] = "loop"
  /\ \/ /\ owner # Closed
        /\ streamClosed' = streamClosed \cup {r}
        /\ \/ Goto(r, "flush") /\ UNCHANGED <<text, isFinal>>
           \/ /\ \E ends \in SUBSET (1..Len(heard)) :
                   text' = [text EXCEPT ![r] = [of |-> heard, ends |-> ends]]
              /\ isFinal' = isFinal \cup {r}
              /\ Goto(r, "flush")
        /\ Reset
     \/ /\ streamClosed' = ClosedOnError(r)
        /\ Goto(r, "flush")
        /\ UNCHANGED <<text, isFinal, engineVars>>
  /\ UNCHANGED <<lease, frames, clip, capture, todo, late, corpusVars>>

\* An upload.  Its text is recorded when it is not empty; Transcribe may fail, or
\* run into the request timeout while the sidecar goes on.
Transcribe(r) ==
  /\ pc[r] = "transcribe"
  /\ \/ /\ LoadFor(r)
        /\ clip' = [clip EXCEPT ![r] = <<<<r, 1>>>>]
        /\ text' = [text EXCEPT ![r] = [of |-> <<<<r, 1>>>>, ends |-> {}]]
        /\ isFinal' = isFinal \cup {r}
        /\ Goto(r, "flush")
        /\ UNCHANGED late
     \/ /\ LoadFor(r) \/ LoadFails(r)
        /\ Goto(r, "release")
        /\ UNCHANGED <<clip, text, isFinal, late>>
     \/ /\ late' = late \cup {<<r, "transcribe">>}
        /\ Goto(r, "release")
        /\ UNCHANGED <<clip, text, isFinal, engineVars>>
  /\ UNCHANGED <<lease, frames, capture, todo, streamClosed, corpusVars>>

-----------------------------------------------------------------------------
(* Session.Finish and RecordUpload *)

\* Slip: a session that was not committed is not recorded.
OnlyCommitted(r) == capture[r] = "on" /\ clip[r] # <<>> /\ r \in isFinal
WorthRecording(r) == capture[r] = "on" /\ clip[r] # <<>>

CloseForEveryone(r) == "close"   \* slip: an upload has no stream to close
After(r) == IF r \in Sessions THEN "close" ELSE "release"

Flush(r) ==
  /\ pc[r] = "flush"
  /\ Goto(r, IF WorthRecording(r) THEN "session" ELSE After(r))
  /\ UNCHANGED <<lease, frames, clip, capture, text, todo, isFinal, streamClosed, engineVars,
                 late, corpusVars>>

\* Slip: a file that could not be written is passed over.
IgnoresFailure(r, file) ==
  \/ files' = files \cup {<<r, file>>} /\ UNCHANGED lost
  \/ lost' = lost \cup {r} /\ UNCHANGED files
WriteFile(r, file) == files' = files \cup {<<r, file>>} /\ UNCHANGED lost

\* writeFile goes through a temporary file: it is there as a whole or not at all.
\* The first failure ends Finish.
WriteFails(r) ==
  /\ pc[r] \in {"session", "lines", "append"}
  /\ lost' = lost \cup {r}
  /\ capture' = [capture EXCEPT ![r] = "done"]
  /\ Goto(r, After(r))
  /\ UNCHANGED <<lease, frames, clip, text, todo, isFinal, streamClosed, engineVars, late,
                 files, manifest>>

WriteSession(r) ==
  /\ pc[r] = "session"
  /\ WriteFile(r, 0)
  /\ todo' = [todo EXCEPT ![r] = {e \in text[r].ends : e <= Len(clip[r])}]
  /\ Goto(r, "lines")
  /\ UNCHANGED <<lease, frames, clip, capture, text, isFinal, streamClosed, engineVars, late,
                 manifest>>

\* Lines that end after the recorded audio have been skipped.
WriteLine(r) ==
  /\ pc[r] = "lines" /\ todo[r] # {}
  /\ LET e == CHOOSE x \in todo[r] : \A y \in todo[r] : x <= y IN
       /\ WriteFile(r, e)
       /\ todo' = [todo EXCEPT ![r] = @ \ {e}]
  /\ UNCHANGED <<pc, lease, frames, clip, capture, text, isFinal, streamClosed, engineVars,
                 late, manifest>>

LinesWritten(r) ==
  /\ pc[r] = "lines" /\ todo[r] = {}
  /\ Goto(r, "append")
  /\ UNCHANGED <<lease, frames, clip, capture, text, todo, isFinal, streamClosed, engineVars,
                 late, corpusVars>>

\* Where the line that ends at e begins: after the line before it.
Start(ends, e) == LET before == {x \in ends : x < e} IN
                  IF before = {} THEN 1 ELSE 1 + CHOOSE x \in before : \A y \in before : y <= x

Batch(r) ==
  {[file |-> 0, audio |-> clip[r], text |-> text[r].of, final |-> r \in isFinal]} \cup
  {[file  |-> e, audio |-> SubSeq(clip[r], Start(text[r].ends, e), e),
    text  |-> SubSeq(text[r].of, Start(text[r].ends, e), e), final |-> r \in isFinal]
     : e \in {x \in text[r].ends : x <= Len(clip[r])}}

\* All rows of a session go to the manifest in one write.
AppendRows(r) ==
  /\ pc[r] = "append"
  /\ manifest' = [manifest EXCEPT ![r] = Append(@, Batch(r))]
  /\ capture' = [capture EXCEPT ![r] = "done"]
  /\ Goto(r, After(r))
  /\ UNCHANGED <<lease, frames, clip, text, todo, isFinal, streamClosed, engineVars, late,
                 files, lost>>

-----------------------------------------------------------------------------
(* The way out: stream.Close, then release *)

\* Close waits two seconds for the sidecar; the call is not taken back.
Close(r) ==
  /\ pc[r] = "close"
  /\ \/ r \in streamClosed /\ UNCHANGED <<engineVars, late>>
     \/ r \notin streamClosed /\ Reset /\ UNCHANGED late
     \/ r \notin streamClosed /\ late' = late \cup {<<r, "reset">>} /\ UNCHANGED engineVars
  /\ Goto(r, "release")
  /\ UNCHANGED <<lease, frames, clip, capture, text, todo, isFinal, streamClosed, corpusVars>>

\* The handler returns; what only it knew is gone.
Release(r) ==
  /\ pc[r] = "release"
  /\ lease' = Nobody
  /\ Goto(r, "over")
  /\ frames' = [frames EXCEPT ![r] = 0] /\ text' = [text EXCEPT ![r] = NoText]
  /\ todo' = [todo EXCEPT ![r] = {}]
  /\ isFinal' = isFinal \ {r} /\ streamClosed' = streamClosed \ {r}
  /\ UNCHANGED <<clip, capture, engineVars, late, corpusVars>>

-----------------------------------------------------------------------------
Handle(r) ==
  \/ RunGate(r) \/ OpenLiveStream(r) \/ Frame(r) \/ ClientGone(r) \/ Commit(r)
  \/ Transcribe(r) \/ Flush(r) \/ WriteFails(r) \/ WriteSession(r) \/ WriteLine(r)
  \/ LinesWritten(r) \/ AppendRows(r) \/ Close(r) \/ Release(r)

LateCalls == \E r \in Requests, call \in {"begin", "reset", "transcribe"} : LateCall(r, call)

Next == (\E r \in Requests : Handle(r)) \/ LateCalls \/ TimerFires \/ Unload

Spec == Init /\ [][Next]_vars

\* Handlers go on and the sidecar answers in the end, also callers who are gone.
\* A client ends its session sooner or later, but need not send anything; a request
\* need not come.
Fairness ==
  /\ WF_vars(\E r \in Requests : pc[r] # "new" /\ Handle(r))
  /\ WF_vars(LateCalls)

FairSpec == Spec /\ Fairness

-----------------------------------------------------------------------------
(* Safety *)

\* Nothing in the corpus claims what was not said: a row's text is what was heard
\* in its audio, exactly for a line and for a committed session, and up to the last
\* refresh for one that broke off (sttcorpus: "a clip never silently disagrees with
\* its text").  It takes the lease, begin and finalize, and the capture limit.
TextsMatchClips ==
  \A r \in Requests : \A row \in Rows(r) :
    IF row.file = 0 /\ ~ row.final THEN IsPrefix(row.text, row.audio) ELSE row.text = row.audio

\* The manifest never names a file that is not there, wherever a write fails and
\* whenever the server stops.
RowsHaveFiles == \A r \in Requests : \A row \in Rows(r) : <<r, row.file>> \in files

\* A session is flushed exactly once on any exit path, committed or not, and an
\* upload once; only a failing disk or the capture limit keeps audio from being kept.
RecordedOnce ==
  \A r \in Requests :
    /\ Len(manifest[r]) <= 1
    /\ pc[r] = "over" /\ clip[r] # <<>> /\ r \notin lost => manifest[r] # <<>>

\* The corpus can be trained on as it stands, at any moment and after a crash: its
\* rows, its files and the sessions there were agree.
CorpusAgrees == TextsMatchClips /\ RowsHaveFiles /\ RecordedOnce

\* The idle timer does not tick while a session is open, though late calls and
\* other requests re-arm it.
TimerOnlyWithoutStream == armed => owner = Closed

-----------------------------------------------------------------------------
(* Liveness *)

\* The Engine does not keep a session's stream (and with it its model) for ever: it
\* is closed whichever way the handler ends.
StreamsAreClosed == \A s \in Sessions : owner = s ~> owner # s

-----------------------------------------------------------------------------
(* What a document says and the code does not *)

\* stt/moonshine/README.md of the idle unload: "it never fires while a live session
\* is open".
NeverUnloadsSession ==
  [][owner # Closed /\ fired' = fired - 1 => owner' # Closed]_vars
=============================================================================
