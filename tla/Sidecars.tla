------------------------------- MODULE Sidecars -------------------------------
(***************************************************************************)
(* One call of a provider's client to its sidecar, end to end: the Go      *)
(* client (start the process, write a temporary file, post, wait, give up, *)
(* clean up) and the engine that serves it (threads, one lock, a model     *)
(* that is loaded on demand, unloaded on request or by a timer).           *)
(*                                                                         *)
(* Jobs of a provider run one at a time, under the GPU lease.  What runs   *)
(* at the same time all the same is what clients have given up: closing a  *)
(* connection does not stop the thread that serves it.  When the process   *)
(* may be stopped is in Lifecycle, which job runs next in JobQueue.        *)
(***************************************************************************)
EXTENDS Segmentation, FiniteSets, TLC

CONSTANTS
  Providers,
  Jobs, Idles,     \* bounds: the jobs, and the times an idle timer fires
  Languages, Language,     \* of kokoro's jobs
  Texts,           \* omnivoice's inputs, as their sentences
  Transcripts,     \* the event streams of an audio.cpp transcriber
  MaxWords, TargetWords    \* omnivoice_max_words (0: no segmentation) and its target

ASSUME LanguagesAssumption == Language \in [Jobs -> Languages]
ASSUME WordsAssumption == MaxWords \in Nat /\ TargetWords \in Nat
ASSUME ProvidersAssumption ==
  Providers \subseteq {"kokoro", "chatterbox", "cosyvoice", "omnivoice", "supertonic",
    "pyannote", "wespeaker", "sortformer", "htdemucs", "bs-roformer", "htdemucs-dnr",
    "parakeet", "qwen3-asr", "nemotron", "faster-whisper"}
ASSUME TextsAssumption == Texts \subseteq Seq([words : Seq(Nat), ended : BOOLEAN])
ASSUME TranscriptsAssumption == Transcripts \subseteq Seq([type : {"text", "error"}, text : Nat])
ASSUME TimerAssumption == "timer" \notin Idles

VARIABLES
  provider,        \* the provider under study; it never changes
  process,         \* of the sidecar: dead, it is still there for the lifecycle manager
  warm,            \* the queue's belief: the model is loaded
  plan, idle,      \* what a job, an idle callback still has to do
  files,           \* the jobs whose temporary file exists
  asked, heard,    \* what the request says; the transcript the client returns
  todo, reply,     \* per call: what its thread has still to do; its answer
  lock, model, pipelines, armed,   \* the engine
  served,          \* whisper has transcribed since it loaded
  late             \* the kinds of call given up since the process was last stopped

clientVars == <<warm, plan, idle, files, asked, heard>>
engineVars == <<lock, model, pipelines, armed, served>>
vars == <<provider, process, late, todo, reply, clientVars, engineVars>>

Timer == <<"unload", "timer">>
Calls == ({"load", "work"} \X Jobs) \cup ({"unload"} \X Idles) \cup {Timer}
Nobody == <<"none", "none">>

-----------------------------------------------------------------------------
(* The clients: what Synthesize, Transcribe, Separate, Diarize, Embed do    *)

Kokoro      == <<"post">>
Chatterbox  == <<"start", "write", "post">>
CosyVoice   == <<"start", "write", "post">>
OmniVoice   == <<"start", "write", "post">>
Supertonic  == <<"start", "post">>
Pyannote    == <<"start", "post">>
WeSpeaker   == <<"start", "post">>
Sortformer  == <<"start", "write", "post">>
HTDemucs    == <<"start", "write", "post">>
BSRoformer  == <<"start", "write", "post">>
HTDemucsDnR == <<"start", "write", "post">>
Parakeet    == <<"start", "post">>
Qwen3ASR    == <<"start", "post">>
Nemotron    == <<"start", "write", "post">>
FasterWhisper == <<"start", "post">>

Client(p) ==
  CASE p = "kokoro" -> Kokoro [] p = "chatterbox" -> Chatterbox
    [] p = "cosyvoice" -> CosyVoice [] p = "omnivoice" -> OmniVoice
    [] p = "supertonic" -> Supertonic [] p = "pyannote" -> Pyannote
    [] p = "wespeaker" -> WeSpeaker [] p = "sortformer" -> Sortformer
    [] p = "htdemucs" -> HTDemucs [] p = "bs-roformer" -> BSRoformer
    [] p = "htdemucs-dnr" -> HTDemucsDnR [] p = "parakeet" -> Parakeet
    [] p = "qwen3-asr" -> Qwen3ASR [] p = "nemotron" -> Nemotron
    [] p = "faster-whisper" -> FasterWhisper

\* Warm and Idle call the sidecar's /load and /unload.
Managed(p) == p \in {"kokoro", "chatterbox", "cosyvoice"}

-----------------------------------------------------------------------------
(* The sidecars: what the thread of a request does                          *)

KokoroServer      == <<"load", "hold", "run">>
ChatterboxServer  == <<"check", "load", "hold", "read", "run", "encode">>
CosyVoiceServer   == <<"check", "load", "hold", "read", "run", "encode">>
PyannoteServer    == <<"load", "hold", "run">>
HTDemucsDnRServer == <<"check", "load", "read", "hold", "run", "encode">>
FasterWhisperServer == <<"hold", "run">>
WeSpeakerServer   == <<"hold", "run">>
AudioCpp          == <<"hold", "read", "run">>      \* given a path, it reads the file
AudioCppUpload    == <<"hold", "run">>

Server(p) ==
  CASE p = "kokoro" -> KokoroServer [] p = "chatterbox" -> ChatterboxServer
    [] p = "cosyvoice" -> CosyVoiceServer [] p = "pyannote" -> PyannoteServer
    [] p = "htdemucs-dnr" -> HTDemucsDnRServer
    [] p = "faster-whisper" -> FasterWhisperServer [] p = "wespeaker" -> WeSpeakerServer
    [] p \in {"omnivoice", "sortformer", "htdemucs", "bs-roformer"} -> AudioCpp
    [] OTHER -> AudioCppUpload

\* The model is loaded where it is used, under the lock that guards its use.
LoadsInPlace(p) == "load" \notin {Server(p)[i] : i \in DOMAIN Server(p)}
Transcriber(p) == p \in {"parakeet", "qwen3-asr"}

-----------------------------------------------------------------------------
NoText == [of |-> <<>>, lines |-> <<>>]
NoTranscript == [sent |-> <<>>, got |-> [ok |-> FALSE, text |-> 0]]

TypeOK ==
  /\ provider \in Providers /\ process \in {"stopped", "running", "dead"} /\ warm \in BOOLEAN
  /\ \A j \in Jobs : \A i \in DOMAIN plan[j] :
       plan[j][i] \in {"new", "warm", "loading", "start", "write", "post", "wait"}
  /\ idle \in [Idles -> {"new", "call", "over"}] /\ files \subseteq Jobs
  /\ \A c \in Calls : \A i \in DOMAIN todo[c] :
       todo[c][i] \in {"check", "load", "read", "hold", "run", "encode", "unload"}
  /\ reply \in [Calls -> {"none", "ok", "error", "noFile", "noModel"}]
  /\ lock # Nobody => lock \in Calls /\ todo[lock] # <<>> /\ Head(todo[lock]) \in {"read", "run"}
  /\ model \in BOOLEAN /\ armed \in BOOLEAN /\ served \in BOOLEAN
  /\ pipelines \in [Languages -> {"none", "whole", "hollow"}]
  /\ late \subseteq {"load", "work", "unload"}
  /\ \A j \in Jobs : heard[j].got \in [ok : BOOLEAN, text : Nat]

NoPipelines == [l \in Languages |-> "none"]

Init ==
  /\ provider \in Providers
  /\ process = IF provider = "kokoro" THEN "running" ELSE "stopped"    \* kokoro: by hand
  /\ warm = FALSE /\ plan = [j \in Jobs |-> <<"new">>] /\ idle = [u \in Idles |-> "new"]
  /\ files = {} /\ asked = [j \in Jobs |-> NoText] /\ heard = [j \in Jobs |-> NoTranscript]
  /\ todo = [c \in Calls |-> <<>>] /\ reply = [c \in Calls |-> "none"]
  /\ lock = Nobody /\ model = FALSE /\ pipelines = NoPipelines
  /\ armed = FALSE /\ served = FALSE /\ late = {}

-----------------------------------------------------------------------------
(* The job, in the queue's worker or in a handler *)

At(j, step) == plan[j] # <<>> /\ Head(plan[j]) = step
Running(j)  == plan[j] # <<>> /\ plan[j] # <<"new">>
Advance(j)  == plan' = [plan EXCEPT ![j] = Tail(@)]
\* Slip: the cleanup is left to a later call.
FinishWithoutCleanup(j) == /\ plan' = [plan EXCEPT ![j] = <<>>] /\ UNCHANGED files
                           /\ asked' = [asked EXCEPT ![j] = NoText]

\* The deferred cleanup removes the file, however the call ends.
Finish(j)   == /\ plan' = [plan EXCEPT ![j] = <<>>] /\ files' = files \ {j}
               /\ asked' = [asked EXCEPT ![j] = NoText]
Send(c, steps) == todo' = [todo EXCEPT ![c] = steps] /\ UNCHANGED reply
\* The connection is refused when nothing listens.
Refused(c) == reply' = [reply EXCEPT ![c] = "error"] /\ UNCHANGED todo

Begin(j) ==
  /\ At(j, "new") /\ \A k \in Jobs : ~ Running(k)
  /\ plan' = [plan EXCEPT ![j] = (IF Managed(provider) THEN <<"warm">> ELSE <<>>)
                                 \o Client(provider)]
  /\ UNCHANGED <<provider, process, late, todo, reply, warm, idle, files, asked, heard, engineVars>>

\* StartFunc: a no-op once a process has been started, dead or alive (start looks at
\* inst.cmd); else it starts one, or fails.  main gives kokoro none.
StartFunc == process' = IF process = "stopped" THEN "running" ELSE process
StartFails == process = "stopped" /\ UNCHANGED process

\* Held off by lifecycleMu while an Idle is under way.
Warm(j) ==
  /\ At(j, "warm")
  /\ \/ warm /\ Advance(j) /\ UNCHANGED <<process, todo, reply, files, asked>>
     \/ /\ ~ warm /\ \A u \in Idles : idle[u] # "call"
        /\ StartFunc
        /\ IF process = "dead" THEN Refused(<<"load", j>>) ELSE Send(<<"load", j>>, <<"load">>)
        /\ plan' = [plan EXCEPT ![j] = <<"loading">> \o Tail(@)]
        /\ UNCHANGED <<files, asked>>
     \/ ~ warm /\ StartFails /\ Finish(j) /\ UNCHANGED <<todo, reply>>
  /\ UNCHANGED <<provider, late, warm, idle, heard, engineVars>>

Warmed(j) ==
  /\ At(j, "loading") /\ reply[<<"load", j>>] # "none"
  /\ IF reply[<<"load", j>>] = "ok"
     THEN warm' = TRUE /\ Advance(j) /\ UNCHANGED <<files, asked>>
     ELSE Finish(j) /\ UNCHANGED warm
  /\ UNCHANGED <<provider, process, late, todo, reply, idle, heard, engineVars>>

Start(j) ==
  /\ At(j, "start")
  /\ \/ StartFunc /\ Advance(j) /\ UNCHANGED <<files, asked>>
     \/ StartFails /\ Finish(j)
  /\ UNCHANGED <<provider, late, todo, reply, warm, idle, heard, engineVars>>

\* writeReference and its like.  A reference that cannot be normalised or written
\* fails the job and leaves no file.
WriteReference(j) ==
  /\ At(j, "write")
  /\ \/ files' = files \cup {j} /\ Advance(j) /\ UNCHANGED asked
     \/ Finish(j)
  /\ UNCHANGED <<provider, process, late, todo, reply, warm, idle, heard, engineVars>>

\* Slip: chunks are not terminated.
SegmentUnterminated(text, sentences) ==
  LET input == Join(text)
      target == IF TargetWords = 0 THEN MaxWords \div 2 ELSE TargetWords
      chunks == Pack(IF sentences = <<>> THEN <<input>> ELSE sentences, target, MaxWords)
  IN IF MaxWords = 0 \/ WordCount(input) <= MaxWords \/ Len(chunks) <= 1 THEN <<input>> ELSE chunks

\* Sentences is empty when the segmenter fails or finds none.
AutoSegment(text, sentences) ==
  LET input == Join(text)
      target == IF TargetWords = 0 THEN MaxWords \div 2 ELSE TargetWords
      chunks == Pack(IF sentences = <<>> THEN <<input>> ELSE sentences, target, MaxWords)
  IN IF MaxWords = 0 \/ WordCount(input) <= MaxWords \/ Len(chunks) <= 1 THEN <<input>>
     ELSE [i \in DOMAIN chunks |-> Terminate(chunks[i])]

\* segment.py: the sentences of the text, or an error.
Segment(text) == {text, <<>>}

Post(j) ==
  /\ At(j, "post")
  /\ plan' = [plan EXCEPT ![j] = <<"wait">>]
  /\ IF process = "running" THEN Send(<<"work", j>>, Server(provider)) ELSE Refused(<<"work", j>>)
  /\ IF provider = "omnivoice"
     THEN \E text \in Texts : \E sentences \in Segment(text) :
            asked' = [asked EXCEPT ![j] = [of |-> text, lines |-> AutoSegment(text, sentences)]]
     ELSE UNCHANGED asked
  /\ UNCHANGED <<provider, process, late, warm, idle, files, heard, engineVars>>

\* Slip: an error event does not end the transcription.
TranscriptIgnoresError(events) ==
  LET final == FoldLeft(LAMBDA t, e : IF e.type = "error" THEN t ELSE e.text, 0, events)
  IN [ok |-> final # 0, text |-> final]

\* Each delta replaces what came before; so does the last text.
Listen(t, e) == IF e.type = "error" THEN [t EXCEPT !.error = TRUE]
                ELSE IF t.error THEN t ELSE [t EXCEPT !.final = e.text]

\* (0: blank)
Transcript(events) ==
  LET t == FoldLeft(Listen, [final |-> 0, error |-> FALSE], events)
  IN [ok |-> ~ t.error /\ t.final # 0, text |-> t.final]

Return(j) ==
  /\ At(j, "wait") /\ reply[<<"work", j>>] # "none"
  /\ Finish(j)
  /\ IF Transcriber(provider) /\ reply[<<"work", j>>] = "ok"
     THEN \E events \in Transcripts : heard' = [heard EXCEPT ![j] = [sent |-> events, got |-> Transcript(events)]]
     ELSE UNCHANGED heard
  /\ UNCHANGED <<provider, process, late, todo, reply, warm, idle, engineVars>>

\* Out of time (the load: defaultLifecycleTimeout): the connection is closed.
TimeOut(j) ==
  /\ At(j, "wait") \/ At(j, "loading")
  /\ Finish(j)
  /\ late' = late \cup {IF At(j, "wait") THEN "work" ELSE "load"}
  /\ UNCHANGED <<provider, process, todo, reply, warm, idle, heard, engineVars>>

-----------------------------------------------------------------------------
(* The idle timer of the queue *)

Idle(u) ==
  /\ Managed(provider) /\ idle[u] = "new" /\ warm /\ \A j \in Jobs : ~ Running(j)
  /\ \A v \in Idles : idle[v] # "call"
  /\ warm' = FALSE /\ idle' = [idle EXCEPT ![u] = "call"]
  /\ IF process = "running" THEN Send(<<"unload", u>>, <<"unload">>) ELSE Refused(<<"unload", u>>)
  /\ UNCHANGED <<provider, process, late, plan, files, asked, heard, engineVars>>

\* Answered, or out of time.
IdleDone(u) ==
  /\ idle[u] = "call" /\ idle' = [idle EXCEPT ![u] = "over"]
  /\ late' = IF reply[<<"unload", u>>] = "none" THEN late \cup {"unload"} ELSE late
  /\ UNCHANGED <<provider, process, todo, reply, warm, plan, files, asked, heard, engineVars>>

-----------------------------------------------------------------------------
(* The engine *)

Doing(c, step) == todo[c] # <<>> /\ Head(todo[c]) = step
NextStep(c)  == todo' = [todo EXCEPT ![c] = Tail(@)]
Reply(c, r) == todo' = [todo EXCEPT ![c] = <<>>] /\ reply' = [reply EXCEPT ![c] = r]
\* The last step of a thread answers.
Proceed(c) == IF Len(todo[c]) = 1 THEN Reply(c, "ok") ELSE NextStep(c) /\ UNCHANGED reply
Free == lock = Nobody
File(c) == c[2] \in files

\* do_POST looks for the file before it calls the engine.
CheckFile(c) ==
  /\ Doing(c, "check")
  /\ IF File(c) THEN Proceed(c) ELSE Reply(c, "noFile")
  /\ UNCHANGED <<provider, process, late, clientVars, engineVars>>

Load(c) ==
  /\ Doing(c, "load") /\ Free
  /\ \/ model' = TRUE /\ Proceed(c)
     \/ ~ model /\ Reply(c, "error") /\ UNCHANGED model
  /\ UNCHANGED <<provider, process, late, clientVars, lock, pipelines, armed, served>>

\* _pipeline_for: built around whatever the model is now, and kept.
Pipeline(l) ==
  IF pipelines[l] # "none" THEN pipelines[l] ELSE IF model THEN "whole" ELSE "hollow"

Generate(c) ==
  LET l == Language[c[2]]
      usable == IF provider = "kokoro" THEN Pipeline(l) = "whole"
                                       ELSE model \/ LoadsInPlace(provider)
  IN /\ Doing(c, "hold") /\ Free
     /\ \/ /\ LoadsInPlace(provider) /\ ~ model           \* loading fails
           /\ Reply(c, "error") /\ UNCHANGED <<lock, model, pipelines, served>>
        \/ /\ usable /\ lock' = c /\ Proceed(c)
           /\ model' = (model \/ LoadsInPlace(provider)) /\ served' = (served /\ model)
           /\ pipelines' = IF provider = "kokoro" THEN [pipelines EXCEPT ![l] = "whole"]
                                                  ELSE pipelines
        \/ /\ ~ usable /\ Reply(c, "noModel") /\ UNCHANGED <<lock, model, served>>
           /\ pipelines' = IF provider = "kokoro" THEN [pipelines EXCEPT ![l] = "hollow"]
                                                  ELSE pipelines
     /\ UNCHANGED <<provider, process, late, clientVars, armed>>

\* Slip: a file that cannot be read leaves the lock taken.
ReadFileKeepsLock(c) ==
  /\ Doing(c, "read") /\ UNCHANGED lock
  /\ IF File(c) THEN Proceed(c) ELSE Reply(c, "noFile")
  /\ UNCHANGED <<provider, process, late, clientVars, model, pipelines, armed, served>>

\* The file is read with the lock held, or before it is taken (htdemucs-dnr).
ReadFile(c) ==
  /\ Doing(c, "read")
  /\ IF File(c) THEN Proceed(c) /\ UNCHANGED lock
                ELSE Reply(c, "noFile") /\ lock' = IF lock = c THEN Nobody ELSE lock
  /\ UNCHANGED <<provider, process, late, clientVars, model, pipelines, armed, served>>

\* Slip: the timer is started with the model only, not with each transcription.
GeneratedNoTimer(c) ==
  /\ Doing(c, "run") /\ lock' = Nobody
  /\ \/ Proceed(c) /\ served' = (provider = "faster-whisper")
     \/ Reply(c, "error") /\ UNCHANGED served
  /\ UNCHANGED <<provider, process, late, clientVars, model, pipelines, armed>>

\* A generation that succeeds restarts whisper's timer; one that fails does not.
Generated(c) ==
  /\ Doing(c, "run") /\ lock' = Nobody
  /\ \/ Proceed(c) /\ IF provider = "faster-whisper" THEN armed' = TRUE /\ served' = TRUE
                                                    ELSE UNCHANGED <<armed, served>>
     \/ Reply(c, "error") /\ UNCHANGED <<armed, served>>
  /\ UNCHANGED <<provider, process, late, clientVars, model, pipelines>>

\* The sample rate, or the names of the stems, are read from the model again.
Encode(c) ==
  /\ Doing(c, "encode")
  /\ IF model THEN Proceed(c) ELSE Reply(c, "noModel")
  /\ UNCHANGED <<provider, process, late, clientVars, engineVars>>

\* Slip: the lock is not taken.
UnloadUnlocked(c) ==
  /\ Doing(c, "unload") /\ Proceed(c)
  /\ armed' = FALSE /\ model' = FALSE /\ served' = FALSE
  /\ pipelines' = IF model THEN NoPipelines ELSE pipelines
  /\ UNCHANGED <<provider, process, late, clientVars, lock>>

\* kokoro's pipelines go with the model: a hollow one stays where none is loaded.
Unload(c) ==
  /\ Doing(c, "unload") /\ Free /\ Proceed(c)
  /\ armed' = FALSE /\ model' = FALSE /\ served' = FALSE
  /\ pipelines' = IF model THEN NoPipelines ELSE pipelines
  /\ UNCHANGED <<provider, process, late, clientVars, lock>>

\* threading.Timer: its callback is a call of unload like any other.
TimerFires ==
  /\ armed /\ Len(todo[Timer]) < 2      \* bound
  /\ armed' = FALSE /\ todo' = [todo EXCEPT ![Timer] = Append(@, "unload")]
  /\ UNCHANGED <<provider, process, late, reply, clientVars, lock, model, pipelines, served>>

\* With the process go its threads, its model, its timers, its connections.
ProcessEnds ==
  /\ todo' = [c \in Calls |-> <<>>]
  /\ reply' = [c \in Calls |-> IF todo[c] # <<>> THEN "error" ELSE reply[c]]
  /\ lock' = Nobody /\ model' = FALSE /\ pipelines' = NoPipelines
  /\ armed' = FALSE /\ served' = FALSE /\ UNCHANGED <<provider, clientVars>>

Crash == process = "running" /\ process' = "dead" /\ ProcessEnds /\ UNCHANGED late

\* The lifecycle manager stops the process when nobody holds its lease.
Stop ==
  /\ provider # "kokoro" /\ process # "stopped" /\ \A j \in Jobs : ~ Running(j)
  /\ process' = "stopped" /\ late' = {} /\ ProcessEnds

JobStep(j) == \/ Begin(j) \/ Warm(j) \/ Warmed(j) \/ Start(j) \/ WriteReference(j)
              \/ Post(j) \/ Return(j)
Thread(c) == \/ CheckFile(c) \/ Load(c) \/ Generate(c) \/ ReadFile(c) \/ Generated(c)
             \/ Encode(c) \/ Unload(c)
Next == \/ \E j \in Jobs : JobStep(j) \/ TimeOut(j)
        \/ \E u \in Idles : Idle(u) \/ IdleDone(u)
        \/ \E c \in Calls : Thread(c)
        \/ TimerFires \/ Crash \/ Stop

Spec == Init /\ [][Next]_vars
        /\ \A j \in Jobs : WF_vars(JobStep(j))
        /\ \A u \in Idles : WF_vars(IdleDone(u))
        /\ \A c \in Calls : WF_vars(Thread(c))
        /\ WF_vars(TimerFires)

-----------------------------------------------------------------------------
(* Properties *)

\* "The same lock guards load, unload, and generate so a load/unload can never race
\* with an in-flight generation" (the Engine classes): what is generating has a model.
GenerationKeepsModel == lock # Nobody => model

\* Between load() and the lock a model can go away again.  The queue never unloads
\* while a job runs, so a caller who still waits is refused for want of a model only
\* when an unload the queue has given up comes late, or (kokoro) an abandoned
\* request has left a pipeline without a model behind.
NoModelOnlyLate ==
  /\ GenerationKeepsModel
  /\ \A j \in Jobs : At(j, "wait") /\ reply[<<"work", j>>] = "noModel" =>
       "unload" \in late \/ (provider = "kokoro" /\ "work" \in late)

\* The temporary file a request names is there as long as its caller waits, and gone
\* once the caller has its answer or has given up.
FilesOutliveCalls ==
  /\ \A j \in Jobs : At(j, "wait") => reply[<<"work", j>>] # "noFile"
  /\ \A j \in files : At(j, "post") \/ At(j, "wait")

\* What omnivoice's sidecar is asked to say is the text, word for word; when it had
\* to be cut, in lines of at most MaxWords words on which the sidecar will cut.
LinesAreTheText ==
  \A j \in Jobs : LET lines == asked[j].lines IN
    lines # <<>> =>
      /\ Join(lines).words = Join(asked[j].of).words
      /\ MaxWords > 0 => \A i \in DOMAIN lines :
           /\ WordCount(lines[i]) <= MaxWords
           /\ Len(lines) > 1 => EndsSentence(lines[i])

\* A streamed transcription succeeds with the last text sent, and fails if an error
\* was among the events, wherever it stood.
TranscriptIsLast ==
  \A j \in Jobs : LET e == heard[j].sent IN
    heard[j].got.ok =>
      /\ \A i \in DOMAIN e : e[i].type # "error"
      /\ heard[j].got.text = e[Len(e)].text

SaidAndHeard == LinesAreTheText /\ TranscriptIsLast

\* No call waits for ever, although abandoned ones compete for the lock; and whisper,
\* once it has transcribed, does not keep its model for ever.
CallsEnd ==
  /\ \A j \in Jobs : Running(j) ~> plan[j] = <<>>
  /\ served ~> ~ model
=============================================================================
