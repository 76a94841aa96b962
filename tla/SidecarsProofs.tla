---------------------------- MODULE SidecarsProofs ----------------------------
(***************************************************************************)
(* What holds of the calls of any number of jobs and idle callbacks, on    *)
(* any of the providers, with any texts, transcripts and languages: the    *)
(* temporary file is there while a caller waits, what generates has a      *)
(* model, and who is refused for want of a model meets a call that came    *)
(* late.  The invariant follows, for each job, what its worker and the     *)
(* thread that serves it have still to do.                                 *)
(*                                                                         *)
(* Second, what is said and heard: omnivoice's sidecar is asked for the    *)
(* text, word for word, in lines it can hold, and a transcription succeeds *)
(* with its last text.  The first is a fact of the folds that cut a text   *)
(* and pack its pieces.                                                    *)
(***************************************************************************)
EXTENDS Sidecars, FiniteSetTheorems, WellFoundedInduction, TLAPS

Known == {"kokoro", "chatterbox", "cosyvoice", "omnivoice", "supertonic", "pyannote",
          "wespeaker", "sortformer", "htdemucs", "bs-roformer", "htdemucs-dnr", "parakeet",
          "qwen3-asr", "nemotron", "faster-whisper"}

\* The clients that write a temporary file.
Filed(p) == p \in {"chatterbox", "cosyvoice", "omnivoice", "sortformer", "htdemucs",
                   "bs-roformer", "htdemucs-dnr", "nemotron"}
\* The sidecars that load before they take the lock.
LoadsFirst(p) == p \in {"kokoro", "chatterbox", "cosyvoice", "pyannote", "htdemucs-dnr"}

\* What a job may have ahead of it.
Tasks == {"new", "warm", "loading", "start", "write", "post", "wait"}
Posts(p) == IF Filed(p) THEN {<<"start", "write", "post">>, <<"write", "post">>, <<"post">>}
                        ELSE {<<"start", "post">>, <<"post">>}
Plan(p, s) ==
  \/ s \in {<<>>, <<"new">>, <<"wait">>}
  \/ s \in Posts(p)
  \/ s \in Seq(Tasks) /\ s # <<>> /\ Head(s) \in {"warm", "loading"} /\ Tail(s) = Client(p)

\* What a thread may have ahead of it.
Plain == {<<>>, <<"load", "hold", "run">>, <<"hold", "run">>, <<"run">>}
InPlace == {<<>>, <<"hold", "read", "run">>, <<"read", "run">>, <<"hold", "run">>, <<"run">>}
Checked ==
  {<<>>, <<"check", "load", "hold", "read", "run", "encode">>,
   <<"load", "hold", "read", "run", "encode">>, <<"hold", "read", "run", "encode">>,
   <<"read", "run", "encode">>, <<"run", "encode">>, <<"encode">>,
   <<"check", "load", "read", "hold", "run", "encode">>,
   <<"load", "read", "hold", "run", "encode">>, <<"read", "hold", "run", "encode">>,
   <<"hold", "run", "encode">>}
Works(p) == IF ~ Filed(p) THEN Plain ELSE IF LoadsFirst(p) THEN Checked ELSE InPlace
Ahead(p, what) ==
  IF what = "work" THEN Works(p)
  ELSE IF what = "load" THEN {<<>>, <<"load">>}
  ELSE {<<>>, <<"unload">>, <<"unload", "unload">>}

\* The invariant: what the variables are;
Work(j) == <<"work", j>>
Unloads(u) == <<"unload", u>>
Types ==
  /\ provider \in Known /\ files \subseteq Jobs
  /\ plan = [j \in Jobs |-> plan[j]] /\ \A j \in Jobs : Plan(provider, plan[j])
  /\ idle \in [Idles -> {"new", "call", "over"}]
  /\ todo = [c \in Calls |-> todo[c]] /\ \A c \in Calls : todo[c] \in Ahead(provider, c[1])
  /\ reply = [c \in Calls |-> reply[c]]
  /\ pipelines \in [Languages -> {"none", "whole", "hollow"}]
  /\ model \in BOOLEAN /\ warm \in BOOLEAN /\ armed \in BOOLEAN

\* a job, its file and the thread that serves it;
Placed(j) ==
  /\ j \in files => At(j, "post") \/ At(j, "wait")
  /\ Filed(provider) /\ (At(j, "post") \/ At(j, "wait")) => j \in files
  /\ plan[j] # <<>> /\ ~ At(j, "wait") => todo[Work(j)] = <<>> /\ reply[Work(j)] = "none"
  /\ reply[Work(j)] # "none" => todo[Work(j)] = <<>>
  /\ At(j, "wait") => reply[Work(j)] # "noFile"
  /\ plan[j] = <<>> /\ todo[Work(j)] # <<>> => "work" \in late

\* an idle callback and the unload it has posted;
Idling(u) ==
  /\ idle[u] = "call" => /\ Managed(provider) /\ ~ warm
                         /\ \A j \in Jobs : Running(j) => At(j, "warm")
  /\ idle[u] = "new" => todo[Unloads(u)] = <<>> /\ reply[Unloads(u)] = "none"
  /\ reply[Unloads(u)] # "none" => todo[Unloads(u)] = <<>>
  /\ todo[Unloads(u)] # <<>> => idle[u] = "call" \/ "unload" \in late

Timing == armed \/ todo[Timer] # <<>> => provider = "faster-whisper"

\* the model and what is built around it;
Modelled ==
  /\ lock # Nobody => model
  /\ \A l \in Languages :
       /\ pipelines[l] = "whole" => model
       /\ pipelines[l] = "hollow" => provider = "kokoro" /\ ("unload" \in late \/ "work" \in late)

\* and that a thread whose caller waits finds the model it has loaded.
Served(j) ==
  /\ LoadsFirst(provider) /\ At(j, "wait") /\ todo[Work(j)] # <<>>
       /\ Head(todo[Work(j)]) \notin {"check", "load"} => model \/ "unload" \in late
  /\ At(j, "wait") /\ reply[Work(j)] = "noModel" =>
       "unload" \in late \/ (provider = "kokoro" /\ "work" \in late)

IInv ==
  /\ Types /\ Timing /\ Modelled
  /\ \A j \in Jobs : Placed(j) /\ Served(j)
  /\ \A u \in Idles : Idling(u)

-----------------------------------------------------------------------------
(* Sequences *)

LEMMA ShortTails ==
  ASSUME NEW a, NEW b, NEW c
  PROVE  /\ Tail(<<a>>) = <<>> /\ Head(<<a>>) = a /\ <<a>> # <<>>
         /\ Tail(<<a, b>>) = <<b>> /\ Head(<<a, b>>) = a /\ <<a, b>> # <<>>
         /\ Tail(<<a, b, c>>) = <<b, c>> /\ Head(<<a, b, c>>) = a /\ <<a, b, c>> # <<>>
  OBVIOUS

LEMMA LongTails ==
  ASSUME NEW a, NEW b, NEW c, NEW d, NEW e, NEW f
  PROVE  /\ Tail(<<a, b, c, d>>) = <<b, c, d>> /\ Head(<<a, b, c, d>>) = a
         /\ Tail(<<a, b, c, d, e>>) = <<b, c, d, e>> /\ Head(<<a, b, c, d, e>>) = a
         /\ Tail(<<a, b, c, d, e, f>>) = <<b, c, d, e, f>> /\ Head(<<a, b, c, d, e, f>>) = a
         /\ <<a, b, c, d>> # <<>> /\ <<a, b, c, d, e>> # <<>> /\ <<a, b, c, d, e, f>> # <<>>
<1>1. Tail(<<a, b, c, d>>) = <<b, c, d>> /\ Head(<<a, b, c, d>>) = a
  OBVIOUS
<1>2. Tail(<<a, b, c, d, e>>) = <<b, c, d, e>> /\ Head(<<a, b, c, d, e>>) = a
  OBVIOUS
<1>3. Tail(<<a, b, c, d, e, f>>) = <<b, c, d, e, f>> /\ Head(<<a, b, c, d, e, f>>) = a
  OBVIOUS
<1>4. <<a, b, c, d>> # <<>> /\ <<a, b, c, d, e>> # <<>> /\ <<a, b, c, d, e, f>> # <<>>
  OBVIOUS
<1> QED
  BY <1>1, <1>2, <1>3, <1>4

LEMMA Prefixed ==
  ASSUME NEW S, NEW a \in S, NEW t \in Seq(S), t # <<>>
  PROVE  /\ <<a>> \o t \in Seq(S) /\ <<a>> \o t # <<>>
         /\ Head(<<a>> \o t) = a /\ Tail(<<a>> \o t) = t
  OBVIOUS

LEMMA Appended ==
  ASSUME NEW S, NEW a \in S, NEW b \in S
  PROVE  Append(<<>>, a) = <<a>> /\ Append(<<a>>, b) = <<a, b>>
<1>1. Append(<<>>, a) = <<a>>
  OBVIOUS
<1>2. Append(<<a>>, b) = <<a, b>>
  <2> DEFINE s == Append(<<a>>, b)
             t == <<a, b>>
  <2>1. s \in Seq(S) /\ Len(s) = 2 /\ s[1] = a /\ s[2] = b
    OBVIOUS
  <2>2. t \in Seq(S) /\ Len(t) = 2 /\ t[1] = a /\ t[2] = b
    OBVIOUS
  <2> HIDE DEF s, t
  <2>3. s = t
    BY <2>1, <2>2
  <2> QED
    BY <2>3 DEF s, t
<1> QED
  BY <1>1, <1>2

LEMMA ShortSeqs ==
  ASSUME NEW S, NEW a \in S, NEW b \in S, NEW c \in S
  PROVE  <<a>> \in Seq(S) /\ <<a, b>> \in Seq(S) /\ <<a, b, c>> \in Seq(S)
  OBVIOUS

\* What the steps of a client lead to.
LEMMA PostSteps ==
  ASSUME NEW p, NEW s \in Posts(p)
  PROVE  /\ s \in Seq(Tasks) /\ s # <<>> /\ Head(s) \in {"start", "write", "post"}
         /\ Head(s) # "post" => Tail(s) \in Posts(p)
         /\ Head(s) # "post" /\ Head(Tail(s)) = "post" /\ Filed(p) => Head(s) = "write"
         /\ Head(s) = "write" => Head(Tail(s)) = "post"
<1>0. /\ <<"start", "write", "post">> \in Seq(Tasks) /\ <<"write", "post">> \in Seq(Tasks)
      /\ <<"start", "post">> \in Seq(Tasks) /\ <<"post">> \in Seq(Tasks)
  <2>1. "start" \in Tasks /\ "write" \in Tasks /\ "post" \in Tasks
    BY DEF Tasks
  <2> QED
    BY <2>1, ShortSeqs
<1>1. CASE s = <<"start", "write", "post">> /\ Filed(p)
  <2>1. Tail(s) = <<"write", "post">> /\ Head(s) = "start" /\ s # <<>> /\ Head(Tail(s)) = "write"
    BY <1>1, ShortTails
  <2> QED
    BY <1>0, <1>1, <2>1 DEF Posts
<1>2. CASE s = <<"write", "post">> /\ Filed(p)
  <2>1. Tail(s) = <<"post">> /\ Head(s) = "write" /\ s # <<>> /\ Head(Tail(s)) = "post"
    BY <1>2, ShortTails
  <2> QED
    BY <1>0, <1>2, <2>1 DEF Posts
<1>3. CASE s = <<"post">>
  BY <1>0, <1>3
<1>4. CASE s = <<"start", "post">> /\ ~ Filed(p)
  <2>1. Tail(s) = <<"post">> /\ Head(s) = "start" /\ s # <<>> /\ Head(Tail(s)) = "post"
    BY <1>4, ShortTails
  <2> QED
    BY <1>0, <1>4, <2>1 DEF Posts
<1> QED
  BY <1>1, <1>2, <1>3, <1>4 DEF Posts

LEMMA ClientPosts ==
  ASSUME NEW p \in Known
  PROVE  Client(p) \in Posts(p) /\ (Filed(p) => Head(Client(p)) = "start")
<1>1. CASE Filed(p)
  <2>1. Client(p) = <<"start", "write", "post">>
    BY <1>1 DEF Filed, Client, Chatterbox, CosyVoice, OmniVoice, Sortformer, HTDemucs,
       BSRoformer, HTDemucsDnR, Nemotron
  <2> QED
    BY <1>1, <2>1, ShortTails DEF Posts
<1>2. CASE ~ Filed(p)
  BY <1>2 DEF Known, Filed, Posts, Client, Kokoro, Supertonic, Pyannote, WeSpeaker,
     Parakeet, Qwen3ASR, FasterWhisper
<1> QED
  BY <1>1, <1>2

LEMMA ServerWorks ==
  ASSUME NEW p \in Known
  PROVE  /\ Server(p) \in Works(p)
         /\ LoadsFirst(p) => Head(Server(p)) \in {"check", "load"}
  BY DEF Known, Filed, LoadsFirst, Works, Plain, InPlace, Checked, Server, KokoroServer,
     ChatterboxServer, CosyVoiceServer, PyannoteServer, HTDemucsDnRServer,
     FasterWhisperServer, WeSpeakerServer, AudioCpp, AudioCppUpload

LEMMA LoadingPlace ==
  ASSUME NEW p \in Known
  PROVE  LoadsInPlace(p) <=> ~ LoadsFirst(p)
<1>1. CASE p \in {"kokoro", "pyannote"}
  <2>1. Server(p) = <<"load", "hold", "run">>
    BY <1>1 DEF Server, KokoroServer, PyannoteServer
  <2>2. 1 \in DOMAIN Server(p) /\ Server(p)[1] = "load"
    BY <2>1
  <2> QED
    BY <1>1, <2>2 DEF LoadsInPlace, LoadsFirst
<1>2. CASE p \in {"chatterbox", "cosyvoice", "htdemucs-dnr"}
  <2>1. Server(p) \in {<<"check", "load", "hold", "read", "run", "encode">>,
                       <<"check", "load", "read", "hold", "run", "encode">>}
    BY <1>2 DEF Server, ChatterboxServer, CosyVoiceServer, HTDemucsDnRServer
  <2>2. 2 \in DOMAIN Server(p) /\ Server(p)[2] = "load"
    BY <2>1
  <2> QED
    BY <1>2, <2>2 DEF LoadsInPlace, LoadsFirst
<1>3. CASE ~ LoadsFirst(p)
  <2>1. Server(p) \in {<<"hold", "read", "run">>, <<"hold", "run">>}
    BY <1>3 DEF Known, LoadsFirst, Server, FasterWhisperServer, WeSpeakerServer, AudioCpp,
       AudioCppUpload
  <2>2. \A i \in DOMAIN Server(p) : Server(p)[i] # "load"
    BY <2>1
  <2> QED
    BY <1>3, <2>2 DEF LoadsInPlace
<1> QED
  BY <1>1, <1>2, <1>3 DEF LoadsFirst

LEMMA WorkSteps ==
  ASSUME NEW p, NEW s \in Works(p), s # <<>>
  PROVE  /\ Tail(s) \in Works(p)
         /\ Head(s) \in {"check", "load", "read", "hold", "run", "encode"}
         /\ Head(s) \in {"check", "read"} => Filed(p)
         /\ Head(s) = "check" => Tail(s) # <<>> /\ Head(Tail(s)) = "load"
         /\ Head(s) = "encode" => LoadsFirst(p)
<1>1. CASE s \in Plain /\ ~ Filed(p)
  <2>1. CASE s = <<"load", "hold", "run">>
    <3>1. Head(s) = "load" /\ Tail(s) = <<"hold", "run">>
      BY <2>1, ShortTails
    <3> QED
      BY <1>1, <3>1 DEF Works, Plain
  <2>2. CASE s = <<"hold", "run">>
    <3>1. Head(s) = "hold" /\ Tail(s) = <<"run">>
      BY <2>2, ShortTails
    <3> QED
      BY <1>1, <3>1 DEF Works, Plain
  <2>3. CASE s = <<"run">>
    <3>1. Head(s) = "run" /\ Tail(s) = <<>>
      BY <2>3, ShortTails
    <3> QED
      BY <1>1, <3>1 DEF Works, Plain
  <2> QED
    BY <1>1, <2>1, <2>2, <2>3 DEF Plain
<1>2. CASE s \in InPlace /\ Filed(p) /\ ~ LoadsFirst(p)
  <2>1. CASE s = <<"hold", "read", "run">>
    <3>1. Head(s) = "hold" /\ Tail(s) = <<"read", "run">>
      BY <2>1, ShortTails
    <3> QED
      BY <1>2, <3>1 DEF Works, InPlace
  <2>2. CASE s = <<"read", "run">>
    <3>1. Head(s) = "read" /\ Tail(s) = <<"run">>
      BY <2>2, ShortTails
    <3> QED
      BY <1>2, <3>1 DEF Works, InPlace
  <2>3. CASE s = <<"hold", "run">>
    <3>1. Head(s) = "hold" /\ Tail(s) = <<"run">>
      BY <2>3, ShortTails
    <3> QED
      BY <1>2, <3>1 DEF Works, InPlace
  <2>4. CASE s = <<"run">>
    <3>1. Head(s) = "run" /\ Tail(s) = <<>>
      BY <2>4, ShortTails
    <3> QED
      BY <1>2, <3>1 DEF Works, InPlace
  <2> QED
    BY <1>2, <2>1, <2>2, <2>3, <2>4 DEF InPlace
<1>3. CASE s \in Checked /\ Filed(p) /\ LoadsFirst(p)
  <2>1. CASE s = <<"check", "load", "hold", "read", "run", "encode">>
    <3>1. /\ Head(s) = "check" /\ Tail(s) = <<"load", "hold", "read", "run", "encode">>
          /\ Tail(s) # <<>> /\ Head(Tail(s)) = "load"
      BY <2>1, LongTails
    <3> QED
      BY <1>3, <3>1 DEF Works, Checked
  <2>2. CASE s = <<"load", "hold", "read", "run", "encode">>
    <3>1. Head(s) = "load" /\ Tail(s) = <<"hold", "read", "run", "encode">>
      BY <2>2, LongTails
    <3> QED
      BY <1>3, <3>1 DEF Works, Checked
  <2>3. CASE s = <<"hold", "read", "run", "encode">>
    <3>1. Head(s) = "hold" /\ Tail(s) = <<"read", "run", "encode">>
      BY <2>3, LongTails
    <3> QED
      BY <1>3, <3>1 DEF Works, Checked
  <2>4. CASE s = <<"read", "run", "encode">>
    <3>1. Head(s) = "read" /\ Tail(s) = <<"run", "encode">>
      BY <2>4, ShortTails
    <3> QED
      BY <1>3, <3>1 DEF Works, Checked
  <2>5. CASE s = <<"run", "encode">>
    <3>1. Head(s) = "run" /\ Tail(s) = <<"encode">>
      BY <2>5, ShortTails
    <3> QED
      BY <1>3, <3>1 DEF Works, Checked
  <2>6. CASE s = <<"encode">>
    <3>1. Head(s) = "encode" /\ Tail(s) = <<>>
      BY <2>6, ShortTails
    <3> QED
      BY <1>3, <3>1 DEF Works, Checked
  <2>7. CASE s = <<"check", "load", "read", "hold", "run", "encode">>
    <3>1. /\ Head(s) = "check" /\ Tail(s) = <<"load", "read", "hold", "run", "encode">>
          /\ Tail(s) # <<>> /\ Head(Tail(s)) = "load"
      BY <2>7, LongTails
    <3> QED
      BY <1>3, <3>1 DEF Works, Checked
  <2>8. CASE s = <<"load", "read", "hold", "run", "encode">>
    <3>1. Head(s) = "load" /\ Tail(s) = <<"read", "hold", "run", "encode">>
      BY <2>8, LongTails
    <3> QED
      BY <1>3, <3>1 DEF Works, Checked
  <2>9. CASE s = <<"read", "hold", "run", "encode">>
    <3>1. Head(s) = "read" /\ Tail(s) = <<"hold", "run", "encode">>
      BY <2>9, LongTails
    <3> QED
      BY <1>3, <3>1 DEF Works, Checked
  <2>10. CASE s = <<"hold", "run", "encode">>
    <3>1. Head(s) = "hold" /\ Tail(s) = <<"run", "encode">>
      BY <2>10, ShortTails
    <3> QED
      BY <1>3, <3>1 DEF Works, Checked
  <2> QED
    BY <1>3, <2>1, <2>2, <2>3, <2>4, <2>5, <2>6, <2>7, <2>8, <2>9, <2>10 DEF Checked
<1> QED
  BY <1>1, <1>2, <1>3 DEF Works

\* No call has anything to do once it is answered, and one step less after a step.
LEMMA AheadSteps ==
  ASSUME NEW p, NEW what, NEW s \in Ahead(p, what), s # <<>>
  PROVE  /\ Tail(s) \in Ahead(p, what)
         /\ Head(s) \in {"check", "read", "hold", "run", "encode"} => what = "work"
         /\ Head(s) = "unload" => what \notin {"work", "load"}
<1>1. CASE what = "work"
  BY <1>1, WorkSteps DEF Ahead
<1>2. CASE what = "load"
  <2>1. Head(s) = "load" /\ Tail(s) = <<>>
    BY <1>2, ShortTails DEF Ahead
  <2> QED
    BY <1>2, <2>1 DEF Ahead
<1>3. CASE what \notin {"work", "load"}
  <2>1. CASE s = <<"unload">>
    <3>1. Head(s) = "unload" /\ Tail(s) = <<>>
      BY <2>1, ShortTails
    <3> QED
      BY <1>3, <3>1 DEF Ahead
  <2>2. CASE s = <<"unload", "unload">>
    <3>1. Head(s) = "unload" /\ Tail(s) = <<"unload">>
      BY <2>2, ShortTails
    <3> QED
      BY <1>3, <3>1 DEF Ahead
  <2> QED
    BY <1>3, <2>1, <2>2 DEF Ahead
<1> QED
  BY <1>1, <1>2, <1>3

LEMMA NothingAhead ==
  ASSUME NEW p, NEW what
  PROVE  <<>> \in Ahead(p, what)
  BY DEF Ahead, Works, Plain, InPlace, Checked

LEMMA KindsOfCalls ==
  /\ \A j \in Jobs : Work(j) \in Calls /\ Work(j)[1] = "work" /\ Work(j)[2] = j
  /\ \A j \in Jobs : <<"load", j>> \in Calls /\ <<"load", j>>[1] = "load"
  /\ \A u \in Idles : Unloads(u) \in Calls /\ Unloads(u)[1] = "unload"
  /\ Timer \in Calls /\ Timer[1] = "unload" /\ \A u \in Idles : Unloads(u) # Timer
  /\ \A c \in Calls : \/ \E j \in Jobs : c = Work(j) \/ c = <<"load", j>>
                      \/ \E u \in Idles : c = Unloads(u)
                      \/ c = Timer
  /\ \A j, k \in Jobs : Work(j) # <<"load", k>> /\ (Work(j) = Work(k) => j = k)
  /\ \A j \in Jobs, u \in Idles : Work(j) # Unloads(u) /\ <<"load", j>> # Unloads(u)
  /\ \A u, v \in Idles : Unloads(u) = Unloads(v) => u = v
  /\ \A j \in Jobs : Work(j) # Timer /\ <<"load", j>> # Timer
<1> USE DEF Calls, Timer, Work, Unloads
<1>1. \A j \in Jobs : Work(j) \in Calls /\ Work(j)[1] = "work" /\ Work(j)[2] = j
  OBVIOUS
<1>2. \A j \in Jobs : <<"load", j>> \in Calls /\ <<"load", j>>[1] = "load"
  OBVIOUS
<1>3. \A u \in Idles : Unloads(u) \in Calls /\ Unloads(u)[1] = "unload"
  OBVIOUS
<1>4. Timer \in Calls /\ Timer[1] = "unload"
  OBVIOUS
<1>5. \A u \in Idles : Unloads(u) # Timer
  BY TimerAssumption
<1>6. ASSUME NEW c \in Calls
      PROVE  \/ \E j \in Jobs : c = Work(j) \/ c = <<"load", j>>
             \/ \E u \in Idles : c = Unloads(u)
             \/ c = Timer
  <2>1. CASE c \in {"load", "work"} \X Jobs
    <3>1. PICK what \in {"load", "work"}, j \in Jobs : c = <<what, j>>
      BY <2>1
    <3> QED
      BY <3>1
  <2>2. CASE c \in {"unload"} \X Idles
    <3>1. PICK u \in Idles : c = <<"unload", u>>
      BY <2>2
    <3> QED
      BY <3>1
  <2> QED
    BY <2>1, <2>2
<1>7. \A j, k \in Jobs : Work(j) # <<"load", k>> /\ (Work(j) = Work(k) => j = k)
  OBVIOUS
<1>8. \A j \in Jobs, u \in Idles : Work(j) # Unloads(u) /\ <<"load", j>> # Unloads(u)
  OBVIOUS
<1>9. \A u, v \in Idles : Unloads(u) = Unloads(v) => u = v
  OBVIOUS
<1>10. \A j \in Jobs : Work(j) # Timer /\ <<"load", j>> # Timer
  OBVIOUS
<1> HIDE DEF Calls, Timer, Work, Unloads
<1> QED
  BY <1>1, <1>2, <1>3, <1>4, <1>5, <1>6, <1>7, <1>8, <1>9, <1>10

LEMMA InitInv == Init => IInv
<1> SUFFICES ASSUME Init PROVE IInv
  OBVIOUS
<1>1. provider \in Known
  BY ProvidersAssumption DEF Init, Known
<1>2. Types
  BY <1>1, NothingAhead DEF Init, Types, NoPipelines, Plan
<1>3. Timing /\ Modelled
  BY KindsOfCalls DEF Init, Timing, Modelled, NoPipelines, Nobody
<1>4. ASSUME NEW j \in Jobs PROVE Placed(j) /\ Served(j)
  <2>1. plan[j] # <<>> /\ ~ At(j, "wait") /\ ~ At(j, "post")
    BY ShortTails DEF Init, At
  <2> QED
    BY <2>1, KindsOfCalls DEF Init, Placed, Served
<1>5. ASSUME NEW u \in Idles PROVE Idling(u)
  BY KindsOfCalls DEF Init, Idling
<1> QED
  BY <1>2, <1>3, <1>4, <1>5 DEF IInv

-----------------------------------------------------------------------------
(* What a step leaves alone *)

LEMMA OtherJob ==
  ASSUME NEW k, Placed(k), Served(k), UNCHANGED <<provider, model>>,
         late \subseteq late', plan'[k] = plan[k], k \in files' <=> k \in files,
         todo'[Work(k)] = todo[Work(k)], reply'[Work(k)] = reply[Work(k)]
  PROVE  Placed(k)' /\ Served(k)'
<1>1. Work(k)' = Work(k)
  BY DEF Work
<1> QED
  BY <1>1 DEF Placed, Served, At

LEMMA OtherIdle ==
  ASSUME NEW u, Idling(u), provider' = provider, late \subseteq late', idle'[u] = idle[u],
         todo'[Unloads(u)] = todo[Unloads(u)], reply'[Unloads(u)] = reply[Unloads(u)],
         idle[u] = "call" => ~ warm' /\ \A j \in Jobs : Running(j)' => At(j, "warm")'
  PROVE  Idling(u)'
<1>1. Unloads(u)' = Unloads(u)
  BY DEF Unloads
<1> QED
  BY <1>1 DEF Idling

LEMMA SameEngine ==
  ASSUME Modelled, Timing, UNCHANGED <<provider, engineVars>>, late \subseteq late',
         todo'[Timer] = todo[Timer]
  PROVE  Modelled' /\ Timing'
  BY DEF Modelled, Timing, engineVars, Timer, Nobody

-----------------------------------------------------------------------------
(* The steps of a job *)

LEMMA PlanSteps ==
  ASSUME NEW p \in Known, NEW s, Plan(p, s), s # <<>>
  PROVE  /\ Head(s) \in {"warm", "loading", "start", "write"} =>
              /\ Tail(s) \in Posts(p)
              /\ Tail(s) # <<>> /\ Head(Tail(s)) \in {"start", "write", "post"}
              /\ Filed(p) /\ Head(Tail(s)) = "post" => Head(s) = "write"
         /\ Head(s) = "write" => Head(Tail(s)) = "post"
         /\ Head(s) = "warm" =>
              /\ Plan(p, <<"loading">> \o Tail(s))
              /\ <<"loading">> \o Tail(s) # <<>> /\ Head(<<"loading">> \o Tail(s)) = "loading"
         /\ Head(s) = "new" => s = <<"new">>
<1>1. CASE s = <<"new">> \/ s = <<"wait">>
  <2>1. Head(s) \in {"new", "wait"} /\ (Head(s) = "new" => s = <<"new">>)
    BY <1>1, ShortTails
  <2> QED
    BY <2>1
<1>2. CASE s \in Posts(p)
  <2>1. Head(s) # "post" => Tail(s) # <<>> /\ Head(Tail(s)) \in {"start", "write", "post"}
    BY <1>2, PostSteps
  <2> QED
    BY <1>2, <2>1, PostSteps
<1>3. CASE Head(s) \in {"warm", "loading"} /\ Tail(s) = Client(p)
  <2>1. /\ Client(p) \in Posts(p) /\ Client(p) \in Seq(Tasks) /\ Client(p) # <<>>
        /\ Head(Client(p)) \in {"start", "write", "post"}
        /\ Filed(p) => Head(Client(p)) = "start"
    BY ClientPosts, PostSteps
  <2>2. "loading" \in Tasks
    BY DEF Tasks
  <2>3. LET q == <<"loading">> \o Client(p)
        IN q \in Seq(Tasks) /\ q # <<>> /\ Head(q) = "loading" /\ Tail(q) = Client(p)
    BY <2>1, <2>2, Prefixed
  <2> QED
    BY <1>3, <2>1, <2>3 DEF Plan
<1> QED
  BY <1>1, <1>2, <1>3 DEF Plan

LEMMA PlanBegins ==
  ASSUME NEW p \in Known, NEW s,
         s = (IF Managed(p) THEN <<"warm">> ELSE <<>>) \o Client(p)
  PROVE  /\ Plan(p, s) /\ s # <<>> /\ Head(s) \in {"warm", "start", "write", "post"}
         /\ Managed(p) => Head(s) = "warm"
         /\ Filed(p) => Head(s) # "post"
<1>1. /\ Client(p) \in Posts(p) /\ Client(p) \in Seq(Tasks) /\ Client(p) # <<>>
      /\ Head(Client(p)) \in {"start", "write", "post"}
      /\ Filed(p) => Head(Client(p)) = "start"
  BY ClientPosts, PostSteps
<1>2. CASE Managed(p)
  <2>1. "warm" \in Tasks
    BY DEF Tasks
  <2>2. s \in Seq(Tasks) /\ s # <<>> /\ Head(s) = "warm" /\ Tail(s) = Client(p)
    BY <1>1, <1>2, <2>1, Prefixed
  <2> QED
    BY <2>2 DEF Plan
<1>3. CASE ~ Managed(p)
  <2>1. s = Client(p)
    BY <1>1, <1>3
  <2> QED
    BY <1>1, <1>3, <2>1 DEF Plan
<1> QED
  BY <1>2, <1>3

\* What any step of a job leaves alone: the other jobs, the engine, and idle callbacks,
\* which do not run while a job has got further than to wait for them.
JobMove(j) ==
  /\ UNCHANGED <<provider, idle, engineVars>> /\ late \subseteq late'
  /\ \A k \in Jobs \ {j} :
       /\ plan'[k] = plan[k] /\ (k \in files' <=> k \in files)
       /\ todo'[Work(k)] = todo[Work(k)] /\ reply'[Work(k)] = reply[Work(k)]
  /\ \A u \in Idles : /\ todo'[Unloads(u)] = todo[Unloads(u)]
                      /\ reply'[Unloads(u)] = reply[Unloads(u)]
                      /\ idle[u] = "call" => ~ warm' /\ (Running(j)' => At(j, "warm")')
  /\ todo'[Timer] = todo[Timer]

LEMMA JobMoves ==
  ASSUME IInv, NEW j \in Jobs, JobMove(j), Types', Placed(j)', Served(j)'
  PROVE  IInv'
<1>1. Timing' /\ Modelled'
  BY SameEngine DEF IInv, JobMove
<1>2. ASSUME NEW k \in Jobs, k # j PROVE Placed(k)' /\ Served(k)'
  BY <1>2, OtherJob DEF IInv, JobMove, engineVars
<1>3. ASSUME NEW u \in Idles PROVE Idling(u)'
  <2>1. ASSUME idle[u] = "call", NEW k \in Jobs, Running(k)' PROVE At(k, "warm")'
    <3>1. CASE k = j
      BY <2>1, <3>1 DEF JobMove
    <3>2. CASE k # j
      <4>1. plan'[k] = plan[k]
        BY <3>2 DEF JobMove
      <4> QED
        BY <2>1, <4>1 DEF IInv, Idling, Running, At
    <3> QED
      BY <3>1, <3>2
  <2>2. idle[u] = "call" => ~ warm'
    BY DEF JobMove
  <2> QED
    BY <2>1, <2>2, OtherIdle DEF IInv, JobMove
<1> QED
  BY <1>1, <1>2, <1>3 DEF IInv

LEMMA Finished ==
  ASSUME IInv, NEW j \in Jobs, plan[j] # <<>>, Finish(j), UNCHANGED <<todo, reply>>,
         late \subseteq late', At(j, "wait") => reply[Work(j)] # "none" \/ "work" \in late'
  PROVE  Placed(j)' /\ Served(j)'
<1>1. plan'[j] = <<>> /\ j \notin files' /\ Work(j)' = Work(j)
  BY DEF Finish, IInv, Types, Work
<1> QED
  BY <1>1 DEF IInv, Placed, Served, At

LEMMA Advanced ==
  ASSUME IInv, NEW j \in Jobs, NEW step \in {"warm", "loading", "start", "write"}, At(j, step),
         Advance(j), UNCHANGED <<provider, late, todo, reply>>,
         j \in files' <=> (j \in files \/ step = "write")
  PROVE  Placed(j)' /\ Served(j)' /\ Plan(provider, plan'[j]) /\ Running(j)' /\ plan'[j] # <<>>
<1>1. plan'[j] = Tail(plan[j]) /\ Work(j)' = Work(j)
  BY DEF Advance, IInv, Types, Work
<1>2. /\ provider \in Known /\ Plan(provider, plan[j]) /\ plan[j] # <<>> /\ Head(plan[j]) = step
      /\ Placed(j)
  BY DEF IInv, Types, At
<1>3. /\ Tail(plan[j]) \in Posts(provider)
      /\ Tail(plan[j]) # <<>> /\ Head(Tail(plan[j])) \in {"start", "write", "post"}
      /\ Filed(provider) /\ Head(Tail(plan[j])) = "post" => step = "write"
      /\ step = "write" => Head(Tail(plan[j])) = "post"
  BY <1>2, PlanSteps
<1>4. ~ At(j, "wait") /\ ~ At(j, "post")
  BY <1>2 DEF At
<1>5. /\ plan'[j] # <<>> /\ ~ At(j, "wait")' /\ (At(j, "post")' <=> Head(plan'[j]) = "post")
      /\ plan'[j] # <<"new">>
  BY <1>1, <1>3, ShortTails DEF At
<1>6. Placed(j)'
  BY <1>1, <1>2, <1>3, <1>4, <1>5 DEF Placed
<1>7. Served(j)'
  BY <1>5 DEF Served
<1> QED
  BY <1>1, <1>3, <1>5, <1>6, <1>7 DEF Plan, Running

LEMMA RunningIsPast ==
  ASSUME IInv, NEW j \in Jobs, NEW step \in {"loading", "start", "write", "post", "wait"},
         At(j, step), NEW u \in Idles
  PROVE  idle[u] # "call"
<1>1. Running(j) /\ ~ At(j, "warm")
  BY ShortTails DEF At, Running
<1> QED
  BY <1>1 DEF IInv, Idling

LEMMA JobTypes ==
  ASSUME Types, NEW j \in Jobs, UNCHANGED <<provider, idle, engineVars>>, files' \subseteq Jobs,
         warm' \in BOOLEAN, NEW s, plan' = [plan EXCEPT ![j] = s], Plan(provider, s),
         \/ UNCHANGED todo
         \/ \E c \in Calls : \E t \in Ahead(provider, c[1]) : todo' = [todo EXCEPT ![c] = t],
         UNCHANGED reply \/ \E c \in Calls : \E r : reply' = [reply EXCEPT ![c] = r]
  PROVE  Types'
<1>1. plan' = [k \in Jobs |-> plan'[k]] /\ \A k \in Jobs : Plan(provider', plan'[k])
  <2>1. plan'[j] = s /\ \A k \in Jobs : k # j => plan'[k] = plan[k]
    BY DEF Types
  <2> QED
    BY <2>1 DEF Types
<1>2. todo' = [c \in Calls |-> todo'[c]] /\ \A c \in Calls : todo'[c] \in Ahead(provider', c[1])
  <2>1. CASE \E c \in Calls : \E t \in Ahead(provider, c[1]) : todo' = [todo EXCEPT ![c] = t]
    <3>1. PICK c \in Calls : \E t \in Ahead(provider, c[1]) : todo' = [todo EXCEPT ![c] = t]
      BY <2>1
    <3>2. PICK t \in Ahead(provider, c[1]) : todo' = [todo EXCEPT ![c] = t]
      BY <3>1
    <3>3. todo'[c] = t /\ \A d \in Calls : d # c => todo'[d] = todo[d]
      BY <3>2 DEF Types
    <3> QED
      BY <3>2, <3>3 DEF Types
  <2> QED
    BY <2>1 DEF Types
<1>3. reply' = [c \in Calls |-> reply'[c]]
  BY DEF Types
<1> QED
  BY <1>1, <1>2, <1>3 DEF Types, engineVars

LEMMA StepBegin ==
  ASSUME IInv, NEW j \in Jobs, Begin(j)
  PROVE  IInv'
<1> DEFINE s == (IF Managed(provider) THEN <<"warm">> ELSE <<>>) \o Client(provider)
<1>1. /\ At(j, "new") /\ plan' = [plan EXCEPT ![j] = s]
      /\ UNCHANGED <<provider, process, late, todo, reply, warm, idle, files, engineVars>>
  BY DEF Begin
<1>2. provider \in Known
  BY DEF IInv, Types
<1>3. /\ Plan(provider, s) /\ s # <<>> /\ Head(s) \in {"warm", "start", "write", "post"}
      /\ Managed(provider) => Head(s) = "warm"
      /\ Filed(provider) => Head(s) # "post"
  BY <1>2, PlanBegins
<1> HIDE DEF s
<1>4. /\ plan'[j] = s /\ Work(j)' = Work(j) /\ plan[j] # <<>> /\ ~ At(j, "wait") /\ ~ At(j, "post")
      /\ ~ At(j, "wait")' /\ (At(j, "post")' <=> Head(s) = "post") /\ Placed(j)
      /\ (Head(s) = "warm" => At(j, "warm")')
  BY <1>1, <1>3 DEF IInv, Types, At, Work
<1>5. Placed(j)' /\ Served(j)'
  BY <1>1, <1>3, <1>4 DEF Placed, Served
<1>6. Types'
  BY <1>1, <1>3, JobTypes DEF IInv, Types
<1>7. JobMove(j)
  <2>1. ASSUME NEW u \in Idles, idle[u] = "call" PROVE ~ warm' /\ At(j, "warm")'
    BY <1>1, <1>3, <1>4, <2>1 DEF IInv, Idling
  <2> QED
    BY <1>1, <2>1 DEF JobMove, IInv, Types
<1> QED
  BY <1>5, <1>6, <1>7, JobMoves

\* The steps of a client before it posts: it starts, or writes, or fails.
LEMMA StepPrepare ==
  ASSUME IInv, NEW j \in Jobs, Start(j) \/ WriteReference(j)
  PROVE  IInv'
<1>1. PICK step \in {"start", "write"} :
        /\ At(j, step) /\ UNCHANGED <<provider, late, todo, reply, warm, idle, engineVars>>
        /\ \/ Advance(j) /\ files' = IF step = "write" THEN files \cup {j} ELSE files
           \/ Finish(j)
  BY DEF Start, WriteReference
<1>2. /\ provider \in Known /\ plan[j] # <<>> /\ ~ At(j, "wait") /\ \A u \in Idles : idle[u] # "call"
      /\ ~ At(j, "post") /\ Placed(j)
  BY <1>1, RunningIsPast DEF IInv, Types, At
<1>3. CASE Advance(j) /\ files' = IF step = "write" THEN files \cup {j} ELSE files
  <2>1. Placed(j)' /\ Served(j)' /\ Plan(provider, plan'[j])
    BY <1>1, <1>3, Advanced
  <2>2. plan' = [plan EXCEPT ![j] = plan'[j]]
    BY <1>3 DEF Advance, IInv, Types
  <2>3. Types'
    BY <1>1, <1>3, <2>1, <2>2, JobTypes DEF IInv, Types
  <2>4. JobMove(j)
    BY <1>1, <1>2, <1>3 DEF JobMove, Advance, IInv, Types
  <2> QED
    BY <2>1, <2>3, <2>4, JobMoves
<1>4. CASE Finish(j)
  <2>1. Placed(j)' /\ Served(j)'
    BY <1>1, <1>2, <1>4, Finished
  <2>2. Types'
    BY <1>1, <1>4, JobTypes DEF Finish, IInv, Types, Plan
  <2>3. JobMove(j)
    BY <1>1, <1>2, <1>4 DEF JobMove, Finish, IInv, Types
  <2> QED
    BY <2>1, <2>2, <2>3, JobMoves
<1> QED
  BY <1>1, <1>3, <1>4

LEMMA StepWarm ==
  ASSUME IInv, NEW j \in Jobs, Warm(j)
  PROVE  IInv'
<1>1. At(j, "warm") /\ UNCHANGED <<provider, late, warm, idle, engineVars>>
  BY DEF Warm
<1>2. /\ provider \in Known /\ plan[j] # <<>> /\ ~ At(j, "wait") /\ ~ At(j, "post")
      /\ Head(plan[j]) = "warm" /\ Plan(provider, plan[j]) /\ Placed(j) /\ Types
  BY <1>1 DEF IInv, Types, At
<1>3. CASE warm /\ Advance(j) /\ UNCHANGED <<todo, reply, files>>
  <2>1. Placed(j)' /\ Served(j)' /\ Plan(provider, plan'[j])
    BY <1>1, <1>3, Advanced
  <2>2. plan' = [plan EXCEPT ![j] = plan'[j]]
    BY <1>2, <1>3 DEF Advance, Types
  <2>3. Types'
    BY <1>1, <1>2, <1>3, <2>1, <2>2, JobTypes DEF Types
  <2>4. \A u \in Idles : idle[u] # "call"
    BY <1>3 DEF IInv, Idling
  <2>5. JobMove(j)
    BY <1>1, <1>2, <1>3, <2>4 DEF JobMove, Advance, Types
  <2> QED
    BY <2>1, <2>3, <2>5, JobMoves
<1>4. CASE /\ \A u \in Idles : idle[u] # "call"
           /\ \/ Refused(<<"load", j>>)
              \/ Send(<<"load", j>>, <<"load">>)
           /\ plan' = [plan EXCEPT ![j] = <<"loading">> \o Tail(@)] /\ UNCHANGED files
  <2> DEFINE s == <<"loading">> \o Tail(plan[j])
  <2>1. Plan(provider, s) /\ s # <<>> /\ Head(s) = "loading"
    BY <1>2, PlanSteps
  <2> HIDE DEF s
  <2>2. plan' = [plan EXCEPT ![j] = s] /\ plan'[j] = s
    BY <1>2, <1>4 DEF Types, s
  <2>3. /\ UNCHANGED todo \/ todo' = [todo EXCEPT ![<<"load", j>>] = <<"load">>]
        /\ UNCHANGED reply \/ reply' = [reply EXCEPT ![<<"load", j>>] = "error"]
    BY <1>4 DEF Refused, Send
  <2>4. <<"load", j>> \in Calls /\ <<"load">> \in Ahead(provider, <<"load", j>>[1])
    BY KindsOfCalls DEF Ahead
  <2>5. /\ \E t \in Ahead(provider, <<"load", j>>[1]) : t = <<"load">>
        /\ UNCHANGED todo \/ \E c \in Calls : \E t \in Ahead(provider, c[1]) : todo' = [todo EXCEPT ![c] = t]
        /\ UNCHANGED reply \/ \E c \in Calls : \E r : reply' = [reply EXCEPT ![c] = r]
    BY <2>3, <2>4
  <2>6. Types'
    BY <1>1, <1>2, <1>4, <2>1, <2>2, <2>5, JobTypes DEF Types
  <2>7. /\ \A k \in Jobs : todo'[Work(k)] = todo[Work(k)] /\ reply'[Work(k)] = reply[Work(k)]
        /\ \A u \in Idles : todo'[Unloads(u)] = todo[Unloads(u)] /\ reply'[Unloads(u)] = reply[Unloads(u)]
        /\ todo'[Timer] = todo[Timer]
    BY <1>2, <2>3, KindsOfCalls DEF Types
  <2>8. JobMove(j)
    BY <1>1, <1>2, <1>4, <2>7 DEF JobMove, Types
  <2>9. ~ At(j, "wait")' /\ ~ At(j, "post")' /\ Work(j)' = Work(j)
    BY <2>1, <2>2 DEF At, Work
  <2>10. Placed(j)' /\ Served(j)'
    BY <1>1, <1>2, <1>4, <2>1, <2>2, <2>7, <2>9 DEF Placed, Served
  <2> QED
    BY <2>6, <2>8, <2>10, JobMoves
<1>5. CASE Finish(j) /\ UNCHANGED <<todo, reply>>
  <2>1. Placed(j)' /\ Served(j)'
    BY <1>1, <1>2, <1>5, Finished
  <2>2. Types'
    BY <1>1, <1>2, <1>5, JobTypes DEF Finish, Types, Plan
  <2>3. ~ Running(j)' /\ \A u \in Idles : idle[u] = "call" => ~ warm'
    BY <1>1, <1>2, <1>5 DEF IInv, Idling, Finish, Types, Running
  <2>4. JobMove(j)
    BY <1>1, <1>2, <1>5, <2>3 DEF JobMove, Finish, Types
  <2> QED
    BY <2>1, <2>2, <2>4, JobMoves
<1> QED
  BY <1>3, <1>4, <1>5 DEF Warm

LEMMA StepWarmed ==
  ASSUME IInv, NEW j \in Jobs, Warmed(j)
  PROVE  IInv'
<1>1. At(j, "loading") /\ UNCHANGED <<provider, late, todo, reply, idle, engineVars>>
  BY DEF Warmed
<1>2. /\ plan[j] # <<>> /\ ~ At(j, "wait") /\ \A u \in Idles : idle[u] # "call"
      /\ Placed(j) /\ Types
  BY <1>1, RunningIsPast DEF IInv, At
<1>3. CASE warm' = TRUE /\ Advance(j) /\ UNCHANGED files
  <2>1. Placed(j)' /\ Served(j)' /\ Plan(provider, plan'[j])
    BY <1>1, <1>3, Advanced
  <2>2. plan' = [plan EXCEPT ![j] = plan'[j]]
    BY <1>2, <1>3 DEF Advance, Types
  <2>3. Types'
    BY <1>1, <1>2, <1>3, <2>1, <2>2, JobTypes DEF Types
  <2>4. JobMove(j)
    BY <1>1, <1>2, <1>3 DEF JobMove, Advance, Types
  <2> QED
    BY <2>1, <2>3, <2>4, JobMoves
<1>4. CASE Finish(j) /\ UNCHANGED warm
  <2>1. Placed(j)' /\ Served(j)'
    BY <1>1, <1>2, <1>4, Finished
  <2>2. Types'
    BY <1>1, <1>2, <1>4, JobTypes DEF Finish, Types, Plan
  <2>3. JobMove(j)
    BY <1>1, <1>2, <1>4 DEF JobMove, Finish, Types
  <2> QED
    BY <2>1, <2>2, <2>3, JobMoves
<1> QED
  BY <1>3, <1>4 DEF Warmed

LEMMA StepPost ==
  ASSUME IInv, NEW j \in Jobs, Post(j)
  PROVE  IInv'
<1>1. /\ At(j, "post") /\ plan' = [plan EXCEPT ![j] = <<"wait">>]
      /\ UNCHANGED <<provider, late, warm, idle, files, engineVars>>
      /\ \/ UNCHANGED reply /\ todo' = [todo EXCEPT ![Work(j)] = Server(provider)]
         \/ UNCHANGED todo /\ reply' = [reply EXCEPT ![Work(j)] = "error"]
  BY DEF Post, Send, Refused, Work
<1>2. /\ plan[j] # <<>> /\ ~ At(j, "wait") /\ \A u \in Idles : idle[u] # "call"
      /\ Placed(j) /\ Types /\ provider \in Known
  BY <1>1, RunningIsPast, ShortTails DEF IInv, At, Types
<1>3. /\ Server(provider) \in Works(provider)
      /\ LoadsFirst(provider) => Head(Server(provider)) \in {"check", "load"}
  BY <1>2, ServerWorks
<1>4. Work(j) \in Calls /\ Server(provider) \in Ahead(provider, Work(j)[1])
  BY <1>3, KindsOfCalls DEF Ahead
<1>5. /\ UNCHANGED todo \/ \E c \in Calls : \E t \in Ahead(provider, c[1]) : todo' = [todo EXCEPT ![c] = t]
      /\ UNCHANGED reply \/ \E c \in Calls : \E r : reply' = [reply EXCEPT ![c] = r]
  BY <1>1, <1>4
<1>6. Types'
  BY <1>1, <1>2, <1>5, JobTypes DEF Types, Plan
<1>7. /\ \A k \in Jobs : k # j => todo'[Work(k)] = todo[Work(k)] /\ reply'[Work(k)] = reply[Work(k)]
      /\ \A u \in Idles : todo'[Unloads(u)] = todo[Unloads(u)] /\ reply'[Unloads(u)] = reply[Unloads(u)]
      /\ todo'[Timer] = todo[Timer]
  BY <1>1, <1>2, KindsOfCalls DEF Types
<1>8. JobMove(j)
  BY <1>1, <1>2, <1>7 DEF JobMove, Types
<1>9. /\ plan'[j] # <<>> /\ Work(j)' = Work(j)
      /\ \/ reply'[Work(j)] = "none" /\ todo'[Work(j)] = Server(provider)
         \/ reply'[Work(j)] = "error" /\ todo'[Work(j)] = <<>>
  BY <1>1, <1>2, <1>4 DEF Types, Placed, Work
<1>10. At(j, "wait")' /\ ~ At(j, "post")' /\ (j \in files' <=> j \in files)
  BY <1>1, <1>2, ShortTails DEF At, Types
<1>11. Placed(j)'
  BY <1>1, <1>2, <1>9, <1>10 DEF Placed
<1>12. Served(j)'
  BY <1>1, <1>3, <1>9, <1>10 DEF Served
<1> QED
  BY <1>6, <1>8, <1>11, <1>12, JobMoves

\* The end of a call: answered, or out of time.
LEMMA StepReturn ==
  ASSUME IInv, NEW j \in Jobs, Return(j) \/ TimeOut(j)
  PROVE  IInv'
<1>1. PICK step \in {"wait", "loading"} :
        /\ At(j, step) /\ Finish(j) /\ UNCHANGED <<provider, todo, reply, warm, idle, engineVars>>
        /\ late \subseteq late' /\ (step = "wait" => reply[Work(j)] # "none" \/ "work" \in late')
  BY DEF Return, TimeOut, Work, At
<1>2. /\ plan[j] # <<>> /\ \A u \in Idles : idle[u] # "call"
      /\ At(j, "wait") => step = "wait"
      /\ Placed(j) /\ Types
  BY <1>1, RunningIsPast DEF IInv, At
<1>3. Placed(j)' /\ Served(j)'
  BY <1>1, <1>2, Finished
<1>4. Types'
  BY <1>1, <1>2, JobTypes DEF Finish, Types, Plan
<1>5. JobMove(j)
  BY <1>1, <1>2 DEF JobMove, Finish, Types
<1> QED
  BY <1>3, <1>4, <1>5, JobMoves

-----------------------------------------------------------------------------
(* The steps of the idle callback *)

LEMMA TodoTypes ==
  ASSUME Types, provider' = provider, NEW c \in Calls, NEW t \in Ahead(provider, c[1]),
         todo' = [todo EXCEPT ![c] = t]
  PROVE  /\ todo' = [d \in Calls |-> todo'[d]]
         /\ \A d \in Calls : todo'[d] \in Ahead(provider', d[1])
         /\ todo'[c] = t /\ \A d \in Calls : d # c => todo'[d] = todo[d]
<1>1. todo'[c] = t /\ \A d \in Calls : d # c => todo'[d] = todo[d]
  BY DEF Types
<1> QED
  BY <1>1 DEF Types

LEMMA StepIdle ==
  ASSUME IInv, NEW u \in Idles, Idle(u)
  PROVE  IInv'
<1>1. /\ Managed(provider) /\ idle[u] = "new" /\ (\A j \in Jobs : ~ Running(j))
      /\ warm' = FALSE /\ idle' = [idle EXCEPT ![u] = "call"]
      /\ UNCHANGED <<provider, process, late, plan, files, engineVars>>
      /\ \/ UNCHANGED reply /\ todo' = [todo EXCEPT ![Unloads(u)] = <<"unload">>]
         \/ UNCHANGED todo /\ reply' = [reply EXCEPT ![Unloads(u)] = "error"]
  BY DEF Idle, Send, Refused, Unloads
<1>2. Types /\ Idling(u) /\ Unloads(u) \in Calls
  BY KindsOfCalls DEF IInv
<1>3. /\ \A c \in Calls : c # Unloads(u) => todo'[c] = todo[c] /\ reply'[c] = reply[c]
      /\ \/ reply'[Unloads(u)] = "none" /\ todo'[Unloads(u)] = <<"unload">>
         \/ reply'[Unloads(u)] = "error" /\ todo'[Unloads(u)] = <<>>
  BY <1>1, <1>2 DEF Types, Idling
<1>4. Types'
  <2>1. <<"unload">> \in Ahead(provider, Unloads(u)[1])
    BY KindsOfCalls DEF Ahead
  <2>2. todo' = [c \in Calls |-> todo'[c]] /\ \A c \in Calls : todo'[c] \in Ahead(provider', c[1])
    <3>1. CASE todo' = [todo EXCEPT ![Unloads(u)] = <<"unload">>]
      BY <1>1, <1>2, <2>1, <3>1, TodoTypes
    <3>2. CASE UNCHANGED todo
      BY <1>1, <1>2, <3>2 DEF Types
    <3> QED
      BY <1>1, <3>1, <3>2
  <2>3. reply' = [c \in Calls |-> reply'[c]] /\ idle' \in [Idles -> {"new", "call", "over"}]
    BY <1>1, <1>2 DEF Types
  <2> QED
    BY <1>1, <1>2, <2>2, <2>3 DEF Types, engineVars
<1>5. ASSUME NEW j \in Jobs PROVE Placed(j)' /\ Served(j)'
  <2>1. todo'[Work(j)] = todo[Work(j)] /\ reply'[Work(j)] = reply[Work(j)]
    BY <1>3, KindsOfCalls
  <2> QED
    BY <1>1, <2>1, OtherJob DEF IInv, engineVars
<1>6. ASSUME NEW v \in Idles PROVE Idling(v)'
  <2>1. CASE v = u
    BY <1>1, <1>2, <1>3, <2>1 DEF Idling, Types, Running, Unloads
  <2>2. CASE v # u
    <3>1. /\ todo'[Unloads(v)] = todo[Unloads(v)] /\ reply'[Unloads(v)] = reply[Unloads(v)]
          /\ idle'[v] = idle[v] /\ ~ warm' /\ \A j \in Jobs : ~ Running(j)'
      BY <1>1, <1>2, <1>3, <2>2, KindsOfCalls DEF Types, Running
    <3> QED
      BY <1>1, <3>1, OtherIdle DEF IInv
  <2> QED
    BY <2>1, <2>2
<1>7. Timing' /\ Modelled'
  BY <1>1, <1>3, KindsOfCalls, SameEngine DEF IInv
<1> QED
  BY <1>4, <1>5, <1>6, <1>7 DEF IInv

LEMMA StepIdleDone ==
  ASSUME IInv, NEW u \in Idles, IdleDone(u)
  PROVE  IInv'
<1>1. /\ idle' = [idle EXCEPT ![u] = "over"] /\ late \subseteq late'
      /\ reply[Unloads(u)] = "none" => "unload" \in late'
      /\ UNCHANGED <<provider, process, todo, reply, warm, plan, files, engineVars>>
  BY DEF IdleDone, Unloads
<1>2. Types' /\ Idling(u)' /\ \A v \in Idles : v # u => idle'[v] = idle[v]
  BY <1>1 DEF IInv, Types, Idling, engineVars, Unloads
<1>3. ASSUME NEW j \in Jobs PROVE Placed(j)' /\ Served(j)'
  BY <1>1, OtherJob DEF IInv, engineVars
<1>4. ASSUME NEW v \in Idles, v # u PROVE Idling(v)'
  BY <1>1, <1>2, <1>4, OtherIdle DEF IInv, Idling, Running, At
<1>5. Timing' /\ Modelled'
  BY <1>1, SameEngine DEF IInv
<1> QED
  BY <1>2, <1>3, <1>4, <1>5 DEF IInv

-----------------------------------------------------------------------------
(* The steps of the engine *)

\* What every step of a thread does: the thread goes on, or it answers.
Moves(c) ==
  /\ todo[c] # <<>> /\ UNCHANGED <<provider, process, late, clientVars>>
  /\ \/ UNCHANGED reply /\ todo' = [todo EXCEPT ![c] = Tail(todo[c])]
     \/ \E r \in {"ok", "error", "noFile", "noModel"} :
          /\ todo' = [todo EXCEPT ![c] = <<>>] /\ reply' = [reply EXCEPT ![c] = r]
          /\ r = "noFile" => Head(todo[c]) \in {"check", "read"} /\ c[2] \notin files
          /\ r = "noModel" => Head(todo[c]) \in {"hold", "encode"}

LEMMA ThreadMoves ==
  ASSUME NEW c \in Calls, Thread(c), Types
  PROVE  Moves(c)
<1> USE DEF Moves, Doing, Proceed, NextStep, Reply, File, Types
<1>1. CASE CheckFile(c)
  BY <1>1 DEF CheckFile
<1>2. CASE Load(c)
  BY <1>2 DEF Load
<1>3. CASE Generate(c)
  BY <1>3 DEF Generate
<1>4. CASE ReadFile(c)
  BY <1>4 DEF ReadFile
<1>5. CASE Generated(c)
  BY <1>5 DEF Generated
<1>6. CASE Encode(c)
  BY <1>6 DEF Encode
<1>7. CASE Unload(c)
  BY <1>7 DEF Unload
<1> QED
  BY <1>1, <1>2, <1>3, <1>4, <1>5, <1>6, <1>7 DEF Thread

\* A thread does not change where the others are.
LEMMA MovesAlone ==
  ASSUME IInv, NEW c \in Calls, Moves(c)
  PROVE  /\ todo' = [d \in Calls |-> todo'[d]]
         /\ \A d \in Calls : todo'[d] \in Ahead(provider', d[1])
         /\ reply' = [d \in Calls |-> reply'[d]]
         /\ \A d \in Calls : d # c => todo'[d] = todo[d] /\ reply'[d] = reply[d]
         /\ \/ reply'[c] = reply[c] /\ todo'[c] = Tail(todo[c])
            \/ reply'[c] # "none" /\ todo'[c] = <<>>
<1>1. Types /\ Tail(todo[c]) \in Ahead(provider, c[1]) /\ <<>> \in Ahead(provider, c[1])
  BY AheadSteps, NothingAhead DEF IInv, Types, Moves
<1>2. PICK t \in Ahead(provider, c[1]) : todo' = [todo EXCEPT ![c] = t]
  BY <1>1 DEF Moves
<1>3. /\ todo' = [d \in Calls |-> todo'[d]] /\ \A d \in Calls : todo'[d] \in Ahead(provider', d[1])
      /\ \A d \in Calls : d # c => todo'[d] = todo[d]
  BY <1>1, <1>2, TodoTypes DEF Moves
<1>4. /\ reply' = [d \in Calls |-> reply'[d]] /\ \A d \in Calls : d # c => reply'[d] = reply[d]
      /\ \/ reply'[c] = reply[c] /\ todo'[c] = Tail(todo[c])
         \/ reply'[c] # "none" /\ todo'[c] = <<>>
  BY <1>1 DEF Moves, Types
<1> QED
  BY <1>3, <1>4

\* Nor does it lose a file, a caller or an unload.
LEMMA MovesKeep ==
  ASSUME IInv, NEW c \in Calls, Moves(c)
  PROVE  /\ \A j \in Jobs : Placed(j)' /\ (At(j, "wait")' <=> At(j, "wait"))
         /\ \A u \in Idles : Idling(u)'
         /\ todo'[Timer] # <<>> => todo[Timer] # <<>>
<1>1. UNCHANGED <<provider, late, clientVars>> /\ todo[c] # <<>>
  BY DEF Moves
<1>2. /\ \A d \in Calls : d # c => todo'[d] = todo[d] /\ reply'[d] = reply[d]
      /\ \/ reply'[c] = reply[c] /\ todo'[c] = Tail(todo[c])
         \/ reply'[c] # "none" /\ todo'[c] = <<>>
  BY MovesAlone
<1>3. ASSUME NEW j \in Jobs PROVE Placed(j)'
  <2>1. Work(j)' = Work(j) /\ Placed(j) /\ Work(j) \in Calls
    BY KindsOfCalls DEF Work, IInv
  <2>2. CASE c # Work(j)
    BY <1>1, <1>2, <2>1, <2>2 DEF Placed, At, clientVars
  <2>3. CASE c = Work(j)
    <3>1. reply[c] = "none" /\ (plan[j] # <<>> => At(j, "wait"))
      BY <1>1, <2>1, <2>3 DEF Placed
    <3>2. At(j, "wait") => reply'[c] # "noFile"
      <4> SUFFICES ASSUME At(j, "wait"), reply'[c] = "noFile" PROVE FALSE
        OBVIOUS
      <4>1. Head(todo[c]) \in {"check", "read"} /\ c[2] \notin files
        BY <3>1 DEF Moves, IInv, Types
      <4>2. j \notin files /\ todo[c] \in Works(provider)
        BY <2>3, <4>1, KindsOfCalls DEF IInv, Types, Ahead
      <4>3. Filed(provider)
        BY <1>1, <4>1, <4>2, WorkSteps
      <4> QED
        BY <2>1, <4>2, <4>3 DEF Placed
    <3>3. reply'[c] # "none" => todo'[c] = <<>>
      BY <1>2, <3>1
    <3> QED
      BY <1>1, <2>1, <2>3, <3>1, <3>2, <3>3 DEF Placed, At, clientVars
  <2> QED
    BY <2>2, <2>3
<1>4. ASSUME NEW u \in Idles PROVE Idling(u)'
  <2>1. Unloads(u)' = Unloads(u) /\ Idling(u) /\ Unloads(u) \in Calls
    BY KindsOfCalls DEF Unloads, IInv
  <2> QED
    BY <1>1, <1>2, <2>1 DEF Idling, Running, At, clientVars
<1>5. todo'[Timer] # <<>> => todo[Timer] # <<>>
  BY <1>1, <1>2, KindsOfCalls
<1> QED
  BY <1>1, <1>3, <1>4, <1>5 DEF At, clientVars

\* What is left to prove of the step of a thread.
LEMMA ThreadStep ==
  ASSUME IInv, NEW c \in Calls, Moves(c), Modelled', Timing', model' \in BOOLEAN,
         armed' \in BOOLEAN, pipelines' \in [Languages -> {"none", "whole", "hollow"}],
         \A j \in Jobs : At(j, "wait") => Served(j)'
  PROVE  IInv'
<1>1. Types'
  BY MovesAlone DEF IInv, Types, Moves, clientVars
<1>2. \A j \in Jobs : Served(j)'
  BY MovesKeep DEF Served
<1> QED
  BY <1>1, <1>2, MovesKeep DEF IInv

\* A thread that neither answers for want of a model nor takes it away serves on.
LEMMA ServedOn ==
  ASSUME IInv, NEW c \in Calls, Moves(c), model' = TRUE \/ model' = model,
         Head(todo[c]) = "load" => model' = TRUE \/ todo'[c] = <<>>,
         reply'[c] = "noModel" => reply[c] = "noModel",
         NEW j \in Jobs, At(j, "wait")
  PROVE  Served(j)'
<1>1. UNCHANGED <<provider, late, clientVars>> /\ todo[c] # <<>> /\ Served(j) /\ Work(j)' = Work(j)
  BY DEF Moves, IInv, Work
<1>2. /\ \A d \in Calls : d # c => todo'[d] = todo[d] /\ reply'[d] = reply[d]
      /\ todo'[c] = Tail(todo[c]) \/ todo'[c] = <<>>
  BY MovesAlone
<1>3. CASE c # Work(j)
  BY <1>1, <1>2, <1>3, KindsOfCalls DEF Served
<1>4. CASE c = Work(j)
  <2>1. /\ Head(todo[c]) \in {"check", "load", "read", "hold", "run", "encode"}
        /\ Head(todo[c]) = "check" => Head(Tail(todo[c])) = "load"
    <3>1. todo[c] \in Works(provider)
      BY <1>4, KindsOfCalls DEF IInv, Types, Ahead
    <3> QED
      BY <1>1, <3>1, WorkSteps
  <2>2. LoadsFirst(provider) /\ todo'[c] # <<>> /\ Head(todo'[c]) \notin {"check", "load"} =>
          model' \/ "unload" \in late'
    BY <1>1, <1>2, <1>4, <2>1 DEF Served
  <2>3. reply'[c] = "noModel" => "unload" \in late' \/ (provider' = "kokoro" /\ "work" \in late')
    BY <1>1, <1>4 DEF Served
  <2> QED
    BY <1>1, <1>4, <2>2, <2>3 DEF Served
<1> QED
  BY <1>3, <1>4

\* A call that is refused for want of a model: then its thread had loaded one.
LEMMA ServedNot ==
  ASSUME IInv, NEW c \in Calls, Moves(c), model' = model, todo'[c] = <<>>,
         NEW j \in Jobs, At(j, "wait"),
         c = Work(j) => "unload" \in late \/ (provider = "kokoro" /\ "work" \in late)
  PROVE  Served(j)'
<1>1. UNCHANGED <<provider, late, clientVars>> /\ Served(j) /\ Work(j)' = Work(j) /\ Work(j) \in Calls
  BY KindsOfCalls DEF Moves, IInv, Work
<1>2. \A d \in Calls : d # c => todo'[d] = todo[d] /\ reply'[d] = reply[d]
  BY MovesAlone
<1> QED
  BY <1>1, <1>2 DEF Served

\* Without a model, a thread that has loaded one owes that to a late call.
LEMMA WantOfModel ==
  ASSUME IInv, NEW c \in Calls, todo[c] # <<>>, Head(todo[c]) \in {"hold", "encode"},
         LoadsFirst(provider), ~ model
  PROVE  \E j \in Jobs : c = Work(j) /\ IF At(j, "wait") THEN "unload" \in late ELSE "work" \in late
<1>1. todo[c] \in Ahead(provider, c[1])
  BY DEF IInv, Types
<1>2. c[1] = "work"
  BY <1>1, AheadSteps
<1>3. PICK j \in Jobs : c = Work(j)
  BY <1>2, KindsOfCalls
<1>4. At(j, "wait") => "unload" \in late
  BY <1>3 DEF IInv, Served
<1>5. ~ At(j, "wait") => "work" \in late
  BY <1>3 DEF IInv, Placed
<1> QED
  BY <1>3, <1>4, <1>5

LEMMA StepCheckRead ==
  ASSUME IInv, NEW c \in Calls, CheckFile(c) \/ ReadFile(c)
  PROVE  IInv'
<1>1. Moves(c)
  BY ThreadMoves DEF IInv, Thread
<1>2. /\ UNCHANGED <<provider, late, model, pipelines, armed>> /\ (lock' = lock \/ lock' = Nobody)
      /\ todo[c] # <<>> /\ Head(todo[c]) # "load"
  BY DEF CheckFile, ReadFile, Doing, engineVars
<1>3. reply'[c] = "noModel" => reply[c] = "noModel"
  BY DEF CheckFile, ReadFile, Proceed, Reply, NextStep, IInv, Types
<1>4. Modelled' /\ Timing'
  BY <1>1, <1>2, MovesKeep DEF IInv, Modelled, Timing, Nobody, Timer
<1>5. \A j \in Jobs : At(j, "wait") => Served(j)'
  BY <1>1, <1>2, <1>3, ServedOn
<1> QED
  BY <1>1, <1>2, <1>4, <1>5, ThreadStep DEF IInv, Types

LEMMA StepLoad ==
  ASSUME IInv, NEW c \in Calls, Load(c)
  PROVE  IInv'
<1>1. Moves(c)
  BY ThreadMoves DEF IInv, Thread
<1>2. /\ UNCHANGED <<provider, late, pipelines, armed, lock>>
      /\ model' = TRUE \/ (model' = model /\ ~ model /\ Reply(c, "error"))
  BY DEF Load, Free
<1>3. reply'[c] = "noModel" => reply[c] = "noModel"
  BY DEF Load, Proceed, Reply, NextStep, IInv, Types
<1>4. Modelled' /\ Timing'
  BY <1>1, <1>2, MovesKeep DEF IInv, Modelled, Timing, Nobody, Timer
<1>5. model' = TRUE \/ todo'[c] = <<>>
  BY <1>2 DEF Reply, IInv, Types
<1>6. \A j \in Jobs : At(j, "wait") => Served(j)'
  BY <1>1, <1>2, <1>3, <1>5, ServedOn
<1> QED
  BY <1>1, <1>2, <1>4, <1>6, ThreadStep DEF IInv, Types

LEMMA StepGenerated ==
  ASSUME IInv, NEW c \in Calls, Generated(c)
  PROVE  IInv'
<1>1. Moves(c)
  BY ThreadMoves DEF IInv, Thread
<1>2. /\ UNCHANGED <<provider, late, pipelines, model>> /\ lock' = Nobody
      /\ UNCHANGED armed \/ (armed' = TRUE /\ provider = "faster-whisper")
      /\ todo[c] # <<>> /\ Head(todo[c]) = "run"
  BY DEF Generated, Doing
<1>3. reply'[c] = "noModel" => reply[c] = "noModel"
  BY DEF Generated, Proceed, Reply, NextStep, IInv, Types
<1>4. Modelled' /\ Timing'
  BY <1>1, <1>2, MovesKeep DEF IInv, Modelled, Timing, Nobody, Timer
<1>5. \A j \in Jobs : At(j, "wait") => Served(j)'
  BY <1>1, <1>2, <1>3, ServedOn
<1> QED
  BY <1>1, <1>2, <1>4, <1>5, ThreadStep DEF IInv, Types

LEMMA StepEncode ==
  ASSUME IInv, NEW c \in Calls, Encode(c)
  PROVE  IInv'
<1>1. Moves(c)
  BY ThreadMoves DEF IInv, Thread
<1>2. /\ UNCHANGED <<provider, late, pipelines, model, lock, armed>>
      /\ todo[c] # <<>> /\ Head(todo[c]) = "encode"
  BY DEF Encode, Doing, engineVars
<1>3. Modelled' /\ Timing'
  BY <1>1, <1>2, MovesKeep DEF IInv, Modelled, Timing, Nobody, Timer
<1>4. ASSUME NEW j \in Jobs, At(j, "wait") PROVE Served(j)'
  <2>1. CASE model
    <3>1. reply'[c] = "noModel" => reply[c] = "noModel"
      BY <2>1 DEF Encode, Proceed, Reply, NextStep, IInv, Types
    <3> QED
      BY <1>1, <1>2, <1>4, <3>1, ServedOn
  <2>2. CASE ~ model
    <3>1. todo'[c] = <<>>
      BY <2>2 DEF Encode, Reply, IInv, Types
    <3>2. c = Work(j) => LoadsFirst(provider)
      <4> SUFFICES ASSUME c = Work(j) PROVE LoadsFirst(provider)
        OBVIOUS
      <4>1. todo[c] \in Works(provider)
        BY KindsOfCalls DEF IInv, Types, Ahead
      <4> QED
        BY <1>2, <4>1, WorkSteps
    <3>3. c = Work(j) => "unload" \in late
      BY <1>2, <1>4, <2>2, <3>2 DEF IInv, Served
    <3> QED
      BY <1>1, <1>2, <1>4, <3>1, <3>3, ServedNot
  <2> QED
    BY <2>1, <2>2
<1> QED
  BY <1>1, <1>2, <1>3, <1>4, ThreadStep DEF IInv, Types

LEMMA StepGenerate ==
  ASSUME IInv, NEW c \in Calls, Generate(c)
  PROVE  IInv'
<1> DEFINE l == Language[c[2]]
           usable == IF provider = "kokoro" THEN Pipeline(l) = "whole"
                                            ELSE model \/ LoadsInPlace(provider)
<1>1. /\ Moves(c) /\ provider \in Known /\ model \in BOOLEAN
      /\ pipelines \in [Languages -> {"none", "whole", "hollow"}]
  BY ThreadMoves DEF IInv, Thread, Types
<1>2. todo[c] # <<>> /\ Head(todo[c]) = "hold" /\ UNCHANGED <<provider, process, late, clientVars, armed>>
  BY DEF Generate, Doing
<1>3. PICK j \in Jobs : c = Work(j)
  <2>1. todo[c] \in Ahead(provider, c[1])
    BY DEF IInv, Types
  <2>2. c[1] = "work"
    BY <1>2, <2>1, AheadSteps
  <2> QED
    BY <2>2, KindsOfCalls
<1>4. l \in Languages
  BY <1>3, KindsOfCalls, LanguagesAssumption
<1> HIDE DEF l
<1>5. CASE Reply(c, "error") /\ UNCHANGED <<lock, model, pipelines>>
  <2>1. Modelled' /\ Timing'
    BY <1>1, <1>2, <1>5, MovesKeep DEF IInv, Modelled, Timing, Nobody, Timer
  <2>2. reply'[c] = "noModel" => reply[c] = "noModel"
    BY <1>5 DEF Reply, IInv, Types
  <2>3. \A k \in Jobs : At(k, "wait") => Served(k)'
    BY <1>1, <1>2, <1>5, <2>2, ServedOn
  <2> QED
    BY <1>1, <1>2, <1>5, <2>1, <2>3, ThreadStep DEF IInv, Types
<1>6. CASE /\ usable /\ lock' = c /\ Proceed(c) /\ model' = (model \/ LoadsInPlace(provider))
           /\ pipelines' = IF provider = "kokoro" THEN [pipelines EXCEPT ![l] = "whole"] ELSE pipelines
  <2>1. model' = TRUE
    <3>1. CASE provider = "kokoro"
      <4>1. model
        BY <1>4, <1>6, <3>1 DEF Pipeline, IInv, Modelled
      <4> QED
        BY <1>6, <4>1
    <3>2. CASE provider # "kokoro"
      BY <1>6, <3>2
    <3> QED
      BY <3>1, <3>2
  <2>2. /\ pipelines' \in [Languages -> {"none", "whole", "hollow"}]
        /\ \A m \in Languages : pipelines'[m] = pipelines[m] \/ pipelines'[m] = "whole"
    BY <1>1, <1>6
  <2>3. Modelled' /\ Timing'
    BY <1>1, <1>2, <2>1, <2>2, MovesKeep DEF IInv, Modelled, Timing, Timer
  <2>4. reply'[c] = "noModel" => reply[c] = "noModel"
    BY <1>6 DEF Proceed, Reply, NextStep, IInv, Types
  <2>5. \A k \in Jobs : At(k, "wait") => Served(k)'
    BY <1>1, <2>1, <2>4, ServedOn
  <2> QED
    BY <1>1, <1>2, <2>1, <2>2, <2>3, <2>5, ThreadStep DEF IInv, Types
<1>7. CASE /\ ~ usable /\ Reply(c, "noModel") /\ UNCHANGED <<lock, model>>
           /\ pipelines' = IF provider = "kokoro" THEN [pipelines EXCEPT ![l] = "hollow"] ELSE pipelines
  <2>1. \/ provider = "kokoro" /\ pipelines[l] = "hollow"
        \/ LoadsFirst(provider) /\ ~ model
    <3>1. CASE provider = "kokoro"
      BY <1>1, <1>4, <1>7, <3>1 DEF Pipeline, LoadsFirst
    <3>2. CASE provider # "kokoro"
      BY <1>1, <1>7, <3>2, LoadingPlace
    <3> QED
      BY <3>1, <3>2
  <2>2. \/ provider = "kokoro" /\ ("unload" \in late \/ "work" \in late)
        \/ IF At(j, "wait") THEN "unload" \in late ELSE "work" \in late
    <3>1. CASE provider = "kokoro" /\ pipelines[l] = "hollow"
      BY <1>4, <3>1 DEF IInv, Modelled
    <3>2. CASE LoadsFirst(provider) /\ ~ model
      <4>1. PICK k \in Jobs : c = Work(k) /\ IF At(k, "wait") THEN "unload" \in late ELSE "work" \in late
        BY <1>2, <3>2, WantOfModel
      <4>2. k = j
        BY <1>3, <4>1, KindsOfCalls
      <4> QED
        BY <4>1, <4>2
    <3> QED
      BY <2>1, <3>1, <3>2
  <2>3. /\ pipelines' \in [Languages -> {"none", "whole", "hollow"}]
        /\ \A m \in Languages : \/ pipelines'[m] = pipelines[m]
                                \/ pipelines'[m] = "hollow" /\ provider = "kokoro"
    BY <1>1, <1>7
  <2>4. Modelled' /\ Timing'
    BY <1>1, <1>2, <1>7, <2>2, <2>3, MovesKeep DEF IInv, Modelled, Timing, Nobody, Timer
  <2>5. todo'[c] = <<>>
    BY <1>7 DEF Reply, IInv, Types
  <2>6. ASSUME NEW k \in Jobs, At(k, "wait") PROVE Served(k)'
    <3>1. c = Work(k) => k = j
      BY <1>3, KindsOfCalls
    <3> QED
      BY <1>1, <1>7, <2>2, <2>5, <2>6, <3>1, ServedNot
  <2> QED
    BY <1>1, <1>2, <1>7, <2>3, <2>4, <2>6, ThreadStep DEF IInv, Types
<1> QED
  BY <1>5, <1>6, <1>7 DEF Generate, l

\* Whoever unloads is the timer of whisper, which loads in place, a callback that no
\* job overtakes, or one that was given up.
LEMMA StepUnload ==
  ASSUME IInv, NEW c \in Calls, Unload(c)
  PROVE  IInv'
<1>1. Moves(c) /\ Types
  BY ThreadMoves DEF IInv, Thread
<1>2. /\ UNCHANGED <<provider, late, lock, clientVars>> /\ lock = Nobody /\ ~ model' /\ model' = FALSE
      /\ armed' = FALSE /\ pipelines' = IF model THEN NoPipelines ELSE pipelines
      /\ todo[c] # <<>> /\ Head(todo[c]) = "unload"
  BY DEF Unload, Doing, Free
<1>3. c = Timer \/ \E u \in Idles : c = Unloads(u)
  <2>1. todo[c] \in Ahead(provider, c[1])
    BY <1>1 DEF Types
  <2>2. c[1] \notin {"work", "load"}
    BY <1>2, <2>1, AheadSteps
  <2> QED
    BY <2>2, KindsOfCalls
<1>4. Modelled'
  BY <1>2 DEF IInv, Modelled, NoPipelines, Nobody
<1>5. Timing'
  BY <1>1, <1>2, MovesKeep DEF IInv, Timing
<1>6. ASSUME NEW j \in Jobs, At(j, "wait") PROVE Served(j)'
  <2>1. LoadsFirst(provider) => "unload" \in late
    <3>1. CASE c = Timer
      BY <1>2, <3>1 DEF IInv, Timing, LoadsFirst
    <3>2. CASE \E u \in Idles : c = Unloads(u)
      <4>1. PICK u \in Idles : c = Unloads(u)
        BY <3>2
      <4>2. idle[u] # "call"
        BY <1>6, RunningIsPast
      <4> QED
        BY <1>2, <4>1, <4>2 DEF IInv, Idling
    <3> QED
      BY <1>3, <3>1, <3>2
  <2>2. Work(j)' = Work(j) /\ todo'[Work(j)] = todo[Work(j)] /\ reply'[Work(j)] = reply[Work(j)]
    BY <1>1, <1>3, MovesAlone, KindsOfCalls DEF Work
  <2> QED
    BY <1>2, <2>1, <2>2 DEF IInv, Served, At, clientVars
<1>7. pipelines' \in [Languages -> {"none", "whole", "hollow"}]
  BY <1>1, <1>2 DEF Types, NoPipelines
<1> QED
  BY <1>1, <1>2, <1>4, <1>5, <1>6, <1>7, ThreadStep

-----------------------------------------------------------------------------
(* The timer of whisper, and the end of the process *)

LEMMA StepTimer ==
  ASSUME IInv, TimerFires
  PROVE  IInv'
<1>1. /\ armed /\ Len(todo[Timer]) < 2 /\ armed' = FALSE
      /\ todo' = [todo EXCEPT ![Timer] = Append(@, "unload")]
      /\ UNCHANGED <<provider, process, late, reply, clientVars, lock, model, pipelines, served>>
  BY DEF TimerFires
<1>2. Types /\ Timer \in Calls /\ Timer[1] = "unload"
  BY KindsOfCalls DEF IInv
<1>3. Append(todo[Timer], "unload") \in Ahead(provider, Timer[1])
  <2>1. todo[Timer] \in {<<>>, <<"unload">>, <<"unload", "unload">>}
    BY <1>2 DEF Types, Ahead
  <2>2. todo[Timer] \in {<<>>, <<"unload">>}
    BY <1>1, <2>1
  <2>3. "unload" \in {"unload"}
    OBVIOUS
  <2> QED
    BY <1>2, <2>2, <2>3, Appended DEF Ahead
<1>4. /\ todo' = [d \in Calls |-> todo'[d]] /\ \A d \in Calls : todo'[d] \in Ahead(provider', d[1])
      /\ \A d \in Calls : d # Timer => todo'[d] = todo[d]
  <2>1. todo' = [todo EXCEPT ![Timer] = Append(todo[Timer], "unload")]
    BY <1>1, <1>2 DEF Types
  <2> QED
    BY <1>1, <1>2, <1>3, <2>1, TodoTypes
<1>5. Types'
  BY <1>1, <1>2, <1>4 DEF Types, clientVars
<1>6. ASSUME NEW j \in Jobs PROVE Placed(j)' /\ Served(j)'
  <2>1. todo'[Work(j)] = todo[Work(j)]
    BY <1>4, KindsOfCalls
  <2> QED
    BY <1>1, <2>1, OtherJob DEF IInv, clientVars
<1>7. ASSUME NEW u \in Idles PROVE Idling(u)'
  <2>1. todo'[Unloads(u)] = todo[Unloads(u)]
    BY <1>4, KindsOfCalls
  <2> QED
    BY <1>1, <2>1, OtherIdle DEF IInv, clientVars, Idling, Running, At
<1>8. Timing' /\ Modelled'
  BY <1>1 DEF IInv, Timing, Modelled, Nobody
<1> QED
  BY <1>5, <1>6, <1>7, <1>8 DEF IInv

LEMMA StepProcessEnds ==
  ASSUME IInv, ProcessEnds, \/ UNCHANGED late
                            \/ \A j \in Jobs : ~ Running(j)
  PROVE  IInv'
<1>1. /\ todo' = [c \in Calls |-> <<>>] /\ \A c \in Calls : todo'[c] = <<>>
      /\ reply' = [c \in Calls |-> IF todo[c] # <<>> THEN "error" ELSE reply[c]]
      /\ \A c \in Calls : reply'[c] = IF todo[c] # <<>> THEN "error" ELSE reply[c]
      /\ lock' = Nobody /\ model' = FALSE /\ pipelines' = NoPipelines
      /\ armed' = FALSE /\ UNCHANGED <<provider, clientVars>>
  BY DEF ProcessEnds
<1>2. Types'
  BY <1>1, NothingAhead DEF IInv, Types, NoPipelines, clientVars
<1>3. Timing' /\ Modelled'
  BY <1>1, KindsOfCalls DEF Timing, Modelled, NoPipelines, Nobody, Timer
<1>4. ASSUME NEW j \in Jobs PROVE Placed(j)' /\ Served(j)'
  <2>1. /\ Work(j)' = Work(j) /\ todo'[Work(j)] = <<>> /\ Placed(j) /\ Served(j)
        /\ reply'[Work(j)] = IF todo[Work(j)] # <<>> THEN "error" ELSE reply[Work(j)]
    BY <1>1, KindsOfCalls DEF Work, IInv
  <2>2. Placed(j)'
    BY <1>1, <2>1 DEF Placed, At, clientVars
  <2>3. At(j, "wait") => UNCHANGED late
    BY ShortTails DEF At, Running
  <2> QED
    BY <1>1, <2>1, <2>2, <2>3 DEF Served, At, clientVars
<1>5. ASSUME NEW u \in Idles PROVE Idling(u)'
  <2>1. /\ Unloads(u)' = Unloads(u) /\ todo'[Unloads(u)] = <<>> /\ Idling(u)
        /\ reply'[Unloads(u)] = IF todo[Unloads(u)] # <<>> THEN "error" ELSE reply[Unloads(u)]
    BY <1>1, KindsOfCalls DEF Unloads, IInv
  <2> QED
    BY <1>1, <2>1 DEF Idling, Running, At, clientVars
<1> QED
  BY <1>2, <1>3, <1>4, <1>5 DEF IInv

LEMMA NextInv == IInv /\ [Next]_vars => IInv'
<1> SUFFICES ASSUME IInv, [Next]_vars PROVE IInv'
  OBVIOUS
<1>1. ASSUME NEW j \in Jobs, JobStep(j) \/ TimeOut(j) PROVE IInv'
  BY <1>1, StepBegin, StepWarm, StepWarmed, StepPrepare, StepPost, StepReturn DEF JobStep
<1>2. ASSUME NEW u \in Idles, Idle(u) \/ IdleDone(u) PROVE IInv'
  BY <1>2, StepIdle, StepIdleDone
<1>3. ASSUME NEW c \in Calls, Thread(c) PROVE IInv'
  BY <1>3, StepCheckRead, StepLoad, StepGenerate, StepGenerated, StepEncode, StepUnload DEF Thread
<1>4. CASE TimerFires
  BY <1>4, StepTimer
<1>5. CASE Crash \/ Stop
  BY <1>5, StepProcessEnds DEF Crash, Stop
<1>6. CASE UNCHANGED vars
  <2>1. UNCHANGED <<provider, late, todo, reply, clientVars, engineVars>>
    BY <1>6 DEF vars
  <2>2. Types' /\ Timing' /\ Modelled'
    BY <2>1 DEF IInv, Types, Timing, Modelled, clientVars, engineVars, Timer, Nobody
  <2>3. ASSUME NEW j \in Jobs PROVE Placed(j)' /\ Served(j)'
    BY <2>1, OtherJob DEF IInv, clientVars, engineVars
  <2>4. ASSUME NEW u \in Idles PROVE Idling(u)'
    BY <2>1, OtherIdle DEF IInv, clientVars, Idling, Running, At
  <2> QED
    BY <2>2, <2>3, <2>4 DEF IInv
<1> QED
  BY <1>1, <1>2, <1>3, <1>4, <1>5, <1>6 DEF Next

-----------------------------------------------------------------------------
(* The theorems *)

\* Workers, files, threads, callbacks and the model stay in step, whoever gives up.
THEOREM InductiveInvariant == Spec => []IInv
  BY InitInv, NextInv, PTL DEF Spec

\* A temporary file is there while its caller waits for the sidecar that reads it, and
\* goes with the call (writeReference and the deferred cleanups of the clients).
THEOREM FilesLastAsCalls == Spec => []FilesOutliveCalls
<1>1. IInv => FilesOutliveCalls
  BY DEF IInv, Types, Placed, FilesOutliveCalls, Work
<1> QED
  BY <1>1, InductiveInvariant, PTL

\* What generates has a model; a caller is refused for want of one only behind a call
\* that was given up (the locks of the Engine classes, and the queue's Warm and Idle).
THEOREM ModelStays == Spec => []NoModelOnlyLate
<1>1. IInv => NoModelOnlyLate
  BY DEF IInv, Modelled, Served, NoModelOnlyLate, GenerationKeepsModel, Work
<1> QED
  BY <1>1, InductiveInvariant, PTL

-----------------------------------------------------------------------------
(* What the rest of the variables are, and who holds the lock *)

Answers == {"none", "ok", "error", "noFile", "noModel"}
Steps == {"check", "load", "read", "hold", "run", "encode", "unload"}

\* A thread holds the lock from here to the end of its generation.
InUse == {<<"read", "run">>, <<"read", "run", "encode">>, <<"run">>, <<"run", "encode">>}
Holds(c) == lock = c <=> todo[c] \in InUse

Rest ==
  /\ provider \in Providers /\ process \in {"stopped", "running", "dead"} /\ served \in BOOLEAN
  /\ late \subseteq {"load", "work", "unload"} /\ reply \in [Calls -> Answers]
  /\ lock \in Calls \cup {Nobody} /\ \A c \in Calls : Holds(c)

LEMMA NobodyCalls == Nobody \notin Calls
  BY DEF Nobody, Calls, Timer

\* What a step of a thread is about, by its first word.
LEMMA InUseSteps ==
  ASSUME NEW p, NEW what, NEW s \in Ahead(p, what), s # <<>>
  PROVE  /\ Head(s) = "run" => s \in InUse /\ Tail(s) \notin InUse
         /\ Head(s) = "hold" => s \notin InUse /\ Tail(s) \in InUse /\ Len(s) # 1
         /\ Head(s) = "read" => Len(s) # 1 /\ (s \in InUse <=> Tail(s) \in InUse)
         /\ Head(s) \in {"check", "load", "encode", "unload"} => s \notin InUse /\ Tail(s) \notin InUse
         /\ s \in Seq(Steps)
<1> DEFINE Goal(t) ==
      /\ Head(t) = "run" => t \in InUse /\ Tail(t) \notin InUse
      /\ Head(t) = "hold" => t \notin InUse /\ Tail(t) \in InUse /\ Len(t) # 1
      /\ Head(t) = "read" => Len(t) # 1 /\ (t \in InUse <=> Tail(t) \in InUse)
      /\ Head(t) \in {"check", "load", "encode", "unload"} => t \notin InUse /\ Tail(t) \notin InUse
      /\ t \in Seq(Steps)
<1>1. /\ Goal(<<"load", "hold", "run">>) /\ Goal(<<"hold", "run">>) /\ Goal(<<"run">>)
      /\ Goal(<<"hold", "read", "run">>) /\ Goal(<<"read", "run">>)
  BY DEF InUse, Steps
<1>2. Goal(<<"check", "load", "hold", "read", "run", "encode">>)
  BY DEF InUse, Steps
<1>3. Goal(<<"load", "hold", "read", "run", "encode">>)
  BY DEF InUse, Steps
<1>4. Goal(<<"hold", "read", "run", "encode">>) /\ Goal(<<"read", "run", "encode">>)
  BY DEF InUse, Steps
<1>5. Goal(<<"run", "encode">>) /\ Goal(<<"encode">>) /\ Goal(<<"hold", "run", "encode">>)
  BY DEF InUse, Steps
<1>6. Goal(<<"check", "load", "read", "hold", "run", "encode">>)
  BY DEF InUse, Steps
<1>7. Goal(<<"load", "read", "hold", "run", "encode">>)
  BY DEF InUse, Steps
<1>8. Goal(<<"read", "hold", "run", "encode">>)
  BY DEF InUse, Steps
<1>9. Goal(<<"load">>) /\ Goal(<<"unload">>) /\ Goal(<<"unload", "unload">>)
  BY DEF InUse, Steps
<1> HIDE DEF Goal
<1>10. Goal(s)
  BY <1>1, <1>2, <1>3, <1>4, <1>5, <1>6, <1>7, <1>8, <1>9 DEF Ahead, Works, Plain, InPlace, Checked
<1> QED
  BY <1>10 DEF Goal

LEMMA NotInUse ==
  /\ <<>> \notin InUse
  /\ \A p, what : \A s \in Ahead(p, what) : what # "work" => s \notin InUse
  /\ \A p \in Known : Server(p) \notin InUse
<1>1. <<>> \notin InUse
  BY ShortTails DEF InUse
<1>2. ASSUME NEW p, NEW what, NEW s \in Ahead(p, what), what # "work" PROVE s \notin InUse
  <2>1. <<"load">> \notin InUse /\ <<"unload">> \notin InUse /\ <<"unload", "unload">> \notin InUse
    BY DEF InUse
  <2> QED
    BY <1>1, <1>2, <2>1 DEF Ahead
<1>3. ASSUME NEW p \in Known PROVE Server(p) \notin InUse
  <2>1. /\ Server(p) \in Ahead(p, "work") /\ Server(p) # <<>>
        /\ Head(Server(p)) \in {"check", "load", "hold"}
    <3>1. Server(p) \in Works(p)
      BY <1>3, ServerWorks
    <3>2. Server(p) # <<>> /\ Head(Server(p)) \in {"check", "load", "hold"}
      BY <1>3 DEF Known, Server, KokoroServer, ChatterboxServer, CosyVoiceServer, PyannoteServer,
         HTDemucsDnRServer, FasterWhisperServer, WeSpeakerServer, AudioCpp, AudioCppUpload
    <3> QED
      BY <3>1, <3>2 DEF Ahead
  <2> QED
    BY <2>1, InUseSteps
<1> QED
  BY <1>1, <1>2, <1>3

\* A step that posts at most, and leaves the engine alone.
LEMMA RestPosted ==
  ASSUME Rest, Types, UNCHANGED <<provider, lock, served>>, process' \in {"stopped", "running", "dead"},
         late' \subseteq {"load", "work", "unload"},
         UNCHANGED reply \/ \E c \in Calls : \E r \in Answers : reply' = [reply EXCEPT ![c] = r],
         \/ UNCHANGED todo
         \/ \E c \in Calls : \E t : /\ todo' = [todo EXCEPT ![c] = t]
                                    /\ todo[c] \notin InUse /\ t \notin InUse
  PROVE  Rest'
<1>1. reply' \in [Calls -> Answers]
  BY DEF Rest
<1>2. \A c \in Calls : todo'[c] \in InUse <=> todo[c] \in InUse
  <2>1. ASSUME NEW c \in Calls, NEW t, todo' = [todo EXCEPT ![c] = t],
               todo[c] \notin InUse, t \notin InUse
        PROVE  \A d \in Calls : todo'[d] \in InUse <=> todo[d] \in InUse
    <3>1. todo'[c] = t /\ \A d \in Calls : d # c => todo'[d] = todo[d]
      BY <2>1 DEF Types
    <3> QED
      BY <2>1, <3>1
  <2> QED
    BY <2>1
<1> QED
  BY <1>1, <1>2, NobodyCalls DEF Rest, Holds, Nobody

LEMMA JobRest ==
  ASSUME IInv, Rest, NEW j \in Jobs, JobStep(j) \/ TimeOut(j)
  PROVE  Rest'
<1>0. Types /\ provider \in Known /\ <<"load", j>> \in Calls /\ Work(j) \in Calls
  BY KindsOfCalls DEF IInv, Types
<1>1. UNCHANGED <<provider, lock, served>>
  BY DEF JobStep, TimeOut, Begin, Warm, Warmed, Start, WriteReference, Post, Return, engineVars
<1>2. process' \in {"stopped", "running", "dead"}
  BY DEF Rest, JobStep, TimeOut, Begin, Warm, Warmed, Start, WriteReference, Post, Return,
     StartFunc, StartFails
<1>3. late' \subseteq {"load", "work", "unload"}
  BY DEF Rest, JobStep, TimeOut, Begin, Warm, Warmed, Start, WriteReference, Post, Return
<1>4. /\ todo[<<"load", j>>] \notin InUse /\ <<"load">> \notin InUse
      /\ Server(provider) \notin InUse
  <2>1. todo[<<"load", j>>] \in Ahead(provider, "load") /\ <<"load">> \in Ahead(provider, "load")
    BY <1>0, KindsOfCalls DEF Types, Ahead
  <2> QED
    BY <1>0, <2>1, NotInUse
<1>5. ASSUME Post(j) PROVE todo[Work(j)] \notin InUse
  <2>1. At(j, "post") /\ plan[j] # <<>> /\ ~ At(j, "wait")
    BY <1>5 DEF Post, At
  <2>2. todo[Work(j)] = <<>>
    BY <2>1 DEF IInv, Placed
  <2> QED
    BY <2>2, NotInUse
<1>6. \/ UNCHANGED <<todo, reply>>
      \/ \E c \in Calls : reply' = [reply EXCEPT ![c] = "error"] /\ UNCHANGED todo
      \/ /\ UNCHANGED reply
         /\ \E c \in Calls : \E t : /\ todo' = [todo EXCEPT ![c] = t]
                                    /\ todo[c] \notin InUse /\ t \notin InUse
  <2>1. CASE Warm(j)
    <3>1. \/ UNCHANGED <<todo, reply>>
          \/ Refused(<<"load", j>>) \/ Send(<<"load", j>>, <<"load">>)
      BY <2>1 DEF Warm
    <3> QED
      BY <1>0, <1>4, <3>1 DEF Refused, Send
  <2>2. CASE Post(j)
    <3>1. Refused(Work(j)) \/ Send(Work(j), Server(provider))
      BY <2>2 DEF Post, Work
    <3> QED
      BY <1>0, <1>4, <1>5, <2>2, <3>1 DEF Refused, Send
  <2>3. CASE ~ Warm(j) /\ ~ Post(j)
    BY <2>3 DEF JobStep, TimeOut, Begin, Warmed, Start, WriteReference, Return
  <2> QED
    BY <2>1, <2>2, <2>3
<1>7. "error" \in Answers
  BY DEF Answers
<1> QED
  BY <1>0, <1>1, <1>2, <1>3, <1>6, <1>7, RestPosted

LEMMA IdleRest ==
  ASSUME IInv, Rest, NEW u \in Idles, Idle(u) \/ IdleDone(u)
  PROVE  Rest'
<1>0. Types /\ Unloads(u) \in Calls
  BY KindsOfCalls DEF IInv
<1>1. UNCHANGED <<provider, process, lock, served>>
  BY DEF Idle, IdleDone, engineVars
<1>2. late' \subseteq {"load", "work", "unload"} /\ process \in {"stopped", "running", "dead"}
  BY DEF Rest, Idle, IdleDone
<1>3. todo[Unloads(u)] \notin InUse /\ <<"unload">> \notin InUse
  <2>1. todo[Unloads(u)] \in Ahead(provider, "unload") /\ <<"unload">> \in Ahead(provider, "unload")
    BY <1>0, KindsOfCalls DEF Types, Ahead
  <2> QED
    BY <2>1, NotInUse
<1>4. UNCHANGED <<todo, reply>> \/ Refused(Unloads(u)) \/ Send(Unloads(u), <<"unload">>)
  BY DEF Idle, IdleDone, Unloads
<1>5. "error" \in Answers
  BY DEF Answers
<1> QED
  BY <1>0, <1>1, <1>2, <1>3, <1>4, <1>5, RestPosted DEF Refused, Send

\* The lock passes from nobody to one thread and back.
LEMMA ThreadRest ==
  ASSUME IInv, Rest, NEW c \in Calls, Thread(c)
  PROVE  Rest'
<1> DEFINE s == todo[c]
<1>1. Moves(c) /\ Types /\ s \in Ahead(provider, c[1]) /\ s # <<>> /\ c # Nobody
  BY ThreadMoves, NobodyCalls DEF IInv, Types, Moves
<1>2. /\ Head(s) = "run" => s \in InUse /\ Tail(s) \notin InUse
      /\ Head(s) = "hold" => s \notin InUse /\ Tail(s) \in InUse /\ Len(s) # 1
      /\ Head(s) = "read" => Len(s) # 1 /\ (s \in InUse <=> Tail(s) \in InUse)
      /\ Head(s) \in {"check", "load", "encode", "unload"} => s \notin InUse /\ Tail(s) \notin InUse
  BY <1>1, InUseSteps
<1>3. /\ \A d \in Calls : d # c => todo'[d] = todo[d]
      /\ \/ reply'[c] = reply[c] /\ todo'[c] = Tail(s)
         \/ reply'[c] # "none" /\ todo'[c] = <<>>
  BY <1>1, MovesAlone
<1>4. reply' \in [Calls -> Answers]
  <2>1. UNCHANGED reply \/ \E r \in Answers : reply' = [reply EXCEPT ![c] = r]
    BY <1>1 DEF Moves, Answers
  <2> QED
    BY <2>1 DEF Rest
<1>5. UNCHANGED <<provider, process, late>> /\ served' \in BOOLEAN
  <2>1. served \in BOOLEAN
    BY DEF Rest
  <2>2. served' \in BOOLEAN
    BY <2>1 DEF Thread, CheckFile, Load, Generate, ReadFile, Generated, Encode, Unload, engineVars
  <2> QED
    BY <1>1, <2>2 DEF Moves
<1> HIDE DEF s
<1>6. lock' \in Calls \cup {Nobody} /\ \A d \in Calls : Holds(d)'
  <2> USE DEF Rest, Holds
  <2>1. CASE CheckFile(c) \/ Load(c) \/ Encode(c) \/ Unload(c)
    <3>1. lock' = lock /\ Head(s) \in {"check", "load", "encode", "unload"}
      BY <2>1 DEF CheckFile, Load, Encode, Unload, Doing, engineVars, s
    <3> QED
      BY <1>2, <1>3, <3>1, NotInUse DEF s
  <2>2. CASE Generate(c)
    <3>1. /\ Head(s) = "hold" /\ lock = Nobody
          /\ \/ lock' = lock /\ (Reply(c, "error") \/ Reply(c, "noModel"))
             \/ lock' = c /\ Proceed(c)
      BY <2>2 DEF Generate, Doing, Free, s
    <3>2. CASE lock' = lock /\ (Reply(c, "error") \/ Reply(c, "noModel"))
      <4>1. todo'[c] = <<>>
        BY <1>1, <3>2 DEF Reply, Types
      <4> QED
        BY <1>2, <1>3, <3>1, <3>2, <4>1, NotInUse DEF s
    <3>3. CASE lock' = c /\ Proceed(c)
      <4>1. todo'[c] = Tail(s)
        BY <1>1, <1>2, <3>1, <3>3 DEF Proceed, NextStep, Types, s
      <4> QED
        BY <1>1, <1>2, <1>3, <3>1, <3>3, <4>1, NobodyCalls DEF s
    <3> QED
      BY <3>1, <3>2, <3>3
  <2>3. CASE ReadFile(c)
    <3>1. /\ Head(s) = "read"
          /\ \/ Proceed(c) /\ lock' = lock
             \/ Reply(c, "noFile") /\ lock' = IF lock = c THEN Nobody ELSE lock
      BY <2>3 DEF ReadFile, Doing, s
    <3>2. CASE Proceed(c) /\ lock' = lock
      <4>1. todo'[c] = Tail(s)
        BY <1>1, <1>2, <3>1, <3>2 DEF Proceed, NextStep, Types, s
      <4> QED
        BY <1>2, <1>3, <3>1, <3>2, <4>1 DEF s
    <3>3. CASE Reply(c, "noFile") /\ lock' = IF lock = c THEN Nobody ELSE lock
      <4>1. todo'[c] = <<>>
        BY <1>1, <3>3 DEF Reply, Types
      <4> QED
        BY <1>1, <1>3, <3>3, <4>1, NotInUse, NobodyCalls
    <3> QED
      BY <3>1, <3>2, <3>3
  <2>4. CASE Generated(c)
    <3>1. Head(s) = "run" /\ lock' = Nobody
      BY <2>4 DEF Generated, Doing, s
    <3>2. lock = c /\ todo'[c] \notin InUse
      BY <1>2, <1>3, <3>1, NotInUse DEF s
    <3> QED
      BY <1>3, <3>1, <3>2, NobodyCalls
  <2> QED
    BY <2>1, <2>2, <2>3, <2>4 DEF Thread
<1> QED
  BY <1>4, <1>5, <1>6 DEF Rest

LEMMA NextRest == IInv /\ Rest /\ [Next]_vars => Rest'
<1> SUFFICES ASSUME IInv, Rest, [Next]_vars PROVE Rest'
  OBVIOUS
<1>1. CASE TimerFires
  <2>1. /\ todo' = [todo EXCEPT ![Timer] = Append(todo[Timer], "unload")]
        /\ UNCHANGED <<provider, process, late, reply, lock, served>> /\ Timer \in Calls
    BY <1>1, KindsOfCalls DEF TimerFires, IInv, Types
  <2>2. todo[Timer] \in {<<>>, <<"unload">>}
    BY <1>1, KindsOfCalls DEF TimerFires, IInv, Types, Ahead
  <2>3. todo[Timer] \notin InUse /\ Append(todo[Timer], "unload") \notin InUse
    <3>1. "unload" \in {"unload"}
      OBVIOUS
    <3>2. /\ todo[Timer] \in Ahead(provider, "unload")
          /\ Append(todo[Timer], "unload") \in Ahead(provider, "unload")
      BY <2>2, <3>1, Appended DEF Ahead
    <3> QED
      BY <3>2, NotInUse
  <2> QED
    BY <2>1, <2>3, RestPosted DEF IInv, Rest
<1>2. CASE Crash \/ Stop
  <2>1. /\ \A c \in Calls : todo'[c] = <<>>
        /\ reply' = [c \in Calls |-> IF todo[c] # <<>> THEN "error" ELSE reply[c]]
        /\ lock' = Nobody /\ served' = FALSE /\ provider' = provider
        /\ process' \in {"stopped", "dead"} /\ late' \subseteq late
    BY <1>2 DEF Crash, Stop, ProcessEnds
  <2>2. reply' \in [Calls -> Answers]
    BY <2>1 DEF Rest, Answers
  <2> QED
    BY <2>1, <2>2, NotInUse, NobodyCalls DEF Rest, Holds, Nobody
<1>3. CASE UNCHANGED vars
  BY <1>3 DEF vars, engineVars, Rest, Holds
<1> QED
  BY <1>1, <1>2, <1>3, JobRest, IdleRest, ThreadRest DEF Next

LEMMA InitRest == Init => Rest
<1> SUFFICES ASSUME Init PROVE Rest
  OBVIOUS
<1>1. \A c \in Calls : Holds(c)
  BY NotInUse, NobodyCalls DEF Init, Holds
<1>2. reply \in [Calls -> Answers]
  BY DEF Init, Answers
<1> QED
  BY <1>1, <1>2 DEF Init, Rest

\* Two threads are never generating together.
OneGeneration == \A c, d \in Calls : Doing(c, "run") /\ Doing(d, "run") => c = d

\* What the lock of the Engine classes is for: generations take turns, even those whose
\* callers have given up.
THEOREM GenerationsTakeTurns == Spec => []OneGeneration
<1>1. IInv /\ Rest => OneGeneration
  <2> SUFFICES ASSUME IInv, Rest, NEW c \in Calls, NEW d \in Calls, Doing(c, "run"), Doing(d, "run")
               PROVE  c = d
    BY DEF OneGeneration
  <2>1. todo[c] \in InUse /\ todo[d] \in InUse
    BY InUseSteps DEF IInv, Types, Doing
  <2> QED
    BY <2>1 DEF Rest, Holds
<1> QED
  BY <1>1, InitRest, NextRest, InitInv, NextInv, PTL DEF Spec

-----------------------------------------------------------------------------
(* Folds *)

\* A property that fails for some number fails for a least one.
LEMMA LeastNumber ==
  ASSUME NEW B \in SUBSET Nat, B # {}
  PROVE  \E m \in B : \A k \in B : m <= k
<1> DEFINE R == OpToRel(<, Nat)
<1>1. IsWellFoundedOn(R, Nat)
  BY NatLessThanWellFounded
<1>2. PICK m \in B : \A k \in B : ~ (<<k, m>> \in R)
  <2> HIDE DEF R
  <2> QED
    BY <1>1, WFMin
<1>3. \A k \in B : k < m => <<k, m>> \in R
  BY DEF OpToRel
<1> HIDE DEF R
<1>4. \A k \in B : m <= k
  <2>1. \A k \in B : ~ (k < m)
    BY <1>2, <1>3
  <2>2. m \in Nat /\ \A k \in B : k \in Nat
    OBVIOUS
  <2> QED
    BY <2>1, <2>2
<1> QED
  BY <1>4

\* Induction on finite sets: a property that fails somewhere fails at a smallest set.
LEMMA SmallestSubset ==
  ASSUME NEW S, IsFiniteSet(S), NEW B \in SUBSET SUBSET S, B # {}
  PROVE  \E s \in B : \A t \in B : t \subseteq s => t = s
<1> DEFINE R == StrictSubsetOrdering(S)
<1>1. IsWellFoundedOn(R, SUBSET S)
  BY FS_StrictSubsetOrderingWellFounded, FS_FiniteSubsetsOfFinite
<1>2. PICK s \in B : \A t \in B : ~ (<<t, s>> \in R)
  <2> HIDE DEF R
  <2> QED
  BY <1>1, WFMin
<1> QED
  BY <1>2 DEF StrictSubsetOrdering

\* Every set of indices has a last one.
LEMMA LastIndex ==
  ASSUME NEW n \in Nat, NEW s, s \subseteq 1..n, s # {}
  PROVE  Max(s) \in s /\ \A i \in s : i <= Max(s)
<1> DEFINE B == {n - i : i \in s}
<1>1. PICK m \in B : \A k \in B : m <= k
  <2>1. B \in SUBSET Nat /\ B # {}
    <3>1. \A i \in s : n - i \in Nat
      OBVIOUS
    <3> QED
      BY <3>1
  <2> HIDE DEF B
  <2> QED
    BY <2>1, LeastNumber
<1>2. PICK i \in s : m = n - i
  OBVIOUS
<1>3. \A k \in s : i >= k
  BY <1>1, <1>2
<1> QED
  BY <1>2, <1>3 DEF Max

\* The two ways to go through a sequence: k is empty for events, else target and max.
Apply(k, p, e) == IF k = <<>> THEN Listen(p, e) ELSE Take(k[1], k[2], p, e)

\* All but the last of some indices.
Before(s) == s \ {Max(s)}
Indices(S) == \E n \in Nat : S \subseteq 1..n

\* f says what the fold makes of every set of indices, the way Folds computes it.
IsFold(f, k, base, seq, S) ==
  f = [s \in SUBSET S |-> IF s = {} THEN base ELSE Apply(k, f[Before(s)], seq[Max(s)])]

Listened(base, seq) == FoldLeft(Listen, base, seq)
LEMMA TranscriptFold ==
  ASSUME NEW base, NEW seq
  PROVE  Listened(base, seq) = (CHOOSE f : IsFold(f, <<>>, base, seq, DOMAIN seq))[DOMAIN seq]
  BY Zenon DEF Listened, FoldLeft, MapThenFoldSet, IsFold, Apply, Before

\* The same for the chunks, as Pack has it.
IsPack(f, target, max, base, seq, S) ==
  f = [s \in SUBSET S |->
         IF s = {} THEN base ELSE Take(target, max, f[Before(s)], seq[Max(s)])]

Packed(target, max, base, seq) ==
  FoldLeft(LAMBDA p, s : Take(target, max, p, s), base, seq)
LEMMA PackFold ==
  ASSUME NEW base, NEW seq, NEW target, NEW max
  PROVE  Packed(target, max, base, seq)
           = (CHOOSE f : IsPack(f, target, max, base, seq, DOMAIN seq))[DOMAIN seq]
  BY Zenon DEF Packed, FoldLeft, MapThenFoldSet, IsPack, Before

\* One entry of a table.
LEMMA FoldAt ==
  ASSUME NEW k, NEW base, NEW seq, NEW S, NEW f, IsFold(f, k, base, seq, S)
  PROVE  /\ f[{}] = base
         /\ \A s : s \subseteq S /\ s # {} => f[s] = Apply(k, f[Before(s)], seq[Max(s)])
  BY DEF IsFold

LEMMA Fewer ==
  ASSUME NEW S, Indices(S)
  PROVE  /\ IsFiniteSet(S)
         /\ \A T : T \subseteq S => Indices(T)
         /\ S # {} => Before(S) \subseteq S /\ Before(S) # S
<1>1. PICK n \in Nat : S \subseteq 1..n
  BY DEF Indices
<1>2. IsFiniteSet(S)
  <2>1. IsFiniteSet(1..n)
    BY FS_Interval
  <2> QED
    BY <1>1, <2>1, FS_Subset
<1>3. \A T : T \subseteq S => Indices(T)
  BY <1>1 DEF Indices
<1>4. S # {} => Max(S) \in S
  BY <1>1, LastIndex
<1> QED
  BY <1>2, <1>3, <1>4 DEF Before

\* Two tables agree where both are defined.
LEMMA FoldsAgree ==
  ASSUME NEW k, NEW base, NEW seq, NEW S, Indices(S), NEW T, T \subseteq S,
         NEW f, IsFold(f, k, base, seq, S), NEW g, IsFold(g, k, base, seq, T)
  PROVE  f[T] = g[T]
<1> DEFINE B == {s \in SUBSET T : f[s] # g[s]}
<1>1. IsFiniteSet(T) /\ Indices(T)
  BY Fewer
<1>2. ASSUME B # {} PROVE FALSE
  <2>1. PICK s \in B : \A t \in B : t \subseteq s => t = s
    <3> HIDE DEF B
    <3>1. B \in SUBSET SUBSET T
      BY DEF B
    <3> QED
      BY <1>1, <1>2, <3>1, SmallestSubset
  <2>2. s \subseteq T /\ s \subseteq S /\ f[s] # g[s]
    OBVIOUS
  <2>3. \A t : t \subseteq s /\ t # s => f[t] = g[t]
    BY <2>1, <2>2
  <2> HIDE DEF B
  <2>4. s # {}
    BY <2>2, FoldAt
  <2>5. f[s] = Apply(k, f[Before(s)], seq[Max(s)])
    BY <2>2, <2>4, FoldAt
  <2>6. g[s] = Apply(k, g[Before(s)], seq[Max(s)])
    BY <2>2, <2>4, FoldAt
  <2>7. f[Before(s)] = g[Before(s)]
    BY <1>1, <2>2, <2>3, <2>4, Fewer
  <2> QED
    BY <2>2, <2>5, <2>6, <2>7
<1> QED
  BY <1>2

LEMMA FoldExists ==
  ASSUME NEW k, NEW base, NEW seq, NEW S, Indices(S)
  PROVE  \E f : IsFold(f, k, base, seq, S)
<1> DEFINE Table(t) == CHOOSE f : IsFold(f, k, base, seq, t)
           B == {t \in SUBSET S : ~ \E f : IsFold(f, k, base, seq, t)}
<1>1. ASSUME B # {} PROVE FALSE
  <2>1. PICK T \in B : \A t \in B : t \subseteq T => t = T
    <3> HIDE DEF B
    <3>1. B \in SUBSET SUBSET S /\ IsFiniteSet(S)
      BY Fewer DEF B
    <3> QED
      BY <1>1, <3>1, SmallestSubset
  <2>2. T \subseteq S /\ Indices(T) /\ ~ \E f : IsFold(f, k, base, seq, T)
    BY <2>1, Fewer
  <2>3. ASSUME NEW t, t \subseteq T, t # T PROVE IsFold(Table(t), k, base, seq, t)
    <3>1. \E f : IsFold(f, k, base, seq, t)
      BY <2>1, <2>2, <2>3
    <3> QED
      BY <3>1
  <2> HIDE DEF B
  <2> DEFINE F == [s \in SUBSET T |->
                     IF s = {} THEN base
                     ELSE Apply(k, Table(Before(s))[Before(s)], seq[Max(s)])]
  <2>4. \A s : s \subseteq T /\ s # {} => Before(s) \subseteq T /\ Before(s) # T
    <3> SUFFICES ASSUME NEW s, s \subseteq T, s # {} PROVE Before(s) \subseteq T /\ Before(s) # T
      OBVIOUS
    <3>1. Indices(s)
      BY <2>2, Fewer
    <3>2. Before(s) \subseteq s /\ Before(s) # s
      BY <3>1, Fewer
    <3> QED
      BY <3>2
  <2>5. ASSUME NEW u, u \subseteq T, u # T PROVE F[u] = Table(u)[u]
    <3> HIDE DEF Table
    <3>0. IsFold(Table(u), k, base, seq, u) /\ Indices(u)
      BY <2>2, <2>3, <2>5, Fewer
    <3>1. CASE u = {}
      <4>1. Table(u)[{}] = base
        BY <3>0, FoldAt
      <4> QED
        BY <3>1, <4>1
    <3>2. CASE u # {}
      <4>1. Before(u) \subseteq u /\ Before(u) \subseteq T /\ Before(u) # T
        BY <2>4, <2>5, <3>0, <3>2, Fewer
      <4>2. Table(u)[Before(u)] = Table(Before(u))[Before(u)]
        <5>1. IsFold(Table(Before(u)), k, base, seq, Before(u))
          BY <2>3, <4>1
        <5> QED
          BY <3>0, <4>1, <5>1, FoldsAgree
      <4>3. Table(u)[u] = Apply(k, Table(u)[Before(u)], seq[Max(u)])
        BY <3>0, <3>2, FoldAt
      <4>4. F[u] = Apply(k, Table(Before(u))[Before(u)], seq[Max(u)])
        BY <2>5, <3>2
      <4> QED
        BY <4>2, <4>3, <4>4
    <3> QED
      BY <3>1, <3>2
  <2>6. IsFold(F, k, base, seq, T)
    <3>1. F = [s \in SUBSET T |-> IF s = {} THEN base ELSE Apply(k, F[Before(s)], seq[Max(s)])]
      <4> HIDE DEF Table
      <4>1. \A s : s \subseteq T /\ s # {} => F[Before(s)] = Table(Before(s))[Before(s)]
        BY <2>4, <2>5
      <4> QED
        BY <4>1
    <3> QED
      BY <3>1 DEF IsFold
  <2> QED
    BY <2>2, <2>6
<1>2. S \in SUBSET S /\ B = {}
  BY <1>1
<1> QED
  BY <1>2

\* What the fold has made of the elements up to the i-th.
Passes(h, k, base, n, seq, result) ==
  /\ h[0] = base /\ h[n] = result
  /\ \A i \in 1..n : h[i] = Apply(k, h[i - 1], seq[i])

LEMMA PrefixFolds ==
  ASSUME NEW k, NEW base, NEW n \in Nat, NEW seq, NEW F, IsFold(F, k, base, seq, 1..n)
  PROVE  \E h : Passes(h, k, base, n, seq, F[1..n])
<1> DEFINE h == [i \in 0..n |-> F[1..i]]
<1>1. h[0] = base
  <2>1. 1..0 = {} /\ 0 \in 0..n
    OBVIOUS
  <2>2. F[{}] = base
    BY FoldAt
  <2> QED
    BY <2>1, <2>2
<1>2. ASSUME NEW i \in 1..n PROVE h[i] = Apply(k, h[i - 1], seq[i])
  <2>1. 1..i \subseteq 1..n /\ 1..i # {} /\ i \in 1..i /\ i \in 0..n /\ i - 1 \in 0..n /\ i \in Nat
    OBVIOUS
  <2>2. Max(1..i) = i
    <3>1. Max(1..i) \in 1..i /\ i <= Max(1..i)
      BY <2>1, LastIndex
    <3> QED
      BY <2>1, <3>1
  <2>3. Before(1..i) = 1..(i - 1)
    <3>1. (1..i) \ {i} = 1..(i - 1)
      OBVIOUS
    <3> QED
      BY <2>2, <3>1 DEF Before
  <2>4. F[1..i] = Apply(k, F[Before(1..i)], seq[Max(1..i)])
    BY <2>1, FoldAt
  <2>5. F[1..i] = Apply(k, F[1..(i - 1)], seq[i])
    BY <2>2, <2>3, <2>4
  <2> QED
    BY <2>1, <2>5
<1>3. h[n] = F[1..n]
  OBVIOUS
<1> HIDE DEF h
<1>4. Passes(h, k, base, n, seq, F[1..n])
  BY <1>1, <1>2, <1>3 DEF Passes
<1> QED
  BY <1>4

\* Transcript and Pack, element by element.
LEMMA TranscriptSteps ==
  ASSUME NEW base, NEW n \in Nat, NEW seq, DOMAIN seq = 1..n
  PROVE  \E h : /\ h[0] = base /\ h[n] = Listened(base, seq)
                /\ \A i \in 1..n : h[i] = Listen(h[i - 1], seq[i])
<1> DEFINE F == CHOOSE f : IsFold(f, <<>>, base, seq, 1..n)
<1>1. IsFold(F, <<>>, base, seq, 1..n)
  <2>1. Indices(1..n)
    BY DEF Indices
  <2> QED
    BY <2>1, FoldExists
<1>2. Listened(base, seq) = F[1..n]
  BY TranscriptFold
<1> HIDE DEF F
<1>3. PICK h : Passes(h, <<>>, base, n, seq, F[1..n])
  BY <1>1, PrefixFolds
<1> QED
  BY <1>2, <1>3 DEF Apply, Passes

LEMMA PackSteps ==
  ASSUME NEW target, NEW max, NEW base, NEW n \in Nat, NEW seq, DOMAIN seq = 1..n
  PROVE  \E h : /\ h[0] = base
                /\ h[n] = Packed(target, max, base, seq)
                /\ \A i \in 1..n : h[i] = Take(target, max, h[i - 1], seq[i])
<1> DEFINE k == <<target, max>>
           F == CHOOSE f : IsPack(f, target, max, base, seq, 1..n)
<1>1. \A p, s : Apply(k, p, s) = Take(target, max, p, s)
  BY DEF Apply
<1> HIDE DEF k
<1>2. \A f : IsFold(f, k, base, seq, 1..n) <=> IsPack(f, target, max, base, seq, 1..n)
  BY <1>1 DEF IsFold, IsPack
<1>3. IsFold(F, k, base, seq, 1..n)
  <2>1. \E f : IsPack(f, target, max, base, seq, 1..n)
    <3>1. Indices(1..n)
      BY DEF Indices
    <3> QED
      BY <1>2, <3>1, FoldExists
  <2>2. IsPack(F, target, max, base, seq, 1..n)
    BY <2>1
  <2> QED
    BY <1>2, <2>2
<1>4. Packed(target, max, base, seq) = F[1..n]
  BY PackFold
<1> HIDE DEF F
<1>5. PICK h : Passes(h, k, base, n, seq, F[1..n])
  BY <1>3, PrefixFolds
<1> QED
  BY <1>1, <1>4, <1>5 DEF Passes

-----------------------------------------------------------------------------
(* What a client hears *)

Events == [type : {"text", "error"}, text : Nat]

\* A streamed transcription succeeds with its last text, and not behind an error
\* (TranscribeStream of parakeet and qwen3asr).
LEMMA TranscriptHeard ==
  ASSUME NEW e \in Seq(Events)
  PROVE  /\ Transcript(e) \in [ok : BOOLEAN, text : Nat]
         /\ Transcript(e).ok => /\ \A i \in DOMAIN e : e[i].type # "error"
                                /\ Transcript(e).text = e[Len(e)].text
<1> DEFINE n == Len(e)
           base == [final |-> 0, error |-> FALSE]
<1>0. n \in Nat /\ DOMAIN e = 1..n
  OBVIOUS
<1>1. PICK h : /\ h[0] = base /\ h[n] = Listened(base, e)
               /\ \A i \in 1..n : h[i] = Listen(h[i - 1], e[i])
  <2> HIDE DEF base, n
  <2> QED
    BY <1>0, TranscriptSteps
<1> HIDE DEF n
<1> DEFINE Good(i) ==
      /\ h[i] \in [final : Nat, error : BOOLEAN]
      /\ ~ h[i].error => /\ \A m \in 1..i : e[m].type # "error"
                         /\ h[i].final = IF i = 0 THEN 0 ELSE e[i].text
           B == {i \in 0..n : ~ Good(i)}
<1>2. ASSUME B # {} PROVE FALSE
  <2>1. PICK i \in B : \A k \in B : i <= k
    <3>1. B \in SUBSET Nat
      BY <1>0
    <3> HIDE DEF B
    <3> QED
      BY <1>2, <3>1, LeastNumber
  <2>2. i \in Nat /\ i <= n /\ ~ Good(i)
    BY <1>0
  <2>3. i # 0
    <3> SUFFICES ASSUME i = 0 PROVE FALSE
      OBVIOUS
    <3>1. h[0].final = 0 /\ h[0] \in [final : Nat, error : BOOLEAN]
      BY <1>1
    <3> QED
      BY <2>2, <3>1
  <2>4. Good(i - 1)
    <3>1. i - 1 \in 0..n /\ ~ (i <= i - 1)
      BY <1>0, <2>2, <2>3
    <3> QED
      BY <2>1, <3>1
  <2>5. h[i] = Listen(h[i - 1], e[i]) /\ e[i] \in Events
    BY <1>0, <1>1, <2>2, <2>3
  <2>6. e[i].type \in {"text", "error"} /\ e[i].text \in Nat
    BY <2>5 DEF Events
  <2>7. CASE e[i].type = "error"
    <3>1. h[i] = [h[i - 1] EXCEPT !.error = TRUE]
      BY <2>5, <2>7 DEF Listen
    <3> QED
      BY <2>2, <2>4, <3>1
  <2>8. CASE e[i].type # "error" /\ h[i - 1].error
    <3>1. h[i] = h[i - 1]
      BY <2>5, <2>8 DEF Listen
    <3> QED
      BY <2>2, <2>4, <2>8, <3>1
  <2>9. CASE e[i].type # "error" /\ ~ h[i - 1].error
    <3>1. h[i] = [h[i - 1] EXCEPT !.final = e[i].text]
      BY <2>5, <2>9 DEF Listen
    <3>2. h[i] \in [final : Nat, error : BOOLEAN] /\ h[i].final = e[i].text
      BY <2>4, <2>6, <3>1
    <3>3. \A m \in 1..i : m = i \/ m \in 1..(i - 1)
      BY <2>2
    <3> QED
      BY <2>2, <2>3, <2>4, <2>9, <3>2, <3>3
  <2> QED
    BY <2>7, <2>8, <2>9
<1>3. Good(n)
  BY <1>0, <1>2
<1>4. Transcript(e) = [ok |-> ~ h[n].error /\ h[n].final # 0, text |-> h[n].final]
  <2>1. Transcript(e) = LET t == Listened(base, e) IN [ok |-> ~ t.error /\ t.final # 0, text |-> t.final]
    BY DEF Transcript, Listened
  <2> QED
    BY <1>1, <2>1
<1>5. /\ h[n].final \in Nat /\ h[n].error \in BOOLEAN
      /\ ~ h[n].error => /\ \A m \in 1..n : e[m].type # "error"
                         /\ h[n].final = IF n = 0 THEN 0 ELSE e[n].text
  BY <1>3
<1> HIDE DEF Good
<1>6. Transcript(e) \in [ok : BOOLEAN, text : Nat]
  BY <1>4, <1>5
<1>7. Transcript(e).ok <=> ~ h[n].error /\ h[n].final # 0
  <2>1. Transcript(e).ok = (~ h[n].error /\ h[n].final # 0)
    BY <1>4
  <2> QED
    BY <2>1
<1>8. Transcript(e).text = h[n].final
  BY <1>4
<1> QED
  BY <1>0, <1>5, <1>6, <1>7, <1>8 DEF n

-----------------------------------------------------------------------------
(* The words of lines *)

Words == Seq(Nat)
Line == [words : Words, ended : BOOLEAN]

\* The table FlattenSeq reads its result from.
IsFlat(f, seqs, n) == f = [i \in 1..n |-> IF i = 1 THEN seqs[i] ELSE f[i - 1] \o seqs[i]]

LEMMA FlattenDef ==
  ASSUME NEW seqs
  PROVE  FlattenSeq(seqs) = IF Len(seqs) = 0 THEN seqs
                            ELSE (CHOOSE f : IsFlat(f, seqs, Len(seqs)))[Len(seqs)]
  BY Zenon DEF FlattenSeq, IsFlat

LEMMA FlatAt ==
  ASSUME NEW seqs, NEW n \in Nat, NEW f, IsFlat(f, seqs, n)
  PROVE  \A i \in 1..n : f[i] = IF i = 1 THEN seqs[i] ELSE f[i - 1] \o seqs[i]
  BY DEF IsFlat

LEMMA FlatExists ==
  ASSUME NEW seqs, NEW n \in Nat
  PROVE  \E f : IsFlat(f, seqs, n)
<1> DEFINE B == {i \in Nat : ~ \E f : IsFlat(f, seqs, i)}
<1>1. ASSUME B # {} PROVE FALSE
  <2>1. PICK m \in B : \A k \in B : m <= k
    <3>1. B \in SUBSET Nat
      OBVIOUS
    <3> HIDE DEF B
    <3> QED
      BY <1>1, <3>1, LeastNumber
  <2>2. m \in Nat /\ ~ \E f : IsFlat(f, seqs, m)
    OBVIOUS
  <2>3. m # 0
    <3>1. IsFlat([i \in 1..0 |-> <<>>], seqs, 0)
      BY DEF IsFlat
    <3> QED
      BY <2>2, <3>1
  <2>4. PICK g : IsFlat(g, seqs, m - 1)
    <3>1. m - 1 \in Nat /\ ~ (m <= m - 1)
      BY <2>2, <2>3
    <3> QED
      BY <2>1, <3>1
  <2>5. \A i \in 1..(m - 1) : g[i] = IF i = 1 THEN seqs[i] ELSE g[i - 1] \o seqs[i]
    <3>1. m - 1 \in Nat
      BY <2>2, <2>3
    <3> QED
      BY <2>4, <3>1, FlatAt
  <2> DEFINE f == [i \in 1..m |-> IF i = 1 THEN seqs[i] ELSE g[i - 1] \o seqs[i]]
  <2>6. \A i \in 1..(m - 1) : f[i] = g[i]
    BY <2>2, <2>5
  <2>7. f = [i \in 1..m |-> IF i = 1 THEN seqs[i] ELSE f[i - 1] \o seqs[i]]
    <3>1. \A i \in 1..m : i # 1 => i - 1 \in 1..(m - 1)
      BY <2>2
    <3>2. \A i \in 1..m : i # 1 => f[i - 1] = g[i - 1]
      BY <2>6, <3>1
    <3> QED
      BY <3>2
  <2>8. IsFlat(f, seqs, m)
    BY <2>7 DEF IsFlat
  <2> QED
    BY <2>2, <2>8
<1> QED
  BY <1>1

\* One sequence more.
LEMMA FlatMore ==
  ASSUME NEW s \in Seq(Words), NEW t \in Words
  PROVE  FlattenSeq(Append(s, t)) = IF s = <<>> THEN t ELSE FlattenSeq(s) \o t
<1> DEFINE n == Len(s)
           q == Append(s, t)
           f == CHOOSE f : IsFlat(f, q, n + 1)
           g == CHOOSE g : IsFlat(g, s, n)
<1>1. /\ n \in Nat /\ n + 1 \in Nat /\ Len(q) = n + 1 /\ q[n + 1] = t
      /\ \A i \in 1..n : q[i] = s[i]
  OBVIOUS
<1>2. FlattenSeq(q) = f[n + 1]
  <2>1. Len(q) = n + 1 /\ Len(q) # 0
    BY <1>1
  <2>2. FlattenSeq(q) = (CHOOSE x : IsFlat(x, q, Len(q)))[Len(q)]
    BY <2>1, FlattenDef
  <2> QED
    BY <2>1, <2>2
<1>3. s # <<>> => n # 0 /\ FlattenSeq(s) = g[n]
  <2>1. s # <<>> => Len(s) # 0
    OBVIOUS
  <2>2. s # <<>> => FlattenSeq(s) = (CHOOSE x : IsFlat(x, s, Len(s)))[Len(s)]
    BY <2>1, FlattenDef
  <2> QED
    BY <2>1, <2>2
<1>4. IsFlat(f, q, n + 1) /\ IsFlat(g, s, n)
  BY <1>1, FlatExists
<1> HIDE DEF f, g, q
<1>5. \A i \in 1..(n + 1) : f[i] = IF i = 1 THEN q[i] ELSE f[i - 1] \o q[i]
  BY <1>1, <1>4, FlatAt
<1>6. \A i \in 1..n : g[i] = IF i = 1 THEN s[i] ELSE g[i - 1] \o s[i]
  BY <1>1, <1>4, FlatAt
<1> HIDE DEF n
<1> DEFINE B == {i \in 1..n : f[i] # g[i]}
<1>7. ASSUME B # {} PROVE FALSE
  <2>1. PICK i \in B : \A k \in B : i <= k
    <3>1. B \in SUBSET Nat
      BY <1>1
    <3> HIDE DEF B
    <3> QED
      BY <1>7, <3>1, LeastNumber
  <2>2. i \in 1..n /\ i \in 1..(n + 1) /\ f[i] # g[i]
    BY <1>1
  <2>3. i # 1
    BY <1>1, <1>5, <1>6, <2>2
  <2>4. f[i - 1] = g[i - 1]
    <3>1. i - 1 \in 1..n /\ ~ (i <= i - 1)
      BY <1>1, <2>2, <2>3
    <3> QED
      BY <2>1, <3>1
  <2> QED
    BY <1>1, <1>5, <1>6, <2>2, <2>3, <2>4
<1>8. n # 0 => f[n] = g[n]
  BY <1>1, <1>7
<1>9. CASE n = 0
  <2>1. s = <<>> /\ n + 1 = 1
    BY <1>9 DEF n
  <2>2. f[1] = q[1]
    BY <1>5, <2>1
  <2> QED
    BY <1>1, <1>2, <2>1, <2>2 DEF q
<1>10. CASE n # 0
  <2>1. s # <<>> /\ n + 1 # 1 /\ n + 1 \in 1..(n + 1) /\ (n + 1) - 1 = n
    BY <1>1, <1>10 DEF n
  <2>2. f[n + 1] = f[n] \o t
    BY <1>1, <1>5, <2>1
  <2> QED
    BY <1>2, <1>3, <1>8, <1>10, <2>1, <2>2 DEF q
<1> QED
  BY <1>9, <1>10

\* The words of some lines, as Join has them.
Said(lines) == FlattenSeq([i \in DOMAIN lines |-> lines[i].words])

LEMMA JoinSays == \A lines : Join(lines).words = Said(lines)
  BY DEF Join, Said

LEMMA SaidNothing == Said(<<>>) = <<>>
<1> DEFINE e == [i \in DOMAIN <<>> |-> <<>>[i].words]
<1>1. e = <<>>
  OBVIOUS
<1>2. FlattenSeq(<<>>) = <<>>
  BY FlattenDef
<1> QED
  BY <1>1, <1>2 DEF Said

LEMMA SaidMoreOrOne ==
  ASSUME NEW lines \in Seq(Line), NEW l \in Line
  PROVE  Said(Append(lines, l)) = IF lines = <<>> THEN l.words ELSE Said(lines) \o l.words
<1> DEFINE s == [i \in DOMAIN lines |-> lines[i].words]
           q == Append(lines, l)
           u == [i \in DOMAIN q |-> q[i].words]
<1>1. s \in Seq(Words) /\ Len(s) = Len(lines) /\ l.words \in Words
  <2>1. \A i \in 1..Len(lines) : lines[i].words \in Words
    <3>1. \A i \in 1..Len(lines) : lines[i] \in Line
      OBVIOUS
    <3> QED
      BY <3>1 DEF Line
  <2>2. DOMAIN lines = 1..Len(lines) /\ Len(lines) \in Nat
    OBVIOUS
  <2> QED
    BY <2>1, <2>2 DEF Line
<1>2. u = Append(s, l.words)
  <2>1. /\ q \in Seq(Line) /\ DOMAIN q = 1..(Len(lines) + 1) /\ Len(lines) \in Nat
        /\ q[Len(lines) + 1] = l /\ \A i \in 1..Len(lines) : q[i] = lines[i]
    OBVIOUS
  <2> DEFINE v == Append(s, l.words)
  <2>2. /\ v \in Seq(Words) /\ Len(v) = Len(lines) + 1 /\ v[Len(lines) + 1] = l.words
        /\ \A i \in 1..Len(lines) : v[i] = s[i]
    BY <1>1
  <2>3. u \in Seq(Words) /\ Len(u) = Len(lines) + 1
    <3>1. \A i \in 1..(Len(lines) + 1) : q[i].words \in Words
      <4>1. \A i \in 1..(Len(lines) + 1) : q[i] \in Line
        BY <2>1
      <4> QED
        BY <4>1 DEF Line
    <3> QED
      BY <2>1, <3>1
  <2>4. \A i \in 1..(Len(lines) + 1) : u[i] = v[i]
    BY <2>1, <2>2
  <2> HIDE DEF u, v
  <2>5. u = v
    BY <2>2, <2>3, <2>4
  <2> QED
    BY <2>5 DEF v
<1>3. FlattenSeq(Append(s, l.words)) = IF s = <<>> THEN l.words ELSE FlattenSeq(s) \o l.words
  BY <1>1, FlatMore
<1>4. s = <<>> <=> lines = <<>>
  BY <1>1
<1> HIDE DEF s, q, u
<1> QED
  BY <1>2, <1>3, <1>4 DEF Said, s, q, u

\* The lines up to the i-th are those before it and the i-th.
LEMMA OneLineMore ==
  ASSUME NEW X, NEW s \in Seq(X), NEW i \in 1..Len(s)
  PROVE  /\ SubSeq(s, 1, i) = Append(SubSeq(s, 1, i - 1), s[i])
         /\ SubSeq(s, 1, i) \in Seq(X) /\ SubSeq(s, 1, i - 1) \in Seq(X) /\ s[i] \in X
         /\ SubSeq(s, 1, Len(s)) = s /\ SubSeq(s, 1, 0) = <<>>
<1> DEFINE a == SubSeq(s, 1, i)
           b == SubSeq(s, 1, i - 1)
           c == Append(b, s[i])
<1>1. /\ a \in Seq(X) /\ Len(a) = i /\ \A m \in 1..i : a[m] = s[m]
      /\ b \in Seq(X) /\ Len(b) = i - 1 /\ \A m \in 1..(i - 1) : b[m] = s[m]
      /\ s[i] \in X /\ i \in Nat
  OBVIOUS
<1>2. c \in Seq(X) /\ Len(c) = i /\ \A m \in 1..i : c[m] = s[m]
  BY <1>1
<1>3. a = c
  <2> HIDE DEF a, c
  <2> QED
    BY <1>1, <1>2
<1>4. SubSeq(s, 1, Len(s)) = s /\ SubSeq(s, 1, 0) = <<>>
  OBVIOUS
<1> QED
  BY <1>1, <1>3, <1>4

LEMMA SaidWords ==
  ASSUME NEW lines \in Seq(Line)
  PROVE  Said(lines) \in Words
<1> DEFINE n == Len(lines)
           B == {i \in 0..n : Said(SubSeq(lines, 1, i)) \notin Words}
<1>1. n \in Nat
  OBVIOUS
<1>2. ASSUME B # {} PROVE FALSE
  <2>1. PICK i \in B : \A k \in B : i <= k
    <3>1. B \in SUBSET Nat
      BY <1>1
    <3> HIDE DEF B
    <3> QED
      BY <1>2, <3>1, LeastNumber
  <2>2. i \in 0..n /\ Said(SubSeq(lines, 1, i)) \notin Words
    OBVIOUS
  <2>3. i # 0
    <3>1. SubSeq(lines, 1, 0) = <<>> /\ <<>> \in Words
      BY DEF Words
    <3> QED
      BY <2>2, <3>1, SaidNothing
  <2>4. i \in 1..n
    BY <1>1, <2>2, <2>3
  <2>5. Said(SubSeq(lines, 1, i - 1)) \in Words
    <3>1. i - 1 \in 0..n /\ ~ (i <= i - 1)
      BY <1>1, <2>4
    <3> QED
      BY <2>1, <3>1
  <2>6. /\ SubSeq(lines, 1, i) = Append(SubSeq(lines, 1, i - 1), lines[i])
        /\ SubSeq(lines, 1, i - 1) \in Seq(Line) /\ lines[i] \in Line
    BY <2>4, OneLineMore
  <2>7. lines[i].words \in Words
    BY <2>6 DEF Line
  <2>8. Said(SubSeq(lines, 1, i)) \in {lines[i].words, Said(SubSeq(lines, 1, i - 1)) \o lines[i].words}
    BY <2>6, SaidMoreOrOne
  <2>9. Said(SubSeq(lines, 1, i - 1)) \o lines[i].words \in Words
    <3>1. \A a, b \in Seq(Nat) : a \o b \in Seq(Nat)
      OBVIOUS
    <3> QED
      BY <2>5, <2>7, <3>1 DEF Words
  <2> QED
    BY <2>2, <2>7, <2>8, <2>9
<1>3. Said(SubSeq(lines, 1, n)) \in Words
  BY <1>1, <1>2
<1>4. SubSeq(lines, 1, n) = lines
  OBVIOUS
<1> QED
  BY <1>3, <1>4

\* What lines say: nothing, one line more, one text after the other.
LEMMA SaidMore ==
  ASSUME NEW lines \in Seq(Line), NEW l \in Line
  PROVE  Said(Append(lines, l)) = Said(lines) \o l.words
<1>1. l.words \in Words
  BY DEF Line
<1>2. <<>> \o l.words = l.words
  BY <1>1 DEF Words
<1> QED
  BY <1>2, SaidMoreOrOne, SaidNothing

LEMMA SaidOne ==
  ASSUME NEW l \in Line
  PROVE  Said(<<l>>) = l.words
<1>1. Append(<<>>, l) = <<l>> /\ <<>> \in Seq(Line)
  OBVIOUS
<1> QED
  BY <1>1, SaidMoreOrOne

LEMMA Associative ==
  ASSUME NEW X, NEW a \in Seq(X), NEW b \in Seq(X), NEW c \in Seq(X)
  PROVE  (a \o b) \o c = a \o (b \o c)
<1> DEFINE l == (a \o b) \o c
           r == a \o (b \o c)
<1>1. a \o b \in Seq(X) /\ b \o c \in Seq(X)
  OBVIOUS
<1>2. l \in Seq(X) /\ r \in Seq(X) /\ Len(l) = Len(r)
  BY <1>1
<1>3. \A k \in 1..Len(l) : l[k] = r[k]
  OBVIOUS
<1>4. l = r
  <2> HIDE DEF l, r
  <2> QED
    BY <1>2, <1>3
<1> QED
  BY <1>4

LEMMA WordsAssociative == \A x, y, z \in Words : (x \o y) \o z = x \o (y \o z)
  BY Associative DEF Words

LEMMA AppendIsConcat ==
  ASSUME NEW X, NEW s \in Seq(X), NEW e \in X
  PROVE  Append(s, e) = s \o <<e>>
<1> DEFINE l == Append(s, e)
           r == s \o <<e>>
<1>1. <<e>> \in Seq(X) /\ Len(<<e>>) = 1 /\ <<e>>[1] = e
  OBVIOUS
<1>2. l \in Seq(X) /\ r \in Seq(X) /\ Len(l) = Len(r)
  BY <1>1
<1>3. \A k \in 1..Len(l) : l[k] = r[k]
  BY <1>1
<1>4. l = r
  <2> HIDE DEF l, r
  <2> QED
    BY <1>2, <1>3
<1> QED
  BY <1>4

LEMMA OneByOne ==
  ASSUME NEW a \in Seq(Line), NEW b \in Seq(Line)
  PROVE  Said(a \o b) = Said(a) \o Said(b)
<1> DEFINE n == Len(b)
           P(i) == Said(a \o SubSeq(b, 1, i)) = Said(a) \o Said(SubSeq(b, 1, i))
           B == {i \in 0..n : ~ P(i)}
<1>1. n \in Nat
  OBVIOUS
<1>2. ASSUME B # {} PROVE FALSE
  <2>1. PICK i \in B : \A k \in B : i <= k
    <3>1. B \in SUBSET Nat
      BY <1>1
    <3> HIDE DEF B
    <3> QED
      BY <1>2, <3>1, LeastNumber
  <2>2. i \in 0..n /\ ~ P(i)
    OBVIOUS
  <2>3. i # 0
    <3> SUFFICES ASSUME i = 0 PROVE FALSE
      OBVIOUS
    <3>1. SubSeq(b, 1, 0) = <<>> /\ a \o <<>> = a
      OBVIOUS
    <3>2. Said(a) \o <<>> = Said(a)
      <4>1. \A w \in Seq(Nat) : w \o <<>> = w
        OBVIOUS
      <4> QED
        BY <4>1, SaidWords DEF Words
    <3> QED
      BY <2>2, <3>1, <3>2, SaidNothing
  <2>4. i \in 1..n /\ i - 1 \in 0..n /\ ~ (i <= i - 1)
    BY <1>1, <2>2, <2>3
  <2>5. P(i - 1)
    BY <2>1, <2>4
  <2> DEFINE c == SubSeq(b, 1, i - 1)
             l == b[i]
  <2>6. SubSeq(b, 1, i) = Append(c, l) /\ c \in Seq(Line) /\ l \in Line
    BY <2>4, OneLineMore
  <2>7. Said(a \o c) = Said(a) \o Said(c)
    BY <2>5
  <2> HIDE DEF c, l
  <2>8. a \o c \in Seq(Line) /\ a \o Append(c, l) = Append(a \o c, l)
    <3>1. a \o c \in Seq(Line)
      BY <2>6
    <3>2. Append(c, l) = c \o <<l>> /\ Append(a \o c, l) = (a \o c) \o <<l>>
      BY <2>6, <3>1, AppendIsConcat
    <3>3. <<l>> \in Seq(Line)
      BY <2>6
    <3>4. (a \o c) \o <<l>> = a \o (c \o <<l>>)
      BY <2>6, <3>3, Associative
    <3> QED
      BY <3>1, <3>2, <3>4
  <2>9. Said(a \o Append(c, l)) = (Said(a) \o Said(c)) \o l.words
    BY <2>6, <2>7, <2>8, SaidMore
  <2>10. Said(a) \o Said(Append(c, l)) = Said(a) \o (Said(c) \o l.words)
    BY <2>6, SaidMore
  <2>11. (Said(a) \o Said(c)) \o l.words = Said(a) \o (Said(c) \o l.words)
    <3>1. Said(a) \in Words /\ Said(c) \in Words /\ l.words \in Words
      BY <2>6, SaidWords DEF Line
    <3> QED
      BY <3>1, WordsAssociative
  <2> QED
    BY <2>2, <2>6, <2>9, <2>10, <2>11
<1>3. P(n)
  BY <1>1, <1>2
<1>4. SubSeq(b, 1, n) = b
  OBVIOUS
<1> QED
  BY <1>3, <1>4

-----------------------------------------------------------------------------
(* How a text is cut *)

\* What a limit on the words means for lines.
Short(lines, max) == \A i \in DOMAIN lines : Len(lines[i].words) <= max

LEMMA Parts ==
  ASSUME NEW n \in Nat, NEW max \in Nat \ {0}, NEW q, q = (n + max - 1) \div max
  PROVE  /\ q \in Nat /\ n <= q * max
         /\ \A i \in 1..q : (i - 1) * max < n /\ i * max = (i - 1) * max + max
                            /\ (i - 1) * max \in Nat
<1>1. /\ q \in Nat
      /\ q * max <= n + max - 1 /\ n + max - 1 < q * max + max
  OBVIOUS
<1>2. ASSUME NEW i \in 1..q PROVE i * max = (i - 1) * max + max /\ (i - 1) * max \in Nat
  OBVIOUS
<1>3. ASSUME NEW i \in 1..q PROVE i * max <= q * max
  OBVIOUS
<1>4. q * max \in Nat
  BY <1>1
<1> QED
  BY <1>1, <1>2, <1>3, <1>4

\* A sentence too long for a line is cut into lines that are not (splitByWords).
LEMMA ChopRight ==
  ASSUME NEW line \in Line, NEW max \in Nat \ {0}, Len(line.words) > 0
  PROVE  /\ Chop(line, max) \in Seq(Line)
         /\ Said(Chop(line, max)) = line.words
         /\ Short(Chop(line, max), max)
<1> DEFINE w == line.words
           n == Len(w)
           q == (n + max - 1) \div max
           To(i) == IF i * max > n THEN n ELSE i * max
           Piece(i) == SubSeq(w, (i - 1) * max + 1, To(i))
           c == [i \in 1..q |-> [words |-> Piece(i), ended |-> line.ended /\ i * max >= n]]
<1>1. Chop(line, max) = c
  BY DEF Chop, WordCount
<1>2. w \in Seq(Nat) /\ n \in Nat /\ n > 0 /\ line.ended \in BOOLEAN
  BY DEF Line, Words
<1> HIDE DEF w
<1> HIDE DEF n
<1>3. /\ q \in Nat /\ n <= q * max
      /\ \A i \in 1..q : (i - 1) * max < n /\ i * max = (i - 1) * max + max
                         /\ (i - 1) * max \in Nat
  BY <1>2, Parts
<1> HIDE DEF q
<1>4. q # 0 /\ 0 * max = 0
  BY <1>2, <1>3
<1>5. ASSUME NEW i \in 1..q
      PROVE  /\ To(i) \in Nat /\ (i - 1) * max < To(i) /\ To(i) <= n
             /\ To(i) <= (i - 1) * max + max /\ To(i - 1) = (i - 1) * max
  <2> DEFINE z == (i - 1) * max
  <2>1. z < n /\ i * max = z + max /\ z \in Nat
    BY <1>3
  <2> HIDE DEF z
  <2>2. To(i) = IF z + max > n THEN n ELSE z + max
    BY <2>1
  <2>3. To(i - 1) = z
    <3>1. To(i - 1) = IF z > n THEN n ELSE z
      BY DEF z
    <3> QED
      BY <1>2, <2>1, <3>1
  <2>4. To(i) \in Nat /\ z < To(i) /\ To(i) <= n /\ To(i) <= z + max
    BY <1>2, <2>1, <2>2
  <2> QED
    BY <2>3, <2>4 DEF z
<1>6. To(q) = n
  <2>1. q * max \in Nat
    BY <1>3
  <2> QED
    BY <1>2, <1>3, <2>1
<1> HIDE DEF To
<1>7. ASSUME NEW i \in 1..q
      PROVE  /\ Piece(i) \in Seq(Nat) /\ Len(Piece(i)) <= max
             /\ SubSeq(w, 1, To(i - 1)) \o Piece(i) = SubSeq(w, 1, To(i))
  <2> DEFINE z == (i - 1) * max
             t == To(i)
             l == SubSeq(w, 1, z) \o SubSeq(w, z + 1, t)
             r == SubSeq(w, 1, t)
  <2>1. z \in Nat /\ t \in Nat /\ z < t /\ t <= n /\ t <= z + max /\ To(i - 1) = z
    BY <1>3, <1>5
  <2> HIDE DEF z, t
  <2>2. /\ SubSeq(w, z + 1, t) \in Seq(Nat) /\ Len(SubSeq(w, z + 1, t)) = t - z
        /\ \A k \in 1..(t - z) : SubSeq(w, z + 1, t)[k] = w[z + k]
    BY <1>2, <2>1 DEF n
  <2>3. /\ SubSeq(w, 1, z) \in Seq(Nat) /\ Len(SubSeq(w, 1, z)) = z
        /\ \A k \in 1..z : SubSeq(w, 1, z)[k] = w[k]
    BY <1>2, <2>1 DEF n
  <2>4. r \in Seq(Nat) /\ Len(r) = t /\ \A k \in 1..t : r[k] = w[k]
    BY <1>2, <2>1 DEF n
  <2>5. l \in Seq(Nat) /\ Len(l) = t
    BY <2>1, <2>2, <2>3
  <2>6. ASSUME NEW k \in 1..t PROVE l[k] = w[k]
    <3>1. CASE k <= z
      BY <2>1, <2>2, <2>3, <3>1
    <3>2. CASE k > z
      <4>1. k - z \in 1..(t - z) /\ z + (k - z) = k
        BY <2>1, <3>2
      <4>2. l[k] = SubSeq(w, z + 1, t)[k - z]
        BY <2>1, <2>2, <2>3, <3>2
      <4> QED
        BY <2>2, <4>1, <4>2
    <3> QED
      BY <2>1, <3>1, <3>2
  <2>7. l = r
    <3> HIDE DEF l, r
    <3> QED
      BY <2>4, <2>5, <2>6
  <2>8. Piece(i) = SubSeq(w, z + 1, t)
    BY DEF z, t
  <2> QED
    <3> HIDE DEF Piece
    <3>1. Piece(i) \in Seq(Nat) /\ Len(Piece(i)) <= max
      BY <2>1, <2>2, <2>8
    <3>2. To(i) = t
      BY DEF t
    <3> QED
      BY <2>1, <2>7, <2>8, <3>1, <3>2
<1> HIDE DEF Piece
<1>8. \A i \in 1..q : [words |-> Piece(i), ended |-> line.ended /\ i * max >= n] \in Line
  <2> SUFFICES ASSUME NEW i \in 1..q
               PROVE  [words |-> Piece(i), ended |-> line.ended /\ i * max >= n] \in Line
    OBVIOUS
  <2>1. (line.ended /\ i * max >= n) \in BOOLEAN
    OBVIOUS
  <2> QED
    BY <1>7, <2>1 DEF Line, Words
<1>9. c \in Seq(Line) /\ Len(c) = q /\ DOMAIN c = 1..q
  BY <1>3, <1>8
<1>10. \A i \in 1..q : c[i].words = Piece(i)
  OBVIOUS
<1> HIDE DEF c
<1> DEFINE P(i) == Said(SubSeq(c, 1, i)) = SubSeq(w, 1, To(i))
           B == {i \in 1..q : ~ P(i)}
<1>11. ASSUME B # {} PROVE FALSE
  <2>1. PICK i \in B : \A k \in B : i <= k
    <3>1. B \in SUBSET Nat
      BY <1>3
    <3> HIDE DEF B
    <3> QED
      BY <1>11, <3>1, LeastNumber
  <2>2. i \in 1..q /\ i \in Nat /\ ~ P(i)
    BY <1>3
  <2>3. /\ SubSeq(c, 1, i) = Append(SubSeq(c, 1, i - 1), c[i])
        /\ SubSeq(c, 1, i - 1) \in Seq(Line) /\ c[i] \in Line
    BY <1>9, <2>2, OneLineMore
  <2>4. Said(SubSeq(c, 1, i)) = Said(SubSeq(c, 1, i - 1)) \o Piece(i)
    BY <1>10, <2>2, <2>3, SaidMore
  <2>5. Said(SubSeq(c, 1, i - 1)) = SubSeq(w, 1, To(i - 1))
    <3>1. CASE i = 1
      <4>1. SubSeq(c, 1, i - 1) = <<>>
        BY <1>9, <2>2, <3>1, OneLineMore
      <4>2. To(i - 1) = 0
        BY <1>2, <1>4, <3>1 DEF To
      <4>3. SubSeq(w, 1, 0) = <<>>
        BY <1>2
      <4> QED
        BY <4>1, <4>2, <4>3, SaidNothing
    <3>2. CASE i # 1
      <4>1. i - 1 \in 1..q /\ ~ (i <= i - 1)
        BY <1>3, <2>2, <3>2
      <4> QED
        BY <2>1, <4>1
    <3> QED
      BY <3>1, <3>2
  <2> QED
    BY <1>7, <2>2, <2>4, <2>5
<1>12. Said(SubSeq(c, 1, q)) = SubSeq(w, 1, To(q))
  BY <1>3, <1>4, <1>11
<1>13. SubSeq(c, 1, q) = c /\ SubSeq(w, 1, n) = w
  BY <1>2, <1>9 DEF n
<1>14. Said(c) = w
  BY <1>6, <1>12, <1>13
<1>15. Short(c, max)
  BY <1>7, <1>9, <1>10 DEF Short
<1> QED
  BY <1>1, <1>9, <1>14, <1>15 DEF w

LEMMA JoinIsLine ==
  ASSUME NEW lines \in Seq(Line)
  PROVE  Join(lines) \in Line /\ Join(lines).words = Said(lines)
<1>1. (lines # <<>> /\ lines[Len(lines)].ended) \in BOOLEAN
  <2>1. CASE lines = <<>>
    BY <2>1
  <2>2. CASE lines # <<>>
    <3>1. lines[Len(lines)] \in Line
      BY <2>2
    <3>2. lines[Len(lines)].ended \in BOOLEAN
      BY <3>1 DEF Line
    <3> QED
      BY <2>2, <3>2
  <2> QED
    BY <2>1, <2>2
<1>2. Join(lines) = [words |-> Said(lines), ended |-> lines # <<>> /\ lines[Len(lines)].ended]
  BY DEF Join, Said
<1>3. Said(lines) \in Words
  BY SaidWords
<1> DEFINE e == lines # <<>> /\ lines[Len(lines)].ended
<1>4. e \in BOOLEAN /\ Join(lines) = [words |-> Said(lines), ended |-> e]
  BY <1>1, <1>2
<1> HIDE DEF e
<1> QED
  BY <1>3, <1>4 DEF Line

\* What is packed so far says what was taken so far, in lines short enough.
Filled(p, max) ==
  /\ p = [chunks |-> p.chunks, cur |-> p.cur]
  /\ p.chunks \in Seq(Line) /\ p.cur \in Seq(Line)
  /\ Short(p.chunks, max) /\ Len(Said(p.cur)) <= max
SaidSoFar(p) == Said(p.chunks) \o Said(p.cur)

LEMMA ShortMore ==
  ASSUME NEW a \in Seq(Line), NEW b \in Seq(Line), NEW max \in Nat, Short(a, max), Short(b, max)
  PROVE  a \o b \in Seq(Line) /\ Short(a \o b, max)
<1>1. a \o b \in Seq(Line)
  OBVIOUS
<1>2. ASSUME NEW i \in 1..Len(a \o b) PROVE Len((a \o b)[i].words) <= max
  <2>1. CASE i <= Len(a)
    <3>1. (a \o b)[i] = a[i] /\ i \in DOMAIN a
      BY <2>1
    <3> QED
      BY <3>1 DEF Short
  <2>2. CASE i > Len(a)
    <3>1. (a \o b)[i] = b[i - Len(a)] /\ i - Len(a) \in DOMAIN b
      BY <2>2
    <3> QED
      BY <3>1 DEF Short
  <2> QED
    BY <2>1, <2>2
<1>3. DOMAIN (a \o b) = 1..Len(a \o b)
  BY <1>1
<1> QED
  BY <1>1, <1>2, <1>3 DEF Short

LEMMA ShortOne ==
  ASSUME NEW l \in Line, NEW max \in Nat, Len(l.words) <= max
  PROVE  <<l>> \in Seq(Line) /\ Short(<<l>>, max)
  BY DEF Short

\* The current chunk is closed (the flush of Pack).
LEMMA FlushRight ==
  ASSUME NEW p, NEW max \in Nat, Filled(p, max)
  PROVE  /\ Flush(p) \in Seq(Line) /\ Short(Flush(p), max)
         /\ Said(Flush(p)) = SaidSoFar(p)
<1>1. /\ p.chunks \in Seq(Line) /\ p.cur \in Seq(Line)
      /\ Short(p.chunks, max) /\ Len(Said(p.cur)) <= max
  BY DEF Filled
<1>2. Said(p.chunks) \in Words
  BY <1>1, SaidWords
<1>3. CASE p.cur = <<>>
  <2>1. Flush(p) = p.chunks
    BY <1>3 DEF Flush
  <2>2. Said(p.chunks) \o <<>> = Said(p.chunks)
    BY <1>2 DEF Words
  <2> QED
    BY <1>1, <1>3, <2>1, <2>2, SaidNothing DEF SaidSoFar
<1>4. CASE p.cur # <<>>
  <2>1. Flush(p) = Append(p.chunks, Join(p.cur))
    BY <1>4 DEF Flush
  <2>2. Join(p.cur) \in Line /\ Join(p.cur).words = Said(p.cur)
    BY <1>1, JoinIsLine
  <2>3. Flush(p) = p.chunks \o <<Join(p.cur)>>
    BY <1>1, <2>1, <2>2, AppendIsConcat
  <2>4. Said(Flush(p)) = SaidSoFar(p)
    BY <1>1, <2>1, <2>2, SaidMore DEF SaidSoFar
  <2>5. <<Join(p.cur)>> \in Seq(Line) /\ Short(<<Join(p.cur)>>, max)
    BY <1>1, <2>2, ShortOne
  <2> QED
    BY <1>1, <2>3, <2>4, <2>5, ShortMore
<1> QED
  BY <1>3, <1>4

\* One sentence is taken.
LEMMA TakeRight ==
  ASSUME NEW target \in Nat, NEW max \in Nat \ {0}, target <= max,
         NEW p, Filled(p, max), NEW s \in Line
  PROVE  /\ Filled(Take(target, max, p, s), max)
         /\ SaidSoFar(Take(target, max, p, s)) = SaidSoFar(p) \o s.words
<1> DEFINE t == Take(target, max, p, s)
           k == Len(s.words)
           m == Len(Said(p.cur))
<1>1. /\ p = [chunks |-> p.chunks, cur |-> p.cur]
      /\ p.chunks \in Seq(Line) /\ p.cur \in Seq(Line)
      /\ Short(p.chunks, max) /\ m <= max
  BY DEF Filled
<1>2. /\ s.words \in Words /\ Said(p.chunks) \in Words /\ Said(p.cur) \in Words
      /\ SaidSoFar(p) \in Words /\ k \in Nat /\ m \in Nat
  <2>1. s.words \in Words /\ Said(p.chunks) \in Words /\ Said(p.cur) \in Words
    BY <1>1, SaidWords DEF Line
  <2> QED
    BY <2>1 DEF SaidSoFar, Words
<1>3. WordCount(s) = k /\ WordCount(Join(p.cur)) = m
  BY <1>1, JoinIsLine DEF WordCount
<1>4. /\ Flush(p) \in Seq(Line) /\ Short(Flush(p), max) /\ Said(Flush(p)) = SaidSoFar(p)
  BY FlushRight
<1> HIDE DEF k, m
<1>5. CASE k = 0
  <2>1. t = p
    BY <1>3, <1>5 DEF Take
  <2>2. SaidSoFar(p) \o s.words = SaidSoFar(p)
    BY <1>2, <1>5 DEF Words, k
  <2> QED
    BY <2>1, <2>2
<1>6. CASE k # 0 /\ k > max
  <2> DEFINE c == Chop(s, max)
  <2>1. t = [chunks |-> Flush(p) \o c, cur |-> <<>>]
    BY <1>3, <1>6 DEF Take
  <2>2. c \in Seq(Line) /\ Said(c) = s.words /\ Short(c, max)
    <3>1. Len(s.words) > 0
      BY <1>2, <1>6 DEF k
    <3> QED
      BY <3>1, ChopRight
  <2> HIDE DEF c
  <2>3. Flush(p) \o c \in Seq(Line) /\ Short(Flush(p) \o c, max)
    BY <1>4, <2>2, ShortMore
  <2>4. Said(Flush(p) \o c) = SaidSoFar(p) \o s.words
    BY <1>4, <2>2, OneByOne
  <2>5. /\ t.chunks = Flush(p) \o c /\ t.cur = <<>>
        /\ t = [chunks |-> t.chunks, cur |-> t.cur]
    BY <2>1
  <2> HIDE DEF t
  <2>6. Said(t.cur) = <<>> /\ Len(Said(t.cur)) <= max /\ t.cur \in Seq(Line)
    BY <2>5, SaidNothing
  <2>7. SaidSoFar(t) = SaidSoFar(p) \o s.words
    <3>1. SaidSoFar(p) \o s.words \in Words
      BY <1>2 DEF Words
    <3>2. SaidSoFar(t) = (SaidSoFar(p) \o s.words) \o <<>>
      BY <2>4, <2>5, <2>6 DEF SaidSoFar
    <3>3. \A x \in Seq(Nat) : x \o <<>> = x
      OBVIOUS
    <3> QED
      BY <3>1, <3>2, <3>3 DEF Words
  <2>8. Filled(t, max)
    BY <2>3, <2>5, <2>6 DEF Filled
  <2> QED
    BY <2>7, <2>8 DEF t
<1>7. CASE k # 0 /\ ~ (k > max) /\ m > 0 /\ m + k > target
  <2>1. t = [chunks |-> Flush(p), cur |-> <<s>>]
    <3>1. k \in 1..max
      BY <1>2, <1>7
    <3> QED
      BY <1>3, <1>7, <3>1 DEF Take
  <2>2. /\ t.chunks = Flush(p) /\ t.cur = <<s>>
        /\ t = [chunks |-> t.chunks, cur |-> t.cur]
    BY <2>1
  <2> HIDE DEF t
  <2>3. Said(t.cur) = s.words /\ Len(Said(t.cur)) <= max /\ t.cur \in Seq(Line)
    <3>1. Said(<<s>>) = s.words
      BY SaidOne
    <3> QED
      BY <1>2, <1>7, <2>2, <3>1 DEF k
  <2>4. SaidSoFar(t) = SaidSoFar(p) \o s.words
    BY <1>4, <2>2, <2>3 DEF SaidSoFar
  <2>5. Filled(t, max)
    BY <1>4, <2>2, <2>3 DEF Filled
  <2> QED
    BY <2>4, <2>5 DEF t
<1>8. CASE k # 0 /\ ~ (k > max) /\ ~ (m > 0 /\ m + k > target)
  <2>1. t = [p EXCEPT !.cur = Append(@, s)]
    BY <1>3, <1>8 DEF Take
  <2>2. t = [chunks |-> p.chunks, cur |-> Append(p.cur, s)]
    BY <1>1, <2>1
  <2>3. /\ t.chunks = p.chunks /\ t.cur = Append(p.cur, s)
        /\ t = [chunks |-> t.chunks, cur |-> t.cur]
    BY <2>2
  <2> HIDE DEF t
  <2>4. Said(t.cur) = Said(p.cur) \o s.words /\ t.cur \in Seq(Line)
    BY <1>1, <2>3, SaidMore
  <2>5. Len(Said(t.cur)) = m + k
    BY <1>2, <2>4 DEF Words, m, k
  <2>6. Len(Said(t.cur)) <= max
    BY <1>2, <1>8, <2>5
  <2>7. SaidSoFar(t) = SaidSoFar(p) \o s.words
    <3>2. SaidSoFar(t) = Said(p.chunks) \o (Said(p.cur) \o s.words)
      BY <2>3, <2>4 DEF SaidSoFar
    <3> QED
      BY <1>2, <3>2, WordsAssociative DEF SaidSoFar
  <2>8. Filled(t, max)
    BY <1>1, <2>3, <2>4, <2>6 DEF Filled
  <2> QED
    BY <2>7, <2>8 DEF t
<1> QED
  BY <1>2, <1>5, <1>6, <1>7, <1>8

\* Pack loses no word, adds none and moves none, and keeps to the limit.
LEMMA PackRight ==
  ASSUME NEW sentences \in Seq(Line), NEW targetWords \in Nat, NEW max \in Nat \ {0}
  PROVE  LET chunks == Pack(sentences, targetWords, max) IN
           /\ chunks \in Seq(Line) /\ Short(chunks, max)
           /\ Said(chunks) = Said(sentences)
<1> DEFINE target == IF targetWords = 0 \/ targetWords > max THEN max ELSE targetWords
           base == [chunks |-> <<>>, cur |-> <<>>]
           n == Len(sentences)
           SoFar(i) == SubSeq(sentences, 1, i)
<1>1. Pack(sentences, targetWords, max) = Flush(Packed(target, max, base, sentences))
  BY Zenon DEF Pack, Packed
<1>2. target \in Nat /\ target <= max /\ n \in Nat /\ DOMAIN sentences = 1..n
  OBVIOUS
<1>3. PICK h : /\ h[0] = base /\ h[n] = Packed(target, max, base, sentences)
               /\ \A i \in 1..n : h[i] = Take(target, max, h[i - 1], sentences[i])
  <2> HIDE DEF target, base, n
  <2>1. n \in Nat /\ DOMAIN sentences = 1..n
    BY <1>2
  <2> QED
    BY ONLY <2>1, PackSteps
<1> DEFINE P(i) == Filled(h[i], max) /\ SaidSoFar(h[i]) = Said(SoFar(i))
           B == {i \in 0..n : ~ P(i)}
<1>4. P(0)
  <2>1. /\ h[0].chunks = <<>> /\ h[0].cur = <<>>
        /\ h[0] = [chunks |-> h[0].chunks, cur |-> h[0].cur]
    BY <1>3
  <2>2. SoFar(0) = <<>>
    OBVIOUS
  <2>3. Short(<<>>, max)
    BY DEF Short
  <2>4. Filled(h[0], max)
    BY <2>1, <2>3, SaidNothing DEF Filled
  <2>5. SaidSoFar(h[0]) = <<>>
    <3>1. <<>> \o <<>> = <<>>
      OBVIOUS
    <3> QED
      BY <2>1, <3>1, SaidNothing DEF SaidSoFar
  <2> QED
    BY <2>2, <2>4, <2>5, SaidNothing
<1> HIDE DEF target, base, n, SoFar
<1>5. ASSUME B # {} PROVE FALSE
  <2>1. PICK i \in B : \A k \in B : i <= k
    <3>1. B \in SUBSET Nat
      BY <1>2
    <3> HIDE DEF B
    <3> QED
      BY <1>5, <3>1, LeastNumber
  <2>2. i \in 0..n /\ ~ P(i)
    OBVIOUS
  <2>3. i \in 1..n /\ i - 1 \in 0..n /\ ~ (i <= i - 1)
    BY <1>2, <1>4, <2>2
  <2>4. Filled(h[i - 1], max) /\ SaidSoFar(h[i - 1]) = Said(SoFar(i - 1))
    BY <2>1, <2>3
  <2>5. SoFar(i) = Append(SoFar(i - 1), sentences[i]) /\ SoFar(i - 1) \in Seq(Line)
        /\ sentences[i] \in Line
    BY <2>3, OneLineMore DEF SoFar, n
  <2>6. h[i] = Take(target, max, h[i - 1], sentences[i])
    BY <1>3, <2>3
  <2>7. Filled(h[i], max) /\ SaidSoFar(h[i]) = SaidSoFar(h[i - 1]) \o sentences[i].words
    <3> DEFINE p == h[i - 1]
               s == sentences[i]
    <3>1. Filled(p, max) /\ s \in Line /\ h[i] = Take(target, max, p, s)
      BY <2>4, <2>5, <2>6
    <3> HIDE DEF p, s
    <3>2. /\ Filled(Take(target, max, p, s), max)
          /\ SaidSoFar(Take(target, max, p, s)) = SaidSoFar(p) \o s.words
      <4>1. target \in Nat /\ target <= max /\ max \in Nat \ {0} /\ Filled(p, max) /\ s \in Line
        BY <1>2, <3>1
      <4> QED
        BY ONLY <4>1, TakeRight
    <3> QED
      BY <3>1, <3>2 DEF p, s
  <2>8. SaidSoFar(h[i]) = Said(SoFar(i))
    BY <2>4, <2>5, <2>7, SaidMore
  <2> QED
    BY <2>2, <2>7, <2>8
<1>6. P(n)
  BY <1>2, <1>5
<1>7. SoFar(n) = sentences
  BY DEF SoFar, n
<1> HIDE DEF P
<1>8. Filled(h[n], max) /\ SaidSoFar(h[n]) = Said(sentences)
  BY <1>6, <1>7 DEF P
<1>9. /\ Flush(h[n]) \in Seq(Line) /\ Short(Flush(h[n]), max)
      /\ Said(Flush(h[n])) = SaidSoFar(h[n])
  BY <1>8, FlushRight
<1>10. Pack(sentences, targetWords, max) = Flush(h[n])
  BY <1>1, <1>3
<1> QED
  BY <1>8, <1>9, <1>10

LEMMA TextsAreLines ==
  \A text \in Texts : text \in Seq(Line)
  BY TextsAssumption DEF Line, Words

\* What the sidecar is asked to say (autoSegment of omnivoice): the words of the text,
\* and when it has to be cut, in short lines that end like sentences.
LEMMA AutoSegmentRight ==
  ASSUME NEW text \in Texts, NEW sentences \in Segment(text)
  PROVE  LET lines == AutoSegment(text, sentences) IN
           /\ lines \in Seq(Line) /\ Said(lines) = Join(text).words
           /\ MaxWords > 0 => /\ Short(lines, MaxWords)
                              /\ Len(lines) > 1 => \A i \in DOMAIN lines : lines[i].ended
<1> DEFINE input == Join(text)
           target == IF TargetWords = 0 THEN MaxWords \div 2 ELSE TargetWords
           given == IF sentences = <<>> THEN <<input>> ELSE sentences
           chunks == Pack(given, target, MaxWords)
           lines == AutoSegment(text, sentences)
<1>1. text \in Seq(Line) /\ (sentences = text \/ sentences = <<>>)
  BY TextsAreLines DEF Segment
<1>2. input \in Line /\ input.words = Said(text)
  BY <1>1, JoinIsLine
<1>3. lines = IF MaxWords = 0 \/ Len(input.words) <= MaxWords \/ Len(chunks) <= 1 THEN <<input>>
              ELSE [i \in DOMAIN chunks |-> Terminate(chunks[i])]
  BY DEF AutoSegment, WordCount
<1>4. MaxWords \in Nat /\ target \in Nat
  <2>1. MaxWords \in Nat /\ TargetWords \in Nat
    BY WordsAssumption
  <2> QED
    BY <2>1
<1> HIDE DEF input, target, lines
<1>5. given \in Seq(Line) /\ Said(given) = input.words
  <2>1. <<input>> \in Seq(Line) /\ Said(<<input>>) = input.words
    BY <1>2, SaidOne
  <2> QED
    BY <1>1, <1>2, <2>1
<1> HIDE DEF given
<1>6. MaxWords # 0 => chunks \in Seq(Line) /\ Short(chunks, MaxWords) /\ Said(chunks) = input.words
  BY <1>4, <1>5, PackRight
<1> HIDE DEF chunks
<1>7. /\ <<input>> \in Seq(Line) /\ Said(<<input>>) = input.words
      /\ Len(<<input>>) = 1 /\ DOMAIN <<input>> = {1} /\ <<input>>[1] = input
  BY <1>2, SaidOne
<1>8. CASE MaxWords = 0
  BY <1>2, <1>3, <1>7, <1>8 DEF input, lines
<1>9. CASE MaxWords # 0 /\ Len(input.words) <= MaxWords
  <2>1. lines = <<input>> /\ Short(<<input>>, MaxWords)
    BY <1>3, <1>7, <1>9 DEF Short
  <2> QED
    BY <1>2, <1>7, <2>1 DEF input, lines
<1>10. CASE MaxWords # 0 /\ ~ (Len(input.words) <= MaxWords)
  <2>1. chunks \in Seq(Line) /\ Short(chunks, MaxWords) /\ Said(chunks) = input.words
    BY <1>6, <1>10
  <2>2. ~ (Len(chunks) <= 1)
    <3>1. chunks # <<>>
      <4>1. Len(<<>>) <= MaxWords
        BY <1>4
      <4> QED
        BY <1>10, <2>1, <4>1, SaidNothing
    <3>2. ASSUME Len(chunks) = 1 PROVE FALSE
      <4>1. chunks = <<chunks[1]>> /\ chunks[1] \in Line
        BY <2>1, <3>2
      <4>2. Said(chunks) = chunks[1].words
        BY <4>1, SaidOne
      <4>3. Len(chunks[1].words) <= MaxWords
        BY <2>1, <3>2 DEF Short
      <4> QED
        BY <1>10, <2>1, <4>2, <4>3
    <3>3. Len(chunks) \in Nat /\ Len(chunks) # 0 /\ Len(chunks) # 1
      BY <2>1, <3>1, <3>2
    <3>4. \A k \in Nat : k # 0 /\ k # 1 => ~ (k <= 1)
      OBVIOUS
    <3> QED
      BY ONLY <3>3, <3>4
  <2>3. lines = [i \in DOMAIN chunks |-> Terminate(chunks[i])]
    BY <1>3, <1>10, <2>2
  <2>4. \A i \in DOMAIN chunks : /\ Terminate(chunks[i]) \in Line
                                 /\ Terminate(chunks[i]).words = chunks[i].words
                                 /\ Terminate(chunks[i]).ended
    <3> SUFFICES ASSUME NEW l \in Line
                 PROVE  /\ Terminate(l) \in Line /\ Terminate(l).words = l.words
                        /\ Terminate(l).ended
      BY <2>1
    <3> QED
      BY DEF Terminate, EndsSentence, Line
  <2>5. DOMAIN chunks = 1..Len(chunks) /\ Len(chunks) \in Nat
    BY <2>1
  <2>6. lines \in Seq(Line)
    BY <2>3, <2>4, <2>5
  <2>7. DOMAIN lines = DOMAIN chunks /\ \A i \in DOMAIN chunks : lines[i].words = chunks[i].words
    BY <2>3, <2>4
  <2>8. Said(lines) = Said(chunks)
    <3>1. [i \in DOMAIN lines |-> lines[i].words] = [i \in DOMAIN chunks |-> chunks[i].words]
      BY <2>7
    <3> QED
      BY <3>1 DEF Said
  <2>9. Short(lines, MaxWords)
    BY <2>1, <2>7 DEF Short
  <2>10. \A i \in DOMAIN lines : lines[i].ended
    BY <2>3, <2>4, <2>7
  <2> QED
    BY <1>2, <2>1, <2>6, <2>8, <2>9, <2>10 DEF input, lines
<1> QED
  BY <1>8, <1>9, <1>10

-----------------------------------------------------------------------------
(* What is asked and what is heard *)

Asked(j) == \/ asked[j] = NoText
            \/ \E text \in Texts : \E sentences \in Segment(text) :
                 asked[j] = [of |-> text, lines |-> AutoSegment(text, sentences)]
Heard(j) == \/ heard[j] = NoTranscript
            \/ \E events \in Transcripts :
                 heard[j] = [sent |-> events, got |-> Transcript(events)]
Told ==
  /\ asked = [j \in Jobs |-> asked[j]] /\ heard = [j \in Jobs |-> heard[j]]
  /\ \A j \in Jobs : Asked(j) /\ Heard(j)

LEMMA OthersTold ==
  ASSUME Told, NEW j \in Jobs,
         UNCHANGED asked \/ \E a : asked' = [asked EXCEPT ![j] = a] /\ Asked(j)',
         UNCHANGED heard \/ \E h : heard' = [heard EXCEPT ![j] = h] /\ Heard(j)'
  PROVE  Told'
<1>1. asked' = [k \in Jobs |-> asked'[k]] /\ \A k \in Jobs : Asked(k)'
  <2>1. CASE UNCHANGED asked
    BY <2>1 DEF Told, Asked
  <2>2. ASSUME NEW a, asked' = [asked EXCEPT ![j] = a], Asked(j)'
        PROVE  asked' = [k \in Jobs |-> asked'[k]] /\ \A k \in Jobs : Asked(k)'
    <3>1. asked' = [k \in Jobs |-> IF k = j THEN a ELSE asked[k]]
      BY <2>2 DEF Told
    <3>2. \A k \in Jobs : k # j => asked'[k] = asked[k]
      BY <3>1
    <3> QED
      BY <2>2, <3>1, <3>2 DEF Told, Asked
  <2> QED
    BY <2>1, <2>2
<1>2. heard' = [k \in Jobs |-> heard'[k]] /\ \A k \in Jobs : Heard(k)'
  <2>1. CASE UNCHANGED heard
    BY <2>1 DEF Told, Heard
  <2>2. ASSUME NEW h, heard' = [heard EXCEPT ![j] = h], Heard(j)'
        PROVE  heard' = [k \in Jobs |-> heard'[k]] /\ \A k \in Jobs : Heard(k)'
    <3>1. heard' = [k \in Jobs |-> IF k = j THEN h ELSE heard[k]]
      BY <2>2 DEF Told
    <3>2. \A k \in Jobs : k # j => heard'[k] = heard[k]
      BY <3>1
    <3> QED
      BY <2>2, <3>1, <3>2 DEF Told, Heard
  <2> QED
    BY <2>1, <2>2
<1> QED
  BY <1>1, <1>2 DEF Told

LEMMA NextTold == Told /\ [Next]_vars => Told'
<1> SUFFICES ASSUME Told, [Next]_vars PROVE Told'
  OBVIOUS
<1>1. ASSUME NEW j \in Jobs, Finish(j), UNCHANGED heard PROVE Told'
  <2>1. asked' = [asked EXCEPT ![j] = NoText] /\ Asked(j)'
    BY <1>1 DEF Finish, Asked, Told
  <2> QED
    BY <1>1, <2>1, OthersTold
<1>2. ASSUME NEW j \in Jobs, Post(j) PROVE Told'
  <2>1. UNCHANGED heard
    BY <1>2 DEF Post
  <2>2. CASE UNCHANGED asked
    BY <2>1, <2>2, OthersTold
  <2>3. ASSUME NEW text \in Texts, NEW sentences \in Segment(text),
               asked' = [asked EXCEPT ![j] = [of |-> text, lines |-> AutoSegment(text, sentences)]]
        PROVE  Told'
    <3>1. Asked(j)'
      BY <2>3 DEF Asked, Told
    <3> QED
      BY <2>1, <2>3, <3>1, OthersTold
  <2> QED
    BY <1>2, <2>2, <2>3 DEF Post
<1>3. ASSUME NEW j \in Jobs, Return(j) PROVE Told'
  <2>1. asked' = [asked EXCEPT ![j] = NoText] /\ Asked(j)'
    BY <1>3 DEF Return, Finish, Asked, Told
  <2>2. CASE UNCHANGED heard
    BY <2>1, <2>2, OthersTold
  <2>3. ASSUME NEW events \in Transcripts,
               heard' = [heard EXCEPT ![j] = [sent |-> events, got |-> Transcript(events)]]
        PROVE  Told'
    <3>1. Heard(j)'
      BY <2>3 DEF Heard, Told
    <3> QED
      BY <2>1, <2>3, <3>1, OthersTold
  <2> QED
    BY <1>3, <2>2, <2>3 DEF Return
<1>4. ASSUME NEW j \in Jobs, JobStep(j) \/ TimeOut(j) PROVE Told'
  <2>1. \/ Finish(j) /\ UNCHANGED heard
        \/ UNCHANGED <<asked, heard>>
        \/ Post(j) \/ Return(j)
    BY <1>4 DEF JobStep, TimeOut, Begin, Warm, Warmed, Start, WriteReference
  <2> QED
    BY <1>1, <1>2, <1>3, <2>1 DEF Told, Asked, Heard
<1>5. CASE UNCHANGED <<asked, heard>>
  BY <1>5 DEF Told, Asked, Heard
<1>6. ASSUME NEW u \in Idles, Idle(u) \/ IdleDone(u) PROVE UNCHANGED <<asked, heard>>
  BY <1>6 DEF Idle, IdleDone
<1>7. ASSUME NEW c \in Calls, Thread(c) PROVE UNCHANGED <<asked, heard>>
  BY <1>7 DEF Thread, CheckFile, Load, Generate, ReadFile, Generated, Encode, Unload, clientVars
<1>8. ASSUME TimerFires \/ Crash \/ Stop PROVE UNCHANGED <<asked, heard>>
  BY <1>8 DEF TimerFires, Crash, Stop, ProcessEnds, clientVars
<1>9. UNCHANGED vars => UNCHANGED <<asked, heard>>
  BY DEF vars, clientVars
<1> QED
  BY <1>4, <1>5, <1>6, <1>7, <1>8, <1>9 DEF Next

LEMMA InitTold == Init => Told
  BY DEF Init, Told, Asked, Heard

LEMMA ToldRight == Told => SaidAndHeard
<1> SUFFICES ASSUME Told, NEW j \in Jobs
             PROVE  /\ LET lines == asked[j].lines IN
                         lines # <<>> =>
                           /\ Join(lines).words = Join(asked[j].of).words
                           /\ MaxWords > 0 => \A i \in DOMAIN lines :
                                /\ WordCount(lines[i]) <= MaxWords
                                /\ Len(lines) > 1 => EndsSentence(lines[i])
                    /\ LET e == heard[j].sent IN
                         heard[j].got.ok =>
                           /\ \A i \in DOMAIN e : e[i].type # "error"
                           /\ heard[j].got.text = e[Len(e)].text
  BY DEF SaidAndHeard, LinesAreTheText, TranscriptIsLast
<1>1. Asked(j) /\ Heard(j)
  BY DEF Told
<1>2. asked[j] = NoText => asked[j].lines = <<>>
  BY DEF NoText
<1>3. ASSUME NEW text \in Texts, NEW sentences \in Segment(text),
             asked[j] = [of |-> text, lines |-> AutoSegment(text, sentences)]
      PROVE  /\ Join(asked[j].lines).words = Join(asked[j].of).words
             /\ MaxWords > 0 => \A i \in DOMAIN asked[j].lines :
                  /\ WordCount(asked[j].lines[i]) <= MaxWords
                  /\ Len(asked[j].lines) > 1 => EndsSentence(asked[j].lines[i])
  <2> DEFINE lines == AutoSegment(text, sentences)
  <2>1. asked[j].of = text /\ asked[j].lines = lines
    BY <1>3
  <2>2. /\ lines \in Seq(Line) /\ Said(lines) = Join(text).words
        /\ MaxWords > 0 => /\ Short(lines, MaxWords)
                           /\ Len(lines) > 1 => \A i \in DOMAIN lines : lines[i].ended
    BY AutoSegmentRight
  <2> HIDE DEF lines
  <2>3. Join(lines).words = Join(text).words
    BY <2>2, JoinIsLine
  <2> QED
    BY <2>1, <2>2, <2>3 DEF Short, WordCount, EndsSentence
<1>4. heard[j] = NoTranscript => ~ heard[j].got.ok
  BY DEF NoTranscript
<1>5. ASSUME NEW e \in Transcripts, heard[j] = [sent |-> e, got |-> Transcript(e)], heard[j].got.ok
      PROVE  /\ \A i \in DOMAIN heard[j].sent : heard[j].sent[i].type # "error"
             /\ heard[j].got.text = heard[j].sent[Len(heard[j].sent)].text
  <2>1. e \in Seq(Events) /\ heard[j].sent = e /\ heard[j].got = Transcript(e)
    BY <1>5, TranscriptsAssumption DEF Events
  <2> QED
    BY <1>5, <2>1, TranscriptHeard
<1> QED
  BY <1>1, <1>2, <1>3, <1>4, <1>5 DEF Asked, Heard

\* What omnivoice's sidecar is asked to say is the text, word for word, in lines it can
\* hold; a streamed transcription succeeds with its last text and never behind an error
\* (segment.Pack and autoSegment; TranscribeStream).
THEOREM SaidAndHeardRight == Spec => []SaidAndHeard
  BY InitTold, NextTold, ToldRight, PTL DEF Spec

-----------------------------------------------------------------------------
(* Types *)

LEMMA PlannedTasks ==
  ASSUME NEW p \in Known, NEW s, Plan(p, s)
  PROVE  s \in Seq(Tasks)
<1>1. <<"new">> \in Seq(Tasks) /\ <<"wait">> \in Seq(Tasks) /\ <<>> \in Seq(Tasks)
  <2>1. "new" \in Tasks /\ "wait" \in Tasks
    BY DEF Tasks
  <2> QED
    BY <2>1
<1> QED
  BY <1>1, PostSteps DEF Plan

LEMMA TypesInv == IInv /\ Rest /\ Told => TypeOK
<1> SUFFICES ASSUME IInv, Rest, Told PROVE TypeOK
  OBVIOUS
<1>1. ASSUME NEW j \in Jobs, NEW i \in DOMAIN plan[j] PROVE plan[j][i] \in Tasks
  <2>1. plan[j] \in Seq(Tasks)
    BY PlannedTasks DEF IInv, Types
  <2> QED
    BY <2>1
<1>2. ASSUME NEW c \in Calls, NEW i \in DOMAIN todo[c] PROVE todo[c][i] \in Steps
  <2>1. todo[c] \in Ahead(provider, c[1])
    BY DEF IInv, Types
  <2>2. CASE todo[c] = <<>>
    BY <2>2
  <2>3. CASE todo[c] # <<>>
    <3>1. todo[c] \in Seq(Steps)
      BY <2>1, <2>3, InUseSteps
    <3> QED
      BY <3>1
  <2> QED
    BY <2>2, <2>3
<1>3. lock # Nobody => lock \in Calls /\ todo[lock] # <<>> /\ Head(todo[lock]) \in {"read", "run"}
  <2> SUFFICES ASSUME lock # Nobody
               PROVE  lock \in Calls /\ todo[lock] # <<>> /\ Head(todo[lock]) \in {"read", "run"}
    OBVIOUS
  <2>1. lock \in Calls /\ todo[lock] \in InUse
    BY DEF Rest, Holds
  <2>2. \A s \in InUse : s # <<>> /\ Head(s) \in {"read", "run"}
    BY ShortTails DEF InUse
  <2> QED
    BY <2>1, <2>2
<1>4. ASSUME NEW j \in Jobs PROVE heard[j].got \in [ok : BOOLEAN, text : Nat]
  <2>1. CASE heard[j] = NoTranscript
    BY <2>1 DEF NoTranscript
  <2>2. ASSUME NEW e \in Transcripts, heard[j] = [sent |-> e, got |-> Transcript(e)]
        PROVE  heard[j].got \in [ok : BOOLEAN, text : Nat]
    <3>1. e \in Seq(Events) /\ heard[j].got = Transcript(e)
      BY <2>2, TranscriptsAssumption DEF Events
    <3> QED
      BY <3>1, TranscriptHeard
  <2> QED
    BY <2>1, <2>2 DEF Told, Heard
<1>5. /\ idle \in [Idles -> {"new", "call", "over"}] /\ files \subseteq Jobs
      /\ model \in BOOLEAN /\ warm \in BOOLEAN /\ armed \in BOOLEAN
      /\ pipelines \in [Languages -> {"none", "whole", "hollow"}]
  BY DEF IInv, Types
<1>6. /\ provider \in Providers /\ process \in {"stopped", "running", "dead"}
      /\ served \in BOOLEAN /\ late \subseteq {"load", "work", "unload"}
      /\ reply \in [Calls -> Answers]
  BY DEF Rest
<1> QED
  BY <1>1, <1>2, <1>3, <1>4, <1>5, <1>6 DEF TypeOK, Tasks, Steps, Answers

\* The types, and that who holds the lock is reading its file or generating.
THEOREM TypeCorrect == Spec => []TypeOK
  BY TypesInv, InitInv, NextInv, InitRest, NextRest, InitTold, NextTold, PTL DEF Spec

=============================================================================
