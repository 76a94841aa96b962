----------------------------- MODULE TranscribeCpp -----------------------------
(***************************************************************************)
(* The transcribe.cpp sidecar and its client: live sessions (OpenLiveStream *)
(* ... Close, from server.liveTranscription) and buffered transcriptions.  *)
(*                                                                         *)
(* The sidecar is one thread that accepts one connection after the other,  *)
(* and has one stream, which it gives to whoever begins first and does not *)
(* know by name.  The order of the connections and the GPU lease are all   *)
(* that keeps two requests apart.  What a client has posted and given up   *)
(* is still served in its turn.                                            *)
(***************************************************************************)
EXTENDS Naturals, Sequences, FiniteSets

CONSTANTS
  Live, Buffered,  \* the requests for live sessions and for whole files
  MaxFrames        \* bound: frames of PCM a live client sends

ASSUME BoundAssumption == MaxFrames \in Nat \ {0} /\ Live \cap Buffered = {}

Requests == Live \cup Buffered
NoOne == "no one"
ASSUME NoOneAssumption == NoOne \notin Requests

VARIABLES
  pc,              \* the handler: what it waits for
  lease,           \* who holds the GPU lease
  sent,            \* the frames a session has fed
  answer,          \* to the operation a handler waits for
  text,            \* what a session got as its final text: whose frames
  process, backlog,     \* the sidecar, the connections it has yet to serve
  stream, heard,   \* its stream: ACTIVE or not; the frames it was fed
  abandoned        \* a begin was given up since the sidecar was last stopped

handlerVars == <<pc, lease, sent, text>>
sidecarVars == <<process, backlog, stream, heard>>
vars == <<handlerVars, answer, sidecarVars, abandoned>>

Frame(r, n) == <<r, n>>
Waiting == {"begin", "feed", "finalize", "reset", "transcribe"}
\* Connections that are still waited for; the others have been given up.
Expected(m) == pc[m.from] = m.op

\* The lease is held exactly as long as a handler has business with the sidecar.
TypeOK ==
  /\ pc \in [Requests -> Waiting \cup {"new", "loop", "over"}]
  /\ lease \in Requests \cup {NoOne}
  /\ \A r \in Requests : pc[r] \in Waiting \cup {"loop"} <=> lease = r
  /\ sent \in [Requests -> 0..MaxFrames]
  /\ answer \in [Requests -> {"none", "ok", "error", "conflict"}]
  /\ process \in {"stopped", "running", "dead"} /\ stream \in BOOLEAN /\ abandoned \in BOOLEAN
  /\ \A i \in DOMAIN backlog : backlog[i].from \in Requests /\ backlog[i].op \in Waiting

Init ==
  /\ pc = [r \in Requests |-> "new"] /\ lease = NoOne /\ sent = [r \in Requests |-> 0]
  /\ answer = [r \in Requests |-> "none"] /\ text = [r \in Requests |-> <<>>]
  /\ process = "stopped" /\ backlog = <<>> /\ stream = FALSE /\ heard = <<>>
  /\ abandoned = FALSE

-----------------------------------------------------------------------------
(* The client *)

\* liveRequest: posted to a process that listens, refused by one that does not.
Request(r, op) ==
  /\ pc' = [pc EXCEPT ![r] = op]
  /\ IF process' = "running"
     THEN /\ backlog' = Append(backlog, [from |-> r, op |-> op])
          /\ answer' = [answer EXCEPT ![r] = "none"]
     ELSE UNCHANGED backlog /\ answer' = [answer EXCEPT ![r] = "error"]

\* The deferred release, when the handler returns.
Over(r) == pc' = [pc EXCEPT ![r] = "over"] /\ lease' = NoOne

\* The lease, StartFunc (a no-op once the process was started, dead or alive), then
\* OpenLiveStream or Transcribe.
Open(r) ==
  /\ pc[r] = "new" /\ lease = NoOne /\ lease' = r
  /\ process' = IF process = "stopped" THEN "running" ELSE process
  /\ Request(r, IF r \in Live THEN "begin" ELSE "transcribe")
  /\ UNCHANGED <<sent, text, stream, heard, abandoned>>

Unavailable(r) ==
  /\ pc[r] = "new" /\ lease = NoOne /\ process = "stopped"
  /\ Over(r) /\ UNCHANGED <<sent, text, answer, sidecarVars, abandoned>>

\* Slip: the lease is released once the session is open.
OpenedReleases(r) ==
  /\ pc[r] \in {"begin", "transcribe"} /\ answer[r] # "none"
  /\ pc' = [pc EXCEPT ![r] = IF pc[r] = "begin" /\ answer[r] = "ok" THEN "loop" ELSE "over"]
  /\ lease' = NoOne
  /\ UNCHANGED <<sent, text, answer, sidecarVars, abandoned>>

Opened(r) ==
  /\ pc[r] \in {"begin", "transcribe"} /\ answer[r] # "none"
  /\ IF pc[r] = "begin" /\ answer[r] = "ok" THEN pc' = [pc EXCEPT ![r] = "loop"] /\ UNCHANGED lease
                                            ELSE Over(r)
  /\ UNCHANGED <<sent, text, answer, sidecarVars, abandoned>>

\* The client has gone before the answer (r.Context()).  The post, the last one of all,
\* may have been made or not; there is no stream yet that could be closed.
GiveUp(r) ==
  /\ pc[r] \in {"begin", "transcribe"} /\ answer[r] = "none" /\ Over(r)
  /\ \/ UNCHANGED backlog
     \/ backlog # <<>> /\ backlog' = SubSeq(backlog, 1, Len(backlog) - 1)
  /\ abandoned' = (abandoned \/ pc[r] = "begin")
  /\ UNCHANGED <<sent, text, answer, process, stream, heard>>

\* A frame of whole samples.
Feed(r) ==
  /\ pc[r] = "loop" /\ sent[r] < MaxFrames
  /\ sent' = [sent EXCEPT ![r] = @ + 1] /\ UNCHANGED process /\ Request(r, "feed")
  /\ UNCHANGED <<lease, text, stream, heard, abandoned>>

Finalize(r) ==
  /\ pc[r] = "loop" /\ UNCHANGED process /\ Request(r, "finalize")
  /\ UNCHANGED <<lease, sent, text, stream, heard, abandoned>>

\* Slip: the handler returns without its deferred Close.
LeaveOpen(r) ==
  /\ \/ pc[r] = "loop"
     \/ pc[r] \in {"feed", "finalize"} /\ answer[r] \notin {"none", "ok"}
  /\ Over(r) /\ UNCHANGED <<sent, text, answer, sidecarVars, abandoned>>

\* The client goes, or sends half a sample or a message that is no command; or the
\* sidecar has answered with an error.  The handler returns, which closes the stream.
Close(r) ==
  /\ \/ pc[r] = "loop"
     \/ pc[r] \in {"feed", "finalize"} /\ answer[r] \notin {"none", "ok"}
  /\ UNCHANGED process /\ Request(r, "reset")
  /\ UNCHANGED <<lease, sent, text, stream, heard, abandoned>>

Fed(r) ==
  /\ pc[r] = "feed" /\ answer[r] = "ok" /\ pc' = [pc EXCEPT ![r] = "loop"]
  /\ UNCHANGED <<lease, sent, text, answer, sidecarVars, abandoned>>

\* The stream counts as closed: no reset.
Finalized(r) ==
  /\ pc[r] = "finalize" /\ answer[r] = "ok" /\ Over(r)
  /\ UNCHANGED <<sent, text, answer, sidecarVars, abandoned>>

\* Answered, or after two seconds; the post is made by then.
Closed(r) ==
  /\ pc[r] = "reset" /\ Over(r)
  /\ UNCHANGED <<sent, text, answer, sidecarVars, abandoned>>

-----------------------------------------------------------------------------
(* The sidecar *)

\* respond and close: seen by the handler if it is still waiting for this.
Respond(m, a) ==
  answer' = IF Expected(m) THEN [answer EXCEPT ![m.from] = a] ELSE answer

StreamBegin(m) ==
  \/ stream /\ Respond(m, "conflict") /\ UNCHANGED <<stream, heard, text>>
  \/ ~ stream /\ stream' = TRUE /\ heard' = <<>> /\ Respond(m, "ok") /\ UNCHANGED text
  \/ ~ stream /\ Respond(m, "error") /\ UNCHANGED <<stream, heard, text>>   \* language, library

StreamFeed(m) ==
  \/ /\ stream /\ heard' = Append(heard, Frame(m.from, sent[m.from])) /\ Respond(m, "ok")
     /\ UNCHANGED <<stream, text>>
  \/ Respond(m, "error") /\ UNCHANGED <<stream, heard, text>>

StreamFinalize(m) ==
  \/ /\ stream /\ stream' = FALSE /\ Respond(m, "ok") /\ UNCHANGED heard
     /\ text' = [text EXCEPT ![m.from] = heard]
  \/ Respond(m, "error") /\ UNCHANGED <<stream, heard, text>>

StreamReset(m) == stream' = FALSE /\ heard' = <<>> /\ Respond(m, "ok") /\ UNCHANGED text

\* Slip: a refused transcription is neither answered nor closed.
TranscribeNoAnswer(m) ==
  /\ \/ stream /\ UNCHANGED answer
     \/ ~ stream /\ \E a \in {"ok", "error"} : Respond(m, a)
  /\ UNCHANGED <<stream, heard, text>>

Transcribe(m) ==
  /\ \/ stream /\ Respond(m, "conflict")
     \/ ~ stream /\ \E a \in {"ok", "error"} : Respond(m, a)
  /\ UNCHANGED <<stream, heard, text>>

\* The accept loop: one connection, to its end.
Serve ==
  /\ process = "running" /\ backlog # <<>> /\ backlog' = Tail(backlog)
  /\ LET m == Head(backlog) IN
     \/ m.op = "begin" /\ StreamBegin(m)
     \/ m.op = "feed" /\ StreamFeed(m)
     \/ m.op = "finalize" /\ StreamFinalize(m)
     \/ m.op = "reset" /\ StreamReset(m)
     \/ m.op = "transcribe" /\ Transcribe(m)
  /\ UNCHANGED <<pc, lease, sent, process, abandoned>>

\* With the process go its stream and its connections.
ProcessEnds ==
  /\ backlog' = <<>> /\ stream' = FALSE /\ heard' = <<>>
  /\ answer' = [r \in Requests |-> IF pc[r] \in Waiting /\ answer[r] = "none"
                                   THEN "error" ELSE answer[r]]
  /\ UNCHANGED handlerVars

Crash == process = "running" /\ process' = "dead" /\ ProcessEnds /\ UNCHANGED abandoned

\* The lifecycle manager, when nobody holds the lease.
Stop ==
  /\ process # "stopped" /\ lease = NoOne
  /\ process' = "stopped" /\ abandoned' = FALSE /\ ProcessEnds

Handler(r) == \/ Open(r) \/ Opened(r) \/ Close(r) \/ Fed(r) \/ Finalized(r) \/ Closed(r)

Next == \/ \E r \in Requests : \/ Handler(r) \/ Unavailable(r) \/ GiveUp(r)
                               \/ Feed(r) \/ Finalize(r)
        \/ Serve \/ Crash \/ Stop

\* Clients leave in the end; the sidecar serves who has connected.
Spec == Init /\ [][Next]_vars /\ WF_vars(Serve) /\ \A r \in Requests : WF_vars(Handler(r))

-----------------------------------------------------------------------------
(* Properties *)

\* The final text of a session is made of its own frames, all of them, in order: no
\* frame, reset or finalize of another request, however late, has got in between.
OwnFrames == \A r \in Requests : text[r] # <<>> =>
  text[r] = [n \in 1..sent[r] |-> Frame(r, n)]

\* The stream of a session that has ended does not keep the next one out, unless a
\* client left while its begin was under way: that stream has no owner to reset it, and
\* every request is refused until the lifecycle manager stops the process.
RefusedOnlyAfterAbandonedBegin ==
  /\ OwnFrames
  /\ \A r \in Requests : pc[r] \in Waiting /\ answer[r] = "conflict" => abandoned

\* Every request is let in and comes to an end; none waits for a session that has
\* ended or for a sidecar that has died.
RequestsEnd == \A r \in Requests : pc[r] = "new" ~> pc[r] = "over"
=============================================================================
