------------------------- MODULE TranscribeCppProofs -------------------------
(***************************************************************************)
(* What holds of the transcribe.cpp sidecar and its clients for any        *)
(* sessions, uploads and numbers of frames: a final text is made of its    *)
(* own session's frames, and 409 is answered only behind a begin whose     *)
(* client has left.                                                        *)
(*                                                                         *)
(* The sidecar does not know whose its stream is.  The argument is about   *)
(* its backlog: in front of what the lease's holder has posted there are   *)
(* only requests whose clients are gone, all of them posted before its     *)
(* begin, so that they are served before its stream exists.                *)
(***************************************************************************)
EXTENDS TranscribeCpp, TLAPS

Messages == [from : Requests, op : Waiting]
Own(r, n) == [k \in 1..n |-> Frame(r, k)]

Types ==
  /\ pc \in [Requests -> Waiting \cup {"new", "loop", "over"}]
  /\ lease \in Requests \cup {NoOne}
  /\ \A r \in Requests : pc[r] \in Waiting \cup {"loop"} <=> lease = r
  /\ sent \in [Requests -> Nat] /\ DOMAIN text = Requests
  /\ answer \in [Requests -> {"none", "ok", "error", "conflict"}]
  /\ process \in {"stopped", "running", "dead"} /\ stream \in BOOLEAN /\ abandoned \in BOOLEAN
  /\ backlog \in Seq(Messages) /\ heard \in Seq(Requests \X Nat)

Posted(r) == pc[r] \in Waiting /\ answer[r] = "none"

\* Without a process there are neither connections nor a stream.
ProcessHasAll == process # "running" => backlog = <<>> /\ ~ stream

\* What a handler waits for is the last connection; all others are of clients who
\* have gone, and a begin among them has been reported.
Backlog ==
  /\ \A r \in Requests : Posted(r) =>
       backlog # <<>> /\ backlog[Len(backlog)] = [from |-> r, op |-> pc[r]]
  /\ \A i \in 1..Len(backlog) :
       LET m == backlog[i] IN
       \/ /\ pc[m.from] = "over" /\ m.op \in {"begin", "transcribe", "reset"}
          /\ m.op = "begin" => abandoned
       \/ i = Len(backlog) /\ pc[m.from] = m.op /\ answer[m.from] = "none"

\* A handler that has been answered has nothing in the backlog, and one whose stream
\* is open at most one connection.
ServedFirst ==
  \A r \in Requests :
    /\ pc[r] = "loop" \/ (pc[r] \in Waiting /\ answer[r] # "none") => backlog = <<>>
    /\ pc[r] \in {"feed", "finalize", "reset"} => Len(backlog) <= 1

\* What the stream has heard, by the place of the session it belongs to.
HeardOwn ==
  \A r \in Requests :
    /\ pc[r] \in {"new", "begin", "transcribe"} => sent[r] = 0
    /\ pc[r] = "feed" => sent[r] > 0
    /\ process = "running" =>
         /\ pc[r] = "begin" /\ answer[r] = "ok" => heard = <<>>
         /\ pc[r] = "loop" \/ (pc[r] = "feed" /\ answer[r] = "ok") => heard = Own(r, sent[r])
         /\ pc[r] = "feed" /\ answer[r] = "none" => heard = Own(r, sent[r] - 1)
         /\ pc[r] = "finalize" /\ answer[r] = "none" => heard = Own(r, sent[r])

Texts ==
  \A r \in Requests : text[r] # <<>> =>
    /\ text[r] = Own(r, sent[r])
    /\ pc[r] = "over" \/ (pc[r] = "finalize" /\ answer[r] = "ok")

\* The stream is its opener's until a reset is on its way.
Opener(r) == pc[r] \in {"loop", "feed", "finalize", "reset"} \/ (pc[r] = "begin" /\ answer[r] = "ok")
StreamHasOwner ==
  /\ stream /\ ~ abandoned =>
       \/ \E r \in Requests : Opener(r)
       \/ \E i \in 1..Len(backlog) : backlog[i].op = "reset"
  /\ \A r \in Requests : \/ pc[r] = "reset" /\ answer[r] # "none"
                         \/ pc[r] = "finalize" /\ answer[r] = "ok"
                         => ~ stream

ConflictExplained ==
  \A r \in Requests : pc[r] \in Waiting /\ answer[r] = "conflict" => abandoned

IInv == /\ Types /\ ProcessHasAll /\ Backlog /\ ServedFirst /\ HeardOwn /\ Texts
        /\ StreamHasOwner /\ ConflictExplained

-----------------------------------------------------------------------------
LEMMA InitInv == Init => IInv
<1> SUFFICES ASSUME Init PROVE IInv
  OBVIOUS
<1> USE NoOneAssumption DEF Init, Waiting
<1>1. Types
  <2>1. backlog \in Seq(Messages) /\ heard \in Seq(Requests \X Nat)
    OBVIOUS
  <2>2. DOMAIN text = Requests
    OBVIOUS
  <2>3. \A r \in Requests : pc[r] \in Waiting \cup {"loop"} <=> lease = r
    OBVIOUS
  <2> QED
    BY <2>1, <2>2, <2>3 DEF Types
<1>2. ProcessHasAll /\ Backlog /\ ServedFirst
  BY DEF ProcessHasAll, Backlog, ServedFirst, Posted
<1>3. HeardOwn /\ Texts
  BY DEF HeardOwn, Texts
<1>4. StreamHasOwner /\ ConflictExplained
  BY DEF StreamHasOwner, ConflictExplained, Opener
<1> QED
  BY <1>1, <1>2, <1>3, <1>4 DEF IInv

LEMMA NothingSent == \A r \in Requests : Own(r, 0) = <<>>
  BY DEF Own

\* At most one handler has business with the sidecar.
LEMMA OneAtATime ==
  ASSUME IInv, NEW r \in Requests, NEW q \in Requests,
         pc[r] \in Waiting \cup {"loop"}, pc[q] \in Waiting \cup {"loop"}
  PROVE  r = q
  BY DEF IInv, Types

-----------------------------------------------------------------------------
(* The ends of requests: nothing is posted, the sidecar is left alone *)

\* A handler that has had its answer goes on without a call.
LEMMA AnsweredMove ==
  ASSUME IInv, NEW r \in Requests, NEW label,
         pc[r] \in Waiting, answer[r] # "none",
         \/ pc[r] \in {"begin", "feed"} /\ answer[r] = "ok" /\ label = "loop"
         \/ pc[r] \in {"begin", "transcribe"} /\ label = "over"
            /\ ~ (pc[r] = "begin" /\ answer[r] = "ok")
         \/ pc[r] = "finalize" /\ answer[r] = "ok" /\ label = "over"
         \/ pc[r] = "reset" /\ label = "over",
         pc' = [pc EXCEPT ![r] = label],
         lease' = IF label = "over" THEN NoOne ELSE lease,
         UNCHANGED <<sent, text, answer, sidecarVars, abandoned>>
  PROVE  IInv'
<1> USE DEF IInv, Waiting, sidecarVars
<1>0. backlog = <<>> /\ backlog' = <<>> /\ label \in {"loop", "over"} /\ lease = r
  BY DEF ServedFirst, Types
<1>1. \A q \in Requests : pc'[q] = IF q = r THEN label ELSE pc[q]
  BY DEF Types
<1>2. \A q \in Requests : pc[q] \in Waiting \cup {"loop"} => q = r
  BY <1>0 DEF Types
<1>3. Types'
  <2>1. pc' \in [Requests -> Waiting \cup {"new", "loop", "over"}] /\ lease' \in Requests \cup {NoOne}
    BY <1>0 DEF Types
  <2>2. \A q \in Requests : pc'[q] \in Waiting \cup {"loop"} <=> lease' = q
    BY <1>0, <1>1, <1>2, NoOneAssumption DEF Types
  <2> QED
    BY <2>1, <2>2 DEF Types
<1>4. ProcessHasAll' /\ Backlog' /\ ServedFirst'
  BY <1>0, <1>1, <1>2 DEF ProcessHasAll, Backlog, ServedFirst, Posted
<1>5. HeardOwn'
  BY <1>0, <1>1, <1>2, NothingSent DEF HeardOwn
<1>6. Texts'
  BY <1>0, <1>1, <1>2 DEF Texts
<1>7. StreamHasOwner'
  BY <1>0, <1>1, <1>2 DEF StreamHasOwner, Opener
<1>8. ConflictExplained'
  BY <1>0, <1>1, <1>2 DEF ConflictExplained
<1> QED
  BY <1>3, <1>4, <1>5, <1>6, <1>7, <1>8

-----------------------------------------------------------------------------
(* Calls within a session *)

LEMMA SessionCall ==
  ASSUME IInv, NEW r \in Requests, Feed(r) \/ Finalize(r) \/ Close(r)
  PROVE  IInv'
<1> USE DEF IInv, Waiting
<1>1. PICK op \in {"feed", "finalize", "reset"} :
        /\ Request(r, op) /\ UNCHANGED <<process, lease, text, stream, heard, abandoned>>
        /\ sent' = [sent EXCEPT ![r] = IF op = "feed" THEN @ + 1 ELSE @]
        /\ \/ pc[r] = "loop"
           \/ pc[r] \in {"feed", "finalize"} /\ answer[r] \notin {"none", "ok"} /\ op = "reset"
  <2>1. CASE Feed(r)
    BY <2>1 DEF Feed
  <2>2. CASE Finalize(r) \/ Close(r)
    <3>1. sent' = sent /\ sent = [sent EXCEPT ![r] = @]
      BY <2>2 DEF Finalize, Close, Types
    <3> QED
      BY <2>2, <3>1 DEF Finalize, Close
  <2> QED
    BY <2>1, <2>2
<1>2. backlog = <<>> /\ lease = r
  BY <1>1 DEF ServedFirst, Types
<1>3. \A q \in Requests : /\ pc'[q] = IF q = r THEN op ELSE pc[q]
                          /\ q # r => pc[q] \in {"new", "over"}
  BY <1>1, <1>2 DEF Types, Request
<1>4. \/ /\ process = "running" /\ answer' = [answer EXCEPT ![r] = "none"]
         /\ backlog' = <<[from |-> r, op |-> op]>>
      \/ /\ process # "running" /\ answer' = [answer EXCEPT ![r] = "error"]
         /\ backlog' = <<>>
  BY <1>1, <1>2 DEF Request
<1>5. Types'
  <2>0. [from |-> r, op |-> op] \in Messages
    BY DEF Messages
  <2>1. backlog' \in Seq(Messages)
    <3>1. <<>> \in Seq(Messages) /\ <<[from |-> r, op |-> op]>> \in Seq(Messages)
      BY <2>0
    <3> QED
      BY <1>4, <3>1
  <2>2. pc' \in [Requests -> Waiting \cup {"new", "loop", "over"}] /\ sent' \in [Requests -> Nat]
    BY <1>1 DEF Types, Request
  <2>3. answer' \in [Requests -> {"none", "ok", "error", "conflict"}]
    BY <1>4 DEF Types
  <2>4. \A q \in Requests : pc'[q] \in Waiting \cup {"loop"} <=> lease' = q
    BY <1>1, <1>2, <1>3 DEF Types
  <2> QED
    BY <1>1, <2>1, <2>2, <2>3, <2>4 DEF Types
<1>6. ProcessHasAll'
  BY <1>1, <1>4 DEF ProcessHasAll
<1>7. Backlog' /\ ServedFirst'
  <2>1. \A q \in Requests : q # r => ~ Posted(q)' /\ pc'[q] \in {"new", "over"}
    BY <1>3 DEF Posted
  <2>2. answer'[r] = (IF process = "running" THEN "none" ELSE "error") /\ pc'[r] = op
    BY <1>3, <1>4 DEF Types
  <2>3. CASE process = "running"
    <3>1. Len(backlog') = 1 /\ backlog'[1] = [from |-> r, op |-> op] /\ backlog' # <<>>
      BY <1>4, <2>3
    <3> QED
      BY <2>1, <2>2, <2>3, <3>1 DEF Backlog, ServedFirst
  <2>4. CASE process # "running"
    <3>1. Len(backlog') = 0 /\ backlog' = <<>> /\ ~ Posted(r)'
      BY <1>4, <2>2, <2>4 DEF Posted
    <3> QED
      BY <2>1, <3>1 DEF Backlog, ServedFirst
  <2> QED
    BY <2>3, <2>4
<1>8. HeardOwn'
  <2>1. \A q \in Requests : /\ sent'[q] = IF q = r /\ op = "feed" THEN sent[q] + 1 ELSE sent[q]
                            /\ q # r => answer'[q] = answer[q]
    BY <1>1, <1>4 DEF Types
  <2>2. process = "running" /\ pc[r] = "loop" => heard = Own(r, sent[r])
    BY DEF HeardOwn
  <2>3. sent[r] \in Nat
    BY DEF Types
  <2> QED
    BY <1>1, <1>3, <1>4, <2>1, <2>2, <2>3 DEF HeardOwn, Types
<1>9. Texts'
  <2>1. \A q \in Requests : q # r => sent'[q] = sent[q] /\ answer'[q] = answer[q]
    BY <1>1, <1>4 DEF Types
  <2>2. text[r] = <<>>
    BY <1>1 DEF Texts
  <2> QED
    BY <1>1, <1>3, <2>1, <2>2 DEF Texts
<1>10. StreamHasOwner'
  <2>1. Opener(r)'
    BY <1>1, <1>3 DEF Opener
  <2>2. process # "running" => ~ stream
    BY DEF ProcessHasAll
  <2> QED
    BY <1>1, <1>3, <1>4, <2>1, <2>2 DEF StreamHasOwner, Types
<1>11. ConflictExplained'
  BY <1>1, <1>3, <1>4 DEF ConflictExplained, Types
<1> QED
  BY <1>5, <1>6, <1>7, <1>8, <1>9, <1>10, <1>11

-----------------------------------------------------------------------------
(* Opening and giving up *)

\* What is in the backlog when nobody holds the lease is nobody's.
LEMMA OnlyStale ==
  ASSUME IInv, lease = NoOne, NEW i \in 1..Len(backlog)
  PROVE  /\ backlog[i] \in Messages /\ pc[backlog[i].from] = "over"
         /\ backlog[i].op \in {"begin", "transcribe", "reset"}
         /\ backlog[i].op = "begin" => abandoned
<1>1. backlog[i] \in Messages
  BY DEF IInv, Types
<1>2. pc[backlog[i].from] \notin Waiting
  BY <1>1, NoOneAssumption DEF IInv, Types, Messages
<1> QED
  BY <1>1, <1>2 DEF IInv, Backlog, Messages

LEMMA OpenStep ==
  ASSUME IInv, NEW r \in Requests, Open(r)
  PROVE  IInv'
<1> USE DEF IInv, Waiting
<1>1. PICK op \in {"begin", "transcribe"} :
        /\ Request(r, op) /\ pc[r] = "new" /\ lease = NoOne /\ lease' = r
        /\ process' = IF process = "stopped" THEN "running" ELSE process
        /\ UNCHANGED <<sent, text, stream, heard, abandoned>>
  BY DEF Open
<1>2. \A q \in Requests : /\ pc'[q] = IF q = r THEN op ELSE pc[q]
                          /\ pc[q] \in {"new", "over"}
  BY <1>1, NoOneAssumption DEF Types, Request
<1>3. \/ /\ process' = "running" /\ answer' = [answer EXCEPT ![r] = "none"]
         /\ backlog' = Append(backlog, [from |-> r, op |-> op])
      \/ /\ process' = process /\ process # "running" /\ answer' = [answer EXCEPT ![r] = "error"]
         /\ backlog' = backlog
  BY <1>1 DEF Request, Types
<1>4. backlog \in Seq(Messages) /\ [from |-> r, op |-> op] \in Messages
  BY DEF Types, Messages
<1>5. Types'
  <2>1. backlog' \in Seq(Messages)
    BY <1>3, <1>4
  <2>2. pc' \in [Requests -> Waiting \cup {"new", "loop", "over"}] /\ process' \in {"stopped", "running", "dead"}
    BY <1>1 DEF Types, Request
  <2>3. answer' \in [Requests -> {"none", "ok", "error", "conflict"}]
    BY <1>3 DEF Types
  <2>4. \A q \in Requests : pc'[q] \in Waiting \cup {"loop"} <=> lease' = q
    BY <1>1, <1>2 DEF Types
  <2> QED
    BY <1>1, <2>1, <2>2, <2>3, <2>4 DEF Types
<1>6. ProcessHasAll'
  BY <1>1, <1>3 DEF ProcessHasAll
<1>7. Backlog'
  <2>1. \A i \in 1..Len(backlog) :
          /\ backlog'[i] = backlog[i] /\ pc'[backlog[i].from] = "over"
          /\ backlog[i].op \in {"begin", "transcribe", "reset"} /\ (backlog[i].op = "begin" => abandoned)
    BY <1>1, <1>2, <1>3, <1>4, OnlyStale DEF Messages
  <2>2. CASE process' = "running"
    <3>1. Len(backlog') = Len(backlog) + 1 /\ backlog'[Len(backlog) + 1] = [from |-> r, op |-> op]
      BY <1>3, <1>4, <2>2
    <3>2. Len(backlog) \in Nat /\ answer'[r] = "none" /\ pc'[r] = op
      BY <1>2, <1>3, <1>4, <2>2 DEF Types
    <3>3. \A q \in Requests : q # r => ~ Posted(q)'
      BY <1>2 DEF Posted
    <3>4. abandoned' = abandoned
      BY <1>1
    <3>5. backlog' # <<>>
      BY <3>1, <3>2
    <3> QED
      BY <2>1, <3>1, <3>2, <3>3, <3>4, <3>5 DEF Backlog
  <2>3. CASE process' # "running"
    <3>1. backlog' = <<>> /\ \A q \in Requests : ~ Posted(q)'
      BY <1>2, <1>3, <2>3 DEF ProcessHasAll, Posted, Types
    <3> QED
      BY <3>1 DEF Backlog
  <2> QED
    BY <2>2, <2>3
<1>8. ServedFirst'
  BY <1>2, <1>3 DEF ServedFirst, ProcessHasAll, Types
<1>9. HeardOwn' /\ Texts'
  BY <1>1, <1>2, <1>3 DEF HeardOwn, Texts, Types
<1>10. StreamHasOwner'
  <2>1. stream /\ ~ abandoned => \E i \in 1..Len(backlog) : backlog[i].op = "reset"
    BY <1>2 DEF StreamHasOwner, Opener
  <2>2. \A i \in 1..Len(backlog) : i \in 1..Len(backlog') /\ backlog'[i] = backlog[i]
    BY <1>3, <1>4
  <2> QED
    BY <1>1, <1>2, <2>1, <2>2 DEF StreamHasOwner
<1>11. ConflictExplained'
  BY <1>1, <1>2, <1>3 DEF ConflictExplained, Types
<1> QED
  BY <1>5, <1>6, <1>7, <1>8, <1>9, <1>10, <1>11

\* The end of a handler that holds the lease without an open session, or that has
\* asked for the end of its own: what it has posted stays.
LEMMA HandlerGone ==
  ASSUME IInv, NEW r \in Requests, lease = r, Posted(r), pc[r] \in {"begin", "transcribe", "reset"},
         Over(r), UNCHANGED <<sent, text, answer, process, stream, heard>>,
         \/ backlog' = backlog
         \/ pc[r] # "reset" /\ backlog' = SubSeq(backlog, 1, Len(backlog) - 1),
         abandoned' = (abandoned \/ pc[r] = "begin")
  PROVE  IInv'
<1> USE DEF IInv, Waiting
<1>1. \A q \in Requests : /\ pc'[q] = IF q = r THEN "over" ELSE pc[q]
                          /\ q # r => pc[q] \in {"new", "over"}
  BY NoOneAssumption DEF Types, Over
<1>2. /\ backlog \in Seq(Messages) /\ Len(backlog) \in Nat \ {0}
      /\ backlog[Len(backlog)] = [from |-> r, op |-> pc[r]]
  BY DEF Types, Backlog
<1>3. backlog' \in Seq(Messages) /\ Len(backlog') \in {Len(backlog), Len(backlog) - 1}
  BY <1>2
<1>4. \A i \in 1..Len(backlog') : i \in 1..Len(backlog) /\ backlog'[i] = backlog[i]
  BY <1>2, <1>3
<1>5. Types'
  <2>1. pc' \in [Requests -> Waiting \cup {"new", "loop", "over"}]
    BY DEF Types, Over
  <2>2. \A q \in Requests : pc'[q] \in Waiting \cup {"loop"} <=> lease' = q
    BY <1>1, NoOneAssumption DEF Over
  <2>3. lease' = NoOne
    BY DEF Over
  <2> QED
    BY <1>3, <2>1, <2>2, <2>3 DEF Types
<1>6. ProcessHasAll'
  BY <1>2 DEF ProcessHasAll
<1>7. Backlog'
  <2>1. \A q \in Requests : ~ Posted(q)'
    BY <1>1 DEF Posted
  <2>2. ASSUME NEW i \in 1..Len(backlog)
        PROVE  /\ pc'[backlog[i].from] = "over" /\ backlog[i].op \in {"begin", "transcribe", "reset"}
               /\ backlog[i].op = "begin" => abandoned'
    <3>1. backlog[i] \in Messages
      BY <1>2
    <3>2. CASE pc[backlog[i].from] = "over"
      BY <1>1, <3>1, <3>2 DEF Backlog, Messages
    <3>3. CASE pc[backlog[i].from] # "over"
      <4>1. i = Len(backlog)
        BY <3>1, <3>3 DEF Backlog
      <4>2. backlog[i].from = r /\ backlog[i].op = pc[r]
        BY <1>2, <4>1
      <4>3. pc[r] = "begin" => abandoned'
        OBVIOUS
      <4> QED
        BY <1>1, <4>2, <4>3
    <3> QED
      BY <3>2, <3>3
  <2> QED
    BY <1>4, <2>1, <2>2 DEF Backlog
<1>8. ServedFirst' /\ HeardOwn' /\ Texts'
  BY <1>1 DEF ServedFirst, HeardOwn, Texts, Posted
<1>9. StreamHasOwner'
  <2>1. pc[r] # "reset" => ~ Opener(r) /\ \A i \in 1..Len(backlog) : backlog[i].op = "reset" =>
          i \in 1..Len(backlog')
    BY <1>2, <1>3 DEF Opener, Posted
  <2>2. \A q \in Requests : ~ Opener(q)' /\ (q # r => ~ Opener(q))
    BY <1>1 DEF Opener
  <2>3. pc[r] = "reset" => Len(backlog) \in 1..Len(backlog') /\ backlog'[Len(backlog)].op = "reset"
    BY <1>2, <1>3
  <2> QED
    BY <1>1, <1>4, <2>1, <2>2, <2>3 DEF StreamHasOwner
<1>10. ConflictExplained'
  BY <1>1 DEF ConflictExplained
<1> QED
  BY <1>5, <1>6, <1>7, <1>8, <1>9, <1>10

\* A begin that could not even start its process.
LEMMA UnavailableStep ==
  ASSUME IInv, NEW r \in Requests, Unavailable(r)
  PROVE  IInv'
<1> USE DEF IInv, Waiting, Unavailable, Over, sidecarVars
<1>1. \A q \in Requests : /\ pc'[q] = IF q = r THEN "over" ELSE pc[q]
                          /\ pc[q] \in {"new", "over"}
  BY NoOneAssumption DEF Types
<1>2. backlog = <<>> /\ backlog' = <<>> /\ ~ stream
  BY DEF ProcessHasAll
<1>3. Types'
  <2>1. \A q \in Requests : pc'[q] \in Waiting \cup {"loop"} <=> lease' = q
    BY <1>1, NoOneAssumption
  <2> QED
    BY <2>1 DEF Types
<1>4. ProcessHasAll' /\ Backlog' /\ ServedFirst'
  BY <1>1, <1>2 DEF ProcessHasAll, Backlog, ServedFirst, Posted
<1>5. HeardOwn' /\ Texts' /\ StreamHasOwner' /\ ConflictExplained'
  BY <1>1, <1>2 DEF HeardOwn, Texts, StreamHasOwner, ConflictExplained, Opener
<1> QED
  BY <1>3, <1>4, <1>5

-----------------------------------------------------------------------------
(* The sidecar *)

\* With the process go its stream and its connections; who waited has an error.
LEMMA ProcessEndStep ==
  ASSUME IInv, Crash \/ Stop
  PROVE  IInv'
<1> USE DEF IInv, Waiting, handlerVars
<1>1. /\ backlog' = <<>> /\ stream' = FALSE /\ heard' = <<>> /\ process' \in {"stopped", "dead"}
      /\ answer' = [r \in Requests |-> IF pc[r] \in Waiting /\ answer[r] = "none"
                                       THEN "error" ELSE answer[r]]
      /\ UNCHANGED <<pc, lease, sent, text>>
      /\ abandoned' \in BOOLEAN
      /\ (\A r \in Requests : pc[r] \notin Waiting) \/ abandoned' = abandoned
  <2>1. CASE Crash
    BY <2>1 DEF Crash, ProcessEnds, Types
  <2>2. CASE Stop
    BY <2>2, NoOneAssumption DEF Stop, ProcessEnds, Types
  <2> QED
    BY <2>1, <2>2
<1>2. Types'
  <2>1. backlog' \in Seq(Messages) /\ heard' \in Seq(Requests \X Nat)
    BY <1>1
  <2>2. answer' \in [Requests -> {"none", "ok", "error", "conflict"}]
    BY <1>1 DEF Types
  <2> QED
    BY <1>1, <2>1, <2>2 DEF Types
<1>3. ProcessHasAll' /\ Backlog' /\ ServedFirst'
  BY <1>1 DEF ProcessHasAll, Backlog, ServedFirst, Posted
<1>4. HeardOwn'
  BY <1>1 DEF HeardOwn
<1>5. Texts' /\ StreamHasOwner' /\ ConflictExplained'
  BY <1>1 DEF Texts, StreamHasOwner, ConflictExplained, Opener
<1> QED
  BY <1>2, <1>3, <1>4, <1>5

\* Serving the head of the backlog.  Either its client is gone and nobody notices, or
\* it is all there is and its handler gets the answer.
LEMMA HeadOfBacklog ==
  ASSUME IInv, backlog # <<>>
  PROVE  LET m == Head(backlog) IN
         /\ m \in Messages
         /\ \/ /\ ~ Expected(m) /\ pc[m.from] = "over" /\ m.op \in {"begin", "transcribe", "reset"}
               /\ m.op = "begin" => abandoned
               /\ \A r \in Requests : ~ (pc[r] \in Waiting /\ answer[r] # "none")
                                      /\ pc[r] # "loop"
            \/ /\ Expected(m) /\ Len(backlog) = 1 /\ lease = m.from /\ answer[m.from] = "none"
               /\ \A r \in Requests \ {m.from} : pc[r] \in {"new", "over"}
<1> DEFINE m == Head(backlog)
<1> USE DEF IInv, Waiting
<1>1. m = backlog[1] /\ 1 \in 1..Len(backlog) /\ m \in Messages
  BY DEF Types
<1>2. \A r \in Requests : ~ (pc[r] \in Waiting /\ answer[r] # "none") /\ pc[r] # "loop"
  BY DEF ServedFirst
<1>3. CASE pc[m.from] = "over"
  BY <1>1, <1>2, <1>3 DEF Backlog, Messages, Expected
<1>4. CASE pc[m.from] # "over"
  <2>1. Len(backlog) = 1 /\ pc[m.from] = m.op /\ answer[m.from] = "none"
    BY <1>1, <1>4 DEF Backlog
  <2>2. lease = m.from
    BY <1>1, <2>1 DEF Types, Messages
  <2>3. \A r \in Requests \ {m.from} : pc[r] \in {"new", "over"}
    BY <2>2 DEF Types
  <2> QED
    BY <1>1, <2>1, <2>2, <2>3 DEF Expected
<1> QED
  BY <1>3, <1>4

\* The head was a late call: no answer is seen, and the stream changes for nobody.
LEMMA ServeLate ==
  ASSUME IInv, Serve, ~ Expected(Head(backlog))
  PROVE  IInv'
<1> DEFINE m == Head(backlog)
<1> USE DEF IInv, Waiting
<1>1. backlog # <<>> /\ backlog' = Tail(backlog) /\ process = "running"
      /\ UNCHANGED <<pc, lease, sent, process, abandoned>>
  BY DEF Serve
<1>2. /\ m \in Messages /\ pc[m.from] = "over" /\ m.op \in {"begin", "transcribe", "reset"}
      /\ m.op = "begin" => abandoned
      /\ \A r \in Requests : ~ (pc[r] \in Waiting /\ answer[r] # "none") /\ pc[r] # "loop"
  BY <1>1, HeadOfBacklog
<1>3. /\ UNCHANGED <<answer, text>> /\ stream' \in BOOLEAN /\ (heard' = heard \/ heard' = <<>>)
      /\ m.op = "reset" => ~ stream'
      /\ m.op = "transcribe" => stream' = stream
  <2>1. CASE m.op = "begin" /\ StreamBegin(m)
    BY <2>1 DEF StreamBegin, Respond, Types
  <2>2. CASE m.op = "reset" /\ StreamReset(m)
    BY <2>2 DEF StreamReset, Respond, Types
  <2>3. CASE m.op = "transcribe" /\ Transcribe(m)
    BY <2>3 DEF Transcribe, Respond, Types
  <2> QED
    BY <1>2, <2>1, <2>2, <2>3 DEF Serve
<1>4. /\ backlog \in Seq(Messages) /\ Len(backlog) \in Nat \ {0}
      /\ backlog' \in Seq(Messages) /\ Len(backlog') = Len(backlog) - 1
      /\ \A i \in 1..Len(backlog') : i + 1 \in 1..Len(backlog) /\ backlog'[i] = backlog[i + 1]
      /\ \A i \in 1..Len(backlog) : i # 1 => i - 1 \in 1..Len(backlog') /\ backlog'[i - 1] = backlog[i]
      /\ m = backlog[1]
  BY <1>1 DEF Types
<1>5. Types'
  <2>1. heard' \in Seq(Requests \X Nat)
    <3>1. CASE heard' = heard
      BY <3>1 DEF Types
    <3>2. CASE heard' = <<>>
      BY <3>2
    <3> QED
      BY <1>3, <3>1, <3>2
  <2> QED
    BY <1>1, <1>3, <1>4, <2>1 DEF Types
<1>6. ProcessHasAll'
  BY <1>1 DEF ProcessHasAll
<1>7. Backlog'
  <2>1. ASSUME NEW r \in Requests, Posted(r)
        PROVE  backlog' # <<>> /\ backlog'[Len(backlog')] = [from |-> r, op |-> pc[r]]
    <3>1. backlog[Len(backlog)] = [from |-> r, op |-> pc[r]] /\ pc[r] # "over"
      BY <2>1 DEF Backlog, Posted
    <3>2. Len(backlog) # 1
      BY <1>2, <1>4, <3>1
    <3> QED
      BY <1>4, <3>1, <3>2
  <2>2. \A i \in 1..Len(backlog') : i = Len(backlog') <=> i + 1 = Len(backlog)
    BY <1>4
  <2>3. UNCHANGED <<pc, answer, abandoned>>
    BY <1>1, <1>3
  <2>4. ASSUME NEW i \in 1..Len(backlog')
        PROVE  LET n == backlog[i + 1] IN
               \/ /\ pc[n.from] = "over" /\ n.op \in {"begin", "transcribe", "reset"}
                  /\ n.op = "begin" => abandoned
               \/ i = Len(backlog') /\ pc[n.from] = n.op /\ answer[n.from] = "none"
    BY <1>4, <2>2 DEF Backlog
  <2> QED
    BY <1>4, <2>1, <2>3, <2>4 DEF Backlog, Posted
<1>8. ServedFirst'
  BY <1>1, <1>2, <1>3, <1>4 DEF ServedFirst
<1>9. HeardOwn'
  <2>1. \A r \in Requests : ~ (pc[r] \in {"feed", "finalize"} /\ answer[r] = "none")
    <3>1. ASSUME NEW r \in Requests, pc[r] \in {"feed", "finalize"}, answer[r] = "none" PROVE FALSE
      <4>1. Len(backlog) = 1 /\ backlog[1] = [from |-> r, op |-> pc[r]]
        BY <1>4, <3>1 DEF ServedFirst, Backlog, Posted
      <4> QED
        BY <1>2, <1>4, <3>1, <4>1
    <3> QED
      BY <3>1
  <2> QED
    BY <1>1, <1>2, <1>3, <2>1 DEF HeardOwn
<1>10. Texts' /\ ConflictExplained'
  BY <1>1, <1>3 DEF Texts, ConflictExplained
<1>11. StreamHasOwner'
  <2>1. \A r \in Requests : ~ (Opener(r) /\ answer[r] # "none")
    BY <1>2 DEF Opener
  <2>2. \A r \in Requests : Opener(r)' <=> Opener(r)
    BY <1>1, <1>3 DEF Opener
  <2>3. CASE m.op = "begin"
    BY <1>1, <1>2, <1>3, <2>3 DEF StreamHasOwner
  <2>4. CASE m.op = "reset"
    BY <1>2, <1>3, <2>4 DEF StreamHasOwner
  <2>5. CASE m.op = "transcribe"
    BY <1>1, <1>2, <1>3, <1>4, <2>2, <2>5 DEF StreamHasOwner
  <2> QED
    BY <1>2, <2>3, <2>4, <2>5
<1> QED
  BY <1>5, <1>6, <1>7, <1>8, <1>9, <1>10, <1>11

\* A frame that has been heard is the next of its session.
LEMMA OneMore ==
  ASSUME NEW r \in Requests, NEW n \in Nat \ {0}
  PROVE  Append(Own(r, n - 1), Frame(r, n)) = Own(r, n)
<1>1. Own(r, n - 1) \in Seq(Requests \X Nat) /\ Len(Own(r, n - 1)) = n - 1
  BY DEF Own, Frame
<1>2. Own(r, n) \in Seq(Requests \X Nat) /\ Len(Own(r, n)) = n
  BY DEF Own, Frame
<1>3. Frame(r, n) \in Requests \X Nat
  BY DEF Frame
<1>4. \A i \in 1..n : Append(Own(r, n - 1), Frame(r, n))[i] = Own(r, n)[i]
  BY <1>1, <1>3 DEF Own
<1> QED
  BY <1>1, <1>2, <1>3, <1>4

\* What an expected call does, from the invariant of a session.
LEMMA ServeExpectedEffect ==
  ASSUME IInv, Serve, Expected(Head(backlog)), NEW r \in Requests, Head(backlog).from = r,
         Len(backlog) = 1, answer[r] = "none",
         \A q \in Requests \ {r} : pc[q] \in {"new", "over"}
  PROVE  \E a \in {"ok", "error", "conflict"} :
           /\ answer' = [answer EXCEPT ![r] = a]
           /\ stream' \in BOOLEAN /\ heard' \in Seq(Requests \X Nat)
           /\ pc[r] # "finalize" => text' = text
           /\ pc[r] = "begin" =>
                /\ a = "ok" => stream' /\ heard' = <<>>
                /\ a # "ok" => stream' = stream /\ heard' = heard
           /\ pc[r] = "feed" =>
                /\ stream' = stream /\ a # "conflict"
                /\ a = "ok" => heard' = Own(r, sent[r])
           /\ pc[r] = "finalize" =>
                /\ a = "ok" => ~ stream' /\ text' = [text EXCEPT ![r] = Own(r, sent[r])]
                /\ a # "ok" => stream' = stream /\ text' = text
                /\ a # "conflict"
           /\ pc[r] = "reset" => ~ stream' /\ a = "ok"
           /\ pc[r] = "transcribe" => stream' = stream
           /\ a = "conflict" => abandoned
<1> DEFINE m == Head(backlog)
<1> USE DEF IInv, Waiting
<1>1. backlog # <<>> /\ process = "running" /\ m.from = r /\ pc[r] = m.op /\ m.op \in Waiting
      /\ m = backlog[1]
  BY DEF Serve, Expected, Types, Messages
<1>2. /\ stream \in BOOLEAN /\ heard \in Seq(Requests \X Nat) /\ <<>> \in Seq(Requests \X Nat)
      /\ answer \in [Requests -> {"none", "ok", "error", "conflict"}] /\ sent[r] \in Nat
      /\ DOMAIN text = Requests
  BY DEF Types
<1>3. ASSUME pc[r] \in {"begin", "transcribe"}, stream
      PROVE  abandoned
  BY <1>1, <1>3 DEF StreamHasOwner, Opener
<1>4. CASE m.op = "begin" /\ StreamBegin(m)
  <2>1. CASE stream /\ Respond(m, "conflict") /\ UNCHANGED <<stream, heard, text>>
    BY <1>1, <1>2, <1>3, <1>4, <2>1 DEF Respond
  <2>2. CASE ~ stream /\ stream' = TRUE /\ heard' = <<>> /\ Respond(m, "ok") /\ UNCHANGED text
    BY <1>1, <1>2, <1>4, <2>2 DEF Respond
  <2>3. CASE ~ stream /\ Respond(m, "error") /\ UNCHANGED <<stream, heard, text>>
    BY <1>1, <1>2, <1>4, <2>3 DEF Respond
  <2> QED
    BY <1>4, <2>1, <2>2, <2>3 DEF StreamBegin
<1>5. CASE m.op = "feed" /\ StreamFeed(m)
  <2>1. heard = Own(r, sent[r] - 1) /\ sent[r] \in Nat \ {0}
    BY <1>1, <1>2, <1>5 DEF HeardOwn
  <2>2. Append(heard, Frame(r, sent[r])) = Own(r, sent[r])
    BY <2>1, OneMore
  <2>3. Append(heard, Frame(r, sent[r])) \in Seq(Requests \X Nat)
    BY <1>2 DEF Frame
  <2>4. CASE /\ heard' = Append(heard, Frame(m.from, sent[m.from])) /\ Respond(m, "ok")
             /\ UNCHANGED <<stream, text>>
    BY <1>1, <1>2, <1>5, <2>2, <2>3, <2>4 DEF Respond
  <2>5. CASE Respond(m, "error") /\ UNCHANGED <<stream, heard, text>>
    BY <1>1, <1>2, <1>5, <2>5 DEF Respond
  <2> QED
    BY <1>5, <2>4, <2>5 DEF StreamFeed
<1>6. CASE m.op = "finalize" /\ StreamFinalize(m)
  <2>1. heard = Own(r, sent[r])
    BY <1>1, <1>6 DEF HeardOwn
  <2>2. CASE /\ stream' = FALSE /\ Respond(m, "ok") /\ UNCHANGED heard
             /\ text' = [text EXCEPT ![m.from] = heard]
    BY <1>1, <1>2, <1>6, <2>1, <2>2 DEF Respond
  <2>3. CASE Respond(m, "error") /\ UNCHANGED <<stream, heard, text>>
    BY <1>1, <1>2, <1>6, <2>3 DEF Respond
  <2> QED
    BY <1>6, <2>2, <2>3 DEF StreamFinalize
<1>7. CASE m.op = "reset" /\ StreamReset(m)
  BY <1>1, <1>2, <1>7 DEF StreamReset, Respond
<1>8. CASE m.op = "transcribe" /\ Transcribe(m)
  <2>1. PICK a \in {"ok", "error", "conflict"} :
          Respond(m, a) /\ UNCHANGED <<stream, heard, text>> /\ (a = "conflict" => stream)
    BY <1>8 DEF Transcribe
  <2> QED
    BY <1>1, <1>2, <1>3, <1>8, <2>1 DEF Respond
<1> QED
  BY <1>4, <1>5, <1>6, <1>7, <1>8 DEF Serve

LEMMA ServeExpected ==
  ASSUME IInv, Serve, Expected(Head(backlog))
  PROVE  IInv'
<1> USE DEF IInv, Waiting
<1>1. PICK r \in Requests :
        /\ Head(backlog).from = r /\ Len(backlog) = 1 /\ lease = r /\ answer[r] = "none"
        /\ \A q \in Requests \ {r} : pc[q] \in {"new", "over"}
        /\ pc[r] = Head(backlog).op /\ pc[r] \in Waiting
  <2>1. backlog # <<>>
    BY DEF Serve
  <2>2. Head(backlog) \in Messages /\ pc[Head(backlog).from] = Head(backlog).op
    BY <2>1, HeadOfBacklog DEF Expected
  <2> QED
    BY <2>1, <2>2, HeadOfBacklog DEF Messages
<1>2. PICK a \in {"ok", "error", "conflict"} :
        /\ answer' = [answer EXCEPT ![r] = a]
        /\ stream' \in BOOLEAN /\ heard' \in Seq(Requests \X Nat)
        /\ pc[r] # "finalize" => text' = text
        /\ pc[r] = "begin" =>
             /\ a = "ok" => stream' /\ heard' = <<>>
             /\ a # "ok" => stream' = stream /\ heard' = heard
        /\ pc[r] = "feed" =>
             /\ stream' = stream /\ a # "conflict"
             /\ a = "ok" => heard' = Own(r, sent[r])
        /\ pc[r] = "finalize" =>
             /\ a = "ok" => ~ stream' /\ text' = [text EXCEPT ![r] = Own(r, sent[r])]
             /\ a # "ok" => stream' = stream /\ text' = text
             /\ a # "conflict"
        /\ pc[r] = "reset" => ~ stream' /\ a = "ok"
        /\ pc[r] = "transcribe" => stream' = stream
        /\ a = "conflict" => abandoned
  BY <1>1, ServeExpectedEffect
<1>3. backlog' = <<>> /\ process = "running" /\ UNCHANGED <<pc, lease, sent, process, abandoned>>
  BY <1>1 DEF Serve, Types
<1>4. \A q \in Requests : answer'[q] = IF q = r THEN a ELSE answer[q]
  BY <1>2 DEF Types
<1>5. Types'
  <2>1. answer' \in [Requests -> {"none", "ok", "error", "conflict"}] /\ backlog' \in Seq(Messages)
    BY <1>2, <1>3 DEF Types
  <2>2. DOMAIN text' = Requests
    BY <1>2 DEF Types
  <2> QED
    BY <1>2, <1>3, <2>1, <2>2 DEF Types
<1>6. ProcessHasAll' /\ Backlog' /\ ServedFirst'
  BY <1>1, <1>3, <1>4 DEF ProcessHasAll, Backlog, ServedFirst, Posted
<1>7. HeardOwn'
  BY <1>1, <1>2, <1>3, <1>4 DEF HeardOwn
<1>8. Texts'
  <2>1. text[r] = <<>>
    BY <1>1 DEF Texts
  <2>2. \A q \in Requests : q # r => text'[q] = text[q]
    BY <1>2 DEF Types
  <2>3. text'[r] # <<>> => text'[r] = Own(r, sent[r]) /\ pc[r] = "finalize" /\ a = "ok"
    BY <1>2, <2>1 DEF Types
  <2> QED
    BY <1>1, <1>3, <1>4, <2>1, <2>2, <2>3 DEF Texts
<1>9. StreamHasOwner'
  <2>1. CASE pc[r] \in {"feed", "finalize", "reset"}
    BY <1>1, <1>2, <1>3, <1>4, <2>1 DEF StreamHasOwner, Opener
  <2>2. CASE pc[r] \in {"begin", "transcribe"}
    <3>1. stream => abandoned
      <4>1. ~ \E q \in Requests : Opener(q)
        BY <1>1, <2>2 DEF Opener
      <4>2. ~ \E i \in 1..Len(backlog) : backlog[i].op = "reset"
        BY <1>1, <2>2 DEF Types
      <4> QED
        BY <4>1, <4>2 DEF StreamHasOwner
    <3> QED
      BY <1>1, <1>2, <1>3, <1>4, <2>2, <3>1 DEF StreamHasOwner, Opener
  <2> QED
    BY <1>1, <2>1, <2>2
<1>10. ConflictExplained'
  BY <1>1, <1>2, <1>3, <1>4 DEF ConflictExplained
<1> QED
  BY <1>5, <1>6, <1>7, <1>8, <1>9, <1>10

-----------------------------------------------------------------------------
(* Every step *)

\* A handler moves on with its answer, or leaves without one.
LEMMA HandlerStep ==
  ASSUME IInv, NEW r \in Requests,
         Opened(r) \/ Fed(r) \/ Finalized(r) \/ Closed(r) \/ GiveUp(r)
  PROVE  IInv'
<1> USE DEF Waiting, Over
<1>1. CASE Opened(r) \/ Fed(r) \/ Finalized(r)
  <2>1. pc[r] \in Waiting /\ answer[r] # "none"
    BY <1>1 DEF Opened, Fed, Finalized
  <2>2. PICK label \in {"loop", "over"} :
          /\ \/ pc[r] \in {"begin", "feed"} /\ answer[r] = "ok" /\ label = "loop"
             \/ pc[r] \in {"begin", "transcribe"} /\ label = "over"
                /\ ~ (pc[r] = "begin" /\ answer[r] = "ok")
             \/ pc[r] = "finalize" /\ answer[r] = "ok" /\ label = "over"
          /\ pc' = [pc EXCEPT ![r] = label]
          /\ lease' = IF label = "over" THEN NoOne ELSE lease
    BY <1>1 DEF Opened, Fed, Finalized
  <2>3. UNCHANGED <<sent, text, answer, sidecarVars, abandoned>>
    BY <1>1 DEF Opened, Fed, Finalized
  <2>4. \/ pc[r] \in {"begin", "feed"} /\ answer[r] = "ok" /\ label = "loop"
        \/ pc[r] \in {"begin", "transcribe"} /\ label = "over"
           /\ ~ (pc[r] = "begin" /\ answer[r] = "ok")
        \/ pc[r] = "finalize" /\ answer[r] = "ok" /\ label = "over"
        \/ pc[r] = "reset" /\ label = "over"
    BY <2>2
  <2>5. pc' = [pc EXCEPT ![r] = label] /\ lease' = IF label = "over" THEN NoOne ELSE lease
    BY <2>2
  <2> HIDE DEF Waiting, Over
  <2> QED
    BY <2>1, <2>3, <2>4, <2>5, AnsweredMove
<1>2. CASE Closed(r) /\ answer[r] # "none"
  <2> DEFINE label == "over"
  <2>1. pc[r] \in Waiting /\ answer[r] # "none"
    BY <1>2 DEF Closed
  <2>3. UNCHANGED <<sent, text, answer, sidecarVars, abandoned>>
    BY <1>2 DEF Closed
  <2>4. \/ pc[r] \in {"begin", "feed"} /\ answer[r] = "ok" /\ label = "loop"
        \/ pc[r] \in {"begin", "transcribe"} /\ label = "over"
           /\ ~ (pc[r] = "begin" /\ answer[r] = "ok")
        \/ pc[r] = "finalize" /\ answer[r] = "ok" /\ label = "over"
        \/ pc[r] = "reset" /\ label = "over"
    BY <1>2 DEF Closed
  <2>5. pc' = [pc EXCEPT ![r] = label] /\ lease' = IF label = "over" THEN NoOne ELSE lease
    BY <1>2 DEF Closed
  <2> HIDE DEF Waiting, Over, label
  <2> QED
    BY <2>1, <2>3, <2>4, <2>5, AnsweredMove
<1>3. CASE (Closed(r) /\ answer[r] = "none") \/ GiveUp(r)
  <2>1. lease = r /\ Posted(r) /\ pc[r] \in {"begin", "transcribe", "reset"}
    BY <1>3 DEF Closed, GiveUp, Posted, IInv, Types
  <2>2. Over(r) /\ UNCHANGED <<sent, text, answer, process, stream, heard>>
    BY <1>3 DEF Closed, GiveUp, sidecarVars
  <2>3. \/ backlog' = backlog
        \/ pc[r] # "reset" /\ backlog' = SubSeq(backlog, 1, Len(backlog) - 1)
    BY <1>3 DEF Closed, GiveUp, sidecarVars
  <2>4. abandoned' = (abandoned \/ pc[r] = "begin")
    <3>1. CASE Closed(r)
      BY <3>1 DEF Closed, IInv, Types
    <3>2. CASE GiveUp(r)
      BY <3>2 DEF GiveUp
    <3> QED
      BY <1>3, <3>1, <3>2
  <2> QED
    BY <2>1, <2>2, <2>3, <2>4, HandlerGone
<1> QED
  BY <1>1, <1>2, <1>3

LEMMA NextInv == IInv /\ [Next]_vars => IInv'
<1> SUFFICES ASSUME IInv, [Next]_vars PROVE IInv'
  OBVIOUS
<1>1. CASE UNCHANGED vars
  BY <1>1 DEF vars, handlerVars, sidecarVars, IInv, Types, ProcessHasAll, Backlog, ServedFirst,
              HeardOwn, Texts, StreamHasOwner, ConflictExplained, Posted, Opener
<1>2. CASE \E r \in Requests : Handler(r) \/ Unavailable(r) \/ GiveUp(r) \/ Feed(r) \/ Finalize(r)
  BY <1>2, OpenStep, HandlerStep, SessionCall, UnavailableStep DEF Handler
<1>3. CASE Serve
  BY <1>3, ServeLate, ServeExpected
<1>4. CASE Crash \/ Stop
  BY <1>4, ProcessEndStep
<1> QED
  BY <1>1, <1>2, <1>3, <1>4 DEF Next

-----------------------------------------------------------------------------
(* The theorems *)

(* Every reachable state satisfies the strengthened invariant: backlog, stream and
   handlers tell the same story, whoever has left without taking his calls back. *)
THEOREM InductiveInvariant == Spec => []IInv
<1> QED
  BY InitInv, NextInv, PTL DEF Spec

(* For any bound on the frames, every reachable state is well typed: in particular the
   lease is held exactly while a handler has business with the sidecar
   (src/internal/server/server.go, the deferred release of liveTranscription). *)
THEOREM TypeCorrect == Spec => []TypeOK
<1> DEFINE Counted == sent \in [Requests -> 0..MaxFrames]
<1>1. Init => Counted
  BY BoundAssumption DEF Init
<1>2. Counted /\ [Next]_vars => Counted'
  <2> SUFFICES ASSUME Counted, [Next]_vars PROVE Counted'
    OBVIOUS
  <2>1. CASE \E r \in Requests : Feed(r)
    BY <2>1, BoundAssumption DEF Feed
  <2>2. CASE sent' = sent
    BY <2>2
  <2> QED
    BY <2>1, <2>2 DEF Next, vars, handlerVars, Handler, Open, Opened, Close, Fed, Finalized, Closed,
       Unavailable, GiveUp, Finalize, Serve, Crash, Stop, ProcessEnds
<1>3. IInv /\ Counted => TypeOK
  <2> SUFFICES ASSUME IInv, Counted PROVE TypeOK
    OBVIOUS
  <2>1. \A i \in DOMAIN backlog : backlog[i].from \in Requests /\ backlog[i].op \in Waiting
    <3>1. \A i \in DOMAIN backlog : backlog[i] \in Messages
      BY DEF IInv, Types
    <3> QED
      BY <3>1 DEF Messages
  <2> QED
    BY <2>1 DEF IInv, Types, TypeOK
<1> QED
  BY <1>1, <1>2, <1>3, InductiveInvariant, PTL DEF Spec

(* A final text is made of the frames of its own session, all of them and in order
   (stt/transcribecpp/server.cpp: the stream is given to whoever calls). *)
THEOREM TextsAreOwn == Spec => []OwnFrames
<1>1. IInv => OwnFrames
  BY DEF IInv, Texts, OwnFrames, Own
<1> QED
  BY <1>1, InductiveInvariant, PTL

(* For any sessions and uploads, a request is refused with 409 only when the client
   of some begin has left without its answer. *)
THEOREM RefusalsAreExplained == Spec => []RefusedOnlyAfterAbandonedBegin
<1>1. IInv => RefusedOnlyAfterAbandonedBegin
  BY DEF IInv, Texts, OwnFrames, Own, ConflictExplained, RefusedOnlyAfterAbandonedBegin
<1> QED
  BY <1>1, InductiveInvariant, PTL

=============================================================================
