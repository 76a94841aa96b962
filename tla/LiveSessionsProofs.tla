------------------------- MODULE LiveSessionsProofs -------------------------
(***************************************************************************)
(* What holds of live sessions, uploads and their corpus for any number of *)
(* requests, frames, languages and limits: the idle timer, the order in    *)
(* which files and rows are written, and that the rows say what was heard. *)
(*                                                                         *)
(* The text is a matter of the lease (only its holder feeds the stream)    *)
(* and of the order of calls: what is left behind by others can close the  *)
(* stream and throw out the model, it cannot put frames into the stream.   *)
(* For that no client may leave while its session is being opened: the     *)
(* facts about texts are for ClientsWait, the others for either value.     *)
(***************************************************************************)
EXTENDS LiveSessions, FiniteSetTheorems, WellFoundedInduction, TLAPS

\* The first n frames of a request, and a text made of them.
Own(r, n) == [k \in 1..n |-> <<r, k>>]
Says(t, r, m) == t.of = Own(r, m) /\ t.ends \subseteq 1..m

Types ==
  /\ pc \in [Requests -> {"new", "open", "loop", "transcribe", "flush", "session", "lines",
                          "append", "close", "release", "over"}]
  /\ frames \in [Requests -> Nat]
  /\ capture \in [Requests -> {"on", "dropped", "done"}]
  /\ DOMAIN clip = Requests /\ DOMAIN text = Requests
  /\ DOMAIN todo = Requests /\ DOMAIN manifest = Requests

\* Who is under way has the lease.
LeaseHeld == \A r \in Requests : pc[r] \notin {"new", "over"} => lease = r

\* The lines whose clips belong in the corpus.
Lines(r) == {e \in text[r].ends : e <= Len(clip[r])}

\* What is kept of a request: its clip, its files, then its rows.
Recorded(r) ==
  /\ pc[r] \in {"new", "open", "loop", "transcribe", "flush"} => capture[r] # "done"
  /\ pc[r] \in {"new", "open", "transcribe"} => clip[r] = <<>> /\ capture[r] = "on"
  /\ capture[r] = "dropped" => clip[r] = <<>>
  /\ pc[r] \in {"session", "lines", "append"} => capture[r] = "on"
  /\ pc[r] \in {"close", "release", "over"} /\ clip[r] # <<>> /\ r \notin lost =>
       manifest[r] # <<>>
  /\ pc[r] \in {"lines", "append"} => <<r, 0>> \in files
  /\ pc[r] = "lines" => \A e \in Lines(r) : e \in todo[r] \/ <<r, e>> \in files
  /\ pc[r] = "append" => \A e \in Lines(r) : <<r, e>> \in files
  /\ manifest[r] # <<>> =>
       /\ capture[r] = "done" /\ manifest[r] = <<manifest[r][1]>>
       /\ \A row \in manifest[r][1] : <<r, row.file>> \in files

\* A clip of n frames, and a text of some of them, of all when it is final.
Truth(r, n) ==
  /\ capture[r] = "on" => clip[r] = Own(r, n)
  /\ \E m \in 0..n : Says(text[r], r, m) /\ (r \in isFinal => m = n)

RowMatches(row) ==
  IF row.file = 0 /\ ~ row.final THEN IsPrefix(row.text, row.audio) ELSE row.text = row.audio

\* What the stream has heard and the handler was told.
Truthful(r) ==
  /\ pc[r] \in {"new", "open", "transcribe", "loop"} => r \notin isFinal /\ Truth(r, frames[r])
  /\ pc[r] \in {"new", "open", "transcribe"} => frames[r] = 0
  /\ pc[r] = "loop" /\ owner # Closed =>
       /\ heard = Own(r, frames[r])
       /\ \E m \in 0..frames[r] : Says(snapshot, r, m)
  /\ pc[r] \in {"flush", "session", "lines", "append"} => \E n \in Nat : Truth(r, n)
  /\ manifest[r] # <<>> => \A row \in manifest[r][1] : RowMatches(row)

NoLateBegin == \A r \in Requests : <<r, "begin">> \notin late

IInv ==
  /\ Types /\ LeaseHeld /\ TimerOnlyWithoutStream
  /\ \A r \in Requests : Recorded(r)
  /\ ClientsWait => NoLateBegin /\ \A r \in Requests : Truthful(r)

-----------------------------------------------------------------------------
(* Frames *)

LEMMA NothingHeard == \A r \in Requests : Own(r, 0) = <<>> /\ Says(NoText, r, 0)
  BY DEF Own, Says, NoText

LEMMA OneMoreFrame ==
  ASSUME NEW r \in Requests, NEW n \in Nat
  PROVE  Append(Own(r, n), <<r, n + 1>>) = Own(r, n + 1)
<1>1. Own(r, n) \in Seq(Requests \X Nat) /\ Len(Own(r, n)) = n
  BY DEF Own
<1> QED
  BY <1>1 DEF Own

\* Within a prefix, pieces of prefix and whole are the same.
LEMMA PiecesOfPrefix ==
  ASSUME NEW r \in Requests, NEW n \in Nat, NEW m \in 0..n, NEW a \in Nat \ {0}, NEW e \in 0..m
  PROVE  SubSeq(Own(r, m), a, e) = SubSeq(Own(r, n), a, e)
<1>1. \A k \in 1..m : Own(r, m)[k] = <<r, k>> /\ Own(r, n)[k] = <<r, k>>
  BY DEF Own
<1>2. \A k \in 1..(e - a + 1) : a + k - 1 \in 1..m
  OBVIOUS
<1> QED
  BY <1>1, <1>2

LEMMA OwnIsPrefix ==
  ASSUME NEW r \in Requests, NEW n \in Nat, NEW m \in 0..n
  PROVE  IsPrefix(Own(r, m), Own(r, n))
<1>1. Len(Own(r, m)) = m /\ Len(Own(r, n)) = n
  BY DEF Own
<1>2. SubSeq(Own(r, m), 1, m) = SubSeq(Own(r, n), 1, m)
  <2>1. 1 \in Nat \ {0} /\ m \in Nat /\ m \in 0..m
    OBVIOUS
  <2> QED
    BY <2>1, PiecesOfPrefix
<1> QED
  BY <1>1, <1>2 DEF IsPrefix

\* Of a non-empty set of frames one is the last: the smallest of the sets of later
\* frames is empty.
LEMMA LastOf ==
  ASSUME NEW m \in Nat, NEW T, T \subseteq 1..m, T # {}
  PROVE  \E x \in T : \A y \in T : y <= x
<1> DEFINE Later(x) == {y \in T : y > x}
           family == {Later(x) : x \in T}
<1>1. family \subseteq FiniteSubsetsOf(1..m) /\ family # {}
  <2>1. IsFiniteSet(1..m)
    BY FS_Interval
  <2>2. \A x \in T : IsFiniteSet(Later(x)) /\ Later(x) \subseteq 1..m
    BY <2>1, FS_Subset
  <2> QED
    BY <2>2 DEF FiniteSubsetsOf
<1>2. \E s \in family : \A t \in family : ~ (<<t, s>> \in StrictSubsetOrdering(1..m))
  <2> HIDE DEF family
  <2> QED
    BY <1>1, FS_StrictSubsetOrderingWellFounded, WFMin
<1>3. PICK x \in T : \A y \in T : ~ (<<Later(y), Later(x)>> \in StrictSubsetOrdering(1..m))
  BY <1>2
<1>4. ASSUME NEW y \in T, y > x PROVE FALSE
  <2>1. Later(y) \subseteq Later(x) /\ y \in Later(x) /\ y \notin Later(y)
    <3>1. x \in Nat /\ y \in Nat /\ \A z \in T : z \in Nat
      OBVIOUS
    <3>2. \A z \in T : z > y => z > x
      BY <1>4, <3>1
    <3>3. ~ (y > y)
      BY <3>1
    <3> QED
      BY <1>4, <3>2, <3>3
  <2>2. Later(y) \in SUBSET (1..m) /\ Later(x) \in SUBSET (1..m)
    OBVIOUS
  <2> HIDE DEF Later
  <2> QED
    BY <1>3, <2>1, <2>2 DEF StrictSubsetOrdering
<1> QED
  BY <1>4

\* And one is the first: the last one, counted from the other end.
LEMMA FirstOf ==
  ASSUME NEW m \in Nat, NEW T, T \subseteq 1..m, T # {}
  PROVE  (CHOOSE x \in T : \A y \in T : x <= y) \in T
<1> DEFINE Mirror == {m + 1 - x : x \in T}
<1>1. Mirror \subseteq 1..m /\ Mirror # {}
  OBVIOUS
<1>2. PICK z \in Mirror : \A y \in Mirror : y <= z
  <2> HIDE DEF Mirror
  <2> QED
    BY <1>1, LastOf
<1>3. PICK x \in T : z = m + 1 - x
  BY <1>2
<1>4. \A y \in T : x <= y
  BY <1>2, <1>3
<1> QED
  BY <1>3, <1>4

\* A line begins at a frame.
LEMMA StartIsFrame ==
  ASSUME NEW m \in Nat, NEW ends, ends \subseteq 1..m, NEW e \in Nat
  PROVE  Start(ends, e) \in Nat \ {0}
<1> DEFINE before == {x \in ends : x < e}
<1>1. before # {} => \E x \in before : \A y \in before : y <= x
  BY LastOf
<1>2. \A x \in before : x \in Nat
  OBVIOUS
<1> HIDE DEF before
<1>3. before # {} => (CHOOSE x \in before : \A y \in before : y <= x) \in before
  BY <1>1
<1>4. Start(ends, e) = IF before = {} THEN 1
                       ELSE 1 + CHOOSE x \in before : \A y \in before : y <= x
  BY DEF Start, before
<1> QED
  BY <1>2, <1>3, <1>4

\* The rows of a request whose clip and text are true are true.
LEMMA TrueRows ==
  ASSUME NEW r \in Requests, NEW n \in Nat, Truth(r, n), capture[r] = "on"
  PROVE  \A row \in Batch(r) : RowMatches(row)
<1>1. PICK m \in 0..n : Says(text[r], r, m) /\ (r \in isFinal => m = n)
  BY DEF Truth
<1>2. clip[r] = Own(r, n)
  BY DEF Truth
<1>3. TAKE row \in Batch(r)
<1>4. CASE row = [file |-> 0, audio |-> clip[r], text |-> text[r].of, final |-> r \in isFinal]
  <2>1. IsPrefix(row.text, row.audio)
    BY <1>1, <1>2, <1>4, OwnIsPrefix DEF Says
  <2>2. row.final => row.text = row.audio
    BY <1>1, <1>2, <1>4 DEF Says
  <2>3. row.file = 0
    BY <1>4
  <2> QED
    BY <2>1, <2>2, <2>3 DEF RowMatches
<1>5. ASSUME NEW e \in text[r].ends,
             row = [file  |-> e, audio |-> SubSeq(clip[r], Start(text[r].ends, e), e),
                    text  |-> SubSeq(text[r].of, Start(text[r].ends, e), e),
                    final |-> r \in isFinal]
      PROVE  RowMatches(row)
  <2>1. e \in 1..m
    BY <1>1 DEF Says
  <2>2. Start(text[r].ends, e) \in Nat \ {0}
    BY <1>1, <2>1, StartIsFrame DEF Says
  <2>3. SubSeq(Own(r, m), Start(text[r].ends, e), e) = SubSeq(Own(r, n), Start(text[r].ends, e), e)
    <3>1. e \in 0..m
      BY <2>1
    <3> QED
      BY <2>2, <3>1, PiecesOfPrefix
  <2>4. row.text = row.audio
    BY <1>1, <1>2, <1>5, <2>3 DEF Says
  <2>5. row.file # 0
    BY <1>5, <2>1
  <2> QED
    BY <2>4, <2>5 DEF RowMatches
<1> QED
  BY <1>3, <1>4, <1>5 DEF Batch

-----------------------------------------------------------------------------
(* The initial states, and what every step of a handler leaves alone *)

LEMMA InitInv == Init => IInv
<1> SUFFICES ASSUME Init PROVE IInv
  OBVIOUS
<1> USE DEF Init
<1>1. Types /\ LeaseHeld /\ TimerOnlyWithoutStream /\ NoLateBegin
  BY DEF Types, LeaseHeld, TimerOnlyWithoutStream, NoLateBegin
<1>2. ASSUME NEW r \in Requests PROVE Recorded(r) /\ Truthful(r)
  <2>1. Recorded(r)
    BY DEF Recorded
  <2>2. Truth(r, frames[r])
    BY NothingHeard DEF Truth
  <2> QED
    BY <2>1, <2>2 DEF Truthful
<1> QED
  BY <1>1, <1>2 DEF IInv

Untouched(q) ==
  /\ pc'[q] = pc[q] /\ frames'[q] = frames[q] /\ clip'[q] = clip[q] /\ capture'[q] = capture[q]
  /\ text'[q] = text[q] /\ manifest'[q] = manifest[q]
  /\ (q \in isFinal' <=> q \in isFinal) /\ (q \in lost' <=> q \in lost)
  /\ files \subseteq files'

\* A request that is not under way keeps what is true of it.
LEMMA OthersKeep ==
  ASSUME NEW q \in Requests, pc[q] \in {"new", "over"}, Untouched(q)
  PROVE  (Recorded(q) => Recorded(q)') /\ (Truthful(q) => Truthful(q)')
<1>1. Recorded(q) => Recorded(q)'
  BY DEF Untouched, Recorded
<1>2. Truth(q, frames[q]) => Truth(q, frames[q])'
  BY DEF Untouched, Truth, Says
<1>3. Truthful(q) => Truthful(q)'
  BY <1>2 DEF Untouched, Truthful
<1> QED
  BY <1>1, <1>3

\* For a step of the lease's holder it is enough to look at its own request.
LEMMA HandlerMove ==
  ASSUME IInv, NEW r \in Requests,
         lease = r \/ lease = Nobody, lease' = r \/ pc'[r] \in {"new", "over"},
         Types', \A q \in Requests : q # r => Untouched(q),
         armed' => owner' = Closed, ClientsWait => NoLateBegin',
         Recorded(r)', ClientsWait => Truthful(r)'
  PROVE  IInv'
<1>1. \A q \in Requests : q # r => pc[q] \in {"new", "over"} /\ pc'[q] = pc[q]
  BY RequestsAssumption DEF IInv, LeaseHeld, Untouched
<1>2. LeaseHeld' /\ TimerOnlyWithoutStream'
  BY <1>1 DEF LeaseHeld, TimerOnlyWithoutStream
<1>3. \A q \in Requests : Recorded(q)' /\ (ClientsWait => Truthful(q)')
  BY <1>1, OthersKeep DEF IInv
<1> QED
  BY <1>2, <1>3 DEF IInv

-----------------------------------------------------------------------------
(* The Engine by itself: the timer, its callbacks, and calls left behind *)

LEMMA EngineMove ==
  ASSUME IInv, UNCHANGED <<handlerVars, corpusVars>>, late' \subseteq late,
         armed' => owner' = Closed,
         ClientsWait => owner' = Closed \/ UNCHANGED <<owner, heard, snapshot>>
  PROVE  IInv'
<1> USE DEF handlerVars, corpusVars
<1>1. Types' /\ LeaseHeld' /\ TimerOnlyWithoutStream' /\ (ClientsWait => NoLateBegin')
  BY DEF IInv, Types, LeaseHeld, TimerOnlyWithoutStream, NoLateBegin
<1>2. \A q \in Requests : Recorded(q)'
  BY DEF IInv, Recorded, Lines
<1>3. ASSUME NEW q \in Requests, ClientsWait PROVE Truthful(q)'
  <2>1. \A n : Truth(q, n) => Truth(q, n)'
    BY DEF Truth, Says
  <2>2. (\E n \in Nat : Truth(q, n)) => \E n \in Nat : Truth(q, n)'
    BY <2>1
  <2>3. pc[q] = "loop" /\ owner' # Closed => UNCHANGED <<owner, heard, snapshot>>
    BY <1>3
  <2>4. Truthful(q)
    BY <1>3 DEF IInv
  <2> QED
    BY <2>1, <2>2, <2>3, <2>4 DEF Truthful, Says
<1> QED
  BY <1>1, <1>2, <1>3 DEF IInv

LEMMA EngineStep == IInv /\ (LateCalls \/ TimerFires \/ Unload) => IInv'
<1> SUFFICES ASSUME IInv, LateCalls \/ TimerFires \/ Unload PROVE IInv'
  OBVIOUS
<1>1. CASE TimerFires
  <2>1. UNCHANGED <<handlerVars, corpusVars, late, owner, heard, snapshot>> /\ ~ armed'
    BY <1>1 DEF TimerFires
  <2> QED
    BY <2>1, EngineMove
<1>2. CASE Unload
  <2>1. UNCHANGED <<handlerVars, corpusVars, late>> /\ ~ armed' /\ owner' = Closed
    BY <1>2 DEF Unload, CancelIdleTimer, ResetStream
  <2> QED
    BY <2>1, EngineMove
<1>3. ASSUME NEW r \in Requests, NEW call \in {"begin", "reset", "transcribe"}, LateCall(r, call)
      PROVE  IInv'
  <2>1. UNCHANGED <<handlerVars, corpusVars>> /\ late' \subseteq late
    BY <1>3 DEF LateCall
  <2>2. armed' => owner' = Closed
    BY <1>3 DEF LateCall, Begin, BeginFails, Reset, LoadFor, LoadFails, CancelIdleTimer,
                ResetIdleTimer, ResetStream, IInv, TimerOnlyWithoutStream
  <2>3. ClientsWait => call # "begin"
    BY <1>3 DEF LateCall, IInv, NoLateBegin
  <2>4. ClientsWait => owner' = Closed \/ UNCHANGED <<owner, heard, snapshot>>
    BY <1>3, <2>3 DEF LateCall, Reset, LoadFor, LoadFails, ResetStream
  <2> QED
    BY <2>1, <2>2, <2>4, EngineMove
<1> QED
  BY <1>1, <1>2, <1>3 DEF LateCalls

-----------------------------------------------------------------------------
(* The handlers, up to the end of a session *)

LEMMA RunGateStep == ASSUME IInv, NEW r \in Requests, RunGate(r) PROVE IInv'
<1> USE DEF RunGate, TakeLease, Goto, engineVars, corpusVars
<1>1. lease = Nobody /\ lease' = r /\ pc[r] = "new" /\ pc'[r] \in {"open", "transcribe"}
  BY DEF IInv, Types
<1>2. Types' /\ \A q \in Requests : q # r => Untouched(q)
  BY DEF IInv, Types, Untouched
<1>3. (armed' => owner' = Closed) /\ (ClientsWait => NoLateBegin')
  BY DEF IInv, TimerOnlyWithoutStream, NoLateBegin
<1>4. Recorded(r)'
  BY <1>1 DEF IInv, Recorded
<1>5. ASSUME ClientsWait PROVE Truthful(r)'
  <2>1. Truth(r, frames[r]) => Truth(r, frames[r])'
    BY DEF Truth, Says
  <2> QED
    BY <1>1, <1>5, <2>1 DEF IInv, Truthful
<1> HIDE DEF RunGate, TakeLease, Goto, engineVars, corpusVars
<1> QED
  BY <1>1, <1>2, <1>3, <1>4, <1>5, HandlerMove

LEMMA OpenStep == ASSUME IInv, NEW r \in Requests, OpenLiveStream(r) PROVE IInv'
<1> USE DEF Goto, corpusVars
<1>1. pc[r] = "open" /\ lease = r /\ lease' = r
  BY DEF OpenLiveStream, IInv, LeaseHeld
<1>2. PICK label \in {"loop", "release"} :
        /\ pc' = [pc EXCEPT ![r] = label]
        /\ label = "loop" => Begin(r)
        /\ Begin(r) \/ BeginFails(r) \/ (~ ClientsWait /\ UNCHANGED engineVars)
        /\ ClientsWait => UNCHANGED late
  BY DEF OpenLiveStream
<1>3. UNCHANGED <<frames, clip, capture, text, todo, isFinal, streamClosed, files, manifest, lost>>
  BY DEF OpenLiveStream
<1>4. Types' /\ \A q \in Requests : q # r => Untouched(q)
  BY <1>2, <1>3 DEF IInv, Types, Untouched
<1>5. (armed' => owner' = Closed) /\ (ClientsWait => NoLateBegin')
  BY <1>2 DEF IInv, TimerOnlyWithoutStream, NoLateBegin, Begin, BeginFails, CancelIdleTimer,
              engineVars
<1>6. pc'[r] = label
  BY <1>2 DEF IInv, Types
<1>7. Recorded(r)'
  BY <1>1, <1>3, <1>6 DEF IInv, Recorded
<1>8. ASSUME ClientsWait PROVE Truthful(r)'
  <2>1. Truth(r, frames[r]) => Truth(r, frames[r])'
    BY <1>3 DEF Truth, Says
  <2>2. frames[r] = 0 /\ r \notin isFinal /\ Truth(r, frames[r])
        /\ (manifest[r] # <<>> => \A row \in manifest[r][1] : RowMatches(row))
    BY <1>1, <1>8 DEF IInv, Truthful
  <2>3. label = "loop" => heard' = Own(r, 0) /\ Says(snapshot', r, 0)
    BY <1>2, NothingHeard DEF Begin
  <2> QED
    BY <1>3, <1>6, <2>1, <2>2, <2>3 DEF Truthful, Says
<1> QED
  BY <1>1, <1>4, <1>5, <1>7, <1>8, HandlerMove

LEMMA FrameStep == ASSUME IInv, NEW r \in Requests, Frame(r) PROVE IInv'
<1> USE DEF Goto, corpusVars
<1>1. pc[r] = "loop" /\ lease = r /\ lease' = r
  BY DEF Frame, IInv, LeaseHeld
<1>2. PICK label \in {"loop", "flush"} :
        /\ pc' = [pc EXCEPT ![r] = label]
        /\ \/ owner # Closed /\ Feed(r) /\ text' \in {text, [text EXCEPT ![r] = snapshot']}
           \/ label = "flush" /\ text' = text /\ UNCHANGED engineVars
  <2>1. pc = [pc EXCEPT ![r] = "loop"]
    BY <1>1 DEF IInv, Types
  <2> QED
    BY <2>1 DEF Frame
<1>3. Captured(r) /\ frames' = [frames EXCEPT ![r] = @ + 1]
      /\ UNCHANGED <<todo, isFinal, streamClosed, late, files, manifest, lost>>
  BY DEF Frame
<1>4. \/ capture[r] = "on" /\ UNCHANGED capture
         /\ clip' = [clip EXCEPT ![r] = Append(@, <<r, frames'[r]>>)]
      \/ capture' = [capture EXCEPT ![r] = "dropped"] /\ clip' = [clip EXCEPT ![r] = <<>>]
  BY <1>3 DEF Captured
<1>5. Types' /\ \A q \in Requests : q # r => Untouched(q)
  BY <1>2, <1>3, <1>4 DEF IInv, Types, Untouched
<1>6. (armed' => owner' = Closed) /\ (ClientsWait => NoLateBegin')
  BY <1>2, <1>3 DEF IInv, TimerOnlyWithoutStream, NoLateBegin, Feed, engineVars
<1>7. pc'[r] = label /\ frames[r] \in Nat /\ frames'[r] = frames[r] + 1
  BY <1>2, <1>3 DEF IInv, Types
<1>8. Recorded(r)'
  BY <1>1, <1>3, <1>4, <1>7 DEF IInv, Types, Recorded
<1>9. ASSUME ClientsWait PROVE Truthful(r)'
  <2>1. r \notin isFinal /\ Truth(r, frames[r])
        /\ (manifest[r] # <<>> => \A row \in manifest[r][1] : RowMatches(row))
        /\ (owner # Closed => heard = Own(r, frames[r]) /\ \E m \in 0..frames[r] : Says(snapshot, r, m))
    BY <1>1, <1>9 DEF IInv, Truthful
  <2>2. owner # Closed /\ Feed(r) =>
          /\ heard' = Own(r, frames'[r]) /\ owner' = owner
          /\ \E m \in 0..frames'[r] : Says(snapshot', r, m)
    <3> SUFFICES ASSUME owner # Closed, Feed(r)
                 PROVE  /\ heard' = Own(r, frames'[r]) /\ owner' = owner
                        /\ \E m \in 0..frames'[r] : Says(snapshot', r, m)
      OBVIOUS
    <3>1. heard' = Own(r, frames'[r]) /\ owner' = owner
      BY <1>7, <2>1, OneMoreFrame DEF Feed
    <3>2. CASE UNCHANGED snapshot
      <4>1. PICK m \in 0..frames[r] : Says(snapshot, r, m)
        BY <2>1, <3>2
      <4>2. m \in 0..frames'[r] /\ Says(snapshot', r, m)
        BY <1>7, <3>2, <4>1
      <4> QED
        BY <3>1, <4>2
    <3>3. CASE \E ends \in SUBSET (1..Len(heard')) : snapshot' = [of |-> heard', ends |-> ends]
      <4>1. Len(heard') = frames'[r] /\ frames'[r] \in 0..frames'[r]
        BY <1>7, <3>1 DEF Own
      <4> QED
        BY <3>1, <3>3, <4>1 DEF Says
    <3> QED
      BY <3>1, <3>2, <3>3 DEF Feed
  <2>3. \E m \in 0..frames'[r] : Says(text'[r], r, m)
    <3>1. \E m \in 0..frames[r] : Says(text[r], r, m)
      BY <2>1 DEF Truth
    <3>2. \E m \in 0..frames'[r] : Says(text[r], r, m)
      BY <1>7, <3>1
    <3>3. text'[r] = text[r] \/ (owner # Closed /\ Feed(r) /\ text'[r] = snapshot')
      BY <1>2 DEF IInv, Types
    <3> QED
      BY <2>2, <3>2, <3>3
  <2>4. capture'[r] = "on" => clip'[r] = Own(r, frames'[r])
    <3>1. capture'[r] = "on" => capture[r] = "on" /\ clip'[r] = Append(clip[r], <<r, frames'[r]>>)
      BY <1>4 DEF IInv, Types
    <3> QED
      BY <1>7, <2>1, <3>1, OneMoreFrame DEF Truth
  <2>5. Truth(r, frames[r])'
    BY <1>3, <2>1, <2>3, <2>4 DEF Truth, Says
  <2>6. label = "loop" => owner # Closed /\ Feed(r)
    BY <1>2
  <2> QED
    BY <1>3, <1>7, <2>1, <2>2, <2>5, <2>6 DEF Truthful, Says
<1> QED
  BY <1>1, <1>5, <1>6, <1>8, <1>9, HandlerMove

LEMMA CommitStep == ASSUME IInv, NEW r \in Requests, ClientGone(r) \/ Commit(r) PROVE IInv'
<1> USE DEF Goto, corpusVars, Reset, ResetStream, ResetIdleTimer
<1>1. pc[r] = "loop" /\ lease = r /\ lease' = r /\ pc' = [pc EXCEPT ![r] = "flush"]
  BY DEF ClientGone, Commit, IInv, LeaseHeld
<1>2. UNCHANGED <<frames, clip, capture, todo, late, files, manifest, lost>>
  BY DEF ClientGone, Commit
<1>3. \/ UNCHANGED <<text, isFinal>>
      \/ /\ owner # Closed /\ isFinal' = isFinal \cup {r}
         /\ \E ends \in SUBSET (1..Len(heard)) :
              text' = [text EXCEPT ![r] = [of |-> heard, ends |-> ends]]
  BY DEF ClientGone, Commit
<1>4. Types' /\ \A q \in Requests : q # r => Untouched(q)
  BY <1>1, <1>2, <1>3 DEF IInv, Types, Untouched
<1>5. (armed' => owner' = Closed) /\ (ClientsWait => NoLateBegin')
  BY <1>2 DEF ClientGone, Commit, IInv, TimerOnlyWithoutStream, NoLateBegin, engineVars
<1>6. pc'[r] = "flush" /\ frames[r] \in Nat
  BY <1>1 DEF IInv, Types
<1>7. Recorded(r)'
  BY <1>1, <1>2, <1>6 DEF IInv, Recorded
<1>8. ASSUME ClientsWait PROVE Truthful(r)'
  <2>1. r \notin isFinal /\ Truth(r, frames[r])
        /\ (manifest[r] # <<>> => \A row \in manifest[r][1] : RowMatches(row))
        /\ (owner # Closed => heard = Own(r, frames[r]))
    BY <1>1, <1>8 DEF IInv, Truthful
  <2>2. Truth(r, frames[r])'
    <3>1. CASE UNCHANGED <<text, isFinal>>
      BY <1>2, <2>1, <3>1 DEF Truth, Says
    <3>2. CASE owner # Closed /\ \E ends \in SUBSET (1..Len(heard)) :
                 text' = [text EXCEPT ![r] = [of |-> heard, ends |-> ends]]
      <4>1. heard = Own(r, frames[r]) /\ Len(heard) = frames[r] /\ frames[r] \in 0..frames[r]
        BY <1>6, <2>1, <3>2 DEF Own
      <4>2. text'[r].of = heard /\ text'[r].ends \subseteq 1..Len(heard)
        BY <3>2 DEF IInv, Types
      <4>3. Says(text'[r], r, frames[r])
        BY <4>1, <4>2 DEF Says
      <4> QED
        BY <1>2, <2>1, <4>1, <4>3 DEF Truth, Says
    <3> QED
      BY <1>3, <3>1, <3>2
  <2> QED
    BY <1>2, <1>6, <2>1, <2>2 DEF Truthful
<1> QED
  BY <1>1, <1>4, <1>5, <1>7, <1>8, HandlerMove

LEMMA TranscribeStep == ASSUME IInv, NEW r \in Requests, Transcribe(r) PROVE IInv'
<1> USE DEF Goto, corpusVars
<1>1. pc[r] = "transcribe" /\ lease = r /\ lease' = r
  BY DEF Transcribe, IInv, LeaseHeld
<1>2. UNCHANGED <<frames, capture, todo, streamClosed, files, manifest, lost>>
  BY DEF Transcribe
<1>3. \/ /\ pc' = [pc EXCEPT ![r] = "flush"]
         /\ clip' = [clip EXCEPT ![r] = <<<<r, 1>>>>]
         /\ text' = [text EXCEPT ![r] = [of |-> <<<<r, 1>>>>, ends |-> {}]]
         /\ isFinal' = isFinal \cup {r}
      \/ pc' = [pc EXCEPT ![r] = "release"] /\ UNCHANGED <<clip, text, isFinal>>
  BY DEF Transcribe
<1>4. Types' /\ \A q \in Requests : q # r => Untouched(q)
  BY <1>2, <1>3 DEF IInv, Types, Untouched
<1>5. (armed' => owner' = Closed) /\ (ClientsWait => NoLateBegin')
  <2>1. armed' => owner' = Closed
    BY DEF Transcribe, LoadFor, LoadFails, ResetIdleTimer, ResetStream, engineVars, IInv,
           TimerOnlyWithoutStream
  <2>2. late' \subseteq late \cup {<<r, "transcribe">>}
    BY DEF Transcribe
  <2> QED
    BY <2>1, <2>2 DEF IInv, NoLateBegin
<1>6. Recorded(r)'
  BY <1>1, <1>2, <1>3 DEF IInv, Types, Recorded
<1>7. ASSUME ClientsWait PROVE Truthful(r)'
  <2>1. manifest'[r] # <<>> => \A row \in manifest'[r][1] : RowMatches(row)
    BY <1>2, <1>7 DEF IInv, Truthful
  <2>2. CASE pc' = [pc EXCEPT ![r] = "release"]
    BY <2>1, <2>2 DEF IInv, Types, Truthful
  <2>3. CASE pc' = [pc EXCEPT ![r] = "flush"]
    <3>1. pc'[r] = "flush" /\ clip'[r] = <<<<r, 1>>>>
          /\ text'[r] = [of |-> <<<<r, 1>>>>, ends |-> {}]
      BY <1>3, <2>3 DEF IInv, Types
    <3>2. Own(r, 1) = <<<<r, 1>>>>
      BY DEF Own
    <3>3. Says(text'[r], r, 1)
      BY <3>1, <3>2 DEF Says
    <3>4. Truth(r, 1)'
      BY <3>1, <3>2, <3>3 DEF Truth, Says
    <3> QED
      BY <2>1, <3>1, <3>4 DEF Truthful
  <2> QED
    BY <1>3, <2>2, <2>3
<1> QED
  BY <1>1, <1>4, <1>5, <1>6, <1>7, HandlerMove

-----------------------------------------------------------------------------
(* The handlers, from the end of a session on: clip and text stay as they are *)

\* A step that writes no row keeps a request true.
LEMMA StaysTrue ==
  ASSUME NEW r \in Requests, Truthful(r),
         pc[r] \in {"flush", "session", "lines", "append", "close", "release"},
         pc'[r] \in {"session", "lines", "append", "close", "release"},
         pc[r] \in {"close", "release"} => pc'[r] \in {"close", "release"},
         UNCHANGED <<clip, text, isFinal, manifest>>,
         capture'[r] = capture[r] \/ capture'[r] = "done"
  PROVE  Truthful(r)'
<1>1. \A n \in Nat : Truth(r, n) => Truth(r, n)'
  BY DEF Truth, Says
<1> QED
  BY <1>1 DEF Truthful

LEMMA FlushStep ==
  ASSUME IInv, NEW r \in Requests,
         Flush(r) \/ WriteFails(r) \/ WriteSession(r) \/ WriteLine(r) \/ LinesWritten(r) \/ Close(r)
  PROVE  IInv'
<1> USE DEF Goto
<1>1. /\ pc[r] \in {"flush", "session", "lines", "append", "close"}
      /\ lease = r /\ lease' = r
  BY DEF Flush, WriteFails, WriteSession, WriteLine, LinesWritten, Close, IInv, LeaseHeld
<1>2. UNCHANGED <<frames, clip, text, isFinal, streamClosed, manifest>>
  BY DEF Flush, WriteFails, WriteSession, WriteLine, LinesWritten, Close, corpusVars
<1>3. PICK label \in {"session", "lines", "append", "close", "release"} :
        /\ pc' = [pc EXCEPT ![r] = label]
        /\ pc[r] = "close" => label = "release"
  <2>1. pc = [pc EXCEPT ![r] = pc[r]]
    BY DEF IInv, Types
  <2> QED
    BY <1>1, <2>1
    DEF Flush, WriteFails, WriteSession, WriteLine, LinesWritten, Close, After, IInv, Types
<1>4. capture' = capture \/ capture' = [capture EXCEPT ![r] = "done"]
  BY DEF Flush, WriteFails, WriteSession, WriteLine, LinesWritten, Close
<1>5. DOMAIN todo' = Requests /\ files \subseteq files'
      /\ \A q \in Requests : q # r => (q \in lost' <=> q \in lost)
  BY DEF Flush, WriteFails, WriteSession, WriteLine, LinesWritten, Close, WriteFile, corpusVars,
         IInv, Types
<1>6. Types' /\ \A q \in Requests : q # r => Untouched(q)
  BY <1>2, <1>3, <1>4, <1>5 DEF IInv, Types, Untouched
<1>7. (armed' => owner' = Closed) /\ (ClientsWait => NoLateBegin')
  <2>1. armed' => owner' = Closed
    BY DEF Flush, WriteFails, WriteSession, WriteLine, LinesWritten, Close, Reset, ResetStream,
           ResetIdleTimer, engineVars, IInv, TimerOnlyWithoutStream
  <2>2. late' \subseteq late \cup {<<r, "reset">>}
    BY DEF Flush, WriteFails, WriteSession, WriteLine, LinesWritten, Close
  <2> QED
    BY <2>1, <2>2 DEF IInv, NoLateBegin
<1>8. pc'[r] = label /\ (capture'[r] = capture[r] \/ capture'[r] = "done")
  BY <1>3, <1>4 DEF IInv, Types
<1>9. Recorded(r)'
  <2>1. Recorded(r) /\ Lines(r)' = Lines(r)
    BY <1>2 DEF IInv, Lines
  <2>2. CASE Flush(r)
    BY <2>1, <2>2 DEF Flush, After, WorthRecording, corpusVars, IInv, Types, Recorded
  <2>3. CASE WriteFails(r)
    BY <2>1, <2>3 DEF WriteFails, After, IInv, Types, Recorded
  <2>4. CASE WriteSession(r)
    <3>1. todo'[r] = Lines(r) /\ <<r, 0>> \in files'
      BY <2>4 DEF WriteSession, WriteFile, Lines, IInv, Types
    <3> QED
      BY <1>5, <2>1, <2>4, <3>1 DEF WriteSession, WriteFile, IInv, Types, Recorded
  <2>5. CASE WriteLine(r)
    <3>1. PICK e : todo' = [todo EXCEPT ![r] = @ \ {e}] /\ files' = files \cup {<<r, e>>}
      BY <2>5 DEF WriteLine, WriteFile
    <3>2. \A x : x \in todo[r] => x \in todo'[r] \/ <<r, x>> \in files'
      BY <3>1 DEF IInv, Types
    <3> QED
      BY <1>5, <2>1, <2>5, <3>2 DEF WriteLine, WriteFile, Recorded
  <2>6. CASE LinesWritten(r)
    BY <2>1, <2>6 DEF LinesWritten, corpusVars, IInv, Types, Recorded
  <2>7. CASE Close(r)
    BY <2>1, <2>7 DEF Close, corpusVars, IInv, Types, Recorded
  <2> QED
    BY <2>2, <2>3, <2>4, <2>5, <2>6, <2>7
<1>10. ASSUME ClientsWait PROVE Truthful(r)'
  <2>1. Truthful(r)
    BY <1>10 DEF IInv
  <2> QED
    BY <1>1, <1>2, <1>3, <1>8, <2>1, StaysTrue
<1> QED
  BY <1>1, <1>6, <1>7, <1>9, <1>10, HandlerMove

\* The one step that adds rows.
LEMMA AppendStep == ASSUME IInv, NEW r \in Requests, AppendRows(r) PROVE IInv'
<1> USE DEF Goto
<1>1. pc[r] = "append" /\ lease = r /\ lease' = r
  BY DEF AppendRows, IInv, LeaseHeld
<1>2. UNCHANGED <<frames, clip, text, todo, isFinal, streamClosed, engineVars, late, files, lost>>
      /\ capture' = [capture EXCEPT ![r] = "done"]
  BY DEF AppendRows
<1>3. pc' = [pc EXCEPT ![r] = After(r)] /\ After(r) \in {"close", "release"}
  BY DEF AppendRows, After
<1>4. manifest' = [manifest EXCEPT ![r] = <<Batch(r)>>]
  <2>1. manifest[r] = <<>>
    BY <1>1 DEF IInv, Recorded
  <2>2. Append(<<>>, Batch(r)) = <<Batch(r)>>
    <3>1. <<>> \in Seq({Batch(r)})
      OBVIOUS
    <3> QED
      BY <3>1
  <2>3. manifest' = [manifest EXCEPT ![r] = Append(manifest[r], Batch(r))]
    BY DEF AppendRows
  <2> QED
    BY <2>1, <2>2, <2>3
<1>5. Types' /\ \A q \in Requests : q # r => Untouched(q)
  BY <1>2, <1>3, <1>4 DEF IInv, Types, Untouched
<1>6. (armed' => owner' = Closed) /\ (ClientsWait => NoLateBegin')
  BY <1>2 DEF engineVars, IInv, TimerOnlyWithoutStream, NoLateBegin
<1>7. /\ pc'[r] \in {"close", "release"} /\ capture'[r] = "done"
      /\ manifest'[r] = <<Batch(r)>> /\ manifest'[r][1] = Batch(r)
  BY <1>2, <1>3, <1>4 DEF IInv, Types
<1>8. Recorded(r)'
  <2>1. <<r, 0>> \in files /\ \A e \in Lines(r) : <<r, e>> \in files
    BY <1>1 DEF IInv, Recorded
  <2>2. \A row \in Batch(r) : row.file = 0 \/ row.file \in Lines(r)
    BY DEF Batch, Lines
  <2> HIDE DEF Goto
  <2>3. \A row \in Batch(r) : <<r, row.file>> \in files'
    BY <1>2, <2>1, <2>2
  <2> QED
    BY <1>7, <2>3 DEF Recorded
<1>9. ASSUME ClientsWait PROVE Truthful(r)'
  <2>1. PICK n \in Nat : Truth(r, n)
    BY <1>1, <1>9 DEF IInv, Truthful
  <2>2. capture[r] = "on"
    BY <1>1 DEF IInv, Recorded
  <2>3. \A row \in Batch(r) : RowMatches(row)
    BY <2>1, <2>2, TrueRows
  <2> QED
    BY <1>7, <2>3 DEF Truthful
<1> QED
  BY <1>1, <1>5, <1>6, <1>8, <1>9, HandlerMove

LEMMA ReleaseStep == ASSUME IInv, NEW r \in Requests, Release(r) PROVE IInv'
<1> USE DEF Goto
<1>1. pc[r] = "release" /\ lease = r /\ pc' = [pc EXCEPT ![r] = "over"]
  BY DEF Release, IInv, LeaseHeld
<1>2. UNCHANGED <<clip, capture, engineVars, late, files, manifest, lost>>
      /\ frames' = [frames EXCEPT ![r] = 0] /\ text' = [text EXCEPT ![r] = NoText]
      /\ todo' = [todo EXCEPT ![r] = {}] /\ isFinal' = isFinal \ {r}
  BY DEF Release, corpusVars
<1>3. Types' /\ \A q \in Requests : q # r => Untouched(q)
  BY <1>1, <1>2 DEF IInv, Types, Untouched
<1>4. (armed' => owner' = Closed) /\ (ClientsWait => NoLateBegin')
  BY <1>2 DEF engineVars, IInv, TimerOnlyWithoutStream, NoLateBegin
<1>5. pc'[r] = "over"
  BY <1>1 DEF IInv, Types
<1>6. Recorded(r)'
  BY <1>1, <1>2, <1>5 DEF IInv, Recorded
<1>7. ASSUME ClientsWait PROVE Truthful(r)'
  BY <1>2, <1>5, <1>7 DEF IInv, Truthful
<1> QED
  BY <1>1, <1>3, <1>4, <1>5, <1>6, <1>7, HandlerMove

-----------------------------------------------------------------------------
LEMMA NextInv == IInv /\ [Next]_vars => IInv'
<1> SUFFICES ASSUME IInv, [Next]_vars PROVE IInv'
  OBVIOUS
<1>1. CASE UNCHANGED vars
  <2>1. UNCHANGED <<handlerVars, corpusVars, late, owner, heard, snapshot, armed>>
    BY <1>1 DEF vars, engineVars
  <2> QED
    BY <2>1, EngineMove DEF IInv, TimerOnlyWithoutStream
<1>2. ASSUME NEW r \in Requests, Handle(r) PROVE IInv'
  BY <1>2, RunGateStep, OpenStep, FrameStep, CommitStep, TranscribeStep, FlushStep, AppendStep,
     ReleaseStep
  DEF Handle
<1>3. CASE LateCalls \/ TimerFires \/ Unload
  BY <1>3, EngineStep
<1> QED
  BY <1>1, <1>2, <1>3 DEF Next

-----------------------------------------------------------------------------
(* Types.  A clip is bounded by the frames its handler has read, and lines are to be
   written only between the session's file and its rows: what the types of the other
   variables take for granted. *)

EngineFits ==
  /\ owner \in Sessions \cup {Closed} /\ heard \in Seq(Frames) /\ IsText(snapshot)
  /\ model \in {Language[r] : r \in Requests} \cup {Unloaded}
  /\ armed \in BOOLEAN /\ fired \in 0..MaxFired

RequestFits(r) ==
  /\ IsText(text[r]) /\ todo[r] \subseteq Lines(r)
  /\ clip[r] \in Seq(Frames) /\ Len(clip[r]) <= MaxFrames + 1
  /\ pc[r] \in {"open", "loop", "close"} => r \in Sessions
  /\ pc[r] = "transcribe" => r \in Uploads
  /\ pc[r] \in {"new", "open", "transcribe"} => clip[r] = <<>>
  /\ pc[r] = "loop" => Len(clip[r]) <= frames[r]
  /\ pc[r] \in {"new", "open", "loop", "transcribe", "flush", "session"} => todo[r] = {}

OthersFit ==
  /\ lease \in Requests \cup {Nobody}
  /\ frames \in [Requests -> 0..MaxFrames] /\ streamClosed \subseteq Sessions
  /\ isFinal \subseteq Requests
  /\ late \subseteq (Sessions \X {"begin", "reset"}) \cup (Uploads \X {"transcribe"})
  /\ files \subseteq Requests \X (0..MaxFrames + 1) /\ lost \subseteq Requests

TypeInv == Types /\ EngineFits /\ OthersFit /\ \A r \in Requests : RequestFits(r)

LEMMA TypesFit == TypeInv => TypeOK
  BY DEF Lines, TypeInv, Types, EngineFits, OthersFit, RequestFits, TypeOK

LEMMA NoTextIsText == IsText(NoText) /\ NoText.ends = {} /\ <<>> \in Seq(Frames)
  BY DEF IsText, NoText

LEMMA InitFits == Init => TypeInv
<1> SUFFICES ASSUME Init PROVE TypeInv
  OBVIOUS
<1> USE BoundsAssumption DEF Init
<1>1. Types
  BY DEF Types
<1>2. EngineFits
  <2>1. fired \in 0..MaxFired
    OBVIOUS
  <2>2. IsText(snapshot) /\ heard \in Seq(Frames) /\ armed \in BOOLEAN
    BY NoTextIsText
  <2>3. model \in {Language[r] : r \in Requests} \cup {Unloaded}
    OBVIOUS
  <2> QED
    BY <2>1, <2>2, <2>3 DEF EngineFits
<1>3. OthersFit
  BY DEF OthersFit
<1>4. ASSUME NEW r \in Requests PROVE RequestFits(r)
  <2>1. text[r] = NoText /\ clip[r] = <<>> /\ todo[r] = {} /\ pc[r] = "new" /\ frames[r] = 0
    OBVIOUS
  <2>2. Len(clip[r]) = 0
    BY <2>1
  <2> QED
    BY <2>1, <2>2, NoTextIsText DEF RequestFits
<1> QED
  BY <1>1, <1>2, <1>3, <1>4 DEF TypeInv

\* The Engine's methods keep its state in shape, whoever calls them.
LEMMA EngineFitsStep ==
  ASSUME EngineFits, NEW r \in Requests,
         \/ UNCHANGED engineVars
         \/ r \in Sessions /\ Begin(r)
         \/ BeginFails(r) \/ LoadFor(r) \/ LoadFails(r) \/ Reset
  PROVE  EngineFits'
<1> USE DEF EngineFits, ResetStream, CancelIdleTimer, ResetIdleTimer
<1>1. CASE UNCHANGED engineVars
  BY <1>1 DEF engineVars, IsText
<1>2. ASSUME r \in Sessions, Begin(r) PROVE EngineFits'
  BY <1>2, NoTextIsText DEF Begin, IsText
<1>3. CASE BeginFails(r)
  BY <1>3, NoTextIsText DEF BeginFails, IsText
<1>4. CASE LoadFor(r)
  <2>1. armed' \in BOOLEAN /\ model' = Language[r] /\ fired' = fired
    BY <1>4, BoundsAssumption DEF LoadFor
  <2>2. owner' \in Sessions \cup {Closed} /\ heard' \in Seq(Frames) /\ IsText(snapshot)'
    BY <1>4, NoTextIsText DEF LoadFor, IsText
  <2> QED
    BY <2>1, <2>2
<1>5. CASE LoadFails(r)
  <2>1. armed' \in BOOLEAN /\ model' = Unloaded /\ fired' = fired
    BY <1>5 DEF LoadFails
  <2>2. owner' \in Sessions \cup {Closed} /\ heard' \in Seq(Frames) /\ IsText(snapshot)'
    BY <1>5, NoTextIsText DEF LoadFails, IsText
  <2> QED
    BY <2>1, <2>2
<1>6. CASE Reset
  <2>1. armed' \in BOOLEAN /\ model' = model /\ fired' = fired
    BY <1>6, BoundsAssumption DEF Reset
  <2>2. owner' \in Sessions \cup {Closed} /\ heard' \in Seq(Frames) /\ IsText(snapshot)'
    BY <1>6, NoTextIsText DEF Reset, IsText
  <2> QED
    BY <2>1, <2>2
<1> QED
  BY <1>1, <1>2, <1>3, <1>4, <1>5, <1>6

LEMMA FeedFits ==
  ASSUME EngineFits, NEW r \in Requests, frames'[r] \in 1..MaxFrames, Feed(r)
  PROVE  EngineFits'
<1> USE DEF Feed, EngineFits
<1>1. <<r, frames'[r]>> \in Frames
  BY BoundsAssumption DEF Frames
<1>2. heard' \in Seq(Frames)
  BY <1>1
<1>3. IsText(snapshot)'
  <2>1. CASE UNCHANGED snapshot
    BY <2>1 DEF IsText
  <2>2. ASSUME NEW ends \in SUBSET (1..Len(heard')), snapshot' = [of |-> heard', ends |-> ends]
        PROVE  IsText(snapshot)'
    BY <1>2, <2>2 DEF IsText
  <2> QED
    BY <2>1, <2>2
<1> QED
  BY <1>2, <1>3

\* The Engine by itself.
LEMMA EngineTypes ==
  ASSUME TypeInv, LateCalls \/ TimerFires \/ Unload
  PROVE  EngineFits' /\ UNCHANGED <<handlerVars, corpusVars>> /\ late' \subseteq late
<1> USE DEF TypeInv
<1>1. CASE TimerFires
  <2>1. fired' \in 0..MaxFired
    BY <1>1, BoundsAssumption DEF TimerFires, EngineFits
  <2>2. armed' = FALSE /\ UNCHANGED <<handlerVars, owner, heard, snapshot, model, late, corpusVars>>
    BY <1>1 DEF TimerFires
  <2> QED
    BY <2>1, <2>2 DEF EngineFits, IsText
<1>2. CASE Unload
  <2>1. fired' \in 0..MaxFired
    BY <1>2, BoundsAssumption DEF Unload, EngineFits
  <2>2. armed' = FALSE /\ model' = Unloaded
    BY <1>2 DEF Unload, CancelIdleTimer
  <2>3. owner' = Closed /\ heard' = <<>> /\ snapshot' = NoText
    BY <1>2 DEF Unload, ResetStream
  <2> QED
    BY <1>2, <2>1, <2>2, <2>3, NoTextIsText DEF Unload, EngineFits, IsText
<1>3. ASSUME NEW r \in Requests, NEW call \in {"begin", "reset", "transcribe"}, LateCall(r, call)
      PROVE  EngineFits' /\ UNCHANGED <<handlerVars, corpusVars>> /\ late' \subseteq late
  <2>1. <<r, call>> \in late
    BY <1>3 DEF LateCall
  <2>2. call = "begin" => r \in Sessions
    BY <2>1 DEF OthersFit
  <2>3. EngineFits'
    BY <1>3, <2>2, EngineFitsStep DEF LateCall
  <2> QED
    BY <1>3, <2>3 DEF LateCall
<1> QED
  BY <1>1, <1>2, <1>3 DEF LateCalls

\* A request whose handler did not move keeps its shape.
LEMMA StillFits ==
  ASSUME NEW q \in Requests, RequestFits(q), pc'[q] = pc[q], frames'[q] = frames[q],
         clip'[q] = clip[q], text'[q] = text[q], todo'[q] = todo[q]
  PROVE  RequestFits(q)'
  BY DEF RequestFits, IsText, Lines

\* For a step of a handler it is enough to look at its own request.
LEMMA MoveFits ==
  ASSUME TypeInv, Types', EngineFits', OthersFit', NEW r \in Requests, RequestFits(r)',
         \A q \in Requests : q # r =>
            /\ pc'[q] = pc[q] /\ frames'[q] = frames[q] /\ clip'[q] = clip[q]
            /\ text'[q] = text[q] /\ todo'[q] = todo[q]
  PROVE  TypeInv'
<1>1. ASSUME NEW q \in Requests, q # r PROVE RequestFits(q)'
  BY <1>1, StillFits DEF TypeInv
<1> QED
  BY <1>1 DEF TypeInv

\* A handler that only goes on: from where to where.
LEMMA GoesOn ==
  ASSUME TypeInv, Types', NEW r \in Requests, NEW v, pc' = [pc EXCEPT ![r] = v],
         UNCHANGED <<frames, clip, text, todo>>, EngineFits', OthersFit',
         \/ pc[r] = "new" /\ v = IF r \in Sessions THEN "open" ELSE "transcribe"
         \/ pc[r] = "open" /\ v = "loop"
         \/ pc[r] = "loop" /\ v = "flush"
         \/ pc[r] = "flush" /\ v = "session"
         \/ v \in {"append", "release"}
         \/ v = "close" /\ r \in Sessions
  PROVE  TypeInv'
<1>1. pc'[r] = v /\ \A q \in Requests : q # r => pc'[q] = pc[q]
  BY DEF TypeInv, Types
<1>2. RequestFits(r)
  BY DEF TypeInv
<1>3. IsText(text[r])' /\ todo'[r] \subseteq Lines(r)'
  BY <1>2 DEF RequestFits, IsText, Lines
<1>4. clip'[r] \in Seq(Frames) /\ Len(clip'[r]) <= MaxFrames + 1
  BY <1>2 DEF RequestFits
<1>5. /\ v \in {"open", "loop", "close"} => r \in Sessions
      /\ v = "transcribe" => r \in Uploads
      /\ v \in {"new", "open", "transcribe"} => clip[r] = <<>>
      /\ v \in {"new", "open", "loop", "transcribe", "flush", "session"} => todo[r] = {}
  BY <1>2 DEF RequestFits, Requests
<1>6. v = "loop" => Len(clip[r]) <= frames[r]
  <2>1. v = "loop" => clip[r] = <<>> /\ frames[r] \in Nat
    BY <1>2, BoundsAssumption DEF RequestFits, TypeInv, OthersFit
  <2> QED
    BY <2>1
<1>7. RequestFits(r)'
  BY <1>1, <1>3, <1>4, <1>5, <1>6 DEF RequestFits
<1> QED
  BY <1>1, <1>7, MoveFits

LEMMA GoingOnFits ==
  ASSUME TypeInv, Types', NEW r \in Requests,
         \/ RunGate(r) \/ OpenLiveStream(r) \/ ClientGone(r) \/ Flush(r)
         \/ WriteFails(r) \/ LinesWritten(r) \/ AppendRows(r) \/ Close(r)
  PROVE  TypeInv'
<1> USE DEF Goto, After
<1>1. CASE RunGate(r)
  <2>1. EngineFits' /\ OthersFit'
    BY <1>1, EngineFitsStep DEF RunGate, TakeLease, corpusVars, TypeInv, OthersFit
  <2> QED
    BY <1>1, <2>1, GoesOn DEF RunGate
<1>2. CASE OpenLiveStream(r)
  <2>1. pc[r] = "open" /\ r \in Sessions
    BY <1>2 DEF OpenLiveStream, TypeInv, RequestFits
  <2>2. EngineFits'
    BY <1>2, <2>1, EngineFitsStep DEF OpenLiveStream, TypeInv
  <2>3. OthersFit'
    <3>1. late' = late \/ late' = late \cup {<<r, "begin">>}
      BY <1>2 DEF OpenLiveStream
    <3> QED
      BY <1>2, <2>1, <3>1 DEF OpenLiveStream, corpusVars, TypeInv, OthersFit
  <2>4. pc' = [pc EXCEPT ![r] = "loop"] \/ pc' = [pc EXCEPT ![r] = "release"]
    BY <1>2 DEF OpenLiveStream
  <2>5. UNCHANGED <<frames, clip, text, todo>>
    BY <1>2 DEF OpenLiveStream
  <2> QED
    BY <2>1, <2>2, <2>3, <2>4, <2>5, GoesOn
<1>3. CASE ClientGone(r) \/ LinesWritten(r)
  <2>1. EngineFits' /\ OthersFit'
    BY <1>3, EngineFitsStep DEF ClientGone, LinesWritten, corpusVars, TypeInv, OthersFit
  <2> QED
    BY <1>3, <2>1, GoesOn DEF ClientGone, LinesWritten
<1>4. CASE Flush(r)
  <2>1. EngineFits' /\ OthersFit'
    BY <1>4, EngineFitsStep DEF Flush, corpusVars, TypeInv, OthersFit
  <2> QED
    BY <1>4, <2>1, GoesOn DEF Flush
<1>5. CASE WriteFails(r) \/ AppendRows(r)
  <2>1. EngineFits' /\ OthersFit'
    BY <1>5, EngineFitsStep DEF WriteFails, AppendRows, TypeInv, OthersFit
  <2>2. UNCHANGED <<frames, clip, text, todo>>
    BY <1>5 DEF WriteFails, AppendRows
  <2> QED
    BY <1>5, <2>1, <2>2, GoesOn DEF WriteFails, AppendRows
<1>6. CASE Close(r)
  <2>1. r \in Sessions
    BY <1>6 DEF Close, TypeInv, RequestFits
  <2>2. EngineFits'
    BY <1>6, EngineFitsStep DEF Close, TypeInv
  <2>3. OthersFit'
    <3>1. late' = late \/ late' = late \cup {<<r, "reset">>}
      BY <1>6 DEF Close
    <3> QED
      BY <1>6, <2>1, <3>1 DEF Close, corpusVars, TypeInv, OthersFit
  <2> QED
    BY <1>6, <2>2, <2>3, GoesOn DEF Close
<1> QED
  BY <1>1, <1>2, <1>3, <1>4, <1>5, <1>6

LEMMA FrameFits == ASSUME TypeInv, Types', NEW r \in Requests, Frame(r) PROVE TypeInv'
<1>1. /\ pc[r] = "loop" /\ r \in Sessions /\ frames[r] < MaxFrames
      /\ frames' = [frames EXCEPT ![r] = @ + 1] /\ UNCHANGED <<lease, todo, isFinal, streamClosed>>
      /\ UNCHANGED <<late, files, manifest, lost>> /\ RequestFits(r)
  BY DEF Frame, TypeInv, RequestFits, corpusVars
<1>2. frames' \in [Requests -> 0..MaxFrames] /\ frames'[r] = frames[r] + 1
      /\ frames'[r] \in 1..MaxFrames
  BY <1>1, BoundsAssumption DEF TypeInv, OthersFit
<1>3. EngineFits'
  BY <1>2, EngineFitsStep, FeedFits DEF Frame, TypeInv
<1>4. OthersFit'
  BY <1>1, <1>2 DEF TypeInv, OthersFit
<1>5. clip'[r] \in Seq(Frames) /\ Len(clip'[r]) <= frames'[r]
  <2>1. clip[r] \in Seq(Frames) /\ Len(clip[r]) <= frames[r] /\ frames[r] \in Nat
    BY <1>1, BoundsAssumption DEF TypeInv, OthersFit, RequestFits
  <2>2. <<r, frames'[r]>> \in Frames
    BY <1>2, BoundsAssumption DEF Frames
  <2>3. clip'[r] = Append(clip[r], <<r, frames'[r]>>) \/ clip'[r] = <<>>
    BY DEF Frame, Captured, TypeInv, Types
  <2>4. CASE clip'[r] = Append(clip[r], <<r, frames'[r]>>)
    BY <1>2, <2>1, <2>2, <2>4
  <2>5. CASE clip'[r] = <<>>
    BY <1>2, <2>1, <2>5
  <2> QED
    BY <2>3, <2>4, <2>5
<1>6. IsText(text'[r]) /\ todo'[r] = {}
  <2>1. text' = text \/ text' = [text EXCEPT ![r] = snapshot']
    BY DEF Frame
  <2>2. IsText(text[r]) /\ todo[r] = {} /\ IsText(snapshot')
    BY <1>1, <1>3 DEF RequestFits, EngineFits, IsText
  <2> QED
    BY <1>1, <2>1, <2>2 DEF TypeInv, Types
<1>7. pc'[r] \in {"loop", "flush"}
  BY <1>1 DEF Frame, Goto, TypeInv, Types
<1>8. Len(clip'[r]) <= MaxFrames + 1
  <2>1. Len(clip'[r]) \in Nat
    BY <1>5
  <2> QED
    BY <1>2, <1>5, <2>1, BoundsAssumption
<1>9. RequestFits(r)'
  BY <1>1, <1>5, <1>6, <1>7, <1>8 DEF RequestFits, IsText
<1>10. ASSUME NEW q \in Requests, q # r
       PROVE  /\ pc'[q] = pc[q] /\ frames'[q] = frames[q] /\ clip'[q] = clip[q]
              /\ text'[q] = text[q] /\ todo'[q] = todo[q]
  BY <1>1, <1>10 DEF Frame, Goto, Captured, TypeInv, Types
<1> QED
  BY <1>3, <1>4, <1>9, <1>10, MoveFits

LEMMA CommitFits == ASSUME TypeInv, Types', NEW r \in Requests, Commit(r) PROVE TypeInv'
<1>1. /\ pc[r] = "loop" /\ r \in Sessions /\ pc' = [pc EXCEPT ![r] = "flush"]
      /\ UNCHANGED <<lease, frames, clip, capture, todo, late, corpusVars>> /\ RequestFits(r)
  BY DEF Commit, Goto, TypeInv, RequestFits
<1>2. EngineFits'
  BY EngineFitsStep DEF Commit, TypeInv
<1>3. OthersFit'
  <2>1. streamClosed' \subseteq Sessions /\ isFinal' \subseteq Requests
    BY <1>1 DEF Commit, ClosedOnError, TypeInv, OthersFit
  <2> QED
    BY <1>1, <2>1 DEF corpusVars, TypeInv, OthersFit
<1>4. IsText(text'[r])
  <2>1. CASE UNCHANGED text
    BY <1>1, <2>1 DEF RequestFits
  <2>2. ASSUME NEW ends \in SUBSET (1..Len(heard)),
               text' = [text EXCEPT ![r] = [of |-> heard, ends |-> ends]]
        PROVE  IsText(text'[r])
    BY <2>2 DEF TypeInv, Types, EngineFits, IsText
  <2> QED
    BY <2>1, <2>2 DEF Commit
<1>5. RequestFits(r)'
  <2>1. pc'[r] = "flush" /\ todo'[r] = {} /\ clip'[r] = clip[r]
    BY <1>1 DEF TypeInv, Types, RequestFits
  <2>2. clip'[r] \in Seq(Frames) /\ Len(clip'[r]) <= MaxFrames + 1
    BY <1>1, <2>1 DEF RequestFits
  <2> QED
    BY <1>1, <1>4, <2>1, <2>2 DEF RequestFits, IsText
<1>6. ASSUME NEW q \in Requests, q # r
      PROVE  /\ pc'[q] = pc[q] /\ frames'[q] = frames[q] /\ clip'[q] = clip[q]
             /\ text'[q] = text[q] /\ todo'[q] = todo[q]
  BY <1>1, <1>6 DEF Commit, TypeInv, Types
<1> QED
  BY <1>2, <1>3, <1>5, <1>6, MoveFits

LEMMA TranscribeFits == ASSUME TypeInv, Types', NEW r \in Requests, Transcribe(r) PROVE TypeInv'
<1>1. /\ pc[r] = "transcribe" /\ r \in Uploads /\ RequestFits(r) /\ todo[r] = {}
      /\ UNCHANGED <<lease, frames, capture, todo, streamClosed, corpusVars>>
  BY DEF Transcribe, TypeInv, RequestFits
<1>2. EngineFits'
  BY EngineFitsStep DEF Transcribe, TypeInv
<1>3. OthersFit'
  <2>1. late' = late \/ late' = late \cup {<<r, "transcribe">>}
    BY DEF Transcribe
  <2>2. isFinal' \subseteq Requests
    BY DEF Transcribe, TypeInv, OthersFit
  <2> QED
    BY <1>1, <2>1, <2>2 DEF corpusVars, TypeInv, OthersFit
<1>4. pc'[r] \in {"flush", "release"} /\ \A q \in Requests : q # r => pc'[q] = pc[q]
  BY DEF Transcribe, Goto, TypeInv, Types
<1>5. \/ UNCHANGED <<clip, text>>
      \/ /\ clip' = [clip EXCEPT ![r] = <<<<r, 1>>>>]
         /\ text' = [text EXCEPT ![r] = [of |-> <<<<r, 1>>>>, ends |-> {}]]
  BY DEF Transcribe
<1>6. IsText(text'[r]) /\ clip'[r] \in Seq(Frames) /\ Len(clip'[r]) <= MaxFrames + 1
  <2>1. <<r, 1>> \in Frames
    BY BoundsAssumption DEF Frames
  <2>2. <<<<r, 1>>>> \in Seq(Frames) /\ Len(<<<<r, 1>>>>) = 1
    BY <2>1
  <2>3. CASE UNCHANGED <<clip, text>>
    BY <1>1, <2>3 DEF RequestFits
  <2>4. CASE /\ clip' = [clip EXCEPT ![r] = <<<<r, 1>>>>]
             /\ text' = [text EXCEPT ![r] = [of |-> <<<<r, 1>>>>, ends |-> {}]]
    <3>1. clip'[r] = <<<<r, 1>>>> /\ text'[r] = [of |-> <<<<r, 1>>>>, ends |-> {}]
      BY <2>4 DEF TypeInv, Types
    <3>2. 1 <= MaxFrames + 1
      BY BoundsAssumption
    <3> QED
      BY <2>2, <3>1, <3>2 DEF IsText
  <2> QED
    BY <1>5, <2>3, <2>4
<1>7. RequestFits(r)'
  BY <1>1, <1>4, <1>6 DEF RequestFits, IsText
<1>8. \A q \in Requests : q # r =>
        /\ pc'[q] = pc[q] /\ frames'[q] = frames[q] /\ clip'[q] = clip[q]
        /\ text'[q] = text[q] /\ todo'[q] = todo[q]
  BY <1>1, <1>4, <1>5 DEF TypeInv, Types
<1> QED
  BY <1>2, <1>3, <1>7, <1>8, MoveFits

\* A file is named by where its line ends, within the clip.
LEMMA WriteFits ==
  ASSUME TypeInv, Types', NEW r \in Requests, WriteSession(r) \/ WriteLine(r)
  PROVE  TypeInv'
<1>1. /\ UNCHANGED <<lease, frames, clip, text, isFinal, streamClosed, engineVars, late, lost>>
      /\ RequestFits(r)
  BY DEF WriteSession, WriteLine, WriteFile, TypeInv
<1>2. EngineFits'
  BY <1>1, EngineFitsStep DEF TypeInv
<1>3. Lines(r)' = Lines(r) /\ todo[r] \subseteq Lines(r)
  BY <1>1 DEF Lines, RequestFits
<1>4. \A e \in Lines(r) : e \in 0..MaxFrames + 1
  <2>1. text[r].ends \subseteq 1..Len(text[r].of) /\ Len(clip[r]) \in Nat
        /\ Len(clip[r]) <= MaxFrames + 1
    BY <1>1 DEF RequestFits, IsText
  <2> QED
    BY <2>1, BoundsAssumption DEF Lines
<1>5. /\ todo'[r] \subseteq Lines(r) /\ pc'[r] = "lines"
      /\ \A q \in Requests : q # r => pc'[q] = pc[q] /\ todo'[q] = todo[q]
      /\ \E e \in 0..MaxFrames + 1 : files' = files \cup {<<r, e>>}
  <2>1. CASE WriteSession(r)
    <3>1. todo'[r] = Lines(r)
      BY <2>1 DEF WriteSession, TypeInv, Types, Lines
    <3>2. 0 \in 0..MaxFrames + 1
      BY BoundsAssumption
    <3> QED
      BY <2>1, <3>1, <3>2 DEF WriteSession, WriteFile, Goto, TypeInv, Types
  <2>2. CASE WriteLine(r)
    <3> DEFINE e == CHOOSE x \in todo[r] : \A y \in todo[r] : x <= y
    <3>1. todo' = [todo EXCEPT ![r] = @ \ {e}] /\ files' = files \cup {<<r, e>>}
          /\ pc' = pc /\ pc[r] = "lines" /\ todo[r] # {}
      BY <2>2 DEF WriteLine, WriteFile
    <3>2. e \in todo[r]
      <4>1. todo[r] \subseteq 1..Len(text[r].of) /\ Len(text[r].of) \in Nat
        BY <1>1, <1>3 DEF Lines, RequestFits, IsText
      <4> QED
        BY <3>1, <4>1, FirstOf
    <3> HIDE DEF e
    <3> QED
      BY <1>3, <1>4, <3>1, <3>2 DEF TypeInv, Types
  <2> QED
    BY <2>1, <2>2
<1>6. OthersFit'
  <2>1. files' \subseteq Requests \X (0..MaxFrames + 1)
    BY <1>5 DEF TypeInv, OthersFit
  <2> QED
    BY <1>1, <2>1 DEF TypeInv, OthersFit
<1>7. RequestFits(r)'
  BY <1>1, <1>3, <1>5 DEF RequestFits, IsText
<1> QED
  BY <1>1, <1>2, <1>5, <1>6, <1>7, MoveFits

LEMMA ReleaseFits == ASSUME TypeInv, Types', NEW r \in Requests, Release(r) PROVE TypeInv'
<1>1. /\ pc' = [pc EXCEPT ![r] = "over"] /\ lease' = Nobody
      /\ frames' = [frames EXCEPT ![r] = 0] /\ text' = [text EXCEPT ![r] = NoText]
      /\ todo' = [todo EXCEPT ![r] = {}]
      /\ isFinal' = isFinal \ {r} /\ streamClosed' = streamClosed \ {r}
      /\ UNCHANGED <<clip, engineVars, late, corpusVars>> /\ RequestFits(r)
  BY DEF Release, Goto, TypeInv
<1>2. EngineFits'
  BY <1>1, EngineFitsStep DEF TypeInv
<1>3. OthersFit'
  <2>1. frames' \in [Requests -> 0..MaxFrames]
    BY <1>1, BoundsAssumption DEF TypeInv, OthersFit
  <2> QED
    BY <1>1, <2>1 DEF corpusVars, TypeInv, OthersFit
<1>4. pc'[r] = "over" /\ text'[r] = NoText /\ todo'[r] = {} /\ clip'[r] = clip[r]
  BY <1>1 DEF TypeInv, Types
<1>5. RequestFits(r)'
  BY <1>1, <1>4, NoTextIsText DEF RequestFits, IsText
<1>6. \A q \in Requests : q # r =>
        /\ pc'[q] = pc[q] /\ frames'[q] = frames[q] /\ clip'[q] = clip[q]
        /\ text'[q] = text[q] /\ todo'[q] = todo[q]
  BY <1>1 DEF TypeInv, Types
<1> QED
  BY <1>2, <1>3, <1>5, <1>6, MoveFits

LEMMA NextFits == IInv /\ TypeInv /\ [Next]_vars => TypeInv'
<1> SUFFICES ASSUME IInv, TypeInv, [Next]_vars PROVE TypeInv'
  OBVIOUS
<1>1. Types'
  BY NextInv DEF IInv
<1>2. CASE UNCHANGED vars
  <2>1. \A r \in Requests : RequestFits(r)'
    BY <1>2, StillFits DEF vars, handlerVars, TypeInv
  <2>2. EngineFits' /\ OthersFit'
    BY <1>2 DEF vars, handlerVars, engineVars, corpusVars, TypeInv, EngineFits, OthersFit, IsText
  <2> QED
    BY <1>1, <2>1, <2>2 DEF TypeInv
<1>3. CASE LateCalls \/ TimerFires \/ Unload
  <2>1. EngineFits' /\ UNCHANGED <<handlerVars, corpusVars>> /\ late' \subseteq late
    BY <1>3, EngineTypes
  <2>2. \A r \in Requests : RequestFits(r)'
    BY <2>1, StillFits DEF handlerVars, TypeInv
  <2>3. OthersFit'
    BY <2>1 DEF handlerVars, corpusVars, TypeInv, OthersFit
  <2> QED
    BY <1>1, <2>1, <2>2, <2>3 DEF TypeInv
<1>4. ASSUME NEW r \in Requests, Handle(r) PROVE TypeInv'
  BY <1>1, <1>4, GoingOnFits, FrameFits, CommitFits, TranscribeFits, WriteFits, ReleaseFits
  DEF Handle
<1> QED
  BY <1>2, <1>3, <1>4 DEF Next

-----------------------------------------------------------------------------
(* The theorems *)

(* Every reachable state satisfies the strengthened invariant: what has been kept of
   each request, and what its stream has heard, by the place of its handler. *)
THEOREM InductiveInvariant == Spec => []IInv
<1> QED
  BY InitInv, NextInv, PTL DEF Spec

(* For any requests, frames and limits, every variable has its type: no session has
   more frames than were read, what is late is what a caller of that kind can leave
   behind, and files are named by lines within their session's audio. *)
THEOREM TypeCorrect == Spec => []TypeOK
<1>1. Init => TypeInv
  BY InitFits
<1>2. IInv /\ TypeInv /\ [Next]_vars => TypeInv'
  BY NextFits
<1>3. TypeInv => TypeOK
  BY TypesFit
<1> QED
  BY <1>1, <1>2, <1>3, InductiveInvariant, PTL DEF Spec

(* For any requests and any number of callbacks and late calls, the idle timer does
   not tick while a session is open (Engine.reset_idle_timer). *)
THEOREM TimerStopsForSessions == Spec => []TimerOnlyWithoutStream
<1>1. IInv => TimerOnlyWithoutStream
  BY DEF IInv
<1> QED
  BY <1>1, InductiveInvariant, PTL

\* The rows of a request are those of its one batch.
LEMMA RowsOfBatch ==
  ASSUME NEW r \in Requests, Recorded(r), NEW row \in Rows(r)
  PROVE  manifest[r] # <<>> /\ row \in manifest[r][1]
<1>1. manifest[r] # <<>> /\ manifest[r] = <<manifest[r][1]>>
  BY DEF Recorded, Rows
<1>2. PICK batch : manifest[r] = <<batch>>
  BY <1>1
<1>3. DOMAIN manifest[r] = {1} /\ manifest[r][1] = batch
  BY <1>2
<1>4. row \in UNION {manifest[r][i] : i \in DOMAIN manifest[r]}
  BY <1>1 DEF Rows
<1> QED
  BY <1>1, <1>3, <1>4

(* Wherever a write fails and whenever the server stops, the manifest names files
   that are there (sttcorpus: clips are written before rows). *)
THEOREM RowsAlwaysHaveFiles == Spec => []RowsHaveFiles
<1>1. IInv => RowsHaveFiles
  BY RowsOfBatch DEF IInv, Recorded, RowsHaveFiles
<1> QED
  BY <1>1, InductiveInvariant, PTL

(* For any sessions, limits and failing writes, audio is recorded exactly once,
   whichever way a handler ends (Session.Finish, RecordUpload). *)
THEOREM AudioIsRecordedOnce == Spec => []RecordedOnce
<1>1. IInv => RecordedOnce
  <2> SUFFICES ASSUME IInv, NEW r \in Requests
               PROVE  /\ Len(manifest[r]) <= 1
                      /\ pc[r] = "over" /\ clip[r] # <<>> /\ r \notin lost => manifest[r] # <<>>
    BY DEF RecordedOnce
  <2>1. Recorded(r)
    BY DEF IInv
  <2>2. Len(manifest[r]) <= 1
    <3>1. CASE manifest[r] = <<>>
      BY <3>1
    <3>2. CASE manifest[r] # <<>>
      <4>1. PICK batch : manifest[r] = <<batch>>
        BY <2>1, <3>2 DEF Recorded
      <4>2. Len(<<batch>>) = 1
        OBVIOUS
      <4> QED
        BY <4>1, <4>2
    <3> QED
      BY <3>1, <3>2
  <2> QED
    BY <2>1, <2>2 DEF Recorded
<1> QED
  BY <1>1, InductiveInvariant, PTL

(* If no client leaves while its session is being opened, the corpus agrees with
   itself for any requests, frames and limits: rows say what was heard in their
   audio, their files are there, and nothing is recorded twice. *)
THEOREM CorpusIsSound == Spec => [](ClientsWait => CorpusAgrees)
<1>1. IInv => (ClientsWait => TextsMatchClips)
  BY RowsOfBatch DEF IInv, Truthful, RowMatches, TextsMatchClips
<1> QED
  BY <1>1, InductiveInvariant, RowsAlwaysHaveFiles, AudioIsRecordedOnce, PTL DEF CorpusAgrees
=============================================================================
