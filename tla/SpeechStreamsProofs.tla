------------------------ MODULE SpeechStreamsProofs ------------------------
(***************************************************************************)
(* What holds of streams for any number of requests and chunks.  espeak's: *)
(* success means that all of the audio was collected and stored, however   *)
(* the two processes, the three goroutines that copy for them, the client  *)
(* and the handler end.  All of them: what is stored is what was sent, and *)
(* no error text follows audio, but for a caller who leaves.  Each request *)
(* has processes of its own, so that the invariants speak of one request   *)
(* at a time: IInv of espeak's pipes, RInv of the response on top of it.   *)
(***************************************************************************)
EXTENDS SpeechStreams, TLAPS

Types ==
  /\ kind \in [Requests -> Espeak \cup Queued]
  /\ pc \in [Requests -> {"new", "slot", "stream", "store", "wait", "giveup", "over"}]
  /\ buf \in [Requests -> Seq(Nat)] /\ stored \in [Requests -> Seq(Nat)]
  /\ job \in [Requests -> {"none", "queued", "running", "succeeded", "failed"}]
  /\ synth \in [Requests -> {"off", "open", "read", "returned"}]
  /\ error \in [Requests -> BOOLEAN] /\ feeding \in [Requests -> BOOLEAN]
  /\ source \in [Requests -> {"off", "on", "ended", "failed"}]
  /\ enc \in [Requests -> {"off", "on", "done", "quit"}]
  /\ copier \in [Requests -> {"off", "reading", "offering", "stopped", "returned"}]
  /\ made \in [Requests -> Nat] /\ copied \in [Requests -> Nat] /\ fed \in [Requests -> Nat]

Upto(n) == [i \in 1..n |-> i]

\* Before espeak is started.
Fresh(r) ==
  /\ source[r] = "off" /\ copier[r] = "off" /\ enc[r] = "off" /\ ~ feeding[r] /\ ~ error[r]
  /\ made[r] = 0 /\ copied[r] = 0 /\ fed[r] = 0 /\ buf[r] = <<>>

\* Where the handler is, what has become of the job, and what is in the store.
Handled(r) ==
  /\ pc[r] \notin {"wait", "giveup"}
  /\ pc[r] \in {"new", "slot"} => synth[r] = "off"
  /\ pc[r] \in {"new", "slot", "stream"} => stored[r] = NotStored
  /\ pc[r] = "store" => stored[r] = buf[r]
  /\ pc[r] = "store" \/ job[r] = "succeeded" => synth[r] = "returned" /\ ~ error[r]
  /\ job[r] \in {"succeeded", "failed"} => pc[r] = "over"
  /\ job[r] = "succeeded" => stored[r] # NotStored
  /\ job[r] = "failed" => stored[r] = NotStored

\* How far each of the goroutines has come.
Flowing(r) ==
  /\ synth[r] \in {"off", "open"} => Fresh(r)
  /\ copied[r] <= made[r] /\ (copier[r] = "offering" => copied[r] < made[r])
  /\ source[r] = "ended" => made[r] = Chunks
  /\ IF kind[r] = "encoded"
     THEN /\ buf[r] = Upto(Len(buf[r])) /\ Len(buf[r]) <= fed[r]
          /\ enc[r] \in {"on", "done"} => fed[r] = copied[r]
          /\ enc[r] = "done" => ~ feeding[r] /\ Len(buf[r]) = fed[r]
     ELSE buf[r] = Upto(copied[r]) /\ copier[r] # "offering" /\ enc[r] = "off"

\* What may be concluded when they have returned.
Returned(r) ==
  /\ copier[r] = "returned" =>
       source[r] \in {"ended", "failed"} /\ (~ error[r] => copied[r] = Chunks)
  /\ synth[r] = "returned" =>
       /\ copier[r] = "returned" /\ (kind[r] = "encoded" => enc[r] \in {"done", "quit"})
       /\ ~ error[r] => buf[r] = Upto(Chunks)

Whole(r) == kind[r] \in Espeak => Handled(r) /\ Flowing(r) /\ Returned(r)

IInv == Types /\ \A r \in Requests : Whole(r)

-----------------------------------------------------------------------------
(* Sequences *)

LEMMA NoneSoFar == Upto(0) = <<>>
  BY DEF Upto

LEMMA OneMore ==
  ASSUME NEW n \in Nat
  PROVE  Append(Upto(n), n + 1) = Upto(n + 1)
<1>1. Upto(n) \in Seq(Nat) /\ Len(Upto(n)) = n
  BY DEF Upto
<1> QED
  BY <1>1 DEF Upto

\* What is stored is never the mark of an empty place.
LEMMA AudioIsStored ==
  ASSUME NEW n \in Nat
  PROVE  Upto(n) # NotStored
<1>1. CASE n = 0
  BY <1>1 DEF Upto, NotStored
<1>2. CASE n # 0
  <2>1. Upto(n)[1] = 1 /\ NotStored[1] = 0
    BY <1>2 DEF Upto, NotStored
  <2> QED
    BY <2>1
<1> QED
  BY <1>1, <1>2

-----------------------------------------------------------------------------
LEMMA InitInv == Init => IInv
<1> SUFFICES ASSUME Init PROVE IInv
  OBVIOUS
<1>1. Types
  BY DEF Init, Types, Each, NotStored
<1>2. \A r \in Requests : Whole(r)
  BY NoneSoFar DEF Init, Each, Whole, Handled, Flowing, Returned, Fresh, Espeak, Queued
<1> QED
  BY <1>1, <1>2 DEF IInv

\* A step of one request.
Of(r) == Speech(r) \/ Leave(r) \/ Handle(r) \/ Synthesize(r)

\* The kinds of the requests do not change, nor does anything of the others'.
Alone(r) ==
  /\ kind' = kind
  /\ \A q \in Requests \ {r} :
       /\ pc'[q] = pc[q] /\ stored'[q] = stored[q] /\ job'[q] = job[q]
       /\ synth'[q] = synth[q] /\ error'[q] = error[q] /\ buf'[q] = buf[q]
       /\ source'[q] = source[q] /\ made'[q] = made[q] /\ copier'[q] = copier[q]
       /\ copied'[q] = copied[q] /\ enc'[q] = enc[q] /\ feeding'[q] = feeding[q]
       /\ fed'[q] = fed[q]

LEMMA OthersKeep ==
  ASSUME IInv, NEW r \in Requests, Alone(r), Types', Whole(r)'
  PROVE  IInv'
<1>1. ASSUME NEW q \in Requests, q # r PROVE Whole(q)'
  BY <1>1 DEF IInv, Whole, Handled, Flowing, Returned, Fresh, Alone
<1> QED
  BY <1>1 DEF IInv

-----------------------------------------------------------------------------
(* The steps *)

\* Which way a request goes.
LEMMA SpeechBranch ==
  ASSUME NEW r \in Requests, Speech(r)
  PROVE  \/ /\ kind[r] \in Queued /\ pc' = [pc EXCEPT ![r] = "wait"]
            /\ job' = [job EXCEPT ![r] = "queued"] /\ synth' = synth
         \/ /\ kind[r] = "job" /\ pc' = [pc EXCEPT ![r] = "stream"]
            /\ job' = [job EXCEPT ![r] = "running"] /\ synth' = [synth EXCEPT ![r] = "open"]
         \/ /\ kind[r] \notin Queued \cup {"job"} /\ pc' = [pc EXCEPT ![r] = "slot"]
            /\ UNCHANGED <<job, synth>>
  BY DEF Speech, Queued, Set

LEMMA StepTypes ==
  ASSUME IInv, NEW r \in Requests, Of(r)
  PROVE  Types' /\ Alone(r)
<1> USE DEF IInv, Types, Alone, Set, Bump, handlerVars, jobVars, procVars
<1>1. CASE Speech(r)
  <2>1. UNCHANGED <<kind, stored, error, buf, procVars>>
    BY <1>1 DEF Speech
  <2>2. \E v \in {"wait", "stream", "slot"} : pc' = [pc EXCEPT ![r] = v]
    BY <1>1, SpeechBranch
  <2>3. job' = job \/ \E v \in {"queued", "running"} : job' = [job EXCEPT ![r] = v]
    BY <1>1, SpeechBranch
  <2>4. synth' = synth \/ synth' = [synth EXCEPT ![r] = "open"]
    BY <1>1, SpeechBranch
  <2>5. /\ pc' \in [Requests -> {"new", "slot", "stream", "store", "wait", "giveup", "over"}]
        /\ \A q \in Requests \ {r} : pc'[q] = pc[q]
    BY <2>2
  <2>6. /\ job' \in [Requests -> {"none", "queued", "running", "succeeded", "failed"}]
        /\ \A q \in Requests \ {r} : job'[q] = job[q]
    <3>1. CASE job' = job
      BY <3>1
    <3>2. CASE \E v \in {"queued", "running"} : job' = [job EXCEPT ![r] = v]
      BY <3>2
    <3> QED
      BY <2>3, <3>1, <3>2
  <2>7. /\ synth' \in [Requests -> {"off", "open", "read", "returned"}]
        /\ \A q \in Requests \ {r} : synth'[q] = synth[q]
    BY <2>4
  <2> QED
    BY <2>1, <2>5, <2>6, <2>7
<1>2. CASE Leave(r)
  BY <1>2 DEF Leave
<1>3. CASE StreamSpeech(r)
  BY <1>3 DEF StreamSpeech
<1>4. CASE NoSlot(r)
  BY <1>4 DEF NoSlot, WriteProviderError
<1>5. CASE Synthesized(r)
  <2>1. CASE error[r]
    BY <1>5, <2>1 DEF Synthesized
  <2>2. CASE ~ error[r]
    <3>1. /\ pc' = [pc EXCEPT ![r] = "store"] /\ stored' = [stored EXCEPT ![r] = buf[r]]
          /\ UNCHANGED <<kind, job, synth, error, buf, procVars>>
      BY <1>5, <2>2 DEF Synthesized
    <3>2. buf[r] \in Seq(Nat)
      OBVIOUS
    <3> QED
      BY <3>1, <3>2
  <2> QED
    BY <2>1, <2>2
<1>6. CASE CompleteJob(r)
  BY <1>6 DEF CompleteJob
<1>7. CASE Waited(r)
  <2>1. CASE Set(stored, r, buf[r]) /\ Set(pc, r, "over")
    BY <1>7, <2>1 DEF Waited
  <2>2. CASE UNCHANGED stored
    <3>1. pc' = [pc EXCEPT ![r] = "giveup"] \/ pc' = [pc EXCEPT ![r] = "over"]
      BY <1>7, <2>2 DEF Waited
    <3> QED
      BY <1>7, <2>2, <3>1 DEF Waited
  <2> QED
    BY <1>7, <2>1, <2>2 DEF Waited
<1>8. CASE GiveUp(r)
  BY <1>8 DEF GiveUp
<1>9. CASE EspeakStream(r)
  <2>1. /\ source' \in [Requests -> {"off", "on", "ended", "failed"}]
        /\ copier' \in [Requests -> {"off", "reading", "offering", "stopped", "returned"}]
        /\ \A q \in Requests \ {r} : source'[q] = source[q] /\ copier'[q] = copier[q]
    BY <1>9 DEF EspeakStream
  <2>2. /\ enc' \in [Requests -> {"off", "on", "done", "quit"}]
        /\ feeding' \in [Requests -> BOOLEAN]
        /\ \A q \in Requests \ {r} : enc'[q] = enc[q] /\ feeding'[q] = feeding[q]
    <3>1. CASE kind[r] # "encoded"
      BY <1>9, <3>1 DEF EspeakStream
    <3>2. CASE kind[r] = "encoded"
      <4>1. \/ enc' = [enc EXCEPT ![r] = "on"] /\ feeding' = [feeding EXCEPT ![r] = TRUE]
            \/ enc' = [enc EXCEPT ![r] = "quit"] /\ feeding' = feeding
        BY <1>9, <3>2 DEF EspeakStream
      <4> QED
        BY <4>1
    <3> QED
      BY <3>1, <3>2
  <2>3. /\ synth' = [synth EXCEPT ![r] = "read"]
        /\ UNCHANGED <<kind, pc, stored, job, error, buf, made, copied, fed>>
    BY <1>9 DEF EspeakStream
  <2> QED
    BY <2>1, <2>2, <2>3
<1>10. CASE EspeakRuns(r)
  <2>1. CASE Bump(made, r) /\ UNCHANGED source
    BY <1>10, <2>1 DEF EspeakRuns
  <2>2. CASE \E s \in {"ended", "failed"} : Set(source, r, s) /\ UNCHANGED made
    BY <1>10, <2>2 DEF EspeakRuns
  <2> QED
    BY <1>10, <2>1, <2>2 DEF EspeakRuns
<1>11. CASE CopyOut(r)
  <2>1. CASE Set(copier, r, "offering") /\ UNCHANGED <<buf, copied>>
    BY <1>11, <2>1 DEF CopyOut
  <2>2. CASE Write(r, copied[r] + 1) /\ Bump(copied, r) /\ UNCHANGED copier
    BY <1>11, <2>2 DEF CopyOut, Write
  <2>3. CASE WriteFails(r) /\ Set(copier, r, "stopped") /\ UNCHANGED copied
    BY <1>11, <2>3 DEF CopyOut, WriteFails
  <2> QED
    BY <1>11, <2>1, <2>2, <2>3 DEF CopyOut
<1>12. CASE EndOfOutput(r)
  BY <1>12 DEF EndOfOutput
<1>13. CASE EspeakReturns(r)
  BY <1>13 DEF EspeakReturns, EspeakError
<1>14. CASE Feed(r)
  <2>1. CASE /\ Bump(copied, r) /\ Set(copier, r, "reading")
             /\ Bump(fed, r) /\ UNCHANGED feeding
    BY <1>14, <2>1 DEF Feed
  <2>2. CASE /\ Bump(copied, r) /\ Set(copier, r, "reading")
             /\ Set(feeding, r, FALSE) /\ UNCHANGED fed
    BY <1>14, <2>2 DEF Feed
  <2>3. CASE Set(feeding, r, FALSE) /\ UNCHANGED <<copied, copier, fed>>
    BY <1>14, <2>3 DEF Feed
  <2> QED
    BY <1>14, <2>1, <2>2, <2>3 DEF Feed
<1>15. CASE Encode(r)
  <2>1. CASE Write(r, Len(buf[r]) + 1) /\ UNCHANGED enc
    BY <1>15, <2>1 DEF Encode, Write
  <2>2. CASE UNCHANGED buf /\ \E s \in {"done", "quit"} : Set(enc, r, s)
    BY <1>15, <2>2 DEF Encode
  <2> QED
    BY <1>15, <2>1, <2>2 DEF Encode, WriteFails
<1>16. CASE EncodeReturns(r)
  BY <1>16 DEF EncodeReturns, EncError
<1>17. CASE Run(r)
  BY <1>17 DEF Run
<1>18. CASE OpenStream(r)
  <2>1. CASE Set(synth, r, "returned") /\ Set(error, r, TRUE) /\ UNCHANGED source
    BY <1>18, <2>1 DEF OpenStream
  <2>2. CASE Set(synth, r, "read") /\ Set(source, r, "on") /\ UNCHANGED error
    BY <1>18, <2>2 DEF OpenStream
  <2> QED
    BY <1>18, <2>1, <2>2 DEF OpenStream
<1>19. CASE ReadEvent(r)
  <2>1. /\ made' \in [Requests -> Nat] /\ buf' \in [Requests -> Seq(Nat)]
        /\ \A q \in Requests \ {r} : made'[q] = made[q] /\ buf'[q] = buf[q]
    <3>1. made' = made \/ Bump(made, r)
      BY <1>19 DEF ReadEvent
    <3>2. buf' = buf \/ Write(r, made[r] + 1)
      BY <1>19 DEF ReadEvent, WriteFails
    <3>3. Append(buf[r], made[r] + 1) \in Seq(Nat)
      OBVIOUS
    <3>4. made' \in [Requests -> Nat] /\ \A q \in Requests \ {r} : made'[q] = made[q]
      <4>1. CASE made' = made
        BY <4>1
      <4>2. CASE made' = [made EXCEPT ![r] = made[r] + 1]
        BY <4>2
      <4> QED
        BY <3>1, <4>1, <4>2
    <3>5. CASE buf' = [buf EXCEPT ![r] = Append(buf[r], made[r] + 1)]
      BY <3>3, <3>4, <3>5
    <3> QED
      BY <3>2, <3>4, <3>5 DEF Write
  <2>2. /\ synth' \in [Requests -> {"off", "open", "read", "returned"}]
        /\ error' \in [Requests -> BOOLEAN]
        /\ source' \in [Requests -> {"off", "on", "ended", "failed"}]
        /\ \A q \in Requests \ {r} :
             synth'[q] = synth[q] /\ error'[q] = error[q] /\ source'[q] = source[q]
    <3>1. CASE UNCHANGED <<synth, error, source>>
      BY <3>1
    <3>2. CASE \E outcome, h : EventsEnd(r, outcome, h)
      <4>1. PICK outcome, h : EventsEnd(r, outcome, h)
        BY <3>2
      <4>2. StreamError(r, outcome, h) \in BOOLEAN
        BY DEF StreamError, OmnivoiceError, SupertonicError
      <4> QED
        BY <4>1, <4>2 DEF EventsEnd
    <3> QED
      BY <1>19, <3>1, <3>2 DEF ReadEvent
  <2>3. UNCHANGED <<kind, pc, stored, job, copier, copied, enc, feeding, fed>>
    BY <1>19 DEF ReadEvent
  <2> QED
    BY <2>1, <2>2, <2>3
<1>20. CASE Finish(r)
  BY <1>20 DEF Finish
<1> QED
  BY <1>1, <1>2, <1>3, <1>4, <1>5, <1>6, <1>7, <1>8, <1>9, <1>10, <1>11, <1>12, <1>13, <1>14, <1>15, <1>16, <1>17, <1>18, <1>19, <1>20
     DEF Of, Handle, Synthesize

\* Only its own requests' synthesis moves an espeak stream.
LEMMA StepWhole ==
  ASSUME IInv, NEW r \in Requests, Of(r), kind[r] \in Espeak
  PROVE  Handled(r)' /\ Flowing(r)' /\ Returned(r)'
<1> USE DEF IInv, Types, Whole, Set, Bump, Espeak, Queued, handlerVars, jobVars, procVars
<1>0. Handled(r) /\ Flowing(r) /\ Returned(r)
  OBVIOUS
<1>1. CASE Speech(r)
  <2>1. pc[r] = "new" /\ UNCHANGED <<kind, stored, error, buf, procVars>>
    BY <1>1 DEF Speech
  <2>2. /\ pc'[r] \in {"slot", "stream"} /\ job'[r] \notin {"succeeded", "failed"}
        /\ \/ pc'[r] = "slot" /\ synth'[r] = synth[r]
           \/ pc'[r] = "stream" /\ synth'[r] = "open"
    BY <1>0, <1>1, <2>1, SpeechBranch DEF Handled
  <2> QED
    BY <1>0, <2>1, <2>2 DEF Handled, Flowing, Returned, Fresh
<1>2. CASE Leave(r) \/ StreamSpeech(r) \/ NoSlot(r) \/ GiveUp(r) \/ EndOfOutput(r)
  BY <1>0, <1>2 DEF Leave, StreamSpeech, NoSlot, WriteProviderError, GiveUp, EndOfOutput,
     Handled, Flowing, Returned, Fresh
<1>3. CASE Synthesized(r)
  <2>1. /\ pc[r] = "stream" /\ synth[r] = "returned"
        /\ UNCHANGED <<kind, synth, error, buf, procVars>>
    BY <1>3 DEF Synthesized
  <2>2. Flowing(r)' /\ Returned(r)'
    BY <1>0, <2>1 DEF Flowing, Returned, Fresh
  <2>3. CASE error[r]
    <3>1. pc'[r] = "over" /\ job'[r] = "failed" /\ stored' = stored
      BY <1>3, <2>3 DEF Synthesized
    <3> QED
      BY <1>0, <2>1, <2>2, <2>3, <3>1 DEF Handled
  <2>4. CASE ~ error[r]
    <3>1. pc'[r] = "store" /\ job' = job /\ stored'[r] = buf[r]
      BY <1>3, <2>4 DEF Synthesized
    <3> QED
      BY <1>0, <2>1, <2>2, <2>4, <3>1 DEF Handled
  <2> QED
    BY <2>3, <2>4
<1>4. CASE CompleteJob(r)
  <2>1. /\ pc[r] = "store" /\ pc'[r] = "over" /\ job'[r] = "succeeded"
        /\ UNCHANGED <<kind, stored, synth, error, buf, procVars>>
    BY <1>4 DEF CompleteJob
  <2>2. stored[r] # NotStored
    BY <1>0, <2>1, BoundsAssumption, AudioIsStored DEF Handled, Returned
  <2> QED
    BY <1>0, <2>1, <2>2 DEF Handled, Flowing, Returned, Fresh
<1>5. CASE Waited(r) \/ Run(r) \/ OpenStream(r) \/ ReadEvent(r) \/ Finish(r)
  BY <1>0, <1>5 DEF Waited, Run, OpenStream, ReadEvent, Finish, Handled
<1>6. CASE EspeakStream(r)
  <2>1. /\ synth[r] = "open" /\ synth'[r] = "read"
        /\ UNCHANGED <<kind, pc, stored, job, error, buf, made, copied, fed>>
    BY <1>6 DEF EspeakStream
  <2>2. \/ source'[r] = "on" /\ copier'[r] = "reading"
        \/ source'[r] = "failed" /\ copier'[r] = "stopped"
    BY <1>6 DEF EspeakStream
  <2>3. IF kind[r] = "encoded" THEN enc'[r] \in {"on", "quit"} ELSE enc'[r] = enc[r]
    BY <1>6 DEF EspeakStream
  <2>4. /\ Fresh(r) /\ enc'[r] # "done" /\ (kind[r] # "encoded" => enc'[r] = "off")
        /\ (copier'[r] # "offering")
    BY <1>0, <2>1, <2>2, <2>3 DEF Flowing, Fresh
  <2>5. Handled(r)'
    BY <1>0, <2>1 DEF Handled
  <2>6. Flowing(r)'
    BY <1>0, <2>1, <2>2, <2>4, NoneSoFar DEF Flowing, Fresh
  <2>7. Returned(r)'
    BY <2>1, <2>2 DEF Returned
  <2> QED
    BY <2>5, <2>6, <2>7
<1>7. CASE EspeakRuns(r)
  <2>1. /\ source[r] = "on"
        /\ UNCHANGED <<kind, pc, stored, job, synth, error, buf, copier, copied, enc, feeding, fed>>
    BY <1>7 DEF EspeakRuns
  <2>2. \/ made'[r] = made[r] + 1 /\ source'[r] = "on"
        \/ made'[r] = made[r] /\ source'[r] = "ended" /\ made[r] = Chunks
        \/ made'[r] = made[r] /\ source'[r] = "failed"
    BY <1>7 DEF EspeakRuns
  <2>3. copier[r] # "returned" /\ synth[r] \notin {"off", "open", "returned"}
    BY <1>0, <2>1 DEF Flowing, Returned, Fresh
  <2>4. made[r] \in Nat /\ copied[r] \in Nat
    OBVIOUS
  <2> QED
    BY <1>0, <2>1, <2>2, <2>3, <2>4 DEF Handled, Flowing, Returned
<1>8. CASE CopyOut(r)
  <2>1. /\ copier[r] = "reading" /\ copied[r] < made[r]
        /\ UNCHANGED <<kind, pc, stored, job, synth, error, source, made, enc, feeding, fed>>
    BY <1>8 DEF CopyOut
  <2>2. synth[r] \notin {"off", "open", "returned"}
    BY <1>0, <2>1 DEF Flowing, Returned, Fresh
  <2>3. made[r] \in Nat /\ copied[r] \in Nat
    OBVIOUS
  <2>4. CASE kind[r] = "encoded"
    <3>1. copier'[r] = "offering" /\ UNCHANGED <<buf, copied>>
      BY <1>8, <2>4 DEF CopyOut
    <3> QED
      BY <1>0, <2>1, <2>2, <2>4, <3>1 DEF Handled, Flowing, Returned
  <2>5. CASE kind[r] # "encoded" /\ copier' = copier
    <3>1. copied'[r] = copied[r] + 1 /\ buf'[r] = Append(buf[r], copied[r] + 1)
      BY <1>8, <2>1, <2>5 DEF CopyOut, Write
    <3>2. buf'[r] = Upto(copied'[r])
      BY <1>0, <2>3, <2>5, <3>1, OneMore DEF Flowing
    <3> QED
      BY <1>0, <2>1, <2>2, <2>3, <2>5, <3>1, <3>2 DEF Handled, Flowing, Returned
  <2>6. CASE UNCHANGED <<buf, copied>> /\ copier'[r] = "stopped"
    BY <1>0, <2>1, <2>2, <2>6 DEF Handled, Flowing, Returned
  <2> QED
    BY <1>8, <2>4, <2>5, <2>6 DEF CopyOut, WriteFails
<1>9. CASE EspeakReturns(r)
  <2>1. /\ copier[r] = "stopped" /\ source[r] \in {"ended", "failed"} /\ copier'[r] = "returned"
        /\ source[r] = "failed" \/ copied[r] < made[r] => error'[r]
        /\ synth'[r] = IF kind[r] = "encoded" THEN synth[r] ELSE "returned"
        /\ UNCHANGED <<kind, pc, stored, job, buf, source, made, copied, enc, feeding, fed>>
    BY <1>9 DEF EspeakReturns, EspeakError
  <2>2. synth[r] = "read" \/ (synth[r] # "returned" /\ ~ Fresh(r))
    BY <1>0, <2>1 DEF Returned, Fresh
  <2>3. made[r] \in Nat /\ copied[r] \in Nat
    OBVIOUS
  <2>4. ~ error'[r] => copied[r] = Chunks
    BY <1>0, <2>1, <2>3 DEF Flowing
  <2>5. Handled(r)'
    BY <1>0, <2>1, <2>2 DEF Handled, Flowing
  <2>6. Flowing(r)'
    BY <1>0, <2>1, <2>2 DEF Flowing
  <2>7. Returned(r)'
    BY <1>0, <2>1, <2>2, <2>4 DEF Returned, Flowing
  <2> QED
    BY <2>5, <2>6, <2>7
<1>10. CASE Feed(r)
  <2>1. /\ feeding[r] /\ UNCHANGED <<kind, pc, stored, job, synth, error, buf, source, made, enc>>
    BY <1>10 DEF Feed
  <2>2. made[r] \in Nat /\ copied[r] \in Nat /\ fed[r] \in Nat /\ Len(buf[r]) \in Nat
    OBVIOUS
  <2>3. ~ Fresh(r)
    BY <2>1 DEF Fresh
  <2>4. CASE copier[r] = "offering"
    <3>1. copied'[r] = copied[r] + 1 /\ copier'[r] = "reading"
      BY <1>10, <2>4 DEF Feed, PipeClosed
    <3>2. IF enc[r] = "on" THEN fed'[r] = fed[r] + 1 /\ feeding' = feeding
                           ELSE fed' = fed /\ ~ feeding'[r]
      BY <1>10, <2>4 DEF Feed, PipeClosed
    <3>3. kind[r] = "encoded" /\ synth[r] \notin {"off", "open", "returned"} /\ enc[r] # "done"
      BY <1>0, <2>1, <2>3, <2>4 DEF Flowing, Returned
    <3>4. Handled(r)' /\ Returned(r)'
      BY <1>0, <2>1, <3>1, <3>3 DEF Handled, Returned
    <3>5. Flowing(r)'
      BY <1>0, <2>1, <2>2, <2>4, <3>1, <3>2, <3>3 DEF Flowing
    <3> QED
      BY <3>4, <3>5
  <2>5. CASE copier[r] # "offering"
    <3>1. ~ feeding'[r] /\ UNCHANGED <<copied, copier, fed>>
      BY <1>10, <2>5 DEF Feed
    <3> QED
      BY <1>0, <2>1, <2>3, <3>1 DEF Handled, Flowing, Returned
  <2> QED
    BY <2>4, <2>5
<1>11. CASE Encode(r)
  <2>1. /\ enc[r] = "on"
        /\ UNCHANGED <<kind, pc, stored, job, synth, error, source, made, copier, copied, feeding, fed>>
    BY <1>11 DEF Encode
  <2>2. synth[r] \notin {"off", "open", "returned"} /\ kind[r] = "encoded"
    BY <1>0, <2>1 DEF Flowing, Returned, Fresh
  <2>3. fed[r] \in Nat /\ Len(buf[r]) \in Nat
    OBVIOUS
  <2>4. CASE Len(buf[r]) < fed[r] /\ Write(r, Len(buf[r]) + 1) /\ UNCHANGED enc
    <3>1. buf'[r] = Append(buf[r], Len(buf[r]) + 1)
      BY <2>4 DEF Write
    <3>2. buf'[r] = Upto(Len(buf[r]) + 1) /\ Len(buf'[r]) = Len(buf[r]) + 1
      <4>1. buf[r] \in Seq(Nat) /\ buf[r] = Upto(Len(buf[r]))
        BY <1>0, <2>2 DEF Flowing
      <4>2. Len(buf'[r]) = Len(buf[r]) + 1
        BY <3>1, <4>1
      <4> QED
        BY <2>3, <3>1, <4>1, <4>2, OneMore
    <3> QED
      BY <1>0, <2>1, <2>2, <2>3, <2>4, <3>1, <3>2 DEF Handled, Flowing, Returned
  <2>5. CASE ~ feeding[r] /\ Len(buf[r]) = fed[r] /\ Set(enc, r, "done") /\ UNCHANGED buf
    BY <1>0, <2>1, <2>2, <2>5 DEF Handled, Flowing, Returned
  <2>6. CASE enc' = [enc EXCEPT ![r] = "quit"] /\ UNCHANGED buf
    BY <1>0, <2>1, <2>2, <2>6 DEF Handled, Flowing, Returned
  <2> QED
    BY <1>11, <2>4, <2>5, <2>6 DEF Encode, WriteFails
<1>12. CASE EncodeReturns(r)
  <2>1. /\ kind[r] = "encoded" /\ synth[r] = "read" /\ synth'[r] = "returned"
        /\ enc[r] \in {"done", "quit"} /\ copier[r] = "returned"
        /\ UNCHANGED <<kind, pc, stored, job, buf, procVars>>
    BY <1>12 DEF EncodeReturns
  <2>2. (error[r] \/ enc[r] = "quit") => error'[r]
    BY <1>12 DEF EncodeReturns, EncError
  <2>3. ~ error'[r] => buf[r] = Upto(Chunks)
    <3> SUFFICES ASSUME ~ error'[r] PROVE buf[r] = Upto(Chunks)
      OBVIOUS
    <3>1. ~ error[r] /\ enc[r] = "done"
      BY <2>1, <2>2
    <3>2. copied[r] = Chunks
      BY <1>0, <2>1, <3>1 DEF Returned
    <3>3. Len(buf[r]) = fed[r] /\ fed[r] = copied[r] /\ buf[r] = Upto(Len(buf[r]))
      BY <1>0, <2>1, <3>1 DEF Flowing
    <3> QED
      BY <3>2, <3>3
  <2>4. Handled(r)'
    BY <1>0, <2>1 DEF Handled
  <2>5. Flowing(r)'
    BY <1>0, <2>1 DEF Flowing
  <2>6. Returned(r)'
    <3>1. copier'[r] = "returned" =>
             source'[r] \in {"ended", "failed"} /\ (~ error'[r] => copied'[r] = Chunks)
      BY <1>0, <2>1, <2>2 DEF Returned
    <3> QED
      BY <2>1, <2>3, <3>1 DEF Returned
  <2> QED
    BY <2>4, <2>5, <2>6
<1> QED
  BY <1>1, <1>2, <1>3, <1>4, <1>5, <1>6, <1>7, <1>8, <1>9, <1>10, <1>11, <1>12
     DEF Of, Handle, Synthesize

LEMMA NextInv == IInv /\ [Next]_vars => IInv'
<1> SUFFICES ASSUME IInv, [Next]_vars PROVE IInv'
  OBVIOUS
<1>1. ASSUME NEW r \in Requests, Of(r) PROVE IInv'
  <2>1. Types' /\ Alone(r)
    BY <1>1, StepTypes
  <2>2. Whole(r)'
    BY <1>1, <2>1, StepWhole DEF Whole, Alone
  <2> QED
    BY <2>1, <2>2, OthersKeep
<1>2. CASE UNCHANGED vars
  BY <1>2 DEF vars, handlerVars, jobVars, procVars, IInv, Types, Whole, Handled, Flowing,
     Returned, Fresh
<1> QED
  BY <1>1, <1>2 DEF Next, Of

-----------------------------------------------------------------------------
(* The response.  What was collected is what was sent as long as the handler is there,
   and audio never ends in an error text, except when a queued stream's caller leaves:
   of both the bounds on a stream's chunks and the place of its handler are part. *)

\* How the counters of a stream bound one another, and its audio by what was made.
Bounded(r) ==
  /\ fed[r] <= copied[r] /\ copied[r] <= made[r] /\ made[r] <= Chunks
  /\ kind[r] # "encoded" => ~ feeding[r] /\ enc[r] = "off"
  /\ kind[r] \in Queued => copier[r] = "off"
  /\ Len(buf[r]) <= made[r] /\ \A i \in 1..Len(buf[r]) : buf[r][i] \in 1..made[r]
  /\ \A i, j \in 1..Len(buf[r]) : i < j => buf[r][i] < buf[r][j]

\* The response, against what was collected for the store.
Answered(r) ==
  /\ kind[r] = "job" => pc[r] # "slot"
  /\ kind[r] # "job" /\ pc[r] # "over" => body[r] = buf[r]
  /\ kind[r] # "job" /\ stored[r] # NotStored => body[r] = stored[r]
  /\ ErrorBehindAudio(r) => kind[r] \in Queued /\ gone[r]

\* A queued stream: between its handler, which waits, and the worker.
Served(r) ==
  /\ pc[r] \in {"new", "wait", "giveup", "over"}
  /\ job[r] \in {"failed", "succeeded"} => synth[r] = "returned"
  /\ pc[r] # "over" => stored[r] = NotStored /\ (header[r] = "none" => body[r] = <<>>)
  /\ pc[r] = "giveup" => gone[r] \/ (job[r] = "failed" /\ header[r] = "none")

Sound(r) == Bounded(r) /\ Answered(r) /\ (kind[r] \in Queued => Served(r))

ResponseTypes ==
  /\ gone \in [Requests -> BOOLEAN] /\ header \in [Requests -> {"none", "audio", "error"}]
  /\ body \in [Requests -> Seq(0..Chunks)] /\ stored \in [Requests -> Audio \cup {NotStored}]

RInv == IInv /\ ResponseTypes /\ \A r \in Requests : Sound(r)

\* What is collected in order, from what was made, is audio.
LEMMA CollectedIsAudio ==
  ASSUME NEW r \in Requests, IInv, Bounded(r)
  PROVE  buf[r] \in Audio
<1>1. buf[r] \in Seq(Nat) /\ made[r] \in Nat /\ made[r] <= Chunks /\ Chunks \in Nat
  BY BoundsAssumption DEF IInv, Types, Bounded
<1>2. Len(buf[r]) \in 0..Chunks /\ buf[r] \in [1..Len(buf[r]) -> Nat]
  BY <1>1 DEF Bounded
<1>3. \A i \in 1..Len(buf[r]) : buf[r][i] \in 1..Chunks
  BY <1>1 DEF Bounded
<1>4. buf[r] \in [1..Len(buf[r]) -> 1..Chunks]
  BY <1>2, <1>3
<1>5. \A i, j \in DOMAIN buf[r] : i < j => buf[r][i] < buf[r][j]
  BY <1>2 DEF Bounded
<1> QED
  BY <1>2, <1>4, <1>5 DEF Audio

\* Nor is an error text.
LEMMA NoErrorCollected ==
  ASSUME NEW r \in Requests, IInv, Bounded(r), body[r] = buf[r]
  PROVE  ~ ErrorBehindAudio(r)
<1>1. buf[r] \in Seq(Nat) /\ made[r] \in Nat
  BY DEF IInv, Types
<1>2. \A i \in DOMAIN buf[r] : buf[r][i] # 0
  BY <1>1 DEF Bounded
<1> QED
  BY <1>2 DEF ErrorBehindAudio

LEMMA OneMoreChunk ==
  ASSUME NEW s \in Seq(Nat), NEW m \in Nat, NEW n \in Nat, NEW c \in 1..n, m <= n,
         Len(s) < n, \A i \in 1..Len(s) : s[i] \in 1..m /\ s[i] < c,
         \A i, j \in 1..Len(s) : i < j => s[i] < s[j]
  PROVE  /\ Len(Append(s, c)) <= n
         /\ \A i \in 1..Len(Append(s, c)) : Append(s, c)[i] \in 1..n
         /\ \A i, j \in 1..Len(Append(s, c)) : i < j => Append(s, c)[i] < Append(s, c)[j]
<1> DEFINE t == Append(s, c)
<1>1. t \in Seq(Nat) /\ Len(t) = Len(s) + 1 /\ Len(s) \in Nat /\ t[Len(t)] = c
      /\ \A i \in 1..Len(s) : t[i] = s[i]
  OBVIOUS
<1> HIDE DEF t
<1>2. \A i \in 1..Len(t) : i \in 1..Len(s) \/ i = Len(t)
  BY <1>1
<1>3. \A i \in 1..Len(t) : t[i] \in 1..n
  BY <1>1, <1>2
<1>4. ASSUME NEW i \in 1..Len(t), NEW j \in 1..Len(t), i < j PROVE t[i] < t[j]
  <2>1. i \in 1..Len(s)
    BY <1>1, <1>4
  <2> QED
    BY <1>1, <1>2, <2>1, <1>4
<1>5. Len(t) <= n
  BY <1>1
<1> QED
  BY <1>3, <1>4, <1>5 DEF t

LEMMA InitSound == Init => RInv
<1> SUFFICES ASSUME Init PROVE RInv
  OBVIOUS
<1>1. ResponseTypes
  <2>1. NotStored \in Audio \cup {NotStored} /\ <<>> \in Seq(0..Chunks)
    OBVIOUS
  <2> QED
    BY <2>1 DEF Init, ResponseTypes, Each
<1>2. ASSUME NEW r \in Requests PROVE Sound(r)
  <2>1. /\ pc[r] = "new" /\ stored[r] = NotStored /\ body[r] = <<>> /\ buf[r] = <<>>
        /\ job[r] = "none" /\ made[r] = 0 /\ copied[r] = 0 /\ fed[r] = 0 /\ ~ feeding[r]
        /\ enc[r] = "off" /\ copier[r] = "off"
    BY DEF Init, Each
  <2>2. Bounded(r)
    BY <2>1, BoundsAssumption DEF Bounded
  <2>3. ~ ErrorBehindAudio(r)
    BY <2>1 DEF ErrorBehindAudio
  <2> QED
    BY <2>1, <2>2, <2>3 DEF Sound, Answered, Served
<1> QED
  BY <1>1, <1>2, InitInv DEF RInv

\* A step of one request leaves the others' responses alone.
LEMMA OthersSound ==
  ASSUME RInv, NEW r \in Requests, Alone(r), IInv', ResponseTypes', Sound(r)',
         \A q \in Requests \ {r} : body'[q] = body[q] /\ gone'[q] = gone[q] /\ header'[q] = header[q]
  PROVE  RInv'
<1>1. ASSUME NEW q \in Requests, q # r PROVE Sound(q)'
  BY <1>1 DEF RInv, Alone, Sound, Bounded, Answered, Served, ErrorBehindAudio
<1> QED
  BY <1>1 DEF RInv

-----------------------------------------------------------------------------
(* The three things a step may do to a response: nothing, a chunk, or an error text *)

Quiet(r)   == UNCHANGED <<body, buf>>
Chunk(r)   == \E c \in 1..Chunks : Write(r, c) /\ synth[r] = "read"
Refused(r) == /\ WriteProviderError(r) /\ UNCHANGED <<buf, stored, gone>>
              /\ kind[r] # "job" /\ stored[r] = NotStored /\ pc'[r] = "over"
              /\ body[r] = <<>> \/ (kind[r] \in Queued /\ gone[r])

\* Writes are made only while the synthesis is running, and an error text only where
\* no audio has been sent or nobody is left to hear it.
LEMMA StepWrites ==
  ASSUME RInv, NEW r \in Requests, Of(r)
  PROVE  Quiet(r) \/ Chunk(r) \/ Refused(r)
<1> USE DEF Set, Bump, handlerVars, jobVars, procVars
<1>0. Sound(r) /\ Whole(r) /\ Types /\ (kind[r] \in Espeak \/ kind[r] \in Queued)
  BY DEF RInv, IInv, Types
<1>1. /\ made[r] \in Nat /\ copied[r] \in Nat /\ fed[r] \in Nat /\ Chunks \in Nat
      /\ Len(buf[r]) \in Nat
  BY <1>0, BoundsAssumption DEF Types
<1>2. CASE NoSlot(r)
  <2>1. pc[r] = "slot" /\ pc' = [pc EXCEPT ![r] = "over"] /\ WriteProviderError(r)
        /\ UNCHANGED <<buf, stored, gone>>
    BY <1>2 DEF NoSlot
  <2>2. kind[r] # "job" /\ kind[r] \in Espeak /\ body[r] = buf[r]
    BY <1>0, <2>1 DEF Sound, Answered, Served
  <2>3. buf[r] = <<>>
    BY <1>0, <2>1, <2>2 DEF Whole, Handled, Flowing, Fresh
  <2> QED
    BY <1>0, <2>1, <2>2, <2>3 DEF Refused, Types, Whole, Handled
<1>3. CASE Synthesized(r)
  <2>1. pc[r] = "stream" /\ UNCHANGED <<buf, gone>>
    BY <1>3 DEF Synthesized
  <2>2. CASE UNCHANGED body
    BY <2>1, <2>2 DEF Quiet
  <2>3. CASE ~ UNCHANGED body
    <3>1. /\ WriteProviderError(r) /\ pc' = [pc EXCEPT ![r] = "over"] /\ kind[r] # "job"
          /\ UNCHANGED stored /\ body[r] = <<>>
      BY <1>3, <2>3 DEF Synthesized, HeaderWritten
    <3>2. stored[r] = NotStored
      BY <1>0, <2>1 DEF Sound, Served, Whole, Handled
    <3> QED
      BY <1>0, <2>1, <3>1, <3>2 DEF Refused, Types
  <2> QED
    BY <2>2, <2>3
<1>4. CASE GiveUp(r)
  <2>1. pc[r] = "giveup" /\ pc' = [pc EXCEPT ![r] = "over"] /\ WriteProviderError(r)
        /\ UNCHANGED <<buf, stored, gone>>
    BY <1>4 DEF GiveUp
  <2>2. kind[r] \in Queued
    BY <1>0, <2>1 DEF Whole, Handled
  <2>3. stored[r] = NotStored /\ (gone[r] \/ body[r] = <<>>)
    BY <1>0, <2>1, <2>2 DEF Sound, Served
  <2> QED
    BY <1>0, <2>1, <2>2, <2>3 DEF Refused, Types, Queued
<1>5. CASE CopyOut(r)
  <2>1. copier[r] = "reading" /\ copied[r] < made[r]
    BY <1>5 DEF CopyOut
  <2>2. kind[r] \in Espeak /\ synth[r] = "read"
    <3>1. kind[r] \in Espeak
      BY <1>0, <2>1 DEF Sound, Bounded
    <3> QED
      BY <1>0, <2>1, <3>1 DEF Whole, Flowing, Returned, Fresh, Types
  <2>3. copied[r] + 1 \in 1..Chunks
    BY <1>0, <1>1, <2>1 DEF Sound, Bounded
  <2>4. Write(r, copied[r] + 1) \/ UNCHANGED <<body, buf>>
    BY <1>5 DEF CopyOut, WriteFails
  <2> QED
    BY <2>2, <2>3, <2>4 DEF Chunk, Quiet
<1>6. CASE Encode(r)
  <2>1. enc[r] = "on"
    BY <1>6 DEF Encode
  <2>2. kind[r] = "encoded" /\ synth[r] = "read"
    <3>1. kind[r] = "encoded"
      BY <1>0, <2>1 DEF Sound, Bounded
    <3> QED
      BY <1>0, <2>1, <3>1 DEF Whole, Flowing, Returned, Fresh, Types, Espeak
  <2>3. Len(buf[r]) < fed[r] => Len(buf[r]) + 1 \in 1..Chunks
    BY <1>0, <1>1 DEF Sound, Bounded
  <2>4. (Len(buf[r]) < fed[r] /\ Write(r, Len(buf[r]) + 1)) \/ UNCHANGED <<body, buf>>
    BY <1>6 DEF Encode, WriteFails
  <2> QED
    BY <2>2, <2>3, <2>4 DEF Chunk, Quiet
<1>7. CASE ReadEvent(r)
  <2>1. synth[r] = "read"
    BY <1>7 DEF ReadEvent
  <2>2. (made[r] < Chunks /\ Write(r, made[r] + 1)) \/ UNCHANGED <<body, buf>>
    BY <1>7 DEF ReadEvent, WriteFails
  <2>3. made[r] < Chunks => made[r] + 1 \in 1..Chunks
    BY <1>1
  <2> QED
    BY <2>1, <2>2, <2>3 DEF Chunk, Quiet
<1>8. CASE \/ Speech(r) \/ Leave(r) \/ StreamSpeech(r) \/ CompleteJob(r) \/ Waited(r)
           \/ EspeakStream(r) \/ EspeakRuns(r) \/ EndOfOutput(r) \/ EspeakReturns(r) \/ Feed(r)
           \/ EncodeReturns(r) \/ Run(r) \/ OpenStream(r) \/ Finish(r)
  BY <1>8 DEF Speech, Leave, StreamSpeech, CompleteJob, Waited, EspeakStream, EspeakRuns,
     EndOfOutput, EspeakReturns, Feed, EncodeReturns, Run, OpenStream, Finish, Quiet
<1> QED
  BY <1>2, <1>3, <1>4, <1>5, <1>6, <1>7, <1>8 DEF Of, Handle, Synthesize

LEMMA StepBounded ==
  ASSUME RInv, NEW r \in Requests, Of(r)
  PROVE  Bounded(r)'
<1> USE DEF Set, Bump, handlerVars, jobVars, procVars
<1>0. Bounded(r) /\ Whole(r) /\ Types /\ (kind[r] \in Espeak \/ kind[r] \in Queued)
  BY DEF RInv, IInv, Types, Sound
<1>1. /\ made[r] \in Nat /\ copied[r] \in Nat /\ fed[r] \in Nat /\ Chunks \in Nat
      /\ Len(buf[r]) \in Nat /\ buf[r] \in Seq(Nat)
  BY <1>0, BoundsAssumption DEF Types
<1>2. ASSUME UNCHANGED <<kind, procVars, buf>> PROVE Bounded(r)'
  BY <1>0, <1>2 DEF Bounded
<1>3. CASE \/ Speech(r) \/ Leave(r) \/ StreamSpeech(r) \/ NoSlot(r) \/ Synthesized(r)
           \/ CompleteJob(r) \/ Waited(r) \/ GiveUp(r) \/ EncodeReturns(r) \/ Run(r) \/ Finish(r)
  BY <1>2, <1>3 DEF Speech, Leave, StreamSpeech, NoSlot, Synthesized, CompleteJob, Waited,
     GiveUp, EncodeReturns, Run, Finish
<1>4. CASE EspeakStream(r)
  <2>1. /\ kind[r] \in Espeak /\ UNCHANGED <<kind, buf, made, copied, fed>>
        /\ kind[r] # "encoded" => UNCHANGED <<enc, feeding>>
    BY <1>4 DEF EspeakStream
  <2> QED
    BY <1>0, <2>1 DEF Bounded, Espeak, Queued
<1>5. CASE EspeakRuns(r)
  <2>1. /\ UNCHANGED <<kind, buf, copier, copied, enc, feeding, fed>>
        /\ made'[r] = made[r] \/ (made[r] < Chunks /\ made'[r] = made[r] + 1)
    BY <1>0, <1>5 DEF EspeakRuns, Types
  <2>2. made'[r] \in Nat /\ made[r] <= made'[r] /\ made'[r] <= Chunks
    BY <1>0, <1>1, <2>1 DEF Bounded
  <2>3. \A i \in 1..Len(buf[r]) : buf[r][i] \in 1..made'[r]
    BY <1>0, <1>1, <2>2 DEF Bounded
  <2>4. fed[r] <= copied[r] /\ copied[r] <= made'[r] /\ Len(buf[r]) <= made'[r]
    BY <1>0, <1>1, <2>2 DEF Bounded
  <2> QED
    BY <1>0, <2>1, <2>2, <2>3, <2>4 DEF Bounded
<1>6. CASE CopyOut(r)
  <2>1. /\ copier[r] = "reading" /\ copied[r] < made[r]
        /\ UNCHANGED <<kind, made, enc, feeding, fed>>
    BY <1>6 DEF CopyOut
  <2>2. kind[r] \in Espeak /\ kind[r] \notin Queued
    BY <1>0, <2>1 DEF Bounded, Espeak, Queued
  <2>3. CASE UNCHANGED <<buf, copied>>
    BY <1>0, <2>1, <2>2, <2>3 DEF Bounded
  <2>4. CASE kind[r] # "encoded" /\ Write(r, copied[r] + 1) /\ Bump(copied, r)
    <3>1. copied'[r] = copied[r] + 1 /\ buf'[r] = Append(buf[r], copied[r] + 1)
      BY <1>0, <2>4 DEF Write, Types
    <3>2. Len(buf[r]) = copied[r] /\ \A i \in 1..Len(buf[r]) : buf[r][i] = i
      BY <1>0, <1>1, <2>2, <2>4 DEF Whole, Flowing, Upto
    <3>3. /\ copied[r] + 1 \in 1..made[r] /\ Len(buf[r]) < made[r] /\ copied[r] <= made[r]
          /\ \A i \in 1..Len(buf[r]) : buf[r][i] \in 1..copied[r] /\ buf[r][i] < copied[r] + 1
      BY <1>1, <2>1, <3>2
    <3>4. /\ Len(buf'[r]) <= made[r] /\ \A i \in 1..Len(buf'[r]) : buf'[r][i] \in 1..made[r]
          /\ \A i, j \in 1..Len(buf'[r]) : i < j => buf'[r][i] < buf'[r][j]
      BY <1>0, <1>1, <3>1, <3>3, OneMoreChunk DEF Bounded
    <3>5. fed[r] <= copied'[r] /\ copied'[r] <= made[r]
      BY <1>0, <1>1, <2>1, <3>1 DEF Bounded
    <3> QED
      BY <1>0, <2>1, <2>2, <3>4, <3>5 DEF Bounded
  <2> QED
    BY <1>6, <2>3, <2>4 DEF CopyOut, WriteFails
<1>7. CASE EndOfOutput(r) \/ EspeakReturns(r)
  <2>1. /\ copier[r] # "off" /\ UNCHANGED <<kind, buf, made, copied, enc, feeding, fed>>
    BY <1>7 DEF EndOfOutput, EspeakReturns
  <2> QED
    BY <1>0, <2>1 DEF Bounded
<1>8. CASE Feed(r)
  <2>1. feeding[r] /\ kind[r] = "encoded" /\ UNCHANGED <<kind, buf, made, enc>>
    BY <1>0, <1>8 DEF Feed, Bounded
  <2>2. /\ copied'[r] = copied[r] \/ (copier[r] = "offering" /\ copied'[r] = copied[r] + 1)
        /\ fed'[r] = fed[r] \/ (fed'[r] = fed[r] + 1 /\ copied'[r] = copied[r] + 1)
    <3>1. CASE Bump(copied, r)
      BY <1>0, <1>8, <3>1 DEF Feed, PipeClosed, Types
    <3>2. CASE UNCHANGED <<copied, copier, fed>>
      BY <3>2
    <3> QED
      BY <1>8, <3>1, <3>2 DEF Feed
  <2>3. copier[r] = "offering" => copied[r] < made[r]
    BY <1>0, <2>1 DEF Whole, Flowing, Espeak
  <2>4. fed'[r] <= copied'[r] /\ copied'[r] <= made[r]
    BY <1>0, <1>1, <2>2, <2>3 DEF Bounded
  <2> QED
    BY <1>0, <2>1, <2>4 DEF Bounded, Queued
<1>9. CASE Encode(r)
  <2>1. enc[r] = "on" /\ UNCHANGED <<kind, made, copier, copied, feeding, fed>>
    BY <1>9 DEF Encode
  <2>2. kind[r] = "encoded" /\ kind[r] \in Espeak /\ kind[r] \notin Queued
    BY <1>0, <2>1 DEF Bounded, Espeak, Queued
  <2>3. CASE UNCHANGED buf
    BY <1>0, <2>1, <2>2, <2>3 DEF Bounded
  <2>4. CASE Len(buf[r]) < fed[r] /\ Write(r, Len(buf[r]) + 1)
    <3>1. buf'[r] = Append(buf[r], Len(buf[r]) + 1)
      BY <1>0, <2>4 DEF Write, Types
    <3>2. \A i \in 1..Len(buf[r]) : buf[r][i] = i
      BY <1>0, <1>1, <2>2 DEF Whole, Flowing, Upto
    <3>3. /\ Len(buf[r]) + 1 \in 1..made[r] /\ Len(buf[r]) < made[r]
          /\ \A i \in 1..Len(buf[r]) : buf[r][i] \in 1..Len(buf[r]) /\ buf[r][i] < Len(buf[r]) + 1
      BY <1>0, <1>1, <2>4, <3>2 DEF Bounded
    <3>4. /\ Len(buf'[r]) <= made[r] /\ \A i \in 1..Len(buf'[r]) : buf'[r][i] \in 1..made[r]
          /\ \A i, j \in 1..Len(buf'[r]) : i < j => buf'[r][i] < buf'[r][j]
      <4>1. Len(buf[r]) <= made[r]
        BY <1>1, <3>3
      <4> QED
        BY <1>0, <1>1, <3>1, <3>3, <4>1, OneMoreChunk DEF Bounded
    <3> QED
      BY <1>0, <2>1, <2>2, <3>4 DEF Bounded
  <2> QED
    BY <1>9, <2>3, <2>4 DEF Encode, WriteFails
<1>10. CASE OpenStream(r)
  <2>1. UNCHANGED <<kind, buf, made, copier, copied, enc, feeding, fed>>
    BY <1>10 DEF OpenStream
  <2> QED
    BY <1>0, <2>1 DEF Bounded
<1>11. CASE ReadEvent(r)
  <2>1. kind[r] \in Queued /\ UNCHANGED <<kind, copier, copied, enc, feeding, fed>>
    BY <1>11 DEF ReadEvent
  <2>2. CASE UNCHANGED <<made, buf>>
    BY <1>0, <2>1, <2>2 DEF Bounded
  <2>3. CASE made[r] < Chunks /\ Bump(made, r)
    <3>1. made'[r] = made[r] + 1 /\ made'[r] \in Nat /\ made'[r] <= Chunks
      BY <1>0, <1>1, <2>3 DEF Types
    <3>2. fed[r] <= copied[r] /\ copied[r] <= made'[r]
      BY <1>0, <1>1, <3>1 DEF Bounded
    <3>3. CASE UNCHANGED buf
      <4>1. Len(buf[r]) <= made'[r] /\ \A i \in 1..Len(buf[r]) : buf[r][i] \in 1..made'[r]
        BY <1>0, <1>1, <3>1 DEF Bounded
      <4> QED
        BY <1>0, <2>1, <3>1, <3>2, <3>3, <4>1 DEF Bounded
    <3>4. CASE Write(r, made[r] + 1)
      <4>1. buf'[r] = Append(buf[r], made[r] + 1)
        BY <1>0, <3>4 DEF Write, Types
      <4>2. /\ made[r] + 1 \in 1..made'[r] /\ Len(buf[r]) < made'[r] /\ made[r] <= made'[r]
            /\ \A i \in 1..Len(buf[r]) : buf[r][i] \in 1..made[r] /\ buf[r][i] < made[r] + 1
        BY <1>0, <1>1, <3>1 DEF Bounded
      <4>3. /\ Len(buf'[r]) <= made'[r] /\ \A i \in 1..Len(buf'[r]) : buf'[r][i] \in 1..made'[r]
            /\ \A i, j \in 1..Len(buf'[r]) : i < j => buf'[r][i] < buf'[r][j]
        <5>1. \A i, j \in 1..Len(buf[r]) : i < j => buf[r][i] < buf[r][j]
          BY <1>0 DEF Bounded
        <5> HIDE DEF Bump
        <5> QED
          BY <1>1, <3>1, <4>1, <4>2, <5>1, OneMoreChunk
      <4> QED
        BY <1>0, <2>1, <3>1, <3>2, <4>3 DEF Bounded
    <3> QED
      BY <1>11, <2>3, <3>3, <3>4 DEF ReadEvent, WriteFails
  <2> QED
    BY <1>11, <2>2, <2>3 DEF ReadEvent
<1> QED
  BY <1>3, <1>4, <1>5, <1>6, <1>7, <1>8, <1>9, <1>10, <1>11 DEF Of, Handle, Synthesize

\* What is stored is what was collected, by a handler on its way out.
LEMMA StepStores ==
  ASSUME RInv, NEW r \in Requests, Of(r)
  PROVE  \/ stored' = stored
         \/ /\ stored' = [stored EXCEPT ![r] = buf[r]] /\ pc[r] \in {"stream", "wait"}
            /\ pc'[r] \in {"store", "over"} /\ UNCHANGED <<body, buf>>
<1> USE DEF Set, handlerVars, jobVars, procVars
<1>1. CASE Synthesized(r)
  BY <1>1 DEF Synthesized, RInv, IInv, Types
<1>2. CASE Waited(r)
  BY <1>2 DEF Waited, RInv, IInv, Types
<1>3. CASE \/ Speech(r) \/ Leave(r) \/ StreamSpeech(r) \/ NoSlot(r) \/ CompleteJob(r) \/ GiveUp(r)
           \/ Synthesize(r)
  BY <1>3 DEF Speech, Leave, StreamSpeech, NoSlot, CompleteJob, GiveUp, Synthesize, EspeakStream,
     EspeakRuns, CopyOut, EndOfOutput, EspeakReturns, Feed, Encode, EncodeReturns, Run, OpenStream,
     ReadEvent, Finish
<1> QED
  BY <1>1, <1>2, <1>3 DEF Of, Handle

\* The rest of the response: its header, and whether somebody is there.
LEMMA StepHeader ==
  ASSUME RInv, NEW r \in Requests, Of(r)
  PROVE  /\ header' \in [Requests -> {"none", "audio", "error"}]
         /\ gone' \in [Requests -> BOOLEAN] /\ (gone[r] => gone'[r])
         /\ \A q \in Requests \ {r} : gone'[q] = gone[q] /\ header'[q] = header[q]
<1> USE DEF Set, handlerVars, jobVars, procVars, RInv, ResponseTypes
<1>1. gone' = gone \/ gone' = [gone EXCEPT ![r] = TRUE]
  BY DEF Of, Speech, Leave, Handle, StreamSpeech, NoSlot, Synthesized, CompleteJob, Waited, GiveUp,
     Synthesize, EspeakStream, EspeakRuns, CopyOut, EndOfOutput, EspeakReturns, Feed, Encode,
     EncodeReturns, Run, OpenStream, ReadEvent, Finish
<1>2. header' = header \/ \E h \in {"audio", "error"} : header' = [header EXCEPT ![r] = h]
  <2>1. CASE Handle(r) \/ Speech(r) \/ Leave(r)
    BY <2>1 DEF Speech, Leave, Handle, StreamSpeech, NoSlot, Synthesized, CompleteJob, Waited,
       GiveUp, WriteProviderError, WriteHeader
  <2>2. CASE Synthesize(r)
    BY <2>2 DEF Synthesize, EspeakStream, EspeakRuns, CopyOut, EndOfOutput, EspeakReturns, Feed,
       Encode, EncodeReturns, Run, OpenStream, ReadEvent, Finish, WriteHeader
  <2> QED
    BY <2>1, <2>2 DEF Of
<1>3. /\ gone' \in [Requests -> BOOLEAN] /\ (gone[r] => gone'[r])
      /\ \A q \in Requests \ {r} : gone'[q] = gone[q]
  <2>1. CASE gone' = gone
    BY <2>1
  <2>2. CASE gone' = [gone EXCEPT ![r] = TRUE]
    BY <2>2
  <2> QED
    BY <1>1, <2>1, <2>2
<1>4. /\ header' \in [Requests -> {"none", "audio", "error"}]
      /\ \A q \in Requests \ {r} : header'[q] = header[q]
  <2>1. CASE header' = header
    BY <2>1
  <2>2. ASSUME NEW h \in {"audio", "error"}, header' = [header EXCEPT ![r] = h]
        PROVE  /\ header' \in [Requests -> {"none", "audio", "error"}]
               /\ \A q \in Requests \ {r} : header'[q] = header[q]
    BY <2>2
  <2> QED
    BY <1>2, <2>1, <2>2
<1> QED
  BY <1>3, <1>4

LEMMA StepBody ==
  ASSUME RInv, NEW r \in Requests, Of(r)
  PROVE  ResponseTypes' /\ \A q \in Requests \ {r} : body'[q] = body[q]
<1>1. /\ body' \in [Requests -> Seq(0..Chunks)]
      /\ \A q \in Requests \ {r} : body'[q] = body[q]
  <2>1. body' = body \/ \E c \in 0..Chunks : WriteBody(r, c)
    BY StepWrites, BoundsAssumption DEF Quiet, Chunk, Refused, Write, WriteProviderError
  <2>2. CASE body' = body
    BY <2>2 DEF RInv, ResponseTypes
  <2>3. ASSUME NEW c \in 0..Chunks, WriteBody(r, c)
        PROVE  /\ body' \in [Requests -> Seq(0..Chunks)]
               /\ \A q \in Requests \ {r} : body'[q] = body[q]
    <3>1. Append(body[r], c) \in Seq(0..Chunks)
      BY DEF RInv, ResponseTypes
    <3>2. body' = body \/ body' = [body EXCEPT ![r] = Append(body[r], c)]
      BY <2>3 DEF WriteBody
    <3> QED
      BY <3>1, <3>2 DEF RInv, ResponseTypes
  <2> QED
    BY <2>1, <2>2, <2>3
<1>2. stored' \in [Requests -> Audio \cup {NotStored}]
  <2>1. buf[r] \in Audio
    BY CollectedIsAudio DEF RInv, Sound
  <2> QED
    BY <2>1, StepStores DEF RInv, ResponseTypes
<1> QED
  BY <1>1, <1>2, StepHeader DEF ResponseTypes

LEMMA StepServed ==
  ASSUME RInv, NEW r \in Requests, Of(r), kind[r] \in Queued
  PROVE  Served(r)'
<1> USE DEF Set, handlerVars, jobVars, procVars
<1>0. /\ Served(r) /\ Bounded(r) /\ Answered(r) /\ Types /\ kind[r] \notin Espeak
      /\ kind[r] # "encoded"
  BY DEF RInv, IInv, Types, Sound, Espeak, Queued
<1>1. gone[r] => gone'[r]
  BY StepHeader
<1>2. ASSUME UNCHANGED <<header, body>> \/ header'[r] # "none" \/ pc'[r] = "over"
      PROVE  pc[r] # "over" /\ pc'[r] # "over" /\ header'[r] = "none" => body'[r] = <<>>
  BY <1>0, <1>2 DEF Served
<1>3. CASE Speech(r)
  <2>1. /\ pc[r] = "new" /\ UNCHANGED <<stored, header, body>>
        /\ pc'[r] = "wait" /\ job'[r] = "queued"
    BY <1>0, <1>3, SpeechBranch DEF Speech, Types, Queued
  <2> QED
    BY <1>0, <2>1 DEF Served
<1>4. CASE Leave(r)
  <2>1. UNCHANGED <<pc, header, body, stored, job, synth>>
    BY <1>4 DEF Leave
  <2> QED
    BY <1>0, <1>1, <2>1 DEF Served
<1>5. CASE Waited(r)
  <2>1. /\ UNCHANGED <<header, body, job, synth, gone>> /\ pc[r] = "wait"
        /\ \/ pc'[r] = "over"
           \/ /\ job[r] = "failed" \/ gone[r]
              /\ pc'[r] = "giveup" /\ header[r] = "none" /\ UNCHANGED stored
    BY <1>0, <1>5 DEF Waited, Types
  <2> QED
    BY <1>0, <2>1 DEF Served
<1>6. CASE GiveUp(r)
  <2>1. pc'[r] = "over" /\ UNCHANGED <<job, synth>>
    BY <1>0, <1>6 DEF GiveUp, Types
  <2> QED
    BY <1>0, <2>1 DEF Served
<1>7. CASE Run(r)
  <2>1. /\ UNCHANGED <<pc, header, body, stored, gone>> /\ job[r] = "queued" /\ job'[r] = "running"
    BY <1>0, <1>7 DEF Run, Types
  <2> QED
    BY <1>0, <2>1 DEF Served
<1>8. CASE OpenStream(r)
  <2>1. UNCHANGED <<pc, header, body, stored, gone, job>> /\ synth[r] = "open"
    BY <1>8 DEF OpenStream
  <2> QED
    BY <1>0, <2>1 DEF Served
<1>9. CASE ReadEvent(r)
  <2>1. UNCHANGED <<pc, stored, gone, job>> /\ synth[r] = "read"
    BY <1>9 DEF ReadEvent
  <2>2. UNCHANGED <<header, body>> \/ WriteHeader(r, "audio")
    BY <1>9 DEF ReadEvent, WriteFails
  <2>3. pc[r] # "over" => UNCHANGED <<header, body>> \/ header'[r] # "none"
    BY <1>0, <2>2 DEF WriteHeader, RInv, ResponseTypes
  <2> QED
    BY <1>0, <1>2, <2>1, <2>3 DEF Served
<1>10. CASE Finish(r)
  <2>1. UNCHANGED <<pc, header, body, stored, gone, synth>> /\ job[r] = "running"
        /\ synth[r] = "returned"
    BY <1>10 DEF Finish
  <2> QED
    BY <1>0, <2>1 DEF Served
<1>11. CASE \/ StreamSpeech(r) \/ NoSlot(r) \/ Synthesized(r) \/ CompleteJob(r)
            \/ EspeakStream(r) \/ EspeakRuns(r) \/ CopyOut(r) \/ EndOfOutput(r) \/ EspeakReturns(r)
            \/ Feed(r) \/ Encode(r) \/ EncodeReturns(r)
  BY <1>0, <1>11 DEF StreamSpeech, NoSlot, Synthesized, CompleteJob, EspeakStream, EspeakRuns,
     CopyOut, EndOfOutput, EspeakReturns, Feed, Encode, EncodeReturns, Served, Bounded
<1> QED
  BY <1>3, <1>4, <1>5, <1>6, <1>7, <1>8, <1>9, <1>10, <1>11 DEF Of, Handle, Synthesize

LEMMA StepAnswered ==
  ASSUME RInv, NEW r \in Requests, Of(r), IInv', Bounded(r)', kind' = kind
  PROVE  Answered(r)'
<1>0. /\ Bounded(r) /\ Answered(r) /\ Whole(r) /\ Types /\ ResponseTypes
      /\ (kind[r] \in Espeak \/ kind[r] \in Queued) /\ (kind[r] \in Queued => Served(r))
  BY DEF RInv, IInv, Types, Sound
<1>1. pc[r] = "over" => pc'[r] = "over"
  BY <1>0 DEF Of, Speech, Leave, Handle, StreamSpeech, NoSlot, Synthesized, CompleteJob, Waited,
     GiveUp, Synthesize, EspeakStream, EspeakRuns, CopyOut, EndOfOutput, EspeakReturns, Feed, Encode,
     EncodeReturns, Run, OpenStream, ReadEvent, Finish, Set, handlerVars, Types
<1>2. kind[r] = "job" => pc'[r] # "slot"
  <2>1. CASE Speech(r)
    <3>1. kind[r] = "job" => pc' = [pc EXCEPT ![r] = "stream"]
      BY <2>1, SpeechBranch DEF Queued
    <3> QED
      BY <1>0, <3>1 DEF Types
  <2>2. CASE ~ Speech(r)
    <3>1. pc' = pc \/ \E v \in {"stream", "over", "store", "giveup"} : pc' = [pc EXCEPT ![r] = v]
      <4>1. CASE Waited(r)
        BY <4>1 DEF Waited, Set
      <4>2. CASE Leave(r) \/ Handle(r)
        BY <4>1, <4>2 DEF Leave, Handle, StreamSpeech, NoSlot, Synthesized, CompleteJob, GiveUp, Set
      <4>3. CASE Synthesize(r)
        BY <4>3 DEF Synthesize, EspeakStream, EspeakRuns, CopyOut, EndOfOutput, EspeakReturns, Feed,
           Encode, EncodeReturns, Run, OpenStream, ReadEvent, Finish, handlerVars
      <4> QED
        BY <2>2, <4>2, <4>3 DEF Of
    <3> QED
      BY <1>0, <3>1 DEF Answered, Types
  <2> QED
    BY <2>1, <2>2
<1>3. kind[r] # "job" /\ pc'[r] # "over" => body'[r] = buf'[r]
  <2> SUFFICES ASSUME kind[r] # "job", pc'[r] # "over" PROVE body'[r] = buf'[r]
    OBVIOUS
  <2>1. body[r] = buf[r] /\ pc[r] # "over"
    BY <1>0, <1>1 DEF Answered
  <2>2. CASE Quiet(r)
    BY <2>1, <2>2 DEF Quiet
  <2>3. ASSUME NEW c \in 1..Chunks, Write(r, c) PROVE body'[r] = buf'[r]
    BY <1>0, <2>1, <2>3 DEF Write, WriteBody, Types, ResponseTypes
  <2> QED
    BY <2>2, <2>3, StepWrites DEF Chunk, Refused
<1>4. kind[r] # "job" /\ stored'[r] # NotStored => body'[r] = stored'[r]
  <2> SUFFICES ASSUME kind[r] # "job", stored'[r] # NotStored PROVE body'[r] = stored'[r]
    OBVIOUS
  <2>1. CASE /\ stored' = [stored EXCEPT ![r] = buf[r]] /\ pc[r] \in {"stream", "wait"}
             /\ UNCHANGED <<body, buf>>
    BY <1>0, <2>1 DEF Answered, ResponseTypes
  <2>2. CASE stored' = stored
    <3>1. body[r] = stored[r]
      BY <1>0, <2>2 DEF Answered
    <3>2. synth[r] = "read" => pc[r] = "over"
      BY <1>0, <2>2 DEF Whole, Handled, Served, Types
    <3>3. ASSUME NEW c \in 1..Chunks, Write(r, c), synth[r] = "read" PROVE body'[r] = body[r]
      BY <3>2, <3>3 DEF Write, WriteBody
    <3> QED
      BY <2>2, <3>1, <3>3, StepWrites DEF Quiet, Chunk, Refused
  <2> QED
    BY <2>1, <2>2, StepStores
<1>5. ErrorBehindAudio(r)' => kind[r] \in Queued /\ gone'[r]
  <2>1. CASE kind[r] # "job" /\ pc'[r] # "over"
    <3>1. body'[r] = buf'[r] /\ buf'[r] \in Seq(Nat) /\ made'[r] \in Nat
      BY <1>3, <2>1 DEF IInv, Types
    <3>2. \A i \in DOMAIN buf'[r] : buf'[r][i] # 0
      BY <3>1 DEF Bounded
    <3> QED
      BY <3>1, <3>2 DEF ErrorBehindAudio
  <2>2. ASSUME body'[r] = body[r] PROVE ErrorBehindAudio(r)' => kind[r] \in Queued /\ gone'[r]
    BY <1>0, <2>2, StepHeader DEF Answered, ErrorBehindAudio
  <2>3. CASE kind[r] = "job" \/ pc'[r] = "over"
    <3>1. CASE Quiet(r)
      BY <2>2, <3>1 DEF Quiet
    <3>2. ASSUME NEW c \in 1..Chunks, Write(r, c), synth[r] = "read" PROVE body'[r] = body[r]
      <4>1. buf'[r] = Append(buf[r], c) /\ buf[r] \in Seq(Nat)
        BY <1>0, <3>2 DEF Write, Types
      <4>2. buf' # buf
        <5>1. Len(buf'[r]) = Len(buf[r]) + 1 /\ Len(buf[r]) \in Nat
          BY <4>1
        <5> QED
          BY <5>1
      <4>3. pc' = pc
        BY <4>2 DEF Of, Speech, Leave, Handle, StreamSpeech, NoSlot, Synthesized, CompleteJob, Waited,
           GiveUp, Synthesize, EspeakStream, EspeakRuns, CopyOut, EndOfOutput, EspeakReturns, Feed,
           Encode, EncodeReturns, Run, OpenStream, ReadEvent, Finish, handlerVars, jobVars
      <4> QED
        BY <2>3, <3>2, <4>3 DEF Write, WriteBody
    <3>3. CASE Refused(r)
      <4>1. CASE body[r] = <<>>
        <5>1. body'[r] = <<>> \/ body'[r] = Append(<<>>, 0)
          BY <1>0, <3>3, <4>1 DEF Refused, WriteProviderError, WriteBody, ResponseTypes
        <5>2. Append(<<>>, 0) = <<0>>
          OBVIOUS
        <5>3. \A i, j \in DOMAIN body'[r] : ~ (i < j)
          BY <5>1, <5>2
        <5> QED
          BY <5>3 DEF ErrorBehindAudio
      <4>2. CASE kind[r] \in Queued /\ gone[r]
        BY <4>2, StepHeader
      <4> QED
        BY <3>3, <4>1, <4>2 DEF Refused
    <3> QED
      BY <2>2, <3>1, <3>2, <3>3, StepWrites DEF Chunk
  <2> QED
    BY <2>1, <2>3
<1> QED
  BY <1>2, <1>3, <1>4, <1>5 DEF Answered

LEMMA NextSound == RInv /\ [Next]_vars => RInv'
<1> SUFFICES ASSUME RInv, [Next]_vars PROVE RInv'
  OBVIOUS
<1>1. IInv'
  BY NextInv DEF RInv
<1>2. ASSUME NEW r \in Requests, Of(r) PROVE RInv'
  <2>1. Alone(r) /\ kind' = kind
    BY <1>2, StepTypes DEF RInv, Alone
  <2>2. Bounded(r)'
    BY <1>2, StepBounded
  <2>3. Sound(r)'
    BY <1>1, <1>2, <2>1, <2>2, StepAnswered, StepServed DEF Sound
  <2> QED
    BY <1>1, <1>2, <2>1, <2>3, StepBody, StepHeader, OthersSound
<1>3. CASE UNCHANGED vars
  <2>1. ResponseTypes'
    BY <1>3 DEF vars, handlerVars, RInv, ResponseTypes
  <2>2. ASSUME NEW r \in Requests PROVE Sound(r)'
    BY <1>3 DEF vars, handlerVars, jobVars, procVars, RInv, Sound, Bounded, Answered, Served,
       ErrorBehindAudio
  <2> QED
    BY <1>1, <2>1, <2>2 DEF RInv
<1> QED
  BY <1>2, <1>3 DEF Next, Of

-----------------------------------------------------------------------------
(* The theorems *)

\* Handler, processes and goroutines of every espeak stream stay in step, whichever of
\* them ends or fails first (server.streamSpeech, espeak.SynthesizeStream).
THEOREM InductiveInvariant == Spec => []IInv
  BY InitInv, NextInv, PTL DEF Spec

\* An espeak stream succeeds only with all of its audio: an early end of espeak-ng or
\* ffmpeg, or a lost client, always shows as an error.
THEOREM SuccessMeansWhole == Spec => []EspeakWhole
<1>1. IInv => EspeakWhole
  BY DEF IInv, Types, Whole, Handled, Returned, EspeakWhole, Upto
<1> QED
  BY <1>1, InductiveInvariant, PTL

\* The audio of a stream is stored before its job is seen to have succeeded, and that
\* of a failed one is never stored.
THEOREM SuccessMeansStored == Spec => []StoredBeforeSuccess
<1>1. IInv => StoredBeforeSuccess
  BY DEF IInv, Types, Whole, Handled, StoredBeforeSuccess, Espeak
<1> QED
  BY <1>1, InductiveInvariant, PTL

(* Every reachable state satisfies what the response needs as well: bounds on a stream's
   chunks, and a response that is what was collected. *)
THEOREM ResponsesAreSound == Spec => []RInv
  BY InitSound, NextSound, PTL DEF Spec

(* For any requests, kinds of streams and numbers of chunks, every variable has its type:
   no stage passes on more than the one before it, and what is collected and stored is
   audio in its order. *)
THEOREM TypeCorrect == Spec => []TypeOK
<1>1. RInv => TypeOK
  <2> SUFFICES ASSUME RInv PROVE TypeOK
    OBVIOUS
  <2>1. Types /\ ResponseTypes
    BY DEF RInv, IInv
  <2>2. ASSUME NEW r \in Requests
        PROVE  /\ body[r] \in Seq(0..Chunks) /\ buf[r] \in Audio
               /\ stored[r] \in Audio \cup {NotStored}
    BY <2>1, CollectedIsAudio DEF RInv, Sound, ResponseTypes
  <2>3. ASSUME NEW r \in Requests
        PROVE  /\ 0 <= fed[r] /\ fed[r] <= copied[r]
               /\ copied[r] <= made[r] /\ made[r] <= Chunks
    BY <2>1 DEF RInv, Sound, Bounded, Types
  <2> QED
    BY <2>1, <2>2, <2>3 DEF Types, ResponseTypes, TypeOK
<1> QED
  BY <1>1, ResponsesAreSound, PTL

(* What the store keeps of a stream is what its client was sent, chunk for chunk and
   nothing else; an espeak job that succeeds has all of its audio, and it is stored
   before success is seen: for any requests, however their processes, goroutines and
   clients end (server.streamSpeech, queuedStreamSpeech). *)
THEOREM KeptAudioIsRight == Spec => []KeptAudio
<1>1. RInv => StoredIsSent
  BY DEF RInv, Sound, Answered, StoredIsSent
<1> QED
  BY <1>1, ResponsesAreSound, SuccessMeansWhole, SuccessMeansStored, PTL DEF KeptAudio

(* No error text follows audio, except for the caller of a queued stream who leaves
   (server.writeProviderError behind flushWriter.headerWritten). *)
THEOREM AudioIsNotFollowedByError == Spec => []ErrorNeverFollowsAudio
<1>1. RInv => ErrorNeverFollowsAudio
  BY DEF RInv, Sound, Answered, ErrorNeverFollowsAudio
<1> QED
  BY <1>1, ResponsesAreSound, PTL
=============================================================================
