----------------------------- MODULE Segmentation -----------------------------
(***************************************************************************)
(* How a long text is cut for a model that can hold only so many words     *)
(* (package segment).  A sentence, a chunk and a line are all runs of      *)
(* words, of which only two things matter: the words, in order, and        *)
(* whether the last one carries a mark a sentence can end with.            *)
(***************************************************************************)
EXTENDS Naturals, Sequences, SequencesExt

WordCount(line) == Len(line.words)

\* strings.Join of runs of words.
Join(lines) == [words |-> FlattenSeq([i \in DOMAIN lines |-> lines[i].words]),
                ended |-> lines # <<>> /\ lines[Len(lines)].ended]

\* A sentence longer than the cap is cut on words.
Chop(line, max) ==
  LET n == WordCount(line)
  IN [i \in 1..((n + max - 1) \div max) |->
        [words |-> SubSeq(line.words, (i - 1) * max + 1, IF i * max > n THEN n ELSE i * max),
         ended |-> line.ended /\ i * max >= n]]

Flush(p) == IF p.cur = <<>> THEN p.chunks ELSE Append(p.chunks, Join(p.cur))

\* The next sentence, after the chunks made so far and the sentences of the current one.
Take(target, max, p, s) ==
  LET curWords == WordCount(Join(p.cur))
  IN CASE WordCount(s) = 0 -> p
       [] WordCount(s) > max -> [chunks |-> Flush(p) \o Chop(s, max), cur |-> <<>>]
       [] /\ WordCount(s) \in 1..max
          /\ curWords > 0 /\ curWords + WordCount(s) > target
            -> [chunks |-> Flush(p), cur |-> <<s>>]
       [] OTHER -> [p EXCEPT !.cur = Append(@, s)]

\* Sentences are put together up to target words, never above max.
Pack(sentences, targetWords, max) ==
  LET target == IF targetWords = 0 \/ targetWords > max THEN max ELSE targetWords
  IN IF max = 0 THEN <<>>
     ELSE Flush(FoldLeft(LAMBDA p, s : Take(target, max, p, s),
                         [chunks |-> <<>>, cur |-> <<>>], sentences))

EndsSentence(line) == line.ended
Terminate(line) == IF EndsSentence(line) THEN line ELSE [line EXCEPT !.ended = TRUE]
=============================================================================
