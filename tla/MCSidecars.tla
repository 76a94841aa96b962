------------------------------ MODULE MCSidecars ------------------------------
EXTENDS Sidecars
CONSTANTS j1, j2, u1, u2

MCProviders == {"kokoro", "chatterbox", "cosyvoice", "omnivoice", "supertonic", "pyannote",
  "wespeaker", "sortformer", "htdemucs", "bs-roformer", "htdemucs-dnr", "parakeet",
  "qwen3-asr", "nemotron", "faster-whisper"}

MCLanguages == {"en"}
MCLanguage == [j \in Jobs |-> "en"]

\* Sentences that are short, at the cap, or chopped in two or three; all with a full
\* stop or none.
Sizes == {<<1>>, <<3>>, <<7>>, <<0, 4>>, <<3, 1>>, <<1, 3>>, <<1, 1, 1>>, <<1, 1, 2>>,
          <<2, 1, 3>>, <<1, 7, 1>>, <<1, 1, 1, 1>>, <<4, 2, 0, 6>>}
MCTexts == {[i \in DOMAIN s |->
               LET n == FoldLeft(LAMBDA t, k : t + k, 0, SubSeq(s, 1, i - 1))
               IN [words |-> [k \in 1..s[i] |-> n + k], ended |-> stops]] :
              s \in Sizes, stops \in BOOLEAN}

Event(t, x) == [type |-> t, text |-> x]
MCTranscripts == UNION {[1..n -> {Event("text", 0), Event("text", 1), Event("text", 2),
                                  Event("error", 0)}] : n \in 0..3}
=============================================================================
