--------------------------- MODULE MCSpeechStreams ---------------------------
(* Instances of SpeechStreams: two requests that may compete for a slot or for *)
(* a worker.                                                                  *)
EXTENDS SpeechStreams

CONSTANTS r1, r2

AnyOfTwo == (r1 :> {"encoded", "omnivoice", "supertonic"}) @@ (r2 :> {"wav", "encoded", "job", "omnivoice"})
OneEncoded == [r \in Requests |-> {"encoded"}]
==============================================================================
