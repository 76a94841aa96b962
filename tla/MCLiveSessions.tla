--------------------------- MODULE MCLiveSessions ---------------------------
(* Instances of LiveSessions: two sessions and an upload in two languages. *)
EXTENDS LiveSessions

CONSTANTS s1, s2, u1, en, el

RequestLanguage == [r \in Requests |-> IF r = s1 THEN en ELSE el]
FramesThatFit == [r \in Requests |-> IF r = s1 THEN 1 ELSE 2]
=============================================================================
