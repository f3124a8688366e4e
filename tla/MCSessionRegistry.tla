------------------------- MODULE MCSessionRegistry --------------------------
(* Two ids of one multiplexer session and one simulated session. *)
EXTENDS LinkedSessions, TLC

CONSTANTS a, b, fake, src

MCIds == {a, b, fake}
MCSources == {src}
MCSourceOf == [id \in MCIds |-> IF id = fake THEN NoSource ELSE src]

\* The two names of the source are interchangeable.
NameSymmetry == Permutations({a, b})
=============================================================================
