--------------------------- MODULE MCAttachReplay ---------------------------
(* Instances of AttachReplay for TLC.  Clients only differ by name. *)
EXTENDS AttachReplay, TLC

ClientSymmetry == Permutations(Clients)

\* With one connection nothing is promised once it is torn down: the run that
\* checks the safety properties does not follow a behaviour any further.
ConnOpen == ~connDone
=============================================================================
