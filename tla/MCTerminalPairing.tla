------------------------- MODULE MCTerminalPairing -------------------------
(***************************************************************************)
(* TerminalPairing for TLC. Handlers of one role are interchangeable.      *)
(***************************************************************************)
EXTENDS TerminalPairing, TLC

Symmetry == Permutations(Browsers) \cup Permutations(Agents)
=============================================================================
