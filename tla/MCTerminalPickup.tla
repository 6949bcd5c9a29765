-------------------------- MODULE MCTerminalPickup --------------------------
(***************************************************************************)
(* TerminalPickup for TLC. Create requests, polls and waiters are each     *)
(* interchangeable.                                                        *)
(***************************************************************************)
EXTENDS TerminalPickup, TLC

Symmetry ==
    Permutations(Creates) \cup Permutations(Polls) \cup Permutations(Waiters)
=============================================================================
