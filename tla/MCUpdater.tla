------------------------------ MODULE MCUpdater -----------------------------
(* Instances of Updater for TLC.                                           *)
EXTENDS Updater, TLC

MCBackoff == <<1, 2>>

OneBackoff == <<1>>

Slots == Permutations(Procs)
=============================================================================
