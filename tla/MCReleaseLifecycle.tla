-------------------------- MODULE MCReleaseLifecycle --------------------------
(* Three releases, that share an audio object.                             *)
EXTENDS ReleaseLifecycle, TLC

CONSTANTS A, B, C, x, s1

SharedAudio == [rel \in Releases |-> {x}]
Interchangeable == Permutations(Releases)
BothDrivers == {"local", "remote"}
OnlyRemote == {"remote"}
=============================================================================
