-------------------------- MODULE MCPluginDeletion --------------------------
(* Instances of PluginDeletion for TLC.                                    *)
EXTENDS PluginDeletion, TLC

CONSTANTS s1, s2

OneServer == {s1}
TwoServers == {s1, s2}
Symmetry == Permutations(TwoServers)
=============================================================================
