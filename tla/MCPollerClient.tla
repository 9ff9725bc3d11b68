--------------------------- MODULE MCPollerClient ---------------------------
(* Model values and symmetry for checking PollerClient.                    *)
EXTENDS PollerClient, TLC

Symmetry == Permutations(Channels)

=============================================================================
