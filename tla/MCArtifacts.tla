---------------------------- MODULE MCArtifacts ----------------------------
(* Small instances of Artifacts. *)
EXTENDS Artifacts, TLC

CONSTANTS k1, k2, k3

ThreeCommands == {k1, k2, k3}
Symmetry == Permutations(ThreeCommands)
TwoProviders == <<"a", "b">>
Run(kind, source) == [kind |-> kind, source |-> source]
AllJobs == {Run("demo", "none"), Run("run-mock", "none"), Run("inspect", "none"),
            Run("break-receipt", "receipt"), Run("break-receipt", "local_receipt"),
            Run("break-receipt", "receipt_tampered")}
=============================================================================
