---------------------------- MODULE MCKKInstance ----------------------------
(* Model-checking instance of KKInstance: one Kubernetes host and one K3s    *)
(* host, a two-command bootstrap payload, one remote failure in the run and *)
(* one controller restart.                                                  *)
EXTENDS KKInstance, TLC

CONSTANTS h1, h2

MCHosts == {h1, h2}

MCDistribution == (h1 :> "KUBERNETES") @@ (h2 :> "K3S")
====
