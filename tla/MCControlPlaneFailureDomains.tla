------------------ MODULE MCControlPlaneFailureDomains ------------------
(* Three replicas over two failure domains, with one spare machine name   *)
(* so that a rollout can surge by one.                                     *)
EXTENDS ControlPlaneFailureDomains, TLC

CONSTANTS i1, i2, i3, i4, fa, fb

MCIds == {i1, i2, i3, i4}
MCFDs == {fa, fb}

====
