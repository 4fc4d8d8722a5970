---------------------------- MODULE MCEtlExtract ----------------------------
(* Small instances of EtlExtract.                                          *)
EXTENDS EtlExtract, TLC

CONSTANTS s1, s2

(* One old order that has not arrived yet.                                 *)
OnTheWay == 1 :> "shipped"

(* Two old orders that customers may send back.                            *)
Arrived == 1 :> "delivered" @@ 2 :> "delivered"

SessionSymmetry == Permutations({s1, s2})
=============================================================================
