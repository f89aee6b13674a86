------------------------------ MODULE MCHierarchy -----------------------------
(* Instances of Hierarchy for TLC.                                         *)
EXTENDS Hierarchy, TLC

CONSTANTS o1, p1, j1, e1, r1, r2, a1

(* One chain from the organization to an account, with a second region.    *)
KindOfRows ==
    o1 :> "organization" @@ p1 :> "product" @@ j1 :> "project"
        @@ e1 :> "environment" @@ r1 :> "region" @@ r2 :> "region"
        @@ a1 :> "account"
Rows == DOMAIN KindOfRows

Interchangeable == Permutations({r1, r2}) \cup Permutations(Handler)
===============================================================================
